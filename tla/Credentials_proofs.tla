-------------------------- MODULE Credentials_proofs --------------------------
(***************************************************************************)
(* Proofs about what can be used once, for any number of requests, codes,  *)
(* captchas and states: each kind implements module SingleUse.             *)
(***************************************************************************)
EXTENDS MCCredentials, FiniteSetTheorems, TLAPS

-----------------------------------------------------------------------------
(* Captchas.  A challenge was taken by the one who has solved it, and its   *)
(* verification is not there yet.                                           *)

CaptchaTypes ==
  /\ challenge \in [Challenge -> KeyState] /\ verification \in [Challenge -> KeyState]
  /\ checked \in [Challenge -> Nat] /\ verified \in [Challenge -> Nat]
  /\ checking \in [Proc -> {0} \cup Challenge]

SolvedOnce ==
  /\ \A k \in Challenge : verification[k] # "unissued" => challenge[k] = "spent"
  /\ \A p \in Proc : checking[p] # 0 => /\ challenge[checking[p]] = "spent"
                                        /\ verification[checking[p]] = "unissued"
  /\ \A p, q \in Proc : p # q /\ checking[p] # 0 => checking[q] # checking[p]

CaptchaInv == CaptchaTypes /\ SolvedOnce

LEMMA CaptchaInitially == CaptchaInit => CaptchaInv
BY DEF CaptchaInit, CaptchaInv, CaptchaTypes, SolvedOnce, KeyState

\* Challenges are numbered from one.
LEMMA ChallengeNumbers == 0 \notin Challenge /\ \A k \in Challenge : k \in 1 .. k /\ k \in Nat
BY CaptchaAssumption DEF Challenge

\* What every step of the captcha does to both kinds of tickets.
LEMMA CaptchaStep ==
  ASSUME CaptchaInv, [CaptchaNext]_captchaVars
  PROVE  /\ CaptchaInv'
         /\ [ChallengeSU!Next]_<<challenge, checked>>
         /\ [VerificationSU!Next]_<<verification, verified>>
<1> USE ChallengeNumbers DEF KeyState
<1> USE DEF ChallengeSU!Next, ChallengeSU!Issue, ChallengeSU!Redeem, ChallengeSU!Cancel, ChallengeSU!Move,
            VerificationSU!Next, VerificationSU!Issue, VerificationSU!Redeem, VerificationSU!Cancel,
            VerificationSU!Move
<1>1. CASE GetCaptcha
  <2>1. PICK k \in Challenge : challenge[k] = "unissued" /\ challenge' = [challenge EXCEPT ![k] = "valid"]
    BY <1>1 DEF GetCaptcha
  <2>2. UNCHANGED <<verification, checking, checked, verified>>
    BY <1>1 DEF GetCaptcha
  <2>. QED  BY <2>1, <2>2 DEF CaptchaInv, CaptchaTypes, SolvedOnce
<1>2. CASE CaptchaExpires
  <2>1. UNCHANGED <<checking, checked, verified>>
    BY <1>2 DEF CaptchaExpires
  <2>2. PICK k \in Challenge :
          \/ challenge[k] = "valid" /\ challenge' = [challenge EXCEPT ![k] = "void"] /\ UNCHANGED verification
          \/ verification[k] = "valid" /\ verification' = [verification EXCEPT ![k] = "void"] /\ UNCHANGED challenge
    BY <1>2 DEF CaptchaExpires
  <2>. QED  BY <2>1, <2>2 DEF CaptchaInv, CaptchaTypes, SolvedOnce
<1>3. ASSUME NEW p \in Proc, Check(p)
      PROVE  CaptchaInv' /\ ChallengeSU!Next /\ UNCHANGED <<verification, verified>>
  <2>1. PICK k \in Challenge, right \in BOOLEAN :
          /\ challenge[k] = "valid"
          /\ challenge' = [challenge EXCEPT ![k] = "spent"]
          /\ checked' = [checked EXCEPT ![k] = @ + 1]
          /\ checking' = [checking EXCEPT ![p] = IF right THEN k ELSE 0]
    BY <1>3 DEF Check
  <2>2. UNCHANGED <<verification, verified>> /\ checking[p] = 0
    BY <1>3 DEF Check
  <2>3. \A q \in Proc : checking[q] # k
    BY <2>1 DEF CaptchaInv, CaptchaTypes, SolvedOnce
  <2>4. /\ challenge'[k] = "spent" /\ \A j \in Challenge : j # k => challenge'[j] = challenge[j]
        /\ checking'[p] \in {0, k} /\ \A q \in Proc : q # p => checking'[q] = checking[q]
        /\ verification[k] = "unissued"
    BY <2>1 DEF CaptchaInv, CaptchaTypes, SolvedOnce
  <2>5. CaptchaTypes'
    BY <2>1, <2>2 DEF CaptchaInv, CaptchaTypes
  <2>6. SolvedOnce'
    BY <2>2, <2>3, <2>4 DEF CaptchaInv, CaptchaTypes, SolvedOnce
  <2>7. ChallengeSU!Next
    BY <2>1
  <2>. QED  BY <2>2, <2>5, <2>6, <2>7 DEF CaptchaInv
<1>4. ASSUME NEW p \in Proc, CheckReplies(p)
      PROVE  CaptchaInv' /\ UNCHANGED <<challenge, checked>> /\ [VerificationSU!Next]_<<verification, verified>>
  <2>1. PICK ok \in BOOLEAN :
          verification' = [verification EXCEPT ![checking[p]] = IF ok THEN "valid" ELSE @]
    BY <1>4 DEF CheckReplies
  <2>2. /\ checking[p] \in Challenge /\ checking' = [checking EXCEPT ![p] = 0]
        /\ UNCHANGED <<challenge, checked, verified>>
    BY <1>4 DEF CheckReplies, CaptchaInv, CaptchaTypes, SolvedOnce
  <2>3. /\ \A j \in Challenge : j # checking[p] => verification'[j] = verification[j]
        /\ checking'[p] = 0 /\ \A q \in Proc : q # p => checking'[q] = checking[q]
        /\ verification[checking[p]] = "unissued" /\ challenge[checking[p]] = "spent"
    BY <2>1, <2>2 DEF CaptchaInv, CaptchaTypes, SolvedOnce
  <2>4. CaptchaTypes'
    BY <2>1, <2>2 DEF CaptchaInv, CaptchaTypes
  <2>5. SolvedOnce'
    BY <2>2, <2>3 DEF CaptchaInv, CaptchaTypes, SolvedOnce
  <2>6. [VerificationSU!Next]_<<verification, verified>>
    BY <2>1, <2>2, <2>3 DEF CaptchaInv, CaptchaTypes
  <2>. QED  BY <2>2, <2>4, <2>5, <2>6 DEF CaptchaInv
<1>5. CASE Verify
  <2>1. PICK k \in Challenge : /\ verification[k] = "valid"
                               /\ verification' = [verification EXCEPT ![k] = "spent"]
                               /\ verified' = [verified EXCEPT ![k] = @ + 1]
    BY <1>5 DEF Verify
  <2>2. UNCHANGED <<challenge, checking, checked>>
    BY <1>5 DEF Verify
  <2>3. CaptchaTypes'
    BY <2>1, <2>2 DEF CaptchaInv, CaptchaTypes
  <2>4. SolvedOnce'
    BY <2>1, <2>2 DEF CaptchaInv, CaptchaTypes, SolvedOnce
  <2>5. VerificationSU!Next /\ UNCHANGED <<challenge, checked>>
    BY <2>1, <2>2
  <2>. QED  BY <2>3, <2>4, <2>5 DEF CaptchaInv
<1>6. CASE UNCHANGED captchaVars
  BY <1>6 DEF captchaVars, CaptchaInv, CaptchaTypes, SolvedOnce
<1>. QED  BY <1>1, <1>2, <1>3, <1>4, <1>5, <1>6 DEF CaptchaNext

\* A challenge lets one answer through, and its verification one login, however
\* many come (captcha/service.go).
THEOREM CaptchasOnce == CaptchaSpec => ChallengeSU!Spec /\ VerificationSU!Spec
<1>1. CaptchaInit => ChallengeSU!Init /\ VerificationSU!Init
  BY DEF CaptchaInit, ChallengeSU!Init, VerificationSU!Init
<1>. QED  BY CaptchaInitially, CaptchaStep, <1>1, PTL
          DEF CaptchaSpec, ChallengeSU!Spec, VerificationSU!Spec

-----------------------------------------------------------------------------
(* Social login.  What a request knows of the tables is true until another  *)
(* one inserts a row, which leaves it disturbed.                             *)

SocRequest ==
  [at : {"rest", "consume", "lookup", "find", "save", "drop", "drop2", "insert"},
   op : {None, "login", "bind", "look"}, key : {0} \cup StateId, openid : OpenId \cup {None},
   user : Account \cup {None}, type : UserType \cup {None}, social : Nat, drops : SUBSET Nat,
   disturbed : BOOLEAN]

SocialRow == [openid : OpenId \cup {None}, key : {0} \cup StateId]
BindRow == [user : Account \cup {None}, type : UserType \cup {None}, social : Nat, live : BOOLEAN]

StateTypes == stateKey \in [StateId -> KeyState] /\ consumed \in [StateId -> Nat]

RowTypes == /\ socials \in Seq(SocialRow) /\ binds \in Seq(BindRow)
            /\ soc \in [Proc -> SocRequest]

\* What request r knows.
Knows(r) ==
  /\ r.at = "consume" => r.key \in StateId
  /\ r.at = "save" => r.social \in {0} \cup DOMAIN socials
  /\ r.at = "save" /\ r.social = 0 /\ ~ r.disturbed => \A i \in DOMAIN socials : socials[i].openid # r.openid
  /\ r.at \in {"drop2", "insert"} /\ ~ r.disturbed =>
       \A b \in DOMAIN binds : SameSocial(binds[b], r) => b \in r.drops
  /\ r.at = "insert" /\ ~ r.disturbed =>
       \A b \in DOMAIN binds : SameUser(binds[b], r) => b \in r.drops

RowsInv == RowTypes /\ (\A p \in Proc : Knows(soc[p])) /\ OneBindingUnlessRaced

LEMMA StateNumbers == 0 \notin StateId /\ \A k \in StateId : k \in 1 .. k
BY SocialAssumption DEF StateId

LEMMA SocialInitially == SocialInit => StateTypes /\ RowsInv
<1> SUFFICES ASSUME SocialInit PROVE StateTypes /\ RowsInv
  OBVIOUS
<1>1. StateTypes
  BY DEF SocialInit, StateTypes, KeyState
<1>2. IdleSoc \in SocRequest /\ IdleSoc.at = "rest"
  BY DEF IdleSoc, SocRequest
<1>3. socials = <<>> /\ binds = <<>> /\ soc = [p \in Proc |-> IdleSoc]
  BY DEF SocialInit
<1>4. RowTypes
  BY <1>2, <1>3 DEF RowTypes
<1>5. \A p \in Proc : Knows(soc[p])
  BY <1>2, <1>3 DEF Knows
<1>6. OneBindingUnlessRaced
  BY <1>3 DEF OneBindingUnlessRaced
<1>. QED  BY <1>1, <1>4, <1>5, <1>6 DEF RowsInv

\* A request that only reads goes on with what it has read.
LEMMA SocGoesStep ==
  ASSUME RowsInv, NEW p \in Proc, NEW r \in SocRequest, Knows(r), SocGoes(p, r),
         UNCHANGED <<socials, binds, racedSoc, racedBind>>
  PROVE  RowsInv'
<1>1. soc'[p] = r /\ \A q \in Proc : q # p => soc'[q] = soc[q]
  BY DEF RowsInv, RowTypes, SocGoes
<1>2. RowTypes'
  BY DEF RowsInv, RowTypes, SocGoes
<1>3. \A q \in Proc : Knows(soc'[q])
  BY <1>1 DEF RowsInv
<1>4. \A q \in Proc : Knows(soc[q])'
  BY <1>3 DEF Knows, SameSocial, SameUser
<1>5. OneBindingUnlessRaced'
  BY DEF RowsInv, OneBindingUnlessRaced, SameSocial, SameUser
<1>. QED  BY <1>2, <1>4, <1>5 DEF RowsInv

LEMMA IdleRequest == IdleSoc \in SocRequest /\ Knows(IdleSoc)
BY DEF IdleSoc, SocRequest, Knows

LEMMA BindingRequest ==
  ASSUME NEW r \in SocRequest, NEW i \in Nat
  PROVE  Binding(r, i) \in SocRequest /\ Knows(Binding(r, i))
BY DEF Binding, IdleSoc, SocRequest, Knows

\* The steps that read.
LEMMA ReadStep ==
  ASSUME RowsInv, NEW p \in Proc,
         \/ LoginUser(p) \/ BindUser(p) \/ SocialByCode(p) \/ consumeState(p)
         \/ BindUserID(p) \/ FindSocialUser(p) \/ DropBySocial(p) \/ DropByUser(p) \/ SocAborts(p)
  PROVE  RowsInv'
<1>1. UNCHANGED <<socials, binds, racedSoc, racedBind>>
  BY DEF LoginUser, BindUser, SocialByCode, consumeState, BindUserID, FindSocialUser, DropBySocial,
         DropByUser, SocAborts
<1>2. /\ soc[p] \in SocRequest /\ Knows(soc[p]) /\ DOMAIN socials \subseteq Nat /\ DOMAIN binds \subseteq Nat
      /\ 0 \notin DOMAIN socials
  BY DEF RowsInv, RowTypes
<1>3. CASE SocRests(p)
  BY <1>1, <1>3, IdleRequest, SocGoesStep DEF SocRests
<1>4. ASSUME NEW r \in SocRequest, r.key \in StateId, Reusing(p, r)
      PROVE  RowsInv'
  <2>1. [r EXCEPT !.at = "consume"] \in SocRequest /\ Knows([r EXCEPT !.at = "consume"])
    BY <1>4 DEF SocRequest, Knows
  <2>2. \A i \in DOMAIN socials : Binding(r, i) \in SocRequest /\ Knows(Binding(r, i))
    BY <1>2, BindingRequest
  <2>3. \/ SocGoes(p, [r EXCEPT !.at = "consume"]) \/ SocRests(p)
        \/ \E i \in DOMAIN socials : SocGoes(p, Binding(r, i))
    BY <1>4 DEF Reusing, SocialUserByCodeState
  <2>. QED  BY <1>1, <1>3, <2>1, <2>2, <2>3, SocGoesStep
<1>5. CASE LoginUser(p)
  <2>1. PICK k \in StateId : SocGoes(p, [IdleSoc EXCEPT !.at = "consume", !.op = "login", !.key = k])
    BY <1>5 DEF LoginUser
  <2> DEFINE r == [IdleSoc EXCEPT !.at = "consume", !.op = "login", !.key = k]
  <2>2. r \in SocRequest /\ Knows(r)
    BY DEF IdleSoc, SocRequest, Knows
  <2> HIDE DEF r
  <2>. QED  BY <1>1, <2>1, <2>2, SocGoesStep DEF r
<1>6. CASE BindUser(p)
  <2>1. PICK k \in StateId, u \in Account, t \in UserType :
          Reusing(p, [IdleSoc EXCEPT !.op = "bind", !.key = k, !.user = u, !.type = t])
    BY <1>6 DEF BindUser
  <2> DEFINE r == [IdleSoc EXCEPT !.op = "bind", !.key = k, !.user = u, !.type = t]
  <2>2. r \in SocRequest /\ r.key \in StateId
    BY DEF IdleSoc, SocRequest
  <2> HIDE DEF r
  <2>. QED  BY <1>4, <2>1, <2>2 DEF r
<1>7. CASE SocialByCode(p)
  <2>1. PICK k \in StateId : Reusing(p, [IdleSoc EXCEPT !.op = "look", !.key = k])
    BY <1>7 DEF SocialByCode
  <2> DEFINE r == [IdleSoc EXCEPT !.op = "look", !.key = k]
  <2>2. r \in SocRequest /\ r.key \in StateId
    BY DEF IdleSoc, SocRequest
  <2> HIDE DEF r
  <2>. QED  BY <1>4, <2>1, <2>2 DEF r
<1>8. CASE consumeState(p)
  <2>1. SocRests(p) \/ ExchangeCode(p)
    BY <1>8 DEF consumeState
  <2>2. ASSUME NEW o \in OpenId,
               SocGoes(p, [soc[p] EXCEPT !.openid = o, !.at = IF soc[p].op = "login" THEN "lookup" ELSE "find"])
        PROVE  RowsInv'
    <3> DEFINE r == [soc[p] EXCEPT !.openid = o, !.at = IF soc[p].op = "login" THEN "lookup" ELSE "find"]
    <3>1. r \in SocRequest /\ Knows(r)
      BY <1>2 DEF SocRequest, Knows
    <3> HIDE DEF r
    <3>. QED  BY <1>1, <2>2, <3>1, SocGoesStep DEF r
  <2>. QED  BY <1>3, <2>1, <2>2 DEF ExchangeCode
<1>9. CASE BindUserID(p)
  <2> DEFINE r == [soc[p] EXCEPT !.at = "find"]
  <2>1. r \in SocRequest /\ Knows(r)
    BY <1>2 DEF SocRequest, Knows
  <2>2. SocRests(p) \/ SocGoes(p, r)
    BY <1>9 DEF BindUserID
  <2> HIDE DEF r
  <2>. QED  BY <1>1, <1>3, <2>1, <2>2, SocGoesStep
<1>10. CASE FindSocialUser(p)
  <2> DEFINE known == {i \in DOMAIN socials : socials[i].openid = soc[p].openid}
             r(i) == [soc[p] EXCEPT !.at = "save", !.social = i]
  <2>1. \A i \in Nat : /\ r(i) \in SocRequest /\ r(i).at = "save" /\ r(i).social = i
                       /\ r(i).openid = soc[p].openid
    BY <1>2 DEF SocRequest
  <2>2. \A i \in known : r(i) \in SocRequest /\ Knows(r(i))
    <3> SUFFICES ASSUME NEW i \in known PROVE r(i) \in SocRequest /\ Knows(r(i))
      OBVIOUS
    <3>1. i \in DOMAIN socials /\ i # 0 /\ i \in Nat
      BY <1>2
    <3>2. r(i) \in SocRequest /\ r(i).at = "save" /\ r(i).social = i
      BY <2>1, <3>1
    <3> HIDE DEF r
    <3>. QED  BY <3>1, <3>2 DEF Knows
  <2>3. known = {} => Knows(r(0))
    <3> SUFFICES ASSUME known = {} PROVE Knows(r(0))
      OBVIOUS
    <3>1. r(0).at = "save" /\ r(0).social = 0 /\ r(0).openid = soc[p].openid
      BY <2>1
    <3>2. \A i \in DOMAIN socials : socials[i].openid # soc[p].openid
      OBVIOUS
    <3> HIDE DEF r
    <3>. QED  BY <3>1, <3>2 DEF Knows
  <2>4. \/ known = {} /\ SocGoes(p, r(0))
        \/ \E i \in known : SocGoes(p, r(i))
    BY <1>10 DEF FindSocialUser
  <2>5. 0 \in Nat
    OBVIOUS
  <2> HIDE DEF r, known
  <2>. QED  BY <1>1, <2>1, <2>2, <2>3, <2>4, <2>5, SocGoesStep
<1>11. CASE DropBySocial(p)
  <2> DEFINE S == {b \in DOMAIN binds : SameSocial(binds[b], soc[p])}
             r == [soc[p] EXCEPT !.at = "drop2", !.drops = S]
  <2>1. SocGoes(p, r)
    BY <1>11 DEF DropBySocial
  <2>2. r \in SocRequest /\ r.at = "drop2" /\ r.drops = S /\ r.type = soc[p].type /\ r.social = soc[p].social
    BY <1>2 DEF SocRequest
  <2>3. Knows(r)
    BY <2>2 DEF Knows, SameSocial
  <2> HIDE DEF r
  <2>. QED  BY <1>1, <2>1, <2>2, <2>3, SocGoesStep
<1>12. CASE DropByUser(p)
  <2> DEFINE S == {b \in DOMAIN binds : SameUser(binds[b], soc[p])}
             r == [soc[p] EXCEPT !.at = "insert", !.drops = @ \cup S]
  <2>1. SocGoes(p, r) /\ soc[p].at = "drop2"
    BY <1>12 DEF DropByUser
  <2>2. /\ r \in SocRequest /\ r.at = "insert" /\ r.drops = soc[p].drops \cup S /\ r.type = soc[p].type
        /\ r.social = soc[p].social /\ r.user = soc[p].user /\ r.disturbed = soc[p].disturbed
    BY <1>2 DEF SocRequest
  <2>3. Knows(r)
    BY <1>2, <2>1, <2>2 DEF Knows, SameSocial, SameUser
  <2> HIDE DEF r
  <2>. QED  BY <1>1, <2>1, <2>2, <2>3, SocGoesStep
<1>13. CASE SocAborts(p)
  BY <1>3, <1>13 DEF SocAborts
<1>. QED  BY <1>5, <1>6, <1>7, <1>8, <1>9, <1>10, <1>11, <1>12, <1>13

LEMMA SavedRequest ==
  ASSUME NEW p \in Proc, NEW r \in SocRequest, NEW i \in Nat
  PROVE  /\ Saved(p, r, i) \in SocRequest
         /\ Saved(p, r, i).at \in {"rest", "drop"}
<1>1. Saved(p, r, i) = IdleSoc \/ Saved(p, r, i) = Binding(r, i)
  BY DEF Saved
<1>2. IdleSoc.at = "rest" /\ Binding(r, i).at = "drop"
  BY DEF IdleSoc, Binding
<1>. QED  BY <1>1, <1>2, IdleRequest, BindingRequest

LEMMA DisturbedRequest ==
  ASSUME NEW r \in SocRequest
  PROVE  LET d == [r EXCEPT !.disturbed = TRUE] IN
         d \in SocRequest /\ d.at = r.at /\ d.social = r.social /\ d.disturbed
BY DEF SocRequest

LEMMA EndedBinding ==
  ASSUME NEW b \in BindRow
  PROVE  LET d == [b EXCEPT !.live = FALSE] IN
         d \in BindRow /\ d.type = b.type /\ d.user = b.user /\ d.social = b.social /\ ~ d.live
BY DEF BindRow

\* Whoever was about to save the same openid is disturbed.
LEMMA SaveStep ==
  ASSUME RowsInv, NEW p \in Proc, SaveSocialUser(p)
  PROVE  RowsInv'
<1> DEFINE r == soc[p]
           k == IF r.op = "login" THEN 0 ELSE r.key
           n == Len(socials) + 1
           r0 == [r EXCEPT !.disturbed = FALSE]
<1>1. /\ r \in SocRequest /\ Knows(r) /\ r.at = "save" /\ k \in {0} \cup StateId /\ UNCHANGED <<binds, racedBind>>
      /\ socials \in Seq(SocialRow) /\ n \in Nat /\ n \notin DOMAIN socials
      /\ soc \in [Proc -> SocRequest]
  BY DEF RowsInv, RowTypes, SaveSocialUser, SocRequest
<1>2. r0 \in SocRequest
  BY <1>1 DEF SocRequest
<1>3. CASE r.social # 0
  <2>1. /\ socials' = [socials EXCEPT ![r.social].key = IF k = 0 THEN @ ELSE k]
        /\ SocGoes(p, Saved(p, r0, r.social)) /\ racedSoc' = racedSoc
    BY <1>3 DEF SaveSocialUser
  <2>2. r.social \in DOMAIN socials /\ r.social \in Nat
    BY <1>1, <1>3 DEF Knows, SocRequest
  <2>3. socials' \in Seq(SocialRow) /\ Len(socials') = Len(socials)
    <3> DEFINE row == [socials[r.social] EXCEPT !.key = IF k = 0 THEN @ ELSE k]
    <3>1. row \in SocialRow
      <4>1. socials[r.social] \in SocialRow
        BY <1>1, <2>2
      <4>2. CASE k = 0
        BY <4>1, <4>2 DEF SocialRow
      <4>3. CASE k # 0
        BY <1>1, <4>1, <4>3 DEF SocialRow
      <4>. QED  BY <4>2, <4>3
    <3>2. socials' = [socials EXCEPT ![r.social] = row]
      BY <2>1
    <3> HIDE DEF row
    <3>. QED  BY <1>1, <2>2, <3>1, <3>2
  <2>4. DOMAIN socials' = DOMAIN socials /\ \A i \in DOMAIN socials : socials'[i].openid = socials[i].openid
    BY <1>1, <2>1, <2>2, <2>3 DEF SocialRow
  <2>5. DEFINE s == Saved(p, r0, r.social)
  <2>6. s \in SocRequest /\ s.at \in {"rest", "drop"}
    BY <1>2, <2>2, SavedRequest
  <2>7. soc'[p] = s /\ \A q \in Proc : q # p => soc'[q] = soc[q]
    BY <1>1, <2>1 DEF SocGoes
  <2> HIDE DEF s, r0, k, n
  <2>8. RowTypes'
    BY <1>1, <2>1, <2>3, <2>6, <2>7 DEF RowsInv, RowTypes, SocGoes, s
  <2>9. \A q \in Proc : Knows(soc[q])'
    BY <1>1, <2>4, <2>6, <2>7 DEF RowsInv, Knows, SameSocial, SameUser
  <2>10. OneBindingUnlessRaced'
    BY <1>1, <2>1, <2>4 DEF RowsInv, OneBindingUnlessRaced, SameSocial, SameUser
  <2>. QED  BY <2>8, <2>9, <2>10 DEF RowsInv
<1>4. CASE r.social = 0
  <2> DEFINE s == Saved(p, r0, n)
  <2>1. /\ socials' = Append(socials, [openid |-> r.openid, key |-> k])
        /\ racedSoc' = IF r.disturbed THEN racedSoc \cup {n} ELSE racedSoc
        /\ soc' = [q \in Proc |-> IF q = p THEN s
                                  ELSE IF soc[q].at = "save" THEN [soc[q] EXCEPT !.disturbed = TRUE]
                                  ELSE soc[q]]
    BY <1>4 DEF SaveSocialUser, Inserted
  <2>2. [openid |-> r.openid, key |-> k] \in SocialRow
    BY <1>1 DEF SocialRow, SocRequest
  <2>3. /\ socials' \in Seq(SocialRow) /\ DOMAIN socials' = DOMAIN socials \cup {n} /\ socials'[n].openid = r.openid
        /\ \A i \in DOMAIN socials : socials'[i] = socials[i]
    BY <1>1, <2>1, <2>2
  <2>4. s \in SocRequest /\ s.at \in {"rest", "drop"}
    BY <1>1, <1>2, SavedRequest
  <2>5. \A q \in Proc : soc'[q] \in SocRequest
    BY <1>1, <2>1, <2>4, DisturbedRequest
  <2>6. soc'[p] = s /\ \A q \in Proc : q # p => IF soc[q].at = "save"
                                              THEN soc'[q].at = "save" /\ soc'[q].disturbed
                                                   /\ soc'[q].social = soc[q].social
                                              ELSE soc'[q] = soc[q]
    BY <1>1, <2>1, DisturbedRequest
  <2>7. RowTypes'
    BY <1>1, <2>1, <2>3, <2>5 DEF RowsInv, RowTypes
  <2> HIDE DEF s, r0, k, n, r
  <2>8. \A q \in Proc : Knows(soc[q])'
    BY <1>1, <2>3, <2>4, <2>6 DEF RowsInv, Knows, SameSocial, SameUser
  <2>9. OneBindingUnlessRaced'
    <3>1. ~ r.disturbed => \A i \in DOMAIN socials : socials[i].openid # r.openid
      BY <1>1, <1>4 DEF Knows
    <3>2. \A i, j \in DOMAIN socials' \ racedSoc' : i # j => socials'[i].openid # socials'[j].openid
      BY <1>1, <2>1, <2>3, <3>1 DEF RowsInv, OneBindingUnlessRaced
    <3>. QED  BY <1>1, <3>2 DEF RowsInv, OneBindingUnlessRaced, SameSocial, SameUser
  <2>. QED  BY <2>7, <2>8, <2>9 DEF RowsInv
<1>. QED  BY <1>3, <1>4

\* Bindings only end.
LEMMA UnbindStep ==
  ASSUME RowsInv, NEW p \in Proc, UnbindUser(p)
  PROVE  RowsInv'
<1>1. PICK S \in SUBSET DOMAIN binds :
        binds' = [b \in DOMAIN binds |-> IF b \in S THEN [binds[b] EXCEPT !.live = FALSE] ELSE binds[b]]
  <2>1. PICK u \in Account, t \in UserType :
          binds' = [b \in DOMAIN binds |-> IF SameUser(binds[b], [IdleSoc EXCEPT !.user = u, !.type = t])
                                           THEN [binds[b] EXCEPT !.live = FALSE] ELSE binds[b]]
    BY DEF UnbindUser
  <2> DEFINE S == {b \in DOMAIN binds : SameUser(binds[b], [IdleSoc EXCEPT !.user = u, !.type = t])}
  <2>2. binds' = [b \in DOMAIN binds |-> IF b \in S THEN [binds[b] EXCEPT !.live = FALSE] ELSE binds[b]]
    BY <2>1
  <2>3. S \in SUBSET DOMAIN binds
    OBVIOUS
  <2> HIDE DEF S
  <2>. QED  BY <2>2, <2>3
<1>2. UNCHANGED <<socials, soc, racedSoc, racedBind>> /\ binds \in Seq(BindRow)
  BY DEF UnbindUser, RowsInv, RowTypes
<1>3. \A b \in DOMAIN binds : /\ binds'[b] \in BindRow /\ binds'[b].type = binds[b].type
                              /\ binds'[b].user = binds[b].user /\ binds'[b].social = binds[b].social
                              /\ binds'[b].live => binds[b].live
  BY <1>1, <1>2, EndedBinding
<1>4. DOMAIN binds' = DOMAIN binds /\ binds' \in Seq(BindRow)
  BY <1>1, <1>2, <1>3
<1>5. RowTypes'
  BY <1>2, <1>4 DEF RowsInv, RowTypes
<1>6. \A q \in Proc : Knows(soc[q])'
  BY <1>2, <1>3, <1>4 DEF RowsInv, Knows, SameSocial, SameUser
<1>7. OneBindingUnlessRaced'
  BY <1>2, <1>3, <1>4 DEF RowsInv, OneBindingUnlessRaced, SameSocial, SameUser
<1>. QED  BY <1>5, <1>6, <1>7 DEF RowsInv

\* A new binding: what was in its way has been dropped, or came in between.
LEMMA RebindStep ==
  ASSUME RowsInv, NEW p \in Proc, Rebind(p)
  PROVE  RowsInv'
<1> DEFINE r == soc[p]
           n == Len(binds) + 1
           row == [user |-> r.user, type |-> r.type, social |-> r.social, live |-> TRUE]
           kept == [b \in DOMAIN binds |-> IF b \in r.drops THEN [binds[b] EXCEPT !.live = FALSE] ELSE binds[b]]
<1>1. /\ r \in SocRequest /\ Knows(r) /\ r.at = "insert" /\ UNCHANGED <<socials, racedSoc>>
      /\ binds \in Seq(BindRow) /\ n \in Nat /\ n \notin DOMAIN binds /\ soc \in [Proc -> SocRequest]
  BY DEF RowsInv, RowTypes, Rebind
<1>2. /\ binds' = Append(kept, row)
      /\ racedBind' = IF r.disturbed THEN racedBind \cup {n} ELSE racedBind
      /\ soc' = [q \in Proc |-> IF q = p THEN IdleSoc
                                ELSE IF soc[q].at \in {"drop2", "insert"}
                                     THEN [soc[q] EXCEPT !.disturbed = TRUE]
                                ELSE soc[q]]
  BY DEF Rebind
<1>3. row \in BindRow /\ row.user = r.user /\ row.type = r.type /\ row.social = r.social
  BY <1>1 DEF BindRow, SocRequest
<1>4. /\ kept \in Seq(BindRow) /\ Len(kept) = Len(binds) /\ DOMAIN kept = DOMAIN binds
      /\ \A b \in DOMAIN binds : /\ kept[b].type = binds[b].type /\ kept[b].user = binds[b].user
                                 /\ kept[b].social = binds[b].social
                                 /\ kept[b].live => binds[b].live /\ b \notin r.drops
  <2>1. DOMAIN kept = DOMAIN binds /\ \A b \in DOMAIN binds : kept[b] \in BindRow
    BY <1>1, EndedBinding
  <2>2. \A b \in DOMAIN binds : /\ kept[b].type = binds[b].type /\ kept[b].user = binds[b].user
                                /\ kept[b].social = binds[b].social
                                /\ kept[b].live => binds[b].live /\ b \notin r.drops
    BY <1>1, EndedBinding
  <2>. QED  BY <1>1, <2>1, <2>2
<1> HIDE DEF kept, row
<1>5. /\ binds' \in Seq(BindRow) /\ DOMAIN binds' = DOMAIN binds \cup {n} /\ binds'[n] = row
      /\ \A b \in DOMAIN binds : binds'[b] = kept[b]
  BY <1>1, <1>2, <1>3, <1>4
<1>6. soc' \in [Proc -> SocRequest]
  BY <1>1, <1>2, IdleRequest, DisturbedRequest
<1>7. /\ soc'[p] = IdleSoc
      /\ \A q \in Proc : q # p => IF soc[q].at \in {"drop2", "insert"}
                                 THEN soc'[q].at = soc[q].at /\ soc'[q].disturbed
                                 ELSE soc'[q] = soc[q]
  BY <1>1, <1>2, DisturbedRequest
<1>8. RowTypes'
  BY <1>1, <1>5, <1>6 DEF RowsInv, RowTypes
<1> HIDE DEF n, r
<1>9. \A q \in Proc : Knows(soc[q])'
  <2>1. IdleSoc.at = "rest"
    BY DEF IdleSoc
  <2>. QED  BY <1>1, <1>7, <2>1 DEF RowsInv, Knows
<1>10. OneBindingUnlessRaced'
  <2>1. ~ r.disturbed => \A b \in DOMAIN binds \ r.drops : ~ SameSocial(binds[b], r) /\ ~ SameUser(binds[b], r)
    BY <1>1 DEF Knows
  <2>2. \A a, b \in DOMAIN binds' \ racedBind' :
          a # b /\ binds'[a].live => ~ SameSocial(binds'[b], binds'[a]) /\ ~ SameUser(binds'[b], binds'[a])
    <3> SUFFICES ASSUME NEW a \in DOMAIN binds' \ racedBind', NEW b \in DOMAIN binds' \ racedBind',
                        a # b, binds'[a].live
                 PROVE  ~ SameSocial(binds'[b], binds'[a]) /\ ~ SameUser(binds'[b], binds'[a])
      OBVIOUS
    <3>1. CASE a # n /\ b # n
      BY <1>2, <1>4, <1>5, <3>1 DEF RowsInv, OneBindingUnlessRaced, SameSocial, SameUser
    <3>2. CASE a = n
      BY <1>2, <1>3, <1>4, <1>5, <2>1, <3>2 DEF SameSocial, SameUser
    <3>3. CASE b = n
      BY <1>2, <1>3, <1>4, <1>5, <2>1, <3>3 DEF SameSocial, SameUser
    <3>. QED  BY <3>1, <3>2, <3>3
  <2>. QED  BY <1>1, <2>2 DEF RowsInv, OneBindingUnlessRaced, SameSocial, SameUser
<1>. QED  BY <1>8, <1>9, <1>10 DEF RowsInv

LEMMA RowsStep == RowsInv /\ [SocialNext]_socialVars => RowsInv'
<1> SUFFICES ASSUME RowsInv, [SocialNext]_socialVars PROVE RowsInv'
  OBVIOUS
<1>1. CASE Redirect
  BY <1>1 DEF Redirect, RowsInv, RowTypes, Knows, OneBindingUnlessRaced, SameSocial, SameUser
<1>2. CASE UNCHANGED socialVars
  BY <1>2 DEF socialVars, RowsInv, RowTypes, Knows, OneBindingUnlessRaced, SameSocial, SameUser
<1>3. CASE StateExpires
  BY <1>3 DEF StateExpires, RowsInv, RowTypes, Knows, OneBindingUnlessRaced, SameSocial, SameUser
<1>. QED  BY <1>1, <1>2, <1>3, ReadStep, SaveStep, UnbindStep, RebindStep DEF SocialNext

\* A state is taken by the GETDEL that finds it.
LEMMA StateStep ==
  ASSUME StateTypes, RowsInv, [SocialNext]_socialVars
  PROVE  StateTypes' /\ [StateSU!Next]_<<stateKey, consumed>>
<1> USE StateNumbers
    DEF KeyState, StateSU!Next, StateSU!Issue, StateSU!Redeem, StateSU!Cancel, StateSU!Move
<1>1. CASE Redirect
  <2>1. PICK k \in StateId : stateKey[k] = "unissued" /\ stateKey' = [stateKey EXCEPT ![k] = "valid"]
    BY <1>1 DEF Redirect
  <2>. QED  BY <1>1, <2>1 DEF Redirect, StateTypes
<1>2. ASSUME NEW p \in Proc, consumeState(p)
      PROVE  StateTypes' /\ [StateSU!Next]_<<stateKey, consumed>>
  <2>1. soc[p].key \in StateId
    BY <1>2 DEF RowsInv, Knows, consumeState
  <2>2. \/ UNCHANGED <<stateKey, consumed>>
        \/ /\ stateKey[soc[p].key] = "valid"
           /\ stateKey' = [stateKey EXCEPT ![soc[p].key] = "spent"]
           /\ consumed' = [consumed EXCEPT ![soc[p].key] = @ + 1]
    BY <1>2 DEF consumeState
  <2>. QED  BY <2>1, <2>2 DEF StateTypes
<1>3. CASE UNCHANGED <<stateKey, consumed>>
  BY <1>3 DEF StateTypes
<1>4. CASE StateExpires
  <2>1. PICK k \in StateId : stateKey[k] = "valid" /\ stateKey' = [stateKey EXCEPT ![k] = "void"]
    BY <1>4 DEF StateExpires
  <2>. QED  BY <1>4, <2>1 DEF StateExpires, StateTypes
<1>5. \/ Redirect \/ StateExpires \/ (\E p \in Proc : consumeState(p)) \/ UNCHANGED <<stateKey, consumed>>
  BY DEF SocialNext, socialVars, LoginUser, BindUser, SocialByCode, BindUserID, FindSocialUser,
         SaveSocialUser, DropBySocial, DropByUser, Rebind, UnbindUser, SocAborts
<1>. QED  BY <1>1, <1>2, <1>3, <1>4, <1>5

\* A state lets one exchange through (identity/state.go).
THEOREM StatesOnce == SocialSpec => StateSU!Spec
<1>1. SocialInit => StateSU!Init
  BY DEF SocialInit, StateSU!Init
<1>. QED  BY SocialInitially, RowsStep, StateStep, <1>1, PTL DEF SocialSpec, StateSU!Spec

\* An openid has one social user, and social users and accounts are bound one to
\* one, up to rows of a request that another has overtaken (mysql.go:322,353).
THEOREM OneBinding == SocialSpec => []OneBindingUnlessRaced
<1>1. RowsInv => OneBindingUnlessRaced
  BY DEF RowsInv
<1>. QED  BY SocialInitially, RowsStep, <1>1, PTL DEF SocialSpec

-----------------------------------------------------------------------------
(* The authorization server.                                                *)

Flag == BOOLEAN
OAuthRequest ==
  [at : {"rest", "read", "update", "insert", "grant", "lock", "delete"}, saves : Seq(Choice),
   then : {"rest", "grant"}, keys : SUBSET Scope, code : {0} \cup CodeId]

\* What every request has.
HasWork(r) ==
  /\ r.at \in {"update", "insert"} => r.saves # <<>>
  /\ r.at \in {"lock", "delete"} => r.code \in CodeId

RequestsInv == oauth \in [Proc -> OAuthRequest] /\ \A p \in Proc : HasWork(oauth[p])

\* A code that is being deleted is there, and locked.
CodesInv ==
  /\ codes \in [CodeId -> KeyState] /\ letIn \in [CodeId -> Nat]
  /\ \A p \in Proc : oauth[p].at = "delete" =>
       /\ codes[oauth[p].code] = "valid"
       /\ \A q \in Proc \ {p} : oauth[q].at = "delete" => oauth[q].code # oauth[p].code

\* Who is about to insert a choice has written it to all rows there are.
ConsentInv ==
  /\ approvals \in [Scope -> Seq(Flag)] /\ said \in [Scope -> Flag \cup {None}]
  /\ ConsentIsLastChoice
  /\ \A p \in Proc : \A s \in Scope \ contested :
       Inserting(p, s) => \A i \in DOMAIN approvals[s] : approvals[s][i] = Head(oauth[p].saves).value

LEMMA IdleOAuthRequest ==
  IdleOAuth \in OAuthRequest /\ HasWork(IdleOAuth) /\ IdleOAuth.at = "rest"
<1>1. <<>> \in Seq(Choice)
  OBVIOUS
<1>. QED  BY <1>1 DEF IdleOAuth, OAuthRequest, HasWork

LEMMA SavingRequest ==
  ASSUME NEW saves \in Seq(Choice), NEW then \in {"rest", "grant"}
  PROVE  /\ Saving(saves, then) \in OAuthRequest /\ HasWork(Saving(saves, then))
         /\ Saving(saves, then).at \in {"update", "rest", "grant"}
<1> DEFINE a == IF saves = <<>> THEN then ELSE "update"
<1>1. Saving(saves, then) = [IdleOAuth EXCEPT !.at = a, !.saves = saves, !.then = then]
  BY DEF Saving
<1>2. a \in {"update", "rest", "grant"} /\ (a = "update" => saves # <<>>)
  OBVIOUS
<1> HIDE DEF a
<1>. QED  BY <1>1, <1>2 DEF IdleOAuth, OAuthRequest, HasWork

LEMMA ScopeListType == ASSUME NEW list \in ScopeLists PROVE list \in Seq(Choice)
<1>1. Cardinality(Scope) \in Nat
  BY OAuth2Assumption, FS_CardinalityType
<1>2. PICK n \in 0 .. Cardinality(Scope) : list \in [1 .. n -> Choice]
  BY DEF ScopeLists
<1>. QED  BY <1>1, <1>2

LEMMA ChoiceList ==
  ASSUME NEW list \in Seq(Choice), NEW t, t = [i \in DOMAIN list |-> [scope |-> list[i].scope, value |-> TRUE]]
  PROVE  t \in Seq(Choice) /\ {list[i].scope : i \in DOMAIN list} \subseteq Scope
<1>1. DOMAIN list = 1 .. Len(list) /\ Len(list) \in Nat /\ \A i \in DOMAIN list : list[i] \in Choice
  OBVIOUS
<1>2. \A i \in DOMAIN list : list[i].scope \in Scope
  BY <1>1 DEF Choice
<1>3. \A i \in DOMAIN list : [scope |-> list[i].scope, value |-> TRUE] \in Choice
  BY <1>2 DEF Choice
<1>. QED  BY <1>1, <1>2, <1>3

\* Where a step of a request takes it.
LEMMA RequestGoes ==
  ASSUME RequestsInv, NEW p \in Proc, NEW r, OAuthGoes(p, r), r \in OAuthRequest, HasWork(r)
  PROVE  /\ RequestsInv' /\ oauth'[p] = r
         /\ \A q \in Proc : q # p => oauth'[q] = oauth[q]
BY DEF RequestsInv, OAuthGoes, HasWork

\* The steps that do not save a choice: where they lead.
LEMMA OtherRequests ==
  ASSUME RequestsInv, NEW p \in Proc,
         \/ Approve(p) \/ Approves(p) \/ InsertCode(p) \/ IssueToken(p) \/ ConsumeCode(p) \/ DeleteCode(p)
         \/ OAuthAborts(p)
  PROVE  \E r \in OAuthRequest :
           /\ OAuthGoes(p, r) /\ HasWork(r) /\ r.at # "insert"
           /\ r.at = "delete" => ConsumeCode(p) /\ r.code = oauth[p].code
           /\ r.at = "delete" => /\ codes[r.code] = "valid"
                                 /\ \A q \in Proc \ {p} : oauth[q].at = "delete" => oauth[q].code # r.code
<1>1. oauth[p] \in OAuthRequest /\ HasWork(oauth[p])
  BY DEF RequestsInv
<1>2. CASE OAuthRests(p)
  BY <1>2, IdleOAuthRequest DEF OAuthRests
<1>3. ASSUME NEW r \in OAuthRequest, HasWork(r), r.at \notin {"insert", "delete"}, OAuthGoes(p, r)
      PROVE  \E s \in OAuthRequest : OAuthGoes(p, s) /\ HasWork(s) /\ s.at \notin {"insert", "delete"}
  BY <1>3
<1>4. CASE Approve(p)
  <2>1. PICK list \in ScopeLists : OAuthGoes(p, preApprove(list)) \/ OAuthGoes(p, saveChoices(list))
    BY <1>4 DEF Approve
  <2>2. list \in Seq(Choice)
    BY ScopeListType
  <2>5. ASSUME OAuthGoes(p, saveChoices(list))
        PROVE  \E r \in OAuthRequest : OAuthGoes(p, r) /\ HasWork(r) /\ r.at \notin {"insert", "delete"}
    <3> DEFINE then == IF list # <<>> /\ \A i \in DOMAIN list : ~ list[i].value THEN "rest" ELSE "grant"
    <3>1. then \in {"rest", "grant"}
      OBVIOUS
    <3>2. OAuthGoes(p, Saving(list, then))
      BY <2>5 DEF saveChoices
    <3> HIDE DEF then
    <3>. QED  BY <2>2, <3>1, <3>2, SavingRequest
  <2>6. CASE OAuthGoes(p, preApprove(list)) /\ {list[i].scope : i \in DOMAIN list} \subseteq autoScopes
    <3> DEFINE saves == [i \in DOMAIN list |-> [scope |-> list[i].scope, value |-> TRUE]]
    <3>1. saves \in Seq(Choice)
      BY <2>2, ChoiceList
    <3>2. OAuthGoes(p, Saving(saves, "grant"))
      BY <2>6 DEF preApprove
    <3> HIDE DEF saves
    <3>. QED  BY <3>1, <3>2, SavingRequest
  <2>7. CASE OAuthGoes(p, preApprove(list)) /\ ~ ({list[i].scope : i \in DOMAIN list} \subseteq autoScopes)
    <3> DEFINE K == {list[i].scope : i \in DOMAIN list}
               r == [IdleOAuth EXCEPT !.at = "read", !.keys = K]
    <3>1. OAuthGoes(p, r)
      BY <2>7 DEF preApprove
    <3>2. K \subseteq Scope
      BY <2>2, ChoiceList
    <3> HIDE DEF K
    <3>3. r \in OAuthRequest /\ HasWork(r) /\ r.at = "read"
      BY <3>2, IdleOAuthRequest DEF OAuthRequest, HasWork
    <3> HIDE DEF r
    <3>. QED  BY <3>1, <3>3
  <2>. QED  BY <2>1, <2>5, <2>6, <2>7
<1>5. CASE Approves(p)
  <2> DEFINE r == [oauth[p] EXCEPT !.at = "grant"]
  <2>1. r \in OAuthRequest /\ r.at = "grant" /\ HasWork(r)
    BY <1>1 DEF OAuthRequest, HasWork
  <2>2. OAuthRests(p) \/ OAuthGoes(p, r)
    BY <1>5 DEF Approves
  <2> HIDE DEF r
  <2>. QED  BY <1>2, <2>1, <2>2
<1>6. CASE IssueToken(p)
  <2>1. PICK k \in CodeId : OAuthGoes(p, [IdleOAuth EXCEPT !.at = "lock", !.code = k])
    BY <1>6 DEF IssueToken
  <2> DEFINE r == [IdleOAuth EXCEPT !.at = "lock", !.code = k]
  <2>2. r \in OAuthRequest /\ r.at = "lock" /\ HasWork(r)
    BY IdleOAuthRequest DEF OAuthRequest, HasWork
  <2> HIDE DEF r
  <2>. QED  BY <2>1, <2>2 DEF r
<1>7. CASE ConsumeCode(p)
  <2> DEFINE r == [oauth[p] EXCEPT !.at = "delete"]
  <2>1. r \in OAuthRequest /\ r.at = "delete" /\ r.code = oauth[p].code /\ r.code \in CodeId /\ HasWork(r)
    BY <1>1, <1>7 DEF OAuthRequest, HasWork, ConsumeCode
  <2>2. OAuthRests(p) \/ (OAuthGoes(p, r) /\ codes[oauth[p].code] = "valid")
    BY <1>7 DEF ConsumeCode
  <2>3. \A q \in Proc \ {p} : oauth[q].at = "delete" => oauth[q].code # oauth[p].code
    BY <1>7 DEF ConsumeCode
  <2> HIDE DEF r
  <2>. QED  BY <1>2, <1>7, <2>1, <2>2, <2>3
<1>8. CASE InsertCode(p) \/ DeleteCode(p) \/ OAuthAborts(p)
  BY <1>2, <1>8 DEF InsertCode, DeleteCode, OAuthAborts
<1>. QED  BY <1>4, <1>5, <1>6, <1>7, <1>8

\* The steps that save a choice.
LEMMA SavingRequests ==
  ASSUME RequestsInv, NEW p \in Proc, SaveApprove(p) \/ InsertApprove(p)
  PROVE  \E r \in OAuthRequest :
           /\ OAuthGoes(p, r) /\ HasWork(r) /\ r.at # "delete"
           /\ r.at = "insert" => SaveApprove(p) /\ r.saves = oauth[p].saves
<1>1. /\ oauth[p] \in OAuthRequest /\ HasWork(oauth[p]) /\ oauth[p].at \in {"update", "insert"}
      /\ oauth[p].saves \in Seq(Choice) /\ oauth[p].saves # <<>> /\ oauth[p].then \in {"rest", "grant"}
  BY DEF RequestsInv, OAuthRequest, HasWork, SaveApprove, InsertApprove
<1>2. /\ NextSave(oauth[p]) \in OAuthRequest /\ HasWork(NextSave(oauth[p]))
      /\ NextSave(oauth[p]).at \notin {"delete", "insert"}
  <2>1. Tail(oauth[p].saves) \in Seq(Choice)
    BY <1>1
  <2>. QED  BY <1>1, <2>1, SavingRequest DEF NextSave
<1> DEFINE r == [oauth[p] EXCEPT !.at = "insert"]
<1>3. r \in OAuthRequest /\ r.at = "insert" /\ r.saves = oauth[p].saves /\ HasWork(r)
  BY <1>1 DEF OAuthRequest, HasWork
<1>4. OAuthGoes(p, NextSave(oauth[p])) \/ (SaveApprove(p) /\ OAuthGoes(p, r))
  BY DEF SaveApprove, InsertApprove
<1> HIDE DEF r
<1>. QED  BY <1>2, <1>3, <1>4

LEMMA RequestsStep == RequestsInv /\ [OAuthNext]_oauthVars => RequestsInv'
<1> SUFFICES ASSUME RequestsInv, [OAuthNext]_oauthVars PROVE RequestsInv'
  OBVIOUS
<1>1. ASSUME NEW p \in Proc, SaveApprove(p) \/ InsertApprove(p) PROVE RequestsInv'
  BY <1>1, SavingRequests, RequestGoes
<1>2. ASSUME NEW p \in Proc,
             \/ Approve(p) \/ Approves(p) \/ InsertCode(p) \/ IssueToken(p) \/ ConsumeCode(p)
             \/ DeleteCode(p) \/ OAuthAborts(p)
      PROVE  RequestsInv'
  BY <1>2, OtherRequests, RequestGoes
<1>3. CASE UNCHANGED oauthVars
  BY <1>3 DEF oauthVars, RequestsInv, HasWork
<1>. QED  BY <1>1, <1>2, <1>3 DEF OAuthNext

LEMMA CodeNumbers == 0 \notin CodeId /\ \A k \in CodeId : k \in 1 .. k
BY OAuth2Assumption DEF CodeId

\* A code is deleted by the one request that has it locked.
LEMMA CodesStep ==
  ASSUME RequestsInv, CodesInv, [OAuthNext]_oauthVars
  PROVE  CodesInv' /\ [CodeSU!Next]_<<codes, letIn>>
<1> USE CodeNumbers
    DEF KeyState, CodeSU!Next, CodeSU!Issue, CodeSU!Redeem, CodeSU!Cancel, CodeSU!Move
<1>1. ASSUME NEW p \in Proc, SaveApprove(p) \/ InsertApprove(p)
      PROVE  CodesInv' /\ UNCHANGED <<codes, letIn>>
  <2>1. PICK r \in OAuthRequest : OAuthGoes(p, r) /\ HasWork(r) /\ r.at # "delete"
    BY <1>1, SavingRequests
  <2>2. oauth'[p] = r /\ \A q \in Proc : q # p => oauth'[q] = oauth[q]
    BY <2>1, RequestGoes
  <2>3. UNCHANGED <<codes, letIn>>
    BY <1>1 DEF SaveApprove, InsertApprove
  <2>. QED  BY <2>1, <2>2, <2>3 DEF CodesInv
<1>2. ASSUME NEW p \in Proc,
             \/ Approve(p) \/ Approves(p) \/ InsertCode(p) \/ IssueToken(p) \/ ConsumeCode(p)
             \/ DeleteCode(p) \/ OAuthAborts(p)
      PROVE  CodesInv' /\ [CodeSU!Next]_<<codes, letIn>>
  <2>1. PICK r \in OAuthRequest :
          /\ OAuthGoes(p, r) /\ HasWork(r)
          /\ r.at = "delete" => ConsumeCode(p) /\ r.code = oauth[p].code
          /\ r.at = "delete" => /\ codes[r.code] = "valid"
                                /\ \A q \in Proc \ {p} : oauth[q].at = "delete" => oauth[q].code # r.code
    BY <1>2, OtherRequests
  <2>2. oauth'[p] = r /\ \A q \in Proc : q # p => oauth'[q] = oauth[q]
    BY <2>1, RequestGoes
  <2>3. CASE UNCHANGED <<codes, letIn>>
    BY <2>1, <2>2, <2>3 DEF CodesInv
  <2>4. CASE InsertCode(p) /\ codes' # codes
    <3>1. PICK k \in CodeId : codes[k] = "unissued" /\ codes' = [codes EXCEPT ![k] = "valid"]
      BY <2>4 DEF InsertCode
    <3>2. letIn' = letIn /\ r.at # "delete"
      BY <2>2, <2>4, IdleOAuthRequest DEF InsertCode, OAuthRests, OAuthGoes, RequestsInv
    <3>3. \A q \in Proc : q # p /\ oauth'[q].at = "delete" => oauth[q].code # k /\ oauth[q].code \in CodeId
      BY <2>2, <3>1 DEF CodesInv, RequestsInv, HasWork
    <3>4. \A q \in Proc : oauth'[q].at = "delete" =>
            q # p /\ oauth'[q] = oauth[q] /\ oauth[q].code \in CodeId /\ oauth[q].code # k
      BY <2>2, <3>2, <3>3 DEF RequestsInv, HasWork
    <3>5. codes' \in [CodeId -> KeyState] /\ letIn' \in [CodeId -> Nat]
      BY <3>1, <3>2 DEF CodesInv
    <3>6. \A j \in CodeId : j # k => codes'[j] = codes[j]
      BY <3>1, <3>2 DEF CodesInv
    <3>7. CodesInv'
      BY <3>4, <3>5, <3>6 DEF CodesInv
    <3>8. CodeSU!Next
      BY <3>1, <3>2
    <3>. QED  BY <3>7, <3>8
  <2>5. CASE DeleteCode(p)
    <3> DEFINE k == oauth[p].code
    <3>1. k \in CodeId /\ codes[k] = "valid"
      BY <2>5 DEF DeleteCode, RequestsInv, HasWork, CodesInv
    <3>2. /\ codes' = [codes EXCEPT ![k] = "spent"] /\ letIn' = [letIn EXCEPT ![k] = @ + 1]
          /\ r.at # "delete"
      BY <2>2, <2>5, IdleOAuthRequest DEF DeleteCode, OAuthRests, OAuthGoes, RequestsInv
    <3>3. \A q \in Proc : q # p /\ oauth'[q].at = "delete" => oauth[q].code # k
      BY <2>2, <2>5 DEF CodesInv, DeleteCode
    <3>4. \A q \in Proc : oauth'[q].at = "delete" =>
            q # p /\ oauth'[q] = oauth[q] /\ oauth[q].code \in CodeId /\ oauth[q].code # k
      BY <2>2, <3>2, <3>3 DEF RequestsInv, HasWork
    <3>5. codes' \in [CodeId -> KeyState] /\ letIn' \in [CodeId -> Nat]
      BY <3>1, <3>2 DEF CodesInv
    <3>6. \A j \in CodeId : j # k => codes'[j] = codes[j]
      BY <3>1, <3>2 DEF CodesInv
    <3>7. CodesInv'
      BY <3>4, <3>5, <3>6 DEF CodesInv
    <3>8. CodeSU!Next
      BY <3>1, <3>2
    <3>. QED  BY <3>7, <3>8
  <2>. QED  BY <1>2, <2>3, <2>4, <2>5
            DEF Approve, Approves, InsertCode, IssueToken, ConsumeCode, OAuthAborts
<1>3. CASE UNCHANGED oauthVars
  BY <1>3 DEF oauthVars, CodesInv
<1>. QED  BY <1>1, <1>2, <1>3 DEF OAuthNext

\* Both statements of a save write one choice to all rows of its scope; another
\* save of the scope that comes between them leaves it contested.
LEMMA ConsentStep ==
  ASSUME RequestsInv, ConsentInv, [OAuthNext]_oauthVars
  PROVE  ConsentInv'
<1>1. ASSUME NEW p \in Proc, SaveApprove(p) \/ InsertApprove(p)
      PROVE  ConsentInv'
  <2> DEFINE c == Head(oauth[p].saves)
             s == c.scope
             v == c.value
             rows == approvals[s]
  <2>1. PICK r \in OAuthRequest : /\ OAuthGoes(p, r) /\ HasWork(r)
                                  /\ r.at = "insert" => SaveApprove(p) /\ r.saves = oauth[p].saves
    BY <1>1, SavingRequests
  <2>2. oauth'[p] = r /\ \A q \in Proc : q # p => oauth'[q] = oauth[q]
    BY <2>1, RequestGoes
  <2>3. oauth[p].saves \in Seq(Choice) /\ oauth[p].saves # <<>>
    BY <1>1 DEF RequestsInv, OAuthRequest, HasWork, SaveApprove, InsertApprove
  <2>4. s \in Scope /\ v \in Flag
    <3>1. c \in Choice
      BY <2>3
    <3>. QED  BY <3>1 DEF Choice, Flag
  <2>5. rows \in Seq(Flag)
    BY <2>4 DEF ConsentInv
  <2>6. CASE SaveApprove(p)
    <3>1. /\ approvals' = [approvals EXCEPT ![s] = Updated(rows, v)]
          /\ said' = IF rows = <<>> THEN said ELSE [said EXCEPT ![s] = v]
          /\ contested' = IF \E q \in Proc \ {p} : Inserting(q, s) THEN contested \cup {s} ELSE contested \ {s}
      BY <2>6 DEF SaveApprove
    <3>2. /\ Updated(rows, v) \in Seq(Flag) /\ DOMAIN Updated(rows, v) = DOMAIN rows
          /\ \A i \in DOMAIN rows : Updated(rows, v)[i] = v
      BY <2>4, <2>5 DEF Updated
    <3> HIDE DEF c, s, v, rows
    <3>3. approvals' \in [Scope -> Seq(Flag)] /\ said' \in [Scope -> Flag \cup {None}]
      BY <2>4, <3>1, <3>2 DEF ConsentInv
    <3>4. /\ DOMAIN approvals'[s] = DOMAIN rows /\ \A i \in DOMAIN rows : approvals'[s][i] = v
          /\ rows # <<>> => said'[s] = v
          /\ \A t \in Scope : t # s => approvals'[t] = approvals[t] /\ said'[t] = said[t]
          /\ \A t \in Scope \ {s} : t \in contested' <=> t \in contested
          /\ DOMAIN rows # {} => rows # <<>>
      BY <2>4, <3>1, <3>2 DEF ConsentInv
    <3>5. ConsentIsLastChoice'
      BY <2>4, <3>4 DEF ConsentInv, ConsentIsLastChoice
    <3>6. \A q \in Proc : \A t \in Scope \ contested' :
            Inserting(q, t)' => \A i \in DOMAIN approvals'[t] : approvals'[t][i] = Head(oauth'[q].saves).value
      <4> SUFFICES ASSUME NEW q \in Proc, NEW t \in Scope \ contested', Inserting(q, t)'
                   PROVE  \A i \in DOMAIN approvals'[t] : approvals'[t][i] = Head(oauth'[q].saves).value
        OBVIOUS
      <4>1. CASE q = p
        <5>1. t = s /\ Head(oauth'[q].saves).value = v
          BY <2>1, <2>2, <4>1 DEF Inserting, c, s, v
        <5>. QED  BY <3>4, <5>1
      <4>2. CASE q # p
        <5>1. Inserting(q, t) /\ oauth'[q] = oauth[q]
          BY <2>2, <4>2 DEF Inserting
        <5>2. t # s
          BY <3>1, <4>2, <5>1
        <5>. QED  BY <3>4, <5>1, <5>2 DEF ConsentInv
      <4>. QED  BY <4>1, <4>2
    <3>. QED  BY <3>3, <3>5, <3>6 DEF ConsentInv
  <2>7. CASE InsertApprove(p)
    <3>1. /\ approvals' = [approvals EXCEPT ![s] = Append(rows, v)]
          /\ said' = [said EXCEPT ![s] = v]
          /\ contested' = IF \E q \in Proc \ {p} : Inserting(q, s) THEN contested \cup {s} ELSE contested
          /\ oauth[p].at = "insert" /\ ~ SaveApprove(p)
      BY <2>7 DEF InsertApprove, SaveApprove
    <3>2. Inserting(p, s)
      BY <3>1 DEF Inserting
    <3> HIDE DEF c, s, v, rows
    <3>3. /\ Append(rows, v) \in Seq(Flag) /\ DOMAIN Append(rows, v) = DOMAIN rows \cup {Len(rows) + 1}
          /\ \A i \in DOMAIN rows : Append(rows, v)[i] = rows[i]
          /\ Append(rows, v)[Len(rows) + 1] = v
      BY <2>4, <2>5
    <3>4. approvals' \in [Scope -> Seq(Flag)] /\ said' \in [Scope -> Flag \cup {None}]
      BY <2>4, <3>1, <3>3 DEF ConsentInv
    <3>5. /\ approvals'[s] = Append(rows, v) /\ said'[s] = v
          /\ \A t \in Scope : t # s => approvals'[t] = approvals[t] /\ said'[t] = said[t]
          /\ \A t \in Scope : t \notin contested' => t \notin contested
      BY <2>4, <3>1 DEF ConsentInv
    <3>6. s \notin contested => \A i \in DOMAIN rows : rows[i] = v
      BY <2>4, <3>2 DEF ConsentInv, c, s, v, rows
    <3>7. ConsentIsLastChoice'
      <4> SUFFICES ASSUME NEW t \in Scope \ contested', NEW i \in DOMAIN approvals'[t]
                   PROVE  approvals'[t][i] = said'[t]
        BY DEF ConsentIsLastChoice
      <4>1. CASE t = s
        BY <3>3, <3>5, <3>6, <4>1
      <4>2. CASE t # s
        BY <3>5, <4>2 DEF ConsentInv, ConsentIsLastChoice
      <4>. QED  BY <4>1, <4>2
    <3>8. \A q \in Proc : \A t \in Scope \ contested' :
            Inserting(q, t)' => \A i \in DOMAIN approvals'[t] : approvals'[t][i] = Head(oauth'[q].saves).value
      <4> SUFFICES ASSUME NEW q \in Proc, NEW t \in Scope \ contested', Inserting(q, t)'
                   PROVE  \A i \in DOMAIN approvals'[t] : approvals'[t][i] = Head(oauth'[q].saves).value
        OBVIOUS
      <4>1. q # p
        BY <2>1, <2>2, <3>1 DEF Inserting
      <4>2. Inserting(q, t) /\ oauth'[q] = oauth[q]
        BY <2>2, <4>1 DEF Inserting
      <4>3. t # s
        BY <3>1, <4>1, <4>2
      <4>. QED  BY <3>5, <4>2, <4>3 DEF ConsentInv
    <3>. QED  BY <3>4, <3>7, <3>8 DEF ConsentInv
  <2>. QED  BY <1>1, <2>6, <2>7
<1>2. ASSUME NEW p \in Proc,
             \/ Approve(p) \/ Approves(p) \/ InsertCode(p) \/ IssueToken(p) \/ ConsumeCode(p)
             \/ DeleteCode(p) \/ OAuthAborts(p)
      PROVE  ConsentInv'
  <2>1. PICK r \in OAuthRequest : OAuthGoes(p, r) /\ HasWork(r) /\ r.at # "insert"
    BY <1>2, OtherRequests
  <2>2. oauth'[p] = r /\ \A q \in Proc : q # p => oauth'[q] = oauth[q]
    BY <2>1, RequestGoes
  <2>3. UNCHANGED <<approvals, said, contested>>
    BY <1>2 DEF Approve, Approves, InsertCode, IssueToken, ConsumeCode, DeleteCode, OAuthAborts
  <2>4. \A q \in Proc : \A s \in Scope : Inserting(q, s)' => Inserting(q, s) /\ oauth'[q] = oauth[q]
    BY <2>1, <2>2 DEF Inserting
  <2>5. ConsentIsLastChoice'
    BY <2>3 DEF ConsentInv, ConsentIsLastChoice
  <2>. QED  BY <2>3, <2>4, <2>5 DEF ConsentInv
<1>3. CASE UNCHANGED oauthVars
  BY <1>3 DEF oauthVars, ConsentInv, ConsentIsLastChoice, Inserting
<1>. QED  BY <1>1, <1>2, <1>3 DEF OAuthNext

LEMMA OAuthInitially == OAuthInit => RequestsInv /\ CodesInv /\ ConsentInv
<1> SUFFICES ASSUME OAuthInit PROVE RequestsInv /\ CodesInv /\ ConsentInv
  OBVIOUS
<1>1. RequestsInv /\ \A p \in Proc : oauth[p].at = "rest"
  BY IdleOAuthRequest DEF OAuthInit, RequestsInv
<1>2. CodesInv
  BY <1>1 DEF OAuthInit, CodesInv, KeyState
<1>3. ConsentInv
  <2>1. approvals = [s \in Scope |-> <<>>] /\ <<>> \in Seq(Flag) /\ said = [s \in Scope |-> None]
    BY DEF OAuthInit
  <2>. QED  BY <1>1, <2>1 DEF ConsentInv, ConsentIsLastChoice, Inserting
<1>. QED  BY <1>1, <1>2, <1>3

\* A code lets one request through to its token (identity/mysql.go).
THEOREM CodesOnce == OAuthSpec => CodeSU!Spec
<1>1. OAuthInit => CodeSU!Init
  BY DEF OAuthInit, CodeSU!Init
<1>. QED  BY OAuthInitially, RequestsStep, CodesStep, <1>1, PTL DEF OAuthSpec, CodeSU!Spec

\* An automatic approval sees the last choice that was written, unless two
\* requests were saving the scope at once (mysql.go:477, authorize.go:113).
THEOREM LastChoiceCounts == OAuthSpec => []ConsentIsLastChoice
<1>1. ConsentInv => ConsentIsLastChoice
  BY DEF ConsentInv
<1>. QED  BY OAuthInitially, RequestsStep, ConsentStep, <1>1, PTL DEF OAuthSpec

\* Side by side, all four kinds of one-time credentials do what module SingleUse
\* promises.
THEOREM AllTicketsOnce == OAuthSpec /\ CaptchaSpec /\ SocialSpec => TicketsOnce
BY CodesOnce, CaptchasOnce, StatesOnce DEF TicketsOnce
=============================================================================

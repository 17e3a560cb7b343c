------------------------------ MODULE Captcha -------------------------------
(***************************************************************************)
(* The slider captcha: a challenge in Redis is exchanged for a second      *)
(* verification, and that for one attempt to log in.  Both are taken by    *)
(* GETDEL; a wrong answer costs the challenge.                             *)
(***************************************************************************)
EXTENDS Requests

CONSTANT MaxChallenge

ASSUME CaptchaAssumption == MaxChallenge \in Nat

VARIABLES
  challenge,     \* "captcha:" keys, as tickets: a key is there while it is "valid"
  verification,  \* "captcha:ok:" keys, likewise; each is made from its challenge
  checking,      \* checking[p]: the challenge p has solved, or 0
  checked,       \* history: how many requests took each challenge
  verified       \* history: how many logins took each verification

captchaVars == <<challenge, verification, checking, checked, verified>>

Challenge == 1 .. MaxChallenge

GetCaptcha ==
  /\ \E k \in Challenge : /\ \A j \in 1 .. k : challenge[j] = "unissued" <=> j = k
                          /\ challenge' = [challenge EXCEPT ![k] = "valid"]
  /\ UNCHANGED <<verification, checking, checked, verified>>

\* Keys expire after two minutes.
CaptchaExpires ==
  /\ \E k \in Challenge :
       \/ challenge[k] = "valid" /\ challenge' = [challenge EXCEPT ![k] = "void"] /\ UNCHANGED verification
       \/ verification[k] = "valid" /\ verification' = [verification EXCEPT ![k] = "void"] /\ UNCHANGED challenge
  /\ UNCHANGED <<checking, checked, verified>>

\* GETDEL; without the answer within five pixels that was all.
Check(p) ==
  /\ checking[p] = 0
  /\ \E k \in Challenge :
       /\ challenge[k] = "valid"
       /\ challenge' = [challenge EXCEPT ![k] = "spent"]
       /\ checked' = [checked EXCEPT ![k] = @ + 1]
       /\ \E right \in BOOLEAN : checking' = [checking EXCEPT ![p] = IF right THEN k ELSE 0]
  /\ UNCHANGED <<verification, verified>>

\* The verification is stored, or Redis fails and the challenge is lost.
CheckReplies(p) ==
  /\ checking[p] # 0
  /\ \E ok \in BOOLEAN :
       verification' = [verification EXCEPT ![checking[p]] = IF ok THEN "valid" ELSE @]
  /\ checking' = [checking EXCEPT ![p] = 0]
  /\ UNCHANGED <<challenge, checked, verified>>

\* A login takes its verification before it looks at the password.
Verify ==
  /\ \E k \in Challenge :
       /\ verification[k] = "valid"
       /\ verification' = [verification EXCEPT ![k] = "spent"]
       /\ verified' = [verified EXCEPT ![k] = @ + 1]
  /\ UNCHANGED <<challenge, checking, checked>>

CaptchaInit ==
  /\ challenge = [k \in Challenge |-> "unissued"]
  /\ verification = [k \in Challenge |-> "unissued"]
  /\ checking = [p \in Proc |-> 0]
  /\ checked = [k \in Challenge |-> 0] /\ verified = [k \in Challenge |-> 0]

CaptchaNext == GetCaptcha \/ CaptchaExpires \/ Verify \/ \E p \in Proc : Check(p) \/ CheckReplies(p)

CaptchaSpec == CaptchaInit /\ [][CaptchaNext]_captchaVars

KeyState == {"unissued", "valid", "spent", "void"}

\* Types; a verification comes from a challenge that was taken.
CaptchaTypeOK ==
  /\ challenge \in [Challenge -> KeyState] /\ verification \in [Challenge -> KeyState]
  /\ checking \in [Proc -> 0 .. MaxChallenge]
  /\ \A k \in Challenge : verification[k] # "unissued" => challenge[k] = "spent"

\* A challenge is a ticket for one answer, a verification for one login.
ChallengeSU == INSTANCE SingleUse WITH Ticket <- Challenge, state <- challenge, grants <- checked
VerificationSU == INSTANCE SingleUse WITH Ticket <- Challenge, state <- verification, grants <- verified
=============================================================================

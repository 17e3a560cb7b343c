--------------------------- MODULE MCCredentials ---------------------------
(***************************************************************************)
(* What can be used once, for model checking: captchas, the codes of the   *)
(* authorization server and the states of social login.  They share no     *)
(* state, so each behaviour is about one.                                  *)
(***************************************************************************)
EXTENDS OAuth2, Captcha, Social, TLC

VARIABLE focus

credentialVars == <<oauthVars, captchaVars, socialVars, focus>>

MCInit ==
  /\ focus \in {"oauth", "captcha", "social"}
  /\ OAuthInit /\ CaptchaInit /\ SocialInit
  /\ focus # "oauth" => autoScopes = {}

MCOAuth == focus = "oauth" /\ OAuthNext /\ UNCHANGED <<captchaVars, socialVars, focus>>
MCCaptcha == focus = "captcha" /\ CaptchaNext /\ UNCHANGED <<oauthVars, socialVars, focus>>
MCSocial == focus = "social" /\ SocialNext /\ UNCHANGED <<oauthVars, captchaVars, focus>>

MCNext == MCOAuth \/ MCCaptcha \/ MCSocial

MCSpec == MCInit /\ [][MCNext]_credentialVars

\* Authorization codes, captchas, their verifications and the states of social
\* login each let at most one request through, although other requests read,
\* consume or delete them at the same moment, fail in between, or come after they
\* have expired (identity/mysql.go, state.go, captcha/service.go).
TicketsOnce == CodeSU!Spec /\ ChallengeSU!Spec /\ VerificationSU!Spec /\ StateSU!Spec

MCSymmetry == Permutations(Proc) \union Permutations(OpenId) \union Permutations(Account)
=============================================================================

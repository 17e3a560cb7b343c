---------------------------- MODULE MCAuthTokens ----------------------------
(* Constants and symmetry for model checking AuthTokens.                   *)
EXTENDS AuthTokens, TLC

CONSTANTS u1, t1, t2

\* u1 belongs to t1, every other account to t2.
TwoTenants == [u \in User |-> IF u = u1 THEN t1 ELSE t2]

OneTenant == [u \in User |-> t1]

\* Tokens that never expire are interchangeable, and so are the requests.
Interchangeable == Permutations(Access \ CanExpire)
                     \union Permutations(Refresh \ CanExpire)
                     \union Permutations(Proc)
=============================================================================

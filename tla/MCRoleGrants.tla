---------------------------- MODULE MCRoleGrants ----------------------------
(* Constants for model checking RoleGrants.                                *)
EXTENDS RoleGrants

CONSTANTS t1, k1, k2, m1, u1

\* One tenant, yet to be created; role 1 is its administrator.
AllOfT1 == [r \in Role |-> t1]

HomeT1 == [u \in User |-> t1]

FirstRole == [t \in Tenant |-> 1]

FirstUser == [t \in Tenant |-> u1]

NoTenant == [t \in {} |-> k1]

\* k1 has a menu that k2 has not ...
K1Richer == [k \in Package |-> IF k = k1 THEN {m1} ELSE {}]

\* ... and that an edit takes away from k1.
K1Shrinks == [k \in Package |-> IF k = k1 THEN {{m1}, {}} ELSE {{}}]
=============================================================================

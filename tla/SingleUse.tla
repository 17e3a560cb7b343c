------------------------------ MODULE SingleUse ------------------------------
(***************************************************************************)
(* What every one-time credential of the system promises: it becomes       *)
(* valid once, and is then redeemed by at most one request, or cancelled,  *)
(* and neither ever again.                                                 *)
(***************************************************************************)
EXTENDS Naturals, TLAPS

CONSTANT Ticket

VARIABLES
  state,   \* of each ticket
  grants   \* how many requests were let through on the ticket

State == {"unissued", "valid", "spent", "void"}

Init ==
  /\ state = [t \in Ticket |-> "unissued"]
  /\ grants = [t \in Ticket |-> 0]

Move(t, from, to) == state[t] = from /\ state' = [state EXCEPT ![t] = to]

Issue(t) == Move(t, "unissued", "valid") /\ UNCHANGED grants

Redeem(t) == /\ Move(t, "valid", "spent")
             /\ grants' = [grants EXCEPT ![t] = @ + 1]

Cancel(t) == Move(t, "valid", "void") /\ UNCHANGED grants

Next == \E t \in Ticket : Issue(t) \/ Redeem(t) \/ Cancel(t)

Spec == Init /\ [][Next]_<<state, grants>>

\* No ticket lets two requests through, and none that is not spent lets one.
AtMostOnce ==
  \A t \in Ticket : grants[t] = IF state[t] = "spent" THEN 1 ELSE 0

\* AtMostOnce is inductive: Redeem needs a valid ticket, and spends it.
THEOREM OnceOnly == Spec => []AtMostOnce
<1> DEFINE Ok == /\ state \in [Ticket -> State]
                 /\ grants \in [Ticket -> Nat]
                 /\ AtMostOnce
<1>1. Init => Ok
  BY DEF Init, State, AtMostOnce
<1>2. Ok /\ [Next]_<<state, grants>> => Ok'
  <2>1. Ok /\ Next => Ok'
    BY DEF Next, Issue, Redeem, Cancel, Move, State, AtMostOnce
  <2>2. Ok /\ UNCHANGED <<state, grants>> => Ok'
    BY DEF AtMostOnce
  <2>. QED  BY <2>1, <2>2
<1>. QED  BY <1>1, <1>2, PTL DEF Spec
=============================================================================

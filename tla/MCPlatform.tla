----------------------------- MODULE MCPlatform -----------------------------
(***************************************************************************)
(* What runs beside the requests, for model checking: the life of the      *)
(* processes and their WebSocket sessions, the daily cleanup, and the      *)
(* discovery of other services.  They share no state, so each behaviour is *)
(* about one.                                                              *)
(***************************************************************************)
EXTENDS Lifecycle, Cleanup, Discovery, TLC

CONSTANT t1

OneTenant == [s \in Session |-> t1]

VARIABLE focus

MCInit ==
  /\ focus \in {"life", "clean", "discovery"}
  /\ LifeInit /\ CleanInit /\ DiscoInit

MCLife == focus = "life" /\ LifeNext /\ UNCHANGED <<cleanVars, discoVars, focus>>
MCClean == focus = "clean" /\ CleanNext /\ UNCHANGED <<lifeVars, discoVars, focus>>
MCDiscovery == focus = "discovery" /\ DiscoNext /\ UNCHANGED <<lifeVars, cleanVars, focus>>

MCNext == MCLife \/ MCClean \/ MCDiscovery

MCSpec == MCInit /\ [][MCNext]_<<lifeVars, cleanVars, discoVars, focus>>

\* Starts, stops, cleanups and queries come to their end, whatever fails on the
\* way (app.go:383, clean.go:151, registry.go:202).  Each part needs only its own
\* fairness.
PlatformGoesOn ==
  /\ LifeFairness => StartsAndStopsEnd
  /\ CleanFairness => LockIsGivenBack
  /\ DiscoFairness => QueriesEnd
=============================================================================

------------------------------ MODULE BotLoop ------------------------------
(***************************************************************************)
(* What the Execution Loop promises (spec.md 4.4, 8): the state machine    *)
(* Idle -> Polling -> Evaluating -> (Executing | Sleeping) -> Polling ...  *)
(* with its two session counters.  iterationCount grows by one when a      *)
(* cycle starts; totalTradesExecuted may grow by one only when an          *)
(* Executing phase ends.  A cycle whose pool read is Absent at once goes   *)
(* straight to Sleeping.  An external interrupt stops the loop from any    *)
(* phase; a failed initial connection ends the process before it starts.  *)
(***************************************************************************)
EXTENDS Naturals

VARIABLES phase, iterationCount, tradesExecuted

vars == <<phase, iterationCount, tradesExecuted>>

Phases == {"Idle", "Polling", "Evaluating", "Executing", "Sleeping",
           "Stopped", "Exited"}

TypeOK ==
  /\ phase \in Phases
  /\ iterationCount \in Nat
  /\ tradesExecuted \in Nat

Init == phase = "Idle" /\ iterationCount = 0 /\ tradesExecuted = 0

\* A cycle starts: the pool is read.
StartCycle ==
  /\ phase \in {"Idle", "Sleeping"}
  /\ phase' = "Polling"
  /\ iterationCount' = iterationCount + 1
  /\ UNCHANGED tradesExecuted

\* A cycle starts and its first query already answers Absent.
SkipCycle ==
  /\ phase \in {"Idle", "Sleeping"}
  /\ phase' = "Sleeping"
  /\ iterationCount' = iterationCount + 1
  /\ UNCHANGED tradesExecuted

\* The snapshot is Absent: log and sleep.
Absent ==
  /\ phase = "Polling"
  /\ phase' = "Sleeping"
  /\ UNCHANGED <<iterationCount, tradesExecuted>>

Evaluate ==
  /\ phase = "Polling"
  /\ phase' = "Evaluating"
  /\ UNCHANGED <<iterationCount, tradesExecuted>>

\* No opportunity sleeps, an opportunity is executed.
Decide ==
  /\ phase = "Evaluating"
  /\ phase' \in {"Sleeping", "Executing"}
  /\ UNCHANGED <<iterationCount, tradesExecuted>>

\* The submission ends: success counts one trade, failure none.
Submitted ==
  /\ phase = "Executing"
  /\ phase' = "Sleeping"
  /\ tradesExecuted' \in {tradesExecuted, tradesExecuted + 1}
  /\ UNCHANGED iterationCount

Interrupted ==
  /\ phase \notin {"Stopped", "Exited"}
  /\ phase' = "Stopped"
  /\ UNCHANGED <<iterationCount, tradesExecuted>>

ConnectFails ==
  /\ phase = "Idle"
  /\ phase' = "Exited"
  /\ UNCHANGED <<iterationCount, tradesExecuted>>

Next ==
  \/ StartCycle \/ SkipCycle \/ Absent \/ Evaluate \/ Decide \/ Submitted
  \/ Interrupted \/ ConnectFails

Spec == Init /\ [][Next]_vars

\* A cycle executes at most one trade, so the session summary never shows
\* more trades than iterations.
TradesWithinIterations == tradesExecuted <= iterationCount
=============================================================================

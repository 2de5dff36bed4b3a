---------------------------- MODULE PeriodicTasks ----------------------------
(***************************************************************************)
(* What the agent promises of its periodic tasks.  A task waits for its    *)
(* next run, works, and waits again; it is lost, waiting for nothing, only *)
(* when it is one that may give up and gives up, or when it could not be   *)
(* started; a lost task can be revived; and all of them go down together.  *)
(***************************************************************************)
CONSTANTS
  Task,      \* the tasks
  Fallible   \* those whose work may end without a next run

VARIABLE phase   \* per task, "waiting", "working", "lost" or "down"

Init == phase = [t \in Task |-> "waiting"]

Move(t, from, to) ==
  /\ phase[t] = from
  /\ phase' = [phase EXCEPT ![t] = to]

Start(t) == Move(t, "waiting", "working")

Finish(t) == Move(t, "working", "waiting")

GiveUp(t) == t \in Fallible /\ Move(t, "working", "lost")

FailToStart(t) == Move(t, "waiting", "lost")

Revive(t) == Move(t, "lost", "waiting")

Stop ==
  /\ \E t \in Task : phase[t] # "down"
  /\ phase' = [t \in Task |-> "down"]

Next ==
  \/ \E t \in Task : \/ Start(t) \/ Finish(t) \/ GiveUp(t)
                     \/ FailToStart(t) \/ Revive(t)
  \/ Stop

Safe == Init /\ [][Next]_phase

\* A waiting task is started and a working one comes to an end.
Spec ==
  /\ Safe
  /\ \A t \in Task : WF_phase(Start(t)) /\ WF_phase(Finish(t) \/ GiveUp(t))

==============================================================================

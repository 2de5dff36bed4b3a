---------------------------- MODULE License_proofs ----------------------------
(***************************************************************************)
(* Theorems about LicenseAgent, the timers and threads of the licence's    *)
(* tasks, for any number of reloads and of months, and about LicenseFile,  *)
(* the runs of those tasks on the license file, for any number of licenses *)
(* and of months.                                                          *)
(***************************************************************************)
EXTENDS LicenseAgent, LicenseFile, TLAPS

-----------------------------------------------------------------------------
(* LicenseAgent                                                            *)

(***************************************************************************)
(* Which scheduler's timers can be in a task's queue, given where the      *)
(* task's thread and the handler are.  Each of the two cancels everything  *)
(* before it schedules, so between those two calls of one of them only a   *)
(* timer of the other can be there; and the timer of open() is either the  *)
(* only one, the task never having run, or gone.                           *)
(***************************************************************************)
OneTimerEach(t) == \A b \in Schedulers : timers[t][b] <= 1

OpenTimerAlone(t) ==
  timers[t]["open"] > 0 =>
    /\ svc[t] = "idle"
    /\ timers[t]["svc"] = 0
    /\ timers[t]["reshedule"] = 0

SvcHasCancelled(t) == svc[t] = "cancelled" => timers[t]["svc"] = 0

HandlerHasCancelled(t) ==
  AtTask("schedule", t) => timers[t]["reshedule"] = 0 /\ timers[t]["open"] = 0

\* While the task has no thread, only the handler touches a prompt timer.
PromptHeld(t) ==
  prompt[t] => /\ svc[t] = "idle"
               /\ timers[t]["reshedule"] > 0

QueueInv ==
  \A t \in Tasks :
    /\ OneTimerEach(t)
    /\ OpenTimerAlone(t)
    /\ SvcHasCancelled(t)
    /\ HandlerHasCancelled(t)
    /\ PromptHeld(t)

-----------------------------------------------------------------------------

LEMMA NoTimersType == NoTimers \in [Schedulers -> Nat]
  BY DEF NoTimers

\* The handler is only about to read a version that exists.
ReloadLeft == handler.at = "init" => options < MaxReloads

\* Every variable keeps its type, whatever the threads and reactors do.
THEOREM TypeCorrect == Spec => []TypeOK
<1> DEFINE TInv == TypeOK /\ ReloadLeft
<1>1. Init => TInv
  BY AgentAssumption
     DEF Init, TypeOK, ReloadLeft, NoTimers, Schedulers, Version, Waiting, Tasks
<1>2. TInv /\ [Next]_vars => TInv'
  <2> SUFFICES ASSUME TInv, [Next]_vars
               PROVE  TInv'
    OBVIOUS
  <2> USE DEF TypeOK, ReloadLeft
  <2>1. ASSUME NEW t \in Tasks, StartSvc(t)
        PROVE  TInv'
    BY <2>1 DEF StartSvc, Due, Expire
  <2>2. ASSUME NEW t \in Tasks, IgnoreTimer(t)
        PROVE  TInv'
    BY <2>2 DEF IgnoreTimer, Due, Expire
  <2>3. ASSUME NEW t \in Tasks, FailToStart(t)
        PROVE  TInv'
    BY <2>3, NoTimersType DEF FailToStart
  <2>4. ASSUME NEW t \in Tasks, DecideToWait(t)
        PROVE  TInv'
    BY <2>4 DEF DecideToWait
  <2>5. ASSUME NEW t \in Tasks, DecideNothing(t)
        PROVE  TInv'
    BY <2>5 DEF DecideNothing
  <2>6. ASSUME NEW t \in Tasks, Terminate(t)
        PROVE  TInv'
    BY <2>6 DEF Terminate
  <2>7. ASSUME NEW t \in Tasks, CancelTimer(t)
        PROVE  TInv'
    BY <2>7, NoTimersType DEF CancelTimer
  <2>8. ASSUME NEW t \in Tasks, ScheduleTimer(t)
        PROVE  TInv'
    BY <2>8 DEF ScheduleTimer, Schedulers
  <2>9. ASSUME NEW t \in Tasks, Exit(t)
        PROVE  TInv'
    BY <2>9 DEF Exit
  <2>10. CASE ConfigModified
    BY <2>10 DEF ConfigModified, GoTo, Tasks
  <2>11. CASE ParserInit
    <3>1. options + 1 \in Version
      BY <2>11, AgentAssumption DEF ParserInit, AtTask, Version
    <3> QED
      BY <2>11, <3>1 DEF ParserInit, GoTo, Tasks
  <2>12. CASE ParserInitFails
    BY <2>12 DEF ParserInitFails, Waiting, Tasks
  <2>13. ASSUME NEW t \in Tasks, SetWaiting(t)
         PROVE  TInv'
    BY <2>13 DEF SetWaiting, GoTo
  <2>14. ASSUME NEW t \in Tasks, ResheduleCancel(t)
         PROVE  TInv'
    BY <2>14, NoTimersType DEF ResheduleCancel, GoTo
  <2>15. ASSUME NEW t \in Tasks, ResheduleSchedule(t)
         PROVE  TInv'
    BY <2>15 DEF ResheduleSchedule, Schedulers, Waiting, Tasks
  <2>16. CASE Interrupt
    BY <2>16 DEF Interrupt
  <2>17. CASE Return
    BY <2>17 DEF Return
  <2>18. CASE Gone \/ UNCHANGED vars
    BY <2>18 DEF Gone, vars
  <2> QED
    BY <2>1, <2>2, <2>3, <2>4, <2>5, <2>6, <2>7, <2>8, <2>9, <2>10, <2>11,
       <2>12, <2>13, <2>14, <2>15, <2>16, <2>17, <2>18
       DEF Next, Dispatch, Svc, Handler, Reshedule
<1> QED
  BY <1>1, <1>2, PTL DEF Spec, TInv

-----------------------------------------------------------------------------

\* The queue invariant holds before the loop starts ...
LEMMA QueueInit == Init => QueueInv
  BY DEF Init, QueueInv, OneTimerEach, OpenTimerAlone, SvcHasCancelled,
         HandlerHasCancelled, PromptHeld, NoTimers, Schedulers, AtTask, Waiting

\* ... and is kept by every dispatch, every step of a thread and of the handler.
LEMMA QueueStep == TypeOK /\ QueueInv /\ [Next]_vars => QueueInv'
<1> SUFFICES ASSUME TypeOK, QueueInv, [Next]_vars
             PROVE  QueueInv'
  OBVIOUS
<1> USE DEF TypeOK, QueueInv, OneTimerEach, OpenTimerAlone, SvcHasCancelled,
            HandlerHasCancelled, PromptHeld, Schedulers, AtTask
<1>1. ASSUME NEW t \in Tasks, StartSvc(t)
      PROVE  QueueInv'
  BY <1>1 DEF StartSvc, Due, Expire
<1>2. ASSUME NEW t \in Tasks, IgnoreTimer(t)
      PROVE  QueueInv'
  BY <1>2 DEF IgnoreTimer, Due, Expire
<1>3. ASSUME NEW t \in Tasks, FailToStart(t)
      PROVE  QueueInv'
  BY <1>3 DEF FailToStart, NoTimers
<1>4. ASSUME NEW t \in Tasks, DecideToWait(t) \/ DecideNothing(t) \/ Terminate(t)
      PROVE  QueueInv'
  BY <1>4 DEF DecideToWait, DecideNothing, Terminate
<1>5. ASSUME NEW t \in Tasks, CancelTimer(t)
      PROVE  QueueInv'
  BY <1>5 DEF CancelTimer, NoTimers
<1>6. ASSUME NEW t \in Tasks, ScheduleTimer(t)
      PROVE  QueueInv'
  BY <1>6 DEF ScheduleTimer
<1>7. ASSUME NEW t \in Tasks, Exit(t)
      PROVE  QueueInv'
  BY <1>7 DEF Exit
<1>8. CASE ConfigModified \/ ParserInit \/ ParserInitFails
  BY <1>8 DEF ConfigModified, ParserInit, ParserInitFails, GoTo, Waiting
<1>9. ASSUME NEW t \in Tasks, SetWaiting(t)
      PROVE  QueueInv'
  BY <1>9 DEF SetWaiting, GoTo
<1>10. ASSUME NEW t \in Tasks, ResheduleCancel(t)
       PROVE  QueueInv'
  <2>1. \A b \in Schedulers : timers'[t][b] = 0
    BY <1>10 DEF ResheduleCancel, NoTimers
  <2>2. ~prompt'[t] /\ svc' = svc /\ handler' = [at |-> "schedule", task |-> t]
    BY <1>10 DEF ResheduleCancel, GoTo
  <2>3. \A u \in Tasks \ {t} : timers'[u] = timers[u] /\ prompt'[u] = prompt[u]
    BY <1>10 DEF ResheduleCancel
  <2>4. \A u \in Tasks \ {t} : handler' # [at |-> "schedule", task |-> u]
    BY <2>2
  <2>5. ASSUME NEW u \in Tasks
        PROVE  /\ OneTimerEach(u)' /\ OpenTimerAlone(u)' /\ SvcHasCancelled(u)'
               /\ HandlerHasCancelled(u)' /\ PromptHeld(u)'
    <3>1. CASE u = t
      BY <3>1, <2>1, <2>2
    <3>2. CASE u # t
      BY <3>2, <2>2, <2>3, <2>4
    <3> QED
      BY <3>1, <3>2
  <2> QED
    BY <2>5
<1>11. ASSUME NEW t \in Tasks, ResheduleSchedule(t)
       PROVE  QueueInv'
  <2>1. /\ timers[t]["reshedule"] = 0
        /\ timers[t]["open"] = 0
        /\ timers[t]["svc"] <= 1
    BY <1>11 DEF ResheduleSchedule
  <2>2. timers' = [timers EXCEPT ![t]["reshedule"] = 1]
    BY <1>11, <2>1 DEF ResheduleSchedule
  <2>3. svc' = svc /\ prompt' = [prompt EXCEPT ![t] = (svc[t] = "idle")]
    BY <1>11 DEF ResheduleSchedule
  <2>4. handler'.at # "schedule"
    BY <1>11 DEF ResheduleSchedule, Waiting
  <2>5. \A u \in Tasks : handler' # [at |-> "schedule", task |-> u]
    BY <2>4
  <2> QED
    BY <2>1, <2>2, <2>3, <2>5
<1>12. CASE Interrupt \/ Return \/ Gone \/ UNCHANGED vars
  BY <1>12 DEF Interrupt, Return, Gone, vars
<1> QED
  BY <1>1, <1>2, <1>3, <1>4, <1>5, <1>6, <1>7, <1>8, <1>9, <1>10, <1>11, <1>12
     DEF Next, Dispatch, Svc, Handler, Reshedule

LEMMA QueueInvariant == Spec => []QueueInv
  BY QueueInit, QueueStep, TypeCorrect, PTL DEF Spec

\* However schedule_handle_timeout() interleaves with itself, a task never has
\* more than two timers.
THEOREM TimersBounded == Spec => []AtMostTwoTimers
<1>1. TypeOK /\ QueueInv => AtMostTwoTimers
  BY DEF TypeOK, QueueInv, OneTimerEach, OpenTimerAlone, AtMostTwoTimers,
         Schedulers
<1> QED
  BY <1>1, TypeCorrect, QueueInvariant, PTL

\* A prompt run that reshedule_tasks() asked for while the task had no thread
\* is not taken away by anything but its start.
THEOREM PromptRunSafe == Spec => []PromptRunKept
<1>1. TypeOK /\ QueueInv => PromptRunKept
  BY DEF TypeOK, QueueInv, OneTimerEach, PromptHeld, PromptRunKept, Schedulers
<1> QED
  BY <1>1, TypeCorrect, QueueInvariant, PTL

-----------------------------------------------------------------------------

\* While the service runs, a task has a timer, or its thread or the handler is
\* about to give it one, unless an http_exception or a failed start left it
\* without; provided a thread ends before the shortest timer expires.
THEOREM NeverOrphaned == PromptExit => (Spec => []NoTaskOrphaned)
<1> SUFFICES ASSUME PromptExit
             PROVE  Spec => []NoTaskOrphaned
  OBVIOUS
<1>1. Init => NoTaskOrphaned
  BY DEF Init, NoTaskOrphaned, Armed, NoTimers, Schedulers
<1>2. TypeOK /\ NoTaskOrphaned /\ [Next]_vars => NoTaskOrphaned'
  <2> SUFFICES ASSUME TypeOK, NoTaskOrphaned, [Next]_vars
               PROVE  NoTaskOrphaned'
    OBVIOUS
  <2> USE DEF TypeOK, NoTaskOrphaned, Armed, HandlerOwes, AtTask
  <2>1. ASSUME NEW t \in Tasks, StartSvc(t)
        PROVE  NoTaskOrphaned'
    BY <2>1 DEF StartSvc, Expire
  <2>2. ASSUME NEW t \in Tasks, IgnoreTimer(t)
        PROVE  NoTaskOrphaned'
    <3>1. svc[t] \in {"running", "decided"}
      BY <2>2 DEF IgnoreTimer, Due
    <3> QED
      BY <2>2, <3>1 DEF IgnoreTimer, Expire
  <2>3. ASSUME NEW t \in Tasks, FailToStart(t)
        PROVE  NoTaskOrphaned'
    BY <2>3 DEF FailToStart
  <2>4. ASSUME NEW t \in Tasks, DecideToWait(t) \/ Terminate(t)
        PROVE  NoTaskOrphaned'
    BY <2>4 DEF DecideToWait, Terminate
  <2>5. ASSUME NEW t \in Tasks, DecideNothing(t)
        PROVE  NoTaskOrphaned'
    <3>1. t = "get_license"
      BY <2>5 DEF DecideNothing, Decisions, ProcessKillerDecisions
    <3> QED
      BY <2>5, <3>1 DEF DecideNothing
  <2>6. ASSUME NEW t \in Tasks, CancelTimer(t)
        PROVE  NoTaskOrphaned'
    BY <2>6 DEF CancelTimer
  <2>7. ASSUME NEW t \in Tasks, ScheduleTimer(t)
        PROVE  NoTaskOrphaned'
    <3>1. timers'[t]["svc"] > 0
      BY <2>7 DEF ScheduleTimer, Schedulers
    <3> QED
      BY <2>7, <3>1 DEF ScheduleTimer, Schedulers
  <2>8. ASSUME NEW t \in Tasks, Exit(t)
        PROVE  NoTaskOrphaned'
    BY <2>8 DEF Exit
  <2>9. CASE ConfigModified \/ ParserInit \/ ParserInitFails
    BY <2>9 DEF ConfigModified, ParserInit, ParserInitFails, GoTo, Waiting, AtTask
  <2>10. ASSUME NEW t \in Tasks, SetWaiting(t)
         PROVE  NoTaskOrphaned'
    BY <2>10 DEF SetWaiting, GoTo
  <2>11. ASSUME NEW t \in Tasks, ResheduleCancel(t)
         PROVE  NoTaskOrphaned'
    <3>1. handler' = [at |-> "schedule", task |-> t]
      BY <2>11 DEF ResheduleCancel, GoTo
    <3>2. handler.at # "schedule"
      BY <2>11 DEF ResheduleCancel
    <3>3. \A u \in Tasks \ {t} : timers'[u] = timers[u]
      BY <2>11 DEF ResheduleCancel
    <3> QED
      BY <2>11, <3>1, <3>2, <3>3 DEF ResheduleCancel
  <2>12. ASSUME NEW t \in Tasks, ResheduleSchedule(t)
         PROVE  NoTaskOrphaned'
    <3>1. timers'[t]["reshedule"] > 0
      BY <2>12 DEF ResheduleSchedule, Schedulers
    <3>2. \A u \in Tasks \ {t} : ~HandlerOwes(u) /\ timers'[u] = timers[u]
      BY <2>12 DEF ResheduleSchedule
    <3> QED
      BY <2>12, <3>1, <3>2 DEF ResheduleSchedule, Schedulers
  <2>13. CASE Interrupt \/ Return \/ Gone \/ UNCHANGED vars
    BY <2>13 DEF Interrupt, Return, Gone, vars
  <2> QED
    BY <2>1, <2>2, <2>3, <2>4, <2>5, <2>6, <2>7, <2>8, <2>9, <2>10, <2>11,
       <2>12, <2>13 DEF Next, Dispatch, Svc, Handler, Reshedule
<1> QED
  BY <1>1, <1>2, TypeCorrect, PTL DEF Spec

-----------------------------------------------------------------------------
(* The agent implements the safety part of PeriodicTasks.                  *)

\* A task that has a thread was started: nothing failed to start it since.
Started == \A t \in Tasks : svc[t] # "idle" => cause[t] # "spawn_failed"

LEMMA StartedInvariant == Spec => []Started
<1>1. Init => Started
  BY DEF Init, Started
<1>2. TypeOK /\ Started /\ [Next]_vars => Started'
  <2> SUFFICES ASSUME TypeOK, Started, [Next]_vars
               PROVE  Started'
    OBVIOUS
  <2> USE DEF TypeOK, Started
  <2>1. ASSUME NEW t \in Tasks, Dispatch(t)
        PROVE  Started'
    BY <2>1 DEF Dispatch, StartSvc, IgnoreTimer, FailToStart
  <2>2. ASSUME NEW t \in Tasks, Svc(t)
        PROVE  Started'
    BY <2>2 DEF Svc, DecideToWait, DecideNothing, Terminate, CancelTimer,
                ScheduleTimer, Exit
  <2>3. CASE Handler
    BY <2>3 DEF Handler, ConfigModified, ParserInit, ParserInitFails, Reshedule,
                SetWaiting, ResheduleCancel, ResheduleSchedule
  <2>4. CASE Interrupt \/ Return \/ Gone \/ UNCHANGED vars
    BY <2>4 DEF Interrupt, Return, Gone, vars
  <2> QED
    BY <2>1, <2>2, <2>3, <2>4 DEF Next
<1> QED
  BY <1>1, <1>2, TypeCorrect, PTL DEF Spec

\* The tasks' phases, the state of PeriodicTasks.
Phases == [t \in Tasks |-> Phase(t)]

\* A step that changes the phase of one task is a move of PeriodicTasks.
LEMMA OneMoves ==
  ASSUME NEW t \in Tasks, NEW from, NEW to,
         Phase(t) = from, Phase(t)' = to,
         \A u \in Tasks \ {t} : Phase(u)' = Phase(u)
  PROVE  /\ Phases[t] = from
         /\ Phases' = [Phases EXCEPT ![t] = to]
BY DEF Phases

LEMMA NoneMoves ==
  ASSUME \A u \in Tasks : Phase(u)' = Phase(u)
  PROVE  Phases' = Phases
BY DEF Phases

\* The phase of a task depends on the service, its own timers and thread, and on
\* whether the handler owes it a timer.
LEMMA PhaseUnchanged ==
  ASSUME NEW u \in Tasks, service' = service,
         timers'[u] = timers[u], svc'[u] = svc[u], HandlerOwes(u)' = HandlerOwes(u)
  PROVE  Phase(u)' = Phase(u)
BY DEF Phase, Armed

\* Every step of the agent is a step of PeriodicTasks or leaves the phases alone.
LEMMA StepSimulation ==
  ASSUME TypeOK, TypeOK', NoTaskOrphaned', Started, [Next]_vars
  PROVE  [Promise!Next]_Phases
<1> USE DEF TypeOK, HandlerOwes, AtTask
<1>m. ASSUME NEW t \in Tasks, NEW from, NEW to,
             Phases[t] = from, Phases' = [Phases EXCEPT ![t] = to],
             \/ from = "waiting" /\ to = "working"
             \/ from = "working" /\ to = "waiting"
             \/ from = "working" /\ to = "lost" /\ t = "get_license"
             \/ from = "waiting" /\ to = "lost"
             \/ from = "lost"    /\ to = "waiting"
      PROVE  [Promise!Next]_Phases
  BY <1>m DEF Phases, Promise!Next, Promise!Start, Promise!Finish, Promise!GiveUp,
              Promise!FailToStart, Promise!Revive, Promise!Move
<1>n. ASSUME \A u \in Tasks : Phase(u)' = Phase(u)
      PROVE  [Promise!Next]_Phases
  BY <1>n, NoneMoves
<1>d. ASSUME service = "running", service' # "running"
      PROVE  [Promise!Next]_Phases
  <2>1. \A u \in Tasks : Phase(u)' = "down" /\ Phase(u) # "down"
    BY <1>d DEF Phase
  <2> QED
    BY <2>1 DEF Phases, Promise!Next, Promise!Stop, Tasks
<1>s. ASSUME service # "running", service' # "running"
      PROVE  [Promise!Next]_Phases
  <2>1. \A u \in Tasks : Phase(u)' = Phase(u)
    BY <1>s DEF Phase
  <2> QED
    BY <2>1, <1>n
<1>1. ASSUME NEW t \in Tasks, StartSvc(t)
      PROVE  [Promise!Next]_Phases
  <2>1. Phase(t) = "waiting"
    BY <1>1 DEF StartSvc, Due, Phase, Armed
  <2>2. Phase(t)' = "working"
    BY <1>1 DEF StartSvc, Due, Phase
  <2>3. \A u \in Tasks \ {t} : Phase(u)' = Phase(u)
    BY <1>1, PhaseUnchanged DEF StartSvc, Expire
  <2> QED
    BY <2>1, <2>2, <2>3, OneMoves, <1>m
<1>2. ASSUME NEW t \in Tasks, IgnoreTimer(t)
      PROVE  [Promise!Next]_Phases
  <2>1. Phase(t)' = Phase(t)
    BY <1>2 DEF IgnoreTimer, Phase
  <2>2. \A u \in Tasks \ {t} : Phase(u)' = Phase(u)
    BY <1>2, PhaseUnchanged DEF IgnoreTimer, Expire
  <2> QED
    BY <2>1, <2>2, <1>n
<1>3. ASSUME NEW t \in Tasks, FailToStart(t)
      PROVE  [Promise!Next]_Phases
  <2>1. Phase(t) = "waiting"
    BY <1>3 DEF FailToStart, Due, Phase, Armed
  <2>2. Phase(t)' = "waiting" \/ Phase(t)' = "lost"
    BY <1>3 DEF FailToStart, Due, Phase
  <2>3. \A u \in Tasks \ {t} : Phase(u)' = Phase(u)
    BY <1>3, PhaseUnchanged DEF FailToStart
  <2>4. CASE Phase(t)' = "lost"
    BY <2>1, <2>3, <2>4, OneMoves, <1>m
  <2>5. CASE Phase(t)' = "waiting"
    BY <2>1, <2>3, <2>5, <1>n
  <2> QED
    BY <2>2, <2>4, <2>5
<1>4. ASSUME NEW t \in Tasks,
             \/ DecideToWait(t) \/ DecideNothing(t)
             \/ CancelTimer(t) \/ ScheduleTimer(t)
      PROVE  [Promise!Next]_Phases
  <2>1. Phase(t)' = Phase(t)
    BY <1>4 DEF DecideToWait, DecideNothing, CancelTimer, ScheduleTimer, Phase
  <2>2. \A u \in Tasks \ {t} : Phase(u)' = Phase(u)
    BY <1>4, PhaseUnchanged
       DEF DecideToWait, DecideNothing, CancelTimer, ScheduleTimer
  <2> QED
    BY <2>1, <2>2, <1>n
<1>5. ASSUME NEW t \in Tasks, Terminate(t)
      PROVE  [Promise!Next]_Phases
  BY <1>5, <1>d, <1>s DEF Terminate
<1>6. ASSUME NEW t \in Tasks, Exit(t)
      PROVE  [Promise!Next]_Phases
  <2>1. CASE service # "running"
    BY <1>6, <2>1, <1>s DEF Exit
  <2>2. CASE service = "running"
    <3>1. Phase(t) = "working" /\ (Phase(t)' = "waiting" \/ Phase(t)' = "lost")
      BY <1>6, <2>2 DEF Exit, Phase
    <3>2. Phase(t)' = "lost" => t = "get_license"
      BY <1>6, <2>2 DEF Exit, Phase, Started, NoTaskOrphaned, Armed
    <3>3. \A u \in Tasks \ {t} : Phase(u)' = Phase(u)
      BY <1>6, PhaseUnchanged DEF Exit
    <3> QED
      BY <3>1, <3>2, <3>3, OneMoves, <1>m
  <2> QED
    BY <2>1, <2>2
<1>7. CASE ConfigModified \/ ParserInit
  BY <1>7, PhaseUnchanged, <1>n DEF ConfigModified, ParserInit, GoTo, Waiting
<1>8. CASE ParserInitFails
  BY <1>8, <1>d, <1>s DEF ParserInitFails
<1>9. ASSUME NEW t \in Tasks, SetWaiting(t)
      PROVE  [Promise!Next]_Phases
  BY <1>9, PhaseUnchanged, <1>n DEF SetWaiting, GoTo
<1>10. ASSUME NEW t \in Tasks, ResheduleCancel(t)
       PROVE  [Promise!Next]_Phases
  <2>1. CASE service # "running"
    BY <1>10, <2>1, <1>s DEF ResheduleCancel
  <2>2. CASE service = "running"
    <3>1. handler'.at = "schedule" /\ HandlerOwes(t)'
      BY <1>10 DEF ResheduleCancel, GoTo
    <3>2. \A u \in Tasks \ {t} : HandlerOwes(u)' = HandlerOwes(u)
      BY <1>10 DEF ResheduleCancel, GoTo
    <3>3. \A u \in Tasks \ {t} : Phase(u)' = Phase(u)
      BY <1>10, <3>2, PhaseUnchanged DEF ResheduleCancel
    <3>4. CASE svc[t] # "idle"
      <4>1. Phase(t)' = Phase(t)
        BY <1>10, <3>4 DEF ResheduleCancel, Phase
      <4> QED
        BY <4>1, <3>3, <1>n
    <3>5. CASE svc[t] = "idle"
      <4>1. Phase(t)' = "waiting"
        BY <1>10, <2>2, <3>1, <3>5 DEF ResheduleCancel, Phase
      <4>2. Phase(t) = "waiting" \/ Phase(t) = "lost"
        BY <2>2, <3>5 DEF Phase
      <4>3. CASE Phase(t) = "lost"
        BY <4>1, <4>3, <3>3, OneMoves, <1>m
      <4>4. CASE Phase(t) = "waiting"
        BY <4>1, <4>4, <3>3, <1>n
      <4> QED
        BY <4>2, <4>3, <4>4
    <3> QED
      BY <3>4, <3>5
  <2> QED
    BY <2>1, <2>2
<1>11. ASSUME NEW t \in Tasks, ResheduleSchedule(t)
       PROVE  [Promise!Next]_Phases
  <2>1. HandlerOwes(t) /\ timers'[t]["reshedule"] > 0
    BY <1>11 DEF ResheduleSchedule, Schedulers
  <2>2. Phase(t)' = Phase(t)
    BY <1>11, <2>1 DEF ResheduleSchedule, Phase, Armed, Schedulers
  <2>3. \A u \in Tasks \ {t} : ~HandlerOwes(u) /\ ~HandlerOwes(u)'
    BY <1>11 DEF ResheduleSchedule, Waiting
  <2>4. \A u \in Tasks \ {t} : Phase(u)' = Phase(u)
    BY <1>11, <2>3, PhaseUnchanged DEF ResheduleSchedule
  <2> QED
    BY <2>2, <2>4, <1>n
<1>12. CASE Interrupt \/ Return
  BY <1>12, <1>d, <1>s DEF Interrupt, Return
<1>13. CASE Gone \/ UNCHANGED vars
  BY <1>13, PhaseUnchanged, <1>n DEF Gone, vars
<1> QED
  BY <1>1, <1>2, <1>3, <1>4, <1>5, <1>6, <1>7, <1>8, <1>9, <1>10, <1>11, <1>12,
     <1>13 DEF Next, Dispatch, Svc, Handler, Reshedule

\* What PeriodicTasks says its tasks may do is all that the agent's tasks do.
THEOREM PromiseSafe == PromptExit => (Spec => Promise!Safe)
<1> SUFFICES ASSUME PromptExit
             PROVE  Spec => Promise!Safe
  OBVIOUS
<1>1. Init => Promise!Init
  BY DEF Init, Promise!Init, Phase, Armed, NoTimers, Schedulers
<1>2. TypeOK /\ TypeOK' /\ NoTaskOrphaned' /\ Started /\ [Next]_vars
        => [Promise!Next]_Phases
  BY StepSimulation
<1> QED
  BY <1>1, <1>2, TypeCorrect, NeverOrphaned, StartedInvariant, PTL
     DEF Spec, Promise!Safe, Phases

-----------------------------------------------------------------------------
(* LicenseFile                                                             *)

LEMMA MonthType == ASSUME NEW k \in License PROVE Month(k) \in 1 .. LastMonth
<1>1. LastMonth \in Nat /\ LastMonth > 0 /\ k - 1 \in Nat
  BY LastMonthAssumption, LastIssueAssumption DEF License
<1>2. (k - 1) % LastMonth \in 0 .. LastMonth - 1
  BY <1>1
<1> QED
  BY <1>1, <1>2 DEF Month

\* The numbers that stand for what can be in the file are different.
LEMMA FileValues ==
  /\ LastIssue \in Nat /\ License \subseteq Nat
  /\ Empty \in Nat /\ NoFile = 0
  /\ Empty \notin License /\ NoFile \notin License /\ Empty # NoFile
  /\ NoFile .. Empty = {NoFile, Empty} \cup License
BY LastIssueAssumption DEF License, Empty, NoFile

-----------------------------------------------------------------------------

\* The steps of a thread move its program counter and keep the process up.
Steps == {"idle", "lost", "fetch", "exists", "compare", "open", "flush",
          "verify", "terminate_process"}

\* Every variable keeps its type.
THEOREM FileTypeCorrect == FileSpec => []FileTypeOK
<1> USE DEF FileTypeOK, Threads, Writers, Goto, Hold
<1>1. FileInit => FileTypeOK
  <2> SUFFICES ASSUME FileInit PROVE FileTypeOK
    OBVIOUS
  <2>1. file \in NoFile .. Empty /\ installed \in {NoFile} \cup License
    BY FileValues DEF FileInit
  <2>2. issued \in License
    BY LastIssueAssumption DEF FileInit, License
  <2>3. got \in [Writers -> [license : License, month : 0 .. LastMonth]]
    <3>1. 1 \in License /\ 0 \in 0 .. LastMonth
      BY LastIssueAssumption, LastMonthAssumption DEF License
    <3> QED
      BY <3>1 DEF FileInit
  <2> QED
    BY <2>1, <2>2, <2>3 DEF FileInit
<1>2. FileTypeOK /\ [FileNext]_fileVars => FileTypeOK'
  <2> SUFFICES ASSUME FileTypeOK, [FileNext]_fileVars
               PROVE  FileTypeOK'
    OBVIOUS
  <2>1. ASSUME NEW t \in Threads, Begin(t)
        PROVE  FileTypeOK'
    BY <2>1 DEF Begin, FirstStep
  <2>2. ASSUME NEW w \in Writers, NEW month \in {0, Month(issued)},
               NEW next \in {"exists", "open"}, Receive(w, month, next)
        PROVE  FileTypeOK'
    <3>1. month \in 0 .. LastMonth
      BY MonthType, LastMonthAssumption
    <3>2. got' \in [Writers -> [license : License, month : 0 .. LastMonth]]
      BY <2>2, <3>1 DEF Receive
    <3> QED
      BY <2>2, <3>2 DEF Receive, ghosts
  <2>3. ASSUME NEW w \in Writers, ReceiveNone(w) \/ OpenFails(w) \/ FlushFails(w)
        PROVE  FileTypeOK'
    BY <2>3 DEF ReceiveNone, OpenFails, FlushFails, ghosts
  <2>4. ASSUME NEW w \in Writers, OpenFile(w)
        PROVE  FileTypeOK'
    BY <2>4, FileValues DEF OpenFile, ghosts
  <2>5. ASSUME NEW w \in Writers, Flush(w)
        PROVE  FileTypeOK'
    <3>1. file' \in License /\ installed' = file'
      BY <2>5 DEF Flush
    <3> QED
      BY <2>5, <3>1, FileValues DEF Flush
  <2>6. ASSUME NEW t \in Threads, ExistsRaises(t)
        PROVE  FileTypeOK'
    BY <2>6 DEF ExistsRaises, ghosts
  <2>7. CASE GetLicenseExists
    BY <2>7 DEF GetLicenseExists, ghosts
  <2>8. CASE Compare
    <3>1. pc' \in [Threads -> Steps]
      BY <2>8 DEF Compare, Steps
    <3> QED
      BY <2>8, <3>1 DEF Compare, ghosts, Steps
  <2>9. CASE WorkerExists \/ WorkerVerify
    BY <2>9 DEF WorkerExists, WorkerVerify, ghosts
  <2>10. CASE KillerExists \/ KillerVerify \/ Kill
    BY <2>10 DEF KillerExists, KillerVerify, Kill, ghosts
  <2>11. CASE End
    BY <2>11 DEF End
  <2>12. CASE Restart
    BY <2>12 DEF Restart, ghosts
  <2>13. CASE Issue
    BY <2>13, FileValues, LastIssueAssumption DEF Issue, License, ghosts
  <2>14. CASE StartFails \/ ReloadTimer \/ GiveUp
    BY <2>14 DEF StartFails, ReloadTimer, GiveUp, ghosts
  <2>15. CASE UNCHANGED fileVars
    BY <2>15 DEF fileVars
  <2> QED
    BY <2>1, <2>2, <2>3, <2>4, <2>5, <2>6, <2>7, <2>8, <2>9, <2>10, <2>11,
       <2>12, <2>13, <2>14, <2>15
       DEF FileNext, GetLicense, Worker, Killer, GetLicenseReceive, WorkerReceive,
           CompareCrashes, Shutdown
<1> QED
  BY <1>1, <1>2, PTL DEF FileSpec

-----------------------------------------------------------------------------

\* The file is found empty only inside a write or since one was cut short, by the
\* end of the process or by a full disk.
THEOREM EmptyExplained == FileSpec => []EmptyOnlyWhileWriting
<1> USE DEF FileTypeOK, EmptyOnlyWhileWriting, Threads, Writers, Goto
<1>1. FileInit => EmptyOnlyWhileWriting
  BY FileValues DEF FileInit
<1>2. FileTypeOK /\ EmptyOnlyWhileWriting /\ [FileNext]_fileVars => EmptyOnlyWhileWriting'
  <2> SUFFICES ASSUME FileTypeOK, EmptyOnlyWhileWriting, [FileNext]_fileVars
               PROVE  EmptyOnlyWhileWriting'
    OBVIOUS
  <2>1. ASSUME NEW t \in Threads, Begin(t)
        PROVE  EmptyOnlyWhileWriting'
    BY <2>1 DEF Begin, FirstStep
  <2>2. ASSUME NEW w \in Writers, NEW month, NEW next, Receive(w, month, next)
        PROVE  EmptyOnlyWhileWriting'
    BY <2>2 DEF Receive, ghosts
  <2>3. ASSUME NEW w \in Writers, ReceiveNone(w) \/ OpenFails(w)
        PROVE  EmptyOnlyWhileWriting'
    BY <2>3 DEF ReceiveNone, OpenFails, ghosts
  <2>4. ASSUME NEW w \in Writers, OpenFile(w)
        PROVE  EmptyOnlyWhileWriting'
    <3>1. pc'[w] = "flush"
      BY <2>4 DEF OpenFile
    <3> QED
      BY <3>1
  <2>5. ASSUME NEW w \in Writers, Flush(w)
        PROVE  EmptyOnlyWhileWriting'
    <3>1. file' \in License
      BY <2>5 DEF Flush
    <3> QED
      BY <3>1, FileValues DEF Empty
  <2>6. ASSUME NEW t \in Threads, ExistsRaises(t)
        PROVE  EmptyOnlyWhileWriting'
    BY <2>6 DEF ExistsRaises, ghosts
  <2>7. CASE StartFails \/ ReloadTimer \/ GiveUp \/ GetLicenseExists \/ Compare
    BY <2>7 DEF StartFails, ReloadTimer, GiveUp, GetLicenseExists, Compare, ghosts
  <2>8. CASE WorkerExists \/ WorkerVerify
    BY <2>8 DEF WorkerExists, WorkerVerify, ghosts
  <2>9. CASE KillerExists \/ KillerVerify \/ Kill
    BY <2>9 DEF KillerExists, KillerVerify, Kill, ghosts
  <2>10. CASE End
    BY <2>10 DEF End
  <2>11. CASE Restart \/ Issue \/ UNCHANGED fileVars
    BY <2>11 DEF Restart, Issue, fileVars, ghosts
  <2>12. ASSUME NEW w \in Writers, FlushFails(w)
         PROVE  EmptyOnlyWhileWriting'
    <3>1. file' = Empty => torn'
      BY <2>12 DEF FlushFails
    <3> QED
      BY <3>1
  <2> QED
    BY <2>1, <2>2, <2>3, <2>4, <2>5, <2>6, <2>7, <2>8, <2>9, <2>10, <2>11, <2>12
       DEF FileNext, GetLicense, Worker, Killer, GetLicenseReceive, WorkerReceive,
           CompareCrashes, Shutdown
<1> QED
  BY <1>1, <1>2, FileTypeCorrect, PTL DEF FileSpec

-----------------------------------------------------------------------------

\* A killer that is about to stop the VPN saw no file, or saw lic reject one.
LEMMA KillNeedsCause ==
  ASSUME FileTypeOK, NEW output \in LicOutput,
         Kills(TRUE, FileOf(file), output)
  PROVE  file # issued
<1> SUFFICES ASSUME file = issued PROVE FALSE
  OBVIOUS
<1>1. issued \in License /\ issued # NoFile /\ issued # Empty
  BY FileValues DEF FileTypeOK
<1>2. FileOf(file) # NoFile
  <2>1. FileOf(file) = Month(file)
    BY <1>1 DEF FileOf
  <2>2. Month(file) \in 1 .. LastMonth
    BY <1>1, MonthType
  <2> QED
    BY <2>1, <2>2 DEF NoFile
<1>3. output \in {"SUCCESS", "OTHER"}
  <2>1. LicOutput = {"SUCCESS", "OTHER"}
    BY <1>1 DEF LicOutput
  <2> QED
    BY <2>1
<1>4. VerifyLicense(output) # "invalid"
  BY <1>3 DEF VerifyLicense
<1> QED
  BY <1>2, <1>4 DEF Kills

\* The killer never acts while the file held the current license all along.
THEOREM KillsWithCause == FileSpec => []KilledOnlyWithCause
<1> USE DEF FileTypeOK, KilledOnlyWithCause, Threads, Writers, Goto, Hold
<1>1. FileInit => KilledOnlyWithCause
  BY DEF FileInit
<1>2. FileTypeOK /\ KilledOnlyWithCause /\ [FileNext]_fileVars => KilledOnlyWithCause'
  <2> SUFFICES ASSUME FileTypeOK, KilledOnlyWithCause, [FileNext]_fileVars
               PROVE  KilledOnlyWithCause'
    OBVIOUS
  <2>1. ASSUME NEW t \in Threads, Begin(t)
        PROVE  KilledOnlyWithCause'
    BY <2>1 DEF Begin, FirstStep
  <2>2. ASSUME NEW w \in Writers, NEW month, NEW next, Receive(w, month, next)
        PROVE  KilledOnlyWithCause'
    BY <2>2 DEF Receive
  <2>3. ASSUME NEW w \in Writers,
               \/ ReceiveNone(w) \/ OpenFile(w) \/ OpenFails(w)
               \/ Flush(w) \/ FlushFails(w)
        PROVE  KilledOnlyWithCause'
    BY <2>3 DEF ReceiveNone, OpenFile, OpenFails, Flush, FlushFails
  <2>4. ASSUME NEW t \in Threads, ExistsRaises(t)
        PROVE  KilledOnlyWithCause'
    BY <2>4 DEF ExistsRaises
  <2>5. CASE \/ StartFails \/ ReloadTimer \/ GiveUp \/ GetLicenseExists \/ Compare
             \/ WorkerExists \/ WorkerVerify
    BY <2>5 DEF StartFails, ReloadTimer, GiveUp, GetLicenseExists, Compare,
                WorkerExists, WorkerVerify, ghosts
  <2>6. CASE KillerExists
    <3>1. file' = file /\ issued' = issued /\ NoFile # issued
      BY <2>6, FileValues DEF KillerExists
    <3> QED
      BY <2>6, <3>1 DEF KillerExists
  <2>7. CASE KillerVerify
    <3>1. PICK output \in LicOutput :
            pc' = [pc EXCEPT !["process_killer"] =
                     IF Kills(TRUE, FileOf(file), output)
                     THEN "terminate_process" ELSE "idle"]
      BY <2>7 DEF KillerVerify
    <3>2. CASE Kills(TRUE, FileOf(file), output)
      <4>1. file # issued
        BY <3>2, KillNeedsCause
      <4> QED
        BY <2>7, <4>1 DEF KillerVerify
    <3>3. CASE ~Kills(TRUE, FileOf(file), output)
      BY <3>1, <3>3
    <3> QED
      BY <3>2, <3>3
  <2>8. CASE Kill \/ End
    BY <2>8 DEF Kill, End
  <2>9. CASE Restart \/ Issue \/ UNCHANGED fileVars
    BY <2>9 DEF Restart, Issue, fileVars
  <2> QED
    BY <2>1, <2>2, <2>3, <2>4, <2>5, <2>6, <2>7, <2>8, <2>9
       DEF FileNext, GetLicense, Worker, Killer, GetLicenseReceive, WorkerReceive,
           CompareCrashes, Shutdown
<1> QED
  BY <1>1, <1>2, FileTypeCorrect, PTL DEF FileSpec

-----------------------------------------------------------------------------

\* A writer between receiving a license and writing it or giving it up.
Holding(w) ==
  \/ pc[w] \in {"compare", "open", "flush"}
  \/ w = "get_license" /\ pc[w] = "exists"

\* No license is newer than what the server hands out now.
NoneFromTheFuture ==
  /\ installed <= issued
  /\ \A w \in Writers : got[w].license <= issued

\* A writer that nobody overtook holds nothing older than what was installed.
HoldsNoOlder ==
  \A w \in Writers : Holding(w) /\ ~raced[w] => installed <= got[w].license

RaceInv == FileTypeOK /\ NoneFromTheFuture /\ HoldsNoOlder

LEMMA RaceInvInductive == FileSpec => []RaceInv
<1> USE DEF RaceInv, NoneFromTheFuture, HoldsNoOlder, FileTypeOK, Threads, Writers,
            Goto
<1>1. FileTypeOK /\ FileInit => RaceInv
  BY FileValues DEF FileInit, Holding, License, NoFile
<1>2. RaceInv /\ FileTypeOK' /\ [FileNext]_fileVars => RaceInv'
  <2> SUFFICES ASSUME RaceInv, FileTypeOK', [FileNext]_fileVars
               PROVE  NoneFromTheFuture' /\ HoldsNoOlder'
    OBVIOUS
  <2>0. /\ issued \in Nat /\ issued' \in Nat
        /\ installed \in Nat /\ installed' \in Nat
        /\ \A w \in Writers : got[w].license \in Nat /\ got'[w].license \in Nat
    BY FileValues
  <2>1. ASSUME UNCHANGED <<issued, got, installed>>,
               \A w \in Writers : raced[w] => raced'[w],
               \A w \in Writers : Holding(w)' => Holding(w)
        PROVE  NoneFromTheFuture' /\ HoldsNoOlder'
    BY <2>1
  <2>2. ASSUME NEW t \in Threads, Begin(t)
        PROVE  NoneFromTheFuture' /\ HoldsNoOlder'
    <3>1. \A w \in Writers : w = t => ~Holding(w)'
      BY <2>2 DEF Begin, FirstStep, Holding
    <3>2. \A w \in Writers : w # t => (Holding(w)' => Holding(w)) /\ raced'[w] = raced[w]
      BY <2>2 DEF Begin, Holding
    <3> QED
      BY <2>2, <3>1, <3>2 DEF Begin
  <2>3. ASSUME NEW w \in Writers, NEW month, NEW next, Receive(w, month, next)
        PROVE  NoneFromTheFuture' /\ HoldsNoOlder'
    <3>1. /\ got'[w].license = issued
          /\ \A o \in Writers \ {w} : got'[o] = got[o]
          /\ \A o \in Writers \ {w} : Holding(o)' => Holding(o)
      BY <2>3 DEF Receive, Holding
    <3> QED
      BY <2>0, <2>3, <3>1 DEF Receive, ghosts
  <2>4. ASSUME NEW w \in Writers,
               ReceiveNone(w) \/ OpenFile(w) \/ OpenFails(w) \/ FlushFails(w)
        PROVE  NoneFromTheFuture' /\ HoldsNoOlder'
    BY <2>1, <2>4 DEF ReceiveNone, OpenFile, OpenFails, FlushFails, Holding, ghosts
  <2>5. ASSUME NEW w \in Writers, Flush(w)
        PROVE  NoneFromTheFuture' /\ HoldsNoOlder'
    <3>1. installed' = got[w].license /\ UNCHANGED <<issued, got>>
      BY <2>5 DEF Flush
    <3>2. ~Holding(w)'
      BY <2>5 DEF Flush, Holding
    <3>3. \A o \in Writers \ {w} : raced'[o]
      BY <2>5 DEF Flush
    <3> QED
      BY <3>1, <3>2, <3>3
  <2>6. ASSUME NEW t \in Threads, ExistsRaises(t)
        PROVE  NoneFromTheFuture' /\ HoldsNoOlder'
    BY <2>1, <2>6 DEF ExistsRaises, Holding, ghosts
  <2>7. CASE StartFails \/ ReloadTimer \/ GiveUp \/ GetLicenseExists \/ Compare
    BY <2>1, <2>7 DEF StartFails, ReloadTimer, GiveUp, GetLicenseExists, Compare,
                      Holding, ghosts
  <2>8. CASE WorkerExists \/ WorkerVerify
    BY <2>1, <2>8 DEF WorkerExists, WorkerVerify, Holding, ghosts
  <2>9. CASE KillerExists \/ KillerVerify \/ Kill
    BY <2>1, <2>9 DEF KillerExists, KillerVerify, Kill, Holding, ghosts
  <2>10. CASE End
    BY <2>1, <2>10 DEF End, Holding
  <2>11. CASE Issue
    <3>1. issued' = issued + 1 /\ UNCHANGED <<got, installed, raced, pc>>
      BY <2>11 DEF Issue, ghosts
    <3> QED
      BY <2>0, <3>1 DEF Holding
  <2>12. CASE Restart \/ UNCHANGED fileVars
    BY <2>1, <2>12 DEF Restart, fileVars, Holding, ghosts
  <2> QED
    BY <2>2, <2>3, <2>4, <2>5, <2>6, <2>7, <2>8, <2>9, <2>10, <2>11, <2>12
       DEF FileNext, GetLicense, Worker, Killer, GetLicenseReceive, WorkerReceive,
           CompareCrashes, Shutdown
<1> QED
  BY <1>1, <1>2, FileTypeCorrect, PTL DEF FileSpec

\* An older license replaces a newer one only when the other writer wrote
\* between this one's decision and its own write.
THEOREM OlderOnlyInRace == FileSpec => OlderReplacesNewerOnlyInRace
<1> USE DEF Threads, Writers, Goto
<1>1. RaceInv /\ [FileNext]_fileVars =>
        [installed' < installed =>
           \E w \in Writers : raced[w] /\ pc[w] = "flush" /\ pc'[w] = "idle"]_fileVars
  <2> SUFFICES ASSUME RaceInv, [FileNext]_fileVars, installed' < installed
               PROVE  \E w \in Writers : raced[w] /\ pc[w] = "flush" /\ pc'[w] = "idle"
    OBVIOUS
  <2>1. installed \in Nat /\ \A w \in Writers : got[w].license \in Nat
    BY FileValues DEF RaceInv, FileTypeOK
  <2>2. ASSUME UNCHANGED installed PROVE FALSE
    BY <2>1, <2>2
  <2>3. PICK w \in Writers : Flush(w)
    BY <2>2
       DEF FileNext, fileVars, ghosts, Begin, GetLicense, Worker, Killer,
           GetLicenseReceive, WorkerReceive, Receive, ReceiveNone, StartFails,
           ReloadTimer, GiveUp, OpenFile, OpenFails, FlushFails, ExistsRaises, GetLicenseExists, Compare, CompareCrashes,
           WorkerExists, WorkerVerify, KillerExists, KillerVerify, Kill,
           Shutdown, End, Restart, Issue
  <2>4. pc[w] = "flush" /\ installed' = got[w].license
    BY <2>3 DEF Flush
  <2>5. pc'[w] = "idle"
    BY <2>3 DEF Flush, RaceInv, FileTypeOK
  <2>6. raced[w] \in BOOLEAN /\ (~raced[w] => installed <= got[w].license)
    BY <2>4 DEF RaceInv, FileTypeOK, HoldsNoOlder, Holding
  <2> QED
    BY <2>1, <2>4, <2>5, <2>6
<1> QED
  BY <1>1, RaceInvInductive, PTL DEF FileSpec, OlderReplacesNewerOnlyInRace

==============================================================================

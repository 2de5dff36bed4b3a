----------------------------- MODULE LicenseAgent -----------------------------
(***************************************************************************)
(* The Linux service: the main reactor with the one-shot timers of its two *)
(* periodic tasks, the svc() thread each task starts when a timer expires, *)
(* and the configuration handler on a second reactor and thread, which     *)
(* reschedules both tasks after a change of the configuration file.        *)
(*                                                                         *)
(* A call of cancel_timer or schedule_timer takes the reactor's token, so  *)
(* each is one step that excludes the dispatch of a timer; a pair of them  *)
(* in schedule_handle_timeout() is not.                                    *)
(***************************************************************************)
EXTENDS LicenseDecision

CONSTANTS
  MaxReloads,   \* how often the configuration is read again (bounds the model)
  PromptExit    \* the way from a task's own cancel_timer() to the end of its
                \* svc() takes less time than the shortest timer, 5 seconds

ASSUME AgentAssumption == MaxReloads \in Nat /\ PromptExit \in BOOLEAN

Tasks == {"get_license", "process_killer"}

\* Who put a timer into the queue: run(), the task itself, reshedule_tasks().
Schedulers == {"open", "svc", "reshedule"}

\* The versions of the configuration, in the order they are read.
Version == 0 .. MaxReloads

VARIABLES
  service,   \* what run() does: its event loop, the way out, or no process
  timers,    \* per task and scheduler, the number of timers in the queue
  svc,       \* per task, where its thread is, "idle" when it has none
  conf,      \* per task, the version its waiting hours and minutes are from
  read,      \* per task, the version of the waiting time svc() last read
  options,   \* the version of PARSER's options
  handler    \* where the configuration handler is, and at which task

\* History, read by no guard:
VARIABLES
  cause,     \* per task, why it may have been left without a timer
  prompt     \* per task, the handler scheduled it while it had no thread

vars == <<service, timers, svc, conf, read, options, handler, cause, prompt>>

Up == service \in {"running", "stopping"}

NoTimers == [b \in Schedulers |-> 0]

Armed(t) == \E b \in Schedulers : timers[t][b] > 0

Waiting == [at |-> "waiting", task |-> "get_license"]

\* run() opens both tasks and starts the handler's thread before its loop.
Init ==
  /\ service = "running"
  /\ timers  = [t \in Tasks |-> [NoTimers EXCEPT !["open"] = 1]]
  /\ svc     = [t \in Tasks |-> "idle"]
  /\ conf    = [t \in Tasks |-> 0]
  /\ read    = [t \in Tasks |-> 0]
  /\ options = 0
  /\ handler = Waiting
  /\ cause   = [t \in Tasks |-> "none"]
  /\ prompt  = [t \in Tasks |-> FALSE]

-----------------------------------------------------------------------------
(* The main reactor: handle_timeout() and the activate() it calls.         *)

\* Variant: the queue dispatches a timer it has already removed.
Due_Removed(t, b) == service = "running"

\* A timer of t can be dispatched now.
Due(t, b) ==
  /\ service = "running"
  /\ timers[t][b] > 0
  /\ PromptExit => svc[t] \notin {"cancelled", "tail"}

Expire(t, b) == timers' = [timers EXCEPT ![t][b] = @ - 1]

\* activate() starts a thread.
StartSvc(t) ==
  /\ svc[t] = "idle"
  /\ \E b \in Schedulers : Due(t, b) /\ Expire(t, b)
  /\ svc'    = [svc EXCEPT ![t] = "running"]
  /\ cause'  = [cause EXCEPT ![t] = "none"]
  /\ prompt' = [prompt EXCEPT ![t] = FALSE]
  /\ UNCHANGED <<service, conf, read, options, handler>>

\* activate() finds a thread of the task and returns 1, which is no error:
\* the timer is used up.
IgnoreTimer(t) ==
  /\ svc[t] # "idle"
  /\ \E b \in Schedulers : Due(t, b) /\ Expire(t, b)
  /\ UNCHANGED <<service, svc, conf, read, options, handler, cause, prompt>>

\* activate() cannot create the thread: handle_timeout() returns -1 and the
\* reactor drops every timer of the task.
FailToStart(t) ==
  /\ svc[t] = "idle"
  /\ \E b \in Schedulers : Due(t, b)
  /\ timers' = [timers EXCEPT ![t] = NoTimers]
  /\ cause'  = [cause EXCEPT ![t] = "spawn_failed"]
  /\ prompt' = [prompt EXCEPT ![t] = FALSE]
  /\ UNCHANGED <<service, svc, conf, read, options, handler>>

-----------------------------------------------------------------------------
(* The thread of a task: svc(), then schedule_handle_timeout().            *)

\* Variant: a catch clause of the process killer no longer reschedules.
Decisions_KillerForgets(t) ==
  IF t = "get_license" THEN GetLicenseDecisions
                       ELSE ProcessKillerDecisions \cup {"none"}

Decisions(t) ==
  IF t = "get_license" THEN GetLicenseDecisions ELSE ProcessKillerDecisions

\* The run decides when to run again and reads the waiting time it passes.
DecideToWait(t) ==
  /\ Up
  /\ svc[t] = "running"
  /\ Decisions(t) \cap {"day", "try"} # {}
  /\ svc'  = [svc EXCEPT ![t] = "decided"]
  /\ read' = [read EXCEPT ![t] = conf[t]]
  /\ UNCHANGED <<service, timers, conf, options, handler, cause, prompt>>

\* The run swallows an http_exception and schedules nothing.
DecideNothing(t) ==
  /\ Up
  /\ svc[t] = "running"
  /\ "none" \in Decisions(t)
  /\ svc'   = [svc EXCEPT ![t] = "tail"]
  /\ cause' = [cause EXCEPT ![t] = "http_exception"]
  /\ UNCHANGED <<service, timers, conf, read, options, handler, prompt>>

\* An exception leaves svc(), or the run crashes: the process ends.
Terminate(t) ==
  /\ Up
  /\ svc[t] = "running"
  /\ "terminate" \in Decisions(t)
  /\ service' = "terminated"
  /\ UNCHANGED <<timers, svc, conf, read, options, handler, cause, prompt>>

CancelTimer(t) ==
  /\ Up
  /\ svc[t] = "decided"
  /\ timers' = [timers EXCEPT ![t] = NoTimers]
  /\ svc'    = [svc EXCEPT ![t] = "cancelled"]
  /\ UNCHANGED <<service, conf, read, options, handler, cause, prompt>>

\* Variant: schedule_handle_timeout() cancels after it has scheduled.
ScheduleTimer_Swapped(t) ==
  /\ Up
  /\ svc[t] = "cancelled"
  /\ timers' = [timers EXCEPT ![t] = NoTimers]
  /\ svc'    = [svc EXCEPT ![t] = "tail"]
  /\ UNCHANGED <<service, conf, read, options, handler, cause, prompt>>

ScheduleTimer(t) ==
  /\ Up
  /\ svc[t] = "cancelled"
  /\ timers' = [timers EXCEPT ![t]["svc"] = @ + 1]
  /\ svc'    = [svc EXCEPT ![t] = "tail"]
  /\ cause'  = [cause EXCEPT ![t] = "none"]
  /\ UNCHANGED <<service, conf, read, options, handler, prompt>>

Exit(t) ==
  /\ Up
  /\ svc[t] = "tail"
  /\ svc' = [svc EXCEPT ![t] = "idle"]
  /\ UNCHANGED <<service, timers, conf, read, options, handler, cause, prompt>>

-----------------------------------------------------------------------------
(* The configuration handler: handle_input() and reshedule_tasks().        *)

AtTask(step, t) == handler = [at |-> step, task |-> t]

GoTo(step, t) == handler' = [at |-> step, task |-> t]

\* A modification of the file passes the handler's filters; it sleeps.
ConfigModified ==
  /\ Up
  /\ handler = Waiting
  /\ options < MaxReloads
  /\ GoTo("init", "get_license")
  /\ UNCHANGED <<service, timers, svc, conf, read, options, cause, prompt>>

ParserInit ==
  /\ Up
  /\ AtTask("init", "get_license")
  /\ options' = options + 1
  /\ GoTo("set", "get_license")
  /\ UNCHANGED <<service, timers, svc, conf, read, cause, prompt>>

\* The file has no valid configuration in it (yet): raise(SIGINT).
ParserInitFails ==
  /\ Up
  /\ AtTask("init", "get_license")
  /\ service' = "stopping"
  /\ handler' = Waiting
  /\ UNCHANGED <<timers, svc, conf, read, options, cause, prompt>>

\* Variant: reshedule_tasks() forgets the process killer's waiting hours.
SetWaiting_GetLicenseOnly(t) ==
  /\ Up
  /\ AtTask("set", t)
  /\ conf' = [conf EXCEPT !["get_license"] = options]
  /\ GoTo("cancel", t)
  /\ UNCHANGED <<service, timers, svc, read, options, cause, prompt>>

SetWaiting(t) ==
  /\ Up
  /\ AtTask("set", t)
  /\ conf' = [conf EXCEPT ![t] = options]
  /\ GoTo("cancel", t)
  /\ UNCHANGED <<service, timers, svc, read, options, cause, prompt>>

\* Variant: the reload schedules without cancelling first.
ResheduleCancel_Missing(t) ==
  /\ Up
  /\ AtTask("cancel", t)
  /\ prompt' = [prompt EXCEPT ![t] = FALSE]
  /\ GoTo("schedule", t)
  /\ UNCHANGED <<service, timers, svc, conf, read, options, cause>>

ResheduleCancel(t) ==
  /\ Up
  /\ AtTask("cancel", t)
  /\ timers' = [timers EXCEPT ![t] = NoTimers]
  /\ prompt' = [prompt EXCEPT ![t] = FALSE]
  /\ GoTo("schedule", t)
  /\ UNCHANGED <<service, svc, conf, read, options, cause>>

\* Variant: the handler cancels after it has scheduled.
ResheduleSchedule_Swapped(t) ==
  /\ Up
  /\ AtTask("schedule", t)
  /\ timers' = [timers EXCEPT ![t] = NoTimers]
  /\ cause'  = [cause EXCEPT ![t] = "none"]
  /\ prompt' = [prompt EXCEPT ![t] = (svc[t] = "idle")]
  /\ handler' = IF t = "get_license"
                THEN [at |-> "set", task |-> "process_killer"] ELSE Waiting
  /\ UNCHANGED <<service, svc, conf, read, options>>

ResheduleSchedule(t) ==
  /\ Up
  /\ AtTask("schedule", t)
  /\ timers' = [timers EXCEPT ![t]["reshedule"] = @ + 1]
  /\ cause'  = [cause EXCEPT ![t] = "none"]
  /\ prompt' = [prompt EXCEPT ![t] = (svc[t] = "idle")]
  /\ handler' = IF t = "get_license"
                THEN [at |-> "set", task |-> "process_killer"] ELSE Waiting
  /\ UNCHANGED <<service, svc, conf, read, options>>

-----------------------------------------------------------------------------
(* The end of run().                                                       *)

\* SIGINT ends the main event loop.
Interrupt ==
  /\ service = "running"
  /\ service' = "stopping"
  /\ UNCHANGED <<timers, svc, conf, read, options, handler, cause, prompt>>

\* The wait for the threads gives up at its time limit and run() returns.
Return ==
  /\ service = "stopping"
  /\ service' = "returned"
  /\ UNCHANGED <<timers, svc, conf, read, options, handler, cause, prompt>>

Gone == ~Up /\ UNCHANGED vars

Dispatch(t) == StartSvc(t) \/ IgnoreTimer(t) \/ FailToStart(t)

Svc(t) ==
  \/ DecideToWait(t) \/ DecideNothing(t) \/ Terminate(t)
  \/ CancelTimer(t) \/ ScheduleTimer(t) \/ Exit(t)

Reshedule(t) == SetWaiting(t) \/ ResheduleCancel(t) \/ ResheduleSchedule(t)

Handler ==
  \/ ConfigModified \/ ParserInit \/ ParserInitFails
  \/ \E t \in Tasks : Reshedule(t)

Next ==
  \/ \E t \in Tasks : Dispatch(t) \/ Svc(t)
  \/ Handler
  \/ Interrupt \/ Return
  \/ Gone

Spec == Init /\ [][Next]_vars

\* The reactor dispatches what is due, threads run, and the handler finishes
\* what it began; nobody has to edit the configuration or stop the service.
Fairness ==
  /\ \A t \in Tasks : WF_vars(Dispatch(t)) /\ WF_vars(Svc(t))
  /\ WF_vars(ParserInit \/ ParserInitFails)
  /\ \A t \in Tasks : WF_vars(Reshedule(t))

FairSpec == Spec /\ Fairness

-----------------------------------------------------------------------------
(* Properties                                                              *)

TypeOK ==
  /\ service \in {"running", "stopping", "returned", "terminated"}
  /\ timers \in [Tasks -> [Schedulers -> Nat]]
  /\ svc \in [Tasks -> {"idle", "running", "decided", "cancelled", "tail"}]
  /\ conf \in [Tasks -> Version]
  /\ read \in [Tasks -> Version]
  /\ options \in Version
  /\ handler \in [at : {"waiting", "init", "set", "cancel", "schedule"},
                  task : Tasks]
  /\ cause \in [Tasks -> {"none", "http_exception", "spawn_failed"}]
  /\ prompt \in [Tasks -> BOOLEAN]

\* schedule_handle_timeout() cancels and schedules in two calls, and the
\* task's thread and the configuration handler call it at the same time.
\* However they interleave, a task never has more than two timers.
AtMostTwoTimers ==
  \A t \in Tasks :
    timers[t]["open"] + timers[t]["svc"] + timers[t]["reshedule"] <= 2

\* The handler is between its cancel_timer and its schedule_timer for t.
HandlerOwes(t) == AtTask("schedule", t)

\* A one-shot timer is all that makes a task run again.  While the service
\* runs, a task has one, or will get one from its thread or from the handler;
\* it is left without only by an http_exception that svc() swallowed or by a
\* thread that could not be created.
NoTaskOrphaned ==
  \A t \in Tasks :
    service = "running" =>
      \/ Armed(t)
      \/ svc[t] \in {"running", "decided", "cancelled"}
      \/ HandlerOwes(t)
      \/ cause[t] = "spawn_failed"
      \/ cause[t] = "http_exception" /\ t = "get_license"

\* When the handler reschedules a task that has no thread, the timer of 5
\* seconds it leaves stays in the queue until the task is started: neither the
\* task's own cancel_timer nor an ignored expiry can take it away.
PromptRunKept ==
  \A t \in Tasks :
    prompt[t] => svc[t] = "idle" /\ timers[t]["reshedule"] = 1

\* run() says "Cleanly terminate connections, terminate threads." before it
\* returns (nx_service/nxsvc.cpp:140).
ThreadsTerminated ==
  service = "returned" =>
    handler = Waiting /\ \A t \in Tasks : svc[t] = "idle"

\* A task that is not lost.
Alive(t) == service = "running" /\ cause[t] = "none"

\* Whatever timer a reload finds, cancels or loses the race against, a task
\* that stays alive comes to wait by the last configuration that was read.
ConfigurationReachesTasks ==
  \A t \in Tasks : <>[](Alive(t) => read[t] = options)

\* The state of a task as PeriodicTasks sees it.
Phase(t) ==
  CASE service # "running"                 -> "down"
    [] service = "running" /\ svc[t] # "idle" -> "working"
    [] service = "running" /\ svc[t] = "idle" /\ (Armed(t) \/ HandlerOwes(t))
         -> "waiting"
    [] OTHER -> "lost"

Promise == INSTANCE PeriodicTasks
             WITH Task <- Tasks, Fallible <- {"get_license"},
                  phase <- [t \in Tasks |-> Phase(t)]

\* The reactor, the threads and the handler implement PeriodicTasks: a waiting
\* task is never lost between them, a run of the process killer is always
\* followed by another, and each task keeps running.
PromiseKept == Promise!Spec

==============================================================================

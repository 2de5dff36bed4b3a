----------------------------- MODULE WatchReactor -----------------------------
(***************************************************************************)
(* The second reactor of the Linux service: one thread that serves two     *)
(* inotify handlers, Config_Handler for modifications in the directory of  *)
(* the configuration and Itvpn_Exec_Handler for openings in the directory  *)
(* of the VPN program.  A handler reads all the events that are queued and *)
(* looks at the first of them; it counts those that concern its file and   *)
(* lets every third one go.  Config_Handler sleeps a second, in which      *)
(* nobody is served, and then reads a file that somebody may be writing.   *)
(***************************************************************************)
EXTENDS Naturals, Sequences

CONSTANTS
  MaxEdits,      \* how often the configuration is edited (bounds the model)
  MaxOpens,      \* how often the VPN program is opened (bounds the model)
  MaxQueue,      \* how many events are queued per handler (bounds the model)
  PromptEditor   \* an edit takes less than the second the handler sleeps

ASSUME WatchAssumption ==
  /\ {MaxEdits, MaxOpens} \subseteq Nat
  /\ MaxQueue \in Nat \ {0}
  /\ PromptEditor \in BOOLEAN

Handlers == {"config", "exec"}

\* An event concerns the file a handler watches, or another one beside it.
Event == {"own", "other"}

\* The content of the configuration: a version, whole or still being written.
Content == [version : 0 .. MaxEdits, whole : BOOLEAN]

VARIABLES
  file,         \* the configuration file
  options,      \* what PARSER read from it
  queue,        \* per handler, the events inotify holds for it
  iterations,   \* per handler, iterations_
  thread,       \* the reactor's thread: "waiting" or "sleeping"
  service,      \* "running", "stopping" after raise(SIGINT), or "stopped"
  worker,       \* EventSink_Task has a thread
  opens         \* how often the VPN program was opened

\* History, but for early, which the guard of a prompt editor reads:
VARIABLES
  early,        \* an edit that began before the sleep is still going on
  overlap,      \* an edit began during a sleep
  served,       \* the openings when the worker was started last
  missed        \* per handler, why it let go the last event about its file

vars == <<file, options, queue, iterations, thread, service, worker, opens,
          early, overlap, served, missed>>

Init ==
  /\ file = [version |-> 0, whole |-> TRUE]
  /\ options = file
  /\ queue = [h \in Handlers |-> <<>>]
  /\ iterations = [h \in Handlers |-> 0]
  /\ thread = "waiting"
  /\ service = "running"
  /\ worker = FALSE
  /\ opens = 0
  /\ early = FALSE
  /\ overlap = FALSE
  /\ served = 0
  /\ missed = [h \in Handlers |-> "no"]

-----------------------------------------------------------------------------
(* The file system.                                                        *)

\* inotify drops an event that equals the last one it holds.
Enqueue(h, e) ==
  LET q == queue[h]
  IN  IF q # <<>> /\ q[Len(q)] = e
      THEN queue' = queue
      ELSE Len(q) < MaxQueue /\ queue' = [queue EXCEPT ![h] = Append(q, e)]

Notify(h) ==
  /\ Enqueue(h, "own")
  /\ missed' = [missed EXCEPT ![h] = "no"]

\* An editor truncates the file or writes a first part of it ...
BeginEdit ==
  /\ file.whole
  /\ file.version < MaxEdits
  /\ file' = [version |-> file.version + 1, whole |-> FALSE]
  /\ Notify("config")
  /\ overlap' = (overlap \/ thread = "sleeping")
  /\ UNCHANGED <<options, iterations, thread, service, worker, opens, early,
                 served>>

\* ... and writes the rest.
EndEdit ==
  /\ ~file.whole
  /\ file' = [file EXCEPT !.whole = TRUE]
  /\ Notify("config")
  /\ early' = FALSE
  /\ UNCHANGED <<options, iterations, thread, service, worker, opens, overlap,
                 served>>

Open ==
  /\ opens < MaxOpens
  /\ opens' = opens + 1
  /\ Notify("exec")
  /\ UNCHANGED <<file, options, iterations, thread, service, worker, early,
                 overlap, served>>

\* Another file in the directory is modified or opened.
TouchOther(h) ==
  /\ Enqueue(h, "other")
  /\ UNCHANGED <<file, options, iterations, thread, service, worker, opens,
                 early, overlap, served, missed>>

-----------------------------------------------------------------------------
(* handle_input(): read() returns all that is queued, the first is handled. *)

\* Variant: both handlers read from one inotify handle.
Read_Shared(h) ==
  /\ service # "stopped"
  /\ thread = "waiting"
  /\ queue[h] # <<>>
  /\ queue' = [g \in Handlers |-> <<>>]

Read(h) ==
  /\ service # "stopped"
  /\ thread = "waiting"
  /\ queue[h] # <<>>
  /\ queue' = [queue EXCEPT ![h] = <<>>]

\* The first event is about another file; whatever follows it is let go.
IgnoreOther(h) ==
  /\ Read(h)
  /\ Head(queue[h]) = "other"
  /\ missed' = IF Len(queue[h]) > 1
               THEN [missed EXCEPT ![h] = "behind"] ELSE missed
  /\ UNCHANGED <<file, options, iterations, thread, service, worker, opens,
                 early, overlap, served>>

\* Every third event is dropped.
DropThird(h) ==
  /\ Read(h)
  /\ Head(queue[h]) = "own"
  /\ iterations[h] > 1
  /\ iterations' = [iterations EXCEPT ![h] = 0]
  /\ missed' = [missed EXCEPT ![h] = "third"]
  /\ UNCHANGED <<file, options, thread, service, worker, opens, early, overlap,
                 served>>

\* Variant: the handler lets one event more pass before it drops one.
Accept_OffByOne(h) ==
  /\ Read(h)
  /\ Head(queue[h]) = "own"
  /\ iterations[h] <= 2
  /\ iterations' = [iterations EXCEPT ![h] = @ + 1]

Accept(h) ==
  /\ Read(h)
  /\ Head(queue[h]) = "own"
  /\ iterations[h] <= 1
  /\ iterations' = [iterations EXCEPT ![h] = @ + 1]

\* Config_Handler sleeps.
FallAsleep ==
  /\ Accept("config")
  /\ thread' = "sleeping"
  /\ early' = ~file.whole
  /\ UNCHANGED <<file, options, service, worker, opens, overlap, served, missed>>

\* Itvpn_Exec_Handler starts the worker ...
StartWorker ==
  /\ Accept("exec")
  /\ ~worker
  /\ worker' = TRUE
  /\ served' = opens
  /\ UNCHANGED <<file, options, thread, service, opens, early, overlap, missed>>

\* ... unless the worker has a thread: activate() returns 1.
WorkerBusy ==
  /\ Accept("exec")
  /\ worker
  /\ missed' = [missed EXCEPT !["exec"] = "busy"]
  /\ UNCHANGED <<file, options, thread, service, worker, opens, early, overlap,
                 served>>

\* ... or the system has no thread for it: activate() returns -1.  Nobody looks
\* at what open() returns.
WorkerFails ==
  /\ Accept("exec")
  /\ ~worker
  /\ missed' = [missed EXCEPT !["exec"] = "failed"]
  /\ UNCHANGED <<file, options, thread, service, worker, opens, early, overlap,
                 served>>

WorkerEnds ==
  /\ worker
  /\ worker' = FALSE
  /\ UNCHANGED <<file, options, queue, iterations, thread, service, opens, early,
                 overlap, served, missed>>

-----------------------------------------------------------------------------
(* After the sleep: PARSER's init().                                       *)

\* Variant: the handler does not sleep.
Awake_AtOnce == service # "stopped" /\ thread = "sleeping"

\* The second is over, and with it an edit that had begun before it.
Awake ==
  /\ service # "stopped"
  /\ thread = "sleeping"
  /\ PromptEditor => ~early

\* Variant: init() reads the file and never calls set_options().
ParserInit_NotSet ==
  /\ Awake
  /\ thread' = "waiting"
  /\ UNCHANGED <<file, options, queue, iterations, service, worker, opens, early,
                 overlap, served, missed>>

\* init() takes what it finds.  A part of the file may hold all the keys.
ParserInit ==
  /\ Awake
  /\ thread' = "waiting"
  /\ options' = file
  /\ UNCHANGED <<file, queue, iterations, service, worker, opens, early, overlap,
                 served, missed>>

\* A key is missing or its value is out of range: raise(SIGINT).  What an editor
\* leaves when it is done is taken to be a valid configuration.
ParserInitFails ==
  /\ Awake
  /\ ~file.whole
  /\ thread' = "waiting"
  /\ service' = "stopping"
  /\ UNCHANGED <<file, options, queue, iterations, worker, opens, early, overlap,
                 served, missed>>

\* The main loop ends, run() ends the loop of this reactor.
EndLoop ==
  /\ service = "stopping"
  /\ service' = "stopped"
  /\ UNCHANGED <<file, options, queue, iterations, thread, worker, opens, early,
                 overlap, served, missed>>

HandleInput ==
  \/ \E h \in Handlers : IgnoreOther(h) \/ DropThird(h)
  \/ FallAsleep \/ StartWorker \/ WorkerBusy \/ WorkerFails

Next ==
  \/ BeginEdit \/ EndEdit \/ Open \/ \E h \in Handlers : TouchOther(h)
  \/ HandleInput
  \/ ParserInit \/ ParserInitFails
  \/ WorkerEnds \/ EndLoop

Spec == Init /\ [][Next]_vars

\* The reactor serves each of its handles, its thread wakes up, and an editor
\* that has begun to write the file comes to an end.
Fairness ==
  /\ SF_vars(IgnoreOther("config") \/ DropThird("config") \/ FallAsleep)
  /\ SF_vars(IgnoreOther("exec") \/ DropThird("exec")
               \/ StartWorker \/ WorkerBusy \/ WorkerFails)
  /\ WF_vars(ParserInit \/ ParserInitFails)
  /\ WF_vars(EndEdit)

FairSpec == Spec /\ Fairness

-----------------------------------------------------------------------------
(* Properties                                                              *)

TypeOK ==
  /\ file \in Content
  /\ options \in Content
  /\ queue \in [Handlers -> Seq(Event)]
  /\ \A h \in Handlers : Len(queue[h]) <= MaxQueue
  /\ iterations \in [Handlers -> 0 .. 2]
  /\ thread \in {"waiting", "sleeping"}
  /\ service \in {"running", "stopping", "stopped"}
  /\ worker \in BOOLEAN
  /\ opens \in 0 .. MaxOpens
  /\ early \in BOOLEAN
  /\ overlap \in BOOLEAN
  /\ served \in 0 .. MaxOpens
  /\ missed \in [Handlers -> {"no", "behind", "third", "busy", "failed"}]

Queued(h) == \E i \in 1 .. Len(queue[h]) : queue[h][i] = "own"

\* handle_input() throws away events, sleeps, and reads a file that is being
\* written.  Still what PARSER holds differs from the file only while an event
\* is queued or the handler sleeps, or when the last event was the third or came
\* behind another file's: no edit during the sleep, the reading or the other
\* handler's turn is lost.
EditSeenOrMissed ==
  service = "running" /\ options # file /\ missed["config"] = "no"
    => Queued("config") \/ thread = "sleeping"

\* The worker is started after the last opening of the VPN program, unless that
\* event was the third, came behind another file's, met a worker at work or
\* found no thread for one: that Config_Handler slept at the time costs nothing.
OpeningServedOrMissed ==
  served # opens /\ missed["exec"] = "no" => Queued("exec")

\* raise(SIGINT) ends the service when init() fails.  If edits take less than the
\* second of sleep, a single edit never does that: only an edit that began while
\* the handler slept after the event of another one.
StoppedOnlyByOverlap == service # "running" => overlap

\* The thread comes back from every sleep and batch: in the end PARSER holds the
\* last edit, or its last event was let go, or the service was stopped.
EditReachesOptions ==
  <>[](service = "running" => options = file \/ missed["config"] # "no")

==============================================================================

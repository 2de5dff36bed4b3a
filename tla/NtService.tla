------------------------------- MODULE NtService -------------------------------
(***************************************************************************)
(* The Windows service: Process::run() with its options, Service::svc()    *)
(* from its start to its end, and the Config_Handler of Windows, whose own *)
(* thread (the watcher) waits for changes in the service's directory and   *)
(* ends with each change of the configuration, for the reactor's thread to *)
(* read the file and start it again.  The service manager's thread asks    *)
(* the service to stop, at any time.                                       *)
(***************************************************************************)
EXTENDS Naturals

CONSTANTS
  MaxEdits,    \* how often the configuration is edited (bounds the model)
  PromptExit   \* a watcher is gone three seconds after it has said it ends

ASSUME NtAssumption == MaxEdits \in Nat /\ PromptExit \in BOOLEAN

Options == {"i", "r", "s", "k", "t", "d"}
Content == [version : 0 .. MaxEdits, whole : BOOLEAN]

\* How far Notificator::Initialize() came.
Stages == {"nothing", "context", "services", "sink", "registered"}

VARIABLES
  process,    \* "running", "over", "killed" by a signal, or "crashed"
  at,         \* where its main thread is
  asked,      \* the options on the command line
  notificator,\* what the Notificator holds
  handled,    \* the reactor has a handler for SIGINT
  registered, \* the reactor has Config_Handler for event_
  notified,   \* a notification for the service is queued in the reactor
  ending,     \* the reactor's event loop was told to end
  reading,    \* handle_signal() of Config_Handler: "no", "waiting", "sleeping"
  event,      \* its event_ is signalled
  active,     \* its active_handler_ is signalled
  watcher,    \* its thread
  batch,      \* the changes that ReadDirectoryChangesW() returned
  file,       \* the configuration file
  options     \* what PARSER read from it

\* History:
VARIABLES
  missed,     \* the file was changed when nobody would look at it again
  unwatched,  \* why the watcher may be gone, deaf or unheard
  stop        \* the service manager has asked the service to stop

service == <<process, at, asked, notificator, handled, registered, notified, ending>>
handler == <<reading, event, active, watcher, batch>>
config == <<file, options, missed>>
vars == <<service, handler, config, unwatched, stop>>

Init ==
  /\ process = "running"
  /\ at = "run"
  /\ asked \in SUBSET Options
  /\ notificator = "nothing"
  /\ handled = FALSE /\ registered = FALSE /\ notified = FALSE /\ ending = FALSE
  /\ reading = "no" /\ event = FALSE /\ active = FALSE
  /\ watcher = "none" /\ batch = {}
  /\ file = [version |-> 0, whole |-> TRUE] /\ options = file
  /\ missed = FALSE /\ unwatched = "no" /\ stop = FALSE

-----------------------------------------------------------------------------
(* Process::run()                                                          *)

\* Whether run() gets as far as to run the service: each of the other options has
\* it call the service manager and return, or print its usage; -i and -r together
\* cancel each other.
RunsService(opts) ==
  /\ opts \cap {"s", "k", "t"} = {}
  /\ "i" \in opts <=> "r" \in opts

Run ==
  /\ process = "running" /\ at = "run"
  /\ IF RunsService(asked)
     THEN at' = "init" /\ process' = process
     ELSE at' = at /\ process' = "over"
  /\ UNCHANGED <<asked, notificator, handled, registered, notified, ending, handler, config,
                 unwatched, stop>>

-----------------------------------------------------------------------------
(* Service::svc() up to the event loop                                     *)

Goto(here, there) == process = "running" /\ at = here /\ at' = there

\* What PARSER's init() reads: a file that is whole, or a part that has all the
\* keys.
Read(to) ==
  /\ Goto(at, to)
  /\ options' = file
  /\ missed' = FALSE

Initialize ==
  /\ at = "init"
  /\ Read("notificator")
  /\ UNCHANGED <<process, asked, notificator, handled, registered, notified, ending, handler,
                 file, unwatched, stop>>

\* Without a configuration: raise(SIGINT), for which there is no handler yet.
InitializeFails ==
  /\ Goto("init", "init")
  /\ process' = "killed"
  /\ UNCHANGED <<asked, notificator, handled, registered, notified, ending, handler, config,
                 unwatched, stop>>

\* Notificator::Initialize(); when it fails svc() goes on, with a notification
\* that will end the loop.
Notificator ==
  /\ Goto("notificator", "handlers")
  /\ \E s \in Stages : /\ notificator' = s
                       /\ notified' = (notified \/ s # "registered")
  /\ UNCHANGED <<process, asked, handled, registered, ending, handler, config,
                 unwatched, stop>>

\* register_handler() for the event, for SIGINT, and open() of both tasks, each of
\* which may fail and is then notified in the same way.
Handlers ==
  /\ Goto("handlers", "watch")
  /\ \E ok, sigint \in BOOLEAN :
       /\ handled' = sigint
       /\ notified' = (notified \/ ~ok \/ ~sigint)
  /\ UNCHANGED <<process, asked, notificator, registered, ending, handler, config,
                 unwatched, stop>>

\* activate(): one thread at most.  Nobody looks whether it could be created, or
\* whether the last one is still there and none is.
Activate ==
  \/ watcher = "none" /\ watcher' = "opening" /\ unwatched' = unwatched
  \/ watcher = "none" /\ watcher' = watcher /\ unwatched' = "thread"
  \/ watcher # "none" /\ watcher' = watcher /\ unwatched' = "busy"

\* Config_Handler's constructor: register_handler() may fail, which is only logged.
Watch ==
  /\ Goto("watch", "loop")
  /\ \/ registered' = TRUE /\ Activate
     \/ registered' = FALSE /\ unwatched' = "unregistered"
        /\ watcher = "none" /\ watcher' \in {"none", "opening"}
  /\ UNCHANGED <<process, asked, notificator, handled, notified, ending, reading,
                 event, active, batch, config, stop>>

-----------------------------------------------------------------------------
(* The watcher: Config_Handler::svc()                                      *)

\* create_file() and ReadDirectoryChangesW(): changes are queued from here on.
Listen ==
  /\ process = "running" /\ watcher = "opening"
  /\ watcher' = "listening"
  /\ UNCHANGED <<service, reading, event, active, batch, config, unwatched, stop>>

\* ReadDirectoryChangesW() fails: its result is ignored, and nothing will ever end
\* the wait.
ReadChangesFails ==
  /\ process = "running" /\ watcher = "opening"
  /\ watcher' = "deaf"
  /\ unwatched' = "read"
  /\ UNCHANGED <<service, reading, event, active, batch, config, stop>>

CreateFileFails ==
  /\ process = "running" /\ watcher = "opening"
  /\ watcher' = "leaving"
  /\ unwatched' = "create"
  /\ UNCHANGED <<service, reading, event, active, batch, config, stop>>

\* The wait is over; what changes from here on is not seen.
Wake ==
  /\ process = "running" /\ watcher = "listening" /\ batch # {}
  /\ watcher' = "processing"
  /\ UNCHANGED <<service, reading, event, active, batch, config, unwatched, stop>>

\* The wait itself fails: the watcher ends and signals nothing.
WaitFails ==
  /\ process = "running" /\ watcher \in {"listening", "deaf"}
  /\ watcher' = "leaving"
  /\ unwatched' = "wait"
  /\ batch' = {}
  /\ missed' = (missed \/ "own" \in batch)
  /\ UNCHANGED <<service, reading, event, active, file, options, stop>>

\* Variant: a batch that begins with another file is not looked through.
Processing_FirstOnly ==
  /\ process = "running" /\ watcher = "processing"
  /\ batch' = {}
  /\ IF batch = {"own"} THEN event' = TRUE /\ watcher' = "leaving"
                        ELSE event' = event /\ watcher' = "opening"
  /\ UNCHANGED <<service, reading, active, config, unwatched, stop>>

\* Variant: the entries stay in the buffer.
Processing_Kept ==
  /\ process = "running" /\ watcher = "processing"
  /\ batch' = batch
  /\ IF "own" \in batch THEN event' = TRUE /\ watcher' = "leaving"
                        ELSE event' = event /\ watcher' = "opening"
  /\ UNCHANGED <<service, reading, active, config, unwatched, stop>>

\* processing(): if the batch has the configuration in it the watcher signals
\* event_ and ends; if not it opens the directory again, in a new handle.
Processing ==
  /\ process = "running" /\ watcher = "processing"
  /\ batch' = {}
  /\ IF "own" \in batch THEN event' = TRUE /\ watcher' = "leaving"
                        ELSE event' = event /\ watcher' = "opening"
  /\ missed' = (missed \/ ("own" \in batch /\ ~registered))
  /\ UNCHANGED <<service, reading, active, file, options, unwatched, stop>>

\* active_handler_->signal() and return ...
Leave ==
  /\ process = "running" /\ watcher = "leaving"
  /\ active' = TRUE
  /\ watcher' = "exiting"
  /\ UNCHANGED <<service, reading, event, batch, config, unwatched, stop>>

\* ... upon which the thread is gone a little later.
Exit ==
  /\ process = "running" /\ watcher = "exiting"
  /\ watcher' = "none"
  /\ UNCHANGED <<service, reading, event, active, batch, config, unwatched, stop>>

-----------------------------------------------------------------------------
(* The event loop                                                          *)

InLoop == process = "running" /\ at = "loop" /\ ~ending /\ reading = "no"

\* event_ is signalled: handle_signal() first waits for the watcher to leave ...
HandleSignal ==
  /\ InLoop /\ event /\ registered
  /\ event' = FALSE
  /\ reading' = "waiting"
  /\ UNCHANGED <<service, active, watcher, batch, config, unwatched, stop>>

\* ... then it sleeps ...
Sleep ==
  /\ process = "running" /\ reading = "waiting" /\ active
  /\ active' = FALSE
  /\ reading' = "sleeping"
  /\ UNCHANGED <<service, event, watcher, batch, config, unwatched, stop>>

Awake ==
  /\ process = "running" /\ reading = "sleeping"
  /\ PromptExit => watcher = "none"
  /\ reading' = "no"

\* Variant: a watcher is not started again once the file was read.
Reread_WatcherForgotten ==
  /\ Awake
  /\ Read("loop")
  /\ UNCHANGED <<process, asked, notificator, handled, registered, notified, ending, event,
                 active, watcher, unwatched, batch, file, stop>>

\* ... reads the file, reschedules the tasks and starts the watcher again ...
Reread ==
  /\ Awake
  /\ Read("loop")
  /\ Activate
  /\ UNCHANGED <<process, asked, notificator, handled, registered, notified, ending, event,
                 active, batch, file, stop>>

\* ... or finds half a file, or one with a value that is missing or out of range,
\* and raises SIGINT.
RereadFails ==
  /\ Awake
  /\ IF handled THEN ending' = TRUE /\ process' = process
                ELSE ending' = ending /\ process' = "killed"
  /\ UNCHANGED <<at, asked, notificator, handled, registered, notified, event, active, watcher,
                 batch, config, unwatched, stop>>

\* handle_control(), on a thread of the service manager or of the console.
HandleControl ==
  /\ process = "running" /\ at \notin {"run"}
  /\ notified' = TRUE
  /\ stop' = TRUE
  /\ UNCHANGED <<process, at, asked, notificator, handled, registered, ending, handler, config,
                 unwatched>>

\* Variant: handle_exception() only pops the reactor off its wait.
HandleException_Only ==
  /\ InLoop /\ notified
  /\ notified' = FALSE
  /\ UNCHANGED <<process, at, asked, notificator, handled, registered, ending, handler, config,
                 unwatched, stop>>

\* handle_exception() returns -1, so the reactor calls handle_close(), which ends
\* the loop.
HandleException ==
  /\ InLoop /\ notified
  /\ notified' = FALSE
  /\ ending' = TRUE
  /\ UNCHANGED <<process, at, asked, notificator, handled, registered, handler, config,
                 unwatched, stop>>

-----------------------------------------------------------------------------
(* The end of svc()                                                        *)

EndLoop ==
  /\ Goto("loop", "release")
  /\ ending
  /\ UNCHANGED <<process, asked, notificator, handled, registered, notified, ending, handler,
                 config, unwatched, stop>>

\* Release() calls through service_ and stub_sink_, which nothing has set when
\* Initialize() failed.
Release ==
  /\ Goto("release", "return")
  /\ \/ process' = process
     \/ notificator \notin {"sink", "registered"} /\ process' = "crashed"
  /\ UNCHANGED <<asked, notificator, handled, registered, notified, ending, handler, config,
                 unwatched, stop>>

\* The wait for the threads is given a time that has passed; ~Config_Handler(),
\* with the watcher at work or not, deletes an object as if it were an array.
Return ==
  /\ process = "running" /\ at = "return"
  /\ process' \in {"over", "crashed"}
  /\ UNCHANGED <<at, asked, notificator, handled, registered, notified, ending, handler, config,
                 unwatched, stop>>

-----------------------------------------------------------------------------
(* The directory                                                           *)

\* The reactor has an event to serve.
Told == event /\ registered

\* Somebody will read the file, or look at a change of it, after this.
WillLook ==
  \/ at = "init"
  \/ Told \/ reading # "no"
  \/ "own" \in batch

\* The read is answered with the first change, and with others only if they come
\* along with it.
Changed(name) ==
  \E seen \in BOOLEAN :
    /\ seen => watcher = "listening"
    /\ ~seen => watcher # "listening" \/ batch # {}
    /\ batch' = IF seen THEN batch \cup {name} ELSE batch
    /\ missed' = (missed \/ (~seen /\ name = "own" /\ ~WillLook))

BeginEdit ==
  /\ process = "running"
  /\ file.whole /\ file.version < MaxEdits
  /\ file' = [version |-> file.version + 1, whole |-> FALSE]
  /\ Changed("own")
  /\ UNCHANGED <<service, reading, event, active, watcher, options, unwatched, stop>>

EndEdit ==
  /\ process = "running"
  /\ ~file.whole
  /\ file' = [file EXCEPT !.whole = TRUE]
  /\ Changed("own")
  /\ UNCHANGED <<service, reading, event, active, watcher, options, unwatched, stop>>

\* Another file of the directory is written, the log among them.
TouchOther ==
  /\ process = "running" /\ watcher = "listening"
  /\ Changed("other")
  /\ UNCHANGED <<service, reading, event, active, watcher, file, options, unwatched,
                 stop>>

-----------------------------------------------------------------------------
Start == Run \/ Initialize \/ InitializeFails \/ Notificator \/ Handlers \/ Watch
Watcher ==
  \/ CreateFileFails \/ Listen \/ ReadChangesFails \/ Wake \/ WaitFails
  \/ Processing \/ Leave \/ Exit
Loop == HandleSignal \/ Sleep \/ Reread \/ RereadFails \/ HandleException
End == EndLoop \/ Release \/ Return
Others == HandleControl \/ BeginEdit \/ EndEdit \/ TouchOther

Next == Start \/ Watcher \/ Loop \/ End \/ Others

Spec == Init /\ [][Next]_vars

\* Every thread of the service goes on, and the reactor serves each of its sources
\* in the end.
Fairness ==
  /\ WF_vars(Start) /\ WF_vars(Watcher) /\ WF_vars(End)
  /\ WF_vars(Sleep) /\ WF_vars(Reread \/ RereadFails)
  /\ SF_vars(HandleSignal) /\ SF_vars(HandleException)

FairSpec == Spec /\ Fairness

-----------------------------------------------------------------------------
(* Properties                                                              *)

TypeOK ==
  /\ process \in {"running", "over", "killed", "crashed"}
  /\ at \in {"run", "init", "notificator", "handlers", "watch", "loop", "release",
             "return"}
  /\ asked \subseteq Options
  /\ notificator \in Stages
  /\ handled \in BOOLEAN /\ registered \in BOOLEAN
  /\ notified \in BOOLEAN /\ ending \in BOOLEAN
  /\ event \in BOOLEAN /\ active \in BOOLEAN
  /\ missed \in BOOLEAN /\ stop \in BOOLEAN
  /\ reading \in {"no", "waiting", "sleeping"}
  /\ watcher \in {"none", "opening", "listening", "deaf", "processing", "leaving",
                 "exiting"}
  /\ batch \subseteq {"own", "other"}
  /\ batch # {} => watcher \in {"listening", "processing"}
  /\ file \in Content /\ options \in Content
  /\ unwatched \in {"no", "unregistered", "thread", "busy", "create", "read", "wait"}

Running == process = "running" /\ at = "loop" /\ ~ending

\* The watcher ends with each change and comes back seconds later; batches mix
\* the configuration with other files.  PARSER holds something else than the file
\* only while a change of it is on its way to init(), or when a change came in one
\* of the gaps in which nobody listens or was going to look.
EditSeenOrMissed ==
  Running /\ options # file /\ ~missed =>
    Told \/ reading # "no" \/ "own" \in batch

\* The watcher and the reactor's thread hand over to each other with two events.
\* There is always one of them to go on: a watcher that listens, or an event that
\* the reactor serves.  It is otherwise only where a call failed that the code does
\* not look at, or gives up upon: register_handler(), activate(), create_file(),
\* ReadDirectoryChangesW() or the wait; or where activate() found the last thread
\* still there, and that cannot be when threads exit promptly.
WatcherComesBack ==
  /\ Running /\ watcher \in {"none", "deaf"} /\ ~Told /\ reading = "no"
       => unwatched # "no"
  /\ PromptExit => unwatched # "busy"

\* handle_signal() waits for the watcher on the thread that serves the reactor.
\* Still a request to stop, however early it comes, is served: svc() comes to its
\* end.
StopIsServed == stop ~> process # "running"

==============================================================================

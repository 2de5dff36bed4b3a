# A TLA+ development of the license agent (itvpnagent)

The agent is a service on the machine of a VPN client. It fetches the license
of the month from a license server and writes it to the license file, fetches
it again when the VPN program is opened without a valid license, and on one day
of the month stops the VPN program when the license is not valid. It rereads
its configuration when the file changes. The repository also has the agent as a
Windows service, two small HTTP servers and a card game server. This directory
holds TLA+ modules of these programs, the TLC configurations that check them,
and theorems about them that TLAPS proves.

Paths are relative to the root of the repository (`src/` here).

## 1. Inventory

### The agent on Linux (what `nx_service/CMakeLists.txt` builds)

| Part | State it keeps | Operations | Talks to |
|---|---|---|---|
| `Service` (`nx_service/nxsvc.cpp`) | main reactor, the two tasks, the handlers' reactor | `run`, `reshedule_tasks`, SIGINT handler | opens the tasks, spawns the second reactor's thread, waits for threads |
| `Config_Handler` (`nx_service/config_change.cpp`) | inotify handle, `iterations_` | `handle_input` | `PARSER::init`, `SERVICE::reshedule_tasks`, `raise(SIGINT)` |
| `Itvpn_Exec_Handler` (`nx_service/itvpn_exec_handler.cpp`) | inotify handle, `iterations_` | `handle_input` | starts `EventSink_Task` |
| `Get_License_Task` | waiting minutes and hours, `timerId_`, its thread | `open`, `handle_timeout`, `svc`, `schedule_handle_timeout`, two setters | main reactor, `LicenseChecker`, `LicenseExtractor`, the license file |
| `Process_Killer_Task` | waiting hours, name to kill, its thread | the same | main reactor, `LicenseChecker`, `terminate_process` |
| `EventSink_Task` (the worker) | its thread | `open`, `svc` | `LicenseChecker`, `LicenseExtractor`, the license file |
| `LicenseChecker` | none | look for, verify, read, compare and write the license; update window, check day | the file, the external `lic` program, `Parser` |
| `LicenseExtractor` (`client/`) | one request, its result | `processing_license`, `send_request` | the license server |
| `Parser` | `options_`, paths | `make_paths`, `init`, `options` | the configuration file |
| `tools`, `tracer`, `constants` | singletons, log, tables | kill a process, UDP message, log | |

Threads: the main reactor (timers of both tasks), one `svc()` thread per task
while it runs, the second reactor's thread (both inotify handlers, and so
`init()` and `reshedule_tasks()`), and the worker's thread. They share the
timer queue (each call locks it), the members of the tasks and `options_` (no
lock), and the license file (no lock).

What is hard about it:

* a task runs again only because somebody armed a **one-shot timer**; the timer
  can expire into a thread that is still there and be used up
  (`get_license_task.cpp:50`), be cancelled by the other party
  (`get_license_task.cpp:179`), or never be armed (`get_license_task.cpp:166`);
* a **reload** runs on another thread than the tasks it changes;
* three threads use the **license file**, which is truncated before it is
  written, and each acts on what it saw some steps before;
* the process can **end between any two steps** (an uncaught exception, a
  crash, a shutdown that does not wait) and starts again with what is on disk;
* **events** of the configuration file are filtered, counted and dropped, and
  one thread serves both inotify handlers.

What makes each part correct:

* tasks and timers: no task is lost silently; timers do not accumulate; a
  rescheduled task comes to use the new settings; the service keeps running the
  tasks (`LicenseAgent`, `PeriodicTasks`);
* license file: it is empty only in a write, or after a crash or a failed write;
  an older license does not replace a newer one but in a race, and then not for
  good; the VPN is stopped only with a cause (`LicenseFile`);
* `svc()` of a task: for every answer of the server and every state of the file
  exactly one decision (`LicenseDecision`);
* inotify handlers: an edit of the configuration or an opening of the VPN
  program is lost only by the filters written for it, or because the worker is
  busy or has no thread; a valid edit does not stop the service
  (`WatchReactor`);
* configuration: the last version of the file that is complete is read; nobody
  works without one; a request mixes two versions only over a reload
  (`WatchReactor`, `ServiceOptions`);
* calendar: no month passes without an attempt in the update window, and the
  check day is not slept over (`LicenseCalendar`);
* shutdown: no thread outlives `run()`.

### The other programs

| Part | State it keeps | Operations | What is hard, and what makes it correct |
|---|---|---|---|
| `nt_service/` (Windows) | the same tasks; two ACE events and the watcher's thread in `Config_Handler` | `Process::run`, `Service::svc`, `Config_Handler::svc`, `processing`, `handle_signal`, `handle_control` | the watcher ends with each change and is started again by the reactor's thread, which waits for it: there is always a watcher or somebody to start it unless a call of the system failed unnoticed, no change is lost but in the gaps, a stop is served (`NtService`) |
| `server/` (Boost.Asio) | acceptor, set of connections, one parser and reply per connection | accept, read, parse, reply, stop by signal | queued handlers run after their connection was closed, requests come in pieces: the reply fits the whole request, everything is closed by a stop, `run()` returns (`AsioServer`, `RequestParser`) |
| `http_server/http_server_fast.cpp` (Boost.Beast) | per worker a socket, parser, reply and deadline | accept, read, process, write, check the deadline | one timer and one parser for one client after the other: a deadline cuts off only the client it is for, a reply answers a whole request and its own client's (`FastServer`) |
| `cpprest/Dealer.cpp`, `Table.cpp` | table, kept requests, pending news | join, bet, wait, hit, stay, double, insure, leave | answers are kept until a turn comes, and several threads serve the requests with a lock around the answers only: one player has the turn, nobody waits for news that is there, a round settles every bet, a request is missing only for a known reason (`BlackJack`) |

`http_server/listener.cpp` and `session.cpp` are another Beast server, and
`http_client/` is a test client. `template/` and `tools/gason.*` are third-party.
`event_sink_linux/`, `event_sink_win/`, `nx_service/notificator_linux.cpp`,
`nx_service/initializer.cpp`, `get_license_task/get_license_task_1.cpp` and
`service.h` are earlier versions that the service does not compile.
`PROJECT.json` lists each with its status, and every hazard at its line.

## 2. Modules

`LicenseDecision` is the pure part. `Answer` is what the server may say and how
sending may fail, `File` what the license file may hold, `Ends(a, file)` how the
calls of a run then end (a result, or which exception, or a crash), and
`GetLicenseSvc` which branch or catch clause of `Get_License_Task::svc()` is
taken: wait a day, wait the minutes of the next try, schedule nothing (an
`http_exception` that is not `MIME_TYPES`), or terminate (an exception without a
catch clause). `VerifyLicense` is `verify_license()` as it is written, with
`compare() == 0` for `SUCCESS` on the raising side. Months are numbers; the
texts of licenses and messages are left out.

`LicenseAgent` is the service from the moment `run()` enters its event loop.
`timers[t][b]` counts the timers of task `t` that `b` put in the queue (`open`,
`svc`, `reshedule`); `svc[t]` is where the task's thread is; `handler` where the
second reactor's thread is in `handle_input()` and `reshedule_tasks()`. One
action per reactor call:

| Action | Code |
|---|---|
| `StartSvc`, `IgnoreTimer`, `FailToStart` | `handle_timeout()` with the three results of `activate()`: a thread, 1 because there is one, -1 |
| `DecideToWait`, `DecideNothing`, `Terminate` | the body of `svc()`, by `Decisions(t)` of `LicenseDecision` |
| `CancelTimer`, `ScheduleTimer`, `Exit` | `schedule_handle_timeout()` in the task's thread, and its end |
| `ConfigModified`, `ParserInit`, `ParserInitFails` | `Config_Handler::handle_input()` |
| `SetWaiting`, `ResheduleCancel`, `ResheduleSchedule` | `reshedule_tasks()`, per task |
| `Interrupt`, `Return` | SIGINT, and the end of `run()` |

`conf`, `read` and `options` carry versions of the configuration instead of its
values. `cause` and `prompt` are history: no guard reads them.

`PeriodicTasks` is what the agent promises: a task waits, works, waits again;
only a task that may give up is lost while working; all go down together; a
waiting task is started and a working one ends. `LicenseAgent!Promise` is its
instance under the refinement mapping `Phase`.

`LicenseFile` is the license file with its two writers and one reader. Its
specification is `FileSpec` (`FileInit`, `FileNext`, with fairness
`FairFileSpec`), so that one module can prove about it and about `LicenseAgent`.
`is_license_file()`, the `lic` program, the reading of the date, the opening
(which truncates) and the writing are steps of their own, per thread. `End` is
the end of the process at any step and leaves the file as it is. The server
issues licenses 1, 2, 3, ..., one a month. `installed`, `raced`, `torn` and
`held` are history. Nobody looks whether the writing succeeded
(`license_checker.cpp:106`), so `FlushFails` leaves the file empty with its
writer done. `Get_License_Task` is `lost` when it is left without a timer, by an
`http_exception` that is swallowed (`GiveUp`) or a thread that could not be
created (`StartFails`); only a reload (`ReloadTimer`) begins it again.

`WatchReactor` is the second reactor with its two inotify handlers, of which
`LicenseAgent` has only what follows an event that got through. One thread
serves both. `queue[h]` is what inotify holds for a handler, where an event that
equals the last one queued is dropped by the kernel.

| Action | Code |
|---|---|
| `Read` (part of the next five) | `read()` of a batch of events; only the first is looked at |
| `IgnoreOther` | the first event is about another file of the directory |
| `DropThird` | `iterations_` has passed 1: it is reset and the event let go |
| `FallAsleep` | `Config_Handler` counts the event and sleeps a second |
| `StartWorker`, `WorkerBusy`, `WorkerFails` | `Itvpn_Exec_Handler` counts the event and starts `EventSink_Task`, finds its thread there, or gets none: `activate()` returns -1, at which nobody looks |
| `ParserInit`, `ParserInitFails` | after the sleep `PARSER::init()` reads the file, or raises SIGINT on a part of it |
| `BeginEdit`, `EndEdit`, `Open`, `TouchOther` | who edits and opens files |
| `WorkerEnds`, `EndLoop` | the end of `svc()`, and of the reactor's loop |

A configuration is a version, whole or still being written: a part of the file
may or may not hold all the keys, so `init()` may take it or fail. `early` and
`overlap`, `served` and `missed` record when an edit began, which opening the
worker saw, and what let the last event go. After a filtered event the
sleep is skipped as in the code.

`ServiceOptions` is the configuration from the command line to the threads that
use it. A value is the version of the file it was read from, 0 where nothing
was. `at` is how far `Service::run()` came.

| Action | Code |
|---|---|
| `ParseArgs`, `MakePaths`, `Raise` | the condition at the start of `run()`: a failed `parse_args()` skips `make_paths()`, and `raise(SIGINT)` has no handler yet, so it kills the process unless SIGINT is ignored in it |
| `CopyOptions`, `StartLoop`, `EndLoop` | `PARSER::instance()` (which makes a default parser if nobody made one: `First`), the rest of `run()` |
| `Edit`, `Reload`, `SetOptions` | the editor, `init()` on the notification thread, and its assignment, which ends when its last string is copied |
| `ReadOption`, `NoProgram`, `Send`, `RefuseAddress` | `make_license_extractor()` and `make_machine_uid_cmd()`, one copy of the options for each value, and the client that is made of them |
| `MakeVerifyLicenseCmd` | one copy for the whole command |
| `Tear` | a copy made during the assignment that ends the process |

A copy made during the assignment is a data race: per string it is the old or the
new one, or the process ends. `init()` accepts any address that is not empty
(`parser_ini.cpp:111`), so each version of the file has one of three kinds of
address (`AddressKinds`): that of an HTTP server, a URI that the client refuses
(`RefuseAddress`), or no URI at all, which raises an exception where it is read
(`ReadOption`); nobody catches either. `reloaded` and `raced` are history.

`LicenseCalendar` is the two tasks against the calendar: `month`, `day` and
`part` of the day, a timer in parts per task, and a run that lasts up to a part.
Real runs last minutes, so the model allows for more drift than there is; a run
begins with the look at the calendar (`IsLicenseUpdateDay`,
`IsLicenseCheckDay`). A wait of an hour or less is due in this part or the next.
`Forget` is the `http_exception` after which nobody schedules. `whole` and
`lost` are history: the options have not changed this month; the task went into
it, or through a part of it, with no timer.

`FastServer` is the pool of `http_server_fast.cpp`. An operation of Boost.Asio
ends in two steps, its result being queued (`Accepted`, `Read`, `Written`,
`Break`, `TimerFires`) and its handler run (`HandleAccept`, `HandleRead`,
`HandleWrite`, `CheckDeadline`). `expires_after()` queues the handler of the wait
it cancels, which does not look at its error code. `parser` says where the
worker's only parser is and whose request it holds; what a half-read header makes
of the next client's text is a choice. Beast and Boost.Asio are external.

`RequestParser` is `request_parser::consume()` as a table of edges over classes
of characters (`To` are the states an edge leads to, and no edge is `bad`), and
`HoldsRequest`, which says without a parser what a text is that begins with a
request: some first `n` characters are lines that end in CR LF, the first of
them a request line, the others headers, of which all but the first may be
continuations, and then an empty line.
`AsioServer` extends it with the acceptor, the connections and the signal, in
the same two steps; a request arrives piece by piece, any number by a read.
`Crash` is what may come of any read: `do_read()` makes a string of a buffer that
holds no NUL (`connection.cpp:30`), and `parse_paremeters()`, which it then calls
for a POST, reads a body that has not arrived or splits a pair that has no `=`.

`NtService` is the Windows service: `Run` (the options of `Process::run()`),
`Initialize` to `Watch` (`Service::svc()` up to the loop), the watcher (`Listen`,
`Wake`, `Processing`, `Leave`, `Exit`), the reactor's thread in `handle_signal()`
(`HandleSignal` waits for the watcher, `Sleep` and `Awake`, `Reread` or
`RereadFails`), `HandleControl` of the service manager and the end of `svc()`.
`Activate` may get no thread, at which nobody looks; `Watch` may fail to register
the handler, whose events then reach nobody (`Told`); `ReadChangesFails` leaves a
watcher that is `deaf`, waiting for what will not come, and `WaitFails` is the
default branch of the wait, which ends the watcher without an event. `RereadFails`
may be of a file that is whole: `init()` also refuses values out of range. `batch`
is what `ReadDirectoryChangesW()` returns, `missed` and `unwatched` are history.
What WMI tells the event sink is not modelled.

`BlackJack` is a table: seats with hand, bet, insurance, the kept request and the
pending news; `told` is what a client was last answered. Clients do as they are
told, one request at a time, but join and leave at any time. `DealerTable` locks
only its responses and the listener has several threads, so a handler is cut
wherever another can find the table half changed; `at[th]` is where the handler
on a thread goes on.

| Action | Code (`cpprest/Table.cpp`) |
|---|---|
| `Bet`, `Count`, `KeepBet` | the bet and the reading of `m_betsMade` (187-194), its writing (194), the keeping of the request (196) |
| `DealCards`, `AskFirst` | `Deal()` up to its lock (25-47), and under it (49-77) |
| `NobodyPast`, `PastPlayers` | the test of `m_currentPlayer` at the end of `Bet()` (206) |
| `Hit`, `StayRequest`, `DoubleDown`, `HitOthers` | the requests of the player who has the turn; those of a `Hit()` that are told to look (92-104) |
| `NextPlayer`, `AssignCurrent`, `RoundGoesOn`, `RoundEnds` | the answer `YourTurn` (266-280), the assignment (282), the test after it (284-288) |
| `DealerDeal` (part of the two that end a round), `PayUp`, `ClearBets` | the dealer's cards and the results (325-379), `PayUp()` for one player after the other (291-323), `m_betsMade = 0` (385) |
| `Join`, `Leave`, `Wait`, `Insure` | one step each |

What two threads do to one vector at the very same moment is left out. `disorder`
counts what comes in between: a player who comes or goes in a round or in the midst
of a handler, a playing handler that begins while another is half done. `stayed`
says that no player came or left so. `Orderly` is a table without any of it. Bets
are all 2 and insurances 1; suits, names, money in fractions and the JSON are left
out.

`License_proofs` (about `LicenseAgent` and `LicenseFile`), `WatchReactor_proofs`,
`ServiceOptions_proofs`, `LicenseCalendar_proofs`, `FastServer_proofs`,
`AsioServer_proofs` (with `RequestParser`), `NtService_proofs` and
`BlackJack_proofs` hold the theorems; `MCBlackJack` and
`MCLicenseCalendar` the symmetry and the calendar for TLC.

Modelled from how the code uses them, and marked external in the map: ACE's
reactor (a call of `cancel_timer` or `schedule_timer` excludes dispatch;
`handle_timeout()` returning -1 drops the task's timers), the `lic` program and
the license server, and inotify with the editor and the user behind it. Of `lic` the model assumes that it does not reject the
license the server hands out now, and that it rejects an empty file.

## 3. Runs

| Run | Question | Bounds |
|---|---|---|
| `license_agent` | `TypeOK`, `AtMostTwoTimers`, `NoTaskOrphaned`, `PromptRunKept`, `ConfigurationReachesTasks`, and the refinement `PromiseKept` | 2 reloads |
| `agent_shutdown` | `ThreadsTerminated`: expected to be violated | 1 reload |
| `watch_reactor` | `TypeOK`, `EditSeenOrMissed`, `OpeningServedOrMissed`, `StoppedOnlyByOverlap`, `EditReachesOptions` | 2 edits, 3 openings, 3 queued events per handler |
| `license_file` | `FileTypeOK`, `EmptyOnlyWhileWriting`, `KilledOnlyWithCause`, `OlderReplacesNewerOnlyInRace`, `NewestLicenseInstalled` | 2 licenses, 2 months |
| `license_file_new_year` | `NewerLicenseIsWritten`: expected to be violated | 3 licenses, 2 months |
| `service_options` | `TypeOK`, `ConfiguredService`, `BuiltOfOneFile` | 2 edits |
| `license_calendar` | `TypeOK`, `UpdateWindowServed`, `CheckDayPassedOnlyByDrift` | months of 31, 28, 31 days, 3 parts a day, 3 update days, 2 check days, 1 reload |
| `fast_server` | `TypeOK`, `AnswerIsWholeRequest`, `DeadlineIsItsOwn`, `NoClientKept` | 2 workers, 2 clients, one of them posts |
| `fast_server_reuse` | `AnswersOwnRequest`: expected to be violated | the same with one worker |
| `asio_server` | `TypeOK`, `ParserMatchesGrammar`, `ReplyFitsRequest`, `StopClosesAll`, `RunReturns` | 2 connections, 4 requests |
| `nt_service` | `TypeOK`, `EditSeenOrMissed`, `WatcherComesBack`, `StopIsServed` | 2 edits |
| `black_jack` | `TypeOK`, `TurnIsCurrent`, `NobodyKeptWaiting`, `SettledRound`, `CrashExplained` | 2 clients, 2 threads, cards of 1 and 10, a shoe of 10, 4 coins, 1 disorder |

Why the bounds are enough. Two reloads are needed so that a reload meets a timer
of another reload, and a third adds no new kind of timer: `AtMostTwoTimers` and
`PromptRunKept` are proved for any number. `LastMonth = 2` in `license_agent`
keeps the set of answers small; the decisions it yields are the same set of four
for any number of months. In `license_file` two licenses let an older one, kept by
one writer, replace the newer one of the other, from a file that was there before,
that is missing or that a write left empty; its safety properties are proved for
any number of licenses and months, and a third issue of one year brings liveness
no new case: the last one is what has to arrive.

In `watch_reactor` two edits raise four events, so that the third can be the one
that is dropped and a later one still arrives, and one edit can begin while the
handler sleeps after the other; three openings do the same for the VPN program.
Three queued events are the shortest queue in which an event about another file
stands before and behind one's own. The safety properties are proved for any
bounds. The system really stops there (`CHECK_DEADLOCK FALSE`): the edits run
out, or the service is stopped.

In `service_options` a second edit can fall into the assignment of the first, and
a request can meet three versions. The three months of `license_calendar` lead
from a long month into the shortest and out of it; the update days put the
window inside a month, at the end of the shortest (its last two days) and on the
last day of a long one; the check days one inside and one that February lacks.
Three parts are the fewest in which a wait can be shorter than a day and still
longer than a run. Both are proved for any bounds; the service stops or the
calendar ends, hence `CHECK_DEADLOCK FALSE`.

Two workers and two clients let one worker serve both clients in turn while the
other accepts. Two connections let one be stopped while another is read, and
while an accept is queued. Four requests cover a file, a request the parser
refuses, one with a body in two pieces, and one with a body that is no
`name=value`. In `nt_service` a second edit can come in every gap between the
watcher and the reactor's thread. In `black_jack` cards of 1 and 10 reach every
kind of hand (blackjack, bust, soft and hard totals), 10 cards last for one round
and for the deal of the next, in which the shoe can run out, and 4 coins are two
bets. Two clients and two threads are the least that overlap, and one disorder is
what `CrashExplained` speaks of; with three of each, or with two disorders, it
held too when it was tried, but that takes too long for a regular run. With more
overlaps than one there are other ways to lose a request (a round that two
threads pay), and it says nothing of them.

In `license_file` the months do not wrap: it shows what holds **inside one
year**. `license_file_new_year` lets them wrap after the second month, and the
January license is put aside.

### Fairness

`LicenseAgent`: the reactor dispatches a due timer (`WF Dispatch`), threads run
on (`WF Svc`) and the handler finishes what it began (`WF` of its steps after
`ConfigModified`). Nothing makes anybody edit the file or stop the service.
`WF` is enough: a due timer stays due until it is dispatched or cancelled by a
party that will arm another. Reloads are finite, so they cannot postpone a task
for ever; a configuration that changes again within five seconds, always, could.

`WatchReactor`: `ACE_Reactor` polls its handles in turn, so a handle with events
is dispatched in the end although the other handler keeps taking the thread
(`SF` of each handler's dispatch: it is not enabled while the thread sleeps); the
thread wakes from its sleep (`WF`) and an editor finishes an edit (`WF EndEdit`).
Nobody has to edit or to open anything.

`LicenseFile`: threads take their steps and the VPN program is opened again and
again (`WF Begin` of the worker). A task with a timer runs again, which is `SF
Begin` of `Get_License_Task`, since at times no thread can be created for it; a
task that has lost its timer (`lost`) does not begin, and nothing makes anybody
reload. `SF` also says that the environment is not hostile for ever: now and then
the server sends a dated license and the directory can then be read, the file can
be opened, and it can be written. `NewestLicenseInstalled` excepts a process that
ends again and again, and a task that is lost for good.

`FastServer`: time passes (`WF DeadlinePasses`, `TimerFires`), the `io_context`
runs queued handlers (`WF`), and the acceptor does not fail for ever (`SF` of a
client's `Accepted`: a worker is free only now and then). Nothing is asked of
clients. `AsioServer`: `WF` of the handlers only. `NtService`: each thread goes
on (`WF`), and the reactor serves each of its sources in the end (`SF` of
`HandleSignal` and `HandleException`, which are not enabled while it sleeps).
`ServiceOptions`, `LicenseCalendar` and `BlackJack` are checked for safety only;
in `LicenseCalendar` time cannot pass while something is due, which is what
makes an action property say that a month does not end without its run.

### Assumptions on time

`PromptExit` says that from a task's own `cancel_timer()` to the end of its
`svc()` less time passes than the shortest timer, the five seconds of a reload.
The code relies on this: after `schedule_handle_timeout()` a task logs a line or
two and returns, and a timer that expired before the thread is gone would be
used up. With `PromptExit = TRUE` the model does not dispatch a timer of a task
in that stretch. `NoTaskOrphaned` and `PromiseKept` need it; `AtMostTwoTimers`
and `PromptRunKept` are proved without it.

`PromptEditor` says that an edit takes less than the second for which
`Config_Handler` sleeps before it reads the file (`config_change.cpp`), which is
what the sleep is there for. Only `StoppedOnlyByOverlap` needs it. Edits are
taken to be valid when whole. An editor that writes another file and renames it
raises no `IN_MODIFY` and is not seen by the program at all; the model has no
action for it.

`PromptExit` of `NtService` says that a watcher is gone three seconds after it
signalled its end, which is what `handle_signal()` sleeps for. Only the last part
of `WatcherComesBack` (never `busy`) needs it.

Every failure of the system that the code does not look at (a thread that is not
created, a write, the read of the directory, the wait for it, the registration of
a handler) can come at any time, and as often as it likes; only fairness, above,
says what cannot fail for ever.

### What the violations show

* `agent_shutdown`. `ACE_Thread_Manager::wait` is given `ACE_Time_Value(3)`
  (`nx_service/nxsvc.cpp:138`), which is an absolute time in 1970: the wait gives
  up at once and `run()` returns while a task or a reload is at work, against
  the comment at line 140.
* `license_file_new_year`. `is_check_licenses_months()`
  (`license/license_checker.cpp:239`) compares months only.
* `fast_server_reuse`. `read_request()` (`http_server/http_server_fast.cpp:199`)
  reads with the parser that the worker was made with. Once it is done nothing is
  read from the next client, who is given the reply to the first one's request;
  the comment at line 178 says that the parser needs to be recreated.

Met while modelling, and part of the models without a run of their own: a bare
`-f name` is looked for as `.name` (`tools/tools.cpp:159`); a service without a
configuration is killed by its own SIGINT, or runs on if SIGINT is ignored
(`nxsvc.cpp:91`); a task is not scheduled again after a refused connection
(`get_license_task.cpp:166`); a license file stays empty when its disk is full
(`license_checker.cpp:106`); an address that is no URI ends the service with the
first request (`parser_ini.cpp:111`). At the card table: a round in which every
player has a blackjack is over, as the comment at `Table.cpp:202` says, but does
not end, since `Deal()` leaves `m_currentPlayer` at the last player and line 206
compares it with one more: this is a bug, and `TurnIsCurrent` states the state it
leaves, which nobody has the turn in, as the only one of its kind. `Deal()` and
`NextPlayer()` answer a request that may not be there (`Table.cpp:58` and 274):
because the next refresh is on its way, or because a bet was counted that was not
kept yet (lines 194 and 196); these are the two causes of `CrashExplained`. A
client that is told `YourTurn` (274) before it is the current player (282) can
hit for the player before it, and a bet that is made on `PlaceBet` (318) before
the bets are counted from 0 again (385) is not counted: the model has these steps,
and `TurnIsCurrent` and `NobodyKeptWaiting` name the first in which they can
happen, and hold only as long as no request comes in there.

## 4. Proofs

Every safety property of the passing runs is a theorem: each type invariant,
invariant and action property, and the safety part of the refinement, for every
value of the constants that the assumptions of the modules allow;
`CrashExplained` of `BlackJack` only as far as no handlers overlap. The
assumptions are those that the code's own numbers satisfy (`RequestParser` has
none); `PromptExit` and `PromptEditor` are hypotheses of the theorems that need
them, as section 3 says.

`License_proofs` proves of `LicenseAgent`, for any number of reloads and months:

* `TypeCorrect`: `Spec => []TypeOK`. `TypeOK` alone is not inductive
  (`options' = options + 1` has to stay in `Version`), so the proof carries
  `ReloadLeft`, that the handler is about to read a version only if one is left.
* `TimersBounded`: `[]AtMostTwoTimers`, and `PromptRunSafe`: `[]PromptRunKept`,
  both from `QueueInv`. Its parts say which scheduler's timers can be in the
  queue, given where the thread and the handler are: each of the two cancels
  everything before it schedules, so between its two calls only the other's
  timer can be there, and `open()`'s timer is alone or gone. Without
  `SvcHasCancelled` and `HandlerHasCancelled` the sum is not bounded by a step.
* `NeverOrphaned`: `PromptExit => (Spec => []NoTaskOrphaned)`, which is
  inductive together with `TypeOK`.
* `PromiseSafe`: `PromptExit => (Spec => Promise!Safe)`: the initial state maps
  to the initial state and each step to a step of `PeriodicTasks` or to none
  (`StepSimulation`). It needs `NoTaskOrphaned` after the step and `Started`, that
  a task with a thread is not marked as failed to start.

`WatchReactor_proofs` proves, for any number of edits, openings and queued
events: `TypeCorrect`; `EditsKept` (`[]EditSeenOrMissed`) and `OpeningsKept`
(`[]OpeningServedOrMissed`: a filter, a busy worker, or no thread for one), which
rest on two lemmas of what queueing and
reading do to the queues (`EnqueueEffect`, `ReadEffect`: an event that is
dropped as a duplicate is in the queue all the same); and `OneEditIsSafe`
(`PromptEditor => (Spec => []StoppedOnlyByOverlap)`), which is not inductive
alone: `PartExplained` adds that while the thread sleeps a file that is not
whole is one whose edit began before the sleep, or an overlap.

Of `LicenseFile` it proves, for any number of licenses and months, so over the
turn of the year too: `FileTypeCorrect`; `EmptyExplained`
(`[]EmptyOnlyWhileWriting`: inside a write, or after a crash or a failure in one); `KillsWithCause` (`[]KilledOnlyWithCause`), from
`KillNeedsCause`, that no output of `lic` about the current license makes the
killer act; and `OlderOnlyInRace` (`OlderReplacesNewerOnlyInRace`). The last one
needs `RaceInv`: no license is newer than what the server hands out, and a
writer that nobody overtook holds nothing older than what was installed last.

`ServiceOptions_proofs` proves, for any number of edits: `TypeCorrect`;
`Configured` (`[]ConfiguredService`), with `Quiet`, that nothing is assigned or
read before the loop, and `NothingUnset`, that no value of a request is missing,
since the crash in `RefuseAddress` looks at the request and not at the options; `Built`
(`[]BuiltOfOneFile`), with `OneFile` (all options are of one version, no newer
than the file, and an assignment brings one no older), `ReadFrom` and
`RequestInOrder` (what was read without a race is no newer than the options, and
equal to them as long as nothing was reloaded) and `CommandOfOneFile`.

`LicenseCalendar_proofs` proves, for any sequence of months of 28 to 31 days, any
options and any number of parts: `TypeCorrect`; `CheckDayServed` from
`KillerInv`: the killer always has a timer or a run (`KillerWaits`), and
with waits shorter than a day the next look at the calendar comes before the
check day ends (`KillerOnTime`); and `WindowServed` from `GetterInv`: the getter
asks on the first day of the window, or is about to as the second begins, since
a wait of a whole day and a run before it are less than two days
(`GetterOnTime`).

`FastServer_proofs` proves, for any workers and clients: `TypeCorrect`;
`OwnDeadline` (`DeadlineIsItsOwn`) from `DeadlineFitsPeer`, that a worker which
accepts has no open socket and an open socket's deadline was set for its client;
`WholeAnswers` (`[]AnswerIsWholeRequest`) from `Whole`: what a parser holds was
sent as far as the parser says (`HeldIsSent`), whoever it is read from now.

`AsioServer_proofs` proves, for any number of connections, `AllClosed`
(`[]StopClosesAll`) from `StopInv`: after the signal the acceptor is closed, so
that a queued accept starts nothing. The rest of it is about what is read.

* `ParserIsRight`: of **every** text, of any length, `parse()` says good just if
  the text begins with a request. The run of TLC looks at the texts that are one
  slip away from one request. `At(s, i, q)` says what each state means: that
  consume() is in it just if the first `i` characters of `s` are such and such
  (`InMethod` to `InGood`, by the grammar and not by the table), and that
  `request.headers` is empty just as long as they hold no header. The argument
  has three parts. The table does what `Goes` says of each state on its own
  (`ConsumeGoes`; no two of its rows apply at once, `Deterministic`). One more
  character leads from the meaning of a state to the meaning of the next
  (`AtStep`, of which the hard part is `HeadGrows`: the lines so far are a head
  just if the last is a line of its own kind and those before it are a head). And
  `parse()` goes on character by character (`RunExists`, `ParseAlong`), hence
  `ParseIsAt`, by induction over the length.
* `ParseCut`: `parse()` of a text in two reads, cut anywhere, leaves what
  `parse()` of it in one read does. With `ParserIsRight` it gives
  `ParserIsCorrect` (`[]ParserMatchesGrammar`).
* `TypeCorrect` (`[]TypeOK`) and `RepliesFit` (`[]ReplyFitsRequest`), from
  `ReplyInv`. `TypeOK` is not inductive, nor is `ReplyFitsRequest`: what
  `do_read()` writes depends on the parser, and that on what was read before.
  `Kept` adds that the parser of a connection is as if all that was handled had
  come at once (`SoFar`), that a read is handled once, and that a connection
  which never came is as it was constructed; `Accepted` that an accept ends with
  a connection that came. `AnswerFits` is then that whenever `parse()` has
  decided, after however many pieces, the reply is that to the whole request.
  `ConnectionAssumption` only says that the name of no connection is one of the
  words for the other ends of an accept.

`NtService_proofs` proves, for any number of edits: `TypeCorrect`; `WatcherBack`
(`[]WatcherComesBack`) from `HandOver`: a reread goes on only in the loop, there
is no watcher before it, a watcher that is away or deaf without an event to serve
is one for which a cause is recorded; `EditsKept` (`[]EditSeenOrMissed`) from
`Owed`, the same from the start of the process on.

`BlackJack_proofs` proves, for any clients, threads, shoe, cards of 1 to 10 and
funds: `TypeCorrect` (`[]TypeOK`, from `Typed`: the table, what clients were told
and where handlers are, and no player in two seats, whoever joins and leaves when
and whatever overlaps). Its other theorems are about orderly tables, on which
players stay and one playing handler is at work at a time: `TheTurnIsCurrent`,
`NobodyIsKeptWaiting`, `EveryRoundIsSettled`, and `NoOtherCrash`, which is
`CrashExplained` with no disorder. That it holds with one overlap is
model-checked only. None of the four is inductive. They follow from

    IInv == Typed /\ (Orderly => RoundOn) /\ DiesLate

where `RoundOn` says that at most one handler is at work, and `Round` what the
table is like where that one goes on: of each seat, by what its player was told
last, which request the table keeps of it and which news. Between handlers bets
are taken (`Betting`: a player may bet, or has that as news, or has bet and waits,
and `m_betsMade` counts those) or cards are played (`Playing`: one player has a
hand in play and the turn and the others are `Idles`; or all were dealt a
blackjack). Within one there are the states that only it sees: a bet on the table
that is not counted or not kept (`Staking`), all dealt and nobody asked
(`AllDealt`), the one asked who is not yet current (`Turning`), some paid and some
not (`Paying`). It is needed whole: `NextPlayer()` dies unless the next player's
request is there, or its news is on its way; `AskFirst` answers the bets, which
are all there just because the count was right; and the last player is settled
with bets that were made this round. Each function of `DealerTable` has a lemma of
what it does to any table (`DealEffect`, `FirstPlayerEffect`, `PaidUpEffect`, ...),
and each step of a handler one of what it does to a round (`KeepBetKeeps`,
`NextPlayerKeeps`, `PayUpKeeps`, ...). The dealer's draw is a recursive function;
`DealerHandsDef` shows that it exists, which is that the dealer's loop ends: the
least value of a hand grows with each card, and at 17 nothing is drawn.

On induction. The library's induction theorems take an operator and are of no
use to the provers here, so `SetInduction` (in both modules) states it of a set
of naturals, and is proved from the well-foundedness of `<`. Recursive
*functions* (`Parse`, `Text`, `DealerHands`) are shown to exist, and to be the
only ones, by it. No module has a RECURSIVE operator.

Only model-checked: `CrashExplained` with one overlap, and liveness (`ConfigurationReachesTasks`, `EditReachesOptions`,
the liveness part of `PromiseKept`, `NewestLicenseInstalled`, `NoClientKept`,
`RunReturns`, `StopIsServed`), which is beyond the prover. That the properties of
the three violation runs fail is shown by TLC's traces only.

## 5. Not modelled, and what is left

* What WMI and UDP carry: the event sink of Windows (`eventsink.cpp`) and
  `Net::send_message()` report and are not waited for.
* The asynchronous Beast server (`listener.cpp`, `session.cpp`,
  `handle_request.h`): sessions share nothing; its listener accepts for ever.
* `send_request()`'s loop of attempts against the clock: one step with its
  outcomes in `LicenseDecision`.
* The bytes of replies, licenses, commands and messages, and base64.
* What two threads do to one vector of the card table at the very same moment
  (undefined behaviour), and its client.
* The logger, third-party code and versions that nothing compiles: no state of
  the programs is in them.
* `LicenseFile` takes the second writer's text to replace the first one's whole
  when both have the file open; a shorter text would leave the end of a longer.

Worth doing next: an abstract register that `ServiceOptions` implements outside
its races; of `BlackJack`, what a round pays, with its own model of money; and
lemmas that narrow the liveness properties to one use of fairness each.

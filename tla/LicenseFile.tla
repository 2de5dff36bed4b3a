------------------------------ MODULE LicenseFile ------------------------------
(***************************************************************************)
(* The license file and the three threads that use it without a lock: the  *)
(* run of Get_License_Task on an update day, the run of EventSink_Task     *)
(* after the VPN program was opened, and the run of Process_Killer_Task on *)
(* a check day.  Looking whether the file exists, having the lic program   *)
(* verify it, reading its date, truncating it and writing it are steps of  *)
(* their own.  The server issues one license a month; a write may fail, a *)
(* task may be left without a timer, and the process may end between any   *)
(* two steps, and starts again with the file as it was left.               *)
(***************************************************************************)
EXTENDS LicenseDecision

CONSTANT LastIssue   \* how many licenses the server issues (bounds the model)

ASSUME LastIssueAssumption == LastIssue \in Nat \ {0}

License == 1 .. LastIssue           \* licenses, in the order they are issued
Empty == LastIssue + 1              \* the file after ofstream truncated it

\* Variant: the server's month is counted from one twice.
Month_OffByOne(k) == ((k - 1) % LastMonth) + 2

Month(k) == ((k - 1) % LastMonth) + 1

\* The file as is_license_file() and current_license_date() see it.
FileOf(c) ==
  CASE c = NoFile       -> NoFile
    [] c = Empty        -> BadFile
    [] c \in License    -> Month(c)

Writers == {"get_license", "worker"}
Threads == Writers \cup {"process_killer"}

VARIABLES
  file,      \* NoFile, Empty or the license in it
  issued,    \* the license the server hands out now
  up,        \* the process is there
  pc,        \* per thread, the call it makes next, "idle", or "lost": it has no
             \* timer
  got        \* per writer, the license and the month it received

\* History, read by no guard:
VARIABLES
  installed, \* the last license that was completely written
  raced,     \* per writer, the other one wrote during its run
  torn,      \* since the last whole write the process ended, or a write
             \* failed, while the file was truncated
  held       \* the current license was in the file since the killer began

fileVars == <<file, issued, up, pc, got, installed, raced, torn, held>>
ghosts == <<installed, raced, torn>>

Goto(t, step) == pc' = [pc EXCEPT ![t] = step]

\* The history of the killer's run follows every change of file and issued.
Hold == held' = (held /\ file' = issued')

FileInit ==
  /\ file \in {NoFile} \cup License
  /\ issued = 1
  /\ file <= issued
  /\ up = TRUE
  /\ pc = [t \in Threads |-> "idle"]
  /\ got = [w \in Writers |-> [license |-> 1, month |-> 0]]
  /\ installed = file
  /\ raced = [w \in Writers |-> FALSE]
  /\ torn = FALSE
  /\ held = FALSE

\* The outputs lic may print about the file: it accepts the current license,
\* it may or may not accept an older one, and it rejects an empty file.
LicOutput ==
  CASE file = issued  -> {"SUCCESS", "OTHER"}
    [] file = Empty   -> {"ERROR"}
    [] OTHER          -> {"ERROR", "SUCCESS", "OTHER"}

-----------------------------------------------------------------------------
(* Steps the threads share.                                                *)

\* A timer expires on an update or check day, or the VPN program is opened.
FirstStep(t) == IF t = "get_license" THEN "fetch" ELSE "exists"

Begin(t) ==
  /\ up
  /\ pc[t] = "idle"
  /\ Goto(t, FirstStep(t))
  /\ raced' = [w \in Writers |-> raced[w] /\ w # t]
  /\ held' = IF t = "process_killer" THEN file = issued ELSE held
  /\ UNCHANGED <<file, issued, up, got, installed, torn>>

\* activate() returns -1: the reactor drops the task and its timers.  (That goes
\* for the killer too: nothing says that it is ever begun.)
StartFails ==
  /\ up
  /\ pc["get_license"] = "idle"
  /\ Goto("get_license", "lost")
  /\ UNCHANGED <<file, issued, up, got, ghosts, held>>

\* Only a reload of the configuration, reshedule_tasks(), brings it back.
ReloadTimer ==
  /\ up
  /\ pc["get_license"] = "lost"
  /\ Goto("get_license", "idle")
  /\ UNCHANGED <<file, issued, up, got, ghosts, held>>

\* Variant: the extractor and its result are kept from one run to the next.
Receive_Cached(w, month, next) ==
  /\ up
  /\ pc[w] = "fetch"
  /\ got' = IF got[w].month # 0 THEN got
            ELSE [got EXCEPT ![w] = [license |-> issued, month |-> month]]
  /\ Goto(w, next)
  /\ UNCHANGED <<file, issued, up, ghosts>>
  /\ Hold

\* The server's answer holds the license of the month, dated or not ...
Receive(w, month, next) ==
  /\ up
  /\ pc[w] = "fetch"
  /\ got' = [got EXCEPT ![w] = [license |-> issued, month |-> month]]
  /\ Goto(w, next)
  /\ UNCHANGED <<file, issued, up, ghosts>>
  /\ Hold

\* ... or the request ends in any other way, which ends the run: the task waits
\* for its next timer, the worker for the next opening of the VPN program.
ReceiveNone(w) ==
  /\ up
  /\ pc[w] = "fetch"
  /\ Goto(w, "idle")
  /\ UNCHANGED <<file, issued, up, got, ghosts>>
  /\ Hold

\* Variant: the text is looked at after the file was opened, and is empty.
OpenFile_NoText(w) ==
  /\ up
  /\ pc[w] = "open"
  /\ file' = Empty
  /\ Goto(w, "idle")
  /\ UNCHANGED <<issued, up, got, ghosts>>
  /\ Hold

\* save_license_to_file(): opening the file truncates it ...
OpenFile(w) ==
  /\ up
  /\ pc[w] = "open"
  /\ file' = Empty
  /\ Goto(w, "flush")
  /\ UNCHANGED <<issued, up, got, ghosts>>
  /\ Hold

\* ... or fails, and the callers of write_license() ignore that ...
OpenFails(w) ==
  /\ up
  /\ pc[w] = "open"
  /\ Goto(w, "idle")
  /\ UNCHANGED <<file, issued, up, got, ghosts>>
  /\ Hold

\* ... and the text reaches it when the stream is closed ...
Flush(w) ==
  /\ up
  /\ pc[w] = "flush"
  /\ file' = got[w].license
  /\ Goto(w, "idle")
  /\ installed' = file'
  /\ raced' = [o \in Writers |-> raced[o] \/ o # w]
  /\ torn' = FALSE
  /\ UNCHANGED <<issued, up, got>>
  /\ Hold

\* ... or does not, the disk being full, and nobody looks at the stream again.
\* (A license is short: it is written whole or not at all.)
FlushFails(w) ==
  /\ up
  /\ pc[w] = "flush"
  /\ Goto(w, "idle")
  /\ torn' = (torn \/ file = Empty)
  /\ UNCHANGED <<file, issued, up, got, installed, raced>>
  /\ Hold

\* is_license_file() raises a filesystem_error, a runtime_error: the run ends.
ExistsRaises(t) ==
  /\ up
  /\ pc[t] = "exists"
  /\ Goto(t, "idle")
  /\ UNCHANGED <<file, issued, up, got, ghosts>>
  /\ Hold

-----------------------------------------------------------------------------
(* Get_License_Task                                                        *)

GetLicenseReceive ==
  \E month \in {0, Month(issued)} : Receive("get_license", month, "exists")

\* The http_exception of a server that was not reached for a minute is logged
\* and forgotten: svc() returns and no timer is left.
GiveUp ==
  /\ up
  /\ pc["get_license"] = "fetch"
  /\ Goto("get_license", "lost")
  /\ UNCHANGED <<file, issued, up, got, ghosts>>
  /\ Hold

GetLicenseExists ==
  /\ up
  /\ pc["get_license"] = "exists"
  /\ Goto("get_license",
          CASE file = NoFile                                 -> "open"
            [] file # NoFile /\ got["get_license"].month # 0 -> "compare"
            [] file # NoFile /\ got["get_license"].month = 0 -> "idle")
  /\ UNCHANGED <<file, issued, up, got, ghosts>>
  /\ Hold

Fetched(w) ==
  [kind |-> "status", status |-> "ACTIVE", text |-> "full",
   month |-> got[w].month]

\* is_check_licenses_months(): the file is read again, and compared by month.
Compare ==
  /\ up
  /\ pc["get_license"] = "compare"
  /\ \E month \in ReadMonths(FileOf(file)), e \in {"result", "runtime_error"} :
       /\ e \in Ends(Fetched("get_license"), FileOf(file))
       /\ Goto("get_license",
               IF WritesLicense(TRUE, month, Fetched("get_license"), e)
               THEN "open" ELSE "idle")
  /\ UNCHANGED <<file, issued, up, got, ghosts>>
  /\ Hold

-----------------------------------------------------------------------------
(* EventSink_Task                                                          *)

WorkerReceive ==
  \E month \in {0, Month(issued)} : Receive("worker", month, "open")

WorkerExists ==
  /\ up
  /\ pc["worker"] = "exists"
  /\ Goto("worker", IF file = NoFile THEN "fetch" ELSE "verify")
  /\ UNCHANGED <<file, issued, up, got, ghosts>>
  /\ Hold

WorkerVerify ==
  /\ up
  /\ pc["worker"] = "verify"
  /\ \E output \in LicOutput :
       Goto("worker", IF VerifyLicense(output) = "invalid" THEN "fetch" ELSE "idle")
  /\ UNCHANGED <<file, issued, up, got, ghosts>>
  /\ Hold

-----------------------------------------------------------------------------
(* Process_Killer_Task                                                     *)

KillerExists ==
  /\ up
  /\ pc["process_killer"] = "exists"
  /\ Goto("process_killer", IF file = NoFile THEN "terminate_process" ELSE "verify")
  /\ UNCHANGED <<file, issued, up, got, ghosts>>
  /\ Hold

KillerVerify ==
  /\ up
  /\ pc["process_killer"] = "verify"
  /\ \E output \in LicOutput :
       Goto("process_killer",
            IF Kills(TRUE, FileOf(file), output) THEN "terminate_process" ELSE "idle")
  /\ UNCHANGED <<file, issued, up, got, ghosts>>
  /\ Hold

Kill ==
  /\ up
  /\ pc["process_killer"] = "terminate_process"
  /\ Goto("process_killer", "idle")
  /\ held' = FALSE
  /\ UNCHANGED <<file, issued, up, got, ghosts>>

-----------------------------------------------------------------------------
(* The process and the server.                                             *)

\* The process ends: a shutdown that joins no thread, or an uncaught exception.
End ==
  /\ up' = FALSE
  /\ pc' = [t \in Threads |-> "idle"]
  /\ torn' = (torn \/ (file = Empty /\ \E w \in Writers : pc[w] = "flush"))
  /\ held' = FALSE
  /\ UNCHANGED <<file, issued, got, installed, raced>>

Shutdown == up /\ End

\* Reading the date out of an empty file indexes past the end of a vector.
CompareCrashes ==
  /\ up
  /\ pc["get_license"] = "compare"
  /\ "segfault" \in Ends(Fetched("get_license"), FileOf(file))
  /\ End

Restart ==
  /\ ~up
  /\ up' = TRUE
  /\ UNCHANGED <<file, issued, pc, got, ghosts, held>>

Issue ==
  /\ issued < LastIssue
  /\ issued' = issued + 1
  /\ UNCHANGED <<file, up, pc, got, ghosts>>
  /\ Hold

GetLicense ==
  \/ GetLicenseReceive \/ ReceiveNone("get_license") \/ GiveUp \/ GetLicenseExists
  \/ ExistsRaises("get_license") \/ Compare \/ CompareCrashes
  \/ OpenFile("get_license") \/ OpenFails("get_license") \/ Flush("get_license")
  \/ FlushFails("get_license")

Worker ==
  \/ WorkerExists \/ ExistsRaises("worker") \/ WorkerVerify
  \/ WorkerReceive \/ ReceiveNone("worker")
  \/ OpenFile("worker") \/ OpenFails("worker") \/ Flush("worker")
  \/ FlushFails("worker")

Killer ==
  KillerExists \/ ExistsRaises("process_killer") \/ KillerVerify \/ Kill

FileNext ==
  \/ \E t \in Threads : Begin(t)
  \/ StartFails \/ ReloadTimer
  \/ GetLicense \/ Worker \/ Killer
  \/ Shutdown \/ Restart \/ Issue

FileSpec == FileInit /\ [][FileNext]_fileVars

\* A task that has a timer runs again, threads take their steps, and the
\* environment is not hostile for ever: a thread can now and then be created, the
\* server now and then answers with a dated license, the directory can now and
\* then be read after such an answer, the file can now and then be opened and
\* written, and the VPN program is opened again.  Nothing says that a task that
\* lost its timer ever gets one.
FileFairness ==
  /\ SF_fileVars(Begin("get_license")) /\ WF_fileVars(Begin("worker"))
  /\ WF_fileVars(GetLicense) /\ WF_fileVars(Worker)
  /\ SF_fileVars(Receive("get_license", Month(issued), "exists"))
  /\ SF_fileVars(WorkerReceive)
  /\ SF_fileVars(GetLicenseExists /\ got["get_license"].month # 0)
  /\ SF_fileVars(WorkerExists)
  /\ \A w \in Writers : SF_fileVars(OpenFile(w)) /\ SF_fileVars(Flush(w))
  /\ WF_fileVars(Restart) /\ WF_fileVars(Issue)

FairFileSpec == FileSpec /\ FileFairness

-----------------------------------------------------------------------------
(* Properties                                                              *)

FileTypeOK ==
  /\ file \in NoFile .. Empty
  /\ issued \in License
  /\ up \in BOOLEAN
  /\ pc \in [Threads -> {"idle", "lost", "fetch", "exists", "compare", "open",
                         "flush", "verify", "terminate_process"}]
  /\ got \in [Writers -> [license : License, month : 0 .. LastMonth]]
  /\ installed \in {NoFile} \cup License
  /\ raced \in [Writers -> BOOLEAN]
  /\ torn \in BOOLEAN
  /\ held \in BOOLEAN

\* save_license_to_file() truncates before it writes, in two threads at once, and
\* does not look whether it wrote.  The file is found empty only while one of
\* them is about to write, or since the process ended just there or a write into
\* the empty file failed, until the next whole write.
EmptyOnlyWhileWriting ==
  file = Empty => torn \/ \E w \in Writers : pc[w] = "flush"

\* Each writer decides by what it saw before: Get_License_Task by the date in
\* the file, EventSink_Task by lic's verdict.  An older license replaces a newer
\* one only when the two runs overlap and the other one wrote during this one.
OlderReplacesNewerOnlyInRace ==
  [][installed' < installed =>
       \E w \in Writers : raced[w] /\ pc[w] = "flush" /\ pc'[w] = "idle"]_fileVars

\* Between is_license_file(), the lic program and terminate_process() the file
\* can change, and verify_license() takes unknown output for success.  Still the
\* killer stops the VPN only if at some moment of its run the file did not hold
\* the current license.
KilledOnlyWithCause ==
  pc["process_killer"] = "terminate_process" => ~held

\* While the months do not wrap, the last license the server issued reaches the
\* file and is only ever replaced by itself, whatever the two writers do to each
\* other and whatever torn file was left behind, unless the process keeps ending
\* or Get_License_Task is left without a timer for good, by an http_exception or
\* a thread that could not be created.  (The file need not come to rest: each
\* writer can find it empty while the other one writes, and write it once more.)
NewestLicenseInstalled ==
  \/ []<>~up
  \/ <>[](pc["get_license"] = "lost")
  \/ <>[](file \in {Empty, LastIssue}) /\ []<>(file = LastIssue)

\* "read and check the date of current license"
\* (get_license_task/get_license_task.cpp:96): a license newer than the one in
\* the file is not put aside as "current".
NewerLicenseIsWritten ==
  [][/\ pc["get_license"] = "compare"
     /\ pc'["get_license"] = "idle"
     /\ up'
     /\ file \in License
     => got["get_license"].license <= file]_fileVars

==============================================================================

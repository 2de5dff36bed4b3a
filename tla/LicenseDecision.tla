--------------------------- MODULE LicenseDecision ---------------------------
(***************************************************************************)
(* What one run of a task's svc() decides: which of its branches and catch *)
(* clauses it takes for a given day, license file and answer of the        *)
(* license server, whether it writes the license file, and which timer it  *)
(* leaves behind.  The text of licenses and messages is abstracted; months *)
(* are numbers, 0 being what HostLicense holds when the server sent none.  *)
(***************************************************************************)
EXTENDS Naturals

CONSTANT LastMonth    \* months are 1..LastMonth (12 in the program)

ASSUME LastMonthAssumption == LastMonth \in Nat \ {0}

FileMonth == 1 .. LastMonth       \* the license file, as the month in it
NoFile == 0                       \* no license file in the directory
BadFile == LastMonth + 1          \* a file whose third field is no date

File == NoFile .. BadFile

Status == {"NEW", "ACTIVE", "APPROVED", "SUSPENDED"}
LicenseText == {"null", "empty", "full"}

(***************************************************************************)
(* How making the request, sending it and reading the answer can go: the   *)
(* lic program is missing, the machine uid has the wrong size, the         *)
(* configured address is not a URI, the connection fails until the time    *)
(* for attempts is over, the server answers with a fault code, with a body *)
(* that is not JSON, with JSON of another shape, without a host status, or *)
(* with one.                                                               *)
(***************************************************************************)
MakeExtractorFails == {"no_lic_app", "bad_uid", "bad_uri"}

AnswerKind ==
  MakeExtractorFails \cup
    {"refused", "fault", "text", "malformed", "no_status", "status"}

Answer == [kind : AnswerKind, status : Status,
           text : LicenseText, month : 0 .. LastMonth]

(***************************************************************************)
(* How processing_license() and the calls before it end.  Without a        *)
(* hostStatus the function runs off its end without a return statement,    *)
(* which is undefined: the caller crashes on the missing status, or        *)
(* control falls into the function that raises runtime_error.              *)
(***************************************************************************)
RequestEnds(a) ==
  [no_lic_app |-> {"process_error"},
   bad_uid    |-> {"runtime_error"},
   bad_uri    |-> {"std_exception"},
   refused    |-> {"http_exception"},
   fault      |-> {"runtime_error", "std_exception"},
   text       |-> {"mime_exception"},
   malformed  |-> {"std_exception"},
   no_status  |-> {"runtime_error", "segfault"},
   status     |-> {"result"}][a.kind]

-----------------------------------------------------------------------------
(* Get_License_Task::svc()                                                 *)

HasLicense(a) == a.kind = "status" /\ a.status = "ACTIVE" /\ a.text = "full"

Received(a, end) == end = "result" /\ HasLicense(a)

\* extract_license_date() on a file that holds no date indexes past the end of
\* a vector, raises in the base64 decoder, or compares an unset month.
Ends(a, file) ==
  RequestEnds(a) \cup
    (IF HasLicense(a) /\ a.month # 0 /\ file = BadFile
     THEN {"runtime_error", "segfault"} ELSE {})

ReadMonths(file) == IF file = BadFile THEN FileMonth ELSE {file}

\* Variant: the months are compared the wrong way round.
IsCheckLicensesMonths_Swapped(next, current) == current > next

\* is_check_licenses_months: the months are compared without their years.
IsCheckLicensesMonths(next, current) == next > current

\* The branches that call schedule_handle_timeout(next_day_waiting_secs()).
WaitsDay(updateDay, file, a, end) ==
  \/ ~updateDay
  \/ end = "result" /\ a.status = "SUSPENDED"
  \/ Received(a, end) /\ (file = NoFile \/ a.month # 0)

\* The branches that call schedule_handle_timeout(next_try_get_license_secs()).
WaitsTry(updateDay, file, a, end) ==
  /\ updateDay
  /\ \/ end \in {"process_error", "runtime_error", "mime_exception"}
     \/ end = "result" /\ a.status \in {"NEW", "APPROVED"}
     \/ end = "result" /\ a.status = "ACTIVE" /\ a.text # "full"
     \/ Received(a, end) /\ file # NoFile /\ a.month = 0

\* An http_exception whose code is not MIME_TYPES is logged and forgotten.
Forgets(updateDay, end) == updateDay /\ end = "http_exception"

\* json_exception and uri_exception have no catch clause in svc().
Terminates(updateDay, end) ==
  updateDay /\ end \in {"std_exception", "segfault"}

GetLicenseSvc(updateDay, file, a, end) ==
  CASE WaitsDay(updateDay, file, a, end)  -> "day"
    [] WaitsTry(updateDay, file, a, end)  -> "try"
    [] Forgets(updateDay, end)            -> "none"
    [] Terminates(updateDay, end)         -> "terminate"

\* Whether the run replaces the license file, current being the month it read.
WritesLicense(updateDay, current, a, end) ==
  /\ updateDay
  /\ Received(a, end)
  /\ \/ current = NoFile
     \/ a.month # 0 /\ IsCheckLicensesMonths(a.month, current)

\* Everything a run of Get_License_Task::svc() may decide.
GetLicenseDecisions ==
  UNION {{GetLicenseSvc(u, f, a, e) : u \in BOOLEAN, e \in Ends(a, f)}
           : f \in File, a \in Answer}

-----------------------------------------------------------------------------
(* Process_Killer_Task::svc(): both catch clauses reschedule like the      *)
(* normal path, and nothing it calls raises anything else.                 *)

VerifyOutput == {"", "ERROR", "SUCCESS", "OTHER"}

\* Variant: every output but SUCCESS rejects the license.
VerifyLicense_Strict(output) ==
  IF output = "SUCCESS" THEN "valid" ELSE "invalid"

\* verify_license(): compare() is 0 for "SUCCESS", so that output raises and
\* an output nobody expected counts as a valid license.
VerifyLicense(output) ==
  CASE output \in {"", "SUCCESS"} -> "raises"
    [] output = "ERROR"           -> "invalid"
    [] output = "OTHER"           -> "valid"

\* Whether the run calls terminate_process().
Kills(checkDay, file, output) ==
  checkDay /\ (file = NoFile \/ VerifyLicense(output) = "invalid")

ProcessKillerDecisions == {"day"}

==============================================================================

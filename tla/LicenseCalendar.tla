----------------------------- MODULE LicenseCalendar -----------------------------
(***************************************************************************)
(* The days on which the agent works.  Both tasks run, wait up to a day    *)
(* from the end of that run, and look at the calendar only when they run:  *)
(* Get_License_Task asks for a license from the configured day of the      *)
(* month on and for CHECK_DAYS days more, Process_Killer_Task verifies the *)
(* license on one day.  Time passes in parts of a day, the calendar has    *)
(* the lengths of real months.  A thread that cannot be created and the    *)
(* end of the process are left to LicenseAgent.                            *)
(***************************************************************************)
EXTENDS Naturals, Sequences

CONSTANTS
  DayParts,     \* parts of a day; DayParts of them are 24 hours
  MonthLengths, \* the days of each month (bounds the model)
  UpdateDays,   \* values of day_license_update tried (init() allows 1 to 31)
  CheckDays,    \* values of day_license_check tried (init() allows 1 to 31)
  MaxReloads    \* how often the configuration is loaded anew (bounds the model)

ASSUME CalendarAssumption ==
  /\ DayParts \in Nat \ {0}
  /\ MonthLengths \in Seq(28 .. 31) \ {<<>>}
  /\ UpdateDays \subseteq 1 .. 31 /\ CheckDays \subseteq 1 .. 31
  /\ MaxReloads \in Nat

CHECK_DAYS == 5

Tasks == {"get_license", "killer"}

Options == [update : UpdateDays, check : CheckDays, waiting : 1 .. DayParts]

NoTimer == DayParts + 1

VARIABLES
  month, day, part, \* the clock
  options,          \* day_license_update, day_license_check, next_day_waiting_hours
  timer,            \* per task, how long until its timer is due, or NoTimer
  run,              \* per task, its run: "none", "off", or "on" its day
  left              \* per task, how long its run may still take

\* History:
VARIABLES
  attempted,  \* an attempt to get a license began on an update day of this month
  verified,   \* the license was verified on the check day of this month
  whole,      \* options are what they were when this month began
  lost,       \* Get_License_Task has waited for nothing this month
  reloads     \* how often the configuration was loaded anew

clock == <<month, day, part>>
tasks == <<timer, run, left>>
history == <<attempted, verified, whole, lost>>
vars == <<clock, options, tasks, history, reloads>>

MonthLength == MonthLengths[month]

Init ==
  /\ month = 1 /\ day = 1 /\ part = 0
  /\ options \in Options
  /\ timer = [t \in Tasks |-> 0]
  /\ run = [t \in Tasks |-> "none"] /\ left = [t \in Tasks |-> 0]
  /\ attempted = FALSE /\ verified = FALSE /\ whole = TRUE /\ lost = FALSE
  /\ reloads = 0

-----------------------------------------------------------------------------
(* Time                                                                    *)

Due(t) == timer[t] = 0 \/ (run[t] # "none" /\ left[t] = 0)

LastPart == part = DayParts - 1
MonthEnds == LastPart /\ day = MonthLength

NextPart ==
  IF ~LastPart THEN part' = part + 1 /\ UNCHANGED <<month, day>>
  ELSE /\ part' = 0
       /\ IF day = MonthLength THEN month' = month + 1 /\ day' = 1
                               ELSE UNCHANGED month /\ day' = day + 1

\* Timers that are due come first, and so does the end of a run whose time is up.
Pass ==
  /\ \A t \in Tasks : ~Due(t)
  /\ MonthEnds => month < Len(MonthLengths)
  /\ NextPart
  /\ timer' = [t \in Tasks |-> IF timer[t] = NoTimer THEN NoTimer ELSE timer[t] - 1]
  /\ left' = [t \in Tasks |-> IF run[t] = "none" THEN 0 ELSE left[t] - 1]
  /\ IF MonthEnds
     THEN /\ attempted' = FALSE /\ verified' = FALSE /\ whole' = TRUE
          /\ lost' = (timer["get_license"] = NoTimer /\ run["get_license"] = "none")
     ELSE UNCHANGED history
  /\ UNCHANGED <<options, run, reloads>>

-----------------------------------------------------------------------------
(* The runs of the tasks                                                   *)

\* Variant: the one day only.
IsLicenseUpdateDay_One(d) == d = options.update

IsLicenseUpdateDay(d) == d \in options.update .. options.update + CHECK_DAYS

IsLicenseCheckDay(d) == d = options.check

\* A run begins with a look at the calendar and may last for a part of a day; while
\* the run before lasts, activate() starts none, and the timer is gone.
Begin(t, itsDay) ==
  /\ timer[t] = 0
  /\ timer' = [timer EXCEPT ![t] = NoTimer]
  /\ IF run[t] = "none"
     THEN /\ run' = [run EXCEPT ![t] = IF itsDay THEN "on" ELSE "off"]
          /\ left' = [left EXCEPT ![t] = 1]
     ELSE UNCHANGED <<run, left>>

AttemptToGetLicense ==
  /\ Begin("get_license", IsLicenseUpdateDay(day))
  /\ attempted' = (attempted \/ run'["get_license"] = "on")
  /\ UNCHANGED <<clock, options, verified, whole, lost, reloads>>

VerifyLicense ==
  /\ Begin("killer", IsLicenseCheckDay(day))
  /\ verified' = (verified \/ run'["killer"] = "on")
  /\ UNCHANGED <<clock, options, attempted, whole, lost, reloads>>

\* The end of a run that leaves a timer behind.
Schedule(t, time) ==
  /\ run[t] # "none"
  /\ run' = [run EXCEPT ![t] = "none"]
  /\ left' = [left EXCEPT ![t] = 0]
  /\ timer' = [timer EXCEPT ![t] = time]
  /\ UNCHANGED <<clock, options, history, reloads>>

\* Variant: the hours are taken for days.
WaitNextDay_Days(t) == Schedule(t, DayParts * options.waiting)

\* schedule_handle_timeout(next_day_waiting_secs())
WaitNextDay(t) == Schedule(t, options.waiting)

\* schedule_handle_timeout(next_try_get_license_secs()): an hour at most, in this part
\* of the day or in the next.
WaitNextTry ==
  /\ run["get_license"] = "on"
  /\ \E time \in {0, 1} : Schedule("get_license", time)

\* Nobody schedules a run after an http_exception.
Forget ==
  /\ run["get_license"] = "on"
  /\ run' = [run EXCEPT !["get_license"] = "none"]
  /\ left' = [left EXCEPT !["get_license"] = 0]
  /\ lost' = (lost \/ timer["get_license"] = NoTimer)
  /\ UNCHANGED <<clock, options, timer, attempted, verified, whole, reloads>>

\* reshedule_tasks(): new options, and a timer for both tasks that is due in five
\* seconds, maybe in the next part of the day.
Reload ==
  /\ reloads < MaxReloads
  /\ reloads' = reloads + 1
  /\ options' \in Options
  /\ \E soon \in {0, 1} : timer' = [t \in Tasks |-> soon]
  /\ whole' = FALSE
  /\ UNCHANGED <<clock, run, left, attempted, verified, lost>>

Next ==
  \/ Pass
  \/ AttemptToGetLicense
  \/ VerifyLicense
  \/ \E t \in Tasks : WaitNextDay(t)
  \/ WaitNextTry
  \/ Forget
  \/ Reload

Spec == Init /\ [][Next]_vars

-----------------------------------------------------------------------------
(* Properties                                                              *)

\* Every variable holds what its declaration says; the calendar has the day it is.
TypeOK ==
  /\ month \in DOMAIN MonthLengths /\ day \in 1 .. MonthLength
  /\ part \in 0 .. DayParts - 1
  /\ options \in Options
  /\ timer \in [Tasks -> 0 .. NoTimer]
  /\ run \in [Tasks -> {"none", "off", "on"}]
  /\ left \in [Tasks -> {0, 1}]
  /\ \A t \in Tasks : run[t] = "none" => left[t] = 0
  /\ attempted \in BOOLEAN /\ verified \in BOOLEAN
  /\ whole \in BOOLEAN /\ lost \in BOOLEAN
  /\ reloads \in 0 .. MaxReloads

\* However long the runs take and wherever the waits of a day drift, no month that
\* keeps its options ends without an attempt on an update day to get a license: unless the
\* task was lost, or the window begins on the last day of the month or after it.
UpdateWindowServed ==
  [][(month' # month /\ whole /\ ~lost) =>
       attempted \/ options.update >= MonthLength]_vars

\* The one check day is passed over only by a wait of a whole day, which a run of any
\* length before it makes longer than a day, or where the month has no such day.
CheckDayPassedOnlyByDrift ==
  [][(month' # month /\ whole) =>
       verified \/ options.waiting = DayParts \/ options.check > MonthLength]_vars

==============================================================================

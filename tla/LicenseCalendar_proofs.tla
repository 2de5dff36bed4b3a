------------------------- MODULE LicenseCalendar_proofs -------------------------
(***************************************************************************)
(* Theorems about LicenseCalendar, for every division of the day, every    *)
(* calendar, every set of configured days and any number of reloads.       *)
(***************************************************************************)
EXTENDS LicenseCalendar, TLAPS

LEMMA Lengths ==
  /\ DayParts \in Nat /\ DayParts >= 1
  /\ DOMAIN MonthLengths = 1 .. Len(MonthLengths)
  /\ Len(MonthLengths) \in Nat /\ Len(MonthLengths) >= 1
  /\ \A m \in DOMAIN MonthLengths : MonthLengths[m] \in 28 .. 31
<1>1. MonthLengths \in Seq(28 .. 31) /\ MonthLengths # <<>>
  BY CalendarAssumption
<1>2. Len(MonthLengths) \in Nat /\ DOMAIN MonthLengths = 1 .. Len(MonthLengths)
  BY <1>1
<1>3. Len(MonthLengths) # 0
  BY <1>1
<1>4. \A m \in 1 .. Len(MonthLengths) : MonthLengths[m] \in 28 .. 31
  BY <1>1
<1> QED
  BY <1>2, <1>3, <1>4, CalendarAssumption

LEMMA Configured ==
  ASSUME NEW o \in Options
  PROVE  o.update \in 1 .. 31 /\ o.check \in 1 .. 31 /\ o.waiting \in 1 .. DayParts
BY CalendarAssumption DEF Options

\* The clock stays in its calendar.
LEMMA ClockMoves ==
  ASSUME TypeOK, Pass
  PROVE  /\ month' \in DOMAIN MonthLengths /\ day' \in 1 .. MonthLengths[month']
         /\ part' \in 0 .. DayParts - 1
<1>1. month \in 1 .. Len(MonthLengths) /\ day \in 1 .. MonthLengths[month]
      /\ part \in 0 .. DayParts - 1 /\ MonthLengths[month] \in 28 .. 31
  BY Lengths DEF TypeOK, MonthLength
<1>2. CASE ~LastPart
  BY <1>1, <1>2, Lengths DEF Pass, NextPart, LastPart
<1>3. CASE LastPart /\ day # MonthLength
  BY <1>1, <1>3, Lengths DEF Pass, NextPart, LastPart, MonthLength
<1>4. CASE LastPart /\ day = MonthLength
  <2>1. month' = month + 1 /\ day' = 1 /\ part' = 0 /\ month < Len(MonthLengths)
    BY <1>4 DEF Pass, NextPart, MonthEnds
  <2>2. month' \in 1 .. Len(MonthLengths)
    BY <2>1, <1>1, Lengths
  <2>3. MonthLengths[month'] \in 28 .. 31
    BY <2>2, Lengths
  <2> QED
    BY <2>1, <2>2, <2>3, Lengths
<1> QED
  BY <1>2, <1>3, <1>4

-----------------------------------------------------------------------------

LEMMA TypeInit == Init => TypeOK
<1> SUFFICES ASSUME Init PROVE TypeOK
  OBVIOUS
<1>1. month \in DOMAIN MonthLengths /\ day \in 1 .. MonthLength
  BY Lengths DEF Init, MonthLength
<1>2. part \in 0 .. DayParts - 1 /\ 0 \in 0 .. NoTimer /\ reloads \in 0 .. MaxReloads
  BY Lengths, CalendarAssumption DEF Init, NoTimer
<1> QED
  BY <1>1, <1>2 DEF Init, TypeOK

LEMMA TypeStep == TypeOK /\ [Next]_vars => TypeOK'
<1> SUFFICES ASSUME TypeOK, [Next]_vars PROVE TypeOK'
  OBVIOUS
<1>0. UNCHANGED clock => /\ month' \in DOMAIN MonthLengths /\ day' \in 1 .. MonthLength'
                         /\ part' \in 0 .. DayParts - 1
  BY DEF TypeOK, clock, MonthLength
<1>1. CASE Pass
  <2>1. timer' \in [Tasks -> 0 .. NoTimer]
    <3>1. \A t \in Tasks : timer[t] # NoTimer => timer[t] - 1 \in 0 .. NoTimer
      BY <1>1, Lengths DEF TypeOK, Pass, Due, NoTimer
    <3>2. NoTimer \in 0 .. NoTimer
      BY Lengths DEF NoTimer
    <3> QED
      BY <1>1, <3>1, <3>2 DEF Pass
  <2>2. left' \in [Tasks -> {0, 1}]
    <3>1. \A t \in Tasks : run[t] # "none" => left[t] = 1
      BY <1>1 DEF TypeOK, Pass, Due
    <3> QED
      BY <1>1, <3>1 DEF Pass
  <2>3. \A t \in Tasks : run'[t] = "none" => left'[t] = 0
    BY <1>1 DEF Pass
  <2>4. attempted' \in BOOLEAN /\ verified' \in BOOLEAN
        /\ whole' \in BOOLEAN /\ lost' \in BOOLEAN
    BY <1>1 DEF Pass, TypeOK, history
  <2> QED
    BY <1>1, <2>1, <2>2, <2>3, <2>4, ClockMoves DEF Pass, TypeOK, MonthLength
<1>2. ASSUME NEW t \in Tasks, NEW b \in BOOLEAN, Begin(t, b)
      PROVE  /\ timer' \in [Tasks -> 0 .. NoTimer]
             /\ run' \in [Tasks -> {"none", "off", "on"}]
             /\ left' \in [Tasks -> {0, 1}]
             /\ \A u \in Tasks : run'[u] = "none" => left'[u] = 0
  <2>1. NoTimer \in 0 .. NoTimer
    BY Lengths DEF NoTimer
  <2> QED
    BY <1>2, <2>1 DEF Begin, TypeOK
<1>3. CASE AttemptToGetLicense
  <2>1. IsLicenseUpdateDay(day) \in BOOLEAN
    BY DEF IsLicenseUpdateDay
  <2>2. "get_license" \in Tasks
    BY DEF Tasks
  <2> QED
    BY <1>0, <1>2, <1>3, <2>1, <2>2 DEF AttemptToGetLicense, TypeOK
<1>4. CASE VerifyLicense
  <2>1. IsLicenseCheckDay(day) \in BOOLEAN
    BY DEF IsLicenseCheckDay
  <2>2. "killer" \in Tasks
    BY DEF Tasks
  <2> QED
    BY <1>0, <1>2, <1>4, <2>1, <2>2 DEF VerifyLicense, TypeOK
<1>5. ASSUME NEW t \in Tasks, NEW time \in 0 .. DayParts, Schedule(t, time)
      PROVE  TypeOK'
  <2>1. time \in 0 .. NoTimer
    BY Lengths DEF NoTimer
  <2> QED
    BY <1>0, <1>5, <2>1 DEF Schedule, TypeOK, history
<1>6. ASSUME NEW t \in Tasks, WaitNextDay(t)
      PROVE  TypeOK'
  <2>1. options.waiting \in 0 .. DayParts
    BY Configured, Lengths DEF TypeOK
  <2> QED
    BY <1>5, <1>6, <2>1 DEF WaitNextDay
<1>7. CASE WaitNextTry
  <2>1. {0, 1} \subseteq 0 .. DayParts /\ "get_license" \in Tasks
    BY Lengths DEF Tasks
  <2> QED
    BY <1>5, <1>7, <2>1 DEF WaitNextTry
<1>8. CASE Forget
  BY <1>0, <1>8 DEF Forget, TypeOK
<1>9. CASE Reload
  <2>1. {0, 1} \subseteq 0 .. NoTimer /\ reloads' \in 0 .. MaxReloads
    BY <1>9, Lengths, CalendarAssumption DEF NoTimer, Reload, TypeOK
  <2> QED
    BY <1>0, <1>9, <2>1 DEF Reload, TypeOK
<1>10. CASE UNCHANGED vars
  BY <1>0, <1>10 DEF vars, tasks, history, TypeOK, clock
<1> QED
  BY <1>1, <1>3, <1>4, <1>6, <1>7, <1>8, <1>9, <1>10 DEF Next

\* Every variable keeps its type, and it is always a day of the calendar.
THEOREM TypeCorrect == Spec => []TypeOK
BY TypeInit, TypeStep, PTL DEF Spec

-----------------------------------------------------------------------------

\* A task that works begins its next run, and one that waits its run, in n parts.
Within(t, n) ==
  IF run[t] # "none" THEN left[t] + options.waiting <= n ELSE timer[t] <= n

\* Process_Killer_Task always has a timer or a run that will leave one.
KillerWaits == timer["killer"] # NoTimer \/ run["killer"] # "none"

\* With waits shorter than a day it comes to its check day on time.
KillerOnTime ==
  whole /\ ~verified /\ options.waiting < DayParts =>
    /\ day <= options.check
    /\ day = options.check => Within("killer", DayParts - 1 - part)

KillerInv == TypeOK /\ KillerWaits /\ KillerOnTime

LEMMA KillerInvInit == Init => KillerInv
<1> SUFFICES ASSUME Init PROVE KillerInv
  OBVIOUS
<1>1. TypeOK
  BY TypeInit
<1>2. timer["killer"] = 0 /\ run["killer"] = "none"
  BY DEF Init, Tasks
<1>3. day = 1 /\ part = 0 /\ options.check \in 1 .. 31
  BY Configured DEF Init
<1> QED
  BY <1>1, <1>2, <1>3, Lengths DEF KillerInv, KillerWaits, KillerOnTime, Within, NoTimer

LEMMA KillerInvStep == TypeOK' /\ KillerInv /\ [Next]_vars => KillerInv'
<1> SUFFICES ASSUME TypeOK', KillerInv, [Next]_vars
             PROVE  KillerWaits' /\ KillerOnTime'
  BY DEF KillerInv
<1> USE DEF KillerInv
<1>1. /\ "killer" \in Tasks /\ "get_license" \in Tasks
      /\ options.check \in 1 .. 31 /\ options.waiting \in 1 .. DayParts
      /\ DayParts \in Nat /\ DayParts >= 1 /\ NoTimer = DayParts + 1
      /\ timer["killer"] \in 0 .. NoTimer /\ left["killer"] \in {0, 1}
      /\ part \in 0 .. DayParts - 1 /\ day \in 1 .. MonthLength
      /\ month \in DOMAIN MonthLengths /\ MonthLength \in 28 .. 31
  BY Configured, Lengths DEF TypeOK, Tasks, NoTimer, MonthLength
<1>2. UNCHANGED <<clock, options, verified, whole>> /\ UNCHANGED <<timer["killer"],
        run["killer"], left["killer"]>> => KillerWaits' /\ KillerOnTime'
  BY DEF KillerWaits, KillerOnTime, Within, clock
<1>3. CASE Pass
  <2>1. ~Due("killer") /\ UNCHANGED <<options, run>>
    BY <1>1, <1>3 DEF Pass
  <2>2. timer'["killer"] = IF timer["killer"] = NoTimer THEN NoTimer
                           ELSE timer["killer"] - 1
    BY <1>1, <1>3 DEF Pass
  <2>3. left'["killer"] = IF run["killer"] = "none" THEN 0 ELSE left["killer"] - 1
    BY <1>1, <1>3 DEF Pass
  <2>4. KillerWaits'
    BY <1>1, <2>1, <2>2 DEF KillerWaits
  <2>5. run["killer"] # "none" => left["killer"] = 1
    BY <1>1, <2>1 DEF Due
  <2>6. ASSUME part' = 0 PROVE Within("killer", DayParts - 1 - part)' \/ options.waiting = DayParts
    BY <1>1, <2>1, <2>2, <2>3, <2>4, <2>5, <2>6 DEF Within, KillerWaits
  <2>7. CASE ~LastPart
    <3>1. part' = part + 1 /\ day' = day /\ UNCHANGED <<whole, verified>>
      BY <1>3, <2>7 DEF Pass, NextPart, MonthEnds, history
    <3>2. Within("killer", DayParts - 1 - part) => Within("killer", DayParts - 1 - part)'
      BY <1>1, <2>1, <2>2, <2>3, <2>5, <3>1 DEF Within, Due
    <3> QED
      BY <2>1, <2>4, <3>1, <3>2 DEF KillerOnTime
  <2>8. CASE LastPart /\ day # MonthLength
    <3>1. part' = 0 /\ day' = day + 1 /\ UNCHANGED <<whole, verified>>
      BY <1>3, <2>8 DEF Pass, NextPart, MonthEnds, history
    <3>2. day = options.check => ~Within("killer", DayParts - 1 - part)
      BY <1>1, <2>1, <2>5, <2>8 DEF Within, Due, LastPart
    <3>3. whole /\ ~verified /\ options.waiting < DayParts => day < options.check
      BY <1>1, <3>2 DEF KillerOnTime
    <3> QED
      BY <1>1, <2>1, <2>4, <2>6, <3>1, <3>3 DEF KillerOnTime
  <2>9. CASE LastPart /\ day = MonthLength
    <3>1. part' = 0 /\ day' = 1
      BY <1>3, <2>9 DEF Pass, NextPart
    <3> QED
      BY <1>1, <2>1, <2>4, <2>6, <3>1 DEF KillerOnTime
  <2> QED
    BY <2>7, <2>8, <2>9
<1>4. CASE AttemptToGetLicense
  BY <1>1, <1>2, <1>4 DEF AttemptToGetLicense, Begin, TypeOK
<1>5. CASE VerifyLicense
  <2>1. /\ UNCHANGED <<clock, options, whole>>
        /\ timer["killer"] = 0 /\ timer'["killer"] = NoTimer
    BY <1>1, <1>5 DEF VerifyLicense, Begin, TypeOK
  <2>2. CASE run["killer"] # "none"
    <3>1. UNCHANGED <<run, left>>
      BY <1>5, <2>2 DEF VerifyLicense, Begin
    <3>2. verified' = FALSE => verified = FALSE
      BY <1>5, <3>1 DEF VerifyLicense, TypeOK
    <3> QED
      BY <2>1, <2>2, <3>1, <3>2 DEF KillerWaits, KillerOnTime, Within, clock, TypeOK
  <2>3. CASE run["killer"] = "none"
    <3>1. run'["killer"] = IF day = options.check THEN "on" ELSE "off"
      BY <1>1, <1>5, <2>3 DEF VerifyLicense, Begin, IsLicenseCheckDay, TypeOK
    <3>2. day = options.check => verified'
      BY <1>5, <3>1 DEF VerifyLicense
    <3>3. verified' = FALSE => verified = FALSE
      BY <1>5 DEF VerifyLicense, TypeOK
    <3> QED
      BY <1>1, <2>1, <3>1, <3>2, <3>3 DEF KillerWaits, KillerOnTime, clock, TypeOK
  <2> QED
    BY <2>2, <2>3
<1>6. ASSUME NEW t \in Tasks, WaitNextDay(t)
      PROVE  KillerWaits' /\ KillerOnTime'
  <2>1. CASE t = "killer"
    <3>1. /\ timer'["killer"] = options.waiting /\ run'["killer"] = "none"
          /\ run["killer"] # "none" /\ UNCHANGED <<clock, options, whole, verified>>
      BY <1>1, <1>6, <2>1 DEF WaitNextDay, Schedule, history, TypeOK
    <3>2. Within("killer", DayParts - 1 - part) => Within("killer", DayParts - 1 - part)'
      BY <1>1, <3>1 DEF Within, clock
    <3> QED
      BY <1>1, <3>1, <3>2 DEF KillerWaits, KillerOnTime, clock
  <2>2. CASE t # "killer"
    BY <1>1, <1>2, <1>6, <2>2 DEF WaitNextDay, Schedule, history, TypeOK
  <2> QED
    BY <2>1, <2>2
<1>7. CASE WaitNextTry
  BY <1>1, <1>2, <1>7 DEF WaitNextTry, Schedule, history, TypeOK
<1>8. CASE Forget
  BY <1>1, <1>2, <1>8 DEF Forget, TypeOK
<1>9. CASE Reload
  <2>1. timer'["killer"] \in {0, 1} /\ whole' = FALSE
    BY <1>1, <1>9 DEF Reload
  <2>2. KillerOnTime'
    BY <2>1 DEF KillerOnTime
  <2>3. KillerWaits'
    BY <1>1, <2>1 DEF KillerWaits, NoTimer
  <2> QED
    BY <2>2, <2>3
<1>10. CASE UNCHANGED vars
  BY <1>2, <1>10 DEF vars, tasks, history
<1> QED
  BY <1>3, <1>4, <1>5, <1>6, <1>7, <1>8, <1>9, <1>10 DEF Next

LEMMA KillerInvariant == Spec => []KillerInv
<1>1. TypeOK /\ [Next]_vars => TypeOK'
  BY TypeStep
<1>2. KillerInv => TypeOK
  BY DEF KillerInv
<1> QED
  BY <1>1, <1>2, KillerInvInit, KillerInvStep, PTL DEF Spec

\* With waits that are shorter than a day the check day of a month is never passed
\* over, whatever the length of the runs.
THEOREM CheckDayServed == Spec => CheckDayPassedOnlyByDrift
<1>1. KillerInv /\ [Next]_vars =>
        [(month' # month /\ whole) =>
           verified \/ options.waiting = DayParts \/ options.check > MonthLength]_vars
  <2> SUFFICES ASSUME KillerInv, Next, month' # month, whole, ~verified,
                      options.waiting # DayParts, ~(options.check > MonthLength)
               PROVE  FALSE
    OBVIOUS
  <2>1. /\ options.check \in 1 .. 31 /\ options.waiting \in 1 .. DayParts
        /\ DayParts \in Nat /\ DayParts >= 1 /\ "killer" \in Tasks
        /\ timer["killer"] \in 0 .. NoTimer /\ left["killer"] \in {0, 1}
        /\ day \in 1 .. MonthLength /\ MonthLength \in 28 .. 31
    BY Configured, Lengths DEF KillerInv, TypeOK, Tasks, MonthLength
  <2>2. Pass
    BY DEF Next, AttemptToGetLicense, VerifyLicense, WaitNextDay, WaitNextTry, Schedule,
           Forget, Reload, clock
  <2>3. LastPart /\ day = MonthLength /\ ~Due("killer")
    BY <2>1, <2>2 DEF Pass, NextPart
  <2>4. Within("killer", 0)
    BY <2>1, <2>3 DEF KillerInv, KillerOnTime, LastPart
  <2> QED
    BY <2>1, <2>3, <2>4 DEF Within, Due, NoTimer
<1> QED
  BY <1>1, KillerInvariant, PTL DEF Spec, CheckDayPassedOnlyByDrift

-----------------------------------------------------------------------------

\* Get_License_Task has a timer or a run, unless it was lost this month; while it
\* works only a reload sets its timer.
GetterWaits ==
  /\ lost \/ timer["get_license"] # NoTimer \/ run["get_license"] # "none"
  /\ run["get_license"] # "none" =>
       timer["get_license"] <= 1 \/ timer["get_license"] = NoTimer

\* It asks on the first update day or is about to when the second begins.
GetterOnTime ==
  whole /\ ~attempted /\ ~lost =>
    /\ day <= options.update + 1
    /\ day = options.update => Within("get_license", DayParts - part)
    /\ day = options.update + 1 =>
         part = 0 /\ run["get_license"] = "none" /\ timer["get_license"] = 0

GetterInv == TypeOK /\ GetterWaits /\ GetterOnTime

LEMMA GetterInvInit == Init => GetterInv
<1> SUFFICES ASSUME Init PROVE GetterInv
  OBVIOUS
<1>1. TypeOK
  BY TypeInit
<1>2. timer["get_license"] = 0 /\ run["get_license"] = "none"
  BY DEF Init, Tasks
<1>3. day = 1 /\ part = 0 /\ options.update \in 1 .. 31
  BY Configured DEF Init
<1>4. GetterWaits
  BY <1>2, Lengths DEF GetterWaits, NoTimer
<1>5. GetterOnTime
  <2>1. day <= options.update + 1 /\ day # options.update + 1
    BY <1>3
  <2>2. Within("get_license", DayParts - part)
    BY <1>2, <1>3, Lengths DEF Within
  <2> QED
    BY <2>1, <2>2 DEF GetterOnTime
<1> QED
  BY <1>1, <1>4, <1>5 DEF GetterInv

LEMMA GetterInvStep == TypeOK' /\ GetterInv /\ [Next]_vars => GetterInv'
<1> SUFFICES ASSUME TypeOK', GetterInv, [Next]_vars
             PROVE  GetterWaits' /\ GetterOnTime'
  BY DEF GetterInv
<1> USE DEF GetterInv
<1> DEFINE g == "get_license"
<1>1. /\ g \in Tasks /\ "killer" \in Tasks
      /\ options.update \in 1 .. 31 /\ options.waiting \in 1 .. DayParts
      /\ DayParts \in Nat /\ DayParts >= 1 /\ NoTimer = DayParts + 1
      /\ timer[g] \in 0 .. NoTimer /\ left[g] \in {0, 1}
      /\ part \in 0 .. DayParts - 1 /\ day \in 1 .. MonthLength
      /\ month \in DOMAIN MonthLengths /\ MonthLength \in 28 .. 31
  BY Configured, Lengths DEF TypeOK, Tasks, NoTimer, MonthLength
<1>2. UNCHANGED <<clock, options, attempted, whole, lost>>
        /\ UNCHANGED <<timer[g], run[g], left[g]>> => GetterWaits' /\ GetterOnTime'
  BY DEF GetterWaits, GetterOnTime, Within, clock
<1>3. CASE Pass
  <2>1. ~Due(g) /\ UNCHANGED <<options, run>>
    BY <1>1, <1>3 DEF Pass
  <2>2. timer'[g] = IF timer[g] = NoTimer THEN NoTimer ELSE timer[g] - 1
    BY <1>1, <1>3 DEF Pass
  <2>3. left'[g] = IF run[g] = "none" THEN 0 ELSE left[g] - 1
    BY <1>1, <1>3 DEF Pass
  <2>4. run[g] # "none" => left[g] = 1
    BY <1>1, <2>1 DEF Due
  <2>5. GetterWaits'
    <3>1. CASE MonthEnds
      <4>1. timer[g] = NoTimer /\ run[g] = "none" => lost'
        BY <1>1, <1>3, <3>1 DEF Pass
      <4> QED
        BY <1>1, <2>1, <2>2, <4>1 DEF GetterWaits
    <3>2. CASE ~MonthEnds
      <4>1. UNCHANGED lost
        BY <1>3, <3>2 DEF Pass, history
      <4> QED
        BY <1>1, <2>1, <2>2, <4>1 DEF GetterWaits
    <3> QED
      BY <3>1, <3>2
  <2>6. ASSUME part' = 0, ~lost' PROVE Within(g, DayParts - part)'
    BY <1>1, <2>1, <2>2, <2>3, <2>4, <2>5, <2>6 DEF Within, GetterWaits
  <2>7. CASE ~LastPart
    <3>1. part' = part + 1 /\ day' = day /\ UNCHANGED <<whole, attempted, lost>>
      BY <1>3, <2>7 DEF Pass, NextPart, MonthEnds, history
    <3>2. Within(g, DayParts - part) => Within(g, DayParts - part)'
      BY <1>1, <2>1, <2>2, <2>3, <2>4, <3>1 DEF Within, Due
    <3>3. whole /\ ~attempted /\ ~lost => day # options.update + 1
      BY <2>1 DEF GetterOnTime, Due
    <3> QED
      BY <2>1, <2>5, <3>1, <3>2, <3>3 DEF GetterOnTime
  <2>8. CASE LastPart /\ day # MonthLength
    <3>1. part' = 0 /\ day' = day + 1 /\ UNCHANGED <<whole, attempted, lost>>
      BY <1>3, <2>8 DEF Pass, NextPart, MonthEnds, history
    <3>2. whole /\ ~attempted /\ ~lost => day # options.update + 1
      BY <2>1 DEF GetterOnTime, Due
    <3>3. ASSUME whole, ~attempted, ~lost, day = options.update
          PROVE  run'[g] = "none" /\ timer'[g] = 0
      <4>1. Within(g, 1)
        BY <1>1, <2>8, <3>3 DEF GetterOnTime, LastPart
      <4>2. run[g] = "none"
        BY <1>1, <2>4, <4>1 DEF Within
      <4> QED
        BY <1>1, <2>1, <2>2, <4>1, <4>2 DEF Within, Due
    <3> QED
      BY <1>1, <2>1, <2>5, <2>6, <3>1, <3>2, <3>3 DEF GetterOnTime
  <2>9. CASE LastPart /\ day = MonthLength
    <3>1. part' = 0 /\ day' = 1
      BY <1>3, <2>9 DEF Pass, NextPart
    <3> QED
      BY <1>1, <2>1, <2>5, <2>6, <3>1 DEF GetterOnTime
  <2> QED
    BY <2>7, <2>8, <2>9
<1>4. CASE VerifyLicense
  BY <1>1, <1>2, <1>4 DEF VerifyLicense, Begin, TypeOK
<1>5. CASE AttemptToGetLicense
  <2>1. /\ UNCHANGED <<clock, options, whole, lost>>
        /\ timer[g] = 0 /\ timer'[g] = NoTimer
    BY <1>1, <1>5 DEF AttemptToGetLicense, Begin, TypeOK
  <2>2. CASE run[g] # "none"
    <3>1. UNCHANGED <<run, left>>
      BY <1>5, <2>2 DEF AttemptToGetLicense, Begin
    <3>2. attempted' = FALSE => attempted = FALSE
      BY <1>5, <3>1 DEF AttemptToGetLicense, TypeOK
    <3> QED
      BY <2>1, <2>2, <3>1, <3>2 DEF GetterWaits, GetterOnTime, Within, clock, TypeOK
  <2>3. CASE run[g] = "none"
    <3>1. run'[g] = IF IsLicenseUpdateDay(day) THEN "on" ELSE "off"
      BY <1>1, <1>5, <2>3 DEF AttemptToGetLicense, Begin, TypeOK
    <3>2. day = options.update \/ day = options.update + 1 => IsLicenseUpdateDay(day)
      BY <1>1 DEF IsLicenseUpdateDay, CHECK_DAYS
    <3>3. day = options.update \/ day = options.update + 1 => attempted'
      BY <1>5, <3>1, <3>2 DEF AttemptToGetLicense
    <3>4. attempted' = FALSE => attempted = FALSE
      BY <1>5 DEF AttemptToGetLicense, TypeOK
    <3> QED
      BY <1>1, <2>1, <3>1, <3>3, <3>4 DEF GetterWaits, GetterOnTime, clock, TypeOK
  <2> QED
    BY <2>2, <2>3
<1>6. ASSUME NEW time \in 0 .. DayParts, Schedule(g, time),
             time = options.waiting \/ time <= 1
      PROVE  GetterWaits' /\ GetterOnTime'
  <2>1. /\ timer'[g] = time /\ run'[g] = "none" /\ run[g] # "none"
        /\ UNCHANGED <<clock, options, whole, attempted, lost>>
    BY <1>1, <1>6 DEF Schedule, history, TypeOK
  <2>2. Within(g, DayParts - part) => Within(g, DayParts - part)'
    BY <1>1, <1>6, <2>1 DEF Within, clock
  <2> QED
    BY <1>1, <1>6, <2>1, <2>2 DEF GetterWaits, GetterOnTime, clock
<1>7. ASSUME NEW t \in Tasks, WaitNextDay(t)
      PROVE  GetterWaits' /\ GetterOnTime'
  <2>1. CASE t = g
    BY <1>1, <1>6, <1>7, <2>1 DEF WaitNextDay
  <2>2. CASE t # g
    BY <1>1, <1>2, <1>7, <2>2 DEF WaitNextDay, Schedule, history, TypeOK
  <2> QED
    BY <2>1, <2>2
<1>8. CASE WaitNextTry
  BY <1>1, <1>6, <1>8 DEF WaitNextTry
<1>9. CASE Forget
  <2>1. /\ UNCHANGED <<clock, options, whole, attempted, timer>>
        /\ run'[g] = "none" /\ run[g] # "none"
    BY <1>1, <1>9 DEF Forget, TypeOK
  <2>2. lost \/ timer[g] = NoTimer => lost'
    BY <1>9 DEF Forget
  <2>3. GetterWaits'
    BY <2>1, <2>2 DEF GetterWaits, NoTimer
  <2>4. ~lost' => timer[g] <= 1
    BY <1>1, <2>1, <2>2 DEF GetterWaits
  <2>5. GetterOnTime'
    BY <1>1, <2>1, <2>2, <2>4 DEF GetterOnTime, clock, Within
  <2> QED
    BY <2>3, <2>5
<1>10. CASE Reload
  <2>1. timer'[g] \in {0, 1} /\ whole' = FALSE
    BY <1>1, <1>10 DEF Reload
  <2>2. GetterOnTime'
    BY <2>1 DEF GetterOnTime
  <2>3. GetterWaits'
    BY <1>1, <2>1 DEF GetterWaits, NoTimer
  <2> QED
    BY <2>2, <2>3
<1>11. CASE UNCHANGED vars
  BY <1>2, <1>11 DEF vars, tasks, history
<1> QED
  BY <1>3, <1>4, <1>5, <1>7, <1>8, <1>9, <1>10, <1>11 DEF Next

LEMMA GetterInvariant == Spec => []GetterInv
<1>1. TypeOK /\ [Next]_vars => TypeOK'
  BY TypeStep
<1>2. GetterInv => TypeOK
  BY DEF GetterInv
<1> QED
  BY <1>1, <1>2, GetterInvInit, GetterInvStep, PTL DEF Spec

\* Wherever the waits drift, with a window of two days or more no month passes without
\* an attempt, unless the task was lost.
THEOREM WindowServed == Spec => UpdateWindowServed
<1>1. GetterInv /\ [Next]_vars =>
        [(month' # month /\ whole /\ ~lost) =>
           attempted \/ options.update >= MonthLength]_vars
  <2> SUFFICES ASSUME GetterInv, Next, month' # month, whole, ~lost, ~attempted,
                      ~(options.update >= MonthLength)
               PROVE  FALSE
    OBVIOUS
  <2>1. /\ options.update \in 1 .. 31 /\ "get_license" \in Tasks
        /\ day \in 1 .. MonthLength /\ MonthLength \in 28 .. 31
    BY Configured, Lengths DEF GetterInv, TypeOK, Tasks, MonthLength
  <2>2. Pass
    BY DEF Next, AttemptToGetLicense, VerifyLicense, WaitNextDay, WaitNextTry, Schedule,
           Forget, Reload, clock
  <2>3. day = MonthLength /\ ~Due("get_license")
    BY <2>1, <2>2 DEF Pass, NextPart
  <2>4. day = options.update + 1
    BY <2>1, <2>3 DEF GetterInv, GetterOnTime
  <2> QED
    BY <2>3, <2>4 DEF GetterInv, GetterOnTime, Due
<1> QED
  BY <1>1, GetterInvariant, PTL DEF Spec, UpdateWindowServed

==============================================================================

---------------------------- MODULE NtService_proofs ----------------------------
(***************************************************************************)
(* Theorems about NtService, for any number of edits and whether threads   *)
(* exit promptly or not.                                                   *)
(***************************************************************************)
EXTENDS NtService, TLAPS

LEMMA TypeInit == Init => TypeOK
<1> SUFFICES ASSUME Init PROVE TypeOK
  OBVIOUS
<1>1. file \in Content /\ options \in Content
  BY NtAssumption DEF Init, Content
<1> QED
  BY <1>1 DEF Init, TypeOK, Options, Stages

LEMMA TypeStart == TypeOK /\ Start => TypeOK'
<1> SUFFICES ASSUME TypeOK, Start PROVE TypeOK'
  OBVIOUS
<1> USE DEF TypeOK, Goto, handler, config, service
<1>1. CASE Run
  BY <1>1 DEF Run
<1>2. CASE Initialize
  <2>1. at' = "notificator" /\ options' = file /\ missed' = FALSE
    BY <1>2 DEF Initialize, Read
  <2>2. UNCHANGED <<process, asked, notificator, handled, registered, notified, ending,
                    handler, file, unwatched, stop>>
    BY <1>2 DEF Initialize
  <2>3. options' \in Content /\ missed' \in BOOLEAN
    BY <2>1
  <2>4. UNCHANGED <<reading, event, active, watcher, batch>>
    BY <2>2
  <2> QED
    BY <2>1, <2>2, <2>3, <2>4
<1>3. CASE InitializeFails
  BY <1>3 DEF InitializeFails
<1>4. CASE Notificator
  <2>1. PICK s \in Stages : notificator' = s /\ notified' = (notified \/ s # "registered")
    BY <1>4 DEF Notificator
  <2>2. notificator' \in Stages /\ notified' \in BOOLEAN
    BY <2>1
  <2> QED
    BY <1>4, <2>2 DEF Notificator
<1>5. CASE Handlers
  <2>1. handled' \in BOOLEAN /\ notified' \in BOOLEAN
    BY <1>5 DEF Handlers
  <2> QED
    BY <1>5, <2>1 DEF Handlers
<1>6. CASE Watch
  <2>1. /\ registered' \in BOOLEAN
        /\ watcher' \in {watcher, "none", "opening"}
        /\ unwatched' \in {unwatched, "unregistered", "thread", "busy"}
    BY <1>6 DEF Watch, Activate
  <2>2. at' = "loop"
    BY <1>6 DEF Watch
  <2>3. UNCHANGED <<process, asked, notificator, handled, notified, ending, reading,
                    event, active, batch, config, stop>>
    BY <1>6 DEF Watch
  <2>4. batch' # {} => watcher' \in {"listening", "processing"}
    BY <1>6, <2>3 DEF Watch, Activate
  <2> QED
    BY <2>1, <2>2, <2>3, <2>4
<1> QED
  BY <1>1, <1>2, <1>3, <1>4, <1>5, <1>6 DEF Start

LEMMA TypeWatcher == TypeOK /\ Watcher => TypeOK'
<1> SUFFICES ASSUME TypeOK, Watcher PROVE TypeOK'
  OBVIOUS
<1> USE DEF TypeOK, service, config
<1>1. CASE Listen
  BY <1>1 DEF Listen
<1>2. CASE CreateFileFails \/ ReadChangesFails
  BY <1>2 DEF CreateFileFails, ReadChangesFails
<1>3. CASE Wake
  BY <1>3 DEF Wake
<1>7. CASE WaitFails
  <2>1. missed' \in BOOLEAN
    BY <1>7, Zenon DEF WaitFails
  <2> QED
    BY <1>7, <2>1 DEF WaitFails
<1>4. CASE Processing
  <2>1. event' \in BOOLEAN /\ missed' \in BOOLEAN
    BY <1>4, Zenon DEF Processing
  <2> QED
    BY <1>4, <2>1 DEF Processing
<1>5. CASE Leave
  BY <1>5 DEF Leave
<1>6. CASE Exit
  BY <1>6 DEF Exit
<1> QED
  BY <1>1, <1>2, <1>3, <1>4, <1>5, <1>6, <1>7 DEF Watcher

LEMMA TypeLoop == TypeOK /\ Loop => TypeOK'
<1> SUFFICES ASSUME TypeOK, Loop PROVE TypeOK'
  OBVIOUS
<1> USE DEF TypeOK, service, handler, config
<1>1. CASE HandleSignal
  <2>1. event' \in BOOLEAN
    BY <1>1, Zenon DEF HandleSignal
  <2> QED
    BY <1>1, <2>1 DEF HandleSignal
<1>2. CASE Sleep
  <2>1. active' \in BOOLEAN
    BY <1>2, Zenon DEF Sleep
  <2> QED
    BY <1>2, <2>1 DEF Sleep
<1>3. CASE Reread
  BY <1>3 DEF Reread, Awake, Read, Goto, Activate
<1>4. CASE RereadFails
  <2>1. ending' \in BOOLEAN /\ process' \in {"running", "killed"}
    BY <1>4, Zenon DEF RereadFails, Awake
  <2> QED
    BY <1>4, <2>1 DEF RereadFails, Awake
<1>5. CASE HandleException
  <2>1. notified' \in BOOLEAN /\ ending' \in BOOLEAN
    BY <1>5, Zenon DEF HandleException
  <2> QED
    BY <1>5, <2>1 DEF HandleException
<1> QED
  BY <1>1, <1>2, <1>3, <1>4, <1>5 DEF Loop

LEMMA TypeEnd == TypeOK /\ End => TypeOK'
<1> SUFFICES ASSUME TypeOK, End PROVE TypeOK'
  OBVIOUS
<1> USE DEF TypeOK, handler, config, Goto
<1>1. CASE EndLoop
  BY <1>1 DEF EndLoop
<1>2. CASE Release
  BY <1>2 DEF Release
<1>3. CASE Return
  BY <1>3 DEF Return
<1> QED
  BY <1>1, <1>2, <1>3 DEF End

LEMMA ChangedType ==
  ASSUME TypeOK, NEW name \in {"own", "other"}, Changed(name),
         UNCHANGED watcher
  PROVE  /\ batch' \subseteq {"own", "other"} /\ missed' \in BOOLEAN
         /\ batch' # {} => watcher' \in {"listening", "processing"}
<1>1. PICK seen \in BOOLEAN :
        /\ seen => watcher = "listening"
        /\ batch' = IF seen THEN batch \cup {name} ELSE batch
        /\ missed' = (missed \/ (~seen /\ name = "own" /\ ~WillLook))
  BY DEF Changed
<1> QED
  BY <1>1 DEF TypeOK

LEMMA TypeOthers == TypeOK /\ Others => TypeOK'
<1> SUFFICES ASSUME TypeOK, Others PROVE TypeOK'
  OBVIOUS
<1>1. CASE HandleControl
  BY <1>1 DEF HandleControl, TypeOK, handler, config
<1>2. CASE BeginEdit
  <2>1. PICK n \in 0 .. MaxEdits : n = file.version
    BY DEF TypeOK, Content
  <2>2. n + 1 \in 0 .. MaxEdits
    BY <1>2, <2>1, NtAssumption DEF BeginEdit
  <2>3. file' = [version |-> n + 1, whole |-> FALSE]
    BY <1>2, <2>1 DEF BeginEdit
  <2>4. file' \in Content
    BY <2>2, <2>3, Zenon DEF Content
  <2>5. /\ batch' \subseteq {"own", "other"} /\ missed' \in BOOLEAN
        /\ batch' # {} => watcher' \in {"listening", "processing"}
    BY <1>2, ChangedType DEF BeginEdit
  <2> QED
    BY <1>2, <2>4, <2>5 DEF BeginEdit, TypeOK, service
<1>3. CASE EndEdit
  <2>1. file' \in Content
    BY <1>3 DEF EndEdit, TypeOK, Content
  <2>2. /\ batch' \subseteq {"own", "other"} /\ missed' \in BOOLEAN
        /\ batch' # {} => watcher' \in {"listening", "processing"}
    BY <1>3, ChangedType DEF EndEdit
  <2> QED
    BY <1>3, <2>1, <2>2 DEF EndEdit, TypeOK, service
<1>4. CASE TouchOther
  <2>1. /\ batch' \subseteq {"own", "other"} /\ missed' \in BOOLEAN
        /\ batch' # {} => watcher' \in {"listening", "processing"}
    BY <1>4, ChangedType DEF TouchOther
  <2> QED
    BY <1>4, <2>1 DEF TouchOther, TypeOK, service
<1> QED
  BY <1>1, <1>2, <1>3, <1>4 DEF Others

LEMMA TypeStep == TypeOK /\ [Next]_vars => TypeOK'
<1> SUFFICES ASSUME TypeOK, [Next]_vars PROVE TypeOK'
  OBVIOUS
<1>1. CASE Next
  BY <1>1, TypeStart, TypeWatcher, TypeLoop, TypeEnd, TypeOthers DEF Next
<1>2. CASE UNCHANGED vars
  BY <1>2 DEF TypeOK, vars, service, handler, config
<1> QED
  BY <1>1, <1>2

\* Every variable keeps its type, and changes are waited for only by a watcher that
\* listens to them or looks through them.
THEOREM TypeCorrect == Spec => []TypeOK
<1>1. Init => TypeOK
  BY TypeInit
<1>2. TypeOK /\ [Next]_vars => TypeOK'
  BY TypeStep
<1> QED
  BY <1>1, <1>2, PTL DEF Spec

-----------------------------------------------------------------------------
(* The hand-over between the watcher and the reactor's thread              *)

\* The file is read again only by a loop that goes on, and there is no watcher before
\* the loop.
ReaderInLoop == reading # "no" => at = "loop" /\ ~ending

NoneBeforeLoop ==
  at \in {"run", "init", "notificator", "handlers", "watch"} =>
    watcher = "none" /\ ~ending /\ ~registered

\* Where the reactor has no handler for the event, that is known for the cause.
UnheardKnown == at = "loop" /\ ~registered => unwatched # "no"

\* In the loop one of the two has the turn: the watcher, as long as it is to look at
\* changes, or the reactor's thread, which is told by the event and then reads.
TurnKept ==
  Running =>
    \/ watcher \in {"opening", "listening", "processing"}
    \/ Told \/ reading # "no"
    \/ unwatched # "no"

NotBusy == PromptExit => unwatched # "busy"

HandOver ==
  ReaderInLoop /\ NoneBeforeLoop /\ UnheardKnown /\ TurnKept /\ NotBusy

LEMMA HandOverInit == Init => HandOver
BY DEF Init, HandOver, ReaderInLoop, NoneBeforeLoop, UnheardKnown, TurnKept, NotBusy,
       Running

LEMMA HandOverStep == TypeOK /\ HandOver /\ [Next]_vars => HandOver'
<1> SUFFICES ASSUME TypeOK, HandOver, [Next]_vars PROVE HandOver'
  OBVIOUS
<1> USE DEF HandOver, ReaderInLoop, NoneBeforeLoop, UnheardKnown, TurnKept, NotBusy,
            Running, Told, TypeOK, service, handler, config, Goto, InLoop
<1>1. CASE Run
  BY <1>1 DEF Run
<1>2. CASE Initialize
  BY <1>2 DEF Initialize, Read
<1>3. CASE InitializeFails
  BY <1>3 DEF InitializeFails
<1>4. CASE Notificator
  BY <1>4 DEF Notificator
<1>5. CASE Handlers
  BY <1>5 DEF Handlers
<1>6. CASE Watch
  BY <1>6 DEF Watch, Activate
<1>7. CASE Listen \/ Wake
  BY <1>7 DEF Listen, Wake
<1>21. CASE CreateFileFails \/ ReadChangesFails \/ WaitFails
  BY <1>21 DEF CreateFileFails, ReadChangesFails, WaitFails
<1>8. CASE Processing
  BY <1>8 DEF Processing
<1>9. CASE Leave \/ Exit
  BY <1>9 DEF Leave, Exit
<1>10. CASE HandleSignal \/ Sleep
  BY <1>10 DEF HandleSignal, Sleep
<1>11. CASE Reread
  BY <1>11 DEF Reread, Awake, Read, Activate
<1>12. CASE RereadFails
  BY <1>12 DEF RereadFails, Awake
<1>13. CASE HandleException
  BY <1>13 DEF HandleException
<1>14. CASE EndLoop
  BY <1>14 DEF EndLoop
<1>15. CASE Release \/ Return
  BY <1>15 DEF Release, Return
<1>16. CASE HandleControl
  BY <1>16 DEF HandleControl
<1>17. CASE BeginEdit \/ EndEdit \/ TouchOther
  BY <1>17 DEF BeginEdit, EndEdit, TouchOther
<1>18. CASE UNCHANGED vars
  BY <1>18 DEF vars
<1> QED
  BY <1>1, <1>2, <1>3, <1>4, <1>5, <1>6, <1>7, <1>8, <1>9, <1>10, <1>11, <1>12,
     <1>13, <1>14, <1>15, <1>16, <1>17, <1>18, <1>21
     DEF Next, Start, Watcher, Loop, End, Others

LEMMA HandOverKept == Spec => []HandOver
<1>1. Init => HandOver
  BY HandOverInit
<1>2. TypeOK /\ HandOver /\ [Next]_vars => HandOver'
  BY HandOverStep
<1> QED
  BY <1>1, <1>2, TypeCorrect, PTL DEF Spec

\* In the loop the watcher of Windows comes back after every change of the
\* configuration, or the reactor has the event that makes it come back, unless one of
\* the calls failed that nobody looks at or that it gives up upon, or its last thread
\* was still there; with threads that exit promptly the latter cannot be.
THEOREM WatcherBack == Spec => []WatcherComesBack
<1>1. TypeOK /\ HandOver => WatcherComesBack
  BY DEF HandOver, TurnKept, NotBusy, WatcherComesBack
<1> QED
  BY <1>1, HandOverKept, TypeCorrect, PTL

-----------------------------------------------------------------------------
(* Changes of the configuration                                            *)

\* EditSeenOrMissed, from the start of the process on.
Owed ==
  process = "running" /\ ~ending /\ options # file /\ ~missed =>
    at = "init" \/ Told \/ reading # "no" \/ "own" \in batch

LEMMA OwedInit == Init => Owed
BY DEF Init, Owed

\* A change that nobody is to look at is a missed one.
LEMMA ChangeOwed ==
  ASSUME TypeOK, Changed("own"), UNCHANGED <<at, event, registered, reading>>
  PROVE  missed' \/ at' = "init" \/ Told' \/ reading' # "no" \/ "own" \in batch'
BY DEF Changed, WillLook, Told, TypeOK

LEMMA OwedStep == TypeOK /\ HandOver /\ Owed /\ [Next]_vars => Owed'
<1> SUFFICES ASSUME TypeOK, HandOver, Owed, [Next]_vars PROVE Owed'
  OBVIOUS
<1> USE DEF Owed, Told, service, handler, config, Goto, InLoop
<1>1. CASE Run
  BY <1>1 DEF Run
<1>2. CASE Initialize
  BY <1>2 DEF Initialize, Read
<1>3. CASE InitializeFails
  BY <1>3 DEF InitializeFails
<1>4. CASE Notificator
  BY <1>4 DEF Notificator
<1>5. CASE Handlers
  BY <1>5 DEF Handlers
<1>6. CASE Watch
  BY <1>6 DEF Watch, HandOver, NoneBeforeLoop
<1>7. CASE Listen \/ Wake
  BY <1>7 DEF Listen, Wake
<1>21. CASE CreateFileFails \/ ReadChangesFails \/ WaitFails
  BY <1>21 DEF CreateFileFails, ReadChangesFails, WaitFails
<1>8. CASE Processing
  BY <1>8 DEF Processing
<1>9. CASE Leave \/ Exit
  BY <1>9 DEF Leave, Exit
<1>10. CASE HandleSignal \/ Sleep
  BY <1>10 DEF HandleSignal, Sleep
<1>11. CASE Reread
  BY <1>11 DEF Reread, Awake, Read
<1>12. CASE RereadFails
  BY <1>12 DEF RereadFails, Awake
<1>13. CASE HandleException
  BY <1>13 DEF HandleException
<1>14. CASE EndLoop
  BY <1>14 DEF EndLoop
<1>15. CASE Release \/ Return
  BY <1>15 DEF Release, Return
<1>16. CASE HandleControl
  BY <1>16 DEF HandleControl
<1>17. CASE BeginEdit
  BY <1>17, ChangeOwed DEF BeginEdit
<1>18. CASE EndEdit
  BY <1>18, ChangeOwed DEF EndEdit
<1>19. CASE TouchOther
  <2>1. "own" \in batch => "own" \in batch'
    BY <1>19 DEF TouchOther, Changed
  <2>2. missed => missed'
    BY <1>19 DEF TouchOther, Changed
  <2> QED
    BY <1>19, <2>1, <2>2 DEF TouchOther
<1>20. CASE UNCHANGED vars
  BY <1>20 DEF vars
<1> QED
  BY <1>1, <1>2, <1>3, <1>4, <1>5, <1>6, <1>7, <1>8, <1>9, <1>10, <1>11, <1>12,
     <1>13, <1>14, <1>15, <1>16, <1>17, <1>18, <1>19, <1>20, <1>21
     DEF Next, Start, Watcher, Loop, End, Others

\* PARSER of the Windows service differs from the file only while a change of it is on
\* its way, or when a change came while nobody was to look at it.
THEOREM EditsKept == Spec => []EditSeenOrMissed
<1>1. Owed => EditSeenOrMissed
  BY DEF Owed, EditSeenOrMissed, Running
<1>2. Init => Owed
  BY OwedInit
<1>3. TypeOK /\ HandOver /\ Owed /\ [Next]_vars => Owed'
  BY OwedStep
<1> QED
  BY <1>1, <1>2, <1>3, TypeCorrect, HandOverKept, PTL DEF Spec

==============================================================================

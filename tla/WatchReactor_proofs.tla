-------------------------- MODULE WatchReactor_proofs --------------------------
(***************************************************************************)
(* Theorems about WatchReactor, for any number of edits, openings and      *)
(* queued events.                                                          *)
(***************************************************************************)
EXTENDS WatchReactor, TLAPS

\* What an event does to a queue: it is the last one there afterwards, and the
\* queue stays within its bound.
LEMMA EnqueueEffect ==
  ASSUME NEW h \in Handlers, NEW e \in Event,
         queue \in [Handlers -> Seq(Event)],
         \A g \in Handlers : Len(queue[g]) <= MaxQueue,
         Enqueue(h, e)
  PROVE  /\ queue' \in [Handlers -> Seq(Event)]
         /\ \A g \in Handlers : Len(queue'[g]) <= MaxQueue
         /\ e = "own" => Queued(h)'
         /\ \A g \in Handlers : Queued(g) => Queued(g)'
<1> DEFINE q == queue[h]
<1>0. q \in Seq(Event) /\ Len(q) \in Nat /\ MaxQueue \in Nat
  BY WatchAssumption
<1>1. CASE q # <<>> /\ q[Len(q)] = e
  <2>1. queue' = queue
    BY <1>1 DEF Enqueue
  <2>2. Len(q) \in 1 .. Len(q)
    BY <1>0, <1>1
  <2> QED
    BY <1>1, <2>1, <2>2 DEF Queued
<1>2. CASE ~(q # <<>> /\ q[Len(q)] = e)
  <2>1. Len(q) < MaxQueue /\ queue' = [queue EXCEPT ![h] = Append(q, e)]
    BY <1>2 DEF Enqueue
  <2>2. /\ Append(q, e) \in Seq(Event)
        /\ Len(Append(q, e)) = Len(q) + 1
        /\ Append(q, e)[Len(q) + 1] = e
        /\ \A i \in 1 .. Len(q) : Append(q, e)[i] = q[i]
    BY <1>0
  <2>3. queue'[h] = Append(q, e) /\ \A g \in Handlers \ {h} : queue'[g] = queue[g]
    BY <2>1
  <2>4. Len(q) + 1 \in 1 .. Len(Append(q, e))
    BY <1>0, <2>2
  <2>5. ASSUME Queued(h) PROVE Queued(h)'
    BY <1>0, <2>2, <2>3, <2>5 DEF Queued
  <2>6. e = "own" => Queued(h)'
    BY <2>2, <2>3, <2>4 DEF Queued
  <2>7. \A g \in Handlers \ {h} : Queued(g) => Queued(g)'
    BY <2>3 DEF Queued
  <2>8. queue' \in [Handlers -> Seq(Event)]
    BY <2>1, <2>2
  <2>9. \A g \in Handlers : Len(queue'[g]) <= MaxQueue
    BY <1>0, <2>1, <2>2, <2>3
  <2> QED
    BY <2>5, <2>6, <2>7, <2>8, <2>9
<1> QED
  BY <1>1, <1>2

\* What reading does: one handler's queue is empty, the others' are as before.
LEMMA ReadEffect ==
  ASSUME NEW h \in Handlers,
         queue \in [Handlers -> Seq(Event)],
         \A g \in Handlers : Len(queue[g]) <= MaxQueue,
         Read(h)
  PROVE  /\ queue' \in [Handlers -> Seq(Event)]
         /\ \A g \in Handlers : Len(queue'[g]) <= MaxQueue
         /\ \A g \in Handlers \ {h} : Queued(g) => Queued(g)'
<1>1. queue' = [queue EXCEPT ![h] = <<>>]
  BY DEF Read
<1>2. <<>> \in Seq(Event) /\ Len(<<>>) = 0
  OBVIOUS
<1>3. MaxQueue \in Nat
  BY WatchAssumption
<1> QED
  BY <1>1, <1>2, <1>3 DEF Queued

-----------------------------------------------------------------------------

\* Every variable keeps its type, whatever comes in and is let go.
THEOREM TypeCorrect == Spec => []TypeOK
<1>1. Init => TypeOK
  <2> SUFFICES ASSUME Init PROVE TypeOK
    OBVIOUS
  <2>1. MaxEdits \in Nat /\ MaxOpens \in Nat /\ MaxQueue \in Nat
    BY WatchAssumption
  <2>2. file \in Content /\ options \in Content
    BY <2>1 DEF Init, Content
  <2>3. /\ queue \in [Handlers -> Seq(Event)]
        /\ \A h \in Handlers : Len(queue[h]) <= MaxQueue
    BY <2>1 DEF Init
  <2>4. opens \in 0 .. MaxOpens /\ served \in 0 .. MaxOpens
    BY <2>1 DEF Init
  <2>5. /\ iterations \in [Handlers -> 0 .. 2]
        /\ missed \in [Handlers -> {"no", "behind", "third", "busy", "failed"}]
    BY DEF Init
  <2>6. /\ thread \in {"waiting", "sleeping"}
        /\ service \in {"running", "stopping", "stopped"}
        /\ worker \in BOOLEAN /\ early \in BOOLEAN /\ overlap \in BOOLEAN
    BY DEF Init
  <2> QED
    BY <2>2, <2>3, <2>4, <2>5, <2>6 DEF TypeOK
<1>2. TypeOK /\ [Next]_vars => TypeOK'
  <2> SUFFICES ASSUME TypeOK, [Next]_vars
               PROVE  TypeOK'
    OBVIOUS
  <2> USE WatchAssumption DEF TypeOK, Handlers, Event
  <2>1. CASE BeginEdit
    <3>1. Enqueue("config", "own")
      BY <2>1 DEF BeginEdit, Notify
    <3>2. /\ queue' \in [Handlers -> Seq(Event)]
          /\ \A g \in Handlers : Len(queue'[g]) <= MaxQueue
      BY <3>1, EnqueueEffect
    <3>3. file' \in Content
      BY <2>1 DEF BeginEdit, Content
    <3> QED
      BY <2>1, <3>2, <3>3 DEF BeginEdit, Notify
  <2>2. CASE EndEdit
    <3>1. Enqueue("config", "own")
      BY <2>2 DEF EndEdit, Notify
    <3>2. /\ queue' \in [Handlers -> Seq(Event)]
          /\ \A g \in Handlers : Len(queue'[g]) <= MaxQueue
      BY <3>1, EnqueueEffect
    <3>3. file' \in Content
      BY <2>2 DEF EndEdit, Content
    <3> QED
      BY <2>2, <3>2, <3>3 DEF EndEdit, Notify
  <2>3. CASE Open
    <3>1. Enqueue("exec", "own")
      BY <2>3 DEF Open, Notify
    <3>2. /\ queue' \in [Handlers -> Seq(Event)]
          /\ \A g \in Handlers : Len(queue'[g]) <= MaxQueue
      BY <3>1, EnqueueEffect
    <3> QED
      BY <2>3, <3>2 DEF Open, Notify
  <2>4. ASSUME NEW h \in Handlers, TouchOther(h)
        PROVE  TypeOK'
    BY <2>4, EnqueueEffect DEF TouchOther
  <2>5. ASSUME NEW h \in Handlers, IgnoreOther(h)
        PROVE  TypeOK'
    BY <2>5, ReadEffect DEF IgnoreOther
  <2>6. ASSUME NEW h \in Handlers, DropThird(h)
        PROVE  TypeOK'
    BY <2>6, ReadEffect DEF DropThird
  <2>7. CASE FallAsleep
    BY <2>7, ReadEffect DEF FallAsleep, Accept, Content
  <2>8. CASE StartWorker
    BY <2>8, ReadEffect DEF StartWorker, Accept
  <2>9. CASE WorkerBusy \/ WorkerFails
    BY <2>9, ReadEffect DEF WorkerBusy, WorkerFails, Accept
  <2>10. CASE ParserInit \/ ParserInitFails \/ WorkerEnds \/ EndLoop
    BY <2>10 DEF ParserInit, ParserInitFails, WorkerEnds, EndLoop
  <2>11. CASE UNCHANGED vars
    BY <2>11 DEF vars
  <2> QED
    BY <2>1, <2>2, <2>3, <2>4, <2>5, <2>6, <2>7, <2>8, <2>9, <2>10, <2>11
       DEF Next, HandleInput
<1> QED
  BY <1>1, <1>2, PTL DEF Spec

-----------------------------------------------------------------------------

\* No edit is lost but by the two filters of handle_input().
THEOREM EditsKept == Spec => []EditSeenOrMissed
<1>1. Init => EditSeenOrMissed
  BY DEF Init, EditSeenOrMissed
<1>2. TypeOK /\ EditSeenOrMissed /\ [Next]_vars => EditSeenOrMissed'
  <2> SUFFICES ASSUME TypeOK, EditSeenOrMissed, [Next]_vars
               PROVE  EditSeenOrMissed'
    OBVIOUS
  <2> USE DEF TypeOK, EditSeenOrMissed, Handlers, Event
  <2>1. CASE BeginEdit \/ EndEdit
    <3>1. Enqueue("config", "own")
      BY <2>1 DEF BeginEdit, EndEdit, Notify
    <3>2. Queued("config")'
      BY <3>1, EnqueueEffect
    <3> QED
      BY <3>2
  <2>2. CASE Open
    <3>1. Enqueue("exec", "own")
      BY <2>2 DEF Open, Notify
    <3>2. Queued("config") => Queued("config")'
      BY <3>1, EnqueueEffect
    <3> QED
      BY <2>2, <3>2 DEF Open, Notify
  <2>3. ASSUME NEW h \in Handlers, TouchOther(h)
        PROVE  EditSeenOrMissed'
    <3>1. Queued("config") => Queued("config")'
      BY <2>3, EnqueueEffect DEF TouchOther
    <3> QED
      BY <2>3, <3>1 DEF TouchOther
  <2>4. CASE IgnoreOther("config")
    <3>1. CASE Len(queue["config"]) > 1
      BY <2>4, <3>1 DEF IgnoreOther
    <3>2. CASE ~(Len(queue["config"]) > 1)
      <4>1. ~Queued("config")
        BY <2>4, <3>2 DEF IgnoreOther, Queued
      <4> QED
        BY <2>4, <3>2, <4>1 DEF IgnoreOther, Read
    <3> QED
      BY <3>1, <3>2
  <2>5. CASE DropThird("config")
    BY <2>5 DEF DropThird
  <2>6. CASE FallAsleep
    BY <2>6 DEF FallAsleep
  <2>7. CASE \/ IgnoreOther("exec") \/ DropThird("exec")
             \/ StartWorker \/ WorkerBusy \/ WorkerFails
    <3> USE DEF IgnoreOther, DropThird, StartWorker, WorkerBusy, WorkerFails
    <3>1. Read("exec")
      BY <2>7 DEF Accept
    <3>2. Queued("config") => Queued("config")'
      BY <3>1, ReadEffect
    <3>3. missed'["config"] = missed["config"]
      BY <2>7
    <3> QED
      BY <2>7, <3>2, <3>3
  <2>8. CASE ParserInit \/ ParserInitFails
    BY <2>8 DEF ParserInit, ParserInitFails
  <2>9. CASE WorkerEnds \/ EndLoop \/ UNCHANGED vars
    BY <2>9 DEF WorkerEnds, EndLoop, vars, Queued
  <2> QED
    BY <2>1, <2>2, <2>3, <2>4, <2>5, <2>6, <2>7, <2>8, <2>9 DEF Next, HandleInput
<1> QED
  BY <1>1, <1>2, TypeCorrect, PTL DEF Spec

\* No opening of the VPN program is lost but by the filters, a busy worker or
\* the lack of a thread.
THEOREM OpeningsKept == Spec => []OpeningServedOrMissed
<1>1. Init => OpeningServedOrMissed
  BY DEF Init, OpeningServedOrMissed
<1>2. TypeOK /\ OpeningServedOrMissed /\ [Next]_vars => OpeningServedOrMissed'
  <2> SUFFICES ASSUME TypeOK, OpeningServedOrMissed, [Next]_vars
               PROVE  OpeningServedOrMissed'
    OBVIOUS
  <2> USE DEF TypeOK, OpeningServedOrMissed, Handlers, Event
  <2>1. CASE Open
    <3>1. Enqueue("exec", "own")
      BY <2>1 DEF Open, Notify
    <3> QED
      BY <3>1, EnqueueEffect
  <2>2. CASE BeginEdit \/ EndEdit
    <3>1. Enqueue("config", "own")
      BY <2>2 DEF BeginEdit, EndEdit, Notify
    <3>2. Queued("exec") => Queued("exec")'
      BY <3>1, EnqueueEffect
    <3> QED
      BY <2>2, <3>2 DEF BeginEdit, EndEdit, Notify
  <2>3. ASSUME NEW h \in Handlers, TouchOther(h)
        PROVE  OpeningServedOrMissed'
    <3>1. Queued("exec") => Queued("exec")'
      BY <2>3, EnqueueEffect DEF TouchOther
    <3> QED
      BY <2>3, <3>1 DEF TouchOther
  <2>4. CASE IgnoreOther("exec")
    <3>1. CASE Len(queue["exec"]) > 1
      BY <2>4, <3>1 DEF IgnoreOther
    <3>2. CASE ~(Len(queue["exec"]) > 1)
      <4>1. ~Queued("exec")
        BY <2>4, <3>2 DEF IgnoreOther, Queued
      <4> QED
        BY <2>4, <3>2, <4>1 DEF IgnoreOther, Read
    <3> QED
      BY <3>1, <3>2
  <2>5. CASE DropThird("exec") \/ WorkerBusy \/ WorkerFails \/ StartWorker
    BY <2>5 DEF DropThird, WorkerBusy, WorkerFails, StartWorker
  <2>6. CASE IgnoreOther("config") \/ DropThird("config") \/ FallAsleep
    <3>1. Read("config")
      BY <2>6 DEF IgnoreOther, DropThird, FallAsleep, Accept
    <3>2. Queued("exec") => Queued("exec")'
      BY <3>1, ReadEffect
    <3>3. missed'["exec"] = missed["exec"]
      BY <2>6 DEF IgnoreOther, DropThird, FallAsleep
    <3> QED
      BY <2>6, <3>2, <3>3 DEF IgnoreOther, DropThird, FallAsleep
  <2>7. CASE \/ ParserInit \/ ParserInitFails \/ WorkerEnds \/ EndLoop
             \/ UNCHANGED vars
    BY <2>7 DEF ParserInit, ParserInitFails, WorkerEnds, EndLoop, vars, Queued
  <2> QED
    BY <2>1, <2>2, <2>3, <2>4, <2>5, <2>6, <2>7 DEF Next, HandleInput
<1> QED
  BY <1>1, <1>2, TypeCorrect, PTL DEF Spec

-----------------------------------------------------------------------------

\* A part of a file that the handler may come to read is there because of an edit
\* that was going on before the sleep, which the sleep outlasts, or that began in it.
PartExplained ==
  thread = "sleeping" /\ ~file.whole => early \/ overlap

\* A single edit by a prompt editor never ends the service.
THEOREM OneEditIsSafe == PromptEditor => (Spec => []StoppedOnlyByOverlap)
<1> SUFFICES ASSUME PromptEditor
             PROVE  Spec => []StoppedOnlyByOverlap
  OBVIOUS
<1> DEFINE IInv == StoppedOnlyByOverlap /\ PartExplained
<1> USE DEF StoppedOnlyByOverlap, PartExplained
<1>1. Init => IInv
  BY DEF Init
<1>2. TypeOK /\ IInv /\ [Next]_vars => IInv'
  <2> SUFFICES ASSUME TypeOK, IInv, [Next]_vars
               PROVE  IInv'
    OBVIOUS
  <2> USE DEF TypeOK
  <2>1. CASE BeginEdit
    BY <2>1 DEF BeginEdit
  <2>2. CASE EndEdit
    <3>1. file'.whole
      BY <2>2 DEF EndEdit, Content
    <3> QED
      BY <2>2, <3>1 DEF EndEdit
  <2>3. CASE Open
    BY <2>3 DEF Open
  <2>4. ASSUME NEW h \in Handlers,
               TouchOther(h) \/ IgnoreOther(h) \/ DropThird(h)
        PROVE  IInv'
    BY <2>4 DEF TouchOther, IgnoreOther, DropThird
  <2>5. CASE FallAsleep
    BY <2>5 DEF FallAsleep
  <2>6. CASE StartWorker \/ WorkerBusy \/ WorkerFails \/ WorkerEnds
    BY <2>6 DEF StartWorker, WorkerBusy, WorkerFails, WorkerEnds
  <2>7. CASE ParserInit
    BY <2>7 DEF ParserInit
  <2>8. CASE ParserInitFails
    BY <2>8 DEF ParserInitFails, Awake
  <2>9. CASE EndLoop \/ UNCHANGED vars
    BY <2>9 DEF EndLoop, vars
  <2> QED
    BY <2>1, <2>2, <2>3, <2>4, <2>5, <2>6, <2>7, <2>8, <2>9 DEF Next, HandleInput
<1> QED
  BY <1>1, <1>2, TypeCorrect, PTL DEF Spec

==============================================================================

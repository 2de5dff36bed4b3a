---------------------------- MODULE FastServer_proofs ----------------------------
(***************************************************************************)
(* Theorems about FastServer, for any number of workers and of clients and *)
(* whatever they ask for.                                                  *)
(***************************************************************************)
EXTENDS FastServer, TLAPS

LEMMA PartsBound ==
  ASSUME NEW c
  PROVE  Len(Parts(c)) \in {2, 3}
BY DEF Parts

LEMMA StatusesType ==
  ASSUME NEW c
  PROVE  Statuses(c) \subseteq {"ok", "not_found", "bad_request"}
BY DEF Statuses

LEMMA TypeInit == Init => TypeOK
BY DEF Init, TypeOK

\* Accept() and CloseSocket() close a socket; its client, if it has one, is gone.
LEMMA CloseType ==
  ASSUME TypeOK, NEW w \in Worker, Close(w)
  PROVE  /\ open' \in [Worker -> BOOLEAN]
         /\ client' \in [Client -> {"away", "queued", "served", "gone"}]
<1>1. open' \in [Worker -> BOOLEAN]
  BY DEF Close, TypeOK
<1>2. client' \in [Client -> {"away", "queued", "served", "gone"}]
  BY DEF Close, TypeOK
<1> QED
  BY <1>1, <1>2

LEMMA AcceptType ==
  ASSUME TypeOK, NEW w \in Worker, Accept(w)
  PROVE  /\ open' \in [Worker -> BOOLEAN]
         /\ client' \in [Client -> {"away", "queued", "served", "gone"}]
         /\ work' \in [Worker -> {"accepting", "reading", "writing"}]
         /\ result' \in [Worker -> {"none", "ok", "failed"}]
<1>1. Close(w)
  BY DEF Accept
<1>2. /\ work' \in [Worker -> {"accepting", "reading", "writing"}]
      /\ result' \in [Worker -> {"none", "ok", "failed"}]
  BY DEF Accept, Begin, Complete, TypeOK
<1> QED
  BY <1>1, <1>2, CloseType

LEMMA HandleAcceptType ==
  ASSUME TypeOK, NEW w \in Worker, HandleAccept(w)
  PROVE  TypeOK'
<1>1. CASE result[w] = "failed" /\ Accept(w) /\ UNCHANGED <<deadline, timer>>
  BY <1>1, AcceptType DEF HandleAccept, TypeOK
<1>2. CASE /\ open' = [open EXCEPT ![w] = TRUE]
           /\ MoveDeadline(w) /\ ReadRequest(w) /\ UNCHANGED client
  <2>1. open' \in [Worker -> BOOLEAN]
    BY <1>2 DEF TypeOK
  <2>2. /\ deadline' \in [Worker -> [at : {"never", "ahead", "passed"},
                                     for : Client \cup {None}]]
        /\ timer' \in [Worker -> {"waiting", "queued"}]
    BY <1>2 DEF TypeOK, MoveDeadline
  <2>3. /\ work' \in [Worker -> {"accepting", "reading", "writing"}]
        /\ result' \in [Worker -> {"none", "ok", "failed"}]
    BY <1>2 DEF TypeOK, ReadRequest, Begin, Complete
  <2> QED
    BY <1>2, <2>1, <2>2, <2>3 DEF HandleAccept, TypeOK
<1> QED
  BY <1>1, <1>2 DEF HandleAccept

LEMMA ReadType ==
  ASSUME TypeOK, NEW w \in Worker, Read(w)
  PROVE  TypeOK'
<1> DEFINE c == peer[w]
<1>1. c \in Client \cup {None}
  BY DEF TypeOK
<1>2. PICK part : Parse(w, c, part)
  BY DEF Read
<1>3. parser' \in [Worker -> [at : {"start", "fields", "body", "done"},
                              request : Client \cup {None}]]
  BY <1>1, <1>2 DEF Parse, TypeOK
<1>4. result' \in [Worker -> {"none", "ok", "failed"}]
  BY <1>2 DEF Parse, Complete, TypeOK
<1>5. sent' \in [Client -> 0 .. 3]
  <2>1. sent' = [sent EXCEPT ![c] = sent[c] + 1] /\ sent[c] < Len(Parts(c))
    BY DEF Read
  <2>2. c \in Client => sent[c] + 1 \in 0 .. 3
    <3>1. c \in Client => sent[c] \in 0 .. 3
      BY DEF TypeOK
    <3>2. sent[c] < 2 \/ sent[c] < 3
      BY <2>1, PartsBound
    <3>3. \A n \in 0 .. 3 : n < 2 \/ n < 3 => n + 1 \in 0 .. 3
      OBVIOUS
    <3> QED
      BY <3>1, <3>2, <3>3
  <2> QED
    BY <2>1, <2>2 DEF TypeOK
<1> QED
  BY <1>3, <1>4, <1>5 DEF Read, TypeOK

LEMMA ProcessRequestType ==
  ASSUME TypeOK, NEW w \in Worker, ProcessRequest(w)
  PROVE  /\ reply' \in [Worker -> {"none", "ok", "not_found", "bad_request"}]
         /\ work' \in [Worker -> {"accepting", "reading", "writing"}]
         /\ result' \in [Worker -> {"none", "ok", "failed"}]
<1>1. PICK s \in Statuses(parser[w].request) : reply' = [reply EXCEPT ![w] = s]
  BY DEF ProcessRequest
<1>2. s \in {"none", "ok", "not_found", "bad_request"}
  BY StatusesType
<1>3. reply' \in [Worker -> {"none", "ok", "not_found", "bad_request"}]
  BY <1>1, <1>2 DEF TypeOK
<1> QED
  BY <1>3 DEF ProcessRequest, Begin, Complete, TypeOK

LEMMA CheckDeadlineType ==
  ASSUME TypeOK, NEW w \in Worker, CheckDeadline(w)
  PROVE  TypeOK'
<1>1. timer' \in [Worker -> {"waiting", "queued"}]
  BY DEF CheckDeadline, TypeOK
<1>2. CASE CloseSocket(w)
  <2>1. /\ open' \in [Worker -> BOOLEAN]
        /\ client' \in [Client -> {"away", "queued", "served", "gone"}]
    BY <1>2, CloseType DEF CloseSocket
  <2>2. result' \in [Worker -> {"none", "ok", "failed"}]
    BY <1>2 DEF CloseSocket, Complete, TypeOK
  <2>3. deadline' \in [Worker -> [at : {"never", "ahead", "passed"},
                                  for : Client \cup {None}]]
    BY <1>2 DEF CloseSocket, TypeOK
  <2> QED
    BY <1>1, <2>1, <2>2, <2>3 DEF CheckDeadline, TypeOK
<1>3. CASE UNCHANGED <<open, client, result, deadline>>
  BY <1>1, <1>3 DEF CheckDeadline, TypeOK
<1> QED
  BY <1>2, <1>3 DEF CheckDeadline

LEMMA TypeStep == TypeOK /\ [Next]_vars => TypeOK'
<1> SUFFICES ASSUME TypeOK, [Next]_vars PROVE TypeOK'
  OBVIOUS
<1>1. ASSUME NEW c \in Client, Connect(c) PROVE TypeOK'
  BY <1>1 DEF Connect, TypeOK
<1>2. ASSUME NEW w \in Worker, NEW c \in Client, Accepted(w, c) PROVE TypeOK'
  BY <1>2 DEF Accepted, Complete, TypeOK
<1>3. ASSUME NEW w \in Worker, AcceptFails(w) \/ Break(w) PROVE TypeOK'
  BY <1>3 DEF AcceptFails, Break, Complete, TypeOK
<1>4. ASSUME NEW w \in Worker, HandleRead(w) PROVE TypeOK'
  <2>1. CASE Accept(w) /\ UNCHANGED reply
    BY <1>4, <2>1, AcceptType DEF HandleRead, TypeOK
  <2>2. CASE ProcessRequest(w)
    <3>1. UNCHANGED <<open, client>>
      BY <2>2 DEF ProcessRequest
    <3> QED
      BY <1>4, <2>2, <3>1, ProcessRequestType DEF HandleRead, TypeOK
  <2> QED
    BY <1>4, <2>1, <2>2 DEF HandleRead
<1>5. ASSUME NEW w \in Worker, Written(w) PROVE TypeOK'
  <2>1. answer' \in [Client -> [of : Client \cup {None},
                    status : {"none", "ok", "not_found", "bad_request"}]]
    BY <1>5 DEF Written, TypeOK
  <2>2. result' \in [Worker -> {"none", "ok", "failed"}]
    BY <1>5 DEF Written, Complete, TypeOK
  <2> QED
    BY <1>5, <2>1, <2>2 DEF Written, TypeOK
<1>6. ASSUME NEW w \in Worker, HandleWrite(w) PROVE TypeOK'
  BY <1>6, AcceptType DEF HandleWrite, TypeOK
<1>7. ASSUME NEW w \in Worker, DeadlinePasses(w) \/ TimerFires(w) PROVE TypeOK'
  <2>1. CASE DeadlinePasses(w)
    <3>1. [deadline[w] EXCEPT !.at = "passed"]
            \in [at : {"never", "ahead", "passed"}, for : Client \cup {None}]
      BY DEF TypeOK
    <3>2. deadline' \in [Worker -> [at : {"never", "ahead", "passed"},
                                    for : Client \cup {None}]]
      BY <2>1, <3>1 DEF DeadlinePasses, TypeOK
    <3> QED
      BY <2>1, <3>2 DEF DeadlinePasses, TypeOK
  <2>2. CASE TimerFires(w)
    BY <2>2 DEF TimerFires, TypeOK
  <2> QED
    BY <1>7, <2>1, <2>2
<1>8. CASE UNCHANGED vars
  BY <1>8 DEF vars, TypeOK
<1> QED
  BY <1>1, <1>2, <1>3, <1>4, <1>5, <1>6, <1>7, <1>8, HandleAcceptType, ReadType,
     CheckDeadlineType DEF Next

\* Every variable keeps its type, for pools and clients of any number.
THEOREM TypeCorrect == Spec => []TypeOK
<1>1. Init => TypeOK
  BY TypeInit
<1>2. TypeOK /\ [Next]_vars => TypeOK'
  BY TypeStep
<1> QED
  BY <1>1, <1>2, PTL DEF Spec

-----------------------------------------------------------------------------
(* Deadlines                                                               *)

\* A worker that accepts has no open socket, and the deadline of an open socket was
\* set for the client it is open to.
DeadlineFitsPeer ==
  \A w \in Worker : open[w] =>
    /\ work[w] # "accepting"
    /\ deadline[w].for = peer[w]

LEMMA FitsInit == Init => DeadlineFitsPeer
BY DEF Init, DeadlineFitsPeer

LEMMA FitsStep == TypeOK /\ DeadlineFitsPeer /\ [Next]_vars => DeadlineFitsPeer'
<1> SUFFICES ASSUME TypeOK, DeadlineFitsPeer, [Next]_vars PROVE DeadlineFitsPeer'
  OBVIOUS
<1> USE DEF DeadlineFitsPeer, TypeOK, Begin, Complete
<1>1. ASSUME NEW c \in Client, Connect(c) PROVE DeadlineFitsPeer'
  BY <1>1 DEF Connect
<1>2. ASSUME NEW w \in Worker, NEW c \in Client, Accepted(w, c) PROVE DeadlineFitsPeer'
  BY <1>2 DEF Accepted
<1>3. ASSUME NEW w \in Worker, AcceptFails(w) \/ Break(w) PROVE DeadlineFitsPeer'
  BY <1>3 DEF AcceptFails, Break
<1>4. ASSUME NEW w \in Worker, HandleAccept(w) PROVE DeadlineFitsPeer'
  <2>1. CASE Accept(w) /\ UNCHANGED <<deadline, timer>>
    BY <1>4, <2>1 DEF HandleAccept, Accept, Close
  <2>2. CASE open' = [open EXCEPT ![w] = TRUE] /\ MoveDeadline(w) /\ ReadRequest(w)
    BY <1>4, <2>2 DEF HandleAccept, MoveDeadline, ReadRequest
  <2> QED
    BY <1>4, <2>1, <2>2 DEF HandleAccept
<1>5. ASSUME NEW w \in Worker, Read(w) PROVE DeadlineFitsPeer'
  BY <1>5 DEF Read
<1>6. ASSUME NEW w \in Worker, HandleRead(w) PROVE DeadlineFitsPeer'
  BY <1>6 DEF HandleRead, Accept, Close, ProcessRequest
<1>7. ASSUME NEW w \in Worker, Written(w) PROVE DeadlineFitsPeer'
  BY <1>7 DEF Written
<1>8. ASSUME NEW w \in Worker, HandleWrite(w) PROVE DeadlineFitsPeer'
  BY <1>8 DEF HandleWrite, Accept, Close
<1>9. ASSUME NEW w \in Worker, DeadlinePasses(w) \/ TimerFires(w) PROVE DeadlineFitsPeer'
  <2>1. CASE DeadlinePasses(w)
    <3>1. \A v \in Worker : deadline'[v].for = deadline[v].for
      BY <2>1 DEF DeadlinePasses
    <3> QED
      BY <2>1, <3>1 DEF DeadlinePasses
  <2>2. CASE TimerFires(w)
    BY <2>2 DEF TimerFires
  <2> QED
    BY <1>9, <2>1, <2>2
<1>10. ASSUME NEW w \in Worker, CheckDeadline(w) PROVE DeadlineFitsPeer'
  <2>1. CASE CloseSocket(w)
    BY <1>10, <2>1 DEF CheckDeadline, CloseSocket, Close
  <2>2. CASE UNCHANGED <<open, client, result, deadline>>
    BY <1>10, <2>2 DEF CheckDeadline
  <2> QED
    BY <1>10, <2>1, <2>2 DEF CheckDeadline
<1>11. CASE UNCHANGED vars
  BY <1>11 DEF vars
<1> QED
  BY <1>1, <1>2, <1>3, <1>4, <1>5, <1>6, <1>7, <1>8, <1>9, <1>10, <1>11 DEF Next

\* What a step may do to an open socket.
Cuts(w) ==
  open[w] /\ ~open'[w] /\ work'[w] = work[w]
    => deadline[w] = [at |-> "passed", for |-> peer[w]]

LEMMA CutsOnlyByDeadline ==
  ASSUME TypeOK, DeadlineFitsPeer, [Next]_vars, NEW v \in Worker
  PROVE  Cuts(v)
<1> USE DEF DeadlineFitsPeer, TypeOK, Cuts
<1>1. ASSUME NEW c \in Client, Connect(c) PROVE Cuts(v)
  BY <1>1 DEF Connect
<1>2. ASSUME NEW w \in Worker, NEW c \in Client, Accepted(w, c) PROVE Cuts(v)
  BY <1>2 DEF Accepted
<1>3. ASSUME NEW w \in Worker,
             AcceptFails(w) \/ Break(w) \/ Read(w) \/ Written(w)
             \/ DeadlinePasses(w) \/ TimerFires(w)
      PROVE  Cuts(v)
  BY <1>3 DEF AcceptFails, Break, Read, Written, DeadlinePasses, TimerFires
<1>4. ASSUME NEW w \in Worker, HandleAccept(w) PROVE Cuts(v)
  BY <1>4 DEF HandleAccept, Accept, Close, Begin
<1>5. ASSUME NEW w \in Worker, HandleRead(w) \/ HandleWrite(w) PROVE Cuts(v)
  BY <1>5 DEF HandleRead, HandleWrite, Accept, Close, Begin, ProcessRequest
<1>6. ASSUME NEW w \in Worker, CheckDeadline(w) PROVE Cuts(v)
  <2>1. CASE v = w /\ deadline[w].at = "passed"
    <3>1. open[w] => deadline[w].for = peer[w]
      BY <2>1
    <3>2. deadline[w].at = "passed" /\ deadline[w].for = peer[w]
            => deadline[w] = [at |-> "passed", for |-> peer[w]]
      BY <2>1
    <3> QED
      BY <2>1, <3>1, <3>2
  <2>2. CASE v # w \/ deadline[w].at # "passed"
    BY <1>6, <2>2 DEF CheckDeadline, CloseSocket, Close
  <2> QED
    BY <2>1, <2>2
<1>7. CASE UNCHANGED vars
  BY <1>7 DEF vars
<1> QED
  BY <1>1, <1>2, <1>3, <1>4, <1>5, <1>6, <1>7 DEF Next

\* However waits expire and are cancelled, a connection is cut off under its operation
\* only when a deadline set for its own client has passed.
THEOREM OwnDeadline == Spec => DeadlineIsItsOwn
<1>1. TypeOK /\ DeadlineFitsPeer /\ [Next]_vars
        => [\A w \in Worker :
              open[w] /\ ~open'[w] /\ work'[w] = work[w]
                => deadline[w] = [at |-> "passed", for |-> peer[w]]]_vars
  BY CutsOnlyByDeadline DEF Cuts
<1>2. Init => DeadlineFitsPeer
  BY FitsInit
<1>3. TypeOK /\ DeadlineFitsPeer /\ [Next]_vars => DeadlineFitsPeer'
  BY FitsStep
<1> QED
  BY <1>1, <1>2, <1>3, TypeCorrect, PTL DEF Spec, DeadlineIsItsOwn

-----------------------------------------------------------------------------
(* Answers                                                                 *)

HasHeader(c) == c \in Client /\ sent[c] >= 2

\* What the parser of a worker holds was sent, as far as it says; only a parser that is
\* done completes a read, and a reply is one to the request it holds.
HeldIsSent ==
  \A w \in Worker :
    /\ parser[w].at = "fields" =>
         parser[w].request \in Client /\ sent[parser[w].request] >= 1
    /\ parser[w].at \in {"body", "done"} => HasHeader(parser[w].request)
    /\ work[w] = "reading" /\ result[w] = "ok" => parser[w].at = "done"
    /\ work[w] = "writing" =>
         /\ parser[w].at = "done"
         /\ reply[w] \in Statuses(parser[w].request)

AnsweredWhole ==
  \A c \in Client : answer[c].of # None =>
    HasHeader(answer[c].of) /\ answer[c].status \in Statuses(answer[c].of)

\* A worker that has accepted somebody has a peer.
PeerIsClient ==
  \A w \in Worker : work[w] # "accepting" \/ result[w] = "ok" => peer[w] \in Client

Whole == HeldIsSent /\ AnsweredWhole /\ PeerIsClient

LEMMA WholeInit == Init => Whole
BY DEF Init, Whole, HeldIsSent, AnsweredWhole, PeerIsClient

LEMMA ReadWhole ==
  ASSUME TypeOK, Whole, NEW w \in Worker, Read(w)
  PROVE  Whole'
<1> DEFINE c == peer[w]
<1>1. /\ sent' = [sent EXCEPT ![c] = sent[c] + 1]
      /\ Parse(w, c, Parts(c)[sent[c] + 1])
      /\ work[w] = "reading" /\ result[w] = "none"
      /\ UNCHANGED <<work, reply, answer, peer>>
  BY DEF Read, Busy
<1>2. c \in Client
  BY <1>1 DEF Whole, PeerIsClient
<1>3. \A d \in Client : sent[d] \in Nat /\ sent'[d] = IF d = c THEN sent[d] + 1 ELSE sent[d]
  BY <1>1 DEF TypeOK
<1>4. \A d \in Client : sent[d] >= 1 => sent'[d] >= 1
  BY <1>3
<1>5. \A d : HasHeader(d) => HasHeader(d)'
  BY <1>3 DEF HasHeader
<1>6. sent'[c] >= 1 /\ (sent[c] >= 1 => HasHeader(c)')
  <2>1. sent[c] \in Nat /\ sent'[c] = sent[c] + 1
    BY <1>2, <1>3
  <2>2. \A n \in Nat : n + 1 >= 1 /\ (n >= 1 => n + 1 >= 2)
    OBVIOUS
  <2>3. HasHeader(c)' <=> sent'[c] >= 2
    BY <1>1, <1>2 DEF HasHeader
  <2> QED
    BY <2>1, <2>2, <2>3
<1>7. AnsweredWhole'
  BY <1>1, <1>5 DEF Whole, AnsweredWhole
<1>8. \A v \in Worker : v # w => parser'[v] = parser[v] /\ result'[v] = result[v]
  BY <1>1 DEF Parse, Complete, TypeOK
<1>9. PeerIsClient'
  BY <1>1, <1>2, <1>8 DEF Whole, PeerIsClient
<1>10. HeldIsSent'
  <2> SUFFICES ASSUME NEW v \in Worker
               PROVE  /\ parser'[v].at = "fields" =>
                           /\ parser'[v].request \in Client
                           /\ sent'[parser'[v].request] >= 1
                      /\ parser'[v].at \in {"body", "done"} =>
                           HasHeader(parser[v].request)'
                      /\ work'[v] = "reading" /\ result'[v] = "ok" =>
                           parser'[v].at = "done"
                      /\ work'[v] = "writing" =>
                           /\ parser'[v].at = "done"
                           /\ reply'[v] \in Statuses(parser'[v].request)
    BY DEF HeldIsSent
  <2>1. CASE parser'[v] = parser[v] /\ (result'[v] = result[v] \/ result'[v] # "ok")
    BY <1>1, <1>4, <1>5, <2>1 DEF Whole, HeldIsSent, HasHeader
  <2>2. CASE v = w /\ parser'[w].at = "fields" /\ parser'[w].request = c
             /\ result'[w] # "ok"
    BY <1>1, <1>2, <1>6, <2>2
  <2>3. CASE v = w /\ parser[w].at = "fields" /\ parser[w].request = c
             /\ parser'[w].at \in {"body", "done"} /\ parser'[w].request = c
             /\ (result'[w] = "ok" => parser'[w].at = "done")
    <3>1. sent[c] >= 1
      BY <2>3 DEF Whole, HeldIsSent
    <3>2. HasHeader(parser[v].request)'
      BY <1>1, <1>6, <2>3, <3>1 DEF HasHeader
    <3> QED
      BY <1>1, <2>3, <3>2
  <2>4. CASE v = w /\ parser[w].at = "body"
             /\ parser'[w].at = "done" /\ parser'[w].request = parser[w].request
    <3>1. HasHeader(parser[w].request)
      BY <2>4 DEF Whole, HeldIsSent
    <3>2. HasHeader(parser[v].request)'
      BY <1>5, <2>4, <3>1 DEF HasHeader
    <3> QED
      BY <1>1, <2>4, <3>2
  <2>5. \/ parser'[w] = parser[w] /\ result'[w] # "ok"
        \/ parser'[w].at = "fields" /\ parser'[w].request = c /\ result'[w] # "ok"
        \/ /\ parser[w].at = "fields" /\ parser[w].request = c
           /\ parser'[w].at \in {"body", "done"} /\ parser'[w].request = c
           /\ result'[w] = "ok" => parser'[w].at = "done"
        \/ /\ parser[w].at = "body"
           /\ parser'[w].at = "done" /\ parser'[w].request = parser[w].request
    BY <1>1 DEF Parse, Complete, TypeOK
  <2> QED
    BY <1>8, <2>1, <2>2, <2>3, <2>4, <2>5
<1> QED
  BY <1>7, <1>9, <1>10 DEF Whole

LEMMA ProcessRequestWhole ==
  ASSUME TypeOK, Whole, NEW w \in Worker, ProcessRequest(w),
         work[w] = "reading", result[w] = "ok",
         UNCHANGED <<peer, parser, sent, answer>>
  PROVE  Whole'
<1>1. PICK s \in Statuses(parser[w].request) : reply' = [reply EXCEPT ![w] = s]
  BY DEF ProcessRequest
<1>2. \A d : HasHeader(d) => HasHeader(d)'
  BY DEF HasHeader
<1>3. AnsweredWhole'
  BY <1>2 DEF Whole, AnsweredWhole
<1>4. /\ work' = [work EXCEPT ![w] = "writing"]
      /\ \A v \in Worker : v # w => result'[v] = result[v]
      /\ result'[w] # "ok"
  BY DEF ProcessRequest, Begin, Complete, TypeOK
<1>5. PeerIsClient'
  BY <1>4 DEF Whole, PeerIsClient, TypeOK
<1>6. HeldIsSent'
  BY <1>1, <1>2, <1>4 DEF Whole, HeldIsSent, TypeOK
<1> QED
  BY <1>3, <1>5, <1>6 DEF Whole

\* Whatever ends an operation without reading or writing leaves what is held and what
\* was answered as they were.
LEMMA OtherWhole ==
  ASSUME TypeOK, Whole, UNCHANGED <<parser, sent, answer>>,
         \A w \in Worker :
           /\ work'[w] = "reading" /\ result'[w] = "ok" => parser[w].at = "done"
           /\ work'[w] = "writing" => work[w] = "writing" /\ reply'[w] = reply[w]
           /\ work'[w] # "accepting" \/ result'[w] = "ok" => peer'[w] \in Client
  PROVE  Whole'
<1>1. \A d : HasHeader(d) => HasHeader(d)'
  BY DEF HasHeader
<1>2. AnsweredWhole'
  BY <1>1 DEF Whole, AnsweredWhole
<1>3. HeldIsSent'
  BY <1>1 DEF Whole, HeldIsSent
<1> QED
  BY <1>2, <1>3 DEF Whole, PeerIsClient

LEMMA WrittenWhole ==
  ASSUME TypeOK, Whole, NEW w \in Worker, Written(w)
  PROVE  Whole'
<1>1. /\ parser[w].at = "done" /\ work[w] = "writing"
      /\ reply[w] \in Statuses(parser[w].request)
      /\ HasHeader(parser[w].request)
  BY DEF Written, Busy, Whole, HeldIsSent
<1>2. \A d : HasHeader(d) => HasHeader(d)'
  BY DEF Written, HasHeader
<1>3. \A c \in Client :
        \/ answer'[c] = answer[c]
        \/ answer'[c] = [of |-> parser[w].request, status |-> reply[w]]
  BY DEF Written, TypeOK
<1>4. AnsweredWhole'
  BY <1>1, <1>2, <1>3 DEF Whole, AnsweredWhole
<1>5. HeldIsSent'
  BY <1>1, <1>2 DEF Written, Complete, Whole, HeldIsSent, TypeOK
<1>6. PeerIsClient'
  BY <1>1 DEF Written, Complete, Whole, PeerIsClient, TypeOK
<1> QED
  BY <1>4, <1>5, <1>6 DEF Whole

LEMMA WholeStep == TypeOK /\ Whole /\ [Next]_vars => Whole'
<1> SUFFICES ASSUME TypeOK, Whole, [Next]_vars PROVE Whole'
  OBVIOUS
<1> USE DEF TypeOK
<1>1. ASSUME NEW c \in Client, Connect(c) PROVE Whole'
  BY <1>1, OtherWhole DEF Connect, Whole, HeldIsSent, PeerIsClient
<1>2. ASSUME NEW w \in Worker, NEW c \in Client, Accepted(w, c) PROVE Whole'
  BY <1>2, OtherWhole DEF Accepted, Complete, Whole, HeldIsSent, PeerIsClient
<1>3. ASSUME NEW w \in Worker, AcceptFails(w) \/ Break(w) PROVE Whole'
  BY <1>3, OtherWhole DEF AcceptFails, Break, Complete, Whole, HeldIsSent, PeerIsClient
<1>4. ASSUME NEW w \in Worker, HandleAccept(w) PROVE Whole'
  <2>1. CASE Accept(w)
    BY <1>4, <2>1, OtherWhole
       DEF HandleAccept, Accept, Begin, Complete, Whole, HeldIsSent, PeerIsClient
  <2>2. CASE result[w] = "ok" /\ ReadRequest(w)
    BY <1>4, <2>2, OtherWhole
       DEF HandleAccept, ReadRequest, Begin, Complete, Whole, HeldIsSent, PeerIsClient
  <2> QED
    BY <1>4, <2>1, <2>2 DEF HandleAccept
<1>5. ASSUME NEW w \in Worker, HandleRead(w) PROVE Whole'
  <2>1. CASE Accept(w) /\ UNCHANGED reply
    BY <1>5, <2>1, OtherWhole
       DEF HandleRead, Accept, Begin, Complete, Whole, HeldIsSent, PeerIsClient
  <2>2. CASE result[w] = "ok" /\ ProcessRequest(w)
    BY <1>5, <2>2, ProcessRequestWhole DEF HandleRead
  <2> QED
    BY <1>5, <2>1, <2>2 DEF HandleRead
<1>6. ASSUME NEW w \in Worker, HandleWrite(w) PROVE Whole'
  BY <1>6, OtherWhole
     DEF HandleWrite, Accept, Begin, Complete, Whole, HeldIsSent, PeerIsClient
<1>7. ASSUME NEW w \in Worker, DeadlinePasses(w) \/ TimerFires(w) PROVE Whole'
  BY <1>7, OtherWhole DEF DeadlinePasses, TimerFires, Whole, HeldIsSent, PeerIsClient
<1>8. ASSUME NEW w \in Worker, CheckDeadline(w) PROVE Whole'
  BY <1>8, OtherWhole
     DEF CheckDeadline, CloseSocket, Complete, Whole, HeldIsSent, PeerIsClient
<1>9. CASE UNCHANGED vars
  BY <1>9, OtherWhole DEF vars, Whole, HeldIsSent, PeerIsClient
<1> QED
  BY <1>1, <1>2, <1>3, <1>4, <1>5, <1>6, <1>7, <1>8, <1>9, ReadWhole, WrittenWhole
     DEF Next

\* Whatever the parser carries from one client to the next: a reply answers a request
\* whose header was sent to its end, with a status that request can have.
THEOREM WholeAnswers == Spec => []AnswerIsWholeRequest
<1>1. Whole => AnswerIsWholeRequest
  BY DEF Whole, AnsweredWhole, HasHeader, AnswerIsWholeRequest
<1>2. Init => Whole
  BY WholeInit
<1>3. TypeOK /\ Whole /\ [Next]_vars => Whole'
  BY WholeStep
<1> QED
  BY <1>1, <1>2, <1>3, TypeCorrect, PTL DEF Spec

==============================================================================

------------------------------ MODULE FastServer ------------------------------
(***************************************************************************)
(* http_server_fast.cpp: a fixed pool of http_workers on one io_context    *)
(* and one acceptor.  A worker has one socket, one buffer, one parser and  *)
(* one deadline timer, and serves one client after the other with them:    *)
(* accept, read a request, write the reply, accept again.  An operation    *)
(* completes in two steps, its result being queued and its handler being   *)
(* run, and the timer's handler may run between them.                      *)
(***************************************************************************)
EXTENDS Naturals, Sequences

CONSTANTS
  Worker,   \* the workers of the pool
  Client,   \* the clients, each with a request of its own
  Posters,  \* those whose request is a POST, with a body
  Others,   \* those whose request is neither a GET nor a POST
  None      \* no client

ASSUME FastServerAssumption ==
  /\ Posters \subseteq Client
  /\ Others \subseteq Client
  /\ Posters \cap Others = {}
  /\ None \notin Client

\* The pieces in which a request arrives.
Parts(c) == IF c \in Posters THEN <<"line", "fields", "body">>
                             ELSE <<"line", "fields">>

\* The status of the reply to the request of a client.
Statuses(c) == IF c \in Posters THEN {"ok"}
               ELSE IF c \in Others THEN {"bad_request"}
               ELSE {"ok", "not_found"}

VARIABLES
  work,      \* per worker, its operation: "accepting", "reading" or "writing"
  result,    \* how that operation ended, if its handler is queued
  peer,      \* the client the acceptor gave to the worker
  open,      \* the worker's socket_ is open
  parser,    \* parser_: where it is, and whose request it holds
  reply,     \* the status of string_response_ or file_response_
  deadline,  \* request_deadline_: when it expires, and for whom it was set
  timer,     \* its async_wait: "waiting", or its handler is "queued"
  client,    \* per client, "away", "queued" on the acceptor, "served", "gone"
  sent,      \* how many pieces of its request the client has sent
  answer     \* the reply the client was given

vars == <<work, result, peer, open, parser, reply, deadline, timer, client,
          sent, answer>>

\* start() of every worker: accept(), and check_deadline() with a deadline that
\* never comes.
Init ==
  /\ work = [w \in Worker |-> "accepting"]
  /\ result = [w \in Worker |-> "none"]
  /\ peer = [w \in Worker |-> None]
  /\ open = [w \in Worker |-> FALSE]
  /\ parser = [w \in Worker |-> [at |-> "start", request |-> None]]
  /\ reply = [w \in Worker |-> "none"]
  /\ deadline = [w \in Worker |-> [at |-> "never", for |-> None]]
  /\ timer = [w \in Worker |-> "waiting"]
  /\ client = [c \in Client |-> "away"]
  /\ sent = [c \in Client |-> 0]
  /\ answer = [c \in Client |-> [of |-> None, status |-> "none"]]

-----------------------------------------------------------------------------
(* accept()                                                                *)

\* socket_.close(): the client finds its connection closed.
Close(w) ==
  /\ open' = [open EXCEPT ![w] = FALSE]
  /\ client' = IF open[w] THEN [client EXCEPT ![peer[w]] = "gone"] ELSE client

Complete(w, how) == result' = [result EXCEPT ![w] = how]

Begin(w, what) == work' = [work EXCEPT ![w] = what]

\* Closes the socket, empties the buffer and waits for the next client; the
\* parser stays what it is.
Accept(w) ==
  /\ Close(w)
  /\ Begin(w, "accepting")
  /\ Complete(w, "none")

Connect(c) ==
  /\ client[c] = "away"
  /\ client' = [client EXCEPT ![c] = "queued"]
  /\ UNCHANGED <<work, result, peer, open, parser, reply, deadline, timer, sent,
                 answer>>

Accepted(w, c) ==
  /\ work[w] = "accepting" /\ result[w] = "none"
  /\ client[c] = "queued"
  /\ client' = [client EXCEPT ![c] = "served"]
  /\ peer' = [peer EXCEPT ![w] = c]
  /\ Complete(w, "ok")
  /\ UNCHANGED <<work, open, parser, reply, deadline, timer, sent, answer>>

AcceptFails(w) ==
  /\ work[w] = "accepting" /\ result[w] = "none"
  /\ Complete(w, "failed")
  /\ UNCHANGED <<work, peer, open, parser, reply, deadline, timer, client, sent,
                 answer>>

\* expires_after() cancels the wait, whose handler is queued and does not look
\* at its error code.
MoveDeadline(w) ==
  /\ deadline' = [deadline EXCEPT ![w] = [at |-> "ahead", for |-> peer[w]]]
  /\ timer' = [timer EXCEPT ![w] = "queued"]

\* read_request(): async_read() has nothing to read for a parser that is done.
ReadRequest(w) ==
  /\ Begin(w, "reading")
  /\ Complete(w, IF parser[w].at = "done" THEN "ok" ELSE "none")

HandleAccept(w) ==
  /\ work[w] = "accepting"
  /\ \/ /\ result[w] = "failed"
        /\ Accept(w)
        /\ UNCHANGED <<deadline, timer>>
     \/ /\ result[w] = "ok"
        /\ open' = [open EXCEPT ![w] = TRUE]
        /\ MoveDeadline(w)
        /\ ReadRequest(w)
        /\ UNCHANGED client
  /\ UNCHANGED <<peer, parser, reply, sent, answer>>

-----------------------------------------------------------------------------
(* read_request(), process_request(), send_*()                             *)

Busy(w, what) == work[w] = what /\ result[w] = "none" /\ open[w]

\* What the parser makes of a piece that client c sends.  It goes on where the
\* last client left it: the line of a new request is no header field, and
\* anything will do for a body, which may still not be complete.
Parse(w, c, part) ==
  LET p == parser[w]
      own == p.request = c
  IN  \/ /\ p.at = "start"
         /\ parser' = [parser EXCEPT ![w] = [at |-> "fields", request |-> c]]
         /\ Complete(w, "none")
      \/ /\ p.at = "fields" /\ own /\ c \in Posters
         /\ parser' = [parser EXCEPT ![w].at = "body"]
         /\ Complete(w, "none")
      \/ /\ \/ p.at = "fields" /\ own /\ c \notin Posters
            \/ p.at = "body"
         /\ parser' = [parser EXCEPT ![w].at = "done"]
         /\ Complete(w, "ok")
      \/ /\ p.at = "fields" /\ ~own
         /\ parser' = parser
         /\ Complete(w, "failed")
      \/ /\ p.at \in {"fields", "body"} /\ ~own
         /\ parser' = parser
         /\ Complete(w, "none")

Read(w) ==
  LET c == peer[w]
  IN  /\ Busy(w, "reading")
      /\ sent[c] < Len(Parts(c))
      /\ sent' = [sent EXCEPT ![c] = @ + 1]
      /\ Parse(w, c, Parts(c)[sent[c] + 1])
      /\ UNCHANGED <<work, peer, open, reply, deadline, timer, client, answer>>

\* The client goes away, or the connection breaks.
Break(w) ==
  /\ Busy(w, "reading") \/ Busy(w, "writing")
  /\ Complete(w, "failed")
  /\ UNCHANGED <<work, peer, open, parser, reply, deadline, timer, client, sent,
                 answer>>

\* send_file(), send_post() or send_bad_response() for the request the parser
\* holds.  Writing to a socket that the deadline has closed fails.
ProcessRequest(w) ==
  /\ \E s \in Statuses(parser[w].request) : reply' = [reply EXCEPT ![w] = s]
  /\ Begin(w, "writing")
  /\ Complete(w, IF open[w] THEN "none" ELSE "failed")
  /\ UNCHANGED <<open, client>>

\* Variant: the handler does not look at its error code.
HandleRead_ErrorIgnored(w) ==
  /\ work[w] = "reading"
  /\ result[w] # "none"
  /\ parser[w].request # None
  /\ ProcessRequest(w)
  /\ UNCHANGED <<peer, parser, deadline, timer, sent, answer>>

HandleRead(w) ==
  /\ work[w] = "reading"
  /\ \/ result[w] = "failed" /\ Accept(w) /\ UNCHANGED reply
     \/ result[w] = "ok" /\ ProcessRequest(w)
  /\ UNCHANGED <<peer, parser, deadline, timer, sent, answer>>

Written(w) ==
  /\ Busy(w, "writing")
  /\ answer' = [answer EXCEPT
       ![peer[w]] = [of |-> parser[w].request, status |-> reply[w]]]
  /\ Complete(w, "ok")
  /\ UNCHANGED <<work, peer, open, parser, reply, deadline, timer, client, sent>>

\* The same for all three: shut down and accept the next client.
HandleWrite(w) ==
  /\ work[w] = "writing"
  /\ result[w] # "none"
  /\ Accept(w)
  /\ UNCHANGED <<peer, parser, reply, deadline, timer, sent, answer>>

-----------------------------------------------------------------------------
(* check_deadline()                                                        *)

DeadlinePasses(w) ==
  /\ deadline[w].at = "ahead"
  /\ deadline' = [deadline EXCEPT ![w].at = "passed"]
  /\ UNCHANGED <<work, result, peer, open, parser, reply, timer, client, sent,
                 answer>>

TimerFires(w) ==
  /\ timer[w] = "waiting"
  /\ deadline[w].at = "passed"
  /\ timer' = [timer EXCEPT ![w] = "queued"]
  /\ UNCHANGED <<work, result, peer, open, parser, reply, deadline, client, sent,
                 answer>>

\* Closing the socket ends the operation on it; an operation that has ended and
\* an accept go on.
CloseSocket(w) ==
  /\ Close(w)
  /\ Complete(w, IF open[w] /\ result[w] = "none" THEN "failed" ELSE result[w])
  /\ deadline' = [deadline EXCEPT ![w] = [at |-> "never", for |-> None]]

\* Variant: whoever wakes the handler, the deadline has passed.
CheckDeadline_Unchecked(w) ==
  /\ timer[w] = "queued"
  /\ CloseSocket(w)
  /\ timer' = [timer EXCEPT ![w] = "waiting"]
  /\ UNCHANGED <<work, peer, parser, reply, sent, answer>>

\* Variant: a handler that finds the deadline moved does not wait again.
CheckDeadline_NoWait(w) ==
  /\ timer[w] = "queued"
  /\ \/ /\ deadline[w].at = "passed"
        /\ CloseSocket(w)
        /\ timer' = [timer EXCEPT ![w] = "waiting"]
     \/ /\ deadline[w].at # "passed"
        /\ timer' = [timer EXCEPT ![w] = "over"]
        /\ UNCHANGED <<open, client, result, deadline>>
  /\ UNCHANGED <<work, peer, parser, reply, sent, answer>>

\* The deadline may have moved, so it is checked again.
CheckDeadline(w) ==
  /\ timer[w] = "queued"
  /\ timer' = [timer EXCEPT ![w] = "waiting"]
  /\ \/ deadline[w].at = "passed" /\ CloseSocket(w)
     \/ /\ deadline[w].at # "passed"
        /\ UNCHANGED <<open, client, result, deadline>>
  /\ UNCHANGED <<work, peer, parser, reply, sent, answer>>

-----------------------------------------------------------------------------
Next ==
  \/ \E c \in Client : Connect(c)
  \/ \E w \in Worker :
       \/ \E c \in Client : Accepted(w, c)
       \/ AcceptFails(w) \/ HandleAccept(w)
       \/ Read(w) \/ Break(w) \/ HandleRead(w)
       \/ Written(w) \/ HandleWrite(w)
       \/ DeadlinePasses(w) \/ TimerFires(w) \/ CheckDeadline(w)

Spec == Init /\ [][Next]_vars

\* Time passes, the io_context runs every handler that is queued, and accepting
\* does not fail for ever.  Nothing is asked of the clients.
Fairness ==
  /\ \A w \in Worker :
       /\ WF_vars(HandleAccept(w)) /\ WF_vars(HandleRead(w))
       /\ WF_vars(HandleWrite(w))
       /\ WF_vars(DeadlinePasses(w)) /\ WF_vars(TimerFires(w))
       /\ WF_vars(CheckDeadline(w))
  /\ \A c \in Client : SF_vars(\E w \in Worker : Accepted(w, c))

FairSpec == Spec /\ Fairness

-----------------------------------------------------------------------------
(* Properties                                                              *)

TypeOK ==
  /\ work \in [Worker -> {"accepting", "reading", "writing"}]
  /\ result \in [Worker -> {"none", "ok", "failed"}]
  /\ peer \in [Worker -> Client \cup {None}]
  /\ open \in [Worker -> BOOLEAN]
  /\ parser \in [Worker -> [at : {"start", "fields", "body", "done"},
                            request : Client \cup {None}]]
  /\ reply \in [Worker -> {"none", "ok", "not_found", "bad_request"}]
  /\ deadline \in [Worker -> [at : {"never", "ahead", "passed"},
                              for : Client \cup {None}]]
  /\ timer \in [Worker -> {"waiting", "queued"}]
  /\ client \in [Client -> {"away", "queued", "served", "gone"}]
  /\ sent \in [Client -> 0 .. 3]
  /\ answer \in [Client -> [of : Client \cup {None},
                 status : {"none", "ok", "not_found", "bad_request"}]]

\* check_deadline() is run by expired waits and by cancelled ones, for deadlines
\* of this connection and of the last one.  A connection is cut off under its
\* operation only by its own 60 seconds.
DeadlineIsItsOwn ==
  [][\A w \in Worker :
       open[w] /\ ~open'[w] /\ work'[w] = work[w]
         => deadline[w] = [at |-> "passed", for |-> peer[w]]]_vars

\* Whatever the parser carries from one client to the next, and however reads
\* fail, time out or are closed: a reply answers a request whose header was read
\* to its end, with a status that request can have.
AnswerIsWholeRequest ==
  \A c \in Client : answer[c].of # None =>
    /\ sent[answer[c].of] >= 2
    /\ answer[c].status \in Statuses(answer[c].of)

\* A client that sends nothing, or does not take its reply, holds a worker for 60
\* seconds at most: every client's connection comes to its end, and every client
\* that waits behind it gets a worker.
NoClientKept ==
  \A c \in Client : client[c] \in {"queued", "served"} ~> client[c] = "gone"

\* read_request(): "On each read the parser needs to be destroyed and recreated."
\* It should follow that a client is given the reply to its own request.
AnswersOwnRequest == \A c \in Client : answer[c].of \in {c, None}

==============================================================================

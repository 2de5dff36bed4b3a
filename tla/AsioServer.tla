------------------------------ MODULE AsioServer ------------------------------
(***************************************************************************)
(* The Boost.Asio server: one thread that runs the handlers of one         *)
(* io_context.  It accepts connections, reads a request from each, writes  *)
(* a reply and closes, until a signal stops it: the acceptor and every     *)
(* connection are closed, and run() returns when no operation is left.  An *)
(* operation ends in two steps: its result is queued, as it is by then,    *)
(* and its handler runs later, after any of the others.                    *)
(***************************************************************************)
EXTENDS RequestParser

CONSTANT Connection   \* the connections that clients make

\* None of them is mistaken for what an accept can end with instead.
ASSUME ConnectionAssumption ==
  Connection \cap {"none", "pending", "aborted", "failed"} = {}

\* The pieces in which a request arrives, one or several by a read: its first
\* line, its header fields, and a body of as many pieces as Content-Length says.
Line == <<"letter", "sp", "/", "sp", "H", "T", "T", "P", "/", "digit", ".",
          "digit", "cr", "lf">>
Fields == <<"letter", ":", "sp", "letter", "cr", "lf",
            "sp", "letter", "cr", "lf", "cr", "lf">>
NoFields == <<"sp", "letter", "cr", "lf", "cr", "lf">>
Body == <<"letter">>

\* A request: its pieces, and what it asks for.
Request(pieces, path) == [pieces |-> pieces, path |-> path]

Requests ==
  { Request(<<Line, Fields>>, "file"),
    Request(<<Line, NoFields>>, "missing"),
    Request(<<Line, Fields, Body, Body>>, "missing"),
    Request(<<Line, Fields, Body>>, "relative") }

\* The text of the pieces of a request after the first i, up to the j-th.
Text(r, i, j) ==
  LET text[k \in 0 .. j] == IF k <= i THEN <<>> ELSE text[k - 1] \o r.pieces[k]
  IN  text[j]

VARIABLES
  process,      \* "running", "returned" from run(), or "crashed"
  acceptor,     \* acceptor_ is open
  accept,       \* its operation: "pending", "aborted" or "failed", the
                \* connection it ended with, or "none"
  signals,      \* signals_: "waiting", "queued" or "handled"
  came,         \* the connections the acceptor was given
  open,         \* those whose socket_ is open
  connections,  \* connections_ of connection_manager
  work,         \* per connection, its operation: "none", "reading", "writing"
  result,       \* how that ended, if its handler is queued
  request,      \* the request that is sent on it, known once it came
  sent,         \* how many pieces of it were read
  last,         \* how many of them by a read whose handler is queued
  parser,       \* request_parser_
  reply         \* the status of reply_, and whether it was written

vars == <<process, acceptor, accept, signals, came, open, connections, work,
          result, request, sent, last, parser, reply>>

\* The constructor: signals_ waits, and the first accept is under way.
Init ==
  /\ process = "running"
  /\ acceptor = TRUE
  /\ accept = "pending"
  /\ signals = "waiting"
  /\ came = {} /\ open = {} /\ connections = {}
  /\ work = [c \in Connection |-> "none"]
  /\ result = [c \in Connection |-> "none"]
  /\ request = [c \in Connection |-> CHOOSE r \in Requests : TRUE]
  /\ sent = [c \in Connection |-> 0]
  /\ last = [c \in Connection |-> 0]
  /\ parser = [c \in Connection |-> NewParser]
  /\ reply = [c \in Connection |-> [status |-> "none", written |-> FALSE]]

-----------------------------------------------------------------------------
(* server                                                                  *)

Connect(c) ==
  /\ process = "running" /\ accept = "pending"
  /\ c \notin came
  /\ came' = came \cup {c}
  /\ accept' = c
  /\ \E r \in Requests : request' = [request EXCEPT ![c] = r]
  /\ UNCHANGED <<process, acceptor, signals, open, connections, work, result,
                 sent, last, parser, reply>>

AcceptFails ==
  /\ process = "running" /\ accept = "pending"
  /\ accept' = "failed"
  /\ UNCHANGED <<process, acceptor, signals, came, open, connections, work, result,
                 request, sent, last, parser, reply>>

\* connection_manager::start(): the connection is kept and does its first read.
Start(c) ==
  /\ connections' = connections \cup {c}
  /\ open' = open \cup {c}
  /\ work' = [work EXCEPT ![c] = "reading"]

\* Variant: the handler does not look whether the server was stopped.  An accept
\* on a closed acceptor fails at once.
HandleAccept_NotAsked ==
  /\ process = "running"
  /\ accept \notin {"none", "pending"}
  /\ IF accept \in Connection THEN Start(accept)
     ELSE UNCHANGED <<open, connections, work>>
  /\ accept' = IF acceptor THEN "pending" ELSE "failed"
  /\ UNCHANGED <<process, acceptor, signals, came, result, request, sent, last,
                 parser, reply>>

\* do_accept()'s handler.  When the server was stopped before it ran, the
\* connection it was given is dropped with its socket.
HandleAccept ==
  /\ process = "running"
  /\ accept \notin {"none", "pending"}
  /\ \/ /\ ~acceptor
        /\ accept' = "none"
        /\ UNCHANGED <<open, connections, work>>
     \/ /\ acceptor
        /\ accept' = "pending"
        /\ IF accept \in Connection THEN Start(accept)
           ELSE UNCHANGED <<open, connections, work>>
  /\ UNCHANGED <<process, acceptor, signals, came, result, request, sent, last,
                 parser, reply>>

Signal ==
  /\ process = "running" /\ signals = "waiting"
  /\ signals' = "queued"
  /\ UNCHANGED <<process, acceptor, accept, came, open, connections, work, result,
                 request, sent, last, parser, reply>>

\* Closing a socket aborts its operation, unless that has ended already.
Aborted(C) ==
  result' = [c \in Connection |->
               IF c \in C /\ work[c] # "none" /\ result[c] = "none"
               THEN "aborted" ELSE result[c]]

\* do_await_stop()'s handler: acceptor_.close() and stop_all().
HandleSignal ==
  /\ process = "running" /\ signals = "queued"
  /\ signals' = "handled"
  /\ acceptor' = FALSE
  /\ accept' = IF accept = "pending" THEN "aborted" ELSE accept
  /\ open' = open \ connections
  /\ Aborted(connections)
  /\ connections' = {}
  /\ UNCHANGED <<process, came, work, request, sent, last, parser, reply>>

\* io_context_.run() returns when no operation is left.
Return ==
  /\ process = "running"
  /\ accept = "none" /\ signals = "handled"
  /\ \A c \in Connection : work[c] = "none"
  /\ process' = "returned"
  /\ UNCHANGED <<acceptor, accept, signals, came, open, connections, work, result,
                 request, sent, last, parser, reply>>

-----------------------------------------------------------------------------
(* connection                                                              *)

\* The next operation of a connection; on a closed socket it fails at once.
Begin(c, what) ==
  /\ work' = [work EXCEPT ![c] = what]
  /\ result' = [result EXCEPT ![c] = IF c \in open THEN "none" ELSE "failed"]
  /\ UNCHANGED <<open, connections>>

\* A handler that begins no other operation: the connection lives as long as
\* connections_ holds it.
End(c) ==
  /\ work' = [work EXCEPT ![c] = "none"]
  /\ result' = [result EXCEPT ![c] = "none"]

\* connection_manager::stop(), also of a connection that stop_all() has stopped.
Stop(c) ==
  /\ connections' = connections \ {c}
  /\ open' = open \ {c}
  /\ End(c)

Under(c, what) == process = "running" /\ work[c] = what /\ result[c] = "none"

Receive(c) ==
  /\ Under(c, "reading")
  /\ \E n \in 1 .. Len(request[c].pieces) - sent[c] :
       /\ sent' = [sent EXCEPT ![c] = @ + n]
       /\ last' = [last EXCEPT ![c] = n]
  /\ result' = [result EXCEPT ![c] = "ok"]
  /\ UNCHANGED <<process, acceptor, accept, signals, came, open, connections, work,
                 request, parser, reply>>

Written(c) ==
  /\ Under(c, "writing")
  /\ result' = [result EXCEPT ![c] = "ok"]
  /\ reply' = [reply EXCEPT ![c].written = TRUE]
  /\ UNCHANGED <<process, acceptor, accept, signals, came, open, connections, work,
                 request, sent, last, parser>>

\* The client goes away, or the connection breaks.
Break(c) ==
  /\ Under(c, "reading") \/ Under(c, "writing")
  /\ result' = [result EXCEPT ![c] = "failed"]
  /\ UNCHANGED <<process, acceptor, accept, signals, came, open, connections, work,
                 request, sent, last, parser, reply>>

\* Variant: a path that is no file is answered by a redirection.
HandleRequest_Moved(path) ==
  CASE path = "file" -> "ok"
    [] path = "missing" -> "moved_permanently"
    [] path \in {"relative", "undecodable"} -> "bad_request"

\* request_handler::handle_request() with url_decode().
HandleRequest(path) ==
  CASE path = "file" -> "ok"
    [] path = "missing" -> "not_found"
    [] path \in {"relative", "undecodable"} -> "bad_request"

\* Variant: parse() starts from the first state with every read.
Parsed_Reset(c) ==
  Parse(NewParser, Text(request[c], sent[c] - last[c], sent[c]))

Parsed(c) == Parse(parser[c], Text(request[c], sent[c] - last[c], sent[c]))

\* What do_read()'s handler does next.
DoReply(c, p) ==
  \/ /\ Result(p) = "indeterminate"
     /\ Begin(c, "reading")
     /\ reply' = reply
  \/ /\ Result(p) # "indeterminate"
     /\ Begin(c, "writing")
     /\ reply' = [reply EXCEPT ![c].status =
          IF Result(p) = "bad" THEN "bad_request" ELSE HandleRequest(request[c].path)]

\* do_read()'s handler, when the read brought something.
HandleRead(c) ==
  /\ process = "running" /\ work[c] = "reading" /\ result[c] = "ok"
  /\ parser' = [parser EXCEPT ![c] = Parsed(c)]
  /\ DoReply(c, Parsed(c))
  /\ last' = [last EXCEPT ![c] = 0]
  /\ UNCHANGED <<process, acceptor, accept, signals, came, request, sent>>

\* Undefined behaviour that ends the process.  With every read a string is made of
\* what follows the place where parse() stopped, up to a NUL that nobody has put
\* there; it may be past the end of the buffer.  (That parse_paremeters() goes on
\* from such a string, as far as Content-Length says and for the second half of
\* each pair, whether there is one or not, adds no other end.)
Crash(c) ==
  /\ process = "running" /\ work[c] = "reading" /\ result[c] = "ok"
  /\ process' = "crashed"
  /\ UNCHANGED <<acceptor, accept, signals, came, open, connections, work, result,
                 request, sent, last, parser, reply>>

\* The handlers of a failed read and of a write, failed or not.
HandleEnd(c) ==
  /\ process = "running"
  /\ \/ work[c] = "reading" /\ result[c] = "failed"
     \/ work[c] = "writing" /\ result[c] \in {"ok", "failed"}
  /\ Stop(c)
  /\ UNCHANGED <<process, acceptor, accept, signals, came, request, sent, last,
                 parser, reply>>

\* operation_aborted: whoever closed the socket has erased the connection.
HandleAborted(c) ==
  /\ process = "running" /\ result[c] = "aborted"
  /\ End(c)
  /\ UNCHANGED <<process, acceptor, accept, signals, came, open, connections,
                 request, sent, last, parser, reply>>

-----------------------------------------------------------------------------
Handlers(c) ==
  HandleRead(c) \/ Crash(c) \/ HandleEnd(c) \/ HandleAborted(c)

Next ==
  \/ AcceptFails \/ HandleAccept \/ Signal \/ HandleSignal \/ Return
  \/ \E c \in Connection :
       Connect(c) \/ Receive(c) \/ Written(c) \/ Break(c) \/ Handlers(c)

Spec == Init /\ [][Next]_vars

\* The io_context runs every handler that is queued.  No client need send, take or
\* close anything.
Fairness ==
  /\ WF_vars(HandleAccept) /\ WF_vars(HandleSignal) /\ WF_vars(Return)
  /\ \A c \in Connection : WF_vars(Handlers(c))

FairSpec == Spec /\ Fairness

-----------------------------------------------------------------------------
(* Properties                                                              *)

Statuses == {"none", "ok", "not_found", "bad_request"}

TypeOK ==
  /\ process \in {"running", "returned", "crashed"}
  /\ acceptor \in BOOLEAN
  /\ accept \in {"none", "pending", "aborted", "failed"} \cup Connection
  /\ signals \in {"waiting", "queued", "handled"}
  /\ open \subseteq came /\ connections \subseteq came /\ came \subseteq Connection
  /\ work \in [Connection -> {"none", "reading", "writing"}]
  /\ result \in [Connection -> {"none", "ok", "failed", "aborted"}]
  /\ request \in [Connection -> Requests]
  /\ \A c \in Connection : /\ sent[c] \in 0 .. Len(request[c].pieces)
                           /\ last[c] \in 0 .. sent[c]
  /\ parser \in [Connection -> Parser]
  /\ reply \in [Connection -> [status : Statuses, written : BOOLEAN]]

\* A good request with one character replaced, inserted or left out.
Base == Line \o Fields
Slips ==
  LET before(i) == SubSeq(Base, 1, i - 1)
      from(i) == SubSeq(Base, i, Len(Base))
      left == {before(i) \o from(i + 1) : i \in DOMAIN Base}
      put(i, j) == {before(i) \o <<x>> \o from(j) : x \in Class}
  IN  {Base} \cup left \cup UNION {put(i, i) \cup put(i, i + 1) : i \in DOMAIN Base}

\* consume() is a table of twenty states written by hand.  Whatever character of a
\* request is replaced, inserted or left out, and wherever it is cut into two
\* reads: parse() says good just if the text holds what IsRequest says a request
\* is.  (Checked before the first connection.)
ParserMatchesGrammar ==
  came = {} => \A text \in Slips :
    LET good == HoldsRequest(text)
        parsed(k) ==
          Parse(Parse(NewParser, SubSeq(text, 1, k)), SubSeq(text, k + 1, Len(text)))
    IN  \A k \in 0 .. Len(text) : (Result(parsed(k)) = "good") = good

\* The reply the client of a request should get.
Expected(r) ==
  IF HoldsRequest(Text(r, 0, 2)) THEN HandleRequest(r.path) ELSE "bad_request"

ExpectedReply == [r \in Requests |-> Expected(r)]

\* A request comes in any number of reads, and others are handled and stopped
\* between them.  What is written is the reply to the whole request.
ReplyFitsRequest ==
  \A c \in Connection : reply[c].written => reply[c].status = ExpectedReply[request[c]]

\* stop_all() closes the connections while their handlers, and that of an accept,
\* are queued; those still parse, reply, and stop the connection once more.  No
\* socket is open and no connection is kept after it.
StopClosesAll ==
  /\ open = connections
  /\ signals = "handled" => open = {}

\* Once a signal has come every operation is aborted or fails, so run() returns,
\* whatever the clients do.
RunReturns == signals = "queued" ~> process # "running"

==============================================================================

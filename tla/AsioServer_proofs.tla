----------------------------- MODULE AsioServer_proofs -----------------------------
(***************************************************************************)
(* Theorems about AsioServer and its RequestParser, for any number of      *)
(* connections.  First that the server stops everything; then what each    *)
(* state of consume() means, for every text, and so that parse() says good *)
(* of just the requests; then that parse() does not mind how a text is cut *)
(* into reads; last that the replies are those to the requests.            *)
(***************************************************************************)
EXTENDS AsioServer, WellFoundedInduction, SequenceTheorems, TLAPS

-----------------------------------------------------------------------------
(* Stopping                                                                *)

\* The acceptor is closed with the connections, so an accept whose handler is queued
\* by then starts none.
StopInv ==
  /\ open = connections
  /\ signals = "handled" => ~acceptor /\ open = {}

\* The constructor of the server, with its first accept under way, is such a state.
LEMMA StopInit == Init => StopInv
BY DEF Init, StopInv

\* Every handler keeps it so: stop_all() empties the manager and closes the acceptor at once.
LEMMA StopStep == StopInv /\ [Next]_vars => StopInv'
<1> SUFFICES ASSUME StopInv, [Next]_vars PROVE StopInv'
  OBVIOUS
<1> USE DEF StopInv
<1>1. CASE AcceptFails
  BY <1>1 DEF AcceptFails
<1>2. CASE HandleAccept
  <2>1. CASE ~acceptor /\ UNCHANGED <<open, connections>>
    BY <1>2, <2>1 DEF HandleAccept
  <2>2. CASE acceptor /\ Start(accept)
    <3>1. open' = connections' /\ signals' # "handled"
      BY <1>2, <2>2 DEF HandleAccept, Start
    <3> QED
      BY <3>1
  <2>3. CASE acceptor /\ UNCHANGED <<open, connections>>
    BY <1>2, <2>3 DEF HandleAccept
  <2> QED
    BY <1>2, <2>1, <2>2, <2>3 DEF HandleAccept
<1>3. CASE Signal \/ Return
  BY <1>3 DEF Signal, Return
<1>4. CASE HandleSignal
  BY <1>4 DEF HandleSignal
<1>5. ASSUME NEW c \in Connection, Connect(c) \/ Receive(c) \/ Written(c) \/ Break(c)
      PROVE  StopInv'
  BY <1>5 DEF Connect, Receive, Written, Break
<1>6. ASSUME NEW c \in Connection, HandleRead(c) PROVE StopInv'
  BY <1>6 DEF HandleRead, DoReply, Begin
<1>7. ASSUME NEW c \in Connection, Crash(c) \/ HandleAborted(c) PROVE StopInv'
  BY <1>7 DEF Crash, HandleAborted
<1>8. ASSUME NEW c \in Connection, HandleEnd(c) PROVE StopInv'
  BY <1>8 DEF HandleEnd, Stop
<1>9. CASE UNCHANGED vars
  BY <1>9 DEF vars
<1> QED
  BY <1>1, <1>2, <1>3, <1>4, <1>5, <1>6, <1>7, <1>8, <1>9 DEF Next, Handlers

\* A connection is open just if the manager keeps it, and once the signal was handled
\* none is, whatever handlers of reads, writes and accepts were queued by then.
THEOREM AllClosed == Spec => []StopClosesAll
<1>1. StopInv => StopClosesAll
  BY DEF StopInv, StopClosesAll
<1>2. Init => StopInv
  BY StopInit
<1>3. StopInv /\ [Next]_vars => StopInv'
  BY StopStep
<1> QED
  BY <1>1, <1>2, <1>3, PTL DEF Spec

-----------------------------------------------------------------------------
(* Naturals, and runs                                                      *)

\* A set of naturals with an element has a least one: the first character that is no
\* blank ends header_lws.
LEMMA LeastOf == \A T \in SUBSET Nat : T # {} => \E x \in T : \A y \in T : x <= y
<1> SUFFICES ASSUME NEW T \in SUBSET Nat, T # {} PROVE \E x \in T : \A y \in T : x <= y
  OBVIOUS
<1>1. IsWellFoundedOn(OpToRel(<,Nat), Nat)
  BY NatLessThanWellFounded
<1>2. \E x \in T : \A y \in T : <<y,x>> \notin OpToRel(<,Nat)
  BY <1>1, WFMin, Zenon
<1>3. PICK x \in T : \A y \in T : <<y,x>> \notin OpToRel(<,Nat)
  BY <1>2
<1>4. \A y \in T : ~(y < x)
  BY <1>3 DEF OpToRel
<1> QED BY <1>4

\* Induction over the naturals, of a set: parse() goes on character by character.
LEMMA SetInduction ==
  ASSUME NEW S \in SUBSET Nat, 0 \in S, \A n \in Nat : n \in S => n + 1 \in S
  PROVE  S = Nat
<1>1. SUFFICES ASSUME S # Nat PROVE FALSE
  OBVIOUS
<1>2. PICK x \in Nat \ S : \A y \in Nat \ S : x <= y
  BY <1>1, LeastOf
<1>3. x # 0 /\ x - 1 \in Nat /\ x - 1 \in S
  BY <1>2
<1> QED BY <1>2, <1>3

\* A bounded set of naturals with an element has a greatest one: the end of the line
\* that consume() read before the last.
LEMMA GreatestOf ==
  ASSUME NEW n \in Nat, NEW T \in SUBSET (1 .. n), T # {}
  PROVE  \E g \in T : \A c \in T : c <= g
<1> DEFINE U == {d \in Nat : n - d \in T}
<1>1. U # {}
  <2>1. PICK c \in T : TRUE
    OBVIOUS
  <2>2. n - c \in Nat /\ n - (n - c) = c
    BY <2>1
  <2> QED BY <2>1, <2>2
<1>2. PICK d \in U : \A e \in U : d <= e
  <2>1. U \in SUBSET Nat
    OBVIOUS
  <2> QED BY <1>1, <2>1, LeastOf
<1>3. ASSUME NEW c \in T PROVE c <= n - d
  <2>1. n - c \in Nat /\ n - (n - c) = c
    OBVIOUS
  <2>2. n - c \in U
    BY <2>1
  <2>3. d <= n - c /\ d \in Nat /\ c \in Nat
    BY <1>2, <2>2
  <2> QED BY <2>3
<1> QED BY <1>2, <1>3

\* Functions by which a run of n steps over S goes on.
Steps(S, n) == [1 .. n -> [S -> S]]

\* There is a run from p by these steps.
HasRun(S, p, n, step) ==
  \E run \in [0 .. n -> S] :
    run[0] = p /\ \A i \in 1 .. n : run[i] = step[i][run[i - 1]]

\* A run by given steps exists: parse()'s loop, before it is defined by recursion.
LEMMA RunExists ==
  ASSUME NEW S, NEW p \in S, NEW n \in Nat, NEW step \in Steps(S, n)
  PROVE  HasRun(S, p, n, step)
<1> DEFINE Runs(m) == {run \in [0 .. m -> S] :
                         run[0] = p /\ \A i \in 1 .. m : run[i] = step[i][run[i - 1]]}
           G == {m \in Nat : m <= n => Runs(m) # {}}
<1>1. 0 \in G
  <2> DEFINE r == [i \in 0 .. 0 |-> p]
  <2>1. r \in [0 .. 0 -> S] /\ r[0] = p
    OBVIOUS
  <2>2. \A i \in 1 .. 0 : FALSE
    OBVIOUS
  <2> HIDE DEF r
  <2>3. r \in Runs(0)
    BY <2>1, <2>2
  <2> QED BY <2>3
<1>2. ASSUME NEW m \in Nat, m \in G PROVE m + 1 \in G
  <2>1. SUFFICES ASSUME m + 1 <= n PROVE Runs(m + 1) # {}
    OBVIOUS
  <2>2. m <= n
    BY <2>1
  <2>3. PICK run \in [0 .. m -> S] :
          run[0] = p /\ \A i \in 1 .. m : run[i] = step[i][run[i - 1]]
    BY <1>2, <2>2
  <2>4. PICK next \in S : next = step[m + 1][run[m]]
    <3>1. m + 1 \in 1 .. n /\ m \in 0 .. m
      BY <2>1
    <3> QED BY <3>1 DEF Steps
  <2> DEFINE r == [i \in 0 .. m + 1 |-> IF i = m + 1 THEN next ELSE run[i]]
  <2>5. \A i \in 0 .. m + 1 : i = m + 1 \/ i \in 0 .. m
    OBVIOUS
  <2>6. r \in [0 .. m + 1 -> S]
    BY <2>5
  <2>7. r[m + 1] = next /\ \A i \in 0 .. m : r[i] = run[i]
    OBVIOUS
  <2> HIDE DEF r
  <2>8. r[0] = p
    BY <2>3, <2>7
  <2>9. ASSUME NEW i \in 1 .. m + 1 PROVE r[i] = step[i][r[i - 1]]
    <3>1. CASE i = m + 1
      <4>1. i - 1 = m /\ m \in 0 .. m
        BY <3>1
      <4>2. r[i - 1] = run[m]
        BY <4>1, <2>7
      <4> QED BY <2>4, <2>7, <3>1, <4>2
    <3>2. CASE i # m + 1
      <4>1. i \in 1 .. m /\ i \in 0 .. m /\ i - 1 \in 0 .. m
        BY <3>2
      <4>2. run[i] = step[i][run[i - 1]]
        BY <2>3, <4>1
      <4>3. r[i] = run[i] /\ r[i - 1] = run[i - 1]
        BY <2>7, <4>1
      <4> QED BY <4>2, <4>3
    <3> QED BY <3>1, <3>2
  <2>10. r \in Runs(m + 1)
    BY <2>6, <2>8, <2>9
  <2> QED BY <2>10
<1>3. G \in SUBSET Nat
  OBVIOUS
<1> HIDE DEF G
<1>4. G = Nat
  BY <1>1, <1>2, <1>3, SetInduction
<1>5. Runs(n) # {}
  <2>1. n \in G
    BY <1>4
  <2> QED BY <2>1 DEF G
<1> QED BY <1>5 DEF HasRun

\* The parser's states along a text

-----------------------------------------------------------------------------
(* What the states of consume() mean                                       *)

\* The characters consume() accepts in a URI.
UriChars == Class \ (Ctl \cup {"sp"})

\* The blanks with which a line continues the header before it.
Blanks == {"sp", "tab"}

\* Some line ends before the last one: there is a header to continue.
More(s, i) == \E c \in Ends(s, i) : c + 1 < i

\* What the first i characters of a text are when consume() is in each of its
\* states, named as in enum state: a method begun, a URI begun, and so on.
InMethod(s, i) == i > 0 /\ All(s, 1, i, Token)
InUri(s, i) == \E k \in 2 .. i : s[k] = "sp" /\ InMethod(s, k - 1) /\ All(s, k + 1, i, UriChars)
InH(s, i) == i > 0 /\ InUri(s, i - 1) /\ s[i] = "sp"
InT1(s, i) == i > 0 /\ InH(s, i - 1) /\ s[i] = "H"
InT2(s, i) == i > 0 /\ InT1(s, i - 1) /\ s[i] = "T"
InP(s, i) == i > 0 /\ InT2(s, i - 1) /\ s[i] = "T"
InSlash(s, i) == i > 0 /\ InP(s, i - 1) /\ s[i] = "P"
InMajorStart(s, i) == i > 0 /\ InSlash(s, i - 1) /\ s[i] = "/"
InMajor(s, i) == \E k \in 0 .. i - 1 : InMajorStart(s, k) /\ All(s, k + 1, i, {"digit"})
InMinorStart(s, i) == i > 0 /\ InMajor(s, i - 1) /\ s[i] = "."
InMinor(s, i) == \E k \in 0 .. i - 1 : InMinorStart(s, k) /\ All(s, k + 1, i, {"digit"})
InNewline1(s, i) == i > 0 /\ InMinor(s, i - 1) /\ s[i] = "cr"
InName(s, i) == \E a \in 0 .. i - 1 : IsHead(s, a) /\ All(s, a + 1, i, Token)
InBeforeValue(s, i) == i > 0 /\ InName(s, i - 1) /\ s[i] = ":"
InLws(s, i) == \E a \in 0 .. i - 1 : IsHead(s, a) /\ More(s, a) /\ All(s, a + 1, i, Blanks)
InValue(s, i) ==
  \E k \in 1 .. i :
    /\ \/ InBeforeValue(s, k - 1) /\ s[k] = "sp"
       \/ InLws(s, k - 1) /\ s[k] \in UriChars
    /\ All(s, k + 1, i, Class \ Ctl)
InNewline2(s, i) == i > 0 /\ (InValue(s, i - 1) \/ InLws(s, i - 1)) /\ s[i] = "cr"
InNewline3(s, i) == i > 0 /\ IsHead(s, i - 1) /\ s[i] = "cr"
InGood(s, i) == \E n \in 1 .. i : IsRequest(s, n)

\* The states before the first header can have begun, and those after.
Early == {"method_start", "method", "uri", "http_version_h", "http_version_t_1",
          "http_version_t_2", "http_version_p", "http_version_slash",
          "http_version_major_start", "http_version_major", "http_version_minor_start",
          "http_version_minor", "expecting_newline_1"}
Late == {"header_name", "space_before_header_value", "header_value", "header_lws",
         "expecting_newline_2"}

\* After i characters of s the parser q is in a state just if they are what that
\* state means, and request.headers is empty just as long as there is no header.
At(s, i, q) ==
  /\ q.state = "method_start" <=> i = 0
  /\ q.state = "method" <=> InMethod(s, i)
  /\ q.state = "uri" <=> InUri(s, i)
  /\ q.state = "http_version_h" <=> InH(s, i)
  /\ q.state = "http_version_t_1" <=> InT1(s, i)
  /\ q.state = "http_version_t_2" <=> InT2(s, i)
  /\ q.state = "http_version_p" <=> InP(s, i)
  /\ q.state = "http_version_slash" <=> InSlash(s, i)
  /\ q.state = "http_version_major_start" <=> InMajorStart(s, i)
  /\ q.state = "http_version_major" <=> InMajor(s, i)
  /\ q.state = "http_version_minor_start" <=> InMinorStart(s, i)
  /\ q.state = "http_version_minor" <=> InMinor(s, i)
  /\ q.state = "expecting_newline_1" <=> InNewline1(s, i)
  /\ q.state = "header_line_start" <=> IsHead(s, i)
  /\ q.state = "header_name" <=> InName(s, i)
  /\ q.state = "space_before_header_value" <=> InBeforeValue(s, i)
  /\ q.state = "header_value" <=> InValue(s, i)
  /\ q.state = "header_lws" <=> InLws(s, i)
  /\ q.state = "expecting_newline_2" <=> InNewline2(s, i)
  /\ q.state = "expecting_newline_3" <=> InNewline3(s, i)
  /\ q.state = "good" <=> InGood(s, i)
  /\ q.state \in Early => ~q.headers
  /\ q.state \in Late => q.headers
  /\ q.state = "header_line_start" => (q.headers <=> More(s, i))

-----------------------------------------------------------------------------
(* The table of consume()                                                  *)

\* The rows of the table, one by one.
Step(s, x, t) ==
  \/ s = "method_start" /\ x \in Token /\ t = "method"
  \/ s = "method" /\ x \in {"sp"} /\ t = "uri"
  \/ s = "method" /\ x \in Token /\ t = "method"
  \/ s = "uri" /\ x \in {"sp"} /\ t = "http_version_h"
  \/ s = "uri" /\ x \in UriChars /\ t = "uri"
  \/ s = "http_version_h" /\ x \in {"H"} /\ t = "http_version_t_1"
  \/ s = "http_version_t_1" /\ x \in {"T"} /\ t = "http_version_t_2"
  \/ s = "http_version_t_2" /\ x \in {"T"} /\ t = "http_version_p"
  \/ s = "http_version_p" /\ x \in {"P"} /\ t = "http_version_slash"
  \/ s = "http_version_slash" /\ x \in {"/"} /\ t = "http_version_major_start"
  \/ s = "http_version_major_start" /\ x \in {"digit"} /\ t = "http_version_major"
  \/ s = "http_version_major" /\ x \in {"digit"} /\ t = "http_version_major"
  \/ s = "http_version_major" /\ x \in {"."} /\ t = "http_version_minor_start"
  \/ s = "http_version_minor_start" /\ x \in {"digit"} /\ t = "http_version_minor"
  \/ s = "http_version_minor" /\ x \in {"digit"} /\ t = "http_version_minor"
  \/ s = "http_version_minor" /\ x \in {"cr"} /\ t = "expecting_newline_1"
  \/ s = "expecting_newline_1" /\ x \in {"lf"} /\ t = "header_line_start"
  \/ s = "header_line_start" /\ x \in {"cr"} /\ t = "expecting_newline_3"
  \/ s = "header_line_start" /\ x \in Token /\ t = "header_name"
  \/ s = "header_name" /\ x \in {":"} /\ t = "space_before_header_value"
  \/ s = "header_name" /\ x \in Token /\ t = "header_name"
  \/ s = "space_before_header_value" /\ x \in {"sp"} /\ t = "header_value"
  \/ s = "header_value" /\ x \in {"cr"} /\ t = "expecting_newline_2"
  \/ s = "header_value" /\ x \in Class \ Ctl /\ t = "header_value"
  \/ s = "header_lws" /\ x \in {"cr"} /\ t = "expecting_newline_2"
  \/ s = "header_lws" /\ x \in {"sp", "tab"} /\ t = "header_lws"
  \/ s = "header_lws" /\ x \in UriChars /\ t = "header_value"
  \/ s = "expecting_newline_2" /\ x \in {"lf"} /\ t = "header_line_start"
  \/ s = "expecting_newline_3" /\ x \in {"lf"} /\ t = "good"

\* The rows of consume()'s table, as members of it.
LEMMA EdgesHere ==
  /\ <<"method_start", Token, "method">> \in Edges
  /\ <<"method", {"sp"}, "uri">> \in Edges
  /\ <<"method", Token, "method">> \in Edges
  /\ <<"uri", {"sp"}, "http_version_h">> \in Edges
  /\ <<"uri", UriChars, "uri">> \in Edges
  /\ <<"http_version_h", {"H"}, "http_version_t_1">> \in Edges
  /\ <<"http_version_t_1", {"T"}, "http_version_t_2">> \in Edges
  /\ <<"http_version_t_2", {"T"}, "http_version_p">> \in Edges
  /\ <<"http_version_p", {"P"}, "http_version_slash">> \in Edges
  /\ <<"http_version_slash", {"/"}, "http_version_major_start">> \in Edges
  /\ <<"http_version_major_start", {"digit"}, "http_version_major">> \in Edges
  /\ <<"http_version_major", {"digit"}, "http_version_major">> \in Edges
  /\ <<"http_version_major", {"."}, "http_version_minor_start">> \in Edges
  /\ <<"http_version_minor_start", {"digit"}, "http_version_minor">> \in Edges
  /\ <<"http_version_minor", {"digit"}, "http_version_minor">> \in Edges
  /\ <<"http_version_minor", {"cr"}, "expecting_newline_1">> \in Edges
  /\ <<"expecting_newline_1", {"lf"}, "header_line_start">> \in Edges
  /\ <<"header_line_start", {"cr"}, "expecting_newline_3">> \in Edges
  /\ <<"header_line_start", Token, "header_name">> \in Edges
  /\ <<"header_name", {":"}, "space_before_header_value">> \in Edges
  /\ <<"header_name", Token, "header_name">> \in Edges
  /\ <<"space_before_header_value", {"sp"}, "header_value">> \in Edges
  /\ <<"header_value", {"cr"}, "expecting_newline_2">> \in Edges
  /\ <<"header_value", Class \ Ctl, "header_value">> \in Edges
  /\ <<"header_lws", {"cr"}, "expecting_newline_2">> \in Edges
  /\ <<"header_lws", {"sp", "tab"}, "header_lws">> \in Edges
  /\ <<"header_lws", UriChars, "header_value">> \in Edges
  /\ <<"expecting_newline_2", {"lf"}, "header_line_start">> \in Edges
  /\ <<"expecting_newline_3", {"lf"}, "good">> \in Edges
BY DEF Edges, UriChars

\* A row of consume()'s table is a state, characters and a state.
LEMMA EdgesTriples == \A e \in Edges : e = <<e[1], e[2], e[3]>>
BY DEF Edges

\* Every row of consume()'s table is one that Step lists.
LEMMA EdgesStep ==
  ASSUME NEW s, NEW S, NEW t, NEW x, <<s, S, t>> \in Edges, x \in S
  PROVE  Step(s, x, t)
BY DEF Edges, Step, UriChars

\* The states that consume() can take are those that Step lists.
LEMMA ToStep ==
  ASSUME NEW s, NEW x, NEW t
  PROVE  t \in To(s, x) <=> Step(s, x, t)
<1>1. ASSUME t \in To(s, x) PROVE Step(s, x, t)
  <2>1. PICK e \in Edges : e[1] = s /\ x \in e[2] /\ e[3] = t
    BY <1>1 DEF To
  <2> QED BY <2>1, EdgesTriples, EdgesStep
<1>2. ASSUME NEW S, <<s, S, t>> \in Edges, x \in S PROVE t \in To(s, x)
  BY <1>2 DEF To
<1>3. ASSUME Step(s, x, t) PROVE t \in To(s, x)
  BY <1>2, <1>3, EdgesHere DEF Step
<1> QED BY <1>1, <1>3

\* The states from which consume() goes on.
LEMMA ParserStatesAre ==
  ParserStates = Early \cup Late \cup {"header_line_start", "expecting_newline_3"}
<1>1. ParserStates \subseteq Early \cup Late \cup {"header_line_start", "expecting_newline_3"}
  BY DEF ParserStates, Edges, Early, Late
<1>2. ASSUME NEW s, NEW S, NEW t, <<s, S, t>> \in Edges PROVE s \in ParserStates
  BY <1>2 DEF ParserStates
<1>4. ASSUME NEW s \in Early \cup Late \cup {"header_line_start", "expecting_newline_3"}
      PROVE  s \in ParserStates
  BY <1>2, EdgesHere DEF Early, Late
<1> QED BY <1>1, <1>4

\* No two rows of consume()'s table apply to one state and character.
LEMMA Deterministic ==
  ASSUME NEW s, NEW x \in Class, NEW t, NEW u, Step(s, x, t), Step(s, x, u)
  PROVE t = u
BY DEF Step, Token, Special, Ctl, Class, UriChars

\* The row of consume()'s table that applies is the one it takes; with none it is bad.
LEMMA Found ==
  ASSUME NEW s, NEW x \in Class, NEW found,
         found = IF To(s, x) = {} THEN "bad" ELSE CHOOSE t \in To(s, x) : TRUE
  PROVE  /\ \A t : t # "bad" => (found = t <=> Step(s, x, t))
         /\ found \in ParserStates \cup {"good", "bad"}
<1>1. ASSUME NEW t, t # "bad" PROVE found = t <=> Step(s, x, t)
  <2>1. CASE To(s, x) = {}
    BY <1>1, <2>1, ToStep
  <2>2. CASE To(s, x) # {}
    <3>1. found \in To(s, x)
      BY <2>2
    <3>2. Step(s, x, t) => found = t
      BY <3>1, ToStep, Deterministic
    <3> QED BY <3>1, <3>2, ToStep
  <2> QED BY <2>1, <2>2
<1>2. found \in ParserStates \cup {"good", "bad"}
  <2>1. CASE found # "bad"
    <3>1. Step(s, x, found)
      BY <1>1, <2>1
    <3> QED BY <3>1, ParserStatesAre DEF Step, Early, Late
  <2> QED BY <2>1
<1> QED BY <1>1, <1>2

\* What consume() does to a parser q with a character x, said of each state by
\* itself: from where and by which characters r is reached.
Goes(q, x, r) ==
  /\ r.state # "method_start"
  /\ r.state = "method" <=> q.state \in {"method_start", "method"} /\ x \in Token
  /\ r.state = "uri" <=> \/ q.state = "method" /\ x = "sp"
                         \/ q.state = "uri" /\ x \in UriChars
  /\ r.state = "http_version_h" <=> q.state = "uri" /\ x = "sp"
  /\ r.state = "http_version_t_1" <=> q.state = "http_version_h" /\ x = "H"
  /\ r.state = "http_version_t_2" <=> q.state = "http_version_t_1" /\ x = "T"
  /\ r.state = "http_version_p" <=> q.state = "http_version_t_2" /\ x = "T"
  /\ r.state = "http_version_slash" <=> q.state = "http_version_p" /\ x = "P"
  /\ r.state = "http_version_major_start" <=> q.state = "http_version_slash" /\ x = "/"
  /\ r.state = "http_version_major" <=>
       q.state \in {"http_version_major_start", "http_version_major"} /\ x = "digit"
  /\ r.state = "http_version_minor_start" <=> q.state = "http_version_major" /\ x = "."
  /\ r.state = "http_version_minor" <=>
       q.state \in {"http_version_minor_start", "http_version_minor"} /\ x = "digit"
  /\ r.state = "expecting_newline_1" <=> q.state = "http_version_minor" /\ x = "cr"
  /\ r.state = "header_line_start" <=>
       q.state \in {"expecting_newline_1", "expecting_newline_2"} /\ x = "lf"
  /\ r.state = "header_name" <=> q.state \in {"header_line_start", "header_name"} /\ x \in Token
  /\ r.state = "space_before_header_value" <=> q.state = "header_name" /\ x = ":"
  /\ r.state = "header_value" <=> \/ q.state = "space_before_header_value" /\ x = "sp"
                                  \/ q.state = "header_value" /\ x \in Class \ Ctl
                                  \/ q.state = "header_lws" /\ x \in UriChars
  /\ r.state = "header_lws" <=> \/ q.state = "header_line_start" /\ q.headers /\ x \in Blanks
                                \/ q.state = "header_lws" /\ x \in Blanks
  /\ r.state = "expecting_newline_2" <=> q.state \in {"header_value", "header_lws"} /\ x = "cr"
  /\ r.state = "expecting_newline_3" <=> q.state = "header_line_start" /\ x = "cr"
  /\ r.state = "good" <=> \/ q.state = "good"
                          \/ q.state = "expecting_newline_3" /\ x = "lf"
  /\ r.headers <=> q.headers \/ r.state = "header_name"

\* consume() does to a parser in any state, with any character, what Goes says.
LEMMA ConsumeGoes ==
  ASSUME NEW q \in Parser, NEW x \in Class
  PROVE  Consume[q][x] \in Parser /\ Goes(q, x, Consume[q][x])
<1> DEFINE r == Consume[q][x]
<1>1. PICK found : found = IF To(q.state, x) = {} THEN "bad" ELSE CHOOSE t \in To(q.state, x) : TRUE
  OBVIOUS
<1>2. PICK next : next = IF Continues(q, x) THEN "header_lws" ELSE found
  OBVIOUS
<1>3. r = IF Result(q) # "indeterminate" THEN q
          ELSE [state |-> next, headers |-> q.headers \/ next = "header_name"]
  BY <1>1, <1>2, Zenon DEF Consume
<1> HIDE DEF r
<1> SUFFICES r \in Parser /\ Goes(q, x, r)
  BY DEF r
<1>4. q.state \in ParserStates \cup {"good", "bad"} /\ q.headers \in BOOLEAN
  BY DEF Parser
<1>5. CASE Result(q) # "indeterminate"
  <2>1. r = q /\ q.state \in {"good", "bad"}
    BY <1>3, <1>5 DEF Result
  <2>2. Goes(q, x, q)
    BY <2>1 DEF Goes
  <2> QED BY <2>1, <2>2
<1>6. CASE Result(q) = "indeterminate"
  <2>1. q.state \notin {"good", "bad"}
    BY <1>6 DEF Result
  <2>2. PICK h \in BOOLEAN : h = (q.headers \/ next = "header_name")
    BY Zenon
  <2>3. r = [state |-> next, headers |-> h]
    BY <1>3, <1>6, <2>2
  <2>4. /\ \A t : t # "bad" => (found = t <=> Step(q.state, x, t))
        /\ found \in ParserStates \cup {"good", "bad"}
    BY <1>1, Found
  <2>5. next \in ParserStates \cup {"good", "bad"}
    BY <1>2, <2>4, ParserStatesAre DEF Late
  <2>6. r \in Parser /\ r.state = next /\ (r.headers <=> q.headers \/ r.state = "header_name")
    BY <2>2, <2>3, <2>5 DEF Parser
  <2>7. CASE Continues(q, x)
    <3>1. next = "header_lws" /\ q.state = "header_line_start" /\ q.headers /\ x \in Blanks
      BY <1>2, <2>7 DEF Continues, Blanks
    <3>2. Goes(q, x, r)
      BY <3>1, <2>6 DEF Goes, Blanks, Token
    <3> QED BY <2>6, <3>2
  <2>8. CASE ~Continues(q, x)
    <3>1. next = found /\ ~(q.state = "header_line_start" /\ q.headers /\ x \in Blanks)
      BY <1>2, <2>8 DEF Continues, Blanks
    <3>2. \A t : t # "bad" => (r.state = t <=> Step(q.state, x, t))
      BY <3>1, <2>4, <2>6
    <3>3. r.headers <=> q.headers \/ r.state = "header_name"
      BY <2>6
    <3>4. ~(q.state = "header_line_start" /\ q.headers /\ x \in Blanks)
      BY <3>1
    <3>5. q.state # "good"
      BY <2>1
    <3>7. /\ r.state # "method_start"
          /\ r.state = "method" <=> q.state \in {"method_start", "method"} /\ x \in Token
          /\ r.state = "uri" <=> \/ q.state = "method" /\ x = "sp"
                                 \/ q.state = "uri" /\ x \in UriChars
      BY <3>2, <3>4, <3>5, <2>1 DEF Step, Blanks
    <3>8. /\ r.state = "http_version_h" <=> q.state = "uri" /\ x = "sp"
          /\ r.state = "http_version_t_1" <=> q.state = "http_version_h" /\ x = "H"
          /\ r.state = "http_version_t_2" <=> q.state = "http_version_t_1" /\ x = "T"
      BY <3>2, <3>4, <3>5, <2>1 DEF Step, Blanks
    <3>9. /\ r.state = "http_version_p" <=> q.state = "http_version_t_2" /\ x = "T"
          /\ r.state = "http_version_slash" <=> q.state = "http_version_p" /\ x = "P"
          /\ r.state = "http_version_major_start" <=> q.state = "http_version_slash" /\ x = "/"
      BY <3>2, <3>4, <3>5, <2>1 DEF Step, Blanks
    <3>10. /\ r.state = "http_version_major" <=>
                q.state \in {"http_version_major_start", "http_version_major"} /\ x = "digit"
           /\ r.state = "http_version_minor_start" <=> q.state = "http_version_major" /\ x = "."
           /\ r.state = "http_version_minor" <=>
                q.state \in {"http_version_minor_start", "http_version_minor"} /\ x = "digit"
      BY <3>2, <3>4, <3>5, <2>1 DEF Step, Blanks
    <3>11. /\ r.state = "expecting_newline_1" <=> q.state = "http_version_minor" /\ x = "cr"
           /\ r.state = "header_line_start" <=>
                q.state \in {"expecting_newline_1", "expecting_newline_2"} /\ x = "lf"
           /\ r.state = "header_name" <=> q.state \in {"header_line_start", "header_name"} /\ x \in Token
      BY <3>2, <3>4, <3>5, <2>1 DEF Step, Blanks
    <3>12. /\ r.state = "space_before_header_value" <=> q.state = "header_name" /\ x = ":"
           /\ r.state = "header_value" <=> \/ q.state = "space_before_header_value" /\ x = "sp"
                                           \/ q.state = "header_value" /\ x \in Class \ Ctl
                                           \/ q.state = "header_lws" /\ x \in UriChars
           /\ r.state = "header_lws" <=> \/ q.state = "header_line_start" /\ q.headers /\ x \in Blanks
                                         \/ q.state = "header_lws" /\ x \in Blanks
      BY <3>2, <3>4, <3>5, <2>1 DEF Step, Blanks
    <3>13. /\ r.state = "expecting_newline_2" <=> q.state \in {"header_value", "header_lws"} /\ x = "cr"
           /\ r.state = "expecting_newline_3" <=> q.state = "header_line_start" /\ x = "cr"
           /\ r.state = "good" <=> \/ q.state = "good"
                                   \/ q.state = "expecting_newline_3" /\ x = "lf"
      BY <3>2, <3>4, <3>5, <2>1 DEF Step, Blanks
    <3> QED BY <2>6, <3>3, <3>7, <3>8, <3>9, <3>10, <3>11, <3>12, <3>13 DEF Goes
  <2> QED BY <2>7, <2>8
<1> QED BY <1>5, <1>6

-----------------------------------------------------------------------------
(* The grammar, character by character                                     *)

\* A run of characters grows by one of the same kind: consume() staying in a state.
LEMMA AllNext ==
  ASSUME NEW s, NEW S, NEW a \in Int, NEW i \in Int, a <= i + 1
  PROVE  All(s, a, i + 1, S) <=> All(s, a, i, S) /\ s[i + 1] \in S
BY DEF All

\* An empty run of characters is of every kind: consume() has just entered a state.
LEMMA AllNone ==
  ASSUME NEW s, NEW S, NEW a \in Int, NEW i \in Int, a > i
  PROVE  All(s, a, i, S)
BY DEF All

\* One more character keeps consume() within the method just if it is a token's.
LEMMA MethodGrows ==
  ASSUME NEW s, NEW i \in Nat
  PROVE  InMethod(s, i + 1) <=> (i = 0 \/ InMethod(s, i)) /\ s[i + 1] \in Token
BY AllNext, AllNone DEF InMethod

\* One more character is in the URI after a blank, or after others of the URI.
LEMMA UriGrows ==
  ASSUME NEW s, NEW i \in Nat
  PROVE  InUri(s, i + 1) <=> \/ InMethod(s, i) /\ s[i + 1] = "sp"
                             \/ InUri(s, i) /\ s[i + 1] \in UriChars
<1>1. ASSUME NEW k \in 2 .. i
      PROVE  All(s, k + 1, i + 1, UriChars) <=> All(s, k + 1, i, UriChars) /\ s[i + 1] \in UriChars
  BY AllNext
<1>2. All(s, i + 2, i + 1, UriChars)
  BY AllNone
<1>3. InMethod(s, i) => i >= 1
  BY DEF InMethod
<1>4. InUri(s, i + 1) <=> \/ i + 1 \in 2 .. i + 1 /\ s[i + 1] = "sp" /\ InMethod(s, i)
                          \/ \E k \in 2 .. i : /\ s[k] = "sp" /\ InMethod(s, k - 1)
                                              /\ All(s, k + 1, i + 1, UriChars)
  <2>1. \A k \in 2 .. i + 1 : k \in 2 .. i \/ k = i + 1
    OBVIOUS
  <2>2. i + 1 + 1 = i + 2 /\ i + 1 - 1 = i
    OBVIOUS
  <2>3. \A k \in 2 .. i : k \in 2 .. i + 1
    OBVIOUS
  <2> QED BY <1>2, <2>1, <2>2, <2>3 DEF InUri
<1> QED BY <1>1, <1>3, <1>4 DEF InUri

\* One more character is in the major version just if it is a digit.
LEMMA MajorGrows ==
  ASSUME NEW s, NEW i \in Nat
  PROVE  InMajor(s, i + 1) <=> (InMajorStart(s, i) \/ InMajor(s, i)) /\ s[i + 1] = "digit"
<1>1. ASSUME NEW k \in 0 .. i
      PROVE  All(s, k + 1, i + 1, {"digit"}) <=> All(s, k + 1, i, {"digit"}) /\ s[i + 1] = "digit"
  BY AllNext
<1>2. All(s, i + 1, i, {"digit"})
  BY AllNone
<1>3. \A k : k \in 0 .. i + 1 - 1 <=> k \in 0 .. i - 1 \/ k = i
  OBVIOUS
<1>4. \A k \in 0 .. i - 1 : k \in 0 .. i
  OBVIOUS
<1> QED BY <1>1, <1>2, <1>3, <1>4 DEF InMajor

\* One more character is in the minor version just if it is a digit.
LEMMA MinorGrows ==
  ASSUME NEW s, NEW i \in Nat
  PROVE  InMinor(s, i + 1) <=> (InMinorStart(s, i) \/ InMinor(s, i)) /\ s[i + 1] = "digit"
<1>1. ASSUME NEW k \in 0 .. i
      PROVE  All(s, k + 1, i + 1, {"digit"}) <=> All(s, k + 1, i, {"digit"}) /\ s[i + 1] = "digit"
  BY AllNext
<1>2. All(s, i + 1, i, {"digit"})
  BY AllNone
<1>3. \A k : k \in 0 .. i + 1 - 1 <=> k \in 0 .. i - 1 \/ k = i
  OBVIOUS
<1>4. \A k \in 0 .. i - 1 : k \in 0 .. i
  OBVIOUS
<1> QED BY <1>1, <1>2, <1>3, <1>4 DEF InMinor

\* One more character is in the name of a header just if it is a token's.
LEMMA NameGrows ==
  ASSUME NEW s, NEW i \in Nat
  PROVE  InName(s, i + 1) <=> (IsHead(s, i) \/ InName(s, i)) /\ s[i + 1] \in Token
<1>1. ASSUME NEW k \in 0 .. i
      PROVE  All(s, k + 1, i + 1, Token) <=> All(s, k + 1, i, Token) /\ s[i + 1] \in Token
  BY AllNext
<1>2. All(s, i + 1, i, Token)
  BY AllNone
<1>3. \A k : k \in 0 .. i + 1 - 1 <=> k \in 0 .. i - 1 \/ k = i
  OBVIOUS
<1>4. \A k \in 0 .. i - 1 : k \in 0 .. i
  OBVIOUS
<1> QED BY <1>1, <1>2, <1>3, <1>4 DEF InName

\* One more character is in the blanks of a continuation after a head with a header,
\* or after others of them.
LEMMA LwsGrows ==
  ASSUME NEW s, NEW i \in Nat
  PROVE  InLws(s, i + 1) <=> ((IsHead(s, i) /\ More(s, i)) \/ InLws(s, i)) /\ s[i + 1] \in Blanks
<1>1. ASSUME NEW k \in 0 .. i
      PROVE  All(s, k + 1, i + 1, Blanks) <=> All(s, k + 1, i, Blanks) /\ s[i + 1] \in Blanks
  BY AllNext
<1>2. All(s, i + 1, i, Blanks)
  BY AllNone
<1>3. \A k : k \in 0 .. i + 1 - 1 <=> k \in 0 .. i - 1 \/ k = i
  OBVIOUS
<1>4. \A k \in 0 .. i - 1 : k \in 0 .. i
  OBVIOUS
<1> QED BY <1>1, <1>2, <1>3, <1>4 DEF InLws

\* One more character is in the value of a header after the blank before it, after
\* the blanks of a continuation, or after others of the value.
LEMMA ValueGrows ==
  ASSUME NEW s, NEW i \in Nat
  PROVE  InValue(s, i + 1) <=> \/ InBeforeValue(s, i) /\ s[i + 1] = "sp"
                               \/ InLws(s, i) /\ s[i + 1] \in UriChars
                               \/ InValue(s, i) /\ s[i + 1] \in Class \ Ctl
<1> DEFINE Begins(k) == \/ InBeforeValue(s, k - 1) /\ s[k] = "sp"
                        \/ InLws(s, k - 1) /\ s[k] \in UriChars
<1>1. ASSUME NEW k \in 1 .. i + 1
      PROVE  k <= i => (All(s, k + 1, i + 1, Class \ Ctl)
                         <=> All(s, k + 1, i, Class \ Ctl) /\ s[i + 1] \in Class \ Ctl)
  BY AllNext
<1>2. All(s, i + 1 + 1, i + 1, Class \ Ctl)
  BY AllNone
<1>3. \A k : k \in 1 .. i + 1 <=> (k \in 1 .. i /\ k <= i) \/ k = i + 1
  OBVIOUS
<1>4. Begins(i + 1) <=> \/ InBeforeValue(s, i) /\ s[i + 1] = "sp"
                        \/ InLws(s, i) /\ s[i + 1] \in UriChars
  <2>1. i + 1 - 1 = i
    OBVIOUS
  <2> QED BY <2>1
<1>5. \A j : InValue(s, j) <=> \E k \in 1 .. j : Begins(k) /\ All(s, k + 1, j, Class \ Ctl)
  BY DEF InValue
<1> HIDE DEF Begins
<1> QED BY <1>1, <1>2, <1>3, <1>4, <1>5

\* A line after the request line: a header, or the continuation of one.
Lined(s, a, b) ==
  \/ IsHeader(s, a, b)
  \/ IsContinuation(s, a, b) /\ More(s, a - 1)

\* consume() accepts no CR within a request line.
LEMMA RequestLineIs ==
  ASSUME NEW s, NEW i \in Nat, NEW j \in Nat, i > 0, IsRequestLine(s, i, j)
  PROVE  \A k \in i .. j : s[k] # "cr"
<1>1. PICK k \in i + 1 .. j : \E l \in k + 1 .. j :
    /\ s[k] = "sp" /\ s[l] = "sp"
    /\ All(s, i, k - 1, Token)
    /\ All(s, k + 1, l - 1, UriChars)
    /\ IsVersion(s, l + 1, j)
  BY DEF IsRequestLine, UriChars
<1>2. PICK l \in k + 1 .. j :
    /\ s[k] = "sp" /\ s[l] = "sp"
    /\ All(s, i, k - 1, Token)
    /\ All(s, k + 1, l - 1, UriChars)
    /\ IsVersion(s, l + 1, j)
  BY <1>1
<1>3. PICK m \in l + 1 + 6 .. j :
    /\ s[l + 1] = "H" /\ s[l + 1 + 1] = "T" /\ s[l + 1 + 2] = "T" /\ s[l + 1 + 3] = "P"
    /\ s[l + 1 + 4] = "/" /\ s[m] = "."
    /\ IsNumber(s, l + 1 + 5, m - 1) /\ IsNumber(s, m + 1, j)
  BY <1>2 DEF IsVersion
<1>4. \A n \in i .. k - 1 : s[n] \in Token
  BY <1>2 DEF All
<1>5. \A n \in k + 1 .. l - 1 : s[n] \in UriChars
  BY <1>2 DEF All
<1>6. \A n \in l + 6 .. m - 1 : s[n] = "digit"
  BY <1>3 DEF IsNumber, All
<1>7. \A n \in m + 1 .. j : s[n] = "digit"
  BY <1>3 DEF IsNumber, All
<1>8. ASSUME NEW n \in i .. j, s[n] = "cr" PROVE FALSE
  <2>1. n \notin i .. k - 1 /\ n \notin k + 1 .. l - 1
    BY <1>4, <1>5, <1>8 DEF Token, UriChars, Ctl
  <2>2. n \notin l + 6 .. m - 1 /\ n \notin m + 1 .. j
    BY <1>6, <1>7, <1>8
  <2>3. n # k /\ n # l /\ n # m /\ n # l + 1 /\ n # l + 2 /\ n # l + 3 /\ n # l + 4 /\ n # l + 5
    BY <1>2, <1>3, <1>8
  <2> QED BY <2>1, <2>2, <2>3
<1> QED BY <1>8

\* consume() accepts no CR within a header or a continuation, and neither is empty.
LEMMA LinedIs ==
  ASSUME NEW s, NEW i \in Nat, NEW j \in Nat, i > 0, IsHeader(s, i, j) \/ IsContinuation(s, i, j)
  PROVE  i <= j /\ \A k \in i .. j : s[k] # "cr"
<1>1. CASE IsHeader(s, i, j)
  <2>1. PICK k \in i + 1 .. j - 1 :
          /\ s[k] = ":" /\ s[k + 1] = "sp"
          /\ All(s, i, k - 1, Token)
          /\ All(s, k + 2, j, Class \ Ctl)
    BY <1>1 DEF IsHeader
  <2>2. ASSUME NEW n \in i .. j, s[n] = "cr" PROVE FALSE
    <3>1. n \notin i .. k - 1 /\ n \notin k + 2 .. j
      BY <2>1, <2>2 DEF All, Token, Ctl
    <3>2. n # k /\ n # k + 1
      BY <2>1, <2>2
    <3> QED BY <3>1, <3>2
  <2> QED BY <2>1, <2>2
<1>2. CASE IsContinuation(s, i, j)
  <2>1. PICK k \in i .. j : All(s, i, k, {"sp", "tab"}) /\ All(s, k + 1, j, Class \ Ctl)
    BY <1>2 DEF IsContinuation
  <2>2. ASSUME NEW n \in i .. j, s[n] = "cr" PROVE FALSE
    <3>1. n \notin i .. k /\ n \notin k + 1 .. j
      BY <2>1, <2>2 DEF All, Ctl
    <3> QED BY <3>1
  <2> QED BY <2>1, <2>2
<1> QED BY <1>1, <1>2

\* Where consume() is at the start of a line, CR LF came last.
LEMMA HeadBasics ==
  ASSUME NEW s, NEW n \in Nat, IsHead(s, n)
  PROVE  /\ n > 1 /\ s[n - 1] = "cr" /\ s[n] = "lf"
         /\ n - 1 \in Ends(s, n)
         /\ \A b \in Ends(s, n) : b < n /\ s[b + 1] = "lf"
<1>1. n - 1 \in Ends(s, n) /\ \A b \in Ends(s, n) : b < n /\ s[b + 1] = "lf"
  BY DEF IsHead
<1>2. n - 1 \in 1 .. n /\ s[n - 1] = "cr"
  BY <1>1 DEF Ends
<1>3. s[n - 1 + 1] = "lf"
  BY <1>1
<1>4. n - 1 + 1 = n
  OBVIOUS
<1> QED BY <1>1, <1>2, <1>3, <1>4

\* A request line and CR LF are a head without a header: consume() takes no
\* continuation then.
LEMMA HeadFirst ==
  ASSUME NEW s, NEW n \in Nat, n > 1, IsRequestLine(s, 1, n - 2), s[n - 1] = "cr", s[n] = "lf"
  PROVE  IsHead(s, n) /\ ~More(s, n)
<1>1. Ends(s, n) = {n - 1}
  <2>1. n - 2 \in Nat
    OBVIOUS
  <2>2. \A k \in 1 .. n - 2 : s[k] # "cr"
    BY <2>1, RequestLineIs
  <2>3. ASSUME NEW k \in 1 .. n, s[k] = "cr" PROVE k = n - 1
    BY <2>2, <2>3
  <2>4. n - 1 \in 1 .. n
    OBVIOUS
  <2> QED BY <2>3, <2>4 DEF Ends
<1>2. ~More(s, n)
  BY <1>1 DEF More
<1>3. n - 1 + 1 = n /\ n - 1 < n /\ n - 1 - 1 = n - 2 /\ n - 1 + 2 = n + 1
  OBVIOUS
<1>4. ASSUME NEW a \in {1} \cup {b + 2 : b \in Ends(s, n)}, NEW b \in Ends(s, n), a <= b
      PROVE  a = 1 /\ IsRequestLine(s, a, b - 1)
  <2>1. b = n - 1 /\ a \in {1, n + 1}
    BY <1>1, <1>3
  <2>2. a = 1
    BY <2>1, <1>4
  <2> QED BY <1>3, <2>1, <2>2
<1> QED BY <1>1, <1>2, <1>3, <1>4 DEF IsHead

\* A head with one more header or continuation and CR LF is a head with a header.
LEMMA HeadNext ==
  ASSUME NEW s, NEW a \in Nat, NEW n \in Nat, IsHead(s, a), Lined(s, a + 1, n - 2),
         s[n - 1] = "cr", s[n] = "lf"
  PROVE  IsHead(s, n) /\ More(s, n)
<1>1. a > 1 /\ s[a - 1] = "cr" /\ s[a] = "lf" /\ a - 1 \in Ends(s, a)
  BY HeadBasics
<1>2. a + 1 <= n - 2 /\ \A k \in a + 1 .. n - 2 : s[k] # "cr"
  <2>1. n - 2 \in Nat
    <3>1. \E k \in Int : k >= a + 1 /\ k <= n - 2
      BY DEF Lined, IsHeader, IsContinuation
    <3> QED BY <3>1, <1>1
  <2>2. IsHeader(s, a + 1, n - 2) \/ IsContinuation(s, a + 1, n - 2)
    BY DEF Lined
  <2> QED BY <2>1, <2>2, LinedIs
<1>3. Ends(s, n) = Ends(s, a) \cup {n - 1}
  <2>1. ASSUME NEW k \in 1 .. n, s[k] = "cr" PROVE k \in 1 .. a \/ k = n - 1
    BY <2>1, <1>2
  <2>2. n - 1 \in 1 .. n /\ \A k \in 1 .. a : k \in 1 .. n
    BY <1>2
  <2> QED BY <2>1, <2>2 DEF Ends
<1>4. \A c \in Ends(s, a) : c \in Nat /\ c > 0 /\ c < a /\ s[c] = "cr" /\ s[c + 1] = "lf"
  BY HeadBasics DEF Ends
<1>5. More(s, n)
  <2>1. a - 1 \in Ends(s, n) /\ a - 1 + 1 < n
    BY <1>1, <1>2, <1>3
  <2> QED BY <2>1 DEF More
<1>6. /\ n - 1 \in Ends(s, n)
      /\ \A b \in Ends(s, n) : b < n /\ s[b + 1] = "lf"
  <2>1. n - 1 + 1 = n /\ n - 1 < n /\ a < n
    BY <1>2
  <2>2. \A b \in Ends(s, a) : b < n
    BY <1>4, <2>1
  <2> QED BY <1>3, <1>4, <2>1, <2>2
<1>7. ASSUME NEW x \in {1} \cup {b + 2 : b \in Ends(s, n)}, NEW e \in Ends(s, n),
             x <= e, Ends(s, n) \cap (x .. e - 1) = {}
      PROVE  \/ x = 1 /\ IsRequestLine(s, x, e - 1)
             \/ x > 1 /\ IsHeader(s, x, e - 1)
             \/ IsContinuation(s, x, e - 1) /\ \E c \in Ends(s, n) : c + 2 < x
  <2>1. CASE e \in Ends(s, a)
    <3>1. x \in {1} \cup {b + 2 : b \in Ends(s, a)}
      <4>1. x # n - 1 + 2
        BY <1>2, <1>4, <1>7, <2>1
      <4> QED BY <4>1, <1>3
    <3>2. Ends(s, a) \cap (x .. e - 1) = {}
      BY <1>3, <1>7
    <3>3. \/ x = 1 /\ IsRequestLine(s, x, e - 1)
          \/ x > 1 /\ IsHeader(s, x, e - 1)
          \/ IsContinuation(s, x, e - 1) /\ \E c \in Ends(s, a) : c + 2 < x
      BY <1>7, <2>1, <3>1, <3>2 DEF IsHead
    <3> QED BY <3>3, <1>3
  <2>2. CASE e = n - 1
    <3>1. x \in Nat
      BY <1>3, <1>4, <1>2
    <3>2. ~(a - 1 \in x .. e - 1)
      BY <1>1, <1>3, <1>7
    <3>3. x > a - 1
      BY <1>1, <1>2, <2>2, <3>1, <3>2
    <3>4. x # 1
      BY <1>1, <3>1, <3>3
    <3>5. PICK b \in Ends(s, n) : x = b + 2
      BY <1>7, <3>4
    <3>6. b \in Ends(s, a)
      BY <1>3, <1>7, <2>2, <3>5
    <3>7. b = a - 1
      <4>1. b < a /\ b >= a - 2 /\ b \in Nat
        BY <1>4, <3>3, <3>5, <3>6
      <4>2. b # a - 2
        <5>1. ASSUME b = a - 2 PROVE FALSE
          <6>1. b + 1 = a - 1
            BY <1>1, <5>1
          <6> QED BY <6>1, <1>1, <1>4, <3>6
        <5> QED BY <5>1
      <4> QED BY <4>1, <4>2
    <3>8. x = a + 1 /\ e - 1 = n - 2 /\ x > 1 /\ x - 1 = a
      BY <1>1, <2>2, <3>5, <3>7
    <3>9. CASE IsHeader(s, a + 1, n - 2)
      BY <3>8, <3>9
    <3>10. CASE IsContinuation(s, a + 1, n - 2) /\ More(s, a)
      <4>1. PICK c \in Ends(s, a) : c + 1 < a
        BY <3>10 DEF More
      <4>2. c \in Ends(s, n) /\ c + 2 < x
        BY <4>1, <3>8, <1>3, <1>4
      <4> QED BY <4>2, <3>8, <3>10
    <3>11. a + 1 - 1 = a
      OBVIOUS
    <3> QED BY <3>9, <3>10, <3>11 DEF Lined
  <2> QED BY <1>3, <2>1, <2>2
<1> QED BY <1>5, <1>6, <1>7 DEF IsHead

\* A head is a request line, or a shorter head and one more line, before CR LF: the
\* two ways in which consume() comes to header_line_start.
LEMMA HeadLast ==
  ASSUME NEW s, NEW n \in Nat, IsHead(s, n)
  PROVE  \/ IsRequestLine(s, 1, n - 2)
         \/ \E a \in Nat : IsHead(s, a) /\ Lined(s, a + 1, n - 2)
<1>1. n > 1 /\ s[n - 1] = "cr" /\ s[n] = "lf" /\ n - 1 \in Ends(s, n)
  BY HeadBasics
<1>2. \A c \in Ends(s, n) : c \in Nat /\ c > 0 /\ c < n /\ s[c] = "cr" /\ s[c + 1] = "lf"
  BY HeadBasics DEF Ends
<1>3. ASSUME NEW x \in {1} \cup {b + 2 : b \in Ends(s, n)}, NEW e \in Ends(s, n),
             x <= e, Ends(s, n) \cap (x .. e - 1) = {}
      PROVE  \/ x = 1 /\ IsRequestLine(s, x, e - 1)
             \/ x > 1 /\ IsHeader(s, x, e - 1)
             \/ IsContinuation(s, x, e - 1) /\ \E c \in Ends(s, n) : c + 2 < x
  BY <1>3 DEF IsHead
<1>4. n - 1 - 1 = n - 2
  OBVIOUS
<1>5. CASE Ends(s, n) \ {n - 1} = {}
  <2>1. Ends(s, n) \cap (1 .. n - 1 - 1) = {} /\ 1 <= n - 1
    BY <1>1, <1>2, <1>5
  <2>2. \/ IsRequestLine(s, 1, n - 1 - 1)
        \/ \E c \in Ends(s, n) : c + 2 < 1
    BY <1>1, <1>3, <2>1
  <2>3. ~ \E c \in Ends(s, n) : c + 2 < 1
    BY <1>2
  <2> QED BY <1>4, <2>2, <2>3
<1>6. CASE Ends(s, n) \ {n - 1} # {}
  <2>1. PICK g \in Ends(s, n) \ {n - 1} : \A c \in Ends(s, n) \ {n - 1} : c <= g
    <3>1. Ends(s, n) \ {n - 1} \in SUBSET (1 .. n)
      BY DEF Ends
    <3> QED BY <1>6, <3>1, GreatestOf
  <2>2. g \in Nat /\ g > 0 /\ g < n /\ s[g] = "cr" /\ s[g + 1] = "lf"
    BY <1>2
  <2>3. g + 2 <= n - 1
    <3>1. g # n - 1 /\ g + 1 # n - 1
      BY <1>1, <2>2
    <3> QED BY <1>1, <2>2, <3>1
  <2>4. Ends(s, n) \cap (g + 2 .. n - 1 - 1) = {}
    BY <1>2, <2>1, <2>2
  <2>5. \/ IsHeader(s, g + 2, n - 2)
        \/ IsContinuation(s, g + 2, n - 2) /\ \E c \in Ends(s, n) : c + 2 < g + 2
    <3>1. g + 2 \in {1} \cup {b + 2 : b \in Ends(s, n)} /\ g + 2 # 1
      BY <2>2
    <3> QED BY <1>1, <1>3, <1>4, <2>3, <2>4, <3>1
  <2>6. \A c \in Ends(s, n) : c <= g \/ c = n - 1
    BY <2>1
  <2>7. Ends(s, g + 1) = {c \in Ends(s, n) : c <= g}
    <3>1. ASSUME NEW c \in Ends(s, g + 1) PROVE c \in Ends(s, n) /\ c <= g
      <4>1. c \in 1 .. g + 1 /\ s[c] = "cr"
        BY DEF Ends
      <4>2. c # g + 1
        BY <2>2, <4>1
      <4> QED BY <2>2, <4>1, <4>2 DEF Ends
    <3>2. ASSUME NEW c \in Ends(s, n), c <= g PROVE c \in Ends(s, g + 1)
      BY <1>2, <2>2, <3>2 DEF Ends
    <3> QED BY <3>1, <3>2
  <2>8. IsHead(s, g + 1)
    <3>1. g + 1 - 1 \in Ends(s, g + 1)
      BY <2>2, <2>7
    <3>2. \A b \in Ends(s, g + 1) : b < g + 1 /\ s[b + 1] = "lf"
      BY <1>2, <2>2, <2>7
    <3>3. ASSUME NEW x \in {1} \cup {b + 2 : b \in Ends(s, g + 1)}, NEW e \in Ends(s, g + 1),
                 x <= e, Ends(s, g + 1) \cap (x .. e - 1) = {}
          PROVE  \/ x = 1 /\ IsRequestLine(s, x, e - 1)
                 \/ x > 1 /\ IsHeader(s, x, e - 1)
                 \/ IsContinuation(s, x, e - 1) /\ \E c \in Ends(s, g + 1) : c + 2 < x
      <4>1. x \in {1} \cup {b + 2 : b \in Ends(s, n)} /\ e \in Ends(s, n) /\ e <= g
        BY <2>7
      <4>2. x \in Nat /\ e \in Nat
        BY <1>2, <4>1
      <4>3. Ends(s, n) \cap (x .. e - 1) = {}
        <5>1. ASSUME NEW c \in Ends(s, n), c \in x .. e - 1 PROVE FALSE
          <6>1. c <= g
            BY <2>2, <4>1, <4>2, <5>1
          <6> QED BY <2>7, <3>3, <5>1, <6>1
        <5> QED BY <5>1
      <4>4. \/ x = 1 /\ IsRequestLine(s, x, e - 1)
            \/ x > 1 /\ IsHeader(s, x, e - 1)
            \/ IsContinuation(s, x, e - 1) /\ \E c \in Ends(s, n) : c + 2 < x
        BY <1>3, <3>3, <4>1, <4>3
      <4>5. ASSUME NEW c \in Ends(s, n), c + 2 < x PROVE c \in Ends(s, g + 1)
        <5>1. c \in Nat /\ x <= e /\ e <= g /\ x \in Nat /\ e \in Nat
          BY <1>2, <3>3, <4>1, <4>2
        <5>2. c <= g
          BY <2>2, <4>5, <5>1
        <5> QED BY <2>7, <5>2
      <4> QED BY <4>4, <4>5
    <3>4. PICK k \in Nat : k = g + 1 /\ k - 1 = g + 1 - 1
      BY <2>2
    <3>5. IsHead(s, k)
      <4>1. k - 1 \in Ends(s, k) /\ \A b \in Ends(s, k) : b < k /\ s[b + 1] = "lf"
        BY <3>1, <3>2, <3>4, Zenon
      <4>2. ASSUME NEW x \in {1} \cup {b + 2 : b \in Ends(s, k)}, NEW e \in Ends(s, k),
                   x <= e, Ends(s, k) \cap (x .. e - 1) = {}
            PROVE  \/ x = 1 /\ IsRequestLine(s, x, e - 1)
                   \/ x > 1 /\ IsHeader(s, x, e - 1)
                   \/ IsContinuation(s, x, e - 1) /\ \E c \in Ends(s, k) : c + 2 < x
        BY <3>3, <3>4, <4>2, Zenon
      <4> QED BY <4>1, <4>2 DEF IsHead
    <3> QED BY <3>4, <3>5
  <2>9. Lined(s, g + 1 + 1, n - 2)
    <3>1. g + 1 + 1 = g + 2 /\ g + 1 + 1 - 1 = g + 1
      BY <2>2
    <3>2. ASSUME NEW c \in Ends(s, n), c + 2 < g + 2 PROVE More(s, g + 1)
      <4>1. c \in Ends(s, g + 1) /\ c + 1 < g + 1
        BY <1>2, <2>2, <2>7, <3>2
      <4> QED BY <4>1 DEF More
    <3>3. \/ IsHeader(s, g + 1 + 1, n - 2)
          \/ IsContinuation(s, g + 1 + 1, n - 2) /\ More(s, g + 1 + 1 - 1)
      BY <2>5, <3>1, <3>2
    <3>4. PICK a \in Nat : a = g + 1 + 1 /\ a - 1 = g + 1 + 1 - 1
      BY <2>2
    <3>5. Lined(s, a, n - 2)
      BY <3>3, <3>4, Zenon DEF Lined
    <3> QED BY <3>4, <3>5
  <2>10. g + 1 \in Nat
    BY <2>2
  <2> QED BY <2>8, <2>9, <2>10
<1> QED BY <1>5, <1>6

\* consume() expects the major version just after a URI, a blank and "HTTP/".
LEMMA MajorStartIs ==
  ASSUME NEW s, NEW k \in Nat
  PROVE  InMajorStart(s, k) <=>
           \E l \in 1 .. k :
             /\ k = l + 5 /\ InH(s, l)
             /\ s[l + 1] = "H" /\ s[l + 2] = "T" /\ s[l + 3] = "T"
             /\ s[l + 4] = "P" /\ s[l + 5] = "/"
<1>1. ASSUME InMajorStart(s, k)
      PROVE  /\ k - 5 > 0 /\ InH(s, k - 5)
             /\ s[k - 4] = "H" /\ s[k - 3] = "T" /\ s[k - 2] = "T"
             /\ s[k - 1] = "P" /\ s[k] = "/"
  <2>1. k - 1 - 1 = k - 2 /\ k - 2 - 1 = k - 3 /\ k - 3 - 1 = k - 4 /\ k - 4 - 1 = k - 5
    OBVIOUS
  <2>2. InSlash(s, k - 1) /\ s[k] = "/"
    BY <1>1 DEF InMajorStart
  <2>3. InP(s, k - 2) /\ s[k - 1] = "P"
    BY <2>1, <2>2 DEF InSlash
  <2>4. InT2(s, k - 3) /\ s[k - 2] = "T"
    BY <2>1, <2>3 DEF InP
  <2>5. InT1(s, k - 4) /\ s[k - 3] = "T"
    BY <2>1, <2>4 DEF InT2
  <2>6. InH(s, k - 5) /\ s[k - 4] = "H"
    BY <2>1, <2>5 DEF InT1
  <2>7. k - 5 > 0
    BY <2>6 DEF InH
  <2> QED BY <2>2, <2>3, <2>4, <2>5, <2>6, <2>7
<1>2. ASSUME NEW l \in 1 .. k,
             /\ k = l + 5 /\ InH(s, l)
             /\ s[l + 1] = "H" /\ s[l + 2] = "T" /\ s[l + 3] = "T"
             /\ s[l + 4] = "P" /\ s[l + 5] = "/"
      PROVE  InMajorStart(s, k)
  <2>1. l + 1 - 1 = l /\ l + 2 - 1 = l + 1 /\ l + 3 - 1 = l + 2 /\ l + 4 - 1 = l + 3 /\ l + 5 - 1 = l + 4
    OBVIOUS
  <2>2. l > 0
    OBVIOUS
  <2>3. InT1(s, l + 1)
    BY <1>2, <2>1, <2>2 DEF InT1
  <2>4. InT2(s, l + 2)
    BY <1>2, <2>1, <2>2, <2>3 DEF InT2
  <2>5. InP(s, l + 3)
    BY <1>2, <2>1, <2>2, <2>4 DEF InP
  <2>6. InSlash(s, l + 4)
    BY <1>2, <2>1, <2>2, <2>5 DEF InSlash
  <2>7. InMajorStart(s, l + 5)
    BY <1>2, <2>1, <2>2, <2>6 DEF InMajorStart
  <2> QED BY <1>2, <2>7
<1>3. ASSUME InMajorStart(s, k)
      PROVE  \E l \in 1 .. k :
             /\ k = l + 5 /\ InH(s, l)
             /\ s[l + 1] = "H" /\ s[l + 2] = "T" /\ s[l + 3] = "T"
             /\ s[l + 4] = "P" /\ s[l + 5] = "/"
  <2>1. PICK l \in Int : l = k - 5
    OBVIOUS
  <2>2. l + 1 = k - 4 /\ l + 2 = k - 3 /\ l + 3 = k - 2 /\ l + 4 = k - 1 /\ l + 5 = k /\ l \in 1 .. k
    BY <2>1, <1>1, <1>3
  <2> QED BY <2>1, <2>2, <1>1, <1>3
<1> QED BY <1>2, <1>3

\* consume() is within the minor version just after a request line but for its end.
LEMMA MinorIs ==
  ASSUME NEW s, NEW j \in Nat
  PROVE  InMinor(s, j) <=> IsRequestLine(s, 1, j)
<1>1. ASSUME InMinor(s, j) PROVE IsRequestLine(s, 1, j)
  <2>1. PICK m \in 0 .. j - 1 : InMinorStart(s, m) /\ All(s, m + 1, j, {"digit"})
    BY <1>1 DEF InMinor
  <2>2. m > 0 /\ InMajor(s, m - 1) /\ s[m] = "."
    BY <2>1 DEF InMinorStart
  <2>3. PICK h \in 0 .. m - 1 - 1 : InMajorStart(s, h) /\ All(s, h + 1, m - 1, {"digit"})
    BY <2>2 DEF InMajor
  <2>4. PICK l \in 1 .. h :
             /\ h = l + 5 /\ InH(s, l)
             /\ s[l + 1] = "H" /\ s[l + 2] = "T" /\ s[l + 3] = "T"
             /\ s[l + 4] = "P" /\ s[l + 5] = "/"
    <3>1. h \in Nat
      OBVIOUS
    <3> QED BY <2>3, <3>1, MajorStartIs
  <2>5. InUri(s, l - 1) /\ s[l] = "sp"
    BY <2>4 DEF InH
  <2>6. PICK k \in 2 .. l - 1 : s[k] = "sp" /\ InMethod(s, k - 1) /\ All(s, k + 1, l - 1, UriChars)
    BY <2>5 DEF InUri
  <2>7. All(s, 1, k - 1, Token)
    BY <2>6 DEF InMethod
  <2>8. IsVersion(s, l + 1, j)
    <3>1. l + 1 + 1 = l + 2 /\ l + 1 + 2 = l + 3 /\ l + 1 + 3 = l + 4 /\ l + 1 + 4 = l + 5 /\ l + 1 + 5 = h + 1
      BY <2>4
    <3>2. m \in l + 1 + 6 .. j
      BY <2>3, <2>4
    <3>3. IsNumber(s, l + 1 + 5, m - 1)
      BY <2>3, <3>1, <3>2 DEF IsNumber
    <3>4. IsNumber(s, m + 1, j)
      BY <2>1 DEF IsNumber
    <3> QED BY <2>2, <2>4, <3>1, <3>2, <3>3, <3>4 DEF IsVersion
  <2>9. k \in 1 + 1 .. j /\ l \in k + 1 .. j
    BY <2>4
  <2> QED BY <2>5, <2>6, <2>7, <2>8, <2>9 DEF IsRequestLine, UriChars
<1>2. ASSUME IsRequestLine(s, 1, j) PROVE InMinor(s, j)
  <2>1. PICK k \in 1 + 1 .. j : \E l \in k + 1 .. j :
    /\ s[k] = "sp" /\ s[l] = "sp"
    /\ All(s, 1, k - 1, Token)
    /\ All(s, k + 1, l - 1, UriChars)
    /\ IsVersion(s, l + 1, j)
    BY <1>2 DEF IsRequestLine, UriChars
  <2>2. PICK l \in k + 1 .. j :
    /\ s[k] = "sp" /\ s[l] = "sp"
    /\ All(s, 1, k - 1, Token)
    /\ All(s, k + 1, l - 1, UriChars)
    /\ IsVersion(s, l + 1, j)
    BY <2>1
  <2>3. PICK m \in l + 1 + 6 .. j :
    /\ s[l + 1] = "H" /\ s[l + 1 + 1] = "T" /\ s[l + 1 + 2] = "T" /\ s[l + 1 + 3] = "P"
    /\ s[l + 1 + 4] = "/" /\ s[m] = "."
    /\ IsNumber(s, l + 1 + 5, m - 1) /\ IsNumber(s, m + 1, j)
    BY <2>2 DEF IsVersion
  <2>4. l + 1 + 1 = l + 2 /\ l + 1 + 2 = l + 3 /\ l + 1 + 3 = l + 4 /\ l + 1 + 4 = l + 5
        /\ l + 1 + 5 = l + 5 + 1
    OBVIOUS
  <2>5. InUri(s, l - 1)
    <3>1. k - 1 > 0 /\ k \in 2 .. l - 1
      OBVIOUS
    <3> QED BY <2>2, <3>1 DEF InUri, InMethod
  <2>6. InH(s, l)
    BY <2>2, <2>5 DEF InH
  <2>7. InMajorStart(s, l + 5)
    <3>1. l + 5 \in Nat /\ l \in 1 .. l + 5
      OBVIOUS
    <3> QED BY <2>3, <2>4, <2>6, <3>1, MajorStartIs
  <2>8. InMajor(s, m - 1)
    <3>1. l + 5 \in 0 .. m - 1 - 1
      OBVIOUS
    <3>2. All(s, l + 5 + 1, m - 1, {"digit"})
      BY <2>3, <2>4 DEF IsNumber
    <3> QED BY <2>7, <3>1, <3>2 DEF InMajor
  <2>9. InMinorStart(s, m)
    BY <2>3, <2>8 DEF InMinorStart
  <2>10. All(s, m + 1, j, {"digit"}) /\ m + 1 <= j
    BY <2>3 DEF IsNumber
  <2>11. m \in 0 .. j - 1
    BY <2>10
  <2> QED BY <2>9, <2>10, <2>11 DEF InMinor
<1> QED BY <1>1, <1>2

\* consume() is within a value or the blanks of a continuation just after a head and
\* a further line but for its end.
LEMMA LinesAre ==
  ASSUME NEW s, NEW j \in Nat
  PROVE  InValue(s, j) \/ InLws(s, j) <=> \E a \in Nat : IsHead(s, a) /\ Lined(s, a + 1, j)
<1>1. ASSUME InLws(s, j) PROVE \E a \in Nat : IsHead(s, a) /\ Lined(s, a + 1, j)
  <2>1. PICK a \in 0 .. j - 1 : IsHead(s, a) /\ More(s, a) /\ All(s, a + 1, j, Blanks)
    BY <1>1 DEF InLws
  <2>2. IsContinuation(s, a + 1, j)
    <3>1. j \in a + 1 .. j
      OBVIOUS
    <3>2. All(s, j + 1, j, Class \ Ctl)
      BY AllNone
    <3> QED BY <2>1, <3>1, <3>2 DEF IsContinuation, Blanks
  <2>3. a + 1 - 1 = a /\ a \in Nat
    OBVIOUS
  <2> QED BY <2>1, <2>2, <2>3 DEF Lined
<1>2. ASSUME InValue(s, j) PROVE \E a \in Nat : IsHead(s, a) /\ Lined(s, a + 1, j)
  <2>1. PICK k \in 1 .. j :
          /\ \/ InBeforeValue(s, k - 1) /\ s[k] = "sp"
             \/ InLws(s, k - 1) /\ s[k] \in UriChars
          /\ All(s, k + 1, j, Class \ Ctl)
    BY <1>2 DEF InValue
  <2>2. CASE InBeforeValue(s, k - 1) /\ s[k] = "sp"
    <3>1. k - 1 > 0 /\ InName(s, k - 1 - 1) /\ s[k - 1] = ":"
      BY <2>2 DEF InBeforeValue
    <3>2. PICK a \in 0 .. k - 1 - 1 - 1 : IsHead(s, a) /\ All(s, a + 1, k - 1 - 1, Token)
      BY <3>1 DEF InName
    <3>3. k - 1 \in a + 1 + 1 .. j - 1 /\ k - 1 + 1 = k /\ k - 1 + 2 = k + 1
      OBVIOUS
    <3>4. IsHeader(s, a + 1, j)
      BY <2>1, <2>2, <3>1, <3>2, <3>3 DEF IsHeader
    <3>5. a \in Nat
      OBVIOUS
    <3> QED BY <3>2, <3>4, <3>5 DEF Lined
  <2>3. CASE InLws(s, k - 1) /\ s[k] \in UriChars
    <3>1. PICK a \in 0 .. k - 1 - 1 : IsHead(s, a) /\ More(s, a) /\ All(s, a + 1, k - 1, Blanks)
      BY <2>3 DEF InLws
    <3>2. All(s, k - 1 + 1, j, Class \ Ctl)
      <4>1. \A x \in UriChars : x \in Class \ Ctl
        BY DEF UriChars
      <4> QED BY <2>1, <2>3, <4>1 DEF All
    <3>3. k - 1 \in a + 1 .. j /\ a \in Nat /\ a + 1 - 1 = a
      OBVIOUS
    <3>4. IsContinuation(s, a + 1, j)
      BY <3>1, <3>2, <3>3 DEF IsContinuation, Blanks
    <3> QED BY <3>1, <3>3, <3>4 DEF Lined
  <2> QED BY <2>1, <2>2, <2>3
<1>3. ASSUME NEW a \in Nat, IsHead(s, a), IsHeader(s, a + 1, j) PROVE InValue(s, j)
  <2>1. PICK k \in a + 1 + 1 .. j - 1 :
          /\ s[k] = ":" /\ s[k + 1] = "sp"
          /\ All(s, a + 1, k - 1, Token)
          /\ All(s, k + 2, j, Class \ Ctl)
    BY <1>3 DEF IsHeader
  <2>2. InName(s, k - 1)
    <3>1. a \in 0 .. k - 1 - 1
      OBVIOUS
    <3> QED BY <1>3, <2>1, <3>1 DEF InName
  <2>3. InBeforeValue(s, k)
    BY <2>1, <2>2 DEF InBeforeValue
  <2>4. k + 1 \in 1 .. j /\ k + 1 - 1 = k /\ k + 1 + 1 = k + 2
    OBVIOUS
  <2> QED BY <2>1, <2>3, <2>4 DEF InValue
<1>4. ASSUME NEW a \in Nat, IsHead(s, a), More(s, a), IsContinuation(s, a + 1, j)
      PROVE  InValue(s, j) \/ InLws(s, j)
  <2>1. PICK k \in a + 1 .. j : All(s, a + 1, k, Blanks) /\ All(s, k + 1, j, Class \ Ctl)
    BY <1>4 DEF IsContinuation, Blanks
  <2>2. CASE All(s, a + 1, j, Blanks)
    <3>1. a \in 0 .. j - 1
      BY <2>1
    <3> QED BY <1>4, <2>2, <3>1 DEF InLws
  <2>3. CASE ~All(s, a + 1, j, Blanks)
    <3> DEFINE T == {m \in a + 1 .. j : s[m] \notin Blanks}
    <3>1. T \in SUBSET Nat /\ T # {}
      BY <2>3 DEF All
    <3>2. PICK m \in T : \A y \in T : m <= y
      BY <3>1, LeastOf
    <3>3. m \in a + 1 .. j /\ s[m] \notin Blanks
      OBVIOUS
    <3>4. ASSUME NEW y \in a + 1 .. m - 1 PROVE s[y] \in Blanks
      <4>1. y \in a + 1 .. j /\ ~(m <= y)
        BY <3>3
      <4> QED BY <3>2, <4>1
    <3> HIDE DEF T
    <3>5. m > k
      BY <2>1, <3>3 DEF All
    <3>6. InLws(s, m - 1)
      <4>1. All(s, a + 1, m - 1, Blanks)
        BY <3>4 DEF All
      <4>2. a \in 0 .. m - 1 - 1
        BY <3>3, <3>5
      <4> QED BY <1>4, <4>1, <4>2 DEF InLws
    <3>7. m \in k + 1 .. j
      BY <3>3, <3>5
    <3>8. s[m] \in Class \ Ctl
      BY <2>1, <3>7 DEF All
    <3>9. s[m] \in UriChars
      BY <3>3, <3>8 DEF UriChars, Blanks
    <3>10. All(s, m + 1, j, Class \ Ctl)
      BY <2>1, <3>5, <3>3 DEF All
    <3>11. m \in 1 .. j
      BY <3>3
    <3> QED BY <3>6, <3>9, <3>10, <3>11 DEF InValue
  <2> QED BY <2>2, <2>3
<1>5. ASSUME NEW a \in Nat, IsHead(s, a), Lined(s, a + 1, j) PROVE InValue(s, j) \/ InLws(s, j)
  <2>1. a + 1 - 1 = a
    OBVIOUS
  <2> QED BY <1>3, <1>4, <1>5, <2>1 DEF Lined
<1> QED BY <1>1, <1>2, <1>5

\* consume() comes to header_line_start, by either expecting_newline state, just when
\* the characters are a head, with a header or without as request.headers says.
LEMMA HeadGrows ==
  ASSUME NEW s, NEW i \in Nat
  PROVE  /\ IsHead(s, i + 1) <=> (InNewline1(s, i) \/ InNewline2(s, i)) /\ s[i + 1] = "lf"
         /\ InNewline1(s, i) /\ s[i + 1] = "lf" => ~More(s, i + 1)
         /\ InNewline2(s, i) /\ s[i + 1] = "lf" => More(s, i + 1)
<1>1. /\ i + 1 \in Nat /\ i + 1 - 1 = i /\ i + 1 - 2 = i - 1
      /\ i > 0 => i - 1 \in Nat /\ i + 1 > 1
  OBVIOUS
<1>2. ASSUME IsHead(s, i + 1) PROVE (InNewline1(s, i) \/ InNewline2(s, i)) /\ s[i + 1] = "lf"
  <2>1. i + 1 > 1 /\ s[i + 1 - 1] = "cr" /\ s[i + 1] = "lf"
    BY <1>1, <1>2, HeadBasics
  <2>2. i > 0 /\ s[i] = "cr" /\ i - 1 \in Nat
    BY <1>1, <2>1
  <2>3. \/ IsRequestLine(s, 1, i + 1 - 2)
        \/ \E a \in Nat : IsHead(s, a) /\ Lined(s, a + 1, i + 1 - 2)
    BY <1>1, <1>2, HeadLast
  <2>4. IsRequestLine(s, 1, i - 1) \/ \E a \in Nat : IsHead(s, a) /\ Lined(s, a + 1, i - 1)
    BY <1>1, <2>3
  <2>5. InMinor(s, i - 1) \/ (InValue(s, i - 1) \/ InLws(s, i - 1))
    BY <2>2, <2>4, MinorIs, LinesAre
  <2> QED BY <2>1, <2>2, <2>5 DEF InNewline1, InNewline2
<1>3. ASSUME InNewline1(s, i), s[i + 1] = "lf" PROVE IsHead(s, i + 1) /\ ~More(s, i + 1)
  <2>1. i > 0 /\ InMinor(s, i - 1) /\ s[i] = "cr"
    BY <1>3 DEF InNewline1
  <2>2. IsRequestLine(s, 1, i + 1 - 2) /\ s[i + 1 - 1] = "cr"
    BY <1>1, <2>1, MinorIs
  <2> QED BY <1>1, <1>3, <2>1, <2>2, HeadFirst
<1>4. ASSUME InNewline2(s, i), s[i + 1] = "lf" PROVE IsHead(s, i + 1) /\ More(s, i + 1)
  <2>1. i > 0 /\ (InValue(s, i - 1) \/ InLws(s, i - 1)) /\ s[i] = "cr"
    BY <1>4 DEF InNewline2
  <2>2. PICK a \in Nat : IsHead(s, a) /\ Lined(s, a + 1, i - 1)
    BY <1>1, <2>1, LinesAre
  <2>3. Lined(s, a + 1, i + 1 - 2) /\ s[i + 1 - 1] = "cr"
    BY <1>1, <2>1, <2>2
  <2> QED BY <1>1, <1>4, <2>2, <2>3, HeadNext
<1> QED BY <1>2, <1>3, <1>4

\* parse() says good just when the characters so far are a request, or some first part
\* of them was.
LEMMA GoodGrows ==
  ASSUME NEW s, NEW i \in Nat
  PROVE  InGood(s, i + 1) <=> InGood(s, i) \/ (InNewline3(s, i) /\ s[i + 1] = "lf")
<1>1. i + 1 - 2 = i - 1 /\ i + 1 - 1 = i /\ \A n : n \in 1 .. i + 1 <=> n \in 1 .. i \/ n = i + 1
  OBVIOUS
<1>2. InGood(s, i + 1) <=> InGood(s, i) \/ IsRequest(s, i + 1)
  BY <1>1 DEF InGood
<1>3. IsRequest(s, i + 1) => InNewline3(s, i) /\ s[i + 1] = "lf"
  BY <1>1 DEF IsRequest, InNewline3
<1>4. InNewline3(s, i) /\ s[i + 1] = "lf" => IsRequest(s, i + 1)
  <2>1. ASSUME InNewline3(s, i), s[i + 1] = "lf" PROVE IsRequest(s, i + 1)
    <3>1. i > 0 /\ IsHead(s, i - 1) /\ s[i] = "cr"
      BY <2>1 DEF InNewline3
    <3>2. i - 1 \in Nat
      BY <3>1
    <3>3. i - 1 > 1
      BY <3>1, <3>2, HeadBasics
    <3>4. i + 1 > 2
      BY <3>3
    <3> QED BY <1>1, <2>1, <3>1, <3>4 DEF IsRequest
  <2> QED BY <2>1
<1> QED BY <1>2, <1>3, <1>4

\* The states of consume() that the last character alone decides.
LEMMA OthersGrow ==
  ASSUME NEW s, NEW i \in Nat
  PROVE  /\ InH(s, i + 1) <=> InUri(s, i) /\ s[i + 1] = "sp"
         /\ InT1(s, i + 1) <=> InH(s, i) /\ s[i + 1] = "H"
         /\ InT2(s, i + 1) <=> InT1(s, i) /\ s[i + 1] = "T"
         /\ InP(s, i + 1) <=> InT2(s, i) /\ s[i + 1] = "T"
         /\ InSlash(s, i + 1) <=> InP(s, i) /\ s[i + 1] = "P"
         /\ InMajorStart(s, i + 1) <=> InSlash(s, i) /\ s[i + 1] = "/"
         /\ InMinorStart(s, i + 1) <=> InMajor(s, i) /\ s[i + 1] = "."
         /\ InNewline1(s, i + 1) <=> InMinor(s, i) /\ s[i + 1] = "cr"
         /\ InBeforeValue(s, i + 1) <=> InName(s, i) /\ s[i + 1] = ":"
         /\ InNewline2(s, i + 1) <=> (InValue(s, i) \/ InLws(s, i)) /\ s[i + 1] = "cr"
         /\ InNewline3(s, i + 1) <=> IsHead(s, i) /\ s[i + 1] = "cr"
<1>1. i + 1 > 0 /\ i + 1 - 1 = i
  OBVIOUS
<1>2. InH(s, i + 1) <=> InUri(s, i) /\ s[i + 1] = "sp"
  BY <1>1 DEF InH
<1>3. InT1(s, i + 1) <=> InH(s, i) /\ s[i + 1] = "H"
  BY <1>1 DEF InT1
<1>4. InT2(s, i + 1) <=> InT1(s, i) /\ s[i + 1] = "T"
  BY <1>1 DEF InT2
<1>5. InP(s, i + 1) <=> InT2(s, i) /\ s[i + 1] = "T"
  BY <1>1 DEF InP
<1>6. InSlash(s, i + 1) <=> InP(s, i) /\ s[i + 1] = "P"
  BY <1>1 DEF InSlash
<1>7. InMajorStart(s, i + 1) <=> InSlash(s, i) /\ s[i + 1] = "/"
  BY <1>1 DEF InMajorStart
<1>8. InMinorStart(s, i + 1) <=> InMajor(s, i) /\ s[i + 1] = "."
  BY <1>1 DEF InMinorStart
<1>9. InNewline1(s, i + 1) <=> InMinor(s, i) /\ s[i + 1] = "cr"
  BY <1>1 DEF InNewline1
<1>10. InBeforeValue(s, i + 1) <=> InName(s, i) /\ s[i + 1] = ":"
  BY <1>1 DEF InBeforeValue
<1>11. InNewline2(s, i + 1) <=> (InValue(s, i) \/ InLws(s, i)) /\ s[i + 1] = "cr"
  BY <1>1 DEF InNewline2
<1>12. InNewline3(s, i + 1) <=> IsHead(s, i) /\ s[i + 1] = "cr"
  BY <1>1 DEF InNewline3
<1> QED BY <1>2, <1>3, <1>4, <1>5, <1>6, <1>7, <1>8, <1>9, <1>10, <1>11, <1>12

\* A new parser is in the state that no character means: reset() and the constructor.
LEMMA AtFirst ==
  ASSUME NEW s
  PROVE  At(s, 0, NewParser)
<1>1. /\ ~InMethod(s, 0) /\ ~InH(s, 0) /\ ~InT1(s, 0) /\ ~InT2(s, 0) /\ ~InP(s, 0)
      /\ ~InSlash(s, 0) /\ ~InMajorStart(s, 0) /\ ~InMinorStart(s, 0)
  BY DEF InMethod, InH, InT1, InT2, InP, InSlash, InMajorStart, InMinorStart
<1>2. ~InUri(s, 0) /\ ~InMajor(s, 0) /\ ~InMinor(s, 0) /\ ~InGood(s, 0)
  BY DEF InUri, InMajor, InMinor, InGood
<1>3. ~InNewline1(s, 0) /\ ~InBeforeValue(s, 0) /\ ~InNewline2(s, 0) /\ ~InNewline3(s, 0)
  BY DEF InNewline1, InBeforeValue, InNewline2, InNewline3
<1>4. ~InName(s, 0) /\ ~InLws(s, 0) /\ ~InValue(s, 0)
  BY DEF InName, InLws, InValue
<1>5. ~IsHead(s, 0)
  BY HeadBasics
<1>6. NewParser.state = "method_start" /\ NewParser.headers = FALSE
  BY DEF NewParser
<1> QED BY <1>1, <1>2, <1>3, <1>4, <1>5, <1>6 DEF At, Late

\* consume() goes from the meaning of a state to the meaning of the next.
LEMMA AtStep ==
  ASSUME NEW s, NEW i \in Nat, NEW q, NEW r, At(s, i, q), Goes(q, s[i + 1], r)
  PROVE  At(s, i + 1, r)
<1>1. i + 1 # 0
  OBVIOUS
<1>2. /\ r.state = "method_start" <=> i + 1 = 0
      /\ r.state = "method" <=> InMethod(s, i + 1)
      /\ r.state = "uri" <=> InUri(s, i + 1)
  BY <1>1, MethodGrows, UriGrows DEF At, Goes
<1>3. /\ r.state = "http_version_h" <=> InH(s, i + 1)
      /\ r.state = "http_version_t_1" <=> InT1(s, i + 1)
      /\ r.state = "http_version_t_2" <=> InT2(s, i + 1)
      /\ r.state = "http_version_p" <=> InP(s, i + 1)
      /\ r.state = "http_version_slash" <=> InSlash(s, i + 1)
      /\ r.state = "http_version_major_start" <=> InMajorStart(s, i + 1)
      /\ r.state = "http_version_minor_start" <=> InMinorStart(s, i + 1)
      /\ r.state = "expecting_newline_1" <=> InNewline1(s, i + 1)
  BY OthersGrow DEF At, Goes
<1>4. /\ r.state = "space_before_header_value" <=> InBeforeValue(s, i + 1)
      /\ r.state = "expecting_newline_2" <=> InNewline2(s, i + 1)
      /\ r.state = "expecting_newline_3" <=> InNewline3(s, i + 1)
  BY OthersGrow DEF At, Goes
<1>5. /\ r.state = "http_version_major" <=> InMajor(s, i + 1)
      /\ r.state = "http_version_minor" <=> InMinor(s, i + 1)
  BY MajorGrows, MinorGrows DEF At, Goes
<1>6. /\ r.state = "header_line_start" <=> IsHead(s, i + 1)
      /\ r.state = "header_name" <=> InName(s, i + 1)
      /\ r.state = "good" <=> InGood(s, i + 1)
  BY HeadGrows, NameGrows, GoodGrows DEF At, Goes
<1>7. /\ r.state = "header_value" <=> InValue(s, i + 1)
  BY ValueGrows DEF At, Goes
<1>8. r.state = "header_lws" <=> InLws(s, i + 1)
  BY LwsGrows DEF At, Goes
<1>9. r.headers <=> q.headers \/ r.state = "header_name"
  BY DEF Goes
<1>10. r.state \in Early => ~r.headers
  <2>1. r.state \in Early => q.state \in Early /\ r.state # "header_name"
    BY DEF Goes, Early
  <2> QED BY <1>9, <2>1 DEF At
<1>11. r.state \in Late => r.headers
  <2>1. r.state \in Late => \/ r.state = "header_name" \/ q.state \in Late
                            \/ q.state = "header_line_start" /\ q.headers
    BY DEF Goes, Late
  <2> QED BY <1>9, <2>1 DEF At
<1>12. r.state = "header_line_start" => (r.headers <=> More(s, i + 1))
  <2>1. ASSUME r.state = "header_line_start" PROVE r.headers <=> More(s, i + 1)
    <3>1. q.state \in {"expecting_newline_1", "expecting_newline_2"} /\ s[i + 1] = "lf"
      BY <2>1 DEF Goes
    <3>2. r.headers <=> q.headers
      BY <1>9, <2>1
    <3>3. CASE q.state = "expecting_newline_1"
      <4>1. InNewline1(s, i) /\ ~q.headers
        BY <3>3 DEF At, Early
      <4> QED BY <3>1, <3>2, <4>1, HeadGrows
    <3>4. CASE q.state = "expecting_newline_2"
      <4>1. InNewline2(s, i) /\ q.headers
        BY <3>4 DEF At, Late
      <4> QED BY <3>1, <3>2, <4>1, HeadGrows
    <3> QED BY <3>1, <3>3, <3>4
  <2> QED BY <2>1
<1> QED BY <1>2, <1>3, <1>4, <1>5, <1>6, <1>7, <1>8, <1>10, <1>11, <1>12 DEF At

-----------------------------------------------------------------------------
(* parse()                                                                 *)

\* The parsers that parse() leaves after each character of a text.
Along(p, text, run) ==
  /\ run \in [0 .. Len(text) -> Parser]
  /\ run[0] = p
  /\ \A i \in 1 .. Len(text) : run[i] = Consume[run[i - 1]][text[i]]

\* parse() goes through a text as consume() does, one character after the other.
LEMMA ParseAlong ==
  ASSUME NEW p \in Parser, NEW text \in Seq(Class)
  PROVE  \E run : Along(p, text, run) /\ Parse(p, text) = run[Len(text)]
<1>1. PICK n \in Nat : n = Len(text) /\ \A i \in 1 .. n : text[i] \in Class
  OBVIOUS
<1>2. PICK step \in [1 .. n -> [Parser -> Parser]] :
        step = [i \in 1 .. n |-> [q \in Parser |-> Consume[q][text[i]]]]
  <2>1. [i \in 1 .. n |-> [q \in Parser |-> Consume[q][text[i]]]] \in [1 .. n -> [Parser -> Parser]]
    BY <1>1, ConsumeGoes
  <2> QED BY <2>1
<1>3. PICK path \in [0 .. n -> Parser] :
        path[0] = p /\ \A i \in 1 .. n : path[i] = step[i][path[i - 1]]
  <2>1. step \in Steps(Parser, n)
    BY DEF Steps
  <2>2. HasRun(Parser, p, n, step)
    BY <2>1, RunExists
  <2> QED BY <2>2 DEF HasRun
<1>4. \A i \in 1 .. n : path[i - 1] \in Parser
  <2>1. \A i \in 1 .. n : i - 1 \in 0 .. n
    BY <1>1
  <2> QED BY <2>1
<1>5. \A i \in 1 .. n : path[i] = Consume[path[i - 1]][text[i]]
  BY <1>2, <1>3, <1>4
<1> DEFINE Onward(run) == [i \in 0 .. n |-> IF i = 0 THEN p ELSE Consume[run[i - 1]][text[i]]]
<1>6. path = Onward(path)
  <2>1. path = [i \in 0 .. n |-> path[i]]
    OBVIOUS
  <2>2. ASSUME NEW i \in 0 .. n PROVE path[i] = IF i = 0 THEN p ELSE Consume[path[i - 1]][text[i]]
    <3>1. i = 0 \/ i \in 1 .. n
      BY <1>1
    <3> QED BY <3>1, <1>3, <1>5
  <2> QED BY <2>1, <2>2, Zenon
<1> DEFINE run == CHOOSE f : f = Onward(f)
<1>7. run = Onward(run)
  <2> HIDE DEF Onward
  <2> QED BY <1>6
<1>8. Parse(p, text) = run[n]
  BY <1>1, Zenon DEF Parse
<1> HIDE DEF run
<1>9. run[0] = p /\ \A i \in 1 .. n : run[i] = Consume[run[i - 1]][text[i]]
  <2>1. \A i \in 0 .. n : run[i] = Onward(run)[i]
    BY <1>7
  <2>2. 0 \in 0 .. n /\ \A i \in 1 .. n : i \in 0 .. n /\ i # 0
    BY <1>1
  <2> QED BY <2>1, <2>2
<1>10. run \in [0 .. n -> Parser]
  <2> DEFINE G == {m \in Nat : m <= n => run[m] \in Parser}
  <2>1. 0 \in G
    BY <1>9
  <2>2. ASSUME NEW m \in Nat, m \in G PROVE m + 1 \in G
    <3>1. SUFFICES ASSUME m + 1 <= n PROVE run[m + 1] \in Parser
      OBVIOUS
    <3>2. m + 1 \in 1 .. n /\ m + 1 - 1 = m /\ m <= n
      BY <3>1, <1>1
    <3>3. run[m] \in Parser /\ text[m + 1] \in Class
      BY <1>1, <2>2, <3>2
    <3>4. run[m + 1] = Consume[run[m]][text[m + 1]]
      BY <1>9, <3>2
    <3> QED BY <3>3, <3>4, ConsumeGoes
  <2>3. G \in SUBSET Nat
    OBVIOUS
  <2> HIDE DEF G
  <2>4. G = Nat
    BY <2>1, <2>2, <2>3, SetInduction
  <2>5. \A m \in 0 .. n : run[m] \in Parser
    BY <1>1, <2>4 DEF G
  <2>6. run = [i \in 0 .. n |-> run[i]]
    BY <1>7
  <2> QED BY <2>5, <2>6
<1> QED BY <1>1, <1>8, <1>9, <1>10 DEF Along

\* parse() has only one way through a text.
LEMMA OneRun ==
  ASSUME NEW p \in Parser, NEW text \in Seq(Class), NEW run, Along(p, text, run)
  PROVE  Parse(p, text) = run[Len(text)]
<1>2. PICK n \in Nat : n = Len(text)
  OBVIOUS
<1>1. PICK f : Along(p, text, f) /\ Parse(p, text) = f[n]
  BY <1>2, ParseAlong
<1>3. f[0] = p /\ run[0] = p
      /\ \A i \in 1 .. n : run[i] = Consume[run[i - 1]][text[i]] /\ f[i] = Consume[f[i - 1]][text[i]]
  BY <1>1, <1>2 DEF Along
<1> DEFINE G == {m \in Nat : m <= n => run[m] = f[m]}
<1>4. 0 \in G
  BY <1>3
<1>5. ASSUME NEW m \in Nat, m \in G PROVE m + 1 \in G
  <2>1. SUFFICES ASSUME m + 1 <= n PROVE run[m + 1] = f[m + 1]
    OBVIOUS
  <2>2. m + 1 \in 1 .. n /\ m + 1 - 1 = m /\ m <= n
    BY <1>2, <2>1
  <2>3. run[m] = f[m]
    BY <1>5, <2>2
  <2>4. run[m + 1] = Consume[run[m + 1 - 1]][text[m + 1]]
    BY <1>3, <2>2
  <2>5. f[m + 1] = Consume[f[m + 1 - 1]][text[m + 1]]
    BY <1>3, <2>2
  <2>6. run[m + 1 - 1] = f[m + 1 - 1]
    BY <2>2, <2>3
  <2> QED BY <2>4, <2>5, <2>6, Zenon
<1>6. G \in SUBSET Nat
  OBVIOUS
<1> HIDE DEF G
<1>7. G = Nat
  BY <1>4, <1>5, <1>6, SetInduction
<1>8. run[n] = f[n]
  BY <1>2, <1>7 DEF G
<1> QED BY <1>1, <1>2, <1>8

\* parse() leaves a parser in one of its states.
LEMMA ParseIsParser ==
  ASSUME NEW p \in Parser, NEW text \in Seq(Class)
  PROVE  Parse(p, text) \in Parser
<1>1. PICK run : Along(p, text, run) /\ Parse(p, text) = run[Len(text)]
  BY ParseAlong
<1>2. Len(text) \in 0 .. Len(text)
  OBVIOUS
<1> QED BY <1>1, <1>2 DEF Along

\* parse() of a text in two reads, cut anywhere, is parse() of it in one.
LEMMA ParseCut ==
  ASSUME NEW p \in Parser, NEW a \in Seq(Class), NEW b \in Seq(Class)
  PROVE  Parse(p, a \o b) = Parse(Parse(p, a), b)
<1>1. PICK m \in Nat, n \in Nat : m = Len(a) /\ n = Len(b)
  OBVIOUS
<1>2. PICK q \in Parser : q = Parse(p, a)
  BY ParseIsParser
<1>3. PICK f : Along(p, a, f) /\ q = f[m]
  BY <1>1, <1>2, ParseAlong
<1>4. PICK g : Along(q, b, g) /\ Parse(q, b) = g[n]
  BY <1>1, ParseAlong
<1>5. PICK text \in Seq(Class) : text = a \o b
  <2>1. a \o b \in Seq(Class)
    OBVIOUS
  <2> QED BY <2>1
<1>6. /\ Len(text) = m + n
      /\ \A i \in 1 .. m : text[i] = a[i]
      /\ \A i \in m + 1 .. m + n : text[i] = b[i - m]
  BY <1>1, <1>5
<1>7. /\ f \in [0 .. m -> Parser] /\ f[0] = p
      /\ \A i \in 1 .. m : f[i] = Consume[f[i - 1]][a[i]]
  BY <1>1, <1>3 DEF Along
<1>8. /\ g \in [0 .. n -> Parser] /\ g[0] = f[m]
      /\ \A i \in 1 .. n : g[i] = Consume[g[i - 1]][b[i]]
  BY <1>1, <1>3, <1>4 DEF Along
<1> DEFINE run == [i \in 0 .. m + n |-> IF i <= m THEN f[i] ELSE g[i - m]]
<1>9. \A i \in 0 .. m + n : (i <= m /\ i \in 0 .. m) \/ (i > m /\ i - m \in 1 .. n /\ i - m \in 0 .. n)
  OBVIOUS
<1>10. run \in [0 .. m + n -> Parser]
  BY <1>7, <1>8, <1>9
<1>11. /\ \A i \in 0 .. m : run[i] = f[i]
       /\ \A i \in m + 1 .. m + n : run[i] = g[i - m]
  OBVIOUS
<1> HIDE DEF run
<1>12. ASSUME NEW i \in 1 .. m + n PROVE run[i] = Consume[run[i - 1]][text[i]]
  <2>1. CASE i <= m
    <3>1. i \in 1 .. m /\ i \in 0 .. m /\ i - 1 \in 0 .. m
      BY <2>1
    <3>2. run[i] = f[i] /\ run[i - 1] = f[i - 1] /\ text[i] = a[i]
      BY <1>6, <1>11, <3>1
    <3> QED BY <1>7, <3>1, <3>2
  <2>2. CASE i = m + 1
    <3>1. i \in m + 1 .. m + n /\ i - m = 1 /\ 1 \in 1 .. n /\ i - 1 = m /\ m \in 0 .. m /\ 1 - 1 = 0
      BY <2>2
    <3>2. run[i] = g[1] /\ run[i - 1] = f[m] /\ text[i] = b[1]
      BY <1>6, <1>11, <3>1
    <3>3. g[1] = Consume[g[0]][b[1]]
      BY <1>8, <3>1
    <3> QED BY <1>8, <3>2, <3>3
  <2>3. CASE i > m + 1
    <3>1. i \in m + 1 .. m + n /\ i - m \in 1 .. n /\ i - 1 \in m + 1 .. m + n /\ i - 1 - m = i - m - 1
      BY <2>3
    <3>2. run[i] = g[i - m] /\ run[i - 1] = g[i - m - 1] /\ text[i] = b[i - m]
      BY <1>6, <1>11, <3>1
    <3>3. g[i - m] = Consume[g[i - m - 1]][b[i - m]]
      BY <1>8, <3>1
    <3> QED BY <3>2, <3>3
  <2> QED BY <2>1, <2>2, <2>3
<1>13. run[0] = p
  BY <1>7, <1>11
<1>14. Along(p, text, run)
  BY <1>6, <1>10, <1>12, <1>13 DEF Along
<1>15. Parse(p, text) = run[m + n]
  BY <1>6, <1>14, OneRun
<1>16. run[m + n] = g[n]
  <2>1. CASE n = 0
    <3>1. m + n = m /\ m \in 0 .. m
      BY <2>1
    <3> QED BY <1>8, <1>11, <2>1, <3>1
  <2>2. CASE n # 0
    <3>1. m + n \in m + 1 .. m + n /\ m + n - m = n
      BY <2>2
    <3> QED BY <1>11, <3>1
  <2> QED BY <2>1, <2>2
<1> QED BY <1>2, <1>4, <1>5, <1>15, <1>16

\* After any text parse() is in the state that the text means.
LEMMA ParseIsAt ==
  ASSUME NEW text \in Seq(Class)
  PROVE  At(text, Len(text), Parse(NewParser, text))
<1>1. NewParser \in Parser
  <2>1. "method_start" \in ParserStates
    BY ParserStatesAre DEF Early
  <2> QED BY <2>1 DEF NewParser, Parser
<1>2. PICK n \in Nat : n = Len(text) /\ \A i \in 1 .. n : text[i] \in Class
  OBVIOUS
<1>3. PICK run : Along(NewParser, text, run) /\ Parse(NewParser, text) = run[n]
  BY <1>1, <1>2, ParseAlong
<1>4. /\ run \in [0 .. n -> Parser] /\ run[0] = NewParser
      /\ \A i \in 1 .. n : run[i] = Consume[run[i - 1]][text[i]]
  BY <1>2, <1>3 DEF Along
<1> DEFINE G == {m \in Nat : m <= n => At(text, m, run[m])}
<1>5. 0 \in G
  BY <1>4, AtFirst
<1>6. ASSUME NEW m \in Nat, m \in G PROVE m + 1 \in G
  <2>1. SUFFICES ASSUME m + 1 <= n PROVE At(text, m + 1, run[m + 1])
    OBVIOUS
  <2>2. m + 1 \in 1 .. n /\ m + 1 - 1 = m /\ m <= n /\ m \in 0 .. n
    BY <1>2, <2>1
  <2>3. At(text, m, run[m])
    BY <1>6, <2>2
  <2>4. run[m] \in Parser /\ text[m + 1] \in Class /\ run[m + 1] = Consume[run[m]][text[m + 1]]
    BY <1>2, <1>4, <2>2
  <2>5. Goes(run[m], text[m + 1], run[m + 1])
    BY <2>4, ConsumeGoes
  <2> QED BY <2>3, <2>5, AtStep
<1>7. G \in SUBSET Nat
  OBVIOUS
<1> HIDE DEF G
<1>8. G = Nat
  BY <1>5, <1>6, <1>7, SetInduction
<1>9. At(text, n, run[n])
  BY <1>2, <1>8 DEF G
<1> QED BY <1>2, <1>3, <1>9

\* parse() says good of a text just if some first part of it is a request, whatever the
\* text: the table of consume() is the grammar, no slip in a row, no missing or
\* superfluous one.
THEOREM ParserIsRight ==
  ASSUME NEW text \in Seq(Class)
  PROVE  Result(Parse(NewParser, text)) = "good" <=> HoldsRequest(text)
<1>1. At(text, Len(text), Parse(NewParser, text))
  BY ParseIsAt
<1>2. Parse(NewParser, text).state = "good" <=> InGood(text, Len(text))
  BY <1>1 DEF At
<1>3. InGood(text, Len(text)) <=> HoldsRequest(text)
  BY DEF InGood, HoldsRequest
<1> QED BY <1>2, <1>3 DEF Result

\* The characters of a text are those consume() tells apart.
LEMMA ElementsAre ==
  ASSUME NEW text \in Seq(Class)
  PROVE  \A k \in 1 .. Len(text) : text[k] \in Class
OBVIOUS

\* parse() stops at good or bad: what comes later changes nothing.
LEMMA Sticky ==
  ASSUME NEW p \in Parser, NEW text \in Seq(Class), Result(p) # "indeterminate"
  PROVE  Parse(p, text) = p
<1>1. \A x \in Class : Consume[p][x] = p
  BY Zenon DEF Consume
<1>2. PICK n \in Nat : n = Len(text) /\ \A i \in 1 .. n : text[i] \in Class
  OBVIOUS
<1> DEFINE run == [i \in 0 .. n |-> p]
<1>3. run \in [0 .. n -> Parser] /\ \A i \in 0 .. n : run[i] = p
  OBVIOUS
<1> HIDE DEF run
<1>4. \A i \in 1 .. n : i \in 0 .. n /\ i - 1 \in 0 .. n
  OBVIOUS
<1>5. run[0] = p /\ run[n] = p
  BY <1>3
<1>6. \A i \in 1 .. n : run[i] = Consume[run[i - 1]][text[i]]
  BY <1>1, <1>2, <1>3, <1>4
<1>7. Along(p, text, run)
  BY <1>2, <1>3, <1>5, <1>6 DEF Along
<1>8. Parse(p, text) = run[n]
  BY <1>2, <1>7, OneRun
<1> QED BY <1>5, <1>8

\* The constructor of request_parser makes a parser in the first of its states.
LEMMA NewIsParser == NewParser \in Parser
<1>1. "method_start" \in ParserStates
  BY ParserStatesAre DEF Early
<1> QED BY <1>1 DEF NewParser, Parser

\* A part of a text is a text: what a read brings of it.
LEMMA PartIs ==
  ASSUME NEW text \in Seq(Class), NEW a \in Int, NEW b \in Int, a >= 1, b <= Len(text)
  PROVE  SubSeq(text, a, b) \in Seq(Class)
<1>1. \A k \in a .. b : k \in 1 .. Len(text)
  OBVIOUS
<1>2. \A k \in a .. b : text[k] \in Class
  BY <1>1, ElementsAre
<1> QED BY <1>2, SubSeqProperties

\* Cutting a text into two reads does not change what parse() leaves.
LEMMA CutAnywhere ==
  ASSUME NEW text \in Seq(Class), NEW k \in 0 .. Len(text)
  PROVE  Parse(Parse(NewParser, SubSeq(text, 1, k)), SubSeq(text, k + 1, Len(text)))
           = Parse(NewParser, text)
<1>1. SubSeq(text, 1, k) \in Seq(Class) /\ SubSeq(text, k + 1, Len(text)) \in Seq(Class)
  <2>1. k \in Int /\ 1 \in Int /\ k + 1 \in Int /\ Len(text) \in Int
        /\ 1 >= 1 /\ k + 1 >= 1 /\ k <= Len(text) /\ Len(text) <= Len(text)
    OBVIOUS
  <2> QED BY <2>1, PartIs
<1>2. SubSeq(text, 1, k) \o SubSeq(text, k + 1, Len(text)) = text
  <2>1. /\ 1 \in 1 .. Len(text) + 1 /\ k \in 1 - 1 .. Len(text) /\ Len(text) \in k .. Len(text)
        /\ Len(text) \in Nat
    OBVIOUS
  <2>2. SubSeq(text, 1, k) \o SubSeq(text, k + 1, Len(text)) = SubSeq(text, 1, Len(text))
    BY <2>1, ConcatAdjacentSubSeq
  <2> QED BY <2>2, SubSeqFull
<1>3. PICK a \in Seq(Class), b \in Seq(Class) :
        a = SubSeq(text, 1, k) /\ b = SubSeq(text, k + 1, Len(text))
  BY <1>1
<1>4. Parse(NewParser, a \o b) = Parse(Parse(NewParser, a), b)
  BY NewIsParser, ParseCut
<1> QED BY <1>2, <1>3, <1>4

-----------------------------------------------------------------------------
(* The texts of the requests                                               *)

\* The texts that the pieces of a request make, one after the other.
Joined(r, i, j, f) ==
  /\ f \in [0 .. j -> Seq(Class)]
  /\ \A k \in 0 .. j : f[k] = IF k <= i THEN <<>> ELSE f[k - 1] \o r.pieces[k]

\* The pieces of a request are texts.
Pieced(r) == r.pieces \in Seq(Seq(Class))

\* The request line that the clients of the server send is a text.
LEMMA LineIs == Line \in Seq(Class) /\ Len(Line) = 14
<1>1. Line \in Seq(Class)
  BY DEF Line, Class, Token, Special, Ctl
<1>2. Len(Line) = 14
  BY DEF Line
<1> QED BY <1>1, <1>2

\* The header fields that the clients send are a text.
LEMMA FieldsAre == Fields \in Seq(Class) /\ Len(Fields) = 12
<1>1. Fields \in Seq(Class)
  BY DEF Fields, Class, Token, Special, Ctl
<1>2. Len(Fields) = 12
  BY DEF Fields
<1> QED BY <1>1, <1>2

\* What clients send that continue a header that is not there is a text.
LEMMA NoFieldsAre == NoFields \in Seq(Class) /\ Len(NoFields) = 6
<1>1. NoFields \in Seq(Class)
  BY DEF NoFields, Class, Token, Special, Ctl
<1>2. Len(NoFields) = 6
  BY DEF NoFields
<1> QED BY <1>1, <1>2

\* A piece of the body that the clients send is a text.
LEMMA BodyIs == Body \in Seq(Class)
BY DEF Body, Class, Token

\* The requests of clients: a line, fields or none, and what handle_request() is asked.
LEMMA RequestsAre ==
  ASSUME NEW r \in Requests
  PROVE  /\ Pieced(r) /\ Len(r.pieces) >= 2
         /\ r.pieces[1] = Line /\ r.pieces[2] \in {Fields, NoFields}
         /\ r.path \in {"file", "missing", "relative"}
<1>1. \/ r = Request(<<Line, Fields>>, "file")
      \/ r = Request(<<Line, NoFields>>, "missing")
      \/ r = Request(<<Line, Fields, Body, Body>>, "missing")
      \/ r = Request(<<Line, Fields, Body>>, "relative")
  BY DEF Requests
<1>2. r.path \in {"file", "missing", "relative"}
  BY <1>1 DEF Request
<1>3. \/ r.pieces = <<Line, Fields>>
      \/ r.pieces = <<Line, NoFields>>
      \/ r.pieces = <<Line, Fields, Body, Body>>
      \/ r.pieces = <<Line, Fields, Body>>
  BY <1>1 DEF Request
<1>4. Line \in Seq(Class) /\ Fields \in Seq(Class) /\ NoFields \in Seq(Class) /\ Body \in Seq(Class)
  BY LineIs, FieldsAre, NoFieldsAre, BodyIs
<1>5. PICK S : S = Seq(Class)
  OBVIOUS
<1>6. Line \in S /\ Fields \in S /\ NoFields \in S /\ Body \in S
  BY <1>4, <1>5
<1>7. /\ <<Line, Fields>> \in Seq(S)
      /\ <<Line, NoFields>> \in Seq(S)
      /\ <<Line, Fields, Body, Body>> \in Seq(S)
      /\ <<Line, Fields, Body>> \in Seq(S)
  BY <1>6
<1>8. r.pieces \in Seq(S)
  BY <1>3, <1>7, Zenon
<1>9. Pieced(r)
  BY <1>5, <1>8 DEF Pieced
<1>10. PICK ps : ps = r.pieces
  OBVIOUS
<1>11. /\ ps = <<Line, Fields>> => Len(ps) >= 2 /\ ps[1] = Line /\ ps[2] \in {Fields, NoFields}
       /\ ps = <<Line, NoFields>> => Len(ps) >= 2 /\ ps[1] = Line /\ ps[2] \in {Fields, NoFields}
       /\ ps = <<Line, Fields, Body, Body>> =>
            Len(ps) >= 2 /\ ps[1] = Line /\ ps[2] \in {Fields, NoFields}
       /\ ps = <<Line, Fields, Body>> =>
            Len(ps) >= 2 /\ ps[1] = Line /\ ps[2] \in {Fields, NoFields}
  OBVIOUS
<1>12. Len(ps) >= 2 /\ ps[1] = Line /\ ps[2] \in {Fields, NoFields}
  BY <1>3, <1>10, <1>11, Zenon
<1> QED BY <1>2, <1>9, <1>10, <1>12, Zenon

\* The text of the pieces that reads brought is what they make one after the other.
LEMMA TextJoined ==
  ASSUME NEW r, Pieced(r), NEW i \in Nat, NEW j \in Nat, j <= Len(r.pieces)
  PROVE  \E f : Joined(r, i, j, f) /\ Text(r, i, j) = f[j]
<1>0. PICK S : S = Seq(Class)
  OBVIOUS
<1>1. \A k \in 1 .. j : r.pieces[k] \in S
  BY <1>0 DEF Pieced
<1>2. \A x \in S, y \in S : x \o y \in S
  BY <1>0
<1>3. <<>> \in S
  BY <1>0
<1>4. PICK step \in [1 .. j -> [S -> S]] :
        step = [k \in 1 .. j |-> [x \in S |-> IF k <= i THEN <<>> ELSE x \o r.pieces[k]]]
  <2>1. [k \in 1 .. j |-> [x \in S |-> IF k <= i THEN <<>> ELSE x \o r.pieces[k]]]
          \in [1 .. j -> [S -> S]]
    BY <1>1, <1>2, <1>3
  <2> QED BY <2>1
<1>5. PICK path \in [0 .. j -> S] :
        path[0] = <<>> /\ \A k \in 1 .. j : path[k] = step[k][path[k - 1]]
  <2>1. step \in Steps(S, j)
    BY DEF Steps
  <2>2. HasRun(S, <<>>, j, step)
    BY <1>3, <2>1, RunExists
  <2> QED BY <2>2 DEF HasRun
<1> DEFINE F(f) == [k \in 0 .. j |-> IF k <= i THEN <<>> ELSE f[k - 1] \o r.pieces[k]]
<1>6. path = F(path)
  <2>1. path = [k \in 0 .. j |-> path[k]]
    OBVIOUS
  <2>2. ASSUME NEW k \in 0 .. j
        PROVE  path[k] = IF k <= i THEN <<>> ELSE path[k - 1] \o r.pieces[k]
    <3>1. CASE k = 0
      BY <1>5, <3>1
    <3>2. CASE k # 0
      <4>1. k \in 1 .. j /\ k - 1 \in 0 .. j
        BY <3>2
      <4>2. path[k] = step[k][path[k - 1]] /\ path[k - 1] \in S
        BY <1>5, <4>1
      <4> QED BY <1>4, <4>1, <4>2
    <3> QED BY <3>1, <3>2
  <2> QED BY <2>1, <2>2, Zenon
<1> DEFINE text == CHOOSE f : f = F(f)
<1>7. text = F(text)
  <2> HIDE DEF F
  <2> QED BY <1>6
<1>8. Text(r, i, j) = text[j]
  BY Zenon DEF Text
<1> HIDE DEF text
<1>9. \A k \in 0 .. j : text[k] = IF k <= i THEN <<>> ELSE text[k - 1] \o r.pieces[k]
  BY <1>7
<1>10. text \in [0 .. j -> S]
  <2> DEFINE G == {m \in Nat : m <= j => text[m] \in S}
  <2>1. 0 \in G
    BY <1>3, <1>9
  <2>2. ASSUME NEW m \in Nat, m \in G PROVE m + 1 \in G
    <3>1. SUFFICES ASSUME m + 1 <= j PROVE text[m + 1] \in S
      OBVIOUS
    <3>2. m + 1 \in 1 .. j /\ m + 1 \in 0 .. j /\ m + 1 - 1 = m /\ m <= j
      BY <3>1
    <3>3. text[m] \in S /\ r.pieces[m + 1] \in S
      BY <1>1, <2>2, <3>2
    <3>4. text[m + 1] = IF m + 1 <= i THEN <<>> ELSE text[m] \o r.pieces[m + 1]
      BY <1>9, <3>2
    <3> QED BY <1>2, <1>3, <3>3, <3>4
  <2>3. G \in SUBSET Nat
    OBVIOUS
  <2> HIDE DEF G
  <2>4. G = Nat
    BY <2>1, <2>2, <2>3, SetInduction
  <2>5. \A m \in 0 .. j : text[m] \in S
    BY <2>4 DEF G
  <2>6. text = [k \in 0 .. j |-> text[k]]
    BY <1>7
  <2> QED BY <2>5, <2>6
<1> QED BY <1>0, <1>8, <1>9, <1>10 DEF Joined

\* The pieces that reads brought make only one text.
LEMMA OneText ==
  ASSUME NEW r, Pieced(r), NEW i \in Nat, NEW j \in Nat, j <= Len(r.pieces),
         NEW f, Joined(r, i, j, f)
  PROVE  Text(r, i, j) = f[j]
<1>1. PICK g : Joined(r, i, j, g) /\ Text(r, i, j) = g[j]
  BY TextJoined
<1>2. \A k \in 0 .. j : /\ f[k] = IF k <= i THEN <<>> ELSE f[k - 1] \o r.pieces[k]
                        /\ g[k] = IF k <= i THEN <<>> ELSE g[k - 1] \o r.pieces[k]
  BY <1>1 DEF Joined
<1> DEFINE G == {m \in Nat : m <= j => f[m] = g[m]}
<1>3. 0 \in G
  BY <1>2
<1>4. ASSUME NEW m \in Nat, m \in G PROVE m + 1 \in G
  <2>1. SUFFICES ASSUME m + 1 <= j PROVE f[m + 1] = g[m + 1]
    OBVIOUS
  <2>2. m + 1 \in 0 .. j /\ m + 1 - 1 = m /\ m <= j
    BY <2>1
  <2>3. f[m] = g[m]
    BY <1>4, <2>2
  <2> QED BY <1>2, <2>2, <2>3
<1>5. G \in SUBSET Nat
  OBVIOUS
<1> HIDE DEF G
<1>6. G = Nat
  BY <1>3, <1>4, <1>5, SetInduction
<1>7. f[j] = g[j]
  BY <1>6 DEF G
<1> QED BY <1>1, <1>7

\* A read of one piece more brings the text of that piece.
LEMMA TextStep ==
  ASSUME NEW r, Pieced(r), NEW i \in Nat, NEW j \in Nat, j <= Len(r.pieces)
  PROVE  /\ Text(r, i, j) \in Seq(Class)
         /\ j <= i => Text(r, i, j) = <<>>
         /\ j > i => Text(r, i, j) = Text(r, i, j - 1) \o r.pieces[j]
<1>1. PICK f : Joined(r, i, j, f) /\ Text(r, i, j) = f[j]
  BY TextJoined
<1>2. /\ f \in [0 .. j -> Seq(Class)]
      /\ \A k \in 0 .. j : f[k] = IF k <= i THEN <<>> ELSE f[k - 1] \o r.pieces[k]
  BY <1>1 DEF Joined
<1>3. j \in 0 .. j
  OBVIOUS
<1>4. ASSUME j > i PROVE Text(r, i, j - 1) = f[j - 1]
  <2>1. PICK m \in Nat : m = j - 1
    BY <1>4
  <2>2. m <= Len(r.pieces) /\ \A k \in 0 .. m : k \in 0 .. j
    BY <2>1
  <2> DEFINE g == [k \in 0 .. m |-> f[k]]
  <2>3. \A k \in 0 .. m : g[k] = f[k]
    OBVIOUS
  <2>4. g \in [0 .. m -> Seq(Class)]
    BY <1>2, <2>2
  <2> HIDE DEF g
  <2>5. ASSUME NEW k \in 0 .. m PROVE g[k] = IF k <= i THEN <<>> ELSE g[k - 1] \o r.pieces[k]
    <3>1. CASE k <= i
      BY <1>2, <2>2, <2>3, <3>1
    <3>2. CASE k > i
      <4>1. k - 1 \in 0 .. m
        BY <3>2
      <4> QED BY <1>2, <2>2, <2>3, <3>2, <4>1
    <3> QED BY <3>1, <3>2
  <2>6. Joined(r, i, m, g)
    BY <2>4, <2>5 DEF Joined
  <2>7. Text(r, i, m) = g[m]
    BY <2>2, <2>6, OneText
  <2>8. m \in 0 .. m
    OBVIOUS
  <2> QED BY <2>1, <2>3, <2>7, <2>8
<1>5. f[j] \in Seq(Class) /\ f[j] = IF j <= i THEN <<>> ELSE f[j - 1] \o r.pieces[j]
  BY <1>2, <1>3
<1>6. ASSUME j <= i PROVE Text(r, i, j) = <<>>
  BY <1>1, <1>5, <1>6
<1>7. ASSUME j > i PROVE Text(r, i, j) = Text(r, i, j - 1) \o r.pieces[j]
  <2>1. ~(j <= i)
    BY <1>7
  <2> QED BY <1>1, <1>4, <1>5, <1>7, <2>1
<1> QED BY <1>1, <1>5, <1>6, <1>7

\* What reads bring is a text.
LEMMA TextIs ==
  ASSUME NEW r, Pieced(r), NEW i \in Nat, NEW j \in Nat, j <= Len(r.pieces)
  PROVE  Text(r, i, j) \in Seq(Class)
BY TextStep

\* No read brings no text.
LEMMA TextNone ==
  ASSUME NEW r, Pieced(r), NEW i \in Nat, i <= Len(r.pieces)
  PROVE  Text(r, i, i) = <<>>
<1>1. i <= i
  OBVIOUS
<1> QED BY <1>1, TextStep

\* The last piece of what reads brought comes after the others.
LEMMA TextMore ==
  ASSUME NEW r, Pieced(r), NEW i \in Nat, NEW j \in Nat, i < j, j <= Len(r.pieces)
  PROVE  Text(r, i, j) = Text(r, i, j - 1) \o r.pieces[j]
<1>1. j > i
  OBVIOUS
<1> QED BY <1>1, TextStep

\* What two reads bring is what one read of both would.
LEMMA TextCut ==
  ASSUME NEW r, Pieced(r), NEW i \in Nat, NEW j \in Nat, i <= j, j <= Len(r.pieces)
  PROVE  Text(r, 0, j) = Text(r, 0, i) \o Text(r, i, j)
<1> DEFINE G == {m \in Nat : i + m <= Len(r.pieces) =>
                   Text(r, 0, i + m) = Text(r, 0, i) \o Text(r, i, i + m)}
<1>1. 0 \in G
  <2>1. i + 0 = i /\ i <= Len(r.pieces) /\ 0 \in Nat
    OBVIOUS
  <2>2. Text(r, i, i) = <<>> /\ Text(r, 0, i) \in Seq(Class)
    BY <2>1, TextIs, TextNone
  <2>3. Text(r, 0, i) \o <<>> = Text(r, 0, i)
    BY <2>2
  <2> QED BY <2>1, <2>2, <2>3
<1>2. ASSUME NEW m \in Nat, m \in G PROVE m + 1 \in G
  <2>1. SUFFICES ASSUME i + (m + 1) <= Len(r.pieces)
                 PROVE  Text(r, 0, i + (m + 1)) = Text(r, 0, i) \o Text(r, i, i + (m + 1))
    OBVIOUS
  <2>2. PICK k \in Nat : k = i + (m + 1)
    OBVIOUS
  <2>3. k > i /\ k > 0 /\ k - 1 = i + m /\ i + m \in Nat /\ i + m <= Len(r.pieces) /\ k <= Len(r.pieces)
    BY <2>1, <2>2
  <2>4. Text(r, 0, i + m) = Text(r, 0, i) \o Text(r, i, i + m)
    BY <1>2, <2>3
  <2>5. Text(r, 0, k) = Text(r, 0, k - 1) \o r.pieces[k]
    <3>1. 0 \in Nat /\ 0 < k
      BY <2>3
    <3> QED BY <2>3, <3>1, TextMore
  <2>6. Text(r, i, k) = Text(r, i, k - 1) \o r.pieces[k]
    BY <2>3, TextMore
  <2>7. Text(r, 0, i) \in Seq(Class) /\ Text(r, i, i + m) \in Seq(Class)
    <3>1. 0 \in Nat /\ i <= Len(r.pieces)
      OBVIOUS
    <3> QED BY <2>3, <3>1, TextIs
  <2>8. r.pieces[k] \in Seq(Class)
    BY <2>3 DEF Pieced
  <2>9. PICK x \in Seq(Class), y \in Seq(Class), z \in Seq(Class) :
          x = Text(r, 0, i) /\ y = Text(r, i, i + m) /\ z = r.pieces[k]
    BY <2>7, <2>8
  <2>10. (x \o y) \o z = x \o (y \o z)
    BY ConcatAssociative
  <2> QED BY <2>2, <2>3, <2>4, <2>5, <2>6, <2>9, <2>10
<1>3. G \in SUBSET Nat
  OBVIOUS
<1> HIDE DEF G
<1>4. G = Nat
  BY <1>1, <1>2, <1>3, SetInduction
<1>5. PICK m \in Nat : m = j - i /\ i + m = j
  OBVIOUS
<1>6. m \in G
  BY <1>4
<1> QED BY <1>5, <1>6 DEF G

\* Which characters of the clients' texts are which to consume().
LEMMA Chars ==
  /\ "letter" \in Token /\ {"letter", "/"} \subseteq UriChars
  /\ "sp" \notin Token /\ "sp" \notin UriChars /\ "sp" \in Blanks
  /\ ":" \notin Token /\ "cr" \notin Token /\ "lf" \notin Token
  /\ "letter" \notin Blanks /\ "letter" \notin Ctl /\ "cr" \in Ctl
  /\ "cr" \notin Blanks /\ "lf" \notin Blanks
  /\ {"letter", "sp", "/", ":", "H", "T", "P", "digit", ".", "cr", "lf"} \subseteq Class
BY DEF UriChars, Blanks, Class, Token, Special, Ctl

\* After the request line of the clients consume() is at the start of a line, with no
\* header yet.
LEMMA AfterLine ==
  /\ Parse(NewParser, Line) \in Parser
  /\ Parse(NewParser, Line).state = "header_line_start"
  /\ ~Parse(NewParser, Line).headers
<1>0. PICK run : Along(NewParser, Line, run) /\ Parse(NewParser, Line) = run[14]
  BY NewIsParser, LineIs, ParseAlong
<1>1. /\ Line[1] = "letter"
      /\ Line[2] = "sp"
      /\ Line[3] = "/"
      /\ Line[4] = "sp"
      /\ Line[5] = "H"
      /\ Line[6] = "T"
      /\ Line[7] = "T"
      /\ Line[8] = "P"
      /\ Line[9] = "/"
      /\ Line[10] = "digit"
      /\ Line[11] = "."
      /\ Line[12] = "digit"
      /\ Line[13] = "cr"
      /\ Line[14] = "lf"
  BY DEF Line
<1>2. \A k \in 1 .. 14 : k - 1 \in 0 .. 14 /\ run[k - 1] \in Parser /\ Line[k] \in Class
  <2>1. \A k \in 1 .. 14 : k - 1 \in 0 .. 14
    OBVIOUS
  <2>2. run \in [0 .. 14 -> Parser]
    BY <1>0, LineIs DEF Along
  <2>3. \A k \in 1 .. 14 : Line[k] \in Class
    BY LineIs, ElementsAre
  <2> QED BY <2>1, <2>2, <2>3
<1>3. \A k \in 1 .. 14 : Goes(run[k - 1], Line[k], run[k])
  BY <1>0, <1>2, ConsumeGoes, LineIs DEF Along
<1>4. run[0].state = "method_start" /\ ~run[0].headers
  BY <1>0 DEF Along, NewParser
<1>5. run[1].state = "method" /\ ~run[1].headers
  <2>1. Goes(run[0], "letter", run[1])
    <3>1. 1 \in 1 .. 14 /\ 1 - 1 = 0
      OBVIOUS
    <3> QED BY <1>1, <1>3, <3>1
  <2> QED BY <1>4, <2>1, Chars DEF Goes
<1>6. run[2].state = "uri" /\ ~run[2].headers
  <2>1. Goes(run[1], "sp", run[2])
    <3>1. 2 \in 1 .. 14 /\ 2 - 1 = 1
      OBVIOUS
    <3> QED BY <1>1, <1>3, <3>1
  <2> QED BY <1>5, <2>1, Chars DEF Goes
<1>7. run[3].state = "uri" /\ ~run[3].headers
  <2>1. Goes(run[2], "/", run[3])
    <3>1. 3 \in 1 .. 14 /\ 3 - 1 = 2
      OBVIOUS
    <3> QED BY <1>1, <1>3, <3>1
  <2> QED BY <1>6, <2>1, Chars DEF Goes
<1>8. run[4].state = "http_version_h" /\ ~run[4].headers
  <2>1. Goes(run[3], "sp", run[4])
    <3>1. 4 \in 1 .. 14 /\ 4 - 1 = 3
      OBVIOUS
    <3> QED BY <1>1, <1>3, <3>1
  <2> QED BY <1>7, <2>1, Chars DEF Goes
<1>9. run[5].state = "http_version_t_1" /\ ~run[5].headers
  <2>1. Goes(run[4], "H", run[5])
    <3>1. 5 \in 1 .. 14 /\ 5 - 1 = 4
      OBVIOUS
    <3> QED BY <1>1, <1>3, <3>1
  <2> QED BY <1>8, <2>1, Chars DEF Goes
<1>10. run[6].state = "http_version_t_2" /\ ~run[6].headers
  <2>1. Goes(run[5], "T", run[6])
    <3>1. 6 \in 1 .. 14 /\ 6 - 1 = 5
      OBVIOUS
    <3> QED BY <1>1, <1>3, <3>1
  <2> QED BY <1>9, <2>1, Chars DEF Goes
<1>11. run[7].state = "http_version_p" /\ ~run[7].headers
  <2>1. Goes(run[6], "T", run[7])
    <3>1. 7 \in 1 .. 14 /\ 7 - 1 = 6
      OBVIOUS
    <3> QED BY <1>1, <1>3, <3>1
  <2> QED BY <1>10, <2>1, Chars DEF Goes
<1>12. run[8].state = "http_version_slash" /\ ~run[8].headers
  <2>1. Goes(run[7], "P", run[8])
    <3>1. 8 \in 1 .. 14 /\ 8 - 1 = 7
      OBVIOUS
    <3> QED BY <1>1, <1>3, <3>1
  <2> QED BY <1>11, <2>1, Chars DEF Goes
<1>13. run[9].state = "http_version_major_start" /\ ~run[9].headers
  <2>1. Goes(run[8], "/", run[9])
    <3>1. 9 \in 1 .. 14 /\ 9 - 1 = 8
      OBVIOUS
    <3> QED BY <1>1, <1>3, <3>1
  <2> QED BY <1>12, <2>1, Chars DEF Goes
<1>14. run[10].state = "http_version_major" /\ ~run[10].headers
  <2>1. Goes(run[9], "digit", run[10])
    <3>1. 10 \in 1 .. 14 /\ 10 - 1 = 9
      OBVIOUS
    <3> QED BY <1>1, <1>3, <3>1
  <2> QED BY <1>13, <2>1, Chars DEF Goes
<1>15. run[11].state = "http_version_minor_start" /\ ~run[11].headers
  <2>1. Goes(run[10], ".", run[11])
    <3>1. 11 \in 1 .. 14 /\ 11 - 1 = 10
      OBVIOUS
    <3> QED BY <1>1, <1>3, <3>1
  <2> QED BY <1>14, <2>1, Chars DEF Goes
<1>16. run[12].state = "http_version_minor" /\ ~run[12].headers
  <2>1. Goes(run[11], "digit", run[12])
    <3>1. 12 \in 1 .. 14 /\ 12 - 1 = 11
      OBVIOUS
    <3> QED BY <1>1, <1>3, <3>1
  <2> QED BY <1>15, <2>1, Chars DEF Goes
<1>17. run[13].state = "expecting_newline_1" /\ ~run[13].headers
  <2>1. Goes(run[12], "cr", run[13])
    <3>1. 13 \in 1 .. 14 /\ 13 - 1 = 12
      OBVIOUS
    <3> QED BY <1>1, <1>3, <3>1
  <2> QED BY <1>16, <2>1, Chars DEF Goes
<1>18. run[14].state = "header_line_start" /\ ~run[14].headers
  <2>1. Goes(run[13], "lf", run[14])
    <3>1. 14 \in 1 .. 14 /\ 14 - 1 = 13
      OBVIOUS
    <3> QED BY <1>1, <1>3, <3>1
  <2> QED BY <1>17, <2>1, Chars DEF Goes
<1> QED BY <1>0, <1>18, NewIsParser, LineIs, ParseIsParser

\* After the header fields of the clients parse() says good.
LEMMA AfterFields ==
  ASSUME NEW p \in Parser, p.state = "header_line_start", ~p.headers
  PROVE  Parse(p, Fields).state = "good"
<1>0. PICK run : Along(p, Fields, run) /\ Parse(p, Fields) = run[12]
  BY FieldsAre, ParseAlong
<1>1. /\ Fields[1] = "letter"
      /\ Fields[2] = ":"
      /\ Fields[3] = "sp"
      /\ Fields[4] = "letter"
      /\ Fields[5] = "cr"
      /\ Fields[6] = "lf"
      /\ Fields[7] = "sp"
      /\ Fields[8] = "letter"
      /\ Fields[9] = "cr"
      /\ Fields[10] = "lf"
      /\ Fields[11] = "cr"
      /\ Fields[12] = "lf"
  BY DEF Fields
<1>2. \A k \in 1 .. 12 : k - 1 \in 0 .. 12 /\ run[k - 1] \in Parser /\ Fields[k] \in Class
  <2>1. \A k \in 1 .. 12 : k - 1 \in 0 .. 12
    OBVIOUS
  <2>2. run \in [0 .. 12 -> Parser]
    BY <1>0, FieldsAre DEF Along
  <2>3. \A k \in 1 .. 12 : Fields[k] \in Class
    BY FieldsAre, ElementsAre
  <2> QED BY <2>1, <2>2, <2>3
<1>3. \A k \in 1 .. 12 : Goes(run[k - 1], Fields[k], run[k])
  BY <1>0, <1>2, ConsumeGoes, FieldsAre DEF Along
<1>4. run[0].state = "header_line_start" /\ ~run[0].headers
  BY <1>0 DEF Along
<1>5. run[1].state = "header_name" /\ run[1].headers
  <2>1. Goes(run[0], "letter", run[1])
    <3>1. 1 \in 1 .. 12 /\ 1 - 1 = 0
      OBVIOUS
    <3> QED BY <1>1, <1>3, <3>1
  <2> QED BY <1>4, <2>1, Chars DEF Goes
<1>6. run[2].state = "space_before_header_value" /\ run[2].headers
  <2>1. Goes(run[1], ":", run[2])
    <3>1. 2 \in 1 .. 12 /\ 2 - 1 = 1
      OBVIOUS
    <3> QED BY <1>1, <1>3, <3>1
  <2> QED BY <1>5, <2>1, Chars DEF Goes
<1>7. run[3].state = "header_value" /\ run[3].headers
  <2>1. Goes(run[2], "sp", run[3])
    <3>1. 3 \in 1 .. 12 /\ 3 - 1 = 2
      OBVIOUS
    <3> QED BY <1>1, <1>3, <3>1
  <2> QED BY <1>6, <2>1, Chars DEF Goes
<1>8. run[4].state = "header_value" /\ run[4].headers
  <2>1. Goes(run[3], "letter", run[4])
    <3>1. 4 \in 1 .. 12 /\ 4 - 1 = 3
      OBVIOUS
    <3> QED BY <1>1, <1>3, <3>1
  <2> QED BY <1>7, <2>1, Chars DEF Goes
<1>9. run[5].state = "expecting_newline_2" /\ run[5].headers
  <2>1. Goes(run[4], "cr", run[5])
    <3>1. 5 \in 1 .. 12 /\ 5 - 1 = 4
      OBVIOUS
    <3> QED BY <1>1, <1>3, <3>1
  <2> QED BY <1>8, <2>1, Chars DEF Goes
<1>10. run[6].state = "header_line_start" /\ run[6].headers
  <2>1. Goes(run[5], "lf", run[6])
    <3>1. 6 \in 1 .. 12 /\ 6 - 1 = 5
      OBVIOUS
    <3> QED BY <1>1, <1>3, <3>1
  <2> QED BY <1>9, <2>1, Chars DEF Goes
<1>11. run[7].state = "header_lws" /\ run[7].headers
  <2>1. Goes(run[6], "sp", run[7])
    <3>1. 7 \in 1 .. 12 /\ 7 - 1 = 6
      OBVIOUS
    <3> QED BY <1>1, <1>3, <3>1
  <2> QED BY <1>10, <2>1, Chars DEF Goes
<1>12. run[8].state = "header_value" /\ run[8].headers
  <2>1. Goes(run[7], "letter", run[8])
    <3>1. 8 \in 1 .. 12 /\ 8 - 1 = 7
      OBVIOUS
    <3> QED BY <1>1, <1>3, <3>1
  <2> QED BY <1>11, <2>1, Chars DEF Goes
<1>13. run[9].state = "expecting_newline_2" /\ run[9].headers
  <2>1. Goes(run[8], "cr", run[9])
    <3>1. 9 \in 1 .. 12 /\ 9 - 1 = 8
      OBVIOUS
    <3> QED BY <1>1, <1>3, <3>1
  <2> QED BY <1>12, <2>1, Chars DEF Goes
<1>14. run[10].state = "header_line_start" /\ run[10].headers
  <2>1. Goes(run[9], "lf", run[10])
    <3>1. 10 \in 1 .. 12 /\ 10 - 1 = 9
      OBVIOUS
    <3> QED BY <1>1, <1>3, <3>1
  <2> QED BY <1>13, <2>1, Chars DEF Goes
<1>15. run[11].state = "expecting_newline_3" /\ run[11].headers
  <2>1. Goes(run[10], "cr", run[11])
    <3>1. 11 \in 1 .. 12 /\ 11 - 1 = 10
      OBVIOUS
    <3> QED BY <1>1, <1>3, <3>1
  <2> QED BY <1>14, <2>1, Chars DEF Goes
<1>16. run[12].state = "good" /\ run[12].headers
  <2>1. Goes(run[11], "lf", run[12])
    <3>1. 12 \in 1 .. 12 /\ 12 - 1 = 11
      OBVIOUS
    <3> QED BY <1>1, <1>3, <3>1
  <2> QED BY <1>15, <2>1, Chars DEF Goes
<1> QED BY <1>0, <1>16

\* A continuation without a header before it makes parse() say bad.
LEMMA AfterNoFields ==
  ASSUME NEW p \in Parser, p.state = "header_line_start", ~p.headers
  PROVE  Parse(p, NoFields).state = "bad"
<1>1. PICK first \in Seq(Class), rest \in Seq(Class) :
        NoFields = first \o rest /\ Len(first) = 1 /\ first[1] = "sp"
  <2>1. <<"sp">> \in Seq(Class) /\ <<"letter", "cr", "lf", "cr", "lf">> \in Seq(Class)
    BY DEF Class, Token, Special, Ctl
  <2>2. NoFields = <<"sp">> \o <<"letter", "cr", "lf", "cr", "lf">>
    BY DEF NoFields
  <2> QED BY <2>1, <2>2
<1>2. Parse(p, NoFields) = Parse(Parse(p, first), rest)
  BY <1>1, ParseCut
<1>3. PICK run : Along(p, first, run) /\ Parse(p, first) = run[1]
  BY <1>1, ParseAlong
<1>4. run[0] = p /\ run[1] = Consume[p]["sp"] /\ run[1] \in Parser
  <2>1. 1 \in 1 .. 1 /\ 1 - 1 = 0 /\ 1 \in 0 .. 1
    OBVIOUS
  <2> QED BY <1>1, <1>3, <2>1 DEF Along
<1>5. "sp" \in Class
  BY DEF Class, Special
<1>6. Goes(p, "sp", run[1])
  BY <1>4, <1>5, ConsumeGoes
<1>7. run[1].state \in Early \cup Late
        \cup {"header_line_start", "expecting_newline_3", "good", "bad"}
  BY <1>4, ParserStatesAre DEF Parser
<1>8. run[1].state = "bad"
  BY <1>6, <1>7 DEF Goes, Early, Late, Blanks, Token
<1>9. Parse(run[1], rest) = run[1]
  BY <1>4, <1>8, Sticky DEF Result
<1> QED BY <1>2, <1>3, <1>8, <1>9

\* parse() has decided, one way or the other, when the line and the fields of a client's
\* request are read: do_read() never waits for more of them.
LEMMA HeadOfRequest ==
  ASSUME NEW r \in Requests
  PROVE  /\ Text(r, 0, 2) \in Seq(Class)
         /\ Parse(NewParser, Text(r, 0, 2)) \in Parser
         /\ Result(Parse(NewParser, Text(r, 0, 2))) \in {"good", "bad"}
<1>1. Pieced(r) /\ Len(r.pieces) >= 2 /\ r.pieces[1] = Line /\ r.pieces[2] \in {Fields, NoFields}
  BY RequestsAre
<1>2. Len(r.pieces) \in Nat
  BY <1>1 DEF Pieced
<1>3. 0 \in Nat /\ 1 \in Nat /\ 2 \in Nat /\ 0 <= Len(r.pieces) /\ 1 <= Len(r.pieces)
      /\ 2 <= Len(r.pieces) /\ 0 < 1 /\ 0 < 2 /\ 1 - 1 = 0 /\ 2 - 1 = 1
  BY <1>1, <1>2
<1>4. Text(r, 0, 0) = <<>>
  BY <1>1, <1>3, TextNone
<1>5. Text(r, 0, 1) = Text(r, 0, 1 - 1) \o r.pieces[1]
  BY <1>1, <1>3, TextMore
<1>6. Text(r, 0, 1) = Line
  <2>1. <<>> \o Line = Line
    BY LineIs
  <2> QED BY <1>1, <1>3, <1>4, <1>5, <2>1
<1>7. Text(r, 0, 2) = Text(r, 0, 2 - 1) \o r.pieces[2]
  BY <1>1, <1>3, TextMore
<1>8. PICK rest \in Seq(Class) : rest = r.pieces[2]
  BY <1>1, FieldsAre, NoFieldsAre
<1>9. Text(r, 0, 2) = Line \o rest
  BY <1>3, <1>6, <1>7, <1>8
<1>10. Parse(NewParser, Line \o rest) = Parse(Parse(NewParser, Line), rest)
  BY NewIsParser, LineIs, ParseCut
<1>11. PICK p \in Parser : p = Parse(NewParser, Line) /\ p.state = "header_line_start" /\ ~p.headers
  BY AfterLine
<1>12. Parse(p, rest).state \in {"good", "bad"}
  BY <1>1, <1>8, <1>11, AfterFields, AfterNoFields
<1>13. Line \o rest \in Seq(Class)
  BY LineIs
<1>14. Parse(NewParser, Line \o rest) \in Parser
  BY <1>13, NewIsParser, ParseIsParser
<1> QED BY <1>9, <1>10, <1>11, <1>12, <1>13, <1>14 DEF Result

\* What do_read() replies when parse() has ended in p.
Answer(p, r) == IF Result(p) = "bad" THEN "bad_request" ELSE HandleRequest(r.path)

\* Whenever parse() has decided, early or late, do_read() replies what the whole request
\* is to get.
LEMMA AnswerFits ==
  ASSUME NEW r \in Requests, NEW j \in Nat, j <= Len(r.pieces),
         Result(Parse(NewParser, Text(r, 0, j))) # "indeterminate"
  PROVE  Answer(Parse(NewParser, Text(r, 0, j)), r) = Expected(r)
<1>1. Pieced(r) /\ Len(r.pieces) >= 2
  BY RequestsAre
<1>2. Len(r.pieces) \in Nat
  BY <1>1 DEF Pieced
<1>3. 0 \in Nat /\ 2 \in Nat /\ 2 <= Len(r.pieces) /\ 0 <= j /\ 0 <= 2
  BY <1>1, <1>2
<1>4. PICK a \in Seq(Class) : a = Text(r, 0, 2)
  BY HeadOfRequest
<1>5. PICK p \in Parser : p = Parse(NewParser, a) /\ Result(p) \in {"good", "bad"}
  BY <1>4, HeadOfRequest
<1>6. PICK b \in Seq(Class) : b = Text(r, 0, j)
  BY <1>1, <1>3, TextIs
<1>7. PICK q \in Parser : q = Parse(NewParser, b)
  BY NewIsParser, ParseIsParser
<1>8. p = q
  <2>1. CASE j <= 2
    <3>1. PICK d \in Seq(Class) : d = Text(r, j, 2)
      BY <1>1, <1>3, TextIs
    <3>2. Text(r, 0, 2) = Text(r, 0, j) \o Text(r, j, 2)
      BY <1>1, <1>3, <2>1, TextCut
    <3>3. Parse(NewParser, b \o d) = Parse(Parse(NewParser, b), d)
      BY NewIsParser, ParseCut
    <3>4. Parse(q, d) = q
      BY <1>6, <1>7, Sticky
    <3> QED BY <1>4, <1>5, <1>6, <1>7, <3>1, <3>2, <3>3, <3>4
  <2>2. CASE 2 <= j
    <3>1. PICK d \in Seq(Class) : d = Text(r, 2, j)
      BY <1>1, <1>3, TextIs
    <3>2. Text(r, 0, j) = Text(r, 0, 2) \o Text(r, 2, j)
      BY <1>1, <1>3, <2>2, TextCut
    <3>3. Parse(NewParser, a \o d) = Parse(Parse(NewParser, a), d)
      BY NewIsParser, ParseCut
    <3>4. Result(p) # "indeterminate"
      BY <1>5
    <3>5. Parse(p, d) = p
      BY <3>4, Sticky
    <3> QED BY <1>4, <1>5, <1>6, <1>7, <3>1, <3>2, <3>3, <3>5
  <2> QED BY <2>1, <2>2
<1>9. Result(Parse(NewParser, a)) = "good" <=> HoldsRequest(a)
  BY ParserIsRight
<1>10. Result(Parse(NewParser, Text(r, 0, j))) = "bad" <=> ~HoldsRequest(Text(r, 0, 2))
  BY <1>4, <1>5, <1>6, <1>7, <1>8, <1>9
<1> QED BY <1>10 DEF Answer, Expected

\* A request with one character replaced, inserted or left out is a text.
LEMMA SlipsAreTexts == Slips \subseteq Seq(Class)
<1>1. Base \in Seq(Class)
  <2>1. Line \o Fields \in Seq(Class)
    BY LineIs, FieldsAre
  <2> QED BY <2>1 DEF Base
<1>2. PICK S : S = Seq(Class)
  OBVIOUS
<1>3. DOMAIN Base = 1 .. Len(Base) /\ Len(Base) \in Nat
  BY <1>1
<1>4. ASSUME NEW i \in DOMAIN Base
      PROVE  /\ SubSeq(Base, 1, i - 1) \in S
             /\ SubSeq(Base, i, Len(Base)) \in S
             /\ SubSeq(Base, i + 1, Len(Base)) \in S
  <2>1. i \in Int /\ 1 \in Int /\ i - 1 \in Int /\ i + 1 \in Int /\ Len(Base) \in Int
        /\ 1 >= 1 /\ i >= 1 /\ i + 1 >= 1 /\ i - 1 <= Len(Base) /\ Len(Base) <= Len(Base)
    BY <1>3
  <2>2. SubSeq(Base, 1, i - 1) \in Seq(Class)
    BY <1>1, <2>1, PartIs
  <2>3. SubSeq(Base, i, Len(Base)) \in Seq(Class)
    BY <1>1, <2>1, PartIs
  <2>4. SubSeq(Base, i + 1, Len(Base)) \in Seq(Class)
    BY <1>1, <2>1, PartIs
  <2> QED BY <1>2, <2>2, <2>3, <2>4
<1>5. \A u \in S, v \in S : u \o v \in S
  BY <1>2
<1>6. \A x \in Class : <<x>> \in S
  BY <1>2
<1>7. ASSUME NEW i \in DOMAIN Base, NEW x \in Class
      PROVE  /\ SubSeq(Base, 1, i - 1) \o SubSeq(Base, i + 1, Len(Base)) \in S
             /\ SubSeq(Base, 1, i - 1) \o <<x>> \o SubSeq(Base, i + 1, Len(Base)) \in S
             /\ SubSeq(Base, 1, i - 1) \o <<x>> \o SubSeq(Base, i, Len(Base)) \in S
  <2>1. PICK u \in S, v \in S, w \in S :
          /\ u = SubSeq(Base, 1, i - 1)
          /\ v = SubSeq(Base, i, Len(Base))
          /\ w = SubSeq(Base, i + 1, Len(Base))
    BY <1>4
  <2>2. u \o <<x>> \in S
    BY <1>5, <1>6
  <2> QED BY <1>5, <2>1, <2>2
<1>8. "letter" \in Class
  BY DEF Class, Token
<1> DEFINE before(i) == SubSeq(Base, 1, i - 1)
           from(i) == SubSeq(Base, i, Len(Base))
           left == {before(i) \o from(i + 1) : i \in DOMAIN Base}
           put(i, j) == {before(i) \o <<x>> \o from(j) : x \in Class}
           others == UNION {put(i, i) \cup put(i, i + 1) : i \in DOMAIN Base}
<1>9. Slips = {Base} \cup left \cup others
  BY DEF Slips
<1>10. left \subseteq S
  BY <1>7, <1>8
<1>11. ASSUME NEW i \in DOMAIN Base PROVE put(i, i) \cup put(i, i + 1) \subseteq S
  BY <1>7, <1>11
<1> HIDE DEF left, put
<1>12. others \subseteq S
  BY <1>11
<1> HIDE DEF others
<1> QED BY <1>1, <1>2, <1>9, <1>10, <1>12

\* parse() says good of a request with one slip, cut anywhere into two reads, just if it
\* still holds a request: consume()'s table of states is right about it.
THEOREM ParserIsCorrect == Spec => []ParserMatchesGrammar
<1>1. ASSUME NEW text \in Slips, NEW k \in 0 .. Len(text)
      PROVE  (Result(Parse(Parse(NewParser, SubSeq(text, 1, k)),
                           SubSeq(text, k + 1, Len(text)))) = "good") = HoldsRequest(text)
  <2>1. text \in Seq(Class)
    BY SlipsAreTexts
  <2>2. Result(Parse(NewParser, text)) = "good" <=> HoldsRequest(text)
    BY <2>1, ParserIsRight
  <2>3. HoldsRequest(text) \in BOOLEAN
    BY DEF HoldsRequest
  <2> QED BY <2>1, <2>2, <2>3, CutAnywhere
<1>2. ParserMatchesGrammar
  BY <1>1, Zenon DEF ParserMatchesGrammar
<1> QED BY <1>2, PTL

-----------------------------------------------------------------------------
(* Reads and replies                                                       *)

\* The parser that has read all that was handled, from the first character on.
SoFar(c) == Parse(NewParser, Text(request[c], 0, sent[c] - last[c]))

\* A connection as it is constructed.
Untouched(c) ==
  work[c] = "none" /\ sent[c] = 0 /\ last[c] = 0 /\ parser[c] = NewParser /\ ~reply[c].written

\* A connection that never came is untouched; a read is only handled once, and
\* before the next; the parser has read what was handled as if it had come at once;
\* a reply under way or written is that to the request.
Kept(c) ==
  /\ c \notin came => Untouched(c)
  /\ last[c] # 0 => work[c] = "reading" /\ result[c] = "ok"
  /\ parser[c] = SoFar(c)
  /\ work[c] = "writing" \/ reply[c].written => reply[c].status = Expected(request[c])

\* How many pieces were read are numbers.
Counts == sent \in [Connection -> Nat] /\ last \in [Connection -> Nat]

\* An accept ends with a connection that came.
Accepted == accept \in Connection => accept \in came

\* The inductive invariant of the connections' reads and replies.
ReplyInv == TypeOK /\ Counts /\ Accepted /\ \A c \in Connection : Kept(c)

\* A connection that has read nothing has its parser as constructed.
LEMMA NothingRead ==
  ASSUME NEW r \in Requests
  PROVE  Parse(NewParser, Text(r, 0, 0 - 0)) = NewParser
<1>1. Pieced(r) /\ Len(r.pieces) >= 2 /\ 0 - 0 = 0 /\ 0 \in Nat
  BY RequestsAre
<1>2. Len(r.pieces) \in Nat
  BY <1>1 DEF Pieced
<1>3. Text(r, 0, 0) = <<>>
  BY <1>1, <1>2, TextNone
<1>4. PICK e \in Seq(Class) : e = <<>> /\ Len(e) = 0
  <2>1. <<>> \in Seq(Class) /\ Len(<<>>) = 0
    OBVIOUS
  <2> QED BY <2>1
<1>5. PICK run : Along(NewParser, e, run) /\ Parse(NewParser, e) = run[0]
  BY <1>4, NewIsParser, ParseAlong
<1> QED BY <1>1, <1>3, <1>4, <1>5 DEF Along

\* The constructor of the server establishes the invariant.
LEMMA ReplyInit == Init => ReplyInv
<1> SUFFICES ASSUME Init PROVE ReplyInv
  OBVIOUS
<1>1. PICK r \in Requests : r = CHOOSE q \in Requests : TRUE
  <2>1. Request(<<Line, Fields>>, "file") \in Requests
    BY DEF Requests
  <2> QED BY <2>1
<1>2. request = [c \in Connection |-> r]
  BY <1>1, Zenon DEF Init
<1>3. Len(r.pieces) \in Nat
  BY RequestsAre DEF Pieced
<1>4. \A c \in Connection : /\ work[c] = "none" /\ result[c] = "none" /\ request[c] = r
                            /\ sent[c] = 0 /\ last[c] = 0 /\ parser[c] = NewParser
                            /\ reply[c] = [status |-> "none", written |-> FALSE]
  BY <1>2 DEF Init
<1>5. TypeOK
  <2>1. /\ work \in [Connection -> {"none", "reading", "writing"}]
        /\ result \in [Connection -> {"none", "ok", "failed", "aborted"}]
        /\ parser \in [Connection -> Parser]
    BY NewIsParser DEF Init
  <2>2. reply \in [Connection -> [status : Statuses, written : BOOLEAN]]
    BY DEF Init, Statuses
  <2>3. request \in [Connection -> Requests]
    BY <1>2
  <2>4. \A c \in Connection : sent[c] \in 0 .. Len(request[c].pieces) /\ last[c] \in 0 .. sent[c]
    BY <1>3, <1>4
  <2>5. /\ process \in {"running", "returned", "crashed"}
        /\ acceptor \in BOOLEAN
        /\ accept \in {"none", "pending", "aborted", "failed"} \cup Connection
        /\ signals \in {"waiting", "queued", "handled"}
        /\ open \subseteq came /\ connections \subseteq came /\ came \subseteq Connection
    BY DEF Init
  <2> QED BY <2>1, <2>2, <2>3, <2>4, <2>5 DEF TypeOK
<1>6. Counts
  BY DEF Counts, Init
<1>7. Accepted
  BY ConnectionAssumption DEF Accepted, Init
<1>8. ASSUME NEW c \in Connection PROVE Kept(c)
  <2>1. SoFar(c) = NewParser
    BY <1>4, NothingRead DEF SoFar
  <2> QED BY <1>4, <2>1 DEF Kept, Untouched
<1> QED BY <1>5, <1>6, <1>7, <1>8 DEF ReplyInv

\* A step that leaves a connection alone.
Same(c) ==
  /\ work'[c] = work[c] /\ result'[c] = result[c] /\ request'[c] = request[c]
  /\ sent'[c] = sent[c] /\ last'[c] = last[c] /\ parser'[c] = parser[c]
  /\ reply'[c] = reply[c]

\* A handler of one connection keeps the invariant of the others.
LEMMA KeptSame ==
  ASSUME NEW c, Kept(c), Same(c), came \subseteq came'
  PROVE  Kept(c)'
<1>1. SoFar(c)' = SoFar(c)
  BY DEF SoFar, Same
<1>2. Untouched(c)' <=> Untouched(c)
  BY DEF Untouched, Same
<1> QED BY <1>1, <1>2 DEF Kept, Same

\* do_accept()'s and do_await_stop()'s handlers keep the invariant.
LEMMA ReplyAccept ==
  ASSUME ReplyInv, AcceptFails \/ HandleAccept \/ Signal \/ HandleSignal \/ Return
  PROVE  ReplyInv'
<1> USE DEF ReplyInv
<1>1. CASE AcceptFails
  <2>1. TypeOK'
    BY <1>1 DEF TypeOK, AcceptFails
  <2>2. Counts' /\ Accepted'
    BY <1>1, ConnectionAssumption DEF Counts, Accepted, AcceptFails
  <2>3. \A c \in Connection : Same(c) /\ came' = came
    BY <1>1 DEF Same, AcceptFails
  <2> QED BY <2>1, <2>2, <2>3, KeptSame
<1>2. CASE HandleAccept
  <2>1. accept' \in {"none", "pending"}
    BY <1>2 DEF HandleAccept
  <2>2. Counts' /\ Accepted'
    BY <1>2, <2>1, ConnectionAssumption DEF Counts, Accepted, HandleAccept
  <2>3. UNCHANGED <<process, acceptor, signals, came, result, request, sent, last,
                    parser, reply>>
    BY <1>2 DEF HandleAccept
  <2>4. CASE UNCHANGED <<open, connections, work>>
    <3>1. TypeOK'
      BY <2>1, <2>3, <2>4 DEF TypeOK
    <3>2. \A c \in Connection : Same(c) /\ came' = came
      BY <2>3, <2>4 DEF Same
    <3> QED BY <2>2, <3>1, <3>2, KeptSame
  <2>5. CASE accept \in Connection /\ Start(accept)
    <3>1. PICK a \in Connection : a = accept /\ a \in came
      BY <2>5 DEF Accepted
    <3>2. /\ connections' = connections \cup {a}
          /\ open' = open \cup {a}
          /\ work' = [work EXCEPT ![a] = "reading"]
      BY <2>5, <3>1 DEF Start
    <3>3. TypeOK'
      BY <2>1, <2>3, <3>1, <3>2 DEF TypeOK
    <3>4. ASSUME NEW c \in Connection PROVE Kept(c)'
      <4>1. CASE c # a
        <5>1. Same(c) /\ came' = came
          BY <2>3, <3>2, <4>1 DEF Same, TypeOK
        <5> QED BY <5>1, KeptSame
      <4>2. CASE c = a
        <5>1. work'[c] = "reading" /\ c \in came'
          BY <2>3, <3>1, <3>2, <4>2 DEF TypeOK
        <5>2. SoFar(c)' = SoFar(c)
          BY <2>3 DEF SoFar
        <5> QED BY <2>3, <5>1, <5>2 DEF Kept
      <4> QED BY <4>1, <4>2
    <3> QED BY <2>2, <3>3, <3>4
  <2> QED BY <1>2, <2>4, <2>5 DEF HandleAccept
<1>3. CASE Signal \/ Return
  <2>1. TypeOK'
    BY <1>3 DEF TypeOK, Signal, Return
  <2>2. Counts' /\ Accepted'
    BY <1>3 DEF Counts, Accepted, Signal, Return
  <2>3. \A c \in Connection : Same(c) /\ came' = came
    BY <1>3 DEF Same, Signal, Return
  <2> QED BY <2>1, <2>2, <2>3, KeptSame
<1>4. CASE HandleSignal
  <2>1. UNCHANGED <<process, came, work, request, sent, last, parser, reply>>
    BY <1>4 DEF HandleSignal
  <2>2. result' = [c \in Connection |->
                     IF c \in connections /\ work[c] # "none" /\ result[c] = "none"
                     THEN "aborted" ELSE result[c]]
    BY <1>4 DEF HandleSignal, Aborted
  <2>3. TypeOK'
    <3>1. result' \in [Connection -> {"none", "ok", "failed", "aborted"}]
      BY <2>2 DEF TypeOK
    <3>2. /\ signals' = "handled" /\ acceptor' = FALSE
          /\ accept' = IF accept = "pending" THEN "aborted" ELSE accept
          /\ open' = open \ connections /\ connections' = {}
      BY <1>4 DEF HandleSignal
    <3> QED BY <2>1, <3>1, <3>2 DEF TypeOK
  <2>4. Counts' /\ Accepted'
    BY <1>4, <2>1, ConnectionAssumption DEF Counts, Accepted, HandleSignal
  <2>5. ASSUME NEW c \in Connection PROVE Kept(c)'
    <3>1. result[c] = "ok" => result'[c] = "ok"
      BY <2>2
    <3>2. SoFar(c)' = SoFar(c)
      BY <2>1 DEF SoFar
    <3>3. Untouched(c)' <=> Untouched(c)
      BY <2>1 DEF Untouched
    <3> QED BY <2>1, <3>1, <3>2, <3>3 DEF Kept
  <2> QED BY <2>3, <2>4, <2>5
<1> QED BY <1>1, <1>2, <1>3, <1>4

\* What clients and the network do while handlers are queued keeps the invariant.
LEMMA ReplyClient ==
  ASSUME ReplyInv, NEW c \in Connection, Connect(c) \/ Receive(c) \/ Written(c) \/ Break(c)
  PROVE  ReplyInv'
<1> USE DEF ReplyInv
<1>1. CASE Connect(c)
  <2>1. PICK r \in Requests : request' = [request EXCEPT ![c] = r]
    BY <1>1 DEF Connect
  <2>2. /\ c \notin came /\ came' = came \cup {c} /\ accept' = c
        /\ UNCHANGED <<process, acceptor, signals, open, connections, work, result,
                       sent, last, parser, reply>>
    BY <1>1 DEF Connect
  <2>3. Kept(c) /\ Untouched(c)
    BY <2>2 DEF Kept
  <2>4. Len(r.pieces) \in Nat
    BY RequestsAre DEF Pieced
  <2>5. request'[c] = r /\ \A d \in Connection : d # c => request'[d] = request[d]
    BY <2>1 DEF TypeOK
  <2>6. TypeOK'
    <3>1. request' \in [Connection -> Requests]
      BY <2>1 DEF TypeOK
    <3>2. \A d \in Connection : sent'[d] \in 0 .. Len(request'[d].pieces) /\ last'[d] \in 0 .. sent'[d]
      BY <2>2, <2>3, <2>4, <2>5 DEF TypeOK, Untouched
    <3> QED BY <2>2, <3>1, <3>2 DEF TypeOK
  <2>7. Counts' /\ Accepted'
    BY <2>2 DEF Counts, Accepted
  <2>8. ASSUME NEW d \in Connection PROVE Kept(d)'
    <3>1. CASE d # c
      <4>1. Same(d) /\ came \subseteq came'
        BY <2>2, <2>5, <3>1 DEF Same
      <4> QED BY <4>1, KeptSame
    <3>2. CASE d = c
      <4>1. d \in came'
        BY <2>2, <3>2
      <4>2. SoFar(d)' = Parse(NewParser, Text(r, 0, 0 - 0))
        BY <2>2, <2>3, <2>5, <3>2 DEF SoFar, Untouched
      <4>3. SoFar(d)' = NewParser
        BY <4>2, NothingRead
      <4> QED BY <2>2, <2>3, <3>2, <4>1, <4>3 DEF Kept, Untouched
    <3> QED BY <3>1, <3>2
  <2> QED BY <2>6, <2>7, <2>8
<1>2. CASE Receive(c)
  <2>1. PICK n \in 1 .. Len(request[c].pieces) - sent[c] :
          sent' = [sent EXCEPT ![c] = @ + n] /\ last' = [last EXCEPT ![c] = n]
    BY <1>2 DEF Receive
  <2>2. /\ work[c] = "reading" /\ result[c] = "none" /\ result' = [result EXCEPT ![c] = "ok"]
        /\ UNCHANGED <<process, acceptor, accept, signals, came, open, connections, work,
                       request, parser, reply>>
    BY <1>2 DEF Receive, Under
  <2>3. last[c] = 0 /\ c \in came /\ Kept(c)
    BY <2>2 DEF Kept, Untouched
  <2>4. request[c] \in Requests /\ Len(request[c].pieces) \in Nat /\ sent[c] \in Nat
    BY RequestsAre DEF Pieced, TypeOK, Counts
  <2>5. n \in Nat /\ n <= sent[c] + n /\ sent[c] + n \in Nat /\ sent[c] + n <= Len(request[c].pieces)
        /\ sent[c] + n - n = sent[c] - 0
    BY <2>4
  <2>6. /\ sent'[c] = sent[c] + n /\ last'[c] = n /\ result'[c] = "ok"
        /\ \A d \in Connection : d # c => sent'[d] = sent[d] /\ last'[d] = last[d] /\ result'[d] = result[d]
    BY <2>1, <2>2 DEF Counts, TypeOK
  <2>7. Counts' /\ Accepted'
    <3>1. sent' \in [Connection -> Nat] /\ last' \in [Connection -> Nat]
      BY <2>1, <2>5 DEF Counts
    <3> QED BY <2>2, <3>1 DEF Counts, Accepted
  <2>8. TypeOK'
    <3>1. result' \in [Connection -> {"none", "ok", "failed", "aborted"}]
      BY <2>2 DEF TypeOK
    <3>2. ASSUME NEW d \in Connection
          PROVE  sent'[d] \in 0 .. Len(request'[d].pieces) /\ last'[d] \in 0 .. sent'[d]
      <4>1. CASE d # c
        <5>1. sent'[d] = sent[d] /\ last'[d] = last[d] /\ request'[d] = request[d]
          BY <2>2, <2>6, <4>1
        <5>2. sent[d] \in 0 .. Len(request[d].pieces) /\ last[d] \in 0 .. sent[d]
          BY DEF TypeOK
        <5> QED BY <5>1, <5>2
      <4>2. CASE d = c
        <5>1. sent[c] + n \in 0 .. Len(request[c].pieces) /\ n \in 0 .. sent[c] + n
          BY <2>4, <2>5
        <5>2. sent'[c] = sent[c] + n /\ last'[c] = n /\ request'[c] = request[c]
          BY <2>2, <2>6
        <5> QED BY <4>2, <5>1, <5>2
      <4> QED BY <4>1, <4>2
    <3> QED BY <2>2, <3>1, <3>2 DEF TypeOK
  <2>9. ASSUME NEW d \in Connection PROVE Kept(d)'
    <3>1. CASE d # c
      <4>1. Same(d) /\ came' = came
        BY <2>2, <2>6, <3>1 DEF Same
      <4> QED BY <4>1, KeptSame
    <3>2. CASE d = c
      <4>1. SoFar(d)' = SoFar(d)
        <5>1. sent'[c] = sent[c] + n /\ last'[c] = n /\ last[c] = 0
          BY <2>3, <2>6
        <5>2. sent[c] \in Nat /\ n \in Nat
          BY <2>4, <2>5
        <5>3. sent'[c] - last'[c] = sent[c] - last[c]
          BY <5>1, <5>2
        <5> QED BY <2>2, <3>2, <5>3 DEF SoFar
      <4>2. d \in came'
        BY <2>2, <2>3, <3>2
      <4> QED BY <2>2, <2>6, <3>2, <4>1, <4>2 DEF Kept
    <3> QED BY <3>1, <3>2
  <2> QED BY <2>7, <2>8, <2>9
<1>3. CASE Written(c)
  <2>1. /\ work[c] = "writing" /\ result[c] = "none" /\ result' = [result EXCEPT ![c] = "ok"]
        /\ reply' = [reply EXCEPT ![c].written = TRUE]
        /\ UNCHANGED <<process, acceptor, accept, signals, came, open, connections, work,
                       request, sent, last, parser>>
    BY <1>3 DEF Written, Under
  <2>2. last[c] = 0 /\ c \in came /\ reply[c].status = Expected(request[c])
    BY <2>1 DEF Kept, Untouched
  <2>3. /\ result'[c] = "ok" /\ reply'[c].status = reply[c].status
        /\ \A d \in Connection : d # c => result'[d] = result[d] /\ reply'[d] = reply[d]
    BY <2>1 DEF TypeOK
  <2>4. TypeOK'
    <3>1. result' \in [Connection -> {"none", "ok", "failed", "aborted"}]
      BY <2>1 DEF TypeOK
    <3>2. reply' \in [Connection -> [status : Statuses, written : BOOLEAN]]
      BY <2>1 DEF TypeOK
    <3> QED BY <2>1, <3>1, <3>2 DEF TypeOK
  <2>5. Counts' /\ Accepted'
    BY <2>1 DEF Counts, Accepted
  <2>6. ASSUME NEW d \in Connection PROVE Kept(d)'
    <3>1. CASE d # c
      <4>1. Same(d) /\ came' = came
        BY <2>1, <2>3, <3>1 DEF Same
      <4> QED BY <4>1, KeptSame
    <3>2. CASE d = c
      <4>1. SoFar(d)' = SoFar(d)
        BY <2>1 DEF SoFar
      <4> QED BY <2>1, <2>2, <2>3, <3>2, <4>1 DEF Kept
    <3> QED BY <3>1, <3>2
  <2> QED BY <2>4, <2>5, <2>6
<1>4. CASE Break(c)
  <2>1. /\ work[c] # "none" /\ result[c] = "none" /\ result' = [result EXCEPT ![c] = "failed"]
        /\ UNCHANGED <<process, acceptor, accept, signals, came, open, connections, work,
                       request, sent, last, parser, reply>>
    BY <1>4 DEF Break, Under
  <2>2. last[c] = 0 /\ \A d \in Connection : d # c => result'[d] = result[d]
    BY <2>1 DEF Kept, TypeOK
  <2>3. TypeOK'
    <3>1. result' \in [Connection -> {"none", "ok", "failed", "aborted"}]
      BY <2>1 DEF TypeOK
    <3> QED BY <2>1, <3>1 DEF TypeOK
  <2>4. Counts' /\ Accepted'
    BY <2>1 DEF Counts, Accepted
  <2>5. ASSUME NEW d \in Connection PROVE Kept(d)'
    <3>1. CASE d # c
      <4>1. Same(d) /\ came' = came
        BY <2>1, <2>2, <3>1 DEF Same
      <4> QED BY <4>1, KeptSame
    <3>2. CASE d = c
      <4>1. SoFar(d)' = SoFar(d)
        BY <2>1 DEF SoFar
      <4>2. Untouched(d)' <=> Untouched(d)
        BY <2>1 DEF Untouched
      <4> QED BY <2>1, <2>2, <3>2, <4>1, <4>2 DEF Kept
    <3> QED BY <3>1, <3>2
  <2> QED BY <2>3, <2>4, <2>5
<1> QED BY <1>1, <1>2, <1>3, <1>4

\* Every request is to get one of the statuses that handle_request() gives.
LEMMA ExpectedIs ==
  ASSUME NEW r \in Requests
  PROVE  Expected(r) \in Statuses
<1>1. r.path \in {"file", "missing", "relative"}
  BY RequestsAre
<1>2. HandleRequest(r.path) \in {"ok", "not_found", "bad_request"}
  BY <1>1 DEF HandleRequest
<1> QED BY <1>2 DEF Expected, Statuses

\* do_read()'s handler leaves the parser as if all that was read had come at once, and
\* its reply is that to the request.
LEMMA ParsedIs ==
  ASSUME ReplyInv, NEW c \in Connection
  PROVE  /\ Parsed(c) = Parse(NewParser, Text(request[c], 0, sent[c] - 0))
         /\ Parsed(c) \in Parser
         /\ Result(Parsed(c)) # "indeterminate" =>
              Answer(Parsed(c), request[c]) = Expected(request[c])
<1>1. PICK r \in Requests : r = request[c]
  BY DEF ReplyInv, TypeOK
<1>2. PICK i \in Nat, j \in Nat : i = sent[c] - last[c] /\ j = sent[c] /\ i <= j /\ j <= Len(r.pieces)
  <2>1. sent[c] \in 0 .. Len(r.pieces) /\ last[c] \in 0 .. sent[c] /\ Len(r.pieces) \in Nat
    BY <1>1, RequestsAre DEF ReplyInv, TypeOK, Pieced
  <2> QED BY <2>1
<1>3. Pieced(r) /\ Len(r.pieces) \in Nat
  BY RequestsAre DEF Pieced
<1>4. parser[c] = Parse(NewParser, Text(r, 0, i))
  BY <1>1, <1>2 DEF ReplyInv, Kept, SoFar
<1>5. PICK a \in Seq(Class), b \in Seq(Class), d \in Seq(Class) :
        a = Text(r, 0, i) /\ b = Text(r, i, j) /\ d = Text(r, 0, j)
  <2>1. 0 \in Nat /\ i <= Len(r.pieces)
    BY <1>2, <1>3
  <2> QED BY <1>2, <1>3, <2>1, TextIs
<1>6. d = a \o b
  BY <1>2, <1>3, <1>5, TextCut
<1>7. Parse(NewParser, a \o b) = Parse(Parse(NewParser, a), b)
  BY NewIsParser, ParseCut
<1>8. Parsed(c) = Parse(NewParser, d)
  BY <1>1, <1>2, <1>4, <1>5, <1>6, <1>7 DEF Parsed
<1>9. Parse(NewParser, d) \in Parser
  BY NewIsParser, ParseIsParser
<1>10. Result(Parse(NewParser, Text(r, 0, j))) # "indeterminate" =>
         Answer(Parse(NewParser, Text(r, 0, j)), r) = Expected(r)
  BY <1>2, AnswerFits
<1>11. sent[c] - 0 = j
  BY <1>2
<1> QED BY <1>1, <1>5, <1>8, <1>9, <1>10, <1>11

\* do_read()'s handler keeps the invariant, whether it reads on or writes.
LEMMA ReplyRead ==
  ASSUME ReplyInv, NEW c \in Connection, HandleRead(c)
  PROVE  ReplyInv'
<1> USE DEF ReplyInv
<1>1. PICK p \in Parser : p = Parsed(c)
  BY ParsedIs
<1>2. /\ work[c] = "reading" /\ result[c] = "ok"
      /\ parser' = [parser EXCEPT ![c] = p]
      /\ last' = [last EXCEPT ![c] = 0]
      /\ UNCHANGED <<process, acceptor, accept, signals, came, request, sent>>
  BY <1>1 DEF HandleRead
<1>3. DoReply(c, p)
  BY <1>1 DEF HandleRead
<1>4. c \in came
  BY <1>2 DEF Kept, Untouched
<1>5. PICK what \in {"reading", "writing"} :
        /\ Begin(c, what)
        /\ what = "reading" => reply' = reply
        /\ what = "writing" =>
             reply' = [reply EXCEPT ![c].status = Expected(request[c])]
  <2>1. CASE Result(p) = "indeterminate"
    BY <1>3, <2>1 DEF DoReply
  <2>2. CASE Result(p) # "indeterminate"
    <3>1. Begin(c, "writing") /\ reply' = [reply EXCEPT ![c].status = Answer(p, request[c])]
      BY <1>3, <2>2 DEF DoReply, Answer
    <3>2. Answer(p, request[c]) = Expected(request[c])
      BY <1>1, <2>2, ParsedIs
    <3> QED BY <3>1, <3>2
  <2> QED BY <2>1, <2>2
<1>6. PICK ended \in {"none", "failed"} :
        /\ work' = [work EXCEPT ![c] = what]
        /\ result' = [result EXCEPT ![c] = ended]
        /\ UNCHANGED <<open, connections>>
  BY <1>5 DEF Begin
<1>7. Expected(request[c]) \in Statuses
  BY ExpectedIs DEF TypeOK
<1>8. reply' \in [Connection -> [status : Statuses, written : BOOLEAN]]
  BY <1>5, <1>7 DEF TypeOK
<1>9. /\ work' \in [Connection -> {"none", "reading", "writing"}]
      /\ result' \in [Connection -> {"none", "ok", "failed", "aborted"}]
      /\ parser' \in [Connection -> Parser]
  BY <1>1, <1>2, <1>6 DEF TypeOK
<1>10. last' \in [Connection -> Nat]
  BY <1>2 DEF Counts
<1>11. /\ work'[c] = what /\ parser'[c] = p /\ last'[c] = 0
       /\ \A d \in Connection : d # c =>
            /\ work'[d] = work[d] /\ result'[d] = result[d]
            /\ parser'[d] = parser[d] /\ last'[d] = last[d]
  BY <1>2, <1>6 DEF TypeOK, Counts
<1>12. \A d \in Connection : d # c => reply'[d] = reply[d]
  BY <1>5 DEF TypeOK
<1>13. /\ what = "reading" => reply'[c] = reply[c]
       /\ what = "writing" => reply'[c].status = Expected(request[c])
  BY <1>5 DEF TypeOK
<1>14. TypeOK'
  <2>1. \A d \in Connection : sent'[d] \in 0 .. Len(request'[d].pieces) /\ last'[d] \in 0 .. sent'[d]
    <3>1. \A d \in Connection : sent[d] \in Nat
      BY DEF Counts
    <3> QED BY <1>2, <1>11, <3>1 DEF TypeOK
  <2> QED BY <1>2, <1>6, <1>8, <1>9, <2>1 DEF TypeOK
<1>15. Counts' /\ Accepted'
  BY <1>2, <1>10 DEF Counts, Accepted
<1>16. ASSUME NEW d \in Connection PROVE Kept(d)'
  <2>1. CASE d # c
    <3>1. Same(d) /\ came' = came
      BY <1>2, <1>11, <1>12, <2>1 DEF Same
    <3> QED BY <3>1, KeptSame
  <2>2. CASE d = c
    <3>1. SoFar(d)' = p
      <4>1. sent'[c] - last'[c] = sent[c] - 0 /\ request'[c] = request[c]
        BY <1>2, <1>11
      <4>2. SoFar(c)' = Parse(NewParser, Text(request[c], 0, sent[c] - 0))
        BY <4>1 DEF SoFar
      <4> QED BY <1>1, <2>2, <4>2, ParsedIs
    <3>2. d \in came' /\ last'[d] = 0 /\ parser'[d] = p
      BY <1>2, <1>4, <1>11, <2>2
    <3>3. work'[d] = "writing" \/ reply'[d].written => reply'[d].status = Expected(request'[d])
      BY <1>2, <1>5, <1>11, <1>13, <2>2 DEF Kept
    <3> QED BY <3>1, <3>2, <3>3 DEF Kept
  <2> QED BY <2>1, <2>2
<1> QED BY <1>14, <1>15, <1>16

\* The handlers that end an operation keep the invariant, also after stop_all().
LEMMA ReplyEnd ==
  ASSUME ReplyInv, NEW c \in Connection, Crash(c) \/ HandleEnd(c) \/ HandleAborted(c)
  PROVE  ReplyInv'
<1> USE DEF ReplyInv
<1>1. CASE Crash(c)
  <2>1. TypeOK'
    BY <1>1 DEF TypeOK, Crash
  <2>2. Counts' /\ Accepted'
    BY <1>1 DEF Counts, Accepted, Crash
  <2>3. \A d \in Connection : Same(d) /\ came' = came
    BY <1>1 DEF Same, Crash
  <2> QED BY <2>1, <2>2, <2>3, KeptSame
<1>2. CASE HandleEnd(c) \/ HandleAborted(c)
  <2>1. /\ work' = [work EXCEPT ![c] = "none"]
        /\ result' = [result EXCEPT ![c] = "none"]
        /\ connections' \in {connections, connections \ {c}}
        /\ open' \in {open, open \ {c}}
        /\ UNCHANGED <<process, acceptor, accept, signals, came, request, sent, last,
                       parser, reply>>
    BY <1>2 DEF HandleEnd, HandleAborted, Stop, End
  <2>2. ~(work[c] = "reading" /\ result[c] = "ok")
    BY <1>2 DEF HandleEnd, HandleAborted
  <2>3. last[c] = 0
    BY <2>2 DEF Kept
  <2>4. /\ work'[c] = "none" /\ \A d \in Connection : d # c => work'[d] = work[d] /\ result'[d] = result[d]
    BY <2>1 DEF TypeOK
  <2>5. TypeOK'
    <3>1. /\ work' \in [Connection -> {"none", "reading", "writing"}]
          /\ result' \in [Connection -> {"none", "ok", "failed", "aborted"}]
      BY <2>1 DEF TypeOK
    <3>2. open' \subseteq came' /\ connections' \subseteq came'
      BY <2>1 DEF TypeOK
    <3> QED BY <2>1, <3>1, <3>2 DEF TypeOK
  <2>6. Counts' /\ Accepted'
    BY <2>1 DEF Counts, Accepted
  <2>7. ASSUME NEW d \in Connection PROVE Kept(d)'
    <3>1. CASE d # c
      <4>1. Same(d) /\ came' = came
        BY <2>1, <2>4, <3>1 DEF Same
      <4> QED BY <4>1, KeptSame
    <3>2. CASE d = c
      <4>1. SoFar(d)' = SoFar(d)
        BY <2>1 DEF SoFar
      <4>2. Untouched(d) => Untouched(d)'
        BY <2>1, <2>4, <3>2 DEF Untouched
      <4> QED BY <2>1, <2>3, <2>4, <3>2, <4>1, <4>2 DEF Kept
    <3> QED BY <3>1, <3>2
  <2> QED BY <2>5, <2>6, <2>7
<1> QED BY <1>1, <1>2

\* Every handler keeps the invariant.
LEMMA ReplyStep == ReplyInv /\ [Next]_vars => ReplyInv'
<1> SUFFICES ASSUME ReplyInv, [Next]_vars PROVE ReplyInv'
  OBVIOUS
<1>1. CASE AcceptFails \/ HandleAccept \/ Signal \/ HandleSignal \/ Return
  BY <1>1, ReplyAccept
<1>2. ASSUME NEW c \in Connection, Connect(c) \/ Receive(c) \/ Written(c) \/ Break(c)
      PROVE  ReplyInv'
  BY <1>2, ReplyClient
<1>3. ASSUME NEW c \in Connection, HandleRead(c) PROVE ReplyInv'
  BY <1>3, ReplyRead
<1>4. ASSUME NEW c \in Connection, Crash(c) \/ HandleEnd(c) \/ HandleAborted(c)
      PROVE  ReplyInv'
  BY <1>4, ReplyEnd
<1>5. CASE UNCHANGED vars
  <2>1. TypeOK'
    BY <1>5 DEF ReplyInv, TypeOK, vars
  <2>2. Counts' /\ Accepted'
    BY <1>5 DEF ReplyInv, Counts, Accepted, vars
  <2>3. \A d \in Connection : Same(d) /\ came' = came
    BY <1>5 DEF Same, vars
  <2> QED BY <2>1, <2>2, <2>3, KeptSame DEF ReplyInv
<1> QED BY <1>1, <1>2, <1>3, <1>4, <1>5 DEF Next, Handlers

\* Every variable keeps its type: what was read is part of the request, and every reply
\* has a status that handle_request() gives.
THEOREM TypeCorrect == Spec => []TypeOK
<1>1. ReplyInv => TypeOK
  BY DEF ReplyInv
<1> QED BY <1>1, ReplyInit, ReplyStep, PTL DEF Spec

\* What is written to a connection is the reply to the whole of its request, in however
\* many reads it came and whatever was accepted, closed or stopped between them.
THEOREM RepliesFit == Spec => []ReplyFitsRequest
<1>1. ReplyInv => ReplyFitsRequest
  <2> SUFFICES ASSUME ReplyInv, NEW c \in Connection, reply[c].written
               PROVE  reply[c].status = ExpectedReply[request[c]]
    BY DEF ReplyFitsRequest
  <2>1. reply[c].status = Expected(request[c]) /\ request[c] \in Requests
    BY DEF ReplyInv, Kept, TypeOK
  <2> QED BY <2>1 DEF ExpectedReply
<1> QED BY <1>1, ReplyInit, ReplyStep, PTL DEF Spec

==============================================================================

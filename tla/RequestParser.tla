---------------------------- MODULE RequestParser -----------------------------
(***************************************************************************)
(* request_parser of the Boost.Asio server: consume() takes one character  *)
(* after the other, parse() as many as a read brought.  A character is     *)
(* abstracted to what consume() tells apart; what it appends to the        *)
(* request is not kept, but for whether there is a header yet.             *)
(***************************************************************************)
EXTENDS Naturals, Sequences

\* The classes of characters: the letters of "HTTP" and ".", which the version
\* asks for, digits, any other letter, the separators the parser looks for, any
\* other special, any other control character, and what is no character at all.
Token == {"H", "T", "P", ".", "digit", "letter"}
Special == {"sp", "tab", ":", "/", "special"}
Ctl == {"tab", "cr", "lf", "ctl"}
Class == Token \cup Special \cup Ctl \cup {"none"}

\* consume(): in which state, on which characters, to which state.  On any other
\* character the request is bad.
Edges ==
  { <<"method_start", Token, "method">>,
    <<"method", {"sp"}, "uri">>,
    <<"method", Token, "method">>,
    <<"uri", {"sp"}, "http_version_h">>,
    <<"uri", Class \ (Ctl \cup {"sp"}), "uri">>,
    <<"http_version_h", {"H"}, "http_version_t_1">>,
    <<"http_version_t_1", {"T"}, "http_version_t_2">>,
    <<"http_version_t_2", {"T"}, "http_version_p">>,
    <<"http_version_p", {"P"}, "http_version_slash">>,
    <<"http_version_slash", {"/"}, "http_version_major_start">>,
    <<"http_version_major_start", {"digit"}, "http_version_major">>,
    <<"http_version_major", {"digit"}, "http_version_major">>,
    <<"http_version_major", {"."}, "http_version_minor_start">>,
    <<"http_version_minor_start", {"digit"}, "http_version_minor">>,
    <<"http_version_minor", {"digit"}, "http_version_minor">>,
    <<"http_version_minor", {"cr"}, "expecting_newline_1">>,
    <<"expecting_newline_1", {"lf"}, "header_line_start">>,
    <<"header_line_start", {"cr"}, "expecting_newline_3">>,
    <<"header_line_start", Token, "header_name">>,
    <<"header_name", {":"}, "space_before_header_value">>,
    <<"header_name", Token, "header_name">>,
    <<"space_before_header_value", {"sp"}, "header_value">>,
    <<"header_value", {"cr"}, "expecting_newline_2">>,
    <<"header_value", Class \ Ctl, "header_value">>,
    <<"header_lws", {"cr"}, "expecting_newline_2">>,
    <<"header_lws", {"sp", "tab"}, "header_lws">>,
    <<"header_lws", Class \ (Ctl \cup {"sp"}), "header_value">>,
    <<"expecting_newline_2", {"lf"}, "header_line_start">>,
    <<"expecting_newline_3", {"lf"}, "good">> }

\* A parser with its request: its state, and whether the request has a header.
ParserStates == {e[1] : e \in Edges}
Parser == [state : ParserStates \cup {"good", "bad"}, headers : BOOLEAN]
NewParser == [state |-> "method_start", headers |-> FALSE]

Result(p) == IF p.state \in {"good", "bad"} THEN p.state ELSE "indeterminate"

\* Variant: a line that begins with a blank needs no header before it.
Continues_Nothing(p, x) == p.state = "header_line_start" /\ x \in {"sp", "tab"}

\* A line that begins with a blank continues a header, if there is one.
Continues(p, x) == p.state = "header_line_start" /\ p.headers /\ x \in {"sp", "tab"}

To(s, x) == {e[3] : e \in {f \in Edges : f[1] = s /\ x \in f[2]}}

\* consume(), when parse() has not stopped.
Consume ==
  [p \in Parser |-> [x \in Class |->
     LET to == To(p.state, x)
         next == IF Continues(p, x) THEN "header_lws"
                 ELSE IF to = {} THEN "bad" ELSE CHOOSE s \in to : TRUE
     IN  IF Result(p) # "indeterminate" THEN p
         ELSE [state |-> next, headers |-> p.headers \/ next = "header_name"]]]

\* parse() of a text by a parser that earlier reads may have left anywhere.
Parse(p, text) ==
  LET run[i \in 0 .. Len(text)] == IF i = 0 THEN p ELSE Consume[run[i - 1]][text[i]]
  IN  run[Len(text)]

-----------------------------------------------------------------------------
(* What a request is, said without a parser, of the characters of a text   *)
(* from the i-th to the j-th.                                              *)

All(s, i, j, S) == \A k \in i .. j : s[k] \in S

IsNumber(s, i, j) == i <= j /\ All(s, i, j, {"digit"})

IsVersion(s, i, j) ==
  \E k \in i + 6 .. j :
    /\ s[i] = "H" /\ s[i + 1] = "T" /\ s[i + 2] = "T" /\ s[i + 3] = "P"
    /\ s[i + 4] = "/" /\ s[k] = "."
    /\ IsNumber(s, i + 5, k - 1) /\ IsNumber(s, k + 1, j)

IsRequestLine(s, i, j) ==
  \E k \in i + 1 .. j : \E l \in k + 1 .. j :
    /\ s[k] = "sp" /\ s[l] = "sp"
    /\ All(s, i, k - 1, Token)
    /\ All(s, k + 1, l - 1, Class \ (Ctl \cup {"sp"}))
    /\ IsVersion(s, l + 1, j)

IsHeader(s, i, j) ==
  \E k \in i + 1 .. j - 1 :
    /\ s[k] = ":" /\ s[k + 1] = "sp"
    /\ All(s, i, k - 1, Token)
    /\ All(s, k + 2, j, Class \ Ctl)

IsContinuation(s, i, j) ==
  \E k \in i .. j : All(s, i, k, {"sp", "tab"}) /\ All(s, k + 1, j, Class \ Ctl)

Ends(s, n) == {i \in 1 .. n : s[i] = "cr"}

\* The first n characters are lines that end in CR LF, the first of them a request
\* line and the others headers, of which all but the first may be continuations.
IsHead(s, n) ==
  LET ends == Ends(s, n)
  IN  /\ n - 1 \in ends
      /\ \A b \in ends : b < n /\ s[b + 1] = "lf"
      /\ \A a \in {1} \cup {b + 2 : b \in ends}, b \in ends :
           a <= b /\ ends \cap (a .. b - 1) = {} =>
             \/ a = 1 /\ IsRequestLine(s, a, b - 1)
             \/ a > 1 /\ IsHeader(s, a, b - 1)
             \/ IsContinuation(s, a, b - 1) /\ \E c \in ends : c + 2 < a

\* They end with an empty line.
IsRequest(s, n) ==
  n > 2 /\ IsHead(s, n - 2) /\ s[n - 1] = "cr" /\ s[n] = "lf"

\* Whether some first part of a text is a request.
HoldsRequest(text) == \E n \in 1 .. Len(text) : IsRequest(text, n)

==============================================================================

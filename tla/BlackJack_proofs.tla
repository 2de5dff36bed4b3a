----------------------------- MODULE BlackJack_proofs -----------------------------
(***************************************************************************)
(* Theorems about BlackJack, for any clients, any shoe and any funds.      *)
(* First what each step of DealerTable does to the table, for every table; *)
(* then that every step keeps the table sound, whatever comes in between;  *)
(* then what a round is while players stay and one handler is at work, and *)
(* that every step of that handler keeps it.                               *)
(***************************************************************************)
EXTENDS BlackJack, SequenceTheorems, WellFoundedInduction, FiniteSetTheorems, TLAPS

-----------------------------------------------------------------------------
(* Naturals                                                                *)

\* Every set of naturals with an element has a least one: Min() of the next players to ask.
LEMMA LeastOf == \A T \in SUBSET Nat : T # {} => \E x \in T : \A y \in T : x <= y
<1> SUFFICES ASSUME NEW T \in SUBSET Nat, T # {} PROVE \E x \in T : \A y \in T : x <= y
  OBVIOUS
<1>1. IsWellFoundedOn(OpToRel(<,Nat), Nat)
  BY NatLessThanWellFounded
<1>2. \E x \in T : \A y \in T : <<y,x>> \notin OpToRel(<,Nat)
  BY <1>1, WFMin, Zenon
<1>3. PICK x \in T : \A y \in T : <<y,x>> \notin OpToRel(<,Nat)
  BY <1>2
<1>4. \A y \in T : ~(y < x)
  BY <1>3 DEF OpToRel
<1> QED BY <1>4

\* Induction over the naturals without an operator as a parameter: the property is a set.
LEMMA SetInduction ==
  ASSUME NEW S \in SUBSET Nat, 0 \in S, \A n \in Nat : n \in S => n + 1 \in S
  PROVE  S = Nat
<1>1. SUFFICES ASSUME S # Nat PROVE FALSE
  OBVIOUS
<1>2. PICK x \in Nat \ S : \A y \in Nat \ S : x <= y
  BY <1>1, LeastOf
<1>3. x # 0 /\ x - 1 \in Nat /\ x - 1 \in S
  BY <1>2
<1> QED BY <1>2, <1>3

-----------------------------------------------------------------------------
(* Hands                                                                   *)

\* AddCard() adds the card's value to the hand and counts the card.
LEMMA AddCardEffect ==
  ASSUME NEW hand \in Hands, NEW value \in 1 .. 10
  PROVE  /\ AddCard(hand, value) \in Hands
         /\ AddCard(hand, value).low = hand.low + value
         /\ AddCard(hand, value).n = hand.n + 1
<1>1. PICK ace \in BOOLEAN : ace = (hand.ace \/ value = 1)
  OBVIOUS
<1>2. PICK low \in Nat : low = hand.low + value
  BY DEF Hands
<1>3. PICK n \in Nat : n = hand.n + 1
  BY DEF Hands
<1>4. PICK s \in {"Empty", "BlackJack", "Active", "Held", "Busted"} :
        s = IF n = 2 /\ Points(low, ace) = 21 THEN "BlackJack"
                     ELSE IF low > 21 THEN "Busted" ELSE "Active"
  OBVIOUS
<1>5. AddCard(hand, value) = [low |-> low, ace |-> ace, n |-> n, state |-> s]
  BY <1>1, <1>2, <1>3, <1>4, Zenon DEF AddCard
<1>6. AddCard(hand, value) \in Hands
  BY ONLY <1>5 DEF Hands
<1>7. AddCard(hand, value).low = low /\ AddCard(hand, value).n = n
  BY <1>5, SMT
<1> QED
  BY <1>2, <1>3, <1>6, <1>7

\* One step of the dealer's drawing, the hands it may end on after each card given by f.
Draw(f, hand) ==
  IF Stands(hand) THEN {hand} ELSE UNION {f[AddCard(hand, v)] : v \in CardValues}

\* A hand of 17 or more, with no ace counted high, draws no more: the drawing ends.
LEMMA StandsAt17 == \A hand \in Hands : hand.low >= 17 => Stands(hand)
<1> SUFFICES ASSUME NEW hand \in Hands, hand.low >= 17 PROVE Stands(hand)
  OBVIOUS
<1>1. hand.low \in Nat
  BY DEF Hands
<1>2. High(hand) \in Nat /\ High(hand) >= hand.low
  <2>1. CASE hand.ace
    BY <1>1, <2>1 DEF High, Points
  <2>2. CASE ~hand.ace
    BY <1>1, <2>2 DEF High, Points
  <2> QED BY <2>1, <2>2
<1> QED BY <1>1, <1>2 DEF Stands

\* The recursive function of the dealer's loop in DealerDeal() is what its definition says:
\* the least value of a hand grows with every card, and at 17 nothing more is drawn.
LEMMA DealerHandsDef == \A hand \in Hands : DealerHands[hand] = Draw(DealerHands, hand)
<1> DEFINE Right(f, k) == \A hand \in Hands : hand.low + k >= 17 => f[hand] = Draw(f, hand)
           S == {k \in Nat : \E f : Right(f, k)}
<1>1. 0 \in S
  <2> DEFINE f == [hand \in Hands |-> {hand}]
  <2>1. \A hand \in Hands : hand.low + 0 >= 17 => f[hand] = Draw(f, hand)
    BY StandsAt17 DEF Draw, Hands
  <2> QED BY <2>1
<1>2. ASSUME NEW k \in Nat, k \in S PROVE k + 1 \in S
  <2>1. PICK f : Right(f, k)
    BY <1>2
  <2> DEFINE g == [hand \in Hands |-> Draw(f, hand)]
  <2>2. ASSUME NEW hand \in Hands, hand.low + (k + 1) >= 17 PROVE g[hand] = Draw(g, hand)
    <3>1. ASSUME NEW v \in CardValues PROVE f[AddCard(hand, v)] = g[AddCard(hand, v)]
      <4>1. v \in 1 .. 10
        BY BlackJackAssumption
      <4>2. AddCard(hand, v) \in Hands /\ AddCard(hand, v).low = hand.low + v
        BY <4>1, AddCardEffect
      <4>3. AddCard(hand, v).low + k >= 17
        BY <4>1, <4>2, <2>2 DEF Hands
      <4> QED BY <4>2, <4>3, <2>1
    <3>2. UNION {f[AddCard(hand, v)] : v \in CardValues} = UNION {g[AddCard(hand, v)] : v \in CardValues}
      <4> HIDE DEF g
      <4> QED BY <3>1
    <3>3. g[hand] = Draw(f, hand)
      OBVIOUS
    <3> HIDE DEF g
    <3> QED BY <3>2, <3>3 DEF Draw
  <2> HIDE DEF g
  <2>3. Right(g, k + 1)
    BY <2>2
  <2> HIDE DEF Right
  <2> QED BY <2>3
<1>3. S = Nat
  <2> HIDE DEF S
  <2>1. S \in SUBSET Nat BY DEF S
  <2> QED BY <1>1, <1>2, <2>1, SetInduction
<1>4. PICK f : Right(f, 17)
  BY <1>3
<1> DEFINE g == [hand \in Hands |-> f[hand]]
<1>5. g = [hand \in Hands |-> IF Stands(hand) THEN {hand} ELSE UNION {g[AddCard(hand, v)] : v \in CardValues}]
  <2>1. ASSUME NEW hand \in Hands
        PROVE  g[hand] = IF Stands(hand) THEN {hand} ELSE UNION {g[AddCard(hand, v)] : v \in CardValues}
    <3>1. ASSUME NEW v \in CardValues PROVE g[AddCard(hand, v)] = f[AddCard(hand, v)]
      <4>1. v \in 1 .. 10
        BY BlackJackAssumption
      <4> QED BY <4>1, AddCardEffect
    <3>2. f[hand] = Draw(f, hand)
      BY <1>4 DEF Hands
    <3>3. g[hand] = f[hand]
      OBVIOUS
    <3> HIDE DEF g
    <3>4. UNION {f[AddCard(hand, v)] : v \in CardValues} = UNION {g[AddCard(hand, v)] : v \in CardValues}
      BY <3>1
    <3> QED BY <3>2, <3>3, <3>4 DEF Draw
  <2>2. g = [hand \in Hands |-> g[hand]]
    OBVIOUS
  <2> HIDE DEF g
  <2> QED BY <2>1, <2>2, Zenon
<1> HIDE DEF g
<1>6. DealerHands = [hand \in Hands |-> IF Stands(hand) THEN {hand} ELSE UNION {DealerHands[AddCard(hand, v)] : v \in CardValues}]
  BY <1>5, Zenon DEF DealerHands
<1> QED
  BY <1>6, Zenon DEF Draw

\* What the dealer ends on is a hand, and no card was put back.
LEMMA DrawnHands ==
  ASSUME NEW hand \in Hands, NEW d \in DealerHands[hand]
  PROVE  d \in Hands /\ d.n >= hand.n
<1> DEFINE Good(h) == \A e \in DealerHands[h] : e \in Hands /\ e.n >= h.n
           S == {k \in Nat : \A h \in Hands : h.low + k >= 17 => Good(h)}
<1>1. 0 \in S
  <2>1. ASSUME NEW h \in Hands, h.low + 0 >= 17 PROVE Good(h)
    <3>1. h.low >= 17 /\ h.n \in Nat
      BY <2>1 DEF Hands
    <3>2. DealerHands[h] = {h}
      BY <3>1, StandsAt17, DealerHandsDef DEF Draw
    <3> QED BY <3>1, <3>2
  <2> HIDE DEF Good
  <2> QED BY <2>1
<1>2. ASSUME NEW k \in Nat, k \in S PROVE k + 1 \in S
  <2>1. ASSUME NEW h \in Hands, h.low + (k + 1) >= 17 PROVE Good(h)
    <3>1. CASE Stands(h)
      <4>1. DealerHands[h] = {h}
        BY <3>1, DealerHandsDef DEF Draw
      <4> QED BY <4>1 DEF Hands
    <3>2. CASE ~Stands(h)
      <4>1. ASSUME NEW v \in CardValues PROVE Good(AddCard(h, v)) /\ AddCard(h, v).n = h.n + 1
        <5>1. v \in 1 .. 10
          BY BlackJackAssumption
        <5>2. AddCard(h, v) \in Hands /\ AddCard(h, v).low = h.low + v /\ AddCard(h, v).n = h.n + 1
          BY <5>1, AddCardEffect
        <5>3. AddCard(h, v).low + k >= 17
          BY <5>1, <5>2, <2>1 DEF Hands
        <5> HIDE DEF Good
        <5> QED BY <5>2, <5>3, <1>2
      <4>2. DealerHands[h] = UNION {DealerHands[AddCard(h, v)] : v \in CardValues}
        BY <3>2, DealerHandsDef DEF Draw
      <4>3. ASSUME NEW e \in DealerHands[h] PROVE e \in Hands /\ e.n >= h.n
        <5>1. PICK v \in CardValues : e \in DealerHands[AddCard(h, v)]
          BY <4>2
        <5>2. e \in Hands /\ e.n >= h.n + 1
          BY <5>1, <4>1
        <5> QED BY <5>2 DEF Hands
      <4> QED BY <4>3
    <3> QED BY <3>1, <3>2
  <2> HIDE DEF Good
  <2> QED BY <2>1
<1>3. S = Nat
  <2> HIDE DEF S
  <2>1. S \in SUBSET Nat BY DEF S
  <2> QED BY <1>1, <1>2, <2>1, SetInduction
<1>4. 17 \in S
  BY <1>3
<1>5. Good(hand)
  <2> HIDE DEF Good
  <2> QED BY <1>4 DEF Hands
<1> QED BY <1>5

-----------------------------------------------------------------------------
(* A handler's way through the table                                       *)

\* The types of a handler's way through the table.
Told == [Client -> Answers]
Work == [t : Table, told : Told, crashed : Crashes]

\* Replacing the table of a handler replaces nothing else.
LEMMA SetTable ==
  ASSUME NEW w \in Work, NEW t \in Table
  PROVE  /\ [w EXCEPT !.t = t] \in Work
         /\ [w EXCEPT !.t = t].t = t
         /\ [w EXCEPT !.t = t].told = w.told
         /\ [w EXCEPT !.t = t].crashed = w.crashed
BY DEF Work

\* Replacing the seats of a table replaces nothing else.
LEMMA SetSeats ==
  ASSUME NEW t \in Table, NEW s \in Seq(Seat)
  PROVE  LET u == [t EXCEPT !.seats = s] IN
         /\ u \in Table
         /\ u.seats = s /\ u.dealer = t.dealer /\ u.up = t.up
         /\ u.betting = t.betting /\ u.current = t.current
         /\ u.betsMade = t.betsMade /\ u.shoe = t.shoe
BY DEF Table

\* The players of a table are a sequence of seats, counted from 1 after the dealer.
LEMMA SeatFacts ==
  ASSUME NEW w \in Work
  PROVE  /\ w.t \in Table /\ w.told \in Told /\ w.t.seats \in Seq(Seat)
         /\ Len(w.t.seats) \in Nat /\ DOMAIN w.t.seats = Seats(w.t)
         /\ \A i \in Seats(w.t) : /\ i \in Nat /\ i > 0 /\ i <= Len(w.t.seats)
                                  /\ w.t.seats[i] \in Seat /\ w.t.seats[i].name \in Client
<1>1. w.t \in Table /\ w.told \in Told
  BY DEF Work
<1>2. w.t.seats \in Seq(Seat)
  BY <1>1 DEF Table
<1>3. Len(w.t.seats) \in Nat /\ DOMAIN w.t.seats = 1 .. Len(w.t.seats)
  BY <1>2
<1>4. \A i \in Seats(w.t) : i \in Nat /\ i > 0 /\ i <= Len(w.t.seats) /\ w.t.seats[i] \in Seat
  BY <1>2, <1>3 DEF Seats
<1>5. \A seat \in Seat : seat.name \in Client
  BY DEF Seat
<1> QED BY <1>1, <1>2, <1>3, <1>4, <1>5 DEF Seats

\* What a loop of replies to the players S leaves behind: those with a request have their
\* answer and no request, the others have the news.
Notified(v, w, S, status) ==
  /\ v \in Work
  /\ v.crashed = w.crashed
  /\ v.t = [w.t EXCEPT !.seats = v.t.seats]
  /\ Len(v.t.seats) = Len(w.t.seats)
  /\ \A i \in Seats(w.t) :
       v.t.seats[i] = IF i \notin S THEN w.t.seats[i]
                      ELSE IF w.t.seats[i].kept # "none"
                           THEN [w.t.seats[i] EXCEPT !.kept = "none"]
                           ELSE [w.t.seats[i] EXCEPT !.pending = status]
  /\ \A c \in Client :
       v.told[c] = IF \E i \in S : w.t.seats[i].kept # "none" /\ w.t.seats[i].name = c
                   THEN status ELSE w.told[c]

\* Notify does so, for every set of players and every status: no other seat and no other
\* client hears of it.
LEMMA NotifyEffect ==
  ASSUME NEW w \in Work, NEW S \in SUBSET Seats(w.t), NEW status \in Statuses
  PROVE  Notified(Notify(w, S, status), w, S, status)
<1> DEFINE seats == w.t.seats
           kept == {i \in S : seats[i].kept # "none"}
           names == {seats[i].name : i \in kept}
           now == [i \in DOMAIN seats |->
                       IF i \in kept THEN [seats[i] EXCEPT !.kept = "none"]
                       ELSE IF i \in S THEN [seats[i] EXCEPT !.pending = status]
                       ELSE seats[i]]
           told2 == [c \in Client |-> IF c \in names THEN status ELSE w.told[c]]
<1>1. seats \in Seq(Seat) /\ DOMAIN seats = Seats(w.t) /\ w.t \in Table
  BY DEF Work, Table, Seats
<1>2. ASSUME NEW i \in DOMAIN seats PROVE now[i] \in Seat
  <2>1. seats[i] \in Seat
    BY <1>1
  <2>2. [seats[i] EXCEPT !.kept = "none"] \in Seat /\ [seats[i] EXCEPT !.pending = status] \in Seat
    BY <2>1 DEF Seat
  <2> QED BY <2>1, <2>2
<1>3. now \in Seq(Seat) /\ Len(now) = Len(seats)
  <2> HIDE DEF kept
  <2>1. now \in [1 .. Len(seats) -> Seat] /\ Len(seats) \in Nat
    BY <1>1, <1>2 
  <2> HIDE DEF now
  <2> QED BY <2>1
<1>4. told2 \in Told
  <2> HIDE DEF names
  <2> QED BY DEF Work, Told, Answers
<1>5. Notify(w, S, status) = [w EXCEPT !.t.seats = now, !.told = told2]
  BY Zenon DEF Notify
<1> HIDE DEF now, told2
<1>6. PICK v : v = Notify(w, S, status)
  OBVIOUS
<1>7. v = [w EXCEPT !.t.seats = now, !.told = told2]
  BY <1>5, <1>6
<1>8. v.t = [w.t EXCEPT !.seats = now] /\ v.told = told2 /\ v.crashed = w.crashed /\ v \in Work
  BY <1>7, <1>3, <1>4, <1>1, SetSeats DEF Work
<1>9. v.t.seats = now
  BY <1>8, <1>1, <1>3, SetSeats
<1>10. \A i \in Seats(w.t) :
              now[i] = IF i \notin S THEN w.t.seats[i]
                             ELSE IF w.t.seats[i].kept # "none"
                                  THEN [w.t.seats[i] EXCEPT !.kept = "none"]
                                  ELSE [w.t.seats[i] EXCEPT !.pending = status]
  BY <1>1 DEF now
<1>11. \A c \in Client :
              told2[c] = IF \E i \in S : w.t.seats[i].kept # "none" /\ w.t.seats[i].name = c
                          THEN status ELSE w.told[c]
  <2>1. \A c : c \in names <=> \E i \in S : w.t.seats[i].kept # "none" /\ w.t.seats[i].name = c
    OBVIOUS
  <2> HIDE DEF names
  <2>2. \A c \in Client : told2[c] = IF c \in names THEN status ELSE w.told[c]
    BY DEF told2
  <2> QED BY <2>1, <2>2
<1> HIDE DEF seats
<1>12. Len(v.t.seats) = Len(w.t.seats)
  BY <1>9, <1>3 DEF seats
<1> QED
  BY <1>6, <1>8, <1>9, <1>10, <1>11, <1>12 DEF Notified

\* Cards are taken off the shoe alone, or the server is dead.
LEMMA TakesEffect ==
  ASSUME NEW w \in Work, NEW cards \in Nat
  PROVE  LET v == Takes(w, cards) IN
         /\ v \in Work /\ v.told = w.told
         /\ v.crashed \in {w.crashed, "shoe"}
         /\ v.crashed = "no" => w.crashed = "no" /\ v.t = [w.t EXCEPT !.shoe = v.t.shoe]
<1>1. CASE w.t.shoe < cards
  BY <1>1 DEF Takes, Dies, Work, Crashes
<1>2. CASE ~(w.t.shoe < cards)
  <2>1. w.t \in Table /\ w.t.shoe \in 0 .. ShoeSize
    BY DEF Work, Table
  <2>2. w.t.shoe - cards \in 0 .. ShoeSize
    BY <1>2, <2>1, BlackJackAssumption
  <2>3. PICK t : t = [w.t EXCEPT !.shoe = w.t.shoe - cards]
    OBVIOUS
  <2>4. t \in Table /\ t.shoe = w.t.shoe - cards
    BY <2>1, <2>2, <2>3 DEF Table
  <2>5. Takes(w, cards) = [w EXCEPT !.t = t]
    BY <1>2, <2>3, Zenon DEF Takes
  <2> QED BY <2>3, <2>4, <2>5, SetTable
<1> QED BY <1>1, <1>2

\* An answer reaches its client and changes nothing else.
LEMMA TellsEffect ==
  ASSUME NEW w \in Work, NEW c \in Client, NEW answer \in Answers
  PROVE  LET v == Tells(w, c, answer) IN
         /\ v \in Work /\ v.t = w.t /\ v.crashed = w.crashed
         /\ v.told = [w.told EXCEPT ![c] = answer]
BY DEF Tells, Work, Told

\* A handler that dies leaves table and clients as they were.
LEMMA DiesEffect ==
  ASSUME NEW w \in Work, NEW why \in Crashes
  PROVE  LET v == Dies(w, why) IN
         v \in Work /\ v.t = w.t /\ v.told = w.told /\ v.crashed = why
BY DEF Dies, Work
-----------------------------------------------------------------------------
(* Replies and payments                                                    *)

\* What m_responses[i]->reply() does to the player whose turn comes: it is told, and its
\* request is gone; without a request the server dies.
AskedNext(v, w, i) ==
  /\ v \in Work
  /\ w.t.seats[i].kept = "none" =>
       v.t = w.t /\ v.told = w.told /\ v.crashed = "response"
  /\ w.t.seats[i].kept # "none" =>
       /\ v.crashed = w.crashed
       /\ v.t = [w.t EXCEPT !.seats = v.t.seats]
       /\ v.t.seats = [w.t.seats EXCEPT ![i].kept = "none"]
       /\ v.told = [w.told EXCEPT ![w.t.seats[i].name] = "YourTurn"]

\* YourTurn does so for every player of the table.
LEMMA YourTurnEffect ==
  ASSUME NEW w \in Work, NEW i \in Seats(w.t)
  PROVE  AskedNext(YourTurn(w, i), w, i)
<1> DEFINE v == YourTurn(w, i)
<1>1. i \in Nat /\ w.t.seats[i] \in Seat /\ w.t.seats \in Seq(Seat) /\ w.t \in Table
  BY SeatFacts
<1>2. CASE w.t.seats[i].kept = "none"
  <2>1. v = Dies(w, "response")
    BY <1>2, Zenon DEF YourTurn
  <2> HIDE DEF v
  <2>2. AskedNext(v, w, i)
    BY <1>2, <2>1, DiesEffect DEF Crashes, AskedNext
  <2> QED BY <2>2 DEF v
<1>3. CASE w.t.seats[i].kept # "none"
  <2>1. v = Notify(w, {i}, "YourTurn")
    BY <1>3, Zenon DEF YourTurn
  <2> HIDE DEF v
  <2>2. Notified(v, w, {i}, "YourTurn")
    BY <2>1, NotifyEffect DEF Statuses
  <2>3. v \in Work /\ v.crashed = w.crashed /\ v.t.seats \in Seq(Seat)
    BY <2>2, SeatFacts DEF Notified
  <2>4. v.t.seats = [w.t.seats EXCEPT ![i].kept = "none"]
    <3>1. Len(v.t.seats) = Len(w.t.seats)
      BY <2>2 DEF Notified
    <3>2. ASSUME NEW j \in 1 .. Len(w.t.seats) PROVE v.t.seats[j] =
            IF j = i THEN [w.t.seats[i] EXCEPT !.kept = "none"] ELSE w.t.seats[j]
      <4>1. j \in Seats(w.t)
        BY DEF Seats
      <4>2. v.t.seats[j] = IF j \notin {i} THEN w.t.seats[j]
                           ELSE IF w.t.seats[j].kept # "none"
                                THEN [w.t.seats[j] EXCEPT !.kept = "none"]
                                ELSE [w.t.seats[j] EXCEPT !.pending = "YourTurn"]
        BY <4>1, <2>2, Zenon DEF Notified
      <4>3. CASE j = i
        BY <4>2, <4>3, <1>3
      <4>4. CASE j # i
        BY <4>2, <4>4
      <4> QED BY <4>3, <4>4
    <3>3. PICK s : s = [w.t.seats EXCEPT ![i].kept = "none"]
      OBVIOUS
    <3>4. [w.t.seats[i] EXCEPT !.kept = "none"] \in Seat
      BY <1>1 DEF Seat
    <3>5. s \in Seq(Seat) /\ Len(s) = Len(w.t.seats) /\ i \in 1 .. Len(w.t.seats)
      BY <3>3, <3>4, <1>1 DEF Seats
    <3>6. \A j \in 1 .. Len(w.t.seats) : s[j] = v.t.seats[j]
      BY <3>2, <3>3, <1>1
    <3>7. v.t.seats = s
      BY <2>3, <3>1, <3>5, <3>6, SeqEqual
    <3> QED BY <3>3, <3>7
  <2>5. v.told = [w.told EXCEPT ![w.t.seats[i].name] = "YourTurn"]
    <3>1. v.told \in Told /\ w.told \in Told
      BY <2>3, SeatFacts
    <3>2. ASSUME NEW c \in Client
          PROVE  v.told[c] = IF c = w.t.seats[i].name THEN "YourTurn" ELSE w.told[c]
      <4>1. v.told[c] = IF \E j \in {i} : w.t.seats[j].kept # "none" /\ w.t.seats[j].name = c
                        THEN "YourTurn" ELSE w.told[c]
        BY <2>2 DEF Notified
      <4>2. (\E j \in {i} : w.t.seats[j].kept # "none" /\ w.t.seats[j].name = c)
              <=> c = w.t.seats[i].name
        BY <1>3
      <4> QED BY <4>1, <4>2
    <3> QED BY <3>1, <3>2, Zenon DEF Told
  <2>6. v.t = [w.t EXCEPT !.seats = v.t.seats]
    BY <2>2 DEF Notified
  <2>7. AskedNext(v, w, i)
    BY <1>3, <2>3, <2>4, <2>5, <2>6 DEF AskedNext
  <2> QED BY <2>7 DEF v
<1> QED BY <1>2, <1>3

\* DealerDeal() finds a result for everyone, and "None" only for those who have not bet.
LEMMA ResultType ==
  ASSUME NEW seat \in Seat, NEW dealer
  PROVE  /\ Result(seat, dealer) \in Results
         /\ seat.bet > 0 => Result(seat, dealer) # "None"
<1>1. seat.bet \in Nat
  BY DEF Seat
<1>2. CASE seat.bet = 0
  BY <1>1, <1>2 DEF Result, Results
<1>3. CASE seat.bet # 0 /\ seat.hand.state = "Busted"
  BY <1>1, <1>3 DEF Result, Results
<1>4. CASE seat.bet # 0 /\ seat.hand.state = "BlackJack"
  BY <1>1, <1>4 DEF Result, Results
<1>5. CASE seat.bet # 0 /\ seat.hand.state \notin {"Busted", "BlackJack"}
  BY <1>1, <1>5 DEF Result, Results
<1> QED BY <1>2, <1>3, <1>4, <1>5

\* PayUp() empties the insurance, and the bet of everyone who has a result; it touches no
\* request.
LEMMA PayEffect ==
  ASSUME NEW seat \in Seat, NEW result \in Results, NEW dealer
  PROVE  LET paid == Pay(seat, result, dealer) IN
         /\ paid \in Seat /\ paid.name = seat.name /\ paid.hand = seat.hand
         /\ paid.kept = seat.kept /\ paid.pending = seat.pending
         /\ paid.bet = (IF result = "None" THEN seat.bet ELSE 0) /\ paid.insurance = 0
<1>1. seat.bet \in Nat /\ seat.insurance \in Nat /\ seat.balance \in Int
  BY DEF Seat
<1>2. PICK share : share = Share[result]
  OBVIOUS
<1>3. share \in {0, 2, 4, 5}
  BY <1>2 DEF Share, Results
<1>4. PICK insured : insured = IF dealer.state = "BlackJack" THEN 3 * seat.insurance ELSE 0
  OBVIOUS
<1>5. insured \in Int
  BY <1>1, <1>4
<1>6. (seat.bet * share) \div 2 \in Int
  <2>1. seat.bet * share \in Nat
    BY <1>1, <1>3
  <2> QED BY <2>1
<1>7. PICK balance : balance = seat.balance + (seat.bet * share) \div 2 + insured
  OBVIOUS
<1>8. balance \in Int
  BY <1>1, <1>5, <1>6, <1>7
<1>9. PICK bet : bet = IF result = "None" THEN seat.bet ELSE 0
  OBVIOUS
<1>10. bet \in Nat
  BY <1>1, <1>9
<1>11. PICK paid : paid = Pay(seat, result, dealer)
  OBVIOUS
<1>12. paid = [seat EXCEPT !.balance = balance, !.bet = bet, !.insurance = 0]
  BY <1>2, <1>4, <1>7, <1>9, <1>11, Zenon DEF Pay
<1>13. /\ paid \in Seat /\ paid.name = seat.name /\ paid.hand = seat.hand
       /\ paid.kept = seat.kept /\ paid.pending = seat.pending
       /\ paid.bet = bet /\ paid.insurance = 0
  BY <1>8, <1>10, <1>12 DEF Seat
<1> QED BY <1>9, <1>11, <1>13

-----------------------------------------------------------------------------
(* Seats and names                                                         *)

\* Min() of the players that are left to ask is one of them.
LEMMA MinIn == \A S \in SUBSET Nat : S # {} => Min(S) \in S
<1> SUFFICES ASSUME NEW S \in SUBSET Nat, S # {} PROVE Min(S) \in S
  OBVIOUS
<1>1. \E x \in S : \A y \in S : x <= y
  BY LeastOf
<1> QED BY <1>1, Zenon DEF Min

\* A name has one seat, and the clients with a seat are those that are not away.
Seated(w) ==
  /\ \A i, j \in Seats(w.t) : w.t.seats[i].name = w.t.seats[j].name => i = j
  /\ \A c \in Client : w.told[c] = "away" <=> \A i \in Seats(w.t) : w.t.seats[i].name # c

\* That depends on the names and on who is away only.
LEMMA SeatedKept ==
  ASSUME NEW w, NEW v, Seated(w), Len(v.t.seats) = Len(w.t.seats),
         \A i \in Seats(w.t) : v.t.seats[i].name = w.t.seats[i].name,
         \A c \in Client : v.told[c] = "away" <=> w.told[c] = "away"
  PROVE  Seated(v)
BY DEF Seated, Seats

\* A loop of replies seats nobody and unseats nobody.
LEMMA NotifySeated ==
  ASSUME NEW w \in Work, Seated(w), NEW S \in SUBSET Seats(w.t), NEW status \in Statuses
  PROVE  Seated(Notify(w, S, status))
<1> DEFINE v == Notify(w, S, status)
<1>1. Notified(v, w, S, status)
  BY NotifyEffect
<1> HIDE DEF v
<1>2. ASSUME NEW i \in Seats(w.t) PROVE v.t.seats[i].name = w.t.seats[i].name
  <2>1. w.t.seats[i] \in Seat
    BY SeatFacts
  <2>2. v.t.seats[i] \in {w.t.seats[i], [w.t.seats[i] EXCEPT !.kept = "none"],
                          [w.t.seats[i] EXCEPT !.pending = status]}
    BY <1>1 DEF Notified
  <2> QED BY <2>1, <2>2 DEF Seat
<1>3. ASSUME NEW c \in Client PROVE v.told[c] = "away" <=> w.told[c] = "away"
  <2>1. v.told[c] = IF \E i \in S : w.t.seats[i].kept # "none" /\ w.t.seats[i].name = c
                    THEN status ELSE w.told[c]
    BY <1>1 DEF Notified
  <2> QED BY <2>1 DEF Seated, Statuses
<1>4. Len(v.t.seats) = Len(w.t.seats)
  BY <1>1 DEF Notified
<1> QED BY <1>2, <1>3, <1>4, SeatedKept DEF v

\* Asking a player seats nobody and unseats nobody.
LEMMA YourTurnSeated ==
  ASSUME NEW w \in Work, Seated(w), NEW i \in Seats(w.t)
  PROVE  Seated(YourTurn(w, i))
<1> DEFINE v == YourTurn(w, i)
<1>1. AskedNext(v, w, i)
  BY YourTurnEffect
<1> HIDE DEF v
<1>2. w.t.seats[i] \in Seat /\ w.t.seats[i].name \in Client /\ w.t.seats \in Seq(Seat) /\ w.told \in Told
  BY SeatFacts
<1>3. CASE w.t.seats[i].kept = "none"
  <2>1. v.t = w.t /\ v.told = w.told
    BY <1>1, <1>3 DEF AskedNext
  <2> QED BY <2>1, SeatedKept DEF v
<1>4. CASE w.t.seats[i].kept # "none"
  <2>1. /\ v.t.seats = [w.t.seats EXCEPT ![i].kept = "none"]
        /\ v.told = [w.told EXCEPT ![w.t.seats[i].name] = "YourTurn"]
    BY <1>1, <1>4 DEF AskedNext
  <2>2. Len(v.t.seats) = Len(w.t.seats)
    BY <2>1, <1>2
  <2>3. ASSUME NEW j \in Seats(w.t) PROVE v.t.seats[j].name = w.t.seats[j].name
    <3>1. w.t.seats[j] \in Seat /\ j \in 1 .. Len(w.t.seats)
      BY SeatFacts DEF Seats
    <3>2. v.t.seats[j] = IF j = i THEN [w.t.seats[i] EXCEPT !.kept = "none"] ELSE w.t.seats[j]
      BY <2>1, <3>1, <1>2
    <3> QED BY <3>1, <3>2 DEF Seat
  <2>4. \A c \in Client : v.told[c] = "away" <=> w.told[c] = "away"
    BY <2>1, <1>2 DEF Seated, Told
  <2> QED BY <2>2, <2>3, <2>4, SeatedKept DEF v
<1> QED BY <1>3, <1>4
-----------------------------------------------------------------------------
(* One seat                                                                *)

\* A table with one seat replaced.
WithSeat(v, w, i, seat) ==
  /\ v \in Work /\ v.told = w.told /\ v.crashed = w.crashed
  /\ v.t = [w.t EXCEPT !.seats = v.t.seats]
  /\ v.t.seats = [w.t.seats EXCEPT ![i] = seat]

\* Assigning to a field of one player replaces that player's seat only.
LEMMA SeatChanged ==
  ASSUME NEW w \in Work, NEW i \in Seats(w.t), NEW seat \in Seat
  PROVE  WithSeat([w EXCEPT !.t.seats[i] = seat], w, i, seat)
<1>1. w.t \in Table /\ w.t.seats \in Seq(Seat) /\ i \in 1 .. Len(w.t.seats)
  BY SeatFacts DEF Seats
<1>2. PICK s : s = [w.t.seats EXCEPT ![i] = seat]
  OBVIOUS
<1>3. s \in Seq(Seat)
  BY <1>1, <1>2
<1>4. PICK t : t = [w.t EXCEPT !.seats = s]
  OBVIOUS
<1>5. t \in Table /\ t.seats = s
  BY <1>1, <1>3, <1>4, SetSeats
<1>6. PICK v : v = [w EXCEPT !.t.seats[i] = seat]
  OBVIOUS
<1>7. v = [w EXCEPT !.t = t]
  BY <1>2, <1>4, <1>6, Zenon
<1>8. v \in Work /\ v.t = t /\ v.told = w.told /\ v.crashed = w.crashed
  BY <1>5, <1>7, SetTable
<1>9. WithSeat(v, w, i, seat)
  BY <1>2, <1>4, <1>5, <1>8 DEF WithSeat
<1> QED BY <1>6, <1>9

\* A seat that keeps its name seats nobody else.
LEMMA SeatChangedSeated ==
  ASSUME NEW w \in Work, Seated(w), NEW i \in Seats(w.t), NEW seat \in Seat,
         seat.name = w.t.seats[i].name, NEW v, WithSeat(v, w, i, seat)
  PROVE  Seated(v)
<1>1. w.t.seats \in Seq(Seat) /\ i \in 1 .. Len(w.t.seats)
  BY SeatFacts DEF Seats
<1>2. v.t.seats = [w.t.seats EXCEPT ![i] = seat] /\ v.told = w.told
  BY DEF WithSeat
<1>3. Len(v.t.seats) = Len(w.t.seats)
  BY <1>1, <1>2
<1>4. \A j \in Seats(w.t) : v.t.seats[j].name = w.t.seats[j].name
  BY <1>1, <1>2 DEF Seats
<1> QED BY <1>2, <1>3, <1>4, SeatedKept

\* An answer to a player at the table leaves it there.
LEMMA TellsSeated ==
  ASSUME NEW w \in Work, Seated(w), NEW c \in Client, w.told[c] # "away",
         NEW answer \in Answers \ {"away"}
  PROVE  Seated(Tells(w, c, answer))
<1> DEFINE v == Tells(w, c, answer)
<1>1. v.t = w.t /\ v.told = [w.told EXCEPT ![c] = answer] /\ w.told \in Told
  BY TellsEffect, SeatFacts
<1> HIDE DEF v
<1>2. \A d \in Client : v.told[d] = "away" <=> w.told[d] = "away"
  BY <1>1 DEF Told
<1> QED BY <1>1, <1>2, SeatedKept DEF v

\* The hand that Stay() leaves to the player whose turn it was.
Holds(seat) == IF seat.hand.state = "Active" THEN [seat EXCEPT !.hand.state = "Held"] ELSE seat

\* It is not active any more, and the bet and the request are what they were.
LEMMA HoldsEffect ==
  ASSUME NEW seat \in Seat
  PROVE  /\ Holds(seat) \in Seat /\ Holds(seat).name = seat.name
         /\ Holds(seat).kept = seat.kept /\ Holds(seat).pending = seat.pending
         /\ Holds(seat).bet = seat.bet /\ Holds(seat).hand.state # "Active"
<1>1. PICK hand : hand = [seat.hand EXCEPT !.state = "Held"]
  OBVIOUS
<1>2. seat.hand \in Hands
  BY DEF Seat
<1>3. hand \in Hands /\ hand.state = "Held"
  BY <1>1, <1>2 DEF Hands
<1>4. PICK new : new = [seat EXCEPT !.hand = hand]
  OBVIOUS
<1>5. Holds(seat) = IF seat.hand.state = "Active" THEN new ELSE seat
  BY <1>1, <1>4, Zenon DEF Holds
<1>6. new \in Seat /\ new.name = seat.name /\ new.kept = seat.kept /\ new.pending = seat.pending
      /\ new.bet = seat.bet /\ new.hand = hand
  BY <1>3, <1>4 DEF Seat
<1> QED BY <1>3, <1>5, <1>6
-----------------------------------------------------------------------------
(* What the steps of the handlers do to a table                            *)

\* A step that leaves the seats as they are, and what clients were told.
KeepsSeats(v, w) ==
  /\ v \in Work /\ v.told = w.told /\ v.t.seats = w.t.seats
  /\ Seated(w) => Seated(v)

\* Setting m_betsMade does.
LEMMA BetsMadeSet ==
  ASSUME NEW w \in Work, NEW n \in Nat
  PROVE  LET v == [w EXCEPT !.t.betsMade = n] IN
         /\ KeepsSeats(v, w) /\ v.crashed = w.crashed /\ v.t.betsMade = n
         /\ v.t.betting = w.t.betting /\ v.t.current = w.t.current
<1>1. w.t \in Table
  BY SeatFacts
<1>2. PICK t : t = [w.t EXCEPT !.betsMade = n]
  OBVIOUS
<1>3. /\ t \in Table /\ t.seats = w.t.seats /\ t.betsMade = n
      /\ t.betting = w.t.betting /\ t.current = w.t.current
  BY <1>1, <1>2 DEF Table
<1>4. PICK v : v = [w EXCEPT !.t.betsMade = n]
  OBVIOUS
<1>5. v = [w EXCEPT !.t = t]
  BY <1>2, <1>4, Zenon
<1>6. v \in Work /\ v.t = t /\ v.told = w.told /\ v.crashed = w.crashed
  BY <1>3, <1>5, SetTable
<1>7. Seated(w) => Seated(v)
  BY <1>3, <1>6 DEF Seated, Seats
<1> QED BY <1>3, <1>4, <1>6, <1>7 DEF KeepsSeats

\* Setting m_currentPlayer does.
LEMMA CurrentSet ==
  ASSUME NEW w \in Work, NEW n \in Nat
  PROVE  LET v == [w EXCEPT !.t.current = n] IN
         /\ KeepsSeats(v, w) /\ v.crashed = w.crashed /\ v.t.current = n
         /\ v.t.betting = w.t.betting /\ v.t.betsMade = w.t.betsMade
<1>1. w.t \in Table
  BY SeatFacts
<1>2. PICK t : t = [w.t EXCEPT !.current = n]
  OBVIOUS
<1>3. /\ t \in Table /\ t.seats = w.t.seats /\ t.current = n
      /\ t.betting = w.t.betting /\ t.betsMade = w.t.betsMade
  BY <1>1, <1>2 DEF Table
<1>4. PICK v : v = [w EXCEPT !.t.current = n]
  OBVIOUS
<1>5. v = [w EXCEPT !.t = t]
  BY <1>2, <1>4, Zenon
<1>6. v \in Work /\ v.t = t /\ v.told = w.told /\ v.crashed = w.crashed
  BY <1>3, <1>5, SetTable
<1>7. Seated(w) => Seated(v)
  BY <1>3, <1>6 DEF Seated, Seats
<1> QED BY <1>3, <1>4, <1>6, <1>7 DEF KeepsSeats

\* A card for the dealer does.
LEMMA DealerChanged ==
  ASSUME NEW w \in Work, NEW hand \in Hands
  PROVE  LET v == [w EXCEPT !.t.dealer = hand] IN
         KeepsSeats(v, w) /\ v.crashed = w.crashed /\ v.t.current = w.t.current
<1>1. w.t \in Table
  BY SeatFacts
<1>2. PICK t : t = [w.t EXCEPT !.dealer = hand]
  OBVIOUS
<1>3. t \in Table /\ t.current = w.t.current /\ t.seats = w.t.seats
  BY <1>1, <1>2 DEF Table
<1>4. PICK v : v = [w EXCEPT !.t.dealer = hand]
  OBVIOUS
<1>5. v = [w EXCEPT !.t = t]
  BY <1>2, <1>4, Zenon
<1>6. v \in Work /\ v.t = t /\ v.told = w.told /\ v.crashed = w.crashed
  BY <1>3, <1>5, SetTable
<1>7. Seated(w) => Seated(v)
  BY <1>3, <1>6 DEF Seated, Seats
<1> QED BY <1>3, <1>4, <1>6, <1>7 DEF KeepsSeats

\* Cards off the shoe do, or the server is dead.
LEMMA TakesKeepsSeats ==
  ASSUME NEW w \in Work, NEW cards \in Nat
  PROVE  LET v == Takes(w, cards) IN
         /\ KeepsSeats(v, w) /\ v.crashed \in {w.crashed, "shoe"}
         /\ v.t.dealer = w.t.dealer /\ v.t.current = w.t.current
         /\ v.t.betting = w.t.betting /\ v.t.betsMade = w.t.betsMade
<1>1. PICK v : v = Takes(w, cards)
  OBVIOUS
<1>2. v \in Work /\ v.told = w.told /\ v.crashed \in {w.crashed, "shoe"}
  BY <1>1, TakesEffect
<1>3. v.t = w.t \/ v.t = [w.t EXCEPT !.shoe = v.t.shoe]
  <2>1. CASE w.t.shoe < cards
    BY <1>1, <2>1 DEF Takes, Dies, Work
  <2>2. CASE ~(w.t.shoe < cards)
    <3>1. v = [w EXCEPT !.t.shoe = w.t.shoe - cards]
      BY <1>1, <2>2 DEF Takes
    <3>2. v.t = [w.t EXCEPT !.shoe = w.t.shoe - cards]
      BY <3>1 DEF Work
    <3>3. w.t \in Table
      BY SeatFacts
    <3> QED BY <3>2, <3>3 DEF Table
  <2> QED BY <2>1, <2>2
<1>4. /\ v.t.seats = w.t.seats /\ v.t.dealer = w.t.dealer /\ v.t.current = w.t.current
      /\ v.t.betting = w.t.betting /\ v.t.betsMade = w.t.betsMade
  BY <1>3, SeatFacts DEF Table
<1>5. Seated(w) => Seated(v)
  BY <1>2, <1>4 DEF Seated, Seats
<1> QED BY <1>1, <1>2, <1>4, <1>5 DEF KeepsSeats

\* DealerDeal() up to the first PayUp() does, and bets are taken again.
LEMMA DrawsEffect ==
  ASSUME NEW w \in Work, NEW dealer \in DealerHands[w.t.dealer]
  PROVE  LET v == Draws(w, dealer) IN
         /\ KeepsSeats(v, w) /\ v.crashed \in {w.crashed, "shoe"}
         /\ v.t.betting /\ v.t.current = 0
<1>1. w.t.dealer \in Hands
  BY SeatFacts DEF Table
<1>2. dealer \in Hands /\ dealer.n >= w.t.dealer.n
  BY <1>1, DrawnHands
<1>3. PICK n \in Nat : n = dealer.n - w.t.dealer.n
  BY <1>1, <1>2 DEF Hands
<1>4. PICK u : u = Takes(w, n)
  OBVIOUS
<1>5. KeepsSeats(u, w) /\ u.crashed \in {w.crashed, "shoe"}
  BY <1>4, TakesKeepsSeats
<1>6. u \in Work /\ u.t \in Table /\ u.told = w.told /\ u.t.seats = w.t.seats
  BY <1>5, SeatFacts DEF KeepsSeats
<1>7. PICK t : t = [u.t EXCEPT !.dealer = dealer, !.betting = TRUE, !.current = 0]
  OBVIOUS
<1>8. t \in Table /\ t.seats = w.t.seats /\ t.betting /\ t.current = 0
  BY <1>2, <1>6, <1>7 DEF Table
<1>9. PICK v : v = Draws(w, dealer)
  OBVIOUS
<1>10. v = [u EXCEPT !.t.dealer = dealer, !.t.betting = TRUE, !.t.current = 0]
  BY <1>3, <1>4, <1>9 DEF Draws
<1>11. v = [u EXCEPT !.t = t]
  BY <1>6, <1>7, <1>10 DEF Work
<1>12. v \in Work /\ v.t = t /\ v.told = w.told /\ v.crashed = u.crashed
  BY <1>6, <1>8, <1>11, SetTable
<1>13. Seated(w) => Seated(v)
  BY <1>8, <1>12 DEF Seated, Seats
<1> QED BY <1>5, <1>8, <1>9, <1>12, <1>13 DEF KeepsSeats

\* A table with one seat replaced by another of the same name.
Reseated(v, w, i, seat) ==
  /\ v \in Work /\ Seated(v) /\ v.told = w.told /\ v.crashed = w.crashed
  /\ v.t.betting = w.t.betting /\ v.t.current = w.t.current
  /\ v.t.betsMade = w.t.betsMade /\ v.t.dealer = w.t.dealer
  /\ Len(v.t.seats) = Len(w.t.seats) /\ Seats(v.t) = Seats(w.t)
  /\ v.t.seats[i] = seat
  /\ \A j \in Seats(w.t) : j # i => v.t.seats[j] = w.t.seats[j]

\* Assigning to the fields of a player but its name gives that table.
LEMMA SeatReplaced ==
  ASSUME NEW w \in Work, Seated(w), NEW i \in Seats(w.t), NEW seat \in Seat,
         seat.name = w.t.seats[i].name
  PROVE  Reseated([w EXCEPT !.t.seats[i] = seat], w, i, seat)
<1>1. PICK v : v = [w EXCEPT !.t.seats[i] = seat]
  OBVIOUS
<1>2. WithSeat(v, w, i, seat)
  BY <1>1, SeatChanged
<1>3. Seated(v)
  BY <1>2, SeatChangedSeated
<1>4. w.t \in Table /\ w.t.seats \in Seq(Seat)
  BY SeatFacts
<1>5. /\ v \in Work /\ v.told = w.told /\ v.crashed = w.crashed
      /\ v.t = [w.t EXCEPT !.seats = v.t.seats]
      /\ v.t.seats = [w.t.seats EXCEPT ![i] = seat]
  BY <1>2 DEF WithSeat
<1>6. /\ v.t.betting = w.t.betting /\ v.t.current = w.t.current
      /\ v.t.betsMade = w.t.betsMade /\ v.t.dealer = w.t.dealer
  BY <1>4, <1>5 DEF Table
<1>7. /\ Len(v.t.seats) = Len(w.t.seats) /\ v.t.seats[i] = seat
      /\ \A j \in Seats(w.t) : j # i => v.t.seats[j] = w.t.seats[j]
  BY <1>4, <1>5 DEF Seats
<1>8. Seats(v.t) = Seats(w.t)
  BY <1>7 DEF Seats
<1>9. Reseated(v, w, i, seat)
  BY <1>3, <1>5, <1>6, <1>7, <1>8 DEF Reseated
<1> QED BY <1>1, <1>9

-----------------------------------------------------------------------------
(* What every handler keeps                                                *)

\* What is true of the table whoever comes and goes.
Base ==
  /\ table \in Table /\ told \in Told /\ crashed \in Crashes
  /\ Seated(Now)

\* A handler's result that keeps it.
Sound(w) == w \in Work /\ (w.crashed = "no" => Seated(w))

\* A handler with such a result keeps what is always true.
LEMMA BecomesBase ==
  ASSUME Base, NEW w, Sound(w), Becomes(w)
  PROVE  Base'
<1>1. w.t \in Table /\ w.told \in Told /\ w.crashed \in Crashes
  BY DEF Sound, Work
<1>2. CASE w.crashed = "no"
  <2>1. table' = w.t /\ told' = w.told /\ crashed' = "no" /\ Seated(w)
    BY <1>2 DEF Becomes, Sound
  <2>2. Seated(Now)'
    BY <2>1 DEF Seated, Now, Seats
  <2> QED BY <1>1, <1>2, <2>1, <2>2 DEF Base
<1>3. CASE w.crashed # "no"
  <2>1. table' = table /\ told' = told /\ crashed' = w.crashed
    BY <1>3 DEF Becomes
  <2> QED BY <1>1, <2>1 DEF Base, Seated, Now, Seats
<1> QED BY <1>2, <1>3

\* FindPlayer() finds the seat of every client at the table: it never runs off the end.
LEMMA FindPlayerSeat ==
  ASSUME Base, NEW c \in Client, told[c] # "away"
  PROVE  FindPlayer(c) \in Seats(table) /\ table.seats[FindPlayer(c)].name = c
<1>1. \E i \in Seats(table) : table.seats[i].name = c
  BY DEF Base, Seated, Now
<1> QED BY <1>1, Zenon DEF FindPlayer

\* A handler starts from a sound table.
LEMMA NowWork ==
  ASSUME Base, crashed = "no"
  PROVE  Now \in Work /\ Seated(Now) /\ Sound(Now)
BY DEF Base, Now, Work, Crashes, Sound

\* What AddPlayer() leaves: one more seat, the last, with neither bet nor request.
HasJoined(w, c) ==
  /\ w \in Work /\ Seated(w) /\ w.crashed = "no"
  /\ w.t = [table EXCEPT !.seats = w.t.seats]
  /\ w.t.seats = Append(table.seats, NewSeat(c))
  /\ w.told = [told EXCEPT ![c] = "PlaceBet"]

\* Join's table is that one.
LEMMA AddedEffect ==
  ASSUME Base, crashed = "no", NEW c \in Client, told[c] = "away"
  PROVE  HasJoined(Added(c), c)
<1>1. NewSeat(c) \in Seat /\ NewSeat(c).name = c
  <2>1. NoCards \in Hands
    BY DEF NoCards, Hands
  <2> QED BY <2>1, BlackJackAssumption DEF NewSeat, Seat
<1>2. Now \in Work /\ Now.t = table /\ Now.told = told /\ Now.crashed = "no"
  BY NowWork DEF Now
<1>3. table \in Table /\ table.seats \in Seq(Seat) /\ told \in Told
  BY <1>2, SeatFacts
<1>4. PICK s : s = Append(table.seats, NewSeat(c))
  OBVIOUS
<1>5. /\ s \in Seq(Seat) /\ Len(s) = Len(table.seats) + 1
      /\ \A i \in 1 .. Len(table.seats) : s[i] = table.seats[i]
      /\ s[Len(s)] = NewSeat(c)
  BY <1>1, <1>3, <1>4
<1>6. PICK t : t = [table EXCEPT !.seats = s]
  OBVIOUS
<1>7. t \in Table /\ t.seats = s
  BY <1>3, <1>5, <1>6, SetSeats
<1>8. PICK u : u = [Now EXCEPT !.t.seats = Append(@, NewSeat(c))]
  OBVIOUS
<1>9. u = [Now EXCEPT !.t = t]
  BY <1>2, <1>4, <1>6, <1>8
<1>10. u \in Work /\ u.t = t /\ u.told = told /\ u.crashed = "no"
  BY <1>2, <1>7, <1>9, SetTable
<1>11. "PlaceBet" \in Answers
  BY DEF Answers, Statuses
<1>12. PICK w : w = Tells(u, c, "PlaceBet")
  OBVIOUS
<1>13. w \in Work /\ w.t = t /\ w.crashed = "no" /\ w.told = [told EXCEPT ![c] = "PlaceBet"]
  BY <1>10, <1>11, <1>12, TellsEffect
<1>14. Seated(w)
  <2>1. Seated(Now) /\ \A i \in Seats(table) : table.seats[i].name # c
    BY NowWork DEF Seated, Now
  <2>2. Len(table.seats) \in Nat
    BY <1>3
  <2>3. \A i \in Seats(t) : i \in Seats(table) \/ i = Len(s)
    BY <1>5, <1>7, <2>2 DEF Seats
  <2>4. \A i \in Seats(table) : s[i] = table.seats[i] /\ i # Len(s) /\ i \in Seats(t)
    BY <1>5, <1>7, <2>2 DEF Seats
  <2>5. s[Len(s)].name = c /\ Len(s) \in Seats(t)
    BY <1>1, <1>5, <1>7, <2>2 DEF Seats
  <2>6. ASSUME NEW i \in Seats(t), NEW j \in Seats(t), s[i].name = s[j].name PROVE i = j
    <3>1. \A k, l \in Seats(table) : table.seats[k].name = table.seats[l].name => k = l
      BY <2>1 DEF Seated, Now
    <3> QED BY <3>1, <2>1, <2>3, <2>4, <2>5, <2>6
  <2>7. ASSUME NEW d \in Client PROVE w.told[d] = "away" <=> \A i \in Seats(t) : s[i].name # d
    <3>1. told[d] = "away" <=> \A i \in Seats(table) : table.seats[i].name # d
      BY <2>1 DEF Seated, Now
    <3>2. w.told[d] = IF d = c THEN "PlaceBet" ELSE told[d]
      BY <1>3, <1>13 DEF Told
    <3> QED BY <3>1, <3>2, <2>3, <2>4, <2>5
  <2> QED BY <2>6, <2>7, <1>7, <1>13 DEF Seated
<1>15. HasJoined(w, c)
  BY <1>4, <1>6, <1>7, <1>13, <1>14 DEF HasJoined
<1>16. w = Added(c)
  BY <1>8, <1>12 DEF Added
<1> QED BY <1>15, <1>16

\* What RemovePlayer() leaves: seats that were there before, and not the one of c.
HasLeft(w, c) ==
  /\ w \in Work /\ Seated(w) /\ w.crashed = "no"
  /\ w.t = [table EXCEPT !.seats = w.t.seats]
  /\ \A i \in Seats(w.t) : \E j \in Seats(table) :
       w.t.seats[i] = table.seats[j] /\ table.seats[j].name # c
  /\ w.told = [told EXCEPT ![c] = "away"]

\* Leave's table is that one: removing from the middle of m_players moves the seats
\* behind it up, and nobody loses a seat or gets another's.
LEMMA RemovedEffect ==
  ASSUME Base, crashed = "no", NEW c \in Client, told[c] # "away"
  PROVE  HasLeft(Removed(c), c)
<1> DEFINE gone == FindPlayer(c)
<1>1. gone \in Seats(table) /\ table.seats[gone].name = c
  BY FindPlayerSeat
<1> HIDE DEF gone
<1>2. Now \in Work /\ Now.t = table /\ Now.told = told /\ Now.crashed = "no"
  BY NowWork DEF Now
<1>3. table \in Table /\ table.seats \in Seq(Seat) /\ told \in Told /\ Len(table.seats) \in Nat
  BY <1>2, SeatFacts
<1>4. PICK s : s = SubSeq(table.seats, 1, gone - 1) \o SubSeq(table.seats, gone + 1, Len(table.seats))
  OBVIOUS
<1>5. gone \in 1 .. Len(table.seats)
  BY <1>1 DEF Seats
<1>6. PICK a : a = SubSeq(table.seats, 1, gone - 1)
  OBVIOUS
<1>7. a \in Seq(Seat) /\ Len(a) = gone - 1 /\ \A i \in 1 .. gone - 1 : a[i] = table.seats[i]
  BY <1>3, <1>5, <1>6
<1>8. PICK b : b = SubSeq(table.seats, gone + 1, Len(table.seats))
  OBVIOUS
<1>9. /\ b \in Seq(Seat) /\ Len(b) = Len(table.seats) - gone
      /\ \A i \in 1 .. Len(table.seats) - gone : b[i] = table.seats[gone + i]
  BY <1>3, <1>5, <1>8
<1>10. s = a \o b /\ s \in Seq(Seat) /\ Len(s) = Len(table.seats) - 1
  <2>1. s = a \o b
    BY <1>4, <1>6, <1>8
  <2>2. a \o b \in Seq(Seat) /\ Len(a \o b) = Len(a) + Len(b)
    BY <1>7, <1>9, ConcatProperties
  <2>3. Len(a) + Len(b) = Len(table.seats) - 1
    BY <1>3, <1>5, <1>7, <1>9
  <2> QED BY <2>1, <2>2, <2>3
<1>11. ASSUME NEW i \in 1 .. Len(s) PROVE s[i] = table.seats[IF i < gone THEN i ELSE i + 1]
  <2>1. s[i] = IF i <= Len(a) THEN a[i] ELSE b[i - Len(a)]
    <3>1. i \in 1 .. Len(a) + Len(b)
      BY <1>7, <1>9, <1>10
    <3> QED BY <3>1, <1>7, <1>9, <1>10, ConcatProperties
  <2>2. CASE i < gone
    BY <2>1, <2>2, <1>5, <1>7, <1>3
  <2>3. CASE ~(i < gone)
    <3>1. i - Len(a) \in 1 .. Len(table.seats) - gone /\ ~(i <= Len(a)) /\ gone + (i - Len(a)) = i + 1
      BY <2>3, <1>3, <1>5, <1>7, <1>10
    <3> QED BY <2>1, <2>3, <3>1, <1>9
  <2> QED BY <2>2, <2>3
<1>12. PICK t : t = [table EXCEPT !.seats = s]
  OBVIOUS
<1>13. t \in Table /\ t.seats = s
  BY <1>3, <1>10, <1>12, SetSeats
<1>14. PICK u : u = [Now EXCEPT !.t.seats =
                        SubSeq(@, 1, gone - 1) \o SubSeq(@, gone + 1, Len(@))]
  OBVIOUS
<1>15. u = [Now EXCEPT !.t = t]
  BY <1>2, <1>4, <1>12, <1>14
<1>16. u \in Work /\ u.t = t /\ u.told = told /\ u.crashed = "no"
  BY <1>2, <1>13, <1>15, SetTable
<1>17. PICK w : w = Tells(u, c, "away")
  OBVIOUS
<1>18. w \in Work /\ w.t = t /\ w.crashed = "no" /\ w.told = [told EXCEPT ![c] = "away"]
  BY <1>16, <1>17, TellsEffect DEF Answers
<1>19. Seated(Now)
  BY NowWork
<1>20. ASSUME NEW i \in Seats(t)
       PROVE  \E j \in Seats(table) : /\ j = IF i < gone THEN i ELSE i + 1
                                      /\ s[i] = table.seats[j] /\ table.seats[j].name # c
  <2>1. i \in 1 .. Len(s)
    BY <1>13 DEF Seats
  <2>2. PICK j : j = IF i < gone THEN i ELSE i + 1
    OBVIOUS
  <2>3. j \in Seats(table) /\ j # gone
    BY <2>1, <2>2, <1>3, <1>5, <1>10 DEF Seats
  <2>4. \A k, l \in Seats(table) : table.seats[k].name = table.seats[l].name => k = l
    BY <1>19 DEF Seated, Now
  <2>5. s[i] = table.seats[j]
    BY <1>11, <2>1, <2>2
  <2> QED BY <2>2, <2>3, <2>4, <2>5, <1>1
<1>21. ASSUME NEW j \in Seats(table), j # gone
       PROVE  \E i \in Seats(t) : s[i] = table.seats[j]
  <2>1. PICK i : i = IF j < gone THEN j ELSE j - 1
    OBVIOUS
  <2>2. i \in 1 .. Len(s) /\ j = IF i < gone THEN i ELSE i + 1
    BY <2>1, <1>3, <1>5, <1>10, <1>21 DEF Seats
  <2> QED BY <2>2, <1>11, <1>13 DEF Seats
<1>22. Seated(w)
  <2>1. \A k, l \in Seats(table) : table.seats[k].name = table.seats[l].name => k = l
    BY <1>19 DEF Seated, Now
  <2>2. ASSUME NEW i \in Seats(t), NEW j \in Seats(t), s[i].name = s[j].name PROVE i = j
    <3>1. i \in Nat /\ j \in Nat
      BY DEF Seats
    <3>2. (IF i < gone THEN i ELSE i + 1) = (IF j < gone THEN j ELSE j + 1)
      BY <1>20, <2>1, <2>2
    <3> QED BY <3>1, <3>2, <1>5
  <2>3. ASSUME NEW d \in Client PROVE w.told[d] = "away" <=> \A i \in Seats(t) : s[i].name # d
    <3>1. told[d] = "away" <=> \A i \in Seats(table) : table.seats[i].name # d
      BY <1>19 DEF Seated, Now
    <3>2. w.told[d] = IF d = c THEN "away" ELSE told[d]
      BY <1>3, <1>18 DEF Told
    <3> QED BY <3>1, <3>2, <1>1, <1>20, <1>21
  <2> QED BY <2>2, <2>3, <1>13, <1>18 DEF Seated
<1>23. \A i \in Seats(w.t) : \E j \in Seats(table) :
              w.t.seats[i] = table.seats[j] /\ table.seats[j].name # c
  BY <1>13, <1>18, <1>20
<1>24. w.t = [table EXCEPT !.seats = w.t.seats]
  BY <1>12, <1>13, <1>18
<1>25. HasLeft(w, c)
  BY <1>18, <1>22, <1>23, <1>24 DEF HasLeft
<1>26. w = Removed(c)
  BY <1>14, <1>17 DEF Removed, gone
<1> QED BY <1>25, <1>26

\* What Bet() has done before it counts.
HasStaked(w, c) ==
  LET i == FindPlayer(c)
      old == table.seats[i]
      new == w.t.seats[i]
  IN  /\ w \in Work /\ Seated(w) /\ w.crashed = "no"
      /\ w.t.betting = table.betting /\ w.t.current = table.current
      /\ w.t.betsMade = table.betsMade
      /\ Len(w.t.seats) = Len(table.seats) /\ Seats(w.t) = Seats(table)
      /\ new.name = old.name /\ new.bet = old.bet + Amount
      /\ new.insurance = old.insurance /\ new.kept = old.kept /\ new.pending = old.pending
      /\ \A j \in Seats(table) : j # i => w.t.seats[j] = table.seats[j]
      /\ w.told = [told EXCEPT ![c] = "nothing"]

\* Staked is that: it adds to what lies on the table.
LEMMA StakedEffect ==
  ASSUME Base, crashed = "no", NEW c \in Client, told[c] # "away"
  PROVE  HasStaked(Staked(c), c)
<1> DEFINE i == FindPlayer(c)
<1>1. i \in Seats(table) /\ table.seats[i].name = c
  BY FindPlayerSeat
<1> HIDE DEF i
<1>2. Now \in Work /\ Now.t = table /\ Now.told = told /\ Now.crashed = "no" /\ Seated(Now)
  BY NowWork DEF Now
<1>3. table.seats[i] \in Seat
  BY <1>1, <1>2, SeatFacts
<1>4. PICK balance : balance = table.seats[i].balance - Amount
  OBVIOUS
<1>5. PICK bet : bet = table.seats[i].bet + Amount
  OBVIOUS
<1>6. PICK seat : seat = [table.seats[i] EXCEPT !.balance = balance, !.bet = bet]
  OBVIOUS
<1>7. /\ seat \in Seat /\ seat.name = c /\ seat.bet = table.seats[i].bet + Amount
      /\ seat.insurance = table.seats[i].insurance
      /\ seat.kept = table.seats[i].kept /\ seat.pending = table.seats[i].pending
  <2>1. table.seats[i].balance \in Int /\ table.seats[i].bet \in Nat
    BY <1>3 DEF Seat
  <2>2. balance \in Int /\ bet \in Nat
    BY <2>1, <1>4, <1>5 DEF Amount
  <2> QED BY <1>1, <1>3, <1>5, <1>6, <2>2 DEF Seat
<1>8. PICK v : v = [Now EXCEPT !.t.seats[i] = seat]
  OBVIOUS
<1>9. Reseated(v, Now, i, seat)
  BY <1>1, <1>2, <1>7, <1>8, SeatReplaced
<1>10. PICK w : w = Tells(v, c, "nothing")
  OBVIOUS
<1>11. w \in Work /\ w.t = v.t /\ w.crashed = "no" /\ w.told = [told EXCEPT ![c] = "nothing"]
  BY <1>2, <1>9, <1>10, TellsEffect DEF Answers, Reseated
<1>12. Seated(w)
  BY <1>2, <1>9, <1>10, TellsSeated DEF Answers, Reseated
<1>13. HasStaked(w, c)
  BY <1>1, <1>2, <1>7, <1>9, <1>11, <1>12 DEF HasStaked, Reseated, i
<1>14. w = Staked(c)
  <2>1. v = [Now EXCEPT !.t.seats[i].balance = @ - Amount, !.t.seats[i].bet = @ + Amount]
    BY <1>2, <1>4, <1>5, <1>6, <1>8
  <2> QED BY <2>1, <1>10 DEF Staked, i
<1> QED BY <1>13, <1>14

\* What Wait() leaves: a request where there was no news, else the news as the answer.
HasWaited(w, c) ==
  LET i == FindPlayer(c)
      old == table.seats[i]
      new == w.t.seats[i]
  IN  /\ w \in Work /\ Seated(w) /\ w.crashed = "no"
      /\ w.t.betting = table.betting /\ w.t.current = table.current
      /\ w.t.betsMade = table.betsMade
      /\ Len(w.t.seats) = Len(table.seats) /\ Seats(w.t) = Seats(table)
      /\ new.name = old.name /\ new.hand = old.hand
      /\ new.bet = old.bet /\ new.insurance = old.insurance
      /\ \A j \in Seats(table) : j # i => w.t.seats[j] = table.seats[j]
      /\ IF old.pending = "None"
         THEN /\ new.kept = "wait" /\ new.pending = "None"
              /\ w.told = [told EXCEPT ![c] = "nothing"]
         ELSE /\ new.kept = old.kept /\ new.pending = "None"
              /\ w.told = [told EXCEPT ![c] = old.pending]

\* Waited is that, and touches no hand and no bet.
LEMMA WaitedEffect ==
  ASSUME Base, crashed = "no", NEW c \in Client, told[c] # "away"
  PROVE  HasWaited(Waited(c), c)
<1> DEFINE i == FindPlayer(c)
<1>1. i \in Seats(table) /\ table.seats[i].name = c
  BY FindPlayerSeat
<1> HIDE DEF i
<1>2. Now \in Work /\ Now.t = table /\ Now.told = told /\ Now.crashed = "no" /\ Seated(Now)
  BY NowWork DEF Now
<1>3. table.seats[i] \in Seat
  BY <1>1, <1>2, SeatFacts
<1>4. PICK seat : seat = IF table.seats[i].pending = "None"
                         THEN [table.seats[i] EXCEPT !.kept = "wait"]
                         ELSE [table.seats[i] EXCEPT !.pending = "None"]
  OBVIOUS
<1>5. /\ seat \in Seat /\ seat.name = c /\ seat.hand = table.seats[i].hand
      /\ seat.bet = table.seats[i].bet /\ seat.insurance = table.seats[i].insurance
      /\ seat.kept = IF table.seats[i].pending = "None" THEN "wait" ELSE table.seats[i].kept
      /\ seat.pending = "None"
  BY <1>1, <1>3, <1>4 DEF Seat
<1>6. PICK v : v = [Now EXCEPT !.t.seats[i] = seat]
  OBVIOUS
<1>7. Reseated(v, Now, i, seat)
  BY <1>1, <1>2, <1>5, <1>6, SeatReplaced
<1>8. PICK answer : answer = IF table.seats[i].pending = "None" THEN "nothing"
                             ELSE table.seats[i].pending
  OBVIOUS
<1>9. answer \in Answers \ {"away"}
  BY <1>3, <1>8 DEF Seat, Answers, Statuses
<1>10. PICK w : w = Tells(v, c, answer)
  OBVIOUS
<1>11. w \in Work /\ w.t = v.t /\ w.crashed = "no" /\ w.told = [told EXCEPT ![c] = answer]
  BY <1>2, <1>7, <1>9, <1>10, TellsEffect DEF Reseated
<1>12. Seated(w)
  BY <1>2, <1>7, <1>9, <1>10, TellsSeated DEF Reseated
<1>13. HasWaited(w, c)
  <2>1. CASE table.seats[i].pending = "None"
    BY <2>1, <1>1, <1>2, <1>5, <1>7, <1>8, <1>11, <1>12 DEF HasWaited, Reseated, i
  <2>2. CASE table.seats[i].pending # "None"
    BY <2>2, <1>1, <1>2, <1>5, <1>7, <1>8, <1>11, <1>12 DEF HasWaited, Reseated, i
  <2> QED BY <2>1, <2>2
<1>14. w = Waited(c)
  <2>1. CASE table.seats[i].pending = "None"
    <3>1. v = [Now EXCEPT !.t.seats[i].kept = "wait"]
      BY <2>1, <1>2, <1>4, <1>6, Zenon
    <3> QED BY <3>1, <2>1, <1>8, <1>10 DEF Waited, i
  <2>2. CASE table.seats[i].pending # "None"
    <3>1. v = [Now EXCEPT !.t.seats[i].pending = "None"]
      BY <2>2, <1>2, <1>4, <1>6, Zenon
    <3> QED BY <3>1, <2>2, <1>8, <1>10 DEF Waited, i
  <2> QED BY <2>1, <2>2
<1> QED BY <1>13, <1>14

\* What Insure() leaves: the bet, the hand and the request are what they were.
HasInsured(w, c) ==
  LET i == FindPlayer(c)
      old == table.seats[i]
      new == w.t.seats[i]
  IN  /\ w \in Work /\ Seated(w) /\ w.crashed = "no" /\ w.told = told
      /\ w.t.betting = table.betting /\ w.t.current = table.current
      /\ w.t.betsMade = table.betsMade
      /\ Len(w.t.seats) = Len(table.seats) /\ Seats(w.t) = Seats(table)
      /\ new.name = old.name /\ new.hand = old.hand /\ new.bet = old.bet
      /\ new.kept = old.kept /\ new.pending = old.pending
      /\ \A j \in Seats(table) : j # i => w.t.seats[j] = table.seats[j]

\* Insure is that.
LEMMA InsureEffect ==
  ASSUME Base, NEW c \in Client, Insure(c), crashed = "no"
  PROVE  \E w : HasInsured(w, c) /\ Serves(w)
<1> DEFINE i == FindPlayer(c)
<1>1. i \in Seats(table)
  BY FindPlayerSeat DEF Insure
<1>2. Now \in Work /\ Now.t = table /\ Now.told = told /\ Now.crashed = "no" /\ Seated(Now)
  BY NowWork DEF Now
<1>3. table.seats[i] \in Seat
  BY <1>1, <1>2, SeatFacts
<1>4. PICK seat : seat = [table.seats[i] EXCEPT !.balance = @ - Premium, !.insurance = Premium]
  OBVIOUS
<1>5. PICK w : w = [Now EXCEPT !.t.seats[i] = seat]
  OBVIOUS
<1>6. Serves(w)
  BY <1>4, <1>5 DEF Insure
<1> HIDE DEF i
<1>7. /\ seat \in Seat /\ seat.name = table.seats[i].name /\ seat.hand = table.seats[i].hand
      /\ seat.bet = table.seats[i].bet /\ seat.kept = table.seats[i].kept
      /\ seat.pending = table.seats[i].pending
  <2>1. PICK balance : balance = table.seats[i].balance - Premium
    OBVIOUS
  <2>2. balance \in Int
    BY <1>3, <2>1 DEF Seat, Premium
  <2>3. seat = [table.seats[i] EXCEPT !.balance = balance, !.insurance = Premium]
    BY <1>4, <2>1, Zenon
  <2> QED BY <1>3, <2>2, <2>3 DEF Seat, Premium
<1>8. Reseated(w, Now, i, seat)
  BY <1>1, <1>2, <1>5, <1>7, SeatReplaced
<1>9. HasInsured(w, c)
  BY <1>2, <1>7, <1>8 DEF HasInsured, Reseated, i
<1> QED BY <1>6, <1>9

\* Stay() holds the hand of the current player and answers the request.
LEMMA StayEffect ==
  ASSUME NEW w \in Work, Seated(w), NEW c \in Client, w.t.current \in Seats(w.t)
  PROVE  LET i == w.t.current IN
         \E held : /\ Reseated(held, w, i, Holds(w.t.seats[i]))
                   /\ Stay(w, c) = Tells(held, c, "Refresh")
<1> DEFINE i == w.t.current
<1>1. w.t.seats[i] \in Seat /\ i # 0
  BY SeatFacts
<1>2. PICK seat : seat = Holds(w.t.seats[i])
  OBVIOUS
<1>3. seat \in Seat /\ seat.name = w.t.seats[i].name
  BY <1>1, <1>2, HoldsEffect
<1>4. PICK held : held = IF w.t.seats[i].hand.state = "Active"
                         THEN [w EXCEPT !.t.seats[i].hand.state = "Held"] ELSE w
  OBVIOUS
<1>5. Reseated(held, w, i, seat)
  <2>1. CASE w.t.seats[i].hand.state = "Active"
    <3>1. held = [w EXCEPT !.t.seats[i] = seat]
      BY <2>1, <1>2, <1>4, Zenon DEF Holds
    <3> QED BY <3>1, <1>3, SeatReplaced
  <2>2. CASE w.t.seats[i].hand.state # "Active"
    BY <2>2, <1>2, <1>4 DEF Holds, Reseated
  <2> QED BY <2>1, <2>2
<1>6. Stay(w, c) = Tells(held, c, "Refresh")
  BY <1>1, <1>4, Zenon DEF Stay
<1> QED BY <1>2, <1>5, <1>6

\* Stay() seats nobody and unseats nobody, whoever has the turn.
LEMMA StaySound ==
  ASSUME NEW w \in Work, Seated(w), NEW c \in Client, w.told[c] # "away"
  PROVE  Sound(Stay(w, c))
<1> DEFINE i == w.t.current
<1>1. CASE i = 0
  <2>1. Stay(w, c) = Tells(w, c, "nothing")
    BY <1>1 DEF Stay
  <2>2. Tells(w, c, "nothing") \in Work /\ Seated(Tells(w, c, "nothing"))
    BY TellsEffect, TellsSeated DEF Answers
  <2> QED BY <2>1, <2>2 DEF Sound
<1>2. CASE i # 0 /\ i \notin Seats(w.t)
  <2>1. Stay(w, c) = Dies(w, "players")
    BY <1>2 DEF Stay
  <2>2. PICK v : v = Dies(w, "players")
    OBVIOUS
  <2>3. v \in Work /\ v.crashed = "players"
    BY <2>2, DiesEffect DEF Crashes
  <2> QED BY <2>1, <2>2, <2>3 DEF Sound
<1>3. CASE i \in Seats(w.t)
  <2>1. PICK held : /\ Reseated(held, w, i, Holds(w.t.seats[i]))
                    /\ Stay(w, c) = Tells(held, c, "Refresh")
    BY <1>3, StayEffect
  <2>2. held \in Work /\ Seated(held) /\ held.told = w.told
    BY <2>1 DEF Reseated
  <2>3. Tells(held, c, "Refresh") \in Work /\ Seated(Tells(held, c, "Refresh"))
    BY <2>2, TellsEffect, TellsSeated DEF Answers, Statuses
  <2> QED BY <2>1, <2>3 DEF Sound
<1> QED BY <1>1, <1>2, <1>3

\* What the loop of Deal() and Hit() does for those who have not the turn.
LEMMA TellOthersEffect ==
  ASSUME NEW w \in Work, w.crashed = "no"
  PROVE  Notified(TellOthers(w), w, Seats(w.t) \ {w.t.current}, "Refresh")
<1>1. PICK S : S = Seats(w.t) \ {w.t.current}
  OBVIOUS
<1>2. TellOthers(w) = Notify(w, S, "Refresh")
  BY <1>1 DEF TellOthers
<1>3. S \in SUBSET Seats(w.t) /\ "Refresh" \in Statuses
  BY <1>1 DEF Statuses
<1> QED BY <1>1, <1>2, <1>3, NotifyEffect

\* It seats nobody and unseats nobody.
LEMMA TellOthersSound ==
  ASSUME NEW w, Sound(w)
  PROVE  Sound(TellOthers(w))
<1>1. CASE w.crashed # "no"
  BY <1>1 DEF TellOthers
<1>2. CASE w.crashed = "no"
  <2>1. PICK S : S = Seats(w.t) \ {w.t.current}
    OBVIOUS
  <2>2. TellOthers(w) = Notify(w, S, "Refresh")
    BY <2>1, <1>2 DEF TellOthers
  <2>3. S \in SUBSET Seats(w.t) /\ "Refresh" \in Statuses /\ w \in Work /\ Seated(w)
    BY <2>1, <1>2 DEF Statuses, Sound
  <2>4. PICK v : v = Notify(w, S, "Refresh")
    OBVIOUS
  <2>5. Notified(v, w, S, "Refresh") /\ Seated(v)
    BY <2>3, <2>4, NotifyEffect, NotifySeated
  <2> QED BY <2>2, <2>4, <2>5 DEF Notified, Sound
<1> QED BY <1>1, <1>2

\* Two cards make a hand that can be played, or a blackjack.
LEMMA TwoCardsType ==
  ASSUME NEW values \in CardValues \X CardValues
  PROVE  /\ TwoCards(values) \in Hands /\ values[1] \in CardValues
         /\ TwoCards(values).state \in {"BlackJack", "Active"}
<1>1. values[1] \in CardValues /\ values[2] \in CardValues
  OBVIOUS
<1>2. values[1] \in 1 .. 10 /\ values[2] \in 1 .. 10
  BY <1>1, BlackJackAssumption
<1>3. NoCards \in Hands /\ NoCards.low = 0
  BY DEF NoCards, Hands
<1>4. PICK hand : hand = AddCard(NoCards, values[1])
  OBVIOUS
<1>5. hand \in Hands /\ hand.low = values[1]
  BY <1>2, <1>3, <1>4, AddCardEffect
<1>6. AddCard(hand, values[2]) \in Hands
  BY <1>2, <1>5, AddCardEffect
<1>7. AddCard(hand, values[2]).state \in {"BlackJack", "Active"}
  <2>1. ~(hand.low + values[2] > 21)
    BY <1>2, <1>5
  <2> QED BY <2>1 DEF AddCard
<1> QED BY <1>1, <1>4, <1>6, <1>7 DEF TwoCards

\* A table with the cards dealt and nobody told yet: bets and requests are what they were.
Dealt(d, w) ==
  /\ d \in Work /\ Seated(d) /\ d.told = w.told /\ d.crashed \in {w.crashed, "shoe"}
  /\ ~d.t.betting /\ d.t.current = 0
  /\ Len(d.t.seats) = Len(w.t.seats)
  /\ \A i \in Seats(w.t) :
       LET old == w.t.seats[i]  new == d.t.seats[i]
       IN  /\ new.name = old.name /\ new.bet = old.bet
           /\ new.kept = old.kept /\ new.pending = old.pending
           /\ old.bet > 0 => new.hand.state \in {"BlackJack", "Active"}

\* Deal() gives that table, or dies of an empty shoe.
LEMMA DealEffect ==
  ASSUME NEW w \in Work, Seated(w),
         NEW cards \in [0 .. Len(w.t.seats) -> CardValues \X CardValues]
  PROVE  Dealt(Deal(w, cards), w)
<1> DEFINE seats == w.t.seats
           with == {i \in Seats(w.t) : seats[i].bet > 0}
           n == 2 * (Cardinality(with) + 1)
           taken == Takes(w, n)
           new == [i \in DOMAIN seats |->
                     [seats[i] EXCEPT
                        !.hand = IF i \in with THEN TwoCards(cards[i]) ELSE NoCards,
                        !.insurance = 0]]
<1>1. n \in Nat
  <2>1. IsFiniteSet(Seats(w.t))
    BY SeatFacts, FS_Interval DEF Seats
  <2>2. IsFiniteSet(with)
    BY <2>1, FS_Subset
  <2>3. Cardinality(with) \in Nat
    BY <2>2, FS_CardinalityType
  <2> HIDE DEF with
  <2> QED BY <2>3
<1>2. KeepsSeats(taken, w) /\ taken.crashed \in {w.crashed, "shoe"}
  <2> HIDE DEF n
  <2> QED BY <1>1, TakesKeepsSeats
<1>3. taken \in Work /\ taken.told = w.told /\ taken.t \in Table
  <2> HIDE DEF taken
  <2> QED BY <1>2, SeatFacts DEF KeepsSeats
<1>4. ASSUME NEW i \in Seats(w.t)
      PROVE  /\ new[i] \in Seat
             /\ new[i].name = seats[i].name /\ new[i].bet = seats[i].bet
             /\ new[i].kept = seats[i].kept /\ new[i].pending = seats[i].pending
             /\ seats[i].bet > 0 => new[i].hand.state \in {"BlackJack", "Active"}
  <2>1. seats[i] \in Seat /\ i \in 0 .. Len(seats) /\ i \in DOMAIN seats
    BY SeatFacts
  <2>2. PICK hand : hand = IF i \in with THEN TwoCards(cards[i]) ELSE NoCards
    OBVIOUS
  <2>3. hand \in Hands /\ (seats[i].bet > 0 => hand.state \in {"BlackJack", "Active"})
    <3>1. NoCards \in Hands
      BY DEF NoCards, Hands
    <3>2. cards[i] \in CardValues \X CardValues
      BY <2>1
    <3>3. i \in with <=> seats[i].bet > 0
      OBVIOUS
    <3> HIDE DEF with
    <3> QED BY <2>2, <3>1, <3>2, <3>3, TwoCardsType
  <2>4. PICK seat : seat = [seats[i] EXCEPT !.hand = hand, !.insurance = 0]
    OBVIOUS
  <2>5. new[i] = seat
    BY <2>1, <2>2, <2>4
  <2>6. /\ seat \in Seat /\ seat.name = seats[i].name /\ seat.bet = seats[i].bet
        /\ seat.kept = seats[i].kept /\ seat.pending = seats[i].pending /\ seat.hand = hand
    BY <2>1, <2>3, <2>4 DEF Seat
  <2> HIDE DEF new
  <2> QED BY <2>3, <2>5, <2>6
<1>5. new \in Seq(Seat) /\ Len(new) = Len(seats)
  <2>1. DOMAIN new = 1 .. Len(seats) /\ Len(seats) \in Nat
    BY SeatFacts DEF Seats
  <2>2. \A i \in 1 .. Len(seats) : new[i] \in Seat
    BY <1>4 DEF Seats
  <2>3. new = [i \in 1 .. Len(seats) |-> new[i]]
    BY <2>1
  <2> HIDE DEF new
  <2>4. new \in [1 .. Len(seats) -> Seat]
    BY <2>2, <2>3
  <2> QED BY <2>1, <2>4
<1>6. TwoCards(cards[0]) \in Hands /\ cards[0][1] \in CardValues
  <2>1. cards[0] \in CardValues \X CardValues
    BY SeatFacts
  <2> QED BY <2>1, TwoCardsType
<1>7. Deal(w, cards) = [taken EXCEPT !.t.dealer = TwoCards(cards[0]), !.t.up = cards[0][1],
                          !.t.betting = FALSE, !.t.current = 0, !.t.seats = new]
  BY Zenon DEF Deal
<1> HIDE DEF new, taken
<1>8. PICK t : t = [taken.t EXCEPT !.dealer = TwoCards(cards[0]), !.up = cards[0][1],
                      !.betting = FALSE, !.current = 0, !.seats = new]
  OBVIOUS
<1>9. t \in Table /\ t.seats = new /\ ~t.betting /\ t.current = 0
  BY <1>3, <1>5, <1>6, <1>8 DEF Table
<1>10. PICK d : d = Deal(w, cards)
  OBVIOUS
<1>11. d = [taken EXCEPT !.t = t]
  BY <1>3, <1>7, <1>8, <1>10 DEF Work
<1>12. d \in Work /\ d.t = t /\ d.told = w.told /\ d.crashed = taken.crashed
  BY <1>3, <1>9, <1>11, SetTable
<1>13. Len(d.t.seats) = Len(w.t.seats)
  BY <1>5, <1>9, <1>12
<1>14. Seated(d)
  <2>1. \A i \in Seats(w.t) : d.t.seats[i].name = w.t.seats[i].name
    BY <1>4, <1>9, <1>12
  <2>2. \A c \in Client : d.told[c] = "away" <=> w.told[c] = "away"
    BY <1>12
  <2> QED BY <2>1, <2>2, <1>13, SeatedKept
<1>15. Dealt(d, w)
  BY <1>2, <1>4, <1>9, <1>12, <1>13, <1>14 DEF Dealt
<1> QED BY <1>10, <1>15

\* The table with m_currentPlayer set to i, and the player i asked.
Asked(v, w, i) ==
  \E u : /\ KeepsSeats(u, w) /\ u.crashed = w.crashed /\ u.t.current = i
         /\ u.t.betting = w.t.betting /\ AskedNext(v, u, i)

\* FirstPlayer asks one that can play, or leaves m_currentPlayer at the last player.
LEMMA FirstPlayerEffect ==
  ASSUME NEW w \in Work, Seated(w)
  PROVE  LET v == FirstPlayer(w) IN
         /\ Sound(v)
         /\ \/ /\ \A i \in Seats(w.t) : ~InPlay(w.t.seats[i])
               /\ KeepsSeats(v, w) /\ v.crashed = w.crashed /\ v.t.current = Len(w.t.seats)
               /\ v.t.betting = w.t.betting
            \/ \E i \in Seats(w.t) : InPlay(w.t.seats[i]) /\ Asked(v, w, i)
<1>1. PICK active : active = {i \in Seats(w.t) : InPlay(w.t.seats[i])}
  OBVIOUS
<1>2. PICK v : v = FirstPlayer(w)
  OBVIOUS
<1>3. CASE active = {}
  <2>1. v = [w EXCEPT !.t.current = Len(w.t.seats)]
    BY <1>1, <1>2, <1>3 DEF FirstPlayer
  <2>2. KeepsSeats(v, w) /\ v.crashed = w.crashed /\ v.t.current = Len(w.t.seats)
        /\ v.t.betting = w.t.betting
    BY <2>1, SeatFacts, CurrentSet
  <2>3. Sound(v)
    BY <2>2 DEF KeepsSeats, Sound
  <2> QED BY <2>2, <2>3, <1>1, <1>2, <1>3
<1>4. CASE active # {}
  <2>1. PICK i : i = Min(active)
    OBVIOUS
  <2>2. i \in active
    <3>1. active \in SUBSET Nat
      BY <1>1 DEF Seats
    <3> QED BY <3>1, <2>1, <1>4, MinIn
  <2>3. i \in Seats(w.t) /\ InPlay(w.t.seats[i]) /\ i \in Nat
    BY <2>2, <1>1 DEF Seats
  <2>4. PICK u : u = [w EXCEPT !.t.current = i]
    OBVIOUS
  <2>5. KeepsSeats(u, w) /\ u.crashed = w.crashed /\ u.t.current = i /\ u.t.betting = w.t.betting
    BY <2>3, <2>4, CurrentSet
  <2>6. v = YourTurn(u, i)
    BY <2>1, <2>4, <1>1, <1>2, <1>4 DEF FirstPlayer
  <2>7. u \in Work /\ Seated(u) /\ i \in Seats(u.t)
    BY <2>3, <2>5 DEF KeepsSeats, Seats
  <2>8. AskedNext(v, u, i) /\ Seated(v)
    BY <2>6, <2>7, YourTurnEffect, YourTurnSeated
  <2>9. Sound(v)
    BY <2>8 DEF AskedNext, Sound
  <2> QED BY <2>3, <2>5, <2>8, <2>9, <1>2 DEF Asked
<1> QED BY <1>3, <1>4

-----------------------------------------------------------------------------
(* Hit, stay and double down                                               *)

\* Where handlers go on.
Cont == [step : Steps, seat : Nat, count : Nat, results : Seq(Results)]

\* A seat and a step make one.
LEMMA AtType == \A step \in Steps, seat \in Nat : At(step, seat) \in Cont
<1> SUFFICES ASSUME NEW step \in Steps, NEW seat \in Nat PROVE At(step, seat) \in Cont
  OBVIOUS
<1>1. <<>> \in Seq(Results)
  OBVIOUS
<1> QED BY <1>1 DEF At, Cont

\* What the current player's seat is after a card: it may have doubled its bet.
Plays(seat, old) ==
  /\ seat.name = old.name /\ seat.kept = old.kept /\ seat.pending = old.pending
  /\ old.bet > 0 => seat.bet > 0

\* What a request that plays begins with: it dies; or nobody has the turn; or the current
\* player has a card more, or not, and stays or is to tell the others of it.
Acted(th, c) ==
  \/ \E w \in Work, next \in Cont : w.crashed \in {"shoe", "players"} /\ Begins(th, w, next)
  \/ /\ table.current = 0
     /\ \E w : \E next \in Cont : Sound(w) /\ Begins(th, w, next)
  \/ /\ table.current \in Seats(table)
     /\ \E u : \E seat \in Seat :
          /\ Reseated(u, Now, table.current, seat) /\ Plays(seat, table.seats[table.current])
          /\ \/ Begins(th, Stay(u, c), At("next", 0))
             \/ /\ seat.hand.state = "Active"
                /\ Begins(th, Tells(u, c, "YourTurn"), At("others", 0))

\* The steps that they go on to.
LEMMA ActedNext ==
  /\ Idle \in Cont /\ At("next", 0) \in Cont /\ At("others", 0) \in Cont
  /\ AfterStay = IF table.current = 0 THEN Idle ELSE At("next", 0)
  /\ AfterStay \in Cont
BY AtType DEF Idle, Steps, AfterStay

\* A card that was left in the shoe, for a player.
LEMMA CardedEffect ==
  ASSUME Base, crashed = "no", NEW i \in Seats(table), NEW seat \in Seat,
         seat.name = table.seats[i].name, Takes(Now, 1).crashed = "no"
  PROVE  Reseated([Takes(Now, 1) EXCEPT !.t.seats[i] = seat], Now, i, seat)
<1>1. Now \in Work /\ Now.t = table /\ Now.told = told /\ Now.crashed = "no" /\ Seated(Now)
  BY NowWork DEF Now
<1>2. PICK w : w = Takes(Now, 1)
  OBVIOUS
<1>3. /\ KeepsSeats(w, Now) /\ w.t.dealer = table.dealer /\ w.t.current = table.current
      /\ w.t.betting = table.betting /\ w.t.betsMade = table.betsMade
  BY <1>1, <1>2, TakesKeepsSeats
<1>4. w \in Work /\ w.told = told /\ w.t.seats = table.seats /\ Seated(w) /\ w.crashed = "no"
  BY <1>1, <1>2, <1>3 DEF KeepsSeats
<1>5. i \in Seats(w.t) /\ seat.name = w.t.seats[i].name
  BY <1>4 DEF Seats
<1>6. PICK u : u = [w EXCEPT !.t.seats[i] = seat]
  OBVIOUS
<1>7. Reseated(u, w, i, seat)
  BY <1>4, <1>5, <1>6, SeatReplaced
<1>8. Seats(w.t) = Seats(table)
  BY <1>4 DEF Seats
<1>9. Reseated(u, Now, i, seat)
  BY <1>1, <1>3, <1>4, <1>7, <1>8 DEF Reseated
<1> QED BY <1>2, <1>6, <1>9

\* A new hand touches neither the bet nor the request.
LEMMA HandChanged ==
  ASSUME NEW seat \in Seat, NEW hand \in Hands
  PROVE  LET new == [seat EXCEPT !.hand = hand] IN
         /\ new \in Seat /\ new.hand = hand /\ new.name = seat.name /\ new.bet = seat.bet
         /\ new.insurance = seat.insurance /\ new.kept = seat.kept /\ new.pending = seat.pending
BY DEF Seat

\* StayRequest begins so.
LEMMA StayActed ==
  ASSUME Base, crashed = "no", NEW th \in Thread, NEW c \in Client, StayRequest(th, c)
  PROVE  Acted(th, c)
<1>1. told[c] = "YourTurn" /\ Begins(th, Stay(Now, c), AfterStay)
  BY DEF StayRequest
<1>2. Now \in Work /\ Seated(Now) /\ Now.told = told /\ Now.t = table /\ Now.crashed = "no"
  BY NowWork DEF Now
<1>3. CASE table.current = 0
  <2>1. Sound(Stay(Now, c))
    BY <1>1, <1>2, StaySound
  <2> QED BY <2>1, <1>1, <1>3, ActedNext DEF Acted
<1>4. CASE table.current # 0 /\ table.current \notin Seats(table)
  <2>1. PICK w : w = Stay(Now, c)
    OBVIOUS
  <2>2. w = Dies(Now, "players")
    BY <2>1, <1>2, <1>4 DEF Stay
  <2>3. w \in Work /\ w.crashed = "players"
    BY <2>2, <1>2, DiesEffect DEF Crashes
  <2> QED BY <2>1, <2>3, <1>1, ActedNext DEF Acted
<1>5. CASE table.current \in Seats(table)
  <2>1. PICK seat : seat = table.seats[table.current]
    OBVIOUS
  <2>2. seat \in Seat
    BY <2>1, <1>2, <1>5, SeatFacts
  <2>3. Reseated(Now, Now, table.current, seat)
    BY <2>1, <1>2 DEF Reseated
  <2>4. Plays(seat, table.seats[table.current])
    BY <2>1 DEF Plays
  <2>5. AfterStay = At("next", 0)
    BY <1>5, ActedNext DEF Seats
  <2> QED BY <2>2, <2>3, <2>4, <2>5, <1>1, <1>5 DEF Acted
<1> QED BY <1>3, <1>4, <1>5

\* Hit begins so, for every card.
LEMMA HitActed ==
  ASSUME Base, crashed = "no", NEW th \in Thread, NEW c \in Client, Hit(th, c)
  PROVE  Acted(th, c)
<1> DEFINE i == table.current
<1>1. Now \in Work /\ Now.t = table /\ Now.told = told /\ Now.crashed = "no" /\ Seated(Now)
  BY NowWork DEF Now
<1>2. table \in Table /\ Len(table.seats) \in Nat /\ told[c] = "YourTurn"
  BY <1>1, SeatFacts DEF Hit
<1>3. PICK w : w = Takes(Now, 1)
  OBVIOUS
<1>4. PICK value \in CardValues :
        LET hand == AddCard(IF i = 0 THEN table.dealer ELSE table.seats[i].hand, value)
            with == IF i = 0 THEN [w EXCEPT !.t.dealer = hand]
                             ELSE [w EXCEPT !.t.seats[i].hand = hand]
        IN  IF w.crashed # "no" THEN Begins(th, w, Idle)
            ELSE IF i \notin 0 .. Len(table.seats)
            THEN Begins(th, Dies(w, "players"), Idle)
            ELSE IF hand.state # "Active" THEN Begins(th, Stay(with, c), AfterStay)
            ELSE Begins(th, Tells(with, c, "YourTurn"), At("others", 0))
  BY <1>3 DEF Hit
<1>5. PICK hand : hand = AddCard(IF i = 0 THEN table.dealer ELSE table.seats[i].hand, value)
  OBVIOUS
<1>6. PICK with : with = IF i = 0 THEN [w EXCEPT !.t.dealer = hand]
                                  ELSE [w EXCEPT !.t.seats[i].hand = hand]
  OBVIOUS
<1>7. IF w.crashed # "no" THEN Begins(th, w, Idle)
      ELSE IF i \notin 0 .. Len(table.seats)
      THEN Begins(th, Dies(w, "players"), Idle)
      ELSE IF hand.state # "Active" THEN Begins(th, Stay(with, c), AfterStay)
      ELSE Begins(th, Tells(with, c, "YourTurn"), At("others", 0))
  BY <1>4, <1>5, <1>6
<1>8. KeepsSeats(w, Now) /\ w.crashed \in {"no", "shoe"} /\ w.t.current = i
  BY <1>1, <1>3, TakesKeepsSeats
<1>9. w \in Work /\ Seated(w) /\ w.told = told
  BY <1>1, <1>8 DEF KeepsSeats
<1>10. i \in Nat /\ value \in 1 .. 10
  BY <1>2, BlackJackAssumption DEF Table
<1>11. CASE w.crashed # "no"
  BY <1>7, <1>8, <1>9, <1>11, ActedNext DEF Acted
<1>12. CASE w.crashed = "no" /\ i \notin 0 .. Len(table.seats)
  <2>1. PICK v : v = Dies(w, "players")
    OBVIOUS
  <2>2. v \in Work /\ v.crashed = "players"
    BY <2>1, <1>9, DiesEffect DEF Crashes
  <2> QED BY <2>1, <2>2, <1>7, <1>12, ActedNext DEF Acted
<1>13. CASE w.crashed = "no" /\ i = 0
  <2>1. hand = AddCard(table.dealer, value) /\ with = [w EXCEPT !.t.dealer = hand]
    BY <1>5, <1>6, <1>13
  <2>2. hand \in Hands
    BY <2>1, <1>2, <1>10, AddCardEffect DEF Table
  <2>3. KeepsSeats(with, w)
    BY <2>1, <2>2, <1>9, DealerChanged
  <2>4. with \in Work /\ Seated(with) /\ with.told[c] # "away"
    BY <2>3, <1>2, <1>9 DEF KeepsSeats
  <2>5. Sound(Stay(with, c)) /\ AfterStay \in Cont
    BY <2>4, StaySound, ActedNext
  <2>6. Sound(Tells(with, c, "YourTurn")) /\ At("others", 0) \in Cont
    BY <2>4, TellsEffect, TellsSeated, ActedNext DEF Answers, Statuses, Sound
  <2>7. i \in 0 .. Len(table.seats)
    BY <1>2, <1>13
  <2>8. CASE hand.state # "Active"
    BY <2>5, <2>7, <2>8, <1>7, <1>13 DEF Acted
  <2>9. CASE hand.state = "Active"
    BY <2>6, <2>7, <2>9, <1>7, <1>13 DEF Acted
  <2> QED BY <2>8, <2>9
<1>14. CASE w.crashed = "no" /\ i \in Seats(table)
  <2>1. i # 0 /\ i \in 0 .. Len(table.seats)
    BY <1>2, <1>14 DEF Seats
  <2>2. hand = AddCard(table.seats[i].hand, value) /\ with = [w EXCEPT !.t.seats[i].hand = hand]
    BY <2>1, <1>5, <1>6
  <2>3. table.seats[i] \in Seat /\ table.seats[i].hand \in Hands
    BY <1>1, <1>14, SeatFacts DEF Seat
  <2>4. hand \in Hands
    BY <2>2, <2>3, <1>10, AddCardEffect
  <2>5. PICK seat : seat = [table.seats[i] EXCEPT !.hand = hand]
    OBVIOUS
  <2>6. seat \in Seat /\ seat.hand = hand /\ seat.name = table.seats[i].name
        /\ Plays(seat, table.seats[i])
    BY <2>3, <2>4, <2>5, HandChanged DEF Plays
  <2>7. with = [w EXCEPT !.t.seats[i] = seat]
    <3>1. w.t.seats = table.seats
      BY <1>1, <1>8 DEF KeepsSeats
    <3> QED BY <3>1, <2>2, <2>5, Zenon
  <2>8. Reseated(with, Now, i, seat)
    BY <2>6, <2>7, <1>3, <1>14, CardedEffect
  <2>9. AfterStay = At("next", 0)
    BY <2>1, ActedNext
  <2>10. CASE hand.state # "Active"
    <3>1. Begins(th, Stay(with, c), At("next", 0))
      BY <2>1, <2>9, <2>10, <1>7, <1>14
    <3> QED BY <3>1, <2>6, <2>8, <1>14 DEF Acted
  <2>11. CASE hand.state = "Active"
    <3>1. Begins(th, Tells(with, c, "YourTurn"), At("others", 0))
      BY <2>1, <2>11, <1>7, <1>14
    <3> QED BY <3>1, <2>6, <2>8, <2>11, <1>14 DEF Acted
  <2> QED BY <2>10, <2>11
<1>15. i = 0 \/ i \in Seats(table) \/ i \notin 0 .. Len(table.seats)
  BY <1>2, <1>10 DEF Seats
<1> QED BY <1>8, <1>11, <1>12, <1>13, <1>14, <1>15

\* DoubleDown begins so, for every card.
LEMMA DoubleDownActed ==
  ASSUME Base, crashed = "no", NEW th \in Thread, NEW c \in Client, DoubleDown(th, c)
  PROVE  Acted(th, c)
<1> DEFINE i == table.current
<1>1. Now \in Work /\ Now.t = table /\ Now.told = told /\ Now.crashed = "no" /\ Seated(Now)
  BY NowWork DEF Now
<1>2. CASE i \notin Seats(table)
  <2>1. Begins(th, Dies(Now, "players"), Idle)
    BY <1>2 DEF DoubleDown
  <2>2. PICK v : v = Dies(Now, "players")
    OBVIOUS
  <2>3. v \in Work /\ v.crashed = "players"
    BY <2>2, <1>1, DiesEffect DEF Crashes
  <2> QED BY <2>1, <2>2, <2>3, ActedNext DEF Acted
<1>3. CASE i \in Seats(table)
  <2>1. PICK value \in CardValues :
          LET seat == [table.seats[i] EXCEPT !.balance = @ - table.seats[i].bet,
                                             !.bet = 2 * @, !.hand = AddCard(@, value)]
              w == [Takes(Now, 1) EXCEPT !.t.seats[i] = seat]
          IN  Begins(th, IF w.crashed # "no" THEN w ELSE Stay(w, c), AfterStay)
    BY <1>3 DEF DoubleDown
  <2>2. PICK seat : seat = [table.seats[i] EXCEPT !.balance = @ - table.seats[i].bet,
                                                  !.bet = 2 * @, !.hand = AddCard(@, value)]
    OBVIOUS
  <2>3. PICK w : w = [Takes(Now, 1) EXCEPT !.t.seats[i] = seat]
    OBVIOUS
  <2>4. Begins(th, IF w.crashed # "no" THEN w ELSE Stay(w, c), AfterStay)
    BY <2>1, <2>2, <2>3
  <2>5. seat \in Seat /\ seat.name = table.seats[i].name /\ Plays(seat, table.seats[i])
    <3>1. table.seats[i] \in Seat /\ value \in 1 .. 10
      BY <1>1, <1>3, SeatFacts, BlackJackAssumption
    <3>2. table.seats[i].hand \in Hands /\ table.seats[i].balance \in Int /\ table.seats[i].bet \in Nat
      BY <3>1 DEF Seat
    <3>3. PICK hand : hand = AddCard(table.seats[i].hand, value)
      OBVIOUS
    <3>4. hand \in Hands
      BY <3>1, <3>2, <3>3, AddCardEffect
    <3>5. PICK balance : balance = table.seats[i].balance - table.seats[i].bet
      OBVIOUS
    <3>6. PICK bet : bet = 2 * table.seats[i].bet
      OBVIOUS
    <3>7. balance \in Int /\ bet \in Nat /\ (table.seats[i].bet > 0 => bet > 0)
      BY <3>2, <3>5, <3>6
    <3>8. seat = [table.seats[i] EXCEPT !.balance = balance, !.bet = bet, !.hand = hand]
      BY <2>2, <3>3, <3>5, <3>6, Zenon
    <3>9. seat \in Seat /\ seat.name = table.seats[i].name /\ seat.kept = table.seats[i].kept
          /\ seat.pending = table.seats[i].pending /\ seat.bet = bet
      BY <3>1, <3>4, <3>7, <3>8 DEF Seat
    <3> QED BY <3>7, <3>9 DEF Plays
  <2>6. PICK y : y = Takes(Now, 1)
    OBVIOUS
  <2>7. KeepsSeats(y, Now) /\ y.crashed \in {"no", "shoe"}
    BY <1>1, <2>6, TakesKeepsSeats
  <2>8. y \in Work /\ Seated(y) /\ y.t.seats = table.seats
    BY <1>1, <2>7 DEF KeepsSeats
  <2>9. CASE y.crashed = "no"
    <3>1. Reseated(w, Now, i, seat)
      BY <2>3, <2>5, <2>6, <2>9, <1>3, CardedEffect
    <3>2. w.crashed = "no"
      BY <3>1, <1>1 DEF Reseated
    <3>3. AfterStay = At("next", 0)
      BY <1>3, ActedNext DEF Seats
    <3>4. Begins(th, Stay(w, c), At("next", 0))
      BY <3>2, <3>3, <2>4
    <3> QED BY <3>1, <3>4, <2>5, <1>3 DEF Acted
  <2>10. CASE y.crashed = "shoe"
    <3>1. i \in Seats(y.t) /\ seat.name = y.t.seats[i].name
      BY <2>5, <2>8, <1>3 DEF Seats
    <3>2. Reseated(w, y, i, seat)
      BY <3>1, <2>3, <2>5, <2>6, <2>8, SeatReplaced
    <3>3. w \in Work /\ w.crashed = "shoe"
      BY <3>2, <2>10 DEF Reseated
    <3>4. Begins(th, w, AfterStay)
      BY <3>3, <2>4
    <3> QED BY <3>3, <3>4, ActedNext DEF Acted
  <2> QED BY <2>7, <2>9, <2>10
<1> QED BY <1>2, <1>3

-----------------------------------------------------------------------------
(* The type invariant                                                      *)

\* The part of the inductive invariant that no round is needed for.
Typed ==
  Base /\ at \in [Thread -> Cont] /\ disorder \in 0 .. MaxDisorder /\ stayed \in BOOLEAN

\* It implies the type invariant of the runs.
LEMMA TypedIsTypeOK == Typed => TypeOK
BY DEF Typed, Base, TypeOK, Seated, Now, Told, Cont

\* What comes in between is counted up to the bound.
LEMMA DisorderBound ==
  ASSUME disorder \in 0 .. MaxDisorder, NEW between \in BOOLEAN,
         disorder' = disorder \/ Disorders(between)
  PROVE  disorder' \in 0 .. MaxDisorder
BY BlackJackAssumption DEF Disorders

\* A step of a handler with a sound table keeps it, whatever comes in between.
LEMMA StepsTyped ==
  ASSUME Typed, NEW th \in Thread, NEW w, Sound(w), NEW next \in Cont,
         Begins(th, w, next) \/ GoesOn(th, w, next)
  PROVE  Typed'
<1>1. Base /\ at \in [Thread -> Cont] /\ disorder \in 0 .. MaxDisorder /\ stayed \in BOOLEAN
  BY DEF Typed
<1>2. /\ Becomes(w) /\ at' = [at EXCEPT ![th] = next] /\ stayed' = stayed
      /\ disorder' = disorder \/ Disorders(Working)
  BY DEF Begins, GoesOn
<1>3. Base'
  BY <1>1, <1>2, BecomesBase
<1>4. at' \in [Thread -> Cont]
  BY <1>1, <1>2
<1>5. Working \in BOOLEAN
  BY DEF Working
<1>6. disorder' \in 0 .. MaxDisorder
  BY <1>1, <1>2, <1>5, DisorderBound
<1> QED BY <1>1, <1>2, <1>3, <1>4, <1>6 DEF Typed

\* So does a request that one step serves.
LEMMA ServesTyped ==
  ASSUME Typed, NEW w, Sound(w), Serves(w), NEW between \in BOOLEAN,
         disorder' = disorder \/ Disorders(between), stayed' \in BOOLEAN
  PROVE  Typed'
<1>1. Base /\ at \in [Thread -> Cont] /\ disorder \in 0 .. MaxDisorder
  BY DEF Typed
<1>2. Base' /\ at' \in [Thread -> Cont]
  BY <1>1, BecomesBase DEF Serves
<1> QED BY <1>1, <1>2, DisorderBound DEF Typed

\* The requests that one step serves do.
LEMMA RequestTyped ==
  ASSUME Typed, crashed = "no", NEW c \in Client,
         Join(c) \/ Leave(c) \/ Wait(c) \/ Insure(c)
  PROVE  Typed'
<1>1. Base /\ stayed \in BOOLEAN
  BY DEF Typed
<1>2. CASE Join(c)
  <2>1. Serves(Added(c)) /\ told[c] = "away" /\ ComesOrGoes(Working \/ ~table.betting)
    BY <1>2 DEF Join
  <2>2. Sound(Added(c))
    BY <1>1, <2>1, AddedEffect DEF HasJoined, Sound
  <2>3. PICK b \in BOOLEAN : b = (Working \/ ~table.betting)
    BY Zenon
  <2>4. Disorders(b) /\ stayed' = (stayed /\ ~b)
    BY <2>1, <2>3 DEF ComesOrGoes
  <2>5. stayed' \in BOOLEAN
    BY <2>4, <1>1
  <2> QED BY <2>1, <2>2, <2>4, <2>5, ServesTyped
<1>3. CASE Leave(c)
  <2>1. Serves(Removed(c)) /\ told[c] # "away"
        /\ ComesOrGoes(Working \/ ~table.betting \/ table.betsMade > 0)
    BY <1>3 DEF Leave
  <2>2. Sound(Removed(c))
    BY <1>1, <2>1, RemovedEffect DEF HasLeft, Sound
  <2>3. PICK b \in BOOLEAN : b = (Working \/ ~table.betting \/ table.betsMade > 0)
    BY Zenon
  <2>4. Disorders(b) /\ stayed' = (stayed /\ ~b)
    BY <2>1, <2>3 DEF ComesOrGoes
  <2>5. stayed' \in BOOLEAN
    BY <2>4, <1>1
  <2> QED BY <2>1, <2>2, <2>4, <2>5, ServesTyped
<1>4. CASE Wait(c)
  <2>1. Serves(Waited(c)) /\ told[c] # "away" /\ disorder' = disorder /\ stayed' = stayed
    BY <1>4 DEF Wait
  <2>2. Sound(Waited(c))
    BY <1>1, <2>1, WaitedEffect DEF HasWaited, Sound
  <2>3. stayed' \in BOOLEAN
    BY <1>1, <2>1
  <2> QED BY <2>1, <2>2, <2>3, ServesTyped
<1>5. CASE Insure(c)
  <2>1. PICK w : HasInsured(w, c) /\ Serves(w)
    BY <1>1, <1>5, InsureEffect
  <2>2. Sound(w) /\ disorder' = disorder /\ stayed' = stayed
    BY <1>5, <2>1 DEF HasInsured, Sound, Insure
  <2>3. stayed' \in BOOLEAN
    BY <1>1, <2>2
  <2> QED BY <2>1, <2>2, <2>3, ServesTyped
<1> QED BY <1>2, <1>3, <1>4, <1>5

\* The beginnings of the others do.
LEMMA ActedTyped ==
  ASSUME Typed, crashed = "no", NEW th \in Thread, NEW c \in Client, told[c] = "YourTurn",
         Acted(th, c)
  PROVE  Typed'
<1>1. Base
  BY DEF Typed
<1>2. CASE \E w \in Work, next \in Cont : w.crashed \in {"shoe", "players"} /\ Begins(th, w, next)
  BY <1>2, StepsTyped DEF Sound
<1>3. CASE \E w : \E next \in Cont : Sound(w) /\ Begins(th, w, next)
  BY <1>3, StepsTyped
<1>4. ASSUME NEW u, NEW seat \in Seat, Reseated(u, Now, table.current, seat),
             \/ Begins(th, Stay(u, c), At("next", 0))
             \/ Begins(th, Tells(u, c, "YourTurn"), At("others", 0))
      PROVE  Typed'
  <2>1. u \in Work /\ Seated(u) /\ u.told[c] # "away"
    BY <1>4 DEF Reseated, Now
  <2>2. Sound(Stay(u, c))
    BY <2>1, StaySound
  <2>3. Sound(Tells(u, c, "YourTurn"))
    BY <2>1, TellsEffect, TellsSeated DEF Answers, Statuses, Sound
  <2> QED BY <1>4, <2>2, <2>3, ActedNext, StepsTyped
<1> QED BY <1>2, <1>3, <1>4 DEF Acted

\* Bet() begins with the stake, and the count that it has read.
LEMMA BetBegins ==
  ASSUME Base, crashed = "no", NEW th \in Thread, NEW c \in Client, Bet(th, c)
  PROVE  \E next \in Cont :
           /\ next.step = "count" /\ next.seat = FindPlayer(c) /\ next.count = table.betsMade
           /\ Begins(th, Staked(c), next)
<1>1. told[c] = "PlaceBet"
      /\ Begins(th, Staked(c), [At("count", FindPlayer(c)) EXCEPT !.count = table.betsMade])
  BY DEF Bet
<1>2. FindPlayer(c) \in Nat /\ table.betsMade \in Nat
  BY <1>1, FindPlayerSeat DEF Base, Table, Seats
<1>3. At("count", FindPlayer(c)) \in Cont
  BY <1>2, AtType DEF Steps
<1>4. PICK next : next = [At("count", FindPlayer(c)) EXCEPT !.count = table.betsMade]
  OBVIOUS
<1>5. next \in Cont /\ next.step = "count" /\ next.seat = FindPlayer(c) /\ next.count = table.betsMade
  BY <1>2, <1>3, <1>4 DEF At, Cont
<1> QED BY <1>1, <1>4, <1>5

\* DealerDeal() begins with the results of all, and the first to pay.
LEMMA DealerDealBegins ==
  ASSUME Base, crashed = "no", NEW th \in Thread, DealerDeal(th)
  PROVE  \E dealer \in DealerHands[table.dealer], next \in Cont :
           /\ next.step = "pay" /\ next.seat = 1
           /\ next.results = [i \in Seats(table) |-> Result(table.seats[i], dealer)]
           /\ GoesOn(th, Draws(Now, dealer), next)
<1>1. PICK dealer \in DealerHands[table.dealer] :
        GoesOn(th, Draws(Now, dealer),
               [At("pay", 1) EXCEPT
                  !.results = [i \in Seats(table) |-> Result(table.seats[i], dealer)]])
  BY DEF DealerDeal
<1>2. PICK results : results = [i \in Seats(table) |-> Result(table.seats[i], dealer)]
  OBVIOUS
<1>3. results \in Seq(Results)
  <2>1. Len(table.seats) \in Nat /\ \A i \in Seats(table) : table.seats[i] \in Seat
    BY NowWork, SeatFacts DEF Now
  <2>2. \A i \in Seats(table) : Result(table.seats[i], dealer) \in Results
    BY <2>1, ResultType
  <2>3. results \in [1 .. Len(table.seats) -> Results]
    BY <1>2, <2>2 DEF Seats
  <2> QED BY <2>1, <2>3
<1>4. PICK next : next = [At("pay", 1) EXCEPT !.results = results]
  OBVIOUS
<1>5. next \in Cont /\ next.step = "pay" /\ next.seat = 1 /\ next.results = results
  <2>1. At("pay", 1) \in Cont
    BY AtType DEF Steps
  <2> QED BY <2>1, <1>3, <1>4 DEF At, Cont
<1> QED BY <1>1, <1>2, <1>4, <1>5

\* What PayUp() leaves for the player i: paid, told to bet if it has a request, else with
\* that as news.
PaidUp(v, i, result) ==
  /\ v \in Work /\ Seated(v) /\ v.crashed = "no"
  /\ v.t.betting = table.betting /\ v.t.current = table.current
  /\ v.t.betsMade = table.betsMade
  /\ Len(v.t.seats) = Len(table.seats) /\ Seats(v.t) = Seats(table)
  /\ LET old == table.seats[i]  new == v.t.seats[i] IN
     /\ new.name = old.name /\ new.insurance = 0
     /\ new.bet = IF result = "None" THEN old.bet ELSE 0
     /\ new.kept = "none"
     /\ new.pending = IF old.kept # "none" THEN old.pending ELSE "PlaceBet"
     /\ v.told[old.name] = IF old.kept # "none" THEN "PlaceBet" ELSE told[old.name]
  /\ \A j \in Seats(table) : j # i =>
       /\ v.t.seats[j] = table.seats[j]
       /\ v.told[table.seats[j].name] = told[table.seats[j].name]

\* PayUp() does so, whatever the result.
LEMMA PaidUpEffect ==
  ASSUME Base, crashed = "no", NEW i \in Seats(table), NEW result \in Results, NEW w,
         w = [Now EXCEPT !.t.seats[i] = Pay(@, result, table.dealer)]
  PROVE  PaidUp(Notify(w, {i}, "PlaceBet"), i, result)
<1>1. Now \in Work /\ Now.t = table /\ Now.told = told /\ Now.crashed = "no" /\ Seated(Now)
  BY NowWork DEF Now
<1>2. PICK seat : seat = Pay(table.seats[i], result, table.dealer)
  OBVIOUS
<1>3. table.seats[i] \in Seat /\ \A j \in Seats(table) : table.seats[j].name \in Client
  BY <1>1, SeatFacts
<1>4. /\ seat \in Seat /\ seat.name = table.seats[i].name
      /\ seat.kept = table.seats[i].kept /\ seat.pending = table.seats[i].pending
      /\ seat.bet = (IF result = "None" THEN table.seats[i].bet ELSE 0) /\ seat.insurance = 0
  BY <1>2, <1>3, PayEffect
<1>5. w = [Now EXCEPT !.t.seats[i] = seat]
  BY <1>1, <1>2
<1>6. Reseated(w, Now, i, seat)
  BY <1>1, <1>4, <1>5, SeatReplaced
<1>7. /\ w \in Work /\ Seated(w) /\ w.told = told /\ w.crashed = "no"
      /\ w.t.betting = table.betting /\ w.t.current = table.current
      /\ w.t.betsMade = table.betsMade
      /\ Len(w.t.seats) = Len(table.seats) /\ Seats(w.t) = Seats(table) /\ w.t.seats[i] = seat
      /\ \A j \in Seats(table) : j # i => w.t.seats[j] = table.seats[j]
  BY <1>1, <1>6 DEF Reseated
<1>8. PICK v : v = Notify(w, {i}, "PlaceBet")
  OBVIOUS
<1>9. Notified(v, w, {i}, "PlaceBet") /\ Seated(v)
  BY <1>7, <1>8, NotifyEffect, NotifySeated DEF Statuses
<1>10. /\ v \in Work /\ v.crashed = "no" /\ v.t.betting = table.betting
       /\ v.t.current = table.current /\ v.t.betsMade = table.betsMade
       /\ Len(v.t.seats) = Len(table.seats)
  <2>1. v.t = [w.t EXCEPT !.seats = v.t.seats] /\ w.t \in Table
    BY <1>7, <1>9, SeatFacts DEF Notified
  <2>2. v.t.betting = w.t.betting /\ v.t.current = w.t.current /\ v.t.betsMade = w.t.betsMade
    BY <2>1 DEF Table
  <2> QED BY <2>2, <1>7, <1>9 DEF Notified
<1>11. Seats(v.t) = Seats(table)
  BY <1>10 DEF Seats
<1>12. \A c \in Client : v.told[c] = IF seat.kept # "none" /\ seat.name = c THEN "PlaceBet"
                                     ELSE told[c]
  BY <1>7, <1>9 DEF Notified
<1>13. v.t.seats[i] = IF seat.kept # "none" THEN [seat EXCEPT !.kept = "none"]
                      ELSE [seat EXCEPT !.pending = "PlaceBet"]
  BY <1>7, <1>9 DEF Notified
<1>14. ASSUME NEW j \in Seats(table), j # i
       PROVE  v.t.seats[j] = table.seats[j]
              /\ v.told[table.seats[j].name] = told[table.seats[j].name]
  <2>1. v.t.seats[j] = table.seats[j]
    BY <1>7, <1>9, <1>14 DEF Notified
  <2>2. table.seats[j].name # table.seats[i].name
    BY <1>1, <1>14 DEF Seated
  <2> QED BY <2>1, <2>2, <1>3, <1>4, <1>12
<1>15. LET old == table.seats[i]  new == v.t.seats[i] IN
       /\ new.name = old.name /\ new.insurance = 0
       /\ new.bet = IF result = "None" THEN old.bet ELSE 0
       /\ new.kept = "none"
       /\ new.pending = IF old.kept # "none" THEN old.pending ELSE "PlaceBet"
  BY <1>4, <1>13 DEF Seat
<1>16. v.told[table.seats[i].name] = IF table.seats[i].kept # "none" THEN "PlaceBet"
                                     ELSE told[table.seats[i].name]
  BY <1>3, <1>4, <1>12
<1>17. PaidUp(v, i, result)
  BY <1>9, <1>10, <1>11, <1>14, <1>15, <1>16 DEF PaidUp
<1> QED BY <1>8, <1>17

\* A step of PayUp() is that, with the result found before, or none.
LEMMA PayUpGoesOn ==
  ASSUME Base, crashed = "no", NEW th \in Thread, at[th] \in Cont, PayUp(th)
  PROVE  LET i == at[th].seat
             result == IF i \in DOMAIN at[th].results THEN at[th].results[i] ELSE "None"
         IN  /\ at[th].step = "pay" /\ i \in Seats(table)
             /\ \E v : \E next \in Cont :
                  /\ PaidUp(v, i, result) /\ GoesOn(th, v, next)
                  /\ next.step = "pay" /\ next.seat = i + 1 /\ next.results = at[th].results
<1> DEFINE i == at[th].seat
<1>1. PICK result : result = IF i \in DOMAIN at[th].results THEN at[th].results[i] ELSE "None"
  OBVIOUS
<1>2. result \in Results
  <2>1. at[th].results \in Seq(Results)
    BY DEF Cont
  <2> QED BY <2>1, <1>1 DEF Results
<1>3. PICK w : w = [Now EXCEPT !.t.seats[i] = Pay(@, result, table.dealer)]
  OBVIOUS
<1>4. at[th].step = "pay" /\ i \in Seats(table)
      /\ GoesOn(th, Notify(w, {i}, "PlaceBet"), [at[th] EXCEPT !.seat = i + 1])
  BY <1>1, <1>3, Zenon DEF PayUp
<1>5. PICK v : v = Notify(w, {i}, "PlaceBet")
  OBVIOUS
<1>6. PaidUp(v, i, result)
  BY <1>2, <1>3, <1>4, <1>5, PaidUpEffect
<1>7. PICK next : next = [at[th] EXCEPT !.seat = i + 1]
  OBVIOUS
<1>8. next \in Cont /\ next.step = "pay" /\ next.seat = i + 1 /\ next.results = at[th].results
  <2>1. i + 1 \in Nat
    BY <1>4 DEF Seats
  <2> QED BY <2>1, <1>4, <1>7 DEF Cont
<1> QED BY <1>1, <1>4, <1>5, <1>6, <1>7, <1>8

\* NextPlayer() asks a player behind the current one who can play, if there is one.
LEMMA NextPlayerGoesOn ==
  ASSUME Base, crashed = "no", NEW th \in Thread, NextPlayer(th)
  PROVE  \/ /\ \A i \in Seats(table) : i > table.current => ~InPlay(table.seats[i])
            /\ At("assign", Len(table.seats) + 1) \in Cont
            /\ GoesOn(th, Now, At("assign", Len(table.seats) + 1))
         \/ \E i \in Seats(table) : \E v :
              /\ i > table.current /\ InPlay(table.seats[i]) /\ At("assign", i) \in Cont
              /\ AskedNext(v, Now, i) /\ Sound(v) /\ GoesOn(th, v, At("assign", i))
<1>1. PICK next : next = {i \in Seats(table) : i > table.current /\ InPlay(table.seats[i])}
  OBVIOUS
<1>2. Now \in Work /\ Now.t = table /\ Seated(Now)
  BY NowWork DEF Now
<1>3. Len(table.seats) \in Nat
  BY <1>2, SeatFacts
<1>4. IF next = {} THEN GoesOn(th, Now, At("assign", Len(table.seats) + 1))
      ELSE GoesOn(th, YourTurn(Now, Min(next)), At("assign", Min(next)))
  BY <1>1 DEF NextPlayer, CanPlay
<1>5. CASE next = {}
  <2>1. At("assign", Len(table.seats) + 1) \in Cont
    BY <1>3, AtType DEF Steps
  <2>2. \A i \in Seats(table) : i > table.current => ~InPlay(table.seats[i])
    BY <1>1, <1>5
  <2> QED BY <2>1, <2>2, <1>4, <1>5
<1>6. CASE next # {}
  <2>1. PICK i : i = Min(next)
    OBVIOUS
  <2>2. i \in next
    <3>1. next \in SUBSET Nat
      BY <1>1 DEF Seats
    <3> QED BY <3>1, <2>1, <1>6, MinIn
  <2>3. i \in Seats(table) /\ i > table.current /\ InPlay(table.seats[i]) /\ i \in Nat
    BY <2>2, <1>1 DEF Seats
  <2>4. PICK v : v = YourTurn(Now, i)
    OBVIOUS
  <2>5. AskedNext(v, Now, i) /\ Seated(v)
    BY <2>3, <2>4, <1>2, YourTurnEffect, YourTurnSeated
  <2>6. Sound(v)
    BY <2>5 DEF AskedNext, Sound
  <2>7. At("assign", i) \in Cont
    BY <2>3, AtType DEF Steps
  <2>8. GoesOn(th, v, At("assign", i))
    BY <2>1, <2>4, <1>4, <1>6
  <2> QED BY <2>3, <2>5, <2>6, <2>7, <2>8
<1> QED BY <1>5, <1>6

\* No step is taken by a dead server.
LEMMA StillRuns ==
  /\ \A c \in Client : Requests(c) => crashed = "no"
  /\ \A th \in Thread : Goes(th) => crashed = "no"
<1>1. \A w : Becomes(w) => crashed = "no"
  BY DEF Becomes
<1>2. \A w : Serves(w) => crashed = "no"
  BY <1>1 DEF Serves
<1>3. \A th \in Thread : \A w, next : Begins(th, w, next) => crashed = "no"
  BY <1>1 DEF Begins
<1>4. \A th \in Thread : \A w, next : GoesOn(th, w, next) => crashed = "no"
  BY <1>1 DEF GoesOn
<1>5. ASSUME NEW c \in Client, Requests(c) PROVE crashed = "no"
  <2>1. Join(c) \/ Leave(c) \/ Wait(c) \/ Insure(c) => crashed = "no"
    BY <1>2 DEF Join, Leave, Wait, Insure
  <2>2. ASSUME NEW th \in Thread PROVE Bet(th, c) \/ StayRequest(th, c) => crashed = "no"
    BY <1>3 DEF Bet, StayRequest
  <2>3. ASSUME NEW th \in Thread PROVE Hit(th, c) => crashed = "no"
    <3> HAVE Hit(th, c)
    <3>1. PICK w, next : Begins(th, w, next)
      BY Zenon DEF Hit
    <3> QED BY <3>1, <1>3
  <2>4. ASSUME NEW th \in Thread PROVE DoubleDown(th, c) => crashed = "no"
    <3> HAVE DoubleDown(th, c)
    <3>1. PICK w, next : Begins(th, w, next)
      BY Zenon DEF DoubleDown
    <3> QED BY <3>1, <1>3
  <2> QED BY <1>5, <2>1, <2>2, <2>3, <2>4 DEF Requests
<1>6. ASSUME NEW th \in Thread, Goes(th) PROVE crashed = "no"
  <2>1. \E w, next : GoesOn(th, w, next)
    <3>1. CASE Count(th) \/ KeepBet(th) \/ AskFirst(th) \/ NobodyPast(th) \/ PayUp(th)
               \/ ClearBets(th) \/ AssignCurrent(th) \/ RoundGoesOn(th) \/ HitOthers(th)
      BY <3>1, Zenon DEF Count, KeepBet, AskFirst, NobodyPast, PayUp, ClearBets,
                         AssignCurrent, RoundGoesOn, HitOthers
    <3>2. CASE DealCards(th)
      BY <3>2, Zenon DEF DealCards
    <3>3. CASE NextPlayer(th)
      <4>1. \/ GoesOn(th, Now, At("assign", Len(table.seats) + 1))
            \/ LET i == Min({i \in Seats(table) : i > table.current /\ CanPlay(table.seats[i])})
               IN  GoesOn(th, YourTurn(Now, i), At("assign", i))
        BY <3>3, Zenon DEF NextPlayer
      <4> QED BY <4>1, Zenon
    <3>4. CASE PastPlayers(th) \/ RoundEnds(th)
      BY <3>4, Zenon DEF PastPlayers, RoundEnds, DealerDeal
    <3> QED BY <1>6, <3>1, <3>2, <3>3, <3>4 DEF Goes
  <2> QED BY <2>1, <1>4
<1> QED BY <1>5, <1>6

\* The steps that go on keep the type invariant.
LEMMA GoesTyped ==
  ASSUME Typed, crashed = "no", NEW th \in Thread, Goes(th)
  PROVE  Typed'
<1>1. Base /\ at[th] \in Cont
  BY DEF Typed
<1>2. Now \in Work /\ Seated(Now) /\ Sound(Now) /\ Now.t = table /\ Now.crashed = "no"
  BY <1>1, NowWork DEF Now
<1>3. /\ at[th].seat \in Nat /\ at[th].count \in Nat /\ table \in Table
      /\ Idle \in Cont /\ \A step \in Steps, seat \in Nat : At(step, seat) \in Cont
  BY <1>1, AtType, ActedNext DEF Cont, Base
<1>4. CASE Count(th)
  <2>1. PICK v : v = [Now EXCEPT !.t.betsMade = at[th].count + 1]
    OBVIOUS
  <2>2. GoesOn(th, v, At("keep", at[th].seat)) /\ At("keep", at[th].seat) \in Cont
    BY <1>3, <1>4, <2>1 DEF Count, Steps
  <2>3. KeepsSeats(v, Now)
    <3>1. at[th].count + 1 \in Nat
      BY <1>3
    <3> QED BY <1>2, <2>1, <3>1, BetsMadeSet
  <2> QED BY <1>2, <2>2, <2>3, StepsTyped DEF KeepsSeats, Sound
<1>5. CASE KeepBet(th)
  <2>1. At("check", 0) \in Cont
    BY <1>3 DEF Steps
  <2>2. CASE at[th].seat \in Seats(table)
    <3>1. PICK seat : seat = [table.seats[at[th].seat] EXCEPT !.kept = "bet"]
      OBVIOUS
    <3>2. seat \in Seat /\ seat.name = table.seats[at[th].seat].name
      <4>1. table.seats[at[th].seat] \in Seat
        BY <1>2, <2>2, SeatFacts
      <4> QED BY <4>1, <3>1 DEF Seat
    <3>3. PICK v : v = [Now EXCEPT !.t.seats[at[th].seat] = seat]
      OBVIOUS
    <3>4. Reseated(v, Now, at[th].seat, seat)
      BY <1>2, <2>2, <3>2, <3>3, SeatReplaced
    <3>5. v = [Now EXCEPT !.t.seats[at[th].seat].kept = "bet"]
      BY <1>2, <3>1, <3>3, Zenon
    <3>6. GoesOn(th, v, At("check", 0))
      BY <1>5, <2>2, <3>5 DEF KeepBet
    <3> QED BY <2>1, <3>4, <3>6, StepsTyped DEF Reseated, Sound
  <2>3. CASE at[th].seat \notin Seats(table)
    <3>1. PICK v : v = Dies(Now, "players")
      OBVIOUS
    <3>2. GoesOn(th, v, At("check", 0))
      BY <1>5, <2>3, <3>1 DEF KeepBet
    <3>3. v \in Work /\ v.crashed = "players"
      BY <1>2, <3>1, DiesEffect DEF Crashes
    <3> QED BY <2>1, <3>2, <3>3, StepsTyped DEF Sound
  <2> QED BY <2>2, <2>3
<1>6. CASE DealCards(th)
  <2>1. PICK cards \in [0 .. Len(table.seats) -> CardValues \X CardValues] :
          GoesOn(th, Deal(Now, cards), At("ask", 0))
    BY <1>6 DEF DealCards
  <2>2. PICK v : v = Deal(Now, cards)
    OBVIOUS
  <2>3. Dealt(v, Now)
    BY <1>2, <2>2, DealEffect
  <2>4. At("ask", 0) \in Cont
    BY <1>3 DEF Steps
  <2> QED BY <2>1, <2>2, <2>3, <2>4, StepsTyped DEF Dealt, Sound
<1>7. CASE AskFirst(th)
  <2>1. PICK v : v = TellOthers(FirstPlayer(Now))
    OBVIOUS
  <2>2. Sound(v)
    BY <1>2, <2>1, FirstPlayerEffect, TellOthersSound
  <2>3. GoesOn(th, v, At("test", 0)) /\ At("test", 0) \in Cont
    BY <1>3, <1>7, <2>1 DEF AskFirst, Steps
  <2> QED BY <2>2, <2>3, StepsTyped
<1>8. CASE NobodyPast(th) \/ RoundGoesOn(th)
  BY <1>2, <1>3, <1>8, StepsTyped DEF NobodyPast, RoundGoesOn
<1>9. CASE PastPlayers(th) \/ RoundEnds(th)
  <2>1. DealerDeal(th)
    BY <1>9 DEF PastPlayers, RoundEnds
  <2>2. PICK dealer \in DealerHands[table.dealer], next \in Cont : GoesOn(th, Draws(Now, dealer), next)
    BY <1>1, <2>1, DealerDealBegins
  <2>3. PICK v : v = Draws(Now, dealer)
    OBVIOUS
  <2>4. KeepsSeats(v, Now)
    BY <1>2, <2>3, DrawsEffect
  <2> QED BY <1>2, <2>2, <2>3, <2>4, StepsTyped DEF KeepsSeats, Sound
<1>10. CASE PayUp(th)
  <2>1. PICK result, v : \E next \in Cont : PaidUp(v, at[th].seat, result) /\ GoesOn(th, v, next)
    BY <1>1, <1>10, PayUpGoesOn
  <2> QED BY <2>1, StepsTyped DEF PaidUp, Sound
<1>11. CASE ClearBets(th)
  <2>1. PICK v : v = [Now EXCEPT !.t.betsMade = 0]
    OBVIOUS
  <2>2. KeepsSeats(v, Now)
    BY <1>2, <2>1, BetsMadeSet
  <2>3. GoesOn(th, v, Idle)
    BY <1>11, <2>1 DEF ClearBets
  <2> QED BY <1>2, <1>3, <2>2, <2>3, StepsTyped DEF KeepsSeats, Sound
<1>12. CASE NextPlayer(th)
  BY <1>1, <1>2, <1>12, NextPlayerGoesOn, StepsTyped
<1>13. CASE AssignCurrent(th)
  <2>1. PICK v : v = [Now EXCEPT !.t.current = at[th].seat]
    OBVIOUS
  <2>2. KeepsSeats(v, Now)
    BY <1>2, <1>3, <2>1, CurrentSet
  <2>3. GoesOn(th, v, At("settle", 0)) /\ At("settle", 0) \in Cont
    BY <1>3, <1>13, <2>1 DEF AssignCurrent, Steps
  <2> QED BY <1>2, <2>2, <2>3, StepsTyped DEF KeepsSeats, Sound
<1>14. CASE HitOthers(th)
  BY <1>2, <1>3, <1>14, TellOthersSound, StepsTyped DEF HitOthers
<1> QED BY <1>4, <1>5, <1>6, <1>7, <1>8, <1>9, <1>10, <1>11, <1>12, <1>13, <1>14 DEF Goes

\* The requests of clients keep it.
LEMMA RequestsTyped ==
  ASSUME Typed, crashed = "no", NEW c \in Client, Requests(c)
  PROVE  Typed'
<1>1. Base
  BY DEF Typed
<1>2. CASE Join(c) \/ Leave(c) \/ Wait(c) \/ Insure(c)
  BY <1>2, RequestTyped
<1>3. ASSUME NEW th \in Thread, Bet(th, c) PROVE Typed'
  <2>1. Sound(Staked(c))
    BY <1>1, <1>3, StakedEffect DEF Bet, HasStaked, Sound
  <2> QED BY <1>1, <1>3, <2>1, BetBegins, StepsTyped
<1>4. ASSUME NEW th \in Thread, Hit(th, c) \/ StayRequest(th, c) \/ DoubleDown(th, c)
      PROVE  Typed'
  <2>1. told[c] = "YourTurn"
    BY <1>4 DEF Hit, StayRequest, DoubleDown
  <2>2. Acted(th, c)
    BY <1>1, <1>4, HitActed, StayActed, DoubleDownActed
  <2> QED BY <2>1, <2>2, ActedTyped
<1> QED BY <1>2, <1>3, <1>4 DEF Requests

\* It holds of an empty table.
LEMMA InitTyped == Init => Typed
<1> SUFFICES ASSUME Init PROVE Typed
  OBVIOUS
<1>1. NoCards \in Hands /\ <<>> \in Seq(Seat) /\ Len(<<>>) = 0 /\ ShoeSize \in 0 .. ShoeSize
  BY BlackJackAssumption DEF NoCards, Hands
<1>2. table \in Table
  BY <1>1 DEF Init, Table
<1>3. told \in Told /\ crashed \in Crashes /\ at \in [Thread -> Cont]
  BY ActedNext DEF Init, Told, Answers, Crashes
<1>4. disorder \in 0 .. MaxDisorder /\ stayed \in BOOLEAN
  BY BlackJackAssumption DEF Init
<1>5. Seated(Now)
  BY <1>1 DEF Init, Seated, Now, Seats
<1> QED BY <1>2, <1>3, <1>4, <1>5 DEF Typed, Base

\* Every step keeps it.
LEMMA StepTyped == Typed /\ [Next]_vars => Typed'
<1> SUFFICES ASSUME Typed, [Next]_vars PROVE Typed'
  OBVIOUS
<1>1. CASE UNCHANGED vars
  BY <1>1 DEF vars, Typed, Base, Seated, Now, Seats
<1>2. CASE \E c \in Client : Requests(c)
  BY <1>2, StillRuns, RequestsTyped
<1>3. CASE \E th \in Thread : Goes(th)
  BY <1>3, StillRuns, GoesTyped
<1> QED BY <1>1, <1>2, <1>3 DEF Next

\* Every variable keeps its type, and nobody has two seats: with every division of the
\* handlers into steps, the table that one leaves half changed is a table.
THEOREM TypeCorrect == Spec => []TypeOK
<1>1. Spec => []Typed
  BY InitTyped, StepTyped, PTL DEF Spec
<1> QED BY <1>1, TypedIsTypeOK, PTL

-----------------------------------------------------------------------------
(* A round of players who stay                                             *)

\* A player, by what it was told, the request it has at the table and its news.
Waits(w, i, answer, kept, pending) ==
  /\ w.told[w.t.seats[i].name] = answer
  /\ w.t.seats[i].kept = kept /\ w.t.seats[i].pending = pending

\* It may place its bet, or has that as news behind its refresh ...
Called(w, i) ==
  \/ Waits(w, i, "PlaceBet", "none", "None")
  \/ Waits(w, i, "Refresh", "none", "PlaceBet")

\* ... or has placed it and waits ...
Placed(w, i) == Waits(w, i, "nothing", "bet", "None")

\* ... or it has not the turn, and waits for news or has news to ask for ...
Idles(w, i) ==
  \/ Waits(w, i, "Refresh", "none", "None")
  \/ Waits(w, i, "Refresh", "none", "Refresh")
  \/ Waits(w, i, "nothing", "wait", "None")

\* ... or it has the turn, and a hand to play.
HasTurn(w, i) == InPlay(w.t.seats[i]) /\ Waits(w, i, "YourTurn", "none", "None")

\* While bets are taken.
Bets(w, i) ==
  /\ w.t.seats[i].insurance = 0
  /\ \/ Called(w, i) /\ w.t.seats[i].bet = 0
     \/ Placed(w, i) /\ w.t.seats[i].bet = Amount

BetsKept(w) == Cardinality({i \in Seats(w.t) : w.t.seats[i].kept = "bet"})

\* The count is that of the bets that wait.
Betting(w) ==
  /\ w.t.betting /\ w.t.current = 0
  /\ \A i \in Seats(w.t) : Bets(w, i)
  /\ w.t.betsMade = BetsKept(w)

\* The player i has put its bet on the table, and the request is not kept yet.
Staking(w, i, counted) ==
  /\ w.t.betting /\ w.t.current = 0
  /\ i \in Seats(w.t) /\ Waits(w, i, "nothing", "none", "None")
  /\ w.t.seats[i].insurance = 0 /\ w.t.seats[i].bet = Amount
  /\ \A j \in Seats(w.t) : j # i => Bets(w, j)
  /\ w.t.betsMade = BetsKept(w) + counted

\* The cards are dealt, and all wait for the answer to their bets.
AllDealt(w) ==
  /\ ~w.t.betting /\ w.t.current = 0 /\ Seats(w.t) # {}
  /\ \A i \in Seats(w.t) :
       /\ w.t.seats[i].bet > 0 /\ Placed(w, i)
       /\ w.t.seats[i].hand.state \in {"BlackJack", "Active"}

\* All play, and all but the player i idle.
OthersIdle(w, i) ==
  /\ ~w.t.betting /\ i \in Seats(w.t)
  /\ \A j \in Seats(w.t) : w.t.seats[j].bet > 0 /\ (j # i => Idles(w, j))

AllIdle(w) ==
  /\ ~w.t.betting /\ Seats(w.t) # {}
  /\ \A i \in Seats(w.t) : w.t.seats[i].bet > 0 /\ Idles(w, i)

\* The current player has the turn; or all were dealt a blackjack, and the bet of the
\* last player stays unanswered.
Playing(w) ==
  /\ OthersIdle(w, w.t.current)
  /\ \/ HasTurn(w, w.t.current)
     \/ /\ Placed(w, w.t.current)
        /\ \A i \in Seats(w.t) : w.t.seats[i].hand.state = "BlackJack"

\* Those that PayUp() has come to are called to bet, the others idle, and it pays them all.
Paying(w, a) ==
  /\ w.t.betting /\ w.t.current = 0
  /\ DOMAIN a.results = Seats(w.t) /\ a.seat \in 1 .. Len(w.t.seats) + 1
  /\ \A i \in Seats(w.t) :
       IF i < a.seat
       THEN Called(w, i) /\ w.t.seats[i].bet = 0 /\ w.t.seats[i].insurance = 0
       ELSE Idles(w, i) /\ w.t.seats[i].bet > 0 /\ a.results[i] # "None"

\* Line 282 is to come: the one who was asked has the turn, or there is none.
Turning(w, i) ==
  /\ w.t.current \in Seats(w.t)
  /\ \/ OthersIdle(w, i) /\ HasTurn(w, i)
     \/ i = Len(w.t.seats) + 1 /\ AllIdle(w)

\* A round of players who stay to its end, with one handler at work, that goes on at a.
Round(w, a) ==
  \/ a.step = "idle" /\ (Betting(w) \/ Playing(w))
  \/ a.step = "count" /\ Staking(w, a.seat, 0) /\ a.count = w.t.betsMade
  \/ a.step = "keep" /\ Staking(w, a.seat, 1)
  \/ a.step = "check" /\ Betting(w) /\ Seats(w.t) # {}
  \/ a.step = "ask" /\ AllDealt(w)
  \/ a.step \in {"test", "others"} /\ Playing(w)
  \/ a.step = "next" /\ AllIdle(w) /\ w.t.current \in Seats(w.t)
  \/ a.step = "assign" /\ Turning(w, a.seat)
  \/ a.step = "settle" /\ (Playing(w) \/ (AllIdle(w) /\ w.t.current = Len(w.t.seats) + 1))
  \/ a.step = "pay" /\ Paying(w, a)

\* At most one handler is at work, and the round stands where that one goes on.
RoundOn ==
  /\ \A th, other \in Thread : at[th] # Idle /\ at[other] # Idle => th = other
  /\ \A th \in Thread : at[th] # Idle => Round(Now, at[th])
  /\ ~Working => Round(Now, Idle)

\* What an orderly server dies of.
DiesLate == disorder = 0 => CrashExplained

\* The inductive invariant.
IInv == Typed /\ (Orderly => RoundOn) /\ DiesLate

\* A player that a step leaves alone.
Left(v, w, i) ==
  v.t.seats[i] = w.t.seats[i] /\ v.told[w.t.seats[i].name] = w.told[w.t.seats[i].name]

\* It stands where it stood.
LEMMA LeftStands ==
  ASSUME NEW v, NEW w, NEW i, Left(v, w, i)
  PROVE  /\ Called(v, i) = Called(w, i) /\ Placed(v, i) = Placed(w, i)
         /\ Idles(v, i) = Idles(w, i) /\ Bets(v, i) = Bets(w, i)
         /\ HasTurn(v, i) = HasTurn(w, i)
<1>1. \A answer, kept, pending : Waits(v, i, answer, kept, pending) = Waits(w, i, answer, kept, pending)
  BY DEF Left, Waits
<1>2. /\ Called(v, i) = Called(w, i) /\ Placed(v, i) = Placed(w, i) /\ Idles(v, i) = Idles(w, i)
  BY <1>1, Zenon DEF Called, Placed, Idles
<1>3. v.t.seats[i] = w.t.seats[i]
  BY DEF Left
<1>4. Bets(v, i) = Bets(w, i) /\ HasTurn(v, i) = HasTurn(w, i)
  BY <1>1, <1>2, <1>3, Zenon DEF Bets, HasTurn
<1> QED BY <1>2, <1>4

\* One player is answered, the others are left alone.
OneTold(v, w, i, answer) ==
  /\ v.told[w.t.seats[i].name] = answer
  /\ \A j \in Seats(w.t) : j # i => Left(v, w, j)

\* An answer to one player leaves the others alone.
LEMMA OthersLeft ==
  ASSUME NEW w \in Work, Seated(w), NEW i \in Seats(w.t), NEW answer, NEW v,
         v.told = [w.told EXCEPT ![w.t.seats[i].name] = answer],
         \A j \in Seats(w.t) : j # i => v.t.seats[j] = w.t.seats[j]
  PROVE  OneTold(v, w, i, answer)
<1> DEFINE c == w.t.seats[i].name
<1>1. w.told \in Told /\ \A j \in Seats(w.t) : w.t.seats[j].name \in Client
  BY SeatFacts
<1>2. v.told[c] = answer
  BY <1>1 DEF Told
<1>3. ASSUME NEW j \in Seats(w.t), j # i PROVE Left(v, w, j)
  <2>1. w.t.seats[j].name # c
    BY <1>3 DEF Seated
  <2>2. v.told[w.t.seats[j].name] = w.told[w.t.seats[j].name]
    BY <1>1, <2>1 DEF Told
  <2> QED BY <2>2, <1>3 DEF Left
<1> QED BY <1>2, <1>3 DEF OneTold

\* A step that keeps the seats leaves all of them alone.
LEMMA KeptLeft ==
  ASSUME NEW v, NEW w, KeepsSeats(v, w)
  PROVE  /\ Seats(v.t) = Seats(w.t) /\ Len(v.t.seats) = Len(w.t.seats)
         /\ \A i \in Seats(w.t) : Left(v, w, i)
         /\ BetsKept(v) = BetsKept(w)
<1>1. v.t.seats = w.t.seats /\ v.told = w.told
  BY DEF KeepsSeats
<1>2. Seats(v.t) = Seats(w.t) /\ Len(v.t.seats) = Len(w.t.seats)
  BY <1>1 DEF Seats
<1>3. BetsKept(v) = BetsKept(w)
  BY <1>1, <1>2 DEF BetsKept
<1> QED BY <1>1, <1>2, <1>3 DEF Left

\* No request of a bet, no bet to count.
LEMMA NoBets ==
  ASSUME NEW w, \A i \in Seats(w.t) : w.t.seats[i].kept # "bet"
  PROVE  BetsKept(w) = 0
<1>1. {i \in Seats(w.t) : w.t.seats[i].kept = "bet"} = {}
  OBVIOUS
<1> QED BY <1>1, FS_EmptySet DEF BetsKept

\* The players are finitely many, and so are their bets.
LEMMA BetSetFinite ==
  ASSUME NEW w \in Work
  PROVE  /\ IsFiniteSet({j \in Seats(w.t) : w.t.seats[j].kept = "bet"})
         /\ IsFiniteSet(Seats(w.t)) /\ Cardinality(Seats(w.t)) = Len(w.t.seats)
         /\ BetsKept(w) \in Nat
<1>1. PICK n \in Nat : n = Len(w.t.seats)
  BY SeatFacts
<1>2. IsFiniteSet(Seats(w.t)) /\ Cardinality(Seats(w.t)) = Len(w.t.seats)
  <2>1. IsFiniteSet(1 .. n) /\ Cardinality(1 .. n) = n
    BY FS_Interval
  <2> QED BY <1>1, <2>1 DEF Seats
<1>3. {j \in Seats(w.t) : w.t.seats[j].kept = "bet"} \subseteq Seats(w.t)
  OBVIOUS
<1>4. IsFiniteSet({j \in Seats(w.t) : w.t.seats[j].kept = "bet"})
  BY <1>2, <1>3, FS_Subset
<1> QED BY <1>2, <1>4, FS_CardinalityType DEF BetsKept

\* The step of a living server leaves the table that it computes.
LEMMA Lands ==
  ASSUME NEW v \in Work, v.crashed = "no", Becomes(v)
  PROVE  crashed' = "no" /\ Now' = v /\ table' = v.t /\ told' = v.told
<1>1. table' = v.t /\ told' = v.told /\ crashed' = "no"
  BY DEF Becomes
<1>2. v = [t |-> v.t, told |-> v.told, crashed |-> "no"]
  BY DEF Work
<1> QED BY <1>1, <1>2 DEF Now

\* What a step keeps of a round: as long as the server lives the round goes on, and it
\* dies of a missing request only when that is late.
Late == \E i \in Seats(table) :
          InPlay(table.seats[i]) /\ told[table.seats[i].name] = "Refresh"
Kept == (crashed' = "no" => RoundOn') /\ (crashed' = "response" => Late')

\* The step of the one handler at work, or of the first that begins, leads to where it
\* goes on.
LEMMA Moves ==
  ASSUME at \in [Thread -> Cont], NEW th \in Thread,
         \A other \in Thread : at[other] # Idle => other = th,
         NEW v \in Work, v.crashed = "no", Becomes(v),
         NEW next, at' = [at EXCEPT ![th] = next], Round(v, next)
  PROVE  Kept
<1>1. crashed' = "no" /\ Now' = v
  BY Lands
<1>2. at'[th] = next /\ \A other \in Thread : other # th => at'[other] = Idle
  BY Zenon
<1>3. \A one, other \in Thread : at'[one] # Idle /\ at'[other] # Idle => one = other
  BY <1>2
<1>4. \A other \in Thread : at'[other] # Idle => Round(Now', at'[other])
  BY <1>1, <1>2
<1>5. ~(Working') => Round(Now', Idle)
  <2>1. ~(Working') => at'[th] = Idle
    BY DEF Working
  <2> QED BY <2>1, <1>1, <1>2
<1>6. RoundOn'
  <2>1. Idle' = Idle
    BY DEF Idle, At
  <2>2. \A other \in Thread : at'[other] # Idle => Round(Now, at[other])'
    BY <1>4 DEF Round, Betting, Playing, Staking, AllDealt, AllIdle, Turning, Paying
  <2> QED BY <1>3, <1>4, <1>5, <2>1 DEF RoundOn
<1> QED BY <1>1, <1>6 DEF Kept

\* So does the step of a request that is served at once.
LEMMA Stays ==
  ASSUME RoundOn, at' = at, NEW v \in Work, v.crashed = "no", Becomes(v),
         \A a : Round(Now, a) => Round(v, a)
  PROVE  Kept
<1>1. crashed' = "no" /\ Now' = v
  BY Lands
<1>2. Working' = Working
  BY DEF Working
<1>3. RoundOn'
  BY <1>1, <1>2 DEF RoundOn
<1> QED BY <1>1, <1>3 DEF Kept

\* A server that dies of something else than a missing request needs no round.
LEMMA DiesKeeps == ASSUME crashed' \notin {"no", "response"} PROVE Kept
BY DEF Kept

\* A table where the same players wait for the same, with the same bets and hands.
Likewise(v, w) ==
  /\ v.t.betting = w.t.betting /\ v.t.current = w.t.current /\ v.t.betsMade = w.t.betsMade
  /\ Len(v.t.seats) = Len(w.t.seats) /\ Seats(v.t) = Seats(w.t)
  /\ \A i \in Seats(w.t) :
       /\ v.t.seats[i].bet = w.t.seats[i].bet /\ v.t.seats[i].hand = w.t.seats[i].hand
       /\ w.t.betting => v.t.seats[i].insurance = w.t.seats[i].insurance
       /\ Called(w, i) => Called(v, i)
       /\ Placed(w, i) => Placed(v, i)
       /\ Idles(w, i) => Idles(v, i)
       /\ \A answer \in {"YourTurn", "nothing"} :
            Waits(w, i, answer, "none", "None") => Waits(v, i, answer, "none", "None")

\* The round stands where it stood.
LEMMA LikewiseRound ==
  ASSUME NEW v, NEW w, Likewise(v, w), NEW a, Round(w, a)
  PROVE  Round(v, a)
<1>1. /\ v.t.betting = w.t.betting /\ v.t.current = w.t.current /\ v.t.betsMade = w.t.betsMade
      /\ Len(v.t.seats) = Len(w.t.seats) /\ Seats(v.t) = Seats(w.t)
  BY DEF Likewise
<1>2. ASSUME NEW i \in Seats(w.t)
      PROVE  /\ v.t.seats[i].bet = w.t.seats[i].bet /\ v.t.seats[i].hand = w.t.seats[i].hand
             /\ w.t.betting => v.t.seats[i].insurance = w.t.seats[i].insurance
             /\ Called(w, i) => Called(v, i)
             /\ Placed(w, i) => Placed(v, i)
             /\ Idles(w, i) => Idles(v, i)
             /\ Waits(w, i, "YourTurn", "none", "None") => Waits(v, i, "YourTurn", "none", "None")
             /\ Waits(w, i, "nothing", "none", "None") => Waits(v, i, "nothing", "none", "None")
  BY DEF Likewise
<1>3. ASSUME NEW i \in Seats(w.t), w.t.betting, Bets(w, i)
      PROVE  Bets(v, i) /\ (v.t.seats[i].kept = "bet" <=> w.t.seats[i].kept = "bet")
  <2>1. CASE Called(w, i) /\ w.t.seats[i].bet = 0
    BY <2>1, <1>2, <1>3 DEF Bets, Called, Waits
  <2>2. CASE Placed(w, i) /\ w.t.seats[i].bet = Amount
    BY <2>2, <1>2, <1>3 DEF Bets, Placed, Waits
  <2> QED BY <2>1, <2>2, <1>3 DEF Bets
<1>4. ASSUME \A i \in Seats(w.t) : v.t.seats[i].kept = "bet" <=> w.t.seats[i].kept = "bet"
      PROVE  BetsKept(v) = BetsKept(w)
  <2>1. {i \in Seats(v.t) : v.t.seats[i].kept = "bet"} = {i \in Seats(w.t) : w.t.seats[i].kept = "bet"}
    BY <1>1, <1>4
  <2> QED BY <2>1 DEF BetsKept
<1>5. Betting(w) => Betting(v)
  BY <1>1, <1>3, <1>4 DEF Betting
<1>6. ASSUME NEW i, NEW counted, Staking(w, i, counted) PROVE Staking(v, i, counted)
  <2>1. /\ w.t.betting /\ i \in Seats(w.t) /\ Waits(w, i, "nothing", "none", "None")
        /\ w.t.seats[i].insurance = 0 /\ w.t.seats[i].bet = Amount
        /\ \A j \in Seats(w.t) : j # i => Bets(w, j)
    BY <1>6 DEF Staking
  <2>2. Waits(v, i, "nothing", "none", "None")
    BY <2>1, <1>2
  <2>3. v.t.seats[i].kept # "bet" /\ w.t.seats[i].kept # "bet"
    BY <2>1, <2>2 DEF Waits
  <2>4. BetsKept(v) = BetsKept(w)
    BY <2>1, <2>3, <1>3, <1>4
  <2> QED BY <2>1, <2>2, <2>4, <1>1, <1>2, <1>3, <1>6 DEF Staking
<1>7. AllDealt(w) => AllDealt(v)
  BY <1>1, <1>2 DEF AllDealt
<1>8. ASSUME NEW i, OthersIdle(w, i) PROVE OthersIdle(v, i) /\ i \in Seats(w.t)
  BY <1>1, <1>2, <1>8 DEF OthersIdle
<1>9. ASSUME NEW i \in Seats(w.t), HasTurn(w, i) PROVE HasTurn(v, i)
  BY <1>2, <1>9 DEF HasTurn, InPlay
<1>10. AllIdle(w) => AllIdle(v)
  BY <1>1, <1>2 DEF AllIdle
<1>11. Playing(w) => Playing(v)
  BY <1>1, <1>2, <1>8, <1>9 DEF Playing
<1>12. Turning(w, a.seat) => Turning(v, a.seat)
  BY <1>1, <1>8, <1>9, <1>10 DEF Turning
<1>13. Paying(w, a) => Paying(v, a)
  BY <1>1, <1>2 DEF Paying
<1> QED BY <1>1, <1>5, <1>6, <1>7, <1>10, <1>11, <1>12, <1>13 DEF Round

\* A refresh is kept or answered with the news, never both: a player who was called to
\* bet is told so, one that idles idles on.
LEMMA WaitKeeps ==
  ASSUME Base, crashed = "no", RoundOn, NEW c \in Client, Wait(c)
  PROVE  Kept
<1>1. told[c] = "Refresh" /\ Becomes(Waited(c)) /\ at' = at
  BY DEF Wait, Serves
<1>2. PICK v : v = Waited(c)
  OBVIOUS
<1>3. HasWaited(v, c)
  BY <1>1, <1>2, WaitedEffect
<1>4. PICK i : i = FindPlayer(c)
  OBVIOUS
<1>5. i \in Seats(table) /\ table.seats[i].name = c
  BY <1>1, <1>4, FindPlayerSeat
<1>6. Now \in Work /\ Now.t = table /\ Now.told = told /\ Seated(Now)
  BY NowWork DEF Now
<1>7. /\ v \in Work /\ v.crashed = "no"
      /\ v.t.betting = table.betting /\ v.t.current = table.current
      /\ v.t.betsMade = table.betsMade
      /\ Len(v.t.seats) = Len(table.seats) /\ Seats(v.t) = Seats(table)
      /\ v.t.seats[i].name = c /\ v.t.seats[i].hand = table.seats[i].hand
      /\ v.t.seats[i].bet = table.seats[i].bet /\ v.t.seats[i].insurance = table.seats[i].insurance
      /\ \A j \in Seats(table) : j # i => v.t.seats[j] = table.seats[j]
      /\ IF table.seats[i].pending = "None"
         THEN /\ v.t.seats[i].kept = "wait" /\ v.t.seats[i].pending = "None"
              /\ v.told = [told EXCEPT ![c] = "nothing"]
         ELSE /\ v.t.seats[i].kept = table.seats[i].kept /\ v.t.seats[i].pending = "None"
              /\ v.told = [told EXCEPT ![c] = table.seats[i].pending]
  BY <1>3, <1>4, <1>5 DEF HasWaited
<1>8. PICK answer : /\ answer = IF table.seats[i].pending = "None" THEN "nothing"
                                ELSE table.seats[i].pending
                    /\ v.told = [told EXCEPT ![c] = answer]
  BY <1>7
<1>9. /\ \A j \in Seats(table) : j # i => Left(v, Now, j)
      /\ v.told[c] = answer
  <2>1. /\ i \in Seats(Now.t) /\ Now.t.seats[i].name = c
        /\ v.told = [Now.told EXCEPT ![Now.t.seats[i].name] = answer]
        /\ \A j \in Seats(Now.t) : j # i => v.t.seats[j] = Now.t.seats[j]
    BY <1>5, <1>6, <1>7, <1>8
  <2>2. OneTold(v, Now, i, answer)
    BY <2>1, <1>6, OthersLeft
  <2> QED BY <2>1, <2>2, <1>6 DEF OneTold
<1>10. ASSUME NEW j \in Seats(table)
       PROVE  /\ Called(Now, j) => Called(v, j)
              /\ Placed(Now, j) => Placed(v, j)
              /\ Idles(Now, j) => Idles(v, j)
              /\ \A said \in {"YourTurn", "nothing"} :
                   Waits(Now, j, said, "none", "None") => Waits(v, j, said, "none", "None")
  <2>1. CASE j = i
    <3>1. told[table.seats[j].name] = "Refresh"
      BY <2>1, <1>1, <1>5
    <3>2. Called(Now, j) => Called(v, j)
      BY <2>1, <3>1, <1>5, <1>6, <1>7, <1>8, <1>9 DEF Called, Waits
    <3>3. Idles(Now, j) => Idles(v, j)
      BY <2>1, <3>1, <1>5, <1>6, <1>7, <1>8, <1>9 DEF Idles, Waits
    <3> QED BY <3>1, <3>2, <3>3, <1>6 DEF Placed, Waits
  <2>2. CASE j # i
    <3>1. Left(v, Now, j)
      BY <2>2, <1>9
    <3> QED BY <3>1, LeftStands DEF Left, Waits
  <2> QED BY <2>1, <2>2
<1>11. ASSUME NEW j \in Seats(table)
       PROVE  /\ v.t.seats[j].bet = table.seats[j].bet /\ v.t.seats[j].hand = table.seats[j].hand
              /\ v.t.seats[j].insurance = table.seats[j].insurance
  BY <1>7
<1>12. Likewise(v, Now)
  BY <1>6, <1>7, <1>10, <1>11 DEF Likewise
<1>13. \A a : Round(Now, a) => Round(v, a)
  BY <1>12, LikewiseRound
<1> QED BY <1>1, <1>2, <1>7, <1>13, Stays

\* An insurance is bought while cards are played, and passes no turn.
LEMMA InsureKeeps ==
  ASSUME Base, crashed = "no", RoundOn, NEW c \in Client, Insure(c)
  PROVE  Kept
<1>1. PICK v : HasInsured(v, c) /\ Serves(v)
  BY InsureEffect
<1>2. ~table.betting
  BY DEF Insure
<1>3. Becomes(v) /\ at' = at
  BY <1>1 DEF Serves
<1>4. PICK i : i = FindPlayer(c)
  OBVIOUS
<1>5. /\ v \in Work /\ v.crashed = "no" /\ v.told = told
      /\ v.t.betting = table.betting /\ v.t.current = table.current
      /\ v.t.betsMade = table.betsMade
      /\ Len(v.t.seats) = Len(table.seats) /\ Seats(v.t) = Seats(table)
      /\ \A j \in Seats(table) :
           /\ v.t.seats[j].name = table.seats[j].name /\ v.t.seats[j].hand = table.seats[j].hand
           /\ v.t.seats[j].bet = table.seats[j].bet
           /\ v.t.seats[j].kept = table.seats[j].kept
           /\ v.t.seats[j].pending = table.seats[j].pending
  BY <1>1, <1>4 DEF HasInsured
<1>6. Now.t = table /\ Now.told = told
  BY DEF Now
<1>7. ASSUME NEW j \in Seats(table)
      PROVE  \A answer, kept, pending :
               Waits(Now, j, answer, kept, pending) => Waits(v, j, answer, kept, pending)
  BY <1>5, <1>6 DEF Waits
<1>8. ASSUME NEW j \in Seats(table)
      PROVE  /\ Called(Now, j) => Called(v, j)
             /\ Placed(Now, j) => Placed(v, j)
             /\ Idles(Now, j) => Idles(v, j)
  BY <1>7, Zenon DEF Called, Placed, Idles
<1>9. Likewise(v, Now)
  BY <1>2, <1>5, <1>6, <1>7, <1>8 DEF Likewise
<1>10. \A a : Round(Now, a) => Round(v, a)
  BY <1>9, LikewiseRound
<1> QED BY <1>3, <1>5, <1>10, Stays

-----------------------------------------------------------------------------
(* Players come and bet                                                    *)

\* With nobody at work the table takes bets, or cards are played.
LEMMA IdleRound ==
  ASSUME RoundOn, ~Working
  PROVE  /\ Betting(Now) \/ Playing(Now)
         /\ table.betting => Betting(Now)
         /\ \A th \in Thread : at[th] = Idle
<1>1. Round(Now, Idle) /\ Now.t = table
  BY DEF RoundOn, Now
<1>2. Betting(Now) \/ Playing(Now)
  BY <1>1 DEF Round, Idle, At
<1> QED BY <1>1, <1>2 DEF Playing, OthersIdle, Working

\* A player who joins while bets are taken may place its bet like the others.
LEMMA JoinKeeps ==
  ASSUME Base, crashed = "no", RoundOn, NEW c \in Client, Join(c), ~Working, table.betting
  PROVE  Kept
<1>1. PICK v : v = Added(c)
  OBVIOUS
<1>2. told[c] = "away" /\ Becomes(v) /\ at' = at
  BY <1>1 DEF Join, Serves
<1>3. HasJoined(v, c)
  BY <1>1, <1>2, AddedEffect
<1>4. /\ Now.t = table /\ Now.told = told /\ table \in Table /\ told \in Told
      /\ table.seats \in Seq(Seat) /\ Seated(Now) /\ Len(table.seats) \in Nat
      /\ \A j \in Seats(table) : table.seats[j].name \in Client
  BY NowWork, SeatFacts DEF Now
<1>5. Betting(Now)
  BY IdleRound
<1>6. /\ v \in Work /\ v.crashed = "no" /\ v.t = [table EXCEPT !.seats = v.t.seats]
      /\ v.t.seats = Append(table.seats, NewSeat(c)) /\ v.told = [told EXCEPT ![c] = "PlaceBet"]
  BY <1>3 DEF HasJoined
<1>7. v.t.current = 0 /\ v.t.betting /\ v.t.betsMade = table.betsMade
  BY <1>4, <1>5, <1>6 DEF Betting, Table
<1>8. ASSUME NEW j \in Seats(v.t)
      PROVE  \/ j \in Seats(table) /\ v.t.seats[j] = table.seats[j]
             \/ j \notin Seats(table) /\ v.t.seats[j] = NewSeat(c)
  BY <1>4, <1>6 DEF Seats
<1>9. Seats(table) \subseteq Seats(v.t)
  BY <1>4, <1>6 DEF Seats
<1>10. ASSUME NEW j \in Seats(v.t)
       PROVE  Bets(v, j) /\ (j \notin Seats(table) => v.t.seats[j].kept # "bet")
  <2>1. CASE j \in Seats(table)
    <3>1. table.seats[j].name # c
      BY <2>1, <1>2, <1>4 DEF Seated
    <3>2. v.told[table.seats[j].name] = told[table.seats[j].name]
      BY <2>1, <3>1, <1>4, <1>6 DEF Told
    <3>3. Left(v, Now, j)
      BY <2>1, <3>2, <1>4, <1>8 DEF Left
    <3>4. Bets(Now, j)
      BY <2>1, <1>4, <1>5 DEF Betting
    <3> QED BY <2>1, <3>3, <3>4, LeftStands
  <2>2. CASE j \notin Seats(table)
    <3>1. v.t.seats[j] = NewSeat(c)
      BY <2>2, <1>8
    <3>2. v.told[c] = "PlaceBet"
      BY <1>4, <1>6 DEF Told
    <3> QED BY <2>2, <3>1, <3>2 DEF NewSeat, Bets, Called, Waits
  <2> QED BY <2>1, <2>2
<1>11. {j \in Seats(v.t) : v.t.seats[j].kept = "bet"}
         = {j \in Seats(table) : table.seats[j].kept = "bet"}
  BY <1>8, <1>9, <1>10
<1>12. v.t.betsMade = BetsKept(v)
  BY <1>4, <1>5, <1>7, <1>11 DEF Betting, BetsKept
<1>13. Betting(v)
  BY <1>7, <1>10, <1>12 DEF Betting
<1>14. crashed' = "no" /\ Now' = v
  BY <1>2, <1>6, Lands
<1>15. \A th \in Thread : at'[th] = Idle
  BY <1>2, IdleRound
<1>16. RoundOn'
  <2>1. Idle' = Idle /\ Idle.step = "idle"
    BY DEF Idle, At
  <2>2. Round(Now, Idle)'
    BY <1>13, <1>14, <2>1 DEF Round
  <2> QED BY <1>15, <2>1, <2>2 DEF RoundOn
<1> QED BY <1>14, <1>16 DEF Kept

\* A player who leaves before anyone has bet leaves a round of bets.
LEMMA LeaveKeeps ==
  ASSUME Base, crashed = "no", RoundOn, NEW c \in Client, Leave(c), ~Working, table.betting,
         table.betsMade = 0
  PROVE  Kept
<1>1. PICK v : v = Removed(c)
  OBVIOUS
<1>2. told[c] # "away" /\ Becomes(v) /\ at' = at
  BY <1>1 DEF Leave, Serves
<1>3. HasLeft(v, c)
  BY <1>1, <1>2, RemovedEffect
<1>4. /\ Now.t = table /\ Now.told = told /\ table \in Table /\ told \in Told /\ Now \in Work
      /\ table.seats \in Seq(Seat)
      /\ \A j \in Seats(table) : table.seats[j].name \in Client
  BY NowWork, SeatFacts DEF Now
<1>5. Betting(Now)
  BY IdleRound
<1>6. \A j \in Seats(table) : table.seats[j].kept # "bet"
  <2>1. Cardinality({j \in Seats(table) : table.seats[j].kept = "bet"}) = 0
    BY <1>4, <1>5 DEF Betting, BetsKept
  <2>2. IsFiniteSet({j \in Seats(table) : table.seats[j].kept = "bet"})
    BY <1>4, BetSetFinite
  <2>3. {j \in Seats(table) : table.seats[j].kept = "bet"} = {}
    BY <2>1, <2>2, FS_EmptySet
  <2> QED BY <2>3
<1>7. /\ v \in Work /\ v.crashed = "no" /\ v.t = [table EXCEPT !.seats = v.t.seats]
      /\ \A i \in Seats(v.t) : \E j \in Seats(table) :
           v.t.seats[i] = table.seats[j] /\ table.seats[j].name # c
      /\ v.told = [told EXCEPT ![c] = "away"]
  BY <1>3 DEF HasLeft
<1>8. v.t.current = 0 /\ v.t.betting /\ v.t.betsMade = 0
  BY <1>4, <1>5, <1>7 DEF Betting, Table
<1>9. ASSUME NEW i \in Seats(v.t) PROVE Bets(v, i) /\ v.t.seats[i].kept # "bet"
  <2>1. PICK j \in Seats(table) : v.t.seats[i] = table.seats[j] /\ table.seats[j].name # c
    BY <1>7
  <2>2. v.told[table.seats[j].name] = told[table.seats[j].name]
    BY <2>1, <1>4, <1>7 DEF Told
  <2>3. Bets(Now, j)
    BY <2>1, <1>4, <1>5 DEF Betting
  <2> QED BY <2>1, <2>2, <2>3, <1>4, <1>6 DEF Bets, Called, Placed, Waits
<1>10. v.t.betsMade = BetsKept(v)
  BY <1>8, <1>9, NoBets
<1>11. Betting(v)
  BY <1>8, <1>9, <1>10 DEF Betting
<1>12. crashed' = "no" /\ Now' = v
  BY <1>2, <1>7, Lands
<1>13. \A th \in Thread : at'[th] = Idle
  BY <1>2, IdleRound
<1>14. RoundOn'
  <2>1. Idle' = Idle /\ Idle.step = "idle"
    BY DEF Idle, At
  <2>2. Round(Now, Idle)'
    BY <1>11, <1>12, <2>1 DEF Round
  <2> QED BY <1>13, <2>1, <2>2 DEF RoundOn
<1> QED BY <1>12, <1>14 DEF Kept

\* A handler that begins alone.
LEMMA BeginsAlone ==
  ASSUME RoundOn, ~Working, at \in [Thread -> Cont], NEW th \in Thread,
         NEW v \in Work, v.crashed = "no", NEW next, Begins(th, v, next), Round(v, next)
  PROVE  Kept
<1>1. Becomes(v) /\ at' = [at EXCEPT ![th] = next]
  BY DEF Begins
<1>2. \A other \in Thread : at[other] # Idle => other = th
  BY DEF Working
<1> QED BY <1>1, <1>2, Moves

\* Bet() is begun by a player who was told to bet: the stake lies there with no request yet.
LEMMA BetKeeps ==
  ASSUME Base, at \in [Thread -> Cont], crashed = "no", RoundOn, ~Working,
         NEW th \in Thread, NEW c \in Client, Bet(th, c)
  PROVE  Kept
<1>1. told[c] = "PlaceBet"
  BY DEF Bet
<1>2. PICK i : i = FindPlayer(c)
  OBVIOUS
<1>3. i \in Seats(table) /\ table.seats[i].name = c
  BY <1>1, <1>2, FindPlayerSeat
<1>4. PICK next \in Cont : /\ next.step = "count" /\ next.seat = i /\ next.count = table.betsMade
                           /\ Begins(th, Staked(c), next)
  BY <1>2, BetBegins
<1>5. PICK v : v = Staked(c)
  OBVIOUS
<1>6. HasStaked(v, c)
  BY <1>1, <1>5, StakedEffect
<1>7. Now \in Work /\ Now.t = table /\ Now.told = told /\ Seated(Now)
  BY NowWork DEF Now
<1>8. /\ v \in Work /\ v.crashed = "no"
      /\ v.t.betting = table.betting /\ v.t.current = table.current
      /\ v.t.betsMade = table.betsMade /\ Seats(v.t) = Seats(table)
      /\ v.t.seats[i].name = c /\ v.t.seats[i].bet = table.seats[i].bet + Amount
      /\ v.t.seats[i].insurance = table.seats[i].insurance
      /\ v.t.seats[i].kept = table.seats[i].kept /\ v.t.seats[i].pending = table.seats[i].pending
      /\ \A j \in Seats(table) : j # i => v.t.seats[j] = table.seats[j]
      /\ v.told = [told EXCEPT ![c] = "nothing"]
  BY <1>2, <1>3, <1>6 DEF HasStaked
<1>9. Betting(Now)
  <2>1. ~Playing(Now)
    BY <1>1, <1>3, <1>7 DEF Playing, OthersIdle, Idles, HasTurn, Placed, Waits
  <2> QED BY <2>1, IdleRound
<1>10. /\ \A j \in Seats(table) : j # i => Left(v, Now, j)
       /\ v.told[c] = "nothing"
  <2>1. /\ i \in Seats(Now.t) /\ Now.t.seats[i].name = c
        /\ v.told = [Now.told EXCEPT ![Now.t.seats[i].name] = "nothing"]
        /\ \A j \in Seats(Now.t) : j # i => v.t.seats[j] = Now.t.seats[j]
    BY <1>3, <1>7, <1>8
  <2>2. OneTold(v, Now, i, "nothing")
    BY <2>1, <1>7, OthersLeft
  <2> QED BY <2>1, <2>2, <1>7 DEF OneTold
<1>11. /\ table.seats[i].bet = 0 /\ table.seats[i].insurance = 0
       /\ table.seats[i].kept = "none" /\ table.seats[i].pending = "None"
  BY <1>1, <1>3, <1>7, <1>9 DEF Betting, Bets, Called, Placed, Waits
<1>12. BetsKept(v) = BetsKept(Now)
  <2>1. \A j \in Seats(table) : v.t.seats[j].kept = table.seats[j].kept
    BY <1>8
  <2>2. {j \in Seats(v.t) : v.t.seats[j].kept = "bet"} = {j \in Seats(table) : table.seats[j].kept = "bet"}
    BY <2>1, <1>8
  <2> QED BY <2>2, <1>7 DEF BetsKept
<1>13. table.betting /\ table.current = 0 /\ table.betsMade = BetsKept(Now)
       /\ \A j \in Seats(table) : Bets(Now, j)
  BY <1>7, <1>9 DEF Betting
<1>14. \A j \in Seats(v.t) : j # i => Bets(v, j)
  BY <1>8, <1>10, <1>13, LeftStands
<1>15. Waits(v, i, "nothing", "none", "None") /\ v.t.seats[i].bet = Amount
       /\ v.t.seats[i].insurance = 0
  BY <1>8, <1>10, <1>11 DEF Waits, Amount
<1>16. v.t.betsMade = BetsKept(v) + 0
  <2>1. BetsKept(v) \in Nat
    BY <1>8, BetSetFinite
  <2> QED BY <2>1, <1>8, <1>12, <1>13
<1>17. Staking(v, i, 0)
  BY <1>3, <1>8, <1>13, <1>14, <1>15, <1>16 DEF Staking
<1>18. Round(v, next)
  BY <1>4, <1>8, <1>17 DEF Round
<1> QED BY <1>4, <1>5, <1>8, <1>18, BeginsAlone

-----------------------------------------------------------------------------
(* The handler at work goes on                                             *)

\* The round stands where the one handler at work goes on.
LEMMA AtWork ==
  ASSUME RoundOn, NEW th \in Thread, at[th].step # "idle"
  PROVE  /\ Round(Now, at[th]) /\ Now.t = table /\ Now.told = told
         /\ \A other \in Thread : at[other] # Idle => other = th
<1>1. at[th] # Idle
  BY DEF Idle, At
<1> QED BY <1>1 DEF RoundOn, Now

\* It goes on alone.
LEMMA GoesAlone ==
  ASSUME RoundOn, at \in [Thread -> Cont], NEW th \in Thread, at[th].step # "idle",
         NEW v \in Work, v.crashed = "no", NEW next, GoesOn(th, v, next), Round(v, next)
  PROVE  Kept
<1>1. Becomes(v) /\ at' = [at EXCEPT ![th] = next]
  BY DEF GoesOn
<1>2. \A other \in Thread : at[other] # Idle => other = th
  BY AtWork
<1> QED BY <1>1, <1>2, Moves

\* ... or the server dies of the shoe.
LEMMA GoesDead ==
  ASSUME NEW th, NEW v, v.crashed \notin {"no", "response"}, NEW next, GoesOn(th, v, next)
  PROVE  Kept
BY DiesKeeps DEF GoesOn, Becomes

\* The bet is counted.
LEMMA CountKeeps ==
  ASSUME Base, at \in [Thread -> Cont], crashed = "no", RoundOn, NEW th \in Thread, Count(th)
  PROVE  Kept
<1>1. Now \in Work /\ Now.crashed = "no" /\ Seated(Now)
  BY NowWork DEF Now
<1>2. at[th].step = "count"
  BY DEF Count
<1>3. Staking(Now, at[th].seat, 0) /\ at[th].count = table.betsMade
  BY <1>2, AtWork DEF Round
<1>4. PICK n \in Nat : n = at[th].count + 1
  BY DEF Cont
<1>5. PICK v : v = [Now EXCEPT !.t.betsMade = n]
  OBVIOUS
<1>6. /\ KeepsSeats(v, Now) /\ v.crashed = "no" /\ v.t.betsMade = n
      /\ v.t.betting = Now.t.betting /\ v.t.current = Now.t.current
  BY <1>1, <1>5, BetsMadeSet
<1>7. PICK next : next = At("keep", at[th].seat)
  OBVIOUS
<1>8. next.step = "keep" /\ next.seat = at[th].seat
  BY <1>7 DEF At
<1>9. GoesOn(th, v, next)
  BY <1>4, <1>5, <1>7, Zenon DEF Count
<1>10. /\ Seats(v.t) = Seats(Now.t) /\ \A i \in Seats(Now.t) : Left(v, Now, i)
       /\ BetsKept(v) = BetsKept(Now)
  BY <1>6, KeptLeft
<1>11. v.t.betsMade = BetsKept(v) + 1
  <2>1. BetsKept(Now) \in Nat
    BY <1>1, BetSetFinite
  <2>2. table.betsMade = BetsKept(Now) + 0
    BY <1>3 DEF Staking, Now
  <2> QED BY <2>1, <2>2, <1>3, <1>4, <1>6, <1>10
<1>12. \A i \in Seats(Now.t) : Bets(Now, i) => Bets(v, i)
  BY <1>10, LeftStands
<1>13. Staking(v, at[th].seat, 1)
  BY <1>3, <1>6, <1>10, <1>11, <1>12 DEF Staking, Left, Waits
<1>14. v \in Work /\ Round(v, next)
  BY <1>6, <1>8, <1>13 DEF Round, KeepsSeats
<1> QED BY <1>2, <1>6, <1>9, <1>14, GoesAlone

\* The request is kept: one more that waits, after one more that was counted.
LEMMA KeepBetKeeps ==
  ASSUME Base, at \in [Thread -> Cont], crashed = "no", RoundOn, NEW th \in Thread, KeepBet(th)
  PROVE  Kept
<1>1. Now \in Work /\ Now.crashed = "no" /\ Seated(Now) /\ Now.t = table
  BY NowWork DEF Now
<1>2. at[th].step = "keep"
  BY DEF KeepBet
<1>3. PICK i : i = at[th].seat
  OBVIOUS
<1>4. Staking(Now, i, 1)
  BY <1>2, <1>3, AtWork DEF Round
<1>5. i \in Seats(table) /\ table.seats[i] \in Seat
  BY <1>1, <1>4, SeatFacts DEF Staking
<1>6. PICK seat : seat = [table.seats[i] EXCEPT !.kept = "bet"]
  OBVIOUS
<1>7. /\ seat \in Seat /\ seat.name = table.seats[i].name /\ seat.kept = "bet"
      /\ seat.pending = table.seats[i].pending /\ seat.bet = table.seats[i].bet
      /\ seat.insurance = table.seats[i].insurance
  BY <1>5, <1>6 DEF Seat
<1>8. PICK v : v = [Now EXCEPT !.t.seats[i] = seat]
  OBVIOUS
<1>9. Reseated(v, Now, i, seat)
  BY <1>1, <1>5, <1>7, <1>8, SeatReplaced
<1>10. PICK next : next = At("check", 0)
  OBVIOUS
<1>11. next.step = "check"
  BY <1>10 DEF At
<1>12. GoesOn(th, v, next)
  <2>1. v = [Now EXCEPT !.t.seats[i].kept = "bet"]
    BY <1>1, <1>6, <1>8, Zenon
  <2> QED BY <2>1, <1>3, <1>5, <1>10 DEF KeepBet
<1>13. /\ v \in Work /\ v.crashed = "no" /\ v.told = told /\ v.t.betting = table.betting
       /\ v.t.current = table.current /\ v.t.betsMade = table.betsMade
       /\ Seats(v.t) = Seats(table) /\ v.t.seats[i] = seat
       /\ \A j \in Seats(table) : j # i => v.t.seats[j] = table.seats[j]
  BY <1>1, <1>9 DEF Reseated, Now
<1>14. /\ table.betting /\ table.current = 0
       /\ told[table.seats[i].name] = "nothing" /\ table.seats[i].kept = "none"
       /\ table.seats[i].pending = "None" /\ table.seats[i].insurance = 0
       /\ table.seats[i].bet = Amount
       /\ \A j \in Seats(table) : j # i => Bets(Now, j)
       /\ table.betsMade = BetsKept(Now) + 1
  BY <1>1, <1>4 DEF Staking, Waits, Now
<1>15. Bets(v, i)
  BY <1>7, <1>13, <1>14 DEF Bets, Placed, Waits
<1>16. \A j \in Seats(table) : j # i => Bets(v, j)
  <2>1. \A j \in Seats(table) : j # i => Left(v, Now, j)
    BY <1>1, <1>13 DEF Left, Now
  <2> QED BY <2>1, <1>14, LeftStands
<1>17. BetsKept(v) = BetsKept(Now) + 1
  <2>1. PICK bets : bets = {j \in Seats(table) : table.seats[j].kept = "bet"}
    OBVIOUS
  <2>2. PICK more : more = {j \in Seats(v.t) : v.t.seats[j].kept = "bet"}
    OBVIOUS
  <2>3. more = bets \cup {i} /\ i \notin bets
    BY <2>1, <2>2, <1>5, <1>7, <1>13, <1>14
  <2>4. IsFiniteSet(bets)
    BY <2>1, <1>1, BetSetFinite
  <2>5. Cardinality(more) = Cardinality(bets) + 1
    BY <2>3, <2>4, FS_AddElement
  <2> QED BY <2>1, <2>2, <2>5, <1>1 DEF BetsKept
<1>18. Betting(v)
  BY <1>13, <1>14, <1>15, <1>16, <1>17 DEF Betting
<1>19. Round(v, next)
  BY <1>5, <1>11, <1>13, <1>18 DEF Round
<1> QED BY <1>2, <1>12, <1>13, <1>19, GoesAlone

\* When the count is that of the players, all of them wait for the answer to a bet.
LEMMA DealCardsKeeps ==
  ASSUME Base, at \in [Thread -> Cont], crashed = "no", RoundOn, NEW th \in Thread, DealCards(th)
  PROVE  Kept
<1>1. Now \in Work /\ Now.crashed = "no" /\ Seated(Now) /\ Now.t = table
  BY NowWork DEF Now
<1>2. at[th].step = "check" /\ table.betsMade = Len(table.seats)
  BY DEF DealCards
<1>3. Betting(Now) /\ Seats(table) # {}
  BY <1>1, <1>2, AtWork DEF Round
<1>4. \A j \in Seats(table) : table.seats[j].kept = "bet"
  <2>1. PICK bets : bets = {j \in Seats(table) : table.seats[j].kept = "bet"}
    OBVIOUS
  <2>2. PICK S : S = Seats(table)
    OBVIOUS
  <2>3. /\ IsFiniteSet(S) /\ Cardinality(S) = Len(table.seats) /\ bets \subseteq S
        /\ Cardinality(bets) = table.betsMade
    BY <2>1, <2>2, <1>1, <1>3, BetSetFinite DEF Betting, BetsKept
  <2>4. bets = S
    BY <2>3, <1>2, FS_Subset
  <2> QED BY <2>1, <2>2, <2>4
<1>5. \A j \in Seats(table) : Placed(Now, j) /\ table.seats[j].bet = Amount
  <2>1. \A j \in Seats(table) : Bets(Now, j)
    BY <1>1, <1>3 DEF Betting
  <2> QED BY <2>1, <1>1, <1>4 DEF Bets, Called, Waits
<1>6. PICK cards \in [0 .. Len(table.seats) -> CardValues \X CardValues] :
        GoesOn(th, Deal(Now, cards), At("ask", 0))
  BY DEF DealCards
<1>7. PICK v : v = Deal(Now, cards)
  OBVIOUS
<1>8. Dealt(v, Now)
  BY <1>1, <1>7, DealEffect
<1>9. PICK next : next = At("ask", 0)
  OBVIOUS
<1>10. GoesOn(th, v, next) /\ next.step = "ask"
  BY <1>6, <1>7, <1>9 DEF At
<1>11. CASE v.crashed = "shoe"
  BY <1>10, <1>11, GoesDead
<1>12. CASE v.crashed = "no"
  <2>1. /\ v \in Work /\ v.told = told /\ ~v.t.betting /\ v.t.current = 0
        /\ Seats(v.t) = Seats(table)
    BY <1>8 DEF Dealt, Now, Seats
  <2>2. ASSUME NEW j \in Seats(table)
        PROVE  /\ v.t.seats[j].bet > 0 /\ Placed(v, j)
               /\ v.t.seats[j].hand.state \in {"BlackJack", "Active"}
    <3>1. /\ v.t.seats[j].name = table.seats[j].name /\ v.t.seats[j].bet = table.seats[j].bet
          /\ v.t.seats[j].kept = table.seats[j].kept /\ v.t.seats[j].pending = table.seats[j].pending
          /\ table.seats[j].bet > 0 => v.t.seats[j].hand.state \in {"BlackJack", "Active"}
      BY <1>1, <1>8 DEF Dealt
    <3> QED BY <3>1, <2>1, <1>1, <1>5 DEF Placed, Waits, Now, Amount
  <2>3. AllDealt(v)
    BY <2>1, <2>2, <1>3 DEF AllDealt
  <2>4. Round(v, next)
    BY <2>3, <1>10 DEF Round
  <2> QED BY <2>1, <2>4, <1>2, <1>10, <1>12, GoesAlone
<1> QED BY <1>1, <1>8, <1>11, <1>12 DEF Dealt

\* A player with a request that is asked has the turn, and the others are left alone.
TurnPassed(v, w, i) ==
  /\ v \in Work /\ v.crashed = w.crashed
  /\ v.t.betting = w.t.betting /\ v.t.current = w.t.current
  /\ Len(v.t.seats) = Len(w.t.seats) /\ Seats(v.t) = Seats(w.t)
  /\ Waits(v, i, "YourTurn", "none", "None")
  /\ \A j \in Seats(w.t) : j # i => Left(v, w, j)
  /\ \A j \in Seats(w.t) : v.t.seats[j].bet = w.t.seats[j].bet
                           /\ v.t.seats[j].hand = w.t.seats[j].hand

\* YourTurn passes the turn to a player whose request is there.
LEMMA AskedHasTurn ==
  ASSUME NEW w \in Work, Seated(w), NEW i \in Seats(w.t), NEW v, AskedNext(v, w, i),
         w.t.seats[i].kept # "none", w.t.seats[i].pending = "None"
  PROVE  TurnPassed(v, w, i)
<1>1. /\ v \in Work /\ v.crashed = w.crashed
      /\ v.t = [w.t EXCEPT !.seats = v.t.seats]
      /\ v.t.seats = [w.t.seats EXCEPT ![i].kept = "none"]
      /\ v.told = [w.told EXCEPT ![w.t.seats[i].name] = "YourTurn"]
  BY DEF AskedNext
<1>2. /\ w.t \in Table /\ w.t.seats \in Seq(Seat) /\ DOMAIN w.t.seats = Seats(w.t)
      /\ w.t.seats[i] \in Seat
  BY SeatFacts
<1>3. v.t.betting = w.t.betting /\ v.t.current = w.t.current
  BY <1>1, <1>2 DEF Table
<1>4. Len(v.t.seats) = Len(w.t.seats)
  BY <1>1, <1>2
<1>5. Seats(v.t) = Seats(w.t)
  BY <1>4 DEF Seats
<1>6. \A j \in Seats(w.t) : j # i => v.t.seats[j] = w.t.seats[j]
  BY <1>1, <1>2
<1>7. v.t.seats[i] = [w.t.seats[i] EXCEPT !.kept = "none"]
  BY <1>1, <1>2
<1>8. /\ v.t.seats[i].name = w.t.seats[i].name /\ v.t.seats[i].kept = "none"
      /\ v.t.seats[i].pending = "None" /\ v.t.seats[i].bet = w.t.seats[i].bet
      /\ v.t.seats[i].hand = w.t.seats[i].hand
  BY <1>2, <1>7 DEF Seat
<1>9. OneTold(v, w, i, "YourTurn")
  BY <1>1, <1>6, OthersLeft
<1>10. Waits(v, i, "YourTurn", "none", "None") /\ \A j \in Seats(w.t) : j # i => Left(v, w, j)
  BY <1>8, <1>9 DEF OneTold, Waits
<1>11. \A j \in Seats(w.t) : v.t.seats[j].bet = w.t.seats[j].bet
                             /\ v.t.seats[j].hand = w.t.seats[j].hand
  BY <1>6, <1>8
<1> QED BY <1>1, <1>3, <1>4, <1>5, <1>10, <1>11 DEF TurnPassed

\* The others are told to look at the table: those that idled or waited for their bet idle.
OthersLook(v, w) ==
  /\ v \in Work /\ v.crashed = w.crashed
  /\ v.t.betting = w.t.betting /\ v.t.current = w.t.current
  /\ Len(v.t.seats) = Len(w.t.seats) /\ Seats(v.t) = Seats(w.t)
  /\ Left(v, w, w.t.current)
  /\ \A j \in Seats(w.t) :
       /\ v.t.seats[j].bet = w.t.seats[j].bet /\ v.t.seats[j].hand = w.t.seats[j].hand
       /\ j # w.t.current /\ (Idles(w, j) \/ Placed(w, j)) => Idles(v, j)

\* The loop at the end of Deal() and Hit() does so.
LEMMA OthersToLook ==
  ASSUME NEW w \in Work, Seated(w), w.crashed = "no", w.t.current \in Seats(w.t)
  PROVE  OthersLook(TellOthers(w), w)
<1>1. PICK i : i = w.t.current
  OBVIOUS
<1>2. PICK v : v = TellOthers(w)
  OBVIOUS
<1>3. Notified(v, w, Seats(w.t) \ {i}, "Refresh")
  BY <1>1, <1>2, TellOthersEffect
<1>4. /\ v \in Work /\ v.crashed = w.crashed /\ v.t = [w.t EXCEPT !.seats = v.t.seats]
      /\ Len(v.t.seats) = Len(w.t.seats)
      /\ \A j \in Seats(w.t) :
           v.t.seats[j] = IF j \notin Seats(w.t) \ {i} THEN w.t.seats[j]
                          ELSE IF w.t.seats[j].kept # "none"
                               THEN [w.t.seats[j] EXCEPT !.kept = "none"]
                               ELSE [w.t.seats[j] EXCEPT !.pending = "Refresh"]
      /\ \A c \in Client :
           v.told[c] = IF \E j \in Seats(w.t) \ {i} :
                            w.t.seats[j].kept # "none" /\ w.t.seats[j].name = c
                       THEN "Refresh" ELSE w.told[c]
  BY <1>3 DEF Notified
<1>5. /\ w.t \in Table
      /\ \A j \in Seats(w.t) : w.t.seats[j] \in Seat /\ w.t.seats[j].name \in Client
      /\ \A j, k \in Seats(w.t) : w.t.seats[j].name = w.t.seats[k].name => j = k
  BY SeatFacts DEF Seated
<1>6. v.t.betting = w.t.betting /\ v.t.current = w.t.current
  BY <1>4, <1>5 DEF Table
<1>7. Seats(v.t) = Seats(w.t)
  BY <1>4 DEF Seats
<1>8. Left(v, w, i)
  <2>1. v.t.seats[i] = w.t.seats[i]
    BY <1>1, <1>4
  <2>2. v.told[w.t.seats[i].name] = w.told[w.t.seats[i].name]
    BY <1>1, <1>4, <1>5
  <2> QED BY <2>1, <2>2 DEF Left
<1>9. ASSUME NEW j \in Seats(w.t)
      PROVE  /\ v.t.seats[j].bet = w.t.seats[j].bet /\ v.t.seats[j].hand = w.t.seats[j].hand
             /\ j # i /\ (Idles(w, j) \/ Placed(w, j)) => Idles(v, j)
  <2>1. CASE j = i
    BY <2>1, <1>8 DEF Left
  <2>2. CASE j # i
    <3>1. v.told[w.t.seats[j].name] = IF w.t.seats[j].kept # "none" THEN "Refresh"
                                      ELSE w.told[w.t.seats[j].name]
      BY <2>2, <1>4, <1>5
    <3>2. v.t.seats[j] = IF w.t.seats[j].kept # "none" THEN [w.t.seats[j] EXCEPT !.kept = "none"]
                         ELSE [w.t.seats[j] EXCEPT !.pending = "Refresh"]
      BY <2>2, <1>4
    <3>3. /\ v.t.seats[j].name = w.t.seats[j].name /\ v.t.seats[j].bet = w.t.seats[j].bet
          /\ v.t.seats[j].hand = w.t.seats[j].hand /\ v.t.seats[j].kept = "none"
          /\ v.t.seats[j].pending = IF w.t.seats[j].kept # "none" THEN w.t.seats[j].pending
                                    ELSE "Refresh"
      BY <3>2, <1>5 DEF Seat
    <3>4. Idles(w, j) \/ Placed(w, j) => Idles(v, j)
      BY <3>1, <3>3 DEF Idles, Placed, Waits
    <3> QED BY <3>3, <3>4
  <2> QED BY <2>1, <2>2
<1>10. OthersLook(v, w)
  BY <1>1, <1>4, <1>6, <1>7, <1>8, <1>9 DEF OthersLook
<1> QED BY <1>2, <1>10

\* A table where all wait for the answer to their bets, with the one asked who can play,
\* is played on after that.
LEMMA LookPlaying ==
  ASSUME NEW w \in Work, Seated(w), w.crashed = "no", ~w.t.betting, w.t.current \in Seats(w.t),
         \A j \in Seats(w.t) : /\ w.t.seats[j].bet > 0
                               /\ j # w.t.current => Idles(w, j) \/ Placed(w, j),
         \/ HasTurn(w, w.t.current)
         \/ /\ Placed(w, w.t.current)
            /\ \A j \in Seats(w.t) : w.t.seats[j].hand.state = "BlackJack",
         NEW v, OthersLook(v, w)
  PROVE  Playing(v)
<1>1. /\ v.t.betting = w.t.betting /\ v.t.current = w.t.current /\ Seats(v.t) = Seats(w.t)
      /\ Left(v, w, w.t.current)
      /\ \A j \in Seats(w.t) :
           /\ v.t.seats[j].bet = w.t.seats[j].bet /\ v.t.seats[j].hand = w.t.seats[j].hand
           /\ j # w.t.current /\ (Idles(w, j) \/ Placed(w, j)) => Idles(v, j)
  BY DEF OthersLook
<1>2. OthersIdle(v, v.t.current)
  BY <1>1 DEF OthersIdle
<1>3. HasTurn(w, w.t.current) => HasTurn(v, v.t.current)
  BY <1>1, LeftStands
<1>4. Placed(w, w.t.current) => Placed(v, v.t.current)
  BY <1>1, LeftStands
<1>5. (\A j \in Seats(w.t) : w.t.seats[j].hand.state = "BlackJack")
        => \A j \in Seats(v.t) : v.t.seats[j].hand.state = "BlackJack"
  BY <1>1
<1> QED BY <1>2, <1>3, <1>4, <1>5 DEF Playing

\* Deal() finds a request of everyone it asks.
LEMMA AskFirstKeeps ==
  ASSUME Base, at \in [Thread -> Cont], crashed = "no", RoundOn, NEW th \in Thread, AskFirst(th)
  PROVE  Kept
<1>1. Now \in Work /\ Now.crashed = "no" /\ Seated(Now) /\ Now.t = table
  BY NowWork DEF Now
<1>2. at[th].step = "ask"
  BY DEF AskFirst
<1>3. AllDealt(Now)
  BY <1>2, AtWork DEF Round
<1>4. /\ ~table.betting /\ Seats(table) # {}
      /\ \A i \in Seats(table) :
           /\ table.seats[i].bet > 0 /\ Placed(Now, i)
           /\ table.seats[i].hand.state \in {"BlackJack", "Active"}
  BY <1>1, <1>3 DEF AllDealt
<1>5. PICK w : w = FirstPlayer(Now)
  OBVIOUS
<1>6. PICK next : next = At("test", 0)
  OBVIOUS
<1>7. PICK v : v = TellOthers(w)
  OBVIOUS
<1>8. GoesOn(th, v, next) /\ next.step = "test"
  BY <1>5, <1>6, <1>7 DEF AskFirst, At
<1>9. ASSUME /\ w \in Work /\ Seated(w) /\ w.crashed = "no" /\ ~w.t.betting
             /\ w.t.current \in Seats(w.t)
             /\ \A j \in Seats(w.t) : /\ w.t.seats[j].bet > 0
                                      /\ j # w.t.current => Placed(w, j)
             /\ \/ HasTurn(w, w.t.current)
                \/ /\ Placed(w, w.t.current)
                   /\ \A j \in Seats(w.t) : w.t.seats[j].hand.state = "BlackJack"
      PROVE  Kept
  <2>1. OthersLook(v, w)
    BY <1>7, <1>9, OthersToLook
  <2>2. Playing(v)
    BY <2>1, <1>9, LookPlaying
  <2>3. v \in Work /\ v.crashed = "no" /\ Round(v, next)
    BY <2>1, <2>2, <1>8, <1>9 DEF OthersLook, Round
  <2> QED BY <2>3, <1>2, <1>8, GoesAlone
<1>10. Sound(w)
  BY <1>1, <1>5, FirstPlayerEffect
<1>11. CASE /\ \A i \in Seats(table) : ~InPlay(table.seats[i])
            /\ KeepsSeats(w, Now) /\ w.crashed = "no" /\ w.t.current = Len(table.seats)
            /\ w.t.betting = table.betting
  <2>1. /\ Seats(w.t) = Seats(table) /\ w.t.seats = table.seats
        /\ \A i \in Seats(table) : Left(w, Now, i)
    BY <1>1, <1>11, KeptLeft DEF KeepsSeats
  <2>2. w \in Work /\ Seated(w)
    BY <1>1, <1>11 DEF KeepsSeats
  <2>3. w.t.current \in Seats(w.t)
    <3>1. Len(table.seats) \in Nat
      BY <1>1, SeatFacts
    <3> QED BY <3>1, <2>1, <1>4, <1>11 DEF Seats
  <2>4. \A i \in Seats(table) : table.seats[i].hand.state = "BlackJack"
    BY <1>4, <1>11 DEF InPlay
  <2>5. \A i \in Seats(table) : Placed(w, i)
    BY <2>1, <1>4, LeftStands
  <2> QED BY <2>1, <2>2, <2>3, <2>4, <2>5, <1>4, <1>9, <1>11
<1>12. CASE \E i \in Seats(table) : InPlay(table.seats[i]) /\ Asked(w, Now, i)
  <2>1. PICK i \in Seats(table) : InPlay(table.seats[i]) /\ Asked(w, Now, i)
    BY <1>12
  <2>2. PICK u : /\ KeepsSeats(u, Now) /\ u.crashed = "no" /\ u.t.current = i
                 /\ u.t.betting = table.betting /\ AskedNext(w, u, i)
    BY <2>1, <1>1 DEF Asked
  <2>3. /\ u \in Work /\ Seated(u) /\ Seats(u.t) = Seats(table) /\ u.t.seats = table.seats
        /\ \A j \in Seats(table) : Left(u, Now, j)
    BY <2>2, <1>1, KeptLeft DEF KeepsSeats
  <2>4. \A j \in Seats(table) : Placed(u, j)
    BY <2>3, <1>4, LeftStands
  <2>5. u.t.seats[i].kept # "none" /\ u.t.seats[i].pending = "None"
    BY <2>1, <2>4 DEF Placed, Waits
  <2>6. TurnPassed(w, u, i)
    BY <2>1, <2>2, <2>3, <2>5, AskedHasTurn
  <2>7. /\ w \in Work /\ w.crashed = "no" /\ ~w.t.betting /\ w.t.current = i
        /\ Seats(w.t) = Seats(table) /\ Waits(w, i, "YourTurn", "none", "None")
        /\ \A j \in Seats(table) : j # i => Left(w, u, j)
        /\ \A j \in Seats(table) : w.t.seats[j].bet = table.seats[j].bet
                                   /\ w.t.seats[j].hand = table.seats[j].hand
    BY <2>2, <2>3, <2>6, <1>4 DEF TurnPassed
  <2>8. \A j \in Seats(table) : j # i => Placed(w, j)
    BY <2>4, <2>7, LeftStands
  <2>9. HasTurn(w, i)
    BY <2>1, <2>7 DEF HasTurn, InPlay
  <2>10. Seated(w)
    BY <2>7, <1>10 DEF Sound
  <2> QED BY <2>1, <2>7, <2>8, <2>9, <2>10, <1>4, <1>9
<1>13. \/ /\ \A i \in Seats(table) : ~InPlay(table.seats[i])
          /\ KeepsSeats(w, Now) /\ w.crashed = "no" /\ w.t.current = Len(table.seats)
          /\ w.t.betting = table.betting
       \/ \E i \in Seats(table) : InPlay(table.seats[i]) /\ Asked(w, Now, i)
  BY <1>1, <1>5, FirstPlayerEffect
<1> QED BY <1>11, <1>12, <1>13

\* The rest of Hit() tells the others, who idle.
LEMMA HitOthersKeeps ==
  ASSUME Base, at \in [Thread -> Cont], crashed = "no", RoundOn, NEW th \in Thread, HitOthers(th)
  PROVE  Kept
<1>1. Now \in Work /\ Now.crashed = "no" /\ Seated(Now) /\ Now.t = table
  BY NowWork DEF Now
<1>2. at[th].step = "others"
  BY DEF HitOthers
<1>3. Playing(Now)
  BY <1>2, AtWork DEF Round
<1>4. PICK v : v = TellOthers(Now)
  OBVIOUS
<1>5. /\ ~table.betting /\ table.current \in Seats(table)
      /\ \A j \in Seats(table) : table.seats[j].bet > 0 /\ (j # table.current => Idles(Now, j))
      /\ \/ HasTurn(Now, table.current)
         \/ /\ Placed(Now, table.current)
            /\ \A j \in Seats(table) : table.seats[j].hand.state = "BlackJack"
  BY <1>1, <1>3 DEF Playing, OthersIdle
<1>6. OthersLook(v, Now)
  BY <1>1, <1>4, <1>5, OthersToLook
<1>7. Playing(v)
  BY <1>1, <1>5, <1>6, LookPlaying
<1>8. v \in Work /\ v.crashed = "no" /\ Round(v, Idle)
  BY <1>1, <1>6, <1>7 DEF OthersLook, Round, Idle, At
<1>9. GoesOn(th, v, Idle)
  BY <1>4 DEF HitOthers
<1> QED BY <1>2, <1>8, <1>9, GoesAlone

\* m_currentPlayer is not past the players.
LEMMA NobodyPastKeeps ==
  ASSUME Base, at \in [Thread -> Cont], crashed = "no", RoundOn, NEW th \in Thread, NobodyPast(th)
  PROVE  Kept
<1>1. Now \in Work /\ Now.crashed = "no"
  BY NowWork DEF Now
<1>2. at[th].step \in {"check", "test"} /\ GoesOn(th, Now, Idle)
  BY DEF NobodyPast
<1>3. Betting(Now) \/ Playing(Now)
  BY <1>2, AtWork DEF Round
<1>4. Round(Now, Idle)
  BY <1>3 DEF Round, Idle, At
<1> QED BY <1>1, <1>2, <1>4, GoesAlone

\* That it is past them Bet() never finds: a deal leaves it at a player.
LEMMA PastPlayersNever ==
  ASSUME Base, crashed = "no", RoundOn, NEW th \in Thread, PastPlayers(th)
  PROVE  FALSE
<1>1. at[th].step \in {"check", "test"} /\ table.current = Len(table.seats) + 1
  BY DEF PastPlayers
<1>2. (Betting(Now) \/ Playing(Now)) /\ Now.t = table
  BY <1>1, AtWork DEF Round
<1>3. table.current = 0 \/ table.current \in Seats(table)
  BY <1>2 DEF Betting, Playing, OthersIdle
<1>4. Len(table.seats) \in Nat
  BY DEF Base, Table
<1> QED BY <1>1, <1>3, <1>4 DEF Seats

\* NextPlayer() dies only of a player whose next refresh is on its way, or the one that
\* it asks has the turn.
LEMMA NextPlayerKeeps ==
  ASSUME Base, at \in [Thread -> Cont], crashed = "no", RoundOn, NEW th \in Thread, NextPlayer(th)
  PROVE  Kept
<1>1. Now \in Work /\ Now.crashed = "no" /\ Seated(Now) /\ Now.t = table /\ Now.told = told
  BY NowWork DEF Now
<1>2. at[th].step = "next"
  BY DEF NextPlayer
<1>3. AllIdle(Now) /\ table.current \in Seats(table)
  BY <1>1, <1>2, AtWork DEF Round
<1>4. CASE GoesOn(th, Now, At("assign", Len(table.seats) + 1))
  <2>1. PICK next : next = At("assign", Len(table.seats) + 1)
    OBVIOUS
  <2>2. next.step = "assign" /\ next.seat = Len(table.seats) + 1
    BY <2>1 DEF At
  <2>3. Turning(Now, next.seat)
    BY <2>2, <1>1, <1>3 DEF Turning
  <2>4. Round(Now, next)
    BY <2>2, <2>3 DEF Round
  <2> QED BY <2>1, <2>4, <1>1, <1>2, <1>4, GoesAlone
<1>5. ASSUME NEW i \in Seats(table), NEW v, InPlay(table.seats[i]),
             AskedNext(v, Now, i), GoesOn(th, v, At("assign", i))
      PROVE  Kept
  <2>1. ~table.betting /\ \A j \in Seats(table) : table.seats[j].bet > 0 /\ Idles(Now, j)
    BY <1>1, <1>3 DEF AllIdle
  <2>2. CASE table.seats[i].kept = "none"
    <3>1. v.crashed = "response"
      BY <2>2, <1>1, <1>5 DEF AskedNext
    <3>2. told[table.seats[i].name] = "Refresh"
      BY <2>1, <2>2, <1>1 DEF Idles, Waits
    <3>3. crashed' = "response" /\ table' = table /\ told' = told
      BY <3>1, <1>5 DEF GoesOn, Becomes
    <3>4. Late
      BY <3>2, <1>5 DEF Late
    <3> QED BY <3>3, <3>4 DEF Kept, Late
  <2>3. CASE table.seats[i].kept # "none"
    <3>1. table.seats[i].pending = "None"
      BY <2>1, <2>3, <1>1 DEF Idles, Waits
    <3>2. TurnPassed(v, Now, i)
      BY <3>1, <2>3, <1>1, <1>5, AskedHasTurn
    <3>3. /\ v \in Work /\ v.crashed = "no" /\ ~v.t.betting /\ v.t.current = table.current
          /\ Seats(v.t) = Seats(table) /\ Waits(v, i, "YourTurn", "none", "None")
          /\ \A j \in Seats(table) : j # i => Left(v, Now, j)
          /\ \A j \in Seats(table) : v.t.seats[j].bet = table.seats[j].bet
                                     /\ v.t.seats[j].hand = table.seats[j].hand
      BY <3>2, <2>1, <1>1 DEF TurnPassed
    <3>4. HasTurn(v, i)
      BY <3>3, <1>5 DEF HasTurn, InPlay
    <3>5. \A j \in Seats(table) : j # i => Idles(v, j)
      BY <3>3, <2>1, LeftStands
    <3>6. OthersIdle(v, i)
      BY <3>3, <3>5, <2>1 DEF OthersIdle
    <3>7. PICK next : next = At("assign", i)
      OBVIOUS
    <3>8. next.step = "assign" /\ next.seat = i
      BY <3>7 DEF At
    <3>9. Turning(v, next.seat)
      BY <3>3, <3>4, <3>6, <3>8, <1>3 DEF Turning
    <3>10. Round(v, next)
      BY <3>8, <3>9 DEF Round
    <3> QED BY <3>3, <3>7, <3>10, <1>2, <1>5, GoesAlone
  <2> QED BY <2>2, <2>3
<1>6. \/ GoesOn(th, Now, At("assign", Len(table.seats) + 1))
      \/ \E i \in Seats(table) : \E v :
           InPlay(table.seats[i]) /\ AskedNext(v, Now, i) /\ GoesOn(th, v, At("assign", i))
  BY NextPlayerGoesOn
<1> QED BY <1>4, <1>5, <1>6

\* Then the turn is that of m_currentPlayer.
LEMMA AssignCurrentKeeps ==
  ASSUME Base, at \in [Thread -> Cont], crashed = "no", RoundOn, NEW th \in Thread,
         AssignCurrent(th)
  PROVE  Kept
<1>1. Now \in Work /\ Now.crashed = "no" /\ Seated(Now) /\ Now.t = table
  BY NowWork DEF Now
<1>2. at[th].step = "assign"
  BY DEF AssignCurrent
<1>3. PICK i \in Nat : i = at[th].seat
  BY DEF Cont
<1>4. Turning(Now, i)
  BY <1>2, <1>3, AtWork DEF Round
<1>5. PICK v : v = [Now EXCEPT !.t.current = i]
  OBVIOUS
<1>6. PICK next : next = At("settle", 0)
  OBVIOUS
<1>7. GoesOn(th, v, next) /\ next.step = "settle"
  BY <1>3, <1>5, <1>6, Zenon DEF AssignCurrent, At
<1>8. /\ KeepsSeats(v, Now) /\ v.crashed = "no" /\ v.t.current = i
      /\ v.t.betting = table.betting
  BY <1>1, <1>5, CurrentSet
<1>9. /\ Seats(v.t) = Seats(table) /\ Len(v.t.seats) = Len(table.seats)
      /\ v.t.seats = table.seats /\ v \in Work
      /\ \A j \in Seats(table) : Left(v, Now, j)
  BY <1>1, <1>8, KeptLeft DEF KeepsSeats
<1>10. \A j \in Seats(table) : Idles(v, j) = Idles(Now, j) /\ HasTurn(v, j) = HasTurn(Now, j)
  BY <1>9, LeftStands
<1>11. CASE OthersIdle(Now, i) /\ HasTurn(Now, i)
  <2>1. OthersIdle(v, i) /\ HasTurn(v, i)
    BY <1>1, <1>8, <1>9, <1>10, <1>11 DEF OthersIdle
  <2>2. Playing(v)
    BY <2>1, <1>8 DEF Playing
  <2>3. Round(v, next)
    BY <2>2, <1>7 DEF Round
  <2> QED BY <2>3, <1>2, <1>7, <1>8, <1>9, GoesAlone
<1>12. CASE i = Len(table.seats) + 1 /\ AllIdle(Now)
  <2>1. AllIdle(v)
    BY <1>1, <1>8, <1>9, <1>10, <1>12 DEF AllIdle
  <2>2. Round(v, next)
    BY <2>1, <1>7, <1>8, <1>9, <1>12 DEF Round
  <2> QED BY <2>2, <1>2, <1>7, <1>8, <1>9, GoesAlone
<1> QED BY <1>1, <1>4, <1>11, <1>12 DEF Turning

\* The round goes on with the player who has the turn.
LEMMA RoundGoesOnKeeps ==
  ASSUME Base, at \in [Thread -> Cont], crashed = "no", RoundOn, NEW th \in Thread,
         RoundGoesOn(th)
  PROVE  Kept
<1>1. Now \in Work /\ Now.crashed = "no" /\ Now.t = table
  BY NowWork DEF Now
<1>2. at[th].step = "settle" /\ GoesOn(th, Now, Idle) /\ table.current # Len(table.seats) + 1
  BY DEF RoundGoesOn
<1>3. Playing(Now)
  BY <1>1, <1>2, AtWork DEF Round
<1>4. Round(Now, Idle)
  BY <1>3 DEF Round, Idle, At
<1> QED BY <1>1, <1>2, <1>4, GoesAlone

\* DealerDeal() finds all idle, and a result for each of them.
LEMMA RoundEndsKeeps ==
  ASSUME Base, at \in [Thread -> Cont], crashed = "no", RoundOn, NEW th \in Thread,
         RoundEnds(th)
  PROVE  Kept
<1>1. Now \in Work /\ Now.crashed = "no" /\ Seated(Now) /\ Now.t = table
  BY NowWork DEF Now
<1>2. /\ at[th].step = "settle" /\ DealerDeal(th)
      /\ table.current \in {0, Len(table.seats) + 1}
  BY DEF RoundEnds
<1>3. Len(table.seats) \in Nat /\ \A i \in Seats(table) : table.seats[i] \in Seat
  BY <1>1, SeatFacts
<1>4. AllIdle(Now)
  <2>1. ~Playing(Now)
    BY <1>1, <1>2, <1>3 DEF Playing, OthersIdle, Seats
  <2> QED BY <2>1, <1>2, AtWork DEF Round
<1>5. PICK dealer \in DealerHands[table.dealer], next \in Cont :
        /\ next.step = "pay" /\ next.seat = 1
        /\ next.results = [i \in Seats(table) |-> Result(table.seats[i], dealer)]
        /\ GoesOn(th, Draws(Now, dealer), next)
  BY <1>2, DealerDealBegins
<1>6. PICK v : v = Draws(Now, dealer)
  OBVIOUS
<1>7. KeepsSeats(v, Now) /\ v.crashed \in {"no", "shoe"} /\ v.t.betting /\ v.t.current = 0
  BY <1>1, <1>6, DrawsEffect
<1>8. CASE v.crashed = "shoe"
  BY <1>5, <1>6, <1>8, GoesDead
<1>9. CASE v.crashed = "no"
  <2>1. /\ Seats(v.t) = Seats(table) /\ Len(v.t.seats) = Len(table.seats)
        /\ v.t.seats = table.seats /\ v \in Work
        /\ \A j \in Seats(table) : Left(v, Now, j)
    BY <1>1, <1>7, KeptLeft DEF KeepsSeats
  <2>2. ASSUME NEW i \in Seats(table)
        PROVE  Idles(v, i) /\ v.t.seats[i].bet > 0 /\ next.results[i] # "None"
    <3>1. table.seats[i].bet > 0 /\ Idles(Now, i)
      BY <1>1, <1>4 DEF AllIdle
    <3>2. Idles(v, i)
      BY <3>1, <2>1, LeftStands
    <3>3. next.results[i] = Result(table.seats[i], dealer)
      BY <1>5
    <3> QED BY <3>1, <3>2, <3>3, <2>1, <1>3, ResultType
  <2>3. DOMAIN next.results = Seats(table)
    BY <1>5
  <2>4. next.seat \in 1 .. Len(table.seats) + 1 /\ \A i \in Seats(table) : ~(i < next.seat)
    BY <1>3, <1>5 DEF Seats
  <2>5. Paying(v, next)
    BY <2>1, <2>2, <2>3, <2>4, <1>7 DEF Paying
  <2>6. Round(v, next)
    BY <2>5, <1>5 DEF Round
  <2> QED BY <2>1, <2>6, <1>2, <1>5, <1>6, <1>9, GoesAlone
<1> QED BY <1>7, <1>8, <1>9

\* A player is paid, and called to bet: told so if it waited, else with that as its news.
LEMMA PayUpKeeps ==
  ASSUME Base, at \in [Thread -> Cont], crashed = "no", RoundOn, NEW th \in Thread, PayUp(th)
  PROVE  Kept
<1>1. Now \in Work /\ Now.crashed = "no" /\ Seated(Now) /\ Now.t = table /\ Now.told = told
  BY NowWork DEF Now
<1>2. PICK i : i = at[th].seat
  OBVIOUS
<1>3. PICK result : result = IF i \in DOMAIN at[th].results THEN at[th].results[i] ELSE "None"
  OBVIOUS
<1>4. at[th].step = "pay" /\ i \in Seats(table)
  BY <1>2, PayUpGoesOn
<1>5. PICK v : \E next \in Cont :
        /\ PaidUp(v, i, result) /\ GoesOn(th, v, next)
        /\ next.step = "pay" /\ next.seat = i + 1 /\ next.results = at[th].results
  BY <1>2, <1>3, PayUpGoesOn
<1>6. PICK next \in Cont :
        /\ PaidUp(v, i, result) /\ GoesOn(th, v, next)
        /\ next.step = "pay" /\ next.seat = i + 1 /\ next.results = at[th].results
  BY <1>5
<1>7. Paying(Now, at[th])
  BY <1>4, AtWork DEF Round
<1>8. /\ table.betting /\ table.current = 0 /\ DOMAIN at[th].results = Seats(table)
      /\ \A j \in Seats(table) :
           IF j < i
           THEN Called(Now, j) /\ table.seats[j].bet = 0 /\ table.seats[j].insurance = 0
           ELSE Idles(Now, j) /\ table.seats[j].bet > 0 /\ at[th].results[j] # "None"
  BY <1>1, <1>2, <1>7 DEF Paying
<1>9. result # "None" /\ Idles(Now, i)
  <2>1. ~(i < i)
    BY <1>4 DEF Seats
  <2> QED BY <2>1, <1>3, <1>4, <1>8
<1>10. /\ v \in Work /\ v.crashed = "no"
       /\ v.t.betting = table.betting /\ v.t.current = table.current
       /\ Len(v.t.seats) = Len(table.seats) /\ Seats(v.t) = Seats(table)
       /\ v.t.seats[i].name = table.seats[i].name /\ v.t.seats[i].insurance = 0
       /\ v.t.seats[i].bet = 0 /\ v.t.seats[i].kept = "none"
       /\ v.t.seats[i].pending = (IF table.seats[i].kept # "none" THEN table.seats[i].pending
                                  ELSE "PlaceBet")
       /\ v.told[table.seats[i].name] = (IF table.seats[i].kept # "none" THEN "PlaceBet"
                                         ELSE told[table.seats[i].name])
       /\ \A j \in Seats(table) : j # i => Left(v, Now, j)
  BY <1>1, <1>6, <1>9 DEF PaidUp, Left
<1>11. Called(v, i)
  BY <1>1, <1>9, <1>10 DEF Called, Idles, Waits
<1>12. ASSUME NEW j \in Seats(table), j # i
       PROVE  /\ Called(v, j) = Called(Now, j) /\ Idles(v, j) = Idles(Now, j)
              /\ v.t.seats[j].bet = table.seats[j].bet
              /\ v.t.seats[j].insurance = table.seats[j].insurance
  <2>1. Left(v, Now, j)
    BY <1>10, <1>12
  <2>2. v.t.seats[j] = table.seats[j]
    BY <2>1, <1>1 DEF Left
  <2> QED BY <2>1, <2>2, LeftStands
<1>13. Len(table.seats) \in Nat
  BY <1>1, SeatFacts
<1>14. ASSUME NEW j \in Seats(table)
       PROVE  IF j < i + 1
              THEN Called(v, j) /\ v.t.seats[j].bet = 0 /\ v.t.seats[j].insurance = 0
              ELSE Idles(v, j) /\ v.t.seats[j].bet > 0 /\ at[th].results[j] # "None"
  <2>1. j < i + 1 <=> j < i \/ j = i
    BY <1>4 DEF Seats
  <2>2. CASE j = i
    BY <2>1, <2>2, <1>10, <1>11
  <2>3. CASE j # i
    BY <2>1, <2>3, <1>8, <1>12
  <2> QED BY <2>2, <2>3
<1>15. next.seat \in 1 .. Len(v.t.seats) + 1
  BY <1>4, <1>6, <1>10, <1>13 DEF Seats
<1>16. Paying(v, next)
  BY <1>6, <1>8, <1>10, <1>14, <1>15 DEF Paying
<1>17. Round(v, next)
  BY <1>6, <1>16 DEF Round
<1> QED BY <1>4, <1>6, <1>10, <1>17, GoesAlone

\* When all are paid and called, no bet is left to count.
LEMMA ClearBetsKeeps ==
  ASSUME Base, at \in [Thread -> Cont], crashed = "no", RoundOn, NEW th \in Thread, ClearBets(th)
  PROVE  Kept
<1>1. Now \in Work /\ Now.crashed = "no" /\ Seated(Now) /\ Now.t = table
  BY NowWork DEF Now
<1>2. at[th].step = "pay" /\ at[th].seat \notin Seats(table)
  BY DEF ClearBets
<1>3. Paying(Now, at[th])
  BY <1>2, AtWork DEF Round
<1>4. Len(table.seats) \in Nat
  BY <1>1, SeatFacts
<1>5. \A j \in Seats(table) : j < at[th].seat
  <2>1. at[th].seat \in 1 .. Len(table.seats) + 1
    BY <1>1, <1>3 DEF Paying
  <2>2. at[th].seat = Len(table.seats) + 1
    BY <2>1, <1>2, <1>4 DEF Seats
  <2> QED BY <2>2, <1>4 DEF Seats
<1>6. /\ table.betting /\ table.current = 0
      /\ \A j \in Seats(table) :
           Called(Now, j) /\ table.seats[j].bet = 0 /\ table.seats[j].insurance = 0
  BY <1>1, <1>3, <1>5 DEF Paying
<1>7. PICK v : v = [Now EXCEPT !.t.betsMade = 0]
  OBVIOUS
<1>8. /\ KeepsSeats(v, Now) /\ v.crashed = "no" /\ v.t.betsMade = 0
      /\ v.t.betting = table.betting /\ v.t.current = table.current
  BY <1>1, <1>7, BetsMadeSet
<1>9. /\ Seats(v.t) = Seats(table) /\ v.t.seats = table.seats /\ v \in Work
      /\ \A j \in Seats(table) : Left(v, Now, j)
  BY <1>1, <1>8, KeptLeft DEF KeepsSeats
<1>10. \A j \in Seats(table) : Bets(Now, j) /\ table.seats[j].kept # "bet"
  BY <1>1, <1>6 DEF Bets, Called, Waits
<1>11. \A j \in Seats(v.t) : Bets(v, j) /\ v.t.seats[j].kept # "bet"
  BY <1>9, <1>10, LeftStands
<1>12. v.t.betsMade = BetsKept(v)
  BY <1>8, <1>11, NoBets
<1>13. Betting(v)
  BY <1>6, <1>8, <1>11, <1>12 DEF Betting
<1>14. Round(v, Idle)
  BY <1>13 DEF Round, Idle, At
<1>15. GoesOn(th, v, Idle)
  BY <1>7 DEF ClearBets
<1> QED BY <1>2, <1>8, <1>9, <1>14, <1>15, GoesAlone

\* With nobody at work a player who may play is the one whose turn it is.
LEMMA TheOneAsked ==
  ASSUME Base, crashed = "no", RoundOn, ~Working, NEW c \in Client, told[c] = "YourTurn"
  PROVE  /\ table.current \in Seats(table) /\ table.seats[table.current].name = c
         /\ OthersIdle(Now, table.current) /\ HasTurn(Now, table.current)
<1>1. Now.t = table /\ Now.told = told
  BY DEF Now
<1>2. PICK i : i = FindPlayer(c)
  OBVIOUS
<1>3. i \in Seats(table) /\ table.seats[i].name = c
  BY <1>2, FindPlayerSeat
<1>4. ~Betting(Now)
  BY <1>1, <1>3 DEF Betting, Bets, Called, Placed, Waits
<1>5. Playing(Now)
  BY <1>4, IdleRound
<1>6. i = table.current
  BY <1>1, <1>3, <1>5 DEF Playing, OthersIdle, Idles, Waits
<1>7. ~Placed(Now, i)
  BY <1>1, <1>3 DEF Placed, Waits
<1> QED BY <1>1, <1>3, <1>5, <1>6, <1>7 DEF Playing

\* Hit(), Stay() and DoubleDown() act on the player who asked for them, who then idles or
\* has the turn on.
LEMMA ActedKeeps ==
  ASSUME Base, at \in [Thread -> Cont], crashed = "no", RoundOn, ~Working,
         NEW th \in Thread, NEW c \in Client, told[c] = "YourTurn", Acted(th, c)
  PROVE  Kept
<1>1. Now \in Work /\ Now.crashed = "no" /\ Seated(Now) /\ Now.t = table /\ Now.told = told
  BY NowWork DEF Now
<1>2. PICK i : i = table.current
  OBVIOUS
<1>3. /\ i \in Seats(table) /\ table.seats[i].name = c
      /\ OthersIdle(Now, i) /\ HasTurn(Now, i)
  BY <1>2, TheOneAsked
<1>4. i # 0 /\ i \in Nat /\ table.seats[i] \in Seat
  BY <1>1, <1>3, SeatFacts
<1>5. CASE \E w \in Work, next \in Cont : w.crashed \in {"shoe", "players"} /\ Begins(th, w, next)
  BY <1>5, DiesKeeps DEF Begins, Becomes
<1>6. ASSUME NEW u, NEW seat \in Seat, Reseated(u, Now, i, seat), Plays(seat, table.seats[i]),
             \/ Begins(th, Stay(u, c), At("next", 0))
             \/ /\ seat.hand.state = "Active"
                /\ Begins(th, Tells(u, c, "YourTurn"), At("others", 0))
      PROVE  Kept
  <2>1. /\ u \in Work /\ Seated(u) /\ u.told = told /\ u.crashed = "no"
        /\ u.t.betting = table.betting /\ u.t.current = i
        /\ Seats(u.t) = Seats(table) /\ u.t.seats[i] = seat
        /\ \A j \in Seats(table) : j # i => u.t.seats[j] = table.seats[j]
    BY <1>1, <1>2, <1>6 DEF Reseated
  <2>2. /\ ~table.betting /\ table.seats[i].bet > 0
        /\ table.seats[i].kept = "none" /\ table.seats[i].pending = "None"
        /\ \A j \in Seats(table) : j # i => table.seats[j].bet > 0 /\ Idles(Now, j)
    BY <1>1, <1>3 DEF OthersIdle, HasTurn, Waits
  <2>3. /\ seat.name = c /\ seat.kept = "none" /\ seat.pending = "None" /\ seat.bet > 0
    BY <2>2, <1>3, <1>6 DEF Plays
  <2>4. ASSUME NEW v, NEW answer, v.told = [told EXCEPT ![c] = answer],
               Seats(v.t) = Seats(table),
               \A j \in Seats(table) : j # i => v.t.seats[j] = table.seats[j]
        PROVE  /\ v.told[c] = answer
               /\ \A j \in Seats(table) : j # i => Idles(v, j) /\ v.t.seats[j].bet > 0
    <3>1. OneTold(v, Now, i, answer)
      <4>1. /\ i \in Seats(Now.t) /\ v.told = [Now.told EXCEPT ![Now.t.seats[i].name] = answer]
            /\ \A j \in Seats(Now.t) : j # i => v.t.seats[j] = Now.t.seats[j]
        BY <2>4, <1>1, <1>3
      <4> QED BY <4>1, <1>1, OthersLeft
    <3>2. v.told[c] = answer /\ \A j \in Seats(table) : j # i => Left(v, Now, j)
      BY <3>1, <1>1, <1>3 DEF OneTold
    <3>3. ASSUME NEW j \in Seats(table), j # i PROVE Idles(v, j) /\ v.t.seats[j].bet > 0
      <4>1. Left(v, Now, j) /\ Idles(Now, j) /\ table.seats[j].bet > 0
        BY <3>2, <3>3, <2>2
      <4>2. Idles(v, j)
        BY <4>1, LeftStands
      <4> QED BY <4>1, <4>2, <2>4, <3>3
    <3> QED BY <3>2, <3>3
  <2>5. CASE Begins(th, Stay(u, c), At("next", 0))
    <3>1. u.t.current \in Seats(u.t)
      BY <2>1, <1>3
    <3>2. PICK held : Reseated(held, u, i, Holds(seat)) /\ Stay(u, c) = Tells(held, c, "Refresh")
      <4>1. \E held : /\ Reseated(held, u, i, Holds(u.t.seats[i]))
                      /\ Stay(u, c) = Tells(held, c, "Refresh")
        BY <3>1, <2>1, StayEffect
      <4> QED BY <4>1, <2>1
    <3>3. /\ held \in Work /\ held.told = told /\ held.crashed = "no"
          /\ held.t.betting = table.betting /\ held.t.current = i
          /\ Seats(held.t) = Seats(table) /\ held.t.seats[i] = Holds(seat)
          /\ \A j \in Seats(table) : j # i => held.t.seats[j] = table.seats[j]
      BY <3>2, <2>1 DEF Reseated
    <3>4. PICK v : v = Tells(held, c, "Refresh")
      OBVIOUS
    <3>5. v \in Work /\ v.t = held.t /\ v.crashed = "no" /\ v.told = [told EXCEPT ![c] = "Refresh"]
      <4>1. "Refresh" \in Answers
        BY DEF Answers, Statuses
      <4>2. v \in Work /\ v.t = held.t /\ v.crashed = held.crashed /\ v.told = [held.told EXCEPT ![c] = "Refresh"]
        BY <4>1, <3>3, <3>4, TellsEffect
      <4> QED BY <4>2, <3>3
    <3>6. /\ v.told[c] = "Refresh"
          /\ \A j \in Seats(table) : j # i => Idles(v, j) /\ v.t.seats[j].bet > 0
      BY <3>3, <3>5, <2>4
    <3>7. Idles(v, i) /\ v.t.seats[i].bet > 0
      <4>1. /\ v.t.seats[i] = Holds(seat) /\ Holds(seat).name = c /\ Holds(seat).kept = "none"
            /\ Holds(seat).pending = "None" /\ Holds(seat).bet > 0
        BY <3>3, <3>5, <2>3, HoldsEffect
      <4> QED BY <4>1, <3>6 DEF Idles, Waits
    <3>8. AllIdle(v)
      BY <3>3, <3>5, <3>6, <3>7, <2>2, <1>3 DEF AllIdle
    <3>9. PICK next : next = At("next", 0)
      OBVIOUS
    <3>10. Round(v, next)
      BY <3>3, <3>5, <3>8, <3>9, <1>3 DEF Round, At
    <3>11. Begins(th, v, next)
      BY <2>5, <3>2, <3>4, <3>9
    <3> QED BY <3>5, <3>10, <3>11, BeginsAlone
  <2>6. CASE /\ seat.hand.state = "Active"
             /\ Begins(th, Tells(u, c, "YourTurn"), At("others", 0))
    <3>1. PICK v : v = Tells(u, c, "YourTurn")
      OBVIOUS
    <3>2. v \in Work /\ v.t = u.t /\ v.crashed = "no" /\ v.told = [told EXCEPT ![c] = "YourTurn"]
      <4>1. "YourTurn" \in Answers
        BY DEF Answers, Statuses
      <4>2. v \in Work /\ v.t = u.t /\ v.crashed = u.crashed /\ v.told = [u.told EXCEPT ![c] = "YourTurn"]
        BY <4>1, <3>1, <2>1, TellsEffect
      <4> QED BY <4>2, <2>1
    <3>3. /\ v.told[c] = "YourTurn"
          /\ \A j \in Seats(table) : j # i => Idles(v, j) /\ v.t.seats[j].bet > 0
      BY <3>2, <2>1, <2>4
    <3>4. HasTurn(v, i)
      BY <3>2, <3>3, <2>1, <2>3, <2>6 DEF HasTurn, InPlay, Waits
    <3>5. OthersIdle(v, i)
      BY <3>2, <3>3, <2>1, <2>2, <2>3, <1>3 DEF OthersIdle
    <3>6. Playing(v)
      BY <3>2, <3>4, <3>5, <2>1 DEF Playing
    <3>7. PICK next : next = At("others", 0)
      OBVIOUS
    <3>8. Round(v, next)
      BY <3>6, <3>7 DEF Round, At
    <3>9. Begins(th, v, next)
      BY <2>6, <3>1, <3>7
    <3> QED BY <3>2, <3>8, <3>9, BeginsAlone
  <2> QED BY <2>5, <2>6, <1>6
<1> QED BY <1>2, <1>3, <1>4, <1>5, <1>6 DEF Acted

-----------------------------------------------------------------------------
(* The round is an invariant                                               *)

\* Nothing is taken back of what came in between.
LEMMA DisorderGrows ==
  ASSUME Typed, NEW between, Disorders(between)
  PROVE  disorder' >= disorder /\ (disorder' = 0 => ~between)
<1>1. disorder \in Nat
  BY BlackJackAssumption DEF Typed
<1> QED BY <1>1 DEF Disorders

\* As long as nothing comes in between, every request keeps the round going.
LEMMA RequestsKeep ==
  ASSUME Typed, crashed = "no", disorder = 0 => RoundOn, NEW c \in Client, Requests(c)
  PROVE  disorder' >= disorder /\ (disorder' = 0 => Kept)
<1>1. Base /\ at \in [Thread -> Cont] /\ disorder \in Nat
  BY BlackJackAssumption DEF Typed
<1>2. CASE Wait(c) \/ Insure(c)
  <2>1. disorder' = disorder
    BY <1>2 DEF Wait, Insure
  <2> QED BY <2>1, <1>1, <1>2, WaitKeeps, InsureKeeps
<1>3. CASE Join(c)
  <2>1. ComesOrGoes(Working \/ ~table.betting)
    BY <1>3 DEF Join
  <2>2. PICK b \in BOOLEAN : b = (Working \/ ~table.betting)
    BY Zenon
  <2>3. disorder' >= disorder /\ (disorder' = 0 => ~b)
    BY <2>1, <2>2, DisorderGrows DEF ComesOrGoes
  <2>4. ASSUME disorder' = 0 PROVE Kept
    <3>1. disorder = 0 /\ ~Working /\ table.betting
      <4>1. disorder = 0 /\ ~b
        BY <2>3, <2>4, <1>1
      <4> QED BY <4>1, <2>2, Zenon
    <3> QED BY <3>1, <1>1, <1>3, JoinKeeps
  <2> QED BY <2>3, <2>4
<1>4. CASE Leave(c)
  <2>1. ComesOrGoes(Working \/ ~table.betting \/ table.betsMade > 0)
    BY <1>4 DEF Leave
  <2>2. PICK b \in BOOLEAN : b = (Working \/ ~table.betting \/ table.betsMade > 0)
    BY Zenon
  <2>3. disorder' >= disorder /\ (disorder' = 0 => ~b)
    BY <2>1, <2>2, DisorderGrows DEF ComesOrGoes
  <2>4. ASSUME disorder' = 0 PROVE Kept
    <3>1. disorder = 0 /\ ~Working /\ table.betting /\ ~(table.betsMade > 0)
      <4>1. disorder = 0 /\ ~b
        BY <2>3, <2>4, <1>1
      <4> QED BY <4>1, <2>2, Zenon
    <3>2. table.betsMade = 0
      BY <3>1, <1>1 DEF Base, Table
    <3> QED BY <3>1, <3>2, <1>1, <1>4, LeaveKeeps
  <2> QED BY <2>3, <2>4
<1>5. ASSUME NEW th \in Thread, NEW w, NEW next, Begins(th, w, next)
      PROVE  disorder' >= disorder /\ (disorder' = 0 => disorder = 0 /\ ~Working)
  <2>1. Disorders(Working)
    BY <1>5 DEF Begins
  <2>2. disorder' >= disorder /\ (disorder' = 0 => ~Working)
    BY <2>1, DisorderGrows
  <2> QED BY <2>2, <1>1
<1>6. ASSUME NEW th \in Thread, Bet(th, c)
      PROVE  disorder' >= disorder /\ (disorder' = 0 => Kept)
  <2>1. \E w, next : Begins(th, w, next)
    BY <1>6, Zenon DEF Bet
  <2>2. disorder' >= disorder /\ (disorder' = 0 => disorder = 0 /\ ~Working)
    BY <2>1, <1>5
  <2> QED BY <2>2, <1>1, <1>6, BetKeeps
<1>7. ASSUME NEW th \in Thread, Hit(th, c) \/ StayRequest(th, c) \/ DoubleDown(th, c)
      PROVE  disorder' >= disorder /\ (disorder' = 0 => Kept)
  <2>1. Acted(th, c)
    BY <1>1, <1>7, HitActed, StayActed, DoubleDownActed
  <2>2. \E w, next : Begins(th, w, next)
    BY <2>1, Zenon DEF Acted
  <2>3. disorder' >= disorder /\ (disorder' = 0 => disorder = 0 /\ ~Working)
    BY <2>2, <1>5
  <2>4. told[c] = "YourTurn"
    BY <1>7 DEF Hit, StayRequest, DoubleDown
  <2> QED BY <2>1, <2>3, <2>4, <1>1, ActedKeeps
<1> QED BY <1>2, <1>3, <1>4, <1>6, <1>7 DEF Requests

\* So does every step of a handler that goes on.
LEMMA GoesKeep ==
  ASSUME Typed, crashed = "no", disorder = 0 => RoundOn, NEW th \in Thread, Goes(th)
  PROVE  disorder' = disorder /\ (disorder = 0 => Kept)
<1>1. Base /\ at \in [Thread -> Cont]
  BY DEF Typed
<1>2. \E w, next : GoesOn(th, w, next)
  <2>1. CASE Count(th) \/ KeepBet(th) \/ AskFirst(th) \/ NobodyPast(th) \/ PayUp(th)
             \/ ClearBets(th) \/ AssignCurrent(th) \/ RoundGoesOn(th) \/ HitOthers(th)
    BY <2>1, Zenon DEF Count, KeepBet, AskFirst, NobodyPast, PayUp, ClearBets,
                       AssignCurrent, RoundGoesOn, HitOthers
  <2>2. CASE DealCards(th)
    BY <2>2, Zenon DEF DealCards
  <2>3. CASE NextPlayer(th)
    BY <2>3, <1>1, NextPlayerGoesOn
  <2>4. CASE PastPlayers(th) \/ RoundEnds(th)
    BY <2>4, Zenon DEF PastPlayers, RoundEnds, DealerDeal
  <2> QED BY <2>1, <2>2, <2>3, <2>4 DEF Goes
<1>3. disorder' = disorder
  BY <1>2 DEF GoesOn
<1>4. ASSUME disorder = 0 PROVE Kept
  <2>1. CASE Count(th) \/ KeepBet(th) \/ DealCards(th) \/ AskFirst(th) \/ NobodyPast(th)
    BY <2>1, <1>1, <1>4, CountKeeps, KeepBetKeeps, DealCardsKeeps, AskFirstKeeps, NobodyPastKeeps
  <2>2. CASE PastPlayers(th) \/ PayUp(th) \/ ClearBets(th) \/ NextPlayer(th)
    BY <2>2, <1>1, <1>4, PastPlayersNever, PayUpKeeps, ClearBetsKeeps, NextPlayerKeeps
  <2>3. CASE AssignCurrent(th) \/ RoundGoesOn(th) \/ RoundEnds(th) \/ HitOthers(th)
    BY <2>3, <1>1, <1>4, AssignCurrentKeeps, RoundGoesOnKeeps, RoundEndsKeeps, HitOthersKeeps
  <2> QED BY <2>1, <2>2, <2>3 DEF Goes
<1> QED BY <1>3, <1>4

\* What is kept of the round is what the inductive invariant says of the next state.
LEMMA KeptIsInvariant ==
  ASSUME Typed', disorder' \in Nat, disorder' = 0 => Kept
  PROVE  IInv'
<1>1. (Orderly => RoundOn)'
  BY DEF Orderly, Kept
<1>2. DiesLate'
  BY DEF DiesLate, CrashExplained, Kept, Late
<1> QED BY <1>1, <1>2 DEF IInv

\* An empty table takes bets.
LEMMA InitIInv == Init => IInv
<1> SUFFICES ASSUME Init PROVE IInv
  OBVIOUS
<1>1. Typed
  BY InitTyped
<1>2. DiesLate
  BY DEF Init, DiesLate, CrashExplained
<1>3. /\ Now.t = table /\ table.betting /\ table.current = 0 /\ table.betsMade = 0
      /\ Seats(table) = {}
  BY DEF Init, Seats, Now
<1>4. BetsKept(Now) = 0
  BY <1>3, NoBets
<1>5. Round(Now, Idle)
  BY <1>3, <1>4 DEF Round, Betting, Idle, At
<1>6. \A th \in Thread : at[th] = Idle
  BY DEF Init
<1>7. RoundOn
  BY <1>5, <1>6 DEF RoundOn
<1> QED BY <1>1, <1>2, <1>7 DEF IInv

\* Every step keeps the inductive invariant.
LEMMA StepIInv == IInv /\ [Next]_vars => IInv'
<1> SUFFICES ASSUME IInv, [Next]_vars PROVE IInv'
  OBVIOUS
<1>1. Typed' /\ Typed /\ disorder \in Nat /\ disorder' \in Nat
  BY StepTyped, BlackJackAssumption DEF IInv, Typed
<1>2. CASE UNCHANGED vars
  <2>1. table' = table /\ told' = told /\ at' = at /\ crashed' = crashed /\ disorder' = disorder
        /\ stayed' = stayed
    BY <1>2 DEF vars
  <2>2. DiesLate'
    BY <2>1 DEF IInv, DiesLate, CrashExplained
  <2>3. Now' = [Now EXCEPT !.t = table] /\ Now' = Now /\ Working' = Working
    BY <2>1 DEF Now, Working
  <2>4. RoundOn => RoundOn'
    BY <2>1, <2>3 DEF RoundOn
  <2>5. (Orderly => RoundOn)'
    BY <2>1, <2>4 DEF IInv, Orderly
  <2> QED BY <2>2, <2>5, <1>1 DEF IInv
<1>3. ASSUME NEW c \in Client, Requests(c) PROVE IInv'
  <2>1. crashed = "no"
    BY <1>3, StillRuns
  <2>2. disorder = 0 => RoundOn
    BY <2>1 DEF IInv, Orderly
  <2>3. disorder' = 0 => Kept
    BY <2>1, <2>2, <1>1, <1>3, RequestsKeep
  <2> QED BY <2>3, <1>1, KeptIsInvariant
<1>4. ASSUME NEW th \in Thread, Goes(th) PROVE IInv'
  <2>1. crashed = "no"
    BY <1>4, StillRuns
  <2>2. disorder = 0 => RoundOn
    BY <2>1 DEF IInv, Orderly
  <2>3. disorder' = 0 => Kept
    BY <2>1, <2>2, <1>1, <1>4, GoesKeep
  <2> QED BY <2>3, <1>1, KeptIsInvariant
<1> QED BY <1>2, <1>3, <1>4 DEF Next

\* The inductive invariant holds of every table of the sample's server.
LEMMA Inductive == Spec => []IInv
BY InitIInv, StepIInv, PTL DEF Spec

\* What the invariant says of an orderly table: a handler at work, or none.
LEMMA OrderlyRound ==
  ASSUME IInv, Orderly
  PROVE  /\ Base /\ crashed = "no" /\ Now.t = table /\ Now.told = told
         /\ \A i \in Seats(table) : table.seats[i].name \in Client
         /\ \/ Working /\ \E th \in Thread : Round(Now, at[th])
            \/ ~Working /\ Round(Now, Idle) /\ (Betting(Now) \/ Playing(Now))
         /\ RoundOn
<1>1. Base /\ crashed = "no" /\ RoundOn /\ Now.t = table /\ Now.told = told
  BY DEF IInv, Typed, Orderly, Now
<1>2. \A i \in Seats(table) : table.seats[i].name \in Client
  BY <1>1, NowWork, SeatFacts
<1>3. Working => \E th \in Thread : Round(Now, at[th])
  BY <1>1 DEF Working, RoundOn
<1>4. ~Working => Round(Now, Idle) /\ (Betting(Now) \/ Playing(Now))
  BY <1>1, IdleRound DEF RoundOn
<1> QED BY <1>1, <1>2, <1>3, <1>4

\* A player who may play has the turn, or is the one that line 282 is about to give it to.
LEMMA WhoMayPlay ==
  ASSUME IInv, Orderly, NEW c \in Client, told[c] = "YourTurn"
  PROVE  /\ ~table.betting
         /\ \E i \in Seats(table) :
              /\ table.seats[i].name = c /\ InPlay(table.seats[i])
              /\ \/ table.current = i
                 \/ \E th \in Thread : at[th].step = "assign" /\ at[th].seat = i
<1>1. Base /\ crashed = "no" /\ Now.t = table /\ Now.told = told
  BY OrderlyRound
<1>2. PICK i : i \in Seats(table) /\ table.seats[i].name = c
  BY <1>1, FindPlayerSeat
<1>3. /\ ~Called(Now, i) /\ ~Placed(Now, i) /\ ~Idles(Now, i) /\ ~Bets(Now, i)
      /\ ~Waits(Now, i, "nothing", "none", "None")
  BY <1>1, <1>2 DEF Called, Placed, Idles, Bets, Waits
<1>4. ASSUME Playing(Now) PROVE table.current = i /\ ~table.betting /\ InPlay(table.seats[i])
  BY <1>1, <1>2, <1>3, <1>4 DEF Playing, OthersIdle, HasTurn
<1>5. ASSUME NEW j, Turning(Now, j) PROVE j = i /\ ~table.betting /\ InPlay(table.seats[i])
  BY <1>1, <1>2, <1>3, <1>5 DEF Turning, OthersIdle, AllIdle, HasTurn
<1>6. ~Betting(Now) /\ ~AllDealt(Now) /\ ~AllIdle(Now)
  BY <1>1, <1>2, <1>3 DEF Betting, AllDealt, AllIdle
<1>7. \A j, counted : ~Staking(Now, j, counted)
  BY <1>1, <1>2, <1>3 DEF Staking
<1>8. \A a : ~Paying(Now, a)
  BY <1>1, <1>2, <1>3 DEF Paying
<1>9. CASE ~Working
  <2>1. Playing(Now)
    BY <1>6, <1>9, OrderlyRound
  <2> QED BY <2>1, <1>2, <1>4
<1>10. CASE Working
  <2>1. PICK th \in Thread : Round(Now, at[th])
    BY <1>10, OrderlyRound
  <2>2. Playing(Now) \/ (at[th].step = "assign" /\ Turning(Now, at[th].seat))
    BY <2>1, <1>6, <1>7, <1>8 DEF Round
  <2> QED BY <2>2, <1>2, <1>4, <1>5
<1> QED BY <1>9, <1>10

\* With orderly players, Hit(), Stay() and DoubleDown() act on the player who asked for
\* them, or line 282 is to come; somebody has the turn unless all were dealt a blackjack.
THEOREM TheTurnIsCurrent == Spec => []TurnIsCurrent
<1>1. IInv => TurnIsCurrent
  <2> SUFFICES ASSUME IInv, Orderly
               PROVE  /\ \A c \in Client : told[c] = "YourTurn" =>
                           /\ ~table.betting
                           /\ \E i \in Seats(table) :
                                /\ table.seats[i].name = c /\ InPlay(table.seats[i])
                                /\ \/ table.current = i
                                   \/ \E th \in Thread : at[th].step = "assign" /\ at[th].seat = i
                      /\ ~table.betting /\ ~Working =>
                           ( (\E c \in Client : told[c] = "YourTurn")
                             <=> (\E i \in Seats(table) : table.seats[i].hand.state # "BlackJack") )
    BY DEF TurnIsCurrent
  <2>1. ASSUME NEW c \in Client, told[c] = "YourTurn"
        PROVE  /\ ~table.betting
               /\ \E i \in Seats(table) :
                    /\ table.seats[i].name = c /\ InPlay(table.seats[i])
                    /\ \/ table.current = i
                       \/ \E th \in Thread : at[th].step = "assign" /\ at[th].seat = i
    BY <2>1, WhoMayPlay
  <2>2. ASSUME ~table.betting, ~Working
        PROVE  (\E c \in Client : told[c] = "YourTurn")
                 <=> (\E i \in Seats(table) : table.seats[i].hand.state # "BlackJack")
    <3>1. Now.t = table /\ Now.told = told /\ \A i \in Seats(table) : table.seats[i].name \in Client
      BY OrderlyRound
    <3>2. Playing(Now)
      BY <2>2, <3>1, OrderlyRound DEF Betting
    <3>3. (\E i \in Seats(table) : table.seats[i].hand.state # "BlackJack")
             => \E c \in Client : told[c] = "YourTurn"
      <4>1. table.current \in Seats(table) /\ (HasTurn(Now, table.current)
              \/ \A i \in Seats(table) : table.seats[i].hand.state = "BlackJack")
        BY <3>1, <3>2 DEF Playing, OthersIdle
      <4> QED BY <4>1, <3>1 DEF HasTurn, Waits
    <3>4. (\E c \in Client : told[c] = "YourTurn")
             => \E i \in Seats(table) : table.seats[i].hand.state # "BlackJack"
      BY <2>1 DEF InPlay
    <3> QED BY <3>3, <3>4
  <2> QED BY <2>1, <2>2
<1>2. Spec => []IInv
  BY Inductive
<1> QED BY <1>1, <1>2, PTL

\* A player has a request there or news, and never both.
LEMMA RequestOrNews ==
  ASSUME NEW w, NEW i,
         \/ Called(w, i) \/ Placed(w, i) \/ Idles(w, i) \/ HasTurn(w, i)
         \/ Waits(w, i, "nothing", "none", "None")
  PROVE  w.t.seats[i].kept # "none" => w.t.seats[i].pending = "None"
BY DEF Called, Placed, Idles, HasTurn, Waits

\* Every player stands in one of those ways; while bets are taken one waits for news only
\* if PayUp() is to come to it.
LEMMA EveryPlayerStands ==
  ASSUME IInv, Orderly, NEW i \in Seats(table)
  PROVE  /\ \/ Called(Now, i) \/ Placed(Now, i) \/ Idles(Now, i) \/ HasTurn(Now, i)
            \/ Waits(Now, i, "nothing", "none", "None")
         /\ table.betting /\ table.seats[i].kept = "wait" =>
              \E th \in Thread : at[th].step = "pay" /\ at[th].seat <= i
<1> DEFINE HasPart == \/ Called(Now, i) \/ Placed(Now, i) \/ Idles(Now, i) \/ HasTurn(Now, i)
                      \/ Waits(Now, i, "nothing", "none", "None")
           Waiting == table.seats[i].kept = "wait"
<1>1. Base /\ crashed = "no" /\ Now.t = table
  BY OrderlyRound
<1>2. Called(Now, i) \/ Placed(Now, i) \/ Waits(Now, i, "nothing", "none", "None") => ~Waiting
  BY <1>1 DEF Called, Placed, Waits
<1>3. ASSUME Betting(Now) PROVE HasPart /\ ~Waiting
  BY <1>1, <1>2, <1>3 DEF Betting, Bets
<1>4. ASSUME NEW j, NEW counted, Staking(Now, j, counted) PROVE HasPart /\ ~Waiting
  BY <1>1, <1>2, <1>4 DEF Staking, Bets
<1>5. AllDealt(Now) \/ AllIdle(Now) \/ Playing(Now) => HasPart /\ ~table.betting
  BY <1>1 DEF AllDealt, AllIdle, Playing, OthersIdle
<1>6. ASSUME NEW j, Turning(Now, j) PROVE HasPart /\ ~table.betting
  BY <1>1, <1>5, <1>6 DEF Turning, OthersIdle
<1>7. ASSUME NEW a, Paying(Now, a), a.seat \in Nat PROVE HasPart /\ (Waiting => a.seat <= i)
  <2>1. i \in Nat
    BY DEF Seats
  <2>2. CASE i < a.seat
    BY <2>2, <1>1, <1>2, <1>7 DEF Paying
  <2>3. CASE ~(i < a.seat)
    BY <2>1, <2>3, <1>1, <1>7 DEF Paying
  <2> QED BY <2>2, <2>3
<1>8. CASE ~Working
  BY <1>3, <1>5, <1>8, OrderlyRound
<1>9. CASE Working
  <2>1. PICK th \in Thread : Round(Now, at[th])
    BY <1>9, OrderlyRound
  <2>2. at[th].seat \in Nat
    BY DEF IInv, Typed, Cont
  <2>3. CASE at[th].step = "pay" /\ Paying(Now, at[th])
    BY <2>2, <2>3, <1>7
  <2>4. CASE at[th].step = "assign" /\ Turning(Now, at[th].seat)
    BY <2>4, <1>6
  <2>5. CASE (\E counted : Staking(Now, at[th].seat, counted)) \/ Betting(Now)
    BY <2>5, <1>3, <1>4
  <2>6. CASE AllDealt(Now) \/ AllIdle(Now) \/ Playing(Now)
    BY <2>6, <1>5
  <2> HIDE DEF HasPart, Waiting
  <2> QED BY <2>1, <2>3, <2>4, <2>5, <2>6 DEF Round
<1> QED BY <1>8, <1>9

\* With orderly players, m_responses and m_pendingrefresh never hold both a request and
\* its news, and with no handler at work m_betsMade counts the bets that wait.
THEOREM NobodyIsKeptWaiting == Spec => []NobodyKeptWaiting
<1>1. IInv => NobodyKeptWaiting
  <2> SUFFICES ASSUME IInv, Orderly PROVE NobodyKeptWaiting
    BY DEF NobodyKeptWaiting
  <2>1. Now.t = table
    BY OrderlyRound
  <2>2. \A i \in Seats(table) : table.seats[i].kept # "none" => table.seats[i].pending = "None"
    BY <2>1, EveryPlayerStands, RequestOrNews
  <2>3. table.betting => \A i \in Seats(table) : table.seats[i].kept = "wait" =>
                           \E th \in Thread : at[th].step = "pay" /\ at[th].seat <= i
    BY EveryPlayerStands
  <2>4. ASSUME table.betting, ~Working
        PROVE  table.betsMade = Cardinality({i \in Seats(table) : table.seats[i].kept = "bet"})
    <3>1. Betting(Now)
      BY <2>1, <2>4, OrderlyRound DEF Playing, OthersIdle
    <3> QED BY <3>1, <2>1 DEF Betting, BetsKept
  <2> QED BY <2>2, <2>3, <2>4 DEF NobodyKeptWaiting
<1>2. Spec => []IInv
  BY Inductive
<1> QED BY <1>1, <1>2, PTL

\* With orderly players, DealerDeal() leaves nothing on the table: what lies there while
\* bets are taken was bet since.
THEOREM EveryRoundIsSettled == Spec => []SettledRound
<1>1. IInv => SettledRound
  <2> SUFFICES ASSUME IInv, Orderly, table.betting, ~Working, NEW i \in Seats(table)
               PROVE  /\ table.seats[i].insurance = 0
                      /\ table.seats[i].bet = IF table.seats[i].kept = "bet" THEN Amount ELSE 0
    BY DEF SettledRound
  <2>1. Now.t = table /\ Bets(Now, i)
    BY OrderlyRound DEF Playing, OthersIdle, Betting
  <2> QED BY <2>1 DEF Bets, Called, Placed, Waits
<1>2. Spec => []IInv
  BY Inductive
<1> QED BY <1>1, <1>2, PTL

\* With orderly players, the missing request that NextPlayer() dies of is always that of
\* a player with a hand in play whose next refresh is on its way.
THEOREM NoOtherCrash == Spec => [](disorder = 0 => CrashExplained)
<1>1. IInv => (disorder = 0 => CrashExplained)
  BY DEF IInv, DiesLate
<1>2. Spec => []IInv
  BY Inductive
<1> QED BY <1>1, <1>2, PTL

=================================================================================

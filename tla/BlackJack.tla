------------------------------- MODULE BlackJack -------------------------------
(***************************************************************************)
(* A table of the cpprest sample: the requests of Dealer.cpp and what      *)
(* DealerTable does with them.  A bet and a refresh are answered late: the *)
(* table keeps the request, or it keeps the news for a player who has no   *)
(* request there.  Clients do as the answers tell them and have one        *)
(* request at a time; but they may also join and leave whenever they like. *)
(* The listener has several threads, and a handler is a few steps of one   *)
(* of them: it is cut wherever another may come in between and find the    *)
(* table half changed.  What two threads do to the same object at the very *)
(* same time is left out.                                                  *)
(***************************************************************************)
EXTENDS Naturals, Integers, Sequences, FiniteSets, FiniteSetsExt

CONSTANTS
  Client,
  Thread,       \* the listener's
  CardValues,   \* the values of the cards in the shoe, 1 for an ace
  ShoeSize,     \* how many they are (six decks in the code; bounds the model)
  Funds,        \* a new player's balance
  MaxDisorder   \* how often something comes in between (bounds the model)

ASSUME BlackJackAssumption ==
  /\ CardValues \subseteq 1 .. 10 /\ CardValues # {}
  /\ ShoeSize \in Nat /\ Funds \in Nat /\ MaxDisorder \in Nat

Amount == 2      \* of a bet
Premium == 1     \* of an insurance

VARIABLES
  table,
  told,      \* what a client was last told, or that it waits for an answer
  at,        \* per thread, the handler it is in, or Idle
  crashed,   \* why the server has died
  disorder,  \* history: how often a player came or left in a round or in the midst
             \* of a handler, or a handler that plays began while another was half
             \* done
  stayed     \* history: that no player came or left so

vars == <<table, told, at, crashed, disorder, stayed>>

-----------------------------------------------------------------------------
(* Handlers                                                                *)

\* What DealerDeal() finds for a player.
Results == {"None", "PlayerWin", "ComputerWin", "PlayerBlackJack", "Push"}

\* Where a handler goes on, and what it keeps on its thread until then: a seat, the
\* count it has read, and the results that it pays out.
At(step, seat) == [step |-> step, seat |-> seat, count |-> 0, results |-> <<>>]
Idle == At("idle", 0)

Working == \E th \in Thread : at[th] # Idle

-----------------------------------------------------------------------------
(* Hands                                                                   *)

NoCards == [low |-> 0, ace |-> FALSE, n |-> 0, state |-> "Empty"]

\* GetNumericValues() and Best().
Points(low, ace) == low + (IF ace THEN 10 ELSE 0)
High(hand) == Points(hand.low, hand.ace)
Best(hand) == IF High(hand) < 22 THEN High(hand) ELSE hand.low

AddCard(hand, value) ==
  LET low == hand.low + value
      ace == hand.ace \/ value = 1
      n == hand.n + 1
  IN  [low |-> low, ace |-> ace, n |-> n,
       state |-> IF n = 2 /\ Points(low, ace) = 21 THEN "BlackJack"
                 ELSE IF low > 21 THEN "Busted" ELSE "Active"]

TwoCards(values) == AddCard(AddCard(NoCards, values[1]), values[2])

\* The dealer draws up to 17, and goes on when an ace would carry it past 21.
Stands(hand) == High(hand) >= 17 /\ (High(hand) > 21 => hand.low >= 17)

Hands == [low : Nat, ace : BOOLEAN, n : Nat,
          state : {"Empty", "BlackJack", "Active", "Held", "Busted"}]

DealerHands[hand \in Hands] ==
  IF Stands(hand) THEN {hand}
  ELSE UNION {DealerHands[AddCard(hand, v)] : v \in CardValues}

-----------------------------------------------------------------------------
(* Seats                                                                   *)

\* A player with its entries of m_responses and m_pendingrefresh: the dealer,
\* player 0, has no seat.
NewSeat(c) == [name |-> c, hand |-> NoCards, bet |-> 0, insurance |-> 0,
               balance |-> Funds, kept |-> "none", pending |-> "None"]

Seats(t) == 1 .. Len(t.seats)
FindPlayer(c) == CHOOSE i \in Seats(table) : table.seats[i].name = c
InPlay(seat) == seat.bet > 0 /\ seat.hand.state = "Active"

\* A step's way through the table: its table, what its clients are told, and
\* whether it gets through.
Now == [t |-> table, told |-> told, crashed |-> "no"]
Tells(w, c, status) == [w EXCEPT !.told[c] = status]
Dies(w, why) == [w EXCEPT !.crashed = why]

\* Variant: the last card but one is taken for two.
Takes_OneMore(w, cards) ==
  IF w.t.shoe + 1 < cards THEN Dies(w, "shoe") ELSE [w EXCEPT !.t.shoe = @ - cards]

\* front() and pop(), of a shoe that is never filled again: m_stopAt is not read.
Takes(w, cards) ==
  IF w.t.shoe < cards THEN Dies(w, "shoe") ELSE [w EXCEPT !.t.shoe = @ - cards]

\* Those who have a request are answered, for the others the news is kept.
Notify(w, S, status) ==
  LET seats == w.t.seats
      kept == {i \in S : seats[i].kept # "none"}
      names == {seats[i].name : i \in kept}
  IN  [w EXCEPT
        !.t.seats = [i \in DOMAIN seats |->
                       IF i \in kept THEN [seats[i] EXCEPT !.kept = "none"]
                       ELSE IF i \in S THEN [seats[i] EXCEPT !.pending = status]
                       ELSE seats[i]],
        !.told = [c \in Client |-> IF c \in names THEN status ELSE @[c]]]

\* m_responses[i]->reply(): with no request there the pointer is null.
YourTurn(w, i) ==
  IF w.t.seats[i].kept = "none" THEN Dies(w, "response") ELSE Notify(w, {i}, "YourTurn")

-----------------------------------------------------------------------------
(* A round                                                                 *)

\* The result of a player, against the hand that the dealer ends on.
Result(seat, dealer) ==
  LET hand == seat.hand
  IN  CASE seat.bet = 0 -> "None"
        [] seat.bet # 0 /\ hand.state = "Busted" -> "ComputerWin"
        [] seat.bet # 0 /\ hand.state = "BlackJack" ->
             IF dealer.state = "BlackJack" THEN "Push" ELSE "PlayerBlackJack"
        [] seat.bet # 0 /\ hand.state \notin {"Busted", "BlackJack"} ->
             IF dealer.state = "Busted" THEN "PlayerWin"
             ELSE IF dealer.state = "BlackJack" THEN "ComputerWin"
             ELSE IF Best(hand) < Best(dealer) THEN "ComputerWin"
             ELSE IF Best(hand) = Best(dealer) THEN "Push" ELSE "PlayerWin"

\* What a player gets back, in halves of the bet.
Share == [r \in Results |->
            CASE r = "PlayerWin" -> 4 [] r = "PlayerBlackJack" -> 5 [] r = "Push" -> 2
              [] r \in {"None", "ComputerWin"} -> 0]

\* Variant: the stake of a push is returned and stays on the table.
Pay_PushStays(seat, result, dealer) ==
  [seat EXCEPT
     !.balance = @ + (seat.bet * Share[result]) \div 2
                   + (IF dealer.state = "BlackJack" THEN 3 * seat.insurance ELSE 0),
     !.bet = IF result \in {"None", "Push"} THEN @ ELSE 0,
     !.insurance = 0]

\* The new balance of a player, and its empty bet.
Pay(seat, result, dealer) ==
  [seat EXCEPT
     !.balance = @ + (seat.bet * Share[result]) \div 2
                   + (IF dealer.state = "BlackJack" THEN 3 * seat.insurance ELSE 0),
     !.bet = IF result = "None" THEN @ ELSE 0,
     !.insurance = 0]

\* Deal() up to the lock: two cards for the dealer (0) and for everyone who has bet.
Deal(w, cards) ==
  LET seats == w.t.seats
      with == {i \in Seats(w.t) : seats[i].bet > 0}
  IN  [Takes(w, 2 * (Cardinality(with) + 1)) EXCEPT
         !.t.dealer = TwoCards(cards[0]), !.t.up = cards[0][1],
         !.t.betting = FALSE, !.t.current = 0,
         !.t.seats = [i \in DOMAIN seats |->
            [seats[i] EXCEPT
               !.hand = IF i \in with THEN TwoCards(cards[i]) ELSE NoCards,
               !.insurance = 0]]]

\* Under the lock: the first who can play is asked; the loop leaves m_currentPlayer
\* at the last player when there is none.
FirstPlayer(w) ==
  LET active == {i \in Seats(w.t) : InPlay(w.t.seats[i])}
      last == [w EXCEPT !.t.current = Len(w.t.seats)]
      first == [w EXCEPT !.t.current = Min(active)]
  IN  IF active = {} THEN last ELSE YourTurn(first, Min(active))

\* Those who have not the turn are to look at the table.
TellOthers(w) ==
  IF w.crashed # "no" THEN w ELSE Notify(w, Seats(w.t) \ {w.t.current}, "Refresh")

\* Stay() up to NextPlayer(), for the request of c; with nobody's turn it has no
\* answer.
Stay(w, c) ==
  LET i == w.t.current
      held == IF w.t.seats[i].hand.state = "Active"
              THEN [w EXCEPT !.t.seats[i].hand.state = "Held"] ELSE w
  IN  IF i = 0 THEN Tells(w, c, "nothing")
      ELSE IF i \notin Seats(w.t) THEN Dies(w, "players")
      ELSE Tells(held, c, "Refresh")

-----------------------------------------------------------------------------
Init ==
  /\ table = [seats |-> <<>>, dealer |-> NoCards, up |-> 0, betting |-> TRUE,
              current |-> 0, betsMade |-> 0, shoe |-> ShoeSize]
  /\ told = [c \in Client |-> "away"]
  /\ at = [th \in Thread |-> Idle]
  /\ crashed = "no"
  /\ disorder = 0 /\ stayed = TRUE

Becomes(w) ==
  /\ crashed = "no"
  /\ crashed' = w.crashed
  /\ IF w.crashed = "no" THEN table' = w.t /\ told' = w.told
                         ELSE UNCHANGED <<table, told>>

Disorders(comesInBetween) ==
  \/ ~comesInBetween /\ disorder' = disorder
  \/ comesInBetween /\ disorder < MaxDisorder /\ disorder' = disorder + 1

\* A player comes or goes.
ComesOrGoes(comesInBetween) ==
  Disorders(comesInBetween) /\ stayed' = (stayed /\ ~comesInBetween)

\* A request that one step serves.
Serves(w) == Becomes(w) /\ at' = at

\* A handler begins on a thread that is free, and has more to do.
Begins(th, w, next) ==
  /\ at[th] = Idle
  /\ Becomes(w)
  /\ at' = [at EXCEPT ![th] = next]
  /\ Disorders(Working) /\ UNCHANGED stayed

\* ... and goes on.
GoesOn(th, w, next) ==
  /\ Becomes(w)
  /\ at' = [at EXCEPT ![th] = next]
  /\ UNCHANGED <<disorder, stayed>>

-----------------------------------------------------------------------------
(* Players come and go                                                     *)

\* AddPlayer() and RemovePlayer().
Added(c) == Tells([Now EXCEPT !.t.seats = Append(@, NewSeat(c))], c, "PlaceBet")

Removed(c) ==
  LET gone == FindPlayer(c)
      others(seats) == SubSeq(seats, 1, gone - 1) \o SubSeq(seats, gone + 1, Len(seats))
  IN  Tells([Now EXCEPT !.t.seats = others(@)], c, "away")

\* handle_post() on a table.
Join(c) ==
  /\ told[c] = "away"
  /\ Serves(Added(c))
  /\ ComesOrGoes(Working \/ ~table.betting)

\* handle_delete()
Leave(c) ==
  /\ told[c] # "away"
  /\ Serves(Removed(c))
  /\ ComesOrGoes(Working \/ ~table.betting \/ table.betsMade > 0)

-----------------------------------------------------------------------------
(* Bets                                                                    *)

Staked(c) ==
  LET i == FindPlayer(c)
  IN  Tells([Now EXCEPT !.t.seats[i].balance = @ - Amount, !.t.seats[i].bet = @ + Amount],
            c, "nothing")

\* Bet(): the bet is on the table, and m_betsMade is read ...
Bet(th, c) ==
  /\ told[c] = "PlaceBet"
  /\ Begins(th, Staked(c), [At("count", FindPlayer(c)) EXCEPT !.count = table.betsMade])

\* ... and written ...
Count(th) ==
  /\ at[th].step = "count"
  /\ GoesOn(th, [Now EXCEPT !.t.betsMade = at[th].count + 1], At("keep", at[th].seat))

\* Variant: the request is not kept.
KeepBet_Not(th) ==
  /\ at[th].step = "keep"
  /\ GoesOn(th, Now, At("check", 0))

\* ... and the request is kept, at the index that the player had.
KeepBet(th) ==
  /\ at[th].step = "keep"
  /\ LET i == at[th].seat
     IN  GoesOn(th, IF i \in Seats(table) THEN [Now EXCEPT !.t.seats[i].kept = "bet"]
                    ELSE Dies(Now, "players"), At("check", 0))

\* With as many bets as players it deals, under the lock from here on ...
DealCards(th) ==
  /\ at[th].step = "check" /\ table.betsMade = Len(table.seats)
  /\ \E cards \in [0 .. Len(table.seats) -> CardValues \X CardValues] :
       GoesOn(th, Deal(Now, cards), At("ask", 0))

AskFirst(th) ==
  /\ at[th].step = "ask"
  /\ GoesOn(th, TellOthers(FirstPlayer(Now)), At("test", 0))

\* ... and then it looks whether m_currentPlayer is past the players, when it has
\* not dealt as well.
NobodyPast(th) ==
  /\ \/ at[th].step = "check" /\ table.betsMade # Len(table.seats)
     \/ at[th].step = "test"
  /\ table.current # Len(table.seats) + 1
  /\ GoesOn(th, Now, Idle)

-----------------------------------------------------------------------------
(* The end of a round                                                      *)

\* DealerDeal() up to the first PayUp(), with the hand that the dealer ends on.
Draws(w, dealer) ==
  [Takes(w, dealer.n - w.t.dealer.n) EXCEPT
     !.t.dealer = dealer, !.t.betting = TRUE, !.t.current = 0]

DealerDeal(th) ==
  \E dealer \in DealerHands[table.dealer] :
    GoesOn(th, Draws(Now, dealer),
           [At("pay", 1) EXCEPT
              !.results = [i \in Seats(table) |-> Result(table.seats[i], dealer)]])

\* Bet() finds m_currentPlayer past the players.
PastPlayers(th) ==
  /\ \/ at[th].step = "check" /\ table.betsMade # Len(table.seats)
     \/ at[th].step = "test"
  /\ table.current = Len(table.seats) + 1
  /\ DealerDeal(th)

\* PayUp() for a player, who came after the results or not ...
PayUp(th) ==
  LET i == at[th].seat
      result == IF i \in DOMAIN at[th].results THEN at[th].results[i] ELSE "None"
      paid == [Now EXCEPT !.t.seats[i] = Pay(@, result, table.dealer)]
  IN  /\ at[th].step = "pay" /\ i \in Seats(table)
      /\ GoesOn(th, Notify(paid, {i}, "PlaceBet"), [at[th] EXCEPT !.seat = i + 1])

\* ... and when all are paid, and told to bet, there are no bets.
ClearBets(th) ==
  /\ at[th].step = "pay" /\ at[th].seat \notin Seats(table)
  /\ GoesOn(th, [Now EXCEPT !.t.betsMade = 0], Idle)

-----------------------------------------------------------------------------
(* The turns                                                               *)

\* Variant: the next player of the table is asked, whatever its hand.
CanPlay_Any(seat) == seat.bet > 0

\* NextPlayer() answers the one that can play next ...
CanPlay(seat) == InPlay(seat)

NextPlayer(th) ==
  LET next == {i \in Seats(table) : i > table.current /\ CanPlay(table.seats[i])}
  IN  /\ at[th].step = "next"
      /\ IF next = {} THEN GoesOn(th, Now, At("assign", Len(table.seats) + 1))
         ELSE GoesOn(th, YourTurn(Now, Min(next)), At("assign", Min(next)))

\* ... then it sets m_currentPlayer, past the players when there was none, ...
AssignCurrent(th) ==
  /\ at[th].step = "assign"
  /\ GoesOn(th, [Now EXCEPT !.t.current = at[th].seat], At("settle", 0))

\* ... and then the round goes on, or the dealer deals.
RoundGoesOn(th) ==
  /\ at[th].step = "settle"
  /\ table.current \notin {0, Len(table.seats) + 1}
  /\ GoesOn(th, Now, Idle)

RoundEnds(th) ==
  /\ at[th].step = "settle"
  /\ table.current \in {0, Len(table.seats) + 1}
  /\ DealerDeal(th)

\* Variant: a request is kept though there is news for it.
Wait_Keeps(c) ==
  /\ told[c] = "Refresh"
  /\ Serves(Tells([Now EXCEPT !.t.seats[FindPlayer(c)].kept = "wait"], c, "nothing"))
  /\ UNCHANGED <<disorder, stayed>>

\* Wait(), for a refresh.
Waited(c) ==
  LET i == FindPlayer(c)
      news == table.seats[i].pending
  IN  IF news = "None"
      THEN Tells([Now EXCEPT !.t.seats[i].kept = "wait"], c, "nothing")
      ELSE Tells([Now EXCEPT !.t.seats[i].pending = "None"], c, news)

Wait(c) ==
  /\ told[c] = "Refresh"
  /\ Serves(Waited(c))
  /\ UNCHANGED <<disorder, stayed>>

\* After Stay(): NextPlayer(), if it was somebody's turn.
AfterStay == IF table.current = 0 THEN Idle ELSE At("next", 0)

\* Hit(): the card goes to the player whose turn it is, or to the dealer.
Hit(th, c) ==
  /\ told[c] = "YourTurn"
  /\ LET i == table.current
         w == Takes(Now, 1)
     IN  \E value \in CardValues :
           LET hand == AddCard(IF i = 0 THEN table.dealer ELSE table.seats[i].hand, value)
               with == IF i = 0 THEN [w EXCEPT !.t.dealer = hand]
                                ELSE [w EXCEPT !.t.seats[i].hand = hand]
           IN  IF w.crashed # "no" THEN Begins(th, w, Idle)
               ELSE IF i \notin 0 .. Len(table.seats)
               THEN Begins(th, Dies(w, "players"), Idle)
               ELSE IF hand.state # "Active" THEN Begins(th, Stay(with, c), AfterStay)
               ELSE Begins(th, Tells(with, c, "YourTurn"), At("others", 0))

\* The rest of Hit(), under the lock.
HitOthers(th) ==
  /\ at[th].step = "others"
  /\ GoesOn(th, TellOthers(Now), Idle)

StayRequest(th, c) ==
  /\ told[c] = "YourTurn"
  /\ Begins(th, Stay(Now, c), AfterStay)

\* DoubleDown(); what it forbids leaves everything as it was.
DoubleDown(th, c) ==
  /\ told[c] = "YourTurn"
  /\ table.current # 0
  /\ LET i == table.current IN
       IF i \notin Seats(table) THEN Begins(th, Dies(Now, "players"), Idle)
       ELSE /\ table.seats[i].hand.state = "Active"
            /\ table.seats[i].balance >= table.seats[i].bet
            /\ table.seats[i].hand.n = 2
            /\ \E value \in CardValues :
                 LET seat == [table.seats[i] EXCEPT
                                !.balance = @ - table.seats[i].bet,
                                !.bet = 2 * @, !.hand = AddCard(@, value)]
                     w == [Takes(Now, 1) EXCEPT !.t.seats[i] = seat]
                 IN  Begins(th, IF w.crashed # "no" THEN w ELSE Stay(w, c), AfterStay)

\* Insure(), while the dealer shows an ace.
Insure(c) ==
  /\ told[c] = "YourTurn"
  /\ LET i == FindPlayer(c)
         seat == [table.seats[i] EXCEPT !.balance = @ - Premium, !.insurance = Premium]
     IN  /\ table.seats[i].insurance = 0
         /\ table.dealer.n >= 1 /\ ~table.betting /\ table.up = 1
         /\ Serves([Now EXCEPT !.t.seats[i] = seat])
  /\ UNCHANGED <<disorder, stayed>>

-----------------------------------------------------------------------------
Requests(c) ==
  \/ Join(c) \/ Leave(c) \/ Wait(c) \/ Insure(c)
  \/ \E th \in Thread : Bet(th, c) \/ Hit(th, c) \/ StayRequest(th, c) \/ DoubleDown(th, c)

Goes(th) ==
  \/ Count(th) \/ KeepBet(th) \/ DealCards(th) \/ AskFirst(th) \/ NobodyPast(th)
  \/ PastPlayers(th) \/ PayUp(th) \/ ClearBets(th) \/ NextPlayer(th)
  \/ AssignCurrent(th) \/ RoundGoesOn(th) \/ RoundEnds(th) \/ HitOthers(th)

Next == (\E c \in Client : Requests(c)) \/ (\E th \in Thread : Goes(th))

Spec == Init /\ [][Next]_vars

-----------------------------------------------------------------------------
(* Properties                                                              *)

Statuses == {"PlaceBet", "Refresh", "YourTurn"}

Seat == [name : Client, hand : Hands, bet : Nat, insurance : Nat, balance : Int,
         kept : {"none", "bet", "wait"}, pending : Statuses \cup {"None"}]

Table == [seats : Seq(Seat), dealer : Hands, up : CardValues \cup {0},
          betting : BOOLEAN, current : Nat, betsMade : Nat, shoe : 0 .. ShoeSize]

Answers == Statuses \cup {"away", "nothing"}
Crashes == {"no", "shoe", "response", "players"}
Steps == {"idle", "count", "keep", "check", "ask", "test", "pay", "next", "assign", "settle",
          "others"}

TypeOK ==
  /\ table \in Table
  /\ told \in [Client -> Answers]
  /\ at \in [Thread -> [step : Steps, seat : Nat, count : Nat, results : Seq(Results)]]
  /\ crashed \in Crashes
  /\ disorder \in 0 .. MaxDisorder /\ stayed \in BOOLEAN
  /\ \A i, j \in Seats(table) :
       table.seats[i].name = table.seats[j].name => i = j

\* Players stay to the end of a round, and none but a request to refresh or to insure
\* comes while a handler that was begun before it is still at work.
Orderly == crashed = "no" /\ disorder = 0

\* Hit() and Stay() never ask who sends them: they act on m_currentPlayer, and the
\* answers alone say whose turn it is.  The two agree, or line 282 is about to make
\* them agree.  Somebody has the turn unless all players were dealt a blackjack: that
\* round is not over, as the comment on lines 202-204 has it, but stays as it is, with
\* nobody to act, since line 206 compares with a value that Deal() does not leave.
TurnIsCurrent ==
  Orderly =>
    /\ \A c \in Client : told[c] = "YourTurn" =>
         /\ ~table.betting
         /\ \E i \in Seats(table) :
              /\ table.seats[i].name = c /\ InPlay(table.seats[i])
              /\ \/ table.current = i
                 \/ \E th \in Thread : at[th].step = "assign" /\ at[th].seat = i
    /\ ~table.betting /\ ~Working =>
         ( (\E c \in Client : told[c] = "YourTurn")
           <=> (\E i \in Seats(table) : table.seats[i].hand.state # "BlackJack") )

\* Answers that are late are kept in two places, requests and news: no request waits
\* where there is news for it.  While bets are taken none waits for news but those
\* whom PayUp() is still to come to, and when no handler is at work the requests that
\* wait are the bets that were counted.
NobodyKeptWaiting ==
  Orderly =>
    /\ \A i \in Seats(table) :
         table.seats[i].kept # "none" => table.seats[i].pending = "None"
    /\ table.betting =>
         /\ \A i \in Seats(table) : table.seats[i].kept = "wait" =>
              \E th \in Thread : at[th].step = "pay" /\ at[th].seat <= i
         /\ Working \/ table.betsMade = Cardinality({i \in Seats(table) :
                                                       table.seats[i].kept = "bet"})

\* While bets are taken what lies on the table are the bets just made, each with its
\* request: the round before was settled to the last coin, whatever its results.
SettledRound ==
  Orderly /\ table.betting /\ ~Working =>
    \A i \in Seats(table) :
      /\ table.seats[i].insurance = 0
      /\ table.seats[i].bet = IF table.seats[i].kept = "bet" THEN Amount ELSE 0

\* Deal() and NextPlayer() answer the request of the player whose turn comes without
\* a look whether there is one.  When players stay that is missing only of a player
\* whose next refresh is still on its way; or, when one handler has come in the midst
\* of another, because a bet was counted (line 194) whose request was not kept yet
\* (line 196).  More of that brings other causes: a round paid twice, for one.
CrashExplained ==
  crashed = "response" /\ stayed /\ disorder <= 1 =>
    \/ \E i \in Seats(table) :
         InPlay(table.seats[i]) /\ told[table.seats[i].name] = "Refresh"
    \/ disorder = 1 /\ \E th \in Thread : at[th].step = "keep"

==============================================================================

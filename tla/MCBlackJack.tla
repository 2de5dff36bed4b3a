------------------------------ MODULE MCBlackJack ------------------------------
(***************************************************************************)
(* BlackJack for TLC: the players are alike, and so are the threads.       *)
(***************************************************************************)
EXTENDS BlackJack, TLC

Symmetry == Permutations(Client) \cup Permutations(Thread)

==============================================================================

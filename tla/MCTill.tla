------------------------------- MODULE MCTill -------------------------------
(* An instance of Till: two requests at a time, two cashiers.               *)
EXTENDS Till, TLC

\* Sales beside opens and closes, edits beside both.
MCLoads == {{"open", "close", "sell"}, {"open", "close", "edit"}}

Symmetric == Permutations(Workers) \union Permutations(Sessions) \union Permutations(Cashiers)
             \union Permutations(Payments)
=============================================================================

----------------------------- MODULE MCReports -----------------------------
(* An instance of Reports: two requests or tasks at a time, two days.      *)
EXTENDS Reports, TLC

\* Builds beside the orders and beside the expenses they count, and the cache on
\* its own.
MCLoads == {{"orders", "reports"}, {"expenses", "reports"}, {"overview"}}

WorkerSymmetry == Permutations(Jobs) \union Permutations(Sales)
=============================================================================

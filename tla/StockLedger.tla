---------------------------- MODULE StockLedger ----------------------------
(***************************************************************************)
(* What the stock engine promises (the header of stock_service.py and the  *)
(* docstrings of StockLevel and StockMovement), with no transactions, no   *)
(* rows and no locks: a request posts all its items in one step or has no  *)
(* effect, each item adds one movement that continues the ledger of its    *)
(* key, and the quantity on hand is always where the ledger ends.          *)
(***************************************************************************)
EXTENDS Integers, Sequences, FiniteSetsExt

CONSTANTS Keys,      \* (product, variant, warehouse) triples of one tenant
          Batches,   \* the posted requests: functions from positions, 1 and on, to
                     \* items [key, qty]; a sequence is one
          Holds      \* the reserved or released quantities

VARIABLES onHand,    \* [Keys -> Int], StockLevel.quantity
          reserved,  \* [Keys -> Nat], StockLevel.reserved_quantity
          ledger,    \* [Keys -> Seq(movement)], StockMovement rows in order
          negativeOK \* the tenant has allowed negative stock at some time

vars == <<onHand, reserved, ledger, negativeOK>>

\* A stock whose keys have received an opening quantity, 0 for no row.
Opened(opening) ==
  /\ onHand = opening
  /\ reserved = [k \in Keys |-> 0]
  /\ ledger = [k \in Keys |->
       IF opening[k] = 0 THEN <<>>
       ELSE <<[before |-> 0, delta |-> opening[k], after |-> opening[k]]>>]
  /\ negativeOK \in BOOLEAN

Init == Opened([k \in Keys |-> 0])

\* The positions of a batch that are about k, and what items add up to.
ItemsOf(batch, k) == {i \in DOMAIN batch : batch[i].key = k}

Change(batch, items) == SumFunctionOnSet([i \in DOMAIN batch |-> batch[i].qty], items)

\* What the first n positions of the batch make of a quantity of k.
Running(quantity, batch, k, n) == quantity + Change(batch, {i \in ItemsOf(batch, k) : i <= n})

\* The nth position of a set of them.
Nth(items, n) == CHOOSE i \in items : Cardinality({j \in items : j <= i}) = n

\* One movement per item of k, in the order of the batch.
NewMovements(quantity, batch, k) ==
  LET items == ItemsOf(batch, k)
  IN  [n \in 1..Cardinality(items) |->
         LET i == Nth(items, n)
         IN  [before |-> Running(quantity, batch, k, i - 1),
              delta  |-> batch[i].qty,
              after  |-> Running(quantity, batch, k, i)]]

\* No item is zero and none takes a key below zero, unless the tenant has
\* allowed that.
Fits(batch) ==
  \A i \in DOMAIN batch :
    /\ batch[i].qty # 0
    /\ LET k == batch[i].key
       IN  k \in Keys /\ Running(onHand[k], batch, k, i) < 0 => negativeOK

\* A whole request: every item or none.
Post(batch) ==
  /\ Fits(batch)
  /\ onHand' = [k \in Keys |-> onHand[k] + Change(batch, ItemsOf(batch, k))]
  /\ ledger' = [k \in Keys |-> ledger[k] \o NewMovements(onHand[k], batch, k)]
  /\ UNCHANGED <<reserved, negativeOK>>

Reserve(k, q) ==
  /\ ledger[k] # <<>>
  /\ q <= Max({onHand[k] - reserved[k], 0})
  /\ reserved' = [reserved EXCEPT ![k] = @ + q]
  /\ UNCHANGED <<onHand, ledger, negativeOK>>

\* Mutant: no floor of zero.
ReleaseUnclamped(k, q) ==
  /\ reserved' = [reserved EXCEPT ![k] = @ - q]
  /\ UNCHANGED <<onHand, ledger, negativeOK>>

Release(k, q) ==
  /\ reserved' = [reserved EXCEPT ![k] = Max({@ - q, 0})]
  /\ UNCHANGED <<onHand, ledger, negativeOK>>

AllowNegative ==
  /\ negativeOK' = TRUE
  /\ UNCHANGED <<onHand, reserved, ledger>>

Next ==
  \/ \E batch \in Batches : Post(batch)
  \/ \E k \in Keys, q \in Holds : Reserve(k, q) \/ Release(k, q)
  \/ AllowNegative

Spec == Init /\ [][Next]_vars
=============================================================================

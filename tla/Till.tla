-------------------------------- MODULE Till --------------------------------
(***************************************************************************)
(* The point-of-sale sessions of one tenant: opening a session closes the  *)
(* cashier's others, closing one adds up the cash its orders were paid.    *)
(* Sales, payments, edits and deletions run beside both.  A statement sees *)
(* what is committed; rows updated in a transaction are locked to its end. *)
(* An amount is the set of payments it adds up, so that equal sets are     *)
(* equal sums.                                                             *)
(***************************************************************************)
EXTENDS Integers, FiniteSets

CONSTANTS
  Workers,         \* requests in flight at one time
  Sessions,        \* primary keys of POSSession, each drawn once
  Cashiers,
  Orders,          \* primary keys of SalesOrder, each drawn once
  Payments,        \* primary keys of Payment, each drawn once
  Floats,          \* the amounts of cash a till is opened and closed with
  Loads,           \* the kinds of request that run together, one set a behaviour
  None             \* no session, no row, no closing float

\* expected_cash is a float and the payments on top of it.
POSSession == [cashier : Cashiers, status : {"open", "closed"}, opening_float : Floats,
               closing_float : Floats \union {None},
               expected_cash : {<<>>} \union (Floats \X SUBSET Payments)]

Payment == [order : Orders, method : {"cash", "card"}]

ASSUME TillAssumption ==
  /\ IsFiniteSet(Workers)
  /\ \A l \in Loads : l \subseteq {"open", "close", "edit", "sell"}
  /\ None \notin Sessions \union Floats \union POSSession \union Payment
  /\ {"unborn", "deleted"} \intersect (Sessions \union {None}) = {}

VARIABLES
  row,             \* [Sessions -> the committed POSSession row, or None]
  unused,          \* primary keys of sessions not drawn yet
  order,           \* [Orders -> its pos_session, None, "unborn" or "deleted"]
  payment,         \* [Payments -> the row, or None]
  pc,              \* [Workers -> "idle", "opening", "closing", "summed", "editing"]
  session,         \* [Workers -> the session it works on, or None]
  copy,            \* [Workers -> the row as fetched, or None]
  found,           \* [Workers -> the rows its open's UPDATE has still to go through]
  scan,            \* [Workers -> the rows its open has updated, not committed]
  sum,             \* [Workers -> the cash_sales its close has added up]
  load,            \* the kinds of request this behaviour serves
  \* History, read by no action.
  summed,          \* sessions of which a close has taken the sum
  late,            \* those whose cash has changed since
  edited           \* sessions a PUT or PATCH has saved

request == <<pc, session, copy, found, scan, sum>>
books   == <<row, unused, order, payment>>
history == <<summed, late, edited>>
tillVars == <<books, request, load, history>>

Present == {s \in Sessions : row[s] # None}
OpenSessions(c) == {s \in Present : row[s].cashier = c /\ row[s].status = "open"}

\* Rows that an open has updated and not committed: other writers wait.
Locked == UNION {scan[w] : w \in Workers}

-----------------------------------------------------------------------------
TillInit ==
  /\ row = [s \in Sessions |-> None]
  /\ unused = Sessions
  /\ order = [o \in Orders |-> "unborn"]
  /\ payment = [p \in Payments |-> None]
  /\ pc = [w \in Workers |-> "idle"]
  /\ session = [w \in Workers |-> None]
  /\ copy = [w \in Workers |-> None]
  /\ found = [w \in Workers |-> {}]
  /\ scan = [w \in Workers |-> {}]
  /\ sum = [w \in Workers |-> {}]
  /\ load \in Loads
  /\ summed = {} /\ late = {} /\ edited = {}

Begin(w, state, s, r, rows) ==
  /\ pc[w] = "idle"
  /\ pc' = [pc EXCEPT ![w] = state]
  /\ session' = [session EXCEPT ![w] = s]
  /\ copy' = [copy EXCEPT ![w] = r]
  /\ found' = [found EXCEPT ![w] = rows]
  /\ UNCHANGED <<scan, sum>>

Respond(w) ==
  /\ pc' = [pc EXCEPT ![w] = "idle"]
  /\ session' = [session EXCEPT ![w] = None]
  /\ copy' = [copy EXCEPT ![w] = None]
  /\ found' = [found EXCEPT ![w] = {}]
  /\ scan' = [scan EXCEPT ![w] = {}]
  /\ sum' = [sum EXCEPT ![w] = {}]

-----------------------------------------------------------------------------
(* Open: one transaction, an UPDATE and an INSERT.  The UPDATE goes by the  *)
(* rows that were committed when it began.  It waits for a row another      *)
(* transaction has locked and then looks at that row again, but never at    *)
(* rows that have been inserted since.                                      *)

\* Mutant: exclude(cashier) in the place of filter(cashier).
StaleElsewhere(c) == UNION {OpenSessions(d) : d \in Cashiers \ {c}}

\* The sessions the UPDATE finds: what other opens are inserting is not there.
Stale(c) == OpenSessions(c)

OpenScan(w, s, c, opening_float) ==
  /\ s \in unused /\ "open" \in load
  /\ Begin(w, "opening", s,
           [cashier |-> c, status |-> "open", opening_float |-> opening_float,
            closing_float |-> None, expected_cash |-> <<>>], Stale(c))
  /\ unused' = unused \ {s}
  /\ UNCHANGED <<row, order, payment, summed, edited>>

\* One of these rows, free now: it is passed over if it no longer matches.
OpenUpdate(w, s) ==
  /\ pc[w] = "opening"
  /\ s \in found[w] \ Locked
  /\ found' = [found EXCEPT ![w] = @ \ {s}]
  /\ scan' = [scan EXCEPT ![w] = @ \union ({s} \intersect OpenSessions(copy[w].cashier))]
  /\ UNCHANGED <<books, pc, session, copy, sum, summed, edited>>

OpenCommit(w) ==
  /\ pc[w] = "opening"
  /\ found[w] = {}
  /\ row' = [s \in Sessions |->
               IF s = session[w] THEN copy[w]
               ELSE IF s \in scan[w] THEN [row[s] EXCEPT !.status = "closed"]
               ELSE row[s]]
  /\ Respond(w)
  /\ UNCHANGED <<unused, order, payment, summed, edited>>

-----------------------------------------------------------------------------
(* Close: the view's check, the sum of the cash, the write.                *)

CloseFetch(w, s) ==
  /\ "close" \in load
  /\ s \in Present /\ row[s].status = "open"
  /\ Begin(w, "closing", s, row[s], {})
  /\ UNCHANGED <<books, summed, edited>>

Takings(s, methods) ==
  {p \in Payments : payment[p] # None /\ payment[p].method \in methods
                                     /\ order[payment[p].order] = s}

\* Mutant: every payment counts, whatever its method.
AllSales(s) == Takings(s, {"cash", "card"})

CashSales(s) == Takings(s, {"cash"})

CloseSum(w) ==
  /\ pc[w] = "closing"
  /\ pc' = [pc EXCEPT ![w] = "summed"]
  /\ sum' = [sum EXCEPT ![w] = CashSales(session[w])]
  /\ summed' = summed \union {session[w]}
  /\ UNCHANGED <<books, session, copy, found, scan, edited>>

\* save(update_fields): an UPDATE by primary key, an error if the row has gone.
CloseSave(w, closing_float) ==
  /\ pc[w] = "summed"
  /\ session[w] \notin Locked
  /\ row' = IF session[w] \in Present
            THEN [row EXCEPT ![session[w]] =
                    [@ EXCEPT !.status = "closed", !.closing_float = closing_float,
                              !.expected_cash = <<copy[w].opening_float, sum[w]>>]]
            ELSE row
  /\ Respond(w)
  /\ UNCHANGED <<unused, order, payment, summed, edited>>

-----------------------------------------------------------------------------
(* The generic PUT, PATCH and DELETE of a session.                         *)

EditFetch(w, s) ==
  /\ "edit" \in load
  /\ s \in Present
  /\ Begin(w, "editing", s, row[s], {})
  /\ UNCHANGED <<books, summed, edited>>

\* save() writes every column: the client's, and the others as fetched, the
\* status among them.  A row deleted meanwhile is inserted again.
EditSave(w, c, opening_float, closing_float) ==
  /\ pc[w] = "editing"
  /\ session[w] \notin Locked
  /\ row' = [row EXCEPT ![session[w]] =
               [copy[w] EXCEPT !.cashier = c, !.opening_float = opening_float,
                               !.closing_float = closing_float]]
  /\ edited' = edited \union {session[w]}
  /\ Respond(w)
  /\ UNCHANGED <<unused, order, payment, summed>>

\* The orders stay, without a session (SET_NULL).  An UPDATE that waits for the
\* row finds it gone, even if an edit inserts it again.
DestroySession(s) ==
  /\ s \in Present \ Locked
  /\ row' = [row EXCEPT ![s] = None]
  /\ order' = [o \in Orders |-> IF order[o] = s THEN None ELSE order[o]]
  /\ found' = [w \in Workers |-> found[w] \ {s}]
  /\ UNCHANGED <<unused, payment, pc, session, copy, scan, sum, summed, edited>>

-----------------------------------------------------------------------------
(* What the sessions' orders go through meanwhile.                         *)

\* create_order: the new order has no session, or any there is, open or not, for
\* a check that its caller made of the status is past by then.
CreateOrder(o, s) ==
  /\ "sell" \in load
  /\ order[o] = "unborn"
  /\ s \in Present \union {None}
  /\ order' = [order EXCEPT ![o] = s]
  /\ UNCHANGED <<row, unused, payment, request, summed, edited>>

\* record_payment never looks at the session.
Pay(p, o, method) ==
  /\ order[o] \notin {"unborn", "deleted"}
  /\ payment[p] = None
  /\ payment' = [payment EXCEPT ![p] = [order |-> o, method |-> method]]
  /\ UNCHANGED <<row, unused, order, request, summed, edited>>

\* PUT or PATCH of an order writes its pos_session, open or not.
MoveOrder(o, s) ==
  /\ order[o] \notin {"unborn", "deleted"}
  /\ s \in Present \union {None}
  /\ order' = [order EXCEPT ![o] = s]
  /\ UNCHANGED <<row, unused, payment, request, summed, edited>>

\* DELETE of an order takes its payments along.
DestroyOrder(o) ==
  /\ order[o] \notin {"unborn", "deleted"}
  /\ order' = [order EXCEPT ![o] = "deleted"]
  /\ UNCHANGED <<row, unused, payment, request, summed, edited>>

-----------------------------------------------------------------------------
\* The request dies: its transaction is rolled back.
Fail(w) ==
  /\ pc[w] # "idle"
  /\ Respond(w)
  /\ UNCHANGED <<books, summed, edited>>

Step ==
  \/ \E w \in Workers :
       \/ \E s \in Sessions, c \in Cashiers, f \in Floats : OpenScan(w, s, c, f)
       \/ \E s \in Sessions : OpenUpdate(w, s)
       \/ OpenCommit(w)
       \/ \E s \in Sessions : CloseFetch(w, s) \/ EditFetch(w, s)
       \/ CloseSum(w)
       \/ \E f \in Floats : CloseSave(w, f)
       \/ \E c \in Cashiers, f \in Floats, g \in Floats \union {None} : EditSave(w, c, f, g)
       \/ Fail(w)
  \/ \E s \in Sessions : DestroySession(s)
  \/ \E o \in Orders :
       \/ \E p \in Payments, m \in {"cash", "card"} : Pay(p, o, m)
       \/ \E s \in Sessions \union {None} : CreateOrder(o, s) \/ MoveOrder(o, s)
       \/ DestroyOrder(o)

\* The cash taken for a session, as a person would count it.
Drawer(s, orders, payments) ==
  {p \in Payments : payments[p] # None /\ payments[p].method = "cash"
                                       /\ orders[payments[p].order] = s}

TillNext ==
  /\ Step
  /\ UNCHANGED load
  /\ late' = late \union
       {s \in summed : Drawer(s, order', payment') # Drawer(s, order, payment)}

TillSpec == TillInit /\ [][TillNext]_tillVars

-----------------------------------------------------------------------------
(* Properties.                                                             *)

\* close_pos_session (sales_service.py:185-203): however closes, opens, sales
\* and payments interleave, the expected cash of a counted till is what is in it,
\* unless its orders' cash changed after a close had added it up, or the row was
\* edited by hand.  There is no other way to a false variance.
VarianceExplained ==
  \A s \in Present \ (late \union edited) :
     (row[s].status = "closed" /\ row[s].closing_float # None)
       => row[s].expected_cash = <<row[s].opening_float, Drawer(s, order, payment)>>

\* "Close any stale open session for this cashier" (sales_service.py:170) holds
\* up to the opens that overlap: one that waits for a lock closes what it had
\* found and not what was inserted meanwhile, but never a second session of one
\* worker is left open.
OpenSessionsBounded ==
  \A c \in Cashiers : Cardinality(OpenSessions(c) \ edited) <= Cardinality(Workers)

TillTypeOK ==
  /\ row \in [Sessions -> POSSession \union {None}]
  /\ unused \subseteq Sessions \ Present
  /\ order \in [Orders -> Present \union {None, "unborn", "deleted"}]
  /\ payment \in [Payments -> Payment \union {None}]
  /\ pc \in [Workers -> {"idle", "opening", "closing", "summed", "editing"}]
  /\ session \in [Workers -> (Sessions \ unused) \union {None}]
  /\ copy \in [Workers -> POSSession \union {None}]
  /\ found \in [Workers -> SUBSET Sessions]
  /\ scan \in [Workers -> SUBSET Present]
  /\ sum \in [Workers -> SUBSET Payments]
  /\ summed \subseteq Sessions \ unused
  /\ \A w \in Workers : pc[w] # "opening" => scan[w] = {}

-----------------------------------------------------------------------------
(* The inductive invariant behind them.                                    *)

\* An open holds the key of a row that only it will write, and locks for itself.
OpensHold ==
  \A w \in Workers : pc[w] = "opening" =>
     /\ copy[w] \in POSSession /\ copy[w].status = "open" /\ copy[w].closing_float = None
     /\ session[w] \in Sessions \ (Present \union summed)
     /\ \A v \in Workers \ {w} : session[v] # session[w] /\ scan[v] \intersect scan[w] = {}

\* The copies that closes and edits hold, and the sums.
CopiesHold ==
  \A w \in Workers :
     /\ pc[w] \in {"closing", "summed", "editing"}
          => session[w] \in Sessions /\ copy[w] \in POSSession
     /\ (pc[w] \in {"closing", "summed"} /\ session[w] \in Present \ edited)
          => copy[w].opening_float = row[session[w]].opening_float
     /\ pc[w] = "summed"
          => /\ session[w] \in summed
             /\ session[w] \notin late => sum[w] = Drawer(session[w], order, payment)

\* The tills that were counted.
CountsHold ==
  \A s \in Present \ edited : row[s].closing_float # None =>
     /\ s \in summed
     /\ s \notin late => row[s].expected_cash = <<row[s].opening_float, Drawer(s, order, payment)>>

\* What an open in progress will not close was opened by other workers, so each
\* worker has left at most one session of a cashier open.
LeftOpenBy(opener) ==
  /\ \A w \in Workers : pc[w] = "opening" =>
       \A s \in OpenSessions(copy[w].cashier) \ edited :
         opener[s] = w => s \in found[w] \union scan[w]
  /\ \A c \in Cashiers : \A s, t \in OpenSessions(c) \ edited :
       /\ opener[s] \in Workers
       /\ opener[s] = opener[t] => s = t

OpenedOnce == \E opener \in [Sessions -> Workers \union {None}] : LeftOpenBy(opener)

TInv == TillTypeOK /\ OpensHold /\ CopiesHold /\ CountsHold /\ OpenedOnce
=============================================================================

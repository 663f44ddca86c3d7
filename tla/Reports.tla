------------------------------ MODULE Reports ------------------------------
(***************************************************************************)
(* The books of one tenant and what is derived from them: its expenses and *)
(* their approval, the daily summary that tasks build with one query after *)
(* another, and the dashboard overview kept in the cache.  No transaction  *)
(* spans two steps.  A figure is the set of rows it adds up, so that equal *)
(* sets are equal sums.                                                    *)
(***************************************************************************)
EXTENDS Integers, FiniteSets

CONSTANTS
  Jobs,            \* requests and tasks in flight at one time
  Sales,           \* the sales orders
  Expenses,        \* primary keys of Expense, each inserted once
  Amounts,         \* what an expense comes to, tax included
  MaxDay,          \* bound: the days are 1..MaxDay
  TTL,             \* CACHE_TTL
  Timeout,         \* the time after which the server kills a request
  MaxTime,         \* bound on the clock
  Mixes,           \* the kinds of work that run together, one set a behaviour
  Absent

Days == 1..MaxDay

Expense == [status : {"draft", "submitted", "approved"}, amount : Amounts,
            total : Amounts, approved_by : {"nobody", "user"}, expense_date : Days]

ASSUME ReportsAssumption ==
  /\ Amounts \subseteq Nat
  /\ MaxDay \in Nat \ {0} /\ TTL \in Nat \ {0} /\ Timeout \in Nat /\ MaxTime \in Nat
  /\ Absent \notin Expenses \union Expense

VARIABLES
  counted,         \* [Sales -> the order_date it is confirmed under, or Absent]
  expense,         \* [Expenses -> the committed row, or Absent]
  undrawn,         \* primary keys not drawn yet
  today,
  summary,         \* [Days -> the FinancialSummary row, or Absent]
  now,             \* the clock of the cache
  cache,           \* the cached overview, or Absent
  doing,           \* [Jobs -> what it is doing]
  target,          \* [Jobs -> the expense it works on, or Absent]
  fetched,         \* [Jobs -> that row as fetched, or Absent]
  date,            \* [Jobs -> the day it builds]
  seen,            \* [Jobs -> the figures its queries have returned]
  since,           \* [Jobs -> when its overview's first query ran]
  mix,             \* the kinds of work of this behaviour
  \* History, read by no action.
  begun,           \* days a build has begun to read
  touched          \* those whose figures have changed since

ledger  == <<counted, expense, undrawn>>
derived == <<summary, cache>>
job     == <<doing, target, fetched, date, seen, since>>
clock   == <<today, now>>
reportsVars == <<ledger, derived, job, clock, mix, begun, touched>>

FinancialSummary ==
  [total_revenue : SUBSET Sales, order_count : SUBSET Sales, total_cogs : SUBSET Sales,
   total_expenses : SUBSET (Expenses \X Amounts)]

States == {"idle", "submitting", "approving", "editing", "overview",
           "build", "revenue", "count", "cogs", "expenses"}

Nothing == [total_revenue |-> {}, order_count |-> {}, total_cogs |-> {}, total_expenses |-> {}]

Sold(d) == {o \in Sales : counted[o] = d}

Spent(d) ==
  {<<e, expense[e].total>> : e \in
     {x \in Expenses : expense[x] # Absent /\ expense[x].status = "approved"
                                         /\ expense[x].expense_date = d}}

-----------------------------------------------------------------------------
ReportsInit ==
  /\ counted = [o \in Sales |-> Absent]
  /\ expense = [e \in Expenses |-> Absent]
  /\ undrawn = Expenses
  /\ today = 1 /\ now = 0
  /\ summary = [d \in Days |-> Absent]
  /\ cache = Absent
  /\ doing = [w \in Jobs |-> "idle"]
  /\ target = [w \in Jobs |-> Absent]
  /\ fetched = [w \in Jobs |-> Absent]
  /\ date = [w \in Jobs |-> 1]
  /\ seen = [w \in Jobs |-> Nothing]
  /\ since = [w \in Jobs |-> 0]
  /\ mix \in Mixes
  /\ begun = {} /\ touched = {}

BeginJob(w, state, e, r) ==
  /\ doing[w] = "idle"
  /\ doing' = [doing EXCEPT ![w] = state]
  /\ target' = [target EXCEPT ![w] = e]
  /\ fetched' = [fetched EXCEPT ![w] = r]

EndJob(w) ==
  /\ doing' = [doing EXCEPT ![w] = "idle"]
  /\ target' = [target EXCEPT ![w] = Absent]
  /\ fetched' = [fetched EXCEPT ![w] = Absent]
  /\ date' = [date EXCEPT ![w] = 1]
  /\ seen' = [seen EXCEPT ![w] = Nothing]
  /\ since' = [since EXCEPT ![w] = 0]

-----------------------------------------------------------------------------
(* Expenses.                                                               *)

\* Expense.save: the total is computed once, while it is zero.
Saved(r) == [r EXCEPT !.total = IF @ = 0 THEN r.amount ELSE @]

CreateExpense(e, amount, d) ==
  /\ "expenses" \in mix
  /\ e \in undrawn
  /\ undrawn' = undrawn \ {e}
  /\ expense' = [expense EXCEPT ![e] =
       Saved([status |-> "draft", amount |-> amount, total |-> 0,
              approved_by |-> "nobody", expense_date |-> d])]
  /\ UNCHANGED <<counted, derived, job, clock, begun>>

\* get_object, and the status that submit, approve or nothing asks for.
Fetch(w, e, state) ==
  /\ "expenses" \in mix
  /\ expense[e] # Absent
  /\ state = "submitting" => expense[e].status = "draft"
  /\ state = "approving" => expense[e].status = "submitted"
  /\ BeginJob(w, state, e, expense[e])
  /\ UNCHANGED <<ledger, derived, date, seen, since, clock, begun>>

\* save(update_fields) after that check: an error if the row has gone.
Submit(w) ==
  /\ doing[w] = "submitting"
  /\ expense' = IF expense[target[w]] # Absent
                THEN [expense EXCEPT ![target[w]] = [@ EXCEPT !.status = "submitted"]]
                ELSE expense
  /\ EndJob(w)
  /\ UNCHANGED <<counted, undrawn, derived, clock, begun>>

Approve(w) ==
  /\ doing[w] = "approving"
  /\ expense' = IF expense[target[w]] # Absent
                THEN [expense EXCEPT ![target[w]] =
                        [@ EXCEPT !.status = "approved", !.approved_by = "user"]]
                ELSE expense
  /\ EndJob(w)
  /\ UNCHANGED <<counted, undrawn, derived, clock, begun>>

\* Mutant: an edit takes the approver away and leaves the status as it was.
EditUnapproved(w, amount, d) ==
  /\ doing[w] = "editing"
  /\ expense' = [expense EXCEPT ![target[w]] =
       Saved([fetched[w] EXCEPT !.amount = amount, !.expense_date = d, !.approved_by = "nobody"])]
  /\ EndJob(w)
  /\ UNCHANGED <<counted, undrawn, derived, clock, begun>>

\* PUT or PATCH writes every column: the client's amount and date, the rest as
\* fetched, status, approval and total among it; a row that has gone comes back.
Edit(w, amount, d) ==
  /\ doing[w] = "editing"
  /\ expense' = [expense EXCEPT ![target[w]] =
       Saved([fetched[w] EXCEPT !.amount = amount, !.expense_date = d])]
  /\ EndJob(w)
  /\ UNCHANGED <<counted, undrawn, derived, clock, begun>>

DestroyExpense(e) ==
  /\ expense[e] # Absent
  /\ expense' = [expense EXCEPT ![e] = Absent]
  /\ UNCHANGED <<counted, undrawn, derived, job, clock, begun>>

\* Orders: confirmed, cancelled, deleted or edited, they come to count under a
\* day or cease to.
ChangeOrder(o, d) ==
  /\ "orders" \in mix
  /\ counted[o] # d
  /\ counted' = [counted EXCEPT ![o] = d]
  /\ UNCHANGED <<expense, undrawn, derived, job, clock, begun>>

-----------------------------------------------------------------------------
(* The daily summary.                                                      *)

NextDay ==
  /\ today < MaxDay
  /\ today' = today + 1
  /\ UNCHANGED <<ledger, derived, job, now, begun>>

\* The beat or a user starts a build of the day there is then; the tenants
\* before this one in the loop may take it past midnight.
Start(w) ==
  /\ "reports" \in mix
  /\ BeginJob(w, "build", Absent, Absent)
  /\ date' = [date EXCEPT ![w] = today]
  /\ UNCHANGED <<ledger, derived, seen, since, clock, begun>>

Query(w, from, to, figures) ==
  /\ doing[w] = from
  /\ doing' = [doing EXCEPT ![w] = to]
  /\ seen' = [seen EXCEPT ![w] = figures]
  /\ UNCHANGED <<ledger, derived, target, fetched, date, since, clock>>

ReadRevenue(w) ==
  /\ Query(w, "build", "revenue", [seen[w] EXCEPT !.total_revenue = Sold(date[w])])
  /\ begun' = begun \union {date[w]}

CountOrders(w) ==
  Query(w, "revenue", "count", [seen[w] EXCEPT !.order_count = Sold(date[w])]) /\ UNCHANGED begun

ReadCogs(w) ==
  Query(w, "count", "cogs", [seen[w] EXCEPT !.total_cogs = Sold(date[w])]) /\ UNCHANGED begun

\* Mutant: the day is asked for again when the expenses are read.
ReadExpensesOfToday(w) ==
  Query(w, "cogs", "expenses", [seen[w] EXCEPT !.total_expenses = Spent(today)]) /\ UNCHANGED begun

ReadExpenses(w) ==
  Query(w, "cogs", "expenses", [seen[w] EXCEPT !.total_expenses = Spent(date[w])]) /\ UNCHANGED begun

\* update_or_create: the last build to get here is the one that stays.
WriteSummary(w) ==
  /\ doing[w] = "expenses"
  /\ summary' = [summary EXCEPT ![date[w]] = seen[w]]
  /\ EndJob(w)
  /\ UNCHANGED <<ledger, cache, clock, begun>>

-----------------------------------------------------------------------------
\* The request dies, or the task fails: the loop logs it and goes on.
FailJob(w) ==
  /\ doing[w] # "idle"
  /\ EndJob(w)
  /\ UNCHANGED <<ledger, derived, clock, begun>>

-----------------------------------------------------------------------------
(* The overview.                                                           *)

\* Nothing fresh in the cache: the figures are read from here on.
Miss(w) ==
  /\ "overview" \in mix
  /\ cache = Absent
  /\ BeginJob(w, "overview", Absent, Absent)
  /\ since' = [since EXCEPT ![w] = now]
  /\ UNCHANGED <<ledger, derived, date, seen, clock, begun>>

\* Mutant: a key that is there is kept as much longer.
StoreProlongs(w) ==
  /\ doing[w] = "overview"
  /\ cache' = [at |-> since[w],
               expires |-> IF cache = Absent THEN now + TTL ELSE cache.expires + TTL]
  /\ EndJob(w)
  /\ UNCHANGED <<ledger, summary, clock, begun>>

\* cache.set, once all of them are there; it replaces what another has set.
Store(w) ==
  /\ doing[w] = "overview"
  /\ cache' = [at |-> since[w], expires |-> now + TTL]
  /\ EndJob(w)
  /\ UNCHANGED <<ledger, summary, clock, begun>>

\* A key goes when its time is up, or before it if the cache needs the room.
Evict ==
  /\ cache # Absent
  /\ cache' = Absent
  /\ UNCHANGED <<ledger, summary, job, clock, begun>>

\* Time passes; a key whose time is up is not there, and no request outlives
\* the server's timeout.
Tick ==
  /\ "overview" \in mix
  /\ now < MaxTime
  /\ cache # Absent => now < cache.expires
  /\ \A w \in Jobs : doing[w] = "overview" => now - since[w] < Timeout
  /\ now' = now + 1
  /\ UNCHANGED <<ledger, derived, job, today, begun>>

-----------------------------------------------------------------------------
ReportsStep ==
  \/ \E e \in Expenses, amount \in Amounts, d \in Days : CreateExpense(e, amount, d)
  \/ \E e \in Expenses : DestroyExpense(e)
  \/ \E o \in Sales, d \in Days \union {Absent} : ChangeOrder(o, d)
  \/ \E w \in Jobs :
       \/ \E e \in Expenses : \E state \in {"submitting", "approving", "editing"} :
            Fetch(w, e, state)
       \/ Submit(w) \/ Approve(w)
       \/ \E amount \in Amounts, d \in Days : Edit(w, amount, d)
       \/ Start(w) \/ ReadRevenue(w) \/ CountOrders(w) \/ ReadCogs(w) \/ ReadExpenses(w)
       \/ WriteSummary(w)
       \/ Miss(w) \/ Store(w)
       \/ FailJob(w)
  \/ NextDay \/ Evict \/ Tick

ReportsNext ==
  /\ ReportsStep
  /\ touched' = touched \union
       {d \in begun : Sold(d)' # Sold(d) \/ Spent(d)' # Spent(d)}
  /\ UNCHANGED mix

ReportsSpec == ReportsInit /\ [][ReportsNext]_reportsVars

-----------------------------------------------------------------------------
(* Properties.                                                             *)

Books(d) == [total_revenue |-> Sold(d), order_count |-> Sold(d), total_cogs |-> Sold(d),
             total_expenses |-> Spent(d)]

\* _build_daily_summary (analytics/tasks.py:35-80): a summary is the books of
\* its day to the last figure unless those changed after a build of that day
\* had begun.  Builds of one day that overlap, one that runs past midnight, and
\* one that dies half-way do no harm.
SummaryExplained ==
  \A d \in Days : (summary[d] # Absent /\ d \notin touched) => summary[d] = Books(d)

\* get_overview (dashboard_service.py:26-108): what is served from the cache is
\* older than CACHE_TTL by no more than a request may run: the slower of two that
\* miss stores figures that were read before the other's.
OverviewIsRecent == cache # Absent => now - cache.at <= TTL + Timeout

\* Approved expenses are those an approver approved, whatever copies were saved.
ApprovedByApprover ==
  \A e \in Expenses :
     (expense[e] # Absent /\ expense[e].status = "approved") => expense[e].approved_by # "nobody"

ReportsTypeOK ==
  /\ counted \in [Sales -> Days \union {Absent}]
  /\ expense \in [Expenses -> Expense \union {Absent}]
  /\ undrawn \subseteq {e \in Expenses : expense[e] = Absent}
  /\ today \in Days /\ now \in Nat
  /\ summary \in [Days -> FinancialSummary \union {Absent}]
  /\ cache \in [at : Nat, expires : Nat] \union {Absent}
  /\ doing \in [Jobs -> States]
  /\ target \in [Jobs -> Expenses \union {Absent}]
  /\ fetched \in [Jobs -> Expense \union {Absent}]
  /\ date \in [Jobs -> Days]
  /\ seen \in [Jobs -> FinancialSummary]
  /\ since \in [Jobs -> Nat]

-----------------------------------------------------------------------------
(* The inductive invariant behind them.                                    *)

Approved(r) == r # Absent /\ r.status = "approved"

Reading(w) == doing[w] \in {"revenue", "count", "cogs", "expenses"}

\* What a build of an untouched day has read so far is still so.
ReadsHold(w) ==
  /\ seen[w].total_revenue = Sold(date[w])
  /\ doing[w] \in {"count", "cogs", "expenses"} => seen[w].order_count = Sold(date[w])
  /\ doing[w] \in {"cogs", "expenses"} => seen[w].total_cogs = Sold(date[w])
  /\ doing[w] = "expenses" => seen[w].total_expenses = Spent(date[w])

BuildsHold ==
  \A w \in Jobs : Reading(w) =>
     date[w] \in begun /\ (date[w] \notin touched => ReadsHold(w))

OverviewsHold ==
  /\ \A w \in Jobs : doing[w] = "overview" => since[w] <= now /\ now - since[w] <= Timeout
  /\ cache # Absent => now <= cache.expires /\ cache.expires - cache.at <= TTL + Timeout

RInv ==
  /\ ReportsTypeOK
  /\ \A w \in Jobs : doing[w] \in {"submitting", "approving", "editing"}
                           => target[w] \in Expenses \ undrawn /\ fetched[w] \in Expense
  /\ ApprovedByApprover
  /\ \A w \in Jobs : Approved(fetched[w]) => fetched[w].approved_by # "nobody"
  /\ \A d \in Days : summary[d] # Absent => d \in begun
  /\ SummaryExplained
  /\ BuildsHold
  /\ OverviewsHold
=============================================================================

--------------------------- MODULE FinanceProofs ----------------------------
(*****************************************************************************)
(* Theorems about money: Till, the sessions of a point of sale, and Reports, *)
(* the expenses and the daily figures, each for every value of its constants.*)
(* The two share no state and no name.                                       *)
(*****************************************************************************)
EXTENDS Till, Reports, FiniteSetTheorems, TLAPS

-----------------------------------------------------------------------------
(* Till: types.                                                            *)

LEMMA TakingsType == ASSUME NEW s PROVE CashSales(s) \in SUBSET Payments
BY DEF CashSales, Takings

\* Writing one row, with a key that is in use.
LEMMA RowWritten ==
  ASSUME TillTypeOK, NEW s \in Sessions \ unused, NEW r \in POSSession,
         row' = [row EXCEPT ![s] = r]
  PROVE  /\ row' \in [Sessions -> POSSession \union {None}]
         /\ Present' = Present \union {s}
BY TillAssumption DEF TillTypeOK, Present

LEMMA InitTypeOK == TillInit => TillTypeOK
BY DEF TillInit, TillTypeOK, Present

LEMMA NextTypeOK ==
  ASSUME TillTypeOK, OpensHold, CopiesHold, [TillNext]_tillVars
  PROVE  TillTypeOK'
<1> USE DEF TillTypeOK
<1>1. ASSUME NEW w \in Workers, NEW s \in Sessions, NEW c \in Cashiers, NEW f \in Floats,
             OpenScan(w, s, c, f)
      PROVE  TillTypeOK'
  <2>1. [cashier |-> c, status |-> "open", opening_float |-> f,
         closing_float |-> None, expected_cash |-> <<>>] \in POSSession
    BY DEF POSSession
  <2>2. Stale(c) \subseteq Present
    BY DEF Stale, OpenSessions
  <2>3. Present' = Present
    BY <1>1 DEF OpenScan, Present
  <2>4. QED BY <1>1, <2>1, <2>2, <2>3 DEF OpenScan, Begin, Present
<1>15. ASSUME NEW w \in Workers, NEW s \in Sessions, OpenUpdate(w, s) PROVE TillTypeOK'
  <2>1. Present' = Present
    BY <1>15 DEF OpenUpdate, books, Present
  <2>2. OpenSessions(copy[w].cashier) \subseteq Present
    BY DEF OpenSessions
  <2>3. QED BY <1>15, <2>1, <2>2 DEF OpenUpdate, books
<1>2. ASSUME NEW w \in Workers, OpenCommit(w) PROVE TillTypeOK'
  <2>1. /\ session[w] \in Sessions \ unused /\ copy[w] \in POSSession /\ scan[w] \subseteq Present
    BY <1>2, TillAssumption DEF OpenCommit, OpensHold
  <2>2. \A s \in scan[w] : [row[s] EXCEPT !.status = "closed"] \in POSSession
    BY <2>1 DEF Present, POSSession
  <2>3. row' \in [Sessions -> POSSession \union {None}]
    BY <1>2, <2>1, <2>2 DEF OpenCommit
  <2>4. Present' = Present \union {session[w]}
    BY <1>2, <2>1, <2>2, TillAssumption DEF OpenCommit, Present
  <2>5. QED BY <1>2, <2>1, <2>3, <2>4 DEF OpenCommit, Respond
<1>3. ASSUME NEW w \in Workers, NEW s \in Sessions,
             CloseFetch(w, s) \/ EditFetch(w, s)
      PROVE  TillTypeOK'
  <2>1. Present' = Present
    BY <1>3 DEF CloseFetch, EditFetch, books, Present
  <2>2. s \in Present /\ row[s] \in POSSession
    BY <1>3 DEF CloseFetch, EditFetch, Present
  <2>3. QED
    BY <1>3, <2>1, <2>2 DEF CloseFetch, EditFetch, Begin, books
<1>4. ASSUME NEW w \in Workers, CloseSum(w) PROVE TillTypeOK'
  <2>1. Present' = Present
    BY <1>4 DEF CloseSum, books, Present
  <2>2. session[w] \in Sessions \ unused
    BY <1>4, TillAssumption DEF CloseSum, CopiesHold
  <2>3. QED BY <1>4, <2>1, <2>2, TakingsType DEF CloseSum, books
<1>5. ASSUME NEW w \in Workers, NEW f \in Floats, CloseSave(w, f) PROVE TillTypeOK'
  <2>1. session[w] \in Sessions \ unused /\ copy[w] \in POSSession
    BY <1>5, TillAssumption DEF CloseSave, CopiesHold
  <2> DEFINE r == [row[session[w]] EXCEPT !.status = "closed", !.closing_float = f,
                                          !.expected_cash = <<copy[w].opening_float, sum[w]>>]
  <2>2. session[w] \in Present => r \in POSSession
    <3>1. <<copy[w].opening_float, sum[w]>> \in Floats \X SUBSET Payments
      BY <2>1 DEF POSSession
    <3>2. session[w] \in Present => row[session[w]] \in POSSession
      BY DEF Present
    <3>3. QED BY <3>1, <3>2 DEF POSSession
  <2>3. row' = IF session[w] \in Present THEN [row EXCEPT ![session[w]] = r] ELSE row
    BY <1>5 DEF CloseSave
  <2> HIDE DEF r
  <2>4. row' \in [Sessions -> POSSession \union {None}] /\ Present' = Present
    <3>1. CASE session[w] \in Present
      <4>1. row' = [row EXCEPT ![session[w]] = r] /\ r \in POSSession
        BY <2>2, <2>3, <3>1
      <4>2. Present' = Present \union {session[w]} /\ row' \in [Sessions -> POSSession \union {None}]
        BY <2>1, <4>1, RowWritten
      <4>3. QED BY <3>1, <4>2
    <3>2. CASE session[w] \notin Present
      BY <2>3, <3>2 DEF Present
    <3>3. QED BY <3>1, <3>2
  <2>5. QED BY <1>5, <2>4 DEF CloseSave, Respond
<1>6. ASSUME NEW w \in Workers, NEW c \in Cashiers, NEW f \in Floats,
             NEW g \in Floats \union {None}, EditSave(w, c, f, g)
      PROVE  TillTypeOK'
  <2>1. session[w] \in Sessions \ unused /\ copy[w] \in POSSession
    BY <1>6, TillAssumption DEF EditSave, CopiesHold
  <2> DEFINE r == [copy[w] EXCEPT !.cashier = c, !.opening_float = f, !.closing_float = g]
  <2>2. r \in POSSession
    BY <2>1 DEF POSSession
  <2>3. row' = [row EXCEPT ![session[w]] = r]
    BY <1>6 DEF EditSave
  <2> HIDE DEF r
  <2>4. row' \in [Sessions -> POSSession \union {None}] /\ Present' = Present \union {session[w]}
    BY <2>1, <2>2, <2>3, RowWritten
  <2>5. QED BY <1>6, <2>1, <2>4 DEF EditSave, Respond
<1>7. ASSUME NEW s \in Sessions, DestroySession(s) PROVE TillTypeOK'
  <2>1. Present' = Present \ {s} /\ s \notin Locked
    BY <1>7 DEF DestroySession, Present
  <2>2. scan' = scan /\ \A w \in Workers : s \notin scan[w]
    BY <1>7, <2>1 DEF DestroySession, Locked
  <2>3. QED BY <1>7, <2>1, <2>2 DEF DestroySession
<1>8. ASSUME NEW o \in Orders, NEW s \in Sessions \union {None}, CreateOrder(o, s) PROVE TillTypeOK'
  <2>1. Present' = Present
    BY <1>8 DEF CreateOrder, Present
  <2>2. QED BY <1>8, <2>1 DEF CreateOrder, request
<1>9. ASSUME NEW o \in Orders, NEW p \in Payments, NEW m \in {"cash", "card"}, Pay(p, o, m)
      PROVE  TillTypeOK'
  <2>1. Present' = Present
    BY <1>9 DEF Pay, Present
  <2>2. [order |-> o, method |-> m] \in Payment
    BY DEF Payment
  <2>3. QED BY <1>9, <2>1, <2>2 DEF Pay, request
<1>10. ASSUME NEW o \in Orders, NEW s \in Sessions \union {None}, MoveOrder(o, s) PROVE TillTypeOK'
  <2>1. Present' = Present
    BY <1>10 DEF MoveOrder, Present
  <2>2. QED BY <1>10, <2>1 DEF MoveOrder, request
<1>11. ASSUME NEW o \in Orders, DestroyOrder(o) PROVE TillTypeOK'
  <2>1. Present' = Present
    BY <1>11 DEF DestroyOrder, Present
  <2>2. QED BY <1>11, <2>1 DEF DestroyOrder, request
<1>12. ASSUME NEW w \in Workers, Fail(w) PROVE TillTypeOK'
  <2>1. Present' = Present
    BY <1>12 DEF Fail, books, Present
  <2>2. QED BY <1>12, <2>1 DEF Fail, Respond, books
<1>13. CASE UNCHANGED tillVars
  BY <1>13 DEF tillVars, books, request, history, Present
<1>14. QED
  BY <1>1, <1>2, <1>3, <1>4, <1>5, <1>6, <1>7, <1>8, <1>9, <1>10, <1>11, <1>12, <1>13, <1>15
     DEF TillNext, Step

-----------------------------------------------------------------------------
(* Till: opens.                                                            *)

\* A step that starts no open and gives no request the key of one.
LEMMA OpensKept ==
  ASSUME TillTypeOK, OpensHold,
         \A v \in Workers : pc'[v] = "opening" =>
            /\ pc[v] = "opening"
            /\ copy'[v] = copy[v] /\ session'[v] = session[v] /\ scan'[v] = scan[v],
         \A s \in Present' \union summed' : \/ s \in Present \union summed
                                            \/ \E u \in Workers : s = session[u] /\ pc'[u] # "opening",
         \A u \in Workers : /\ session'[u] = session[u] \/ session'[u] \in Present \union {None}
                            /\ scan'[u] \subseteq scan[u]
  PROVE  OpensHold'
<1> SUFFICES ASSUME NEW v \in Workers, pc'[v] = "opening"
             PROVE  /\ copy'[v] \in POSSession /\ copy'[v].status = "open"
                    /\ copy'[v].closing_float = None
                    /\ session'[v] \in Sessions \ (Present' \union summed')
                    /\ \A u \in Workers \ {v} : /\ session'[u] # session'[v]
                                                 /\ scan'[u] \intersect scan'[v] = {}
  BY DEF OpensHold
<1>1. /\ copy[v] \in POSSession /\ copy[v].status = "open" /\ copy[v].closing_float = None
      /\ session[v] \in Sessions \ (Present \union summed)
      /\ \A u \in Workers \ {v} : session[u] # session[v] /\ scan[u] \intersect scan[v] = {}
  BY DEF OpensHold
<1>2. session'[v] \in Sessions \ (Present' \union summed')
  BY <1>1
<1>3. ASSUME NEW u \in Workers \ {v}
      PROVE  session'[u] # session'[v] /\ scan'[u] \intersect scan'[v] = {}
  BY <1>1, <1>3, TillAssumption
<1>4. QED BY <1>1, <1>2, <1>3

LEMMA NextOpens ==
  ASSUME TillTypeOK, OpensHold, CopiesHold, TillNext
  PROVE  OpensHold'
<1> DEFINE Kept ==
      /\ \A v \in Workers : pc'[v] = "opening" =>
            /\ pc[v] = "opening"
            /\ copy'[v] = copy[v] /\ session'[v] = session[v] /\ scan'[v] = scan[v]
      /\ \A s \in Present' \union summed' :
            \/ s \in Present \union summed
            \/ \E u \in Workers : s = session[u] /\ pc'[u] # "opening"
      /\ \A u \in Workers : /\ session'[u] = session[u] \/ session'[u] \in Present \union {None}
                            /\ scan'[u] \subseteq scan[u]
<1>1. ASSUME Kept PROVE OpensHold'
  BY <1>1, OpensKept
<1>2. ASSUME NEW w \in Workers, NEW s \in Sessions, NEW c \in Cashiers, NEW f \in Floats,
             OpenScan(w, s, c, f)
      PROVE  OpensHold'
  <2> DEFINE r == [cashier |-> c, status |-> "open", opening_float |-> f,
                   closing_float |-> None, expected_cash |-> <<>>]
  <2>1. r \in POSSession /\ r.status = "open" /\ r.closing_float = None
    BY DEF POSSession
  <2>2. /\ pc' = [pc EXCEPT ![w] = "opening"] /\ session' = [session EXCEPT ![w] = s]
        /\ copy' = [copy EXCEPT ![w] = r] /\ scan' = scan
        /\ s \in unused /\ summed' = summed /\ pc[w] = "idle"
    BY <1>2 DEF OpenScan, Begin
  <2>3. Present' = Present
    BY <1>2 DEF OpenScan, Present
  <2> HIDE DEF r
  <2>4. s \notin Present \union summed /\ \A u \in Workers : session[u] # s
    BY <2>2, TillAssumption DEF TillTypeOK
  <2>5. scan[w] = {}
    BY <2>2 DEF TillTypeOK
  <2> SUFFICES ASSUME NEW v \in Workers, pc'[v] = "opening"
               PROVE  /\ copy'[v] \in POSSession /\ copy'[v].status = "open"
                      /\ copy'[v].closing_float = None
                      /\ session'[v] \in Sessions \ (Present' \union summed')
                      /\ \A u \in Workers \ {v} : /\ session'[u] # session'[v]
                                                   /\ scan'[u] \intersect scan'[v] = {}
    BY DEF OpensHold
  <2>6. CASE v = w
    BY <2>1, <2>2, <2>3, <2>4, <2>5, <2>6 DEF TillTypeOK
  <2>7. CASE v # w
    BY <2>2, <2>3, <2>4, <2>5, <2>7 DEF TillTypeOK, OpensHold
  <2>8. QED BY <2>6, <2>7
<1>16. ASSUME NEW w \in Workers, NEW s \in Sessions, OpenUpdate(w, s) PROVE OpensHold'
  <2>1. /\ UNCHANGED <<pc, copy, session, summed>> /\ Present' = Present
        /\ s \notin Locked /\ pc[w] = "opening"
    BY <1>16 DEF OpenUpdate, books, Present
  <2>2. \A u \in Workers : s \notin scan[u]
    BY <2>1 DEF Locked
  <2>3. \A u \in Workers : scan'[u] \subseteq IF u = w THEN scan[u] \union {s} ELSE scan[u]
    BY <1>16 DEF OpenUpdate, TillTypeOK
  <2>4. \A u, v \in Workers : u # v /\ pc[v] = "opening" => scan[u] \intersect scan[v] = {}
    BY DEF OpensHold
  <2>5. \A u, v \in Workers : u # v /\ pc[v] = "opening" => scan'[u] \intersect scan'[v] = {}
    BY <2>2, <2>3, <2>4
  <2>6. QED BY <2>1, <2>5 DEF OpensHold
<1>3. ASSUME NEW w \in Workers, OpenCommit(w) PROVE Kept
  <2>1. Present' \subseteq Present \union {session[w]}
    BY <1>3 DEF OpenCommit, Present, TillTypeOK
  <2>2. QED BY <1>3, <2>1 DEF OpenCommit, Respond, TillTypeOK
<1>4. ASSUME NEW w \in Workers, NEW s \in Sessions,
             CloseFetch(w, s) \/ EditFetch(w, s)
      PROVE  Kept
  BY <1>4 DEF CloseFetch, EditFetch, Begin, books, Present, TillTypeOK
<1>5. ASSUME NEW w \in Workers, CloseSum(w) PROVE Kept
  BY <1>5 DEF CloseSum, books, Present, TillTypeOK
<1>6. ASSUME NEW w \in Workers, NEW f \in Floats, CloseSave(w, f) PROVE Kept
  <2>1. Present' \subseteq Present \union {session[w]}
    BY <1>6 DEF CloseSave, Present, TillTypeOK
  <2>2. QED BY <1>6, <2>1 DEF CloseSave, Respond, TillTypeOK
<1>7. ASSUME NEW w \in Workers, NEW c \in Cashiers, NEW f \in Floats,
             NEW g \in Floats \union {None}, EditSave(w, c, f, g)
      PROVE  Kept
  <2>1. Present' \subseteq Present \union {session[w]}
    BY <1>7 DEF EditSave, Present, TillTypeOK
  <2>2. QED BY <1>7, <2>1 DEF EditSave, Respond, TillTypeOK
<1>8. ASSUME NEW s \in Sessions, DestroySession(s) PROVE Kept
  <2>1. Present' \subseteq Present
    BY <1>8 DEF DestroySession, Present, TillTypeOK
  <2>2. QED BY <1>8, <2>1 DEF DestroySession
<1>9. ASSUME NEW o \in Orders, NEW s \in Sessions \union {None}, CreateOrder(o, s) PROVE Kept
  BY <1>9 DEF CreateOrder, request, Present
<1>10. ASSUME NEW o \in Orders, NEW p \in Payments, NEW m \in {"cash", "card"}, Pay(p, o, m)
       PROVE  Kept
  BY <1>10 DEF Pay, request, Present
<1>11. ASSUME NEW o \in Orders, NEW s \in Sessions \union {None}, MoveOrder(o, s) PROVE Kept
  BY <1>11 DEF MoveOrder, request, Present
<1>12. ASSUME NEW o \in Orders, DestroyOrder(o) PROVE Kept
  BY <1>12 DEF DestroyOrder, request, Present
<1>13. ASSUME NEW w \in Workers, Fail(w) PROVE Kept
  BY <1>13 DEF Fail, Respond, books, Present, TillTypeOK
<1> HIDE DEF Kept
<1>14. Step
  BY DEF TillNext
<1>15. QED
  BY <1>1, <1>2, <1>3, <1>4, <1>5, <1>6, <1>7, <1>8, <1>9, <1>10, <1>11, <1>12, <1>13, <1>14,
     <1>16 DEF Step

-----------------------------------------------------------------------------
(* Till: copies and counts.                                                *)

\* A session that stays out of late keeps its drawer through the step.
LEMMA DrawerKept ==
  ASSUME TillNext, NEW s \in summed, s \notin late'
  PROVE  /\ s \notin late
         /\ Drawer(s, order', payment') = Drawer(s, order, payment)
BY DEF TillNext

\* A step that leaves the copies that stay and the float of unedited rows.
LEMMA CopiesKept ==
  ASSUME CopiesHold, TillNext, summed \subseteq summed',
         \A v \in Workers :
           /\ pc'[v] \in {"closing", "summed", "editing"} =>
                pc'[v] = pc[v] /\ session'[v] = session[v] /\ copy'[v] = copy[v] /\ sum'[v] = sum[v]
           /\ (pc'[v] \in {"closing", "summed"} /\ session[v] \in Present' \ edited') =>
                /\ session[v] \in Present \ edited
                /\ row'[session[v]].opening_float = row[session[v]].opening_float
  PROVE  CopiesHold'
<1> SUFFICES ASSUME NEW v \in Workers
    PROVE  /\ pc'[v] \in {"closing", "summed", "editing"}
                => session'[v] \in Sessions /\ copy'[v] \in POSSession
           /\ (pc'[v] \in {"closing", "summed"} /\ session'[v] \in Present' \ edited')
                => copy'[v].opening_float = row'[session'[v]].opening_float
           /\ pc'[v] = "summed"
                => /\ session'[v] \in summed'
                   /\ session'[v] \notin late' => sum'[v] = Drawer(session'[v], order', payment')
  BY DEF CopiesHold
<1>1. pc'[v] \in {"closing", "summed", "editing"}
        => session'[v] \in Sessions /\ copy'[v] \in POSSession
  BY DEF CopiesHold
<1>2. (pc'[v] \in {"closing", "summed"} /\ session'[v] \in Present' \ edited')
        => copy'[v].opening_float = row'[session'[v]].opening_float
  BY DEF CopiesHold
<1>3. ASSUME pc'[v] = "summed"
      PROVE  /\ session'[v] \in summed'
             /\ session'[v] \notin late' => sum'[v] = Drawer(session'[v], order', payment')
  <2>1. pc[v] = "summed" /\ session'[v] = session[v] /\ sum'[v] = sum[v]
    BY <1>3
  <2>2. /\ session[v] \in summed
        /\ session[v] \notin late => sum[v] = Drawer(session[v], order, payment)
    BY <2>1 DEF CopiesHold
  <2>3. session[v] \notin late' =>
          /\ session[v] \notin late
          /\ Drawer(session[v], order', payment') = Drawer(session[v], order, payment)
    BY <2>2, DrawerKept
  <2>4. QED BY <2>1, <2>2, <2>3
<1>4. QED BY <1>1, <1>2, <1>3

\* A step that changes no counted row but by an edit.
LEMMA CountsKept ==
  ASSUME CountsHold, TillNext, summed \subseteq summed',
         \A s \in Present' \ edited' : row'[s].closing_float # None =>
            /\ s \in Present \ edited /\ row[s].closing_float # None
            /\ row'[s].opening_float = row[s].opening_float
            /\ row'[s].expected_cash = row[s].expected_cash
  PROVE  CountsHold'
<1> SUFFICES ASSUME NEW s \in Present' \ edited', row'[s].closing_float # None
    PROVE  /\ s \in summed'
           /\ s \notin late' =>
                row'[s].expected_cash = <<row'[s].opening_float, Drawer(s, order', payment')>>
  BY DEF CountsHold
<1>1. /\ s \in summed
      /\ s \notin late => row[s].expected_cash = <<row[s].opening_float, Drawer(s, order, payment)>>
  BY DEF CountsHold
<1>2. s \notin late' => /\ s \notin late
                       /\ Drawer(s, order', payment') = Drawer(s, order, payment)
  BY <1>1, DrawerKept
<1>3. QED BY <1>1, <1>2

\* Committing an open adds an open row and closes others, no more.
LEMMA CommitRows ==
  ASSUME TillTypeOK, OpensHold, NEW w \in Workers, OpenCommit(w)
  PROVE  /\ session[w] \in Sessions /\ row'[session[w]] = copy[w]
         /\ Present' = Present \union {session[w]}
         /\ \A s \in Present : /\ s # session[w] /\ row[s] \in POSSession
                               /\ row'[s] = IF s \in scan[w]
                                             THEN [row[s] EXCEPT !.status = "closed"]
                                             ELSE row[s]
<1>1. /\ copy[w] \in POSSession /\ session[w] \in Sessions \ Present /\ scan[w] \subseteq Present
  BY DEF OpenCommit, OpensHold, TillTypeOK
<1>2. \A s \in Present : row[s] \in POSSession
  BY DEF TillTypeOK, Present
<1>3. row' = [s \in Sessions |->
                IF s = session[w] THEN copy[w]
                ELSE IF s \in scan[w] THEN [row[s] EXCEPT !.status = "closed"] ELSE row[s]]
  BY DEF OpenCommit
<1>4. \A s \in scan[w] : [row[s] EXCEPT !.status = "closed"] \in POSSession
  BY <1>1, <1>2 DEF POSSession
<1>5. Present' = Present \union {session[w]}
  BY <1>1, <1>3, <1>4, TillAssumption DEF Present
<1>6. QED BY <1>1, <1>2, <1>3, <1>5 DEF Present

\* Saving a close writes the status, the count and nothing else.
LEMMA CloseRows ==
  ASSUME TillTypeOK, CopiesHold, NEW w \in Workers, NEW f \in Floats, CloseSave(w, f)
  PROVE  /\ Present' = Present
         /\ \A s \in Present : s # session[w] => row'[s] = row[s]
         /\ session[w] \in Present =>
              /\ row'[session[w]].opening_float = row[session[w]].opening_float
              /\ row'[session[w]].status = "closed"
              /\ row'[session[w]].cashier = row[session[w]].cashier
              /\ row'[session[w]].expected_cash = <<copy[w].opening_float, sum[w]>>
<1>1. session[w] \in Sessions /\ copy[w] \in POSSession
  BY DEF CloseSave, CopiesHold
<1> DEFINE r == [row[session[w]] EXCEPT !.status = "closed", !.closing_float = f,
                                        !.expected_cash = <<copy[w].opening_float, sum[w]>>]
<1>2. session[w] \in Present => row[session[w]] \in POSSession
  BY <1>1 DEF TillTypeOK, Present
<1>3. session[w] \in Present =>
        /\ r \in POSSession /\ r.opening_float = row[session[w]].opening_float
        /\ r.status = "closed" /\ r.cashier = row[session[w]].cashier
        /\ r.expected_cash = <<copy[w].opening_float, sum[w]>>
  <2>1. <<copy[w].opening_float, sum[w]>> \in Floats \X SUBSET Payments
    BY <1>1 DEF POSSession, TillTypeOK
  <2>2. QED BY <1>2, <2>1 DEF POSSession
<1>4. row' = IF session[w] \in Present THEN [row EXCEPT ![session[w]] = r] ELSE row
  BY DEF CloseSave
<1> HIDE DEF r
<1>5. QED BY <1>1, <1>3, <1>4, TillAssumption DEF TillTypeOK, Present

LEMMA NextCounts ==
  ASSUME TillTypeOK, OpensHold, CopiesHold, CountsHold, TillNext
  PROVE  CountsHold'
<1> DEFINE Kept ==
      /\ summed \subseteq summed'
      /\ \A s \in Present' \ edited' : row'[s].closing_float # None =>
            /\ s \in Present \ edited /\ row[s].closing_float # None
            /\ row'[s].opening_float = row[s].opening_float
            /\ row'[s].expected_cash = row[s].expected_cash
<1>1. ASSUME Kept PROVE CountsHold'
  BY <1>1, CountsKept
<1>2. ASSUME UNCHANGED <<row, edited>>, summed \subseteq summed' PROVE Kept
  BY <1>2 DEF Present
<1>3. ASSUME NEW w \in Workers, OpenCommit(w) PROVE Kept
  <2>1. UNCHANGED <<summed, edited>>
    BY <1>3 DEF OpenCommit
  <2>2. copy[w].closing_float = None
    BY <1>3 DEF OpenCommit, OpensHold
  <2>3. \A s \in Present : /\ row'[s].closing_float = row[s].closing_float
                          /\ row'[s].opening_float = row[s].opening_float
                          /\ row'[s].expected_cash = row[s].expected_cash
    <3> TAKE s \in Present
    <3>1. row[s] \in POSSession
      BY DEF TillTypeOK, Present
    <3>2. row'[s] = IF s \in scan[w] THEN [row[s] EXCEPT !.status = "closed"] ELSE row[s]
      BY <1>3, CommitRows
    <3>3. QED BY <3>1, <3>2 DEF POSSession
  <2>4. QED BY <1>3, <2>1, <2>2, <2>3, CommitRows
<1>4. ASSUME NEW w \in Workers, NEW f \in Floats, CloseSave(w, f) PROVE CountsHold'
  <2>1. UNCHANGED <<summed, edited, order, payment>> /\ pc[w] = "summed"
    BY <1>4 DEF CloseSave
  <2>2. late' = late
    BY <2>1 DEF TillNext
  <2> SUFFICES ASSUME NEW s \in Present' \ edited', row'[s].closing_float # None
      PROVE  /\ s \in summed'
             /\ s \notin late' =>
                  row'[s].expected_cash = <<row'[s].opening_float, Drawer(s, order', payment')>>
    BY DEF CountsHold
  <2>3. CASE s = session[w]
    <3>1. /\ session[w] \in summed
          /\ session[w] \notin late => sum[w] = Drawer(session[w], order, payment)
          /\ copy[w].opening_float = row[session[w]].opening_float
      BY <1>4, <2>1, <2>3, CloseRows DEF CopiesHold
    <3>2. QED BY <1>4, <2>1, <2>2, <2>3, <3>1, CloseRows
  <2>4. CASE s # session[w]
    <3>1. s \in Present \ edited /\ row'[s] = row[s]
      BY <1>4, <2>1, <2>4, CloseRows
    <3>2. QED BY <2>1, <2>2, <3>1 DEF CountsHold
  <2>5. QED BY <2>3, <2>4
<1>5. ASSUME NEW w \in Workers, NEW c \in Cashiers, NEW f \in Floats,
             NEW g \in Floats \union {None}, EditSave(w, c, f, g)
      PROVE  Kept
  BY <1>5 DEF EditSave, Present, TillTypeOK
<1>6. ASSUME NEW s \in Sessions, DestroySession(s) PROVE Kept
  BY <1>6 DEF DestroySession, Present, TillTypeOK
<1>7. ASSUME NEW w \in Workers, NEW s \in Sessions, NEW c \in Cashiers, NEW f \in Floats,
             OpenScan(w, s, c, f)
      PROVE  Kept
  BY <1>2, <1>7 DEF OpenScan
<1>16. ASSUME NEW w \in Workers, NEW s \in Sessions, OpenUpdate(w, s) PROVE Kept
  BY <1>2, <1>16 DEF OpenUpdate, books
<1>8. ASSUME NEW w \in Workers, NEW s \in Sessions,
             CloseFetch(w, s) \/ EditFetch(w, s)
      PROVE  Kept
  BY <1>2, <1>8 DEF CloseFetch, EditFetch, books
<1>9. ASSUME NEW w \in Workers, CloseSum(w) \/ Fail(w) PROVE Kept
  BY <1>2, <1>9 DEF CloseSum, Fail, books
<1>10. ASSUME NEW o \in Orders, NEW s \in Sessions \union {None}, CreateOrder(o, s) PROVE Kept
  BY <1>2, <1>10 DEF CreateOrder
<1>11. ASSUME NEW o \in Orders, NEW p \in Payments, NEW m \in {"cash", "card"}, Pay(p, o, m)
       PROVE  Kept
  BY <1>2, <1>11 DEF Pay
<1>12. ASSUME NEW o \in Orders, NEW s \in Sessions \union {None}, MoveOrder(o, s) PROVE Kept
  BY <1>2, <1>12 DEF MoveOrder
<1>13. ASSUME NEW o \in Orders, DestroyOrder(o) PROVE Kept
  BY <1>2, <1>13 DEF DestroyOrder
<1> HIDE DEF Kept
<1>14. Step
  BY DEF TillNext
<1>15. QED
  BY <1>1, <1>3, <1>4, <1>5, <1>6, <1>7, <1>8, <1>9, <1>10, <1>11, <1>12, <1>13, <1>14, <1>16
     DEF Step

LEMMA NextCopies ==
  ASSUME TillTypeOK, OpensHold, CopiesHold, TillNext
  PROVE  CopiesHold'
<1> DEFINE Kept ==
      /\ summed \subseteq summed'
      /\ \A v \in Workers :
           /\ pc'[v] \in {"closing", "summed", "editing"} =>
                pc'[v] = pc[v] /\ session'[v] = session[v] /\ copy'[v] = copy[v] /\ sum'[v] = sum[v]
           /\ (pc'[v] \in {"closing", "summed"} /\ session[v] \in Present' \ edited') =>
                /\ session[v] \in Present \ edited
                /\ row'[session[v]].opening_float = row[session[v]].opening_float
<1>1. ASSUME Kept PROVE CopiesHold'
  BY <1>1, CopiesKept
<1>2. ASSUME NEW w \in Workers, NEW s \in Sessions, NEW c \in Cashiers, NEW f \in Floats,
             OpenScan(w, s, c, f)
      PROVE  Kept
  BY <1>2 DEF OpenScan, Begin, Present, TillTypeOK
<1>17. ASSUME NEW w \in Workers, NEW s \in Sessions, OpenUpdate(w, s) PROVE Kept
  BY <1>17 DEF OpenUpdate, books, Present
<1>3. ASSUME NEW w \in Workers, OpenCommit(w) PROVE Kept
  <2>1. \A v \in Workers \ {w} : session[v] # session[w]
    BY <1>3 DEF OpenCommit, OpensHold
  <2>2. \A s \in Present : row'[s].opening_float = row[s].opening_float
    <3> TAKE s \in Present
    <3>1. row[s] \in POSSession
      BY DEF TillTypeOK, Present
    <3>2. row'[s] = IF s \in scan[w] THEN [row[s] EXCEPT !.status = "closed"] ELSE row[s]
      BY <1>3, CommitRows
    <3>3. QED BY <3>1, <3>2 DEF POSSession
  <2>3. Present' = Present \union {session[w]}
    BY <1>3, CommitRows
  <2>4. QED BY <1>3, <2>1, <2>2, <2>3 DEF OpenCommit, Respond, TillTypeOK
<1>4. ASSUME NEW w \in Workers, NEW s \in Sessions, CloseFetch(w, s) \/ EditFetch(w, s)
      PROVE  CopiesHold'
  <2>1. /\ UNCHANGED <<row, order, payment, summed, edited, sum>>
        /\ s \in Present /\ row[s] \in POSSession /\ Present' = Present
        /\ pc' = [pc EXCEPT ![w] = pc'[w]] /\ pc'[w] \in {"closing", "editing"}
        /\ session' = [session EXCEPT ![w] = s] /\ copy' = [copy EXCEPT ![w] = row[s]]
    BY <1>4 DEF CloseFetch, EditFetch, Begin, books, Present, TillTypeOK
  <2>2. late' = late
    BY <2>1 DEF TillNext
  <2>3. QED BY <2>1, <2>2 DEF CopiesHold, TillTypeOK
<1>6. ASSUME NEW w \in Workers, CloseSum(w) PROVE CopiesHold'
  <2>1. /\ UNCHANGED <<row, order, payment, edited, session, copy>> /\ Present' = Present
        /\ pc[w] = "closing" /\ pc' = [pc EXCEPT ![w] = "summed"]
        /\ sum' = [sum EXCEPT ![w] = CashSales(session[w])]
        /\ summed' = summed \union {session[w]}
    BY <1>6 DEF CloseSum, books, Present
  <2>2. late' = late
    BY <2>1 DEF TillNext
  <2>3. CashSales(session[w]) = Drawer(session[w], order, payment)
    BY DEF CashSales, Takings, Drawer
  <2>4. QED BY <2>1, <2>2, <2>3 DEF CopiesHold, TillTypeOK
<1>7. ASSUME NEW w \in Workers, NEW f \in Floats, CloseSave(w, f) PROVE Kept
  <2>1. /\ Present' = Present
        /\ \A s \in Present : row'[s].opening_float = row[s].opening_float
    BY <1>7, CloseRows
  <2>2. QED BY <1>7, <2>1 DEF CloseSave, Respond, TillTypeOK
<1>8. ASSUME NEW w \in Workers, NEW c \in Cashiers, NEW f \in Floats,
             NEW g \in Floats \union {None}, EditSave(w, c, f, g)
      PROVE  Kept
  <2>1. \A s \in Present' \ edited' : s \in Present \ edited /\ row'[s] = row[s]
    BY <1>8 DEF EditSave, Present, TillTypeOK
  <2>2. QED BY <1>8, <2>1 DEF EditSave, Respond, TillTypeOK
<1>9. ASSUME NEW s \in Sessions, DestroySession(s) PROVE Kept
  <2>1. \A t \in Present' : t \in Present /\ row'[t] = row[t]
    BY <1>9 DEF DestroySession, Present, TillTypeOK
  <2>2. QED BY <1>9, <2>1 DEF DestroySession
<1>10. ASSUME NEW o \in Orders, NEW s \in Sessions \union {None}, CreateOrder(o, s) PROVE Kept
  BY <1>10 DEF CreateOrder, request, Present
<1>11. ASSUME NEW o \in Orders, NEW p \in Payments, NEW m \in {"cash", "card"}, Pay(p, o, m)
       PROVE  Kept
  BY <1>11 DEF Pay, request, Present
<1>12. ASSUME NEW o \in Orders, NEW s \in Sessions \union {None}, MoveOrder(o, s) PROVE Kept
  BY <1>12 DEF MoveOrder, request, Present
<1>13. ASSUME NEW o \in Orders, DestroyOrder(o) PROVE Kept
  BY <1>13 DEF DestroyOrder, request, Present
<1>14. ASSUME NEW w \in Workers, Fail(w) PROVE Kept
  BY <1>14 DEF Fail, Respond, books, Present, TillTypeOK
<1> HIDE DEF Kept
<1>15. Step
  BY DEF TillNext
<1>16. QED
  BY <1>1, <1>2, <1>3, <1>4, <1>6, <1>7, <1>8, <1>9, <1>10, <1>11, <1>12, <1>13,
     <1>14, <1>15, <1>17 DEF Step

-----------------------------------------------------------------------------
(* Till: who left which session open.                                      *)

\* A step that opens nothing, starts no open and makes none forget a row that is
\* still open.
LEMMA OpenedKept ==
  ASSUME NEW opener, LeftOpenBy(opener),
         \A s \in Present' \ edited' : row'[s].status = "open" =>
            /\ s \in Present \ edited /\ row[s].status = "open"
            /\ row'[s].cashier = row[s].cashier,
         \A v \in Workers : pc'[v] = "opening" =>
            /\ pc[v] = "opening" /\ copy'[v] = copy[v]
            /\ \A s \in found[v] \union scan[v] :
                 s \in OpenSessions(copy[v].cashier)' \ edited' => s \in found'[v] \union scan'[v]
  PROVE  LeftOpenBy(opener)'
<1>1. ASSUME NEW v \in Workers, pc'[v] = "opening",
             NEW s \in OpenSessions(copy[v].cashier)' \ edited', opener[s] = v
      PROVE  s \in found'[v] \union scan'[v]
  <2>1. /\ pc[v] = "opening" /\ copy'[v] = copy[v]
        /\ \A t \in found[v] \union scan[v] :
             t \in OpenSessions(copy[v].cashier)' \ edited' => t \in found'[v] \union scan'[v]
    BY <1>1
  <2>2. s \in OpenSessions(copy[v].cashier) \ edited
    BY <1>1, <2>1 DEF OpenSessions
  <2>3. s \in found[v] \union scan[v]
    BY <1>1, <2>1, <2>2 DEF LeftOpenBy
  <2>4. QED BY <1>1, <2>1, <2>3
<1>2. ASSUME NEW c \in Cashiers, NEW s \in OpenSessions(c)' \ edited',
             NEW t \in OpenSessions(c)' \ edited'
      PROVE  opener[s] \in Workers /\ (opener[s] = opener[t] => s = t)
  <2>1. s \in OpenSessions(c) \ edited /\ t \in OpenSessions(c) \ edited
    BY <1>2 DEF OpenSessions
  <2>2. QED BY <2>1 DEF LeftOpenBy
<1>3. QED BY <1>1, <1>2 DEF LeftOpenBy

\* An open begins with every open session of its cashier in hand.
LEMMA OpenedScan ==
  ASSUME TillTypeOK, NEW opener, LeftOpenBy(opener), NEW w \in Workers, NEW s \in Sessions,
         NEW d \in Cashiers, NEW f \in Floats, OpenScan(w, s, d, f)
  PROVE  LeftOpenBy(opener)'
<1> DEFINE r == [cashier |-> d, status |-> "open", opening_float |-> f,
                 closing_float |-> None, expected_cash |-> <<>>]
<1>1. /\ UNCHANGED <<row, edited, scan>>
      /\ pc' = [pc EXCEPT ![w] = "opening"] /\ copy' = [copy EXCEPT ![w] = r]
      /\ found' = [found EXCEPT ![w] = OpenSessions(d)]
  BY DEF OpenScan, Begin, Stale
<1>2. r.cashier = d
  OBVIOUS
<1> HIDE DEF r
<1>3. Present' = Present
  BY <1>1 DEF Present
<1>4. ASSUME NEW v \in Workers, pc'[v] = "opening",
             NEW t \in OpenSessions(copy[v].cashier)' \ edited', opener[t] = v
      PROVE  t \in found'[v] \union scan'[v]
  <2>1. CASE v = w
    <3>1. copy'[v].cashier = d /\ found'[v] = OpenSessions(d)
      BY <1>1, <1>2, <2>1 DEF TillTypeOK
    <3>2. QED BY <3>1, <1>1, <1>3, <1>4 DEF OpenSessions
  <2>2. CASE v # w
    <3>1. pc[v] = "opening" /\ copy'[v] = copy[v] /\ found'[v] = found[v]
      BY <1>1, <1>4, <2>2 DEF TillTypeOK
    <3>2. t \in OpenSessions(copy[v].cashier) \ edited
      BY <3>1, <1>1, <1>3, <1>4 DEF OpenSessions
    <3>3. QED BY <3>1, <3>2, <1>1, <1>4 DEF LeftOpenBy
  <2>3. QED BY <2>1, <2>2
<1>5. \A c \in Cashiers : OpenSessions(c)' \ edited' = OpenSessions(c) \ edited
  BY <1>1, <1>3 DEF OpenSessions
<1>6. QED BY <1>4, <1>5 DEF LeftOpenBy

\* An open that commits has closed what its worker had left open.
LEMMA OpenedCommit ==
  ASSUME TillTypeOK, OpensHold, NEW opener \in [Sessions -> Workers \union {None}],
         LeftOpenBy(opener), NEW w \in Workers, OpenCommit(w)
  PROVE  OpenedOnce'
<1>1. /\ pc[w] = "opening" /\ edited' = edited /\ found[w] = {}
      /\ \A v \in Workers : pc'[v] = "opening" =>
           /\ v # w /\ pc[v] = "opening" /\ copy'[v] = copy[v]
           /\ found'[v] = found[v] /\ scan'[v] = scan[v]
  BY DEF OpenCommit, Respond, TillTypeOK
<1>2. session[w] \in Sessions
  BY <1>1 DEF OpensHold
<1>3. PICK after \in [Sessions -> Workers \union {None}] :
        after = [opener EXCEPT ![session[w]] = w]
  BY <1>2
<1>4. /\ Present' = Present \union {session[w]} /\ row'[session[w]] = copy[w]
      /\ after[session[w]] = w
      /\ \A s \in Present : /\ s # session[w] /\ after[s] = opener[s]
                            /\ s \in scan[w] => row'[s].status = "closed"
                            /\ s \notin scan[w] => row'[s] = row[s]
  <2>1. \A s \in Present : s # session[w] /\ s \in Sessions
    BY CommitRows DEF Present
  <2>2. ASSUME NEW s \in Present
        PROVE  /\ s \in scan[w] => row'[s].status = "closed"
               /\ s \notin scan[w] => row'[s] = row[s]
    <3>1. /\ row[s] \in POSSession
          /\ row'[s] = IF s \in scan[w] THEN [row[s] EXCEPT !.status = "closed"] ELSE row[s]
      BY CommitRows
    <3>2. QED BY <3>1 DEF POSSession
  <2>3. QED BY <2>1, <2>2, <1>2, <1>3, CommitRows
<1>5. ASSUME NEW v \in Workers, pc'[v] = "opening",
             NEW s \in OpenSessions(copy[v].cashier)' \ edited', after[s] = v
      PROVE  s \in found'[v] \union scan'[v]
  <2>1. s \in Present /\ row'[s] = row[s] /\ opener[s] = v
    BY <1>1, <1>4, <1>5 DEF OpenSessions
  <2>2. s \in OpenSessions(copy[v].cashier) \ edited
    BY <2>1, <1>1, <1>5 DEF OpenSessions
  <2>3. QED BY <2>1, <2>2, <1>1, <1>5 DEF LeftOpenBy
<1>6. ASSUME NEW c \in Cashiers, NEW s \in OpenSessions(c)' \ edited'
      PROVE  \/ s \in OpenSessions(c) \ edited /\ s \notin scan[w] /\ s # session[w]
             \/ s = session[w] /\ copy[w].cashier = c
  BY <1>1, <1>4, <1>6 DEF OpenSessions
<1>7. ASSUME NEW s \in OpenSessions(copy[w].cashier) \ edited, opener[s] = w
      PROVE  s \in scan[w]
  BY <1>1, <1>7 DEF LeftOpenBy
<1>8. ASSUME NEW c \in Cashiers, NEW s \in OpenSessions(c)' \ edited',
             NEW t \in OpenSessions(c)' \ edited'
      PROVE  after[s] \in Workers /\ (after[s] = after[t] => s = t)
  <2>1. \A u \in OpenSessions(c) : after[u] = opener[u]
    BY <1>4 DEF OpenSessions
  <2>2. CASE s # session[w] /\ t # session[w]
    <3>1. s \in OpenSessions(c) \ edited /\ t \in OpenSessions(c) \ edited
      BY <1>6, <1>8, <2>2
    <3>2. QED BY <2>1, <3>1 DEF LeftOpenBy
  <2>3. CASE s = session[w] /\ t # session[w]
    <3>1. /\ t \in OpenSessions(copy[w].cashier) \ edited /\ t \notin scan[w]
          /\ after[t] = opener[t]
      BY <1>6, <1>8, <2>1, <2>3
    <3>2. QED BY <3>1, <1>4, <1>7, <2>3
  <2>4. CASE s # session[w] /\ t = session[w]
    <3>1. /\ s \in OpenSessions(copy[w].cashier) \ edited /\ s \notin scan[w]
          /\ s \in OpenSessions(c) \ edited /\ after[s] = opener[s]
      BY <1>6, <1>8, <2>1, <2>4
    <3>2. opener[s] \in Workers
      BY <3>1 DEF LeftOpenBy
    <3>3. QED BY <3>1, <3>2, <1>4, <1>7, <2>4
  <2>5. CASE s = session[w] /\ t = session[w]
    BY <2>5, <1>4
  <2>6. QED BY <2>2, <2>3, <2>4, <2>5
<1>9. LeftOpenBy(after)'
  BY <1>5, <1>8 DEF LeftOpenBy
<1>10. QED BY <1>3, <1>9 DEF OpenedOnce

LEMMA NextOpened ==
  ASSUME TillTypeOK, OpensHold, CopiesHold, OpenedOnce, TillNext
  PROVE  OpenedOnce'
<1>0. PICK opener \in [Sessions -> Workers \union {None}] : LeftOpenBy(opener)
  BY DEF OpenedOnce
<1> DEFINE Waiting == \A v \in Workers : pc'[v] = "opening" =>
             /\ pc[v] = "opening" /\ copy'[v] = copy[v]
             /\ \A t \in found[v] \union scan[v] :
                  t \in OpenSessions(copy[v].cashier)' \ edited' => t \in found'[v] \union scan'[v]
           Quiet == \A t \in Present' \ edited' : row'[t].status = "open" =>
             t \in Present \ edited /\ row[t].status = "open" /\ row'[t].cashier = row[t].cashier
<1>1. ASSUME Waiting, Quiet PROVE OpenedOnce'
  <2>1. LeftOpenBy(opener)'
    BY <1>0, <1>1, OpenedKept
  <2>2. QED BY <1>0, <2>1 DEF OpenedOnce
<1>2. ASSUME UNCHANGED <<row, edited>> PROVE Quiet
  BY <1>2 DEF Present
<1>a. ASSUME \A v \in Workers : pc'[v] = "opening" =>
               /\ pc[v] = "opening" /\ copy'[v] = copy[v]
               /\ found'[v] = found[v] /\ scan'[v] = scan[v]
      PROVE  Waiting
  BY <1>a
<1>3. ASSUME NEW w \in Workers, NEW s \in Sessions, NEW d \in Cashiers, NEW f \in Floats,
             OpenScan(w, s, d, f)
      PROVE  OpenedOnce'
  <2>1. LeftOpenBy(opener)'
    BY <1>0, <1>3, OpenedScan
  <2>2. QED BY <1>0, <2>1 DEF OpenedOnce
<1>4. ASSUME NEW w \in Workers, OpenCommit(w) PROVE OpenedOnce'
  BY <1>0, <1>4, OpenedCommit
<1>5. ASSUME NEW w \in Workers, NEW f \in Floats, CloseSave(w, f) PROVE Waiting /\ Quiet
  <2>1. Waiting
    BY <1>a, <1>5 DEF CloseSave, Respond, TillTypeOK
  <2>2. edited' = edited
    BY <1>5 DEF CloseSave
  <2>3. Quiet
    BY <1>5, <2>2, CloseRows
  <2>4. QED BY <2>1, <2>3
<1>6. ASSUME NEW w \in Workers, NEW d \in Cashiers, NEW f \in Floats,
             NEW g \in Floats \union {None}, EditSave(w, d, f, g)
      PROVE  Waiting /\ Quiet
  <2>1. Waiting
    BY <1>a, <1>6 DEF EditSave, Respond, TillTypeOK
  <2>2. /\ edited' = edited \union {session[w]}
        /\ \A s \in Sessions : s # session[w] => row'[s] = row[s]
    BY <1>6 DEF EditSave, TillTypeOK
  <2>3. Quiet
    BY <2>2 DEF Present
  <2>4. QED BY <2>1, <2>3
<1>7. ASSUME NEW s \in Sessions, DestroySession(s) PROVE Waiting /\ Quiet
  <2>1. /\ edited' = edited /\ row'[s] = None
        /\ \A t \in Sessions : t # s => row'[t] = row[t]
        /\ \A v \in Workers : /\ pc'[v] = pc[v] /\ copy'[v] = copy[v] /\ scan'[v] = scan[v]
                              /\ found'[v] = found[v] \ {s}
    BY <1>7 DEF DestroySession, TillTypeOK
  <2>2. Waiting
    BY <2>1 DEF OpenSessions, Present
  <2>3. Quiet
    BY <2>1 DEF Present
  <2>4. QED BY <2>2, <2>3
<1>8. ASSUME NEW w \in Workers, NEW s \in Sessions, OpenUpdate(w, s) PROVE Waiting /\ Quiet
  <2>1. /\ UNCHANGED <<row, edited, pc, copy>>
        /\ \A v \in Workers : v # w => found'[v] = found[v] /\ scan'[v] = scan[v]
        /\ found'[w] = found[w] \ {s}
        /\ scan'[w] = scan[w] \union ({s} \intersect OpenSessions(copy[w].cashier))
    BY <1>8 DEF OpenUpdate, books, TillTypeOK
  <2>2. \A c : OpenSessions(c)' = OpenSessions(c)
    BY <2>1 DEF OpenSessions, Present
  <2>3. Waiting
    <3> SUFFICES ASSUME NEW v \in Workers, pc'[v] = "opening",
                        NEW t \in found[v] \union scan[v],
                        t \in OpenSessions(copy[v].cashier)' \ edited'
                 PROVE  t \in found'[v] \union scan'[v]
      BY <2>1
    <3>1. t \in OpenSessions(copy[v].cashier)
      BY <2>1 DEF OpenSessions, Present
    <3>2. QED BY <2>1, <3>1
  <2>4. QED BY <1>2, <2>1, <2>3
<1>9. ASSUME NEW w \in Workers, NEW s \in Sessions, CloseFetch(w, s) \/ EditFetch(w, s)
      PROVE  Waiting /\ UNCHANGED <<row, edited>>
  BY <1>a, <1>9 DEF CloseFetch, EditFetch, Begin, books, TillTypeOK
<1>10. ASSUME NEW w \in Workers, CloseSum(w) \/ Fail(w) PROVE Waiting /\ UNCHANGED <<row, edited>>
  BY <1>a, <1>10 DEF CloseSum, Fail, Respond, books, TillTypeOK
<1>11. ASSUME NEW o \in Orders, NEW s \in Sessions \union {None}, CreateOrder(o, s)
       PROVE  Waiting /\ UNCHANGED <<row, edited>>
  BY <1>a, <1>11 DEF CreateOrder, request
<1>12. ASSUME NEW o \in Orders, NEW p \in Payments, NEW m \in {"cash", "card"}, Pay(p, o, m)
       PROVE  Waiting /\ UNCHANGED <<row, edited>>
  BY <1>a, <1>12 DEF Pay, request
<1>13. ASSUME NEW o \in Orders, NEW s \in Sessions \union {None}, MoveOrder(o, s)
       PROVE  Waiting /\ UNCHANGED <<row, edited>>
  BY <1>a, <1>13 DEF MoveOrder, request
<1>14. ASSUME NEW o \in Orders, DestroyOrder(o) PROVE Waiting /\ UNCHANGED <<row, edited>>
  BY <1>a, <1>14 DEF DestroyOrder, request
<1> HIDE DEF Waiting, Quiet
<1>15. Step
  BY DEF TillNext
<1>16. QED
  BY <1>1, <1>2, <1>3, <1>4, <1>5, <1>6, <1>7, <1>8, <1>9, <1>10, <1>11, <1>12, <1>13,
     <1>14, <1>15 DEF Step

-----------------------------------------------------------------------------
(* Till: the theorems.                                                     *)

LEMMA InitTInv == TillInit => TInv
<1> SUFFICES ASSUME TillInit PROVE TInv
  OBVIOUS
<1>1. Present = {}
  BY DEF TillInit, Present
<1>2. OpensHold /\ CopiesHold /\ CountsHold
  BY <1>1 DEF TillInit, OpensHold, CopiesHold, CountsHold
<1>3. OpenedOnce
  <2>1. PICK opener \in [Sessions -> Workers \union {None}] : opener = [s \in Sessions |-> None]
    OBVIOUS
  <2>2. LeftOpenBy(opener)
    BY <1>1 DEF LeftOpenBy, OpenSessions, TillInit
  <2>3. QED BY <2>2 DEF OpenedOnce
<1>4. QED BY <1>2, <1>3, InitTypeOK DEF TInv

LEMMA NextTInv ==
  ASSUME TInv, [TillNext]_tillVars
  PROVE  TInv'
<1>1. TillTypeOK'
  BY NextTypeOK DEF TInv
<1>2. CASE TillNext
  BY <1>1, <1>2, NextOpens, NextCopies, NextCounts, NextOpened DEF TInv
<1>3. CASE UNCHANGED tillVars
  <2>1. Present' = Present /\ \A c : OpenSessions(c)' = OpenSessions(c)
    BY <1>3 DEF tillVars, books, request, history, Present, OpenSessions
  <2>2. OpensHold' /\ CopiesHold' /\ CountsHold'
    BY <1>3, <2>1 DEF TInv, tillVars, books, request, history, OpensHold, CopiesHold, CountsHold
  <2>3. OpenedOnce'
    <3>1. PICK opener \in [Sessions -> Workers \union {None}] : LeftOpenBy(opener)
      BY DEF TInv, OpenedOnce
    <3>2. UNCHANGED <<row, edited, pc, copy, found, scan>>
      BY <1>3 DEF tillVars, books, request, history
    <3>3. LeftOpenBy(opener)'
      BY <3>1, <3>2, <2>1 DEF LeftOpenBy, OpenSessions, Present
    <3>4. QED BY <3>3 DEF OpenedOnce
  <2>4. QED BY <1>1, <2>2, <2>3 DEF TInv
<1>4. QED BY <1>2, <1>3

\* The invariant holds however opens, closes, sales, edits and deletions overlap.
THEOREM TillInvariant == TillSpec => []TInv
BY InitTInv, NextTInv, PTL DEF TillSpec

\* A counted till's expected cash is what was in it, but for cash that moved after
\* a close had added it up and rows edited by hand (sales_service.py:185-203).
THEOREM VariancesExplained == TillSpec => []VarianceExplained
<1>1. TInv => VarianceExplained
  BY DEF TInv, CountsHold, VarianceExplained
<1>2. QED BY <1>1, TillInvariant, PTL

\* A cashier has at most as many unedited open sessions as requests overlap: one,
\* if none do (sales_service.py:167-183).
THEOREM OpensPerRequest == TillSpec => []OpenSessionsBounded
<1>1. TInv => OpenSessionsBounded
  <2> SUFFICES ASSUME TInv, NEW c \in Cashiers
               PROVE  Cardinality(OpenSessions(c) \ edited) <= Cardinality(Workers)
    BY DEF OpenSessionsBounded
  <2>1. PICK opener \in [Sessions -> Workers \union {None}] : LeftOpenBy(opener)
    BY DEF TInv, OpenedOnce
  <2> DEFINE S == OpenSessions(c) \ edited
             f == [s \in S |-> opener[s]]
  <2>2. \A s, t \in S : opener[s] \in Workers /\ (opener[s] = opener[t] => s = t)
    BY <2>1 DEF LeftOpenBy
  <2>3. f \in Injection(S, Workers)
    BY <2>2 DEF Injection, IsInjective
  <2>4. QED BY <2>3, FS_Injection, TillAssumption
<1>2. QED BY <1>1, TillInvariant, PTL

-----------------------------------------------------------------------------
(* Reports: the shape of a step.                                           *)

LEMMA SavedType ==
  ASSUME NEW r \in [status : {"draft", "submitted", "approved"}, amount : Amounts,
                    total : Amounts \union {0}, approved_by : {"nobody", "user"}, expense_date : Days]
  PROVE  Saved(r) \in Expense /\ Saved(r).status = r.status /\ Saved(r).approved_by = r.approved_by
BY DEF Saved, Expense

LEMMA EditedType ==
  ASSUME NEW r \in Expense, NEW a \in Amounts, NEW d \in Days
  PROVE  LET s == Saved([r EXCEPT !.amount = a, !.expense_date = d])
         IN  s \in Expense /\ s.status = r.status /\ s.approved_by = r.approved_by
<1>1. [r EXCEPT !.amount = a, !.expense_date = d] \in
        [status : {"draft", "submitted", "approved"}, amount : Amounts,
         total : Amounts \union {0}, approved_by : {"nobody", "user"}, expense_date : Days]
  BY DEF Expense
<1>2. /\ [r EXCEPT !.amount = a, !.expense_date = d].status = r.status
      /\ [r EXCEPT !.amount = a, !.expense_date = d].approved_by = r.approved_by
  BY DEF Expense
<1>3. QED BY <1>1, <1>2, SavedType

\* A request at work on an expense has its key and its row.
Working ==
  \A w \in Jobs : doing[w] \in {"submitting", "approving", "editing"}
                     => target[w] \in Expenses \ undrawn /\ fetched[w] \in Expense

\* What is approved, in the table and in the copies, has its approver.
Approvals ==
  /\ ApprovedByApprover
  /\ \A w \in Jobs : Approved(fetched[w]) => fetched[w].approved_by # "nobody"

LEMMA SoldType == ASSUME NEW d PROVE Sold(d) \in SUBSET Sales
BY DEF Sold

LEMMA SpentType == ASSUME ReportsTypeOK, NEW d PROVE Spent(d) \in SUBSET (Expenses \X Amounts)
<1>1. \A e \in Expenses : expense[e] # Absent => expense[e].total \in Amounts
  BY DEF ReportsTypeOK, Expense
<1>2. QED BY <1>1 DEF Spent

LEMMA FiguresType ==
  ASSUME NEW f \in FinancialSummary, NEW S \in SUBSET Sales,
         NEW T \in SUBSET (Expenses \X Amounts)
  PROVE  /\ [f EXCEPT !.total_revenue = S] \in FinancialSummary
         /\ [f EXCEPT !.order_count = S] \in FinancialSummary
         /\ [f EXCEPT !.total_cogs = S] \in FinancialSummary
         /\ [f EXCEPT !.total_expenses = T] \in FinancialSummary
BY DEF FinancialSummary

-----------------------------------------------------------------------------
(* Reports: types, copies and approvals.                                   *)

LEMMA InitBasics == ReportsInit => ReportsTypeOK /\ Working /\ Approvals
<1> SUFFICES ASSUME ReportsInit PROVE ReportsTypeOK /\ Working /\ Approvals
  OBVIOUS
<1>1. Nothing \in FinancialSummary
  BY DEF Nothing, FinancialSummary
<1>2. 1 \in Days
  BY ReportsAssumption DEF Days
<1>3. ReportsTypeOK
  BY <1>1, <1>2 DEF ReportsInit, ReportsTypeOK, States
<1>4. Working /\ Approvals
  BY DEF ReportsInit, Working, Approvals, ApprovedByApprover, Approved
<1>5. QED BY <1>3, <1>4

LEMMA NextBasics ==
  ASSUME ReportsTypeOK, Working, Approvals, [ReportsNext]_reportsVars
  PROVE  ReportsTypeOK' /\ Working' /\ Approvals'
<1> USE DEF ReportsTypeOK, Working, Approvals, ApprovedByApprover, Approved
<1>0. Nothing \in FinancialSummary /\ 1 \in Days
  BY ReportsAssumption DEF Nothing, FinancialSummary, Days
<1>1. ASSUME NEW e \in Expenses, NEW a \in Amounts, NEW d \in Days, CreateExpense(e, a, d)
      PROVE  ReportsTypeOK' /\ Working' /\ Approvals'
  <2> DEFINE r == [status |-> "draft", amount |-> a, total |-> 0,
                   approved_by |-> "nobody", expense_date |-> d]
             s == Saved(r)
  <2>1. s \in Expense /\ s.status = "draft"
    BY SavedType
  <2>2. expense' = [expense EXCEPT ![e] = s]
    BY <1>1 DEF CreateExpense
  <2> HIDE DEF s
  <2>3. QED BY <1>1, <2>1, <2>2 DEF CreateExpense, derived, job, clock
<1>2. ASSUME NEW e \in Expenses, DestroyExpense(e) PROVE ReportsTypeOK' /\ Working' /\ Approvals'
  BY <1>2 DEF DestroyExpense, derived, job, clock
<1>3. ASSUME NEW o \in Sales, NEW d \in Days \union {Absent}, ChangeOrder(o, d)
      PROVE  ReportsTypeOK' /\ Working' /\ Approvals'
  BY <1>3 DEF ChangeOrder, derived, job, clock
<1>4. ASSUME NEW w \in Jobs, NEW e \in Expenses,
             NEW state \in {"submitting", "approving", "editing"}, Fetch(w, e, state)
      PROVE  ReportsTypeOK' /\ Working' /\ Approvals'
  BY <1>4 DEF Fetch, BeginJob, ledger, derived, clock, States
<1>5. ASSUME NEW w \in Jobs, Submit(w) PROVE ReportsTypeOK' /\ Working' /\ Approvals'
  <2> DEFINE s == [expense[target[w]] EXCEPT !.status = "submitted"]
  <2>1. expense[target[w]] # Absent => s \in Expense /\ s.status = "submitted"
    <3>1. expense[target[w]] \in Expense \union {Absent}
      BY <1>5 DEF Submit
    <3>2. QED BY <3>1 DEF Expense
  <2>2. expense' = IF expense[target[w]] # Absent THEN [expense EXCEPT ![target[w]] = s] ELSE expense
    BY <1>5 DEF Submit
  <2> HIDE DEF s
  <2>3. doing' = [doing EXCEPT ![w] = "idle"] /\ fetched' = [fetched EXCEPT ![w] = Absent]
    BY <1>5 DEF Submit, EndJob
  <2>4. ReportsTypeOK'
    BY <1>0, <1>5, <2>1, <2>2 DEF Submit, EndJob, derived, clock, States
  <2>5. Working'
    BY <1>5, <2>3 DEF Submit, EndJob
  <2>6. Approvals'
    BY <1>5, <2>1, <2>2, <2>3 DEF Submit
  <2>7. QED BY <2>4, <2>5, <2>6
<1>6. ASSUME NEW w \in Jobs, Approve(w) PROVE ReportsTypeOK' /\ Working' /\ Approvals'
  <2> DEFINE s == [expense[target[w]] EXCEPT !.status = "approved", !.approved_by = "user"]
  <2>1. expense[target[w]] # Absent => s \in Expense /\ s.approved_by = "user"
    <3>1. expense[target[w]] \in Expense \union {Absent}
      BY <1>6 DEF Approve
    <3>2. QED BY <3>1 DEF Expense
  <2>2. expense' = IF expense[target[w]] # Absent THEN [expense EXCEPT ![target[w]] = s] ELSE expense
    BY <1>6 DEF Approve
  <2> HIDE DEF s
  <2>3. doing' = [doing EXCEPT ![w] = "idle"] /\ fetched' = [fetched EXCEPT ![w] = Absent]
    BY <1>6 DEF Approve, EndJob
  <2>4. ReportsTypeOK'
    BY <1>0, <1>6, <2>1, <2>2 DEF Approve, EndJob, derived, clock, States
  <2>5. Working'
    BY <1>6, <2>3 DEF Approve, EndJob
  <2>6. Approvals'
    BY <1>6, <2>1, <2>2, <2>3 DEF Approve
  <2>7. QED BY <2>4, <2>5, <2>6
<1>7. ASSUME NEW w \in Jobs, NEW a \in Amounts, NEW d \in Days, Edit(w, a, d)
      PROVE  ReportsTypeOK' /\ Working' /\ Approvals'
  <2> DEFINE s == Saved([fetched[w] EXCEPT !.amount = a, !.expense_date = d])
  <2>1. fetched[w] \in Expense /\ target[w] \in Expenses \ undrawn
    BY <1>7 DEF Edit
  <2>2. s \in Expense /\ s.status = fetched[w].status /\ s.approved_by = fetched[w].approved_by
    BY <2>1, EditedType, Zenon
  <2>3. expense' = [expense EXCEPT ![target[w]] = s]
    BY <1>7 DEF Edit
  <2> HIDE DEF s
  <2>4. undrawn' \subseteq {e \in Expenses : expense'[e] = Absent}
    BY <1>7, <2>1, <2>3 DEF Edit
  <2>5. doing' = [doing EXCEPT ![w] = "idle"] /\ fetched' = [fetched EXCEPT ![w] = Absent]
    BY <1>7 DEF Edit, EndJob
  <2>6. ReportsTypeOK'
    BY <1>0, <1>7, <2>1, <2>2, <2>3, <2>4 DEF Edit, EndJob, derived, clock, States
  <2>7. Working'
    BY <1>7, <2>5 DEF Edit, EndJob
  <2>8. Approvals'
    BY <2>1, <2>2, <2>3, <2>5, ReportsAssumption
  <2>9. QED BY <2>6, <2>7, <2>8
<1>8. ASSUME NextDay PROVE ReportsTypeOK' /\ Working' /\ Approvals'
  BY <1>8, ReportsAssumption DEF NextDay, ledger, derived, job, Days
<1>9. ASSUME NEW w \in Jobs, Start(w) PROVE ReportsTypeOK' /\ Working' /\ Approvals'
  BY <1>9 DEF Start, BeginJob, ledger, derived, clock, States
<1>10. ASSUME NEW w \in Jobs, ReadRevenue(w) \/ CountOrders(w) \/ ReadCogs(w) \/ ReadExpenses(w)
       PROVE  ReportsTypeOK' /\ Working' /\ Approvals'
  <2>1. \E f \in FinancialSummary : seen' = [seen EXCEPT ![w] = f]
    <3>1. /\ [seen[w] EXCEPT !.total_revenue = Sold(date[w])] \in FinancialSummary
          /\ [seen[w] EXCEPT !.order_count = Sold(date[w])] \in FinancialSummary
          /\ [seen[w] EXCEPT !.total_cogs = Sold(date[w])] \in FinancialSummary
          /\ [seen[w] EXCEPT !.total_expenses = Spent(date[w])] \in FinancialSummary
      <4>1. Sold(date[w]) \in SUBSET Sales /\ Spent(date[w]) \in SUBSET (Expenses \X Amounts)
        BY SoldType, SpentType
      <4>2. seen[w] \in FinancialSummary
        OBVIOUS
      <4>3. QED BY <4>1, <4>2, FiguresType
    <3>2. QED
      BY <1>10, <3>1, Zenon DEF ReadRevenue, CountOrders, ReadCogs, ReadExpenses, Query
  <2>2. /\ doing' \in [Jobs -> States]
        /\ \A v \in Jobs : doing'[v] = doing[v] \/ doing'[v] \in {"revenue", "count", "cogs", "expenses"}
    BY <1>10 DEF ReadRevenue, CountOrders, ReadCogs, ReadExpenses, Query, States
  <2>3. UNCHANGED <<ledger, derived, target, fetched, date, since, clock>>
    BY <1>10 DEF ReadRevenue, CountOrders, ReadCogs, ReadExpenses, Query
  <2>4. QED
    BY <2>1, <2>2, <2>3 DEF ledger, derived, clock
<1>11. ASSUME NEW w \in Jobs, WriteSummary(w) PROVE ReportsTypeOK' /\ Working' /\ Approvals'
  BY <1>0, <1>11 DEF WriteSummary, EndJob, ledger, clock, States
<1>12. ASSUME NEW w \in Jobs, FailJob(w) PROVE ReportsTypeOK' /\ Working' /\ Approvals'
  BY <1>0, <1>12 DEF FailJob, EndJob, ledger, derived, clock, States
<1>13. ASSUME NEW w \in Jobs, Miss(w) PROVE ReportsTypeOK' /\ Working' /\ Approvals'
  BY <1>13 DEF Miss, BeginJob, ledger, derived, clock, States
<1>14. ASSUME NEW w \in Jobs, Store(w) PROVE ReportsTypeOK' /\ Working' /\ Approvals'
  BY <1>0, <1>14, ReportsAssumption DEF Store, EndJob, ledger, clock, States
<1>15. ASSUME Evict PROVE ReportsTypeOK' /\ Working' /\ Approvals'
  BY <1>15 DEF Evict, ledger, job, clock
<1>16. ASSUME Tick PROVE ReportsTypeOK' /\ Working' /\ Approvals'
  BY <1>16 DEF Tick, ledger, derived, job
<1>17. CASE UNCHANGED reportsVars
  BY <1>17 DEF reportsVars, ledger, derived, job, clock
<1>18. QED
  BY <1>1, <1>2, <1>3, <1>4, <1>5, <1>6, <1>7, <1>8, <1>9, <1>10, <1>11, <1>12, <1>13,
     <1>14, <1>15, <1>16, <1>17 DEF ReportsNext, ReportsStep

-----------------------------------------------------------------------------
(* Reports: the figures.                                                   *)

\* What builds have read and written agrees with untouched books.
Figures ==
  /\ \A d \in Days : summary[d] # Absent => d \in begun
  /\ SummaryExplained
  /\ BuildsHold

\* A day that stays untouched keeps its books through the step.
LEMMA UntouchedBooks ==
  ASSUME ReportsNext, NEW d \in begun, d \notin touched'
  PROVE  d \notin touched /\ Sold(d)' = Sold(d) /\ Spent(d)' = Spent(d)
BY DEF ReportsNext

\* A step that writes no summary and moves no build leaves the figures right.
LEMMA UndisturbedFigures ==
  ASSUME Figures, ReportsNext, begun \subseteq begun', UNCHANGED summary,
         \A v \in Jobs : Reading(v)' => /\ doing'[v] = doing[v]
                                          /\ date'[v] = date[v] /\ seen'[v] = seen[v]
  PROVE  Figures'
<1>1. \A d \in Days : summary'[d] # Absent => d \in begun'
  BY DEF Figures
<1>2. SummaryExplained'
  <2> SUFFICES ASSUME NEW d \in Days, summary'[d] # Absent, d \notin touched'
               PROVE  summary'[d] = Books(d)'
    BY DEF SummaryExplained
  <2>1. d \in begun
    BY DEF Figures
  <2>2. d \notin touched /\ Sold(d)' = Sold(d) /\ Spent(d)' = Spent(d)
    BY <2>1, UntouchedBooks
  <2>3. summary[d] = Books(d)
    BY <2>2 DEF Figures, SummaryExplained
  <2>4. QED BY <2>2, <2>3 DEF Books
<1>3. BuildsHold'
  <2> SUFFICES ASSUME NEW v \in Jobs, Reading(v)'
               PROVE  date'[v] \in begun' /\ (date'[v] \notin touched' => ReadsHold(v)')
    BY DEF BuildsHold
  <2>1. Reading(v) /\ date[v] \in begun
    BY DEF Figures, BuildsHold, Reading
  <2>2. ASSUME date'[v] \notin touched' PROVE ReadsHold(v)'
    <3>1. /\ date[v] \notin touched
          /\ Sold(date[v])' = Sold(date'[v]) /\ Spent(date[v])' = Spent(date'[v])
      BY <2>1, <2>2, UntouchedBooks
    <3>2. ReadsHold(v)
      BY <2>1, <3>1 DEF Figures, BuildsHold
    <3>3. QED BY <3>1, <3>2 DEF ReadsHold
  <2>3. QED BY <2>1, <2>2
<1>4. QED BY <1>1, <1>2, <1>3 DEF Figures

\* A query of one build: what it adds is so, and the others are undisturbed.
LEMMA QueryFigures ==
  ASSUME ReportsTypeOK, Figures, ReportsNext, NEW w \in Jobs,
         ReadRevenue(w) \/ CountOrders(w) \/ ReadCogs(w) \/ ReadExpenses(w)
  PROVE  Figures'
<1>1. /\ UNCHANGED <<counted, expense, summary, date>>
      /\ begun \subseteq begun' /\ date[w] \in begun'
      /\ \A v \in Jobs \ {w} : doing'[v] = doing[v] /\ seen'[v] = seen[v]
  BY DEF ReportsTypeOK, Figures, BuildsHold, Reading, ReadRevenue, CountOrders, ReadCogs,
         ReadExpenses, Query, ledger, derived
<1>2. \A d : Sold(d)' = Sold(d) /\ Spent(d)' = Spent(d)
  BY <1>1 DEF Sold, Spent
<1>3. touched' = touched
  BY <1>2 DEF ReportsNext
<1>4. (\A d \in Days : summary'[d] # Absent => d \in begun') /\ SummaryExplained'
  BY <1>1, <1>2, <1>3 DEF Figures, SummaryExplained, Books
<1>5. ASSUME NEW v \in Jobs, v # w, Reading(v)'
      PROVE  date'[v] \in begun' /\ (date'[v] \notin touched' => ReadsHold(v)')
  <2>1. Reading(v) /\ date'[v] = date[v] /\ doing'[v] = doing[v] /\ seen'[v] = seen[v]
    BY <1>1, <1>5 DEF Reading
  <2>2. date[v] \in begun /\ (date[v] \notin touched => ReadsHold(v))
    BY <2>1 DEF Figures, BuildsHold
  <2>3. Sold(date[v])' = Sold(date[v]) /\ Spent(date[v])' = Spent(date[v])
    BY <1>1, <2>1 DEF Sold, Spent
  <2>4. QED BY <1>1, <1>3, <2>1, <2>2, <2>3 DEF ReadsHold
<1>6. date[w] \notin touched => ReadsHold(w)'
  <2> SUFFICES ASSUME date[w] \notin touched PROVE ReadsHold(w)'
    OBVIOUS
  <2>1. Sold(date[w])' = Sold(date[w]) /\ Spent(date[w])' = Spent(date[w])
    BY <1>1 DEF Sold, Spent
  <2>2. Reading(w) => ReadsHold(w)
    BY DEF Figures, BuildsHold
  <2>3. seen[w] \in FinancialSummary /\ w \in DOMAIN seen /\ w \in DOMAIN doing
    BY DEF ReportsTypeOK
  <2>4. CASE ReadRevenue(w)
    <3>1. doing'[w] = "revenue" /\ seen'[w].total_revenue = Sold(date[w])
      BY <2>3, <2>4 DEF ReadRevenue, Query, FinancialSummary
    <3>2. QED BY <2>1, <3>1 DEF ReadsHold
  <2>5. CASE CountOrders(w)
    <3>1. /\ doing'[w] = "count" /\ seen'[w].order_count = Sold(date[w])
          /\ seen'[w].total_revenue = seen[w].total_revenue /\ doing[w] = "revenue"
      BY <2>3, <2>5 DEF CountOrders, Query, FinancialSummary
    <3>2. QED BY <2>1, <2>2, <3>1 DEF ReadsHold, Reading
  <2>6. CASE ReadCogs(w)
    <3>1. /\ doing'[w] = "cogs" /\ seen'[w].total_cogs = Sold(date[w]) /\ doing[w] = "count"
          /\ seen'[w].total_revenue = seen[w].total_revenue
          /\ seen'[w].order_count = seen[w].order_count
      BY <2>3, <2>6 DEF ReadCogs, Query, FinancialSummary
    <3>2. QED BY <2>1, <2>2, <3>1 DEF ReadsHold, Reading
  <2>7. CASE ReadExpenses(w)
    <3>1. /\ doing'[w] = "expenses" /\ seen'[w].total_expenses = Spent(date[w]) /\ doing[w] = "cogs"
          /\ seen'[w].total_revenue = seen[w].total_revenue
          /\ seen'[w].order_count = seen[w].order_count
          /\ seen'[w].total_cogs = seen[w].total_cogs
      BY <2>3, <2>7 DEF ReadExpenses, Query, FinancialSummary
    <3>2. QED BY <2>1, <2>2, <3>1 DEF ReadsHold, Reading
  <2>8. QED BY <2>4, <2>5, <2>6, <2>7
<1>7. BuildsHold'
  BY <1>1, <1>3, <1>5, <1>6 DEF BuildsHold
<1>8. QED BY <1>4, <1>7 DEF Figures

LEMMA WriteFigures ==
  ASSUME ReportsTypeOK, Figures, ReportsNext, NEW w \in Jobs, WriteSummary(w)
  PROVE  Figures'
<1>1. /\ UNCHANGED <<counted, expense, begun>> /\ doing[w] = "expenses" /\ doing'[w] = "idle"
      /\ summary' = [summary EXCEPT ![date[w]] = seen[w]] /\ date[w] \in Days
      /\ \A v \in Jobs \ {w} : doing'[v] = doing[v] /\ seen'[v] = seen[v] /\ date'[v] = date[v]
  BY DEF ReportsTypeOK, WriteSummary, EndJob, ledger
<1>2. \A d : Sold(d)' = Sold(d) /\ Spent(d)' = Spent(d)
  BY <1>1 DEF Sold, Spent
<1>3. touched' = touched
  BY <1>2 DEF ReportsNext
<1>4. date[w] \in begun /\ (date[w] \notin touched => ReadsHold(w))
  BY <1>1 DEF Figures, BuildsHold, Reading
<1>5. date[w] \notin touched => seen[w] = Books(date[w])
  <2>1. seen[w] \in FinancialSummary
    BY DEF ReportsTypeOK
  <2>2. QED BY <1>1, <1>4, <2>1 DEF ReadsHold, Books, FinancialSummary
<1>6. \A d \in Days : summary'[d] # Absent => d \in begun'
  BY <1>1, <1>4 DEF Figures, ReportsTypeOK
<1>7. SummaryExplained'
  <2> SUFFICES ASSUME NEW d \in Days, summary'[d] # Absent, d \notin touched
               PROVE  summary'[d] = Books(d)'
    BY <1>3 DEF SummaryExplained
  <2>1. Books(d)' = Books(d)
    BY <1>2 DEF Books
  <2>2. CASE d = date[w]
    BY <1>1, <1>5, <2>1, <2>2 DEF ReportsTypeOK
  <2>3. CASE d # date[w]
    BY <1>1, <2>1, <2>3 DEF Figures, SummaryExplained, ReportsTypeOK
  <2>4. QED BY <2>2, <2>3
<1>8. BuildsHold'
  <2> SUFFICES ASSUME NEW v \in Jobs, Reading(v)'
               PROVE  date'[v] \in begun' /\ (date'[v] \notin touched' => ReadsHold(v)')
    BY DEF BuildsHold
  <2>1. v # w
    BY <1>1 DEF Reading
  <2>2. Reading(v) /\ date'[v] = date[v] /\ doing'[v] = doing[v] /\ seen'[v] = seen[v]
    BY <1>1, <2>1 DEF Reading
  <2>3. date[v] \in begun /\ (date[v] \notin touched => ReadsHold(v))
    BY <2>2 DEF Figures, BuildsHold
  <2>4. Sold(date[v])' = Sold(date[v]) /\ Spent(date[v])' = Spent(date[v])
    BY <1>1, <2>2 DEF Sold, Spent
  <2>5. QED BY <1>1, <1>3, <2>2, <2>3, <2>4 DEF ReadsHold
<1>9. QED BY <1>6, <1>7, <1>8 DEF Figures

LEMMA NextFigures ==
  ASSUME ReportsTypeOK, Figures, ReportsNext
  PROVE  Figures'
<1> DEFINE Still ==
      /\ begun \subseteq begun' /\ UNCHANGED summary
      /\ \A v \in Jobs : Reading(v)' => /\ doing'[v] = doing[v]
                                          /\ date'[v] = date[v] /\ seen'[v] = seen[v]
<1>1. ASSUME Still PROVE Figures'
  BY <1>1, UndisturbedFigures
<1>2. ASSUME NEW e \in Expenses, NEW a \in Amounts, NEW d \in Days, CreateExpense(e, a, d)
      PROVE  Still
  BY <1>2 DEF CreateExpense, derived, job, Reading
<1>3. ASSUME NEW e \in Expenses, DestroyExpense(e) PROVE Still
  BY <1>3 DEF DestroyExpense, derived, job, Reading
<1>4. ASSUME NEW o \in Sales, NEW d \in Days \union {Absent}, ChangeOrder(o, d) PROVE Still
  BY <1>4 DEF ChangeOrder, derived, job, Reading
<1>5. ASSUME NEW w \in Jobs, NEW e \in Expenses,
             NEW state \in {"submitting", "approving", "editing"}, Fetch(w, e, state)
      PROVE  Still
  BY <1>5 DEF Fetch, BeginJob, derived, Reading, ReportsTypeOK
<1>6. ASSUME NEW w \in Jobs, Submit(w) \/ Approve(w) \/ FailJob(w) \/ Store(w) PROVE Still
  BY <1>6 DEF Submit, Approve, FailJob, Store, EndJob, derived, Reading, ReportsTypeOK
<1>7. ASSUME NEW w \in Jobs, NEW a \in Amounts, NEW d \in Days, Edit(w, a, d) PROVE Still
  BY <1>7 DEF Edit, EndJob, derived, Reading, ReportsTypeOK
<1>8. ASSUME NEW w \in Jobs, Start(w) PROVE Still
  BY <1>8 DEF Start, BeginJob, derived, Reading, ReportsTypeOK
<1>9. ASSUME NEW w \in Jobs, Miss(w) PROVE Still
  BY <1>9 DEF Miss, BeginJob, derived, Reading, ReportsTypeOK
<1>10. ASSUME NextDay \/ Evict \/ Tick PROVE Still
  BY <1>10 DEF NextDay, Evict, Tick, derived, job, Reading
<1>11. ASSUME NEW w \in Jobs,
              ReadRevenue(w) \/ CountOrders(w) \/ ReadCogs(w) \/ ReadExpenses(w)
       PROVE  Figures'
  BY <1>11, QueryFigures
<1>12. ASSUME NEW w \in Jobs, WriteSummary(w) PROVE Figures'
  BY <1>12, WriteFigures
<1> HIDE DEF Still
<1>13. ReportsStep
  BY DEF ReportsNext
<1>14. QED
  BY <1>1, <1>2, <1>3, <1>4, <1>5, <1>6, <1>7, <1>8, <1>9, <1>10, <1>11, <1>12, <1>13 DEF ReportsStep

-----------------------------------------------------------------------------
(* Reports: the clock.                                                     *)

LEMMA NextOverviews ==
  ASSUME ReportsTypeOK, OverviewsHold, ReportsNext
  PROVE  OverviewsHold'
<1> USE DEF OverviewsHold
<1> DEFINE Still ==
      /\ UNCHANGED <<now, cache>>
      /\ \A v \in Jobs : doing'[v] = "overview" => doing[v] = "overview" /\ since'[v] = since[v]
<1>1. ASSUME Still PROVE OverviewsHold'
  BY <1>1
<1>2. ASSUME NEW e \in Expenses, NEW a \in Amounts, NEW d \in Days, CreateExpense(e, a, d)
      PROVE  Still
  BY <1>2 DEF CreateExpense, derived, job, clock
<1>3. ASSUME NEW e \in Expenses, DestroyExpense(e) PROVE Still
  BY <1>3 DEF DestroyExpense, derived, job, clock
<1>4. ASSUME NEW o \in Sales, NEW d \in Days \union {Absent}, ChangeOrder(o, d) PROVE Still
  BY <1>4 DEF ChangeOrder, derived, job, clock
<1>5. ASSUME NEW w \in Jobs, NEW e \in Expenses,
             NEW state \in {"submitting", "approving", "editing"}, Fetch(w, e, state)
      PROVE  Still
  BY <1>5 DEF Fetch, BeginJob, derived, clock, ReportsTypeOK
<1>6. ASSUME NEW w \in Jobs, Submit(w) \/ Approve(w) \/ FailJob(w) \/ WriteSummary(w) PROVE Still
  BY <1>6 DEF Submit, Approve, FailJob, WriteSummary, EndJob, derived, clock, ReportsTypeOK
<1>7. ASSUME NEW w \in Jobs, NEW a \in Amounts, NEW d \in Days, Edit(w, a, d) PROVE Still
  BY <1>7 DEF Edit, EndJob, derived, clock, ReportsTypeOK
<1>8. ASSUME NEW w \in Jobs, Start(w) PROVE Still
  BY <1>8 DEF Start, BeginJob, derived, clock, ReportsTypeOK
<1>9. ASSUME NEW w \in Jobs,
             ReadRevenue(w) \/ CountOrders(w) \/ ReadCogs(w) \/ ReadExpenses(w)
      PROVE  Still
  BY <1>9 DEF ReadRevenue, CountOrders, ReadCogs, ReadExpenses, Query, derived, clock, ReportsTypeOK
<1>10. ASSUME NextDay PROVE Still
  BY <1>10 DEF NextDay, derived, job
<1>11. ASSUME Evict PROVE OverviewsHold'
  BY <1>11 DEF Evict, job, clock
<1>12. ASSUME Tick PROVE OverviewsHold'
  BY <1>12, ReportsAssumption DEF Tick, derived, job, ReportsTypeOK
<1>13. ASSUME NEW w \in Jobs, Miss(w) PROVE OverviewsHold'
  BY <1>13, ReportsAssumption DEF Miss, BeginJob, derived, clock, ReportsTypeOK
<1>14. ASSUME NEW w \in Jobs, Store(w) PROVE OverviewsHold'
  <2>1. since[w] <= now /\ now - since[w] <= Timeout /\ since[w] \in Nat /\ now \in Nat
    BY <1>14 DEF Store, ReportsTypeOK
  <2>2. cache' = [at |-> since[w], expires |-> now + TTL] /\ now' = now
    BY <1>14 DEF Store, clock
  <2>3. now' <= cache'.expires /\ cache'.expires - cache'.at <= TTL + Timeout
    BY <2>1, <2>2, ReportsAssumption
  <2>4. \A v \in Jobs : doing'[v] = "overview" => doing[v] = "overview" /\ since'[v] = since[v]
    BY <1>14 DEF Store, EndJob, ReportsTypeOK
  <2>5. QED BY <2>2, <2>3, <2>4
<1> HIDE DEF Still
<1>15. ReportsStep
  BY DEF ReportsNext
<1>16. QED
  BY <1>1, <1>2, <1>3, <1>4, <1>5, <1>6, <1>7, <1>8, <1>9, <1>10, <1>11, <1>12, <1>13,
     <1>14, <1>15 DEF ReportsStep

-----------------------------------------------------------------------------
(* Reports: the theorems.                                                  *)

LEMMA InitRInv == ReportsInit => RInv
<1> SUFFICES ASSUME ReportsInit PROVE RInv
  OBVIOUS
<1>1. ReportsTypeOK /\ Working /\ Approvals
  BY InitBasics
<1>2. Figures /\ OverviewsHold
  BY DEF ReportsInit, Figures, SummaryExplained, BuildsHold, Reading, OverviewsHold
<1>3. QED BY <1>1, <1>2 DEF RInv, Working, Approvals, Figures

LEMMA NextRInv ==
  ASSUME RInv, [ReportsNext]_reportsVars
  PROVE  RInv'
<1>1. ReportsTypeOK /\ Working /\ Approvals /\ Figures /\ OverviewsHold
  BY DEF RInv, Working, Approvals, Figures
<1>2. ReportsTypeOK' /\ Working' /\ Approvals'
  BY <1>1, NextBasics
<1>3. CASE ReportsNext
  <2>1. Figures' /\ OverviewsHold'
    BY <1>1, <1>3, NextFigures, NextOverviews
  <2>2. QED BY <1>2, <2>1 DEF RInv, Working, Approvals, Figures
<1>4. CASE UNCHANGED reportsVars
  <2>1. Figures'
    BY <1>1, <1>4 DEF reportsVars, ledger, derived, job, Figures, SummaryExplained, BuildsHold,
       Reading, ReadsHold, Books, Sold, Spent
  <2>2. OverviewsHold'
    BY <1>1, <1>4 DEF reportsVars, derived, job, clock, OverviewsHold
  <2>3. QED BY <1>2, <2>1, <2>2 DEF RInv, Working, Approvals, Figures
<1>5. QED BY <1>3, <1>4

\* The reports, the expenses and the cache keep their inductive invariant.
THEOREM ReportsInvariant == ReportsSpec => []RInv
BY InitRInv, NextRInv, PTL DEF ReportsSpec

\* A daily summary differs from the books of its day only if those changed after
\* a build of it had begun (analytics/tasks.py:35-80), for any number of builds.
THEOREM SummariesExplained == ReportsSpec => []SummaryExplained
<1>1. RInv => SummaryExplained
  BY DEF RInv
<1>2. QED BY <1>1, ReportsInvariant, PTL

\* A cached overview is never older than its time to live and the server's
\* timeout together (dashboard_service.py:26-108, gunicorn.conf.py:11).
THEOREM OverviewsRecent == ReportsSpec => []OverviewIsRecent
<1>1. RInv => OverviewIsRecent
  <2> SUFFICES ASSUME RInv, cache # Absent PROVE now - cache.at <= TTL + Timeout
    BY DEF OverviewIsRecent
  <2>1. cache \in [at : Nat, expires : Nat] /\ now \in Nat
    BY DEF RInv, ReportsTypeOK
  <2>2. now <= cache.expires /\ cache.expires - cache.at <= TTL + Timeout
    BY DEF RInv, OverviewsHold
  <2>3. QED BY <2>1, <2>2, ReportsAssumption
<1>2. QED BY <1>1, ReportsInvariant, PTL

\* Whatever copies of an expense are saved in whatever order, an approved one has
\* its approver (finance/views.py:94-118).
THEOREM ApprovalsHaveApprovers == ReportsSpec => []ApprovedByApprover
<1>1. RInv => ApprovedByApprover
  BY DEF RInv
<1>2. QED BY <1>1, ReportsInvariant, PTL
=============================================================================

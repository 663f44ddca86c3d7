--------------------------- MODULE Notifications ---------------------------
(***************************************************************************)
(* Notifications: the tasks that create them for a tenant's owners and     *)
(* managers, the push of each one to the sockets of its recipient, and the *)
(* unread count a socket starts from.                                      *)
(*                                                                         *)
(* Every row is a commit of its own.  A task acknowledged as it starts is  *)
(* lost with its worker; one that raises is retried from the beginning, or *)
(* dropped if it has no retries left.                                      *)
(***************************************************************************)
EXTENDS Naturals, Sequences

CONSTANTS
  Recipients, Tenants,
  Admins,          \* [Tenants -> its active owners and managers at first]
  Appointments,    \* who comes and goes, <<tenant, user>>
  Tasks,           \* runs of send_reorder_alert and of the daily sweeps
  Loads,           \* the sets of tasks that are queued in one behaviour
  TenantsOf,       \* [Tasks -> the tenants it notifies, in order]
  Retried,         \* the tasks with retries: send_reorder_alert
  MaxRetries,
  Sockets,         \* WebSocket connections
  UserOf,          \* [Sockets -> Recipients]
  NoRow            \* nothing to push

Row == [task : Tasks, try : 0..MaxRetries, tenant : Tenants, user : Recipients]

ASSUME NotificationsAssumption ==
  /\ NoRow \notin Row
  /\ TenantsOf \in [Tasks -> Seq(Tenants)]
  /\ Loads \subseteq SUBSET Tasks
  /\ Retried \subseteq Tasks /\ MaxRetries \in Nat
  /\ UserOf \in [Sockets -> Recipients]
  /\ Admins \in [Tenants -> SUBSET Recipients]
  /\ Appointments \subseteq Tenants \X Recipients

VARIABLES
  load,            \* the tasks of this behaviour
  admins,          \* [Tenants -> its active owners and managers]
  task,            \* [Tasks -> "none", "queued", "running", "done", "dropped"]
  tries,           \* [Tasks -> retries so far]
  phase,           \* [Tasks -> "tenant", "member", "push": where a run is]
  left,            \* [Tasks -> the tenants its run has yet to finish]
  todo,            \* [Tasks -> the recipients it has yet to notify]
  pushing,         \* [Tasks -> the row it has created and not pushed]
  rows,            \* the Notification rows
  read,            \* those with is_read
  socket,          \* [Sockets -> "new", "joined", "counted", "open", "read", "closed"]
  inbox,           \* [Sockets -> the rows pushed to its channel]
  known,           \* [Sockets -> the rows its client was told of or has counted]
  missed,          \* history: rows whose push failed
  reached          \* history: [Tasks -> recipients read by its latest run]

settings  == <<load, admins>>
running   == <<phase, left, todo, pushing, reached>>
delivered == <<socket, inbox, known>>
notifyVars == <<settings, task, tries, running, rows, read, delivered, missed>>

RowOf(t, n, u) == [task |-> t, try |-> tries[t], tenant |-> n, user |-> u]

Unread(u) == {r \in rows \ read : r.user = u}

-----------------------------------------------------------------------------
NotifyInit ==
  /\ load \in Loads
  /\ admins = Admins
  /\ task = [t \in Tasks |-> "none"]
  /\ tries = [t \in Tasks |-> 0]
  /\ phase = [t \in Tasks |-> "tenant"]
  /\ left = [t \in Tasks |-> <<>>]
  /\ todo = [t \in Tasks |-> {}]
  /\ pushing = [t \in Tasks |-> NoRow]
  /\ rows = {} /\ read = {}
  /\ socket = [s \in Sockets |-> "new"]
  /\ inbox = [s \in Sockets |-> {}]
  /\ known = [s \in Sockets |-> {}]
  /\ missed = {}
  /\ reached = [t \in Tasks |-> {}]

-----------------------------------------------------------------------------
(* The tasks.                                                              *)

\* delay() or the beat puts the task in the queue.
Queue(t) ==
  /\ t \in load
  /\ task[t] = "none"
  /\ task' = [task EXCEPT ![t] = "queued"]
  /\ UNCHANGED <<settings, tries, running, rows, read, delivered, missed>>

Start(t) ==
  /\ task[t] = "queued"
  /\ task' = [task EXCEPT ![t] = "running"]
  /\ phase' = [phase EXCEPT ![t] = "tenant"]
  /\ left' = [left EXCEPT ![t] = TenantsOf[t]]
  /\ todo' = [todo EXCEPT ![t] = {}]
  /\ pushing' = [pushing EXCEPT ![t] = NoRow]
  /\ reached' = [reached EXCEPT ![t] = {}]
  /\ UNCHANGED <<settings, tries, rows, read, delivered, missed>>

In(t, p) == task[t] = "running" /\ phase[t] = p

\* NotificationService.create reads the memberships of the next tenant.
ReadMembers(t) ==
  /\ In(t, "tenant")
  /\ left[t] # <<>>
  /\ todo' = [todo EXCEPT ![t] = admins[Head(left[t])]]
  /\ reached' = [reached EXCEPT ![t] = @ \union {<<Head(left[t]), u>> : u \in todo'[t]}]
  /\ phase' = [phase EXCEPT ![t] = "member"]
  /\ UNCHANGED <<settings, task, tries, left, pushing, rows, read, delivered, missed>>

CreateRow(t, u) ==
  LET row == RowOf(t, Head(left[t]), u)
  IN  /\ In(t, "member")
      /\ u \in todo[t]
      /\ rows' = rows \union {row}
      /\ pushing' = [pushing EXCEPT ![t] = row]
      /\ phase' = [phase EXCEPT ![t] = "push"]
      /\ todo' = [todo EXCEPT ![t] = @ \ {u}]
      /\ UNCHANGED <<settings, task, tries, left, reached, read, delivered, missed>>

\* Mutant: a consumer joins its group when it has greeted its client.
GroupOfGreeted(u) == {s \in Sockets : UserOf[s] = u /\ socket[s] \in {"open", "read"}}

\* The channel group of a user.
Group(u) == {s \in Sockets : UserOf[s] = u /\ socket[s] \notin {"new", "closed"}}

\* group_send; a failure is logged and the task goes on.
Push(t) ==
  /\ In(t, "push")
  /\ \/ /\ inbox' = [s \in Sockets |->
              IF s \in Group(pushing[t].user) THEN inbox[s] \union {pushing[t]} ELSE inbox[s]]
        /\ UNCHANGED missed
     \/ /\ missed' = missed \union {pushing[t]}
        /\ UNCHANGED inbox
  /\ phase' = [phase EXCEPT ![t] = "member"]
  /\ pushing' = [pushing EXCEPT ![t] = NoRow]
  /\ UNCHANGED <<settings, task, tries, left, todo, reached, rows, read, socket, known>>

NextTenant(t) ==
  /\ In(t, "member")
  /\ todo[t] = {}
  /\ left' = [left EXCEPT ![t] = Tail(@)]
  /\ phase' = [phase EXCEPT ![t] = "tenant"]
  /\ UNCHANGED <<settings, task, tries, todo, pushing, reached, rows, read, delivered, missed>>

Finish(t) ==
  /\ In(t, "tenant")
  /\ left[t] = <<>>
  /\ task' = [task EXCEPT ![t] = "done"]
  /\ UNCHANGED <<settings, tries, running, rows, read, delivered, missed>>

\* Mutant: the task swallows what it catches.
RaiseSwallowed(t) ==
  /\ task[t] = "running" /\ phase[t] # "push"
  /\ task' = [task EXCEPT ![t] = "done"]
  /\ UNCHANGED <<settings, tries, running, rows, read, delivered, missed>>

\* Mutant: retry() without a limit.
RaiseForever(t) ==
  /\ task[t] = "running" /\ phase[t] # "push"
  /\ task' = [task EXCEPT ![t] = "queued"]
  /\ UNCHANGED <<settings, tries, running, rows, read, delivered, missed>>

\* A query raises: a task with retries left goes back to the queue, the others
\* are dropped with the tenants they have not come to.
Raise(t) ==
  /\ task[t] = "running" /\ phase[t] # "push"
  /\ IF t \in Retried /\ tries[t] < MaxRetries
       THEN /\ task' = [task EXCEPT ![t] = "queued"]
            /\ tries' = [tries EXCEPT ![t] = @ + 1]
       ELSE /\ task' = [task EXCEPT ![t] = "dropped"]
            /\ UNCHANGED tries
  /\ UNCHANGED <<settings, running, rows, read, delivered, missed>>

\* The worker dies: the row it has not pushed never is.
Crash(t) ==
  /\ task[t] = "running"
  /\ task' = [task EXCEPT ![t] = "dropped"]
  /\ missed' = missed \union ({pushing[t]} \ {NoRow})
  /\ UNCHANGED <<settings, tries, running, rows, read, delivered>>

\* Team members come and go, or change roles.
Appoint(n, u) ==
  /\ <<n, u>> \in Appointments
  /\ admins' = [admins EXCEPT ![n] = IF u \in @ THEN @ \ {u} ELSE @ \union {u}]
  /\ UNCHANGED <<load, task, tries, running, rows, read, delivered, missed>>

-----------------------------------------------------------------------------
(* NotificationViewSet and NotificationConsumer.                           *)

MarkRead(r) ==
  /\ r \in rows \ read
  /\ read' = read \union {r}
  /\ UNCHANGED <<settings, task, tries, running, rows, delivered, missed>>

\* The view's mark_all_read keeps to the tenant of the request.
MarkAllRead(n, u) ==
  /\ read' = read \union {r \in Unread(u) : r.tenant = n}
  /\ UNCHANGED <<settings, task, tries, running, rows, delivered, missed>>

Move(s, from, to) == socket[s] = from /\ socket' = [socket EXCEPT ![s] = to]

\* connect: group_add and accept, then the count, then its message.
Connect(s) ==
  /\ Move(s, "new", "joined")
  /\ UNCHANGED <<settings, task, tries, running, rows, read, inbox, known, missed>>

CountUnread(s, from, to) ==
  /\ Move(s, from, to)
  /\ known' = [known EXCEPT ![s] = @ \union Unread(UserOf[s])]
  /\ UNCHANGED <<settings, task, tries, running, rows, read, inbox, missed>>

Greet(s) ==
  /\ Move(s, "counted", "open")
  /\ UNCHANGED <<settings, task, tries, running, rows, read, inbox, known, missed>>

\* notification_send: a consumer handles one message at a time.
Deliver(s) ==
  /\ socket[s] = "open"
  /\ inbox[s] # {}
  /\ \E r \in inbox[s] : /\ inbox' = [inbox EXCEPT ![s] = @ \ {r}]
                         /\ known' = [known EXCEPT ![s] = @ \union {r}]
  /\ UNCHANGED <<settings, task, tries, running, rows, read, socket, missed>>

\* receive "mark_all_read", of every tenant; the count it sends comes after.
ReceiveReadAll(s) ==
  /\ Move(s, "open", "read")
  /\ read' = read \union Unread(UserOf[s])
  /\ UNCHANGED <<settings, task, tries, running, rows, inbox, known, missed>>

Disconnect(s) ==
  /\ socket[s] \notin {"new", "closed"}
  /\ socket' = [socket EXCEPT ![s] = "closed"]
  /\ UNCHANGED <<settings, task, tries, running, rows, read, inbox, known, missed>>

-----------------------------------------------------------------------------
Run(t) ==
  \/ Start(t) \/ ReadMembers(t) \/ Push(t) \/ NextTenant(t) \/ Finish(t) \/ Raise(t)
  \/ \E u \in Recipients : CreateRow(t, u)

Consume(s) ==
  \/ Connect(s) \/ CountUnread(s, "joined", "counted") \/ Greet(s) \/ Deliver(s)
  \/ ReceiveReadAll(s) \/ CountUnread(s, "read", "open") \/ Disconnect(s)

NotifyNext ==
  \/ \E t \in Tasks : Queue(t) \/ Run(t) \/ Crash(t)
  \/ \E n \in Tenants, u \in Recipients : Appoint(n, u) \/ MarkAllRead(n, u)
  \/ \E r \in rows : MarkRead(r)
  \/ \E s \in Sockets : Consume(s)

\* Workers take what is queued and go on with what they have started.
NotifySpec == NotifyInit /\ [][NotifyNext]_notifyVars /\ \A t \in Tasks : WF_notifyVars(Run(t))

-----------------------------------------------------------------------------
(* Properties.                                                             *)

NotifyTypeOK ==
  /\ admins \in [Tenants -> SUBSET Recipients]
  /\ task \in [Tasks -> {"none", "queued", "running", "done", "dropped"}]
  /\ tries \in [Tasks -> 0..MaxRetries]
  /\ \A t \in Tasks : tries[t] > 0 => t \in Retried
  /\ phase \in [Tasks -> {"tenant", "member", "push"}]
  /\ left \in [Tasks -> Seq(Tenants)]
  /\ \A t \in Tasks : phase[t] # "tenant" => left[t] # <<>>
  /\ todo \in [Tasks -> SUBSET Recipients]
  /\ pushing \in [Tasks -> rows \union {NoRow}]
  /\ rows \subseteq Row /\ read \subseteq rows
  /\ socket \in [Sockets -> {"new", "joined", "counted", "open", "read", "closed"}]
  /\ inbox \in [Sockets -> SUBSET rows] /\ known \in [Sockets -> SUBSET rows]
  /\ missed \subseteq rows
  /\ reached \in [Tasks -> SUBSET (Tenants \X Recipients)]

\* A task that ends well has notified every owner and manager it read in its
\* last run, in every tenant, whatever its earlier tries had reached.
DoneReachedAll ==
  \A t \in Tasks : task[t] = "done" =>
    \A n \in Tenants, u \in Recipients : <<n, u>> \in reached[t] => RowOf(t, n, u) \in rows

\* A client that connects while notifications come misses none: each one unread
\* is in the count it started from, was sent to it, or is on its way; unless
\* its push failed.  consumers.py:25 joins the group before it counts.
NoneMissed ==
  \A s \in Sockets : socket[s] \in {"counted", "open", "read"} =>
    \A r \in Unread(UserOf[s]) :
      \/ r \in known[s] \union inbox[s] \union missed
      \/ \E t \in Tasks : pushing[t] = r

\* A queued task comes to an end, done or dropped.
TasksSettle == \A t \in Tasks : (task[t] = "queued") ~> (task[t] \in {"done", "dropped"})

-----------------------------------------------------------------------------
(* The inductive invariant behind them.                                    *)

\* Whom the run of a task has read, it has notified or is still to notify.
ReachesHold ==
  \A t \in Tasks : task[t] = "running" =>
    \A n \in Tenants, u \in Recipients : <<n, u>> \in reached[t] =>
      \/ RowOf(t, n, u) \in rows
      \/ phase[t] # "tenant" /\ n = Head(left[t]) /\ u \in todo[t]

\* A task holds a row between its INSERT and its push, and one that died there
\* holds it for ever.
PushesHold ==
  \A t \in Tasks :
    /\ task[t] = "running" /\ phase[t] = "push" => pushing[t] \in rows
    /\ (task[t] = "running" => phase[t] # "push") /\ task[t] # "dropped"
         => pushing[t] = NoRow

NInv ==
  /\ NotifyTypeOK
  /\ ReachesHold
  /\ PushesHold
  /\ DoneReachedAll
  /\ NoneMissed
=============================================================================

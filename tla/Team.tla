-------------------------------- MODULE Team --------------------------------
(***************************************************************************)
(* The members of one tenant: invitations, their emails and acceptance,    *)
(* roles and removals.                                                     *)
(*                                                                         *)
(* invite_user and accept_invitation are transactions at READ COMMITTED.   *)
(* What an invitation writes is seen when it commits, but the email task   *)
(* is queued before that and may run first.  Foreign keys are deferred:    *)
(* that its role still exists is checked at COMMIT, with the task queued.  *)
(***************************************************************************)
EXTENDS Naturals, FiniteSets

CONSTANTS
  Users,          \* email addresses, each with at most one account
  Owner,          \* tenant.owner
  Roles,          \* the tenant's roles
  SystemRoles,    \* those with is_system_role, the owner's among them
  OwnerRole,
  Invites,        \* calls of invite_user, each with the invitation it makes
  EmailOf,        \* [Invites -> Users]
  RoleOf,         \* [Invites -> Roles]
  Acceptors,      \* calls of accept_invitation in flight at one time
  MailRetries,    \* of send_invitation_email
  NoInvite        \* no invitation

ASSUME TeamAssumption ==
  /\ Owner \in Users /\ OwnerRole \in SystemRoles /\ SystemRoles \subseteq Roles
  /\ EmailOf \in [Invites -> Users] /\ RoleOf \in [Invites -> Roles]
  /\ MailRetries \in Nat /\ NoInvite \notin Invites

VARIABLES
  roles,          \* the roles there are
  members,        \* TenantMembership rows, [user -> [role, is_active]]
  committed,      \* the invitations committed
  inactive,       \* those of them with is_active False
  accepted,       \* those of them with accepted_at
  expired,        \* those of them past expires_at
  step,           \* [Invites -> where its invite_user is]
  cancels,        \* [Invites -> the rows its UPDATE has found]
  token,          \* [Acceptors -> the invitation read, or NoInvite]
  mail,           \* [Invites -> "none", "queued", "sent", "dropped"]
  mailTries,      \* [Invites -> retries of its email task]
  earlier,        \* history: the invitations committed when it began
  removed         \* history: users removed

invitations == <<committed, inactive, accepted, expired>>
inviting    == <<step, cancels, earlier>>
email       == <<mail, mailTries>>
teamVars == <<roles, members, invitations, inviting, token, email, removed>>

-----------------------------------------------------------------------------
TeamInit ==
  /\ roles = Roles
  /\ members = [u \in {Owner} |-> [role |-> OwnerRole, is_active |-> TRUE]]
  /\ committed = {} /\ inactive = {} /\ accepted = {} /\ expired = {}
  /\ step = [i \in Invites |-> "new"]
  /\ cancels = [i \in Invites |-> {}]
  /\ token = [x \in Acceptors |-> NoInvite]
  /\ mail = [i \in Invites |-> "none"]
  /\ mailTries = [i \in Invites |-> 0]
  /\ earlier = [i \in Invites |-> {}]
  /\ removed = {}

IsMember(u) == u \in DOMAIN members /\ members[u].is_active

At(i, from, to) == step[i] = from /\ step' = [step EXCEPT ![i] = to]

-----------------------------------------------------------------------------
(* AccountService.invite_user.                                             *)

\* The role is the tenant's and the address is no member's.
Invite(i) ==
  /\ At(i, "new", "checked")
  /\ RoleOf[i] \in roles
  /\ ~IsMember(EmailOf[i])
  /\ earlier' = [earlier EXCEPT ![i] = committed]
  /\ UNCHANGED <<roles, members, invitations, cancels, token, email, removed>>

\* Mutant: only invitations to the same role are cancelled.
PendingSameRole(i) ==
  {j \in committed \ accepted : EmailOf[j] = EmailOf[i] /\ RoleOf[j] = RoleOf[i]}

\* The rows the UPDATE matches as it starts.
Pending(i) == {j \in committed \ accepted : EmailOf[j] = EmailOf[i]}

FindPending(i) ==
  /\ At(i, "checked", "found")
  /\ cancels' = [cancels EXCEPT ![i] = Pending(i)]
  /\ UNCHANGED <<roles, members, invitations, earlier, token, email, removed>>

\* The invitations some other call has updated and not committed.
Locked(i) ==
  UNION {cancels[j] : j \in {k \in Invites \ {i} : step[k] \in {"locked", "queued"}}}

\* It waits for the locks of other calls, then matches the rows again.
Cancel(i) ==
  /\ At(i, "found", "locked")
  /\ cancels[i] \intersect Locked(i) = {}
  /\ cancels' = [cancels EXCEPT ![i] = @ \ accepted]
  /\ UNCHANGED <<roles, members, invitations, earlier, token, email, removed>>

\* The row is inserted and send_invitation_email.delay called, all uncommitted:
\* nothing holds the role yet.
QueueMail(i) ==
  /\ At(i, "locked", "queued")
  /\ mail' = [mail EXCEPT ![i] = "queued"]
  /\ UNCHANGED <<roles, members, invitations, cancels, earlier, token, mailTries, removed>>

\* COMMIT checks the deferred foreign key to the role.
Commit(i) ==
  /\ At(i, "queued", "done")
  /\ RoleOf[i] \in roles
  /\ committed' = committed \union {i}
  /\ inactive' = inactive \union cancels[i]
  /\ UNCHANGED <<roles, members, accepted, expired, cancels, earlier, token, email, removed>>

\* The role has gone, or the database fails: the task stays queued.
Rollback(i) ==
  /\ step[i] \in {"locked", "queued"}
  /\ step' = [step EXCEPT ![i] = "failed"]
  /\ UNCHANGED <<roles, members, invitations, cancels, earlier, token, email, removed>>

-----------------------------------------------------------------------------
(* send_invitation_email, of a worker that acknowledges a task as it starts. *)

\* UserInvitation.objects.get finds it and the mail server takes the message.
SendMail(i) ==
  /\ mail[i] = "queued"
  /\ i \in committed
  /\ mail' = [mail EXCEPT ![i] = "sent"]
  /\ UNCHANGED <<roles, members, invitations, inviting, token, mailTries, removed>>

\* Mutant: a retry is a new task, with no retries behind it.
RetryAnew(i) ==
  /\ mail[i] = "queued"
  /\ UNCHANGED teamVars

\* It does not, or the server refuses: retry, and give up after max_retries.
RetryMail(i) ==
  /\ mail[i] = "queued"
  /\ IF mailTries[i] < MailRetries
       THEN /\ mailTries' = [mailTries EXCEPT ![i] = @ + 1]
            /\ UNCHANGED mail
       ELSE /\ mail' = [mail EXCEPT ![i] = "dropped"]
            /\ UNCHANGED mailTries
  /\ UNCHANGED <<roles, members, invitations, inviting, token, removed>>

\* The worker dies with the task.
LoseMail(i) ==
  /\ mail[i] = "queued"
  /\ mail' = [mail EXCEPT ![i] = "dropped"]
  /\ UNCHANGED <<roles, members, invitations, inviting, token, mailTries, removed>>

-----------------------------------------------------------------------------
(* AccountService.accept_invitation.                                       *)

Usable(i) == i \in committed \ (accepted \union inactive)

ReadToken(x, i) ==
  /\ token[x] = NoInvite
  /\ Usable(i) /\ i \notin expired
  /\ token' = [token EXCEPT ![x] = i]
  /\ UNCHANGED <<roles, members, invitations, inviting, email, removed>>

\* get_or_create finds a membership whatever its is_active and role.
Enrol(i) ==
  LET u == EmailOf[i]
  IN  IF u \in DOMAIN members THEN members
      ELSE [v \in DOMAIN members \union {u} |->
              IF v = u THEN [role |-> RoleOf[i], is_active |-> TRUE] ELSE members[v]]

\* Account, membership and accepted_at, committed together; the invitation is
\* not read again, but its row must be free.
Accept(x) ==
  /\ token[x] # NoInvite
  /\ token[x] \notin Locked(NoInvite)
  /\ members' = Enrol(token[x])
  /\ accepted' = accepted \union {token[x]}
  /\ token' = [token EXCEPT ![x] = NoInvite]
  /\ UNCHANGED <<roles, committed, inactive, expired, inviting, email, removed>>

Expire(i) ==
  /\ i \in committed \ expired
  /\ expired' = expired \union {i}
  /\ UNCHANGED <<roles, members, committed, inactive, accepted, inviting, token, email, removed>>

-----------------------------------------------------------------------------
(* TeamViewSet and RoleViewSet.                                            *)

\* Mutant: the owner is compared with the caller.
RemoveAnyone(u) ==
  /\ u \in DOMAIN members
  /\ members' = [members EXCEPT ![u].is_active = FALSE]
  /\ removed' = removed \union {u}
  /\ UNCHANGED <<roles, invitations, inviting, token, email>>

Remove(u) ==
  /\ u \in DOMAIN members
  /\ u # Owner
  /\ members' = [members EXCEPT ![u].is_active = FALSE]
  /\ removed' = removed \union {u}
  /\ UNCHANGED <<roles, invitations, inviting, token, email>>

UpdateRole(u, r) ==
  /\ u \in DOMAIN members
  /\ u # Owner
  /\ r \in roles
  /\ members' = [members EXCEPT ![u].role = r]
  /\ UNCHANGED <<roles, invitations, inviting, token, email, removed>>

\* Foreign keys keep the role of a membership, active or not, and of an invitation
\* once it is committed.
InUse(r) ==
  \/ \E u \in DOMAIN members : members[u].role = r
  \/ \E i \in committed : RoleOf[i] = r

DestroyRole(r) ==
  /\ r \in roles \ SystemRoles
  /\ ~InUse(r)
  /\ roles' = roles \ {r}
  /\ UNCHANGED <<members, invitations, inviting, token, email, removed>>

-----------------------------------------------------------------------------
InviteStep(i) ==
  Invite(i) \/ FindPending(i) \/ Cancel(i) \/ QueueMail(i) \/ Commit(i) \/ Rollback(i)

MailTask(i) == SendMail(i) \/ RetryMail(i)

TeamNext ==
  \/ \E i \in Invites : InviteStep(i) \/ MailTask(i) \/ LoseMail(i) \/ Expire(i)
  \/ \E x \in Acceptors : Accept(x) \/ \E i \in Invites : ReadToken(x, i)
  \/ \E u \in Users : Remove(u) \/ \E r \in Roles : UpdateRole(u, r)
  \/ \E r \in Roles : DestroyRole(r)

\* Workers run the tasks that are queued; nobody has to call anything.
TeamSpec == TeamInit /\ [][TeamNext]_teamVars /\ \A i \in Invites : WF_teamVars(MailTask(i))

-----------------------------------------------------------------------------
(* Properties.                                                             *)

\* Rows and calls are well formed; members and invitations have roles that exist.
TeamTypeOK ==
  /\ roles \subseteq Roles
  /\ Owner \in DOMAIN members /\ DOMAIN members \subseteq Users
  /\ members \in [DOMAIN members -> [role : roles, is_active : BOOLEAN]]
  /\ committed \subseteq Invites /\ \A i \in committed : RoleOf[i] \in roles
  /\ inactive \subseteq committed /\ accepted \subseteq committed
  /\ expired \subseteq committed
  /\ step \in [Invites -> {"new", "checked", "found", "locked", "queued", "done", "failed"}]
  /\ cancels \in [Invites -> SUBSET committed]
  /\ token \in [Acceptors -> committed \union {NoInvite}]
  /\ mail \in [Invites -> {"none", "queued", "sent", "dropped"}]
  /\ mailTries \in [Invites -> 0..MailRetries]
  /\ earlier \in [Invites -> SUBSET committed]
  /\ removed \subseteq Users

\* "Cancel any existing pending invitations" (accounts/services.py:23): two
\* invitations of one address can only both be used if they overlapped.
LaterCancelsEarlier ==
  \A i, j \in committed : EmailOf[i] = EmailOf[j] /\ i \in earlier[j] => ~Usable(i)

\* Whoever accepted is a member until removed, and every member but the owner
\* has accepted an invitation; one who was removed stays out, accept or not
\* (get_or_create finds the inactive row, accounts/services.py:70).
AcceptedAreMembers ==
  /\ \A i \in accepted : EmailOf[i] \in DOMAIN members
  /\ \A u \in DOMAIN members :
       /\ IsMember(u) <=> u \notin removed
       /\ u = Owner \/ \E i \in accepted : EmailOf[i] = u
  /\ IsMember(Owner) /\ members[Owner].role = OwnerRole

\* A queued email is sent or given up, however the commit and the task fall.
MailSettles == \A i \in Invites : (mail[i] = "queued") ~> (mail[i] \in {"sent", "dropped"})
-----------------------------------------------------------------------------
(* The inductive invariant behind them.                                    *)

\* A row is committed by its own call.
CommitsHold == \A i \in Invites : i \in committed <=> step[i] = "done"

\* What a call will cancel when it commits: every invitation of its address that
\* was there when it began and has not been accepted since.
CancelsHold ==
  \A i \in Invites : step[i] \in {"found", "locked", "queued"} =>
     \A j \in earlier[i] : EmailOf[j] = EmailOf[i] => j \in cancels[i] \union accepted

\* Only members are removed, and never the owner.
RemovalsHold == removed \subseteq DOMAIN members \ {Owner}

MInv ==
  /\ TeamTypeOK
  /\ CommitsHold
  /\ CancelsHold
  /\ RemovalsHold
  /\ LaterCancelsEarlier
  /\ AcceptedAreMembers
=============================================================================

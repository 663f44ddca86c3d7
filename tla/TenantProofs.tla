---------------------------- MODULE TenantProofs ----------------------------
(*****************************************************************************)
(* Theorems about what a tenant is administered with: Team, Warehouses and   *)
(* Notifications, each for every value of its constants and however its      *)
(* requests and tasks overlap.  The three share no state and no name.        *)
(*****************************************************************************)
EXTENDS Team, Warehouses, Notifications, FiniteSetTheorems, SequenceTheorems, TLAPS

-----------------------------------------------------------------------------
(* Team: the initial states.                                               *)

LEMMA InitMInv == TeamInit => MInv
<1> SUFFICES ASSUME TeamInit PROVE MInv
  OBVIOUS
<1> USE TeamAssumption DEF TeamInit
<1>1. TeamTypeOK
  BY DEF TeamTypeOK
<1>2. CommitsHold /\ CancelsHold /\ RemovalsHold /\ LaterCancelsEarlier
  BY DEF CommitsHold, CancelsHold, RemovalsHold, LaterCancelsEarlier
<1>3. AcceptedAreMembers
  BY DEF AcceptedAreMembers, IsMember
<1>4. QED BY <1>1, <1>2, <1>3 DEF MInv

-----------------------------------------------------------------------------
(* Team: types.                                                            *)

LEMMA NextTypeOK ==
  ASSUME TeamTypeOK, CommitsHold, [TeamNext]_teamVars
  PROVE  TeamTypeOK'
<1> USE TeamAssumption DEF TeamTypeOK, invitations, inviting, email
<1>1. ASSUME NEW i \in Invites, Invite(i) PROVE TeamTypeOK'
  BY <1>1 DEF Invite, At
<1>2. ASSUME NEW i \in Invites, FindPending(i) PROVE TeamTypeOK'
  BY <1>2 DEF FindPending, At, Pending
<1>3. ASSUME NEW i \in Invites, Cancel(i) PROVE TeamTypeOK'
  BY <1>3 DEF Cancel, At
<1>4. ASSUME NEW i \in Invites, QueueMail(i) PROVE TeamTypeOK'
  BY <1>4 DEF QueueMail, At
<1>5. ASSUME NEW i \in Invites, Commit(i) PROVE TeamTypeOK'
  BY <1>5 DEF Commit, At, CommitsHold
<1>6. ASSUME NEW i \in Invites, Rollback(i) PROVE TeamTypeOK'
  BY <1>6 DEF Rollback
<1>7. ASSUME NEW i \in Invites, MailTask(i) \/ LoseMail(i) PROVE TeamTypeOK'
  BY <1>7 DEF MailTask, SendMail, RetryMail, LoseMail
<1>8. ASSUME NEW i \in Invites, Expire(i) PROVE TeamTypeOK'
  BY <1>8 DEF Expire
<1>9. ASSUME NEW x \in Acceptors, NEW i \in Invites, ReadToken(x, i) PROVE TeamTypeOK'
  BY <1>9 DEF ReadToken, Usable
<1>10. ASSUME NEW x \in Acceptors, Accept(x) PROVE TeamTypeOK'
  BY <1>10 DEF Accept, Enrol
<1>11. ASSUME NEW u \in Users, Remove(u) PROVE TeamTypeOK'
  BY <1>11 DEF Remove
<1>12. ASSUME NEW u \in Users, NEW r \in Roles, UpdateRole(u, r) PROVE TeamTypeOK'
  BY <1>12 DEF UpdateRole
<1>13. ASSUME NEW r \in Roles, DestroyRole(r) PROVE TeamTypeOK'
  BY <1>13 DEF DestroyRole, InUse
<1>14. CASE UNCHANGED teamVars
  BY <1>14 DEF teamVars
<1>15. QED
  BY <1>1, <1>2, <1>3, <1>4, <1>5, <1>6, <1>7, <1>8, <1>9, <1>10, <1>11, <1>12, <1>13, <1>14
  DEF TeamNext, InviteStep
-----------------------------------------------------------------------------
(* Team: invitations.                                                      *)

\* What becomes of the rows of an invitation, and of the calls that make them.
LEMMA NextCommits ==
  ASSUME TeamTypeOK, CommitsHold, [TeamNext]_teamVars
  PROVE  CommitsHold'
<1> USE TeamAssumption DEF TeamTypeOK, CommitsHold, invitations, inviting, email
<1>1. ASSUME NEW i \in Invites, InviteStep(i) PROVE CommitsHold'
  BY <1>1 DEF InviteStep, Invite, FindPending, Cancel, QueueMail, Commit, Rollback, At
<1>2. ASSUME NEW i \in Invites, MailTask(i) \/ LoseMail(i) \/ Expire(i) PROVE CommitsHold'
  BY <1>2 DEF MailTask, SendMail, RetryMail, LoseMail, Expire
<1>3. ASSUME NEW x \in Acceptors, Accept(x) \/ \E i \in Invites : ReadToken(x, i)
      PROVE  CommitsHold'
  BY <1>3 DEF Accept, ReadToken
<1>4. ASSUME NEW u \in Users, Remove(u) \/ \E r \in Roles : UpdateRole(u, r)
      PROVE  CommitsHold'
  BY <1>4 DEF Remove, UpdateRole
<1>5. ASSUME NEW r \in Roles, DestroyRole(r) PROVE CommitsHold'
  BY <1>5 DEF DestroyRole
<1>6. CASE UNCHANGED teamVars
  BY <1>6 DEF teamVars
<1>7. QED BY <1>1, <1>2, <1>3, <1>4, <1>5, <1>6 DEF TeamNext

\* Only invite_user's own steps touch what it cancels; the others can at most
\* accept an invitation.
LEMMA OutsideInvite ==
  ASSUME [TeamNext]_teamVars, ~ \E i \in Invites : InviteStep(i)
  PROVE  /\ UNCHANGED <<step, cancels, earlier, committed, inactive>>
         /\ accepted \subseteq accepted'
<1> USE DEF invitations, inviting, email
<1>1. ASSUME NEW i \in Invites, MailTask(i) \/ LoseMail(i) \/ Expire(i)
      PROVE  UNCHANGED <<step, cancels, earlier, committed, inactive, accepted>>
  BY <1>1 DEF MailTask, SendMail, RetryMail, LoseMail, Expire
<1>2. ASSUME NEW x \in Acceptors, NEW i \in Invites, ReadToken(x, i)
      PROVE  UNCHANGED <<step, cancels, earlier, committed, inactive, accepted>>
  BY <1>2 DEF ReadToken
<1>3. ASSUME NEW x \in Acceptors, Accept(x)
      PROVE  /\ UNCHANGED <<step, cancels, earlier, committed, inactive>>
             /\ accepted \subseteq accepted'
  BY <1>3 DEF Accept
<1>4. ASSUME NEW u \in Users, Remove(u) \/ \E r \in Roles : UpdateRole(u, r)
      PROVE  UNCHANGED <<step, cancels, earlier, committed, inactive, accepted>>
  BY <1>4 DEF Remove, UpdateRole
<1>5. ASSUME NEW r \in Roles, DestroyRole(r)
      PROVE  UNCHANGED <<step, cancels, earlier, committed, inactive, accepted>>
  BY <1>5 DEF DestroyRole
<1>6. CASE UNCHANGED teamVars
  BY <1>6 DEF teamVars
<1>7. QED BY <1>1, <1>2, <1>3, <1>4, <1>5, <1>6 DEF TeamNext

\* A call cancels all it should: those committed when it began are among the rows
\* the UPDATE finds unless they were accepted, and what it drops after the wait
\* for a lock has been accepted meanwhile.
LEMMA NextCancels ==
  ASSUME TeamTypeOK, CancelsHold, [TeamNext]_teamVars
  PROVE  CancelsHold'
<1> USE TeamAssumption DEF TeamTypeOK, CancelsHold, invitations, inviting, email
<1>1. ASSUME NEW i \in Invites, Invite(i) PROVE CancelsHold'
  BY <1>1 DEF Invite, At
<1>2. ASSUME NEW i \in Invites, FindPending(i) PROVE CancelsHold'
  BY <1>2 DEF FindPending, At, Pending
<1>3. ASSUME NEW i \in Invites, Cancel(i) PROVE CancelsHold'
  BY <1>3 DEF Cancel, At
<1>4. ASSUME NEW i \in Invites, QueueMail(i) \/ Commit(i) \/ Rollback(i) PROVE CancelsHold'
  BY <1>4 DEF QueueMail, Commit, Rollback, At
<1>5. CASE ~ \E i \in Invites : InviteStep(i)
  BY <1>5, OutsideInvite
<1>6. QED BY <1>1, <1>2, <1>3, <1>4, <1>5 DEF InviteStep

LEMMA NextLaterCancels ==
  ASSUME TeamTypeOK, CommitsHold, CancelsHold, LaterCancelsEarlier, [TeamNext]_teamVars
  PROVE  LaterCancelsEarlier'
<1> USE TeamAssumption DEF TeamTypeOK, LaterCancelsEarlier, Usable, invitations, inviting, email
<1>1. ASSUME NEW k \in Invites, Invite(k) PROVE LaterCancelsEarlier'
  BY <1>1 DEF Invite, At, CommitsHold
<1>2. ASSUME NEW k \in Invites, FindPending(k) \/ Cancel(k) \/ QueueMail(k) \/ Rollback(k)
      PROVE  LaterCancelsEarlier'
  BY <1>2 DEF FindPending, Cancel, QueueMail, Rollback, At
<1>3. ASSUME NEW k \in Invites, Commit(k) PROVE LaterCancelsEarlier'
  <2> SUFFICES ASSUME NEW i \in committed', NEW j \in committed',
                      EmailOf[i] = EmailOf[j], i \in earlier[j]
               PROVE  i \in accepted \union inactive'
    BY <1>3 DEF Commit, At
  <2>1. i \in committed
    BY <1>3 DEF Commit, At
  <2>2. CASE j \in committed
    BY <1>3, <2>1, <2>2 DEF Commit, At
  <2>3. CASE j = k
    BY <1>3, <2>1, <2>3 DEF Commit, At, CancelsHold
  <2>4. QED BY <1>3, <2>2, <2>3 DEF Commit
<1>4. CASE ~ \E i \in Invites : InviteStep(i)
  BY <1>4, OutsideInvite
<1>5. QED BY <1>1, <1>2, <1>3, <1>4 DEF InviteStep

-----------------------------------------------------------------------------
(* Team: members.                                                          *)

LEMMA NextRemovals ==
  ASSUME TeamTypeOK, RemovalsHold, [TeamNext]_teamVars
  PROVE  RemovalsHold'
<1> USE TeamAssumption DEF TeamTypeOK, RemovalsHold, invitations, inviting, email
<1>1. ASSUME NEW i \in Invites, InviteStep(i) PROVE RemovalsHold'
  BY <1>1 DEF InviteStep, Invite, FindPending, Cancel, QueueMail, Commit, Rollback, At
<1>2. ASSUME NEW i \in Invites, MailTask(i) \/ LoseMail(i) \/ Expire(i)
      PROVE  RemovalsHold'
  BY <1>2 DEF MailTask, SendMail, RetryMail, LoseMail, Expire
<1>3. ASSUME NEW x \in Acceptors, Accept(x) \/ \E i \in Invites : ReadToken(x, i)
      PROVE  RemovalsHold'
  BY <1>3 DEF Accept, ReadToken, Enrol
<1>4. ASSUME NEW u \in Users, Remove(u) \/ \E r \in Roles : UpdateRole(u, r)
      PROVE  RemovalsHold'
  BY <1>4 DEF Remove, UpdateRole
<1>5. ASSUME NEW r \in Roles, DestroyRole(r) PROVE RemovalsHold'
  BY <1>5 DEF DestroyRole
<1>6. CASE UNCHANGED teamVars
  BY <1>6 DEF teamVars
<1>7. QED BY <1>1, <1>2, <1>3, <1>4, <1>5, <1>6 DEF TeamNext

\* A step that leaves the memberships and what was accepted alone, or adds to it
\* only addresses that are members.
LEMMA MembersUntouched ==
  ASSUME AcceptedAreMembers, UNCHANGED <<members, removed, accepted>>
  PROVE  AcceptedAreMembers'
BY DEF AcceptedAreMembers, IsMember

LEMMA AcceptMembers ==
  ASSUME TeamTypeOK, RemovalsHold, AcceptedAreMembers, NEW x \in Acceptors, Accept(x)
  PROVE  AcceptedAreMembers'
<1>1. PICK i \in Invites :
        /\ EmailOf[i] \in Users
        /\ accepted' = accepted \union {i} /\ removed' = removed /\ members' = Enrol(i)
  BY TeamAssumption DEF Accept, TeamTypeOK
<1>2. CASE EmailOf[i] \in DOMAIN members
  <2>1. members' = members
    BY <1>1, <1>2 DEF Enrol
  <2>2. QED BY <1>1, <1>2, <2>1 DEF AcceptedAreMembers, IsMember
<1>3. CASE EmailOf[i] \notin DOMAIN members
  <2>1. /\ DOMAIN members' = DOMAIN members \union {EmailOf[i]}
        /\ members'[EmailOf[i]] = [role |-> RoleOf[i], is_active |-> TRUE]
        /\ \A u \in DOMAIN members : members'[u] = members[u]
    BY <1>1, <1>3 DEF Enrol
  <2>2. EmailOf[i] \notin removed /\ EmailOf[i] # Owner
    BY <1>3 DEF RemovalsHold, TeamTypeOK
  <2>3. \A u \in DOMAIN members : IsMember(u)' <=> IsMember(u)
    BY <2>1 DEF IsMember
  <2>4. members'[EmailOf[i]].is_active = TRUE
    BY <2>1
  <2>5. IsMember(EmailOf[i])'
    BY <2>1, <2>4 DEF IsMember
  <2>6. IsMember(Owner)' /\ members'[Owner] = members[Owner] /\ Owner \in DOMAIN members
    BY <2>1, <2>3 DEF AcceptedAreMembers, TeamTypeOK
  <2>7. ASSUME NEW u \in DOMAIN members'
        PROVE  /\ IsMember(u)' <=> u \notin removed'
               /\ u = Owner \/ \E j \in accepted' : EmailOf[j] = u
    BY <1>1, <2>1, <2>2, <2>3, <2>5 DEF AcceptedAreMembers
  <2>8. \A j \in accepted' : EmailOf[j] \in DOMAIN members'
    BY <1>1, <2>1 DEF AcceptedAreMembers
  <2>9. QED BY <2>6, <2>7, <2>8 DEF AcceptedAreMembers
<1>4. QED BY <1>2, <1>3

LEMMA RemoveMembers ==
  ASSUME TeamTypeOK, RemovalsHold, AcceptedAreMembers, NEW u \in Users, Remove(u)
  PROVE  AcceptedAreMembers'
<1>1. /\ u \in DOMAIN members /\ u # Owner
      /\ removed' = removed \union {u} /\ accepted' = accepted
      /\ members' = [members EXCEPT ![u].is_active = FALSE]
  BY DEF Remove, invitations
<1>2. /\ DOMAIN members' = DOMAIN members
      /\ \A v \in DOMAIN members \ {u} : members'[v] = members[v]
      /\ members'[u] = [members[u] EXCEPT !.is_active = FALSE]
  BY <1>1 DEF TeamTypeOK
<1>3. ~ IsMember(u)'
  BY <1>1, <1>2 DEF IsMember, TeamTypeOK
<1>4. \A v \in DOMAIN members \ {u} : IsMember(v)' <=> IsMember(v)
  BY <1>2 DEF IsMember
<1>5. QED BY <1>1, <1>2, <1>3, <1>4 DEF AcceptedAreMembers, TeamTypeOK

LEMMA RoleMembers ==
  ASSUME TeamTypeOK, AcceptedAreMembers, NEW u \in Users, NEW r \in Roles, UpdateRole(u, r)
  PROVE  AcceptedAreMembers'
<1>1. /\ u \in DOMAIN members /\ u # Owner /\ removed' = removed /\ accepted' = accepted
      /\ members' = [members EXCEPT ![u].role = r]
  BY DEF UpdateRole, invitations
<1>2. /\ DOMAIN members' = DOMAIN members
      /\ \A v \in DOMAIN members \ {u} : members'[v] = members[v]
      /\ members'[u] = [members[u] EXCEPT !.role = r]
  BY <1>1 DEF TeamTypeOK
<1>3. \A v \in DOMAIN members : IsMember(v)' <=> IsMember(v)
  BY <1>1, <1>2 DEF IsMember, TeamTypeOK
<1>4. QED BY <1>1, <1>2, <1>3 DEF AcceptedAreMembers, TeamTypeOK

LEMMA NextMembers ==
  ASSUME TeamTypeOK, RemovalsHold, AcceptedAreMembers, [TeamNext]_teamVars
  PROVE  AcceptedAreMembers'
<1> USE DEF invitations, inviting, email
<1>1. ASSUME NEW i \in Invites, InviteStep(i) PROVE UNCHANGED <<members, removed, accepted>>
  BY <1>1 DEF InviteStep, Invite, FindPending, Cancel, QueueMail, Commit, Rollback
<1>2. ASSUME NEW i \in Invites, MailTask(i) \/ LoseMail(i) \/ Expire(i)
      PROVE  UNCHANGED <<members, removed, accepted>>
  BY <1>2 DEF MailTask, SendMail, RetryMail, LoseMail, Expire
<1>3. ASSUME NEW x \in Acceptors, NEW i \in Invites, ReadToken(x, i)
      PROVE  UNCHANGED <<members, removed, accepted>>
  BY <1>3 DEF ReadToken
<1>4. ASSUME NEW r \in Roles, DestroyRole(r) PROVE UNCHANGED <<members, removed, accepted>>
  BY <1>4 DEF DestroyRole
<1>5. CASE UNCHANGED teamVars
  BY <1>5, MembersUntouched DEF teamVars
<1>6. QED
  BY <1>1, <1>2, <1>3, <1>4, <1>5, MembersUntouched, AcceptMembers, RemoveMembers, RoleMembers
  DEF TeamNext

-----------------------------------------------------------------------------
(* Team: theorems.                                                         *)

\* The invariant of invitations and memberships is inductive, whatever invitations,
\* acceptances, removals and deletions of roles overlap: a role may go while an
\* invitation to it is not committed, and that invitation then never is.
THEOREM TeamInvariant == TeamSpec => []MInv
<1>1. TeamInit => MInv
  BY InitMInv
<1>2. MInv /\ [TeamNext]_teamVars => MInv'
  BY NextTypeOK, NextCommits, NextCancels, NextLaterCancels, NextRemovals, NextMembers
  DEF MInv
<1>3. QED BY <1>1, <1>2, PTL DEF TeamSpec

\* Every membership and every committed invitation has a role that exists: foreign
\* keys keep it, from the COMMIT on (accounts/models.py).
THEOREM TeamTyped == TeamSpec => []TeamTypeOK
<1>1. MInv => TeamTypeOK
  BY DEF MInv
<1>2. QED BY <1>1, TeamInvariant, PTL

\* invite_user: of two invitations of one address, the earlier is of no use once
\* a call that began after it was committed has committed its own.
THEOREM EarlierCancelled == TeamSpec => []LaterCancelsEarlier
<1>1. MInv => LaterCancelsEarlier
  BY DEF MInv
<1>2. QED BY <1>1, TeamInvariant, PTL

\* accept_invitation and TeamViewSet: members are the owner and those who have
\* accepted, less those removed, and the owner stays the owner.
THEOREM MembersHaveAccepted == TeamSpec => []AcceptedAreMembers
<1>1. MInv => AcceptedAreMembers
  BY DEF MInv
<1>2. QED BY <1>1, TeamInvariant, PTL

-----------------------------------------------------------------------------
(* Warehouses: counting.                                                   *)

\* Requests write at most one row each.
LEMMA TargetsFinite ==
  ASSUME NEW W, IsFiniteSet(W), NEW t \in [Workers -> Rows \union {NoWarehouse}], W \subseteq Workers
  PROVE  /\ IsFiniteSet({t[w] : w \in W})
         /\ Cardinality({t[w] : w \in W}) <= Cardinality(W)
<1> DEFINE T == {t[w] : w \in W}
           f == [w \in W |-> t[w]]
<1>1. f \in Surjection(W, T)
  BY DEF Surjection
<1>2. QED BY <1>1, FS_Surjection, Zenon

LEMMA UnionBound ==
  ASSUME NEW S, IsFiniteSet(S), NEW T, IsFiniteSet(T)
  PROVE  /\ IsFiniteSet(S \union T)
         /\ Cardinality(S \union T) <= Cardinality(S) + Cardinality(T)
<1>1. /\ IsFiniteSet(S \union T)
      /\ Cardinality(S \union T) = Cardinality(S) + Cardinality(T) - Cardinality(S \intersect T)
  BY FS_Union
<1>2. IsFiniteSet(S \intersect T)
  BY FS_Intersection
<1>3. Cardinality(S) \in Nat /\ Cardinality(T) \in Nat /\ Cardinality(S \intersect T) \in Nat
  BY <1>2, FS_CardinalityType
<1>4. QED BY <1>1, <1>3

\* What WInv says of sizes, in numbers.
LEMMA Sizes ==
  ASSUME WInv
  PROVE  /\ IsFiniteSet(Planned) /\ Cardinality(Planned) \in Nat
         /\ IsFiniteSet(defaults) /\ Cardinality(defaults) \in Nat
         /\ IsFiniteSet(Setting) /\ Cardinality(Setting) \in Nat
         /\ Cardinality(Workers) \in Nat
<1>1. IsFiniteSet(Busy) /\ Busy \subseteq Workers
  BY FS_Subset, WarehousesAssumption DEF Busy
<1>2. IsFiniteSet({target[w] : w \in Busy})
  BY <1>1, TargetsFinite DEF WInv, WarehousesTypeOK
<1>3. IsFiniteSet(Planned)
  BY <1>2, UnionBound DEF WInv, Planned
<1>4. IsFiniteSet(defaults)
  BY FS_Subset DEF WInv, WarehousesTypeOK
<1>5. IsFiniteSet(Setting)
  BY FS_Subset, WarehousesAssumption DEF Setting
<1>6. QED BY <1>3, <1>4, <1>5, FS_CardinalityType, WarehousesAssumption

-----------------------------------------------------------------------------
(* Warehouses: the inductive invariant.                                    *)

LEMMA InitWInv == WarehousesInit => WInv
<1> SUFFICES ASSUME WarehousesInit PROVE WInv
  OBVIOUS
<1>1. WarehousesTypeOK
  BY WarehousesAssumption DEF WarehousesInit, WarehousesTypeOK
<1>2. Planned = {Main} /\ Setting = {} /\ defaults = {Main} /\ warehouses = {Main}
  BY DEF WarehousesInit, Planned, Busy, Setting
<1>3. Cardinality(Workers) \in Nat /\ Cardinality(Workers) # 0
  BY FS_CardinalityType, FS_EmptySet, WarehousesAssumption
<1>4. /\ IsFiniteSet({Main}) /\ Cardinality({Main}) = 1 /\ Cardinality({}) = 0
  BY FS_Singleton, FS_EmptySet
<1>5. QED
  BY <1>1, <1>2, <1>3, <1>4, WarehousesAssumption DEF WInv

LEMMA WarehousesNextTypeOK ==
  ASSUME WarehousesTypeOK, [WarehousesNext]_warehousesVars
  PROVE  WarehousesTypeOK'
<1> USE DEF WarehousesTypeOK
<1>1. ASSUME NEW w \in Workers, NEW r \in Rows, NEW is_default \in BOOLEAN,
             Check(w, r, is_default)
      PROVE  WarehousesTypeOK'
  BY <1>1 DEF Check, Begin
<1>2. ASSUME NEW w \in Workers, NEW r \in Rows, NEW is_default \in BOOLEAN,
             Fetch(w, r, is_default)
      PROVE  WarehousesTypeOK'
  BY <1>2 DEF Fetch, Begin
<1>3. ASSUME NEW w \in Workers, Clear(w) PROVE WarehousesTypeOK'
  BY <1>3 DEF Clear
<1>4. ASSUME NEW w \in Workers, Save(w) PROVE WarehousesTypeOK'
  BY <1>4 DEF Save, Respond
<1>5. ASSUME NEW w \in Workers, Fail(w) PROVE WarehousesTypeOK'
  BY <1>5 DEF Fail, Respond
<1>6. ASSUME NEW r \in Rows, Destroy(r) PROVE WarehousesTypeOK'
  BY <1>6 DEF Destroy, request
<1>7. CASE UNCHANGED warehousesVars
  BY <1>7 DEF warehousesVars, request
<1>8. QED BY <1>1, <1>2, <1>3, <1>4, <1>5, <1>6, <1>7 DEF WarehousesNext

LEMMA NextFinite ==
  ASSUME WInv, [WarehousesNext]_warehousesVars
  PROVE  IsFiniteSet(warehouses')
<1>1. \/ warehouses' = warehouses
      \/ \E r : warehouses' = warehouses \union {r}
      \/ \E r : warehouses' = warehouses \ {r}
  BY DEF WarehousesNext, Check, Fetch, Clear, Save, Fail, Destroy, warehousesVars
<1>2. QED BY <1>1, FS_AddElement, FS_RemoveElement DEF WInv

\* A request that passes the plan's check adds one row to fewer than the limit.
LEMMA CheckBound ==
  ASSUME WInv, MaxWarehouses # 0, NEW w \in Workers, NEW r \in Rows,
         NEW is_default \in BOOLEAN, Check(w, r, is_default)
  PROVE  Cardinality(Planned') < MaxWarehouses + Cardinality(Workers)
<1>1. WarehousesTypeOK' /\ warehouses' = warehouses /\ Cardinality(warehouses) < MaxWarehouses
  BY WarehousesNextTypeOK DEF Check, Room, WarehousesNext, WInv
<1>2. IsFiniteSet(Busy') /\ Cardinality(Busy') <= Cardinality(Workers) /\ Busy' \subseteq Workers
  BY FS_Subset, WarehousesAssumption DEF Busy
<1> DEFINE T == {target'[v] : v \in Busy'}
<1>3. IsFiniteSet(T) /\ Cardinality(T) <= Cardinality(Busy')
  BY <1>1, <1>2, TargetsFinite DEF WarehousesTypeOK
<1>4. Planned' = warehouses \union T
  BY <1>1 DEF Planned
<1>5. /\ IsFiniteSet(Planned')
      /\ Cardinality(Planned') <= Cardinality(warehouses) + Cardinality(T)
  BY <1>3, <1>4, UnionBound DEF WInv
<1>6. /\ Cardinality(warehouses) \in Nat /\ Cardinality(T) \in Nat /\ Cardinality(Busy') \in Nat
      /\ Cardinality(Workers) \in Nat /\ Cardinality(Planned') \in Nat /\ MaxWarehouses \in Nat
  BY <1>2, <1>3, <1>5, FS_CardinalityType, WarehousesAssumption DEF WInv
<1>7. QED BY <1>1, <1>2, <1>3, <1>5, <1>6

\* No other step plans a row that was not planned.
LEMMA OtherPlans ==
  ASSUME WInv, [WarehousesNext]_warehousesVars,
         ~ \E w \in Workers, r \in Rows, is_default \in BOOLEAN : Check(w, r, is_default)
  PROVE  Planned' \subseteq Planned
<1> USE DEF WInv, WarehousesTypeOK, Planned, Busy
<1>1. ASSUME NEW w \in Workers, NEW r \in Rows, NEW is_default \in BOOLEAN,
             Fetch(w, r, is_default)
      PROVE  Planned' \subseteq Planned
  BY <1>1 DEF Fetch, Begin
<1>2. ASSUME NEW w \in Workers, Clear(w) PROVE Planned' \subseteq Planned
  BY <1>2 DEF Clear
<1>3. ASSUME NEW w \in Workers, Save(w) PROVE Planned' \subseteq Planned
  <2>1. w \in Busy
    BY <1>3 DEF Save
  <2>2. \A v \in Busy' : v \in Busy /\ target'[v] = target[v]
    BY <1>3 DEF Save, Respond
  <2>3. QED BY <1>3, <2>1, <2>2 DEF Save
<1>4. ASSUME NEW w \in Workers, Fail(w) PROVE Planned' \subseteq Planned
  BY <1>4 DEF Fail, Respond
<1>5. ASSUME NEW r \in Rows, Destroy(r) PROVE Planned' \subseteq Planned
  BY <1>5 DEF Destroy, request
<1>6. CASE UNCHANGED warehousesVars
  BY <1>6 DEF warehousesVars, request
<1>7. QED BY <1>1, <1>2, <1>3, <1>4, <1>5, <1>6 DEF WarehousesNext

\* A default is set by a request that had cleared the flag, and a request that
\* clears it leaves no default.
LEMMA NextDefaults ==
  ASSUME WInv, [WarehousesNext]_warehousesVars
  PROVE  Cardinality(defaults') + Cardinality(Setting') <= Cardinality(Workers)
<1> DEFINE D == Cardinality(defaults)
           C == Cardinality(Setting)
           W == Cardinality(Workers)
<1>1. /\ IsFiniteSet(defaults) /\ D \in Nat /\ IsFiniteSet(Setting) /\ C \in Nat
      /\ W \in Nat /\ D + C <= W
  BY Sizes DEF WInv
<1>2. ASSUME defaults' \subseteq defaults, Setting' \subseteq Setting
      PROVE  Cardinality(defaults') + Cardinality(Setting') <= W
  <2>1. /\ Cardinality(defaults') <= D /\ Cardinality(defaults') \in Nat
        /\ Cardinality(Setting') <= C /\ Cardinality(Setting') \in Nat
    BY <1>1, <1>2, FS_Subset, FS_CardinalityType
  <2>2. QED BY <1>1, <2>1
<1>3. ASSUME NEW w \in Workers, NEW r \in Rows, NEW is_default \in BOOLEAN,
             Check(w, r, is_default) \/ Fetch(w, r, is_default)
      PROVE  defaults' = defaults /\ Setting' \subseteq Setting
  BY <1>3 DEF Check, Fetch, Begin, Setting, WInv, WarehousesTypeOK
<1>4. ASSUME NEW w \in Workers, Clear(w)
      PROVE  Cardinality(defaults') + Cardinality(Setting') <= W
  <2>1. Cardinality(Setting') <= W /\ Cardinality(Setting') \in Nat
    BY FS_Subset, FS_CardinalityType, WarehousesAssumption DEF Setting
  <2>2. Cardinality(defaults') = 0
    BY <1>4, FS_EmptySet DEF Clear
  <2>3. QED BY <2>1, <2>2, <1>1
<1>5. ASSUME NEW w \in Workers, Save(w), flag[w]
      PROVE  Cardinality(defaults') + Cardinality(Setting') <= W
  <2>1. defaults' = defaults \union {target[w]} /\ w \in Setting /\ Setting' = Setting \ {w}
    BY <1>5 DEF Save, Respond, Setting, WInv, WarehousesTypeOK
  <2>2. /\ IsFiniteSet(defaults') /\ Cardinality(defaults') <= D + 1
        /\ Cardinality(Setting') = C - 1
    <3>1. IsFiniteSet(defaults') /\ Cardinality(defaults') <= D + 1
      <4>1. /\ IsFiniteSet(defaults \union {target[w]})
            /\ Cardinality(defaults \union {target[w]})
                 = IF target[w] \in defaults THEN D ELSE D + 1
        BY <1>1, FS_AddElement, Zenon
      <4>2. QED BY <1>1, <2>1, <4>1
    <3>2. Cardinality(Setting') = C - 1
      BY <1>1, <2>1, FS_RemoveElement
    <3>3. QED BY <3>1, <3>2
  <2>3. Cardinality(defaults') \in Nat
    BY <2>2, FS_CardinalityType
  <2>4. QED BY <1>1, <2>2, <2>3
<1>6. ASSUME NEW w \in Workers, Save(w), ~flag[w]
      PROVE  defaults' \subseteq defaults /\ Setting' \subseteq Setting
  BY <1>6 DEF Save, Respond, Setting, WInv, WarehousesTypeOK
<1>7. ASSUME NEW w \in Workers, Fail(w)
      PROVE  defaults' \subseteq defaults /\ Setting' \subseteq Setting
  BY <1>7 DEF Fail, Respond, Setting, WInv, WarehousesTypeOK
<1>8. ASSUME NEW r \in Rows, Destroy(r)
      PROVE  defaults' \subseteq defaults /\ Setting' \subseteq Setting
  BY <1>8 DEF Destroy, request, Setting
<1>9. ASSUME UNCHANGED warehousesVars
      PROVE  defaults' \subseteq defaults /\ Setting' \subseteq Setting
  BY <1>9 DEF warehousesVars, request, Setting
<1>10. QED
  BY <1>2, <1>3, <1>4, <1>5, <1>6, <1>7, <1>8, <1>9 DEF WarehousesNext

LEMMA NextWInv ==
  ASSUME WInv, [WarehousesNext]_warehousesVars
  PROVE  WInv'
<1>1. WarehousesTypeOK' /\ IsFiniteSet(warehouses')
  BY WarehousesNextTypeOK, NextFinite DEF WInv
<1>2. ASSUME MaxWarehouses # 0
      PROVE  Cardinality(Planned') < MaxWarehouses + Cardinality(Workers)
  <2>1. CASE \E w \in Workers, r \in Rows, is_default \in BOOLEAN : Check(w, r, is_default)
    BY <2>1, <1>2, CheckBound
  <2>2. CASE ~ \E w \in Workers, r \in Rows, is_default \in BOOLEAN : Check(w, r, is_default)
    <3>1. Cardinality(Planned') <= Cardinality(Planned) /\ IsFiniteSet(Planned')
      BY <2>2, OtherPlans, Sizes, FS_Subset
    <3>2. Cardinality(Planned') \in Nat
      BY <3>1, FS_CardinalityType
    <3>3. QED BY <3>1, <3>2, <1>2, Sizes, WarehousesAssumption DEF WInv
  <2>3. QED BY <2>1, <2>2
<1>3. QED BY <1>1, <1>2, NextDefaults DEF WInv

-----------------------------------------------------------------------------
(* Warehouses: the theorems.                                               *)

\* The invariant holds however requests overlap.
THEOREM WarehousesInvariant == WarehousesSpec => []WInv
<1>1. WInv /\ UNCHANGED warehousesVars => WInv'
  BY NextWInv
<1>2. QED BY InitWInv, NextWInv, PTL DEF WarehousesSpec

\* The plan is overrun by less than the number of overlapping requests.
THEOREM PlanOverrun == WarehousesSpec => []WithinPlan
<1>1. ASSUME WInv, MaxWarehouses # 0
      PROVE  Cardinality(warehouses) < MaxWarehouses + Cardinality(Workers)
  <2>1. Cardinality(warehouses) <= Cardinality(Planned)
    BY Sizes, <1>1, FS_Subset DEF Planned
  <2>2. Cardinality(warehouses) \in Nat
    BY <1>1, FS_CardinalityType DEF WInv
  <2>3. QED BY <1>1, <2>1, <2>2, Sizes, WarehousesAssumption DEF WInv
<1>2. WInv => WithinPlan
  BY <1>1 DEF WithinPlan
<1>3. QED BY WarehousesInvariant, <1>2, PTL

\* There are at most as many defaults as overlapping requests: one, if none overlap.
THEOREM DefaultsPerRequest == WarehousesSpec => []DefaultsBounded
<1>1. WInv => DefaultsBounded
  BY Sizes DEF WInv, DefaultsBounded
<1>2. QED BY WarehousesInvariant, <1>1, PTL

LEMMA InitNInv == NotifyInit => NInv
<1> SUFFICES ASSUME NotifyInit PROVE NInv
  OBVIOUS
<1> USE NotificationsAssumption DEF NotifyInit
<1>1. NotifyTypeOK
  BY DEF NotifyTypeOK
<1>2. ReachesHold /\ PushesHold /\ DoneReachedAll /\ NoneMissed
  BY DEF ReachesHold, PushesHold, DoneReachedAll, NoneMissed, Unread
<1>3. QED BY <1>1, <1>2 DEF NInv

LEMMA NotificationsNextTypeOK ==
  ASSUME NotifyTypeOK, PushesHold, [NotifyNext]_notifyVars
  PROVE  NotifyTypeOK'
<1> USE NotificationsAssumption, HeadTailProperties DEF NotifyTypeOK, settings, running, delivered
<1>1. ASSUME NEW t \in Tasks, Queue(t)
      PROVE  NotifyTypeOK'
  BY <1>1 DEF Queue
<1>2. ASSUME NEW t \in Tasks, Start(t)
      PROVE  NotifyTypeOK'
  BY <1>2 DEF Start
<1>3. ASSUME NEW t \in Tasks, ReadMembers(t)
      PROVE  NotifyTypeOK'
  BY <1>3 DEF ReadMembers, In
<1>4. ASSUME NEW t \in Tasks, NEW u \in Recipients, CreateRow(t, u)
      PROVE  NotifyTypeOK'
  BY <1>4 DEF CreateRow, In, RowOf, Row
<1>5. ASSUME NEW t \in Tasks, Push(t)
      PROVE  NotifyTypeOK'
  BY <1>5 DEF Push, In, Group, PushesHold
<1>6. ASSUME NEW t \in Tasks, NextTenant(t)
      PROVE  NotifyTypeOK'
  BY <1>6 DEF NextTenant, In
<1>7. ASSUME NEW t \in Tasks, Finish(t)
      PROVE  NotifyTypeOK'
  BY <1>7 DEF Finish, In
<1>8. ASSUME NEW t \in Tasks, Raise(t)
      PROVE  NotifyTypeOK'
  <2>1. CASE t \in Retried /\ tries[t] < MaxRetries
    <3>1. tries' = [tries EXCEPT ![t] = @ + 1] /\ task' = [task EXCEPT ![t] = "queued"]
      BY <1>8, <2>1 DEF Raise
    <3>2. tries[t] + 1 \in 0..MaxRetries
      BY <2>1
    <3>3. tries' \in [Tasks -> 0..MaxRetries] /\ \A x \in Tasks : tries'[x] > 0 => x \in Retried
      BY <2>1, <3>1, <3>2
    <3>4. QED BY <1>8, <3>1, <3>3 DEF Raise
  <2>2. CASE ~ (t \in Retried /\ tries[t] < MaxRetries)
    BY <1>8, <2>2 DEF Raise
  <2>3. QED BY <2>1, <2>2
<1>9. ASSUME NEW t \in Tasks, Crash(t)
      PROVE  NotifyTypeOK'
  BY <1>9 DEF Crash
<1>10. ASSUME NEW n \in Tenants, NEW u \in Recipients, Appoint(n, u)
      PROVE  NotifyTypeOK'
  BY <1>10 DEF Appoint
<1>11. ASSUME NEW n \in Tenants, NEW u \in Recipients, MarkAllRead(n, u)
      PROVE  NotifyTypeOK'
  BY <1>11 DEF MarkAllRead, Unread
<1>12. ASSUME NEW r \in rows, MarkRead(r)
      PROVE  NotifyTypeOK'
  BY <1>12 DEF MarkRead
<1>13. ASSUME NEW s \in Sockets, Connect(s)
      PROVE  NotifyTypeOK'
  BY <1>13 DEF Connect, Move
<1>14. ASSUME NEW s \in Sockets, CountUnread(s, "joined", "counted") \/ CountUnread(s, "read", "open")
      PROVE  NotifyTypeOK'
  <2>1. \E from, to : CountUnread(s, from, to) /\ to \in {"counted", "open"}
    BY <1>14
  <2>2. known' \in [Sockets -> SUBSET rows]
    BY <2>1 DEF CountUnread, Unread
  <2>3. socket' \in [Sockets -> {"new", "joined", "counted", "open", "read", "closed"}]
    BY <2>1 DEF CountUnread, Move
  <2>4. QED BY <1>14, <2>2, <2>3 DEF CountUnread
<1>15. ASSUME NEW s \in Sockets, Greet(s)
      PROVE  NotifyTypeOK'
  BY <1>15 DEF Greet, Move
<1>16. ASSUME NEW s \in Sockets, Deliver(s)
      PROVE  NotifyTypeOK'
  BY <1>16 DEF Deliver
<1>17. ASSUME NEW s \in Sockets, ReceiveReadAll(s)
      PROVE  NotifyTypeOK'
  BY <1>17 DEF ReceiveReadAll, Move, Unread
<1>18. ASSUME NEW s \in Sockets, Disconnect(s)
      PROVE  NotifyTypeOK'
  BY <1>18 DEF Disconnect
<1>19. CASE UNCHANGED notifyVars
  BY <1>19 DEF notifyVars
<1>20. QED
  BY <1>1, <1>2, <1>3, <1>4, <1>5, <1>6, <1>7, <1>8, <1>9, <1>10, <1>11, <1>12, <1>13, <1>14, <1>15, <1>16, <1>17, <1>18, <1>19
  DEF NotifyNext, Run, Consume

-----------------------------------------------------------------------------
(* Notifications: the tasks.                                               *)

\* Only tasks create rows and move on; members and clients leave them alone.
LEMMA OutsideTasks ==
  ASSUME [NotifyNext]_notifyVars, ~ \E t \in Tasks : Queue(t) \/ Run(t) \/ Crash(t)
  PROVE  UNCHANGED <<task, tries, running, rows, missed>>
<1>1. ASSUME NEW n \in Tenants, NEW u \in Recipients, Appoint(n, u) \/ MarkAllRead(n, u)
      PROVE  UNCHANGED <<task, tries, running, rows, missed>>
  BY <1>1 DEF Appoint, MarkAllRead
<1>2. ASSUME NEW r \in rows, MarkRead(r)
      PROVE  UNCHANGED <<task, tries, running, rows, missed>>
  BY <1>2 DEF MarkRead
<1>3. ASSUME NEW s \in Sockets, Consume(s)
      PROVE  UNCHANGED <<task, tries, running, rows, missed>>
  BY <1>3 DEF Consume, Connect, CountUnread, Greet, Deliver, ReceiveReadAll, Disconnect
<1>4. CASE UNCHANGED notifyVars
  BY <1>4 DEF notifyVars
<1>5. QED BY <1>1, <1>2, <1>3, <1>4 DEF NotifyNext

\* A run pushes each row it creates before it goes on to the next one.
LEMMA NextPushes ==
  ASSUME NotifyTypeOK, PushesHold, [NotifyNext]_notifyVars
  PROVE  PushesHold'
<1> USE NotificationsAssumption DEF NotifyTypeOK, PushesHold, running
<1>1. ASSUME NEW t \in Tasks, Queue(t)
      PROVE  PushesHold'
  BY <1>1 DEF Queue
<1>2. ASSUME NEW t \in Tasks, Start(t)
      PROVE  PushesHold'
  BY <1>2 DEF Start
<1>3. ASSUME NEW t \in Tasks, ReadMembers(t)
      PROVE  PushesHold'
  BY <1>3 DEF ReadMembers, In
<1>4. ASSUME NEW t \in Tasks, NEW u \in Recipients, CreateRow(t, u)
      PROVE  PushesHold'
  BY <1>4 DEF CreateRow, In
<1>5. ASSUME NEW t \in Tasks, Push(t)
      PROVE  PushesHold'
  BY <1>5 DEF Push, In
<1>6. ASSUME NEW t \in Tasks, NextTenant(t)
      PROVE  PushesHold'
  BY <1>6 DEF NextTenant, In
<1>7. ASSUME NEW t \in Tasks, Finish(t)
      PROVE  PushesHold'
  BY <1>7 DEF Finish, In
<1>8. ASSUME NEW t \in Tasks, Raise(t)
      PROVE  PushesHold'
  BY <1>8 DEF Raise
<1>9. ASSUME NEW t \in Tasks, Crash(t)
      PROVE  PushesHold'
  BY <1>9 DEF Crash
<1>10. CASE ~ \E t \in Tasks : Queue(t) \/ Run(t) \/ Crash(t)
  BY <1>10, OutsideTasks
<1>11. QED
  BY <1>1, <1>2, <1>3, <1>4, <1>5, <1>6, <1>7, <1>8, <1>9, <1>10 DEF Run

\* A run leaves a tenant once it has notified everyone it read there.
LEMMA NextReaches ==
  ASSUME NotifyTypeOK, ReachesHold, [NotifyNext]_notifyVars
  PROVE  ReachesHold'
<1> USE NotificationsAssumption DEF NotifyTypeOK, ReachesHold, running, RowOf
<1>1. ASSUME NEW t \in Tasks, Queue(t)
      PROVE  ReachesHold'
  BY <1>1 DEF Queue
<1>2. ASSUME NEW t \in Tasks, Start(t)
      PROVE  ReachesHold'
  BY <1>2 DEF Start
<1>3. ASSUME NEW t \in Tasks, ReadMembers(t)
      PROVE  ReachesHold'
  BY <1>3 DEF ReadMembers, In
<1>4. ASSUME NEW t \in Tasks, NEW u \in Recipients, CreateRow(t, u)
      PROVE  ReachesHold'
  BY <1>4 DEF CreateRow, In
<1>5. ASSUME NEW t \in Tasks, Push(t)
      PROVE  ReachesHold'
  BY <1>5 DEF Push, In
<1>6. ASSUME NEW t \in Tasks, NextTenant(t)
      PROVE  ReachesHold'
  BY <1>6 DEF NextTenant, In
<1>7. ASSUME NEW t \in Tasks, Finish(t)
      PROVE  ReachesHold'
  BY <1>7 DEF Finish, In
<1>8. ASSUME NEW t \in Tasks, Raise(t)
      PROVE  ReachesHold'
  BY <1>8 DEF Raise
<1>9. ASSUME NEW t \in Tasks, Crash(t)
      PROVE  ReachesHold'
  BY <1>9 DEF Crash
<1>10. CASE ~ \E t \in Tasks : Queue(t) \/ Run(t) \/ Crash(t)
  BY <1>10, OutsideTasks
<1>11. QED
  BY <1>1, <1>2, <1>3, <1>4, <1>5, <1>6, <1>7, <1>8, <1>9, <1>10 DEF Run

\* A task is done only from a run that has gone through all its tenants.
LEMMA NextDone ==
  ASSUME NotifyTypeOK, ReachesHold, DoneReachedAll, [NotifyNext]_notifyVars
  PROVE  DoneReachedAll'
<1> USE NotificationsAssumption DEF NotifyTypeOK, DoneReachedAll, ReachesHold, running, RowOf
<1>1. ASSUME NEW t \in Tasks, Queue(t)
      PROVE  DoneReachedAll'
  BY <1>1 DEF Queue
<1>2. ASSUME NEW t \in Tasks, Start(t)
      PROVE  DoneReachedAll'
  BY <1>2 DEF Start
<1>3. ASSUME NEW t \in Tasks, ReadMembers(t)
      PROVE  DoneReachedAll'
  BY <1>3 DEF ReadMembers, In
<1>4. ASSUME NEW t \in Tasks, NEW u \in Recipients, CreateRow(t, u)
      PROVE  DoneReachedAll'
  BY <1>4 DEF CreateRow, In
<1>5. ASSUME NEW t \in Tasks, Push(t)
      PROVE  DoneReachedAll'
  BY <1>5 DEF Push, In
<1>6. ASSUME NEW t \in Tasks, NextTenant(t)
      PROVE  DoneReachedAll'
  BY <1>6 DEF NextTenant, In
<1>7. ASSUME NEW t \in Tasks, Finish(t)
      PROVE  DoneReachedAll'
  BY <1>7 DEF Finish, In
<1>8. ASSUME NEW t \in Tasks, Raise(t)
      PROVE  DoneReachedAll'
  BY <1>8 DEF Raise
<1>9. ASSUME NEW t \in Tasks, Crash(t)
      PROVE  DoneReachedAll'
  BY <1>9 DEF Crash
<1>10. CASE ~ \E t \in Tasks : Queue(t) \/ Run(t) \/ Crash(t)
  BY <1>10, OutsideTasks
<1>11. QED
  BY <1>1, <1>2, <1>3, <1>4, <1>5, <1>6, <1>7, <1>8, <1>9, <1>10 DEF Run

-----------------------------------------------------------------------------
(* Notifications: the sockets.                                             *)

\* What a task does takes no row from a client: it may create one, which it then
\* holds, and push the one it holds, to every socket in the group or to none.
LEMMA TasksMissNone ==
  ASSUME NotifyTypeOK, PushesHold, NoneMissed, NEW t \in Tasks, Queue(t) \/ Run(t) \/ Crash(t)
  PROVE  NoneMissed'
<1> USE NotificationsAssumption DEF NotifyTypeOK, NoneMissed, Unread, settings, running, delivered
<1>1. CASE Queue(t) \/ ReadMembers(t) \/ NextTenant(t) \/ Finish(t) \/ Raise(t)
  BY <1>1 DEF Queue, ReadMembers, NextTenant, Finish, Raise
<1>2. CASE Start(t)
  <2>1. pushing[t] = NoRow
    BY <1>2 DEF Start, PushesHold
  <2>2. pushing' = pushing
    BY <1>2, <2>1 DEF Start
  <2>3. QED BY <1>2, <2>2 DEF Start
<1>3. ASSUME NEW u \in Recipients, CreateRow(t, u) PROVE NoneMissed'
  <2>1. pushing[t] = NoRow /\ pushing' = [pushing EXCEPT ![t] = RowOf(t, Head(left[t]), u)]
    BY <1>3 DEF CreateRow, In, PushesHold
  <2>2. rows' = rows \union {RowOf(t, Head(left[t]), u)} /\ read' = read /\ missed' = missed
        /\ inbox' = inbox /\ known' = known /\ socket' = socket
    BY <1>3 DEF CreateRow
  <2>3. NoRow \notin rows
    OBVIOUS
  <2> HIDE DEF NotifyTypeOK
  <2>4. ASSUME NEW s \in Sockets, socket[s] \in {"counted", "open", "read"},
               NEW r \in rows' \ read, r.user = UserOf[s]
        PROVE  r \in known[s] \union inbox[s] \union missed \/ \E x \in Tasks : pushing'[x] = r
    <3>1. CASE r = RowOf(t, Head(left[t]), u)
      BY <2>1, <3>1 DEF NotifyTypeOK
    <3>2. CASE r \in rows
      <4>1. \/ r \in known[s] \union inbox[s] \union missed
            \/ \E x \in Tasks : pushing[x] = r
        BY <2>4, <3>2
      <4>2. \A x \in Tasks : pushing[x] = r => pushing'[x] = r
        BY <2>1, <2>3, <3>2 DEF NotifyTypeOK
      <4>3. QED BY <4>1, <4>2
    <3>3. QED BY <2>2, <3>1, <3>2
  <2>5. QED BY <2>2, <2>4
<1>4. CASE Push(t)
  <2>1. pushing[t] \in rows /\ pushing' = [pushing EXCEPT ![t] = NoRow]
    BY <1>4 DEF Push, In, PushesHold
  <2>2. /\ rows' = rows /\ read' = read /\ known' = known /\ socket' = socket
        /\ missed \subseteq missed' /\ \A s \in Sockets : inbox[s] \subseteq inbox'[s]
    <3>1. CASE UNCHANGED inbox
      BY <1>4, <3>1 DEF Push
    <3>2. CASE ~ UNCHANGED inbox
      <4>1. /\ missed' = missed
            /\ inbox' = [s \in Sockets |-> IF s \in Group(pushing[t].user)
                                             THEN inbox[s] \union {pushing[t]} ELSE inbox[s]]
        BY <1>4, <3>2 DEF Push
      <4>2. \A s \in Sockets : inbox[s] \subseteq inbox'[s]
        BY <4>1
      <4>3. QED BY <1>4, <4>1, <4>2 DEF Push
    <3>3. QED BY <3>1, <3>2
  <2>3. \/ pushing[t] \in missed'
        \/ \A s \in Sockets : s \in Group(pushing[t].user) => pushing[t] \in inbox'[s]
    BY <1>4 DEF Push
  <2> HIDE DEF NotifyTypeOK
  <2>4. ASSUME NEW s \in Sockets, socket[s] \in {"counted", "open", "read"},
               NEW r \in rows \ read, r.user = UserOf[s]
        PROVE  \/ r \in known[s] \union inbox'[s] \union missed'
               \/ \E x \in Tasks : pushing'[x] = r
    <3>1. CASE r = pushing[t]
      BY <2>3, <2>4, <3>1 DEF Group
    <3>2. CASE r # pushing[t]
      <4>1. \/ r \in known[s] \union inbox[s] \union missed
            \/ \E x \in Tasks : pushing[x] = r
        BY <2>4
      <4>2. \A x \in Tasks : pushing[x] = r => pushing'[x] = r
        BY <2>1, <3>2 DEF NotifyTypeOK
      <4>3. QED BY <2>2, <4>1, <4>2
    <3>3. QED BY <3>1, <3>2
  <2>5. QED BY <2>2, <2>4
<1>5. CASE Crash(t)
  BY <1>5 DEF Crash
<1>6. QED BY <1>1, <1>2, <1>3, <1>4, <1>5 DEF Run

\* A socket joins its group before it counts, so that what is not in the count
\* comes as a push; later reads and counts only add to what its client knows.
LEMMA SocketsMissNone ==
  ASSUME NotifyTypeOK, NoneMissed, NEW s \in Sockets, Consume(s)
  PROVE  NoneMissed'
<1> USE DEF NotifyTypeOK, NoneMissed, Unread, Move, settings, running
<1>1. CASE Connect(s) \/ Greet(s) \/ Disconnect(s)
  BY <1>1 DEF Connect, Greet, Disconnect
<1>2. CASE CountUnread(s, "joined", "counted") \/ CountUnread(s, "read", "open")
  <2>1. /\ known' = [known EXCEPT ![s] = @ \union Unread(UserOf[s])]
        /\ UNCHANGED <<rows, read, inbox, missed, pushing>>
        /\ \A x \in Sockets \ {s} : socket'[x] = socket[x]
    BY <1>2 DEF CountUnread
  <2>2. ASSUME NEW x \in Sockets, socket'[x] \in {"counted", "open", "read"},
               NEW r \in Unread(UserOf[x])
        PROVE  \/ r \in known'[x] \union inbox[x] \union missed
               \/ \E t \in Tasks : pushing[t] = r
    <3>1. CASE x = s
      BY <2>1, <2>2, <3>1
    <3>2. CASE x # s
      BY <2>1, <2>2, <3>2
    <3>3. QED BY <3>1, <3>2
  <2>3. QED BY <2>1, <2>2
<1>3. CASE Deliver(s)
  BY <1>3 DEF Deliver
<1>4. CASE ReceiveReadAll(s)
  BY <1>4 DEF ReceiveReadAll
<1>5. QED BY <1>1, <1>2, <1>3, <1>4 DEF Consume

LEMMA NextMissNone ==
  ASSUME NotifyTypeOK, PushesHold, NoneMissed, [NotifyNext]_notifyVars
  PROVE  NoneMissed'
<1>1. ASSUME NEW n \in Tenants, NEW u \in Recipients, Appoint(n, u) \/ MarkAllRead(n, u)
      PROVE  NoneMissed'
  BY <1>1 DEF Appoint, MarkAllRead, NoneMissed, Unread, running, delivered
<1>2. ASSUME NEW r \in rows, MarkRead(r) PROVE NoneMissed'
  BY <1>2 DEF MarkRead, NoneMissed, Unread, running, delivered
<1>3. CASE UNCHANGED notifyVars
  BY <1>3 DEF notifyVars, NoneMissed, Unread, running, delivered
<1>4. QED BY <1>1, <1>2, <1>3, TasksMissNone, SocketsMissNone DEF NotifyNext

-----------------------------------------------------------------------------
(* Notifications: theorems.                                                *)

\* The invariant of tasks, rows and sockets is inductive, whatever retries,
\* crashes, appointments, reads and connections come between.
THEOREM NotificationsInvariant == NotifySpec => []NInv
<1>1. NotifyInit => NInv
  BY InitNInv
<1>2. NInv /\ [NotifyNext]_notifyVars => NInv'
  BY NotificationsNextTypeOK, NextPushes, NextReaches, NextDone, NextMissNone DEF NInv
<1>3. QED BY <1>1, <1>2, PTL DEF NotifySpec

\* Rows, inboxes and reads are well formed: what was pushed or read is a row.
THEOREM NotificationsTyped == NotifySpec => []NotifyTypeOK
<1>1. NInv => NotifyTypeOK
  BY DEF NInv
<1>2. QED BY <1>1, NotificationsInvariant, PTL

\* A task that ends well has notified everyone its last run has read, however
\* often it was retried (inventory/tasks.py, notifications/services.py).
THEOREM DoneTasksReachedAll == NotifySpec => []DoneReachedAll
<1>1. NInv => DoneReachedAll
  BY DEF NInv
<1>2. QED BY <1>1, NotificationsInvariant, PTL

\* A client that has its first count misses no unread notification whose push did
\* not fail (notifications/consumers.py).
THEOREM ClientsMissNone == NotifySpec => []NoneMissed
<1>1. NInv => NoneMissed
  BY DEF NInv
<1>2. QED BY <1>1, NotificationsInvariant, PTL
=============================================================================

-------------------------- MODULE MCNotifications --------------------------
(* An instance of Notifications: a reorder alert of one tenant, with one     *)
(* retry, and a sweep of two.                                                *)
EXTENDS Notifications, TLC

CONSTANTS alert, sweep, n1, n2, ann, bob, s1

MCTenantsOf == [t \in Tasks |-> IF t = alert THEN <<n1>> ELSE <<n2, n1>>]
MCLoads == {{alert}, {sweep}}
MCAppointments == {<<n1, bob>>}
MCAdmins    == n1 :> {ann, bob} @@ n2 :> {ann}
MCUserOf    == s1 :> ann
=============================================================================

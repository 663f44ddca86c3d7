SPECIFICATION NotifySpec
CONSTANTS
  alert = alert
  sweep = sweep
  n1 = n1
  n2 = n2
  ann = ann
  bob = bob
  s1 = s1
  Recipients = {ann, bob}
  Tenants = {n1, n2}
  Tasks = {alert, sweep}
  Loads <- MCLoads
  TenantsOf <- MCTenantsOf
  Admins <- MCAdmins
  Appointments <- MCAppointments
  Retried = {alert}
  MaxRetries = 1
  Sockets = {s1}
  UserOf <- MCUserOf
  NoRow = NoRow
CHECK_DEADLOCK FALSE
INVARIANTS DoneReachedAll NoneMissed
PROPERTIES TasksSettle

SPECIFICATION TeamSpec
CONSTANTS
  owner = owner
  ann = ann
  boss = boss
  clerk = clerk
  packer = packer
  i1 = i1
  i2 = i2
  Users = {owner, ann}
  Owner = owner
  Roles = {boss, clerk, packer}
  SystemRoles = {boss, clerk}
  OwnerRole = boss
  Invites = {i1, i2}
  EmailOf <- MCEmailOf
  RoleOf <- MCRoleOf
  Acceptors = {x1, x2}
  MailRetries = 3
  NoInvite = NoInvite
CHECK_DEADLOCK FALSE
INVARIANTS LaterCancelsEarlier AcceptedAreMembers
PROPERTIES MailSettles

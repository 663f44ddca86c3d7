------------------------------- MODULE MCTeam -------------------------------
(* An instance of Team: one address invited twice, to different roles.        *)
EXTENDS Team, TLC

CONSTANTS owner, ann, boss, clerk, packer, i1, i2

MCEmailOf == i1 :> ann @@ i2 :> ann
MCRoleOf  == i1 :> clerk @@ i2 :> packer
=============================================================================

------------------------ MODULE MCProfileController ------------------------
(* Two L1 members, one L2 member and one Context with one Task.              *)
EXTENDS ProfileController, TLC

CONSTANTS a, b, z, x1
MCMembersOf == "l1" :> {a, b} @@ "l2" :> {z}
MCContexts == {x1}
MCCommands == <<{"maintenance"}, {"profile"}>>
=============================================================================

-------------------------- MODULE MCGatewayIntake --------------------------
(* Small instances of GatewayIntake for TLC. *)
EXTENDS GatewayIntake, TLC

CONSTANTS s1, s2, k1, g1

OneOfEach == s1 :> 1 @@ k1 :> 2
OneSet == s1 :> 1
TwoSets == s1 :> 1 @@ s2 :> 1

NoGroups == s1 :> NoGroup
OneGroup == s1 :> g1 @@ s2 :> g1
=============================================================================

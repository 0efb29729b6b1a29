------------------------- MODULE MCGatewayCommand -------------------------
(* Small instances of GatewayCommand for TLC. *)
EXTENDS GatewayCommand, TLC

CONSTANTS c1, c2, f1, f2, g1

\* One command to two fixtures.
OneTarget == c1 :> {f1, f2}
OneGroup == c1 :> NoGroup

\* Two commands of one mesh group that contend for one fixture.
SharedTargets == (c1 :> {f1}) @@ (c2 :> {f1})
SameGroup == (c1 :> g1) @@ (c2 :> g1)
=============================================================================

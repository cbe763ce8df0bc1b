---------------------------- MODULE MCConnectIpc ----------------------------
(***************************************************************************)
(* ConnectIpc for TLC: the framework's task and the one that runs the CLI. *)
(***************************************************************************)
EXTENDS ConnectIpc

CONSTANTS cli, x, y, p, q, r

Callers == {AF, cli}
OneArgument == {x}
TwoArguments == {x, y}
TwoPlaces == {p, q}
ThreePlaces == {p, q, r}
=============================================================================

---------------------------- MODULE MCForeground ----------------------------
(* Instances of Foreground for TLC; no symmetry, which would hide liveness violations. *)
EXTENDS Foreground, TLC

CONSTANTS c1, c2

\* A hook of two steps; an alias whose last step, after a group, is handed the terminal.
SomePipelines == {<<"step", "step">>, <<"group", "handoff">>}
=============================================================================

------------------------------ MODULE MCStartup ------------------------------
(***************************************************************************)
(* Two configurations with a save file each and a temporary file between   *)
(* them; a third saves where the first does, by way of the save file of    *)
(* the second.                                                             *)
(***************************************************************************)
EXTENDS Startup

CONSTANTS c1, c2, c3, p, q, t, n

MCConfigs == {c1, c2, c3}

MCPaths == {p, q, t}

MCSave == [c \in MCConfigs |-> IF c = c2 THEN q ELSE p]

MCTmp == [c \in MCConfigs |-> IF c = c3 THEN q ELSE t]

MCNodes == {n}
=============================================================================

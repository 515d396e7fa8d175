------------------------------- MODULE MCOrch -------------------------------
(* Model-checking instances of Orch: which endpoint each connection was   *)
(* dialled to.                                                             *)
EXTENDS Orch

CONSTANTS c1, c2   \* the two connections of Conns

\* Both connections dialled to one server.
OneEndpoint == [c \in Conns |-> "e1"]

\* c1 dialled to one server, c2 to another: the global orch channel
\* mixes them in one cycle.
TwoEndpoints == [c \in Conns |-> IF c = c1 THEN "e1" ELSE "e2"]
=============================================================================

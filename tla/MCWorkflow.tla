---------------------------- MODULE MCWorkflow ----------------------------
(* Small instances of WorkflowEngine: one sequential step followed by a      *)
(* parallel group of two, or two sequential steps.                           *)
EXTENDS WorkflowEngine

CONSTANTS start, r1, r2, x1, sv1, sv2

Fork      == [s \in Step |-> IF s = 0 THEN 0 ELSE 1]
Chain     == [s \in Step |-> s]
OneServer == [c \in Calls |-> sv1]
TwoServers == [c \in Calls |-> IF c = x1 THEN sv2 ELSE sv1]
=============================================================================

--------------------------- MODULE MCKeyEvents ---------------------------
(* KeyEvents with two processes of one context each, the user typing in one. *)
EXTENDS KeyEvents, TLC

CONSTANTS p, q, p1, q1

MCAppOf == [c \in Contexts |-> IF c = q1 THEN q ELSE p]
=============================================================================

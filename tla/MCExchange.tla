----------------------------- MODULE MCExchange -----------------------------
(* An instance of Exchange for TLC: a goroutine that places an order and   *)
(* then cancels again and again, and one that places an order for the same *)
(* symbol or another.                                                      *)
EXTENDS Exchange

CONSTANTS a, b, s1, s2

MCTarget == [c \in Callers |-> IF c = b THEN {s1, s2} ELSE {s1}]
MCAfter == [c \in Callers |-> IF c \in Cancels THEN {a} ELSE {}]
=============================================================================

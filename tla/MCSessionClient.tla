-------------------------- MODULE MCSessionClient --------------------------
(***************************************************************************)
(* Instance of SessionClient for TLC: two sessions, one whose events send   *)
(* the client to the other, and one that asks a question and then fails.    *)
(***************************************************************************)
EXTENDS SessionClient

CONSTANTS a, b

MCLogs == {[s \in {a, b} |-> IF s = a THEN <<b>> ELSE <<"ask", "error">>]}
=============================================================================

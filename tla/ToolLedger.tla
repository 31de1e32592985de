----------------------------- MODULE ToolLedger -----------------------------
(***************************************************************************)
(* What the core promises about tool calls, whatever turns, steps, batches *)
(* and interactions they belong to: a call runs at most once, only after   *)
(* its start is on record, and once the record of an outcome is lost the   *)
(* session neither plans, starts nor runs anything again.                  *)
(***************************************************************************)
CONSTANT Calls

VARIABLES
  planned,  \* calls in the transcript
  started,  \* calls whose start is on record
  ended,    \* calls whose end is on record
  ran,      \* calls whose side effect began
  lost      \* started calls whose end nobody will record

vars == <<planned, started, ended, ran, lost>>

Init == planned = {} /\ started = {} /\ ended = {} /\ ran = {} /\ lost = {}

Plan(c) ==
  /\ lost = {}
  /\ c \notin planned
  /\ planned' = planned \cup {c}
  /\ UNCHANGED <<started, ended, ran, lost>>

Start(c) ==
  /\ lost = {}
  /\ c \in planned \ started
  /\ started' = started \cup {c}
  /\ UNCHANGED <<planned, ended, ran, lost>>

Run(c) ==
  /\ lost = {}
  /\ c \in started \ (ended \cup ran)
  /\ ran' = ran \cup {c}
  /\ UNCHANGED <<planned, started, ended, lost>>

End(c) ==
  /\ c \in started \ (ended \cup lost)
  /\ ended' = ended \cup {c}
  /\ UNCHANGED <<planned, started, ran, lost>>

(* The process forgets the calls it was running. *)
Lose ==
  /\ started # ended
  /\ lost' = started \ ended
  /\ UNCHANGED <<planned, started, ended, ran>>

Next == Lose \/ \E c \in Calls : Plan(c) \/ Start(c) \/ Run(c) \/ End(c)

Spec == Init /\ [][Next]_vars
=============================================================================

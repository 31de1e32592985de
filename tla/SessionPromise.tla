--------------------------- MODULE SessionPromise ---------------------------
(***************************************************************************)
(* What the ledger of one session promises to those who use it in turn: it  *)
(* is one sequence of entries that only grows, but for a last entry whose   *)
(* append never returned and that a crash may take back; a session that is  *)
(* opened is all of it, nobody else has it open, and what it learns after   *)
(* that are its own acknowledged appends.                                   *)
(***************************************************************************)
EXTENDS Naturals, Sequences, Functions

CONSTANTS Events, Sessions

VARIABLES
  entries,  \* the ledger
  acked,    \* entries whose append returned
  open,     \* the session in use, if any
  known     \* the entries a session in use is made of

vars == <<entries, acked, open, known>>

LastEntry == entries[Len(entries)]

Init ==
  /\ entries = <<>> /\ acked = {}
  /\ open = {} /\ known = [s \in Sessions |-> <<>>]

Shut == open' = {} /\ known' = [s \in Sessions |-> <<>>]

Open(s) ==
  /\ open = {}
  /\ open' = {s}
  /\ known' = [known EXCEPT ![s] = entries]
  /\ UNCHANGED <<entries, acked>>

Close == Shut /\ UNCHANGED <<entries, acked>>

(* The append may end with an error all the same, and that may end the use. *)
Enter(e) ==
  /\ e \in Events \ Range(entries)
  /\ entries' = Append(entries, e)
  /\ UNCHANGED acked
  /\ UNCHANGED <<open, known>> \/ Shut

Acknowledge ==
  /\ entries # <<>>
  /\ acked' = acked \cup {LastEntry}
  /\ known' = [s \in Sessions |-> IF s \in open THEN Append(known[s], LastEntry) ELSE <<>>]
  /\ UNCHANGED <<entries, open>>

Withdraw ==
  /\ entries # <<>>
  /\ LastEntry \notin acked
  /\ entries' = SubSeq(entries, 1, Len(entries) - 1)
  /\ Shut
  /\ UNCHANGED acked

Next ==
  \/ \E s \in Sessions : Open(s)
  \/ \E e \in Events : Enter(e)
  \/ Close \/ Acknowledge \/ Withdraw

Spec == Init /\ [][Next]_vars
=============================================================================

--------------------------- MODULE MCSessionLog ---------------------------
(***************************************************************************)
(* Instance of SessionLog for TLC.  Either the transactions or the host's   *)
(* threads use the session: TLC explores both kinds of use in one run.      *)
(***************************************************************************)
EXTENDS SessionLog

VARIABLE side  \* the threads at work

MCInit == Init /\ side \in {Turns, Hosts}

MCNext ==
  /\ Next
  /\ \A t \in Threads \ side : pc'[t] = pc[t]
  /\ UNCHANGED side

MCSpec == MCInit /\ [][MCNext]_<<vars, side>>
=============================================================================

---------------------------- MODULE MCAgentTurn ----------------------------
(***************************************************************************)
(* Instance of AgentTurn for TLC, and its refinement of ToolLedger over the*)
(* calls the bounds allow.                                                 *)
(***************************************************************************)
EXTENDS AgentTurn

MaxStep == SafetyLimit + MaxAsks + MaxFaults + 1

BoundedCalls == (1 .. MaxTurns) \X (1 .. MaxStep) \X (0 .. MaxStep) \X (1 .. MaxCalls)

Ledger == INSTANCE ToolLedger WITH
  Calls <- BoundedCalls, started <- StartedCalls, ended <- EndedCalls, lost <- LostCalls

(* Seen through its tool calls, the transcript and the driver keep the      *)
(* ledger: started before run, run once, and frozen by a lost outcome.      *)
ImplementsLedger == Ledger!Spec
=============================================================================

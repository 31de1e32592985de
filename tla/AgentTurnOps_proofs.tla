------------------------- MODULE AgentTurnOps_proofs -------------------------
(***************************************************************************)
(* What becomes of the operations of a session, for every number of modes,  *)
(* steps, calls, turns, interactions and faults: opened once, closed before *)
(* the transaction ends, and within the budget of the turn.                *)
(***************************************************************************)
EXTENDS AgentTurnCalls_proofs

-----------------------------------------------------------------------------
(* What becomes of every operation.  The inductive invariant, on top of the *)
(* one about the calls.                                                     *)
Opens  == {e \in outbox : e[2] = "open"}
Closes == {e \in outbox : e[2] = "close"}

(* Operations on record, or about to be.                                    *)
Known  == open \cup closed
Coming == Known \cup {e[3] : e \in Opens}
Mentioned == Coming \cup {e[3] : e \in Closes}

(* Operations of a step: its own, its transition's and its effects'.        *)
Stepped(o) == o[1] \in {"step", "save"} \cup EffectKind

(* What a step appends was never on record, and is opened before it ends.   *)
OpsFresh ==
  /\ OpIdsFresh
  /\ \A e, f \in Opens : e[3] = f[3] => e = f
  /\ \A e \in Opens, f \in Closes : e[3] = f[3] => e[1] < f[1]

(* An operation of a step follows the step's own event, that of a question  *)
(* follows the question.                                                    *)
OpsInOrder ==
  /\ \A o \in Known : Stepped(o) => o[2] < turn \/ (o[2] = turn /\ o[3] <= steps)
  /\ \A e \in Opens \cup Closes :
       Stepped(e[3]) =>
         /\ e[3][2] = turn /\ turn = cur.turn
         /\ e[3][3] <= steps \/ \E f \in Queued("step") : f[1] < e[1] /\ e[3][3] <= cur.step
  /\ \A o \in Known : o[1] = "pending" => o[2] <= asks
  /\ \A e \in Opens \cup Closes :
       e[3][1] = "pending" =>
         e[3][2] <= asks \/ \E f \in Queued("ask") : f[1] < e[1] /\ e[3][2] = f[3].id
  /\ pending.id <= asks

(* What the driver has opened in its step so far.                           *)
StepSoFar ==
  Driving =>
    /\ Stepped(cur.op) /\ cur.op[1] \in EffectKind /\ cur.op[2] = cur.turn /\ cur.op[3] = cur.step
    /\ cur.op \in Coming
    /\ \A o \in Mentioned :
         Stepped(o) /\ o[2] = turn /\ o[3] = cur.step =>
           /\ o[1] = "provider" => o[4] <= cur.attempt
           /\ o[1] = "context-compact" => cur.compacted
           /\ o[1] = "tool-prepare" => phase \in {"tool_prepare", "tool_execute"}
           /\ o[1] = "tools" => phase = "tool_execute"
           /\ o[1] # "save"

Compactions == IF cur.compacted THEN 1 ELSE 0

(* Steps and requests so far are within the budget.                         *)
BudgetKept ==
  /\ \A o \in Mentioned :
       o[1] = "provider" => o[3] <= SafetyLimit /\ o[4] <= o[3] + 1
  /\ phase = "begin" =>
       /\ cur.attempt = 0 /\ ~cur.compacted
       /\ cur.input # "reply" /\ Queued("user") = {} => steps = 0
  /\ phase = "context" => cur.attempt + 1 <= cur.step + Compactions
  /\ phase \in {"provider", "tool_prepare", "tool_execute"} => cur.attempt <= cur.step + Compactions
  /\ phase \in {"context", "provider"} => cur.step <= SafetyLimit

(* Who will close an open operation, if no fault prevents it.               *)
Accounted(o) ==
  \/ o[1] = "pending"
  \/ <<"fault", OpTurn(o)>> \in cut
  \/ \E e \in Closes : e[3] = o
  \/ phase \notin {"idle", "done"} /\ o = TurnOp(cur.turn)
  \/ Driving /\ o \in {StepOp(cur.turn, cur.step), cur.op}
  \/ phase = "tool_execute" /\ \E c \in Batch : o = CallOp(c)

TurnsOpened ==
  /\ phase \in Running => cur.turn # 0
  /\ pending.id # 0 \/ Queued("ask") # {} => turn # 0
  /\ turn # 0 => TurnOp(turn) \in Known
  /\ \A e \in Queued("user") :
       TurnOp(e[3]) \in Known \/ \E f \in Opens : f[1] < e[1] /\ f[3] = TurnOp(e[3])
  /\ phase = "begin" /\ cur.input = "reply" =>
       cur.turn = turn /\ (TurnOp(turn) \in closed \/ <<"fault", turn>> \in cut)

Closing ==
  /\ \A o \in open \cup {e[3] : e \in Opens} : Accounted(o)
  /\ \A e \in Closes : e[3][1] = "turn" => e[3][2] = cur.turn
  /\ TurnsOpened

CutShort(t) == <<"fault", t>> \in cut \/ <<"cancel", t>> \in cut

(* What the last turn's calls without an answer wait for.                   *)
Awaits(c) ==
  \/ c \in answered \/ CutShort(c[1])
  \/ \E e \in Queued("result") : e[3] = c
  \/ phase = "tool_prepare" /\ c \in Left
  \/ phase = "tool_execute" /\ c \in Batch
  \/ pending.id # 0 /\ c \in Saved(pending)
  \/ \E e \in Queued("ask") : c \in Saved(e[3])

(* The open question, if any, is not one of the last turn.                  *)
AskedBefore == pending.id = 0 \/ pending.reply[1] # turn

Awaiting ==
  /\ \A c \in planned : c[1] = turn => Awaits(c)
  /\ Driving /\ Queued("resolve") = {} => AskedBefore
  /\ phase = "begin" /\ cur.input # "reply" /\ Queued("user") = {} => AskedBefore
  /\ Queued("ask") # {} => AskedBefore
  /\ \A e \in Queued("plan") : e[3] \in Left
  /\ Queued("resolve") # {} => Left = Saved(pending)
  /\ cancel /\ phase \in Running => <<"cancel", cur.turn>> \in cut
  /\ phase = "begin" => cur.from = 1

(* Nothing is left to append between transactions, and no answer of a turn  *)
(* is left when another is the last.                                        *)
NothingLeftOver ==
  /\ phase = "idle" => outbox = {}
  /\ Queued("result") \cup Queued("ask") # {} => cur.turn = turn

OpsKept ==
  OpsFresh /\ OpsInOrder /\ StepSoFar /\ BudgetKept /\ Closing /\ Awaiting /\ NothingLeftOver

OpsInv == CallsInv /\ OpsKept

-----------------------------------------------------------------------------
(* Operations and their names.                                              *)
LEMMA OpShape ==
  ASSUME NEW o \in Op
  PROVE  /\ Stepped(o) => o[2] \in Nat /\ o[3] \in Nat
         /\ o[1] \in EffectKind => o[4] \in Nat
         /\ o[1] \in {"turn", "pending"} => o[2] \in Nat
         /\ o[1] = "call" => o[2] \in Call
         /\ o[1] \in {"turn", "pending", "call"} \/ Stepped(o)
BY DEF Op, Stepped, EffectKind

LEMMA OpNames ==
  ASSUME NEW t, NEW s, NEW a
  PROVE  /\ TurnOp(t)[1] = "turn" /\ TurnOp(t)[2] = t
         /\ PendingOp(t)[1] = "pending" /\ PendingOp(t)[2] = t
         /\ StepOp(t, s)[1] = "step" /\ StepOp(t, s)[2] = t /\ StepOp(t, s)[3] = s
         /\ SaveOp(t, s)[1] = "save" /\ SaveOp(t, s)[2] = t /\ SaveOp(t, s)[3] = s
         /\ \A kind : LET o == EffectOp(kind, t, s, a)
                      IN  o[1] = kind /\ o[2] = t /\ o[3] = s /\ o[4] = a
         /\ CallOp(t)[1] = "call" /\ CallOp(t)[2] = t
BY DEF TurnOp, PendingOp, StepOp, SaveOp, EffectOp, CallOp

LEMMA KindsStepped ==
  /\ \A o : o[1] \in {"step", "save"} \cup EffectKind <=> Stepped(o)
  /\ EffectKind = {"context", "context-compact", "provider", "tool-prepare", "tools"}
BY DEF Stepped, EffectKind

(* Types of the events of a commit.                                         *)
LEMMA OpEventTypes ==
  ASSUME IInv
  PROVE  /\ \A e \in outbox : e[1] \in Nat
         /\ \A e \in Opens \cup Closes : e \in outbox /\ e[3] \in Op
         /\ Known \subseteq Op /\ Coming \subseteq Op /\ Mentioned \subseteq Op
<1>1. \A e \in outbox : e \in Event
  BY Facts
<1>2. \A e \in outbox : e[1] \in Nat /\ (e[2] \in {"open", "close"} => e[3] \in Op)
  BY <1>1, EventCases
<1>3. \A e \in Opens \cup Closes : e \in outbox /\ e[3] \in Op
  BY <1>2 DEF Opens, Closes
<1>4. Known \subseteq Op
  BY Facts DEF Known
<1> QED
  BY <1>2, <1>3, <1>4 DEF Coming, Mentioned

-----------------------------------------------------------------------------
(* Appending an event.                                                      *)
AppendedOps(e) ==
  /\ Appended(e)
  /\ Opens' = Opens \ {e} /\ Closes' = Closes \ {e}
  /\ Known \subseteq Known'
  /\ Known' \subseteq Known \cup {o \in {e[3]} : e[2] \in {"open", "close"}}
  /\ closed \subseteq closed'
  /\ e[2] = "open" => open' \subseteq open \cup {e[3]} /\ closed' = closed /\ e[3] \in Known'
  /\ e[2] = "close" => open' = open \ {e[3]} /\ e[3] \in Known'
  /\ e[2] \notin {"open", "close"} => UNCHANGED <<open, closed>>

(* What each kind of event changes in the session.                          *)
AppendedSession(e) ==
  /\ e[2] # "user" => turn' = turn
  /\ e[2] \notin {"user", "step"} => steps' = steps
  /\ e[2] = "user" => turn' = e[3] /\ steps' = 0
  /\ e[2] = "step" => steps' = e[3][2]
  /\ planned' = IF e[2] = "plan" THEN planned \cup {e[3]} ELSE planned
  /\ answered' = IF e[2] = "result" THEN answered \cup {e[3]} ELSE answered
  /\ e[2] \notin {"ask", "resolve"} => pending' = pending
  /\ e[2] = "ask" => pending' = e[3] /\ asks' = e[3].id
  /\ e[2] = "resolve" => pending' = None
  /\ e[2] # "ask" => asks' = asks

LEMMA AppendedShape ==
  ASSUME AppendEvent
  PROVE  \E e \in outbox : AppendedOps(e) /\ AppendedSession(e)
<1>1. PICK e \in outbox :
        /\ Appended(e)
        /\ \/ e[2] = "open"    /\ OpenOp(e[3])
           \/ e[2] = "close"   /\ CloseOp(e[3])
           \/ e[2] = "user"    /\ ApplyUser(e[3])
           \/ e[2] = "step"    /\ ApplyStep(e[3][2])
           \/ e[2] = "plan"    /\ ApplyToolCall(e[3])
           \/ e[2] = "result"  /\ ApplyToolResult(e[3])
           \/ e[2] = "ask"     /\ ApplyPendingInteraction(e[3])
           \/ e[2] = "resolve" /\ ApplyPendingResolution(e[3][2])
           \/ e[2] = "mode"    /\ ApplyMode(e[3])
  BY DEF AppendEvent, Appended
<1>2. Opens' = Opens \ {e} /\ Closes' = Closes \ {e}
  BY <1>1 DEF Appended, Opens, Closes
<1>3. CASE e[2] = "open" /\ OpenOp(e[3])
  <2>1. open' \subseteq open \cup {e[3]} /\ closed' = closed /\ e[3] \in Known'
        /\ Known \subseteq Known' /\ Known' \subseteq Known \cup {e[3]}
    BY <1>3 DEF OpenOp, Known
  <2> QED
    BY <1>1, <1>2, <1>3, <2>1 DEF AppendedOps, AppendedSession, OpenOp, foldVars
<1>4. CASE e[2] = "close" /\ CloseOp(e[3])
  <2>1. open' = open \ {e[3]} /\ closed \subseteq closed' /\ e[3] \in Known'
        /\ Known \subseteq Known' /\ Known' \subseteq Known \cup {e[3]}
    BY <1>4 DEF CloseOp, Known
  <2> QED
    BY <1>1, <1>2, <1>4, <2>1 DEF AppendedOps, AppendedSession, CloseOp, foldVars
<1>5. CASE e[2] \notin {"open", "close"}
  <2>1. UNCHANGED <<open, closed>> /\ AppendedSession(e)
    BY <1>1, <1>5 DEF ApplyUser, ApplyStep, ApplyToolCall, ApplyToolResult,
       ApplyPendingInteraction, ApplyPendingResolution, ApplyMode, opsVars, AppendedSession
  <2> QED
    BY <1>1, <1>2, <1>5, <2>1 DEF AppendedOps, Known
<1> QED
  BY <1>1, <1>3, <1>4, <1>5

(* Of the events left, an appended one is the first.                        *)
LEMMA AppendedFirst ==
  ASSUME IInv, NEW e, AppendedOps(e), NEW f \in outbox
  PROVE  ~(f[1] < e[1]) /\ e \in outbox
<1>1. e \in outbox /\ e[1] <= f[1] /\ e[1] \in Nat /\ f[1] \in Nat
  BY OpEventTypes DEF AppendedOps, Appended
<1> QED
  BY <1>1

LEMMA AppendFresh ==
  ASSUME OpsInv, NEW e, AppendedOps(e)
  PROVE  OpsFresh'
<1> USE DEF OpsInv, OpsKept
<1>1. IInv
  BY DEF CallsInv
<1>2. ASSUME NEW f \in Opens', e[2] \in {"open", "close"}, f[3][1] # "turn"
      PROVE  f[3] # e[3]
  <2>1. f \in Opens /\ f # e /\ f \in outbox
    BY <1>2 DEF AppendedOps, Opens
  <2>2. CASE e[2] = "open"
    <3>1. e \in Opens
      BY <2>2 DEF AppendedOps, Appended, Opens
    <3> QED
      BY <2>1, <3>1 DEF OpsFresh
  <2>3. CASE e[2] = "close"
    <3>1. e \in Closes
      BY <2>3 DEF AppendedOps, Appended, Closes
    <3> QED
      BY <1>1, <2>1, <3>1, AppendedFirst DEF OpsFresh
  <2> QED
    BY <1>2, <2>2, <2>3
<1>3. \A f \in Opens' : f[3][1] # "turn" => f[3] \notin Known
  BY DEF AppendedOps, OpsFresh, OpIdsFresh, Opens, Known
<1>4. \A f \in Opens' : f[3][1] # "turn" => f[3] \notin Known'
  BY <1>2, <1>3 DEF AppendedOps
<1>5. OpIdsFresh'
  BY <1>4 DEF OpIdsFresh, Opens, Known
<1> QED
  BY <1>5 DEF OpsFresh, AppendedOps

LEMMA AppendInOrder ==
  ASSUME OpsInv, CallsInv', NEW e, AppendedOps(e), AppendedSession(e)
  PROVE  OpsInOrder'
<1> USE DEF OpsInv, OpsKept
<1>1. IInv /\ TurnInOrder /\ Expected /\ CheckpointsKept
  BY DEF CallsInv, CallsKept
<1>2. e \in outbox /\ (\A f \in outbox : ~(f[1] < e[1])) /\ Appended(e) /\ cur' = cur
  BY <1>1, AppendedFirst DEF AppendedOps, Appended
<1>3. \A kind : /\ Queued(kind)' = Queued(kind) \ {e} /\ Queued(kind) \subseteq outbox
                /\ e \in Queued(kind) => e[2] = kind
  BY <1>2, AppendedDue DEF Queued, Due, Vitals
<1>4. /\ e[2] = "user" => e \in Queued("user")
      /\ e[2] = "step" => e \in Queued("step")
      /\ e[2] = "ask" => e \in Queued("ask")
  BY <1>2 DEF Queued, Due, Vitals, Vital
<1>5. turn \in Nat /\ steps \in Nat /\ asks \in Nat /\ cur.turn \in Nat /\ cur.step \in Nat
  BY <1>1, Facts
<1>6. /\ e[2] = "user" => turn < turn' /\ turn' = cur.turn /\ turn # cur.turn
      /\ e[2] = "step" => turn' = turn /\ steps < steps' /\ steps' = cur.step
      /\ e[2] = "ask" => asks' = asks + 1 /\ pending'.id = asks'
      /\ e[2] = "resolve" => pending'.id = 0
      /\ e[2] = "user" => pending' = pending /\ asks' = asks
  <2>1. CASE e[2] = "user"
    <3>1. turn' = cur.turn /\ turn < cur.turn
      BY <1>1, <1>4, <2>1 DEF TurnInOrder, AppendedSession
    <3> QED
      BY <1>5, <2>1, <3>1 DEF AppendedSession
  <2>2. CASE e[2] = "step"
    BY <1>1, <1>4, <2>2 DEF TurnInOrder, AppendedSession
  <2>3. CASE e[2] = "ask"
    BY <1>1, <1>4, <2>3 DEF CheckpointsKept, AppendedSession
  <2>4. CASE e[2] = "resolve"
    BY <2>4 DEF AppendedSession, None
  <2> QED
    BY <2>1, <2>2, <2>3, <2>4
<1>7. \A o \in Known : Stepped(o) => o[2] \in Nat /\ o[3] \in Nat
  BY <1>1, OpEventTypes, OpShape
<1>8. \A f \in Opens \cup Closes : f \in outbox /\ (Stepped(f[3]) => f[3][2] \in Nat /\ f[3][3] \in Nat)
  BY <1>1, OpEventTypes, OpShape
<1>9. ASSUME NEW o \in Known', Stepped(o)
      PROVE  o[2] < turn' \/ (o[2] = turn' /\ o[3] <= steps')
  <2>1. CASE o \in Known
    <3>1. o[2] < turn \/ (o[2] = turn /\ o[3] <= steps)
      BY <1>9, <2>1 DEF OpsInOrder
    <3>2. CASE e[2] = "user"
      BY <1>5, <1>6, <1>7, <1>9, <2>1, <3>1, <3>2
    <3>3. CASE e[2] = "step"
      <4>1. turn' = turn /\ steps < steps' /\ steps' \in Nat
        BY <1>5, <1>6, <3>3
      <4> QED
        BY <1>5, <1>7, <1>9, <2>1, <3>1, <4>1
    <3>4. CASE e[2] \notin {"user", "step"}
      BY <3>1, <3>4 DEF AppendedSession
    <3> QED
      BY <3>2, <3>3, <3>4
  <2>2. CASE o = e[3] /\ e[2] \in {"open", "close"}
    <3>1. e \in Opens \cup Closes
      BY <1>2, <2>2 DEF Opens, Closes
    <3>2. o[2] = turn /\ o[3] <= steps
      BY <1>2, <1>3, <1>9, <2>2, <3>1 DEF OpsInOrder
    <3> QED
      BY <2>2, <3>2 DEF AppendedSession
  <2> QED
    BY <1>9, <2>1, <2>2 DEF AppendedOps
<1>10. ASSUME NEW f \in (Opens \cup Closes)', Stepped(f[3])
       PROVE  /\ f[3][2] = turn' /\ turn' = cur.turn
              /\ f[3][3] <= steps' \/ \E g \in Queued("step")' : g[1] < f[1] /\ f[3][3] <= cur.step
  <2>1. f \in Opens \cup Closes
    BY <1>10 DEF AppendedOps
  <2>2. /\ f[3][2] = turn /\ turn = cur.turn
        /\ f[3][3] <= steps \/ \E g \in Queued("step") : g[1] < f[1] /\ f[3][3] <= cur.step
    BY <1>10, <2>1 DEF OpsInOrder
  <2>3. e[2] # "user"
    BY <1>6, <2>2
  <2>4. CASE e[2] = "step"
    <3>1. turn' = turn /\ steps < steps' /\ steps' = cur.step
      BY <1>6, <2>4
    <3>2. f[3][3] <= steps'
      BY <1>5, <1>8, <1>10, <2>1, <2>2, <3>1
    <3> QED
      BY <2>2, <3>1, <3>2
  <2>5. CASE e[2] # "step"
    <3>1. Queued("step")' = Queued("step")
      BY <1>3, <2>5
    <3> QED
      BY <2>2, <2>3, <2>5, <3>1 DEF AppendedSession
  <2> QED
    BY <2>4, <2>5
<1>11. asks' \in Nat /\ asks <= asks'
  BY <1>5, <1>6 DEF AppendedSession
<1>12. ASSUME NEW o \in Known', o[1] = "pending"
       PROVE  o[2] <= asks'
  <2>1. o[2] \in Nat
    <3>1. o \in Op
      <4>1. IInv'
        BY DEF CallsInv
      <4>2. open' \subseteq Op /\ closed' \subseteq Op
        BY <4>1 DEF IInv, TypeOK
      <4> QED
        BY <4>2 DEF Known
    <3> QED
      BY <1>12, <3>1, OpShape
  <2>2. o[2] <= asks
    <3>1. CASE o \in Known
      BY <1>12, <3>1 DEF OpsInOrder
    <3>2. CASE o = e[3] /\ e[2] \in {"open", "close"}
      <4>1. e \in Opens \cup Closes
        BY <1>2, <3>2 DEF Opens, Closes
      <4> QED
        BY <1>2, <1>3, <1>12, <3>2, <4>1 DEF OpsInOrder
    <3> QED
      BY <1>12, <3>1, <3>2 DEF AppendedOps
  <2> QED
    BY <1>5, <1>11, <2>1, <2>2
<1>13. ASSUME NEW f \in (Opens \cup Closes)', f[3][1] = "pending"
       PROVE  f[3][2] <= asks' \/ \E g \in Queued("ask")' : g[1] < f[1] /\ f[3][2] = g[3].id
  <2>1. f \in Opens \cup Closes /\ f \in outbox
    BY <1>8, <1>13 DEF AppendedOps
  <2>2. f[3][2] \in Nat
    <3>1. f[3] \in Op
      BY <1>1, <2>1, OpEventTypes
    <3> QED
      BY <1>13, <3>1, OpShape
  <2>3. f[3][2] <= asks \/ \E g \in Queued("ask") : g[1] < f[1] /\ f[3][2] = g[3].id
    BY <1>13, <2>1 DEF OpsInOrder
  <2>4. CASE f[3][2] <= asks
    BY <1>5, <1>11, <2>2, <2>4
  <2>5. ASSUME NEW g \in Queued("ask"), g[1] < f[1], f[3][2] = g[3].id
        PROVE  f[3][2] <= asks' \/ \E h \in Queued("ask")' : h[1] < f[1] /\ f[3][2] = h[3].id
    <3>1. CASE g = e
      <4>1. asks' = f[3][2]
        BY <1>3, <2>5, <3>1 DEF AppendedSession
      <4> QED
        BY <1>11, <4>1
    <3>2. CASE g # e
      BY <1>3, <2>5, <3>2
    <3> QED
      BY <3>1, <3>2
  <2> QED
    BY <2>3, <2>4, <2>5
<1>14. pending'.id <= asks'
  <2>1. CASE e[2] = "ask"
    BY <1>6, <1>11, <2>1
  <2>2. CASE e[2] = "resolve"
    BY <1>6, <1>11, <2>2
  <2>3. CASE e[2] \notin {"ask", "resolve"}
    BY <2>3 DEF AppendedSession, OpsInOrder
  <2> QED
    BY <2>1, <2>2, <2>3
<1> QED
  BY <1>2, <1>9, <1>10, <1>12, <1>13, <1>14 DEF OpsInOrder

LEMMA AppendMentions ==
  ASSUME NEW e, AppendedOps(e)
  PROVE  Mentioned' \subseteq Mentioned /\ Known \subseteq Known'
<1>1. /\ e[2] = "open" => e \in Opens
      /\ e[2] = "close" => e \in Closes
  BY DEF AppendedOps, Appended, Opens, Closes
<1>2. Known' \subseteq Mentioned
  BY <1>1 DEF AppendedOps, Mentioned, Coming
<1> QED
  BY <1>2 DEF AppendedOps, Mentioned, Coming

LEMMA AppendSoFar ==
  ASSUME OpsInv, NEW e, AppendedOps(e), AppendedSession(e)
  PROVE  StepSoFar'
<1> USE DEF OpsInv, OpsKept
<1>1. UNCHANGED <<phase, cur>> /\ Driving' = Driving
  BY DEF AppendedOps, Appended, Driving
<1>2. ASSUME Driving
      PROVE  turn' = turn
  <2>1. e[2] # "user"
    <3>1. SUFFICES ASSUME e[2] = "user" PROVE FALSE
      OBVIOUS
    <3>2. e \in Queued("user")
      BY <3>1 DEF AppendedOps, Appended, Queued, Due, Vitals, Vital
    <3> QED
      BY <1>2, <3>2 DEF Driving, CallsInv, CallsKept, Expected
  <2> QED
    BY <2>1 DEF AppendedSession
<1>3. cur.op \in Coming => cur.op \in Coming'
  <2>1. e[2] = "open" => e[3] \in Known'
    BY DEF AppendedOps
  <2>2. Opens \subseteq Opens' \cup {e} /\ \A f \in Opens : f[2] = "open"
    BY DEF AppendedOps, Opens
  <2>3. Coming \subseteq Coming'
    BY <2>1, <2>2, AppendMentions DEF Coming
  <2> QED
    BY <2>3
<1>4. CASE Driving
  <2>1. turn' = turn /\ Mentioned' \subseteq Mentioned
    BY <1>2, <1>4, AppendMentions
  <2> QED
    BY <1>1, <1>3, <1>4, <2>1 DEF StepSoFar
<1>5. CASE ~Driving
  BY <1>1, <1>5 DEF StepSoFar
<1> QED
  BY <1>4, <1>5

LEMMA AppendBudget ==
  ASSUME OpsInv, NEW e, AppendedOps(e), AppendedSession(e)
  PROVE  BudgetKept'
<1> USE DEF OpsInv, OpsKept
<1>1. UNCHANGED <<phase, cur>> /\ Compactions' = Compactions
  BY DEF AppendedOps, Appended, Compactions
<1>2. Mentioned' \subseteq Mentioned
  BY AppendMentions
<1>3. ASSUME phase = "begin", cur.input # "reply", Queued("user")' = {}
      PROVE  steps' = 0
  <2>1. CASE e[2] = "user"
    BY <2>1 DEF AppendedSession
  <2>2. CASE e[2] # "user"
    <3>1. Appended(e)
      BY DEF AppendedOps
    <3>2. Queued("user") = {}
      BY <1>3, <2>2, <3>1, AppendedDue
    <3>3. e[2] # "step"
      <4>1. e[2] = "step" => e \in Queued("step")
        BY <3>1 DEF Appended, Queued, Due, Vitals, Vital
      <4> QED
        BY <1>3, <4>1 DEF CallsInv, CallsKept, Expected
    <3> QED
      BY <1>3, <2>2, <3>2, <3>3 DEF AppendedSession, BudgetKept
  <2> QED
    BY <2>1, <2>2
<1> QED
  BY <1>1, <1>2, <1>3 DEF BudgetKept

LEMMA AppendClosing ==
  ASSUME OpsInv, NEW e, AppendedOps(e), AppendedSession(e)
  PROVE  Closing'
<1> USE DEF OpsInv, OpsKept
<1>1. /\ UNCHANGED <<phase, cur, cut>> /\ Driving' = Driving /\ Batch' = Batch /\ Appended(e)
      /\ e \in outbox /\ \A f \in outbox : ~(f[1] < e[1])
  BY AppendedFirst DEF AppendedOps, Appended, Driving, Batch, CallsInv
<1>2. ASSUME NEW o, Accounted(o), ~(e[2] = "close" /\ e[3] = o)
      PROVE  Accounted(o)'
  <2>1. (\E f \in Closes : f[3] = o) => \E f \in Closes' : f[3] = o
    BY <1>2 DEF AppendedOps, Closes
  <2>2. ~(\E f \in Closes : f[3] = o) => Accounted(o)'
    BY <1>1, <1>2 DEF Accounted
  <2>3. (\E f \in Closes' : f[3] = o) => Accounted(o)'
    BY DEF Accounted
  <2> QED
    BY <2>1, <2>2, <2>3
<1>3. ASSUME NEW o \in open' \cup {f[3] : f \in Opens'}
      PROVE  Accounted(o)'
  <2>1. o \in open \cup {f[3] : f \in Opens}
    BY <1>1, <1>3 DEF AppendedOps, Opens
  <2>2. ~(e[2] = "close" /\ e[3] = o)
    <3>1. SUFFICES ASSUME e[2] = "close", e[3] = o PROVE FALSE
      OBVIOUS
    <3>2. o \notin open'
      BY <3>1 DEF AppendedOps
    <3>3. PICK f \in Opens : f[3] = o
      BY <1>3, <3>2 DEF AppendedOps
    <3>4. e \in Closes /\ f \in outbox
      BY <1>1, <3>1 DEF Closes, Opens
    <3> QED
      BY <1>1, <3>1, <3>3, <3>4 DEF OpsFresh
  <2> QED
    BY <1>2, <2>1, <2>2 DEF Closing
<1>4. \A f \in Closes' : f[3][1] = "turn" => f[3][2] = cur'.turn
  BY <1>1 DEF Closing, AppendedOps
<1>5. TurnsOpened
  BY DEF Closing
<1>6. \A kind : Queued(kind)' = Queued(kind) \ {e}
  BY <1>1, AppendedDue
<1>7. /\ e[2] = "user" => e \in Queued("user")
      /\ e[2] = "ask" => e \in Queued("ask")
      /\ e[2] = "user" => phase = "begin" /\ turn < e[3] /\ e[3] = cur.turn
  <2>1. /\ e[2] = "user" => e \in Queued("user")
        /\ e[2] = "ask" => e \in Queued("ask")
    BY <1>1 DEF Queued, Due, Vitals, Vital
  <2> QED
    BY <2>1 DEF CallsInv, CallsKept, Expected, TurnInOrder
<1>8. TurnsOpened'
  <2>1. Known \subseteq Known' /\ closed \subseteq closed'
    BY DEF AppendedOps
  <2>2. pending'.id # 0 \/ Queued("ask")' # {} => turn' # 0
    <3>1. turn # 0 => turn' # 0
      <4>1. e[2] = "user" => turn' # 0
        <5>1. turn \in Nat /\ cur.turn \in Nat
          BY Facts DEF CallsInv
        <5> QED
          BY <1>7, <5>1 DEF AppendedSession
      <4> QED
        BY <4>1 DEF AppendedSession
    <3>2. pending'.id # 0 => pending.id # 0 \/ e \in Queued("ask")
      BY <1>7 DEF AppendedSession, None
    <3> QED
      BY <1>5, <1>6, <3>1, <3>2 DEF TurnsOpened
  <2>3. turn' # 0 => TurnOp(turn') \in Known'
    <3>1. CASE e[2] = "user"
      <4>1. TurnOp(e[3]) \in Known \/ \E f \in Opens : f[1] < e[1] /\ f[3] = TurnOp(e[3])
        BY <1>5, <1>7, <3>1 DEF TurnsOpened
      <4>2. TurnOp(e[3]) \in Known
        BY <1>1, <4>1 DEF Opens
      <4> QED
        BY <2>1, <3>1, <4>2 DEF AppendedSession
    <3>2. CASE e[2] # "user"
      BY <1>5, <2>1, <3>2 DEF TurnsOpened, AppendedSession
    <3> QED
      BY <3>1, <3>2
  <2>4. ASSUME NEW f \in Queued("user")'
        PROVE  TurnOp(f[3]) \in Known' \/ \E g \in Opens' : g[1] < f[1] /\ g[3] = TurnOp(f[3])
    <3>1. f \in Queued("user")
      BY <1>6, <2>4
    <3>2. TurnOp(f[3]) \in Known \/ \E g \in Opens : g[1] < f[1] /\ g[3] = TurnOp(f[3])
      BY <1>5, <3>1 DEF TurnsOpened
    <3>3. ASSUME NEW g \in Opens, g[1] < f[1], g[3] = TurnOp(f[3])
          PROVE  TurnOp(f[3]) \in Known' \/ \E h \in Opens' : h[1] < f[1] /\ h[3] = TurnOp(f[3])
      <4>1. g = e => TurnOp(f[3]) \in Known'
        BY <3>3 DEF AppendedOps, Opens
      <4>2. g # e => g \in Opens'
        BY <3>3 DEF AppendedOps
      <4> QED
        BY <3>3, <4>1, <4>2
    <3> QED
      BY <2>1, <3>2, <3>3
  <2>5. phase = "begin" /\ cur.input = "reply" =>
          cur.turn = turn' /\ (TurnOp(turn') \in closed' \/ <<"fault", turn'>> \in cut)
    <3>1. SUFFICES ASSUME phase = "begin", cur.input = "reply"
                   PROVE  cur.turn = turn' /\ (TurnOp(turn') \in closed' \/ <<"fault", turn'>> \in cut)
      OBVIOUS
    <3>2. cur.turn = turn /\ (TurnOp(turn) \in closed \/ <<"fault", turn>> \in cut)
      BY <1>5, <3>1 DEF TurnsOpened
    <3>3. e[2] # "user"
      <4>1. turn \in Nat
        BY Facts DEF CallsInv
      <4> QED
        BY <1>7, <3>2, <4>1
    <3> QED
      BY <2>1, <3>2, <3>3 DEF AppendedSession
  <2> QED
    BY <1>1, <1>5, <2>2, <2>3, <2>4, <2>5 DEF TurnsOpened
<1> QED
  BY <1>3, <1>4, <1>8 DEF Closing

(* The calls of a checkpoint are those of its reply's turn.                 *)
LEMMA SavedTurn ==
  ASSUME NEW p \in Checkpoint
  PROVE  \A c \in Saved(p) : c[1] = p.reply[1]
<1>1. p.reply \in Reply /\ p.ready \cup (p.at .. p.size) \in SUBSET Nat
  BY CheckpointFacts
<1> QED
  BY <1>1, ReplyCalls DEF Saved

LEMMA PendingTurn ==
  ASSUME CallsInv, pending.id # 0
  PROVE  pending.reply[1] <= turn
<1>1. pending \in Checkpoint /\ InOrder(pending)
  BY Facts DEF CallsInv, CallsKept, CheckpointsKept
<1>2. pending.at \in 1 .. pending.size /\ pending.reply \in Reply
  BY <1>1, CheckpointFacts DEF InOrder
<1>3. AskedCall(pending) \in planned
  BY <1>1, <1>2, AskedCallIn DEF InOrder
<1>4. AskedCall(pending)[1] = pending.reply[1]
  BY DEF AskedCall, CallOf
<1>5. turn \in Nat
  BY Facts DEF CallsInv
<1>6. \A c \in planned : c[1] < turn \/ c[1] = turn
  BY DEF CallsInv, CallsKept, PlansInOrder
<1>7. pending.reply[1] \in Nat
  BY <1>2 DEF Reply
<1> QED
  BY <1>3, <1>4, <1>5, <1>6, <1>7

LEMMA AppendAwaiting ==
  ASSUME OpsInv, NEW e, AppendedOps(e), AppendedSession(e)
  PROVE  Awaiting'
<1> USE DEF OpsInv, OpsKept
<1>1. /\ UNCHANGED <<phase, cur, cut, cancel>> /\ Driving' = Driving /\ Batch' = Batch /\ Left' = Left
      /\ Appended(e) /\ e \in outbox
  BY DEF AppendedOps, Appended, Driving, Batch, Left
<1>2. \A kind : /\ Queued(kind)' = Queued(kind) \ {e}
                /\ e \in Queued(kind) => e[2] = kind
  BY <1>1, AppendedDue DEF Queued
<1>3. \A kind \in {"user", "step", "plan", "result", "ask", "resolve"} :
        e[2] = kind => e \in Queued(kind)
  BY <1>1 DEF Queued, Due, Vitals, Vital
<1>4. Awaiting /\ CallsKept /\ IInv /\ Expected /\ CheckpointsKept
  BY DEF CallsInv, CallsKept
<1>5. CASE e[2] = "user"
  <2>1. phase = "begin" /\ turn' = cur.turn /\ turn < turn'
    BY <1>3, <1>4, <1>5 DEF Expected, CallsKept, TurnInOrder, AppendedSession
  <2>2. planned' = planned /\ pending' = pending
    BY <1>5 DEF AppendedSession
  <2>3. turn \in Nat /\ turn' \in Nat
    BY <1>4, <2>1, Facts
  <2>4. \A c \in planned : c[1] # turn'
    <3>1. \A c \in planned : c[1] \in Nat /\ (c[1] < turn \/ c[1] = turn)
      BY <1>4, Facts, CallFacts DEF CallsKept, PlansInOrder
    <3> QED
      BY <2>1, <2>3, <3>1
  <2>5. AskedBefore'
    <3>1. pending.id # 0 => pending.reply[1] <= turn /\ pending.reply[1] \in Nat
      <4>1. pending.id # 0 => pending.reply[1] <= turn
        BY PendingTurn
      <4>2. pending.id # 0 => pending.reply \in Reply
        BY <1>4, Facts, CheckpointFacts
      <4> QED
        BY <4>1, <4>2 DEF Reply
    <3>2. pending.id # 0 => pending.reply[1] # turn'
      BY <2>1, <2>3, <3>1
    <3> QED
      BY <2>2, <3>2 DEF AskedBefore
  <2>6. Queued("plan")' \subseteq Queued("plan") /\ (Queued("resolve")' # {} => Queued("resolve") # {})
    BY <1>2
  <2>7. Queued("resolve") # {} => phase = "tool_prepare"
    BY <1>4 DEF Expected
  <2> QED
    BY <1>1, <1>4, <2>1, <2>2, <2>4, <2>5, <2>6, <2>7 DEF Awaiting
<1>6. CASE e[2] # "user"
  <2>1. turn' = turn /\ Queued("user")' = Queued("user")
    BY <1>1, <1>6, AppendedDue DEF AppendedSession
  <2>2. ASSUME NEW c, c[1] = turn, Awaits(c)
        PROVE  Awaits(c)'
    <3>1. CASE c \in answered \/ CutShort(c[1])
      BY <1>1, <3>1 DEF Awaits, CutShort, AppendedSession
    <3>2. ASSUME NEW f \in Queued("result"), f[3] = c
          PROVE  Awaits(c)'
      <4>1. CASE f = e
        <5>1. e[2] = "result" /\ c \in answered'
          BY <1>2, <3>2, <4>1 DEF AppendedSession
        <5> QED
          BY <5>1 DEF Awaits
      <4>2. CASE f # e
        BY <1>2, <3>2, <4>2 DEF Awaits
      <4> QED
        BY <4>1, <4>2
    <3>3. CASE (phase = "tool_prepare" /\ c \in Left) \/ (phase = "tool_execute" /\ c \in Batch)
      BY <1>1, <3>3 DEF Awaits
    <3>4. CASE pending.id # 0 /\ c \in Saved(pending)
      <4>1. CASE e[2] = "ask"
        <5>1. pending.reply[1] # turn
          BY <1>3, <1>4, <3>4, <4>1 DEF Awaiting, AskedBefore
        <5>2. c[1] = pending.reply[1]
          BY <1>4, <3>4, Facts, SavedTurn
        <5> QED
          BY <2>2, <5>1, <5>2
      <4>2. CASE e[2] = "resolve"
        <5>1. phase = "tool_prepare" /\ Left = Saved(pending)
          BY <1>3, <1>4, <4>2 DEF Awaiting, Expected
        <5> QED
          BY <1>1, <3>4, <5>1 DEF Awaits
      <4>3. CASE e[2] \notin {"ask", "resolve"}
        <5>1. pending' = pending
          BY <4>3 DEF AppendedSession
        <5> QED
          BY <3>4, <5>1 DEF Awaits, Saved
      <4> QED
        BY <4>1, <4>2, <4>3
    <3>5. ASSUME NEW f \in Queued("ask"), c \in Saved(f[3])
          PROVE  Awaits(c)'
      <4>1. CASE f = e
        <5>1. e[2] = "ask" /\ pending' = e[3]
          BY <1>2, <3>5, <4>1 DEF AppendedSession
        <5>2. e[3].id # 0
          <6>1. e \in Event
            BY <1>1, <1>4, Facts
          <6>2. e[3] \in Checkpoint
            BY <5>1, <6>1, EventCases
          <6> QED
            BY <6>2, CheckpointFacts
        <5> QED
          BY <3>5, <4>1, <5>1, <5>2 DEF Awaits, Saved
      <4>2. CASE f # e
        BY <1>2, <3>5, <4>2 DEF Awaits, Saved
      <4> QED
        BY <4>1, <4>2
    <3> QED
      BY <2>2, <3>1, <3>2, <3>3, <3>4, <3>5 DEF Awaits
  <2>3. ASSUME NEW c \in planned', c[1] = turn'
        PROVE  Awaits(c)'
    <3>1. CASE c \in planned
      BY <1>4, <2>1, <2>2, <2>3, <3>1 DEF Awaiting
    <3>2. CASE e[2] = "plan" /\ c = e[3]
      <4>1. phase = "tool_prepare" /\ c \in Left
        BY <1>3, <1>4, <3>2 DEF Awaiting, Expected
      <4> QED
        BY <1>1, <4>1 DEF Awaits
    <3> QED
      BY <2>3, <3>1, <3>2 DEF AppendedSession
  <2>4. AskedBefore => AskedBefore' \/ e[2] = "ask"
    BY <2>1 DEF AskedBefore, AppendedSession, None
  <2>5. e[2] = "ask" => phase = "done" /\ Queued("ask")' = {}
    BY <1>2, <1>3, <1>4 DEF Expected
  <2>6. e[2] = "resolve" => AskedBefore' /\ Queued("resolve")' = {} /\ phase = "tool_prepare"
    <3>1. SUFFICES ASSUME e[2] = "resolve" PROVE AskedBefore' /\ Queued("resolve")' = {} /\ phase = "tool_prepare"
      OBVIOUS
    <3>2. phase = "tool_prepare" /\ \A f \in Queued("resolve") : f \in Due /\ f[2] = e[2] /\ f[3] = e[3]
      BY <1>3, <1>4, <3>1 DEF Expected, CheckpointsKept, Queued
    <3>3. e \in Due
      BY <1>3, <3>1 DEF Queued
    <3>4. \A f \in Queued("resolve") : f = e
      BY <1>4, <3>2, <3>3 DEF Expected
    <3> QED
      BY <1>2, <3>1, <3>2, <3>4 DEF AskedBefore, AppendedSession, None
  <2>7. Driving /\ Queued("resolve")' = {} => AskedBefore'
    <3>1. CASE e[2] = "resolve"
      BY <2>6, <3>1
    <3>2. CASE e[2] # "resolve"
      <4>1. Queued("resolve")' = Queued("resolve")
        BY <1>1, <3>2, AppendedDue
      <4> QED
        BY <1>4, <2>4, <2>5, <4>1 DEF Awaiting, Driving
    <3> QED
      BY <3>1, <3>2
  <2>8. Queued("ask")' # {} => AskedBefore'
    <3>1. Queued("ask")' # {} => Queued("ask") # {}
      BY <1>2
    <3> QED
      BY <1>4, <2>4, <2>5, <3>1 DEF Awaiting
  <2>9. phase = "begin" /\ cur.input # "reply" /\ Queued("user")' = {} => AskedBefore'
    BY <1>4, <2>1, <2>4, <2>5 DEF Awaiting
  <2>10. Queued("resolve")' # {} => Left = Saved(pending')
    <3>1. Queued("resolve")' # {} => Queued("resolve") # {} /\ phase = "tool_prepare"
      BY <1>2, <1>4 DEF Expected
    <3>2. Queued("resolve")' # {} => pending' = pending
      BY <2>5, <2>6, <3>1 DEF AppendedSession
    <3> QED
      BY <1>4, <3>1, <3>2 DEF Awaiting
  <2>11. Queued("plan")' \subseteq Queued("plan")
    BY <1>2
  <2> QED
    BY <1>1, <1>4, <2>3, <2>7, <2>8, <2>9, <2>10, <2>11 DEF Awaiting, Saved
<1> QED
  BY <1>5, <1>6

LEMMA AppendLeftOver ==
  ASSUME OpsInv, NEW e, AppendedOps(e), AppendedSession(e)
  PROVE  NothingLeftOver'
<1>1. UNCHANGED <<phase, cur>> /\ Appended(e) /\ e \in outbox
  BY DEF AppendedOps, Appended
<1>2. \A kind : Queued(kind)' = Queued(kind) \ {e}
  BY <1>1, AppendedDue
<1>3. NothingLeftOver /\ Expected
  BY DEF OpsInv, OpsKept, CallsInv, CallsKept
<1>4. ASSUME Queued("result")' \cup Queued("ask")' # {}
      PROVE  cur.turn = turn'
  <2>1. Queued("result") \cup Queued("ask") # {}
    BY <1>2, <1>4
  <2>2. e[2] = "user" => Queued("user") # {}
    BY <1>1 DEF Queued, Due, Vitals, Vital
  <2>3. e[2] # "user"
    BY <1>3, <2>1, <2>2 DEF Expected
  <2> QED
    BY <1>3, <2>1, <2>3 DEF NothingLeftOver, AppendedSession
<1> QED
  BY <1>1, <1>3, <1>4 DEF NothingLeftOver

LEMMA AppendOps ==
  ASSUME OpsInv, CallsInv', AppendEvent
  PROVE  OpsKept'
BY AppendedShape, AppendFresh, AppendInOrder, AppendSoFar, AppendBudget, AppendClosing,
   AppendAwaiting, AppendLeftOver DEF OpsKept

-----------------------------------------------------------------------------
(* Kernel steps.                                                            *)
Is(e, kind, o) == e[2] = kind /\ e[3] = o

(* The events a commit is made of.                                          *)
LEMMA OneEvent ==
  ASSUME NEW n, NEW kind, NEW o
  PROVE  /\ <<n, kind, o>>[1] = n /\ Is(<<n, kind, o>>, kind, o)
         /\ \A e \in {<<n, kind, o>>} : e[1] = n /\ Is(e, kind, o)
BY DEF Is

LEMMA StepStartedEvents ==
  ASSUME NEW t, NEW s
  PROVE  /\ \A e \in StepStarted(t, s) :
              \/ e[1] = 1 /\ Is(e, "step", <<t, s>>)
              \/ e[1] = 2 /\ Is(e, "open", StepOp(t, s))
         /\ \E e \in StepStarted(t, s) : e[1] = 1 /\ Is(e, "step", <<t, s>>)
         /\ \E e \in StepStarted(t, s) : e[1] = 2 /\ Is(e, "open", StepOp(t, s))
<1> DEFINE x == <<1, "step", <<t, s>>>>
           y == <<2, "open", StepOp(t, s)>>
<1>1. x[1] = 1 /\ Is(x, "step", <<t, s>>) /\ y[1] = 2 /\ Is(y, "open", StepOp(t, s))
  BY DEF Is
<1>2. StepStarted(t, s) = {x, y}
  BY DEF StepStarted
<1> HIDE DEF x, y
<1> QED
  BY <1>1, <1>2

LEMMA StepFinishedEvents ==
  ASSUME NEW n, NEW c
  PROVE  /\ \A e \in StepFinished(n, c) : e[1] = n /\ Is(e, "close", StepOp(c.turn, c.step))
         /\ \E e \in StepFinished(n, c) : Is(e, "close", StepOp(c.turn, c.step))
BY DEF StepFinished, Is

LEMMA TransitionEvents ==
  ASSUME NEW n \in Nat, NEW c, NEW m
  PROVE  /\ \A e \in Transition(n, c, m) :
              \/ e[1] = n /\ Is(e, "open", SaveOp(c.turn, c.step))
              \/ Is(e, "mode", m)
              \/ e[1] = n + 2 /\ Is(e, "close", SaveOp(c.turn, c.step))
              \/ e[1] = n + 3 /\ Is(e, "close", TurnOp(c.turn))
         /\ \A e, f \in Transition(n, c, m) : e[2] = "open" /\ f[2] = "open" => e = f
         /\ \E e \in Transition(n, c, m) : Is(e, "close", SaveOp(c.turn, c.step))
         /\ \E e \in Transition(n, c, m) : Is(e, "close", TurnOp(c.turn))
<1> DEFINE x == <<n, "open", SaveOp(c.turn, c.step)>>
           y == <<n + 1, "mode", m>>
           z == <<n + 2, "close", SaveOp(c.turn, c.step)>>
           w == <<n + 3, "close", TurnOp(c.turn)>>
<1>1. /\ x[1] = n /\ Is(x, "open", SaveOp(c.turn, c.step))
      /\ Is(y, "mode", m)
      /\ z[1] = n + 2 /\ Is(z, "close", SaveOp(c.turn, c.step))
      /\ w[1] = n + 3 /\ Is(w, "close", TurnOp(c.turn))
  BY DEF Is
<1>2. x[2] = "open" /\ y[2] # "open" /\ z[2] # "open" /\ w[2] # "open"
  OBVIOUS
<1>3. Transition(n, c, m) = {x, y, z, w}
  BY DEF Transition
<1> HIDE DEF x, y, z, w
<1> QED
  BY <1>1, <1>2, <1>3

(* The driver between two commits.                                          *)
LEMMA QuietOps ==
  ASSUME OpsInv, outbox = {}
  PROVE  /\ Opens = {} /\ Closes = {} /\ Coming = Known /\ Mentioned = Known
         /\ \A kind : Queued(kind) = {}
         /\ \A o \in Known : Stepped(o) => o[2] < turn \/ (o[2] = turn /\ o[3] <= steps)
         /\ Known \subseteq Op
         /\ \A o \in Known : o[1] = "provider" => o[3] <= SafetyLimit /\ o[4] <= o[3] + 1
         /\ Driving => /\ cur.turn = turn /\ steps = cur.step /\ cur.op \in Known
                       /\ Stepped(cur.op) /\ cur.op[1] \in EffectKind
                       /\ cur.op[2] = turn /\ cur.op[3] = steps
                       /\ AskedBefore
         /\ phase = "begin" => cur.turn = turn
         /\ phase \in Running => cur.turn # 0
<1>1. Opens = {} /\ Closes = {}
  BY DEF Opens, Closes
<1>2. Coming = Known /\ Mentioned = Known
  BY <1>1 DEF Coming, Mentioned
<1>3. Known \subseteq Op
  BY OpEventTypes DEF OpsInv, CallsInv
<1> QED
  BY <1>1, <1>2, <1>3, QuietFacts DEF OpsInv, OpsKept, OpsInOrder, BudgetKept, StepSoFar, Closing,
     TurnsOpened, Awaiting

(* What a kernel step leaves alone.                                         *)
LEMMA KernelOps ==
  ASSUME NEW p, NEW c, NEW E, KernelStep(p, c, E)
  PROVE  /\ phase' = p /\ cur' = c /\ outbox' = E
         /\ UNCHANGED <<open, closed, turn, steps, planned, answered, pending, asks, asked,
                        granted, ids, cancel, cut>>
         /\ Known' = Known
         /\ Opens' = {e \in E : e[2] = "open"} /\ Closes' = {e \in E : e[2] = "close"}
         /\ \A kind \in {"user", "step", "plan", "result", "ask", "resolve"} :
              Queued(kind)' = {e \in E : e[2] = kind}
<1>1. \A kind : Queued(kind)' = {e \in Vitals(E) : e[2] = kind}
  BY KernelFrame
<1>2. \A kind \in {"user", "step", "plan", "result", "ask", "resolve"} :
        Queued(kind)' = {e \in E : e[2] = kind}
  BY <1>1 DEF Vitals, Vital
<1> QED
  BY <1>2 DEF KernelStep, opsVars, foldVars, worldVars, Known, Opens, Closes

(* The events of an effect that is the last of the turn: what is open ends, *)
(* and what is in hand is answered, or saved with a question.               *)
Ending(A) ==
  /\ \A e \in A :
       \/ Is(e, "open", PendingOp(asks + 1)) /\ \E f \in A : f[1] < e[1] /\ f[2] = "ask" /\ f[3].id = asks + 1
       \/ Is(e, "close", cur.op)
       \/ e[2] = "close" /\ e[3][1] = "call"
       \/ e[2] \in {"result", "ask"}
  /\ \A e, f \in A : e[2] = "open" /\ f[2] = "open" => e = f
  /\ \E e \in A : Is(e, "close", cur.op)
  /\ phase = "tool_execute" => \A d \in Batch : \E e \in A : Is(e, "close", CallOp(d))
  /\ \A d \in planned :
       d[1] = turn /\ ((phase = "tool_prepare" /\ d \in Left) \/ (phase = "tool_execute" /\ d \in Batch)) =>
         \/ CutShort(d[1])
         \/ \E e \in A : Is(e, "result", d)
         \/ \E e \in A : e[2] = "ask" /\ d \in Saved(e[3])

(* The driver's turn ends: whatever it had open is closed.                  *)
LEMMA ToDoneOps ==
  ASSUME OpsInv, outbox = {}, Driving,
         NEW A, NEW q, NEW r \in Nat, NEW m, NEW c, NEW E,
         KernelStep("done", c, E), c.turn = cur.turn,
         E = A \cup StepFinished(q, cur) \cup Transition(r, cur, m),
         Ending(A)
  PROVE  OpsKept'
<1> DEFINE step == StepOp(cur.turn, cur.step)
           save == SaveOp(cur.turn, cur.step)
           done == TurnOp(cur.turn)
<1> USE DEF Ending
<1>1. /\ step[1] = "step" /\ step[2] = turn /\ step[3] = steps
      /\ save[1] = "save" /\ save[2] = turn /\ save[3] = steps
      /\ done[1] = "turn" /\ done[2] = cur.turn
      /\ PendingOp(asks + 1)[1] = "pending" /\ PendingOp(asks + 1)[2] = asks + 1
      /\ cur.turn = turn /\ turn # 0
  <2>1. cur.turn = turn /\ cur.step = steps /\ turn # 0
    BY QuietOps DEF Driving, Running
  <2>2. /\ step[1] = "step" /\ step[2] = cur.turn /\ step[3] = cur.step
        /\ save[1] = "save" /\ save[2] = cur.turn /\ save[3] = cur.step
        /\ done[1] = "turn" /\ done[2] = cur.turn
        /\ PendingOp(asks + 1)[1] = "pending" /\ PendingOp(asks + 1)[2] = asks + 1
    BY OpNames
  <2> QED
    BY <2>1, <2>2
<1>2. /\ phase' = "done" /\ cur' = c /\ outbox' = E /\ Known' = Known
      /\ UNCHANGED <<open, closed, turn, steps, planned, answered, pending, asks, cancel, cut>>
      /\ Opens' = {e \in E : e[2] = "open"} /\ Closes' = {e \in E : e[2] = "close"}
      /\ \A kind \in {"user", "step", "plan", "result", "ask", "resolve"} :
           Queued(kind)' = {e \in E : e[2] = kind}
  BY KernelOps
<1>3. turn \in Nat /\ steps \in Nat /\ asks \in Nat
  BY Facts DEF OpsInv, CallsInv
<1>4. \A o \in {step, save, cur.op} : Stepped(o) /\ o[2] = turn /\ o[3] = steps /\ o[1] # "turn" /\ o[1] # "pending"
  <2>1. cur.op[1] # "turn" /\ cur.op[1] # "pending"
    BY QuietOps DEF EffectKind
  <2> QED
    BY <1>1, <2>1, QuietOps, KindsStepped
<1> DEFINE Asked(e) == Is(e, "open", PendingOp(asks + 1)) /\ e \in A
           Opened(e) == Is(e, "open", save) /\ e \in Transition(r, cur, m) /\ e[1] = r
<1>5. \A e \in Opens' : Asked(e) \/ Opened(e)
  BY <1>2, StepFinishedEvents, TransitionEvents DEF Is
<1>6. \A e \in Closes' :
        \/ e[3] = cur.op \/ e[3] = step \/ e[3] = done \/ e[3][1] = "call"
        \/ e[3] = save /\ e[1] = r + 2
  BY <1>2, StepFinishedEvents, TransitionEvents DEF Is
<1>7. \A o \in {cur.op, step, save, done} : \E e \in Closes' : e[3] = o
  <2>1. \A o : (\E e \in A : Is(e, "close", o)) => \E e \in Closes' : e[3] = o
    BY <1>2 DEF Is
  <2>2. \A o : (\E e \in StepFinished(q, cur) : Is(e, "close", o)) => \E e \in Closes' : e[3] = o
    BY <1>2 DEF Is
  <2>3. \A o : (\E e \in Transition(r, cur, m) : Is(e, "close", o)) => \E e \in Closes' : e[3] = o
    BY <1>2 DEF Is
  <2> QED
    BY <2>1, <2>2, <2>3, StepFinishedEvents, TransitionEvents
<1> HIDE DEF step, save, done
<1>9. OpsFresh'
  <2>1. PendingOp(asks + 1) \notin Known
    <3>1. \A o \in Known : o[1] = "pending" => o[2] <= asks
      BY DEF OpsInv, OpsKept, OpsInOrder
    <3> QED
      BY <1>1, <1>3, <3>1
  <2>2. save \notin Known
    BY <1>1, <1>4, QuietOps DEF OpsInv, OpsKept, StepSoFar
  <2>3. OpIdsFresh'
    BY <1>2, <1>5, <2>1, <2>2 DEF OpIdsFresh, Is, Known
  <2>4. ASSUME NEW e \in Opens', NEW f \in Opens', e[3] = f[3]
        PROVE  e = f
    BY <1>1, <1>5, <2>4, TransitionEvents DEF Is
  <2>5. ASSUME NEW e \in Opens', NEW f \in Closes', e[3] = f[3]
        PROVE  e[1] < f[1]
    <3>1. e[3] = save /\ e[1] = r
      <4>1. f[3][1] # "pending"
        BY <1>1, <1>4, <1>6
      <4> QED
        BY <1>1, <1>5, <2>5, <4>1 DEF Is
    <3>2. f[1] = r + 2
      <4>1. f[3] # step /\ f[3] # done /\ f[3][1] # "call"
        BY <1>1, <2>5, <3>1
      <4>2. cur.op # save
        BY <1>1, QuietOps DEF EffectKind
      <4> QED
        BY <1>6, <2>5, <3>1, <4>1, <4>2
    <3> QED
      BY <3>1, <3>2
  <2> QED
    BY <2>3, <2>4, <2>5 DEF OpsFresh
<1>10. OpsInOrder'
  <2>1. ASSUME NEW e \in Opens' \cup Closes', Stepped(e[3])
        PROVE  e[3][2] = turn /\ e[3][3] <= steps
    <3>1. e[3] \in {step, save, cur.op} \/ e[3] = PendingOp(asks + 1) \/ e[3] = done \/ e[3][1] = "call"
      BY <1>5, <1>6 DEF Is
    <3>2. e[3] \in {step, save, cur.op}
      BY <1>1, <2>1, <3>1, KindsStepped
    <3> QED
      BY <1>3, <1>4, <3>2
  <2>2. ASSUME NEW e \in Opens' \cup Closes', e[3][1] = "pending"
        PROVE  \E f \in Queued("ask")' : f[1] < e[1] /\ e[3][2] = f[3].id
    <3>1. e \notin Closes'
      BY <1>1, <1>4, <1>6, <2>2
    <3>2. Asked(e)
      BY <1>1, <1>5, <2>2, <3>1 DEF Is
    <3>3. PICK f \in A : f[1] < e[1] /\ f[2] = "ask" /\ f[3].id = asks + 1
      BY <3>2 DEF Is
    <3>4. f \in Queued("ask")'
      BY <1>2, <3>3
    <3> QED
      BY <1>1, <3>2, <3>3, <3>4 DEF Is
  <2> QED
    BY <1>1, <1>2, <2>1, <2>2 DEF OpsInOrder, OpsInv, OpsKept
<1>11. StepSoFar'
  BY <1>2 DEF StepSoFar, Driving
<1>12. BudgetKept'
  <2>1. ASSUME NEW o \in Mentioned', o[1] = "provider"
        PROVE  o \in Known
    <3>1. o \in Known \/ (\E e \in Opens' \cup Closes' : o = e[3])
      BY <1>2 DEF Mentioned, Coming
    <3>2. ASSUME NEW e \in Opens' \cup Closes', o = e[3]
          PROVE  o \in Known
      <4>1. e[3] \in {step, save, cur.op} \/ e[3] = PendingOp(asks + 1) \/ e[3] = done \/ e[3][1] = "call"
        BY <1>5, <1>6 DEF Is
      <4>2. e[3] = cur.op
        BY <1>1, <2>1, <3>2, <4>1
      <4> QED
        BY <3>2, <4>2, QuietOps
    <3> QED
      BY <3>1, <3>2
  <2> QED
    BY <1>2, <2>1, QuietOps DEF BudgetKept
<1>13. Closing'
  <2>1. ASSUME NEW o \in open
        PROVE  Accounted(o)'
    <3>1. Accounted(o)
      BY DEF OpsInv, OpsKept, Closing
    <3>2. (\E e \in Closes' : e[3] = o) => Accounted(o)'
      BY DEF Accounted
    <3>3. CASE o[1] = "pending" \/ <<"fault", OpTurn(o)>> \in cut
      BY <1>2, <3>3 DEF Accounted
    <3>4. CASE o \in {cur.op, step, done}
      BY <1>7, <3>2, <3>4
    <3>5. CASE phase = "tool_execute" /\ \E d \in Batch : o = CallOp(d)
      <4>1. PICK d \in Batch : o = CallOp(d)
        BY <3>5
      <4>2. PICK e \in A : Is(e, "close", CallOp(d))
        BY <3>5
      <4>3. e \in Closes' /\ e[3] = o
        BY <1>2, <4>1, <4>2 DEF Is
      <4> QED
        BY <3>2, <4>3
    <3> QED
      BY <3>1, <3>3, <3>4, <3>5, QuietOps DEF Accounted, step, done
  <2>2. ASSUME NEW e \in Opens'
        PROVE  Accounted(e[3])'
    <3>1. CASE e[3] = PendingOp(asks + 1)
      BY <1>1, <3>1 DEF Accounted
    <3>2. CASE e[3] = save
      BY <1>7, <3>2 DEF Accounted
    <3> QED
      BY <1>5, <3>1, <3>2 DEF Is
  <2>3. \A e \in Closes' : e[3][1] = "turn" => e[3][2] = c.turn
    BY <1>1, <1>4, <1>6
  <2>4. Queued("user")' = {}
    <3>1. \A e \in E : e[2] # "user"
      BY StepFinishedEvents, TransitionEvents DEF Is
    <3> QED
      BY <1>2, <3>1
  <2>5. TurnsOpened'
    BY <1>1, <1>2, <2>4 DEF TurnsOpened, OpsInv, OpsKept, Closing
  <2> QED
    BY <1>2, <2>1, <2>2, <2>3, <2>5 DEF Closing
<1>14. Awaiting'
  <2>1. ASSUME NEW d \in planned, d[1] = turn
        PROVE  Awaits(d)'
    <3>1. Awaits(d)
      BY <2>1 DEF OpsInv, OpsKept, Awaiting
    <3>2. ~(pending.id # 0 /\ d \in Saved(pending))
      <4>1. AskedBefore
        BY QuietOps
      <4>2. pending.id # 0 => pending \in Checkpoint
        BY Facts DEF OpsInv, CallsInv
      <4> QED
        BY <2>1, <4>1, <4>2, SavedTurn DEF AskedBefore
    <3>3. \/ d \in answered \/ CutShort(d[1])
          \/ phase = "tool_prepare" /\ d \in Left
          \/ phase = "tool_execute" /\ d \in Batch
      BY <3>1, <3>2, QuietOps DEF Awaits
    <3>4. (d \in answered \/ CutShort(d[1])) => Awaits(d)'
      BY <1>2 DEF Awaits, CutShort
    <3>5. (\E e \in A : Is(e, "result", d)) => Awaits(d)'
      BY <1>2 DEF Awaits, Is
    <3>6. (\E e \in A : e[2] = "ask" /\ d \in Saved(e[3])) => Awaits(d)'
      BY <1>2 DEF Awaits, Saved
    <3> QED
      BY <2>1, <3>3, <3>4, <3>5, <3>6
  <2>2. Queued("plan")' = {} /\ Queued("resolve")' = {}
    <3>1. \A e \in E : e[2] # "plan" /\ e[2] # "resolve"
      BY StepFinishedEvents, TransitionEvents DEF Is
    <3> QED
      BY <1>2, <3>1
  <2>3. AskedBefore' 
    BY <1>2, QuietOps DEF AskedBefore
  <2>4. cancel => <<"cancel", cur.turn>> \in cut
    BY DEF OpsInv, OpsKept, Awaiting, Driving, Running
  <2> QED
    BY <1>2, <2>1, <2>2, <2>3, <2>4 DEF Awaiting
<1>15. NothingLeftOver'
  BY <1>1, <1>2 DEF NothingLeftOver
<1> QED
  BY <1>9, <1>10, <1>11, <1>12, <1>13, <1>14, <1>15 DEF OpsKept

(* The driver goes on within its step: one effect ends, the next begins.    *)
LEMMA SameStepOps ==
  ASSUME OpsInv, outbox = {}, Driving, phase # "tool_execute",
         NEW p \in {"context", "provider", "tool_prepare", "tool_execute"},
         NEW c, c.attempt \in Nat, NEW E, NEW o, KernelStep(p, c, E),
         c.turn = cur.turn, c.step = cur.step, c.op = o,
         o[1] \in EffectKind, o[2] = turn, o[3] = steps, o \notin Known,
         \A e \in E :
           \/ Is(e, "open", o)
           \/ e[2] = "open" /\ p = "tool_execute" /\ \E d \in Batch' : e[3] = CallOp(d) /\ CallOp(d) \notin Known
           \/ Is(e, "close", cur.op)
           \/ e[2] \in {"plan", "result", "mode"},
         \A e, f \in E : e[2] = "open" /\ f[2] = "open" /\ e[3] = f[3] => e = f,
         \E e \in E : Is(e, "open", o), \E e \in E : Is(e, "close", cur.op),
         cur.attempt <= c.attempt, cur.compacted => c.compacted,
         p \in {"context", "provider"} => phase \in {"context", "provider"},
         o[1] = "provider" => o[4] <= c.attempt /\ o[3] <= SafetyLimit /\ o[4] <= o[3] + 1,
         o[1] = "context-compact" => c.compacted,
         o[1] = "tool-prepare" => p = "tool_prepare",
         o[1] = "tools" => p = "tool_execute",
         p = "context" => c.attempt + 1 <= c.step + Compactions',
         p # "context" => c.attempt <= c.step + Compactions',
         \A d \in planned :
           d[1] = turn /\ phase = "tool_prepare" /\ d \in Left =>
             (\E e \in E : Is(e, "result", d)) \/ (p = "tool_execute" /\ d \in Batch'),
         \A e \in E : e[2] = "plan" => e[3] \in Left'
  PROVE  OpsKept'
<1>1. /\ phase' = p /\ cur' = c /\ outbox' = E /\ Known' = Known
      /\ UNCHANGED <<open, closed, turn, steps, planned, answered, pending, asks, cancel, cut>>
      /\ Opens' = {e \in E : e[2] = "open"} /\ Closes' = {e \in E : e[2] = "close"}
      /\ \A kind \in {"user", "step", "plan", "result", "ask", "resolve"} :
           Queued(kind)' = {e \in E : e[2] = kind}
  BY KernelOps
<1>2. /\ turn \in Nat /\ steps \in Nat /\ asks \in Nat /\ cur.attempt \in Nat
      /\ c.attempt \in Nat /\ c.step \in Nat
  BY Facts DEF OpsInv, CallsInv
<1>3. /\ cur.turn = turn /\ cur.step = steps /\ cur.op \in Known /\ turn # 0
      /\ cur.op[1] \in EffectKind /\ Stepped(cur.op) /\ cur.op[2] = turn /\ cur.op[3] = steps
      /\ AskedBefore
  BY QuietOps DEF Driving, Running
<1>4. \A e \in Opens' : e[3] = o \/ (p = "tool_execute" /\ \E d \in Batch' : e[3] = CallOp(d) /\ CallOp(d) \notin Known)
  BY <1>1 DEF Is
<1>5. \A e \in Closes' : e[3] = cur.op
  BY <1>1 DEF Is
<1>6. \E e \in Closes' : e[3] = cur.op
  BY <1>1 DEF Is
<1>7. /\ Queued("user")' = {} /\ Queued("step")' = {} /\ Queued("ask")' = {} /\ Queued("resolve")' = {}
  <2>1. \A e \in E : e[2] \notin {"user", "step", "ask", "resolve"}
    BY DEF Is
  <2> QED
    BY <1>1, <2>1
<1>8. /\ \A d : ~Stepped(CallOp(d)) /\ CallOp(d)[1] = "call"
      /\ o[1] \notin {"turn", "pending", "call", "step", "save"}
      /\ cur.op[1] \notin {"turn", "pending", "call", "step", "save"}
      /\ Stepped(o)
  <2>1. \A d : CallOp(d)[1] = "call"
    BY OpNames
  <2> QED
    BY <1>3, <2>1 DEF Stepped, EffectKind
<1>9. OpsFresh'
  <2>1. \A e \in Opens' : e[3] \notin Known
    BY <1>4
  <2>2. \A e, f \in Opens' : e[3] = f[3] => e = f
    BY <1>1
  <2>3. \A e \in Opens', f \in Closes' : e[3] # f[3]
    BY <1>3, <1>5, <2>1
  <2> QED
    BY <1>1, <2>1, <2>2, <2>3 DEF OpsFresh, OpIdsFresh, Known
<1>10. OpsInOrder'
  <2>1. ASSUME NEW e \in Opens' \cup Closes', Stepped(e[3])
        PROVE  e[3] = o \/ e[3] = cur.op
    BY <1>4, <1>5, <1>8, <2>1
  <2>2. ASSUME NEW e \in Opens' \cup Closes'
        PROVE  e[3][1] # "pending"
    BY <1>4, <1>5, <1>8, <2>2
  <2>3. steps <= steps
    BY <1>2
  <2> QED
    BY <1>1, <1>3, <2>1, <2>2, <2>3 DEF OpsInOrder, OpsInv, OpsKept
<1>11. Mentioned' \subseteq Known \cup {o} \cup {x \in {CallOp(d) : d \in Batch'} : p = "tool_execute"}
  BY <1>1, <1>3, <1>4, <1>5 DEF Mentioned, Coming
<1>12. StepSoFar'
  <2>1. o \in Coming'
    <3>1. \E e \in Opens' : e[3] = o
      BY <1>1 DEF Is
    <3> QED
      BY <3>1 DEF Coming
  <2>2. ASSUME NEW x \in Known, Stepped(x), x[2] = turn, x[3] = c.step
        PROVE  /\ x[1] = "provider" => x[4] <= c.attempt
               /\ x[1] = "context-compact" => c.compacted
               /\ x[1] = "tool-prepare" => p \in {"tool_prepare", "tool_execute"}
               /\ x[1] = "tools" => p = "tool_execute"
               /\ x[1] # "save"
    <3>1. /\ x[1] = "provider" => x[4] <= cur.attempt
          /\ x[1] = "context-compact" => cur.compacted
          /\ x[1] = "tool-prepare" => phase \in {"tool_prepare", "tool_execute"}
          /\ x[1] # "tools"
          /\ x[1] # "save"
      BY <2>2, QuietOps DEF OpsInv, OpsKept, StepSoFar
    <3>2. x[1] = "provider" => x[4] \in Nat
      BY QuietOps, OpShape DEF EffectKind
    <3>3. x[1] = "provider" => x[4] <= c.attempt
      BY <1>2, <3>1, <3>2
    <3> QED
      BY <3>1, <3>3 DEF Driving
  <2>3. ASSUME NEW x \in Mentioned', Stepped(x)
        PROVE  x \in Known \cup {o}
    BY <1>8, <1>11, <2>3
  <2>4. /\ o[1] = "provider" => o[4] <= c.attempt
        /\ o[1] = "context-compact" => c.compacted
        /\ o[1] = "tool-prepare" => p \in {"tool_prepare", "tool_execute"}
        /\ o[1] = "tools" => p = "tool_execute"
        /\ o[1] # "save"
    BY <1>8
  <2>5. \A x \in Mentioned' :
          Stepped(x) /\ x[2] = turn' /\ x[3] = cur'.step =>
            /\ x[1] = "provider" => x[4] <= cur'.attempt
            /\ x[1] = "context-compact" => cur'.compacted
            /\ x[1] = "tool-prepare" => phase' \in {"tool_prepare", "tool_execute"}
            /\ x[1] = "tools" => phase' = "tool_execute"
            /\ x[1] # "save"
    BY <1>1, <2>2, <2>3, <2>4
  <2>6. Stepped(o) /\ o[2] = c.turn /\ o[3] = c.step
    BY <1>3, <1>8
  <2> QED
    BY <1>1, <2>1, <2>5, <2>6 DEF StepSoFar
<1>13. BudgetKept'
  <2>1. \A x \in Mentioned' : x[1] = "provider" => x[3] <= SafetyLimit /\ x[4] <= x[3] + 1
    <3>1. \A x \in Mentioned' : x[1] = "provider" => x \in Known \/ x = o
      BY <1>8, <1>11
    <3> QED
      BY <3>1, QuietOps
  <2>2. p \in {"context", "provider"} => c.step <= SafetyLimit
    BY DEF OpsInv, OpsKept, BudgetKept
  <2> QED
    BY <1>1, <2>1, <2>2 DEF BudgetKept
<1>14. Closing'
  <2>1. ASSUME NEW x \in open
        PROVE  Accounted(x)'
    <3>1. Accounted(x)
      BY DEF OpsInv, OpsKept, Closing
    <3>2. CASE x[1] = "pending" \/ <<"fault", OpTurn(x)>> \in cut
      BY <1>1, <3>2 DEF Accounted
    <3>3. CASE x = cur.op
      BY <1>6, <3>3 DEF Accounted
    <3>4. CASE x = TurnOp(cur.turn)
      BY <1>1, <3>4 DEF Accounted
    <3>5. CASE x = StepOp(cur.turn, cur.step)
      BY <1>1, <3>5 DEF Accounted, Driving
    <3> QED
      BY <3>1, <3>2, <3>3, <3>4, <3>5, QuietOps DEF Accounted
  <2>2. ASSUME NEW e \in Opens'
        PROVE  Accounted(e[3])'
    BY <1>1, <1>4, <2>2 DEF Accounted, Driving
  <2>3. \A e \in Closes' : e[3][1] # "turn"
    BY <1>5, <1>8
  <2>4. TurnsOpened'
    BY <1>1, <1>3, <1>7 DEF TurnsOpened, OpsInv, OpsKept, Closing
  <2> QED
    BY <1>1, <2>1, <2>2, <2>3, <2>4 DEF Closing
<1>15. Awaiting'
  <2>1. ASSUME NEW d \in planned, d[1] = turn
        PROVE  Awaits(d)'
    <3>1. Awaits(d)
      BY <2>1 DEF OpsInv, OpsKept, Awaiting
    <3>2. ~(pending.id # 0 /\ d \in Saved(pending))
      <4>1. pending.id # 0 => pending \in Checkpoint
        BY Facts DEF OpsInv, CallsInv
      <4> QED
        BY <1>3, <2>1, <4>1, SavedTurn DEF AskedBefore
    <3>3. d \in answered \/ CutShort(d[1]) \/ (phase = "tool_prepare" /\ d \in Left)
      BY <3>1, <3>2, QuietOps DEF Awaits
    <3>4. (d \in answered \/ CutShort(d[1])) => Awaits(d)'
      BY <1>1 DEF Awaits, CutShort
    <3>5. (\E e \in E : Is(e, "result", d)) => Awaits(d)'
      BY <1>1 DEF Awaits, Is
    <3>6. p = "tool_execute" /\ d \in Batch' => Awaits(d)'
      BY <1>1 DEF Awaits
    <3> QED
      BY <2>1, <3>3, <3>4, <3>5, <3>6
  <2>2. AskedBefore'
    BY <1>1, <1>3 DEF AskedBefore
  <2>3. cancel => <<"cancel", cur.turn>> \in cut
    BY DEF OpsInv, OpsKept, Awaiting, Driving, Running
  <2>4. \A e \in Queued("plan")' : e[3] \in Left'
    BY <1>1
  <2> QED
    BY <1>1, <1>7, <2>1, <2>2, <2>3, <2>4 DEF Awaiting
<1>16. NothingLeftOver'
  BY <1>1, <1>3 DEF NothingLeftOver
<1> QED
  BY <1>9, <1>10, <1>12, <1>13, <1>14, <1>15, <1>16 DEF OpsKept

(* An end that a step after this one may still have to record.              *)
Owed(x) ==
  /\ x[1] # "turn"
  /\ Stepped(x) => x[2] = turn /\ x[3] <= steps
  /\ x[1] = "pending" => x[2] <= asks
  /\ x[1] = "provider" => x \in Known

(* A step that is not on record has no operation yet.                       *)
LEMMA NewStepFresh ==
  ASSUME OpsInv, outbox = {}, NEW x, Stepped(x), x[2] = turn, x[3] \in Nat, steps < x[3]
  PROVE  x \notin Known /\ ~Owed(x)
<1>1. turn \in Nat /\ steps \in Nat
  BY Facts DEF OpsInv, CallsInv
<1>2. ~(turn < turn) /\ ~(x[3] <= steps)
  BY <1>1
<1> QED
  BY <1>2, QuietOps DEF Owed

(* The driver goes on in a step of its own.                                 *)
LEMMA NewStepOps ==
  ASSUME OpsInv, outbox = {}, phase = "begin" \/ Driving,
         NEW p \in {"context", "tool_prepare"}, NEW c, NEW E, NEW o, NEW s \in Nat, NEW n,
         KernelStep(p, c, E), steps < s, c.turn = cur.turn, c.step = s, c.op = o,
         o[1] \in {"context", "tool-prepare"}, o[2] = turn, o[3] = s,
         o[1] = "tool-prepare" => p = "tool_prepare",
         \E e \in E : e[1] = n /\ Is(e, "step", <<turn, s>>),
         \A e \in E :
           \/ Is(e, "step", <<turn, s>>)
           \/ n < e[1] /\ (Is(e, "open", StepOp(turn, s)) \/ Is(e, "open", o))
           \/ e[2] = "close" /\ Owed(e[3])
           \/ e[2] \in {"plan", "result", "resolve"},
         \A e, f \in E : e[2] = "open" /\ f[2] = "open" /\ e[3] = f[3] => e = f,
         \E e \in E : Is(e, "open", o),
         \A x \in open : \/ x[1] = "pending" \/ <<"fault", OpTurn(x)>> \in cut \/ x = TurnOp(turn)
                         \/ \E e \in E : Is(e, "close", x),
         c.attempt <= s + Compactions',
         p = "context" => c.attempt + 1 <= s + Compactions' /\ s <= SafetyLimit,
         \A d \in planned :
           d[1] = turn /\ ((phase = "tool_prepare" /\ d \in Left) \/ (phase = "tool_execute" /\ d \in Batch)) =>
             CutShort(d[1]) \/ \E e \in E : Is(e, "result", d),
         \A e \in E : e[2] = "plan" => e[3] \in Left',
         (\A e \in E : e[2] # "resolve") => AskedBefore,
         (\E e \in E : e[2] = "resolve") => Left' = Saved(pending)
  PROVE  OpsKept'
<1>1. /\ phase' = p /\ cur' = c /\ outbox' = E /\ Known' = Known
      /\ UNCHANGED <<open, closed, turn, steps, planned, answered, pending, asks, cancel, cut>>
      /\ Opens' = {e \in E : e[2] = "open"} /\ Closes' = {e \in E : e[2] = "close"}
      /\ \A kind \in {"user", "step", "plan", "result", "ask", "resolve"} :
           Queued(kind)' = {e \in E : e[2] = kind}
  BY KernelOps
<1>2. turn \in Nat /\ steps \in Nat /\ asks \in Nat /\ phase \in Running /\ cur.turn = turn /\ turn # 0
  <2>1. phase \in Running
    BY DEF Driving, Running
  <2> QED
    BY <2>1, Facts, QuietOps DEF OpsInv, CallsInv
<1> DEFINE step == StepOp(turn, s)
<1>3. step[1] = "step" /\ step[2] = turn /\ step[3] = s
  BY OpNames
<1>4. /\ Stepped(step) /\ Stepped(o) /\ step \notin Known /\ o \notin Known /\ ~Owed(step) /\ ~Owed(o)
      /\ step[1] \notin EffectKind /\ o[1] \in EffectKind
      /\ \A x \in {step, o} : x[1] \notin {"turn", "pending", "call", "save", "provider", "context-compact", "tools"}
  <2>1. Stepped(step) /\ Stepped(o) /\ step[1] \notin EffectKind /\ o[1] \in EffectKind
    BY <1>3 DEF Stepped, EffectKind
  <2> HIDE DEF step
  <2>2. step \notin Known /\ ~Owed(step)
    BY <1>3, <2>1, NewStepFresh
  <2>3. o \notin Known /\ ~Owed(o)
    BY <2>1, NewStepFresh
  <2> QED
    BY <1>3, <2>1, <2>2, <2>3
<1> HIDE DEF step
<1>5. \A e \in Opens' : e[3] \in {step, o} /\ n < e[1]
  BY <1>1 DEF Is, step
<1>6. \A e \in Closes' : Owed(e[3])
  BY <1>1 DEF Is
<1>7. Queued("user")' = {} /\ Queued("ask")' = {}
  <2>1. \A e \in E : e[2] # "user" /\ e[2] # "ask"
    BY DEF Is
  <2> QED
    BY <1>1, <2>1
<1>8. OpsFresh'
  <2>1. \A e \in Opens' : e[3] \notin Known
    BY <1>4, <1>5
  <2>2. \A e, f \in Opens' : e[3] = f[3] => e = f
    BY <1>1
  <2>3. \A e \in Opens', f \in Closes' : e[3] # f[3]
    BY <1>4, <1>5, <1>6
  <2> QED
    BY <1>1, <2>1, <2>2, <2>3 DEF OpsFresh, OpIdsFresh, Known
<1>9. OpsInOrder'
  <2>1. PICK f \in E : f[1] = n /\ Is(f, "step", <<turn, s>>)
    OBVIOUS
  <2>2. f \in Queued("step")'
    BY <1>1, <2>1 DEF Is
  <2>3. ASSUME NEW e \in Opens'
        PROVE  e[3][2] = turn /\ e[3][3] = s /\ f[1] < e[1] /\ e[3][1] # "pending"
    BY <1>3, <1>4, <1>5, <2>1
  <2>4. s <= c.step
    OBVIOUS
  <2>5. ASSUME NEW e \in Opens' \cup Closes', Stepped(e[3])
        PROVE  e[3][2] = turn /\ (e[3][3] <= steps \/ \E g \in Queued("step")' : g[1] < e[1] /\ e[3][3] <= c.step)
    <3>1. CASE e \in Opens'
      BY <2>2, <2>3, <2>4, <3>1
    <3>2. CASE e \in Closes'
      BY <1>6, <2>5, <3>2 DEF Owed
    <3> QED
      BY <3>1, <3>2
  <2>6. ASSUME NEW e \in Opens' \cup Closes', e[3][1] = "pending"
        PROVE  e[3][2] <= asks
    BY <1>6, <2>3, <2>6 DEF Owed
  <2> QED
    BY <1>1, <1>2, <2>5, <2>6 DEF OpsInOrder, OpsInv, OpsKept
<1>10. Mentioned' = Known \cup {e[3] : e \in Opens'} \cup {e[3] : e \in Closes'}
  BY <1>1 DEF Mentioned, Coming
<1>11. StepSoFar'
  <2>1. o \in Coming'
    <3>1. \E e \in Opens' : e[3] = o
      BY <1>1 DEF Is
    <3> QED
      BY <3>1 DEF Coming
  <2>2. ASSUME NEW x \in Mentioned', Stepped(x), x[2] = turn, x[3] = s
        PROVE  x \in {step, o}
    <3>1. x \notin Known /\ ~Owed(x)
      BY <2>2, NewStepFresh
    <3> QED
      BY <1>5, <1>6, <1>10, <3>1
  <2>3. \A x \in Mentioned' :
          Stepped(x) /\ x[2] = turn' /\ x[3] = cur'.step =>
            /\ x[1] = "provider" => x[4] <= cur'.attempt
            /\ x[1] = "context-compact" => cur'.compacted
            /\ x[1] = "tool-prepare" => phase' \in {"tool_prepare", "tool_execute"}
            /\ x[1] = "tools" => phase' = "tool_execute"
            /\ x[1] # "save"
    BY <1>1, <1>3, <1>4, <2>2
  <2> QED
    BY <1>1, <1>2, <1>4, <2>1, <2>3 DEF StepSoFar
<1>12. BudgetKept'
  <2>1. \A x \in Mentioned' : x[1] = "provider" => x \in Known
    BY <1>4, <1>5, <1>6, <1>10 DEF Owed
  <2> QED
    BY <1>1, <2>1, QuietOps DEF BudgetKept
<1>13. Closing'
  <2>1. ASSUME NEW x \in open
        PROVE  Accounted(x)'
    <3>1. CASE x[1] = "pending" \/ <<"fault", OpTurn(x)>> \in cut
      BY <1>1, <3>1 DEF Accounted
    <3>2. CASE x = TurnOp(turn)
      BY <1>1, <1>2, <3>2 DEF Accounted
    <3>3. CASE \E e \in E : Is(e, "close", x)
      BY <1>1, <3>3 DEF Accounted, Is
    <3> QED
      BY <3>1, <3>2, <3>3
  <2>2. ASSUME NEW e \in Opens'
        PROVE  Accounted(e[3])'
    BY <1>1, <1>2, <1>5, <2>2 DEF Accounted, Driving, step
  <2>3. \A e \in Closes' : e[3][1] # "turn"
    BY <1>6 DEF Owed
  <2>4. TurnsOpened'
    BY <1>1, <1>2, <1>7 DEF TurnsOpened, OpsInv, OpsKept, Closing
  <2> QED
    BY <1>1, <2>1, <2>2, <2>3, <2>4 DEF Closing
<1>14. Awaiting'
  <2>1. ASSUME NEW d \in planned, d[1] = turn
        PROVE  Awaits(d)'
    <3>1. Awaits(d)
      BY <2>1 DEF OpsInv, OpsKept, Awaiting
    <3>2. CASE d \in answered \/ CutShort(d[1]) \/ (pending.id # 0 /\ d \in Saved(pending))
      BY <1>1, <3>2 DEF Awaits, CutShort, Saved
    <3>3. CASE \E e \in E : Is(e, "result", d)
      BY <1>1, <3>3 DEF Awaits, Is
    <3> QED
      BY <2>1, <3>1, <3>2, <3>3, QuietOps DEF Awaits
  <2>2. Queued("resolve")' = {} => AskedBefore'
    BY <1>1 DEF AskedBefore
  <2>3. Queued("resolve")' # {} => Left' = Saved(pending)'
    BY <1>1 DEF Saved
  <2>4. cancel => <<"cancel", turn>> \in cut
    BY <1>2 DEF OpsInv, OpsKept, Awaiting
  <2>5. \A e \in Queued("plan")' : e[3] \in Left'
    BY <1>1
  <2> QED
    BY <1>1, <1>2, <1>7, <2>1, <2>2, <2>3, <2>4, <2>5 DEF Awaiting
<1>15. NothingLeftOver'
  BY <1>1, <1>2 DEF NothingLeftOver
<1> QED
  BY <1>8, <1>9, <1>11, <1>12, <1>13, <1>14, <1>15 DEF OpsKept

(* The first step of a transaction.                                         *)
LEMMA BeginFacts ==
  ASSUME OpsInv, outbox = {}, phase = "begin"
  PROVE  /\ cur.turn = turn /\ turn # 0 /\ cur \in Cursor /\ turn \in Nat
         /\ cur.attempt = 0 /\ ~cur.compacted
         /\ cur.input # "reply" => steps = 0 /\ AskedBefore
         /\ \A x \in open : x[1] = "pending" \/ <<"fault", OpTurn(x)>> \in cut \/ x = TurnOp(turn)
         /\ NextStep \in Nat /\ steps \in Nat /\ steps < NextStep /\ NextStep = steps + 1
<1>1. /\ cur.turn = turn /\ turn # 0 /\ Closes = {} /\ Queued("user") = {}
  BY QuietOps DEF Running
<1>2. cur \in Cursor /\ turn \in Nat /\ steps \in Nat
  BY Facts DEF OpsInv, CallsInv
<1>3. \A x \in open : Accounted(x)
  BY DEF OpsInv, OpsKept, Closing
<1>4. \A x \in open : x[1] = "pending" \/ <<"fault", OpTurn(x)>> \in cut \/ x = TurnOp(turn)
  BY <1>1, <1>3 DEF Accounted, Driving
<1>5. cur.attempt = 0 /\ ~cur.compacted /\ (cur.input # "reply" => steps = 0 /\ AskedBefore)
  BY <1>1 DEF OpsInv, OpsKept, BudgetKept, Awaiting
<1> QED
  BY <1>1, <1>2, <1>4, <1>5 DEF NextStep

LEMMA StartOps ==
  ASSUME OpsInv, Start
  PROVE  OpsKept'
<1> DEFINE s == NextStep
           o == EffectOp("context", cur.turn, s, 0)
           c == [cur EXCEPT !.step = s, !.op = o]
           x == <<3, "open", o>>
           E == StepStarted(cur.turn, s) \cup {<<3, "open", o>>}
<1>1. KernelStep("context", c, E) /\ phase = "begin" /\ outbox = {} /\ cur.input # "reply"
  BY DEF Start, Loop
<1>2. /\ cur.turn = turn /\ cur \in Cursor /\ cur.attempt = 0 /\ steps = 0 /\ AskedBefore
      /\ s \in Nat /\ steps < s /\ turn \in Nat
  BY <1>1, BeginFacts
<1>3. o[1] = "context" /\ o[2] = turn /\ o[3] = s /\ o \in Op
  BY <1>2, OpNames, OpTypes DEF EffectKind
<1>4. c \in Cursor /\ c.turn = cur.turn /\ c.step = s /\ c.op = o /\ c.attempt = 0
  BY <1>2, <1>3 DEF Cursor
<1>5. x[1] = 3 /\ Is(x, "open", o)
  BY OneEvent
<1>6. Compactions' \in Nat
  BY DEF Compactions
<1>7. s = 1 /\ s <= SafetyLimit
  <2>1. s = 1
    BY <1>2 DEF NextStep
  <2> QED
    BY <2>1, AgentTurnAssumption
<1>8. E = StepStarted(cur.turn, s) \cup {x}
  OBVIOUS
<1>9. o # StepOp(turn, s)
  BY <1>3, OpNames
<1> HIDE DEF s, o, c, x, E
<1>10. \A e \in E : \/ e[1] = 1 /\ Is(e, "step", <<turn, s>>)
                    \/ e[1] = 2 /\ Is(e, "open", StepOp(turn, s)) /\ e \in StepStarted(turn, s)
                    \/ e = x
  BY <1>2, <1>8, StepStartedEvents
<1>11. \E e \in E : e[1] = 1 /\ Is(e, "step", <<turn, s>>)
  BY <1>2, <1>8, StepStartedEvents
<1>12. \A e, f \in StepStarted(turn, s) : e[2] = f[2] => e = f
  BY DEF StepStarted
<1>13. \A e, f \in E : e[2] = "open" /\ f[2] = "open" /\ e[3] = f[3] => e = f
  BY <1>5, <1>9, <1>10, <1>12 DEF Is
<1>14. \A e \in E : e[2] # "resolve" /\ e[2] # "plan"
  BY <1>5, <1>10 DEF Is
<1>15. \A e \in E : \/ Is(e, "step", <<turn, s>>)
                    \/ 1 < e[1] /\ (Is(e, "open", StepOp(turn, s)) \/ Is(e, "open", o))
  BY <1>5, <1>10
<1>16. \A y \in open : y[1] = "pending" \/ <<"fault", OpTurn(y)>> \in cut \/ y = TurnOp(turn)
  BY <1>1, BeginFacts
<1>17. c.attempt <= s + Compactions' /\ c.attempt + 1 <= s + Compactions'
  <2>1. \A k \in Nat : 0 <= s + k /\ 0 + 1 <= s + k
    BY <1>7
  <2> QED
    BY <1>4, <1>6, <2>1
<1>18. \E e \in E : Is(e, "open", o)
  BY <1>5, <1>8
<1> QED
  BY <1>1, <1>2, <1>3, <1>4, <1>7, <1>11, <1>13, <1>14, <1>15, <1>16, <1>17, <1>18, NewStepOps

LEMMA CommandOps ==
  ASSUME OpsInv, CommandTool
  PROVE  OpsKept'
<1> DEFINE s == NextStep
           o == EffectOp("tool-prepare", cur.turn, s, 0)
           r == <<cur.turn, s, 0>>
           c == [cur EXCEPT !.step = s, !.op = o, !.reply = r, !.size = 1, !.then = "complete"]
           x == <<4, "open", o>>
           y == <<3, "plan", CallOf(r, 1)>>
           E == StepStarted(cur.turn, s) \cup {<<3, "plan", CallOf(r, 1)>>, <<4, "open", o>>}
<1>1. KernelStep("tool_prepare", c, E) /\ phase = "begin" /\ outbox = {} /\ cur.input # "reply"
  BY DEF CommandTool, Loop
<1>2. /\ cur.turn = turn /\ cur \in Cursor /\ cur.attempt = 0 /\ AskedBefore
      /\ s \in Nat /\ steps < s /\ turn \in Nat
  BY <1>1, BeginFacts
<1>3. o[1] = "tool-prepare" /\ o[2] = turn /\ o[3] = s /\ o \in Op
  BY <1>2, OpNames, OpTypes DEF EffectKind
<1>4. c \in Cursor /\ c.turn = cur.turn /\ c.step = s /\ c.op = o /\ c.attempt = 0
  <2>1. r \in Reply
    BY <1>2 DEF Reply
  <2> QED
    BY <1>2, <1>3, <2>1 DEF Cursor
<1>5. x[1] = 4 /\ Is(x, "open", o) /\ y[1] = 3 /\ Is(y, "plan", CallOf(r, 1))
  BY OneEvent
<1>6. Compactions' \in Nat
  BY DEF Compactions
<1>7. CallOf(r, 1) \in Left'
  <2>1. c.reply = r /\ c.size = 1 /\ c.from = cur.from /\ c.ready = cur.ready
    BY <1>2 DEF Cursor
  <2>2. cur' = c
    BY <1>1 DEF KernelStep
  <2>3. cur.from = 1
    BY <1>1 DEF OpsInv, OpsKept, Awaiting
  <2> HIDE DEF c, r
  <2>4. 1 \in c.ready \cup (c.from .. c.size)
    <3>1. 1 \in 1 .. 1 /\ c.from = 1 /\ c.size = 1
      BY <2>1, <2>3
    <3> QED
      BY <3>1
  <2> QED
    BY <2>1, <2>2, <2>4, CallOfIn DEF Left
<1>8. E = StepStarted(cur.turn, s) \cup {y, x}
  OBVIOUS
<1>9. o # StepOp(turn, s)
  BY <1>3, OpNames
<1> HIDE DEF s, o, c, x, y, E, r
<1>10. \A e \in E : \/ e[1] = 1 /\ Is(e, "step", <<turn, s>>)
                    \/ e[1] = 2 /\ Is(e, "open", StepOp(turn, s)) /\ e \in StepStarted(turn, s)
                    \/ e = x \/ e = y
  BY <1>2, <1>8, StepStartedEvents
<1>11. \E e \in E : e[1] = 1 /\ Is(e, "step", <<turn, s>>)
  BY <1>2, <1>8, StepStartedEvents
<1>12. \A e, f \in StepStarted(turn, s) : e[2] = f[2] => e = f
  BY DEF StepStarted
<1>13. \A e, f \in E : e[2] = "open" /\ f[2] = "open" /\ e[3] = f[3] => e = f
  BY <1>5, <1>9, <1>10, <1>12 DEF Is
<1>14. \A e \in E : e[2] # "resolve" /\ (e[2] = "plan" => e[3] \in Left')
  BY <1>5, <1>7, <1>10 DEF Is
<1>15. \A e \in E : \/ Is(e, "step", <<turn, s>>)
                    \/ 1 < e[1] /\ (Is(e, "open", StepOp(turn, s)) \/ Is(e, "open", o))
                    \/ e[2] \in {"plan", "result", "resolve"}
  BY <1>5, <1>10 DEF Is
<1>16. \A z \in open : z[1] = "pending" \/ <<"fault", OpTurn(z)>> \in cut \/ z = TurnOp(turn)
  BY <1>1, BeginFacts
<1>17. c.attempt <= s + Compactions'
  <2>1. \A k \in Nat : 0 <= s + k
    BY <1>2
  <2> QED
    BY <1>4, <1>6, <2>1
<1>18. \E e \in E : Is(e, "open", o)
  BY <1>5, <1>8
<1>19. /\ "tool_prepare" \in {"context", "tool_prepare"} /\ o[1] \in {"context", "tool-prepare"}
       /\ "tool_prepare" # "context" /\ phase # "tool_prepare" /\ phase # "tool_execute"
  BY <1>1, <1>3
<1> QED
  BY <1>19, <1>1, <1>2, <1>3, <1>4, <1>11, <1>13, <1>14, <1>15, <1>16, <1>17, <1>18, NewStepOps

LEMMA ResumeOps ==
  ASSUME OpsInv, ResumePreparation
  PROVE  OpsKept'
<1> DEFINE s == NextStep
           o == EffectOp("tool-prepare", cur.turn, s, 0)
           c == [ContinueFrom(pending) EXCEPT !.step = s, !.op = o]
           x == <<5, "open", o>>
           y == <<3, "resolve", <<pending.id, cur.approved>>>>
           z == <<4, "close", PendingOp(pending.id)>>
           E == StepStarted(cur.turn, s)
                \cup {<<3, "resolve", <<pending.id, cur.approved>>>>,
                      <<4, "close", PendingOp(pending.id)>>, <<5, "open", o>>}
<1>1. KernelStep("tool_prepare", c, E) /\ phase = "begin" /\ outbox = {} /\ pending.id # 0
  BY DEF ResumePreparation, Loop
<1>2. /\ cur.turn = turn /\ cur \in Cursor /\ cur.attempt = 0
      /\ s \in Nat /\ steps < s /\ turn \in Nat
  BY <1>1, BeginFacts
<1>3. o[1] = "tool-prepare" /\ o[2] = turn /\ o[3] = s /\ o \in Op
  BY <1>2, OpNames, OpTypes DEF EffectKind
<1>4. /\ c \in Cursor /\ c.turn = cur.turn /\ c.step = s /\ c.op = o /\ c.attempt = 0
      /\ c.reply = pending.reply /\ c.size = pending.size /\ c.from = pending.at
      /\ c.ready = pending.ready
  <2>1. pending \in Checkpoint
    BY <1>1, Facts DEF OpsInv, CallsInv
  <2> QED
    BY <1>2, <1>3, <2>1 DEF Cursor, ContinueFrom, Checkpoint
<1>5. /\ x[1] = 5 /\ Is(x, "open", o) /\ y[1] = 3 /\ Is(y, "resolve", <<pending.id, cur.approved>>)
      /\ z[1] = 4 /\ Is(z, "close", PendingOp(pending.id))
  BY OneEvent
<1>6. Compactions' \in Nat
  BY DEF Compactions
<1>7. Left' = Saved(pending)
  <2>1. cur' = c
    BY <1>1 DEF KernelStep
  <2> HIDE DEF c
  <2> QED
    BY <1>4, <2>1 DEF Left, Saved
<1>8. E = StepStarted(cur.turn, s) \cup {y, z, x}
  OBVIOUS
<1>9. o # StepOp(turn, s)
  BY <1>3, OpNames
<1>10. Owed(PendingOp(pending.id))
  <2>1. PendingOp(pending.id)[1] = "pending" /\ PendingOp(pending.id)[2] = pending.id
    BY OpNames
  <2>2. pending.id <= asks
    BY DEF OpsInv, OpsKept, OpsInOrder
  <2> QED
    BY <2>1, <2>2 DEF Owed, Stepped, EffectKind
<1> HIDE DEF s, o, c, x, y, z, E
<1>11. \A e \in E : \/ e[1] = 1 /\ Is(e, "step", <<turn, s>>)
                    \/ e[1] = 2 /\ Is(e, "open", StepOp(turn, s)) /\ e \in StepStarted(turn, s)
                    \/ e = x \/ e = y \/ e = z
  BY <1>2, <1>8, StepStartedEvents
<1>12. \E e \in E : e[1] = 1 /\ Is(e, "step", <<turn, s>>)
  BY <1>2, <1>8, StepStartedEvents
<1>13. \A e, f \in StepStarted(turn, s) : e[2] = f[2] => e = f
  BY DEF StepStarted
<1>14. \A e, f \in E : e[2] = "open" /\ f[2] = "open" /\ e[3] = f[3] => e = f
  BY <1>5, <1>9, <1>11, <1>13 DEF Is
<1>15. \A e \in E : \/ Is(e, "step", <<turn, s>>)
                    \/ 1 < e[1] /\ (Is(e, "open", StepOp(turn, s)) \/ Is(e, "open", o))
                    \/ e[2] = "close" /\ Owed(e[3])
                    \/ e[2] \in {"plan", "result", "resolve"}
  BY <1>5, <1>10, <1>11 DEF Is
<1>16. /\ \A e \in E : e[2] # "plan"
       /\ ~(\A e \in E : e[2] # "resolve")
  BY <1>5, <1>8, <1>11 DEF Is
<1>17. \A d \in open : d[1] = "pending" \/ <<"fault", OpTurn(d)>> \in cut \/ d = TurnOp(turn)
  BY <1>1, BeginFacts
<1>18. c.attempt <= s + Compactions'
  <2>1. \A k \in Nat : 0 <= s + k
    BY <1>2
  <2> QED
    BY <1>4, <1>6, <2>1
<1>19. \E e \in E : Is(e, "open", o)
  BY <1>5, <1>8
<1>20. /\ "tool_prepare" \in {"context", "tool_prepare"} /\ o[1] \in {"context", "tool-prepare"}
       /\ "tool_prepare" # "context" /\ phase # "tool_prepare" /\ phase # "tool_execute"
  BY <1>1, <1>3
<1> QED
  BY <1>20, <1>1, <1>2, <1>3, <1>4, <1>7, <1>12, <1>14, <1>15, <1>16, <1>17, <1>18, <1>19, NewStepOps

LEMMA SwitchOps ==
  ASSUME OpsInv, FinishModeSwitchTurn
  PROVE  OpsKept'
<1> DEFINE s == NextStep
           c == [cur EXCEPT !.step = s]
           step == StepOp(turn, s)
           save == SaveOp(turn, s)
           done == TurnOp(turn)
           E == StepStarted(cur.turn, s)
                \cup {<<3, "open", SaveOp(cur.turn, s)>>, <<4, "mode", cur.mode>>,
                      <<5, "close", SaveOp(cur.turn, s)>>}
                \cup StepFinished(6, c) \cup {<<7, "close", TurnOp(cur.turn)>>}
<1>1. KernelStep("done", c, E) /\ phase = "begin" /\ outbox = {} /\ cur.input # "reply"
  BY DEF FinishModeSwitchTurn, Loop
<1>2. /\ cur.turn = turn /\ cur \in Cursor /\ AskedBefore
      /\ s \in Nat /\ steps < s /\ turn \in Nat /\ turn # 0
      /\ \A y \in open : y[1] = "pending" \/ <<"fault", OpTurn(y)>> \in cut \/ y = TurnOp(turn)
  BY <1>1, BeginFacts
<1>3. c.turn = turn /\ c.step = s
  BY <1>2 DEF Cursor
<1>4. \A e \in E : \/ e[1] = 1 /\ Is(e, "step", <<turn, s>>)
                   \/ e[1] = 2 /\ Is(e, "open", step)
                   \/ e[1] = 3 /\ Is(e, "open", save)
                   \/ Is(e, "mode", cur.mode)
                   \/ e[1] = 5 /\ Is(e, "close", save)
                   \/ e[1] = 6 /\ Is(e, "close", step)
                   \/ e[1] = 7 /\ Is(e, "close", done)
  <2> DEFINE x == <<3, "open", save>>
             y == <<4, "mode", cur.mode>>
             z == <<5, "close", save>>
             w == <<7, "close", done>>
  <2>1. /\ x[1] = 3 /\ Is(x, "open", save) /\ Is(y, "mode", cur.mode)
        /\ z[1] = 5 /\ Is(z, "close", save) /\ w[1] = 7 /\ Is(w, "close", done)
    BY DEF Is
  <2>2. E = StepStarted(turn, s) \cup {x, y, z} \cup StepFinished(6, c) \cup {w}
    BY <1>2
  <2> HIDE DEF x, y, z, w, E, c, step, save, done, s
  <2>3. \A e \in StepFinished(6, c) : e[1] = 6 /\ Is(e, "close", step)
    BY <1>3, StepFinishedEvents DEF step
  <2> QED
    BY <2>1, <2>2, <2>3, StepStartedEvents DEF step
<1>5. /\ \E e \in E : e[1] = 1 /\ Is(e, "step", <<turn, s>>)
      /\ \E e \in E : Is(e, "close", save)
      /\ \E e \in E : Is(e, "close", step)
      /\ \E e \in E : Is(e, "close", done)
      /\ \A e, f \in E : e[2] = "open" /\ f[2] = "open" /\ e[3] = f[3] => e = f
  <2> DEFINE x == <<3, "open", save>>
             y == <<4, "mode", cur.mode>>
             z == <<5, "close", save>>
             w == <<7, "close", done>>
             a == <<1, "step", <<turn, s>>>>
             b == <<2, "open", step>>
             f6 == <<6, "close", step>>
  <2>1. /\ x[2] = "open" /\ x[3] = save /\ y[2] = "mode" /\ z[2] = "close" /\ z[3] = save
        /\ w[2] = "close" /\ w[3] = done /\ a[1] = 1 /\ a[2] = "step" /\ a[3] = <<turn, s>>
        /\ b[2] = "open" /\ b[3] = step /\ f6[2] = "close" /\ f6[3] = step
    OBVIOUS
  <2>2. StepStarted(turn, s) = {a, b}
    BY DEF StepStarted
  <2>3. StepFinished(6, c) = {f6}
    BY <1>3 DEF StepFinished
  <2>4. E = {a, b} \cup {x, y, z} \cup {f6} \cup {w}
    BY <1>2, <2>2, <2>3
  <2>5. step # save
    BY OpNames
  <2> HIDE DEF x, y, z, w, a, b, f6, E, c, step, save, done, s
  <2> QED
    BY <2>1, <2>4, <2>5 DEF Is
<1>6. /\ step[1] = "step" /\ step[2] = turn /\ step[3] = s
      /\ save[1] = "save" /\ save[2] = turn /\ save[3] = s
      /\ done[1] = "turn" /\ done[2] = turn
  BY OpNames
<1>7. /\ phase' = "done" /\ cur' = c /\ outbox' = E /\ Known' = Known
      /\ UNCHANGED <<open, closed, turn, steps, planned, answered, pending, asks, cancel, cut>>
      /\ Opens' = {e \in E : e[2] = "open"} /\ Closes' = {e \in E : e[2] = "close"}
      /\ \A kind \in {"user", "step", "plan", "result", "ask", "resolve"} :
           Queued(kind)' = {e \in E : e[2] = kind}
  BY <1>1, KernelOps
<1> HIDE DEF s, c, step, save, done, E
<1>8. Stepped(step) /\ Stepped(save) /\ step \notin Known /\ save \notin Known
  <2>1. Stepped(step) /\ Stepped(save)
    BY <1>6, KindsStepped
  <2> QED
    BY <1>1, <1>2, <1>6, <2>1, NewStepFresh
<1>9. \A e \in Opens' : (e[1] = 2 /\ e[3] = step) \/ (e[1] = 3 /\ e[3] = save)
  BY <1>4, <1>7 DEF Is
<1>10. \A e \in Closes' : (e[1] = 5 /\ e[3] = save) \/ (e[1] = 6 /\ e[3] = step) \/ (e[1] = 7 /\ e[3] = done)
  BY <1>4, <1>7 DEF Is
<1>11. \A kind \in {"user", "plan", "result", "ask", "resolve"} : Queued(kind)' = {}
  BY <1>4, <1>7 DEF Is
<1>12. OpsFresh'
  <2>1. \A e \in Opens' : e[3] \notin Known
    BY <1>8, <1>9
  <2>2. \A e, f \in Opens' : e[3] = f[3] => e = f
    BY <1>5, <1>7
  <2>3. \A e \in Opens', f \in Closes' : e[3] = f[3] => e[1] < f[1]
    BY <1>6, <1>9, <1>10
  <2> QED
    BY <1>7, <2>1, <2>2, <2>3 DEF OpsFresh, OpIdsFresh, Known
<1>13. OpsInOrder'
  <2>1. PICK f \in E : f[1] = 1 /\ Is(f, "step", <<turn, s>>)
    BY <1>5
  <2>2. f \in Queued("step")'
    BY <1>7, <2>1 DEF Is
  <2>3. ASSUME NEW e \in Opens' \cup Closes', Stepped(e[3])
        PROVE  e[3][2] = turn /\ f[1] < e[1] /\ e[3][3] <= c.step
    <3>1. e[3] \in {step, save}
      BY <1>6, <1>9, <1>10, <2>3, KindsStepped
    <3>2. e[3][2] = turn /\ e[3][3] = s /\ s <= s
      BY <1>2, <1>6, <3>1
    <3>3. f[1] < e[1]
      BY <1>9, <1>10, <2>1
    <3> QED
      BY <1>3, <3>2, <3>3
  <2>4. \A e \in Opens' \cup Closes' : e[3][1] # "pending"
    BY <1>6, <1>9, <1>10
  <2> QED
    BY <1>3, <1>7, <2>2, <2>3, <2>4 DEF OpsInOrder, OpsInv, OpsKept
<1>14. StepSoFar'
  BY <1>7 DEF StepSoFar, Driving
<1>15. BudgetKept'
  <2>1. \A o \in Mentioned' : o[1] = "provider" => o \in Known
    BY <1>6, <1>7, <1>9, <1>10 DEF Mentioned, Coming
  <2> QED
    BY <1>1, <1>7, <2>1, QuietOps DEF BudgetKept
<1>16. Closing'
  <2>1. \A o : (\E e \in E : Is(e, "close", o)) => Accounted(o)'
    BY <1>7 DEF Accounted, Is
  <2>2. ASSUME NEW o \in open
        PROVE  Accounted(o)'
    <3>1. o[1] = "pending" \/ <<"fault", OpTurn(o)>> \in cut => Accounted(o)'
      BY <1>7 DEF Accounted
    <3> QED
      BY <1>2, <1>5, <2>1, <3>1 DEF done
  <2>3. \A e \in Opens' : Accounted(e[3])'
    BY <1>5, <1>9, <2>1
  <2>4. \A e \in Closes' : e[3][1] = "turn" => e[3][2] = c.turn
    BY <1>3, <1>6, <1>10
  <2>5. TurnsOpened'
    BY <1>2, <1>3, <1>7, <1>11 DEF TurnsOpened, OpsInv, OpsKept, Closing
  <2> QED
    BY <1>7, <2>2, <2>3, <2>4, <2>5 DEF Closing
<1>17. Awaiting'
  <2>1. ASSUME NEW d \in planned, d[1] = turn
        PROVE  Awaits(d)'
    <3>1. Awaits(d)
      BY <2>1 DEF OpsInv, OpsKept, Awaiting
    <3>2. d \in answered \/ CutShort(d[1]) \/ (pending.id # 0 /\ d \in Saved(pending))
      BY <1>1, <3>1, QuietOps DEF Awaits
    <3> QED
      BY <1>7, <3>2 DEF Awaits, CutShort, Saved
  <2>2. cancel => <<"cancel", c.turn>> \in cut
    BY <1>1, <1>2, <1>3 DEF OpsInv, OpsKept, Awaiting, Running
  <2> QED
    BY <1>7, <1>11, <2>1, <2>2 DEF Awaiting, Driving
<1>18. NothingLeftOver'
  BY <1>3, <1>7 DEF NothingLeftOver
<1> QED
  BY <1>12, <1>13, <1>14, <1>15, <1>16, <1>17, <1>18 DEF OpsKept

-----------------------------------------------------------------------------
(* Steps that end the driver's work on a reply.                             *)

(* The events give what the driver holds an end, and an answer.             *)
Settles(events) ==
  /\ \A e \in events : e[2] = "result" \/ (e[2] = "close" /\ e[3][1] = "call")
  /\ phase = "tool_execute" => \A d \in Batch : \E e \in events : Is(e, "close", CallOp(d))
  /\ \A d \in planned :
       d[1] = turn /\ ((phase = "tool_prepare" /\ d \in Left) \/ (phase = "tool_execute" /\ d \in Batch)) =>
         CutShort(d[1]) \/ \E e \in events : Is(e, "result", d)

LEMMA SettledDone ==
  ASSUME OpsInv, outbox = {}, Driving, NEW events, Settles(events),
         NEW n, NEW q, NEW r \in Nat, NEW m, NEW c, NEW E,
         KernelStep("done", c, E), c.turn = cur.turn,
         E = (events \cup {<<n, "close", cur.op>>}) \cup StepFinished(q, cur) \cup Transition(r, cur, m)
  PROVE  OpsKept'
<1> DEFINE x == <<n, "close", cur.op>>
           A == events \cup {<<n, "close", cur.op>>}
<1>1. Is(x, "close", cur.op) /\ x[2] = "close" /\ A = events \cup {x}
  BY DEF Is
<1> HIDE DEF x, A
<1>2. \A e \in A :
        \/ Is(e, "open", PendingOp(asks + 1)) /\ \E f \in A : f[1] < e[1] /\ f[2] = "ask" /\ f[3].id = asks + 1
        \/ Is(e, "close", cur.op)
        \/ e[2] = "close" /\ e[3][1] = "call"
        \/ e[2] \in {"result", "ask"}
  BY <1>1 DEF Settles
<1>3. \A e, f \in A : e[2] = "open" /\ f[2] = "open" => e = f
  BY <1>1 DEF Settles
<1>4. \E e \in A : Is(e, "close", cur.op)
  BY <1>1
<1>5. phase = "tool_execute" => \A d \in Batch : \E e \in A : Is(e, "close", CallOp(d))
  BY <1>1 DEF Settles
<1>6. \A d \in planned :
        d[1] = turn /\ ((phase = "tool_prepare" /\ d \in Left) \/ (phase = "tool_execute" /\ d \in Batch)) =>
          \/ CutShort(d[1])
          \/ \E e \in A : Is(e, "result", d)
          \/ \E e \in A : e[2] = "ask" /\ d \in Saved(e[3])
  BY <1>1 DEF Settles
<1>7. E = A \cup StepFinished(q, cur) \cup Transition(r, cur, m)
  BY DEF A
<1>8. Ending(A)
  BY <1>2, <1>3, <1>4, <1>5, <1>6 DEF Ending
<1> QED
  BY <1>7, <1>8, ToDoneOps

LEMMA NothingToSettle ==
  ASSUME OpsInv, phase \in {"context", "provider"}
  PROVE  Settles({})
BY DEF Settles

LEMMA FailOps ==
  ASSUME OpsInv, outbox = {}, Driving, NEW rank \in Nat, NEW events, NEW unclosed,
         Fail(rank, events, unclosed),
         Settles(events \cup {<<rank, "close", o>> : o \in unclosed})
  PROVE  OpsKept'
<1> DEFINE B == {<<rank, "close", o>> : o \in unclosed}
           E == events \cup {<<rank, "close", o>> : o \in {cur.op} \cup unclosed}
                  \cup StepFinished(rank + 1, cur) \cup Transition(rank + 2, cur, cur.mode)
<1>1. KernelStep("done", cur, E)
  BY DEF Fail
<1>2. E = ((events \cup B) \cup {<<rank, "close", cur.op>>})
            \cup StepFinished(rank + 1, cur) \cup Transition(rank + 2, cur, cur.mode)
  OBVIOUS
<1>3. Settles(events \cup B) /\ rank + 2 \in Nat
  OBVIOUS
<1> HIDE DEF B, E
<1> QED
  BY <1>1, <1>2, <1>3, SettledDone

LEMMA NoneUnclosed == \A rank : {<<rank, "close", o>> : o \in {}} = {}
OBVIOUS

LEMMA ProviderFailsOps ==
  ASSUME OpsInv, ProviderFails
  PROVE  OpsKept'
<1>1. outbox = {} /\ Driving /\ phase = "provider" /\ Fail(1, {}, {})
  BY DEF ProviderFails, InEffect, EffectDue, Driving
<1>2. {} \cup {<<1, "close", o>> : o \in {}} = {}
  BY NoneUnclosed
<1>3. Settles({} \cup {<<1, "close", o>> : o \in {}})
  BY <1>1, <1>2, NothingToSettle
<1> QED
  BY <1>1, <1>3, FailOps

LEMMA AcceptAnswerOps ==
  ASSUME OpsInv, AcceptAnswer
  PROVE  OpsKept'
<1> DEFINE E == {<<1, "close", cur.op>>} \cup StepFinished(2, cur) \cup Transition(3, cur, cur.mode)
<1>1. KernelStep("done", cur, E) /\ outbox = {} /\ Driving /\ phase = "provider"
  BY DEF AcceptAnswer, InEffect, EffectDue, Driving
<1>2. E = ({} \cup {<<1, "close", cur.op>>}) \cup StepFinished(2, cur) \cup Transition(3, cur, cur.mode)
  OBVIOUS
<1> HIDE DEF E
<1>3. Settles({})
  BY <1>1, NothingToSettle
<1> QED
  BY <1>1, <1>2, <1>3, SettledDone

LEMMA EffectCancelledOps ==
  ASSUME OpsInv, EffectCancelled
  PROVE  OpsKept'
<1>1. outbox = {} /\ Driving /\ cancel
  BY DEF EffectCancelled, EffectDue, Driving
<1>2. CutShort(turn)
  BY <1>1, QuietOps DEF OpsInv, OpsKept, Awaiting, Driving, Running, CutShort
<1>3. CASE phase # "tool_execute"
  <2>1. Fail(1, {}, {})
    BY <1>3 DEF EffectCancelled
  <2>2. {} \cup {<<1, "close", o>> : o \in {}} = {}
    BY NoneUnclosed
  <2>3. Settles({} \cup {<<1, "close", o>> : o \in {}})
    BY <1>2, <1>3, <2>2 DEF Settles
  <2> QED
    BY <1>1, <2>1, <2>3, FailOps
<1>4. CASE phase = "tool_execute"
  <2> DEFINE ops == {CallOp(d) : d \in Batch}
             B == {<<1, "close", o>> : o \in ops}
  <2>1. Fail(1, {}, ops)
    BY <1>4 DEF EffectCancelled
  <2>2. \A o \in ops : o[1] = "call"
    BY OpNames
  <2>3. \A d \in Batch : CallOp(d) \in ops
    OBVIOUS
  <2>4. \A o \in ops : \E e \in B : Is(e, "close", o)
    <3>1. ASSUME NEW o \in ops
          PROVE  \E e \in B : Is(e, "close", o)
      <4>1. <<1, "close", o>> \in B /\ Is(<<1, "close", o>>, "close", o)
        BY OneEvent
      <4> QED
        BY <4>1
    <3> QED
      BY <3>1
  <2>5. \A e \in B : e[2] = "close" /\ e[3] \in ops
    OBVIOUS
  <2> HIDE DEF ops
  <2>6. Settles({} \cup B)
    <3> HIDE DEF B
    <3> QED
      BY <1>2, <2>2, <2>3, <2>4, <2>5 DEF Settles
  <2> QED
    BY <1>1, <2>1, <2>6, FailOps
<1> QED
  BY <1>3, <1>4

LEMMA AdvanceOps ==
  ASSUME OpsInv, outbox = {}, phase \in {"tool_prepare", "tool_execute"},
         NEW rank \in Nat, NEW events, Settles(events), ~LimitReached,
         NEW m \in Modes, AdvanceAfterTools(rank, events, m), cur.then # "complete"
  PROVE  OpsKept'
<1> DEFINE s == cur.step + 1
           o == EffectOp("context", cur.turn, s, cur.attempt)
           c == [cur EXCEPT !.step = s, !.op = o, !.mode = m, !.reply = <<0, 0, 0>>, !.size = 0,
                            !.from = 1, !.ready = {}, !.started = {}, !.resumed = FALSE]
           step == StepOp(turn, s)
           v == <<rank, "close", cur.op>>
           w == <<rank + 1, "close", StepOp(cur.turn, cur.step)>>
           x == <<rank + 2, "step", <<cur.turn, s>>>>
           y == <<rank + 3, "open", StepOp(cur.turn, s)>>
           z == <<rank + 4, "open", o>>
           E == events \cup {<<rank, "close", cur.op>>} \cup StepFinished(rank + 1, cur)
                  \cup {<<rank + 2, "step", <<cur.turn, s>>>>,
                        <<rank + 3, "open", StepOp(cur.turn, s)>>, <<rank + 4, "open", o>>}
<1>1. KernelStep("context", c, E)
  BY DEF AdvanceAfterTools
<1>2. /\ cur.turn = turn /\ steps = cur.step /\ cur.step \in Nat /\ cur.attempt \in Nat
      /\ cur \in Cursor /\ turn \in Nat /\ Driving /\ AskedBefore /\ turn # 0
  BY Facts, QuietOps DEF OpsInv, CallsInv, Driving, Running
<1>3. o[1] = "context" /\ o[2] = turn /\ o[3] = s /\ o \in Op /\ s \in Nat /\ steps < s
  <2>1. s \in Nat /\ steps < s
    BY <1>2
  <2> HIDE DEF s
  <2>2. o[1] = "context" /\ o[2] = turn /\ o[3] = s
    BY <1>2, OpNames
  <2>3. o \in Op
    BY <1>2, <2>1, OpTypes DEF EffectKind
  <2> QED
    BY <2>1, <2>2, <2>3
<1>4. /\ c.turn = cur.turn /\ c.step = s /\ c.op = o /\ c.attempt = cur.attempt
      /\ c.compacted = cur.compacted
  <2> HIDE DEF s, o
  <2> QED
    BY <1>2 DEF Cursor
<1>5. /\ Is(v, "close", cur.op) /\ Is(w, "close", StepOp(turn, cur.step))
      /\ x[1] = rank + 2 /\ Is(x, "step", <<turn, s>>)
      /\ y[1] = rank + 3 /\ Is(y, "open", step) /\ z[1] = rank + 4 /\ Is(z, "open", o)
  BY <1>2 DEF Is
<1>6. E = events \cup {v, w, x, y, z}
  BY DEF StepFinished
<1>7. o # step /\ step[1] = "step"
  BY <1>3, OpNames
<1>8. Owed(cur.op) /\ Owed(StepOp(turn, cur.step))
  <2>1. StepOp(turn, cur.step)[1] = "step" /\ StepOp(turn, cur.step)[2] = turn /\ StepOp(turn, cur.step)[3] = steps
    BY <1>2, OpNames
  <2>2. cur.op \in Known /\ cur.op[1] \in EffectKind /\ cur.op[2] = turn /\ cur.op[3] = steps
    BY <1>2, QuietOps
  <2>3. steps <= steps
    BY <1>2
  <2> QED
    BY <2>1, <2>2, <2>3 DEF Owed, EffectKind
<1>9. Compactions' = Compactions /\ Compactions \in Nat
  <2>1. cur' = c
    BY <1>1 DEF KernelStep
  <2> HIDE DEF c
  <2> QED
    BY <1>4, <2>1 DEF Compactions
<1>10. c.attempt <= s + Compactions' /\ c.attempt + 1 <= s + Compactions'
  <2>1. cur.attempt <= cur.step + Compactions
    BY DEF OpsInv, OpsKept, BudgetKept
  <2>2. ASSUME NEW k \in Nat, cur.attempt <= cur.step + k
        PROVE  cur.attempt <= s + k /\ cur.attempt + 1 <= s + k
    BY <1>2, <2>2
  <2>3. cur.attempt <= s + Compactions /\ cur.attempt + 1 <= s + Compactions
    BY <1>9, <2>1, <2>2
  <2> HIDE DEF c
  <2> QED
    BY <1>4, <1>9, <2>3
<1>11. s <= SafetyLimit
  <2>1. cur.then = "context" /\ SafetyLimit \in Nat
    BY <1>2, AgentTurnAssumption DEF Cursor
  <2>2. ~(cur.step >= SafetyLimit)
    BY <2>1 DEF LimitReached
  <2> QED
    BY <1>2, <2>1, <2>2
<1> HIDE DEF s, o, c, step, v, w, x, y, z, E
<1>12. \A d : CallOp(d)[1] = "call"
  BY OpNames
<1>13. \A e \in E : \/ Is(e, "step", <<turn, s>>)
                    \/ rank + 2 < e[1] /\ (Is(e, "open", StepOp(turn, s)) \/ Is(e, "open", o))
                    \/ e[2] = "close" /\ Owed(e[3])
                    \/ e[2] \in {"plan", "result", "resolve"}
  <2>1. \A q : q[1] = "call" => Owed(q)
    BY DEF Owed, Stepped, EffectKind
  <2>2. \A e \in events : e[2] = "result" \/ (e[2] = "close" /\ Owed(e[3]))
    BY <2>1 DEF Settles
  <2>3. rank + 2 < y[1] /\ rank + 2 < z[1]
    BY <1>5
  <2> QED
    BY <1>5, <1>6, <1>8, <2>2, <2>3 DEF Is, step
<1>14. \E e \in E : e[1] = rank + 2 /\ Is(e, "step", <<turn, s>>)
  BY <1>5, <1>6
<1>15. \A e \in events : e[2] \in {"result", "close"}
  BY DEF Settles
<1>16. \A e, f \in E : e[2] = "open" /\ f[2] = "open" /\ e[3] = f[3] => e = f
  BY <1>5, <1>6, <1>7, <1>15 DEF Is
<1>17. \A e \in E : e[2] # "plan" /\ e[2] # "resolve"
  BY <1>5, <1>6, <1>15 DEF Is
<1>18. ASSUME NEW q \in open
       PROVE  \/ q[1] = "pending" \/ <<"fault", OpTurn(q)>> \in cut \/ q = TurnOp(turn)
              \/ \E e \in E : Is(e, "close", q)
  <2>1. Accounted(q)
    BY DEF OpsInv, OpsKept, Closing
  <2>2. phase = "tool_execute" => \A d \in Batch : \E e \in E : Is(e, "close", CallOp(d))
    BY <1>6 DEF Settles
  <2> QED
    BY <1>2, <1>5, <1>6, <2>1, <2>2, QuietOps DEF Accounted
<1>19. \A d \in planned :
         d[1] = turn /\ ((phase = "tool_prepare" /\ d \in Left) \/ (phase = "tool_execute" /\ d \in Batch)) =>
           CutShort(d[1]) \/ \E e \in E : Is(e, "result", d)
  BY <1>6 DEF Settles
<1>20. \E e \in E : Is(e, "open", o)
  BY <1>5, <1>6
<1>21. "context" \in {"context", "tool_prepare"} /\ o[1] \in {"context", "tool-prepare"} /\ o[1] # "tool-prepare"
  BY <1>3
<1> QED
  BY <1>1, <1>2, <1>3, <1>4, <1>10, <1>11, <1>13, <1>14, <1>16, <1>17, <1>18, <1>19, <1>20, <1>21, NewStepOps

LEMMA AfterToolsOps ==
  ASSUME OpsInv, outbox = {}, phase \in {"tool_prepare", "tool_execute"},
         NEW rank \in Nat, NEW events, Settles(events), AfterTools(rank, events)
  PROVE  OpsKept'
<1>1. Driving /\ cur \in Cursor
  BY Facts DEF Driving, OpsInv, CallsInv
<1>2. CASE Fail(rank, events, {})
  <2>1. events \cup {<<rank, "close", o>> : o \in {}} = events
    BY NoneUnclosed
  <2>2. Settles(events \cup {<<rank, "close", o>> : o \in {}})
    BY <2>1
  <2> QED
    BY <1>1, <1>2, <2>2, FailOps
<1>3. ASSUME NEW m \in Modes, ~LimitReached, AdvanceAfterTools(rank, events, m)
      PROVE  OpsKept'
  <2>1. CASE cur.then = "complete"
    <3> DEFINE c == [cur EXCEPT !.mode = m]
               E == events \cup {<<rank, "close", cur.op>>} \cup StepFinished(rank + 1, cur)
                           \cup Transition(rank + 2, cur, m)
    <3>1. KernelStep("done", c, E)
      BY <1>3, <2>1 DEF AdvanceAfterTools
    <3>2. E = (events \cup {<<rank, "close", cur.op>>}) \cup StepFinished(rank + 1, cur)
                \cup Transition(rank + 2, cur, m)
      OBVIOUS
    <3>3. c.turn = cur.turn
      BY <1>1 DEF Cursor
    <3>4. rank + 2 \in Nat
      OBVIOUS
    <3> HIDE DEF c, E
    <3> QED
      BY <1>1, <3>1, <3>2, <3>3, <3>4, SettledDone
  <2>2. CASE cur.then # "complete"
    BY <1>3, <2>2, AdvanceOps
  <2> QED
    BY <2>1, <2>2
<1> QED
  BY <1>2, <1>3 DEF AfterTools

-----------------------------------------------------------------------------
(* Effects of a step.                                                       *)
LEMMA EffectFacts ==
  ASSUME OpsInv, outbox = {}, Driving
  PROVE  /\ cur \in Cursor /\ cur.turn = turn /\ cur.step = steps /\ turn \in Nat /\ steps \in Nat
         /\ cur.attempt \in Nat /\ Compactions \in {0, 1}
         /\ cur.compacted \in BOOLEAN /\ (cur.compacted => Compactions = 1)
         /\ cur.attempt <= steps + Compactions
         /\ phase = "context" => cur.attempt + 1 <= steps + Compactions
         /\ phase \in {"context", "provider"} => steps <= SafetyLimit
         /\ \A x \in Known :
              Stepped(x) /\ x[2] = turn /\ x[3] = steps =>
                /\ x[1] = "provider" => x[4] <= cur.attempt
                /\ x[1] = "context-compact" => cur.compacted
                /\ x[1] = "tool-prepare" => phase \in {"tool_prepare", "tool_execute"}
                /\ x[1] = "tools" => phase = "tool_execute"
<1>1. /\ cur \in Cursor /\ turn \in Nat /\ steps \in Nat /\ cur.attempt \in Nat
      /\ cur.compacted \in BOOLEAN
  BY Facts DEF OpsInv, CallsInv, Cursor
<1>2. cur.turn = turn /\ cur.step = steps /\ Mentioned = Known
  BY QuietOps
<1>3. Compactions \in {0, 1} /\ (cur.compacted => Compactions = 1)
  BY DEF Compactions
<1>4. /\ phase = "context" => cur.attempt + 1 <= steps + Compactions
      /\ phase # "context" => cur.attempt <= steps + Compactions
      /\ phase \in {"context", "provider"} => steps <= SafetyLimit
  BY <1>2 DEF OpsInv, OpsKept, BudgetKept, Driving
<1>5. cur.attempt <= steps + Compactions
  <2>1. ASSUME NEW k \in {0, 1}, cur.attempt + 1 <= steps + k
        PROVE  cur.attempt <= steps + k
    BY <1>1, <2>1
  <2> QED
    BY <1>3, <1>4, <2>1
<1> QED
  BY <1>1, <1>2, <1>3, <1>4, <1>5 DEF OpsInv, OpsKept, StepSoFar

LEMMA AcceptContextOps ==
  ASSUME OpsInv, AcceptContext
  PROVE  OpsKept'
<1> DEFINE o == EffectOp("provider", cur.turn, cur.step, cur.attempt + 1)
           c == [cur EXCEPT !.attempt = @ + 1, !.op = o]
           x == <<1, "close", cur.op>>
           y == <<2, "open", o>>
           E == {<<1, "close", cur.op>>, <<2, "open", o>>}
<1>1. KernelStep("provider", c, E) /\ phase = "context" /\ outbox = {} /\ Driving
  BY DEF AcceptContext, InEffect, EffectDue, Driving
<1>2. /\ cur \in Cursor /\ cur.turn = turn /\ cur.step = steps /\ turn \in Nat /\ steps \in Nat
      /\ cur.attempt \in Nat /\ Compactions \in {0, 1}
      /\ cur.attempt + 1 <= steps + Compactions /\ steps <= SafetyLimit
      /\ cur.attempt <= cur.attempt + 1 /\ cur.attempt + 1 \in Nat
  <2>1. \A i \in Nat : i <= i + 1 /\ i + 1 \in Nat
    OBVIOUS
  <2> QED
    BY <1>1, <2>1, EffectFacts
<1>3. o[1] = "provider" /\ o[2] = turn /\ o[3] = steps /\ o[4] = cur.attempt + 1
  BY <1>2, OpNames
<1>4. /\ c.turn = cur.turn /\ c.step = cur.step /\ c.op = o /\ c.attempt = cur.attempt + 1
      /\ c.compacted = cur.compacted
  <2> HIDE DEF o
  <2> QED
    BY <1>2 DEF Cursor
<1>5. Is(x, "close", cur.op) /\ Is(y, "open", o) /\ E = {x, y}
  BY DEF Is
<1>6. Compactions' = Compactions
  <2>1. cur' = c
    BY <1>1 DEF KernelStep
  <2> HIDE DEF c
  <2> QED
    BY <1>4, <2>1 DEF Compactions
<1> HIDE DEF o, c, x, y, E
<1>7. o \notin Known
  <2>1. Stepped(o)
    BY <1>3 DEF Stepped, EffectKind
  <2>2. ~(cur.attempt + 1 <= cur.attempt)
    BY <1>2
  <2> QED
    BY <1>1, <1>3, <2>1, <2>2, EffectFacts
<1>8. cur.attempt + 1 <= steps + 1
  BY <1>2
<1>9. o[4] <= c.attempt /\ o[3] <= SafetyLimit /\ o[4] <= o[3] + 1
  <2>1. cur.attempt + 1 <= cur.attempt + 1
    BY <1>2
  <2> QED
    BY <1>2, <1>3, <1>4, <1>8, <2>1
<1>10. /\ \A e \in E : Is(e, "open", o) \/ Is(e, "close", cur.op)
       /\ \A e, f \in E : e[2] = "open" /\ f[2] = "open" /\ e[3] = f[3] => e = f
       /\ \E e \in E : Is(e, "open", o)
       /\ \E e \in E : Is(e, "close", cur.op)
       /\ \A e \in E : e[2] # "plan"
  BY <1>5 DEF Is
<1>11. c.attempt \in Nat /\ cur.attempt <= c.attempt /\ (cur.compacted => c.compacted)
       /\ c.attempt <= c.step + Compactions' /\ o[1] \in EffectKind
  BY <1>2, <1>3, <1>4, <1>6 DEF EffectKind
<1>12. /\ "provider" \in {"context", "provider", "tool_prepare", "tool_execute"}
       /\ "provider" # "context" /\ phase \in {"context", "provider"} /\ phase # "tool_execute"
       /\ phase # "tool_prepare"
       /\ o[1] # "context-compact" /\ o[1] # "tool-prepare" /\ o[1] # "tools"
  BY <1>1, <1>3
<1> QED
  BY <1>1, <1>3, <1>4, <1>7, <1>9, <1>10, <1>11, <1>12, SameStepOps

LEMMA CompactRetryOps ==
  ASSUME OpsInv, CompactRetry
  PROVE  OpsKept'
<1> DEFINE o == EffectOp("context-compact", cur.turn, cur.step, cur.attempt)
           c == [cur EXCEPT !.op = o, !.compacted = TRUE]
           x == <<1, "close", cur.op>>
           y == <<3, "open", o>>
           z == <<2, "mode", cur.mode>>
           E == {<<1, "close", cur.op>>, <<2, "mode", cur.mode>>, <<3, "open", o>>}
<1>1. KernelStep("context", c, E) /\ phase = "provider" /\ outbox = {} /\ Driving /\ ~cur.compacted
  BY DEF CompactRetry, InEffect, EffectDue, Driving
<1>2. /\ cur \in Cursor /\ cur.turn = turn /\ cur.step = steps /\ turn \in Nat /\ steps \in Nat
      /\ cur.attempt \in Nat /\ cur.attempt <= steps + 0 /\ steps <= SafetyLimit
  <2>1. Compactions = 0
    BY <1>1 DEF Compactions
  <2> QED
    BY <1>1, <2>1, EffectFacts
<1>3. o[1] = "context-compact" /\ o[2] = turn /\ o[3] = steps
  BY <1>2, OpNames
<1>4. /\ c.turn = cur.turn /\ c.step = cur.step /\ c.op = o /\ c.attempt = cur.attempt
      /\ c.compacted
  <2> HIDE DEF o
  <2> QED
    BY <1>2 DEF Cursor
<1>5. Is(x, "close", cur.op) /\ Is(y, "open", o) /\ Is(z, "mode", cur.mode) /\ E = {x, y, z}
  BY DEF Is
<1>6. Compactions' = 1
  <2>1. cur' = c
    BY <1>1 DEF KernelStep
  <2> HIDE DEF c
  <2> QED
    BY <1>4, <2>1 DEF Compactions
<1> HIDE DEF o, c, x, y, z, E
<1>7. o \notin Known
  <2>1. Stepped(o)
    BY <1>3 DEF Stepped, EffectKind
  <2> QED
    BY <1>1, <1>3, <2>1, EffectFacts
<1>8. cur.attempt + 1 <= steps + 1 /\ cur.attempt <= cur.attempt
  BY <1>2
<1>9. /\ \A e \in E : Is(e, "open", o) \/ Is(e, "close", cur.op) \/ e[2] \in {"plan", "result", "mode"}
      /\ \A e, f \in E : e[2] = "open" /\ f[2] = "open" /\ e[3] = f[3] => e = f
      /\ \E e \in E : Is(e, "open", o)
      /\ \E e \in E : Is(e, "close", cur.op)
      /\ \A e \in E : e[2] # "plan"
  BY <1>5 DEF Is
<1>10. c.attempt \in Nat /\ cur.attempt <= c.attempt /\ (cur.compacted => c.compacted)
       /\ c.attempt + 1 <= c.step + Compactions' /\ o[1] \in EffectKind
  BY <1>2, <1>3, <1>4, <1>6, <1>8 DEF EffectKind
<1>11. /\ "context" \in {"context", "provider", "tool_prepare", "tool_execute"}
       /\ phase \in {"context", "provider"} /\ phase # "tool_execute" /\ phase # "tool_prepare"
       /\ o[1] # "provider" /\ o[1] # "tool-prepare" /\ o[1] # "tools"
  BY <1>1, <1>3
<1> QED
  BY <1>1, <1>3, <1>4, <1>7, <1>9, <1>10, <1>11, SameStepOps

LEMMA AcceptActionsOps ==
  ASSUME OpsInv, NEW n \in 1 .. MaxCalls, AcceptActions(n)
  PROVE  OpsKept'
<1> DEFINE o == EffectOp("tool-prepare", cur.turn, cur.step, cur.attempt)
           r == <<cur.turn, cur.step, cur.attempt>>
           c == [cur EXCEPT !.op = o, !.reply = r, !.size = n, !.from = 1, !.ready = {},
                            !.resumed = FALSE]
           x == <<1, "close", cur.op>>
           y == <<n + 2, "open", o>>
           P == {<<1 + i, "plan", CallOf(r, i)>> : i \in 1 .. n}
           E == {<<1, "close", cur.op>>} \cup {<<1 + i, "plan", CallOf(r, i)>> : i \in 1 .. n}
                  \cup {<<n + 2, "open", o>>}
<1>1. KernelStep("tool_prepare", c, E) /\ phase = "provider" /\ outbox = {} /\ Driving
  BY AcceptedIds DEF InEffect, EffectDue, Driving
<1>2. /\ cur \in Cursor /\ cur.turn = turn /\ cur.step = steps /\ turn \in Nat /\ steps \in Nat
      /\ cur.attempt \in Nat /\ cur.attempt <= steps + Compactions
  BY <1>1, EffectFacts
<1>3. o[1] = "tool-prepare" /\ o[2] = turn /\ o[3] = steps
  BY <1>2, OpNames
<1>4. /\ c.turn = cur.turn /\ c.step = cur.step /\ c.op = o /\ c.attempt = cur.attempt
      /\ c.compacted = cur.compacted /\ c.reply = r /\ c.size = n /\ c.from = 1 /\ c.ready = {}
  <2> HIDE DEF o, r
  <2> QED
    BY <1>2 DEF Cursor
<1>5. Is(x, "close", cur.op) /\ Is(y, "open", o) /\ E = {x, y} \cup P
  BY DEF Is
<1>6. cur' = c
  BY <1>1 DEF KernelStep
<1>7. \A e \in P : e[2] = "plan" /\ \E i \in 1 .. n : e[3] = CallOf(r, i)
  OBVIOUS
<1> HIDE DEF o, r, c, x, y, E, P
<1>8. Compactions' = Compactions
  BY <1>4, <1>6 DEF Compactions
<1>9. \A e \in P : e[3] \in Left'
  <2>1. Left' = CallsOf(r, {} \cup (1 .. n))
    BY <1>4, <1>6 DEF Left
  <2> QED
    BY <1>7, <2>1 DEF CallsOf
<1>10. o \notin Known
  <2>1. Stepped(o)
    BY <1>3 DEF Stepped, EffectKind
  <2> QED
    BY <1>1, <1>3, <2>1, EffectFacts
<1>11. /\ \A e \in E : Is(e, "open", o) \/ Is(e, "close", cur.op) \/ e[2] \in {"plan", "result", "mode"}
       /\ \A e, f \in E : e[2] = "open" /\ f[2] = "open" /\ e[3] = f[3] => e = f
       /\ \E e \in E : Is(e, "open", o)
       /\ \E e \in E : Is(e, "close", cur.op)
       /\ \A e \in E : e[2] = "plan" => e[3] \in Left'
  BY <1>5, <1>7, <1>9 DEF Is
<1>12. c.attempt \in Nat /\ cur.attempt <= c.attempt /\ (cur.compacted => c.compacted)
       /\ c.attempt <= c.step + Compactions' /\ o[1] \in EffectKind
  <2>1. cur.attempt <= cur.attempt
    BY <1>2
  <2> QED
    BY <1>2, <1>3, <1>4, <1>8, <2>1 DEF EffectKind
<1>13. /\ "tool_prepare" \in {"context", "provider", "tool_prepare", "tool_execute"}
       /\ "tool_prepare" # "context" /\ "tool_prepare" # "provider"
       /\ phase # "tool_execute" /\ phase # "tool_prepare"
       /\ o[1] # "provider" /\ o[1] # "context-compact" /\ o[1] # "tools"
  BY <1>1, <1>3
<1> QED
  BY <1>1, <1>3, <1>4, <1>10, <1>11, <1>12, <1>13, SameStepOps

LEMMA ResultEvents ==
  ASSUME NEW I
  PROVE  /\ \A e \in ImmediateResults(I) : e[2] = "result"
         /\ \A i \in I : \E e \in ImmediateResults(I) : Is(e, "result", CallOf(cur.reply, i))
<1>1. ASSUME NEW i \in I
      PROVE  \E e \in ImmediateResults(I) : Is(e, "result", CallOf(cur.reply, i))
  <2>1. <<i, "result", CallOf(cur.reply, i)>> \in ImmediateResults(I)
    BY DEF ImmediateResults
  <2>2. Is(<<i, "result", CallOf(cur.reply, i)>>, "result", CallOf(cur.reply, i))
    BY DEF Is
  <2> QED
    BY <2>1, <2>2
<1>2. \A e \in ImmediateResults(I) : e[2] = "result"
  BY DEF ImmediateResults
<1> QED
  BY <1>1, <1>2

LEMMA AcceptImmediateOps ==
  ASSUME OpsInv, AcceptImmediate
  PROVE  OpsKept'
<1> DEFINE I == cur.from .. cur.size
           W == ImmediateResults(I)
<1>1. phase = "tool_prepare" /\ outbox = {} /\ cur.ready = {} /\ AfterTools(cur.size + 1, W)
  BY DEF AcceptImmediate, InEffect, EffectDue
<1>2. cur.size + 1 \in Nat
  BY Facts DEF OpsInv, CallsInv
<1>3. Left = CallsOf(cur.reply, I)
  BY <1>1 DEF Left
<1> HIDE DEF I
<1>4. Settles(W)
  <2>1. \A d \in Left : \E i \in I : d = CallOf(cur.reply, i)
    BY <1>3 DEF CallsOf
  <2>2. \A d \in Left : \E e \in W : Is(e, "result", d)
    BY <2>1, ResultEvents
  <2>3. \A e \in W : e[2] = "result"
    BY ResultEvents
  <2> HIDE DEF W
  <2> QED
    BY <1>1, <2>2, <2>3 DEF Settles
<1> HIDE DEF W
<1> QED
  BY <1>1, <1>2, <1>4, AfterToolsOps

LEMMA FinishToolsOps ==
  ASSUME OpsInv, FinishTools
  PROVE  OpsKept'
<1> DEFINE rank == 2 * cur.size + 2
<1>1. phase = "tool_execute" /\ outbox = {} /\ Driving
  BY DEF FinishTools, EffectDue, Driving
<1>2. rank \in Nat
  BY Facts DEF OpsInv, CallsInv
<1>3. Settles(ToolResults)
  <2>1. ASSUME NEW e \in ToolResults
        PROVE  e[2] = "result" \/ (e[2] = "close" /\ e[3][1] = "call")
    BY OpNames DEF ToolResults
  <2>2. ASSUME NEW d \in Batch
        PROVE  \E e \in ToolResults : Is(e, "close", CallOp(d))
    BY ToolResultsEnd DEF Is
  <2>3. ASSUME NEW d \in Batch
        PROVE  \E e \in ToolResults : Is(e, "result", d)
    <3>1. PICK i \in cur.ready : d = CallOf(cur.reply, i)
      BY DEF Batch, CallsOf
    <3>2. <<2 * i, "result", d>> \in ToolResults
      BY <3>1 DEF ToolResults
    <3>3. Is(<<2 * i, "result", d>>, "result", d)
      BY DEF Is
    <3> QED
      BY <3>2, <3>3
  <2> QED
    BY <1>1, <2>1, <2>2, <2>3 DEF Settles
<1>4. CASE Fail(rank, ToolResults, {})
  <2> HIDE DEF rank
  <2>1. ToolResults \cup {<<rank, "close", o>> : o \in {}} = ToolResults
    BY NoneUnclosed
  <2>2. Settles(ToolResults \cup {<<rank, "close", o>> : o \in {}})
    BY <1>3, <2>1
  <2> QED
    BY <1>1, <1>2, <1>4, <2>2, FailOps
<1>5. CASE AfterTools(rank, ToolResults)
  <2> HIDE DEF rank
  <2> QED
    BY <1>1, <1>2, <1>3, <1>5, AfterToolsOps
<1> QED
  BY <1>4, <1>5 DEF FinishTools

LEMMA SuspendOps ==
  ASSUME OpsInv, NEW k \in 1 .. MaxCalls, NEW R, SuspendPreparation(k, R)
  PROVE  OpsKept'
<1> DEFINE I == cur.from .. (k - 1)
           p == CheckpointAt(k, R)
           W == ImmediateResults(I \ R)
           o == PendingOp(asks + 1)
           x == <<k, "ask", p>>
           y == <<k + 2, "close", cur.op>>
           z == <<k + 3, "open", o>>
           A == W \cup {x, y, z}
           E == ImmediateResults(I \ R)
                \cup {<<k, "ask", p>>} \cup StepFinished(k + 1, cur)
                \cup {<<k + 2, "close", cur.op>>, <<k + 3, "open", PendingOp(p.id)>>}
                \cup Transition(k + 4, cur, cur.mode)
<1>1. /\ KernelStep("done", cur, E) /\ phase = "tool_prepare" /\ outbox = {} /\ Driving
      /\ k \in cur.from .. cur.size
  BY DEF SuspendPreparation, InEffect, EffectDue, Driving
<1>2. /\ p.id = asks + 1 /\ p.reply = cur.reply /\ p.size = cur.size /\ p.at = k
      /\ p.ready = cur.ready \cup R
  BY DEF CheckpointAt
<1>3. E = A \cup StepFinished(k + 1, cur) \cup Transition(k + 4, cur, cur.mode)
  BY <1>2
<1>4. /\ x[1] = k /\ x[2] = "ask" /\ x[3] = p /\ Is(y, "close", cur.op) /\ y[2] = "close"
      /\ z[1] = k + 3 /\ Is(z, "open", o)
  BY DEF Is
<1>5. k \in Nat /\ k < k + 3 /\ k + 4 \in Nat /\ k + 1 \in Nat
  OBVIOUS
<1>6. \A e \in W : e[2] = "result"
  BY ResultEvents
<1>7. ASSUME NEW d \in Left
      PROVE  (\E e \in W : Is(e, "result", d)) \/ d \in Saved(p)
  <2>1. PICK i \in cur.ready \cup (cur.from .. cur.size) : d = CallOf(cur.reply, i)
    BY DEF Left, CallsOf
  <2>2. i \in p.ready \cup (p.at .. p.size) \/ i \in I \ R
    <3>1. i \in cur.from .. cur.size /\ i \notin I => i \in k .. cur.size
      BY <1>1, Facts DEF OpsInv, CallsInv
    <3> HIDE DEF I, p
    <3> QED
      BY <1>2, <2>1, <3>1
  <2>3. CASE i \in I \ R
    <3> HIDE DEF I
    <3> QED
      BY <2>1, <2>3, ResultEvents
  <2>4. CASE i \in p.ready \cup (p.at .. p.size)
    <3> HIDE DEF I, p
    <3> QED
      BY <1>2, <2>1, <2>4, CallOfIn DEF Saved
  <2> QED
    BY <2>2, <2>3, <2>4
<1> HIDE DEF I, p, W, o, x, y, z, E
<1>8. Ending(A)
  <2>1. /\ x \in A /\ y \in A /\ \A e \in A : e \in W \/ e = x \/ e = y \/ e = z
    OBVIOUS
  <2> HIDE DEF A
  <2>2. Is(z, "open", PendingOp(asks + 1)) /\ x[1] < z[1] /\ x[2] = "ask" /\ x[3].id = asks + 1
    BY <1>2, <1>4, <1>5 DEF o
  <2>3. \A e \in A :
          \/ Is(e, "open", PendingOp(asks + 1)) /\ \E f \in A : f[1] < e[1] /\ f[2] = "ask" /\ f[3].id = asks + 1
          \/ Is(e, "close", cur.op)
          \/ e[2] = "close" /\ e[3][1] = "call"
          \/ e[2] \in {"result", "ask"}
    BY <1>4, <1>6, <2>1, <2>2
  <2>4. \A e, f \in A : e[2] = "open" /\ f[2] = "open" => e = f
    BY <1>4, <1>6, <2>1
  <2>5. \E e \in A : Is(e, "close", cur.op)
    BY <1>4, <2>1
  <2>6. \A d \in Left : (\E e \in A : Is(e, "result", d)) \/ (\E e \in A : e[2] = "ask" /\ d \in Saved(e[3]))
    <3>1. W \subseteq A
      BY DEF A
    <3> QED
      BY <1>4, <1>7, <2>1, <3>1
  <2> QED
    BY <1>1, <2>3, <2>4, <2>5, <2>6 DEF Ending
<1>9. cur.turn = cur.turn
  OBVIOUS
<1> HIDE DEF A
<1> QED
  BY <1>1, <1>3, <1>5, <1>8, <1>9, ToDoneOps

LEMMA AcceptPreparedOps ==
  ASSUME OpsInv, NEW R, AcceptPrepared(R)
  PROVE  OpsKept'
<1> DEFINE I == cur.from .. cur.size
           ready == cur.ready \cup R
           o == EffectOp("tools", cur.turn, cur.step, cur.attempt)
           c == [cur EXCEPT !.op = o, !.ready = ready]
           W == ImmediateResults(I \ R)
           B == ExecutionStarts(cur.size + 1, ready)
           x == <<cur.size + 1, "close", cur.op>>
           y == <<2 * cur.size + 2, "open", o>>
           E == ImmediateResults(I \ R) \cup {<<cur.size + 1, "close", cur.op>>}
                \cup ExecutionStarts(cur.size + 1, ready) \cup {<<2 * cur.size + 2, "open", o>>}
<1>1. /\ KernelStep("tool_execute", c, E) /\ phase = "tool_prepare" /\ outbox = {} /\ Driving
      /\ R \subseteq I
  BY DEF AcceptPrepared, InEffect, EffectDue, Driving, ReadyAllowed
<1>2. /\ cur \in Cursor /\ cur.turn = turn /\ cur.step = steps /\ turn \in Nat /\ steps \in Nat
      /\ cur.attempt \in Nat /\ cur.attempt <= steps + Compactions
  BY <1>1, EffectFacts
<1>3. o[1] = "tools" /\ o[2] = turn /\ o[3] = steps
  BY <1>2, OpNames
<1>4. /\ c.turn = cur.turn /\ c.step = cur.step /\ c.op = o /\ c.attempt = cur.attempt
      /\ c.compacted = cur.compacted /\ c.reply = cur.reply /\ c.ready = ready
  <2> HIDE DEF o, ready
  <2> QED
    BY <1>2 DEF Cursor
<1>5. Is(x, "close", cur.op) /\ Is(y, "open", o) /\ E = W \cup B \cup {x, y}
  BY DEF Is
<1>6. cur' = c
  BY <1>1 DEF KernelStep
<1>7. \A e \in B : e[2] = "open" /\ \E i \in ready : e[3] = CallOp(CallOf(cur.reply, i))
  BY DEF ExecutionStarts
<1>8. \A e, f \in B : e[3] = f[3] => e = f
  <2>1. ASSUME NEW e \in B, NEW f \in B, e[3] = f[3]
        PROVE  e = f
    <3>1. PICK i \in ready : e = <<cur.size + 1 + i, "open", CallOp(CallOf(cur.reply, i))>>
      BY DEF ExecutionStarts
    <3>2. PICK j \in ready : f = <<cur.size + 1 + j, "open", CallOp(CallOf(cur.reply, j))>>
      BY DEF ExecutionStarts
    <3>3. CallOp(CallOf(cur.reply, i)) = CallOp(CallOf(cur.reply, j))
      BY <2>1, <3>1, <3>2
    <3> QED
      BY <3>1, <3>2, <3>3, CallOfSame, CallOpSame
  <2> QED
    BY <2>1
<1>9. \A e \in W : e[2] = "result"
  BY ResultEvents
<1>10. \A i \in I : i \in R \/ \E e \in W : Is(e, "result", CallOf(cur.reply, i))
  <2> HIDE DEF I
  <2> QED
    BY ResultEvents
<1>11. /\ ready \subseteq cur.ready \cup I
       /\ Left = CallsOf(cur.reply, cur.ready \cup I)
       /\ cur.ready \subseteq ready /\ R \subseteq ready
  BY <1>1 DEF Left
<1> HIDE DEF I, ready, o, c, W, B, x, y, E
<1>12. Compactions' = Compactions /\ Batch' = CallsOf(cur.reply, ready)
  BY <1>4, <1>6 DEF Compactions, Batch
<1>13. \A i \in ready : CallOf(cur.reply, i) \in Batch' /\ CallOp(CallOf(cur.reply, i)) \notin Known
  <2>1. \A i \in ready : CallOf(cur.reply, i) \in Left
    BY <1>11, CallOfIn
  <2>2. \A d \in Left : ~Started(d)
    BY <1>1, PreparationFacts DEF OpsInv
  <2> QED
    BY <1>12, <2>1, <2>2, CallOfIn DEF Started, Known
<1>14. o \notin Known
  <2>1. Stepped(o)
    BY <1>3 DEF Stepped, EffectKind
  <2> QED
    BY <1>1, <1>3, <2>1, EffectFacts
<1>15. \A e \in E :
         \/ Is(e, "open", o)
         \/ e[2] = "open" /\ "tool_execute" = "tool_execute" /\ \E d \in Batch' : e[3] = CallOp(d) /\ CallOp(d) \notin Known
         \/ Is(e, "close", cur.op)
         \/ e[2] \in {"plan", "result", "mode"}
  BY <1>5, <1>7, <1>9, <1>13
<1>16. \A e, f \in E : e[2] = "open" /\ f[2] = "open" /\ e[3] = f[3] => e = f
  <2>1. \A d : CallOp(d)[1] = "call"
    BY OpNames
  <2>2. \A e \in B : e[3] # o
    BY <1>3, <1>7, <2>1
  <2>3. \A e \in E : e[2] = "open" => e \in B \/ e = y
    BY <1>5, <1>9 DEF Is
  <2> QED
    BY <1>5, <1>8, <2>2, <2>3 DEF Is
<1>17. /\ \E e \in E : Is(e, "open", o)
       /\ \E e \in E : Is(e, "close", cur.op)
       /\ \A e \in E : e[2] # "plan"
  BY <1>5, <1>7, <1>9 DEF Is
<1>18. ASSUME NEW d \in Left
       PROVE  (\E e \in E : Is(e, "result", d)) \/ d \in Batch'
  <2>1. PICK i \in cur.ready \cup I : d = CallOf(cur.reply, i)
    BY <1>11 DEF CallsOf
  <2>2. i \in ready \/ \E e \in W : Is(e, "result", CallOf(cur.reply, i))
    BY <1>10, <1>11, <2>1
  <2> QED
    BY <1>5, <1>13, <2>1, <2>2
<1>19. c.attempt \in Nat /\ cur.attempt <= c.attempt /\ (cur.compacted => c.compacted)
       /\ c.attempt <= c.step + Compactions' /\ o[1] \in EffectKind
  <2>1. cur.attempt <= cur.attempt
    BY <1>2
  <2> QED
    BY <1>2, <1>3, <1>4, <1>12, <2>1 DEF EffectKind
<1>20. /\ "tool_execute" \in {"context", "provider", "tool_prepare", "tool_execute"}
       /\ "tool_execute" # "context" /\ "tool_execute" # "provider"
       /\ phase # "tool_execute"
       /\ o[1] # "provider" /\ o[1] # "context-compact" /\ o[1] # "tool-prepare"
  BY <1>1, <1>3
<1> QED
  BY <1>1, <1>3, <1>4, <1>14, <1>15, <1>16, <1>17, <1>18, <1>19, <1>20, SameStepOps

-----------------------------------------------------------------------------
(* Steps that leave the transcript and what is to be appended alone.        *)
LEMMA OpsFrame ==
  ASSUME OpsInv,
         UNCHANGED <<open, closed, turn, steps, planned, answered, pending, asks, phase, outbox>>,
         UNCHANGED <<cur.input, cur.turn, cur.step, cur.attempt, cur.op, cur.compacted,
                     cur.reply, cur.size, cur.from, cur.ready>>,
         cut \subseteq cut', cancel' => cancel \/ <<"cancel", cur.turn>> \in cut'
  PROVE  OpsKept'
<1> USE DEF OpsInv, OpsKept
<1>1. /\ Opens' = Opens /\ Closes' = Closes /\ Known' = Known /\ Coming' = Coming
      /\ Mentioned' = Mentioned /\ (\A kind : Queued(kind)' = Queued(kind))
      /\ Driving' = Driving /\ Compactions' = Compactions /\ Batch' = Batch /\ Left' = Left
      /\ AskedBefore' = AskedBefore
  <2>1. Opens' = Opens /\ Closes' = Closes /\ Known' = Known /\ Coming' = Coming /\ Mentioned' = Mentioned
    BY DEF Opens, Closes, Known, Coming, Mentioned
  <2>2. \A kind : Queued(kind)' = Queued(kind)
    BY DEF Queued, Due
  <2>3. Driving' = Driving /\ Compactions' = Compactions /\ Batch' = Batch /\ Left' = Left
        /\ AskedBefore' = AskedBefore
    BY DEF Driving, Compactions, Batch, Left, AskedBefore
  <2> QED
    BY <2>1, <2>2, <2>3
<1>2. OpsFresh'
  BY <1>1 DEF OpsFresh, OpIdsFresh
<1>3. OpsInOrder'
  BY <1>1 DEF OpsInOrder
<1>4. StepSoFar'
  BY <1>1 DEF StepSoFar
<1>5. BudgetKept'
  BY <1>1 DEF BudgetKept
<1>6. Closing'
  <2>1. ASSUME NEW o, Accounted(o)
        PROVE  Accounted(o)'
    BY <1>1, <2>1 DEF Accounted
  <2>2. TurnsOpened'
    BY <1>1 DEF TurnsOpened, Closing
  <2> QED
    BY <1>1, <2>1, <2>2 DEF Closing
<1>7. Awaiting'
  <2>1. ASSUME NEW c, Awaits(c)
        PROVE  Awaits(c)'
    BY <1>1, <2>1 DEF Awaits, CutShort
  <2> QED
    BY <1>1, <2>1 DEF Awaiting
<1>8. NothingLeftOver'
  BY <1>1 DEF NothingLeftOver
<1> QED
  BY <1>2, <1>3, <1>4, <1>5, <1>6, <1>7, <1>8

LEMMA FrameOps ==
  ASSUME OpsInv,
         \/ \E i \in 1 .. MaxCalls : RunTool(i)
         \/ \E m \in Modes : ApplyHostMode(m)
         \/ Cancel \/ Age \/ UNCHANGED vars
  PROVE  OpsKept'
<1> USE DEF opsVars, foldVars, processVars, worldVars
<1>1. ASSUME NEW i, RunTool(i)
      PROVE  OpsKept'
  <2>1. cur \in Cursor
    BY Facts DEF OpsInv, CallsInv
  <2>2. /\ UNCHANGED <<open, closed, turn, steps, planned, answered, pending, asks, phase, outbox>>
        /\ cut' = cut /\ cancel' = cancel
        /\ cur' = [cur EXCEPT !.started = @ \cup {i}]
    BY <1>1 DEF RunTool
  <2>3. UNCHANGED <<cur.input, cur.turn, cur.step, cur.attempt, cur.op, cur.compacted,
                    cur.reply, cur.size, cur.from, cur.ready>>
    BY <2>1, <2>2 DEF Cursor
  <2> QED
    BY <2>2, <2>3, OpsFrame
<1>2. ASSUME NEW m, ApplyHostMode(m)
      PROVE  OpsKept'
  BY <1>2, OpsFrame DEF ApplyHostMode
<1>3. CASE Cancel
  <2>1. cur.turn \in InDrive
    BY DEF InDrive
  <2>2. <<"cancel", cur.turn>> \in cut' /\ cut \subseteq cut'
    BY <1>3, <2>1 DEF Cancel, Cut
  <2> QED
    BY <1>3, <2>2, OpsFrame DEF Cancel
<1>4. CASE Age
  BY <1>4, OpsFrame DEF Age
<1>5. CASE UNCHANGED vars
  BY <1>5, OpsFrame DEF vars
<1> QED
  BY <1>1, <1>2, <1>3, <1>4, <1>5

-----------------------------------------------------------------------------
(* Ends of a transaction.                                                   *)

(* What is open or unanswered when a fault ends the transaction belongs to  *)
(* a turn that is cut short.                                                *)
LEMMA FaultsCut ==
  ASSUME OpsInv, phase \in Running
  PROVE  /\ \A o \in open :
              o[1] = "pending" \/ <<"fault", OpTurn(o)>> \in cut \/ OpTurn(o) \in InDrive
         /\ \A c \in planned :
              c[1] = turn =>
                \/ c \in answered \/ CutShort(c[1])
                \/ pending.id # 0 /\ c \in Saved(pending)
                \/ c[1] \in InDrive
<1> USE DEF OpsInv, OpsKept
<1>1. cur.turn \in InDrive /\ cur.reply[1] \in InDrive
  BY DEF InDrive
<1>2. ASSUME NEW o \in open
      PROVE  o[1] = "pending" \/ <<"fault", OpTurn(o)>> \in cut \/ OpTurn(o) \in InDrive
  <2>1. Accounted(o) /\ o \in Op
    BY Facts DEF Closing, CallsInv
  <2>2. ASSUME NEW e \in Closes, e[3] = o
        PROVE  o[1] = "pending" \/ OpTurn(o) \in InDrive
    <3>1. CASE o[1] = "turn"
      BY <1>1, <2>2, <3>1 DEF Closing, OpTurn
    <3>2. CASE Stepped(o)
      <4>1. o[2] = cur.turn
        BY <2>2, <3>2 DEF OpsInOrder
      <4>2. o[1] # "call"
        BY <3>2 DEF Stepped, EffectKind
      <4> QED
        BY <1>1, <4>1, <4>2 DEF OpTurn
    <3>3. CASE o[1] = "call"
      BY <2>2, <3>3 DEF InDrive, OpTurn, Closes
    <3> QED
      BY <2>1, <3>1, <3>2, <3>3, OpShape
  <2>3. CASE o = TurnOp(cur.turn)
    BY <1>1, <2>3, OpNames DEF OpTurn
  <2>4. CASE Driving /\ o \in {StepOp(cur.turn, cur.step), cur.op}
    <3>1. o[2] = cur.turn /\ o[1] # "call"
      <4>1. CASE o = cur.op
        BY <2>4, <4>1 DEF StepSoFar, EffectKind
      <4>2. CASE o = StepOp(cur.turn, cur.step)
        BY <4>2, OpNames
      <4> QED
        BY <2>4, <4>1, <4>2
    <3> QED
      BY <1>1, <3>1 DEF OpTurn
  <2>5. ASSUME NEW c \in Batch, o = CallOp(c)
        PROVE  OpTurn(o) \in InDrive
    <3>1. c[1] = cur.reply[1]
      <4>1. cur.ready \in SUBSET Nat /\ cur.reply \in Reply
        BY Facts DEF CallsInv
      <4> QED
        BY <4>1, ReplyCalls DEF Batch
    <3>2. o[1] = "call" /\ o[2] = c
      BY <2>5, OpNames
    <3> QED
      BY <1>1, <3>1, <3>2 DEF OpTurn
  <2> QED
    BY <2>1, <2>2, <2>3, <2>4, <2>5 DEF Accounted
<1>3. ASSUME NEW c \in planned, c[1] = turn
      PROVE  \/ c \in answered \/ CutShort(c[1])
             \/ pending.id # 0 /\ c \in Saved(pending)
             \/ c[1] \in InDrive
  <2>1. Awaits(c)
    BY <1>3 DEF Awaiting
  <2>2. phase \in {"tool_prepare", "tool_execute"} => cur.turn = turn
    BY DEF CallsInv, CallsKept, TurnInOrder, Driving
  <2>3. Queued("result") # {} \/ Queued("ask") # {} => cur.turn = turn
    BY DEF NothingLeftOver
  <2> QED
    BY <1>1, <1>3, <2>1, <2>2, <2>3 DEF Awaits
<1> QED
  BY <1>2, <1>3

(* The transaction is over.                                                 *)
LEMMA RestOps ==
  ASSUME OpsInv, Rest,
         UNCHANGED <<open, closed, turn, steps, planned, answered, pending, asks>>,
         cut \subseteq cut',
         \A o \in open : o[1] = "pending" \/ <<"fault", OpTurn(o)>> \in cut',
         \A c \in planned :
           c[1] = turn =>
             \/ c \in answered \/ CutShort(c[1])'
             \/ pending.id # 0 /\ c \in Saved(pending)
  PROVE  OpsKept'
<1> USE DEF OpsInv, OpsKept
<1>1. phase' = "idle" /\ outbox' = {} /\ ~cancel' /\ ~Driving'
  BY DEF Rest, Driving
<1>2. /\ Opens' = {} /\ Closes' = {} /\ Known' = Known /\ Mentioned' = Known
      /\ \A kind : Queued(kind)' = {}
  <2>1. Opens' = {} /\ Closes' = {} /\ Known' = Known
    BY <1>1 DEF Opens, Closes, Known
  <2>2. Mentioned' = Known
    BY <2>1 DEF Mentioned, Coming
  <2>3. \A kind : Queued(kind)' = {}
    BY <1>1 DEF Queued, Due, Vitals
  <2> QED
    BY <2>1, <2>2, <2>3
<1>3. OpsFresh'
  BY <1>1, <1>2 DEF OpsFresh, OpIdsFresh
<1>4. OpsInOrder'
  BY <1>2 DEF OpsInOrder
<1>5. StepSoFar'
  BY <1>1 DEF StepSoFar
<1>6. BudgetKept'
  <2>1. Known \subseteq Mentioned
    BY DEF Mentioned, Coming
  <2> QED
    BY <1>1, <1>2, <2>1 DEF BudgetKept
<1>7. Closing'
  <2>1. \A o \in open : Accounted(o)'
    BY <1>1 DEF Accounted
  <2>2. TurnsOpened'
    BY <1>1, <1>2 DEF TurnsOpened, Closing, Running
  <2> QED
    BY <1>2, <2>1, <2>2 DEF Closing
<1>8. Awaiting'
  <2>1. \A c \in planned : c[1] = turn => Awaits(c)'
    BY DEF Awaits, Saved
  <2> QED
    BY <1>1, <1>2, <2>1 DEF Awaiting
<1>9. NothingLeftOver'
  BY <1>1, <1>2 DEF NothingLeftOver
<1> QED
  BY <1>3, <1>4, <1>5, <1>6, <1>7, <1>8, <1>9

LEMMA EndOps ==
  ASSUME OpsInv, End
  PROVE  OpsKept'
<1>1. phase = "done" /\ outbox = {} /\ Rest /\ cut' = cut
      /\ UNCHANGED <<open, closed, turn, steps, planned, answered, pending, asks>>
  BY DEF End, opsVars, foldVars, worldVars
<1>2. Closes = {} /\ \A kind : Queued(kind) = {}
  BY <1>1, QuietOps
<1>3. \A o \in open : o[1] = "pending" \/ <<"fault", OpTurn(o)>> \in cut
  BY <1>1, <1>2 DEF OpsInv, OpsKept, Closing, Accounted, Driving
<1>4. \A c \in planned :
        c[1] = turn =>
          \/ c \in answered \/ CutShort(c[1])
          \/ pending.id # 0 /\ c \in Saved(pending)
  BY <1>1, <1>2 DEF OpsInv, OpsKept, Awaiting, Awaits
<1>5. \A c : CutShort(c[1])' <=> CutShort(c[1])
  BY <1>1 DEF CutShort
<1> QED
  BY <1>1, <1>3, <1>4, <1>5, RestOps

LEMMA CheckpointInvalidOps ==
  ASSUME OpsInv, CheckpointInvalid
  PROVE  OpsKept'
<1>1. phase = "begin" /\ outbox = {} /\ Rest /\ cut' = cut /\ cur.input = "reply"
      /\ UNCHANGED <<open, closed, turn, steps, planned, answered, pending, asks>>
  BY DEF CheckpointInvalid, Loop, opsVars, foldVars, worldVars
<1>2. /\ \A kind : Queued(kind) = {}
      /\ \A o \in open : o[1] = "pending" \/ <<"fault", OpTurn(o)>> \in cut \/ o = TurnOp(turn)
  BY <1>1, QuietOps, BeginFacts
<1>3. \A o \in open : o = TurnOp(turn) => <<"fault", OpTurn(o)>> \in cut
  <2>1. TurnOp(turn) \in closed \/ <<"fault", turn>> \in cut
    BY <1>1 DEF OpsInv, OpsKept, Closing, TurnsOpened
  <2>2. open \cap closed = {}
    BY DEF OpsInv, CallsInv, CallsKept, CallsOnRecord
  <2>3. OpTurn(TurnOp(turn)) = turn
    BY OpNames DEF OpTurn
  <2> QED
    BY <2>1, <2>2, <2>3
<1>4. \A c \in planned :
        c[1] = turn =>
          \/ c \in answered \/ CutShort(c[1])
          \/ pending.id # 0 /\ c \in Saved(pending)
  BY <1>1, <1>2 DEF OpsInv, OpsKept, Awaiting, Awaits
<1>5. \A c : CutShort(c[1])' <=> CutShort(c[1])
  BY <1>1 DEF CutShort
<1> QED
  BY <1>1, <1>2, <1>3, <1>4, <1>5, RestOps

LEMMA CrashOps ==
  ASSUME OpsInv, Crash
  PROVE  OpsKept'
<1>1. phase \in Running /\ Rest
      /\ UNCHANGED <<open, closed, turn, steps, planned, answered, pending, asks>>
  BY DEF Crash, opsVars, foldVars
<1>2. cut \subseteq cut' /\ \A t \in InDrive : <<"fault", t>> \in cut'
  BY DEF Crash, Cut
<1>3. \A t : CutShort(t) \/ t \in InDrive => CutShort(t)'
  BY <1>2 DEF CutShort
<1> QED
  BY <1>1, <1>2, <1>3, FaultsCut, RestOps

LEMMA RaiseOps ==
  ASSUME OpsInv, Raise
  PROVE  OpsKept'
<1> USE DEF OpsInv, OpsKept
<1> DEFINE x == <<1, "close", TurnOp(cur.turn)>>
<1>1. /\ phase \in Running /\ phase' = "done" /\ outbox' = {x} /\ ~Driving'
      /\ UNCHANGED <<open, closed, turn, steps, planned, answered, pending, asks, cur, cancel>>
  BY DEF Raise, opsVars, foldVars, Driving
<1>2. cut \subseteq cut' /\ \A t \in InDrive : <<"fault", t>> \in cut'
  BY DEF Raise, Cut
<1>3. Is(x, "close", TurnOp(cur.turn)) /\ TurnOp(cur.turn)[1] = "turn" /\ TurnOp(cur.turn)[2] = cur.turn
  BY OneEvent, OpNames
<1>4. ~Vital(x)
  BY <1>3 DEF Vital, Is
<1> HIDE DEF x
<1>5. /\ Opens' = {} /\ (\A e \in Closes' : e[3] = TurnOp(cur.turn)) /\ Known' = Known
      /\ \A kind : Queued(kind)' = {}
  <2>1. Opens' = {} /\ (\A e \in Closes' : e[3] = TurnOp(cur.turn)) /\ Known' = Known
    BY <1>1, <1>3 DEF Opens, Closes, Known, Is
  <2>2. \A kind : Queued(kind)' = {}
    BY <1>1, <1>4 DEF Queued, Due, Vitals
  <2> QED
    BY <2>1, <2>2
<1>6. \A e \in Closes' : ~Stepped(e[3]) /\ e[3][1] = "turn" /\ e[3][2] = cur.turn
  BY <1>3, <1>5 DEF Stepped, EffectKind
<1>7. OpsFresh'
  BY <1>1, <1>3, <1>5 DEF OpsFresh, OpIdsFresh, Is
<1>8. OpsInOrder'
  BY <1>1, <1>5, <1>6 DEF OpsInOrder
<1>9. StepSoFar'
  BY <1>1 DEF StepSoFar
<1>10. BudgetKept'
  <2>1. \A o \in Mentioned' : o \in Known \/ o[1] = "turn"
    BY <1>5, <1>6 DEF Mentioned, Coming
  <2>2. Known \subseteq Mentioned
    BY DEF Mentioned, Coming
  <2> QED
    BY <1>1, <2>1, <2>2 DEF BudgetKept
<1>11. Closing'
  <2>1. \A o \in open : Accounted(o)'
    BY <1>1, <1>2, FaultsCut DEF Accounted
  <2>2. TurnsOpened'
    BY <1>1, <1>5 DEF TurnsOpened, Closing
  <2> QED
    BY <1>1, <1>5, <1>6, <2>1, <2>2 DEF Closing
<1>12. Awaiting'
  <2>1. \A t : CutShort(t) \/ t \in InDrive => CutShort(t)'
    BY <1>2 DEF CutShort
  <2>2. \A c \in planned : c[1] = turn => Awaits(c)'
    BY <1>1, <2>1, FaultsCut DEF Awaits, Saved
  <2>3. cancel => <<"cancel", cur.turn>> \in cut'
    BY <1>1, <1>2 DEF Awaiting
  <2> QED
    BY <1>1, <1>5, <2>2, <2>3 DEF Awaiting
<1>13. NothingLeftOver'
  BY <1>1, <1>5 DEF NothingLeftOver
<1> QED
  BY <1>7, <1>8, <1>9, <1>10, <1>11, <1>12, <1>13

-----------------------------------------------------------------------------
(* Inputs.  A transaction begins by opening its turn, and by recording the  *)
(* user message unless it answers a question.                               *)
LEMMA BeginOps ==
  ASSUME OpsInv, NEW c \in Cursor, NEW E, NEW stop \in BOOLEAN, Begin(c, E, stop),
         c.turn # 0, c.attempt = 0, ~c.compacted, c.from = 1,
         \A e \in E : e[2] # "close" /\ (Vital(e) => e[2] = "user"),
         \A e \in E : e[2] = "open" => e[3] = TurnOp(c.turn),
         \A e, f \in E : e[2] = "open" /\ f[2] = "open" => e = f,
         \A e \in E : e[2] = "user" =>
           e[3] = c.turn /\ \E f \in E : f[1] < e[1] /\ f[2] = "open",
         c.input = "reply" => c.turn = turn,
         c.input # "reply" => \E e \in E : e[2] = "user"
  PROVE  OpsKept'
<1> USE DEF OpsInv, OpsKept
<1>1. /\ phase = "idle" /\ phase' = "begin" /\ cur' = c /\ outbox' = E /\ cancel' = stop
      /\ UNCHANGED <<open, closed, turn, steps, planned, answered, pending, asks>>
      /\ cut \subseteq cut' /\ (stop => <<"cancel", c.turn>> \in cut')
  BY DEF Begin, opsVars, foldVars
<1>2. outbox = {}
  BY <1>1 DEF NothingLeftOver
<1>3. /\ Closes = {} /\ \A kind : Queued(kind) = {}
  BY <1>2, QuietOps
<1>4. /\ Opens' = {e \in E : e[2] = "open"} /\ Closes' = {} /\ Known' = Known /\ ~Driving'
      /\ \A o \in Mentioned' : o \in Known \/ o = TurnOp(c.turn)
  <2>1. Opens' = {e \in E : e[2] = "open"} /\ Closes' = {} /\ Known' = Known /\ ~Driving'
    BY <1>1 DEF Opens, Closes, Known, Driving
  <2> QED
    BY <2>1 DEF Mentioned, Coming
<1>5. /\ \A kind : kind # "user" => Queued(kind)' = {}
      /\ \A e : e \in Queued("user")' <=> e \in E /\ e[2] = "user"
  BY <1>1 DEF Queued, Due, Vitals, Vital
<1>6. TurnOp(c.turn)[1] = "turn" /\ TurnOp(c.turn)[2] = c.turn /\ ~Stepped(TurnOp(c.turn))
  BY OpNames DEF Stepped, EffectKind
<1>7. OpsFresh'
  BY <1>1, <1>4, <1>6 DEF OpsFresh, OpIdsFresh
<1>8. OpsInOrder'
  BY <1>1, <1>4, <1>6 DEF OpsInOrder
<1>9. StepSoFar'
  BY <1>4 DEF StepSoFar
<1>10. BudgetKept'
  <2>1. Known \subseteq Mentioned
    BY DEF Mentioned, Coming
  <2>2. c.input # "reply" => Queued("user")' # {}
    BY <1>5
  <2> QED
    BY <1>1, <1>4, <1>6, <2>1, <2>2 DEF BudgetKept
<1>11. \A o \in open : o[1] = "pending" \/ <<"fault", OpTurn(o)>> \in cut
  BY <1>1, <1>3 DEF Closing, Accounted, Driving
<1>12. TurnsOpened'
  <2>1. phase' \in Running => cur'.turn # 0
    BY <1>1
  <2>2. pending'.id # 0 \/ Queued("ask")' # {} => turn' # 0
    BY <1>1, <1>5 DEF Closing, TurnsOpened
  <2>3. turn' # 0 => TurnOp(turn') \in Known'
    BY <1>1, <1>4 DEF Closing, TurnsOpened
  <2>4. \A e \in Queued("user")' : \E f \in Opens' : f[1] < e[1] /\ f[3] = TurnOp(e[3])
    BY <1>4, <1>5
  <2>5. c.input = "reply" => TurnOp(turn) \in closed \/ <<"fault", turn>> \in cut
    <3>1. c.input = "reply" => TurnOp(turn) \in open \cup closed
      BY DEF Closing, TurnsOpened, Known
    <3>2. c.input = "reply" => OpTurn(TurnOp(turn)) = turn /\ TurnOp(turn)[1] # "pending"
      BY <1>6 DEF OpTurn
    <3> QED
      BY <1>11, <3>1, <3>2
  <2> QED
    BY <1>1, <2>1, <2>2, <2>3, <2>4, <2>5 DEF TurnsOpened
<1>13. Closing'
  <2>1. \A o \in open : Accounted(o)'
    BY <1>1, <1>11 DEF Accounted
  <2>2. Accounted(TurnOp(c.turn))'
    BY <1>1 DEF Accounted
  <2> QED
    BY <1>1, <1>4, <1>12, <2>1, <2>2 DEF Closing
<1>14. Awaiting'
  <2>1. \A d \in planned : d[1] = turn =>
          d \in answered \/ CutShort(d[1]) \/ (pending.id # 0 /\ d \in Saved(pending))
    BY <1>1, <1>3 DEF Awaiting, Awaits
  <2>2. \A t : CutShort(t) => CutShort(t)'
    BY <1>1 DEF CutShort
  <2>3. \A d \in planned : d[1] = turn => Awaits(d)'
    BY <1>1, <2>1, <2>2 DEF Awaits, Saved
  <2>4. c.input # "reply" => Queued("user")' # {}
    BY <1>5
  <2> QED
    BY <1>1, <1>4, <1>5, <2>3, <2>4 DEF Awaiting
<1>15. NothingLeftOver'
  BY <1>1, <1>5 DEF NothingLeftOver
<1> QED
  BY <1>7, <1>8, <1>9, <1>10, <1>13, <1>14, <1>15

LEMMA SubmitTurnOps ==
  ASSUME OpsInv, NEW input \in {"user", "switch", "command"}, NEW m \in Modes,
         NEW bootstrap \in BOOLEAN, SubmitTurn(input, m, bootstrap)
  PROVE  OpsKept'
<1> DEFINE t == ids + 1
           A == IF bootstrap THEN {<<1, "mode", m>>} ELSE {}
           x == <<2, "open", TurnOp(t)>>
           y == <<3, "user", t>>
           E == A \cup {<<2, "open", TurnOp(t)>>, <<3, "user", t>>}
           c == Fresh(input, t, m)
           stop == FALSE
<1>1. Begin(c, E, stop) /\ stop \in BOOLEAN
  BY DEF SubmitTurn
<1>2. t \in Nat /\ t # 0
  BY Facts DEF OpsInv, CallsInv
<1>3. c \in Cursor
  BY <1>2, ParkedType
<1>4. c.turn = t /\ c.attempt = 0 /\ ~c.compacted /\ c.from = 1 /\ c.input # "reply"
  BY DEF Fresh
<1>5. E = A \cup {x, y} /\ (\A e \in A : e[2] = "mode")
  OBVIOUS
<1>6. x[1] = 2 /\ x[2] = "open" /\ x[3] = TurnOp(t) /\ y[1] = 3 /\ y[2] = "user" /\ y[3] = t
  OBVIOUS
<1>7. TurnOp(t)[1] = "turn"
  BY OpNames
<1> HIDE DEF t, A, x, y, E, c, stop
<1>8. \A e \in E : e[2] # "close" /\ (Vital(e) => e[2] = "user")
  BY <1>5, <1>6, <1>7 DEF Vital
<1>9. /\ \A e \in E : e[2] = "open" => e = x
      /\ \A e \in E : e[2] = "user" => e = y
      /\ x \in E /\ y \in E /\ x[1] < y[1]
  BY <1>5, <1>6
<1>10. /\ \A e \in E : e[2] = "open" => e[3] = TurnOp(c.turn)
       /\ \A e, f \in E : e[2] = "open" /\ f[2] = "open" => e = f
       /\ \A e \in E : e[2] = "user" =>
            e[3] = c.turn /\ \E f \in E : f[1] < e[1] /\ f[2] = "open"
       /\ \E e \in E : e[2] = "user"
  BY <1>4, <1>6, <1>9
<1>11. c.turn # 0
  BY <1>2, <1>4
<1>12. (c.input = "reply" => c.turn = turn) /\ (c.input # "reply" => \E e \in E : e[2] = "user")
  BY <1>4, <1>10
<1> QED
  BY <1>1, <1>3, <1>4, <1>8, <1>10, <1>11, <1>12, BeginOps

LEMMA SubmitReplyOps ==
  ASSUME OpsInv, NEW approved \in BOOLEAN, NEW stop \in BOOLEAN, SubmitReply(approved, stop)
  PROVE  OpsKept'
<1> DEFINE f == Fresh("reply", turn, mode)
           c == [Fresh("reply", turn, mode) EXCEPT !.approved = approved]
           x == <<1, "open", TurnOp(turn)>>
           E == {<<1, "open", TurnOp(turn)>>}
<1>1. Begin(c, E, stop) /\ pending.id # 0
  BY DEF SubmitReply
<1>2. turn \in Nat /\ mode \in Modes /\ turn # 0
  BY <1>1, Facts DEF OpsInv, OpsKept, Closing, TurnsOpened, CallsInv, IInv, TypeOK
<1>3. f \in Cursor
  BY <1>2, ParkedType
<1>4. f.turn = turn /\ f.attempt = 0 /\ ~f.compacted /\ f.from = 1 /\ f.input = "reply"
  BY DEF Fresh
<1>5. c = [f EXCEPT !.approved = approved] /\ E = {x}
  OBVIOUS
<1>6. x[2] = "open" /\ x[3] = TurnOp(turn) /\ TurnOp(turn)[1] = "turn"
  BY OpNames
<1> HIDE DEF f, c, x, E
<1>7. c \in Cursor /\ c.turn = turn /\ c.attempt = 0 /\ ~c.compacted /\ c.from = 1
      /\ c.input = "reply"
  BY <1>3, <1>4, <1>5 DEF Cursor
<1>8. \A e \in E : e = x /\ e[2] = "open" /\ e[2] # "close" /\ e[2] # "user"
  BY <1>5, <1>6
<1>9. \A e \in E : ~Vital(e)
  BY <1>5, <1>6 DEF Vital
<1>10. /\ \A e \in E : e[2] # "close" /\ (Vital(e) => e[2] = "user")
       /\ \A e \in E : e[2] = "open" => e[3] = TurnOp(c.turn)
       /\ \A e, g \in E : e[2] = "open" /\ g[2] = "open" => e = g
       /\ \A e \in E : e[2] = "user" =>
            e[3] = c.turn /\ \E g \in E : g[1] < e[1] /\ g[2] = "open"
  BY <1>6, <1>7, <1>8, <1>9
<1>11. c.turn # 0
  BY <1>2, <1>7
<1>12. (c.input = "reply" => c.turn = turn) /\ (c.input # "reply" => \E e \in E : e[2] = "user")
  BY <1>7
<1> QED
  BY <1>1, <1>7, <1>10, <1>11, <1>12, BeginOps

-----------------------------------------------------------------------------
(* The invariant.                                                           *)
LEMMA InputOps ==
  ASSUME OpsInv, Input
  PROVE  OpsKept'
<1>1. mode \in Modes /\ (ids = 0) \in BOOLEAN
  BY DEF OpsInv, CallsInv, IInv, TypeOK
<1>2. ASSUME NEW m \in Modes, ApplyHostMode(m)
      PROVE  OpsKept'
  BY <1>2, FrameOps
<1> QED
  BY <1>1, <1>2, SubmitTurnOps, SubmitReplyOps DEF Input

LEMMA LoopStepOps ==
  ASSUME OpsInv, CallsInv', LoopStep
  PROVE  OpsKept'
<1>1. ASSUME NEW n \in 1 .. MaxCalls, AcceptActions(n)
      PROVE  OpsKept'
  BY <1>1, AcceptActionsOps
<1>2. ASSUME NEW R \in SUBSET (1 .. MaxCalls), AcceptPrepared(R)
      PROVE  OpsKept'
  BY <1>2, AcceptPreparedOps
<1>3. ASSUME NEW k \in 1 .. MaxCalls, NEW R \in SUBSET (1 .. MaxCalls), SuspendPreparation(k, R)
      PROVE  OpsKept'
  BY <1>3, SuspendOps
<1>4. ASSUME NEW i \in 1 .. MaxCalls, RunTool(i)
      PROVE  OpsKept'
  BY <1>4, FrameOps
<1> QED
  BY <1>1, <1>2, <1>3, <1>4, AppendOps, StartOps, SwitchOps, CommandOps, ResumeOps,
     CheckpointInvalidOps, EffectCancelledOps, AcceptContextOps, AcceptAnswerOps, CompactRetryOps,
     ProviderFailsOps, AcceptImmediateOps, FinishToolsOps, EndOps DEF LoopStep

LEMMA InitOps == Init => OpsInv
<1> SUFFICES ASSUME Init PROVE OpsInv
  OBVIOUS
<1>1. CallsInv
  BY InitCalls
<1>2. /\ Opens = {} /\ Closes = {} /\ Known = {} /\ Coming = {} /\ Mentioned = {}
      /\ \A kind : Queued(kind) = {}
  BY DEF Init, Opens, Closes, Known, Coming, Mentioned, Queued, Due, Vitals
<1>3. phase = "idle" /\ ~Driving /\ pending.id = 0 /\ asks = 0 /\ turn = 0 /\ cur.turn = 0
      /\ open = {} /\ outbox = {} /\ planned = {} /\ ~cancel
  BY DEF Init, Driving, None, Parked, Fresh
<1>4. OpsFresh /\ OpsInOrder /\ StepSoFar /\ BudgetKept
  BY <1>2, <1>3 DEF OpsFresh, OpIdsFresh, OpsInOrder, StepSoFar, BudgetKept
<1>5. Closing /\ Awaiting /\ NothingLeftOver
  BY <1>2, <1>3 DEF Closing, TurnsOpened, Running, Awaiting, NothingLeftOver
<1> QED
  BY <1>1, <1>4, <1>5 DEF OpsInv, OpsKept

LEMMA NextOps == OpsInv /\ [Next]_vars => OpsInv'
<1> SUFFICES ASSUME OpsInv, [Next]_vars PROVE OpsInv'
  OBVIOUS
<1>1. CallsInv'
  BY NextCalls DEF OpsInv
<1>2. ASSUME Input PROVE OpsKept'
  BY <1>2, InputOps
<1>3. ASSUME LoopStep PROVE OpsKept'
  BY <1>1, <1>3, LoopStepOps
<1>4. ASSUME Raise \/ Crash PROVE OpsKept'
  BY <1>4, RaiseOps, CrashOps
<1>5. ASSUME Cancel \/ Age \/ Quiet \/ UNCHANGED vars PROVE OpsKept'
  BY <1>5, FrameOps DEF Quiet
<1>6. OpsKept'
  BY <1>2, <1>3, <1>4, <1>5, RefusedReply DEF Next
<1> QED
  BY <1>1, <1>6 DEF OpsInv

LEMMA OpsInvariant == Spec => []OpsInv
<1> QED
  BY InitOps, NextOps, PTL DEF Spec

-----------------------------------------------------------------------------
(* What becomes of every operation, and of every turn.                      *)

(* An operation id is never started a second time (AgentTurnFrame, and the  *)
(* ids _next_step_index derives), however turns are answered, resumed and   *)
(* cut short: OperationLogReducer would ignore the second start.            *)
THEOREM OpIdsFreshHolds == Spec => []OpIdsFresh
<1>1. OpsInv => OpIdsFresh
  BY DEF OpsInv, OpsKept, OpsFresh
<1> QED
  BY <1>1, OpsInvariant, PTL

(* Between transactions nothing but questions is left open by a turn that   *)
(* no fault cut short: every path out of the loop (AgentTurnFrame.finish,   *)
(* _accept_failure, _suspend_preparation) closes what it opened.            *)
THEOREM OpsClosedAtRestHolds == Spec => []OpsClosedAtRest
<1>1. ASSUME OpsInv, phase = "idle", NEW o \in open
      PROVE  o[1] = "pending" \/ <<"fault", OpTurn(o)>> \in cut
  <2>1. Closes = {} /\ Accounted(o)
    BY <1>1, QuietOps DEF OpsInv, OpsKept, NothingLeftOver, Closing
  <2> QED
    BY <1>1, <2>1 DEF Accounted, Driving
<1>2. OpsInv => OpsClosedAtRest
  BY <1>1 DEF OpsClosedAtRest
<1> QED
  BY <1>2, OpsInvariant, PTL

(* When the provider is asked again, every call of the turn has its result  *)
(* in the transcript, unless a fault or a stop cut the turn short: the      *)
(* conversation that is sent has an answer to every call it shows.          *)
THEOREM AnsweredBeforeAskingHolds == Spec => []AnsweredBeforeAsking
<1>1. ASSUME OpsInv, InEffect("provider"), NEW c \in planned, c[1] = cur.turn
      PROVE  c \in answered \/ \E kind \in {"fault", "cancel"} : <<kind, c[1]>> \in cut
  <2>1. phase = "provider" /\ outbox = {} /\ Driving
    BY <1>1 DEF InEffect, EffectDue, Driving
  <2>2. (\A kind : Queued(kind) = {}) /\ cur.turn = turn
    BY <1>1, <2>1, QuietOps DEF OpsInv, CallsInv, CallsKept, TurnInOrder
  <2>3. Awaits(c) /\ AskedBefore
    BY <1>1, <2>1, <2>2 DEF OpsInv, OpsKept, Awaiting
  <2>4. ~(pending.id # 0 /\ c \in Saved(pending))
    <3>1. pending.id # 0 => pending \in Checkpoint
      BY <1>1, Facts DEF OpsInv, CallsInv
    <3> QED
      BY <1>1, <2>2, <2>3, <3>1, SavedTurn DEF AskedBefore
  <2>5. c \in answered \/ CutShort(c[1])
    BY <2>1, <2>2, <2>3, <2>4 DEF Awaits
  <2> QED
    BY <2>5 DEF CutShort
<1>2. OpsInv => AnsweredBeforeAsking
  BY <1>1 DEF AnsweredBeforeAsking
<1> QED
  BY <1>2, OpsInvariant, PTL

(* A turn never asks the provider beyond step max_turns, and repeats a      *)
(* request in a drive at most once, after the compaction that              *)
(* _accept_failure allows once: for every max_turns, however often the turn *)
(* is suspended and resumed.                                                *)
THEOREM ProviderBudgetHolds == Spec => []ProviderBudget
<1>1. OpsInv => ProviderBudget
  BY DEF OpsInv, OpsKept, BudgetKept, ProviderBudget, Mentioned, Coming, Known
<1> QED
  BY <1>1, OpsInvariant, PTL

=============================================================================

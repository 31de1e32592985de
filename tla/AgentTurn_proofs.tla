-------------------------- MODULE AgentTurn_proofs --------------------------
(***************************************************************************)
(* Theorems about AgentTurn, for every number of modes, steps, calls, turns,*)
(* interactions and faults.                                                *)
(***************************************************************************)
EXTENDS AgentTurn, TLAPS

-----------------------------------------------------------------------------
(* The identities and events a step is built from have their types.         *)

LEMMA CallTypes ==
  ASSUME NEW r \in Reply, NEW i \in Nat
  PROVE  CallOf(r, i) \in Call
BY DEF Reply, Call, CallOf

LEMMA OpTypes ==
  ASSUME NEW t \in Nat, NEW s \in Nat, NEW a \in Nat
  PROVE  /\ TurnOp(t) \in Op
         /\ StepOp(t, s) \in Op
         /\ SaveOp(t, s) \in Op
         /\ PendingOp(t) \in Op
         /\ \A kind \in EffectKind : EffectOp(kind, t, s, a) \in Op
BY DEF Op, TurnOp, StepOp, SaveOp, PendingOp, EffectOp, EffectKind

LEMMA CallOpType == \A c \in Call : CallOp(c) \in Op
BY DEF Op, CallOp

LEMMA EventTypes ==
  ASSUME NEW n \in Nat
  PROVE  /\ \A o \in Op : <<n, "open", o>> \in Event /\ <<n, "close", o>> \in Event
         /\ \A t \in Nat : <<n, "user", t>> \in Event
         /\ \A t \in Nat, s \in Nat : <<n, "step", <<t, s>>>> \in Event
         /\ \A c \in Call : <<n, "plan", c>> \in Event /\ <<n, "result", c>> \in Event
         /\ \A p \in Checkpoint : <<n, "ask", p>> \in Event
         /\ \A p \in Nat, b \in BOOLEAN : <<n, "resolve", <<p, b>>>> \in Event
         /\ \A m \in Modes : <<n, "mode", m>> \in Event
BY DEF Event

LEMMA EventCases ==
  ASSUME NEW e \in Event
  PROVE  /\ e[1] \in Nat
         /\ e[2] \in {"open", "close"} => e[3] \in Op
         /\ e[2] = "user" => e[3] \in Nat
         /\ e[2] = "step" => e[3] \in Nat \X Nat
         /\ e[2] \in {"plan", "result"} => e[3] \in Call
         /\ e[2] = "ask" => e[3] \in Checkpoint
         /\ e[2] = "resolve" => e[3] \in Nat \X BOOLEAN
         /\ e[2] = "mode" => e[3] \in Modes
BY DEF Event

-----------------------------------------------------------------------------
(* The inductive invariant.                                                 *)

(* Nothing is prepared or dispatched before the driver gets there.          *)
Pristine ==
  /\ phase = "begin" => cur.ready = {}
  /\ phase \in {"begin", "context", "provider", "tool_prepare"} => cur.started = {}

(* The start of every call of the batch is in the transcript or on its way. *)
BatchAnnounced ==
  phase = "tool_execute" =>
    \A i \in cur.ready :
      \/ CallOp(CallOf(cur.reply, i)) \in open \cup closed
      \/ \E e \in outbox : e[2] = "open" /\ e[3] = CallOp(CallOf(cur.reply, i))

IInv == TypeOK /\ Pristine /\ BatchAnnounced /\ WriteAhead

LEMMA ParkedType ==
  /\ Parked \in Cursor
  /\ Parked.ready = {} /\ Parked.started = {} /\ Parked.size = 0
  /\ \A input \in {"user", "switch", "command", "reply"}, t \in Nat, m \in Modes :
       Fresh(input, t, m) \in Cursor
<1>1. \A input \in {"user", "switch", "command", "reply"}, t \in Nat, m \in Modes :
        Fresh(input, t, m) \in Cursor
  BY OpTypes DEF Fresh, Cursor, Reply
<1>2. (CHOOSE m \in Modes : TRUE) \in Modes
  BY AgentTurnAssumption
<1> QED
  BY <1>1, <1>2 DEF Parked, Fresh

LEMMA InitIInv == Init => IInv
<1> SUFFICES ASSUME Init PROVE IInv
  OBVIOUS
<1>1. TypeOK
  BY ParkedType DEF Init, TypeOK, Running, None
<1>2. Pristine /\ BatchAnnounced /\ WriteAhead
  BY DEF Init, Pristine, BatchAnnounced, WriteAhead
<1> QED
  BY <1>1, <1>2 DEF IInv

(* A kernel step keeps the invariant when its cursor and events are typed,  *)
(* and when a batch to execute is announced in those events.                *)
LEMMA KernelStepKeeps ==
  ASSUME IInv, NEW p \in Running, NEW c \in Cursor, NEW E, KernelStep(p, c, E),
         E \subseteq Event,
         p # "begin",
         c.started \subseteq c.ready,
         c.ready \subseteq 1 .. c.size,
         p \in {"context", "provider", "tool_prepare"} => c.started = {},
         p = "tool_execute" =>
           \A i \in c.ready : \E e \in E : e[2] = "open" /\ e[3] = CallOp(CallOf(c.reply, i))
  PROVE  IInv'
<1>1. TypeOK'
  BY DEF IInv, TypeOK, KernelStep, opsVars, foldVars, worldVars
<1>2. Pristine'
  BY DEF Pristine, KernelStep
<1>3. BatchAnnounced'
  BY DEF BatchAnnounced, KernelStep
<1>4. WriteAhead'
  BY DEF IInv, WriteAhead, KernelStep, opsVars, worldVars
<1> QED
  BY <1>1, <1>2, <1>3, <1>4 DEF IInv

-----------------------------------------------------------------------------
(* Appending an event: the operations on record only grow, and an event that*)
(* leaves the outbox with a start puts the operation on record.             *)
LEMMA AppendKeeps ==
  ASSUME IInv, AppendEvent
  PROVE  IInv'
<1>1. PICK e \in outbox :
        /\ \/ e[2] = "open"    /\ OpenOp(e[3])
           \/ e[2] = "close"   /\ CloseOp(e[3])
           \/ e[2] = "user"    /\ ApplyUser(e[3])
           \/ e[2] = "step"    /\ ApplyStep(e[3][2])
           \/ e[2] = "plan"    /\ ApplyToolCall(e[3])
           \/ e[2] = "result"  /\ ApplyToolResult(e[3])
           \/ e[2] = "ask"     /\ ApplyPendingInteraction(e[3])
           \/ e[2] = "resolve" /\ ApplyPendingResolution(e[3][2])
           \/ e[2] = "mode"    /\ ApplyMode(e[3])
        /\ Accepts(e)
        /\ outbox' = outbox \ {e}
        /\ UNCHANGED <<aged, ids, phase, cur, cancel, ran, faults, cut>>
  BY DEF AppendEvent
<1>2. e \in Event /\ outbox' \subseteq Event
  BY <1>1 DEF IInv, TypeOK
<1>3. /\ open \cup closed \subseteq open' \cup closed'
      /\ e[2] = "open" => e[3] \in open' \cup closed'
      /\ open' \subseteq Op /\ closed' \subseteq Op
  <2>1. open \subseteq Op /\ closed \subseteq Op
    BY DEF IInv, TypeOK
  <2>2. CASE e[2] = "open" /\ OpenOp(e[3])
    BY <1>2, <2>1, <2>2, EventCases DEF OpenOp
  <2>3. CASE e[2] = "close" /\ CloseOp(e[3])
    BY <1>2, <2>1, <2>3, EventCases DEF CloseOp
  <2>4. CASE e[2] \notin {"open", "close"}
    BY <1>1, <2>1, <2>4 DEF ApplyUser, ApplyStep, ApplyToolCall, ApplyToolResult,
       ApplyPendingInteraction, ApplyPendingResolution, ApplyMode, opsVars
  <2> QED
    BY <1>1, <2>2, <2>3, <2>4
<1>4. TypeOK'
  <2>1. /\ turn' \in Nat /\ steps' \in Nat /\ asks' \in Nat
        /\ planned' \subseteq Call /\ answered' \subseteq Call
        /\ mode' \in Modes
        /\ repeated' \subseteq {"ran", "answered"} \X Call
    BY <1>1, <1>2, EventCases DEF IInv, TypeOK, OpenOp, CloseOp, ApplyUser, ApplyStep,
       ApplyToolCall, ApplyToolResult, ApplyPendingInteraction, ApplyPendingResolution,
       ApplyMode, opsVars, foldVars, Checkpoint
  <2>2. asked' \subseteq Call /\ granted' \subseteq Call /\ pending' \in Checkpoint \cup {None}
    <3>1. \A p \in Checkpoint : AskedCall(p) \in Call
      BY CallTypes DEF AskedCall, Checkpoint
    <3>2. CASE e[2] = "ask" /\ ApplyPendingInteraction(e[3])
      BY <1>2, <3>1, <3>2, EventCases DEF IInv, TypeOK, ApplyPendingInteraction
    <3>3. CASE e[2] = "resolve" /\ ApplyPendingResolution(e[3][2])
      <4>1. pending \in Checkpoint
        BY <1>1, <3>3 DEF IInv, TypeOK, Accepts, None
      <4> QED
        BY <3>1, <3>3, <4>1 DEF IInv, TypeOK, ApplyPendingResolution
    <3>4. CASE e[2] \notin {"ask", "resolve"}
      BY <1>1, <3>4 DEF IInv, TypeOK, OpenOp, CloseOp, ApplyUser, ApplyStep,
         ApplyToolCall, ApplyToolResult, ApplyMode, foldVars
    <3> QED
      BY <1>1, <3>2, <3>3, <3>4
  <2> QED
    BY <1>1, <1>2, <1>3, <2>1, <2>2 DEF IInv, TypeOK
<1>5. Pristine'
  BY <1>1 DEF IInv, Pristine
<1>6. BatchAnnounced'
  BY <1>1, <1>3 DEF IInv, BatchAnnounced
<1>7. WriteAhead'
  BY <1>1, <1>3 DEF IInv, WriteAhead
<1> QED
  BY <1>4, <1>5, <1>6, <1>7 DEF IInv

(* Opening a transaction.                                                   *)
LEMMA BeginKeeps ==
  ASSUME IInv, NEW c \in Cursor, NEW E, NEW stop \in BOOLEAN, Begin(c, E, stop),
         E \subseteq Event, ids' \in Nat, c.ready = {}, c.started = {}
  PROVE  IInv'
<1>1. TypeOK'
  <2>1. c.turn \in Nat
    BY DEF Cursor
  <2> QED
    BY <2>1 DEF IInv, TypeOK, Begin, opsVars, foldVars, Running
<1>2. Pristine' /\ BatchAnnounced' /\ WriteAhead'
  BY DEF IInv, Pristine, BatchAnnounced, WriteAhead, Begin, opsVars
<1> QED
  BY <1>1, <1>2 DEF IInv

LEMMA InputKeeps ==
  ASSUME IInv, Input
  PROVE  IInv'
<1> USE DEF IInv
<1>1. ASSUME NEW input \in {"user", "switch", "command"}, NEW m \in Modes,
             NEW bootstrap \in BOOLEAN, SubmitTurn(input, m, bootstrap)
      PROVE  IInv'
  <2> DEFINE E == (IF bootstrap THEN {<<1, "mode", m>>} ELSE {})
                  \cup {<<2, "open", TurnOp(ids + 1)>>, <<3, "user", ids + 1>>}
  <2>0. ids' = ids + 1 /\ Begin(Fresh(input, ids + 1, m), E, FALSE)
    BY <1>1 DEF SubmitTurn
  <2>1. ids + 1 \in Nat /\ ids' \in Nat
    BY <2>0 DEF TypeOK
  <2>2. E \subseteq Event
    BY <2>1, EventTypes, OpTypes, ZenonT(40)
  <2>3. Fresh(input, ids + 1, m) \in Cursor
    BY <2>1, ParkedType
  <2>4. Fresh(input, ids + 1, m).ready = {} /\ Fresh(input, ids + 1, m).started = {}
    BY DEF Fresh
  <2> HIDE DEF E
  <2> QED
    BY <2>0, <2>1, <2>2, <2>3, <2>4, BeginKeeps
<1>2. ASSUME NEW approved \in BOOLEAN, NEW stop \in BOOLEAN, SubmitReply(approved, stop)
      PROVE  IInv'
  <2> DEFINE c == [Fresh("reply", turn, mode) EXCEPT !.approved = approved]
  <2>1. turn \in Nat /\ ids' \in Nat /\ mode \in Modes
    BY <1>2 DEF SubmitReply, TypeOK
  <2>2. Fresh("reply", turn, mode) \in Cursor
    BY <2>1, ParkedType
  <2>3. c \in Cursor
    BY <2>2 DEF Cursor
  <2>4. c.ready = {} /\ c.started = {}
    BY DEF Fresh
  <2>5. {<<1, "open", TurnOp(turn)>>} \subseteq Event
    BY <2>1, EventTypes, OpTypes
  <2>6. Begin(c, {<<1, "open", TurnOp(turn)>>}, stop)
    BY <1>2 DEF SubmitReply
  <2> HIDE DEF c
  <2> QED
    BY <2>1, <2>3, <2>4, <2>5, <2>6, BeginKeeps
<1>3. ASSUME NEW m \in Modes, ApplyHostMode(m)
      PROVE  IInv'
  <2>1. TypeOK'
    BY <1>3 DEF TypeOK, ApplyHostMode, opsVars, processVars, worldVars
  <2>2. Pristine' /\ BatchAnnounced' /\ WriteAhead'
    BY <1>3 DEF Pristine, BatchAnnounced, WriteAhead, ApplyHostMode, opsVars, processVars, worldVars
  <2> QED
    BY <2>1, <2>2
<1>4. mode \in Modes /\ (ids = 0) \in BOOLEAN
  BY DEF TypeOK
<1> HIDE DEF IInv
<1> QED
  BY <1>1, <1>2, <1>3, <1>4 DEF Input

-----------------------------------------------------------------------------
(* Kernel steps.                                                            *)
LEMMA StepEventTypes ==
  ASSUME NEW n \in Nat, NEW c \in Cursor
  PROVE  /\ \A t, s \in Nat : StepStarted(t, s) \subseteq Event
         /\ StepFinished(n, c) \subseteq Event
         /\ \A m \in Modes : Transition(n, c, m) \subseteq Event
<1>1. c.turn \in Nat /\ c.step \in Nat
  BY DEF Cursor
<1>2. \A t, s \in Nat : StepStarted(t, s) \subseteq Event
  BY OpTypes, EventTypes DEF StepStarted
<1>3. StepFinished(n, c) \subseteq Event
  BY <1>1, OpTypes, EventTypes DEF StepFinished
<1>4. \A m \in Modes : Transition(n, c, m) \subseteq Event
  <2>1. n + 1 \in Nat /\ n + 2 \in Nat /\ n + 3 \in Nat
    OBVIOUS
  <2>2. SaveOp(c.turn, c.step) \in Op /\ TurnOp(c.turn) \in Op
    BY <1>1, OpTypes
  <2> QED
    BY <2>1, <2>2, EventTypes DEF Transition
<1> QED
  BY <1>2, <1>3, <1>4

LEMMA FailKeeps ==
  ASSUME IInv, NEW rank \in Nat, NEW events \in SUBSET Event, NEW unclosed \in SUBSET Op,
         Fail(rank, events, unclosed)
  PROVE  IInv'
<1> DEFINE E == events \cup {<<rank, "close", o>> : o \in {cur.op} \cup unclosed}
                \cup StepFinished(rank + 1, cur) \cup Transition(rank + 2, cur, cur.mode)
<1>1. cur \in Cursor /\ cur.op \in Op /\ cur.mode \in Modes
  BY DEF IInv, TypeOK, Cursor
<1>2. {<<rank, "close", o>> : o \in {cur.op} \cup unclosed} \subseteq Event
  BY <1>1, EventTypes
<1>3. rank + 1 \in Nat /\ rank + 2 \in Nat
  OBVIOUS
<1>4. E \subseteq Event
  BY <1>1, <1>2, <1>3, StepEventTypes
<1>5. KernelStep("done", cur, E)
  BY DEF Fail
<1>6. cur.started \subseteq cur.ready /\ cur.ready \subseteq 1 .. cur.size
  BY DEF IInv, TypeOK
<1> HIDE DEF E
<1> QED
  BY <1>1, <1>4, <1>5, <1>6, KernelStepKeeps DEF Running

LEMMA BeginStepsKeep ==
  ASSUME IInv, Start \/ FinishModeSwitchTurn \/ CommandTool \/ ResumePreparation
  PROVE  IInv'
<1> DEFINE t == cur.turn
           s == NextStep
<1>1. /\ cur \in Cursor /\ t \in Nat /\ s \in Nat /\ cur.mode \in Modes
      /\ phase = "begin" => cur.ready = {} /\ cur.started = {}
  BY DEF IInv, TypeOK, Pristine, Cursor, NextStep
<1>2. StepStarted(t, s) \subseteq Event
  BY <1>1, StepEventTypes
<1>3. CASE Start
  <2> DEFINE o == EffectOp("context", t, s, 0)
             c == [cur EXCEPT !.step = s, !.op = o]
             E == StepStarted(t, s) \cup {<<3, "open", o>>}
  <2>1. o \in Op
    BY <1>1, OpTypes DEF EffectKind
  <2>2. c \in Cursor /\ c.ready = cur.ready /\ c.started = cur.started
    BY <1>1, <2>1 DEF Cursor
  <2>3. E \subseteq Event
    BY <1>2, <2>1, EventTypes
  <2>4. KernelStep("context", c, E) /\ phase = "begin"
    BY <1>3 DEF Start, Loop
  <2> HIDE DEF o, c, E
  <2> QED
    BY <1>1, <2>2, <2>3, <2>4, KernelStepKeeps DEF Running
<1>4. CASE FinishModeSwitchTurn
  <2> DEFINE c == [cur EXCEPT !.step = s]
             E == StepStarted(t, s)
                  \cup {<<3, "open", SaveOp(t, s)>>, <<4, "mode", cur.mode>>,
                        <<5, "close", SaveOp(t, s)>>}
                  \cup StepFinished(6, c) \cup {<<7, "close", TurnOp(t)>>}
  <2>1. c \in Cursor /\ c.ready = cur.ready /\ c.started = cur.started
    BY <1>1 DEF Cursor
  <2>2. SaveOp(t, s) \in Op /\ TurnOp(t) \in Op
    BY <1>1, OpTypes
  <2>3. StepFinished(6, c) \subseteq Event
    BY <2>1, StepEventTypes
  <2>4. E \subseteq Event
    <3>1. <<3, "open", SaveOp(t, s)>> \in Event /\ <<5, "close", SaveOp(t, s)>> \in Event
      BY <2>2, EventTypes
    <3>2. <<4, "mode", cur.mode>> \in Event /\ <<7, "close", TurnOp(t)>> \in Event
      BY <1>1, <2>2, EventTypes
    <3> QED
      BY <1>2, <2>3, <3>1, <3>2
  <2>5. KernelStep("done", c, E) /\ phase = "begin"
    BY <1>4 DEF FinishModeSwitchTurn, Loop
  <2> HIDE DEF c, E
  <2> QED
    BY <1>1, <2>1, <2>4, <2>5, KernelStepKeeps DEF Running
<1>5. CASE CommandTool
  <2> DEFINE o == EffectOp("tool-prepare", t, s, 0)
             r == <<t, s, 0>>
             c == [cur EXCEPT !.step = s, !.op = o, !.reply = r, !.size = 1, !.then = "complete"]
             E == StepStarted(t, s) \cup {<<3, "plan", CallOf(r, 1)>>, <<4, "open", o>>}
  <2>1. o \in Op /\ r \in Reply
    BY <1>1, OpTypes DEF EffectKind, Reply
  <2>2. c \in Cursor /\ c.ready = cur.ready /\ c.started = cur.started
    BY <1>1, <2>1 DEF Cursor
  <2>3. E \subseteq Event
    BY <1>2, <2>1, EventTypes, CallTypes
  <2>4. KernelStep("tool_prepare", c, E) /\ phase = "begin"
    BY <1>5 DEF CommandTool, Loop
  <2> HIDE DEF o, r, c, E
  <2> QED
    BY <1>1, <2>2, <2>3, <2>4, KernelStepKeeps DEF Running
<1>6. CASE ResumePreparation
  <2> DEFINE o == EffectOp("tool-prepare", t, s, 0)
             c == [ContinueFrom(pending) EXCEPT !.step = s, !.op = o]
             E == StepStarted(t, s)
                  \cup {<<3, "resolve", <<pending.id, cur.approved>>>>,
                        <<4, "close", PendingOp(pending.id)>>, <<5, "open", o>>}
  <2>1. KernelStep("tool_prepare", c, E) /\ phase = "begin" /\ pending.id # 0
    BY <1>6 DEF ResumePreparation, Loop
  <2>2. pending \in Checkpoint
    BY <2>1 DEF IInv, TypeOK, None
  <2>3. o \in Op /\ pending.id \in Nat /\ PendingOp(pending.id) \in Op
    BY <1>1, <2>2, OpTypes DEF EffectKind, Checkpoint
  <2>4. ContinueFrom(pending) \in Cursor
    BY <1>1, <2>2 DEF ContinueFrom, Cursor, Checkpoint
  <2>5. c \in Cursor
    BY <1>1, <2>3, <2>4 DEF Cursor
  <2>6. c.ready \subseteq 1 .. c.size /\ c.started = cur.started
    BY <1>1, <2>2, <2>4 DEF ContinueFrom, Cursor, Checkpoint
  <2>7. cur.approved \in BOOLEAN
    BY <1>1 DEF Cursor
  <2>8. E \subseteq Event
    BY <1>2, <2>3, <2>7, EventTypes, ZenonT(40)
  <2> HIDE DEF o, c, E
  <2> QED
    BY <1>1, <2>1, <2>5, <2>6, <2>8, KernelStepKeeps DEF Running
<1> QED
  BY <1>3, <1>4, <1>5, <1>6

(* Updates of the part of a cursor that describes the batch. *)
LEMMA CursorUpdates ==
  ASSUME NEW c \in Cursor
  PROVE  /\ \A n \in Nat \ {0} : [c EXCEPT !.from = n] \in Cursor
         /\ \A R \in SUBSET Nat : [c EXCEPT !.ready = R] \in Cursor
         /\ \A R \in SUBSET Nat : [c EXCEPT !.started = R] \in Cursor
         /\ \A b \in BOOLEAN : [c EXCEPT !.resumed = b] \in Cursor
         /\ \A m \in Modes : [c EXCEPT !.mode = m] \in Cursor
         /\ \A r \in Reply, n \in Nat : [c EXCEPT !.reply = r, !.size = n] \in Cursor
         /\ \A s \in Nat, o \in Op : [c EXCEPT !.step = s, !.op = o] \in Cursor
<1>1. ASSUME NEW n \in Nat \ {0} PROVE [c EXCEPT !.from = n] \in Cursor
  BY DEF Cursor
<1>2. ASSUME NEW R \in SUBSET Nat
      PROVE  [c EXCEPT !.ready = R] \in Cursor /\ [c EXCEPT !.started = R] \in Cursor
  BY DEF Cursor
<1>3. ASSUME NEW b \in BOOLEAN PROVE [c EXCEPT !.resumed = b] \in Cursor
  BY DEF Cursor
<1>4. ASSUME NEW m \in Modes PROVE [c EXCEPT !.mode = m] \in Cursor
  BY DEF Cursor
<1>5. ASSUME NEW r \in Reply, NEW n \in Nat
      PROVE  [c EXCEPT !.reply = r, !.size = n] \in Cursor
  BY DEF Cursor
<1>6. ASSUME NEW s \in Nat, NEW o \in Op
      PROVE  [c EXCEPT !.step = s, !.op = o] \in Cursor
  BY DEF Cursor
<1> QED
  BY <1>1, <1>2, <1>3, <1>4, <1>5, <1>6

(* A reply that passed the preflight brings the ids its calls are known by. *)
LEMMA AcceptedIds ==
  ASSUME NEW n, AcceptActions(n)
  PROVE  /\ InEffect("provider")
         /\ KernelStep("tool_prepare",
              [cur EXCEPT !.op = EffectOp("tool-prepare", cur.turn, cur.step, cur.attempt),
                          !.reply = <<cur.turn, cur.step, cur.attempt>>, !.size = n, !.from = 1,
                          !.ready = {}, !.resumed = FALSE],
              {<<1, "close", cur.op>>}
              \cup {<<1 + i, "plan", CallOf(<<cur.turn, cur.step, cur.attempt>>, i)>> : i \in 1 .. n}
              \cup {<<n + 2, "open", EffectOp("tool-prepare", cur.turn, cur.step, cur.attempt)>>})
<1> DEFINE o == EffectOp("tool-prepare", cur.turn, cur.step, cur.attempt)
           r == <<cur.turn, cur.step, cur.attempt>>
           c == [cur EXCEPT !.op = o, !.reply = r, !.size = n, !.from = 1, !.ready = {},
                            !.resumed = FALSE]
           E(names) == {<<1, "close", cur.op>>} \cup {<<1 + i, "plan", names[i]>> : i \in 1 .. n}
                       \cup {<<n + 2, "open", o>>}
<1>1. PICK names \in ProviderIds(r, n) : Preflight(names) /\ KernelStep("tool_prepare", c, E(names))
  BY DEF AcceptActions
<1>2. \A i \in 1 .. n : names[i] = CallOf(r, i)
  <2>1. DOMAIN names = 1 .. n
    BY DEF ProviderIds
  <2> QED
    BY <1>1, <2>1 DEF ProviderIds, Preflight
<1>3. {<<1 + i, "plan", names[i]>> : i \in 1 .. n} = {<<1 + i, "plan", CallOf(r, i)>> : i \in 1 .. n}
  BY <1>2
<1>4. KernelStep("tool_prepare", c,
        {<<1, "close", cur.op>>} \cup {<<1 + i, "plan", CallOf(r, i)>> : i \in 1 .. n}
        \cup {<<n + 2, "open", o>>})
  BY <1>1, <1>3
<1> QED
  BY <1>4 DEF AcceptActions

(* A reply that is refused ends the turn as an exception does.              *)
LEMMA RefusedReply == \A n : RefuseReply(n) => Raise
BY DEF RefuseReply

LEMMA EffectStepsKeep ==
  ASSUME IInv,
         \/ EffectCancelled \/ AcceptContext \/ AcceptAnswer
         \/ \E n \in 1 .. MaxCalls : AcceptActions(n)
         \/ CompactRetry \/ ProviderFails
  PROVE  IInv'
<1> DEFINE t == cur.turn
           s == cur.step
           a == cur.attempt
<1>1. /\ cur \in Cursor /\ t \in Nat /\ s \in Nat /\ a \in Nat /\ cur.mode \in Modes
      /\ cur.op \in Op /\ cur.reply \in Reply /\ cur.size \in Nat
      /\ cur.started \subseteq cur.ready /\ cur.ready \subseteq 1 .. cur.size
      /\ cur.ready \subseteq Nat
  BY DEF IInv, TypeOK, Cursor
<1>2. phase \in {"context", "provider", "tool_prepare"} => cur.started = {}
  BY DEF IInv, Pristine
<1>3. CASE EffectCancelled
  <2>1. {CallOp(c) : c \in Batch} \subseteq Op
    BY <1>1, CallTypes, CallOpType DEF Batch, CallsOf
  <2> QED
    BY <1>3, <2>1, FailKeeps DEF EffectCancelled
<1>4. CASE AcceptContext
  <2> DEFINE o == EffectOp("provider", t, s, a + 1)
             c == [cur EXCEPT !.attempt = a + 1, !.op = o]
             E == {<<1, "close", cur.op>>, <<2, "open", o>>}
  <2>1. o \in Op /\ a + 1 \in Nat
    BY <1>1, OpTypes DEF EffectKind
  <2>2. c \in Cursor /\ c.ready = cur.ready /\ c.started = cur.started /\ c.size = cur.size
    <3> HIDE DEF o, a
    <3>1. c \in Cursor
      BY <1>1, <2>1 DEF Cursor
    <3>2. c.ready = cur.ready /\ c.started = cur.started /\ c.size = cur.size
      BY <1>1 DEF Cursor
    <3> QED
      BY <3>1, <3>2
  <2>3. E \subseteq Event
    BY <1>1, <2>1, EventTypes
  <2>4. KernelStep("provider", c, E) /\ phase = "context"
    BY <1>4 DEF AcceptContext, InEffect, EffectDue
  <2> HIDE DEF o, c, E
  <2> QED
    BY <1>1, <1>2, <2>2, <2>3, <2>4, KernelStepKeeps DEF Running
<1>5. CASE AcceptAnswer
  <2> DEFINE E == {<<1, "close", cur.op>>} \cup StepFinished(2, cur) \cup Transition(3, cur, cur.mode)
  <2>1. E \subseteq Event
    BY <1>1, StepEventTypes, EventTypes
  <2>2. KernelStep("done", cur, E)
    BY <1>5 DEF AcceptAnswer
  <2> HIDE DEF E
  <2> QED
    BY <1>1, <2>1, <2>2, KernelStepKeeps DEF Running
<1>6. ASSUME NEW n \in 1 .. MaxCalls, AcceptActions(n)
      PROVE  IInv'
  <2> DEFINE o == EffectOp("tool-prepare", t, s, a)
             r == <<t, s, a>>
             c == [cur EXCEPT !.op = o, !.reply = r, !.size = n, !.from = 1, !.ready = {},
                              !.resumed = FALSE]
             P == {<<1 + i, "plan", CallOf(r, i)>> : i \in 1 .. n}
             E == {<<1, "close", cur.op>>} \cup P \cup {<<n + 2, "open", o>>}
  <2>1. o \in Op /\ r \in Reply /\ n \in Nat /\ n + 2 \in Nat
    BY <1>1, OpTypes, AgentTurnAssumption DEF EffectKind, Reply
  <2>2. c \in Cursor /\ c.ready = {} /\ c.started = cur.started
    <3> DEFINE d == [cur EXCEPT !.op = o, !.reply = r, !.size = n]
    <3> HIDE DEF o, r
    <3>1. d \in Cursor
      BY <1>1, <2>1 DEF Cursor
    <3>2. d.ready = cur.ready /\ d.started = cur.started
      BY <1>1 DEF Cursor
    <3>3. c = [[[d EXCEPT !.from = 1] EXCEPT !.ready = {}] EXCEPT !.resumed = FALSE]
      OBVIOUS
    <3> DEFINE f == [d EXCEPT !.from = 1]
               g == [f EXCEPT !.ready = {}]
    <3> HIDE DEF d
    <3>4. 1 \in Nat \ {0} /\ {} \in SUBSET Nat
      OBVIOUS
    <3>5. f \in Cursor
      BY <3>1, <3>4, CursorUpdates
    <3>6. g \in Cursor
      <4> HIDE DEF f
      <4> QED BY <3>4, <3>5, CursorUpdates
    <3>7. c \in Cursor
      <4>1. c = [g EXCEPT !.resumed = FALSE]
        BY <3>3
      <4> HIDE DEF c, g
      <4> QED BY <3>6, <4>1, CursorUpdates
    <3>8. c.ready = {} /\ c.started = cur.started
      BY <1>1 DEF Cursor
    <3> QED
      BY <3>7, <3>8
  <2>3. P \subseteq Event
    <3> SUFFICES ASSUME NEW i \in 1 .. n PROVE <<1 + i, "plan", CallOf(r, i)>> \in Event
      OBVIOUS
    <3>1. i \in Nat /\ 1 + i \in Nat
      BY <2>1
    <3>2. CallOf(r, i) \in Call
      BY <2>1, <3>1, CallTypes
    <3> QED
      BY <3>1, <3>2, EventTypes
  <2>4. E \subseteq Event
    BY <1>1, <2>1, <2>3, EventTypes
  <2>5. KernelStep("tool_prepare", c, E) /\ phase = "provider"
    BY <1>6, AcceptedIds DEF InEffect, EffectDue
  <2> HIDE DEF o, r, c, P, E
  <2> QED
    BY <1>1, <1>2, <2>2, <2>4, <2>5, KernelStepKeeps DEF Running
<1>7. CASE CompactRetry
  <2> DEFINE o == EffectOp("context-compact", t, s, a)
             c == [cur EXCEPT !.op = o, !.compacted = TRUE]
             E == {<<1, "close", cur.op>>, <<2, "mode", cur.mode>>, <<3, "open", o>>}
  <2>1. o \in Op
    BY <1>1, OpTypes DEF EffectKind
  <2>2. c \in Cursor /\ c.ready = cur.ready /\ c.started = cur.started /\ c.size = cur.size
    BY <1>1, <2>1 DEF Cursor
  <2>3. E \subseteq Event
    BY <1>1, <2>1, EventTypes
  <2>4. KernelStep("context", c, E) /\ phase = "provider"
    BY <1>7 DEF CompactRetry, InEffect, EffectDue
  <2> HIDE DEF o, c, E
  <2> QED
    BY <1>1, <1>2, <2>2, <2>3, <2>4, KernelStepKeeps DEF Running
<1>8. CASE ProviderFails
  BY <1>8, FailKeeps DEF ProviderFails
<1> QED
  BY <1>3, <1>4, <1>5, <1>6, <1>7, <1>8

-----------------------------------------------------------------------------
(* Tool steps.                                                              *)
LEMMA AfterToolsKeeps ==
  ASSUME IInv, NEW rank \in Nat, NEW events \in SUBSET Event, AfterTools(rank, events)
  PROVE  IInv'
<1>1. /\ cur \in Cursor /\ cur.turn \in Nat /\ cur.step \in Nat /\ cur.attempt \in Nat
      /\ cur.op \in Op
      /\ cur.started \subseteq cur.ready /\ cur.ready \subseteq 1 .. cur.size
  BY DEF IInv, TypeOK, Cursor
<1>2. /\ rank + 1 \in Nat /\ rank + 2 \in Nat /\ rank + 3 \in Nat /\ rank + 4 \in Nat
      /\ cur.step + 1 \in Nat
  BY <1>1
<1>3. events \cup {<<rank, "close", cur.op>>} \cup StepFinished(rank + 1, cur) \subseteq Event
  BY <1>1, <1>2, EventTypes, StepEventTypes
<1>4. CASE Fail(rank, events, {})
  <2>1. {} \in SUBSET Op
    OBVIOUS
  <2> QED
    BY <1>4, <2>1, FailKeeps
<1>5. ASSUME NEW m \in Modes, AdvanceAfterTools(rank, events, m), cur.then = "complete"
      PROVE  IInv'
  <2> DEFINE c == [cur EXCEPT !.mode = m]
             E == events \cup {<<rank, "close", cur.op>>} \cup StepFinished(rank + 1, cur)
                         \cup Transition(rank + 2, cur, m)
  <2>1. c \in Cursor
    BY <1>1, CursorUpdates
  <2>2. c.started = cur.started /\ c.ready = cur.ready /\ c.size = cur.size
    BY <1>1 DEF Cursor
  <2>3. E \subseteq Event
    BY <1>1, <1>2, <1>3, StepEventTypes
  <2>4. KernelStep("done", c, E)
    BY <1>5 DEF AdvanceAfterTools
  <2> HIDE DEF c, E
  <2> QED
    BY <1>1, <2>1, <2>2, <2>3, <2>4, KernelStepKeeps DEF Running
<1>6. ASSUME NEW m \in Modes, AdvanceAfterTools(rank, events, m), cur.then # "complete"
      PROVE  IInv'
  <2> DEFINE s == cur.step + 1
             o == EffectOp("context", cur.turn, s, cur.attempt)
             r == <<0, 0, 0>>
             d1 == [cur EXCEPT !.step = s, !.op = o]
             d2 == [d1 EXCEPT !.mode = m]
             d3 == [d2 EXCEPT !.reply = r, !.size = 0]
             d4 == [d3 EXCEPT !.from = 1]
             d5 == [d4 EXCEPT !.ready = {}]
             d6 == [d5 EXCEPT !.started = {}]
             d7 == [d6 EXCEPT !.resumed = FALSE]
             c == [cur EXCEPT !.step = s, !.op = o, !.mode = m, !.reply = r, !.size = 0,
                              !.from = 1, !.ready = {}, !.started = {}, !.resumed = FALSE]
             E == events \cup {<<rank, "close", cur.op>>} \cup StepFinished(rank + 1, cur)
                    \cup {<<rank + 2, "step", <<cur.turn, s>>>>,
                          <<rank + 3, "open", StepOp(cur.turn, s)>>, <<rank + 4, "open", o>>}
  <2>1. s \in Nat /\ o \in Op /\ r \in Reply /\ StepOp(cur.turn, s) \in Op
    BY <1>1, <1>2, OpTypes DEF EffectKind, Reply
  <2>2. 1 \in Nat \ {0} /\ {} \in SUBSET Nat /\ 0 \in Nat
    OBVIOUS
  <2>3. c = d7
    OBVIOUS
  <2>4. c \in Cursor
    <3> HIDE DEF s, o, r, c, d1, d2, d3, d4, d5, d6, d7
    <3>1. d1 \in Cursor
      BY <1>1, <2>1, CursorUpdates DEF d1
    <3>2. d2 \in Cursor
      BY <3>1, CursorUpdates DEF d2
    <3>3. d3 \in Cursor
      BY <2>1, <2>2, <3>2, CursorUpdates DEF d3
    <3>4. d4 \in Cursor
      BY <2>2, <3>3, CursorUpdates DEF d4
    <3>5. d5 \in Cursor
      BY <2>2, <3>4, CursorUpdates DEF d5
    <3>6. d6 \in Cursor
      BY <2>2, <3>5, CursorUpdates DEF d6
    <3>7. d7 \in Cursor
      BY <3>6, CursorUpdates DEF d7
    <3> QED
      BY <2>3, <3>7
  <2>5. c.started = {} /\ c.ready = {}
    BY <1>1 DEF Cursor
  <2>6. E \subseteq Event
    <3> HIDE DEF s, o
    <3> QED BY <1>1, <1>2, <1>3, <2>1, EventTypes
  <2>7. KernelStep("context", c, E)
    BY <1>6 DEF AdvanceAfterTools
  <2> HIDE DEF c, E
  <2> QED
    BY <1>1, <2>4, <2>5, <2>6, <2>7, KernelStepKeeps DEF Running
<1> QED
  BY <1>4, <1>5, <1>6 DEF AfterTools

(* The events of a batch have their type.                                   *)
LEMMA BatchEventTypes ==
  ASSUME IInv
  PROVE  /\ \A I \in SUBSET Nat : ImmediateResults(I) \subseteq Event
         /\ ToolResults \subseteq Event
         /\ \A rank \in Nat, I \in SUBSET Nat : ExecutionStarts(rank, I) \subseteq Event
<1>1. cur.reply \in Reply /\ cur.ready \in SUBSET Nat
  BY DEF IInv, TypeOK, Cursor
<1>2. \A i \in Nat : CallOf(cur.reply, i) \in Call /\ CallOp(CallOf(cur.reply, i)) \in Op
  BY <1>1, CallTypes, CallOpType
<1>3. ASSUME NEW I \in SUBSET Nat
      PROVE  ImmediateResults(I) \subseteq Event
  BY <1>2, EventTypes DEF ImmediateResults
<1>4. ToolResults \subseteq Event
  <2>1. ASSUME NEW i \in cur.ready
        PROVE  /\ <<2 * i, "result", CallOf(cur.reply, i)>> \in Event
               /\ <<2 * i + 1, "close", CallOp(CallOf(cur.reply, i))>> \in Event
    <3>1. i \in Nat /\ 2 * i \in Nat /\ 2 * i + 1 \in Nat
      BY <1>1
    <3> QED
      BY <1>2, <3>1, EventTypes
  <2> QED
    BY <2>1 DEF ToolResults
<1>5. ASSUME NEW rank \in Nat, NEW I \in SUBSET Nat
      PROVE  ExecutionStarts(rank, I) \subseteq Event
  <2>1. ASSUME NEW i \in I
        PROVE  <<rank + i, "open", CallOp(CallOf(cur.reply, i))>> \in Event
    <3>1. rank + i \in Nat
      OBVIOUS
    <3> QED
      BY <1>2, <3>1, EventTypes
  <2> QED
    BY <2>1 DEF ExecutionStarts
<1> QED
  BY <1>3, <1>4, <1>5

(* The checkpoint of a question has its type.                               *)
LEMMA CheckpointType ==
  ASSUME IInv, NEW k \in cur.from .. cur.size, NEW R \in SUBSET (cur.from .. (k - 1))
  PROVE  CheckpointAt(k, R) \in Checkpoint
<1> DEFINE p == CheckpointAt(k, R)
<1>1. /\ cur.reply \in Reply /\ cur.mode \in Modes /\ cur.then \in {"context", "complete"}
      /\ cur.size \in Nat /\ cur.from \in Nat \ {0} /\ cur.ready \subseteq 1 .. cur.size
      /\ asks \in Nat
  BY DEF IInv, TypeOK, Cursor
<1>2. k \in Nat \ {0} /\ asks + 1 \in Nat \ {0}
  BY <1>1
<1>3. cur.ready \cup R \subseteq 1 .. cur.size
  <2>1. cur.from .. (k - 1) \subseteq 1 .. cur.size
    BY <1>1, <1>2
  <2> QED
    BY <1>1, <2>1
<1>4. cur.ready \cup R \in SUBSET Nat
  BY <1>1, <1>3
<1>5. p \in [id : Nat \ {0}, reply : Reply, size : Nat, at : Nat \ {0}, ready : SUBSET Nat,
             mode : Modes, then : {"context", "complete"}]
  BY <1>1, <1>2, <1>4 DEF CheckpointAt
<1>6. p.ready \subseteq 1 .. p.size
  BY <1>3 DEF CheckpointAt
<1> QED
  BY <1>5, <1>6 DEF Checkpoint

LEMMA ToolStepsKeep ==
  ASSUME IInv,
         \/ \E R \in SUBSET (1 .. MaxCalls) : AcceptPrepared(R)
         \/ AcceptImmediate
         \/ \E k \in 1 .. MaxCalls, R \in SUBSET (1 .. MaxCalls) : SuspendPreparation(k, R)
         \/ \E i \in 1 .. MaxCalls : RunTool(i)
         \/ FinishTools
  PROVE  IInv'
<1>1. /\ cur \in Cursor /\ cur.turn \in Nat /\ cur.step \in Nat /\ cur.attempt \in Nat
      /\ cur.op \in Op /\ cur.reply \in Reply /\ cur.size \in Nat /\ cur.from \in Nat \ {0}
      /\ cur.mode \in Modes
      /\ cur.started \subseteq cur.ready /\ cur.ready \subseteq 1 .. cur.size
      /\ asks \in Nat
  BY DEF IInv, TypeOK, Cursor
<1>2. phase = "tool_prepare" => cur.started = {}
  BY DEF IInv, Pristine
<1>3. ASSUME NEW R, AcceptPrepared(R)
      PROVE  IInv'
  <2> DEFINE I == cur.from .. cur.size
             ready == cur.ready \cup R
             o == EffectOp("tools", cur.turn, cur.step, cur.attempt)
             c == [cur EXCEPT !.op = o, !.ready = ready]
             E == ImmediateResults(I \ R)
                    \cup {<<cur.size + 1, "close", cur.op>>}
                    \cup ExecutionStarts(cur.size + 1, ready)
                    \cup {<<2 * cur.size + 2, "open", o>>}
  <2>1. /\ phase = "tool_prepare" /\ R \in ReadyAllowed(I)
        /\ KernelStep("tool_execute", c, E)
    BY <1>3 DEF AcceptPrepared, InEffect, EffectDue
  <2>2. R \subseteq I
    BY <2>1 DEF ReadyAllowed
  <2>3. ready \subseteq 1 .. cur.size
    <3>1. I \subseteq 1 .. cur.size
      BY <1>1
    <3> HIDE DEF I
    <3> QED
      BY <1>1, <2>2, <3>1
  <2>4. ready \in SUBSET Nat /\ I \ R \in SUBSET Nat /\ o \in Op
    BY <1>1, <2>3, OpTypes DEF EffectKind
  <2>5. c \in Cursor
    <3> HIDE DEF ready, o
    <3> QED BY <1>1, <2>4 DEF Cursor
  <2>6. /\ c.ready = ready /\ c.started = cur.started /\ c.size = cur.size
        /\ c.reply = cur.reply
    BY <1>1 DEF Cursor
  <2>7. E \subseteq Event
    <3>1. cur.size + 1 \in Nat /\ 2 * cur.size + 2 \in Nat
      BY <1>1
    <3> HIDE DEF I, ready, o
    <3> QED
      BY <1>1, <2>4, <3>1, BatchEventTypes, EventTypes
  <2>8. ASSUME NEW i \in c.ready
        PROVE  \E e \in E : e[2] = "open" /\ e[3] = CallOp(CallOf(c.reply, i))
    <3>1. <<cur.size + 1 + i, "open", CallOp(CallOf(cur.reply, i))>>
            \in ExecutionStarts(cur.size + 1, ready)
      BY <2>6 DEF ExecutionStarts
    <3> QED
      BY <2>6, <3>1
  <2>9. c.started \subseteq c.ready /\ c.ready \subseteq 1 .. c.size
    BY <1>2, <2>1, <2>3, <2>6
  <2> HIDE DEF c, E
  <2> QED
    BY <2>1, <2>5, <2>7, <2>8, <2>9, KernelStepKeeps DEF Running
<1>4. CASE AcceptImmediate
  <2>1. cur.from .. cur.size \in SUBSET Nat /\ cur.size + 1 \in Nat
    BY <1>1
  <2>2. ImmediateResults(cur.from .. cur.size) \in SUBSET Event
    BY <2>1, BatchEventTypes
  <2> QED
    BY <1>4, <2>1, <2>2, AfterToolsKeeps DEF AcceptImmediate
<1>5. ASSUME NEW k, NEW R, SuspendPreparation(k, R)
      PROVE  IInv'
  <2> DEFINE I == cur.from .. (k - 1)
             p == CheckpointAt(k, R)
             E == ImmediateResults(I \ R)
                    \cup {<<k, "ask", p>>} \cup StepFinished(k + 1, cur)
                    \cup {<<k + 2, "close", cur.op>>, <<k + 3, "open", PendingOp(p.id)>>}
                    \cup Transition(k + 4, cur, cur.mode)
  <2>1. /\ k \in cur.from .. cur.size /\ R \in ReadyAllowed(I)
        /\ KernelStep("done", cur, E)
    BY <1>5 DEF SuspendPreparation
  <2>2. /\ k \in Nat /\ k + 1 \in Nat /\ k + 2 \in Nat /\ k + 3 \in Nat /\ k + 4 \in Nat
        /\ I \in SUBSET Nat /\ I \ R \in SUBSET Nat
    BY <1>1, <2>1, SMTT(40)
  <2>3. R \subseteq I
    BY <2>1 DEF ReadyAllowed
  <2>4. p \in Checkpoint
    BY <2>1, <2>3, CheckpointType
  <2>5. p.id \in Nat
    BY <2>4 DEF Checkpoint
  <2>6. E \subseteq Event
    <3>1. PendingOp(p.id) \in Op
      BY <2>5, OpTypes
    <3>2. ImmediateResults(I \ R) \subseteq Event
      BY <2>2, BatchEventTypes
    <3>3. StepFinished(k + 1, cur) \subseteq Event /\ Transition(k + 4, cur, cur.mode) \subseteq Event
      BY <1>1, <2>2, StepEventTypes
    <3>4. <<k, "ask", p>> \in Event
      BY <2>2, <2>4, EventTypes
    <3>5. <<k + 2, "close", cur.op>> \in Event /\ <<k + 3, "open", PendingOp(p.id)>> \in Event
      BY <1>1, <2>2, <3>1, EventTypes
    <3> QED
      BY <3>2, <3>3, <3>4, <3>5
  <2> HIDE DEF E
  <2> QED
    BY <1>1, <2>1, <2>6, KernelStepKeeps DEF Running
<1>6. ASSUME NEW i, RunTool(i)
      PROVE  IInv'
  <2> DEFINE c == CallOf(cur.reply, i)
  <2>1. /\ phase = "tool_execute" /\ outbox = {} /\ i \in cur.ready
        /\ cur' = [cur EXCEPT !.started = @ \cup {i}]
        /\ ran' = ran \cup {c}
        /\ repeated' = repeated \cup {<<"ran", d>> : d \in ran \cap {c}}
        /\ UNCHANGED <<opsVars, foldVars, aged, ids, phase, outbox, cancel, faults, cut>>
    BY <1>6 DEF RunTool, InEffect, EffectDue, Dispatchable
  <2>2. i \in Nat /\ c \in Call
    BY <1>1, <2>1, CallTypes
  <2>3. cur.started \cup {i} \in SUBSET Nat
    BY <1>1, <2>1, <2>2
  <2>4. cur' \in Cursor
    BY <1>1, <2>1, <2>3, CursorUpdates
  <2>5. /\ cur'.ready = cur.ready /\ cur'.started = cur.started \cup {i}
        /\ cur'.size = cur.size /\ cur'.reply = cur.reply
    BY <1>1, <2>1 DEF Cursor
  <2>6. TypeOK'
    BY <1>1, <2>1, <2>2, <2>4, <2>5 DEF IInv, TypeOK, opsVars, foldVars
  <2>7. Pristine'
    BY <2>1 DEF Pristine
  <2>8. CallOp(c) \in open \cup closed
    BY <2>1 DEF IInv, BatchAnnounced
  <2>9. BatchAnnounced'
    BY <2>1, <2>5 DEF IInv, BatchAnnounced, opsVars
  <2>10. WriteAhead'
    BY <2>1, <2>8 DEF IInv, WriteAhead, opsVars
  <2> QED
    BY <2>6, <2>7, <2>9, <2>10 DEF IInv
<1>7. CASE FinishTools
  <2>1. 2 * cur.size + 2 \in Nat /\ {} \in SUBSET Op
    BY <1>1
  <2>2. ToolResults \in SUBSET Event
    BY BatchEventTypes
  <2>3. CASE Fail(2 * cur.size + 2, ToolResults, {})
    BY <2>1, <2>2, <2>3, FailKeeps
  <2>4. CASE AfterTools(2 * cur.size + 2, ToolResults)
    BY <2>1, <2>2, <2>4, AfterToolsKeeps
  <2> QED
    BY <1>7, <2>3, <2>4 DEF FinishTools
<1> QED
  BY <1>3, <1>4, <1>5, <1>6, <1>7

-----------------------------------------------------------------------------
(* Ends, exceptions, crashes, stops and the passing of time.                *)
LEMMA RestKeeps ==
  ASSUME IInv, Rest, UNCHANGED <<opsVars, foldVars, aged, ids, ran, repeated>>,
         faults' \in Nat, cut' \subseteq {"fault", "cancel"} \X Nat
  PROVE  IInv'
<1>1. TypeOK'
  BY ParkedType DEF IInv, TypeOK, Rest, opsVars, foldVars
<1>2. Pristine' /\ BatchAnnounced' /\ WriteAhead'
  BY DEF IInv, Pristine, BatchAnnounced, WriteAhead, Rest, opsVars
<1> QED
  BY <1>1, <1>2 DEF IInv

LEMMA FaultsKeep ==
  ASSUME IInv, End \/ CheckpointInvalid \/ Raise \/ Crash \/ Cancel \/ Age
  PROVE  IInv'
<1>1. /\ cur \in Cursor /\ cur.turn \in Nat /\ cur.reply[1] \in Nat
      /\ faults \in Nat /\ faults + 1 \in Nat
      /\ cut \subseteq {"fault", "cancel"} \X Nat
  BY DEF IInv, TypeOK, Cursor, Reply
<1>2. \A kind \in {"fault", "cancel"} : Cut(kind) => cut' \subseteq {"fault", "cancel"} \X Nat
  <2>1. ASSUME NEW e \in outbox, e[2] = "close", e[3][1] = "call"
        PROVE  e[3][2][1] \in Nat
    <3>1. e[3] \in Op
      BY <2>1, EventCases DEF IInv, TypeOK
    <3>2. e[3][2] \in Call
      BY <2>1, <3>1 DEF Op, EffectKind
    <3> QED
      BY <3>2 DEF Call
  <2>2. InDrive \subseteq Nat
    BY <1>1, <2>1 DEF InDrive
  <2> QED
    BY <1>1, <2>2 DEF Cut
<1>3. CASE End \/ CheckpointInvalid
  BY <1>1, <1>3, RestKeeps DEF End, CheckpointInvalid, worldVars
<1>4. CASE Crash
  BY <1>1, <1>2, <1>4, RestKeeps DEF Crash
<1>5. CASE Raise
  <2>1. <<1, "close", TurnOp(cur.turn)>> \in Event
    BY <1>1, OpTypes, EventTypes
  <2>2. TypeOK'
    BY <1>1, <1>2, <1>5, <2>1 DEF IInv, TypeOK, Raise, opsVars, foldVars, Running
  <2>3. Pristine' /\ BatchAnnounced' /\ WriteAhead'
    BY <1>5 DEF IInv, Pristine, BatchAnnounced, WriteAhead, Raise, opsVars
  <2> QED
    BY <2>2, <2>3 DEF IInv
<1>6. CASE Cancel
  <2>1. TypeOK'
    BY <1>2, <1>6 DEF IInv, TypeOK, Cancel, opsVars, foldVars
  <2>2. Pristine' /\ BatchAnnounced' /\ WriteAhead'
    BY <1>6 DEF IInv, Pristine, BatchAnnounced, WriteAhead, Cancel, opsVars
  <2> QED
    BY <2>1, <2>2 DEF IInv
<1>7. CASE Age
  <2>1. TypeOK'
    BY <1>7 DEF IInv, TypeOK, Age, opsVars, foldVars, processVars, worldVars
  <2>2. Pristine' /\ BatchAnnounced' /\ WriteAhead'
    BY <1>7 DEF IInv, Pristine, BatchAnnounced, WriteAhead, Age, opsVars, processVars, worldVars
  <2> QED
    BY <2>1, <2>2 DEF IInv
<1> QED
  BY <1>3, <1>4, <1>5, <1>6, <1>7

LEMMA StutterKeeps == IInv /\ UNCHANGED vars => IInv'
BY DEF IInv, TypeOK, Pristine, BatchAnnounced, WriteAhead, vars

LEMMA NextKeepsIInv == IInv /\ [Next]_vars => IInv'
<1> SUFFICES ASSUME IInv, [Next]_vars PROVE IInv'
  OBVIOUS
<1>1. CASE Input
  BY <1>1, InputKeeps
<1>2. CASE LoopStep
  BY <1>2, AppendKeeps, BeginStepsKeep, EffectStepsKeep, ToolStepsKeep, FaultsKeep
     DEF LoopStep
<1>3. CASE Raise \/ Crash \/ Cancel \/ Age
  BY <1>3, FaultsKeep
<1>4. CASE Quiet \/ UNCHANGED vars
  BY <1>4, StutterKeeps DEF Quiet
<1> QED
  BY <1>1, <1>2, <1>3, <1>4, RefusedReply DEF Next

LEMMA Invariant == Spec => []IInv
<1> QED
  BY InitIInv, NextKeepsIInv, PTL DEF Spec

-----------------------------------------------------------------------------
(* Whatever the user submits, answers or stops, and wherever the process    *)
(* crashes, the folded session and the driver stay well formed: a cursor    *)
(* rebuilt from a preparation checkpoint (_preparation_checkpoint_effect)   *)
(* never names an action outside its own assistant message.                 *)
THEOREM TypeCorrect == Spec => []TypeOK
BY Invariant, PTL DEF IInv

(* A tool's side effect begins only once the start of its call is in the    *)
(* transcript (AgentLoop commits a step before it executes the effect), for *)
(* first, resumed and cancelled batches of any size and any crash point.    *)
THEOREM WriteAheadHolds == Spec => []WriteAhead
BY Invariant, PTL DEF IInv
=============================================================================

------------------------ MODULE AgentTurnCalls_proofs ------------------------
(***************************************************************************)
(* What becomes of a tool call, for every number of modes, steps, calls,   *)
(* turns, interactions and faults: planned once, prepared from the reply or *)
(* from a checkpoint, asked about, started, run and answered.              *)
(***************************************************************************)
EXTENDS AgentTurn_proofs

-----------------------------------------------------------------------------
(* The inductive invariant, on top of the one of AgentTurn_proofs.          *)
Driving == phase \in {"context", "provider", "tool_prepare", "tool_execute"}

(* The events that say what becomes of a call, and those they depend on.    *)
Vital(e) ==
  \/ e[2] \in {"user", "step", "plan", "result", "ask", "resolve"}
  \/ e[2] \in {"open", "close"} /\ e[3][1] = "call"

Vitals(E) == {e \in E : Vital(e)}
Due == Vitals(outbox)
Queued(kind) == {e \in Due : e[2] = kind}

(* Which of them a step may have left to append, and that it has each once. *)
Expected ==
  /\ Queued("user") # {} => phase = "begin"
  /\ Queued("step") # {} => phase \in {"context", "tool_prepare", "done"}
  /\ Queued("plan") # {} => phase = "tool_prepare"
  /\ Queued("resolve") # {} => phase = "tool_prepare"
  /\ Queued("result") # {} => phase \in {"context", "tool_execute", "done"}
  /\ Queued("ask") # {} => phase = "done"
  /\ Queued("open") # {} => phase = "tool_execute"
  /\ Queued("close") # {} => phase \in {"context", "done"}
  /\ \A e, f \in Due : e[2] = f[2] /\ e[3] = f[3] => e = f
  /\ \A e, f \in Queued("ask") : e = f

(* The turn and the step the driver is at are the last ones in the          *)
(* transcript, or about to be.                                              *)
TurnInOrder ==
  /\ turn <= ids
  /\ phase = "begin" => cur.turn <= ids /\ (cur.turn = turn \/ Queued("user") # {})
  /\ Driving => cur.turn = turn
  /\ \A e \in Queued("user") : e[3] = cur.turn /\ turn < cur.turn
  /\ Driving => steps = cur.step \/ Queued("step") # {}
  /\ \A e \in Queued("step") : e[3] = <<turn, cur.step>> /\ steps < cur.step
  /\ Driving => cur.op[1] # "call"

(* Calls are planned once, in the step that is being driven.                *)
PlansInOrder ==
  /\ \A c \in planned : c[1] < turn \/ (c[1] = turn /\ c[2] <= steps)
  /\ phase \in {"context", "provider"} => \A c \in planned : ~(c[1] = turn /\ c[2] = cur.step)
  /\ \A e \in Queued("plan") :
       /\ e[3] \notin planned
       /\ e[3][1] = turn /\ e[3][2] = cur.step
       /\ steps = cur.step \/ \E f \in Queued("step") : f[1] < e[1]
  /\ phase \in {"tool_prepare", "tool_execute"} =>
       \A c \in CallsOf(cur.reply, 1 .. cur.size) : c \in planned \/ \E e \in Queued("plan") : e[3] = c
  /\ ran \subseteq planned /\ answered \subseteq planned /\ asked \subseteq planned

(* Calls that have neither run nor an answer, nor one on its way.           *)
Untouched(C) ==
  /\ C \cap (ran \cup answered) = {}
  /\ \A e \in Queued("result") : e[3] \notin C

Started(c) == CallOp(c) \in open \cup closed

(* The calls a checkpoint has still to prepare or run.                      *)
Saved(p) == CallsOf(p.reply, p.ready \cup (p.at .. p.size))

(* The calls the driver has still to prepare or run.                        *)
Left == CallsOf(cur.reply, cur.ready \cup (cur.from .. cur.size))

(* An action that is ready was allowed to; the others were not asked about. *)
Cleared(r, ready, others) ==
  /\ CallsOf(r, ready) \cap asked \subseteq granted
  /\ CallsOf(r, others) \cap asked = {}

InOrder(p) ==
  /\ p.at <= p.size /\ p.ready \subseteq 1 .. p.at - 1
  /\ CallsOf(p.reply, 1 .. p.size) \subseteq planned
  /\ Untouched(Saved(p))
  /\ \A c \in Saved(p) : ~Started(c)
  /\ Cleared(p.reply, p.ready, p.at + 1 .. p.size)

CheckpointsKept ==
  /\ pending.id # 0 => InOrder(pending)
  /\ \A e \in Queued("ask") : InOrder(e[3]) /\ e[3].id = asks + 1
  /\ \A e \in Queued("resolve") :
       /\ pending.id # 0 /\ e[3] = <<pending.id, cur.approved>>
       /\ cur.reply = pending.reply /\ cur.from = pending.at
  /\ pending.id # 0 /\ phase \in {"tool_prepare", "tool_execute"} =>
       Saved(pending) \cap CallsOf(cur.reply, 1 .. cur.size) = {} \/ Queued("resolve") # {}

(* What the batch in hand may do.                                           *)
BatchKept ==
  /\ phase = "tool_prepare" =>
       /\ cur.ready \subseteq 1 .. cur.from - 1
       /\ Untouched(Left)
       /\ \A c \in Left : ~Started(c)
       /\ Cleared(cur.reply, cur.ready, cur.from + 1 .. cur.size)
       /\ CallOf(cur.reply, cur.from) \in asked /\ cur.from <= cur.size =>
            /\ cur.resumed
            /\ cur.approved => CallOf(cur.reply, cur.from) \in granted \/ Queued("resolve") # {}
  /\ phase = "tool_execute" =>
       /\ Batch \cap answered = {}
       /\ \A e \in Queued("result") : e[3] \notin Batch
       /\ ran \cap Batch = CallsOf(cur.reply, cur.started)
       /\ Batch \cap asked \subseteq granted
  /\ \A e \in Queued("result") : e[3] \in planned \ answered

(* What is on record of the calls: only the batch in hand is unaccounted.   *)
CallsOnRecord ==
  /\ open \cap closed = {}
  /\ \A c \in Call : Started(c) => c \in planned
  /\ \A e \in Queued("open") :
       /\ e[3] \notin open \cup closed
       /\ \E c \in Batch : e[3] = CallOp(c)
  /\ \A e \in Queued("close") : e[3] \in open
  /\ phase \in {"begin", "context", "provider", "tool_prepare"} =>
       \A c \in Unknown : \E e \in Queued("close") : e[3] = CallOp(c)
  /\ phase = "tool_execute" =>
       /\ Unknown \subseteq Batch
       /\ \A c \in Batch : CallOp(c) \notin closed

CallsKept ==
  /\ Expected /\ TurnInOrder /\ PlansInOrder /\ CheckpointsKept /\ BatchKept /\ CallsOnRecord
  /\ repeated = {} /\ ran \cap asked \subseteq granted

CallsInv == IInv /\ CallsKept

-----------------------------------------------------------------------------
(* Calls of a reply and events of a step.                                   *)
LEMMA CallsOfMember ==
  ASSUME NEW r, NEW I, NEW c
  PROVE  c \in CallsOf(r, I) <=> \E i \in I : c = CallOf(r, i)
BY DEF CallsOf

LEMMA CallOfSame ==
  ASSUME NEW r, NEW i, NEW j, CallOf(r, i) = CallOf(r, j)
  PROVE  i = j
<1>1. CallOf(r, i)[4] = i /\ CallOf(r, j)[4] = j
  BY DEF CallOf
<1> QED
  BY <1>1

LEMMA CallOfIn ==
  ASSUME NEW r, NEW i, NEW I
  PROVE  CallOf(r, i) \in CallsOf(r, I) <=> i \in I
BY CallsOfMember, CallOfSame

LEMMA AskedCallIn ==
  ASSUME NEW p, NEW I
  PROVE  AskedCall(p) \in CallsOf(p.reply, I) <=> p.at \in I
BY CallOfIn DEF AskedCall

LEMMA CallsOfSubset ==
  ASSUME NEW r, NEW I, NEW J, I \subseteq J
  PROVE  CallsOf(r, I) \subseteq CallsOf(r, J)
BY DEF CallsOf

LEMMA CallOpSame ==
  ASSUME NEW c, NEW d, CallOp(c) = CallOp(d)
  PROVE  c = d
<1>1. CallOp(c)[2] = c /\ CallOp(d)[2] = d
  BY DEF CallOp
<1> QED
  BY <1>1

(* An operation of a call is that of one call.                              *)
LEMMA OpOfCall ==
  ASSUME NEW o \in Op, o[1] = "call"
  PROVE  \E c \in Call : o = CallOp(c)
BY DEF Op, CallOp, EffectKind

LEMMA OpKinds ==
  ASSUME NEW t, NEW s, NEW a
  PROVE  /\ TurnOp(t)[1] # "call" /\ StepOp(t, s)[1] # "call" /\ SaveOp(t, s)[1] # "call"
         /\ PendingOp(t)[1] # "call"
         /\ \A kind \in EffectKind : EffectOp(kind, t, s, a)[1] # "call"
         /\ \A c : CallOp(c)[1] = "call"
BY DEF TurnOp, StepOp, SaveOp, PendingOp, EffectOp, CallOp, EffectKind

LEMMA VitalsUnion ==
  ASSUME NEW A, NEW B
  PROVE  Vitals(A \cup B) = Vitals(A) \cup Vitals(B)
BY DEF Vitals

(* Starts and ends of other operations, and changes of mode.                *)
LEMMA NotVital ==
  ASSUME NEW n, NEW o, o[1] # "call"
  PROVE  /\ Vitals({<<n, "open", o>>}) = {}
         /\ Vitals({<<n, "close", o>>}) = {}
<1>1. /\ <<n, "open", o>>[2] = "open" /\ <<n, "open", o>>[3] = o
      /\ <<n, "close", o>>[2] = "close" /\ <<n, "close", o>>[3] = o
  OBVIOUS
<1>2. ~Vital(<<n, "open", o>>) /\ ~Vital(<<n, "close", o>>)
  BY <1>1 DEF Vital
<1>3. \A e : ~Vital(e) => Vitals({e}) = {}
  BY DEF Vitals
<1> QED
  BY <1>2, <1>3

LEMMA TwoNotVital ==
  ASSUME NEW m, NEW n, NEW o, NEW q, o[1] # "call", q[1] # "call"
  PROVE  Vitals({<<m, "close", o>>, <<n, "open", q>>}) = {}
<1>1. Vitals({<<m, "close", o>>}) = {} /\ Vitals({<<n, "open", q>>}) = {}
  BY NotVital
<1>2. {<<m, "close", o>>, <<n, "open", q>>} = {<<m, "close", o>>} \cup {<<n, "open", q>>}
  OBVIOUS
<1> QED
  BY <1>1, <1>2, VitalsUnion

LEMMA ModeNotVital ==
  ASSUME NEW n, NEW m
  PROVE  Vitals({<<n, "mode", m>>}) = {}
BY DEF Vitals, Vital

LEMMA PlainEvents ==
  ASSUME NEW n, NEW c
  PROVE  /\ Vitals(StepFinished(n, c)) = {}
         /\ \A m : Vitals(Transition(n, c, m)) = {}
<1>1. Vitals(StepFinished(n, c)) = {}
  BY OpKinds, NotVital DEF StepFinished
<1>2. ASSUME NEW m
      PROVE  Vitals(Transition(n, c, m)) = {}
  <2> DEFINE A == {<<n, "open", SaveOp(c.turn, c.step)>>}
             B == {<<n + 1, "mode", m>>}
             C == {<<n + 2, "close", SaveOp(c.turn, c.step)>>}
             D == {<<n + 3, "close", TurnOp(c.turn)>>}
  <2>1. Transition(n, c, m) = (A \cup B) \cup (C \cup D)
    BY DEF Transition
  <2>2. Vitals(A) = {} /\ Vitals(B) = {} /\ Vitals(C) = {} /\ Vitals(D) = {}
    BY OpKinds, NotVital, ModeNotVital
  <2> HIDE DEF A, B, C, D
  <2>3. Vitals(A \cup B) = {} /\ Vitals(C \cup D) = {}
    BY <2>2, VitalsUnion
  <2>4. Vitals((A \cup B) \cup (C \cup D)) = {}
    BY <2>3, VitalsUnion
  <2> QED
    BY <2>1, <2>4
<1> QED
  BY <1>1, <1>2

LEMMA StepStartedVitals ==
  ASSUME NEW t, NEW s
  PROVE  Vitals(StepStarted(t, s)) = {<<1, "step", <<t, s>>>>}
<1>1. Vitals({<<2, "open", StepOp(t, s)>>}) = {}
  BY OpKinds, NotVital
<1>2. Vitals({<<1, "step", <<t, s>>>>}) = {<<1, "step", <<t, s>>>>}
  BY DEF Vitals, Vital
<1>3. StepStarted(t, s) = {<<1, "step", <<t, s>>>>} \cup {<<2, "open", StepOp(t, s)>>}
  BY DEF StepStarted
<1> QED
  BY <1>1, <1>2, <1>3, VitalsUnion

(* The types the proofs below need most.                                    *)
LEMMA Facts ==
  ASSUME IInv
  PROVE  /\ cur \in Cursor /\ cur.turn \in Nat /\ cur.step \in Nat /\ cur.attempt \in Nat
         /\ cur.op \in Op /\ cur.reply \in Reply /\ cur.size \in Nat /\ cur.from \in Nat \ {0}
         /\ cur.mode \in Modes /\ cur.resumed \in BOOLEAN /\ cur.approved \in BOOLEAN
         /\ cur.ready \subseteq 1 .. cur.size /\ cur.started \subseteq cur.ready
         /\ turn \in Nat /\ steps \in Nat /\ ids \in Nat /\ asks \in Nat
         /\ planned \subseteq Call /\ answered \subseteq Call /\ asked \subseteq Call
         /\ ran \subseteq Call /\ open \subseteq Op /\ closed \subseteq Op
         /\ Due \subseteq outbox /\ Due \subseteq Event /\ outbox \subseteq Event
         /\ pending.id # 0 => pending \in Checkpoint
         /\ pending.id \in Nat
BY DEF IInv, TypeOK, Cursor, Due, Vitals, None, Checkpoint

LEMMA CheckpointFacts ==
  ASSUME NEW p \in Checkpoint
  PROVE  /\ p.id \in Nat \ {0} /\ p.reply \in Reply /\ p.size \in Nat /\ p.at \in Nat \ {0}
         /\ p.ready \subseteq 1 .. p.size /\ p.mode \in Modes
BY DEF Checkpoint

LEMMA CallFacts ==
  ASSUME NEW c \in Call
  PROVE  c[1] \in Nat /\ c[2] \in Nat /\ c[3] \in Nat /\ c[4] \in Nat
BY DEF Call

LEMMA ReplyCalls ==
  ASSUME NEW r \in Reply, NEW I \in SUBSET Nat
  PROVE  /\ CallsOf(r, I) \subseteq Call
         /\ \A c \in CallsOf(r, I) : c[1] = r[1] /\ c[2] = r[2]
BY CallTypes DEF CallsOf, CallOf

-----------------------------------------------------------------------------
(* Appending an event.                                                      *)

(* What an append leaves alone besides what the event changes.              *)
Appended(e) ==
  /\ e \in outbox
  /\ \A f \in outbox : e[1] <= f[1]
  /\ Accepts(e)
  /\ outbox' = outbox \ {e}
  /\ UNCHANGED <<aged, ids, phase, cur, cancel, ran, faults, cut>>

LEMMA AppendedDue ==
  ASSUME NEW e, Appended(e)
  PROVE  /\ Due' = Due \ {e}
         /\ Vital(e) => e \in Due
         /\ ~Vital(e) => Due' = Due
         /\ \A kind : Queued(kind)' = Queued(kind) \ {e}
         /\ \A kind : e[2] # kind => Queued(kind)' = Queued(kind)
<1>1. Due' = Due \ {e}
  BY DEF Appended, Due, Vitals
<1>2. ASSUME NEW kind
      PROVE  Queued(kind)' = Queued(kind) \ {e}
  BY <1>1 DEF Queued
<1> QED
  BY <1>1, <1>2 DEF Queued, Appended, Due, Vitals

LEMMA AppendedExpected ==
  ASSUME Expected, NEW e, Appended(e)
  PROVE  Expected'
<1>1. Due' \subseteq Due /\ phase' = phase
  BY AppendedDue DEF Appended
<1>2. \A kind : Queued(kind)' \subseteq Queued(kind)
  BY <1>1, AppendedDue
<1> QED
  BY <1>1, <1>2 DEF Expected

(* An event that is not about a call changes nothing here.                  *)
LEMMA AppendPlain ==
  ASSUME CallsInv, NEW e, Appended(e), ~Vital(e),
         \/ e[2] = "open"  /\ OpenOp(e[3])
         \/ e[2] = "close" /\ CloseOp(e[3])
         \/ e[2] = "mode"  /\ ApplyMode(e[3])
  PROVE  CallsKept'
<1>1. /\ Due' = Due /\ UNCHANGED <<ids, phase, cur, ran>>
      /\ UNCHANGED <<turn, steps, planned, answered, pending, asks, asked, granted, repeated>>
  BY AppendedDue DEF Appended, OpenOp, CloseOp, ApplyMode, foldVars
<1>2. \A kind : Queued(kind)' = Queued(kind)
  BY <1>1 DEF Queued
<1>3. \A c : /\ (CallOp(c) \in open') <=> (CallOp(c) \in open)
             /\ (CallOp(c) \in closed') <=> (CallOp(c) \in closed)
  <2>1. e[2] \in {"open", "close"} => e[3][1] # "call"
    BY DEF Vital
  <2>2. \A c : e[2] \in {"open", "close"} => CallOp(c) # e[3]
    BY <2>1, OpKinds
  <2> QED
    BY <2>2 DEF OpenOp, CloseOp, ApplyMode, opsVars
<1>4. \A c : Started(c)' = Started(c)
  BY <1>3 DEF Started
<1>5. Unknown' = Unknown
  BY <1>1, <1>3 DEF Unknown
<1>6. Expected' /\ TurnInOrder' /\ PlansInOrder'
  BY <1>1, <1>2, AppendedExpected DEF CallsInv, CallsKept, TurnInOrder, PlansInOrder, Driving
<1>7. \A C : Untouched(C)' = Untouched(C)
  BY <1>1, <1>2 DEF Untouched
<1>8. \A p : InOrder(p)' = InOrder(p)
  <2>1. ASSUME NEW p
        PROVE  InOrder(p)' = InOrder(p)
    <3>1. Untouched(Saved(p))' = Untouched(Saved(p))
      BY <1>1, <1>2 DEF Untouched, Saved
    <3>2. (\A c \in Saved(p) : ~Started(c))' = (\A c \in Saved(p) : ~Started(c))
      BY <1>3 DEF Started, Saved
    <3>3. Cleared(p.reply, p.ready, p.at + 1 .. p.size)' = Cleared(p.reply, p.ready, p.at + 1 .. p.size)
      BY <1>1 DEF Cleared
    <3> QED
      BY <1>1, <3>1, <3>2, <3>3 DEF InOrder
  <2> QED
    BY <2>1
<1>9. CheckpointsKept'
  <2>1. \A p : InOrder(p) => InOrder(p)'
    BY <1>8
  <2> QED
    BY <1>1, <1>2, <2>1 DEF CallsInv, CallsKept, CheckpointsKept, Saved
<1>10. BatchKept'
  <2>1. Left' = Left /\ Batch' = Batch
    BY <1>1 DEF Left, Batch
  <2>2. Untouched(Left)' = Untouched(Left)
    BY <1>1, <1>2, <2>1 DEF Untouched
  <2>3. (\A c \in Left : ~Started(c))' = (\A c \in Left : ~Started(c))
    BY <1>3, <2>1 DEF Started
  <2>4. Cleared(cur.reply, cur.ready, cur.from + 1 .. cur.size)'
          = Cleared(cur.reply, cur.ready, cur.from + 1 .. cur.size)
    BY <1>1 DEF Cleared
  <2> QED
    BY <1>1, <1>2, <2>1, <2>2, <2>3, <2>4 DEF CallsInv, CallsKept, BatchKept
<1>11. CallsOnRecord'
  <2>1. open' \cap closed' = {}
    BY DEF CallsInv, CallsKept, CallsOnRecord, OpenOp, CloseOp, ApplyMode, opsVars
  <2>2. Batch' = Batch
    BY <1>1 DEF Batch
  <2>3. \A f \in Queued("open") \cup Queued("close") :
          /\ (f[3] \in open') <=> (f[3] \in open)
          /\ (f[3] \in closed') <=> (f[3] \in closed)
    <3>1. e[2] \in {"open", "close"} => e[3][1] # "call"
      BY DEF Vital
    <3>2. \A f \in Queued("open") \cup Queued("close") : f[3][1] = "call"
      BY DEF Queued, Due, Vitals, Vital
    <3>3. \A f \in Queued("open") \cup Queued("close") :
            e[2] \in {"open", "close"} => f[3] # e[3]
      BY <3>1, <3>2
    <3> QED
      BY <3>3 DEF OpenOp, CloseOp, ApplyMode, opsVars
  <2> QED
    BY <1>1, <1>2, <1>3, <1>4, <1>5, <2>1, <2>2, <2>3 DEF CallsInv, CallsKept, CallsOnRecord
<1> QED
  BY <1>1, <1>6, <1>9, <1>10, <1>11 DEF CallsInv, CallsKept

(* The message of the user opens a turn.                                    *)
LEMMA AppendUser ==
  ASSUME CallsInv, NEW e, Appended(e), e[2] = "user", ApplyUser(e[3])
  PROVE  CallsKept'
<1> USE DEF CallsInv, CallsKept
<1>1. /\ turn' = e[3] /\ steps' = 0
      /\ UNCHANGED <<ids, phase, cur, ran, open, closed, planned, answered, pending, asks,
                     asked, granted, repeated>>
  BY DEF Appended, ApplyUser, opsVars
<1>2. e \in Queued("user") /\ phase = "begin"
  BY AppendedDue DEF Vital, Queued, Expected
<1>3. e[3] = cur.turn /\ turn < cur.turn /\ cur.turn <= ids
  BY <1>2 DEF TurnInOrder
<1>4. Expected'
  BY AppendedExpected
<1>5. \A kind : kind # "user" => Queued(kind)' = Queued(kind)
  BY AppendedDue
<1>6. Queued("user")' = {}
  <2>1. ASSUME NEW f \in Queued("user")
        PROVE  f = e
    BY <1>2, <1>3 DEF TurnInOrder, Expected, Queued
  <2> QED
    BY <2>1, AppendedDue
<1>7. /\ Queued("step") = {} /\ Queued("plan") = {} /\ Queued("result") = {} /\ Queued("ask") = {}
      /\ Queued("open") = {} /\ Queued("close") = {} /\ Queued("resolve") = {}
  BY <1>2 DEF Expected
<1>8. TurnInOrder'
  BY <1>1, <1>2, <1>3, <1>5, <1>6, <1>7 DEF TurnInOrder, Driving
<1>9. PlansInOrder'
  <2>1. ASSUME NEW c \in planned
        PROVE  c[1] < cur.turn
    <3>1. c[1] \in Nat /\ c[1] <= turn
      BY Facts, CallFacts DEF PlansInOrder
    <3> QED
      BY <1>3, <3>1, Facts
  <2> QED
    BY <1>1, <1>2, <1>3, <1>5, <1>7, <2>1 DEF PlansInOrder
<1>10. \A p : InOrder(p)' = InOrder(p)
  BY <1>1, <1>5 DEF InOrder, Untouched, Saved, Started, Cleared
<1>11. CheckpointsKept'
  BY <1>1, <1>2, <1>5, <1>7, <1>10 DEF CheckpointsKept
<1>12. BatchKept'
  BY <1>1, <1>2, <1>5, <1>7 DEF BatchKept
<1>13. CallsOnRecord'
  BY <1>1, <1>2, <1>5, <1>7 DEF CallsOnRecord, Started, Unknown
<1> QED
  BY <1>1, <1>4, <1>8, <1>9, <1>11, <1>12, <1>13

(* A step begins: the driver is at it already.                              *)
LEMMA AppendStep ==
  ASSUME CallsInv, NEW e, Appended(e), e[2] = "step", ApplyStep(e[3][2])
  PROVE  CallsKept'
<1> USE DEF CallsInv, CallsKept
<1>1. /\ steps' = e[3][2]
      /\ UNCHANGED <<ids, phase, cur, ran, open, closed, turn, planned, answered, pending, asks,
                     asked, granted, repeated>>
  BY DEF Appended, ApplyStep, opsVars
<1>2. e \in Queued("step")
  BY AppendedDue DEF Vital, Queued
<1>3. /\ phase \in {"context", "tool_prepare", "done"}
      /\ e[3] = <<turn, cur.step>> /\ steps < cur.step /\ steps' = cur.step
  BY <1>1, <1>2 DEF TurnInOrder, Expected
<1>4. Expected'
  BY AppendedExpected
<1>5. \A kind : kind # "step" => Queued(kind)' = Queued(kind)
  BY AppendedDue
<1>6. Queued("step")' = {}
  <2>1. ASSUME NEW f \in Queued("step")
        PROVE  f = e
    BY <1>2, <1>3 DEF TurnInOrder, Expected, Queued
  <2> QED
    BY <2>1, AppendedDue
<1>7. Queued("user") = {} /\ Queued("open") = {}
  BY <1>3 DEF Expected
<1>8. TurnInOrder'
  BY <1>1, <1>3, <1>5, <1>6, <1>7 DEF TurnInOrder, Driving
<1>9. PlansInOrder'
  <2>1. ASSUME NEW c \in planned
        PROVE  c[1] < turn \/ (c[1] = turn /\ c[2] <= cur.step)
    <3>1. c[1] \in Nat /\ c[2] \in Nat
      BY Facts, CallFacts
    <3>2. c[1] < turn \/ (c[1] = turn /\ c[2] <= steps)
      BY DEF PlansInOrder
    <3> QED
      BY <1>3, <3>1, <3>2, Facts
  <2>2. \A f \in Queued("plan") : f[3] \notin planned /\ f[3][1] = turn /\ f[3][2] = cur.step
    BY DEF PlansInOrder
  <2>3. phase \in {"context", "provider"} => \A c \in planned : ~(c[1] = turn /\ c[2] = cur.step)
    BY DEF PlansInOrder
  <2>4. phase \in {"tool_prepare", "tool_execute"} =>
          \A c \in CallsOf(cur.reply, 1 .. cur.size) :
            c \in planned \/ \E f \in Queued("plan") : f[3] = c
    BY DEF PlansInOrder
  <2>5. ran \subseteq planned /\ answered \subseteq planned /\ asked \subseteq planned
    BY DEF PlansInOrder
  <2>6. Queued("plan")' = Queued("plan")
    BY <1>5
  <2> QED
    BY <1>1, <1>3, <2>1, <2>2, <2>3, <2>4, <2>5, <2>6 DEF PlansInOrder
<1>10. \A p : InOrder(p)' = InOrder(p)
  BY <1>1, <1>5 DEF InOrder, Untouched, Saved, Started, Cleared
<1>11. CheckpointsKept'
  BY <1>1, <1>5, <1>10 DEF CheckpointsKept, Saved
<1>12. BatchKept'
  BY <1>1, <1>5 DEF BatchKept, Untouched, Left, Started, Cleared, Batch
<1>13. CallsOnRecord'
  BY <1>1, <1>5, <1>7 DEF CallsOnRecord, Started, Unknown, Batch
<1> QED
  BY <1>1, <1>4, <1>8, <1>9, <1>11, <1>12, <1>13

(* A call is planned: the step it belongs to is on record by then.          *)
LEMMA AppendPlan ==
  ASSUME CallsInv, NEW e, Appended(e), e[2] = "plan", ApplyToolCall(e[3])
  PROVE  CallsKept'
<1> USE DEF CallsInv, CallsKept
<1>1. /\ planned' = planned \cup {e[3]}
      /\ UNCHANGED <<ids, phase, cur, ran, open, closed, turn, steps, answered, pending, asks,
                     asked, granted, repeated>>
  BY DEF Appended, ApplyToolCall, opsVars
<1>2. e \in Queued("plan")
  BY AppendedDue DEF Vital, Queued
<1>3. /\ phase = "tool_prepare"
      /\ e[3] \notin planned /\ e[3][1] = turn /\ e[3][2] = cur.step
      /\ e[3] \in Call
  BY <1>2, Facts, EventCases DEF PlansInOrder, Expected, Queued
<1>4. Expected'
  BY AppendedExpected
<1>5. \A kind : kind # "plan" => Queued(kind)' = Queued(kind)
  BY AppendedDue
<1>6. /\ Queued("plan")' = Queued("plan") \ {e}
      /\ \A f \in Queued("plan")' : f[3] # e[3]
  BY <1>2, AppendedDue DEF Expected, Queued
<1>7. Queued("user") = {} /\ Queued("open") = {} /\ Queued("ask") = {} /\ Queued("result") = {}
  BY <1>3 DEF Expected
<1>8. steps = cur.step
  <2>1. ASSUME NEW f \in Queued("step"), f[1] < e[1]
        PROVE  FALSE
    <3>1. f \in outbox /\ f[1] \in Nat /\ e[1] \in Nat
      BY <1>2, Facts, EventCases DEF Queued
    <3> QED
      BY <2>1, <3>1 DEF Appended
  <2> QED
    BY <1>2, <2>1 DEF PlansInOrder
<1>9. TurnInOrder'
  BY <1>1, <1>5 DEF TurnInOrder, Driving
<1>10. PlansInOrder'
  <2>1. \A c \in planned' : c[1] < turn \/ (c[1] = turn /\ c[2] <= steps)
    <3>1. cur.step <= cur.step
      BY Facts
    <3> QED
      BY <1>1, <1>3, <1>8, <3>1 DEF PlansInOrder
  <2>2. \A f \in Queued("plan")' :
          f[3] \notin planned' /\ f[3][1] = turn /\ f[3][2] = cur.step
    BY <1>1, <1>6 DEF PlansInOrder
  <2>3. \A c \in CallsOf(cur.reply, 1 .. cur.size) :
          c \in planned' \/ \E f \in Queued("plan")' : f[3] = c
    BY <1>1, <1>3, <1>6 DEF PlansInOrder
  <2>4. ran \subseteq planned' /\ answered \subseteq planned' /\ asked \subseteq planned'
    BY <1>1 DEF PlansInOrder
  <2> QED
    BY <1>1, <1>3, <1>8, <2>1, <2>2, <2>3, <2>4 DEF PlansInOrder
<1>11. \A p : InOrder(p) => InOrder(p)'
  BY <1>1, <1>5 DEF InOrder, Untouched, Saved, Started, Cleared
<1>12. CheckpointsKept'
  BY <1>1, <1>5, <1>7, <1>11 DEF CheckpointsKept, Saved
<1>13. BatchKept'
  BY <1>1, <1>3, <1>5, <1>7 DEF BatchKept, Untouched, Left, Started, Cleared, Batch
<1>14. CallsOnRecord'
  <2>1. ~Started(e[3])
    BY <1>3 DEF CallsOnRecord
  <2>2. Unknown' = Unknown
    BY <1>1, <2>1 DEF Unknown, Started
  <2> QED
    BY <1>1, <1>3, <1>5, <1>7, <2>2 DEF CallsOnRecord, Started, Batch
<1> QED
  BY <1>1, <1>4, <1>9, <1>10, <1>12, <1>13, <1>14

(* A call is answered: it had no answer, and nobody has still to run it.    *)
LEMMA AppendResult ==
  ASSUME CallsInv, NEW e, Appended(e), e[2] = "result", ApplyToolResult(e[3])
  PROVE  CallsKept'
<1> USE DEF CallsInv, CallsKept
<1>1. /\ answered' = answered \cup {e[3]}
      /\ repeated' = IF e[3] \in answered THEN repeated \cup {<<"answered", e[3]>>} ELSE repeated
      /\ UNCHANGED <<ids, phase, cur, ran, open, closed, turn, steps, planned, pending, asks,
                     asked, granted>>
  BY DEF Appended, ApplyToolResult, opsVars
<1>2. e \in Queued("result")
  BY AppendedDue DEF Vital, Queued
<1>3. /\ phase \in {"context", "tool_execute", "done"}
      /\ e[3] \in planned \ answered
  BY <1>2 DEF BatchKept, Expected
<1>4. Expected'
  BY AppendedExpected
<1>5. \A kind : kind # "result" => Queued(kind)' = Queued(kind)
  BY AppendedDue
<1>6. /\ Queued("result")' = Queued("result") \ {e}
      /\ \A f \in Queued("result")' : f[3] # e[3]
  BY <1>2, AppendedDue DEF Expected, Queued
<1>7. repeated' = {}
  BY <1>1, <1>3
<1>8. TurnInOrder'
  BY <1>1, <1>5 DEF TurnInOrder, Driving
<1>9. PlansInOrder'
  BY <1>1, <1>3, <1>5 DEF PlansInOrder
<1>10. \A C : Untouched(C) => Untouched(C)'
  BY <1>1, <1>2, <1>6 DEF Untouched
<1>11. \A p : InOrder(p) => InOrder(p)'
  <2>1. ASSUME NEW p, InOrder(p)
        PROVE  InOrder(p)'
    <3>1. Untouched(Saved(p))'
      <4>1. Untouched(Saved(p))
        BY <2>1 DEF InOrder
      <4> QED
        BY <1>1, <1>2, <1>6, <4>1 DEF Untouched, Saved
    <3> QED
      BY <1>1, <2>1, <3>1 DEF InOrder, Saved, Started, Cleared
  <2> QED
    BY <2>1
<1>12. CheckpointsKept'
  BY <1>1, <1>5, <1>11 DEF CheckpointsKept, Saved
<1>13. BatchKept'
  <2>1. phase # "tool_prepare"
    BY <1>3
  <2>2. phase = "tool_execute" => e[3] \notin Batch
    BY <1>2 DEF BatchKept
  <2>3. Batch' = Batch
    BY <1>1 DEF Batch
  <2> QED
    BY <1>1, <1>6, <2>1, <2>2, <2>3 DEF BatchKept
<1>14. CallsOnRecord'
  BY <1>1, <1>5 DEF CallsOnRecord, Started, Unknown, Batch
<1> QED
  BY <1>1, <1>4, <1>7, <1>8, <1>9, <1>12, <1>13, <1>14

(* A question is recorded: its checkpoint becomes the pending one.          *)
LEMMA AppendAsk ==
  ASSUME CallsInv, NEW e, Appended(e), e[2] = "ask", ApplyPendingInteraction(e[3])
  PROVE  CallsKept'
<1> USE DEF CallsInv, CallsKept
<1> DEFINE p == e[3]
<1>1. /\ pending' = p /\ asks' = p.id /\ asked' = asked \cup {AskedCall(p)}
      /\ UNCHANGED <<ids, phase, cur, ran, open, closed, turn, steps, planned, answered,
                     granted, repeated>>
  BY DEF Appended, ApplyPendingInteraction, opsVars
<1>2. e \in Queued("ask") /\ phase = "done"
  BY AppendedDue DEF Vital, Queued, Expected
<1>3. InOrder(p)
  BY <1>2 DEF CheckpointsKept
<1>4. Expected'
  BY AppendedExpected
<1>5. \A kind : kind # "ask" => Queued(kind)' = Queued(kind)
  BY AppendedDue
<1>6. Queued("ask")' = {} /\ Queued("resolve") = {}
  BY <1>2, AppendedDue DEF Expected
<1>7. p \in Checkpoint
  BY <1>2, Facts, EventCases DEF Queued
<1>8. AskedCall(p) \in Saved(p)
  <2>1. p.at \in p.ready \cup (p.at .. p.size)
    BY <1>3, <1>7, CheckpointFacts DEF InOrder
  <2> QED
    BY <2>1, CallOfIn DEF AskedCall, Saved
<1>9. AskedCall(p) \notin ran /\ AskedCall(p) \in planned
  <2>1. p.at \in 1 .. p.size
    BY <1>3, <1>7, CheckpointFacts DEF InOrder
  <2>2. AskedCall(p) \in CallsOf(p.reply, 1 .. p.size)
    BY <2>1, AskedCallIn
  <2> HIDE DEF p
  <2> QED
    BY <1>3, <1>8, <2>2 DEF InOrder, Untouched
<1>10. TurnInOrder'
  BY <1>1, <1>5 DEF TurnInOrder, Driving
<1>11. PlansInOrder'
  BY <1>1, <1>2, <1>5, <1>9 DEF PlansInOrder
<1>12. InOrder(p)'
  <2>1. p.at \notin p.ready /\ p.at \notin (p.at + 1 .. p.size)
    BY <1>3, <1>7, CheckpointFacts DEF InOrder
  <2>2. /\ AskedCall(p) \notin CallsOf(p.reply, p.ready)
        /\ AskedCall(p) \notin CallsOf(p.reply, p.at + 1 .. p.size)
    BY <2>1, AskedCallIn
  <2>3. Cleared(p.reply, p.ready, p.at + 1 .. p.size)'
    BY <1>1, <1>3, <2>2 DEF InOrder, Cleared
  <2>4. Untouched(Saved(p))'
    BY <1>1, <1>3, <1>5 DEF InOrder, Untouched, Saved
  <2> QED
    BY <1>1, <1>3, <2>3, <2>4 DEF InOrder, Saved, Started
<1>13. CheckpointsKept'
  <2> HIDE DEF p
  <2> QED
    BY <1>1, <1>2, <1>5, <1>6, <1>12 DEF CheckpointsKept
<1>14. BatchKept'
  BY <1>1, <1>2, <1>5 DEF BatchKept
<1>15. CallsOnRecord'
  BY <1>1, <1>2, <1>5 DEF CallsOnRecord, Started, Unknown, Batch
<1>16. ran' \cap asked' \subseteq granted'
  BY <1>1, <1>9
<1> QED
  BY <1>1, <1>4, <1>10, <1>11, <1>13, <1>14, <1>15, <1>16

(* The answer to the pending question is recorded: a call it approves is    *)
(* the one the preparation goes on with.                                    *)
LEMMA AppendResolve ==
  ASSUME CallsInv, NEW e, Appended(e), e[2] = "resolve", ApplyPendingResolution(e[3][2])
  PROVE  CallsKept'
<1> USE DEF CallsInv, CallsKept
<1>1. /\ pending' = None
      /\ granted' = IF e[3][2] THEN granted \cup {AskedCall(pending)} ELSE granted
      /\ UNCHANGED <<ids, phase, cur, ran, open, closed, turn, steps, planned, answered,
                     asks, asked, repeated>>
  BY DEF Appended, ApplyPendingResolution, opsVars
<1>2. e \in Queued("resolve") /\ phase = "tool_prepare"
  BY AppendedDue DEF Vital, Queued, Expected
<1>3. /\ e[3] = <<pending.id, cur.approved>> /\ cur.reply = pending.reply
      /\ cur.from = pending.at
  BY <1>2 DEF CheckpointsKept
<1>4. Expected'
  BY AppendedExpected
<1>5. \A kind : kind # "resolve" => Queued(kind)' = Queued(kind)
  BY AppendedDue
<1>6. Queued("resolve")' = {} /\ Queued("ask") = {}
  BY <1>2, <1>3, AppendedDue DEF Expected, Queued, CheckpointsKept
<1>7. granted \subseteq granted' /\ (cur.approved => CallOf(cur.reply, cur.from) \in granted')
  BY <1>1, <1>3 DEF AskedCall
<1>8. pending'.id = 0
  BY <1>1 DEF None
<1>9. TurnInOrder'
  BY <1>1, <1>5 DEF TurnInOrder, Driving
<1>10. PlansInOrder'
  BY <1>1, <1>5 DEF PlansInOrder
<1>11. CheckpointsKept'
  BY <1>5, <1>6, <1>8 DEF CheckpointsKept
<1>12. BatchKept'
  <2>1. Untouched(Left) => Untouched(Left)'
    BY <1>1, <1>5 DEF Untouched, Left
  <2>2. Cleared(cur.reply, cur.ready, cur.from + 1 .. cur.size)'
    BY <1>1, <1>2, <1>7 DEF BatchKept, Cleared
  <2> QED
    BY <1>1, <1>2, <1>5, <1>7, <2>1, <2>2 DEF BatchKept, Left, Started
<1>13. CallsOnRecord'
  BY <1>1, <1>2, <1>5 DEF CallsOnRecord, Started, Unknown, Batch
<1>14. ran' \cap asked' \subseteq granted'
  BY <1>1, <1>7
<1> QED
  BY <1>1, <1>4, <1>9, <1>10, <1>11, <1>12, <1>13, <1>14

(* The start of a call of the batch is recorded.                            *)
LEMMA AppendCallOpen ==
  ASSUME CallsInv, NEW e, Appended(e), e[2] = "open", Vital(e), OpenOp(e[3])
  PROVE  CallsKept'
<1> USE DEF CallsInv, CallsKept
<1>1. /\ open' = IF e[3] \in closed THEN open ELSE open \cup {e[3]}
      /\ UNCHANGED <<ids, phase, cur, ran, closed, turn, steps, planned, answered, pending, asks,
                     asked, granted, repeated>>
  BY DEF Appended, OpenOp, foldVars
<1>2. e \in Queued("open") /\ phase = "tool_execute"
  BY AppendedDue DEF Queued, Expected
<1>3. PICK c \in Batch : e[3] = CallOp(c)
  BY <1>2 DEF CallsOnRecord
<1>4. e[3] \notin open \cup closed /\ open' = open \cup {CallOp(c)}
  BY <1>1, <1>2, <1>3 DEF CallsOnRecord
<1>5. c \in planned
  <2>1. Queued("plan") = {}
    BY <1>2 DEF Expected
  <2>2. Batch \subseteq CallsOf(cur.reply, 1 .. cur.size)
    BY Facts, CallsOfSubset DEF Batch
  <2> QED
    BY <1>2, <1>3, <2>1, <2>2 DEF PlansInOrder
<1>6. Expected'
  BY AppendedExpected
<1>7. \A kind : kind # "open" => Queued(kind)' = Queued(kind)
  BY AppendedDue
<1>8. /\ Queued("open")' = Queued("open") \ {e}
      /\ \A f \in Queued("open")' : f[3] # e[3]
  BY <1>2, AppendedDue DEF Expected, Queued
<1>9. /\ Queued("ask") = {} /\ Queued("resolve") = {} /\ Queued("close") = {}
  BY <1>2 DEF Expected
<1>10. \A d : CallOp(d) \in open' <=> CallOp(d) \in open \/ d = c
  BY <1>4, CallOpSame
<1>11. TurnInOrder'
  BY <1>1, <1>7 DEF TurnInOrder, Driving
<1>12. PlansInOrder'
  BY <1>1, <1>7 DEF PlansInOrder
<1>13. pending.id # 0 => c \notin Saved(pending)
  <2>1. c \in CallsOf(cur.reply, 1 .. cur.size)
    BY <1>3, Facts, CallsOfSubset DEF Batch
  <2> QED
    BY <1>2, <1>9, <2>1 DEF CheckpointsKept
<1>14. pending.id # 0 => InOrder(pending)'
  <2> SUFFICES ASSUME pending.id # 0 PROVE InOrder(pending)'
    OBVIOUS
  <2>1. InOrder(pending)
    BY DEF CheckpointsKept
  <2>2. Untouched(Saved(pending))'
    BY <1>1, <1>7, <2>1 DEF InOrder, Untouched, Saved
  <2>3. (\A d \in Saved(pending) : ~Started(d))'
    BY <1>1, <1>10, <1>13, <2>1 DEF InOrder, Started, Saved
  <2> QED
    BY <1>1, <2>1, <2>2, <2>3 DEF InOrder, Cleared
<1>15. CheckpointsKept'
  BY <1>1, <1>7, <1>9, <1>14 DEF CheckpointsKept, Saved
<1>16. BatchKept'
  BY <1>1, <1>2, <1>7 DEF BatchKept, Batch
<1>17. CallsOnRecord'
  <2>1. Batch' = Batch
    BY <1>1 DEF Batch
  <2>2. \A d \in Call : Started(d)' => d \in planned'
    BY <1>1, <1>5, <1>10 DEF CallsOnRecord, Started
  <2>3. Unknown' \subseteq Batch
    BY <1>1, <1>2, <1>3, <1>10 DEF CallsOnRecord, Unknown
  <2>4. open' \cap closed' = {}
    BY <1>1, <1>3, <1>4 DEF CallsOnRecord
  <2>5. \A f \in Queued("open")' : f[3] \notin open' \cup closed'
    BY <1>1, <1>3, <1>4, <1>8 DEF CallsOnRecord
  <2> QED
    BY <1>1, <1>2, <1>7, <1>8, <1>9, <2>1, <2>2, <2>3, <2>4, <2>5 DEF CallsOnRecord
<1> QED
  BY <1>1, <1>6, <1>11, <1>12, <1>15, <1>16, <1>17

(* The end of a call is recorded.                                           *)
LEMMA AppendCallClose ==
  ASSUME CallsInv, NEW e, Appended(e), e[2] = "close", Vital(e), CloseOp(e[3])
  PROVE  CallsKept'
<1> USE DEF CallsInv, CallsKept
<1>1. /\ open' = open \ {e[3]} /\ closed' = closed \cup {e[3]}
      /\ UNCHANGED <<ids, phase, cur, ran, turn, steps, planned, answered, pending, asks,
                     asked, granted, repeated>>
  BY DEF Appended, CloseOp, foldVars
<1>2. e \in Queued("close") /\ phase \in {"context", "done"}
  BY AppendedDue DEF Queued, Expected
<1>3. e[3] \in open
  BY <1>2 DEF CallsOnRecord
<1>4. Expected'
  BY AppendedExpected
<1>5. \A kind : kind # "close" => Queued(kind)' = Queued(kind)
  BY AppendedDue
<1>6. /\ Queued("close")' = Queued("close") \ {e}
      /\ \A f \in Queued("close")' : f[3] # e[3]
  BY <1>2, AppendedDue DEF Expected, Queued
<1>7. Queued("open") = {}
  BY <1>2 DEF Expected
<1>8. open' \cup closed' = open \cup closed
  BY <1>1, <1>3
<1>9. TurnInOrder'
  BY <1>1, <1>5 DEF TurnInOrder, Driving
<1>10. PlansInOrder'
  BY <1>1, <1>5 DEF PlansInOrder
<1>11. \A p : InOrder(p)' = InOrder(p)
  BY <1>1, <1>5, <1>8 DEF InOrder, Untouched, Saved, Started, Cleared
<1>12. CheckpointsKept'
  BY <1>1, <1>5, <1>11 DEF CheckpointsKept, Saved
<1>13. BatchKept'
  BY <1>1, <1>2, <1>5 DEF BatchKept
<1>14. CallsOnRecord'
  <2>1. open' \cap closed' = {}
    BY <1>1 DEF CallsOnRecord
  <2>2. \A d \in Call : Started(d)' => d \in planned'
    BY <1>1, <1>8 DEF CallsOnRecord, Started
  <2>3. \A f \in Queued("close")' : f[3] \in open'
    BY <1>1, <1>6 DEF CallsOnRecord
  <2>4. phase = "context" =>
          \A d \in Unknown' : \E f \in Queued("close")' : f[3] = CallOp(d)
    BY <1>1, <1>6 DEF CallsOnRecord, Unknown
  <2> QED
    BY <1>1, <1>2, <1>5, <1>7, <2>1, <2>2, <2>3, <2>4 DEF CallsOnRecord
<1> QED
  BY <1>1, <1>4, <1>9, <1>10, <1>12, <1>13, <1>14

LEMMA AppendCalls ==
  ASSUME CallsInv, AppendEvent
  PROVE  CallsKept'
<1>1. PICK e \in outbox :
        /\ Appended(e)
        /\ \/ e[2] = "open"    /\ OpenOp(e[3])
           \/ e[2] = "close"   /\ CloseOp(e[3])
           \/ e[2] = "user"    /\ ApplyUser(e[3])
           \/ e[2] = "step"    /\ ApplyStep(e[3][2])
           \/ e[2] = "plan"    /\ ApplyToolCall(e[3])
           \/ e[2] = "result"  /\ ApplyToolResult(e[3])
           \/ e[2] = "ask"     /\ ApplyPendingInteraction(e[3])
           \/ e[2] = "resolve" /\ ApplyPendingResolution(e[3][2])
           \/ e[2] = "mode"    /\ ApplyMode(e[3])
  BY DEF AppendEvent, Appended
<1>2. e[2] = "mode" => ~Vital(e)
  BY DEF Vital
<1> QED
  BY <1>1, <1>2, AppendPlain, AppendUser, AppendStep, AppendPlan, AppendResult, AppendAsk,
     AppendResolve, AppendCallOpen, AppendCallClose

-----------------------------------------------------------------------------
(* Kernel steps.                                                            *)
LEMMA KernelFrame ==
  ASSUME NEW p, NEW c, NEW E, KernelStep(p, c, E)
  PROVE  /\ phase' = p /\ cur' = c /\ Due' = Vitals(E)
         /\ UNCHANGED <<open, closed, turn, steps, planned, answered, pending, asks, asked,
                        granted, ids, cancel, ran, repeated>>
         /\ Unknown' = Unknown
         /\ \A d : Started(d)' = Started(d)
         /\ \A kind : Queued(kind)' = {e \in Vitals(E) : e[2] = kind}
BY DEF KernelStep, opsVars, foldVars, worldVars, Due, Unknown, Started, Queued

(* The driver at rest between two steps: nothing is left to append.         *)
LEMMA QuietFacts ==
  ASSUME CallsInv, outbox = {}
  PROVE  /\ Due = {} /\ \A kind : Queued(kind) = {}
         /\ Driving => cur.turn = turn /\ steps = cur.step /\ cur.op[1] # "call"
         /\ phase = "begin" => cur.turn = turn
         /\ phase \in {"begin", "context", "provider", "tool_prepare"} => Unknown = {}
         /\ phase \in {"tool_prepare", "tool_execute"} =>
              CallsOf(cur.reply, 1 .. cur.size) \subseteq planned
         /\ phase = "tool_execute" => Unknown = Batch /\ \A c \in Batch : CallOp(c) \in open
         /\ pending.id # 0 /\ phase \in {"tool_prepare", "tool_execute"} =>
              Saved(pending) \cap CallsOf(cur.reply, 1 .. cur.size) = {}
<1> USE DEF CallsInv, CallsKept
<1>1. Due = {} /\ \A kind : Queued(kind) = {}
  BY DEF Due, Vitals, Queued
<1>2. phase \in {"tool_prepare", "tool_execute"} => CallsOf(cur.reply, 1 .. cur.size) \subseteq planned
  BY <1>1 DEF PlansInOrder
<1>3. ASSUME phase = "tool_execute"
      PROVE  Unknown = Batch /\ \A c \in Batch : CallOp(c) \in open
  <2>1. Batch \subseteq CallsOf(cur.reply, 1 .. cur.size)
    BY Facts, CallsOfSubset DEF Batch
  <2>2. \A c \in Batch : CallOp(c) \in open \cup closed
    BY <1>3 DEF IInv, BatchAnnounced, Batch, CallsOf
  <2>3. \A c \in Batch : CallOp(c) \in open
    BY <1>3, <2>2 DEF CallsOnRecord
  <2>4. Unknown \subseteq Batch
    BY <1>3 DEF CallsOnRecord
  <2> QED
    BY <1>2, <1>3, <2>1, <2>3, <2>4 DEF Unknown
<1>4. phase \in {"begin", "context", "provider", "tool_prepare"} => Unknown = {}
  BY <1>1 DEF CallsOnRecord
<1>5. pending.id # 0 /\ phase \in {"tool_prepare", "tool_execute"} =>
        Saved(pending) \cap CallsOf(cur.reply, 1 .. cur.size) = {}
  BY <1>1 DEF CheckpointsKept
<1>6. Driving => cur.turn = turn /\ steps = cur.step /\ cur.op[1] # "call"
  BY <1>1 DEF TurnInOrder
<1>7. phase = "begin" => cur.turn = turn
  BY <1>1 DEF TurnInOrder
<1> QED
  BY <1>1, <1>2, <1>3, <1>4, <1>5, <1>6, <1>7

(* Results and ends a step may leave to append.                             *)
Outcome(V) ==
  /\ \A e \in V : e[2] \in {"result", "close"}
  /\ \A e, f \in V : e[2] = f[2] /\ e[3] = f[3] => e = f
  /\ \A e \in V : e[2] = "result" =>
       e[3] \in planned \ answered /\ (pending.id # 0 => e[3] \notin Saved(pending))
  /\ \A e \in V : e[2] = "close" => e[3] \in open

(* The pending checkpoint is as good as it was.                             *)
LEMMA PendingKept ==
  ASSUME CallsInv, NEW p, NEW c, NEW E, KernelStep(p, c, E), pending.id # 0,
         \A e \in Vitals(E) : e[2] = "result" => e[3] \notin Saved(pending)
  PROVE  InOrder(pending)'
<1>1. InOrder(pending)
  BY DEF CallsInv, CallsKept, CheckpointsKept
<1>2. Saved(pending)' = Saved(pending)
  BY KernelFrame DEF Saved
<1>3. Untouched(Saved(pending))'
  BY <1>1, <1>2, KernelFrame DEF InOrder, Untouched
<1>4. (\A d \in Saved(pending) : ~Started(d))'
  BY <1>1, <1>2, KernelFrame DEF InOrder
<1> QED
  BY <1>1, <1>3, <1>4, KernelFrame DEF InOrder, Cleared

(* At most the event of the cursor's step, unless that is on record.        *)
StepDue(S, c) ==
  /\ \A e \in S : e[2] = "step" /\ e[3] = <<turn, c.step>> /\ steps < c.step
  /\ \A e, f \in S : e = f
  /\ S = {} => steps = c.step

LEMMA OneStepDue ==
  ASSUME NEW n, NEW c, steps < c.step
  PROVE  /\ StepDue({<<n, "step", <<turn, c.step>>>>}, c)
         /\ \A e \in {<<n, "step", <<turn, c.step>>>>} : e[1] = n
<1> DEFINE x == <<n, "step", <<turn, c.step>>>>
<1>1. x[1] = n /\ x[2] = "step" /\ x[3] = <<turn, c.step>>
  OBVIOUS
<1> HIDE DEF x
<1>2. StepDue({x}, c) /\ \A e \in {x} : e[1] = n
  BY <1>1 DEF StepDue
<1> QED
  BY <1>2 DEF x

LEMMA ToDone ==
  ASSUME CallsInv, NEW c, NEW E, KernelStep("done", c, E),
         NEW W, NEW S, Vitals(E) = W \cup S, Outcome(W), S = {} \/ StepDue(S, c)
  PROVE  CallsKept'
<1> USE DEF CallsInv, CallsKept
<1>1. /\ phase' = "done" /\ cur' = c /\ Due' = W \cup S
      /\ UNCHANGED <<open, closed, turn, steps, planned, answered, pending, asks, asked,
                        granted, ids, ran, repeated>>
      /\ Unknown' = Unknown /\ \A d : Started(d)' = Started(d)
      /\ \A kind : Queued(kind)' = {e \in W \cup S : e[2] = kind}
  BY KernelFrame
<1>2. /\ \A e \in S : e[2] = "step" /\ e[3] = <<turn, c.step>> /\ steps < c.step
      /\ \A e, f \in S : e = f
  BY DEF StepDue
<1>3. /\ \A kind : kind \notin {"result", "close", "step"} => Queued(kind)' = {}
      /\ Queued("step")' = S
      /\ Queued("result")' = {e \in W : e[2] = "result"}
      /\ Queued("close")' = {e \in W : e[2] = "close"}
  BY <1>1, <1>2 DEF Outcome
<1>4. Expected'
  <2>1. \A e, f \in W \cup S : e[2] = f[2] /\ e[3] = f[3] => e = f
    BY <1>2 DEF Outcome
  <2> QED
    BY <1>1, <1>3, <2>1 DEF Expected
<1>5. TurnInOrder'
  BY <1>1, <1>2, <1>3 DEF TurnInOrder, Driving
<1>6. PlansInOrder'
  BY <1>1, <1>3 DEF PlansInOrder
<1>7. pending.id # 0 => InOrder(pending)'
  BY <1>2, PendingKept DEF Outcome
<1>8. CheckpointsKept'
  BY <1>1, <1>3, <1>7 DEF CheckpointsKept
<1>9. BatchKept'
  BY <1>1, <1>3 DEF BatchKept, Outcome
<1>10. CallsOnRecord'
  BY <1>1, <1>3 DEF CallsOnRecord, Outcome
<1> QED
  BY <1>1, <1>4, <1>5, <1>6, <1>8, <1>9, <1>10

LEMMA NoOutcome == Outcome({})
BY DEF Outcome

LEMMA ToContext ==
  ASSUME CallsInv, NEW c, NEW E, KernelStep("context", c, E),
         NEW W, NEW S, Vitals(E) = W \cup S, Outcome(W),
         StepDue(S, c),
         c.turn = turn, c.op[1] # "call",
         \A d \in planned : ~(d[1] = turn /\ d[2] = c.step),
         \A d \in Unknown : \E e \in W : e[2] = "close" /\ e[3] = CallOp(d)
  PROVE  CallsKept'
<1> USE DEF CallsInv, CallsKept
<1>1. /\ phase' = "context" /\ cur' = c /\ Due' = W \cup S
      /\ UNCHANGED <<open, closed, turn, steps, planned, answered, pending, asks, asked,
                        granted, ids, ran, repeated>>
      /\ Unknown' = Unknown /\ \A d : Started(d)' = Started(d)
      /\ \A kind : Queued(kind)' = {e \in W \cup S : e[2] = kind}
  BY KernelFrame
<1>2. StepDue(S, c)
  OBVIOUS
<1>3. /\ \A kind : kind \notin {"result", "close", "step"} => Queued(kind)' = {}
      /\ Queued("step")' = S
      /\ Queued("result")' = {e \in W : e[2] = "result"}
      /\ Queued("close")' = {e \in W : e[2] = "close"}
  BY <1>1, <1>2 DEF Outcome, StepDue
<1>4. Expected'
  <2>1. \A e, f \in W \cup S : e[2] = f[2] /\ e[3] = f[3] => e = f
    BY <1>2 DEF Outcome, StepDue
  <2> QED
    BY <1>1, <1>3, <2>1 DEF Expected
<1>5. TurnInOrder'
  BY <1>1, <1>2, <1>3 DEF TurnInOrder, Driving, StepDue
<1>6. PlansInOrder'
  BY <1>1, <1>3 DEF PlansInOrder
<1>7. pending.id # 0 => InOrder(pending)'
  BY <1>2, PendingKept DEF Outcome, StepDue
<1>8. CheckpointsKept'
  BY <1>1, <1>3, <1>7 DEF CheckpointsKept
<1>9. BatchKept'
  BY <1>1, <1>3 DEF BatchKept, Outcome
<1>10. CallsOnRecord'
  BY <1>1, <1>3 DEF CallsOnRecord, Outcome
<1> QED
  BY <1>1, <1>4, <1>5, <1>6, <1>8, <1>9, <1>10

LEMMA ToProvider ==
  ASSUME CallsInv, NEW c, NEW E, KernelStep("provider", c, E), Vitals(E) = {},
         steps = c.step, c.turn = turn, c.op[1] # "call", Unknown = {},
         \A d \in planned : ~(d[1] = turn /\ d[2] = c.step)
  PROVE  CallsKept'
<1> USE DEF CallsInv, CallsKept
<1>1. /\ phase' = "provider" /\ cur' = c /\ Due' = {}
      /\ UNCHANGED <<open, closed, turn, steps, planned, answered, pending, asks, asked,
                        granted, ids, ran, repeated>>
      /\ Unknown' = {} /\ \A d : Started(d)' = Started(d)
      /\ \A kind : Queued(kind)' = {}
  BY KernelFrame
<1>2. Expected' /\ TurnInOrder' /\ PlansInOrder'
  BY <1>1 DEF Expected, TurnInOrder, PlansInOrder, Driving
<1>3. pending.id # 0 => InOrder(pending)'
  BY PendingKept
<1>4. CheckpointsKept' /\ BatchKept' /\ CallsOnRecord'
  BY <1>1, <1>3 DEF CheckpointsKept, BatchKept, CallsOnRecord
<1> QED
  BY <1>1, <1>2, <1>4

LEMMA SavedPlanned ==
  ASSUME NEW p \in Checkpoint
  PROVE  Saved(p) \subseteq CallsOf(p.reply, 1 .. p.size)
<1>1. p.at .. p.size \subseteq 1 .. p.size /\ p.ready \subseteq 1 .. p.size
  BY CheckpointFacts
<1> QED
  BY <1>1 DEF Saved, CallsOf

(* A batch of a message that is new: nothing is known of its calls.         *)
LEMMA ToNewBatch ==
  ASSUME CallsInv, NEW c, NEW E, KernelStep("tool_prepare", c, E),
         c.reply \in Reply, c.size \in Nat, c.from \in Nat \ {0},
         NEW P, NEW S, Vitals(E) = P \cup S,
         StepDue(S, c), \A e \in S : e[1] = 1,
         \A e \in P : e[1] \in Nat \ {0, 1} /\ e[2] = "plan",
         \A e, f \in P : e[3] = f[3] => e = f,
         {e[3] : e \in P} = CallsOf(c.reply, 1 .. c.size),
         c.reply[1] = turn, c.reply[2] = c.step,
         c.turn = turn, c.op[1] # "call", c.ready = {}, Unknown = {},
         \A d \in planned : ~(d[1] = turn /\ d[2] = c.step)
  PROVE  CallsKept'
<1> USE DEF CallsInv, CallsKept
<1> DEFINE New == CallsOf(c.reply, 1 .. c.size)
<1>1. /\ phase' = "tool_prepare" /\ cur' = c /\ Due' = P \cup S
      /\ UNCHANGED <<open, closed, turn, steps, planned, answered, pending, asks, asked,
                        granted, ids, ran, repeated>>
      /\ Unknown' = {} /\ \A d : Started(d)' = Started(d)
      /\ \A kind : Queued(kind)' = {e \in P \cup S : e[2] = kind}
  BY KernelFrame
<1>2. StepDue(S, c) /\ \A e \in S : e[1] = 1
  OBVIOUS
<1>3. /\ \A kind : kind \notin {"plan", "step"} => Queued(kind)' = {}
      /\ Queued("step")' = S /\ Queued("plan")' = P
  BY <1>1, <1>2 DEF StepDue
<1>4. c.reply \in Reply /\ c.size \in Nat /\ c.from \in Nat \ {0}
  OBVIOUS
<1>5. \A d : d[1] = turn /\ d[2] = c.step => d \notin planned
  OBVIOUS
<1>6. \A I : \A d \in CallsOf(c.reply, I) : d[1] = turn /\ d[2] = c.step
  BY DEF CallsOf, CallOf
<1>7. \A I : \A d \in CallsOf(c.reply, I) : d \notin planned
  BY <1>5, <1>6
<1>8. Expected'
  <2>1. \A e, f \in P \cup S : e[2] = f[2] /\ e[3] = f[3] => e = f
    BY <1>2 DEF StepDue
  <2> QED
    BY <1>1, <1>3, <2>1 DEF Expected
<1>9. TurnInOrder'
  BY <1>1, <1>2, <1>3 DEF TurnInOrder, Driving, StepDue
<1>10. PlansInOrder'
  <2>1. \A e \in P : e[3] \in New
    OBVIOUS
  <2>2. \A e \in P : e[3] \notin planned /\ e[3][1] = turn /\ e[3][2] = c.step
    BY <1>6, <1>7, <2>1
  <2>3. \A e \in P, f \in S : f[1] < e[1]
    BY <1>2
  <2>4. \A e \in P : steps = c.step \/ \E f \in S : f[1] < e[1]
    BY <1>2, <2>3 DEF StepDue
  <2>5. \A d \in New : \E e \in P : e[3] = d
    OBVIOUS
  <2> HIDE DEF New
  <2>6. \A d \in planned : d[1] < turn \/ (d[1] = turn /\ d[2] <= steps)
    BY DEF PlansInOrder
  <2>7. ran \subseteq planned /\ answered \subseteq planned /\ asked \subseteq planned
    BY DEF PlansInOrder
  <2> QED
    BY <1>1, <1>3, <2>2, <2>4, <2>5, <2>6, <2>7 DEF PlansInOrder, New
<1>11. pending.id # 0 => InOrder(pending)'
  BY <1>2, PendingKept DEF StepDue
<1>12. CheckpointsKept'
  <2>1. pending.id # 0 => Saved(pending) \subseteq planned
    <3> SUFFICES ASSUME pending.id # 0 PROVE Saved(pending) \subseteq planned
      OBVIOUS
    <3>1. pending \in Checkpoint /\ InOrder(pending)
      BY Facts DEF CheckpointsKept
    <3> QED
      BY <3>1, SavedPlanned DEF InOrder
  <2>2. pending.id # 0 => Saved(pending) \cap New = {}
    BY <1>7, <2>1
  <2> HIDE DEF New
  <2> QED
    BY <1>1, <1>3, <1>11, <2>2 DEF CheckpointsKept, Saved, New
<1>13. BatchKept'
  <2>1. /\ Left' = CallsOf(c.reply, c.ready \cup (c.from .. c.size))
        /\ \A d \in Left' : d \notin planned /\ d \in Call
    <3>1. c.ready \cup (c.from .. c.size) \in SUBSET Nat
      BY <1>4
    <3> QED
      BY <1>1, <1>4, <1>7, <3>1, ReplyCalls DEF Left
  <2>2. ran \subseteq planned /\ answered \subseteq planned /\ asked \subseteq planned
    BY DEF PlansInOrder
  <2>3. Untouched(Left)'
    BY <1>1, <1>3, <2>1, <2>2 DEF Untouched
  <2>4. (\A d \in Left : ~Started(d))'
    BY <1>1, <2>1 DEF CallsOnRecord
  <2>5. Cleared(c.reply, c.ready, c.from + 1 .. c.size)'
    BY <1>1, <1>7, <2>2 DEF Cleared, CallsOf
  <2>6. c.from <= c.size => CallOf(c.reply, c.from) \notin asked
    <3>1. CallOf(c.reply, c.from) \in CallsOf(c.reply, {c.from})
      BY CallOfIn
    <3> QED
      BY <1>7, <2>2, <3>1
  <2>7. cur'.ready \subseteq 1 .. cur'.from - 1
    BY <1>1
  <2> QED
    BY <1>1, <1>3, <2>3, <2>4, <2>5, <2>6, <2>7 DEF BatchKept
<1>14. CallsOnRecord'
  BY <1>1, <1>3 DEF CallsOnRecord
<1> QED
  BY <1>1, <1>8, <1>9, <1>10, <1>12, <1>13, <1>14

(* Nothing is planned yet of a step that is not on record.                  *)
LEMMA NewStepUnplanned ==
  ASSUME CallsInv, NEW n, n \in Nat, steps < n
  PROVE  \A d \in planned : ~(d[1] = turn /\ d[2] = n)
<1>1. ASSUME NEW d \in planned, d[1] = turn, d[2] = n
      PROVE  FALSE
  <2>1. ~(turn < turn) /\ steps \in Nat
    BY Facts DEF CallsInv
  <2>2. d[2] <= steps
    BY <1>1, <2>1 DEF CallsInv, CallsKept, PlansInOrder
  <2> QED
    BY <1>1, <2>1, <2>2
<1> QED
  BY <1>1

LEMMA VitalsAll ==
  ASSUME NEW A, \A e \in A : Vital(e)
  PROVE  Vitals(A) = A
BY DEF Vitals

LEMMA StartCalls ==
  ASSUME CallsInv, Start
  PROVE  CallsKept'
<1> DEFINE s == NextStep
           o == EffectOp("context", cur.turn, s, 0)
           c == [cur EXCEPT !.step = s, !.op = o]
           S == {<<1, "step", <<turn, c.step>>>>}
           E == StepStarted(cur.turn, s) \cup {<<3, "open", o>>}
<1>1. KernelStep("context", c, E) /\ phase = "begin" /\ outbox = {}
  BY DEF Start, Loop
<1>2. cur.turn = turn /\ Unknown = {} /\ IInv
  BY <1>1, QuietFacts DEF CallsInv
<1>3. c.step = s /\ c.turn = turn /\ c.op = o /\ s = steps + 1
  BY <1>2, Facts DEF Cursor, NextStep
<1>4. o[1] # "call"
  BY OpKinds DEF EffectKind
<1>5. Vitals(E) = S
  <2>1. Vitals({<<3, "open", o>>}) = {}
    BY <1>4, NotVital
  <2>2. Vitals(StepStarted(cur.turn, s)) = S
    BY <1>2, <1>3, StepStartedVitals
  <2> HIDE DEF S, s, o
  <2> QED
    BY <2>1, <2>2, VitalsUnion
<1>6. steps < c.step /\ steps \in Nat /\ c.step \in Nat
  BY <1>2, <1>3, Facts
<1>7. StepDue(S, c)
  BY <1>6, OneStepDue
<1>8. \A d \in planned : ~(d[1] = turn /\ d[2] = c.step)
  BY <1>6, NewStepUnplanned
<1> HIDE DEF s, o, c, S, E
<1>9. Vitals(E) = {} \cup S /\ c.op[1] # "call"
  BY <1>3, <1>4, <1>5
<1> QED
  BY <1>1, <1>2, <1>3, <1>7, <1>8, <1>9, NoOutcome, ToContext

LEMMA SwitchCalls ==
  ASSUME CallsInv, FinishModeSwitchTurn
  PROVE  CallsKept'
<1> DEFINE s == NextStep
           c == [cur EXCEPT !.step = s]
           S == {<<1, "step", <<turn, c.step>>>>}
           A == {<<3, "open", SaveOp(cur.turn, s)>>}
           B == {<<4, "mode", cur.mode>>}
           C == {<<5, "close", SaveOp(cur.turn, s)>>}
           D == {<<7, "close", TurnOp(cur.turn)>>}
           F == StepFinished(6, c)
           T == StepStarted(cur.turn, s)
           E == T \cup {<<3, "open", SaveOp(cur.turn, s)>>, <<4, "mode", cur.mode>>,
                        <<5, "close", SaveOp(cur.turn, s)>>}
                  \cup F \cup {<<7, "close", TurnOp(cur.turn)>>}
<1>1. KernelStep("done", c, E) /\ phase = "begin" /\ outbox = {}
  BY DEF FinishModeSwitchTurn, Loop
<1>2. cur.turn = turn /\ IInv
  BY <1>1, QuietFacts DEF CallsInv
<1>3. c.step = s /\ s = steps + 1
  BY <1>2, Facts DEF Cursor, NextStep
<1>4. Vitals(A) = {} /\ Vitals(B) = {} /\ Vitals(C) = {} /\ Vitals(D) = {} /\ Vitals(F) = {}
  BY OpKinds, NotVital, ModeNotVital, PlainEvents
<1>5. Vitals(T) = S
  BY <1>2, <1>3, StepStartedVitals
<1>6. Vitals(E) = {} \cup S
  <2>1. E = (T \cup A) \cup (B \cup C) \cup (F \cup D)
    OBVIOUS
  <2> HIDE DEF A, B, C, D, F, T, E, S
  <2>2. Vitals(T \cup A) = S /\ Vitals(B \cup C) = {} /\ Vitals(F \cup D) = {}
    <3>1. Vitals(T \cup A) = S
      <4>1. Vitals(T \cup A) = Vitals(T) \cup Vitals(A)
        BY VitalsUnion
      <4> QED
        BY <1>4, <1>5, <4>1
    <3>2. Vitals(B \cup C) = {}
      BY <1>4, VitalsUnion
    <3>3. Vitals(F \cup D) = {}
      BY <1>4, VitalsUnion
    <3> QED
      BY <3>1, <3>2, <3>3
  <2>3. Vitals((T \cup A) \cup (B \cup C)) = S
    BY <2>2, VitalsUnion
  <2>4. Vitals((T \cup A) \cup (B \cup C) \cup (F \cup D)) = S
    BY <2>2, <2>3, VitalsUnion
  <2> QED
    BY <2>1, <2>4
<1>7. steps < c.step
  BY <1>2, <1>3, Facts
<1>8. StepDue(S, c)
  BY <1>7, OneStepDue
<1> HIDE DEF c, S, E
<1> QED
  BY <1>1, <1>6, <1>8, NoOutcome, ToDone

LEMMA CommandCalls ==
  ASSUME CallsInv, CommandTool
  PROVE  CallsKept'
<1> DEFINE s == NextStep
           o == EffectOp("tool-prepare", cur.turn, s, 0)
           r == <<cur.turn, s, 0>>
           c == [cur EXCEPT !.step = s, !.op = o, !.reply = r, !.size = 1, !.then = "complete"]
           S == {<<1, "step", <<turn, c.step>>>>}
           p == <<3, "plan", CallOf(r, 1)>>
           T == StepStarted(cur.turn, s)
           E == T \cup {<<3, "plan", CallOf(r, 1)>>, <<4, "open", o>>}
<1>1. KernelStep("tool_prepare", c, E) /\ phase = "begin" /\ outbox = {}
  BY DEF CommandTool, Loop
<1>2. cur.turn = turn /\ Unknown = {} /\ IInv /\ cur.ready = {}
  BY <1>1, QuietFacts DEF CallsInv, IInv, Pristine
<1>3. /\ c.step = s /\ c.turn = turn /\ c.op = o /\ c.reply = r /\ c.size = 1 /\ c.ready = {}
      /\ s = steps + 1
  BY <1>2, Facts DEF Cursor, NextStep
<1>4. o[1] # "call" /\ o \in Op /\ s \in Nat /\ r \in Reply
  <2>1. cur.turn \in Nat /\ s \in Nat
    BY <1>2, <1>3, Facts
  <2>2. r \in Reply
    BY <2>1 DEF Reply
  <2>3. o[1] # "call" /\ o \in Op
    BY <2>1, OpKinds, OpTypes DEF EffectKind
  <2> QED
    BY <2>1, <2>2, <2>3
<1>5. c.reply \in Reply /\ c.size \in Nat /\ c.from \in Nat \ {0}
  <2>1. c.from = cur.from
    BY <1>2, Facts DEF Cursor
  <2> QED
    BY <1>2, <1>3, <1>4, <2>1, Facts
<1>6. Vitals(E) = {p} \cup S
  <2>1. E = T \cup {p} \cup {<<4, "open", o>>}
    OBVIOUS
  <2>2. Vitals({<<4, "open", o>>}) = {}
    BY <1>4, NotVital
  <2>3. Vitals(T) = S
    BY <1>2, <1>3, StepStartedVitals
  <2>4. Vital(p)
    BY DEF Vital
  <2> HIDE DEF S, p, T, E, o
  <2>5. Vitals({p}) = {p}
    BY <2>4, VitalsAll
  <2>6. Vitals(T \cup {p}) = {p} \cup S
    BY <2>3, <2>5, VitalsUnion
  <2>7. Vitals(T \cup {p} \cup {<<4, "open", o>>}) = {p} \cup S
    BY <2>2, <2>6, VitalsUnion
  <2> QED
    BY <2>1, <2>7
<1>7. p[1] = 3 /\ p[2] = "plan" /\ p[3] = CallOf(r, 1)
  OBVIOUS
<1>8. steps < c.step /\ steps \in Nat /\ c.step \in Nat
  BY <1>2, <1>3, Facts
<1>9. StepDue(S, c) /\ \A e \in S : e[1] = 1
  BY <1>8, OneStepDue
<1>10. CallsOf(c.reply, 1 .. c.size) = {CallOf(r, 1)}
  <2>1. 1 .. c.size = {1}
    BY <1>3
  <2> QED
    BY <1>3, <2>1 DEF CallsOf
<1>11. c.reply[1] = turn /\ c.reply[2] = c.step
  BY <1>2, <1>3
<1>12. \A d \in planned : ~(d[1] = turn /\ d[2] = c.step)
  BY <1>8, NewStepUnplanned
<1> DEFINE P == {p}
<1> HIDE DEF s, o, r, c, S, p, T, E
<1>13. \A e \in P : e[1] \in Nat \ {0, 1} /\ e[2] = "plan"
  BY <1>7
<1>14. {e[3] : e \in P} = CallsOf(c.reply, 1 .. c.size)
  BY <1>7, <1>10
<1>15. c.op[1] # "call" /\ c.turn = turn /\ c.ready = {} /\ Unknown = {}
  BY <1>2, <1>3, <1>4
<1>16. \A e, f \in P : e[3] = f[3] => e = f
  OBVIOUS
<1>17. Vitals(E) = P \cup S /\ KernelStep("tool_prepare", c, E) /\ StepDue(S, c)
  BY <1>1, <1>6, <1>9
<1> HIDE DEF P
<1> QED
  BY <1>5, <1>9, <1>11, <1>12, <1>13, <1>14, <1>15, <1>16, <1>17, ToNewBatch

(* The preparation goes on from the pending checkpoint: what was saved is   *)
(* what is left to do.                                                      *)
LEMMA ResumeCalls ==
  ASSUME CallsInv, ResumePreparation
  PROVE  CallsKept'
<1> USE DEF CallsInv, CallsKept
<1> DEFINE s == NextStep
           o == EffectOp("tool-prepare", cur.turn, s, 0)
           c == [ContinueFrom(pending) EXCEPT !.step = s, !.op = o]
           S == {<<1, "step", <<turn, c.step>>>>}
           z == <<3, "resolve", <<pending.id, cur.approved>>>>
           T == StepStarted(cur.turn, s)
           E == T \cup {<<3, "resolve", <<pending.id, cur.approved>>>>,
                        <<4, "close", PendingOp(pending.id)>>, <<5, "open", o>>}
<1>1. /\ KernelStep("tool_prepare", c, E) /\ phase = "begin" /\ outbox = {}
      /\ pending.id # 0
  BY DEF ResumePreparation, Loop
<1>2. /\ cur.turn = turn /\ Unknown = {} /\ pending \in Checkpoint /\ InOrder(pending)
      /\ \A kind : Queued(kind) = {}
  BY <1>1, QuietFacts, Facts DEF CheckpointsKept
<1>3. /\ c.step = s /\ c.turn = turn /\ c.op = o /\ c.reply = pending.reply
      /\ c.size = pending.size /\ c.from = pending.at /\ c.ready = pending.ready
      /\ c.resumed /\ c.approved = cur.approved /\ s = steps + 1
  BY <1>2, Facts DEF Cursor, NextStep, ContinueFrom
<1>4. o[1] # "call"
  BY OpKinds DEF EffectKind
<1>5. Vitals(E) = S \cup {z}
  <2> DEFINE A == {<<4, "close", PendingOp(pending.id)>>}
             B == {<<5, "open", o>>}
  <2>1. E = (T \cup {z}) \cup (A \cup B)
    OBVIOUS
  <2>2. Vitals(A) = {} /\ Vitals(B) = {}
    BY <1>4, OpKinds, NotVital
  <2>3. Vitals(T) = S
    BY <1>2, <1>3, StepStartedVitals
  <2>4. Vital(z)
    BY DEF Vital
  <2> HIDE DEF S, z, T, E, o, A, B
  <2>5. Vitals({z}) = {z}
    BY <2>4, VitalsAll
  <2>6. Vitals(T \cup {z}) = S \cup {z}
    BY <2>3, <2>5, VitalsUnion
  <2>7. Vitals(A \cup B) = {}
    BY <2>2, VitalsUnion
  <2>8. Vitals((T \cup {z}) \cup (A \cup B)) = S \cup {z}
    BY <2>6, <2>7, VitalsUnion
  <2> QED
    BY <2>1, <2>8
<1>6. z[2] = "resolve" /\ z[3] = <<pending.id, cur.approved>>
  OBVIOUS
<1>7. steps < c.step
  BY <1>3, Facts
<1>8. StepDue(S, c) /\ S # {}
  BY <1>7, OneStepDue
<1>9. /\ phase' = "tool_prepare" /\ cur' = c /\ Due' = S \cup {z}
      /\ UNCHANGED <<open, closed, turn, steps, planned, answered, pending, asks, asked,
                        granted, ids, ran, repeated>>
      /\ Unknown' = {} /\ \A d : Started(d)' = Started(d)
      /\ \A kind : Queued(kind)' = {e \in S \cup {z} : e[2] = kind}
  BY <1>1, <1>2, <1>5, KernelFrame
<1> HIDE DEF s, o, c, S, z, T, E
<1>10. /\ \A kind : kind \notin {"step", "resolve"} => Queued(kind)' = {}
       /\ Queued("step")' = S /\ Queued("resolve")' = {z}
  BY <1>6, <1>8, <1>9 DEF StepDue
<1>11. Expected'
  <2>1. \A e, f \in S \cup {z} : e[2] = f[2] /\ e[3] = f[3] => e = f
    BY <1>6, <1>8 DEF StepDue
  <2> QED
    BY <1>9, <1>10, <2>1 DEF Expected
<1>12. TurnInOrder'
  <2>1. c.op[1] # "call" /\ c.turn = turn
    BY <1>3, <1>4
  <2> QED
    BY <1>8, <1>9, <1>10, <2>1 DEF TurnInOrder, Driving, StepDue
<1>13. PlansInOrder'
  BY <1>2, <1>3, <1>9, <1>10 DEF PlansInOrder, InOrder
<1>14. InOrder(pending)'
  <2>1. Untouched(Saved(pending))'
    BY <1>2, <1>9, <1>10 DEF InOrder, Untouched, Saved
  <2> QED
    BY <1>2, <1>9, <2>1 DEF InOrder, Saved, Cleared
<1>15. CheckpointsKept'
  BY <1>1, <1>3, <1>6, <1>9, <1>10, <1>14 DEF CheckpointsKept
<1>16. BatchKept'
  <2>1. Left' = Saved(pending)
    BY <1>3, <1>9 DEF Left, Saved
  <2>2. Untouched(Left)'
    BY <1>2, <1>9, <1>10, <2>1 DEF InOrder, Untouched
  <2>3. (\A d \in Left : ~Started(d))'
    BY <1>2, <1>9, <2>1 DEF InOrder
  <2>4. Cleared(cur.reply, cur.ready, cur.from + 1 .. cur.size)'
    BY <1>2, <1>3, <1>9 DEF InOrder, Cleared
  <2>5. c.ready \subseteq 1 .. c.from - 1
    BY <1>2, <1>3 DEF InOrder
  <2> QED
    BY <1>3, <1>9, <1>10, <2>2, <2>3, <2>4, <2>5 DEF BatchKept
<1>17. CallsOnRecord'
  BY <1>9, <1>10 DEF CallsOnRecord
<1> QED
  BY <1>9, <1>11, <1>12, <1>13, <1>15, <1>16, <1>17

-----------------------------------------------------------------------------
(* Ending in failure: what was due is left, and what was open is closed.    *)
LEMMA FailCalls ==
  ASSUME CallsInv, outbox = {}, Driving, NEW rank, NEW events, NEW unclosed,
         Fail(rank, events, unclosed),
         Outcome(Vitals(events) \cup Vitals({<<rank, "close", o>> : o \in unclosed}))
  PROVE  CallsKept'
<1> DEFINE A == {<<rank, "close", cur.op>>}
           B == {<<rank, "close", o>> : o \in unclosed}
           C == StepFinished(rank + 1, cur)
           D == Transition(rank + 2, cur, cur.mode)
           E == events \cup {<<rank, "close", o>> : o \in {cur.op} \cup unclosed}
                  \cup StepFinished(rank + 1, cur) \cup Transition(rank + 2, cur, cur.mode)
           W == Vitals(events) \cup Vitals(B)
<1>1. KernelStep("done", cur, E)
  BY DEF Fail
<1>2. cur.op[1] # "call"
  BY QuietFacts
<1>3. Vitals(A) = {} /\ Vitals(C) = {} /\ Vitals(D) = {}
  BY <1>2, NotVital, PlainEvents
<1>4. E = (events \cup B) \cup (A \cup (C \cup D))
  OBVIOUS
<1>5. Outcome(W)
  OBVIOUS
<1> HIDE DEF A, B, C, D, E
<1>6. Vitals(A \cup (C \cup D)) = {}
  <2>1. Vitals(C \cup D) = {}
    BY <1>3, VitalsUnion
  <2> QED
    BY <1>3, <2>1, VitalsUnion
<1> DEFINE P == events \cup B
           Q == A \cup (C \cup D)
<1>7. Vitals(P) = W
  BY VitalsUnion
<1> HIDE DEF W
<1>8. Vitals(E) = W
  <2>1. Vitals(P \cup Q) = W
    <3> HIDE DEF P, Q
    <3>1. Vitals(P \cup Q) = Vitals(P) \cup Vitals(Q)
      BY VitalsUnion
    <3> QED
      BY <1>6, <1>7, <3>1 DEF Q
  <2> QED
    BY <1>4, <2>1
<1>9. Vitals(E) = W \cup {}
  BY <1>8
<1> QED
  BY <1>1, <1>5, <1>9, ToDone

LEMMA NothingVital == Vitals({}) = {} /\ \A rank : {<<rank, "close", o>> : o \in {}} = {}
BY DEF Vitals

LEMMA EffectCancelledCalls ==
  ASSUME CallsInv, EffectCancelled
  PROVE  CallsKept'
<1>1. outbox = {} /\ Driving
  BY DEF EffectCancelled, EffectDue, Driving
<1>2. CASE phase # "tool_execute"
  <2>1. Fail(1, {}, {})
    BY <1>2 DEF EffectCancelled
  <2>2. Vitals({}) \cup Vitals({<<1, "close", o>> : o \in {}}) = {}
    BY NothingVital
  <2>3. Outcome(Vitals({}) \cup Vitals({<<1, "close", o>> : o \in {}}))
    BY <2>2, NoOutcome
  <2> QED
    BY <1>1, <2>1, <2>3, FailCalls
<1>3. CASE phase = "tool_execute"
  <2> DEFINE ops == {CallOp(d) : d \in Batch}
             B == {<<1, "close", o>> : o \in ops}
             W == Vitals({}) \cup Vitals(B)
  <2>1. Fail(1, {}, ops)
    BY <1>3 DEF EffectCancelled
  <2>2. \A o \in ops : o[1] = "call" /\ o \in open
    BY <1>1, <1>3, QuietFacts, OpKinds
  <2>3. \A e \in B : e[2] = "close" /\ e[3] \in ops
    OBVIOUS
  <2>4. \A e, f \in B : e[3] = f[3] => e = f
    OBVIOUS
  <2> HIDE DEF ops, B
  <2>5. W = B
    <3>1. \A e \in B : Vital(e)
      BY <2>2, <2>3 DEF Vital
    <3> QED
      BY <3>1, VitalsAll, NothingVital
  <2> HIDE DEF W
  <2>6. Outcome(W)
    BY <2>2, <2>3, <2>4, <2>5 DEF Outcome
  <2> QED
    BY <1>1, <2>1, <2>6, FailCalls DEF W, B
<1> QED
  BY <1>2, <1>3

-----------------------------------------------------------------------------
(* Context and provider effects.                                            *)
LEMMA AcceptContextCalls ==
  ASSUME CallsInv, AcceptContext
  PROVE  CallsKept'
<1> DEFINE o == EffectOp("provider", cur.turn, cur.step, cur.attempt + 1)
           c == [cur EXCEPT !.attempt = @ + 1, !.op = o]
           E == {<<1, "close", cur.op>>, <<2, "open", o>>}
<1>1. KernelStep("provider", c, E) /\ phase = "context" /\ outbox = {} /\ Driving
  BY DEF AcceptContext, InEffect, EffectDue, Driving
<1>2. cur.turn = turn /\ steps = cur.step /\ cur.op[1] # "call" /\ Unknown = {}
  BY <1>1, QuietFacts
<1>3. c.turn = cur.turn /\ c.step = cur.step /\ c.op = o
  BY Facts DEF CallsInv, Cursor
<1>4. o[1] # "call"
  BY OpKinds DEF EffectKind
<1>5. Vitals(E) = {}
  BY <1>2, <1>4, TwoNotVital
<1>6. \A d \in planned : ~(d[1] = turn /\ d[2] = cur.step)
  BY <1>1 DEF CallsInv, CallsKept, PlansInOrder
<1> HIDE DEF o, c, E
<1> QED
  BY <1>1, <1>2, <1>3, <1>4, <1>5, <1>6, ToProvider

LEMMA AcceptAnswerCalls ==
  ASSUME CallsInv, AcceptAnswer
  PROVE  CallsKept'
<1> DEFINE A == {<<1, "close", cur.op>>}
           C == StepFinished(2, cur)
           D == Transition(3, cur, cur.mode)
           E == {<<1, "close", cur.op>>} \cup StepFinished(2, cur) \cup Transition(3, cur, cur.mode)
<1>1. KernelStep("done", cur, E) /\ outbox = {} /\ Driving
  BY DEF AcceptAnswer, InEffect, EffectDue, Driving
<1>2. Vitals(A) = {} /\ Vitals(C) = {} /\ Vitals(D) = {}
  BY <1>1, QuietFacts, NotVital, PlainEvents
<1>3. E = A \cup (C \cup D)
  OBVIOUS
<1> HIDE DEF A, C, D, E
<1>4. Vitals(C \cup D) = {}
  BY <1>2, VitalsUnion
<1>5. Vitals(A \cup (C \cup D)) = {}
  BY <1>2, <1>4, VitalsUnion
<1>6. Vitals(E) = {} \cup {}
  BY <1>3, <1>5
<1> QED
  BY <1>1, <1>6, NoOutcome, ToDone

LEMMA CompactRetryCalls ==
  ASSUME CallsInv, CompactRetry
  PROVE  CallsKept'
<1> DEFINE o == EffectOp("context-compact", cur.turn, cur.step, cur.attempt)
           c == [cur EXCEPT !.op = o, !.compacted = TRUE]
           A == {<<1, "close", cur.op>>, <<3, "open", o>>}
           B == {<<2, "mode", cur.mode>>}
           E == {<<1, "close", cur.op>>, <<2, "mode", cur.mode>>, <<3, "open", o>>}
<1>1. KernelStep("context", c, E) /\ phase = "provider" /\ outbox = {} /\ Driving
  BY DEF CompactRetry, InEffect, EffectDue, Driving
<1>2. cur.turn = turn /\ steps = cur.step /\ cur.op[1] # "call" /\ Unknown = {}
  BY <1>1, QuietFacts
<1>3. c.turn = cur.turn /\ c.step = cur.step /\ c.op = o
  BY Facts DEF CallsInv, Cursor
<1>4. o[1] # "call"
  BY OpKinds DEF EffectKind
<1>5. Vitals(A) = {} /\ Vitals(B) = {}
  BY <1>2, <1>4, TwoNotVital, ModeNotVital
<1>6. E = A \cup B
  OBVIOUS
<1>7. \A d \in planned : ~(d[1] = turn /\ d[2] = cur.step)
  BY <1>1 DEF CallsInv, CallsKept, PlansInOrder
<1> HIDE DEF o, c, E, A, B
<1>8. Vitals(E) = {} \cup {}
  BY <1>5, <1>6, VitalsUnion
<1>9. StepDue({}, c)
  BY <1>2, <1>3 DEF StepDue
<1>10. \A d \in planned : ~(d[1] = turn /\ d[2] = c.step)
  BY <1>3, <1>7
<1> QED
  BY <1>1, <1>2, <1>3, <1>4, <1>8, <1>9, <1>10, NoOutcome, ToContext

LEMMA ProviderFailsCalls ==
  ASSUME CallsInv, ProviderFails
  PROVE  CallsKept'
<1>1. outbox = {} /\ Driving /\ Fail(1, {}, {})
  BY DEF ProviderFails, InEffect, EffectDue, Driving
<1>2. Vitals({}) \cup Vitals({<<1, "close", o>> : o \in {}}) = {}
  BY NothingVital
<1>3. Outcome(Vitals({}) \cup Vitals({<<1, "close", o>> : o \in {}}))
  BY <1>2, NoOutcome
<1> QED
  BY <1>1, <1>3, FailCalls

(* A reply with actions: their calls are planned, in a step without any.    *)
LEMMA AcceptActionsCalls ==
  ASSUME CallsInv, NEW n \in 1 .. MaxCalls, AcceptActions(n)
  PROVE  CallsKept'
<1> DEFINE o == EffectOp("tool-prepare", cur.turn, cur.step, cur.attempt)
           r == <<cur.turn, cur.step, cur.attempt>>
           c == [cur EXCEPT !.op = o, !.reply = r, !.size = n, !.from = 1, !.ready = {},
                            !.resumed = FALSE]
           A == {<<1, "close", cur.op>>}
           B == {<<n + 2, "open", o>>}
           P == {<<1 + i, "plan", CallOf(r, i)>> : i \in 1..n}
           E == {<<1, "close", cur.op>>} \cup {<<1 + i, "plan", CallOf(r, i)>> : i \in 1..n}
                \cup {<<n + 2, "open", o>>}
<1>1. KernelStep("tool_prepare", c, E) /\ phase = "provider" /\ outbox = {} /\ Driving
  BY AcceptedIds DEF InEffect, EffectDue, Driving
<1>2. cur.turn = turn /\ steps = cur.step /\ cur.op[1] # "call" /\ Unknown = {}
  BY <1>1, QuietFacts
<1>3. n \in Nat /\ o \in Op /\ o[1] # "call" /\ r \in Reply
  <2>1. n \in Nat
    BY AgentTurnAssumption
  <2>2. o \in Op /\ r \in Reply
    BY Facts, OpTypes DEF CallsInv, EffectKind, Reply
  <2> QED
    BY <2>1, <2>2, OpKinds DEF EffectKind
<1>4. /\ c.turn = cur.turn /\ c.step = cur.step /\ c.op = o /\ c.reply = r /\ c.size = n
      /\ c.ready = {}
  BY Facts DEF CallsInv, Cursor
<1>5. c.reply \in Reply /\ c.size \in Nat /\ c.from \in Nat \ {0}
  <2>1. c.from = 1
    BY Facts DEF CallsInv, Cursor
  <2> QED
    BY <1>3, <1>4, <2>1
<1>6. \A i \in 1 .. n : 1 + i \in Nat \ {0, 1}
  BY <1>3
<1>7. /\ \A e \in P : e[1] \in Nat \ {0, 1} /\ e[2] = "plan"
      /\ \A e, f \in P : e[3] = f[3] => e = f
      /\ {e[3] : e \in P} = CallsOf(r, 1 .. n)
  <2>1. \A e \in P : e[1] \in Nat \ {0, 1} /\ e[2] = "plan"
    BY <1>6
  <2>2. ASSUME NEW e \in P, NEW f \in P, e[3] = f[3]
        PROVE  e = f
    <3>1. PICK i \in 1 .. n : e = <<1 + i, "plan", CallOf(r, i)>>
      OBVIOUS
    <3>2. PICK j \in 1 .. n : f = <<1 + j, "plan", CallOf(r, j)>>
      OBVIOUS
    <3>3. CallOf(r, i) = CallOf(r, j)
      BY <2>2, <3>1, <3>2
    <3> QED
      BY <3>1, <3>2, <3>3, CallOfSame
  <2>3. {e[3] : e \in P} = CallsOf(r, 1 .. n)
    <3>1. ASSUME NEW e \in P
          PROVE  e[3] \in CallsOf(r, 1 .. n)
      BY DEF CallsOf
    <3>2. ASSUME NEW i \in 1 .. n
          PROVE  \E e \in P : e[3] = CallOf(r, i)
      <4>1. <<1 + i, "plan", CallOf(r, i)>>[3] = CallOf(r, i)
        OBVIOUS
      <4> QED
        BY <4>1
    <3>3. \A d \in CallsOf(r, 1 .. n) : \E e \in P : e[3] = d
      BY <3>2 DEF CallsOf
    <3> HIDE DEF P
    <3> QED
      BY <3>1, <3>3
  <2> QED
    BY <2>1, <2>2, <2>3
<1>8. Vitals(E) = P
  <2>1. E = (A \cup B) \cup P
    OBVIOUS
  <2>2. Vitals(A) = {} /\ Vitals(B) = {}
    BY <1>2, <1>3, NotVital
  <2> HIDE DEF A, B, P, E, o, r, c
  <2>3. Vitals(P) = P
    BY <1>7, VitalsAll DEF Vital
  <2>4. Vitals(A \cup B) = {}
    BY <2>2, VitalsUnion
  <2>5. Vitals((A \cup B) \cup P) = P
    BY <2>3, <2>4, VitalsUnion
  <2> QED
    BY <2>1, <2>5
<1>9. \A d \in planned : ~(d[1] = turn /\ d[2] = cur.step)
  BY <1>1 DEF CallsInv, CallsKept, PlansInOrder
<1>10. r[1] = cur.turn /\ r[2] = cur.step
  OBVIOUS
<1> HIDE DEF o, r, c, E, A, B, P
<1>11. StepDue({}, c)
  BY <1>2, <1>4 DEF StepDue
<1>12. Vitals(E) = P \cup {} /\ KernelStep("tool_prepare", c, E)
  BY <1>1, <1>8
<1>13. {e[3] : e \in P} = CallsOf(c.reply, 1 .. c.size)
  BY <1>4, <1>7
<1>14. \A d \in planned : ~(d[1] = turn /\ d[2] = c.step)
  BY <1>4, <1>9
<1>15. c.op[1] # "call" /\ c.turn = turn /\ c.reply[1] = turn /\ c.reply[2] = c.step
  BY <1>2, <1>3, <1>4, <1>10
<1> QED
  BY <1>2, <1>4, <1>5, <1>7, <1>11, <1>12, <1>13, <1>14, <1>15, ToNewBatch

-----------------------------------------------------------------------------
(* Batches.                                                                 *)

(* The calls that are left to prepare: planned, new to the world, and apart *)
(* from those of the pending checkpoint.                                    *)
LEMMA PreparationFacts ==
  ASSUME CallsInv, phase = "tool_prepare", outbox = {}
  PROVE  /\ cur.ready \subseteq 1 .. cur.from - 1
         /\ cur.started = {}
         /\ Left \subseteq CallsOf(cur.reply, 1 .. cur.size)
         /\ Left \subseteq planned /\ Left \cap (ran \cup answered) = {}
         /\ pending.id # 0 => Left \cap Saved(pending) = {}
         /\ \A d \in Left : ~Started(d)
         /\ Cleared(cur.reply, cur.ready, cur.from + 1 .. cur.size)
         /\ Unknown = {}
         /\ CallOf(cur.reply, cur.from) \in asked /\ cur.from <= cur.size =>
              cur.resumed /\ (cur.approved => CallOf(cur.reply, cur.from) \in granted)
<1> USE DEF CallsInv, CallsKept
<1>1. cur.started = {}
  BY DEF IInv, Pristine
<1>2. cur.ready \cup (cur.from .. cur.size) \subseteq 1 .. cur.size
  <2>1. cur.from .. cur.size \subseteq 1 .. cur.size
    BY Facts
  <2> QED
    BY <2>1, Facts
<1>3. Left \subseteq CallsOf(cur.reply, 1 .. cur.size)
  BY <1>2 DEF Left, CallsOf
<1>4. /\ CallsOf(cur.reply, 1 .. cur.size) \subseteq planned
      /\ pending.id # 0 => Saved(pending) \cap CallsOf(cur.reply, 1 .. cur.size) = {}
      /\ Unknown = {} /\ Queued("resolve") = {}
  BY QuietFacts
<1>5. Left \cap (ran \cup answered) = {} /\ \A d \in Left : ~Started(d)
  BY DEF BatchKept, Untouched
<1> QED
  BY <1>1, <1>3, <1>4, <1>5 DEF BatchKept

(* The results of the actions that need no execution.                       *)
LEMMA ImmediateOutcome ==
  ASSUME CallsInv, phase = "tool_prepare", outbox = {},
         NEW I, I \subseteq cur.from .. cur.size
  PROVE  /\ Vitals(ImmediateResults(I)) = ImmediateResults(I)
         /\ Outcome(ImmediateResults(I))
         /\ \A e \in ImmediateResults(I) :
              e[2] = "result" /\ \E i \in I : e[3] = CallOf(cur.reply, i)
<1> DEFINE W == ImmediateResults(I)
<1>1. \A e \in W : e[2] = "result" /\ \E i \in I : e[3] = CallOf(cur.reply, i)
  BY DEF ImmediateResults
<1>2. \A e, f \in W : e[3] = f[3] => e = f
  <2>1. ASSUME NEW e \in W, NEW f \in W, e[3] = f[3]
        PROVE  e = f
    <3>1. PICK i \in I : e = <<i, "result", CallOf(cur.reply, i)>>
      BY DEF ImmediateResults
    <3>2. PICK j \in I : f = <<j, "result", CallOf(cur.reply, j)>>
      BY DEF ImmediateResults
    <3>3. CallOf(cur.reply, i) = CallOf(cur.reply, j)
      BY <2>1, <3>1, <3>2
    <3> QED
      BY <3>1, <3>2, <3>3, CallOfSame
  <2> QED
    BY <2>1
<1>3. \A i \in I : CallOf(cur.reply, i) \in Left
  <2>1. \A i \in I : i \in cur.ready \cup (cur.from .. cur.size)
    OBVIOUS
  <2> QED
    BY <2>1, CallOfIn DEF Left
<1>4. \A e \in W : e[3] \in Left
  BY <1>1, <1>3
<1> HIDE DEF W
<1>5. Outcome(W)
  BY <1>1, <1>2, <1>4, PreparationFacts DEF Outcome
<1>6. Vitals(W) = W
  BY <1>1, VitalsAll DEF Vital
<1> QED
  BY <1>1, <1>5, <1>6 DEF W

(* The results and ends of the calls of the batch.                          *)
LEMMA ToolOutcome ==
  ASSUME CallsInv, phase = "tool_execute", outbox = {}
  PROVE  /\ Vitals(ToolResults) = ToolResults
         /\ Outcome(ToolResults)
         /\ \A d \in Unknown : \E e \in ToolResults : e[2] = "close" /\ e[3] = CallOp(d)
<1> DEFINE A == {<<2 * i, "result", CallOf(cur.reply, i)>> : i \in cur.ready}
           B == {<<2 * i + 1, "close", CallOp(CallOf(cur.reply, i))>> : i \in cur.ready}
<1>1. /\ \A e \in A : e[2] = "result" /\ e[3] \in Batch
      /\ \A e \in B : e[2] = "close" /\ \E d \in Batch : e[3] = CallOp(d)
  BY DEF Batch, CallsOf
<1>2. \A e, f \in A : e[3] = f[3] => e = f
  <2>1. ASSUME NEW e \in A, NEW f \in A, e[3] = f[3]
        PROVE  e = f
    <3>1. PICK i \in cur.ready : e = <<2 * i, "result", CallOf(cur.reply, i)>>
      OBVIOUS
    <3>2. PICK j \in cur.ready : f = <<2 * j, "result", CallOf(cur.reply, j)>>
      OBVIOUS
    <3>3. CallOf(cur.reply, i) = CallOf(cur.reply, j)
      BY <2>1, <3>1, <3>2
    <3> QED
      BY <3>1, <3>2, <3>3, CallOfSame
  <2> QED
    BY <2>1
<1>3. \A e, f \in B : e[3] = f[3] => e = f
  <2>1. ASSUME NEW e \in B, NEW f \in B, e[3] = f[3]
        PROVE  e = f
    <3>1. PICK i \in cur.ready : e = <<2 * i + 1, "close", CallOp(CallOf(cur.reply, i))>>
      OBVIOUS
    <3>2. PICK j \in cur.ready : f = <<2 * j + 1, "close", CallOp(CallOf(cur.reply, j))>>
      OBVIOUS
    <3>3. CallOp(CallOf(cur.reply, i)) = CallOp(CallOf(cur.reply, j))
      BY <2>1, <3>1, <3>2
    <3> QED
      BY <3>1, <3>2, <3>3, CallOfSame, CallOpSame
  <2> QED
    BY <2>1
<1>4. \A i \in cur.ready : \E e \in B : e[3] = CallOp(CallOf(cur.reply, i))
  <2>1. ASSUME NEW i \in cur.ready
        PROVE  \E e \in B : e[3] = CallOp(CallOf(cur.reply, i))
    <3>1. <<2 * i + 1, "close", CallOp(CallOf(cur.reply, i))>>[3] = CallOp(CallOf(cur.reply, i))
      OBVIOUS
    <3> QED
      BY <3>1
  <2> QED
    BY <2>1
<1>5. ToolResults = A \cup B
  BY DEF ToolResults
<1> HIDE DEF A, B
<1>6. \A d \in Batch : \E e \in B : e[3] = CallOp(d)
  BY <1>4 DEF Batch, CallsOf
<1>7. /\ Unknown = Batch /\ \A d \in Batch : CallOp(d) \in open
      /\ Batch \subseteq CallsOf(cur.reply, 1 .. cur.size)
      /\ CallsOf(cur.reply, 1 .. cur.size) \subseteq planned
      /\ pending.id # 0 => Saved(pending) \cap CallsOf(cur.reply, 1 .. cur.size) = {}
  BY QuietFacts, Facts, CallsOfSubset DEF CallsInv, Batch
<1>8. Batch \cap answered = {}
  BY DEF CallsInv, CallsKept, BatchKept
<1>9. \A e, f \in A \cup B : e[2] = f[2] /\ e[3] = f[3] => e = f
  BY <1>1, <1>2, <1>3
<1>10. Outcome(A \cup B)
  <2>1. \A e \in A : e[3] \in planned \ answered /\ (pending.id # 0 => e[3] \notin Saved(pending))
    BY <1>1, <1>7, <1>8
  <2>2. \A e \in B : e[3] \in open
    BY <1>1, <1>7
  <2> QED
    BY <1>1, <1>9, <2>1, <2>2 DEF Outcome
<1>11. Vitals(A \cup B) = A \cup B
  <2>1. \A e \in A \cup B : Vital(e)
    BY <1>1, OpKinds DEF Vital
  <2> QED
    BY <2>1, VitalsAll
<1> QED
  BY <1>1, <1>5, <1>6, <1>7, <1>10, <1>11

LEMMA AfterToolsCalls ==
  ASSUME CallsInv, outbox = {}, phase \in {"tool_prepare", "tool_execute"},
         NEW rank, NEW events, AfterTools(rank, events),
         Vitals(events) = events, Outcome(events),
         \A d \in Unknown : \E e \in events : e[2] = "close" /\ e[3] = CallOp(d)
  PROVE  CallsKept'
<1>1. /\ cur.turn = turn /\ steps = cur.step /\ cur.op[1] # "call" /\ Driving
      /\ cur.step \in Nat /\ cur \in Cursor
  BY QuietFacts, Facts DEF CallsInv, Driving
<1> DEFINE A == {<<rank, "close", cur.op>>}
           F == StepFinished(rank + 1, cur)
<1>2. Vitals(A) = {} /\ Vitals(F) = {}
  BY <1>1, NotVital, PlainEvents
<1>3. Vitals(A \cup F) = {}
  <2> HIDE DEF A, F
  <2> QED BY <1>2, VitalsUnion
<1>4. CASE Fail(rank, events, {})
  <2>1. Vitals(events) \cup Vitals({<<rank, "close", o>> : o \in {}}) = events
    BY NothingVital
  <2>2. Outcome(Vitals(events) \cup Vitals({<<rank, "close", o>> : o \in {}}))
    BY <2>1
  <2> QED
    BY <1>1, <1>4, <2>2, FailCalls
<1>5. ASSUME NEW m \in Modes, AdvanceAfterTools(rank, events, m), cur.then = "complete"
      PROVE  CallsKept'
  <2> DEFINE c == [cur EXCEPT !.mode = m]
             D == Transition(rank + 2, cur, m)
             E == events \cup {<<rank, "close", cur.op>>} \cup StepFinished(rank + 1, cur)
                         \cup Transition(rank + 2, cur, m)
  <2>1. KernelStep("done", c, E)
    BY <1>5 DEF AdvanceAfterTools
  <2>2. Vitals(D) = {}
    BY PlainEvents
  <2>3. E = events \cup ((A \cup F) \cup D)
    OBVIOUS
  <2> HIDE DEF A, F, D, E, c
  <2>4. Vitals((A \cup F) \cup D) = {}
    BY <1>3, <2>2, VitalsUnion
  <2> DEFINE Q == (A \cup F) \cup D
  <2> HIDE DEF Q
  <2>5. E = events \cup Q /\ Vitals(Q) = {}
    BY <2>3, <2>4 DEF Q
  <2>6. Vitals(events \cup Q) = Vitals(events) \cup Vitals(Q)
    BY VitalsUnion
  <2>7. Vitals(E) = events \cup {}
    BY <2>5, <2>6
  <2> QED
    BY <2>1, <2>7, ToDone
<1>6. ASSUME NEW m \in Modes, AdvanceAfterTools(rank, events, m), cur.then # "complete"
      PROVE  CallsKept'
  <2> DEFINE s == cur.step + 1
             o == EffectOp("context", cur.turn, s, cur.attempt)
             c == [cur EXCEPT !.step = s, !.op = o, !.mode = m, !.reply = <<0, 0, 0>>, !.size = 0,
                              !.from = 1, !.ready = {}, !.started = {}, !.resumed = FALSE]
             x == <<rank + 2, "step", <<cur.turn, s>>>>
             S == {<<rank + 2, "step", <<turn, c.step>>>>}
             B == {<<rank + 3, "open", StepOp(cur.turn, s)>>}
             D == {<<rank + 4, "open", o>>}
             E == events \cup {<<rank, "close", cur.op>>} \cup StepFinished(rank + 1, cur)
                    \cup {<<rank + 2, "step", <<cur.turn, s>>>>,
                          <<rank + 3, "open", StepOp(cur.turn, s)>>, <<rank + 4, "open", o>>}
  <2>1. KernelStep("context", c, E)
    BY <1>6 DEF AdvanceAfterTools
  <2>2. c.step = s /\ c.turn = turn /\ c.op = o
    BY <1>1 DEF Cursor
  <2>3. o[1] # "call" /\ Vitals(B) = {} /\ Vitals(D) = {}
    BY OpKinds, NotVital DEF EffectKind
  <2>4. steps < c.step /\ c.step \in Nat
    BY <1>1, <2>2
  <2>5. StepDue(S, c) /\ S = {x}
    BY <1>1, <2>2, <2>4, OneStepDue
  <2>6. x[2] = "step"
    OBVIOUS
  <2>7. E = (events \cup {x}) \cup ((A \cup F) \cup (B \cup D))
    OBVIOUS
  <2>8. \A d \in planned : ~(d[1] = turn /\ d[2] = c.step)
    BY <2>4, NewStepUnplanned
  <2> HIDE DEF A, F, B, D, E, c, o, s, x, S
  <2>9. Vitals({x}) = {x}
    BY <2>6, VitalsAll DEF Vital
  <2>10. Vitals(events \cup {x}) = events \cup S
    BY <2>5, <2>9, VitalsUnion
  <2>11. Vitals((A \cup F) \cup (B \cup D)) = {}
    <3>1. Vitals(B \cup D) = {}
      BY <2>3, VitalsUnion
    <3> QED
      BY <1>3, <3>1, VitalsUnion
  <2>12. Vitals(E) = events \cup S
    <3> DEFINE P == events \cup {x}
               Q == (A \cup F) \cup (B \cup D)
    <3> HIDE DEF P, Q
    <3>1. Vitals(P \cup Q) = Vitals(P) \cup Vitals(Q)
      BY VitalsUnion
    <3> QED
      BY <2>7, <2>10, <2>11, <3>1 DEF P, Q
  <2> QED
    BY <2>1, <2>2, <2>3, <2>5, <2>8, <2>12, ToContext
<1> QED
  BY <1>4, <1>5, <1>6 DEF AfterTools

LEMMA AcceptImmediateCalls ==
  ASSUME CallsInv, AcceptImmediate
  PROVE  CallsKept'
<1> DEFINE W == ImmediateResults(cur.from .. cur.size)
<1>1. /\ phase = "tool_prepare" /\ outbox = {}
      /\ AfterTools(cur.size + 1, W)
  BY DEF AcceptImmediate, InEffect, EffectDue
<1>2. Vitals(W) = W /\ Outcome(W) /\ Unknown = {}
  BY <1>1, ImmediateOutcome, PreparationFacts
<1> HIDE DEF W
<1> QED
  BY <1>1, <1>2, AfterToolsCalls

LEMMA FinishToolsCalls ==
  ASSUME CallsInv, FinishTools
  PROVE  CallsKept'
<1>1. phase = "tool_execute" /\ outbox = {} /\ Driving
  BY DEF FinishTools, EffectDue, Driving
<1>2. /\ Vitals(ToolResults) = ToolResults /\ Outcome(ToolResults)
      /\ \A d \in Unknown : \E e \in ToolResults : e[2] = "close" /\ e[3] = CallOp(d)
  BY <1>1, ToolOutcome
<1>3. CASE Fail(2 * cur.size + 2, ToolResults, {})
  <2> DEFINE r == 2 * cur.size + 2
  <2> HIDE DEF r
  <2>1. Fail(r, ToolResults, {})
    BY <1>3 DEF r
  <2>2. Vitals(ToolResults) \cup Vitals({<<r, "close", o>> : o \in {}}) = ToolResults
    BY <1>2, NothingVital
  <2>3. Outcome(Vitals(ToolResults) \cup Vitals({<<r, "close", o>> : o \in {}}))
    BY <1>2, <2>2
  <2> QED
    BY <1>1, <2>1, <2>3, FailCalls
<1>4. CASE AfterTools(2 * cur.size + 2, ToolResults)
  BY <1>1, <1>2, <1>4, AfterToolsCalls
<1> QED
  BY <1>3, <1>4 DEF FinishTools

(* An action that is ready was allowed to run: it was not asked about, or   *)
(* the recorded answer approved it.                                         *)
LEMMA ReadyCleared ==
  ASSUME CallsInv, phase = "tool_prepare", outbox = {},
         NEW I, I \subseteq cur.from .. cur.size, NEW R \in ReadyAllowed(I)
  PROVE  CallsOf(cur.reply, cur.ready \cup R) \cap asked \subseteq granted
<1>1. ASSUME NEW i \in cur.ready \cup R, CallOf(cur.reply, i) \in asked
      PROVE  CallOf(cur.reply, i) \in granted
  <2>1. CASE i \in cur.ready
    BY <1>1, <2>1, CallOfIn, PreparationFacts DEF Cleared
  <2>2. CASE i \in R /\ i # cur.from
    <3>1. i \in cur.from + 1 .. cur.size
      BY <2>2, Facts DEF ReadyAllowed, CallsInv
    <3>2. CallOf(cur.reply, i) \notin asked
      <4>1. CallOf(cur.reply, i) \in CallsOf(cur.reply, cur.from + 1 .. cur.size)
        BY <3>1, CallOfIn
      <4>2. CallsOf(cur.reply, cur.from + 1 .. cur.size) \cap asked = {}
        BY PreparationFacts DEF Cleared
      <4> QED
        BY <4>1, <4>2
    <3> QED
      BY <1>1, <3>2
  <2>3. CASE i \in R /\ i = cur.from
    <3>1. cur.from <= cur.size
      BY <2>3, Facts DEF ReadyAllowed, CallsInv
    <3>2. cur.resumed /\ (cur.approved => CallOf(cur.reply, cur.from) \in granted)
      BY <1>1, <2>3, <3>1, PreparationFacts
    <3>3. cur.approved
      BY <2>3, <3>2 DEF ReadyAllowed
    <3> QED
      BY <2>3, <3>2, <3>3
  <2> QED
    BY <1>1, <2>1, <2>2, <2>3
<1> QED
  BY <1>1 DEF CallsOf

LEMMA AcceptPreparedCalls ==
  ASSUME CallsInv, NEW R, AcceptPrepared(R)
  PROVE  CallsKept'
<1> USE DEF CallsInv, CallsKept
<1> DEFINE I == cur.from .. cur.size
           ready == cur.ready \cup R
           o == EffectOp("tools", cur.turn, cur.step, cur.attempt)
           c == [cur EXCEPT !.op = o, !.ready = ready]
           W == ImmediateResults(I \ R)
           X == ExecutionStarts(cur.size + 1, ready)
           E == ImmediateResults(I \ R)
                  \cup {<<cur.size + 1, "close", cur.op>>}
                  \cup ExecutionStarts(cur.size + 1, ready)
                  \cup {<<2 * cur.size + 2, "open", o>>}
           New == CallsOf(cur.reply, ready)
<1>1. /\ phase = "tool_prepare" /\ outbox = {} /\ R \in ReadyAllowed(I)
      /\ KernelStep("tool_execute", c, E)
  BY DEF AcceptPrepared, InEffect, EffectDue
<1>2. R \subseteq I
  BY <1>1 DEF ReadyAllowed
<1>3. /\ c.op = o /\ c.ready = ready /\ c.turn = cur.turn /\ c.step = cur.step
      /\ c.reply = cur.reply /\ c.size = cur.size /\ c.started = cur.started
  BY Facts DEF Cursor
<1>4. cur.turn = turn /\ steps = cur.step /\ cur.op[1] # "call" /\ o[1] # "call"
  BY <1>1, QuietFacts, OpKinds DEF Driving, EffectKind
<1>5. /\ Vitals(W) = W /\ Outcome(W)
      /\ \A e \in W : e[2] = "result" /\ \E i \in I \ R : e[3] = CallOf(cur.reply, i)
  <2>1. I \ R \subseteq I
    OBVIOUS
  <2> QED
    BY <1>1, <2>1, ImmediateOutcome
<1>6. /\ \A e \in X : e[2] = "open" /\ \E i \in ready : e[3] = CallOp(CallOf(cur.reply, i))
      /\ \A e, f \in X : e[3] = f[3] => e = f
  <2>1. \A e \in X : e[2] = "open" /\ \E i \in ready : e[3] = CallOp(CallOf(cur.reply, i))
    BY DEF ExecutionStarts
  <2>2. ASSUME NEW e \in X, NEW f \in X, e[3] = f[3]
        PROVE  e = f
    <3>1. PICK i \in ready : e = <<cur.size + 1 + i, "open", CallOp(CallOf(cur.reply, i))>>
      BY DEF ExecutionStarts
    <3>2. PICK j \in ready : f = <<cur.size + 1 + j, "open", CallOp(CallOf(cur.reply, j))>>
      BY DEF ExecutionStarts
    <3>3. CallOp(CallOf(cur.reply, i)) = CallOp(CallOf(cur.reply, j))
      BY <2>2, <3>1, <3>2
    <3> QED
      BY <3>1, <3>2, <3>3, CallOfSame, CallOpSame
  <2> QED
    BY <2>1, <2>2
<1>7. New \subseteq Left /\ New \subseteq CallsOf(cur.reply, 1 .. cur.size)
  <2>1. ready \subseteq cur.ready \cup (cur.from .. cur.size)
    BY <1>2
  <2>2. New \subseteq Left
    BY <2>1 DEF Left, CallsOf
  <2> QED
    BY <1>1, <2>2, PreparationFacts
<1>8. \A i \in I \ R : CallOf(cur.reply, i) \notin New
  <2>1. \A i \in I \ R : i \notin ready
    <3>1. \A i \in I : i \notin 1 .. cur.from - 1
      BY Facts
    <3>2. cur.ready \subseteq 1 .. cur.from - 1
      BY <1>1, PreparationFacts
    <3> HIDE DEF I
    <3> QED
      BY <3>1, <3>2
  <2> HIDE DEF I, ready
  <2> QED
    BY <2>1, CallOfIn
<1>9. Vitals(E) = W \cup X
  <2> DEFINE A == {<<cur.size + 1, "close", cur.op>>}
             B == {<<2 * cur.size + 2, "open", o>>}
  <2>1. E = (W \cup X) \cup (A \cup B)
    OBVIOUS
  <2>2. Vitals(A) = {} /\ Vitals(B) = {}
    BY <1>4, NotVital
  <2> HIDE DEF I, W, X, A, B, E, o, ready
  <2>3. Vitals(X) = X
    BY <1>6, OpKinds, VitalsAll DEF Vital
  <2>4. Vitals(W \cup X) = W \cup X
    BY <1>5, <2>3, VitalsUnion
  <2>5. Vitals(A \cup B) = {}
    BY <2>2, VitalsUnion
  <2>6. Vitals((W \cup X) \cup (A \cup B)) = W \cup X
    BY <2>4, <2>5, VitalsUnion
  <2> QED
    BY <2>1, <2>6
<1>10. New \cap asked \subseteq granted
  BY <1>1, ReadyCleared
<1> HIDE DEF I, ready, W, X, E, o, c
<1>11. /\ phase' = "tool_execute" /\ cur' = c /\ Due' = W \cup X
       /\ UNCHANGED <<open, closed, turn, steps, planned, answered, pending, asks, asked,
                        granted, ids, ran, repeated>>
       /\ Unknown' = {} /\ \A d : Started(d)' = Started(d)
       /\ \A kind : Queued(kind)' = {e \in W \cup X : e[2] = kind}
  BY <1>1, <1>9, KernelFrame, PreparationFacts
<1>12. /\ \A kind : kind \notin {"result", "open"} => Queued(kind)' = {}
       /\ Queued("result")' = W /\ Queued("open")' = X
  BY <1>5, <1>6, <1>11
<1>13. Batch' = New
  BY <1>3, <1>11 DEF Batch
<1>14. \A e \in X : \E d \in New : e[3] = CallOp(d)
  BY <1>6 DEF CallsOf
<1>15. Expected'
  <2>1. \A e, f \in W \cup X : e[2] = f[2] /\ e[3] = f[3] => e = f
    BY <1>5, <1>6 DEF Outcome
  <2> QED
    BY <1>11, <1>12, <2>1 DEF Expected
<1>16. TurnInOrder'
  BY <1>3, <1>4, <1>11, <1>12 DEF TurnInOrder, Driving
<1>17. CallsOf(cur.reply, 1 .. cur.size) \subseteq planned
  BY <1>1, QuietFacts
<1>18. PlansInOrder'
  BY <1>3, <1>11, <1>12, <1>17 DEF PlansInOrder
<1>19. pending.id # 0 => InOrder(pending)'
  <2>1. \A e \in W \cup X : e[2] = "result" => e \in W
    BY <1>6
  <2> QED
    BY <1>1, <1>5, <1>9, <2>1, PendingKept DEF Outcome
<1>20. CheckpointsKept'
  <2>1. pending.id # 0 => Saved(pending) \cap CallsOf(cur.reply, 1 .. cur.size) = {}
    BY <1>1, QuietFacts
  <2> QED
    BY <1>3, <1>11, <1>12, <1>19, <2>1 DEF CheckpointsKept, Saved
<1>21. BatchKept'
  <2>1. New \cap answered = {} /\ ran \cap New = {} /\ c.started = {}
    BY <1>1, <1>3, <1>7, PreparationFacts
  <2>2. \A e \in W : e[3] \notin New
    BY <1>5, <1>8
  <2>3. CallsOf(c.reply, {}) = {}
    BY DEF CallsOf
  <2>4. \A e \in W : e[3] \in planned \ answered
    BY <1>5 DEF Outcome
  <2> HIDE DEF New
  <2> QED
    BY <1>10, <1>11, <1>12, <1>13, <2>1, <2>2, <2>3, <2>4 DEF BatchKept
<1>22. CallsOnRecord'
  <2>1. \A d \in New : ~Started(d)
    BY <1>1, <1>7, PreparationFacts
  <2>2. \A e \in X : e[3] \notin open \cup closed
    BY <1>14, <2>1 DEF Started
  <2>3. \A d \in New : CallOp(d) \notin closed
    BY <2>1 DEF Started
  <2> HIDE DEF New
  <2> QED
    BY <1>11, <1>12, <1>13, <1>14, <2>2, <2>3 DEF CallsOnRecord
<1> QED
  BY <1>11, <1>15, <1>16, <1>18, <1>20, <1>21, <1>22

(* A question suspends the preparation: its checkpoint keeps what is ready  *)
(* and what comes from the question on.                                     *)
LEMMA SuspendCalls ==
  ASSUME CallsInv, NEW k, NEW R, SuspendPreparation(k, R)
  PROVE  CallsKept'
<1> USE DEF CallsInv, CallsKept
<1> DEFINE I == cur.from .. (k - 1)
           p == CheckpointAt(k, R)
           W == ImmediateResults(I \ R)
           x == <<k, "ask", p>>
           E == ImmediateResults(I \ R)
                  \cup {<<k, "ask", p>>} \cup StepFinished(k + 1, cur)
                  \cup {<<k + 2, "close", cur.op>>, <<k + 3, "open", PendingOp(p.id)>>}
                  \cup Transition(k + 4, cur, cur.mode)
<1>1. /\ phase = "tool_prepare" /\ outbox = {} /\ R \in ReadyAllowed(I)
      /\ k \in cur.from .. cur.size
      /\ KernelStep("done", cur, E)
  BY DEF SuspendPreparation, InEffect, EffectDue
<1>2. R \subseteq I /\ I \subseteq cur.from .. cur.size /\ k \in Nat /\ cur.from <= k /\ k <= cur.size
  BY <1>1, Facts DEF ReadyAllowed
<1>3. /\ Vitals(W) = W /\ Outcome(W)
      /\ \A e \in W : e[2] = "result" /\ \E i \in I \ R : e[3] = CallOf(cur.reply, i)
  <2>1. I \ R \subseteq cur.from .. cur.size
    BY <1>2
  <2> QED
    BY <1>1, <2>1, ImmediateOutcome
<1>4. x[2] = "ask" /\ x[3] = p
  OBVIOUS
<1>5. /\ p.id = asks + 1 /\ p.reply = cur.reply /\ p.size = cur.size /\ p.at = k
      /\ p.ready = cur.ready \cup R
  BY DEF CheckpointAt
<1>6. Vitals(E) = W \cup {x}
  <2> DEFINE A == StepFinished(k + 1, cur)
             B == {<<k + 2, "close", cur.op>>, <<k + 3, "open", PendingOp(p.id)>>}
             D == Transition(k + 4, cur, cur.mode)
  <2>1. E = (W \cup {x}) \cup (A \cup (B \cup D))
    OBVIOUS
  <2>2. cur.op[1] # "call"
    BY <1>1, QuietFacts DEF Driving
  <2>3. Vitals(A) = {} /\ Vitals(B) = {} /\ Vitals(D) = {}
    BY <2>2, OpKinds, TwoNotVital, PlainEvents
  <2> HIDE DEF I, W, A, B, D, E, x, p
  <2>4. Vitals({x}) = {x}
    BY <1>4, VitalsAll DEF Vital
  <2>5. Vitals(W \cup {x}) = W \cup {x}
    BY <1>3, <2>4, VitalsUnion
  <2>6. Vitals(B \cup D) = {}
    BY <2>3, VitalsUnion
  <2>7. Vitals(A \cup (B \cup D)) = {}
    BY <2>3, <2>6, VitalsUnion
  <2>8. Vitals((W \cup {x}) \cup (A \cup (B \cup D))) = W \cup {x}
    BY <2>5, <2>7, VitalsUnion
  <2> QED
    BY <2>1, <2>8
<1>7. /\ cur.ready \subseteq 1 .. cur.from - 1
      /\ p.ready \subseteq 1 .. k - 1
      /\ \A i \in I \ R : i \notin p.ready \cup (k .. cur.size)
      /\ p.ready \cup (k .. cur.size) \subseteq cur.ready \cup (cur.from .. cur.size)
      /\ k + 1 .. cur.size \subseteq cur.from + 1 .. cur.size
  <2>1. cur.ready \subseteq 1 .. cur.from - 1
    BY <1>1, PreparationFacts
  <2>2. 1 .. cur.from - 1 \subseteq 1 .. k - 1 /\ I \subseteq 1 .. k - 1
    BY <1>2, Facts
  <2>3. \A i \in I : i \notin 1 .. cur.from - 1 /\ i \notin k .. cur.size
    BY <1>2, Facts
  <2>4. k .. cur.size \subseteq cur.from .. cur.size
    BY <1>2, Facts
  <2>5. k + 1 .. cur.size \subseteq cur.from + 1 .. cur.size
    BY <1>2, Facts
  <2> HIDE DEF I, p
  <2> QED
    BY <1>2, <1>5, <2>1, <2>2, <2>3, <2>4, <2>5
<1> HIDE DEF I, p, W, x, E
<1>8. Saved(p) \subseteq Left
  BY <1>5, <1>7 DEF Saved, Left, CallsOf
<1>9. \A e \in W : e[3] \notin Saved(p)
  <2>1. Saved(p) = CallsOf(cur.reply, p.ready \cup (k .. cur.size))
    BY <1>5 DEF Saved
  <2>2. \A i \in I \ R : CallOf(cur.reply, i) \notin Saved(p)
    BY <1>7, <2>1, CallOfIn
  <2> QED
    BY <1>3, <2>2
<1>10. /\ phase' = "done" /\ cur' = cur /\ Due' = W \cup {x}
       /\ UNCHANGED <<open, closed, turn, steps, planned, answered, pending, asks, asked,
                        granted, ids, ran, repeated>>
       /\ Unknown' = Unknown /\ \A d : Started(d)' = Started(d)
       /\ \A kind : Queued(kind)' = {e \in W \cup {x} : e[2] = kind}
  BY <1>1, <1>6, KernelFrame
<1>11. /\ \A kind : kind \notin {"result", "ask"} => Queued(kind)' = {}
       /\ Queued("result")' = W /\ Queued("ask")' = {x}
  BY <1>3, <1>4, <1>10
<1>12. Expected'
  <2>1. \A e, f \in W \cup {x} : e[2] = f[2] /\ e[3] = f[3] => e = f
    BY <1>3, <1>4 DEF Outcome
  <2> QED
    BY <1>10, <1>11, <2>1 DEF Expected
<1>13. TurnInOrder'
  BY <1>10, <1>11 DEF TurnInOrder, Driving
<1>14. PlansInOrder'
  BY <1>10, <1>11 DEF PlansInOrder
<1>15. InOrder(p)
  <2>1. Untouched(Saved(p))
    <3>1. Queued("result") = {} /\ Left \cap (ran \cup answered) = {}
      BY <1>1, QuietFacts, PreparationFacts
    <3> QED
      BY <1>8, <3>1 DEF Untouched
  <2>2. \A d \in Saved(p) : ~Started(d)
    BY <1>1, <1>8, PreparationFacts
  <2>3. CallsOf(p.reply, p.ready) \cap asked \subseteq granted
    BY <1>1, <1>2, <1>5, ReadyCleared
  <2>4. CallsOf(p.reply, p.at + 1 .. p.size) \cap asked = {}
    <3>1. CallsOf(cur.reply, k + 1 .. cur.size) \subseteq CallsOf(cur.reply, cur.from + 1 .. cur.size)
      BY <1>7, CallsOfSubset
    <3>2. CallsOf(cur.reply, cur.from + 1 .. cur.size) \cap asked = {}
      BY <1>1, PreparationFacts DEF Cleared
    <3> QED
      BY <1>5, <3>1, <3>2
  <2>5. CallsOf(p.reply, 1 .. p.size) \subseteq planned
    BY <1>1, <1>5, QuietFacts
  <2>6. p.at <= p.size /\ p.ready \subseteq 1 .. p.at - 1
    BY <1>2, <1>5, <1>7
  <2> QED
    BY <2>1, <2>2, <2>3, <2>4, <2>5, <2>6 DEF InOrder, Cleared
<1>16. ASSUME NEW q, q = p
       PROVE  InOrder(q)'
  <2>1. InOrder(q) /\ \A e \in W : e[3] \notin Saved(q)
    BY <1>9, <1>15, <1>16
  <2>2. Saved(q)' = Saved(q)
    BY DEF Saved
  <2>3. Untouched(Saved(q))'
    BY <1>10, <1>11, <2>1, <2>2 DEF InOrder, Untouched
  <2>4. (\A d \in Saved(q) : ~Started(d))'
    BY <1>10, <2>1, <2>2 DEF InOrder
  <2> QED
    BY <1>10, <2>1, <2>3, <2>4 DEF InOrder, Cleared
<1>17. pending.id # 0 => InOrder(pending)'
  <2>1. \A e \in W \cup {x} : e[2] = "result" => e \in W
    BY <1>4
  <2> QED
    BY <1>1, <1>3, <1>6, <2>1, PendingKept DEF Outcome
<1>18. CheckpointsKept'
  <2>1. \A e \in {x} : e[3] = p /\ InOrder(e[3])'
    BY <1>4, <1>16
  <2> QED
    BY <2>1, <1>4, <1>5, <1>10, <1>11, <1>17 DEF CheckpointsKept
<1>19. BatchKept'
  BY <1>3, <1>10, <1>11 DEF BatchKept, Outcome
<1>20. CallsOnRecord'
  BY <1>10, <1>11 DEF CallsOnRecord
<1> QED
  BY <1>10, <1>12, <1>13, <1>14, <1>18, <1>19, <1>20

(* A call of the batch runs: it had not run before.                         *)
LEMMA RunToolCalls ==
  ASSUME CallsInv, NEW i, RunTool(i)
  PROVE  CallsKept'
<1> USE DEF CallsInv, CallsKept
<1> DEFINE d == CallOf(cur.reply, i)
<1>1. /\ phase = "tool_execute" /\ outbox = {} /\ i \in cur.ready \ cur.started
      /\ cur' = [cur EXCEPT !.started = @ \cup {i}]
      /\ ran' = ran \cup {d}
      /\ repeated' = repeated \cup {<<"ran", c>> : c \in ran \cap {d}}
      /\ UNCHANGED <<open, closed, turn, steps, planned, answered, pending, asks, asked,
                     granted, ids, phase, outbox>>
  BY DEF RunTool, InEffect, EffectDue, Dispatchable, opsVars, foldVars
<1>2. /\ cur'.ready = cur.ready /\ cur'.started = cur.started \cup {i}
      /\ cur'.size = cur.size /\ cur'.reply = cur.reply /\ cur'.turn = cur.turn
      /\ cur'.step = cur.step /\ cur'.op = cur.op
  BY <1>1, Facts DEF Cursor
<1>3. d \in Batch /\ d \notin ran
  <2>1. d \in Batch
    BY <1>1, CallOfIn DEF Batch
  <2>2. ran \cap Batch = CallsOf(cur.reply, cur.started)
    BY <1>1 DEF BatchKept
  <2>3. d \notin CallsOf(cur.reply, cur.started)
    BY <1>1, CallOfIn
  <2> QED
    BY <2>1, <2>2, <2>3
<1>4. /\ Due = {} /\ \A kind : Queued(kind) = {}
      /\ Due' = {} /\ \A kind : Queued(kind)' = {}
      /\ Unknown' = Unknown /\ Batch' = Batch /\ \A c : Started(c)' = Started(c)
  BY <1>1, <1>2, QuietFacts DEF Due, Queued, Unknown, Batch, Started
<1>5. Batch \subseteq CallsOf(cur.reply, 1 .. cur.size)
  BY Facts, CallsOfSubset DEF Batch
<1>6. CallsOf(cur.reply, 1 .. cur.size) \subseteq planned
  BY <1>1, QuietFacts
<1> HIDE DEF d
<1>7. repeated' = {}
  BY <1>1, <1>3
<1>8. Expected' /\ TurnInOrder'
  BY <1>1, <1>2, <1>4 DEF Expected, TurnInOrder, Driving
<1>9. PlansInOrder'
  BY <1>1, <1>2, <1>3, <1>4, <1>5, <1>6 DEF PlansInOrder
<1>10. pending.id # 0 => Saved(pending) \cap CallsOf(cur.reply, 1 .. cur.size) = {}
  BY <1>1, QuietFacts
<1>11. pending.id # 0 => InOrder(pending)'
  <2> SUFFICES ASSUME pending.id # 0 PROVE InOrder(pending)'
    OBVIOUS
  <2>1. InOrder(pending)
    BY DEF CheckpointsKept
  <2>2. Saved(pending)' = Saved(pending) /\ d \notin Saved(pending)
    BY <1>1, <1>3, <1>5, <1>10 DEF Saved
  <2>3. Untouched(Saved(pending))'
    BY <1>1, <1>4, <2>1, <2>2 DEF InOrder, Untouched
  <2>4. (\A c \in Saved(pending) : ~Started(c))'
    BY <1>4, <2>1, <2>2 DEF InOrder
  <2> QED
    BY <1>1, <2>1, <2>3, <2>4 DEF InOrder, Cleared
<1>12. CheckpointsKept'
  BY <1>1, <1>2, <1>4, <1>10, <1>11 DEF CheckpointsKept, Saved
<1>13. BatchKept'
  <2>1. ran' \cap Batch = CallsOf(cur.reply, cur.started \cup {i})
    <3>1. ran \cap Batch = CallsOf(cur.reply, cur.started)
      BY <1>1 DEF BatchKept
    <3>2. CallsOf(cur.reply, cur.started \cup {i}) = CallsOf(cur.reply, cur.started) \cup {d}
      BY DEF CallsOf, d
    <3> QED
      BY <1>1, <1>3, <3>1, <3>2
  <2>2. Batch \cap answered = {} /\ Batch \cap asked \subseteq granted
    BY <1>1 DEF BatchKept
  <2> QED
    BY <1>1, <1>2, <1>4, <2>1, <2>2 DEF BatchKept
<1>14. CallsOnRecord'
  BY <1>1, <1>4 DEF CallsOnRecord
<1>15. ran' \cap asked' \subseteq granted'
  BY <1>1, <1>3 DEF BatchKept
<1> QED
  BY <1>7, <1>8, <1>9, <1>12, <1>13, <1>14, <1>15

-----------------------------------------------------------------------------
(* Transactions begin, end, and are cut short.                              *)

(* What the transcript holds says enough between two transactions.          *)
LEMMA SessionKept ==
  ASSUME CallsInv,
         UNCHANGED <<open, closed, turn, steps, planned, answered, pending, asks, asked,
                     granted, ran, repeated>>,
         ids <= ids', ids' \in Nat,
         phase' \in {"idle", "done"}, Due' = {}
  PROVE  CallsKept'
<1> USE DEF CallsInv, CallsKept
<1>1. /\ \A kind : Queued(kind)' = {}
      /\ Unknown' = Unknown /\ \A c : Started(c)' = Started(c)
  BY DEF Queued, Unknown, Started
<1>2. turn <= ids'
  BY Facts DEF TurnInOrder
<1>3. Expected' /\ TurnInOrder' /\ PlansInOrder'
  BY <1>1, <1>2 DEF Expected, TurnInOrder, PlansInOrder, Driving
<1>4. pending.id # 0 => InOrder(pending)'
  <2> SUFFICES ASSUME pending.id # 0 PROVE InOrder(pending)'
    OBVIOUS
  <2>1. InOrder(pending)
    BY DEF CheckpointsKept
  <2>2. Saved(pending)' = Saved(pending)
    BY DEF Saved
  <2>3. Untouched(Saved(pending))'
    BY <1>1, <2>1, <2>2 DEF InOrder, Untouched
  <2>4. (\A c \in Saved(pending) : ~Started(c))'
    BY <1>1, <2>1, <2>2 DEF InOrder
  <2> QED
    BY <2>1, <2>3, <2>4 DEF InOrder, Cleared
<1>5. CheckpointsKept' /\ BatchKept' /\ CallsOnRecord'
  BY <1>1, <1>4 DEF CheckpointsKept, BatchKept, CallsOnRecord
<1> QED
  BY <1>3, <1>5

LEMMA EndCalls ==
  ASSUME CallsInv, End \/ CheckpointInvalid \/ Raise \/ Crash
  PROVE  CallsKept'
<1>1. ids \in Nat /\ ids <= ids
  BY Facts DEF CallsInv
<1>2. CASE End \/ CheckpointInvalid \/ Crash
  <2>1. /\ UNCHANGED <<open, closed, turn, steps, planned, answered, pending, asks, asked,
                       granted, ran, repeated, ids>>
        /\ phase' = "idle" /\ outbox' = {}
    BY <1>2 DEF End, CheckpointInvalid, Crash, Rest, opsVars, foldVars, worldVars
  <2>2. Due' = {}
    BY <2>1 DEF Due, Vitals
  <2> QED
    BY <1>1, <2>1, <2>2, SessionKept
<1>3. CASE Raise
  <2>1. /\ UNCHANGED <<open, closed, turn, steps, planned, answered, pending, asks, asked,
                       granted, ran, repeated, ids>>
        /\ phase' = "done" /\ outbox' = {<<1, "close", TurnOp(cur.turn)>>}
    BY <1>3 DEF Raise, opsVars, foldVars
  <2>2. Vitals({<<1, "close", TurnOp(cur.turn)>>}) = {}
    BY OpKinds, NotVital
  <2>3. Due' = {}
    BY <2>1, <2>2 DEF Due
  <2> QED
    BY <1>1, <2>1, <2>3, SessionKept
<1> QED
  BY <1>2, <1>3

(* A session that may be continued has no call of unknown outcome: the call *)
(* of the pending question has not started.                                 *)
LEMMA RestorableKnown ==
  ASSUME CallsInv, Restorable
  PROVE  Unknown = {}
<1> SUFFICES ASSUME NEW c \in Unknown PROVE FALSE
  OBVIOUS
<1>1. pending.id # 0 /\ c = AskedCall(pending)
  BY DEF Restorable
<1>2. pending \in Checkpoint /\ InOrder(pending)
  BY <1>1, Facts DEF CallsInv, CallsKept, CheckpointsKept
<1>3. pending.at \in pending.ready \cup (pending.at .. pending.size)
  BY <1>2, CheckpointFacts DEF InOrder
<1>4. c \in Saved(pending)
  BY <1>1, <1>3, AskedCallIn DEF Saved
<1> QED
  BY <1>2, <1>4 DEF InOrder, Started, Unknown

LEMMA BeginCalls ==
  ASSUME CallsInv, NEW c \in Cursor, NEW E, NEW stop, Begin(c, E, stop),
         ids' \in Nat, ids <= ids', c.turn <= ids',
         NEW U, Vitals(E) = U,
         \/ U = {} /\ c.turn = turn
         \/ U # {} /\ turn < c.turn,
         \A e \in U : e[2] = "user" /\ e[3] = c.turn,
         \A e, f \in U : e = f
  PROVE  CallsKept'
<1> USE DEF CallsInv, CallsKept
<1>1. /\ UNCHANGED <<open, closed, turn, steps, planned, answered, pending, asks, asked,
                     granted, ran, repeated>>
      /\ phase' = "begin" /\ cur' = c /\ Due' = U
      /\ \A kind : Queued(kind)' = {e \in U : e[2] = kind}
      /\ Unknown' = Unknown /\ \A d : Started(d)' = Started(d)
  BY DEF Begin, opsVars, foldVars, Due, Queued, Unknown, Started
<1>2. \A kind : kind # "user" => Queued(kind)' = {}
  BY <1>1
<1>3. Queued("user")' = U
  BY <1>1
<1>4. Unknown' = {}
  BY <1>1, RestorableKnown DEF Begin
<1>5. turn <= ids'
  BY Facts DEF TurnInOrder
<1>6. Expected'
  BY <1>1, <1>2 DEF Expected
<1>7. TurnInOrder'
  BY <1>1, <1>2, <1>3, <1>5 DEF TurnInOrder, Driving
<1>8. PlansInOrder'
  BY <1>1, <1>2 DEF PlansInOrder
<1>9. pending.id # 0 => InOrder(pending)'
  <2> SUFFICES ASSUME pending.id # 0 PROVE InOrder(pending)'
    OBVIOUS
  <2>1. InOrder(pending)
    BY DEF CheckpointsKept
  <2>2. Saved(pending)' = Saved(pending)
    BY <1>1 DEF Saved
  <2>3. Untouched(Saved(pending))'
    BY <1>1, <1>2, <2>1, <2>2 DEF InOrder, Untouched
  <2>4. (\A d \in Saved(pending) : ~Started(d))'
    BY <1>1, <2>1, <2>2 DEF InOrder
  <2> QED
    BY <1>1, <2>1, <2>3, <2>4 DEF InOrder, Cleared
<1>10. CheckpointsKept' /\ BatchKept'
  BY <1>1, <1>2, <1>9 DEF CheckpointsKept, BatchKept
<1>11. CallsOnRecord'
  BY <1>1, <1>2, <1>4 DEF CallsOnRecord
<1> QED
  BY <1>1, <1>6, <1>7, <1>8, <1>10, <1>11

(* Inputs.                                                                  *)
LEMMA SubmitTurnCalls ==
  ASSUME CallsInv, NEW input \in {"user", "switch", "command"}, NEW m \in Modes,
         NEW bootstrap \in BOOLEAN, SubmitTurn(input, m, bootstrap)
  PROVE  CallsKept'
<1> DEFINE t == ids + 1
           A == IF bootstrap THEN {<<1, "mode", m>>} ELSE {}
           B == {<<2, "open", TurnOp(t)>>}
           x == <<3, "user", t>>
           E == A \cup {<<2, "open", TurnOp(t)>>, <<3, "user", t>>}
           c == Fresh(input, t, m)
<1>1. ids' = t /\ Begin(c, E, FALSE)
  BY DEF SubmitTurn
<1>2. t \in Nat /\ ids \in Nat /\ turn \in Nat /\ turn <= ids
  BY Facts DEF CallsInv, CallsKept, TurnInOrder
<1>3. c \in Cursor /\ c.turn = t
  <2>1. c \in Cursor
    BY <1>2, ParkedType
  <2> QED
    BY <2>1 DEF Fresh
<1>4. ids <= t /\ t <= t /\ turn < t
  BY <1>2
<1>5. x[2] = "user" /\ x[3] = t
  OBVIOUS
<1>6. Vitals(A) = {} /\ Vitals(B) = {}
  BY OpKinds, NotVital, ModeNotVital, NothingVital
<1>7. E = (A \cup B) \cup {x}
  OBVIOUS
<1> HIDE DEF A, B, x, E, c, t
<1>8. Vitals({x}) = {x}
  BY <1>5, VitalsAll DEF Vital
<1>9. Vitals(A \cup B) = {}
  BY <1>6, VitalsUnion
<1>10. Vitals(E) = {x}
  BY <1>7, <1>8, <1>9, VitalsUnion
<1> DEFINE U == {x}
<1>11. U # {} /\ (\A e \in U : e[2] = "user" /\ e[3] = c.turn) /\ \A e, f \in U : e = f
  BY <1>3, <1>5
<1>12. Vitals(E) = U
  BY <1>10
<1> HIDE DEF U
<1> QED
  BY <1>1, <1>2, <1>3, <1>4, <1>11, <1>12, BeginCalls

LEMMA SubmitReplyCalls ==
  ASSUME CallsInv, NEW approved \in BOOLEAN, NEW stop \in BOOLEAN, SubmitReply(approved, stop)
  PROVE  CallsKept'
<1> DEFINE c == [Fresh("reply", turn, mode) EXCEPT !.approved = approved]
           E == {<<1, "open", TurnOp(turn)>>}
<1>1. Begin(c, E, stop) /\ ids' = ids
  BY DEF SubmitReply
<1>2. turn \in Nat /\ ids \in Nat /\ mode \in Modes /\ turn <= ids
  BY Facts DEF CallsInv, CallsKept, TurnInOrder, IInv, TypeOK
<1>3. Fresh("reply", turn, mode) \in Cursor
  BY <1>2, ParkedType
<1>4. c \in Cursor /\ c.turn = Fresh("reply", turn, mode).turn
  BY <1>3 DEF Cursor
<1>5. c.turn = turn
  BY <1>4 DEF Fresh
<1>6. Vitals(E) = {}
  BY OpKinds, NotVital
<1>7. ids <= ids
  BY <1>2
<1> HIDE DEF c, E
<1> QED
  BY <1>1, <1>2, <1>4, <1>5, <1>6, <1>7, BeginCalls

(* Steps that change neither the calls nor the driver.                      *)
LEMMA FrameCalls ==
  ASSUME CallsInv,
         UNCHANGED <<open, closed, turn, steps, planned, answered, pending, asks, asked,
                     granted, ids, phase, cur, outbox, ran, repeated>>
  PROVE  CallsKept'
<1> USE DEF CallsInv, CallsKept
<1>1. Due' = Due /\ Batch' = Batch /\ Left' = Left /\ Unknown' = Unknown
  BY DEF Due, Batch, Left, Unknown
<1>2. (\A kind : Queued(kind)' = Queued(kind)) /\ \A c : Started(c)' = Started(c)
  BY <1>1 DEF Queued, Started
<1>3. Expected' /\ TurnInOrder' /\ PlansInOrder'
  BY <1>1, <1>2 DEF Expected, TurnInOrder, PlansInOrder, Driving
<1>4. ASSUME NEW p, InOrder(p)
      PROVE  InOrder(p)'
  BY <1>2, <1>4 DEF InOrder, Untouched, Saved, Cleared
<1>5. pending.id # 0 => InOrder(pending)'
  <2>1. \A p : pending = p /\ pending.id # 0 => InOrder(p)'
    BY <1>4 DEF CheckpointsKept
  <2> QED
    BY <2>1 DEF InOrder, Untouched, Saved, Cleared
<1>6. CheckpointsKept'
  BY <1>1, <1>2, <1>4, <1>5 DEF CheckpointsKept, Saved
<1>7. BatchKept'
  BY <1>1, <1>2 DEF BatchKept, Untouched, Cleared
<1>8. CallsOnRecord'
  BY <1>1, <1>2 DEF CallsOnRecord
<1> QED
  BY <1>3, <1>6, <1>7, <1>8

LEMMA InputCalls ==
  ASSUME CallsInv, Input
  PROVE  CallsKept'
<1>1. ASSUME NEW m \in Modes, ApplyHostMode(m)
      PROVE  CallsKept'
  BY <1>1, FrameCalls DEF ApplyHostMode, opsVars, processVars, worldVars
<1>2. mode \in Modes /\ (ids = 0) \in BOOLEAN
  BY DEF CallsInv, IInv, TypeOK
<1> QED
  BY <1>1, <1>2, SubmitTurnCalls, SubmitReplyCalls DEF Input

LEMMA InitCalls == Init => CallsInv
<1> SUFFICES ASSUME Init PROVE CallsInv
  OBVIOUS
<1>1. IInv
  BY InitIInv
<1>2. Due = {} /\ Unknown = {} /\ (\A kind : Queued(kind) = {}) /\ turn <= ids /\ pending.id = 0
  BY DEF Init, Due, Vitals, Queued, Unknown, None
<1>3. Expected /\ TurnInOrder /\ PlansInOrder /\ CheckpointsKept /\ BatchKept /\ CallsOnRecord
  BY <1>2 DEF Init, Expected, TurnInOrder, PlansInOrder, CheckpointsKept, BatchKept,
     CallsOnRecord, Driving, Started
<1> QED
  BY <1>1, <1>3 DEF Init, CallsInv, CallsKept

LEMMA NextCalls == CallsInv /\ [Next]_vars => CallsInv'
<1> SUFFICES ASSUME CallsInv, [Next]_vars PROVE CallsInv'
  OBVIOUS
<1>1. IInv'
  BY NextKeepsIInv DEF CallsInv
<1>2. ASSUME Input PROVE CallsKept'
  BY <1>2, InputCalls
<1>3. ASSUME LoopStep PROVE CallsKept'
  BY <1>3, AppendCalls, StartCalls, SwitchCalls, CommandCalls, ResumeCalls,
     EffectCancelledCalls, AcceptContextCalls, AcceptAnswerCalls, AcceptActionsCalls,
     CompactRetryCalls, ProviderFailsCalls, AcceptPreparedCalls, AcceptImmediateCalls,
     SuspendCalls, RunToolCalls, FinishToolsCalls, EndCalls DEF LoopStep
<1>4. ASSUME Raise \/ Crash PROVE CallsKept'
  BY <1>4, EndCalls
<1>5. ASSUME Cancel \/ Age \/ Quiet \/ UNCHANGED vars PROVE CallsKept'
  BY <1>5, FrameCalls DEF Cancel, Age, Quiet, vars, opsVars, foldVars, processVars, worldVars
<1>6. CallsKept'
  BY <1>2, <1>3, <1>4, <1>5, RefusedReply DEF Next
<1> QED
  BY <1>1, <1>6 DEF CallsInv

LEMMA CallsInvariant == Spec => []CallsInv
<1> QED
  BY InitCalls, NextCalls, PTL DEF Spec

-----------------------------------------------------------------------------
(* The turn and the step in the payload of an event.                        *)
Stampable(e) == e[2] \in {"plan", "result", "ask", "resolve", "mode"}

(* The event belongs to the step on record, or to one that begins before it.*)
InTime(e) == cur.turn = turn /\ (Stamp(e) = steps \/ \E f \in Queued("step") : f[1] < e[1])

StampsKept == \A e \in outbox : Stampable(e) => (e[2] = "mode" /\ phase = "begin") \/ InTime(e)

LEMMA StepEvents ==
  ASSUME NEW e \in outbox, e[2] = "step"
  PROVE  e \in Queued("step")
BY DEF Queued, Due, Vitals, Vital

(* The events of a kernel step that begins no step.                         *)
LEMMA SameStepStamps ==
  ASSUME CallsInv, Driving, outbox = {}, NEW p, NEW c, NEW E, KernelStep(p, c, E),
         \A e \in E : e[2] # "step", c.turn = cur.turn, c.step = cur.step
  PROVE  StampsKept'
<1>1. cur.turn = turn /\ cur.step = steps
  BY QuietFacts
<1>2. outbox' = E /\ cur' = c /\ turn' = turn /\ steps' = steps
  BY DEF KernelStep, foldVars
<1>3. ASSUME NEW e \in outbox'
      PROVE  Stamp(e)' = steps'
  BY <1>1, <1>2 DEF Stamp
<1> QED
  BY <1>1, <1>2, <1>3 DEF StampsKept, InTime

(* The events of a kernel step that begins a step before anything else.     *)
LEMMA NewStepStamps ==
  ASSUME NEW p, NEW c, NEW E, KernelStep(p, c, E), c.turn = turn,
         NEW f \in E, f[2] = "step", \A e \in E : Stampable(e) => f[1] < e[1]
  PROVE  StampsKept'
<1>1. outbox' = E /\ cur' = c /\ turn' = turn
  BY DEF KernelStep, foldVars
<1>2. f \in Queued("step")'
  BY <1>1 DEF Queued, Due, Vitals, Vital
<1> QED
  BY <1>1, <1>2 DEF StampsKept, InTime

(* Events of the step the driver is at, with one that begins the next step  *)
(* behind them.                                                             *)
LEMMA LastStepStamps ==
  ASSUME CallsInv, Driving, outbox = {}, NEW p, NEW c, NEW E, KernelStep(p, c, E),
         c.turn = cur.turn, c.step = cur.step + 1,
         NEW f \in E, f[2] = "step", \A e \in E : Stampable(e) => e[1] < f[1]
  PROVE  StampsKept'
<1>1. cur.turn = turn /\ cur.step = steps /\ steps \in Nat
  BY QuietFacts, Facts DEF CallsInv
<1>2. outbox' = E /\ cur' = c /\ turn' = turn /\ steps' = steps
  BY DEF KernelStep, foldVars
<1>3. ASSUME NEW e \in E, Stampable(e)
      PROVE  Stamp(e)' = steps'
  <2>1. f[1] > e[1]
    BY <1>3
  <2>2. Stamp(e)' = cur'.step - 1
    BY <1>2, <2>1 DEF Stamp
  <2> QED
    BY <1>1, <1>2, <2>2
<1> QED
  BY <1>1, <1>2, <1>3 DEF StampsKept, InTime

LEMMA AppendStamps ==
  ASSUME CallsInv, StampsKept, AppendEvent
  PROVE  StampsKept'
<1> USE DEF CallsInv, CallsKept
<1>1. PICK x \in outbox :
        /\ Appended(x)
        /\ \/ x[2] = "user" /\ ApplyUser(x[3])
           \/ x[2] = "step" /\ ApplyStep(x[3][2])
           \/ x[2] \notin {"user", "step"} /\ UNCHANGED <<turn, steps>>
  BY DEF AppendEvent, Appended, OpenOp, CloseOp, ApplyToolCall, ApplyToolResult,
     ApplyPendingInteraction, ApplyPendingResolution, ApplyMode, foldVars
<1>2. outbox' = outbox \ {x} /\ UNCHANGED <<phase, cur>> /\ \A f \in outbox : x[1] <= f[1]
  BY <1>1 DEF Appended
<1>3. \A e \in outbox : e[1] \in Nat
  BY Facts, EventCases
<1> SUFFICES ASSUME NEW e \in outbox', Stampable(e), ~(e[2] = "mode" /\ phase = "begin")
             PROVE  InTime(e)'
  BY <1>2 DEF StampsKept
<1>4. e \in outbox /\ InTime(e)
  BY <1>2 DEF StampsKept
<1>5. \A f \in outbox : f[2] = "step" /\ f[1] > e[1] => f # x
  BY <1>2, <1>3, <1>4
<1>6. Stamp(e)' = Stamp(e)
  BY <1>2, <1>5 DEF Stamp
<1>7. CASE x[2] = "user"
  <2>1. phase = "begin"
    BY <1>1, <1>7 DEF Expected, Queued, Due, Vitals, Vital
  <2>2. e[2] # "mode"
    BY <2>1
  <2>3. e \in Queued(e[2])
    BY <1>4, <2>2 DEF Queued, Due, Vitals, Vital, Stampable
  <2> QED
    BY <2>1, <2>2, <2>3 DEF Expected, Stampable
<1>8. CASE x[2] = "step"
  <2>1. x \in Queued("step") /\ x[3] = <<turn, cur.step>>
    BY <1>1, <1>8, StepEvents DEF TurnInOrder
  <2>2. steps' = cur.step /\ turn' = turn
    BY <1>1, <1>8, <2>1 DEF ApplyStep
  <2>3. ASSUME NEW f \in outbox, f[2] = "step"
        PROVE  f = x
    <3>1. f \in Queued("step") /\ f[3] = x[3]
      BY <2>1, <2>3, StepEvents DEF TurnInOrder
    <3> QED
      BY <1>8, <2>1, <2>3, <3>1 DEF Expected, Queued
  <2>4. Stamp(e) = cur.step
    BY <1>5, <2>3 DEF Stamp
  <2> QED
    BY <1>2, <1>4, <1>6, <2>2, <2>4 DEF InTime
<1>9. CASE x[2] \notin {"user", "step"}
  <2>1. Queued("step")' = Queued("step")
    BY <1>1, <1>9, AppendedDue
  <2>2. turn' = turn /\ steps' = steps
    BY <1>1, <1>9
  <2> QED
    BY <1>2, <1>4, <1>6, <2>1, <2>2 DEF InTime
<1> QED
  BY <1>7, <1>8, <1>9

(* No event of the end of a step begins another.                            *)
LEMMA EndsNoStep ==
  ASSUME NEW n \in Nat, NEW c, NEW m
  PROVE  /\ \A e \in StepFinished(n, c) : e[2] = "close"
         /\ \A e \in Transition(n, c, m) : e[2] # "step"
BY DEF StepFinished, Transition

LEMMA FailStamps ==
  ASSUME CallsInv, Driving, outbox = {}, NEW rank \in Nat, NEW E, NEW unclosed,
         Fail(rank, E, unclosed), \A e \in E : e[2] # "step"
  PROVE  StampsKept'
<1> DEFINE F == E \cup {<<rank, "close", o>> : o \in {cur.op} \cup unclosed}
                  \cup StepFinished(rank + 1, cur) \cup Transition(rank + 2, cur, cur.mode)
<1>1. \A e \in F : e[2] # "step"
  <2>1. rank + 1 \in Nat /\ rank + 2 \in Nat
    OBVIOUS
  <2>2. \A e \in {<<rank, "close", o>> : o \in {cur.op} \cup unclosed} : e[2] = "close"
    OBVIOUS
  <2> QED
    BY <2>1, <2>2, EndsNoStep
<1>2. KernelStep("done", cur, F)
  BY DEF Fail
<1> HIDE DEF F
<1> QED
  BY <1>1, <1>2, SameStepStamps

LEMMA AfterToolsStamps ==
  ASSUME CallsInv, Driving, outbox = {}, NEW rank \in Nat, NEW E, AfterTools(rank, E),
         \A e \in E : e[2] # "step" /\ e[1] < rank + 2
  PROVE  StampsKept'
<1>1. CASE Fail(rank, E, {})
  BY <1>1, FailStamps
<1>2. ASSUME NEW m \in Modes, AdvanceAfterTools(rank, E, m)
      PROVE  StampsKept'
  <2> DEFINE s == cur.step + 1
             o == EffectOp("context", cur.turn, s, cur.attempt)
             F == {<<rank, "close", cur.op>>} \cup StepFinished(rank + 1, cur)
  <2>1. cur \in Cursor /\ rank + 1 \in Nat /\ rank + 2 \in Nat
    BY Facts DEF CallsInv
  <2>2. \A e \in F : e[2] = "close"
    BY DEF StepFinished
  <2>3. CASE cur.then = "complete"
    <3> DEFINE G == E \cup F \cup Transition(rank + 2, cur, m)
               c == [cur EXCEPT !.mode = m]
    <3>1. KernelStep("done", c, E \cup {<<rank, "close", cur.op>>} \cup StepFinished(rank + 1, cur)
                                  \cup Transition(rank + 2, cur, m))
      BY <1>2, <2>3 DEF AdvanceAfterTools
    <3>2. KernelStep("done", c, G)
      <4>1. G = E \cup {<<rank, "close", cur.op>>} \cup StepFinished(rank + 1, cur)
                  \cup Transition(rank + 2, cur, m)
        OBVIOUS
      <4> QED
        BY <3>1, <4>1
    <3>3. \A e \in G : e[2] # "step"
      BY <2>1, <2>2, EndsNoStep
    <3>4. c.turn = cur.turn /\ c.step = cur.step
      BY <2>1 DEF Cursor
    <3> HIDE DEF F, G, c
    <3> QED
      BY <3>2, <3>3, <3>4, SameStepStamps
  <2>4. CASE cur.then # "complete"
    <3> DEFINE c == [cur EXCEPT !.step = s, !.op = o, !.mode = m, !.reply = <<0, 0, 0>>, !.size = 0,
                                !.from = 1, !.ready = {}, !.started = {}, !.resumed = FALSE]
               f == <<rank + 2, "step", <<cur.turn, s>>>>
               G == E \cup F \cup {f, <<rank + 3, "open", StepOp(cur.turn, s)>>, <<rank + 4, "open", o>>}
    <3>1. KernelStep("context", c, E \cup {<<rank, "close", cur.op>>} \cup StepFinished(rank + 1, cur)
            \cup {<<rank + 2, "step", <<cur.turn, s>>>>,
                  <<rank + 3, "open", StepOp(cur.turn, s)>>, <<rank + 4, "open", o>>})
      BY <1>2, <2>4 DEF AdvanceAfterTools
    <3>2. KernelStep("context", c, G)
      <4>1. G = E \cup {<<rank, "close", cur.op>>} \cup StepFinished(rank + 1, cur)
            \cup {<<rank + 2, "step", <<cur.turn, s>>>>,
                  <<rank + 3, "open", StepOp(cur.turn, s)>>, <<rank + 4, "open", o>>}
        OBVIOUS
      <4> QED
        BY <3>1, <4>1
    <3>3. f \in G /\ f[2] = "step" /\ f[1] = rank + 2
      OBVIOUS
    <3>4. \A e \in G : Stampable(e) => e \in E
      BY <2>2 DEF Stampable
    <3>5. c.turn = cur.turn /\ c.step = cur.step + 1
      BY <2>1 DEF Cursor
    <3> HIDE DEF F, G, c, f, o, s
    <3> QED
      BY <3>2, <3>3, <3>4, <3>5, LastStepStamps
  <2> QED
    BY <2>3, <2>4
<1> QED
  BY <1>1, <1>2 DEF AfterTools

LEMMA LoopStamps ==
  ASSUME CallsInv, Start \/ FinishModeSwitchTurn \/ CommandTool \/ ResumePreparation
  PROVE  StampsKept'
<1> DEFINE s == NextStep
           f == <<1, "step", <<cur.turn, s>>>>
<1>1. phase = "begin" /\ outbox = {}
  BY DEF Start, FinishModeSwitchTurn, CommandTool, ResumePreparation, Loop
<1>2. cur.turn = turn /\ cur \in Cursor
  BY <1>1, QuietFacts, Facts DEF CallsInv
<1>3. ASSUME NEW p, NEW c, NEW E, KernelStep(p, c, E), c.turn = turn, f \in E,
             \A e \in E : Stampable(e) => 1 < e[1]
      PROVE  StampsKept'
  <2>1. f[1] = 1 /\ f[2] = "step"
    OBVIOUS
  <2> HIDE DEF f
  <2> QED
    BY <1>3, <2>1, NewStepStamps
<1>4. CASE Start
  <2> DEFINE o == EffectOp("context", cur.turn, s, 0)
             c == [cur EXCEPT !.step = s, !.op = o]
             E == StepStarted(cur.turn, s) \cup {<<3, "open", o>>}
  <2>1. KernelStep("context", c, E) /\ c.turn = turn
    BY <1>2, <1>4 DEF Start, Cursor
  <2>2. f \in E /\ \A e \in E : Stampable(e) => 1 < e[1]
    BY DEF StepStarted, Stampable
  <2> HIDE DEF c, E, f
  <2> QED
    BY <1>3, <2>1, <2>2
<1>5. CASE FinishModeSwitchTurn
  <2> DEFINE c == [cur EXCEPT !.step = s]
             E == StepStarted(cur.turn, s)
                  \cup {<<3, "open", SaveOp(cur.turn, s)>>, <<4, "mode", cur.mode>>,
                        <<5, "close", SaveOp(cur.turn, s)>>}
                  \cup StepFinished(6, c) \cup {<<7, "close", TurnOp(cur.turn)>>}
  <2>1. KernelStep("done", c, E) /\ c.turn = turn
    BY <1>2, <1>5 DEF FinishModeSwitchTurn, Cursor
  <2>2. f \in E /\ \A e \in E : Stampable(e) => 1 < e[1]
    BY DEF StepStarted, StepFinished, Stampable
  <2> HIDE DEF c, E, f
  <2> QED
    BY <1>3, <2>1, <2>2
<1>6. CASE CommandTool
  <2> DEFINE o == EffectOp("tool-prepare", cur.turn, s, 0)
             r == <<cur.turn, s, 0>>
             c == [cur EXCEPT !.step = s, !.op = o, !.reply = r, !.size = 1, !.then = "complete"]
             E == StepStarted(cur.turn, s) \cup {<<3, "plan", CallOf(r, 1)>>, <<4, "open", o>>}
  <2>1. KernelStep("tool_prepare", c, E) /\ c.turn = turn
    BY <1>2, <1>6 DEF CommandTool, Cursor
  <2>2. f \in E /\ \A e \in E : Stampable(e) => 1 < e[1]
    BY DEF StepStarted, Stampable
  <2> HIDE DEF c, E, f
  <2> QED
    BY <1>3, <2>1, <2>2
<1>7. CASE ResumePreparation
  <2> DEFINE o == EffectOp("tool-prepare", cur.turn, s, 0)
             c == [ContinueFrom(pending) EXCEPT !.step = s, !.op = o]
             E == StepStarted(cur.turn, s)
                  \cup {<<3, "resolve", <<pending.id, cur.approved>>>>,
                        <<4, "close", PendingOp(pending.id)>>, <<5, "open", o>>}
  <2>1. KernelStep("tool_prepare", c, E) /\ c.turn = turn
    BY <1>2, <1>7 DEF ResumePreparation, ContinueFrom, Cursor
  <2>2. f \in E /\ \A e \in E : Stampable(e) => 1 < e[1]
    BY DEF StepStarted, Stampable
  <2> HIDE DEF c, E, f
  <2> QED
    BY <1>3, <2>1, <2>2
<1> QED
  BY <1>4, <1>5, <1>6, <1>7

LEMMA EffectStamps ==
  ASSUME CallsInv,
         \/ EffectCancelled \/ AcceptContext \/ AcceptAnswer
         \/ \E n \in 1 .. MaxCalls : AcceptActions(n)
         \/ CompactRetry \/ ProviderFails
  PROVE  StampsKept'
<1>1. Driving /\ outbox = {}
  <2>1. \A n : AcceptActions(n) => InEffect("provider")
    BY AcceptedIds
  <2>2. EffectCancelled => \E q \in {"context", "provider", "tool_prepare", "tool_execute"} : EffectDue(q)
    BY DEF EffectCancelled
  <2>3. ~EffectCancelled => \E q \in {"context", "provider"} : InEffect(q)
    BY <2>1 DEF AcceptContext, AcceptAnswer, CompactRetry, ProviderFails
  <2> QED
    BY <2>2, <2>3 DEF InEffect, EffectDue, Driving
<1>2. cur \in Cursor
  BY Facts DEF CallsInv
<1>3. CASE EffectCancelled
  BY <1>1, <1>3, FailStamps DEF EffectCancelled
<1>4. CASE ProviderFails
  BY <1>1, <1>4, FailStamps DEF ProviderFails
<1>5. CASE AcceptContext
  <2> DEFINE o == EffectOp("provider", cur.turn, cur.step, cur.attempt + 1)
             c == [cur EXCEPT !.attempt = @ + 1, !.op = o]
             E == {<<1, "close", cur.op>>, <<2, "open", o>>}
  <2>1. KernelStep("provider", c, E) /\ c.turn = cur.turn /\ c.step = cur.step
    BY <1>2, <1>5 DEF AcceptContext, Cursor
  <2>2. \A e \in E : e[2] # "step"
    OBVIOUS
  <2> HIDE DEF c, E
  <2> QED
    BY <1>1, <2>1, <2>2, SameStepStamps
<1>6. CASE AcceptAnswer
  <2> DEFINE E == {<<1, "close", cur.op>>} \cup StepFinished(2, cur) \cup Transition(3, cur, cur.mode)
  <2>1. KernelStep("done", cur, E)
    BY <1>6 DEF AcceptAnswer
  <2>2. \A e \in E : e[2] # "step"
    BY DEF StepFinished, Transition
  <2> HIDE DEF E
  <2> QED
    BY <1>1, <2>1, <2>2, SameStepStamps
<1>7. ASSUME NEW n \in 1 .. MaxCalls, AcceptActions(n)
      PROVE  StampsKept'
  <2> DEFINE o == EffectOp("tool-prepare", cur.turn, cur.step, cur.attempt)
             r == <<cur.turn, cur.step, cur.attempt>>
             c == [cur EXCEPT !.op = o, !.reply = r, !.size = n, !.from = 1, !.ready = {},
                              !.resumed = FALSE]
             E == {<<1, "close", cur.op>>} \cup {<<1 + i, "plan", CallOf(r, i)>> : i \in 1 .. n}
                  \cup {<<n + 2, "open", o>>}
  <2>1. KernelStep("tool_prepare", c, E)
    BY <1>7, AcceptedIds
  <2>2. c.turn = cur.turn /\ c.step = cur.step
    <3> HIDE DEF o, r
    <3> QED
      BY <1>2 DEF Cursor
  <2>3. \A e \in E : e[2] # "step"
    OBVIOUS
  <2> HIDE DEF c, E
  <2> QED
    BY <1>1, <2>1, <2>2, <2>3, SameStepStamps
<1>8. CASE CompactRetry
  <2> DEFINE o == EffectOp("context-compact", cur.turn, cur.step, cur.attempt)
             c == [cur EXCEPT !.op = o, !.compacted = TRUE]
             E == {<<1, "close", cur.op>>, <<2, "mode", cur.mode>>, <<3, "open", o>>}
  <2>1. KernelStep("context", c, E) /\ c.turn = cur.turn /\ c.step = cur.step
    BY <1>2, <1>8 DEF CompactRetry, Cursor
  <2>2. \A e \in E : e[2] # "step"
    OBVIOUS
  <2> HIDE DEF c, E
  <2> QED
    BY <1>1, <2>1, <2>2, SameStepStamps
<1> QED
  BY <1>3, <1>4, <1>5, <1>6, <1>7, <1>8

LEMMA BatchStamps ==
  ASSUME CallsInv,
         \/ \E R \in SUBSET (1 .. MaxCalls) : AcceptPrepared(R)
         \/ AcceptImmediate
         \/ \E k \in 1 .. MaxCalls, R \in SUBSET (1 .. MaxCalls) : SuspendPreparation(k, R)
         \/ FinishTools
  PROVE  StampsKept'
<1>1. Driving /\ outbox = {}
  <2>1. \E q \in {"tool_prepare", "tool_execute"} : EffectDue(q)
    BY DEF AcceptPrepared, AcceptImmediate, SuspendPreparation, FinishTools, InEffect
  <2> QED
    BY <2>1 DEF EffectDue, Driving
<1>2. cur \in Cursor /\ cur.size \in Nat /\ cur.from \in Nat /\ cur.ready \subseteq 1 .. cur.size
  BY Facts DEF CallsInv
<1>3. \A I : \A e \in ImmediateResults(I) : e[2] = "result" /\ e[1] \in I
  BY DEF ImmediateResults
<1>4. ASSUME NEW R \in SUBSET (1 .. MaxCalls), AcceptPrepared(R)
      PROVE  StampsKept'
  <2> DEFINE ready == cur.ready \cup R
             o == EffectOp("tools", cur.turn, cur.step, cur.attempt)
             c == [cur EXCEPT !.op = o, !.ready = ready]
             E == ImmediateResults((cur.from .. cur.size) \ R)
                  \cup {<<cur.size + 1, "close", cur.op>>}
                  \cup ExecutionStarts(cur.size + 1, ready)
                  \cup {<<2 * cur.size + 2, "open", o>>}
  <2>1. KernelStep("tool_execute", c, E)
    BY <1>4 DEF AcceptPrepared
  <2>4. c.turn = cur.turn /\ c.step = cur.step
    <3> HIDE DEF o, ready
    <3> QED
      BY <1>2 DEF Cursor
  <2>2. \A e \in ExecutionStarts(cur.size + 1, ready) : e[2] = "open"
    BY DEF ExecutionStarts
  <2>3. \A e \in E : e[2] # "step"
    BY <1>3, <2>2
  <2> HIDE DEF c, E
  <2> QED
    BY <1>1, <2>1, <2>3, <2>4, SameStepStamps
<1>5. CASE AcceptImmediate
  <2>1. AfterTools(cur.size + 1, ImmediateResults(cur.from .. cur.size)) /\ cur.size + 1 \in Nat
    BY <1>2, <1>5 DEF AcceptImmediate
  <2>2. \A e \in ImmediateResults(cur.from .. cur.size) : e[2] # "step" /\ e[1] < cur.size + 1 + 2
    BY <1>2, <1>3
  <2> QED
    BY <1>1, <2>1, <2>2, AfterToolsStamps
<1>6. ASSUME NEW k \in 1 .. MaxCalls, NEW R \in SUBSET (1 .. MaxCalls), SuspendPreparation(k, R)
      PROVE  StampsKept'
  <2> DEFINE p == CheckpointAt(k, R)
             E == ImmediateResults((cur.from .. (k - 1)) \ R)
                  \cup {<<k, "ask", p>>} \cup StepFinished(k + 1, cur)
                  \cup {<<k + 2, "close", cur.op>>, <<k + 3, "open", PendingOp(p.id)>>}
                  \cup Transition(k + 4, cur, cur.mode)
  <2>1. KernelStep("done", cur, E)
    BY <1>6 DEF SuspendPreparation
  <2>2. k + 1 \in Nat /\ k + 4 \in Nat
    BY AgentTurnAssumption
  <2>3. \A e \in E : e[2] # "step"
    <3>1. \A e \in ImmediateResults((cur.from .. (k - 1)) \ R) : e[2] # "step"
      BY <1>3
    <3>2. \A e \in StepFinished(k + 1, cur) \cup Transition(k + 4, cur, cur.mode) : e[2] # "step"
      BY <2>2, EndsNoStep
    <3> QED
      BY <3>1, <3>2
  <2> HIDE DEF E
  <2> QED
    BY <1>1, <2>1, <2>3, SameStepStamps
<1>7. CASE FinishTools
  <2> DEFINE rank == 2 * cur.size + 2
  <2>1. \A e \in ToolResults : e[2] # "step" /\ e[1] < rank + 2
    <3>1. \A i \in cur.ready : i \in Nat /\ i <= cur.size
      BY <1>2
    <3> QED
      BY <1>2, <3>1 DEF ToolResults
  <2>2. rank \in Nat
    BY <1>2
  <2>3. Fail(rank, ToolResults, {}) \/ AfterTools(rank, ToolResults)
    BY <1>7 DEF FinishTools
  <2> HIDE DEF rank
  <2> QED
    BY <1>1, <2>1, <2>2, <2>3, FailStamps, AfterToolsStamps
<1> QED
  BY <1>4, <1>5, <1>6, <1>7

(* Steps of the driver's surroundings, and those that append nothing.       *)
LEMMA OtherStamps ==
  ASSUME CallsInv, StampsKept,
         \/ Input \/ CheckpointInvalid \/ End \/ Raise \/ Crash \/ Cancel \/ Age \/ Quiet
         \/ \E i \in 1 .. MaxCalls : RunTool(i)
         \/ UNCHANGED vars
  PROVE  StampsKept'
<1>1. ASSUME NEW c, NEW E, NEW stop, Begin(c, E, stop), \A e \in E : Stampable(e) => e[2] = "mode"
      PROVE  StampsKept'
  BY <1>1 DEF Begin, StampsKept
<1>2. CASE Input
  <2>1. ASSUME NEW input, NEW m, NEW bootstrap, SubmitTurn(input, m, bootstrap)
        PROVE  StampsKept'
    <3> DEFINE c == Fresh(input, ids + 1, m)
               E == (IF bootstrap THEN {<<1, "mode", m>>} ELSE {})
                    \cup {<<2, "open", TurnOp(ids + 1)>>, <<3, "user", ids + 1>>}
    <3>1. Begin(c, E, FALSE)
      BY <2>1 DEF SubmitTurn
    <3>2. \A e \in E : Stampable(e) => e[2] = "mode"
      BY DEF Stampable
    <3> HIDE DEF c, E
    <3> QED
      BY <1>1, <3>1, <3>2
  <2>2. ASSUME NEW approved, NEW stop, SubmitReply(approved, stop)
        PROVE  StampsKept'
    <3> DEFINE c == [Fresh("reply", turn, mode) EXCEPT !.approved = approved]
               E == {<<1, "open", TurnOp(turn)>>}
    <3>1. Begin(c, E, stop)
      BY <2>2 DEF SubmitReply
    <3>2. \A e \in E : Stampable(e) => e[2] = "mode"
      BY DEF Stampable
    <3> HIDE DEF c, E
    <3> QED
      BY <1>1, <3>1, <3>2
  <2>3. ASSUME NEW m, ApplyHostMode(m)
        PROVE  StampsKept'
    BY <2>3 DEF ApplyHostMode, processVars, StampsKept, InTime, Stamp, Queued, Due
  <2> QED
    BY <1>2, <2>1, <2>2, <2>3 DEF Input
<1>3. CASE CheckpointInvalid \/ End \/ Crash
  BY <1>3 DEF CheckpointInvalid, End, Crash, Rest, StampsKept
<1>4. CASE Raise
  BY <1>4 DEF Raise, StampsKept, Stampable
<1>5. CASE Cancel \/ \E i \in 1 .. MaxCalls : RunTool(i)
  BY <1>5 DEF Cancel, RunTool, InEffect, EffectDue, StampsKept
<1>6. CASE Age \/ Quiet \/ UNCHANGED vars
  BY <1>6 DEF Age, Quiet, vars, foldVars, processVars, StampsKept, InTime, Stamp, Queued, Due
<1> QED
  BY <1>2, <1>3, <1>4, <1>5, <1>6

LEMMA StampsInvariant == Spec => [](CallsInv /\ StampsKept)
<1>1. Init => StampsKept
  BY DEF Init, StampsKept
<1>2. CallsInv /\ StampsKept /\ [Next]_vars => StampsKept'
  BY AppendStamps, LoopStamps, EffectStamps, BatchStamps, OtherStamps, RefusedReply
     DEF Next, LoopStep
<1> QED
  BY <1>1, <1>2, CallsInvariant, PTL DEF Spec

-----------------------------------------------------------------------------
(* What becomes of every tool call.                                         *)

(* No call is executed twice and none gets two results in the transcript,   *)
(* whatever is resumed from a checkpoint (resume_preparation) or submitted  *)
(* after a crash.                                                           *)
THEOREM NothingTwiceHolds == Spec => []NothingTwice
<1>1. CallsInv => NothingTwice
  BY DEF CallsInv, CallsKept, NothingTwice
<1> QED
  BY <1>1, CallsInvariant, PTL

(* A call the user was asked about runs only once the recorded resolution   *)
(* of the question approved it, even if the answer of one transaction and   *)
(* the run of another lie on two sides of a crash.                          *)
THEOREM ConsentHolds == Spec => []Consent
<1>1. CallsInv => Consent
  BY DEF CallsInv, CallsKept, Consent
<1> QED
  BY <1>1, CallsInvariant, PTL

(* The checkpoint in a pending interaction is unspent: what it would run or *)
(* prepare when it is resumed was neither run nor answered meanwhile, not   *)
(* even by turns submitted while the question was left open.                *)
THEOREM CheckpointUnspentHolds == Spec => []CheckpointUnspent
<1>1. CallsInv => CheckpointUnspent
  BY DEF CallsInv, CallsKept, CheckpointsKept, CheckpointUnspent, InOrder, Untouched, Saved
<1> QED
  BY <1>1, CallsInvariant, PTL

(* SessionReducer accepts every event of a commit that passed its preflight,*)
(* in the order SessionJournal appends them: each names the turn and the    *)
(* step on record and an id that is due, also over resumed batches, turns   *)
(* submitted beside an open question, and crashes between two appends.      *)
THEOREM ReducerNeverRejectsHolds == Spec => []ReducerNeverRejects
<1>1. ASSUME CallsInv, StampsKept
      PROVE  ReducerNeverRejects
  <2> USE DEF CallsInv, CallsKept
  <2> SUFFICES ASSUME NEW e \in outbox, \A f \in outbox : e[1] <= f[1]
               PROVE  Accepts(e)
    BY <1>1 DEF ReducerNeverRejects
  <2>1. \A kind : e[2] = kind /\ Vital(e) => e \in Queued(kind)
    BY DEF Queued, Due, Vitals
  <2>2. Stampable(e) => (e[2] = "mode" /\ phase = "begin") \/ OfCurrentStep(e)
    <3>1. \A f \in Queued("step") : f \in outbox /\ f[1] \in Nat /\ e[1] \in Nat
      BY <1>1, Facts, EventCases DEF Queued
    <3>2. \A f \in Queued("step") : ~(f[1] < e[1])
      BY <3>1
    <3> QED
      BY <1>1, <3>2 DEF StampsKept, InTime, OfCurrentStep
  <2>3. CASE e[2] = "user"
    <3>1. e[3] = cur.turn /\ turn < cur.turn
      BY <1>1, <2>1, <2>3 DEF Vital, TurnInOrder
    <3>2. cur.turn > turn
      BY <1>1, <3>1, Facts
    <3> QED
      BY <2>3, <3>1, <3>2 DEF Accepts
  <2>4. CASE e[2] = "step"
    <3>1. e[3] = <<turn, cur.step>> /\ steps < cur.step
      BY <1>1, <2>1, <2>4 DEF Vital, TurnInOrder
    <3>2. cur.step > steps
      BY <1>1, <3>1, Facts
    <3> QED
      BY <2>4, <3>1, <3>2 DEF Accepts
  <2>5. CASE e[2] = "plan"
    <3>1. e[3] \notin planned
      BY <1>1, <2>1, <2>5 DEF Vital, PlansInOrder
    <3> QED
      BY <2>2, <2>5, <3>1 DEF Accepts, Stampable
  <2>6. CASE e[2] = "result"
    BY <1>1, <2>1, <2>2, <2>6 DEF Vital, BatchKept, Accepts, Stampable
  <2>7. CASE e[2] = "ask"
    <3>1. e[3].id = asks + 1
      BY <1>1, <2>1, <2>7 DEF Vital, CheckpointsKept
    <3>2. e[3].id > asks
      BY <1>1, <3>1, Facts
    <3> QED
      BY <2>2, <2>7, <3>2 DEF Accepts, Stampable
  <2>8. CASE e[2] = "resolve"
    BY <1>1, <2>1, <2>2, <2>8 DEF Vital, CheckpointsKept, Accepts, Stampable
  <2>9. CASE e[2] = "mode"
    BY <2>2, <2>9 DEF Accepts, Stampable
  <2> QED
    BY <2>3, <2>4, <2>5, <2>6, <2>7, <2>8, <2>9 DEF Accepts
<1> QED
  BY <1>1, StampsInvariant, PTL

(* While tools run, the calls of unknown outcome are exactly those of the   *)
(* batch: nothing runs over a call that a crash left behind.                *)
THEOREM NothingRunsOverUnknownHolds == Spec => []NothingRunsOverUnknown
<1>1. CallsInv => NothingRunsOverUnknown
  BY QuietFacts DEF NothingRunsOverUnknown, InEffect, EffectDue
<1> QED
  BY <1>1, CallsInvariant, PTL

-----------------------------------------------------------------------------
(* The transcript and the driver keep the ledger of tool calls.             *)
Ledger == INSTANCE ToolLedger WITH
  Calls <- Call, started <- StartedCalls, ended <- EndedCalls, lost <- LostCalls

LEMMA InHandQueued ==
  ASSUME NEW c
  PROVE  InHand(c) <=> \/ phase = "tool_execute" /\ c \in Batch
                       \/ \E e \in Queued("close") : e[3] = CallOp(c)
<1>1. \A e : e[2] = "close" /\ e[3] = CallOp(c) => Vital(e)
  BY OpKinds DEF Vital
<1> QED
  BY <1>1 DEF InHand, Queued, Due, Vitals

(* Before a transaction is over, or given up, no call is lost.              *)
LEMMA NothingLostYet ==
  ASSUME CallsInv, phase \in Running \ {"done"}
  PROVE  LostCalls = {}
<1>1. \A c \in Unknown : InHand(c)
  BY InHandQueued DEF CallsInv, CallsKept, CallsOnRecord, Running
<1> QED
  BY <1>1 DEF LostCalls

LEMMA NothingLostNext ==
  ASSUME CallsInv', phase' \in Running \ {"done"}
  PROVE  LostCalls' = {}
<1>1. ASSUME NEW c \in Unknown'
      PROVE  InHand(c)'
  <2>1. phase' = "tool_execute" => c \in Batch'
    BY <1>1 DEF CallsInv, CallsKept, CallsOnRecord
  <2>2. phase' # "tool_execute" => \E e \in Queued("close")' : e[3] = CallOp(c)
    BY <1>1 DEF CallsInv, CallsKept, CallsOnRecord, Running
  <2>3. \A e \in Queued("close")' : e \in outbox' /\ e[2] = "close"
    BY DEF Queued, Due, Vitals
  <2> QED
    BY <2>1, <2>2, <2>3 DEF InHand
<1> QED
  BY <1>1 DEF LostCalls

LEMMA StartedNotEnded ==
  ASSUME CallsInv
  PROVE  StartedCalls \ EndedCalls = Unknown
BY DEF CallsInv, CallsKept, CallsOnRecord, StartedCalls, EndedCalls, Unknown

(* A step that keeps the record of the calls, and loses none.               *)
LEMMA LedgerStutter ==
  ASSUME UNCHANGED <<open, closed, planned, ran>>, LostCalls' = LostCalls
  PROVE  UNCHANGED Ledger!vars
BY DEF Ledger!vars, StartedCalls, EndedCalls

LEMMA LedgerAppend ==
  ASSUME CallsInv, CallsInv', AppendEvent
  PROVE  [Ledger!Next]_Ledger!vars
<1> USE DEF CallsInv, CallsKept
<1>1. PICK e \in outbox :
        /\ Appended(e)
        /\ \/ e[2] = "open"    /\ OpenOp(e[3])
           \/ e[2] = "close"   /\ CloseOp(e[3])
           \/ e[2] = "user"    /\ ApplyUser(e[3])
           \/ e[2] = "step"    /\ ApplyStep(e[3][2])
           \/ e[2] = "plan"    /\ ApplyToolCall(e[3])
           \/ e[2] = "result"  /\ ApplyToolResult(e[3])
           \/ e[2] = "ask"     /\ ApplyPendingInteraction(e[3])
           \/ e[2] = "resolve" /\ ApplyPendingResolution(e[3][2])
           \/ e[2] = "mode"    /\ ApplyMode(e[3])
  BY DEF AppendEvent, Appended
<1>2. UNCHANGED <<phase, cur, ran>> /\ Batch' = Batch
  BY <1>1 DEF Appended, Batch
<1>3. \A kind : /\ Queued(kind)' = Queued(kind) \ {e}
                /\ e[2] = kind /\ Vital(e) => e \in Queued(kind)
                /\ e \in Queued(kind) => e[2] = kind /\ Vital(e)
  BY <1>1, AppendedDue DEF Queued, Due, Vitals
<1>4. CASE e[2] = "plan" /\ ApplyToolCall(e[3])
  <2> DEFINE c == e[3]
  <2>1. e \in Queued("plan") /\ phase = "tool_prepare"
    BY <1>3, <1>4 DEF Vital, Expected
  <2>2. c \notin planned /\ c \in Call
    BY <2>1, Facts, EventCases DEF PlansInOrder, Queued
  <2>3. planned' = planned \cup {c} /\ UNCHANGED <<open, closed, ran>>
    BY <1>2, <1>4 DEF ApplyToolCall, opsVars
  <2>4. ~Started(c)
    BY <2>2 DEF CallsOnRecord
  <2>5. LostCalls = {} /\ LostCalls' = {}
    <3>1. phase \in Running \ {"done"} /\ phase' \in Running \ {"done"}
      BY <1>2, <2>1 DEF Running
    <3> QED
      BY <3>1, NothingLostYet, NothingLostNext
  <2>6. StartedCalls' = StartedCalls /\ EndedCalls' = EndedCalls
    BY <2>3, <2>4 DEF StartedCalls, EndedCalls, Started
  <2>7. Ledger!Plan(c)
    BY <2>2, <2>3, <2>5, <2>6 DEF Ledger!Plan
  <2> HIDE DEF c
  <2> QED
    BY <2>2, <2>7 DEF Ledger!Next
<1>5. CASE e[2] = "open" /\ OpenOp(e[3]) /\ Vital(e)
  <2>1. e \in Queued("open") /\ phase = "tool_execute"
    BY <1>3, <1>5 DEF Expected
  <2>2. PICK c \in Batch : e[3] = CallOp(c)
    BY <2>1 DEF CallsOnRecord
  <2>3. CallOp(c) \notin open \cup closed
    BY <2>1, <2>2 DEF CallsOnRecord
  <2>4. open' = open \cup {CallOp(c)} /\ UNCHANGED <<closed, planned, ran>>
    BY <1>2, <1>5, <2>2, <2>3 DEF OpenOp, foldVars
  <2>5. c \in planned /\ c \in Call
    <3>1. CallOp(c) \in open'
      BY <2>4
    <3>2. c \in Call
      <4>1. cur.reply \in Reply /\ cur.ready \in SUBSET Nat
        BY Facts
      <4> QED
        BY <2>2, <4>1, ReplyCalls DEF Batch
    <3>3. Started(c)' => c \in planned'
      BY <3>2 DEF CallsOnRecord
    <3> QED
      BY <2>4, <3>1, <3>2, <3>3 DEF Started
  <2>6. LostCalls = {} /\ LostCalls' = {}
    <3>1. phase \in Running \ {"done"} /\ phase' \in Running \ {"done"}
      BY <1>2, <2>1 DEF Running
    <3> QED
      BY <3>1, NothingLostYet, NothingLostNext
  <2>7. \A d : CallOp(d) \in open' <=> CallOp(d) \in open \/ d = c
    BY <2>4, CallOpSame
  <2>8. StartedCalls' = StartedCalls \cup {c} /\ c \notin StartedCalls /\ EndedCalls' = EndedCalls
    BY <2>3, <2>4, <2>5, <2>7 DEF StartedCalls, EndedCalls
  <2>9. Ledger!Start(c)
    BY <2>4, <2>5, <2>6, <2>8 DEF Ledger!Start
  <2> QED
    BY <2>5, <2>9 DEF Ledger!Next
<1>6. CASE e[2] = "close" /\ CloseOp(e[3]) /\ Vital(e)
  <2>1. e \in Queued("close") /\ phase \in {"context", "done"}
    BY <1>3, <1>6 DEF Expected
  <2>2. e[3] \in open /\ e[3] \in Op /\ e[3][1] = "call"
    BY <1>6, <2>1, Facts DEF CallsOnRecord, Vital
  <2>3. PICK c \in Call : e[3] = CallOp(c)
    BY <2>2, OpOfCall
  <2>4. c \in planned /\ CallOp(c) \notin closed
    BY <2>2, <2>3 DEF CallsOnRecord, Started
  <2>5. /\ open' = open \ {CallOp(c)} /\ closed' = closed \cup {CallOp(c)}
        /\ UNCHANGED <<planned, ran>>
    BY <1>2, <1>6, <2>3 DEF CloseOp, foldVars
  <2>6. \A d : /\ CallOp(d) \in open' <=> CallOp(d) \in open /\ d # c
               /\ CallOp(d) \in closed' <=> CallOp(d) \in closed \/ d = c
    BY <2>5, CallOpSame
  <2>7. /\ StartedCalls' = StartedCalls /\ EndedCalls' = EndedCalls \cup {c}
        /\ c \in StartedCalls \ EndedCalls
    BY <2>2, <2>3, <2>4, <2>5, <2>6 DEF StartedCalls, EndedCalls
  <2>8. InHand(c)
    BY <2>1, <2>3, InHandQueued
  <2>9. \A d : d # c => InHand(d)' = InHand(d)
    <3>1. ASSUME NEW d, d # c
          PROVE  InHand(d)' = InHand(d)
      <4>1. CallOp(d) # e[3]
        BY <2>3, <3>1, CallOpSame
      <4>2. outbox' = outbox \ {e}
        BY <1>1 DEF Appended
      <4> QED
        BY <1>2, <4>1, <4>2 DEF InHand
    <3> QED
      BY <3>1
  <2>10. Unknown' = Unknown \ {c}
    BY <2>5, <2>6 DEF Unknown
  <2>11. LostCalls' = LostCalls /\ c \notin LostCalls
    BY <2>8, <2>9, <2>10 DEF LostCalls
  <2>12. Ledger!End(c)
    BY <2>5, <2>7, <2>11 DEF Ledger!End
  <2> QED
    BY <2>12 DEF Ledger!Next
<1>7. CASE e[2] \in {"open", "close"} /\ ~Vital(e)
  <2>1. /\ UNCHANGED <<planned, ran>>
        /\ \A d : /\ CallOp(d) \in open' <=> CallOp(d) \in open
                  /\ CallOp(d) \in closed' <=> CallOp(d) \in closed
    <3>1. \A d : CallOp(d) # e[3]
      BY <1>7, OpKinds DEF Vital
    <3> QED
      BY <1>1, <1>2, <1>7, <3>1 DEF OpenOp, CloseOp, foldVars
  <2>2. \A d : InHand(d)' = InHand(d)
    <3>1. \A d : CallOp(d) # e[3]
      BY <1>7, OpKinds DEF Vital
    <3>2. outbox' = outbox \ {e}
      BY <1>1 DEF Appended
    <3> QED
      BY <1>2, <3>1, <3>2 DEF InHand
  <2>3. LostCalls' = LostCalls
    BY <2>1, <2>2 DEF LostCalls, Unknown
  <2> QED
    BY <2>1, <2>3 DEF Ledger!vars, StartedCalls, EndedCalls
<1>8. CASE e[2] \notin {"open", "close", "plan"}
  <2>1. UNCHANGED <<open, closed, planned, ran>>
    BY <1>1, <1>2, <1>8 DEF ApplyUser, ApplyStep, ApplyToolResult, ApplyPendingInteraction,
       ApplyPendingResolution, ApplyMode, opsVars
  <2>2. \A d : InHand(d)' = InHand(d)
    <3>2. outbox' = outbox \ {e}
      BY <1>1 DEF Appended
    <3> QED
      BY <1>2, <1>8, <3>2 DEF InHand
  <2>3. LostCalls' = LostCalls
    BY <2>1, <2>2 DEF LostCalls, Unknown
  <2> QED
    BY <2>1, <2>3, LedgerStutter
<1> QED
  BY <1>1, <1>4, <1>5, <1>6, <1>7, <1>8

(* The driver's own steps keep every started call in hand.                  *)
LEMMA KernelLedger ==
  ASSUME CallsInv, CallsInv', phase \in Running \ {"done"}, outbox = {},
         NEW p \in Running, NEW c, NEW E, KernelStep(p, c, E),
         phase = "tool_execute" /\ p = "done" =>
           \A d \in Batch : \E e \in E : e[2] = "close" /\ e[3] = CallOp(d)
  PROVE  UNCHANGED Ledger!vars
<1>1. /\ UNCHANGED <<open, closed, planned, ran>> /\ Unknown' = Unknown
      /\ phase' = p /\ outbox' = E
  BY DEF KernelStep, opsVars, foldVars, worldVars, Unknown
<1>2. LostCalls = {}
  BY NothingLostYet
<1>3. CASE p # "done"
  <2>1. LostCalls' = {}
    BY <1>1, <1>3, NothingLostNext
  <2> QED
    BY <1>1, <1>2, <2>1, LedgerStutter
<1>4. CASE p = "done" /\ phase # "tool_execute"
  <2>1. Unknown = {}
    BY <1>4, QuietFacts DEF Running
  <2>2. LostCalls' = {}
    BY <1>1, <2>1 DEF LostCalls
  <2> QED
    BY <1>1, <1>2, <2>2, LedgerStutter
<1>5. CASE p = "done" /\ phase = "tool_execute"
  <2>1. Unknown = Batch
    BY <1>5, QuietFacts
  <2>2. \A d \in Unknown' : InHand(d)'
    BY <1>1, <1>5, <2>1 DEF InHand
  <2>3. LostCalls' = {}
    BY <2>2 DEF LostCalls
  <2> QED
    BY <1>1, <1>2, <2>3, LedgerStutter
<1> QED
  BY <1>3, <1>4, <1>5

(* The driver's steps up to the execution of a batch.                       *)
LEMMA PreparationLedger ==
  ASSUME CallsInv, CallsInv', phase \in Running \ {"tool_execute", "done"}, outbox = {},
         NEW p \in Running, NEW c, NEW E, KernelStep(p, c, E)
  PROVE  UNCHANGED Ledger!vars
<1>1. phase # "tool_execute" /\ phase \in Running \ {"done"}
  OBVIOUS
<1> QED
  BY <1>1, KernelLedger

LEMMA StartsLedger ==
  ASSUME CallsInv, CallsInv',
         Start \/ FinishModeSwitchTurn \/ CommandTool \/ ResumePreparation
  PROVE  UNCHANGED Ledger!vars
<1>1. phase \in Running \ {"tool_execute", "done"} /\ outbox = {}
  BY DEF Start, FinishModeSwitchTurn, CommandTool, ResumePreparation, Loop, Running
<1>2. \E p \in Running : \E c, E : KernelStep(p, c, E)
  BY DEF Start, FinishModeSwitchTurn, CommandTool, ResumePreparation, Running
<1> QED
  BY <1>1, <1>2, PreparationLedger

LEMMA ProviderLedger ==
  ASSUME CallsInv, CallsInv',
         \/ AcceptContext \/ AcceptAnswer \/ CompactRetry \/ ProviderFails
         \/ \E n \in 1 .. MaxCalls : AcceptActions(n)
  PROVE  UNCHANGED Ledger!vars
<1>1. phase \in Running \ {"tool_execute", "done"} /\ outbox = {}
  BY AcceptedIds DEF AcceptContext, AcceptAnswer, CompactRetry, ProviderFails, InEffect,
     EffectDue, Running
<1>2. \E p \in Running : \E c, E : KernelStep(p, c, E)
  BY AcceptedIds DEF AcceptContext, AcceptAnswer, CompactRetry, ProviderFails, Fail, Running
<1> QED
  BY <1>1, <1>2, PreparationLedger

(* The step after a batch, and that it records what it was given.           *)
LEMMA AfterToolsStep ==
  ASSUME NEW rank, NEW events, AfterTools(rank, events)
  PROVE  \E p \in Running : \E c, E : KernelStep(p, c, E) /\ events \subseteq E
<1> "done" \in Running /\ "context" \in Running
  BY DEF Running
<1>1. ASSUME Fail(rank, events, {})
      PROVE  \E c, E : KernelStep("done", c, E) /\ events \subseteq E
  BY <1>1 DEF Fail
<1>2. ASSUME NEW m \in Modes, AdvanceAfterTools(rank, events, m)
      PROVE  \E p \in {"context", "done"} : \E c, E : KernelStep(p, c, E) /\ events \subseteq E
  <2>1. CASE cur.then = "complete"
    BY <1>2, <2>1 DEF AdvanceAfterTools
  <2>2. CASE cur.then # "complete"
    BY <1>2, <2>2 DEF AdvanceAfterTools
  <2> QED
    BY <2>1, <2>2
<1> QED
  BY <1>1, <1>2 DEF AfterTools

LEMMA PreparedLedger ==
  ASSUME CallsInv, CallsInv',
         \/ \E R \in SUBSET (1 .. MaxCalls) : AcceptPrepared(R)
         \/ AcceptImmediate
         \/ \E k \in 1 .. MaxCalls, R \in SUBSET (1 .. MaxCalls) : SuspendPreparation(k, R)
  PROVE  UNCHANGED Ledger!vars
<1>1. phase \in Running \ {"tool_execute", "done"} /\ outbox = {}
  BY DEF AcceptPrepared, AcceptImmediate, SuspendPreparation, InEffect, EffectDue, Running
<1>2. AcceptImmediate => \E p \in Running : \E c, E : KernelStep(p, c, E)
  BY AfterToolsStep DEF AcceptImmediate
<1>3. \E p \in Running : \E c, E : KernelStep(p, c, E)
  BY <1>2 DEF AcceptPrepared, SuspendPreparation, Running
<1> QED
  BY <1>1, <1>3, PreparationLedger

(* Every call of a finished batch gets its end.                             *)
LEMMA ToolResultsEnd ==
  ASSUME NEW d \in Batch
  PROVE  \E e \in ToolResults : e[2] = "close" /\ e[3] = CallOp(d)
<1>1. PICK i \in cur.ready : d = CallOf(cur.reply, i)
  BY DEF Batch, CallsOf
<1> DEFINE e == <<2 * i + 1, "close", CallOp(CallOf(cur.reply, i))>>
<1>2. e \in ToolResults
  BY DEF ToolResults
<1>3. e[2] = "close" /\ e[3] = CallOp(d)
  BY <1>1
<1> QED
  BY <1>2, <1>3

LEMMA FinishToolsLedger ==
  ASSUME CallsInv, CallsInv', FinishTools
  PROVE  UNCHANGED Ledger!vars
<1>1. phase = "tool_execute" /\ phase \in Running \ {"done"} /\ outbox = {}
  BY DEF FinishTools, EffectDue, Running
<1>2. PICK p \in Running : \E c, E : KernelStep(p, c, E) /\ ToolResults \subseteq E
  <2>1. CASE cancel
    BY <2>1 DEF FinishTools, Fail, Running
  <2>2. CASE ~cancel
    BY <2>2, AfterToolsStep DEF FinishTools
  <2> QED
    BY <2>1, <2>2
<1>3. PICK c, E : KernelStep(p, c, E) /\ ToolResults \subseteq E
  BY <1>2
<1>4. \A d \in Batch : \E e \in E : e[2] = "close" /\ e[3] = CallOp(d)
  BY <1>3, ToolResultsEnd
<1> QED
  BY <1>1, <1>3, <1>4, KernelLedger

LEMMA EffectCancelledLedger ==
  ASSUME CallsInv, CallsInv', EffectCancelled
  PROVE  UNCHANGED Ledger!vars
<1> DEFINE unclosed == IF phase = "tool_execute" THEN {CallOp(c) : c \in Batch} ELSE {}
           E == {} \cup {<<1, "close", o>> : o \in {cur.op} \cup unclosed}
                   \cup StepFinished(1 + 1, cur) \cup Transition(1 + 2, cur, cur.mode)
<1>1. phase \in Running \ {"done"} /\ outbox = {}
  BY DEF EffectCancelled, EffectDue, Running
<1>2. KernelStep("done", cur, E)
  BY DEF EffectCancelled, Fail
<1>3. ASSUME phase = "tool_execute", NEW d \in Batch
      PROVE  \E e \in E : e[2] = "close" /\ e[3] = CallOp(d)
  <2> DEFINE e == <<1, "close", CallOp(d)>>
  <2>1. CallOp(d) \in unclosed
    BY <1>3
  <2>2. e \in {<<1, "close", o>> : o \in {cur.op} \cup unclosed}
    BY <2>1
  <2>3. e \in E /\ e[2] = "close" /\ e[3] = CallOp(d)
    BY <2>2
  <2> QED
    BY <2>3
<1>4. "done" \in Running
  BY DEF Running
<1> HIDE DEF E, unclosed
<1> QED
  BY <1>1, <1>2, <1>3, <1>4, KernelLedger

(* A tool is run: its start is on record, its end is not.                   *)
LEMMA RunToolLedger ==
  ASSUME CallsInv, CallsInv', NEW i \in 1 .. MaxCalls, RunTool(i)
  PROVE  Ledger!Next
<1> DEFINE c == CallOf(cur.reply, i)
<1>1. phase = "tool_execute" /\ outbox = {} /\ i \in cur.ready /\ i \notin cur.started
  BY DEF RunTool, InEffect, EffectDue, Dispatchable
<1>2. c \in Batch /\ c \in Call
  <2>1. cur.reply \in Reply /\ cur.ready \in SUBSET Nat
    BY Facts DEF CallsInv
  <2>2. Batch \subseteq Call
    BY <2>1, ReplyCalls DEF Batch
  <2> QED
    BY <1>1, <2>2, CallOfIn DEF Batch
<1>3. c \notin CallsOf(cur.reply, cur.started)
  BY <1>1, CallOfIn
<1>4. c \notin ran
  BY <1>1, <1>2, <1>3 DEF CallsInv, CallsKept, BatchKept
<1>5. CallOp(c) \in open /\ c \in planned /\ CallOp(c) \notin closed
  <2>1. Unknown = Batch
    BY <1>1, QuietFacts
  <2> QED
    BY <1>2, <2>1 DEF Unknown, CallsInv, CallsKept, CallsOnRecord
<1>6. /\ UNCHANGED <<open, closed, planned, outbox, phase>> /\ ran' = ran \cup {c}
  BY DEF RunTool, opsVars, foldVars
<1>7. LostCalls = {} /\ LostCalls' = {}
  <2>1. phase \in Running \ {"done"} /\ phase' \in Running \ {"done"}
    BY <1>1, <1>6 DEF Running
  <2> QED
    BY <2>1, NothingLostYet, NothingLostNext
<1>8. StartedCalls' = StartedCalls /\ EndedCalls' = EndedCalls /\ c \in StartedCalls \ EndedCalls
  BY <1>5, <1>6 DEF StartedCalls, EndedCalls
<1>9. Ledger!Run(c)
  BY <1>4, <1>6, <1>7, <1>8 DEF Ledger!Run
<1> HIDE DEF c
<1> QED
  BY <1>2, <1>9 DEF Ledger!Next

(* Between transactions every call without an end is lost.                  *)
LEMMA RestLedger ==
  ASSUME CallsInv, CallsInv', End \/ CheckpointInvalid
  PROVE  UNCHANGED Ledger!vars
<1>1. /\ outbox = {} /\ outbox' = {} /\ phase \in {"begin", "done"} /\ phase' = "idle"
      /\ UNCHANGED <<open, closed, planned, ran>>
  BY DEF End, CheckpointInvalid, Loop, Rest, opsVars, foldVars, worldVars
<1>2. LostCalls = Unknown /\ LostCalls' = Unknown' /\ Unknown' = Unknown
  BY <1>1 DEF LostCalls, InHand, Unknown
<1> QED
  BY <1>1, <1>2, LedgerStutter

LEMMA FaultLedger ==
  ASSUME CallsInv, CallsInv', Raise \/ Crash
  PROVE  [Ledger!Next]_Ledger!vars
<1>1. /\ UNCHANGED <<open, closed, planned, ran>>
      /\ phase' \in {"idle", "done"}
      /\ outbox' \subseteq {<<1, "close", TurnOp(cur.turn)>>}
  BY DEF Raise, Crash, Rest, opsVars, foldVars
<1>2. \A d : ~InHand(d)'
  <2>1. \A d : CallOp(d) # TurnOp(cur.turn)
    BY OpKinds
  <2> QED
    BY <1>1, <2>1 DEF InHand
<1>3. LostCalls' = Unknown
  BY <1>1, <1>2 DEF LostCalls, Unknown
<1>4. StartedCalls' = StartedCalls /\ EndedCalls' = EndedCalls
  BY <1>1 DEF StartedCalls, EndedCalls
<1>5. StartedCalls \ EndedCalls = Unknown
  BY StartedNotEnded
<1>6. CASE Unknown = {}
  <2>1. LostCalls = {}
    BY <1>6 DEF LostCalls
  <2> QED
    BY <1>1, <1>3, <1>6, <2>1, LedgerStutter
<1>7. CASE Unknown # {}
  <2>1. Ledger!Lose
    BY <1>1, <1>3, <1>4, <1>5, <1>7 DEF Ledger!Lose
  <2> QED
    BY <2>1 DEF Ledger!Next
<1> QED
  BY <1>6, <1>7

(* A transaction opens only over calls whose outcome is known.              *)
LEMMA InputLedger ==
  ASSUME CallsInv, CallsInv', Input
  PROVE  UNCHANGED Ledger!vars
<1>1. CASE \E m \in Modes : ApplyHostMode(m)
  <2>1. UNCHANGED <<open, closed, planned, ran, phase, cur, outbox>>
    BY <1>1 DEF ApplyHostMode, opsVars, processVars, worldVars
  <2>2. LostCalls' = LostCalls
    BY <2>1 DEF LostCalls, Unknown, InHand, Batch
  <2> QED
    BY <2>1, <2>2, LedgerStutter
<1>2. CASE \E c, E, stop : Begin(c, E, stop)
  <2>1. Unknown = {} /\ UNCHANGED <<open, closed, planned, ran>>
    BY <1>2, RestorableKnown DEF Begin, opsVars, foldVars
  <2>2. LostCalls = {} /\ LostCalls' = {}
    BY <2>1 DEF LostCalls, Unknown
  <2> QED
    BY <2>1, <2>2, LedgerStutter
<1>3. (\E m \in Modes : ApplyHostMode(m)) \/ \E c, E, stop : Begin(c, E, stop)
  BY DEF Input, SubmitTurn, SubmitReply
<1> QED
  BY <1>1, <1>2, <1>3

LEMMA FrameLedger ==
  ASSUME Cancel \/ Age \/ Quiet \/ UNCHANGED vars
  PROVE  UNCHANGED Ledger!vars
<1>1. UNCHANGED <<open, closed, planned, ran, phase, cur, outbox>>
  BY DEF Cancel, Age, Quiet, vars, opsVars, foldVars, processVars, worldVars
<1>2. LostCalls' = LostCalls
  BY <1>1 DEF LostCalls, Unknown, InHand, Batch
<1> QED
  BY <1>1, <1>2, LedgerStutter

LEMMA LedgerInit == Init => Ledger!Init
BY DEF Init, Ledger!Init, StartedCalls, EndedCalls, LostCalls, Unknown

LEMMA LedgerNext == CallsInv /\ CallsInv' /\ [Next]_vars => [Ledger!Next]_Ledger!vars
<1> SUFFICES ASSUME CallsInv, CallsInv', [Next]_vars
             PROVE  [Ledger!Next]_Ledger!vars
  OBVIOUS
<1>1. ASSUME LoopStep PROVE [Ledger!Next]_Ledger!vars
  BY <1>1, LedgerAppend, StartsLedger, ProviderLedger, PreparedLedger, FinishToolsLedger,
     EffectCancelledLedger, RunToolLedger, RestLedger DEF LoopStep
<1> QED
  BY <1>1, InputLedger, FaultLedger, FrameLedger, RefusedReply DEF Next

(* The transcript and the driver implement ToolLedger over all calls: a     *)
(* call is planned once, started before it runs, run once, and no call is   *)
(* planned, started or run after a crash left one without an outcome.       *)
THEOREM ImplementsToolLedger == Spec => Ledger!Spec
<1> QED
  BY LedgerInit, LedgerNext, CallsInvariant, PTL DEF Spec, Ledger!Spec

=============================================================================

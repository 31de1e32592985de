----------------------------- MODULE AgentTurn -----------------------------
(***************************************************************************)
(* One durable session driven through SessionTransaction: AgentKernel      *)
(* plans a step, AgentLoop commits the step's events to the transcript     *)
(* one by one and only then executes the step's effect, and the result     *)
(* goes back to the kernel.  The process may stop between any two events,  *)
(* and between a tool's side effect and the record of it; the next         *)
(* transaction folds the transcript again.                                 *)
(*                                                                         *)
(* The transcript is kept as what the reducers fold it into (SessionReducer*)
(* for turns, calls and interactions, OperationLogReducer for operations): *)
(* live state and restored state are the same fold, so a crash loses the   *)
(* events not yet appended and nothing else.                               *)
(***************************************************************************)
EXTENDS Naturals, FiniteSets

CONSTANTS
  Modes,        \* mode slugs
  SafetyLimit,  \* max_turns: steps with tools after which a turn is stopped
  MaxCalls,     \* bound: tool calls in one assistant reply
  MaxTurns,     \* bound: turns submitted to the session
  MaxAsks,      \* bound: interactions raised in the session
  MaxFaults     \* bound: transactions ended by a crash or an exception

ASSUME AgentTurnAssumption ==
  /\ Modes # {}
  /\ SafetyLimit \in Nat \ {0}
  /\ MaxCalls \in Nat \ {0}
  /\ MaxTurns \in Nat
  /\ MaxAsks \in Nat
  /\ MaxFaults \in Nat

VARIABLES
  (* the fold of the transcript *)
  open,       \* operations started and not ended
  closed,     \* operations finished or interrupted
  turn,       \* id of session.turns[-1], 0 before the first
  steps,      \* number of steps of that turn
  planned,    \* tool calls recorded by the reducer
  answered,   \* tool calls with a tool_result
  pending,    \* session.pending_interaction, with its preparation checkpoint
  asks,       \* interactions ever recorded
  asked,      \* tool calls an interaction was raised for
  granted,    \* tool calls whose interaction was resolved with an approval
  mode,       \* SessionReducerContext.current_mode
  aged,       \* some recorded interaction is more than 300 s old
  (* the process *)
  ids,        \* turn ids handed out (uuid4: never handed out twice)
  phase,      \* KernelCursor.phase, and where the driver is
  cur,        \* KernelCursor and the batch it carries
  outbox,     \* events of the current step not yet appended
  cancel,     \* the stop event
  (* the world, and history *)
  ran,        \* tool calls whose side effect has started
  repeated,   \* what happened twice: <<"ran", c>> or <<"answered", c>>
  faults,     \* crashes and uncaught exceptions so far
  cut         \* turns cut short: <<"fault", turn>> or <<"cancel", turn>>

opsVars     == <<open, closed>>
foldVars    == <<turn, steps, planned, answered, pending, asks, asked, granted, mode>>
processVars == <<ids, phase, cur, outbox, cancel>>
worldVars   == <<ran, repeated, faults, cut>>
vars == <<open, closed, turn, steps, planned, answered, pending, asks, asked,
          granted, mode, aged, ids, phase, cur, outbox, cancel, ran,
          repeated, faults, cut>>
-----------------------------------------------------------------------------
(* Identities.  An assistant message is <<turn, step, attempt>>; the tool   *)
(* call at a source index of it is its invocation id.                       *)
Reply == Nat \X Nat \X Nat
Call  == Nat \X Nat \X Nat \X Nat

CallOf(r, i)   == <<r[1], r[2], r[3], i>>
CallsOf(r, I)  == {CallOf(r, i) : i \in I}

EffectKind == {"context", "context-compact", "provider", "tool-prepare", "tools"}
Op ==      ({"turn", "pending"} \X Nat)
      \cup ({"step", "save"} \X Nat \X Nat)
      \cup (EffectKind \X Nat \X Nat \X Nat)
      \cup ({"call"} \X Call)

TurnOp(t)              == <<"turn", t>>
StepOp(t, s)           == <<"step", t, s>>
SaveOp(t, s)           == <<"save", t, s>>
PendingOp(p)           == <<"pending", p>>
EffectOp(kind, t, s, a) == <<kind, t, s, a>>
CallOp(c)              == <<"call", c>>

None == [id |-> 0]
Checkpoint ==
  {p \in [id : Nat \ {0}, reply : Reply, size : Nat, at : Nat \ {0}, ready : SUBSET Nat,
          mode : Modes, then : {"context", "complete"}] : p.ready \subseteq 1 .. p.size}

(* The call an interaction was raised for. *)
AskedCall(p) == CallOf(p.reply, p.at)

(* Events of a step, <<rank, kind, subject>>: journal.commit appends them   *)
(* by increasing rank.                                                      *)
Event ==      (Nat \X {"open", "close"} \X Op)
         \cup (Nat \X {"user"} \X Nat)
         \cup (Nat \X {"step"} \X (Nat \X Nat))
         \cup (Nat \X {"plan", "result"} \X Call)
         \cup (Nat \X {"ask"} \X Checkpoint)
         \cup (Nat \X {"resolve"} \X (Nat \X BOOLEAN))
         \cup (Nat \X {"mode"} \X Modes)

Cursor ==
  [input : {"user", "switch", "command", "reply"}, turn : Nat, step : Nat, attempt : Nat,
   op : Op, compacted : BOOLEAN, reply : Reply, size : Nat, from : Nat \ {0},
   ready : SUBSET Nat, started : SUBSET Nat, mode : Modes,
   then : {"context", "complete"}, resumed : BOOLEAN,
   approved : BOOLEAN]

Running == {"begin", "context", "provider", "tool_prepare", "tool_execute", "done"}
-----------------------------------------------------------------------------
(* SessionReducer: whether an event is accepted, and what it changes.       *)

(* The step in an event's payload: that of the cursor that made it, which is *)
(* the step before when the kernel begins a new one behind it.              *)
Stamp(e) == IF \E f \in outbox : f[2] = "step" /\ f[1] > e[1] THEN cur.step - 1 ELSE cur.step

(* _matches_current_turn and _matches_current_step *)
OfCurrentStep(e) == cur.turn = turn /\ Stamp(e) = steps

Accepts(e) ==
  CASE e[2] = "user"    -> e[3] > turn
    [] e[2] = "step"    -> e[3][1] = turn /\ e[3][2] > steps
    [] e[2] = "plan"    -> OfCurrentStep(e) /\ e[3] \notin planned
    [] e[2] = "result"  -> OfCurrentStep(e) /\ e[3] \in planned
    [] e[2] = "ask"     -> OfCurrentStep(e) /\ e[3].id > asks
    [] e[2] = "resolve" -> OfCurrentStep(e) /\ pending.id # 0 /\ pending.id = e[3][1]
    [] e[2] = "mode"    -> phase = "begin" \/ OfCurrentStep(e)
    [] OTHER            -> TRUE

(* OperationLogReducer: a start of an ended operation is ignored.           *)
OpenOp(o) ==
  /\ open' = IF o \in closed THEN open ELSE open \cup {o}
  /\ UNCHANGED <<closed, foldVars, repeated>>

CloseOp(o) ==
  /\ open' = open \ {o}
  /\ closed' = closed \cup {o}
  /\ UNCHANGED <<foldVars, repeated>>

ApplyUser(t) ==
  /\ turn' = t
  /\ steps' = 0
  /\ UNCHANGED <<opsVars, planned, answered, pending, asks, asked, granted, mode, repeated>>

ApplyStep(s) ==
  /\ steps' = s
  /\ UNCHANGED <<opsVars, turn, planned, answered, pending, asks, asked, granted, mode, repeated>>

ApplyToolCall(c) ==
  /\ planned' = planned \cup {c}
  /\ UNCHANGED <<opsVars, turn, steps, answered, pending, asks, asked, granted, mode, repeated>>

ApplyToolResult(c) ==
  /\ answered' = answered \cup {c}
  /\ repeated' = IF c \in answered THEN repeated \cup {<<"answered", c>>} ELSE repeated
  /\ UNCHANGED <<opsVars, turn, steps, planned, pending, asks, asked, granted, mode>>

ApplyPendingInteraction(p) ==
  /\ pending' = p
  /\ asks' = p.id
  /\ asked' = asked \cup {AskedCall(p)}
  /\ UNCHANGED <<opsVars, turn, steps, planned, answered, granted, mode, repeated>>

ApplyPendingResolution(approved) ==
  /\ pending' = None
  /\ granted' = IF approved THEN granted \cup {AskedCall(pending)} ELSE granted
  /\ UNCHANGED <<opsVars, turn, steps, planned, answered, asks, asked, mode, repeated>>

ApplyMode(m) ==
  /\ mode' = m
  /\ UNCHANGED <<opsVars, turn, steps, planned, answered, pending, asks, asked, granted, repeated>>

(* SessionJournal.commit, one event: append to the log, then reduce.        *)
AppendEvent ==
  \E e \in outbox :
    /\ \A f \in outbox : e[1] <= f[1]
    /\ Accepts(e)
    /\ \/ e[2] = "open"    /\ OpenOp(e[3])
       \/ e[2] = "close"   /\ CloseOp(e[3])
       \/ e[2] = "user"    /\ ApplyUser(e[3])
       \/ e[2] = "step"    /\ ApplyStep(e[3][2])
       \/ e[2] = "plan"    /\ ApplyToolCall(e[3])
       \/ e[2] = "result"  /\ ApplyToolResult(e[3])
       \/ e[2] = "ask"     /\ ApplyPendingInteraction(e[3])
       \/ e[2] = "resolve" /\ ApplyPendingResolution(e[3][2])
       \/ e[2] = "mode"    /\ ApplyMode(e[3])
    /\ outbox' = outbox \ {e}
    /\ UNCHANGED <<aged, ids, phase, cur, cancel, ran, faults, cut>>
-----------------------------------------------------------------------------
(* Opening a transaction: lease, restore, refuse what cannot be continued.  *)
Unknown == {c \in planned : CallOp(c) \in open}

\* Mutant: an unfinished tool call does not stop the session.
RestorableUnknown == ~aged

Restorable ==
  /\ ~aged
  /\ \A c \in Unknown : pending.id # 0 /\ c = AskedCall(pending)

Fresh(input, t, m) ==
  [input |-> input, turn |-> t, step |-> 0, attempt |-> 0, op |-> TurnOp(t),
   compacted |-> FALSE, reply |-> <<0, 0, 0>>, size |-> 0, from |-> 1,
   ready |-> {}, started |-> {}, mode |-> m, then |-> "context",
   resumed |-> FALSE, approved |-> FALSE]

Parked == Fresh("user", 0, CHOOSE m \in Modes : TRUE)

Begin(c, events, stop) ==
  /\ phase = "idle"
  /\ Restorable
  /\ phase' = "begin"
  /\ cur' = c
  /\ outbox' = events
  /\ cancel' = stop
  /\ cut' = IF stop THEN cut \cup {<<"cancel", c.turn>>} ELSE cut
  /\ UNCHANGED <<opsVars, foldVars, aged, ran, repeated, faults>>

(* The transaction ends and the lease is given back. *)
Rest ==
  /\ phase' = "idle"
  /\ cur' = Parked
  /\ outbox' = {}
  /\ cancel' = FALSE

(* submit_user_turn and submit_command_turn up to the user message; a       *)
(* session without messages is bootstrapped with its mode first.  A UserTurn*)
(* may name another mode than the session's, or switch with a prefix.       *)
SubmitTurn(input, m, bootstrap) ==
  /\ ids < MaxTurns
  /\ ids = 0 => bootstrap
  /\ bootstrap => turn = 0
  /\ ids' = ids + 1
  /\ Begin(Fresh(input, ids + 1, m),
           (IF bootstrap THEN {<<1, "mode", m>>} ELSE {})
           \cup {<<2, "open", TurnOp(ids + 1)>>, <<3, "user", ids + 1>>}, FALSE)

(* An InteractionReply for the pending interaction; cancel_session replies  *)
(* with a refusal and a stop event that is already set.                     *)
SubmitReply(approved, stop) ==
  /\ pending.id # 0
  /\ stop => ~approved
  /\ Begin([Fresh("reply", turn, mode) EXCEPT !.approved = approved],
           {<<1, "open", TurnOp(turn)>>}, stop)
  /\ UNCHANGED ids

(* apply_host_mode: its own transaction, one session_meta event.            *)
ApplyHostMode(m) ==
  /\ phase = "idle"
  /\ Restorable
  /\ mode' = m
  /\ UNCHANGED <<opsVars, turn, steps, planned, answered, pending, asks, asked,
                 granted, aged, processVars, worldVars>>
-----------------------------------------------------------------------------
(* Kernel steps: a new cursor, the events to commit and the effect to run   *)
(* (phase) once they are durable.                                           *)
KernelStep(p, c, events) ==
  /\ phase' = p
  /\ cur' = c
  /\ outbox' = events
  /\ UNCHANGED <<opsVars, foldVars, aged, ids, cancel, worldVars>>

(* _next_step_index *)
NextStep == steps + 1

StepStarted(t, s) == {<<1, "step", <<t, s>>>>, <<2, "open", StepOp(t, s)>>}

(* _transition_events, then AgentTurnFrame.finish.                          *)
Transition(rank, c, m) ==
  {<<rank, "open", SaveOp(c.turn, c.step)>>, <<rank + 1, "mode", m>>,
   <<rank + 2, "close", SaveOp(c.turn, c.step)>>, <<rank + 3, "close", TurnOp(c.turn)>>}

StepFinished(rank, c) == {<<rank, "close", StepOp(c.turn, c.step)>>}

Loop(input) == phase = "begin" /\ outbox = {} /\ cur.input \in input

(* AgentKernel.start *)
Start ==
  LET s == NextStep
      o == EffectOp("context", cur.turn, s, 0)
  IN  /\ Loop({"user", "switch"})
      /\ KernelStep("context", [cur EXCEPT !.step = s, !.op = o],
                    StepStarted(cur.turn, s) \cup {<<3, "open", o>>})

(* A user message that is only a mode switch: _finish_mode_switch_turn.     *)
FinishModeSwitchTurn ==
  LET s == NextStep
      c == [cur EXCEPT !.step = s]
  IN  /\ Loop({"switch"})
      /\ KernelStep("done", c,
           StepStarted(cur.turn, s)
           \cup {<<3, "open", SaveOp(cur.turn, s)>>, <<4, "mode", cur.mode>>,
                 <<5, "close", SaveOp(cur.turn, s)>>}
           \cup StepFinished(6, c) \cup {<<7, "close", TurnOp(cur.turn)>>})

(* AgentKernel.command_tool: one call, and the turn ends after it.          *)
CommandTool ==
  LET s == NextStep
      o == EffectOp("tool-prepare", cur.turn, s, 0)
      r == <<cur.turn, s, 0>>
  IN  /\ Loop({"command"})
      /\ KernelStep("tool_prepare",
           [cur EXCEPT !.step = s, !.op = o, !.reply = r, !.size = 1, !.then = "complete"],
           StepStarted(cur.turn, s) \cup {<<3, "plan", CallOf(r, 1)>>, <<4, "open", o>>})

\* Mutant: preparation starts again at the first action.
ContinueFromStart(p) ==
  [cur EXCEPT !.reply = p.reply, !.size = p.size, !.ready = p.ready, !.then = p.then,
              !.resumed = TRUE]

(* _preparation_checkpoint_effect *)
ContinueFrom(p) ==
  [cur EXCEPT !.reply = p.reply, !.size = p.size, !.from = p.at, !.ready = p.ready,
              !.then = p.then, !.resumed = TRUE]

(* AgentKernel.resume_preparation from the checkpoint, which must be of the *)
(* current mode.                                                            *)
ResumePreparation ==
  LET s == NextStep
      o == EffectOp("tool-prepare", cur.turn, s, 0)
  IN  /\ Loop({"reply"})
      /\ pending.id # 0
      /\ pending.mode = mode
      /\ KernelStep("tool_prepare",
           [ContinueFrom(pending) EXCEPT !.step = s, !.op = o],
           StepStarted(cur.turn, s)
           \cup {<<3, "resolve", <<pending.id, cur.approved>>>>,
                 <<4, "close", PendingOp(pending.id)>>, <<5, "open", o>>})

(* interaction_checkpoint_invalid: raised before anything is resolved.      *)
CheckpointInvalid ==
  /\ Loop({"reply"})
  /\ pending.mode # mode
  /\ Rest
  /\ UNCHANGED <<opsVars, foldVars, aged, ids, worldVars>>
-----------------------------------------------------------------------------
(* AgentKernel._accept_failure without a retry: close what is still open,   *)
(* record the transition, finish the turn.  events end below the rank.      *)
Fail(rank, events, unclosed) ==
  KernelStep("done", cur,
    events \cup {<<rank, "close", o>> : o \in {cur.op} \cup unclosed}
           \cup StepFinished(rank + 1, cur) \cup Transition(rank + 2, cur, cur.mode))

Batch == CallsOf(cur.reply, cur.ready)

(* An effect begins once the events before it are durable and the stop      *)
(* event is not set.  A stop that comes while a context, provider or        *)
(* preparation effect runs is noticed before the next effect, so it is as   *)
(* if it came then.                                                         *)
EffectDue(p) == phase = p /\ outbox = {}
InEffect(p)  == EffectDue(p) /\ ~cancel

\* Mutant: the invocations already announced are not interrupted.
EffectCancelledLeaky ==
  /\ \E p \in {"context", "provider", "tool_prepare", "tool_execute"} : EffectDue(p)
  /\ cancel
  /\ cur.started = {}
  /\ Fail(1, {}, {})

EffectCancelled ==
  /\ \E p \in {"context", "provider", "tool_prepare", "tool_execute"} : EffectDue(p)
  /\ cancel
  /\ cur.started = {}
  /\ Fail(1, {}, IF phase = "tool_execute" THEN {CallOp(c) : c \in Batch} ELSE {})

\* Mutant: the request after a compaction keeps the attempt number.
AcceptContextSameAttempt ==
  LET o == EffectOp("provider", cur.turn, cur.step, 1)
  IN  /\ InEffect("context")
      /\ KernelStep("provider", [cur EXCEPT !.op = o],
                    {<<1, "close", cur.op>>, <<2, "open", o>>})

(* _accept_context *)
AcceptContext ==
  LET o == EffectOp("provider", cur.turn, cur.step, cur.attempt + 1)
  IN  /\ InEffect("context")
      /\ KernelStep("provider", [cur EXCEPT !.attempt = @ + 1, !.op = o],
                    {<<1, "close", cur.op>>, <<2, "open", o>>})

(* _accept_provider without actions: completed, or guard_stop if empty.     *)
AcceptAnswer ==
  /\ InEffect("provider")
  /\ KernelStep("done", cur,
       {<<1, "close", cur.op>>} \cup StepFinished(2, cur) \cup Transition(3, cur, cur.mode))

(* The ids a reply of n tool calls brings: the provider chooses them, so one *)
(* may be that of an earlier call of the session or of the same reply.      *)
ProviderIds(r, n) ==
  {names \in [1 .. n -> planned \cup CallsOf(r, 1 .. n)] :
     \A i \in 1 .. n :
       \/ names[i] = CallOf(r, i)
       \/ names[i] \in planned
       \/ \E j \in 1 .. i - 1 : names[j] = names[i]}

\* Mutant: the copy starts without the ids of the calls before the commit.
PreflightUnseeded(names) == \A i \in DOMAIN names : \A j \in 1 .. i - 1 : names[j] # names[i]

(* SessionJournal.commit tries every event of the commit on a copy of the   *)
(* session before it appends the first: no id is seen twice.                *)
Preflight(names) ==
  \A i \in DOMAIN names : names[i] \notin planned /\ \A j \in 1 .. i - 1 : names[j] # names[i]

(* _accept_provider with n actions: planned, but nothing may run yet.       *)
AcceptActions(n) ==
  LET o == EffectOp("tool-prepare", cur.turn, cur.step, cur.attempt)
      r == <<cur.turn, cur.step, cur.attempt>>
  IN  /\ InEffect("provider")
      /\ \E names \in ProviderIds(r, n) :
           /\ Preflight(names)
           /\ KernelStep("tool_prepare",
                [cur EXCEPT !.op = o, !.reply = r, !.size = n, !.from = 1, !.ready = {},
                            !.resumed = FALSE],
                {<<1, "close", cur.op>>} \cup {<<1 + i, "plan", names[i]>> : i \in 1 .. n}
                \cup {<<n + 2, "open", o>>})

(* _accept_failure on context_limit, the first time in this drive.          *)
CompactRetry ==
  LET o == EffectOp("context-compact", cur.turn, cur.step, cur.attempt)
  IN  /\ InEffect("provider")
      /\ ~cur.compacted
      /\ KernelStep("context", [cur EXCEPT !.op = o, !.compacted = TRUE],
                    {<<1, "close", cur.op>>, <<2, "mode", cur.mode>>, <<3, "open", o>>})

(* A provider error, or a context_limit after the retry.                    *)
ProviderFails == InEffect("provider") /\ Fail(1, {}, {})
-----------------------------------------------------------------------------
(* AgentToolActionService.prepare walks the actions in source order: each   *)
(* becomes a ready invocation or an immediate result, or suspends the turn. *)
\* Mutant: the answer to a permission request is not looked at.
ReadyAllowedUnasked(I) == SUBSET I

ReadyAllowed(I) ==
  {R \in SUBSET I : cur.resumed /\ ~cur.approved => cur.from \notin R}

ImmediateResults(I) == {<<i, "result", CallOf(cur.reply, i)>> : i \in I}

(* _advance_after_tools: close the step, then the next step or the end.     *)
AdvanceAfterTools(rank, events, m) ==
  LET s == cur.step + 1
      o == EffectOp("context", cur.turn, s, cur.attempt)
      next == [cur EXCEPT !.step = s, !.op = o, !.mode = m, !.reply = <<0, 0, 0>>, !.size = 0,
                          !.from = 1, !.ready = {}, !.started = {}, !.resumed = FALSE]
  IN  IF cur.then = "complete"
      THEN KernelStep("done", [cur EXCEPT !.mode = m],
             events \cup {<<rank, "close", cur.op>>} \cup StepFinished(rank + 1, cur)
                    \cup Transition(rank + 2, cur, m))
      ELSE KernelStep("context", next,
             events \cup {<<rank, "close", cur.op>>} \cup StepFinished(rank + 1, cur)
                    \cup {<<rank + 2, "step", <<cur.turn, s>>>>,
                          <<rank + 3, "open", StepOp(cur.turn, s)>>, <<rank + 4, "open", o>>})

(* safety_limit, checked after tools only and never for a command.          *)
\* Mutant: off by one.
LimitReachedLate == cur.then = "context" /\ cur.step > SafetyLimit

LimitReached == cur.then = "context" /\ cur.step >= SafetyLimit

(* What the driver does with tool results: the guards come before the       *)
(* kernel; ProgressGuard may stop the turn on any result.                   *)
AfterTools(rank, events) ==
  \/ Fail(rank, events, {})
  \/ /\ ~LimitReached
     /\ \E m \in Modes : AdvanceAfterTools(rank, events, m)

\* Mutant: a resumed batch announces only what was prepared after the question.
ExecutionStartsNew(rank, ready) ==
  {<<rank + i, "open", CallOp(CallOf(cur.reply, i))>> : i \in ready \ cur.ready}

(* _prepared_tool_started_events *)
ExecutionStarts(rank, ready) ==
  {<<rank + i, "open", CallOp(CallOf(cur.reply, i))>> : i \in ready}

(* Every action is ready or answered, at least one ready: write ahead.      *)
AcceptPrepared(R) ==
  LET I == cur.from .. cur.size
      ready == cur.ready \cup R
      o == EffectOp("tools", cur.turn, cur.step, cur.attempt)
  IN  /\ InEffect("tool_prepare")
      /\ R \in ReadyAllowed(I)
      /\ ready # {}
      /\ KernelStep("tool_execute", [cur EXCEPT !.op = o, !.ready = ready],
           ImmediateResults(I \ R)
           \cup {<<cur.size + 1, "close", cur.op>>}
           \cup ExecutionStarts(cur.size + 1, ready)
           \cup {<<2 * cur.size + 2, "open", o>>})

(* Every action answered at once: no execution.                             *)
AcceptImmediate ==
  /\ InEffect("tool_prepare")
  /\ cur.ready = {}
  /\ AfterTools(cur.size + 1, ImmediateResults(cur.from .. cur.size))

\* Mutant: the checkpoint keeps the answered actions for execution too.
CheckpointAll(k, R) ==
  [id |-> asks + 1, reply |-> cur.reply, size |-> cur.size, at |-> k,
   ready |-> cur.ready \cup R \cup (1 .. (k - 1)), mode |-> cur.mode, then |-> cur.then]

(* The preparation checkpoint of a question raised for action k. *)
CheckpointAt(k, R) ==
  [id |-> asks + 1, reply |-> cur.reply, size |-> cur.size, at |-> k,
   ready |-> cur.ready \cup R, mode |-> cur.mode, then |-> cur.then]

(* _suspend_preparation and _accept_interaction: the checkpoint goes into   *)
(* the pending interaction, and the turn ends here.                         *)
SuspendPreparation(k, R) ==
  LET I == cur.from .. (k - 1)
      p == CheckpointAt(k, R)
  IN  /\ InEffect("tool_prepare")
      /\ asks < MaxAsks
      /\ k \in cur.from .. cur.size
      /\ ~(cur.resumed /\ k = cur.from)
      /\ R \in ReadyAllowed(I)
      /\ KernelStep("done", cur,
           ImmediateResults(I \ R)
           \cup {<<k, "ask", p>>} \cup StepFinished(k + 1, cur)
           \cup {<<k + 2, "close", cur.op>>, <<k + 3, "open", PendingOp(p.id)>>}
           \cup Transition(k + 4, cur, cur.mode))

\* Mutant: actions that were answered without execution run as well.
DispatchableAll == (1 .. cur.size) \ cur.started

(* Every prepared invocation is dispatched once. *)
Dispatchable == cur.ready \ cur.started

(* One prepared invocation is dispatched: its side effect begins.  The      *)
(* invocations of a batch run in any order a mix of serial and parallel     *)
(* sub-batches allows.                                                      *)
RunTool(i) ==
  /\ InEffect("tool_execute")
  /\ i \in Dispatchable
  /\ cur' = [cur EXCEPT !.started = @ \cup {i}]
  /\ ran' = ran \cup {CallOf(cur.reply, i)}
  /\ repeated' = repeated \cup {<<"ran", c>> : c \in ran \cap {CallOf(cur.reply, i)}}
  /\ UNCHANGED <<opsVars, foldVars, aged, ids, phase, outbox, cancel, faults, cut>>

\* Mutant: a discarded invocation gets no result.
ToolResultsOfRun ==
  {<<2 * i, "result", CallOf(cur.reply, i)>> : i \in cur.started}
  \cup {<<2 * i + 1, "close", CallOp(CallOf(cur.reply, i))>> : i \in cur.ready}

(* A result and an end for every invocation, in source order. *)
ToolResults ==
  {<<2 * i, "result", CallOf(cur.reply, i)>> : i \in cur.ready}
  \cup {<<2 * i + 1, "close", CallOp(CallOf(cur.reply, i))>> : i \in cur.ready}

\* Mutant: the end of a batch is noticed only when it is stopped.
BatchOverWhenStopped == cancel

(* Invocations are discarded unrun after a stop, or after a parallel sibling*)
(* failed.                                                                  *)
BatchOver == cancel \/ cur.started # {}

(* execute_prepared returns. *)
FinishTools ==
  LET rank == 2 * cur.size + 2
  IN  /\ EffectDue("tool_execute")
      /\ BatchOver
      /\ IF cancel THEN Fail(rank, ToolResults, {}) ELSE AfterTools(rank, ToolResults)
-----------------------------------------------------------------------------
(* The end of a transaction, and what may end it early.                     *)
End ==
  /\ phase = "done"
  /\ outbox = {}
  /\ Rest
  /\ UNCHANGED <<opsVars, foldVars, aged, ids, worldVars>>

(* The turns that a fault or a stop cuts short: the one that is driven, that *)
(* of its batch, and that of a batch whose end is being recorded.           *)
InDrive == {cur.turn, cur.reply[1]}
           \cup {e[3][2][1] : e \in {e \in outbox : e[2] = "close" /\ e[3][1] = "call"}}

Cut(kind) == cut' = cut \cup {<<kind, t>> : t \in InDrive}

(* An exception nobody turns into a result (a failed append, an observer, a *)
(* tool): the turn frame is interrupted and the transaction ends.  What else*)
(* the frame had open stays open.                                           *)
Raise ==
  /\ phase \in Running
  /\ phase # "begin" \/ cur.input = "command"
  /\ faults < MaxFaults
  /\ faults' = faults + 1
  /\ Cut("fault")
  /\ phase' = "done"
  /\ outbox' = {<<1, "close", TurnOp(cur.turn)>>}
  /\ UNCHANGED <<opsVars, foldVars, aged, ids, cur, cancel, ran, repeated>>

(* A reply of n tool calls that repeats an id: the preflight raises, nothing *)
(* of the reply is appended, and the turn frame is interrupted as above.    *)
RefuseReply(n) ==
  /\ InEffect("provider")
  /\ \E names \in ProviderIds(<<cur.turn, cur.step, cur.attempt>>, n) : ~Preflight(names)
  /\ Raise

(* The process stops and is started again; or an exception outside the turn *)
(* frame, or one that cannot be recorded, ends the transaction.             *)
Crash ==
  /\ phase \in Running
  /\ faults < MaxFaults
  /\ faults' = faults + 1
  /\ Cut("fault")
  /\ Rest
  /\ UNCHANGED <<opsVars, foldVars, aged, ids, ran, repeated>>

(* The user presses stop. *)
Cancel ==
  /\ phase \in {"context", "provider", "tool_prepare", "tool_execute"}
  /\ outbox = {}
  /\ ~cancel
  /\ cancel' = TRUE
  /\ Cut("cancel")
  /\ UNCHANGED <<opsVars, foldVars, aged, ids, phase, cur, outbox, ran, repeated, faults>>

(* More than 300 s pass after an interaction was recorded: seen when the    *)
(* transcript is folded again.                                              *)
Age ==
  /\ phase = "idle"
  /\ asks > 0
  /\ ~aged
  /\ aged' = TRUE
  /\ UNCHANGED <<opsVars, foldVars, processVars, worldVars>>
-----------------------------------------------------------------------------
Init ==
  /\ open = {} /\ closed = {}
  /\ turn = 0 /\ steps = 0
  /\ planned = {} /\ answered = {}
  /\ pending = None /\ asks = 0 /\ asked = {} /\ granted = {}
  /\ mode \in Modes
  /\ aged = FALSE
  /\ ids = 0
  /\ phase = "idle" /\ cur = Parked /\ outbox = {} /\ cancel = FALSE
  /\ ran = {} /\ repeated = {} /\ faults = 0 /\ cut = {}

Input ==
  \/ \E m \in Modes, bootstrap \in BOOLEAN :
       \/ SubmitTurn("user", m, bootstrap)
       \/ SubmitTurn("switch", m, bootstrap)
  \/ SubmitTurn("command", mode, ids = 0)
  \/ \E approved, stop \in BOOLEAN : SubmitReply(approved, stop)
  \/ \E m \in Modes : ApplyHostMode(m)

LoopStep ==
  \/ AppendEvent
  \/ Start
  \/ FinishModeSwitchTurn
  \/ CommandTool
  \/ ResumePreparation
  \/ CheckpointInvalid
  \/ EffectCancelled
  \/ AcceptContext
  \/ AcceptAnswer
  \/ \E n \in 1 .. MaxCalls : AcceptActions(n)
  \/ CompactRetry
  \/ ProviderFails
  \/ \E R \in SUBSET (1 .. MaxCalls) : AcceptPrepared(R)
  \/ AcceptImmediate
  \/ \E k \in 1 .. MaxCalls, R \in SUBSET (1 .. MaxCalls) : SuspendPreparation(k, R)
  \/ \E i \in 1 .. MaxCalls : RunTool(i)
  \/ FinishTools
  \/ End

(* Between transactions the session may be left alone for good. *)
Quiet == phase = "idle" /\ UNCHANGED vars

Next ==
  \/ Input
  \/ LoopStep
  \/ Raise
  \/ \E n \in 1 .. MaxCalls : RefuseReply(n)
  \/ Crash
  \/ Cancel
  \/ Age
  \/ Quiet

Spec == Init /\ [][Next]_vars

(* The driver thread keeps running while a transaction is open, and every   *)
(* effect (provider request, tool) returns or raises in the end.            *)
FairSpec == Spec /\ WF_vars(LoopStep)
-----------------------------------------------------------------------------
(* Properties.                                                              *)

(* Every variable stays in its domain, and the batch the driver works on is *)
(* a batch of the reply it belongs to: no index left over from another one. *)
TypeOK ==
  /\ open \subseteq Op /\ closed \subseteq Op
  /\ turn \in Nat /\ steps \in Nat /\ asks \in Nat /\ ids \in Nat /\ faults \in Nat
  /\ planned \subseteq Call /\ answered \subseteq Call
  /\ asked \subseteq Call /\ granted \subseteq Call
  /\ pending \in Checkpoint \cup {None}
  /\ mode \in Modes
  /\ aged \in BOOLEAN /\ cancel \in BOOLEAN
  /\ phase \in Running \cup {"idle"}
  /\ cur \in Cursor
  /\ cur.started \subseteq cur.ready
  /\ cur.ready \subseteq 1 .. cur.size
  /\ outbox \subseteq Event
  /\ ran \subseteq Call
  /\ repeated \subseteq {"ran", "answered"} \X Call
  /\ cut \subseteq {"fault", "cancel"} \X Nat

(* A tool's side effect begins only after the start of its own call is in   *)
(* the transcript, so that a restored session can tell that it may have run.*)
WriteAhead == \A c \in ran : CallOp(c) \in open \cup closed

(* No tool call is executed twice, and none gets two results in the         *)
(* transcript: not by a batch resumed from its checkpoint after a question, *)
(* not by a turn after a crash (session_input.py:1122).                     *)
NothingTwice == repeated = {}

(* A call the user was asked about runs only if the recorded resolution of  *)
(* the question approved it.                                                *)
Consent == ran \cap asked \subseteq granted

(* While tools run, the calls whose outcome is unknown are those of the     *)
(* batch being run: nothing runs on top of a call a crash left behind.      *)
NothingRunsOverUnknown == InEffect("tool_execute") => Unknown = Batch

(* Between transactions every operation of a turn that no fault cut short   *)
(* has ended; only interactions are left open.                              *)
OpTurn(o) == IF o[1] = "call" THEN o[2][1] ELSE o[2]
OpsClosedAtRest ==
  phase = "idle" =>
    \A o \in open : o[1] = "pending" \/ <<"fault", OpTurn(o)>> \in cut

(* The next event of a step is always one the reducer accepts, by its turn, *)
(* its step and its id: a commit that passed its preflight is not refused   *)
(* half way through.  What can be refused is a reply whose call ids repeat, *)
(* before any of it is appended (RefuseReply).                              *)
ReducerNeverRejects ==
  \A e \in outbox : (\A f \in outbox : e[1] <= f[1]) => Accepts(e)

(* An operation id is started once, the turn's own excepted: the log        *)
(* ignores a second start, and the operation would be missed after a crash. *)
OpIdsFresh ==
  \A e \in outbox :
    e[2] = "open" /\ e[3][1] # "turn" => e[3] \notin open \cup closed

(* The checkpoint of a waiting interaction is unspent: none of the calls it *)
(* still has to prepare or run was run or answered.                         *)
CheckpointUnspent ==
  pending.id # 0 =>
    CallsOf(pending.reply, pending.ready \cup (pending.at .. pending.size))
      \cap (ran \cup answered) = {}

(* When the provider is asked again, every call of the turn has its result, *)
(* unless the turn was cut short before.                                    *)
AnsweredBeforeAsking ==
  InEffect("provider") =>
    \A c \in planned :
      c[1] = cur.turn => c \in answered \/ \E kind \in {"fault", "cancel"} : <<kind, c[1]>> \in cut

(* A turn asks the provider in at most SafetyLimit steps, and one of its    *)
(* drives repeats a request at most once, after a compaction.               *)
ProviderBudget ==
  \A o \in open \cup closed : o[1] = "provider" => o[3] <= SafetyLimit /\ o[4] <= o[3] + 1

(* The calls as ToolLedger counts them: started or ended on record, and lost *)
(* when a started call is no longer in hand.  It is in hand while the driver *)
(* runs its batch or is about to record its end.                            *)
StartedCalls == {c \in planned : CallOp(c) \in open \cup closed}
EndedCalls   == {c \in planned : CallOp(c) \in closed}

InHand(c) ==
  \/ phase = "tool_execute" /\ c \in Batch
  \/ \E e \in outbox : e[2] = "close" /\ e[3] = CallOp(c)

LostCalls == {c \in Unknown : ~InHand(c)}

(* A transaction always comes to its end.                                   *)
TurnEnds == phase \in Running ~> phase = "idle"

(* A session that waits for nothing and whose calls all have an outcome can *)
(* be continued.                                                            *)
SettledSessionContinues == phase = "idle" /\ pending.id = 0 /\ Unknown = {} => Restorable
=============================================================================

---------------------------- MODULE ToolExecutor ----------------------------
(***************************************************************************)
(* One call of AgentToolActionService.execute_prepared: the prepared        *)
(* invocations of a reply are partitioned into sub-batches; invocations that*)
(* are not both read-only and concurrency-safe run one by one in the        *)
(* driver's thread, a sub-batch of the others runs in the threads of a      *)
(* StreamingToolExecutor.  Threads, the driver and the user's stop          *)
(* interleave; a tool may hang, and a thread is never killed.               *)
(***************************************************************************)
EXTENDS Naturals, Sequences, FiniteSets

CONSTANTS
  N,            \* invocations in the effect
  MaxParallel   \* max_parallel_tools

ASSUME ToolExecutorAssumption ==
  /\ N \in Nat \ {0}
  /\ MaxParallel \in Nat \ {0}

VARIABLES
  safe,       \* invocations with read_only and concurrency_safe
  stop,       \* the stop event
  (* execute_prepared, and the generator of the current executor *)
  pc,         \* where the driver's thread is
  lo, hi,     \* the current sub-batch
  started,    \* next action to get a thread (started_count)
  next,       \* next action whose result is delivered (next_result_index)
  pend,       \* pending_results
  updates,    \* the queue of the current executor
  completed,  \* results in the order they were appended
  interrupted, someDiscarded,  \* batch_interrupted, batch_discarded
  discardRemaining,
  (* shared with the threads of an executor, named by its first action *)
  discarded,  \* executors that are discarded
  sibling,    \* executors whose sibling_error is set
  flagged,    \* action_state[i]["started"]
  finished,   \* action_state[i]["finished"]
  (* threads *)
  thread,     \* where the thread of each action is
  outcome     \* what the tool of each action returned

sharedVars == <<discarded, sibling, flagged, finished, thread, outcome>>
resultVars == <<completed, interrupted, someDiscarded, discardRemaining>>
batchVars  == <<lo, hi, started, next, pend>>
vars == <<safe, stop, pc, lo, hi, started, next, pend, updates, completed, interrupted,
          someDiscarded, discardRemaining, discarded, sibling, flagged, finished,
          thread, outcome>>

Actions == 1 .. N
Kind    == {"ok", "failed", "discarded", "interrupted", "timeout"}
-----------------------------------------------------------------------------
(* partition_tool_actions: maximal runs of actions of the same kind.        *)
Together(i, j) == \A k \in i .. j : k \in safe <=> i \in safe

\* Mutant: one sub-batch for everything.
LastOfAll(i) == N

Last(i)  == CHOOSE j \in i .. N : Together(i, j) /\ (j = N \/ ~Together(i, j + 1))
First(i) == CHOOSE j \in 1 .. i : Together(j, i) /\ (j = 1 \/ ~Together(j - 1, i))

Init ==
  /\ safe \in SUBSET Actions
  /\ stop = FALSE
  /\ pc = "pick"
  /\ lo = 0 /\ hi = 0 /\ started = 1 /\ next = 1
  /\ pend = <<>> /\ updates = <<>>
  /\ completed = <<>>
  /\ interrupted = FALSE /\ someDiscarded = FALSE /\ discardRemaining = FALSE
  /\ discarded = {} /\ sibling = {}
  /\ flagged = {} /\ finished = {}
  /\ thread = [i \in Actions |-> "none"]
  /\ outcome = [i \in Actions |-> "none"]

(* append_result *)
AppendResult(i, kind) == completed' = Append(completed, <<i, kind>>)

(* pending_results is a function on the actions that have a result waiting. *)
Waiting(f) == [i \in (DOMAIN pend) \cup (DOMAIN f) |-> IF i \in DOMAIN f THEN f[i] ELSE pend[i]]
-----------------------------------------------------------------------------
(* The driver: the next sub-batch.                                          *)
Done ==
  /\ pc = "pick"
  /\ hi = N
  /\ pc' = "done"
  /\ UNCHANGED <<safe, stop, batchVars, updates, resultVars, sharedVars>>

Batch(a, b) == pc = "pick" /\ hi < N /\ a = hi + 1 /\ b = Last(a)

(* A sub-batch has its own executor, with a queue of its own.               *)
SubBatch(a, b) == lo' = a /\ hi' = b /\ pend' = <<>> /\ updates' = <<>>

DiscardBatch(a, b) ==
  /\ Batch(a, b)
  /\ discardRemaining
  /\ completed' = completed \o [k \in 1 .. b - a + 1 |-> <<hi + k, "discarded">>]
  /\ SubBatch(a, b)
  /\ UNCHANGED <<safe, stop, pc, started, next, interrupted, someDiscarded,
                 discardRemaining, sharedVars>>

\* Mutant: a thread for every action.
FirstThreadsAll(a, b) == a .. b

(* The threads started before the first update is awaited. *)
FirstThreads(a, b) == {i \in a .. b : i < a + MaxParallel}

StartParallel(a, b) ==
  /\ Batch(a, b)
  /\ ~discardRemaining
  /\ a \in safe /\ a < b
  /\ pc' = "get"
  /\ SubBatch(a, b)
  /\ next' = a
  /\ started' = a + Cardinality(FirstThreads(a, b))
  /\ thread' = [i \in Actions |-> IF i \in FirstThreads(a, b) THEN "new" ELSE thread[i]]
  /\ interrupted' = FALSE /\ someDiscarded' = FALSE
  /\ UNCHANGED <<safe, stop, completed, discardRemaining, discarded, sibling, flagged,
                 finished, outcome>>

StartSerial(a, b) ==
  /\ Batch(a, b)
  /\ ~discardRemaining
  /\ ~(a \in safe /\ a < b)
  /\ pc' = "serial"
  /\ SubBatch(a, b)
  /\ next' = a
  /\ UNCHANGED <<safe, stop, started, resultVars, sharedVars>>
-----------------------------------------------------------------------------
(* Serial actions run in the driver's thread.                               *)
SerialOver(kind) ==
  /\ AppendResult(next, kind)
  /\ next' = next + 1
  /\ pc' = IF next = hi THEN "pick" ELSE "serial"
  /\ UNCHANGED <<safe, stop, lo, hi, started, pend, updates, interrupted, someDiscarded>>

SerialDiscard ==
  /\ pc = "serial"
  /\ stop
  /\ SerialOver("discarded")
  /\ discardRemaining' = TRUE
  /\ UNCHANGED sharedVars

(* on_action_start *)
SerialAnnounce ==
  /\ pc = "serial"
  /\ ~stop
  /\ pc' = "dispatch"
  /\ UNCHANGED <<safe, stop, batchVars, updates, resultVars, sharedVars>>

SerialInterrupt ==
  /\ pc = "dispatch"
  /\ stop
  /\ SerialOver("interrupted")
  /\ discardRemaining' = TRUE
  /\ UNCHANGED sharedVars

SerialDispatch ==
  /\ pc = "dispatch"
  /\ ~stop
  /\ pc' = "tool"
  /\ thread' = [thread EXCEPT ![next] = "running"]
  /\ UNCHANGED <<safe, stop, batchVars, updates, resultVars, discarded, sibling, flagged,
                 finished, outcome>>

SerialReturn(kind) ==
  /\ pc = "tool"
  /\ kind = "interrupted" => stop
  /\ SerialOver(kind)
  /\ discardRemaining' = (discardRemaining \/ kind = "interrupted")
  /\ thread' = [thread EXCEPT ![next] = "over"]
  /\ outcome' = [outcome EXCEPT ![next] = kind]
  /\ UNCHANGED <<discarded, sibling, flagged, finished>>

(* An exception _dispatch_prepared does not catch leaves execute_prepared.  *)
SerialRaise ==
  /\ pc = "tool"
  /\ pc' = "raised"
  /\ thread' = [thread EXCEPT ![next] = "over"]
  /\ UNCHANGED <<safe, stop, batchVars, updates, resultVars, discarded, sibling, flagged,
                 finished, outcome>>
-----------------------------------------------------------------------------
(* The generator _run_parallel, and the loop of execute_prepared over it.   *)
GetStart ==
  /\ pc = "get"
  /\ updates # <<>> /\ Head(updates)[2] = "start"
  /\ updates' = Tail(updates)
  /\ interrupted' = (interrupted \/ stop)
  /\ discarded' = IF stop THEN discarded \cup {lo} ELSE discarded
  /\ UNCHANGED <<safe, stop, pc, batchVars, completed, someDiscarded, discardRemaining,
                 sibling, flagged, finished, thread, outcome>>

GetResult ==
  /\ pc = "get"
  /\ updates # <<>> /\ Head(updates)[2] # "start"
  /\ updates' = Tail(updates)
  /\ pend' = Waiting([i \in {Head(updates)[1]} |-> Head(updates)[2]])
  /\ pc' = "deliver"
  /\ UNCHANGED <<safe, stop, lo, hi, started, next, resultVars, sharedVars>>

(* The queue is empty for a poll interval.  A poll that finds neither the   *)
(* stop event nor the idle deadline is left out: it changes nothing.        *)
PollEmpty ==
  /\ pc = "get"
  /\ updates = <<>>
  /\ pc' = "poll"
  /\ UNCHANGED <<safe, stop, batchVars, updates, resultVars, sharedVars>>

\* Mutant: actions of other sub-batches are given up too.
FinalizeAll(kind) ==
  [i \in Actions \ finished |-> IF i \in flagged THEN kind ELSE "discarded"]

\* Mutant: only actions without a thread are given up.
FinalizeUnstarted(kind) ==
  [i \in (lo .. hi) \ (finished \cup flagged) |-> "discarded"]

(* _finalize_incomplete_updates *)
Finalize(kind) ==
  [i \in (lo .. hi) \ finished |-> IF i \in flagged THEN kind ELSE "discarded"]

GiveUp ==
  LET given == Finalize(IF stop THEN "interrupted" ELSE "timeout")
  IN  /\ pc = "poll"
      /\ discarded' = discarded \cup {lo}
      /\ finished' = finished \cup DOMAIN given
      /\ pend' = Waiting(given)
      /\ pc' = IF given = <<>> THEN "get" ELSE "deliver"
      /\ UNCHANGED <<safe, stop, lo, hi, started, next, updates, resultVars, sibling,
                     flagged, thread, outcome>>

\* Mutant: results are delivered as they come.
DeliverableAny == {i \in DOMAIN pend : next <= hi}

(* The next result in source order, when it is there. *)
Deliverable == {i \in DOMAIN pend : i = next}

Deliver(i) ==
  LET stopped == interrupted \/ stop
      kind    == IF stopped /\ pend[i] # "discarded" THEN "interrupted" ELSE pend[i]
  IN  /\ pc = "deliver"
      /\ i \in Deliverable
      /\ interrupted' = stopped
      /\ AppendResult(i, kind)
      /\ someDiscarded' = (someDiscarded \/ kind = "discarded")
      /\ pend' = [j \in (DOMAIN pend) \ {i} |-> pend[j]]
      /\ next' = next + 1
      /\ pc' = "advance"
      /\ UNCHANGED <<safe, stop, lo, hi, started, updates, discardRemaining, sharedVars>>

(* After a delivery: discard what has no thread yet, or start the next.     *)
Advance ==
  /\ pc = "advance"
  /\ pc' = "deliver"
  /\ IF lo \in sibling \cup discarded
     THEN /\ discarded' = discarded \cup {lo}
          /\ pend' = Waiting([i \in started .. hi |-> "discarded"])
          /\ started' = hi + 1
          /\ UNCHANGED thread
     ELSE /\ started' = IF started <= hi THEN started + 1 ELSE started
          /\ thread' = [i \in Actions |-> IF i = started /\ i <= hi THEN "new" ELSE thread[i]]
          /\ UNCHANGED <<discarded, pend>>
  /\ UNCHANGED <<safe, stop, lo, hi, next, updates, resultVars, sibling, flagged, finished,
                 outcome>>

AwaitMore ==
  /\ pc = "deliver"
  /\ next <= hi
  /\ Deliverable = {}
  /\ pc' = "get"
  /\ UNCHANGED <<safe, stop, batchVars, updates, resultVars, sharedVars>>

\* Mutant: what was discarded does not stop the sub-batches after it.
DiscardsRestNever == discardRemaining

(* discard_remaining after a parallel sub-batch *)
DiscardsRest == discardRemaining \/ someDiscarded

(* All results of the sub-batch are in; the threads are joined for at most  *)
(* join_timeout_seconds each, which waits for nothing.                      *)
EndParallel ==
  /\ pc = "deliver"
  /\ next > hi
  /\ pc' = "pick"
  /\ discardRemaining' = DiscardsRest
  /\ UNCHANGED <<safe, stop, batchVars, updates, completed, interrupted, someDiscarded, sharedVars>>
-----------------------------------------------------------------------------
(* The thread of an action.  Its executor may be gone: nobody reads the     *)
(* queue of a sub-batch that is over.                                       *)
Put(i, kind) == updates' = IF First(i) = lo THEN Append(updates, <<i, kind>>) ELSE updates

driverVars == <<safe, stop, pc, batchVars, resultVars>>

RunnerDiscards(i) ==
  /\ thread[i] = "new"
  /\ First(i) \in discarded \cup sibling \/ stop
  /\ Put(i, "discarded")
  /\ thread' = [thread EXCEPT ![i] = "over"]
  /\ UNCHANGED <<driverVars, discarded, sibling, flagged, finished, outcome>>

RunnerPasses(i) ==
  /\ thread[i] = "new"
  /\ ~(First(i) \in discarded \cup sibling \/ stop)
  /\ thread' = [thread EXCEPT ![i] = "passed"]
  /\ UNCHANGED <<driverVars, updates, discarded, sibling, flagged, finished, outcome>>

RunnerFlags(i) ==
  /\ thread[i] = "passed"
  /\ flagged' = flagged \cup {i}
  /\ thread' = [thread EXCEPT ![i] = "flagged"]
  /\ UNCHANGED <<driverVars, updates, discarded, sibling, finished, outcome>>

RunnerExecutes(i) ==
  /\ thread[i] = "flagged"
  /\ Put(i, "start")
  /\ thread' = [thread EXCEPT ![i] = "running"]
  /\ UNCHANGED <<driverVars, discarded, sibling, flagged, finished, outcome>>

InThread(i) == thread[i] = "running" /\ ~(pc = "tool" /\ i = next)

(* The tool returns, or raises one of the exceptions that count as failure. *)
ToolReturns(i, kind) ==
  /\ InThread(i)
  /\ outcome' = [outcome EXCEPT ![i] = kind]
  /\ thread' = [thread EXCEPT ![i] = "returned"]
  /\ UNCHANGED <<driverVars, updates, discarded, sibling, flagged, finished>>

(* Any other exception ends the thread without a word. *)
ToolDies(i) ==
  /\ InThread(i)
  /\ thread' = [thread EXCEPT ![i] = "over"]
  /\ UNCHANGED <<driverVars, updates, discarded, sibling, flagged, finished, outcome>>

RunnerFinishes(i) ==
  /\ thread[i] = "returned"
  /\ finished' = finished \cup {i}
  /\ thread' = [thread EXCEPT ![i] = "finished"]
  /\ UNCHANGED <<driverVars, updates, discarded, sibling, flagged, outcome>>

RunnerPuts(i) ==
  /\ thread[i] = "finished"
  /\ Put(i, outcome[i])
  /\ thread' = [thread EXCEPT ![i] = IF outcome[i] = "ok" THEN "over" ELSE "put"]
  /\ UNCHANGED <<driverVars, discarded, sibling, flagged, finished, outcome>>

(* sibling_error, set after the failed result is in the queue. *)
RunnerWarns(i) ==
  /\ thread[i] = "put"
  /\ sibling' = sibling \cup {First(i)}
  /\ thread' = [thread EXCEPT ![i] = "over"]
  /\ UNCHANGED <<driverVars, updates, discarded, flagged, finished, outcome>>

Stop ==
  /\ ~stop
  /\ pc \notin {"done", "raised"}
  /\ stop' = TRUE
  /\ UNCHANGED <<safe, pc, batchVars, updates, resultVars, sharedVars>>
-----------------------------------------------------------------------------
DriverStep ==
  \/ Done
  \/ \E a, b \in Actions : DiscardBatch(a, b) \/ StartParallel(a, b) \/ StartSerial(a, b)
  \/ SerialDiscard
  \/ SerialAnnounce
  \/ SerialInterrupt
  \/ SerialDispatch
  \/ \E kind \in {"ok", "failed", "interrupted"} : SerialReturn(kind)
  \/ SerialRaise
  \/ GetStart
  \/ GetResult
  \/ PollEmpty
  \/ GiveUp
  \/ \E i \in Actions : Deliver(i)
  \/ Advance
  \/ AwaitMore
  \/ EndParallel

RunnerStep(i) ==
  \/ RunnerDiscards(i)
  \/ RunnerPasses(i)
  \/ RunnerFlags(i)
  \/ RunnerExecutes(i)
  \/ RunnerFinishes(i)
  \/ RunnerPuts(i)
  \/ RunnerWarns(i)

ToolStep(i) == ToolDies(i) \/ \E kind \in {"ok", "failed"} : ToolReturns(i, kind)

(* execute_prepared is over; threads it left behind may go on. *)
Over == pc \in {"done", "raised"} /\ UNCHANGED vars

Next ==
  \/ DriverStep
  \/ \E i \in Actions : RunnerStep(i) \/ ToolStep(i)
  \/ Stop
  \/ Over

Spec == Init /\ [][Next]_vars

(* The driver and the runner code of every thread keep going, a serial tool *)
(* returns; nothing is asked of a tool that runs in a thread.               *)
FairSpec == Spec /\ WF_vars(DriverStep) /\ \A i \in Actions : WF_vars(RunnerStep(i))
-----------------------------------------------------------------------------
(* Properties.                                                              *)

TypeOK ==
  /\ safe \subseteq Actions
  /\ stop \in BOOLEAN
  /\ pc \in {"pick", "serial", "dispatch", "tool", "get", "poll", "deliver", "advance",
             "done", "raised"}
  /\ lo \in 0 .. N /\ hi \in 0 .. N
  /\ started \in 1 .. N + 1 /\ next \in 1 .. N + 1
  /\ DOMAIN pend \subseteq lo .. hi
  /\ \A i \in DOMAIN pend : pend[i] \in Kind
  /\ \A k \in 1 .. Len(updates) : updates[k] \in (lo .. hi) \X (Kind \cup {"start"})
  /\ \A k \in 1 .. Len(completed) : completed[k] \in Actions \X Kind
  /\ interrupted \in BOOLEAN /\ someDiscarded \in BOOLEAN /\ discardRemaining \in BOOLEAN
  /\ discarded \subseteq Actions /\ sibling \subseteq Actions
  /\ flagged \subseteq Actions /\ finished \subseteq Actions
  /\ thread \in [Actions -> {"none", "new", "passed", "flagged", "running", "returned",
                             "finished", "put", "over"}]
  /\ outcome \in [Actions -> {"none", "ok", "failed", "interrupted"}]

Results(i) == {k \in 1 .. Len(completed) : completed[k][1] = i}

(* Every invocation gets exactly one result: a late answer of a tool that   *)
(* was given up is not a second one, and it takes nobody else's place.      *)
OneResultEach ==
  \A i \in Actions :
    /\ Cardinality(Results(i)) <= 1
    /\ pc = "done" => Results(i) # {}

RunningNow == {i \in Actions : thread[i] = "running"}

(* No sub-batch runs more than MaxParallel tools at a time. *)
ParallelLimit ==
  \A a \in Actions : Cardinality({i \in RunningNow : First(i) = a}) <= MaxParallel

Told(i, kind) == \E k \in Results(i) : completed[k][2] = kind

(* While a tool that may write runs, no other runs, but for readers that    *)
(* were reported as timed out.                                              *)
WriterAlone ==
  \A i \in RunningNow \ safe : \A j \in RunningNow \ {i} : Told(j, "timeout")

(* Once an invocation was discarded, so are all of the later sub-batches.   *)
NothingAfterDiscard ==
  \A k, l \in 1 .. Len(completed) :
    /\ completed[k][2] = "discarded"
    /\ First(completed[k][1]) < First(completed[l][1])
    => completed[l][2] = "discarded"

(* The batch comes to its end, whatever its threads do. *)
BatchEnds == <>(pc \in {"done", "raised"})

(* A result that says an invocation was discarded is not of one that runs.  *)
DiscardedNeverRan == \A i \in Actions : Told(i, "discarded") => thread[i] # "running"
=============================================================================

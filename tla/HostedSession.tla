--------------------------- MODULE HostedSession ---------------------------
(* One hosted session: a ManagedSession and the threads that work on it.    *)
(* Front ends call from threads of their own (Callers) to submit a message, *)
(* run a slash command, answer a question, cancel or change the mode; turns *)
(* and resumed turns run in threads the host starts (Workers).  The fields  *)
(* of ManagedSession are shared under its lock, the durable session is      *)
(* shared under a lease that is refused, not waited for.                    *)
EXTENDS Naturals, FiniteSets

CONSTANTS
  Callers,      \* front-end threads
  Workers,      \* threads the host may start
  None,         \* no thread
  MaxCalls,     \* bound: calls of the front ends
  MaxAsks,      \* bound: questions asked
  MaxFaults     \* bound: failures and restarts

ASSUME HostAssumption ==
  /\ Callers \cap Workers = {}
  /\ None \notin Callers \cup Workers
  /\ {MaxCalls, MaxAsks, MaxFaults} \subseteq Nat

Threads == Callers \cup Workers

VARIABLES
  \* The durable session: its pending interaction, and who holds the lease.
  pending, lease,
  \* ManagedSession
  status, ticket, claim, event, response, active, resume, stop, projection,
  \* Threads: where each is, and the events of commands that are set.
  th, woken,
  \* Inputs so far, questions answered with the reply each was given, whether
  \* operations got in each other's way, and questions whose accepted reply
  \* the host dropped.
  calls, asks, faults, answers, disturbed, dropped

coreVars    == <<pending, lease>>
ticketVars  == <<ticket, claim, event, response>>
workVars    == <<active, resume>>
countVars   == <<calls, asks, faults>>
historyVars == <<answers, disturbed, dropped>>

vars == <<pending, lease, status, ticket, claim, event, response, active, resume, stop,
          projection, th, woken, calls, asks, faults, answers, disturbed, dropped>>

(* at: the next step; kind: what for; names: the question a reply is for, or*)
(* the event a command waits for; pid: the id sent to the core; seen: what  *)
(* the last transaction of the thread left pending; peer: a thread it       *)
(* starts; out: how its turn ended.                                         *)
Steps == {
  "idle", "new",
  "submit", "register", "launch",                                      \* submit_user_message
  "claim", "signal", "schedule", "start",                              \* respond_to_interaction
  "await", "own",                                                      \* resume coordinator
  "unstop",                                                            \* cancel_session
  "enter", "clear", "core", "resolve", "work", "ask",                  \* _run_turn_active
  "snapshot", "release", "apply", "settle", "fail",
  "command", "cmdcore", "cmdwork", "cmdask", "cmdcommit", "cmdshow",   \* a command with a tool
  "cmdwaiting", "cmdresume", "cmdanswer", "cmdapply"}

Kinds == {"none", "wait", "background", "command", "reply", "refusal", "mode"}

Thread == [at : Steps, kind : Kinds, names : Nat, pid : Nat, seen : Nat,
           peer : Threads \cup {None}, out : {"none", "wait", "done"}]

Idle == [at |-> "idle", kind |-> "none", names |-> 0, pid |-> 0, seen |-> 0,
         peer |-> None, out |-> "none"]

Alive(t) == t \in Callers \/ th[t].at \notin {"idle", "new"}
Occupied == active # None /\ Alive(active)

At(t, step)   == th[t].at = step
Goto(t, step) == th' = [th EXCEPT ![t].at = step]

(* A front end makes a call from a thread that is free. *)
Called(c) ==
  /\ At(c, "idle")
  /\ calls < MaxCalls
  /\ calls' = calls + 1

(* A thread object nobody refers to any more. *)
FreshWorkers == {w \in Workers : At(w, "idle") /\ w \notin {active, resume}}
NewWorker    == CHOOSE w \in FreshWorkers : TRUE

(* What counts as getting in the way: an operation that begins to work on   *)
(* the session while another one does.  A reply to a question may come while*)
(* the turn that asked it is still on its way out.  So does a question that *)
(* is offered again although its turn failed to record it.                  *)
InProgress == {t \in Threads : th[t].at \notin {"idle", "claim"}}

OnItsWayOut(t) ==
  th[t].at \in {"ask", "cmdcommit", "cmdshow", "cmdwaiting"} \/ th[t].out = "wait"

Begins       == disturbed' = (disturbed \/ InProgress # {})
BeginsAnswer == disturbed' = (disturbed \/ \E t \in InProgress : ~OnItsWayOut(t))
-----------------------------------------------------------------------------
(* submit_user_message: the check, and later the registration.              *)
Submit(c, kind) ==
  /\ Called(c)
  /\ ~Occupied
  /\ stop' = FALSE
  /\ th' = [th EXCEPT ![c].at = IF kind = "command" THEN "command" ELSE "submit",
                      ![c].kind = kind]
  /\ Begins
  /\ UNCHANGED <<coreVars, status, ticketVars, workVars, projection, woken, asks, faults, answers, dropped>>

MarkRunning(c) ==
  /\ At(c, "submit")
  /\ status' = "running"
  /\ Goto(c, "register")
  /\ UNCHANGED <<coreVars, ticketVars, workVars, stop, projection, woken, countVars, historyVars>>

\* Mutant: the caller is registered as the wrong thread.
RunHereAsResume(c) ==
  /\ At(c, "register")
  /\ th[c].kind = "wait"
  /\ resume' = c
  /\ Goto(c, "clear")
  /\ UNCHANGED <<coreVars, status, ticketVars, active, stop, projection, woken, countVars,
                 historyVars>>

(* wait=True: the turn runs in the caller. *)
RunHere(c) ==
  /\ At(c, "register")
  /\ th[c].kind = "wait"
  /\ active' = c
  /\ Goto(c, "clear")
  /\ UNCHANGED <<coreVars, status, ticketVars, resume, stop, projection, woken, countVars,
                 historyVars>>

(* wait=False: the thread is registered before it is started. *)
RegisterTurn(c) ==
  /\ At(c, "register")
  /\ th[c].kind = "background"
  /\ FreshWorkers # {}
  /\ active' = NewWorker
  /\ th' = [th EXCEPT ![c].at = "launch", ![c].peer = NewWorker,
                      ![NewWorker].at = "new", ![NewWorker].kind = "background"]
  /\ UNCHANGED <<coreVars, status, ticketVars, resume, stop, projection, woken, countVars,
                 historyVars>>

LaunchTurn(c) ==
  /\ At(c, "launch")
  /\ th' = [th EXCEPT ![c] = Idle, ![th[c].peer].at = "clear"]
  /\ UNCHANGED <<coreVars, status, ticketVars, workVars, stop, projection, woken, countVars,
                 historyVars>>

(* Thread.start raises out of submit_user_message. *)
LaunchFails(c) ==
  /\ At(c, "launch")
  /\ faults < MaxFaults
  /\ faults' = faults + 1
  /\ th' = [th EXCEPT ![c] = Idle, ![th[c].peer] = Idle]
  /\ disturbed' = TRUE
  /\ UNCHANGED <<coreVars, status, ticketVars, workVars, stop, projection, woken, calls, asks,
                 answers, dropped>>
-----------------------------------------------------------------------------
(* respond_to_interaction: read the ticket, then claim it.                  *)
Respond(c) ==
  /\ Called(c)
  /\ ticket # 0
  /\ th' = [th EXCEPT ![c].at = "claim", ![c].kind = "reply", ![c].names = ticket]
  /\ UNCHANGED <<coreVars, status, ticketVars, workVars, stop, projection, woken, asks, faults,
                 historyVars>>

\* Mutant: what was read before the lock is trusted.
ClaimTrusting(c) ==
  /\ At(c, "claim")
  /\ claim' = th[c].names
  /\ ticket' = 0
  /\ status' = "running"
  /\ th' = [th EXCEPT ![c].at = IF event # 0 THEN "signal" ELSE "schedule", ![c].pid = event]
  /\ BeginsAnswer
  /\ UNCHANGED <<coreVars, event, response, workVars, stop, projection, woken, countVars, answers, dropped>>

(* _claim_pending_interaction: a command's question has an event to set.    *)
Claim(c) ==
  /\ At(c, "claim")
  /\ claim = 0
  /\ ticket = th[c].names
  /\ claim' = ticket
  /\ ticket' = 0
  /\ status' = "running"
  /\ th' = [th EXCEPT ![c].at = IF event # 0 THEN "signal" ELSE "schedule", ![c].pid = event]
  /\ BeginsAnswer
  /\ UNCHANGED <<coreVars, event, response, workVars, stop, projection, woken, countVars, answers, dropped>>

ClaimRefused(c) ==
  /\ At(c, "claim")
  /\ claim # 0 \/ ticket # th[c].names
  /\ th' = [th EXCEPT ![c] = Idle]
  /\ UNCHANGED <<coreVars, status, ticketVars, workVars, stop, projection, woken, countVars,
                 historyVars>>

Decide(d) ==
  /\ response' = d
  /\ stop' = (stop \/ d = "cancelled")

(* The command's own thread goes on. *)
SignalCommand(c) ==
  /\ At(c, "signal")
  /\ \E d \in {"given", "cancelled"} : Decide(d)
  /\ woken' = woken \cup {th[c].pid}
  /\ th' = [th EXCEPT ![c] = Idle]
  /\ UNCHANGED <<coreVars, status, ticket, claim, event, workVars, projection, countVars,
                 historyVars>>

(* The reply is noted and _start_resume_worker makes the thread, registered *)
(* as the active one only if there is none.                                 *)
ScheduleResume(c) ==
  /\ At(c, "schedule")
  /\ FreshWorkers # {}
  /\ \E d \in {"given", "cancelled"} : Decide(d)
  /\ resume' = NewWorker
  /\ active' = IF Occupied THEN active ELSE NewWorker
  /\ status' = "running"
  /\ th' = [th EXCEPT ![c].at = "start", ![c].peer = NewWorker,
                      ![NewWorker].at = "new", ![NewWorker].kind = "reply",
                      ![NewWorker].names = th[c].names]
  /\ UNCHANGED <<coreVars, ticket, claim, event, projection, woken, countVars, historyVars>>

StartResume(c) ==
  /\ At(c, "start")
  /\ th' = [th EXCEPT ![c] = Idle, ![th[c].peer].at = "await"]
  /\ UNCHANGED <<coreVars, status, ticketVars, workVars, stop, projection, woken, countVars,
                 historyVars>>

\* Mutant: the question is offered again, its claim is not given up.
OfferAgainClaimed(w, question) ==
  /\ resume' = None
  /\ active' = IF active = w THEN None ELSE active
  /\ ticket' = question
  /\ status' = "waiting"
  /\ UNCHANGED claim

(* What _start_resume_worker takes back when its thread does not start. *)
OfferAgain(w, question) ==
  /\ resume' = None
  /\ active' = IF active = w THEN None ELSE active
  /\ claim' = 0
  /\ ticket' = question
  /\ status' = "waiting"

(* The question is durable, or its turn is about to record it.              *)
Recorded(question) ==
  question = pending \/ \E t \in Threads : At(t, "ask") /\ th[t].seen = question

(* Thread.start raises. *)
StartFails(c) ==
  LET w == th[c].peer
  IN  /\ At(c, "start")
      /\ faults < MaxFaults
      /\ faults' = faults + 1
      /\ th' = [th EXCEPT ![c] = Idle, ![w] = Idle]
      /\ IF resume = w THEN OfferAgain(w, th[c].names)
                       ELSE UNCHANGED <<resume, active, claim, ticket, status>>
      /\ disturbed' = (disturbed \/ ~Recorded(th[c].names))
      /\ UNCHANGED <<coreVars, event, response, stop, projection, woken, calls, asks, answers, dropped>>
-----------------------------------------------------------------------------
(* _run_resume_coordinator.  A worker that ends forgets itself as resume    *)
(* thread.                                                                  *)
WorkerEnds(w) ==
  /\ th' = [th EXCEPT ![w] = Idle]
  /\ resume' = IF resume = w THEN None ELSE resume

ActiveElsewhere(w) == Occupied /\ active # w

(* _wait_for_active_submit_release *)
Released(w) ==
  /\ At(w, "await")
  /\ ~ActiveElsewhere(w)
  /\ Goto(w, "own")
  /\ UNCHANGED <<coreVars, status, ticketVars, workVars, stop, projection, woken, countVars,
                 historyVars>>

(* The thread that was active lives on for five seconds: the accepted reply *)
(* is dropped, and neither its claim nor its question is given back.  That  *)
(* thread may be the one of the very turn that asked.                       *)
GiveUp(w) ==
  /\ At(w, "await")
  /\ ActiveElsewhere(w)
  /\ WorkerEnds(w)
  /\ dropped' = dropped \cup {th[w].names}
  /\ UNCHANGED <<coreVars, status, ticketVars, active, stop, projection, woken, countVars,
                 answers, disturbed>>

OwnTurn(w) ==
  /\ At(w, "own")
  /\ IF claim = th[w].names /\ ~ActiveElsewhere(w)
     THEN /\ active' = w
          /\ status' = "running"
          /\ Goto(w, "enter")
          /\ UNCHANGED resume
     ELSE WorkerEnds(w) /\ UNCHANGED <<active, status>>
  /\ UNCHANGED <<coreVars, ticketVars, stop, projection, woken, countVars, historyVars>>
-----------------------------------------------------------------------------
(* _run_turn_active.  A resumed turn asks the projection which question it  *)
(* is for, and only then the ticket; it looks before it takes the lock.     *)
Enter(t) ==
  /\ At(t, "enter")
  /\ th' = [th EXCEPT ![t].at = "clear",
                      ![t].pid = IF projection # 0 THEN projection ELSE ticket]
  /\ UNCHANGED <<coreVars, status, ticketVars, workVars, stop, projection, woken, countVars,
                 historyVars>>

Clear(t) ==
  /\ At(t, "clear")
  /\ status' = "running"
  /\ ticket' = 0 /\ claim' = 0 /\ event' = 0 /\ response' = "none"
  /\ Goto(t, "core")
  /\ UNCHANGED <<coreVars, workVars, stop, projection, woken, countVars, historyVars>>

Resumes(t) == th[t].kind \in {"reply", "refusal"}

(* The transaction begins: the lease is held by another, or taken. *)
EnterCore(t) ==
  /\ At(t, "core")
  /\ IF lease # None \/ (Resumes(t) /\ th[t].pid = 0)
     THEN Goto(t, "fail") /\ UNCHANGED lease
     ELSE Goto(t, IF Resumes(t) THEN "resolve" ELSE "work") /\ lease' = t
  /\ UNCHANGED <<pending, status, ticketVars, workVars, stop, projection, woken, countVars,
                 historyVars>>

(* InteractionReply is refused unless it is for the pending interaction. *)
Resolve(t) ==
  /\ At(t, "resolve")
  /\ IF pending = th[t].pid
     THEN /\ pending' = 0
          /\ answers' = IF th[t].kind = "reply"
                        THEN answers \cup {<<pending, th[t].names>>} ELSE answers
          /\ Goto(t, "work")
          /\ UNCHANGED lease
     ELSE Goto(t, "fail") /\ lease' = None /\ UNCHANGED <<pending, answers, dropped>>
  /\ UNCHANGED <<status, ticketVars, workVars, stop, projection, woken, countVars, disturbed, dropped>>

(* create_permission_ticket, create_user_input_ticket: the question is      *)
(* offered before it is durable.                                            *)
Offer ==
  /\ asks < MaxAsks
  /\ asks' = asks + 1
  /\ ticket' = asks + 1
  /\ claim' = 0
  /\ response' = "none"

(* A turn asks only while it is not cancelled; the refusal that cancel sends*)
(* is cancelled from the start.                                             *)
Ask(t) ==
  /\ At(t, "work")
  /\ th[t].kind # "refusal" /\ ~stop
  /\ Offer
  /\ th' = [th EXCEPT ![t].at = "ask", ![t].seen = asks + 1, ![t].out = "wait"]
  /\ UNCHANGED <<coreVars, status, event, workVars, stop, projection, woken, calls, faults,
                 historyVars>>

(* The question is recorded and the transaction ends. *)
Suspend(t) ==
  /\ At(t, "ask")
  /\ pending' = th[t].seen
  /\ lease' = None
  /\ Goto(t, "snapshot")
  /\ UNCHANGED <<status, ticketVars, workVars, stop, projection, woken, countVars, historyVars>>

EndTurn(t) ==
  /\ At(t, "work")
  /\ lease' = None
  /\ th' = [th EXCEPT ![t].at = "snapshot", ![t].out = "done"]
  /\ UNCHANGED <<pending, status, ticketVars, workVars, stop, projection, woken, countVars,
                 historyVars>>

(* The transaction raises: an append, a checkpoint of another mode, a tool. *)
CoreRaises(t) ==
  /\ th[t].at \in {"resolve", "work", "ask"}
  /\ faults < MaxFaults
  /\ faults' = faults + 1
  /\ lease' = None
  /\ Goto(t, "fail")
  /\ UNCHANGED <<pending, status, ticketVars, workVars, stop, projection, woken, calls, asks,
                 historyVars>>

(* Calls that end with a transaction of their own: set_session_mode, and a  *)
(* command that records its result.                                         *)
EndsWithRecord(t) == th[t].kind \in {"mode", "command"}

(* hosted_session.snapshot() after the turn, or the last transaction of such*)
(* a call: another transaction, whose result is applied after it.           *)
Snapshot(t) ==
  /\ At(t, "snapshot")
  /\ IF lease = None
     THEN lease' = t /\ th' = [th EXCEPT ![t].at = "release", ![t].seen = pending]
     ELSE /\ th' = IF EndsWithRecord(t) THEN [th EXCEPT ![t] = Idle]
                   ELSE [th EXCEPT ![t].at = "fail"]
          /\ UNCHANGED lease
  /\ UNCHANGED <<pending, status, ticketVars, workVars, stop, projection, woken, countVars,
                 historyVars>>

ReleaseSnapshot(t) ==
  /\ At(t, "release")
  /\ lease' = None
  /\ Goto(t, "apply")
  /\ UNCHANGED <<pending, status, ticketVars, workVars, stop, projection, woken, countVars,
                 historyVars>>

ApplyProjection(t) ==
  /\ At(t, "apply")
  /\ projection' = th[t].seen
  /\ th' = IF EndsWithRecord(t) THEN [th EXCEPT ![t] = Idle] ELSE [th EXCEPT ![t].at = "settle"]
  /\ UNCHANGED <<coreVars, status, ticketVars, workVars, stop, woken, countVars, historyVars>>

\* Mutant: a turn that waits drops the claim too, like the other two ends.
EndWithUnclaimed(out) ==
  /\ status' = IF out = "wait" THEN "waiting" ELSE "idle"
  /\ claim' = 0

(* A turn that waits leaves the claim of a reply that came already. *)
EndWith(out) ==
  IF out = "wait" THEN status' = "waiting" /\ UNCHANGED claim
                  ELSE status' = "idle" /\ claim' = 0

(* The end of a turn. *)
Settle(t) ==
  /\ At(t, "settle")
  /\ active' = None
  /\ EndWith(th[t].out)
  /\ WorkerEnds(t)
  /\ UNCHANGED <<coreVars, ticket, event, response, stop, projection, woken, countVars,
                 historyVars>>

(* The except clause. *)
Fail(t) ==
  /\ At(t, "fail")
  /\ status' = "error"
  /\ active' = None
  /\ claim' = 0
  /\ WorkerEnds(t)
  /\ UNCHANGED <<coreVars, ticket, event, response, stop, projection, woken, countVars,
                 historyVars>>

SetMode(c) ==
  /\ Called(c)
  /\ th' = [th EXCEPT ![c].at = "snapshot", ![c].kind = "mode"]
  /\ Begins
  /\ UNCHANGED <<coreVars, status, ticketVars, workVars, stop, projection, woken, asks, faults,
                 answers, dropped>>
-----------------------------------------------------------------------------
(* cancel_session *)
StatusAfterCancel ==
  IF status = "error" THEN "error" ELSE IF Occupied THEN "running" ELSE "idle"

CancelTurn(c) ==
  /\ Called(c)
  /\ ticket = 0
  /\ stop' = TRUE
  /\ status' = StatusAfterCancel
  /\ UNCHANGED <<coreVars, ticketVars, workVars, projection, th, woken, asks, faults, historyVars>>

CancelCommand(c) ==
  /\ Called(c)
  /\ ticket # 0 /\ event # 0
  /\ stop' = TRUE
  /\ response' = "given"
  /\ woken' = woken \cup {event}
  /\ status' = StatusAfterCancel
  /\ UNCHANGED <<coreVars, ticket, claim, event, workVars, projection, th, asks, faults, historyVars>>

(* The question is refused by a turn of the caller's own. *)
CancelQuestion(c) ==
  /\ Called(c)
  /\ ticket # 0 /\ event = 0
  /\ stop' = TRUE
  /\ status' = StatusAfterCancel
  /\ th' = [th EXCEPT ![c].at = "unstop", ![c].kind = "refusal"]
  /\ Begins
  /\ UNCHANGED <<coreVars, ticketVars, workVars, projection, woken, asks, faults, answers, dropped>>

ClearStop(c) ==
  /\ At(c, "unstop")
  /\ stop' = FALSE
  /\ Goto(c, "enter")
  /\ UNCHANGED <<coreVars, status, ticketVars, workVars, projection, woken, countVars, historyVars>>
-----------------------------------------------------------------------------
(* A slash command without a tool only records its result. *)
CommandRecords(c) ==
  /\ At(c, "command")
  /\ Goto(c, "snapshot")
  /\ UNCHANGED <<coreVars, status, ticketVars, workVars, stop, projection, woken, countVars,
                 historyVars>>

(* One with a tool runs in the caller, which is not registered as the active*)
(* thread, and waits there for its question to be answered.                 *)
CommandStarts(c) ==
  /\ At(c, "command")
  /\ status' = "running"
  /\ Goto(c, "cmdcore")
  /\ UNCHANGED <<coreVars, ticketVars, workVars, stop, projection, woken, countVars, historyVars>>

(* No handler: the exception leaves the session as it is. *)
CommandRaises(c) ==
  /\ th' = [th EXCEPT ![c] = Idle]
  /\ disturbed' = TRUE

EnterCommand(c) ==
  /\ th[c].at \in {"cmdcore", "cmdresume"}
  /\ IF lease # None
     THEN CommandRaises(c) /\ UNCHANGED lease
     ELSE /\ lease' = c
          /\ Goto(c, IF At(c, "cmdcore") THEN "cmdwork" ELSE "cmdanswer")
          /\ UNCHANGED disturbed
  /\ UNCHANGED <<pending, status, ticketVars, workVars, stop, projection, woken, countVars,
                 answers, dropped>>

CommandFails(c) ==
  /\ th[c].at \in {"cmdwork", "cmdask", "cmdcommit", "cmdanswer"}
  /\ faults < MaxFaults
  /\ faults' = faults + 1
  /\ lease' = None
  /\ CommandRaises(c)
  /\ UNCHANGED <<pending, status, ticketVars, workVars, stop, projection, woken, calls, asks,
                 answers, dropped>>

CommandAsks(c) ==
  /\ At(c, "cmdwork")
  /\ ~stop
  /\ Offer
  /\ th' = [th EXCEPT ![c].at = "cmdask", ![c].seen = asks + 1]
  /\ UNCHANGED <<coreVars, status, event, workVars, stop, projection, woken, calls, faults,
                 historyVars>>

CreateEvent(c) ==
  /\ At(c, "cmdask")
  /\ event' = th[c].seen
  /\ Goto(c, "cmdcommit")
  /\ UNCHANGED <<coreVars, status, ticket, claim, response, workVars, stop, projection, woken,
                 countVars, historyVars>>

CommandSuspends(c) ==
  /\ At(c, "cmdcommit")
  /\ pending' = th[c].seen
  /\ lease' = None
  /\ Goto(c, "cmdshow")
  /\ UNCHANGED <<status, ticketVars, workVars, stop, projection, woken, countVars, historyVars>>

(* Two blocks under the lock with nothing between them. *)
CommandWaits(c) ==
  /\ At(c, "cmdshow")
  /\ projection' = th[c].seen
  /\ status' = "waiting"
  /\ th' = [th EXCEPT ![c].at = "cmdwaiting", ![c].names = event]
  /\ UNCHANGED <<coreVars, ticketVars, workVars, stop, woken, countVars, historyVars>>

Awake(c) == th[c].names \in woken \cup {0}

CommandWakes(c) ==
  /\ At(c, "cmdwaiting")
  /\ Awake(c)
  /\ stop' = (stop \/ response = "cancelled")
  /\ event' = 0 /\ response' = "none" /\ claim' = 0
  /\ status' = "running"
  /\ Goto(c, "cmdresume")
  /\ UNCHANGED <<coreVars, ticket, workVars, projection, woken, countVars, historyVars>>

(* resume_interaction resolves whatever is pending; a command asks once.    *)
CommandAnswers(c) ==
  /\ At(c, "cmdanswer")
  /\ answers' = IF pending = 0 THEN answers ELSE answers \cup {<<pending, th[c].seen>>}
  /\ pending' = 0
  /\ lease' = None
  /\ th' = [th EXCEPT ![c].at = "cmdapply", ![c].seen = 0, ![c].out = "done"]
  /\ UNCHANGED <<status, ticketVars, workVars, stop, projection, woken, countVars, disturbed, dropped>>

(* The command ran without a question. *)
CommandEnds(c) ==
  /\ At(c, "cmdwork")
  /\ lease' = None
  /\ th' = [th EXCEPT ![c].at = "cmdapply", ![c].seen = pending]
  /\ UNCHANGED <<pending, status, ticketVars, workVars, stop, projection, woken, countVars,
                 historyVars>>

CommandReturns(c) ==
  /\ At(c, "cmdapply")
  /\ projection' = th[c].seen
  /\ IF th[c].out = "done"
     THEN ticket' = 0 /\ claim' = 0 /\ event' = 0 /\ response' = "none"
     ELSE UNCHANGED ticketVars
  /\ status' = "idle"
  /\ Goto(c, "snapshot")
  /\ UNCHANGED <<coreVars, workVars, stop, woken, countVars, historyVars>>
-----------------------------------------------------------------------------
(* The process stops, and the session is resumed from what is durable:      *)
(* resume_session and rebuild_pending_ticket_from_core.                     *)
Restart ==
  /\ faults < MaxFaults
  /\ faults' = faults + 1
  /\ lease' = None
  /\ status' = IF pending # 0 THEN "waiting" ELSE "idle"
  /\ ticket' = pending /\ claim' = 0 /\ event' = 0 /\ response' = "none"
  /\ active' = None /\ resume' = None
  /\ stop' = FALSE
  /\ projection' = pending
  /\ th' = [t \in Threads |-> Idle]
  /\ woken' = {}
  /\ answers' = {} /\ disturbed' = FALSE /\ dropped' = {}
  /\ UNCHANGED <<pending, calls, asks>>
-----------------------------------------------------------------------------
Init ==
  /\ pending = 0 /\ lease = None
  /\ status = "idle"
  /\ ticket = 0 /\ claim = 0 /\ event = 0 /\ response = "none"
  /\ active = None /\ resume = None
  /\ stop = FALSE
  /\ projection = 0
  /\ th = [t \in Threads |-> Idle]
  /\ woken = {}
  /\ calls = 0 /\ asks = 0 /\ faults = 0
  /\ answers = {} /\ disturbed = FALSE /\ dropped = {}

Call(c) ==
  \/ \E kind \in {"wait", "background", "command"} : Submit(c, kind)
  \/ Respond(c)
  \/ CancelTurn(c)
  \/ CancelCommand(c)
  \/ CancelQuestion(c)
  \/ SetMode(c)

CallStep(c) ==
  \/ MarkRunning(c) \/ RunHere(c) \/ RegisterTurn(c) \/ LaunchTurn(c)
  \/ Claim(c) \/ ClaimRefused(c) \/ SignalCommand(c) \/ ScheduleResume(c) \/ StartResume(c)
  \/ ClearStop(c)

CommandStep(c) ==
  \/ CommandRecords(c) \/ CommandStarts(c) \/ EnterCommand(c) \/ CommandAsks(c) \/ CreateEvent(c)
  \/ CommandSuspends(c) \/ CommandWaits(c) \/ CommandWakes(c) \/ CommandAnswers(c)
  \/ CommandEnds(c) \/ CommandReturns(c)

WorkerStep(w) == Released(w) \/ OwnTurn(w)

TurnStep(t) ==
  \/ Enter(t) \/ Clear(t) \/ EnterCore(t) \/ Resolve(t) \/ Ask(t) \/ Suspend(t) \/ EndTurn(t)
  \/ Snapshot(t) \/ ReleaseSnapshot(t) \/ ApplyProjection(t) \/ Settle(t) \/ Fail(t)

Fault ==
  \/ \E c \in Callers : LaunchFails(c) \/ StartFails(c) \/ CommandFails(c)
  \/ \E t \in Threads : CoreRaises(t)
  \/ Restart

Next ==
  \/ \E c \in Callers : Call(c) \/ CallStep(c) \/ CommandStep(c)
  \/ \E w \in Workers : WorkerStep(w) \/ GiveUp(w)
  \/ \E t \in Threads : TurnStep(t)
  \/ Fault

Spec == Init /\ [][Next]_vars

(* Threads that can run do run, and a submission in progress ends.          *)
FairSpec ==
  /\ Spec
  /\ \A c \in Callers : WF_vars(CallStep(c) \/ CommandStep(c) \/ TurnStep(c))
  /\ \A w \in Workers : WF_vars(WorkerStep(w) \/ GiveUp(w) \/ TurnStep(w))
-----------------------------------------------------------------------------
(* Every field of the session and of its threads is well typed, and no      *)
(* question is named before it was asked.                                   *)
TypeOK ==
  /\ pending \in 0 .. asks /\ ticket \in 0 .. asks /\ claim \in 0 .. asks
  /\ event \in 0 .. asks /\ projection \in 0 .. asks
  /\ lease \in Threads \cup {None}
  /\ status \in {"idle", "running", "waiting", "error"}
  /\ response \in {"none", "given", "cancelled"}
  /\ active \in Threads \cup {None} /\ resume \in Workers \cup {None}
  /\ {stop, disturbed} \subseteq BOOLEAN
  /\ th \in [Threads -> Thread]
  /\ woken \subseteq 1 .. asks
  /\ answers \subseteq (1 .. asks) \X (0 .. asks)
  /\ dropped \subseteq 0 .. asks
  /\ calls \in 0 .. MaxCalls /\ asks \in 0 .. MaxAsks /\ faults \in 0 .. MaxFaults

Replying(t) == th[t].kind = "reply" /\ th[t].at \notin {"idle", "claim", "new"}

(* A question is claimed once: however many replies to it arrive, from      *)
(* whichever threads and in whatever order with submits and cancels, no two *)
(* threads ever go on with a reply to the same question.                    *)
SingleClaim ==
  \A t, u \in Threads : Replying(t) /\ Replying(u) /\ th[t].names = th[u].names => t = u

(* A question is open to replies or its reply is on its way, never both:    *)
(* neither a resume thread that does not start nor a turn that asks again   *)
(* may leave an open question that refuses every reply.                     *)
OfferedOrClaimed == ~(ticket # 0 /\ claim # 0)

Quiet == \A t \in Threads : At(t, "idle") \/ (At(t, "cmdwaiting") /\ ~Awake(t))

(* Operations did not overlap, and the host dropped no reply it accepted.   *)
Orderly == ~disturbed /\ dropped = {}

(* A session that shows "waiting" and where nothing moves can be answered:  *)
(* the question offered, the durable one and the projected one, by which the*)
(* resumed turn will name it, are the same, nobody has claimed it, and an   *)
(* event to set is there just when a command waits on it.  A dropped reply  *)
(* leaves a session that is not so.                                         *)
WaitingIsAnswerable ==
  Quiet /\ status = "waiting" /\ Orderly =>
    /\ ticket # 0 /\ ticket = pending /\ ticket = projection
    /\ claim = 0
    /\ event # 0 <=> \E c \in Callers : At(c, "cmdwaiting") /\ th[c].names = event

(* The session does not show "running" when no thread works on it: a reply  *)
(* that came while its turn was on the way out, or a cancel, leaves no such *)
(* session behind.                                                          *)
NothingRunsForEver == Quiet /\ Orderly /\ faults = 0 => status # "running"

(* A reply to one question never resolves another. *)
AnswersOwnQuestion == \A a \in answers : a[1] = a[2]

(* The same, as long as operations do not overlap, no reply is dropped and  *)
(* nothing fails: the reply that races the turn that asked its question     *)
(* included.                                                                *)
AnswersOwnQuestionUndisturbed == Orderly /\ faults = 0 => AnswersOwnQuestion

=============================================================================

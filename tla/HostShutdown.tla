--------------------------- MODULE HostShutdown ----------------------------
(* The close of the hosted runtime: InProcessAdapter.shutdown, called from  *)
(* several threads at once, and the registration scope it quiesces, drains  *)
(* and disposes, while front ends go on submitting, answering, cancelling   *)
(* and opening sessions.  The host's flags are shared under its _lock, the  *)
(* fields of a session under the session's, the scope under its own; no step*)
(* holds two of them, so every read and write of one is a step of its own.  *)
EXTENDS Naturals, Sequences, FiniteSets

CONSTANTS
  Closers,      \* threads that shut the host down
  Callers,      \* front-end threads, which outlive their calls
  Workers,      \* threads the host may start
  Sessions,     \* sessions of the workspace
  Opened,       \* those the host holds from the start
  Asking,       \* those that were left with a question pending
  None,         \* no thread
  NumDisposers, \* disposers the runtime scope owns; the last is sessions.clear
  MaxCalls,     \* bound: calls of the front ends
  MaxCloses,    \* bound: calls of shutdown
  MaxFaults     \* bound: disposers that raise

ASSUME ShutdownAssumption ==
  /\ Callers \cap Workers = {}
  /\ None \notin Callers \cup Workers
  /\ Opened \subseteq Sessions /\ Opened # {} /\ Asking \subseteq Sessions
  /\ NumDisposers \in Nat \ {0}
  /\ {MaxCalls, MaxCloses, MaxFaults} \subseteq Nat

Threads == Callers \cup Workers

VARIABLES
  \* InProcessAdapter: _closing, _closed, _shutdown_complete (set or not),
  \* _shutdown_error, _sessions.
  closing, closed, barrier, error, registered,
  \* ManagedSession: stop_event, active_thread, resume_thread, and whether a
  \* question is pending.
  stop, active, resume, ticket,
  \* RegistrationScope: its state, the operations inside, _quiescent (set or
  \* not), the disposers that ran, and whether one raised.
  admission, inside, quiet, released, failed,
  \* The calls of shutdown and the other threads.
  sd, th,
  \* Whether an owner fell out of the join; the waiters whose attempt was
  \* followed by another before they read its error.
  broken, overtaken,
  calls, closes, faults

hostVars    == <<closing, closed, barrier, error>>
sessionVars == <<stop, active, resume, ticket>>
scopeVars   == <<admission, inside, quiet, released, failed>>
closerVars  == <<sd, broken, overtaken, closes>>

vars == <<closing, closed, barrier, error, registered, stop, active, resume, ticket,
          admission, inside, quiet, released, failed, sd, th, broken, overtaken,
          calls, closes, faults>>

(* A call of shutdown: the sessions it captured, those of them its loop has *)
(* still to come to, and their threads.                                     *)
CloseSteps == {"idle", "quiesce", "tell", "capture", "join", "drain", "release", "close",
               "wait", "verdict"}
Shutdowns  == [at : CloseSteps, states : SUBSET Sessions, left : SUBSET Sessions,
               threads : SUBSET Threads, result : {"none", "returned", "raised"}]

Resting == [at |-> "idle", states |-> {}, left |-> {}, threads |-> {}, result |-> "none"]

(* A thread: what it does next, in which operation, on which session, and   *)
(* the thread it is about to start.                                         *)
Steps == {"idle", "new", "find", "add", "check", "register", "claim", "schedule", "launch",
          "cancel", "unstop", "await", "own", "enter", "turn", "release", "leave", "end"}
Kinds == {"wait", "background", "reply", "cancel", "open"}
Jobs  == [at : Steps, kind : Kinds, s : Sessions, peer : Threads \cup {None}]

Rest == [at |-> "idle", kind |-> "open", s |-> CHOOSE s \in Opened : TRUE, peer |-> None]

At(t, step)   == th[t].at = step
Goto(t, step) == th' = [th EXCEPT ![t].at = step]

Alive(t) == t \in Callers \/ (t \in Workers /\ th[t].at \notin {"idle", "new"})
Occupied(s) == Alive(active[s])

(* A thread object nobody refers to any more.                               *)
Fresh == {w \in Workers :
            /\ At(w, "idle")
            /\ \A s \in Sessions : w \notin {active[s], resume[s]}
            /\ \A c \in Closers : w \notin sd[c].threads}

Owning(c) == sd[c].at \in {"quiesce", "tell", "capture", "join", "drain", "release", "close"}

Init ==
  /\ closing = FALSE /\ closed = FALSE /\ barrier = TRUE /\ error = "none"
  /\ registered = Opened
  /\ stop = [s \in Sessions |-> FALSE]
  /\ active = [s \in Sessions |-> None]
  /\ resume = [s \in Sessions |-> None]
  /\ ticket = [s \in Sessions |-> s \in Asking]
  /\ admission = "active" /\ inside = {} /\ quiet = TRUE
  /\ released = <<>> /\ failed = FALSE
  /\ sd = [c \in Closers |-> Resting]
  /\ th = [t \in Threads |-> Rest]
  /\ broken = FALSE /\ overtaken = {}
  /\ calls = 0 /\ closes = 0 /\ faults = 0
-----------------------------------------------------------------------------
(* RegistrationScope.operation: admission is decided under the scope's lock,*)
(* and the last operation to leave sets the event the disposer waits for.   *)
Admit(t) ==
  /\ admission = "active"
  /\ inside' = inside \cup {t}
  /\ quiet' = FALSE

\* Mutant: the event is left unset when the last operation leaves.
DepartSilently(t) ==
  /\ inside' = inside \ {t}
  /\ UNCHANGED quiet

Depart(t) ==
  /\ inside' = inside \ {t}
  /\ quiet' = (quiet \/ inside' = {})
-----------------------------------------------------------------------------
(* The operations of the front ends begin with _ensure_open.  It reads the  *)
(* flags, then the scope; a scope that is active was so when the flags were *)
(* read.                                                                    *)
Call(f) ==
  /\ At(f, "idle")
  /\ calls < MaxCalls
  /\ calls' = calls + 1

Open == ~closed /\ ~closing /\ admission = "active"

Look(f, s, kind) ==
  /\ Call(f)
  /\ Open
  /\ th' = [th EXCEPT ![f] = [at |-> "find", kind |-> kind, s |-> s, peer |-> None]]
  /\ UNCHANGED <<hostVars, registered, sessionVars, scopeVars, closerVars, faults>>

(* _require_session *)
Find(f) ==
  /\ At(f, "find")
  /\ IF th[f].s \in registered
     THEN Goto(f, CASE th[f].kind \in {"wait", "background"} -> "check"
                    [] th[f].kind = "reply" -> "claim"
                    [] OTHER -> "cancel")
     ELSE th' = [th EXCEPT ![f] = Rest]
  /\ UNCHANGED <<hostVars, registered, sessionVars, scopeVars, closerVars, calls, faults>>

(* create_session and resume_session look at the flags, and much later put  *)
(* the session among the others; a resumed one may bring its question.      *)
LookToOpen(f, s) ==
  /\ Call(f)
  /\ Open
  /\ s \notin registered
  /\ \A g \in Callers : ~(At(g, "add") /\ th[g].s = s)
  /\ th' = [th EXCEPT ![f] = [at |-> "add", kind |-> "open", s |-> s, peer |-> None]]
  /\ UNCHANGED <<hostVars, registered, sessionVars, scopeVars, closerVars, faults>>

Add(f) ==
  /\ At(f, "add")
  /\ registered' = registered \cup {th[f].s}
  /\ th' = [th EXCEPT ![f] = Rest]
  /\ UNCHANGED <<hostVars, sessionVars, scopeVars, closerVars, calls, faults>>
-----------------------------------------------------------------------------
(* submit_user_message: one turn at a time, as far as active_thread tells;  *)
(* the check forgets a request to stop.                                     *)
Check(f) ==
  /\ At(f, "check")
  /\ IF Occupied(th[f].s)
     THEN th' = [th EXCEPT ![f] = Rest] /\ UNCHANGED stop
     ELSE Goto(f, "register") /\ stop' = [stop EXCEPT ![th[f].s] = FALSE]
  /\ UNCHANGED <<hostVars, registered, active, resume, ticket, scopeVars, closerVars, calls,
                 faults>>

(* wait=True: the turn runs in the caller. *)
RegisterHere(f) ==
  /\ At(f, "register")
  /\ th[f].kind = "wait"
  /\ active' = [active EXCEPT ![th[f].s] = f]
  /\ Goto(f, "enter")
  /\ UNCHANGED <<hostVars, registered, stop, resume, ticket, scopeVars, closerVars, calls, faults>>

(* The thread of a turn or of a resumed turn is registered before it starts.*)
Hires(f, w) ==
  th' = [th EXCEPT ![f].at = "launch", ![f].peer = w,
                   ![w] = [at |-> "new", kind |-> th[f].kind, s |-> th[f].s, peer |-> None]]

RegisterTurn(f) ==
  /\ At(f, "register")
  /\ th[f].kind = "background"
  /\ Fresh # {}
  /\ LET w == CHOOSE w \in Fresh : TRUE
     IN  /\ active' = [active EXCEPT ![th[f].s] = w]
         /\ Hires(f, w)
  /\ UNCHANGED <<hostVars, registered, stop, resume, ticket, scopeVars, closerVars, calls, faults>>

(* respond_to_interaction: the question is claimed by one reply; a reply may*)
(* cancel, and its thread is the active one only if there is none.          *)
Claim(f) ==
  /\ At(f, "claim")
  /\ ticket' = [ticket EXCEPT ![th[f].s] = FALSE]
  /\ IF ticket[th[f].s] THEN Goto(f, "schedule") ELSE th' = [th EXCEPT ![f] = Rest]
  /\ UNCHANGED <<hostVars, registered, stop, active, resume, scopeVars, closerVars, calls, faults>>

\* Mutant: the thread of the request is registered as the resume thread.
ScheduleHere(f) ==
  /\ At(f, "schedule")
  /\ Fresh # {}
  /\ LET w == CHOOSE w \in Fresh : TRUE
         s == th[f].s
     IN  /\ resume' = [resume EXCEPT ![s] = f]
         /\ active' = [active EXCEPT ![s] = IF Occupied(s) THEN @ ELSE w]
         /\ Hires(f, w)
  /\ \E cancelled \in BOOLEAN : stop' = [stop EXCEPT ![th[f].s] = @ \/ cancelled]
  /\ UNCHANGED <<hostVars, registered, ticket, scopeVars, closerVars, calls, faults>>

ScheduleResume(f) ==
  /\ At(f, "schedule")
  /\ Fresh # {}
  /\ LET w == CHOOSE w \in Fresh : TRUE
         s == th[f].s
     IN  /\ resume' = [resume EXCEPT ![s] = w]
         /\ active' = [active EXCEPT ![s] = IF Occupied(s) THEN @ ELSE w]
         /\ Hires(f, w)
  /\ \E cancelled \in BOOLEAN : stop' = [stop EXCEPT ![th[f].s] = @ \/ cancelled]
  /\ UNCHANGED <<hostVars, registered, ticket, scopeVars, closerVars, calls, faults>>

Launch(f) ==
  LET w == th[f].peer
  IN  /\ At(f, "launch")
      /\ th' = [th EXCEPT ![f] = Rest,
                          ![w].at = IF th[w].kind = "reply" THEN "await" ELSE "enter"]
      /\ UNCHANGED <<hostVars, registered, sessionVars, scopeVars, closerVars, calls, faults>>

(* cancel_session: every cancel sets the event; one that finds a question   *)
(* clears it again and refuses the question in its own thread, registered   *)
(* nowhere and with an event of its own that is set.                        *)
Cancel(f) ==
  /\ At(f, "cancel")
  /\ stop' = [stop EXCEPT ![th[f].s] = TRUE]
  /\ IF ticket[th[f].s] THEN Goto(f, "unstop") ELSE th' = [th EXCEPT ![f] = Rest]
  /\ UNCHANGED <<hostVars, registered, active, resume, ticket, scopeVars, closerVars, calls,
                 faults>>

Unstop(f) ==
  /\ At(f, "unstop")
  /\ stop' = [stop EXCEPT ![th[f].s] = FALSE]
  /\ Goto(f, "enter")
  /\ UNCHANGED <<hostVars, registered, active, resume, ticket, scopeVars, closerVars, calls,
                 faults>>
-----------------------------------------------------------------------------
(* _run_resume_coordinator: the thread waits until no other is active, for  *)
(* five seconds, and then owns the session.                                 *)
ActiveElsewhere(w) == Occupied(th[w].s) /\ active[th[w].s] # w

Await(w) ==
  /\ At(w, "await")
  /\ Goto(w, IF ActiveElsewhere(w) THEN "end" ELSE "own")
  /\ UNCHANGED <<hostVars, registered, sessionVars, scopeVars, closerVars, calls, faults>>

Own(w) ==
  /\ At(w, "own")
  /\ IF ActiveElsewhere(w)
     THEN Goto(w, "end") /\ UNCHANGED active
     ELSE Goto(w, "enter") /\ active' = [active EXCEPT ![th[w].s] = w]
  /\ UNCHANGED <<hostVars, registered, stop, resume, ticket, scopeVars, closerVars, calls, faults>>

(* _run_turn: what a turn does is inside an operation of the runtime scope; *)
(* a question is dropped as soon as a turn begins.                          *)
Enter(t) ==
  /\ At(t, "enter")
  /\ Admit(t)
  /\ Goto(t, "turn")
  /\ ticket' = [ticket EXCEPT ![th[t].s] = FALSE]
  /\ UNCHANGED <<hostVars, registered, stop, active, resume, admission, released, failed,
                 closerVars, calls, faults>>

(* ScopeStateError *)
Refused(t) ==
  /\ At(t, "enter")
  /\ admission # "active"
  /\ Goto(t, "end")
  /\ UNCHANGED <<hostVars, registered, sessionVars, scopeVars, closerVars, calls, faults>>

(* The turn asks and stops there, or is done, or fails.                     *)
Ask(t) ==
  /\ At(t, "turn")
  /\ ticket' = [ticket EXCEPT ![th[t].s] = TRUE]
  /\ Goto(t, "release")
  /\ UNCHANGED <<hostVars, registered, stop, active, resume, scopeVars, closerVars, calls, faults>>

Finish(t) ==
  /\ At(t, "turn")
  /\ Goto(t, "release")
  /\ UNCHANGED <<hostVars, registered, sessionVars, scopeVars, closerVars, calls, faults>>

(* Whoever is registered, nobody is active afterwards.                      *)
Release(t) ==
  /\ At(t, "release")
  /\ active' = [active EXCEPT ![th[t].s] = None]
  /\ Goto(t, "leave")
  /\ UNCHANGED <<hostVars, registered, stop, resume, ticket, scopeVars, closerVars, calls, faults>>

Leave(t) ==
  /\ At(t, "leave")
  /\ Depart(t)
  /\ Goto(t, "end")
  /\ UNCHANGED <<hostVars, registered, sessionVars, admission, released, failed, closerVars,
                 calls, faults>>

(* A refused thread of submit_user_message(wait=False) stays registered,    *)
(* dead.                                                                    *)
Forgets(t) == th[t].kind \in {"wait", "reply"}

End(t) ==
  LET s == th[t].s
  IN  /\ At(t, "end")
      /\ active' = [active EXCEPT ![s] = IF @ = t /\ Forgets(t) THEN None ELSE @]
      /\ resume' = [resume EXCEPT ![s] = IF @ = t THEN None ELSE @]
      /\ th' = [th EXCEPT ![t] = Rest]
      /\ UNCHANGED <<hostVars, registered, stop, ticket, scopeVars, closerVars, calls, faults>>
-----------------------------------------------------------------------------
(* shutdown.  The first to come owns the attempt, the others wait for its   *)
(* end.                                                                     *)
Becomes(c, step) == sd' = [sd EXCEPT ![c].at = step]

(* The call ends; what it was captured with is dropped.                     *)
Ends(c, result) == sd' = [sd EXCEPT ![c] = [Resting EXCEPT !.result = result]]

Shutdown(c) ==
  /\ sd[c].at = "idle"
  /\ closes < MaxCloses
  /\ closes' = closes + 1
  /\ UNCHANGED <<closed, registered, sessionVars, scopeVars, th, broken, calls, faults>>

FindsClosed(c) ==
  /\ Shutdown(c)
  /\ closed
  /\ Ends(c, "returned")
  /\ UNCHANGED <<closing, barrier, error, overtaken>>

Joins(c) ==
  /\ Shutdown(c)
  /\ ~closed /\ closing
  /\ sd' = [sd EXCEPT ![c] = [Resting EXCEPT !.at = "wait"]]
  /\ UNCHANGED <<closing, barrier, error, overtaken>>

Owns(c) ==
  /\ Shutdown(c)
  /\ ~closed /\ ~closing
  /\ closing' = TRUE
  /\ barrier' = FALSE
  /\ error' = "none"
  /\ sd' = [sd EXCEPT ![c] = [Resting EXCEPT !.at = "quiesce", !.states = registered,
                                              !.left = registered]]
  /\ overtaken' = overtaken \cup {d \in Closers : sd[d].at = "verdict"}

(* A waiter's own time passes, or the barrier is lifted.                    *)
WaitsTooLong(c) ==
  /\ sd[c].at = "wait"
  /\ ~barrier
  /\ Ends(c, "raised")
  /\ UNCHANGED <<hostVars, registered, sessionVars, scopeVars, th, broken, overtaken, calls,
                 closes, faults>>

Passes(c) ==
  /\ sd[c].at = "wait"
  /\ barrier
  /\ Becomes(c, "verdict")
  /\ overtaken' = overtaken \ {c}
  /\ UNCHANGED <<hostVars, registered, sessionVars, scopeVars, th, broken, calls, closes, faults>>

Verdict(c) ==
  /\ sd[c].at = "verdict"
  /\ Ends(c, IF error = "none" THEN "returned" ELSE "raised")
  /\ UNCHANGED <<hostVars, registered, sessionVars, scopeVars, th, broken, overtaken, calls,
                 closes, faults>>
-----------------------------------------------------------------------------
(* The owner closes admission, tells the turns of the sessions it captured  *)
(* to stop, one session after the other, and only then looks, one after the *)
(* other again, which threads they run in.                                  *)
Quiesce(c) ==
  /\ sd[c].at = "quiesce"
  /\ admission' = IF admission = "active" THEN "quiescing" ELSE admission
  /\ quiet' = (quiet \/ inside = {})
  /\ Becomes(c, "tell")
  /\ UNCHANGED <<hostVars, registered, sessionVars, inside, released, failed, th, broken,
                 overtaken, calls, closes, faults>>

Tell(c) ==
  /\ sd[c].at = "tell"
  /\ \E s \in sd[c].left :
       /\ stop' = [stop EXCEPT ![s] = TRUE]
       /\ sd' = [sd EXCEPT ![c].left = @ \ {s}]
  /\ UNCHANGED <<hostVars, registered, active, resume, ticket, scopeVars, th, broken,
                 overtaken, calls, closes, faults>>

Capture(c) ==
  /\ sd[c].at = "capture"
  /\ \E s \in sd[c].left :
       sd' = [sd EXCEPT ![c].left = @ \ {s},
                        ![c].threads = @ \cup ({active[s], resume[s]} \ {None})]
  /\ UNCHANGED <<hostVars, registered, sessionVars, scopeVars, th, broken, overtaken, calls,
                 closes, faults>>

LoopEnds(c) ==
  /\ sd[c].left = {}
  /\ \/ /\ sd[c].at = "tell"
        /\ sd' = [sd EXCEPT ![c].at = "capture", ![c].left = sd[c].states]
     \/ /\ sd[c].at = "capture"
        /\ Becomes(c, "join")
  /\ UNCHANGED <<hostVars, registered, sessionVars, scopeVars, th, broken, overtaken, calls,
                 closes, faults>>

(* Every captured thread is dead, or has not begun when the time is up.     *)
Joined(c) ==
  /\ sd[c].at = "join"
  /\ \A t \in sd[c].threads : ~Alive(t)
  /\ Becomes(c, "drain")
  /\ UNCHANGED <<hostVars, registered, sessionVars, scopeVars, th, broken, overtaken, calls,
                 closes, faults>>

\* Mutant: the attempt that ran out of time is not given up.
GivesUpOwning(c) ==
  /\ sd[c].at = "join"
  /\ \E t \in sd[c].threads : Alive(t)
  /\ error' = "timeout"
  /\ barrier' = TRUE
  /\ Ends(c, "raised")
  /\ UNCHANGED <<closing, closed, registered, sessionVars, scopeVars, th, broken, overtaken,
                 calls, closes, faults>>

(* The deadline passes.  Admission stays closed, the host does not.         *)
GivesUp(c) ==
  /\ sd[c].at = "join"
  /\ \E t \in sd[c].threads : Alive(t)
  /\ closing' = FALSE
  /\ error' = "timeout"
  /\ barrier' = TRUE
  /\ Ends(c, "raised")
  /\ UNCHANGED <<closed, registered, sessionVars, scopeVars, th, broken, overtaken, calls,
                 closes, faults>>

(* Thread.join raises for a thread that was not started, past every handler.*)
FallsOut(c) ==
  /\ sd[c].at = "join"
  /\ \E t \in sd[c].threads : At(t, "new")
  /\ Ends(c, "raised")
  /\ broken' = TRUE
  /\ UNCHANGED <<hostVars, registered, sessionVars, scopeVars, th, overtaken, calls, closes,
                 faults>>
-----------------------------------------------------------------------------
(* RegistrationScope.dispose: however long it takes, nothing is released    *)
(* before the operations inside are over.                                   *)
\* Mutant: the deadline of the join is taken to be enough.
DrainedAnyway(c) ==
  /\ sd[c].at = "drain"
  /\ Becomes(c, "release")
  /\ UNCHANGED <<hostVars, registered, sessionVars, scopeVars, th, broken, overtaken, calls,
                 closes, faults>>

Drained(c) ==
  /\ sd[c].at = "drain"
  /\ quiet
  /\ Becomes(c, "release")
  /\ UNCHANGED <<hostVars, registered, sessionVars, scopeVars, th, broken, overtaken, calls,
                 closes, faults>>

(* The disposers run in reverse order of registration, each once, whether   *)
(* the ones before it raised or not.                                        *)
Dispose(c, raises) ==
  LET d == NumDisposers - Len(released)
  IN  /\ sd[c].at = "release"
      /\ d > 0
      /\ released' = Append(released, d)
      /\ registered' = IF d = NumDisposers THEN {} ELSE registered
      /\ failed' = (failed \/ raises)
      /\ UNCHANGED <<hostVars, sessionVars, admission, inside, quiet, th, closerVars, calls>>

Disposes(c) == Dispose(c, FALSE) /\ UNCHANGED faults

DisposerRaises(c) ==
  /\ faults < MaxFaults
  /\ faults' = faults + 1
  /\ Dispose(c, TRUE)

Disposed(c) ==
  /\ sd[c].at = "release"
  /\ Len(released) = NumDisposers
  /\ admission' = "disposed"
  /\ Becomes(c, "close")
  /\ UNCHANGED <<hostVars, registered, sessionVars, inside, quiet, released, failed, th, broken,
                 overtaken, calls, closes, faults>>

Close(c) ==
  /\ sd[c].at = "close"
  /\ registered' = {}
  /\ closed' = TRUE
  /\ closing' = FALSE
  /\ error' = IF failed THEN "dispose" ELSE "none"
  /\ barrier' = TRUE
  /\ Ends(c, IF failed THEN "raised" ELSE "returned")
  /\ UNCHANGED <<sessionVars, scopeVars, th, broken, overtaken, calls, closes, faults>>
-----------------------------------------------------------------------------
FrontEnd(f) ==
  \/ \E s \in Sessions, kind \in Kinds \ {"open"} : Look(f, s, kind)
  \/ \E s \in Sessions : LookToOpen(f, s)
  \/ Find(f) \/ Add(f) \/ Check(f) \/ RegisterHere(f) \/ RegisterTurn(f)
  \/ Claim(f) \/ ScheduleResume(f) \/ Launch(f) \/ Cancel(f) \/ Unstop(f)

Turn(t) ==
  \/ Await(t) \/ Own(t) \/ Enter(t) \/ Refused(t)
  \/ Ask(t) \/ Finish(t) \/ Release(t) \/ Leave(t) \/ End(t)

Calling(c) == FindsClosed(c) \/ Joins(c) \/ Owns(c)

Closing(c) ==
  \/ WaitsTooLong(c) \/ Passes(c) \/ Verdict(c)
  \/ Quiesce(c) \/ Tell(c) \/ Capture(c) \/ LoopEnds(c)
  \/ Joined(c) \/ GivesUp(c) \/ FallsOut(c)
  \/ Drained(c) \/ Disposes(c) \/ DisposerRaises(c) \/ Disposed(c) \/ Close(c)

Next ==
  \/ \E f \in Callers : FrontEnd(f)
  \/ \E t \in Threads : Turn(t)
  \/ \E c \in Closers : Calling(c) \/ Closing(c)

Spec == Init /\ [][Next]_vars

(* A turn that was told to stop does so; one that was not may go on for     *)
(* ever, as it may wait for a model or a tool.                              *)
Told(t) == stop[th[t].s] \/ th[t].kind = "cancel"

Stops(t) == Told(t) /\ (Ask(t) \/ Finish(t))

Fairness ==
  /\ \A c \in Closers : WF_vars(Closing(c))
  /\ \A t \in Threads :
       /\ WF_vars(Stops(t))
       /\ WF_vars(Release(t)) /\ WF_vars(Leave(t))

FairSpec == Spec /\ Fairness
-----------------------------------------------------------------------------
TypeOK ==
  /\ {closing, closed, barrier, quiet, failed, broken} \subseteq BOOLEAN
  /\ error \in {"none", "timeout", "dispose"}
  /\ registered \subseteq Sessions
  /\ stop \in [Sessions -> BOOLEAN] /\ ticket \in [Sessions -> BOOLEAN]
  /\ active \in [Sessions -> Threads \cup {None}]
  /\ resume \in [Sessions -> Workers \cup {None}]
  /\ admission \in {"active", "quiescing", "disposed"}
  /\ inside \subseteq Threads
  /\ released \in Seq(1..NumDisposers)
  /\ sd \in [Closers -> Shutdowns]
  /\ th \in [Threads -> Jobs]
  /\ overtaken \subseteq Closers
  /\ {calls, closes, faults} \subseteq Nat

(* dispose runs no disposer while a turn is inside the runtime scope, and   *)
(* none gets in afterwards; and a host that calls itself closed has run them*)
(* all, also when some raised or another shutdown had given up before       *)
(* (registration_scope.py:229-246, inprocess_adapter.py:1633-1646).         *)
NothingInsideDisposed == released # <<>> => inside = {} /\ admission # "active"
ClosedIsDisposed      == closed => admission = "disposed" /\ Len(released) = NumDisposers

OrderlyClose ==
  /\ NothingInsideDisposed
  /\ ClosedIsDisposed

(* The calls of shutdown get on with each other: one of them at a time owns *)
(* the close, the barrier is down exactly while the host is closing, the    *)
(* host is closing only while an owner is at work - unless one fell out of  *)
(* the join -, and whoever returned without an error leaves the host closed *)
(* - unless another attempt had begun when it read how the first had ended  *)
(* (inprocess_adapter.py:1574-1597, 1624-1631, 1639-1646).                  *)
OneOwner       == \A c, d \in Closers : Owning(c) /\ Owning(d) => c = d
BarrierDown    == barrier = ~closing
OwnerAtWork    == closing => broken \/ \E c \in Closers : Owning(c)
OwnerHolds     == \A c \in Closers : Owning(c) => closing /\ ~closed
ReturnIsClosed == \A c \in Closers : sd[c].result = "returned" => closed \/ c \in overtaken

BarrierKept ==
  /\ OneOwner
  /\ BarrierDown
  /\ OwnerAtWork
  /\ OwnerHolds
  /\ ReturnIsClosed

(* Every shutdown returns or raises, whatever the turns and the other       *)
(* shutdowns do, except one that drains the scope of a turn nobody told to  *)
(* stop: dispose waits for it without a time limit (inprocess_adapter.py:   *)
(* 1601-1631, registration_scope.py:165-167, 229).                          *)
Untold == \E t \in inside : At(t, "turn") /\ ~Told(t)

ShutdownReturns ==
  \A c \in Closers : []<>(sd[c].at = "idle") \/ <>[](sd[c].at = "drain" /\ Untold)
=============================================================================

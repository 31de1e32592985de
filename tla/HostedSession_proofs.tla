------------------------ MODULE HostedSession_proofs ------------------------
(* Theorems about HostedSession, for any number of threads, calls,          *)
(* questions and failures.                                                  *)
EXTENDS HostedSession, TLAPS

(* What every action but a few does to ticket and claim: nothing, or both   *)
(* are cleared.                                                             *)
LEMMA TurnKeepsOffered ==
  ASSUME OfferedOrClaimed, NEW t \in Threads, TurnStep(t)
  PROVE  OfferedOrClaimed'
<1> USE DEF OfferedOrClaimed, ticketVars
<1>1. CASE Enter(t)           BY <1>1 DEF Enter
<1>2. CASE Clear(t)           BY <1>2 DEF Clear
<1>3. CASE EnterCore(t)       BY <1>3 DEF EnterCore
<1>4. CASE Resolve(t)         BY <1>4 DEF Resolve
<1>5. CASE Ask(t)             BY <1>5 DEF Ask, Offer
<1>6. CASE Suspend(t)         BY <1>6 DEF Suspend
<1>7. CASE EndTurn(t)         BY <1>7 DEF EndTurn
<1>8. CASE Snapshot(t)        BY <1>8 DEF Snapshot
<1>9. CASE ReleaseSnapshot(t) BY <1>9 DEF ReleaseSnapshot
<1>10. CASE ApplyProjection(t) BY <1>10 DEF ApplyProjection
<1>11. CASE Settle(t)         BY <1>11 DEF Settle, EndWith
<1>12. CASE Fail(t)           BY <1>12 DEF Fail
<1> QED BY <1>1, <1>2, <1>3, <1>4, <1>5, <1>6, <1>7, <1>8, <1>9, <1>10, <1>11, <1>12 DEF TurnStep

LEMMA CallKeepsOffered ==
  ASSUME OfferedOrClaimed, NEW c \in Callers, Call(c)
  PROVE  OfferedOrClaimed'
<1> USE DEF OfferedOrClaimed, ticketVars
<1>1. CASE \E kind \in {"wait", "background", "command"} : Submit(c, kind) BY <1>1 DEF Submit
<1>2. CASE Respond(c)        BY <1>2 DEF Respond
<1>3. CASE CancelTurn(c)     BY <1>3 DEF CancelTurn
<1>4. CASE CancelCommand(c)  BY <1>4 DEF CancelCommand
<1>5. CASE CancelQuestion(c) BY <1>5 DEF CancelQuestion
<1>6. CASE SetMode(c)        BY <1>6 DEF SetMode
<1> QED BY <1>1, <1>2, <1>3, <1>4, <1>5, <1>6 DEF Call

LEMMA CallStepKeepsOffered ==
  ASSUME OfferedOrClaimed, NEW c \in Callers, CallStep(c)
  PROVE  OfferedOrClaimed'
<1> USE DEF OfferedOrClaimed, ticketVars
<1>1. CASE MarkRunning(c)    BY <1>1 DEF MarkRunning
<1>2. CASE RunHere(c)        BY <1>2 DEF RunHere
<1>3. CASE RegisterTurn(c)   BY <1>3 DEF RegisterTurn
<1>4. CASE LaunchTurn(c)     BY <1>4 DEF LaunchTurn
<1>5. CASE Claim(c)          BY <1>5 DEF Claim
<1>6. CASE ClaimRefused(c)   BY <1>6 DEF ClaimRefused
<1>7. CASE SignalCommand(c)  BY <1>7 DEF SignalCommand
<1>8. CASE ScheduleResume(c) BY <1>8 DEF ScheduleResume
<1>9. CASE StartResume(c)    BY <1>9 DEF StartResume
<1>10. CASE ClearStop(c)     BY <1>10 DEF ClearStop
<1> QED BY <1>1, <1>2, <1>3, <1>4, <1>5, <1>6, <1>7, <1>8, <1>9, <1>10 DEF CallStep

LEMMA CommandKeepsOffered ==
  ASSUME OfferedOrClaimed, NEW c \in Callers, CommandStep(c)
  PROVE  OfferedOrClaimed'
<1> USE DEF OfferedOrClaimed, ticketVars
<1>1. CASE CommandRecords(c)  BY <1>1 DEF CommandRecords
<1>2. CASE CommandStarts(c)   BY <1>2 DEF CommandStarts
<1>3. CASE EnterCommand(c)    BY <1>3 DEF EnterCommand
<1>4. CASE CommandAsks(c)     BY <1>4 DEF CommandAsks, Offer
<1>5. CASE CreateEvent(c)     BY <1>5 DEF CreateEvent
<1>6. CASE CommandSuspends(c) BY <1>6 DEF CommandSuspends
<1>7. CASE CommandWaits(c)    BY <1>7 DEF CommandWaits
<1>8. CASE CommandWakes(c)    BY <1>8 DEF CommandWakes
<1>9. CASE CommandAnswers(c)  BY <1>9 DEF CommandAnswers
<1>10. CASE CommandEnds(c)    BY <1>10 DEF CommandEnds
<1>11. CASE CommandReturns(c) BY <1>11 DEF CommandReturns
<1> QED BY <1>1, <1>2, <1>3, <1>4, <1>5, <1>6, <1>7, <1>8, <1>9, <1>10, <1>11 DEF CommandStep

LEMMA FaultKeepsOffered ==
  ASSUME OfferedOrClaimed, Fault
  PROVE  OfferedOrClaimed'
<1> USE DEF OfferedOrClaimed, ticketVars
<1>1. CASE \E c \in Callers : LaunchFails(c)  BY <1>1 DEF LaunchFails
<1>2. CASE \E c \in Callers : StartFails(c)   BY <1>2 DEF StartFails, OfferAgain
<1>3. CASE \E c \in Callers : CommandFails(c) BY <1>3 DEF CommandFails
<1>4. CASE \E t \in Threads : CoreRaises(t)   BY <1>4 DEF CoreRaises
<1>5. CASE Restart                            BY <1>5 DEF Restart
<1> QED BY <1>1, <1>2, <1>3, <1>4, <1>5 DEF Fault

(* A question is never open to replies while one of its replies is on its   *)
(* way: whatever calls race and whatever fails, no open question refuses    *)
(* every reply for having been claimed.                                     *)
THEOREM OfferedOrClaimedHolds == Spec => []OfferedOrClaimed
<1>1. Init => OfferedOrClaimed
  BY DEF Init, OfferedOrClaimed
<1>2. OfferedOrClaimed /\ [Next]_vars => OfferedOrClaimed'
  <2> SUFFICES ASSUME OfferedOrClaimed, [Next]_vars PROVE OfferedOrClaimed'
    OBVIOUS
  <2>1. CASE \E c \in Callers : Call(c) BY <2>1, CallKeepsOffered
  <2>2. CASE \E c \in Callers : CallStep(c) BY <2>2, CallStepKeepsOffered
  <2>3. CASE \E c \in Callers : CommandStep(c) BY <2>3, CommandKeepsOffered
  <2>4. CASE \E w \in Workers : WorkerStep(w) \/ GiveUp(w)
    BY <2>4 DEF WorkerStep, Released, OwnTurn, GiveUp, ticketVars, OfferedOrClaimed
  <2>5. CASE \E t \in Threads : TurnStep(t) BY <2>5, TurnKeepsOffered
  <2>6. CASE Fault BY <2>6, FaultKeepsOffered
  <2>7. CASE UNCHANGED vars BY <2>7 DEF vars, ticketVars, OfferedOrClaimed
  <2> QED BY <2>1, <2>2, <2>3, <2>4, <2>5, <2>6, <2>7 DEF Next
<1> QED BY <1>1, <1>2, PTL DEF Spec
-----------------------------------------------------------------------------
(* The inductive invariant of SingleClaim.  Numbers: what was offered, made *)
(* durable or seen was asked.                                               *)
Numbers ==
  /\ asks \in Nat /\ ticket \in Nat /\ ticket <= asks
  /\ pending \in Nat /\ pending <= asks
  /\ event \in Nat /\ projection \in Nat

Seen == \A t \in Threads : th[t].seen <= asks

CommandSteps == {"command", "cmdcore", "cmdwork", "cmdask", "cmdcommit", "cmdshow", "cmdwaiting",
                 "cmdresume", "cmdanswer", "cmdapply"}

(* The steps of a command are those of a command, the steps of a reply those*)
(* of a reply, and a reply is to a question that was asked.                 *)
KindOf ==
  \A t \in Threads :
    /\ th[t].at \in CommandSteps => th[t].kind = "command"
    /\ th[t].at \in {"claim", "signal", "schedule"} => th[t].kind = "reply"
    /\ th[t].at = "claim" => th[t].names # 0
    /\ th[t].kind = "reply" => th[t].names <= asks

(* What a thread works on as a reply is not on offer any more. *)
NotOffered == \A t \in Threads : Replying(t) /\ ticket # 0 => th[t].names # ticket

(* A thread that is about to start another holds it alone. *)
Launching(t) == th[t].at \in {"launch", "start"}

PeerIsNew ==
  \A t \in Threads : Launching(t) =>
    /\ th[t].peer \in Threads
    /\ th[th[t].peer].at = "new"
    /\ th[t].at = "launch" => th[th[t].peer].kind # "reply"
    /\ th[t].at = "start"  => /\ th[t].kind = "reply"
                              /\ th[th[t].peer].kind = "reply"
                              /\ th[th[t].peer].names = th[t].names

PeersDiffer ==
  \A t, u \in Threads : Launching(t) /\ Launching(u) /\ th[t].peer = th[u].peer => t = u

ClaimInv ==
  /\ th \in [Threads -> Thread]
  /\ Numbers /\ Seen /\ KindOf /\ NotOffered /\ PeerIsNew /\ PeersDiffer /\ SingleClaim
-----------------------------------------------------------------------------
(* How a step changes the threads: only those of S change; t goes on to     *)
(* another step for the same purpose, ends, or begins with something that   *)
(* is no reply.                                                             *)
Changes(S) ==
  /\ th' \in [Threads -> Thread]
  /\ \A u \in Threads \ S : th'[u] = th[u]

Goes(t, s, n) ==
  /\ Changes({t})
  /\ th'[t].at = s /\ th'[t].kind = th[t].kind /\ th'[t].names = th[t].names
  /\ th'[t].seen = n

Ends(t) == Changes({t}) /\ th'[t] = Idle

Begun(t, s, k) ==
  Changes({t}) /\ th'[t].at = s /\ th'[t].kind = k /\ th'[t].seen = th[t].seen

(* How it changes the offer: not at all, it is withdrawn, or a new question *)
(* is offered.                                                              *)
TicketMoves ==
  \/ asks' = asks /\ ticket' = ticket
  \/ asks' = asks /\ ticket' = 0
  \/ asks' = asks + 1 /\ ticket' = asks + 1

(* Steps with conditions of their own. *)
Guarded == {"launch", "start", "new", "claim", "signal", "schedule"}

(* What the thread that does nothing is.                                    *)
LEMMA IdleThread ==
  Idle \in Thread /\ Idle.at = "idle" /\ Idle.kind = "none" /\ Idle.seen = 0
<1>1. Idle \in Thread BY DEF Idle, Thread, Steps, Kinds
<1>2. Idle.at = "idle" /\ Idle.kind = "none" /\ Idle.seen = 0 BY DEF Idle
<1> QED BY <1>1, <1>2

(* A thread that only changes its step goes on.                             *)
LEMMA GotoGoes ==
  ASSUME th \in [Threads -> Thread], NEW t \in Threads, NEW s \in Steps, Goto(t, s)
  PROVE  Goes(t, s, th[t].seen)
<1>1. th' = [th EXCEPT ![t].at = s] BY DEF Goto
<1>2. th' \in [Threads -> Thread] BY <1>1 DEF Thread
<1> QED BY <1>1, <1>2 DEF Goes, Changes, Thread

(* A thread that becomes idle ends.                                         *)
LEMMA IdleEnds ==
  ASSUME th \in [Threads -> Thread], NEW t \in Threads, th' = [th EXCEPT ![t] = Idle]
  PROVE  Ends(t)
BY IdleThread DEF Ends, Changes

(* A worker is made of a thread that does nothing.                          *)
LEMMA NewWorkerIdle ==
  ASSUME FreshWorkers # {}
  PROVE  NewWorker \in Workers /\ NewWorker \in Threads /\ th[NewWorker].at = "idle"
<1>1. NewWorker \in FreshWorkers BY DEF NewWorker
<1> QED BY <1>1 DEF FreshWorkers, At, Threads

(* A thread goes on with what it does.                                      *)
LEMMA GoingKeeps ==
  ASSUME ClaimInv, NEW t \in Threads, NEW s, NEW n \in Nat, Goes(t, s, n), TicketMoves, Numbers',
         n = th[t].seen \/ n <= asks',
         th[t].at \notin {"idle", "new", "claim"}, s \notin Guarded,
         s \in CommandSteps => th[t].kind = "command"
  PROVE  ClaimInv'
<1> USE DEF ClaimInv, TicketMoves, Numbers, Changes, Goes, Guarded
<1>1. Seen' BY DEF Seen, Thread
<1>2. KindOf' BY DEF KindOf, Thread, CommandSteps
<1>3. NotOffered' BY DEF NotOffered, Replying, KindOf, Thread
<1>4. PeerIsNew' BY DEF PeerIsNew, Launching
<1>5. PeersDiffer' BY DEF PeersDiffer, Launching
<1>6. SingleClaim' BY DEF SingleClaim, Replying
<1> QED BY <1>1, <1>2, <1>3, <1>4, <1>5, <1>6

(* A thread ends.                                                           *)
LEMMA EndingKeeps ==
  ASSUME ClaimInv, NEW t \in Threads, Ends(t), TicketMoves, Numbers', th[t].at # "new"
  PROVE  ClaimInv'
<1> USE IdleThread DEF ClaimInv, TicketMoves, Numbers, Changes, Ends
<1>1. Seen' BY DEF Seen, Thread
<1>2. KindOf' BY DEF KindOf, Thread, CommandSteps
<1>3. NotOffered' BY DEF NotOffered, Replying, KindOf, Thread
<1>4. PeerIsNew' BY DEF PeerIsNew, Launching
<1>5. PeersDiffer' BY DEF PeersDiffer, Launching
<1>6. SingleClaim' BY DEF SingleClaim, Replying
<1> QED BY <1>1, <1>2, <1>3, <1>4, <1>5, <1>6

(* A thread begins with something that is no reply.                         *)
LEMMA BeginningKeeps ==
  ASSUME ClaimInv, NEW t \in Threads, NEW s, NEW k, Begun(t, s, k), TicketMoves, Numbers',
         th[t].at # "new", s \notin Guarded, k # "reply", s \in CommandSteps => k = "command"
  PROVE  ClaimInv'
<1> USE DEF ClaimInv, TicketMoves, Numbers, Changes, Begun, Guarded
<1>1. Seen' BY DEF Seen, Thread
<1>2. KindOf' BY DEF KindOf, Thread, CommandSteps
<1>3. NotOffered' BY DEF NotOffered, Replying, KindOf, Thread
<1>4. PeerIsNew' BY DEF PeerIsNew, Launching
<1>5. PeersDiffer' BY DEF PeersDiffer, Launching
<1>6. SingleClaim' BY DEF SingleClaim, Replying
<1> QED BY <1>1, <1>2, <1>3, <1>4, <1>5, <1>6

(* A caller makes a worker for a turn, or for the reply it claimed.         *)
LEMMA LaunchingKeeps ==
  ASSUME ClaimInv, NEW c \in Threads, NEW w \in Threads, Numbers', UNCHANGED <<asks, ticket>>,
         Changes({c, w}), th[w].at = "idle", c # w,
         th[c].at \notin {"idle", "new", "claim"}, th'[c].kind = th[c].kind,
         th'[c].names = th[c].names, th'[c].seen = th[c].seen, th'[c].peer = w,
         th'[w].at = "new", th'[w].seen = th[w].seen,
         \/ th'[c].at = "launch" /\ th'[w].kind = "background"
         \/ /\ th'[c].at = "start" /\ th[c].kind = "reply"
            /\ th'[w].kind = "reply" /\ th'[w].names = th[c].names
  PROVE  ClaimInv'
<1> USE DEF ClaimInv, Numbers, Changes, Guarded, CommandSteps, Launching
<1>1. Seen' BY DEF Seen, Thread
<1>2. KindOf' BY DEF KindOf, Thread
<1>3. NotOffered' BY DEF NotOffered, Replying, PeerIsNew, SingleClaim
<1>4. PeerIsNew' BY DEF PeerIsNew, PeersDiffer, KindOf
<1>5. PeersDiffer' BY DEF PeersDiffer, PeerIsNew
<1>6. SingleClaim' BY DEF SingleClaim, Replying, PeerIsNew
<1> QED BY <1>1, <1>2, <1>3, <1>4, <1>5, <1>6

(* The worker starts, its caller is done.                                   *)
LEMMA StartedKeeps ==
  ASSUME ClaimInv, NEW c \in Threads, NEW w \in Threads, NEW s,
         Numbers', UNCHANGED <<asks, ticket>>, Changes({c, w}), Launching(c), th[c].peer = w, th'[c] = Idle,
         th'[w].at = s, s \in {"clear", "await"}, th'[w].kind = th[w].kind,
         th'[w].names = th[w].names, th'[w].seen = th[w].seen
  PROVE  ClaimInv'
<1> USE IdleThread DEF ClaimInv, Numbers, Changes, Guarded, CommandSteps, Launching
<1>1. Seen' BY DEF Seen, Thread
<1>2. KindOf' BY DEF KindOf, Thread
<1>3. NotOffered' BY DEF NotOffered, Replying, PeerIsNew, SingleClaim
<1>4. PeerIsNew' BY DEF PeerIsNew, PeersDiffer, KindOf
<1>5. PeersDiffer' BY DEF PeersDiffer, PeerIsNew
<1>6. SingleClaim' BY DEF SingleClaim, Replying, PeerIsNew
<1> QED BY <1>1, <1>2, <1>3, <1>4, <1>5, <1>6

(* The worker does not start; the question of the reply may be offered again.*)
LEMMA FailingKeeps ==
  ASSUME ClaimInv, NEW c \in Threads, NEW w \in Threads, Numbers', asks' = asks,
         Changes({c, w}), Launching(c), th[c].peer = w, th'[c] = Idle, th'[w] = Idle,
         ticket' = ticket \/ (ticket' = th[c].names /\ th[c].kind = "reply")
  PROVE  ClaimInv'
<1> USE IdleThread DEF ClaimInv, Numbers, Changes, Guarded, CommandSteps, Launching
<1>1. Seen' BY DEF Seen, Thread
<1>2. KindOf' BY DEF KindOf, Thread
<1>3. NotOffered' BY DEF NotOffered, Replying, PeerIsNew, SingleClaim
<1>4. PeerIsNew' BY DEF PeerIsNew, PeersDiffer, KindOf
<1>5. PeersDiffer' BY DEF PeersDiffer, PeerIsNew
<1>6. SingleClaim' BY DEF SingleClaim, Replying, PeerIsNew
<1> QED BY <1>1, <1>2, <1>3, <1>4, <1>5, <1>6

(* The steps of a turn.                                                     *)
LEMMA TurnKeepsClaims ==
  ASSUME ClaimInv, NEW t \in Threads, TurnStep(t)
  PROVE  ClaimInv'
<1> USE DEF At, TicketMoves, Guarded, CommandSteps, Steps, ticketVars, coreVars, countVars
<1>0. /\ th \in [Threads -> Thread] /\ t \in Threads /\ th[t] \in Thread
      /\ th[t].seen \in Nat /\ th[t].seen <= asks
      /\ Numbers /\ KindOf
  BY DEF ClaimInv, Seen, Thread, Threads
<1>1. CASE Enter(t)
  <2> DEFINE p == IF projection # 0 THEN projection ELSE ticket
  <2>1. p \in Nat BY <1>0 DEF Numbers
  <2>2. th' = [th EXCEPT ![t].at = "clear", ![t].pid = p] BY <1>1 DEF Enter
  <2> HIDE DEF p
  <2>3. th' \in [Threads -> Thread] BY <1>0, <2>1, <2>2 DEF Thread
  <2>4. Goes(t, "clear", th[t].seen) BY <1>0, <2>2, <2>3 DEF Goes, Changes, Thread
  <2>5. Numbers' /\ TicketMoves BY <1>1, <1>0 DEF Enter, Numbers
  <2> QED BY <1>1, <1>0, <2>4, <2>5, GoingKeeps DEF Enter
<1>2. CASE Clear(t)
  <2>1. Goes(t, "core", th[t].seen)
    BY <1>2, <1>0, GotoGoes DEF Clear
  <2>2. Numbers' /\ TicketMoves BY <1>2, <1>0 DEF Clear, Numbers
  <2> QED BY <1>2, <1>0, <2>1, <2>2, GoingKeeps DEF Clear
<1>3. CASE EnterCore(t)
  <2>1. Goes(t, "fail", th[t].seen) \/ Goes(t, "resolve", th[t].seen) \/ Goes(t, "work", th[t].seen)
    BY <1>3, <1>0, GotoGoes DEF EnterCore
  <2>2. Numbers' /\ TicketMoves BY <1>3, <1>0 DEF EnterCore, Numbers
  <2> QED BY <1>3, <1>0, <2>1, <2>2, GoingKeeps DEF EnterCore
<1>4. CASE Resolve(t)
  <2>1. Goes(t, "fail", th[t].seen) \/ Goes(t, "work", th[t].seen)
    BY <1>4, <1>0, GotoGoes DEF Resolve
  <2>2. Numbers' /\ TicketMoves BY <1>4, <1>0 DEF Resolve, Numbers
  <2> QED BY <1>4, <1>0, <2>1, <2>2, GoingKeeps DEF Resolve
<1>5. CASE Ask(t)
  <2>1. th' = [th EXCEPT ![t].at = "ask", ![t].seen = asks + 1, ![t].out = "wait"] BY <1>5 DEF Ask
  <2>2. th' \in [Threads -> Thread] BY <1>5, <1>0, <2>1 DEF Thread, Kinds, Numbers
  <2>3. Goes(t, "ask", asks + 1) BY <1>0, <2>1, <2>2 DEF Goes, Changes, Thread
  <2>4. Numbers' /\ TicketMoves BY <1>5, <1>0 DEF Ask, Numbers, Offer
  <2> QED BY <1>5, <1>0, <2>3, <2>4, GoingKeeps DEF Ask, Numbers, Offer
<1>6. CASE Suspend(t)
  <2>1. Goes(t, "snapshot", th[t].seen)
    BY <1>6, <1>0, GotoGoes DEF Suspend
  <2>2. Numbers' /\ TicketMoves BY <1>6, <1>0 DEF Suspend, Numbers
  <2> QED BY <1>6, <1>0, <2>1, <2>2, GoingKeeps DEF Suspend
<1>7. CASE EndTurn(t)
  <2>1. th' = [th EXCEPT ![t].at = "snapshot", ![t].out = "done"] BY <1>7 DEF EndTurn
  <2>2. th' \in [Threads -> Thread] BY <1>7, <1>0, <2>1, ZenonT(40) DEF Thread, Kinds, Numbers
  <2>3. Goes(t, "snapshot", th[t].seen) BY <1>0, <2>1, <2>2 DEF Goes, Changes, Thread
  <2>4. Numbers' /\ TicketMoves BY <1>7, <1>0 DEF EndTurn, Numbers
  <2> QED BY <1>7, <1>0, <2>3, <2>4, GoingKeeps DEF EndTurn, Numbers
<1>8. CASE Snapshot(t)
  <2>0. Numbers' /\ TicketMoves BY <1>8, <1>0 DEF Snapshot, Numbers
  <2>1. CASE th' = [th EXCEPT ![t].at = "release", ![t].seen = pending]
    <3>1. th' \in [Threads -> Thread] BY <1>0, <2>1 DEF Thread, Numbers
    <3>2. Goes(t, "release", pending) BY <1>0, <2>1, <3>1 DEF Goes, Changes, Thread
    <3> QED BY <1>8, <1>0, <2>0, <3>2, GoingKeeps DEF Snapshot, Numbers
  <2>2. CASE th' = [th EXCEPT ![t] = Idle]
    <3>1. Ends(t) BY <1>0, <2>2, IdleEnds
    <3> QED BY <1>8, <1>0, <2>0, <3>1, EndingKeeps DEF Snapshot
  <2>3. CASE th' = [th EXCEPT ![t].at = "fail"]
    <3>1. Goes(t, "fail", th[t].seen) BY <1>0, <2>3, GotoGoes DEF Goto
    <3> QED BY <1>8, <1>0, <2>0, <3>1, GoingKeeps DEF Snapshot
  <2> QED BY <1>8, <2>1, <2>2, <2>3 DEF Snapshot
<1>9. CASE ReleaseSnapshot(t)
  <2>1. Goes(t, "apply", th[t].seen)
    BY <1>9, <1>0, GotoGoes DEF ReleaseSnapshot
  <2>2. Numbers' /\ TicketMoves BY <1>9, <1>0 DEF ReleaseSnapshot, Numbers
  <2> QED BY <1>9, <1>0, <2>1, <2>2, GoingKeeps DEF ReleaseSnapshot
<1>10. CASE ApplyProjection(t)
  <2>0. Numbers' /\ TicketMoves BY <1>10, <1>0 DEF ApplyProjection, Numbers
  <2>1. CASE th' = [th EXCEPT ![t] = Idle]
    <3>1. Ends(t) BY <1>0, <2>1, IdleEnds
    <3> QED BY <1>10, <1>0, <2>0, <3>1, EndingKeeps DEF ApplyProjection
  <2>2. CASE th' = [th EXCEPT ![t].at = "settle"]
    <3>1. Goes(t, "settle", th[t].seen) BY <1>0, <2>2, GotoGoes DEF Goto
    <3> QED BY <1>10, <1>0, <2>0, <3>1, GoingKeeps DEF ApplyProjection
  <2> QED BY <1>10, <2>1, <2>2 DEF ApplyProjection
<1>11. CASE Settle(t)
  <2>1. Ends(t) BY <1>11, <1>0, IdleEnds DEF Settle, WorkerEnds
  <2>2. Numbers' /\ TicketMoves BY <1>11, <1>0 DEF Settle, Numbers
  <2> QED BY <1>11, <1>0, <2>1, <2>2, EndingKeeps DEF Settle
<1>12. CASE Fail(t)
  <2>1. Ends(t) BY <1>12, <1>0, IdleEnds DEF Fail, WorkerEnds
  <2>2. Numbers' /\ TicketMoves BY <1>12, <1>0 DEF Fail, Numbers
  <2> QED BY <1>12, <1>0, <2>1, <2>2, EndingKeeps DEF Fail
<1> QED BY <1>1, <1>2, <1>3, <1>4, <1>5, <1>6, <1>7, <1>8, <1>9, <1>10, <1>11, <1>12 DEF TurnStep

(* The steps of a command.                                                  *)
LEMMA CommandKeepsClaims ==
  ASSUME ClaimInv, NEW c \in Callers, CommandStep(c)
  PROVE  ClaimInv'
<1> USE DEF At, TicketMoves, Guarded, CommandSteps, Steps, ticketVars, coreVars, countVars
<1>0. /\ th \in [Threads -> Thread] /\ c \in Threads /\ th[c] \in Thread
      /\ th[c].seen \in Nat /\ th[c].seen <= asks
      /\ Numbers /\ KindOf
  BY DEF ClaimInv, Seen, Thread, Threads
<1>1. CASE CommandRecords(c)
  <2>1. Goes(c, "snapshot", th[c].seen)
    BY <1>1, <1>0, GotoGoes DEF CommandRecords
  <2>2. Numbers' /\ TicketMoves BY <1>1, <1>0 DEF CommandRecords, Numbers
  <2> QED BY <1>1, <1>0, <2>1, <2>2, GoingKeeps DEF CommandRecords
<1>2. CASE CommandStarts(c)
  <2>1. Goes(c, "cmdcore", th[c].seen)
    BY <1>2, <1>0, GotoGoes DEF CommandStarts
  <2>2. Numbers' /\ TicketMoves BY <1>2, <1>0 DEF CommandStarts, Numbers
  <2> QED BY <1>2, <1>0, <2>1, <2>2, GoingKeeps DEF CommandStarts, KindOf
<1>3. CASE EnterCommand(c)
  <2>0. Numbers' /\ TicketMoves BY <1>3, <1>0 DEF EnterCommand, Numbers
  <2>1. CASE CommandRaises(c)
    <3>1. Ends(c) BY <1>0, <2>1, IdleEnds DEF CommandRaises
    <3> QED BY <1>3, <1>0, <2>0, <3>1, EndingKeeps DEF EnterCommand
  <2>2. CASE Goto(c, IF At(c, "cmdcore") THEN "cmdwork" ELSE "cmdanswer")
    <3>1. Goes(c, "cmdwork", th[c].seen) \/ Goes(c, "cmdanswer", th[c].seen)
      BY <1>0, <2>2, GotoGoes
    <3> QED BY <1>3, <1>0, <2>0, <3>1, GoingKeeps DEF EnterCommand, KindOf
  <2> QED BY <1>3, <2>1, <2>2 DEF EnterCommand
<1>4. CASE CommandAsks(c)
  <2>1. th' = [th EXCEPT ![c].at = "cmdask", ![c].seen = asks + 1] BY <1>4 DEF CommandAsks
  <2>2. th' \in [Threads -> Thread] BY <1>4, <1>0, <2>1 DEF Thread, Kinds, Numbers
  <2>3. Goes(c, "cmdask", asks + 1) BY <1>0, <2>1, <2>2 DEF Goes, Changes, Thread
  <2>4. Numbers' /\ TicketMoves BY <1>4, <1>0 DEF CommandAsks, Numbers, Offer
  <2> QED BY <1>4, <1>0, <2>3, <2>4, GoingKeeps DEF CommandAsks, Numbers, Offer, KindOf
<1>5. CASE CreateEvent(c)
  <2>1. Goes(c, "cmdcommit", th[c].seen)
    BY <1>5, <1>0, GotoGoes DEF CreateEvent
  <2>2. Numbers' /\ TicketMoves BY <1>5, <1>0 DEF CreateEvent, Numbers
  <2> QED BY <1>5, <1>0, <2>1, <2>2, GoingKeeps DEF CreateEvent, KindOf
<1>6. CASE CommandSuspends(c)
  <2>1. Goes(c, "cmdshow", th[c].seen)
    BY <1>6, <1>0, GotoGoes DEF CommandSuspends
  <2>2. Numbers' /\ TicketMoves BY <1>6, <1>0 DEF CommandSuspends, Numbers
  <2> QED BY <1>6, <1>0, <2>1, <2>2, GoingKeeps DEF CommandSuspends, KindOf
<1>7. CASE CommandWaits(c)
  <2>1. th' = [th EXCEPT ![c].at = "cmdwaiting", ![c].names = event] BY <1>7 DEF CommandWaits
  <2>2. th' \in [Threads -> Thread] BY <1>0, <2>1 DEF Thread, Numbers
  <2>3. Begun(c, "cmdwaiting", th[c].kind) BY <1>0, <2>1, <2>2 DEF Begun, Changes, Thread
  <2>4. Numbers' /\ TicketMoves BY <1>7, <1>0 DEF CommandWaits, Thread, Numbers
  <2> QED BY <1>7, <1>0, <2>3, <2>4, BeginningKeeps DEF CommandWaits, KindOf
<1>8. CASE CommandWakes(c)
  <2>1. Goes(c, "cmdresume", th[c].seen)
    BY <1>8, <1>0, GotoGoes DEF CommandWakes
  <2>2. Numbers' /\ TicketMoves BY <1>8, <1>0 DEF CommandWakes, Numbers
  <2> QED BY <1>8, <1>0, <2>1, <2>2, GoingKeeps DEF CommandWakes, KindOf
<1>9. CASE CommandAnswers(c)
  <2>1. th' = [th EXCEPT ![c].at = "cmdapply", ![c].seen = 0, ![c].out = "done"]
    BY <1>9 DEF CommandAnswers
  <2>2. th' \in [Threads -> Thread] BY <1>9, <1>0, <2>1 DEF Thread, Kinds, Numbers
  <2>3. Goes(c, "cmdapply", 0) BY <1>0, <2>1, <2>2 DEF Goes, Changes, Thread
  <2>4. Numbers' /\ TicketMoves BY <1>9, <1>0 DEF CommandAnswers, Numbers
  <2> QED BY <1>9, <1>0, <2>3, <2>4, GoingKeeps DEF CommandAnswers, Numbers, KindOf
<1>10. CASE CommandEnds(c)
  <2>1. th' = [th EXCEPT ![c].at = "cmdapply", ![c].seen = pending] BY <1>10 DEF CommandEnds
  <2>2. th' \in [Threads -> Thread] BY <1>10, <1>0, <2>1 DEF Thread, Kinds, Numbers
  <2>3. Goes(c, "cmdapply", pending) BY <1>0, <2>1, <2>2 DEF Goes, Changes, Thread
  <2>4. Numbers' /\ TicketMoves BY <1>10, <1>0 DEF CommandEnds, Numbers
  <2> QED BY <1>10, <1>0, <2>3, <2>4, GoingKeeps DEF CommandEnds, Numbers, KindOf
<1>11. CASE CommandReturns(c)
  <2>1. Goes(c, "snapshot", th[c].seen)
    BY <1>11, <1>0, GotoGoes DEF CommandReturns
  <2>2. Numbers' /\ TicketMoves BY <1>11, <1>0 DEF CommandReturns, Numbers
  <2> QED BY <1>11, <1>0, <2>1, <2>2, GoingKeeps DEF CommandReturns
<1> QED BY <1>1, <1>2, <1>3, <1>4, <1>5, <1>6, <1>7, <1>8, <1>9, <1>10, <1>11 DEF CommandStep

(* The calls.                                                               *)
LEMMA CallKeepsClaims ==
  ASSUME ClaimInv, NEW c \in Callers, Call(c)
  PROVE  ClaimInv'
<1> USE DEF At, TicketMoves, Guarded, CommandSteps, Steps, ticketVars, coreVars, countVars
<1>0. /\ th \in [Threads -> Thread] /\ c \in Threads /\ th[c] \in Thread
      /\ th[c].seen \in Nat /\ th[c].seen <= asks
      /\ Numbers /\ KindOf
  BY DEF ClaimInv, Seen, Thread, Threads
<1>1. ASSUME NEW kind \in {"wait", "background", "command"}, Submit(c, kind) PROVE ClaimInv'
  <2> DEFINE s == IF kind = "command" THEN "command" ELSE "submit"
  <2>1. th' = [th EXCEPT ![c].at = s, ![c].kind = kind] BY <1>1 DEF Submit
  <2>2. s \in Steps /\ s \notin Guarded /\ (s \in CommandSteps => kind = "command")
        /\ kind \in Kinds
    BY <1>1 DEF Kinds
  <2> HIDE DEF s, Steps
  <2>3. th' \in [Threads -> Thread] BY <1>0, <2>1, <2>2 DEF Thread
  <2>4. Begun(c, s, kind) BY <1>0, <2>1, <2>3 DEF Begun, Changes, Thread
  <2>5. Numbers' /\ TicketMoves BY <1>1, <1>0 DEF Submit, Called, Numbers
  <2> QED BY <1>1, <1>0, <2>2, <2>4, <2>5, BeginningKeeps DEF Submit, Called
<1>2. CASE Respond(c)
  <2>1. th' = [th EXCEPT ![c].at = "claim", ![c].kind = "reply", ![c].names = ticket]
    BY <1>2 DEF Respond
  <2>2. th' \in [Threads -> Thread] BY <1>0, <2>1, ZenonT(40) DEF Thread, Kinds, Numbers
  <2>3. /\ Changes({c})
        /\ th'[c].at = "claim" /\ th'[c].kind = "reply" /\ th'[c].names = ticket
        /\ th'[c].seen = th[c].seen
    BY <1>0, <2>1, <2>2 DEF Changes, Thread
  <2>4. Numbers' /\ UNCHANGED <<asks, ticket>> /\ ticket # 0 /\ th[c].at = "idle"
    BY <1>2, <1>0 DEF Respond, Called, Numbers
  <2> USE <1>0, <2>2, <2>3, <2>4 DEF Changes
  <2>5. Seen' BY DEF ClaimInv, Seen
  <2>6. KindOf' BY DEF KindOf, Numbers
  <2>7. NotOffered' BY DEF ClaimInv, NotOffered, Replying
  <2>8. PeerIsNew' BY DEF ClaimInv, PeerIsNew, Launching
  <2>9. PeersDiffer' BY DEF ClaimInv, PeersDiffer, Launching
  <2>10. SingleClaim' BY DEF ClaimInv, SingleClaim, Replying
  <2> QED BY <2>5, <2>6, <2>7, <2>8, <2>9, <2>10 DEF ClaimInv
<1>3. CASE CancelTurn(c)
  BY <1>3, <1>0 DEF CancelTurn, Called, ClaimInv, Numbers, Seen, KindOf, NotOffered,
    PeerIsNew, PeersDiffer, SingleClaim, Replying, Launching
<1>4. CASE CancelCommand(c)
  BY <1>4, <1>0 DEF CancelCommand, Called, ClaimInv, Numbers, Seen, KindOf, NotOffered,
    PeerIsNew, PeersDiffer, SingleClaim, Replying, Launching
<1>5. CASE CancelQuestion(c)
  <2>1. th' = [th EXCEPT ![c].at = "unstop", ![c].kind = "refusal"] BY <1>5 DEF CancelQuestion
  <2>2. th' \in [Threads -> Thread] BY <1>0, <2>1, ZenonT(40) DEF Thread, Kinds
  <2>3. Begun(c, "unstop", "refusal") BY <1>0, <2>1, <2>2 DEF Begun, Changes, Thread
  <2>4. Numbers' /\ TicketMoves BY <1>5, <1>0 DEF CancelQuestion, Called, Numbers
  <2> QED BY <1>5, <1>0, <2>3, <2>4, BeginningKeeps DEF CancelQuestion, Called
<1>6. CASE SetMode(c)
  <2>1. th' = [th EXCEPT ![c].at = "snapshot", ![c].kind = "mode"] BY <1>6 DEF SetMode
  <2>2. th' \in [Threads -> Thread] BY <1>0, <2>1, ZenonT(40) DEF Thread, Kinds
  <2>3. Begun(c, "snapshot", "mode") BY <1>0, <2>1, <2>2 DEF Begun, Changes, Thread
  <2>4. Numbers' /\ TicketMoves BY <1>6, <1>0 DEF SetMode, Called, Numbers
  <2> QED BY <1>6, <1>0, <2>3, <2>4, BeginningKeeps DEF SetMode, Called
<1> QED BY <1>1, <1>2, <1>3, <1>4, <1>5, <1>6 DEF Call

(* The steps of submissions and replies.                                    *)
LEMMA CallStepKeepsClaims ==
  ASSUME ClaimInv, NEW c \in Callers, CallStep(c)
  PROVE  ClaimInv'
<1> USE DEF At, TicketMoves, Guarded, CommandSteps, Steps, ticketVars, coreVars, countVars
<1>0. /\ th \in [Threads -> Thread] /\ c \in Threads /\ th[c] \in Thread
      /\ th[c].seen \in Nat /\ th[c].seen <= asks
      /\ Numbers /\ KindOf
  BY DEF ClaimInv, Seen, Thread, Threads
<1>1. CASE MarkRunning(c)
  <2>1. Goes(c, "register", th[c].seen)
    BY <1>1, <1>0, GotoGoes DEF MarkRunning
  <2>2. Numbers' /\ TicketMoves BY <1>1, <1>0 DEF MarkRunning, Numbers
  <2> QED BY <1>1, <1>0, <2>1, <2>2, GoingKeeps DEF MarkRunning
<1>2. CASE RunHere(c)
  <2>1. Goes(c, "clear", th[c].seen)
    BY <1>2, <1>0, GotoGoes DEF RunHere
  <2>2. Numbers' /\ TicketMoves BY <1>2, <1>0 DEF RunHere, Numbers
  <2> QED BY <1>2, <1>0, <2>1, <2>2, GoingKeeps DEF RunHere
<1>3. CASE RegisterTurn(c)
  <2> DEFINE w == NewWorker
  <2>1. th' = [th EXCEPT ![c].at = "launch", ![c].peer = w,
                         ![w].at = "new", ![w].kind = "background"]
    BY <1>3 DEF RegisterTurn
  <2>2. w \in Threads /\ th[w].at = "idle" BY <1>3, NewWorkerIdle DEF RegisterTurn
  <2>3. w # c BY <1>3, <2>2 DEF RegisterTurn
  <2> DEFINE f == [th EXCEPT ![c].at = "launch", ![c].peer = w]
  <2> HIDE DEF w
  <2>4. f \in [Threads -> Thread] BY <1>0, <2>2 DEF Thread
  <2>5. /\ \A u \in Threads \ {c} : f[u] = th[u]
        /\ f[c].at = "launch" /\ f[c].peer = w /\ f[c].kind = th[c].kind
        /\ f[c].names = th[c].names /\ f[c].seen = th[c].seen
    BY <1>0, <2>2 DEF Thread
  <2>6. th' = [f EXCEPT ![w].at = "new", ![w].kind = "background"]
    BY <2>1, <2>3
  <2>7. "new" \in Steps /\ "background" \in Kinds /\ th[c].names \in Nat BY <1>0 DEF Kinds, Thread
  <2> HIDE DEF f, Steps
  <2>8. th' \in [Threads -> Thread]
    BY <2>2, <2>4, <2>6, <2>7, ZenonT(40) DEF Thread
  <2>9. /\ Changes({c, w})
        /\ th'[c].at = "launch" /\ th'[c].peer = w /\ th'[c].kind = th[c].kind
        /\ th'[c].names = th[c].names /\ th'[c].seen = th[c].seen
        /\ th'[w].at = "new" /\ th'[w].kind = "background" /\ th'[w].seen = th[w].seen
    BY <1>0, <2>2, <2>3, <2>4, <2>5, <2>6, <2>8 DEF Changes, Thread
  <2>10. Numbers' /\ UNCHANGED <<asks, ticket>> BY <1>3, <1>0 DEF RegisterTurn, Numbers
  <2>11. th[c].at = "register"
    BY <1>3, <1>0 DEF RegisterTurn, KindOf
  <2> QED BY <1>0, <2>2, <2>3, <2>9, <2>10, <2>11, LaunchingKeeps
<1>4. CASE LaunchTurn(c)
  <2> DEFINE w == th[c].peer
  <2>1. th' = [th EXCEPT ![c] = Idle, ![w].at = "clear"] /\ th[c].at = "launch"
    BY <1>4 DEF LaunchTurn
  <2>2. w \in Threads /\ th[w].at = "new" BY <1>0, <2>1 DEF ClaimInv, PeerIsNew, Launching
  <2>3. w # c BY <2>1, <2>2
  <2>4. th[c].peer = w OBVIOUS
  <2> HIDE DEF w
  <2> DEFINE f == [th EXCEPT ![c] = Idle]
  <2>5. f \in [Threads -> Thread] BY <1>0, IdleThread
  <2>6. f[c] = Idle /\ \A u \in Threads \ {c} : f[u] = th[u] BY <1>0
  <2>7. th' = [f EXCEPT ![w].at = "clear"] BY <2>1, <2>3
  <2> HIDE DEF f
  <2>8. th' \in [Threads -> Thread] BY <2>2, <2>5, <2>7 DEF Thread
  <2>9. /\ Changes({c, w}) /\ th'[c] = Idle
        /\ th'[w].at = "clear" /\ th'[w].kind = th[w].kind /\ th'[w].names = th[w].names
        /\ th'[w].seen = th[w].seen
    BY <1>0, <2>2, <2>3, <2>5, <2>6, <2>7, <2>8 DEF Changes, Thread
  <2>10. Numbers' /\ UNCHANGED <<asks, ticket>> BY <1>4, <1>0 DEF LaunchTurn, Numbers
  <2> QED BY <1>0, <2>1, <2>2, <2>4, <2>9, <2>10, StartedKeeps DEF Launching
<1>5. CASE Claim(c)
  <2> DEFINE s == IF event # 0 THEN "signal" ELSE "schedule"
  <2>1. th' = [th EXCEPT ![c].at = s, ![c].pid = event] BY <1>5 DEF Claim
  <2>2. s \in {"signal", "schedule"} OBVIOUS
  <2> HIDE DEF s
  <2>3. th' \in [Threads -> Thread] BY <1>0, <2>1, <2>2 DEF Thread, Numbers
  <2>4. Goes(c, s, th[c].seen) BY <1>0, <2>1, <2>3 DEF Goes, Changes, Thread
  <2>5. Numbers' /\ asks' = asks /\ ticket' = 0 /\ th[c].at = "claim" /\ th[c].names = ticket
    BY <1>5, <1>0 DEF Claim, Numbers
  <2>6. th[c].kind = "reply" /\ th[c].names # 0 /\ ticket # 0 BY <1>0, <2>5 DEF KindOf
  <2> HIDE DEF Guarded, CommandSteps, Steps
  <2> USE <1>0, <2>2, <2>4, <2>5, <2>6 DEF Changes, Goes
  <2>7. Seen' BY DEF ClaimInv, Seen
  <2>8. KindOf' BY DEF ClaimInv, KindOf, CommandSteps
  <2>9. NotOffered' BY DEF ClaimInv, NotOffered
  <2>10. PeerIsNew' BY DEF ClaimInv, PeerIsNew, Launching
  <2>11. PeersDiffer' BY DEF ClaimInv, PeersDiffer, Launching
  <2>12. SingleClaim' BY DEF ClaimInv, SingleClaim, NotOffered, Replying
  <2> QED BY <2>7, <2>8, <2>9, <2>10, <2>11, <2>12 DEF ClaimInv
<1>6. CASE ClaimRefused(c)
  <2>1. Ends(c) BY <1>6, <1>0, IdleEnds DEF ClaimRefused
  <2>2. Numbers' /\ TicketMoves BY <1>6, <1>0 DEF ClaimRefused, Numbers
  <2> QED BY <1>6, <1>0, <2>1, <2>2, EndingKeeps DEF ClaimRefused
<1>7. CASE SignalCommand(c)
  <2>1. Ends(c) BY <1>7, <1>0, IdleEnds DEF SignalCommand
  <2>2. Numbers' /\ TicketMoves BY <1>7, <1>0 DEF SignalCommand, Numbers
  <2> QED BY <1>7, <1>0, <2>1, <2>2, EndingKeeps DEF SignalCommand
<1>8. CASE ScheduleResume(c)
  <2> DEFINE w == NewWorker
  <2>1. th' = [th EXCEPT ![c].at = "start", ![c].peer = w,
                         ![w].at = "new", ![w].kind = "reply", ![w].names = th[c].names]
    BY <1>8 DEF ScheduleResume
  <2>2. w \in Threads /\ th[w].at = "idle" BY <1>8, NewWorkerIdle DEF ScheduleResume
  <2>3. w # c BY <1>8, <2>2 DEF ScheduleResume
  <2> DEFINE f == [th EXCEPT ![c].at = "start", ![c].peer = w]
  <2> HIDE DEF w
  <2>4. f \in [Threads -> Thread] BY <1>0, <2>2 DEF Thread
  <2>5. /\ \A u \in Threads \ {c} : f[u] = th[u]
        /\ f[c].at = "start" /\ f[c].peer = w /\ f[c].kind = th[c].kind
        /\ f[c].names = th[c].names /\ f[c].seen = th[c].seen
    BY <1>0, <2>2 DEF Thread
  <2>6. th' = [f EXCEPT ![w].at = "new", ![w].kind = "reply", ![w].names = th[c].names]
    BY <2>1, <2>3
  <2>7. "new" \in Steps /\ "reply" \in Kinds /\ th[c].names \in Nat BY <1>0 DEF Kinds, Thread
  <2> HIDE DEF f, Steps
  <2>8. th' \in [Threads -> Thread]
    <3> DEFINE g == [f EXCEPT ![w].at = "new", ![w].kind = "reply"]
    <3>1. g \in [Threads -> Thread] BY <2>2, <2>4, <2>7 DEF Thread
    <3>2. th' = [g EXCEPT ![w].names = th[c].names] BY <2>2, <2>4, <2>6
    <3> HIDE DEF g
    <3> QED BY <2>7, <3>1, <3>2 DEF Thread
  <2>9. /\ Changes({c, w})
        /\ th'[c].at = "start" /\ th'[c].peer = w /\ th'[c].kind = th[c].kind
        /\ th'[c].names = th[c].names /\ th'[c].seen = th[c].seen
        /\ th'[w].at = "new" /\ th'[w].kind = "reply" /\ th'[w].seen = th[w].seen
        /\ th'[w].names = th[c].names
    BY <1>0, <2>2, <2>3, <2>4, <2>5, <2>6, <2>8 DEF Changes, Thread
  <2>10. Numbers' /\ UNCHANGED <<asks, ticket>> BY <1>8, <1>0 DEF ScheduleResume, Numbers
  <2>11. th[c].at = "schedule" /\ th[c].kind = "reply"
    BY <1>8, <1>0 DEF ScheduleResume, KindOf
  <2> QED BY <1>0, <2>2, <2>3, <2>9, <2>10, <2>11, LaunchingKeeps
<1>9. CASE StartResume(c)
  <2> DEFINE w == th[c].peer
  <2>1. th' = [th EXCEPT ![c] = Idle, ![w].at = "await"] /\ th[c].at = "start"
    BY <1>9 DEF StartResume
  <2>2. w \in Threads /\ th[w].at = "new" BY <1>0, <2>1 DEF ClaimInv, PeerIsNew, Launching
  <2>3. w # c BY <2>1, <2>2
  <2>4. th[c].peer = w OBVIOUS
  <2> HIDE DEF w
  <2> DEFINE f == [th EXCEPT ![c] = Idle]
  <2>5. f \in [Threads -> Thread] BY <1>0, IdleThread
  <2>6. f[c] = Idle /\ \A u \in Threads \ {c} : f[u] = th[u] BY <1>0
  <2>7. th' = [f EXCEPT ![w].at = "await"] BY <2>1, <2>3
  <2> HIDE DEF f
  <2>8. th' \in [Threads -> Thread] BY <2>2, <2>5, <2>7 DEF Thread
  <2>9. /\ Changes({c, w}) /\ th'[c] = Idle
        /\ th'[w].at = "await" /\ th'[w].kind = th[w].kind /\ th'[w].names = th[w].names
        /\ th'[w].seen = th[w].seen
    BY <1>0, <2>2, <2>3, <2>5, <2>6, <2>7, <2>8 DEF Changes, Thread
  <2>10. Numbers' /\ UNCHANGED <<asks, ticket>> BY <1>9, <1>0 DEF StartResume, Numbers
  <2> QED BY <1>0, <2>1, <2>2, <2>4, <2>9, <2>10, StartedKeeps DEF Launching
<1>10. CASE ClearStop(c)
  <2>1. Goes(c, "enter", th[c].seen)
    BY <1>10, <1>0, GotoGoes DEF ClearStop
  <2>2. Numbers' /\ TicketMoves BY <1>10, <1>0 DEF ClearStop, Numbers
  <2> QED BY <1>10, <1>0, <2>1, <2>2, GoingKeeps DEF ClearStop
<1> QED BY <1>1, <1>2, <1>3, <1>4, <1>5, <1>6, <1>7, <1>8, <1>9, <1>10 DEF CallStep

(* The steps of the resume coordinator.                                     *)
LEMMA WorkerKeepsClaims ==
  ASSUME ClaimInv, NEW w \in Workers, WorkerStep(w) \/ GiveUp(w)
  PROVE  ClaimInv'
<1> USE DEF At, TicketMoves, Guarded, CommandSteps, Steps, ticketVars, coreVars, countVars
<1>0. /\ th \in [Threads -> Thread] /\ w \in Threads /\ th[w] \in Thread
      /\ th[w].seen \in Nat /\ th[w].seen <= asks
      /\ Numbers /\ KindOf
  BY DEF ClaimInv, Seen, Thread, Threads
<1>1. CASE Released(w)
  <2>1. Goes(w, "own", th[w].seen)
    BY <1>1, <1>0, GotoGoes DEF Released
  <2>2. Numbers' /\ TicketMoves BY <1>1, <1>0 DEF Released, Numbers
  <2> QED BY <1>1, <1>0, <2>1, <2>2, GoingKeeps DEF Released
<1>2. CASE GiveUp(w)
  <2>1. Ends(w) BY <1>2, <1>0, IdleEnds DEF GiveUp, WorkerEnds
  <2>2. Numbers' /\ TicketMoves BY <1>2, <1>0 DEF GiveUp, Numbers
  <2> QED BY <1>2, <1>0, <2>1, <2>2, EndingKeeps DEF GiveUp
<1>3. CASE OwnTurn(w)
  <2>0. Numbers' /\ TicketMoves BY <1>3, <1>0 DEF OwnTurn, Numbers
  <2>1. CASE Goto(w, "enter")
    <3>1. Goes(w, "enter", th[w].seen) BY <1>0, <2>1, GotoGoes
    <3> QED BY <1>3, <1>0, <2>0, <3>1, GoingKeeps DEF OwnTurn
  <2>2. CASE WorkerEnds(w)
    <3>1. Ends(w) BY <1>0, <2>2, IdleEnds DEF WorkerEnds
    <3> QED BY <1>3, <1>0, <2>0, <3>1, EndingKeeps DEF OwnTurn
  <2> QED BY <1>3, <2>1, <2>2 DEF OwnTurn
<1> QED BY <1>1, <1>2, <1>3 DEF WorkerStep

(* Failures and restarts.                                                   *)
LEMMA FaultKeepsClaims ==
  ASSUME ClaimInv, Fault
  PROVE  ClaimInv'
<1> USE DEF At, TicketMoves, Guarded, CommandSteps, Steps, ticketVars, coreVars, countVars
<1>0. th \in [Threads -> Thread] /\ Numbers /\ KindOf
  BY DEF ClaimInv
<1>1. ASSUME NEW c \in Callers, LaunchFails(c) PROVE ClaimInv'
  <2> DEFINE w == th[c].peer
  <2>0. c \in Threads BY DEF Threads
  <2>1. th' = [th EXCEPT ![c] = Idle, ![w] = Idle] /\ th[c].at = "launch"
    BY <1>1 DEF LaunchFails
  <2>2. w \in Threads BY <1>0, <2>0, <2>1 DEF ClaimInv, PeerIsNew, Launching
  <2>3. th[c].peer = w OBVIOUS
  <2>4. Numbers' /\ asks' = asks /\ ticket' = ticket
    BY <1>1, <1>0, <2>0, <2>1 DEF LaunchFails, Launching, ClaimInv, Thread, Numbers
  <2> HIDE DEF w
  <2>5. Changes({c, w}) /\ th'[c] = Idle /\ th'[w] = Idle
    BY <1>0, <2>0, <2>1, <2>2, IdleThread DEF Changes
  <2> QED BY <2>0, <2>1, <2>2, <2>3, <2>4, <2>5, <1>0, FailingKeeps DEF Launching
<1>2. ASSUME NEW c \in Callers, StartFails(c) PROVE ClaimInv'
  <2> DEFINE w == th[c].peer
  <2>0. c \in Threads BY DEF Threads
  <2>1. th' = [th EXCEPT ![c] = Idle, ![w] = Idle] /\ th[c].at = "start"
    BY <1>2 DEF StartFails
  <2>2. w \in Threads BY <1>0, <2>0, <2>1 DEF ClaimInv, PeerIsNew, Launching
  <2>3. th[c].peer = w OBVIOUS
  <2>4. /\ Numbers' /\ asks' = asks
        /\ ticket' = ticket \/ (ticket' = th[c].names /\ th[c].kind = "reply")
    BY <1>2, <1>0, <2>0, <2>1
       DEF StartFails, OfferAgain, PeerIsNew, KindOf, Launching, ClaimInv, Thread, Numbers
  <2> HIDE DEF w
  <2>5. Changes({c, w}) /\ th'[c] = Idle /\ th'[w] = Idle
    BY <1>0, <2>0, <2>1, <2>2, IdleThread DEF Changes
  <2> QED BY <2>0, <2>1, <2>2, <2>3, <2>4, <2>5, <1>0, FailingKeeps DEF Launching
<1>3. ASSUME NEW c \in Callers, CommandFails(c) PROVE ClaimInv'
  <2>1. c \in Threads BY DEF Threads
  <2>2. Ends(c) BY <1>3, <1>0, <2>1, IdleEnds DEF CommandFails, CommandRaises
  <2>3. Numbers' /\ TicketMoves BY <1>3, <1>0 DEF CommandFails, Numbers
  <2> QED BY <1>3, <1>0, <2>1, <2>2, <2>3, EndingKeeps DEF CommandFails
<1>4. ASSUME NEW t \in Threads, CoreRaises(t) PROVE ClaimInv'
  <2>1. Goes(t, "fail", th[t].seen) BY <1>4, <1>0, GotoGoes DEF CoreRaises
  <2>2. Numbers' /\ TicketMoves BY <1>4, <1>0 DEF CoreRaises, Numbers
  <2>3. th[t].seen \in Nat BY <1>0 DEF Thread
  <2> QED BY <1>4, <2>1, <2>2, <2>3, GoingKeeps DEF CoreRaises
<1>5. CASE Restart
  <2>1. th' \in [Threads -> Thread] /\ \A t \in Threads : th'[t] = Idle
    BY <1>5, IdleThread DEF Restart
  <2>2. Numbers' BY <1>5, <1>0 DEF Restart, Numbers
  <2> QED BY <2>1, <2>2, IdleThread
      DEF ClaimInv, Numbers, Seen, KindOf, NotOffered, PeerIsNew, PeersDiffer, SingleClaim,
          Replying, Launching
<1> QED BY <1>1, <1>2, <1>3, <1>4, <1>5 DEF Fault

(* A question is claimed once: however replies, submits, cancels, commands, *)
(* failures and restarts interleave, no two threads ever go on with a reply *)
(* to the same question.                                                    *)
THEOREM SingleClaimHolds == Spec => []SingleClaim
<1>1. Init => ClaimInv
  <2> SUFFICES ASSUME Init PROVE ClaimInv
    OBVIOUS
  <2>1. th \in [Threads -> Thread] /\ \A t \in Threads : th[t] = Idle BY IdleThread DEF Init
  <2>2. Numbers BY DEF Init, Numbers
  <2> QED BY <2>1, <2>2, IdleThread
      DEF ClaimInv, Numbers, Seen, KindOf, NotOffered, PeerIsNew, PeersDiffer, SingleClaim,
          Replying, Launching, CommandSteps
<1>2. ClaimInv /\ [Next]_vars => ClaimInv'
  <2> SUFFICES ASSUME ClaimInv, [Next]_vars PROVE ClaimInv'
    OBVIOUS
  <2>1. CASE \E c \in Callers : Call(c) BY <2>1, CallKeepsClaims
  <2>2. CASE \E c \in Callers : CallStep(c) BY <2>2, CallStepKeepsClaims
  <2>3. CASE \E c \in Callers : CommandStep(c) BY <2>3, CommandKeepsClaims
  <2>4. CASE \E w \in Workers : WorkerStep(w) \/ GiveUp(w) BY <2>4, WorkerKeepsClaims
  <2>5. CASE \E t \in Threads : TurnStep(t) BY <2>5, TurnKeepsClaims
  <2>6. CASE Fault BY <2>6, FaultKeepsClaims
  <2>7. CASE UNCHANGED vars
    BY <2>7 DEF vars, coreVars, ticketVars, ClaimInv, Numbers, Seen, KindOf, NotOffered, PeerIsNew,
                PeersDiffer, SingleClaim, Replying, Launching
  <2> QED BY <2>1, <2>2, <2>3, <2>4, <2>5, <2>6, <2>7 DEF Next
<1>3. ClaimInv => SingleClaim BY DEF ClaimInv
<1> QED BY <1>1, <1>2, <1>3, PTL DEF Spec
-----------------------------------------------------------------------------
(* Numbers a thread keeps are those of questions that were asked; the event *)
(* to set and the question to resolve are some.                             *)
Fits(r, n) ==
  /\ r.names \in 0 .. n /\ r.pid \in 0 .. n /\ r.seen \in 0 .. n
  /\ r.at \in {"signal", "resolve"} => r.pid # 0

Threaded == \A t \in Threads : Fits(th[t], asks)

TypeInv == TypeOK /\ Threaded

(* A thread that has ended.                                                 *)
LEMMA IdleTyped == Idle \in Thread /\ \A n \in Nat : Fits(Idle, n)
<1>1. Idle \in Thread BY DEF Idle, Thread, Steps, Kinds
<1>2. Idle.names = 0 /\ Idle.pid = 0 /\ Idle.seen = 0 /\ Idle.at = "idle" BY DEF Idle
<1> QED BY <1>1, <1>2 DEF Fits

(* More questions were asked since.                                         *)
LEMMA FitsMore ==
  ASSUME NEW r, NEW n \in Nat, NEW m \in Nat, n <= m, Fits(r, n)
  PROVE  Fits(r, m)
BY DEF Fits

(* What the steps below need to know of a well typed state.                *)
LEMMA Asked ==
  ASSUME TypeInv
  PROVE  /\ asks \in Nat /\ asks <= asks /\ MaxAsks \in Nat
         /\ MaxCalls \in Nat /\ MaxFaults \in Nat
         /\ th \in [Threads -> Thread]
         /\ \A t \in Threads : Fits(th[t], asks)
BY HostAssumption DEF TypeInv, TypeOK, Threaded

(* One thread changed, or two.                                              *)
LEMMA OthersFit ==
  ASSUME TypeInv, th' \in [Threads -> Thread], asks' \in Nat, asks <= asks', NEW t \in Threads,
         \A u \in Threads \ {t} : th'[u] = th[u], Fits(th'[t], asks')
  PROVE  th' \in [Threads -> Thread] /\ Threaded'
<1>1. ASSUME NEW u \in Threads PROVE Fits(th'[u], asks')
  <2>1. CASE u # t
    <3>1. th'[u] = th[u] /\ Fits(th[u], asks) BY <2>1, Asked
    <3> QED BY <3>1, Asked, FitsMore
  <2> QED BY <2>1
<1> QED BY <1>1 DEF Threaded

LEMMA TwoFit ==
  ASSUME TypeInv, th' \in [Threads -> Thread], asks' \in Nat, asks <= asks',
         NEW t \in Threads, NEW w,
         \A u \in Threads \ {t, w} : th'[u] = th[u], Fits(th'[t], asks'),
         w \in Threads => Fits(th'[w], asks')
  PROVE  th' \in [Threads -> Thread] /\ Threaded'
<1>1. ASSUME NEW u \in Threads PROVE Fits(th'[u], asks')
  <2>1. CASE u \notin {t, w}
    <3>1. th'[u] = th[u] /\ Fits(th[u], asks) BY <2>1, Asked
    <3> QED BY <3>1, Asked, FitsMore
  <2> QED BY <2>1
<1> QED BY <1>1 DEF Threaded

(* A step that changes two threads keeps every thread a thread.             *)
LEMMA TwoTyped ==
  ASSUME NEW f \in [Threads -> Thread], NEW a \in Threads, NEW b \in Threads,
         NEW s \in Steps, NEW z \in Steps, NEW k \in Kinds
  PROVE  [f EXCEPT ![a].at = s, ![a].peer = b, ![b].at = z, ![b].kind = k] \in [Threads -> Thread]
<1> DEFINE g == [f EXCEPT ![a].at = s, ![a].peer = b]
<1>1. g \in [Threads -> Thread] BY DEF Thread
<1>2. [f EXCEPT ![a].at = s, ![a].peer = b, ![b].at = z, ![b].kind = k]
      = [g EXCEPT ![b].at = z, ![b].kind = k]
  BY DEF Thread
<1> HIDE DEF g
<1>3. [g EXCEPT ![b].at = z, ![b].kind = k] \in [Threads -> Thread] BY <1>1 DEF Thread
<1> QED BY <1>2, <1>3

LEMMA IdleAndStep ==
  ASSUME NEW f \in [Threads -> Thread], NEW a \in Threads, NEW b, NEW s \in Steps, NEW i \in Thread
  PROVE  [f EXCEPT ![a] = i, ![b].at = s] \in [Threads -> Thread]
<1> DEFINE g == [f EXCEPT ![a] = i]
<1>1. g \in [Threads -> Thread] BY DEF Thread
<1>2. [f EXCEPT ![a] = i, ![b].at = s] = [g EXCEPT ![b].at = s] BY DEF Thread
<1> HIDE DEF g
<1>3. [g EXCEPT ![b].at = s] \in [Threads -> Thread] BY <1>1 DEF Thread
<1> QED BY <1>2, <1>3

LEMMA IdleBoth ==
  ASSUME NEW f \in [Threads -> Thread], NEW a \in Threads, NEW b, NEW i \in Thread
  PROVE  [f EXCEPT ![a] = i, ![b] = i] \in [Threads -> Thread]
<1> DEFINE g == [f EXCEPT ![a] = i]
<1>1. g \in [Threads -> Thread] OBVIOUS
<1>2. [f EXCEPT ![a] = i, ![b] = i] = [g EXCEPT ![b] = i] OBVIOUS
<1> HIDE DEF g
<1> QED BY <1>1, <1>2

(* One thread goes on, or ends.                                             *)
LEMMA GotoFits ==
  ASSUME TypeInv, UNCHANGED asks, NEW t \in Threads, NEW s \in Steps, s # "signal",
         s = "resolve" => th[t].pid # 0, Goto(t, s)
  PROVE  th' \in [Threads -> Thread] /\ Threaded'
<1>1. th' = [th EXCEPT ![t].at = s] BY DEF Goto
<1>2. th' \in [Threads -> Thread] BY <1>1, Asked DEF Thread
<1>3. \A u \in Threads : Fits(th'[u], asks) BY <1>1, Asked DEF Fits, Thread
<1> QED BY <1>2, <1>3 DEF Threaded

LEMMA IdleFits ==
  ASSUME TypeInv, UNCHANGED asks, NEW t \in Threads, th' = [th EXCEPT ![t] = Idle]
  PROVE  th' \in [Threads -> Thread] /\ Threaded'
<1>1. th' \in [Threads -> Thread] BY Asked, IdleTyped
<1>2. \A u \in Threads : Fits(th'[u], asks) BY Asked, IdleTyped
<1> QED BY <1>1, <1>2 DEF Threaded

(* Each kind of step keeps the state well typed.                            *)
LEMMA TurnTypes ==
  ASSUME TypeInv, NEW t \in Threads, TurnStep(t)
  PROVE  TypeInv'
<1> USE DEF At
<1>0. t \in Threads /\ th[t] \in Thread /\ th \in [Threads -> Thread] BY Asked DEF Threads
<1>1. CASE Enter(t)
  <2> DEFINE p == IF projection # 0 THEN projection ELSE ticket
  <2>0. p \in 0 .. asks /\ p \in Nat BY DEF TypeInv, TypeOK
  <2>1. th' \in [Threads -> Thread] /\ Threaded'
    <3>1. th' = [th EXCEPT ![t].at = "clear", ![t].pid = p] /\ asks' = asks
      BY <1>1 DEF Enter, countVars, Offer
    <3>2. th' \in [Threads -> Thread] BY <1>0, <3>1, <2>0, ZenonT(40) DEF Thread, Steps, Kinds
    <3> QED BY <3>1, <3>2, Asked, <2>0, OthersFit DEF Fits, Thread
  <2>9. TypeOK'
    BY <1>1, Asked, <2>1
       DEF Enter, TypeInv, TypeOK, coreVars, ticketVars, workVars, countVars, historyVars
  <2> QED BY <2>1, <2>9 DEF TypeInv
<1>2. CASE Clear(t)
  <2>1. th' \in [Threads -> Thread] /\ Threaded'
    BY <1>2, <1>0, Asked, GotoFits DEF Clear, Steps, countVars
  <2>9. TypeOK'
    BY <1>2, Asked, <2>1
       DEF Clear, TypeInv, TypeOK, coreVars, ticketVars, workVars, countVars, historyVars
  <2> QED BY <2>1, <2>9 DEF TypeInv
<1>3. CASE EnterCore(t)
  <2>1. th' \in [Threads -> Thread] /\ Threaded'
    BY <1>3, <1>0, Asked, GotoFits DEF EnterCore, Steps, countVars
  <2>9. TypeOK'
    BY <1>3, Asked, <2>1
       DEF EnterCore, TypeInv, TypeOK, coreVars, ticketVars, workVars, countVars, historyVars
  <2> QED BY <2>1, <2>9 DEF TypeInv
<1>4. CASE Resolve(t)
  <2>1. th' \in [Threads -> Thread] /\ Threaded'
    BY <1>4, <1>0, Asked, GotoFits DEF Resolve, Steps, countVars
  <2>9. TypeOK'
    BY <1>4, Asked, <2>1
       DEF Resolve, Fits, TypeInv, TypeOK, coreVars, ticketVars, workVars, countVars, historyVars
  <2> QED BY <2>1, <2>9 DEF TypeInv
<1>5. CASE Ask(t)
  <2>0. asks + 1 \in Nat BY Asked
  <2>1. th' \in [Threads -> Thread] /\ Threaded'
    <3>1. th' = [th EXCEPT ![t].at = "ask", ![t].seen = asks + 1, ![t].out = "wait"] /\ asks' =
          asks + 1
      BY <1>5 DEF Ask, countVars, Offer
    <3>2. th' \in [Threads -> Thread] BY <1>0, <3>1, <2>0, ZenonT(40) DEF Thread, Steps, Kinds
    <3> QED BY <3>1, <3>2, Asked, <2>0, OthersFit DEF Fits, Thread
  <2>9. TypeOK'
    BY <1>5, Asked, <2>1
       DEF Ask, Offer, TypeInv, TypeOK, coreVars, ticketVars, workVars, countVars, historyVars
  <2> QED BY <2>1, <2>9 DEF TypeInv
<1>6. CASE Suspend(t)
  <2>1. th' \in [Threads -> Thread] /\ Threaded'
    BY <1>6, <1>0, Asked, GotoFits DEF Suspend, Steps, countVars
  <2>9. TypeOK'
    BY <1>6, Asked, <2>1
       DEF Suspend, Fits, TypeInv, TypeOK, coreVars, ticketVars, workVars, countVars, historyVars
  <2> QED BY <2>1, <2>9 DEF TypeInv
<1>7. CASE EndTurn(t)
  <2>1. th' \in [Threads -> Thread] /\ Threaded'
    <3>1. th' = [th EXCEPT ![t].at = "snapshot", ![t].out = "done"] /\ asks' = asks
      BY <1>7 DEF EndTurn, countVars, Offer
    <3>2. th' \in [Threads -> Thread] BY <1>0, <3>1, ZenonT(40) DEF Thread, Steps, Kinds
    <3> QED BY <3>1, <3>2, Asked, OthersFit DEF Fits, Thread
  <2>9. TypeOK'
    BY <1>7, Asked, <2>1
       DEF EndTurn, TypeInv, TypeOK, coreVars, ticketVars, workVars, countVars, historyVars
  <2> QED BY <2>1, <2>9 DEF TypeInv
<1>8. CASE Snapshot(t)
  <2>1. th' \in [Threads -> Thread] /\ Threaded'
    <3>1. CASE lease = None
      <4>1. th' = [th EXCEPT ![t].at = "release", ![t].seen = pending] /\ asks' = asks
        BY <1>8, <3>1 DEF Snapshot, countVars
      <4>2. pending \in 0 .. asks /\ pending \in Nat BY DEF TypeInv, TypeOK
      <4>3. th' \in [Threads -> Thread] BY <1>0, <4>1, <4>2 DEF Thread, Steps
      <4> QED BY <4>1, <4>2, <4>3, Asked, OthersFit DEF Fits, Thread
    <3>2. CASE lease # None
      <4>1. asks' = asks /\ (th' = [th EXCEPT ![t] = Idle] \/ Goto(t, "fail"))
        BY <1>8, <3>2 DEF Snapshot, countVars, Goto
      <4> QED BY <4>1, IdleFits, GotoFits DEF Steps
    <3> QED BY <3>1, <3>2
  <2>9. TypeOK'
    BY <1>8, Asked, <2>1
       DEF Snapshot, TypeInv, TypeOK, coreVars, ticketVars, workVars, countVars, historyVars
  <2> QED BY <2>1, <2>9 DEF TypeInv
<1>9. CASE ReleaseSnapshot(t)
  <2>1. th' \in [Threads -> Thread] /\ Threaded'
    BY <1>9, <1>0, Asked, GotoFits DEF ReleaseSnapshot, Steps, countVars
  <2>9. TypeOK'
    BY <1>9, Asked, <2>1
       DEF ReleaseSnapshot, TypeInv, TypeOK, coreVars, ticketVars, workVars, countVars,
           historyVars
  <2> QED BY <2>1, <2>9 DEF TypeInv
<1>10. CASE ApplyProjection(t)
  <2>1. th' \in [Threads -> Thread] /\ Threaded'
    <3>1. asks' = asks /\ (th' = [th EXCEPT ![t] = Idle] \/ Goto(t, "settle"))
      BY <1>10 DEF ApplyProjection, countVars, Goto
    <3> QED BY <3>1, IdleFits, GotoFits DEF Steps
  <2>9. TypeOK'
    BY <1>10, Asked, <2>1
       DEF ApplyProjection, Fits, TypeInv, TypeOK, coreVars, ticketVars, workVars, countVars,
           historyVars
  <2> QED BY <2>1, <2>9 DEF TypeInv
<1>11. CASE Settle(t)
  <2>1. th' \in [Threads -> Thread] /\ Threaded'
    BY <1>11, <1>0, Asked, IdleFits DEF Settle, WorkerEnds, EndWith, countVars
  <2>9. TypeOK'
    BY <1>11, Asked, <2>1
       DEF Settle, WorkerEnds, EndWith, TypeInv, TypeOK, coreVars, ticketVars, workVars,
           countVars, historyVars
  <2> QED BY <2>1, <2>9 DEF TypeInv
<1>12. CASE Fail(t)
  <2>1. th' \in [Threads -> Thread] /\ Threaded'
    BY <1>12, <1>0, Asked, IdleFits DEF Fail, WorkerEnds, countVars
  <2>9. TypeOK'
    BY <1>12, Asked, <2>1
       DEF Fail, WorkerEnds, TypeInv, TypeOK, coreVars, ticketVars, workVars, countVars,
           historyVars
  <2> QED BY <2>1, <2>9 DEF TypeInv
<1> QED BY <1>1, <1>2, <1>3, <1>4, <1>5, <1>6, <1>7, <1>8, <1>9, <1>10, <1>11, <1>12 DEF TurnStep

LEMMA CallTypes ==
  ASSUME TypeInv, NEW c \in Callers, Call(c)
  PROVE  TypeInv'
<1> USE DEF At
<1>0. c \in Threads /\ th[c] \in Thread /\ th \in [Threads -> Thread] BY Asked DEF Threads
<1>1. CASE \E kind \in {"wait", "background", "command"} : Submit(c, kind)
  <2>0. PICK kind \in {"wait", "background", "command"} : Submit(c, kind) BY <1>1
  <2>1. th' \in [Threads -> Thread] /\ Threaded'
    <3> DEFINE s == IF kind = "command" THEN "command" ELSE "submit"
    <3>1. th' = [th EXCEPT ![c].at = s, ![c].kind = kind] /\ asks' = asks
      BY <2>0 DEF Submit, countVars
    <3>2. s \in Steps /\ kind \in Kinds /\ s \notin {"signal", "resolve"} BY DEF Steps, Kinds
    <3> HIDE DEF s
    <3> DEFINE g == [th EXCEPT ![c].at = s]
    <3>3. g \in [Threads -> Thread] BY <3>2, Asked DEF Thread
    <3>4. th' = [g EXCEPT ![c].kind = kind] BY <1>0, <3>1 DEF Thread
    <3> HIDE DEF g
    <3>5. th' \in [Threads -> Thread] BY <3>2, <3>3, <3>4 DEF Thread
    <3>6. /\ \A u \in Threads \ {c} : th'[u] = th[u]
          /\ th'[c] = [th[c] EXCEPT !.at = s, !.kind = kind]
      BY <1>0, <3>1
    <3>7. Fits(th'[c], asks) BY <1>0, <3>2, <3>6, Asked DEF Fits, Thread
    <3> QED BY <1>0, <3>1, <3>5, <3>6, <3>7, Asked, OthersFit
  <2>2. calls' \in 0 .. MaxCalls /\ disturbed' \in BOOLEAN /\ stop' = FALSE
    BY <2>0, Asked DEF Submit, Called, Begins, TypeInv, TypeOK
  <2>3. UNCHANGED <<pending, lease, status, ticket, claim, event, response, active, resume,
                    projection, woken, asks, faults, answers, dropped>>
    BY <2>0 DEF Submit, coreVars, ticketVars, workVars
  <2>4. TypeOK BY DEF TypeInv
  <2>9. TypeOK'
    BY <2>1, <2>2, <2>3, <2>4 DEF TypeOK
  <2> QED BY <2>1, <2>9 DEF TypeInv
<1>2. CASE Respond(c)
  <2>0. ticket \in 0 .. asks /\ ticket \in Nat BY DEF TypeInv, TypeOK
  <2>1. th' \in [Threads -> Thread] /\ Threaded'
    <3>1. th' = [th EXCEPT ![c].at = "claim", ![c].kind = "reply", ![c].names = ticket] /\ asks'
          = asks
      BY <1>2 DEF Respond, countVars, Offer
    <3>2. th' \in [Threads -> Thread] BY <1>0, <3>1, <2>0, ZenonT(40) DEF Thread, Steps, Kinds
    <3> QED BY <3>1, <3>2, Asked, <2>0, OthersFit DEF Fits, Thread
  <2>9. TypeOK'
    BY <1>2, Asked, <2>1
       DEF Respond, Called, Begins, StatusAfterCancel, TypeInv, TypeOK, coreVars, ticketVars,
           workVars, countVars, historyVars
  <2> QED BY <2>1, <2>9 DEF TypeInv
<1>3. CASE CancelTurn(c)
  <2>1. th' \in [Threads -> Thread] /\ Threaded'
    BY <1>3, Asked DEF CancelTurn, Threaded, countVars
  <2>9. TypeOK'
    BY <1>3, Asked, <2>1
       DEF CancelTurn, Called, Begins, StatusAfterCancel, TypeInv, TypeOK, coreVars, ticketVars,
           workVars, countVars, historyVars
  <2> QED BY <2>1, <2>9 DEF TypeInv
<1>4. CASE CancelCommand(c)
  <2>1. th' \in [Threads -> Thread] /\ Threaded'
    BY <1>4, Asked DEF CancelCommand, Threaded, countVars
  <2>9. TypeOK'
    BY <1>4, Asked, <2>1
       DEF CancelCommand, Called, Begins, StatusAfterCancel, TypeInv, TypeOK, coreVars,
           ticketVars, workVars, countVars, historyVars
  <2> QED BY <2>1, <2>9 DEF TypeInv
<1>5. CASE CancelQuestion(c)
  <2>1. th' \in [Threads -> Thread] /\ Threaded'
    <3>1. th' = [th EXCEPT ![c].at = "unstop", ![c].kind = "refusal"] /\ asks' = asks
      BY <1>5 DEF CancelQuestion, countVars, Offer
    <3>2. th' \in [Threads -> Thread] BY <1>0, <3>1, ZenonT(40) DEF Thread, Steps, Kinds
    <3> QED BY <3>1, <3>2, Asked, OthersFit DEF Fits, Thread
  <2>9. TypeOK'
    BY <1>5, Asked, <2>1
       DEF CancelQuestion, Called, Begins, StatusAfterCancel, TypeInv, TypeOK, coreVars,
           ticketVars, workVars, countVars, historyVars
  <2> QED BY <2>1, <2>9 DEF TypeInv
<1>6. CASE SetMode(c)
  <2>1. th' \in [Threads -> Thread] /\ Threaded'
    <3>1. th' = [th EXCEPT ![c].at = "snapshot", ![c].kind = "mode"] /\ asks' = asks
      BY <1>6 DEF SetMode, countVars, Offer
    <3>2. th' \in [Threads -> Thread] BY <1>0, <3>1, ZenonT(40) DEF Thread, Steps, Kinds
    <3> QED BY <3>1, <3>2, Asked, OthersFit DEF Fits, Thread
  <2>9. TypeOK'
    BY <1>6, Asked, <2>1
       DEF SetMode, Called, Begins, StatusAfterCancel, TypeInv, TypeOK, coreVars, ticketVars,
           workVars, countVars, historyVars
  <2> QED BY <2>1, <2>9 DEF TypeInv
<1> QED BY <1>1, <1>2, <1>3, <1>4, <1>5, <1>6 DEF Call

LEMMA CallStepTypes ==
  ASSUME TypeInv, NEW c \in Callers, CallStep(c)
  PROVE  TypeInv'
<1> USE DEF At
<1>0. c \in Threads /\ th[c] \in Thread /\ th \in [Threads -> Thread] BY Asked DEF Threads
<1>1. CASE MarkRunning(c)
  <2>1. th' \in [Threads -> Thread] /\ Threaded'
    BY <1>1, <1>0, Asked, GotoFits DEF MarkRunning, Steps, countVars
  <2>9. TypeOK'
    BY <1>1, Asked, <2>1
       DEF MarkRunning, TypeInv, TypeOK, coreVars, ticketVars, workVars, countVars, historyVars
  <2> QED BY <2>1, <2>9 DEF TypeInv
<1>2. CASE RunHere(c)
  <2>1. th' \in [Threads -> Thread] /\ Threaded'
    BY <1>2, <1>0, Asked, GotoFits DEF RunHere, Steps, countVars
  <2>9. TypeOK'
    BY <1>2, Asked, <2>1
       DEF RunHere, Threads, TypeInv, TypeOK, coreVars, ticketVars, workVars, countVars,
           historyVars
  <2> QED BY <2>1, <2>9 DEF TypeInv
<1>3. CASE RegisterTurn(c)
  <2>0. NewWorker \in Workers /\ NewWorker \in Threads BY <1>3, NewWorkerIdle DEF RegisterTurn
  <2>1. th' \in [Threads -> Thread] /\ Threaded'
    <3>1. th' = [th EXCEPT ![c].at = "launch", ![c].peer = NewWorker, ![NewWorker].at = "new", ![NewWorker].kind = "background"] /\ asks' = asks
      BY <1>3 DEF RegisterTurn, countVars
    <3>2. "launch" \in Steps /\ "new" \in Steps /\ "background" \in Kinds BY DEF Steps, Kinds
    <3>3. th' \in [Threads -> Thread]
      <4>1. [th EXCEPT ![c].at = "launch", ![c].peer = NewWorker, ![NewWorker].at = "new",
                       ![NewWorker].kind = "background"] \in [Threads -> Thread]
        BY <1>0, <2>0, <3>2, TwoTyped
      <4> QED BY <3>1, <4>1
    <3>4. c # NewWorker BY <2>0, HostAssumption
    <3>5. Fits(th[c], asks) /\ Fits(th[NewWorker], asks) /\ th[NewWorker] \in Thread
      BY <1>0, <2>0, Asked
    <3>6. Fits(th'[c], asks) /\ Fits(th'[NewWorker], asks)
      BY <1>0, <2>0, <3>1, <3>4, <3>5 DEF Fits, Thread
    <3>7. \A u \in Threads \ {c, NewWorker} : th'[u] = th[u] BY <1>0, <3>1
    <3> QED BY <1>0, <2>0, <3>1, <3>3, <3>6, <3>7, Asked, TwoFit
  <2>9. TypeOK'
    BY <1>3, Asked, <2>1, <2>0
       DEF RegisterTurn, TypeInv, TypeOK, coreVars, ticketVars, workVars, countVars, historyVars
  <2> QED BY <2>1, <2>9 DEF TypeInv
<1>4. CASE LaunchTurn(c)
  <2>1. th' \in [Threads -> Thread] /\ Threaded'
    <3>1. th' = [th EXCEPT ![c] = Idle, ![th[c].peer].at = "clear"] /\ asks' = asks
      BY <1>4 DEF LaunchTurn, countVars
    <3>2. "clear" \in Steps BY DEF Steps
    <3>3. th' \in [Threads -> Thread] BY <1>0, <3>1, <3>2, IdleTyped, IdleAndStep
    <3> DEFINE w == th[c].peer
    <3>4. w \in Threads => Fits(th[w], asks) /\ th[w] \in Thread BY <1>0, Asked
    <3>5. Fits(Idle, asks) /\ Idle \in Thread BY IdleTyped, Asked
    <3>6. \A u \in Threads \ {c, w} : th'[u] = th[u] BY <1>0, <3>1
    <3>7. w \in Threads => Fits(th'[w], asks) BY <1>0, <3>1, <3>4, <3>5 DEF Fits, Thread
    <3>8. Fits(th'[c], asks) BY <1>0, <3>1, <3>5, <3>7 DEF Fits, Thread
    <3> HIDE DEF w
    <3> QED BY <1>0, <3>1, <3>3, <3>6, <3>7, <3>8, Asked, TwoFit
  <2>9. TypeOK'
    BY <1>4, Asked, <2>1
       DEF LaunchTurn, TypeInv, TypeOK, coreVars, ticketVars, workVars, countVars, historyVars
  <2> QED BY <2>1, <2>9 DEF TypeInv
<1>5. CASE Claim(c)
  <2>0. event \in 0 .. asks /\ event \in Nat BY DEF TypeInv, TypeOK
  <2>1. th' \in [Threads -> Thread] /\ Threaded'
    <3> DEFINE s == IF event # 0 THEN "signal" ELSE "schedule"
    <3>0. s \in Steps /\ s # "resolve" /\ (s = "signal" => event # 0) BY DEF Steps
    <3>1. th' = [th EXCEPT ![c].at = s, ![c].pid = event] /\ asks' = asks
      BY <1>5 DEF Claim, countVars, Offer
    <3> HIDE DEF s
    <3>2. s \in Steps /\ event \in Nat BY <2>0, <3>0
    <3>3. th' \in [Threads -> Thread] BY <1>0, <3>1, <3>2 DEF Thread
    <3> QED BY <3>1, <3>3, Asked, <2>0, <3>0, OthersFit DEF Fits, Thread
  <2>9. TypeOK'
    BY <1>5, Asked, <2>1
       DEF Claim, BeginsAnswer, TypeInv, TypeOK, coreVars, ticketVars, workVars, countVars,
           historyVars
  <2> QED BY <2>1, <2>9 DEF TypeInv
<1>6. CASE ClaimRefused(c)
  <2>1. th' \in [Threads -> Thread] /\ Threaded'
    BY <1>6, <1>0, Asked, IdleFits DEF ClaimRefused, countVars
  <2>9. TypeOK'
    BY <1>6, Asked, <2>1
       DEF ClaimRefused, TypeInv, TypeOK, coreVars, ticketVars, workVars, countVars, historyVars
  <2> QED BY <2>1, <2>9 DEF TypeInv
<1>7. CASE SignalCommand(c)
  <2>1. th' \in [Threads -> Thread] /\ Threaded'
    BY <1>7, <1>0, Asked, IdleFits DEF SignalCommand, Decide, Fits, countVars
  <2>8. th[c].pid \in 1 .. asks BY <1>7, <1>0, Asked DEF SignalCommand, Fits
  <2>9. TypeOK'
    BY <1>7, Asked, <2>1, <2>8
       DEF SignalCommand, Decide, TypeInv, TypeOK, coreVars, ticketVars, workVars, countVars,
           historyVars
  <2> QED BY <2>1, <2>9 DEF TypeInv
<1>8. CASE ScheduleResume(c)
  <2>0. NewWorker \in Workers /\ NewWorker \in Threads BY <1>8, NewWorkerIdle DEF ScheduleResume
  <2>1. th' \in [Threads -> Thread] /\ Threaded'
    <3>1. th' = [th EXCEPT ![c].at = "start", ![c].peer = NewWorker, ![NewWorker].at = "new", ![NewWorker].kind = "reply", ![NewWorker].names = th[c].names] /\ asks' = asks
      BY <1>8 DEF ScheduleResume, countVars
    <3>2. "start" \in Steps /\ "new" \in Steps /\ "reply" \in Kinds BY DEF Steps, Kinds
    <3>3. th' \in [Threads -> Thread]
      <4> DEFINE n == th[c].names
      <4>1. n \in Nat BY <1>0 DEF Thread
      <4>2. th' = [th EXCEPT ![c].at = "start", ![c].peer = NewWorker, ![NewWorker].at = "new",
                             ![NewWorker].kind = "reply", ![NewWorker].names = n]
        BY <3>1
      <4> HIDE DEF n
      <4> DEFINE g == [th EXCEPT ![c].at = "start", ![c].peer = NewWorker, ![NewWorker].at = "new",
                                 ![NewWorker].kind = "reply"]
      <4>3. g \in [Threads -> Thread] BY <1>0, <2>0, <3>2, TwoTyped
      <4>4. th' = [g EXCEPT ![NewWorker].names = n] BY <4>2
      <4> HIDE DEF g
      <4> QED BY <2>0, <4>1, <4>3, <4>4 DEF Thread
    <3>4. c # NewWorker BY <2>0, HostAssumption
    <3>5. Fits(th[c], asks) /\ Fits(th[NewWorker], asks) /\ th[NewWorker] \in Thread
      BY <1>0, <2>0, Asked
    <3>6. Fits(th'[c], asks) /\ Fits(th'[NewWorker], asks)
      BY <1>0, <2>0, <3>1, <3>4, <3>5 DEF Fits, Thread
    <3>7. \A u \in Threads \ {c, NewWorker} : th'[u] = th[u] BY <1>0, <3>1
    <3> QED BY <1>0, <2>0, <3>1, <3>3, <3>6, <3>7, Asked, TwoFit
  <2>9. TypeOK'
    BY <1>8, Asked, <2>1, <2>0
       DEF ScheduleResume, Decide, TypeInv, TypeOK, coreVars, ticketVars, workVars, countVars,
           historyVars
  <2> QED BY <2>1, <2>9 DEF TypeInv
<1>9. CASE StartResume(c)
  <2>1. th' \in [Threads -> Thread] /\ Threaded'
    <3>1. th' = [th EXCEPT ![c] = Idle, ![th[c].peer].at = "await"] /\ asks' = asks
      BY <1>9 DEF StartResume, countVars
    <3>2. "await" \in Steps BY DEF Steps
    <3>3. th' \in [Threads -> Thread] BY <1>0, <3>1, <3>2, IdleTyped, IdleAndStep
    <3> DEFINE w == th[c].peer
    <3>4. w \in Threads => Fits(th[w], asks) /\ th[w] \in Thread BY <1>0, Asked
    <3>5. Fits(Idle, asks) /\ Idle \in Thread BY IdleTyped, Asked
    <3>6. \A u \in Threads \ {c, w} : th'[u] = th[u] BY <1>0, <3>1
    <3>7. w \in Threads => Fits(th'[w], asks) BY <1>0, <3>1, <3>4, <3>5 DEF Fits, Thread
    <3>8. Fits(th'[c], asks) BY <1>0, <3>1, <3>5, <3>7 DEF Fits, Thread
    <3> HIDE DEF w
    <3> QED BY <1>0, <3>1, <3>3, <3>6, <3>7, <3>8, Asked, TwoFit
  <2>9. TypeOK'
    BY <1>9, Asked, <2>1
       DEF StartResume, TypeInv, TypeOK, coreVars, ticketVars, workVars, countVars, historyVars
  <2> QED BY <2>1, <2>9 DEF TypeInv
<1>10. CASE ClearStop(c)
  <2>1. th' \in [Threads -> Thread] /\ Threaded'
    BY <1>10, <1>0, Asked, GotoFits DEF ClearStop, Steps, countVars
  <2>9. TypeOK'
    BY <1>10, Asked, <2>1
       DEF ClearStop, TypeInv, TypeOK, coreVars, ticketVars, workVars, countVars, historyVars
  <2> QED BY <2>1, <2>9 DEF TypeInv
<1> QED BY <1>1, <1>2, <1>3, <1>4, <1>5, <1>6, <1>7, <1>8, <1>9, <1>10 DEF CallStep

LEMMA CommandTypes ==
  ASSUME TypeInv, NEW c \in Callers, CommandStep(c)
  PROVE  TypeInv'
<1> USE DEF At
<1>0. c \in Threads /\ th[c] \in Thread /\ th \in [Threads -> Thread] BY Asked DEF Threads
<1>1. CASE CommandRecords(c)
  <2>1. th' \in [Threads -> Thread] /\ Threaded'
    BY <1>1, <1>0, Asked, GotoFits DEF CommandRecords, Steps, countVars
  <2>9. TypeOK'
    BY <1>1, Asked, <2>1
       DEF CommandRecords, TypeInv, TypeOK, coreVars, ticketVars, workVars, countVars, historyVars
  <2> QED BY <2>1, <2>9 DEF TypeInv
<1>2. CASE CommandStarts(c)
  <2>1. th' \in [Threads -> Thread] /\ Threaded'
    BY <1>2, <1>0, Asked, GotoFits DEF CommandStarts, Steps, countVars
  <2>9. TypeOK'
    BY <1>2, Asked, <2>1
       DEF CommandStarts, TypeInv, TypeOK, coreVars, ticketVars, workVars, countVars, historyVars
  <2> QED BY <2>1, <2>9 DEF TypeInv
<1>3. CASE EnterCommand(c)
  <2>1. th' \in [Threads -> Thread] /\ Threaded'
    <3>1. \/ th' = [th EXCEPT ![c] = Idle]
          \/ \E s \in {"cmdwork", "cmdanswer"} : Goto(c, s)
      BY <1>3 DEF EnterCommand, CommandRaises, countVars
    <3>0. UNCHANGED asks BY <1>3 DEF EnterCommand, countVars
    <3>2. ASSUME th' = [th EXCEPT ![c] = Idle] PROVE th' \in [Threads -> Thread] /\ Threaded'
      BY <1>0, <3>0, <3>2, IdleFits
    <3>3. ASSUME NEW s \in {"cmdwork", "cmdanswer"}, Goto(c, s)
          PROVE  th' \in [Threads -> Thread] /\ Threaded'
      <4>1. s \in Steps /\ s # "signal" /\ s # "resolve" BY DEF Steps
      <4> QED BY <1>0, <3>0, <3>3, <4>1, GotoFits
    <3> QED BY <3>1, <3>2, <3>3
  <2>9. TypeOK'
    BY <1>3, Asked, <2>1
       DEF EnterCommand, CommandRaises, Threads, TypeInv, TypeOK, coreVars, ticketVars, workVars,
           countVars, historyVars
  <2> QED BY <2>1, <2>9 DEF TypeInv
<1>4. CASE CommandAsks(c)
  <2>0. asks + 1 \in Nat BY Asked
  <2>1. th' \in [Threads -> Thread] /\ Threaded'
    <3>1. th' = [th EXCEPT ![c].at = "cmdask", ![c].seen = asks + 1] /\ asks' = asks + 1
      BY <1>4 DEF CommandAsks, countVars, Offer
    <3>2. th' \in [Threads -> Thread] BY <1>0, <3>1, <2>0, ZenonT(40) DEF Thread, Steps, Kinds
    <3> QED BY <3>1, <3>2, Asked, <2>0, OthersFit DEF Fits, Thread
  <2>9. TypeOK'
    BY <1>4, Asked, <2>1
       DEF CommandAsks, Offer, TypeInv, TypeOK, coreVars, ticketVars, workVars, countVars,
           historyVars
  <2> QED BY <2>1, <2>9 DEF TypeInv
<1>5. CASE CreateEvent(c)
  <2>1. th' \in [Threads -> Thread] /\ Threaded'
    BY <1>5, <1>0, Asked, GotoFits DEF CreateEvent, Steps, countVars
  <2>8. th[c].seen \in 0 .. asks BY <1>5, <1>0, Asked DEF CreateEvent, Fits
  <2>9. TypeOK'
    BY <1>5, Asked, <2>1, <2>8
       DEF CreateEvent, TypeInv, TypeOK, coreVars, ticketVars, workVars, countVars, historyVars
  <2> QED BY <2>1, <2>9 DEF TypeInv
<1>6. CASE CommandSuspends(c)
  <2>1. th' \in [Threads -> Thread] /\ Threaded'
    BY <1>6, <1>0, Asked, GotoFits DEF CommandSuspends, Steps, countVars
  <2>8. th[c].seen \in 0 .. asks BY <1>6, <1>0, Asked DEF CommandSuspends, Fits
  <2>9. TypeOK'
    BY <1>6, Asked, <2>1, <2>8
       DEF CommandSuspends, TypeInv, TypeOK, coreVars, ticketVars, workVars, countVars,
           historyVars
  <2> QED BY <2>1, <2>9 DEF TypeInv
<1>7. CASE CommandWaits(c)
  <2>0. event \in 0 .. asks /\ event \in Nat BY DEF TypeInv, TypeOK
  <2>1. th' \in [Threads -> Thread] /\ Threaded'
    <3>1. th' = [th EXCEPT ![c].at = "cmdwaiting", ![c].names = event] /\ asks' = asks
      BY <1>7 DEF CommandWaits, countVars, Offer
    <3>2. th' \in [Threads -> Thread] BY <1>0, <3>1, <2>0, ZenonT(40) DEF Thread, Steps, Kinds
    <3> QED BY <3>1, <3>2, Asked, <2>0, OthersFit DEF Fits, Thread
  <2>9. TypeOK'
    BY <1>7, Asked, <2>1
       DEF CommandWaits, Fits, TypeInv, TypeOK, coreVars, ticketVars, workVars, countVars,
           historyVars
  <2> QED BY <2>1, <2>9 DEF TypeInv
<1>8. CASE CommandWakes(c)
  <2>1. th' \in [Threads -> Thread] /\ Threaded'
    BY <1>8, <1>0, Asked, GotoFits DEF CommandWakes, Steps, countVars
  <2>9. TypeOK'
    BY <1>8, Asked, <2>1
       DEF CommandWakes, TypeInv, TypeOK, coreVars, ticketVars, workVars, countVars, historyVars
  <2> QED BY <2>1, <2>9 DEF TypeInv
<1>9. CASE CommandAnswers(c)
  <2>1. th' \in [Threads -> Thread] /\ Threaded'
    <3>1. th' = [th EXCEPT ![c].at = "cmdapply", ![c].seen = 0, ![c].out = "done"] /\ asks' = asks
      BY <1>9 DEF CommandAnswers, countVars, Offer
    <3>2. th' \in [Threads -> Thread] BY <1>0, <3>1, ZenonT(40) DEF Thread, Steps, Kinds
    <3> QED BY <3>1, <3>2, Asked, OthersFit DEF Fits, Thread
  <2>9. TypeOK'
    BY <1>9, Asked, <2>1
       DEF CommandAnswers, Fits, TypeInv, TypeOK, coreVars, ticketVars, workVars, countVars,
           historyVars
  <2> QED BY <2>1, <2>9 DEF TypeInv
<1>10. CASE CommandEnds(c)
  <2>0. pending \in 0 .. asks /\ pending \in Nat BY DEF TypeInv, TypeOK
  <2>1. th' \in [Threads -> Thread] /\ Threaded'
    <3>1. th' = [th EXCEPT ![c].at = "cmdapply", ![c].seen = pending] /\ asks' = asks
      BY <1>10 DEF CommandEnds, countVars, Offer
    <3>2. th' \in [Threads -> Thread] BY <1>0, <3>1, <2>0, ZenonT(40) DEF Thread, Steps, Kinds
    <3> QED BY <3>1, <3>2, Asked, <2>0, OthersFit DEF Fits, Thread
  <2>9. TypeOK'
    BY <1>10, Asked, <2>1
       DEF CommandEnds, TypeInv, TypeOK, coreVars, ticketVars, workVars, countVars, historyVars
  <2> QED BY <2>1, <2>9 DEF TypeInv
<1>11. CASE CommandReturns(c)
  <2>1. th' \in [Threads -> Thread] /\ Threaded'
    BY <1>11, <1>0, Asked, GotoFits DEF CommandReturns, Steps, countVars
  <2>8. th[c].seen \in 0 .. asks BY <1>11, <1>0, Asked DEF CommandReturns, Fits
  <2>9. TypeOK'
    BY <1>11, Asked, <2>1, <2>8
       DEF CommandReturns, TypeInv, TypeOK, coreVars, ticketVars, workVars, countVars, historyVars
  <2> QED BY <2>1, <2>9 DEF TypeInv
<1> QED BY <1>1, <1>2, <1>3, <1>4, <1>5, <1>6, <1>7, <1>8, <1>9, <1>10, <1>11 DEF CommandStep

LEMMA WorkerTypes ==
  ASSUME TypeInv, NEW w \in Workers, WorkerStep(w) \/ GiveUp(w)
  PROVE  TypeInv'
<1> USE DEF At
<1>0. w \in Threads /\ th[w] \in Thread /\ th \in [Threads -> Thread] BY Asked DEF Threads
<1>1. CASE Released(w)
  <2>1. th' \in [Threads -> Thread] /\ Threaded'
    BY <1>1, <1>0, Asked, GotoFits DEF Released, Steps, countVars
  <2>9. TypeOK'
    BY <1>1, Asked, <2>1
       DEF Released, TypeInv, TypeOK, coreVars, ticketVars, workVars, countVars, historyVars
  <2> QED BY <2>1, <2>9 DEF TypeInv
<1>2. CASE OwnTurn(w)
  <2>1. th' \in [Threads -> Thread] /\ Threaded'
    <3>1. asks' = asks /\ (th' = [th EXCEPT ![w] = Idle] \/ Goto(w, "enter"))
      BY <1>2 DEF OwnTurn, WorkerEnds, countVars
    <3> QED BY <1>0, <3>1, IdleFits, GotoFits DEF Steps
  <2>9. TypeOK'
    BY <1>2, Asked, <2>1
       DEF OwnTurn, WorkerEnds, Threads, TypeInv, TypeOK, coreVars, ticketVars, workVars,
           countVars, historyVars
  <2> QED BY <2>1, <2>9 DEF TypeInv
<1>3. CASE GiveUp(w)
  <2>1. th' \in [Threads -> Thread] /\ Threaded'
    BY <1>3, <1>0, Asked, IdleFits DEF GiveUp, WorkerEnds, countVars
  <2>2. th[w].names \in 0 .. asks BY <1>0, Asked DEF Fits, Thread
  <2>9. TypeOK'
    BY <1>3, Asked, <2>1, <2>2
       DEF GiveUp, WorkerEnds, TypeInv, TypeOK, coreVars, ticketVars, workVars, countVars,
           historyVars
  <2> QED BY <2>1, <2>9 DEF TypeInv
<1> QED BY <1>1, <1>2, <1>3 DEF WorkerStep

LEMMA CallFaultTypes ==
  ASSUME TypeInv, NEW c \in Callers, LaunchFails(c) \/ StartFails(c) \/ CommandFails(c)
  PROVE  TypeInv'
<1> USE DEF At
<1>0. c \in Threads /\ th[c] \in Thread /\ th \in [Threads -> Thread] BY Asked DEF Threads
<1>1. CASE LaunchFails(c)
  <2>1. th' \in [Threads -> Thread] /\ Threaded'
    <3>1. th' = [th EXCEPT ![c] = Idle, ![th[c].peer] = Idle] /\ asks' = asks
      BY <1>1 DEF LaunchFails, countVars
    <3>2. th' \in [Threads -> Thread] BY <1>0, <3>1, IdleTyped, IdleBoth
    <3> DEFINE w == th[c].peer
    <3>3. Fits(Idle, asks) BY IdleTyped, Asked
    <3>4. \A u \in Threads \ {c, w} : th'[u] = th[u] BY <1>0, <3>1
    <3>5. (w \in Threads => Fits(th'[w], asks)) /\ Fits(th'[c], asks) BY <1>0, <3>1, <3>3
    <3> HIDE DEF w
    <3> QED BY <1>0, <3>1, <3>2, <3>4, <3>5, Asked, TwoFit
  <2>9. TypeOK'
    BY <1>1, Asked, <2>1
       DEF LaunchFails, TypeInv, TypeOK, coreVars, ticketVars, workVars, countVars, historyVars
  <2> QED BY <2>1, <2>9 DEF TypeInv
<1>2. CASE StartFails(c)
  <2>1. th' \in [Threads -> Thread] /\ Threaded'
    <3>1. th' = [th EXCEPT ![c] = Idle, ![th[c].peer] = Idle] /\ asks' = asks
      BY <1>2 DEF StartFails, countVars
    <3>2. th' \in [Threads -> Thread] BY <1>0, <3>1, IdleTyped, IdleBoth
    <3> DEFINE w == th[c].peer
    <3>3. Fits(Idle, asks) BY IdleTyped, Asked
    <3>4. \A u \in Threads \ {c, w} : th'[u] = th[u] BY <1>0, <3>1
    <3>5. (w \in Threads => Fits(th'[w], asks)) /\ Fits(th'[c], asks) BY <1>0, <3>1, <3>3
    <3> HIDE DEF w
    <3> QED BY <1>0, <3>1, <3>2, <3>4, <3>5, Asked, TwoFit
  <2>8. th[c].names \in 0 .. asks /\ None \in Threads \cup {None}
    BY <1>2, <1>0, Asked DEF StartFails, Fits
  <2>9. TypeOK'
    BY <1>2, Asked, <2>1, <2>8
       DEF StartFails, OfferAgain, TypeInv, TypeOK, coreVars, ticketVars, workVars, countVars,
           historyVars
  <2> QED BY <2>1, <2>9 DEF TypeInv
<1>3. CASE CommandFails(c)
  <2>1. th' \in [Threads -> Thread] /\ Threaded'
    BY <1>3, <1>0, Asked, IdleFits DEF CommandFails, CommandRaises, countVars
  <2>9. TypeOK'
    BY <1>3, Asked, <2>1
       DEF CommandFails, CommandRaises, TypeInv, TypeOK, coreVars, ticketVars, workVars,
           countVars, historyVars
  <2> QED BY <2>1, <2>9 DEF TypeInv
<1> QED BY <1>1, <1>2, <1>3 DEF Fault

LEMMA CoreFaultTypes ==
  ASSUME TypeInv, NEW t \in Threads, CoreRaises(t)
  PROVE  TypeInv'
<1> USE DEF At
<1>0. t \in Threads /\ th[t] \in Thread /\ th \in [Threads -> Thread] BY Asked DEF Threads
<1>1. CASE CoreRaises(t)
  <2>1. th' \in [Threads -> Thread] /\ Threaded'
    BY <1>1, <1>0, Asked, GotoFits DEF CoreRaises, Steps, countVars
  <2>9. TypeOK'
    BY <1>1, Asked, <2>1
       DEF CoreRaises, TypeInv, TypeOK, coreVars, ticketVars, workVars, countVars, historyVars
  <2> QED BY <2>1, <2>9 DEF TypeInv
<1> QED BY <1>1 DEF Fault

LEMMA RestartTypes ==
  ASSUME TypeInv, Restart
  PROVE  TypeInv'
<1>1. th' \in [Threads -> Thread] /\ Threaded'
  <2>1. asks' = asks /\ th' = [t \in Threads |-> Idle] BY DEF Restart
  <2>2. Idle \in Thread /\ Fits(Idle, asks) BY IdleTyped, Asked
  <2> QED BY <2>1, <2>2 DEF Threaded
<1>2. faults' \in 0 .. MaxFaults BY Asked DEF Restart, TypeInv, TypeOK
<1>3. lease' = None /\ status' \in {"waiting", "idle"} /\ ticket' = pending /\ claim' = 0 /\ event' = 0
      /\ response' = "none" /\ active' = None /\ resume' = None /\ stop' = FALSE /\ projection' = pending
      /\ woken' = {} /\ answers' = {} /\ disturbed' = FALSE /\ dropped' = {}
      /\ UNCHANGED <<pending, calls, asks>>
  BY DEF Restart
<1>4. pending \in 0 .. asks /\ asks \in 0 .. MaxAsks /\ calls \in 0 .. MaxCalls /\ 0 \in 0 .. asks
  BY Asked DEF TypeInv, TypeOK
<1>5. TypeOK' BY <1>1, <1>2, <1>3, <1>4 DEF TypeOK
<1> QED BY <1>1, <1>5 DEF TypeInv

LEMMA TypesStart == Init => TypeInv
<1> SUFFICES ASSUME Init PROVE TypeInv OBVIOUS
<1>1. Idle \in Thread /\ Fits(Idle, 0) BY IdleTyped
<1>2. th \in [Threads -> Thread] /\ Threaded BY <1>1 DEF Init, Threaded
<1>3. 0 \in 0 .. 0 /\ 0 \in 0 .. MaxCalls /\ 0 \in 0 .. MaxAsks /\ 0 \in 0 .. MaxFaults
  BY HostAssumption
<1>4. TypeOK BY <1>2, <1>3 DEF Init, TypeOK
<1> QED BY <1>2, <1>4 DEF TypeInv

LEMMA TypesStay == TypeInv /\ [Next]_vars => TypeInv'
<1> SUFFICES ASSUME TypeInv, [Next]_vars PROVE TypeInv' OBVIOUS
<1>1. ASSUME NEW c \in Callers, Call(c) \/ CallStep(c) \/ CommandStep(c) PROVE TypeInv'
  BY <1>1, CallTypes, CallStepTypes, CommandTypes
<1>2. ASSUME NEW w \in Workers, WorkerStep(w) \/ GiveUp(w) PROVE TypeInv'
  BY <1>2, WorkerTypes
<1>3. ASSUME NEW t \in Threads, TurnStep(t) PROVE TypeInv'
  BY <1>3, TurnTypes
<1>4. CASE Fault
  <2>1. ASSUME NEW c \in Callers, LaunchFails(c) \/ StartFails(c) \/ CommandFails(c) PROVE TypeInv'
    BY <2>1, CallFaultTypes
  <2>2. ASSUME NEW t \in Threads, CoreRaises(t) PROVE TypeInv'
    BY <2>2, CoreFaultTypes
  <2> QED BY <1>4, <2>1, <2>2, RestartTypes DEF Fault
<1>5. CASE UNCHANGED vars
  BY <1>5 DEF vars, TypeInv, TypeOK, Threaded
<1> QED BY <1>1, <1>2, <1>3, <1>4, <1>5 DEF Next

(* Every field is well typed in every reachable state, and no question is   *)
(* ever named, offered, claimed, waited for or answered by a number under   *)
(* which none was asked.                                                    *)
THEOREM TypeCorrect == Spec => []TypeOK
<1>1. TypeInv => TypeOK BY DEF TypeInv
<1> QED BY <1>1, TypesStart, TypesStay, PTL DEF Spec
-----------------------------------------------------------------------------
(* What a thread that works on the session may be at, a reply in progress,  *)
(* and the turns that may ask.                                              *)
TurnSteps == {"enter", "clear", "core", "resolve", "work", "ask", "snapshot", "release", "apply",
              "settle", "fail"}
MainSteps == {"submit", "register", "launch", "unstop"} \cup TurnSteps \cup CommandSteps
TurnReplySteps == {"schedule", "start", "await", "own"}
TurnKinds == {"wait", "background", "reply"}

(* What a thread does; nothing, if it is none.                              *)
Does(t) == IF t = None THEN Idle ELSE th[t]

(* Undisturbed, at most one operation works on the session, m, and at most  *)
(* one reply to a question is in progress, r.  All other threads are free,  *)
(* about to claim a reply, or made by one of these two and not started.     *)
OnlyThese(m, r) ==
  LET M == Does(m) R == Does(r) IN
  /\ m = r => m = None
  /\ m # None => M.at \in MainSteps
  /\ r # None => R.at \in TurnReplySteps \cup {"signal"}
  /\ \A t \in Threads \ {m, r} : th[t].at \in {"idle", "claim", "new"} /\ th[t].out = "none"
  /\ \A t \in Threads : th[t].at = "claim" =>
       t \in Callers /\ th[t].kind = "reply" /\ th[t].names # 0
  /\ \A t \in Threads : th[t].at = "new" =>
       t \in Workers /\ ((M.at = "launch" /\ M.peer = t) \/ (R.at = "start" /\ R.peer = t))
  /\ M.at = "launch" =>
       M.peer \in Workers /\ th[M.peer].at = "new" /\ th[M.peer].kind = "background"
  /\ R.at = "start" =>
       /\ R.peer \in Workers /\ th[R.peer].at = "new"
       /\ th[R.peer].kind = "reply" /\ th[R.peer].names = R.names

(* Which steps belong to which operation, and how its turn may have ended   *)
(* by then.                                                                 *)
Purposes(m, r) ==
  LET M == Does(m) R == Does(r) IN
  /\ M.at \in {"submit", "register"} => M.kind \in {"wait", "background"}
  /\ M.at = "launch" => M.kind = "background"
  /\ M.at = "unstop" => M.kind = "refusal"
  /\ M.at \in {"enter", "resolve"} => M.kind \in {"reply", "refusal"}
  /\ M.at \in {"clear", "core", "work", "settle", "fail"} => M.kind \in TurnKinds \cup {"refusal"}
  /\ M.at \in {"snapshot", "release", "apply"} =>
       M.kind \in TurnKinds \cup {"refusal", "mode", "command"}
  /\ M.at \in CommandSteps => M.kind = "command"
  /\ M.out = "wait" => /\ M.kind \in TurnKinds
                       /\ M.at \in {"ask", "snapshot", "release", "apply", "settle", "fail"}
  /\ M.out = "done" => M.at \in {"snapshot", "release", "apply", "settle", "fail", "cmdapply"}
  /\ M.at = "settle" => M.out # "none"
  /\ M.at = "ask" => M.out = "wait"
  /\ M.at \in {"snapshot", "release", "apply"} /\ M.out = "none" => M.kind \in {"mode", "command"}
  /\ m \in Workers => M.kind \in {"background", "reply"} /\ M.at \in TurnSteps
  /\ m \in Callers => ~(M.kind \in {"background", "reply"} /\ M.at \in TurnSteps)
  /\ r # None => R.kind = "reply" /\ R.out = "none"
  /\ r \in Workers <=> R.at \in {"await", "own"}

(* Only the operation holds the lease, so that none is refused it.          *)
Leased(m) ==
  lease # None =>
    /\ lease = m
    /\ Does(m).at \in {"resolve", "work", "ask", "release",
                       "cmdwork", "cmdask", "cmdcommit", "cmdanswer"}

(* A turn is the active thread of the session from its start to its end.    *)
Registered(m, r) ==
  LET M == Does(m) IN
  /\ M.kind \in TurnKinds /\ M.at \in TurnSteps => active = m
  /\ M.at = "launch" => active = M.peer
  /\ active \in Callers => active = m /\ M.kind = "wait" /\ M.at \in TurnSteps

(* The question x is offered, or claimed.                                   *)
Open(x) == (ticket = x /\ claim = 0) \/ (ticket = 0 /\ claim = x)

ByTurn(r) == Does(r).at \in TurnReplySteps

(* A turn that asked: its question is open until its end, and durable and   *)
(* projected as its steps get there; only a reply to it can have claimed    *)
(* it.                                                                      *)
Asking(m, r) ==
  LET M == Does(m) IN
  /\ M.out = "wait" =>
       /\ M.seen # 0 /\ Open(M.seen)
       /\ M.at \in {"ask", "fail"} => pending # M.seen
       /\ M.at = "snapshot" => pending = M.seen
       /\ claim # 0 => ByTurn(r)
  /\ M.at \in {"core", "resolve", "work"} => ticket = 0 /\ claim = 0
  /\ M.at \in {"release", "apply"} => M.seen = pending
  /\ M.at = "settle" => M.seen = pending /\ M.seen = projection

(* A reply that a turn resumes with: while the turn that asked is on its    *)
(* way out its claim stands; later it does, or the turn failed.             *)
Answering(m, r) ==
  LET M == Does(m) R == Does(r) IN
  ByTurn(r) =>
    /\ R.names # 0 /\ ticket = 0 /\ event = 0
    /\ R.at = "start" => resume = R.peer
    /\ R.at = "own" => m = None
    /\ m # None => M.out = "wait" /\ R.names = M.seen /\ claim = R.names
    /\ m = None => \/ claim = R.names
                   \/ claim = 0 /\ pending # R.names /\ status # "waiting"

(* A reply that wakes a command has the event that the command created, if  *)
(* the command still waits for it.                                          *)
Signalling(m, r) ==
  LET M == Does(m) R == Does(r) IN
  R.at = "signal" =>
    /\ ticket = 0 /\ R.pid # 0
    /\ m # None => /\ M.kind = "command"
                   /\ M.at \in {"cmdcommit", "cmdshow", "cmdwaiting", "cmdresume", "cmdanswer",
                                "cmdapply", "snapshot", "release", "apply"}
    /\ event # 0 => R.pid = event

(* A command that asked: its question is open and its event there until it  *)
(* wakes, and a claim of its question is followed by the event being set.   *)
CommandData(m, r) ==
  LET M == Does(m) R == Does(r) IN
  /\ event # 0 => M.at \in {"cmdcommit", "cmdshow", "cmdwaiting"}
  /\ M.at \in {"cmdcommit", "cmdshow", "cmdwaiting"} =>
       /\ event = M.seen /\ M.seen # 0
       /\ claim = M.seen => Does(r).at = "signal" \/ event \in woken
       /\ Open(M.seen)
       /\ IF M.at = "cmdcommit" THEN pending # M.seen ELSE pending = M.seen
  /\ M.at = "cmdask" => ticket = M.seen /\ claim = 0 /\ M.seen # 0 /\ pending # M.seen
  /\ M.at = "cmdwaiting" => M.names = event /\ projection = M.seen
  /\ M.at \in {"cmdresume", "cmdanswer"} => pending = M.seen
  /\ M.at = "cmdapply" => pending = M.seen /\ (M.out = "done" => M.seen = 0)

(* The open question that is durable is projected, except while the thread  *)
(* that asked it is about to do so.                                         *)
Projected(m) ==
  LET M == Does(m) IN
  pending # 0 /\ pending \in {ticket, claim} /\ projection # pending =>
    \/ M.at = "cmdshow"
    \/ M.out = "wait" /\ M.at \in {"snapshot", "release", "apply"}

(* A session shown as waiting has a durable open question, and a claim of   *)
(* it has a thread to go on with it.                                        *)
Shown(m, r) ==
  LET M == Does(m) IN
  /\ status = "waiting" /\ M.out # "wait" =>
       /\ pending # 0 /\ Open(pending)
       /\ claim # 0 => ByTurn(r) \/ M.at = "cmdwaiting"
  /\ M.at \in ({"register", "launch", "unstop", "enter", "clear", "core", "resolve", "work"}
                 \cup CommandSteps) \ {"cmdwaiting", "command"}
       => status # "waiting"
  /\ M.out = "done" => status # "waiting"

(* Somebody works on a session shown as running.                            *)
Busy(m, r) ==
  LET M == Does(m) R == Does(r) IN
  \/ ByTurn(r)
  \/ M.at \in {"register", "launch"}
  \/ M.at \in TurnSteps /\ ~(M.kind \in {"mode", "command"})
  \/ M.at \in CommandSteps \ {"command", "cmdwaiting"}
  \/ M.at = "cmdwaiting" /\ (R.at = "signal" \/ event \in woken)

(* What holds besides as long as nothing failed: the question offered, the  *)
(* durable and the projected one agree but for the thread that is about to  *)
(* make them, a resumed turn names the question it has the reply to, and no *)
(* turn that asked fails.                                                   *)
Unfailed(m, r) ==
  LET M == Does(m) R == Does(r) IN
  faults = 0 =>
    /\ status = "running" => Busy(m, r)
    /\ ticket # 0 =>
         \/ ticket = pending /\ ticket = projection
         \/ M.at \in {"ask", "cmdask", "cmdcommit", "cmdshow"}
         \/ M.out = "wait" /\ M.at \in {"snapshot", "release", "apply"}
         \/ M.at = "cmdapply" /\ M.out = "done"
    /\ AnswersOwnQuestion
    /\ M.kind = "reply" =>
         /\ M.at = "enter" => projection = M.names
         /\ M.at \in {"clear", "core", "resolve"} => M.pid = M.names
    /\ ~(M.out = "wait" /\ M.at = "fail")
    /\ ByTurn(r) /\ m = None => claim = R.names /\ claim = projection

Undisturbed(m, r) ==
  /\ OnlyThese(m, r) /\ Purposes(m, r) /\ Leased(m) /\ Registered(m, r) /\ Asking(m, r)
  /\ Answering(m, r) /\ Signalling(m, r) /\ CommandData(m, r) /\ Projected(m) /\ Shown(m, r)
  /\ Unfailed(m, r)

Actors == Threads \cup {None}

(* A thread goes on to step s with what it sends, saw and came to.          *)
GoesOn(t, s, p, n, o) ==
  /\ Changes({t})
  /\ th'[t].at = s /\ th'[t].pid = p /\ th'[t].seen = n /\ th'[t].out = o
  /\ th'[t].kind = th[t].kind /\ th'[t].names = th[t].names /\ th'[t].peer = th[t].peer

(* A thread that only changes its step goes on.                             *)
LEMMA GotoGoesOn ==
  ASSUME TypeInv, NEW t \in Threads, NEW s \in Steps, Goto(t, s)
  PROVE  GoesOn(t, s, th[t].pid, th[t].seen, th[t].out)
<1>1. th' = [th EXCEPT ![t].at = s] BY DEF Goto
<1>2. th' \in [Threads -> Thread] BY <1>1, Asked DEF Thread
<1> QED BY <1>1, <1>2, Asked DEF GoesOn, Changes, Thread

(* A thread at a step of an operation is the operation.                     *)
LEMMA MainActs ==
  ASSUME NEW m \in Actors, NEW r \in Actors, Undisturbed(m, r), NEW t \in Threads,
         th[t].at \in MainSteps
  PROVE  t = m /\ m # None /\ m # r /\ Does(m) = th[m]
<1>1. t # None BY HostAssumption DEF Threads
<1>2. t # r
  BY <1>1 DEF Undisturbed, OnlyThese, Does, TurnReplySteps, MainSteps, TurnSteps, CommandSteps
<1>3. t = m
  BY <1>1, <1>2 DEF Undisturbed, OnlyThese, MainSteps, TurnSteps, CommandSteps
<1> QED BY <1>1, <1>2, <1>3 DEF Does

(* The operation goes on, nobody else moves.                                *)
LEMMA MainAlone ==
  ASSUME NEW m \in Threads, NEW r \in Actors, m # r, Undisturbed(m, r), Changes({m}),
         th[m].at # "launch", th'[m].at \in MainSteps \ {"launch"}
  PROVE  Does(m)' = th'[m] /\ Does(r)' = Does(r) /\ OnlyThese(m, r)'
<1>1. m # None /\ \A u \in Threads \ {m} : th'[u] = th[u] BY HostAssumption DEF Threads, Changes
<1>2. Does(m)' = th'[m] /\ Does(r)' = Does(r) BY <1>1 DEF Does, Actors
<1>3. Does(m) = th[m] /\ th[m].at \notin {"idle", "claim", "new"} /\ OnlyThese(m, r)
  BY <1>1 DEF Does, Undisturbed, OnlyThese, MainSteps, TurnSteps, CommandSteps
<1>4. th'[m].at \notin {"idle", "claim", "new", "launch"} /\ th'[m].at \in MainSteps
  BY DEF MainSteps, TurnSteps, CommandSteps
<1>5. OnlyThese(m, r)'
  BY <1>1, <1>2, <1>3, <1>4 DEF OnlyThese, Threads, Actors
<1> QED BY <1>2, <1>5

(* Operations do not overlap, and agree with the session.                   *)
InOrder == \E m, r \in Actors : Undisturbed(m, r)

(* What a thread that has ended holds.                                      *)
LEMMA IdleFields ==
  /\ Idle.at = "idle" /\ Idle.kind = "none" /\ Idle.out = "none" /\ Idle.peer = None
  /\ Idle.names = 0 /\ Idle.pid = 0 /\ Idle.seen = 0
BY DEF Idle

(* The operation ends, nobody else moves.                                   *)
LEMMA MainOver ==
  ASSUME NEW m \in Threads, NEW r \in Actors, m # r, Undisturbed(m, r), Ends(m), th[m].at # "launch"
  PROVE  Does(None)' = Idle /\ Does(r)' = Does(r) /\ OnlyThese(None, r)'
<1>1. m # None /\ th'[m] = Idle /\ \A u \in Threads \ {m} : th'[u] = th[u]
  BY HostAssumption DEF Threads, Ends, Changes
<1>2. Does(None)' = Idle /\ Does(r)' = Does(r) BY <1>1 DEF Does, Actors
<1>3. Does(m) = th[m] /\ th[m].at \notin {"idle", "claim", "new", "launch"} /\ OnlyThese(m, r)
  BY <1>1 DEF Does, Undisturbed, OnlyThese, MainSteps, TurnSteps, CommandSteps
<1>4. OnlyThese(None, r)'
  BY <1>1, <1>2, <1>3, IdleFields DEF OnlyThese, Threads, Actors
<1> QED BY <1>2, <1>4

(* Nothing is in progress: there is neither operation nor reply.            *)
LEMMA Free ==
  ASSUME NEW m \in Actors, NEW r \in Actors, Undisturbed(m, r), InProgress = {}
  PROVE  m = None /\ r = None
<1>1. \A t \in Threads : th[t].at \in {"idle", "claim"} BY DEF InProgress
<1> QED
  BY <1>1
     DEF Undisturbed, OnlyThese, Does, Actors, MainSteps, TurnSteps, CommandSteps, TurnReplySteps

(* An operation begins when nothing is in progress.                         *)
LEMMA MainBegins ==
  ASSUME Undisturbed(None, None), NEW c \in Callers, th[c].at = "idle", Changes({c}),
         InProgress = {}, th'[c].at \in MainSteps \ {"launch"}
  PROVE  /\ c # None /\ Does(None) = Idle
         /\ Does(c)' = th'[c] /\ Does(None)' = Idle /\ OnlyThese(c, None)'
<1>1. /\ c # None /\ c \in Threads
      /\ \A t \in Threads : th[t].at \in {"idle", "claim"}
      /\ \A u \in Threads \ {c} : th'[u] = th[u]
  BY HostAssumption DEF Threads, Changes, InProgress
<1>2. Does(None) = Idle /\ Does(c)' = th'[c] /\ Does(None)' = Idle BY <1>1 DEF Does
<1>3. th'[c].at \notin {"idle", "claim", "new", "launch"} /\ th'[c].at \in MainSteps
      /\ OnlyThese(None, None)
  BY DEF MainSteps, TurnSteps, CommandSteps, Undisturbed
<1>4. OnlyThese(c, None)'
  BY <1>1, <1>2, <1>3, IdleFields DEF OnlyThese
<1> QED BY <1>1, <1>2, <1>4

(* The session is occupied by a turn, or by a resumed one about to run.     *)
LEMMA OccupiedBy ==
  ASSUME TypeInv, NEW m \in Actors, NEW r \in Actors, Undisturbed(m, r), Occupied
  PROVE  \/ active = m /\ Does(m).at \in TurnSteps /\ Does(m).kind \in TurnKinds
         \/ active = r /\ Does(r).at \in {"await", "own"}
<1>1. active \in Threads /\ active # None /\ (active \in Callers \/ active \in Workers)
  BY HostAssumption DEF TypeInv, TypeOK, Occupied, Threads
<1>2. CASE active \in Callers BY <1>1, <1>2 DEF Undisturbed, Registered, TurnKinds
<1>3. CASE active \in Workers
  <2>1. active \in {m, r}
    BY <1>1, <1>3, HostAssumption DEF Undisturbed, OnlyThese, Occupied, Alive
  <2> QED BY <1>1, <1>3, <2>1 DEF Undisturbed, Purposes, TurnKinds
<1> QED BY <1>1, <1>2, <1>3

(* The ends of turns and of the calls that record something.                *)
LEMMA EndUndisturbed ==
  ASSUME TypeInv, NEW m \in Actors, NEW r \in Actors, Undisturbed(m, r), NEW t \in Threads,
         Snapshot(t) \/ ApplyProjection(t) \/ Settle(t) \/ Fail(t), ~disturbed'
  PROVE  InOrder'
<1>0. /\ t \in Threads /\ th[t] \in Thread /\ th \in [Threads -> Thread] /\ pending \in Nat
      /\ th[t].seen \in Nat
  BY Asked DEF TypeInv, TypeOK, Threads, Thread
<1>1. t = m /\ m # r /\ m # None /\ Does(m) = th[m]
  BY <1>0, MainActs DEF Snapshot, ApplyProjection, Settle, Fail, At, MainSteps, TurnSteps
<1> USE DEF ticketVars, coreVars, workVars, countVars, historyVars
<1>2. ASSUME Ends(t), th[t].at # "launch"
      PROVE  Does(None)' = Idle /\ Does(r)' = Does(r) /\ OnlyThese(None, r)'
  BY <1>1, <1>2, MainOver
<1>3. CASE Snapshot(t)
  <2>1. lease = None BY <1>1, <1>3 DEF Snapshot, At, Undisturbed, Leased
  <2>2. th' = [th EXCEPT ![t].at = "release", ![t].seen = pending] BY <1>3, <2>1 DEF Snapshot
  <2>3. GoesOn(t, "release", th[t].pid, pending, th[t].out)
    BY <1>0, <2>2, ZenonT(40) DEF GoesOn, Changes, Thread, Steps
  <2>4. Does(m)' = th'[m] /\ Does(r)' = Does(r) /\ OnlyThese(m, r)'
    BY <1>0, <1>1, <1>3, <2>3, MainAlone DEF GoesOn, Snapshot, At, MainSteps, TurnSteps
  <2>5. Undisturbed(m, r)'
    BY <1>0, <1>1, <1>3, <2>1, <2>3, <2>4
      DEF Snapshot, At, GoesOn, TurnSteps, CommandSteps, TurnKinds, TurnReplySteps,
          Undisturbed, Purposes, Leased, Registered, Asking, Answering, Signalling,
          CommandData, Projected, Shown, Unfailed, Busy, ByTurn, Open, AnswersOwnQuestion
  <2> QED BY <2>5 DEF InOrder
<1>4. CASE ApplyProjection(t)
  <2>1. CASE EndsWithRecord(t)
    <3>1. Ends(t) BY <1>0, <1>4, <2>1, IdleEnds DEF ApplyProjection
    <3>2. Does(None)' = Idle /\ Does(r)' = Does(r) /\ OnlyThese(None, r)'
      BY <1>2, <1>4, <3>1 DEF ApplyProjection, At
    <3>3. Undisturbed(None, r)'
      BY <1>0, <1>1, <1>4, <2>1, <3>2, IdleFields, HostAssumption
        DEF ApplyProjection, EndsWithRecord, At, TurnSteps, CommandSteps, TurnKinds,
            TurnReplySteps, Threads,
            Undisturbed, Purposes, Leased, Registered, Asking, Answering, Signalling,
            CommandData, Projected, Shown, Unfailed, Busy, ByTurn, Open, AnswersOwnQuestion
    <3> QED BY <3>3 DEF InOrder, Actors
  <2>2. CASE ~EndsWithRecord(t)
    <3>1. th' = [th EXCEPT ![t].at = "settle"] BY <1>4, <2>2 DEF ApplyProjection
    <3>2. GoesOn(t, "settle", th[t].pid, th[t].seen, th[t].out)
      BY <1>0, <3>1, GotoGoesOn DEF Goto, Steps
    <3>3. Does(m)' = th'[m] /\ Does(r)' = Does(r) /\ OnlyThese(m, r)'
      BY <1>0, <1>1, <1>4, <3>2, MainAlone DEF GoesOn, ApplyProjection, At, MainSteps, TurnSteps
    <3>4. Undisturbed(m, r)'
      BY <1>0, <1>1, <1>4, <2>2, <3>2, <3>3
        DEF ApplyProjection, EndsWithRecord, At, GoesOn, TurnSteps, CommandSteps, TurnKinds,
            TurnReplySteps,
            Undisturbed, Purposes, Leased, Registered, Asking, Answering, Signalling,
            CommandData, Projected, Shown, Unfailed, Busy, ByTurn, Open, AnswersOwnQuestion
    <3> QED BY <3>4 DEF InOrder
  <2> QED BY <2>1, <2>2
<1>5. CASE Settle(t) \/ Fail(t)
  <2>1. Ends(t) BY <1>0, <1>5, IdleEnds DEF Settle, Fail, WorkerEnds
  <2>2. Does(None)' = Idle /\ Does(r)' = Does(r) /\ OnlyThese(None, r)'
    BY <1>2, <1>5, <2>1 DEF Settle, Fail, At
  <2>5. Does(r).at = "start" => Does(r).peer # t
    BY <1>1, <1>5 DEF Settle, Fail, At, Undisturbed, OnlyThese
  <2>3. CASE Settle(t)
    <3>1. Undisturbed(None, r)'
      BY <1>0, <1>1, <2>3, <2>2, <2>5, IdleFields, HostAssumption
        DEF Settle, EndWith, WorkerEnds, At, TurnSteps, CommandSteps, TurnKinds, TurnReplySteps,
            Threads,
            Undisturbed, Purposes, Leased, Registered, Asking, Answering, Signalling,
            CommandData, Projected, Shown, Unfailed, Busy, ByTurn, Open, AnswersOwnQuestion
    <3> QED BY <3>1 DEF InOrder, Actors
  <2>4. CASE Fail(t)
    <3>1. Undisturbed(None, r)'
      BY <1>0, <1>1, <2>4, <2>2, <2>5, IdleFields, HostAssumption
        DEF Fail, WorkerEnds, At, TurnSteps, CommandSteps, TurnKinds, TurnReplySteps, Threads,
            Undisturbed, Purposes, Leased, Registered, Asking, Answering, Signalling,
            CommandData, Projected, Shown, Unfailed, Busy, ByTurn, Open, AnswersOwnQuestion
    <3> QED BY <3>1 DEF InOrder, Actors
  <2> QED BY <1>5, <2>3, <2>4
<1> QED BY <1>3, <1>4, <1>5

(* Calls that begin an operation.                                           *)
LEMMA BeginUndisturbed ==
  ASSUME TypeInv, NEW m \in Actors, NEW r \in Actors, Undisturbed(m, r), NEW c \in Callers,
         \/ \E kind \in {"wait", "background", "command"} : Submit(c, kind)
         \/ CancelQuestion(c) \/ SetMode(c),
         ~disturbed'
  PROVE  InOrder'
<1>0. /\ c \in Threads /\ th[c] \in Thread /\ th \in [Threads -> Thread] /\ th[c].at = "idle"
  BY Asked DEF TypeInv, TypeOK, Threads, Thread, Submit, CancelQuestion, SetMode, Called, At
<1>1. InProgress = {} BY DEF Submit, CancelQuestion, SetMode, Begins
<1>2. m = None /\ r = None BY <1>1, Free
<1>3. th[c].out = "none"
  BY <1>0, <1>2, HostAssumption DEF Undisturbed, OnlyThese, Threads
<1>4. ASSUME Changes({c}), th'[c].at \in MainSteps \ {"launch"}
      PROVE  /\ c # None /\ Does(None) = Idle
             /\ Does(c)' = th'[c] /\ Does(None)' = Idle /\ OnlyThese(c, None)'
  BY <1>0, <1>1, <1>2, <1>4, MainBegins
<1> USE DEF ticketVars, coreVars, workVars, countVars, historyVars
<1>5. ASSUME NEW kind \in {"wait", "background", "command"}, Submit(c, kind) PROVE InOrder'
  <2> DEFINE s == IF kind = "command" THEN "command" ELSE "submit"
  <2>1. th' = [th EXCEPT ![c].at = s, ![c].kind = kind] BY <1>5 DEF Submit
  <2>2. s \in Steps /\ kind \in Kinds BY DEF Steps, Kinds
  <2>3. s \in MainSteps \ {"launch"} BY DEF MainSteps, CommandSteps
  <2>4. (kind = "command" => s = "command") /\ (kind # "command" => s = "submit") OBVIOUS
  <2> HIDE DEF s
  <2>5. /\ Changes({c}) /\ th'[c].at = s /\ th'[c].kind = kind /\ th'[c].out = "none"
    BY <1>0, <1>3, <2>1, <2>2, ZenonT(40) DEF Changes, Thread
  <2>6. /\ c # None /\ Does(None) = Idle
        /\ Does(c)' = th'[c] /\ Does(None)' = Idle /\ OnlyThese(c, None)'
    BY <1>4, <2>3, <2>5
  <2>7. Undisturbed(c, None)'
    BY <1>0, <1>2, <1>5, <2>4, <2>5, <2>6, IdleFields, HostAssumption
      DEF Submit, TurnSteps, CommandSteps, TurnKinds, TurnReplySteps, Threads,
          Undisturbed, Purposes, Leased, Registered, Asking, Answering, Signalling,
          CommandData, Projected, Shown, Unfailed, Busy, ByTurn, Open, AnswersOwnQuestion
  <2> QED BY <1>0, <2>7 DEF InOrder, Actors
<1>6. CASE CancelQuestion(c)
  <2>1. th' = [th EXCEPT ![c].at = "unstop", ![c].kind = "refusal"] BY <1>6 DEF CancelQuestion
  <2>2. /\ Changes({c}) /\ th'[c].at = "unstop" /\ th'[c].kind = "refusal" /\ th'[c].out = "none"
    BY <1>0, <1>3, <2>1, ZenonT(40) DEF Changes, Thread, Steps, Kinds
  <2>3. /\ c # None /\ Does(None) = Idle
        /\ Does(c)' = th'[c] /\ Does(None)' = Idle /\ OnlyThese(c, None)'
    BY <1>4, <2>2 DEF MainSteps
  <2>5. ~Occupied BY <1>2, <2>3, OccupiedBy, IdleFields DEF TurnSteps
  <2>4. Undisturbed(c, None)'
    BY <1>0, <1>2, <1>6, <2>2, <2>3, <2>5, IdleFields, HostAssumption
      DEF CancelQuestion, StatusAfterCancel, TurnSteps, CommandSteps, TurnKinds, TurnReplySteps,
          Threads,
          Undisturbed, Purposes, Leased, Registered, Asking, Answering, Signalling,
          CommandData, Projected, Shown, Unfailed, Busy, ByTurn, Open, AnswersOwnQuestion
  <2> QED BY <1>0, <2>4 DEF InOrder, Actors
<1>7. CASE SetMode(c)
  <2>1. th' = [th EXCEPT ![c].at = "snapshot", ![c].kind = "mode"] BY <1>7 DEF SetMode
  <2>2. /\ Changes({c}) /\ th'[c].at = "snapshot" /\ th'[c].kind = "mode" /\ th'[c].out = "none"
    BY <1>0, <1>3, <2>1, ZenonT(40) DEF Changes, Thread, Steps, Kinds
  <2>3. /\ c # None /\ Does(None) = Idle
        /\ Does(c)' = th'[c] /\ Does(None)' = Idle /\ OnlyThese(c, None)'
    BY <1>4, <2>2 DEF MainSteps, TurnSteps
  <2>4. Undisturbed(c, None)'
    BY <1>0, <1>2, <1>7, <2>2, <2>3, IdleFields, HostAssumption
      DEF SetMode, TurnSteps, CommandSteps, TurnKinds, TurnReplySteps, Threads,
          Undisturbed, Purposes, Leased, Registered, Asking, Answering, Signalling,
          CommandData, Projected, Shown, Unfailed, Busy, ByTurn, Open, AnswersOwnQuestion
  <2> QED BY <1>0, <2>4 DEF InOrder, Actors
<1> QED BY <1>5, <1>6, <1>7

(* The steps of a command.                                                  *)
LEMMA CommandUndisturbed ==
  ASSUME TypeInv, NEW m \in Actors, NEW r \in Actors, Undisturbed(m, r),
         NEW c \in Callers, CommandRecords(c) \/ CommandStarts(c) \/ CommandAsks(c)
         \/ CreateEvent(c) \/ CommandSuspends(c) \/ CommandWakes(c) \/ CommandAnswers(c)
         \/ CommandEnds(c) \/ CommandReturns(c) \/ EnterCommand(c), ~disturbed'
  PROVE  Undisturbed(m, r)'
<1>0. /\ c \in Threads /\ th[c] \in Thread /\ th \in [Threads -> Thread]
      /\ asks \in Nat /\ asks + 1 \in Nat /\ pending \in Nat /\ pending <= asks
      /\ th[c].seen \in Nat /\ ticket \in Nat /\ projection \in Nat
  BY Asked DEF TypeInv, TypeOK, Threads, Thread
<1> USE DEF ticketVars, coreVars, workVars, countVars, historyVars
<1> USE DEF TurnSteps, MainSteps, CommandSteps, TurnKinds, TurnReplySteps
<1>1. CASE CommandRecords(c)
  <2>1. GoesOn(c, "snapshot", th[c].pid, th[c].seen, th[c].out)
    BY <1>0, <1>1, GotoGoesOn DEF CommandRecords, CommandRaises, Steps, At
  <2>2. c = m /\ m # r /\ m # None /\ Does(m) = th[m] BY <1>0, <1>1, MainActs DEF CommandRecords, At
  <2>3. Does(m)' = th'[m] /\ Does(r)' = Does(r) /\ OnlyThese(m, r)'
    BY <1>0, <1>1, <2>1, <2>2, MainAlone DEF GoesOn, CommandRecords, At
  <2> QED
    BY <1>0, <1>1, <2>1, <2>2, <2>3
      DEF CommandRecords, At, GoesOn,
          Undisturbed, Purposes, Leased, Registered, Asking, Answering, Signalling,
          CommandData, Projected, Shown, Unfailed, Busy, ByTurn, Open, AnswersOwnQuestion
<1>2. CASE CommandStarts(c)
  <2>1. GoesOn(c, "cmdcore", th[c].pid, th[c].seen, th[c].out)
    BY <1>0, <1>2, GotoGoesOn DEF CommandStarts, CommandRaises, Steps, At
  <2>2. c = m /\ m # r /\ m # None /\ Does(m) = th[m] BY <1>0, <1>2, MainActs DEF CommandStarts, At
  <2>3. Does(m)' = th'[m] /\ Does(r)' = Does(r) /\ OnlyThese(m, r)'
    BY <1>0, <1>2, <2>1, <2>2, MainAlone DEF GoesOn, CommandStarts, At
  <2> QED
    BY <1>0, <1>2, <2>1, <2>2, <2>3
      DEF CommandStarts, At, GoesOn,
          Undisturbed, Purposes, Leased, Registered, Asking, Answering, Signalling,
          CommandData, Projected, Shown, Unfailed, Busy, ByTurn, Open, AnswersOwnQuestion
<1>3. CASE CommandAsks(c)
  <2>0. th' = [th EXCEPT ![c].at = "cmdask", ![c].seen = asks + 1] BY <1>3 DEF CommandAsks
  <2>1. GoesOn(c, "cmdask", th[c].pid, asks + 1, th[c].out)
    BY <1>0, <1>3, <2>0, ZenonT(40) DEF GoesOn, Changes, Thread, Steps
  <2>2. c = m /\ m # r /\ m # None /\ Does(m) = th[m] BY <1>0, <1>3, MainActs DEF CommandAsks, At
  <2>3. Does(m)' = th'[m] /\ Does(r)' = Does(r) /\ OnlyThese(m, r)'
    BY <1>0, <1>3, <2>1, <2>2, MainAlone DEF GoesOn, CommandAsks, At
  <2> QED
    BY <1>0, <1>3, <2>1, <2>2, <2>3
      DEF CommandAsks, At, Offer, GoesOn,
          Undisturbed, Purposes, Leased, Registered, Asking, Answering, Signalling,
          CommandData, Projected, Shown, Unfailed, Busy, ByTurn, Open, AnswersOwnQuestion
<1>4. CASE CreateEvent(c)
  <2>1. GoesOn(c, "cmdcommit", th[c].pid, th[c].seen, th[c].out)
    BY <1>0, <1>4, GotoGoesOn DEF CreateEvent, CommandRaises, Steps, At
  <2>2. c = m /\ m # r /\ m # None /\ Does(m) = th[m] BY <1>0, <1>4, MainActs DEF CreateEvent, At
  <2>3. Does(m)' = th'[m] /\ Does(r)' = Does(r) /\ OnlyThese(m, r)'
    BY <1>0, <1>4, <2>1, <2>2, MainAlone DEF GoesOn, CreateEvent, At
  <2> QED
    BY <1>0, <1>4, <2>1, <2>2, <2>3
      DEF CreateEvent, At, GoesOn,
          Undisturbed, Purposes, Leased, Registered, Asking, Answering, Signalling,
          CommandData, Projected, Shown, Unfailed, Busy, ByTurn, Open, AnswersOwnQuestion
<1>5. CASE CommandSuspends(c)
  <2>1. GoesOn(c, "cmdshow", th[c].pid, th[c].seen, th[c].out)
    BY <1>0, <1>5, GotoGoesOn DEF CommandSuspends, CommandRaises, Steps, At
  <2>2. c = m /\ m # r /\ m # None /\ Does(m) = th[m]
    BY <1>0, <1>5, MainActs DEF CommandSuspends, At
  <2>3. Does(m)' = th'[m] /\ Does(r)' = Does(r) /\ OnlyThese(m, r)'
    BY <1>0, <1>5, <2>1, <2>2, MainAlone DEF GoesOn, CommandSuspends, At
  <2> QED
    BY <1>0, <1>5, <2>1, <2>2, <2>3
      DEF CommandSuspends, At, GoesOn,
          Undisturbed, Purposes, Leased, Registered, Asking, Answering, Signalling,
          CommandData, Projected, Shown, Unfailed, Busy, ByTurn, Open, AnswersOwnQuestion
<1>6. CASE CommandWakes(c)
  <2>1. GoesOn(c, "cmdresume", th[c].pid, th[c].seen, th[c].out)
    BY <1>0, <1>6, GotoGoesOn DEF CommandWakes, CommandRaises, Steps, At
  <2>2. c = m /\ m # r /\ m # None /\ Does(m) = th[m] BY <1>0, <1>6, MainActs DEF CommandWakes, At
  <2>3. Does(m)' = th'[m] /\ Does(r)' = Does(r) /\ OnlyThese(m, r)'
    BY <1>0, <1>6, <2>1, <2>2, MainAlone DEF GoesOn, CommandWakes, At
  <2> QED
    BY <1>0, <1>6, <2>1, <2>2, <2>3
      DEF CommandWakes, At, Awake, GoesOn,
          Undisturbed, Purposes, Leased, Registered, Asking, Answering, Signalling,
          CommandData, Projected, Shown, Unfailed, Busy, ByTurn, Open, AnswersOwnQuestion
<1>7. CASE CommandAnswers(c)
  <2>0. th' = [th EXCEPT ![c].at = "cmdapply", ![c].seen = 0, ![c].out = "done"]
    BY <1>7 DEF CommandAnswers
  <2>1. GoesOn(c, "cmdapply", th[c].pid, 0, "done")
    BY <1>0, <1>7, <2>0, ZenonT(40) DEF GoesOn, Changes, Thread, Steps
  <2>2. c = m /\ m # r /\ m # None /\ Does(m) = th[m] BY <1>0, <1>7, MainActs DEF CommandAnswers, At
  <2>3. Does(m)' = th'[m] /\ Does(r)' = Does(r) /\ OnlyThese(m, r)'
    BY <1>0, <1>7, <2>1, <2>2, MainAlone DEF GoesOn, CommandAnswers, At
  <2> QED
    BY <1>0, <1>7, <2>1, <2>2, <2>3
      DEF CommandAnswers, At, GoesOn,
          Undisturbed, Purposes, Leased, Registered, Asking, Answering, Signalling,
          CommandData, Projected, Shown, Unfailed, Busy, ByTurn, Open, AnswersOwnQuestion
<1>8. CASE CommandEnds(c)
  <2>0. th' = [th EXCEPT ![c].at = "cmdapply", ![c].seen = pending] BY <1>8 DEF CommandEnds
  <2>1. GoesOn(c, "cmdapply", th[c].pid, pending, th[c].out)
    BY <1>0, <1>8, <2>0, ZenonT(40) DEF GoesOn, Changes, Thread, Steps
  <2>2. c = m /\ m # r /\ m # None /\ Does(m) = th[m] BY <1>0, <1>8, MainActs DEF CommandEnds, At
  <2>3. Does(m)' = th'[m] /\ Does(r)' = Does(r) /\ OnlyThese(m, r)'
    BY <1>0, <1>8, <2>1, <2>2, MainAlone DEF GoesOn, CommandEnds, At
  <2> QED
    BY <1>0, <1>8, <2>1, <2>2, <2>3
      DEF CommandEnds, At, GoesOn,
          Undisturbed, Purposes, Leased, Registered, Asking, Answering, Signalling,
          CommandData, Projected, Shown, Unfailed, Busy, ByTurn, Open, AnswersOwnQuestion
<1>9. CASE CommandReturns(c)
  <2>1. GoesOn(c, "snapshot", th[c].pid, th[c].seen, th[c].out)
    BY <1>0, <1>9, GotoGoesOn DEF CommandReturns, CommandRaises, Steps, At
  <2>2. c = m /\ m # r /\ m # None /\ Does(m) = th[m] BY <1>0, <1>9, MainActs DEF CommandReturns, At
  <2>3. Does(m)' = th'[m] /\ Does(r)' = Does(r) /\ OnlyThese(m, r)'
    BY <1>0, <1>9, <2>1, <2>2, MainAlone DEF GoesOn, CommandReturns, At
  <2> QED
    BY <1>0, <1>9, <2>1, <2>2, <2>3
      DEF CommandReturns, At, GoesOn,
          Undisturbed, Purposes, Leased, Registered, Asking, Answering, Signalling,
          CommandData, Projected, Shown, Unfailed, Busy, ByTurn, Open, AnswersOwnQuestion
<1>10. CASE EnterCommand(c)
  <2>1. \/ GoesOn(c, "cmdwork", th[c].pid, th[c].seen, th[c].out)
           /\ th[c].at = "cmdcore" /\ lease' = c
        \/ GoesOn(c, "cmdanswer", th[c].pid, th[c].seen, th[c].out)
           /\ th[c].at = "cmdresume" /\ lease' = c
    BY <1>0, <1>10, GotoGoesOn DEF EnterCommand, CommandRaises, Steps, At
  <2>2. c = m /\ m # r /\ m # None /\ Does(m) = th[m] BY <1>0, <1>10, MainActs DEF EnterCommand, At
  <2>3. Does(m)' = th'[m] /\ Does(r)' = Does(r) /\ OnlyThese(m, r)'
    BY <1>0, <1>10, <2>1, <2>2, MainAlone DEF GoesOn, EnterCommand, At
  <2> QED
    BY <1>0, <1>10, <2>1, <2>2, <2>3
      DEF EnterCommand, At, GoesOn,
          Undisturbed, Purposes, Leased, Registered, Asking, Answering, Signalling,
          CommandData, Projected, Shown, Unfailed, Busy, ByTurn, Open, AnswersOwnQuestion
<1> QED BY <1>1, <1>2, <1>3, <1>4, <1>5, <1>6, <1>7, <1>8, <1>9, <1>10 DEF CommandStep

(* The steps of a turn before its end.                                      *)
LEMMA TurnUndisturbed ==
  ASSUME TypeInv, NEW m \in Actors, NEW r \in Actors, Undisturbed(m, r),
         NEW t \in Threads, Enter(t) \/ Clear(t) \/ Ask(t) \/ Suspend(t) \/ EndTurn(t)
         \/ ReleaseSnapshot(t) \/ Resolve(t) \/ EnterCore(t), ~disturbed'
  PROVE  Undisturbed(m, r)'
<1>0. /\ t \in Threads /\ th[t] \in Thread /\ th \in [Threads -> Thread]
      /\ asks \in Nat /\ asks + 1 \in Nat /\ pending \in Nat /\ pending <= asks
      /\ th[t].seen \in Nat /\ ticket \in Nat /\ projection \in Nat
  BY Asked DEF TypeInv, TypeOK, Threads, Thread
<1> USE DEF ticketVars, coreVars, workVars, countVars, historyVars
<1> USE DEF TurnSteps, MainSteps, CommandSteps, TurnKinds, TurnReplySteps
<1>1. CASE Enter(t)
  <2>0. th' = [th EXCEPT ![t].at = "clear",
                          ![t].pid = IF projection # 0 THEN projection ELSE ticket]
    BY <1>1 DEF Enter
  <2>1. GoesOn(t, "clear", IF projection # 0 THEN projection ELSE ticket, th[t].seen, th[t].out)
    BY <1>0, <1>1, <2>0, ZenonT(40) DEF GoesOn, Changes, Thread, Steps
  <2>2. t = m /\ m # r /\ m # None /\ Does(m) = th[m] BY <1>0, <1>1, MainActs DEF Enter, At
  <2>3. Does(m)' = th'[m] /\ Does(r)' = Does(r) /\ OnlyThese(m, r)'
    BY <1>0, <1>1, <2>1, <2>2, MainAlone DEF GoesOn, Enter, At
  <2> QED
    BY <1>0, <1>1, <2>1, <2>2, <2>3
      DEF Enter, At, GoesOn,
          Undisturbed, Purposes, Leased, Registered, Asking, Answering, Signalling,
          CommandData, Projected, Shown, Unfailed, Busy, ByTurn, Open, AnswersOwnQuestion
<1>2. CASE Clear(t)
  <2>1. GoesOn(t, "core", th[t].pid, th[t].seen, th[t].out)
    BY <1>0, <1>2, GotoGoesOn DEF Clear, CommandRaises, Steps, At
  <2>2. t = m /\ m # r /\ m # None /\ Does(m) = th[m] BY <1>0, <1>2, MainActs DEF Clear, At
  <2>3. Does(m)' = th'[m] /\ Does(r)' = Does(r) /\ OnlyThese(m, r)'
    BY <1>0, <1>2, <2>1, <2>2, MainAlone DEF GoesOn, Clear, At
  <2> QED
    BY <1>0, <1>2, <2>1, <2>2, <2>3
      DEF Clear, At, GoesOn,
          Undisturbed, Purposes, Leased, Registered, Asking, Answering, Signalling,
          CommandData, Projected, Shown, Unfailed, Busy, ByTurn, Open, AnswersOwnQuestion
<1>3. CASE Ask(t)
  <2>0. th' = [th EXCEPT ![t].at = "ask", ![t].seen = asks + 1, ![t].out = "wait"] BY <1>3 DEF Ask
  <2>1. GoesOn(t, "ask", th[t].pid, asks + 1, "wait")
    BY <1>0, <1>3, <2>0, ZenonT(40) DEF GoesOn, Changes, Thread, Steps
  <2>2. t = m /\ m # r /\ m # None /\ Does(m) = th[m] BY <1>0, <1>3, MainActs DEF Ask, At
  <2>3. Does(m)' = th'[m] /\ Does(r)' = Does(r) /\ OnlyThese(m, r)'
    BY <1>0, <1>3, <2>1, <2>2, MainAlone DEF GoesOn, Ask, At
  <2> QED
    BY <1>0, <1>3, <2>1, <2>2, <2>3
      DEF Ask, At, Offer, GoesOn,
          Undisturbed, Purposes, Leased, Registered, Asking, Answering, Signalling,
          CommandData, Projected, Shown, Unfailed, Busy, ByTurn, Open, AnswersOwnQuestion
<1>4. CASE Suspend(t)
  <2>1. GoesOn(t, "snapshot", th[t].pid, th[t].seen, th[t].out)
    BY <1>0, <1>4, GotoGoesOn DEF Suspend, CommandRaises, Steps, At
  <2>2. t = m /\ m # r /\ m # None /\ Does(m) = th[m] BY <1>0, <1>4, MainActs DEF Suspend, At
  <2>3. Does(m)' = th'[m] /\ Does(r)' = Does(r) /\ OnlyThese(m, r)'
    BY <1>0, <1>4, <2>1, <2>2, MainAlone DEF GoesOn, Suspend, At
  <2> QED
    BY <1>0, <1>4, <2>1, <2>2, <2>3
      DEF Suspend, At, GoesOn,
          Undisturbed, Purposes, Leased, Registered, Asking, Answering, Signalling,
          CommandData, Projected, Shown, Unfailed, Busy, ByTurn, Open, AnswersOwnQuestion
<1>5. CASE EndTurn(t)
  <2>0. th' = [th EXCEPT ![t].at = "snapshot", ![t].out = "done"] BY <1>5 DEF EndTurn
  <2>1. GoesOn(t, "snapshot", th[t].pid, th[t].seen, "done")
    BY <1>0, <1>5, <2>0, ZenonT(40) DEF GoesOn, Changes, Thread, Steps
  <2>2. t = m /\ m # r /\ m # None /\ Does(m) = th[m] BY <1>0, <1>5, MainActs DEF EndTurn, At
  <2>3. Does(m)' = th'[m] /\ Does(r)' = Does(r) /\ OnlyThese(m, r)'
    BY <1>0, <1>5, <2>1, <2>2, MainAlone DEF GoesOn, EndTurn, At
  <2> QED
    BY <1>0, <1>5, <2>1, <2>2, <2>3
      DEF EndTurn, At, GoesOn,
          Undisturbed, Purposes, Leased, Registered, Asking, Answering, Signalling,
          CommandData, Projected, Shown, Unfailed, Busy, ByTurn, Open, AnswersOwnQuestion
<1>6. CASE ReleaseSnapshot(t)
  <2>1. GoesOn(t, "apply", th[t].pid, th[t].seen, th[t].out)
    BY <1>0, <1>6, GotoGoesOn DEF ReleaseSnapshot, CommandRaises, Steps, At
  <2>2. t = m /\ m # r /\ m # None /\ Does(m) = th[m]
    BY <1>0, <1>6, MainActs DEF ReleaseSnapshot, At
  <2>3. Does(m)' = th'[m] /\ Does(r)' = Does(r) /\ OnlyThese(m, r)'
    BY <1>0, <1>6, <2>1, <2>2, MainAlone DEF GoesOn, ReleaseSnapshot, At
  <2> QED
    BY <1>0, <1>6, <2>1, <2>2, <2>3
      DEF ReleaseSnapshot, At, GoesOn,
          Undisturbed, Purposes, Leased, Registered, Asking, Answering, Signalling,
          CommandData, Projected, Shown, Unfailed, Busy, ByTurn, Open, AnswersOwnQuestion
<1>7. CASE Resolve(t)
  <2>1. \/ GoesOn(t, "work", th[t].pid, th[t].seen, th[t].out) /\ pending = th[t].pid
        \/ GoesOn(t, "fail", th[t].pid, th[t].seen, th[t].out)
           /\ lease' = None /\ UNCHANGED <<pending, answers>>
    BY <1>0, <1>7, GotoGoesOn DEF Resolve, CommandRaises, Steps, At
  <2>2. t = m /\ m # r /\ m # None /\ Does(m) = th[m] BY <1>0, <1>7, MainActs DEF Resolve, At
  <2>3. Does(m)' = th'[m] /\ Does(r)' = Does(r) /\ OnlyThese(m, r)'
    BY <1>0, <1>7, <2>1, <2>2, MainAlone DEF GoesOn, Resolve, At
  <2> QED
    BY <1>0, <1>7, <2>1, <2>2, <2>3
      DEF Resolve, At, GoesOn,
          Undisturbed, Purposes, Leased, Registered, Asking, Answering, Signalling,
          CommandData, Projected, Shown, Unfailed, Busy, ByTurn, Open, AnswersOwnQuestion
<1>8. CASE EnterCore(t)
  <2>1. \/ GoesOn(t, "work", th[t].pid, th[t].seen, th[t].out) /\ ~Resumes(t) /\ lease' = t
        \/ GoesOn(t, "resolve", th[t].pid, th[t].seen, th[t].out) /\ Resumes(t) /\ lease' = t
        \/ GoesOn(t, "fail", th[t].pid, th[t].seen, th[t].out) /\ UNCHANGED lease
    BY <1>0, <1>8, GotoGoesOn DEF EnterCore, CommandRaises, Steps, At
  <2>2. t = m /\ m # r /\ m # None /\ Does(m) = th[m] BY <1>0, <1>8, MainActs DEF EnterCore, At
  <2>3. Does(m)' = th'[m] /\ Does(r)' = Does(r) /\ OnlyThese(m, r)'
    BY <1>0, <1>8, <2>1, <2>2, MainAlone DEF GoesOn, EnterCore, At
  <2> QED
    BY <1>0, <1>8, <2>1, <2>2, <2>3
      DEF EnterCore, At, Resumes, GoesOn,
          Undisturbed, Purposes, Leased, Registered, Asking, Answering, Signalling,
          CommandData, Projected, Shown, Unfailed, Busy, ByTurn, Open, AnswersOwnQuestion
<1> QED BY <1>1, <1>2, <1>3, <1>4, <1>5, <1>6, <1>7, <1>8 DEF TurnStep

(* A caller that is neither operation nor reply names a question to reply   *)
(* to, or gives up.                                                         *)
LEMMA NoRoleChanges ==
  ASSUME NEW m \in Actors, NEW r \in Actors, Undisturbed(m, r), NEW c \in Callers, c # m, c # r,
         Changes({c}), th'[c].out = "none", th[c].at # "new",
         \/ th'[c].at = "idle"
         \/ th'[c].at = "claim" /\ th'[c].kind = "reply" /\ th'[c].names # 0
  PROVE  Does(m)' = Does(m) /\ Does(r)' = Does(r) /\ OnlyThese(m, r)'
<1>1. c \in Threads /\ \A u \in Threads \ {c} : th'[u] = th[u] BY DEF Threads, Changes
<1>2. Does(m)' = Does(m) /\ Does(r)' = Does(r) BY <1>1 DEF Does, Actors
<1>3. OnlyThese(m, r) BY DEF Undisturbed
<1>4. OnlyThese(m, r)' BY <1>1, <1>2, <1>3 DEF OnlyThese, Threads, Actors
<1> QED BY <1>2, <1>4

(* Calls that begin no operation.                                           *)
LEMMA CallUndisturbed ==
  ASSUME TypeInv, NEW m \in Actors, NEW r \in Actors, Undisturbed(m, r), NEW c \in Callers,
         Respond(c) \/ ClaimRefused(c) \/ CancelTurn(c) \/ CancelCommand(c), ~disturbed'
  PROVE  Undisturbed(m, r)'
<1>0. /\ c \in Threads /\ th[c] \in Thread /\ th \in [Threads -> Thread] /\ ticket \in Nat
      /\ th[c].at \in {"idle", "claim"}
  BY Asked
     DEF TypeInv, TypeOK, Threads, Thread, Respond, ClaimRefused, CancelTurn, CancelCommand,
         Called, At
<1>1. c # m /\ c # r /\ th[c].out = "none"
  BY <1>0, HostAssumption
     DEF Undisturbed, OnlyThese, Does, Threads, MainSteps, TurnSteps, CommandSteps, TurnReplySteps
<1> USE DEF ticketVars, coreVars, workVars, countVars, historyVars
<1>2. CASE Respond(c)
  <2>1. th' = [th EXCEPT ![c].at = "claim", ![c].kind = "reply", ![c].names = ticket] /\ ticket # 0
    BY <1>2 DEF Respond
  <2>2. /\ Changes({c}) /\ th'[c].at = "claim" /\ th'[c].kind = "reply" /\ th'[c].names # 0
        /\ th'[c].out = "none"
    BY <1>0, <1>1, <2>1, ZenonT(40) DEF Changes, Thread, Steps, Kinds
  <2>3. Does(m)' = Does(m) /\ Does(r)' = Does(r) /\ OnlyThese(m, r)'
    BY <1>0, <1>1, <2>2, NoRoleChanges
  <2> QED BY <1>2, <2>3 DEF Respond,
      Undisturbed, Purposes, Leased, Registered, Asking, Answering, Signalling,
      CommandData, Projected, Shown, Unfailed, Busy, ByTurn, Open, AnswersOwnQuestion
<1>3. CASE ClaimRefused(c)
  <2>1. Ends(c) BY <1>0, <1>3, IdleEnds DEF ClaimRefused
  <2>2. Does(m)' = Does(m) /\ Does(r)' = Does(r) /\ OnlyThese(m, r)'
    BY <1>0, <1>1, <2>1, NoRoleChanges, IdleFields DEF Ends
  <2> QED BY <1>3, <2>2 DEF ClaimRefused,
      Undisturbed, Purposes, Leased, Registered, Asking, Answering, Signalling,
      CommandData, Projected, Shown, Unfailed, Busy, ByTurn, Open, AnswersOwnQuestion
<1>4. CASE CancelTurn(c) \/ CancelCommand(c)
  <2>1. th' = th BY <1>4 DEF CancelTurn, CancelCommand
  <2>2. Does(m)' = Does(m) /\ Does(r)' = Does(r) /\ OnlyThese(m, r)'
    BY <2>1 DEF Does, OnlyThese, Undisturbed
  <2>3. status' = "running" => \/ Does(m).at \in TurnSteps /\ Does(m).kind \in TurnKinds
                               \/ Does(r).at \in {"await", "own"}
    BY <1>4, OccupiedBy DEF CancelTurn, CancelCommand, StatusAfterCancel
  <2>4. CASE CancelTurn(c)
    BY <2>2, <2>3, <2>4 DEF CancelTurn, StatusAfterCancel, TurnKinds, TurnReplySteps,
        Undisturbed, Purposes, Leased, Registered, Asking, Answering, Signalling,
        CommandData, Projected, Shown, Unfailed, Busy, ByTurn, Open, AnswersOwnQuestion
  <2>5. CASE CancelCommand(c)
    BY <2>2, <2>3, <2>5 DEF CancelCommand, StatusAfterCancel, TurnKinds, TurnReplySteps,
        Undisturbed, Purposes, Leased, Registered, Asking, Answering, Signalling,
        CommandData, Projected, Shown, Unfailed, Busy, ByTurn, Open, AnswersOwnQuestion
  <2> QED BY <1>4, <2>4, <2>5
<1> QED BY <1>2, <1>3, <1>4

(* The steps of a submission that runs in its caller, and of a refusal.     *)
LEMMA SubmitUndisturbed ==
  ASSUME TypeInv, NEW m \in Actors, NEW r \in Actors, Undisturbed(m, r), NEW c \in Callers,
         MarkRunning(c) \/ RunHere(c) \/ ClearStop(c), ~disturbed'
  PROVE  Undisturbed(m, r)'
<1>0. c \in Threads /\ th[c] \in Thread BY Asked DEF Threads
<1>1. c = m /\ m # r /\ m # None /\ Does(m) = th[m]
  BY <1>0, MainActs DEF MarkRunning, RunHere, ClearStop, At, MainSteps
<1> USE DEF ticketVars, coreVars, workVars, countVars, historyVars
<1>2. CASE MarkRunning(c)
  <2>1. GoesOn(c, "register", th[c].pid, th[c].seen, th[c].out)
    BY <1>0, <1>2, GotoGoesOn DEF MarkRunning, Steps
  <2>2. Does(m)' = th'[m] /\ Does(r)' = Does(r) /\ OnlyThese(m, r)'
    BY <1>0, <1>1, <1>2, <2>1, MainAlone DEF GoesOn, MarkRunning, At, MainSteps
  <2> QED
    BY <1>0, <1>1, <1>2, <2>1, <2>2
      DEF MarkRunning, At, GoesOn, TurnSteps, CommandSteps, TurnKinds, TurnReplySteps,
          Undisturbed, Purposes, Leased, Registered, Asking, Answering, Signalling,
          CommandData, Projected, Shown, Unfailed, Busy, ByTurn, Open, AnswersOwnQuestion
<1>3. CASE RunHere(c)
  <2>1. GoesOn(c, "clear", th[c].pid, th[c].seen, th[c].out)
    BY <1>0, <1>3, GotoGoesOn DEF RunHere, Steps
  <2>2. Does(m)' = th'[m] /\ Does(r)' = Does(r) /\ OnlyThese(m, r)'
    BY <1>0, <1>1, <1>3, <2>1, MainAlone DEF GoesOn, RunHere, At, MainSteps, TurnSteps
  <2> QED
    BY <1>0, <1>1, <1>3, <2>1, <2>2, HostAssumption
      DEF RunHere, At, GoesOn, TurnSteps, CommandSteps, TurnKinds, TurnReplySteps,
          Undisturbed, Purposes, Leased, Registered, Asking, Answering, Signalling,
          CommandData, Projected, Shown, Unfailed, Busy, ByTurn, Open, AnswersOwnQuestion
<1>4. CASE ClearStop(c)
  <2>1. GoesOn(c, "enter", th[c].pid, th[c].seen, th[c].out)
    BY <1>0, <1>4, GotoGoesOn DEF ClearStop, Steps
  <2>2. Does(m)' = th'[m] /\ Does(r)' = Does(r) /\ OnlyThese(m, r)'
    BY <1>0, <1>1, <1>4, <2>1, MainAlone DEF GoesOn, ClearStop, At, MainSteps, TurnSteps
  <2> QED
    BY <1>0, <1>1, <1>4, <2>1, <2>2, HostAssumption
      DEF ClearStop, At, GoesOn, TurnSteps, CommandSteps, TurnKinds, TurnReplySteps,
          Undisturbed, Purposes, Leased, Registered, Asking, Answering, Signalling,
          CommandData, Projected, Shown, Unfailed, Busy, ByTurn, Open, AnswersOwnQuestion
<1> QED BY <1>2, <1>3, <1>4

(* A submission hands its turn to a thread of the host.                     *)
LEMMA LaunchUndisturbed ==
  ASSUME TypeInv, NEW m \in Actors, NEW r \in Actors, Undisturbed(m, r), NEW c \in Callers,
         RegisterTurn(c) \/ LaunchTurn(c), ~disturbed'
  PROVE  InOrder'
<1>0. c \in Threads /\ th[c] \in Thread /\ th \in [Threads -> Thread] BY Asked DEF Threads
<1>1. c = m /\ m # r /\ m # None /\ Does(m) = th[m]
  BY <1>0, MainActs DEF RegisterTurn, LaunchTurn, At, MainSteps
<1>9. OnlyThese(m, r) BY DEF Undisturbed
<1> USE DEF ticketVars, coreVars, workVars, countVars, historyVars
<1>2. CASE RegisterTurn(c)
  <2>1. NewWorker \in Workers /\ NewWorker \in Threads /\ th[NewWorker].at = "idle"
    BY <1>2, NewWorkerIdle DEF RegisterTurn
  <2>2. PICK w \in Threads : w = NewWorker BY <2>1
  <2>3. w \in Workers /\ th[w].at = "idle" BY <2>1, <2>2
  <2>4. /\ th' = [th EXCEPT ![c].at = "launch", ![c].peer = w,
                          ![w].at = "new", ![w].kind = "background"]
        /\ active' = w /\ th[c].at = "register" /\ th[c].kind = "background"
    BY <1>2, <2>2 DEF RegisterTurn, At
  <2>5. w # m /\ w # r /\ w # None
    BY <1>1, <2>3, <2>4, <1>9, HostAssumption DEF OnlyThese, Does, Threads, TurnReplySteps
  <2>6. /\ \A u \in Threads \ {m, w} : th'[u] = th[u]
        /\ th'[m].at = "launch" /\ th'[m].peer = w /\ th'[m].kind = "background"
        /\ th'[m].out = th[m].out
        /\ th'[w].at = "new" /\ th'[w].kind = "background" /\ th'[w].out = th[w].out
    BY <1>0, <1>1, <2>3, <2>4, <2>5 DEF Thread
  <2>7. Does(m)' = th'[m] /\ Does(r)' = Does(r)
    BY <1>1, <2>5, <2>6 DEF Does, Actors
  <2>8. OnlyThese(m, r)'
    <3>0. th[m].at = "register" BY <1>1, <2>4
    <3>1. \A t \in Threads \ {m, r} : th'[t].at \in {"idle", "claim", "new"} /\ th'[t].out = "none"
      BY <1>1, <1>9, <2>5, <2>6 DEF OnlyThese
    <3>2. \A t \in Threads : th'[t].at = "claim" =>
            t \in Callers /\ th'[t].kind = "reply" /\ th'[t].names # 0
      BY <1>1, <1>9, <2>5, <2>6 DEF OnlyThese
    <3>3. \A t \in Threads : th'[t].at = "new" =>
            t \in Workers /\ (t = w \/ (Does(r).at = "start" /\ Does(r).peer = t))
      BY <1>1, <1>9, <2>3, <2>5, <2>6, <3>0 DEF OnlyThese
    <3>4. Does(r).at = "start" =>
            /\ Does(r).peer \in Workers /\ th'[Does(r).peer].at = "new"
            /\ th'[Does(r).peer].kind = "reply" /\ th'[Does(r).peer].names = Does(r).names
      BY <1>1, <1>9, <2>3, <2>5, <2>6, <3>0 DEF OnlyThese, Threads
    <3> QED
      BY <1>1, <1>9, <2>3, <2>6, <2>7, <3>1, <3>2, <3>3, <3>4 DEF OnlyThese, MainSteps
  <2>9. Undisturbed(m, r)'
    <3>1. Purposes(m, r)'
      BY <1>0, <1>1, <1>2, <2>3, <2>4, <2>5, <2>6, <2>7, <2>8, HostAssumption
         DEF RegisterTurn, TurnSteps, CommandSteps, TurnKinds, TurnReplySteps, Undisturbed,
             Purposes
    <3>2. Leased(m)' /\ Registered(m, r)'
      BY <1>0, <1>1, <1>2, <2>3, <2>4, <2>5, <2>6, <2>7, <2>8, HostAssumption
         DEF RegisterTurn, TurnSteps, CommandSteps, TurnKinds, TurnReplySteps, Undisturbed,
             Purposes, Leased, Registered
    <3>3. Asking(m, r)' /\ Answering(m, r)' /\ Signalling(m, r)'
      BY <1>0, <1>1, <1>2, <2>3, <2>4, <2>5, <2>6, <2>7, <2>8, HostAssumption
         DEF RegisterTurn, TurnSteps, CommandSteps, TurnKinds, TurnReplySteps, Undisturbed,
             Purposes, Asking, Answering, Signalling, ByTurn, Open
    <3>4. CommandData(m, r)' /\ Projected(m)' /\ Shown(m, r)'
      BY <1>0, <1>1, <1>2, <2>3, <2>4, <2>5, <2>6, <2>7, <2>8, HostAssumption
         DEF RegisterTurn, TurnSteps, CommandSteps, TurnKinds, TurnReplySteps, Undisturbed,
             Purposes, CommandData, Projected, Shown, ByTurn, Open
    <3>5. Unfailed(m, r)'
      BY <1>0, <1>1, <1>2, <2>3, <2>4, <2>5, <2>6, <2>7, <2>8, HostAssumption
         DEF RegisterTurn, TurnSteps, CommandSteps, TurnKinds, TurnReplySteps, Undisturbed,
             Purposes, Shown, Unfailed, Busy, ByTurn, AnswersOwnQuestion
    <3> QED BY <2>8, <3>1, <3>2, <3>3, <3>4, <3>5 DEF Undisturbed
  <2> QED BY <2>9 DEF InOrder
<1>3. CASE LaunchTurn(c)
  <2>1. th[c].at = "launch" BY <1>3 DEF LaunchTurn, At
  <2>2. PICK w \in Workers : w = th[c].peer /\ th[w].at = "new" /\ th[w].kind = "background"
    BY <1>1, <1>9, <2>1 DEF OnlyThese
  <2>3. th' = [th EXCEPT ![c] = Idle, ![w].at = "clear"] /\ w \in Threads
    BY <1>3, <2>2 DEF LaunchTurn, Threads
  <2>4. w # m /\ w # r /\ w # None
    BY <1>1, <2>1, <2>2, <1>9, HostAssumption DEF OnlyThese, Does, Threads, TurnReplySteps
  <2>5. /\ \A u \in Threads \ {m, w} : th'[u] = th[u]
        /\ th'[m] = Idle
        /\ th'[w].at = "clear" /\ th'[w].kind = "background" /\ th'[w].out = "none"
    <3>1. th[w].out = "none" BY <1>9, <2>3, <2>4 DEF OnlyThese
    <3> QED BY <1>0, <1>1, <2>2, <2>3, <2>4, <3>1 DEF Thread
  <2>6. Does(w)' = th'[w] /\ Does(r)' = Does(r)
    BY <1>1, <2>4, <2>5 DEF Does, Actors
  <2>7. OnlyThese(w, r)'
    <3>1. \A t \in Threads \ {w, r} : th'[t].at \in {"idle", "claim", "new"} /\ th'[t].out = "none"
      BY <1>1, <1>9, <2>5, IdleFields DEF OnlyThese
    <3>2. \A t \in Threads : th'[t].at = "claim" =>
            t \in Callers /\ th'[t].kind = "reply" /\ th'[t].names # 0
      BY <1>1, <1>9, <2>5, IdleFields DEF OnlyThese
    <3>3. \A t \in Threads : th'[t].at = "new" =>
            t \in Workers /\ Does(r).at = "start" /\ Does(r).peer = t
      BY <1>1, <1>9, <2>2, <2>5, IdleFields DEF OnlyThese
    <3>4. Does(r).at = "start" =>
            /\ Does(r).peer \in Workers /\ th'[Does(r).peer].at = "new"
            /\ th'[Does(r).peer].kind = "reply" /\ th'[Does(r).peer].names = Does(r).names
      BY <1>1, <1>9, <2>1, <2>2, <2>5, IdleFields DEF OnlyThese, Threads
    <3> QED
      BY <1>9, <2>4, <2>5, <2>6, <3>1, <3>2, <3>3, <3>4 DEF OnlyThese, MainSteps, TurnSteps
  <2>8. Undisturbed(w, r)'
    <3>1. Purposes(w, r)'
      BY <1>0, <1>1, <1>3, <2>1, <2>2, <2>4, <2>5, <2>6, <2>7, HostAssumption
         DEF LaunchTurn, TurnSteps, CommandSteps, TurnKinds, TurnReplySteps, Undisturbed,
             Purposes
    <3>2. Leased(w)' /\ Registered(w, r)'
      BY <1>0, <1>1, <1>3, <2>1, <2>2, <2>4, <2>5, <2>6, <2>7, HostAssumption
         DEF LaunchTurn, TurnSteps, CommandSteps, TurnKinds, TurnReplySteps, Undisturbed,
             Purposes, Leased, Registered
    <3>3. Asking(w, r)' /\ Answering(w, r)' /\ Signalling(w, r)'
      BY <1>0, <1>1, <1>3, <2>1, <2>2, <2>4, <2>5, <2>6, <2>7, HostAssumption
         DEF LaunchTurn, TurnSteps, CommandSteps, TurnKinds, TurnReplySteps, Undisturbed,
             Purposes, Asking, Answering, Signalling, ByTurn, Open
    <3>4. CommandData(w, r)' /\ Projected(w)' /\ Shown(w, r)'
      BY <1>0, <1>1, <1>3, <2>1, <2>2, <2>4, <2>5, <2>6, <2>7, HostAssumption
         DEF LaunchTurn, TurnSteps, CommandSteps, TurnKinds, TurnReplySteps, Undisturbed,
             Purposes, CommandData, Projected, Shown, ByTurn, Open
    <3>5. Unfailed(w, r)'
      BY <1>0, <1>1, <1>3, <2>1, <2>2, <2>4, <2>5, <2>6, <2>7, HostAssumption
         DEF LaunchTurn, TurnSteps, CommandSteps, TurnKinds, TurnReplySteps, Undisturbed,
             Purposes, Shown, Unfailed, Busy, ByTurn, AnswersOwnQuestion
    <3> QED BY <2>7, <3>1, <3>2, <3>3, <3>4, <3>5 DEF Undisturbed
  <2> QED BY <2>3, <2>8 DEF InOrder, Actors
<1> QED BY <1>2, <1>3

(* A thread at a step of a reply is the reply.                              *)
LEMMA ReplyActs ==
  ASSUME NEW m \in Actors, NEW r \in Actors, Undisturbed(m, r), NEW t \in Threads,
         th[t].at \in TurnReplySteps \cup {"signal"}
  PROVE  t = r /\ r # None /\ m # r /\ Does(r) = th[r]
<1>1. t # None BY HostAssumption DEF Threads
<1>2. t # m
  BY <1>1 DEF Undisturbed, OnlyThese, Does, TurnReplySteps, MainSteps, TurnSteps, CommandSteps
<1>3. t = r BY <1>1, <1>2 DEF Undisturbed, OnlyThese, TurnReplySteps
<1> QED BY <1>1, <1>2, <1>3 DEF Does

(* A reply is claimed: to a question whose turn is over or on its way out.  *)
LEMMA ClaimUndisturbed ==
  ASSUME TypeInv, NEW m \in Actors, NEW r \in Actors, Undisturbed(m, r), NEW c \in Callers,
         Claim(c), ~disturbed'
  PROVE  InOrder'
<1> USE DEF ticketVars, coreVars, workVars, countVars, historyVars
<1>1. /\ c \in Threads /\ th[c] \in Thread /\ th \in [Threads -> Thread] /\ th[c].at = "claim"
      /\ event \in Nat /\ c # None
  BY Asked, HostAssumption DEF TypeInv, TypeOK, Threads, Thread, Claim, At
<1>9. OnlyThese(m, r) BY DEF Undisturbed
<1>2. c # m /\ c # r
  BY <1>1, <1>9 DEF OnlyThese, Does, MainSteps, TurnSteps, CommandSteps, TurnReplySteps
<1>3. th[c].kind = "reply" /\ th[c].names # 0 /\ th[c].out = "none"
  BY <1>1, <1>2, <1>9 DEF OnlyThese
<1>4. ticket # 0 /\ ticket = th[c].names /\ claim = 0 BY <1>3 DEF Claim
<1>5. r = None
  BY <1>4 DEF Undisturbed, Answering, Signalling, ByTurn, OnlyThese
<1>6. m # None => OnItsWayOut(m)
  <2>1. ASSUME m # None PROVE m \in Threads /\ m \in InProgress
    BY <1>9, <2>1 DEF Actors, OnlyThese, InProgress, Does, MainSteps, TurnSteps, CommandSteps
  <2> QED BY <2>1 DEF Claim, BeginsAnswer
<1>7. /\ \A u \in Threads \ {c} : th'[u] = th[u]
      /\ th'[c].at = (IF event # 0 THEN "signal" ELSE "schedule")
      /\ th'[c].kind = "reply" /\ th'[c].names = th[c].names /\ th'[c].out = "none"
      /\ th'[c].pid = event
  BY <1>1, <1>3 DEF Claim, Thread
<1>8. Does(m)' = Does(m) /\ Does(c)' = th'[c] /\ (m # None => Does(m) = th[m])
  BY <1>1, <1>2, <1>7 DEF Does, Actors
<1>12. Does(r) = Idle BY <1>5 DEF Does
<1>10. OnlyThese(m, c)'
  <2>1. th'[c].at \in {"signal", "schedule"} BY <1>7
  <2>2. \A t \in Threads \ {m, c} : th'[t].at \in {"idle", "claim", "new"} /\ th'[t].out = "none"
    BY <1>5, <1>7, <1>9, HostAssumption DEF OnlyThese, Threads
  <2>3. \A t \in Threads : th'[t].at = "claim" =>
          t \in Callers /\ th'[t].kind = "reply" /\ th'[t].names # 0
    BY <1>7, <1>9, <2>1 DEF OnlyThese
  <2>4. \A t \in Threads : th'[t].at = "new" =>
          t \in Workers /\ Does(m).at = "launch" /\ Does(m).peer = t
    BY <1>7, <1>9, <1>12, <2>1, IdleFields DEF OnlyThese
  <2>5. Does(m).at = "launch" =>
          /\ Does(m).peer \in Workers /\ th'[Does(m).peer].at = "new"
          /\ th'[Does(m).peer].kind = "background"
    BY <1>1, <1>7, <1>9 DEF OnlyThese, Threads
  <2> QED
    BY <1>1, <1>2, <1>8, <1>9, <2>1, <2>2, <2>3, <2>4, <2>5 DEF OnlyThese, TurnReplySteps
<1>13. m # None => \/ Does(m).at \in {"ask", "cmdcommit", "cmdshow", "cmdwaiting"}
                   \/ Does(m).out = "wait"
  BY <1>6, <1>8 DEF OnItsWayOut
<1>14. m = None => Does(m) = Idle BY DEF Does
<1>11. Undisturbed(m, c)'
  <2>1. CASE event = 0
    BY <1>1, <1>2, <1>3, <1>4, <1>12, <1>7, <1>8, <1>10, <1>13, <1>14, <2>1, IdleFields,
       HostAssumption
      DEF Claim, TurnSteps, CommandSteps, TurnKinds, TurnReplySteps,
          Undisturbed, Purposes, Leased, Registered, Asking, Answering, Signalling,
          CommandData, Projected, Shown, Unfailed, Busy, ByTurn, Open, AnswersOwnQuestion
  <2>2. CASE event # 0
    BY <1>1, <1>2, <1>3, <1>4, <1>12, <1>7, <1>8, <1>10, <1>13, <1>14, <2>2, IdleFields,
       HostAssumption
      DEF Claim, TurnSteps, CommandSteps, TurnKinds, TurnReplySteps,
          Undisturbed, Purposes, Leased, Registered, Asking, Answering, Signalling,
          CommandData, Projected, Shown, Unfailed, Busy, ByTurn, Open, AnswersOwnQuestion
  <2> QED BY <2>1, <2>2
<1> QED BY <1>1, <1>11 DEF InOrder, Actors

(* The reply wakes its command.                                             *)
LEMMA SignalUndisturbed ==
  ASSUME TypeInv, NEW m \in Actors, NEW r \in Actors, Undisturbed(m, r), NEW c \in Callers,
         SignalCommand(c), ~disturbed'
  PROVE  InOrder'
<1> USE DEF ticketVars, coreVars, workVars, countVars, historyVars
<1>1. c \in Threads /\ th[c] \in Thread /\ th \in [Threads -> Thread] /\ th[c].at = "signal"
  BY Asked, HostAssumption DEF Threads, SignalCommand, At
<1>9. OnlyThese(m, r) BY DEF Undisturbed
<1>2. c = r /\ r # None /\ m # r /\ Does(r) = th[r] BY <1>1, ReplyActs
<1>3. Ends(c) BY <1>1, IdleEnds DEF SignalCommand
<1>4. \A u \in Threads \ {c} : th'[u] = th[u] BY <1>3 DEF Ends, Changes
<1>5. th'[c] = Idle BY <1>3 DEF Ends
<1>6. Does(m)' = Does(m) /\ Does(None)' = Idle BY <1>2, <1>4 DEF Does, Actors
<1>7. OnlyThese(m, None)'
  BY <1>1, <1>2, <1>4, <1>5, <1>6, <1>9, IdleFields DEF OnlyThese, Threads, Actors
<1>8. Undisturbed(m, None)'
  BY <1>1, <1>2, <1>6, <1>7, IdleFields, HostAssumption
    DEF SignalCommand, Decide, TurnSteps, CommandSteps, TurnKinds, TurnReplySteps, Threads,
        Undisturbed, Purposes, Leased, Registered, Asking, Answering, Signalling,
        CommandData, Projected, Shown, Unfailed, Busy, ByTurn, Open, AnswersOwnQuestion
<1> QED BY <1>8 DEF InOrder, Actors

(* A thread is made to resume the turn with the reply.                      *)
LEMMA ScheduleUndisturbed ==
  ASSUME TypeInv, NEW m \in Actors, NEW r \in Actors, Undisturbed(m, r), NEW c \in Callers,
         ScheduleResume(c), ~disturbed'
  PROVE  Undisturbed(m, r)'
<1> USE DEF ticketVars, coreVars, workVars, countVars, historyVars
<1>1. c \in Threads /\ th[c] \in Thread /\ th \in [Threads -> Thread] /\ th[c].at = "schedule"
  BY Asked, HostAssumption DEF Threads, ScheduleResume, At
<1>9. OnlyThese(m, r) BY DEF Undisturbed
<1>2. c = r /\ r # None /\ m # r /\ Does(r) = th[r] BY <1>1, ReplyActs DEF TurnReplySteps
<1>3. NewWorker \in Workers /\ NewWorker \in Threads /\ th[NewWorker].at = "idle"
  BY NewWorkerIdle DEF ScheduleResume
<1>4. PICK w \in Threads : w = NewWorker BY <1>3
<1>5. w \in Workers /\ th[w].at = "idle" /\ w # r BY <1>1, <1>2, <1>3, <1>4
<1>6. w # m /\ w # None
  BY <1>1, <1>5, <1>9, HostAssumption
     DEF OnlyThese, Does, Threads, MainSteps, TurnSteps, CommandSteps
<1>7. th[c].kind = "reply" /\ th[c].out = "none"
  BY <1>2 DEF Undisturbed, Purposes
<1>8. /\ \A u \in Threads \ {r, w} : th'[u] = th[u]
      /\ th'[r].at = "start" /\ th'[r].peer = w /\ th'[r].kind = "reply" /\ th'[r].out = "none"
      /\ th'[r].names = th[r].names
      /\ th'[w].at = "new" /\ th'[w].kind = "reply" /\ th'[w].out = th[w].out
      /\ th'[w].names = th[r].names
  BY <1>1, <1>2, <1>4, <1>5, <1>7 DEF ScheduleResume, Thread
<1>10. Does(m)' = Does(m) /\ Does(r)' = th'[r] BY <1>2, <1>6, <1>8 DEF Does, Actors
<1>11. OnlyThese(m, r)'
  <2>1. \A t \in Threads \ {m, r} : th'[t].at \in {"idle", "claim", "new"} /\ th'[t].out = "none"
    BY <1>9, <1>5, <1>6, <1>8 DEF OnlyThese
  <2>2. \A t \in Threads : th'[t].at = "claim" =>
          t \in Callers /\ th'[t].kind = "reply" /\ th'[t].names # 0
    BY <1>9, <1>5, <1>8 DEF OnlyThese
  <2>3. \A t \in Threads : th'[t].at = "new" =>
          t \in Workers /\ (t = w \/ (Does(m).at = "launch" /\ Does(m).peer = t))
    BY <1>1, <1>2, <1>9, <1>5, <1>6, <1>8 DEF OnlyThese
  <2>4. Does(m).at = "launch" =>
          /\ Does(m).peer \in Workers /\ th'[Does(m).peer].at = "new"
          /\ th'[Does(m).peer].kind = "background"
    BY <1>1, <1>2, <1>9, <1>5, <1>8 DEF OnlyThese, Threads
  <2> QED
    BY <1>2, <1>9, <1>5, <1>8, <1>10, <2>1, <2>2, <2>3, <2>4 DEF OnlyThese, TurnReplySteps
<1>12. active' = active \/ (active' = w /\ ~Occupied) BY <1>4 DEF ScheduleResume
<1>13. resume' = w BY <1>4 DEF ScheduleResume
<1>14. m # None => Alive(m)
  BY HostAssumption, <1>9
     DEF Alive, Does, OnlyThese, Threads, Actors, MainSteps, TurnSteps, CommandSteps
<1>15. active' \in Callers => active' = active
  BY <1>5, <1>12, HostAssumption
<1>16. Does(m).kind \in TurnKinds /\ Does(m).at \in TurnSteps => active' = active
  BY <1>12, <1>14, HostAssumption, IdleFields DEF Occupied, Undisturbed, Registered, Does, TurnSteps
<1>17. Does(m).at # "launch"
  BY <1>1, <1>2, IdleFields DEF Undisturbed, Answering, Purposes, ByTurn, Does, TurnReplySteps
<1> QED
  <2>1. Purposes(m, r)'
    BY <1>1, <1>2, <1>5, <1>6, <1>8, <1>10, <1>11, <1>13, <1>15, <1>16, <1>17, HostAssumption
       DEF ScheduleResume, Decide, TurnSteps, CommandSteps, TurnKinds, TurnReplySteps, Undisturbed,
           Purposes
  <2>2. Leased(m)' /\ Registered(m, r)'
    BY <1>1, <1>2, <1>5, <1>6, <1>8, <1>10, <1>11, <1>13, <1>15, <1>16, <1>17, HostAssumption
       DEF ScheduleResume, Decide, TurnSteps, CommandSteps, TurnKinds, TurnReplySteps, Undisturbed,
           Purposes, Leased, Registered
  <2>3. Asking(m, r)' /\ Answering(m, r)' /\ Signalling(m, r)'
    BY <1>1, <1>2, <1>5, <1>6, <1>8, <1>10, <1>11, <1>13, <1>15, <1>16, <1>17, HostAssumption
       DEF ScheduleResume, Decide, TurnSteps, CommandSteps, TurnKinds, TurnReplySteps, Undisturbed,
           Purposes, Asking, Answering, Signalling, ByTurn, Open
  <2>4. CommandData(m, r)' /\ Projected(m)' /\ Shown(m, r)'
    BY <1>1, <1>2, <1>5, <1>6, <1>8, <1>10, <1>11, <1>13, <1>15, <1>16, <1>17, HostAssumption
       DEF ScheduleResume, Decide, TurnSteps, CommandSteps, TurnKinds, TurnReplySteps, Undisturbed,
           Purposes, CommandData, Projected, Shown, ByTurn, Open
  <2>5. Unfailed(m, r)'
    BY <1>1, <1>2, <1>5, <1>6, <1>8, <1>10, <1>11, <1>13, <1>15, <1>16, <1>17, HostAssumption
       DEF ScheduleResume, Decide, TurnSteps, CommandSteps, TurnKinds, TurnReplySteps, Undisturbed,
           Purposes, Shown, Unfailed, Busy, ByTurn, AnswersOwnQuestion
  <2> QED BY <1>11, <2>1, <2>2, <2>3, <2>4, <2>5 DEF Undisturbed

(* It starts, or it does not and the question is offered again.             *)
LEMMA StartUndisturbed ==
  ASSUME TypeInv, NEW m \in Actors, NEW r \in Actors, Undisturbed(m, r), NEW c \in Callers,
         StartResume(c) \/ StartFails(c), ~disturbed'
  PROVE  InOrder'
<1> USE DEF ticketVars, coreVars, workVars, countVars, historyVars
<1>1. c \in Threads /\ th[c] \in Thread /\ th \in [Threads -> Thread] /\ th[c].at = "start"
  BY Asked, HostAssumption DEF Threads, StartResume, StartFails, At
<1>9. OnlyThese(m, r) BY DEF Undisturbed
<1>2. c = r /\ r # None /\ m # r /\ Does(r) = th[r] BY <1>1, ReplyActs DEF TurnReplySteps
<1>3. PICK w \in Workers : /\ w = th[c].peer /\ th[w].at = "new" /\ th[w].kind = "reply"
                           /\ th[w].names = th[r].names
  BY <1>1, <1>2, <1>9 DEF OnlyThese
<1>4. w \in Threads /\ w # r /\ w # None BY <1>1, <1>2, <1>3, HostAssumption DEF Threads
<1>5. w # m
  BY <1>3, <1>4, <1>9 DEF OnlyThese, Does, MainSteps, TurnSteps, CommandSteps
<1>6. th[w].out = "none" BY <1>4, <1>5, <1>9 DEF OnlyThese
<1>7. CASE StartResume(c)
  <2>1. /\ \A u \in Threads \ {r, w} : th'[u] = th[u]
        /\ th'[r] = Idle
        /\ th'[w].at = "await" /\ th'[w].kind = "reply" /\ th'[w].out = "none"
        /\ th'[w].names = th[r].names
    BY <1>1, <1>2, <1>3, <1>4, <1>6, <1>7 DEF StartResume, Thread
  <2>2. Does(m)' = Does(m) /\ Does(w)' = th'[w] BY <1>2, <1>4, <1>5, <2>1 DEF Does, Actors
  <2>3. OnlyThese(m, w)'
    <3>1. \A t \in Threads \ {m, w} : th'[t].at \in {"idle", "claim", "new"} /\ th'[t].out = "none"
      BY <1>9, <2>1, IdleFields DEF OnlyThese
    <3>2. \A t \in Threads : th'[t].at = "claim" =>
            t \in Callers /\ th'[t].kind = "reply" /\ th'[t].names # 0
      BY <1>9, <2>1, IdleFields DEF OnlyThese
    <3>3. \A t \in Threads : th'[t].at = "new" =>
            t \in Workers /\ Does(m).at = "launch" /\ Does(m).peer = t
      BY <1>2, <1>3, <1>9, <2>1, IdleFields DEF OnlyThese
    <3>4. Does(m).at = "launch" =>
            /\ Does(m).peer \in Workers /\ th'[Does(m).peer].at = "new"
            /\ th'[Does(m).peer].kind = "background"
      BY <1>1, <1>2, <1>3, <1>4, <1>9, <2>1, IdleFields DEF OnlyThese, Threads
    <3> QED
      BY <1>5, <1>9, <2>1, <2>2, <3>1, <3>2, <3>3, <3>4 DEF OnlyThese, TurnReplySteps
  <2>4. Undisturbed(m, w)'
    BY <1>1, <1>2, <1>3, <1>4, <1>5, <1>7, <2>1, <2>2, <2>3, HostAssumption
      DEF StartResume, TurnSteps, CommandSteps, TurnKinds, TurnReplySteps,
          Undisturbed, Purposes, Leased, Registered, Asking, Answering, Signalling,
          CommandData, Projected, Shown, Unfailed, Busy, ByTurn, Open, AnswersOwnQuestion
  <2> QED BY <1>4, <2>4 DEF InOrder, Actors
<1>8. CASE StartFails(c)
  <2>1. /\ \A u \in Threads \ {r, w} : th'[u] = th[u]
        /\ th'[r] = Idle /\ th'[w] = Idle
    BY <1>1, <1>2, <1>3, <1>4, <1>8 DEF StartFails
  <2>2. Does(m)' = Does(m) /\ Does(None)' = Idle BY <1>2, <1>4, <1>5, <2>1 DEF Does, Actors
  <2>3. OnlyThese(m, None)'
    <3>1. \A t \in Threads \ {m, None} :
            th'[t].at \in {"idle", "claim", "new"} /\ th'[t].out = "none"
      BY <1>9, <2>1, IdleFields DEF OnlyThese
    <3>2. \A t \in Threads : th'[t].at = "claim" =>
            t \in Callers /\ th'[t].kind = "reply" /\ th'[t].names # 0
      BY <1>9, <2>1, IdleFields DEF OnlyThese
    <3>3. \A t \in Threads : th'[t].at = "new" =>
            t \in Workers /\ Does(m).at = "launch" /\ Does(m).peer = t
      BY <1>2, <1>3, <1>9, <2>1, IdleFields DEF OnlyThese
    <3>4. Does(m).at = "launch" =>
            /\ Does(m).peer \in Workers /\ th'[Does(m).peer].at = "new"
            /\ th'[Does(m).peer].kind = "background"
      BY <1>1, <1>2, <1>3, <1>4, <1>9, <2>1, IdleFields DEF OnlyThese, Threads
    <3> QED
      BY <1>9, <2>1, <2>2, <3>1, <3>2, <3>3, <3>4, IdleFields DEF OnlyThese
  <2>4. resume = w BY <1>1, <1>2, <1>3 DEF Undisturbed, Answering, ByTurn, TurnReplySteps
  <2>5. OfferAgain(w, th[r].names) BY <1>2, <1>3, <1>8, <2>4 DEF StartFails
  <2>6. Recorded(th[r].names) BY <1>2, <1>8 DEF StartFails
  <2>7. th[r].names = pending \/ (m # None /\ Does(m).at = "ask" /\ Does(m).seen = th[r].names)
    <3>1. ASSUME NEW t \in Threads, At(t, "ask") PROVE t = m /\ m # None /\ Does(m) = th[m]
      BY <3>1, MainActs DEF At, MainSteps, TurnSteps
    <3> QED BY <2>6, <3>1 DEF Recorded, At
  <2>8. faults' # 0 BY <1>8 DEF StartFails, TypeInv, TypeOK
  <2>9. Undisturbed(m, None)'
    BY <1>1, <1>2, <1>3, <1>4, <1>5, <1>8, <2>2, <2>3, <2>5, <2>7, <2>8, IdleFields, HostAssumption
      DEF StartFails, OfferAgain, Threads, TurnSteps, CommandSteps, TurnKinds, TurnReplySteps,
          Undisturbed, Purposes, Leased, Registered, Asking, Answering, Signalling,
          CommandData, Projected, Shown, Unfailed, Busy, ByTurn, Open, AnswersOwnQuestion
  <2> QED BY <2>9 DEF InOrder, Actors
<1> QED BY <1>7, <1>8

(* It waits for the turn that asked to be over, and becomes the operation.  *)
LEMMA WorkerUndisturbed ==
  ASSUME TypeInv, NEW m \in Actors, NEW r \in Actors, Undisturbed(m, r), NEW w \in Workers,
         Released(w) \/ OwnTurn(w), ~disturbed'
  PROVE  InOrder'
<1> USE DEF ticketVars, coreVars, workVars, countVars, historyVars
<1>1. /\ w \in Threads /\ th[w] \in Thread /\ th \in [Threads -> Thread]
      /\ th[w].at \in {"await", "own"}
  BY Asked, HostAssumption DEF Threads, Released, OwnTurn, At
<1>9. OnlyThese(m, r) BY DEF Undisturbed
<1>2. w = r /\ r # None /\ m # r /\ Does(r) = th[r] BY <1>1, ReplyActs DEF TurnReplySteps
<1>3. CASE Released(w)
  <2>1. GoesOn(w, "own", th[w].pid, th[w].seen, th[w].out)
    BY <1>1, <1>3, GotoGoesOn DEF Released, Steps
  <2>2. \A u \in Threads \ {r} : th'[u] = th[u] BY <1>2, <2>1 DEF GoesOn, Changes
  <2>3. Does(m)' = Does(m) /\ Does(r)' = th'[r] BY <1>2, <2>2 DEF Does, Actors
  <2>4. m = None
    <3>1. m # None => /\ Does(m).kind \in TurnKinds
                      /\ Does(m).at \in {"ask", "snapshot", "release", "apply", "settle", "fail"}
      BY <1>1, <1>2 DEF Undisturbed, Answering, Purposes, ByTurn, TurnReplySteps
    <3>2. m # None => active = m /\ Alive(m)
      BY <3>1, HostAssumption DEF Undisturbed, Registered, TurnSteps, Does, Alive
    <3> QED BY <1>2, <1>3, <3>2 DEF Released, ActiveElsewhere, Occupied
  <2>5. OnlyThese(m, r)'
    BY <1>1, <1>2, <1>9, <2>1, <2>2, <2>3, <2>4, IdleFields
       DEF OnlyThese, TurnReplySteps, GoesOn, Does
  <2>6. Undisturbed(m, r)'
    BY <1>1, <1>2, <1>3, <2>1, <2>3, <2>4, <2>5, IdleFields, HostAssumption
      DEF Released, At, GoesOn, Does, TurnSteps, CommandSteps, TurnKinds, TurnReplySteps,
          Undisturbed, Purposes, Leased, Registered, Asking, Answering, Signalling,
          CommandData, Projected, Shown, Unfailed, Busy, ByTurn, Open, AnswersOwnQuestion
  <2> QED BY <2>6 DEF InOrder
<1>4. CASE OwnTurn(w)
  <2>1. m = None /\ Does(m) = Idle /\ th[w].at = "own"
    BY <1>2, <1>4 DEF OwnTurn, At, Undisturbed, Answering, ByTurn, Does, TurnReplySteps
  <2>2. ~ActiveElsewhere(w)
    BY <1>2, <2>1, OccupiedBy, IdleFields DEF ActiveElsewhere, TurnSteps
  <2>3. CASE claim = th[w].names
    <3>1. Goto(w, "enter") /\ active' = w /\ status' = "running" /\ resume' = resume
      BY <1>4, <2>2, <2>3 DEF OwnTurn
    <3>2. GoesOn(w, "enter", th[w].pid, th[w].seen, th[w].out) BY <1>1, <3>1, GotoGoesOn DEF Steps
    <3>3. \A u \in Threads \ {w} : th'[u] = th[u] BY <3>2 DEF GoesOn, Changes
    <3>4. Does(w)' = th'[w] /\ Does(None)' = Idle BY <1>2 DEF Does
    <3>5. OnlyThese(w, None)'
      BY <1>1, <1>2, <1>9, <2>1, <3>2, <3>3, <3>4, IdleFields
         DEF OnlyThese, TurnSteps, MainSteps, GoesOn
    <3>6. Undisturbed(w, None)'
      BY <1>1, <1>2, <1>4, <2>1, <2>3, <3>1, <3>2, <3>4, <3>5, IdleFields, HostAssumption
        DEF OwnTurn, GoesOn, TurnSteps, CommandSteps, TurnKinds, TurnReplySteps,
            Undisturbed, Purposes, Leased, Registered, Asking, Answering, Signalling,
            CommandData, Projected, Shown, Unfailed, Busy, ByTurn, Open, AnswersOwnQuestion
    <3> QED BY <1>1, <3>6 DEF InOrder, Actors
  <2>4. CASE claim # th[w].names
    <3>1. WorkerEnds(w) /\ UNCHANGED <<active, status>> BY <1>4, <2>4 DEF OwnTurn
    <3>2. Ends(w) BY <1>1, <3>1, IdleEnds DEF WorkerEnds
    <3>3. th'[w] = Idle /\ \A u \in Threads \ {w} : th'[u] = th[u] BY <3>2 DEF Ends, Changes
    <3>4. Does(None)' = Idle BY DEF Does
    <3>5. OnlyThese(None, None)'
      BY <1>1, <1>2, <1>9, <2>1, <3>3, <3>4, IdleFields DEF OnlyThese
    <3>6. Undisturbed(None, None)'
      BY <1>1, <1>2, <1>4, <2>1, <2>4, <3>1, <3>4, <3>5, IdleFields, HostAssumption
        DEF OwnTurn, Threads, TurnSteps, CommandSteps, TurnKinds, TurnReplySteps,
            Undisturbed, Purposes, Leased, Registered, Asking, Answering, Signalling,
            CommandData, Projected, Shown, Unfailed, Busy, ByTurn, Open, AnswersOwnQuestion
    <3> QED BY <3>6 DEF InOrder, Actors
  <2> QED BY <2>3, <2>4
<1> QED BY <1>3, <1>4

(* The transaction of a turn raises.                                        *)
LEMMA RaiseUndisturbed ==
  ASSUME TypeInv, NEW m \in Actors, NEW r \in Actors, Undisturbed(m, r), NEW t \in Threads,
         CoreRaises(t), ~disturbed'
  PROVE  Undisturbed(m, r)'
<1> USE DEF ticketVars, coreVars, workVars, countVars, historyVars
<1>1. th[t] \in Thread /\ th \in [Threads -> Thread] /\ th[t].at \in {"resolve", "work", "ask"}
  BY Asked DEF CoreRaises
<1>2. t = m /\ m # r /\ m # None /\ Does(m) = th[m]
  BY <1>1, MainActs DEF MainSteps, TurnSteps
<1>3. GoesOn(t, "fail", th[t].pid, th[t].seen, th[t].out) BY <1>1, GotoGoesOn DEF CoreRaises, Steps
<1>4. Does(m)' = th'[m] /\ Does(r)' = Does(r) /\ OnlyThese(m, r)'
  BY <1>1, <1>2, <1>3, MainAlone DEF GoesOn, MainSteps, TurnSteps
<1>5. faults' # 0 BY DEF CoreRaises, TypeInv, TypeOK
<1> QED
  BY <1>1, <1>2, <1>3, <1>4, <1>5
    DEF CoreRaises, GoesOn, TurnSteps, CommandSteps, TurnKinds, TurnReplySteps,
        Undisturbed, Purposes, Leased, Registered, Asking, Answering, Signalling,
        CommandData, Projected, Shown, Unfailed, Busy, ByTurn, Open, AnswersOwnQuestion

(* A command shows its question and waits.                                  *)
LEMMA WaitUndisturbed ==
  ASSUME TypeInv, NEW m \in Actors, NEW r \in Actors, Undisturbed(m, r), NEW c \in Callers,
         CommandWaits(c), ~disturbed'
  PROVE  Undisturbed(m, r)'
<1> USE DEF ticketVars, coreVars, workVars, countVars, historyVars
<1>1. /\ c \in Threads /\ th[c] \in Thread /\ th \in [Threads -> Thread]
      /\ th[c].at = "cmdshow" /\ event \in Nat
  BY Asked DEF CommandWaits, At, TypeInv, TypeOK, Threads
<1>2. c = m /\ m # r /\ m # None /\ Does(m) = th[m]
  BY <1>1, MainActs DEF MainSteps, CommandSteps
<1>3. /\ Changes({c}) /\ th'[c].at = "cmdwaiting" /\ th'[c].names = event
      /\ th'[c].kind = th[c].kind /\ th'[c].seen = th[c].seen /\ th'[c].out = th[c].out
  <2>1. th' = [th EXCEPT ![c].at = "cmdwaiting", ![c].names = event] BY DEF CommandWaits
  <2> QED BY <1>1, <2>1, ZenonT(40) DEF Changes, Thread, Steps
<1>4. Does(m)' = th'[m] /\ Does(r)' = Does(r) /\ OnlyThese(m, r)'
  BY <1>1, <1>2, <1>3, MainAlone DEF MainSteps, CommandSteps
<1> QED
  BY <1>1, <1>2, <1>3, <1>4
    DEF CommandWaits, TurnSteps, CommandSteps, TurnKinds, TurnReplySteps,
        Undisturbed, Purposes, Leased, Registered, Asking, Answering, Signalling,
        CommandData, Projected, Shown, Unfailed, Busy, ByTurn, Open, AnswersOwnQuestion

(* Only a restart makes a fresh start of a session that is not orderly.     *)
LEMMA OrderlyBefore ==
  ASSUME [Next]_vars, ~Restart, ~Orderly
  PROVE  ~Orderly'
<1> USE DEF historyVars, Orderly
<1>1. ASSUME NEW c \in Callers, Call(c) PROVE ~Orderly'
  BY <1>1 DEF Call, Submit, Respond, CancelTurn, CancelCommand, CancelQuestion, SetMode, Begins
<1>2. ASSUME NEW c \in Callers, CallStep(c) PROVE ~Orderly'
  BY <1>2 DEF CallStep, MarkRunning, RunHere, RegisterTurn, LaunchTurn, Claim, ClaimRefused,
              SignalCommand, ScheduleResume, StartResume, ClearStop, BeginsAnswer
<1>3. ASSUME NEW c \in Callers, CommandStep(c) PROVE ~Orderly'
  BY <1>3 DEF CommandStep, CommandRecords, CommandStarts, EnterCommand, CommandRaises, CommandAsks,
              CreateEvent, CommandSuspends, CommandWaits, CommandWakes, CommandAnswers,
              CommandEnds, CommandReturns
<1>4. ASSUME NEW w \in Workers, WorkerStep(w) \/ GiveUp(w) PROVE ~Orderly'
  BY <1>4 DEF WorkerStep, Released, OwnTurn, GiveUp
<1>5. ASSUME NEW t \in Threads, TurnStep(t) PROVE ~Orderly'
  BY <1>5 DEF TurnStep, Enter, Clear, EnterCore, Resolve, Ask, Suspend, EndTurn, Snapshot,
              ReleaseSnapshot, ApplyProjection, Settle, Fail
<1>6. CASE Fault
  BY <1>6 DEF Fault, LaunchFails, StartFails, CommandFails, CommandRaises, CoreRaises
<1>7. CASE UNCHANGED vars BY <1>7 DEF vars
<1> QED BY <1>1, <1>2, <1>3, <1>4, <1>5, <1>6, <1>7 DEF Next

(* A session where nothing runs and what is durable is shown.               *)
LEMMA NothingInOrder ==
  ASSUME th \in [Threads -> Thread], \A t \in Threads : th[t] = Idle,
         lease = None, active = None, event = 0, claim = 0, projection = pending, ticket = pending,
         status = (IF pending # 0 THEN "waiting" ELSE "idle"),
         answers = {}
  PROVE  InOrder
<1>1. Does(None) = Idle BY DEF Does
<1>2. OnlyThese(None, None) BY <1>1, IdleFields DEF OnlyThese
<1>3. Undisturbed(None, None)
  BY <1>1, <1>2, IdleFields, HostAssumption
    DEF Threads, TurnSteps, CommandSteps, TurnKinds, TurnReplySteps,
        Undisturbed, Purposes, Leased, Registered, Asking, Answering, Signalling,
        CommandData, Projected, Shown, Unfailed, Busy, ByTurn, Open, AnswersOwnQuestion
<1> QED BY <1>3 DEF InOrder, Actors

(* The inductive invariant of the three properties of orderly sessions.     *)
InOrderInv == Orderly => InOrder

LEMMA OrderStarts == Init => InOrderInv
<1> SUFFICES ASSUME Init PROVE InOrder BY DEF InOrderInv
<1>1. th \in [Threads -> Thread] /\ \A t \in Threads : th[t] = Idle BY IdleThread DEF Init
<1> QED BY <1>1, NothingInOrder DEF Init

LEMMA OrderStays == TypeInv /\ InOrderInv /\ [Next]_vars => InOrderInv'
<1> SUFFICES ASSUME TypeInv, InOrderInv, [Next]_vars, Orderly' PROVE InOrder'
  BY DEF InOrderInv
<1>0. ~disturbed' /\ dropped' = {} BY DEF Orderly
<1>1. CASE Restart
  <2>1. th' \in [Threads -> Thread] /\ \A t \in Threads : th'[t] = Idle
    BY <1>1, IdleThread DEF Restart
  <2>2. /\ lease' = None /\ active' = None /\ event' = 0 /\ claim' = 0
        /\ projection' = pending' /\ ticket' = pending' /\ answers' = {}
        /\ status' = (IF pending' # 0 THEN "waiting" ELSE "idle")
    BY <1>1 DEF Restart
  <2>3. Does(None)' = Idle BY DEF Does
  <2>4. OnlyThese(None, None)' BY <2>1, <2>3, IdleFields DEF OnlyThese
  <2>5. Undisturbed(None, None)'
    BY <2>2, <2>3, <2>4, IdleFields, HostAssumption
      DEF Threads, TurnSteps, CommandSteps, TurnKinds, TurnReplySteps,
          Undisturbed, Purposes, Leased, Registered, Asking, Answering, Signalling,
          CommandData, Projected, Shown, Unfailed, Busy, ByTurn, Open, AnswersOwnQuestion
  <2> QED BY <2>5 DEF InOrder, Actors
<1>2. CASE ~Restart
  <2>1. Orderly BY <1>2, OrderlyBefore
  <2>2. PICK m \in Actors, r \in Actors : Undisturbed(m, r) BY <2>1 DEF InOrderInv, InOrder
  <2>3. ASSUME NEW c \in Callers, Call(c) PROVE InOrder'
    <3>1. CASE \/ \E kind \in {"wait", "background", "command"} : Submit(c, kind)
               \/ CancelQuestion(c) \/ SetMode(c)
      BY <1>0, <2>2, <3>1, BeginUndisturbed
    <3>2. CASE Respond(c) \/ CancelTurn(c) \/ CancelCommand(c)
      BY <1>0, <2>2, <3>2, CallUndisturbed DEF InOrder
    <3> QED BY <2>3, <3>1, <3>2 DEF Call
  <2>4. ASSUME NEW c \in Callers, CallStep(c) PROVE InOrder'
    <3>1. CASE MarkRunning(c) \/ RunHere(c) \/ ClearStop(c)
      BY <1>0, <2>2, <3>1, SubmitUndisturbed DEF InOrder
    <3>2. CASE RegisterTurn(c) \/ LaunchTurn(c) BY <1>0, <2>2, <3>2, LaunchUndisturbed
    <3>3. CASE Claim(c) BY <1>0, <2>2, <3>3, ClaimUndisturbed
    <3>4. CASE ClaimRefused(c) BY <1>0, <2>2, <3>4, CallUndisturbed DEF InOrder
    <3>5. CASE SignalCommand(c) BY <1>0, <2>2, <3>5, SignalUndisturbed
    <3>6. CASE ScheduleResume(c) BY <1>0, <2>2, <3>6, ScheduleUndisturbed DEF InOrder
    <3>7. CASE StartResume(c) BY <1>0, <2>2, <3>7, StartUndisturbed
    <3> QED BY <2>4, <3>1, <3>2, <3>3, <3>4, <3>5, <3>6, <3>7 DEF CallStep
  <2>5. ASSUME NEW c \in Callers, CommandStep(c) PROVE InOrder'
    BY <1>0, <2>2, <2>5, CommandUndisturbed, WaitUndisturbed DEF InOrder, CommandStep
  <2>6. ASSUME NEW w \in Workers, WorkerStep(w) \/ GiveUp(w) PROVE InOrder'
    <3>1. WorkerStep(w) BY <1>0, <2>6 DEF GiveUp
    <3> QED BY <1>0, <2>2, <3>1, WorkerUndisturbed DEF WorkerStep
  <2>7. ASSUME NEW t \in Threads, TurnStep(t) PROVE InOrder'
    <3>1. CASE Snapshot(t) \/ ApplyProjection(t) \/ Settle(t) \/ Fail(t)
      BY <1>0, <2>2, <3>1, EndUndisturbed
    <3>2. CASE ~(Snapshot(t) \/ ApplyProjection(t) \/ Settle(t) \/ Fail(t))
      BY <1>0, <2>2, <2>7, <3>2, TurnUndisturbed DEF InOrder, TurnStep
    <3> QED BY <3>1, <3>2
  <2>8. CASE Fault
    <3>1. ASSUME NEW c \in Callers, StartFails(c) PROVE InOrder'
      BY <1>0, <2>2, <3>1, StartUndisturbed
    <3>2. ASSUME NEW t \in Threads, CoreRaises(t) PROVE InOrder'
      BY <1>0, <2>2, <3>2, RaiseUndisturbed DEF InOrder
    <3> QED BY <1>0, <1>2, <2>8, <3>1, <3>2 DEF Fault, LaunchFails, CommandFails, CommandRaises
  <2>9. CASE UNCHANGED vars
    <3>1. Undisturbed(m, r)'
      BY <2>2, <2>9 DEF vars, OnlyThese, Does, Awake,
          Undisturbed, Purposes, Leased, Registered, Asking, Answering, Signalling,
          CommandData, Projected, Shown, Unfailed, Busy, ByTurn, Open, AnswersOwnQuestion
    <3> QED BY <3>1 DEF InOrder
  <2> QED BY <2>3, <2>4, <2>5, <2>6, <2>7, <2>8, <2>9 DEF Next
<1> QED BY <1>1, <1>2

(* Where nothing moves, a command may wait for its answer, nothing else.    *)
LEMMA Quietness ==
  ASSUME NEW m \in Actors, NEW r \in Actors, Undisturbed(m, r), Quiet
  PROVE  /\ r = None /\ Does(r) = Idle
         /\ m = None \/ (m \in Callers /\ Does(m) = th[m] /\ th[m].at = "cmdwaiting" /\ ~Awake(m))
         /\ m = None => Does(m) = Idle
         /\ \A t \in Threads : th[t].at = "cmdwaiting" => t = m
<1>1. \A t \in Threads : /\ th[t].at \in {"idle", "cmdwaiting"}
                         /\ th[t].at = "cmdwaiting" => ~Awake(t)
  BY DEF Quiet, At
<1>2. OnlyThese(m, r) BY DEF Undisturbed
<1>3. r = None BY <1>1, <1>2 DEF OnlyThese, Does, Actors, TurnReplySteps
<1>4. m # None => m \in Threads /\ Does(m) = th[m] /\ th[m].at = "cmdwaiting" /\ ~Awake(m)
  BY <1>1, <1>2 DEF OnlyThese, Does, Actors, MainSteps, TurnSteps, CommandSteps
<1>5. m # None => m \in Callers
  BY <1>4 DEF Undisturbed, Purposes, TurnSteps, Threads
<1>6. ASSUME NEW t \in Threads, th[t].at = "cmdwaiting" PROVE t = m
  BY <1>6, MainActs DEF MainSteps, CommandSteps
<1> QED BY <1>3, <1>4, <1>5, <1>6 DEF Does

(* The three properties follow.                                             *)
LEMMA OrderAnswerable == InOrderInv => WaitingIsAnswerable
<1> SUFFICES ASSUME InOrderInv, Quiet, status = "waiting", Orderly
    PROVE  /\ ticket # 0 /\ ticket = pending /\ ticket = projection
           /\ claim = 0
           /\ event # 0 <=> \E c \in Callers : At(c, "cmdwaiting") /\ th[c].names = event
  BY DEF WaitingIsAnswerable
<1>1. PICK m \in Actors, r \in Actors : Undisturbed(m, r) BY DEF InOrderInv, InOrder
<1>2. /\ r = None /\ Does(r) = Idle
      /\ m = None \/ (m \in Callers /\ Does(m) = th[m] /\ th[m].at = "cmdwaiting" /\ ~Awake(m))
      /\ m = None => Does(m) = Idle
      /\ \A t \in Threads : th[t].at = "cmdwaiting" => t = m
  BY <1>1, Quietness
<1>3. pending # 0 /\ Open(pending) /\ claim = 0
  BY <1>1, <1>2, IdleFields
     DEF Undisturbed, Shown, Purposes, CommandData, ByTurn, TurnReplySteps, Awake, Open
<1>4. ticket = projection
  BY <1>1, <1>2, <1>3, IdleFields DEF Undisturbed, Projected, Open, Purposes
<1>5. event # 0 <=> \E c \in Callers : At(c, "cmdwaiting") /\ th[c].names = event
  <2>1. ASSUME event # 0
        PROVE  m \in Callers /\ At(m, "cmdwaiting") /\ th[m].names = event
    BY <1>1, <1>2, <2>1, IdleFields DEF Undisturbed, CommandData, At
  <2>2. ASSUME NEW c \in Callers, At(c, "cmdwaiting"), th[c].names = event
        PROVE  event # 0
    <3>1. c = m /\ Does(m) = th[m] /\ th[m].at = "cmdwaiting"
      BY <1>2, <2>2, HostAssumption DEF At, Threads
    <3> QED BY <1>1, <3>1 DEF Undisturbed, CommandData
  <2> QED BY <2>1, <2>2
<1> QED BY <1>3, <1>4, <1>5 DEF Open

LEMMA OrderEnds == InOrderInv => NothingRunsForEver
<1> SUFFICES ASSUME InOrderInv, Quiet, Orderly, faults = 0 PROVE status # "running"
  BY DEF NothingRunsForEver
<1>1. PICK m \in Actors, r \in Actors : Undisturbed(m, r) BY DEF InOrderInv, InOrder
<1>2. /\ r = None /\ Does(r) = Idle
      /\ m = None \/ (m \in Callers /\ Does(m) = th[m] /\ th[m].at = "cmdwaiting" /\ ~Awake(m))
      /\ m = None => Does(m) = Idle
  BY <1>1, Quietness
<1> QED
  BY <1>1, <1>2, IdleFields
     DEF Undisturbed, Unfailed, Busy, ByTurn, CommandData, Awake, TurnReplySteps, TurnSteps,
         CommandSteps

LEMMA OrderOwn == InOrderInv => AnswersOwnQuestionUndisturbed
BY DEF InOrderInv, InOrder, Undisturbed, Unfailed, AnswersOwnQuestionUndisturbed

(* However many threads, calls, questions and failures there are, a session *)
(* that shows "waiting" and where nothing moves can be answered, unless     *)
(* operations overlapped or an accepted reply was dropped.                  *)
THEOREM WaitingCanBeAnswered == Spec => []WaitingIsAnswerable
<1>1. Init => TypeInv /\ InOrderInv BY TypesStart, OrderStarts
<1>2. TypeInv /\ InOrderInv /\ [Next]_vars => (TypeInv /\ InOrderInv)' BY TypesStay, OrderStays
<1>3. TypeInv /\ InOrderInv => WaitingIsAnswerable BY OrderAnswerable
<1> QED BY <1>1, <1>2, <1>3, PTL DEF Spec

(* Nor does it show "running" when nothing moves, as long as nothing failed *)
(* either.                                                                  *)
THEOREM RunningEnds == Spec => []NothingRunsForEver
<1>1. Init => TypeInv /\ InOrderInv BY TypesStart, OrderStarts
<1>2. TypeInv /\ InOrderInv /\ [Next]_vars => (TypeInv /\ InOrderInv)' BY TypesStay, OrderStays
<1>3. TypeInv /\ InOrderInv => NothingRunsForEver BY OrderEnds
<1> QED BY <1>1, <1>2, <1>3, PTL DEF Spec

(* Every question is resolved with the reply that was given to it, the reply*)
(* that races the turn that asked included, as long as operations do not    *)
(* overlap, no reply is dropped and nothing failed.                         *)
THEOREM RepliesAnswerTheirQuestions == Spec => []AnswersOwnQuestionUndisturbed
<1>1. Init => TypeInv /\ InOrderInv BY TypesStart, OrderStarts
<1>2. TypeInv /\ InOrderInv /\ [Next]_vars => (TypeInv /\ InOrderInv)' BY TypesStay, OrderStays
<1>3. TypeInv /\ InOrderInv => AnswersOwnQuestionUndisturbed BY OrderOwn
<1> QED BY <1>1, <1>2, <1>3, PTL DEF Spec
=============================================================================

------------------------ MODULE HostShutdown_proofs ------------------------
(* Theorems about HostShutdown, for any number of threads, sessions,        *)
(* disposers, calls and failures.                                           *)
EXTENDS HostShutdown, TLAPS

(* The two constants that are chosen.                                       *)
LEMMA RestIsJob == Rest \in Jobs
<1>1. (CHOOSE s \in Opened : TRUE) \in Sessions BY ShutdownAssumption
<1> QED BY <1>1 DEF Rest, Jobs, Steps, Kinds

LEMMA FreshIsWorker ==
  ASSUME Fresh # {}
  PROVE  (CHOOSE w \in Fresh : TRUE) \in Workers
BY DEF Fresh

LEMMA GotoIsJob ==
  ASSUME th \in [Threads -> Jobs], NEW t \in Threads, NEW step \in Steps, Goto(t, step)
  PROVE  th' \in [Threads -> Jobs]
BY DEF Goto, Jobs

LEMMA HiresIsJob ==
  ASSUME th \in [Threads -> Jobs], NEW f \in Threads, NEW w \in Workers, Hires(f, w)
  PROVE  th' \in [Threads -> Jobs]
BY DEF Hires, Jobs, Steps, Threads

LEMMA BecomesIsShutdown ==
  ASSUME sd \in [Closers -> Shutdowns], NEW c \in Closers, NEW x \in CloseSteps, Becomes(c, x)
  PROVE  sd' \in [Closers -> Shutdowns]
BY DEF Becomes, Shutdowns

LEMMA EndsIsShutdown ==
  ASSUME sd \in [Closers -> Shutdowns], NEW c \in Closers,
         NEW r \in {"none", "returned", "raised"}, Ends(c, r)
  PROVE  sd' \in [Closers -> Shutdowns]
<1>1. [Resting EXCEPT !.result = r] \in Shutdowns BY DEF Resting, Shutdowns, CloseSteps
<1> QED BY <1>1 DEF Ends
-----------------------------------------------------------------------------
(* Type correctness, in three parts: what the front ends share, what the    *)
(* scope keeps, what the calls of shutdown keep.                            *)
ThreadType ==
  /\ registered \subseteq Sessions
  /\ stop \in [Sessions -> BOOLEAN] /\ ticket \in [Sessions -> BOOLEAN]
  /\ active \in [Sessions -> Threads \cup {None}]
  /\ resume \in [Sessions -> Workers \cup {None}]
  /\ th \in [Threads -> Jobs]

LEMMA InitTypes == Init => TypeOK
<1> SUFFICES ASSUME Init PROVE TypeOK OBVIOUS
<1>1. Resting \in Shutdowns BY DEF Resting, Shutdowns, CloseSteps
<1>2. th \in [Threads -> Jobs] BY RestIsJob DEF Init
<1>3. registered \subseteq Sessions BY ShutdownAssumption DEF Init
<1>4. released \in Seq(1..NumDisposers) BY DEF Init
<1>5. {closing, closed, barrier, quiet, failed, broken} \subseteq BOOLEAN BY DEF Init
<1>6. sd \in [Closers -> Shutdowns] BY <1>1 DEF Init
<1>7. /\ stop \in [Sessions -> BOOLEAN] /\ ticket \in [Sessions -> BOOLEAN]
      /\ active \in [Sessions -> Threads \cup {None}]
      /\ resume \in [Sessions -> Workers \cup {None}]
      BY DEF Init
<1>8. /\ error \in {"none", "timeout", "dispose"}
      /\ admission \in {"active", "quiescing", "disposed"}
      /\ inside \subseteq Threads /\ overtaken \subseteq Closers
      /\ {calls, closes, faults} \subseteq Nat
      BY DEF Init
<1> QED BY <1>2, <1>3, <1>4, <1>5, <1>6, <1>7, <1>8 DEF TypeOK

LEMMA FrontEndTypes ==
  ASSUME ThreadType, NEW f \in Callers, FrontEnd(f)
  PROVE  ThreadType'
<1> USE DEF ThreadType, sessionVars
<1>0. f \in Threads /\ th[f] \in Jobs /\ th[f].s \in Sessions /\ th[f].peer \in Threads \cup {None}
      BY DEF Threads, Jobs
<1>r. ASSUME th' = [th EXCEPT ![f] = Rest] PROVE th' \in [Threads -> Jobs]
      BY <1>r, RestIsJob
<1>1. ASSUME NEW s \in Sessions, NEW kind \in Kinds \ {"open"}, Look(f, s, kind) PROVE ThreadType'
      BY <1>0, <1>1 DEF Look, Jobs, Steps
<1>2. ASSUME NEW s \in Sessions, LookToOpen(f, s) PROVE ThreadType'
      BY <1>0, <1>2 DEF LookToOpen, Jobs, Steps, Kinds
<1>3. CASE Find(f)
  <2>1. th' \in [Threads -> Jobs]
    <3>1. CASE th' = [th EXCEPT ![f] = Rest] BY <3>1, <1>r
    <3>2. CASE th[f].s \in registered
      <4>1. \E step \in {"check", "claim", "cancel"} : Goto(f, step) BY <1>3, <3>2 DEF Find
      <4> QED BY <1>0, <4>1, GotoIsJob DEF Steps
    <3> QED BY <1>3, <3>1, <3>2 DEF Find
  <2> QED BY <1>3, <2>1 DEF Find
<1>4. CASE Add(f) BY <1>0, <1>4, <1>r DEF Add
<1>5. CASE Check(f) BY <1>0, <1>5, <1>r, GotoIsJob DEF Check, Steps
<1>6. CASE RegisterHere(f) BY <1>0, <1>6, GotoIsJob DEF RegisterHere, Steps
<1>7. CASE RegisterTurn(f) BY <1>0, <1>7, FreshIsWorker, HiresIsJob DEF RegisterTurn, Threads
<1>8. CASE Claim(f) BY <1>0, <1>8, <1>r, GotoIsJob DEF Claim, Steps
<1>9. CASE ScheduleResume(f)
      BY <1>0, <1>9, FreshIsWorker, HiresIsJob DEF ScheduleResume, Threads
<1>10. CASE Launch(f) BY <1>0, <1>10, RestIsJob, ZenonT(40) DEF Launch, Jobs, Steps
<1>11. CASE Cancel(f) BY <1>0, <1>11, <1>r, GotoIsJob DEF Cancel, Steps
<1>12. CASE Unstop(f) BY <1>0, <1>12, GotoIsJob DEF Unstop, Steps
<1> QED BY <1>1, <1>2, <1>3, <1>4, <1>5, <1>6, <1>7, <1>8, <1>9, <1>10, <1>11, <1>12 DEF FrontEnd

LEMMA TurnTypes ==
  ASSUME ThreadType, NEW t \in Threads, Turn(t)
  PROVE  ThreadType'
<1> USE DEF ThreadType, sessionVars
<1>0. th[t] \in Jobs /\ th[t].s \in Sessions BY DEF Jobs
<1>1. CASE Await(t)   BY <1>0, <1>1, GotoIsJob DEF Await, Steps
<1>2. CASE Own(t)     BY <1>0, <1>2, GotoIsJob DEF Own, Steps
<1>3. CASE Enter(t)   BY <1>0, <1>3, GotoIsJob DEF Enter, Steps
<1>4. CASE Refused(t) BY <1>0, <1>4, GotoIsJob DEF Refused, Steps
<1>5. CASE Ask(t)     BY <1>0, <1>5, GotoIsJob DEF Ask, Steps
<1>6. CASE Finish(t)  BY <1>0, <1>6, GotoIsJob DEF Finish, Steps
<1>7. CASE Release(t) BY <1>0, <1>7, GotoIsJob DEF Release, Steps
<1>8. CASE Leave(t)   BY <1>0, <1>8, GotoIsJob DEF Leave, Steps
<1>9. CASE End(t)     BY <1>0, <1>9, RestIsJob DEF End
<1> QED BY <1>1, <1>2, <1>3, <1>4, <1>5, <1>6, <1>7, <1>8, <1>9 DEF Turn
LEMMA CloserTypes ==
  ASSUME ThreadType, NEW c \in Closers, Calling(c) \/ Closing(c)
  PROVE  ThreadType'
<1> USE DEF ThreadType, sessionVars
<1>1. CASE Calling(c) BY <1>1 DEF Calling, FindsClosed, Joins, Owns, Shutdown
<1>2. CASE WaitsTooLong(c) BY <1>2 DEF WaitsTooLong
<1>3. CASE Passes(c)   BY <1>3 DEF Passes
<1>4. CASE Verdict(c)  BY <1>4 DEF Verdict
<1>5. CASE Quiesce(c)  BY <1>5 DEF Quiesce
<1>6. CASE Tell(c)     BY <1>6 DEF Tell
<1>7. CASE Capture(c)  BY <1>7 DEF Capture
<1>16. CASE LoopEnds(c) BY <1>16 DEF LoopEnds
<1>8. CASE Joined(c)   BY <1>8 DEF Joined
<1>9. CASE GivesUp(c)  BY <1>9 DEF GivesUp
<1>10. CASE FallsOut(c) BY <1>10 DEF FallsOut
<1>11. CASE Drained(c) BY <1>11 DEF Drained
<1>12. CASE Disposes(c) BY <1>12 DEF Disposes, Dispose
<1>13. CASE DisposerRaises(c) BY <1>13 DEF DisposerRaises, Dispose
<1>14. CASE Disposed(c) BY <1>14 DEF Disposed
<1>15. CASE Close(c)   BY <1>15 DEF Close
<1> QED BY <1>1, <1>2, <1>3, <1>4, <1>5, <1>6, <1>7, <1>8, <1>9, <1>10, <1>11, <1>12, <1>13,
           <1>14, <1>15, <1>16 DEF Closing

(* What the scope and the calls of shutdown keep.                           *)
HostType ==
  /\ {closing, closed, barrier, quiet, failed, broken} \subseteq BOOLEAN
  /\ error \in {"none", "timeout", "dispose"}
  /\ admission \in {"active", "quiescing", "disposed"}
  /\ inside \subseteq Threads
  /\ released \in Seq(1..NumDisposers)
  /\ sd \in [Closers -> Shutdowns]
  /\ overtaken \subseteq Closers
  /\ {calls, closes, faults} \subseteq Nat

LEMMA FrontEndKeeps ==
  ASSUME NEW f \in Callers, FrontEnd(f)
  PROVE  /\ UNCHANGED <<hostVars, scopeVars, closerVars, faults>>
         /\ calls \in Nat => calls' \in Nat
BY DEF FrontEnd, Look, LookToOpen, Call, Find, Add, Check, RegisterHere, RegisterTurn, Claim,
       ScheduleResume, Launch, Cancel, Unstop

LEMMA TurnKeeps ==
  ASSUME NEW t \in Threads, Turn(t)
  PROVE  /\ UNCHANGED <<hostVars, admission, released, failed, closerVars, calls, faults>>
         /\ \/ UNCHANGED <<inside, quiet>>
            \/ Admit(t)
            \/ Depart(t)
BY DEF Turn, Await, Own, Enter, Refused, Ask, Finish, Release, Leave, End, scopeVars

LEMMA CloserHostTypes ==
  ASSUME TypeOK, NEW c \in Closers, Calling(c) \/ Closing(c)
  PROVE  HostType'
<1> USE DEF HostType, hostVars, scopeVars, closerVars
<1>0. HostType /\ ThreadType /\ sd[c] \in Shutdowns BY DEF TypeOK, ThreadType
<1>1. CASE FindsClosed(c) BY <1>0, <1>1, EndsIsShutdown DEF FindsClosed, Shutdown
<1>2. CASE Joins(c)
  <2>1. [Resting EXCEPT !.at = "wait"] \in Shutdowns BY DEF Resting, Shutdowns, CloseSteps
  <2> QED BY <1>0, <1>2, <2>1 DEF Joins, Shutdown
<1>3. CASE Owns(c)
  <2>1. [Resting EXCEPT !.at = "quiesce", !.states = registered,
                 !.left = registered] \in Shutdowns
        BY <1>0 DEF Resting, Shutdowns, CloseSteps, ThreadType
  <2>2. sd' \in [Closers -> Shutdowns] BY <1>0, <1>3, <2>1 DEF Owns
  <2>3. overtaken' \subseteq Closers /\ closes' \in Nat BY <1>0, <1>3 DEF Owns, Shutdown
  <2> QED BY <1>0, <1>3, <2>2, <2>3 DEF Owns, Shutdown
<1>4. CASE WaitsTooLong(c) BY <1>0, <1>4, EndsIsShutdown DEF WaitsTooLong
<1>5. CASE Passes(c)   BY <1>0, <1>5, BecomesIsShutdown DEF Passes, CloseSteps
<1>6. CASE Verdict(c)  BY <1>0, <1>6, EndsIsShutdown DEF Verdict
<1>7. CASE Quiesce(c)  BY <1>0, <1>7, BecomesIsShutdown DEF Quiesce, CloseSteps
<1>8. CASE Tell(c)     BY <1>0, <1>8 DEF Tell, Shutdowns
<1>9. CASE Capture(c)
  <2>1. PICK s \in sd[c].left :
             sd' = [sd EXCEPT ![c].left = @ \ {s},
                              ![c].threads = @ \cup ({active[s], resume[s]} \ {None})]
        BY <1>9 DEF Capture
  <2>2. {active[s], resume[s]} \ {None} \subseteq Threads
        BY <1>0 DEF ThreadType, Threads, Shutdowns
  <2>3. sd' \in [Closers -> Shutdowns]
    <3> DEFINE new == {active[s], resume[s]} \ {None}
    <3> HIDE DEF new
    <3>1. sd' = [sd EXCEPT ![c].left = @ \ {s}, ![c].threads = @ \cup new] BY <2>1 DEF new
    <3>2. new \subseteq Threads BY <2>2 DEF new
    <3> QED BY <1>0, <3>1, <3>2 DEF Shutdowns
  <2> QED BY <1>0, <1>9, <2>3 DEF Capture
<1>19. CASE LoopEnds(c)
  <2>1. sd' \in [Closers -> Shutdowns]
    <3>1. CASE sd' = [sd EXCEPT ![c].at = "capture", ![c].left = sd[c].states]
          BY <1>0, <3>1 DEF Shutdowns, CloseSteps
    <3>2. CASE Becomes(c, "join") BY <1>0, <3>2, BecomesIsShutdown DEF CloseSteps
    <3> QED BY <1>19, <3>1, <3>2 DEF LoopEnds
  <2> QED BY <1>0, <1>19, <2>1 DEF LoopEnds
<1>10. CASE Joined(c)  BY <1>0, <1>10, BecomesIsShutdown DEF Joined, CloseSteps
<1>11. CASE GivesUp(c) BY <1>0, <1>11, EndsIsShutdown DEF GivesUp
<1>12. CASE FallsOut(c) BY <1>0, <1>12, EndsIsShutdown DEF FallsOut
<1>13. CASE Drained(c) BY <1>0, <1>13, BecomesIsShutdown DEF Drained, CloseSteps
<1>14. ASSUME NEW raises \in BOOLEAN, Dispose(c, raises), faults' \in Nat PROVE HostType'
  <2>1. released' \in Seq(1..NumDisposers)
        BY <1>0, <1>14, ShutdownAssumption DEF Dispose
  <2> QED BY <1>0, <1>14, <2>1 DEF Dispose
<1>15. CASE Disposes(c) BY <1>0, <1>14, <1>15 DEF Disposes
<1>16. CASE DisposerRaises(c)
  <2>1. faults \in Nat BY <1>0
  <2>2. faults' \in Nat BY <2>1, <1>16 DEF DisposerRaises
  <2>3. Dispose(c, TRUE) BY <1>16, Zenon DEF DisposerRaises
  <2> QED BY <1>14, <2>2, <2>3
<1>17. CASE Disposed(c) BY <1>0, <1>17, BecomesIsShutdown DEF Disposed, CloseSteps
<1>18. CASE Close(c)   BY <1>0, <1>18, EndsIsShutdown DEF Close
<1> QED BY <1>1, <1>2, <1>3, <1>4, <1>5, <1>6, <1>7, <1>8, <1>9, <1>10, <1>11, <1>12, <1>13,
           <1>15, <1>16, <1>17, <1>18, <1>19 DEF Calling, Closing

LEMMA StepTypes == TypeOK /\ [Next]_vars => TypeOK'
<1> SUFFICES ASSUME TypeOK, [Next]_vars PROVE TypeOK' OBVIOUS
<1>0. HostType /\ ThreadType BY DEF TypeOK, HostType, ThreadType
<1>1. ASSUME NEW f \in Callers, FrontEnd(f) PROVE HostType' /\ ThreadType'
      BY <1>0, <1>1, FrontEndTypes, FrontEndKeeps
         DEF HostType, hostVars, scopeVars, closerVars
<1>2. ASSUME NEW t \in Threads, Turn(t) PROVE HostType' /\ ThreadType'
  <2>1. inside' \subseteq Threads /\ quiet' \in BOOLEAN
        BY <1>0, <1>2, TurnKeeps DEF HostType, Admit, Depart
  <2> QED BY <1>0, <1>2, <2>1, TurnTypes, TurnKeeps DEF HostType, hostVars, closerVars
<1>3. ASSUME NEW c \in Closers, Calling(c) \/ Closing(c) PROVE HostType' /\ ThreadType'
      BY <1>0, <1>3, CloserTypes, CloserHostTypes
<1>4. CASE UNCHANGED vars
  <2>1. HostType'   BY <1>0, <1>4 DEF HostType, vars
  <2>2. ThreadType' BY <1>0, <1>4 DEF ThreadType, vars
  <2> QED BY <2>1, <2>2 DEF TypeOK, HostType, ThreadType
<1> QED BY <1>1, <1>2, <1>3, <1>4 DEF Next, TypeOK, HostType, ThreadType

(* The types of every state of the specification.                           *)
THEOREM TypeCorrect == Spec => []TypeOK
BY InitTypes, StepTypes, PTL DEF Spec
-----------------------------------------------------------------------------
(* The inductive invariant of the close.  There is one owner; it works with *)
(* admission closed, and beyond the drain with nobody inside; the event that*)
(* lets it through is set exactly when the scope is empty; and a waiter that*)
(* would read "no error" waits for the attempt in progress, or the host is  *)
(* closed, or another attempt began after the one it waited for.            *)
PastQuiesce(c) == sd[c].at \in {"tell", "capture", "join", "drain", "release", "close"}

ScopeInv ==
  /\ quiet = TRUE => inside = {}
  /\ \A c \in Closers : PastQuiesce(c) => admission # "active"
  /\ \A c \in Closers : sd[c].at \in {"release", "close"} => inside = {}
  /\ \A c \in Closers :
       sd[c].at = "close" => admission = "disposed" /\ Len(released) = NumDisposers
  /\ NothingInsideDisposed
  /\ ClosedIsDisposed

WaitInv ==
  /\ \A c \in Closers : sd[c].at # "idle" => sd[c].result = "none"
  /\ \A c \in Closers : (sd[c].at = "wait" /\ error = "none" /\ ~closed) => closing
  /\ \A c \in Closers :
       (sd[c].at = "verdict" /\ error = "none" /\ ~closed) => c \in overtaken

CloseInv == TypeOK /\ ScopeInv /\ WaitInv /\ BarrierKept

LEMMA InitClose == Init => CloseInv
<1> SUFFICES ASSUME Init PROVE CloseInv OBVIOUS
<1>1. \A c \in Closers : sd[c].at = "idle" /\ sd[c].result = "none" BY DEF Init, Resting
<1>2. ScopeInv
      BY <1>1 DEF Init, ScopeInv, PastQuiesce, NothingInsideDisposed, ClosedIsDisposed
<1>3. WaitInv BY <1>1 DEF Init, WaitInv
<1>4. BarrierKept
      BY <1>1 DEF Init, BarrierKept, OneOwner, BarrierDown, OwnerAtWork, OwnerHolds, ReturnIsClosed,
                  Owning
<1> QED BY <1>2, <1>3, <1>4, InitTypes DEF CloseInv

(* A call of shutdown after a step of another, and after its own.           *)
LEMMA Others ==
  ASSUME TypeOK, NEW c \in Closers, NEW x \in Shutdowns, sd' = [sd EXCEPT ![c] = x]
  PROVE  /\ sd'[c] = x
         /\ \A d \in Closers : d # c => sd'[d] = sd[d]
BY DEF TypeOK

LEMMA AfterBecoming ==
  ASSUME TypeOK, NEW c \in Closers, NEW x \in CloseSteps, Becomes(c, x)
  PROVE  /\ sd'[c].at = x /\ sd'[c].result = sd[c].result
         /\ \A d \in Closers : d # c => sd'[d] = sd[d]
BY DEF TypeOK, Becomes, Shutdowns

LEMMA AfterEnding ==
  ASSUME TypeOK, NEW c \in Closers, NEW r \in {"none", "returned", "raised"}, Ends(c, r)
  PROVE  /\ sd'[c].at = "idle" /\ sd'[c].result = r
         /\ \A d \in Closers : d # c => sd'[d] = sd[d]
BY DEF TypeOK, Ends, Resting

LEMMA AfterLooping ==
  ASSUME TypeOK, NEW c \in Closers, Tell(c) \/ Capture(c) \/ LoopEnds(c)
  PROVE  /\ sd[c].at \in {"tell", "capture"} /\ sd'[c].at \in {"tell", "capture", "join"}
         /\ sd'[c].result = sd[c].result
         /\ \A d \in Closers : d # c => sd'[d] = sd[d]
         /\ UNCHANGED <<hostVars, scopeVars, broken, overtaken>>
<1>1. CASE Tell(c) BY <1>1 DEF TypeOK, Tell, Shutdowns, hostVars, scopeVars
<1>2. CASE Capture(c) BY <1>2 DEF TypeOK, Capture, Shutdowns, hostVars, scopeVars
<1>3. CASE LoopEnds(c)
      BY <1>3, AfterBecoming DEF TypeOK, LoopEnds, Shutdowns, CloseSteps, hostVars, scopeVars
<1> QED BY <1>1, <1>2, <1>3

LEMMA ScopeKept ==
  ASSUME CloseInv, NEW c \in Closers, Calling(c) \/ Closing(c)
  PROVE  ScopeInv'
<1> USE DEF CloseInv, ScopeInv, PastQuiesce, NothingInsideDisposed, ClosedIsDisposed, BarrierKept, OneOwner, OwnerHolds, Owning, hostVars, scopeVars
<1>t. TypeOK OBVIOUS
<1>1. CASE FindsClosed(c) BY <1>t, <1>1, AfterEnding DEF FindsClosed, Shutdown
<1>2. CASE Joins(c) BY <1>t, <1>2, Others DEF Joins, Shutdown, Resting
<1>3. CASE Owns(c) BY <1>t, <1>3, Others DEF Owns, Shutdown, Resting
<1>4. CASE WaitsTooLong(c) BY <1>t, <1>4, AfterEnding DEF WaitsTooLong
<1>5. CASE Passes(c) BY <1>t, <1>5, AfterBecoming DEF Passes, CloseSteps
<1>6. CASE Verdict(c) BY <1>t, <1>6, AfterEnding DEF Verdict
<1>7. CASE Quiesce(c) BY <1>t, <1>7, AfterBecoming DEF Quiesce, CloseSteps
<1>8. CASE Tell(c) \/ Capture(c) \/ LoopEnds(c) BY <1>t, <1>8, AfterLooping
<1>10. CASE Joined(c) BY <1>t, <1>10, AfterBecoming DEF Joined, CloseSteps
<1>11. CASE GivesUp(c) BY <1>t, <1>11, AfterEnding DEF GivesUp
<1>12. CASE FallsOut(c) BY <1>t, <1>12, AfterEnding DEF FallsOut
<1>13. CASE Drained(c) BY <1>t, <1>13, AfterBecoming DEF Drained, CloseSteps
<1>14. CASE Disposes(c) BY <1>t, <1>14 DEF Disposes, Dispose, closerVars
<1>15. CASE DisposerRaises(c) BY <1>t, <1>15 DEF DisposerRaises, Dispose, closerVars
<1>16. CASE Disposed(c) BY <1>t, <1>16, AfterBecoming DEF Disposed, CloseSteps
<1>17. CASE Close(c) BY <1>t, <1>17, AfterEnding DEF Close
<1> QED BY <1>1, <1>2, <1>3, <1>4, <1>5, <1>6, <1>7, <1>8, <1>10, <1>11, <1>12, <1>13, <1>14, <1>15, <1>16, <1>17
        DEF Calling, Closing

LEMMA WaitKept ==
  ASSUME CloseInv, NEW c \in Closers, Calling(c) \/ Closing(c)
  PROVE  WaitInv'
<1> USE DEF CloseInv, WaitInv, BarrierKept, BarrierDown, OwnerHolds, Owning, hostVars
<1>t. TypeOK OBVIOUS
<1>1. CASE FindsClosed(c) BY <1>t, <1>1, AfterEnding DEF FindsClosed, Shutdown
<1>2. CASE Joins(c) BY <1>t, <1>2, Others DEF Joins, Shutdown, Resting
<1>3. CASE Owns(c) BY <1>t, <1>3, Others DEF Owns, Shutdown, Resting
<1>4. CASE WaitsTooLong(c) BY <1>t, <1>4, AfterEnding DEF WaitsTooLong
<1>5. CASE Passes(c) BY <1>t, <1>5, AfterBecoming DEF Passes, CloseSteps
<1>6. CASE Verdict(c) BY <1>t, <1>6, AfterEnding DEF Verdict
<1>7. CASE Quiesce(c) BY <1>t, <1>7, AfterBecoming DEF Quiesce, CloseSteps
<1>8. CASE Tell(c) \/ Capture(c) \/ LoopEnds(c) BY <1>t, <1>8, AfterLooping
<1>10. CASE Joined(c) BY <1>t, <1>10, AfterBecoming DEF Joined, CloseSteps
<1>11. CASE GivesUp(c) BY <1>t, <1>11, AfterEnding DEF GivesUp
<1>12. CASE FallsOut(c) BY <1>t, <1>12, AfterEnding DEF FallsOut
<1>13. CASE Drained(c) BY <1>t, <1>13, AfterBecoming DEF Drained, CloseSteps
<1>14. CASE Disposes(c) BY <1>t, <1>14 DEF Disposes, Dispose, closerVars
<1>15. CASE DisposerRaises(c) BY <1>t, <1>15 DEF DisposerRaises, Dispose, closerVars
<1>16. CASE Disposed(c) BY <1>t, <1>16, AfterBecoming DEF Disposed, CloseSteps
<1>17. CASE Close(c) BY <1>t, <1>17, AfterEnding DEF Close
<1> QED BY <1>1, <1>2, <1>3, <1>4, <1>5, <1>6, <1>7, <1>8, <1>10, <1>11, <1>12, <1>13, <1>14, <1>15, <1>16, <1>17
        DEF Calling, Closing

LEMMA BarrierStays ==
  ASSUME CloseInv, NEW c \in Closers, Calling(c) \/ Closing(c)
  PROVE  BarrierKept'
<1> USE DEF CloseInv, BarrierKept, OneOwner, BarrierDown, OwnerAtWork, OwnerHolds, ReturnIsClosed, Owning, WaitInv, hostVars
<1>t. TypeOK OBVIOUS
<1>1. CASE FindsClosed(c) BY <1>t, <1>1, AfterEnding DEF FindsClosed, Shutdown
<1>2. CASE Joins(c) BY <1>t, <1>2, Others DEF Joins, Shutdown, Resting
<1>3. CASE Owns(c)
  <2>1. [Resting EXCEPT !.at = "quiesce", !.states = registered,
                 !.left = registered] \in Shutdowns
        BY DEF TypeOK, Resting, Shutdowns, CloseSteps
  <2>2. /\ sd'[c].at = "quiesce" /\ sd'[c].result = "none"
        /\ \A d \in Closers : d # c => sd'[d] = sd[d]
    <3>1. /\ sd'[c] = [Resting EXCEPT !.at = "quiesce", !.states = registered,
                                      !.left = registered]
          /\ \A d \in Closers : d # c => sd'[d] = sd[d]
          BY <1>t, <1>3, <2>1, Others DEF Owns
    <3> QED BY <3>1 DEF Resting
  <2>3. ~closing /\ ~closed /\ closing' = TRUE /\ barrier' = FALSE /\ UNCHANGED <<closed, broken>>
        BY <1>3 DEF Owns, Shutdown
  <2>4. overtaken \subseteq overtaken' BY <1>3 DEF Owns
  <2>5. \A d \in Closers : ~Owning(d) BY <2>3
  <2>6. Owning(c)' BY <2>2
  <2>7. (OneOwner /\ OwnerHolds)' BY <2>2, <2>3, <2>5
  <2>8. (OwnerAtWork /\ BarrierDown)' BY <2>3, <2>6
  <2>9. ReturnIsClosed' BY <2>2, <2>3, <2>4
  <2> QED BY <2>7, <2>8, <2>9
<1>4. CASE WaitsTooLong(c) BY <1>t, <1>4, AfterEnding DEF WaitsTooLong
<1>5. CASE Passes(c) BY <1>t, <1>5, AfterBecoming DEF Passes, CloseSteps
<1>6. CASE Verdict(c) BY <1>t, <1>6, AfterEnding DEF Verdict
<1>7. CASE Quiesce(c) BY <1>t, <1>7, AfterBecoming DEF Quiesce, CloseSteps
<1>8. CASE Tell(c) \/ Capture(c) \/ LoopEnds(c)
  <2>1. /\ UNCHANGED <<closing, closed, barrier, broken, overtaken>>
        /\ sd[c].at \in {"tell", "capture"} /\ sd'[c].at \in {"tell", "capture", "join"}
        /\ sd'[c].result = sd[c].result
        /\ \A d \in Closers : d # c => sd'[d] = sd[d]
        BY <1>t, <1>8, AfterLooping
  <2>2. \A d \in Closers : Owning(d)' <=> Owning(d) BY <2>1
  <2>3. (OneOwner /\ OwnerHolds /\ BarrierDown)' BY <2>1, <2>2
  <2>4. OwnerAtWork' BY <2>1, <2>2
  <2>5. ReturnIsClosed' BY <2>1
  <2> QED BY <2>3, <2>4, <2>5
<1>10. CASE Joined(c) BY <1>t, <1>10, AfterBecoming DEF Joined, CloseSteps
<1>11. CASE GivesUp(c) BY <1>t, <1>11, AfterEnding DEF GivesUp
<1>12. CASE FallsOut(c) BY <1>t, <1>12, AfterEnding DEF FallsOut
<1>13. CASE Drained(c) BY <1>t, <1>13, AfterBecoming DEF Drained, CloseSteps
<1>14. CASE Disposes(c) BY <1>t, <1>14 DEF Disposes, Dispose, closerVars
<1>15. CASE DisposerRaises(c) BY <1>t, <1>15 DEF DisposerRaises, Dispose, closerVars
<1>16. CASE Disposed(c) BY <1>t, <1>16, AfterBecoming DEF Disposed, CloseSteps
<1>17. CASE Close(c) BY <1>t, <1>17, AfterEnding, ZenonT(40) DEF Close
<1> QED BY <1>1, <1>2, <1>3, <1>4, <1>5, <1>6, <1>7, <1>8, <1>10, <1>11, <1>12, <1>13, <1>14, <1>15, <1>16, <1>17
        DEF Calling, Closing

(* The turns and the front ends do nothing to a close but leave the scope.  *)
LEMMA TurnsKeepClose ==
  ASSUME CloseInv, NEW t \in Threads, Turn(t)
  PROVE  (ScopeInv /\ WaitInv /\ BarrierKept)'
<1> USE DEF CloseInv
<1>1. UNCHANGED <<closing, closed, barrier, error, admission, released, sd, broken, overtaken>>
      BY TurnKeeps DEF hostVars, closerVars
<1>2. ScopeInv'
  <2>1. CASE UNCHANGED <<inside, quiet>>
        BY <1>1, <2>1 DEF ScopeInv, PastQuiesce, NothingInsideDisposed, ClosedIsDisposed
  <2>2. CASE Admit(t)
    <3>1. \A c \in Closers : ~PastQuiesce(c) BY <2>2 DEF Admit, ScopeInv
    <3>2. released = <<>> /\ ~closed
          BY <2>2 DEF Admit, ScopeInv, NothingInsideDisposed, ClosedIsDisposed
    <3> QED BY <1>1, <2>2, <3>1, <3>2
            DEF Admit, ScopeInv, PastQuiesce, NothingInsideDisposed, ClosedIsDisposed
  <2>3. CASE Depart(t)
        BY <1>1, <2>3 DEF Depart, ScopeInv, PastQuiesce, NothingInsideDisposed, ClosedIsDisposed
  <2> QED BY <2>1, <2>2, <2>3, TurnKeeps
<1>3. WaitInv' BY <1>1 DEF WaitInv
<1>4. BarrierKept'
      BY <1>1 DEF BarrierKept, OneOwner, BarrierDown, OwnerAtWork, OwnerHolds, ReturnIsClosed, Owning
<1> QED BY <1>2, <1>3, <1>4

LEMMA StutterKeepsClose ==
  ASSUME CloseInv, UNCHANGED <<hostVars, scopeVars, sd, broken, overtaken>>
  PROVE  (ScopeInv /\ WaitInv /\ BarrierKept)'
<1> USE DEF CloseInv, hostVars, scopeVars
<1>1. ScopeInv' BY DEF ScopeInv, PastQuiesce, NothingInsideDisposed, ClosedIsDisposed
<1>2. WaitInv' BY DEF WaitInv
<1>3. BarrierKept'
      BY DEF BarrierKept, OneOwner, BarrierDown, OwnerAtWork, OwnerHolds, ReturnIsClosed, Owning
<1> QED BY <1>1, <1>2, <1>3

LEMMA StepClose == CloseInv /\ [Next]_vars => CloseInv'
<1> SUFFICES ASSUME CloseInv, [Next]_vars PROVE (ScopeInv /\ WaitInv /\ BarrierKept)'
    BY StepTypes DEF CloseInv
<1>1. ASSUME NEW f \in Callers, FrontEnd(f) PROVE (ScopeInv /\ WaitInv /\ BarrierKept)'
      BY <1>1, FrontEndKeeps, StutterKeepsClose DEF closerVars
<1>2. ASSUME NEW t \in Threads, Turn(t) PROVE (ScopeInv /\ WaitInv /\ BarrierKept)'
      BY <1>2, TurnsKeepClose
<1>3. ASSUME NEW c \in Closers, Calling(c) \/ Closing(c)
      PROVE  (ScopeInv /\ WaitInv /\ BarrierKept)'
      BY <1>3, ScopeKept, WaitKept, BarrierStays
<1>4. CASE UNCHANGED vars BY <1>4, StutterKeepsClose DEF vars, hostVars, scopeVars
<1> QED BY <1>1, <1>2, <1>3, <1>4 DEF Next

THEOREM CloseInvHolds == Spec => []CloseInv
BY InitClose, StepClose, PTL DEF Spec

(* However many threads close the host, submit and answer: no disposer runs *)
(* while a turn is inside the scope, and a closed host has run them all.    *)
THEOREM OrderlyCloseHolds == Spec => []OrderlyClose
<1>1. CloseInv => OrderlyClose BY DEF CloseInv, ScopeInv, OrderlyClose
<1> QED BY <1>1, CloseInvHolds, PTL

(* However many threads close the host: one owner at a time, a barrier that *)
(* is down exactly while it works, and no return without a close.           *)
THEOREM BarrierKeptHolds == Spec => []BarrierKept
<1>1. CloseInv => BarrierKept BY DEF CloseInv
<1> QED BY <1>1, CloseInvHolds, PTL
=============================================================================

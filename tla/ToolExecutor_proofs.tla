------------------------- MODULE ToolExecutor_proofs -------------------------
(***************************************************************************)
(* Theorems about ToolExecutor, for any number of invocations and any limit *)
(* of parallel tools.                                                      *)
(***************************************************************************)
EXTENDS ToolExecutor, WellFoundedInduction, FiniteSetTheorems, SequenceTheorems, TLAPS
-----------------------------------------------------------------------------
(* The inductive invariant.                                                 *)
Live     == {"new", "passed", "flagged", "running"}
Serial   == pc \in {"serial", "dispatch", "tool"}
Parallel == pc \in {"get", "poll", "deliver", "advance"}

(* A sub-batch of the partition: actions of one kind, as many as there are. *)
Segment(a, b) ==
  /\ a \in Actions /\ b \in a .. N
  /\ Together(a, b)
  /\ a = 1 \/ ~(a - 1 \in safe <=> a \in safe)
  /\ b = N \/ ~(b + 1 \in safe <=> b \in safe)

(* Where the driver is: in a sub-batch, within reach of the next result.    *)
Place ==
  /\ \/ lo = 0 /\ hi = 0 /\ pc = "pick"
     \/ Segment(lo, hi)
  /\ pc = "done" => hi = N
  /\ pc \notin {"pick", "done"} => lo <= next /\ next <= hi + 1
  /\ Serial => next <= hi
  /\ Parallel => lo <= started /\ started <= hi + 1 /\ lo \in safe
  /\ Parallel /\ lo \notin discarded => started <= next + MaxParallel
  /\ pc = "advance" /\ lo \notin discarded => started < next + MaxParallel

(* The results so far are those of the first actions, in source order.      *)
InSourceOrder ==
  /\ completed \in Seq(Actions \X Kind)
  /\ \A k \in 1 .. Len(completed) : completed[k][1] = k
  /\ Len(completed) = IF pc \in {"pick", "done"} THEN hi ELSE next - 1

(* What the queue may hold: a result only of a thread that is past its tool.*)
Update ==
  {u \in Actions \X (Kind \cup {"start"}) :
     /\ u[1] \in lo .. hi
     /\ thread[u[1]] # "none"
     /\ u[2] # "start" => thread[u[1]] \notin Live}

(* Which actions have a thread, and which of these may still run a tool.    *)
Threads ==
  /\ \A i \in Actions : i > hi => thread[i] = "none"
  /\ Parallel => \A i \in started .. hi : thread[i] = "none"
  /\ Serial => \A i \in next .. hi :
                 thread[i] = IF pc = "tool" /\ i = next THEN "running" ELSE "none"
  /\ Serial => \A i \in lo .. next - 1 : thread[i] \notin Live
  /\ Parallel /\ lo \notin discarded =>
       \A i \in lo .. hi : i < next \/ i \in DOMAIN pend => thread[i] \notin Live \cup {"none"}
  /\ \A i \in Actions : thread[i] \in Live => i \in safe \/ (pc = "tool" /\ i = next)
  /\ \A i \in Actions : thread[i] \in {"returned", "finished"} => outcome[i] \in {"ok", "failed"}

TimedOut(i) == completed[i][2] = "timeout"

(* A thread that may still run a tool although its action has a result was  *)
(* given up: a writer meets only those that were told as timed out.         *)
GivenUp ==
  /\ pc = "pick" =>
       \A i \in 1 .. hi : thread[i] \in Live => TimedOut(i) \/ discardRemaining \/ stop
  /\ Parallel \/ pc \in {"serial", "dispatch"} =>
       \A i \in 1 .. lo - 1 : thread[i] \in Live => TimedOut(i) \/ discardRemaining \/ stop
  /\ pc = "tool" => \A i \in 1 .. lo - 1 : thread[i] \in Live => TimedOut(i)
  /\ Parallel =>
       \A i \in lo .. next - 1 : thread[i] \in Live => TimedOut(i) \/ someDiscarded \/ stop
  /\ Parallel =>
       \A i \in DOMAIN pend : i >= next /\ thread[i] \in Live =>
                                pend[i] \in {"timeout", "discarded"} \/ stop
  /\ Serial => ~discardRemaining \/ stop
  /\ Parallel => ~discardRemaining
  /\ Parallel /\ interrupted => stop

Discarded(i) == completed[i][2] = "discarded"

(* A discarded action is noted before the next sub-batch begins.            *)
DiscardsNoted ==
  /\ pc = "pick" => \A i \in 1 .. hi : Discarded(i) => discardRemaining
  /\ pc \notin {"pick", "done"} => \A i \in 1 .. lo - 1 : ~Discarded(i)
  /\ Serial => \A i \in lo .. next - 1 : Discarded(i) => discardRemaining
  /\ Parallel => \A i \in lo .. next - 1 : Discarded(i) => someDiscarded
  /\ \A i, j \in 1 .. Len(completed) :
       Discarded(i) /\ First(i) < First(j) => Discarded(j)

LiveOf(a) == {i \in Actions : thread[i] \in Live /\ First(i) = a}

LimitKept == \A a \in Actions : Cardinality(LiveOf(a)) <= MaxParallel

IInv ==
  /\ TypeOK /\ Place /\ InSourceOrder /\ updates \in Seq(Update)
  /\ Threads /\ GivenUp /\ DiscardsNoted /\ LimitKept
-----------------------------------------------------------------------------
(* A set of natural numbers has a least element.                            *)
Below == {p \in Nat \X Nat : p[1] < p[2]}

LEMMA LeastExists ==
  ASSUME NEW T, T \subseteq Nat, T # {}
  PROVE  \E x \in T : \A y \in T : x <= y
<1>1. IsWellFoundedOn(Below, Nat) BY NatLessThanWellFounded DEF OpToRel, Below
<1>2. PICK x \in T : \A y \in T : ~(<<y, x>> \in Below) BY <1>1, WFMin, Zenon
<1>3. \A y \in T : ~(y < x) BY <1>2 DEF Below
<1> QED BY <1>3

-----------------------------------------------------------------------------
(* The partition into sub-batches.                                          *)
LEMMA NIsNat == N \in Nat \ {0} /\ MaxParallel \in Nat \ {0}
BY ToolExecutorAssumption

LEMMA LastIsEnd ==
  ASSUME NEW a \in Actions
  PROVE  /\ Last(a) \in a .. N
         /\ Together(a, Last(a))
         /\ Last(a) = N \/ ~Together(a, Last(a) + 1)
<1> DEFINE S == {j \in a .. N : Together(a, j)}
<1>1. a \in S BY NIsNat DEF Together, Actions
<1>2. PICK m \in S : \A j \in S : j <= m
  <2> DEFINE T == {N - j : j \in S}
  <2>1. \A j \in S : j \in Nat /\ N - j \in Nat BY NIsNat DEF Actions
  <2> HIDE DEF S
  <2>2. T \subseteq Nat /\ T # {} BY <1>1, <2>1
  <2>3. PICK x \in T : \A y \in T : x <= y
    <3> HIDE DEF T
    <3> QED BY <2>2, LeastExists
  <2>4. PICK m \in S : x = N - m OBVIOUS
  <2>5. \A j \in S : j <= m
    <3> SUFFICES ASSUME NEW j \in S PROVE j <= m OBVIOUS
    <3>1. N - m <= N - j BY <2>3, <2>4
    <3> QED BY <2>1, <3>1, NIsNat
  <2> QED BY <2>5
<1>3. m = N \/ ~Together(a, m + 1)
  <2>1. m \in Nat /\ m <= N BY NIsNat DEF Actions
  <2>2. m + 1 \notin S BY <1>2, <2>1
  <2> QED BY <2>1, <2>2, NIsNat DEF Actions
<1>4. \E j \in a .. N : Together(a, j) /\ (j = N \/ ~Together(a, j + 1)) BY <1>2, <1>3
<1> QED BY <1>4 DEF Last

LEMMA FirstIsStart ==
  ASSUME NEW i \in Actions
  PROVE  /\ First(i) \in 1 .. i
         /\ Together(First(i), i)
         /\ First(i) = 1 \/ ~Together(First(i) - 1, i)
<1> DEFINE S == {j \in 1 .. i : Together(j, i)}
<1>1. i \in S BY NIsNat DEF Together, Actions
<1>2. PICK m \in S : \A j \in S : m <= j
  <2>1. S \subseteq Nat OBVIOUS
  <2> HIDE DEF S
  <2> QED BY <1>1, <2>1, LeastExists
<1>3. m = 1 \/ ~Together(m - 1, i)
  <2>1. m - 1 \notin S BY <1>2
  <2> QED BY <2>1, NIsNat DEF Actions
<1>4. \E j \in 1 .. i : Together(j, i) /\ (j = 1 \/ ~Together(j - 1, i)) BY <1>2, <1>3
<1> QED BY <1>4 DEF First

LEMMA FirstInSegment ==
  ASSUME NEW a, NEW b, Segment(a, b), NEW i \in Actions
  PROVE  /\ i \in a .. b <=> First(i) = a
         /\ i > b => First(i) > b
         /\ i < a => First(i) < a
<1> DEFINE f == First(i)
<1>1. f \in 1 .. i /\ Together(f, i) /\ (f = 1 \/ ~Together(f - 1, i)) BY FirstIsStart
<1>2. a \in 1 .. N /\ b \in a .. N BY DEF Segment, Actions
<1> HIDE DEF f
<1>3. ASSUME i > b PROVE f > b
  <2> SUFFICES ASSUME f <= b PROVE FALSE BY <1>1, <1>2 DEF Actions
  <2>1. b \in f .. i /\ b + 1 \in f .. i BY <1>1, <1>2, <1>3, NIsNat DEF Actions
  <2>2. b + 1 \in safe <=> b \in safe BY <1>1, <2>1 DEF Together
  <2>3. b # N BY <1>2, <1>3, NIsNat DEF Actions
  <2> QED BY <2>2, <2>3 DEF Segment
<1>4. ASSUME i \in a .. b PROVE f = a
  <2>1. CASE f < a
    <3>1. a \in f .. i /\ a - 1 \in f .. i BY <1>1, <1>2, <1>4, <2>1
    <3>2. a - 1 \in safe <=> a \in safe BY <1>1, <3>1 DEF Together
    <3>3. a # 1 BY <1>1, <2>1
    <3> QED BY <3>2, <3>3 DEF Segment
  <2>2. CASE f > a
    <3>1. (f - 1) \in a .. b /\ (f - 1) .. i \subseteq a .. b BY <1>1, <1>2, <1>4, <2>2
    <3>2. Together(a, b) BY DEF Segment
    <3>3. Together(f - 1, i) BY <3>1, <3>2 DEF Together
    <3> QED BY <1>1, <1>2, <2>2, <3>3
  <2> QED BY <1>1, <1>2, <2>1, <2>2
<1>5. ASSUME i < a PROVE f < a BY <1>1, <1>2, <1>5 DEF Actions
<1> QED BY <1>1, <1>2, <1>3, <1>4, <1>5 DEF f, Actions

LEMMA NextSegment ==
  ASSUME TypeOK, Place, NEW a, NEW b, Batch(a, b)
  PROVE  Segment(a, b) /\ a = hi + 1 /\ a > lo
<1>1. a = hi + 1 /\ b = Last(a) /\ hi < N /\ hi \in 0 .. N /\ lo \in 0 .. N
      BY DEF Batch, TypeOK
<1>2. a \in Actions BY <1>1, NIsNat DEF Actions
<1>3. b \in a .. N /\ Together(a, b) /\ (b = N \/ ~Together(a, b + 1))
      BY <1>1, <1>2, LastIsEnd
<1>4. a = 1 \/ ~(a - 1 \in safe <=> a \in safe)
  <2>1. CASE lo = 0 /\ hi = 0 BY <1>1, <2>1
  <2>2. CASE Segment(lo, hi)
    <3>1. hi # N BY <1>1, NIsNat
    <3>2. ~(hi + 1 \in safe <=> hi \in safe) BY <2>2, <3>1 DEF Segment
    <3> QED BY <1>1, <3>2
  <2> QED BY <2>1, <2>2 DEF Place
<1>5. b = N \/ ~(b + 1 \in safe <=> b \in safe)
  <2> SUFFICES ASSUME b # N, b + 1 \in safe <=> b \in safe PROVE FALSE OBVIOUS
  <2>1. b + 1 \in safe <=> a \in safe BY <1>2, <1>3 DEF Together, Actions
  <2>2. ASSUME NEW k \in a .. b + 1 PROVE k \in safe <=> a \in safe
    <3>1. k \in a .. b \/ k = b + 1 BY <1>2, <1>3, NIsNat DEF Actions
    <3> QED BY <1>3, <2>1, <3>1 DEF Together
  <2>3. Together(a, b + 1) BY <2>2 DEF Together
  <2> QED BY <1>3, <2>3
<1>6. a > lo
  <2>1. lo <= hi BY <1>1 DEF Place, Segment, Actions
  <2> QED BY <1>1, <2>1
<1> QED BY <1>1, <1>2, <1>3, <1>4, <1>5, <1>6 DEF Segment

(* No step moves the boundaries.                                            *)
LEMMA SamePartition ==
  ASSUME safe' = safe
  PROVE  /\ \A a, b : Segment(a, b)' <=> Segment(a, b)
         /\ \A i : First(i)' = First(i)
         /\ \A a, b : Together(a, b)' <=> Together(a, b)
<1>1. \A a, b : Together(a, b)' <=> Together(a, b) BY DEF Together
<1>2. \A i : First(i)' = First(i) BY DEF First, Together
<1>3. \A a, b : Segment(a, b)' <=> Segment(a, b) BY <1>1 DEF Segment
<1> QED BY <1>1, <1>2, <1>3
-----------------------------------------------------------------------------
(* What most steps leave alone.                                             *)
ThreadState == {"none", "new", "passed", "flagged", "running", "returned", "finished",
                "put", "over"}

(* No thread ends before it began, and none runs again.                     *)
Onward ==
  \A i \in Actions : thread[i] # "none" =>
    thread'[i] # "none" /\ (thread[i] \notin Live => thread'[i] \notin Live)

LEMMA LimitShrinks ==
  ASSUME LimitKept, safe' = safe,
         \A i \in Actions : thread'[i] \in Live => thread[i] \in Live
  PROVE  LimitKept'
<1> SUFFICES ASSUME NEW a \in Actions PROVE Cardinality(LiveOf(a)') <= MaxParallel
  BY DEF LimitKept
<1>1. LiveOf(a)' \subseteq LiveOf(a) BY SamePartition DEF LiveOf, Live
<1>2. IsFiniteSet(LiveOf(a))
  <2>1. IsFiniteSet(Actions) BY NIsNat, FS_Interval DEF Actions
  <2>2. LiveOf(a) \in SUBSET Actions BY DEF LiveOf
  <2> QED BY <2>1, <2>2, FS_Subset
<1>3. /\ IsFiniteSet(LiveOf(a)') /\ Cardinality(LiveOf(a)') <= Cardinality(LiveOf(a))
      BY <1>1, <1>2, FS_Subset
<1>4. Cardinality(LiveOf(a)) <= MaxParallel BY DEF LimitKept
<1>5. Cardinality(LiveOf(a)) \in Nat /\ Cardinality(LiveOf(a)') \in Nat
      BY <1>2, <1>3, FS_CardinalityType
<1> QED BY <1>3, <1>4, <1>5, NIsNat

LEMMA QueueKept ==
  ASSUME updates \in Seq(Update), lo' = lo, hi' = hi, Onward,
         \/ updates' = updates
         \/ updates # <<>> /\ updates' = Tail(updates)
         \/ \E u \in Update' : updates' = Append(updates, u)
  PROVE  updates' \in Seq(Update')
<1>1. Update \subseteq Update' BY DEF Update, Onward, Live
<1>2. updates \in Seq(Update') BY <1>1, SeqMonotonic
<1>3. updates # <<>> => Tail(updates) \in Seq(Update') BY <1>2, HeadTailProperties
<1> HIDE DEF Update
<1>4. \A u \in Update' : Append(updates, u) \in Seq(Update') BY <1>2
<1> QED BY <1>2, <1>3, <1>4
-----------------------------------------------------------------------------
(* A step of a thread: the driver stays where it is.                        *)
LEMMA ThreadStepKeeps ==
  ASSUME IInv, NEW i \in Actions, NEW x \in ThreadState \ {"none"},
         thread[i] # "none", ~(pc = "tool" /\ i = next),
         x \in Live => thread[i] \in Live,
         thread' = [thread EXCEPT ![i] = x],
         UNCHANGED driverVars, discarded' = discarded,
         sibling' \subseteq Actions, flagged' \subseteq Actions, finished' \subseteq Actions,
         outcome' = outcome \/ \E kind \in {"ok", "failed"} : outcome' = [outcome EXCEPT ![i] = kind],
         x \in {"returned", "finished"} => outcome'[i] \in {"ok", "failed"},
         \/ updates' = updates
         \/ \E kind \in Kind \cup {"start"} : Put(i, kind) /\ (kind # "start" => x \notin Live)
  PROVE  IInv'
<1>1. /\ thread \in [Actions -> ThreadState]
      /\ thread' \in [Actions -> ThreadState]
      /\ thread'[i] = x /\ \A j \in Actions \ {i} : thread'[j] = thread[j]
  <2>1. thread \in [Actions -> ThreadState] BY DEF IInv, TypeOK, ThreadState
  <2> QED BY <2>1
<1>2. Onward BY <1>1 DEF Onward
<1>3. /\ safe' = safe /\ stop' = stop /\ pc' = pc /\ lo' = lo /\ hi' = hi /\ started' = started
      /\ next' = next /\ pend' = pend /\ completed' = completed /\ interrupted' = interrupted
      /\ someDiscarded' = someDiscarded /\ discardRemaining' = discardRemaining
      BY DEF driverVars, batchVars, resultVars
<1>4. updates' = updates \/ \E u \in Update' : updates' = Append(updates, u)
  <2>1. CASE updates' = updates BY <2>1
  <2>2. ASSUME NEW kind \in Kind \cup {"start"}, Put(i, kind), kind # "start" => x \notin Live
        PROVE  updates' = updates \/ \E u \in Update' : updates' = Append(updates, u)
    <3>1. CASE First(i) # lo BY <2>2, <3>1 DEF Put
    <3>2. CASE First(i) = lo
      <4>1. First(i) \in 1 .. i BY FirstIsStart
      <4>2. lo # 0 BY <3>2, <4>1
      <4>3. Segment(lo, hi) BY <4>2 DEF IInv, Place
      <4>4. i \in lo .. hi BY <3>2, <4>3, FirstInSegment
      <4>5. <<i, kind>> \in Update' BY <1>1, <1>3, <2>2, <4>4 DEF Update
      <4>6. updates' = Append(updates, <<i, kind>>) BY <2>2, <3>2 DEF Put
      <4> HIDE DEF Update
      <4> QED BY <4>5, <4>6
    <3> QED BY <3>1, <3>2
  <2> QED BY <2>1, <2>2
<1>5. updates' \in Seq(Update') BY <1>2, <1>3, <1>4, QueueKept DEF IInv
<1>6. outcome' \in [Actions -> {"none", "ok", "failed", "interrupted"}]
      BY DEF IInv, TypeOK
<1>7. TypeOK'
  <2>1. \A k \in 1 .. Len(updates') : updates'[k] \in (lo .. hi) \X (Kind \cup {"start"})
    <3>1. Update' \subseteq (lo .. hi) \X (Kind \cup {"start"}) BY <1>3 DEF Update
    <3> QED BY <1>5, <3>1, ElementOfSeq
  <2> QED BY <1>1, <1>3, <1>6, <2>1 DEF IInv, TypeOK, ThreadState
<1>8. Place' BY <1>3, SamePartition DEF IInv, Place, Parallel, Serial
<1>9. InSourceOrder' BY <1>3 DEF IInv, InSourceOrder
<1>10. Threads'
  <2>2. Parallel => i \notin started .. hi BY DEF IInv, Threads
  <2>3. Serial => i \notin next .. hi BY DEF IInv, Threads
  <2>4. \A j \in Actions : thread'[j] \in Live => thread[j] \in Live BY <1>1
  <2>5. \A j \in Actions : thread[j] # "none" => thread'[j] # "none" BY <1>1
  <2>6. lo \in 0 .. N /\ hi \in 0 .. N /\ (lo # 0 \/ hi = 0) /\ next \in Nat /\ started \in Nat
        BY NIsNat DEF IInv, TypeOK, Place, Segment, Actions
  <2>1. i <= hi BY <2>6 DEF IInv, Threads, Actions
  <2>14. ASSUME Parallel \/ Serial PROVE lo # 0 /\ lo <= next /\ next <= hi + 1
    <3>1. pc \notin {"pick", "done"} BY <2>14 DEF Parallel, Serial
    <3>2. lo <= next /\ next <= hi + 1 BY <3>1 DEF IInv, Place
    <3>3. lo # 0 BY <3>1 DEF IInv, Place, Segment, Actions
    <3> QED BY <3>2, <3>3
  <2>15. Parallel => lo <= started BY DEF IInv, Place
  <2>7. (Parallel \/ Serial) => lo .. hi \subseteq Actions BY <2>6, <2>14, NIsNat DEF Actions
  <2>8. \A j \in Actions : thread'[j] \in {"returned", "finished"} => outcome'[j] \in {"ok", "failed"}
    <3> SUFFICES ASSUME NEW j \in Actions, thread'[j] \in {"returned", "finished"}
                 PROVE  outcome'[j] \in {"ok", "failed"}
        OBVIOUS
    <3>1. CASE j = i BY <1>1, <3>1
    <3>2. CASE j # i
      <4>1. outcome'[j] = outcome[j] BY <3>2 DEF IInv, TypeOK
      <4> QED BY <1>1, <3>2, <4>1 DEF IInv, Threads
    <3> QED BY <3>1, <3>2
  <2>9. (\A j \in Actions : j > hi => thread[j] = "none")'
        BY <1>1, <1>3, <2>1, <2>6 DEF IInv, Threads, Actions
  <2>10. (Parallel => \A j \in started .. hi : thread[j] = "none")'
    <3> SUFFICES ASSUME Parallel, NEW j \in started .. hi PROVE thread'[j] = "none"
        BY <1>3 DEF Parallel
    <3>1. j \in Actions /\ j # i BY <2>2, <2>6, <2>7, <2>15
    <3> QED BY <1>1, <3>1 DEF IInv, Threads
  <2>11. (Serial => /\ \A j \in next .. hi :
                        thread[j] = IF pc = "tool" /\ j = next THEN "running" ELSE "none"
                    /\ \A j \in lo .. next - 1 : thread[j] \notin Live)'
    <3> SUFFICES ASSUME Serial
                 PROVE  /\ \A j \in next .. hi :
                             thread'[j] = IF pc = "tool" /\ j = next THEN "running" ELSE "none"
                        /\ \A j \in lo .. next - 1 : thread'[j] \notin Live
        BY <1>3 DEF Serial, Live
    <3>1. \A j \in next .. hi : j \in Actions /\ j # i BY <2>3, <2>6, <2>7, <2>14
    <3>2. \A j \in lo .. next - 1 : j \in Actions BY <2>6, <2>7, <2>14
    <3> QED BY <1>1, <2>4, <3>1, <3>2 DEF IInv, Threads
  <2>12. (Parallel /\ lo \notin discarded =>
            \A j \in lo .. hi : j < next \/ j \in DOMAIN pend => thread[j] \notin Live \cup {"none"})'
    <3> SUFFICES ASSUME Parallel, lo \notin discarded, NEW j \in lo .. hi, j < next \/ j \in DOMAIN pend
                 PROVE  thread'[j] \notin Live \cup {"none"}
        BY <1>3 DEF Parallel, Live
    <3>1. j \in Actions BY <2>7
    <3>2. thread[j] \notin Live \cup {"none"} BY DEF IInv, Threads
    <3> QED BY <2>4, <2>5, <3>1, <3>2
  <2>13. (\A j \in Actions : thread[j] \in Live => j \in safe \/ (pc = "tool" /\ j = next))'
        BY <1>3, <2>4 DEF IInv, Threads, Live
  <2> QED BY <2>8, <2>9, <2>10, <2>11, <2>12, <2>13 DEF Threads
<1>11. GivenUp' BY <1>1, <1>3 DEF IInv, GivenUp, TimedOut, Parallel, Serial, Live
<1>12. DiscardsNoted' BY <1>3, SamePartition DEF IInv, DiscardsNoted, Discarded, Parallel, Serial
<1>13. LimitKept' BY <1>1, <1>3, LimitShrinks DEF IInv
<1> QED BY <1>5, <1>7, <1>8, <1>9, <1>10, <1>11, <1>12, <1>13 DEF IInv

LEMMA RunnerKeeps ==
  ASSUME IInv, NEW i \in Actions, RunnerStep(i)
  PROVE  IInv'
<1>1. /\ thread \in [Actions -> ThreadState]
      /\ sibling \subseteq Actions /\ flagged \subseteq Actions /\ finished \subseteq Actions
      BY DEF IInv, TypeOK, ThreadState
<1>2. pc = "tool" /\ i = next => thread[i] = "running"
  <2> SUFFICES ASSUME pc = "tool", i = next PROVE thread[i] = "running" OBVIOUS
  <2>1. Serial BY DEF Serial
  <2>2. next <= hi /\ next \in Nat /\ hi \in Nat BY <2>1, NIsNat DEF IInv, Place, TypeOK
  <2>3. next \in next .. hi BY <2>2
  <2> QED BY <2>1, <2>3 DEF IInv, Threads
<1>3. CASE RunnerDiscards(i)
  <2>1. Put(i, "discarded") /\ thread' = [thread EXCEPT ![i] = "over"] /\ thread[i] = "new"
        BY <1>3 DEF RunnerDiscards
  <2>2. /\ "over" \in ThreadState \ {"none"} /\ "over" \notin Live /\ "discarded" \in Kind
        BY DEF ThreadState, Live, Kind
  <2>3. UNCHANGED <<driverVars, discarded, sibling, flagged, finished, outcome>>
        BY <1>3 DEF RunnerDiscards
  <2> QED BY <1>1, <1>2, <2>1, <2>2, <2>3, ThreadStepKeeps
<1>4. CASE RunnerPasses(i)
  <2>1. thread' = [thread EXCEPT ![i] = "passed"] /\ thread[i] = "new" BY <1>4 DEF RunnerPasses
  <2>2. "passed" \in ThreadState \ {"none"} /\ {"new", "passed"} \subseteq Live BY DEF ThreadState, Live
  <2>3. UNCHANGED <<driverVars, updates, discarded, sibling, flagged, finished, outcome>>
        BY <1>4 DEF RunnerPasses
  <2> QED BY <1>1, <1>2, <2>1, <2>2, <2>3, ThreadStepKeeps
<1>5. CASE RunnerFlags(i)
  <2>1. thread' = [thread EXCEPT ![i] = "flagged"] /\ thread[i] = "passed" BY <1>5 DEF RunnerFlags
  <2>2. "flagged" \in ThreadState \ {"none"} /\ {"passed", "flagged"} \subseteq Live
        BY DEF ThreadState, Live
  <2>3. UNCHANGED <<driverVars, updates, discarded, sibling, finished, outcome>>
        BY <1>5 DEF RunnerFlags
  <2>4. flagged' \subseteq Actions BY <1>1, <1>5 DEF RunnerFlags
  <2> QED BY <1>1, <1>2, <2>1, <2>2, <2>3, <2>4, ThreadStepKeeps
<1>6. CASE RunnerExecutes(i)
  <2>1. Put(i, "start") /\ thread' = [thread EXCEPT ![i] = "running"] /\ thread[i] = "flagged"
        BY <1>6 DEF RunnerExecutes
  <2>2. "running" \in ThreadState \ {"none"} /\ {"flagged", "running"} \subseteq Live
        BY DEF ThreadState, Live
  <2>3. UNCHANGED <<driverVars, discarded, sibling, flagged, finished, outcome>>
        BY <1>6 DEF RunnerExecutes
  <2> QED BY <1>1, <1>2, <2>1, <2>2, <2>3, ThreadStepKeeps
<1>7. CASE RunnerFinishes(i)
  <2>1. thread' = [thread EXCEPT ![i] = "finished"] /\ thread[i] = "returned"
        BY <1>7 DEF RunnerFinishes
  <2>2. "finished" \in ThreadState \ {"none"} /\ "finished" \notin Live BY DEF ThreadState, Live
  <2>3. UNCHANGED <<driverVars, updates, discarded, sibling, flagged, outcome>>
        BY <1>7 DEF RunnerFinishes
  <2>4. finished' \subseteq Actions BY <1>1, <1>7 DEF RunnerFinishes
  <2>5. outcome'[i] \in {"ok", "failed"} BY <2>1, <2>3 DEF IInv, Threads
  <2> QED BY <1>1, <1>2, <2>1, <2>2, <2>3, <2>4, <2>5, ThreadStepKeeps
<1>8. CASE RunnerPuts(i)
  <2>1. thread[i] = "finished" /\ Put(i, outcome[i])
        /\ UNCHANGED <<driverVars, discarded, sibling, flagged, finished, outcome>>
        BY <1>8 DEF RunnerPuts
  <2>2. outcome[i] \in {"ok", "failed"} BY <2>1 DEF IInv, Threads
  <2>3. PICK x \in {"over", "put"} : thread' = [thread EXCEPT ![i] = x] BY <1>8 DEF RunnerPuts
  <2>4. x \in ThreadState \ {"none"} /\ x \notin Live /\ outcome[i] \in Kind
        BY <2>2 DEF ThreadState, Live, Kind
  <2> QED BY <1>1, <1>2, <2>1, <2>3, <2>4, ThreadStepKeeps
<1>9. CASE RunnerWarns(i)
  <2>1. thread' = [thread EXCEPT ![i] = "over"] /\ thread[i] = "put" BY <1>9 DEF RunnerWarns
  <2>2. "over" \in ThreadState \ {"none"} /\ "over" \notin Live BY DEF ThreadState, Live
  <2>3. UNCHANGED <<driverVars, updates, discarded, flagged, finished, outcome>>
        BY <1>9 DEF RunnerWarns
  <2>4. First(i) \in Actions
    <3>1. First(i) \in 1 .. i BY FirstIsStart
    <3> QED BY <3>1, NIsNat DEF Actions
  <2>5. sibling' \subseteq Actions BY <1>1, <1>9, <2>4 DEF RunnerWarns
  <2> QED BY <1>1, <1>2, <2>1, <2>2, <2>3, <2>5, ThreadStepKeeps
<1> QED BY <1>3, <1>4, <1>5, <1>6, <1>7, <1>8, <1>9 DEF RunnerStep

LEMMA ToolKeeps ==
  ASSUME IInv, NEW i \in Actions, ToolStep(i)
  PROVE  IInv'
<1>1. /\ sibling \subseteq Actions /\ flagged \subseteq Actions /\ finished \subseteq Actions
      /\ outcome \in [Actions -> {"none", "ok", "failed", "interrupted"}]
      BY DEF IInv, TypeOK
<1>2. thread[i] = "running" /\ ~(pc = "tool" /\ i = next)
      BY DEF ToolStep, ToolDies, ToolReturns, InThread
<1>3. {"returned", "over"} \subseteq ThreadState \ {"none"} /\ "over" \notin Live
      /\ "returned" \notin Live
      BY DEF ThreadState, Live
<1>4. CASE ToolDies(i) BY <1>1, <1>2, <1>3, <1>4, ThreadStepKeeps DEF ToolDies
<1>5. ASSUME NEW kind \in {"ok", "failed"}, ToolReturns(i, kind) PROVE IInv'
  <2>1. /\ outcome' = [outcome EXCEPT ![i] = kind]
        /\ thread' = [thread EXCEPT ![i] = "returned"]
        /\ UNCHANGED <<driverVars, updates, discarded, sibling, flagged, finished>>
        BY <1>5 DEF ToolReturns
  <2>2. outcome'[i] \in {"ok", "failed"} BY <1>1, <2>1
  <2> QED BY <1>1, <1>2, <1>3, <2>1, <2>2, ThreadStepKeeps
<1> QED BY <1>4, <1>5 DEF ToolStep
-----------------------------------------------------------------------------
(* What holds wherever the driver is.                                       *)
LEMMA Facts ==
  ASSUME IInv
  PROVE  /\ N \in Nat \ {0} /\ MaxParallel \in Nat \ {0} /\ Actions = 1 .. N
         /\ lo \in 0 .. N /\ hi \in 0 .. N /\ next \in 1 .. N + 1 /\ started \in 1 .. N + 1
         /\ thread \in [Actions -> ThreadState]
         /\ completed \in Seq(Actions \X Kind)
         /\ hi # 0 => Segment(lo, hi) /\ lo \in Actions /\ lo .. hi \subseteq Actions
         /\ pc \notin {"pick", "done"} => /\ Segment(lo, hi) /\ lo \in Actions /\ hi \in lo .. N
                                          /\ lo .. hi \subseteq Actions /\ next \in lo .. hi + 1
<1>1. /\ N \in Nat \ {0} /\ MaxParallel \in Nat \ {0} /\ Actions = 1 .. N
      /\ lo \in 0 .. N /\ hi \in 0 .. N /\ next \in 1 .. N + 1 /\ started \in 1 .. N + 1
      /\ thread \in [Actions -> ThreadState]
      /\ completed \in Seq(Actions \X Kind)
      BY NIsNat DEF IInv, TypeOK, InSourceOrder, ThreadState, Actions
<1>2. \/ lo = 0 /\ hi = 0 /\ pc = "pick"
      \/ Segment(lo, hi)
      BY DEF IInv, Place
<1>3. Segment(lo, hi) => lo \in Actions /\ hi \in lo .. N /\ lo .. hi \subseteq Actions
      BY <1>1 DEF Segment
<1>4. pc \notin {"pick", "done"} => lo <= next /\ next <= hi + 1 BY DEF IInv, Place
<1> QED BY <1>1, <1>2, <1>3, <1>4

(* A step that moves no thread and no boundary.                             *)
LEMMA QueueAndLimitKept ==
  ASSUME IInv, UNCHANGED <<safe, lo, hi, thread>>,
         updates' = updates \/ (updates # <<>> /\ updates' = Tail(updates))
  PROVE  /\ updates' \in Seq(Update') /\ LimitKept'
         /\ \A k \in 1 .. Len(updates') : updates'[k] \in (lo' .. hi') \X (Kind \cup {"start"})
<1>1. Onward BY DEF Onward
<1>2. updates' \in Seq(Update') BY <1>1, QueueKept DEF IInv
<1>3. Update' \subseteq (lo' .. hi') \X (Kind \cup {"start"}) BY DEF Update
<1>4. LimitKept' BY LimitShrinks DEF IInv
<1> QED BY <1>2, <1>3, <1>4, ElementOfSeq

(* The driver between two deliveries.                                       *)
LEMMA ParallelStepKeeps ==
  ASSUME IInv, pc \in {"get", "poll", "deliver"}, pc' \in {"get", "poll", "deliver"},
         UNCHANGED <<safe, stop, lo, hi, started, next, completed, someDiscarded,
                     discardRemaining, sibling, flagged, thread, outcome>>,
         finished' \subseteq Actions,
         updates' = updates \/ (updates # <<>> /\ updates' = Tail(updates)),
         discarded' = discarded \/ discarded' = discarded \cup {lo},
         interrupted' \in BOOLEAN, interrupted' => stop,
         DOMAIN pend \subseteq DOMAIN pend', DOMAIN pend' \subseteq lo .. hi,
         \A i \in DOMAIN pend' :
           /\ pend'[i] \in Kind
           /\ lo \notin discarded' => i \in DOMAIN pend \/ thread[i] \notin Live \cup {"none"}
           /\ i >= next /\ thread[i] \in Live => pend'[i] \in {"timeout", "discarded"} \/ stop
  PROVE  IInv'
<1>1. Parallel /\ Parallel' /\ ~Serial' BY DEF Parallel, Serial
<1>2. /\ updates' \in Seq(Update') /\ LimitKept'
      /\ \A k \in 1 .. Len(updates') : updates'[k] \in (lo' .. hi') \X (Kind \cup {"start"})
      BY QueueAndLimitKept
<1>3. discarded' \subseteq Actions BY Facts DEF IInv, TypeOK
<1>4. TypeOK' BY <1>2, <1>3 DEF IInv, TypeOK
<1>5. Place' BY <1>1, SamePartition DEF IInv, Place
<1>6. InSourceOrder' BY DEF IInv, InSourceOrder
<1>7. lo \notin discarded' => lo \notin discarded OBVIOUS
<1>8. Threads'
  <2>1. /\ (\A i \in Actions : i > hi => thread[i] = "none")'
        /\ (\A i \in started .. hi : thread[i] = "none")'
        /\ (\A i \in Actions : thread[i] \in Live => i \in safe \/ (pc = "tool" /\ i = next))'
        /\ (\A i \in Actions : thread[i] \in {"returned", "finished"} => outcome[i] \in {"ok", "failed"})'
        BY <1>1 DEF IInv, Threads, Live
  <2>2. ASSUME lo \notin discarded', NEW i \in lo .. hi, i < next \/ i \in DOMAIN pend'
        PROVE  thread[i] \notin Live \cup {"none"}
    <3>1. CASE i < next \/ i \in DOMAIN pend BY <1>1, <1>7, <2>2, <3>1 DEF IInv, Threads
    <3>2. CASE i \in DOMAIN pend' /\ i \notin DOMAIN pend BY <2>2, <3>2
    <3> QED BY <2>2, <3>1, <3>2
  <2> QED BY <1>1, <2>1, <2>2 DEF Threads, Live
<1>9. GivenUp' BY <1>1 DEF IInv, GivenUp, TimedOut, Live
<1>10. DiscardsNoted' BY <1>1, SamePartition DEF IInv, DiscardsNoted, Discarded
<1> QED BY <1>2, <1>4, <1>5, <1>6, <1>8, <1>9, <1>10 DEF IInv

LEMMA GetAndPollKeep ==
  ASSUME IInv, GetStart \/ GetResult \/ PollEmpty \/ AwaitMore
  PROVE  IInv'
<1>1. /\ DOMAIN pend \subseteq lo .. hi /\ finished \subseteq Actions /\ interrupted \in BOOLEAN
      /\ stop \in BOOLEAN /\ \A i \in DOMAIN pend : pend[i] \in Kind
      BY DEF IInv, TypeOK
<1>2. pc \in {"get", "deliver"} =>
        /\ interrupted => stop
        /\ \A i \in DOMAIN pend : i >= next /\ thread[i] \in Live =>
                                    pend[i] \in {"timeout", "discarded"} \/ stop
      BY DEF IInv, GivenUp, Parallel
<1>3. CASE GetStart
  <2>1. discarded' = discarded \/ discarded' = discarded \cup {lo} BY <1>3 DEF GetStart
  <2>2. interrupted' \in BOOLEAN /\ (interrupted' => stop) BY <1>1, <1>2, <1>3 DEF GetStart
  <2> QED BY <1>1, <1>2, <1>3, <2>1, <2>2, ParallelStepKeeps DEF GetStart, batchVars
<1>4. CASE GetResult
  <2> DEFINE u == Head(updates)
  <2>1. /\ u \in Update /\ u[2] # "start"
        /\ updates # <<>> /\ updates' = Tail(updates)
        /\ pend' = Waiting([i \in {u[1]} |-> u[2]])
        /\ pc = "get" /\ pc' = "deliver"
        /\ UNCHANGED <<safe, stop, lo, hi, started, next, resultVars, sharedVars>>
        BY <1>4, HeadTailProperties DEF GetResult, IInv
  <2> HIDE DEF u
  <2>2. u[1] \in lo .. hi /\ u[2] \in Kind /\ thread[u[1]] \notin Live \cup {"none"}
        BY <2>1 DEF Update
  <2>3. /\ DOMAIN pend' = DOMAIN pend \cup {u[1]}
        /\ pend'[u[1]] = u[2] /\ \A i \in DOMAIN pend : i # u[1] => pend'[i] = pend[i]
        BY <2>1 DEF Waiting
  <2>4. \A i \in DOMAIN pend' :
           /\ pend'[i] \in Kind
           /\ lo \notin discarded' => i \in DOMAIN pend \/ thread[i] \notin Live \cup {"none"}
           /\ i >= next /\ thread[i] \in Live => pend'[i] \in {"timeout", "discarded"} \/ stop
        BY <1>1, <1>2, <2>1, <2>2, <2>3
  <2> QED BY <1>1, <1>2, <2>1, <2>2, <2>3, <2>4, ParallelStepKeeps DEF resultVars, sharedVars
<1>5. CASE PollEmpty
  BY <1>1, <1>2, <1>5, ParallelStepKeeps DEF PollEmpty, batchVars, resultVars, sharedVars
<1>6. CASE AwaitMore
  BY <1>1, <1>2, <1>6, ParallelStepKeeps DEF AwaitMore, batchVars, resultVars, sharedVars
<1> QED BY <1>3, <1>4, <1>5, <1>6

LEMMA GiveUpKeeps ==
  ASSUME IInv, GiveUp
  PROVE  IInv'
<1> DEFINE kind  == IF stop THEN "interrupted" ELSE "timeout"
           given == Finalize(kind)
<1>1. /\ DOMAIN pend \subseteq lo .. hi /\ finished \subseteq Actions /\ interrupted \in BOOLEAN
      /\ stop \in BOOLEAN /\ \A i \in DOMAIN pend : pend[i] \in Kind
      BY DEF IInv, TypeOK
<1>2. /\ pc = "poll" /\ pc' \in {"get", "deliver"}
      /\ discarded' = discarded \cup {lo}
      /\ finished' = finished \cup DOMAIN given
      /\ pend' = Waiting(given)
      /\ UNCHANGED <<safe, stop, lo, hi, started, next, updates, resultVars, sibling,
                     flagged, thread, outcome>>
      BY DEF GiveUp
<1>3. /\ interrupted => stop
      /\ \A i \in DOMAIN pend : i >= next /\ thread[i] \in Live =>
                                  pend[i] \in {"timeout", "discarded"} \/ stop
      BY <1>2 DEF IInv, GivenUp, Parallel
<1>4. /\ DOMAIN given = (lo .. hi) \ finished
      /\ \A i \in DOMAIN given : given[i] \in Kind /\ (given[i] \in {"timeout", "discarded"} \/ stop)
      BY DEF Finalize, Kind
<1> HIDE DEF given
<1>5. /\ DOMAIN pend' = DOMAIN pend \cup DOMAIN given
      /\ \A i \in DOMAIN pend' : pend'[i] = IF i \in DOMAIN given THEN given[i] ELSE pend[i]
      BY <1>2 DEF Waiting
<1>6. finished' \subseteq Actions
  <2>1. lo .. hi \subseteq Actions BY <1>2, Facts
  <2> QED BY <1>1, <1>2, <1>4, <2>1
<1>7. DOMAIN pend \subseteq DOMAIN pend' /\ DOMAIN pend' \subseteq lo .. hi BY <1>1, <1>4, <1>5
<1>8. \A i \in DOMAIN pend' :
         /\ pend'[i] \in Kind
         /\ i >= next /\ thread[i] \in Live => pend'[i] \in {"timeout", "discarded"} \/ stop
      BY <1>1, <1>3, <1>4, <1>5
<1>9. lo \in discarded' BY <1>2
<1> QED BY <1>1, <1>2, <1>3, <1>6, <1>7, <1>8, <1>9, ParallelStepKeeps DEF resultVars
-----------------------------------------------------------------------------
(* One more result, the next one in source order.                           *)
LEMMA AppendKeepsOrder ==
  ASSUME IInv, pc \notin {"pick", "done"}, next <= hi, NEW kind \in Kind, safe' = safe,
         completed' = Append(completed, <<next, kind>>)
  PROVE  /\ completed' \in Seq(Actions \X Kind) /\ Len(completed') = next
         /\ \A k \in 1 .. Len(completed') : completed'[k][1] = k
         /\ \A k \in 1 .. next - 1 : completed'[k] = completed[k]
         /\ completed'[next] = <<next, kind>>
         /\ \A i, j \in 1 .. Len(completed') :
              Discarded(i)' /\ First(i)' < First(j)' => Discarded(j)'
         /\ \A k \in 1 .. Len(completed') : completed'[k] \in Actions \X Kind
<1>1. next \in lo .. hi /\ next \in Actions /\ Segment(lo, hi) /\ lo \in Actions /\ Actions = 1 .. N
      /\ N \in Nat
      BY Facts
<1>2. completed \in Seq(Actions \X Kind) /\ Len(completed) = next - 1
      /\ \A k \in 1 .. Len(completed) : completed[k][1] = k
      BY DEF IInv, InSourceOrder
<1>3. completed' \in Seq(Actions \X Kind) /\ Len(completed') = next BY <1>1, <1>2
<1>4. /\ \A k \in 1 .. next - 1 : completed'[k] = completed[k]
      /\ completed'[next] = <<next, kind>>
      BY <1>1, <1>2
<1>5. \A k \in 1 .. next : completed'[k][1] = k
  <2>1. \A k \in 1 .. next : k \in 1 .. next - 1 \/ k = next BY <1>1
  <2> QED BY <1>2, <1>4, <2>1
<1>6. ASSUME NEW i \in 1 .. next, NEW j \in 1 .. next, Discarded(i)', First(i)' < First(j)'
      PROVE  Discarded(j)'
  <2>1. i \in Actions /\ j \in Actions /\ i <= hi /\ j <= hi
    <3>1. hi \in Nat BY Facts
    <3> QED BY <1>1, <3>1
  <2>2. First(i) < First(j) /\ First(i) \in Nat /\ First(j) \in Nat /\ First(j) <= lo
    <3>1. First(i) < First(j) BY <1>6, SamePartition
    <3>2. First(i) \in 1 .. i /\ First(j) \in 1 .. j BY <2>1, FirstIsStart
    <3>3. (j \in lo .. hi => First(j) = lo) /\ (j < lo => First(j) < lo)
          BY <1>1, <2>1, FirstInSegment
    <3>4. j \in lo .. hi \/ j < lo BY <1>1, <2>1
    <3>5. lo \in Nat /\ First(j) \in Nat BY <1>1, <3>2
    <3> QED BY <2>1, <3>1, <3>2, <3>3, <3>4, <3>5
  <2>3. i < lo
    <3>1. i \in lo .. hi => First(i) = lo BY <1>1, <2>1, FirstInSegment
    <3>2. lo \in Nat BY <1>1
    <3> QED BY <1>1, <2>1, <2>2, <3>1, <3>2
  <2>4. i \in 1 .. next - 1 /\ i \in 1 .. lo - 1 BY <1>1, <2>3
  <2>5. ~Discarded(i) BY <2>4 DEF IInv, DiscardsNoted
  <2>6. Discarded(i) BY <1>4, <1>6, <2>4 DEF Discarded
  <2> QED BY <2>5, <2>6
<1> QED BY <1>3, <1>4, <1>5, <1>6, ElementOfSeq

LEMMA DeliverKeeps ==
  ASSUME IInv, NEW i \in Actions, Deliver(i)
  PROVE  IInv'
<1> DEFINE stopped == interrupted \/ stop
           kind    == IF stopped /\ pend[i] # "discarded" THEN "interrupted" ELSE pend[i]
<1>1. /\ pc = "deliver" /\ i \in DOMAIN pend /\ i = next
      /\ interrupted' = stopped
      /\ completed' = Append(completed, <<next, kind>>)
      /\ someDiscarded' = (someDiscarded \/ kind = "discarded")
      /\ pend' = [j \in (DOMAIN pend) \ {i} |-> pend[j]]
      /\ next' = next + 1
      /\ pc' = "advance"
      /\ UNCHANGED <<safe, stop, lo, hi, started, updates, discardRemaining, sharedVars>>
      BY DEF Deliver, Deliverable, AppendResult
<1>2. /\ DOMAIN pend \subseteq lo .. hi /\ \A j \in DOMAIN pend : pend[j] \in Kind
      /\ interrupted \in BOOLEAN /\ stop \in BOOLEAN /\ someDiscarded \in BOOLEAN
      BY DEF IInv, TypeOK
<1>3. Parallel /\ Parallel' /\ ~Serial' BY <1>1 DEF Parallel, Serial
<1>4. /\ interrupted => stop
      /\ thread[i] \in Live => pend[i] \in {"timeout", "discarded"} \/ stop
  <2>1. i >= next BY <1>1, Facts
  <2> QED BY <1>1, <1>2, <1>3, <2>1 DEF IInv, GivenUp
<1>5. kind \in Kind BY <1>1, <1>2 DEF Kind
<1>6. thread[i] \in Live => kind = "timeout" \/ someDiscarded' \/ stop BY <1>1, <1>4
<1> HIDE DEF kind, stopped
<1>7. next \in lo .. hi /\ Segment(lo, hi) /\ next \in Nat /\ lo \in Nat /\ hi \in Nat /\ started \in Nat
      /\ hi <= N /\ lo .. hi \subseteq Actions /\ MaxParallel \in Nat /\ N \in Nat /\ Actions = 1 .. N
      BY <1>1, <1>2, Facts
<1>8. /\ completed' \in Seq(Actions \X Kind) /\ Len(completed') = next
      /\ \A k \in 1 .. Len(completed') : completed'[k][1] = k
      /\ \A k \in 1 .. next - 1 : completed'[k] = completed[k]
      /\ completed'[next] = <<next, kind>>
      /\ \A k, j \in 1 .. Len(completed') :
           Discarded(k)' /\ First(k)' < First(j)' => Discarded(j)'
      /\ \A k \in 1 .. Len(completed') : completed'[k] \in Actions \X Kind
      BY <1>1, <1>5, <1>7, AppendKeepsOrder
<1>9. /\ updates' \in Seq(Update') /\ LimitKept'
      /\ \A k \in 1 .. Len(updates') : updates'[k] \in (lo' .. hi') \X (Kind \cup {"start"})
      BY <1>1, QueueAndLimitKept DEF sharedVars
<1>10. TypeOK'
  <2>1. next' \in 1 .. N + 1 BY <1>1, <1>7
  <2>2. /\ DOMAIN pend' \subseteq lo .. hi /\ \A j \in DOMAIN pend' : pend'[j] \in Kind
        BY <1>1, <1>2
  <2>3. interrupted' \in BOOLEAN /\ someDiscarded' \in BOOLEAN BY <1>1, <1>2 DEF stopped
  <2> QED BY <1>1, <1>8, <1>9, <2>1, <2>2, <2>3 DEF IInv, TypeOK, sharedVars
<1>11. Place'
  <2>1. next' <= hi + 1 /\ lo <= next' BY <1>1, <1>7
  <2>2. lo \notin discarded => started <= next + MaxParallel BY <1>3 DEF IInv, Place
  <2>3. lo \notin discarded => started <= next' + MaxParallel /\ started < next' + MaxParallel
        BY <1>1, <1>7, <2>2
  <2>4. lo <= started /\ started <= hi + 1 /\ lo \in safe BY <1>3 DEF IInv, Place
  <2> QED BY <1>1, <1>3, <1>7, <2>1, <2>3, <2>4, SamePartition DEF Place, sharedVars
<1>12. InSourceOrder' BY <1>1, <1>7, <1>8 DEF InSourceOrder
<1>13. Threads'
  <2>1. /\ (\A j \in Actions : j > hi => thread[j] = "none")'
        /\ (\A j \in started .. hi : thread[j] = "none")'
        /\ (\A j \in Actions : thread[j] \in Live => j \in safe \/ (pc = "tool" /\ j = next))'
        /\ (\A j \in Actions : thread[j] \in {"returned", "finished"} => outcome[j] \in {"ok", "failed"})'
        BY <1>1, <1>3 DEF IInv, Threads, Live, sharedVars
  <2>2. ASSUME lo \notin discarded, NEW j \in lo .. hi, j < next' \/ j \in DOMAIN pend'
        PROVE  thread[j] \notin Live \cup {"none"}
    <3>1. j < next \/ j \in DOMAIN pend BY <1>1, <1>7, <2>2
    <3> QED BY <1>3, <2>2, <3>1 DEF IInv, Threads
  <2> QED BY <1>1, <1>3, <2>1, <2>2 DEF Threads, Live, sharedVars
<1>14. GivenUp'
  <2>1. ASSUME NEW j \in 1 .. lo - 1, thread[j] \in Live
        PROVE  TimedOut(j)' \/ discardRemaining \/ stop
    <3>1. TimedOut(j) \/ discardRemaining \/ stop BY <1>3, <2>1 DEF IInv, GivenUp
    <3>2. j \in 1 .. next - 1 BY <1>7
    <3> QED BY <1>8, <3>1, <3>2 DEF TimedOut
  <2>2. ASSUME NEW j \in lo .. next, thread[j] \in Live
        PROVE  TimedOut(j)' \/ someDiscarded' \/ stop
    <3>1. CASE j = next BY <1>1, <1>6, <1>8, <2>2, <3>1 DEF TimedOut
    <3>2. CASE j # next
      <4>1. j \in lo .. next - 1 /\ j \in 1 .. next - 1 BY <1>7, <3>2, Facts, <1>1
      <4>2. TimedOut(j) \/ someDiscarded \/ stop BY <1>3, <2>2, <4>1 DEF IInv, GivenUp
      <4> QED BY <1>1, <1>8, <4>1, <4>2 DEF TimedOut
    <3> QED BY <3>1, <3>2
  <2>3. ASSUME NEW j \in DOMAIN pend', j >= next', thread[j] \in Live
        PROVE  pend'[j] \in {"timeout", "discarded"} \/ stop
    <3>1. j \in DOMAIN pend /\ pend'[j] = pend[j] /\ j >= next BY <1>1, <1>2, <1>7, <2>3
    <3> QED BY <1>3, <2>3, <3>1 DEF IInv, GivenUp
  <2>4. ~discardRemaining BY <1>3 DEF IInv, GivenUp
  <2>5. interrupted' => stop BY <1>1, <1>4 DEF stopped
  <2>6. next' - 1 = next BY <1>1, <1>7
  <2> QED BY <1>1, <1>3, <2>1, <2>2, <2>3, <2>4, <2>5, <2>6 DEF GivenUp, Live, sharedVars
<1>15. DiscardsNoted'
  <2>1. ASSUME NEW j \in 1 .. lo - 1 PROVE ~Discarded(j)'
    <3>1. ~Discarded(j) BY <1>1 DEF IInv, DiscardsNoted
    <3>2. j \in 1 .. next - 1 BY <1>7
    <3> QED BY <1>8, <3>1, <3>2 DEF Discarded
  <2>2. ASSUME NEW j \in lo .. next, Discarded(j)' PROVE someDiscarded'
    <3>1. CASE j = next
      <4>1. completed'[next][2] = "discarded" BY <2>2, <3>1 DEF Discarded
      <4>2. kind = "discarded" BY <1>8, <4>1
      <4> QED BY <1>1, <4>2
    <3>2. CASE j # next
      <4>1. j \in lo .. next - 1 /\ j \in 1 .. next - 1 BY <1>7, <3>2, Facts, <1>1
      <4>2. Discarded(j) BY <1>8, <2>2, <4>1 DEF Discarded
      <4> QED BY <1>1, <1>3, <4>1, <4>2 DEF IInv, DiscardsNoted
    <3> QED BY <3>1, <3>2
  <2>3. next' - 1 = next BY <1>1, <1>7
  <2> QED BY <1>1, <1>3, <1>8, <2>1, <2>2, <2>3 DEF DiscardsNoted
<1> QED BY <1>9, <1>10, <1>11, <1>12, <1>13, <1>14, <1>15 DEF IInv

LEMMA EndParallelKeeps ==
  ASSUME IInv, EndParallel
  PROVE  IInv'
<1>1. /\ pc = "deliver" /\ next > hi /\ pc' = "pick"
      /\ discardRemaining' = (discardRemaining \/ someDiscarded)
      /\ UNCHANGED <<safe, stop, lo, hi, started, next, pend, updates, completed, interrupted,
                     someDiscarded, sharedVars>>
      BY DEF EndParallel, DiscardsRest, batchVars
<1>2. Parallel /\ ~Parallel' /\ ~Serial' /\ ~Serial BY <1>1 DEF Parallel, Serial
<1>3. /\ Segment(lo, hi) /\ lo \in Nat /\ hi \in Nat /\ next = hi + 1 /\ lo > 0 /\ lo <= hi
  <2>1. /\ Segment(lo, hi) /\ lo \in Actions /\ hi \in lo .. N /\ next \in lo .. hi + 1
        /\ Actions = 1 .. N /\ N \in Nat
        BY <1>1, Facts
  <2>2. next > hi BY <1>1
  <2> QED BY <2>1, <2>2
<1>4. /\ updates' \in Seq(Update') /\ LimitKept'
      /\ \A k \in 1 .. Len(updates') : updates'[k] \in (lo' .. hi') \X (Kind \cup {"start"})
      BY <1>1, QueueAndLimitKept DEF sharedVars
<1>5. TypeOK' BY <1>1, <1>4 DEF IInv, TypeOK, sharedVars
<1>6. Place' BY <1>1, <1>2, <1>3, SamePartition DEF Place
<1>7. InSourceOrder' BY <1>1, <1>3 DEF IInv, InSourceOrder
<1>8. Threads' BY <1>1, <1>2 DEF IInv, Threads, Live, sharedVars
<1>9. \A j \in 1 .. hi : j \in 1 .. lo - 1 \/ j \in lo .. next - 1 BY <1>3
<1>10. GivenUp'
  <2>1. ASSUME NEW j \in 1 .. hi, thread[j] \in Live
        PROVE  TimedOut(j) \/ discardRemaining \/ someDiscarded \/ stop
        BY <1>2, <1>9, <2>1 DEF IInv, GivenUp
  <2> QED BY <1>1, <1>2, <2>1 DEF GivenUp, TimedOut, Live, sharedVars
<1>11. DiscardsNoted'
  <2>1. ASSUME NEW j \in 1 .. hi, Discarded(j) PROVE someDiscarded
        BY <1>1, <1>2, <1>9, <2>1 DEF IInv, DiscardsNoted
  <2>2. \A i, j \in 1 .. Len(completed) : Discarded(i) /\ First(i) < First(j) => Discarded(j)
        BY DEF IInv, DiscardsNoted
  <2>3. (\A i, j \in 1 .. Len(completed) : Discarded(i) /\ First(i) < First(j) => Discarded(j))'
        BY <1>1, <2>2, SamePartition DEF Discarded
  <2>4. (pc = "pick" => \A i \in 1 .. hi : Discarded(i) => discardRemaining)'
        BY <1>1, <2>1 DEF Discarded
  <2> QED BY <1>1, <1>2, <2>3, <2>4 DEF DiscardsNoted
<1> QED BY <1>4, <1>5, <1>6, <1>7, <1>8, <1>10, <1>11 DEF IInv

LEMMA StopAndDoneKeep ==
  ASSUME IInv, Stop \/ Done \/ UNCHANGED vars
  PROVE  IInv'
<1>1. /\ UNCHANGED <<safe, lo, hi, started, next, pend, updates, completed, interrupted,
                     someDiscarded, discardRemaining, sharedVars>>
      /\ stop' \in BOOLEAN /\ (stop => stop')
      BY DEF Stop, Done, vars, batchVars, resultVars, sharedVars, IInv, TypeOK
<1>2. pc' = pc \/ (pc = "pick" /\ pc' = "done" /\ hi = N)
      BY DEF Stop, Done, vars
<1>3. pc' \in {"pick", "serial", "dispatch", "tool", "get", "poll", "deliver", "advance",
               "done", "raised"}
      BY <1>2 DEF IInv, TypeOK
<1>4. pc' # pc => pc = "pick" /\ pc' = "done" /\ hi = N /\ ~Parallel /\ ~Parallel' /\ ~Serial /\ ~Serial'
      BY <1>2 DEF Parallel, Serial
<1>5. (Parallel' <=> Parallel) /\ (Serial' <=> Serial) BY <1>4 DEF Parallel, Serial
<1>6. /\ updates' \in Seq(Update') /\ LimitKept'
      /\ \A k \in 1 .. Len(updates') : updates'[k] \in (lo' .. hi') \X (Kind \cup {"start"})
      BY <1>1, QueueAndLimitKept DEF sharedVars
<1>7. TypeOK' BY <1>1, <1>3, <1>6 DEF IInv, TypeOK, sharedVars
<1>8. Place'
  <2>1. hi = N => hi # 0 BY NIsNat
  <2>2. pc' # pc => Segment(lo, hi) BY <1>4, <2>1, Facts
  <2> QED BY <1>1, <1>2, <1>4, <1>5, <2>2, SamePartition DEF IInv, Place, sharedVars
<1>9. InSourceOrder' BY <1>1, <1>2 DEF IInv, InSourceOrder
<1>10. Threads' BY <1>1, <1>2, <1>5 DEF IInv, Threads, Live, sharedVars
<1>11. GivenUp' BY <1>1, <1>2, <1>5 DEF IInv, GivenUp, TimedOut, Live, sharedVars
<1>12. DiscardsNoted'
  <2>1. \A i, j \in 1 .. Len(completed) : Discarded(i) /\ First(i) < First(j) => Discarded(j)
        BY DEF IInv, DiscardsNoted
  <2> QED BY <1>1, <1>2, <1>5, <2>1, SamePartition DEF IInv, DiscardsNoted, Discarded
<1> QED BY <1>6, <1>7, <1>8, <1>9, <1>10, <1>11, <1>12 DEF IInv
-----------------------------------------------------------------------------
(* A set of consecutive actions, no more than the limit.                    *)
LEMMA SpanWithinLimit ==
  ASSUME NEW T, NEW m \in Nat, NEW n \in Nat, T \subseteq m .. n, n < m + MaxParallel
  PROVE  IsFiniteSet(T) /\ Cardinality(T) <= MaxParallel
<1>1. IsFiniteSet(m .. n) /\ Cardinality(m .. n) = IF m > n THEN 0 ELSE n - m + 1
      BY FS_Interval
<1>2. IsFiniteSet(T) /\ Cardinality(T) <= Cardinality(m .. n) BY <1>1, FS_Subset
<1>3. Cardinality(T) \in Nat BY <1>2, FS_CardinalityType
<1> QED BY <1>1, <1>2, <1>3, NIsNat

(* The threads of the other sub-batches count for themselves.               *)
LEMMA LimitOfOne ==
  ASSUME LimitKept, safe' = safe, NEW a \in Actions, NEW T,
         IsFiniteSet(T), Cardinality(T) <= MaxParallel, LiveOf(a)' \subseteq T,
         \A i \in Actions : First(i) # a /\ thread'[i] \in Live => thread[i] \in Live
  PROVE  LimitKept'
<1> SUFFICES ASSUME NEW c \in Actions PROVE Cardinality(LiveOf(c)') <= MaxParallel
  BY DEF LimitKept
<1>1. CASE c = a
  <2>1. IsFiniteSet(LiveOf(a)') /\ Cardinality(LiveOf(a)') <= Cardinality(T) BY FS_Subset
  <2>2. Cardinality(LiveOf(a)') \in Nat /\ Cardinality(T) \in Nat BY <2>1, FS_CardinalityType
  <2> QED BY <1>1, <2>1, <2>2, NIsNat
<1>2. CASE c # a
  <2>1. LiveOf(c)' \subseteq LiveOf(c) BY <1>2, SamePartition DEF LiveOf, Live
  <2>2. IsFiniteSet(LiveOf(c))
    <3>1. IsFiniteSet(Actions) BY NIsNat, FS_Interval DEF Actions
    <3>2. LiveOf(c) \in SUBSET Actions BY DEF LiveOf
    <3> QED BY <3>1, <3>2, FS_Subset
  <2>3. IsFiniteSet(LiveOf(c)') /\ Cardinality(LiveOf(c)') <= Cardinality(LiveOf(c))
        BY <2>1, <2>2, FS_Subset
  <2>4. Cardinality(LiveOf(c)) <= MaxParallel BY DEF LimitKept
  <2>5. Cardinality(LiveOf(c)) \in Nat /\ Cardinality(LiveOf(c)') \in Nat
        BY <2>2, <2>3, FS_CardinalityType
  <2> QED BY <2>3, <2>4, <2>5, NIsNat
<1> QED BY <1>1, <1>2

(* After a delivery nothing more is started ...                             *)
LEMMA AdvanceDiscardingKeeps ==
  ASSUME IInv, Advance, lo \in sibling \cup discarded
  PROVE  IInv'
<1>1. /\ pc = "advance" /\ pc' = "deliver"
      /\ discarded' = discarded \cup {lo}
      /\ pend' = Waiting([i \in started .. hi |-> "discarded"])
      /\ started' = hi + 1
      /\ UNCHANGED <<safe, stop, lo, hi, next, updates, completed, interrupted, someDiscarded,
                     discardRemaining, sibling, flagged, finished, thread, outcome>>
      BY DEF Advance, resultVars
<1>2. Parallel /\ Parallel' /\ ~Serial' BY <1>1 DEF Parallel, Serial
<1>3. /\ lo \in Actions /\ Segment(lo, hi) /\ lo <= hi /\ lo \in Nat /\ hi \in Nat /\ hi <= N
      /\ started \in Nat /\ N \in Nat
  <2>1. lo \in Actions /\ Segment(lo, hi) /\ hi \in lo .. N /\ Actions = 1 .. N /\ N \in Nat
        /\ started \in 1 .. N + 1
        BY <1>1, Facts
  <2> QED BY <2>1
<1>4. lo <= started BY <1>2 DEF IInv, Place
<1>5. /\ DOMAIN pend' = DOMAIN pend \cup started .. hi
      /\ \A i \in DOMAIN pend' : pend'[i] = "discarded" \/ (i \in DOMAIN pend /\ pend'[i] = pend[i])
      BY <1>1 DEF Waiting
<1>6. /\ updates' \in Seq(Update') /\ LimitKept'
      /\ \A k \in 1 .. Len(updates') : updates'[k] \in (lo' .. hi') \X (Kind \cup {"start"})
      BY <1>1, QueueAndLimitKept
<1>7. TypeOK'
  <2>1. started' \in 1 .. N + 1 BY <1>1, <1>3
  <2>2. DOMAIN pend' \subseteq lo .. hi
    <3>1. DOMAIN pend \subseteq lo .. hi BY DEF IInv, TypeOK
    <3>2. started .. hi \subseteq lo .. hi BY <1>3, <1>4
    <3> QED BY <1>5, <3>1, <3>2
  <2>3. \A i \in DOMAIN pend' : pend'[i] \in Kind BY <1>5 DEF IInv, TypeOK, Kind
  <2>4. discarded' \subseteq Actions BY <1>1, <1>3 DEF IInv, TypeOK
  <2> QED BY <1>1, <1>6, <2>1, <2>2, <2>3, <2>4 DEF IInv, TypeOK
<1>8. Place'
  <2>1. lo <= started' /\ started' <= hi + 1 BY <1>1, <1>3
  <2> QED BY <1>1, <1>2, <2>1, SamePartition DEF IInv, Place
<1>9. InSourceOrder' BY <1>1 DEF IInv, InSourceOrder
<1>10. Threads'
  <2>1. \A j \in started' .. hi : FALSE BY <1>1, <1>3
  <2> QED BY <1>1, <1>2, <2>1 DEF IInv, Threads, Live
<1>11. GivenUp' BY <1>1, <1>2, <1>5 DEF IInv, GivenUp, TimedOut, Live
<1>12. DiscardsNoted'
  <2>1. \A i, j \in 1 .. Len(completed) : Discarded(i) /\ First(i) < First(j) => Discarded(j)
        BY DEF IInv, DiscardsNoted
  <2>2. (\A i, j \in 1 .. Len(completed) : Discarded(i) /\ First(i) < First(j) => Discarded(j))'
        BY <1>1, <2>1, SamePartition DEF Discarded
  <2> QED BY <1>1, <1>2, <2>2 DEF IInv, DiscardsNoted, Discarded
<1> QED BY <1>6, <1>7, <1>8, <1>9, <1>10, <1>11, <1>12 DEF IInv

(* ... or the next action gets its thread.                                  *)
LEMMA AdvanceStartingKeeps ==
  ASSUME IInv, Advance, lo \notin sibling \cup discarded
  PROVE  IInv'
<1>1. /\ pc = "advance" /\ pc' = "deliver"
      /\ started' = IF started <= hi THEN started + 1 ELSE started
      /\ thread' = [i \in Actions |-> IF i = started /\ i <= hi THEN "new" ELSE thread[i]]
      /\ UNCHANGED <<safe, stop, lo, hi, next, pend, updates, completed, interrupted,
                     someDiscarded, discardRemaining, discarded, sibling, flagged, finished,
                     outcome>>
      BY DEF Advance, resultVars
<1>2. Parallel /\ Parallel' /\ ~Serial' BY <1>1 DEF Parallel, Serial
<1>3. /\ lo \in Actions /\ Segment(lo, hi) /\ lo <= hi /\ lo \in Nat /\ hi \in Nat /\ hi <= N
      /\ started \in Nat /\ N \in Nat /\ next \in Nat /\ Actions = 1 .. N /\ MaxParallel \in Nat
      /\ lo <= next /\ thread \in [Actions -> ThreadState] /\ lo .. hi \subseteq Actions
  <2>1. lo \in Actions /\ Segment(lo, hi) /\ hi \in lo .. N /\ Actions = 1 .. N /\ N \in Nat
        /\ started \in 1 .. N + 1 /\ next \in lo .. hi + 1 /\ MaxParallel \in Nat
        /\ thread \in [Actions -> ThreadState] /\ lo .. hi \subseteq Actions
        BY <1>1, Facts
  <2> QED BY <2>1
<1>4. lo <= started /\ started <= hi + 1 /\ lo \in safe /\ started < next + MaxParallel
      BY <1>1, <1>2 DEF IInv, Place
<1>5. /\ \A i \in Actions : i # started \/ i > hi => thread'[i] = thread[i]
      /\ started <= hi => started \in lo .. hi /\ started \in Actions /\ thread'[started] = "new"
                          /\ thread[started] = "none"
  <2>1. \A i \in Actions : i # started \/ i > hi => thread'[i] = thread[i]
        BY <1>1, <1>3
  <2>2. ASSUME started <= hi
        PROVE  started \in lo .. hi /\ started \in Actions /\ thread'[started] = "new"
               /\ thread[started] = "none"
    <3>1. started \in lo .. hi /\ started \in started .. hi BY <1>3, <1>4, <2>2
    <3>2. started \in Actions BY <1>3, <3>1
    <3>3. thread[started] = "none" BY <1>2, <3>1 DEF IInv, Threads
    <3> QED BY <1>1, <2>2, <3>1, <3>2, <3>3
  <2> QED BY <2>1, <2>2
<1>6. thread' \in [Actions -> ThreadState]
  <2>1. \A i \in Actions : thread[i] \in ThreadState BY <1>3
  <2>2. "new" \in ThreadState BY DEF ThreadState
  <2> QED BY <1>1, <2>1, <2>2
<1>7. \A i \in Actions : thread[i] # "none" => thread'[i] = thread[i] BY <1>3, <1>5
<1>8. updates' \in Seq(Update')
      /\ \A k \in 1 .. Len(updates') : updates'[k] \in (lo' .. hi') \X (Kind \cup {"start"})
  <2>1. Onward BY <1>7 DEF Onward
  <2>2. updates' \in Seq(Update') BY <1>1, <2>1, QueueKept DEF IInv
  <2>3. Update' \subseteq (lo' .. hi') \X (Kind \cup {"start"}) BY DEF Update
  <2> QED BY <2>2, <2>3, ElementOfSeq
<1>9. TypeOK'
  <2>1. started' \in 1 .. N + 1 BY <1>1, <1>3, <1>4
  <2> QED BY <1>1, <1>6, <1>8, <2>1 DEF IInv, TypeOK, ThreadState
<1>10. Place'
  <2>1. lo <= started' /\ started' <= hi + 1 /\ started' <= next + MaxParallel
        BY <1>1, <1>3, <1>4
  <2> QED BY <1>1, <1>2, <1>4, <2>1, SamePartition DEF IInv, Place
<1>11. InSourceOrder' BY <1>1 DEF IInv, InSourceOrder
<1>12. \A i \in lo .. hi : i < next \/ i \in DOMAIN pend =>
          /\ thread[i] \notin Live \cup {"none"} /\ thread'[i] = thread[i]
  <2>1. \A i \in lo .. hi : i < next \/ i \in DOMAIN pend => thread[i] \notin Live \cup {"none"}
        BY <1>2 DEF IInv, Threads
  <2> QED BY <1>3, <1>7, <2>1
<1>13. \A i \in started' .. hi : i \in Actions /\ thread'[i] = "none"
  <2> SUFFICES ASSUME NEW i \in started' .. hi PROVE i \in Actions /\ thread'[i] = "none"
      OBVIOUS
  <2>1. i \in lo .. hi /\ i \in started .. hi /\ i # started BY <1>1, <1>3, <1>4
  <2>2. thread[i] = "none" /\ i \in Actions BY <1>2, <1>3, <2>1 DEF IInv, Threads
  <2> QED BY <1>5, <2>1, <2>2
<1>14. Threads'
  <2>1. (\A i \in Actions : i > hi => thread[i] = "none")'
    <3>1. \A i \in Actions : i > hi => thread[i] = "none" BY DEF IInv, Threads
    <3> QED BY <1>1, <1>5, <3>1
  <2>2. (\A i \in Actions : thread[i] \in Live => i \in safe)'
    <3> SUFFICES ASSUME NEW i \in Actions, thread'[i] \in Live PROVE i \in safe
        BY <1>1 DEF Live
    <3>1. CASE thread'[i] = thread[i] BY <1>1, <3>1 DEF IInv, Threads
    <3>2. CASE i = started /\ started <= hi
      <4>1. i \in lo .. hi BY <1>5, <3>2
      <4> QED BY <1>3, <1>4, <4>1 DEF Segment, Together
    <3> QED BY <1>3, <1>5, <3>1, <3>2
  <2>3. (\A i \in Actions : thread[i] \in {"returned", "finished"} => outcome[i] \in {"ok", "failed"})'
    <3> SUFFICES ASSUME NEW i \in Actions, thread'[i] \in {"returned", "finished"}
                 PROVE  thread[i] = thread'[i]
        BY <1>1 DEF IInv, Threads
    <3> QED BY <1>1
  <2> QED BY <1>1, <1>2, <1>12, <1>13, <2>1, <2>2, <2>3 DEF Threads, Live
<1>15. GivenUp'
  <2>1. \A i \in 1 .. lo - 1 : i \in Actions /\ i # started BY <1>3, <1>4
  <2>2. \A i \in 1 .. lo - 1 : thread'[i] = thread[i] BY <1>5, <2>1
  <2>3. \A i \in lo .. next - 1 : thread'[i] \notin Live
    <3>1. \A i \in lo .. next - 1 : i \in lo .. hi /\ i < next
      <4>1. next <= hi + 1 BY <1>1 DEF IInv, Place
      <4> QED BY <1>3, <4>1
    <3> QED BY <1>12, <3>1
  <2>4. \A i \in DOMAIN pend : thread'[i] \notin Live
    <3>1. DOMAIN pend \subseteq lo .. hi BY DEF IInv, TypeOK
    <3> QED BY <1>12, <3>1
  <2> QED BY <1>1, <1>2, <2>2, <2>3, <2>4 DEF IInv, GivenUp, TimedOut, Live
<1>16. DiscardsNoted'
  <2>1. \A i, j \in 1 .. Len(completed) : Discarded(i) /\ First(i) < First(j) => Discarded(j)
        BY DEF IInv, DiscardsNoted
  <2>2. (\A i, j \in 1 .. Len(completed) : Discarded(i) /\ First(i) < First(j) => Discarded(j))'
        BY <1>1, <2>1, SamePartition DEF Discarded
  <2> QED BY <1>1, <1>2, <2>2 DEF IInv, DiscardsNoted, Discarded
<1>17. LimitKept'
  <2>5. /\ lo \in Nat /\ hi \in Nat /\ next \in Nat /\ MaxParallel \in Nat
        /\ started \in Nat /\ started' \in Nat /\ started' <= started + 1 /\ started' >= 1
        BY <1>1, <1>3, <1>4
  <2>6. started < next + MaxParallel BY <1>4
  <2>7. PICK m \in Nat : started' = m + 1
    <3>1. CASE started <= hi BY <1>1, <2>5, <3>1
    <3>2. CASE ~(started <= hi)
      <4>1. started - 1 \in Nat /\ started' = (started - 1) + 1
            BY <1>1, <1>3, <1>4, <2>5, <3>2
      <4> QED BY <4>1
    <3> QED BY <3>1, <3>2
  <2>8. m < next + MaxParallel BY <2>5, <2>6, <2>7
  <2>1. LiveOf(lo)' \subseteq next .. m
    <3> SUFFICES ASSUME NEW i \in Actions, thread'[i] \in Live, First(i) = lo
                 PROVE  i \in next .. m
        BY <1>1, SamePartition DEF LiveOf, Live
    <3>1. i \in lo .. hi BY <1>3, FirstInSegment
    <3>2. ~(i < next) BY <1>12, <3>1
    <3>3. i \notin started' .. hi BY <1>13 DEF Live
    <3> QED BY <2>5, <2>7, <3>1, <3>2, <3>3
  <2>3. /\ IsFiniteSet(next .. m) /\ Cardinality(next .. m) <= MaxParallel
        BY <2>5, <2>8, SpanWithinLimit
  <2>4. \A i \in Actions : First(i) # lo /\ thread'[i] \in Live => thread[i] \in Live
    <3> SUFFICES ASSUME NEW i \in Actions, First(i) # lo PROVE thread'[i] = thread[i]
        OBVIOUS
    <3>1. i \notin lo .. hi BY <1>3, FirstInSegment
    <3> QED BY <1>3, <1>5, <3>1
  <2> QED BY <1>1, <1>3, <2>1, <2>3, <2>4, LimitOfOne DEF IInv
<1> QED BY <1>8, <1>9, <1>10, <1>11, <1>14, <1>15, <1>16, <1>17 DEF IInv
-----------------------------------------------------------------------------
(* A new sub-batch: nothing of the one before it is in the queue.           *)
LEMMA StartParallelKeeps ==
  ASSUME IInv, NEW a \in Actions, NEW b \in Actions, StartParallel(a, b)
  PROVE  IInv'
<1> DEFINE T == FirstThreads(a, b)
<1>1. /\ Batch(a, b) /\ ~discardRemaining /\ a \in safe /\ a < b
      /\ pc = "pick" /\ pc' = "get"
      /\ lo' = a /\ hi' = b /\ pend' = <<>> /\ updates' = <<>>
      /\ next' = a
      /\ started' = a + Cardinality(T)
      /\ thread' = [i \in Actions |-> IF i \in T THEN "new" ELSE thread[i]]
      /\ interrupted' = FALSE /\ someDiscarded' = FALSE
      /\ UNCHANGED <<safe, stop, completed, discardRemaining, discarded, sibling, flagged,
                     finished, outcome>>
      BY DEF StartParallel, Batch, SubBatch
<1>2. Parallel' /\ ~Serial' BY <1>1 DEF Parallel, Serial
<1>3. Segment(a, b) /\ a = hi + 1 BY <1>1, NextSegment DEF IInv
<1>4. /\ N \in Nat /\ Actions = 1 .. N /\ MaxParallel \in Nat \ {0} /\ a \in Nat /\ b \in Nat
      /\ b <= N /\ hi \in Nat /\ a >= 1 /\ thread \in [Actions -> ThreadState]
      BY Facts
<1>5. T \subseteq Actions /\ T \subseteq a .. b /\ \A i \in T : i < a + MaxParallel
      BY <1>4 DEF FirstThreads
<1>6. /\ IsFiniteSet(T) /\ Cardinality(T) <= MaxParallel /\ Cardinality(T) \in Nat
      /\ a + Cardinality(T) <= b + 1
      /\ \A i \in a .. b : i >= a + Cardinality(T) => i \notin T
  <2>1. CASE b < a + MaxParallel
    <3>1. T = a .. b BY <1>4, <2>1 DEF FirstThreads
    <3>2. IsFiniteSet(T) /\ Cardinality(T) = b - a + 1
      <4>1. a \in Int /\ b \in Int /\ ~(a > b) BY <1>1, <1>4
      <4> QED BY <3>1, <4>1, FS_Interval
    <3>3. a + Cardinality(T) = b + 1 /\ Cardinality(T) \in Nat BY <1>1, <1>4, <3>2, SMTT(40)
    <3> QED BY <1>1, <1>4, <2>1, <3>2, <3>3
  <2>2. CASE b >= a + MaxParallel
    <3>1. T = a .. (a + MaxParallel) - 1 BY <1>4, <2>2 DEF FirstThreads
    <3>2. IsFiniteSet(T) /\ Cardinality(T) = MaxParallel
      <4>1. a \in Int /\ (a + MaxParallel) - 1 \in Int /\ ~(a > (a + MaxParallel) - 1)
            /\ ((a + MaxParallel) - 1) - a + 1 = MaxParallel
            BY <1>4
      <4> QED BY <3>1, <4>1, FS_Interval
    <3>3. \A i \in a .. b : i >= a + MaxParallel => i \notin T BY <1>4, <1>5
    <3>4. a + MaxParallel <= b + 1 BY <1>4, <2>2
    <3> QED BY <1>4, <3>2, <3>3, <3>4
  <2> QED BY <1>4, <2>1, <2>2
<1>7. /\ \A i \in Actions \ T : thread'[i] = thread[i]
      /\ \A i \in T : thread'[i] = "new"
      BY <1>1, <1>5
<1> HIDE DEF T
<1>8. thread' \in [Actions -> ThreadState] BY <1>1, <1>4 DEF ThreadState
<1>9. TypeOK'
  <2>1. lo' \in 0 .. N /\ hi' \in 0 .. N /\ next' \in 1 .. N + 1 /\ started' \in 1 .. N + 1
        BY <1>1, <1>4, <1>6
  <2>2. DOMAIN pend' = {} /\ \A k \in 1 .. Len(updates') : FALSE BY <1>1
  <2> QED BY <1>1, <1>8, <2>1, <2>2 DEF IInv, TypeOK, ThreadState
<1>10. Place'
  <2>1. a <= started' /\ started' <= b + 1 /\ started' <= a + MaxParallel BY <1>1, <1>4, <1>6
  <2>2. a <= a /\ a <= b + 1 BY <1>1, <1>4
  <2> QED BY <1>1, <1>2, <1>3, <2>1, <2>2, SamePartition DEF Place
<1>11. InSourceOrder' BY <1>1, <1>3, <1>4 DEF IInv, InSourceOrder
<1>12. updates' \in Seq(Update') BY <1>1, EmptySeq
<1>13. \A i \in Actions : i > hi => thread[i] = "none" BY DEF IInv, Threads
<1>14. \A i \in 1 .. hi : i \in Actions /\ thread'[i] = thread[i] BY <1>3, <1>4, <1>5, <1>7
<1>15. Threads'
  <2>1. (\A i \in Actions : i > hi => thread[i] = "none")'
        BY <1>1, <1>3, <1>4, <1>5, <1>7, <1>13
  <2>2. (\A i \in started .. hi : thread[i] = "none")'
    <3> SUFFICES ASSUME NEW i \in started' .. b PROVE thread'[i] = "none" BY <1>1
    <3>1. i \in a .. b /\ i >= a + Cardinality(T) /\ i \in Actions /\ i > hi
          BY <1>1, <1>3, <1>4, <1>6
    <3> QED BY <1>6, <1>7, <1>13, <3>1
  <2>3. (\A i \in Actions : thread[i] \in Live => i \in safe)'
    <3> SUFFICES ASSUME NEW i \in Actions, thread'[i] \in Live PROVE i \in safe
        BY <1>1 DEF Live
    <3>1. CASE i \in T BY <1>1, <1>3, <1>5, <3>1 DEF Segment, Together
    <3>2. CASE i \notin T BY <1>1, <1>7, <3>2 DEF IInv, Threads
    <3> QED BY <3>1, <3>2
  <2>4. (\A i \in Actions : thread[i] \in {"returned", "finished"} => outcome[i] \in {"ok", "failed"})'
    <3> SUFFICES ASSUME NEW i \in Actions, thread'[i] \in {"returned", "finished"}
                 PROVE  thread[i] = thread'[i]
        BY <1>1 DEF IInv, Threads
    <3> QED BY <1>7
  <2>5. \A i \in a .. b : ~(i < a) /\ i \notin DOMAIN pend' BY <1>1, <1>4
  <2> QED BY <1>1, <1>2, <2>1, <2>2, <2>3, <2>4, <2>5 DEF Threads
<1>16. GivenUp'
  <2>1. \A i \in 1 .. hi : thread[i] \in Live => TimedOut(i) \/ discardRemaining \/ stop
        BY <1>1 DEF IInv, GivenUp
  <2>2. (\A i \in 1 .. lo - 1 : thread[i] \in Live => TimedOut(i) \/ discardRemaining \/ stop)'
    <3>1. lo' - 1 = hi BY <1>1, <1>3, <1>4
    <3> QED BY <1>1, <1>14, <2>1, <3>1 DEF TimedOut, Live
  <2>3. \A i \in lo' .. next' - 1 : FALSE BY <1>1, <1>4
  <2>4. \A i \in DOMAIN pend' : FALSE BY <1>1
  <2> QED BY <1>1, <1>2, <2>2, <2>3, <2>4 DEF GivenUp
<1>17. DiscardsNoted'
  <2>1. (\A i, j \in 1 .. Len(completed) : Discarded(i) /\ First(i) < First(j) => Discarded(j))'
        BY <1>1, SamePartition DEF IInv, DiscardsNoted, Discarded
  <2>2. (\A i \in 1 .. lo - 1 : ~Discarded(i))'
    <3>1. lo' - 1 = hi BY <1>1, <1>3, <1>4
    <3> QED BY <1>1, <3>1 DEF IInv, DiscardsNoted, Discarded
  <2>3. \A i \in lo' .. next' - 1 : FALSE BY <1>1, <1>4
  <2> QED BY <1>1, <1>2, <2>1, <2>2, <2>3 DEF DiscardsNoted
<1>18. LimitKept'
  <2>1. LiveOf(a)' \subseteq T
    <3> SUFFICES ASSUME NEW i \in Actions, thread'[i] \in Live, First(i) = a PROVE i \in T
        BY <1>1, SamePartition DEF LiveOf, Live
    <3>1. i \in a .. b BY <1>3, FirstInSegment
    <3>2. i > hi BY <1>3, <1>4, <3>1
    <3> QED BY <1>7, <1>13, <3>2 DEF Live
  <2>2. \A i \in Actions : First(i) # a /\ thread'[i] \in Live => thread[i] \in Live
    <3> SUFFICES ASSUME NEW i \in Actions, First(i) # a PROVE thread'[i] = thread[i]
        OBVIOUS
    <3>1. i \notin a .. b BY <1>3, FirstInSegment
    <3> QED BY <1>5, <1>7, <3>1
  <2> QED BY <1>1, <1>6, <2>1, <2>2, LimitOfOne DEF IInv
<1> QED BY <1>9, <1>10, <1>11, <1>12, <1>15, <1>16, <1>17, <1>18 DEF IInv

LEMMA StartSerialKeeps ==
  ASSUME IInv, NEW a \in Actions, NEW b \in Actions, StartSerial(a, b)
  PROVE  IInv'
<1>1. /\ Batch(a, b) /\ ~discardRemaining
      /\ pc = "pick" /\ pc' = "serial"
      /\ lo' = a /\ hi' = b /\ pend' = <<>> /\ updates' = <<>>
      /\ next' = a
      /\ UNCHANGED <<safe, stop, started, completed, interrupted, someDiscarded,
                     discardRemaining, discarded, sibling, flagged, finished, thread, outcome>>
      BY DEF StartSerial, Batch, SubBatch, resultVars, sharedVars
<1>2. ~Parallel' /\ Serial' BY <1>1 DEF Parallel, Serial
<1>3. Segment(a, b) /\ a = hi + 1 BY <1>1, NextSegment DEF IInv
<1>4. /\ N \in Nat /\ Actions = 1 .. N /\ a \in Nat /\ b \in Nat /\ a <= b
      /\ b <= N /\ hi \in Nat /\ a >= 1 /\ thread \in [Actions -> ThreadState]
  <2>1. b \in a .. N BY <1>3 DEF Segment
  <2>2. /\ N \in Nat /\ Actions = 1 .. N /\ hi \in Nat /\ thread \in [Actions -> ThreadState]
        BY Facts
  <2> QED BY <2>1, <2>2
<1>5. TypeOK'
  <2>1. lo' \in 0 .. N /\ hi' \in 0 .. N /\ next' \in 1 .. N + 1 BY <1>1, <1>4
  <2>2. DOMAIN pend' = {} /\ \A k \in 1 .. Len(updates') : FALSE BY <1>1
  <2> QED BY <1>1, <2>1, <2>2 DEF IInv, TypeOK
<1>6. Place' BY <1>1, <1>2, <1>3, <1>4, SamePartition DEF Place
<1>7. InSourceOrder' BY <1>1, <1>3, <1>4 DEF IInv, InSourceOrder
<1>8. updates' \in Seq(Update') BY <1>1, EmptySeq
<1>9. \A i \in Actions : i > hi => thread[i] = "none" BY DEF IInv, Threads
<1>10. Threads'
  <2>1. \A i \in Actions : i > b => thread[i] = "none" BY <1>3, <1>4, <1>9
  <2>2. \A i \in a .. b : thread[i] = "none" BY <1>3, <1>4, <1>9
  <2>3. \A i \in a .. a - 1 : FALSE BY <1>4
  <2> QED BY <1>1, <1>2, <2>1, <2>2, <2>3 DEF IInv, Threads, Live
<1>11. hi = lo' - 1 BY <1>1, <1>3, <1>4
<1>12. \A i \in lo' .. next' - 1 : FALSE BY <1>1, <1>4
<1>13. GivenUp'
  <2>1. \A i \in 1 .. hi : thread[i] \in Live => TimedOut(i) \/ discardRemaining \/ stop
        BY <1>1 DEF IInv, GivenUp
  <2> QED BY <1>1, <1>2, <1>11, <2>1 DEF GivenUp, TimedOut, Live
<1>14. DiscardsNoted'
  <2>1. (\A i, j \in 1 .. Len(completed) : Discarded(i) /\ First(i) < First(j) => Discarded(j))'
        BY <1>1, SamePartition DEF IInv, DiscardsNoted, Discarded
  <2>2. \A i \in 1 .. hi : ~Discarded(i) BY <1>1 DEF IInv, DiscardsNoted
  <2> QED BY <1>1, <1>2, <1>11, <1>12, <2>1, <2>2 DEF DiscardsNoted, Discarded
<1>15. LimitKept' BY <1>1, LimitShrinks DEF IInv
<1> QED BY <1>5, <1>6, <1>7, <1>8, <1>10, <1>13, <1>14, <1>15 DEF IInv

LEMMA DiscardBatchKeeps ==
  ASSUME IInv, NEW a \in Actions, NEW b \in Actions, DiscardBatch(a, b)
  PROVE  IInv'
<1> DEFINE more == [k \in 1 .. b - a + 1 |-> <<hi + k, "discarded">>]
<1>1. /\ Batch(a, b) /\ discardRemaining
      /\ pc = "pick" /\ pc' = "pick"
      /\ lo' = a /\ hi' = b /\ pend' = <<>> /\ updates' = <<>>
      /\ completed' = completed \o more
      /\ UNCHANGED <<safe, stop, started, next, interrupted, someDiscarded,
                     discardRemaining, discarded, sibling, flagged, finished, thread, outcome>>
      BY DEF DiscardBatch, Batch, SubBatch, sharedVars
<1>2. ~Parallel' /\ ~Serial' BY <1>1 DEF Parallel, Serial
<1>3. Segment(a, b) /\ a = hi + 1 BY <1>1, NextSegment DEF IInv
<1>4. /\ N \in Nat /\ Actions = 1 .. N /\ a \in Nat /\ b \in Nat /\ a <= b
      /\ b <= N /\ hi \in Nat /\ a >= 1 /\ thread \in [Actions -> ThreadState]
  <2>1. b \in a .. N BY <1>3 DEF Segment
  <2>2. /\ N \in Nat /\ Actions = 1 .. N /\ hi \in Nat /\ thread \in [Actions -> ThreadState]
        BY Facts
  <2> QED BY <2>1, <2>2
<1>5. /\ completed \in Seq(Actions \X Kind) /\ Len(completed) = hi
      /\ \A k \in 1 .. Len(completed) : completed[k][1] = k
      BY <1>1 DEF IInv, InSourceOrder
<1>6. more \in Seq(Actions \X Kind) /\ Len(more) = b - hi
  <2>1. b - a + 1 \in Nat /\ b - a + 1 = b - hi BY <1>3, <1>4
  <2>2. \A k \in 1 .. b - a + 1 : <<hi + k, "discarded">> \in Actions \X Kind
        BY <1>3, <1>4 DEF Kind
  <2> QED BY <2>1, <2>2
<1>7. /\ completed' \in Seq(Actions \X Kind) /\ Len(completed') = b
      /\ \A k \in 1 .. hi : completed'[k] = completed[k]
      /\ \A k \in hi + 1 .. b : completed'[k] = <<k, "discarded">>
  <2>1. completed' \in Seq(Actions \X Kind) /\ Len(completed') = b
    <3> HIDE DEF more
    <3>1. completed' \in Seq(Actions \X Kind) /\ Len(completed') = Len(completed) + Len(more)
          BY <1>1, <1>5, <1>6, ConcatProperties
    <3> QED BY <1>4, <1>5, <1>6, <3>1
  <2>2. \A k \in 1 .. hi : completed'[k] = completed[k]
    <3>1. \A k \in 1 .. hi : k \in 1 .. Len(completed) + Len(more) /\ k <= Len(completed)
          BY <1>4, <1>5, <1>6
    <3> HIDE DEF more
    <3> QED BY <1>1, <1>5, <1>6, <3>1, ConcatProperties
  <2>3. ASSUME NEW k \in hi + 1 .. b PROVE completed'[k] = <<k, "discarded">>
    <3>1. k - hi \in 1 .. b - a + 1 /\ hi + (k - hi) = k BY <1>3, <1>4
    <3>2. completed'[k] = more[k - hi]
      <4>1. k \in 1 .. Len(completed) + Len(more) /\ ~(k <= Len(completed))
            BY <1>4, <1>5, <1>6
      <4> HIDE DEF more
      <4> QED BY <1>1, <1>5, <1>6, <4>1, ConcatProperties
    <3> QED BY <3>1, <3>2
  <2> QED BY <2>1, <2>2, <2>3
<1> HIDE DEF more
<1>8. \A k \in 1 .. b : k \in 1 .. hi \/ k \in hi + 1 .. b BY <1>4
<1>9. \A k \in 1 .. b : completed'[k][1] = k BY <1>5, <1>7, <1>8
<1>10. TypeOK'
  <2>1. lo' \in 0 .. N /\ hi' \in 0 .. N BY <1>1, <1>4
  <2>2. DOMAIN pend' = {} /\ \A k \in 1 .. Len(updates') : FALSE BY <1>1
  <2>3. \A k \in 1 .. Len(completed') : completed'[k] \in Actions \X Kind
        BY <1>7, ElementOfSeq
  <2> QED BY <1>1, <2>1, <2>2, <2>3 DEF IInv, TypeOK
<1>11. Place' BY <1>1, <1>2, <1>3, SamePartition DEF Place
<1>12. InSourceOrder' BY <1>1, <1>7, <1>9 DEF InSourceOrder
<1>13. updates' \in Seq(Update') BY <1>1, EmptySeq
<1>14. Threads'
  <2>1. \A i \in Actions : i > hi => thread[i] = "none" BY DEF IInv, Threads
  <2>2. \A i \in Actions : i > b => thread[i] = "none" BY <1>3, <1>4, <2>1
  <2> QED BY <1>1, <1>2, <2>2 DEF IInv, Threads, Live
<1>15. GivenUp' BY <1>1, <1>2 DEF GivenUp
<1>16. DiscardsNoted'
  <2> SUFFICES ASSUME NEW i \in 1 .. b, NEW j \in 1 .. b, Discarded(i)', First(i) < First(j)
               PROVE  Discarded(j)'
      BY <1>1, <1>2, <1>7, SamePartition DEF DiscardsNoted
  <2>1. CASE j > hi
    <3>1. j \in hi + 1 .. b BY <1>4, <2>1
    <3> QED BY <1>7, <3>1 DEF Discarded
  <2>2. CASE ~(j > hi)
    <3>1. i \in Actions /\ j \in Actions /\ j < a BY <1>3, <1>4, <2>2
    <3>2. First(j) < a BY <1>3, <3>1, FirstInSegment
    <3>3. First(i) \in 1 .. i /\ First(j) \in 1 .. j BY <3>1, FirstIsStart
    <3>4. ~(i \in a .. b)
      <4>1. i \in a .. b => First(i) = a BY <1>3, <3>1, FirstInSegment
      <4> QED BY <1>4, <3>2, <3>3, <4>1
    <3>5. i \in 1 .. hi /\ j \in 1 .. hi BY <1>3, <1>4, <2>2, <3>4
    <3>6. Discarded(i) BY <1>7, <3>5 DEF Discarded
    <3>7. Discarded(j) BY <1>5, <3>5, <3>6 DEF IInv, DiscardsNoted
    <3> QED BY <1>7, <3>5, <3>7 DEF Discarded
  <2> QED BY <2>1, <2>2
<1>17. LimitKept' BY <1>1, LimitShrinks DEF IInv
<1> QED BY <1>10, <1>11, <1>12, <1>13, <1>14, <1>15, <1>16, <1>17 DEF IInv
-----------------------------------------------------------------------------
(* The driver runs one action by itself, or says why it does not.           *)
LEMMA SerialOverKeeps ==
  ASSUME IInv, Serial, NEW kind \in Kind, SerialOver(kind),
         pc # "tool" => thread' = thread /\ outcome' = outcome,
         pc = "tool" => /\ thread' = [thread EXCEPT ![next] = "over"]
                        /\ outcome' \in [Actions -> {"none", "ok", "failed", "interrupted"}]
                        /\ \A i \in Actions \ {next} : outcome'[i] = outcome[i],
         kind \in {"discarded", "interrupted"} => stop,
         discardRemaining' = (discardRemaining \/ kind \in {"discarded", "interrupted"}),
         UNCHANGED <<discarded, sibling, flagged, finished>>
  PROVE  IInv'
<1>1. /\ completed' = Append(completed, <<next, kind>>)
      /\ next' = next + 1
      /\ pc' = IF next = hi THEN "pick" ELSE "serial"
      /\ UNCHANGED <<safe, stop, lo, hi, started, pend, updates, interrupted, someDiscarded>>
      BY DEF SerialOver, AppendResult
<1>2. /\ ~Parallel /\ ~Parallel' /\ (Serial' <=> next # hi) /\ pc \notin {"pick", "done"}
      /\ next # hi => pc' = "serial"
      BY <1>1 DEF Parallel, Serial
<1>3. /\ N \in Nat /\ Actions = 1 .. N /\ lo \in Nat /\ hi \in Nat /\ next \in Nat /\ lo >= 1
      /\ hi <= N /\ lo <= next /\ next <= hi /\ next \in Actions /\ Segment(lo, hi)
      /\ thread \in [Actions -> ThreadState] /\ lo .. hi \subseteq Actions
  <2>1. /\ N \in Nat /\ Actions = 1 .. N /\ lo \in 1 .. N /\ hi \in lo .. N /\ next \in lo .. hi + 1
        /\ Segment(lo, hi) /\ thread \in [Actions -> ThreadState] /\ lo .. hi \subseteq Actions
        BY <1>2, Facts
  <2>2. next <= hi BY DEF IInv, Place
  <2> QED BY <2>1, <2>2
<1>4. /\ thread' \in [Actions -> ThreadState]
      /\ \A i \in Actions \ {next} : thread'[i] = thread[i]
      /\ thread'[next] \in {"none", "over"} /\ thread'[next] \notin Live
  <2>1. CASE pc # "tool"
    <3>1. next \in next .. hi BY <1>3
    <3>2. thread[next] = "none" BY <2>1, <3>1 DEF IInv, Threads
    <3> QED BY <1>3, <2>1, <3>2 DEF Live
  <2>2. CASE pc = "tool" BY <1>3, <2>2 DEF ThreadState, Live
  <2> QED BY <2>1, <2>2
<1>5. Onward /\ \A i \in Actions : thread'[i] \in Live => thread[i] \in Live
  <2>1. pc = "tool" => thread'[next] = "over" BY <1>3
  <2>2. pc # "tool" => thread'[next] = thread[next] OBVIOUS
  <2>3. thread'[next] \notin Live BY <1>4
  <2> QED BY <1>4, <2>1, <2>2, <2>3 DEF Onward
<1>6. LimitKept' BY <1>1, <1>5, LimitShrinks DEF IInv
<1>7. updates' \in Seq(Update')
      /\ \A k \in 1 .. Len(updates') : updates'[k] \in (lo' .. hi') \X (Kind \cup {"start"})
  <2>1. updates' \in Seq(Update') BY <1>1, <1>5, QueueKept DEF IInv
  <2>2. Update' \subseteq (lo' .. hi') \X (Kind \cup {"start"}) BY DEF Update
  <2> QED BY <2>1, <2>2, ElementOfSeq
<1>8. /\ completed' \in Seq(Actions \X Kind) /\ Len(completed') = next
      /\ \A k \in 1 .. Len(completed') : completed'[k][1] = k
      /\ \A k \in 1 .. next - 1 : completed'[k] = completed[k]
      /\ completed'[next] = <<next, kind>>
      /\ \A i, j \in 1 .. Len(completed') :
           Discarded(i)' /\ First(i)' < First(j)' => Discarded(j)'
      /\ \A k \in 1 .. Len(completed') : completed'[k] \in Actions \X Kind
      BY <1>1, <1>2, <1>3, AppendKeepsOrder
<1>9. TypeOK'
  <2>1. next' \in 1 .. N + 1 BY <1>1, <1>3
  <2>2. outcome' \in [Actions -> {"none", "ok", "failed", "interrupted"}] BY DEF IInv, TypeOK
  <2>3. discardRemaining' \in BOOLEAN BY DEF IInv, TypeOK
  <2>4. pc' \in {"pick", "serial"} BY <1>1
  <2> QED BY <1>1, <1>4, <1>7, <1>8, <2>1, <2>2, <2>3, <2>4 DEF IInv, TypeOK, ThreadState
<1>10. Place'
  <2>1. lo <= next' /\ next' <= hi + 1 /\ (next # hi => next' <= hi) BY <1>1, <1>3
  <2> QED BY <1>1, <1>2, <1>3, <2>1, SamePartition DEF Place
<1>11. InSourceOrder'
  <2>1. next' - 1 = next BY <1>1, <1>3
  <2> QED BY <1>1, <1>8, <2>1 DEF InSourceOrder
<1>12. Threads'
  <2>1. (\A i \in Actions : i > hi => thread[i] = "none")'
    <3>1. \A i \in Actions : i > hi => thread[i] = "none" /\ i # next BY <1>3 DEF IInv, Threads
    <3> QED BY <1>1, <1>4, <3>1
  <2>2. (Serial => \A i \in next .. hi : thread[i] = IF pc = "tool" /\ i = next THEN "running" ELSE "none")'
    <3> SUFFICES ASSUME next # hi, NEW i \in next' .. hi PROVE thread'[i] = "none"
        BY <1>1, <1>2
    <3>1. i \in next .. hi /\ i # next /\ i \in Actions BY <1>1, <1>3
    <3>2. thread[i] = "none" BY <3>1 DEF IInv, Threads
    <3> QED BY <1>4, <3>1, <3>2
  <2>3. (\A i \in lo .. next - 1 : thread[i] \notin Live)'
    <3> SUFFICES ASSUME NEW i \in lo .. next PROVE thread'[i] \notin Live
      <4>1. next' - 1 = next BY <1>1, <1>3
      <4> QED BY <1>1, <4>1 DEF Live
    <3>1. i = next \/ (i \in lo .. next - 1 /\ i \in Actions) BY <1>3
    <3>2. i \in lo .. next - 1 => thread[i] \notin Live BY DEF IInv, Threads
    <3> QED BY <1>4, <1>5, <3>1, <3>2
  <2>4. (\A i \in Actions : thread[i] \in Live => i \in safe)'
    <3> SUFFICES ASSUME NEW i \in Actions, thread'[i] \in Live PROVE i \in safe
        BY <1>1 DEF Live
    <3>1. i # next /\ thread[i] \in Live BY <1>4, <1>5
    <3> QED BY <3>1 DEF IInv, Threads
  <2>5. (\A i \in Actions : thread[i] \in {"returned", "finished"} => outcome[i] \in {"ok", "failed"})'
    <3> SUFFICES ASSUME NEW i \in Actions, thread'[i] \in {"returned", "finished"}
                 PROVE  outcome'[i] \in {"ok", "failed"}
        OBVIOUS
    <3>1. i # next /\ thread[i] = thread'[i] BY <1>4
    <3>2. outcome'[i] = outcome[i] BY <3>1
    <3> QED BY <3>1, <3>2 DEF IInv, Threads
  <2> QED BY <1>2, <2>1, <2>2, <2>3, <2>4, <2>5 DEF Threads
<1>13. \A i \in lo .. next - 1 : thread[i] \notin Live BY DEF IInv, Threads
<1>14. GivenUp'
  <2>1. ASSUME NEW i \in 1 .. lo - 1, thread'[i] \in Live
        PROVE  TimedOut(i)' \/ discardRemaining \/ stop
    <3>1. i \in Actions /\ i \in 1 .. next - 1 BY <1>3
    <3>2. thread[i] \in Live BY <1>5, <2>1, <3>1
    <3>3. TimedOut(i) \/ discardRemaining \/ stop
      <4>1. CASE pc = "tool" BY <2>1, <3>2, <4>1 DEF IInv, GivenUp
      <4>2. CASE pc \in {"serial", "dispatch"} BY <2>1, <3>2, <4>2 DEF IInv, GivenUp
      <4> QED BY <4>1, <4>2 DEF Serial
    <3> QED BY <1>8, <3>1, <3>3 DEF TimedOut
  <2>2. next = hi => \A i \in 1 .. hi : thread'[i] \in Live => i \in 1 .. lo - 1
    <3> SUFFICES ASSUME next = hi, NEW i \in 1 .. hi, thread'[i] \in Live PROVE i \in 1 .. lo - 1
        OBVIOUS
    <3>1. i \in Actions /\ i # next BY <1>3, <1>4
    <3>2. thread[i] \in Live BY <1>5, <3>1
    <3>3. i \notin lo .. next - 1 BY <1>13, <3>2
    <3> QED BY <1>3, <3>1, <3>3
  <2>3. discardRemaining => discardRemaining' OBVIOUS
  <2>4. ~discardRemaining' \/ stop
    <3>1. ~discardRemaining \/ stop BY DEF IInv, GivenUp
    <3> QED BY <3>1
  <2>5. ASSUME next = hi, NEW i \in 1 .. hi, thread'[i] \in Live
        PROVE  TimedOut(i)' \/ discardRemaining' \/ stop
        BY <2>1, <2>2, <2>3, <2>5
  <2> QED BY <1>1, <1>2, <2>1, <2>3, <2>4, <2>5 DEF GivenUp, Live
<1>15. DiscardsNoted'
  <2>1. ASSUME NEW i \in 1 .. lo - 1 PROVE ~Discarded(i)'
    <3>1. ~Discarded(i) BY <1>2 DEF IInv, DiscardsNoted
    <3>2. i \in 1 .. next - 1 BY <1>3
    <3> QED BY <1>8, <3>1, <3>2 DEF Discarded
  <2>2. ASSUME NEW i \in lo .. next, Discarded(i)' PROVE discardRemaining'
    <3>1. CASE i = next
      <4>1. completed'[next][2] = "discarded" BY <2>2, <3>1 DEF Discarded
      <4>2. kind = "discarded" BY <1>8, <4>1
      <4> QED BY <4>2
    <3>2. CASE i # next
      <4>1. i \in lo .. next - 1 /\ i \in 1 .. next - 1 BY <1>3, <3>2
      <4>2. Discarded(i) BY <1>8, <2>2, <4>1 DEF Discarded
      <4>3. discardRemaining BY <4>1, <4>2 DEF IInv, DiscardsNoted
      <4> QED BY <4>3
    <3> QED BY <3>1, <3>2
  <2>3. next' - 1 = next BY <1>1, <1>3
  <2>4. ASSUME next = hi, NEW i \in 1 .. hi, Discarded(i)' PROVE discardRemaining'
    <3>1. i \in 1 .. lo - 1 \/ i \in lo .. next BY <1>3, <2>4
    <3> QED BY <2>1, <2>2, <2>4, <3>1
  <2> QED BY <1>1, <1>2, <1>8, <2>1, <2>2, <2>3, <2>4 DEF DiscardsNoted
<1> QED BY <1>6, <1>7, <1>9, <1>10, <1>11, <1>12, <1>14, <1>15 DEF IInv

LEMMA SerialResultsKeep ==
  ASSUME IInv,
         \/ SerialDiscard \/ SerialInterrupt
         \/ \E kind \in {"ok", "failed", "interrupted"} : SerialReturn(kind)
  PROVE  IInv'
<1>1. {"ok", "failed", "interrupted", "discarded"} \subseteq Kind BY DEF Kind
<1>2. CASE SerialDiscard
  <2>1. /\ pc = "serial" /\ stop /\ SerialOver("discarded") /\ discardRemaining' = TRUE
        /\ UNCHANGED <<discarded, sibling, flagged, finished, thread, outcome>>
        BY <1>2 DEF SerialDiscard, sharedVars
  <2>2. Serial BY <2>1 DEF Serial
  <2> QED BY <1>1, <2>1, <2>2, SerialOverKeeps
<1>3. CASE SerialInterrupt
  <2>1. /\ pc = "dispatch" /\ stop /\ SerialOver("interrupted") /\ discardRemaining' = TRUE
        /\ UNCHANGED <<discarded, sibling, flagged, finished, thread, outcome>>
        BY <1>3 DEF SerialInterrupt, sharedVars
  <2>2. Serial BY <2>1 DEF Serial
  <2> QED BY <1>1, <2>1, <2>2, SerialOverKeeps
<1>4. ASSUME NEW kind \in {"ok", "failed", "interrupted"}, SerialReturn(kind) PROVE IInv'
  <2>1. /\ pc = "tool" /\ SerialOver(kind) /\ (kind = "interrupted" => stop)
        /\ discardRemaining' = (discardRemaining \/ kind = "interrupted")
        /\ thread' = [thread EXCEPT ![next] = "over"]
        /\ outcome' = [outcome EXCEPT ![next] = kind]
        /\ UNCHANGED <<discarded, sibling, flagged, finished>>
        BY <1>4 DEF SerialReturn
  <2>2. Serial BY <2>1 DEF Serial
  <2>3. outcome \in [Actions -> {"none", "ok", "failed", "interrupted"}] BY DEF IInv, TypeOK
  <2>4. /\ outcome' \in [Actions -> {"none", "ok", "failed", "interrupted"}]
        /\ \A i \in Actions \ {next} : outcome'[i] = outcome[i]
        BY <2>1, <2>3
  <2>5. kind \in {"discarded", "interrupted"} <=> kind = "interrupted" OBVIOUS
  <2> QED BY <1>1, <2>1, <2>2, <2>4, <2>5, SerialOverKeeps
<1> QED BY <1>2, <1>3, <1>4

LEMMA SerialAnnounceKeeps ==
  ASSUME IInv, SerialAnnounce
  PROVE  IInv'
<1>1. /\ pc = "serial" /\ pc' = "dispatch"
      /\ UNCHANGED <<safe, stop, lo, hi, started, next, pend, updates, completed, interrupted,
                     someDiscarded, discardRemaining, discarded, sibling, flagged, finished,
                     thread, outcome>>
      BY DEF SerialAnnounce, batchVars, resultVars, sharedVars
<1>2. Serial /\ Serial' /\ ~Parallel' BY <1>1 DEF Serial, Parallel
<1>3. /\ updates' \in Seq(Update') /\ LimitKept'
      /\ \A k \in 1 .. Len(updates') : updates'[k] \in (lo' .. hi') \X (Kind \cup {"start"})
      BY <1>1, QueueAndLimitKept
<1>4. TypeOK' BY <1>1, <1>3 DEF IInv, TypeOK
<1>5. Place' BY <1>1, <1>2, SamePartition DEF IInv, Place
<1>6. InSourceOrder' BY <1>1 DEF IInv, InSourceOrder
<1>7. Threads' BY <1>1, <1>2 DEF IInv, Threads, Live
<1>8. GivenUp' BY <1>1, <1>2 DEF IInv, GivenUp, TimedOut, Live
<1>9. DiscardsNoted'
  <2>1. (\A i, j \in 1 .. Len(completed) : Discarded(i) /\ First(i) < First(j) => Discarded(j))'
        BY <1>1, SamePartition DEF IInv, DiscardsNoted, Discarded
  <2> QED BY <1>1, <1>2, <2>1 DEF IInv, DiscardsNoted, Discarded
<1> QED BY <1>3, <1>4, <1>5, <1>6, <1>7, <1>8, <1>9 DEF IInv

(* The tool of a serial action begins, or raises.                           *)
LEMMA SerialToolKeeps ==
  ASSUME IInv, SerialDispatch \/ SerialRaise
  PROVE  IInv'
<1>1. /\ UNCHANGED <<safe, stop, lo, hi, started, next, pend, updates, completed, interrupted,
                     someDiscarded, discardRemaining, discarded, sibling, flagged, finished,
                     outcome>>
      /\ \/ /\ pc = "dispatch" /\ ~stop /\ pc' = "tool"
            /\ thread' = [thread EXCEPT ![next] = "running"]
         \/ /\ pc = "tool" /\ pc' = "raised"
            /\ thread' = [thread EXCEPT ![next] = "over"]
      BY DEF SerialDispatch, SerialRaise, batchVars, resultVars
<1>2. Serial /\ ~Parallel' /\ (Serial' <=> pc = "dispatch") BY <1>1 DEF Serial, Parallel
<1>3. /\ N \in Nat /\ Actions = 1 .. N /\ lo \in Nat /\ hi \in Nat /\ next \in Nat /\ lo >= 1
      /\ hi <= N /\ lo <= next /\ next <= hi /\ next \in Actions /\ Segment(lo, hi)
      /\ thread \in [Actions -> ThreadState] /\ lo .. hi \subseteq Actions /\ lo \in Actions
  <2>1. pc \notin {"pick", "done"} BY <1>1
  <2>2. /\ N \in Nat /\ Actions = 1 .. N /\ lo \in 1 .. N /\ hi \in lo .. N /\ next \in lo .. hi + 1
        /\ Segment(lo, hi) /\ thread \in [Actions -> ThreadState] /\ lo .. hi \subseteq Actions
        BY <2>1, Facts
  <2>3. next <= hi BY <1>2 DEF IInv, Place
  <2> QED BY <2>2, <2>3
<1>4. /\ thread' \in [Actions -> ThreadState]
      /\ \A i \in Actions \ {next} : thread'[i] = thread[i]
      /\ pc = "dispatch" => thread'[next] = "running"
      /\ pc = "tool" => thread'[next] = "over"
      BY <1>1, <1>3 DEF ThreadState
<1>5. \A i \in lo .. hi : i >= next =>
         thread[i] = IF pc = "tool" /\ i = next THEN "running" ELSE "none"
  <2>1. \A i \in lo .. hi : i >= next => i \in next .. hi BY <1>3
  <2> QED BY <1>2, <2>1 DEF IInv, Threads
<1>6. Onward
  <2>1. thread[next] \in Live \cup {"none"} BY <1>3, <1>5 DEF Live
  <2>2. thread'[next] # "none" BY <1>1, <1>4
  <2>3. pc = "dispatch" => thread[next] = "none" BY <1>3, <1>5
  <2> QED BY <1>1, <1>4, <2>1, <2>2, <2>3 DEF Onward, Live
<1>7. updates' \in Seq(Update')
      /\ \A k \in 1 .. Len(updates') : updates'[k] \in (lo' .. hi') \X (Kind \cup {"start"})
  <2>1. updates' \in Seq(Update') BY <1>1, <1>6, QueueKept DEF IInv
  <2>2. Update' \subseteq (lo' .. hi') \X (Kind \cup {"start"}) BY DEF Update
  <2> QED BY <2>1, <2>2, ElementOfSeq
<1>8. TypeOK'
  <2>1. pc' \in {"tool", "raised"} BY <1>1
  <2> QED BY <1>1, <1>4, <1>7, <2>1 DEF IInv, TypeOK, ThreadState
<1>9. Place'
  <2>1. pc' # "done" /\ pc' # "pick" BY <1>1
  <2> QED BY <1>1, <1>2, <1>3, <2>1, SamePartition DEF IInv, Place
<1>10. InSourceOrder'
  <2>1. pc \notin {"pick", "done"} /\ pc' \notin {"pick", "done"} BY <1>1
  <2> QED BY <1>1, <2>1 DEF IInv, InSourceOrder
<1>11. Threads'
  <2>1. (\A i \in Actions : i > hi => thread[i] = "none")'
    <3>1. \A i \in Actions : i > hi => thread[i] = "none" /\ i # next BY <1>3 DEF IInv, Threads
    <3> QED BY <1>1, <1>4, <3>1
  <2>2. (Serial => \A i \in next .. hi : thread[i] = IF pc = "tool" /\ i = next THEN "running" ELSE "none")'
    <3> SUFFICES ASSUME pc = "dispatch", NEW i \in next .. hi
                 PROVE  thread'[i] = IF i = next THEN "running" ELSE "none"
        BY <1>1, <1>2
    <3>1. i \in lo .. hi /\ i >= next /\ i \in Actions BY <1>3
    <3> QED BY <1>4, <1>5, <3>1
  <2>3. (Serial => \A i \in lo .. next - 1 : thread[i] \notin Live)'
    <3> SUFFICES ASSUME NEW i \in lo .. next - 1 PROVE thread'[i] \notin Live
        BY <1>1 DEF Live
    <3>1. i # next /\ i \in Actions BY <1>3
    <3> QED BY <1>2, <1>4, <3>1 DEF IInv, Threads
  <2>4. (\A i \in Actions : thread[i] \in Live => i \in safe \/ (pc = "tool" /\ i = next))'
    <3> SUFFICES ASSUME NEW i \in Actions, thread'[i] \in Live
                 PROVE  i \in safe \/ (pc' = "tool" /\ i = next)
        BY <1>1 DEF Live
    <3>1. CASE i = next BY <1>1, <1>4, <3>1 DEF Live
    <3>2. CASE i # next BY <1>4, <3>2 DEF IInv, Threads
    <3> QED BY <3>1, <3>2
  <2>5. (\A i \in Actions : thread[i] \in {"returned", "finished"} => outcome[i] \in {"ok", "failed"})'
    <3> SUFFICES ASSUME NEW i \in Actions, thread'[i] \in {"returned", "finished"}
                 PROVE  outcome[i] \in {"ok", "failed"}
        BY <1>1
    <3>1. i # next BY <1>1, <1>4
    <3> QED BY <1>4, <3>1 DEF IInv, Threads
  <2> QED BY <1>2, <2>1, <2>2, <2>3, <2>4, <2>5 DEF Threads
<1>12. GivenUp'
  <2>1. ASSUME pc = "dispatch", NEW i \in 1 .. lo - 1, thread'[i] \in Live
        PROVE  TimedOut(i)
    <3>1. i \in Actions /\ i # next BY <1>3
    <3>2. TimedOut(i) \/ discardRemaining \/ stop BY <1>4, <2>1, <3>1 DEF IInv, GivenUp
    <3>3. ~discardRemaining \/ stop BY <1>2 DEF IInv, GivenUp
    <3> QED BY <1>1, <2>1, <3>2, <3>3
  <2>2. (pc = "tool" => \A i \in 1 .. lo - 1 : thread[i] \in Live => TimedOut(i))'
        BY <1>1, <2>1 DEF TimedOut, Live
  <2>3. (Serial => ~discardRemaining \/ stop)' BY <1>1, <1>2 DEF IInv, GivenUp
  <2>4. pc' \notin {"pick", "serial", "dispatch"} BY <1>1
  <2> QED BY <1>2, <2>2, <2>3, <2>4 DEF GivenUp
<1>13. DiscardsNoted'
  <2>1. (\A i, j \in 1 .. Len(completed) : Discarded(i) /\ First(i) < First(j) => Discarded(j))'
        BY <1>1, SamePartition DEF IInv, DiscardsNoted, Discarded
  <2>2. (\A i \in 1 .. lo - 1 : ~Discarded(i))' BY <1>1 DEF IInv, DiscardsNoted, Discarded
  <2>3. (\A i \in lo .. next - 1 : Discarded(i) => discardRemaining)'
        BY <1>1, <1>2 DEF IInv, DiscardsNoted, Discarded
  <2> QED BY <1>1, <1>2, <2>1, <2>2, <2>3 DEF DiscardsNoted
<1>14. LimitKept'
  <2>1. First(next) = lo
    <3>1. next \in lo .. hi BY <1>3
    <3> QED BY <1>3, <3>1, FirstInSegment
  <2>2. LiveOf(lo)' \subseteq {next}
    <3> SUFFICES ASSUME NEW i \in Actions, thread'[i] \in Live, First(i) = lo, i # next
                 PROVE  FALSE
        BY <1>1, SamePartition DEF LiveOf, Live
    <3>1. i \in lo .. hi BY <1>3, FirstInSegment
    <3>2. thread[i] \in Live BY <1>4
    <3>3. i \notin lo .. next - 1 BY <1>2, <3>2 DEF IInv, Threads
    <3>4. i >= next BY <1>3, <3>1, <3>3
    <3> QED BY <1>5, <3>1, <3>2, <3>4 DEF Live
  <2>3. IsFiniteSet({next}) /\ Cardinality({next}) = 1 BY FS_Singleton
  <2>4. Cardinality({next}) <= MaxParallel BY <2>3, NIsNat
  <2>5. \A i \in Actions : First(i) # lo /\ thread'[i] \in Live => thread[i] \in Live
        BY <1>4, <2>1
  <2> QED BY <1>1, <1>3, <2>2, <2>3, <2>4, <2>5, LimitOfOne DEF IInv
<1> QED BY <1>7, <1>8, <1>9, <1>10, <1>11, <1>12, <1>13, <1>14 DEF IInv
-----------------------------------------------------------------------------
LEMMA InitKeeps ==
  ASSUME Init
  PROVE  IInv
<1>1. TypeOK
  <2>1. N \in Nat \ {0} /\ Actions = 1 .. N BY NIsNat DEF Actions
  <2>2. /\ DOMAIN pend = {}
        /\ \A k \in 1 .. Len(updates) : FALSE
        /\ \A k \in 1 .. Len(completed) : FALSE
        BY DEF Init
  <2>3. lo \in 0 .. N /\ hi \in 0 .. N /\ started \in 1 .. N + 1 /\ next \in 1 .. N + 1
        BY <2>1 DEF Init
  <2>4. /\ thread \in [Actions -> {"none", "new", "passed", "flagged", "running", "returned",
                                   "finished", "put", "over"}]
        /\ outcome \in [Actions -> {"none", "ok", "failed", "interrupted"}]
        BY DEF Init
  <2>5. safe \subseteq Actions BY DEF Init
  <2> QED BY <2>2, <2>3, <2>4, <2>5 DEF Init, TypeOK
<1>2. Place BY DEF Init, Place, Parallel, Serial
<1>3. InSourceOrder BY DEF Init, InSourceOrder
<1>4. updates \in Seq(Update) BY EmptySeq DEF Init
<1>5. Threads BY DEF Init, Threads, Parallel, Serial, Live
<1>6. GivenUp BY DEF Init, GivenUp, Parallel, Serial
<1>7. DiscardsNoted BY DEF Init, DiscardsNoted, Parallel, Serial
<1>8. LimitKept
  <2> SUFFICES ASSUME NEW a \in Actions PROVE Cardinality(LiveOf(a)) <= MaxParallel
      BY DEF LimitKept
  <2>1. LiveOf(a) = {} BY DEF Init, LiveOf, Live
  <2> QED BY <2>1, FS_EmptySet, NIsNat
<1> QED BY <1>1, <1>2, <1>3, <1>4, <1>5, <1>6, <1>7, <1>8 DEF IInv

LEMMA NextKeeps ==
  ASSUME IInv, [Next]_vars
  PROVE  IInv'
<1>1. ASSUME DriverStep PROVE IInv'
  <2>1. CASE Done BY <2>1, StopAndDoneKeep
  <2>2. ASSUME NEW a \in Actions, NEW b \in Actions,
               DiscardBatch(a, b) \/ StartParallel(a, b) \/ StartSerial(a, b)
        PROVE  IInv'
        BY <2>2, DiscardBatchKeeps, StartParallelKeeps, StartSerialKeeps
  <2>3. CASE \/ SerialDiscard \/ SerialInterrupt
             \/ \E kind \in {"ok", "failed", "interrupted"} : SerialReturn(kind)
        BY <2>3, SerialResultsKeep
  <2>4. CASE SerialAnnounce BY <2>4, SerialAnnounceKeeps
  <2>5. CASE SerialDispatch \/ SerialRaise BY <2>5, SerialToolKeeps
  <2>6. CASE GetStart \/ GetResult \/ PollEmpty \/ AwaitMore BY <2>6, GetAndPollKeep
  <2>7. CASE GiveUp BY <2>7, GiveUpKeeps
  <2>8. ASSUME NEW i \in Actions, Deliver(i) PROVE IInv' BY <2>8, DeliverKeeps
  <2>9. CASE Advance BY <2>9, AdvanceDiscardingKeeps, AdvanceStartingKeeps
  <2>10. CASE EndParallel BY <2>10, EndParallelKeeps
  <2> QED BY <1>1, <2>1, <2>2, <2>3, <2>4, <2>5, <2>6, <2>7, <2>8, <2>9, <2>10 DEF DriverStep
<1>2. ASSUME NEW i \in Actions, RunnerStep(i) \/ ToolStep(i) PROVE IInv'
      BY <1>2, RunnerKeeps, ToolKeeps
<1>3. CASE Stop BY <1>3, StopAndDoneKeep
<1>4. CASE Over BY <1>4, StopAndDoneKeep DEF Over
<1>5. CASE UNCHANGED vars BY <1>5, StopAndDoneKeep
<1> QED BY <1>1, <1>2, <1>3, <1>4, <1>5 DEF Next

(* The inductive invariant holds in every reachable state of                *)
(* execute_prepared and of the threads it started.                          *)
THEOREM Invariant == Spec => []IInv
<1>1. Init => IInv BY InitKeeps
<1>2. IInv /\ [Next]_vars => IInv' BY NextKeeps
<1> QED BY <1>1, <1>2, PTL DEF Spec

(* The variables of the executor keep the values their types name: a result *)
(* is only ever waiting, or queued, for an action of the sub-batch the      *)
(* driver is at.                                                            *)
THEOREM TypeCorrect == Spec => []TypeOK
<1>1. IInv => TypeOK BY DEF IInv
<1> QED BY <1>1, Invariant, PTL

LEMMA ResultsAreInOrder ==
  ASSUME IInv, NEW i
  PROVE  /\ Results(i) = IF i \in 1 .. Len(completed) THEN {i} ELSE {}
         /\ \A kind : Told(i, kind) <=> i \in 1 .. Len(completed) /\ completed[i][2] = kind
<1>1. \A k \in 1 .. Len(completed) : completed[k][1] = k BY DEF IInv, InSourceOrder
<1>2. Results(i) = IF i \in 1 .. Len(completed) THEN {i} ELSE {} BY <1>1 DEF Results
<1> QED BY <1>2 DEF Told

(* Every invocation of the reply has exactly one result when                *)
(* execute_prepared returns, and never two: whatever a thread puts in the   *)
(* queue after its action was given up, and whenever the user stops.        *)
THEOREM OneResultEachHolds == Spec => []OneResultEach
<1>1. ASSUME IInv PROVE OneResultEach
  <2> SUFFICES ASSUME NEW i \in Actions
               PROVE  Cardinality(Results(i)) <= 1 /\ (pc = "done" => Results(i) # {})
      BY DEF OneResultEach
  <2>1. Results(i) = IF i \in 1 .. Len(completed) THEN {i} ELSE {} BY <1>1, ResultsAreInOrder
  <2>2. Cardinality(Results(i)) <= 1
    <3>1. Cardinality({i}) = 1 BY FS_Singleton
    <3>2. Cardinality({}) = 0 BY FS_EmptySet
    <3>3. Results(i) = {i} \/ Results(i) = {} BY <2>1
    <3>4. CASE Results(i) = {i} BY <3>1, <3>4
    <3>5. CASE Results(i) = {} BY <3>2, <3>5
    <3> QED BY <3>3, <3>4, <3>5
  <2>3. pc = "done" => i \in 1 .. Len(completed)
    <3>1. pc = "done" => Len(completed) = hi BY <1>1 DEF IInv, InSourceOrder
    <3>2. pc = "done" => hi = N BY <1>1 DEF IInv, Place
    <3> QED BY <3>1, <3>2 DEF Actions
  <2> QED BY <2>1, <2>2, <2>3
<1> QED BY <1>1, Invariant, PTL

(* However slow the threads of a sub-batch are, no more than                *)
(* max_parallel_tools of its tools run at a time: a thread is started only  *)
(* for one that is past its tool, unless the sub-batch was discarded.       *)
THEOREM ParallelLimitHolds == Spec => []ParallelLimit
<1>1. ASSUME IInv PROVE ParallelLimit
  <2> SUFFICES ASSUME NEW a \in Actions
               PROVE  Cardinality({i \in RunningNow : First(i) = a}) <= MaxParallel
      BY DEF ParallelLimit
  <2> DEFINE S == {i \in RunningNow : First(i) = a}
  <2>1. S \subseteq LiveOf(a) BY DEF RunningNow, LiveOf, Live
  <2>2. IsFiniteSet(LiveOf(a))
    <3>1. IsFiniteSet(Actions) BY NIsNat, FS_Interval DEF Actions
    <3>2. LiveOf(a) \subseteq Actions BY DEF LiveOf
    <3> QED BY <3>1, <3>2, FS_Subset
  <2>3. IsFiniteSet(S) /\ Cardinality(S) <= Cardinality(LiveOf(a)) BY <2>1, <2>2, FS_Subset
  <2>4. Cardinality(LiveOf(a)) <= MaxParallel BY <1>1 DEF IInv, LimitKept
  <2>5. Cardinality(S) \in Nat /\ Cardinality(LiveOf(a)) \in Nat BY <2>2, <2>3, FS_CardinalityType
  <2> QED BY <2>3, <2>4, <2>5, NIsNat
<1> QED BY <1>1, Invariant, PTL

(* A tool that may write never runs beside another one, except beside       *)
(* readers whose results told the model that they timed out: such a thread  *)
(* is never killed and may go on.                                           *)
THEOREM WriterAloneHolds == Spec => []WriterAlone
<1>1. ASSUME IInv PROVE WriterAlone
  <2> SUFFICES ASSUME NEW i \in RunningNow \ safe, NEW j \in RunningNow \ {i}
               PROVE  Told(j, "timeout")
      BY DEF WriterAlone
  <2>1. i \in Actions /\ j \in Actions /\ thread[i] \in Live /\ thread[j] \in Live
        BY DEF RunningNow, Live
  <2>2. pc = "tool" /\ i = next BY <1>1, <2>1 DEF IInv, Threads
  <2>3. /\ lo \in Nat /\ hi \in Nat /\ next \in Nat /\ lo <= next /\ next <= hi /\ Actions = 1 .. N
        /\ N \in Nat /\ Len(completed) = next - 1
    <3>1. Serial BY <2>2 DEF Serial
    <3>2. next <= hi BY <1>1, <3>1 DEF IInv, Place
    <3>3. /\ lo \in 1 .. N /\ hi \in lo .. N /\ next \in lo .. hi + 1 /\ Actions = 1 .. N /\ N \in Nat
          BY <1>1, <2>2, Facts
    <3>4. Len(completed) = next - 1 BY <1>1, <2>2 DEF IInv, InSourceOrder
    <3> QED BY <3>2, <3>3, <3>4
  <2>4. ~(j > hi) BY <1>1, <2>1 DEF IInv, Threads, Live
  <2>5. j \notin next .. hi
    <3> SUFFICES ASSUME j \in next .. hi PROVE FALSE OBVIOUS
    <3>1. thread[j] = "none" BY <1>1, <2>2 DEF IInv, Threads, Serial
    <3> QED BY <2>1, <3>1 DEF Live
  <2>6. j \notin lo .. next - 1 BY <1>1, <2>1, <2>2 DEF IInv, Threads, Serial
  <2>7. j \in 1 .. lo - 1 BY <2>1, <2>3, <2>4, <2>5, <2>6
  <2>8. TimedOut(j) BY <1>1, <2>1, <2>2, <2>7 DEF IInv, GivenUp
  <2>9. j \in 1 .. Len(completed) BY <2>3, <2>7
  <2> QED BY <1>1, <2>8, <2>9, ResultsAreInOrder DEF TimedOut
<1> QED BY <1>1, Invariant, PTL

(* discard_remaining: once an invocation of a sub-batch was discarded, no   *)
(* invocation of a later sub-batch is run.                                  *)
THEOREM NothingAfterDiscardHolds == Spec => []NothingAfterDiscard
<1>1. ASSUME IInv PROVE NothingAfterDiscard
  <2> SUFFICES ASSUME NEW k \in 1 .. Len(completed), NEW l \in 1 .. Len(completed),
                      completed[k][2] = "discarded",
                      First(completed[k][1]) < First(completed[l][1])
               PROVE  completed[l][2] = "discarded"
      BY DEF NothingAfterDiscard
  <2>1. completed[k][1] = k /\ completed[l][1] = l BY <1>1 DEF IInv, InSourceOrder
  <2>2. \A i, j \in 1 .. Len(completed) : Discarded(i) /\ First(i) < First(j) => Discarded(j)
        BY <1>1 DEF IInv, DiscardsNoted
  <2> QED BY <2>1, <2>2 DEF Discarded
<1> QED BY <1>1, Invariant, PTL
=============================================================================

------------------------ MODULE SessionClient_proofs ------------------------
(***************************************************************************)
(* Theorems about SessionClient, for any sessions, streams of events and    *)
(* bounds.  A handler is a function from client to client; for each of them *)
(* a lemma says what it makes of a client that is in order.                 *)
(***************************************************************************)
EXTENDS SessionClient, WellFoundedInduction, TLAPS
-----------------------------------------------------------------------------
(* A set of natural numbers has a least element, a bounded one a greatest.  *)
Below == {p \in Nat \X Nat : p[1] < p[2]}

LEMMA LeastExists ==
  ASSUME NEW T, T \subseteq Nat, T # {}
  PROVE  \E x \in T : \A y \in T : x <= y
<1>1. IsWellFoundedOn(Below, Nat) BY NatLessThanWellFounded DEF OpToRel, Below
<1>2. PICK x \in T : \A y \in T : ~(<<y, x>> \in Below) BY <1>1, WFMin, Zenon
<1>3. \A y \in T : ~(y < x) BY <1>2 DEF Below
<1> QED BY <1>3

LEMMA GreatestExists ==
  ASSUME NEW S, S \subseteq Nat, S # {}, NEW m \in Nat, \A x \in S : x <= m
  PROVE  \E x \in S : \A y \in S : y <= x
<1> DEFINE T == {m - x : x \in S}
<1>1. T \subseteq Nat /\ T # {}
  <2>1. \A x \in S : m - x \in Nat OBVIOUS
  <2> QED BY <2>1
<1>2. PICK x \in T : \A y \in T : x <= y
  <2> HIDE DEF T
  <2> QED BY <1>1, LeastExists
<1>3. PICK k \in S : x = m - k OBVIOUS
<1>4. \A y \in S : y <= k
  <2> SUFFICES ASSUME NEW y \in S PROVE y <= k OBVIOUS
  <2>1. m - k <= m - y BY <1>2, <1>3
  <2>2. y \in Nat /\ k \in Nat OBVIOUS
  <2> QED BY <2>1, <2>2
<1> QED BY <1>4

-----------------------------------------------------------------------------
(* What the events of a session say about it.                               *)
LEMMA LifeOfIsLife ==
  ASSUME NEW kind
  PROVE  LifeOf(kind) \in Lives \ {"idle", "activating", "closed"}
BY DEF LifeOf, Lives

(* What a runtime that has its bootstrap takes the session for.             *)
Known == Lives \ {"activating", "closed"}

LEMMA LifeStaysKnown ==
  ASSUME NEW life \in Known, NEW s, NEW m, NEW n
  PROVE  LifeAfter(life, s, m, n) \in Known
BY LifeOfIsLife DEF LifeAfter, Known

(* The lifecycle after some events and some more is that after all of them. *)
LEMMA LifeContinues ==
  ASSUME NEW life, NEW s, NEW k \in Nat, NEW m \in Nat, NEW n \in Nat, k <= m, m <= n
  PROVE  LifeAfter(LifeAfter(life, s, k, m), s, m, n) = LifeAfter(life, s, k, n)
<1> DEFINE before == {i \in (k + 1)..m : Decides(s, i)}
           since == {i \in (m + 1)..n : Decides(s, i)}
           all == {i \in (k + 1)..n : Decides(s, i)}
           Last(S) == CHOOSE i \in S : \A j \in S : j <= i
<1>1. LifeAfter(life, s, k, m) = IF before = {} THEN life ELSE LifeOf(log[s][Last(before)])
      BY DEF LifeAfter
<1>2. LifeAfter(life, s, k, n) = IF all = {} THEN life ELSE LifeOf(log[s][Last(all)])
      BY DEF LifeAfter
<1>3. LifeAfter(LifeAfter(life, s, k, m), s, m, n)
      = IF since = {} THEN LifeAfter(life, s, k, m) ELSE LifeOf(log[s][Last(since)])
      BY DEF LifeAfter
<1>4. all = before \cup since OBVIOUS
<1>5. CASE since = {}
  <2>1. all = before BY <1>4, <1>5
  <2> HIDE DEF all, since, before, Last
  <2> QED BY <1>1, <1>2, <1>3, <1>5, <2>1
<1>6. CASE since # {}
  <2>1. PICK x \in since : \A j \in since : j <= x
    <3>1. since \subseteq Nat /\ \A j \in since : j <= n OBVIOUS
    <3> QED BY <1>6, <3>1, GreatestExists
  <2>2. x \in all /\ \A j \in all : j <= x BY <2>1, <1>4
  <2>3. Last(since) = x
    <3>1. \A i \in since : (\A j \in since : j <= i) => i = x BY <2>1
    <3> QED BY <2>1, <3>1
  <2>4. Last(all) = x
    <3>1. \A i \in all : (\A j \in all : j <= i) => i = x BY <2>2
    <3> QED BY <2>2, <3>1
  <2>5. all # {} BY <2>2
  <2> HIDE DEF all, since, before, Last
  <2> QED BY <1>2, <1>3, <1>6, <2>3, <2>4, <2>5
<1> QED BY <1>5, <1>6
-----------------------------------------------------------------------------
(* A drain publishes the numbers that follow the cursor, up to the one it   *)
(* reaches.                                                                 *)
LEMMA ReachedIsLast ==
  ASSUME NEW r \in Runtimes, NEW bad
  PROVE  /\ Reached(r, bad) \in Nat
         /\ r.cursor <= Reached(r, bad)
         /\ Reached(r, bad) # r.cursor =>
              /\ Publishable(r, bad) = (r.cursor + 1)..Reached(r, bad)
              /\ r.sid \in Sessions
<1> DEFINE P == Publishable(r, bad)
           to == Reached(r, bad)
<1>1. r.cursor \in Nat BY DEF Runtimes
<1>2. MaxEvents \in Nat BY ClientAssumption
<1>3. Pending(r) = {n \in (r.cursor + 1)..MaxEvents : <<r.sid, n>> \in r.queue} BY DEF Pending
<1>4. Consecutive(r) = {n \in Pending(r) : (r.cursor + 1)..n \subseteq Pending(r)}
      BY DEF Consecutive
<1>5. P = {n \in Consecutive(r) : \A k \in (r.cursor + 1)..n :
                                     k # bad /\ (k < n => ~Opens(r, k))}
      BY DEF Publishable
<1>6. P \subseteq (r.cursor + 1)..MaxEvents BY <1>3, <1>4, <1>5
<1>7. to \in {r.cursor} \cup P /\ \A k \in P : k <= to
  <2>1. \E n \in {r.cursor} \cup P : \A k \in P : k <= n
    <3>1. CASE P = {} BY <3>1
    <3>2. CASE P # {}
      <4>1. P \subseteq Nat /\ \A k \in P : k <= MaxEvents BY <1>1, <1>2, <1>6
      <4> QED BY <1>2, <3>2, <4>1, GreatestExists
    <3> QED BY <3>1, <3>2
  <2> HIDE DEF P
  <2> QED BY <2>1 DEF Reached, P
<1> HIDE DEF to
<1>8. to \in Nat /\ r.cursor <= to BY <1>1, <1>2, <1>6, <1>7
<1>9. ASSUME to # r.cursor PROVE P = (r.cursor + 1)..to /\ r.sid \in Sessions
  <2>1. to \in P BY <1>7, <1>9
  <2>2. ASSUME NEW n \in (r.cursor + 1)..to PROVE n \in P
    <3>1. (r.cursor + 1)..n \subseteq (r.cursor + 1)..to /\ n \in (r.cursor + 1)..n
          BY <1>1, <1>8
    <3>2. (r.cursor + 1)..to \subseteq Pending(r) BY <2>1, <1>4, <1>5
    <3>3. n \in Consecutive(r) BY <3>1, <3>2, <1>4
    <3>4. ASSUME NEW k \in (r.cursor + 1)..n PROVE k # bad /\ (k < n => ~Opens(r, k))
      <4>1. k \in (r.cursor + 1)..to BY <3>1
      <4>2. k < n => k < to BY <1>1, <1>8
      <4> QED BY <4>1, <4>2, <2>1, <1>5
    <3> QED BY <3>3, <3>4, <1>5
  <2>3. ASSUME NEW n \in P PROVE n \in (r.cursor + 1)..to BY <1>1, <1>2, <1>6, <1>7, <1>8
  <2>4. <<r.sid, to>> \in r.queue BY <2>1, <1>3, <1>4, <1>5
  <2>5. r.queue \subseteq Sessions \X Nat BY DEF Runtimes
  <2> QED BY <2>2, <2>3, <2>4, <2>5
<1> QED BY <1>8, <1>9 DEF to
-----------------------------------------------------------------------------
(* A runtime in order: while a bootstrap is awaited there is a baseline, and *)
(* only then is the runtime activating.                                      *)
InOrder(r) ==
  /\ r \in Runtimes
  /\ r.life = "closed" => r.phase = "idle"
  /\ r.phase = "idle" => r.base = NoBase
  /\ r.phase = "bootstrap" => r.base # NoBase
  /\ r.phase # "bootstrap" => r.life # "activating"
  /\ r.base # NoBase => r.base.life # "activating"

(* Requests that name the session they are about.                           *)
Aimed(q) == q.kind # "reply" => Target(q) \in Sessions

Asked == {q \in Requests : Aimed(q)}

Clients == [rt : Runtimes, view : Views, reload : {"healthy", "required", "degraded"},
            calls : SUBSET Asked, strayed : BOOLEAN, blind : BOOLEAN]

(* The store is where the runtime is.                                       *)
Level(c) == c.rt.sid = c.view.sid /\ c.rt.cursor = c.view.seen

Follows(c) ==
  c.strayed \/ /\ c.view.tidy
               /\ c.rt.phase # "bootstrap" /\ c.rt.life \notin {"failed", "closed"} => Level(c)

Proper(c) == c \in Clients /\ InOrder(c.rt) /\ Follows(c)

(* BufferingIsAwaited, of a client.                                         *)
Awaited(c) ==
  /\ c.rt.phase = "bootstrap" =>
        \E q \in c.calls : q.gen = c.rt.gen /\ q.kind # "recovery"
  /\ c.rt.phase = "recovery" =>
        \E q \in c.calls : q.gen = c.rt.gen /\ q.kind = "recovery"

(* What a handler leaves behind: a client in order that waits for nothing   *)
(* it did not ask for, and every request that was in flight.                *)
Leaves(c, d) == Proper(d) /\ Awaited(d) /\ c.calls \subseteq d.calls
-----------------------------------------------------------------------------
(* The dispatch of anything touches reload and blind only.                  *)
LEMMA HealthyKeeps ==
  ASSUME NEW c \in Clients
  PROVE  /\ Healthy(c) \in Clients
         /\ Healthy(c).rt = c.rt /\ Healthy(c).view = c.view
         /\ Healthy(c).calls = c.calls /\ Healthy(c).strayed = c.strayed
<1> DEFINE b == link # "open" \/ \E n \in Unseen(c.view) : ~OnTheWay(c.rt, c.view.sid, n)
<1>1. Healthy(c) = [c EXCEPT !.reload = "healthy", !.blind = b] BY DEF Healthy
<1>2. b \in BOOLEAN OBVIOUS
<1> HIDE DEF b
<1> QED BY <1>1, <1>2 DEF Clients

LEMMA StoppedInOrder ==
  ASSUME NEW r \in Runtimes, NEW sid \in Ids
  PROVE  /\ InOrder(Stopped(r, sid))
         /\ Stopped(r, sid).phase = "idle" /\ Stopped(r, sid).life = "failed"
<1>1. Stopped(r, sid) \in Runtimes BY DEF Stopped, Runtimes, Lives
<1>2. /\ Stopped(r, sid).life = "failed" /\ Stopped(r, sid).phase = "idle"
      /\ Stopped(r, sid).base = NoBase
      BY DEF Stopped, Runtimes
<1> QED BY <1>1, <1>2 DEF InOrder

(* The runtime stops: what c shows is no matter any more.                   *)
LEMMA StopLeaves ==
  ASSUME NEW c \in Clients, NEW sid \in Ids, c.strayed \/ c.view.tidy
  PROVE  Leaves(c, [c EXCEPT !.rt = Stopped(@, sid)])
<1> DEFINE d == [c EXCEPT !.rt = Stopped(@, sid)]
<1>1. /\ InOrder(Stopped(c.rt, sid))
      /\ Stopped(c.rt, sid).phase = "idle" /\ Stopped(c.rt, sid).life = "failed"
      BY StoppedInOrder DEF Clients
<1>2. /\ d \in Clients /\ d.rt = Stopped(c.rt, sid)
      /\ d.view = c.view /\ d.calls = c.calls /\ d.strayed = c.strayed
      BY <1>1 DEF Clients, InOrder
<1> QED BY <1>1, <1>2 DEF Leaves, Proper, Follows, Awaited

LEMMA FailLeaves ==
  ASSUME NEW c \in Clients, NEW sid \in Ids, c.strayed \/ c.view.tidy, c.rt.life # "closed"
  PROVE  Leaves(c, Fail(c, sid))
<1> DEFINE d == [c EXCEPT !.rt = Stopped(@, sid), !.reload = "degraded"]
<1>1. /\ InOrder(Stopped(c.rt, sid))
      /\ Stopped(c.rt, sid).phase = "idle" /\ Stopped(c.rt, sid).life = "failed"
      BY StoppedInOrder DEF Clients
<1>2. /\ d \in Clients /\ d.rt = Stopped(c.rt, sid)
      /\ d.view = c.view /\ d.calls = c.calls /\ d.strayed = c.strayed
      BY <1>1 DEF Clients, InOrder
<1>3. Leaves(c, d) BY <1>1, <1>2 DEF Leaves, Proper, Follows, Awaited
<1> QED BY <1>3 DEF Fail

LEMMA BaselineIsBase ==
  ASSUME NEW r, InOrder(r), r.life \notin {"closed", "failed"}
  PROVE  /\ Baseline(r) \in Baselines /\ Baseline(r) # NoBase
         /\ Baseline(r).life # "activating"
<1>1. CASE r.base # NoBase BY <1>1 DEF Baseline, InOrder, Runtimes
<1>2. CASE r.base = NoBase
  <2>1. Baseline(r) = [sid |-> r.sid, cursor |-> r.cursor, life |-> r.life, tried |-> r.tried]
        BY <1>2 DEF Baseline
  <2>2. Baseline(r) \in Baselines BY <2>1 DEF Baselines, InOrder, Runtimes
  <2>3. NoBase.cursor = -1 /\ Baseline(r).cursor \in Nat BY <2>1, <2>2 DEF NoBase, Baselines
  <2>4. r.phase # "bootstrap" BY <1>2 DEF InOrder
  <2>5. r.life # "activating" BY <2>4 DEF InOrder
  <2> QED BY <2>1, <2>2, <2>3, <2>5
<1> QED BY <1>1, <1>2

LEMMA BeginLeaves ==
  ASSUME NEW c \in Clients, InOrder(c.rt), c.strayed \/ c.view.tidy, Operable(c),
         NEW kind \in {"activate", "operate", "create", "reply"}, NEW sid \in Ids,
         NEW about \in Ids, kind = "create" => about \in Sessions,
         kind \in {"activate", "operate"} => sid \in Sessions
  PROVE  Leaves(c, Begin(c, kind, sid, about))
<1> DEFINE g == c.rt.gen + 1
           q == Call(kind, g, sid, "nothing", about)
           r == [sid |-> sid, cursor |-> 0, gen |-> g, life |-> "activating",
                 phase |-> "bootstrap", queue |-> c.rt.queue, tried |-> FALSE,
                 base |-> Baseline(c.rt)]
           d == Begin(c, kind, sid, about)
<1>1. d = [c EXCEPT !.rt = r, !.calls = @ \cup {q}] BY DEF Begin
<1>2. g \in Nat BY DEF Clients, Runtimes
<1>3. q \in Asked /\ q.gen = g /\ q.kind = kind
  <2>1. q \in Requests BY <1>2 DEF Requests, Call, BootLives
  <2>2. Aimed(q) BY DEF Aimed, Target, Call
  <2> QED BY <2>1, <2>2 DEF Asked, Call
<1>4. /\ Baseline(c.rt) \in Baselines /\ Baseline(c.rt) # NoBase
      /\ Baseline(c.rt).life # "activating"
      BY BaselineIsBase DEF Operable
<1>5. r \in Runtimes BY <1>2, <1>4 DEF Runtimes, Clients, Lives
<1>6. InOrder(r) BY <1>4, <1>5 DEF InOrder
<1>7. r.phase = "bootstrap" /\ r.gen = g OBVIOUS
<1> HIDE DEF q, r, d, g
<1>8. /\ d \in Clients /\ d.rt = r /\ d.view = c.view /\ d.strayed = c.strayed
      /\ d.calls = c.calls \cup {q}
      BY <1>1, <1>3, <1>5 DEF Clients
<1>9. Awaited(d)
  <2>1. q \in d.calls /\ q.gen = d.rt.gen /\ q.kind # "recovery" BY <1>3, <1>7, <1>8
  <2> QED BY <1>7, <1>8, <2>1 DEF Awaited
<1>10. Follows(d) BY <1>7, <1>8 DEF Follows
<1>11. c.calls \subseteq d.calls BY <1>8
<1> QED BY <1>6, <1>8, <1>9, <1>10, <1>11 DEF Leaves, Proper, d
-----------------------------------------------------------------------------
(* Publication starts at a runtime whose lifecycle is known and that the    *)
(* store is level with.                                                     *)
Ready(c) ==
  /\ c \in Clients
  /\ InOrder(c.rt)
  /\ c.rt.life \in Known
  /\ c.strayed \/ (c.view.tidy /\ Level(c))

LEMMA PublishedKeeps ==
  ASSUME NEW c, Ready(c), NEW bad
  PROVE  LET d  == Published(c, bad)
             to == Reached(c.rt, bad)
         IN  /\ Ready(d) /\ d.rt.cursor = to
             /\ d.rt.sid = c.rt.sid /\ d.rt.gen = c.rt.gen /\ d.rt.phase = c.rt.phase
             /\ d.rt.tried = c.rt.tried /\ d.rt.base = c.rt.base
             /\ d.calls = c.calls /\ d.strayed = c.strayed
             /\ to # c.rt.cursor => d.rt.life = LifeAfter(c.rt.life, c.rt.sid, c.rt.cursor, to)
             /\ to = c.rt.cursor => d = c
             /\ d.view.at = c.view.at /\ d.view.life = c.view.life
<1> DEFINE r == c.rt
           to == Reached(r, bad)
           life == LifeAfter(r.life, r.sid, r.cursor, to)
           v == Shown(c.view, r.sid, Publishable(r, bad), to)
           s == [r EXCEPT !.cursor = to, !.life = life]
           e == [c EXCEPT !.rt = s, !.view = v]
<1>1. r \in Runtimes /\ c.view \in Views BY DEF Ready, Clients
<1>2. CASE to = r.cursor BY <1>2 DEF Published
<1>3. CASE to # r.cursor
  <2>1. Published(c, bad) = Healthy(e)
    <3>1. [c EXCEPT !.rt.cursor = to, !.rt.life = life, !.view = v] = e
          BY <1>1 DEF Ready, Clients
    <3> QED BY <1>3, <3>1 DEF Published
  <2>2. /\ to \in Nat /\ r.cursor <= to
        /\ Publishable(r, bad) = (r.cursor + 1)..to /\ r.sid \in Sessions
        BY <1>1, <1>3, ReachedIsLast
  <2>3. life \in Known BY LifeStaysKnown DEF Ready
  <2>4. life \in Lives \ {"activating", "closed"} BY <2>3 DEF Known
  <2>5. /\ v \in Views
        /\ v.sid = c.view.sid /\ v.at = c.view.at /\ v.life = c.view.life
        /\ v.seen = IF c.view.sid = r.sid THEN to ELSE c.view.seen
        /\ v.tidy = (c.view.tidy /\ c.view.sid = r.sid
                     /\ Publishable(r, bad) = (c.view.seen + 1)..to)
    <3> DEFINE straight == /\ c.view.tidy /\ c.view.sid = r.sid
                           /\ Publishable(r, bad) = (c.view.seen + 1)..to
               seen == IF c.view.sid = r.sid THEN to ELSE c.view.seen
    <3>1. v = [c.view EXCEPT !.seen = seen, !.tidy = straight] BY <1>1 DEF Shown, Views
    <3>2. straight \in BOOLEAN /\ seen \in Nat BY <1>1, <2>2 DEF Views
    <3> HIDE DEF straight, seen, v
    <3>3. /\ v \in Views /\ v.sid = c.view.sid /\ v.seen = seen /\ v.tidy = straight
          /\ v.at = c.view.at /\ v.life = c.view.life
          BY <1>1, <3>1, <3>2 DEF Views
    <3> QED BY <3>3 DEF straight, seen
  <2>6. v \in Views BY <2>5
  <2>7. c.strayed \/ (v.tidy /\ v.sid = r.sid /\ v.seen = to)
        BY <2>2, <2>5 DEF Ready, Level
  <2> HIDE DEF to, life, v
  <2>8. /\ s \in Runtimes /\ s.cursor = to /\ s.life = life /\ s.sid = r.sid
        /\ s.gen = r.gen /\ s.phase = r.phase /\ s.tried = r.tried /\ s.base = r.base
        BY <1>1, <2>2, <2>4 DEF Runtimes
  <2>9. InOrder(s) BY <2>3, <2>4, <2>8 DEF InOrder, Ready
  <2> HIDE DEF s
  <2>10. /\ e \in Clients /\ e.rt = s /\ e.view = v /\ e.calls = c.calls
         /\ e.strayed = c.strayed
         BY <2>6, <2>8 DEF Ready, Clients, Views
  <2> HIDE DEF e
  <2>11. LET d == Healthy(e)
         IN  /\ d \in Clients /\ d.rt = s /\ d.view = v /\ d.calls = c.calls
             /\ d.strayed = c.strayed
         BY <2>10, HealthyKeeps
  <2>12. Ready(Healthy(e)) BY <2>3, <2>7, <2>8, <2>9, <2>11 DEF Ready, Level
  <2>13. to # r.cursor => s.life = life BY <2>8
  <2>14. v.at = c.view.at /\ v.life = c.view.life BY <2>5
  <2> QED BY <1>3, <2>1, <2>8, <2>11, <2>12, <2>13, <2>14 DEF to, life
<1> QED BY <1>2, <1>3

(* The queue without what was published.                                    *)
LEMMA RestIsQueue ==
  ASSUME NEW r \in Runtimes, NEW to
  PROVE  {r.sid} \X {n \in Pending(r) : n > to} \subseteq Sessions \X Nat
<1>1. r.cursor \in Nat /\ r.queue \subseteq Sessions \X Nat BY DEF Runtimes
<1>2. \A n \in Pending(r) : n \in Nat /\ r.sid \in Sessions
  <2>1. \A n \in Pending(r) : n \in (r.cursor + 1)..MaxEvents /\ <<r.sid, n>> \in r.queue
        BY DEF Pending
  <2> QED BY <1>1, <2>1, ClientAssumption
<1> QED BY <1>2

LEMMA DrainLeaves ==
  ASSUME NEW c, Ready(c), NEW bad, NEW after \in {"nothing", "fail"}, NEW about \in Ids
  PROVE  Leaves(c, Drain(c, bad, after, about))
<1> DEFINE r == c.rt
           to == Reached(r, bad)
           opens == to > r.cursor /\ Opens(r, to)
           rest == {n \in Pending(r) : n > to}
           Q == {r.sid} \X rest
           p == Published(c, bad)
           d == [p EXCEPT !.rt.queue = Q]
           next == Call("recovery", r.gen, r.sid, after, about)
           idle == [d EXCEPT !.rt.phase = "idle", !.rt.base = NoBase]
           asks == [d EXCEPT !.rt.phase = "recovery", !.rt.tried = TRUE, !.calls = @ \cup {next}]
<1>1. Drain(c, bad, after, about)
      = CASE opens -> Begin(d, "activate", log[r.sid][to], NoSession)
          [] ~opens /\ to + 1 \in rest /\ to + 1 = bad -> [Healthy(d) EXCEPT !.rt = Stopped(@, r.sid)]
          [] ~opens /\ rest = {} -> idle
          [] ~opens /\ rest # {} /\ to + 1 # bad /\ r.tried -> Fail(d, r.sid)
          [] OTHER -> asks
      BY DEF Drain
<1>2. r \in Runtimes BY DEF Ready, Clients
<1>3. /\ Ready(p) /\ p.rt.cursor = to /\ p.rt.sid = r.sid /\ p.rt.gen = r.gen
      /\ p.rt.phase = r.phase /\ p.calls = c.calls /\ p.strayed = c.strayed
      /\ to # r.cursor => p.rt.life = LifeAfter(r.life, r.sid, r.cursor, to)
      BY PublishedKeeps
<1>4. Q \subseteq Sessions \X Nat BY <1>2, RestIsQueue
<1>5. r.sid \in Ids /\ r.gen \in Nat BY <1>2 DEF Runtimes
<1> HIDE DEF p, Q, to
<1>6. /\ d \in Clients /\ d.rt = [p.rt EXCEPT !.queue = Q]
      /\ d.view = p.view /\ d.calls = c.calls /\ d.strayed = c.strayed
  <2>1. p \in Clients /\ p.rt \in Runtimes BY <1>3 DEF Ready, Clients
  <2>2. [p.rt EXCEPT !.queue = Q] \in Runtimes BY <1>4, <2>1 DEF Runtimes
  <2>3. d = [p EXCEPT !.rt = [p.rt EXCEPT !.queue = Q]] BY <2>1 DEF Clients
  <2> QED BY <1>3, <2>1, <2>2, <2>3 DEF Clients
<1>7. /\ d.rt \in Runtimes /\ d.rt.cursor = to /\ d.rt.sid = r.sid /\ d.rt.gen = r.gen
      /\ d.rt.phase = r.phase /\ d.rt.life = p.rt.life /\ d.rt.base = p.rt.base
      BY <1>3, <1>6 DEF Clients, Runtimes
<1> HIDE DEF d
<1>8. Ready(d) BY <1>3, <1>6, <1>7 DEF Ready, InOrder, Level
<1>9. d.rt.life \in Lives \ {"activating", "closed"} BY <1>8 DEF Ready, Known
<1>10. d.strayed \/ d.view.tidy BY <1>8 DEF Ready
<1>11. CASE opens
  <2>1. log[r.sid][to] \in Ids /\ log[r.sid][to] \in Sessions BY <1>11 DEF Opens, Ids
  <2>2. Operable(d)
    <3>1. to # r.cursor BY <1>2, <1>11 DEF Runtimes
    <3>2. d.rt.life # "failed" BY <1>3, <1>7, <1>11, <3>1 DEF Opens
    <3> QED BY <1>9, <3>2 DEF Operable
  <2>3. Leaves(d, Begin(d, "activate", log[r.sid][to], NoSession))
        BY <1>8, <1>10, <2>1, <2>2, BeginLeaves DEF Ready, Ids
  <2> QED BY <1>1, <1>6, <1>11, <2>3 DEF Leaves
<1>12. CASE ~opens /\ to + 1 \in rest /\ to + 1 = bad
  <2>1. /\ Healthy(d) \in Clients /\ Healthy(d).strayed = d.strayed
        /\ Healthy(d).view = d.view /\ Healthy(d).calls = d.calls
        BY <1>8, HealthyKeeps DEF Ready
  <2>2. Leaves(Healthy(d), [Healthy(d) EXCEPT !.rt = Stopped(@, r.sid)])
        BY <1>5, <1>10, <2>1, StopLeaves
  <2> QED BY <1>1, <1>6, <1>12, <2>1, <2>2 DEF Leaves
<1>13. CASE ~opens /\ ~(to + 1 \in rest /\ to + 1 = bad) /\ rest = {}
  <2>1. /\ idle \in Clients /\ idle.rt = [d.rt EXCEPT !.phase = "idle", !.base = NoBase]
        /\ idle.view = d.view /\ idle.calls = d.calls /\ idle.strayed = d.strayed
    <3>1. [d.rt EXCEPT !.phase = "idle", !.base = NoBase] \in Runtimes BY <1>7 DEF Runtimes
    <3>2. idle = [d EXCEPT !.rt = [d.rt EXCEPT !.phase = "idle", !.base = NoBase]]
          BY <1>6, <1>7 DEF Clients, Runtimes
    <3> QED BY <1>6, <3>1, <3>2 DEF Clients
  <2>2. /\ idle.rt.phase = "idle" /\ idle.rt.base = NoBase /\ idle.rt.life = d.rt.life
        /\ idle.rt.sid = d.rt.sid /\ idle.rt.cursor = d.rt.cursor /\ idle.rt \in Runtimes
        BY <1>7, <2>1 DEF Clients, Runtimes
  <2> HIDE DEF idle
  <2>3. InOrder(idle.rt) BY <1>8, <1>9, <2>2 DEF InOrder, Ready
  <2>4. Follows(idle) BY <1>8, <2>1, <2>2 DEF Follows, Ready, Level
  <2>5. Leaves(c, idle) BY <1>6, <2>1, <2>2, <2>3, <2>4 DEF Leaves, Proper, Awaited
  <2> QED BY <1>1, <1>13, <2>5
<1>14. CASE ~opens /\ rest # {} /\ to + 1 # bad /\ r.tried
  <2>1. Leaves(d, Fail(d, r.sid)) BY <1>5, <1>6, <1>9, <1>10, FailLeaves
  <2> QED BY <1>1, <1>6, <1>14, <2>1 DEF Leaves
<1>15. CASE /\ ~opens /\ ~(to + 1 \in rest /\ to + 1 = bad) /\ rest # {}
            /\ ~(to + 1 # bad /\ r.tried)
  <2> DEFINE w == [d.rt EXCEPT !.phase = "recovery", !.tried = TRUE]
  <2>1. w \in Runtimes /\ next \in Asked
    <3>1. w \in Runtimes /\ next \in Requests BY <1>5, <1>7 DEF Runtimes, Requests, Call, BootLives
    <3>2. PICK n \in rest : TRUE BY <1>15
    <3>3. <<r.sid, n>> \in r.queue /\ r.queue \subseteq Sessions \X Nat
          BY <1>2, <3>2 DEF Pending, Runtimes
    <3>4. r.sid \in Sessions BY <3>3
    <3>5. Aimed(next) BY <3>4 DEF Aimed, Target, Call
    <3> QED BY <3>1, <3>5 DEF Asked
  <2>2. asks = [d EXCEPT !.rt = w, !.calls = @ \cup {next}]
        BY <1>6, <1>7 DEF Clients, Runtimes
  <2>3. /\ w.phase = "recovery" /\ w.life = d.rt.life /\ w.sid = d.rt.sid
        /\ w.cursor = d.rt.cursor /\ w.base = d.rt.base /\ w.gen = r.gen
        BY <1>7 DEF Runtimes
  <2>4. next.kind = "recovery" /\ next.gen = r.gen BY DEF Call
  <2> HIDE DEF w, next, asks
  <2>5. /\ asks \in Clients /\ asks.rt = w /\ asks.view = d.view
        /\ asks.calls = d.calls \cup {next} /\ asks.strayed = d.strayed
        BY <1>6, <2>1, <2>2 DEF Clients
  <2>6. InOrder(w) BY <1>8, <1>9, <2>1, <2>3 DEF InOrder, Ready
  <2>7. Follows(asks) BY <1>8, <2>3, <2>5 DEF Follows, Ready, Level
  <2>8. Awaited(asks) BY <2>3, <2>4, <2>5 DEF Awaited
  <2>9. Leaves(c, asks) BY <1>6, <2>5, <2>6, <2>7, <2>8 DEF Leaves, Proper
  <2> QED BY <1>1, <1>15, <2>9
<1> QED BY <1>11, <1>12, <1>13, <1>14, <1>15
-----------------------------------------------------------------------------
(* The end of a request.                                                    *)
LEMMA InstallLeaves ==
  ASSUME NEW c \in Clients, InOrder(c.rt), Follows(c), c.rt.life # "closed",
         NEW q \in Requests, NEW s \in Ids, NEW bad
  PROVE  Leaves(c, Install(c, q, s, bad))
<1> DEFINE at == q.at
           Q == {e \in c.rt.queue : e[1] = s /\ e[2] > at}
           d == [c EXCEPT !.rt.sid = s, !.rt.queue = Q]
           v == [sid |-> s, at |-> at, life |-> q.life, seen |-> at, tidy |-> TRUE]
           e == [d EXCEPT !.rt.cursor = at, !.rt.life = q.life, !.view = v,
                          !.strayed = FALSE]
           w == [c.rt EXCEPT !.sid = s, !.queue = Q]
           x == [c.rt EXCEPT !.sid = s, !.queue = Q, !.cursor = at, !.life = q.life]
<1>1. Install(c, q, s, bad)
      = IF bad = at THEN [Healthy(d) EXCEPT !.rt = Stopped(@, s)]
        ELSE Drain(Healthy(e), bad, "nothing", NoSession)
      BY DEF Install
<1>2. c.rt \in Runtimes BY DEF Clients
<1>3. Q \subseteq Sessions \X Nat BY <1>2 DEF Runtimes
<1>4. at \in Nat /\ q.life \in BootLives /\ q.life \in Known
      BY DEF Requests, BootLives, Known, Lives
<1>5. v \in Views /\ v.sid = s /\ v.seen = at /\ v.tidy BY <1>4 DEF Views
<1> HIDE DEF at, Q, v
<1>6. d = [c EXCEPT !.rt = w] BY <1>2 DEF Clients, Runtimes
<1>7. e = [c EXCEPT !.rt = x, !.view = v, !.strayed = FALSE]
      BY <1>2 DEF Clients, Runtimes, Q
<1>8. w \in Runtimes BY <1>2, <1>3 DEF Runtimes
<1>9. /\ x \in Runtimes /\ x.sid = s /\ x.cursor = at /\ x.life = q.life
      /\ x.phase = c.rt.phase /\ x.base = c.rt.base
      BY <1>2, <1>3, <1>4 DEF Runtimes, Known
<1>10. InOrder(x) BY <1>4, <1>9 DEF InOrder, Known
<1> HIDE DEF w, x, d, e
<1>11. d \in Clients /\ d.view = c.view /\ d.calls = c.calls /\ d.strayed = c.strayed
       BY <1>6, <1>8 DEF Clients
<1>12. e \in Clients /\ e.rt = x /\ e.view = v /\ e.calls = c.calls /\ e.strayed = FALSE
       BY <1>5, <1>7, <1>9 DEF Clients
<1>13. CASE bad = at
  <2>1. /\ Healthy(d) \in Clients /\ Healthy(d).view = c.view
        /\ Healthy(d).calls = c.calls /\ Healthy(d).strayed = c.strayed
        BY <1>11, HealthyKeeps
  <2>2. Healthy(d).strayed \/ Healthy(d).view.tidy BY <2>1 DEF Follows
  <2>3. Leaves(Healthy(d), [Healthy(d) EXCEPT !.rt = Stopped(@, s)])
        BY <2>1, <2>2, StopLeaves
  <2> QED BY <1>1, <1>13, <2>1, <2>3 DEF Leaves
<1>14. CASE bad # at
  <2>1. /\ Healthy(e) \in Clients /\ Healthy(e).rt = x /\ Healthy(e).view = v
        /\ Healthy(e).calls = c.calls
        BY <1>12, HealthyKeeps
  <2>2. Ready(Healthy(e)) BY <1>4, <1>5, <1>9, <1>10, <2>1 DEF Ready, Level
  <2>3. Leaves(Healthy(e), Drain(Healthy(e), bad, "nothing", NoSession))
        BY <2>2, DrainLeaves DEF Ids
  <2> QED BY <1>1, <1>14, <2>1, <2>3 DEF Leaves
<1> QED BY <1>13, <1>14

(* A failed request q, no longer in flight: what else is awaited still is.  *)
AwaitedBut(c, q) ==
  /\ c.rt.phase = "bootstrap" =>
        \E k \in c.calls \cup {q} : k.gen = c.rt.gen /\ k.kind # "recovery"
  /\ c.rt.phase = "recovery" =>
        \E k \in c.calls \cup {q} : k.gen = c.rt.gen /\ k.kind = "recovery"

(* An answer to a generation that was superseded may be dropped.            *)
LEMMA SupersededLeaves ==
  ASSUME NEW c, NEW q \in Requests, Proper(c), AwaitedBut(c, q), ~Current(c, q)
  PROVE  Leaves(c, c)
<1>1. CASE c.rt.life = "closed" BY <1>1 DEF Leaves, Proper, InOrder, Awaited
<1>2. CASE q.gen # c.rt.gen BY <1>2 DEF Leaves, Awaited, AwaitedBut
<1> QED BY <1>1, <1>2 DEF Current

LEMMA RollbackLeaves ==
  ASSUME NEW c, NEW q \in Requests, Proper(c), AwaitedBut(c, q), q.kind # "recovery", NEW bad,
         NEW after \in {"nothing", "fail"}, NEW about \in Ids
  PROVE  Leaves(c, Rollback(c, q, bad, after, about))
<1> DEFINE b == c.rt.base
           r == AtBaseline(c.rt)
           apart == b.sid # c.view.sid \/ b.cursor # c.view.seen
           d == [c EXCEPT !.rt = AtBaseline(@),
                          !.strayed = \/ @ \/ b.sid # c.view.sid \/ b.cursor # c.view.seen]
<1>1. CASE ~Current(c, q) BY <1>1, SupersededLeaves DEF Rollback
<1>2. CASE Current(c, q) /\ b = NoBase
  <2>1. c.rt.phase # "bootstrap" BY <1>2 DEF Proper, InOrder
  <2>2. Awaited(c) BY <2>1 DEF Awaited, AwaitedBut
  <2> QED BY <1>2, <2>2 DEF Rollback, Leaves
<1>3. CASE Current(c, q) /\ b # NoBase
  <2>1. c \in Clients /\ c.rt \in Runtimes /\ c.view \in Views BY DEF Proper, Clients
  <2>2. b \in Baselines /\ b.life # "activating"
        BY <1>3, <2>1 DEF Proper, InOrder, Runtimes
  <2>3. r \in Runtimes
    <3>1. {e \in c.rt.queue : e[1] = b.sid} \subseteq Sessions \X Nat BY <2>1 DEF Runtimes
    <3> QED BY <2>1, <2>2, <3>1 DEF AtBaseline, Runtimes, Baselines
  <2>4. /\ r.sid = b.sid /\ r.cursor = b.cursor /\ r.life = b.life
        /\ r.phase = "bootstrap" /\ r.base = b
        BY DEF AtBaseline
  <2>5. InOrder(r) BY <1>3, <2>2, <2>3, <2>4 DEF InOrder, Baselines
  <2>6. d = [c EXCEPT !.rt = r, !.strayed = c.strayed \/ apart] BY <2>1 DEF Clients
  <2>7. apart \in BOOLEAN /\ c.strayed \in BOOLEAN BY <2>1 DEF Clients
  <2>8. ~apart => b.sid = c.view.sid /\ b.cursor = c.view.seen OBVIOUS
  <2>9. Drain(d, bad, after, about) = Rollback(c, q, bad, after, about)
        BY <1>3 DEF Rollback
  <2> HIDE DEF r, apart, d
  <2>10. /\ d \in Clients /\ d.rt = r /\ d.view = c.view /\ d.calls = c.calls
         /\ d.strayed = (c.strayed \/ apart)
         BY <2>1, <2>3, <2>6, <2>7 DEF Clients
  <2>11. d.strayed \/ (d.view.tidy /\ Level(d))
         BY <2>4, <2>8, <2>10 DEF Proper, Follows, Level
  <2>12. Ready(d) BY <2>2, <2>4, <2>5, <2>10, <2>11 DEF Ready, Known, Baselines
  <2>13. Leaves(d, Drain(d, bad, after, about)) BY <2>12, DrainLeaves
  <2> QED BY <2>9, <2>10, <2>13 DEF Leaves
<1> QED BY <1>1, <1>2, <1>3

LEMMA AfterwardsLeaves ==
  ASSUME NEW b, NEW c, Leaves(b, c), NEW after, NEW about \in Ids
  PROVE  Leaves(b, Afterwards(c, after, about))
<1>1. c \in Clients /\ InOrder(c.rt) /\ (c.strayed \/ c.view.tidy)
      BY DEF Leaves, Proper, Follows
<1>2. CASE after = "fail" /\ Operable(c)
  <2>1. Leaves(c, Fail(c, about)) BY <1>1, <1>2, FailLeaves DEF Operable
  <2> QED BY <1>2, <2>1 DEF Afterwards, Leaves
<1>3. CASE ~(after = "fail" /\ Operable(c)) BY <1>3 DEF Afterwards
<1> QED BY <1>2, <1>3

LEMMA AnsweredLeaves ==
  ASSUME NEW c, NEW q \in Asked, Proper(c), AwaitedBut(c, q), NEW bad
  PROVE  Leaves(c, Answered(c, q, bad))
<1>1. c \in Clients /\ InOrder(c.rt) /\ Follows(c) /\ (c.strayed \/ c.view.tidy)
      BY DEF Proper, Follows
<1>2. /\ q \in Requests /\ q.sid \in Ids /\ q.about \in Ids /\ q.at \in Nat
      BY DEF Requests, Asked
<1>3. CASE q.kind = "recovery"
  <2> DEFINE d == CASE ~Current(c, q) -> c
                    [] Current(c, q) /\ q.state = "bootstrap" -> Install(c, q, q.sid, bad)
                    [] OTHER -> Fail(c, q.sid)
  <2>1. Answered(c, q, bad) = Afterwards(d, q.after, q.about) BY <1>3 DEF Answered, Recovered
  <2>2. Leaves(c, d)
    <3>1. CASE ~Current(c, q) BY <1>2, <3>1, SupersededLeaves
    <3>2. CASE Current(c, q) /\ q.state = "bootstrap"
          BY <1>1, <1>2, <3>2, InstallLeaves DEF Current
    <3>3. CASE Current(c, q) /\ q.state # "bootstrap"
          BY <1>1, <1>2, <3>3, FailLeaves DEF Current
    <3> QED BY <3>1, <3>2, <3>3
  <2> HIDE DEF d
  <2> QED BY <1>2, <2>1, <2>2, AfterwardsLeaves
<1>4. CASE q.kind # "recovery" /\ q.state = "bootstrap"
  <2>1. Target(q) \in Ids BY <1>2 DEF Target
  <2>2. CASE ~Current(c, q) BY <1>2, <1>4, <2>2, SupersededLeaves DEF Answered
  <2>3. CASE Current(c, q)
    <3>1. Leaves(c, Install(c, q, Target(q), bad))
          BY <1>1, <1>2, <2>1, <2>3, InstallLeaves DEF Current
    <3> QED BY <1>4, <2>3, <3>1 DEF Answered
  <2> QED BY <2>2, <2>3
<1>5. CASE q.kind # "recovery" /\ q.state = "malformed"
  <2> DEFINE d == IF Current(c, q) THEN Fail(c, q.sid) ELSE c
             after == IF q.kind = "activate" THEN "fail" ELSE "nothing"
  <2>1. Leaves(c, d)
    <3>1. CASE ~Current(c, q) BY <1>2, <3>1, SupersededLeaves
    <3>2. CASE Current(c, q) BY <1>1, <1>2, <3>2, FailLeaves DEF Current
    <3> QED BY <3>1, <3>2
  <2>2. Answered(c, q, bad) = Afterwards(d, after, q.sid)
        BY <1>5 DEF Answered, Malformed
  <2> HIDE DEF d, after
  <2> QED BY <1>2, <2>1, <2>2, AfterwardsLeaves
<1>6. CASE q.kind # "recovery" /\ q.state \notin {"bootstrap", "malformed"}
  <2> DEFINE after == AfterFailure(c, q)
             d == Rollback(c, q, bad, after, q.sid)
  <2>1. after \in {"nothing", "fail"} BY DEF AfterFailure
  <2>2. Answered(c, q, bad)
        = IF d.rt.phase = "recovery" /\ d # c THEN d ELSE Afterwards(d, after, q.sid)
        BY <1>6 DEF Answered, Rejected
  <2> HIDE DEF after
  <2>3. Leaves(c, d) BY <1>2, <1>6, <2>1, RollbackLeaves
  <2> HIDE DEF d
  <2> QED BY <1>2, <2>2, <2>3, AfterwardsLeaves
<1> QED BY <1>3, <1>4, <1>5, <1>6
-----------------------------------------------------------------------------
(* The steps.                                                               *)
ClientInv == Proper(Client) /\ Awaited(Client)

LEMMA BecomesProper ==
  ASSUME NEW STATE c, NEW STATE d, Leaves(c, d), Become(d)
  PROVE  ClientInv'
<1>1. d \in Clients BY DEF Leaves, Proper
<1>2. /\ rt' = d.rt /\ view' = d.view /\ reload' = d.reload /\ calls' = d.calls
      /\ strayed' = d.strayed /\ blind' = d.blind
      BY DEF Become
<1>3. Client' = d BY <1>1, <1>2 DEF Client, Clients
<1>4. InOrder(rt)'
  <2>1. InOrder(d.rt) BY DEF Leaves, Proper
  <2> QED BY <1>2, <2>1 DEF InOrder
<1>5. Proper(Client)'
  <2>1. (Client \in Clients)' BY <1>1, <1>3 DEF Clients, Runtimes, Requests, Baselines, Views, Asked, Aimed, Target
  <2> QED BY <1>2, <1>4, <2>1 DEF Leaves, Proper, Follows, Level, Client
<1>6. Awaited(Client)' BY <1>2 DEF Leaves, Awaited, Client
<1> QED BY <1>5, <1>6 DEF ClientInv

HostType ==
  /\ sent \in [Sessions -> Nat]
  /\ link \in {"connecting", "open", "degraded", "closed"}
  /\ wire \in Seq(Sessions \X Nat)
  /\ {ops, breaks, faults} \subseteq Nat

Inv == HostType /\ ClientInv

LEMMA InitInv == Init => Inv
<1> SUFFICES ASSUME Init PROVE Inv OBVIOUS
<1>1. HostType BY DEF Init, HostType
<1>2. /\ rt = [sid |-> NoSession, cursor |-> 0, gen |-> 0, life |-> "idle", phase |-> "idle",
               queue |-> {}, tried |-> FALSE, base |-> NoBase]
      /\ view = [sid |-> NoSession, at |-> 0, life |-> "idle", seen |-> 0, tidy |-> TRUE]
      /\ reload = "healthy" /\ calls = {} /\ strayed = FALSE /\ blind = FALSE
      BY DEF Init
<1>3. rt \in Runtimes BY <1>2 DEF Runtimes, Ids, Lives
<1>5. InOrder(rt) BY <1>2, <1>3 DEF InOrder
<1>6. view \in Views BY <1>2 DEF Views, Ids
<1>7. Client \in Clients BY <1>2, <1>3, <1>6 DEF Client, Clients
<1>8. Follows(Client) BY <1>2 DEF Client, Follows, Level
<1>9. Awaited(Client) BY <1>2 DEF Client, Awaited
<1> QED BY <1>1, <1>5, <1>7, <1>8, <1>9 DEF Inv, ClientInv, Proper, Client

(* A step of the client alone.                                              *)
LEMMA StaysProper ==
  ASSUME Inv
  PROVE  /\ Client \in Clients /\ Proper(Client) /\ Awaited(Client) /\ Leaves(Client, Client)
         /\ rt \in Runtimes /\ view \in Views /\ calls \subseteq Asked /\ Follows(Client)
         /\ (strayed \/ view.tidy) /\ InOrder(rt)
BY DEF Inv, ClientInv, Proper, Leaves, Follows, Clients, Client

LEMMA UserBegins ==
  ASSUME Inv, NEW kind \in {"activate", "operate", "create", "reply"}, NEW sid \in Ids,
         NEW about \in Ids, Operable(Client), Become(Begin(Client, kind, sid, about)),
         kind = "create" => about \in Sessions,
         kind \in {"activate", "operate"} => sid \in Sessions
  PROVE  ClientInv'
<1>1. Client.rt = rt /\ Client.view = view /\ Client.strayed = strayed BY DEF Client
<1>2. Leaves(Client, Begin(Client, kind, sid, about)) BY <1>1, StaysProper, BeginLeaves
<1> QED BY <1>2, BecomesProper

LEMMA UserKeeps ==
  ASSUME Inv, \/ \E s \in Sessions : Select(s) \/ Create(s)
              \/ Operate \/ Reply
  PROVE  Inv'
<1>1. HostType'
  <2>1. UserOp /\ Elsewhere BY DEF Select, Create, Operate, Reply
  <2> QED BY <2>1 DEF Inv, HostType, UserOp, Elsewhere, host
<1>2. view.sid \in Ids /\ rt.sid \in Ids BY StaysProper DEF Views, Runtimes
<1>3. CASE \E s \in Sessions : Select(s) \/ Create(s)
  <2>1. PICK s \in Sessions : Select(s) \/ Create(s) BY <1>3
  <2>2. CASE Select(s)
    <3>1. ClientInv' BY <2>2, UserBegins DEF Select, UserOp, Elsewhere, host, Ids
    <3> QED BY <1>1, <3>1 DEF Inv
  <2>3. CASE Create(s)
    <3>1. ClientInv' BY <2>3, UserBegins DEF Create, UserOp, Elsewhere, host, Ids
    <3> QED BY <1>1, <3>1 DEF Inv
  <2> QED BY <2>1, <2>2, <2>3
<1>4. CASE Operate
  <2>1. view.sid \in Sessions BY <1>2, <1>4 DEF Operate, Ids
  <2>2. Operable(Client) /\ Become(Begin(Client, "operate", view.sid, NoSession))
        BY <1>4 DEF Operate, UserOp
  <2>3. ClientInv' BY <2>1, <2>2, UserBegins DEF Ids
  <2> QED BY <1>1, <2>3 DEF Inv
<1>5. CASE Reply
  <2>1. Operable(Client) /\ Become(Begin(Client, "reply", rt.sid, NoSession))
        BY <1>5 DEF Reply, UserOp
  <2>2. ClientInv' BY <1>2, <2>1, UserBegins DEF Ids
  <2> QED BY <1>1, <2>2 DEF Inv
<1> QED BY <1>3, <1>4, <1>5

(* The steps that leave runtime, view and requests alone.                   *)
LEMMA ApartKeeps ==
  ASSUME Inv, rt' = rt, view' = view, calls' = calls, strayed' = strayed,
         blind' = blind, reload' \in {"healthy", "required", "degraded"}
  PROVE  ClientInv'
<1> DEFINE d == [Client EXCEPT !.reload = reload']
<1>1. /\ rt \in Runtimes /\ view \in Views /\ calls \subseteq Asked
      /\ strayed \in BOOLEAN /\ blind \in BOOLEAN
      BY DEF Inv, ClientInv, Proper, Clients, Client
<1>2. InOrder(rt)' BY StaysProper DEF InOrder
<1>3. (Client \in Clients)'
      BY <1>1 DEF Client, Clients, Runtimes, Requests, Baselines, Views, Asked, Aimed, Target
<1>4. Follows(Client)' BY StaysProper DEF Follows, Client, Level
<1>5. Awaited(Client)' BY StaysProper DEF Awaited, Client
<1> QED BY <1>2, <1>3, <1>4, <1>5 DEF ClientInv, Proper, Client

LEMMA ReloadTypes == Inv => reload \in {"healthy", "required", "degraded"}
BY DEF Inv, ClientInv, Proper, Clients, Client

LEMMA HostEmitsKeeps ==
  ASSUME Inv, NEW s \in Sessions, HostEmits(s)
  PROVE  Inv'
<1>1. HostType'
  <2>1. sent[s] + 1 \in Nat /\ sent' = [sent EXCEPT ![s] = sent[s] + 1]
        BY DEF HostEmits, Inv, HostType
  <2>2. sent' \in [Sessions -> Nat] BY <2>1 DEF Inv, HostType
  <2>3. <<s, sent[s] + 1>> \in Sessions \X Nat BY <2>1
  <2>4. wire' \in Seq(Sessions \X Nat) BY <2>3 DEF HostEmits, Inv, HostType
  <2> QED BY <2>2, <2>4 DEF HostEmits, Inv, HostType, counters
<1>2. ClientInv' BY ApartKeeps, ReloadTypes DEF HostEmits, client
<1> QED BY <1>1, <1>2 DEF Inv

LEMMA SocketKeeps ==
  ASSUME Inv, MessageGarbled \/ Breaks \/ Reconnects
  PROVE  Inv'
<1>1. HostType'
  <2>1. wire # <<>> => Tail(wire) \in Seq(Sessions \X Nat) BY DEF Inv, HostType
  <2>2. CASE MessageGarbled BY <2>1, <2>2 DEF MessageGarbled, Inv, HostType, host
  <2>3. CASE Breaks BY <2>3 DEF Breaks, Inv, HostType, host
  <2>4. CASE Reconnects BY <2>4 DEF Reconnects, Inv, HostType, host, counters
  <2> QED BY <2>2, <2>3, <2>4
<1>2. ClientInv'
      BY ApartKeeps, ReloadTypes
      DEF MessageGarbled, Breaks, Reconnects, client, host, ReloadDue
<1> QED BY <1>1, <1>2 DEF Inv

LEMMA OpenedKeeps ==
  ASSUME Inv, Opened
  PROVE  Inv'
<1>1. HostType' BY DEF Opened, Inv, HostType, counters, host
<1>2. Become(Reopened(Client)) /\ log' = log BY DEF Opened, host
<1>3. Leaves(Client, Reopened(Client))
  <2>1. CASE Reopened(Client) = Client BY <2>1, StaysProper
  <2>2. CASE Reopened(Client) # Client
    <3>1. /\ Client.view = view /\ Client.strayed = strayed /\ Client.rt = rt
          BY DEF Client
    <3>2. /\ Reopened(Client) = Begin(Client, "activate", view.sid, NoSession)
          /\ view.sid # NoSession
          BY <2>2, <3>1 DEF Reopened
    <3>3. Operable(Client) BY <2>2, <3>2 DEF Begin
    <3>4. view.sid \in Sessions BY <3>2, StaysProper DEF Views, Ids
    <3> QED BY <3>1, <3>2, <3>3, <3>4, StaysProper, BeginLeaves DEF Ids
  <2> QED BY <2>1, <2>2
<1> QED BY <1>1, <1>2, <1>3, BecomesProper DEF Inv

LEMMA CloseKeeps ==
  ASSUME Inv, Close
  PROVE  Inv'
<1>1. HostType' BY DEF Close, Inv, HostType, UserOp, host
<1>2. /\ rt' \in Runtimes /\ rt'.life = "closed" /\ rt'.phase = "idle" /\ rt'.base = NoBase
  <2>1. rt \in Runtimes BY StaysProper
  <2>2. rt.gen + 1 \in Nat BY <2>1 DEF Runtimes
  <2> QED BY <2>1, <2>2 DEF Close, Runtimes, Lives
<1>3. InOrder(rt)' BY <1>2 DEF InOrder, Runtimes, Baselines
<1>4. (Client \in Clients)'
  <2>1. /\ view' \in Views /\ calls' \subseteq Asked /\ strayed' \in BOOLEAN /\ blind' \in BOOLEAN
        BY DEF Close, Inv, ClientInv, Proper, Clients, Client
  <2> QED BY <1>2, <2>1
      DEF Close, Client, Clients, Runtimes, Requests, Baselines, Views, Asked, Aimed, Target
<1>5. Follows(Client)' BY <1>2, StaysProper DEF Close, Follows, Client, Level
<1>6. Awaited(Client)' BY <1>2 DEF Awaited, Client
<1> QED BY <1>1, <1>3, <1>4, <1>5, <1>6 DEF Inv, ClientInv, Proper, Client

(* The host's end of a request changes its state, not what it is.           *)
LEMMA RequestKept ==
  ASSUME Inv, NEW q \in calls, NEW k \in Asked, k.gen = q.gen, k.kind = q.kind,
         calls' = (calls \ {q}) \cup {k}, rt' = rt, view' = view,
         strayed' = strayed, blind' = blind, reload' = reload
  PROVE  ClientInv'
<1>1. /\ rt \in Runtimes /\ view \in Views /\ calls \subseteq Asked
      /\ strayed \in BOOLEAN /\ blind \in BOOLEAN
      BY DEF Inv, ClientInv, Proper, Clients, Client
<1>2. InOrder(rt)' BY StaysProper DEF InOrder
<1>3. calls' \subseteq Asked BY <1>1
<1>4. (Client \in Clients)'
      BY <1>1, <1>3, ReloadTypes
      DEF Client, Clients, Runtimes, Requests, Baselines, Views, Asked, Aimed, Target
<1>5. Follows(Client)' BY StaysProper DEF Follows, Client, Level
<1>6. Awaited(Client)'
  <2>1. \A j \in calls : \E i \in calls' : i.gen = j.gen /\ i.kind = j.kind
    <3> SUFFICES ASSUME NEW j \in calls
                 PROVE  \E i \in calls' : i.gen = j.gen /\ i.kind = j.kind
        OBVIOUS
    <3>1. CASE j = q BY <3>1
    <3>2. CASE j # q BY <3>2
    <3> QED BY <3>1, <3>2
  <2>2. Awaited(Client) BY StaysProper
  <2> QED BY <2>1, <2>2 DEF Awaited, Client
<1> QED BY <1>2, <1>4, <1>5, <1>6 DEF ClientInv, Proper, Client

LEMMA HostAnswersKeeps ==
  ASSUME Inv, NEW q \in calls, HostAnswers(q)
  PROVE  Inv'
<1>1. HostType' BY DEF HostAnswers, Inv, HostType, host, counters
<1>2. q \in Asked BY StaysProper
<1>3. CASE q.kind = "reply"
  <2> DEFINE k == [q EXCEPT !.state = "error"]
  <2>1. k \in Asked /\ k.gen = q.gen /\ k.kind = q.kind
        BY <1>2, <1>3 DEF Asked, Requests, Aimed, Target
  <2>2. calls' = (calls \ {q}) \cup {k} BY <1>3 DEF HostAnswers
  <2> HIDE DEF k
  <2>3. ClientInv' BY <2>1, <2>2, RequestKept DEF HostAnswers, host
  <2> QED BY <1>1, <2>3 DEF Inv
<1>4. CASE q.kind # "reply"
  <2> DEFINE n == sent[Target(q)]
             k == [q EXCEPT !.state = "bootstrap", !.at = n]
  <2>1. n \in Nat
    <3>1. Target(q) \in Sessions BY <1>2, <1>4 DEF Asked, Aimed
    <3> QED BY <3>1 DEF Inv, HostType
  <2>2. calls' = (calls \ {q}) \cup {k} BY <1>4 DEF HostAnswers
  <2> HIDE DEF n
  <2>4. k \in Asked /\ k.gen = q.gen /\ k.kind = q.kind
        BY <1>2, <2>1 DEF Asked, Requests, Aimed, Target
  <2> HIDE DEF k
  <2>5. ClientInv' BY <2>2, <2>4, RequestKept DEF HostAnswers, host
  <2> QED BY <1>1, <2>5 DEF Inv
<1> QED BY <1>3, <1>4

LEMMA CallFailsKeeps ==
  ASSUME Inv, NEW q \in calls, CallFails(q)
  PROVE  Inv'
<1>1. HostType' BY DEF CallFails, Inv, HostType, host
<1>2. q \in Asked BY StaysProper
<1>3. PICK state \in {"error", "malformed"} :
        calls' = (calls \ {q}) \cup {[q EXCEPT !.state = state]}
      BY DEF CallFails
<1> DEFINE k == [q EXCEPT !.state = state]
<1>4. k \in Asked /\ k.gen = q.gen /\ k.kind = q.kind
      BY <1>2 DEF Asked, Requests, Aimed, Target
<1> HIDE DEF k
<1>5. calls' = (calls \ {q}) \cup {k} BY <1>3 DEF k
<1>6. ClientInv' BY <1>4, <1>5, RequestKept DEF CallFails, host
<1> QED BY <1>1, <1>6 DEF Inv

(* The client without the request q that ends, with the answer k.           *)
LEMMA WithoutRequest ==
  ASSUME Inv, NEW q \in calls, NEW k \in Reports(q)
  PROVE  LET c == [Client EXCEPT !.calls = @ \ {q}]
         IN  /\ k \in Asked /\ Proper(c) /\ AwaitedBut(c, k)
             /\ c.rt = rt /\ c.view = view /\ c.calls = calls \ {q}
             /\ k.gen = q.gen /\ k.kind = q.kind /\ k.state = q.state /\ k.at = q.at
             /\ k.after = q.after /\ Target(k) = Target(q)
<1> DEFINE c == [Client EXCEPT !.calls = @ \ {q}]
<1>1. /\ c.rt = rt /\ c.view = view /\ c.calls = calls \ {q} /\ c.strayed = strayed
      BY DEF Client
<1>2. c \in Clients
  <2>1. Client \in Clients BY StaysProper
  <2> QED BY <2>1 DEF Clients
<1> HIDE DEF c
<1>3. Proper(c) BY <1>1, <1>2, StaysProper DEF Proper, Follows, Client, Level
<1>4. /\ k.gen = q.gen /\ k.kind = q.kind /\ k.state = q.state /\ k.at = q.at
      /\ k.after = q.after /\ Target(k) = Target(q) /\ k \in Asked
  <2>1. q \in Requests /\ Aimed(q) BY StaysProper DEF Asked
  <2>2. CASE k = q BY <2>1, <2>2 DEF Asked
  <2>3. CASE k # q
    <3>1. PICK life \in BootLives : k = [q EXCEPT !.life = life] BY <2>3 DEF Reports
    <3> QED BY <2>1, <3>1 DEF Requests, Target, Asked, Aimed
  <2> QED BY <2>2, <2>3
<1>5. AwaitedBut(c, k)
  <2>1. c.calls \cup {q} = calls BY <1>1
  <2>2. Awaited(Client) /\ Client.rt = rt /\ Client.calls = calls BY StaysProper DEF Client
  <2> QED BY <1>1, <1>4, <2>1, <2>2 DEF AwaitedBut, Awaited
<1> QED BY <1>1, <1>3, <1>4, <1>5 DEF c

LEMMA AnswerArrivesKeeps ==
  ASSUME Inv, NEW q \in calls, NEW bad, AnswerArrives(q, bad)
  PROVE  Inv'
<1> DEFINE c == [Client EXCEPT !.calls = @ \ {q}]
<1>1. HostType'
  <2>1. faults' \in Nat BY DEF AnswerArrives, Throws, Inv, HostType
  <2> QED BY <2>1 DEF AnswerArrives, Inv, HostType, host
<1>2. PICK k \in Reports(q) : Become(Answered(c, k, bad)) BY DEF AnswerArrives
<1>3. k \in Asked /\ Proper(c) /\ AwaitedBut(c, k) BY WithoutRequest
<1>4. Leaves(c, Answered(c, k, bad)) BY <1>3, AnsweredLeaves
<1>5. log' = log BY DEF AnswerArrives, host
<1>6. ClientInv' BY <1>2, <1>4, <1>5, BecomesProper
<1> QED BY <1>1, <1>6 DEF Inv

LEMMA AcceptedLeaves ==
  ASSUME NEW c, Proper(c), Awaited(c), NEW s \in Sessions, NEW n \in Nat, NEW bad
  PROVE  Leaves(c, Accepted(c, s, n, bad))
<1> DEFINE Q == c.rt.queue \cup {<<s, n>>}
           r == [c.rt EXCEPT !.queue = Q]
           d == [c EXCEPT !.rt.queue = @ \cup {<<s, n>>}]
<1>1. c.rt \in Runtimes /\ c \in Clients BY DEF Proper, Clients
<1>2. Q \subseteq Sessions \X Nat BY <1>1 DEF Runtimes
<1>3. d = [c EXCEPT !.rt = r] BY <1>1 DEF Clients, Runtimes
<1> HIDE DEF Q
<1>4. /\ r \in Runtimes /\ r.sid = c.rt.sid /\ r.cursor = c.rt.cursor /\ r.gen = c.rt.gen
      /\ r.life = c.rt.life /\ r.phase = c.rt.phase /\ r.base = c.rt.base
      BY <1>1, <1>2 DEF Runtimes
<1> HIDE DEF r
<1>5. /\ d \in Clients /\ d.rt = r /\ d.view = c.view /\ d.calls = c.calls
      /\ d.strayed = c.strayed
      BY <1>1, <1>3, <1>4 DEF Clients
<1>6. InOrder(r) BY <1>4 DEF Proper, InOrder
<1>7. Accepted(c, s, n, bad)
      = CASE Operable(c) /\ c.rt.phase # "idle" -> d
          [] Operable(c) /\ c.rt.phase = "idle" /\ s = c.rt.sid /\ n > c.rt.cursor ->
                Drain(d, bad, "nothing", NoSession)
          [] OTHER -> c
      BY DEF Accepted
<1> HIDE DEF d
<1>8. CASE Operable(c) /\ c.rt.phase # "idle"
  <2>1. Proper(d) /\ Awaited(d)
        BY <1>4, <1>5, <1>6 DEF Proper, Follows, Level, Awaited
  <2> QED BY <1>5, <1>7, <1>8, <2>1 DEF Leaves
<1>9. CASE Operable(c) /\ c.rt.phase = "idle" /\ s = c.rt.sid /\ n > c.rt.cursor
  <2>1. Ready(d)
        BY <1>4, <1>5, <1>6, <1>9
        DEF Ready, Proper, InOrder, Follows, Level, Operable, Known, Runtimes
  <2>2. Leaves(d, Drain(d, bad, "nothing", NoSession)) BY <2>1, DrainLeaves DEF Ids
  <2> QED BY <1>5, <1>7, <1>9, <2>2 DEF Leaves
<1>10. CASE ~(Operable(c) /\ c.rt.phase # "idle")
            /\ ~(Operable(c) /\ c.rt.phase = "idle" /\ s = c.rt.sid /\ n > c.rt.cursor)
       BY <1>7, <1>10 DEF Leaves
<1> QED BY <1>8, <1>9, <1>10

LEMMA MessageArrivesKeeps ==
  ASSUME Inv, NEW bad, MessageArrives(bad)
  PROVE  Inv'
<1> DEFINE s == Head(wire)[1]
           n == Head(wire)[2]
<1>1. wire \in Seq(Sessions \X Nat) /\ wire # <<>> BY DEF MessageArrives, Inv, HostType
<1>2. s \in Sessions /\ n \in Nat /\ Tail(wire) \in Seq(Sessions \X Nat) BY <1>1
<1>3. HostType'
  <2>1. faults' \in Nat BY DEF MessageArrives, Throws, Inv, HostType
  <2> QED BY <1>2, <2>1 DEF MessageArrives, Inv, HostType, host
<1>4. Become(Accepted(Client, s, n, bad)) /\ log' = log BY DEF MessageArrives, host
<1>5. Leaves(Client, Accepted(Client, s, n, bad)) BY <1>2, StaysProper, AcceptedLeaves
<1>6. ClientInv' BY <1>4, <1>5, BecomesProper
<1> QED BY <1>3, <1>6 DEF Inv

LEMMA StepInv == Inv /\ [Next]_vars => Inv'
<1> SUFFICES ASSUME Inv, [Next]_vars PROVE Inv' OBVIOUS
<1>1. CASE UNCHANGED vars
  <2>1. HostType' BY <1>1 DEF vars, Inv, HostType
  <2>2. ClientInv' BY <1>1, ApartKeeps, ReloadTypes DEF vars
  <2> QED BY <2>1, <2>2 DEF Inv
<1>2. CASE Next
  <2>1. CASE \E s \in Sessions : HostEmits(s) \/ Select(s) \/ Create(s)
        BY <2>1, HostEmitsKeeps, UserKeeps
  <2>2. CASE \E q \in calls : HostAnswers(q) \/ CallFails(q)
        BY <2>2, HostAnswersKeeps, CallFailsKeeps
  <2>3. CASE \E q \in calls, bad \in Positions : AnswerArrives(q, bad)
        BY <2>3, AnswerArrivesKeeps
  <2>4. CASE \E bad \in Positions : MessageArrives(bad) BY <2>4, MessageArrivesKeeps
  <2>5. CASE MessageGarbled \/ Breaks \/ Reconnects BY <2>5, SocketKeeps
  <2>6. CASE Opened BY <2>6, OpenedKeeps
  <2>7. CASE Operate \/ Reply BY <2>7, UserKeeps
  <2>8. CASE Close BY <2>8, CloseKeeps
  <2> QED BY <1>2, <2>1, <2>2, <2>3, <2>4, <2>5, <2>6, <2>7, <2>8 DEF Next
<1> QED BY <1>1, <1>2
-----------------------------------------------------------------------------
(* The inductive invariant: the client is in order, its store is level with *)
(* its runtime unless a rollback strayed, and what it waits for is asked.   *)
THEOREM InvHolds == Spec => []Inv
<1>1. Init => Inv BY InitInv
<1>2. Inv /\ [Next]_vars => Inv' BY StepInv
<1> QED BY <1>1, <1>2, PTL DEF Spec

(* The state has its types: requests are those of the client, the queue     *)
(* holds numbered events of sessions, and a runtime at rest has neither the *)
(* baseline of a transaction nor an activation under way.                   *)
THEOREM TypeCorrect == Spec => []TypeOK
<1>1. Inv => TypeOK
  <2> SUFFICES ASSUME Inv PROVE TypeOK OBVIOUS
  <2>1. HostType BY DEF Inv
  <2>2. rt \in Runtimes /\ view \in Views /\ calls \subseteq Asked BY StaysProper
  <2>3. calls \subseteq Requests BY <2>2 DEF Asked
  <2>4. strayed \in BOOLEAN /\ blind \in BOOLEAN
        BY StaysProper DEF Clients, Client
  <2>5. rt.phase = "idle" => rt.base = NoBase /\ rt.life # "activating"
        BY StaysProper DEF InOrder
  <2>6. {strayed, blind} \subseteq BOOLEAN BY <2>4, Zenon
  <2> QED BY <2>1, <2>2, <2>3, <2>5, <2>6, ReloadTypes DEF TypeOK, HostType
<1> QED BY <1>1, InvHolds, PTL

(* The timeline shown is the events of the session it names, each once and  *)
(* in order, and at rest the store is where the runtime is: however answers, *)
(* events, gaps, recoveries and clicks interleave, unless a rollback strayed. *)
THEOREM ViewFollowsRuntimeHolds == Spec => []ViewFollowsRuntime
<1>1. Inv => ViewFollowsRuntime
  <2> SUFFICES ASSUME Inv PROVE ViewFollowsRuntime OBVIOUS
  <2>1. Follows(Client) BY StaysProper
  <2>2. Client.rt = rt /\ Client.view = view /\ Client.strayed = strayed BY DEF Client
  <2> QED BY <2>1, <2>2 DEF Follows, Level, ViewFollowsRuntime, Serving
<1> QED BY <1>1, InvHolds, PTL

(* The client never buffers events for an answer that cannot come: the      *)
(* request of its generation that ends the buffering is in flight.          *)
THEOREM BufferingIsAwaitedHolds == Spec => []BufferingIsAwaited
<1>1. Inv => BufferingIsAwaited
  <2> SUFFICES ASSUME Inv PROVE BufferingIsAwaited OBVIOUS
  <2>1. Awaited(Client) BY StaysProper
  <2>2. Client.rt = rt /\ Client.calls = calls BY DEF Client
  <2> QED BY <2>1, <2>2 DEF Awaited, BufferingIsAwaited
<1> QED BY <1>1, InvHolds, PTL

-----------------------------------------------------------------------------
(* What a step does to the requests in flight.                              *)
LEMMA BeginAsks ==
  ASSUME NEW kind, NEW sid, NEW about, Become(Begin(Client, kind, sid, about))
  PROVE  calls \subseteq calls'
<1>1. Client.calls = calls BY DEF Client
<1>2. CASE ~Operable(Client) BY <1>1, <1>2 DEF Begin, Become
<1>3. CASE Operable(Client)
  <2> DEFINE q == Call(kind, rt.gen + 1, sid, "nothing", about)
  <2>1. Begin(Client, kind, sid, about).calls = calls \cup {q} BY <1>3 DEF Begin, Client
  <2> HIDE DEF q
  <2> QED BY <2>1 DEF Become
<1> QED BY <1>2, <1>3

(* The answer to a request of a superseded generation that nothing awaits.  *)
LEMMA LateAnswered ==
  ASSUME NEW c, NEW q, NEW bad, ~Current(c, q), q.after = "nothing",
         q.state = "bootstrap" \/ q.kind # "activate"
  PROVE  Answered(c, q, bad) = c
<1>1. Afterwards(c, "nothing", q.about) = c /\ Afterwards(c, "nothing", q.sid) = c
      BY DEF Afterwards
<1>2. CASE q.kind = "recovery" BY <1>1, <1>2 DEF Answered, Recovered
<1>3. CASE q.kind # "recovery" /\ q.state = "bootstrap" BY <1>3 DEF Answered
<1>4. CASE q.kind # "recovery" /\ q.state = "malformed"
      BY <1>1, <1>4 DEF Answered, Malformed
<1>5. CASE q.kind # "recovery" /\ q.state \notin {"bootstrap", "malformed"}
  <2>1. AfterFailure(c, q) = "nothing" BY <1>5 DEF AfterFailure
  <2>2. Rollback(c, q, bad, "nothing", q.sid) = c BY DEF Rollback
  <2>3. Rejected(c, q, bad) = c BY <1>1, <2>1, <2>2 DEF Rejected
  <2> QED BY <1>5, <2>3 DEF Answered
<1> QED BY <1>2, <1>3, <1>4, <1>5

LEMMA LateStep ==
  ASSUME Inv, Next, NEW q \in calls, q.gen < rt.gen,
         ~\E k \in calls' : k.gen = q.gen /\ k.kind = q.kind,
         q.state = "bootstrap" \/ q.kind # "activate",
         q.after = "nothing"
  PROVE  UNCHANGED <<rt, view>>
<1>1. q \notin calls' /\ ~(calls \subseteq calls') OBVIOUS
<1>2. CASE \E s \in Sessions : HostEmits(s) \/ Select(s) \/ Create(s)
  <2>1. calls \subseteq calls'
        BY <1>2, BeginAsks DEF HostEmits, Select, Create, client
  <2> QED BY <1>1, <2>1
<1>3. CASE \E k \in calls : HostAnswers(k) \/ CallFails(k)
      BY <1>3 DEF HostAnswers, CallFails
<1>4. CASE \E k \in calls, bad \in Positions : AnswerArrives(k, bad)
  <2>1. PICK p \in calls, bad \in Positions : AnswerArrives(p, bad) BY <1>4
  <2> DEFINE c == [Client EXCEPT !.calls = @ \ {p}]
  <2>2. PICK k \in Reports(p) : Become(Answered(c, k, bad)) BY <2>1 DEF AnswerArrives
  <2>3. /\ k \in Asked /\ Proper(c) /\ AwaitedBut(c, k)
        /\ c.rt = rt /\ c.view = view /\ c.calls = calls \ {p}
        /\ k.gen = p.gen /\ k.kind = p.kind /\ k.state = p.state /\ k.after = p.after
        BY WithoutRequest
  <2>4. Leaves(c, Answered(c, k, bad)) BY <2>3, AnsweredLeaves
  <2>5. p = q
    <3>1. calls \ {p} \subseteq calls' BY <2>2, <2>3, <2>4 DEF Leaves, Become
    <3> QED BY <1>1, <3>1
  <2>6. ~Current(c, k)
    <3>1. q.gen \in Nat /\ rt.gen \in Nat BY StaysProper DEF Asked, Requests, Runtimes
    <3> QED BY <2>3, <2>5, <3>1 DEF Current
  <2> HIDE DEF c
  <2>7. Answered(c, k, bad) = c BY <2>3, <2>5, <2>6, LateAnswered
  <2> QED BY <2>2, <2>3, <2>7 DEF Become
<1>5. CASE \E bad \in Positions : MessageArrives(bad)
  <2>1. PICK bad \in Positions : MessageArrives(bad) BY <1>5
  <2> DEFINE s == Head(wire)[1]
             n == Head(wire)[2]
  <2>2. wire \in Seq(Sessions \X Nat) /\ wire # <<>>
        BY <2>1 DEF MessageArrives, Inv, HostType
  <2>3. s \in Sessions /\ n \in Nat BY <2>2
  <2>4. Become(Accepted(Client, s, n, bad)) BY <2>1 DEF MessageArrives
  <2> HIDE DEF s, n
  <2>5. Leaves(Client, Accepted(Client, s, n, bad)) BY <2>3, StaysProper, AcceptedLeaves
  <2>6. Client.calls = calls BY DEF Client
  <2> QED BY <1>1, <2>4, <2>5, <2>6 DEF Leaves, Become
<1>6. CASE MessageGarbled \/ Breaks \/ Reconnects \/ Close
      BY <1>1, <1>6 DEF MessageGarbled, Breaks, Reconnects, Close, client
<1>7. CASE Opened
  <2>1. CASE Reopened(Client) = Client
        BY <1>1, <1>7, <2>1 DEF Opened, Become, Client
  <2>2. CASE Reopened(Client) # Client
    <3>1. Reopened(Client) = Begin(Client, "activate", Client.view.sid, NoSession)
          BY <2>2 DEF Reopened
    <3> QED BY <1>1, <1>7, <3>1, BeginAsks DEF Opened
  <2> QED BY <2>1, <2>2
<1>8. CASE Operate \/ Reply BY <1>1, <1>8, BeginAsks DEF Operate, Reply
<1> QED BY <1>2, <1>3, <1>4, <1>5, <1>6, <1>7, <1>8 DEF Next

(* A request whose generation was superseded ends without a trace in the    *)
(* runtime and the view, whichever of the other handlers ran in between.    *)
THEOREM LateAnswersHold == Spec => LateAnswersChangeNothing
<1> DEFINE Late(q) == /\ q.gen < rt.gen
                      /\ ~\E k \in calls' : k.gen = q.gen /\ k.kind = q.kind
                      /\ q.state = "bootstrap" \/ q.kind # "activate"
                      /\ q.after = "nothing"
<1>1. Inv /\ [Next]_vars => [\A q \in calls : Late(q) => UNCHANGED <<rt, view>>]_vars
      BY LateStep
<1> QED BY <1>1, InvHolds, PTL DEF Spec, LateAnswersChangeNothing
-----------------------------------------------------------------------------
(* What the client knows of the events it does not show.                    *)

(* Events that the socket still carries, and events of the session shown    *)
(* that will not come any more, if W is on its way.                         *)
OnWire == {wire[i] : i \in DOMAIN wire}

Lost(c, W) == \E n \in Unseen(c.view) : <<c.view.sid, n>> \notin c.rt.queue \cup W

Alive(c) == c.rt.life \notin {"failed", "closed"}

Warned(c) == c.reload # "healthy" \/ c.blind

(* A client that serves is warned of lost events, and of the events it will *)
(* lose if it shows a session while the socket is not cleanly open.         *)
Knows(c, W) ==
  Alive(c) /\ ((~c.strayed /\ Lost(c, W)) \/ (link # "open" /\ c.view.sid # NoSession))
    => Warned(c)

(* The requests for the bootstrap that the current generation began with.   *)
Openers(c) == {q \in c.calls : q.gen = c.rt.gen /\ q.kind # "recovery"}

Counted(c) == /\ \A q \in c.calls : q.gen <= c.rt.gen
              /\ \A q, k \in Openers(c) : q = k

(* A client that has its bootstrap waits for no other.                      *)
Settled(c) == Counted(c) /\ (Openers(c) # {} => c.rt.base = NoBase)

(* There is one such request at most, and none once the bootstrap is there, *)
(* unless the runtime was stopped meanwhile: what is rolled back is a       *)
(* client that was activating.                                              *)
Single(c) ==
  /\ Counted(c)
  /\ Openers(c) # {} => c.rt.phase = "bootstrap" \/ c.rt.base = NoBase
  /\ c.rt.phase = "bootstrap" =>
        /\ c.rt.life = "activating"
        /\ \A q \in c.calls : q.gen = c.rt.gen => q.kind # "recovery"

Heeds(c, W) == Single(c) /\ Knows(c, W)

(* W is what is on its way to c, but for what c has in its queue.           *)
Carries(c, W) == c.rt.queue \cup W = c.rt.queue \cup OnWire

Bounded == log \in Logs /\ \A s \in Sessions : sent[s] <= Len(log[s])

LEMMA SentIsBounded ==
  ASSUME Inv, Bounded, NEW s \in Sessions
  PROVE  sent[s] \in Nat /\ sent[s] <= MaxEvents
BY ClientAssumption DEF Inv, HostType, Bounded

LEMMA HealthyKnows ==
  ASSUME NEW c \in Clients, NEW W, Carries(c, W)
  PROVE  Knows(Healthy(c), W)
<1>1. /\ Healthy(c).rt = c.rt /\ Healthy(c).view = c.view
      /\ Healthy(c).blind = (link # "open" \/ \E n \in Unseen(c.view) : ~OnTheWay(c.rt, c.view.sid, n))
      BY DEF Healthy, Clients
<1>2. \A n : ~OnTheWay(c.rt, c.view.sid, n) <=> <<c.view.sid, n>> \notin c.rt.queue \cup W
      BY DEF OnTheWay, OnWire, Carries
<1>3. Lost(Healthy(c), W) => Healthy(c).blind BY <1>1, <1>2 DEF Lost
<1>4. link # "open" => Healthy(c).blind BY <1>1
<1> QED BY <1>3, <1>4 DEF Knows, Warned

LEMMA StopHeeds ==
  ASSUME NEW c \in Clients, Counted(c), NEW sid, NEW W
  PROVE  Heeds([c EXCEPT !.rt = Stopped(@, sid)], W)
<1> DEFINE d == [c EXCEPT !.rt = Stopped(@, sid)]
<1>1. /\ d.rt.life = "failed" /\ d.rt.phase = "idle" /\ d.rt.base = NoBase
      /\ d.rt.gen = c.rt.gen /\ d.calls = c.calls
      BY DEF Clients, Runtimes, Stopped
<1> HIDE DEF d
<1>2. Single(d) BY <1>1 DEF Single, Counted, Openers
<1>3. Knows(d, W) BY <1>1 DEF Knows, Alive
<1> QED BY <1>2, <1>3 DEF Heeds, d

LEMMA FailHeeds ==
  ASSUME NEW c \in Clients, Counted(c), c.rt.life # "closed", NEW sid, NEW W
  PROVE  Heeds(Fail(c, sid), W)
<1> DEFINE d == [c EXCEPT !.rt = Stopped(@, sid), !.reload = "degraded"]
<1>1. /\ d.rt.life = "failed" /\ d.rt.phase = "idle" /\ d.rt.base = NoBase
      /\ d.rt.gen = c.rt.gen /\ d.calls = c.calls
      BY DEF Clients, Runtimes, Stopped
<1>2. Fail(c, sid) = d BY DEF Fail
<1> HIDE DEF d
<1>3. Single(d) BY <1>1 DEF Single, Counted, Openers
<1>4. Knows(d, W) BY <1>1 DEF Knows, Alive
<1> QED BY <1>2, <1>3, <1>4 DEF Heeds

LEMMA BeginHeeds ==
  ASSUME NEW c \in Clients, Counted(c), NEW W, Knows(c, W), Operable(c),
         NEW kind \in {"activate", "operate", "create", "reply"}, NEW sid, NEW about
  PROVE  Heeds(Begin(c, kind, sid, about), W)
<1> DEFINE g == c.rt.gen + 1
           q == Call(kind, g, sid, "nothing", about)
           d == Begin(c, kind, sid, about)
<1>1. /\ d.rt.gen = g /\ d.rt.life = "activating" /\ d.rt.phase = "bootstrap"
      /\ d.rt.queue = c.rt.queue /\ d.view = c.view /\ d.reload = c.reload
      /\ d.calls = c.calls \cup {q} /\ d.strayed = c.strayed /\ d.blind = c.blind
      BY DEF Begin, Clients
<1>2. q.gen = g /\ q.kind = kind BY DEF Call
<1>3. g \in Nat /\ \A k \in c.calls : k.gen \in Nat /\ k.gen < g
  <2>1. c.rt.gen \in Nat /\ \A k \in c.calls : k.gen \in Nat
        BY DEF Clients, Runtimes, Asked, Requests
  <2> QED BY <2>1 DEF Counted
<1> HIDE DEF g, q, d
<1>4. Openers(d) = {q} BY <1>1, <1>2, <1>3 DEF Openers
<1>5. Counted(d) BY <1>1, <1>2, <1>3, <1>4 DEF Counted
<1>6. Single(d) BY <1>1, <1>2, <1>3, <1>4, <1>5 DEF Single
<1>7. Knows(d, W) BY <1>1 DEF Knows, Alive, Lost, Warned, Operable
<1> QED BY <1>6, <1>7 DEF Heeds, d

LEMMA PublishedKnows ==
  ASSUME NEW c, Ready(c), NEW bad, NEW W, Carries(c, W), Knows(c, W)
  PROVE  Knows(Published(c, bad), W) /\ Published(c, bad).rt.queue = c.rt.queue
<1> DEFINE r == c.rt
           to == Reached(r, bad)
           life == LifeAfter(r.life, r.sid, r.cursor, to)
           v == Shown(c.view, r.sid, Publishable(r, bad), to)
           s == [r EXCEPT !.cursor = to, !.life = life]
           e == [c EXCEPT !.rt = s, !.view = v]
<1>1. c \in Clients /\ r \in Runtimes /\ c.view \in Views BY DEF Ready, Clients
<1>2. CASE to = r.cursor BY <1>2 DEF Published
<1>3. CASE to # r.cursor
  <2>1. Published(c, bad) = Healthy(e)
    <3>1. [c EXCEPT !.rt.cursor = to, !.rt.life = life, !.view = v] = e
          BY <1>1 DEF Clients
    <3> QED BY <1>3, <3>1 DEF Published
  <2>2. to \in Nat /\ r.cursor <= to /\ r.sid \in Sessions BY <1>1, <1>3, ReachedIsLast
  <2>3. life \in Lives BY LifeStaysKnown DEF Ready, Known
  <2>4. v \in Views BY <1>1, <2>2 DEF Shown, Views
  <2> HIDE DEF to, life, v
  <2>5. s \in Runtimes /\ s.queue = r.queue BY <1>1, <2>2, <2>3 DEF Runtimes
  <2> HIDE DEF s
  <2>6. e \in Clients /\ e.rt = s BY <1>1, <2>4, <2>5 DEF Clients
  <2> HIDE DEF e
  <2>7. Carries(e, W) BY <2>5, <2>6 DEF Carries
  <2> QED BY <2>1, <2>5, <2>6, <2>7, HealthyKnows, HealthyKeeps
<1> QED BY <1>2, <1>3

LEMMA DrainHeeds ==
  ASSUME Inv, Bounded, NEW c, Ready(c), Settled(c), NEW W, Carries(c, W), Knows(c, W),
         NEW bad, NEW after \in {"nothing", "fail"}, NEW about \in Ids
  PROVE  Heeds(Drain(c, bad, after, about), W)
<1> DEFINE r == c.rt
           to == Reached(r, bad)
           opens == to > r.cursor /\ Opens(r, to)
           rest == {n \in Pending(r) : n > to}
           Q == {r.sid} \X rest
           p == Published(c, bad)
           d == [p EXCEPT !.rt.queue = Q]
           next == Call("recovery", r.gen, r.sid, after, about)
           idle == [d EXCEPT !.rt.phase = "idle", !.rt.base = NoBase]
           asks == [d EXCEPT !.rt.phase = "recovery", !.rt.tried = TRUE, !.calls = @ \cup {next}]
<1>1. Drain(c, bad, after, about)
      = CASE opens -> Begin(d, "activate", log[r.sid][to], NoSession)
          [] ~opens /\ to + 1 \in rest /\ to + 1 = bad -> [Healthy(d) EXCEPT !.rt = Stopped(@, r.sid)]
          [] ~opens /\ rest = {} -> idle
          [] ~opens /\ rest # {} /\ to + 1 # bad /\ r.tried -> Fail(d, r.sid)
          [] OTHER -> asks
      BY DEF Drain
<1>2. c \in Clients /\ r \in Runtimes BY DEF Ready, Clients
<1>3. /\ Ready(p) /\ p.rt.cursor = to /\ p.rt.sid = r.sid /\ p.rt.gen = r.gen
      /\ p.rt.base = r.base /\ p.calls = c.calls
      /\ to # r.cursor => p.rt.life = LifeAfter(r.life, r.sid, r.cursor, to)
      BY PublishedKeeps
<1>4. Knows(p, W) /\ p.rt.queue = r.queue BY PublishedKnows
<1>5. Q \subseteq Sessions \X Nat BY <1>2, RestIsQueue
<1>6. to \in Nat /\ r.cursor \in Nat /\ r.cursor <= to BY <1>2, ReachedIsLast DEF Runtimes
<1>7. \A n \in Nat : n > to /\ n <= MaxEvents /\ <<r.sid, n>> \in r.queue => <<r.sid, n>> \in Q
  <2> HIDE DEF to
  <2> QED BY <1>6, ClientAssumption DEF Pending
<1> HIDE DEF p, Q, to
<1>8. /\ d \in Clients /\ d.view = p.view /\ d.calls = c.calls /\ d.strayed = p.strayed
      /\ d.reload = p.reload /\ d.blind = p.blind
      /\ d.rt.cursor = to /\ d.rt.sid = r.sid /\ d.rt.gen = r.gen /\ d.rt.base = r.base
      /\ d.rt.life = p.rt.life /\ d.rt.queue = Q
  <2>1. p \in Clients /\ p.rt \in Runtimes BY <1>3 DEF Ready, Clients
  <2>2. [p.rt EXCEPT !.queue = Q] \in Runtimes BY <1>5, <2>1 DEF Runtimes
  <2>3. d = [p EXCEPT !.rt = [p.rt EXCEPT !.queue = Q]] BY <2>1 DEF Clients
  <2>4. d \in Clients /\ d.rt = [p.rt EXCEPT !.queue = Q] BY <2>1, <2>2, <2>3 DEF Clients
  <2> QED BY <1>3, <2>1, <2>3, <2>4 DEF Clients, Runtimes
<1>9. d.rt \in Runtimes BY <1>8 DEF Clients
<1> HIDE DEF d
<1>10. Settled(d) BY <1>8 DEF Settled, Counted, Openers
<1>11. d.rt.life \in Lives \ {"activating", "closed"} BY <1>3, <1>8 DEF Ready, Known
<1>12. Knows(d, W)
  <2>1. ASSUME ~p.strayed, Lost(d, W) PROVE Lost(p, W)
    <3>1. p.view.sid = r.sid /\ p.view.seen = to BY <1>3, <2>1 DEF Ready, Level
    <3>2. PICK n \in Unseen(p.view) : <<p.view.sid, n>> \notin Q \cup W BY <1>8, <2>1 DEF Lost
    <3>3. r.sid \in Sessions BY <1>2, <3>1, <3>2 DEF Unseen, Runtimes, Ids
    <3>4. n \in Nat /\ n > to /\ n <= MaxEvents
          BY <1>6, <3>1, <3>2, <3>3, SentIsBounded, ClientAssumption DEF Unseen
    <3>5. <<p.view.sid, n>> \notin r.queue \cup W BY <1>7, <3>1, <3>2, <3>4
    <3> QED BY <1>4, <3>2, <3>5 DEF Lost
  <2> QED BY <1>4, <1>8, <2>1 DEF Knows, Alive, Warned
<1>13. CASE opens
  <2>1. d.rt.life # "failed" BY <1>3, <1>6, <1>8, <1>13 DEF Opens
  <2>2. Operable(d) BY <1>11, <2>1 DEF Operable
  <2>3. Heeds(Begin(d, "activate", log[r.sid][to], NoSession), W)
        BY <1>8, <1>10, <1>12, <2>2, BeginHeeds DEF Settled
  <2> QED BY <1>1, <1>13, <2>3
<1>14. CASE ~opens /\ to + 1 \in rest /\ to + 1 = bad
  <2>1. Healthy(d) \in Clients /\ Healthy(d).rt = d.rt /\ Healthy(d).calls = d.calls
        BY <1>8, HealthyKeeps
  <2>2. Counted(Healthy(d)) BY <1>10, <2>1 DEF Settled, Counted, Openers
  <2>3. Heeds([Healthy(d) EXCEPT !.rt = Stopped(@, r.sid)], W) BY <2>1, <2>2, StopHeeds
  <2> QED BY <1>1, <1>14, <2>3
<1>15. CASE ~opens /\ ~(to + 1 \in rest /\ to + 1 = bad) /\ rest = {}
  <2>1. /\ idle.rt.phase = "idle" /\ idle.rt.base = NoBase /\ idle.rt.life = d.rt.life
        /\ idle.rt.gen = d.rt.gen /\ idle.rt.queue = d.rt.queue /\ idle.view = d.view
        /\ idle.calls = d.calls /\ idle.strayed = d.strayed /\ idle.reload = d.reload
        /\ idle.blind = d.blind
        BY <1>8, <1>9 DEF Clients, Runtimes
  <2> HIDE DEF idle
  <2>2. Single(idle) BY <1>10, <2>1 DEF Single, Settled, Counted, Openers
  <2>3. Knows(idle, W) BY <1>12, <2>1 DEF Knows, Alive, Lost, Warned
  <2> QED BY <1>1, <1>15, <2>2, <2>3 DEF Heeds
<1>16. CASE ~opens /\ rest # {} /\ to + 1 # bad /\ r.tried
  <2>1. Heeds(Fail(d, r.sid), W) BY <1>8, <1>10, <1>11, FailHeeds DEF Settled
  <2> QED BY <1>1, <1>16, <2>1
<1>17. CASE /\ ~opens /\ ~(to + 1 \in rest /\ to + 1 = bad) /\ rest # {}
            /\ ~(to + 1 # bad /\ r.tried)
  <2>1. /\ asks.rt.phase = "recovery" /\ asks.rt.base = d.rt.base /\ asks.rt.life = d.rt.life
        /\ asks.rt.gen = d.rt.gen /\ asks.rt.queue = d.rt.queue /\ asks.view = d.view
        /\ asks.calls = d.calls \cup {next} /\ asks.strayed = d.strayed
        /\ asks.reload = d.reload /\ asks.blind = d.blind
        BY <1>8, <1>9 DEF Clients, Runtimes
  <2>2. next.kind = "recovery" /\ next.gen = r.gen /\ r.gen \in Nat BY <1>2 DEF Call, Runtimes
  <2> HIDE DEF asks, next
  <2>3. Openers(asks) = Openers(d) BY <2>1, <2>2 DEF Openers
  <2>4. Counted(asks) BY <1>8, <1>10, <2>1, <2>2, <2>3 DEF Settled, Counted
  <2>5. Single(asks) BY <1>10, <2>1, <2>3, <2>4 DEF Single, Settled
  <2>6. Knows(asks, W) BY <1>12, <2>1 DEF Knows, Alive, Lost, Warned
  <2> QED BY <1>1, <1>17, <2>5, <2>6 DEF Heeds
<1> QED BY <1>13, <1>14, <1>15, <1>16, <1>17

LEMMA InstallHeeds ==
  ASSUME Inv, Bounded, NEW c \in Clients, InOrder(c.rt), Follows(c), Settled(c),
         c.rt.life # "closed", NEW q \in Requests, NEW s \in Ids, NEW bad
  PROVE  Heeds(Install(c, q, s, bad), OnWire)
<1> DEFINE at == q.at
           Q == {e \in c.rt.queue : e[1] = s /\ e[2] > at}
           d == [c EXCEPT !.rt.sid = s, !.rt.queue = Q]
           v == [sid |-> s, at |-> at, life |-> q.life, seen |-> at, tidy |-> TRUE]
           e == [d EXCEPT !.rt.cursor = at, !.rt.life = q.life, !.view = v,
                          !.strayed = FALSE]
           w == [c.rt EXCEPT !.sid = s, !.queue = Q]
           x == [c.rt EXCEPT !.sid = s, !.queue = Q, !.cursor = at, !.life = q.life]
<1>1. Install(c, q, s, bad)
      = IF bad = at THEN [Healthy(d) EXCEPT !.rt = Stopped(@, s)]
        ELSE Drain(Healthy(e), bad, "nothing", NoSession)
      BY DEF Install
<1>2. c.rt \in Runtimes BY DEF Clients
<1>3. Q \subseteq Sessions \X Nat BY <1>2 DEF Runtimes
<1>4. at \in Nat /\ q.life \in BootLives /\ q.life \in Known
      BY DEF Requests, BootLives, Known, Lives
<1>5. v \in Views /\ v.sid = s /\ v.seen = at /\ v.tidy BY <1>4 DEF Views
<1> HIDE DEF at, Q, v
<1>6. d = [c EXCEPT !.rt = w] BY <1>2 DEF Clients, Runtimes
<1>7. e = [c EXCEPT !.rt = x, !.view = v, !.strayed = FALSE]
      BY <1>2 DEF Clients, Runtimes, Q
<1>8. w \in Runtimes /\ w.gen = c.rt.gen /\ w.base = c.rt.base BY <1>2, <1>3 DEF Runtimes
<1>9. /\ x \in Runtimes /\ x.sid = s /\ x.cursor = at /\ x.life = q.life
      /\ x.phase = c.rt.phase /\ x.base = c.rt.base /\ x.gen = c.rt.gen
      BY <1>2, <1>3, <1>4 DEF Runtimes, Known
<1>10. InOrder(x) BY <1>4, <1>9 DEF InOrder, Known
<1> HIDE DEF w, x, d, e
<1>11. d \in Clients /\ d.rt = w /\ d.calls = c.calls BY <1>6, <1>8 DEF Clients
<1>12. e \in Clients /\ e.rt = x /\ e.view = v /\ e.calls = c.calls /\ e.strayed = FALSE
       BY <1>5, <1>7, <1>9 DEF Clients
<1>13. CASE bad = at
  <2>1. Healthy(d) \in Clients /\ Healthy(d).rt = w /\ Healthy(d).calls = c.calls
        BY <1>11, HealthyKeeps
  <2>2. Counted(Healthy(d)) BY <1>8, <2>1 DEF Settled, Counted, Openers
  <2> QED BY <1>1, <1>13, <2>1, <2>2, StopHeeds
<1>14. CASE bad # at
  <2>1. /\ Healthy(e) \in Clients /\ Healthy(e).rt = x /\ Healthy(e).view = v
        /\ Healthy(e).calls = c.calls
        BY <1>12, HealthyKeeps
  <2>2. Ready(Healthy(e)) BY <1>4, <1>5, <1>9, <1>10, <2>1 DEF Ready, Level
  <2>3. Settled(Healthy(e)) BY <1>9, <2>1 DEF Settled, Counted, Openers
  <2>4. Knows(Healthy(e), OnWire) BY <1>12, HealthyKnows DEF Carries
  <2>5. Heeds(Drain(Healthy(e), bad, "nothing", NoSession), OnWire)
        BY <2>2, <2>3, <2>4, DrainHeeds DEF Ids, Carries
  <2> QED BY <1>1, <1>14, <2>5
<1> QED BY <1>13, <1>14

(* What is rolled back is a client that was activating, and the baseline,   *)
(* unless it strays, is what the store shows.                               *)
LEMMA RollbackHeeds ==
  ASSUME Inv, Bounded, NEW c, NEW q, Proper(c), Single(c), Knows(c, OnWire),
         Current(c, q) => Settled(c) /\ (c.rt.base # NoBase => Alive(c)), NEW bad,
         NEW after \in {"nothing", "fail"}, NEW about \in Ids
  PROVE  Heeds(Rollback(c, q, bad, after, about), OnWire)
<1> DEFINE b == c.rt.base
           r == AtBaseline(c.rt)
           apart == b.sid # c.view.sid \/ b.cursor # c.view.seen
           d == [c EXCEPT !.rt = AtBaseline(@),
                          !.strayed = \/ @ \/ b.sid # c.view.sid \/ b.cursor # c.view.seen]
<1>1. CASE ~Current(c, q) \/ b = NoBase BY <1>1 DEF Rollback, Heeds
<1>2. CASE Current(c, q) /\ b # NoBase
  <2>1. c \in Clients /\ c.rt \in Runtimes /\ c.view \in Views BY DEF Proper, Clients
  <2>2. b \in Baselines /\ b.life # "activating"
        BY <1>2, <2>1 DEF Proper, InOrder, Runtimes
  <2>3. r \in Runtimes
    <3>1. {e \in c.rt.queue : e[1] = b.sid} \subseteq Sessions \X Nat BY <2>1 DEF Runtimes
    <3> QED BY <2>1, <2>2, <3>1 DEF AtBaseline, Runtimes, Baselines
  <2>4. /\ r.sid = b.sid /\ r.cursor = b.cursor /\ r.life = b.life /\ r.gen = c.rt.gen
        /\ r.phase = "bootstrap" /\ r.base = b
        /\ r.queue = {e \in c.rt.queue : e[1] = b.sid}
        BY DEF AtBaseline
  <2>5. InOrder(r) BY <1>2, <2>2, <2>3, <2>4 DEF InOrder, Baselines
  <2>6. d = [c EXCEPT !.rt = r, !.strayed = c.strayed \/ apart] BY <2>1 DEF Clients
  <2>7. apart \in BOOLEAN /\ c.strayed \in BOOLEAN BY <2>1 DEF Clients
  <2>8. ~apart => b.sid = c.view.sid /\ b.cursor = c.view.seen OBVIOUS
  <2>9. Drain(d, bad, after, about) = Rollback(c, q, bad, after, about)
        BY <1>2 DEF Rollback
  <2> HIDE DEF r, apart, d
  <2>10. /\ d \in Clients /\ d.rt = r /\ d.view = c.view /\ d.calls = c.calls
         /\ d.strayed = (c.strayed \/ apart) /\ d.reload = c.reload /\ d.blind = c.blind
         BY <2>1, <2>3, <2>6, <2>7 DEF Clients
  <2>11. d.strayed \/ (d.view.tidy /\ Level(d))
         BY <2>4, <2>8, <2>10 DEF Proper, Follows, Level
  <2>12. Ready(d) BY <2>2, <2>4, <2>5, <2>10, <2>11 DEF Ready, Known, Baselines
  <2>13. Settled(d) BY <1>2, <2>4, <2>10 DEF Settled, Counted, Openers
  <2>14. Alive(c) BY <1>2
  <2>15. Knows(d, OnWire)
    <3>1. ASSUME ~d.strayed, Lost(d, OnWire) PROVE ~c.strayed /\ Lost(c, OnWire)
      <4>1. ~c.strayed /\ b.sid = c.view.sid BY <2>8, <2>10, <3>1
      <4>2. PICK n \in Unseen(c.view) : <<c.view.sid, n>> \notin r.queue \cup OnWire
            BY <2>10, <3>1 DEF Lost
      <4>3. <<c.view.sid, n>> \notin c.rt.queue BY <2>4, <4>1, <4>2
      <4> QED BY <4>1, <4>2, <4>3 DEF Lost
    <3> QED BY <2>10, <2>14, <3>1 DEF Knows, Warned
  <2>16. Heeds(Drain(d, bad, after, about), OnWire)
         BY <2>12, <2>13, <2>15, DrainHeeds DEF Carries
  <2> QED BY <2>9, <2>16
<1> QED BY <1>1, <1>2

LEMMA AfterwardsHeeds ==
  ASSUME NEW c \in Clients, NEW W, Heeds(c, W), NEW after, NEW about
  PROVE  Heeds(Afterwards(c, after, about), W)
<1>1. Counted(c) /\ Knows(c, W) BY DEF Heeds, Single
<1>2. CASE after = "fail" /\ Operable(c)
  <2>1. c.rt.life # "closed" BY <1>2 DEF Operable
  <2> QED BY <1>1, <1>2, <2>1, FailHeeds DEF Afterwards
<1>3. CASE ~(after = "fail" /\ Operable(c)) BY <1>3 DEF Afterwards
<1> QED BY <1>2, <1>3

(* The request q ends, which was the one its generation waits for, if it is *)
(* of the current one.                                                      *)
LEMMA AnsweredHeeds ==
  ASSUME Inv, Bounded, Single(Client), Knows(Client, OnWire), NEW p \in calls,
         NEW q \in Reports(p), NEW bad
  PROVE  Heeds(Answered([Client EXCEPT !.calls = @ \ {p}], q, bad), OnWire)
<1> DEFINE c == [Client EXCEPT !.calls = @ \ {p}]
<1>1. /\ c.rt = rt /\ c.view = view /\ c.calls = calls \ {p} /\ c.strayed = strayed
      /\ c.reload = reload /\ c.blind = blind
      BY DEF Client
<1>2. /\ q \in Asked /\ Proper(c) /\ AwaitedBut(c, q)
      /\ p.gen = q.gen /\ p.kind = q.kind
      BY WithoutRequest
<1> HIDE DEF c
<1>3. c \in Clients /\ InOrder(c.rt) /\ Follows(c) BY <1>2 DEF Proper
<1>4. Openers(c) = Openers(Client) \ {p} BY <1>1 DEF Openers, Client
<1>5. Single(c)
  <2>1. Counted(c) BY <1>1, <1>4 DEF Single, Counted, Client
  <2> QED BY <1>1, <1>4, <2>1 DEF Single, Client
<1>6. Knows(c, OnWire) BY <1>1 DEF Knows, Alive, Lost, Warned, Client
<1>7. Current(c, q) => Settled(c) /\ (q.kind # "recovery" /\ c.rt.base # NoBase => Alive(c))
  <2> SUFFICES ASSUME q.gen = rt.gen
               PROVE  Settled(c) /\ (q.kind # "recovery" /\ c.rt.base # NoBase => Alive(c))
      BY <1>1 DEF Current
  <2>1. CASE q.kind = "recovery"
    <3>1. rt.phase # "bootstrap" BY <1>2, <2>1 DEF Single, Client
    <3> QED BY <1>1, <1>5, <2>1, <3>1 DEF Single, Settled
  <2>2. CASE q.kind # "recovery"
    <3>1. p \in Openers(Client) BY <1>2, <2>2 DEF Openers, Client
    <3>2. Openers(c) = {} BY <1>4, <3>1 DEF Single, Counted
    <3>3. rt.base # NoBase => rt.life = "activating" BY <3>1 DEF Single, Client
    <3> QED BY <1>1, <1>5, <3>2, <3>3 DEF Single, Settled, Alive
  <2> QED BY <2>1, <2>2
<1>8. /\ q \in Requests /\ q.sid \in Ids /\ q.about \in Ids /\ q.at \in Nat
      BY <1>2 DEF Requests, Asked
<1>9. Heeds(c, OnWire) /\ Counted(c) BY <1>5, <1>6 DEF Heeds, Single
<1>10. CASE q.kind = "recovery"
  <2> DEFINE d == CASE ~Current(c, q) -> c
                    [] Current(c, q) /\ q.state = "bootstrap" -> Install(c, q, q.sid, bad)
                    [] OTHER -> Fail(c, q.sid)
  <2>1. Answered(c, q, bad) = Afterwards(d, q.after, q.about) BY <1>10 DEF Answered, Recovered
  <2>2. d \in Clients /\ Heeds(d, OnWire)
    <3>1. CASE ~Current(c, q) BY <1>3, <1>9, <3>1
    <3>2. CASE Current(c, q) /\ q.state = "bootstrap"
      <4>1. c.rt.life # "closed" BY <3>2 DEF Current
      <4>2. Install(c, q, q.sid, bad) \in Clients
            BY <1>3, <1>8, <4>1, InstallLeaves DEF Leaves, Proper
      <4> QED BY <1>3, <1>7, <1>8, <3>2, <4>1, <4>2, InstallHeeds
    <3>3. CASE Current(c, q) /\ q.state # "bootstrap"
      <4>1. c.rt.life # "closed" /\ (c.strayed \/ c.view.tidy) BY <1>3, <3>3 DEF Current, Follows
      <4>2. Fail(c, q.sid) \in Clients BY <1>3, <1>8, <4>1, FailLeaves DEF Leaves, Proper
      <4> QED BY <1>3, <1>9, <3>3, <4>1, <4>2, FailHeeds
    <3> QED BY <3>1, <3>2, <3>3
  <2> HIDE DEF d
  <2>3. Heeds(Answered(c, q, bad), OnWire) BY <2>1, <2>2, AfterwardsHeeds
  <2> QED BY <2>3 DEF c
<1>11. CASE q.kind # "recovery" /\ q.state = "bootstrap"
  <2>1. Target(q) \in Ids BY <1>8 DEF Target
  <2>2. CASE ~Current(c, q) BY <1>9, <1>11, <2>2 DEF Answered, c
  <2>3. CASE Current(c, q)
    <3>1. c.rt.life # "closed" BY <2>3 DEF Current
    <3>2. Heeds(Install(c, q, Target(q), bad), OnWire)
          BY <1>3, <1>7, <1>8, <2>1, <2>3, <3>1, InstallHeeds
    <3> QED BY <1>11, <2>3, <3>2 DEF Answered, c
  <2> QED BY <2>2, <2>3
<1>12. CASE q.kind # "recovery" /\ q.state = "malformed"
  <2> DEFINE d == IF Current(c, q) THEN Fail(c, q.sid) ELSE c
             after == IF q.kind = "activate" THEN "fail" ELSE "nothing"
  <2>1. d \in Clients /\ Heeds(d, OnWire)
    <3>1. CASE ~Current(c, q) BY <1>3, <1>9, <3>1
    <3>2. CASE Current(c, q)
      <4>1. c.rt.life # "closed" /\ (c.strayed \/ c.view.tidy) BY <1>3, <3>2 DEF Current, Follows
      <4>2. Fail(c, q.sid) \in Clients BY <1>3, <1>8, <4>1, FailLeaves DEF Leaves, Proper
      <4> QED BY <1>3, <1>9, <3>2, <4>1, <4>2, FailHeeds
    <3> QED BY <3>1, <3>2
  <2>2. Answered(c, q, bad) = Afterwards(d, after, q.sid)
        BY <1>12 DEF Answered, Malformed
  <2> HIDE DEF d, after
  <2>3. Heeds(Answered(c, q, bad), OnWire) BY <2>1, <2>2, AfterwardsHeeds
  <2> QED BY <2>3 DEF c
<1>13. CASE q.kind # "recovery" /\ q.state \notin {"bootstrap", "malformed"}
  <2> DEFINE after == AfterFailure(c, q)
             d == Rollback(c, q, bad, after, q.sid)
  <2>1. after \in {"nothing", "fail"} BY DEF AfterFailure
  <2>2. Answered(c, q, bad)
        = IF d.rt.phase = "recovery" /\ d # c THEN d ELSE Afterwards(d, after, q.sid)
        BY <1>13 DEF Answered, Rejected
  <2> HIDE DEF after
  <2>3. d \in Clients
        BY <1>2, <1>8, <1>13, <2>1, RollbackLeaves DEF Leaves, Proper
  <2>4. Heeds(d, OnWire) BY <1>2, <1>5, <1>6, <1>7, <1>8, <1>13, <2>1, RollbackHeeds
  <2> HIDE DEF d
  <2>5. Heeds(Answered(c, q, bad), OnWire) BY <2>2, <2>3, <2>4, AfterwardsHeeds
  <2> QED BY <2>5 DEF c
<1> QED BY <1>10, <1>11, <1>12, <1>13

(* An event arrives, and W is what the socket carries without it.           *)
LEMMA AcceptedHeeds ==
  ASSUME Inv, Bounded, NEW c, Proper(c), Single(c), Knows(c, OnWire),
         NEW s \in Sessions, NEW n \in Nat, NEW W, OnWire = W \cup {<<s, n>>}, NEW bad
  PROVE  Heeds(Accepted(c, s, n, bad), W)
<1> DEFINE Q == c.rt.queue \cup {<<s, n>>}
           r == [c.rt EXCEPT !.queue = Q]
           d == [c EXCEPT !.rt.queue = @ \cup {<<s, n>>}]
<1>1. c.rt \in Runtimes /\ c \in Clients BY DEF Proper, Clients
<1>2. Q \subseteq Sessions \X Nat BY <1>1 DEF Runtimes
<1>3. d = [c EXCEPT !.rt = r] BY <1>1 DEF Clients, Runtimes
<1>4. Q \cup W = c.rt.queue \cup OnWire /\ Q \cup W = Q \cup OnWire OBVIOUS
<1> HIDE DEF Q
<1>5. /\ r \in Runtimes /\ r.sid = c.rt.sid /\ r.cursor = c.rt.cursor /\ r.gen = c.rt.gen
      /\ r.life = c.rt.life /\ r.phase = c.rt.phase /\ r.base = c.rt.base /\ r.queue = Q
      BY <1>1, <1>2 DEF Runtimes
<1> HIDE DEF r
<1>6. /\ d \in Clients /\ d.rt = r /\ d.view = c.view /\ d.calls = c.calls
      /\ d.strayed = c.strayed /\ d.reload = c.reload /\ d.blind = c.blind
      BY <1>1, <1>3, <1>5 DEF Clients
<1>7. InOrder(r) BY <1>5 DEF Proper, InOrder
<1>8. Accepted(c, s, n, bad)
      = CASE Operable(c) /\ c.rt.phase # "idle" -> d
          [] Operable(c) /\ c.rt.phase = "idle" /\ s = c.rt.sid /\ n > c.rt.cursor ->
                Drain(d, bad, "nothing", NoSession)
          [] OTHER -> c
      BY DEF Accepted
<1> HIDE DEF d
<1>9. Openers(d) = Openers(c) BY <1>5, <1>6 DEF Openers
<1>10. Counted(d) BY <1>5, <1>6, <1>9 DEF Single, Counted
<1>11. Single(d) BY <1>5, <1>6, <1>9, <1>10 DEF Single
<1>12. Knows(d, W) BY <1>4, <1>5, <1>6 DEF Knows, Alive, Lost, Warned
<1>13. CASE Operable(c) /\ c.rt.phase # "idle" BY <1>8, <1>11, <1>12, <1>13 DEF Heeds
<1>14. CASE Operable(c) /\ c.rt.phase = "idle" /\ s = c.rt.sid /\ n > c.rt.cursor
  <2>1. Ready(d)
        BY <1>5, <1>6, <1>7, <1>14
        DEF Ready, Proper, InOrder, Follows, Level, Operable, Known, Runtimes
  <2>2. Settled(d) BY <1>5, <1>6, <1>7, <1>10, <1>14 DEF Settled, InOrder
  <2>3. Carries(d, W) BY <1>4, <1>5, <1>6 DEF Carries
  <2>4. Heeds(Drain(d, bad, "nothing", NoSession), W)
        BY <1>12, <2>1, <2>2, <2>3, DrainHeeds DEF Ids
  <2> QED BY <1>8, <1>14, <2>4
<1>15. CASE ~(Operable(c) /\ c.rt.phase # "idle")
            /\ ~(Operable(c) /\ c.rt.phase = "idle" /\ s = c.rt.sid /\ n > c.rt.cursor)
  <2>1. ASSUME Alive(c), ~c.strayed, Lost(c, W) PROVE Lost(c, OnWire)
    <3>1. c.rt.phase = "idle" /\ ~(s = c.rt.sid /\ n > c.rt.cursor)
          BY <1>15, <2>1 DEF Alive, Operable
    <3>2. c.view.sid = c.rt.sid /\ c.view.seen = c.rt.cursor
          BY <2>1, <3>1 DEF Proper, Follows, Level, Alive
    <3>3. PICK m \in Unseen(c.view) : <<c.view.sid, m>> \notin c.rt.queue \cup W
          BY <2>1 DEF Lost
    <3>4. <<c.view.sid, m>> # <<s, n>>
      <4>1. CASE c.view.sid = NoSession BY <4>1, ClientAssumption
      <4>2. CASE c.view.sid # NoSession
        <5>1. c.view.sid \in Sessions /\ c.rt.cursor \in Nat
              BY <1>1, <3>2, <4>2 DEF Runtimes, Ids
        <5>2. sent[c.view.sid] \in Nat BY <5>1 DEF Inv, HostType
        <5>3. m \in (c.rt.cursor + 1)..sent[c.view.sid] BY <3>2, <3>3, <4>2 DEF Unseen
        <5>4. m > c.rt.cursor BY <5>1, <5>2, <5>3
        <5> QED BY <3>1, <3>2, <5>4
      <4> QED BY <4>1, <4>2
    <3> QED BY <3>3, <3>4 DEF Lost
  <2>2. Knows(c, W) BY <2>1 DEF Knows
  <2> QED BY <1>8, <1>15, <2>2 DEF Heeds
<1> QED BY <1>13, <1>14, <1>15
-----------------------------------------------------------------------------
(* The steps, again.                                                        *)
StaleInv == Bounded /\ Single(Client) /\ Knows(Client, OnWire)

(* What an event that is sent, or one that arrives, makes of what is on the *)
(* wire.                                                                    *)
LEMMA WireGrows ==
  ASSUME HostType, NEW e \in Sessions \X Nat, wire' = Append(wire, e)
  PROVE  OnWire' = OnWire \cup {e}
<1>1. wire \in Seq(Sessions \X Nat) BY DEF HostType
<1>2. /\ DOMAIN wire' = DOMAIN wire \cup {Len(wire) + 1}
      /\ wire'[Len(wire) + 1] = e /\ \A i \in DOMAIN wire : wire'[i] = wire[i]
      BY <1>1
<1> QED BY <1>2 DEF OnWire

LEMMA WireShrinks ==
  ASSUME HostType, wire # <<>>, wire' = Tail(wire)
  PROVE  OnWire = OnWire' \cup {Head(wire)}
<1>1. wire \in Seq(Sessions \X Nat) BY DEF HostType
<1>2. /\ Len(wire) \in Nat /\ DOMAIN wire = 1..Len(wire)
      /\ DOMAIN wire' = 1..(Len(wire) - 1)
      /\ \A i \in 1..(Len(wire) - 1) : wire'[i] = wire[i + 1]
      /\ Len(wire) > 0 /\ Head(wire) = wire[1]
      BY <1>1
<1>3. ASSUME NEW i \in DOMAIN wire PROVE wire[i] \in OnWire' \cup {Head(wire)}
  <2>1. CASE i = 1 BY <1>2, <2>1
  <2>2. CASE i # 1
    <3>1. i - 1 \in DOMAIN wire' /\ wire'[i - 1] = wire[i] BY <1>2, <2>2
    <3> QED BY <3>1 DEF OnWire
  <2> QED BY <2>1, <2>2
<1>4. ASSUME NEW i \in DOMAIN wire' PROVE wire'[i] \in OnWire
  <2>1. i + 1 \in DOMAIN wire /\ wire'[i] = wire[i + 1] BY <1>2
  <2> QED BY <2>1 DEF OnWire
<1>5. Head(wire) \in OnWire BY <1>2 DEF OnWire
<1> QED BY <1>3, <1>4, <1>5 DEF OnWire

LEMMA SameBound ==
  ASSUME Bounded, log' = log, sent' = sent
  PROVE  Bounded'
BY DEF Bounded

(* The client becomes d, which heeds what the socket carries afterwards.    *)
LEMMA BecomesHeedful ==
  ASSUME NEW STATE d, d \in Clients, Become(d), sent' = sent, link' = link, Heeds(d, OnWire')
  PROVE  Single(Client)' /\ Knows(Client, OnWire)'
<1>1. /\ rt' = d.rt /\ view' = d.view /\ reload' = d.reload /\ calls' = d.calls
      /\ strayed' = d.strayed /\ blind' = d.blind
      BY DEF Become
<1>2. Single(Client)' BY <1>1 DEF Heeds, Single, Counted, Openers, Client
<1>3. Knows(Client, OnWire)'
      BY <1>1 DEF Heeds, Knows, Alive, Lost, Warned, Client, Unseen
<1> QED BY <1>2, <1>3

(* The steps that leave runtime, view and requests alone.                   *)
LEMMA ApartHeeds ==
  ASSUME StaleInv, rt' = rt, calls' = calls
  PROVE  Single(Client)'
BY DEF StaleInv, Single, Counted, Openers, Client

LEMMA KnowsStays ==
  ASSUME Knows(Client, OnWire), UNCHANGED <<sent, link, wire, rt, view, reload, strayed, blind>>
  PROVE  Knows(Client, OnWire)'
<1>1. OnWire' = OnWire /\ Unseen(view)' = Unseen(view) BY DEF OnWire, Unseen
<1>2. Lost(Client, OnWire)' = Lost(Client, OnWire) BY <1>1 DEF Lost, Client
<1> QED BY <1>2 DEF Knows, Alive, Warned, Client

LEMMA HostEmitsHeeds ==
  ASSUME Inv, StaleInv, NEW s \in Sessions, HostEmits(s)
  PROVE  StaleInv'
<1>1. HostType /\ sent[s] \in Nat BY DEF Inv, HostType
<1>2. /\ log' = log /\ sent' = [sent EXCEPT ![s] = sent[s] + 1] /\ sent[s] < Len(log[s])
      /\ link' = link /\ UNCHANGED client
      BY DEF HostEmits
<1>3. /\ Len(log[s]) \in Nat /\ \A x \in Sessions : sent'[x] = IF x = s THEN sent[s] + 1 ELSE sent[x]
      BY <1>1, <1>2, ClientAssumption DEF HostType, StaleInv, Bounded
<1>4. Bounded' BY <1>1, <1>2, <1>3 DEF StaleInv, Bounded
<1>5. Single(Client)' BY <1>2, ApartHeeds DEF client
<1>6. Knows(Client, OnWire)'
  <2>1. view' = view /\ rt' = rt /\ Client' = Client BY <1>2 DEF client, Client
  <2>2. CASE link \in {"open", "degraded"}
    <3>1. OnWire' = OnWire \cup {<<s, sent[s] + 1>>}
      <4> DEFINE e == <<s, sent[s] + 1>>
      <4>1. e \in Sessions \X Nat BY <1>1
      <4>2. wire' = Append(wire, e) BY <2>2 DEF HostEmits
      <4> HIDE DEF e
      <4>3. OnWire' = OnWire \cup {e} BY <1>1, <4>1, <4>2, WireGrows
      <4> QED BY <4>3 DEF e
    <3>2. ASSUME Lost(Client, OnWire)' PROVE Lost(Client, OnWire)
      <4>1. PICK n \in Unseen(view)' : <<view.sid, n>> \notin rt.queue \cup OnWire'
            BY <2>1, <3>2 DEF Lost, Client
      <4>2. n \in Unseen(view)
        <5>1. view.sid \in Sessions /\ view.seen \in Nat
              BY <2>1, <4>1, StaysProper DEF Unseen, Views, Ids
        <5>2. n \in (view.seen + 1)..sent'[view.sid] /\ sent[view.sid] \in Nat
              BY <2>1, <4>1, <5>1, ClientAssumption DEF Unseen, Inv, HostType
        <5>3. n # sent[s] + 1 \/ view.sid # s BY <3>1, <4>1
        <5> QED BY <1>3, <5>1, <5>2, <5>3, ClientAssumption DEF Unseen
      <4> QED BY <3>1, <4>1, <4>2 DEF Lost, Client
    <3> QED BY <1>2, <2>1, <3>2 DEF StaleInv, Knows, Alive, Warned
  <2>3. CASE link \notin {"open", "degraded"}
    <3>1. Lost(Client, OnWire)' => view.sid # NoSession BY <2>1 DEF Lost, Client, Unseen
    <3> QED BY <1>2, <2>1, <2>3, <3>1 DEF StaleInv, Knows, Alive, Warned, Client
  <2> QED BY <2>2, <2>3
<1> QED BY <1>4, <1>5, <1>6 DEF StaleInv

(* The host's end of a request changes neither its generation nor its kind. *)
LEMMA RequestHeeded ==
  ASSUME StaleInv, NEW q \in calls, NEW k, k.gen = q.gen, k.kind = q.kind,
         calls' = (calls \ {q}) \cup {k},
         UNCHANGED <<log, sent, link, wire, rt, view, reload, strayed, blind>>
  PROVE  StaleInv'
<1>1. Openers(Client)' = IF q \in Openers(Client) THEN (Openers(Client) \ {q}) \cup {k}
                                                  ELSE Openers(Client)
      BY DEF Openers, Client
<1>2. Counted(Client)' BY <1>1 DEF StaleInv, Single, Counted, Client
<1>3. Single(Client)' BY <1>1, <1>2 DEF StaleInv, Single, Client
<1>4. Knows(Client, OnWire)' BY KnowsStays DEF StaleInv
<1> QED BY <1>3, <1>4, SameBound DEF StaleInv

LEMMA HostAnswersHeeds ==
  ASSUME StaleInv, NEW q \in calls, HostAnswers(q), q \in Requests
  PROVE  StaleInv'
<1> DEFINE k == IF q.kind = "reply" THEN [q EXCEPT !.state = "error"]
                ELSE [q EXCEPT !.state = "bootstrap", !.at = sent[Target(q)]]
<1>1. k.gen = q.gen /\ k.kind = q.kind BY DEF Requests
<1>2. calls' = (calls \ {q}) \cup {k} BY DEF HostAnswers
<1> HIDE DEF k
<1> QED BY <1>1, <1>2, RequestHeeded DEF HostAnswers, host

LEMMA CallFailsHeeds ==
  ASSUME StaleInv, NEW q \in calls, CallFails(q), q \in Requests
  PROVE  StaleInv'
<1>1. PICK state \in {"error", "malformed"} :
        calls' = (calls \ {q}) \cup {[q EXCEPT !.state = state]}
      BY DEF CallFails
<1> DEFINE k == [q EXCEPT !.state = state]
<1>2. k.gen = q.gen /\ k.kind = q.kind BY DEF Requests
<1>3. calls' = (calls \ {q}) \cup {k} BY <1>1
<1> HIDE DEF k
<1> QED BY <1>2, <1>3, RequestHeeded DEF CallFails, host

LEMMA AnswerArrivesHeeds ==
  ASSUME Inv, StaleInv, NEW q \in calls, NEW bad, AnswerArrives(q, bad)
  PROVE  StaleInv'
<1> DEFINE c == [Client EXCEPT !.calls = @ \ {q}]
<1>1. PICK k \in Reports(q) : Become(Answered(c, k, bad)) BY DEF AnswerArrives
<1> DEFINE d == Answered(c, k, bad)
<1>2. k \in Asked /\ Proper(c) /\ AwaitedBut(c, k) BY WithoutRequest
<1>3. Heeds(d, OnWire) BY AnsweredHeeds DEF StaleInv
<1>4. d \in Clients
  <2> HIDE DEF c
  <2>1. Leaves(c, Answered(c, k, bad)) BY <1>2, AnsweredLeaves
  <2> QED BY <2>1 DEF Leaves, Proper
<1>5. UNCHANGED <<log, sent, link, wire>> BY DEF AnswerArrives, host
<1>6. OnWire' = OnWire BY <1>5 DEF OnWire
<1> HIDE DEF d
<1>7. Become(d) BY <1>1 DEF d
<1>8. Single(Client)' /\ Knows(Client, OnWire)'
      BY <1>3, <1>4, <1>5, <1>6, <1>7, BecomesHeedful
<1> QED BY <1>5, <1>8, SameBound DEF StaleInv

LEMMA MessageArrivesHeeds ==
  ASSUME Inv, StaleInv, NEW bad, MessageArrives(bad)
  PROVE  StaleInv'
<1> DEFINE s == Head(wire)[1]
           n == Head(wire)[2]
           d == Accepted(Client, s, n, bad)
<1>1. wire \in Seq(Sessions \X Nat) /\ wire # <<>> /\ HostType
      BY DEF MessageArrives, Inv, HostType
<1>2. s \in Sessions /\ n \in Nat /\ Head(wire) = <<s, n>> BY <1>1
<1>3. Become(d) /\ UNCHANGED <<log, sent, link>> /\ wire' = Tail(wire)
      BY DEF MessageArrives, host
<1>4. OnWire = OnWire' \cup {<<s, n>>} BY <1>1, <1>2, <1>3, WireShrinks
<1>5. Proper(Client) /\ Awaited(Client) BY StaysProper
<1> HIDE DEF s, n
<1>6. Heeds(d, OnWire') BY <1>2, <1>4, <1>5, AcceptedHeeds DEF StaleInv
<1>7. d \in Clients BY <1>2, <1>5, AcceptedLeaves DEF Leaves, Proper
<1> HIDE DEF d
<1>8. Single(Client)' /\ Knows(Client, OnWire)' BY <1>3, <1>6, <1>7, BecomesHeedful
<1> QED BY <1>3, <1>8, SameBound DEF StaleInv

LEMMA SocketHeeds ==
  ASSUME Inv, StaleInv, MessageGarbled \/ Breaks \/ Reconnects
  PROVE  StaleInv'
<1>1. /\ UNCHANGED <<log, sent, rt, view, calls, strayed, blind>>
      BY DEF MessageGarbled, Breaks, Reconnects, host, client
<1>2. Bounded' BY <1>1, SameBound DEF StaleInv
<1>3. Single(Client)' BY <1>1, ApartHeeds
<1>4. Knows(Client, OnWire)'
  <2>1. CASE reload' = "required" BY <2>1 DEF Knows, Warned, Client
  <2>2. CASE link # "open" /\ link' # "open" /\ reload' = reload
    <3>1. Lost(Client, OnWire)' => view.sid # NoSession BY <1>1 DEF Lost, Client, Unseen
    <3> QED BY <1>1, <2>2, <3>1 DEF StaleInv, Knows, Alive, Warned, Client
  <2> QED BY <2>1, <2>2 DEF MessageGarbled, Breaks, Reconnects, ReloadDue, client
<1> QED BY <1>2, <1>3, <1>4 DEF StaleInv

LEMMA OpenedHeeds ==
  ASSUME Inv, StaleInv, Opened
  PROVE  StaleInv'
<1> DEFINE d == Reopened(Client)
<1>1. Become(d) /\ link = "connecting" /\ UNCHANGED <<log, sent, wire>>
      BY DEF Opened, host
<1>2. Client \in Clients BY StaysProper
<1>3. Heeds(d, OnWire) /\ d.view = view /\ d.reload = reload /\ d.blind = blind
      /\ (Alive(d) => Alive(Client))
  <2>1. CASE d = Client BY <2>1 DEF StaleInv, Heeds, Client
  <2>2. CASE d # Client
    <3>1. d = Begin(Client, "activate", Client.view.sid, NoSession) /\ Operable(Client)
          BY <2>2 DEF Reopened, Begin
    <3>2. Heeds(d, OnWire) BY <1>2, <3>1, BeginHeeds DEF StaleInv, Single
    <3>3. d.view = view /\ d.reload = reload /\ d.blind = blind BY <3>1 DEF Begin, Client
    <3> QED BY <3>1, <3>2, <3>3 DEF Operable, Alive
  <2> QED BY <2>1, <2>2
<1> HIDE DEF d
<1>4. /\ rt' = d.rt /\ view' = view /\ reload' = reload /\ calls' = d.calls
      /\ strayed' = d.strayed /\ blind' = blind
      BY <1>1, <1>3 DEF Become
<1>5. Single(Client)' BY <1>3, <1>4 DEF Heeds, Single, Counted, Openers, Client
<1>6. Knows(Client, OnWire)'
  <2> SUFFICES ASSUME Alive(Client)', view'.sid # NoSession PROVE Warned(Client)'
      BY DEF Knows, Lost, Unseen, Client
  <2>1. Alive(Client) BY <1>3, <1>4 DEF Alive, Client
  <2> QED BY <1>1, <1>4, <2>1 DEF StaleInv, Knows, Warned, Client
<1> QED BY <1>1, <1>5, <1>6, SameBound DEF StaleInv

LEMMA UserHeeds ==
  ASSUME Inv, StaleInv, \/ \E s \in Sessions : Select(s) \/ Create(s)
                        \/ Operate \/ Reply
  PROVE  StaleInv'
<1>1. Operable(Client) /\ UNCHANGED <<log, sent, link, wire>>
      BY DEF Select, Create, Operate, Reply, UserOp, Elsewhere, host
<1>2. PICK kind \in {"activate", "operate", "create", "reply"}, sid \in Ids, about \in Ids :
        Become(Begin(Client, kind, sid, about))
  <2>1. view.sid \in Ids /\ rt.sid \in Ids BY StaysProper DEF Views, Runtimes
  <2> QED BY <2>1 DEF Select, Create, Operate, Reply, Ids
<1> DEFINE d == Begin(Client, kind, sid, about)
<1>3. Client \in Clients BY StaysProper
<1>4. Heeds(d, OnWire) BY <1>1, <1>3, BeginHeeds DEF StaleInv, Single
<1>5. Single(Client)' /\ Knows(Client, OnWire)'
  <2>1. OnWire' = OnWire BY <1>1 DEF OnWire
  <2>2. /\ rt' = d.rt /\ view' = d.view /\ reload' = d.reload /\ calls' = d.calls
        /\ strayed' = d.strayed /\ blind' = d.blind
        BY <1>2 DEF Become
  <2> HIDE DEF d
  <2>3. Single(Client)' BY <1>4, <2>2 DEF Heeds, Single, Counted, Openers, Client
  <2>4. Knows(Client, OnWire)'
        BY <1>1, <1>4, <2>1, <2>2 DEF Heeds, Knows, Alive, Lost, Warned, Client, Unseen
  <2> QED BY <2>3, <2>4
<1> QED BY <1>1, <1>5, SameBound DEF StaleInv

LEMMA CloseHeeds ==
  ASSUME Inv, StaleInv, Close
  PROVE  StaleInv'
<1>1. Bounded' BY SameBound DEF StaleInv, Close, host
<1>2. /\ rt'.life = "closed" /\ rt'.phase = "idle" /\ rt'.gen = rt.gen + 1 /\ calls' = calls
      BY StaysProper DEF Close, Runtimes
<1>3. Single(Client)'
  <2>1. rt.gen \in Nat /\ \A q \in calls : q.gen \in Nat /\ q.gen <= rt.gen
    <3>1. rt.gen \in Nat /\ \A q \in calls : q.gen \in Nat
          BY StaysProper DEF Runtimes, Asked, Requests
    <3> QED BY <3>1 DEF StaleInv, Single, Counted, Client
  <2>2. Openers(Client)' = {} BY <1>2, <2>1 DEF Openers, Client
  <2>3. Counted(Client)' BY <1>2, <2>1, <2>2 DEF Counted, Client
  <2> QED BY <1>2, <2>2, <2>3 DEF Single, Client
<1>4. Knows(Client, OnWire)' BY <1>2 DEF Knows, Alive, Client
<1> QED BY <1>1, <1>3, <1>4 DEF StaleInv

LEMMA StaleStarts == Init => StaleInv
<1> SUFFICES ASSUME Init PROVE StaleInv OBVIOUS
<1>1. Bounded BY ClientAssumption DEF Init, Bounded
<1>2. Single(Client) BY DEF Init, Single, Counted, Openers, Client
<1>3. Knows(Client, OnWire) BY DEF Init, Knows, Lost, Unseen, Client
<1> QED BY <1>1, <1>2, <1>3 DEF StaleInv

LEMMA StaleStays == Inv /\ StaleInv /\ [Next]_vars => StaleInv'
<1> SUFFICES ASSUME Inv, StaleInv, [Next]_vars PROVE StaleInv' OBVIOUS
<1>1. CASE UNCHANGED vars
  <2>1. Bounded' BY <1>1, SameBound DEF StaleInv, vars
  <2>2. Single(Client)' BY <1>1, ApartHeeds DEF vars
  <2>3. Knows(Client, OnWire)' BY <1>1, KnowsStays DEF StaleInv, vars
  <2> QED BY <2>1, <2>2, <2>3 DEF StaleInv
<1>2. CASE Next
  <2>1. CASE \E s \in Sessions : HostEmits(s) \/ Select(s) \/ Create(s)
        BY <2>1, HostEmitsHeeds, UserHeeds
  <2>2. CASE \E q \in calls : HostAnswers(q) \/ CallFails(q)
    <3>1. \A q \in calls : q \in Requests BY StaysProper DEF Asked
    <3> QED BY <2>2, <3>1, HostAnswersHeeds, CallFailsHeeds
  <2>3. CASE \E q \in calls, bad \in Positions : AnswerArrives(q, bad)
        BY <2>3, AnswerArrivesHeeds
  <2>4. CASE \E bad \in Positions : MessageArrives(bad) BY <2>4, MessageArrivesHeeds
  <2>5. CASE MessageGarbled \/ Breaks \/ Reconnects BY <2>5, SocketHeeds
  <2>6. CASE Opened BY <2>6, OpenedHeeds
  <2>7. CASE Operate \/ Reply BY <2>7, UserHeeds
  <2>8. CASE Close BY <2>8, CloseHeeds
  <2> QED BY <1>2, <2>1, <2>2, <2>3, <2>4, <2>5, <2>6, <2>7, <2>8 DEF Next
<1> QED BY <1>1, <1>2

(* A client at rest that misses events of the session it shows, which will  *)
(* not come any more, is to reload it: whatever was lost with a socket or   *)
(* dropped as unreadable, and however answers and rollbacks came in between.*)
THEOREM StaleIsKnownHolds == Spec => []StaleIsKnown
<1>1. Init => Inv /\ StaleInv BY InitInv, StaleStarts
<1>2. Inv /\ StaleInv /\ [Next]_vars => (Inv /\ StaleInv)' BY StepInv, StaleStays
<1>3. Inv /\ StaleInv => StaleIsKnown
  <2> SUFFICES ASSUME StaleInv, Serving, ~strayed,
                      NEW n \in Unseen(view), ~OnTheWay(rt, view.sid, n)
               PROVE  reload # "healthy" \/ blind
      BY DEF StaleIsKnown
  <2>1. Lost(Client, OnWire) BY DEF Lost, OnWire, OnTheWay, Client
  <2> QED BY <2>1 DEF StaleInv, Knows, Alive, Warned, Serving, Client
<1> QED BY <1>1, <1>2, <1>3, PTL DEF Spec
-----------------------------------------------------------------------------
(* What the client takes the session for.                                   *)

(* Event n + 1 of s is missing before one that has come: the socket keeps   *)
(* the order, so it will not come any more.                                 *)
Hole(r, s, n) == /\ <<s, n + 1>> \notin r.queue
                 /\ \E m \in Nat : m > n + 1 /\ <<s, m>> \in r.queue

(* The socket carries the events of a session in their order.               *)
InTurn ==
  /\ \A i \in DOMAIN wire : wire[i][2] <= sent[wire[i][1]]
  /\ \A i, j \in DOMAIN wire : i < j /\ wire[i][1] = wire[j][1] => wire[i][2] < wire[j][2]

(* What waits in the queue came before what the socket, W, still carries.   *)
Behind(c, W) ==
  \A e \in c.rt.queue : /\ e[2] <= sent[e[1]]
                        /\ \A w \in W : w[1] = e[1] => e[2] < w[2]

(* Nothing is ahead of the host, and no answer of the current generation    *)
(* behind the baseline.                                                     *)
Anchored(c) ==
  /\ Alive(c) /\ c.rt.sid \in Sessions => c.rt.cursor <= sent[c.rt.sid]
  /\ c.rt.base.sid \in Sessions => c.rt.base.cursor <= sent[c.rt.base.sid]
  /\ \A q \in c.calls : q.state = "bootstrap" =>
       /\ Target(q) \in Sessions /\ q.at <= sent[Target(q)]
       /\ q.gen = c.rt.gen /\ c.rt.base.sid = Target(q) => c.rt.base.cursor <= q.at

(* A client at rest takes the session for what its store was told.  So did  *)
(* the client of the baseline, if that is still where the store is; but it  *)
(* need not if the store was told anew at that place while a transaction    *)
(* was under way.  Then an event is missing there, and the client does not  *)
(* come to rest.                                                            *)
Told(c) ==
  /\ c.strayed \/ c.view.at <= c.view.seen
  /\ Alive(c) /\ c.rt.phase = "idle" => c.strayed \/ c.rt.life = LifeShown(c.view)
  /\ c.rt.phase = "recovery" => Hole(c.rt, c.rt.sid, c.rt.cursor)
  /\ c.rt.base # NoBase /\ c.rt.base.sid = c.view.sid /\ c.rt.base.cursor = c.view.seen =>
       \/ c.strayed
       \/ c.rt.base.life = LifeShown(c.view)
       \/ Hole(c.rt, c.rt.base.sid, c.rt.base.cursor)

Sound(c, W) == Behind(c, W) /\ Anchored(c) /\ Told(c)

LEMMA NoBaseApart == NoBase.sid \notin Sessions
BY ClientAssumption DEF NoBase

(* A drain ends before an event that is missing or that throws, or with one *)
(* that opens another session.                                              *)
LEMMA ReachedBlocks ==
  ASSUME NEW r \in Runtimes, NEW bad, Reached(r, bad) + 1 \in Pending(r),
         ~(Reached(r, bad) > r.cursor /\ Opens(r, Reached(r, bad)))
  PROVE  Reached(r, bad) + 1 = bad
<1> DEFINE to == Reached(r, bad)
           P == Publishable(r, bad)
<1>1. /\ to \in Nat /\ r.cursor \in Nat /\ r.cursor <= to
      /\ to # r.cursor => P = (r.cursor + 1)..to
      BY ReachedIsLast DEF Runtimes
<1>2. P = {n \in Consecutive(r) : \A k \in (r.cursor + 1)..n :
                                    k # bad /\ (k < n => ~Opens(r, k))}
      BY DEF Publishable
<1>3. Consecutive(r) = {n \in Pending(r) : (r.cursor + 1)..n \subseteq Pending(r)}
      BY DEF Consecutive
<1>4. to + 1 \notin P
  <2>1. Pending(r) \subseteq Nat BY <1>1, ClientAssumption DEF Pending
  <2>2. to \in {r.cursor} \cup P /\ \A k \in P : k <= to
    <3>1. \E n \in {r.cursor} \cup P : \A k \in P : k <= n
      <4>1. CASE P = {} BY <4>1
      <4>2. CASE P # {}
        <5>1. P \subseteq Nat /\ \A k \in P : k <= MaxEvents
              BY <1>1, <1>2, <1>3, ClientAssumption DEF Pending
        <5>2. MaxEvents \in Nat BY ClientAssumption
        <5> HIDE DEF P
        <5> QED BY <4>2, <5>1, <5>2, GreatestExists
      <4> QED BY <4>1, <4>2
    <3> HIDE DEF P
    <3> QED BY <3>1 DEF Reached, P
  <2> HIDE DEF to
  <2> QED BY <1>1, <2>2
<1>5. \A k \in (r.cursor + 1)..to : k \in Pending(r) /\ k # bad /\ ~Opens(r, k)
  <2>1. CASE to = r.cursor BY <1>1, <2>1
  <2>2. CASE to # r.cursor
    <3>1. to \in P BY <1>1, <2>2
    <3>2. to > r.cursor BY <1>1, <2>2
    <3>3. ~Opens(r, to) BY <3>2
    <3>4. (r.cursor + 1)..to \subseteq Pending(r) BY <1>2, <1>3, <3>1
    <3>5. \A k \in (r.cursor + 1)..to : k # bad /\ (k < to => ~Opens(r, k)) BY <1>2, <3>1
    <3> HIDE DEF to
    <3> QED BY <1>1, <3>3, <3>4, <3>5
  <2> QED BY <2>1, <2>2
<1>6. SUFFICES ASSUME to + 1 # bad PROVE FALSE OBVIOUS
<1>7. to + 1 \in Pending(r) OBVIOUS
<1> HIDE DEF to, P
<1>8. (r.cursor + 1)..(to + 1) \subseteq Pending(r) BY <1>1, <1>5, <1>7
<1>9. \A k \in (r.cursor + 1)..(to + 1) : k # bad /\ (k < to + 1 => ~Opens(r, k))
      BY <1>1, <1>5, <1>6
<1> QED BY <1>2, <1>3, <1>4, <1>7, <1>8, <1>9

(* Nothing is published over a hole, and what waits behind it keeps waiting.*)
LEMMA HoleBlocks ==
  ASSUME Inv, Bounded, NEW r \in Runtimes, NEW bad, Hole(r, r.sid, r.cursor),
         \A e \in r.queue : e[2] <= sent[e[1]]
  PROVE  Reached(r, bad) = r.cursor /\ {n \in Pending(r) : n > r.cursor} # {}
<1>1. r.cursor \in Nat /\ r.queue \subseteq Sessions \X Nat BY DEF Runtimes
<1>2. Reached(r, bad) = r.cursor
  <2> SUFFICES ASSUME Reached(r, bad) # r.cursor PROVE FALSE OBVIOUS
  <2> DEFINE to == Reached(r, bad)
  <2>1. to \in Nat /\ r.cursor <= to /\ Publishable(r, bad) = (r.cursor + 1)..to
        BY ReachedIsLast
  <2> HIDE DEF to
  <2>2. to # r.cursor BY DEF to
  <2>3. r.cursor + 1 \in Publishable(r, bad) BY <1>1, <2>1, <2>2
  <2>4. <<r.sid, r.cursor + 1>> \in r.queue BY <2>3 DEF Publishable, Consecutive, Pending
  <2> QED BY <2>4 DEF Hole
<1>3. PICK m \in Nat : m > r.cursor + 1 /\ <<r.sid, m>> \in r.queue BY DEF Hole
<1>4. r.sid \in Sessions /\ m <= sent[r.sid] BY <1>1, <1>3
<1>5. m <= MaxEvents BY <1>4, SentIsBounded, ClientAssumption
<1>6. m \in Pending(r) BY <1>1, <1>3, <1>5, ClientAssumption DEF Pending
<1> QED BY <1>1, <1>2, <1>3, <1>6

LEMMA StopTells ==
  ASSUME NEW c \in Clients, Anchored(c), c.strayed \/ c.view.at <= c.view.seen,
         NEW sid, NEW W, NEW d,
         d.rt = Stopped(c.rt, sid), d.calls = c.calls, d.view = c.view, d.strayed = c.strayed
  PROVE  Sound(d, W)
<1>1. /\ d.rt.life = "failed" /\ d.rt.phase = "idle" /\ d.rt.base = NoBase
      /\ d.rt.queue = {} /\ d.rt.gen = c.rt.gen
      BY DEF Clients, Runtimes, Stopped
<1>2. Behind(d, W) BY <1>1 DEF Behind
<1>3. Anchored(d) BY <1>1, NoBaseApart DEF Anchored, Alive
<1>4. Told(d) BY <1>1 DEF Told, Alive
<1> QED BY <1>2, <1>3, <1>4 DEF Sound

LEMMA FailTells ==
  ASSUME NEW c \in Clients, Anchored(c), c.strayed \/ c.view.at <= c.view.seen,
         c.rt.life # "closed", NEW sid, NEW W
  PROVE  Sound(Fail(c, sid), W)
<1> DEFINE d == [c EXCEPT !.rt = Stopped(@, sid), !.reload = "degraded"]
<1>1. Fail(c, sid) = d BY DEF Fail
<1>2. d.rt = Stopped(c.rt, sid) /\ d.calls = c.calls /\ d.view = c.view /\ d.strayed = c.strayed
      BY DEF Clients
<1> HIDE DEF d
<1> QED BY <1>1, <1>2, StopTells

(* A transaction begins: what the client takes the session for goes into    *)
(* the baseline.                                                            *)
LEMMA BeginTells ==
  ASSUME Inv, NEW c \in Clients, InOrder(c.rt), Counted(c), Operable(c), NEW W, Behind(c, W),
         Anchored(c), c.strayed \/ c.view.at <= c.view.seen,
         c.rt.base = NoBase => \/ c.strayed
                               \/ c.rt.life = LifeShown(c.view)
                               \/ Hole(c.rt, c.rt.sid, c.rt.cursor),
         c.rt.base # NoBase /\ c.rt.base.sid = c.view.sid /\ c.rt.base.cursor = c.view.seen =>
            \/ c.strayed
            \/ c.rt.base.life = LifeShown(c.view)
            \/ Hole(c.rt, c.rt.base.sid, c.rt.base.cursor),
         NEW kind \in {"activate", "operate", "create", "reply"}, NEW sid, NEW about
  PROVE  Sound(Begin(c, kind, sid, about), W)
<1> DEFINE g == c.rt.gen + 1
           q == Call(kind, g, sid, "nothing", about)
           d == Begin(c, kind, sid, about)
           b == Baseline(c.rt)
<1>1. /\ d.rt.gen = g /\ d.rt.life = "activating" /\ d.rt.phase = "bootstrap"
      /\ d.rt.cursor = 0 /\ d.rt.sid = sid /\ d.rt.base = b
      /\ d.rt.queue = c.rt.queue /\ d.view = c.view
      /\ d.calls = c.calls \cup {q} /\ d.strayed = c.strayed
      BY DEF Begin, Clients
<1>2. q.gen = g /\ q.state = "waiting" BY DEF Call
<1>3. g \in Nat /\ \A k \in c.calls : k.gen \in Nat /\ k.gen < g
  <2>1. c.rt.gen \in Nat /\ \A k \in c.calls : k.gen \in Nat
        BY DEF Clients, Runtimes, Asked, Requests
  <2> QED BY <2>1 DEF Counted
<1>4. /\ c.rt.base # NoBase => b = c.rt.base
      /\ c.rt.base = NoBase => b.sid = c.rt.sid /\ b.cursor = c.rt.cursor /\ b.life = c.rt.life
      BY DEF Baseline
<1> HIDE DEF g, q, d, b
<1>5. Behind(d, W) BY <1>1 DEF Behind
<1>6. Anchored(d)
  <2>1. Alive(d) /\ d.rt.sid \in Sessions => d.rt.cursor <= sent[d.rt.sid]
        BY <1>1 DEF Inv, HostType
  <2>2. b.sid \in Sessions => b.cursor <= sent[b.sid]
    <3>1. Alive(c) BY DEF Alive, Operable
    <3> QED BY <1>4, <3>1 DEF Anchored
  <2>3. ASSUME NEW k \in d.calls, k.state = "bootstrap"
        PROVE  k \in c.calls /\ k.gen # d.rt.gen
        BY <1>1, <1>2, <1>3, <2>3
  <2> QED BY <1>1, <2>1, <2>2, <2>3 DEF Anchored
<1>7. Told(d)
  <2>1. Hole(c.rt, b.sid, b.cursor) <=> Hole(d.rt, b.sid, b.cursor) BY <1>1 DEF Hole
  <2>2. b.sid = c.view.sid /\ b.cursor = c.view.seen =>
          c.strayed \/ b.life = LifeShown(c.view) \/ Hole(c.rt, b.sid, b.cursor)
        BY <1>4
  <2> QED BY <1>1, <2>1, <2>2 DEF Told
<1> QED BY <1>5, <1>6, <1>7 DEF Sound, d

(* A drain begins level with the store, or at a hole, and not behind the    *)
(* baseline.                                                                *)
LEMMA DrainTells ==
  ASSUME Inv, Bounded, NEW c, Ready(c), Counted(c), NEW W, Behind(c, W), Anchored(c),
         c.strayed \/ /\ c.view.at <= c.view.seen
                      /\ \/ c.rt.life = LifeShown(c.view)
                         \/ Hole(c.rt, c.rt.sid, c.rt.cursor),
         c.rt.base # NoBase /\ c.rt.base.sid = c.rt.sid => c.rt.base.cursor <= c.rt.cursor,
         NEW bad, NEW after \in {"nothing", "fail"}, NEW about \in Ids
  PROVE  Sound(Drain(c, bad, after, about), W)
<1> DEFINE r == c.rt
           to == Reached(r, bad)
           opens == to > r.cursor /\ Opens(r, to)
           rest == {n \in Pending(r) : n > to}
           Q == {r.sid} \X rest
           p == Published(c, bad)
           d == [p EXCEPT !.rt.queue = Q]
           next == Call("recovery", r.gen, r.sid, after, about)
           idle == [d EXCEPT !.rt.phase = "idle", !.rt.base = NoBase]
           asks == [d EXCEPT !.rt.phase = "recovery", !.rt.tried = TRUE, !.calls = @ \cup {next}]
           there == c.rt.life = LifeShown(c.view)
           hole == Hole(r, r.sid, r.cursor)
<1>1. Drain(c, bad, after, about)
      = CASE opens -> Begin(d, "activate", log[r.sid][to], NoSession)
          [] ~opens /\ to + 1 \in rest /\ to + 1 = bad -> [Healthy(d) EXCEPT !.rt = Stopped(@, r.sid)]
          [] ~opens /\ rest = {} -> idle
          [] ~opens /\ rest # {} /\ to + 1 # bad /\ r.tried -> Fail(d, r.sid)
          [] OTHER -> asks
      BY DEF Drain
<1>2. c \in Clients /\ r \in Runtimes /\ c.view \in Views BY DEF Ready, Clients
<1>3. /\ Ready(p) /\ p.rt.cursor = to /\ p.rt.sid = r.sid /\ p.rt.gen = r.gen
      /\ p.rt.base = r.base /\ p.calls = c.calls /\ p.strayed = c.strayed
      /\ to # r.cursor => p.rt.life = LifeAfter(r.life, r.sid, r.cursor, to)
      /\ to = r.cursor => p = c
      /\ p.view.at = c.view.at /\ p.view.life = c.view.life
      BY PublishedKeeps
<1>4. Q \subseteq Sessions \X Nat BY <1>2, RestIsQueue
<1>5. to \in Nat /\ r.cursor \in Nat /\ r.cursor <= to BY <1>2, ReachedIsLast DEF Runtimes
<1>6. Q \subseteq r.queue BY DEF Pending
<1>7. hole => to = r.cursor /\ rest # {}
  <2>1. \A e \in r.queue : e[2] <= sent[e[1]] BY DEF Behind
  <2> QED BY <1>2, <2>1, HoleBlocks
<1>8. to > r.cursor => r.sid \in Sessions /\ to <= sent[r.sid]
  <2> SUFFICES ASSUME to > r.cursor PROVE r.sid \in Sessions /\ to <= sent[r.sid] OBVIOUS
  <2>1. Publishable(r, bad) = (r.cursor + 1)..to /\ r.sid \in Sessions
        BY <1>2, <1>5, ReachedIsLast
  <2>2. to \in Publishable(r, bad)
    <3> HIDE DEF to
    <3> QED BY <1>5, <2>1
  <2>3. <<r.sid, to>> \in r.queue BY <2>2 DEF Publishable, Consecutive, Pending
  <2> QED BY <2>1, <2>3 DEF Behind
<1>9. ~opens /\ ~(to + 1 \in rest /\ to + 1 = bad) /\ rest # {} =>
        \E m \in rest : m > to + 1 /\ to + 1 \notin rest
  <2> SUFFICES ASSUME ~opens, ~(to + 1 \in rest /\ to + 1 = bad), rest # {}
               PROVE  \E m \in rest : m > to + 1 /\ to + 1 \notin rest
      OBVIOUS
  <2>1. to + 1 \notin rest
    <3> SUFFICES ASSUME to + 1 \in rest PROVE FALSE OBVIOUS
    <3>1. to + 1 \in Pending(r) OBVIOUS
    <3>2. to + 1 = bad BY <1>2, <3>1, ReachedBlocks
    <3> QED BY <3>2
  <2>2. PICK m \in rest : TRUE OBVIOUS
  <2>3. m \in Nat /\ m > to /\ m # to + 1
    <3>1. m \in Pending(r) /\ m > to /\ m # to + 1 BY <2>1, <2>2
    <3>2. m \in Nat BY <1>5, <3>1, ClientAssumption DEF Pending
    <3> QED BY <3>1, <3>2
  <2> HIDE DEF to, rest
  <2> QED BY <1>5, <2>1, <2>2, <2>3
<1> HIDE DEF p, to
<1>10. /\ d \in Clients /\ d.view = p.view /\ d.calls = c.calls /\ d.strayed = c.strayed
       /\ d.rt.cursor = to /\ d.rt.sid = r.sid /\ d.rt.gen = r.gen /\ d.rt.base = r.base
       /\ d.rt.life = p.rt.life /\ d.rt.queue = Q /\ d.rt.phase = p.rt.phase
  <2> HIDE DEF Q
  <2>1. p \in Clients /\ p.rt \in Runtimes BY <1>3 DEF Ready, Clients
  <2>2. [p.rt EXCEPT !.queue = Q] \in Runtimes BY <1>4, <2>1 DEF Runtimes
  <2>3. d = [p EXCEPT !.rt = [p.rt EXCEPT !.queue = Q]] BY <2>1 DEF Clients
  <2>4. d \in Clients /\ d.rt = [p.rt EXCEPT !.queue = Q] BY <2>1, <2>2, <2>3 DEF Clients
  <2> QED BY <1>3, <2>1, <2>3, <2>4 DEF Clients, Runtimes
<1>11. d.rt \in Runtimes BY <1>10 DEF Clients
<1>12. hole => \E m \in Nat : m > to + 1 /\ <<r.sid, m>> \in Q /\ <<r.sid, to + 1>> \notin Q
  <2> SUFFICES ASSUME hole
               PROVE  \E m \in Nat : m > to + 1 /\ <<r.sid, m>> \in Q /\ <<r.sid, to + 1>> \notin Q
      OBVIOUS
  <2>1. to = r.cursor /\ rest # {} BY <1>7
  <2>2. to + 1 \notin rest
    <3>1. <<r.sid, to + 1>> \notin r.queue BY <2>1 DEF Hole
    <3> QED BY <3>1 DEF Pending
  <2>3. PICK m \in rest : TRUE BY <2>1
  <2>4. m \in Nat /\ m > to BY <1>5, <2>3, ClientAssumption DEF Pending
  <2>5. m # to + 1 BY <2>2, <2>3
  <2>6. m > to + 1 BY <1>5, <2>4, <2>5
  <2> HIDE DEF rest
  <2> QED BY <2>2, <2>3, <2>4, <2>6
<1>13. c.strayed \/ d.view.at <= d.view.seen
  <2>1. CASE to = r.cursor BY <1>3, <1>10, <2>1
  <2>2. CASE to # r.cursor
    <3> SUFFICES ASSUME ~c.strayed PROVE d.view.at <= d.view.seen OBVIOUS
    <3>1. p.view.seen = to BY <1>3 DEF Ready, Level
    <3>2. c.view.seen = r.cursor /\ c.view.at \in Nat BY <1>2 DEF Ready, Level, Views
    <3> QED BY <1>3, <1>5, <1>10, <3>1, <3>2
  <2> QED BY <2>1, <2>2
<1>14. \/ c.strayed
       \/ d.rt.life = LifeShown(d.view)
       \/ to = r.cursor /\ Hole(d.rt, r.sid, to)
  <2> SUFFICES ASSUME ~c.strayed
               PROVE  \/ d.rt.life = LifeShown(d.view)
                      \/ to = r.cursor /\ Hole(d.rt, r.sid, to)
      OBVIOUS
  <2>1. CASE hole BY <1>7, <1>10, <1>12, <2>1 DEF Hole
  <2>2. CASE ~hole
    <3>1. there BY <2>2
    <3>2. CASE to = r.cursor BY <1>3, <1>10, <3>1, <3>2
    <3>3. CASE to # r.cursor
      <4>1. /\ c.view.sid = r.sid /\ c.view.seen = r.cursor /\ c.view.at \in Nat
            /\ c.view.at <= c.view.seen
            BY <1>2 DEF Ready, Level, Views
      <4>2. p.view.sid = r.sid /\ p.view.seen = to BY <1>3 DEF Ready, Level
      <4>3. LifeShown(d.view) = LifeAfter(c.view.life, r.sid, c.view.at, to)
            BY <1>3, <1>10, <4>2 DEF LifeShown
      <4>4. r.life = LifeAfter(c.view.life, r.sid, c.view.at, r.cursor)
            BY <3>1, <4>1 DEF LifeShown
      <4>5. d.rt.life = LifeAfter(r.life, r.sid, r.cursor, to) BY <1>3, <1>10, <3>3
      <4>6. LifeAfter(LifeAfter(c.view.life, r.sid, c.view.at, r.cursor), r.sid, r.cursor, to)
            = LifeAfter(c.view.life, r.sid, c.view.at, to)
            BY <1>5, <4>1, LifeContinues
      <4> QED BY <4>3, <4>4, <4>5, <4>6
    <3> QED BY <3>2, <3>3
  <2> QED BY <2>1, <2>2
<1>15. Behind(d, W) BY <1>6, <1>10 DEF Behind
<1>16. Anchored(d)
  <2>1. Alive(d) /\ d.rt.sid \in Sessions => d.rt.cursor <= sent[d.rt.sid]
    <3>1. CASE to = r.cursor BY <1>3, <1>10, <3>1 DEF Anchored, Alive
    <3>2. CASE to # r.cursor BY <1>5, <1>8, <1>10, <3>2
    <3> QED BY <3>1, <3>2
  <2> QED BY <1>10, <2>1 DEF Anchored
<1>17. Counted(d) BY <1>10 DEF Counted, Openers
<1>18. ~c.strayed => d.view.sid = r.sid /\ d.view.seen = to BY <1>3, <1>10 DEF Ready, Level
<1> HIDE DEF d
<1>19. CASE opens
  <2>1. d.rt.life # "failed" BY <1>3, <1>5, <1>10, <1>19 DEF Opens
  <2>2. d.rt.life \in Known /\ InOrder(d.rt) BY <1>3, <1>10, <1>11 DEF Ready, InOrder
  <2>3. Operable(d) BY <2>1, <2>2 DEF Operable, Known
  <2>4. d.rt.base # NoBase /\ d.rt.base.sid = d.view.sid /\ d.rt.base.cursor = d.view.seen
        => c.strayed
    <3> SUFFICES ASSUME d.rt.base # NoBase, d.rt.base.sid = d.view.sid,
                        d.rt.base.cursor = d.view.seen, ~c.strayed
                 PROVE  FALSE
        OBVIOUS
    <3>1. r.base # NoBase /\ r.base.sid = r.sid /\ r.base.cursor = to BY <1>10, <1>18
    <3>2. to <= r.cursor BY <3>1
    <3> QED BY <1>5, <1>19, <3>2
  <2>5. Sound(Begin(d, "activate", log[r.sid][to], NoSession), W)
        BY <1>5, <1>10, <1>13, <1>14, <1>15, <1>16, <1>17, <1>19, <2>2, <2>3, <2>4, BeginTells
  <2> QED BY <1>1, <1>19, <2>5
<1>20. CASE ~opens /\ to + 1 \in rest /\ to + 1 = bad
  <2> DEFINE e == [Healthy(d) EXCEPT !.rt = Stopped(@, r.sid)]
  <2>1. /\ Healthy(d) \in Clients /\ Healthy(d).rt = d.rt /\ Healthy(d).calls = d.calls
        /\ Healthy(d).view = d.view /\ Healthy(d).strayed = d.strayed
        BY <1>10, HealthyKeeps
  <2>2. /\ e.rt = Stopped(d.rt, r.sid) /\ e.calls = d.calls /\ e.view = d.view
        /\ e.strayed = d.strayed
        BY <2>1 DEF Clients
  <2> HIDE DEF e
  <2>3. Sound(e, W) BY <1>10, <1>13, <1>16, <2>2, StopTells
  <2> QED BY <1>1, <1>20, <2>3 DEF e
<1>21. CASE ~opens /\ ~(to + 1 \in rest /\ to + 1 = bad) /\ rest = {}
  <2>1. /\ idle.rt.phase = "idle" /\ idle.rt.base = NoBase /\ idle.rt.life = d.rt.life
        /\ idle.rt.sid = d.rt.sid /\ idle.rt.cursor = d.rt.cursor
        /\ idle.rt.gen = d.rt.gen /\ idle.rt.queue = d.rt.queue /\ idle.view = d.view
        /\ idle.calls = d.calls /\ idle.strayed = d.strayed
        BY <1>10, <1>11 DEF Clients, Runtimes
  <2> HIDE DEF idle
  <2>2. c.strayed \/ d.rt.life = LifeShown(d.view)
    <3>1. ~Hole(d.rt, r.sid, to) BY <1>10, <1>21 DEF Hole
    <3> QED BY <1>14, <3>1
  <2>3. Behind(idle, W) BY <1>15, <2>1 DEF Behind
  <2>4. Anchored(idle) BY <1>16, <2>1, NoBaseApart DEF Anchored, Alive
  <2>5. Told(idle) BY <1>10, <1>13, <2>1, <2>2 DEF Told
  <2> QED BY <1>1, <1>21, <2>3, <2>4, <2>5 DEF Sound
<1>22. CASE ~opens /\ rest # {} /\ to + 1 # bad /\ r.tried
  <2>1. d.rt.life # "closed" BY <1>3, <1>10 DEF Ready, Known
  <2>2. Sound(Fail(d, r.sid), W) BY <1>10, <1>13, <1>16, <2>1, FailTells
  <2> QED BY <1>1, <1>22, <2>2
<1>23. CASE /\ ~opens /\ ~(to + 1 \in rest /\ to + 1 = bad) /\ rest # {}
            /\ ~(to + 1 # bad /\ r.tried)
  <2>1. /\ asks.rt.phase = "recovery" /\ asks.rt.base = d.rt.base /\ asks.rt.life = d.rt.life
        /\ asks.rt.sid = d.rt.sid /\ asks.rt.cursor = d.rt.cursor
        /\ asks.rt.gen = d.rt.gen /\ asks.rt.queue = d.rt.queue /\ asks.view = d.view
        /\ asks.calls = d.calls \cup {next} /\ asks.strayed = d.strayed
        BY <1>10, <1>11 DEF Clients, Runtimes
  <2>2. next.state = "waiting" BY DEF Call
  <2>3. PICK m \in rest : m > to + 1 /\ to + 1 \notin rest BY <1>9, <1>23
  <2>4. m \in Nat BY <1>5, <2>3, ClientAssumption DEF Pending
  <2>5. <<r.sid, m>> \in Q /\ <<r.sid, to + 1>> \notin Q
    <3> HIDE DEF rest
    <3> QED BY <2>3
  <2> HIDE DEF asks, next, Q
  <2>6. Hole(asks.rt, r.sid, to) BY <1>10, <2>1, <2>3, <2>4, <2>5 DEF Hole
  <2>7. Behind(asks, W) BY <1>15, <2>1 DEF Behind
  <2>8. Anchored(asks) BY <1>16, <2>1, <2>2 DEF Anchored, Alive
  <2>9. Told(asks)
    <3>1. c.strayed \/ (asks.view.sid = r.sid /\ asks.view.seen = to) BY <1>18, <2>1
    <3> QED BY <1>10, <1>13, <2>1, <2>6, <3>1 DEF Told
  <2> QED BY <1>1, <1>23, <2>7, <2>8, <2>9 DEF Sound
<1> QED BY <1>19, <1>20, <1>21, <1>22, <1>23

(* The store is told by a bootstrap, which is not behind the baseline.      *)
LEMMA InstallTells ==
  ASSUME Inv, Bounded, NEW c \in Clients, InOrder(c.rt), Counted(c), c.rt.life # "closed",
         NEW W, Behind(c, W), Anchored(c), c.strayed \/ c.view.at <= c.view.seen,
         NEW q \in Requests, NEW s \in Sessions, q.at <= sent[s],
         c.rt.base.sid = s => c.rt.base.cursor <= q.at, NEW bad
  PROVE  Sound(Install(c, q, s, bad), W)
<1> DEFINE at == q.at
           Q == {e \in c.rt.queue : e[1] = s /\ e[2] > at}
           d == [c EXCEPT !.rt.sid = s, !.rt.queue = Q]
           v == [sid |-> s, at |-> at, life |-> q.life, seen |-> at, tidy |-> TRUE]
           e == [d EXCEPT !.rt.cursor = at, !.rt.life = q.life, !.view = v,
                          !.strayed = FALSE]
           w == [c.rt EXCEPT !.sid = s, !.queue = Q]
           x == [c.rt EXCEPT !.sid = s, !.queue = Q, !.cursor = at, !.life = q.life]
<1>1. Install(c, q, s, bad)
      = IF bad = at THEN [Healthy(d) EXCEPT !.rt = Stopped(@, s)]
        ELSE Drain(Healthy(e), bad, "nothing", NoSession)
      BY DEF Install
<1>2. c.rt \in Runtimes /\ s \in Ids BY DEF Clients, Ids
<1>3. Q \subseteq Sessions \X Nat /\ Q \subseteq c.rt.queue BY <1>2 DEF Runtimes
<1>4. at \in Nat /\ q.life \in BootLives /\ q.life \in Known
      BY DEF Requests, BootLives, Known, Lives
<1>5. v \in Views /\ v.sid = s /\ v.seen = at /\ v.tidy /\ v.at = at /\ v.life = q.life
      BY <1>2, <1>4 DEF Views
<1>6. LifeAfter(q.life, s, at, at) = q.life BY <1>4 DEF LifeAfter
<1>7. at <= sent[s] /\ (c.rt.base.sid = s => c.rt.base.cursor <= at) OBVIOUS
<1> HIDE DEF at, Q, v
<1>8. d = [c EXCEPT !.rt = w] BY <1>2 DEF Clients, Runtimes
<1>9. e = [c EXCEPT !.rt = x, !.view = v, !.strayed = FALSE]
      BY <1>2 DEF Clients, Runtimes, Q
<1>10. w \in Runtimes /\ w.gen = c.rt.gen /\ w.base = c.rt.base /\ w.sid = s
       /\ w.cursor = c.rt.cursor
       BY <1>2, <1>3 DEF Runtimes
<1>11. /\ x \in Runtimes /\ x.sid = s /\ x.cursor = at /\ x.life = q.life /\ x.queue = Q
       /\ x.phase = c.rt.phase /\ x.base = c.rt.base /\ x.gen = c.rt.gen
       BY <1>2, <1>3, <1>4 DEF Runtimes, Known
<1>12. InOrder(x) BY <1>4, <1>11 DEF InOrder, Known
<1> HIDE DEF w, x, d, e
<1>13. /\ d \in Clients /\ d.rt = w /\ d.calls = c.calls /\ d.view = c.view
       /\ d.strayed = c.strayed
       BY <1>8, <1>10 DEF Clients
<1>14. e \in Clients /\ e.rt = x /\ e.view = v /\ e.calls = c.calls /\ e.strayed = FALSE
       BY <1>5, <1>9, <1>11 DEF Clients
<1>15. CASE bad = at
  <2> DEFINE z == [Healthy(d) EXCEPT !.rt = Stopped(@, s)]
  <2>1. /\ Healthy(d) \in Clients /\ Healthy(d).rt = w /\ Healthy(d).calls = c.calls
        /\ Healthy(d).view = c.view /\ Healthy(d).strayed = c.strayed
        BY <1>13, HealthyKeeps
  <2>2. /\ z.rt = Stopped(c.rt, s) /\ z.calls = c.calls /\ z.view = c.view
        /\ z.strayed = c.strayed
    <3>1. Stopped(w, s) = Stopped(c.rt, s) BY <1>2 DEF Stopped, w, Runtimes
    <3> QED BY <2>1, <3>1 DEF Clients
  <2> HIDE DEF z
  <2>3. Sound(z, W) BY <2>2, StopTells
  <2> QED BY <1>1, <1>15, <2>3 DEF z
<1>16. CASE bad # at
  <2> DEFINE y == Healthy(e)
  <2>1. /\ y \in Clients /\ y.rt = x /\ y.view = v /\ y.calls = c.calls
        /\ y.strayed = FALSE
        BY <1>14, HealthyKeeps
  <2> HIDE DEF y
  <2>2. Ready(y) BY <1>4, <1>5, <1>11, <1>12, <2>1 DEF Ready, Level
  <2>3. Counted(y) BY <1>11, <2>1 DEF Counted, Openers
  <2>4. Behind(y, W) BY <1>3, <1>11, <2>1 DEF Behind
  <2>5. Anchored(y) BY <1>7, <1>11, <2>1 DEF Anchored, Alive
  <2>6. y.view.at <= y.view.seen /\ y.rt.life = LifeShown(y.view)
        BY <1>4, <1>5, <1>6, <1>11, <2>1 DEF LifeShown
  <2>7. y.rt.base.sid = y.rt.sid => y.rt.base.cursor <= y.rt.cursor BY <1>7, <1>11, <2>1
  <2>8. Sound(Drain(y, bad, "nothing", NoSession), W)
        BY <2>2, <2>3, <2>4, <2>5, <2>6, <2>7, DrainTells DEF Ids
  <2> QED BY <1>1, <1>16, <2>8 DEF y
<1> QED BY <1>15, <1>16

LEMMA RollbackTells ==
  ASSUME Inv, Bounded, NEW c, NEW q, Proper(c), Counted(c), NEW W, Sound(c, W),
         NEW bad, NEW after \in {"nothing", "fail"}, NEW about \in Ids
  PROVE  Sound(Rollback(c, q, bad, after, about), W)
<1> DEFINE b == c.rt.base
           r == AtBaseline(c.rt)
           apart == b.sid # c.view.sid \/ b.cursor # c.view.seen
           d == [c EXCEPT !.rt = AtBaseline(@),
                          !.strayed = \/ @ \/ b.sid # c.view.sid \/ b.cursor # c.view.seen]
<1>1. CASE ~Current(c, q) \/ b = NoBase BY <1>1 DEF Rollback
<1>2. CASE Current(c, q) /\ b # NoBase
  <2>1. c \in Clients /\ c.rt \in Runtimes /\ c.view \in Views BY DEF Proper, Clients
  <2>2. b \in Baselines /\ b.life # "activating"
        BY <1>2, <2>1 DEF Proper, InOrder, Runtimes
  <2>3. r \in Runtimes
    <3>1. {e \in c.rt.queue : e[1] = b.sid} \subseteq Sessions \X Nat BY <2>1 DEF Runtimes
    <3> QED BY <2>1, <2>2, <3>1 DEF AtBaseline, Runtimes, Baselines
  <2>4. /\ r.sid = b.sid /\ r.cursor = b.cursor /\ r.life = b.life /\ r.gen = c.rt.gen
        /\ r.phase = "bootstrap" /\ r.base = b
        /\ r.queue = {e \in c.rt.queue : e[1] = b.sid}
        BY DEF AtBaseline
  <2>5. InOrder(r) BY <1>2, <2>2, <2>3, <2>4 DEF InOrder, Baselines
  <2>6. d = [c EXCEPT !.rt = r, !.strayed = c.strayed \/ apart] BY <2>1 DEF Clients
  <2>7. apart \in BOOLEAN /\ c.strayed \in BOOLEAN BY <2>1 DEF Clients
  <2>8. ~apart => b.sid = c.view.sid /\ b.cursor = c.view.seen OBVIOUS
  <2>9. Drain(d, bad, after, about) = Rollback(c, q, bad, after, about)
        BY <1>2 DEF Rollback
  <2> HIDE DEF r, apart, d
  <2>10. /\ d \in Clients /\ d.rt = r /\ d.view = c.view /\ d.calls = c.calls
         /\ d.strayed = (c.strayed \/ apart)
         BY <2>1, <2>3, <2>6, <2>7 DEF Clients
  <2>11. d.strayed \/ (d.view.tidy /\ Level(d))
         BY <2>4, <2>8, <2>10 DEF Proper, Follows, Level
  <2>12. Ready(d) BY <2>2, <2>4, <2>5, <2>10, <2>11 DEF Ready, Known, Baselines
  <2>13. Counted(d) BY <2>4, <2>10 DEF Counted, Openers
  <2>14. Behind(d, W) BY <2>4, <2>10 DEF Sound, Behind
  <2>15. Anchored(d) BY <2>4, <2>10 DEF Sound, Anchored
  <2>16. d.strayed \/ /\ d.view.at <= d.view.seen
                      /\ \/ d.rt.life = LifeShown(d.view)
                         \/ Hole(d.rt, d.rt.sid, d.rt.cursor)
    <3> SUFFICES ASSUME ~c.strayed, ~apart
                 PROVE  /\ c.view.at <= c.view.seen
                        /\ b.life = LifeShown(c.view) \/ Hole(r, b.sid, b.cursor)
        BY <2>4, <2>7, <2>10
    <3>1. c.view.at <= c.view.seen BY DEF Sound, Told
    <3>2. b.life = LifeShown(c.view) \/ Hole(c.rt, b.sid, b.cursor)
          BY <1>2, <2>8 DEF Sound, Told
    <3>3. Hole(c.rt, b.sid, b.cursor) => Hole(r, b.sid, b.cursor) BY <2>4 DEF Hole
    <3> QED BY <3>1, <3>2, <3>3
  <2>17. d.rt.base.cursor <= d.rt.cursor BY <2>2, <2>4, <2>10 DEF Baselines
  <2>18. Sound(Drain(d, bad, after, about), W)
         BY <2>12, <2>13, <2>14, <2>15, <2>16, <2>17, DrainTells
  <2> QED BY <2>9, <2>18
<1> QED BY <1>1, <1>2

LEMMA AfterwardsTells ==
  ASSUME NEW c \in Clients, NEW W, Sound(c, W), NEW after, NEW about
  PROVE  Sound(Afterwards(c, after, about), W)
<1>1. CASE after = "fail" /\ Operable(c)
  <2>1. c.rt.life # "closed" /\ (c.strayed \/ c.view.at <= c.view.seen) /\ Anchored(c)
        BY <1>1 DEF Operable, Sound, Told
  <2> QED BY <1>1, <2>1, FailTells DEF Afterwards
<1>2. CASE ~(after = "fail" /\ Operable(c)) BY <1>2 DEF Afterwards
<1> QED BY <1>1, <1>2

(* The request p ends with the answer q: c is the client without it.        *)
LEMMA AnsweredTells ==
  ASSUME Inv, Bounded, Single(Client), Sound(Client, OnWire), NEW p \in calls,
         NEW q \in Reports(p), NEW bad
  PROVE  Sound(Answered([Client EXCEPT !.calls = @ \ {p}], q, bad), OnWire)
<1> DEFINE c == [Client EXCEPT !.calls = @ \ {p}]
<1>1. /\ c.rt = rt /\ c.view = view /\ c.calls = calls \ {p} /\ c.strayed = strayed
      BY DEF Client
<1>2. /\ q \in Asked /\ Proper(c) /\ AwaitedBut(c, q)
      /\ p.state = q.state /\ p.gen = q.gen /\ p.at = q.at /\ Target(p) = Target(q)
      BY WithoutRequest
<1> HIDE DEF c
<1>3. c \in Clients /\ InOrder(c.rt) /\ Follows(c) BY <1>2 DEF Proper
<1>4. Counted(c) BY <1>1 DEF Single, Counted, Openers, Client
<1>5. Sound(c, OnWire)
  <2>1. Behind(c, OnWire) BY <1>1 DEF Sound, Behind, Client
  <2>2. Anchored(c) BY <1>1 DEF Sound, Anchored, Alive, Client
  <2>3. Told(c) BY <1>1 DEF Sound, Told, Alive, Client
  <2> QED BY <2>1, <2>2, <2>3 DEF Sound
<1>6. /\ Behind(c, OnWire) /\ Anchored(c)
      /\ c.strayed \/ c.view.at <= c.view.seen
      BY <1>5 DEF Sound, Told
<1>7. q.state = "bootstrap" /\ Current(c, q) =>
        /\ Target(q) \in Sessions /\ q.at <= sent[Target(q)]
        /\ c.rt.base.sid = Target(q) => c.rt.base.cursor <= q.at
      BY <1>1, <1>2 DEF Current, Sound, Anchored, Client
<1>8. q \in Requests /\ q.sid \in Ids BY <1>2 DEF Requests, Asked
<1>9. ASSUME Current(c, q), q.state = "bootstrap"
      PROVE  Sound(Install(c, q, Target(q), bad), OnWire)
  <2>1. c.rt.life # "closed" BY <1>9 DEF Current
  <2> QED BY <1>3, <1>4, <1>6, <1>7, <1>8, <1>9, <2>1, InstallTells
<1>10. ASSUME Current(c, q)
       PROVE  Fail(c, q.sid) \in Clients /\ Sound(Fail(c, q.sid), OnWire)
  <2>1. c.rt.life # "closed" /\ (c.strayed \/ c.view.tidy) BY <1>3, <1>10 DEF Current, Follows
  <2>2. Fail(c, q.sid) \in Clients BY <1>3, <1>8, <2>1, FailLeaves DEF Leaves, Proper
  <2> QED BY <1>3, <1>6, <2>1, <2>2, FailTells
<1>11. CASE q.kind = "recovery"
  <2> DEFINE d == CASE ~Current(c, q) -> c
                    [] Current(c, q) /\ q.state = "bootstrap" -> Install(c, q, q.sid, bad)
                    [] OTHER -> Fail(c, q.sid)
  <2>1. Answered(c, q, bad) = Afterwards(d, q.after, q.about) BY <1>11 DEF Answered, Recovered
  <2>2. d \in Clients /\ Sound(d, OnWire)
    <3>1. CASE ~Current(c, q) BY <1>3, <1>5, <3>1
    <3>2. CASE Current(c, q) /\ q.state = "bootstrap"
      <4>1. c.rt.life # "closed" /\ Target(q) = q.sid BY <1>11, <3>2 DEF Current, Target
      <4>2. Install(c, q, q.sid, bad) \in Clients
            BY <1>3, <1>8, <4>1, InstallLeaves DEF Leaves, Proper
      <4> QED BY <1>9, <3>2, <4>1, <4>2
    <3>3. CASE Current(c, q) /\ q.state # "bootstrap" BY <1>10, <3>3
    <3> QED BY <3>1, <3>2, <3>3
  <2> HIDE DEF d
  <2>3. Sound(Answered(c, q, bad), OnWire) BY <2>1, <2>2, AfterwardsTells
  <2> QED BY <2>3 DEF c
<1>12. CASE q.kind # "recovery" /\ q.state = "bootstrap"
  <2>1. CASE ~Current(c, q) BY <1>5, <1>12, <2>1 DEF Answered, c
  <2>2. CASE Current(c, q) BY <1>9, <1>12, <2>2 DEF Answered, c
  <2> QED BY <2>1, <2>2
<1>13. CASE q.kind # "recovery" /\ q.state = "malformed"
  <2> DEFINE d == IF Current(c, q) THEN Fail(c, q.sid) ELSE c
             after == IF q.kind = "activate" THEN "fail" ELSE "nothing"
  <2>1. d \in Clients /\ Sound(d, OnWire) BY <1>3, <1>5, <1>10
  <2>2. Answered(c, q, bad) = Afterwards(d, after, q.sid)
        BY <1>13 DEF Answered, Malformed
  <2> HIDE DEF d, after
  <2>3. Sound(Answered(c, q, bad), OnWire) BY <2>1, <2>2, AfterwardsTells
  <2> QED BY <2>3 DEF c
<1>14. CASE q.kind # "recovery" /\ q.state \notin {"bootstrap", "malformed"}
  <2> DEFINE after == AfterFailure(c, q)
             d == Rollback(c, q, bad, after, q.sid)
  <2>1. after \in {"nothing", "fail"} BY DEF AfterFailure
  <2>2. Answered(c, q, bad)
        = IF d.rt.phase = "recovery" /\ d # c THEN d ELSE Afterwards(d, after, q.sid)
        BY <1>14 DEF Answered, Rejected
  <2> HIDE DEF after
  <2>3. d \in Clients
        BY <1>2, <1>8, <1>14, <2>1, RollbackLeaves DEF Leaves, Proper
  <2>4. Sound(d, OnWire) BY <1>2, <1>4, <1>5, <1>8, <2>1, RollbackTells
  <2> HIDE DEF d
  <2>5. Sound(Answered(c, q, bad), OnWire) BY <2>2, <2>3, <2>4, AfterwardsTells
  <2> QED BY <2>5 DEF c
<1> QED BY <1>11, <1>12, <1>13, <1>14

(* An event arrives, and W, what the socket carries without it, comes after *)
(* it.                                                                      *)
LEMMA AcceptedTells ==
  ASSUME Inv, Bounded, NEW c, Proper(c), Counted(c), Sound(c, OnWire),
         NEW s \in Sessions, NEW n \in Nat, n <= sent[s], NEW W, OnWire = W \cup {<<s, n>>},
         W \subseteq Sessions \X Nat, \A w \in W : w[1] = s => n < w[2], NEW bad
  PROVE  Sound(Accepted(c, s, n, bad), W)
<1> DEFINE Q == c.rt.queue \cup {<<s, n>>}
           r == [c.rt EXCEPT !.queue = Q]
           d == [c EXCEPT !.rt.queue = @ \cup {<<s, n>>}]
<1>1. c.rt \in Runtimes /\ c \in Clients /\ c.view \in Views BY DEF Proper, Clients
<1>2. Q \subseteq Sessions \X Nat BY <1>1 DEF Runtimes
<1>3. d = [c EXCEPT !.rt = r] BY <1>1 DEF Clients, Runtimes
<1>4. r \in Runtimes /\ r.sid = c.rt.sid /\ r.cursor = c.rt.cursor /\ r.gen = c.rt.gen
      /\ r.life = c.rt.life /\ r.phase = c.rt.phase /\ r.base = c.rt.base /\ r.queue = Q
      BY <1>1, <1>2 DEF Runtimes
<1>5. d \in Clients /\ d.rt = r /\ d.view = c.view /\ d.calls = c.calls
      /\ d.strayed = c.strayed
      BY <1>1, <1>3, <1>4 DEF Clients
<1>6. InOrder(r) BY <1>4 DEF Proper, InOrder
<1>7. Accepted(c, s, n, bad)
      = CASE Operable(c) /\ c.rt.phase # "idle" -> d
          [] Operable(c) /\ c.rt.phase = "idle" /\ s = c.rt.sid /\ n > c.rt.cursor ->
                Drain(d, bad, "nothing", NoSession)
          [] OTHER -> c
      BY DEF Accepted
<1>8. Behind(d, W)
  <2>1. ASSUME NEW e \in Q PROVE e[2] <= sent[e[1]] /\ \A w \in W : w[1] = e[1] => e[2] < w[2]
        BY <2>1 DEF Sound, Behind
  <2> HIDE DEF Q, r, d
  <2> QED BY <1>4, <1>5, <2>1 DEF Behind
<1>9. \A x \in Ids, k \in Nat : Hole(c.rt, x, k) => Hole(d.rt, x, k)
  <2> SUFFICES ASSUME NEW x \in Ids, NEW k \in Nat, Hole(c.rt, x, k) PROVE Hole(d.rt, x, k)
      OBVIOUS
  <2>1. PICK m \in Nat : m > k + 1 /\ <<x, m>> \in c.rt.queue BY DEF Hole
  <2>2. x = s => m < n
    <3>1. <<s, n>> \in OnWire OBVIOUS
    <3> QED BY <2>1, <3>1 DEF Sound, Behind
  <2>3. <<x, k + 1>> # <<s, n>> BY <2>1, <2>2
  <2>4. <<x, k + 1>> \notin c.rt.queue BY DEF Hole
  <2> HIDE DEF d, r
  <2>5. d.rt.queue = c.rt.queue \cup {<<s, n>>} BY <1>4, <1>5
  <2> QED BY <2>1, <2>3, <2>4, <2>5 DEF Hole
<1> HIDE DEF Q, r, d
<1>10. Anchored(d) BY <1>4, <1>5 DEF Sound, Anchored, Alive
<1>11. Counted(d) BY <1>4, <1>5 DEF Counted, Openers
<1>12. CASE Operable(c) /\ c.rt.phase # "idle"
  <2>1. c.rt.phase = "recovery" => Hole(d.rt, c.rt.sid, c.rt.cursor)
        BY <1>1, <1>9 DEF Sound, Told, Runtimes
  <2>2. c.rt.base # NoBase => c.rt.base.sid \in Ids /\ c.rt.base.cursor \in Nat
        BY <1>1 DEF Runtimes, Baselines
  <2>3. Told(d) BY <1>4, <1>5, <1>9, <1>12, <2>1, <2>2 DEF Sound, Told
  <2> QED BY <1>7, <1>8, <1>10, <1>12, <2>3 DEF Sound
<1>13. CASE Operable(c) /\ c.rt.phase = "idle" /\ s = c.rt.sid /\ n > c.rt.cursor
  <2>1. Ready(d)
        BY <1>4, <1>5, <1>6, <1>13
        DEF Ready, Proper, InOrder, Follows, Level, Operable, Known, Runtimes
  <2>2. d.rt.base = NoBase BY <1>4, <1>5, <1>6, <1>13 DEF InOrder
  <2>3. d.strayed \/ (d.view.at <= d.view.seen /\ d.rt.life = LifeShown(d.view))
        BY <1>4, <1>5, <1>13 DEF Sound, Told, Alive, Operable
  <2>4. Sound(Drain(d, bad, "nothing", NoSession), W)
        BY <1>8, <1>10, <1>11, <2>1, <2>2, <2>3, DrainTells DEF Ids
  <2> QED BY <1>7, <1>13, <2>4
<1>14. CASE ~(Operable(c) /\ c.rt.phase # "idle")
            /\ ~(Operable(c) /\ c.rt.phase = "idle" /\ s = c.rt.sid /\ n > c.rt.cursor)
  <2>1. Behind(c, W) BY DEF Sound, Behind
  <2> QED BY <1>7, <1>14, <2>1 DEF Sound
<1> QED BY <1>12, <1>13, <1>14
-----------------------------------------------------------------------------
(* The steps, once more.                                                    *)
SoundInv == InTurn /\ Sound(Client, OnWire)

LEMMA BecomesSound ==
  ASSUME NEW STATE d, Become(d), log' = log, sent' = sent, Sound(d, OnWire')
  PROVE  Sound(Client, OnWire)'
<1>1. /\ rt' = d.rt /\ view' = d.view /\ calls' = d.calls /\ strayed' = d.strayed
      BY DEF Become
<1>2. Behind(Client, OnWire)' BY <1>1 DEF Sound, Behind, Client
<1>3. Anchored(Client)' BY <1>1 DEF Sound, Anchored, Alive, Client, Target
<1>4. Told(Client)'
      BY <1>1 DEF Sound, Told, Alive, Client, Hole, LifeShown, LifeAfter, Decides, NoBase
<1> QED BY <1>2, <1>3, <1>4 DEF Sound

(* The socket carries what it did, without its first event, or nothing.     *)
Shrinks == \/ wire' = wire
           \/ wire' = <<>>
           \/ wire # <<>> /\ wire' = Tail(wire)

LEMMA TurnShrinks ==
  ASSUME HostType, InTurn, sent' = sent, Shrinks
  PROVE  InTurn' /\ OnWire' \subseteq OnWire
<1>1. wire \in Seq(Sessions \X Nat) BY DEF HostType
<1>2. CASE wire' = wire BY <1>2 DEF InTurn, OnWire
<1>3. CASE wire' = <<>> BY <1>3 DEF InTurn, OnWire
<1>4. CASE wire # <<>> /\ wire' = Tail(wire)
  <2>1. /\ Len(wire) \in Nat /\ DOMAIN wire = 1..Len(wire)
        /\ DOMAIN wire' = 1..(Len(wire) - 1)
        /\ \A i \in 1..(Len(wire) - 1) : wire'[i] = wire[i + 1]
        BY <1>1, <1>4
  <2>2. \A i \in DOMAIN wire' : i \in Nat /\ i + 1 \in DOMAIN wire /\ wire'[i] = wire[i + 1] BY <2>1
  <2>3. InTurn'
    <3>1. ASSUME NEW i \in DOMAIN wire' PROVE wire'[i][2] <= sent[wire'[i][1]]
          BY <2>2 DEF InTurn
    <3>2. ASSUME NEW i \in DOMAIN wire', NEW j \in DOMAIN wire', i < j, wire'[i][1] = wire'[j][1]
          PROVE  wire'[i][2] < wire'[j][2]
      <4>1. i + 1 < j + 1 BY <2>2, <3>2
      <4> QED BY <2>2, <3>2, <4>1 DEF InTurn
    <3> QED BY <3>1, <3>2 DEF InTurn
  <2> QED BY <2>2, <2>3 DEF OnWire
<1> QED BY <1>2, <1>3, <1>4 DEF Shrinks

(* The steps that leave the client alone but for its reload.                *)
LEMMA ApartTells ==
  ASSUME Inv, SoundInv, UNCHANGED <<log, sent, rt, view, calls, strayed>>, Shrinks
  PROVE  SoundInv'
<1>1. InTurn' /\ OnWire' \subseteq OnWire BY TurnShrinks DEF Inv, SoundInv
<1>2. Behind(Client, OnWire)' BY <1>1 DEF SoundInv, Sound, Behind, Client
<1>3. Anchored(Client)' BY DEF SoundInv, Sound, Anchored, Alive, Client, Target
<1>4. Told(Client)'
      BY DEF SoundInv, Sound, Told, Alive, Client, Hole, LifeShown, LifeAfter, Decides, NoBase
<1> QED BY <1>1, <1>2, <1>3, <1>4 DEF SoundInv, Sound

LEMMA HostEmitsTells ==
  ASSUME Inv, SoundInv, NEW s \in Sessions, HostEmits(s)
  PROVE  SoundInv'
<1> DEFINE e == <<s, sent[s] + 1>>
<1>1. HostType /\ sent[s] \in Nat BY DEF Inv, HostType
<1>2. /\ log' = log /\ sent' = [sent EXCEPT ![s] = sent[s] + 1] /\ UNCHANGED client
      /\ wire' = Append(wire, e) \/ wire' = wire
      BY DEF HostEmits
<1>3. /\ wire \in Seq(Sessions \X Nat) /\ rt \in Runtimes /\ calls \subseteq Asked
      /\ sent \in [Sessions -> Nat]
      BY <1>1, StaysProper DEF HostType
<1>4. /\ sent'[s] = sent[s] + 1
      /\ \A x \in Sessions : sent[x] \in Nat /\ sent'[x] \in Nat /\ sent[x] <= sent'[x]
      BY <1>1, <1>2, <1>3
<1>5. Client' = Client BY <1>2 DEF client, Client
<1>6. \A i \in DOMAIN wire : wire[i][1] \in Sessions /\ wire[i][2] \in Nat
                             /\ wire[i][2] <= sent[wire[i][1]]
      BY <1>3 DEF SoundInv, InTurn
<1>7. InTurn' /\ OnWire' \subseteq OnWire \cup {e}
  <2>1. CASE wire' = wire
    <3>1. \A i \in DOMAIN wire : wire[i][2] <= sent'[wire[i][1]] BY <1>4, <1>6
    <3> QED BY <2>1, <3>1 DEF SoundInv, InTurn, OnWire
  <2>2. CASE wire' = Append(wire, e)
    <3>1. e \in Sessions \X Nat /\ e[1] = s /\ e[2] = sent[s] + 1 BY <1>1
    <3> HIDE DEF e
    <3>2. /\ Len(wire) \in Nat /\ DOMAIN wire = 1..Len(wire)
          /\ DOMAIN wire' = 1..(Len(wire) + 1)
          /\ wire'[Len(wire) + 1] = e /\ \A i \in DOMAIN wire : wire'[i] = wire[i]
          BY <1>3, <2>2, <3>1
    <3>3. ASSUME NEW i \in DOMAIN wire' PROVE wire'[i][2] <= sent'[wire'[i][1]]
      <4>1. CASE i \in DOMAIN wire BY <1>4, <1>6, <3>2, <4>1
      <4>2. CASE i = Len(wire) + 1 BY <1>1, <1>4, <3>1, <3>2, <4>2
      <4> QED BY <3>2, <4>1, <4>2
    <3>4. ASSUME NEW i \in DOMAIN wire', NEW j \in DOMAIN wire', i < j, wire'[i][1] = wire'[j][1]
          PROVE  wire'[i][2] < wire'[j][2]
      <4>1. i \in DOMAIN wire BY <3>2, <3>4
      <4>2. CASE j \in DOMAIN wire BY <3>2, <3>4, <4>1, <4>2 DEF SoundInv, InTurn
      <4>3. CASE j = Len(wire) + 1
        <5>1. wire[i][1] = s /\ wire[i][2] <= sent[s] /\ wire[i][2] \in Nat
              BY <1>6, <3>1, <3>2, <3>4, <4>1, <4>3
        <5> QED BY <1>1, <3>1, <3>2, <4>1, <4>3, <5>1
      <4> QED BY <3>2, <4>2, <4>3
    <3>5. OnWire' \subseteq OnWire \cup {e}
      <4>1. ASSUME NEW i \in DOMAIN wire' PROVE wire'[i] \in OnWire \cup {e}
        <5>1. CASE i \in DOMAIN wire BY <3>2, <5>1 DEF OnWire
        <5>2. CASE i = Len(wire) + 1 BY <3>2, <5>2
        <5> QED BY <3>2, <5>1, <5>2
      <4> QED BY <4>1 DEF OnWire
    <3> QED BY <3>3, <3>4, <3>5 DEF InTurn
  <2> QED BY <1>2, <2>1, <2>2
<1>8. Behind(Client, OnWire)'
  <2>1. ASSUME NEW x \in rt.queue
        PROVE  /\ x[2] <= sent'[x[1]]
               /\ \A w \in OnWire' : w[1] = x[1] => x[2] < w[2]
    <3>1. x[1] \in Sessions /\ x[2] \in Nat BY <1>3 DEF Runtimes
    <3>2. x[2] <= sent[x[1]] /\ \A w \in OnWire : w[1] = x[1] => x[2] < w[2]
          BY DEF SoundInv, Sound, Behind, Client
    <3>3. e[1] = x[1] => x[2] < e[2] BY <1>1, <3>1, <3>2
    <3> HIDE DEF e
    <3> QED BY <1>4, <1>7, <3>1, <3>2, <3>3
  <2> QED BY <1>5, <2>1 DEF Behind, Client
<1>9. Anchored(Client)'
  <2>1. rt.cursor \in Nat /\ (rt.base.sid \in Sessions => rt.base.cursor \in Nat)
        BY <1>3, NoBaseApart DEF Runtimes, Baselines
  <2>2. \A q \in calls : q.at \in Nat BY <1>3 DEF Asked, Requests
  <2>3. Alive(Client) /\ rt.sid \in Sessions => rt.cursor <= sent'[rt.sid]
        BY <1>4, <2>1 DEF SoundInv, Sound, Anchored, Client
  <2>4. rt.base.sid \in Sessions => rt.base.cursor <= sent'[rt.base.sid]
        BY <1>4, <2>1 DEF SoundInv, Sound, Anchored, Client
  <2>5. ASSUME NEW q \in calls, q.state = "bootstrap"
        PROVE  /\ Target(q) \in Sessions /\ q.at <= sent'[Target(q)]
               /\ q.gen = rt.gen /\ rt.base.sid = Target(q) => rt.base.cursor <= q.at
    <3>1. /\ Target(q) \in Sessions /\ q.at <= sent[Target(q)]
          /\ q.gen = rt.gen /\ rt.base.sid = Target(q) => rt.base.cursor <= q.at
          BY <2>5 DEF SoundInv, Sound, Anchored, Client
    <3> QED BY <1>4, <2>2, <3>1
  <2>6. rt' = rt /\ calls' = calls BY <1>2 DEF client
  <2> QED BY <2>3, <2>4, <2>5, <2>6 DEF Anchored, Alive, Client, Target
<1>10. Told(Client)'
       BY <1>2 DEF SoundInv, Sound, Told, Alive, client, Client, Hole, LifeShown, LifeAfter,
                   Decides, NoBase
<1> QED BY <1>7, <1>8, <1>9, <1>10 DEF SoundInv, Sound

(* The host's end of a request: an answer says what the host has emitted.   *)
LEMMA RequestTells ==
  ASSUME Inv, SoundInv, NEW q \in calls, NEW k, calls' = (calls \ {q}) \cup {k},
         k.gen = q.gen,
         k.state = "bootstrap" => Target(k) \in Sessions /\ k.at = sent[Target(k)],
         UNCHANGED <<log, sent, wire, rt, view, strayed>>
  PROVE  SoundInv'
<1>1. InTurn' /\ OnWire' = OnWire BY DEF SoundInv, InTurn, OnWire
<1>2. Behind(Client, OnWire)' BY <1>1 DEF SoundInv, Sound, Behind, Client
<1>3. Anchored(Client)'
  <2>1. rt.base.sid \in Sessions => rt.base.cursor <= sent[rt.base.sid]
        BY DEF SoundInv, Sound, Anchored, Client
  <2>2. ASSUME NEW j \in calls', j.state = "bootstrap"
        PROVE  /\ Target(j) \in Sessions /\ j.at <= sent[Target(j)]
               /\ j.gen = rt.gen /\ rt.base.sid = Target(j) => rt.base.cursor <= j.at
    <3>1. CASE j \in calls BY <2>2, <3>1 DEF SoundInv, Sound, Anchored, Client
    <3>2. CASE j = k
      <4>1. Target(j) \in Sessions /\ j.at = sent[Target(j)] BY <2>2, <3>2
      <4>2. sent[Target(j)] \in Nat BY <4>1 DEF Inv, HostType
      <4> QED BY <2>1, <4>1, <4>2
    <3> QED BY <3>1, <3>2
  <2>3. Alive(Client) /\ rt.sid \in Sessions => rt.cursor <= sent[rt.sid]
        BY DEF SoundInv, Sound, Anchored, Client
  <2> QED BY <2>1, <2>2, <2>3 DEF Anchored, Alive, Client, Target
<1>4. Told(Client)'
      BY DEF SoundInv, Sound, Told, Alive, Client, Hole, LifeShown, LifeAfter, Decides, NoBase
<1> QED BY <1>1, <1>2, <1>3, <1>4 DEF SoundInv, Sound

LEMMA HostAnswersTells ==
  ASSUME Inv, SoundInv, NEW q \in calls, HostAnswers(q)
  PROVE  SoundInv'
<1> DEFINE k == IF q.kind = "reply" THEN [q EXCEPT !.state = "error"]
                ELSE [q EXCEPT !.state = "bootstrap", !.at = sent[Target(q)]]
<1>1. q \in Requests /\ (q.kind # "reply" => Target(q) \in Sessions)
      BY StaysProper DEF Asked, Aimed
<1>2. k.gen = q.gen BY <1>1 DEF Requests
<1>3. k.state = "bootstrap" => Target(k) \in Sessions /\ k.at = sent[Target(k)]
      BY <1>1 DEF Requests, Target
<1>4. calls' = (calls \ {q}) \cup {k} BY DEF HostAnswers
<1> HIDE DEF k
<1> QED BY <1>2, <1>3, <1>4, RequestTells DEF HostAnswers, host

LEMMA CallFailsTells ==
  ASSUME Inv, SoundInv, NEW q \in calls, CallFails(q)
  PROVE  SoundInv'
<1>1. PICK state \in {"error", "malformed"} :
        calls' = (calls \ {q}) \cup {[q EXCEPT !.state = state]}
      BY DEF CallFails
<1> DEFINE k == [q EXCEPT !.state = state]
<1>2. q \in Requests BY StaysProper DEF Asked
<1>3. k.gen = q.gen /\ k.state # "bootstrap" BY <1>2 DEF Requests
<1>4. calls' = (calls \ {q}) \cup {k} BY <1>1
<1> HIDE DEF k
<1> QED BY <1>3, <1>4, RequestTells DEF CallFails, host

LEMMA AnswerArrivesTells ==
  ASSUME Inv, StaleInv, SoundInv, NEW q \in calls, NEW bad, AnswerArrives(q, bad)
  PROVE  SoundInv'
<1> DEFINE c == [Client EXCEPT !.calls = @ \ {q}]
<1>1. PICK k \in Reports(q) : Become(Answered(c, k, bad)) BY DEF AnswerArrives
<1> DEFINE d == Answered(c, k, bad)
<1>2. UNCHANGED <<log, sent, wire>> BY DEF AnswerArrives, host
<1>3. InTurn' /\ OnWire' = OnWire BY <1>2 DEF SoundInv, InTurn, OnWire
<1>4. Sound(d, OnWire) BY AnsweredTells DEF StaleInv, SoundInv
<1> HIDE DEF d
<1>5. Become(d) BY <1>1 DEF d
<1>6. Sound(Client, OnWire)' BY <1>2, <1>3, <1>4, <1>5, BecomesSound
<1> QED BY <1>3, <1>6 DEF SoundInv

LEMMA MessageArrivesTells ==
  ASSUME Inv, StaleInv, SoundInv, NEW bad, MessageArrives(bad)
  PROVE  SoundInv'
<1> DEFINE s == Head(wire)[1]
           n == Head(wire)[2]
           d == Accepted(Client, s, n, bad)
<1>1. wire \in Seq(Sessions \X Nat) /\ wire # <<>> /\ HostType
      BY DEF MessageArrives, Inv, HostType
<1>2. s \in Sessions /\ n \in Nat /\ Head(wire) = <<s, n>> BY <1>1
<1>3. Become(d) /\ UNCHANGED <<log, sent>> /\ wire' = Tail(wire)
      BY DEF MessageArrives, host
<1>4. OnWire = OnWire' \cup {<<s, n>>} BY <1>1, <1>2, <1>3, WireShrinks
<1>5. InTurn' BY <1>1, <1>3, TurnShrinks DEF SoundInv, Shrinks
<1>6. 1 \in DOMAIN wire /\ Head(wire) = wire[1] BY <1>1
<1>7. n <= sent[s] BY <1>6 DEF SoundInv, InTurn
<1>8. OnWire' \subseteq Sessions \X Nat /\ \A w \in OnWire' : w[1] = s => n < w[2]
  <2>1. /\ Len(wire) \in Nat /\ DOMAIN wire = 1..Len(wire)
        /\ DOMAIN wire' = 1..(Len(wire) - 1)
        /\ \A i \in 1..(Len(wire) - 1) : wire'[i] = wire[i + 1]
        BY <1>1, <1>3
  <2>2. ASSUME NEW i \in DOMAIN wire'
        PROVE  wire'[i] \in Sessions \X Nat /\ (wire'[i][1] = s => n < wire'[i][2])
    <3>1. i + 1 \in DOMAIN wire /\ wire'[i] = wire[i + 1] /\ 1 < i + 1 BY <2>1
    <3> QED BY <1>1, <1>6, <3>1 DEF SoundInv, InTurn
  <2> HIDE DEF s, n
  <2> QED BY <2>2 DEF OnWire
<1>9. Proper(Client) /\ Counted(Client) BY StaysProper DEF StaleInv, Single
<1> HIDE DEF s, n
<1>10. Sound(d, OnWire') BY <1>2, <1>4, <1>7, <1>8, <1>9, AcceptedTells DEF StaleInv, SoundInv
<1> HIDE DEF d
<1>11. Sound(Client, OnWire)' BY <1>3, <1>10, BecomesSound
<1> QED BY <1>5, <1>11 DEF SoundInv

(* A transaction begins, from wherever the client is.                       *)
LEMMA BeginStepTells ==
  ASSUME Inv, StaleInv, SoundInv, Operable(Client),
         NEW kind \in {"activate", "operate", "create", "reply"}, NEW sid, NEW about,
         Become(Begin(Client, kind, sid, about)), UNCHANGED <<log, sent, wire>>
  PROVE  SoundInv'
<1> DEFINE d == Begin(Client, kind, sid, about)
<1>1. Client.rt = rt /\ Client.view = view /\ Client.strayed = strayed BY DEF Client
<1>2. InTurn' /\ OnWire' = OnWire BY DEF SoundInv, InTurn, OnWire
<1>3. rt.base = NoBase => \/ strayed \/ rt.life = LifeShown(view)
                          \/ Hole(rt, rt.sid, rt.cursor)
  <2> SUFFICES ASSUME rt.base = NoBase
               PROVE  strayed \/ rt.life = LifeShown(view) \/ Hole(rt, rt.sid, rt.cursor)
      OBVIOUS
  <2>1. rt.phase \in {"idle", "recovery"} BY StaysProper DEF InOrder, Runtimes
  <2>2. Alive(Client) BY DEF Alive, Operable
  <2> QED BY <1>1, <2>1, <2>2 DEF SoundInv, Sound, Told
<1>4. Sound(d, OnWire)
  <2>1. Client \in Clients /\ InOrder(rt) /\ Counted(Client) BY StaysProper DEF StaleInv, Single
  <2>2. /\ Behind(Client, OnWire) /\ Anchored(Client)
        /\ strayed \/ view.at <= view.seen
        BY <1>1 DEF SoundInv, Sound, Told
  <2>3. rt.base # NoBase /\ rt.base.sid = view.sid /\ rt.base.cursor = view.seen =>
           \/ strayed \/ rt.base.life = LifeShown(view)
           \/ Hole(rt, rt.base.sid, rt.base.cursor)
        BY <1>1 DEF SoundInv, Sound, Told
  <2> QED BY <1>1, <1>3, <2>1, <2>2, <2>3, BeginTells
<1> HIDE DEF d
<1>5. Sound(Client, OnWire)' BY <1>2, <1>4, BecomesSound DEF d
<1> QED BY <1>2, <1>5 DEF SoundInv

LEMMA OpenedTells ==
  ASSUME Inv, StaleInv, SoundInv, Opened
  PROVE  SoundInv'
<1>1. Become(Reopened(Client)) /\ UNCHANGED <<log, sent, wire>> BY DEF Opened, host
<1>2. CASE Reopened(Client) = Client
  <2>1. UNCHANGED <<rt, view, calls, strayed>> BY <1>1, <1>2 DEF Become, Client
  <2> QED BY <1>1, <2>1, ApartTells DEF Shrinks
<1>3. CASE Reopened(Client) # Client
  <2>1. /\ Reopened(Client) = Begin(Client, "activate", Client.view.sid, NoSession)
        /\ Operable(Client)
        BY <1>3 DEF Reopened, Begin
  <2> QED BY <1>1, <2>1, BeginStepTells
<1> QED BY <1>2, <1>3

LEMMA UserTells ==
  ASSUME Inv, StaleInv, SoundInv, \/ \E s \in Sessions : Select(s) \/ Create(s)
                                  \/ Operate \/ Reply
  PROVE  SoundInv'
<1>1. Operable(Client) /\ UNCHANGED <<log, sent, wire>>
      BY DEF Select, Create, Operate, Reply, UserOp, Elsewhere, host
<1>2. PICK kind \in {"activate", "operate", "create", "reply"}, sid \in Ids, about \in Ids :
        Become(Begin(Client, kind, sid, about))
  <2>1. view.sid \in Ids /\ rt.sid \in Ids BY StaysProper DEF Views, Runtimes
  <2> QED BY <2>1 DEF Select, Create, Operate, Reply, Ids
<1> QED BY <1>1, <1>2, BeginStepTells

LEMMA CloseTells ==
  ASSUME Inv, StaleInv, SoundInv, Close
  PROVE  SoundInv'
<1>1. /\ UNCHANGED <<log, sent, view, calls, strayed>> /\ wire' = <<>>
      /\ rt'.life = "closed" /\ rt'.phase = "idle" /\ rt'.base = NoBase /\ rt'.queue = {}
      BY StaysProper DEF Close, host, Runtimes
<1>2. InTurn' BY <1>1, TurnShrinks DEF Inv, SoundInv, Shrinks
<1>3. Behind(Client, OnWire)' BY <1>1 DEF Behind, Client
<1>4. Anchored(Client)'
  <2>1. NoBase.sid \notin Sessions BY NoBaseApart
  <2>2. \A q \in calls : q.state = "bootstrap" =>
          Target(q) \in Sessions /\ q.at <= sent[Target(q)]
        BY DEF SoundInv, Sound, Anchored, Client
  <2> QED BY <1>1, <2>1, <2>2 DEF Anchored, Alive, Client, Target
<1>5. Told(Client)'
  <2>1. strayed \/ view.at <= view.seen BY DEF SoundInv, Sound, Told, Client
  <2> QED BY <1>1, <2>1 DEF Told, Alive, Client, NoBase
<1> QED BY <1>2, <1>3, <1>4, <1>5 DEF SoundInv, Sound

LEMMA SoundStarts == Init => SoundInv
<1> SUFFICES ASSUME Init PROVE SoundInv OBVIOUS
<1>1. InTurn BY DEF Init, InTurn
<1>2. Behind(Client, OnWire) BY DEF Init, Behind, Client
<1>3. Anchored(Client) BY ClientAssumption, NoBaseApart DEF Init, Anchored, Client
<1>4. LifeShown(view) = "idle" BY DEF Init, LifeShown, LifeAfter
<1>5. Told(Client) BY <1>4 DEF Init, Told, Client
<1> QED BY <1>1, <1>2, <1>3, <1>5 DEF SoundInv, Sound

LEMMA SoundStays == Inv /\ StaleInv /\ SoundInv /\ [Next]_vars => SoundInv'
<1> SUFFICES ASSUME Inv, StaleInv, SoundInv, [Next]_vars PROVE SoundInv' OBVIOUS
<1>1. CASE UNCHANGED vars BY <1>1, ApartTells DEF vars, Shrinks
<1>2. CASE Next
  <2>1. CASE \E s \in Sessions : HostEmits(s) \/ Select(s) \/ Create(s)
        BY <2>1, HostEmitsTells, UserTells
  <2>2. CASE \E q \in calls : HostAnswers(q) \/ CallFails(q)
        BY <2>2, HostAnswersTells, CallFailsTells
  <2>3. CASE \E q \in calls, bad \in Positions : AnswerArrives(q, bad)
        BY <2>3, AnswerArrivesTells
  <2>4. CASE \E bad \in Positions : MessageArrives(bad) BY <2>4, MessageArrivesTells
  <2>5. CASE MessageGarbled \/ Breaks \/ Reconnects
        BY <2>5, ApartTells DEF MessageGarbled, Breaks, Reconnects, host, client, Shrinks
  <2>6. CASE Opened BY <2>6, OpenedTells
  <2>7. CASE Operate \/ Reply BY <2>7, UserTells
  <2>8. CASE Close BY <2>8, CloseTells
  <2> QED BY <1>2, <2>1, <2>2, <2>3, <2>4, <2>5, <2>6, <2>7, <2>8 DEF Next
<1> QED BY <1>1, <1>2

(* A client at rest takes the session for what its store was told of it, by *)
(* the bootstrap shown and the events after it, whatever transactions were  *)
(* superseded, failed and rolled back in between.                           *)
THEOREM LifeMatchesStoreHolds == Spec => []LifeMatchesStore
<1>1. Init => Inv /\ StaleInv /\ SoundInv BY InitInv, StaleStarts, SoundStarts
<1>2. Inv /\ StaleInv /\ SoundInv /\ [Next]_vars => (Inv /\ StaleInv /\ SoundInv)'
      BY StepInv, StaleStays, SoundStays
<1>3. Inv /\ StaleInv /\ SoundInv => LifeMatchesStore
      BY DEF SoundInv, Sound, Told, Alive, Client, LifeMatchesStore, Serving
<1> QED BY <1>1, <1>2, <1>3, PTL DEF Spec
=============================================================================

----------------------------- MODULE SessionClient -----------------------------
(***************************************************************************)
(* The session client of the browser front end: SessionClientRuntime, the  *)
(* socket controller that feeds it, and the store it publishes to.         *)
(*                                                                         *)
(* The host numbers the events of each session from 1 and broadcasts them  *)
(* on one web socket; what it emits while no socket is open is lost.  The  *)
(* client learns the past of a session from a bootstrap, an HTTP answer    *)
(* that carries its events up to number `at` and the status it has at that *)
(* moment, and the present from the socket.  Every operation that asks for *)
(* a bootstrap opens a new generation and buffers events until it is       *)
(* answered; a gap in the numbers is healed by one recovery bootstrap per  *)
(* generation.                                                             *)
(*                                                                         *)
(* JavaScript runs a task to its end, microtasks included, so one action   *)
(* is one task: a message, an answer, a timer, a click.  An await that     *)
(* only yields to microtasks does not split an action; an await of an HTTP *)
(* request does, and what follows it is the action of the answer.          *)
(***************************************************************************)
EXTENDS Integers, Sequences

CONSTANTS
    Sessions,     \* ids of sessions
    NoSession,    \* the empty id
    Logs,         \* the event streams the host may produce, by session
    MaxEvents,    \* bound: events of one session
    MaxOps,       \* bound: operations of the user
    MaxBreaks,    \* bound: times the socket breaks
    MaxFaults     \* bound: failed requests, bad answers, throwing reducers, garbled messages

\* A session id stands for a command result that asks to open that session.
EventKinds == {"text", "ask", "done", "error"} \cup Sessions

ASSUME ClientAssumption ==
    /\ NoSession \notin Sessions
    /\ Sessions \cap {"text", "ask", "done", "error"} = {}
    /\ {MaxEvents, MaxOps, MaxBreaks, MaxFaults} \subseteq Nat
    /\ \A l \in Logs, s \in Sessions :
          l[s] \in Seq(EventKinds) /\ Len(l[s]) <= MaxEvents

VARIABLES
    log,      \* what the host has to say about each session
    sent,     \* how many events of each session it has emitted
    link,     \* the socket: "connecting", "open", "degraded" or "closed"
    wire,     \* events on the socket, oldest first
    rt,       \* the runtime
    view,     \* the store: the session shown, the bootstrap it was opened with (its
              \* cursor and lifecycle), the last of its events shown, and whether
              \* what was dispatched for it is just its events in order
    reload,   \* the transport state: "healthy", "required" or "degraded"
    calls,    \* HTTP requests in flight
    ops, breaks, faults,  \* counters for the bounds
    strayed,  \* history: a rollback took the runtime to another place than the view,
              \* and no bootstrap has come since
    blind     \* history: the last dispatch counted as healthy without cause

host == <<log, sent>>
counters == <<ops, breaks, faults>>
vars == <<log, sent, link, wire, rt, view, reload, calls, ops, breaks, faults,
          strayed, blind>>

NoBase == [sid |-> NoSession, cursor |-> -1, life |-> "none", tried |-> FALSE]

-----------------------------------------------------------------------------
(* What the events of a session say about it. *)

Decides(s, n) == log[s][n] \in {"ask", "done", "error"}

LifeOf(kind) == CASE kind = "ask" -> "waiting"
                  [] kind = "done" -> "ready"
                  [] OTHER -> "failed"

\* The lifecycle of s after event n, if it was `life` after event m.
LifeAfter(life, s, m, n) ==
    LET deciding == {i \in (m + 1)..n : Decides(s, i)}
    IN  IF deciding = {} THEN life
        ELSE LifeOf(log[s][CHOOSE i \in deciding : \A j \in deciding : j <= i])

\* What the snapshot in a bootstrap says.  It is taken from the live session, whose
\* status and pending interaction the host changes under other locks and before it
\* emits the event: it need not be what the events up to the cursor say.
BootLives == {"ready", "waiting", "failed"}

\* What the store was given for the session it shows: a bootstrap, and events.
LifeShown(v) == LifeAfter(v.life, v.sid, v.at, v.seen)

-----------------------------------------------------------------------------
(* The client as a value: what the handlers below compute. *)

Client == [rt |-> rt, view |-> view, reload |-> reload, calls |-> calls,
           strayed |-> strayed, blind |-> blind]

Become(c) ==
    /\ rt' = c.rt
    /\ view' = c.view
    /\ reload' = c.reload
    /\ calls' = c.calls
    /\ strayed' = c.strayed
    /\ blind' = c.blind

Operable(c) == c.rt.life \notin {"closed", "failed"}

\* A request: what it is for, its generation and session, what follows its failure
\* ("nothing", or "fail" for the session `about`), and the answer: a bootstrap with
\* its cursor and lifecycle (see Reports), an error, or one that is malformed.
Call(kind, gen, sid, after, about) ==
    [kind |-> kind, gen |-> gen, sid |-> sid, after |-> after, about |-> about,
     state |-> "waiting", at |-> 0, life |-> "ready"]

\* Mutant: the lifecycle is not saved with the baseline.
BaselineReady(r) == IF r.base # NoBase THEN r.base
                    ELSE [sid |-> r.sid, cursor |-> r.cursor, life |-> "ready",
                          tried |-> r.tried]

Baseline(r) == IF r.base # NoBase THEN r.base
               ELSE [sid |-> r.sid, cursor |-> r.cursor, life |-> r.life,
                     tried |-> r.tried]

\* A bootstrap-producing operation starts: a new generation, and the request.
Begin(c, kind, sid, about) ==
    IF ~Operable(c) THEN c
    ELSE LET g == c.rt.gen + 1
         IN  [c EXCEPT !.rt = [sid |-> sid, cursor |-> 0, gen |-> g,
                               life |-> "activating", phase |-> "bootstrap",
                               queue |-> c.rt.queue, tried |-> FALSE,
                               base |-> Baseline(c.rt)],
                       !.calls = @ \cup {Call(kind, g, sid, "nothing", about)}]

\* Mutant: the transaction's baseline survives the failure.
StoppedWithBase(r, sid) == [r EXCEPT !.sid = sid, !.life = "failed",
                                     !.phase = "idle", !.queue = {}]

\* The runtime stops serving, whatever generation is current.
Stopped(r, sid) == [r EXCEPT !.sid = sid, !.life = "failed", !.phase = "idle",
                             !.queue = {}, !.base = NoBase]

Fail(c, sid) ==
    IF c.rt.life = "closed" THEN c
    ELSE [c EXCEPT !.rt = Stopped(@, sid), !.reload = "degraded"]

-----------------------------------------------------------------------------
(* Publication.  The queue is drained in the order of the numbers; `bad` is  *)
(* the position at which the store's reducer throws, -1 if it does not.      *)

Pending(r) == {n \in (r.cursor + 1)..MaxEvents : <<r.sid, n>> \in r.queue}

\* Mutant: events behind a gap are published too.
ConsecutiveAny(r) == Pending(r)

Consecutive(r) == {n \in Pending(r) : (r.cursor + 1)..n \subseteq Pending(r)}

\* A command result opens a session from within the drain, which ends there.
Opens(r, n) == /\ log[r.sid][n] \in Sessions
               /\ LifeAfter(r.life, r.sid, r.cursor, n) # "failed"

Publishable(r, bad) ==
    {n \in Consecutive(r) : \A k \in (r.cursor + 1)..n :
                                k # bad /\ (k < n => ~Opens(r, k))}

Reached(r, bad) ==
    CHOOSE n \in {r.cursor} \cup Publishable(r, bad) :
        \A k \in Publishable(r, bad) : k <= n

Unseen(v) == IF v.sid = NoSession THEN {} ELSE (v.seen + 1)..sent[v.sid]

OnTheWay(r, s, n) == <<s, n>> \in r.queue \/ \E i \in DOMAIN wire : wire[i] = <<s, n>>

\* Whatever is dispatched, the transport counts as healthy from then on.
Healthy(c) ==
    [c EXCEPT !.reload = "healthy",
              !.blind = \/ link # "open"
                        \/ \E n \in Unseen(c.view) : ~OnTheWay(c.rt, c.view.sid, n)]

\* The store after the events `ns` of s, up to `to`, were dispatched to it.
Shown(v, s, ns, to) ==
    [v EXCEPT !.seen = IF v.sid = s THEN to ELSE @,
              !.tidy = @ /\ v.sid = s /\ ns = (v.seen + 1)..to]

Published(c, bad) ==
    LET r == c.rt
        to == Reached(r, bad)
    IN  IF to = r.cursor THEN c
        ELSE Healthy([c EXCEPT
                !.rt.cursor = to,
                !.rt.life = LifeAfter(r.life, r.sid, r.cursor, to),
                !.view = Shown(@, r.sid, Publishable(r, bad), to)])

\* #drainEventQueue, from a phase that is not idle.
Drain(c, bad, after, about) ==
    LET r == c.rt
        to == Reached(r, bad)
        opens == to > r.cursor /\ Opens(r, to)
        rest == {n \in Pending(r) : n > to}
        d == [Published(c, bad) EXCEPT !.rt.queue = {r.sid} \X rest]
        next == Call("recovery", r.gen, r.sid, after, about)
    IN  CASE opens -> Begin(d, "activate", log[r.sid][to], NoSession)
          [] ~opens /\ to + 1 \in rest /\ to + 1 = bad ->
               [Healthy(d) EXCEPT !.rt = Stopped(@, r.sid)]
          [] ~opens /\ rest = {} -> [d EXCEPT !.rt.phase = "idle", !.rt.base = NoBase]
          [] ~opens /\ rest # {} /\ to + 1 # bad /\ r.tried -> Fail(d, r.sid)
          [] OTHER -> [d EXCEPT !.rt.phase = "recovery", !.rt.tried = TRUE,
                                !.calls = @ \cup {next}]

-----------------------------------------------------------------------------
(* The end of a request. *)

\* Mutant: an answer counts whatever generation asked for it.
CurrentAlways(c, q) == c.rt.life # "closed"

Current(c, q) == q.gen = c.rt.gen /\ c.rt.life # "closed"

\* The bootstrap q brought for s is installed and the queue drained behind it.
Install(c, q, s, bad) ==
    LET d == [c EXCEPT !.rt.sid = s,
                       !.rt.queue = {e \in @ : e[1] = s /\ e[2] > q.at}]
    IN  IF bad = q.at
        THEN [Healthy(d) EXCEPT !.rt = Stopped(@, s)]
        ELSE Drain(Healthy([d EXCEPT !.rt.cursor = q.at,
                                     !.rt.life = q.life,
                                     !.view = [sid |-> s, at |-> q.at, life |-> q.life,
                                               seen |-> q.at, tidy |-> TRUE],
                                     !.strayed = FALSE]),
                   bad, "nothing", NoSession)

\* The runtime at the baseline of its transaction.
AtBaseline(r) ==
    [sid |-> r.base.sid, cursor |-> r.base.cursor, gen |-> r.gen,
     life |-> r.base.life, phase |-> "bootstrap",
     queue |-> {e \in r.queue : e[1] = r.base.sid},
     tried |-> r.base.tried, base |-> r.base]

\* Mutant: the baseline is restored and nothing is replayed.
RollbackUndrained(c, q, bad, after, about) ==
    IF ~Current(c, q) \/ c.rt.base = NoBase THEN c
    ELSE [c EXCEPT !.rt = AtBaseline(@),
                   !.strayed = \/ @
                               \/ c.rt.base.sid # c.view.sid
                               \/ c.rt.base.cursor # c.view.seen]

\* The failed request q was ours: back to the baseline, and what waited is replayed.
Rollback(c, q, bad, after, about) ==
    IF ~Current(c, q) \/ c.rt.base = NoBase THEN c
    ELSE Drain([c EXCEPT !.rt = AtBaseline(@),
                         !.strayed = \/ @
                                     \/ c.rt.base.sid # c.view.sid
                                     \/ c.rt.base.cursor # c.view.seen],
               bad, after, about)

\* What the caller does once the rollback is over: activateSession's catch fails
\* the generation that is current by then.
Afterwards(c, after, about) ==
    IF after = "fail" /\ Operable(c) THEN Fail(c, about) ELSE c

\* A request inside another session's transaction fails as superseded.
Nested(c, q) == c.rt.base.sid \notin {NoSession, q.sid}

AfterFailure(c, q) ==
    IF ~Nested(c, q) /\ q.kind = "activate" THEN "fail" ELSE "nothing"

\* A recovery that the rollback starts is awaited before the caller goes on.
Rejected(c, q, bad) ==
    LET after == AfterFailure(c, q)
        d == Rollback(c, q, bad, after, q.sid)
    IN  IF d.rt.phase = "recovery" /\ d # c THEN d ELSE Afterwards(d, after, q.sid)

Malformed(c, q) ==
    LET d == IF Current(c, q) THEN Fail(c, q.sid) ELSE c
    IN  Afterwards(d, IF q.kind = "activate" THEN "fail" ELSE "nothing", q.sid)

Recovered(c, q, bad) ==
    LET d == CASE ~Current(c, q) -> c
               [] Current(c, q) /\ q.state = "bootstrap" -> Install(c, q, q.sid, bad)
               [] OTHER -> Fail(c, q.sid)
    IN  Afterwards(d, q.after, q.about)

\* The session a bootstrap is about: a created one is named by the host.
Target(q) == IF q.kind = "create" THEN q.about ELSE q.sid

Answered(c, q, bad) ==
    CASE q.kind = "recovery" -> Recovered(c, q, bad)
      [] q.kind # "recovery" /\ q.state = "bootstrap" ->
            IF Current(c, q) THEN Install(c, q, Target(q), bad) ELSE c
      [] q.kind # "recovery" /\ q.state = "malformed" -> Malformed(c, q)
      [] OTHER -> Rejected(c, q, bad)

-----------------------------------------------------------------------------
(* The host and the socket. *)

Init ==
    /\ log \in Logs
    /\ sent = [s \in Sessions |-> 0]
    /\ link = "connecting"
    /\ wire = <<>>
    /\ rt = [sid |-> NoSession, cursor |-> 0, gen |-> 0, life |-> "idle",
             phase |-> "idle", queue |-> {}, tried |-> FALSE, base |-> NoBase]
    /\ view = [sid |-> NoSession, at |-> 0, life |-> "idle", seen |-> 0, tidy |-> TRUE]
    /\ reload = "healthy"
    /\ calls = {}
    /\ ops = 0 /\ breaks = 0 /\ faults = 0
    /\ strayed = FALSE /\ blind = FALSE

client == <<rt, view, reload, calls, strayed, blind>>

\* The encoder numbers an event and the bridge broadcasts it.  What it tells of, the
\* host has done before, to the live session; no variable stands for that, because a
\* bootstrap may report any lifecycle whatever was emitted (BootLives).
HostEmits(s) ==
    /\ sent[s] < Len(log[s])
    /\ sent' = [sent EXCEPT ![s] = @ + 1]
    /\ wire' = IF link \in {"open", "degraded"} THEN Append(wire, <<s, sent[s] + 1>>)
               ELSE wire
    /\ UNCHANGED <<log, link, counters, client>>

\* The host captures projection and cursor of a session in one step, between two of
\* its events.  The reply of the browser sends the id of the interaction where the
\* route expects a dictionary, and is refused.
HostAnswers(q) ==
    /\ q.state = "waiting"
    /\ calls' = (calls \ {q}) \cup
                {IF q.kind = "reply" THEN [q EXCEPT !.state = "error"]
                 ELSE [q EXCEPT !.state = "bootstrap", !.at = sent[Target(q)]]}
    /\ UNCHANGED <<host, link, wire, rt, view, reload, counters, strayed, blind>>

\* The request gets no answer, or one the client cannot use.
CallFails(q) ==
    /\ q.state = "waiting"
    /\ faults < MaxFaults
    /\ \E state \in {"error", "malformed"} :
          calls' = (calls \ {q}) \cup {[q EXCEPT !.state = state]}
    /\ faults' = faults + 1
    /\ UNCHANGED <<host, link, wire, rt, view, reload, ops, breaks, strayed, blind>>

\* The store's reducer throws at `bad`; `hits` says that it is dispatched to there.
Throws(bad, hits) ==
    \/ bad = -1 /\ UNCHANGED faults
    \/ bad # -1 /\ hits /\ faults < MaxFaults /\ faults' = faults + 1

\* What the answer to q may say.  The lifecycle of a bootstrap may be any and nobody
\* sees it on the way, so it is chosen where it is read.
Reports(q) == IF q.state # "bootstrap" THEN {q}
              ELSE {[q EXCEPT !.life = life] : life \in BootLives}

AnswerArrives(q, bad) ==
    /\ q.state # "waiting"
    /\ \E k \in Reports(q) :
          LET c == [Client EXCEPT !.calls = @ \ {q}]
          IN  /\ Become(Answered(c, k, bad))
              /\ Throws(bad, Answered(c, k, bad) # Answered(c, k, -1))
    /\ UNCHANGED <<host, link, wire, ops, breaks>>

\* acceptSessionEvent
Accepted(c, s, n, bad) ==
    LET d == [c EXCEPT !.rt.queue = @ \cup {<<s, n>>}]
    IN  CASE Operable(c) /\ c.rt.phase # "idle" -> d
          [] Operable(c) /\ c.rt.phase = "idle" /\ s = c.rt.sid /\ n > c.rt.cursor ->
                Drain(d, bad, "nothing", NoSession)
          [] OTHER -> c

MessageArrives(bad) ==
    /\ wire # <<>>
    /\ LET s == Head(wire)[1]
           n == Head(wire)[2]
       IN  /\ Become(Accepted(Client, s, n, bad))
           /\ Throws(bad, Accepted(Client, s, n, bad) # Accepted(Client, s, n, -1))
    /\ wire' = Tail(wire)
    /\ UNCHANGED <<host, link, ops, breaks>>

\* Mutant: a lost connection asks for nothing.
NothingDue == "healthy"

\* What a lost connection or an unreadable message asks for.
ReloadDue == "required"

\* A message that does not parse is dropped; the first one degrades the channel.
MessageGarbled ==
    /\ wire # <<>>
    /\ faults < MaxFaults
    /\ faults' = faults + 1
    /\ wire' = Tail(wire)
    /\ link' = "degraded"
    /\ reload' = IF link = "degraded" THEN reload ELSE ReloadDue
    /\ UNCHANGED <<host, rt, view, calls, ops, breaks, strayed, blind>>

\* The session shown is opened again unless the transport counts as healthy.
Reopened(c) ==
    IF c.reload = "healthy" \/ c.view.sid = NoSession THEN c
    ELSE Begin(c, "activate", c.view.sid, NoSession)

Opened ==
    /\ link = "connecting"
    /\ link' = "open"
    /\ Become(Reopened(Client))
    /\ UNCHANGED <<host, wire, counters>>

Breaks ==
    /\ link \in {"connecting", "open", "degraded"}
    /\ breaks < MaxBreaks
    /\ breaks' = breaks + 1
    /\ link' = "closed"
    /\ wire' = <<>>
    /\ reload' = ReloadDue
    /\ UNCHANGED <<host, rt, view, calls, ops, faults, strayed, blind>>

Reconnects ==
    /\ link = "closed"
    /\ rt.life # "closed"
    /\ link' = "connecting"
    /\ UNCHANGED <<host, wire, counters, client>>

-----------------------------------------------------------------------------
(* The user. *)

UserOp == Operable(Client) /\ ops < MaxOps /\ ops' = ops + 1

Elsewhere == UNCHANGED <<host, link, wire, breaks, faults>>

Select(s) ==
    /\ UserOp
    /\ Become(Begin(Client, "activate", s, NoSession))
    /\ Elsewhere

\* setSessionMode and cancelSession of the session shown.
Operate ==
    /\ UserOp
    /\ view.sid # NoSession
    /\ Become(Begin(Client, "operate", view.sid, NoSession))
    /\ Elsewhere

\* createSession; s is the session the host will create.
Create(s) ==
    /\ UserOp
    /\ sent[s] = 0
    /\ Become(Begin(Client, "create", NoSession, s))
    /\ Elsewhere

\* respondToInteraction for the open question of the session shown, once at a time.
Reply ==
    /\ UserOp
    /\ ~\E q \in calls : q.kind = "reply"
    /\ view.sid # NoSession /\ rt.sid # NoSession
    /\ LifeShown(view) = "waiting"
    /\ Become(Begin(Client, "reply", rt.sid, NoSession))
    /\ Elsewhere

Close ==
    /\ UserOp
    /\ rt' = [rt EXCEPT !.gen = @ + 1, !.life = "closed", !.phase = "idle",
                        !.queue = {}, !.base = NoBase]
    /\ link' = "closed"
    /\ wire' = <<>>
    /\ reload' = "healthy"
    /\ UNCHANGED <<host, view, calls, breaks, faults, strayed, blind>>

-----------------------------------------------------------------------------
Positions == -1..MaxEvents

Next ==
    \/ \E s \in Sessions : HostEmits(s) \/ Select(s) \/ Create(s)
    \/ \E q \in calls : HostAnswers(q) \/ CallFails(q)
    \/ \E q \in calls, bad \in Positions : AnswerArrives(q, bad)
    \/ \E bad \in Positions : MessageArrives(bad)
    \/ MessageGarbled \/ Opened \/ Breaks \/ Reconnects
    \/ Operate \/ Reply \/ Close

Spec == Init /\ [][Next]_vars

-----------------------------------------------------------------------------
(* Properties. *)

Ids == Sessions \cup {NoSession}
Lives == {"idle", "activating", "ready", "waiting", "failed", "closed"}

Baselines == [sid : Ids, cursor : Nat, life : Lives \ {"failed", "closed"},
              tried : BOOLEAN]

Runtimes == [sid : Ids, cursor : Nat, gen : Nat, life : Lives,
             phase : {"idle", "bootstrap", "recovery"},
             queue : SUBSET (Sessions \X Nat), tried : BOOLEAN,
             base : Baselines \cup {NoBase}]

Requests == [kind : {"activate", "operate", "create", "reply", "recovery"},
             gen : Nat, sid : Ids, after : {"nothing", "fail"}, about : Ids,
             state : {"waiting", "bootstrap", "malformed", "error"},
             at : Nat, life : BootLives]

Views == [sid : Ids, at : Nat, life : BootLives \cup {"idle"}, seen : Nat, tidy : BOOLEAN]

\* The values of the client.  A runtime at rest holds no baseline, and is past its
\* activation.
TypeOK ==
    /\ sent \in [Sessions -> Nat]
    /\ link \in {"connecting", "open", "degraded", "closed"}
    /\ wire \in Seq(Sessions \X Nat)
    /\ rt \in Runtimes
    /\ view \in Views
    /\ reload \in {"healthy", "required", "degraded"}
    /\ calls \subseteq Requests
    /\ {ops, breaks, faults} \subseteq Nat
    /\ {strayed, blind} \subseteq BOOLEAN
    /\ rt.phase = "idle" => rt.base = NoBase /\ rt.life # "activating"

Serving == rt.life \notin {"failed", "closed"}

\* The store shows each event of the session it names once and in order, and at
\* rest it names the runtime's session at the runtime's cursor: no interleaving of
\* answers, events, gaps, recoveries and clicks puts the events of one session on
\* the timeline of another, unless a rollback has gone to a baseline that is older
\* than what the store shows.
ViewFollowsRuntime ==
    strayed \/ /\ view.tidy
               /\ Serving /\ rt.phase = "idle" =>
                     rt.sid = view.sid /\ rt.cursor = view.seen

\* A client at rest on an open socket that misses events of the session it shows
\* knows it: a reload is due.  The exception is a dispatch while the socket was
\* not cleanly open or after an event was already lost, which counts as healthy.
StaleIsKnown ==
    /\ Serving /\ rt.phase = "idle" /\ link \in {"open", "degraded"} /\ ~strayed
    /\ \E n \in Unseen(view) : ~OnTheWay(rt, view.sid, n)
    => reload # "healthy" \/ blind

\* The client never buffers events for an answer that cannot come: while it
\* buffers, the request that will end it is in flight.
BufferingIsAwaited ==
    /\ rt.phase = "bootstrap" =>
          \E q \in calls : q.gen = rt.gen /\ q.kind # "recovery"
    /\ rt.phase = "recovery" =>
          \E q \in calls : q.gen = rt.gen /\ q.kind = "recovery"

\* What the client takes the session for (ready, failed or waiting for an answer),
\* by which it lets the user operate or reply, is what its store was given: the
\* snapshot of the bootstrap shown, changed by the events shown since, and by no
\* others, however many transactions were superseded or rolled back in between.
\* (Except after a rollback to a baseline that is older than what the store shows.)
LifeMatchesStore ==
    Serving /\ rt.phase = "idle" /\ ~strayed => rt.life = LifeShown(view)

\* The end of a request whose generation was superseded changes neither runtime
\* nor view; the exception is a failed activation, whose catch fails the current
\* generation.
LateAnswersChangeNothing ==
    [][\A q \in calls :
          /\ q.gen < rt.gen
          /\ ~\E k \in calls' : k.gen = q.gen /\ k.kind = q.kind
          /\ q.state = "bootstrap" \/ q.kind # "activate"
          /\ q.after = "nothing"
          => UNCHANGED <<rt, view>>]_vars
================================================================================

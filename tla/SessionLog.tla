----------------------------- MODULE SessionLog -----------------------------
(***************************************************************************)
(* The durable ledger of one session: TranscriptStore, which appends events *)
(* to transcript.jsonl and reads them back through a cache of its last      *)
(* scan, under SessionTransaction, which leases the session, restores it    *)
(* from the ledger and commits event by event (append, then apply).         *)
(*                                                                         *)
(* Threads of one hosting process: transactions hold the lease; the host    *)
(* also appends (its configuration and resources) and reads (projections)   *)
(* without it.  The process may crash, and an append may fail, at any point.*)
(***************************************************************************)
EXTENDS Naturals, Sequences, FiniteSets, Functions

CONSTANTS
  Turns,      \* threads that run transactions
  Hosts,      \* threads that append without a transaction
  Readers,    \* threads that load without a transaction
  Tears,      \* what may be left of a line that was not written to its end
  MaxEvents,  \* bound on the events written
  MaxFaults,  \* bound on crashes and failed appends
  None        \* no thread, no cache

ASSUME SessionLogAssumption ==
  /\ Turns \cap Hosts = {} /\ Turns \cap Readers = {} /\ Hosts \cap Readers = {}
  /\ None \notin Turns \cup Hosts \cup Readers
  /\ Tears \subseteq {"part", "line"}
  /\ MaxEvents \in Nat /\ MaxFaults \in Nat

VARIABLES
  (* disk *)
  exists,     \* transcript.jsonl was created
  file,       \* its lines: [id, seq, whole, nl]
  stamp,      \* change token of the file, new with every change
  (* memory of the process *)
  cache,      \* _scan_cache: [events, version] or None
  lease,      \* the thread that holds the session's lease
  lock,       \* the thread that holds the append lock
  pc, op,     \* where each thread is, and in which call
  scan,       \* events a thread found, or took from the cache
  live,       \* the live Session of a transaction: the events applied
  (* history *)
  nextId, faults,
  acked       \* events whose append_event returned

memoryVars == <<cache, lease, lock, pc, op, scan, live>>
vars == <<exists, file, stamp, memoryVars, nextId, faults, acked>>

Threads == Turns \cup Hosts \cup Readers
Home(t) == IF t \in Turns THEN "idle" ELSE "out"

Move(t, to) == pc' = [pc EXCEPT ![t] = to]
-----------------------------------------------------------------------------
(* _scan_events_handle: the events up to the first line that is not an      *)
(* event, or not the next one.  A line without its newline runs on into the *)
(* next; the last line of the file needs none.                              *)
GoodLine(f, i) ==
  /\ f[i].whole
  /\ f[i].seq = i
  /\ i > 1 => f[i - 1].nl
  /\ i < Len(f) => f[i].nl

ScannedTo(f, n) ==
  /\ \A i \in 1 .. n : GoodLine(f, i)
  /\ n < Len(f) => ~GoodLine(f, n + 1)

ScannedLength(f) == CHOOSE n \in 0 .. Len(f) : ScannedTo(f, n)

Readable(f) == [i \in 1 .. ScannedLength(f) |-> f[i].id]

(* What a write that did not end leaves of its line. *)
Torn(line, tear) ==
  IF tear = "nothing"
  THEN <<>>
  ELSE <<[line EXCEPT !.whole = (tear # "part"), !.nl = (tear = "all")]>>

Remains == Tears \cup {"nothing", "all"}

Init ==
  /\ exists = FALSE /\ file = <<>> /\ stamp = 0
  /\ cache = None /\ lease = None /\ lock = None
  /\ pc = [t \in Threads |-> "out"]
  /\ op = [t \in Threads |-> "load"]
  /\ scan = [t \in Threads |-> <<>>]
  /\ live = [t \in Threads |-> <<>>]
  /\ nextId = 1 /\ faults = 0 /\ acked = {}
-----------------------------------------------------------------------------
(* A transaction takes the lease and restores the session; a projection     *)
(* loads the events without it.  A thread that meets another's lease gets   *)
(* SessionLeaseConflict: nothing changes.                                   *)
\* Mutant: the lease is not exclusive.
LeaseFreeAlways(t) == TRUE

LeaseFree(t) == t \in Turns => lease = None

Begin(t) ==
  /\ t \in Turns \cup Readers
  /\ pc[t] = "out"
  /\ LeaseFree(t)
  /\ lease' = IF t \in Turns THEN t ELSE lease
  /\ live' = [live EXCEPT ![t] = <<>>]
  /\ op' = [op EXCEPT ![t] = "load"]
  /\ Move(t, IF exists THEN "check" ELSE Home(t))
  /\ UNCHANGED <<exists, file, stamp, cache, lock, scan, nextId, faults, acked>>

Leave(t) == Move(t, "out") /\ lease' = IF lease = t THEN None ELSE lease

(* The restored session is the fold of the events that were read; there is  *)
(* no restoring from an empty transcript.                                   *)
Loaded(t) ==
  /\ pc[t] = "loaded"
  /\ IF t \in Turns /\ scan[t] # <<>>
     THEN live' = [live EXCEPT ![t] = scan[t]] /\ Move(t, "idle") /\ UNCHANGED lease
     ELSE Leave(t) /\ UNCHANGED live
  /\ UNCHANGED <<exists, file, stamp, cache, lock, op, scan, nextId, faults, acked>>

EndTransaction(t) ==
  /\ pc[t] = "idle"
  /\ Leave(t)
  /\ UNCHANGED <<exists, file, stamp, cache, lock, op, scan, live, nextId, faults, acked>>
-----------------------------------------------------------------------------
(* append_event takes the append lock and opens, or creates, the file.      *)
\* Mutant: there is no append lock.
LockFreeAlways == TRUE

LockFree == lock = None

BeginAppend(t) ==
  /\ t \in Turns \cup Hosts
  /\ pc[t] = Home(t)
  /\ nextId <= MaxEvents
  /\ LockFree
  /\ lock' = t
  /\ exists' = TRUE
  /\ op' = [op EXCEPT ![t] = "append"]
  /\ Move(t, "check")
  /\ UNCHANGED <<file, stamp, cache, lease, scan, live, nextId, faults, acked>>

Scanning(t, events) ==
  /\ scan' = [scan EXCEPT ![t] = events]
  /\ UNCHANGED <<exists, file, stamp, lease, lock, op, live, nextId, faults, acked>>

AfterScan(t) == IF op[t] = "append" THEN "truncate" ELSE "loaded"

(* The cache holds if the file has not changed since. *)
CacheHolds == cache # None /\ cache.version = stamp

ScanCached(t) ==
  /\ pc[t] = "check"
  /\ CacheHolds
  /\ Scanning(t, cache.events)
  /\ Move(t, AfterScan(t))
  /\ UNCHANGED cache

ScanMiss(t) ==
  /\ pc[t] = "check"
  /\ ~CacheHolds
  /\ Move(t, "read")
  /\ UNCHANGED <<exists, file, stamp, cache, lease, lock, op, scan, live, nextId, faults, acked>>

(* The lines are read; the version they are cached under is read after.     *)
ScanRead(t) ==
  /\ pc[t] = "read"
  /\ Scanning(t, Readable(file))
  /\ Move(t, "store")
  /\ UNCHANGED cache

ScanStore(t) ==
  /\ pc[t] = "store"
  /\ cache' = [events |-> scan[t], version |-> stamp]
  /\ Move(t, AfterScan(t))
  /\ UNCHANGED <<exists, file, stamp, lease, lock, op, scan, live, nextId, faults, acked>>

\* Mutant: what does not parse stays in the file.
ValidLengthAll(t) == Len(file)

\* Mutant: the last event counts as part of the tail.
ValidLengthShort(t) == IF scan[t] = <<>> THEN 0 ELSE Len(scan[t]) - 1

(* valid_length, in lines: one to each event. *)
ValidLength(t) == Len(scan[t])

Truncate(t) ==
  /\ pc[t] = "truncate"
  /\ IF ValidLength(t) < Len(file)
     THEN file' = SubSeq(file, 1, ValidLength(t)) /\ stamp' = stamp + 1
     ELSE UNCHANGED <<file, stamp>>
  /\ Move(t, "write")
  /\ UNCHANGED <<exists, cache, lease, lock, op, scan, live, nextId, faults, acked>>

\* Mutant: the new event gets the number of the last one.
NewLineSameSeq(t) == [id |-> nextId, seq |-> Len(scan[t]), whole |-> TRUE, nl |-> TRUE]

NewLine(t) == [id |-> nextId, seq |-> Len(scan[t]) + 1, whole |-> TRUE, nl |-> TRUE]

Write(t) ==
  /\ pc[t] = "write"
  /\ file' = Append(file, NewLine(t))
  /\ stamp' = stamp + 1
  /\ nextId' = nextId + 1
  /\ Move(t, "sync")
  /\ UNCHANGED <<exists, cache, lease, lock, op, scan, live, faults, acked>>

(* fsync; the new line goes into the cache, append_event returns and the    *)
(* journal applies the event to the live session.                           *)
Acknowledge(t) ==
  LET id == nextId - 1
  IN  /\ pc[t] = "sync"
      /\ cache' = [events |-> Append(scan[t], id), version |-> stamp]
      /\ acked' = acked \cup {id}
      /\ live' = IF t \in Turns THEN [live EXCEPT ![t] = Append(@, id)] ELSE live
      /\ lock' = None
      /\ Move(t, Home(t))
      /\ UNCHANGED <<exists, file, stamp, lease, op, scan, nextId, faults>>
-----------------------------------------------------------------------------
(* write, flush or fsync raises: the line is in the file or not, or in part.*)
(* The exception ends the transaction, or is recorded within it.            *)
AppendFails(t) ==
  /\ pc[t] = "write"
  /\ faults < MaxFaults
  /\ faults' = faults + 1
  /\ \E tear \in Remains : file' = file \o Torn(NewLine(t), tear)
  /\ stamp' = stamp + 1
  /\ nextId' = nextId + 1
  /\ lock' = None
  /\ \/ Move(t, Home(t)) /\ UNCHANGED lease
     \/ Leave(t)
  /\ UNCHANGED <<exists, cache, op, scan, live, acked>>

(* The process dies: what was not synced may be lost; threads, cache, lock  *)
(* and lease are gone.  An abandoned lease is taken over.                   *)
Crash ==
  /\ faults < MaxFaults
  /\ faults' = faults + 1
  /\ \E tear \in Remains :
       file' = IF \E t \in Threads : pc[t] = "sync"
               THEN SubSeq(file, 1, Len(file) - 1) \o Torn(file[Len(file)], tear)
               ELSE file
  /\ stamp' = stamp + 1
  /\ cache' = None /\ lease' = None /\ lock' = None
  /\ pc' = [t \in Threads |-> "out"]
  /\ scan' = [t \in Threads |-> <<>>]
  /\ live' = [t \in Threads |-> <<>>]
  /\ UNCHANGED <<exists, op, nextId, acked>>

(* Nothing is left to do. *)
Quiet ==
  /\ \A t \in Threads : pc[t] = "out"
  /\ nextId > MaxEvents
  /\ UNCHANGED vars

Next ==
  \/ \E t \in Threads :
       \/ Begin(t) \/ Loaded(t) \/ EndTransaction(t)
       \/ BeginAppend(t)
       \/ ScanCached(t) \/ ScanMiss(t) \/ ScanRead(t) \/ ScanStore(t)
       \/ Truncate(t) \/ Write(t) \/ Acknowledge(t)
       \/ AppendFails(t)
  \/ Crash
  \/ Quiet

Spec == Init /\ [][Next]_vars
-----------------------------------------------------------------------------
Ids == 1 .. MaxEvents

TypeOK ==
  /\ exists \in BOOLEAN
  /\ file \in Seq([id : Ids, seq : Ids, whole : BOOLEAN, nl : BOOLEAN])
  /\ stamp \in Nat
  /\ cache = None \/ cache \in [events : Seq(Ids), version : 0 .. stamp]
  /\ lease \in Turns \cup {None} /\ lock \in Threads \cup {None}
  /\ pc \in [Threads -> {"out", "idle", "check", "read", "store", "loaded", "truncate",
                         "write", "sync"}]
  /\ op \in [Threads -> {"load", "append"}]
  /\ scan \in [Threads -> Seq(Ids)] /\ live \in [Threads -> Seq(Ids)]
  /\ nextId \in 1 .. MaxEvents + 1 /\ faults \in 0 .. MaxFaults
  /\ acked \subseteq Ids

(* An event whose append returned stays in the ledger: whatever happens     *)
(* later, a scan of the file finds it, and finds the events in the order    *)
(* they were written.                                                       *)
AcknowledgedReadable ==
  /\ acked \subseteq Range(Readable(file))
  /\ \A i, j \in DOMAIN Readable(file) : i < j => Readable(file)[i] < Readable(file)[j]

(* The live session of a transaction is never ahead of the ledger: every    *)
(* event it has applied is readable, in the same order.                     *)
LiveIsDurable ==
  \A t \in Turns :
    pc[t] # "out" =>
      /\ Range(live[t]) \subseteq Range(Readable(file))
      /\ \A i, j \in DOMAIN live[t] : i < j => live[t][i] < live[t][j]

(* Nor behind it: a transaction that was let in knows every event that was  *)
(* acknowledged, by whichever transaction and before whichever crash.       *)
LiveKnowsAcknowledged ==
  \A t \in Turns : pc[t] = "idle" => acked \subseteq Range(live[t])
=============================================================================

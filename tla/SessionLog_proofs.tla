-------------------------- MODULE SessionLog_proofs --------------------------
(***************************************************************************)
(* Theorems about SessionLog, for any number of threads, events and faults: *)
(* first the safety of the log where the host does not mix transactions     *)
(* with appends or loads of its own, and no write loses just its newline    *)
(* (SessionLog_reader and SessionLog_newline show that safety needs both);  *)
(* then its types, whoever uses the session; and at the end the refinement  *)
(* of SessionPromise, under the conditions of the first part.               *)
(***************************************************************************)
EXTENDS SessionLog, WellFoundedInduction, SequenceTheorems, TLAPS

(* The threads exclude one another: transactions by the lease, appends of   *)
(* the host by the append lock.                                             *)
Serial ==
  /\ Readers = {}
  /\ Hosts = {} \/ Turns = {}
  /\ "line" \notin Tears

-----------------------------------------------------------------------------
(* The shape of the file, and what is read of it.                           *)
Line == [id : Nat, seq : Nat, whole : BOOLEAN, nl : BOOLEAN]

(* Only the last line may be damaged; events are in order, all before n.    *)
Shape(f, n) ==
  /\ f \in Seq(Line)
  /\ \A i \in 1 .. Len(f) : f[i].whole => f[i].seq = i /\ f[i].nl
  /\ \A i \in 1 .. Len(f) : i < Len(f) => f[i].whole
  /\ \A i \in 1 .. Len(f) : f[i].id < n
  /\ \A i, j \in 1 .. Len(f) : i < j => f[i].id < f[j].id

(* s are the events of f but for a damaged last line. *)
Reads(f, s) ==
  /\ s \in Seq(Nat)
  /\ Len(s) <= Len(f) /\ Len(f) <= Len(s) + 1
  /\ \A i \in 1 .. Len(s) : f[i].whole /\ s[i] = f[i].id
  /\ Len(s) < Len(f) => ~f[Len(f)].whole

LEMMA ReadsScanned ==
  ASSUME NEW n \in Nat, NEW f, Shape(f, n), NEW s, Reads(f, s)
  PROVE  ScannedLength(f) = Len(s)
<1> DEFINE N == Len(s)
<1>1. N \in 0 .. Len(f) /\ Len(f) \in Nat
  BY DEF Shape, Reads
<1>2. \A i \in 1 .. N : GoodLine(f, i)
  <2> SUFFICES ASSUME NEW i \in 1 .. N PROVE GoodLine(f, i)
    OBVIOUS
  <2>1. f[i].whole /\ i \in 1 .. Len(f)
    BY <1>1 DEF Reads
  <2>2. i > 1 => f[i - 1].nl
    <3> SUFFICES ASSUME i > 1 PROVE f[i - 1].nl
      OBVIOUS
    <3>1. i - 1 \in 1 .. Len(f) /\ i - 1 < Len(f)
      BY <1>1, <2>1
    <3> QED
      BY <3>1 DEF Shape
  <2> QED
    BY <2>1, <2>2 DEF GoodLine, Shape
<1>3. N < Len(f) => N + 1 = Len(f) /\ ~GoodLine(f, N + 1)
  BY <1>1 DEF Reads, GoodLine
<1>4. ScannedTo(f, N)
  BY <1>2, <1>3 DEF ScannedTo
<1>5. \A m \in 0 .. Len(f) : ScannedTo(f, m) => m = N
  <2> SUFFICES ASSUME NEW m \in 0 .. Len(f), ScannedTo(f, m) PROVE m = N
    OBVIOUS
  <2>1. ~(m < N)
    <3> SUFFICES ASSUME m < N PROVE FALSE
      OBVIOUS
    <3>1. m + 1 \in 1 .. N /\ m < Len(f)
      BY <1>1
    <3> QED
      BY <1>2, <3>1 DEF ScannedTo
  <2>2. ~(N < m)
    <3> SUFFICES ASSUME N < m PROVE FALSE
      OBVIOUS
    <3>1. N < Len(f) /\ N + 1 \in 1 .. m
      BY <1>1
    <3> QED
      BY <1>3, <3>1 DEF ScannedTo
  <2> QED
    BY <1>1, <2>1, <2>2
<1> HIDE DEF N
<1>6. ScannedLength(f) = N
  BY <1>1, <1>4, <1>5 DEF ScannedLength
<1> QED
  BY <1>6 DEF N

LEMMA ReadsReadable ==
  ASSUME NEW n \in Nat, NEW f, Shape(f, n), NEW s, Reads(f, s)
  PROVE  s = Readable(f)
<1>1. Readable(f) = [i \in 1 .. Len(s) |-> f[i].id]
  BY ReadsScanned DEF Readable
<1>2. s = [i \in 1 .. Len(s) |-> s[i]]
  BY DEF Reads
<1> QED
  BY <1>1, <1>2 DEF Reads

(* A scan of a file of that shape finds all but a damaged last line.        *)
LEMMA ScanReads ==
  ASSUME NEW n \in Nat, NEW f, Shape(f, n)
  PROVE  Reads(f, Readable(f))
<1> DEFINE N == IF Len(f) = 0 \/ f[Len(f)].whole THEN Len(f) ELSE Len(f) - 1
           s == [i \in 1 .. N |-> f[i].id]
<1>1. Len(f) \in Nat /\ \A i \in 1 .. Len(f) : f[i] \in Line
  BY DEF Shape
<1>2. N \in Nat /\ N <= Len(f) /\ Len(f) <= N + 1
  BY <1>1
<1>3. N < Len(f) => ~f[Len(f)].whole
  BY <1>1
<1>4. \A i \in 1 .. N : f[i].whole /\ f[i].id \in Nat
  <2> SUFFICES ASSUME NEW i \in 1 .. N PROVE f[i].whole /\ f[i].id \in Nat
    OBVIOUS
  <2>1. i \in 1 .. Len(f)
    BY <1>1, <1>2
  <2>2. i < Len(f) \/ (f[Len(f)].whole /\ i = Len(f))
    BY <1>1, <2>1
  <2>3. f[i].whole
    BY <2>1, <2>2 DEF Shape
  <2> QED
    BY <1>1, <2>1, <2>3 DEF Line
<1> HIDE DEF N
<1>5. s \in Seq(Nat) /\ Len(s) = N
  BY <1>2, <1>4
<1>6. Reads(f, s)
  BY <1>2, <1>3, <1>4, <1>5 DEF Reads
<1> QED
  BY <1>6, ReadsReadable

(* A whole line after whole lines: one more event is read. *)
LEMMA AddWhole ==
  ASSUME NEW n \in Nat, NEW f, Shape(f, n), NEW s, Reads(f, s), Len(s) = Len(f),
         NEW l \in Line, l.whole, l.nl, l.seq = Len(f) + 1, l.id = n
  PROVE  /\ Shape(Append(f, l), n + 1)
         /\ Reads(Append(f, l), Append(s, n))
<1> DEFINE g == Append(f, l)
           r == Append(s, n)
<1>1. f \in Seq(Line) /\ s \in Seq(Nat) /\ Len(f) \in Nat
  BY DEF Shape, Reads
<1>2. /\ g \in Seq(Line) /\ Len(g) = Len(f) + 1
      /\ g[Len(f) + 1] = l
      /\ \A i \in 1 .. Len(f) : g[i] = f[i]
  BY <1>1
<1>3. /\ r \in Seq(Nat) /\ Len(r) = Len(f) + 1
      /\ r[Len(f) + 1] = n
      /\ \A i \in 1 .. Len(f) : r[i] = s[i]
  BY <1>1
<1>4. \A i \in 1 .. Len(g) : i = Len(f) + 1 \/ i \in 1 .. Len(f)
  BY <1>1, <1>2
<1>5. \A i \in 1 .. Len(f) : f[i].whole /\ s[i] = f[i].id /\ f[i].id < n /\ f[i].id \in Nat
  BY <1>1 DEF Shape, Reads, Line
<1> HIDE DEF g, r
<1>6. \A i \in 1 .. Len(g) : g[i].whole => g[i].seq = i /\ g[i].nl
  BY <1>2, <1>4 DEF Shape
<1>7. \A i \in 1 .. Len(g) : g[i].whole /\ g[i].id < n + 1
  BY <1>2, <1>4, <1>5
<1>8. \A i, j \in 1 .. Len(g) : i < j => g[i].id < g[j].id
  <2> SUFFICES ASSUME NEW i \in 1 .. Len(g), NEW j \in 1 .. Len(g), i < j
               PROVE  g[i].id < g[j].id
    OBVIOUS
  <2>1. i \in 1 .. Len(f)
    BY <1>1, <1>2
  <2>2. CASE j = Len(f) + 1
    BY <1>2, <1>5, <2>1, <2>2
  <2>3. CASE j \in 1 .. Len(f)
    BY <1>2, <2>1, <2>3 DEF Shape
  <2> QED
    BY <1>4, <2>2, <2>3
<1>9. Shape(g, n + 1)
  BY <1>2, <1>6, <1>7, <1>8 DEF Shape
<1>10. \A i \in 1 .. Len(r) : g[i].whole /\ r[i] = g[i].id
  BY <1>2, <1>3, <1>4, <1>5
<1>11. Reads(g, r)
  BY <1>1, <1>2, <1>3, <1>10 DEF Reads
<1> QED
  BY <1>9, <1>11 DEF g, r

(* A damaged line after whole lines: the same events are read. *)
LEMMA AddPart ==
  ASSUME NEW n \in Nat, NEW f, Shape(f, n), NEW s, Reads(f, s), Len(s) = Len(f),
         NEW l \in Line, ~l.whole, l.id = n
  PROVE  /\ Shape(Append(f, l), n + 1)
         /\ Reads(Append(f, l), s)
<1> DEFINE g == Append(f, l)
<1>1. f \in Seq(Line) /\ s \in Seq(Nat) /\ Len(f) \in Nat
  BY DEF Shape, Reads
<1>2. /\ g \in Seq(Line) /\ Len(g) = Len(f) + 1
      /\ g[Len(f) + 1] = l
      /\ \A i \in 1 .. Len(f) : g[i] = f[i]
  BY <1>1
<1>3. \A i \in 1 .. Len(g) : i = Len(f) + 1 \/ i \in 1 .. Len(f)
  BY <1>1, <1>2
<1>4. \A i \in 1 .. Len(f) : f[i].whole /\ s[i] = f[i].id /\ f[i].id < n /\ f[i].id \in Nat
  BY <1>1 DEF Shape, Reads, Line
<1> HIDE DEF g
<1>5. \A i \in 1 .. Len(g) : g[i].whole => g[i].seq = i /\ g[i].nl
  BY <1>2, <1>3 DEF Shape
<1>6. \A i \in 1 .. Len(g) : g[i].id < n + 1
  BY <1>2, <1>3, <1>4
<1>7. \A i \in 1 .. Len(g) : i < Len(g) => g[i].whole
  BY <1>1, <1>2, <1>3, <1>4
<1>8. \A i, j \in 1 .. Len(g) : i < j => g[i].id < g[j].id
  <2> SUFFICES ASSUME NEW i \in 1 .. Len(g), NEW j \in 1 .. Len(g), i < j
               PROVE  g[i].id < g[j].id
    OBVIOUS
  <2>1. i \in 1 .. Len(f)
    BY <1>1, <1>2
  <2>2. CASE j = Len(f) + 1
    BY <1>2, <1>4, <2>1, <2>2
  <2>3. CASE j \in 1 .. Len(f)
    BY <1>2, <2>1, <2>3 DEF Shape
  <2> QED
    BY <1>3, <2>2, <2>3
<1>9. Shape(g, n + 1)
  BY <1>2, <1>5, <1>6, <1>7, <1>8 DEF Shape
<1>10. Reads(g, s)
  BY <1>1, <1>2, <1>4 DEF Reads
<1> QED
  BY <1>9, <1>10 DEF g

(* Without its damaged last line, or its last line: what was there before.  *)
LEMMA Cut ==
  ASSUME NEW n \in Nat, NEW f, Shape(f, n), NEW s \in Seq(Nat), Len(s) <= Len(f),
         \A i \in 1 .. Len(s) : f[i].whole /\ s[i] = f[i].id
  PROVE  /\ Shape(SubSeq(f, 1, Len(s)), n)
         /\ Reads(SubSeq(f, 1, Len(s)), s)
         /\ Len(SubSeq(f, 1, Len(s))) = Len(s)
<1> DEFINE g == SubSeq(f, 1, Len(s))
<1>1. f \in Seq(Line) /\ Len(f) \in Nat /\ Len(s) \in Nat
  BY DEF Shape
<1>2. /\ g \in Seq(Line) /\ Len(g) = Len(s)
      /\ \A i \in 1 .. Len(s) : g[i] = f[i]
  BY <1>1
<1>3. \A i \in 1 .. Len(s) : i \in 1 .. Len(f)
  BY <1>1
<1> HIDE DEF g
<1>4. Shape(g, n)
  BY <1>2, <1>3 DEF Shape
<1>5. Reads(g, s)
  BY <1>1, <1>2 DEF Reads
<1> QED
  BY <1>2, <1>4, <1>5 DEF g

LEMMA ShapeLater ==
  ASSUME NEW n \in Nat, NEW f, Shape(f, n)
  PROVE  Shape(f, n + 1)
<1>1. \A i \in 1 .. Len(f) : f[i] \in Line
  BY DEF Shape
<1>2. \A i \in 1 .. Len(f) : f[i].id < n + 1
  BY <1>1 DEF Shape, Line
<1> QED
  BY <1>2 DEF Shape

(* What is left of a line written after whole lines. *)
LEMMA AddTorn ==
  ASSUME NEW n \in Nat, NEW f, Shape(f, n), NEW s, Reads(f, s), Len(s) = Len(f),
         NEW l \in Line, l.whole, l.nl, l.seq = Len(f) + 1, l.id = n,
         NEW tear \in {"nothing", "part", "all"}
  PROVE  /\ Shape(f \o Torn(l, tear), n + 1)
         /\ \/ Reads(f \o Torn(l, tear), s)
            \/ Reads(f \o Torn(l, tear), Append(s, n))
<1>1. f \in Seq(Line)
  BY DEF Shape
<1>2. CASE tear = "nothing"
  <2>1. Torn(l, tear) = <<>>
    BY <1>2 DEF Torn
  <2>2. f \o <<>> = f
    BY <1>1
  <2> QED
    BY <2>1, <2>2, ShapeLater
<1>3. CASE tear = "part"
  <2> DEFINE p == [l EXCEPT !.whole = (tear # "part"), !.nl = (tear = "all")]
  <2>1. p \in Line /\ ~p.whole /\ p.id = n
    BY <1>3 DEF Line
  <2>2. Torn(l, tear) = <<p>>
    BY <1>3 DEF Torn
  <2> HIDE DEF p
  <2>3. f \o <<p>> = Append(f, p)
    BY <1>1, <2>1
  <2> QED
    BY <2>1, <2>2, <2>3, AddPart
<1>4. CASE tear = "all"
  <2>1. [l EXCEPT !.whole = (tear # "part"), !.nl = (tear = "all")] = l
    BY <1>4 DEF Line
  <2>3. Torn(l, tear) = <<l>>
    BY <1>4, <2>1 DEF Torn
  <2>2. f \o <<l>> = Append(f, l)
    BY <1>1
  <2> QED
    BY <2>2, <2>3, AddWhole
<1> QED
  BY <1>2, <1>3, <1>4

(* The last line is the one just written. *)
LEMMA LastLine ==
  ASSUME NEW n \in Nat, NEW f, Shape(f, n + 1),
         NEW s \in Seq(Nat), Reads(f, Append(s, n)), Len(f) = Len(s) + 1
  PROVE  /\ Shape(SubSeq(f, 1, Len(s)), n)
         /\ Reads(SubSeq(f, 1, Len(s)), s)
         /\ Len(SubSeq(f, 1, Len(s))) = Len(s)
         /\ f[Len(f)] \in Line
         /\ f[Len(f)].whole /\ f[Len(f)].nl
         /\ f[Len(f)].seq = Len(s) + 1 /\ f[Len(f)].id = n
<1> DEFINE g == SubSeq(f, 1, Len(s))
           r == Append(s, n)
<1>1. f \in Seq(Line) /\ Len(f) \in Nat /\ Len(s) \in Nat
  BY DEF Shape
<1>2. /\ Len(r) = Len(f) /\ r[Len(f)] = n
      /\ \A i \in 1 .. Len(s) : r[i] = s[i]
  BY <1>1
<1> HIDE DEF r
<1>3. Len(f) \in 1 .. Len(f) /\ \A i \in 1 .. Len(s) : i \in 1 .. Len(f) /\ i < Len(f)
  BY <1>1
<1>4. f[Len(f)] \in Line /\ f[Len(f)].whole /\ f[Len(f)].id = n
  BY <1>1, <1>2, <1>3 DEF Reads, r
<1>5. f[Len(f)].nl /\ f[Len(f)].seq = Len(s) + 1
  BY <1>3, <1>4 DEF Shape
<1>6. \A i \in 1 .. Len(s) : f[i].whole /\ s[i] = f[i].id
  BY <1>2, <1>3 DEF Reads, r
<1>7. Shape(g, n + 1) /\ Reads(g, s) /\ Len(g) = Len(s)
  BY <1>1, <1>6, Cut
<1>8. /\ \A i \in 1 .. Len(s) : g[i] = f[i]
  BY <1>1
<1> HIDE DEF g
<1>9. \A i \in 1 .. Len(g) : g[i].id < n
  BY <1>3, <1>4, <1>7, <1>8 DEF Shape
<1>10. Shape(g, n)
  BY <1>7, <1>9 DEF Shape
<1> QED
  BY <1>4, <1>5, <1>7, <1>10 DEF g

LEMMA RangeAppend ==
  ASSUME NEW s \in Seq(Nat), NEW n \in Nat
  PROVE  Range(Append(s, n)) = Range(s) \cup {n}
<1>1. /\ DOMAIN Append(s, n) = 1 .. Len(s) + 1
      /\ DOMAIN s = 1 .. Len(s)
      /\ Append(s, n)[Len(s) + 1] = n
      /\ \A i \in 1 .. Len(s) : Append(s, n)[i] = s[i]
      /\ Len(s) \in Nat
  OBVIOUS
<1>2. 1 .. Len(s) + 1 = (1 .. Len(s)) \cup {Len(s) + 1}
  BY <1>1
<1> QED
  BY <1>1, <1>2 DEF Range

(* What is read of a file is in order, and before n. *)
LEMMA ReadInOrder ==
  ASSUME NEW n \in Nat, NEW f, Shape(f, n), NEW s, Reads(f, s)
  PROVE  /\ \A i, j \in DOMAIN s : i < j => s[i] < s[j]
         /\ \A id \in Range(s) : id < n
<1>1. DOMAIN s = 1 .. Len(s) /\ Len(s) \in Nat /\ Len(f) \in Nat
  BY DEF Reads, Shape
<1>2. \A i \in 1 .. Len(s) : i \in 1 .. Len(f) /\ s[i] = f[i].id
  BY <1>1 DEF Reads
<1>3. \A i, j \in DOMAIN s : i < j => s[i] < s[j]
  BY <1>1, <1>2 DEF Shape
<1>4. \A i \in 1 .. Len(s) : s[i] < n
  BY <1>2 DEF Shape
<1> QED
  BY <1>1, <1>3, <1>4 DEF Range

LEMMA AppendInOrder ==
  ASSUME NEW s \in Seq(Nat), NEW n \in Nat,
         \A i, j \in DOMAIN s : i < j => s[i] < s[j],
         \A i \in Range(s) : i < n
  PROVE  \A i, j \in DOMAIN Append(s, n) : i < j => Append(s, n)[i] < Append(s, n)[j]
<1> DEFINE r == Append(s, n)
<1>1. /\ DOMAIN r = 1 .. Len(s) + 1
      /\ DOMAIN s = 1 .. Len(s)
      /\ r[Len(s) + 1] = n
      /\ \A i \in 1 .. Len(s) : r[i] = s[i]
      /\ Len(s) \in Nat
  OBVIOUS
<1> HIDE DEF r
<1>2. \A i \in 1 .. Len(s) : s[i] < n
  BY <1>1 DEF Range
<1>3. ASSUME NEW i \in DOMAIN r, NEW j \in DOMAIN r, i < j
      PROVE  r[i] < r[j]
  <2>1. i \in 1 .. Len(s)
    BY <1>1, <1>3
  <2>2. CASE j = Len(s) + 1
    BY <1>1, <1>2, <2>1, <2>2
  <2>3. CASE j \in 1 .. Len(s)
    BY <1>1, <1>3, <2>1, <2>3
  <2> QED
    BY <1>1, <2>2, <2>3
<1> QED
  BY <1>3 DEF r

-----------------------------------------------------------------------------
(* The inductive invariant.                                                 *)
Place == {"out", "idle", "check", "read", "store", "loaded", "truncate", "write", "sync"}

Types ==
  /\ stamp \in Nat
  /\ nextId \in Nat \ {0}
  /\ pc \in [Threads -> Place]
  /\ op \in [Threads -> {"load", "append"}]
  /\ scan \in [Threads -> Seq(Nat)]
  /\ live \in [Threads -> Seq(Nat)]
  /\ cache # None => cache \in [events : Seq(Nat), version : 0 .. stamp]

(* The disk, and the cache where it holds. *)
DiskOK ==
  /\ Shape(file, nextId)
  /\ CacheHolds => Reads(file, cache.events)
  /\ acked \subseteq Range(Readable(file))
  /\ ~exists => acked = {}

(* A thread that is busy holds the lease or the lock, ... *)
Held(t) ==
  /\ t \in Turns => lease = t
  /\ t \in Hosts => lock = t

(* ... what it has scanned is still what the file holds, ... *)
ScanOK(t) ==
  /\ pc[t] # "idle" => exists
  /\ pc[t] \in {"store", "loaded", "truncate", "write"} => Reads(file, scan[t])
  /\ pc[t] = "write" => Len(scan[t]) = Len(file)
  /\ pc[t] \in {"truncate", "write", "sync"} => op[t] = "append"
  /\ pc[t] = "sync" =>
       /\ Reads(file, Append(scan[t], nextId - 1))
       /\ Len(file) = Len(scan[t]) + 1
       /\ acked \subseteq Range(scan[t])

(* ... and its live session is made of events that were acknowledged, or    *)
(* restored, and of all of those.                                           *)
LiveOK(t) ==
  /\ Range(live[t]) \subseteq IF pc[t] = "sync" THEN Range(scan[t]) ELSE Range(Readable(file))
  /\ \A i, j \in DOMAIN live[t] : i < j => live[t][i] < live[t][j]
  /\ pc[t] = "idle" \/ op[t] = "append" => acked \subseteq Range(live[t])

ThreadOK(t) ==
  pc[t] # "out" => Held(t) /\ ScanOK(t) /\ (t \in Turns => LiveOK(t))

IInv == Types /\ DiskOK /\ \A t \in Threads : ThreadOK(t)

OthersOut(t) == \A u \in Threads \ {t} : pc[u] = "out"

(* At most one thread is busy. *)
LEMMA Alone ==
  ASSUME Serial, IInv, NEW t \in Threads,
         \/ pc[t] # "out"
         \/ t \in Turns /\ lease = None
         \/ t \in Hosts /\ lock = None
  PROVE  OthersOut(t)
<1> SUFFICES ASSUME NEW u \in Threads \ {t}, pc[u] # "out" PROVE FALSE
  BY DEF OthersOut
<1>1. Held(u) /\ (pc[t] # "out" => Held(t))
  BY DEF IInv, ThreadOK
<1>2. (t \in Turns /\ u \in Turns) \/ (t \in Hosts /\ u \in Hosts)
  BY DEF Serial, Threads
<1>3. u # None /\ Turns \cap Hosts = {}
  BY SessionLogAssumption DEF Threads
<1> QED
  BY <1>1, <1>2, <1>3 DEF Held

(* So a step keeps the invariant if it keeps that of its own thread.        *)
LEMMA OneThread ==
  ASSUME NEW t \in Threads, IInv, OthersOut(t),
         \A u \in Threads \ {t} : pc'[u] = pc[u],
         Types', DiskOK', ThreadOK(t)'
  PROVE  IInv'
BY DEF IInv, OthersOut, ThreadOK

-----------------------------------------------------------------------------
(* Steps that leave the disk, the cache and what was acknowledged alone.    *)
LEMMA DiskStays ==
  ASSUME IInv, UNCHANGED <<exists, file, stamp, cache, nextId, acked>>
  PROVE  DiskOK'
BY DEF IInv, DiskOK, CacheHolds

LEMMA BeginKeeps ==
  ASSUME Serial, IInv, NEW t \in Threads, Begin(t)
  PROVE  IInv'
<1>1. t \in Turns /\ lease = None /\ pc[t] = "out"
  BY DEF Serial, Begin, LeaseFree
<1>2. OthersOut(t)
  BY <1>1, Alone
<1>3. Types'
  BY <1>1 DEF IInv, Types, Begin, Move, Place, Home
<1>4. DiskOK'
  BY DiskStays DEF Begin
<1>5. /\ pc'[t] \in {"check", "idle"} /\ (pc'[t] = "idle" => ~exists)
      /\ lease' = t /\ live'[t] = <<>> /\ op'[t] = "load"
      /\ (pc'[t] # "idle" => exists)
      /\ UNCHANGED <<acked, file, exists>>
  BY <1>1 DEF IInv, Types, Begin, Move, Home
<1>6. t \notin Hosts
  BY <1>1, SessionLogAssumption
<1>7. Range(<<>>) = {} /\ DOMAIN <<>> = {}
  BY DEF Range
<1>8. ~exists => acked = {}
  BY DEF IInv, DiskOK
<1>9. LiveOK(t)'
  BY <1>5, <1>7, <1>8 DEF LiveOK
<1>10. Held(t)' /\ ScanOK(t)'
  BY <1>5, <1>6 DEF Held, ScanOK
<1>11. \A u \in Threads \ {t} : pc'[u] = pc[u]
  BY DEF IInv, Types, Begin, Move
<1> QED
  BY <1>2, <1>3, <1>4, <1>9, <1>10, <1>11, OneThread DEF ThreadOK

LEMMA LoadedKeeps ==
  ASSUME Serial, IInv, NEW t \in Threads, Loaded(t)
  PROVE  IInv'
<1>1. /\ pc[t] = "loaded" /\ Held(t) /\ Reads(file, scan[t])
      /\ Types /\ DiskOK
  BY DEF Loaded, IInv, ThreadOK, ScanOK
<1>2. OthersOut(t)
  BY <1>1, Alone
<1>3. DiskOK'
  BY DiskStays DEF Loaded
<1>4. CASE t \in Turns /\ scan[t] # <<>>
  <2>1. /\ live' = [live EXCEPT ![t] = scan[t]]
        /\ pc' = [pc EXCEPT ![t] = "idle"]
        /\ UNCHANGED <<lease, exists, file, stamp, cache, lock, op, scan, nextId, faults, acked>>
    BY <1>4 DEF Loaded, Move
  <2>2. Types'
    BY <1>1, <2>1 DEF Types, Place
  <2>3. scan[t] = Readable(file)
    BY <1>1, ReadsReadable DEF DiskOK, Types
  <2>4. live'[t] = scan[t] /\ pc'[t] = "idle" /\ \A u \in Threads \ {t} : pc'[u] = pc[u]
    BY <1>1, <2>1 DEF Types
  <2>5. \A i, j \in DOMAIN scan[t] : i < j => scan[t][i] < scan[t][j]
    BY <1>1, ReadInOrder DEF DiskOK, Types
  <2>6. acked \subseteq Range(Readable(file))
    BY <1>1 DEF DiskOK
  <2>7. LiveOK(t)'
    BY <2>1, <2>3, <2>4, <2>5, <2>6 DEF LiveOK
  <2>8. Held(t)' /\ ScanOK(t)'
    BY <1>1, <2>1, <2>4 DEF Held, ScanOK
  <2> QED
    BY <1>2, <1>3, <2>2, <2>4, <2>7, <2>8, OneThread DEF ThreadOK
<1>5. CASE ~(t \in Turns /\ scan[t] # <<>>)
  <2>1. /\ pc' = [pc EXCEPT ![t] = "out"]
        /\ UNCHANGED <<live, exists, file, stamp, cache, lock, op, scan, nextId, faults, acked>>
    BY <1>5 DEF Loaded, Leave, Move
  <2>2. Types'
    BY <1>1, <2>1 DEF Types, Place
  <2>3. pc'[t] = "out" /\ \A u \in Threads \ {t} : pc'[u] = pc[u]
    BY <1>1, <2>1 DEF Types
  <2> QED
    BY <1>2, <1>3, <2>2, <2>3, OneThread DEF ThreadOK
<1> QED
  BY <1>4, <1>5

LEMMA EndKeeps ==
  ASSUME Serial, IInv, NEW t \in Threads, EndTransaction(t)
  PROVE  IInv'
<1>1. /\ pc' = [pc EXCEPT ![t] = "out"]
      /\ UNCHANGED <<live, exists, file, stamp, cache, lock, op, scan, nextId, faults, acked>>
      /\ pc[t] # "out" /\ Types
  BY DEF EndTransaction, Leave, Move, IInv
<1>2. OthersOut(t)
  BY <1>1, Alone
<1>3. Types'
  BY <1>1 DEF Types, Place
<1>4. DiskOK'
  BY <1>1, DiskStays
<1>5. pc'[t] = "out" /\ \A u \in Threads \ {t} : pc'[u] = pc[u]
  BY <1>1 DEF Types
<1> QED
  BY <1>2, <1>3, <1>4, <1>5, OneThread DEF ThreadOK

LEMMA BeginAppendKeeps ==
  ASSUME Serial, IInv, NEW t \in Threads, BeginAppend(t)
  PROVE  IInv'
<1>1. /\ t \in Turns \cup Hosts /\ pc[t] = Home(t) /\ lock = None
      /\ lock' = t /\ exists' = TRUE
      /\ op' = [op EXCEPT ![t] = "append"]
      /\ pc' = [pc EXCEPT ![t] = "check"]
      /\ UNCHANGED <<file, stamp, cache, lease, scan, live, nextId, faults, acked>>
      /\ Types
  BY DEF BeginAppend, LockFree, Move, IInv
<1>2. OthersOut(t)
  BY <1>1, Alone DEF Home
<1>3. Types'
  BY <1>1 DEF Types, Place
<1>4. DiskOK'
  BY <1>1 DEF IInv, DiskOK, CacheHolds
<1>5. pc'[t] = "check" /\ \A u \in Threads \ {t} : pc'[u] = pc[u]
  BY <1>1 DEF Types
<1>6. t \in Turns => pc[t] = "idle" /\ Held(t) /\ LiveOK(t)
  BY <1>1 DEF Home, IInv, ThreadOK
<1>7. Held(t)' /\ ScanOK(t)'
  BY <1>1, <1>5, <1>6 DEF Held, ScanOK
<1>8. t \in Turns => LiveOK(t)'
  BY <1>1, <1>5, <1>6 DEF LiveOK
<1> QED
  BY <1>2, <1>3, <1>4, <1>5, <1>7, <1>8, OneThread DEF ThreadOK

(* The steps of a scan: only the thread's place, its scan and the cache     *)
(* change.                                                                  *)
LEMMA ScanKeeps ==
  ASSUME Serial, IInv, NEW t \in Threads,
         ScanCached(t) \/ ScanMiss(t) \/ ScanRead(t) \/ ScanStore(t)
  PROVE  IInv'
<1>1. /\ UNCHANGED <<exists, file, stamp, lease, lock, op, live, nextId, faults, acked>>
      /\ pc[t] \in {"check", "read", "store"}
      /\ Types /\ DiskOK /\ ThreadOK(t)
  BY DEF ScanCached, ScanMiss, ScanRead, ScanStore, Scanning, IInv
<1>2. OthersOut(t)
  BY <1>1, Alone
<1>3. nextId \in Nat /\ stamp \in Nat
  BY <1>1 DEF Types
<1>4. Readable(file) \in Seq(Nat) /\ Reads(file, Readable(file))
  BY <1>1, <1>3, ScanReads DEF DiskOK, Reads
<1>5. /\ Types'
      /\ DiskOK'
      /\ pc'[t] \in {"read", "store", "truncate", "loaded"}
      /\ \A u \in Threads \ {t} : pc'[u] = pc[u]
      /\ pc'[t] # "read" => Reads(file, scan'[t])
      /\ pc'[t] = "truncate" => op[t] = "append"
  <2>1. AfterScan(t) = "loaded" \/ (AfterScan(t) = "truncate" /\ op[t] = "append")
    BY DEF AfterScan
  <2>2. CASE ScanCached(t)
    <3>1. CacheHolds /\ Reads(file, cache.events) /\ cache.events \in Seq(Nat)
      BY <1>1, <2>2 DEF ScanCached, DiskOK, Reads
    <3>2. /\ scan' = [scan EXCEPT ![t] = cache.events]
          /\ pc' = [pc EXCEPT ![t] = AfterScan(t)]
          /\ UNCHANGED cache
      BY <2>2 DEF ScanCached, Scanning, Move
    <3> QED
      BY <1>1, <2>1, <3>1, <3>2 DEF Types, DiskOK, CacheHolds, Place
  <2>3. CASE ScanMiss(t)
    BY <1>1, <2>3 DEF Types, DiskOK, CacheHolds, Place, ScanMiss, Move
  <2>4. CASE ScanRead(t)
    <3>1. /\ scan' = [scan EXCEPT ![t] = Readable(file)]
          /\ pc' = [pc EXCEPT ![t] = "store"]
          /\ UNCHANGED cache
      BY <2>4 DEF ScanRead, Scanning, Move
    <3> QED
      BY <1>1, <1>4, <3>1 DEF Types, DiskOK, CacheHolds, Place
  <2>5. CASE ScanStore(t)
    <3>1. /\ cache' = [events |-> scan[t], version |-> stamp]
          /\ pc' = [pc EXCEPT ![t] = AfterScan(t)]
          /\ UNCHANGED scan
          /\ Reads(file, scan[t])
      BY <1>1, <2>5 DEF ScanStore, Move, ThreadOK, ScanOK
    <3> QED
      BY <1>1, <1>3, <2>1, <3>1 DEF Types, DiskOK, CacheHolds, Place
  <2> QED
    BY <2>2, <2>3, <2>4, <2>5
<1>6. Held(t)' /\ ScanOK(t)'
  BY <1>1, <1>5 DEF Held, ScanOK, ThreadOK
<1>7. t \in Turns => LiveOK(t)'
  BY <1>1, <1>5 DEF LiveOK, ThreadOK
<1> QED
  BY <1>2, <1>5, <1>6, <1>7, OneThread DEF ThreadOK

-----------------------------------------------------------------------------
(* Steps that change the file: no cache holds any more.                     *)
LEMMA CacheStale ==
  ASSUME Types, stamp' = stamp + 1, UNCHANGED cache
  PROVE  /\ ~CacheHolds'
         /\ cache' # None => cache' \in [events : Seq(Nat), version : 0 .. stamp']
<1> SUFFICES ASSUME cache # None
             PROVE  cache.version # stamp + 1 /\ cache \in [events : Seq(Nat), version : 0 .. stamp + 1]
  BY DEF CacheHolds
<1>1. cache \in [events : Seq(Nat), version : 0 .. stamp] /\ stamp \in Nat
  BY DEF Types
<1>2. 0 .. stamp \subseteq 0 .. stamp + 1
  BY <1>1
<1> QED
  BY <1>1, <1>2

LEMMA LenTypes ==
  ASSUME IInv, NEW t \in Threads
  PROVE  /\ nextId \in Nat /\ nextId + 1 \in Nat \ {0} /\ stamp \in Nat /\ stamp + 1 \in Nat
         /\ scan[t] \in Seq(Nat) /\ live[t] \in Seq(Nat)
         /\ Shape(file, nextId)
         /\ Len(file) \in Nat /\ Len(scan[t]) \in Nat
<1>1. /\ nextId \in Nat /\ nextId + 1 \in Nat \ {0} /\ stamp \in Nat /\ stamp + 1 \in Nat
      /\ scan[t] \in Seq(Nat) /\ live[t] \in Seq(Nat)
  BY DEF IInv, Types
<1>2. Shape(file, nextId)
  BY DEF IInv, DiskOK
<1>3. file \in Seq(Line)
  BY <1>2 DEF Shape
<1> QED
  BY <1>1, <1>2, <1>3

LEMMA TruncateKeeps ==
  ASSUME Serial, IInv, NEW t \in Threads, Truncate(t)
  PROVE  IInv'
<1>1. /\ pc[t] = "truncate" /\ pc' = [pc EXCEPT ![t] = "write"]
      /\ UNCHANGED <<exists, cache, lease, lock, op, scan, live, nextId, faults, acked>>
      /\ Types /\ DiskOK /\ ThreadOK(t) /\ Reads(file, scan[t])
  BY DEF Truncate, Move, IInv, ThreadOK, ScanOK
<1>2. OthersOut(t)
  BY <1>1, Alone
<1>3. nextId \in Nat /\ stamp \in Nat /\ scan[t] \in Seq(Nat) /\ Shape(file, nextId)
      /\ Len(file) \in Nat /\ Len(scan[t]) \in Nat
  BY LenTypes
<1>4. /\ Shape(file', nextId) /\ Reads(file', scan[t]) /\ Len(file') = Len(scan[t])
      /\ stamp' \in Nat
      /\ CacheHolds' => file' = file /\ CacheHolds
      /\ cache' # None => cache' \in [events : Seq(Nat), version : 0 .. stamp']
  <2>1. CASE Len(scan[t]) < Len(file)
    <3>1. file' = SubSeq(file, 1, Len(scan[t])) /\ stamp' = stamp + 1
      BY <2>1 DEF Truncate, ValidLength
    <3>2. Shape(file', nextId) /\ Reads(file', scan[t]) /\ Len(file') = Len(scan[t])
      <4>1. /\ Len(scan[t]) <= Len(file)
            /\ \A i \in 1 .. Len(scan[t]) : file[i].whole /\ scan[t][i] = file[i].id
        BY <1>1 DEF Reads
      <4> QED
        BY <1>3, <3>1, <4>1, Cut
    <3> QED
      BY <1>1, <1>3, <3>1, <3>2, CacheStale
  <2>2. CASE ~(Len(scan[t]) < Len(file))
    <3>1. UNCHANGED <<file, stamp>>
      BY <2>2 DEF Truncate, ValidLength
    <3>2. Len(file) = Len(scan[t])
      BY <1>1, <1>3, <2>2 DEF Reads
    <3> QED
      BY <1>1, <1>3, <3>1, <3>2 DEF Types, CacheHolds
  <2> QED
    BY <2>1, <2>2
<1>5. Readable(file) = scan[t] /\ Readable(file') = scan[t]
  BY <1>1, <1>3, <1>4, ReadsReadable
<1>6. Types'
  BY <1>1, <1>4 DEF Types, Place
<1>7. DiskOK'
  BY <1>1, <1>4, <1>5 DEF DiskOK, CacheHolds
<1>8. pc'[t] = "write" /\ \A u \in Threads \ {t} : pc'[u] = pc[u]
  BY <1>1 DEF Types
<1>9. Held(t)' /\ ScanOK(t)'
  BY <1>1, <1>4, <1>8 DEF ThreadOK, Held, ScanOK
<1>10. t \in Turns => LiveOK(t)'
  BY <1>1, <1>5, <1>8 DEF ThreadOK, LiveOK
<1> QED
  BY <1>2, <1>6, <1>7, <1>8, <1>9, <1>10, OneThread DEF ThreadOK

(* What a thread about to write knows. *)
LEMMA AtWrite ==
  ASSUME IInv, NEW t \in Threads, pc[t] = "write"
  PROVE  /\ nextId \in Nat /\ nextId + 1 \in Nat \ {0} /\ stamp + 1 \in Nat
         /\ scan[t] \in Seq(Nat) /\ Reads(file, scan[t]) /\ Len(scan[t]) = Len(file)
         /\ Shape(file, nextId) /\ Readable(file) = scan[t]
         /\ NewLine(t) \in Line /\ NewLine(t).whole /\ NewLine(t).nl
         /\ NewLine(t).seq = Len(file) + 1 /\ NewLine(t).id = nextId
         /\ acked \subseteq Range(scan[t])
<1>1. /\ nextId \in Nat /\ nextId + 1 \in Nat \ {0} /\ stamp + 1 \in Nat
      /\ scan[t] \in Seq(Nat) /\ Shape(file, nextId) /\ Len(file) \in Nat
  BY LenTypes
<1>2. Reads(file, scan[t]) /\ Len(scan[t]) = Len(file)
  BY DEF IInv, ThreadOK, ScanOK
<1>3. Readable(file) = scan[t] /\ acked \subseteq Range(Readable(file))
  BY <1>1, <1>2, ReadsReadable DEF IInv, DiskOK
<1> QED
  BY <1>1, <1>2, <1>3 DEF NewLine, Line

LEMMA WriteKeeps ==
  ASSUME Serial, IInv, NEW t \in Threads, Write(t)
  PROVE  IInv'
<1>1. /\ pc[t] = "write" /\ pc' = [pc EXCEPT ![t] = "sync"]
      /\ file' = Append(file, NewLine(t)) /\ stamp' = stamp + 1 /\ nextId' = nextId + 1
      /\ UNCHANGED <<exists, cache, lease, lock, op, scan, live, faults, acked>>
      /\ Types /\ DiskOK /\ ThreadOK(t)
  BY DEF Write, Move, IInv
<1>2. OthersOut(t)
  BY <1>1, Alone
<1>3. Shape(file', nextId') /\ Reads(file', Append(scan[t], nextId))
  BY <1>1, AtWrite, AddWhole
<1>4. Readable(file') = Append(scan[t], nextId) /\ nextId' - 1 = nextId
  <2>1. nextId' \in Nat /\ nextId' - 1 = nextId
    BY <1>1, LenTypes
  <2> QED
    BY <1>3, <2>1, ReadsReadable
<1>5. acked \subseteq Range(Readable(file'))
  BY <1>1, <1>4, AtWrite, RangeAppend
<1>6. Types'
  BY <1>1, AtWrite, CacheStale DEF Types, Place
<1>7. DiskOK'
  BY <1>1, <1>3, <1>5, CacheStale DEF DiskOK
<1>8. pc'[t] = "sync" /\ \A u \in Threads \ {t} : pc'[u] = pc[u]
  BY <1>1 DEF Types
<1>9. Len(file') = Len(scan[t]) + 1
  BY <1>1, AtWrite DEF Shape
<1>10. Held(t)' /\ ScanOK(t)'
  BY <1>1, <1>3, <1>4, <1>8, <1>9, AtWrite DEF ThreadOK, Held, ScanOK
<1>11. t \in Turns => LiveOK(t)'
  BY <1>1, <1>8, AtWrite DEF ThreadOK, LiveOK
<1> QED
  BY <1>2, <1>6, <1>7, <1>8, <1>10, <1>11, OneThread DEF ThreadOK

(* What a thread about to acknowledge knows. *)
LEMMA AtSync ==
  ASSUME IInv, NEW t \in Threads, pc[t] = "sync", NEW id, id = nextId - 1
  PROVE  /\ id \in Nat /\ nextId = id + 1 /\ stamp \in Nat /\ stamp + 1 \in Nat
         /\ scan[t] \in Seq(Nat) /\ Append(scan[t], id) \in Seq(Nat)
         /\ Reads(file, Append(scan[t], id)) /\ Len(file) = Len(scan[t]) + 1
         /\ Shape(file, nextId) /\ Readable(file) = Append(scan[t], id)
         /\ Range(Readable(file)) = Range(scan[t]) \cup {id}
         /\ \A i \in Range(scan[t]) : i < id
         /\ acked \subseteq Range(scan[t])
<1>1. /\ id \in Nat /\ nextId = id + 1 /\ nextId \in Nat /\ stamp \in Nat /\ stamp + 1 \in Nat
      /\ scan[t] \in Seq(Nat)
      /\ Reads(file, Append(scan[t], id)) /\ Len(file) = Len(scan[t]) + 1
      /\ Shape(file, nextId) /\ acked \subseteq Range(scan[t])
  BY DEF IInv, Types, DiskOK, ThreadOK, ScanOK
<1>2. Readable(file) = Append(scan[t], id)
  BY <1>1, ReadsReadable
<1>3. Range(Readable(file)) = Range(scan[t]) \cup {id}
  BY <1>1, <1>2, RangeAppend
<1>4. /\ Shape(SubSeq(file, 1, Len(scan[t])), id)
      /\ Reads(SubSeq(file, 1, Len(scan[t])), scan[t])
  BY <1>1, LastLine
<1>5. \A i \in Range(scan[t]) : i < id
  BY <1>1, <1>4, ReadInOrder
<1>6. Append(scan[t], id) \in Seq(Nat)
  BY <1>1
<1> QED
  BY <1>1, <1>2, <1>3, <1>5, <1>6

LEMMA AcknowledgeKeeps ==
  ASSUME Serial, IInv, NEW t \in Threads, Acknowledge(t)
  PROVE  IInv'
<1> DEFINE id == nextId - 1
<1>1. /\ pc[t] = "sync" /\ pc' = [pc EXCEPT ![t] = Home(t)]
      /\ cache' = [events |-> Append(scan[t], id), version |-> stamp]
      /\ acked' = acked \cup {id}
      /\ live' = IF t \in Turns THEN [live EXCEPT ![t] = Append(@, id)] ELSE live
      /\ lock' = None
      /\ UNCHANGED <<exists, file, stamp, lease, op, scan, nextId, faults>>
      /\ Types /\ DiskOK /\ ThreadOK(t)
  BY DEF Acknowledge, Move, IInv
<1>2. OthersOut(t)
  BY <1>1, Alone
<1>3. /\ id \in Nat /\ stamp \in Nat
      /\ Append(scan[t], id) \in Seq(Nat)
      /\ Reads(file, Append(scan[t], id))
      /\ Range(Readable(file)) = Range(scan[t]) \cup {id}
      /\ \A i \in Range(scan[t]) : i < id
      /\ acked \subseteq Range(scan[t])
  BY <1>1, AtSync
<1> HIDE DEF id
<1>4. live[t] \in Seq(Nat) /\ Append(live[t], id) \in Seq(Nat)
  BY <1>1, <1>3 DEF Types
<1>5. Types'
  BY <1>1, <1>3, <1>4 DEF Types, Place, Home
<1>6. exists
  BY <1>1 DEF ThreadOK, ScanOK
<1>7. DiskOK'
  <2>1. Reads(file', cache'.events)
    BY <1>1, <1>3
  <2>2. acked' \subseteq Range(Readable(file'))
    BY <1>1, <1>3
  <2> QED
    BY <1>1, <1>6, <2>1, <2>2 DEF DiskOK
<1>8. pc'[t] = Home(t) /\ \A u \in Threads \ {t} : pc'[u] = pc[u]
  BY <1>1 DEF Types
<1>9. CASE t \in Turns
  <2>1. pc'[t] = "idle" /\ t \notin Hosts /\ live'[t] = Append(live[t], id)
    BY <1>1, <1>8, <1>9, SessionLogAssumption DEF Home, Types
  <2>2. Held(t)' /\ ScanOK(t)'
    BY <1>1, <1>9, <2>1 DEF ThreadOK, Held, ScanOK
  <2>3. /\ Range(live[t]) \subseteq Range(scan[t])
        /\ \A i, j \in DOMAIN live[t] : i < j => live[t][i] < live[t][j]
        /\ acked \subseteq Range(live[t]) \/ op[t] # "append"
    BY <1>1, <1>9 DEF ThreadOK, LiveOK
  <2>4. op[t] = "append"
    BY <1>1 DEF ThreadOK, ScanOK
  <2>5. Range(live'[t]) = Range(live[t]) \cup {id}
    BY <1>3, <1>4, <2>1, RangeAppend
  <2>6. \A i, j \in DOMAIN live'[t] : i < j => live'[t][i] < live'[t][j]
    BY <1>3, <1>4, <2>1, <2>3, AppendInOrder
  <2>7. LiveOK(t)'
    BY <1>1, <1>3, <2>1, <2>3, <2>4, <2>5, <2>6 DEF LiveOK
  <2> QED
    BY <1>2, <1>5, <1>7, <1>8, <2>2, <2>7, OneThread DEF ThreadOK
<1>10. CASE t \notin Turns
  <2>1. pc'[t] = "out"
    BY <1>8, <1>10 DEF Home
  <2> QED
    BY <1>2, <1>5, <1>7, <1>8, <2>1, OneThread DEF ThreadOK
<1> QED
  BY <1>9, <1>10

-----------------------------------------------------------------------------
(* Faults.                                                                  *)

(* Whatever is left of a line, the events before it are read. *)
LEMMA TornReads ==
  ASSUME Serial, NEW n \in Nat, NEW f, Shape(f, n), NEW s, Reads(f, s), Len(s) = Len(f),
         NEW l \in Line, l.whole, l.nl, l.seq = Len(f) + 1, l.id = n,
         NEW tear \in Remains
  PROVE  /\ Shape(f \o Torn(l, tear), n + 1)
         /\ Range(s) \subseteq Range(Readable(f \o Torn(l, tear)))
<1>1. tear \in {"nothing", "part", "all"}
  BY SessionLogAssumption DEF Serial, Remains
<1>2. /\ Shape(f \o Torn(l, tear), n + 1)
      /\ \/ Reads(f \o Torn(l, tear), s)
         \/ Reads(f \o Torn(l, tear), Append(s, n))
  BY <1>1, AddTorn
<1>3. \/ Readable(f \o Torn(l, tear)) = s
      \/ Readable(f \o Torn(l, tear)) = Append(s, n)
  <2>1. n + 1 \in Nat
    OBVIOUS
  <2> QED
    BY <1>2, <2>1, ReadsReadable
<1>4. Range(Append(s, n)) = Range(s) \cup {n}
  BY RangeAppend DEF Reads
<1> QED
  BY <1>2, <1>3, <1>4

LEMMA AppendFailsKeeps ==
  ASSUME Serial, IInv, NEW t \in Threads, AppendFails(t)
  PROVE  IInv'
<1>1. /\ pc[t] = "write" /\ stamp' = stamp + 1 /\ nextId' = nextId + 1
      /\ UNCHANGED <<exists, cache, op, scan, live, acked>>
      /\ Types /\ DiskOK /\ ThreadOK(t)
  BY DEF AppendFails, IInv
<1>2. PICK tear \in Remains : file' = file \o Torn(NewLine(t), tear)
  BY DEF AppendFails
<1>3. \/ pc' = [pc EXCEPT ![t] = Home(t)] /\ UNCHANGED lease
      \/ pc' = [pc EXCEPT ![t] = "out"]
  BY DEF AppendFails, Leave, Move
<1>4. OthersOut(t)
  BY <1>1, Alone
<1>5. Shape(file', nextId') /\ Range(Readable(file)) \subseteq Range(Readable(file'))
  BY <1>1, <1>2, AtWrite, TornReads
<1>6. Types'
  BY <1>1, <1>3, AtWrite, CacheStale DEF Types, Place, Home
<1>7. DiskOK'
  BY <1>1, <1>5, CacheStale DEF DiskOK
<1>8. pc'[t] \in {Home(t), "out"} /\ \A u \in Threads \ {t} : pc'[u] = pc[u]
  BY <1>1, <1>3 DEF Types
<1>9. CASE pc'[t] = "out"
  BY <1>4, <1>6, <1>7, <1>8, <1>9, OneThread DEF ThreadOK
<1>10. CASE pc'[t] # "out"
  <2>1. t \in Turns /\ t \notin Hosts /\ pc'[t] = "idle"
    BY <1>8, <1>10, SessionLogAssumption DEF Home
  <2>2. UNCHANGED lease
    BY <1>1, <1>3, <1>10 DEF Types
  <2>3. Held(t)' /\ ScanOK(t)'
    BY <1>1, <2>1, <2>2 DEF ThreadOK, Held, ScanOK
  <2>4. LiveOK(t) /\ op[t] = "append"
    BY <1>1, <2>1 DEF ThreadOK, ScanOK
  <2>5. LiveOK(t)'
    BY <1>1, <1>5, <2>1, <2>4 DEF LiveOK
  <2> QED
    BY <1>4, <1>6, <1>7, <1>8, <2>3, <2>5, OneThread DEF ThreadOK
<1> QED
  BY <1>9, <1>10

LEMMA CrashKeeps ==
  ASSUME Serial, IInv, Crash
  PROVE  IInv'
<1>1. /\ stamp' = stamp + 1
      /\ cache' = None /\ pc' = [t \in Threads |-> "out"]
      /\ scan' = [t \in Threads |-> <<>>] /\ live' = [t \in Threads |-> <<>>]
      /\ UNCHANGED <<exists, op, nextId, acked>>
      /\ Types /\ DiskOK
  BY DEF Crash, IInv
<1>2. <<>> \in Seq(Nat) /\ stamp + 1 \in Nat
  BY <1>1 DEF Types
<1>3. Types'
  BY <1>1, <1>2 DEF Types, Place
<1>4. Shape(file', nextId) /\ acked \subseteq Range(Readable(file'))
  <2>1. CASE ~\E t \in Threads : pc[t] = "sync"
    <3>1. UNCHANGED file
      BY <2>1 DEF Crash
    <3> QED
      BY <1>1, <3>1 DEF DiskOK
  <2>2. ASSUME NEW t \in Threads, pc[t] = "sync"
        PROVE  Shape(file', nextId) /\ acked \subseteq Range(Readable(file'))
    <3> DEFINE id == nextId - 1
               s == scan[t]
               g == SubSeq(file, 1, Len(file) - 1)
               l == file[Len(file)]
    <3>1. /\ id \in Nat /\ nextId = id + 1 /\ s \in Seq(Nat)
          /\ Reads(file, Append(s, id)) /\ Len(file) = Len(s) + 1
          /\ Shape(file, id + 1) /\ acked \subseteq Range(s)
      BY <2>2, AtSync
    <3>2. Len(s) \in Nat /\ Len(file) - 1 = Len(s)
      BY <3>1
    <3>3. PICK tear \in Remains : file' = g \o Torn(l, tear)
      BY <2>2 DEF Crash
    <3> HIDE DEF id, s
    <3>4. /\ Shape(g, id) /\ Reads(g, s) /\ Len(s) = Len(g)
          /\ l \in Line /\ l.whole /\ l.nl /\ l.seq = Len(g) + 1 /\ l.id = id
      BY <3>1, <3>2, LastLine
    <3> HIDE DEF g, l
    <3>5. Shape(file', id + 1) /\ Range(s) \subseteq Range(Readable(file'))
      BY <3>1, <3>3, <3>4, TornReads
    <3> QED
      BY <3>1, <3>5
  <2> QED
    BY <2>1, <2>2
<1>5. DiskOK'
  BY <1>1, <1>4 DEF DiskOK, CacheHolds
<1>6. \A t \in Threads : ThreadOK(t)'
  BY <1>1 DEF ThreadOK
<1> QED
  BY <1>3, <1>5, <1>6 DEF IInv

-----------------------------------------------------------------------------
LEMMA InitIInv == Init => IInv
<1> SUFFICES ASSUME Init PROVE IInv
  OBVIOUS
<1>1. Types
  BY DEF Init, Types, Place
<1>2. Shape(file, nextId)
  BY DEF Init, Shape
<1>3. DiskOK
  BY <1>2 DEF Init, DiskOK, CacheHolds
<1>4. \A t \in Threads : ThreadOK(t)
  BY DEF Init, ThreadOK
<1> QED
  BY <1>1, <1>3, <1>4 DEF IInv

LEMMA StutterKeeps == IInv /\ UNCHANGED vars => IInv'
BY DEF IInv, Types, DiskOK, CacheHolds, ThreadOK, Held, ScanOK, LiveOK, vars, memoryVars

LEMMA NextKeepsIInv == Serial /\ IInv /\ [Next]_vars => IInv'
<1> SUFFICES ASSUME Serial, IInv, [Next]_vars PROVE IInv'
  OBVIOUS
<1>1. CASE Quiet \/ UNCHANGED vars
  BY <1>1, StutterKeeps DEF Quiet
<1>2. ASSUME NEW t \in Threads,
             \/ Begin(t) \/ Loaded(t) \/ EndTransaction(t)
             \/ BeginAppend(t)
             \/ ScanCached(t) \/ ScanMiss(t) \/ ScanRead(t) \/ ScanStore(t)
             \/ Truncate(t) \/ Write(t) \/ Acknowledge(t)
             \/ AppendFails(t)
      PROVE  IInv'
  BY <1>2, BeginKeeps, LoadedKeeps, EndKeeps, BeginAppendKeeps, ScanKeeps, TruncateKeeps,
     WriteKeeps, AcknowledgeKeeps, AppendFailsKeeps
<1> QED
  BY <1>1, <1>2, CrashKeeps DEF Next

LEMMA Invariant ==
  ASSUME Serial
  PROVE  Spec => []IInv
<1>1. IInv /\ [Next]_vars => IInv'
  BY NextKeepsIInv
<1> QED
  BY <1>1, InitIInv, PTL DEF Spec

LEMMA IInvMeans == IInv => AcknowledgedReadable /\ LiveIsDurable /\ LiveKnowsAcknowledged
<1> SUFFICES ASSUME IInv
             PROVE  AcknowledgedReadable /\ LiveIsDurable /\ LiveKnowsAcknowledged
  OBVIOUS
<1>1. nextId \in Nat /\ Shape(file, nextId) /\ acked \subseteq Range(Readable(file))
  BY DEF IInv, Types, DiskOK
<1>2. Reads(file, Readable(file))
  BY <1>1, ScanReads
<1>3. \A i, j \in DOMAIN Readable(file) : i < j => Readable(file)[i] < Readable(file)[j]
  BY <1>1, <1>2, ReadInOrder
<1>4. AcknowledgedReadable
  BY <1>1, <1>3 DEF AcknowledgedReadable
<1>5. LiveIsDurable
  <2> SUFFICES ASSUME NEW t \in Turns, pc[t] # "out"
               PROVE  /\ Range(live[t]) \subseteq Range(Readable(file))
                      /\ \A i, j \in DOMAIN live[t] : i < j => live[t][i] < live[t][j]
    BY DEF LiveIsDurable
  <2>1. t \in Threads /\ LiveOK(t)
    BY DEF IInv, ThreadOK, Threads
  <2>2. CASE pc[t] = "sync"
    <3>1. Range(Readable(file)) = Range(scan[t]) \cup {nextId - 1}
      BY <2>1, <2>2, AtSync
    <3> QED
      BY <2>1, <2>2, <3>1 DEF LiveOK
  <2>3. CASE pc[t] # "sync"
    BY <2>1, <2>3 DEF LiveOK
  <2> QED
    BY <2>2, <2>3
<1>6. LiveKnowsAcknowledged
  BY DEF IInv, ThreadOK, LiveOK, LiveKnowsAcknowledged, Threads
<1> QED
  BY <1>4, <1>5, <1>6

-----------------------------------------------------------------------------
(* append_event's promise: an event it returned for is found by every later *)
(* scan of transcript.jsonl, in its place, across failed appends, damaged   *)
(* tails that are cut off, crashes and restarts.                            *)
THEOREM AcknowledgedStays ==
  ASSUME Serial
  PROVE  Spec => []AcknowledgedReadable
BY Invariant, IInvMeans, PTL

(* Append before apply: no live session holds an event the ledger lacks.    *)
THEOREM LiveNeverAhead ==
  ASSUME Serial
  PROVE  Spec => []LiveIsDurable
BY Invariant, IInvMeans, PTL

(* The lease: a transaction works on a session that has every event any     *)
(* transaction before it was told is durable.                               *)
THEOREM LiveNeverBehind ==
  ASSUME Serial
  PROVE  Spec => []LiveKnowsAcknowledged
BY Invariant, IInvMeans, PTL
-----------------------------------------------------------------------------
(* Types.                                                                   *)
Below == {p \in Nat \X Nat : p[1] < p[2]}

(* A set of natural numbers has a least element.                            *)
LEMMA LeastExists ==
  ASSUME NEW T, T \subseteq Nat, T # {}
  PROVE  \E x \in T : \A y \in T : x <= y
<1>1. IsWellFoundedOn(Below, Nat) BY NatLessThanWellFounded DEF OpToRel, Below
<1>2. PICK x \in T : \A y \in T : ~(<<y, x>> \in Below) BY <1>1, WFMin, Zenon
<1>3. \A y \in T : ~(y < x) BY <1>2 DEF Below
<1> QED BY <1>3

(* The lines TypeOK allows.                                                 *)
FileLine == [id : Ids, seq : Ids, whole : BOOLEAN, nl : BOOLEAN]

(* A scan ends, at the end of the file or at the first line that is not good. *)
LEMMA ScanEnds ==
  ASSUME NEW f, Len(f) \in Nat
  PROVE  ScannedLength(f) \in 0 .. Len(f)
<1> DEFINE Ends == {n \in 0 .. Len(f) : n < Len(f) => ~GoodLine(f, n + 1)}
<1>1. Len(f) \in Ends /\ Ends \subseteq Nat OBVIOUS
<1>2. PICK n \in Ends : \A m \in Ends : n <= m
  <2> HIDE DEF Ends
  <2> QED BY <1>1, LeastExists
<1>3. \A i \in 1 .. n : GoodLine(f, i)
  <2> SUFFICES ASSUME NEW i \in 1 .. n, ~GoodLine(f, i) PROVE FALSE OBVIOUS
  <2>1. i - 1 \in 0 .. Len(f) /\ (i - 1) + 1 = i /\ ~(n <= i - 1) BY <1>1, <1>2
  <2>2. i - 1 \in Ends BY <2>1
  <2> QED BY <1>2, <2>1, <2>2
<1>4. n \in 0 .. Len(f) /\ ScannedTo(f, n) BY <1>2, <1>3 DEF ScannedTo
<1> QED BY <1>4 DEF ScannedLength

(* A scan finds no more events than the file has lines.                     *)
LEMMA ReadTyped ==
  ASSUME NEW f \in Seq(FileLine)
  PROVE  Readable(f) \in Seq(Ids) /\ Len(Readable(f)) <= Len(f)
<1> DEFINE n == ScannedLength(f)
<1>0. Len(f) \in Nat /\ \A i \in 1 .. Len(f) : f[i] \in FileLine OBVIOUS
<1>1. Len(f) \in Nat /\ \A i \in 1 .. Len(f) : f[i].id \in Ids BY <1>0 DEF FileLine
<1>2. n \in 0 .. Len(f) BY <1>1, ScanEnds
<1> HIDE DEF n
<1>3. n \in Nat /\ \A i \in 1 .. n : f[i].id \in Ids BY <1>1, <1>2
<1>4. [i \in 1 .. n |-> f[i].id] \in Seq(Ids) /\ Len([i \in 1 .. n |-> f[i].id]) = n BY <1>3
<1> QED BY <1>1, <1>2, <1>4 DEF Readable, n

(* A thread in an append holds the lock; there was an event to write, or    *)
(* its line is there.                                                       *)
Appends(t) ==
  \/ pc[t] \in {"truncate", "write", "sync"}
  \/ pc[t] \in {"check", "read", "store"} /\ op[t] = "append"

AppendOK(t) ==
  Appends(t) =>
    /\ lock = t
    /\ pc[t] # "sync" => nextId <= MaxEvents
    /\ pc[t] = "sync" => 0 < Len(file) /\ 1 < nextId /\ Len(scan[t]) + 1 < nextId

(* Nobody knows more events than were written.                              *)
Fewer ==
  /\ Len(file) < nextId
  /\ \A t \in Threads : Len(scan[t]) < nextId
  /\ cache # None => Len(cache.events) < nextId

TypeInv == TypeOK /\ Fewer /\ \A t \in Threads : AppendOK(t)

(* What the steps below need to know of a well typed state.                 *)
LEMMA Known ==
  ASSUME TypeInv, NEW t \in Threads
  PROVE  /\ t # None /\ MaxEvents \in Nat /\ MaxFaults \in Nat
         /\ nextId \in Nat \ {0} /\ nextId <= MaxEvents + 1
         /\ stamp \in Nat /\ faults \in 0 .. MaxFaults
         /\ file \in Seq(FileLine) /\ Len(file) \in Nat /\ Len(file) < nextId
         /\ scan[t] \in Seq(Ids) /\ Len(scan[t]) \in Nat /\ Len(scan[t]) < nextId
         /\ live[t] \in Seq(Ids) /\ pc[t] \in Place /\ op[t] \in {"load", "append"}
         /\ pc \in [Threads -> Place] /\ op \in [Threads -> {"load", "append"}]
         /\ scan \in [Threads -> Seq(Ids)] /\ live \in [Threads -> Seq(Ids)]
         /\ cache # None => /\ cache.events \in Seq(Ids) /\ Len(cache.events) < nextId
                            /\ cache.version \in 0 .. stamp
<1>1. t # None /\ MaxEvents \in Nat /\ MaxFaults \in Nat BY SessionLogAssumption DEF Threads
<1>2. /\ nextId \in 1 .. MaxEvents + 1 /\ stamp \in Nat /\ faults \in 0 .. MaxFaults
      /\ file \in Seq(FileLine)
      /\ pc \in [Threads -> Place] /\ op \in [Threads -> {"load", "append"}]
      /\ scan \in [Threads -> Seq(Ids)] /\ live \in [Threads -> Seq(Ids)]
      /\ cache = None \/ cache \in [events : Seq(Ids), version : 0 .. stamp]
  BY DEF TypeInv, TypeOK, FileLine, Place
<1>3. Fewer BY DEF TypeInv
<1>4. nextId \in Nat \ {0} /\ nextId <= MaxEvents + 1 BY <1>1, <1>2
<1>5. scan[t] \in Seq(Ids) /\ live[t] \in Seq(Ids) BY <1>2
<1>6. Len(file) \in Nat /\ Len(scan[t]) \in Nat BY <1>2, <1>5
<1> QED BY <1>1, <1>2, <1>3, <1>4, <1>5, <1>6 DEF Fewer

(* A step of one thread leaves the others where they are.                   *)
LEMMA OthersAppend ==
  ASSUME TypeInv, NEW t \in Threads,
         \A u \in Threads \ {t} : pc'[u] = pc[u] /\ op'[u] = op[u] /\ scan'[u] = scan[u],
         \/ UNCHANGED <<file, nextId, lock>>
         \/ lock \in {t, None},
         AppendOK(t)'
  PROVE  \A u \in Threads : AppendOK(u)'
<1> SUFFICES ASSUME NEW u \in Threads \ {t} PROVE AppendOK(u)' OBVIOUS
<1>1. AppendOK(u) /\ u # None BY Known DEF TypeInv
<1>2. Appends(u)' <=> Appends(u) BY DEF Appends
<1> QED BY <1>1, <1>2 DEF AppendOK

LEMMA BeginTypes ==
  ASSUME TypeInv, NEW t \in Threads, Begin(t)
  PROVE  TypeInv'
<1> DEFINE s == IF exists THEN "check" ELSE Home(t)
<1>1. s \in Place /\ s \in {"check", "idle", "out"} BY DEF Home, Place
<1>2. /\ live' = [live EXCEPT ![t] = <<>>] /\ op' = [op EXCEPT ![t] = "load"]
      /\ pc' = [pc EXCEPT ![t] = s]
      /\ UNCHANGED <<exists, file, stamp, cache, lock, scan, nextId, faults, acked>>
      /\ lease' = IF t \in Turns THEN t ELSE lease
  BY DEF Begin, Move
<1> HIDE DEF s
<1>3. /\ pc' \in [Threads -> Place] /\ op' \in [Threads -> {"load", "append"}]
      /\ live' \in [Threads -> Seq(Ids)]
  BY <1>1, <1>2, Known
<1>4. TypeOK' BY <1>2, <1>3 DEF TypeInv, TypeOK, Place
<1>5. Fewer' BY <1>2 DEF TypeInv, Fewer
<1>6. AppendOK(t)' BY <1>1, <1>2, Known DEF AppendOK, Appends
<1> QED BY <1>2, <1>4, <1>5, <1>6, Known, OthersAppend DEF TypeInv

LEMMA LoadedTypes ==
  ASSUME TypeInv, NEW t \in Threads, Loaded(t) \/ EndTransaction(t)
  PROVE  TypeInv'
<1>1. /\ UNCHANGED <<exists, file, stamp, cache, lock, op, scan, nextId, faults, acked>>
      /\ lease' \in {lease, None}
      /\ live' = live \/ live' = [live EXCEPT ![t] = scan[t]]
      /\ \E s \in {"idle", "out"} : pc' = [pc EXCEPT ![t] = s]
  BY DEF Loaded, EndTransaction, Leave, Move
<1>2. PICK s \in {"idle", "out"} : pc' = [pc EXCEPT ![t] = s] BY <1>1
<1>3. pc' \in [Threads -> Place] /\ live' \in [Threads -> Seq(Ids)] BY <1>1, <1>2, Known DEF Place
<1>4. TypeOK' BY <1>1, <1>3 DEF TypeInv, TypeOK, Place
<1>5. Fewer' BY <1>1 DEF TypeInv, Fewer
<1>6. AppendOK(t)' BY <1>1, <1>2, Known DEF AppendOK, Appends
<1> QED BY <1>1, <1>2, <1>4, <1>5, <1>6, Known, OthersAppend DEF TypeInv

LEMMA BeginAppendTypes ==
  ASSUME TypeInv, NEW t \in Threads, BeginAppend(t)
  PROVE  TypeInv'
<1>1. /\ lock = None /\ lock' = t /\ exists' = TRUE /\ nextId <= MaxEvents
      /\ op' = [op EXCEPT ![t] = "append"] /\ pc' = [pc EXCEPT ![t] = "check"]
      /\ UNCHANGED <<file, stamp, cache, lease, scan, live, nextId, faults, acked>>
  BY DEF BeginAppend, LockFree, Move
<1>3. pc' \in [Threads -> Place] /\ op' \in [Threads -> {"load", "append"}]
  BY <1>1, Known DEF Place
<1>4. TypeOK' BY <1>1, <1>3 DEF TypeInv, TypeOK, Place
<1>5. Fewer' BY <1>1 DEF TypeInv, Fewer
<1>6. AppendOK(t)' BY <1>1, Known DEF AppendOK
<1> QED BY <1>1, <1>4, <1>5, <1>6, Known, OthersAppend DEF TypeInv

LEMMA ScanTypes ==
  ASSUME TypeInv, NEW t \in Threads,
         ScanCached(t) \/ ScanMiss(t) \/ ScanRead(t) \/ ScanStore(t)
  PROVE  TypeInv'
<1>1. /\ UNCHANGED <<exists, file, stamp, lease, lock, op, live, nextId, faults, acked>>
      /\ pc[t] \in {"check", "read", "store"}
  BY DEF ScanCached, ScanMiss, ScanRead, ScanStore, Scanning
<1>2. PICK s \in Place : /\ pc' = [pc EXCEPT ![t] = s]
                         /\ \/ s \in {"read", "store", "loaded"}
                            \/ s = "truncate" /\ op[t] = "append"
  BY DEF ScanCached, ScanMiss, ScanRead, ScanStore, Move, AfterScan, Place
<1>3. \E e \in Seq(Ids) : Len(e) < nextId /\ (scan' = scan \/ scan' = [scan EXCEPT ![t] = e])
  <2>1. CASE ScanCached(t)
    BY <2>1, Known DEF ScanCached, CacheHolds, Scanning
  <2>2. CASE ScanRead(t)
    <3>1. Readable(file) \in Seq(Ids) /\ Len(Readable(file)) <= Len(file) BY Known, ReadTyped
    <3>2. Len(Readable(file)) \in Nat BY <3>1
    <3>3. Len(Readable(file)) < nextId BY <3>1, <3>2, Known
    <3>4. scan' = [scan EXCEPT ![t] = Readable(file)] BY <2>2 DEF ScanRead, Scanning
    <3> QED BY <3>1, <3>3, <3>4
  <2>3. CASE ScanMiss(t) \/ ScanStore(t)
    BY <2>3, Known DEF ScanMiss, ScanStore
  <2> QED BY <2>1, <2>2, <2>3
<1>4. PICK e \in Seq(Ids) : Len(e) < nextId /\ (scan' = scan \/ scan' = [scan EXCEPT ![t] = e])
  BY <1>3
<1>5. cache' = cache \/ cache' = [events |-> scan[t], version |-> stamp]
  BY DEF ScanCached, ScanMiss, ScanRead, ScanStore
<1>6. cache' = None \/ cache' \in [events : Seq(Ids), version : 0 .. stamp]
  BY <1>5, Known DEF TypeInv, TypeOK
<1>7. pc' \in [Threads -> Place] /\ scan' \in [Threads -> Seq(Ids)] BY <1>2, <1>4, Known
<1>8. TypeOK' BY <1>1, <1>6, <1>7 DEF TypeInv, TypeOK, Place
<1>9. Fewer'
  <2>1. \A u \in Threads : Len(scan'[u]) < nextId BY <1>4, Known
  <2>2. cache' # None => Len(cache'.events) < nextId BY <1>5, Known
  <2> QED BY <1>1, <2>1, <2>2, Known DEF Fewer
<1>10. AppendOK(t)
  BY DEF TypeInv
<1>11. AppendOK(t)' BY <1>1, <1>2, <1>10, Known DEF AppendOK, Appends
<1>12. \A u \in Threads \ {t} : pc'[u] = pc[u] /\ op'[u] = op[u] /\ scan'[u] = scan[u]
  BY <1>1, <1>2, <1>4, Known
<1> QED BY <1>1, <1>8, <1>9, <1>11, <1>12, OthersAppend DEF TypeInv

LEMMA TruncateTypes ==
  ASSUME TypeInv, NEW t \in Threads, Truncate(t)
  PROVE  TypeInv'
<1>1. /\ pc[t] = "truncate" /\ pc' = [pc EXCEPT ![t] = "write"]
      /\ UNCHANGED <<exists, cache, lease, lock, op, scan, live, nextId, faults, acked>>
  BY DEF Truncate, Move
<1>2. lock = t /\ nextId <= MaxEvents BY <1>1 DEF TypeInv, AppendOK, Appends
<1>3. /\ file' \in Seq(FileLine) /\ Len(file') < nextId
      /\ stamp' \in Nat /\ stamp <= stamp'
  <2>1. CASE Len(scan[t]) < Len(file)
    <3> DEFINE n == Len(scan[t])
    <3>1. file' = SubSeq(file, 1, n) /\ stamp' = stamp + 1 BY <2>1 DEF Truncate, ValidLength
    <3>2. n \in Nat /\ n < Len(file) /\ n < nextId BY <2>1, Known
    <3> HIDE DEF n
    <3>3. file' \in Seq(FileLine) /\ Len(file') = n BY <3>1, <3>2, Known
    <3> QED BY <3>1, <3>2, <3>3, Known
  <2>2. CASE ~(Len(scan[t]) < Len(file))
    BY <2>2, Known DEF Truncate, ValidLength
  <2> QED BY <2>1, <2>2
<1>4. cache' = None \/ cache' \in [events : Seq(Ids), version : 0 .. stamp']
  <2>1. 0 .. stamp \subseteq 0 .. stamp' BY <1>3, Known
  <2> QED BY <1>1, <2>1 DEF TypeInv, TypeOK
<1>5. pc' \in [Threads -> Place] BY <1>1, Known DEF Place
<1>6. TypeOK' BY <1>1, <1>3, <1>4, <1>5 DEF TypeInv, TypeOK, Place, FileLine
<1>7. Fewer' BY <1>1, <1>3 DEF TypeInv, Fewer
<1>8. AppendOK(t)' BY <1>1, <1>2, Known DEF AppendOK
<1> QED BY <1>1, <1>2, <1>6, <1>7, <1>8, Known, OthersAppend DEF TypeInv

(* What a thread about to write does to the file.                           *)
LEMMA Writing ==
  ASSUME TypeInv, NEW t \in Threads, pc[t] = "write"
  PROVE  /\ lock = t /\ nextId <= MaxEvents /\ NewLine(t) \in FileLine
         /\ nextId + 1 \in 1 .. MaxEvents + 1 /\ stamp + 1 \in Nat
<1>1. lock = t /\ nextId <= MaxEvents BY DEF TypeInv, AppendOK, Appends
<1>2. nextId \in Ids /\ Len(scan[t]) + 1 \in Ids BY <1>1, Known DEF Ids
<1>3. NewLine(t) \in FileLine BY <1>2 DEF NewLine, FileLine
<1> QED BY <1>1, <1>3, Known

LEMMA CacheTyped ==
  ASSUME TypeInv, UNCHANGED cache, stamp' = stamp + 1
  PROVE  cache' = None \/ cache' \in [events : Seq(Ids), version : 0 .. stamp']
<1>1. stamp \in Nat BY DEF TypeInv, TypeOK
<1>2. 0 .. stamp \subseteq 0 .. stamp' BY <1>1
<1> QED BY <1>2 DEF TypeInv, TypeOK

LEMMA WriteTypes ==
  ASSUME TypeInv, NEW t \in Threads, Write(t)
  PROVE  TypeInv'
<1>1. /\ pc[t] = "write" /\ pc' = [pc EXCEPT ![t] = "sync"]
      /\ file' = Append(file, NewLine(t)) /\ stamp' = stamp + 1 /\ nextId' = nextId + 1
      /\ UNCHANGED <<exists, cache, lease, lock, op, scan, live, faults, acked>>
  BY DEF Write, Move
<1>2. /\ lock = t /\ nextId <= MaxEvents /\ NewLine(t) \in FileLine
      /\ nextId + 1 \in 1 .. MaxEvents + 1 /\ stamp + 1 \in Nat
  BY <1>1, Writing
<1>3. file' \in Seq(FileLine) /\ Len(file') = Len(file) + 1
  <2> DEFINE l == NewLine(t)
  <2> HIDE DEF l
  <2> QED BY <1>1, <1>2, Known DEF l
<1>4. cache' = None \/ cache' \in [events : Seq(Ids), version : 0 .. stamp'] BY <1>1, CacheTyped
<1>5. pc' \in [Threads -> Place] BY <1>1, Known DEF Place
<1>6. TypeOK' BY <1>1, <1>2, <1>3, <1>4, <1>5 DEF TypeInv, TypeOK, Place, FileLine
<1>7. Fewer'
  <2>1. \A u \in Threads : Len(scan'[u]) < nextId' BY <1>1, Known
  <2>2. cache' # None => Len(cache'.events) < nextId'
    <3>1. cache # None => Len(cache.events) \in Nat BY Known
    <3> QED BY <1>1, <3>1, Known
  <2> QED BY <1>1, <1>3, <2>1, <2>2, Known DEF Fewer
<1>8. AppendOK(t)' BY <1>1, <1>2, <1>3, Known DEF AppendOK
<1> QED BY <1>1, <1>2, <1>6, <1>7, <1>8, Known, OthersAppend DEF TypeInv

LEMMA AcknowledgeTypes ==
  ASSUME TypeInv, NEW t \in Threads, Acknowledge(t)
  PROVE  TypeInv'
<1> DEFINE id == nextId - 1
           e == Append(scan[t], id)
<1>1. /\ pc[t] = "sync" /\ pc' = [pc EXCEPT ![t] = Home(t)]
      /\ cache' = [events |-> e, version |-> stamp]
      /\ acked' = acked \cup {id}
      /\ live' = live \/ live' = [live EXCEPT ![t] = Append(live[t], id)]
      /\ lock' = None
      /\ UNCHANGED <<exists, file, stamp, lease, op, scan, nextId, faults>>
  BY DEF Acknowledge, Move
<1>2. lock = t /\ 1 < nextId /\ Len(scan[t]) + 1 < nextId BY <1>1 DEF TypeInv, AppendOK, Appends
<1>3. id \in Ids BY <1>2, Known DEF Ids
<1> HIDE DEF id
<1>4. e \in Seq(Ids) /\ Len(e) < nextId /\ Append(live[t], id) \in Seq(Ids) BY <1>2, <1>3, Known
<1> HIDE DEF e
<1>5. Home(t) \in Place /\ Home(t) \in {"idle", "out"} BY DEF Home, Place
<1>6. pc' \in [Threads -> Place] /\ live' \in [Threads -> Seq(Ids)]
      /\ cache' \in [events : Seq(Ids), version : 0 .. stamp']
  <2>1. stamp' = stamp /\ stamp \in 0 .. stamp BY <1>1, Known
  <2>2. cache' \in [events : Seq(Ids), version : 0 .. stamp'] BY <1>1, <1>4, <2>1
  <2>3. live' \in [Threads -> Seq(Ids)] BY <1>1, <1>4, Known
  <2> QED BY <1>1, <1>5, <2>2, <2>3, Known
<1>7. TypeOK' BY <1>1, <1>3, <1>6 DEF TypeInv, TypeOK, Place
<1>8. Fewer' BY <1>1, <1>4 DEF TypeInv, Fewer
<1>9. AppendOK(t)' BY <1>1, <1>5, Known DEF AppendOK, Appends
<1> QED BY <1>1, <1>2, <1>7, <1>8, <1>9, Known, OthersAppend DEF TypeInv

LEMMA TornTyped ==
  ASSUME NEW l \in FileLine, NEW tear \in Remains, NEW f \in Seq(FileLine)
  PROVE  f \o Torn(l, tear) \in Seq(FileLine) /\ Len(f \o Torn(l, tear)) <= Len(f) + 1
<1> DEFINE r == [l EXCEPT !.whole = (tear # "part"), !.nl = (tear = "all")]
<1>1. r \in FileLine BY DEF FileLine
<1> HIDE DEF r
<1>2. Torn(l, tear) = <<>> \/ Torn(l, tear) = <<r>> BY DEF Torn, r
<1>3. f \o <<>> = f /\ Len(f) \in Nat BY ConcatEmptySeq, LenProperties
<1>4. <<r>> \in Seq(FileLine) /\ Len(<<r>>) = 1 BY <1>1
<1>5. f \o <<r>> \in Seq(FileLine) /\ Len(f \o <<r>>) = Len(f) + 1 BY <1>4, ConcatProperties
<1>6. Len(f) <= Len(f) + 1 BY <1>3
<1>7. CASE Torn(l, tear) = <<>> BY <1>3, <1>6, <1>7
<1>8. CASE Torn(l, tear) = <<r>> BY <1>3, <1>5, <1>8
<1> QED BY <1>2, <1>7, <1>8

LEMMA AppendFailsTypes ==
  ASSUME TypeInv, NEW t \in Threads, AppendFails(t)
  PROVE  TypeInv'
<1>1. /\ pc[t] = "write" /\ faults < MaxFaults /\ faults' = faults + 1
      /\ stamp' = stamp + 1 /\ nextId' = nextId + 1 /\ lock' = None
      /\ \E s \in {Home(t), "out"} : pc' = [pc EXCEPT ![t] = s]
      /\ lease' \in {lease, None}
      /\ UNCHANGED <<exists, cache, op, scan, live, acked>>
  BY DEF AppendFails, Move, Leave
<1>2. PICK tear \in Remains : file' = file \o Torn(NewLine(t), tear) BY DEF AppendFails
<1>3. PICK s \in {Home(t), "out"} : pc' = [pc EXCEPT ![t] = s] BY <1>1
<1>4. /\ lock = t /\ nextId <= MaxEvents /\ NewLine(t) \in FileLine
      /\ nextId + 1 \in 1 .. MaxEvents + 1 /\ stamp + 1 \in Nat
  BY <1>1, Writing
<1>5. file' \in Seq(FileLine) /\ Len(file') <= Len(file) + 1 /\ Len(file') \in Nat
  <2>1. file' \in Seq(FileLine) /\ Len(file') <= Len(file) + 1 BY <1>2, <1>4, Known, TornTyped
  <2> QED BY <2>1
<1>6. cache' = None \/ cache' \in [events : Seq(Ids), version : 0 .. stamp'] BY <1>1, CacheTyped
<1>7. s \in Place /\ s \in {"idle", "out"} BY <1>3 DEF Home, Place
<1>8. pc' \in [Threads -> Place] /\ faults' \in 0 .. MaxFaults BY <1>1, <1>3, <1>7, Known
<1>9. TypeOK' BY <1>1, <1>4, <1>5, <1>6, <1>8 DEF TypeInv, TypeOK, Place, FileLine
<1>10. Fewer'
  <2>1. \A u \in Threads : Len(scan'[u]) < nextId' BY <1>1, Known
  <2>2. cache' # None => Len(cache'.events) < nextId'
    <3>1. cache # None => Len(cache.events) \in Nat BY Known
    <3> QED BY <1>1, <3>1, Known
  <2> QED BY <1>1, <1>5, <2>1, <2>2, Known DEF Fewer
<1>11. AppendOK(t)' BY <1>1, <1>3, <1>7, Known DEF AppendOK, Appends
<1> QED BY <1>1, <1>3, <1>4, <1>9, <1>10, <1>11, Known, OthersAppend DEF TypeInv

LEMMA CrashTypes ==
  ASSUME TypeInv, Crash
  PROVE  TypeInv'
<1>1. /\ faults < MaxFaults /\ faults' = faults + 1 /\ stamp' = stamp + 1
      /\ cache' = None /\ lease' = None /\ lock' = None
      /\ pc' = [t \in Threads |-> "out"]
      /\ scan' = [t \in Threads |-> <<>>] /\ live' = [t \in Threads |-> <<>>]
      /\ UNCHANGED <<exists, op, nextId, acked>>
  BY DEF Crash
<1>2. MaxFaults \in Nat /\ faults \in 0 .. MaxFaults /\ stamp \in Nat /\ nextId \in Nat \ {0}
      /\ file \in Seq(FileLine) /\ Len(file) \in Nat /\ Len(file) < nextId
  <2>1. file \in Seq(FileLine) BY DEF TypeInv, TypeOK, FileLine
  <2>2. Len(file) \in Nat BY <2>1
  <2> QED BY <2>1, <2>2, SessionLogAssumption DEF TypeInv, TypeOK, Fewer
<1>3. file' \in Seq(FileLine) /\ Len(file') < nextId
  <2>1. CASE \E t \in Threads : pc[t] = "sync"
    <3>1. PICK tear \in Remains : file' = SubSeq(file, 1, Len(file) - 1) \o Torn(file[Len(file)], tear)
      BY <2>1 DEF Crash
    <3>2. 0 < Len(file)
      <4>1. PICK t \in Threads : pc[t] = "sync" BY <2>1
      <4> QED BY <4>1 DEF TypeInv, AppendOK, Appends
    <3> DEFINE f == SubSeq(file, 1, Len(file) - 1)
    <3>3. file[Len(file)] \in FileLine /\ f \in Seq(FileLine) /\ Len(f) = Len(file) - 1
      <4>1. Len(file) \in 1 .. Len(file) /\ Len(file) - 1 \in Nat /\ Len(file) - 1 <= Len(file)
        BY <1>2, <3>2
      <4>2. file[Len(file)] \in FileLine BY <1>2, <4>1
      <4>3. f \in Seq(FileLine) /\ Len(f) = Len(file) - 1
        <5> DEFINE k == Len(file) - 1
        <5>1. k \in Nat /\ k < Len(file) BY <4>1
        <5>2. f = SubSeq(file, 1, k) OBVIOUS
        <5> HIDE DEF k, f
        <5>3. f \in Seq(FileLine) /\ Len(f) = k BY <1>2, <5>1, <5>2
        <5> QED BY <5>3 DEF k
      <4> QED BY <4>2, <4>3
    <3> HIDE DEF f
    <3>4. file' \in Seq(FileLine) /\ Len(file') <= Len(f) + 1
      <4>1. file' = f \o Torn(file[Len(file)], tear) BY <3>1 DEF f
      <4> QED BY <3>3, <4>1, TornTyped
    <3>5. Len(file') \in Nat BY <3>4
    <3> QED BY <1>2, <3>3, <3>4, <3>5
  <2>2. CASE ~\E t \in Threads : pc[t] = "sync"
    <3>1. file' = file BY <2>2 DEF Crash
    <3> QED BY <1>2, <3>1
  <2> QED BY <2>1, <2>2
<1>4. /\ pc' \in [Threads -> Place] /\ scan' \in [Threads -> Seq(Ids)]
      /\ live' \in [Threads -> Seq(Ids)]
      /\ faults' \in 0 .. MaxFaults /\ stamp' \in Nat
  BY <1>1, <1>2 DEF Place
<1>5. TypeOK' BY <1>1, <1>3, <1>4 DEF TypeInv, TypeOK, Place, FileLine
<1>6. Fewer' BY <1>1, <1>2, <1>3 DEF Fewer
<1>7. \A t \in Threads : AppendOK(t)' BY <1>1 DEF AppendOK, Appends
<1> QED BY <1>5, <1>6, <1>7 DEF TypeInv

LEMMA TypesStart == Init => TypeInv
<1> SUFFICES ASSUME Init PROVE TypeInv OBVIOUS
<1>1. pc \in [Threads -> Place] /\ op \in [Threads -> {"load", "append"}]
      /\ scan \in [Threads -> Seq(Ids)] /\ live \in [Threads -> Seq(Ids)]
  BY DEF Init, Place
<1>2. 1 \in 1 .. MaxEvents + 1 /\ 0 \in 0 .. MaxFaults BY SessionLogAssumption
<1>3. file \in Seq(FileLine) /\ Len(file) = 0 BY DEF Init
<1>4. TypeOK BY <1>1, <1>2, <1>3 DEF Init, TypeOK, Place, FileLine
<1>5. Fewer BY <1>3 DEF Init, Fewer
<1>6. \A t \in Threads : AppendOK(t) BY DEF Init, AppendOK, Appends
<1> QED BY <1>4, <1>5, <1>6 DEF TypeInv

LEMMA TypesStay ==
  ASSUME TypeInv, [Next]_vars
  PROVE  TypeInv'
<1>1. CASE UNCHANGED vars
  BY <1>1 DEF vars, memoryVars, TypeInv, TypeOK, Fewer, AppendOK, Appends
<1>2. CASE Quiet BY <1>1, <1>2 DEF Quiet
<1>3. CASE Crash BY <1>3, CrashTypes
<1>4. ASSUME NEW t \in Threads,
             \/ Begin(t) \/ Loaded(t) \/ EndTransaction(t) \/ BeginAppend(t)
             \/ ScanCached(t) \/ ScanMiss(t) \/ ScanRead(t) \/ ScanStore(t)
             \/ Truncate(t) \/ Write(t) \/ Acknowledge(t) \/ AppendFails(t)
      PROVE  TypeInv'
  BY <1>4, BeginTypes, LoadedTypes, BeginAppendTypes, ScanTypes, TruncateTypes, WriteTypes,
     AcknowledgeTypes, AppendFailsTypes
<1> QED BY <1>1, <1>2, <1>3, <1>4 DEF Next

(* Every field of the store and of its threads is well typed in every       *)
(* reachable state, whoever uses the session: a line never gets a number    *)
(* beyond those of the events written, and a write that fails or a crash    *)
(* before the sync always has a line of its own to damage.                  *)
THEOREM TypeCorrect == Spec => []TypeOK
<1>1. TypeInv /\ [Next]_vars => TypeInv' BY TypesStay
<1>2. TypeInv => TypeOK BY DEF TypeInv
<1> QED BY <1>1, <1>2, TypesStart, PTL DEF Spec

-----------------------------------------------------------------------------
(* The refinement of SessionPromise.  A session is in use while its         *)
(* transaction is idle or appends; it is not while it is being restored.    *)
Opened(t) == pc[t] = "idle" \/ Appends(t)

Used == {t \in Turns : Opened(t)}

View == [t \in Turns |-> IF Opened(t) THEN live[t] ELSE <<>>]

Promise == INSTANCE SessionPromise WITH
  Events <- Ids, Sessions <- Turns, entries <- Readable(file), open <- Used, known <- View

(* Only an append creates the transcript.                                   *)
Fresh == ~exists => file = <<>>

LEMMA FreshStays ==
  ASSUME IInv, Fresh, [Next]_vars
  PROVE  Fresh'
<1>1. CASE exists \/ exists'
  <2>1. exists => exists'
    BY DEF Next, Begin, Loaded, EndTransaction, BeginAppend, ScanCached, ScanMiss, ScanRead,
       ScanStore, Scanning, Truncate, Write, Acknowledge, AppendFails, Crash, Quiet, vars
  <2> QED BY <1>1, <2>1 DEF Fresh
<1>2. CASE ~exists /\ ~exists'
  <2>1. \A t \in Threads : pc[t] \notin {"truncate", "write", "sync"}
    BY <1>2 DEF IInv, ThreadOK, ScanOK
  <2>2. UNCHANGED file
    BY <1>2, <2>1 DEF Next, Begin, Loaded, EndTransaction, BeginAppend, ScanCached, ScanMiss,
       ScanRead, ScanStore, Scanning, Truncate, Write, Acknowledge, AppendFails, Crash, Quiet,
       vars
  <2> QED BY <1>2, <2>2 DEF Fresh
<1> QED BY <1>1, <1>2

(* What a step of a thread that is alone does to the session in use.        *)
LEMMA NobodyElse ==
  ASSUME NEW t \in Threads, OthersOut(t), \A u \in Threads \ {t} : pc'[u] = pc[u],
         NEW u \in Turns \ {t}
  PROVE  ~Opened(u) /\ ~Opened(u)'
<1>1. pc[u] = "out" /\ pc'[u] = "out" BY DEF OthersOut, Threads
<1> QED BY <1>1 DEF Opened, Appends

LEMMA StaysInUse ==
  ASSUME NEW t \in Threads, OthersOut(t), \A u \in Threads \ {t} : pc'[u] = pc[u],
         t \in Turns => (Opened(t)' <=> Opened(t)) /\ (Opened(t) => live'[t] = live[t])
  PROVE  UNCHANGED <<Used, View>>
<1>1. \A u \in Turns : (Opened(u)' <=> Opened(u)) /\ (Opened(u) => live'[u] = live[u])
  BY NobodyElse
<1>2. Used' = Used BY <1>1 DEF Used
<1>3. View' = View BY <1>1 DEF View
<1> QED BY <1>2, <1>3

LEMMA GivenBack ==
  ASSUME NEW t \in Threads, OthersOut(t), \A u \in Threads \ {t} : pc'[u] = pc[u],
         ~Opened(t)'
  PROVE  Promise!Shut
<1>1. \A u \in Turns : ~Opened(u)' BY NobodyElse
<1> QED BY <1>1 DEF Promise!Shut, Used, View

LEMMA TakenUp ==
  ASSUME NEW t \in Turns, OthersOut(t), \A u \in Threads \ {t} : pc'[u] = pc[u],
         ~Opened(t), Opened(t)', live'[t] = Readable(file), UNCHANGED <<file, acked>>
  PROVE  Promise!Open(t)
<1>1. \A u \in Turns \ {t} : ~Opened(u) /\ ~Opened(u)' BY NobodyElse DEF Threads
<1>2. Used = {} /\ Used' = {t} BY <1>1 DEF Used
<1>3. View' = [View EXCEPT ![t] = Readable(file)] BY <1>1 DEF View
<1> QED BY <1>2, <1>3 DEF Promise!Open

LEMMA BeginPromises ==
  ASSUME Serial, IInv, Fresh, NEW t \in Threads, Begin(t)
  PROVE  [Promise!Next]_Promise!vars
<1>1. /\ t \in Turns /\ lease = None /\ pc[t] = "out"
      /\ pc' = [pc EXCEPT ![t] = IF exists THEN "check" ELSE "idle"]
      /\ op' = [op EXCEPT ![t] = "load"] /\ live' = [live EXCEPT ![t] = <<>>]
      /\ UNCHANGED <<file, acked>>
  BY DEF Serial, Begin, LeaseFree, Move, Home
<1>2. OthersOut(t) BY <1>1, Alone
<1>3. /\ pc'[t] = (IF exists THEN "check" ELSE "idle") /\ op'[t] = "load" /\ live'[t] = <<>>
      /\ \A u \in Threads \ {t} : pc'[u] = pc[u]
  BY <1>1 DEF IInv, Types
<1>4. ~Opened(t) BY <1>1 DEF Opened, Appends
<1>5. CASE exists
  <2>1. ~Opened(t)' BY <1>3, <1>5 DEF Opened, Appends
  <2>2. UNCHANGED <<Used, View>> BY <1>2, <1>3, <1>4, <2>1, StaysInUse
  <2> QED BY <1>1, <2>2 DEF Promise!vars
<1>6. CASE ~exists
  <2>1. Reads(file, <<>>) /\ nextId \in Nat /\ Shape(file, nextId)
    BY <1>6 DEF Fresh, Reads, IInv, Types, DiskOK
  <2>2. Readable(file) = <<>> BY <2>1, ReadsReadable
  <2>3. Opened(t)' BY <1>3, <1>6 DEF Opened
  <2>4. Promise!Open(t) BY <1>1, <1>2, <1>3, <1>4, <2>2, <2>3, TakenUp
  <2> QED BY <1>1, <2>4 DEF Promise!Next
<1> QED BY <1>5, <1>6

LEMMA LoadedPromises ==
  ASSUME Serial, IInv, NEW t \in Threads, Loaded(t)
  PROVE  [Promise!Next]_Promise!vars
<1>1. /\ pc[t] = "loaded" /\ UNCHANGED <<file, acked>>
      /\ Reads(file, scan[t]) /\ nextId \in Nat /\ Shape(file, nextId)
  BY DEF Loaded, IInv, Types, DiskOK, ThreadOK, ScanOK
<1>2. OthersOut(t) BY <1>1, Alone
<1>3. ~Opened(t) BY <1>1 DEF Opened, Appends
<1>4. CASE t \in Turns /\ scan[t] # <<>>
  <2>1. pc' = [pc EXCEPT ![t] = "idle"] /\ live' = [live EXCEPT ![t] = scan[t]]
    BY <1>4 DEF Loaded, Move
  <2>2. pc'[t] = "idle" /\ live'[t] = scan[t] /\ \A u \in Threads \ {t} : pc'[u] = pc[u]
    BY <2>1 DEF IInv, Types
  <2>3. scan[t] = Readable(file) BY <1>1, ReadsReadable
  <2>4. Opened(t)' BY <2>2 DEF Opened
  <2>5. Promise!Open(t) BY <1>1, <1>2, <1>3, <1>4, <2>2, <2>3, <2>4, TakenUp
  <2> QED BY <1>4, <2>5 DEF Promise!Next
<1>5. CASE ~(t \in Turns /\ scan[t] # <<>>)
  <2>1. pc' = [pc EXCEPT ![t] = "out"] BY <1>5 DEF Loaded, Leave, Move
  <2>2. pc'[t] = "out" /\ \A u \in Threads \ {t} : pc'[u] = pc[u] BY <2>1 DEF IInv, Types
  <2>3. ~Opened(t)' BY <2>2 DEF Opened, Appends
  <2>4. UNCHANGED <<Used, View>> BY <1>2, <1>3, <2>2, <2>3, StaysInUse
  <2> QED BY <1>1, <2>4 DEF Promise!vars
<1> QED BY <1>4, <1>5

LEMMA EndPromises ==
  ASSUME Serial, IInv, NEW t \in Threads, EndTransaction(t)
  PROVE  [Promise!Next]_Promise!vars
<1>1. pc[t] = "idle" /\ pc' = [pc EXCEPT ![t] = "out"] /\ UNCHANGED <<file, acked>>
  BY DEF EndTransaction, Leave, Move
<1>2. OthersOut(t) BY <1>1, Alone
<1>3. pc'[t] = "out" /\ \A u \in Threads \ {t} : pc'[u] = pc[u] BY <1>1 DEF IInv, Types
<1>4. ~Opened(t)' BY <1>3 DEF Opened, Appends
<1>5. Promise!Shut BY <1>2, <1>3, <1>4, GivenBack
<1>6. Promise!Close BY <1>1, <1>5 DEF Promise!Close
<1> QED BY <1>6 DEF Promise!Next

LEMMA BeginAppendPromises ==
  ASSUME Serial, IInv, NEW t \in Threads, BeginAppend(t)
  PROVE  [Promise!Next]_Promise!vars
<1>1. /\ t \in Turns \cup Hosts /\ pc[t] = Home(t) /\ lock = None
      /\ pc' = [pc EXCEPT ![t] = "check"] /\ op' = [op EXCEPT ![t] = "append"]
      /\ UNCHANGED <<file, acked, live>>
  BY DEF BeginAppend, LockFree, Move
<1>2. t \in Turns => pc[t] = "idle" BY <1>1 DEF Home
<1>3. OthersOut(t) BY <1>1, <1>2, Alone
<1>4. pc'[t] = "check" /\ op'[t] = "append" /\ \A u \in Threads \ {t} : pc'[u] = pc[u]
  BY <1>1 DEF IInv, Types
<1>5. t \in Turns => Opened(t) /\ Opened(t)' BY <1>2, <1>4 DEF Opened, Appends
<1>6. UNCHANGED <<Used, View>> BY <1>1, <1>3, <1>4, <1>5, StaysInUse
<1> QED BY <1>1, <1>6 DEF Promise!vars

LEMMA ScanPromises ==
  ASSUME Serial, IInv, NEW t \in Threads,
         ScanCached(t) \/ ScanMiss(t) \/ ScanRead(t) \/ ScanStore(t)
  PROVE  [Promise!Next]_Promise!vars
<1>1. pc[t] \in {"check", "read", "store"} /\ UNCHANGED <<file, acked, live, op>>
  BY DEF ScanCached, ScanMiss, ScanRead, ScanStore, Scanning
<1>2. OthersOut(t) BY <1>1, Alone
<1>3. PICK s \in Place : /\ pc' = [pc EXCEPT ![t] = s]
                         /\ s \in {"read", "store"} \/ s = AfterScan(t)
  BY DEF ScanCached, ScanMiss, ScanRead, ScanStore, Move, AfterScan, Place
<1>4. pc'[t] = s /\ \A u \in Threads \ {t} : pc'[u] = pc[u] BY <1>3 DEF IInv, Types
<1>5. Opened(t) <=> op[t] = "append" BY <1>1 DEF Opened, Appends
<1>6. Opened(t)' <=> op[t] = "append" BY <1>1, <1>3, <1>4 DEF Opened, Appends, AfterScan
<1>7. UNCHANGED <<Used, View>> BY <1>1, <1>2, <1>4, <1>5, <1>6, StaysInUse
<1> QED BY <1>1, <1>7 DEF Promise!vars

LEMMA TruncatePromises ==
  ASSUME Serial, IInv, IInv', NEW t \in Threads, Truncate(t)
  PROVE  [Promise!Next]_Promise!vars
<1>1. /\ pc[t] = "truncate" /\ pc' = [pc EXCEPT ![t] = "write"]
      /\ UNCHANGED <<acked, live, scan>>
      /\ Reads(file, scan[t]) /\ nextId \in Nat /\ Shape(file, nextId)
  BY DEF Truncate, Move, IInv, Types, DiskOK, ThreadOK, ScanOK
<1>2. OthersOut(t) BY <1>1, Alone
<1>3. pc'[t] = "write" /\ \A u \in Threads \ {t} : pc'[u] = pc[u] BY <1>1 DEF IInv, Types
<1>4. Reads(file', scan[t]) /\ nextId' \in Nat /\ Shape(file', nextId')
  BY <1>1, <1>3 DEF IInv, Types, DiskOK, ThreadOK, ScanOK
<1>5. Readable(file) = scan[t] /\ Readable(file') = scan[t] BY <1>1, <1>4, ReadsReadable
<1>6. Opened(t) /\ Opened(t)' BY <1>1, <1>3 DEF Opened, Appends
<1>7. UNCHANGED <<Used, View>> BY <1>1, <1>2, <1>3, <1>6, StaysInUse
<1> QED BY <1>1, <1>5, <1>7 DEF Promise!vars

(* A new event is no entry of the ledger.                                   *)
LEMMA NewEvent ==
  ASSUME IInv, TypeInv, NEW t \in Threads, pc[t] = "write"
  PROVE  nextId \in Ids \ Range(Readable(file))
<1>1. nextId \in Nat \ {0} /\ nextId <= MaxEvents BY Known, Writing
<1>2. nextId \in Ids BY <1>1, Known DEF Ids
<1>3. Shape(file, nextId) /\ Reads(file, Readable(file)) BY <1>1, ScanReads DEF IInv, DiskOK
<1>4. \A id \in Range(Readable(file)) : id < nextId BY <1>1, <1>3, ReadInOrder
<1> QED BY <1>1, <1>2, <1>4

LEMMA WritePromises ==
  ASSUME Serial, IInv, IInv', TypeInv, NEW t \in Threads, Write(t)
  PROVE  [Promise!Next]_Promise!vars
<1>1. /\ pc[t] = "write" /\ pc' = [pc EXCEPT ![t] = "sync"] /\ nextId' = nextId + 1
      /\ UNCHANGED <<acked, live, scan>>
  BY DEF Write, Move
<1>2. OthersOut(t) BY <1>1, Alone
<1>3. pc'[t] = "sync" /\ \A u \in Threads \ {t} : pc'[u] = pc[u] BY <1>1 DEF IInv, Types
<1>4. nextId \in Nat /\ Readable(file) = scan[t] BY <1>1, AtWrite
<1>5. nextId' - 1 = nextId BY <1>1, <1>4
<1>6. Reads(file', Append(scan[t], nextId)) /\ nextId' \in Nat /\ Shape(file', nextId')
  BY <1>1, <1>3, <1>5 DEF IInv, Types, DiskOK, ThreadOK, ScanOK
<1>7. Readable(file') = Append(Readable(file), nextId) BY <1>4, <1>6, ReadsReadable
<1>8. Opened(t) /\ Opened(t)' BY <1>1, <1>3 DEF Opened, Appends
<1>9. UNCHANGED <<Used, View>> BY <1>1, <1>2, <1>3, <1>8, StaysInUse
<1>10. nextId \in Ids \ Range(Readable(file)) BY <1>1, NewEvent
<1>11. Promise!Enter(nextId) BY <1>1, <1>7, <1>9, <1>10 DEF Promise!Enter, Promise!Range, Range
<1> QED BY <1>10, <1>11 DEF Promise!Next

(* What is last in a sequence, and what is left without it.                 *)
LEMMA LastOf ==
  ASSUME NEW s \in Seq(Nat), NEW n \in Nat
  PROVE  LET r == Append(s, n)
         IN  r # <<>> /\ r[Len(r)] = n /\ SubSeq(r, 1, Len(r) - 1) = s
<1> DEFINE r == Append(s, n)
<1>1. r \in Seq(Nat) /\ Len(r) = Len(s) + 1 /\ Len(s) \in Nat /\ r[Len(s) + 1] = n
  OBVIOUS
<1>2. r # <<>> BY <1>1
<1>3. Len(r) - 1 = Len(s) BY <1>1
<1>4. SubSeq(r, 1, Len(s)) = s OBVIOUS
<1> QED BY <1>1, <1>2, <1>3, <1>4

LEMMA AcknowledgePromises ==
  ASSUME Serial, IInv, NEW t \in Threads, Acknowledge(t)
  PROVE  [Promise!Next]_Promise!vars
<1> DEFINE id == nextId - 1
<1>1. /\ pc[t] = "sync" /\ pc' = [pc EXCEPT ![t] = Home(t)]
      /\ acked' = acked \cup {id}
      /\ live' = IF t \in Turns THEN [live EXCEPT ![t] = Append(@, id)] ELSE live
      /\ UNCHANGED file
  BY DEF Acknowledge, Move
<1>2. id \in Nat /\ scan[t] \in Seq(Nat) /\ Readable(file) = Append(scan[t], id)
  BY <1>1, AtSync
<1> HIDE DEF id
<1>3. Readable(file) # <<>> /\ Promise!LastEntry = id
  BY <1>2, LastOf DEF Promise!LastEntry
<1>4. OthersOut(t) BY <1>1, Alone
<1>5. pc'[t] = Home(t) /\ \A u \in Threads \ {t} : pc'[u] = pc[u] BY <1>1 DEF IInv, Types
<1>6. t \in Turns => Opened(t) /\ Opened(t)' /\ live'[t] = Append(live[t], id)
  BY <1>1, <1>5 DEF Opened, Appends, Home, IInv, Types
<1>7. \A u \in Turns \ {t} : ~Opened(u) /\ ~Opened(u)' BY <1>4, <1>5, NobodyElse
<1>8. Used' = Used BY <1>6, <1>7 DEF Used
<1>9. View' = [s \in Turns |-> IF s \in Used THEN Append(View[s], id) ELSE <<>>]
  <2> SUFFICES ASSUME NEW s \in Turns
               PROVE  (IF Opened(s)' THEN live'[s] ELSE <<>>)
                        = IF s \in Used THEN Append(View[s], id) ELSE <<>>
    BY DEF View
  <2> QED BY <1>6, <1>7 DEF Used, View
<1>10. Promise!Acknowledge BY <1>1, <1>3, <1>8, <1>9 DEF Promise!Acknowledge
<1> QED BY <1>10 DEF Promise!Next

(* Of a torn line either the event is read or nothing.                      *)
LEMMA TornEntries ==
  ASSUME Serial, NEW n \in Nat, NEW f, Shape(f, n), NEW s, Reads(f, s), Len(s) = Len(f),
         NEW l \in Line, l.whole, l.nl, l.seq = Len(f) + 1, l.id = n,
         NEW tear \in Remains
  PROVE  \/ Readable(f \o Torn(l, tear)) = s
         \/ Readable(f \o Torn(l, tear)) = Append(s, n)
<1>1. tear \in {"nothing", "part", "all"} BY SessionLogAssumption DEF Serial, Remains
<1>2. /\ Shape(f \o Torn(l, tear), n + 1)
      /\ \/ Reads(f \o Torn(l, tear), s)
         \/ Reads(f \o Torn(l, tear), Append(s, n))
  BY <1>1, AddTorn
<1>3. n + 1 \in Nat OBVIOUS
<1> QED BY <1>2, <1>3, ReadsReadable

LEMMA AppendFailsPromises ==
  ASSUME Serial, IInv, TypeInv, NEW t \in Threads, AppendFails(t)
  PROVE  [Promise!Next]_Promise!vars
<1>1. pc[t] = "write" /\ UNCHANGED <<live, acked>> BY DEF AppendFails
<1>2. PICK tear \in Remains : file' = file \o Torn(NewLine(t), tear) BY DEF AppendFails
<1>3. PICK s \in {Home(t), "out"} : pc' = [pc EXCEPT ![t] = s] BY DEF AppendFails, Leave, Move
<1>4. OthersOut(t) BY <1>1, Alone
<1>5. pc'[t] = s /\ \A u \in Threads \ {t} : pc'[u] = pc[u] BY <1>3 DEF IInv, Types
<1>6. UNCHANGED <<Used, View>> \/ Promise!Shut
  <2>1. CASE s = "out"
    <3>1. ~Opened(t)' BY <1>5, <2>1 DEF Opened, Appends
    <3> QED BY <1>4, <1>5, <3>1, GivenBack
  <2>2. CASE s # "out"
    <3>1. Opened(t) /\ Opened(t)' BY <1>1, <1>5, <2>2 DEF Opened, Appends, Home
    <3> QED BY <1>1, <1>4, <1>5, <3>1, StaysInUse
  <2> QED BY <2>1, <2>2
<1>7. \/ Readable(file') = Readable(file)
      \/ Readable(file') = Append(Readable(file), nextId)
  BY <1>1, <1>2, AtWrite, TornEntries
<1>8. CASE Readable(file') = Readable(file)
  <2>1. UNCHANGED Promise!vars \/ Promise!Close
    BY <1>1, <1>6, <1>8 DEF Promise!vars, Promise!Close
  <2> QED BY <2>1 DEF Promise!Next
<1>9. CASE Readable(file') = Append(Readable(file), nextId)
  <2>1. nextId \in Ids \ Range(Readable(file)) BY <1>1, NewEvent
  <2>2. Promise!Enter(nextId) BY <1>1, <1>6, <1>9, <2>1 DEF Promise!Enter, Promise!Range, Range
  <2> QED BY <2>1, <2>2 DEF Promise!Next
<1> QED BY <1>7, <1>8, <1>9

LEMMA CrashPromises ==
  ASSUME Serial, IInv, Crash
  PROVE  [Promise!Next]_Promise!vars
<1>1. pc' = [t \in Threads |-> "out"] /\ UNCHANGED acked BY DEF Crash
<1>2. Promise!Shut
  <2>1. \A t \in Turns : ~Opened(t)' BY <1>1 DEF Opened, Appends, Threads
  <2> QED BY <2>1 DEF Promise!Shut, Used, View
<1>3. CASE ~\E t \in Threads : pc[t] = "sync"
  <2>1. UNCHANGED file BY <1>3 DEF Crash
  <2>2. Promise!Close BY <1>1, <1>2, <2>1 DEF Promise!Close
  <2> QED BY <2>2 DEF Promise!Next
<1>4. ASSUME NEW t \in Threads, pc[t] = "sync"
      PROVE  [Promise!Next]_Promise!vars
  <2> DEFINE id == nextId - 1
             s == scan[t]
             g == SubSeq(file, 1, Len(file) - 1)
             l == file[Len(file)]
  <2>1. /\ id \in Nat /\ nextId = id + 1 /\ s \in Seq(Nat)
        /\ Reads(file, Append(s, id)) /\ Len(file) = Len(s) + 1
        /\ Shape(file, id + 1) /\ acked \subseteq Range(s)
        /\ Readable(file) = Append(s, id) /\ \A i \in Range(s) : i < id
    BY <1>4, AtSync
  <2>2. Len(s) \in Nat /\ Len(file) - 1 = Len(s) BY <2>1
  <2>3. PICK tear \in Remains : file' = g \o Torn(l, tear) BY <1>4 DEF Crash
  <2> HIDE DEF id, s
  <2>4. /\ Shape(g, id) /\ Reads(g, s) /\ Len(s) = Len(g)
        /\ l \in Line /\ l.whole /\ l.nl /\ l.seq = Len(g) + 1 /\ l.id = id
    BY <2>1, <2>2, LastLine
  <2> HIDE DEF g, l
  <2>5. Readable(file') = s \/ Readable(file') = Append(s, id)
    BY <2>1, <2>3, <2>4, TornEntries
  <2>6. CASE Readable(file') = Append(s, id)
    <3>1. Promise!Close BY <1>1, <1>2, <2>1, <2>6 DEF Promise!Close
    <3> QED BY <3>1 DEF Promise!Next
  <2>7. CASE Readable(file') = s
    <3> DEFINE r == Append(s, id)
    <3>1. r # <<>> /\ r[Len(r)] = id /\ SubSeq(r, 1, Len(r) - 1) = s BY <2>1, LastOf
    <3>2. id \notin acked BY <2>1
    <3> HIDE DEF r
    <3>3. Readable(file) = r BY <2>1 DEF r
    <3>4. Promise!LastEntry = id BY <3>1, <3>3 DEF Promise!LastEntry
    <3>5. Promise!Withdraw BY <1>1, <1>2, <2>7, <3>1, <3>2, <3>3, <3>4 DEF Promise!Withdraw
    <3> QED BY <3>5 DEF Promise!Next
  <2> QED BY <2>5, <2>6, <2>7
<1> QED BY <1>3, <1>4

LEMMA StutterPromises ==
  ASSUME UNCHANGED vars
  PROVE  UNCHANGED Promise!vars
<1>1. UNCHANGED <<file, acked, pc, op, live>> BY DEF vars, memoryVars
<1>2. \A t \in Turns : Opened(t)' <=> Opened(t) BY <1>1 DEF Opened, Appends
<1>3. UNCHANGED <<Used, View>> BY <1>1, <1>2 DEF Used, View
<1> QED BY <1>1, <1>3 DEF Promise!vars

LEMMA PromiseStarts ==
  ASSUME Init
  PROVE  Promise!Init
<1>1. file = <<>> /\ acked = {} /\ pc = [t \in Threads |-> "out"] BY DEF Init
<1>2. IInv BY InitIInv
<1>3. Reads(file, <<>>) /\ nextId \in Nat /\ Shape(file, nextId)
  BY <1>1, <1>2 DEF Reads, IInv, Types, DiskOK
<1>4. Readable(file) = <<>> BY <1>3, ReadsReadable
<1>5. \A t \in Turns : ~Opened(t) BY <1>1 DEF Opened, Appends, Threads
<1> QED BY <1>1, <1>4, <1>5 DEF Promise!Init, Used, View

(* The ledger keeps the promise of SessionPromise: whoever uses the session *)
(* one after the other sees one log, which only grows but for a last event  *)
(* that no append_event returned for; a transaction is opened on all of it  *)
(* and learns its own acknowledged events, across failed appends, damaged   *)
(* tails, stale caches, crashes and restarts.                               *)
THEOREM ImplementsPromise ==
  ASSUME Serial
  PROVE  Spec => Promise!Spec
<1> DEFINE I == IInv /\ TypeInv /\ Fresh
<1>1. Init => I BY InitIInv, TypesStart DEF Init, Fresh
<1>2. I /\ [Next]_vars => I' BY NextKeepsIInv, TypesStay, FreshStays
<1>3. I /\ I' /\ [Next]_vars => [Promise!Next]_Promise!vars
  <2> SUFFICES ASSUME I, I', [Next]_vars PROVE [Promise!Next]_Promise!vars OBVIOUS
  <2>1. CASE Quiet \/ UNCHANGED vars BY <2>1, StutterPromises DEF Quiet
  <2>2. CASE Crash BY <2>2, CrashPromises
  <2>3. ASSUME NEW t \in Threads,
               \/ Begin(t) \/ Loaded(t) \/ EndTransaction(t)
               \/ BeginAppend(t)
               \/ ScanCached(t) \/ ScanMiss(t) \/ ScanRead(t) \/ ScanStore(t)
               \/ Truncate(t) \/ Write(t) \/ Acknowledge(t)
               \/ AppendFails(t)
        PROVE  [Promise!Next]_Promise!vars
    BY <2>3, BeginPromises, LoadedPromises, EndPromises, BeginAppendPromises, ScanPromises,
       TruncatePromises, WritePromises, AcknowledgePromises, AppendFailsPromises
  <2> QED BY <2>1, <2>2, <2>3 DEF Next
<1>4. Init => Promise!Init BY PromiseStarts
<1> HIDE DEF I
<1> QED BY <1>1, <1>2, <1>3, <1>4, PTL DEF Spec, Promise!Spec
=============================================================================

----------------------- MODULE SessionPersistenceProofs -----------------------
(***************************************************************************)
(* Proofs about the persistence queue, for every number of saves, of       *)
(* waiting flushes and of mishaps.  Every method of the queue has a lemma  *)
(* that says what it keeps; the actions cite the lemmas of the methods     *)
(* they call.  The second half follows the one write in flight, and says   *)
(* what the two files hold.                                                *)
(***************************************************************************)
EXTENDS SessionPersistence, FiniteSetTheorems, TLAPS

Entries == [ver : Versions, meta : MetasOrNone, armed : BOOLEAN]

Queues ==
  [pending : Entries, timers : Nat, signature : MetasOrNone, writes : SUBSET Writes,
   inProgress : Nat, answered : SUBSET (Versions \ {0})]

(* The queue's bookkeeping: writes are told apart by their ids, and the one *)
(* in progress, like any write that is waited for, is one a flush made.     *)
Ledger(q) ==
  /\ q \in Queues
  /\ IsFiniteSet(q.writes)
  /\ \A v, w \in q.writes : v.id = w.id => v = w
  /\ q.inProgress = 0 \/ \E w \in q.writes : w.id = q.inProgress /\ w.answers > 0
  /\ \A w \in q.writes : w.waiters # <<>> => w.answers > 0
  /\ q.pending.ver > 0 => q.pending.meta \in Metas

(* The timer of an entry is one of those that run. *)
Tidy(q) == Ledger(q) /\ (q.pending.armed => q.timers > 0 /\ q.pending.ver > 0)

Waited(q) == \E w \in q.writes : w.waiters # <<>>

Watched(q) == q.pending.ver > 0 => q.pending.armed \/ Waited(q)

(* No two flushes wait for the same write; every write a flush made is the  *)
(* one in progress.                                                         *)
Single(q)  == \A w \in q.writes : Len(w.waiters) <= 1
Tracked(q) == \A w \in q.writes : w.answers > 0 => w.id = q.inProgress

-----------------------------------------------------------------------------
(* Methods of the queue. *)

LEMMA VersionsAreNat == Versions \in SUBSET Nat /\ 0 \in Versions
BY PersistenceAssumption DEF Versions

(* A queue with another entry and another number of timers. *)
WithEntry(q, p, t) == [q EXCEPT !.pending = p, !.timers = t]

LEMMA OtherEntry ==
  ASSUME NEW q \in Queues, NEW p \in Entries, NEW t \in Nat
  PROVE  /\ WithEntry(q, p, t) \in Queues
         /\ WithEntry(q, p, t).pending = p
         /\ WithEntry(q, p, t).timers = t
         /\ WithEntry(q, p, t).signature = q.signature
         /\ WithEntry(q, p, t).writes = q.writes
         /\ WithEntry(q, p, t).inProgress = q.inProgress
<1>1. WithEntry(q, p, t) \in Queues
  BY DEF Queues, WithEntry
<1>2. QED
  BY <1>1 DEF Queues, WithEntry

LEMMA OtherEntryTidy ==
  ASSUME NEW q, Tidy(q), NEW p \in Entries, NEW t \in Nat,
         p.armed => t > 0 /\ p.ver > 0,
         p.ver > 0 => p.meta \in Metas
  PROVE  Tidy(WithEntry(q, p, t))
<1>1. q \in Queues
  BY DEF Tidy, Ledger
<1>2. QED
  BY <1>1, OtherEntry DEF Tidy, Ledger

LEMMA EntryVersion ==
  ASSUME NEW q \in Queues
  PROVE  q.pending.ver \in Nat /\ q.pending.ver \in Versions
<1>1. q.pending \in Entries
  BY DEF Queues
<1>2. q.pending.ver \in Versions
  BY <1>1 DEF Entries
<1>3. QED
  BY <1>2, VersionsAreNat

LEMMA ClearTimerTidy ==
  ASSUME NEW q, Tidy(q)
  PROVE  /\ Tidy(ClearTimer(q))
         /\ ~ClearTimer(q).pending.armed
         /\ ClearTimer(q).pending.ver = q.pending.ver
         /\ ClearTimer(q).writes = q.writes
         /\ ClearTimer(q).inProgress = q.inProgress
<1>1. CASE q.pending.armed
  <2>1. /\ q \in Queues /\ q.pending \in Entries
        /\ q.timers \in Nat /\ q.timers > 0
    BY <1>1 DEF Tidy, Ledger, Queues
  <2> DEFINE p == [q.pending EXCEPT !.armed = FALSE]
  <2>2. ClearTimer(q) = WithEntry(q, p, q.timers - 1)
    BY <1>1, <2>1 DEF ClearTimer, WithEntry, Queues
  <2>3. p \in Entries /\ p.ver = q.pending.ver /\ p.meta = q.pending.meta /\ p.armed = FALSE
    BY <2>1 DEF Entries
  <2>4. q.timers - 1 \in Nat
    BY <2>1
  <2>5. p.ver > 0 => p.meta \in Metas
    BY <2>3 DEF Tidy, Ledger
  <2> HIDE DEF p
  <2>6. Tidy(WithEntry(q, p, q.timers - 1))
    BY <2>3, <2>4, <2>5, OtherEntryTidy
  <2> DEFINE c == WithEntry(q, p, q.timers - 1)
  <2>7. c.pending = p /\ c.writes = q.writes /\ c.inProgress = q.inProgress
    BY <2>1, <2>3, <2>4, OtherEntry, Zenon
  <2> HIDE DEF c
  <2>8. ~c.pending.armed /\ c.pending.ver = q.pending.ver
    BY <2>3, <2>7
  <2>9. ClearTimer(q) = c
    BY <2>2 DEF c
  <2>10. Tidy(c)
    BY <2>6 DEF c
  <2>11. QED
    BY <2>7, <2>8, <2>9, <2>10
<1>2. CASE ~q.pending.armed
  BY <1>2 DEF ClearTimer
<1>3. QED
  BY <1>1, <1>2

LEMMA EnqueueTidy ==
  ASSUME NEW q, Tidy(q), NEW s,
         s.ver \in Versions, s.ver > 0, s.meta \in Metas
  PROVE  /\ Tidy(Enqueue(q, s))
         /\ Enqueue(q, s).pending.armed
         /\ Enqueue(q, s).pending.ver = s.ver
         /\ Enqueue(q, s).writes = q.writes
         /\ Enqueue(q, s).inProgress = q.inProgress
<1> DEFINE c == ClearTimer(q)
           p == [ver |-> s.ver, meta |-> s.meta, armed |-> TRUE]
<1>1. Tidy(c) /\ c.writes = q.writes /\ c.inProgress = q.inProgress
  BY ClearTimerTidy
<1>2. p \in Entries /\ p.ver > 0 /\ p.meta \in Metas /\ p.armed /\ p.ver = s.ver
  BY DEF Entries, MetasOrNone
<1> HIDE DEF c
<1>3. c \in Queues /\ c.timers \in Nat
  BY <1>1 DEF Tidy, Ledger, Queues
<1>4. Enqueue(q, s) = WithEntry(c, p, c.timers + 1)
  BY <1>3 DEF Enqueue, WithEntry, Queues, c
<1>5. c.timers + 1 \in Nat /\ c.timers + 1 > 0
  BY <1>3
<1> HIDE DEF p
<1>6. Tidy(WithEntry(c, p, c.timers + 1))
  BY <1>1, <1>2, <1>5, OtherEntryTidy
<1>7. QED
  BY <1>1, <1>2, <1>3, <1>4, <1>5, <1>6, OtherEntry

LEMMA CancelTidy ==
  ASSUME NEW q, Tidy(q)
  PROVE  /\ Tidy(CancelEntry(q))
         /\ CancelEntry(q).pending = NoEntry
         /\ CancelEntry(q).writes = q.writes
         /\ CancelEntry(q).inProgress = q.inProgress
<1> DEFINE c == ClearTimer(q)
           e == [c EXCEPT !.pending = NoEntry, !.signature = NoMeta]
<1>1. Tidy(c) /\ c.writes = q.writes /\ c.inProgress = q.inProgress
  BY ClearTimerTidy
<1>2. /\ NoEntry \in Entries /\ NoMeta \in MetasOrNone
      /\ NoEntry.armed = FALSE /\ NoEntry.ver = 0
  BY VersionsAreNat DEF Entries, MetasOrNone, NoEntry
<1>3. CancelEntry(q) = e
  BY DEF CancelEntry
<1> HIDE DEF c
<1>4. c \in Queues
  BY <1>1 DEF Tidy, Ledger
<1>5. e \in Queues
  BY <1>2, <1>4 DEF Queues
<1>6. e.pending = NoEntry /\ e.writes = c.writes /\ e.inProgress = c.inProgress
  BY <1>4 DEF Queues
<1> HIDE DEF e
<1>7. Tidy(e)
  BY <1>1, <1>2, <1>5, <1>6 DEF Tidy, Ledger
<1>8. QED
  BY <1>1, <1>3, <1>6, <1>7

-----------------------------------------------------------------------------
(* Starting a write. *)

(* A new write's id is nobody's: there are more candidates than writes. *)
LEMMA NewIdFresh ==
  ASSUME NEW q, Ledger(q)
  PROVE  NewId(q) \in Nat \ {0} /\ \A w \in q.writes : w.id # NewId(q)
<1> DEFINE k == Cardinality(q.writes)
           f == [w \in q.writes |-> w.id]
           ids == {f[w] : w \in q.writes}
<1>1. IsFiniteSet(q.writes) /\ k \in Nat
  BY FS_CardinalityType DEF Ledger
<1>2. f \in Surjection(q.writes, ids)
  BY DEF Surjection
<1>3. IsFiniteSet(ids) /\ Cardinality(ids) <= k
  <2> HIDE DEF f, ids
  <2> QED
    BY <1>1, <1>2, FS_Surjection
<1>4. Cardinality(ids) \in Nat
  BY <1>3, FS_CardinalityType
<1>5. IsFiniteSet(1 .. k + 1) /\ Cardinality(1 .. k + 1) = k + 1
  BY <1>1, FS_Interval
<1>6. \E i \in 1 .. k + 1 : i \notin ids
  <2>1. SUFFICES ASSUME 1 .. k + 1 \subseteq ids PROVE FALSE
    OBVIOUS
  <2>2. Cardinality(1 .. k + 1) <= Cardinality(ids)
    <3> HIDE DEF k, ids
    <3> QED
      BY <1>3, <2>1, FS_Subset
  <2>3. QED
    BY <1>1, <1>3, <1>4, <1>5, <2>2
<1>7. \E i \in 1 .. k + 1 : \A w \in q.writes : w.id # i
  BY <1>6
<1>8. NewId(q) \in 1 .. k + 1 /\ \A w \in q.writes : w.id # NewId(q)
  BY <1>7 DEF NewId
<1>9. QED
  BY <1>1, <1>8

LEMMA HeaderIsMeta ==
  ASSUME NEW q, Ledger(q), q.pending.ver > 0, NEW d, d.main.meta \in MetasOrNone
  PROVE  HeaderToWrite(q, d) \in Metas
BY DEF HeaderToWrite, MetasOrNone, Ledger

(* A queue in which write w takes the entry's place. *)
WithWrite(q, w, h, i) ==
  [q EXCEPT !.pending = NoEntry, !.signature = h, !.writes = @ \cup {w}, !.inProgress = i]

LEMMA OneMoreWrite ==
  ASSUME NEW q \in Queues, NEW w \in Writes, NEW h \in MetasOrNone, NEW i \in Nat
  PROVE  /\ WithWrite(q, w, h, i) \in Queues
         /\ WithWrite(q, w, h, i).pending = NoEntry
         /\ WithWrite(q, w, h, i).writes = q.writes \cup {w}
         /\ WithWrite(q, w, h, i).inProgress = i
<1>1. NoEntry \in Entries
  BY VersionsAreNat DEF Entries, MetasOrNone, NoEntry
<1>2. q.writes \cup {w} \in SUBSET Writes
  BY DEF Queues
<1> DEFINE ws == q.writes \cup {w}
<1>3. WithWrite(q, w, h, i) =
        [q EXCEPT !.pending = NoEntry, !.signature = h, !.writes = ws, !.inProgress = i]
  BY DEF WithWrite, Queues
<1>4. ws \in SUBSET Writes
  BY <1>2
<1> HIDE DEF ws
<1>5. WithWrite(q, w, h, i) \in Queues
  BY <1>1, <1>3, <1>4 DEF Queues
<1>6. /\ WithWrite(q, w, h, i).pending = NoEntry
      /\ WithWrite(q, w, h, i).writes = ws
      /\ WithWrite(q, w, h, i).inProgress = i
  BY <1>3 DEF Queues
<1>7. QED
  BY <1>5, <1>6 DEF ws

(* What a write that starts is: it answers for version a, nobody waits for  *)
(* it yet, and it is in progress if a flush made it.                        *)
LEMMA StartWriteTidy ==
  ASSUME NEW q, Ledger(q), q.pending.ver > 0,
         NEW d, d.main.meta \in MetasOrNone, NEW a \in Versions
  PROVE  /\ Tidy(StartWrite(q, d, a))
         /\ StartWrite(q, d, a).pending = NoEntry
         /\ \E w : /\ StartWrite(q, d, a).writes = q.writes \cup {w}
                   /\ StartWrite(q, d, a).inProgress = IF a = 0 THEN q.inProgress ELSE w.id
                   /\ w.answers = a
                   /\ w.waiters = <<>>
<1> DEFINE h == HeaderToWrite(q, d)
           w == [id |-> NewId(q), step |-> "open", ver |-> q.pending.ver, meta |-> h,
                 onto |-> "nothing", answers |-> a, waiters |-> <<>>]
           i == IF a = 0 THEN q.inProgress ELSE w.id
           n == WithWrite(q, w, h, i)
<1>1. h \in Metas /\ h \in MetasOrNone
  BY HeaderIsMeta DEF MetasOrNone
<1>2. q \in Queues /\ q.pending \in Entries /\ q.inProgress \in Nat
  BY DEF Ledger, Queues
<1>3. NewId(q) \in Nat \ {0} /\ \A v \in q.writes : v.id # NewId(q)
  BY NewIdFresh
<1>4. q.pending.ver \in Versions \ {0}
  BY <1>2, VersionsAreNat DEF Entries
<1>5. <<>> \in Seq(Versions \ {0})
  OBVIOUS
<1>6. w \in Writes
  <2> HIDE DEF h
  <2> QED
    BY <1>1, <1>3, <1>4, <1>5 DEF Writes
<1>7. w.id = NewId(q) /\ w.answers = a /\ w.waiters = <<>>
  OBVIOUS
<1>8. StartWrite(q, d, a) = n
  BY <1>2 DEF StartWrite, WithWrite, Queues
<1> HIDE DEF h, w
<1>9. i \in Nat
  BY <1>2, <1>3, <1>7
<1> HIDE DEF i
<1>10. /\ n \in Queues /\ n.pending = NoEntry
       /\ n.writes = q.writes \cup {w} /\ n.inProgress = i
  <2>1. q \in Queues
    BY <1>2
  <2>2. w \in Writes /\ h \in MetasOrNone /\ i \in Nat
    BY <1>1, <1>6, <1>9
  <2>3. /\ WithWrite(q, w, h, i) \in Queues
        /\ WithWrite(q, w, h, i).pending = NoEntry
        /\ WithWrite(q, w, h, i).writes = q.writes \cup {w}
        /\ WithWrite(q, w, h, i).inProgress = i
    BY <2>1, <2>2, OneMoreWrite
  <2>4. QED
    BY <2>3
<1> HIDE DEF n
<1>11. IsFiniteSet(n.writes)
  BY <1>10, FS_AddElement DEF Ledger
<1>12. \A v, u \in n.writes : v.id = u.id => v = u
  BY <1>3, <1>7, <1>10 DEF Ledger
<1>13. n.inProgress = 0 \/ \E v \in n.writes : v.id = n.inProgress /\ v.answers > 0
  <2>1. CASE a = 0
    BY <1>10, <2>1 DEF Ledger, i
  <2>2. CASE a # 0
    <3>1. a > 0 /\ n.inProgress = w.id
      BY <1>10, <2>2, VersionsAreNat DEF i
    <3>2. QED
      BY <1>7, <1>10, <3>1
  <2>3. QED
    BY <2>1, <2>2
<1>14. n.pending.ver = 0 /\ n.pending.armed = FALSE
  BY <1>10 DEF NoEntry
<1>15. Tidy(n)
  <2>1. \A v \in n.writes : v.waiters # <<>> => v.answers > 0
    BY <1>7, <1>10 DEF Ledger
  <2>2. QED
    BY <1>10, <1>11, <1>12, <1>13, <1>14, <2>1 DEF Tidy, Ledger
<1>16. QED
  BY <1>7, <1>8, <1>10, <1>15 DEF i


(* What a write that starts leaves of the other writes' bookkeeping. *)
LEMMA StartWriteTracked ==
  ASSUME NEW q, Ledger(q), q.pending.ver > 0,
         NEW d, d.main.meta \in MetasOrNone, NEW a \in Versions,
         Tracked(q), a = 0 \/ q.inProgress = 0
  PROVE  Tracked(StartWrite(q, d, a))
<1>1. PICK w : /\ StartWrite(q, d, a).writes = q.writes \cup {w}
               /\ StartWrite(q, d, a).inProgress = IF a = 0 THEN q.inProgress ELSE w.id
               /\ w.answers = a
  BY StartWriteTidy
<1>2. \A v \in q.writes : v.id \in Nat \ {0} /\ v.answers \in Nat
  BY VersionsAreNat DEF Ledger, Queues, Writes
<1>3. a \in Nat
  BY VersionsAreNat
<1>4. CASE a = 0
  BY <1>1, <1>4 DEF Tracked
<1>5. CASE a # 0 /\ q.inProgress = 0
  <2>1. \A v \in q.writes : ~(v.answers > 0)
    BY <1>2, <1>5 DEF Tracked
  <2>2. QED
    BY <1>1, <1>5, <2>1 DEF Tracked
<1>6. QED
  BY <1>4, <1>5

LEMMA TimerFiredTidy ==
  ASSUME NEW q, Tidy(q), q.timers > 0, NEW d, d.main.meta \in MetasOrNone
  PROVE  /\ Tidy(TimerFired(q, d))
         /\ TimerFired(q, d).pending.ver = 0
         /\ Tracked(q) => Tracked(TimerFired(q, d))
<1> DEFINE f == WithEntry(q, q.pending, q.timers - 1)
<1>1. q \in Queues /\ q.pending \in Entries /\ q.timers - 1 \in Nat
  BY DEF Tidy, Ledger, Queues
<1>2. /\ f \in Queues /\ f.pending = q.pending
      /\ f.writes = q.writes /\ f.inProgress = q.inProgress
  BY <1>1, OtherEntry
<1>3. [q EXCEPT !.timers = @ - 1] = f
  BY <1>1 DEF WithEntry, Queues
<1>4. TimerFired(q, d) = IF q.pending.ver = 0 THEN f ELSE StartWrite(f, d, 0)
  BY <1>3 DEF TimerFired
<1> HIDE DEF f
<1>5. Ledger(f)
  BY <1>2 DEF Tidy, Ledger
<1>6. Tracked(q) => Tracked(f)
  BY <1>2 DEF Tracked
<1>7. CASE q.pending.ver = 0
  <2>1. Tidy(f)
    BY <1>2, <1>5, <1>7 DEF Tidy
  <2>2. QED
    BY <1>2, <1>4, <1>6, <1>7, <2>1
<1>8. CASE q.pending.ver # 0
  <2>1. f.pending.ver > 0
    BY <1>1, <1>2, <1>8, EntryVersion
  <2>2. /\ Tidy(StartWrite(f, d, 0))
        /\ StartWrite(f, d, 0).pending = NoEntry
    BY <1>5, <2>1, VersionsAreNat, StartWriteTidy
  <2>3. Tracked(f) => Tracked(StartWrite(f, d, 0))
    BY <1>5, <2>1, VersionsAreNat, StartWriteTracked
  <2>4. QED
    BY <1>4, <1>6, <1>8, <2>2, <2>3 DEF NoEntry
<1>9. QED
  BY <1>7, <1>8


-----------------------------------------------------------------------------
(* flush, up to its first await. *)

(* A version joins those that wait for the write in progress. *)
Joined(w, i, v) == IF w.id = i THEN [w EXCEPT !.waiters = Append(@, v)] ELSE w

LEMMA JoinedIsWrite ==
  ASSUME NEW w \in Writes, NEW i, NEW v \in Versions \ {0}
  PROVE  /\ Joined(w, i, v) \in Writes
         /\ Joined(w, i, v).id = w.id
         /\ Joined(w, i, v).answers = w.answers
         /\ w.id = i => Joined(w, i, v).waiters # <<>>
         /\ w.waiters # <<>> => Joined(w, i, v).waiters # <<>>
<1> DEFINE s == Append(w.waiters, v)
<1>1. w.waiters \in Seq(Versions \ {0})
  BY DEF Writes
<1>2. s \in Seq(Versions \ {0}) /\ s # <<>>
  BY <1>1
<1>3. CASE w.id = i
  <2>1. Joined(w, i, v) = [w EXCEPT !.waiters = s]
    BY <1>3 DEF Joined
  <2> HIDE DEF s
  <2>2. [w EXCEPT !.waiters = s] \in Writes
    BY <1>2 DEF Writes
  <2>3. /\ [w EXCEPT !.waiters = s].id = w.id
        /\ [w EXCEPT !.waiters = s].answers = w.answers
        /\ [w EXCEPT !.waiters = s].waiters = s
    BY DEF Writes
  <2>4. QED
    BY <1>2, <2>1, <2>2, <2>3
<1>4. CASE w.id # i
  BY <1>4 DEF Joined
<1>5. QED
  BY <1>3, <1>4

(* A queue with other writes. *)
WithWrites(q, ws) == [q EXCEPT !.writes = ws]

LEMMA OtherWrites ==
  ASSUME NEW q \in Queues, NEW ws \in SUBSET Writes
  PROVE  /\ WithWrites(q, ws) \in Queues
         /\ WithWrites(q, ws).pending = q.pending
         /\ WithWrites(q, ws).timers = q.timers
         /\ WithWrites(q, ws).writes = ws
         /\ WithWrites(q, ws).inProgress = q.inProgress
         /\ WithWrites(q, ws).answered = q.answered
<1>1. WithWrites(q, ws) \in Queues
  BY DEF Queues, WithWrites
<1>2. QED
  BY <1>1 DEF Queues, WithWrites

LEMMA ImageIsFinite ==
  ASSUME NEW S, IsFiniteSet(S), NEW f, f = [x \in S |-> f[x]]
  PROVE  IsFiniteSet({f[x] : x \in S})
<1> DEFINE T == {f[x] : x \in S}
<1>1. f \in Surjection(S, T)
  BY DEF Surjection
<1> HIDE DEF T
<1>2. IsFiniteSet(T)
  BY <1>1, FS_Surjection
<1>3. QED
  BY <1>2 DEF T

(* The writes, each replaced by one that has its id and answers for the     *)
(* same version, and still has somebody waiting if it had.                  *)
LEMMA ReplacedWrites ==
  ASSUME NEW q, Ledger(q), NEW f,
         f \in [q.writes -> Writes],
         \A w \in q.writes : /\ f[w].id = w.id /\ f[w].answers = w.answers
                             /\ f[w].waiters # <<>> => w.answers > 0
  PROVE  LET n == WithWrites(q, {f[w] : w \in q.writes})
         IN  /\ Ledger(n)
             /\ Tracked(q) => Tracked(n)
<1> DEFINE ws == {f[w] : w \in q.writes}
           n == WithWrites(q, ws)
<1>1. q \in Queues
  BY DEF Ledger
<1>2. ws \in SUBSET Writes
  OBVIOUS
<1>3. IsFiniteSet(ws)
  <2>1. IsFiniteSet(q.writes) /\ f = [x \in q.writes |-> f[x]]
    BY DEF Ledger
  <2>2. QED
    BY <2>1, ImageIsFinite
<1>4. \A v, w \in ws : v.id = w.id => v = w
  BY DEF Ledger
<1>5. \A w \in q.writes : f[w] \in ws /\ f[w].id = w.id /\ f[w].answers = w.answers
  OBVIOUS
<1>6. \A v \in ws : \E w \in q.writes : v.id = w.id /\ v.answers = w.answers
  OBVIOUS
<1> HIDE DEF ws
<1>7. /\ n \in Queues /\ n.pending = q.pending /\ n.writes = ws
      /\ n.inProgress = q.inProgress
  BY <1>1, <1>2, OtherWrites
<1> HIDE DEF n
<1>8. n.inProgress = 0 \/ \E w \in n.writes : w.id = n.inProgress /\ w.answers > 0
  BY <1>5, <1>7 DEF Ledger
<1>9. Ledger(n)
  <2>1. \A v \in n.writes : v.waiters # <<>> => v.answers > 0
    BY <1>7 DEF ws
  <2>2. QED
    BY <1>3, <1>4, <1>7, <1>8, <2>1 DEF Ledger
<1>10. Tracked(q) => Tracked(n)
  BY <1>6, <1>7 DEF Tracked
<1>11. QED
  BY <1>9, <1>10 DEF n, ws


(* Whatever a flush leaves pending has a flush waiting for it. *)
LEMMA FlushTidy ==
  ASSUME NEW q, Tidy(q), NEW d, d.main.meta \in MetasOrNone
  PROVE  /\ Tidy(Flush(q, d))
         /\ Watched(Flush(q, d))
         /\ Tracked(q) => Tracked(Flush(q, d))
<1> DEFINE c == ClearTimer(q)
           v == q.pending.ver
<1>1. /\ Tidy(c) /\ Ledger(c) /\ c.pending.armed = FALSE
      /\ c.pending.ver = v /\ c.writes = q.writes /\ c.inProgress = q.inProgress
  <2>1. /\ Tidy(c) /\ ~c.pending.armed
        /\ c.pending.ver = v /\ c.writes = q.writes /\ c.inProgress = q.inProgress
    BY ClearTimerTidy
  <2>2. c.pending \in Entries
    BY <2>1 DEF Tidy, Ledger, Queues
  <2>3. c.pending.armed \in BOOLEAN
    BY <2>2 DEF Entries
  <2>4. c.pending.armed = FALSE
    BY <2>1, <2>3
  <2>5. QED
    BY <2>1, <2>4 DEF Tidy
<1>2. v \in Nat /\ v \in Versions
  BY EntryVersion DEF Tidy, Ledger
<1>3. CASE v = 0
  <2>1. Flush(q, d) = q
    BY <1>3 DEF Flush
  <2>2. QED
    BY <1>3, <2>1 DEF Watched
<1>4. CASE v > 0 /\ q.inProgress = 0
  <2>1. Flush(q, d) = StartWrite(c, d, v)
    BY <1>4 DEF Flush
  <2> HIDE DEF c, v
  <2>2. Tidy(StartWrite(c, d, v)) /\ StartWrite(c, d, v).pending = NoEntry
    BY <1>1, <1>2, <1>4, StartWriteTidy
  <2>3. Tracked(q) => Tracked(c)
    BY <1>1 DEF Tracked
  <2>4. Tracked(c) => Tracked(StartWrite(c, d, v))
    BY <1>1, <1>2, <1>4, StartWriteTracked
  <2>5. Watched(StartWrite(c, d, v))
    BY <2>2 DEF Watched, NoEntry
  <2>6. QED
    BY <2>1, <2>2, <2>3, <2>4, <2>5
<1>5. CASE v > 0 /\ q.inProgress # 0
  <2> DEFINE f == [w \in c.writes |-> Joined(w, q.inProgress, v)]
             n == WithWrites(c, {f[w] : w \in c.writes})
  <2>1. c \in Queues /\ c.writes \in SUBSET Writes
    BY <1>1 DEF Ledger, Queues
  <2>2. Flush(q, d) = n
    <3>1. {f[w] : w \in c.writes} = {Joined(w, q.inProgress, v) : w \in q.writes}
      BY <1>1
    <3> DEFINE joined == {Joined(w, q.inProgress, v) : w \in q.writes}
    <3>2. joined = {IF w.id = q.inProgress THEN [w EXCEPT !.waiters = Append(@, v)] ELSE w
                      : w \in q.writes}
      BY DEF Joined
    <3>3. v # 0 /\ q.inProgress # 0
      BY <1>5
    <3>4. Flush(q, d) = [c EXCEPT !.writes = joined]
      <4> HIDE DEF joined
      <4> QED
        BY <3>2, <3>3, Zenon DEF Flush
    <3>5. QED
      BY <3>1, <3>4 DEF WithWrites
  <2> HIDE DEF c, v
  <2>3. \A w \in c.writes :
          /\ f[w] \in Writes /\ f[w].id = w.id /\ f[w].answers = w.answers
          /\ w.id = q.inProgress => f[w].waiters # <<>>
    BY <1>2, <1>5, <2>1, JoinedIsWrite
  <2>4. PICK u \in c.writes : u.id = q.inProgress /\ u.answers > 0
    BY <1>1, <1>5 DEF Ledger
  <2>5. \A w \in c.writes : f[w].waiters # <<>> => w.answers > 0
    <3>1. \A w \in c.writes : w.id # q.inProgress => f[w] = w
      BY DEF Joined
    <3>2. \A w \in c.writes : w.id = q.inProgress => w = u
      BY <1>1, <2>4 DEF Ledger
    <3>3. \A w \in c.writes : w.waiters # <<>> => w.answers > 0
      BY <1>1 DEF Ledger
    <3>4. QED
      BY <2>4, <3>1, <3>2, <3>3
  <2>6. Ledger(n) /\ (Tracked(c) => Tracked(n))
    <3>1. f \in [c.writes -> Writes]
      BY <2>3
    <3> HIDE DEF f
    <3>2. QED
      BY <1>1, <2>3, <2>5, <3>1, ReplacedWrites
  <2>7. n.pending = c.pending /\ n.writes = {f[w] : w \in c.writes}
    <3>1. {f[w] : w \in c.writes} \in SUBSET Writes
      BY <2>3
    <3> HIDE DEF f
    <3>2. QED
      BY <2>1, <3>1, OtherWrites
  <2>8. f[u] \in n.writes /\ f[u].waiters # <<>>
    BY <2>3, <2>4, <2>7
  <2> HIDE DEF f, n
  <2>9. Tidy(n)
    BY <1>1, <2>6, <2>7 DEF Tidy
  <2>10. Watched(n)
    BY <2>8 DEF Watched, Waited
  <2>11. Tracked(q) => Tracked(n)
    BY <1>1, <2>6 DEF Tracked
  <2>12. QED
    BY <2>2, <2>9, <2>10, <2>11
<1>6. q.inProgress \in Nat
  BY DEF Tidy, Ledger, Queues
<1>7. QED
  BY <1>2, <1>3, <1>4, <1>5, <1>6


-----------------------------------------------------------------------------
(* The end of a write. *)

LEMMA FewerWrites ==
  ASSUME NEW p, Tidy(p), NEW n \in Queues,
         n.pending = p.pending, n.timers = p.timers, n.writes \subseteq p.writes,
         n.inProgress = 0 \/ \E v \in n.writes : v.id = n.inProgress /\ v.answers > 0
  PROVE  Tidy(n)
<1>1. IsFiniteSet(n.writes)
  BY FS_Subset DEF Tidy, Ledger
<1>2. QED
  BY <1>1 DEF Tidy, Ledger

(* A queue with other answers. *)
WithAnswers(q, i, S) == [q EXCEPT !.inProgress = i, !.answered = @ \cup S]

LEMMA OtherAnswers ==
  ASSUME NEW q \in Queues, NEW i \in Nat, NEW S \in SUBSET (Versions \ {0})
  PROVE  /\ WithAnswers(q, i, S) \in Queues
         /\ WithAnswers(q, i, S).pending = q.pending
         /\ WithAnswers(q, i, S).timers = q.timers
         /\ WithAnswers(q, i, S).writes = q.writes
         /\ WithAnswers(q, i, S).inProgress = i
<1> DEFINE all == q.answered \cup S
<1>1. all \in SUBSET (Versions \ {0})
  BY DEF Queues
<1>2. WithAnswers(q, i, S) = [q EXCEPT !.inProgress = i, !.answered = all]
  BY DEF WithAnswers, Queues
<1> HIDE DEF all
<1>3. WithAnswers(q, i, S) \in Queues
  BY <1>1, <1>2 DEF Queues
<1>4. QED
  BY <1>2, <1>3 DEF Queues

(* A write's flush returns: nothing is in progress any more. *)
Returned(q, w) ==
  IF w.answers = 0 THEN WithWrites(q, q.writes \ {w})
  ELSE WithAnswers(WithWrites(q, q.writes \ {w}), 0, {w.answers})

LEMMA ReturnedTidy ==
  ASSUME NEW p, Tidy(p), NEW w \in p.writes,
         NEW q \in Queues, q.pending = p.pending, q.timers = p.timers,
         q.inProgress = p.inProgress, q.writes \ {w} = p.writes \ {w}
  PROVE  LET r == Returned(q, w)
         IN  /\ Tidy(r)
             /\ r.pending = p.pending
             /\ r.writes = p.writes \ {w}
             /\ w.answers > 0 => r.inProgress = 0
             /\ Tracked(p) => Tracked(r)
<1> DEFINE E == p.writes \ {w}
           e == WithWrites(q, E)
           r == Returned(q, w)
<1>1. p \in Queues /\ p.writes \in SUBSET Writes
  BY DEF Tidy, Ledger, Queues
<1>2. w.answers \in Versions /\ w.answers \in Nat
  BY <1>1, VersionsAreNat DEF Writes
<1>3. E \in SUBSET Writes
  BY <1>1
<1>4. r = IF w.answers = 0 THEN e ELSE WithAnswers(e, 0, {w.answers})
  BY DEF Returned
<1> HIDE DEF r
<1>5. /\ e \in Queues /\ e.pending = p.pending /\ e.timers = p.timers
      /\ e.writes = E /\ e.inProgress = p.inProgress
  <2> HIDE DEF E
  <2> QED
    BY <1>3, OtherWrites
<1> HIDE DEF e
<1>6. ASSUME w.answers = 0
      PROVE  /\ Tidy(r) /\ r.pending = p.pending /\ r.writes = E
             /\ w.answers > 0 => r.inProgress = 0
             /\ Tracked(p) => Tracked(r)
  <2>1. r = e
    BY <1>4, <1>6
  <2>2. e.inProgress = 0 \/ \E v \in e.writes : v.id = e.inProgress /\ v.answers > 0
    BY <1>5, <1>6 DEF Tidy, Ledger
  <2>3. Tidy(e)
    BY <1>5, <2>2, FewerWrites
  <2>4. Tracked(p) => Tracked(e)
    BY <1>5 DEF Tracked
  <2>5. QED
    BY <1>5, <1>6, <2>1, <2>3, <2>4
<1>7. ASSUME w.answers # 0
      PROVE  /\ Tidy(r) /\ r.pending = p.pending /\ r.writes = E
             /\ w.answers > 0 => r.inProgress = 0
             /\ Tracked(p) => Tracked(r)
  <2>1. r = WithAnswers(e, 0, {w.answers})
    BY <1>4, <1>7
  <2>2. {w.answers} \in SUBSET (Versions \ {0})
    BY <1>2, <1>7
  <2>3. /\ r \in Queues /\ r.pending = e.pending /\ r.timers = e.timers
        /\ r.writes = e.writes /\ r.inProgress = 0
    BY <1>5, <2>1, <2>2, OtherAnswers
  <2>4. Tidy(r)
    BY <1>5, <2>3, FewerWrites
  <2>5. ASSUME Tracked(p) PROVE Tracked(r)
    <3>1. w.id = p.inProgress
      BY <1>2, <1>7, <2>5 DEF Tracked
    <3>2. \A v \in p.writes : v.answers > 0 => v = w
      BY <2>5, <3>1 DEF Tracked, Tidy, Ledger
    <3>3. QED
      BY <1>5, <2>3, <3>2 DEF Tracked
  <2>6. QED
    BY <1>5, <2>3, <2>4, <2>5
<1>8. QED
  BY <1>6, <1>7 DEF r

LEMMA WaitersAreVersions ==
  ASSUME NEW w \in Writes
  PROVE  /\ ToSet(w.waiters) \in SUBSET (Versions \ {0})
         /\ w.waiters # <<>> =>
              /\ Head(w.waiters) \in Versions \ {0}
              /\ ToSet(Tail(w.waiters)) \in SUBSET (Versions \ {0})
              /\ Len(w.waiters) <= 1 => ToSet(Tail(w.waiters)) = {}
<1> DEFINE s == w.waiters
<1>1. s \in Seq(Versions \ {0})
  BY DEF Writes
<1> HIDE DEF s
<1>2. ToSet(s) \in SUBSET (Versions \ {0})
  BY <1>1 DEF ToSet
<1>3. ASSUME s # <<>>
      PROVE  /\ Head(s) \in Versions \ {0}
             /\ ToSet(Tail(s)) \in SUBSET (Versions \ {0})
             /\ Len(s) <= 1 => ToSet(Tail(s)) = {}
  <2>1. Head(s) \in Versions \ {0} /\ Tail(s) \in Seq(Versions \ {0})
    BY <1>1, <1>3
  <2>2. ToSet(Tail(s)) \in SUBSET (Versions \ {0})
    BY <2>1 DEF ToSet
  <2>3. Len(s) <= 1 => Len(Tail(s)) = 0
    <3>1. Len(Tail(s)) = Len(s) - 1 /\ Len(s) \in Nat /\ Len(s) # 0
      BY <1>1, <1>3
    <3>2. QED
      BY <3>1
  <2>4. Len(Tail(s)) = 0 => ToSet(Tail(s)) = {}
    <3> DEFINE t == Tail(s)
    <3>1. t \in Seq(Versions \ {0})
      BY <2>1
    <3> HIDE DEF t
    <3>2. DOMAIN t = 1 .. Len(t)
      BY <3>1
    <3>3. Len(t) = 0 => DOMAIN t = {}
      BY <3>2
    <3>4. Len(t) = 0 => ToSet(t) = {}
      BY <3>3 DEF ToSet
    <3>5. QED
      BY <3>4 DEF t
  <2>5. QED
    BY <2>1, <2>2, <2>3, <2>4
<1>4. QED
  BY <1>2, <1>3 DEF s


(* The flushes that waited for a write go on: the first with the entry.     *)
Resumed(r, d, w) ==
  LET others == ToSet(Tail(w.waiters))
      next   == StartWrite(r, d, Head(w.waiters))
  IN  [next EXCEPT !.answered = @ \cup others,
                   !.inProgress = IF others = {} THEN @ ELSE 0]

LEMMA SettleCases ==
  ASSUME NEW q \in Queues, NEW d, NEW w
  PROVE  LET r == Returned(q, w)
         IN  Settle(q, d, w) =
               IF w.waiters = <<>> THEN r
               ELSE IF r.pending.ver = 0
                    THEN [r EXCEPT !.answered = @ \cup ToSet(w.waiters)]
               ELSE Resumed(r, d, w)
<1> DEFINE ended    == [q EXCEPT !.writes = @ \ {w}]
           returned == IF w.answers = 0 THEN ended
                       ELSE [ended EXCEPT !.inProgress = 0, !.answered = @ \cup {w.answers}]
<1>1. ended = WithWrites(q, q.writes \ {w})
  BY DEF WithWrites
<1>2. returned = Returned(q, w)
  BY <1>1 DEF Returned, WithAnswers
<1> HIDE DEF ended, returned
<1>3. Settle(q, d, w) =
        IF w.waiters = <<>> THEN returned
        ELSE IF returned.pending.ver = 0
             THEN [returned EXCEPT !.answered = @ \cup ToSet(w.waiters)]
        ELSE Resumed(returned, d, w)
  BY Zenon DEF Settle, Resumed, ended, returned
<1>4. QED
  BY <1>2, <1>3

LEMMA ResumedTidy ==
  ASSUME NEW r, Tidy(r), r.pending.ver > 0, NEW d, d.main.meta \in MetasOrNone,
         NEW w \in Writes, w.waiters # <<>>
  PROVE  /\ Tidy(Resumed(r, d, w))
         /\ Resumed(r, d, w).pending.ver = 0
         /\ Tracked(r) /\ r.inProgress = 0 /\ Len(w.waiters) <= 1 => Tracked(Resumed(r, d, w))
<1> DEFINE others == ToSet(Tail(w.waiters))
           next   == StartWrite(r, d, Head(w.waiters))
           i      == IF others = {} THEN next.inProgress ELSE 0
<1>1. /\ Head(w.waiters) \in Versions \ {0}
      /\ others \in SUBSET (Versions \ {0})
      /\ Len(w.waiters) <= 1 => others = {}
  BY WaitersAreVersions
<1>2. Ledger(r)
  BY DEF Tidy
<1>3. Tidy(next) /\ next.pending = NoEntry
  BY <1>1, <1>2, StartWriteTidy
<1>4. Tracked(r) /\ r.inProgress = 0 => Tracked(next)
  BY <1>1, <1>2, StartWriteTracked
<1> HIDE DEF others, next
<1>5. next \in Queues /\ next.inProgress \in Nat
  BY <1>3 DEF Tidy, Ledger, Queues
<1>6. Resumed(r, d, w) = WithAnswers(next, i, others)
  <2>1. Resumed(r, d, w) = [next EXCEPT !.answered = @ \cup others, !.inProgress = i]
    BY <1>5 DEF Resumed, Queues, others, next
  <2> HIDE DEF i
  <2>2. QED
    BY <1>5, <2>1 DEF WithAnswers, Queues
<1>7. i \in Nat
  BY <1>5
<1> DEFINE n == WithAnswers(next, i, others)
<1>8. /\ n \in Queues /\ n.pending = next.pending /\ n.timers = next.timers
      /\ n.writes = next.writes /\ n.inProgress = i
  <2> HIDE DEF i
  <2> QED
    BY <1>1, <1>5, <1>7, OtherAnswers
<1> HIDE DEF n
<1>9. Tidy(n)
  <2>1. n.inProgress = 0 \/ \E v \in n.writes : v.id = n.inProgress /\ v.answers > 0
    BY <1>3, <1>8 DEF Tidy, Ledger
  <2>2. QED
    BY <1>3, <1>8, <2>1, FewerWrites
<1>10. n.pending.ver = 0
  BY <1>3, <1>8 DEF NoEntry
<1>11. ASSUME Tracked(r), r.inProgress = 0, Len(w.waiters) <= 1
       PROVE  Tracked(n)
  BY <1>1, <1>4, <1>8, <1>11 DEF Tracked
<1>12. Resumed(r, d, w) = n
  BY <1>6 DEF n
<1>13. QED
  BY <1>9, <1>10, <1>11, <1>12

(* The queue without the write that ends: p is the queue before, q the one  *)
(* in which files may have moved under the other writes.                    *)
LEMMA SettleTidy ==
  ASSUME NEW p, Tidy(p), Watched(p), NEW w \in p.writes,
         NEW q \in Queues, q.pending = p.pending, q.timers = p.timers,
         q.inProgress = p.inProgress, q.writes \ {w} = p.writes \ {w},
         NEW d, d.main.meta \in MetasOrNone
  PROVE  /\ Tidy(Settle(q, d, w))
         /\ Watched(Settle(q, d, w))
         /\ Tracked(p) /\ Single(p) => Tracked(Settle(q, d, w))
<1> DEFINE r == Returned(q, w)
<1>1. /\ Tidy(r) /\ r.pending = p.pending /\ r.writes = p.writes \ {w}
      /\ w.answers > 0 => r.inProgress = 0
      /\ Tracked(p) => Tracked(r)
  BY ReturnedTidy
<1>2. Settle(q, d, w) =
        IF w.waiters = <<>> THEN r
        ELSE IF r.pending.ver = 0
             THEN [r EXCEPT !.answered = @ \cup ToSet(w.waiters)]
        ELSE Resumed(r, d, w)
  BY SettleCases
<1> HIDE DEF r
<1>3. w \in Writes /\ (w.waiters # <<>> => w.answers > 0)
  BY DEF Tidy, Ledger, Queues
<1>4. r \in Queues /\ r.inProgress \in Nat /\ r.pending.ver \in Nat
  <2>1. r \in Queues
    BY <1>1 DEF Tidy, Ledger
  <2>2. QED
    BY <2>1, EntryVersion DEF Queues
<1>5. CASE w.waiters = <<>>
  <2>1. Waited(p) => Waited(r)
    BY <1>1, <1>5 DEF Waited
  <2>2. Watched(r)
    BY <1>1, <2>1 DEF Watched
  <2>3. QED
    BY <1>1, <1>2, <1>5, <2>2
<1>6. CASE w.waiters # <<>> /\ r.pending.ver = 0
  <2> DEFINE S == ToSet(w.waiters)
             n == WithAnswers(r, r.inProgress, S)
  <2>1. S \in SUBSET (Versions \ {0})
    BY <1>3, WaitersAreVersions
  <2> HIDE DEF S
  <2>2. [r EXCEPT !.answered = @ \cup S] = n
    BY <1>4 DEF WithAnswers, Queues
  <2>3. /\ n \in Queues /\ n.pending = r.pending /\ n.timers = r.timers
        /\ n.writes = r.writes /\ n.inProgress = r.inProgress
    BY <1>4, <2>1, OtherAnswers
  <2>4. Settle(q, d, w) = n
    BY <1>2, <1>6, <2>2 DEF S
  <2> HIDE DEF n
  <2>5. Tidy(n)
    <3>1. n.inProgress = 0 \/ \E v \in n.writes : v.id = n.inProgress /\ v.answers > 0
      BY <1>1, <2>3 DEF Tidy, Ledger
    <3>2. QED
      BY <1>1, <2>3, <3>1, FewerWrites
  <2>6. Watched(n)
    BY <1>6, <2>3 DEF Watched
  <2>7. Tracked(p) => Tracked(n)
    BY <1>1, <2>3 DEF Tracked
  <2>8. QED
    BY <2>4, <2>5, <2>6, <2>7
<1>7. CASE w.waiters # <<>> /\ r.pending.ver # 0
  <2>1. r.pending.ver > 0
    BY <1>4, <1>7
  <2>2. Settle(q, d, w) = Resumed(r, d, w)
    BY <1>2, <1>7
  <2>3. /\ Tidy(Resumed(r, d, w))
        /\ Resumed(r, d, w).pending.ver = 0
        /\ Tracked(r) /\ r.inProgress = 0 /\ Len(w.waiters) <= 1 => Tracked(Resumed(r, d, w))
    BY <1>1, <1>3, <1>7, <2>1, ResumedTidy
  <2>4. Watched(Resumed(r, d, w))
    BY <2>3 DEF Watched
  <2>5. Single(p) => Len(w.waiters) <= 1
    BY DEF Single
  <2>6. QED
    BY <1>1, <1>3, <1>7, <2>2, <2>3, <2>4, <2>5
<1>8. QED
  BY <1>5, <1>6, <1>7


-----------------------------------------------------------------------------
(* Writes that move on: their ids, answers and waiters stay. *)

LEMMA MovedWrites ==
  ASSUME NEW q, Tidy(q), Watched(q), NEW f, f \in [q.writes -> Writes],
         \A w \in q.writes : /\ f[w].id = w.id /\ f[w].answers = w.answers
                             /\ f[w].waiters = w.waiters
  PROVE  LET n == WithWrites(q, {f[w] : w \in q.writes})
         IN  /\ Tidy(n)
             /\ Watched(n)
             /\ Tracked(q) => Tracked(n)
             /\ Single(q) => Single(n)
<1> DEFINE ws == {f[w] : w \in q.writes}
           n == WithWrites(q, ws)
<1>1. q \in Queues /\ Ledger(q)
  BY DEF Tidy, Ledger
<1>2. Ledger(n) /\ (Tracked(q) => Tracked(n))
  <2>1. \A w \in q.writes : f[w].waiters # <<>> => w.answers > 0
    BY <1>1 DEF Ledger
  <2>2. QED
    BY <1>1, <2>1, ReplacedWrites
<1>3. ws \in SUBSET Writes
  OBVIOUS
<1>4. \A w \in q.writes : f[w] \in ws /\ f[w].waiters = w.waiters
  OBVIOUS
<1>5. \A v \in ws : \E w \in q.writes : v.waiters = w.waiters
  OBVIOUS
<1> HIDE DEF ws
<1>6. /\ n \in Queues /\ n.pending = q.pending /\ n.timers = q.timers
      /\ n.writes = ws /\ n.inProgress = q.inProgress
  BY <1>1, <1>3, OtherWrites
<1> HIDE DEF n
<1>7. Tidy(n)
  BY <1>2, <1>6 DEF Tidy
<1>8. Watched(n)
  BY <1>4, <1>6 DEF Watched, Waited
<1>9. Single(q) => Single(n)
  BY <1>5, <1>6 DEF Single
<1>10. QED
  BY <1>2, <1>7, <1>8, <1>9 DEF n, ws

(* A write after a step, and after a file has moved under it. *)
Stepped(w, step, onto) == [w EXCEPT !.step = step, !.onto = onto]
Moved(w, moved) == [w EXCEPT !.onto = moved[@]]

Steps == {"open", "lost", "fill", "unlink", "rename"}
Places == {"tmp", "main", "nothing"}

LEMMA SteppedIsWrite ==
  ASSUME NEW w \in Writes, NEW step \in Steps, NEW onto \in Places
  PROVE  /\ Stepped(w, step, onto) \in Writes
         /\ Stepped(w, step, onto).id = w.id
         /\ Stepped(w, step, onto).answers = w.answers
         /\ Stepped(w, step, onto).waiters = w.waiters
<1>1. Stepped(w, step, onto) \in Writes
  BY DEF Stepped, Writes, Steps, Places
<1>2. /\ Stepped(w, step, onto).id = w.id
      /\ Stepped(w, step, onto).answers = w.answers
      /\ Stepped(w, step, onto).waiters = w.waiters
  BY DEF Stepped, Writes
<1>3. QED
  BY <1>1, <1>2

LEMMA MovedIsWrite ==
  ASSUME NEW w \in Writes, NEW moved \in {Unlinked, Renamed, Cleaned}
  PROVE  /\ Moved(w, moved) \in Writes
         /\ Moved(w, moved).id = w.id
         /\ Moved(w, moved).answers = w.answers
         /\ Moved(w, moved).waiters = w.waiters
<1> DEFINE onto == moved[w.onto]
<1>1. w.onto \in Places
  BY DEF Writes, Places
<1>2. onto \in Places
  BY <1>1 DEF Places, Unlinked, Renamed, Cleaned
<1>3. Moved(w, moved) = [w EXCEPT !.onto = onto]
  BY DEF Moved, Writes
<1> HIDE DEF onto
<1>4. [w EXCEPT !.onto = onto] \in Writes
  BY <1>2 DEF Writes, Places
<1>5. QED
  BY <1>3, <1>4 DEF Writes

LEMMA Advanced ==
  ASSUME NEW w, Tidy(queue), Watched(queue), w \in queue.writes,
         NEW step \in Steps, NEW onto \in Places, Advance(w, step, onto)
  PROVE  /\ Tidy(queue') /\ Watched(queue') /\ queue'.pending = queue.pending
         /\ Tracked(queue) => Tracked(queue')
         /\ Single(queue) => Single(queue')
<1> DEFINE f == [v \in queue.writes |-> IF v = w THEN Stepped(w, step, onto) ELSE v]
           n == WithWrites(queue, {f[v] : v \in queue.writes})
<1>1. queue \in Queues /\ queue.writes \in SUBSET Writes
  BY DEF Tidy, Ledger, Queues
<1>2. (queue.writes \ {w}) \cup {Stepped(w, step, onto)} = {f[v] : v \in queue.writes}
  OBVIOUS
<1>3. queue' = n
  BY <1>2 DEF Advance, WithWrites, Stepped
<1>4. f \in [queue.writes -> Writes]
  BY <1>1, SteppedIsWrite
<1>5. \A v \in queue.writes : /\ f[v].id = v.id /\ f[v].answers = v.answers
                              /\ f[v].waiters = v.waiters
  BY <1>1, SteppedIsWrite
<1> HIDE DEF f
<1>6. /\ Tidy(n) /\ Watched(n)
      /\ Tracked(queue) => Tracked(n)
      /\ Single(queue) => Single(n)
  BY <1>4, <1>5, MovedWrites
<1>7. n.pending = queue.pending
  BY <1>1, <1>4, OtherWrites
<1>8. QED
  BY <1>3, <1>6, <1>7


-----------------------------------------------------------------------------
(* The invariant. *)

(* A whole file holds a version somebody saved. *)
File(c) == c \in Contents /\ (c.kind = "whole" => c.ver > 0 /\ c.meta \in Metas)

Files == disk \in [main : Contents, tmp : Contents] /\ File(disk.main) /\ File(disk.tmp)

Bookkeeping == Tidy(queue) /\ Watched(queue)

Around ==
  /\ session \in [ver : Versions, meta : Metas]
  /\ watch \in BOOLEAN
  /\ deferred \in MetasOrNone
  /\ listed \in BOOLEAN
  /\ trouble \subseteq MishapKinds \cup {"overlap", "crowd", "late"}
  /\ mishaps \in 0 .. MaxMishaps

(* Before the first save, or after a crash that left nothing, there is      *)
(* nothing to write, to report or to read.                                  *)
Unborn ==
  session.ver = 0 =>
    /\ watch = FALSE /\ deferred = NoMeta
    /\ disk.main.kind # "whole"
    /\ queue.writes = {} /\ queue.pending.ver = 0

Serial == "crowd" \notin trouble => Single(queue) /\ Tracked(queue)

Inv == Files /\ Bookkeeping /\ Around /\ Unborn /\ Serial

LEMMA FileKinds ==
  /\ File(Absent) /\ Absent.kind = "absent"
  /\ File(Truncated) /\ Truncated.kind = "part"
<1>1. 0 \in Versions /\ NoMeta \in MetasOrNone
  BY VersionsAreNat DEF MetasOrNone
<1>2. Absent \in Contents /\ Absent.kind = "absent"
  BY <1>1 DEF Contents, Absent
<1>3. Truncated \in Contents /\ Truncated.kind = "part"
  BY <1>2 DEF Contents, Truncated
<1>4. QED
  BY <1>2, <1>3 DEF File

LEMMA EmptyQueueTidy ==
  /\ Tidy(EmptyQueue) /\ Watched(EmptyQueue) /\ Single(EmptyQueue) /\ Tracked(EmptyQueue)
  /\ EmptyQueue.writes = {} /\ EmptyQueue.pending.ver = 0
<1> DEFINE q == EmptyQueue
<1>1. 0 \in Versions /\ NoMeta \in MetasOrNone
  BY VersionsAreNat DEF MetasOrNone
<1>2. NoEntry \in Entries /\ NoEntry.ver = 0 /\ NoEntry.armed = FALSE
  BY <1>1 DEF Entries, NoEntry
<1>3. q \in Queues /\ q.pending = NoEntry /\ q.writes = {} /\ q.inProgress = 0
  BY <1>1, <1>2 DEF EmptyQueue, Queues
<1> HIDE DEF q
<1>4. q.pending.ver = 0 /\ q.pending.armed = FALSE
  BY <1>2, <1>3
<1>5. IsFiniteSet(q.writes)
  BY <1>3, FS_EmptySet
<1>6. Ledger(q)
  BY <1>3, <1>4, <1>5 DEF Ledger
<1>7. Tidy(q) /\ Watched(q)
  BY <1>4, <1>6 DEF Tidy, Watched
<1>8. Single(q) /\ Tracked(q)
  BY <1>3 DEF Single, Tracked
<1>9. QED
  BY <1>3, <1>4, <1>7, <1>8 DEF q

LEMMA InvInit == Init => Inv
<1> SUFFICES ASSUME Init PROVE Inv
  OBVIOUS
<1>1. 0 \in Versions /\ FirstMeta \in Metas /\ NoMeta \in MetasOrNone
  BY VersionsAreNat, PersistenceAssumption DEF MetasOrNone
<1>2. Files
  <2>1. Absent \in Contents
    BY FileKinds DEF File
  <2>2. QED
    BY <2>1, FileKinds DEF Init, Files
<1>3. Around
  <2>1. 0 \in 0 .. MaxMishaps
    BY PersistenceAssumption
  <2>2. session \in [ver : Versions, meta : Metas]
    BY <1>1 DEF Init
  <2>3. QED
    BY <1>1, <2>1, <2>2 DEF Init, Around
<1>4. Unborn
  BY FileKinds, EmptyQueueTidy DEF Init, Unborn
<1>5. QED
  BY <1>2, <1>3, <1>4, EmptyQueueTidy DEF Init, Inv, Bookkeeping, Serial

(* What the invariant says of the system's properties. *)
LEMMA InvGives ==
  ASSUME Inv
  PROVE  TypeOK /\ Attended /\ FlushesSerialized
<1>1. /\ queue \in Queues /\ queue.pending \in Entries
      /\ queue.inProgress = 0 \/ \E w \in queue.writes : w.id = queue.inProgress
  BY DEF Inv, Bookkeeping, Tidy, Ledger, Queues
<1>2. TypeOK
  <2>1. queue.inProgress \in {0} \cup {w.id : w \in queue.writes}
    BY <1>1
  <2>2. /\ queue.pending \in [ver : Versions, meta : MetasOrNone, armed : BOOLEAN]
        /\ queue.timers \in Nat /\ queue.signature \in MetasOrNone
        /\ queue.writes \subseteq Writes /\ queue.answered \subseteq Versions \ {0}
    BY <1>1 DEF Queues, Entries
  <2>3. QED
    BY <2>1, <2>2 DEF TypeOK, Inv, Files, Around
<1>3. Attended
  BY DEF Inv, Bookkeeping, Watched, Waited, Attended
<1>4. FlushesSerialized
  <2>1. \A v, w \in queue.writes : v.id = w.id => v = w
    BY DEF Inv, Bookkeeping, Tidy, Ledger
  <2>2. QED
    BY <2>1 DEF Inv, Serial, Tracked, FlushesSerialized
<1>5. QED
  BY <1>2, <1>3, <1>4


-----------------------------------------------------------------------------
(* The actions. *)

(* A step that records whom it makes wait. *)
LEMMA SerialKept ==
  ASSUME Serial, Tidy(queue'), trouble \subseteq trouble', Overlap(queue') \subseteq trouble',
         Tracked(queue) /\ Single(queue) => Tracked(queue')
  PROVE  Serial'
<1> SUFFICES ASSUME "crowd" \notin trouble' PROVE Single(queue') /\ Tracked(queue')
  BY DEF Serial
<1>1. "crowd" \notin Overlap(queue')
  OBVIOUS
<1>2. ~\E w \in queue'.writes : Len(w.waiters) > 1
  BY <1>1 DEF Overlap
<1>3. \A w \in queue'.writes : Len(w.waiters) \in Nat
  <2>1. \A w \in queue'.writes : w.waiters \in Seq(Versions \ {0})
    BY DEF Tidy, Ledger, Queues, Writes
  <2>2. QED
    BY <2>1
<1>4. Single(queue')
  BY <1>2, <1>3 DEF Single
<1>5. Tracked(queue')
  BY DEF Serial
<1>6. QED
  BY <1>4, <1>5

LEMMA OverlapIsTrouble ==
  ASSUME NEW q
  PROVE  Overlap(q) \subseteq {"overlap", "crowd"}
BY DEF Overlap

(* A write in flight is somebody's: the session has been saved. *)
LEMMA BornIfWriting ==
  ASSUME Inv, NEW w \in queue.writes
  PROVE  session.ver # 0 /\ w \in Writes
BY DEF Inv, Unborn, Bookkeeping, Tidy, Ledger, Queues

LEMMA OpenTmpKeeps ==
  ASSUME Inv, NEW w \in queue.writes, OpenTmp(w)
  PROVE  Inv'
<1>1. Files'
  BY FileKinds DEF OpenTmp, Inv, Files, File
<1>2. /\ Tidy(queue') /\ Watched(queue')
      /\ Tracked(queue) => Tracked(queue')
      /\ Single(queue) => Single(queue')
  <2>1. "fill" \in Steps /\ "tmp" \in Places
    BY DEF Steps, Places
  <2>2. QED
    BY <2>1, Advanced DEF OpenTmp, Inv, Bookkeeping
<1>3. Around' /\ Unborn'
  BY BornIfWriting DEF OpenTmp, Inv, Around, Unborn
<1>4. Serial'
  BY <1>2 DEF OpenTmp, Inv, Serial
<1>5. QED
  BY <1>1, <1>2, <1>3, <1>4 DEF Inv, Bookkeeping

LEMMA FillTmpKeeps ==
  ASSUME Inv, NEW w \in queue.writes, FillTmp(w)
  PROVE  Inv'
<1>1. w \in Writes /\ session.ver # 0
  BY BornIfWriting
<1>2. Files'
  <2>1. CASE w.onto = "nothing"
    BY <2>1 DEF FillTmp, Inv, Files
  <2>2. CASE w.onto # "nothing"
    <3>1. PICK c \in {Whole(w), Mixed(w)} : disk' = [disk EXCEPT ![w.onto] = c]
      BY <2>2 DEF FillTmp
    <3>2. w.ver \in Versions /\ w.ver > 0 /\ w.meta \in Metas
      <4>1. w.ver \in Versions /\ w.ver # 0 /\ w.meta \in Metas
        BY <1>1 DEF Writes
      <4>2. w.ver \in Nat
        BY <4>1, VersionsAreNat
      <4>3. QED
        BY <4>1, <4>2
    <3>3. File(c)
      <4>1. w.meta \in MetasOrNone /\ 0 \in Versions
        BY <3>2, VersionsAreNat DEF MetasOrNone
      <4>2. Whole(w) \in Contents /\ Whole(w).ver > 0 /\ Whole(w).meta \in Metas
        BY <3>2, <4>1 DEF Contents, Whole
      <4>3. Mixed(w) \in Contents /\ Mixed(w).kind = "part"
        BY <4>1 DEF Contents, Mixed
      <4>4. QED
        BY <3>1, <4>2, <4>3 DEF File
    <3>4. w.onto = "tmp" \/ w.onto = "main"
      BY <1>1, <2>2 DEF Writes
    <3>5. c \in Contents
      BY <3>3 DEF File
    <3>6. CASE w.onto = "tmp"
      <4>1. disk' = [disk EXCEPT !.tmp = c]
        BY <3>1, <3>6
      <4>2. QED
        BY <3>3, <3>5, <4>1 DEF Inv, Files
    <3>7. CASE w.onto = "main"
      <4>1. disk' = [disk EXCEPT !.main = c]
        BY <3>1, <3>7
      <4>2. QED
        BY <3>3, <3>5, <4>1 DEF Inv, Files
    <3>8. QED
      BY <3>4, <3>6, <3>7
  <2>3. QED
    BY <2>1, <2>2
<1>3. /\ Tidy(queue') /\ Watched(queue')
      /\ Tracked(queue) => Tracked(queue')
      /\ Single(queue) => Single(queue')
  <2>1. "unlink" \in Steps /\ "nothing" \in Places
    BY DEF Steps, Places
  <2>2. QED
    BY <2>1, Advanced DEF FillTmp, Inv, Bookkeeping
<1>4. Around' /\ Unborn'
  BY <1>1 DEF FillTmp, Inv, Around, Unborn
<1>5. Serial'
  BY <1>3 DEF FillTmp, Inv, Serial
<1>6. QED
  BY <1>2, <1>3, <1>4, <1>5 DEF Inv, Bookkeeping

LEMMA UnlinkMainKeeps ==
  ASSUME Inv, NEW w \in queue.writes, UnlinkMain(w)
  PROVE  Inv'
<1> DEFINE g(v) == IF v = w THEN [v EXCEPT !.step = "rename"] ELSE v
           f == [v \in queue.writes |-> Moved(g(v), Unlinked)]
           n == WithWrites(queue, {f[v] : v \in queue.writes})
<1>1. /\ Tidy(queue) /\ Watched(queue) /\ queue \in Queues
      /\ queue.writes \in SUBSET Writes
  BY DEF Inv, Bookkeeping, Tidy, Ledger, Queues
<1>2. \A v \in queue.writes : /\ g(v) \in Writes /\ g(v).id = v.id
                              /\ g(v).answers = v.answers /\ g(v).waiters = v.waiters
  BY <1>1 DEF Writes
<1>3. queue' = n
  <2> DEFINE S == (queue.writes \ {w}) \cup {[w EXCEPT !.step = "rename"]}
  <2>1. S = {g(v) : v \in queue.writes}
    OBVIOUS
  <2>2. {[v EXCEPT !.onto = Unlinked[@]] : v \in S} = {f[v] : v \in queue.writes}
    BY <2>1 DEF Moved
  <2>3. queue' = [queue EXCEPT !.writes = {[v EXCEPT !.onto = Unlinked[@]] : v \in S}]
    BY DEF UnlinkMain, Redirect
  <2> HIDE DEF S, f
  <2>4. QED
    BY <2>2, <2>3 DEF WithWrites
<1>4. \A v \in queue.writes : /\ f[v] \in Writes /\ f[v].id = v.id
                              /\ f[v].answers = v.answers /\ f[v].waiters = v.waiters
  <2> HIDE DEF g
  <2> QED
    BY <1>2, MovedIsWrite
<1>5. f \in [queue.writes -> Writes]
  BY <1>4
<1> HIDE DEF f
<1>6. /\ Tidy(queue') /\ Watched(queue')
      /\ Tracked(queue) => Tracked(queue')
      /\ Single(queue) => Single(queue')
  BY <1>1, <1>3, <1>4, <1>5, MovedWrites
<1>7. Files'
  BY FileKinds DEF UnlinkMain, Inv, Files, File
<1>8. Around' /\ Unborn'
  BY BornIfWriting DEF UnlinkMain, Inv, Around, Unborn
<1>9. Serial'
  BY <1>6 DEF UnlinkMain, Inv, Serial
<1>10. QED
  BY <1>6, <1>7, <1>8, <1>9 DEF Inv, Bookkeeping


LEMMA DiskMeta ==
  ASSUME Files
  PROVE  disk.main.meta \in MetasOrNone /\ disk.main \in Contents /\ disk.tmp \in Contents
<1>1. disk.main \in Contents /\ disk.tmp \in Contents
  BY DEF Files
<1>2. QED
  BY <1>1 DEF Contents

(* When the write ends, the files of the others have been moved first. *)
LEMMA RenamedTidy ==
  ASSUME Inv, NEW w \in queue.writes, NEW d, d.main.meta \in MetasOrNone
  PROVE  LET n == Settle([queue EXCEPT !.writes = Redirect(@ \ {w}, Renamed)], d, w)
         IN  /\ Tidy(n) /\ Watched(n)
             /\ Tracked(queue) /\ Single(queue) => Tracked(n)
<1> DEFINE f == [v \in queue.writes |-> IF v = w THEN w ELSE Moved(v, Renamed)]
           ws == {Moved(v, Renamed) : v \in queue.writes \ {w}}
           all == {f[v] : v \in queue.writes}
           p == WithWrites(queue, all)
           q == WithWrites(queue, ws)
<1>1. /\ Tidy(queue) /\ Watched(queue) /\ queue \in Queues
      /\ queue.writes \in SUBSET Writes
  BY DEF Inv, Bookkeeping, Tidy, Ledger, Queues
<1>2. \A v \in queue.writes : /\ f[v] \in Writes /\ f[v].id = v.id
                              /\ f[v].answers = v.answers /\ f[v].waiters = v.waiters
  BY <1>1, MovedIsWrite
<1>3. all = ws \cup {w}
  OBVIOUS
<1>4. [queue EXCEPT !.writes = Redirect(@ \ {w}, Renamed)] = q
  <2>1. Redirect(queue.writes \ {w}, Renamed) = ws
    BY DEF Redirect, Moved
  <2> HIDE DEF ws
  <2>2. QED
    BY <2>1 DEF WithWrites
<1>5. f \in [queue.writes -> Writes] /\ all \in SUBSET Writes /\ ws \in SUBSET Writes
  BY <1>2, <1>3
<1> HIDE DEF f
<1>6. /\ Tidy(p) /\ Watched(p)
      /\ Tracked(queue) => Tracked(p)
      /\ Single(queue) => Single(p)
  BY <1>1, <1>2, <1>5, MovedWrites
<1> HIDE DEF ws, all
<1>7. /\ p.pending = queue.pending /\ p.timers = queue.timers
      /\ p.inProgress = queue.inProgress /\ p.writes = all
  BY <1>1, <1>5, OtherWrites
<1>8. /\ q \in Queues /\ q.pending = queue.pending /\ q.timers = queue.timers
      /\ q.inProgress = queue.inProgress /\ q.writes = ws
  BY <1>1, <1>5, OtherWrites
<1>9. q.writes \ {w} = p.writes \ {w} /\ w \in p.writes
  BY <1>3, <1>7, <1>8
<1> HIDE DEF p, q
<1>10. /\ Tidy(Settle(q, d, w)) /\ Watched(Settle(q, d, w))
       /\ Tracked(p) /\ Single(p) => Tracked(Settle(q, d, w))
  BY <1>6, <1>7, <1>8, <1>9, SettleTidy
<1>11. QED
  BY <1>4, <1>6, <1>10

LEMMA SettledTidy ==
  ASSUME Inv, NEW w \in queue.writes, NEW d, d.main.meta \in MetasOrNone
  PROVE  /\ Tidy(Settle(queue, d, w)) /\ Watched(Settle(queue, d, w))
         /\ Tracked(queue) /\ Single(queue) => Tracked(Settle(queue, d, w))
<1>1. Tidy(queue) /\ Watched(queue) /\ queue \in Queues
  BY DEF Inv, Bookkeeping, Tidy, Ledger
<1>2. QED
  BY <1>1, SettleTidy

LEMMA RenameTmpKeeps ==
  ASSUME Inv, NEW w \in queue.writes, RenameTmp(w)
  PROVE  Inv'
<1>1. trouble' = trouble \cup Overlap(queue')
  BY DEF RenameTmp, Trouble
<1>2. session.ver # 0
  BY BornIfWriting
<1>3. /\ Tidy(queue') /\ Watched(queue')
      /\ Tracked(queue) /\ Single(queue) => Tracked(queue')
  <2>1. CASE disk.tmp = Absent
    <3>1. queue' = Settle(queue, disk, w)
      BY <2>1 DEF RenameTmp
    <3>2. QED
      BY <3>1, DiskMeta, SettledTidy DEF Inv
  <2>2. CASE disk.tmp # Absent
    <3>1. /\ queue' = Settle([queue EXCEPT !.writes = Redirect(@ \ {w}, Renamed)], disk', w)
          /\ disk' = [main |-> disk.tmp, tmp |-> Absent]
      BY <2>2 DEF RenameTmp
    <3>2. disk'.main.meta \in MetasOrNone
      BY <3>1, DiskMeta DEF Inv, Contents
    <3>3. QED
      BY <3>1, <3>2, RenamedTidy
  <2>3. QED
    BY <2>1, <2>2
<1>4. Files' /\ watch' \in BOOLEAN
  <2>1. CASE disk.tmp = Absent
    BY <2>1 DEF RenameTmp, Inv, Files, Around
  <2>2. CASE disk.tmp # Absent
    <3>1. disk' = [main |-> disk.tmp, tmp |-> Absent] /\ watch' = TRUE
      BY <2>2 DEF RenameTmp
    <3>2. File(disk.tmp) /\ disk.tmp \in Contents /\ Absent \in Contents
      BY FileKinds DEF Inv, Files, File
    <3>3. QED
      BY <3>1, <3>2, FileKinds DEF Files
  <2>3. QED
    BY <2>1, <2>2
<1>5. Around'
  BY <1>1, <1>4, OverlapIsTrouble DEF RenameTmp, Inv, Around
<1>6. Unborn'
  BY <1>2 DEF RenameTmp, Unborn
<1>7. Serial'
  BY <1>1, <1>3, SerialKept DEF Inv
<1>8. QED
  BY <1>3, <1>4, <1>5, <1>6, <1>7 DEF Inv, Bookkeeping

(* A mishap stays within its bound and is one of those recorded. *)
LEMMA MishapCounted ==
  ASSUME Around, NEW kind, Mishap(kind)
  PROVE  mishaps' \in 0 .. MaxMishaps /\ kind \in MishapKinds
BY PersistenceAssumption DEF Around, Mishap

LEMMA OpenFailsKeeps ==
  ASSUME Inv, NEW w \in queue.writes, OpenFails(w)
  PROVE  Inv'
<1>1. trouble' = trouble \cup Overlap(queue') /\ queue' = Settle(queue, disk, w)
  BY DEF OpenFails, Trouble
<1>2. session.ver # 0
  BY BornIfWriting
<1>3. /\ Tidy(queue') /\ Watched(queue')
      /\ Tracked(queue) /\ Single(queue) => Tracked(queue')
  BY <1>1, DiskMeta, SettledTidy DEF Inv
<1>4. Files' /\ Unborn'
  BY <1>2 DEF OpenFails, Inv, Files, Unborn
<1>5. Around'
  BY <1>1, OverlapIsTrouble DEF OpenFails, Inv, Around
<1>6. Serial'
  BY <1>1, <1>3, SerialKept DEF Inv
<1>7. QED
  BY <1>3, <1>4, <1>5, <1>6 DEF Inv, Bookkeeping

LEMMA WriteFailsKeeps ==
  ASSUME Inv, NEW w \in queue.writes, WriteFails(w)
  PROVE  Inv'
<1>1. trouble' = trouble \cup ({"failure"} \cup Overlap(queue'))
  BY DEF WriteFails, Trouble
<1>2. mishaps' \in 0 .. MaxMishaps /\ "failure" \in MishapKinds
  BY MishapCounted DEF WriteFails, Inv
<1>3. /\ Tidy(queue') /\ Watched(queue')
      /\ Tracked(queue) /\ Single(queue) => Tracked(queue')
  BY DiskMeta, SettledTidy DEF WriteFails, Inv
<1>4. Files'
  BY DEF WriteFails, Inv, Files
<1>5. Around'
  BY <1>1, <1>2, OverlapIsTrouble DEF WriteFails, Inv, Around
<1>6. Unborn'
  BY BornIfWriting DEF WriteFails, Unborn
<1>7. Serial'
  BY <1>1, <1>3, SerialKept DEF Inv
<1>8. QED
  BY <1>3, <1>4, <1>5, <1>6, <1>7 DEF Inv, Bookkeeping

LEMMA TimerFiresKeeps ==
  ASSUME Inv, TimerFires
  PROVE  Inv'
<1>1. trouble' = trouble \cup Overlap(queue') /\ queue' = TimerFired(queue, disk)
  BY DEF TimerFires, Trouble
<1>2. /\ Tidy(queue') /\ queue'.pending.ver = 0
      /\ Tracked(queue) => Tracked(queue')
  <2>1. Tidy(queue) /\ queue.timers > 0
    BY DEF TimerFires, Inv, Bookkeeping
  <2>2. QED
    BY <1>1, <2>1, DiskMeta, TimerFiredTidy DEF Inv
<1>3. Watched(queue')
  BY <1>2 DEF Watched
<1>4. Files'
  BY DEF TimerFires, Inv, Files
<1>5. Around'
  BY <1>1, OverlapIsTrouble DEF TimerFires, Inv, Around
<1>6. Unborn'
  <2>1. ASSUME session.ver = 0 PROVE queue'.writes = {}
    <3>1. queue.writes = {} /\ queue.pending.ver = 0 /\ queue \in Queues
      BY <2>1 DEF Inv, Unborn, Bookkeeping, Tidy, Ledger
    <3>2. queue' = [queue EXCEPT !.timers = @ - 1]
      BY <1>1, <3>1 DEF TimerFired
    <3>3. QED
      BY <3>1, <3>2 DEF Queues
  <2>2. QED
    BY <1>2, <2>1 DEF TimerFires, Inv, Unborn
<1>7. Serial'
  BY <1>1, <1>2, SerialKept DEF Inv
<1>8. QED
  BY <1>2, <1>3, <1>4, <1>5, <1>6, <1>7 DEF Inv, Bookkeeping


(* A save, flushed or not. *)
LEMMA EnqueuedTidy ==
  ASSUME Inv, NEW s, s.ver \in Versions, s.ver > 0, s.meta \in Metas,
         NEW q, Tidy(q), q.writes = queue.writes, q.inProgress = queue.inProgress
  PROVE  /\ Tidy(Enqueue(q, s)) /\ Watched(Enqueue(q, s))
         /\ Tracked(queue) => Tracked(Enqueue(q, s))
         /\ Single(queue) => Single(Enqueue(q, s))
         /\ Tidy(Flush(Enqueue(q, s), disk)) /\ Watched(Flush(Enqueue(q, s), disk))
         /\ Tracked(queue) => Tracked(Flush(Enqueue(q, s), disk))
<1> DEFINE e == Enqueue(q, s)
<1>1. /\ Tidy(e) /\ e.pending.armed
      /\ e.writes = q.writes /\ e.inProgress = q.inProgress
  BY EnqueueTidy
<1> HIDE DEF e
<1>2. Watched(e)
  BY <1>1 DEF Watched
<1>3. (Tracked(queue) => Tracked(e)) /\ (Single(queue) => Single(e))
  BY <1>1 DEF Tracked, Single
<1>4. /\ Tidy(Flush(e, disk)) /\ Watched(Flush(e, disk))
      /\ Tracked(e) => Tracked(Flush(e, disk))
  BY <1>1, DiskMeta, FlushTidy DEF Inv
<1>5. QED
  BY <1>1, <1>2, <1>3, <1>4 DEF e

LEMMA SaveKeeps ==
  ASSUME Inv, NEW meta \in Metas, NEW flushed \in BOOLEAN, Save(meta, flushed)
  PROVE  Inv'
<1> DEFINE e == Enqueue(queue, session')
<1>1. /\ trouble' = trouble \cup (Overlap(queue') \cup Late)
      /\ Late \subseteq {"late"}
  BY DEF Save, Trouble, Late
<1>2. session' = [ver |-> session.ver + 1, meta |-> meta]
  BY DEF Save
<1>3. session'.ver \in Versions /\ session'.ver > 0 /\ session'.meta \in Metas
  <2>1. session.ver \in 0 .. MaxSaves /\ session.ver < MaxSaves /\ MaxSaves \in Nat
    BY PersistenceAssumption DEF Save, Inv, Around, Versions
  <2>2. session.ver + 1 \in 0 .. MaxSaves /\ session.ver + 1 > 0
    BY <2>1
  <2>3. QED
    BY <1>2, <2>2 DEF Versions
<1>4. /\ Tidy(e) /\ Watched(e)
      /\ Tracked(queue) => Tracked(e)
      /\ Tidy(Flush(e, disk)) /\ Watched(Flush(e, disk))
      /\ Tracked(queue) => Tracked(Flush(e, disk))
  <2>1. Tidy(queue)
    BY DEF Inv, Bookkeeping
  <2> DEFINE s == session'
  <2>2. s.ver \in Versions /\ s.ver > 0 /\ s.meta \in Metas
    BY <1>3
  <2> HIDE DEF s
  <2>3. /\ Tidy(Enqueue(queue, s)) /\ Watched(Enqueue(queue, s))
        /\ Tracked(queue) => Tracked(Enqueue(queue, s))
        /\ Tidy(Flush(Enqueue(queue, s), disk)) /\ Watched(Flush(Enqueue(queue, s), disk))
        /\ Tracked(queue) => Tracked(Flush(Enqueue(queue, s), disk))
    BY <2>1, <2>2, EnqueuedTidy
  <2>4. QED
    BY <2>3 DEF s
<1>5. queue' = IF flushed THEN Flush(e, disk) ELSE e
  BY DEF Save
<1> HIDE DEF e
<1>6. /\ Tidy(queue') /\ Watched(queue')
      /\ Tracked(queue) => Tracked(queue')
  BY <1>4, <1>5
<1>7. Files'
  BY DEF Save, Inv, Files
<1>8. Around'
  <2>1. session' \in [ver : Versions, meta : Metas]
    BY <1>2, <1>3
  <2>2. QED
    BY <1>1, <2>1, OverlapIsTrouble DEF Save, Inv, Around
<1>9. Unborn'
  BY <1>3, VersionsAreNat DEF Unborn
<1>10. Serial'
  BY <1>1, <1>6, SerialKept DEF Inv
<1>11. QED
  BY <1>6, <1>7, <1>8, <1>9, <1>10 DEF Inv, Bookkeeping

LEMMA FlushSessionKeeps ==
  ASSUME Inv, FlushSession
  PROVE  Inv'
<1>1. trouble' = trouble \cup Overlap(queue') /\ queue' = Flush(queue, disk)
  BY DEF FlushSession, Trouble
<1>2. /\ Tidy(queue') /\ Watched(queue')
      /\ Tracked(queue) => Tracked(queue')
  BY <1>1, DiskMeta, FlushTidy DEF Inv, Bookkeeping
<1>3. session.ver # 0
  <2>1. queue.pending.ver # 0
    BY DEF FlushSession
  <2>2. QED
    BY <2>1 DEF Inv, Unborn
<1>4. Files' /\ Unborn'
  BY <1>3 DEF FlushSession, Inv, Files, Unborn
<1>5. Around'
  BY <1>1, OverlapIsTrouble DEF FlushSession, Inv, Around
<1>6. Serial'
  BY <1>1, <1>2, SerialKept DEF Inv
<1>7. QED
  BY <1>2, <1>4, <1>5, <1>6 DEF Inv, Bookkeeping

LEMMA UpdateStoredKeeps ==
  ASSUME Inv, NEW meta \in Metas, UpdateStored(meta)
  PROVE  Inv'
<1> DEFINE s == [ver |-> disk.main.ver, meta |-> meta]
<1>1. /\ trouble' = trouble \cup ({"update"} \cup Overlap(queue'))
      /\ queue' = Flush(Enqueue(queue, s), disk)
      /\ disk.main.kind = "whole"
  BY DEF UpdateStored, Trouble
<1>2. mishaps' \in 0 .. MaxMishaps /\ "update" \in MishapKinds
  BY MishapCounted DEF UpdateStored, Inv
<1>3. s.ver \in Versions /\ s.ver > 0 /\ s.meta \in Metas
  <2>1. disk.main \in Contents /\ disk.main.ver > 0
    BY <1>1, DiskMeta DEF Inv, Files, File
  <2>2. disk.main.ver \in Versions
    BY <2>1 DEF Contents
  <2>3. QED
    BY <2>1, <2>2
<1> HIDE DEF s
<1>4. /\ Tidy(queue') /\ Watched(queue')
      /\ Tracked(queue) => Tracked(queue')
  BY <1>1, <1>3, EnqueuedTidy DEF Inv, Bookkeeping
<1>5. session.ver # 0
  BY <1>1 DEF Inv, Unborn
<1>6. Files' /\ Unborn'
  BY <1>5 DEF UpdateStored, Inv, Files, Unborn
<1>7. Around'
  BY <1>1, <1>2, OverlapIsTrouble DEF UpdateStored, Inv, Around
<1>8. Serial'
  BY <1>1, <1>4, SerialKept DEF Inv
<1>9. QED
  BY <1>4, <1>6, <1>7, <1>8 DEF Inv, Bookkeeping


LEMMA AdoptKeeps ==
  ASSUME Inv, NEW header \in Metas, session.ver # 0, Adopt(header)
  PROVE  /\ session' \in [ver : Versions, meta : Metas] /\ session'.ver = session.ver
         /\ Tidy(queue') /\ Watched(queue')
         /\ Tracked(queue) => Tracked(queue')
         /\ Single(queue) => Single(queue')
<1>1. session \in [ver : Versions, meta : Metas] /\ Tidy(queue) /\ Watched(queue)
  BY DEF Inv, Around, Bookkeeping
<1>2. CASE header = session.meta
  BY <1>1, <1>2 DEF Adopt
<1>3. CASE header # session.meta
  <2> DEFINE c == CancelEntry(queue)
  <2>1. session' = [session EXCEPT !.meta = header] /\ queue' = Enqueue(c, session')
    BY <1>3 DEF Adopt
  <2>2. session' \in [ver : Versions, meta : Metas] /\ session'.ver = session.ver
    BY <1>1, <2>1
  <2>3. session.ver \in Nat
    <3>1. session.ver \in Versions
      BY <1>1
    <3>2. QED
      BY <3>1, VersionsAreNat
  <2> DEFINE s == session'
  <2>4. s.ver \in Versions /\ s.ver > 0 /\ s.meta \in Metas
    <3>1. s.ver \in Versions /\ s.meta \in Metas
      BY <2>2
    <3>2. s.ver > 0
      BY <2>2, <2>3
    <3>3. QED
      BY <3>1, <3>2
  <2>5. queue' = Enqueue(c, s)
    BY <2>1
  <2>6. Tidy(c) /\ c.writes = queue.writes /\ c.inProgress = queue.inProgress
    BY <1>1, CancelTidy
  <2> HIDE DEF s, c
  <2>7. /\ Tidy(Enqueue(c, s)) /\ Watched(Enqueue(c, s))
        /\ Tracked(queue) => Tracked(Enqueue(c, s))
        /\ Single(queue) => Single(Enqueue(c, s))
    BY <2>4, <2>6, EnqueuedTidy
  <2>8. QED
    BY <2>2, <2>5, <2>7
<1>4. QED
  BY <1>2, <1>3

LEMMA WatcherReportsKeeps ==
  ASSUME Inv, NEW busy \in BOOLEAN, WatcherReports(busy)
  PROVE  Inv'
<1> DEFINE header == disk.main.meta
<1>1. session.ver # 0 /\ disk' = disk /\ watch' = FALSE /\ listed' = listed
  BY DEF WatcherReports, Inv, Unborn
<1>2. header \in MetasOrNone
  BY DiskMeta DEF Inv
<1>3. /\ session' \in [ver : Versions, meta : Metas] /\ session'.ver = session.ver
      /\ Tidy(queue') /\ Watched(queue')
      /\ Tracked(queue) => Tracked(queue')
      /\ Single(queue) => Single(queue')
      /\ deferred' \in MetasOrNone
  <2>1. ASSUME UNCHANGED <<session, queue>>, deferred' \in {deferred, header}
        PROVE  /\ session' \in [ver : Versions, meta : Metas] /\ session'.ver = session.ver
               /\ Tidy(queue') /\ Watched(queue')
               /\ Tracked(queue) => Tracked(queue')
               /\ Single(queue) => Single(queue')
               /\ deferred' \in MetasOrNone
    BY <1>2, <2>1 DEF Inv, Around, Bookkeeping
  <2>2. CASE header \in {NoMeta, queue.signature} \/ ~listed
    BY <2>1, <2>2 DEF WatcherReports
  <2>3. CASE header \notin {NoMeta, queue.signature} /\ listed /\ busy
    BY <2>1, <2>3 DEF WatcherReports
  <2>4. CASE header \notin {NoMeta, queue.signature} /\ listed /\ ~busy
    <3>1. header \in Metas
      BY <1>2, <2>4 DEF MetasOrNone
    <3>2. Adopt(header) /\ deferred' = deferred
      BY <2>4 DEF WatcherReports
    <3>3. deferred \in MetasOrNone
      BY DEF Inv, Around
    <3> HIDE DEF header
    <3>4. QED
      BY <1>1, <3>1, <3>2, <3>3, AdoptKeeps
  <2>5. QED
    BY <2>2, <2>3, <2>4
<1>4. /\ trouble' = trouble \/ trouble' = trouble \cup {"misread"}
      /\ mishaps' \in 0 .. MaxMishaps
  <2>1. \/ UNCHANGED <<trouble, mishaps>>
        \/ Mishap("misread") /\ Trouble({"misread"})
    BY DEF WatcherReports
  <2>2. CASE UNCHANGED <<trouble, mishaps>>
    BY <2>2 DEF Inv, Around
  <2>3. CASE Mishap("misread") /\ Trouble({"misread"})
    BY <2>3, MishapCounted DEF Trouble, Inv
  <2>4. QED
    BY <2>1, <2>2, <2>3
<1>5. Files' /\ Unborn'
  BY <1>1, <1>3 DEF Inv, Files, Unborn
<1>6. Around'
  BY <1>1, <1>3, <1>4 DEF Inv, Around, MishapKinds
<1>7. Serial'
  BY <1>3, <1>4 DEF Inv, Serial
<1>8. QED
  BY <1>3, <1>5, <1>6, <1>7 DEF Inv, Bookkeeping

LEMMA DeferredAppliedKeeps ==
  ASSUME Inv, DeferredApplied
  PROVE  Inv'
<1>1. session.ver # 0 /\ deferred \in Metas
  BY DEF DeferredApplied, Inv, Unborn, Around, MetasOrNone
<1>2. /\ session' \in [ver : Versions, meta : Metas] /\ session'.ver = session.ver
      /\ Tidy(queue') /\ Watched(queue')
      /\ Tracked(queue) => Tracked(queue')
      /\ Single(queue) => Single(queue')
  BY <1>1, AdoptKeeps DEF DeferredApplied
<1>3. Files' /\ Unborn'
  BY <1>1, <1>2 DEF DeferredApplied, Inv, Files, Unborn
<1>4. trouble' = trouble \cup Late /\ Late \subseteq {"late"}
  BY DEF DeferredApplied, Trouble, Late
<1>5. Around'
  BY <1>2, <1>4 DEF DeferredApplied, Inv, Around, MetasOrNone
<1>6. Serial'
  BY <1>2, <1>4 DEF Inv, Serial
<1>7. QED
  BY <1>2, <1>3, <1>5, <1>6 DEF Inv, Bookkeeping

(* Writes that lose their files keep their bookkeeping. *)
LEMMA ErasedIsWrite ==
  ASSUME NEW w \in Writes
  PROVE  /\ Erased(w) \in Writes
         /\ Erased(w).id = w.id
         /\ Erased(w).answers = w.answers
         /\ Erased(w).waiters = w.waiters
<1> DEFINE step == IF w.step = "open" THEN "lost" ELSE w.step
<1>1. w.step \in Steps
  BY DEF Writes, Steps
<1>2. step \in Steps /\ "nothing" \in Places
  BY <1>1 DEF Steps, Places
<1>3. Erased(w) = Stepped(w, step, "nothing")
  BY DEF Erased, Stepped, Writes
<1> HIDE DEF step
<1>4. QED
  BY <1>2, <1>3, SteppedIsWrite

LEMMA DeleteSessionKeeps ==
  ASSUME Inv, DeleteSession
  PROVE  Inv'
<1> DEFINE c == CancelEntry(queue)
           f == [w \in c.writes |-> Erased(w)]
           ws == {f[w] : w \in c.writes}
           n == WithWrites(c, ws)
<1>1. Tidy(queue) /\ session \in [ver : Versions, meta : Metas]
  BY DEF Inv, Bookkeeping, Around
<1>2. /\ Tidy(c) /\ c.pending = NoEntry
      /\ c.writes = queue.writes /\ c.inProgress = queue.inProgress
  BY <1>1, CancelTidy
<1>3. queue' = n
  BY <1>2 DEF DeleteSession, WithWrites
<1> HIDE DEF c
<1>4. /\ Watched(c)
      /\ Tracked(queue) => Tracked(c)
      /\ Single(queue) => Single(c)
  BY <1>2 DEF Watched, NoEntry, Tracked, Single
<1>5. c.writes \in SUBSET Writes /\ c \in Queues
  BY <1>2 DEF Tidy, Ledger, Queues
<1>6. \A w \in c.writes : /\ f[w] \in Writes /\ f[w].id = w.id
                          /\ f[w].answers = w.answers /\ f[w].waiters = w.waiters
  BY <1>5, ErasedIsWrite
<1>7. f \in [c.writes -> Writes] /\ ws \in SUBSET Writes
  BY <1>6
<1>8. ws = {} <=> c.writes = {}
  OBVIOUS
<1> HIDE DEF f
<1>9. /\ Tidy(n) /\ Watched(n)
      /\ Tracked(c) => Tracked(n)
      /\ Single(c) => Single(n)
  BY <1>2, <1>4, <1>6, <1>7, MovedWrites
<1> HIDE DEF ws
<1>10. n.pending = NoEntry /\ n.writes = ws
  BY <1>2, <1>5, <1>7, OtherWrites
<1> HIDE DEF n
<1>11. Bookkeeping'
  BY <1>3, <1>9 DEF Bookkeeping
<1>12. trouble' = trouble \cup {"delete"} /\ disk' = [main |-> Absent, tmp |-> Absent]
  BY DEF DeleteSession, Trouble
<1>13. Files'
  <2>1. File(Absent) /\ Absent \in Contents
    BY FileKinds DEF File
  <2>2. QED
    BY <1>12, <2>1 DEF Files
<1>14. Around'
  BY <1>12, MishapCounted DEF DeleteSession, Inv, Around
<1>15. Unborn'
  <2>1. session' = session /\ watch' = watch /\ deferred' = deferred
    BY DEF DeleteSession
  <2>2. queue'.pending.ver = 0
    BY <1>3, <1>10 DEF NoEntry
  <2>3. disk'.main.kind # "whole" /\ disk'.tmp.kind # "whole"
    BY <1>12, FileKinds
  <2>4. ASSUME session.ver = 0
        PROVE  queue'.writes = {}
    BY <2>4, <1>2, <1>3, <1>8, <1>10 DEF Inv, Unborn
  <2>5. QED
    BY <2>1, <2>2, <2>3, <2>4, <1>12 DEF Inv, Unborn
<1>16. Serial'
  BY <1>3, <1>4, <1>9, <1>12 DEF Inv, Serial
<1>17. QED
  BY <1>11, <1>13, <1>14, <1>15, <1>16 DEF Inv

LEMMA OutsiderEditsKeeps ==
  ASSUME Inv, NEW meta \in Metas, OutsiderEdits(meta)
  PROVE  Inv'
<1> DEFINE m == [disk.main EXCEPT !.meta = meta, !.outside = TRUE]
<1>1. disk.main \in Contents /\ disk.main.kind = "whole" /\ disk.main.ver > 0
  BY DiskMeta DEF OutsiderEdits, Inv, Files, File
<1>2. m \in Contents /\ m.ver = disk.main.ver /\ m.meta = meta
  BY <1>1 DEF Contents, MetasOrNone
<1>3. disk' = [disk EXCEPT !.main = m]
  BY DEF OutsiderEdits, Inv, Files
<1> HIDE DEF m
<1>4. File(m)
  BY <1>1, <1>2 DEF File
<1>5. Files'
  BY <1>2, <1>3, <1>4 DEF Inv, Files
<1>6. mishaps' \in 0 .. MaxMishaps /\ "edit" \in MishapKinds
  BY MishapCounted DEF OutsiderEdits, Inv
<1>7. Bookkeeping' /\ Serial'
  BY DEF OutsiderEdits, Trouble, Inv, Bookkeeping, Serial
<1>8. Around'
  BY <1>6 DEF OutsiderEdits, Trouble, Inv, Around, MetasOrNone
<1>9. Unborn'
  BY <1>1 DEF OutsiderEdits, Inv, Unborn
<1>10. QED
  BY <1>5, <1>7, <1>8, <1>9 DEF Inv

LEMMA ListSessionsKeeps ==
  ASSUME Inv, ListSessions
  PROVE  Inv'
<1> DEFINE f == [v \in queue.writes |-> Moved(v, Cleaned)]
           n == WithWrites(queue, {f[v] : v \in queue.writes})
<1>1. /\ Tidy(queue) /\ Watched(queue) /\ queue \in Queues
      /\ queue.writes \in SUBSET Writes
  BY DEF Inv, Bookkeeping, Tidy, Ledger, Queues
<1>2. queue' = n
  <2>1. Redirect(queue.writes, Cleaned) = {f[v] : v \in queue.writes}
    BY DEF Redirect, Moved
  <2> HIDE DEF f
  <2>2. QED
    BY <2>1 DEF ListSessions, WithWrites
<1>3. \A v \in queue.writes : /\ f[v] \in Writes /\ f[v].id = v.id
                              /\ f[v].answers = v.answers /\ f[v].waiters = v.waiters
  BY <1>1, MovedIsWrite
<1>4. f \in [queue.writes -> Writes]
  BY <1>3
<1>5. queue.writes = {} => {f[v] : v \in queue.writes} = {}
  OBVIOUS
<1> HIDE DEF f
<1>6. /\ Tidy(queue') /\ Watched(queue')
      /\ Tracked(queue) => Tracked(queue')
      /\ Single(queue) => Single(queue')
  BY <1>1, <1>2, <1>3, <1>4, MovedWrites
<1>7. /\ queue'.pending = queue.pending
      /\ queue.writes = {} => queue'.writes = {}
  <2>1. {f[v] : v \in queue.writes} \in SUBSET Writes
    BY <1>4
  <2>2. QED
    BY <1>1, <1>2, <1>5, <2>1, OtherWrites
<1>8. disk' = [disk EXCEPT !.tmp = Absent]
  BY DEF ListSessions
<1>9. Files' /\ disk'.main = disk.main
  BY <1>8, FileKinds DEF Inv, Files, File
<1>10. mishaps' \in 0 .. MaxMishaps /\ "cleanup" \in MishapKinds
  BY MishapCounted DEF ListSessions, Inv
<1>11. Around'
  BY <1>10 DEF ListSessions, Trouble, Inv, Around
<1>12. Unborn'
  BY <1>7, <1>9 DEF ListSessions, Inv, Unborn
<1>13. Serial'
  BY <1>6 DEF ListSessions, Trouble, Inv, Serial
<1>14. QED
  BY <1>6, <1>9, <1>11, <1>12, <1>13 DEF Inv, Bookkeeping


LEMMA CrashKeeps ==
  ASSUME Inv, Crash
  PROVE  Inv'
<1>1. /\ queue' = EmptyQueue /\ disk' = [disk EXCEPT !.tmp = Absent]
      /\ watch' = FALSE /\ deferred' = NoMeta
  BY DEF Crash
<1>2. mishaps' \in 0 .. MaxMishaps /\ "crash" \in MishapKinds
  BY MishapCounted DEF Crash, Inv
<1>3. Files' /\ disk'.main = disk.main
  BY <1>1, FileKinds DEF Inv, Files, File
<1>4. File(disk.main) /\ disk.main.ver \in Versions
  BY DiskMeta DEF Inv, Files, Contents
<1>5. /\ session' \in [ver : Versions, meta : Metas]
      /\ session'.ver = 0 => disk.main.kind # "whole"
  <2>1. CASE disk.main.kind = "whole"
    <3>1. session' = [ver |-> disk.main.ver, meta |-> disk.main.meta]
      BY <2>1 DEF Crash
    <3>2. disk.main.meta \in Metas /\ disk.main.ver # 0
      BY <1>4, <2>1 DEF File
    <3>3. QED
      BY <1>4, <3>1, <3>2
  <2>2. CASE disk.main.kind # "whole"
    <3>1. session' = [ver |-> 0, meta |-> FirstMeta]
      BY <2>2 DEF Crash
    <3>2. QED
      BY <2>2, <3>1, VersionsAreNat, PersistenceAssumption
  <2>3. QED
    BY <2>1, <2>2
<1>6. Around'
  BY <1>1, <1>2, <1>5 DEF Crash, Trouble, Inv, Around, MetasOrNone
<1>7. Unborn'
  BY <1>1, <1>3, <1>5, EmptyQueueTidy DEF Unborn
<1>8. Bookkeeping' /\ Serial'
  BY <1>1, EmptyQueueTidy DEF Bookkeeping, Serial
<1>9. QED
  BY <1>3, <1>6, <1>7, <1>8 DEF Inv

LEMMA StutterKeeps ==
  ASSUME Inv, UNCHANGED vars
  PROVE  Inv'
BY DEF vars, Inv, Files, Bookkeeping, Around, Unborn, Serial

LEMMA InvNext == Inv /\ [Next]_vars => Inv'
<1> SUFFICES ASSUME Inv, [Next]_vars PROVE Inv'
  OBVIOUS
<1>1. ASSUME NEW w \in queue.writes, FileOperation(w) PROVE Inv'
  BY <1>1, OpenTmpKeeps, OpenFailsKeeps, FillTmpKeeps, UnlinkMainKeeps, RenameTmpKeeps
     DEF FileOperation
<1>2. CASE TimerFires
  BY <1>2, TimerFiresKeeps
<1>3. CASE Callers
  BY <1>3, SaveKeeps, FlushSessionKeeps, WatcherReportsKeeps, DeferredAppliedKeeps,
     DeleteSessionKeeps
     DEF Callers
<1>4. CASE Environment
  BY <1>4, WriteFailsKeeps, UpdateStoredKeeps, OutsiderEditsKeeps, ListSessionsKeeps,
     CrashKeeps DEF Environment
<1>5. CASE UNCHANGED vars
  BY <1>5, StutterKeeps
<1>6. QED
  BY <1>1, <1>2, <1>3, <1>4, <1>5 DEF Next

LEMMA InvHolds == Spec => []Inv
<1>1. Init => Inv
  BY InvInit
<1>2. Inv /\ [Next]_vars => Inv'
  BY InvNext
<1>3. QED
  BY <1>1, <1>2, PTL DEF Spec

-----------------------------------------------------------------------------
(* The queue, the files and the session in memory keep their types, whatever *)
(* the order of saves, flushes, timers, file operations and mishaps.         *)
THEOREM TypeCorrect == Spec => []TypeOK
<1>1. Inv => TypeOK
  BY InvGives
<1>2. QED
  BY <1>1, InvHolds, PTL

(* An entry that waits to be written always has a timer that runs or a flush *)
(* that waits its turn: enqueue, flush, cancel and the end of a write never  *)
(* leave one behind.                                                         *)
THEOREM NobodyForgotten == Spec => []Attended
<1>1. Inv => Attended
  BY InvGives
<1>2. QED
  BY <1>1, InvHolds, PTL

(* As long as no two flushes wait for the same write, no two writes that     *)
(* flushes started are in flight together, whatever timers do.               *)
THEOREM OneFlushAtATime == Spec => []FlushesSerialized
<1>1. Inv => FlushesSerialized
  BY InvGives
<1>2. QED
  BY <1>1, InvHolds, PTL

-----------------------------------------------------------------------------
(* What reaches the session's file, for every number of saves and of waiting *)
(* flushes: what a flush promised is stored, the file never goes back, and   *)
(* at rest it is the session in memory, if that has not been deleted.  The   *)
(* argument follows the one write in flight: while writes do not overlap and *)
(* nothing else goes wrong, the step it is at tells what the two files hold, *)
(* and it is never older than the file nor newer than the session.           *)

(* What a reader of the files d finds. *)
Found(d) == IF d.main.kind = "absent" THEN d.tmp.ver ELSE d.main.ver

Alone(q) == \A v, w \in q.writes : v = w

(* Nothing the queue or the file holds is newer than session s, the pending *)
(* entry is as new, and a flush waits only while there is one.              *)
Recent(q, s, d) ==
  /\ d.main.ver <= s.ver
  /\ q.pending.ver \in {0, s.ver}
  /\ \A w \in q.writes :
       /\ w.ver <= s.ver
       /\ w.answers <= w.ver
       /\ w.waiters # <<>> => q.pending.ver > 0 /\ Head(w.waiters) <= s.ver

(* Where a write is tells what the files hold. *)
At(w, d) ==
  /\ d.main.ver <= w.ver
  /\ w.step # "lost"
  /\ w.step = "open"   => w.onto = "nothing" /\ d.tmp = Absent
  /\ w.step = "fill"   => w.onto = "tmp" /\ d.tmp = Truncated
  /\ w.step = "unlink" => w.onto = "nothing" /\ d.tmp = Whole(w)
  /\ w.step = "rename" => w.onto = "nothing" /\ d.tmp = Whole(w) /\ d.main = Absent

Placed(q, d) ==
  /\ d.main = Absent \/ d.main.kind = "whole"
  /\ q.writes = {} => d.tmp = Absent
  /\ \A w \in q.writes : At(w, d)

(* What the last write that started wrote is what the queue takes for its   *)
(* own, and it is the session's unless an entry is pending.                 *)
Own(q, d) ==
  /\ q.writes = {} => NoMeta \in {d.main.meta, q.signature} \/ d.main.meta = q.signature
  /\ \A w \in q.writes : w.meta = q.signature

Latest(q, s, d) ==
  /\ q.pending.ver > 0 => q.pending.meta = s.meta
  /\ q.pending.ver = 0 => /\ q.writes = {} /\ s.ver > 0 => d.main = Whole(s)
                          /\ \A w \in q.writes : w.ver = s.ver /\ w.meta = s.meta

Fine(q, s, d) == Alone(q) /\ Recent(q, s, d) /\ Placed(q, d)
Kept(q, s, d) == Own(q, d) /\ Latest(q, s, d)

Calm   == trouble \subseteq {"edit", "misread", "crowd"}
Simple == trouble \subseteq {"edit", "misread"}
Alike  == trouble \subseteq {"crowd"}

Orderly  == Calm   => Fine(queue, session, disk)
Answered == Simple => \A v \in queue.answered : v <= Found(disk)
Unedited == Alike  => deferred = NoMeta /\ ~disk.main.outside /\ Kept(queue, session, disk)

Stored == Orderly /\ Answered /\ Unedited

(* Whether the session was deleted; and then nothing is left of it, of its   *)
(* entry, or for the writes under way to write to.                          *)
Mourned == trouble \subseteq {"crowd", "delete"} /\ "delete" \in trouble

Nothing(q, d) ==
  /\ d.main = Absent /\ d.tmp = Absent
  /\ q.pending.ver = 0
  /\ \A w \in q.writes : w.onto = "nothing" /\ w.step # "open"

Gone == /\ "delete" \notin trouble => listed
        /\ Mourned => ~listed /\ Nothing(queue, disk)

-----------------------------------------------------------------------------
(* Starting a write. *)

LEMMA WholeFields ==
  ASSUME NEW s
  PROVE  /\ Whole(s).kind = "whole" /\ Whole(s).ver = s.ver /\ Whole(s).meta = s.meta
         /\ Whole(s).outside = FALSE
BY DEF Whole

LEMMA AbsentFields ==
  /\ Absent.kind = "absent" /\ Absent.ver = 0 /\ Absent.meta = NoMeta /\ Absent.outside = FALSE
  /\ Truncated.kind = "part" /\ Truncated.ver = 0 /\ Truncated # Absent
BY DEF Absent, Truncated

(* The write that starts, in full. *)
LEMMA StartWriteFields ==
  ASSUME NEW q, Ledger(q), q.pending.ver > 0,
         NEW d, d.main.meta \in MetasOrNone, NEW a \in Versions
  PROVE  LET n == StartWrite(q, d, a)
         IN  /\ n.pending = NoEntry
             /\ n.signature = HeaderToWrite(q, d)
             /\ n.answered = q.answered
             /\ \E w : /\ n.writes = q.writes \cup {w}
                       /\ w \notin q.writes
                       /\ w.step = "open" /\ w.onto = "nothing"
                       /\ w.ver = q.pending.ver /\ w.meta = HeaderToWrite(q, d)
                       /\ w.answers = a /\ w.waiters = <<>>
<1> DEFINE h == HeaderToWrite(q, d)
           w == [id |-> NewId(q), step |-> "open", ver |-> q.pending.ver, meta |-> h,
                 onto |-> "nothing", answers |-> a, waiters |-> <<>>]
           i == IF a = 0 THEN q.inProgress ELSE w.id
           ws == q.writes \cup {w}
           n == [q EXCEPT !.pending = NoEntry, !.signature = h, !.writes = ws,
                          !.inProgress = i]
<1>1. q \in Queues
  BY DEF Ledger
<1>2. /\ w.step = "open" /\ w.onto = "nothing" /\ w.ver = q.pending.ver /\ w.meta = h
      /\ w.answers = a /\ w.waiters = <<>> /\ w.id = NewId(q)
  OBVIOUS
<1>3. StartWrite(q, d, a) = n
  BY <1>1 DEF StartWrite, Queues
<1>4. w \notin q.writes
  <2> HIDE DEF w
  <2> QED
    BY <1>2, NewIdFresh
<1> HIDE DEF h, w, i, ws
<1>5. /\ n.pending = NoEntry /\ n.signature = h /\ n.answered = q.answered /\ n.writes = ws
  BY <1>1 DEF Queues
<1>6. ws = q.writes \cup {w}
  BY DEF ws
<1> HIDE DEF n
<1>7. QED
  BY <1>2, <1>3, <1>4, <1>5, <1>6 DEF h

(* A write that starts while another is in flight overlaps it. *)
LEMMA StartsAlone ==
  ASSUME NEW q, Ledger(q), q.pending.ver > 0,
         NEW d, d.main.meta \in MetasOrNone, NEW a \in Versions,
         "overlap" \notin Overlap(StartWrite(q, d, a))
  PROVE  q.writes = {}
<1> DEFINE n == StartWrite(q, d, a)
<1>1. PICK w : n.writes = q.writes \cup {w} /\ w \notin q.writes
  BY StartWriteFields
<1>2. ~(Cardinality(n.writes) > 1)
  BY DEF Overlap
<1>3. IsFiniteSet(q.writes) /\ Cardinality(q.writes) \in Nat
  BY FS_CardinalityType DEF Ledger
<1>4. Cardinality(n.writes) = Cardinality(q.writes) + 1
  <2> HIDE DEF n
  <2> QED
    BY <1>1, <1>3, FS_AddElement
<1>5. Cardinality(q.writes) = 0
  BY <1>2, <1>3, <1>4
<1>6. QED
  BY <1>3, <1>5, FS_EmptySet

LEMMA StartedFine ==
  ASSUME NEW q, Ledger(q), q.pending.ver > 0, q.writes = {},
         NEW d, d.main.meta \in MetasOrNone, NEW a \in Versions,
         NEW s, s.ver \in Versions, Recent(q, s, d), Placed(q, d), a <= q.pending.ver
  PROVE  LET n == StartWrite(q, d, a)
         IN  /\ Fine(n, s, d)
             /\ n.answered = q.answered
             /\ Kept(q, s, d) => Kept(n, s, d)
<1> DEFINE n == StartWrite(q, d, a)
           h == HeaderToWrite(q, d)
<1>1. /\ n.pending = NoEntry /\ n.signature = h /\ n.answered = q.answered
      /\ \E w : /\ n.writes = q.writes \cup {w}
                /\ w.step = "open" /\ w.onto = "nothing"
                /\ w.ver = q.pending.ver /\ w.meta = h
                /\ w.answers = a /\ w.waiters = <<>>
  BY StartWriteFields
<1> HIDE DEF n, h
<1>2. PICK w : /\ n.writes = {w}
               /\ w.step = "open" /\ w.onto = "nothing"
               /\ w.ver = q.pending.ver /\ w.meta = h
               /\ w.answers = a /\ w.waiters = <<>>
  BY <1>1
<1>3. q.pending.ver = s.ver /\ s.ver \in Nat /\ d.main.ver <= s.ver
  <2>1. q.pending.ver \in {0, s.ver} /\ d.main.ver <= s.ver
    BY DEF Recent
  <2>2. s.ver \in Nat
    BY VersionsAreNat
  <2>3. q.pending.ver # 0
    OBVIOUS
  <2>4. QED
    BY <2>1, <2>2, <2>3
<1>4. n.pending.ver = 0
  BY <1>1 DEF NoEntry
<1>5. Recent(n, s, d)
  BY <1>2, <1>3, <1>4 DEF Recent
<1>6. Placed(n, d)
  <2>1. At(w, d)
    BY <1>2, <1>3 DEF At, Placed
  <2>2. QED
    BY <1>2, <2>1 DEF Placed
<1>7. Alone(n)
  BY <1>2 DEF Alone
<1>8. ASSUME Kept(q, s, d) PROVE Kept(n, s, d)
  <2>1. NoMeta \in {d.main.meta, q.signature} \/ d.main.meta = q.signature
    BY <1>8 DEF Kept, Own
  <2>2. h = q.pending.meta
    BY <2>1 DEF h, HeaderToWrite
  <2>3. q.pending.meta = s.meta
    BY <1>8 DEF Kept, Latest
  <2>4. w.meta = s.meta /\ w.ver = s.ver /\ n.signature = w.meta
    BY <1>1, <1>2, <1>3, <2>2, <2>3
  <2>5. QED
    BY <1>2, <1>4, <2>4 DEF Kept, Own, Latest
<1>9. QED
  BY <1>1, <1>5, <1>6, <1>7, <1>8 DEF Fine, n

-----------------------------------------------------------------------------
(* The methods that callers and timers call. *)

(* Two queues that differ in their timers only. *)
LEMMA SameFine ==
  ASSUME NEW q, NEW n, NEW s, NEW d,
         n.pending.ver = q.pending.ver, n.pending.meta = q.pending.meta,
         n.writes = q.writes, n.signature = q.signature
  PROVE  /\ Fine(q, s, d) => Fine(n, s, d)
         /\ Kept(q, s, d) => Kept(n, s, d)
<1>1. Fine(q, s, d) => Fine(n, s, d)
  <2>1. Alone(q) => Alone(n)
    BY DEF Alone
  <2>2. Recent(q, s, d) => Recent(n, s, d)
    BY DEF Recent
  <2>3. Placed(q, d) => Placed(n, d)
    BY DEF Placed
  <2>4. QED
    BY <2>1, <2>2, <2>3 DEF Fine
<1>2. Kept(q, s, d) => Kept(n, s, d)
  <2>1. Own(q, d) => Own(n, d)
    BY DEF Own
  <2>2. Latest(q, s, d) => Latest(n, s, d)
    BY DEF Latest
  <2>3. QED
    BY <2>1, <2>2 DEF Kept
<1>3. QED
  BY <1>1, <1>2

LEMMA WithEntryLeaves ==
  ASSUME NEW q \in Queues, NEW p \in Entries, NEW t \in Nat
  PROVE  /\ WithEntry(q, p, t).pending = p
         /\ WithEntry(q, p, t).signature = q.signature
         /\ WithEntry(q, p, t).answered = q.answered
         /\ WithEntry(q, p, t).writes = q.writes
         /\ WithEntry(q, p, t).inProgress = q.inProgress
BY DEF WithEntry, Queues

LEMMA ClearTimerLeaves ==
  ASSUME NEW q, Tidy(q)
  PROVE  LET c == ClearTimer(q)
         IN  /\ c.pending.ver = q.pending.ver /\ c.pending.meta = q.pending.meta
             /\ c.signature = q.signature /\ c.answered = q.answered
             /\ c.writes = q.writes /\ c.inProgress = q.inProgress
<1>1. /\ q \in Queues /\ q.pending \in Entries /\ q.timers \in Nat
      /\ q.pending.armed => q.timers > 0
  BY DEF Tidy, Ledger, Queues
<1>2. CASE q.pending.armed
  <2> DEFINE p == [q.pending EXCEPT !.armed = FALSE]
             t == q.timers - 1
  <2>1. p \in Entries /\ p.ver = q.pending.ver /\ p.meta = q.pending.meta
    BY <1>1 DEF Entries
  <2>2. t \in Nat
    BY <1>1, <1>2
  <2>3. ClearTimer(q) = WithEntry(q, p, t)
    BY <1>1, <1>2 DEF ClearTimer, WithEntry, Queues
  <2> HIDE DEF p, t
  <2>4. QED
    BY <1>1, <2>1, <2>2, <2>3, WithEntryLeaves
<1>3. CASE ~q.pending.armed
  BY <1>3 DEF ClearTimer
<1>4. QED
  BY <1>2, <1>3

LEMMA EnqueueLeaves ==
  ASSUME NEW q, Tidy(q), NEW s, s.ver \in Versions, s.meta \in Metas
  PROVE  LET e == Enqueue(q, s)
         IN  /\ e.pending.ver = s.ver /\ e.pending.meta = s.meta
             /\ e.signature = q.signature /\ e.answered = q.answered
             /\ e.writes = q.writes
<1> DEFINE c == ClearTimer(q)
           p == [ver |-> s.ver, meta |-> s.meta, armed |-> TRUE]
           t == c.timers + 1
<1>1. /\ Tidy(c) /\ c.signature = q.signature /\ c.answered = q.answered
      /\ c.writes = q.writes
  BY ClearTimerTidy, ClearTimerLeaves
<1>2. p \in Entries /\ p.ver = s.ver /\ p.meta = s.meta
  BY DEF Entries, MetasOrNone
<1> HIDE DEF c
<1>3. c \in Queues /\ c.timers \in Nat
  BY <1>1 DEF Tidy, Ledger, Queues
<1>4. t \in Nat
  BY <1>3
<1>5. Enqueue(q, s) = WithEntry(c, p, t)
  BY <1>3 DEF Enqueue, WithEntry, Queues, c
<1> HIDE DEF p, t
<1>6. QED
  BY <1>1, <1>2, <1>3, <1>4, <1>5, WithEntryLeaves

LEMMA CancelLeaves ==
  ASSUME NEW q, Tidy(q)
  PROVE  CancelEntry(q).answered = q.answered
<1> DEFINE c == ClearTimer(q)
           e == [c EXCEPT !.pending = NoEntry, !.signature = NoMeta]
<1>1. Tidy(c) /\ c.answered = q.answered
  BY ClearTimerTidy, ClearTimerLeaves
<1> HIDE DEF c
<1>2. c \in Queues
  BY <1>1 DEF Tidy, Ledger
<1>3. e.answered = c.answered
  BY <1>2 DEF Queues
<1>4. CancelEntry(q) = e
  BY DEF CancelEntry, c
<1>5. QED
  BY <1>1, <1>3, <1>4

(* enqueue: the session t, no older than s, is what waits to be written now. *)
(* p is the queue before, q the same with its entry, perhaps, cancelled.     *)
LEMMA EnqueueFine ==
  ASSUME NEW q, Tidy(q), NEW p, q.writes = p.writes, \A w \in p.writes : w \in Writes,
         NEW s, s.ver \in Versions, NEW d, d.main.ver \in Versions, Fine(p, s, d),
         NEW t, t.ver \in Versions, t.ver > 0, t.meta \in Metas, s.ver <= t.ver
  PROVE  /\ Fine(Enqueue(q, t), t, d)
         /\ Enqueue(q, t).answered = q.answered
         /\ Own(q, d) => Kept(Enqueue(q, t), t, d)
<1> DEFINE e == Enqueue(q, t)
<1>1. /\ e.pending.ver = t.ver /\ e.pending.meta = t.meta
      /\ e.signature = q.signature /\ e.answered = q.answered
      /\ e.writes = q.writes
  BY EnqueueLeaves
<1> HIDE DEF e
<1>2. /\ s.ver \in Nat /\ t.ver \in Nat /\ d.main.ver \in Nat
      /\ \A w \in p.writes : /\ w.ver \in Nat
                             /\ w.waiters # <<>> => Head(w.waiters) \in Nat
  <2>1. \A w \in p.writes : w.ver \in Nat
    BY VersionsAreNat DEF Writes
  <2>2. \A w \in p.writes : w.waiters # <<>> => Head(w.waiters) \in Nat
    BY VersionsAreNat, WaitersAreVersions
  <2>3. QED
    BY <2>1, <2>2, VersionsAreNat
<1>3. Recent(e, t, d)
  <2>1. /\ d.main.ver <= s.ver
        /\ \A w \in p.writes : /\ w.ver <= s.ver /\ w.answers <= w.ver
                               /\ w.waiters # <<>> => Head(w.waiters) <= s.ver
    BY DEF Fine, Recent
  <2>2. d.main.ver <= t.ver
    BY <1>2, <2>1
  <2>3. \A w \in p.writes : /\ w.ver <= t.ver /\ w.answers <= w.ver
                            /\ w.waiters # <<>> => Head(w.waiters) <= t.ver
    BY <1>2, <2>1
  <2>4. QED
    BY <1>1, <2>2, <2>3 DEF Recent
<1>4. Alone(e) /\ Placed(e, d)
  BY <1>1 DEF Fine, Alone, Placed
<1>5. Own(q, d) => Kept(e, t, d)
  <2>1. Own(q, d) => Own(e, d)
    BY <1>1 DEF Own
  <2>2. Latest(e, t, d)
    BY <1>1 DEF Latest
  <2>3. QED
    BY <2>1, <2>2 DEF Kept
<1>6. QED
  BY <1>1, <1>3, <1>4, <1>5 DEF Fine, e

LEMMA TimerFiredFine ==
  ASSUME NEW q, Tidy(q), q.timers > 0, NEW d, d.main.meta \in MetasOrNone,
         NEW s, s.ver \in Versions, Fine(q, s, d),
         "overlap" \notin Overlap(TimerFired(q, d))
  PROVE  /\ Fine(TimerFired(q, d), s, d)
         /\ TimerFired(q, d).answered = q.answered
         /\ Kept(q, s, d) => Kept(TimerFired(q, d), s, d)
<1> DEFINE f == WithEntry(q, q.pending, q.timers - 1)
<1>1. q \in Queues /\ q.pending \in Entries /\ q.timers - 1 \in Nat
  BY DEF Tidy, Ledger, Queues
<1>2. /\ f \in Queues /\ f.pending = q.pending /\ f.signature = q.signature
      /\ f.writes = q.writes /\ f.inProgress = q.inProgress /\ f.answered = q.answered
  BY <1>1, OtherEntry, WithEntryLeaves
<1>3. [q EXCEPT !.timers = @ - 1] = f
  BY <1>1 DEF WithEntry, Queues
<1>4. TimerFired(q, d) = IF q.pending.ver = 0 THEN f ELSE StartWrite(f, d, 0)
  BY <1>3 DEF TimerFired
<1> HIDE DEF f
<1>5. Ledger(f)
  BY <1>2 DEF Tidy, Ledger
<1>6. Fine(f, s, d) /\ (Kept(q, s, d) => Kept(f, s, d))
  BY <1>2, SameFine
<1>7. CASE q.pending.ver = 0
  BY <1>2, <1>4, <1>6, <1>7
<1>8. CASE q.pending.ver # 0
  <2>1. f.pending.ver > 0 /\ f.pending.ver \in Nat /\ 0 <= f.pending.ver
    BY <1>1, <1>2, <1>8, EntryVersion
  <2>2. TimerFired(q, d) = StartWrite(f, d, 0) /\ 0 \in Versions
    BY <1>4, <1>8, VersionsAreNat
  <2>3. f.writes = {}
    BY <1>5, <2>1, <2>2, StartsAlone
  <2>4. Recent(f, s, d) /\ Placed(f, d)
    BY <1>6 DEF Fine
  <2>5. LET n == StartWrite(f, d, 0)
        IN  Fine(n, s, d) /\ n.answered = f.answered /\ (Kept(f, s, d) => Kept(n, s, d))
    BY <1>5, <2>1, <2>2, <2>3, <2>4, StartedFine
  <2>6. QED
    BY <1>2, <1>6, <2>2, <2>5
<1>9. QED
  BY <1>7, <1>8

(* A flush that joins those that wait leaves the write as it is. *)
LEMMA JoinedFields ==
  ASSUME NEW w \in Writes, NEW i, NEW v \in Versions \ {0}
  PROVE  LET j == Joined(w, i, v)
         IN  /\ j.ver = w.ver /\ j.meta = w.meta /\ j.step = w.step /\ j.onto = w.onto
             /\ j.answers = w.answers
             /\ Whole(j) = Whole(w)
             /\ j.waiters # <<>> =>
                  \/ Head(j.waiters) = v
                  \/ w.waiters # <<>> /\ Head(j.waiters) = Head(w.waiters)
<1> DEFINE t == Append(w.waiters, v)
<1>1. w.waiters \in Seq(Versions \ {0})
  BY DEF Writes
<1>2. Head(t) = v \/ (w.waiters # <<>> /\ Head(t) = Head(w.waiters))
  <2> DEFINE u == w.waiters
  <2>1. u \in Seq(Versions \ {0})
    BY <1>1
  <2> HIDE DEF u
  <2>2. Len(Append(u, v)) = Len(u) + 1 /\ Len(u) \in Nat /\ Append(u, v) \in Seq(Versions)
    <3>1. u \in Seq(Versions) /\ v \in Versions
      BY <2>1
    <3>2. QED
      BY <3>1
  <2>3. Head(Append(u, v)) = Append(u, v)[1]
    BY <2>1, <2>2
  <2>4. u = <<>> => Append(u, v)[1] = v
    BY <2>1
  <2>5. u # <<>> => Append(u, v)[1] = u[1]
    BY <2>1
  <2>6. u # <<>> => Head(u) = u[1]
    BY <2>1
  <2>7. QED
    BY <2>3, <2>4, <2>5, <2>6 DEF u
<1>3. CASE w.id = i
  <2>1. Joined(w, i, v) = [w EXCEPT !.waiters = t]
    BY <1>3 DEF Joined
  <2> HIDE DEF t
  <2> DEFINE j == [w EXCEPT !.waiters = t]
  <2>2. /\ j.ver = w.ver /\ j.meta = w.meta /\ j.step = w.step /\ j.onto = w.onto
        /\ j.answers = w.answers /\ j.waiters = t
    BY DEF Writes
  <2> HIDE DEF j
  <2>3. Whole(j) = Whole(w)
    BY <2>2 DEF Whole
  <2>4. QED
    BY <1>2, <2>1, <2>2, <2>3 DEF j
<1>4. CASE w.id # i
  <2>1. Joined(w, i, v) = w
    BY <1>4 DEF Joined
  <2>2. QED
    BY <2>1
<1>5. QED
  BY <1>3, <1>4

LEMMA FlushFine ==
  ASSUME NEW q, Tidy(q), NEW d, d.main.meta \in MetasOrNone,
         NEW s, s.ver \in Versions, Fine(q, s, d),
         "overlap" \notin Overlap(Flush(q, d))
  PROVE  /\ Fine(Flush(q, d), s, d)
         /\ Flush(q, d).answered = q.answered
         /\ Kept(q, s, d) => Kept(Flush(q, d), s, d)
<1> DEFINE c == ClearTimer(q)
           v == q.pending.ver
<1>1. /\ Tidy(c) /\ Ledger(c)
      /\ c.pending.ver = v /\ c.pending.meta = q.pending.meta
      /\ c.signature = q.signature /\ c.answered = q.answered
      /\ c.writes = q.writes /\ c.inProgress = q.inProgress
  BY ClearTimerTidy, ClearTimerLeaves DEF Tidy
<1>2. v \in Nat /\ v \in Versions
  BY EntryVersion DEF Tidy, Ledger
<1>3. Fine(c, s, d) /\ (Kept(q, s, d) => Kept(c, s, d))
  <2> HIDE DEF c
  <2> QED
    BY <1>1, SameFine
<1>4. CASE v = 0
  <2>1. Flush(q, d) = q
    BY <1>4 DEF Flush
  <2>2. QED
    BY <2>1
<1>5. CASE v > 0 /\ q.inProgress = 0
  <2>1. Flush(q, d) = StartWrite(c, d, v)
    BY <1>5 DEF Flush
  <2> HIDE DEF c
  <2>2. c.pending.ver > 0 /\ v <= c.pending.ver
    BY <1>1, <1>2, <1>5
  <2> HIDE DEF v
  <2>3. c.writes = {}
    BY <1>1, <1>2, <2>1, <2>2, StartsAlone
  <2>4. Recent(c, s, d) /\ Placed(c, d)
    BY <1>3 DEF Fine
  <2>5. LET n == StartWrite(c, d, v)
        IN  Fine(n, s, d) /\ n.answered = c.answered /\ (Kept(c, s, d) => Kept(n, s, d))
    BY <1>1, <1>2, <2>2, <2>3, <2>4, StartedFine
  <2>6. QED
    BY <1>1, <1>3, <2>1, <2>5
<1>6. CASE v > 0 /\ q.inProgress # 0
  <2> DEFINE ws == {Joined(w, q.inProgress, v) : w \in c.writes}
             n == WithWrites(c, ws)
  <2>1. c \in Queues /\ c.writes \in SUBSET Writes
    BY <1>1 DEF Ledger, Queues
  <2>2. Flush(q, d) = n
    <3>1. ws = {IF w.id = q.inProgress THEN [w EXCEPT !.waiters = Append(@, v)] ELSE w
                  : w \in q.writes}
      BY <1>1 DEF Joined
    <3>2. v # 0 /\ q.inProgress # 0
      BY <1>6
    <3>3. Flush(q, d) = [c EXCEPT !.writes = ws]
      <4> HIDE DEF ws
      <4> QED
        BY <3>1, <3>2, Zenon DEF Flush
    <3>4. QED
      BY <3>3 DEF WithWrites
  <2> HIDE DEF c
  <2>3. v \in Versions \ {0}
    BY <1>2, <1>6
  <2> HIDE DEF v
  <2>4. \A j \in ws : \E w \in c.writes :
          /\ j.ver = w.ver /\ j.meta = w.meta /\ j.step = w.step /\ j.onto = w.onto
          /\ j.answers = w.answers /\ Whole(j) = Whole(w)
          /\ j.waiters # <<>> =>
               \/ Head(j.waiters) = v
               \/ w.waiters # <<>> /\ Head(j.waiters) = Head(w.waiters)
    BY <2>1, <2>3, JoinedFields
  <2>5. ws \in SUBSET Writes
    BY <2>1, <2>3, JoinedIsWrite
  <2>6. \A j \in ws : \E w \in c.writes : j = Joined(w, q.inProgress, v)
    OBVIOUS
  <2>7. ws = {} <=> c.writes = {}
    OBVIOUS
  <2> HIDE DEF ws
  <2>8. /\ n.pending = c.pending /\ n.writes = ws /\ n.answered = c.answered
        /\ n.signature = c.signature
    <3>1. n.signature = c.signature
      BY <2>1 DEF WithWrites, Queues
    <3>2. QED
      BY <2>1, <2>5, <3>1, OtherWrites
  <2> HIDE DEF n
  <2>9. Alone(n)
    BY <1>3, <2>6, <2>8 DEF Fine, Alone
  <2>10. Recent(n, s, d)
    <3>1. /\ d.main.ver <= s.ver /\ v \in {0, s.ver}
          /\ \A w \in c.writes : /\ w.ver <= s.ver /\ w.answers <= w.ver
                                 /\ w.waiters # <<>> => Head(w.waiters) <= s.ver
      BY <1>1, <1>3 DEF Fine, Recent
    <3>2. v <= s.ver /\ n.pending.ver = v /\ v > 0
      <4>1. s.ver \in Nat
        BY VersionsAreNat
      <4>2. QED
        BY <1>1, <1>2, <1>6, <2>3, <2>8, <3>1, <4>1 DEF v
    <3>3. \A j \in ws : /\ j.ver <= s.ver /\ j.answers <= j.ver
                        /\ j.waiters # <<>> => Head(j.waiters) <= s.ver
      <4> SUFFICES ASSUME NEW j \in ws
                   PROVE  /\ j.ver <= s.ver /\ j.answers <= j.ver
                          /\ j.waiters # <<>> => Head(j.waiters) <= s.ver
        OBVIOUS
      <4>1. PICK w \in c.writes :
              /\ j.ver = w.ver /\ j.answers = w.answers
              /\ j.waiters # <<>> =>
               \/ Head(j.waiters) = v
               \/ w.waiters # <<>> /\ Head(j.waiters) = Head(w.waiters)
        BY <2>4
      <4>2. QED
        BY <3>1, <3>2, <4>1
    <3>4. QED
      BY <2>8, <3>1, <3>2, <3>3 DEF Recent
  <2>11. Placed(n, d)
    <3>1. Placed(c, d)
      BY <1>3 DEF Fine
    <3>2. \A j \in ws : At(j, d)
      <4> SUFFICES ASSUME NEW j \in ws PROVE At(j, d)
        OBVIOUS
      <4>1. PICK w \in c.writes :
              /\ j.ver = w.ver /\ j.step = w.step /\ j.onto = w.onto /\ Whole(j) = Whole(w)
        BY <2>4
      <4>2. At(w, d)
        BY <3>1 DEF Placed
      <4>3. QED
        BY <4>1, <4>2 DEF At
    <3>3. QED
      BY <2>7, <2>8, <3>1, <3>2 DEF Placed
  <2>12. Kept(c, s, d) => Kept(n, s, d)
    <3>1. ASSUME Own(c, d) PROVE Own(n, d)
      <4>1. \A j \in ws : j.meta = c.signature
        <5> SUFFICES ASSUME NEW j \in ws PROVE j.meta = c.signature
          OBVIOUS
        <5>1. PICK w \in c.writes : j.meta = w.meta
          BY <2>4
        <5>2. QED
          BY <3>1, <5>1 DEF Own
      <4>2. QED
        BY <2>7, <2>8, <3>1, <4>1 DEF Own
    <3>2. ASSUME Latest(c, s, d) PROVE Latest(n, s, d)
      BY <1>1, <1>6, <2>3, <2>8, <3>2 DEF Latest, v
    <3>3. QED
      BY <3>1, <3>2 DEF Kept
  <2>13. QED
    BY <1>1, <1>3, <2>2, <2>8, <2>9, <2>10, <2>11, <2>12 DEF Fine
<1>7. q.inProgress \in Nat
  BY DEF Tidy, Ledger, Queues
<1>8. QED
  BY <1>2, <1>4, <1>5, <1>6, <1>7

-----------------------------------------------------------------------------
(* The end of a write. *)

LEMMA WithAnswersLeaves ==
  ASSUME NEW q \in Queues, NEW i \in Nat, NEW S \in SUBSET (Versions \ {0})
  PROVE  LET n == WithAnswers(q, i, S)
         IN  /\ n.pending = q.pending /\ n.signature = q.signature /\ n.writes = q.writes
             /\ n.answered = q.answered \cup S
<1> DEFINE all == q.answered \cup S
<1>1. WithAnswers(q, i, S) = [q EXCEPT !.inProgress = i, !.answered = all]
  BY DEF WithAnswers, Queues
<1> HIDE DEF all
<1>2. LET n == WithAnswers(q, i, S)
      IN  /\ n.pending = q.pending /\ n.signature = q.signature /\ n.writes = q.writes
          /\ n.answered = all
  BY <1>1 DEF Queues
<1>3. QED
  BY <1>2 DEF all

LEMMA ReturnedLeaves ==
  ASSUME NEW q \in Queues, NEW w \in Writes
  PROVE  LET r == Returned(q, w)
         IN  /\ r.pending = q.pending /\ r.signature = q.signature
             /\ r.writes = q.writes \ {w}
             /\ r.answered = q.answered \cup ({w.answers} \ {0})
<1> DEFINE E == q.writes \ {w}
           e == WithWrites(q, E)
<1>1. E \in SUBSET Writes /\ {w.answers} \ {0} \in SUBSET (Versions \ {0})
  BY DEF Queues, Writes
<1> HIDE DEF E
<1>2. /\ e \in Queues /\ e.pending = q.pending /\ e.writes = E /\ e.answered = q.answered
  BY <1>1, OtherWrites
<1>3. e.signature = q.signature
  BY DEF WithWrites, Queues
<1> HIDE DEF e
<1>4. CASE w.answers = 0
  <2>1. Returned(q, w) = e
    BY <1>4 DEF Returned, e, E
  <2>2. {w.answers} \ {0} = {}
    BY <1>4
  <2>3. QED
    BY <1>2, <1>3, <2>1, <2>2 DEF E
<1>5. CASE w.answers # 0
  <2>1. Returned(q, w) = WithAnswers(e, 0, {w.answers})
    BY <1>5 DEF Returned, e, E
  <2>2. {w.answers} \ {0} = {w.answers}
    BY <1>5
  <2>3. {w.answers} \in SUBSET (Versions \ {0})
    BY <1>1, <2>2
  <2>4. QED
    BY <1>2, <1>3, <2>1, <2>2, <2>3, WithAnswersLeaves DEF E
<1>6. QED
  BY <1>4, <1>5

LEMMA ResumedLeaves ==
  ASSUME NEW r, Tidy(r), r.pending.ver > 0, NEW d, d.main.meta \in MetasOrNone,
         NEW w \in Writes, w.waiters # <<>>
  PROVE  LET next == StartWrite(r, d, Head(w.waiters))
             n    == Resumed(r, d, w)
         IN  /\ n.pending = next.pending /\ n.signature = next.signature
             /\ n.writes = next.writes
             /\ Len(w.waiters) <= 1 => n.answered = next.answered
<1> DEFINE others == ToSet(Tail(w.waiters))
           next   == StartWrite(r, d, Head(w.waiters))
           i      == IF others = {} THEN next.inProgress ELSE 0
<1>1. /\ Head(w.waiters) \in Versions \ {0}
      /\ others \in SUBSET (Versions \ {0})
      /\ Len(w.waiters) <= 1 => others = {}
  BY WaitersAreVersions
<1>2. Tidy(next)
  BY <1>1, StartWriteTidy DEF Tidy
<1>3. next \in Queues /\ next.inProgress \in Nat
  BY <1>2 DEF Tidy, Ledger, Queues
<1> HIDE DEF others, next
<1>4. i \in Nat
  BY <1>3
<1>5. Resumed(r, d, w) = WithAnswers(next, i, others)
  <2>1. Resumed(r, d, w) = [next EXCEPT !.answered = @ \cup others, !.inProgress = i]
    BY <1>3 DEF Resumed, Queues, others, next
  <2> HIDE DEF i
  <2>2. QED
    BY <1>3, <2>1 DEF WithAnswers, Queues
<1> HIDE DEF i
<1>6. LET n == WithAnswers(next, i, others)
      IN  /\ n.pending = next.pending /\ n.signature = next.signature
          /\ n.writes = next.writes /\ n.answered = next.answered \cup others
  BY <1>1, <1>3, <1>4, WithAnswersLeaves
<1>7. QED
  BY <1>1, <1>5, <1>6 DEF next

(* The only write in flight has replaced the session's file: d are the files *)
(* before, e the files now; p is the queue before, q the one in which no     *)
(* other write is left.                                                      *)
LEMMA SettleFine ==
  ASSUME NEW p, Tidy(p), NEW w \in p.writes, NEW s, s.ver \in Versions,
         NEW d, Fine(p, s, d),
         NEW q \in Queues, q.pending = p.pending, q.timers = p.timers,
         q.inProgress = p.inProgress, q.signature = p.signature,
         q.answered = p.answered, q.writes = {},
         NEW e, e.main = Whole(w), e.tmp = Absent
  PROVE  LET n == Settle(q, e, w)
         IN  /\ Fine(n, s, e)
             /\ Len(w.waiters) <= 1 => n.answered \subseteq p.answered \cup {w.answers}
             /\ Kept(p, s, d) => Kept(n, s, e)
<1> DEFINE r == Returned(q, w)
           n == Settle(q, e, w)
<1>1. w \in Writes /\ p.writes = {w} /\ w.meta \in Metas /\ w.ver \in Versions
  BY DEF Tidy, Ledger, Queues, Fine, Alone, Writes
<1>2. /\ r.pending = p.pending /\ r.signature = p.signature /\ r.writes = {}
      /\ r.answered = p.answered \cup ({w.answers} \ {0})
  BY <1>1, ReturnedLeaves
<1>3. Tidy(r)
  <2>1. q.writes \ {w} = p.writes \ {w}
    BY <1>1
  <2>2. QED
    BY <2>1, ReturnedTidy
<1>4. Settle(q, e, w) =
        IF w.waiters = <<>> THEN r
        ELSE IF r.pending.ver = 0
             THEN [r EXCEPT !.answered = @ \cup ToSet(w.waiters)]
        ELSE Resumed(r, e, w)
  BY SettleCases
<1> HIDE DEF r, n
<1>5. /\ e.main.kind = "whole" /\ e.main.ver = w.ver /\ e.main.meta = w.meta
      /\ e.main.outside = FALSE
  BY WholeFields
<1>6. /\ p.pending.ver \in {0, s.ver} /\ w.ver <= s.ver
      /\ w.waiters # <<>> => p.pending.ver > 0 /\ Head(w.waiters) <= s.ver
  BY DEF Fine, Recent
<1>7. Recent(r, s, e) /\ Placed(r, e) /\ Alone(r)
  BY <1>2, <1>5, <1>6 DEF Recent, Placed, Alone
<1>8. ASSUME Kept(p, s, d) PROVE Kept(r, s, e)
  <2>1. w.meta = r.signature
    BY <1>2, <1>8 DEF Kept, Own
  <2>2. Own(r, e)
    BY <1>2, <1>5, <2>1 DEF Own
  <2>3. r.pending.ver > 0 => r.pending.meta = s.meta
    BY <1>2, <1>8 DEF Kept, Latest
  <2>4. ASSUME r.pending.ver = 0 PROVE e.main = Whole(s)
    <3>1. w.ver = s.ver /\ w.meta = s.meta
      BY <1>2, <1>8, <2>4 DEF Kept, Latest
    <3>2. QED
      BY <3>1 DEF Whole
  <2>5. Latest(r, s, e)
    BY <1>2, <2>3, <2>4 DEF Latest
  <2>6. QED
    BY <2>2, <2>5 DEF Kept
<1>9. CASE w.waiters = <<>>
  <2>1. n = r
    BY <1>4, <1>9 DEF n
  <2>2. QED
    BY <1>2, <1>7, <1>8, <2>1 DEF Fine, n
<1>10. CASE w.waiters # <<>>
  <2>1. r.pending.ver > 0 /\ r.pending.ver # 0 /\ Head(w.waiters) <= s.ver
    <3>1. p.pending.ver > 0 /\ p.pending.ver \in {0, s.ver} /\ s.ver \in Nat
      BY <1>6, <1>10, VersionsAreNat
    <3>2. p.pending.ver # 0
      BY <3>1
    <3>3. QED
      BY <1>2, <1>6, <1>10, <3>1, <3>2
  <2>2. n = Resumed(r, e, w)
    BY <1>4, <1>10, <2>1 DEF n
  <2>3. Head(w.waiters) \in Versions /\ Head(w.waiters) <= r.pending.ver
    <3>1. r.pending.ver = s.ver
      BY <1>2, <1>6, <2>1
    <3>2. QED
      BY <1>1, <1>10, <2>1, <3>1, WaitersAreVersions
  <2>4. e.main.meta \in MetasOrNone
    BY <1>1, <1>5 DEF MetasOrNone
  <2> DEFINE next == StartWrite(r, e, Head(w.waiters))
  <2>5. /\ Fine(next, s, e) /\ next.answered = r.answered
        /\ Kept(r, s, e) => Kept(next, s, e)
    BY <1>2, <1>3, <1>7, <2>1, <2>3, <2>4, StartedFine DEF Tidy
  <2>6. /\ n.pending = next.pending /\ n.signature = next.signature
        /\ n.writes = next.writes
        /\ Len(w.waiters) <= 1 => n.answered = next.answered
    BY <1>1, <1>3, <1>10, <2>1, <2>2, <2>4, ResumedLeaves
  <2> HIDE DEF next
  <2>7. Fine(n, s, e) /\ (Kept(next, s, e) => Kept(n, s, e))
    BY <2>5, <2>6, SameFine
  <2>8. QED
    BY <1>2, <1>8, <2>5, <2>6, <2>7 DEF n
<1>11. QED
  BY <1>9, <1>10

-----------------------------------------------------------------------------
(* The file operations. *)

(* A reader of the files never finds an older version than before. *)
Forward == Calm' => Found(disk) <= Found(disk')

(* A step of the calm does no harm that a step after it would have to undo. *)
LEMMA StillCalm ==
  ASSUME trouble \subseteq trouble'
  PROVE  (Calm' => Calm) /\ (Simple' => Simple /\ Calm') /\ (Alike' => Alike /\ Calm')
BY DEF Calm, Simple, Alike

LEMMA TypesHere ==
  ASSUME Inv
  PROVE  /\ Tidy(queue) /\ queue \in Queues /\ queue.writes \in SUBSET Writes
         /\ queue.answered \in SUBSET Nat
         /\ session.ver \in Versions /\ session.ver \in Nat /\ session.meta \in Metas
         /\ disk = [main |-> disk.main, tmp |-> disk.tmp]
         /\ disk.main \in Contents /\ disk.tmp \in Contents
         /\ disk.main.ver \in Versions /\ disk.main.ver \in Nat /\ disk.tmp.ver \in Nat
         /\ disk.main.kind \in {"absent", "part", "whole"}
         /\ disk.main.meta \in MetasOrNone
         /\ Found(disk) \in Nat
<1>1. /\ Tidy(queue) /\ queue \in Queues /\ queue.writes \in SUBSET Writes
      /\ queue.answered \in SUBSET Versions
  BY DEF Inv, Bookkeeping, Tidy, Ledger, Queues
<1>2. session.ver \in Versions /\ session.meta \in Metas
  BY DEF Inv, Around
<1>3. disk \in [main : Contents, tmp : Contents]
  BY DEF Inv, Files
<1>4. /\ disk.main \in Contents /\ disk.tmp \in Contents
      /\ disk = [main |-> disk.main, tmp |-> disk.tmp]
  BY <1>3
<1>5. /\ disk.main.ver \in Versions /\ disk.tmp.ver \in Versions
      /\ disk.main.kind \in {"absent", "part", "whole"} /\ disk.main.meta \in MetasOrNone
  BY <1>4 DEF Contents
<1>6. QED
  BY <1>1, <1>2, <1>4, <1>5, VersionsAreNat DEF Found

(* What was promised stays stored when no flush returns. *)
LEMMA AnsweredStays ==
  ASSUME Inv, Inv', Answered, Forward, trouble \subseteq trouble',
         queue'.answered = queue.answered
  PROVE  Answered'
<1> SUFFICES ASSUME Simple', NEW v \in queue'.answered PROVE v <= Found(disk')
  BY DEF Answered
<1>1. v <= Found(disk)
  BY StillCalm DEF Answered
<1>2. Found(disk) <= Found(disk')
  BY StillCalm DEF Forward
<1>3. v \in Nat /\ Found(disk) \in Nat
  BY TypesHere
<1>4. Found(disk') \in Nat
  <2>1. disk' \in [main : Contents, tmp : Contents]
    BY DEF Inv, Files
  <2>2. disk'.main.ver \in Versions /\ disk'.tmp.ver \in Versions
    BY <2>1 DEF Contents
  <2>3. QED
    BY <2>2, VersionsAreNat DEF Found
<1>5. QED
  BY <1>1, <1>2, <1>3, <1>4

(* The only write of queue q goes on: n is the queue after, u the write.    *)
LEMMA MovedOn ==
  ASSUME NEW q, NEW s, NEW d, Fine(q, s, d), NEW w \in q.writes,
         NEW n, NEW u, n.pending = q.pending, n.signature = q.signature, n.writes = {u},
         u.ver = w.ver, u.meta = w.meta, u.answers = w.answers, u.waiters = w.waiters,
         NEW e, At(u, e), e.main = Absent \/ e.main.kind = "whole", e.main.ver <= s.ver
  PROVE  Fine(n, s, e) /\ (Kept(q, s, d) => Kept(n, s, e))
<1>1. Alone(n)
  BY DEF Alone
<1>2. Recent(n, s, e)
  BY DEF Fine, Recent
<1>3. Placed(n, e)
  BY DEF Placed
<1>4. ASSUME Kept(q, s, d) PROVE Kept(n, s, e)
  <2>1. Own(n, e)
    BY <1>4 DEF Kept, Own
  <2>2. Latest(n, s, e)
    BY <1>4 DEF Kept, Latest
  <2>3. QED
    BY <2>1, <2>2 DEF Kept
<1>5. QED
  BY <1>1, <1>2, <1>3, <1>4 DEF Fine

(* The only write in flight takes a step. *)
LEMMA AdvancedAlone ==
  ASSUME Inv, NEW w \in queue.writes, NEW step, NEW onto,
         queue' = WithWrites(queue, {Stepped(w, step, onto)})
  PROVE  \E u : /\ queue'.writes = {u} /\ queue'.pending = queue.pending
                /\ queue'.signature = queue.signature
                /\ u.step = step /\ u.onto = onto /\ Whole(u) = Whole(w)
                /\ u.ver = w.ver /\ u.meta = w.meta /\ u.answers = w.answers
                /\ u.waiters = w.waiters
<1> DEFINE u == Stepped(w, step, onto)
<1>1. w \in Writes /\ queue \in Queues
  BY TypesHere
<1>2. /\ u.step = step /\ u.onto = onto /\ u.ver = w.ver /\ u.meta = w.meta
      /\ u.answers = w.answers /\ u.waiters = w.waiters
  BY <1>1 DEF Writes, Stepped
<1> HIDE DEF u
<1>3. queue' = [queue EXCEPT !.writes = {u}]
  BY DEF WithWrites, u
<1>4. /\ queue'.writes = {u} /\ queue'.pending = queue.pending
      /\ queue'.signature = queue.signature
  BY <1>1, <1>3 DEF Queues
<1>5. Whole(u) = Whole(w)
  BY <1>2 DEF Whole
<1>6. QED
  BY <1>2, <1>4, <1>5

(* What Stored asks of a step in which nobody's flush returns. *)
LEMMA StoredAgain ==
  ASSUME Inv, Inv', Stored, trouble \subseteq trouble',
         deferred' = deferred \/ ~Alike',
         queue'.answered = queue.answered \/ ~Simple',
         Calm' => /\ Fine(queue', session', disk')
                  /\ Found(disk) <= Found(disk'),
         Alike' => ~disk'.main.outside /\ Kept(queue', session', disk')
  PROVE  Stored' /\ Forward
<1>1. Forward
  BY DEF Forward
<1>2. Orderly'
  BY DEF Orderly
<1>3. Answered'
  BY <1>1, AnsweredStays DEF Stored, Answered
<1>4. Unedited'
  BY StillCalm DEF Stored, Unedited
<1>5. QED
  BY <1>1, <1>2, <1>3, <1>4 DEF Stored

LEMMA OpenTmpStores ==
  ASSUME Inv, Inv', Stored, NEW w \in queue.writes, OpenTmp(w)
  PROVE  Stored' /\ Forward
<1>1. trouble' = trouble /\ deferred' = deferred /\ session' = session
  BY DEF OpenTmp
<1>2. /\ queue'.answered = queue.answered
      /\ disk'.main = disk.main /\ disk'.tmp = Truncated
  BY TypesHere DEF OpenTmp, Advance, Queues
<1>3. ASSUME Calm
      PROVE  /\ Fine(queue', session', disk')
             /\ Found(disk) <= Found(disk')
             /\ Kept(queue, session, disk) => Kept(queue', session', disk')
  <2>1. Fine(queue, session, disk)
    BY <1>3 DEF Stored, Orderly
  <2>2. queue.writes = {w} /\ Alone(queue) /\ At(w, disk)
        /\ (disk.main = Absent \/ disk.main.kind = "whole")
    BY <2>1 DEF Fine, Alone, Placed
  <2>3. queue' = WithWrites(queue, {Stepped(w, "fill", "tmp")})
    <3>1. (queue.writes \ {w}) \cup {[w EXCEPT !.step = "fill", !.onto = "tmp"]}
            = {[w EXCEPT !.step = "fill", !.onto = "tmp"]}
      BY <2>2
    <3>2. QED
      BY <3>1 DEF OpenTmp, Advance, WithWrites, Stepped
  <2>4. PICK u : /\ queue'.writes = {u} /\ queue'.pending = queue.pending
                 /\ queue'.signature = queue.signature
                 /\ u.step = "fill" /\ u.onto = "tmp"
                 /\ u.ver = w.ver /\ u.meta = w.meta /\ u.answers = w.answers
                 /\ u.waiters = w.waiters
    BY <2>3, AdvancedAlone
  <2>5. w.step = "open" /\ disk.tmp = Absent /\ disk.main.ver <= w.ver
    BY <2>2 DEF OpenTmp, At
  <2>6. At(u, disk')
    BY <1>2, <2>4, <2>5 DEF At
  <2>7. disk'.main.ver <= session.ver
    BY <1>2, <2>1 DEF Fine, Recent
  <2>8. /\ Fine(queue', session, disk')
        /\ Kept(queue, session, disk) => Kept(queue', session, disk')
    BY <1>2, <2>1, <2>2, <2>4, <2>6, <2>7, MovedOn
  <2>9. Found(disk) = Found(disk')
    BY <1>2, <2>5, AbsentFields DEF Found
  <2>10. QED
    BY <1>1, <2>8, <2>9, TypesHere
<1>4. QED
  BY <1>1, <1>2, <1>3, StillCalm, StoredAgain DEF Stored, Unedited

(* A write loses its directory to a deletion only. *)
LEMMA OpenFailsStores ==
  ASSUME Inv, Inv', Stored, NEW w \in queue.writes, OpenFails(w)
  PROVE  Stored' /\ Forward
<1>1. trouble \subseteq trouble' /\ w.step = "lost"
  BY DEF OpenFails, Trouble
<1>2. ~Calm
  BY <1>1 DEF Stored, Orderly, Fine, Placed, At
<1>3. ~Calm' /\ ~Simple' /\ ~Alike'
  BY <1>1, <1>2, StillCalm
<1>4. QED
  BY <1>3 DEF Stored, Orderly, Answered, Unedited, Forward

LEMMA FillTmpStores ==
  ASSUME Inv, Inv', Stored, NEW w \in queue.writes, FillTmp(w)
  PROVE  Stored' /\ Forward
<1>1. trouble' = trouble /\ deferred' = deferred /\ session' = session
  BY DEF FillTmp
<1>2. queue'.answered = queue.answered
  BY TypesHere DEF FillTmp, Advance, Queues
<1>3. ASSUME Calm
      PROVE  /\ Fine(queue', session', disk')
             /\ Found(disk) <= Found(disk')
             /\ disk'.main = disk.main
             /\ Kept(queue, session, disk) => Kept(queue', session', disk')
  <2>1. Fine(queue, session, disk)
    BY <1>3 DEF Stored, Orderly
  <2>2. queue.writes = {w} /\ Alone(queue) /\ At(w, disk)
        /\ (disk.main = Absent \/ disk.main.kind = "whole")
    BY <2>1 DEF Fine, Alone, Placed
  <2>3. queue' = WithWrites(queue, {Stepped(w, "unlink", "nothing")})
    <3>1. (queue.writes \ {w}) \cup {[w EXCEPT !.step = "unlink", !.onto = "nothing"]}
            = {[w EXCEPT !.step = "unlink", !.onto = "nothing"]}
      BY <2>2
    <3>2. QED
      BY <3>1 DEF FillTmp, Advance, WithWrites, Stepped
  <2>4. PICK u : /\ queue'.writes = {u} /\ queue'.pending = queue.pending
                 /\ queue'.signature = queue.signature
                 /\ u.step = "unlink" /\ u.onto = "nothing" /\ Whole(u) = Whole(w)
                 /\ u.ver = w.ver /\ u.meta = w.meta /\ u.answers = w.answers
                 /\ u.waiters = w.waiters
    BY <2>3, AdvancedAlone
  <2>5. w.step = "fill" /\ w.onto = "tmp" /\ disk.tmp = Truncated /\ disk.main.ver <= w.ver
    BY <2>2 DEF FillTmp, At
  <2>6. disk'.main = disk.main /\ disk'.tmp = Whole(w)
    <3>1. disk["tmp"] = Truncated
      BY <2>5
    <3>2. disk' = [disk EXCEPT !["tmp"] = Whole(w)]
      BY <2>5, <3>1 DEF FillTmp
    <3>3. QED
      BY <3>2, TypesHere
  <2>7. At(u, disk')
    BY <2>4, <2>5, <2>6 DEF At
  <2>8. disk'.main.ver <= session.ver
    BY <2>1, <2>6 DEF Fine, Recent
  <2>9. /\ Fine(queue', session, disk')
        /\ Kept(queue, session, disk) => Kept(queue', session, disk')
    BY <2>1, <2>2, <2>4, <2>6, <2>7, <2>8, MovedOn
  <2>10. Found(disk) <= Found(disk')
    <3>1. disk'.tmp.ver = w.ver /\ disk.tmp.ver = 0
      BY <2>5, <2>6, AbsentFields, WholeFields
    <3>2. w.ver \in Nat
      BY TypesHere, VersionsAreNat DEF Writes
    <3>3. QED
      BY <2>6, <3>1, <3>2, TypesHere DEF Found
  <2>11. QED
    BY <1>1, <2>6, <2>9, <2>10
<1>4. QED
  BY <1>1, <1>2, <1>3, StillCalm, StoredAgain DEF Stored, Unedited

LEMMA UnlinkMainStores ==
  ASSUME Inv, Inv', Stored, NEW w \in queue.writes, UnlinkMain(w)
  PROVE  Stored' /\ Forward
<1>1. trouble' = trouble /\ deferred' = deferred /\ session' = session
  BY DEF UnlinkMain
<1>2. /\ queue'.answered = queue.answered
      /\ disk'.main = Absent /\ disk'.tmp = disk.tmp
  BY TypesHere DEF UnlinkMain, Queues
<1>3. ASSUME Calm
      PROVE  /\ Fine(queue', session', disk')
             /\ Found(disk) <= Found(disk')
             /\ Kept(queue, session, disk) => Kept(queue', session', disk')
  <2>1. Fine(queue, session, disk)
    BY <1>3 DEF Stored, Orderly
  <2>2. queue.writes = {w} /\ Alone(queue) /\ At(w, disk)
        /\ (disk.main = Absent \/ disk.main.kind = "whole")
    BY <2>1 DEF Fine, Alone, Placed
  <2>3. w.step = "unlink" /\ w.onto = "nothing" /\ disk.tmp = Whole(w) /\ disk.main.ver <= w.ver
    BY <2>2 DEF UnlinkMain, At
  <2>4. queue' = WithWrites(queue, {Stepped(w, "rename", "nothing")})
    <3> DEFINE v == [w EXCEPT !.step = "rename"]
    <3>1. (queue.writes \ {w}) \cup {v} = {v}
      BY <2>2
    <3>2. v.onto = "nothing" /\ [v EXCEPT !.onto = "nothing"]
                                  = [w EXCEPT !.step = "rename", !.onto = "nothing"]
      BY <2>3, TypesHere DEF Writes
    <3> HIDE DEF v
    <3>3. Redirect({v}, Unlinked) = {[v EXCEPT !.onto = "nothing"]}
      <4>1. Unlinked[v.onto] = "nothing"
        BY <3>2 DEF Unlinked
      <4>2. Redirect({v}, Unlinked) = {[v EXCEPT !.onto = Unlinked[v.onto]]}
        BY DEF Redirect
      <4>3. QED
        BY <4>1, <4>2
    <3>4. queue' = [queue EXCEPT !.writes =
                      Redirect((queue.writes \ {w}) \cup {v}, Unlinked)]
      BY DEF UnlinkMain, v
    <3>5. QED
      BY <3>1, <3>2, <3>3, <3>4 DEF WithWrites, Stepped
  <2>5. PICK u : /\ queue'.writes = {u} /\ queue'.pending = queue.pending
                 /\ queue'.signature = queue.signature
                 /\ u.step = "rename" /\ u.onto = "nothing" /\ Whole(u) = Whole(w)
                 /\ u.ver = w.ver /\ u.meta = w.meta /\ u.answers = w.answers
                 /\ u.waiters = w.waiters
    BY <2>4, AdvancedAlone
  <2>6. w.ver \in Nat
    BY TypesHere, VersionsAreNat DEF Writes
  <2>7. At(u, disk')
    BY <1>2, <2>3, <2>5, <2>6, AbsentFields DEF At
  <2>8. disk'.main.ver <= session.ver /\ disk'.main = Absent
    BY <1>2, AbsentFields, TypesHere
  <2>9. /\ Fine(queue', session, disk')
        /\ Kept(queue, session, disk) => Kept(queue', session, disk')
    BY <2>1, <2>2, <2>5, <2>7, <2>8, MovedOn
  <2>10. Found(disk) <= Found(disk')
    <3>1. disk'.tmp.ver = w.ver /\ disk.tmp.ver = w.ver
      BY <1>2, <2>3, WholeFields
    <3>2. QED
      BY <1>2, <2>3, <2>6, <3>1, AbsentFields, TypesHere DEF Found
  <2>11. QED
    BY <1>1, <2>9, <2>10
<1>4. Alike' => ~disk'.main.outside /\ Kept(queue', session', disk')
  BY <1>1, <1>2, <1>3, StillCalm, AbsentFields DEF Stored, Unedited
<1>5. QED
  BY <1>1, <1>2, <1>3, <1>4, StillCalm, StoredAgain

LEMMA RenameTmpStores ==
  ASSUME Inv, Inv', Stored, NEW w \in queue.writes, RenameTmp(w)
  PROVE  Stored' /\ Forward
<1>1. trouble \subseteq trouble' /\ deferred' = deferred /\ session' = session
  BY DEF RenameTmp, Trouble
<1>2. ASSUME Calm'
      PROVE  /\ Fine(queue', session', disk')
             /\ Found(disk') = w.ver /\ Found(disk) <= w.ver
             /\ disk'.main = Whole(w)
             /\ Len(w.waiters) <= 1 => queue'.answered \subseteq queue.answered \cup {w.answers}
             /\ Kept(queue, session, disk) => Kept(queue', session', disk')
  <2>1. Fine(queue, session, disk)
    BY <1>1, <1>2, StillCalm DEF Stored, Orderly
  <2>2. queue.writes = {w} /\ At(w, disk)
    BY <2>1 DEF Fine, Alone, Placed
  <2>3. w.step = "rename" /\ disk.tmp = Whole(w) /\ disk.main = Absent
    BY <2>2 DEF RenameTmp, At
  <2> DEFINE q == [queue EXCEPT !.writes = Redirect(queue.writes \ {w}, Renamed)]
             e == disk'
  <2>4. disk.tmp # Absent
    BY <2>3, WholeFields, AbsentFields
  <2>5. /\ e.main = Whole(w) /\ e.tmp = Absent
        /\ queue' = Settle(q, e, w)
    BY <2>3, <2>4 DEF RenameTmp
  <2>6. Redirect(queue.writes \ {w}, Renamed) = {}
    BY <2>2 DEF Redirect
  <2>7. /\ q \in Queues /\ q.pending = queue.pending /\ q.timers = queue.timers
        /\ q.inProgress = queue.inProgress /\ q.signature = queue.signature
        /\ q.answered = queue.answered /\ q.writes = {}
    BY <2>6, TypesHere DEF Queues
  <2> HIDE DEF q, e
  <2>8. LET n == Settle(q, e, w)
        IN  /\ Fine(n, session, e)
            /\ Len(w.waiters) <= 1 => n.answered \subseteq queue.answered \cup {w.answers}
            /\ Kept(queue, session, disk) => Kept(n, session, e)
    BY <2>1, <2>5, <2>7, TypesHere, SettleFine
  <2>9. Found(disk') = w.ver
    BY <2>5, WholeFields DEF Found, e
  <2>10. Found(disk) = w.ver /\ w.ver \in Nat
    BY <2>3, WholeFields, AbsentFields, TypesHere, VersionsAreNat DEF Found, Writes
  <2>11. QED
    BY <1>1, <2>5, <2>8, <2>9, <2>10 DEF e
<1>3. Forward
  BY <1>2 DEF Forward
<1>4. Orderly'
  BY <1>2 DEF Orderly
<1>5. Answered'
  <2> SUFFICES ASSUME Simple', NEW v \in queue'.answered PROVE v <= Found(disk')
    BY DEF Answered
  <2>1. Calm' /\ Simple /\ Calm /\ "crowd" \notin trouble
    BY <1>1, StillCalm DEF Simple
  <2>2. Len(w.waiters) <= 1
    BY <2>1 DEF Inv, Serial, Single
  <2>3. v \in queue.answered \/ v = w.answers
    BY <1>2, <2>1, <2>2
  <2>4. Found(disk') = w.ver /\ Found(disk) <= w.ver
    BY <1>2, <2>1
  <2>5. w.answers <= w.ver
    BY <2>1 DEF Stored, Orderly, Fine, Recent
  <2>6. v \in queue.answered => v <= Found(disk) /\ v \in Nat
    BY <2>1, TypesHere DEF Stored, Answered
  <2>7. Found(disk) \in Nat /\ w.ver \in Nat
    BY TypesHere, VersionsAreNat DEF Writes
  <2>8. QED
    BY <2>3, <2>4, <2>5, <2>6, <2>7
<1>6. Unedited'
  <2> SUFFICES ASSUME Alike'
               PROVE  deferred' = NoMeta /\ ~disk'.main.outside /\ Kept(queue', session', disk')
    BY DEF Unedited
  <2>1. Calm' /\ deferred = NoMeta /\ Kept(queue, session, disk)
    BY <1>1, StillCalm DEF Stored, Unedited
  <2>2. disk'.main.outside = FALSE
    BY <1>2, <2>1, WholeFields
  <2>3. QED
    BY <1>1, <1>2, <2>1, <2>2
<1>7. QED
  BY <1>3, <1>4, <1>5, <1>6 DEF Stored

-----------------------------------------------------------------------------
(* The timer, the callers and the environment. *)

(* A step that makes nothing overlap leaves at most one write in flight. *)
LEMMA CalmHasNoOverlap ==
  ASSUME Calm', NEW q, Overlap(q) \subseteq trouble'
  PROVE  "overlap" \notin Overlap(q)
BY DEF Calm

LEMMA TimerFiresStores ==
  ASSUME Inv, Inv', Stored, TimerFires
  PROVE  Stored' /\ Forward
<1>1. /\ trouble' = trouble \cup Overlap(queue') /\ queue' = TimerFired(queue, disk)
      /\ UNCHANGED <<session, disk, deferred>> /\ queue.timers > 0
  BY DEF TimerFires, Trouble
<1>2. trouble \subseteq trouble' /\ Overlap(queue') \subseteq trouble'
  BY <1>1
<1>3. ASSUME Calm'
      PROVE  /\ Fine(queue', session, disk) /\ queue'.answered = queue.answered
             /\ Kept(queue, session, disk) => Kept(queue', session, disk)
  <2>1. Fine(queue, session, disk)
    BY <1>2, <1>3, StillCalm DEF Stored, Orderly
  <2>2. "overlap" \notin Overlap(TimerFired(queue, disk))
    BY <1>1, <1>2, <1>3, CalmHasNoOverlap
  <2>3. QED
    BY <1>1, <2>1, <2>2, TypesHere, TimerFiredFine
<1>4. Found(disk) <= Found(disk')
  BY <1>1, TypesHere
<1>5. Alike' => ~disk'.main.outside /\ Kept(queue', session', disk')
  BY <1>1, <1>2, <1>3, StillCalm DEF Stored, Unedited
<1>6. QED
  BY <1>1, <1>2, <1>3, <1>4, <1>5, StillCalm, StoredAgain

LEMMA SaveStores ==
  ASSUME Inv, Inv', Stored, NEW meta \in Metas, NEW flushed \in BOOLEAN, Save(meta, flushed)
  PROVE  Stored' /\ Forward
<1> DEFINE s == session'
           e == Enqueue(queue, s)
<1>1. /\ trouble' = trouble \cup (Overlap(queue') \cup Late)
      /\ queue' = IF flushed THEN Flush(e, disk) ELSE e
      /\ UNCHANGED <<disk, deferred>>
  BY DEF Save, Trouble
<1>2. trouble \subseteq trouble' /\ Overlap(queue') \subseteq trouble'
  BY <1>1
<1>3. /\ s.ver \in Versions /\ s.ver > 0 /\ s.meta \in Metas /\ session.ver <= s.ver
  <2>1. s = [ver |-> session.ver + 1, meta |-> meta]
    BY DEF Save
  <2>2. s.ver = session.ver + 1 /\ s.meta = meta
    BY <2>1
  <2>3. session' \in [ver : Versions, meta : Metas]
    BY DEF Inv, Around
  <2>4. QED
    BY <2>2, <2>3, TypesHere
<1> HIDE DEF s
<1>4. Tidy(e)
  BY <1>3, TypesHere, EnqueueTidy
<1>5. ASSUME Calm'
      PROVE  /\ Fine(queue', s, disk) /\ queue'.answered = queue.answered
             /\ Kept(queue, session, disk) => Kept(queue', s, disk)
  <2>1. Fine(queue, session, disk)
    BY <1>2, <1>5, StillCalm DEF Stored, Orderly
  <2>2. /\ Fine(e, s, disk) /\ e.answered = queue.answered
        /\ Own(queue, disk) => Kept(e, s, disk)
    <3>1. \A w \in queue.writes : w \in Writes
      BY TypesHere
    <3>2. QED
      BY <1>3, <2>1, <3>1, TypesHere, EnqueueFine
  <2> HIDE DEF e
  <2>3. CASE flushed
    <3>1. queue' = Flush(e, disk)
      BY <1>1, <2>3
    <3>2. "overlap" \notin Overlap(Flush(e, disk))
      BY <1>2, <1>5, <3>1, CalmHasNoOverlap
    <3>3. /\ Fine(Flush(e, disk), s, disk) /\ Flush(e, disk).answered = e.answered
          /\ Kept(e, s, disk) => Kept(Flush(e, disk), s, disk)
      BY <1>3, <1>4, <2>2, <3>2, TypesHere, FlushFine
    <3>4. QED
      BY <2>2, <3>1, <3>3 DEF Kept
  <2>4. CASE ~flushed
    BY <1>1, <2>2, <2>4 DEF Kept
  <2>5. QED
    BY <2>3, <2>4
<1>6. Found(disk) <= Found(disk')
  BY <1>1, TypesHere
<1> HIDE DEF e
<1>7. Alike' => ~disk'.main.outside /\ Kept(queue', session', disk')
  BY <1>1, <1>2, <1>5, StillCalm DEF Stored, Unedited, s
<1>8. Calm' => /\ Fine(queue', session', disk')
               /\ Found(disk) <= Found(disk')
  BY <1>1, <1>5, <1>6 DEF s
<1>9. QED
  BY <1>1, <1>2, <1>5, <1>7, <1>8, StillCalm, StoredAgain

LEMMA FlushSessionStores ==
  ASSUME Inv, Inv', Stored, FlushSession
  PROVE  Stored' /\ Forward
<1>1. /\ trouble' = trouble \cup Overlap(queue') /\ queue' = Flush(queue, disk)
      /\ UNCHANGED <<session, disk, deferred>>
  BY DEF FlushSession, Trouble
<1>2. trouble \subseteq trouble' /\ Overlap(queue') \subseteq trouble'
  BY <1>1
<1>3. ASSUME Calm'
      PROVE  /\ Fine(queue', session, disk) /\ queue'.answered = queue.answered
             /\ Kept(queue, session, disk) => Kept(queue', session, disk)
  <2>1. Fine(queue, session, disk)
    BY <1>2, <1>3, StillCalm DEF Stored, Orderly
  <2>2. "overlap" \notin Overlap(Flush(queue, disk))
    BY <1>1, <1>2, <1>3, CalmHasNoOverlap
  <2>3. QED
    BY <1>1, <2>1, <2>2, TypesHere, FlushFine
<1>4. Found(disk) <= Found(disk')
  BY <1>1, TypesHere
<1>5. Alike' => ~disk'.main.outside /\ Kept(queue', session', disk')
  BY <1>1, <1>2, <1>3, StillCalm DEF Stored, Unedited
<1>6. QED
  BY <1>1, <1>2, <1>3, <1>4, <1>5, StillCalm, StoredAgain

(* Another header replaces the session's, and the entry with it. *)
LEMMA AdoptFine ==
  ASSUME Inv, session.ver # 0, NEW header \in Metas, Adopt(header),
         Fine(queue, session, disk)
  PROVE  Fine(queue', session', disk) /\ queue'.answered = queue.answered
<1>1. CASE header = session.meta
  BY <1>1 DEF Adopt
<1>2. CASE header # session.meta
  <2> DEFINE c == CancelEntry(queue)
             s == session'
  <2>1. s = [session EXCEPT !.meta = header] /\ queue' = Enqueue(c, s)
    BY <1>2 DEF Adopt
  <2>2. s.ver = session.ver /\ s.meta = header
    <3>1. session \in [ver : Versions, meta : Metas]
      BY DEF Inv, Around
    <3>2. QED
      BY <2>1, <3>1
  <2>3. s.ver \in Versions /\ s.ver > 0 /\ s.meta \in Metas /\ session.ver <= s.ver
    BY <2>2, TypesHere
  <2>4. Tidy(c) /\ c.writes = queue.writes /\ c.answered = queue.answered
    BY TypesHere, CancelTidy, CancelLeaves
  <2>5. \A w \in queue.writes : w \in Writes
    BY TypesHere
  <2> HIDE DEF c, s
  <2>6. /\ Fine(Enqueue(c, s), s, disk)
        /\ Enqueue(c, s).answered = c.answered
    BY <2>3, <2>4, <2>5, TypesHere, EnqueueFine
  <2>7. QED
    BY <2>1, <2>4, <2>6 DEF s
<1>3. QED
  BY <1>1, <1>2

LEMMA WatcherReportsStores ==
  ASSUME Inv, Inv', Stored, NEW busy \in BOOLEAN, WatcherReports(busy)
  PROVE  Stored' /\ Forward
<1> DEFINE header == disk.main.meta
<1>1. disk' = disk /\ session.ver # 0
  BY DEF WatcherReports, Inv, Unborn
<1>2. Found(disk) <= Found(disk')
  BY <1>1, TypesHere
<1>3. CASE header \in {NoMeta, queue.signature} \/ ~listed
  <2>1. UNCHANGED <<session, queue, disk, deferred, trouble>>
    BY <1>1, <1>3 DEF WatcherReports
  <2>2. Stored'
    <3>1. Orderly' /\ Answered' /\ Unedited'
      BY <2>1 DEF Stored, Orderly, Answered, Unedited, Calm, Simple, Alike
    <3>2. QED
      BY <3>1 DEF Stored
  <2>3. QED
    BY <1>2, <2>2 DEF Forward
<1>4. CASE header \notin {NoMeta, queue.signature} /\ listed
  <2>1. /\ \/ disk.main.outside /\ trouble' = trouble
           \/ trouble' = trouble \cup {"misread"}
        /\ \/ UNCHANGED <<session, queue>>
           \/ Adopt(header) /\ deferred' = deferred
    BY <1>4 DEF WatcherReports, Trouble
  <2>2. trouble \subseteq trouble' /\ ~Alike'
    <3>1. CASE disk.main.outside /\ trouble' = trouble
      BY <3>1 DEF Stored, Unedited, Alike
    <3>2. CASE trouble' = trouble \cup {"misread"}
      BY <3>2 DEF Alike
    <3>3. QED
      BY <2>1, <3>1, <3>2
  <2>3. header \in Metas
    BY <1>4, TypesHere DEF MetasOrNone
  <2> HIDE DEF header
  <2>4. ASSUME Calm'
        PROVE  Fine(queue', session', disk')
    <3>1. Fine(queue, session, disk)
      BY <2>2, <2>4, StillCalm DEF Stored, Orderly
    <3>2. QED
      BY <1>1, <2>1, <2>3, <3>1, AdoptFine
  <2>5. queue'.answered = queue.answered \/ ~Simple'
    <3> SUFFICES ASSUME Simple' PROVE queue'.answered = queue.answered
      OBVIOUS
    <3>1. Fine(queue, session, disk)
      BY <2>2, StillCalm DEF Stored, Orderly
    <3>2. QED
      BY <2>1, <1>1, <2>3, <3>1, AdoptFine
  <2>6. QED
    BY <1>2, <2>2, <2>4, <2>5, StoredAgain
<1>5. QED
  BY <1>3, <1>4

LEMMA DeferredAppliedStores ==
  ASSUME Inv, Inv', Stored, DeferredApplied
  PROVE  Stored' /\ Forward
<1>1. /\ session.ver # 0 /\ deferred \in Metas /\ deferred # NoMeta
      /\ disk' = disk /\ trouble \subseteq trouble' /\ Adopt(deferred)
  BY DEF DeferredApplied, Trouble, Inv, Unborn, Around, MetasOrNone
<1>2. ~Alike /\ ~Alike'
  BY <1>1 DEF Stored, Unedited, Alike
<1>3. Found(disk) <= Found(disk')
  BY <1>1, TypesHere
<1>4. Calm' => Fine(queue', session', disk') /\ queue'.answered = queue.answered
  BY <1>1, <1>2, StillCalm, AdoptFine DEF Stored, Orderly
<1>5. QED
  BY <1>1, <1>2, <1>3, <1>4, StillCalm, StoredAgain

LEMMA OutsiderEditsStores ==
  ASSUME Inv, Inv', Stored, NEW meta \in Metas, OutsiderEdits(meta)
  PROVE  Stored' /\ Forward
<1> DEFINE m == [disk.main EXCEPT !.meta = meta, !.outside = TRUE]
<1>1. /\ disk.main.kind = "whole" /\ disk' = [disk EXCEPT !.main = m]
      /\ trouble' = trouble \cup {"edit"} /\ UNCHANGED <<session, queue, deferred>>
  BY TypesHere DEF OutsiderEdits, Trouble, Contents
<1>2. m.kind = "whole" /\ m.ver = disk.main.ver
  BY <1>1, TypesHere DEF Contents
<1> HIDE DEF m
<1>3. disk'.main = m /\ disk'.tmp = disk.tmp
  BY <1>1, TypesHere
<1>4. trouble \subseteq trouble' /\ ~Alike'
  BY <1>1 DEF Alike
<1>5. Found(disk) = Found(disk')
  BY <1>1, <1>2, <1>3 DEF Found
<1>6. ASSUME Calm' PROVE Fine(queue, session, disk')
  <2>1. Fine(queue, session, disk)
    BY <1>4, <1>6, StillCalm DEF Stored, Orderly
  <2>2. Recent(queue, session, disk')
    BY <1>2, <1>3, <2>1 DEF Fine, Recent
  <2>3. \A w \in queue.writes : At(w, disk')
    BY <1>1, <1>2, <1>3, <2>1, AbsentFields DEF Fine, Placed, At
  <2>4. Placed(queue, disk')
    BY <1>2, <1>3, <2>1, <2>3 DEF Fine, Placed
  <2>5. QED
    BY <2>1, <2>2, <2>4 DEF Fine
<1>7. QED
  BY <1>1, <1>4, <1>5, <1>6, TypesHere, StoredAgain

(* Nothing is promised after a mishap of the other kinds. *)
LEMMA TroubledStores ==
  ASSUME NEW kind \in {"update", "failure", "cleanup", "delete", "crash"}, kind \in trouble'
  PROVE  Stored' /\ Forward
<1>1. ~Calm' /\ ~Simple' /\ ~Alike'
  BY DEF Calm, Simple, Alike
<1>2. QED
  BY <1>1 DEF Stored, Orderly, Answered, Unedited, Forward

LEMMA EnvironmentStores ==
  ASSUME Inv, Inv', Stored, Environment
  PROVE  Stored' /\ Forward
<1>1. ASSUME NEW w \in queue.writes, WriteFails(w) PROVE "failure" \in trouble'
  BY <1>1 DEF WriteFails, Trouble
<1>2. ASSUME NEW meta \in Metas, UpdateStored(meta) PROVE "update" \in trouble'
  BY <1>2 DEF UpdateStored, Trouble
<1>3. ASSUME ListSessions PROVE "cleanup" \in trouble'
  BY <1>3 DEF ListSessions, Trouble
<1>4. ASSUME Crash PROVE "crash" \in trouble'
  BY <1>4 DEF Crash, Trouble
<1>5. QED
  BY <1>1, <1>2, <1>3, <1>4, TroubledStores, OutsiderEditsStores DEF Environment

-----------------------------------------------------------------------------
LEMMA StoredInit == Init => Stored
<1> SUFFICES ASSUME Init PROVE Stored
  OBVIOUS
<1>1. /\ session.ver = 0 /\ deferred = NoMeta
      /\ disk.main = Absent /\ disk.tmp = Absent
  BY DEF Init
<1>2. /\ queue.writes = {} /\ queue.pending.ver = 0 /\ queue.answered = {}
      /\ queue.signature = NoMeta
  BY DEF Init, EmptyQueue, NoEntry
<1>3. Fine(queue, session, disk)
  BY <1>1, <1>2, AbsentFields DEF Fine, Alone, Recent, Placed
<1>4. Kept(queue, session, disk)
  BY <1>1, <1>2, AbsentFields DEF Kept, Own, Latest
<1>5. QED
  BY <1>1, <1>2, <1>3, <1>4, AbsentFields DEF Stored, Orderly, Answered, Unedited

LEMMA StoredNext == Inv /\ Inv' /\ Stored /\ [Next]_vars => Stored' /\ Forward
<1> SUFFICES ASSUME Inv, Inv', Stored, [Next]_vars PROVE Stored' /\ Forward
  OBVIOUS
<1>1. ASSUME NEW w \in queue.writes, FileOperation(w) PROVE Stored' /\ Forward
  BY <1>1, OpenTmpStores, OpenFailsStores, FillTmpStores, UnlinkMainStores, RenameTmpStores
     DEF FileOperation
<1>2. CASE TimerFires
  BY <1>2, TimerFiresStores
<1>3. CASE Callers
  <2>1. ASSUME DeleteSession PROVE "delete" \in trouble'
    BY <2>1 DEF DeleteSession, Trouble
  <2>2. QED
    BY <1>3, <2>1, SaveStores, FlushSessionStores, WatcherReportsStores,
       DeferredAppliedStores, TroubledStores DEF Callers
<1>4. CASE Environment
  BY <1>4, EnvironmentStores
<1>5. CASE UNCHANGED vars
  <2>1. UNCHANGED <<session, queue, disk, deferred, trouble>>
    BY <1>5 DEF vars
  <2>2. Orderly' /\ Answered' /\ Unedited'
    BY <2>1 DEF Stored, Orderly, Answered, Unedited, Calm, Simple, Alike
  <2>3. Forward
    BY <2>1, TypesHere DEF Forward
  <2>4. QED
    BY <2>2, <2>3 DEF Stored
<1>6. QED
  BY <1>1, <1>2, <1>3, <1>4, <1>5 DEF Next

LEMMA StoredHolds == Spec => [](Inv /\ Stored)
<1>1. Init => Inv /\ Stored
  BY InvInit, StoredInit
<1>2. Inv /\ Stored /\ [Next]_vars => Inv' /\ Stored'
  BY InvNext, StoredNext
<1>3. QED
  BY <1>1, <1>2, PTL DEF Spec

-----------------------------------------------------------------------------
(* What a deletion leaves. *)

(* The end of a write after which no entry is pending. *)
LEMMA SettleLeavesNothing ==
  ASSUME NEW q \in Queues, NEW d, NEW w \in Writes, q.pending.ver = 0
  PROVE  LET n == Settle(q, d, w)
         IN  n.pending.ver = 0 /\ n.writes = q.writes \ {w}
<1> DEFINE r == Returned(q, w)
           a == [r EXCEPT !.answered = r.answered \cup ToSet(w.waiters)]
<1>1. r.pending.ver = 0 /\ r.writes = q.writes \ {w}
  BY ReturnedLeaves
<1>2. Settle(q, d, w) = r \/ Settle(q, d, w) = a
  BY <1>1, SettleCases
<1>3. a.pending = r.pending /\ a.writes = r.writes
  BY DEF Returned, WithAnswers, WithWrites
<1>4. QED
  BY <1>1, <1>2, <1>3

(* A write that ends without a file. *)
LEMMA EndedGone ==
  ASSUME Inv, Nothing(queue, disk), NEW w \in queue.writes,
         queue' = Settle(queue, disk, w), disk' = disk
  PROVE  Nothing(queue', disk')
<1>1. queue'.pending.ver = 0 /\ queue'.writes = queue.writes \ {w}
  BY TypesHere, SettleLeavesNothing DEF Nothing
<1>2. QED
  BY <1>1 DEF Nothing

(* A write that goes on without a file: u is what it is then.               *)
LEMMA MovedOnGone ==
  ASSUME Nothing(queue, disk), NEW u, u.onto = "nothing", u.step # "open",
         NEW n, n.pending = queue.pending,
         n.writes \subseteq queue.writes \cup {u},
         NEW e, e.main = Absent, e.tmp = Absent
  PROVE  Nothing(n, e)
BY DEF Nothing

LEMMA FileOperationGone ==
  ASSUME Inv, Gone, Mourned, NEW w \in queue.writes, FileOperation(w), Mourned'
  PROVE  ~listed' /\ Nothing(queue', disk')
<1>1. /\ ~listed /\ Nothing(queue, disk) /\ "late" \notin trouble
      /\ w.onto = "nothing" /\ w.step # "open" /\ w \in Writes
      /\ disk.main = Absent /\ disk.tmp = Absent /\ queue \in Queues
  BY TypesHere DEF Gone, Mourned, Nothing
<1>2. ~OpenTmp(w)
  BY <1>1 DEF OpenTmp
<1>3. CASE OpenFails(w)
  BY <1>1, <1>3, EndedGone DEF OpenFails
<1>4. CASE FillTmp(w)
  <2> DEFINE u == [w EXCEPT !.step = "unlink", !.onto = "nothing"]
             ws == (queue.writes \ {w}) \cup {u}
  <2>1. u.onto = "nothing" /\ u.step = "unlink"
    BY <1>1 DEF Writes
  <2>2. queue' = [queue EXCEPT !.writes = ws]
    BY <1>4 DEF FillTmp, Advance
  <2>3. ws \subseteq queue.writes \cup {u}
    OBVIOUS
  <2> HIDE DEF u, ws
  <2>4. queue'.pending = queue.pending /\ queue'.writes = ws
    BY <1>1, <2>2 DEF Queues
  <2>5. disk' = disk /\ listed' = listed
    BY <1>1, <1>4 DEF FillTmp
  <2>6. QED
    BY <1>1, <2>1, <2>3, <2>4, <2>5, MovedOnGone
<1>5. CASE UnlinkMain(w)
  <2> DEFINE u == [w EXCEPT !.step = "rename"]
             ws == (queue.writes \ {w}) \cup {u}
             rs == Redirect(ws, Unlinked)
  <2>1. u.onto = "nothing" /\ u.step = "rename" /\ u \in Writes
    BY <1>1 DEF Writes
  <2>2. queue' = [queue EXCEPT !.writes = rs]
    BY <1>5 DEF UnlinkMain
  <2> HIDE DEF u
  <2>3. \A v \in ws : v \in Writes /\ v.onto = "nothing" /\ v.step # "open"
    BY <1>1, <2>1 DEF Nothing, Queues
  <2> HIDE DEF ws
  <2>4. \A v \in rs : v.onto = "nothing" /\ v.step # "open"
    <3> SUFFICES ASSUME NEW x \in rs PROVE x.onto = "nothing" /\ x.step # "open"
      OBVIOUS
    <3>1. PICK v \in ws : x = [v EXCEPT !.onto = Unlinked[v.onto]]
      BY DEF Redirect
    <3>2. v \in Writes /\ v.onto = "nothing" /\ v.step # "open"
      BY <2>3
    <3>3. Unlinked[v.onto] = "nothing"
      BY <3>2 DEF Unlinked
    <3>4. x = [v EXCEPT !.onto = "nothing"]
      BY <3>1, <3>3
    <3>5. QED
      BY <3>2, <3>4 DEF Writes
  <2> HIDE DEF rs
  <2>5. queue'.pending = queue.pending /\ queue'.writes = rs
    BY <1>1, <2>2 DEF Queues
  <2>6. disk'.main = Absent /\ disk'.tmp = Absent /\ listed' = listed
    BY <1>1, <1>5, TypesHere DEF UnlinkMain
  <2>7. QED
    BY <1>1, <2>4, <2>5, <2>6 DEF Nothing
<1>6. CASE RenameTmp(w)
  BY <1>1, <1>6, EndedGone DEF RenameTmp
<1>7. QED
  BY <1>2, <1>3, <1>4, <1>5, <1>6 DEF FileOperation

LEMMA TimerFiresGone ==
  ASSUME Inv, Gone, Mourned, TimerFires
  PROVE  ~listed' /\ Nothing(queue', disk')
<1>1. ~listed /\ Nothing(queue, disk) /\ queue \in Queues
  BY TypesHere DEF Gone
<1>2. queue' = [queue EXCEPT !.timers = queue.timers - 1]
  BY <1>1 DEF TimerFires, TimerFired, Nothing
<1>3. queue'.pending = queue.pending /\ queue'.writes = queue.writes
  BY <1>1, <1>2 DEF Queues
<1>4. QED
  BY <1>1, <1>3 DEF TimerFires, Nothing

LEMMA DeleteSessionGone ==
  ASSUME Inv, DeleteSession
  PROVE  ~listed' /\ Nothing(queue', disk')
<1> DEFINE c == CancelEntry(queue)
           ws == {Erased(w) : w \in queue.writes}
<1>1. Tidy(c) /\ c.pending = NoEntry
  BY TypesHere, CancelTidy
<1>2. queue' = [c EXCEPT !.writes = ws]
  BY DEF DeleteSession
<1>3. \A x \in ws : x.onto = "nothing" /\ x.step # "open"
  <2> SUFFICES ASSUME NEW w \in queue.writes
               PROVE  Erased(w).onto = "nothing" /\ Erased(w).step # "open"
    OBVIOUS
  <2>1. w \in Writes
    BY TypesHere
  <2>2. QED
    BY <2>1 DEF Erased, Writes
<1> HIDE DEF c, ws
<1>4. queue'.pending.ver = 0 /\ queue'.writes = ws
  BY <1>1, <1>2 DEF Tidy, Ledger, Queues, NoEntry
<1>5. QED
  BY <1>3, <1>4 DEF DeleteSession, Nothing

LEMMA GoneNext == Inv /\ Gone /\ [Next]_vars => Gone'
<1> SUFFICES ASSUME Inv, Gone, [Next]_vars PROVE Gone'
  OBVIOUS
<1>1. ASSUME NEW w \in queue.writes, FileOperation(w) PROVE Gone'
  <2>1. /\ trouble \subseteq trouble' /\ listed' = listed
        /\ "delete" \in trouble' => "delete" \in trouble
    BY <1>1 DEF FileOperation, OpenTmp, OpenFails, FillTmp, UnlinkMain, RenameTmp, Trouble,
       Overlap
  <2>2. Mourned' => Mourned
    BY <2>1 DEF Mourned
  <2>3. QED
    BY <1>1, <2>1, <2>2, FileOperationGone DEF Gone
<1>2. CASE TimerFires
  <2>1. /\ trouble \subseteq trouble' /\ listed' = listed
        /\ "delete" \in trouble' => "delete" \in trouble
    BY <1>2 DEF TimerFires, Trouble, Overlap
  <2>2. Mourned' => Mourned
    BY <2>1 DEF Mourned
  <2>3. QED
    BY <1>2, <2>1, <2>2, TimerFiresGone DEF Gone
<1>3. CASE DeleteSession
  <2>1. "delete" \in trouble'
    BY <1>3 DEF DeleteSession, Trouble
  <2>2. QED
    BY <1>3, <2>1, DeleteSessionGone DEF Gone
<1>4. ASSUME NEW meta \in Metas, NEW flushed \in BOOLEAN, Save(meta, flushed)
      PROVE  Gone'
  <2>1. listed' = listed /\ trouble' = trouble \cup (Overlap(queue') \cup Late)
    BY <1>4 DEF Save, Trouble
  <2>2. QED
    BY <2>1 DEF Gone, Mourned, Late, Overlap
<1>5. CASE DeferredApplied
  <2>1. listed' = listed /\ trouble' = trouble \cup Late
    BY <1>5 DEF DeferredApplied, Trouble
  <2>2. QED
    BY <2>1 DEF Gone, Mourned, Late
<1>6. CASE FlushSession
  <2>1. queue.pending.ver > 0 /\ listed' = listed /\ trouble' = trouble \cup Overlap(queue')
    BY <1>6 DEF FlushSession, Trouble
  <2>2. ~Mourned
    BY <2>1 DEF Gone, Nothing
  <2>3. ~Mourned' /\ ("delete" \notin trouble' => "delete" \notin trouble)
    BY <2>1, <2>2 DEF Mourned, Overlap
  <2>4. QED
    BY <2>1, <2>3 DEF Gone
<1>7. ASSUME NEW busy \in BOOLEAN, WatcherReports(busy) PROVE Gone'
  <2>1. /\ listed' = listed /\ disk' = disk
        /\ \/ UNCHANGED <<queue, trouble>>
           \/ listed /\ (trouble' = trouble \/ trouble' = trouble \cup {"misread"})
    BY <1>7 DEF WatcherReports, Trouble
  <2>2. QED
    BY <2>1 DEF Gone, Mourned
<1>8. CASE Environment
  <2>1. ASSUME NEW w \in queue.writes, WriteFails(w) PROVE Gone'
    <3>1. listed' = listed /\ trouble' = trouble \cup ({"failure"} \cup Overlap(queue'))
      BY <2>1 DEF WriteFails, Trouble
    <3>2. QED
      BY <3>1 DEF Gone, Mourned, Overlap
  <2>2. ASSUME NEW meta \in Metas, UpdateStored(meta) PROVE Gone'
    <3>1. listed' = listed /\ trouble' = trouble \cup ({"update"} \cup Overlap(queue'))
      BY <2>2 DEF UpdateStored, Trouble
    <3>2. QED
      BY <3>1 DEF Gone, Mourned, Overlap
  <2>3. ASSUME NEW meta \in Metas, OutsiderEdits(meta) PROVE Gone'
    BY <2>3 DEF OutsiderEdits, Trouble, Gone, Mourned
  <2>4. CASE ListSessions
    BY <2>4 DEF ListSessions, Trouble, Gone, Mourned
  <2>5. CASE Crash
    BY <2>5 DEF Crash, Trouble, Gone, Mourned
  <2>6. QED
    BY <1>8, <2>1, <2>2, <2>3, <2>4, <2>5 DEF Environment
<1>9. CASE UNCHANGED vars
  BY <1>9 DEF vars, Gone, Mourned
<1>10. QED
  BY <1>1, <1>2, <1>3, <1>4, <1>5, <1>6, <1>7, <1>8, <1>9 DEF Next, Callers

LEMMA GoneHolds == Spec => []Gone
<1>1. Init => Gone
  BY DEF Init, Gone, Mourned
<1>2. QED
  BY <1>1, GoneNext, InvHolds, PTL DEF Spec

-----------------------------------------------------------------------------
LEMMA FoundIsOnDisk ==
  /\ OnDisk = Found(disk)
  /\ OnDisk' = Found(disk')
BY DEF OnDisk, Found

(* What a flush promised, the caller it returned to may count on: unless     *)
(* writes overlap, two flushes wait for the same write or a mishap destroys  *)
(* it, that version or a newer one is on disk from then on, at every moment  *)
(* of every later write.                                                     *)
THEOREM PromisesKept == Spec => []AcceptedStored
<1>1. Inv /\ Stored => AcceptedStored
  <2> SUFFICES ASSUME Inv, Stored, Simple, NEW v \in queue.answered PROVE OnDisk >= v
    BY DEF AcceptedStored, Simple
  <2>1. v <= Found(disk)
    BY DEF Stored, Answered
  <2>2. v \in Nat /\ Found(disk) \in Nat
    BY TypesHere
  <2>3. QED
    BY <2>1, <2>2, FoundIsOnDisk
<1>2. QED
  BY <1>1, StoredHolds, PTL

(* While writes do not overlap, no step of the queue, of its callers or of   *)
(* the file system brings an older version back.                             *)
THEOREM OnlyForwards == Spec => NeverBackwards
<1>1. ASSUME Inv, Stored, [Next]_vars
      PROVE  [trouble' \subseteq {"edit", "misread", "crowd"} => OnDisk' >= OnDisk]_vars
  <2> SUFFICES ASSUME trouble' \subseteq {"edit", "misread", "crowd"} PROVE OnDisk' >= OnDisk
    OBVIOUS
  <2>1. Inv' /\ Forward
    BY <1>1, InvNext, StoredNext
  <2>2. Found(disk) <= Found(disk')
    BY <2>1 DEF Forward, Calm
  <2>3. Found(disk) \in Nat /\ Found(disk') \in Nat
    <3>1. Found(disk) \in Nat
      BY <1>1, TypesHere
    <3>2. disk' \in [main : Contents, tmp : Contents]
      BY <2>1 DEF Inv, Files
    <3>3. disk'.main.ver \in Versions /\ disk'.tmp.ver \in Versions
      BY <3>2 DEF Contents
    <3>4. QED
      BY <3>1, <3>3, VersionsAreNat DEF Found
  <2>4. QED
    BY <2>2, <2>3, FoundIsOnDisk
<1>2. QED
  BY <1>1, StoredHolds, PTL DEF Spec, NeverBackwards

(* When the queue has emptied and nobody else touched the file, the file is  *)
(* the session in memory, name, labels and status included: no save was      *)
(* lost, and the queue mistook none of its own writes for an outsider's.     *)
(* And there is no file of a session that was deleted: neither its entry,    *)
(* nor a flush that waits, nor a write under way brings one back.            *)
THEOREM AtRestStored == Spec => []LatestAtRest
<1>1. Inv /\ Stored /\ Gone => LatestAtRest
  <2> SUFFICES ASSUME Inv, Stored, Gone, AtRest, trouble \subseteq {"crowd", "delete"}
               PROVE  disk.main = InMemory
    BY DEF LatestAtRest
  <2>1. CASE "delete" \in trouble
    BY <2>1 DEF Gone, Mourned, Nothing, InMemory
  <2>2. CASE "delete" \notin trouble
    <3>1. Alike /\ Calm /\ listed
      BY <2>2 DEF Alike, Calm, Gone
    <3>2. queue.writes = {} /\ queue.pending.ver = 0
      BY DEF AtRest, NoEntry
    <3>3. CASE session.ver > 0
      <4>1. Latest(queue, session, disk)
        BY <3>1 DEF Stored, Unedited, Kept
      <4>2. QED
        BY <3>1, <3>2, <3>3, <4>1 DEF Latest, InMemory
    <3>4. CASE session.ver = 0
      <4>1. disk.main.kind # "whole"
        BY <3>4 DEF Inv, Unborn
      <4>2. disk.main = Absent
        BY <3>1, <4>1 DEF Stored, Orderly, Fine, Placed
      <4>3. QED
        BY <3>4, <4>2 DEF InMemory
    <3>5. QED
      BY <3>3, <3>4, TypesHere
  <2>3. QED
    BY <2>1, <2>2
<1>2. QED
  BY <1>1, StoredHolds, GoneHolds, PTL

===============================================================================

-------------------------- MODULE SessionPersistence --------------------------
(***************************************************************************)
(* How one session reaches its file: the debounced persistence queue       *)
(* (persistence-queue.ts), the callers that save, flush and acknowledge,   *)
(* and the watcher that reports changes of the file back.                  *)
(*                                                                         *)
(* The queue keeps its maps by session and sessions share nothing, so one  *)
(* session is modelled.  Its messages are abstracted to a version: the     *)
(* number of saves made so far.  Its header metadata (name, labels, status *)
(* ...) is one value, which is also its signature.                         *)
(*                                                                         *)
(* JavaScript runs a handler up to its next await; file operations run on  *)
(* a thread pool, one after the other for one write and interleaved for    *)
(* two.  A promise's waiters resume, in order, in the step that settles    *)
(* it: microtasks run before anything else does.                           *)
(***************************************************************************)
EXTENDS Naturals, FiniteSets, Sequences, SequencesExt

CONSTANTS
  Metas,       \* values of the header metadata
  FirstMeta,   \* the metadata of a new session
  MaxSaves,    \* bound: saves of the session in memory
  MaxWaiters,  \* bound: nobody flushes while so many wait already
  Mishaps,     \* what the environment may do: a subset of MishapKinds
  MaxMishaps   \* bound: how often it does

NoMeta == "none"

MishapKinds == {"edit", "update", "misread", "failure", "cleanup", "delete", "crash"}

ASSUME PersistenceAssumption ==
  /\ NoMeta \notin Metas
  /\ FirstMeta \in Metas
  /\ MaxSaves \in Nat
  /\ MaxWaiters \in Nat
  /\ Mishaps \subseteq MishapKinds
  /\ MaxMishaps \in Nat

VARIABLES
  session,  \* the session in memory: [ver, meta]
  listed,   \* the application has it; a deleted one is left to those who hold it
  queue,    \* the persistence queue's entries for it, and its writes in flight
  disk,     \* session.jsonl and session.jsonl.tmp
  watch,    \* a change of session.jsonl the watcher has not reported yet
  deferred, \* pendingExternalMetadata
  trouble,  \* the mishaps that happened, and what they brought about
  mishaps   \* how many

vars == <<session, listed, queue, disk, watch, deferred, trouble, mishaps>>

(***************************************************************************)
(* A file holds nothing, a part of a session (cut off, or two writes       *)
(* mixed), or a whole one.                                                 *)
(***************************************************************************)
Absent       == [kind |-> "absent", ver |-> 0, meta |-> NoMeta, outside |-> FALSE]
Truncated    == [Absent EXCEPT !.kind = "part"]
Mixed(s)     == [kind |-> "part",  ver |-> 0,     meta |-> s.meta, outside |-> FALSE]
Whole(s)     == [kind |-> "whole", ver |-> s.ver, meta |-> s.meta, outside |-> FALSE]

NoEntry == [ver |-> 0, meta |-> NoMeta, armed |-> FALSE]

EmptyQueue ==
  [ pending    |-> NoEntry,  \* the entry to write; armed: its timer is running
    timers     |-> 0,        \* running timers, those of entries already written too
    signature  |-> NoMeta,   \* lastWrittenHeaderSignature
    writes     |-> {},       \* writes between their start and their last file operation
    inProgress |-> 0,        \* writeInProgress: the id of a write, 0 for none
    answered   |-> {} ]      \* versions whose flush has returned

-----------------------------------------------------------------------------
(* The queue's methods. *)

ClearTimer(q) ==
  IF q.pending.armed THEN [q EXCEPT !.pending.armed = FALSE, !.timers = @ - 1] ELSE q

Enqueue(q, s) ==
  [ClearTimer(q) EXCEPT !.pending = [ver |-> s.ver, meta |-> s.meta, armed |-> TRUE],
                        !.timers = @ + 1]

CancelEntry(q) == [ClearTimer(q) EXCEPT !.pending = NoEntry, !.signature = NoMeta]

(* Mutant of HeaderToWrite: whatever differs on disk is taken for an outsider's. *)
HeaderOnDisk(q, d) ==
  IF d.main.meta \notin {NoMeta, q.pending.meta} THEN d.main.meta ELSE q.pending.meta

(* The metadata on disk wins when it is not what this queue wrote last. *)
HeaderToWrite(q, d) ==
  IF NoMeta \notin {d.main.meta, q.signature} /\ d.main.meta # q.signature
  THEN d.main.meta
  ELSE q.pending.meta

(* Ids tell the writes in flight apart. *)
NewId(q) == CHOOSE i \in 1 .. Cardinality(q.writes) + 1 : \A w \in q.writes : w.id # i

(* write, up to its first await.  answers is the version the flush that made *)
(* the call will answer for, 0 when a timer made it.                         *)
StartWrite(q, d, answers) ==
  LET header == HeaderToWrite(q, d)
      w == [id |-> NewId(q), step |-> "open", ver |-> q.pending.ver, meta |-> header,
            onto |-> "nothing", answers |-> answers, waiters |-> <<>>]
  IN  [q EXCEPT !.pending = NoEntry, !.signature = header, !.writes = @ \cup {w},
                !.inProgress = IF answers = 0 THEN @ ELSE w.id]

(* Mutant of TimerFired: the timer runs again, as an interval would. *)
IntervalFired(q, d) == IF q.pending.ver = 0 THEN q ELSE StartWrite(q, d, 0)

(* Which timer fires makes no difference: any takes whatever entry is pending. *)
TimerFired(q, d) ==
  LET fired == [q EXCEPT !.timers = @ - 1]
  IN  IF q.pending.ver = 0 THEN fired ELSE StartWrite(fired, d, 0)

(* Mutant of Flush: it returns once the write in progress has ended. *)
FlushWaitsOnly(q, d) ==
  IF q.pending.ver = 0 \/ q.inProgress # 0 THEN ClearTimer(q)
  ELSE StartWrite(ClearTimer(q), d, q.pending.ver)

(* Mutant of Flush: it does not wait for the write in progress. *)
FlushAtOnce(q, d) ==
  IF q.pending.ver = 0 THEN q ELSE StartWrite(ClearTimer(q), d, q.pending.ver)

(* flush, up to its first await. *)
Flush(q, d) ==
  LET cleared == ClearTimer(q)
      v       == q.pending.ver
  IN  IF v = 0 THEN q
      ELSE IF q.inProgress = 0 THEN StartWrite(cleared, d, v)
      ELSE [cleared EXCEPT !.writes =
              {IF w.id = q.inProgress THEN [w EXCEPT !.waiters = Append(@, v)] ELSE w
                 : w \in q.writes}]

(* Mutant of Settle: the flush that returns leaves its write in writeInProgress. *)
SettleUncleared(q, d, w) ==
  [q EXCEPT !.writes = @ \ {w}, !.answered = (@ \cup {w.answers} \cup ToSet(w.waiters)) \ {0}]

(* Mutant of Settle: the flushes that waited return without a write of their own. *)
SettleAll(q, d, w) ==
  [q EXCEPT !.writes = @ \ {w}, !.inProgress = IF w.answers = 0 THEN @ ELSE 0,
            !.answered = (@ \cup {w.answers} \cup ToSet(w.waiters)) \ {0}]

(* The promise of write w settles: its own flush returns, and the flushes   *)
(* that waited for it resume.  The first takes the pending entry; the       *)
(* others find none, return at once and clear writeInProgress behind it.    *)
Settle(q, d, w) ==
  LET ended    == [q EXCEPT !.writes = @ \ {w}]
      returned == IF w.answers = 0 THEN ended
                  ELSE [ended EXCEPT !.inProgress = 0, !.answered = @ \cup {w.answers}]
  IN  IF w.waiters = <<>> THEN returned
      ELSE IF returned.pending.ver = 0
           THEN [returned EXCEPT !.answered = @ \cup ToSet(w.waiters)]
      ELSE LET others == ToSet(Tail(w.waiters))
               next   == StartWrite(returned, d, Head(w.waiters))
           IN  [next EXCEPT !.answered = @ \cup others,
                            !.inProgress = IF others = {} THEN @ ELSE 0]

-----------------------------------------------------------------------------
(* The file operations of a write. *)

Trouble(kinds) == trouble' = trouble \cup kinds

(* Two writes in flight; two flushes that wait for the same write. *)
Overlap(q) ==
  (IF Cardinality(q.writes) > 1 THEN {"overlap"} ELSE {}) \cup
  (IF \E w \in q.writes : Len(w.waiters) > 1 THEN {"crowd"} ELSE {})

Mishap(kind) ==
  /\ kind \in Mishaps
  /\ mishaps < MaxMishaps
  /\ mishaps' = mishaps + 1

Advance(w, step, onto) ==
  queue' = [queue EXCEPT !.writes = (@ \ {w}) \cup {[w EXCEPT !.step = step, !.onto = onto]}]

(* What happens to open files when main is unlinked, or replaced by tmp. *)
Redirect(writes, moved) == {[w EXCEPT !.onto = moved[@]] : w \in writes}

Unlinked == [tmp |-> "tmp",     main |-> "nothing", nothing |-> "nothing"]
Renamed  == [tmp |-> "main",    main |-> "nothing", nothing |-> "nothing"]
Cleaned  == [tmp |-> "nothing", main |-> "main",    nothing |-> "nothing"]

(* Mutant of OpenTmp: the session's file is written in place. *)
OpenMain(w) ==
  /\ w.step = "open"
  /\ disk' = [disk EXCEPT !.main = Truncated]
  /\ Advance(w, "fill", "main")
  /\ UNCHANGED <<session, listed, watch, deferred, trouble, mishaps>>

(* writeFile opens the temporary file, an existing one truncated.  A write   *)
(* whose directory was removed finds one only if a later write made it again. *)
OpenTmp(w) ==
  /\ w.step = "open" \/ (w.step = "lost" /\ "late" \in trouble)
  /\ disk' = [disk EXCEPT !.tmp = Truncated]
  /\ Advance(w, "fill", "tmp")
  /\ UNCHANGED <<session, listed, watch, deferred, trouble, mishaps>>

(* Its content goes to the file it opened, wherever that is by now; over     *)
(* what another write put there, a shorter one leaves the other's end.       *)
FillTmp(w) ==
  /\ w.step = "fill"
  /\ IF w.onto = "nothing" THEN UNCHANGED disk
     ELSE \E c \in {Whole(w)} \cup (IF disk[w.onto] = Truncated THEN {} ELSE {Mixed(w)}) :
            disk' = [disk EXCEPT ![w.onto] = c]
  /\ Advance(w, "unlink", "nothing")
  /\ UNCHANGED <<session, listed, watch, deferred, trouble, mishaps>>

UnlinkMain(w) ==
  /\ w.step = "unlink"
  /\ disk' = [disk EXCEPT !.main = Absent]
  /\ watch' = (watch \/ disk.main # Absent)
  /\ queue' = [queue EXCEPT !.writes =
                 Redirect((@ \ {w}) \cup {[w EXCEPT !.step = "rename"]}, Unlinked)]
  /\ UNCHANGED <<session, listed, deferred, trouble, mishaps>>

(* rename fails when another write, or a clean-up, has taken the file away: *)
(* the error is logged and the write ends as if it had succeeded.           *)
RenameTmp(w) ==
  /\ w.step = "rename"
  /\ IF disk.tmp = Absent THEN
       /\ UNCHANGED <<disk, watch>>
       /\ queue' = Settle(queue, disk, w)
     ELSE
       /\ disk' = [main |-> disk.tmp, tmp |-> Absent]
       /\ watch' = TRUE
       /\ queue' = Settle([queue EXCEPT !.writes = Redirect(@ \ {w}, Renamed)], disk', w)
  /\ Trouble(Overlap(queue'))
  /\ UNCHANGED <<session, listed, deferred, mishaps>>

(* The directory was removed with the session: writeFile fails. *)
OpenFails(w) ==
  /\ w.step = "lost"
  /\ queue' = Settle(queue, disk, w)
  /\ Trouble(Overlap(queue'))
  /\ UNCHANGED <<session, listed, disk, watch, deferred, mishaps>>

(* A file operation fails; errors of unlink are ignored.  The entry is gone. *)
WriteFails(w) ==
  /\ w.step \in {"open", "fill", "rename"}
  /\ Mishap("failure")
  /\ queue' = Settle(queue, disk, w)
  /\ Trouble({"failure"} \cup Overlap(queue'))
  /\ UNCHANGED <<session, listed, disk, watch, deferred>>

TimerFires ==
  /\ queue.timers > 0
  /\ queue' = TimerFired(queue, disk)
  /\ Trouble(Overlap(queue'))
  /\ UNCHANGED <<session, listed, disk, watch, deferred, mishaps>>

-----------------------------------------------------------------------------
(* Callers. *)

(* Somebody who still holds a deleted session saves it. *)
Late == IF listed THEN {} ELSE {"late"}

(* persistSession after a change in memory; with flushed, a caller that      *)
(* awaits the flush before it goes on, as sendMessage does before it         *)
(* acknowledges the message.                                                 *)
Save(meta, flushed) ==
  /\ session.ver < MaxSaves
  /\ session' = [ver |-> session.ver + 1, meta |-> meta]
  /\ LET queued == Enqueue(queue, session')
     IN queue' = IF flushed THEN Flush(queued, disk) ELSE queued
  /\ Trouble(Overlap(queue') \cup Late)
  /\ UNCHANGED <<listed, disk, watch, deferred, mishaps>>

(* flushSession of what was saved before. *)
FlushSession ==
  /\ queue.pending.ver > 0
  /\ \A w \in queue.writes : Len(w.waiters) < MaxWaiters
  /\ queue' = Flush(queue, disk)
  /\ Trouble(Overlap(queue'))
  /\ UNCHANGED <<session, listed, disk, watch, deferred, mishaps>>

(* updateSessionMetadata: what is on disk, with other metadata, is saved,    *)
(* whatever is pending (deleting a label or a status does this to every      *)
(* session that carries it).                                                 *)
UpdateStored(meta) ==
  /\ disk.main.kind = "whole"
  /\ Mishap("update")
  /\ queue' = Flush(Enqueue(queue, [ver |-> disk.main.ver, meta |-> meta]), disk)
  /\ Trouble({"update"} \cup Overlap(queue'))
  /\ UNCHANGED <<session, listed, disk, watch, deferred>>

(* applyExternalSessionMetadata. *)
Adopt(header) ==
  IF header = session.meta THEN UNCHANGED <<session, queue>>
  ELSE /\ session' = [session EXCEPT !.meta = header]
       /\ queue' = Enqueue(CancelEntry(queue), session')

(* onSessionMetadataChange: a header other than the last one written is an  *)
(* outsider's; while the session is busy it is kept for later.  A misread   *)
(* takes the queue's own earlier write for an outsider's.                   *)
WatcherReports(busy) ==
  /\ watch
  /\ watch' = FALSE
  /\ LET header == disk.main.meta
     IN IF header \in {NoMeta, queue.signature} \/ ~listed
        THEN UNCHANGED <<session, queue, deferred, trouble, mishaps>>
        ELSE /\ IF disk.main.outside THEN UNCHANGED <<trouble, mishaps>>
                ELSE Mishap("misread") /\ Trouble({"misread"})
             /\ IF busy THEN deferred' = header /\ UNCHANGED <<session, queue>>
                ELSE Adopt(header) /\ UNCHANGED deferred
  /\ UNCHANGED <<listed, disk>>

DeferredApplied ==
  /\ deferred # NoMeta
  /\ deferred' = NoMeta
  /\ Adopt(deferred)
  /\ Trouble(Late)
  /\ UNCHANGED <<listed, disk, watch, mishaps>>

(* A write whose directory is removed: the file it has open is nobody's, and *)
(* one it has not opened it will not find.                                   *)
Erased(w) ==
  [w EXCEPT !.onto = "nothing", !.step = IF @ = "open" THEN "lost" ELSE @]

(* deleteSession, after its awaits. *)
DeleteSession ==
  /\ listed
  /\ Mishap("delete")
  /\ listed' = FALSE
  /\ queue' = [CancelEntry(queue) EXCEPT !.writes = {Erased(w) : w \in queue.writes}]
  /\ disk' = [main |-> Absent, tmp |-> Absent]
  /\ Trouble({"delete"})
  /\ UNCHANGED <<session, watch, deferred>>

-----------------------------------------------------------------------------
(* The environment. *)

(* Another program rewrites the header of the session's file. *)
OutsiderEdits(meta) ==
  /\ disk.main.kind = "whole"
  /\ meta # disk.main.meta
  /\ Mishap("edit")
  /\ disk' = [disk EXCEPT !.main.meta = meta, !.main.outside = TRUE]
  /\ watch' = TRUE
  /\ Trouble({"edit"})
  /\ UNCHANGED <<session, listed, queue, deferred>>

(* listSessions removes a temporary file it takes for an orphan. *)
ListSessions ==
  /\ disk.tmp # Absent
  /\ Mishap("cleanup")
  /\ disk' = [disk EXCEPT !.tmp = Absent]
  /\ queue' = [queue EXCEPT !.writes = Redirect(@, Cleaned)]
  /\ Trouble({"cleanup"})
  /\ UNCHANGED <<session, listed, watch, deferred>>

(* The process dies; the next one lists the sessions and loads this one. *)
Crash ==
  /\ Mishap("crash")
  /\ queue' = EmptyQueue
  /\ disk' = [disk EXCEPT !.tmp = Absent]
  /\ session' = IF disk.main.kind = "whole"
                THEN [ver |-> disk.main.ver, meta |-> disk.main.meta]
                ELSE [ver |-> 0, meta |-> FirstMeta]
  /\ listed' = TRUE
  /\ watch' = FALSE
  /\ deferred' = NoMeta
  /\ Trouble({"crash"})

-----------------------------------------------------------------------------
Init ==
  /\ session = [ver |-> 0, meta |-> FirstMeta]
  /\ listed = TRUE
  /\ queue = EmptyQueue
  /\ disk = [main |-> Absent, tmp |-> Absent]
  /\ watch = FALSE
  /\ deferred = NoMeta
  /\ trouble = {}
  /\ mishaps = 0

FileOperation(w) == OpenTmp(w) \/ OpenFails(w) \/ FillTmp(w) \/ UnlinkMain(w) \/ RenameTmp(w)

Callers ==
  \/ \E meta \in Metas, flushed \in BOOLEAN : Save(meta, flushed)
  \/ FlushSession
  \/ \E busy \in BOOLEAN : WatcherReports(busy)
  \/ DeferredApplied
  \/ DeleteSession

Environment ==
  \/ \E w \in queue.writes : WriteFails(w)
  \/ \E meta \in Metas : UpdateStored(meta) \/ OutsiderEdits(meta)
  \/ ListSessions
  \/ Crash

(* No entry pending, no write in flight, no timer running. *)
AtRest == queue.pending = NoEntry /\ queue.writes = {} /\ queue.timers = 0

Next ==
  \/ \E w \in queue.writes : FileOperation(w)
  \/ TimerFires
  \/ Callers
  \/ Environment
  \/ AtRest /\ UNCHANGED vars

(* Timers fire and the thread pool ends every operation.  Nobody has to save, *)
(* and nothing is assumed of the watcher.                                     *)
Fairness ==
  /\ WF_vars(TimerFires)
  /\ WF_vars(\E w \in queue.writes : FileOperation(w))

Spec == Init /\ [][Next]_vars

FairSpec == Spec /\ Fairness

-----------------------------------------------------------------------------
(* Properties. *)

Versions == 0 .. MaxSaves

MetasOrNone == Metas \cup {NoMeta}

Contents ==
  [kind : {"absent", "part", "whole"}, ver : Versions, meta : MetasOrNone, outside : BOOLEAN]

Writes ==
  [id : Nat \ {0}, step : {"open", "lost", "fill", "unlink", "rename"}, ver : Versions \ {0},
   meta : Metas, onto : {"tmp", "main", "nothing"}, answers : Versions,
   waiters : Seq(Versions \ {0})]

TypeOK ==
  /\ session \in [ver : Versions, meta : Metas]
  /\ listed \in BOOLEAN
  /\ queue.pending \in [ver : Versions, meta : MetasOrNone, armed : BOOLEAN]
  /\ queue.timers \in Nat
  /\ queue.signature \in MetasOrNone
  /\ queue.writes \subseteq Writes
  /\ queue.inProgress \in {0} \cup {w.id : w \in queue.writes}
  /\ queue.answered \subseteq Versions \ {0}
  /\ disk \in [main : Contents, tmp : Contents]
  /\ watch \in BOOLEAN
  /\ deferred \in MetasOrNone
  /\ trouble \subseteq MishapKinds \cup {"overlap", "crowd", "late"}
  /\ mishaps \in 0 .. MaxMishaps

(* An entry that waits to be written has somebody to write it, its timer or *)
(* a flush that waits its turn: no order of saves, flushes, cancels, failed *)
(* writes and stray timers leaves one behind.                               *)
Attended ==
  queue.pending.ver > 0 =>
    queue.pending.armed \/ \E w \in queue.writes : w.waiters # <<>>

(* Writes that flushes start are serialized, whatever timers do, as long as  *)
(* no two flushes wait for the same write.                                   *)
FlushesSerialized ==
  "crowd" \notin trouble =>
    \A v, w \in queue.writes : v.answers > 0 /\ w.answers > 0 => v = w

(* The version a reader finds, looking into the temporary file while the    *)
(* session's own is being replaced.                                         *)
OnDisk ==
  IF disk.main.kind = "absent" THEN disk.tmp.ver ELSE disk.main.ver

(* When a flush has returned, what it promised is on disk and stays there:  *)
(* in the session's file or, while that is replaced, whole in the temporary *)
(* one; provided no two writes overlapped, no two flushes waited for the    *)
(* same write and nothing else went wrong.                                  *)
AcceptedStored ==
  trouble \subseteq {"edit", "misread"} => \A v \in queue.answered : OnDisk >= v

(* Unless writes overlap or something goes wrong, the disk never goes back  *)
(* to an older version, and never holds a part of one only.                 *)
NeverBackwards ==
  [][trouble' \subseteq {"edit", "misread", "crowd"} => OnDisk' >= OnDisk]_vars

(* What the application has: nothing before the first save or of a deleted   *)
(* session.                                                                 *)
InMemory == IF listed /\ session.ver > 0 THEN Whole(session) ELSE Absent

(* At rest the file is the session in memory, its metadata included: the    *)
(* queue never takes its own earlier write for an outsider's.  And a session *)
(* that was deleted stays deleted, whatever timers, flushes and writes were  *)
(* under way, unless somebody who still holds it saves it.                   *)
LatestAtRest ==
  AtRest /\ trouble \subseteq {"crowd", "delete"} => disk.main = InMemory

(* The queue empties, after a failed write too, unless the watcher takes    *)
(* the queue's own writes for an outsider's and keeps saving them.          *)
Drains == <>[](AtRest \/ "misread" \in trouble)

-----------------------------------------------------------------------------
(* What the source says of the queue, and the code does not keep. *)

(* write: "If the process crashes mid-write, only the .tmp is corrupted, the *)
(* original session.jsonl remains intact".                                   *)
OriginalIntact ==
  [][trouble' = {"crash"} /\ queue.answered # {} => disk'.main.kind = "whole"]_vars

==============================================================================

----------------------------- MODULE WebhookRetries -----------------------------
(***************************************************************************)
(* The webhooks of one workspace's automations: their first requests       *)
(* (WebhookHandler), the queue file from which failed ones are retried     *)
(* (RetryScheduler), and the history file with its compaction.             *)
(*                                                                         *)
(* Everything runs in one process, but each file operation and each        *)
(* request is awaited.  A webhook stands for one execution of a webhook    *)
(* action; retries within a request (executeWithRetry) belong to it.       *)
(***************************************************************************)
EXTENDS Picking, Naturals, Sequences, FiniteSets, SequencesExt

CONSTANTS
  Webhooks,     \* executions of webhook actions
  Automations,  \* matchers
  Of,           \* the matcher of each webhook
  MaxAttempts,  \* MAX_DEFERRED_ATTEMPTS
  PerMatcher,   \* AUTOMATION_HISTORY_MAX_RUNS_PER_MATCHER
  MaxEntries,   \* AUTOMATION_HISTORY_MAX_ENTRIES
  MaxCrashes,   \* bound: crashes of the process
  MaxFailures,  \* bound: file operations that fail
  MaxImports    \* bound: imports that overwrite an automation

ASSUME WebhookRetriesAssumption ==
  /\ IsFiniteSet(Webhooks) /\ Of \in [Webhooks -> Automations]
  /\ MaxAttempts \in Nat \ {0} /\ PerMatcher \in Nat \ {0} /\ MaxEntries \in Nat \ {0}
  /\ MaxCrashes \in Nat /\ MaxFailures \in Nat /\ MaxImports \in Nat

VARIABLES
  stage,     \* where the handler of each webhook's event is
  file,      \* the retry queue file: entries, oldest first
  tick,      \* the tick under way, if any
  history,   \* the history file
  writer,    \* the mutex of the history file: who waits, and the compaction under way
  tally,     \* what became of each webhook's retries
  overtaken, \* webhooks appended to the queue file, or filtered out of it, during a tick
  cleared,   \* webhooks whose automation was overwritten while they were queued
  torn,      \* webhooks of a rewriting of the queue file that was cut short
  unwritten, \* ticks that ended without rewriting the queue file
  failures,  \* other file operations that failed
  crashes, imports

queue == <<stage, file, tick, tally>>
limits == <<unwritten, failures, crashes, imports>>
vars == <<queue, history, writer, overtaken, cleared, torn, limits>>

(* Before its event; request under way; waiting for its history entry; its   *)
(* queue entry being appended; queued; nothing more to do.                   *)
Stages == {"new", "posting", "recording", "queuing", "queued", "done"}

NoTick == [phase |-> "idle", rest |-> <<>>, remaining |-> <<>>]

(* One who waits to append a history entry, and what follows once it is done. *)
Job(w, then) == [webhook |-> w, then |-> then]

NoWriter == [jobs |-> <<>>, phase |-> "idle", count |-> 0, kept |-> <<>>, last |-> <<>>]

Queued(s) == {s[i].webhook : i \in DOMAIN s}

(* A file operation fails.  A failed append writes nothing. *)
MayFail == failures + unwritten < MaxFailures
Fails == MayFail /\ failures' = failures + 1 /\ UNCHANGED <<unwritten, crashes, imports>>
-----------------------------------------------------------------------------
(* The history file: withMutex, append and compaction. *)

Record(job) == writer' = [writer EXCEPT !.jobs = Append(@, job)]

(* compactEntries: the last PerMatcher of each matcher, then the last        *)
(* MaxEntries.                                                               *)
Later(s, i) == {j \in DOMAIN s : j > i /\ Of[s[j].webhook] = Of[s[i].webhook]}
KeptOf(s) == {i \in DOMAIN s : Cardinality(Later(s, i)) < PerMatcher}
Compacted(s) ==
  Picked(s, {i \in KeptOf(s) : Cardinality({j \in KeptOf(s) : j > i}) < MaxEntries})

(* The append is over: the handler of the event puts a webhook that failed   *)
(* for a while on the queue, a tick goes on to its next entry.  Both do so   *)
(* whether or not the entry is in the history now.                           *)
Resumes(job, recorded) ==
  IF job.then = "tick"
  THEN /\ tick' = [tick EXCEPT !.phase = "working"]
       /\ tally' = [tally EXCEPT ![job.webhook].told = @ \/ recorded,
                                 ![job.webhook].missed = @ \/ ~recorded]
       /\ UNCHANGED <<stage, file>>
  ELSE stage' = [stage EXCEPT ![job.webhook] = job.then] /\ UNCHANGED <<file, tick, tally>>

(* Mutant of MayAppend: no mutex. *)
MayAppendAtOnce == writer.jobs # <<>>

MayAppend == writer.jobs # <<>> /\ writer.phase = "idle"

(* The append that reaches the cap compacts before it returns. *)
HistoryAppends ==
  /\ MayAppend
  /\ LET job  == Head(writer.jobs)
         full == writer.count + 1 >= MaxEntries
     IN  /\ history' = Append(history, job)
         /\ writer' = [writer EXCEPT !.last = <<job>>,
                                     !.count = IF full THEN 0 ELSE @ + 1,
                                     !.jobs = Tail(@),
                                     !.phase = IF full THEN "compacting" ELSE @]
         /\ IF full THEN UNCHANGED queue ELSE Resumes(job, TRUE)
  /\ UNCHANGED <<overtaken, cleared, torn, limits>>

AppendFails ==
  /\ MayAppend /\ Fails
  /\ writer' = [writer EXCEPT !.jobs = Tail(@)]
  /\ Resumes(Head(writer.jobs), FALSE)
  /\ UNCHANGED <<history, overtaken, cleared, torn>>

(* writeFile empties the file before it writes what is kept; nothing is      *)
(* written when there is nothing to drop.                                    *)
CompactionOpens ==
  /\ writer.phase = "compacting"
  /\ writer' = [writer EXCEPT !.phase = "writing", !.kept = Compacted(history)]
  /\ history' = IF Compacted(history) = history THEN history ELSE <<>>
  /\ UNCHANGED <<queue, overtaken, cleared, torn, limits>>

CompactionWrites ==
  /\ writer.phase = "writing"
  /\ history' = writer.kept
  /\ writer' = [writer EXCEPT !.phase = "idle", !.kept = <<>>]
  /\ Resumes(writer.last[1], TRUE)
  /\ UNCHANGED <<overtaken, cleared, torn, limits>>

(* The history cannot be read or opened, and stays as it is ... *)
CompactionFails ==
  /\ writer.phase = "compacting" /\ Fails
  /\ writer' = [writer EXCEPT !.phase = "idle"]
  /\ Resumes(writer.last[1], TRUE)
  /\ UNCHANGED <<history, overtaken, cleared, torn>>

(* ... or the writing stops in the middle, and takes with it the newest      *)
(* entry, which caused the compaction.                                       *)
CompactionStops ==
  /\ writer.phase = "writing" /\ history # writer.kept /\ Fails
  /\ \E n \in 0 .. Len(writer.kept) - 1 : history' = SubSeq(writer.kept, 1, n)
  /\ writer' = [writer EXCEPT !.phase = "idle", !.kept = <<>>, !.last = <<>>]
  /\ Resumes(writer.last[1], FALSE)
  /\ UNCHANGED <<overtaken, cleared, torn>>
-----------------------------------------------------------------------------
(* WebhookHandler: an event, its request, its history entry, its queue entry. *)

Fires(w) ==
  /\ stage[w] = "new"
  /\ stage' = [stage EXCEPT ![w] = "posting"]
  /\ UNCHANGED <<file, tick, tally, history, writer, overtaken, cleared, torn, limits>>

(* It succeeded, was refused or was rate-limited ("done"); or all its         *)
(* attempts met a transient failure ("queuing").                              *)
Answered(w) ==
  /\ stage[w] = "posting"
  /\ stage' = [stage EXCEPT ![w] = "recording"]
  /\ \E then \in {"done", "queuing"} : Record(Job(w, then))
  /\ UNCHANGED <<file, tick, tally, history, overtaken, cleared, torn, limits>>

(* enqueue: an append of its own, which nobody waits for. *)
Enqueues(w) ==
  /\ stage[w] = "queuing"
  /\ stage' = [stage EXCEPT ![w] = "queued"]
  /\ file' = Append(file, [webhook |-> w, attempt |-> 0, due |-> FALSE])
  /\ overtaken' = IF tick.phase = "idle" THEN overtaken ELSE overtaken \cup {w}
  /\ UNCHANGED <<tick, tally, history, writer, cleared, torn, limits>>

(* ... so that its failure is only logged. *)
EnqueueFails(w) ==
  /\ stage[w] = "queuing" /\ Fails
  /\ stage' = [stage EXCEPT ![w] = "done"]
  /\ UNCHANGED <<file, tick, tally, history, writer, overtaken, cleared, torn>>
-----------------------------------------------------------------------------
(* RetryScheduler. *)

(* An entry's nextRetryAt passes.  A tick looks at the clock once, so what    *)
(* becomes due during a tick is as good as due after it.                     *)
TimePasses(w) ==
  /\ tick.phase = "idle"
  /\ \E i \in DOMAIN file : /\ file[i].webhook = w /\ ~file[i].due
                            /\ file' = [file EXCEPT ![i].due = TRUE]
  /\ UNCHANGED <<stage, tick, tally, history, writer, overtaken, cleared, torn, limits>>

(* The entries are read.  A tick that finds no entry ends at once. *)
TickBegins ==
  /\ tick.phase = "idle" /\ file # <<>>
  /\ tick' = [phase |-> "working", rest |-> file, remaining |-> <<>>]
  /\ UNCHANGED <<stage, file, tally, history, writer, overtaken, cleared, torn, limits>>

(* The next entry is kept if it is not due ... *)
TickSkips ==
  /\ tick.phase = "working" /\ tick.rest # <<>> /\ ~Head(tick.rest).due
  /\ tick' = [tick EXCEPT !.rest = Tail(@), !.remaining = Append(@, Head(tick.rest))]
  /\ UNCHANGED <<stage, file, tally, history, writer, overtaken, cleared, torn, limits>>

(* ... and requested if it is.  Requests are counted up to one more than     *)
(* RetriesBounded allows.                                                      *)
TickRequests ==
  /\ tick.phase = "working" /\ tick.rest # <<>> /\ Head(tick.rest).due
  /\ tick' = [tick EXCEPT !.phase = "posting"]
  /\ tally' = [tally EXCEPT ![Head(tick.rest).webhook].posts =
                           IF @ > MaxAttempts + MaxCrashes + MaxFailures THEN @ ELSE @ + 1]
  /\ UNCHANGED <<stage, file, history, writer, overtaken, cleared, torn, limits>>

(* Mutant of LastAttempt: one too many. *)
LastAttemptLate(e) == e.attempt + 1 > MaxAttempts

LastAttempt(e) == e.attempt + 1 >= MaxAttempts

(* Mutant of Settles: the entry is written behind the tick's back. *)
SettlesUnrecorded(e) ==
  /\ Record(Job(e.webhook, "tick"))
  /\ tick' = [tick EXCEPT !.phase = "working", !.rest = Tail(@)]

(* Mutant of Settles: the entry stays on the queue. *)
SettlesStaying(e) ==
  /\ Record(Job(e.webhook, "tick"))
  /\ tick' = [tick EXCEPT !.phase = "recording", !.rest = Tail(@), !.remaining = Append(@, e)]

(* Success and the last failure leave the queue, and are recorded before the *)
(* tick goes on.                                                             *)
Settles(e) ==
  /\ Record(Job(e.webhook, "tick"))
  /\ tick' = [tick EXCEPT !.phase = "recording", !.rest = Tail(@)]



(* Any other failure is put off. *)
PutsOff(e) ==
  /\ tick' = [tick EXCEPT !.phase = "working", !.rest = Tail(@),
                          !.remaining = Append(@, [e EXCEPT !.attempt = @ + 1, !.due = FALSE])]
  /\ UNCHANGED writer

RequestEnds ==
  /\ tick.phase = "posting"
  /\ LET e == Head(tick.rest)
     IN  \/ Settles(e) /\ tally' = [tally EXCEPT ![e.webhook].done = @ + 1]
         \/ LastAttempt(e) /\ Settles(e) /\ UNCHANGED tally
         \/ ~LastAttempt(e) /\ PutsOff(e) /\ UNCHANGED tally
  /\ UNCHANGED <<stage, file, history, overtaken, cleared, torn, limits>>

(* writeFile empties the file when it opens it ... *)
RewriteOpens ==
  /\ tick.phase = "working" /\ tick.rest = <<>>
  /\ tick' = [tick EXCEPT !.phase = "rewriting"]
  /\ file' = <<>>
  /\ UNCHANGED <<stage, tally, history, writer, overtaken, cleared, torn, limits>>

(* ... and then writes from its beginning, over what was appended meanwhile; *)
(* an entry cut in half is skipped by the next reader.                       *)
RewriteFills ==
  /\ tick.phase = "rewriting"
  /\ tick' = NoTick
  /\ IF tick.remaining = <<>> THEN UNCHANGED file
     ELSE \E k \in 0 .. Len(file) :
            /\ k = 0 => file = <<>>
            /\ file' = tick.remaining \o SubSeq(file, k + 1, Len(file))
  /\ UNCHANGED <<stage, tally, history, writer, overtaken, cleared, torn, limits>>

(* Mutant of RewriteFails: the tick that fails stays the one in progress. *)
RewriteFailsBusy ==
  /\ tick.phase = "working" /\ tick.rest = <<>>
  /\ MayFail /\ unwritten' = unwritten + 1
  /\ tick' = [tick EXCEPT !.phase = "recording"]
  /\ UNCHANGED <<stage, file, tally, history, writer, overtaken, cleared, torn, failures, crashes, imports>>

(* The file cannot be opened: it stays as the tick found it, and so do the   *)
(* entries the tick was done with.                                           *)
RewriteFails ==
  /\ tick.phase = "working" /\ tick.rest = <<>>
  /\ MayFail /\ unwritten' = unwritten + 1
  /\ tick' = NoTick
  /\ UNCHANGED <<stage, file, tally, history, writer, overtaken, cleared, torn, failures, crashes, imports>>

(* The writing stops in the middle: the first n entries are in the file. *)
RewriteStops ==
  /\ tick.phase = "rewriting" /\ Fails
  /\ tick' = NoTick
  /\ \E n \in 0 .. Len(tick.remaining) - 1 : \E k \in 0 .. Len(file) :
       file' = SubSeq(tick.remaining, 1, n) \o SubSeq(file, k + 1, Len(file))
  /\ torn' = torn \cup Queued(tick.remaining)
  /\ UNCHANGED <<stage, tally, history, writer, overtaken, cleared>>
-----------------------------------------------------------------------------
Filtered(s, a) == Picked(s, {i \in DOMAIN s : Of[s[i].webhook] # a})

(* A resource bundle overwrites an automation, and its queue entries are     *)
(* filtered out at once.  The filter looks for the automation under names    *)
(* the entries of the history do not use, and leaves the history as it is.   *)
ImportOverwrites(a) ==
  /\ imports < MaxImports /\ imports' = imports + 1 /\ UNCHANGED <<unwritten, failures, crashes>>
  /\ file' = Filtered(file, a)
  /\ LET gone == {w \in Queued(file) : Of[w] = a}
     IN  IF tick.phase = "idle" THEN cleared' = cleared \cup gone /\ UNCHANGED overtaken
         ELSE overtaken' = overtaken \cup gone /\ UNCHANGED cleared
  /\ UNCHANGED <<stage, tick, tally, history, writer, torn>>

(* rotateHistory *)
AtStart(s) == Compacted(s)

(* A crash, at any await, and the next start.  Webhooks that were not queued *)
(* yet are nobody's business any more.                                       *)
Crash ==
  /\ crashes < MaxCrashes /\ crashes' = crashes + 1 /\ UNCHANGED <<unwritten, failures, imports>>
  /\ stage' = [w \in Webhooks |-> IF stage[w] \in {"posting", "recording", "queuing"} THEN "done" ELSE stage[w]]
  /\ tick' = NoTick /\ writer' = NoWriter
  /\ torn' = IF tick.phase = "rewriting" THEN torn \cup Queued(tick.remaining) ELSE torn
  /\ history' = AtStart(history)
  /\ UNCHANGED <<file, tally, overtaken, cleared>>
-----------------------------------------------------------------------------
Init ==
  /\ stage = [w \in Webhooks |-> "new"]
  /\ file = <<>> /\ tick = NoTick
  /\ tally = [w \in Webhooks |-> [posts |-> 0, done |-> 0, told |-> FALSE, missed |-> FALSE]]
  /\ history = <<>> /\ writer = NoWriter
  /\ overtaken = {} /\ cleared = {} /\ torn = {}
  /\ unwritten = 0 /\ failures = 0 /\ crashes = 0 /\ imports = 0

Handles(w) == Answered(w) \/ Enqueues(w)
Ticks == TickBegins \/ TickSkips \/ TickRequests \/ RequestEnds \/ RewriteOpens \/ RewriteFills
Records == HistoryAppends \/ CompactionOpens \/ CompactionWrites
FilesFail ==
  \/ AppendFails \/ CompactionFails \/ CompactionStops \/ RewriteFails \/ RewriteStops
  \/ \E w \in Webhooks : EnqueueFails(w)

Next ==
  \/ \E w \in Webhooks : Fires(w) \/ Handles(w) \/ TimePasses(w)
  \/ Ticks \/ Records \/ FilesFail
  \/ \E a \in Automations : ImportOverwrites(a)
  \/ Crash

Spec == Init /\ [][Next]_vars

(* Requests end (they have a timeout), file operations return and do not     *)
(* fail for ever, and the interval fires.  Time passes during ticks too,     *)
(* hence the strong fairness.                                                *)
Fairness ==
  /\ WF_vars(Ticks) /\ WF_vars(Records)
  /\ \A w \in Webhooks : WF_vars(Handles(w)) /\ SF_vars(TimePasses(w))

FairSpec == Spec /\ Fairness
-----------------------------------------------------------------------------
Entries == [webhook : Webhooks, attempt : 0 .. MaxAttempts - 1, due : BOOLEAN]
Jobs == [webhook : Webhooks, then : {"tick", "done", "queuing"}]

TypeOK ==
  /\ stage \in [Webhooks -> Stages]
  /\ file \in Seq(Entries)
  /\ tick \in [phase : {"idle", "working", "posting", "recording", "rewriting"},
               rest : Seq(Entries), remaining : Seq(Entries)]
  /\ history \in Seq(Jobs)
  /\ writer \in [jobs : Seq(Jobs), phase : {"idle", "compacting", "writing"}, count : Nat,
                 kept : Seq(Jobs), last : Seq(Jobs)]
  /\ tally \in [Webhooks -> [posts : Nat, done : Nat, told : BOOLEAN, missed : BOOLEAN]]
  /\ overtaken \subseteq Webhooks /\ cleared \subseteq Webhooks /\ torn \subseteq Webhooks
  /\ unwritten \in 0 .. MaxFailures /\ failures \in 0 .. MaxFailures
  /\ crashes \in 0 .. MaxCrashes /\ imports \in 0 .. MaxImports

(* What the queue still owes: the entries of the file, or, while the file is *)
(* being rewritten, those about to be written.                               *)
Owed == Queued(file) \cup (IF tick.phase = "rewriting" THEN Queued(tick.remaining) ELSE {})

Told == {w \in Webhooks : tally[w].told}

(* Webhooks whose end the history missed: its append failed. *)
Missed == {w \in Webhooks : tally[w].missed}

(* What may happen to a queued webhook without the history's knowing. *)
Excused == overtaken \cup cleared \cup torn \cup Missed

(* A queued webhook stays on the queue until its history tells how its       *)
(* retries ended, whatever crash or failure comes between a request, its     *)
(* history entry and the rewriting of the queue (RetryScheduler.tick).       *)
(* Exempt are, one by one, those queued or filtered out during a tick, those *)
(* of an overwritten automation, those of a rewriting that was cut short,    *)
(* and those whose history entry could not be appended, which the code drops *)
(* all the same.                                                             *)
KeptUntilTold == \A w \in Webhooks \ Excused : stage[w] = "queued" => w \in Owed \cup Told

(* Each of these leaves entries in the file that a tick was done with. *)
Repeats == crashes + unwritten

(* However ticks, crashes, failures and imports interleave, a webhook is     *)
(* requested MAX_DEFERRED_ATTEMPTS times, and its retries succeed once, up   *)
(* to the one request that each crash before the rewriting of the queue, and *)
(* each rewriting that failed, repeats.                                      *)
RetriesBounded ==
  \A w \in Webhooks : tally[w].posts <= MaxAttempts + Repeats /\ tally[w].done <= 1 + Repeats

(* The newest entry of the history is the one appended last, whatever        *)
(* compaction ran meanwhile (withMutex), unless the writing of a compaction  *)
(* stopped in the middle since.                                              *)
NewestKept == writer.phase = "idle" => IsSuffix(writer.last, history)

(* The retries of a queued webhook come to an end that its history tells     *)
(* (setInterval, `processing`, nextRetryAt), with the exemptions of          *)
(* KeptUntilTold, and if the queue file can be written again at last.        *)
RetriesEnd == \A w \in Webhooks : stage[w] = "queued" ~> w \in Told \cup Excused
=============================================================================

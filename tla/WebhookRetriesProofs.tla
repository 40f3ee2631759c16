------------------------- MODULE WebhookRetriesProofs -------------------------
(***************************************************************************)
(* Proofs about the webhooks' retries, for every number of webhooks, of    *)
(* attempts, of crashes, of file operations that fail and of imports.  The *)
(* history's mutex comes first: what waits for it is one queue, which an   *)
(* append leaves at its head.  The queue file, the tick and the tally are  *)
(* then followed without it.                                               *)
(***************************************************************************)
EXTENDS WebhookRetries, SequenceLemmas

TickStates ==
  [phase : {"idle", "working", "posting", "recording", "rewriting"},
   rest : Seq(Entries), remaining : Seq(Entries)]

WriterStates ==
  [jobs : Seq(Jobs), phase : {"idle", "compacting", "writing"}, count : Nat,
   kept : Seq(Jobs), last : Seq(Jobs)]

Busy   == writer.phase # "idle"
InTick == tick.phase \in {"working", "posting", "recording"}

(* What the phases of the tick and of the writer say of their other fields. *)
Shaped ==
  /\ tick.phase = "idle" => tick.rest = <<>> /\ tick.remaining = <<>>
  /\ tick.phase = "posting" => tick.rest # <<>>
  /\ tick.phase = "rewriting" => tick.rest = <<>>
  /\ Busy => Len(writer.last) = 1

Sound == TypeOK /\ Shaped

LEMMA SoundParts ==
  ASSUME Sound
  PROVE  /\ stage \in [Webhooks -> Stages] /\ file \in Seq(Entries)
         /\ tick \in TickStates /\ history \in Seq(Jobs) /\ writer \in WriterStates
         /\ tick.phase \in {"idle", "working", "posting", "recording", "rewriting"}
         /\ tick.rest \in Seq(Entries) /\ tick.remaining \in Seq(Entries)
         /\ writer.jobs \in Seq(Jobs) /\ writer.phase \in {"idle", "compacting", "writing"}
         /\ writer.count \in Nat /\ writer.kept \in Seq(Jobs) /\ writer.last \in Seq(Jobs)
         /\ tally \in [Webhooks -> [posts : Nat, done : Nat, told : BOOLEAN, missed : BOOLEAN]]
         /\ overtaken \subseteq Webhooks /\ cleared \subseteq Webhooks /\ torn \subseteq Webhooks
         /\ unwritten \in 0 .. MaxFailures /\ failures \in 0 .. MaxFailures
         /\ crashes \in 0 .. MaxCrashes /\ imports \in 0 .. MaxImports
         /\ unwritten \in Nat /\ failures \in Nat /\ crashes \in Nat /\ imports \in Nat
<1>1. /\ stage \in [Webhooks -> Stages] /\ file \in Seq(Entries)
      /\ tick \in TickStates /\ history \in Seq(Jobs) /\ writer \in WriterStates
      /\ tally \in [Webhooks -> [posts : Nat, done : Nat, told : BOOLEAN, missed : BOOLEAN]]
      /\ overtaken \subseteq Webhooks /\ cleared \subseteq Webhooks /\ torn \subseteq Webhooks
      /\ unwritten \in 0 .. MaxFailures /\ failures \in 0 .. MaxFailures
      /\ crashes \in 0 .. MaxCrashes /\ imports \in 0 .. MaxImports
  BY DEF Sound, TypeOK, TickStates, WriterStates
<1>2. /\ tick.phase \in {"idle", "working", "posting", "recording", "rewriting"}
      /\ tick.rest \in Seq(Entries) /\ tick.remaining \in Seq(Entries)
  BY <1>1 DEF TickStates
<1>3. /\ writer.jobs \in Seq(Jobs) /\ writer.phase \in {"idle", "compacting", "writing"}
      /\ writer.count \in Nat /\ writer.kept \in Seq(Jobs) /\ writer.last \in Seq(Jobs)
  BY <1>1 DEF WriterStates
<1>4. unwritten \in Nat /\ failures \in Nat /\ crashes \in Nat /\ imports \in Nat
  BY <1>1, WebhookRetriesAssumption
<1>5. QED
  BY <1>1, <1>2, <1>3, <1>4

LEMMA FailsFacts ==
  ASSUME Sound, Fails
  PROVE  failures' \in 0 .. MaxFailures /\ UNCHANGED <<unwritten, crashes, imports>>
<1>1. failures + unwritten < MaxFailures /\ failures' = failures + 1
  BY DEF Fails, MayFail
<1>2. failures \in Nat /\ unwritten \in Nat /\ MaxFailures \in Nat
  BY SoundParts, WebhookRetriesAssumption
<1>3. QED
  BY <1>1, <1>2 DEF Fails

-----------------------------------------------------------------------------
(* The history's mutex. *)

(* Those who wait for their entry to be appended, the one whose compaction  *)
(* is under way first.                                                      *)
Waiters == (IF Busy THEN writer.last ELSE <<>>) \o writer.jobs

LEMMA WaitersType ==
  ASSUME Sound
  PROVE  Waiters \in Seq(Jobs)
<1>1. writer.jobs \in Seq(Jobs) /\ writer.last \in Seq(Jobs) /\ <<>> \in Seq(Jobs)
  BY SoundParts
<1>2. (IF Busy THEN writer.last ELSE <<>>) \in Seq(Jobs)
  BY <1>1
<1>3. QED
  BY <1>1, <1>2, ConcatProperties DEF Waiters

LEMMA WaitersIdle ==
  ASSUME Sound, ~Busy
  PROVE  Waiters = writer.jobs
BY SoundParts, ConcatEmptySeq DEF Waiters

LEMMA WaitersBusy ==
  ASSUME Sound, Busy
  PROVE  /\ Waiters # <<>> /\ Head(Waiters) = writer.last[1] /\ Tail(Waiters) = writer.jobs
         /\ writer.last[1] \in Jobs
<1>1. writer.last \in Seq(Jobs) /\ writer.jobs \in Seq(Jobs) /\ Len(writer.last) = 1
  BY SoundParts DEF Sound, Shaped
<1> DEFINE l == writer.last
           j == writer.jobs
           c == l \o j
<1>2. Waiters = c
  BY DEF Waiters
<1>3. l[1] \in Jobs
  BY <1>1, ElementOfSeq
<1> HIDE DEF l, j
<1>4. /\ l \in Seq(Jobs) /\ j \in Seq(Jobs) /\ Len(l) = 1 /\ Len(j) \in Nat
  BY <1>1, LenProperties DEF l, j
<1>5. /\ c \in Seq(Jobs) /\ Len(c) = 1 + Len(j)
      /\ \A i \in 1 .. 1 + Len(j) : c[i] = IF i <= 1 THEN l[i] ELSE j[i - 1]
  <2>1. /\ c \in Seq(Jobs) /\ Len(c) = Len(l) + Len(j)
        /\ \A i \in 1 .. Len(l) + Len(j) : c[i] = IF i <= Len(l) THEN l[i] ELSE j[i - Len(l)]
    BY <1>4, ConcatProperties, Zenon
  <2> HIDE DEF c
  <2>2. QED
    BY <1>4, <2>1
<1> HIDE DEF c
<1>6. c # <<>> /\ c[1] = l[1]
  BY <1>4, <1>5
<1>7. Tail(c) \in Seq(Jobs) /\ Len(Tail(c)) = Len(j) /\ Head(c) = c[1]
      /\ \A i \in 1 .. Len(j) : Tail(c)[i] = c[i + 1]
  BY <1>4, <1>5, <1>6
<1>8. \A i \in 1 .. Len(j) : Tail(c)[i] = j[i]
  BY <1>4, <1>5, <1>7
<1>9. Tail(c) = j
  BY <1>4, <1>7, <1>8, SeqEqual
<1>10. QED
  BY <1>2, <1>3, <1>6, <1>7, <1>9 DEF l, j

(* Appending one more job. *)
LEMMA RecordAppends ==
  ASSUME Sound, NEW job \in Jobs, Record(job)
  PROVE  /\ writer' \in WriterStates
         /\ writer'.phase = writer.phase /\ writer'.last = writer.last
         /\ writer'.kept = writer.kept
         /\ Waiters' = Append(Waiters, job)
<1>1. writer' = [writer EXCEPT !.jobs = Append(writer.jobs, job)]
  BY DEF Record
<1>2. writer \in WriterStates /\ writer.jobs \in Seq(Jobs) /\ writer.last \in Seq(Jobs)
  BY SoundParts
<1>3. Append(writer.jobs, job) \in Seq(Jobs)
  BY <1>2
<1>4. /\ writer' \in WriterStates
      /\ writer'.phase = writer.phase /\ writer'.last = writer.last
      /\ writer'.kept = writer.kept /\ writer'.jobs = Append(writer.jobs, job)
  BY <1>1, <1>2, <1>3 DEF WriterStates
<1>5. \A l \in Seq(Jobs) : l \o Append(writer.jobs, job) = Append(l \o writer.jobs, job)
  <2>1. TAKE l \in Seq(Jobs)
  <2>2. Append(writer.jobs, job) = writer.jobs \o <<job>>
    BY <1>2, AppendIsConcat
  <2>3. <<job>> \in Seq(Jobs) /\ l \o writer.jobs \in Seq(Jobs)
    BY <1>2, ConcatProperties
  <2>4. Append(l \o writer.jobs, job) = (l \o writer.jobs) \o <<job>>
    BY <2>3, AppendIsConcat
  <2>5. (l \o writer.jobs) \o <<job>> = l \o (writer.jobs \o <<job>>)
    <3> DEFINE j == writer.jobs
               u == <<job>>
    <3>1. l \in Seq(Jobs) /\ j \in Seq(Jobs) /\ u \in Seq(Jobs)
      BY <1>2, <2>3
    <3> HIDE DEF j, u
    <3>2. (l \o j) \o u = l \o (j \o u)
      BY <3>1, ConcatAssociative
    <3>3. QED
      BY <3>2 DEF j, u
  <2>6. QED
    BY <2>2, <2>4, <2>5, Zenon
<1>6. (IF Busy THEN writer.last ELSE <<>>) \in Seq(Jobs) /\ Busy' = Busy
  BY <1>2, <1>4 DEF Busy
<1>7. QED
  BY <1>4, <1>5, <1>6 DEF Waiters

(* Compaction keeps the newest entry. *)
LEMMA CompactedFacts ==
  ASSUME NEW s \in Seq(Jobs)
  PROVE  /\ Compacted(s) \in Seq(Jobs)
         /\ s # <<>> => Compacted(s) # <<>> /\ Compacted(s)[Len(Compacted(s))] = s[Len(s)]
<1> DEFINE K == {i \in KeptOf(s) : Cardinality({j \in KeptOf(s) : j > i}) < MaxEntries}
<1>1. DOMAIN s = 1 .. Len(s) /\ Len(s) \in Nat
  BY LenProperties
<1>2. K \in SUBSET (DOMAIN s)
  BY DEF KeptOf
<1>3. Compacted(s) = Picked(s, K)
  BY DEF Compacted
<1>4. Compacted(s) \in Seq(Jobs)
  <2> HIDE DEF K
  <2>1. QED
    BY <1>2, <1>3, PickedFacts
<1>5. ASSUME s # <<>>
      PROVE  Compacted(s) # <<>> /\ Compacted(s)[Len(Compacted(s))] = s[Len(s)]
  <2>1. Len(s) \in DOMAIN s
    BY <1>1, <1>5, EmptySeq
  <2>2. Later(s, Len(s)) = {}
    BY <1>1 DEF Later
  <2>3. {j \in KeptOf(s) : j > Len(s)} = {}
    BY <1>1 DEF KeptOf
  <2>4. Cardinality({}) = 0 /\ 0 < PerMatcher /\ 0 < MaxEntries
    BY FS_EmptySet, WebhookRetriesAssumption
  <2>5. Len(s) \in KeptOf(s)
    BY <2>1, <2>2, <2>4 DEF KeptOf
  <2>6. Len(s) \in K
    BY <2>3, <2>4, <2>5
  <2>7. \A i \in K : i <= Len(s)
    BY <1>1, <1>2
  <2> HIDE DEF K
  <2>8. QED
    BY <1>2, <1>3, <2>6, <2>7, PickedLast
<1>6. QED
  BY <1>4, <1>5

(* What resumes leaves the queue file and the tick's entries alone. *)
LEMMA ResumesFacts ==
  ASSUME Sound, NEW job \in Jobs, NEW recorded \in BOOLEAN, Resumes(job, recorded)
  PROVE  /\ stage' \in [Webhooks -> Stages] /\ tick' \in TickStates
         /\ tally' \in [Webhooks -> [posts : Nat, done : Nat, told : BOOLEAN, missed : BOOLEAN]]
         /\ file' = file /\ tick'.rest = tick.rest /\ tick'.remaining = tick.remaining
         /\ \A w \in Webhooks : tally'[w].posts = tally[w].posts /\ tally'[w].done = tally[w].done
         /\ job.then = "tick" => /\ tick'.phase = "working" /\ stage' = stage
                                 /\ tally'[job.webhook].told \/ tally'[job.webhook].missed
                                 /\ \A w \in Webhooks : /\ tally[w].told => tally'[w].told
                                                        /\ tally[w].missed => tally'[w].missed
         /\ job.then # "tick" => /\ tick' = tick /\ tally' = tally
                                 /\ stage' = [stage EXCEPT ![job.webhook] = job.then]
<1>1. /\ stage \in [Webhooks -> Stages] /\ tick \in TickStates
      /\ tally \in [Webhooks -> [posts : Nat, done : Nat, told : BOOLEAN, missed : BOOLEAN]]
  BY SoundParts
<1>2. job.webhook \in Webhooks /\ job.then \in {"tick", "done", "queuing"}
  BY DEF Jobs
<1>3. CASE job.then = "tick"
  <2>1. /\ tick' = [tick EXCEPT !.phase = "working"]
        /\ tally' = [tally EXCEPT ![job.webhook].told = tally[job.webhook].told \/ recorded,
                                  ![job.webhook].missed = tally[job.webhook].missed \/ ~recorded]
        /\ UNCHANGED <<stage, file>>
    BY <1>3 DEF Resumes
  <2>2. /\ tick' \in TickStates /\ tick'.phase = "working"
        /\ tick'.rest = tick.rest /\ tick'.remaining = tick.remaining
    BY <1>1, <2>1 DEF TickStates
  <2> DEFINE t == tally[job.webhook].told \/ recorded
             m == tally[job.webhook].missed \/ ~recorded
  <2>3. t \in BOOLEAN /\ m \in BOOLEAN /\ (t \/ m)
        /\ (tally[job.webhook].told => t) /\ (tally[job.webhook].missed => m)
    OBVIOUS
  <2>4. tally' = [tally EXCEPT ![job.webhook].told = t, ![job.webhook].missed = m]
    BY <2>1
  <2> HIDE DEF t, m
  <2>5. /\ tally' \in [Webhooks -> [posts : Nat, done : Nat, told : BOOLEAN, missed : BOOLEAN]]
        /\ tally'[job.webhook].told = t /\ tally'[job.webhook].missed = m
        /\ \A w \in Webhooks : /\ tally'[w].posts = tally[w].posts
                               /\ tally'[w].done = tally[w].done
                               /\ w # job.webhook => tally'[w] = tally[w]
    BY <1>1, <1>2, <2>3, <2>4
  <2>6. /\ tally'[job.webhook].told \/ tally'[job.webhook].missed
        /\ \A w \in Webhooks : /\ tally[w].told => tally'[w].told
                               /\ tally[w].missed => tally'[w].missed
    BY <2>3, <2>5
  <2>7. QED
    BY <1>1, <1>3, <2>1, <2>2, <2>5, <2>6
<1>4. CASE job.then # "tick"
  <2>1. stage' = [stage EXCEPT ![job.webhook] = job.then] /\ UNCHANGED <<file, tick, tally>>
    BY <1>4 DEF Resumes
  <2>2. job.then \in Stages
    BY <1>2, <1>4 DEF Stages
  <2>3. stage' \in [Webhooks -> Stages]
    BY <1>1, <1>2, <2>1, <2>2
  <2>4. QED
    BY <1>1, <1>4, <2>1, <2>3
<1>5. QED
  BY <1>3, <1>4

(* What a step of the mutex does: whoever is first goes on, or nobody does. *)
Goes ==
  \/ Waiters' = Waiters /\ UNCHANGED queue
  \/ /\ Waiters # <<>> /\ Waiters' = Tail(Waiters)
     /\ \E recorded \in BOOLEAN : Resumes(Head(Waiters), recorded)

LEMMA HistoryAppendsFacts ==
  ASSUME Sound, HistoryAppends
  PROVE  /\ Goes /\ UNCHANGED <<overtaken, cleared, torn, unwritten, failures, crashes, imports>>
         /\ history' \in Seq(Jobs) /\ writer' \in WriterStates
         /\ Len(writer'.last) = 1
         /\ history' # <<>> /\ history'[Len(history')] = writer'.last[1]
         /\ writer'.phase \in {"idle", "compacting"}
<1> DEFINE job  == Head(writer.jobs)
           full == writer.count + 1 >= MaxEntries
<1>1. /\ writer \in WriterStates /\ writer.jobs \in Seq(Jobs) /\ history \in Seq(Jobs)
      /\ writer.count \in Nat
  BY SoundParts
<1>2. writer.jobs # <<>> /\ writer.phase = "idle"
  BY DEF HistoryAppends, limits, MayAppend
<1>3. job \in Jobs /\ Tail(writer.jobs) \in Seq(Jobs)
  BY <1>1, <1>2
<1>4. /\ history' = Append(history, job)
      /\ writer' = [writer EXCEPT !.last = <<job>>,
                                  !.count = IF full THEN 0 ELSE writer.count + 1,
                                  !.jobs = Tail(writer.jobs),
                                  !.phase = IF full THEN "compacting" ELSE writer.phase]
      /\ IF full THEN UNCHANGED queue ELSE Resumes(job, TRUE)
      /\ UNCHANGED <<overtaken, cleared, torn, unwritten, failures, crashes, imports>>
  BY DEF HistoryAppends, limits
<1> DEFINE c == IF full THEN 0 ELSE writer.count + 1
           p == IF full THEN "compacting" ELSE writer.phase
<1>5. c \in Nat /\ p \in {"idle", "compacting"}
  BY <1>1, <1>2
<1>6. <<job>> \in Seq(Jobs) /\ Len(<<job>>) = 1 /\ <<job>>[1] = job
  BY <1>3
<1>7. /\ writer' \in WriterStates /\ writer'.last = <<job>> /\ writer'.jobs = Tail(writer.jobs)
      /\ writer'.phase = p
  <2>1. /\ writer'.last = <<job>> /\ writer'.jobs = Tail(writer.jobs) /\ writer'.phase = p
        /\ writer'.count = c /\ writer'.kept = writer.kept
        /\ writer' = [jobs |-> writer'.jobs, phase |-> writer'.phase, count |-> writer'.count,
                      kept |-> writer'.kept, last |-> writer'.last]
    BY <1>1, <1>4 DEF WriterStates
  <2>2. writer.kept \in Seq(Jobs) /\ p \in {"idle", "compacting", "writing"}
    BY <1>5, SoundParts
  <2> HIDE DEF c, p, job
  <2>3. QED
    BY <1>3, <1>5, <1>6, <2>1, <2>2 DEF WriterStates
<1>8. history' \in Seq(Jobs) /\ history' # <<>> /\ history'[Len(history')] = job
  <2>1. /\ history' \in Seq(Jobs) /\ history' # <<>> /\ Len(history') = Len(history) + 1
        /\ history'[Len(history) + 1] = job
    <3> HIDE DEF job
    <3>1. QED
      BY <1>1, <1>3, <1>4, AppendProperties
  <2>2. QED
    BY <2>1
<1>9. Waiters = writer.jobs
  BY <1>2, WaitersIdle DEF Busy
<1>10. Waiters' = IF full THEN <<job>> \o Tail(writer.jobs) ELSE <<>> \o Tail(writer.jobs)
  <2>1. writer'.phase = (IF full THEN "compacting" ELSE "idle")
    BY <1>2, <1>7
  <2>2. CASE full
    <3>1. Busy'
      BY <2>1, <2>2 DEF Busy
    <3>2. QED
      BY <1>7, <2>2, <3>1 DEF Waiters
  <2>3. CASE ~full
    <3>1. ~Busy'
      BY <2>1, <2>3 DEF Busy
    <3>2. QED
      BY <1>7, <2>3, <3>1 DEF Waiters
  <2>4. QED
    BY <2>2, <2>3
<1>11. <<>> \o Tail(writer.jobs) = Tail(writer.jobs)
  BY <1>3, ConcatEmptySeq
<1>12. <<job>> \o Tail(writer.jobs) = writer.jobs
  <2> DEFINE s == writer.jobs
  <2>1. s \in Seq(Jobs) /\ s # <<>> /\ job = Head(s)
    BY <1>1, <1>2
  <2> HIDE DEF s
  <2>2. <<Head(s)>> \o Tail(s) = s
    <3>1. /\ Tail(s) \in Seq(Jobs) /\ <<Head(s)>> \in Seq(Jobs) /\ Len(s) \in Nat \ {0}
          /\ Len(Tail(s)) = Len(s) - 1 /\ Len(<<Head(s)>>) = 1 /\ Head(s) = s[1]
          /\ \A i \in 1 .. Len(s) - 1 : Tail(s)[i] = s[i + 1]
      BY <2>1
    <3> DEFINE a == <<Head(s)>>
               b == Tail(s)
    <3>2. a[1] = s[1]
      BY <3>1
    <3> HIDE DEF a, b
    <3>3. /\ a \o b \in Seq(Jobs) /\ Len(a \o b) = Len(a) + Len(b)
          /\ \A i \in 1 .. Len(a) + Len(b) : (a \o b)[i] = IF i <= Len(a) THEN a[i] ELSE b[i - Len(a)]
      BY <3>1, ConcatProperties DEF a, b
    <3> DEFINE t == a \o b
    <3>4. Len(a) = 1 /\ Len(b) = Len(s) - 1 /\ \A i \in 1 .. Len(s) - 1 : b[i] = s[i + 1]
      BY <3>1 DEF a, b
    <3> HIDE DEF t
    <3>5. /\ t \in Seq(Jobs) /\ Len(t) = Len(s)
          /\ \A i \in 1 .. Len(s) : t[i] = IF i <= 1 THEN a[i] ELSE b[i - 1]
      BY <3>1, <3>3, <3>4 DEF t
    <3>6. \A i \in 1 .. Len(s) : t[i] = s[i]
      BY <3>1, <3>2, <3>4, <3>5
    <3>7. t = s
      BY <2>1, <3>5, <3>6, SeqEqual
    <3>8. QED
      BY <3>7 DEF t, a, b
  <2>3. QED
    BY <2>1, <2>2 DEF s
<1>13. Goes
  <2>1. CASE full
    BY <1>4, <1>9, <1>10, <1>12, <2>1 DEF Goes
  <2>2. CASE ~full
    BY <1>2, <1>4, <1>9, <1>10, <1>11, <2>2 DEF Goes
  <2>3. QED
    BY <2>1, <2>2
<1>14. QED
  <2> HIDE DEF p, c, job
  <2>1. QED
    BY <1>4, <1>5, <1>6, <1>7, <1>8, <1>13

LEMMA CompactionOpensFacts ==
  ASSUME Sound, CompactionOpens
  PROVE  /\ Goes /\ UNCHANGED <<overtaken, cleared, torn, unwritten, failures, crashes, imports>>
         /\ history' \in Seq(Jobs) /\ writer' \in WriterStates
         /\ writer'.phase = "writing" /\ writer'.last = writer.last
         /\ writer'.kept = Compacted(history)
<1>1. writer \in WriterStates /\ history \in Seq(Jobs) /\ <<>> \in Seq(Jobs)
  BY SoundParts
<1>2. Compacted(history) \in Seq(Jobs)
  BY <1>1, CompactedFacts
<1>3. /\ writer.phase = "compacting"
      /\ writer' = [writer EXCEPT !.phase = "writing", !.kept = Compacted(history)]
      /\ history' = IF Compacted(history) = history THEN history ELSE <<>>
      /\ UNCHANGED <<queue, overtaken, cleared, torn, unwritten, failures, crashes, imports>>
  BY DEF CompactionOpens, limits
<1>4. /\ writer' \in WriterStates /\ writer'.phase = "writing" /\ writer'.last = writer.last
      /\ writer'.kept = Compacted(history) /\ writer'.jobs = writer.jobs
  BY <1>1, <1>2, <1>3 DEF WriterStates
<1>5. Waiters' = Waiters
  <2>1. Busy /\ Busy'
    BY <1>3, <1>4 DEF Busy
  <2>2. QED
    BY <1>4, <2>1 DEF Waiters
<1>6. QED
  BY <1>1, <1>2, <1>3, <1>4, <1>5 DEF Goes

LEMMA CompactionWritesFacts ==
  ASSUME Sound, CompactionWrites
  PROVE  /\ Goes /\ UNCHANGED <<overtaken, cleared, torn, unwritten, failures, crashes, imports>>
         /\ history' = writer.kept /\ writer' \in WriterStates
         /\ writer'.phase = "idle" /\ writer'.last = writer.last
         /\ writer.phase = "writing"
<1>1. writer \in WriterStates /\ <<>> \in Seq(Jobs) /\ writer.jobs \in Seq(Jobs)
  BY SoundParts
<1>2. /\ writer.phase = "writing" /\ history' = writer.kept
      /\ writer' = [writer EXCEPT !.phase = "idle", !.kept = <<>>]
      /\ Resumes(writer.last[1], TRUE)
      /\ UNCHANGED <<overtaken, cleared, torn, unwritten, failures, crashes, imports>>
  BY DEF CompactionWrites, limits
<1>3. /\ writer' \in WriterStates /\ writer'.phase = "idle" /\ writer'.last = writer.last
      /\ writer'.jobs = writer.jobs
  BY <1>1, <1>2 DEF WriterStates
<1>4. Busy /\ ~Busy'
  BY <1>2, <1>3 DEF Busy
<1>5. Waiters # <<>> /\ Head(Waiters) = writer.last[1] /\ Tail(Waiters) = writer.jobs
  BY <1>4, WaitersBusy
<1>6. Waiters' = Tail(Waiters)
  BY <1>1, <1>3, <1>4, <1>5, ConcatEmptySeq DEF Waiters
<1>7. QED
  BY <1>2, <1>3, <1>5, <1>6 DEF Goes

(* The first of those who wait goes on, and no compaction is under way. *)
LEMMA FirstGoes ==
  ASSUME Sound, NEW recorded \in BOOLEAN,
         writer' \in WriterStates, writer'.phase = "idle",
         \/ /\ writer.phase = "idle" /\ writer.jobs # <<>> /\ writer'.jobs = Tail(writer.jobs)
            /\ Resumes(Head(writer.jobs), recorded)
         \/ Busy /\ writer'.jobs = writer.jobs /\ Resumes(writer.last[1], recorded)
  PROVE  Goes
<1>1. writer.jobs \in Seq(Jobs)
  BY SoundParts
<1>2. Waiters' = writer'.jobs
  <2>1. writer'.jobs \in Seq(Jobs) /\ ~Busy'
    BY DEF WriterStates, Busy
  <2>2. QED
    BY <2>1, ConcatEmptySeq DEF Waiters
<1>3. CASE /\ writer.phase = "idle" /\ writer.jobs # <<>> /\ writer'.jobs = Tail(writer.jobs)
           /\ Resumes(Head(writer.jobs), recorded)
  <2>1. Waiters = writer.jobs
    BY <1>3, WaitersIdle DEF Busy
  <2>2. QED
    BY <1>2, <1>3, <2>1 DEF Goes
<1>4. CASE Busy /\ writer'.jobs = writer.jobs /\ Resumes(writer.last[1], recorded)
  <2>1. Waiters # <<>> /\ Head(Waiters) = writer.last[1] /\ Tail(Waiters) = writer.jobs
    BY <1>4, WaitersBusy
  <2>2. QED
    BY <1>2, <1>4, <2>1 DEF Goes
<1>5. QED
  BY <1>3, <1>4

LEMMA AppendFailsFacts ==
  ASSUME Sound, AppendFails
  PROVE  /\ Goes /\ UNCHANGED <<overtaken, cleared, torn, unwritten, crashes, imports>>
         /\ failures' \in 0 .. MaxFailures
         /\ history' = history /\ writer' \in WriterStates
         /\ writer'.phase = "idle" /\ writer'.last = writer.last /\ writer'.kept = writer.kept
         /\ writer.phase = "idle"
<1>1. writer \in WriterStates /\ writer.jobs \in Seq(Jobs)
  BY SoundParts
<1>2. /\ writer.jobs # <<>> /\ writer.phase = "idle"
      /\ writer' = [writer EXCEPT !.jobs = Tail(writer.jobs)]
      /\ Resumes(Head(writer.jobs), FALSE)
      /\ UNCHANGED <<history, overtaken, cleared, torn>> /\ Fails
  BY DEF AppendFails, MayAppend
<1>3. Tail(writer.jobs) \in Seq(Jobs)
  BY <1>1, <1>2
<1>4. /\ writer' \in WriterStates /\ writer'.phase = "idle" /\ writer'.last = writer.last
      /\ writer'.kept = writer.kept /\ writer'.jobs = Tail(writer.jobs)
  BY <1>1, <1>2, <1>3 DEF WriterStates
<1>5. Goes
  BY <1>2, <1>4, FirstGoes
<1>6. QED
  BY <1>2, <1>4, <1>5, FailsFacts

LEMMA CompactionFailsFacts ==
  ASSUME Sound, CompactionFails
  PROVE  /\ Goes /\ UNCHANGED <<overtaken, cleared, torn, unwritten, crashes, imports>>
         /\ failures' \in 0 .. MaxFailures
         /\ history' = history /\ writer' \in WriterStates
         /\ writer'.phase = "idle" /\ writer'.last = writer.last
         /\ writer.phase = "compacting"
<1>1. writer \in WriterStates
  BY SoundParts
<1>2. /\ writer.phase = "compacting" /\ writer' = [writer EXCEPT !.phase = "idle"]
      /\ Resumes(writer.last[1], TRUE)
      /\ UNCHANGED <<history, overtaken, cleared, torn>> /\ Fails
  BY DEF CompactionFails
<1>3. /\ writer' \in WriterStates /\ writer'.phase = "idle" /\ writer'.last = writer.last
      /\ writer'.jobs = writer.jobs
  BY <1>1, <1>2 DEF WriterStates
<1>4. Busy
  BY <1>2 DEF Busy
<1>5. Goes
  BY <1>2, <1>3, <1>4, FirstGoes
<1>6. QED
  BY <1>2, <1>3, <1>5, FailsFacts

LEMMA CompactionStopsFacts ==
  ASSUME Sound, CompactionStops
  PROVE  /\ Goes /\ UNCHANGED <<overtaken, cleared, torn, unwritten, crashes, imports>>
         /\ failures' \in 0 .. MaxFailures
         /\ history' \in Seq(Jobs) /\ writer' \in WriterStates
         /\ writer'.phase = "idle" /\ writer'.last = <<>>
<1>1. writer \in WriterStates /\ writer.kept \in Seq(Jobs) /\ <<>> \in Seq(Jobs)
  BY SoundParts
<1>2. /\ writer.phase = "writing"
      /\ writer' = [writer EXCEPT !.phase = "idle", !.kept = <<>>, !.last = <<>>]
      /\ Resumes(writer.last[1], FALSE)
      /\ UNCHANGED <<overtaken, cleared, torn>> /\ Fails
      /\ \E n \in 0 .. Len(writer.kept) - 1 : history' = SubSeq(writer.kept, 1, n)
  BY DEF CompactionStops
<1>3. /\ writer' \in WriterStates /\ writer'.phase = "idle" /\ writer'.last = <<>>
      /\ writer'.jobs = writer.jobs
  BY <1>1, <1>2 DEF WriterStates
<1>4. Busy
  BY <1>2 DEF Busy
<1>5. Goes
  BY <1>2, <1>3, <1>4, FirstGoes
<1>6. history' \in Seq(Jobs)
  BY <1>1, <1>2, FirstOnes
<1>7. QED
  BY <1>2, <1>3, <1>5, <1>6, FailsFacts

LEMMA GoesFacts ==
  ASSUME Sound, Goes
  PROVE  /\ stage' \in [Webhooks -> Stages] /\ tick' \in TickStates
         /\ tally' \in [Webhooks -> [posts : Nat, done : Nat, told : BOOLEAN, missed : BOOLEAN]]
         /\ file' = file /\ tick'.rest = tick.rest /\ tick'.remaining = tick.remaining
         /\ tick'.phase \in {tick.phase, "working"}
<1>1. CASE Waiters' = Waiters /\ UNCHANGED queue
  BY <1>1, SoundParts DEF queue
<1>2. CASE Waiters # <<>> /\ \E recorded \in BOOLEAN : Resumes(Head(Waiters), recorded)
  <2>1. Head(Waiters) \in Jobs
    BY <1>2, WaitersType, TailElements
  <2>2. QED
    BY <1>2, <2>1, ResumesFacts
<1>3. QED
  BY <1>1, <1>2 DEF Goes

(* The entries of the file and of the tick are well formed after each step. *)
LEMMA SoundFrom ==
  ASSUME stage' \in [Webhooks -> Stages], file' \in Seq(Entries),
         tick' \in TickStates, history' \in Seq(Jobs), writer' \in WriterStates,
         tally' \in [Webhooks -> [posts : Nat, done : Nat, told : BOOLEAN, missed : BOOLEAN]],
         overtaken' \subseteq Webhooks, cleared' \subseteq Webhooks, torn' \subseteq Webhooks,
         unwritten' \in 0 .. MaxFailures, failures' \in 0 .. MaxFailures,
         crashes' \in 0 .. MaxCrashes, imports' \in 0 .. MaxImports,
         tick'.phase = "idle" => tick'.rest = <<>> /\ tick'.remaining = <<>>,
         tick'.phase = "posting" => tick'.rest # <<>>,
         tick'.phase = "rewriting" => tick'.rest = <<>>,
         writer'.phase # "idle" => Len(writer'.last) = 1
  PROVE  Sound'
BY DEF Sound, TypeOK, Shaped, TickStates, WriterStates, Busy

(* A step of the mutex, whether its file operation succeeds or fails. *)
Recordings == Records \/ AppendFails \/ CompactionFails \/ CompactionStops

LEMMA RecordsSound ==
  ASSUME Sound, Recordings
  PROVE  Sound'
<1>1. /\ Goes /\ UNCHANGED <<overtaken, cleared, torn, unwritten, crashes, imports>>
      /\ failures' \in 0 .. MaxFailures
      /\ history' \in Seq(Jobs) /\ writer' \in WriterStates
      /\ writer'.phase # "idle" => Len(writer'.last) = 1
  <2>1. CASE HistoryAppends
    BY <2>1, HistoryAppendsFacts, SoundParts
  <2>2. CASE CompactionOpens
    <3>1. Len(writer.last) = 1
      BY <2>2 DEF CompactionOpens, limits, Sound, Shaped, Busy
    <3>2. QED
      BY <2>2, <3>1, CompactionOpensFacts, SoundParts
  <2>3. CASE CompactionWrites
    BY <2>3, CompactionWritesFacts, SoundParts
  <2>4. CASE AppendFails \/ CompactionFails \/ CompactionStops
    BY <2>4, AppendFailsFacts, CompactionFailsFacts, CompactionStopsFacts, SoundParts
  <2>5. QED
    BY <2>1, <2>2, <2>3, <2>4 DEF Recordings, Records
<1>2. /\ tick.phase = "idle" => tick.rest = <<>> /\ tick.remaining = <<>>
      /\ tick.phase = "posting" => tick.rest # <<>>
      /\ tick.phase = "rewriting" => tick.rest = <<>>
  BY DEF Sound, Shaped
<1>3. /\ tick'.phase = "idle" => tick'.rest = <<>> /\ tick'.remaining = <<>>
      /\ tick'.phase = "posting" => tick'.rest # <<>>
      /\ tick'.phase = "rewriting" => tick'.rest = <<>>
  BY <1>1, <1>2, GoesFacts
<1>4. file' \in Seq(Entries)
  BY <1>1, GoesFacts, SoundParts
<1>5. QED
  BY <1>1, <1>3, <1>4, GoesFacts, SoundParts, SoundFrom

-----------------------------------------------------------------------------
(* The handlers and the tick: what each action does to the fields. *)

LEMMA EntryParts ==
  ASSUME NEW e \in Entries
  PROVE  /\ e.webhook \in Webhooks /\ e.attempt \in Nat /\ e.attempt <= MaxAttempts - 1
         /\ e.due \in BOOLEAN
         /\ [e EXCEPT !.due = FALSE] \in Entries /\ [e EXCEPT !.due = TRUE] \in Entries
         /\ [e EXCEPT !.due = FALSE].webhook = e.webhook
         /\ [e EXCEPT !.due = FALSE].attempt = e.attempt
         /\ [e EXCEPT !.due = TRUE].webhook = e.webhook
         /\ [e EXCEPT !.due = TRUE].attempt = e.attempt
         /\ Job(e.webhook, "tick") \in Jobs
<1>1. /\ e.webhook \in Webhooks /\ e.attempt \in 0 .. MaxAttempts - 1 /\ e.due \in BOOLEAN
  BY DEF Entries
<1>2. e.attempt \in Nat /\ e.attempt <= MaxAttempts - 1
  BY <1>1, WebhookRetriesAssumption
<1>3. \A d \in BOOLEAN : /\ [e EXCEPT !.due = d] \in Entries
                         /\ [e EXCEPT !.due = d].webhook = e.webhook
                         /\ [e EXCEPT !.due = d].attempt = e.attempt
  BY DEF Entries
<1>4. Job(e.webhook, "tick") \in Jobs
  BY <1>1 DEF Job, Jobs
<1>5. QED
  BY <1>1, <1>2, <1>3, <1>4

(* A handler that only goes on to its next stage. *)
Advances(w) == Fires(w) \/ EnqueueFails(w)

LEMMA AdvancesFacts ==
  ASSUME Sound, NEW w \in Webhooks, Advances(w)
  PROVE  /\ stage' \in [Webhooks -> Stages]
         /\ \A v \in Webhooks : /\ stage[v] = "queued" <=> stage'[v] = "queued"
                                /\ stage[v] = "recording" => stage'[v] = "recording"
         /\ UNCHANGED <<file, tick, tally, history, writer, overtaken, cleared, torn>>
         /\ UNCHANGED <<unwritten, crashes, imports>> /\ failures' \in 0 .. MaxFailures
<1>1. stage \in [Webhooks -> Stages]
  BY SoundParts
<1>2. CASE Fires(w)
  <2>1. /\ stage[w] = "new" /\ stage' = [stage EXCEPT ![w] = "posting"]
        /\ UNCHANGED <<file, tick, tally, history, writer, overtaken, cleared, torn, unwritten, failures, crashes, imports>>
    BY <1>2 DEF Fires, limits
  <2>2. QED
    BY <1>1, <2>1, SoundParts DEF Stages
<1>3. CASE EnqueueFails(w)
  <2>1. /\ stage[w] = "queuing" /\ stage' = [stage EXCEPT ![w] = "done"] /\ Fails
        /\ UNCHANGED <<file, tick, tally, history, writer, overtaken, cleared, torn>>
    BY <1>3 DEF EnqueueFails
  <2>2. QED
    BY <1>1, <2>1, FailsFacts DEF Stages
<1>4. QED
  BY <1>2, <1>3 DEF Advances

LEMMA HandlersSound ==
  ASSUME Sound, NEW w \in Webhooks, Advances(w) \/ Handles(w)
  PROVE  Sound'
<1>1. stage \in [Webhooks -> Stages] /\ file \in Seq(Entries)
  BY SoundParts
<1>2. Shaped
  BY DEF Sound
<1>3. CASE Advances(w)
  BY <1>2, <1>3, AdvancesFacts, SoundParts, SoundFrom DEF Shaped, Busy
<1>4. CASE Answered(w)
  <2>1. stage' \in [Webhooks -> Stages]
    BY <1>1, <1>4 DEF Answered, limits, Stages
  <2>2. UNCHANGED <<file, tick, tally, history, overtaken, cleared, torn, unwritten, failures, crashes, imports>>
    BY <1>4 DEF Answered, limits
  <2>3. PICK then \in {"done", "queuing"} : Record(Job(w, then))
    BY <1>4 DEF Answered, limits
  <2>4. Job(w, then) \in Jobs
    BY DEF Job, Jobs
  <2>5. writer' \in WriterStates /\ writer'.phase = writer.phase /\ writer'.last = writer.last
    BY <2>3, <2>4, RecordAppends
  <2>6. QED
    BY <1>2, <2>1, <2>2, <2>5, SoundParts, SoundFrom DEF Shaped, Busy
<1>5. CASE Enqueues(w)
  <2>1. stage' \in [Webhooks -> Stages]
    BY <1>1, <1>5 DEF Enqueues, limits, Stages
  <2>2. [webhook |-> w, attempt |-> 0, due |-> FALSE] \in Entries
    BY WebhookRetriesAssumption DEF Entries
  <2>3. file' \in Seq(Entries)
    BY <1>1, <1>5, <2>2, AppendProperties DEF Enqueues, limits
  <2>4. overtaken' \subseteq Webhooks
    BY <1>5, SoundParts DEF Enqueues, limits
  <2>5. UNCHANGED <<tick, tally, history, writer, cleared, torn, unwritten, failures, crashes, imports>>
    BY <1>5 DEF Enqueues, limits
  <2>6. QED
    BY <1>2, <2>1, <2>3, <2>4, <2>5, SoundParts, SoundFrom DEF Shaped, Busy
<1>6. QED
  BY <1>3, <1>4, <1>5 DEF Handles

LEMMA TimePassesFacts ==
  ASSUME Sound, NEW w \in Webhooks, TimePasses(w)
  PROVE  /\ tick.phase = "idle" /\ file' \in Seq(Entries) /\ DOMAIN file' = DOMAIN file
         /\ \A i \in DOMAIN file : /\ file'[i].webhook = file[i].webhook
                                   /\ file'[i].attempt = file[i].attempt
         /\ UNCHANGED <<stage, tick, tally, history, writer, overtaken, cleared, torn, unwritten, failures, crashes, imports>>
<1>1. PICK i \in DOMAIN file : file' = [file EXCEPT ![i].due = TRUE]
  BY DEF TimePasses, limits
<1>2. file \in Seq(Entries) /\ DOMAIN file = 1 .. Len(file)
  BY SoundParts, LenProperties
<1> DEFINE e == [file[i] EXCEPT !.due = TRUE]
<1>3. file[i] \in Entries
  BY <1>2
<1>4. e \in Entries /\ e.webhook = file[i].webhook /\ e.attempt = file[i].attempt
  BY <1>3, EntryParts
<1>5. file' = [file EXCEPT ![i] = e]
  BY <1>1
<1> HIDE DEF e
<1>6. file' \in Seq(Entries)
  BY <1>2, <1>4, <1>5, ExceptSeq
<1>7. DOMAIN file' = DOMAIN file /\ \A j \in DOMAIN file : file'[j] = IF j = i THEN e ELSE file[j]
  BY <1>5
<1>8. QED
  BY <1>4, <1>6, <1>7 DEF TimePasses, limits

LEMMA QueuedType ==
  ASSUME NEW s \in Seq(Entries)
  PROVE  Queued(s) \subseteq Webhooks
<1>1. \A i \in DOMAIN s : s[i] \in Entries
  OBVIOUS
<1>2. QED
  BY <1>1, EntryParts DEF Queued

LEMMA TickBeginsFacts ==
  ASSUME Sound, TickBegins
  PROVE  /\ tick.phase = "idle" /\ file # <<>>
         /\ tick' \in TickStates /\ tick'.phase = "working"
         /\ tick'.rest = file /\ tick'.remaining = <<>>
         /\ UNCHANGED <<stage, file, tally, history, writer, overtaken, cleared, torn, unwritten, failures, crashes, imports>>
BY SoundParts DEF TickBegins, limits, TickStates

LEMMA TickSkipsFacts ==
  ASSUME Sound, TickSkips
  PROVE  /\ tick.phase = "working" /\ tick.rest # <<>>
         /\ tick' \in TickStates /\ tick'.phase = "working"
         /\ tick'.rest = Tail(tick.rest)
         /\ tick'.remaining = Append(tick.remaining, Head(tick.rest))
         /\ UNCHANGED <<stage, file, tally, history, writer, overtaken, cleared, torn, unwritten, failures, crashes, imports>>
<1>1. /\ tick.phase = "working" /\ tick.rest # <<>>
      /\ tick' = [tick EXCEPT !.rest = Tail(tick.rest),
                              !.remaining = Append(tick.remaining, Head(tick.rest))]
      /\ UNCHANGED <<stage, file, tally, history, writer, overtaken, cleared, torn, unwritten, failures, crashes, imports>>
  BY DEF TickSkips, limits
<1>2. tick \in TickStates /\ tick.rest \in Seq(Entries) /\ tick.remaining \in Seq(Entries)
  BY SoundParts
<1>3. /\ Tail(tick.rest) \in Seq(Entries)
      /\ Append(tick.remaining, Head(tick.rest)) \in Seq(Entries)
  BY <1>1, <1>2, TailElements, AppendElements
<1>4. QED
  BY <1>1, <1>2, <1>3 DEF TickStates

LEMMA TickRequestsFacts ==
  ASSUME Sound, TickRequests
  PROVE  /\ tick.phase = "working" /\ tick.rest # <<>>
         /\ tick' \in TickStates /\ tick'.phase = "posting"
         /\ tick'.rest = tick.rest /\ tick'.remaining = tick.remaining
         /\ Head(tick.rest) \in Entries
         /\ tally' \in [Webhooks -> [posts : Nat, done : Nat, told : BOOLEAN, missed : BOOLEAN]]
         /\ \A w \in Webhooks :
              /\ w # Head(tick.rest).webhook => tally'[w].posts = tally[w].posts
              /\ tally'[w].posts <= tally[w].posts + 1
              /\ tally'[w].done = tally[w].done /\ tally'[w].told = tally[w].told
              /\ tally'[w].missed = tally[w].missed
         /\ UNCHANGED <<stage, file, history, writer, overtaken, cleared, torn, unwritten, failures, crashes, imports>>
<1> DEFINE h == Head(tick.rest).webhook
<1>1. /\ tick.phase = "working" /\ tick.rest # <<>>
      /\ tick' = [tick EXCEPT !.phase = "posting"]
      /\ tally' = [tally EXCEPT ![h].posts =
                     IF tally[h].posts > MaxAttempts + MaxCrashes + MaxFailures
                     THEN tally[h].posts ELSE tally[h].posts + 1]
      /\ UNCHANGED <<stage, file, history, writer, overtaken, cleared, torn, unwritten, failures, crashes, imports>>
  BY DEF TickRequests, limits
<1>2. /\ tick \in TickStates /\ tick.rest \in Seq(Entries)
      /\ tally \in [Webhooks -> [posts : Nat, done : Nat, told : BOOLEAN, missed : BOOLEAN]]
  BY SoundParts
<1>3. Head(tick.rest) \in Entries
  BY <1>1, <1>2, TailElements
<1>4. h \in Webhooks
  BY <1>3, EntryParts
<1> HIDE DEF h
<1> DEFINE p == IF tally[h].posts > MaxAttempts + MaxCrashes + MaxFailures
                THEN tally[h].posts ELSE tally[h].posts + 1
<1>5. tally[h].posts \in Nat
  BY <1>2, <1>4
<1>6. p \in Nat /\ p <= tally[h].posts + 1
  BY <1>5
<1>7. tally' = [tally EXCEPT ![h].posts = p]
  BY <1>1
<1> HIDE DEF p
<1>8. /\ tally' \in [Webhooks -> [posts : Nat, done : Nat, told : BOOLEAN, missed : BOOLEAN]]
      /\ tally'[h].posts = p
      /\ \A w \in Webhooks : /\ w # h => tally'[w].posts = tally[w].posts
                             /\ tally'[w].done = tally[w].done /\ tally'[w].told = tally[w].told
                             /\ tally'[w].missed = tally[w].missed
  BY <1>2, <1>4, <1>6, <1>7
<1>9. \A w \in Webhooks : tally'[w].posts <= tally[w].posts + 1
  <2>1. TAKE w \in Webhooks
  <2>2. tally[w].posts \in Nat
    BY <1>2
  <2>3. QED
    BY <1>6, <1>8, <2>2
<1>10. /\ tick' \in TickStates /\ tick'.phase = "posting"
       /\ tick'.rest = tick.rest /\ tick'.remaining = tick.remaining
  BY <1>1, <1>2 DEF TickStates
<1>11. QED
  BY <1>1, <1>3, <1>8, <1>9, <1>10 DEF h

LEMMA SettlesFacts ==
  ASSUME Sound, tick.rest # <<>>, NEW e, e = Head(tick.rest), Settles(e)
  PROVE  /\ tick' \in TickStates /\ tick'.phase = "recording"
         /\ tick'.rest = Tail(tick.rest) /\ tick'.remaining = tick.remaining
         /\ writer' \in WriterStates /\ writer'.phase = writer.phase
         /\ writer'.last = writer.last /\ writer'.kept = writer.kept
         /\ Waiters' = Append(Waiters, Job(e.webhook, "tick"))
<1>1. tick' = [tick EXCEPT !.phase = "recording", !.rest = Tail(tick.rest)]
  BY DEF Settles
<1>2. tick \in TickStates /\ tick.rest \in Seq(Entries)
  BY SoundParts
<1>3. Tail(tick.rest) \in Seq(Entries) /\ e \in Entries
  BY <1>2, TailElements
<1>4. Job(e.webhook, "tick") \in Jobs
  BY <1>3, EntryParts
<1>5. Record(Job(e.webhook, "tick"))
  BY DEF Settles
<1>6. QED
  BY <1>1, <1>2, <1>3, <1>4, <1>5, RecordAppends DEF TickStates

LEMMA PutsOffFacts ==
  ASSUME Sound, tick.rest # <<>>, NEW e, e = Head(tick.rest), PutsOff(e), ~LastAttempt(e)
  PROVE  /\ tick' \in TickStates /\ tick'.phase = "working"
         /\ tick'.rest = Tail(tick.rest) /\ UNCHANGED writer
         /\ \E f \in Entries : /\ tick'.remaining = Append(tick.remaining, f)
                               /\ f.webhook = e.webhook /\ f.attempt = e.attempt + 1
<1> DEFINE f == [e EXCEPT !.attempt = e.attempt + 1, !.due = FALSE]
<1>1. /\ tick' = [tick EXCEPT !.phase = "working", !.rest = Tail(tick.rest),
                              !.remaining = Append(tick.remaining, f)]
      /\ UNCHANGED writer
  BY DEF PutsOff
<1>2. tick \in TickStates /\ tick.rest \in Seq(Entries) /\ tick.remaining \in Seq(Entries)
  BY SoundParts
<1>3. Tail(tick.rest) \in Seq(Entries) /\ e \in Entries
  BY <1>2, TailElements
<1>4. e.attempt + 1 \in 0 .. MaxAttempts - 1
  <2>1. e.attempt \in Nat
    BY <1>3, EntryParts
  <2>2. ~(e.attempt + 1 >= MaxAttempts)
    BY DEF LastAttempt
  <2>3. QED
    BY <2>1, <2>2, WebhookRetriesAssumption
<1>5. f \in Entries /\ f.webhook = e.webhook /\ f.attempt = e.attempt + 1
  BY <1>3, <1>4 DEF Entries
<1> HIDE DEF f
<1>6. Append(tick.remaining, f) \in Seq(Entries)
  BY <1>2, <1>5, AppendElements
<1>7. /\ tick' \in TickStates /\ tick'.phase = "working" /\ tick'.rest = Tail(tick.rest)
      /\ tick'.remaining = Append(tick.remaining, f)
  BY <1>1, <1>2, <1>3, <1>6 DEF TickStates
<1>8. QED
  BY <1>1, <1>5, <1>7

LEMMA RewriteOpensFacts ==
  ASSUME Sound, RewriteOpens
  PROVE  /\ tick.phase = "working" /\ tick.rest = <<>>
         /\ tick' \in TickStates /\ tick'.phase = "rewriting"
         /\ tick'.rest = <<>> /\ tick'.remaining = tick.remaining /\ file' = <<>>
         /\ UNCHANGED <<stage, tally, history, writer, overtaken, cleared, torn, unwritten, failures, crashes, imports>>
BY SoundParts DEF RewriteOpens, limits, TickStates

LEMMA RewriteFillsFacts ==
  ASSUME Sound, RewriteFills
  PROVE  /\ tick.phase = "rewriting"
         /\ tick' \in TickStates /\ tick'.phase = "idle"
         /\ tick'.rest = <<>> /\ tick'.remaining = <<>> /\ file' \in Seq(Entries)
         /\ \/ tick.remaining = <<>> /\ file' = file
            \/ \E k \in 0 .. Len(file) : file' = tick.remaining \o SubSeq(file, k + 1, Len(file))
         /\ UNCHANGED <<stage, tally, history, writer, overtaken, cleared, torn, unwritten, failures, crashes, imports>>
<1>1. /\ tick.phase = "rewriting" /\ tick' = NoTick
      /\ IF tick.remaining = <<>> THEN UNCHANGED file
         ELSE \E k \in 0 .. Len(file) :
                /\ k = 0 => file = <<>>
                /\ file' = tick.remaining \o SubSeq(file, k + 1, Len(file))
      /\ UNCHANGED <<stage, tally, history, writer, overtaken, cleared, torn, unwritten, failures, crashes, imports>>
  BY DEF RewriteFills, limits
<1>2. /\ tick' \in TickStates /\ tick'.phase = "idle"
      /\ tick'.rest = <<>> /\ tick'.remaining = <<>>
  BY <1>1 DEF NoTick, TickStates
<1>3. file \in Seq(Entries) /\ tick.remaining \in Seq(Entries)
  BY SoundParts
<1>4. ASSUME NEW k \in 0 .. Len(file),
             file' = tick.remaining \o SubSeq(file, k + 1, Len(file))
      PROVE  file' \in Seq(Entries)
  <2>1. SubSeq(file, k + 1, Len(file)) \in Seq(Entries)
    BY <1>3, SubSeqElements
  <2>2. QED
    BY <1>3, <1>4, <2>1, ConcatElements
<1>5. \/ tick.remaining = <<>> /\ file' = file
      \/ \E k \in 0 .. Len(file) : file' = tick.remaining \o SubSeq(file, k + 1, Len(file))
  BY <1>1
<1>6. file' \in Seq(Entries)
  BY <1>3, <1>4, <1>5
<1>7. QED
  BY <1>1, <1>2, <1>5, <1>6

LEMMA RewriteFailsFacts ==
  ASSUME Sound, RewriteFails
  PROVE  /\ tick.phase = "working" /\ tick.rest = <<>>
         /\ tick' \in TickStates /\ tick'.phase = "idle"
         /\ tick'.rest = <<>> /\ tick'.remaining = <<>>
         /\ unwritten' = unwritten + 1 /\ unwritten' \in 0 .. MaxFailures
         /\ UNCHANGED <<stage, file, tally, history, writer, overtaken, cleared, torn, failures, crashes, imports>>
<1>1. failures + unwritten < MaxFailures /\ unwritten' = unwritten + 1
  BY DEF RewriteFails, MayFail
<1>2. failures \in Nat /\ unwritten \in Nat /\ MaxFailures \in Nat
  BY SoundParts, WebhookRetriesAssumption
<1>3. unwritten' \in 0 .. MaxFailures
  BY <1>1, <1>2
<1>4. /\ tick' \in TickStates /\ tick'.phase = "idle"
      /\ tick'.rest = <<>> /\ tick'.remaining = <<>>
  BY DEF RewriteFails, NoTick, TickStates
<1>5. QED
  BY <1>1, <1>3, <1>4 DEF RewriteFails

LEMMA RewriteStopsFacts ==
  ASSUME Sound, RewriteStops
  PROVE  /\ tick.phase = "rewriting"
         /\ tick' \in TickStates /\ tick'.phase = "idle"
         /\ tick'.rest = <<>> /\ tick'.remaining = <<>> /\ file' \in Seq(Entries)
         /\ \E n \in 0 .. Len(tick.remaining) - 1 : \E k \in 0 .. Len(file) :
              file' = SubSeq(tick.remaining, 1, n) \o SubSeq(file, k + 1, Len(file))
         /\ torn' = torn \cup Queued(tick.remaining) /\ torn' \subseteq Webhooks
         /\ failures' \in 0 .. MaxFailures
         /\ UNCHANGED <<stage, tally, history, writer, overtaken, cleared, unwritten, crashes, imports>>
<1>1. /\ tick.phase = "rewriting" /\ tick' = NoTick /\ Fails
      /\ \E n \in 0 .. Len(tick.remaining) - 1 : \E k \in 0 .. Len(file) :
           file' = SubSeq(tick.remaining, 1, n) \o SubSeq(file, k + 1, Len(file))
      /\ torn' = torn \cup Queued(tick.remaining)
      /\ UNCHANGED <<stage, tally, history, writer, overtaken, cleared>>
  BY DEF RewriteStops
<1>2. /\ tick' \in TickStates /\ tick'.phase = "idle"
      /\ tick'.rest = <<>> /\ tick'.remaining = <<>>
  BY <1>1 DEF NoTick, TickStates
<1>3. file \in Seq(Entries) /\ tick.remaining \in Seq(Entries) /\ torn \subseteq Webhooks
  BY SoundParts
<1>4. ASSUME NEW n \in 0 .. Len(tick.remaining) - 1, NEW k \in 0 .. Len(file),
             file' = SubSeq(tick.remaining, 1, n) \o SubSeq(file, k + 1, Len(file))
      PROVE  file' \in Seq(Entries)
  <2>1. SubSeq(file, k + 1, Len(file)) \in Seq(Entries)
    BY <1>3, SubSeqElements
  <2>2. SubSeq(tick.remaining, 1, n) \in Seq(Entries)
    BY <1>3, FirstOnes
  <2>3. QED
    BY <1>4, <2>1, <2>2, ConcatElements
<1>5. file' \in Seq(Entries)
  BY <1>1, <1>4
<1>6. torn' \subseteq Webhooks
  BY <1>1, <1>3, QueuedType
<1>7. QED
  BY <1>1, <1>2, <1>5, <1>6, FailsFacts

LEMMA FilteredFacts ==
  ASSUME NEW s \in Seq(Entries), NEW a \in Automations
  PROVE  /\ Filtered(s, a) \in Seq(Entries)
         /\ ToSet(Filtered(s, a)) \subseteq ToSet(s)
         /\ \A w \in Webhooks : w \in Queued(s) /\ Of[w] # a => w \in Queued(Filtered(s, a))
<1> DEFINE K == {i \in DOMAIN s : Of[s[i].webhook] # a}
           p == Picked(s, K)
<1>1. K \in SUBSET (DOMAIN s) /\ Filtered(s, a) = p
  BY DEF Filtered
<1>2. \A i \in DOMAIN s : Of[s[i].webhook] # a => i \in K
  OBVIOUS
<1> HIDE DEF K
<1>3. p \in Seq(Entries)
  BY <1>1, PickedFacts
<1>4. /\ \A k \in DOMAIN p : \E i \in K : p[k] = s[i]
      /\ \A i \in K : \E k \in DOMAIN p : p[k] = s[i]
  BY <1>1, PickedElements
<1> HIDE DEF p
<1>5. ToSet(p) \subseteq ToSet(s)
  BY <1>1, <1>4 DEF ToSet
<1>6. \A w \in Webhooks : w \in Queued(s) /\ Of[w] # a => w \in Queued(p)
  BY <1>2, <1>4 DEF Queued
<1>7. QED
  BY <1>1, <1>3, <1>5, <1>6

LEMMA TicksSound ==
  ASSUME Sound, Ticks \/ RewriteFails \/ RewriteStops
  PROVE  Sound'
<1>1. Shaped
  BY DEF Sound
<1>2. CASE TickBegins
  BY <1>1, <1>2, TickBeginsFacts, SoundParts, SoundFrom DEF Shaped, Busy
<1>3. CASE TickSkips
  BY <1>1, <1>3, TickSkipsFacts, SoundParts, SoundFrom DEF Shaped, Busy
<1>4. CASE TickRequests
  BY <1>1, <1>4, TickRequestsFacts, SoundParts, SoundFrom DEF Shaped, Busy
<1>5. CASE RequestEnds
  <2> DEFINE e == Head(tick.rest)
  <2>1. tick.rest # <<>>
    BY <1>1, <1>5 DEF RequestEnds, limits, Shaped
  <2>2. UNCHANGED <<stage, file, history, overtaken, cleared, torn, unwritten, failures, crashes, imports>>
    BY <1>5 DEF RequestEnds, limits
  <2>3. \/ Settles(e) /\ tally' = [tally EXCEPT ![e.webhook].done = @ + 1]
        \/ Settles(e) /\ UNCHANGED tally
        \/ ~LastAttempt(e) /\ PutsOff(e) /\ UNCHANGED tally
    BY <1>5 DEF RequestEnds, limits
  <2>4. e \in Entries /\ e.webhook \in Webhooks
    BY <2>1, SoundParts, TailElements, EntryParts
  <2>5. tally' \in [Webhooks -> [posts : Nat, done : Nat, told : BOOLEAN, missed : BOOLEAN]]
    <3>1. tally \in [Webhooks -> [posts : Nat, done : Nat, told : BOOLEAN, missed : BOOLEAN]]
      BY SoundParts
    <3> HIDE DEF e
    <3>2. QED
      BY <2>3, <2>4, <3>1
  <2> HIDE DEF e
  <2>6. CASE Settles(e)
    BY <1>1, <2>1, <2>2, <2>5, <2>6, SettlesFacts, SoundParts, SoundFrom DEF Shaped, Busy, e
  <2>7. CASE ~LastAttempt(e) /\ PutsOff(e)
    BY <1>1, <2>1, <2>2, <2>5, <2>7, PutsOffFacts, SoundParts, SoundFrom DEF Shaped, Busy, e
  <2>8. QED
    BY <2>3, <2>6, <2>7
<1>6. CASE RewriteOpens
  <2>1. <<>> \in Seq(Entries)
    OBVIOUS
  <2>2. QED
    BY <1>1, <1>6, <2>1, RewriteOpensFacts, SoundParts, SoundFrom DEF Shaped, Busy
<1>7. CASE RewriteFills
  BY <1>1, <1>7, RewriteFillsFacts, SoundParts, SoundFrom DEF Shaped, Busy
<1>8. CASE RewriteFails
  BY <1>1, <1>8, RewriteFailsFacts, SoundParts, SoundFrom DEF Shaped, Busy
<1>9. CASE RewriteStops
  BY <1>1, <1>9, RewriteStopsFacts, SoundParts, SoundFrom DEF Shaped, Busy
<1>10. QED
  BY <1>2, <1>3, <1>4, <1>5, <1>6, <1>7, <1>8, <1>9 DEF Ticks

LEMMA CrashFacts ==
  ASSUME Sound, Crash
  PROVE  /\ stage' \in [Webhooks -> Stages]
         /\ \A w \in Webhooks : /\ stage[w] = "queued" => stage'[w] = "queued"
                                /\ stage'[w] = "queued" => stage[w] = "queued"
         /\ tick' \in TickStates /\ tick'.phase = "idle"
         /\ tick'.rest = <<>> /\ tick'.remaining = <<>>
         /\ writer' \in WriterStates /\ writer'.phase = "idle" /\ writer'.last = <<>>
         /\ Waiters' = <<>> /\ history' \in Seq(Jobs)
         /\ torn' = IF tick.phase = "rewriting" THEN torn \cup Queued(tick.remaining) ELSE torn
         /\ torn' \subseteq Webhooks
         /\ crashes' = crashes + 1 /\ crashes' \in 0 .. MaxCrashes
         /\ UNCHANGED <<file, tally, overtaken, cleared, unwritten, failures, imports>>
<1>1. /\ crashes < MaxCrashes /\ crashes' = crashes + 1
      /\ stage' = [w \in Webhooks |->
                     IF stage[w] \in {"posting", "recording", "queuing"} THEN "done" ELSE stage[w]]
      /\ tick' = NoTick /\ writer' = NoWriter
      /\ torn' = IF tick.phase = "rewriting" THEN torn \cup Queued(tick.remaining) ELSE torn
      /\ history' = Compacted(history)
      /\ UNCHANGED <<file, tally, overtaken, cleared, unwritten, failures, imports>>
  BY DEF Crash, AtStart
<1>2. /\ stage \in [Webhooks -> Stages] /\ history \in Seq(Jobs) /\ crashes \in Nat
      /\ torn \subseteq Webhooks /\ tick.remaining \in Seq(Entries)
  BY SoundParts
<1>3. /\ stage' \in [Webhooks -> Stages]
      /\ \A w \in Webhooks : /\ stage[w] = "queued" => stage'[w] = "queued"
                             /\ stage'[w] = "queued" => stage[w] = "queued"
  BY <1>1, <1>2 DEF Stages
<1>4. /\ tick' \in TickStates /\ tick'.phase = "idle"
      /\ tick'.rest = <<>> /\ tick'.remaining = <<>>
  BY <1>1 DEF NoTick, TickStates
<1>5. /\ writer' \in WriterStates /\ writer'.phase = "idle" /\ writer'.last = <<>>
      /\ writer'.jobs = <<>>
  BY <1>1 DEF NoWriter, WriterStates
<1>6. Waiters' = <<>>
  <2>1. Waiters' = <<>> \o <<>>
    BY <1>5 DEF Waiters, Busy
  <2>2. <<>> \in Seq(Jobs)
    OBVIOUS
  <2>3. QED
    BY <2>1, <2>2, ConcatEmptySeq
<1>7. history' \in Seq(Jobs) /\ crashes' \in 0 .. MaxCrashes
  BY <1>1, <1>2, CompactedFacts, WebhookRetriesAssumption
<1>8. torn' \subseteq Webhooks
  BY <1>1, <1>2, QueuedType
<1>9. QED
  BY <1>1, <1>3, <1>4, <1>5, <1>6, <1>7, <1>8

LEMMA ImportFacts ==
  ASSUME Sound, NEW a \in Automations, ImportOverwrites(a)
  PROVE  /\ file' = Filtered(file, a) /\ file' \in Seq(Entries)
         /\ imports' \in 0 .. MaxImports
         /\ overtaken \subseteq overtaken' /\ cleared \subseteq cleared'
         /\ overtaken' \subseteq Webhooks /\ cleared' \subseteq Webhooks
         /\ \A w \in Webhooks : w \in Queued(file) /\ Of[w] = a => w \in overtaken' \cup cleared'
         /\ UNCHANGED <<stage, tick, tally, history, writer, torn, unwritten, failures, crashes>>
<1>1. /\ imports < MaxImports /\ imports' = imports + 1 /\ file' = Filtered(file, a)
      /\ \/ cleared' = cleared \cup {w \in Queued(file) : Of[w] = a} /\ UNCHANGED overtaken
         \/ overtaken' = overtaken \cup {w \in Queued(file) : Of[w] = a} /\ UNCHANGED cleared
      /\ UNCHANGED <<stage, tick, tally, history, writer, torn, unwritten, failures, crashes>>
  BY DEF ImportOverwrites
<1>2. file \in Seq(Entries) /\ imports \in Nat /\ overtaken \subseteq Webhooks /\ cleared \subseteq Webhooks
  BY SoundParts
<1>3. Queued(file) \subseteq Webhooks
  BY <1>2, QueuedType
<1>4. file' \in Seq(Entries) /\ imports' \in 0 .. MaxImports
  BY <1>1, <1>2, FilteredFacts, WebhookRetriesAssumption
<1>5. QED
  BY <1>1, <1>2, <1>3, <1>4

(* The steps: those of the handlers, of the mutex, of the tick, and others. *)
LEMMA Steps ==
  ASSUME [Next]_vars
  PROVE  \/ \E w \in Webhooks : Advances(w) \/ Answered(w) \/ Enqueues(w) \/ TimePasses(w)
         \/ Recordings
         \/ Ticks \/ RewriteFails \/ RewriteStops
         \/ \E a \in Automations : ImportOverwrites(a)
         \/ Crash
         \/ UNCHANGED vars
<1>1. FilesFail => \/ AppendFails \/ CompactionFails \/ CompactionStops \/ RewriteFails \/ RewriteStops
                   \/ \E w \in Webhooks : EnqueueFails(w)
  BY Zenon DEF FilesFail
<1>2. (\E w \in Webhooks : Fires(w) \/ Handles(w) \/ TimePasses(w))
        => \E w \in Webhooks : Advances(w) \/ Answered(w) \/ Enqueues(w) \/ TimePasses(w)
  BY Zenon DEF Handles, Advances
<1>3. (\E w \in Webhooks : EnqueueFails(w)) => \E w \in Webhooks : Advances(w)
  BY Zenon DEF Advances
<1>4. QED
  BY <1>1, <1>2, <1>3, Zenon DEF Next, Recordings

LEMMA SoundStep ==
  ASSUME Sound, [Next]_vars
  PROVE  Sound'
<1>1. ASSUME NEW w \in Webhooks, Advances(w) \/ Answered(w) \/ Enqueues(w)
      PROVE  Sound'
  BY <1>1, HandlersSound DEF Handles
<1>2. ASSUME NEW w \in Webhooks, TimePasses(w)
      PROVE  Sound'
  BY <1>2, TimePassesFacts, SoundParts, SoundFrom DEF Sound, Shaped, Busy
<1>3. ASSUME NEW a \in Automations, ImportOverwrites(a)
      PROVE  Sound'
  BY <1>3, ImportFacts, SoundParts, SoundFrom DEF Sound, Shaped, Busy
<1>4. CASE Crash
  BY <1>4, CrashFacts, SoundParts, SoundFrom
<1>5. CASE UNCHANGED vars
  BY <1>5 DEF vars, limits, queue, Sound, TypeOK, Shaped, Busy
<1>6. QED
  BY <1>1, <1>2, <1>3, <1>4, <1>5, TicksSound, RecordsSound, Steps

LEMMA SoundInit ==
  ASSUME Init
  PROVE  Sound
<1>1. /\ NoTick \in TickStates /\ NoTick.phase = "idle"
      /\ NoTick.rest = <<>> /\ NoTick.remaining = <<>>
  BY DEF NoTick, TickStates
<1>2. NoWriter \in WriterStates /\ NoWriter.phase = "idle"
  BY DEF NoWriter, WriterStates
<1>3. /\ stage \in [Webhooks -> Stages] /\ file \in Seq(Entries) /\ history \in Seq(Jobs)
      /\ tally \in [Webhooks -> [posts : Nat, done : Nat, told : BOOLEAN, missed : BOOLEAN]]
  BY DEF Init, Stages
<1>4. /\ unwritten \in 0 .. MaxFailures /\ failures \in 0 .. MaxFailures
      /\ crashes \in 0 .. MaxCrashes /\ imports \in 0 .. MaxImports
  BY WebhookRetriesAssumption DEF Init
<1>5. QED
  BY <1>1, <1>2, <1>3, <1>4 DEF Init, Sound, TypeOK, Shaped, Busy, TickStates, WriterStates

LEMMA SoundAlways == Spec => []Sound
<1>1. Init => Sound
  BY SoundInit
<1>2. Sound /\ [Next]_vars => Sound'
  BY SoundStep
<1>3. QED
  BY <1>1, <1>2, PTL DEF Spec

(* The fields keep their types: among them, no entry of the queue file has  *)
(* used up its attempts (LastAttempt in tick).                              *)
THEOREM TypeInvariant == Spec => []TypeOK
<1>1. Sound => TypeOK
  BY DEF Sound
<1>2. QED
  BY <1>1, SoundAlways, PTL

-----------------------------------------------------------------------------
(* The newest entry of the history. *)

EndsIn(s, last) == s # <<>> /\ s[Len(s)] = last[1]

LastKept ==
  /\ writer.phase = "idle" => writer.last = <<>> \/ (Len(writer.last) = 1 /\ EndsIn(history, writer.last))
  /\ writer.phase = "compacting" => EndsIn(history, writer.last)
  /\ writer.phase = "writing" => EndsIn(writer.kept, writer.last)

LEMMA LastKeptStep ==
  ASSUME Sound, LastKept, [Next]_vars
  PROVE  LastKept'
<1>1. CASE HistoryAppends
  BY <1>1, HistoryAppendsFacts DEF LastKept, EndsIn
<1>2. CASE CompactionOpens
  <2>1. EndsIn(history, writer.last) /\ history \in Seq(Jobs)
    BY <1>2, SoundParts DEF CompactionOpens, limits, LastKept
  <2>2. EndsIn(Compacted(history), writer.last)
    BY <2>1, CompactedFacts DEF EndsIn
  <2>3. QED
    BY <1>2, <2>2, CompactionOpensFacts DEF LastKept
<1>3. CASE CompactionWrites
  <2>1. EndsIn(writer.kept, writer.last) /\ Len(writer.last) = 1
    BY <1>3 DEF CompactionWrites, limits, LastKept, Sound, Shaped, Busy
  <2>2. QED
    BY <1>3, <2>1, CompactionWritesFacts DEF LastKept
<1>4. CASE Crash
  BY <1>4, CrashFacts DEF LastKept
<1>5. ASSUME UNCHANGED history, writer'.phase = writer.phase, writer'.last = writer.last,
             writer'.kept = writer.kept
      PROVE  LastKept'
  BY <1>5 DEF LastKept, EndsIn
<1>6. ASSUME NEW w \in Webhooks, Advances(w) \/ Answered(w) \/ Enqueues(w) \/ TimePasses(w)
      PROVE  LastKept'
  <2>1. CASE Answered(w)
    <3>1. PICK then \in {"done", "queuing"} : Record(Job(w, then))
      BY <2>1 DEF Answered, limits
    <3>2. Job(w, then) \in Jobs
      BY DEF Job, Jobs
    <3>3. QED
      BY <1>5, <2>1, <3>1, <3>2, RecordAppends DEF Answered, limits
  <2>2. CASE Advances(w)
    BY <1>5, <2>2, AdvancesFacts
  <2>3. CASE Enqueues(w) \/ TimePasses(w)
    BY <1>5, <2>3 DEF Enqueues, TimePasses
  <2>4. QED
    BY <1>6, <2>1, <2>2, <2>3
<1>7. CASE Ticks \/ RewriteFails \/ RewriteStops
  <2>1. CASE RequestEnds
    <3> DEFINE e == Head(tick.rest)
    <3>1. tick.rest # <<>>
      BY <2>1 DEF RequestEnds, limits, Sound, Shaped
    <3>2. UNCHANGED history /\ (Settles(e) \/ (~LastAttempt(e) /\ PutsOff(e)))
      BY <2>1 DEF RequestEnds, limits
    <3> HIDE DEF e
    <3>3. CASE Settles(e)
      BY <1>5, <3>1, <3>2, <3>3, SettlesFacts DEF e
    <3>4. CASE PutsOff(e)
      BY <1>5, <3>2, <3>4 DEF PutsOff
    <3>5. QED
      BY <3>2, <3>3, <3>4
  <2>2. CASE TickBegins \/ TickSkips \/ TickRequests \/ RewriteOpens \/ RewriteFills
    BY <1>5, <2>2 DEF TickBegins, TickSkips, TickRequests, RewriteOpens, RewriteFills
  <2>3. CASE RewriteFails \/ RewriteStops
    BY <1>5, <2>3 DEF RewriteFails, RewriteStops
  <2>4. QED
    BY <1>7, <2>1, <2>2, <2>3 DEF Ticks
<1>8. ASSUME NEW a \in Automations, ImportOverwrites(a)
      PROVE  LastKept'
  BY <1>5, <1>8, ImportFacts
<1>9. CASE UNCHANGED vars
  BY <1>5, <1>9 DEF vars, limits
<1>10. CASE AppendFails
  BY <1>5, <1>10, AppendFailsFacts
<1>11. CASE CompactionFails
  <2>1. EndsIn(history, writer.last) /\ Len(writer.last) = 1
    BY <1>11, CompactionFailsFacts DEF LastKept, Sound, Shaped, Busy
  <2>2. QED
    BY <1>11, <2>1, CompactionFailsFacts DEF LastKept, EndsIn
<1>12. CASE CompactionStops
  BY <1>12, CompactionStopsFacts DEF LastKept
<1>13. QED
  BY <1>1, <1>2, <1>3, <1>4, <1>6, <1>7, <1>8, <1>9, <1>10, <1>11, <1>12, Steps
     DEF Recordings, Records

(* Whatever compaction runs, the entry appended last is the newest of the   *)
(* history (appendAutomationHistoryEntry, runCompaction).                   *)
THEOREM NewestKeptAlways == Spec => []NewestKept
<1>1. Init => LastKept
  BY DEF Init, LastKept, NoWriter
<1>2. Sound /\ LastKept /\ [Next]_vars => LastKept'
  BY LastKeptStep
<1>3. Sound /\ LastKept => NewestKept
  <2>1. SUFFICES ASSUME Sound, LastKept, writer.phase = "idle"
                 PROVE  IsSuffix(writer.last, history)
    BY DEF NewestKept
  <2>2. writer.last \in Seq(Jobs) /\ history \in Seq(Jobs)
    BY <2>1, SoundParts
  <2>3. QED
    BY <2>1, <2>2, ShortSuffix DEF LastKept, EndsIn
<1>4. QED
  BY <1>1, <1>2, <1>3, SoundAlways, PTL DEF Spec

-----------------------------------------------------------------------------
(* Who waits for the mutex: at most one job of the tick, while the tick     *)
(* waits for it, and at most one of each handler, while the handler does.   *)

Owner(job) == IF job.then = "tick" THEN <<>> ELSE <<job.webhook>>

Single(q) == \A i, j \in DOMAIN q : Owner(q[i]) = Owner(q[j]) => i = j

TickIn(q) == \E i \in DOMAIN q : q[i].then = "tick"

Waits ==
  /\ Single(Waiters)
  /\ TickIn(Waiters) <=> tick.phase = "recording"
  /\ \A i \in DOMAIN Waiters : Waiters[i].then # "tick" => stage[Waiters[i].webhook] = "recording"

(* The webhook whose last entry the tick waits to see recorded. *)
SettledIn(q) == {q[i].webhook : i \in {k \in DOMAIN q : q[k].then = "tick"}}

Settled == SettledIn(Waiters)

LEMMA OwnerFacts ==
  /\ \A a, b : a.then = "tick" /\ b.then = "tick" => Owner(a) = Owner(b)
  /\ \A a, b : a.then # "tick" /\ b.then # "tick" /\ a.webhook = b.webhook => Owner(a) = Owner(b)
  /\ \A a, b : Owner(a) = Owner(b) => (a.then = "tick" <=> b.then = "tick")
  /\ \A a, b : Owner(a) = Owner(b) /\ a.then # "tick" => a.webhook = b.webhook
<1>1. \A x : <<x>> # <<>>
  OBVIOUS
<1>2. \A x, y : <<x>> = <<y>> => x = y
  OBVIOUS
<1>3. QED
  BY <1>1, <1>2 DEF Owner

LEMMA FirstLeaves ==
  ASSUME NEW q \in Seq(Jobs), q # <<>>, Single(q)
  PROVE  /\ Single(Tail(q))
         /\ Head(q).then = "tick" => /\ ~TickIn(Tail(q)) /\ SettledIn(Tail(q)) = {}
                                     /\ TickIn(q) /\ SettledIn(q) = {Head(q).webhook}
         /\ Head(q).then # "tick" => /\ TickIn(Tail(q)) <=> TickIn(q)
                                     /\ SettledIn(Tail(q)) = SettledIn(q)
         /\ Head(q).then # "tick" =>
              \A i \in DOMAIN Tail(q) : Tail(q)[i].then # "tick" => Tail(q)[i].webhook # Head(q).webhook
<1> DEFINE t == Tail(q)
           h == Head(q)
<1>1. /\ h = q[1] /\ DOMAIN q = 1 .. Len(q) /\ Len(q) \in Nat \ {0} /\ DOMAIN t = 1 .. Len(q) - 1
      /\ \A i \in DOMAIN t : i + 1 \in DOMAIN q /\ t[i] = q[i + 1]
  BY TailElements
<1> HIDE DEF t, h
<1>2. \A i \in DOMAIN q : i = 1 \/ (i - 1 \in DOMAIN t /\ t[i - 1] = q[i])
  BY <1>1
<1>3. 1 \in DOMAIN q /\ \A i \in DOMAIN t : i \in Nat /\ i + 1 # 1
  BY <1>1
<1>4. Single(t)
  <2>1. SUFFICES ASSUME NEW i \in DOMAIN t, NEW j \in DOMAIN t, Owner(t[i]) = Owner(t[j])
                 PROVE  i = j
    BY DEF Single
  <2>2. i + 1 = j + 1
    BY <1>1, <2>1 DEF Single
  <2>3. QED
    BY <1>3, <2>2
<1>5. \A i \in DOMAIN t : Owner(t[i]) # Owner(h)
  BY <1>1, <1>3 DEF Single
<1>6. ASSUME h.then = "tick"
      PROVE  ~TickIn(t) /\ SettledIn(t) = {} /\ TickIn(q) /\ SettledIn(q) = {h.webhook}
  <2>1. \A i \in DOMAIN t : t[i].then # "tick"
    BY <1>5, <1>6, OwnerFacts
  <2>2. \A i \in DOMAIN q : q[i].then = "tick" <=> i = 1
    BY <1>1, <1>2, <1>6, <2>1
  <2>3. {k \in DOMAIN q : q[k].then = "tick"} = {1}
    BY <1>3, <2>2
  <2>4. QED
    BY <1>1, <1>3, <1>6, <2>1, <2>3 DEF TickIn, SettledIn
<1>7. ASSUME h.then # "tick"
      PROVE  (TickIn(t) <=> TickIn(q)) /\ SettledIn(t) = SettledIn(q)
  <2>1. ASSUME NEW w
        PROVE  (\E i \in DOMAIN t : t[i].then = "tick" /\ t[i].webhook = w)
                 <=> (\E i \in DOMAIN q : q[i].then = "tick" /\ q[i].webhook = w)
    BY <1>1, <1>2, <1>7
  <2>2. TickIn(t) <=> TickIn(q)
    BY <1>1, <1>2, <1>7 DEF TickIn
  <2>3. SettledIn(t) = SettledIn(q)
    BY <2>1 DEF SettledIn
  <2>4. QED
    BY <2>2, <2>3
<1>8. ASSUME h.then # "tick"
      PROVE  \A i \in DOMAIN t : t[i].then # "tick" => t[i].webhook # h.webhook
  BY <1>5, <1>8, OwnerFacts
<1>9. QED
  BY <1>4, <1>6, <1>7, <1>8 DEF t, h

LEMMA OneMoreWaits ==
  ASSUME NEW q \in Seq(Jobs), NEW job \in Jobs, Single(q),
         job.then = "tick" => ~TickIn(q),
         job.then # "tick" => \A i \in DOMAIN q : q[i].then # "tick" => q[i].webhook # job.webhook
  PROVE  /\ Single(Append(q, job))
         /\ TickIn(Append(q, job)) <=> TickIn(q) \/ job.then = "tick"
         /\ SettledIn(Append(q, job)) =
              SettledIn(q) \cup (IF job.then = "tick" THEN {job.webhook} ELSE {})
<1> DEFINE a == Append(q, job)
           n == Len(q) + 1
<1>1. /\ Len(q) \in Nat /\ DOMAIN q = 1 .. Len(q) /\ DOMAIN a = 1 .. n
      /\ \A i \in DOMAIN q : a[i] = q[i]
      /\ a[n] = job
  BY AppendElements
<1>2. n \in DOMAIN a /\ \A i \in DOMAIN a : i \in DOMAIN q \/ i = n
  BY <1>1
<1>3. DOMAIN q \subseteq DOMAIN a
  BY <1>1
<1> HIDE DEF a, n
<1>4. \A i \in DOMAIN q : Owner(q[i]) # Owner(job)
  <2>1. TAKE i \in DOMAIN q
  <2>2. CASE job.then = "tick"
    BY <2>2, OwnerFacts DEF TickIn
  <2>3. CASE job.then # "tick"
    BY <2>3, OwnerFacts
  <2>4. QED
    BY <2>2, <2>3
<1>5. Single(a)
  BY <1>1, <1>2, <1>4 DEF Single
<1>6. TickIn(a) <=> TickIn(q) \/ job.then = "tick"
  BY <1>1, <1>2, <1>3 DEF TickIn
<1>7. ASSUME NEW w
      PROVE  (\E i \in DOMAIN a : a[i].then = "tick" /\ a[i].webhook = w)
               <=> \/ \E i \in DOMAIN q : q[i].then = "tick" /\ q[i].webhook = w
                   \/ job.then = "tick" /\ job.webhook = w
  BY <1>1, <1>2, <1>3
<1>8. SettledIn(a) = SettledIn(q) \cup (IF job.then = "tick" THEN {job.webhook} ELSE {})
  BY <1>7 DEF SettledIn
<1>9. QED
  BY <1>5, <1>6, <1>8 DEF a

(* The tick goes on once the last entry of a webhook is recorded, or has    *)
(* failed to be.                                                            *)
TickGoesOn(w) ==
  /\ Settled = {w} /\ Settled' = {} /\ tick.phase = "recording" /\ tick'.phase = "working"
  /\ tally'[w].told \/ tally'[w].missed
  /\ \A v \in Webhooks : /\ tally[v].told => tally'[v].told
                         /\ tally[v].missed => tally'[v].missed
  /\ \A v \in Webhooks : tally'[v].posts = tally[v].posts /\ tally'[v].done = tally[v].done
  /\ stage' = stage /\ file' = file
  /\ tick'.rest = tick.rest /\ tick'.remaining = tick.remaining

HandlerGoesOn(w, then) ==
  /\ Settled' = Settled /\ stage[w] = "recording"
  /\ stage' = [stage EXCEPT ![w] = then] /\ UNCHANGED <<file, tick, tally>>

LEMMA GoesCases ==
  ASSUME Sound, Waits, Goes
  PROVE  /\ \/ Settled' = Settled /\ UNCHANGED queue
            \/ \E w \in Webhooks : TickGoesOn(w)
            \/ \E w \in Webhooks, then \in {"done", "queuing"} : HandlerGoesOn(w, then)
         /\ Waits'
<1>1. CASE Waiters' = Waiters /\ UNCHANGED queue
  BY <1>1 DEF queue, Settled, Waits
<1>2. CASE /\ Waiters # <<>> /\ Waiters' = Tail(Waiters)
           /\ \E recorded \in BOOLEAN : Resumes(Head(Waiters), recorded)
  <2> DEFINE q == Waiters
             h == Head(q)
  <2>1. q \in Seq(Jobs) /\ q # <<>>
    BY <1>2, WaitersType
  <2>2. h \in Jobs /\ \E recorded \in BOOLEAN : Resumes(h, recorded)
    BY <1>2, <2>1, TailElements
  <2>3. Single(q) /\ (TickIn(q) <=> tick.phase = "recording")
        /\ \A i \in DOMAIN q : q[i].then # "tick" => stage[q[i].webhook] = "recording"
    BY DEF Waits
  <2>4. h = q[1] /\ 1 \in DOMAIN q /\ \A i \in DOMAIN Tail(q) : i + 1 \in DOMAIN q /\ Tail(q)[i] = q[i + 1]
    BY <2>1, TailElements
  <2>5. h.webhook \in Webhooks /\ h.then \in {"tick", "done", "queuing"}
    BY <2>2 DEF Jobs
  <2>6. Waiters' = Tail(q) /\ Settled = SettledIn(q) /\ Settled' = SettledIn(Tail(q))
    BY <1>2 DEF Settled
  <2>7. \A i \in DOMAIN Tail(q) : /\ Tail(q)[i] \in Jobs
                                  /\ Tail(q)[i].then # "tick" => stage[Tail(q)[i].webhook] = "recording"
    <3>1. \A i \in DOMAIN q : q[i] \in Jobs
      BY <2>1
    <3>2. QED
      BY <2>3, <2>4, <3>1
  <2> HIDE DEF q, h
  <2>8. CASE h.then = "tick"
    <3>1. /\ stage' = stage /\ tick'.phase = "working"
          /\ tally'[h.webhook].told \/ tally'[h.webhook].missed
          /\ \A v \in Webhooks : /\ tally[v].told => tally'[v].told
                                 /\ tally[v].missed => tally'[v].missed
          /\ \A v \in Webhooks : tally'[v].posts = tally[v].posts /\ tally'[v].done = tally[v].done
          /\ file' = file /\ tick'.rest = tick.rest /\ tick'.remaining = tick.remaining
      BY <2>2, <2>8, ResumesFacts
    <3>2. /\ Single(Tail(q)) /\ ~TickIn(Tail(q)) /\ SettledIn(Tail(q)) = {}
          /\ TickIn(q) /\ SettledIn(q) = {h.webhook}
      BY <2>1, <2>3, <2>8, FirstLeaves DEF h
    <3>3. TickGoesOn(h.webhook)
      BY <2>3, <2>6, <3>1, <3>2 DEF TickGoesOn
    <3>4. Waits'
      BY <2>6, <2>7, <3>1, <3>2 DEF Waits
    <3>5. QED
      BY <2>5, <3>3, <3>4
  <2>9. CASE h.then # "tick"
    <3>1. tick' = tick /\ tally' = tally /\ file' = file /\ stage' = [stage EXCEPT ![h.webhook] = h.then]
      BY <2>2, <2>9, ResumesFacts
    <3>2. /\ Single(Tail(q)) /\ (TickIn(Tail(q)) <=> TickIn(q)) /\ SettledIn(Tail(q)) = SettledIn(q)
          /\ \A i \in DOMAIN Tail(q) : Tail(q)[i].then # "tick" => Tail(q)[i].webhook # h.webhook
      BY <2>1, <2>3, <2>9, FirstLeaves DEF h
    <3>3. stage[h.webhook] = "recording"
      BY <2>3, <2>4, <2>9
    <3>4. HandlerGoesOn(h.webhook, h.then)
      BY <2>6, <3>1, <3>2, <3>3 DEF HandlerGoesOn
    <3>5. \A i \in DOMAIN Tail(q) : Tail(q)[i].then # "tick" => stage'[Tail(q)[i].webhook] = "recording"
      <4>1. TAKE i \in DOMAIN Tail(q)
      <4>2. Tail(q)[i].webhook \in Webhooks /\ stage \in [Webhooks -> Stages]
        BY <2>7, SoundParts DEF Jobs
      <4>3. QED
        BY <2>7, <3>1, <3>2, <4>2
    <3>6. Waits'
      BY <2>3, <2>6, <3>1, <3>2, <3>5 DEF Waits
    <3>7. QED
      BY <2>5, <2>9, <3>4, <3>6
  <2>10. QED
    BY <2>8, <2>9
<1>3. QED
  BY <1>1, <1>2 DEF Goes

LEMMA RecordsGo ==
  ASSUME Sound, Recordings
  PROVE  Goes /\ UNCHANGED <<overtaken, cleared, torn, unwritten, crashes, imports>>
BY HistoryAppendsFacts, CompactionOpensFacts, CompactionWritesFacts,
   AppendFailsFacts, CompactionFailsFacts, CompactionStopsFacts DEF Recordings, Records

LEMMA AnsweredFacts ==
  ASSUME Sound, Waits, NEW w \in Webhooks, Answered(w)
  PROVE  Settled' = Settled /\ Waits'
<1>1. /\ stage[w] = "posting" /\ stage' = [stage EXCEPT ![w] = "recording"] /\ tick' = tick
  BY DEF Answered, limits
<1>2. PICK then \in {"done", "queuing"} : Record(Job(w, then))
  BY DEF Answered, limits
<1> DEFINE job == Job(w, then)
           q == Waiters
<1>3. job \in Jobs /\ job.then # "tick" /\ job.webhook = w
  BY DEF Job, Jobs
<1>4. q' = Append(q, job) /\ q \in Seq(Jobs)
  BY <1>2, <1>3, RecordAppends, WaitersType
<1>5. /\ Single(q) /\ (TickIn(q) <=> tick.phase = "recording")
      /\ \A i \in DOMAIN q : q[i].then # "tick" => stage[q[i].webhook] = "recording"
  BY DEF Waits
<1>6. Settled = SettledIn(q) /\ Settled' = SettledIn(q')
  BY DEF Settled
<1>7. Waits' <=> /\ Single(q') /\ (TickIn(q') <=> tick'.phase = "recording")
                 /\ \A i \in DOMAIN q' : q'[i].then # "tick" => stage'[q'[i].webhook] = "recording"
  BY DEF Waits
<1> HIDE DEF job, q
<1>8. \A i \in DOMAIN q : q[i].then # "tick" => q[i].webhook # job.webhook
  BY <1>1, <1>3, <1>5
<1> DEFINE a == Append(q, job)
<1>9. Single(a) /\ (TickIn(a) <=> TickIn(q)) /\ SettledIn(a) = SettledIn(q)
  BY <1>3, <1>4, <1>5, <1>8, OneMoreWaits
<1>10. \A i \in DOMAIN a : \/ i \in DOMAIN q /\ a[i] = q[i]
                           \/ a[i] = job
  <2>1. /\ DOMAIN a = 1 .. Len(q) + 1 /\ DOMAIN q = 1 .. Len(q) /\ Len(q) \in Nat
        /\ a[Len(q) + 1] = job /\ \A i \in DOMAIN q : a[i] = q[i]
    BY <1>3, <1>4, AppendElements
  <2> HIDE DEF a
  <2>2. QED
    BY <2>1
<1>11. q' = a
  BY <1>4
<1> HIDE DEF a
<1>12. stage \in [Webhooks -> Stages] /\ \A i \in DOMAIN q : q[i].webhook \in Webhooks
  <2>1. \A i \in DOMAIN q : q[i] \in Jobs
    BY <1>4
  <2>2. QED
    BY <2>1, SoundParts DEF Jobs
<1>13. \A i \in DOMAIN a : a[i].then # "tick" => stage'[a[i].webhook] = "recording"
  BY <1>1, <1>3, <1>5, <1>10, <1>12
<1>14. QED
  BY <1>1, <1>5, <1>6, <1>7, <1>9, <1>11, <1>13

LEMMA SettlesWaits ==
  ASSUME Sound, Waits, tick.phase = "posting", tick.rest # <<>>, stage' = stage,
         NEW e, e = Head(tick.rest), Settles(e)
  PROVE  Settled = {} /\ Settled' = {e.webhook} /\ Waits'
<1> DEFINE job == Job(e.webhook, "tick")
           q == Waiters
<1>1. e \in Entries
  BY SoundParts, TailElements
<1>2. job \in Jobs /\ job.then = "tick" /\ job.webhook = e.webhook
  BY <1>1, EntryParts DEF Job
<1>3. q' = Append(q, job) /\ q \in Seq(Jobs) /\ tick'.phase = "recording"
  BY SettlesFacts, WaitersType
<1>4. /\ Single(q) /\ ~TickIn(q)
      /\ \A i \in DOMAIN q : q[i].then # "tick" => stage[q[i].webhook] = "recording"
  BY DEF Waits
<1>5. Settled = SettledIn(q) /\ Settled' = SettledIn(q')
  BY DEF Settled
<1>6. Waits' <=> /\ Single(q') /\ (TickIn(q') <=> tick'.phase = "recording")
                 /\ \A i \in DOMAIN q' : q'[i].then # "tick" => stage'[q'[i].webhook] = "recording"
  BY DEF Waits
<1> HIDE DEF job, q
<1>7. SettledIn(q) = {}
  BY <1>4 DEF SettledIn, TickIn
<1> DEFINE a == Append(q, job)
<1>8. Single(a) /\ TickIn(a) /\ SettledIn(a) = {e.webhook}
  BY <1>2, <1>3, <1>4, <1>7, OneMoreWaits
<1>9. \A i \in DOMAIN a : \/ i \in DOMAIN q /\ a[i] = q[i]
                          \/ a[i] = job
  <2>1. /\ DOMAIN a = 1 .. Len(q) + 1 /\ DOMAIN q = 1 .. Len(q) /\ Len(q) \in Nat
        /\ a[Len(q) + 1] = job /\ \A i \in DOMAIN q : a[i] = q[i]
    BY <1>2, <1>3, AppendElements
  <2> HIDE DEF a
  <2>2. QED
    BY <2>1
<1>10. q' = a
  BY <1>3
<1> HIDE DEF a
<1>11. \A i \in DOMAIN a : a[i].then # "tick" => stage'[a[i].webhook] = "recording"
  BY <1>2, <1>4, <1>9
<1>12. QED
  BY <1>3, <1>5, <1>6, <1>7, <1>8, <1>10, <1>11

(* The steps that leave the mutex alone. *)
LEMMA OthersWait ==
  ASSUME Sound, Waits, UNCHANGED writer,
         tick.phase = "recording" <=> tick'.phase = "recording",
         \A w \in Webhooks : stage[w] = "recording" => stage'[w] = "recording"
  PROVE  Settled' = Settled /\ Waits'
<1>1. Waiters' = Waiters
  BY DEF Waiters, Busy
<1>2. \A i \in DOMAIN Waiters : Waiters[i].webhook \in Webhooks
  <2>1. \A i \in DOMAIN Waiters : Waiters[i] \in Jobs
    BY WaitersType
  <2>2. QED
    BY <2>1 DEF Jobs
<1>3. QED
  BY <1>1, <1>2 DEF Waits, Settled

LEMMA WaitsStep ==
  ASSUME Sound, Waits, [Next]_vars
  PROVE  Waits'
<1>1. ASSUME NEW w \in Webhooks, Advances(w) \/ Answered(w) \/ Enqueues(w) \/ TimePasses(w)
      PROVE  Waits'
  <2>1. CASE Answered(w)
    BY <2>1, AnsweredFacts
  <2>2. CASE Enqueues(w) \/ TimePasses(w)
    <3>1. UNCHANGED writer /\ tick' = tick
      BY <2>2 DEF Enqueues, TimePasses
    <3>2. stage \in [Webhooks -> Stages]
      BY SoundParts
    <3>3. \A v \in Webhooks : stage[v] = "recording" => stage'[v] = "recording"
      BY <2>2, <3>2 DEF Enqueues, TimePasses
    <3>4. QED
      BY <3>1, <3>3, OthersWait
  <2>3. CASE Advances(w)
    BY <2>3, AdvancesFacts, OthersWait
  <2>4. QED
    BY <1>1, <2>1, <2>2, <2>3
<1>2. CASE RequestEnds
  <2> DEFINE e == Head(tick.rest)
  <2>1. /\ tick.phase = "posting" /\ tick.rest # <<>> /\ UNCHANGED stage
        /\ Settles(e) \/ (~LastAttempt(e) /\ PutsOff(e))
    BY <1>2 DEF RequestEnds, limits, Sound, Shaped
  <2> HIDE DEF e
  <2>2. CASE Settles(e)
    BY <2>1, <2>2, SettlesWaits DEF e
  <2>3. CASE ~LastAttempt(e) /\ PutsOff(e)
    <3>1. UNCHANGED writer /\ tick'.phase = "working"
      BY <2>1, <2>3, PutsOffFacts DEF e
    <3>2. QED
      BY <2>1, <3>1, OthersWait
  <2>4. QED
    BY <2>1, <2>2, <2>3
<1>3. CASE TickBegins
  BY <1>3, TickBeginsFacts, OthersWait
<1>4. CASE TickSkips
  BY <1>4, TickSkipsFacts, OthersWait
<1>5. CASE TickRequests
  BY <1>5, TickRequestsFacts, OthersWait
<1>6. CASE RewriteOpens
  BY <1>6, RewriteOpensFacts, OthersWait
<1>7. CASE RewriteFills
  BY <1>7, RewriteFillsFacts, OthersWait
<1>8. ASSUME NEW a \in Automations, ImportOverwrites(a)
      PROVE  Waits'
  BY <1>8, ImportFacts, OthersWait
<1>9. CASE Crash
  <2>1. Waiters' = <<>> /\ tick'.phase = "idle"
    BY <1>9, CrashFacts
  <2>2. QED
    BY <2>1 DEF Waits, Single, TickIn
<1>10. CASE UNCHANGED vars
  BY <1>10, OthersWait DEF vars, limits, queue
<1>11. CASE RewriteFails
  BY <1>11, RewriteFailsFacts, OthersWait
<1>12. CASE RewriteStops
  BY <1>12, RewriteStopsFacts, OthersWait
<1>13. QED
  BY <1>1, <1>2, <1>3, <1>4, <1>5, <1>6, <1>7, <1>8, <1>9, <1>10, <1>11, <1>12,
     RecordsGo, GoesCases, Steps DEF Ticks

LEMMA WaitsInit ==
  ASSUME Init
  PROVE  Waits /\ Settled = {}
<1>1. Waiters = <<>>
  <2>1. writer.phase = "idle" /\ writer.jobs = <<>>
    BY DEF Init, NoWriter
  <2>2. Waiters = <<>> \o <<>> /\ <<>> \in Seq(Jobs)
    BY <2>1 DEF Waiters, Busy
  <2>3. QED
    BY <2>2, ConcatEmptySeq
<1>2. tick.phase = "idle"
  BY DEF Init, NoTick
<1>3. QED
  BY <1>1, <1>2 DEF Waits, Settled, Single, TickIn, SettledIn

-----------------------------------------------------------------------------
(* Sequences of queue entries. *)

Distinct(s) == \A i, j \in DOMAIN s : s[i].webhook = s[j].webhook => i = j

LEMMA QueuedElements ==
  ASSUME NEW s \in Seq(Entries)
  PROVE  /\ ToSet(s) \subseteq Entries
         /\ \A e \in ToSet(s) : e.webhook \in Queued(s)
         /\ \A w \in Queued(s) : w \in Webhooks /\ \E e \in ToSet(s) : e.webhook = w
         /\ Distinct(s) => \A e, f \in ToSet(s) : e.webhook = f.webhook => e = f
<1>1. \A i \in DOMAIN s : s[i] \in Entries
  OBVIOUS
<1>2. \A e \in Entries : e.webhook \in Webhooks
  BY EntryParts
<1>3. QED
  BY <1>1, <1>2 DEF ToSet, Queued, Distinct

LEMMA QueuedEmpty == Queued(<<>>) = {} /\ ToSet(<<>>) = {} /\ Distinct(<<>>)
BY DEF Queued, ToSet, Distinct

LEMMA QueuedTail ==
  ASSUME NEW s \in Seq(Entries), s # <<>>
  PROVE  /\ Head(s) \in Entries /\ Tail(s) \in Seq(Entries)
         /\ Head(s).webhook \in Webhooks /\ Head(s) \in ToSet(s)
         /\ Queued(s) = {Head(s).webhook} \cup Queued(Tail(s))
         /\ ToSet(Tail(s)) \subseteq ToSet(s)
         /\ Distinct(s) => Distinct(Tail(s)) /\ Head(s).webhook \notin Queued(Tail(s))
<1> DEFINE t == Tail(s)
           h == Head(s)
<1>1. /\ h \in Entries /\ h = s[1] /\ t \in Seq(Entries) /\ Len(s) \in Nat \ {0}
      /\ DOMAIN s = 1 .. Len(s) /\ DOMAIN t = 1 .. Len(s) - 1
      /\ \A i \in DOMAIN t : i + 1 \in DOMAIN s /\ t[i] = s[i + 1]
      /\ ToSet(s) = {h} \cup ToSet(t)
  BY TailElements
<1> HIDE DEF t, h
<1>2. \A i \in DOMAIN s : i = 1 \/ (i - 1 \in DOMAIN t /\ t[i - 1] = s[i])
  BY <1>1
<1>3. 1 \in DOMAIN s /\ \A i \in DOMAIN t : i \in Nat /\ i + 1 # 1
  BY <1>1
<1>4. ASSUME NEW w
      PROVE  w \in Queued(s) <=> w = h.webhook \/ w \in Queued(t)
  <2>1. ASSUME NEW i \in DOMAIN s, w = s[i].webhook, w # h.webhook
        PROVE  w \in Queued(t)
    <3>1. i - 1 \in DOMAIN t /\ t[i - 1] = s[i]
      BY <1>1, <1>2, <2>1
    <3>2. QED
      BY <2>1, <3>1 DEF Queued
  <2>2. ASSUME NEW i \in DOMAIN t, w = t[i].webhook
        PROVE  w \in Queued(s)
    BY <1>1, <2>2 DEF Queued
  <2>3. h.webhook \in Queued(s)
    BY <1>1, <1>3 DEF Queued
  <2>4. QED
    BY <2>1, <2>2, <2>3 DEF Queued
<1>5. Queued(s) = {h.webhook} \cup Queued(t)
  BY <1>4
<1>6. ASSUME Distinct(s)
      PROVE  Distinct(t) /\ h.webhook \notin Queued(t)
  <2>1. \A i, j \in DOMAIN t : t[i].webhook = t[j].webhook => i + 1 = j + 1
    BY <1>1, <1>6 DEF Distinct
  <2>2. Distinct(t)
    BY <1>3, <2>1 DEF Distinct
  <2>3. \A i \in DOMAIN t : t[i].webhook # h.webhook
    BY <1>1, <1>3, <1>6 DEF Distinct
  <2>4. QED
    BY <2>2, <2>3 DEF Queued
<1>7. h.webhook \in Webhooks
  BY <1>1, EntryParts
<1>8. QED
  BY <1>1, <1>5, <1>6, <1>7 DEF t, h

LEMMA QueuedAppend ==
  ASSUME NEW s \in Seq(Entries), NEW e \in Entries
  PROVE  /\ Append(s, e) \in Seq(Entries)
         /\ Queued(Append(s, e)) = Queued(s) \cup {e.webhook}
         /\ ToSet(Append(s, e)) = ToSet(s) \cup {e}
         /\ Distinct(s) /\ e.webhook \notin Queued(s) => Distinct(Append(s, e))
<1> DEFINE a == Append(s, e)
           n == Len(s) + 1
<1>1. /\ a \in Seq(Entries) /\ Len(s) \in Nat /\ DOMAIN s = 1 .. Len(s) /\ DOMAIN a = 1 .. n
      /\ \A i \in DOMAIN s : a[i] = s[i]
      /\ a[n] = e /\ ToSet(a) = ToSet(s) \cup {e}
  BY AppendElements
<1>2. n \in DOMAIN a /\ \A i \in DOMAIN a : i \in DOMAIN s \/ i = n
  BY <1>1
<1>3. DOMAIN s \subseteq DOMAIN a
  BY <1>1
<1> HIDE DEF a, n
<1>4. ASSUME NEW w
      PROVE  w \in Queued(a) <=> w \in Queued(s) \/ w = e.webhook
  BY <1>1, <1>2, <1>3 DEF Queued
<1>5. Queued(a) = Queued(s) \cup {e.webhook}
  BY <1>4
<1>6. ASSUME Distinct(s), e.webhook \notin Queued(s)
      PROVE  Distinct(a)
  <2>1. \A i \in DOMAIN s : s[i].webhook # e.webhook
    BY <1>6 DEF Queued
  <2>2. QED
    BY <1>1, <1>2, <1>6, <2>1 DEF Distinct
<1>7. QED
  BY <1>1, <1>5, <1>6 DEF a

LEMMA QueuedOver ==
  ASSUME NEW s \in Seq(Entries), NEW t \in Seq(Entries), NEW k \in 0 .. Len(t)
  PROVE  LET c == s \o SubSeq(t, k + 1, Len(t))
         IN  /\ Queued(s) \subseteq Queued(c)
             /\ ToSet(c) \subseteq ToSet(s) \cup ToSet(t)
             /\ Distinct(s) /\ Distinct(t) /\ Queued(s) \cap Queued(t) = {} => Distinct(c)
<1> DEFINE u == SubSeq(t, k + 1, Len(t))
           c == s \o u
<1>1. /\ u \in Seq(Entries)
      /\ \A i \in DOMAIN u : k + i \in DOMAIN t /\ u[i] = t[k + i]
      /\ ToSet(u) \subseteq ToSet(t) /\ DOMAIN u = 1 .. Len(t) - k
  BY SubSeqElements
<1>2. k \in Nat /\ Len(t) \in Nat
  BY LenProperties
<1> HIDE DEF u
<1>3. /\ Len(s) \in Nat /\ DOMAIN s = 1 .. Len(s) /\ Len(u) \in Nat
      /\ DOMAIN c = 1 .. Len(s) + Len(u)
      /\ \A i \in DOMAIN s : c[i] = s[i]
      /\ \A i \in DOMAIN c :
           \/ i \in DOMAIN s /\ c[i] = s[i]
           \/ i - Len(s) \in DOMAIN u /\ c[i] = u[i - Len(s)]
      /\ ToSet(c) = ToSet(s) \cup ToSet(u)
  BY <1>1, ConcatElements
<1> HIDE DEF c
<1>4. DOMAIN s \subseteq DOMAIN c
  BY <1>3
<1>5. Queued(s) \subseteq Queued(c)
  BY <1>3, <1>4 DEF Queued
<1>6. ASSUME Distinct(s), Distinct(t), Queued(s) \cap Queued(t) = {}
      PROVE  Distinct(c)
  <2> DEFINE at(i) == k + (i - Len(s))
  <2>1. \A i \in DOMAIN c : i \in DOMAIN s \/ (at(i) \in DOMAIN t /\ c[i] = t[at(i)])
    BY <1>1, <1>3
  <2>2. \A i \in DOMAIN c : i \in Int
    BY <1>3
  <2>3. \A i \in DOMAIN s, j \in DOMAIN t : s[i].webhook # t[j].webhook
    BY <1>6 DEF Queued
  <2>4. ASSUME NEW i \in DOMAIN c, NEW j \in DOMAIN c, at(i) = at(j)
        PROVE  i = j
    BY <1>2, <1>3, <2>2, <2>4
  <2> HIDE DEF at
  <2>5. SUFFICES ASSUME NEW i \in DOMAIN c, NEW j \in DOMAIN c, c[i].webhook = c[j].webhook
                 PROVE  i = j
    BY DEF Distinct
  <2>6. CASE i \in DOMAIN s /\ j \in DOMAIN s
    BY <1>3, <1>6, <2>5, <2>6 DEF Distinct
  <2>7. CASE i \in DOMAIN s /\ j \notin DOMAIN s
    BY <1>3, <2>1, <2>3, <2>5, <2>7
  <2>8. CASE i \notin DOMAIN s /\ j \in DOMAIN s
    BY <1>3, <2>1, <2>3, <2>5, <2>8
  <2>9. CASE i \notin DOMAIN s /\ j \notin DOMAIN s
    <3>1. /\ at(i) \in DOMAIN t /\ c[i] = t[at(i)]
          /\ at(j) \in DOMAIN t /\ c[j] = t[at(j)]
      BY <2>1, <2>9
    <3>2. t[at(i)].webhook = t[at(j)].webhook
      BY <2>5, <3>1
    <3>3. at(i) = at(j)
      BY <1>6, <3>1, <3>2 DEF Distinct
    <3>4. QED
      BY <2>4, <3>3
  <2>10. QED
    BY <2>6, <2>7, <2>8, <2>9
<1>7. QED
  BY <1>1, <1>3, <1>5, <1>6 DEF c, u

(* The first entries, before what was appended to the file. *)
LEMMA StoppedOver ==
  ASSUME NEW s \in Seq(Entries), NEW n \in 0 .. Len(s) - 1,
         NEW t \in Seq(Entries), NEW k \in 0 .. Len(t)
  PROVE  LET c == SubSeq(s, 1, n) \o SubSeq(t, k + 1, Len(t))
         IN  /\ ToSet(c) \subseteq ToSet(s) \cup ToSet(t)
             /\ Distinct(s) /\ Distinct(t) /\ Queued(s) \cap Queued(t) = {} => Distinct(c)
<1> DEFINE p == SubSeq(s, 1, n)
           c == p \o SubSeq(t, k + 1, Len(t))
<1>1. n \in 0 .. Len(s)
  BY LenProperties
<1>2. /\ p \in Seq(Entries) /\ ToSet(p) \subseteq ToSet(s)
      /\ \A i \in DOMAIN p : i \in DOMAIN s /\ p[i] = s[i]
  BY <1>1, FirstOnes
<1> HIDE DEF p
<1>3. Queued(p) \subseteq Queued(s) /\ (Distinct(s) => Distinct(p))
  BY <1>2 DEF Queued, Distinct
<1>4. /\ ToSet(c) \subseteq ToSet(p) \cup ToSet(t)
      /\ Distinct(p) /\ Distinct(t) /\ Queued(p) \cap Queued(t) = {} => Distinct(c)
  BY <1>2, QueuedOver
<1> HIDE DEF c
<1>5. /\ ToSet(c) \subseteq ToSet(s) \cup ToSet(t)
      /\ Distinct(s) /\ Distinct(t) /\ Queued(s) \cap Queued(t) = {} => Distinct(c)
  BY <1>2, <1>3, <1>4
<1>6. QED
  BY <1>5 DEF c, p

LEMMA QueuedFiltered ==
  ASSUME NEW s \in Seq(Entries), NEW a \in Automations
  PROVE  /\ Queued(Filtered(s, a)) \subseteq Queued(s)
         /\ Distinct(s) => Distinct(Filtered(s, a))
<1> DEFINE K == {i \in DOMAIN s : Of[s[i].webhook] # a}
           p == Picked(s, K)
           f == Ascending(K)
           n == Cardinality(K)
<1>1. K \in SUBSET (DOMAIN s) /\ Filtered(s, a) = p
  BY DEF Filtered
<1> HIDE DEF K
<1>2. /\ n \in Nat /\ DOMAIN p = 1 .. n /\ f \in [1 .. n -> K]
      /\ \A k \in 1 .. n : p[k] = s[f[k]]
      /\ \A k, l \in 1 .. n : k < l => f[k] < f[l]
  BY <1>1, PickedFacts
<1>3. \A k \in 1 .. n : f[k] \in DOMAIN s /\ f[k] \in Nat
  <2>1. DOMAIN s = 1 .. Len(s) /\ Len(s) \in Nat
    BY LenProperties
  <2> HIDE DEF p, f, n
  <2>2. QED
    BY <1>1, <1>2, <2>1
<1> HIDE DEF p, f, n
<1>4. Queued(p) \subseteq Queued(s)
  BY <1>2, <1>3 DEF Queued
<1>5. ASSUME Distinct(s), NEW k \in DOMAIN p, NEW l \in DOMAIN p, p[k].webhook = p[l].webhook
      PROVE  k = l
  <2>1. f[k] = f[l]
    BY <1>2, <1>3, <1>5 DEF Distinct
  <2>2. ~(k < l) /\ ~(l < k)
    BY <1>2, <1>3, <2>1
  <2>3. QED
    BY <1>2, <2>2
<1>6. QED
  BY <1>1, <1>4, <1>5 DEF Distinct

-----------------------------------------------------------------------------
(* A webhook that is queued has one entry in the file, and one among those  *)
(* the tick holds; while the tick works, both count the same attempts.      *)

Lines ==
  /\ Distinct(file) /\ Distinct(tick.rest) /\ Distinct(tick.remaining)
  /\ \A w \in Queued(tick.rest) : w \notin Queued(tick.remaining)
  /\ tick.phase = "rewriting" => \A w \in Queued(file) : w \notin Queued(tick.remaining)
  /\ InTick => \A e \in ToSet(file), f \in ToSet(tick.rest) :
                  e.webhook = f.webhook => e.attempt = f.attempt
  /\ \A w \in Queued(file) \cup Queued(tick.rest) \cup Queued(tick.remaining) : stage[w] = "queued"

StaysQueued == \A w \in Webhooks : stage[w] = "queued" => stage'[w] = "queued"

LEMMA QueuedWebhooks ==
  ASSUME Sound
  PROVE  /\ Queued(file) \subseteq Webhooks /\ Queued(tick.rest) \subseteq Webhooks
         /\ Queued(tick.remaining) \subseteq Webhooks
BY SoundParts, QueuedElements

LEMMA LinesSame ==
  ASSUME Sound, Lines, StaysQueued, file' = file,
         tick'.rest = tick.rest, tick'.remaining = tick.remaining,
         InTick' => InTick, tick'.phase = "rewriting" => tick.phase = "rewriting"
  PROVE  Lines'
BY QueuedWebhooks DEF Lines, StaysQueued

LEMMA TicksLines ==
  ASSUME Sound, Lines, Ticks \/ RewriteFails \/ RewriteStops
  PROVE  Lines'
<1> DEFINE r == tick.rest
           m == tick.remaining
<1>1. r \in Seq(Entries) /\ m \in Seq(Entries) /\ file \in Seq(Entries)
  BY SoundParts
<1>2. /\ Distinct(file) /\ Distinct(r) /\ Distinct(m)
      /\ \A w \in Queued(r) : w \notin Queued(m)
      /\ tick.phase = "rewriting" => \A w \in Queued(file) : w \notin Queued(m)
      /\ InTick => \A e \in ToSet(file), f \in ToSet(r) : e.webhook = f.webhook => e.attempt = f.attempt
      /\ \A w \in Queued(file) \cup Queued(r) \cup Queued(m) : stage[w] = "queued"
  BY DEF Lines
<1>3. Lines' <=>
      /\ Distinct(file') /\ Distinct(tick'.rest) /\ Distinct(tick'.remaining)
      /\ \A w \in Queued(tick'.rest) : w \notin Queued(tick'.remaining)
      /\ tick'.phase = "rewriting" => \A w \in Queued(file') : w \notin Queued(tick'.remaining)
      /\ InTick' => \A e \in ToSet(file'), f \in ToSet(tick'.rest) :
                      e.webhook = f.webhook => e.attempt = f.attempt
      /\ \A w \in Queued(file') \cup Queued(tick'.rest) \cup Queued(tick'.remaining) : stage'[w] = "queued"
  BY DEF Lines
<1>4. InTick' <=> tick'.phase \in {"working", "posting", "recording"}
  BY DEF InTick
<1>5. r # <<>> =>
        /\ Head(r) \in Entries /\ Head(r).webhook \notin Queued(m)
        /\ Queued(r) = {Head(r).webhook} \cup Queued(Tail(r))
        /\ ToSet(Tail(r)) \subseteq ToSet(r)
        /\ Distinct(Tail(r)) /\ Head(r).webhook \notin Queued(Tail(r))
  BY <1>1, <1>2, QueuedTail
<1> HIDE DEF r, m
<1>6. ASSUME r # <<>>, tick'.rest = Tail(r), file' = file, stage' = stage, InTick, InTick',
             \/ tick'.remaining = m
             \/ \E f \in Entries : f.webhook = Head(r).webhook /\ tick'.remaining = Append(m, f)
      PROVE  Lines'
  <2>1. tick'.phase # "rewriting"
    BY <1>4, <1>6
  <2>2. \A e \in ToSet(file), f \in ToSet(Tail(r)) : e.webhook = f.webhook => e.attempt = f.attempt
    BY <1>2, <1>5, <1>6
  <2>3. CASE tick'.remaining = m
    BY <1>2, <1>3, <1>5, <1>6, <2>1, <2>2, <2>3
  <2>4. CASE \E f \in Entries : f.webhook = Head(r).webhook /\ tick'.remaining = Append(m, f)
    <3>1. PICK f \in Entries : f.webhook = Head(r).webhook /\ tick'.remaining = Append(m, f)
      BY <2>4
    <3>2. /\ Queued(tick'.remaining) = Queued(m) \cup {Head(r).webhook}
          /\ Distinct(tick'.remaining)
      BY <1>1, <1>2, <1>5, <1>6, <3>1, QueuedAppend
    <3>3. QED
      BY <1>2, <1>3, <1>5, <1>6, <2>1, <2>2, <3>2
  <2>5. QED
    BY <1>6, <2>3, <2>4
<1>7. CASE TickBegins
  <2>1. /\ tick'.rest = file /\ tick'.remaining = <<>> /\ UNCHANGED <<stage, file>>
        /\ tick'.phase = "working"
    BY <1>7, TickBeginsFacts
  <2>2. \A e, f \in ToSet(file) : e.webhook = f.webhook => e = f
    BY <1>1, <1>2, QueuedElements
  <2>3. QED
    BY <1>2, <1>3, <2>1, <2>2, QueuedEmpty
<1>8. CASE TickSkips
  BY <1>5, <1>6, <1>8, TickSkipsFacts DEF InTick, r, m
<1>9. CASE TickRequests
  BY <1>9, TickRequestsFacts, LinesSame DEF InTick, StaysQueued
<1>10. CASE RequestEnds
  <2> DEFINE e == Head(tick.rest)
  <2>1. /\ tick.phase = "posting" /\ tick.rest # <<>> /\ UNCHANGED <<stage, file>>
        /\ Settles(e) \/ (~LastAttempt(e) /\ PutsOff(e))
    BY <1>10 DEF RequestEnds, limits, Sound, Shaped
  <2> HIDE DEF e
  <2>2. CASE Settles(e)
    BY <1>6, <2>1, <2>2, SettlesFacts DEF InTick, r, m, e
  <2>3. CASE ~LastAttempt(e) /\ PutsOff(e)
    BY <1>6, <2>1, <2>3, PutsOffFacts DEF InTick, r, m, e
  <2>4. QED
    BY <2>1, <2>2, <2>3
<1>11. CASE RewriteOpens
  <2>1. /\ r = <<>> /\ tick'.rest = <<>> /\ tick'.remaining = m /\ file' = <<>>
        /\ tick'.phase = "rewriting" /\ stage' = stage
    BY <1>11, RewriteOpensFacts DEF r, m
  <2>2. QED
    BY <1>2, <1>3, <1>4, <2>1, QueuedEmpty
<1>12. CASE RewriteFills \/ RewriteStops
  <2>1. /\ tick.phase = "rewriting" /\ tick'.phase = "idle"
        /\ tick'.rest = <<>> /\ tick'.remaining = <<>> /\ stage' = stage
        /\ file' \in Seq(Entries)
    BY <1>12, RewriteFillsFacts, RewriteStopsFacts
  <2>2. ToSet(file') \subseteq ToSet(m) \cup ToSet(file) /\ Distinct(file')
    <3>1. Queued(m) \cap Queued(file) = {}
      BY <1>2, <2>1
    <3>2. CASE RewriteFills
      <4>1. CASE file' = file
        BY <1>2, <4>1
      <4>2. ASSUME NEW k \in 0 .. Len(file), file' = m \o SubSeq(file, k + 1, Len(file))
            PROVE  ToSet(file') \subseteq ToSet(m) \cup ToSet(file) /\ Distinct(file')
        BY <1>1, <1>2, <3>1, <4>2, QueuedOver
      <4>3. QED
        BY <3>2, <4>1, <4>2, RewriteFillsFacts DEF m
    <3>3. CASE RewriteStops
      <4>1. PICK n \in 0 .. Len(m) - 1, k \in 0 .. Len(file) :
              file' = SubSeq(m, 1, n) \o SubSeq(file, k + 1, Len(file))
        BY <3>3, RewriteStopsFacts DEF m
      <4>2. QED
        BY <1>1, <1>2, <3>1, <4>1, StoppedOver
    <3>4. QED
      BY <1>12, <3>2, <3>3
  <2>3. \A w \in Queued(file') : stage[w] = "queued"
    <3>1. TAKE w \in Queued(file')
    <3>2. PICK e \in ToSet(file') : e.webhook = w
      BY <2>1, QueuedElements
    <3>3. e \in ToSet(m) \/ e \in ToSet(file)
      BY <2>2, <3>2
    <3>4. w \in Queued(m) \cup Queued(file)
      BY <1>1, <3>2, <3>3, QueuedElements
    <3>5. QED
      BY <1>2, <3>4
  <2>4. QED
    BY <1>3, <1>4, <2>1, <2>2, <2>3, QueuedEmpty
<1>13. CASE RewriteFails
  <2>1. /\ tick'.phase = "idle" /\ tick'.rest = <<>> /\ tick'.remaining = <<>>
        /\ UNCHANGED <<stage, file>>
    BY <1>13, RewriteFailsFacts
  <2>2. QED
    BY <1>2, <1>3, <1>4, <2>1, QueuedEmpty
<1>14. QED
  BY <1>7, <1>8, <1>9, <1>10, <1>11, <1>12, <1>13 DEF Ticks

LEMMA LinesStep ==
  ASSUME Sound, Waits, Lines, [Next]_vars
  PROVE  Lines'
<1>1. stage \in [Webhooks -> Stages]
  BY SoundParts
<1>2. CASE Recordings
  <2>1. CASE Settled' = Settled /\ UNCHANGED queue
    BY <2>1, LinesSame DEF queue, StaysQueued, InTick
  <2>2. ASSUME NEW w \in Webhooks, TickGoesOn(w)
        PROVE  Lines'
    BY <2>2, LinesSame DEF TickGoesOn, StaysQueued, InTick
  <2>3. ASSUME NEW w \in Webhooks, NEW then \in {"done", "queuing"}, HandlerGoesOn(w, then)
        PROVE  Lines'
    <3>1. StaysQueued
      BY <1>1, <2>3 DEF HandlerGoesOn, StaysQueued
    <3>2. QED
      BY <2>3, <3>1, LinesSame DEF HandlerGoesOn, InTick
  <2>4. QED
    BY <1>2, <2>1, <2>2, <2>3, RecordsGo, GoesCases
<1>3. ASSUME NEW w \in Webhooks, Advances(w) \/ Answered(w)
      PROVE  Lines'
  <2>1. StaysQueued /\ UNCHANGED <<file, tick>>
    BY <1>1, <1>3, AdvancesFacts DEF Answered, StaysQueued
  <2>2. QED
    BY <2>1, LinesSame DEF InTick
<1>4. ASSUME NEW w \in Webhooks, Enqueues(w)
      PROVE  Lines'
  <2> DEFINE e == [webhook |-> w, attempt |-> 0, due |-> FALSE]
  <2>1. /\ stage[w] = "queuing" /\ stage' = [stage EXCEPT ![w] = "queued"]
        /\ file' = Append(file, e) /\ tick' = tick
    BY <1>4 DEF Enqueues, limits
  <2>2. e \in Entries /\ e.webhook = w
    BY WebhookRetriesAssumption DEF Entries
  <2> HIDE DEF e
  <2>3. file \in Seq(Entries)
    BY SoundParts
  <2>4. w \notin Queued(file) /\ w \notin Queued(tick.rest) /\ w \notin Queued(tick.remaining)
    BY <2>1 DEF Lines
  <2>5. /\ Queued(file') = Queued(file) \cup {w} /\ ToSet(file') = ToSet(file) \cup {e}
        /\ Distinct(file')
    BY <2>1, <2>2, <2>3, <2>4, QueuedAppend DEF Lines
  <2>6. \A f \in ToSet(tick.rest) : f.webhook # w
    BY <2>4, SoundParts, QueuedElements
  <2>7. StaysQueued /\ stage'[w] = "queued"
    BY <1>1, <2>1 DEF StaysQueued
  <2>8. QED
    BY <2>1, <2>2, <2>4, <2>5, <2>6, <2>7, QueuedWebhooks DEF Lines, InTick, StaysQueued
<1>5. ASSUME NEW w \in Webhooks, TimePasses(w)
      PROVE  Lines'
  <2>1. /\ tick.phase = "idle" /\ DOMAIN file' = DOMAIN file /\ UNCHANGED <<stage, tick>>
        /\ \A i \in DOMAIN file : file'[i].webhook = file[i].webhook
    BY <1>5, TimePassesFacts
  <2>2. Queued(file') = Queued(file)
    BY <2>1 DEF Queued
  <2>3. Distinct(file')
    BY <2>1 DEF Lines, Distinct
  <2>4. QED
    BY <2>1, <2>2, <2>3 DEF Lines, InTick
<1>6. ASSUME NEW a \in Automations, ImportOverwrites(a)
      PROVE  Lines'
  <2>1. file' = Filtered(file, a) /\ UNCHANGED <<stage, tick>> /\ file \in Seq(Entries)
    BY <1>6, ImportFacts, SoundParts
  <2>2. /\ ToSet(file') \subseteq ToSet(file) /\ Queued(file') \subseteq Queued(file)
        /\ Distinct(file')
    BY <2>1, FilteredFacts, QueuedFiltered DEF Lines
  <2>3. QED
    BY <2>1, <2>2 DEF Lines, InTick
<1>7. CASE Crash
  <2>1. /\ tick'.phase = "idle" /\ tick'.rest = <<>> /\ tick'.remaining = <<>> /\ file' = file
        /\ StaysQueued
    BY <1>7, CrashFacts DEF StaysQueued
  <2>2. QED
    BY <2>1, QueuedEmpty, QueuedWebhooks DEF Lines, InTick, StaysQueued
<1>8. CASE UNCHANGED vars
  BY <1>8, LinesSame DEF vars, limits, queue, StaysQueued, InTick
<1>9. QED
  BY <1>2, <1>3, <1>4, <1>5, <1>6, <1>7, <1>8, TicksLines, Steps

-----------------------------------------------------------------------------
(* How often a webhook was requested, by the attempts its entries count.     *)
(* An entry of the file that a tick works on may be one request behind;     *)
(* each crash, and each rewriting that fails, can make this last.           *)

Within(e, more, times) ==
  tally[e.webhook].posts <= e.attempt + more /\ tally[e.webhook].done <= times

Slack == IF InTick THEN Repeats + 1 ELSE Repeats

AskedNow(e) == tick.phase = "posting" /\ e.webhook = Head(tick.rest).webhook

Counts ==
  /\ \A w \in Webhooks : stage[w] # "queued" => tally[w].posts = 0 /\ tally[w].done = 0
  /\ RetriesBounded
  /\ \A e \in ToSet(file) : Within(e, Slack, Slack)
  /\ \A e \in ToSet(tick.remaining) : Within(e, Repeats, Repeats)
  /\ \A e \in ToSet(tick.rest) : Within(e, IF AskedNow(e) THEN Repeats + 1 ELSE Repeats, Repeats)

LEMMA TallyNat ==
  ASSUME Sound
  PROVE  /\ \A w \in Webhooks : tally[w].posts \in Nat /\ tally[w].done \in Nat
         /\ Repeats \in Nat /\ MaxAttempts \in Nat
         /\ \A e \in Entries : /\ e.webhook \in Webhooks
                               /\ e.attempt \in Nat /\ e.attempt <= MaxAttempts - 1
         /\ ToSet(file) \subseteq Entries /\ ToSet(tick.rest) \subseteq Entries
         /\ ToSet(tick.remaining) \subseteq Entries
<1>1. \A w \in Webhooks : tally[w].posts \in Nat /\ tally[w].done \in Nat
  BY SoundParts
<1>2. \A e \in Entries : e.webhook \in Webhooks /\ e.attempt \in Nat /\ e.attempt <= MaxAttempts - 1
  BY EntryParts
<1>3. Repeats \in Nat
  BY SoundParts DEF Repeats
<1>4. QED
  BY <1>1, <1>2, <1>3, SoundParts, QueuedElements, WebhookRetriesAssumption

(* Steps that request nothing and take nothing away from the tick. *)
LEMMA CountsSame ==
  ASSUME Sound, Counts, Repeats' = Repeats,
         \A w \in Webhooks : tally'[w].posts = tally[w].posts /\ tally'[w].done = tally[w].done,
         \A w \in Webhooks : stage'[w] # "queued" => stage[w] # "queued",
         InTick => InTick',
         ToSet(file') \subseteq ToSet(file), ToSet(tick'.remaining) \subseteq ToSet(tick.remaining),
         ToSet(tick'.rest) \subseteq ToSet(tick.rest),
         tick.phase # "posting"
  PROVE  Counts'
<1>1. \A e \in ToSet(file) \cup ToSet(tick.rest) \cup ToSet(tick.remaining) :
         /\ e.webhook \in Webhooks /\ e.attempt \in Nat
         /\ tally[e.webhook].posts \in Nat /\ tally[e.webhook].done \in Nat
  BY TallyNat
<1>2. Repeats \in Nat
  BY TallyNat
<1>3. \A e \in ToSet(tick.rest) : Within(e, Repeats, Repeats)
  BY DEF Counts, AskedNow
<1>4. \A w \in Webhooks : stage'[w] # "queued" => tally'[w].posts = 0 /\ tally'[w].done = 0
  BY DEF Counts
<1>5. RetriesBounded'
  BY DEF Counts, RetriesBounded
<1>6. \A e \in ToSet(file') : Within(e, Slack, Slack)'
  <2>1. TAKE e \in ToSet(file')
  <2>2. /\ tally'[e.webhook].posts = tally[e.webhook].posts
        /\ tally'[e.webhook].done = tally[e.webhook].done
        /\ Within(e, Slack, Slack)
    BY <1>1 DEF Counts
  <2>3. Slack \in Nat /\ Slack' \in Nat /\ Slack <= Slack'
    BY <1>2 DEF Slack
  <2>4. QED
    BY <1>1, <2>2, <2>3 DEF Within
<1>7. \A e \in ToSet(tick'.remaining) : Within(e, Repeats, Repeats)'
  BY <1>1 DEF Counts, Within
<1>8. \A e \in ToSet(tick'.rest) : Within(e, IF AskedNow(e) THEN Repeats + 1 ELSE Repeats, Repeats)'
  <2>1. TAKE e \in ToSet(tick'.rest)
  <2>2. /\ tally'[e.webhook].posts = tally[e.webhook].posts
        /\ tally'[e.webhook].done = tally[e.webhook].done
        /\ Within(e, Repeats, Repeats)
    BY <1>1, <1>3
  <2>3. QED
    BY <1>1, <1>2, <2>2 DEF Within
<1>9. QED
  BY <1>4, <1>5, <1>6, <1>7, <1>8 DEF Counts

LEMMA RequestCounts ==
  ASSUME Sound, Lines, Counts, TickRequests
  PROVE  Counts'
<1> DEFINE r == tick.rest
           h == Head(r)
<1>1. /\ tick.phase = "working" /\ r # <<>> /\ tick'.phase = "posting"
      /\ tick'.rest = r /\ tick'.remaining = tick.remaining
      /\ \A w \in Webhooks :
           /\ w # h.webhook => tally'[w].posts = tally[w].posts
           /\ tally'[w].posts <= tally[w].posts + 1 /\ tally'[w].posts \in Nat
           /\ tally'[w].done = tally[w].done
      /\ UNCHANGED <<stage, file, Repeats>>
  BY TickRequestsFacts DEF Repeats
<1>2. r \in Seq(Entries) /\ file \in Seq(Entries) /\ tick.remaining \in Seq(Entries)
  BY SoundParts
<1>3. h \in Entries /\ h \in ToSet(r) /\ h.webhook \in Webhooks /\ h.webhook \in Queued(r)
  BY <1>1, <1>2, QueuedTail
<1>4. /\ \A w \in Webhooks : tally[w].posts \in Nat /\ tally[w].done \in Nat
      /\ Repeats \in Nat /\ MaxAttempts \in Nat
      /\ \A e \in Entries : e.webhook \in Webhooks /\ e.attempt \in Nat /\ e.attempt <= MaxAttempts - 1
      /\ ToSet(file) \subseteq Entries /\ ToSet(r) \subseteq Entries
      /\ ToSet(tick.remaining) \subseteq Entries
  BY TallyNat
<1>5. \A e \in ToSet(r) : Within(e, Repeats, Repeats)
  BY <1>1 DEF Counts, AskedNow
<1>6. tally[h.webhook].posts <= h.attempt + Repeats
  BY <1>3, <1>5 DEF Within
<1>7. AskedNow(h)' /\ \A e \in ToSet(r) : ~AskedNow(e)' => e.webhook # h.webhook
  BY <1>1 DEF AskedNow
<1>8. InTick /\ InTick' /\ Slack = Repeats + 1 /\ Slack' = Repeats + 1
  BY <1>1 DEF InTick, Slack
<1>9. \A w \in Webhooks : stage'[w] # "queued" => tally'[w].posts = 0 /\ tally'[w].done = 0
  <2>1. stage[h.webhook] = "queued"
    BY <1>3 DEF Lines
  <2>2. QED
    BY <1>1, <2>1 DEF Counts
<1>10. RetriesBounded'
  <2>1. SUFFICES ASSUME NEW w \in Webhooks
                 PROVE  tally'[w].posts <= MaxAttempts + Repeats /\ tally'[w].done <= 1 + Repeats
    BY <1>1 DEF RetriesBounded
  <2>2. tally[w].posts <= MaxAttempts + Repeats /\ tally[w].done <= 1 + Repeats
    BY DEF Counts, RetriesBounded
  <2>3. CASE w # h.webhook
    BY <1>1, <2>2, <2>3
  <2>4. CASE w = h.webhook
    <3>1. h.attempt \in Nat /\ h.attempt <= MaxAttempts - 1
      BY <1>3, <1>4
    <3>2. tally[w].posts \in Nat /\ tally'[w].posts \in Nat
          /\ tally[w].posts <= h.attempt + Repeats /\ tally'[w].posts <= tally[w].posts + 1
      BY <1>1, <1>4, <1>6, <2>4
    <3>3. tally'[w].posts <= MaxAttempts + Repeats
      BY <1>4, <3>1, <3>2
    <3>4. QED
      BY <1>1, <2>2, <3>3
  <2>5. QED
    BY <2>3, <2>4
<1>11. \A e \in ToSet(file) : Within(e, Slack, Slack)'
  <2>1. SUFFICES ASSUME NEW e \in ToSet(file)
                 PROVE  tally'[e.webhook].posts <= e.attempt + (Repeats + 1) /\ tally'[e.webhook].done <= Repeats + 1
    BY <1>8 DEF Within
  <2>2. tally[e.webhook].posts <= e.attempt + (Repeats + 1) /\ tally[e.webhook].done <= Repeats + 1
    BY <1>8 DEF Counts, Within
  <2>3. e \in Entries /\ e.webhook \in Webhooks
    BY <1>4
  <2>4. CASE e.webhook # h.webhook
    BY <1>1, <2>2, <2>3, <2>4
  <2>5. CASE e.webhook = h.webhook
    <3>1. e.attempt = h.attempt
      BY <1>3, <1>8, <2>5 DEF Lines
    <3>2. tally[e.webhook].posts <= e.attempt + Repeats
      BY <1>6, <2>5, <3>1
    <3>3. e.attempt \in Nat /\ tally[e.webhook].posts \in Nat /\ tally'[e.webhook].posts \in Nat
          /\ tally'[e.webhook].posts <= tally[e.webhook].posts + 1
      BY <1>1, <1>4, <2>3
    <3>4. QED
      BY <1>1, <1>4, <2>2, <2>3, <3>2, <3>3
  <2>6. QED
    BY <2>4, <2>5
<1>12. \A e \in ToSet(tick.remaining) : Within(e, Repeats, Repeats)'
  <2>1. TAKE e \in ToSet(tick.remaining)
  <2>2. e.webhook \in Queued(tick.remaining) /\ e.webhook \in Webhooks
    BY <1>2, <1>4, QueuedElements
  <2>3. e.webhook # h.webhook
    BY <1>3, <2>2 DEF Lines
  <2>4. Within(e, Repeats, Repeats)
    BY DEF Counts
  <2>5. QED
    BY <1>1, <2>2, <2>3, <2>4 DEF Within
<1>13. \A e \in ToSet(r) : Within(e, IF AskedNow(e) THEN Repeats + 1 ELSE Repeats, Repeats)'
  <2>1. SUFFICES ASSUME NEW e \in ToSet(r)
                 PROVE  Within(e, IF AskedNow(e) THEN Repeats + 1 ELSE Repeats, Repeats)'
    OBVIOUS
  <2>2. /\ e.webhook \in Webhooks /\ e.attempt \in Nat
        /\ tally[e.webhook].posts <= e.attempt + Repeats /\ tally[e.webhook].done <= Repeats
    BY <1>4, <1>5 DEF Within
  <2>3. /\ tally'[e.webhook].posts <= tally[e.webhook].posts + 1
        /\ tally'[e.webhook].done = tally[e.webhook].done /\ tally[e.webhook].posts \in Nat
        /\ tally'[e.webhook].posts \in Nat
    BY <1>1, <1>4, <2>2
  <2>4. CASE AskedNow(e)'
    <3>1. tally'[e.webhook].posts <= e.attempt + (Repeats + 1)
      BY <1>4, <2>2, <2>3
    <3>2. QED
      BY <1>1, <2>2, <2>3, <2>4, <3>1 DEF Within
  <2>5. CASE ~AskedNow(e)'
    <3>1. tally'[e.webhook].posts = tally[e.webhook].posts
      BY <1>1, <1>7, <2>2, <2>5
    <3>2. QED
      BY <1>1, <2>2, <2>3, <2>5, <3>1 DEF Within
  <2>6. QED
    BY <2>4, <2>5
<1>14. QED
  <2> HIDE DEF h
  <2>1. QED
    BY <1>1, <1>9, <1>10, <1>11, <1>12, <1>13 DEF Counts

LEMMA EndCounts ==
  ASSUME Sound, Lines, Counts, RequestEnds
  PROVE  Counts'
<1> DEFINE r == tick.rest
           m == tick.remaining
           h == Head(r)
<1>1. /\ tick.phase = "posting" /\ r # <<>>
      /\ UNCHANGED <<stage, file, Repeats>>
      /\ \/ Settles(h) /\ tally' = [tally EXCEPT ![h.webhook].done = @ + 1]
         \/ Settles(h) /\ UNCHANGED tally
         \/ ~LastAttempt(h) /\ PutsOff(h) /\ UNCHANGED tally
  BY DEF RequestEnds, limits, Repeats, Sound, Shaped
<1>2. /\ r \in Seq(Entries) /\ file \in Seq(Entries) /\ m \in Seq(Entries)
      /\ tally \in [Webhooks -> [posts : Nat, done : Nat, told : BOOLEAN, missed : BOOLEAN]]
  BY SoundParts
<1>3. /\ h \in Entries /\ h \in ToSet(r) /\ h.webhook \in Webhooks /\ h.webhook \in Queued(r)
      /\ Tail(r) \in Seq(Entries)
      /\ ToSet(Tail(r)) \subseteq ToSet(r)
      /\ h.webhook \notin Queued(Tail(r)) /\ h.webhook \notin Queued(m)
  BY <1>1, <1>2, QueuedTail DEF Lines
<1>4. /\ \A w \in Webhooks : tally[w].posts \in Nat /\ tally[w].done \in Nat
      /\ Repeats \in Nat /\ MaxAttempts \in Nat
      /\ \A e \in Entries : e.webhook \in Webhooks /\ e.attempt \in Nat /\ e.attempt <= MaxAttempts - 1
      /\ ToSet(file) \subseteq Entries /\ ToSet(r) \subseteq Entries /\ ToSet(m) \subseteq Entries
  BY TallyNat
<1>5. /\ tally[h.webhook].posts <= h.attempt + (Repeats + 1)
      /\ tally[h.webhook].done <= Repeats
  <2>1. AskedNow(h)
    BY <1>1 DEF AskedNow
  <2>2. Within(h, Repeats + 1, Repeats)
    BY <1>3, <2>1 DEF Counts
  <2>3. QED
    BY <2>2 DEF Within
<1>6. /\ tick'.rest = Tail(r) /\ tick'.phase \in {"recording", "working"}
      /\ \/ tick'.remaining = m
         \/ /\ UNCHANGED tally
            /\ \E f \in Entries : /\ tick'.remaining = Append(m, f)
                                  /\ f.webhook = h.webhook /\ f.attempt = h.attempt + 1
  <2>1. CASE Settles(h)
    BY <1>1, <2>1, SettlesFacts
  <2>2. CASE ~LastAttempt(h) /\ PutsOff(h) /\ UNCHANGED tally
    BY <1>1, <2>2, PutsOffFacts
  <2>3. QED
    BY <1>1, <2>1, <2>2
<1> HIDE DEF r, m, h
<1>7. \A w \in Webhooks :
        /\ tally'[w].posts = tally[w].posts
        /\ w # h.webhook => tally'[w].done = tally[w].done
        /\ tally'[w].done \in Nat /\ tally'[w].done <= tally[w].done + 1
  <2>1. CASE UNCHANGED tally
    BY <1>4, <2>1
  <2>2. CASE tally' = [tally EXCEPT ![h.webhook].done = @ + 1]
    BY <1>2, <1>3, <1>4, <2>2
  <2>3. QED
    BY <1>1, <2>1, <2>2
<1>8. InTick /\ InTick' /\ Slack = Repeats + 1 /\ Slack' = Repeats + 1
  BY <1>1, <1>6 DEF InTick, Slack
<1>9. \A w \in Webhooks : stage'[w] # "queued" => tally'[w].posts = 0 /\ tally'[w].done = 0
  <2>1. stage[h.webhook] = "queued"
    BY <1>3 DEF Lines, r
  <2>2. QED
    BY <1>1, <1>7, <2>1 DEF Counts
<1>10. RetriesBounded'
  <2>1. SUFFICES ASSUME NEW w \in Webhooks
                 PROVE  tally'[w].posts <= MaxAttempts + Repeats /\ tally'[w].done <= 1 + Repeats
    BY <1>1 DEF RetriesBounded
  <2>2. tally[w].posts <= MaxAttempts + Repeats /\ tally[w].done <= 1 + Repeats
    BY DEF Counts, RetriesBounded
  <2>3. w = h.webhook => tally'[w].done <= 1 + Repeats
    BY <1>4, <1>5, <1>7
  <2>4. QED
    BY <1>7, <2>2, <2>3
<1>11. \A e \in ToSet(file) : Within(e, Slack, Slack)'
  <2>1. SUFFICES ASSUME NEW e \in ToSet(file)
                 PROVE  tally'[e.webhook].posts <= e.attempt + (Repeats + 1) /\ tally'[e.webhook].done <= Repeats + 1
    BY <1>8 DEF Within
  <2>2. tally[e.webhook].posts <= e.attempt + (Repeats + 1) /\ tally[e.webhook].done <= Repeats + 1
    BY <1>8 DEF Counts, Within
  <2>3. e \in Entries /\ e.webhook \in Webhooks
    BY <1>4
  <2>4. e.webhook = h.webhook => tally'[e.webhook].done <= Repeats + 1
    BY <1>4, <1>5, <1>7, <2>3
  <2>5. QED
    BY <1>7, <2>2, <2>3, <2>4
<1>12. \A e \in ToSet(m) : Within(e, Repeats, Repeats)'
  <2>1. TAKE e \in ToSet(m)
  <2>2. e.webhook \in Queued(m) /\ e.webhook \in Webhooks
    BY <1>2, <1>4, QueuedElements
  <2>3. e.webhook # h.webhook
    BY <1>3, <2>2
  <2>4. Within(e, Repeats, Repeats)
    BY DEF Counts, m
  <2>5. QED
    BY <1>1, <1>7, <2>2, <2>3, <2>4 DEF Within
<1>13. \A e \in ToSet(tick'.remaining) : Within(e, Repeats, Repeats)'
  <2>1. CASE tick'.remaining = m
    BY <1>12, <2>1
  <2>2. ASSUME NEW f \in Entries, UNCHANGED tally, tick'.remaining = Append(m, f),
               f.webhook = h.webhook, f.attempt = h.attempt + 1
        PROVE  \A e \in ToSet(tick'.remaining) : Within(e, Repeats, Repeats)'
    <3>1. ToSet(tick'.remaining) = ToSet(m) \cup {f}
      BY <1>2, <2>2, QueuedAppend
    <3>2. tally[f.webhook].posts <= f.attempt + Repeats /\ tally[f.webhook].done <= Repeats
      <4>1. h.attempt \in Nat /\ tally[h.webhook].posts \in Nat
        BY <1>3, <1>4
      <4>2. QED
        BY <1>4, <1>5, <2>2, <4>1
    <3>3. Within(f, Repeats, Repeats)'
      BY <1>1, <2>2, <3>2 DEF Within
    <3>4. QED
      BY <1>12, <3>1, <3>3
  <2>3. QED
    BY <1>6, <2>1, <2>2
<1>14. \A e \in ToSet(Tail(r)) : Within(e, IF AskedNow(e) THEN Repeats + 1 ELSE Repeats, Repeats)'
  <2>1. TAKE e \in ToSet(Tail(r))
  <2>2. e.webhook \in Queued(Tail(r)) /\ e \in ToSet(r) /\ e.webhook \in Webhooks
    BY <1>3, <1>4, QueuedElements
  <2>3. e.webhook # h.webhook
    BY <1>3, <2>2
  <2>4. ~AskedNow(e) /\ ~AskedNow(e)'
    BY <1>6, <2>3 DEF AskedNow, h, r
  <2>5. Within(e, Repeats, Repeats)
    BY <2>2, <2>4 DEF Counts, r
  <2>6. QED
    BY <1>1, <1>7, <2>2, <2>3, <2>4, <2>5 DEF Within
<1>15. QED
  BY <1>1, <1>6, <1>9, <1>10, <1>11, <1>13, <1>14 DEF Counts

LEMMA CountsStep ==
  ASSUME Sound, Waits, Lines, Counts, [Next]_vars
  PROVE  Counts'
<1>1. stage \in [Webhooks -> Stages] /\ file \in Seq(Entries)
  BY SoundParts
<1>2. /\ \A w \in Webhooks : tally[w].posts \in Nat /\ tally[w].done \in Nat
      /\ Repeats \in Nat /\ MaxAttempts \in Nat
      /\ \A e \in Entries : e.webhook \in Webhooks /\ e.attempt \in Nat /\ e.attempt <= MaxAttempts - 1
      /\ ToSet(file) \subseteq Entries /\ ToSet(tick.rest) \subseteq Entries
      /\ ToSet(tick.remaining) \subseteq Entries
  BY TallyNat
(* A step that leaves everything but the stages alone. *)
<1>3. ASSUME UNCHANGED <<file, tick, tally, Repeats>>,
             \A w \in Webhooks : stage'[w] # "queued" => stage[w] # "queued"
      PROVE  Counts'
  <2>1. /\ UNCHANGED <<Slack, RetriesBounded>>
        /\ \A e : AskedNow(e)' <=> AskedNow(e)
    BY <1>3 DEF Slack, InTick, RetriesBounded, AskedNow
  <2>2. QED
    BY <1>3, <2>1 DEF Counts, Within
<1>4. CASE Recordings
  <2>1. UNCHANGED Repeats
    BY <1>4, RecordsGo DEF Repeats
  <2>2. CASE UNCHANGED queue
    BY <1>3, <2>1, <2>2 DEF queue
  <2>3. ASSUME NEW w \in Webhooks, TickGoesOn(w)
        PROVE  Counts'
    BY <2>1, <2>3, CountsSame DEF TickGoesOn, InTick
  <2>4. ASSUME NEW w \in Webhooks, NEW then \in {"done", "queuing"}, HandlerGoesOn(w, then)
        PROVE  Counts'
    <3>1. \A v \in Webhooks : stage'[v] # "queued" => stage[v] # "queued"
      BY <1>1, <2>4 DEF HandlerGoesOn
    <3>2. QED
      BY <1>3, <2>1, <2>4, <3>1 DEF HandlerGoesOn
  <2>5. QED
    BY <1>4, <2>2, <2>3, <2>4, RecordsGo, GoesCases
<1>5. ASSUME NEW w \in Webhooks, Advances(w) \/ Answered(w)
      PROVE  Counts'
  <2>1. UNCHANGED <<file, tick, tally, Repeats>>
    BY <1>5, AdvancesFacts DEF limits, Answered, Repeats
  <2>2. \A v \in Webhooks : stage'[v] # "queued" => stage[v] # "queued"
    BY <1>1, <1>5, AdvancesFacts DEF Answered
  <2>3. QED
    BY <1>3, <2>1, <2>2
<1>6. ASSUME NEW w \in Webhooks, Enqueues(w)
      PROVE  Counts'
  <2> DEFINE e == [webhook |-> w, attempt |-> 0, due |-> FALSE]
  <2>1. /\ stage[w] = "queuing" /\ stage' = [stage EXCEPT ![w] = "queued"]
        /\ file' = Append(file, e) /\ UNCHANGED <<tick, tally, Repeats>>
    BY <1>6 DEF Enqueues, limits, Repeats
  <2>2. e \in Entries /\ e.webhook = w /\ e.attempt = 0
    BY WebhookRetriesAssumption DEF Entries
  <2> HIDE DEF e
  <2>3. ToSet(file') = ToSet(file) \cup {e}
    BY <1>1, <2>1, <2>2, QueuedAppend
  <2>4. \A v \in Webhooks : stage'[v] # "queued" => stage[v] # "queued"
    BY <1>1, <2>1
  <2>5. Slack' = Slack /\ Slack \in Nat /\ (\A f : AskedNow(f)' <=> AskedNow(f))
        /\ (RetriesBounded' <=> RetriesBounded)
    BY <1>2, <2>1 DEF Slack, InTick, AskedNow, RetriesBounded
  <2>6. tally[w].posts = 0 /\ tally[w].done = 0
    BY <2>1 DEF Counts
  <2>7. Within(e, Slack, Slack)
    BY <2>2, <2>5, <2>6 DEF Within
  <2>8. QED
    BY <2>1, <2>3, <2>4, <2>5, <2>7 DEF Counts, Within
<1>7. ASSUME NEW w \in Webhooks, TimePasses(w)
      PROVE  Counts'
  <2>1. /\ tick.phase = "idle" /\ DOMAIN file' = DOMAIN file
        /\ UNCHANGED <<stage, tick, tally, Repeats>>
        /\ \A i \in DOMAIN file : /\ file'[i].webhook = file[i].webhook
                                  /\ file'[i].attempt = file[i].attempt
    BY <1>7, TimePassesFacts DEF Repeats
  <2>2. Slack' = Slack /\ (\A f : AskedNow(f)' <=> AskedNow(f))
        /\ (RetriesBounded' <=> RetriesBounded)
    BY <2>1 DEF Slack, InTick, AskedNow, RetriesBounded
  <2>3. \A e \in ToSet(file') : Within(e, Slack, Slack)'
    <3>1. SUFFICES ASSUME NEW e \in ToSet(file')
                   PROVE  Within(e, Slack, Slack)'
      OBVIOUS
    <3>2. PICK i \in DOMAIN file : e = file'[i]
      BY <2>1 DEF ToSet
    <3>3. Within(file[i], Slack, Slack)
      BY DEF Counts, ToSet
    <3>4. e.webhook = file[i].webhook /\ e.attempt = file[i].attempt
      BY <2>1, <3>2
    <3>5. QED
      BY <2>1, <2>2, <3>3, <3>4 DEF Within
  <2>4. QED
    BY <2>1, <2>2, <2>3 DEF Counts, Within
<1>8. CASE TickBegins
  <2>1. /\ tick.phase = "idle" /\ tick'.phase = "working" /\ tick'.rest = file
        /\ tick'.remaining = <<>> /\ UNCHANGED <<stage, file, tally, Repeats>>
    BY <1>8, TickBeginsFacts DEF Repeats
  <2>2. Slack = Repeats /\ Slack' = Repeats + 1 /\ \A e : ~AskedNow(e)'
    BY <2>1 DEF Slack, InTick, AskedNow
  <2>3. \A e \in ToSet(file) : /\ e.webhook \in Webhooks /\ e.attempt \in Nat
                               /\ tally[e.webhook].posts \in Nat /\ tally[e.webhook].done \in Nat
                               /\ Within(e, Repeats, Repeats)
    BY <1>2, <2>2 DEF Counts
  <2>4. \A e \in ToSet(file') : Within(e, Slack, Slack)'
    BY <1>2, <2>1, <2>2, <2>3 DEF Within
  <2>5. \A e \in ToSet(tick'.rest) : Within(e, IF AskedNow(e) THEN Repeats + 1 ELSE Repeats, Repeats)'
    BY <2>1, <2>2, <2>3 DEF Within
  <2>6. QED
    BY <2>1, <2>4, <2>5, QueuedEmpty DEF Counts, RetriesBounded
<1>9. CASE TickSkips
  <2> DEFINE r == tick.rest
             m == tick.remaining
             h == Head(r)
  <2>1. /\ tick.phase = "working" /\ r # <<>> /\ tick'.phase = "working"
        /\ tick'.rest = Tail(r) /\ tick'.remaining = Append(m, h)
        /\ UNCHANGED <<stage, file, tally, Repeats>>
    BY <1>9, TickSkipsFacts DEF Repeats
  <2>2. /\ h \in Entries /\ h \in ToSet(r) /\ ToSet(Tail(r)) \subseteq ToSet(r)
        /\ ToSet(Append(m, h)) = ToSet(m) \cup {h}
    <3>1. r \in Seq(Entries) /\ m \in Seq(Entries)
      BY SoundParts
    <3>2. h \in Entries /\ h \in ToSet(r) /\ ToSet(Tail(r)) \subseteq ToSet(r)
      BY <2>1, <3>1, QueuedTail
    <3> HIDE DEF h, m, r
    <3>3. QED
      BY <3>1, <3>2, QueuedAppend
  <2>3. /\ \A e \in ToSet(file) : Within(e, Slack, Slack)
        /\ \A e \in ToSet(m) : Within(e, Repeats, Repeats)
        /\ \A e \in ToSet(r) : Within(e, Repeats, Repeats)
    BY <2>1 DEF Counts, AskedNow
  <2>4. Slack' = Slack /\ (\A e : ~AskedNow(e)') /\ (RetriesBounded' <=> RetriesBounded)
    BY <2>1 DEF Slack, InTick, AskedNow, RetriesBounded
  <2> HIDE DEF r, m, h
  <2>5. QED
    BY <2>1, <2>2, <2>3, <2>4 DEF Counts, Within
<1>10. CASE RewriteOpens
  <2>1. /\ tick.phase = "working" /\ tick'.phase = "rewriting" /\ tick'.rest = <<>>
        /\ tick'.remaining = tick.remaining /\ file' = <<>> /\ UNCHANGED <<stage, tally, Repeats>>
    BY <1>10, RewriteOpensFacts DEF Repeats
  <2>2. RetriesBounded' <=> RetriesBounded
    BY <2>1 DEF RetriesBounded
  <2>3. QED
    BY <2>1, <2>2, QueuedEmpty DEF Counts, Within
<1>11. CASE RewriteFills
  <2>1. /\ tick.phase = "rewriting" /\ tick'.phase = "idle"
        /\ tick'.rest = <<>> /\ tick'.remaining = <<>> /\ UNCHANGED <<stage, tally, Repeats>>
        /\ \/ file' = file
           \/ \E k \in 0 .. Len(file) : file' = tick.remaining \o SubSeq(file, k + 1, Len(file))
    BY <1>11, RewriteFillsFacts DEF Repeats
  <2>2. tick.remaining \in Seq(Entries)
    BY SoundParts
  <2>3. ToSet(file') \subseteq ToSet(tick.remaining) \cup ToSet(file)
    BY <1>1, <2>1, <2>2, QueuedOver
  <2>4. Slack = Repeats /\ Slack' = Repeats /\ (RetriesBounded' <=> RetriesBounded)
    BY <2>1 DEF Slack, InTick, RetriesBounded
  <2>5. \A e \in ToSet(file') : Within(e, Repeats, Repeats)
    BY <2>3, <2>4 DEF Counts
  <2>6. QED
    BY <2>1, <2>4, <2>5, QueuedEmpty DEF Counts, Within
<1>12. ASSUME NEW a \in Automations, ImportOverwrites(a)
       PROVE  Counts'
  <2>1. file' = Filtered(file, a) /\ UNCHANGED <<stage, tick, tally, Repeats>>
    BY <1>12, ImportFacts DEF Repeats
  <2>2. ToSet(file') \subseteq ToSet(file)
    BY <1>1, <2>1, FilteredFacts
  <2>3. Slack' = Slack /\ (\A e : AskedNow(e)' <=> AskedNow(e)) /\ (RetriesBounded' <=> RetriesBounded)
    BY <2>1 DEF Slack, InTick, AskedNow, RetriesBounded
  <2>4. QED
    BY <2>1, <2>2, <2>3 DEF Counts, Within
<1>13. CASE Crash \/ RewriteFails
  <2>1. /\ tick'.phase = "idle" /\ tick'.rest = <<>> /\ tick'.remaining = <<>> /\ file' = file
        /\ tally' = tally /\ \A w \in Webhooks : stage[w] = "queued" => stage'[w] = "queued"
        /\ \/ crashes' = crashes + 1 /\ unwritten' = unwritten
           \/ crashes' = crashes /\ unwritten' = unwritten + 1
    BY <1>13, CrashFacts, RewriteFailsFacts
  <2>6. Repeats' = Repeats + 1
    BY <2>1, SoundParts DEF Repeats
  <2>2. Slack' = Repeats + 1 /\ Slack \in Nat /\ Slack <= Repeats + 1
    BY <1>2, <2>1, <2>6 DEF Slack, InTick
  <2>3. \A e \in ToSet(file') : Within(e, Slack, Slack)'
    <3>1. SUFFICES ASSUME NEW e \in ToSet(file)
                   PROVE  Within(e, Slack, Slack)'
      BY <2>1
    <3>2. /\ e.webhook \in Webhooks /\ e.attempt \in Nat
          /\ tally[e.webhook].posts \in Nat /\ tally[e.webhook].done \in Nat
          /\ tally[e.webhook].posts <= e.attempt + Slack /\ tally[e.webhook].done <= Slack
      BY <1>2 DEF Counts, Within
    <3>3. tally[e.webhook].posts <= e.attempt + (Repeats + 1) /\ tally[e.webhook].done <= Repeats + 1
      BY <1>2, <2>2, <3>2
    <3>4. QED
      BY <2>1, <2>2, <3>3 DEF Within
  <2>4. RetriesBounded'
    BY <1>2, <2>1, <2>6 DEF Counts, RetriesBounded
  <2>5. QED
    BY <2>1, <2>3, <2>4, QueuedEmpty DEF Counts
<1>14. CASE UNCHANGED vars
  BY <1>3, <1>14 DEF vars, limits, queue, Repeats
<1>15. CASE RewriteStops
  <2>1. /\ tick.phase = "rewriting" /\ tick'.phase = "idle"
        /\ tick'.rest = <<>> /\ tick'.remaining = <<>> /\ UNCHANGED <<stage, tally, Repeats>>
    BY <1>15, RewriteStopsFacts DEF Repeats
  <2>2. ToSet(file') \subseteq ToSet(tick.remaining) \cup ToSet(file)
    <3>1. PICK n \in 0 .. Len(tick.remaining) - 1, k \in 0 .. Len(file) :
            file' = SubSeq(tick.remaining, 1, n) \o SubSeq(file, k + 1, Len(file))
      BY <1>15, RewriteStopsFacts
    <3>2. QED
      BY <1>1, <3>1, StoppedOver, SoundParts
  <2>3. Slack = Repeats /\ Slack' = Repeats /\ (RetriesBounded' <=> RetriesBounded)
    BY <2>1 DEF Slack, InTick, RetriesBounded
  <2>4. \A e \in ToSet(file') : Within(e, Repeats, Repeats)
    BY <2>2, <2>3 DEF Counts
  <2>5. QED
    BY <2>1, <2>3, <2>4, QueuedEmpty DEF Counts, Within
<1>16. QED
  BY <1>4, <1>5, <1>6, <1>7, <1>8, <1>9, <1>10, <1>11, <1>12, <1>13, <1>14, <1>15,
     RequestCounts, EndCounts, Steps DEF Ticks

Numbered == Sound /\ Waits /\ Lines /\ Counts

LEMMA NumberedAlways == Spec => []Numbered
<1>1. Init => Numbered
  <2>1. SUFFICES ASSUME Init
                 PROVE  Waits /\ Lines /\ Counts
    BY SoundInit DEF Numbered
  <2>2. /\ file = <<>> /\ tick.rest = <<>> /\ tick.remaining = <<>> /\ tick.phase = "idle"
        /\ Repeats = 0
    BY <2>1 DEF Init, NoTick, Repeats
  <2>3. \A w \in Webhooks : tally[w].posts = 0 /\ tally[w].done = 0
    BY <2>1 DEF Init
  <2>4. Lines
    BY <2>2, QueuedEmpty DEF Lines, InTick
  <2>5. RetriesBounded
    BY <2>2, <2>3, WebhookRetriesAssumption DEF RetriesBounded
  <2>6. QED
    BY <2>1, <2>2, <2>3, <2>4, <2>5, QueuedEmpty, WaitsInit DEF Counts
<1>2. Numbered /\ [Next]_vars => Numbered'
  BY SoundStep, WaitsStep, LinesStep, CountsStep DEF Numbered
<1>3. QED
  BY <1>1, <1>2, PTL DEF Spec

(* However ticks, crashes, failures and imports interleave, a webhook is     *)
(* requested at most MAX_DEFERRED_ATTEMPTS times, and its retries succeed   *)
(* at most once, up to one more for each crash and for each rewriting of    *)
(* the queue file that failed (RetryScheduler.tick, enqueue).               *)
THEOREM RetriesBoundedAlways == Spec => []RetriesBounded
<1>1. Numbered => RetriesBounded
  BY DEF Numbered, Counts
<1>2. QED
  BY <1>1, NumberedAlways, PTL

-----------------------------------------------------------------------------
(* What the queue owes: while the tick works, both the file and the tick    *)
(* hold a webhook whose end is not told, unless it is about to be.          *)

Owes ==
  \A w \in Webhooks : stage[w] = "queued" =>
     \/ w \in overtaken \/ w \in cleared \/ w \in torn \/ tally[w].told \/ tally[w].missed
     \/ tick.phase = "idle" /\ w \in Queued(file)
     \/ /\ InTick /\ w \in Queued(file)
        /\ w \in Queued(tick.rest) \/ w \in Queued(tick.remaining) \/ w \in Settled
     \/ tick.phase = "rewriting" /\ w \in Queued(tick.remaining)

LEMMA OwesStep ==
  ASSUME Sound, Waits, Owes, [Next]_vars
  PROVE  Owes'
<1> DEFINE r == tick.rest
           m == tick.remaining
           h == Head(r)
           A(w) == \/ w \in overtaken \/ w \in cleared \/ w \in torn
                   \/ tally[w].told \/ tally[w].missed
           B(w) == \/ tick.phase = "idle" /\ w \in Queued(file)
                   \/ /\ tick.phase \in {"working", "posting", "recording"} /\ w \in Queued(file)
                      /\ w \in Queued(r) \/ w \in Queued(m) \/ w \in Settled
                   \/ tick.phase = "rewriting" /\ w \in Queued(m)
<1>1. /\ stage \in [Webhooks -> Stages] /\ file \in Seq(Entries)
      /\ r \in Seq(Entries) /\ m \in Seq(Entries)
  BY SoundParts
<1>2. Owes <=> \A w \in Webhooks : stage[w] = "queued" => A(w) \/ B(w)
  BY DEF Owes, InTick
<1>3. Owes' <=> \A w \in Webhooks : stage'[w] = "queued" => A(w)' \/ B(w)'
  BY DEF Owes, InTick
(* What is told, missed or set aside stays so. *)
<1>4. ASSUME overtaken \subseteq overtaken', cleared \subseteq cleared', torn \subseteq torn',
             \A w \in Webhooks : /\ tally[w].told => tally'[w].told
                                 /\ tally[w].missed => tally'[w].missed,
             \A w \in Webhooks : stage'[w] = "queued" => stage[w] = "queued" \/ A(w)' \/ B(w)',
             \A w \in Webhooks : stage[w] = "queued" /\ B(w) => A(w)' \/ B(w)'
      PROVE  Owes'
  BY <1>2, <1>3, <1>4
<1>5. ASSUME UNCHANGED <<file, tick, tally, overtaken, cleared, torn>>, Settled' = Settled,
             \A w \in Webhooks : stage'[w] = "queued" => stage[w] = "queued"
      PROVE  Owes'
  BY <1>4, <1>5
<1>6. r # <<>> => Queued(r) = {h.webhook} \cup Queued(Tail(r)) /\ h \in Entries
  BY <1>1, QueuedTail
<1>7. CASE Recordings
  <2>1. UNCHANGED <<overtaken, cleared, torn>>
    BY <1>7, RecordsGo
  <2>2. CASE Settled' = Settled /\ UNCHANGED queue
    BY <1>5, <2>1, <2>2 DEF queue
  <2>3. ASSUME NEW w \in Webhooks, TickGoesOn(w)
        PROVE  Owes'
    <3>1. \A v \in Webhooks : B(v) => v = w \/ B(v)'
      BY <2>3 DEF TickGoesOn
    <3>2. A(w)'
      BY <2>3 DEF TickGoesOn
    <3>3. QED
      BY <1>4, <2>1, <2>3, <3>1, <3>2 DEF TickGoesOn
  <2>4. ASSUME NEW w \in Webhooks, NEW then \in {"done", "queuing"}, HandlerGoesOn(w, then)
        PROVE  Owes'
    <3>1. \A v \in Webhooks : stage'[v] = "queued" => stage[v] = "queued"
      BY <1>1, <2>4 DEF HandlerGoesOn
    <3>2. QED
      BY <1>5, <2>1, <2>4, <3>1 DEF HandlerGoesOn
  <2>5. QED
    BY <1>7, <2>2, <2>3, <2>4, RecordsGo, GoesCases
<1>8. ASSUME NEW w \in Webhooks, Advances(w)
      PROVE  Owes'
  <2>1. UNCHANGED <<file, tick, tally, overtaken, cleared, torn, writer>>
    BY <1>8, AdvancesFacts
  <2>2. \A v \in Webhooks : stage'[v] = "queued" => stage[v] = "queued"
    BY <1>8, AdvancesFacts
  <2>3. Settled' = Settled
    BY <2>1 DEF Settled, Waiters, Busy
  <2>4. QED
    BY <1>5, <2>1, <2>2, <2>3
<1>9. ASSUME NEW w \in Webhooks, Answered(w)
      PROVE  Owes'
  <2>1. UNCHANGED <<file, tick, tally, overtaken, cleared, torn>>
    BY <1>9 DEF Answered, limits
  <2>2. \A v \in Webhooks : stage'[v] = "queued" => stage[v] = "queued"
    BY <1>1, <1>9 DEF Answered, limits
  <2>3. QED
    BY <1>5, <1>9, <2>1, <2>2, AnsweredFacts
<1>10. ASSUME NEW w \in Webhooks, Enqueues(w)
       PROVE  Owes'
  <2> DEFINE e == [webhook |-> w, attempt |-> 0, due |-> FALSE]
  <2>1. /\ stage' = [stage EXCEPT ![w] = "queued"]
        /\ file' = Append(file, e) /\ UNCHANGED <<tick, tally, writer, cleared, torn>>
        /\ overtaken' = IF tick.phase = "idle" THEN overtaken ELSE overtaken \cup {w}
    BY <1>10 DEF Enqueues, limits
  <2>2. e \in Entries /\ e.webhook = w
    BY WebhookRetriesAssumption DEF Entries
  <2> HIDE DEF e
  <2>3. Queued(file') = Queued(file) \cup {w}
    BY <1>1, <2>1, <2>2, QueuedAppend
  <2>4. Settled' = Settled
    BY <2>1 DEF Settled, Waiters, Busy
  <2>5. \A v \in Webhooks : stage'[v] = "queued" => stage[v] = "queued" \/ v = w
    BY <1>1, <2>1
  <2>6. A(w)' \/ B(w)'
    BY <2>1, <2>3
  <2>7. \A v \in Webhooks : B(v) => B(v)'
    BY <2>1, <2>3, <2>4
  <2>8. overtaken \subseteq overtaken'
    BY <2>1
  <2>9. QED
    BY <1>4, <2>1, <2>5, <2>6, <2>7, <2>8
<1>11. ASSUME NEW w \in Webhooks, TimePasses(w)
       PROVE  Owes'
  <2>1. /\ DOMAIN file' = DOMAIN file
        /\ UNCHANGED <<stage, tick, tally, writer, overtaken, cleared, torn>>
        /\ \A i \in DOMAIN file : file'[i].webhook = file[i].webhook
    BY <1>11, TimePassesFacts
  <2>2. Queued(file') = Queued(file)
    BY <2>1 DEF Queued
  <2>3. Settled' = Settled
    BY <2>1 DEF Settled, Waiters, Busy
  <2>4. QED
    BY <1>4, <2>1, <2>2, <2>3
<1>12. CASE TickBegins
  <2>1. /\ tick.phase = "idle" /\ tick'.phase = "working" /\ tick'.rest = file
        /\ UNCHANGED <<stage, file, tally, overtaken, cleared, torn>>
    BY <1>12, TickBeginsFacts
  <2>2. QED
    BY <1>4, <2>1
<1>13. CASE TickSkips
  <2>1. /\ tick.phase = "working" /\ r # <<>> /\ tick'.phase = "working"
        /\ tick'.rest = Tail(r) /\ tick'.remaining = Append(m, h)
        /\ UNCHANGED <<stage, file, tally, writer, overtaken, cleared, torn>>
    BY <1>13, TickSkipsFacts
  <2>2. Queued(tick'.remaining) = Queued(m) \cup {h.webhook}
    <3>1. h \in Entries
      BY <1>6, <2>1
    <3> HIDE DEF h, m
    <3>2. QED
      BY <1>1, <2>1, <3>1, QueuedAppend
  <2>3. Settled' = Settled
    BY <2>1 DEF Settled, Waiters, Busy
  <2> HIDE DEF h
  <2>4. \A w \in Webhooks : B(w) => B(w)'
    BY <1>6, <2>1, <2>2, <2>3
  <2>5. QED
    BY <1>4, <2>1, <2>4
<1>14. CASE TickRequests
  <2>1. /\ tick.phase = "working" /\ tick'.phase = "posting"
        /\ tick'.rest = r /\ tick'.remaining = m
        /\ \A w \in Webhooks : /\ tally'[w].told = tally[w].told
                               /\ tally'[w].missed = tally[w].missed
        /\ UNCHANGED <<stage, file, writer, overtaken, cleared, torn>>
    BY <1>14, TickRequestsFacts
  <2>2. Settled' = Settled
    BY <2>1 DEF Settled, Waiters, Busy
  <2>3. QED
    BY <1>4, <2>1, <2>2
<1>15. CASE RequestEnds
  <2>1. /\ tick.phase = "posting" /\ r # <<>>
        /\ UNCHANGED <<stage, file, overtaken, cleared, torn>>
        /\ \/ Settles(h) /\ tally' = [tally EXCEPT ![h.webhook].done = @ + 1]
           \/ Settles(h) /\ UNCHANGED tally
           \/ ~LastAttempt(h) /\ PutsOff(h) /\ UNCHANGED tally
    BY <1>15 DEF RequestEnds, limits, Sound, Shaped
  <2>2. \A w \in Webhooks : /\ tally[w].told => tally'[w].told
                            /\ tally[w].missed => tally'[w].missed
    <3>1. tally \in [Webhooks -> [posts : Nat, done : Nat, told : BOOLEAN, missed : BOOLEAN]]
      BY SoundParts
    <3>2. h.webhook \in Webhooks
      BY <1>6, <2>1, EntryParts
    <3> HIDE DEF h
    <3>3. QED
      BY <2>1, <3>1, <3>2
  <2>3. CASE Settles(h)
    <3>1. /\ tick'.phase = "recording" /\ tick'.rest = Tail(r) /\ tick'.remaining = m
          /\ Settled = {} /\ Settled' = {h.webhook}
      BY <2>1, <2>3, SettlesFacts, SettlesWaits
    <3> HIDE DEF h
    <3>2. \A w \in Webhooks : B(w) => B(w)'
      BY <1>6, <2>1, <3>1
    <3>3. QED
      BY <1>4, <2>1, <2>2, <3>2
  <2>4. CASE ~LastAttempt(h) /\ PutsOff(h)
    <3>1. /\ tick'.phase = "working" /\ tick'.rest = Tail(r) /\ UNCHANGED writer
          /\ \E f \in Entries : tick'.remaining = Append(m, f) /\ f.webhook = h.webhook
      BY <2>1, <2>4, PutsOffFacts
    <3>2. Settled' = Settled
      BY <3>1 DEF Settled, Waiters, Busy
    <3> HIDE DEF h
    <3>3. Queued(tick'.remaining) = Queued(m) \cup {h.webhook}
      BY <1>1, <3>1, QueuedAppend
    <3>4. \A w \in Webhooks : B(w) => B(w)'
      BY <1>6, <2>1, <3>1, <3>2, <3>3
    <3>5. QED
      BY <1>4, <2>1, <2>2, <3>4
  <2>5. QED
    BY <2>1, <2>3, <2>4
<1>16. CASE RewriteOpens
  <2>1. /\ tick.phase = "working" /\ r = <<>> /\ tick'.phase = "rewriting"
        /\ tick'.remaining = m /\ UNCHANGED <<stage, tally, overtaken, cleared, torn>>
    BY <1>16, RewriteOpensFacts
  <2>2. Settled = {}
    BY <2>1 DEF Waits, Settled, SettledIn, TickIn
  <2>3. QED
    BY <1>4, <2>1, <2>2, QueuedEmpty
<1>17. CASE RewriteFills
  <2>1. /\ tick.phase = "rewriting" /\ tick'.phase = "idle"
        /\ UNCHANGED <<stage, tally, overtaken, cleared, torn>>
        /\ \/ m = <<>> /\ file' = file
           \/ \E k \in 0 .. Len(file) : file' = m \o SubSeq(file, k + 1, Len(file))
    BY <1>17, RewriteFillsFacts
  <2>2. Queued(m) \subseteq Queued(file')
    <3>1. CASE m = <<>>
      BY <3>1, QueuedEmpty
    <3>2. ASSUME NEW k \in 0 .. Len(file), file' = m \o SubSeq(file, k + 1, Len(file))
          PROVE  Queued(m) \subseteq Queued(file')
      <4> DEFINE c == m \o SubSeq(file, k + 1, Len(file))
      <4>1. Queued(m) \subseteq Queued(c)
        BY <1>1, QueuedOver
      <4>2. QED
        BY <3>2, <4>1
    <3>3. QED
      BY <2>1, <3>1, <3>2
  <2>3. QED
    BY <1>4, <2>1, <2>2
<1>18. ASSUME NEW a \in Automations, ImportOverwrites(a)
       PROVE  Owes'
  <2>1. /\ file' = Filtered(file, a) /\ UNCHANGED <<stage, tick, tally, writer, torn>>
        /\ overtaken \subseteq overtaken' /\ cleared \subseteq cleared'
        /\ \A w \in Webhooks : w \in Queued(file) /\ Of[w] = a => w \in overtaken' \cup cleared'
    BY <1>18, ImportFacts
  <2>2. \A w \in Webhooks : w \in Queued(file) /\ Of[w] # a => w \in Queued(file')
    BY <1>1, <2>1, FilteredFacts
  <2>3. Settled' = Settled
    BY <2>1 DEF Settled, Waiters, Busy
  <2>4. \A w \in Webhooks : B(w) => A(w)' \/ B(w)'
    BY <2>1, <2>2, <2>3
  <2>5. QED
    BY <1>4, <2>1, <2>4
<1>19. CASE Crash
  <2>1. /\ tick'.phase = "idle" /\ UNCHANGED <<file, tally, overtaken, cleared>>
        /\ torn' = IF tick.phase = "rewriting" THEN torn \cup Queued(m) ELSE torn
        /\ \A w \in Webhooks : stage'[w] = "queued" => stage[w] = "queued"
    BY <1>19, CrashFacts
  <2>2. torn \subseteq torn' /\ \A w \in Webhooks : B(w) => B(w)' \/ w \in torn'
    BY <2>1
  <2>3. QED
    BY <1>4, <2>1, <2>2
<1>20. CASE UNCHANGED vars
  <2>1. Settled' = Settled
    BY <1>20 DEF vars, limits, Settled, Waiters, Busy
  <2>2. QED
    BY <1>5, <1>20, <2>1 DEF vars, limits, queue
<1>21. CASE RewriteFails
  <2>1. /\ tick.phase = "working" /\ tick'.phase = "idle"
        /\ UNCHANGED <<stage, file, tally, overtaken, cleared, torn>>
    BY <1>21, RewriteFailsFacts
  <2>2. \A w \in Webhooks : B(w) => B(w)'
    BY <2>1
  <2>3. QED
    BY <1>4, <2>1, <2>2
<1>22. CASE RewriteStops
  <2>1. /\ tick.phase = "rewriting" /\ tick'.phase = "idle"
        /\ torn' = torn \cup Queued(m) /\ UNCHANGED <<stage, tally, overtaken, cleared>>
    BY <1>22, RewriteStopsFacts
  <2>2. \A w \in Webhooks : B(w) => A(w)'
    BY <2>1
  <2>3. QED
    BY <1>4, <2>1, <2>2
<1>23. QED
  BY <1>7, <1>8, <1>9, <1>10, <1>11, <1>12, <1>13, <1>14, <1>15, <1>16, <1>17, <1>18, <1>19, <1>20,
     <1>21, <1>22, Steps DEF Ticks

(* A queued webhook stays on the queue until its history tells how its      *)
(* retries ended, whatever crash or failing file operation comes between    *)
(* (RetryScheduler.tick).  Exempt are only the webhooks, one by one, whose  *)
(* own history entry failed, or that were overtaken, cleared or cut off.    *)
THEOREM KeptUntilToldAlways == Spec => []KeptUntilTold
<1>1. Init => Owes
  BY DEF Init, Owes
<1>2. Numbered /\ Owes /\ [Next]_vars => Owes'
  BY OwesStep DEF Numbered
<1>3. Sound /\ Owes => KeptUntilTold
  BY SoundParts DEF Owes, KeptUntilTold, Owed, Told, Missed, Excused, InTick
<1>4. QED
  BY <1>1, <1>2, <1>3, SoundAlways, NumberedAlways, PTL DEF Spec
===============================================================================

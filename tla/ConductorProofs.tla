--------------------------- MODULE ConductorProofs ---------------------------
(***************************************************************************)
(* Proofs about the Conductor for every task graph, every cap and every    *)
(* choice of the optional features.  The run is a record and each method   *)
(* an operator on it, so the invariant is stated of a run, and each        *)
(* operator has a lemma saying that it keeps it; the actions only cite     *)
(* the lemmas of the operators they apply.  The second half is about the   *)
(* limits of attempts and of repair passes.                                *)
(***************************************************************************)
EXTENDS Conductor, FiniteSetTheorems, TLAPS

(* The run is well typed and its slot counter counts its running nodes. *)
Bagged(bag) == IsABag(bag) /\ BagToSet(bag) \subseteq Sessions

Typed(r) == r \in RunType({r.checks}) /\ Bagged(r.checks)

Slots(r) ==
  /\ r.inFlight = Cardinality(RunningNodes(r))
  /\ r.inFlight <= MaxParallel

Sound(r) == Typed(r) /\ Slots(r)

-----------------------------------------------------------------------------
(* Counting slots. *)

LEMMA NodesFinite == IsFiniteSet(Nodes) /\ Nodes \subseteq Nat
<1>1. IsFiniteSet(1..NodeCount)
  BY FS_Interval, ConductorAssumption
<1>2. QED
  BY <1>1, ConductorAssumption DEF Nodes

LEMMA NodeSets ==
  ASSUME NEW S \in SUBSET Nodes
  PROVE  IsFiniteSet(S) /\ Cardinality(S) \in Nat
BY NodesFinite, FS_Subset, FS_CardinalityType

(* The elements of a set of nodes with fewer than k elements of the set     *)
(* below them are at most k: two of them never have the same number below.  *)
LEMMA RankBound ==
  ASSUME NEW R \in SUBSET Nodes, NEW k \in Nat
  PROVE  Cardinality({n \in R : Cardinality({m \in R : m < n}) < k}) <= k
<1> DEFINE Below(n) == {m \in R : m < n}
           S == {n \in R : Cardinality(Below(n)) < k}
           rank == [n \in S |-> Cardinality(Below(n))]
<1>1. IsFiniteSet(S) /\ Cardinality(S) \in Nat
  BY NodeSets
<1>2. IsFiniteSet(0..(k - 1)) /\ Cardinality(0..(k - 1)) = k
  BY FS_Interval
<1>3. \A n \in R : IsFiniteSet(Below(n)) /\ Cardinality(Below(n)) \in Nat
  BY NodeSets
<1>4. ASSUME NEW x \in R, NEW y \in R, x < y
      PROVE  Cardinality(Below(x)) < Cardinality(Below(y))
  <2>1. R \subseteq Nat
    BY NodesFinite
  <2>2. Below(x) \cup {x} \subseteq Below(y) /\ x \notin Below(x)
    <3>1. x \in Nat /\ y \in Nat /\ \A m \in R : m \in Nat
      BY <2>1
    <3>2. \A m \in R : m < x => m < y
      BY <1>4, <3>1
    <3>3. ~(x < x)
      BY <3>1
    <3>4. QED
      BY <1>4, <3>2, <3>3
  <2>3. Cardinality(Below(x) \cup {x}) = Cardinality(Below(x)) + 1
    BY <1>3, <2>2, FS_AddElement
  <2>4. Cardinality(Below(x) \cup {x}) <= Cardinality(Below(y))
    BY <1>3, <2>2, FS_Subset
  <2>5. QED
    BY <1>3, <2>3, <2>4
<1>5. rank \in [S -> 0..(k - 1)]
  BY <1>3
<1>6. \A x, y \in S : x # y => rank[x] # rank[y]
  <2>1. R \subseteq Nat
    BY NodesFinite
  <2>2. ASSUME NEW x \in S, NEW y \in S, x < y
        PROVE  rank[x] # rank[y]
    <3>1. Cardinality(Below(x)) < Cardinality(Below(y))
      BY <1>4, <2>2
    <3>2. QED
      BY <1>3, <3>1
  <2>3. QED
    <3> HIDE DEF rank
    <3> QED
      BY <2>1, <2>2
<1>7. ~(k < Cardinality(S))
  <2> HIDE DEF S, rank
  <2> QED
    BY <1>1, <1>2, <1>5, <1>6, FS_PigeonHole
<1>8. QED
  BY <1>1, <1>7

LEMMA BatchFits ==
  ASSUME NEW r, Sound(r)
  PROVE  /\ NextBatch(r) \in SUBSET Nodes
         /\ \A n \in NextBatch(r) : r.state[n] = "pending"
         /\ r.inFlight + Cardinality(NextBatch(r)) <= MaxParallel
<1> DEFINE ready == ReadyNodes(r)
           slots == MaxParallel - r.inFlight
<1>1. /\ ready \in SUBSET Nodes
      /\ \A n \in ready : r.state[n] = "pending"
  BY DEF ReadyNodes
<1>2. slots \in Nat /\ r.inFlight \in Nat /\ MaxParallel \in Nat
  BY ConductorAssumption DEF Sound, Slots, Typed, RunType
<1>3. \A n \in Nodes : Cardinality({m \in ready : m < n}) \in Nat
  BY <1>1, NodeSets
<1>4. NextBatch(r) = {n \in ready : Cardinality({m \in ready : m < n}) < slots}
  BY <1>1, <1>2, <1>3 DEF NextBatch
<1>5. Cardinality(NextBatch(r)) <= slots
  BY <1>1, <1>2, <1>4, RankBound
<1>6. NextBatch(r) \in SUBSET Nodes
  BY <1>1, <1>4
<1>7. Cardinality(NextBatch(r)) \in Nat
  BY <1>6, NodeSets
<1>8. \A n \in NextBatch(r) : r.state[n] = "pending"
  BY <1>1, <1>4
<1>9. r.inFlight + Cardinality(NextBatch(r)) <= MaxParallel
  BY <1>2, <1>5, <1>7
<1>10. QED
  BY <1>6, <1>8, <1>9

-----------------------------------------------------------------------------
(* The operators keep the run well typed and its slots counted. *)

LEMMA MarkRunningSound ==
  ASSUME NEW r, Sound(r), NEW S \in SUBSET Nodes,
         \A n \in S : r.state[n] = "pending",
         r.inFlight + Cardinality(S) <= MaxParallel
  PROVE  Sound(MarkRunning(r, S))
<1> DEFINE q == MarkRunning(r, S)
<1>1. Cardinality(S) \in Nat /\ IsFiniteSet(S)
  BY NodeSets
<1>2. Typed(q)
  <2> DEFINE state    == [n \in Nodes |-> IF n \in S THEN "running" ELSE r.state[n]]
             attempt  == [n \in Nodes |-> IF n \in S THEN r.attempt[n] + 1 ELSE r.attempt[n]]
             replied  == [n \in Nodes |-> n \notin S /\ r.replied[n]]
             waiting  == [n \in Nodes |-> n \notin S /\ r.waiting[n]]
             inputs   == [n \in Nodes |-> IF n \in S THEN Quoted(r, n) ELSE r.inputs[n]]
             creating == r.creating \cup {<<n, r.attempt[n] + 1>> : n \in S}
  <2>1. /\ r.state \in [Nodes -> NodeStates]
        /\ r.attempt \in [Nodes -> Nat]
        /\ r.inputs \in [Nodes -> [Nodes -> Nat]]
        /\ r.output \in [Nodes -> Nat]
        /\ r.creating \in SUBSET Sessions
        /\ r.inFlight \in Nat
    BY DEF Sound, Typed, RunType
  <2>2. state \in [Nodes -> NodeStates] /\ attempt \in [Nodes -> Nat]
    BY <2>1 DEF NodeStates
  <2>3. replied \in [Nodes -> BOOLEAN] /\ waiting \in [Nodes -> BOOLEAN]
    OBVIOUS
  <2>4. inputs \in [Nodes -> [Nodes -> Nat]]
    BY <2>1 DEF Quoted
  <2>5. creating \in SUBSET Sessions
    BY <2>1 DEF Sessions
  <2>6. q = [r EXCEPT !.state = state, !.attempt = attempt, !.replied = replied,
                      !.waiting = waiting, !.inputs = inputs,
                      !.inFlight = r.inFlight + Cardinality(S), !.creating = creating]
    BY DEF MarkRunning
  <2>7. r \in RunType({r.checks}) /\ r.inFlight + Cardinality(S) \in Nat
    BY <1>1, <2>1 DEF Sound, Typed
  <2>8. q \in RunType({r.checks})
    <3> HIDE DEF state, attempt, replied, waiting, inputs, creating, q
    <3> QED
      BY <2>2, <2>3, <2>4, <2>5, <2>6, <2>7 DEF RunType
  <2>9. q.checks = r.checks
    BY <2>7 DEF MarkRunning, RunType
  <2>10. QED
    BY <2>8, <2>9 DEF Sound, Typed
<1>3. q.inFlight = Cardinality(RunningNodes(q))
  <2>1. RunningNodes(q) = RunningNodes(r) \cup S /\ RunningNodes(r) \cap S = {}
    BY DEF Sound, Typed, RunType, MarkRunning, RunningNodes
  <2>2. IsFiniteSet(RunningNodes(r)) /\ Cardinality(RunningNodes(r)) \in Nat
    BY NodeSets DEF RunningNodes
  <2>3. q.inFlight = r.inFlight + Cardinality(S)
    BY DEF Sound, Typed, RunType, MarkRunning
  <2>4. Cardinality(RunningNodes(r) \cup S) = Cardinality(RunningNodes(r)) + Cardinality(S)
    BY <1>1, <2>1, <2>2, FS_Union, FS_EmptySet
  <2>5. QED
    BY <2>1, <2>3, <2>4 DEF Sound, Slots
<1>4. q.inFlight <= MaxParallel
  BY DEF Sound, Typed, RunType, MarkRunning
<1>5. QED
  BY <1>2, <1>3, <1>4 DEF Sound, Slots

(* Two runs with the same node states and counter agree on their slots. *)
LEMMA SameSlots ==
  ASSUME NEW r, NEW q, Slots(r), q.state = r.state, q.inFlight = r.inFlight
  PROVE  Slots(q)
BY DEF Slots, RunningNodes

(* A node that leaves "running", or was not in it, gives its slot back once. *)
LEMMA SlotReleased ==
  ASSUME NEW r, Sound(r), NEW n \in Nodes, NEW x \in NodeStates \ {"running"},
         NEW q, q.state = [r.state EXCEPT ![n] = x], q.inFlight = ReleaseSlot(r, n)
  PROVE  Slots(q)
<1> DEFINE R == RunningNodes(r)
<1>1. r.state \in [Nodes -> NodeStates] /\ r.inFlight \in Nat
  BY DEF Sound, Typed, RunType
<1>2. RunningNodes(q) = R \ {n}
  BY <1>1 DEF RunningNodes
<1>3. IsFiniteSet(R) /\ Cardinality(R) \in Nat
  BY NodeSets DEF RunningNodes
<1>4. Cardinality(R \ {n}) = IF n \in R THEN Cardinality(R) - 1 ELSE Cardinality(R)
  BY <1>3, FS_RemoveElement
<1>5. n \in R <=> r.state[n] = "running"
  BY DEF RunningNodes
<1>6. r.inFlight = Cardinality(R) /\ r.inFlight <= MaxParallel
  BY DEF Sound, Slots
<1>7. n \in R => Cardinality(R) > 0
  BY <1>3, FS_EmptySet
<1>8. Cardinality(RunningNodes(q)) = q.inFlight
  BY <1>1, <1>2, <1>4, <1>5, <1>6, <1>7 DEF ReleaseSlot
<1>9. q.inFlight <= MaxParallel
  BY <1>1, <1>6, ConductorAssumption DEF ReleaseSlot
<1>10. QED
  BY <1>8, <1>9 DEF Slots

LEMMA FinishSound ==
  ASSUME NEW r, Sound(r), NEW x \in Statuses
  PROVE  Sound(Finish(r, x))
<1>1. Typed(Finish(r, x))
  BY DEF Finish, Sound, Typed, RunType
<1>2. Slots(Finish(r, x))
  BY SameSlots DEF Finish, Sound, Typed, RunType
<1>3. QED
  BY <1>1, <1>2 DEF Sound

LEMMA AskSound ==
  ASSUME NEW r, Sound(r)
  PROVE  Sound(AskOrchestrator(r))
<1> DEFINE q == AskOrchestrator(r)
<1>1. r \in RunType({r.checks}) /\ r.asks + 1 \in Nat
  BY DEF Sound, Typed, RunType
<1>2. q \in RunType({r.checks})
  BY <1>1 DEF AskOrchestrator, RunType
<1>3. q.checks = r.checks /\ Slots(q)
  BY SameSlots DEF AskOrchestrator, Sound, Typed, RunType
<1>4. QED
  BY <1>2, <1>3 DEF Sound, Typed

LEMMA MaybeFinishSound ==
  ASSUME NEW r, Sound(r)
  PROVE  Sound(MaybeFinish(r))
<1>1. Sound(EnterVerifying(r))
  <2> DEFINE q == [r EXCEPT !.status = "verifying", !.verified = r.output]
  <2>1. "verifying" \in Statuses
    BY DEF Statuses
  <2>2. r \in RunType({r.checks}) /\ r.output \in [Nodes -> Nat]
    BY DEF Sound, Typed, RunType
  <2>3. q \in RunType({r.checks})
    BY <2>1, <2>2 DEF RunType
  <2>4. q.checks = r.checks /\ Slots(q)
    BY SameSlots DEF Sound, Typed, RunType
  <2>5. QED
    BY <2>3, <2>4, AskSound DEF EnterVerifying, Sound, Typed
<1>2. Sound(Finish(r, "failed")) /\ Sound(Finish(r, "completed"))
  BY FinishSound DEF Statuses, Terminal
<1>3. QED
  BY <1>1, <1>2 DEF MaybeFinish

LEMMA ScheduleReadySound ==
  ASSUME NEW r, Sound(r)
  PROVE  Sound(ScheduleReady(r))
<1>1. Sound(MarkRunning(r, NextBatch(r)))
  BY BatchFits, MarkRunningSound
<1>2. Sound([r EXCEPT !.status = "paused"])
  <2>1. Typed([r EXCEPT !.status = "paused"])
    BY DEF Sound, Typed, RunType, Statuses
  <2>2. Slots([r EXCEPT !.status = "paused"])
    BY SameSlots DEF Sound, Typed, RunType
  <2>3. QED
    BY <2>1, <2>2 DEF Sound
<1>3. QED
  BY <1>1, <1>2, MaybeFinishSound DEF ScheduleReady

(* The run as a node's end leaves it, before it is rescheduled. *)
NodeDone(r, s) ==
  [r EXCEPT !.state[s[1]] = "done", !.output[s[1]] = s[2],
            !.inFlight = ReleaseSlot(r, s[1]), !.logState[s[1]] = "done"]

NodeRetried(r, n) == [r EXCEPT !.state[n] = "pending", !.inFlight = ReleaseSlot(r, n)]

NodeGivenUp(r, n) ==
  [r EXCEPT !.state[n] = "failed", !.inFlight = ReleaseSlot(r, n), !.logState[n] = "failed"]

LEMMA MarkNodeDoneSound ==
  ASSUME NEW r, Sound(r), NEW s \in Sessions
  PROVE  Sound(NodeDone(r, s)) /\ Sound(MarkNodeDone(r, s))
<1> DEFINE n == s[1]
           q == [r EXCEPT !.state[n] = "done", !.output[n] = s[2],
                          !.inFlight = ReleaseSlot(r, n), !.logState[n] = "done"]
<1>1. /\ r \in RunType({r.checks})
      /\ r.inFlight \in Nat
      /\ r.state \in [Nodes -> NodeStates]
      /\ r.logState \in [Nodes -> NodeStates \ {"running"}]
      /\ r.output \in [Nodes -> Nat]
  BY DEF Sound, Typed, RunType
<1>2. n \in Nodes /\ s[2] \in Nat /\ "done" \in NodeStates \ {"running"}
  BY DEF Sessions, NodeStates
<1>3. ReleaseSlot(r, n) \in Nat
  BY <1>1 DEF ReleaseSlot
<1>4. q \in RunType({r.checks})
  <2>1. /\ [r.state EXCEPT ![n] = "done"] \in [Nodes -> NodeStates]
        /\ [r.logState EXCEPT ![n] = "done"] \in [Nodes -> NodeStates \ {"running"}]
        /\ [r.output EXCEPT ![n] = s[2]] \in [Nodes -> Nat]
    BY <1>1, <1>2
  <2>2. QED
    BY <1>1, <1>3, <2>1 DEF RunType
<1>5. q.checks = r.checks
  BY <1>1 DEF RunType
<1>6. q.state = [r.state EXCEPT ![n] = "done"] /\ q.inFlight = ReleaseSlot(r, n)
  BY <1>1 DEF RunType
<1>7. Slots(q)
  BY <1>2, <1>6, SlotReleased
<1>8. Sound(q)
  BY <1>4, <1>5, <1>7 DEF Sound, Typed
<1>9. QED
  BY <1>8, ScheduleReadySound DEF NodeDone, MarkNodeDone

LEMMA RetryNodeSound ==
  ASSUME NEW r, Sound(r), NEW n \in Nodes
  PROVE  Sound(NodeRetried(r, n)) /\ Sound(RetryNode(r, n))
<1> DEFINE q == [r EXCEPT !.state[n] = "pending", !.inFlight = ReleaseSlot(r, n)]
<1>1. /\ r \in RunType({r.checks})
      /\ r.inFlight \in Nat
      /\ r.state \in [Nodes -> NodeStates]
      /\ "pending" \in NodeStates \ {"running"}
  BY DEF Sound, Typed, RunType, NodeStates
<1>2. ReleaseSlot(r, n) \in Nat
  BY <1>1 DEF ReleaseSlot
<1>3. q \in RunType({r.checks})
  <2>1. [r.state EXCEPT ![n] = "pending"] \in [Nodes -> NodeStates]
    BY <1>1
  <2>2. QED
    BY <1>1, <1>2, <2>1 DEF RunType
<1>4. q.checks = r.checks
  BY <1>1 DEF RunType
<1>5. q.state = [r.state EXCEPT ![n] = "pending"] /\ q.inFlight = ReleaseSlot(r, n)
  BY <1>1 DEF RunType
<1>6. Slots(q)
  BY <1>1, <1>5, SlotReleased
<1>7. Sound(q)
  BY <1>3, <1>4, <1>6 DEF Sound, Typed
<1>8. QED
  BY <1>7, ScheduleReadySound DEF NodeRetried, RetryNode

LEMMA GiveUpNodeSound ==
  ASSUME NEW r, Sound(r), NEW n \in Nodes
  PROVE  Sound(NodeGivenUp(r, n)) /\ Sound(GiveUpNode(r, n))
<1> DEFINE q == [r EXCEPT !.state[n] = "failed", !.inFlight = ReleaseSlot(r, n),
                          !.logState[n] = "failed"]
<1>1. /\ r \in RunType({r.checks})
      /\ r.inFlight \in Nat
      /\ r.state \in [Nodes -> NodeStates]
      /\ r.logState \in [Nodes -> NodeStates \ {"running"}]
      /\ "failed" \in NodeStates \ {"running"}
  BY DEF Sound, Typed, RunType, NodeStates
<1>2. ReleaseSlot(r, n) \in Nat
  BY <1>1 DEF ReleaseSlot
<1>3. q \in RunType({r.checks})
  <2>1. /\ [r.state EXCEPT ![n] = "failed"] \in [Nodes -> NodeStates]
        /\ [r.logState EXCEPT ![n] = "failed"] \in [Nodes -> NodeStates \ {"running"}]
    BY <1>1
  <2>2. QED
    BY <1>1, <1>2, <2>1 DEF RunType
<1>4. q.checks = r.checks
  BY <1>1 DEF RunType
<1>5. q.state = [r.state EXCEPT ![n] = "failed"] /\ q.inFlight = ReleaseSlot(r, n)
  BY <1>1 DEF RunType
<1>6. Slots(q)
  BY <1>1, <1>5, SlotReleased
<1>7. Sound(q)
  BY <1>3, <1>4, <1>6 DEF Sound, Typed
<1>8. QED
  BY <1>7, ScheduleReadySound DEF NodeGivenUp, GiveUpNode

LEMMA FailNodeSound ==
  ASSUME NEW r, Sound(r), NEW n \in Nodes
  PROVE  Sound(FailNode(r, n))
BY RetryNodeSound, GiveUpNodeSound DEF FailNode

(* What a session tells the run when one of its turns ended. *)
Completions ==
  [ reason : {"complete", "interrupted", "error"}, reply : BOOLEAN,
    background : BOOLEAN, fromUser : BOOLEAN, over : BOOLEAN ]

LEMMA MeterTokensSound ==
  ASSUME NEW r, Sound(r), NEW over \in BOOLEAN
  PROVE  Sound(MeterTokens(r, over))
<1>1. r \in RunType({r.checks}) /\ "paused" \in Statuses
  BY DEF Sound, Typed, Statuses
<1>2. Sound([r EXCEPT !.overBudget = over])
  <2> DEFINE q == [r EXCEPT !.overBudget = over]
  <2>1. q \in RunType({r.checks}) /\ q.checks = r.checks
    BY <1>1 DEF RunType
  <2>2. Slots(q)
    BY <1>1, SameSlots DEF Sound, RunType
  <2>3. QED
    BY <2>1, <2>2 DEF Sound, Typed
<1>3. ASSUME NEW m, Sound(m)
      PROVE  Sound([m EXCEPT !.status = "paused"])
  <2> DEFINE q == [m EXCEPT !.status = "paused"]
  <2>1. m \in RunType({m.checks})
    BY <1>3 DEF Sound, Typed
  <2>2. q \in RunType({m.checks}) /\ q.checks = m.checks
    BY <1>1, <2>1 DEF RunType
  <2>3. Slots(q)
    BY <1>3, <2>1, SameSlots DEF Sound, RunType
  <2>4. QED
    BY <1>3, <2>2, <2>3 DEF Sound, Typed
<1>4. QED
  BY <1>2, <1>3 DEF MeterTokens

(* Bags of sessions. *)
LEMMA BagLemma ==
  /\ Bagged(EmptyBag)
  /\ \A bag, s : Bagged(bag) /\ s \in Sessions =>
       Bagged(bag (+) SetToBag({s})) /\ Bagged(bag (-) SetToBag({s}))
<1>1. Bagged(EmptyBag)
  BY DEF Bagged, EmptyBag, IsABag, BagToSet, SetToBag
<1>2. ASSUME NEW bag, NEW s, Bagged(bag), s \in Sessions
      PROVE  Bagged(bag (+) SetToBag({s}))
  BY <1>2 DEF Bagged, IsABag, BagToSet, SetToBag, (+)
<1>3. ASSUME NEW bag, NEW s, Bagged(bag), s \in Sessions
      PROVE  Bagged(bag (-) SetToBag({s}))
  BY <1>3 DEF Bagged, IsABag, BagToSet, SetToBag, (-)
<1>4. QED
  BY <1>1, <1>2, <1>3

LEMMA ChecksSound ==
  ASSUME NEW r, Sound(r), NEW bag, Bagged(bag)
  PROVE  Sound([r EXCEPT !.checks = bag])
<1> DEFINE q == [r EXCEPT !.checks = bag]
<1>1. r \in RunType({r.checks})
  BY DEF Sound, Typed
<1>2. q \in RunType({bag}) /\ q.checks = bag
  BY <1>1 DEF RunType
<1>3. Slots(q)
  BY <1>1, SameSlots DEF Sound, RunType
<1>4. QED
  BY <1>2, <1>3 DEF Sound, Typed

LEMMA NodeRepliedSound ==
  ASSUME NEW r, Sound(r), NEW s \in Sessions
  PROVE  Sound(NodeReplied(r, s))
<1>1. s[1] \in Nodes
  BY DEF Sessions
<1>2. Sound(FailNode(r, s[1])) /\ Sound(MarkNodeDone(r, s))
  BY <1>1, FailNodeSound, MarkNodeDoneSound
<1>3. Sound([r EXCEPT !.checks = @ (+) SetToBag({s})])
  <2>1. Bagged(r.checks (+) SetToBag({s}))
    BY BagLemma DEF Sound, Typed
  <2>2. QED
    BY <2>1, ChecksSound
<1>4. QED
  BY <1>2, <1>3 DEF NodeReplied

(* The run once the text of a turn is kept and its node waits no longer. *)
Answered(r, s, e) ==
  [[r EXCEPT !.replied[s[1]] = @ \/ e.reply] EXCEPT !.waiting[s[1]] = FALSE]

LEMMA TurnCompletedSound ==
  ASSUME NEW r, Sound(r), NEW s \in Sessions, NEW e \in Completions
  PROVE  Sound(Answered(r, s, e)) /\ Sound(TurnCompleted(r, s, e))
<1> DEFINE heard    == [r EXCEPT !.replied[s[1]] = @ \/ e.reply]
           answered == [heard EXCEPT !.waiting[s[1]] = FALSE]
<1>1. r \in RunType({r.checks}) /\ r.replied \in [Nodes -> BOOLEAN]
  BY DEF Sound, Typed, RunType
<1>2. Sound(heard)
  <2>1. [r.replied EXCEPT ![s[1]] = @ \/ e.reply] \in [Nodes -> BOOLEAN]
    BY <1>1 DEF Sessions, Completions
  <2>2. heard \in RunType({r.checks}) /\ heard.checks = r.checks
    BY <1>1, <2>1 DEF RunType
  <2>3. Slots(heard)
    BY <1>1, SameSlots DEF Sound, RunType
  <2>4. QED
    BY <2>2, <2>3 DEF Sound, Typed
<1>3. Sound(answered)
  <2> HIDE DEF heard
  <2>1. heard \in RunType({heard.checks}) /\ heard.waiting \in [Nodes -> BOOLEAN]
    BY <1>2 DEF Sound, Typed, RunType
  <2>2. [heard.waiting EXCEPT ![s[1]] = FALSE] \in [Nodes -> BOOLEAN]
    BY <2>1 DEF Sessions
  <2>3. answered \in RunType({heard.checks}) /\ answered.checks = heard.checks
    BY <2>1, <2>2 DEF RunType
  <2>4. Slots(answered)
    BY <1>2, <2>1, SameSlots DEF Sound, RunType
  <2>5. QED
    BY <1>2, <2>3, <2>4 DEF Sound, Typed
<1>4. Sound(NodeReplied(answered, s))
  BY <1>3, NodeRepliedSound
<1>5. QED
  <2>1. Sound(TurnCompleted(r, s, e))
    BY <1>2, <1>3, <1>4, Zenon DEF TurnCompleted
  <2>2. Sound(Answered(r, s, e))
    BY <1>3, Zenon DEF Answered
  <2>3. QED
    BY <2>1, <2>2

LEMMA OnSessionCompleteSound ==
  ASSUME NEW r, Sound(r), NEW s \in Sessions, NEW e \in Completions
  PROVE  Sound(OnSessionComplete(r, s, e))
<1> DEFINE m == MeterTokens(r, e.over)
<1>1. Sound(m)
  BY MeterTokensSound DEF Completions
<1>2. Sound([m EXCEPT !.waiting[s[1]] = TRUE])
  <2> HIDE DEF m
  <2> DEFINE q == [m EXCEPT !.waiting[s[1]] = TRUE]
  <2>1. m \in RunType({m.checks}) /\ m.waiting \in [Nodes -> BOOLEAN]
    BY <1>1 DEF Sound, Typed, RunType
  <2>2. [m.waiting EXCEPT ![s[1]] = TRUE] \in [Nodes -> BOOLEAN]
    BY <2>1 DEF Sessions
  <2>3. q \in RunType({m.checks}) /\ q.checks = m.checks
    BY <2>1, <2>2 DEF RunType
  <2>4. Slots(q)
    BY <1>1, <2>1, SameSlots DEF Sound, RunType
  <2>5. QED
    BY <1>1, <2>3, <2>4 DEF Sound, Typed
<1>3. Sound(FailNode(m, s[1]))
  BY <1>1, FailNodeSound DEF Sessions
<1>4. Sound(TurnCompleted(m, s, e))
  BY <1>1, TurnCompletedSound
<1>5. e.reason \in {"complete", "interrupted", "error"}
  BY DEF Completions
<1>6. QED
  <2> HIDE DEF m
  <2>1. OnSessionComplete(r, s, e) =
          IF ~Accepts(r, s) THEN r
          ELSE CASE e.reason = "interrupted" -> [m EXCEPT !.waiting[s[1]] = TRUE]
                 [] e.reason = "error"       -> FailNode(m, s[1])
                 [] e.reason = "complete"    -> TurnCompleted(m, s, e)
    BY DEF OnSessionComplete, m
  <2>2. CASE ~Accepts(r, s)
    BY <2>1, <2>2
  <2>3. CASE Accepts(r, s) /\ e.reason = "interrupted"
    BY <1>2, <2>1, <2>3
  <2>4. CASE Accepts(r, s) /\ e.reason = "error"
    BY <1>3, <2>1, <2>4
  <2>5. CASE Accepts(r, s) /\ e.reason = "complete"
    BY <1>4, <2>1, <2>5
  <2>6. QED
    BY <1>5, <2>2, <2>3, <2>4, <2>5

LEMMA OutcomeKnownSound ==
  ASSUME NEW r, Sound(r), NEW s \in Sessions, NEW finished
  PROVE  Sound(OutcomeKnown(r, s, finished))
<1> DEFINE answered == [r EXCEPT !.checks = @ (-) SetToBag({s})]
<1>1. Sound(answered)
  <2>1. Bagged(r.checks (-) SetToBag({s}))
    BY BagLemma DEF Sound, Typed
  <2>2. QED
    BY <2>1, ChecksSound
<1>2. Sound(MarkNodeDone(answered, s)) /\ Sound(FailNode(answered, s[1]))
  BY <1>1, MarkNodeDoneSound, FailNodeSound DEF Sessions
<1>3. QED
  BY <1>1, <1>2 DEF OutcomeKnown

(* The run as a repair pass leaves it, before it is rescheduled. *)
Redone(r, names) == {n \in Frontier(names) : r.state[n] = "done"}

Repairing(r, names) ==
  [r EXCEPT !.status = "running", !.repairs = @ + 1,
            !.state = [n \in Nodes |-> IF n \in Redone(r, names) THEN "pending" ELSE r.state[n]]]

LEMMA RepairForVerdictSound ==
  ASSUME NEW r, Sound(r), NEW names
  PROVE  Sound(Repairing(r, names)) /\ Sound(RepairForVerdict(r, names))
<1> DEFINE reset == {n \in Frontier(names) : r.state[n] = "done"}
           state == [n \in Nodes |-> IF n \in reset THEN "pending" ELSE r.state[n]]
           q == [r EXCEPT !.status = "running", !.repairs = @ + 1, !.state = state]
<1>1. /\ r \in RunType({r.checks})
      /\ r.repairs + 1 \in Nat
      /\ r.state \in [Nodes -> NodeStates]
      /\ "running" \in Statuses
  BY DEF Sound, Typed, RunType, Statuses
<1>2. state \in [Nodes -> NodeStates]
  BY <1>1 DEF NodeStates
<1>3. q \in RunType({r.checks}) /\ q.checks = r.checks
  <2> HIDE DEF state
  <2> QED
    BY <1>1, <1>2 DEF RunType
<1>4. q.inFlight = r.inFlight /\ q.state = state
  <2> HIDE DEF state
  <2> QED
    BY <1>1 DEF RunType
<1>5. RunningNodes(q) = RunningNodes(r)
  <2>1. \A n \in Nodes : state[n] = "running" <=> r.state[n] = "running"
    OBVIOUS
  <2>2. QED
    BY <1>4, <2>1, Zenon DEF RunningNodes
<1>6. Sound(q)
  BY <1>3, <1>4, <1>5 DEF Sound, Typed, Slots
<1>7. Sound(ScheduleReady(q)) /\ Sound(Finish(r, "failed"))
  BY <1>6, ScheduleReadySound, FinishSound DEF Statuses, Terminal
<1>8. QED
  <2>1. Sound(Repairing(r, names))
    BY <1>6, Zenon DEF Repairing, Redone
  <2>2. Sound(RepairForVerdict(r, names))
    BY <1>7, Zenon DEF RepairForVerdict
  <2>3. QED
    BY <2>1, <2>2

LEMMA LogVerdictSound ==
  ASSUME NEW r, Sound(r), NEW result \in {"pass", "fail", "unparsed"}
  PROVE  Sound(LogVerdict(r, result))
<1> DEFINE fails    == IF result = "fail" THEN r.logFails + 1 ELSE r.logFails
           unparsed == CASE result = "unparsed" -> r.logUnparsed + 1
                         [] result = "pass"     -> 0
                         [] result = "fail"     -> r.logUnparsed
           q == [r EXCEPT !.logFails = fails, !.logUnparsed = unparsed]
<1>1. r \in RunType({r.checks}) /\ r.logFails \in Nat /\ r.logUnparsed \in Nat
  BY DEF Sound, Typed, RunType
<1>2. fails \in Nat /\ unparsed \in Nat
  BY <1>1
<1>3. LogVerdict(r, result) = q
  BY DEF LogVerdict
<1>4. q \in RunType({r.checks}) /\ q.checks = r.checks
  <2> HIDE DEF fails, unparsed
  <2> QED
    BY <1>1, <1>2 DEF RunType
<1>5. Slots(q)
  <2> HIDE DEF fails, unparsed
  <2> QED
    BY <1>1, SameSlots DEF Sound, RunType
<1>6. QED
  BY <1>3, <1>4, <1>5 DEF Sound, Typed

LEMMA ReAsksSound ==
  ASSUME NEW r, Sound(r), NEW k \in Nat
  PROVE  Sound([r EXCEPT !.reAsks = k])
<1> DEFINE q == [r EXCEPT !.reAsks = k]
<1>1. r \in RunType({r.checks})
  BY DEF Sound, Typed
<1>2. q \in RunType({r.checks}) /\ q.checks = r.checks
  BY <1>1 DEF RunType
<1>3. Slots(q)
  BY <1>1, SameSlots DEF Sound, RunType
<1>4. QED
  BY <1>2, <1>3 DEF Sound, Typed

LEMMA ApplyPassSound ==
  ASSUME NEW r, Sound(r)
  PROVE  Sound(ApplyPass(r))
BY ReAsksSound, FinishSound DEF ApplyPass, Statuses, Terminal

LEMMA ApplyUnparsedSound ==
  ASSUME NEW r, Sound(r)
  PROVE  Sound(ApplyUnparsed(r))
<1>1. r.reAsks + 1 \in Nat
  BY DEF Sound, Typed, RunType
<1>2. Sound([r EXCEPT !.reAsks = @ + 1])
  BY <1>1, ReAsksSound
<1>3. Sound(AskOrchestrator([r EXCEPT !.reAsks = @ + 1])) /\ Sound(Finish(r, "failed"))
  BY <1>2, AskSound, FinishSound DEF Statuses, Terminal
<1>4. QED
  BY <1>3 DEF ApplyUnparsed

LEMMA HopSound ==
  ASSUME NEW r, Sound(r), NEW hop \in {"none", "decide", "scope"}
  PROVE  Sound([r EXCEPT !.hop = hop])
<1> DEFINE q == [r EXCEPT !.hop = hop]
<1>1. r \in RunType({r.checks})
  BY DEF Sound, Typed
<1>2. q \in RunType({r.checks}) /\ q.checks = r.checks
  BY <1>1 DEF RunType
<1>3. Slots(q)
  BY <1>1, SameSlots DEF Sound, RunType
<1>4. QED
  BY <1>2, <1>3 DEF Sound, Typed

LEMMA SpentSound ==
  ASSUME NEW r, Sound(r)
  PROVE  Sound([r EXCEPT !.repairsUsed = @ + 1, !.lastScoped = FALSE])
<1> DEFINE q == [r EXCEPT !.repairsUsed = @ + 1, !.lastScoped = FALSE]
<1>1. r \in RunType({r.checks}) /\ r.repairsUsed + 1 \in Nat
  BY DEF Sound, Typed, RunType
<1>2. q \in RunType({r.checks}) /\ q.checks = r.checks
  BY <1>1 DEF RunType
<1>3. Slots(q)
  BY <1>1, SameSlots DEF Sound, RunType
<1>4. QED
  BY <1>2, <1>3 DEF Sound, Typed

LEMMA ApplyFailSound ==
  ASSUME NEW r, Sound(r), NEW v \in Verdicts
  PROVE  Sound(ApplyFail(r, v))
<1> DEFINE spent == [r EXCEPT !.repairsUsed = @ + 1, !.lastScoped = FALSE]
<1>1. Sound(spent)
  BY SpentSound
<1>2. Sound([spent EXCEPT !.hop = "scope"]) /\ Sound(RepairForVerdict(spent, v.names))
  BY <1>1, HopSound, RepairForVerdictSound
<1>3. Sound(Finish(r, "failed"))
  BY FinishSound DEF Statuses, Terminal
<1>4. QED
  BY <1>2, <1>3, Zenon DEF ApplyFail

LEMMA ApplyVerdictSound ==
  ASSUME NEW r, Sound(r), NEW v \in Verdicts
  PROVE  Sound(ApplyVerdict(r, v))
<1>1. v.result \in {"pass", "fail", "unparsed"}
  BY DEF Verdicts
<1>2. Sound(ApplyPass(r)) /\ Sound(ApplyUnparsed(r)) /\ Sound(ApplyFail(r, v))
  BY ApplyPassSound, ApplyUnparsedSound, ApplyFailSound
<1>3. QED
  BY <1>1, <1>2 DEF ApplyVerdict

LEMMA HandleVerdictSound ==
  ASSUME NEW r, Sound(r), NEW v \in Verdicts
  PROVE  Sound(HandleVerdict(r, v))
<1>1. v.result \in {"pass", "fail", "unparsed"}
  BY DEF Verdicts
<1>2. Sound([r EXCEPT !.hop = "decide"])
  BY HopSound
<1>3. Sound(ApplyVerdict(LogVerdict(r, v.result), v))
  BY <1>1, LogVerdictSound, ApplyVerdictSound
<1>4. QED
  BY <1>2, <1>3 DEF HandleVerdict

LEMMA VerdictDecidedSound ==
  ASSUME NEW r, Sound(r), NEW v \in Verdicts
  PROVE  Sound(VerdictDecided(r, v))
<1> DEFINE answered == [r EXCEPT !.hop = "none"]
<1>1. v.result \in {"pass", "fail", "unparsed"}
  BY DEF Verdicts
<1>2. Sound(answered)
  BY HopSound
<1>3. Sound(ApplyVerdict(LogVerdict(answered, v.result), v))
  BY <1>1, <1>2, LogVerdictSound, ApplyVerdictSound
<1>4. QED
  BY <1>2, <1>3 DEF VerdictDecided

LEMMA RepairScopedSound ==
  ASSUME NEW r, Sound(r), NEW names
  PROVE  /\ Sound([[r EXCEPT !.hop = "none"] EXCEPT !.lastScoped = (names # {})])
         /\ Sound(RepairScoped(r, names))
<1> DEFINE answered == [r EXCEPT !.hop = "none"]
           q == [answered EXCEPT !.lastScoped = (names # {})]
<1>1. Sound(answered)
  BY HopSound
<1>2. Sound(q)
  <2> HIDE DEF answered
  <2>1. answered \in RunType({answered.checks})
    BY <1>1 DEF Sound, Typed
  <2>2. q \in RunType({answered.checks}) /\ q.checks = answered.checks
    BY <2>1 DEF RunType
  <2>3. Slots(q)
    BY <1>1, <2>1, SameSlots DEF Sound, RunType
  <2>4. QED
    BY <1>1, <2>2, <2>3 DEF Sound, Typed
<1>3. Sound(RepairForVerdict(q, names))
  BY <1>2, RepairForVerdictSound
<1>4. QED
  BY <1>1, <1>2, <1>3 DEF RepairScoped

(* What the orchestrator session tells the run when one of its turns ended. *)
Answers ==
  [reason : {"complete", "interrupted"}, background : BOOLEAN, verdict : Verdicts]

LEMMA OnOrchestratorCompleteSound ==
  ASSUME NEW r, Sound(r), NEW e \in Answers
  PROVE  Sound([r EXCEPT !.listening = FALSE]) /\ Sound(OnOrchestratorComplete(r, e))
<1> DEFINE q == [r EXCEPT !.listening = FALSE]
<1>1. r \in RunType({r.checks})
  BY DEF Sound, Typed
<1>2. q \in RunType({r.checks}) /\ q.checks = r.checks
  BY <1>1 DEF RunType
<1>3. Slots(q)
  BY <1>1, SameSlots DEF Sound, RunType
<1>4. Sound(q)
  BY <1>2, <1>3 DEF Sound, Typed
<1>5. Sound(HandleVerdict(q, e.verdict))
  BY <1>4, HandleVerdictSound DEF Answers
<1>6. QED
  BY <1>4, <1>5 DEF OnOrchestratorComplete

LEMMA AsksSound ==
  ASSUME NEW r, Sound(r), r.asks > 0
  PROVE  Sound([r EXCEPT !.asks = @ - 1])
<1> DEFINE q == [r EXCEPT !.asks = @ - 1]
<1>1. r \in RunType({r.checks}) /\ r.asks - 1 \in Nat
  BY DEF Sound, Typed, RunType
<1>2. q \in RunType({r.checks}) /\ q.checks = r.checks
  BY <1>1 DEF RunType
<1>3. Slots(q)
  BY <1>1, SameSlots DEF Sound, RunType
<1>4. QED
  BY <1>2, <1>3 DEF Sound, Typed

LEMMA AskRejectedSound ==
  ASSUME NEW r, Sound(r), r.asks > 0
  PROVE  Sound(AskRejected(r))
BY AsksSound, FinishSound DEF AskRejected, Statuses, Terminal

LEMMA StatusSound ==
  ASSUME NEW r, Sound(r), NEW status \in Statuses
  PROVE  Sound([r EXCEPT !.status = status])
<1> DEFINE q == [r EXCEPT !.status = status]
<1>1. r \in RunType({r.checks})
  BY DEF Sound, Typed
<1>2. q \in RunType({r.checks}) /\ q.checks = r.checks
  BY <1>1 DEF RunType
<1>3. Slots(q)
  BY <1>1, SameSlots DEF Sound, RunType
<1>4. QED
  BY <1>2, <1>3 DEF Sound, Typed

LEMMA PauseRunSound ==
  ASSUME NEW r, Sound(r)
  PROVE  Sound(PauseRun(r))
BY StatusSound DEF PauseRun, Statuses

LEMMA ResumeRunSound ==
  ASSUME NEW r, Sound(r)
  PROVE  /\ Sound([r EXCEPT !.status = "running", !.state = CancelledToPending(@)])
         /\ Sound(ResumeRun(r))
<1> DEFINE state == CancelledToPending(r.state)
           q == [r EXCEPT !.status = "running", !.state = state]
<1>1. /\ r \in RunType({r.checks})
      /\ r.state \in [Nodes -> NodeStates]
      /\ "running" \in Statuses
  BY DEF Sound, Typed, RunType, Statuses
<1>2. state \in [Nodes -> NodeStates]
  BY <1>1 DEF CancelledToPending, NodeStates
<1>3. q \in RunType({r.checks}) /\ q.checks = r.checks
  <2> HIDE DEF state
  <2> QED
    BY <1>1, <1>2 DEF RunType
<1>4. q.inFlight = r.inFlight /\ q.state = state
  <2> HIDE DEF state
  <2> QED
    BY <1>1 DEF RunType
<1>5. RunningNodes(q) = RunningNodes(r)
  <2>1. \A n \in Nodes : state[n] = "running" <=> r.state[n] = "running"
    BY DEF CancelledToPending
  <2>2. QED
    BY <1>4, <2>1, Zenon DEF RunningNodes
<1>6. Sound(q)
  BY <1>3, <1>4, <1>5 DEF Sound, Typed, Slots
<1>7. QED
  BY <1>6, ScheduleReadySound DEF ResumeRun

LEMMA NoSlots ==
  ASSUME NEW r, r.inFlight = 0, \A n \in Nodes : r.state[n] # "running"
  PROVE  Slots(r)
<1>1. RunningNodes(r) = {}
  BY DEF RunningNodes
<1>2. QED
  BY <1>1, FS_EmptySet, ConductorAssumption DEF Slots

LEMMA StopRunSound ==
  ASSUME NEW r, Sound(r)
  PROVE  Sound(StopRun(r))
<1> DEFINE Cancel(f) == [n \in Nodes |-> IF n \in RunningNodes(r) THEN "cancelled" ELSE f[n]]
           state     == Cancel(r.state)
           logState  == Cancel(r.logState)
           finished  == Finish(r, "stopped")
           q == [finished EXCEPT !.state = state, !.logState = logState, !.inFlight = 0]
<1>1. Sound(finished)
  BY FinishSound DEF Statuses, Terminal
<1>2. /\ r.state \in [Nodes -> NodeStates]
      /\ r.logState \in [Nodes -> NodeStates \ {"running"}]
  BY DEF Sound, Typed, RunType
<1>3. state \in [Nodes -> NodeStates] /\ logState \in [Nodes -> NodeStates \ {"running"}]
  BY <1>2 DEF NodeStates
<1>4. \A n \in Nodes : state[n] # "running"
  BY DEF RunningNodes
<1>5. Sound(q)
  <2> HIDE DEF finished, state, logState
  <2>1. finished \in RunType({finished.checks})
    BY <1>1 DEF Sound, Typed
  <2>2. q \in RunType({finished.checks}) /\ q.checks = finished.checks
    BY <1>3, <2>1 DEF RunType
  <2>3. q.state = state /\ q.inFlight = 0
    BY <2>1 DEF RunType
  <2>4. Slots(q)
    BY <1>4, <2>3, NoSlots
  <2>5. QED
    BY <1>1, <2>2, <2>4 DEF Sound, Typed
<1>6. QED
  BY <1>5, Zenon DEF StopRun

LEMMA LostSound ==
  ASSUME NEW r, Sound(r)
  PROVE  Sound(Lost(r))
<1> DEFINE q == Lost(r)
<1>1. r \in RunType({r.checks})
  BY DEF Sound, Typed
<1>2. q \in RunType({EmptyBag}) /\ q.checks = EmptyBag
  BY <1>1 DEF RunType, Lost
<1>3. Slots(q)
  BY <1>1, SameSlots DEF Sound, RunType, Lost
<1>4. QED
  BY <1>2, <1>3, BagLemma DEF Sound, Typed

LEMMA HydrateSound ==
  ASSUME NEW r, Sound(r)
  PROVE  Sound(Hydrate(r))
<1> DEFINE state  == CancelledToPending(r.logState)
           nobody == [n \in Nodes |-> FALSE]
           q == Hydrate(r)
<1>1. /\ r \in RunType({r.checks})
      /\ r.logState \in [Nodes -> NodeStates \ {"running"}]
      /\ r.logFails \in Nat /\ r.logUnparsed \in Nat
      /\ "running" \in Statuses
  BY DEF Sound, Typed, RunType, Statuses
<1>2. state \in [Nodes -> NodeStates] /\ nobody \in [Nodes -> BOOLEAN]
  BY <1>1 DEF CancelledToPending, NodeStates
<1>3. \A n \in Nodes : state[n] # "running"
  BY <1>1 DEF CancelledToPending
<1>4. q = [r EXCEPT !.status = "running", !.settled = FALSE, !.inFlight = 0,
                    !.state = state, !.waiting = nobody, !.replied = nobody,
                    !.repairsUsed = r.logFails, !.reAsks = r.logUnparsed,
                    !.lastScoped = FALSE]
  BY DEF Hydrate
<1>5. /\ q \in RunType({r.checks})
      /\ q.checks = r.checks
  <2> HIDE DEF state, nobody, q
  <2>1. q \in RunType({r.checks})
    BY <1>1, <1>2, <1>4 DEF RunType
  <2>2. q.checks = r.checks
    BY <1>1, <1>4 DEF RunType
  <2>3. QED
    BY <2>1, <2>2
<1>6. q.state = state /\ q.inFlight = 0
  <2> HIDE DEF state, nobody, q
  <2> QED
    BY <1>1, <1>4 DEF RunType
<1>7. Slots(q)
  <2> HIDE DEF q, state
  <2> QED
    BY <1>3, <1>6, NoSlots
<1>8. QED
  BY <1>5, <1>7 DEF Sound, Typed

LEMMA FreshRunSound == Sound(FreshRun)
<1>1. /\ "running" \in Statuses
      /\ "pending" \in NodeStates \ {"running"}
      /\ {} \in SUBSET Sessions
  BY DEF Statuses, NodeStates
<1>2. FreshRun \in RunType({EmptyBag}) /\ FreshRun.checks = EmptyBag
  BY <1>1 DEF FreshRun, RunType
<1>3. FreshRun.inFlight = 0 /\ \A n \in Nodes : FreshRun.state[n] # "running"
  BY DEF FreshRun
<1>4. Slots(FreshRun)
  BY <1>3, NoSlots
<1>5. QED
  BY <1>2, <1>4, BagLemma DEF Sound, Typed

-----------------------------------------------------------------------------
(* Every action keeps the run well typed and its slots counted. *)

EnvironmentOK ==
  /\ up \in BOOLEAN
  /\ userTurns \in SUBSET Sessions
  /\ wakeTurns \in SUBSET Sessions
  /\ background \in SUBSET Sessions
  /\ orchestrator \in [busy : BOOLEAN, background : BOOLEAN, held : BOOLEAN]
  /\ foreign \in Nat
  /\ crashes \in Nat

SoundInv == Sound(run) /\ EnvironmentOK

LEMMA SoundInvMeaning == SoundInv <=> TypeOK /\ SlotsExact
BY DEF SoundInv, Sound, Typed, Bagged, Slots, EnvironmentOK, TypeOK, SlotsExact

LEMMA SoundFields ==
  ASSUME NEW r, Sound(r)
  PROVE  /\ r \in RunType({r.checks})
         /\ r.creating \in SUBSET Sessions
         /\ r.sending \in SUBSET Sessions
         /\ r.created \in SUBSET Sessions
         /\ r.session \in [Nodes -> Nat]
         /\ r.asks \in Nat
         /\ r.overBudget \in BOOLEAN
BY DEF Sound, Typed, RunType

LEMMA InitSound == Init => SoundInv
<1> SUFFICES ASSUME Init PROVE SoundInv
  OBVIOUS
<1>1. Sound(run)
  BY FreshRunSound, ScheduleReadySound DEF Init
<1>2. EnvironmentOK
  BY DEF Init, EnvironmentOK
<1>3. QED
  BY <1>1, <1>2 DEF SoundInv

LEMMA SessionCreatedSound ==
  ASSUME NEW r, Sound(r), NEW s \in Sessions
  PROVE  Sound([r EXCEPT !.creating = @ \ {s}, !.sending = @ \cup {s},
                         !.created = @ \cup {s}, !.session[s[1]] = s[2]])
<1> DEFINE session == [r.session EXCEPT ![s[1]] = s[2]]
           q == [r EXCEPT !.creating = @ \ {s}, !.sending = @ \cup {s},
                          !.created = @ \cup {s}, !.session = session]
<1>1. /\ r.creating \ {s} \in SUBSET Sessions
      /\ r.sending \cup {s} \in SUBSET Sessions
      /\ r.created \cup {s} \in SUBSET Sessions
      /\ session \in [Nodes -> Nat]
      /\ r \in RunType({r.checks})
  BY SoundFields DEF Sessions
<1>2. q \in RunType({r.checks}) /\ q.checks = r.checks
  <2> HIDE DEF session
  <2> QED
    BY <1>1 DEF RunType
<1>3. Slots(q)
  <2> HIDE DEF session
  <2> QED
    BY <1>1, SameSlots DEF Sound, RunType
<1>4. QED
  BY <1>2, <1>3 DEF Sound, Typed

LEMMA CreatingSound ==
  ASSUME NEW r, Sound(r), NEW s
  PROVE  Sound([r EXCEPT !.creating = @ \ {s}])
<1> DEFINE q == [r EXCEPT !.creating = @ \ {s}]
<1>1. r \in RunType({r.checks}) /\ r.creating \ {s} \in SUBSET Sessions
  BY SoundFields
<1>2. q \in RunType({r.checks}) /\ q.checks = r.checks
  BY <1>1 DEF RunType
<1>3. Slots(q)
  BY <1>1, SameSlots DEF Sound, RunType
<1>4. QED
  BY <1>2, <1>3 DEF Sound, Typed

LEMMA SendingSound ==
  ASSUME NEW r, Sound(r), NEW s
  PROVE  Sound([r EXCEPT !.sending = @ \ {s}])
<1> DEFINE q == [r EXCEPT !.sending = @ \ {s}]
<1>1. r \in RunType({r.checks}) /\ r.sending \ {s} \in SUBSET Sessions
  BY SoundFields
<1>2. q \in RunType({r.checks}) /\ q.checks = r.checks
  BY <1>1 DEF RunType
<1>3. Slots(q)
  BY <1>1, SameSlots DEF Sound, RunType
<1>4. QED
  BY <1>2, <1>3 DEF Sound, Typed

LEMMA DispatchStepSound ==
  ASSUME SoundInv, DispatchProceeds
  PROVE  SoundInv'
<1>1. ASSUME NEW s \in run.creating, SessionCreated(s)
      PROVE  SoundInv'
  <2>1. s \in Sessions /\ Sound(run)
    BY SoundFields DEF SoundInv
  <2>2. Sound(run')
    BY <1>1, <2>1, SessionCreatedSound DEF SessionCreated
  <2>3. QED
    BY <1>1, <2>2 DEF SoundInv, EnvironmentOK, SessionCreated
<1>2. ASSUME NEW s \in run.creating, SessionRefused(s)
      PROVE  SoundInv'
  <2>1. s[1] \in Nodes /\ Sound(run)
    <3>1. s \in Sessions /\ Sound(run)
      BY SoundFields DEF SoundInv
    <3>2. QED
      BY <3>1 DEF Sessions
  <2>2. Sound(run')
    BY <1>2, <2>1, CreatingSound, FailNodeSound DEF SessionRefused
  <2>3. QED
    BY <1>2, <2>2 DEF SoundInv, EnvironmentOK, SessionRefused
<1>3. ASSUME NEW s \in run.sending, PromptSent(s)
      PROVE  SoundInv'
  <2>1. s \in Sessions /\ Sound(run)
    BY SoundFields DEF SoundInv
  <2>2. Sound(run')
    BY <1>3, <2>1, SendingSound DEF PromptSent
  <2>3. QED
    BY <1>3, <2>1, <2>2 DEF SoundInv, EnvironmentOK, PromptSent, BeginUserTurn
<1>4. ASSUME NEW s \in run.sending, PromptRejected(s)
      PROVE  SoundInv'
  <2>1. s[1] \in Nodes /\ Sound(run)
    <3>1. s \in Sessions /\ Sound(run)
      BY SoundFields DEF SoundInv
    <3>2. QED
      BY <3>1 DEF Sessions
  <2>2. Sound(run')
    BY <1>4, <2>1, SendingSound, FailNodeSound DEF PromptRejected
  <2>3. QED
    BY <1>4, <2>2 DEF SoundInv, EnvironmentOK, PromptRejected
<1>5. QED
  BY <1>1, <1>2, <1>3, <1>4 DEF DispatchProceeds

LEMMA SessionsStepSound ==
  ASSUME SoundInv, SessionsProceed
  PROVE  SoundInv'
<1>1. ASSUME NEW s \in userTurns \cup wakeTurns,
             NEW reason \in {"complete", "interrupted", "error"},
             NEW reply \in BOOLEAN, NEW launched \in BOOLEAN, NEW over \in BOOLEAN,
             TurnEnds(s, reason, reply, launched, over)
      PROVE  SoundInv'
  <2> DEFINE e == [reason |-> reason, reply |-> reply, background |-> s \in background',
                   fromUser |-> s \in userTurns, over |-> over]
  <2>1. s \in Sessions /\ Sound(run)
    BY DEF SoundInv, EnvironmentOK
  <2>2. e \in Completions
    BY DEF Completions
  <2>3. Sound(run')
    BY <1>1, <2>1, <2>2, OnSessionCompleteSound DEF TurnEnds
  <2>4. background' \in SUBSET Sessions
    BY <1>1, <2>1 DEF SoundInv, EnvironmentOK, TurnEnds
  <2>5. foreign' \in Nat
    BY <1>1 DEF SoundInv, EnvironmentOK, TurnEnds, Foreign
  <2>6. QED
    BY <1>1, <2>3, <2>4, <2>5 DEF SoundInv, EnvironmentOK, TurnEnds
<1>2. ASSUME NEW s \in background, BackgroundEnds(s)
      PROVE  SoundInv'
  <2>1. s \in Sessions
    BY DEF SoundInv, EnvironmentOK
  <2>2. wakeTurns' \in SUBSET Sessions /\ background' \in SUBSET Sessions
    BY <1>2, <2>1 DEF SoundInv, EnvironmentOK, BackgroundEnds
  <2>3. QED
    BY <1>2, <2>2 DEF SoundInv, EnvironmentOK, BackgroundEnds
<1>3. ASSUME NEW s \in BagToSet(run.checks), NEW finished \in BOOLEAN,
             OutcomeAnswered(s, finished)
      PROVE  SoundInv'
  <2>1. s \in Sessions /\ Sound(run)
    BY DEF SoundInv, Sound, Typed, Bagged
  <2>2. Sound(run')
    BY <1>3, <2>1, OutcomeKnownSound DEF OutcomeAnswered
  <2>3. QED
    BY <1>3, <2>2 DEF SoundInv, EnvironmentOK, OutcomeAnswered
<1>4. (IF HasBudget THEN {run.overBudget, TRUE} ELSE {FALSE}) \subseteq BOOLEAN
  BY SoundFields DEF SoundInv
<1>5. QED
  BY <1>1, <1>2, <1>3, <1>4 DEF SessionsProceed, SomeTurnEnds

LEMMA VerificationStepSound ==
  ASSUME SoundInv, VerificationProceeds
  PROVE  SoundInv'
<1>0. Sound(run) /\ run.asks \in Nat
  BY SoundFields DEF SoundInv
<1>1. CASE AskSent
  <2>1. Sound(run')
    BY <1>0, <1>1, AsksSound DEF AskSent
  <2>2. QED
    BY <1>1, <2>1 DEF SoundInv, EnvironmentOK, AskSent
<1>2. CASE AskFails
  <2>1. Sound(run')
    BY <1>0, <1>2, AskRejectedSound DEF AskFails
  <2>2. QED
    BY <1>2, <2>1 DEF SoundInv, EnvironmentOK, AskFails
<1>3. CASE OrchestratorBackgroundEnds
  BY <1>3 DEF SoundInv, EnvironmentOK, OrchestratorBackgroundEnds
<1>4. ASSUME NEW interrupted \in BOOLEAN, NEW launched \in BOOLEAN, NEW v \in Verdicts,
             OrchestratorTurnEnds(interrupted, launched, v)
      PROVE  SoundInv'
  <2> DEFINE working == orchestrator.background \/ launched
             e == [reason |-> IF interrupted THEN "interrupted" ELSE "complete",
                   background |-> working, verdict |-> v]
  <2>1. e \in Answers
    BY DEF Answers
  <2>2. Sound(run')
    <3>1. Sound(OnOrchestratorComplete(run, e))
      BY <1>0, <2>1, OnOrchestratorCompleteSound
    <3>2. QED
      BY <1>4, <3>1 DEF OrchestratorTurnEnds
  <2>3. foreign' \in Nat
    BY <1>4 DEF SoundInv, EnvironmentOK, OrchestratorTurnEnds, Foreign
  <2>4. orchestrator' \in [busy : BOOLEAN, background : BOOLEAN, held : BOOLEAN]
    BY <1>4 DEF OrchestratorTurnEnds
  <2>5. QED
    BY <1>4, <2>2, <2>3, <2>4 DEF SoundInv, EnvironmentOK, OrchestratorTurnEnds
<1>5. ASSUME NEW v \in Verdicts, VerdictClassified(v)
      PROVE  SoundInv'
  <2>1. Sound(run')
    BY <1>0, <1>5, VerdictDecidedSound DEF VerdictClassified
  <2>2. QED
    BY <1>5, <2>1 DEF SoundInv, EnvironmentOK, VerdictClassified
<1>6. ASSUME NEW names \in SUBSET Nodes, RepairNarrowed(names)
      PROVE  SoundInv'
  <2>1. Sound(run')
    BY <1>0, <1>6, RepairScopedSound DEF RepairNarrowed
  <2>2. QED
    BY <1>6, <2>1 DEF SoundInv, EnvironmentOK, RepairNarrowed
<1>7. QED
  BY <1>1, <1>2, <1>3, <1>4, <1>5, <1>6 DEF VerificationProceeds, SomeOrchestratorTurnEnds

LEMMA CommandStepSound ==
  ASSUME SoundInv, Commands
  PROVE  SoundInv'
<1>0. Sound(run) /\ run.created \in SUBSET Sessions
  BY SoundFields DEF SoundInv
<1>1. ASSUME NEW s \in run.created, UserMessage(s)
      PROVE  SoundInv'
  <2>1. s \in Sessions
    BY <1>0
  <2>2. foreign' \in Nat
    BY <1>1 DEF SoundInv, EnvironmentOK, UserMessage, Foreign
  <2>3. userTurns' \in SUBSET Sessions /\ wakeTurns' \in SUBSET Sessions
    BY <1>1, <2>1 DEF SoundInv, EnvironmentOK, UserMessage, BeginUserTurn
  <2>4. QED
    BY <1>1, <2>2, <2>3 DEF SoundInv, EnvironmentOK, UserMessage
<1>2. CASE UserAsksOrchestrator
  <2>1. foreign' \in Nat
    BY <1>2 DEF SoundInv, EnvironmentOK, UserAsksOrchestrator, Foreign
  <2>2. QED
    BY <1>2, <2>1 DEF SoundInv, EnvironmentOK, UserAsksOrchestrator
<1>3. CASE Pause
  <2>1. Sound(run')
    BY <1>0, <1>3, PauseRunSound DEF Pause
  <2>2. foreign' \in Nat
    BY <1>3 DEF SoundInv, EnvironmentOK, Pause, Foreign
  <2>3. QED
    BY <1>3, <2>1, <2>2 DEF SoundInv, EnvironmentOK, Pause
<1>4. CASE Resume
  <2>1. Sound(run')
    BY <1>0, <1>4, ResumeRunSound DEF Resume
  <2>2. QED
    BY <1>4, <2>1 DEF SoundInv, EnvironmentOK, Resume
<1>5. CASE Stop
  <2>1. Sound(run')
    BY <1>0, <1>5, StopRunSound DEF Stop
  <2>2. foreign' \in Nat
    BY <1>5 DEF SoundInv, EnvironmentOK, Stop, Foreign
  <2>3. userTurns' \in SUBSET Sessions /\ wakeTurns' \in SUBSET Sessions
    <3> DEFINE cancelled == {<<n, run.session[n]>> : n \in RunningNodes(run)}
    <3>1. userTurns' = userTurns \ cancelled /\ wakeTurns' = wakeTurns \ cancelled
      BY <1>5 DEF Stop
    <3>2. QED
      <4> HIDE DEF cancelled
      <4> QED
        BY <3>1 DEF SoundInv, EnvironmentOK
  <2>4. QED
    BY <1>5, <2>1, <2>2, <2>3 DEF SoundInv, EnvironmentOK, Stop
<1>6. QED
  BY <1>1, <1>2, <1>3, <1>4, <1>5 DEF Commands

LEMMA StepSound ==
  ASSUME SoundInv, [Next]_vars
  PROVE  SoundInv'
<1>0. Sound(run)
  BY DEF SoundInv
<1>1. CASE DispatchProceeds
  BY <1>1, DispatchStepSound
<1>2. CASE SessionsProceed
  BY <1>2, SessionsStepSound
<1>3. CASE VerificationProceeds
  BY <1>3, VerificationStepSound
<1>4. CASE Commands
  BY <1>4, CommandStepSound
<1>5. CASE Crash
  <2>1. Sound(run')
    BY <1>0, <1>5, LostSound DEF Crash
  <2>2. crashes' \in Nat /\ foreign' \in Nat
    BY <1>5 DEF SoundInv, EnvironmentOK, Crash
  <2>3. /\ userTurns' \in SUBSET Sessions
        /\ wakeTurns' \in SUBSET Sessions
        /\ background' \in SUBSET Sessions
    BY <1>5 DEF Crash
  <2>4. orchestrator' \in [busy : BOOLEAN, background : BOOLEAN, held : BOOLEAN]
    BY <1>5 DEF Crash
  <2>5. up' \in BOOLEAN
    BY <1>5 DEF Crash
  <2>6. QED
    BY <2>1, <2>2, <2>3, <2>4, <2>5 DEF SoundInv, EnvironmentOK
<1>6. CASE Rehydrate
  <2>1. Sound(run')
    BY <1>0, <1>6, HydrateSound, ScheduleReadySound DEF Rehydrate
  <2>2. QED
    BY <1>6, <2>1 DEF SoundInv, EnvironmentOK, Rehydrate
<1>7. CASE UNCHANGED vars
  BY <1>7 DEF SoundInv, EnvironmentOK, vars
<1>8. QED
  BY <1>1, <1>2, <1>3, <1>4, <1>5, <1>6, <1>7 DEF Next, AtRest

LEMMA SoundInvHolds == Spec => []SoundInv
BY InitSound, StepSound, PTL DEF Spec

(* Type correctness, for every graph, cap and feature: no field of a run ever *)
(* holds a value of another kind, the slot counter never goes below zero, and *)
(* the run log never records a node as running.                               *)
THEOREM TypeCorrect == Spec => []TypeOK
BY SoundInvHolds, SoundInvMeaning, PTL

(* The parallelism cap: markRunning, every path that releases a slot, stop    *)
(* and hydrate keep the counter equal to the number of running nodes, and it  *)
(* never exceeds max_parallel, whatever completions, failures, retries,       *)
(* repairs and restarts occur, and in whatever order.                         *)
THEOREM CapHolds == Spec => []SlotsExact
BY SoundInvHolds, SoundInvMeaning, PTL

-----------------------------------------------------------------------------
(***************************************************************************)
(* A verifying run waits for exactly one answer: the listener's or the     *)
(* decision model's, and a run that is not verifying waits for none it     *)
(* would act on.                                                           *)
(***************************************************************************)
Awaited(r) ==
  /\ r.listening => r.status = "verifying" /\ r.hop = "none"
  /\ r.status = "verifying" => r.listening \/ r.hop # "none"
  /\ r.status \in {"running", "paused"} => r.hop = "none"

LEMMA SameAwaited ==
  ASSUME NEW r, NEW q, Awaited(r),
         q.status = r.status, q.listening = r.listening, q.hop = r.hop
  PROVE  Awaited(q)
BY DEF Awaited

LEMMA FinishAwaited ==
  ASSUME NEW r, Sound(r), NEW x \in Terminal
  PROVE  Awaited(Finish(r, x))
<1> DEFINE q == Finish(r, x)
<1>1. r \in RunType({r.checks})
  BY SoundFields
<1>2. q.status = x /\ q.listening = FALSE
  BY <1>1 DEF Finish, RunType
<1>3. x \notin {"verifying", "running", "paused"}
  BY DEF Terminal
<1>4. QED
  BY <1>2, <1>3 DEF Awaited

LEMMA AskAwaited ==
  ASSUME NEW r, Sound(r), r.status = "verifying", r.hop = "none"
  PROVE  Awaited(AskOrchestrator(r))
<1> DEFINE q == AskOrchestrator(r)
<1>1. r \in RunType({r.checks})
  BY SoundFields
<1>2. q.status = "verifying" /\ q.listening = TRUE /\ q.hop = "none"
  BY <1>1 DEF AskOrchestrator, RunType
<1>3. QED
  BY <1>2 DEF Awaited

(* A running run that awaits nothing may go on scheduling. *)
LEMMA ScheduleReadyAwaited ==
  ASSUME NEW r, Sound(r), Awaited(r)
  PROVE  Awaited(ScheduleReady(r))
<1>1. CASE r.status # "running"
  BY <1>1 DEF ScheduleReady
<1>2. CASE r.status = "running"
  <2>1. r.hop = "none" /\ ~r.listening /\ r.listening \in BOOLEAN /\ r \in RunType({r.checks})
    BY <1>2 DEF Awaited, Sound, Typed, RunType
  <2>2. Awaited([r EXCEPT !.status = "paused"])
    BY <2>1 DEF Awaited, RunType
  <2> DEFINE m == MarkRunning(r, NextBatch(r))
  <2>3. Sound(m)
    BY BatchFits, MarkRunningSound
  <2>4. m.status = "running" /\ m.hop = "none" /\ ~m.listening
    BY <1>2, <2>1 DEF MarkRunning, RunType
  <2>5. Awaited(MaybeFinish(m))
    <3> HIDE DEF m
    <3>1. Awaited(m)
      BY <2>4 DEF Awaited
    <3>2. Awaited(Finish(m, "failed")) /\ Awaited(Finish(m, "completed"))
      BY <2>3, FinishAwaited DEF Terminal
    <3>3. Awaited(EnterVerifying(m))
      <4> DEFINE q == [m EXCEPT !.status = "verifying", !.verified = m.output]
      <4>1. m \in RunType({m.checks}) /\ m.output \in [Nodes -> Nat] /\ "verifying" \in Statuses
        BY <2>3 DEF Sound, Typed, RunType, Statuses
      <4>2. q \in RunType({m.checks}) /\ q.checks = m.checks
        BY <4>1 DEF RunType
      <4>3. Slots(q)
        BY <2>3, <4>1, SameSlots DEF Sound, RunType
      <4>4. q.status = "verifying" /\ q.hop = "none"
        BY <2>4, <4>1 DEF RunType
      <4>5. Sound(q)
        BY <2>3, <4>2, <4>3 DEF Sound, Typed
      <4>6. QED
        BY <4>4, <4>5, AskAwaited DEF EnterVerifying
    <3>4. QED
      BY <3>1, <3>2, <3>3 DEF MaybeFinish
  <2>6. QED
    BY <1>2, <2>2, <2>5 DEF ScheduleReady
<1>3. QED
  BY <1>1, <1>2

LEMMA MarkNodeDoneAwaited ==
  ASSUME NEW r, Sound(r), Awaited(r), NEW s \in Sessions
  PROVE  Awaited(MarkNodeDone(r, s))
<1> DEFINE q == NodeDone(r, s)
<1>1. r \in RunType({r.checks})
  BY SoundFields
<1>2. q.status = r.status /\ q.listening = r.listening /\ q.hop = r.hop
  BY <1>1 DEF NodeDone, RunType
<1>3. Sound(q)
  BY MarkNodeDoneSound
<1>4. Awaited(q)
  <2> HIDE DEF q
  <2> QED
    BY <1>2, SameAwaited
<1>5. QED
  BY <1>3, <1>4, ScheduleReadyAwaited DEF MarkNodeDone, NodeDone

LEMMA FailNodeAwaited ==
  ASSUME NEW r, Sound(r), Awaited(r), NEW n \in Nodes
  PROVE  Awaited(FailNode(r, n))
<1>1. r \in RunType({r.checks})
  BY SoundFields
<1>2. Awaited(RetryNode(r, n))
  <2> DEFINE q == NodeRetried(r, n)
  <2>1. q.status = r.status /\ q.listening = r.listening /\ q.hop = r.hop
    BY <1>1 DEF NodeRetried, RunType
  <2>2. Sound(q)
    BY RetryNodeSound
  <2>3. Awaited(q)
    <3> HIDE DEF q
    <3> QED
      BY <2>1, SameAwaited
  <2>4. QED
    BY <2>2, <2>3, ScheduleReadyAwaited DEF RetryNode, NodeRetried
<1>3. Awaited(GiveUpNode(r, n))
  <2> DEFINE q == NodeGivenUp(r, n)
  <2>1. q.status = r.status /\ q.listening = r.listening /\ q.hop = r.hop
    BY <1>1 DEF NodeGivenUp, RunType
  <2>2. Sound(q)
    BY GiveUpNodeSound
  <2>3. Awaited(q)
    <3> HIDE DEF q
    <3> QED
      BY <2>1, SameAwaited
  <2>4. QED
    BY <2>2, <2>3, ScheduleReadyAwaited DEF GiveUpNode, NodeGivenUp
<1>4. QED
  BY <1>2, <1>3 DEF FailNode

LEMMA MeterTokensAwaited ==
  ASSUME NEW r, Sound(r), Awaited(r), NEW over
  PROVE  Awaited(MeterTokens(r, over))
<1>1. r \in RunType({r.checks})
  BY SoundFields
<1>2. Awaited([r EXCEPT !.overBudget = over])
  BY <1>1 DEF Awaited, RunType
<1>3. CASE r.status = "running"
  <2>1. r.hop = "none" /\ ~r.listening
    BY <1>3 DEF Awaited
  <2>2. Awaited([[r EXCEPT !.overBudget = over] EXCEPT !.status = "paused"])
    BY <1>1, <2>1 DEF Awaited, RunType
  <2>3. QED
    BY <1>2, <2>2 DEF MeterTokens
<1>4. QED
  BY <1>2, <1>3 DEF MeterTokens

LEMMA NodeRepliedAwaited ==
  ASSUME NEW r, Sound(r), Awaited(r), NEW s \in Sessions
  PROVE  Awaited(NodeReplied(r, s))
<1>1. r \in RunType({r.checks}) /\ s[1] \in Nodes
  BY SoundFields DEF Sessions
<1>2. Awaited(FailNode(r, s[1])) /\ Awaited(MarkNodeDone(r, s))
  BY <1>1, FailNodeAwaited, MarkNodeDoneAwaited
<1>3. Awaited([r EXCEPT !.checks = @ (+) SetToBag({s})])
  BY <1>1 DEF Awaited, RunType
<1>4. QED
  BY <1>2, <1>3 DEF NodeReplied

LEMMA TurnCompletedAwaited ==
  ASSUME NEW r, Sound(r), Awaited(r), NEW s \in Sessions, NEW e \in Completions
  PROVE  Awaited(TurnCompleted(r, s, e))
<1> DEFINE heard    == [r EXCEPT !.replied[s[1]] = @ \/ e.reply]
           answered == [heard EXCEPT !.waiting[s[1]] = FALSE]
<1>1. Sound(answered) /\ r \in RunType({r.checks})
  <2>1. answered = Answered(r, s, e)
    BY Zenon DEF Answered
  <2>2. Sound(Answered(r, s, e))
    BY TurnCompletedSound
  <2>3. QED
    BY <2>1, <2>2, SoundFields
<1>2. Awaited(heard) /\ Awaited(answered)
  BY <1>1 DEF Awaited, RunType
<1>3. Awaited(NodeReplied(answered, s))
  BY <1>1, <1>2, NodeRepliedAwaited
<1>4. QED
  BY <1>2, <1>3, Zenon DEF TurnCompleted

LEMMA OnSessionCompleteAwaited ==
  ASSUME NEW r, Sound(r), Awaited(r), NEW s \in Sessions, NEW e \in Completions
  PROVE  Awaited(OnSessionComplete(r, s, e))
<1> DEFINE m == MeterTokens(r, e.over)
<1>1. Sound(m) /\ Awaited(m)
  BY MeterTokensSound, MeterTokensAwaited DEF Completions
<1>2. e.reason \in {"complete", "interrupted", "error"} /\ s[1] \in Nodes
  BY DEF Completions, Sessions
<1>3. Awaited([m EXCEPT !.waiting[s[1]] = TRUE])
  <2> HIDE DEF m
  <2>1. m \in RunType({m.checks})
    BY <1>1, SoundFields
  <2>2. QED
    BY <1>1, <2>1 DEF Awaited, RunType
<1>4. Awaited(FailNode(m, s[1])) /\ Awaited(TurnCompleted(m, s, e))
  BY <1>1, <1>2, FailNodeAwaited, TurnCompletedAwaited
<1>5. QED
  <2> HIDE DEF m
  <2>1. OnSessionComplete(r, s, e) =
          IF ~Accepts(r, s) THEN r
          ELSE CASE e.reason = "interrupted" -> [m EXCEPT !.waiting[s[1]] = TRUE]
                 [] e.reason = "error"       -> FailNode(m, s[1])
                 [] e.reason = "complete"    -> TurnCompleted(m, s, e)
    BY DEF OnSessionComplete, m
  <2>2. CASE ~Accepts(r, s)
    BY <2>1, <2>2
  <2>3. CASE Accepts(r, s) /\ e.reason = "interrupted"
    BY <1>3, <2>1, <2>3
  <2>4. CASE Accepts(r, s) /\ e.reason = "error"
    BY <1>4, <2>1, <2>4
  <2>5. CASE Accepts(r, s) /\ e.reason = "complete"
    BY <1>4, <2>1, <2>5
  <2>6. QED
    BY <1>2, <2>2, <2>3, <2>4, <2>5

LEMMA OutcomeKnownAwaited ==
  ASSUME NEW r, Sound(r), Awaited(r), NEW s \in Sessions, NEW finished
  PROVE  Awaited(OutcomeKnown(r, s, finished))
<1> DEFINE answered == [r EXCEPT !.checks = @ (-) SetToBag({s})]
<1>1. Sound(answered) /\ s[1] \in Nodes
  <2>1. Bagged(r.checks (-) SetToBag({s}))
    BY BagLemma DEF Sound, Typed
  <2>2. QED
    BY <2>1, ChecksSound DEF Sessions
<1>2. Awaited(answered)
  BY SoundFields DEF Awaited, RunType
<1>3. Awaited(MarkNodeDone(answered, s)) /\ Awaited(FailNode(answered, s[1]))
  BY <1>1, <1>2, MarkNodeDoneAwaited, FailNodeAwaited
<1>4. QED
  BY <1>2, <1>3 DEF OutcomeKnown

(* A repair may start once the answer has been taken. *)
LEMMA RepairForVerdictAwaited ==
  ASSUME NEW r, Sound(r), ~r.listening, r.hop = "none", NEW names
  PROVE  Awaited(RepairForVerdict(r, names))
<1> DEFINE q == Repairing(r, names)
<1>1. r \in RunType({r.checks})
  BY SoundFields
<1>2. q.status = "running" /\ q.listening = r.listening /\ q.hop = "none"
  BY <1>1 DEF Repairing, RunType
<1>3. Awaited(q)
  <2> HIDE DEF q
  <2> QED
    BY <1>2 DEF Awaited
<1>4. Sound(q)
  BY RepairForVerdictSound
<1>5. Awaited(ScheduleReady(q)) /\ Awaited(Finish(r, "failed"))
  BY <1>3, <1>4, ScheduleReadyAwaited, FinishAwaited DEF Terminal
<1>6. QED
  BY <1>5, Zenon DEF RepairForVerdict, Repairing, Redone

(* The answer has been taken, and the run has not acted on it yet. *)
Taken(r) == r.status = "verifying" /\ r.hop = "none" /\ ~r.listening

LEMMA LogVerdictTaken ==
  ASSUME NEW r, Sound(r), Taken(r), NEW result \in {"pass", "fail", "unparsed"}
  PROVE  Taken(LogVerdict(r, result))
BY SoundFields DEF Taken, LogVerdict, RunType

LEMMA ApplyVerdictAwaited ==
  ASSUME NEW r, Sound(r), Taken(r), NEW v \in Verdicts
  PROVE  Awaited(ApplyVerdict(r, v))
<1>1. r \in RunType({r.checks})
  BY SoundFields
<1>2. v.result \in {"pass", "fail", "unparsed"}
  BY DEF Verdicts
<1>3. Awaited(Finish(r, "failed"))
  BY FinishAwaited DEF Terminal
<1>4. Awaited(ApplyPass(r))
  <2>1. r.reAsks \in Nat
    BY <1>1 DEF RunType
  <2>2. Sound([r EXCEPT !.reAsks = 0])
    BY ReAsksSound
  <2>3. QED
    BY <2>2, FinishAwaited DEF ApplyPass, Terminal
<1>5. Awaited(ApplyUnparsed(r))
  <2> DEFINE q == [r EXCEPT !.reAsks = @ + 1]
  <2>1. r.reAsks + 1 \in Nat
    BY <1>1 DEF RunType
  <2>2. Sound(q)
    BY <2>1, ReAsksSound
  <2>3. q.status = "verifying" /\ q.hop = "none"
    BY <1>1 DEF Taken, RunType
  <2>4. Awaited(AskOrchestrator(q))
    BY <2>2, <2>3, AskAwaited
  <2>5. QED
    BY <1>3, <2>4 DEF ApplyUnparsed
<1>6. Awaited(ApplyFail(r, v))
  <2> DEFINE spent == [r EXCEPT !.repairsUsed = @ + 1, !.lastScoped = FALSE]
  <2>1. Sound(spent)
    BY SpentSound
  <2>2. ~spent.listening /\ spent.hop = "none" /\ spent.status = "verifying"
    BY <1>1 DEF Taken, RunType
  <2>3. Awaited(RepairForVerdict(spent, v.names))
    BY <2>1, <2>2, RepairForVerdictAwaited
  <2>4. Awaited([spent EXCEPT !.hop = "scope"])
    BY <1>1 DEF Awaited, Taken, RunType
  <2>5. QED
    BY <1>3, <2>3, <2>4, Zenon DEF ApplyFail
<1>7. QED
  BY <1>2, <1>4, <1>5, <1>6 DEF ApplyVerdict

LEMMA HandleVerdictAwaited ==
  ASSUME NEW r, Sound(r), Taken(r), NEW v \in Verdicts
  PROVE  Awaited(HandleVerdict(r, v))
<1>1. v.result \in {"pass", "fail", "unparsed"}
  BY DEF Verdicts
<1>2. Awaited([r EXCEPT !.hop = "decide"])
  BY SoundFields DEF Awaited, Taken, RunType
<1>3. Awaited(ApplyVerdict(LogVerdict(r, v.result), v))
  BY <1>1, LogVerdictSound, LogVerdictTaken, ApplyVerdictAwaited
<1>4. QED
  BY <1>2, <1>3 DEF HandleVerdict, Taken

LEMMA OnOrchestratorCompleteAwaited ==
  ASSUME NEW r, Sound(r), Awaited(r), NEW e \in Answers
  PROVE  Awaited(OnOrchestratorComplete(r, e))
<1> DEFINE q == [r EXCEPT !.listening = FALSE]
<1>1. CASE ~r.listening
  BY <1>1 DEF OnOrchestratorComplete
<1>2. CASE r.listening
  <2>1. Sound(q)
    BY OnOrchestratorCompleteSound
  <2>2. Taken(q)
    BY <1>2, SoundFields DEF Awaited, Taken, RunType
  <2>3. Awaited(HandleVerdict(q, e.verdict))
    BY <2>1, <2>2, HandleVerdictAwaited DEF Answers
  <2>4. QED
    BY <2>3 DEF OnOrchestratorComplete
<1>3. QED
  BY <1>1, <1>2

LEMMA VerdictDecidedAwaited ==
  ASSUME NEW r, Sound(r), Awaited(r), r.hop # "none", NEW v \in Verdicts
  PROVE  Awaited(VerdictDecided(r, v))
<1> DEFINE q == [r EXCEPT !.hop = "none"]
<1>1. Sound(q) /\ ~r.listening
  BY HopSound DEF Awaited
<1>2. v.result \in {"pass", "fail", "unparsed"}
  BY DEF Verdicts
<1>3. CASE r.status # "verifying"
  <2>1. Awaited(q)
    BY <1>1, <1>3, SoundFields DEF Awaited, RunType
  <2>2. QED
    BY <1>3, <2>1 DEF VerdictDecided
<1>4. CASE r.status = "verifying"
  <2>1. Taken(q)
    BY <1>1, <1>4, SoundFields DEF Taken, RunType
  <2>2. Awaited(ApplyVerdict(LogVerdict(q, v.result), v))
    BY <1>1, <1>2, <2>1, LogVerdictSound, LogVerdictTaken, ApplyVerdictAwaited
  <2>3. QED
    BY <1>4, <2>2 DEF VerdictDecided
<1>5. QED
  BY <1>3, <1>4

LEMMA RepairScopedAwaited ==
  ASSUME NEW r, Sound(r), Awaited(r), r.hop # "none", NEW names
  PROVE  Awaited(RepairScoped(r, names))
<1> DEFINE answered == [r EXCEPT !.hop = "none"]
           q == [answered EXCEPT !.lastScoped = (names # {})]
<1>1. Sound(answered) /\ Sound(q) /\ ~r.listening
  BY HopSound, RepairScopedSound DEF Awaited
<1>2. CASE r.status # "verifying"
  <2>1. Awaited(answered)
    BY <1>1, <1>2, SoundFields DEF Awaited, RunType
  <2>2. QED
    BY <1>2, <2>1 DEF RepairScoped
<1>3. CASE r.status = "verifying"
  <2>1. ~q.listening /\ q.hop = "none"
    BY <1>1, SoundFields DEF RunType
  <2>2. Awaited(RepairForVerdict(q, names))
    BY <1>1, <2>1, RepairForVerdictAwaited
  <2>3. QED
    BY <1>3, <2>2 DEF RepairScoped
<1>4. QED
  BY <1>2, <1>3

LEMMA AskRejectedAwaited ==
  ASSUME NEW r, Sound(r), r.asks > 0
  PROVE  Awaited(AskRejected(r))
BY AsksSound, FinishAwaited DEF AskRejected, Terminal

LEMMA CommandsAwaited ==
  ASSUME NEW r, Sound(r), Awaited(r)
  PROVE  Awaited(PauseRun(r)) /\ Awaited(ResumeRun(r)) /\ Awaited(StopRun(r))
<1>1. Awaited(PauseRun(r))
  BY SoundFields DEF Awaited, PauseRun, RunType
<1>2. Awaited(ResumeRun(r))
  <2> DEFINE q == [r EXCEPT !.status = "running", !.state = CancelledToPending(@)]
  <2>1. CASE r.status = "paused"
    <3>1. Sound(q)
      BY ResumeRunSound
    <3>2. q.status = "running" /\ q.hop = "none" /\ ~q.listening
      BY <2>1, SoundFields DEF Awaited, RunType
    <3>3. Awaited(q)
      <4> HIDE DEF q
      <4> QED
        BY <3>2 DEF Awaited
    <3>4. QED
      BY <3>1, <3>3, ScheduleReadyAwaited DEF ResumeRun
  <2>2. QED
    BY <2>1 DEF ResumeRun
<1>3. Awaited(StopRun(r))
  <2> DEFINE f == Finish(r, "stopped")
  <2>1. Sound(f) /\ Awaited(f)
    BY FinishSound, FinishAwaited DEF Statuses, Terminal
  <2>2. ASSUME NEW x, NEW y, NEW z
        PROVE  Awaited([f EXCEPT !.state = x, !.logState = y, !.inFlight = z])
    <3> HIDE DEF f
    <3> QED
      BY <2>1, SoundFields DEF Awaited, RunType
  <2>3. QED
    BY <2>2 DEF StopRun
<1>4. QED
  BY <1>1, <1>2, <1>3

LEMMA HydrateAwaited ==
  ASSUME NEW r, Sound(r), ~r.listening, r.hop = "none"
  PROVE  Awaited(ScheduleReady(Hydrate(r)))
<1> DEFINE q == Hydrate(r)
<1>1. Sound(q)
  BY HydrateSound
<1>2. q.status = "running" /\ q.hop = "none" /\ ~q.listening
  BY SoundFields DEF Hydrate, RunType
<1>3. Awaited(q)
  <2> HIDE DEF q
  <2> QED
    BY <1>2 DEF Awaited
<1>4. QED
  BY <1>1, <1>3, ScheduleReadyAwaited

AwaitInv == (up => Awaited(run)) /\ (~up => ~run.listening /\ run.hop = "none")

LEMMA InitAwaits == Init => AwaitInv
<1>1. Awaited(FreshRun)
  BY DEF Awaited, FreshRun
<1>2. QED
  BY <1>1, FreshRunSound, ScheduleReadyAwaited DEF Init, AwaitInv

LEMMA StepAwaits ==
  ASSUME SoundInv, AwaitInv, [Next]_vars
  PROVE  AwaitInv'
<1>0. Sound(run) /\ run \in RunType({run.checks})
  BY SoundFields DEF SoundInv
<1>1. ASSUME up, DispatchProceeds
      PROVE  AwaitInv'
  <2>0. Awaited(run) /\ run.creating \subseteq Sessions /\ run.sending \subseteq Sessions
    BY <1>0, <1>1, SoundFields DEF AwaitInv
  <2>1. ASSUME NEW s \in run.creating, SessionCreated(s)
        PROVE  AwaitInv'
    <3>1. Awaited(run')
      BY <1>0, <2>0, <2>1 DEF SessionCreated, Awaited, RunType
    <3>2. QED
      BY <1>1, <2>1, <3>1 DEF AwaitInv, SessionCreated
  <2>2. ASSUME NEW s \in run.creating, SessionRefused(s)
        PROVE  AwaitInv'
    <3> DEFINE q == [run EXCEPT !.creating = @ \ {s}]
    <3>1. Sound(q) /\ s[1] \in Nodes
      BY <1>0, <2>0, CreatingSound DEF Sessions
    <3>2. Awaited(q)
      BY <1>0, <2>0 DEF Awaited, RunType
    <3>3. Awaited(FailNode(q, s[1]))
      BY <3>1, <3>2, FailNodeAwaited
    <3>4. QED
      BY <1>1, <2>2, <3>3 DEF AwaitInv, SessionRefused
  <2>3. ASSUME NEW s \in run.sending, PromptSent(s)
        PROVE  AwaitInv'
    <3>1. Awaited(run')
      BY <1>0, <2>0, <2>3 DEF PromptSent, Awaited, RunType
    <3>2. QED
      BY <1>1, <2>3, <3>1 DEF AwaitInv, PromptSent
  <2>4. ASSUME NEW s \in run.sending, PromptRejected(s)
        PROVE  AwaitInv'
    <3> DEFINE q == [run EXCEPT !.sending = @ \ {s}]
    <3>1. Sound(q) /\ s[1] \in Nodes
      BY <1>0, <2>0, SendingSound DEF Sessions
    <3>2. Awaited(q)
      BY <1>0, <2>0 DEF Awaited, RunType
    <3>3. Awaited(FailNode(q, s[1]))
      BY <3>1, <3>2, FailNodeAwaited
    <3>4. QED
      BY <1>1, <2>4, <3>3 DEF AwaitInv, PromptRejected
  <2>5. QED
    BY <1>1, <2>1, <2>2, <2>3, <2>4 DEF DispatchProceeds
<1>2. ASSUME up, SessionsProceed
      PROVE  AwaitInv'
  <2>0. Awaited(run)
    BY <1>2 DEF AwaitInv
  <2>1. ASSUME NEW s \in userTurns \cup wakeTurns,
               NEW reason \in {"complete", "interrupted", "error"},
               NEW reply \in BOOLEAN, NEW launched \in BOOLEAN, NEW over \in BOOLEAN,
               TurnEnds(s, reason, reply, launched, over)
        PROVE  AwaitInv'
    <3> DEFINE e == [reason |-> reason, reply |-> reply, background |-> s \in background',
                     fromUser |-> s \in userTurns, over |-> over]
    <3>1. s \in Sessions /\ e \in Completions
      BY DEF SoundInv, EnvironmentOK, Completions
    <3>2. Awaited(run')
      BY <1>0, <2>0, <2>1, <3>1, OnSessionCompleteAwaited DEF TurnEnds
    <3>3. QED
      BY <1>2, <2>1, <3>2 DEF AwaitInv, TurnEnds
  <2>2. ASSUME NEW s \in background, BackgroundEnds(s)
        PROVE  AwaitInv'
    BY <1>2, <2>0, <2>2 DEF AwaitInv, BackgroundEnds
  <2>3. ASSUME NEW s \in BagToSet(run.checks), NEW finished \in BOOLEAN,
               OutcomeAnswered(s, finished)
        PROVE  AwaitInv'
    <3>1. s \in Sessions
      BY <1>0 DEF Sound, Typed, Bagged
    <3>2. Awaited(run')
      BY <1>0, <2>0, <2>3, <3>1, OutcomeKnownAwaited DEF OutcomeAnswered
    <3>3. QED
      BY <1>2, <2>3, <3>2 DEF AwaitInv, OutcomeAnswered
  <2>4. (IF HasBudget THEN {run.overBudget, TRUE} ELSE {FALSE}) \subseteq BOOLEAN
    BY <1>0, SoundFields
  <2>5. QED
    BY <1>2, <2>1, <2>2, <2>3, <2>4 DEF SessionsProceed, SomeTurnEnds
<1>3. ASSUME up, VerificationProceeds
      PROVE  AwaitInv'
  <2>0. Awaited(run)
    BY <1>3 DEF AwaitInv
  <2>1. CASE AskSent
    <3>1. Awaited(run')
      BY <1>0, <2>0, <2>1 DEF AskSent, Awaited, RunType
    <3>2. QED
      BY <1>3, <2>1, <3>1 DEF AwaitInv, AskSent
  <2>2. CASE AskFails
    BY <1>0, <1>3, <2>2, AskRejectedAwaited DEF AwaitInv, AskFails
  <2>3. CASE OrchestratorBackgroundEnds
    BY <1>3, <2>0, <2>3 DEF AwaitInv, OrchestratorBackgroundEnds
  <2>4. ASSUME NEW interrupted \in BOOLEAN, NEW launched \in BOOLEAN, NEW v \in Verdicts,
               OrchestratorTurnEnds(interrupted, launched, v)
        PROVE  AwaitInv'
    <3> DEFINE e == [reason |-> IF interrupted THEN "interrupted" ELSE "complete",
                     background |-> orchestrator.background \/ launched, verdict |-> v]
    <3>1. e \in Answers
      BY DEF Answers
    <3>2. Awaited(OnOrchestratorComplete(run, e))
      BY <1>0, <2>0, <3>1, OnOrchestratorCompleteAwaited
    <3>3. QED
      BY <1>3, <2>4, <3>2 DEF AwaitInv, OrchestratorTurnEnds
  <2>5. ASSUME NEW v \in Verdicts, VerdictClassified(v)
        PROVE  AwaitInv'
    BY <1>0, <1>3, <2>0, <2>5, VerdictDecidedAwaited DEF AwaitInv, VerdictClassified
  <2>6. ASSUME NEW names \in SUBSET Nodes, RepairNarrowed(names)
        PROVE  AwaitInv'
    BY <1>0, <1>3, <2>0, <2>6, RepairScopedAwaited DEF AwaitInv, RepairNarrowed
  <2>7. QED
    BY <1>3, <2>1, <2>2, <2>3, <2>4, <2>5, <2>6
       DEF VerificationProceeds, SomeOrchestratorTurnEnds
<1>4. ASSUME up, Commands
      PROVE  AwaitInv'
  <2>1. Awaited(PauseRun(run)) /\ Awaited(ResumeRun(run)) /\ Awaited(StopRun(run))
    BY <1>0, <1>4, CommandsAwaited DEF AwaitInv
  <2>2. QED
    BY <1>4, <2>1 DEF Commands, AwaitInv, UserMessage, UserAsksOrchestrator, Pause, Resume, Stop
<1>5. CASE Crash
  <2>1. ~run'.listening /\ run'.hop = "none" /\ ~up'
    BY <1>0, <1>5 DEF Crash, Lost, RunType
  <2>2. QED
    BY <2>1 DEF AwaitInv
<1>6. CASE Rehydrate
  BY <1>0, <1>6, HydrateAwaited DEF Rehydrate, AwaitInv
<1>7. CASE UNCHANGED vars
  BY <1>7 DEF AwaitInv, vars
<1>8. QED
  BY <1>1, <1>2, <1>3, <1>4, <1>5, <1>6, <1>7 DEF Next, AtRest

(* A run in verification always has somebody who will move it on, the verdict *)
(* listener or a decision-model call, and no listener outlives the            *)
(* verification it was attached for: nothing a user says to the orchestrator  *)
(* later is taken for a verdict.                                              *)
THEOREM VerdictHeard == Spec => []VerdictAwaited
<1>1. SoundInv /\ AwaitInv => VerdictAwaited
  BY DEF AwaitInv, Awaited, VerdictAwaited
<1>2. Spec => []AwaitInv
  BY InitAwaits, StepAwaits, SoundInvHolds, PTL DEF Spec
<1>3. QED
  BY <1>1, <1>2, SoundInvHolds, PTL

-----------------------------------------------------------------------------
(* The two counters keep their limits: the attempts of a node, which        *)
(* retries, repairs and restarts share, and the repair passes of a run,      *)
(* which a restart recounts from the log.                                    *)

(* After c crashes: a node that may be dispatched again has an attempt left, *)
(* and only a run that is over has cancelled nodes.                          *)
AttemptRoom(r, c) ==
  \A n \in Nodes :
    /\ r.attempt[n] <= RetryLimit[n] + 1 + r.repairs + c
    /\ r.state[n] = "pending" => r.attempt[n] <= RetryLimit[n] + r.repairs + c
    /\ r.state[n] = "cancelled" => r.status \in Terminal

(* Every repair pass was paid for, in memory and in the log; one that waits *)
(* for the decision model has been paid for and not started.                *)
RepairRoom(r) ==
  /\ r.repairs <= MaxRepairs
  /\ r.repairs <= r.repairsUsed
  /\ r.repairs <= r.logFails
  /\ r.hop = "scope" => /\ r.repairs < MaxRepairs
                        /\ r.repairs < r.repairsUsed
                        /\ r.repairs < r.logFails

Limits(r, c) == AttemptRoom(r, c) /\ RepairRoom(r)

LEMMA LimitFields ==
  ASSUME NEW r, Sound(r)
  PROVE  /\ r \in RunType({r.checks})
         /\ r.attempt \in [Nodes -> Nat]
         /\ r.state \in [Nodes -> NodeStates]
         /\ r.repairs \in Nat
         /\ r.repairsUsed \in Nat
         /\ r.logFails \in Nat
BY DEF Sound, Typed, RunType

LEMMA LimitConstants == MaxRepairs \in Nat /\ RetryLimit \in [Nodes -> Nat]
BY ConductorAssumption

SameCounters(r, q) ==
  /\ q.attempt = r.attempt
  /\ q.repairs = r.repairs
  /\ q.repairsUsed = r.repairsUsed
  /\ q.logFails = r.logFails
  /\ q.hop = r.hop

(* What leaves the counters alone, makes no node pending or cancelled and  *)
(* does not bring a finished run back keeps the limits.                    *)
LEMMA SameLimits ==
  ASSUME NEW r, NEW q, NEW c, Limits(r, c), SameCounters(r, q),
         \A n \in Nodes : /\ q.state[n] = "pending" => r.state[n] = "pending"
                          /\ q.state[n] = "cancelled" => r.state[n] = "cancelled",
         r.status \in Terminal => q.status \in Terminal
  PROVE  Limits(q, c)
<1>1. AttemptRoom(q, c)
  BY DEF Limits, AttemptRoom, SameCounters
<1>2. RepairRoom(q)
  BY DEF Limits, RepairRoom, SameCounters
<1>3. QED
  BY <1>1, <1>2 DEF Limits

LEMMA UntouchedLimits ==
  ASSUME NEW r, NEW q, NEW c, Limits(r, c), SameCounters(r, q),
         q.state = r.state, q.status = r.status
  PROVE  Limits(q, c)
BY SameLimits

LEMMA FinishLimits ==
  ASSUME NEW r, NEW c, Sound(r), Limits(r, c), NEW x \in Terminal
  PROVE  Limits(Finish(r, x), c)
<1> DEFINE q == Finish(r, x)
<1>1. SameCounters(r, q) /\ q.state = r.state /\ q.status = x
  BY LimitFields DEF Finish, RunType, SameCounters
<1>2. Limits(q, c)
  <2> HIDE DEF q
  <2> QED
    BY <1>1, SameLimits
<1>3. QED
  BY <1>2

LEMMA AskLimits ==
  ASSUME NEW r, NEW c, Sound(r), Limits(r, c)
  PROVE  Limits(AskOrchestrator(r), c)
<1> DEFINE q == AskOrchestrator(r)
<1>1. SameCounters(r, q) /\ q.state = r.state /\ q.status = r.status
  BY LimitFields DEF AskOrchestrator, RunType, SameCounters
<1>2. Limits(q, c)
  <2> HIDE DEF q
  <2> QED
    BY <1>1, SameLimits
<1>3. QED
  BY <1>2

(* A dispatch uses the attempt a pending node has left. *)
LEMMA MarkRunningLimits ==
  ASSUME NEW r, NEW c \in Nat, Sound(r), Limits(r, c), NEW S \in SUBSET Nodes,
         \A n \in S : r.state[n] = "pending"
  PROVE  Limits(MarkRunning(r, S), c)
<1> DEFINE q == MarkRunning(r, S)
<1>1. /\ q.attempt = [n \in Nodes |-> IF n \in S THEN r.attempt[n] + 1 ELSE r.attempt[n]]
      /\ q.state = [n \in Nodes |-> IF n \in S THEN "running" ELSE r.state[n]]
      /\ q.repairs = r.repairs /\ q.repairsUsed = r.repairsUsed
      /\ q.logFails = r.logFails /\ q.hop = r.hop /\ q.status = r.status
  BY LimitFields DEF MarkRunning, RunType
<1> HIDE DEF q
<1>2. ASSUME NEW n \in Nodes
      PROVE  /\ q.attempt[n] <= RetryLimit[n] + 1 + q.repairs + c
             /\ q.state[n] = "pending" => q.attempt[n] <= RetryLimit[n] + q.repairs + c
             /\ q.state[n] = "cancelled" => q.status \in Terminal
  <2>1. /\ r.attempt[n] \in Nat /\ RetryLimit[n] \in Nat /\ r.repairs \in Nat
        /\ r.attempt[n] <= RetryLimit[n] + 1 + r.repairs + c
        /\ r.state[n] = "pending" => r.attempt[n] <= RetryLimit[n] + r.repairs + c
        /\ r.state[n] = "cancelled" => r.status \in Terminal
    BY LimitFields, LimitConstants DEF Limits, AttemptRoom
  <2>2. CASE n \in S
    <3>1. q.attempt[n] = r.attempt[n] + 1 /\ q.state[n] = "running"
      BY <1>1, <2>2
    <3>2. r.attempt[n] <= RetryLimit[n] + r.repairs + c
      BY <2>1, <2>2
    <3>3. QED
      BY <1>1, <2>1, <3>1, <3>2
  <2>3. CASE n \notin S
    BY <1>1, <2>1, <2>3
  <2>4. QED
    BY <2>2, <2>3
<1>3. AttemptRoom(q, c)
  BY <1>2 DEF AttemptRoom
<1>4. RepairRoom(q)
  BY <1>1 DEF Limits, RepairRoom
<1>5. Limits(q, c)
  BY <1>3, <1>4 DEF Limits
<1>6. QED
  BY <1>5 DEF q

LEMMA ScheduleReadyLimits ==
  ASSUME NEW r, NEW c \in Nat, Sound(r), Limits(r, c)
  PROVE  Limits(ScheduleReady(r), c)
<1>1. CASE r.status # "running"
  BY <1>1 DEF ScheduleReady
<1>2. CASE r.status = "running"
  <2> DEFINE p == [r EXCEPT !.status = "paused"]
             m == MarkRunning(r, NextBatch(r))
  <2>1. Limits(p, c)
    <3>1. SameCounters(r, p) /\ p.state = r.state /\ r.status \notin Terminal
      BY <1>2, LimitFields DEF RunType, SameCounters, Terminal
    <3>2. Limits(p, c)
      <4> HIDE DEF p
      <4> QED
        BY <3>1, SameLimits
    <3>3. QED
      BY <3>2
  <2>2. Sound(m) /\ Limits(m, c)
    BY BatchFits, MarkRunningSound, MarkRunningLimits
  <2>3. Limits(MaybeFinish(m), c)
    <3> HIDE DEF m
    <3> DEFINE q == [m EXCEPT !.status = "verifying", !.verified = m.output]
    <3>1. Limits(Finish(m, "failed"), c) /\ Limits(Finish(m, "completed"), c)
      BY <2>2, FinishLimits DEF Terminal
    <3>2. CASE m.status = "running"
      <4>1. Sound(q)
        <5>1. m \in RunType({m.checks}) /\ m.output \in [Nodes -> Nat] /\ "verifying" \in Statuses
          BY <2>2 DEF Sound, Typed, RunType, Statuses
        <5>2. q \in RunType({m.checks}) /\ q.checks = m.checks
          BY <5>1 DEF RunType
        <5>3. Slots(q)
          BY <2>2, <5>1, SameSlots DEF Sound, RunType
        <5>4. QED
          BY <2>2, <5>2, <5>3 DEF Sound, Typed
      <4>2. SameCounters(m, q) /\ q.state = m.state /\ m.status \notin Terminal
        BY <2>2, <3>2, LimitFields DEF RunType, SameCounters, Terminal
      <4>3. Limits(q, c)
        <5> HIDE DEF q
        <5> QED
          BY <2>2, <4>2, SameLimits
      <4>4. Limits(EnterVerifying(m), c)
        BY <4>1, <4>3, AskLimits DEF EnterVerifying
      <4>5. QED
        BY <2>2, <3>1, <4>4 DEF MaybeFinish
    <3>3. m.status = "running"
      BY <1>2, LimitFields DEF m, MarkRunning, RunType
    <3>4. QED
      BY <3>2, <3>3
  <2>4. QED
    BY <1>2, <2>1, <2>3 DEF ScheduleReady
<1>3. QED
  BY <1>1, <1>2

LEMMA MarkNodeDoneLimits ==
  ASSUME NEW r, NEW c \in Nat, Sound(r), Limits(r, c), NEW s \in Sessions
  PROVE  Limits(MarkNodeDone(r, s), c)
<1> DEFINE q == NodeDone(r, s)
<1>1. SameCounters(r, q) /\ q.status = r.status
  BY LimitFields DEF NodeDone, RunType, SameCounters
<1>2. q.state = [r.state EXCEPT ![s[1]] = "done"] /\ r.state \in [Nodes -> NodeStates]
  BY LimitFields DEF NodeDone, RunType
<1>3. Sound(q)
  BY MarkNodeDoneSound
<1>4. Limits(q, c)
  <2> HIDE DEF q
  <2> QED
    BY <1>1, <1>2, SameLimits
<1>5. QED
  BY <1>3, <1>4, ScheduleReadyLimits DEF MarkNodeDone, NodeDone

(* Only a node with a retry left goes back to pending. *)
LEMMA FailNodeLimits ==
  ASSUME NEW r, NEW c \in Nat, Sound(r), Limits(r, c), NEW n \in Nodes
  PROVE  Limits(FailNode(r, n), c)
<1>1. ASSUME r.attempt[n] <= RetryLimit[n]
      PROVE  Limits(RetryNode(r, n), c)
  <2> DEFINE q == NodeRetried(r, n)
  <2>1. SameCounters(r, q) /\ q.status = r.status
    BY LimitFields DEF NodeRetried, RunType, SameCounters
  <2>2. q.state = [r.state EXCEPT ![n] = "pending"] /\ r.state \in [Nodes -> NodeStates]
    BY LimitFields DEF NodeRetried, RunType
  <2>3. Sound(q)
    BY RetryNodeSound
  <2>4. Limits(q, c)
    <3> HIDE DEF q
    <3>1. r.attempt[n] \in Nat /\ RetryLimit[n] \in Nat /\ r.repairs \in Nat
      BY LimitFields, LimitConstants
    <3>2. r.attempt[n] <= RetryLimit[n] + r.repairs + c
      BY <1>1, <3>1
    <3>3. AttemptRoom(q, c)
      BY <2>1, <2>2, <3>2 DEF Limits, AttemptRoom, SameCounters
    <3>4. RepairRoom(q)
      BY <2>1 DEF Limits, RepairRoom, SameCounters
    <3>5. QED
      BY <3>3, <3>4 DEF Limits
  <2>5. QED
    BY <2>3, <2>4, ScheduleReadyLimits DEF RetryNode, NodeRetried
<1>2. Limits(GiveUpNode(r, n), c)
  <2> DEFINE q == NodeGivenUp(r, n)
  <2>1. SameCounters(r, q) /\ q.status = r.status
    BY LimitFields DEF NodeGivenUp, RunType, SameCounters
  <2>2. q.state = [r.state EXCEPT ![n] = "failed"] /\ r.state \in [Nodes -> NodeStates]
    BY LimitFields DEF NodeGivenUp, RunType
  <2>3. Sound(q)
    BY GiveUpNodeSound
  <2>4. Limits(q, c)
    <3> HIDE DEF q
    <3> QED
      BY <2>1, <2>2, SameLimits
  <2>5. QED
    BY <2>3, <2>4, ScheduleReadyLimits DEF GiveUpNode, NodeGivenUp
<1>3. QED
  BY <1>1, <1>2 DEF FailNode

-----------------------------------------------------------------------------
(* Completions of the nodes' sessions. *)

LEMMA MeterTokensLimits ==
  ASSUME NEW r, NEW c, Sound(r), Limits(r, c), NEW over \in BOOLEAN
  PROVE  Limits(MeterTokens(r, over), c)
<1> DEFINE metered == [r EXCEPT !.overBudget = over]
           held    == [metered EXCEPT !.status = "paused"]
<1>1. /\ SameCounters(r, metered) /\ metered.state = r.state /\ metered.status = r.status
      /\ SameCounters(r, held) /\ held.state = r.state /\ held.status = "paused"
  BY LimitFields DEF RunType, SameCounters
<1>2. Limits(metered, c)
  <2> HIDE DEF metered, held
  <2> QED
    BY <1>1, UntouchedLimits
<1>3. r.status = "running" => Limits(held, c)
  <2> HIDE DEF metered, held
  <2>1. r.status = "running" => r.status \notin Terminal
    BY DEF Terminal
  <2>2. QED
    BY <1>1, <2>1, SameLimits
<1>4. QED
  BY <1>2, <1>3, Zenon DEF MeterTokens

LEMMA ChecksLimits ==
  ASSUME NEW r, NEW c, Sound(r), Limits(r, c), NEW bag
  PROVE  Limits([r EXCEPT !.checks = bag], c)
<1> DEFINE q == [r EXCEPT !.checks = bag]
<1>1. SameCounters(r, q) /\ q.state = r.state /\ q.status = r.status
  BY LimitFields DEF RunType, SameCounters
<1>2. Limits(q, c)
  <2> HIDE DEF q
  <2> QED
    BY <1>1, UntouchedLimits
<1>3. QED
  BY <1>2

LEMMA NodeRepliedLimits ==
  ASSUME NEW r, NEW c \in Nat, Sound(r), Limits(r, c), NEW s \in Sessions
  PROVE  Limits(NodeReplied(r, s), c)
<1>1. s[1] \in Nodes
  BY DEF Sessions
<1>2. Limits(FailNode(r, s[1]), c) /\ Limits(MarkNodeDone(r, s), c)
  BY <1>1, FailNodeLimits, MarkNodeDoneLimits
<1>3. Limits([r EXCEPT !.checks = @ (+) SetToBag({s})], c)
  BY ChecksLimits
<1>4. QED
  BY <1>2, <1>3 DEF NodeReplied

LEMMA TurnCompletedLimits ==
  ASSUME NEW r, NEW c \in Nat, Sound(r), Limits(r, c), NEW s \in Sessions, NEW e \in Completions
  PROVE  Limits(TurnCompleted(r, s, e), c)
<1> DEFINE heard    == [r EXCEPT !.replied[s[1]] = @ \/ e.reply]
           answered == [heard EXCEPT !.waiting[s[1]] = FALSE]
<1>1. Sound(answered)
  <2>1. answered = Answered(r, s, e)
    BY Zenon DEF Answered
  <2>2. Sound(Answered(r, s, e))
    BY TurnCompletedSound
  <2>3. QED
    BY <2>1, <2>2
<1>2. /\ SameCounters(r, heard) /\ heard.state = r.state /\ heard.status = r.status
      /\ SameCounters(r, answered) /\ answered.state = r.state /\ answered.status = r.status
  BY LimitFields DEF RunType, SameCounters
<1>3. Limits(heard, c) /\ Limits(answered, c)
  <2> HIDE DEF heard, answered
  <2> QED
    BY <1>2, UntouchedLimits
<1>4. Limits(NodeReplied(answered, s), c)
  BY <1>1, <1>3, NodeRepliedLimits
<1>5. QED
  BY <1>3, <1>4, Zenon DEF TurnCompleted

LEMMA OnSessionCompleteLimits ==
  ASSUME NEW r, NEW c \in Nat, Sound(r), Limits(r, c), NEW s \in Sessions, NEW e \in Completions
  PROVE  Limits(OnSessionComplete(r, s, e), c)
<1> DEFINE m == MeterTokens(r, e.over)
           w == [m EXCEPT !.waiting[s[1]] = TRUE]
<1>1. Sound(m) /\ Limits(m, c)
  BY MeterTokensSound, MeterTokensLimits DEF Completions
<1>2. e.reason \in {"complete", "interrupted", "error"} /\ s[1] \in Nodes
  BY DEF Completions, Sessions
<1>3. Limits(w, c)
  <2> HIDE DEF m
  <2>1. SameCounters(m, w) /\ w.state = m.state /\ w.status = m.status
    BY <1>1, LimitFields DEF RunType, SameCounters
  <2>2. QED
    <3> HIDE DEF w
    <3> QED
      BY <1>1, <2>1, UntouchedLimits
<1>4. Limits(FailNode(m, s[1]), c) /\ Limits(TurnCompleted(m, s, e), c)
  BY <1>1, <1>2, FailNodeLimits, TurnCompletedLimits
<1>5. OnSessionComplete(r, s, e) =
        IF ~Accepts(r, s) THEN r
        ELSE CASE e.reason = "interrupted" -> w
               [] e.reason = "error"       -> FailNode(m, s[1])
               [] e.reason = "complete"    -> TurnCompleted(m, s, e)
  BY DEF OnSessionComplete
<1>6. QED
  <2> HIDE DEF m, w
  <2>1. CASE ~Accepts(r, s)
    BY <1>5, <2>1
  <2>2. CASE Accepts(r, s) /\ e.reason = "interrupted"
    BY <1>3, <1>5, <2>2
  <2>3. CASE Accepts(r, s) /\ e.reason = "error"
    BY <1>4, <1>5, <2>3
  <2>4. CASE Accepts(r, s) /\ e.reason = "complete"
    BY <1>4, <1>5, <2>4
  <2>5. QED
    BY <1>2, <2>1, <2>2, <2>3, <2>4

LEMMA OutcomeKnownLimits ==
  ASSUME NEW r, NEW c \in Nat, Sound(r), Limits(r, c), NEW s \in Sessions, NEW finished
  PROVE  Limits(OutcomeKnown(r, s, finished), c)
<1> DEFINE answered == [r EXCEPT !.checks = @ (-) SetToBag({s})]
<1>1. Sound(answered) /\ s[1] \in Nodes
  <2>1. Bagged(r.checks (-) SetToBag({s}))
    BY BagLemma DEF Sound, Typed
  <2>2. QED
    BY <2>1, ChecksSound DEF Sessions
<1>2. Limits(answered, c)
  BY ChecksLimits
<1>3. Limits(MarkNodeDone(answered, s), c) /\ Limits(FailNode(answered, s[1]), c)
  BY <1>1, <1>2, MarkNodeDoneLimits, FailNodeLimits
<1>4. QED
  BY <1>2, <1>3 DEF OutcomeKnown

-----------------------------------------------------------------------------
(* Verdicts and repairs. *)

(* A repair pass has been paid for and not started. *)
PaidFor(r) ==
  /\ r.hop = "none"
  /\ r.repairs < MaxRepairs
  /\ r.repairs < r.repairsUsed
  /\ r.repairs < r.logFails

LEMMA RepairForVerdictLimits ==
  ASSUME NEW r, NEW c \in Nat, Sound(r), Limits(r, c), PaidFor(r), r.status = "verifying", NEW names
  PROVE  Limits(RepairForVerdict(r, names), c)
<1> DEFINE q == Repairing(r, names)
<1>1. /\ q.attempt = r.attempt
      /\ q.repairs = r.repairs + 1
      /\ q.repairsUsed = r.repairsUsed
      /\ q.logFails = r.logFails
      /\ q.hop = "none"
  BY LimitFields DEF Repairing, RunType, PaidFor
<1>2. \A n \in Nodes : q.state[n] = "cancelled" => r.state[n] = "cancelled"
  <2>1. q.state = [n \in Nodes |-> IF n \in Redone(r, names) THEN "pending" ELSE r.state[n]]
    <3> DEFINE state == [n \in Nodes |-> IF n \in Redone(r, names) THEN "pending" ELSE r.state[n]]
    <3>1. q = [r EXCEPT !.status = "running", !.repairs = @ + 1, !.state = state]
      BY Zenon DEF Repairing
    <3>2. q.state = state
      <4> HIDE DEF state, q
      <4> QED
        BY <3>1, LimitFields DEF RunType
    <3>3. QED
      BY <3>2
  <2>2. QED
    BY <2>1
<1>3. Sound(q)
  BY RepairForVerdictSound
<1>4. Limits(q, c)
  <2> HIDE DEF q
  <2>1. r.repairs \in Nat /\ r.repairsUsed \in Nat /\ r.logFails \in Nat /\ MaxRepairs \in Nat
    BY LimitFields, LimitConstants
  <2>2. RepairRoom(q)
    BY <1>1, <2>1 DEF PaidFor, RepairRoom
  <2>3. ASSUME NEW n \in Nodes
        PROVE  /\ q.attempt[n] <= RetryLimit[n] + q.repairs + c
               /\ q.attempt[n] <= RetryLimit[n] + 1 + q.repairs + c
               /\ q.state[n] # "cancelled"
    <3>1. r.attempt[n] \in Nat /\ RetryLimit[n] \in Nat
      BY LimitFields, LimitConstants
    <3>2. r.attempt[n] <= RetryLimit[n] + 1 + r.repairs + c
      BY DEF Limits, AttemptRoom
    <3>3. q.attempt[n] <= RetryLimit[n] + q.repairs + c
      BY <1>1, <2>1, <3>1, <3>2
    <3>4. q.attempt[n] <= RetryLimit[n] + 1 + q.repairs + c
      BY <1>1, <2>1, <3>1, <3>2
    <3>5. q.state[n] # "cancelled"
      BY <1>2 DEF Limits, AttemptRoom, Terminal
    <3>6. QED
      BY <3>3, <3>4, <3>5
  <2>4. AttemptRoom(q, c)
    BY <2>3 DEF AttemptRoom
  <2>5. QED
    BY <2>2, <2>4 DEF Limits
<1>5. Limits(ScheduleReady(q), c) /\ Limits(Finish(r, "failed"), c)
  BY <1>3, <1>4, ScheduleReadyLimits, FinishLimits DEF Terminal
<1>6. QED
  BY <1>5, Zenon DEF RepairForVerdict, Repairing, Redone

LEMMA LogVerdictLimits ==
  ASSUME NEW r, NEW c, Sound(r), Limits(r, c), Taken(r),
         NEW result \in {"pass", "fail", "unparsed"}
  PROVE  /\ Limits(LogVerdict(r, result), c)
         /\ result = "fail" => LogVerdict(r, result).repairs < LogVerdict(r, result).logFails
<1> DEFINE q == LogVerdict(r, result)
<1>1. /\ q.attempt = r.attempt /\ q.repairs = r.repairs /\ q.repairsUsed = r.repairsUsed
      /\ q.hop = r.hop /\ q.state = r.state /\ q.status = r.status
      /\ q.logFails = IF result = "fail" THEN r.logFails + 1 ELSE r.logFails
  BY LimitFields DEF LogVerdict, RunType
<1>2. r.repairs \in Nat /\ r.logFails \in Nat /\ r.hop = "none" /\ r.repairs <= r.logFails
  BY LimitFields DEF Taken, Limits, RepairRoom
<1>3. Limits(q, c) /\ (result = "fail" => q.repairs < q.logFails)
  <2> HIDE DEF q
  <2>1. AttemptRoom(q, c)
    BY <1>1 DEF Limits, AttemptRoom
  <2>2. q.repairs <= q.logFails /\ (result = "fail" => q.repairs < q.logFails)
    BY <1>1, <1>2
  <2>3. RepairRoom(q)
    BY <1>1, <1>2, <2>2 DEF Limits, RepairRoom
  <2>4. QED
    BY <2>1, <2>2, <2>3 DEF Limits
<1>4. QED
  BY <1>3

LEMMA ApplyFailLimits ==
  ASSUME NEW r, NEW c \in Nat, Sound(r), Limits(r, c), Taken(r), NEW v \in Verdicts,
         r.repairs < r.logFails
  PROVE  Limits(ApplyFail(r, v), c)
<1> DEFINE spent  == [r EXCEPT !.repairsUsed = @ + 1, !.lastScoped = FALSE]
           scoped == [spent EXCEPT !.hop = "scope"]
<1>1. Limits(Finish(r, "failed"), c)
  BY FinishLimits DEF Terminal
<1>2. ASSUME r.repairsUsed < MaxRepairs
      PROVE  Limits(scoped, c) /\ Limits(RepairForVerdict(spent, v.names), c)
  <2>1. /\ spent.attempt = r.attempt /\ spent.repairs = r.repairs
        /\ spent.repairsUsed = r.repairsUsed + 1 /\ spent.logFails = r.logFails
        /\ spent.hop = r.hop /\ spent.state = r.state /\ spent.status = r.status
        /\ scoped.attempt = r.attempt /\ scoped.repairs = r.repairs
        /\ scoped.repairsUsed = r.repairsUsed + 1 /\ scoped.logFails = r.logFails
        /\ scoped.hop = "scope" /\ scoped.state = r.state /\ scoped.status = r.status
    BY LimitFields DEF RunType
  <2>2. Sound(spent)
    BY SpentSound
  <2>3. /\ r.repairs \in Nat /\ r.repairsUsed \in Nat /\ r.logFails \in Nat
        /\ MaxRepairs \in Nat
        /\ r.repairs <= r.repairsUsed /\ r.hop = "none" /\ r.status = "verifying"
    BY LimitFields, LimitConstants DEF Limits, RepairRoom, Taken
  <2> HIDE DEF spent, scoped
  <2>4. AttemptRoom(spent, c) /\ AttemptRoom(scoped, c)
    BY <2>1 DEF Limits, AttemptRoom
  <2>5. r.repairs < MaxRepairs /\ r.repairs < r.repairsUsed + 1
    BY <1>2, <2>3
  <2>6. RepairRoom(spent) /\ RepairRoom(scoped) /\ PaidFor(spent)
    BY <2>1, <2>3, <2>5 DEF RepairRoom, PaidFor
  <2>7. Limits(spent, c) /\ Limits(scoped, c)
    BY <2>4, <2>6 DEF Limits
  <2>8. QED
    BY <2>1, <2>2, <2>3, <2>6, <2>7, RepairForVerdictLimits
<1>3. r.repairsUsed < MaxRepairs \/ r.repairsUsed >= MaxRepairs
  <2>1. r.repairsUsed \in Nat /\ MaxRepairs \in Nat
    BY LimitFields, LimitConstants
  <2>2. QED
    BY <2>1
<1>4. CASE r.repairsUsed >= MaxRepairs
  BY <1>1, <1>4 DEF ApplyFail
<1>5. CASE r.repairsUsed < MaxRepairs
  BY <1>1, <1>2, <1>5, Zenon DEF ApplyFail
<1>6. QED
  BY <1>3, <1>4, <1>5

LEMMA ApplyVerdictLimits ==
  ASSUME NEW r, NEW c \in Nat, Sound(r), Limits(r, c), Taken(r), NEW v \in Verdicts,
         v.result = "fail" => r.repairs < r.logFails
  PROVE  Limits(ApplyVerdict(r, v), c)
<1>1. v.result \in {"pass", "fail", "unparsed"}
  BY DEF Verdicts
<1>2. ASSUME NEW k \in Nat
      PROVE  Sound([r EXCEPT !.reAsks = k]) /\ Limits([r EXCEPT !.reAsks = k], c)
  <2> DEFINE q == [r EXCEPT !.reAsks = k]
  <2>1. SameCounters(r, q) /\ q.state = r.state /\ q.status = r.status
    BY LimitFields DEF RunType, SameCounters
  <2>2. Limits(q, c)
    <3> HIDE DEF q
    <3> QED
      BY <2>1, UntouchedLimits
  <2>3. QED
    BY <2>2, ReAsksSound
<1>3. Limits(ApplyPass(r), c)
  BY <1>2, FinishLimits DEF ApplyPass, Terminal
<1>4. Limits(ApplyUnparsed(r), c)
  <2>1. r.reAsks + 1 \in Nat
    BY LimitFields DEF RunType
  <2>2. Limits(AskOrchestrator([r EXCEPT !.reAsks = @ + 1]), c)
    BY <1>2, <2>1, AskLimits
  <2>3. Limits(Finish(r, "failed"), c)
    BY FinishLimits DEF Terminal
  <2>4. QED
    BY <2>2, <2>3 DEF ApplyUnparsed
<1>5. v.result = "fail" => Limits(ApplyFail(r, v), c)
  BY ApplyFailLimits
<1>6. QED
  BY <1>1, <1>3, <1>4, <1>5 DEF ApplyVerdict

(* An answer of the decision model is taken: what waits for it is over. *)
LEMMA HopLimits ==
  ASSUME NEW r, NEW c, Sound(r), Limits(r, c), NEW hop \in {"none", "decide"}
  PROVE  Limits([r EXCEPT !.hop = hop], c)
<1> DEFINE q == [r EXCEPT !.hop = hop]
<1>1. /\ q.attempt = r.attempt /\ q.repairs = r.repairs /\ q.repairsUsed = r.repairsUsed
      /\ q.logFails = r.logFails /\ q.state = r.state /\ q.status = r.status /\ q.hop = hop
  BY LimitFields DEF RunType
<1>2. Limits(q, c)
  <2> HIDE DEF q
  <2> QED
    BY <1>1 DEF Limits, AttemptRoom, RepairRoom
<1>3. QED
  BY <1>2

LEMMA HandleVerdictLimits ==
  ASSUME NEW r, NEW c \in Nat, Sound(r), Limits(r, c), Taken(r), NEW v \in Verdicts
  PROVE  Limits(HandleVerdict(r, v), c)
<1>1. v.result \in {"pass", "fail", "unparsed"}
  BY DEF Verdicts
<1>2. Limits([r EXCEPT !.hop = "decide"], c)
  BY HopLimits
<1>3. Limits(ApplyVerdict(LogVerdict(r, v.result), v), c)
  <2> DEFINE q == LogVerdict(r, v.result)
  <2>1. Sound(q) /\ Taken(q) /\ Limits(q, c) /\ (v.result = "fail" => q.repairs < q.logFails)
    BY <1>1, LogVerdictSound, LogVerdictTaken, LogVerdictLimits
  <2>2. Limits(ApplyVerdict(q, v), c)
    <3> HIDE DEF q
    <3> QED
      BY <2>1, ApplyVerdictLimits
  <2>3. QED
    BY <2>2
<1>4. QED
  BY <1>2, <1>3 DEF HandleVerdict

LEMMA OnOrchestratorCompleteLimits ==
  ASSUME NEW r, NEW c \in Nat, Sound(r), Awaited(r), Limits(r, c), NEW e \in Answers
  PROVE  Limits(OnOrchestratorComplete(r, e), c)
<1> DEFINE q == [r EXCEPT !.listening = FALSE]
<1>1. CASE ~r.listening
  BY <1>1 DEF OnOrchestratorComplete
<1>2. CASE r.listening
  <2>1. Sound(q)
    BY OnOrchestratorCompleteSound
  <2>2. Taken(q)
    BY <1>2, SoundFields DEF Awaited, Taken, RunType
  <2>3. SameCounters(r, q) /\ q.state = r.state /\ q.status = r.status
    BY LimitFields DEF RunType, SameCounters
  <2>4. Limits(q, c)
    <3> HIDE DEF q
    <3> QED
      BY <2>3, UntouchedLimits
  <2>5. Limits(HandleVerdict(q, e.verdict), c)
    BY <2>1, <2>2, <2>4, HandleVerdictLimits DEF Answers
  <2>6. QED
    BY <2>5 DEF OnOrchestratorComplete
<1>3. QED
  BY <1>1, <1>2

LEMMA VerdictDecidedLimits ==
  ASSUME NEW r, NEW c \in Nat, Sound(r), Awaited(r), Limits(r, c), r.hop # "none",
         NEW v \in Verdicts
  PROVE  Limits(VerdictDecided(r, v), c)
<1> DEFINE answered == [r EXCEPT !.hop = "none"]
           q == LogVerdict(answered, v.result)
<1>1. Sound(answered) /\ Limits(answered, c) /\ ~r.listening
  BY HopSound, HopLimits DEF Awaited
<1>2. v.result \in {"pass", "fail", "unparsed"}
  BY DEF Verdicts
<1>3. CASE r.status = "verifying"
  <2>1. Taken(answered)
    BY <1>1, <1>3, SoundFields DEF Taken, RunType
  <2>2. Sound(q) /\ Taken(q) /\ Limits(q, c) /\ (v.result = "fail" => q.repairs < q.logFails)
    <3> HIDE DEF answered
    <3> QED
      BY <1>1, <1>2, <2>1, LogVerdictSound, LogVerdictTaken, LogVerdictLimits
  <2>3. Limits(ApplyVerdict(q, v), c)
    <3> HIDE DEF q
    <3> QED
      BY <2>2, ApplyVerdictLimits
  <2>4. QED
    BY <1>3, <2>3 DEF VerdictDecided
<1>4. QED
  BY <1>1, <1>3 DEF VerdictDecided

LEMMA RepairScopedLimits ==
  ASSUME NEW r, NEW c \in Nat, Sound(r), Limits(r, c), r.hop = "scope", NEW names
  PROVE  Limits(RepairScoped(r, names), c)
<1> DEFINE answered == [r EXCEPT !.hop = "none"]
           q == [answered EXCEPT !.lastScoped = (names # {})]
<1>1. Sound(answered) /\ Limits(answered, c) /\ Sound(q)
  BY HopSound, HopLimits, RepairScopedSound
<1>2. /\ SameCounters(answered, q) /\ q.state = answered.state /\ q.status = r.status
      /\ q.status = answered.status
      /\ q.hop = "none" /\ q.repairs = r.repairs /\ q.repairsUsed = r.repairsUsed
      /\ q.logFails = r.logFails
  BY LimitFields DEF RunType, SameCounters
<1>3. Limits(q, c) /\ PaidFor(q)
  <2> HIDE DEF answered, q
  <2>1. Limits(q, c)
    BY <1>1, <1>2, UntouchedLimits
  <2>2. PaidFor(q)
    BY <1>2 DEF Limits, RepairRoom, PaidFor
  <2>3. QED
    BY <2>1, <2>2
<1>4. r.status = "verifying" => Limits(RepairForVerdict(q, names), c)
  <2> HIDE DEF q
  <2> QED
    BY <1>1, <1>2, <1>3, RepairForVerdictLimits
<1>5. QED
  BY <1>1, <1>4 DEF RepairScoped

LEMMA AskRejectedLimits ==
  ASSUME NEW r, NEW c, Sound(r), Limits(r, c), r.asks > 0
  PROVE  Limits(AskRejected(r), c)
<1> DEFINE q == [r EXCEPT !.asks = @ - 1]
<1>1. SameCounters(r, q) /\ q.state = r.state /\ q.status = r.status
  BY LimitFields DEF RunType, SameCounters
<1>2. Limits(q, c)
  <2> HIDE DEF q
  <2> QED
    BY <1>1, UntouchedLimits
<1>3. Sound(q)
  BY AsksSound
<1>4. Limits(Finish(q, "failed"), c)
  BY <1>2, <1>3, FinishLimits DEF Terminal
<1>5. QED
  BY <1>4 DEF AskRejected

-----------------------------------------------------------------------------
(* Commands and crashes. *)

LEMMA PauseRunLimits ==
  ASSUME NEW r, NEW c, Sound(r), Limits(r, c)
  PROVE  Limits(PauseRun(r), c)
<1> DEFINE q == [r EXCEPT !.status = "paused"]
<1>1. SameCounters(r, q) /\ q.state = r.state
  BY LimitFields DEF RunType, SameCounters
<1>2. r.status = "running" => Limits(q, c)
  <2> HIDE DEF q
  <2>1. r.status = "running" => r.status \notin Terminal
    BY DEF Terminal
  <2>2. QED
    BY <1>1, <2>1, SameLimits
<1>3. QED
  BY <1>2 DEF PauseRun

(* A paused run has no cancelled node: nothing becomes pending. *)
LEMMA ResumeRunLimits ==
  ASSUME NEW r, NEW c \in Nat, Sound(r), Limits(r, c)
  PROVE  Limits(ResumeRun(r), c)
<1> DEFINE state == CancelledToPending(r.state)
           q == [r EXCEPT !.status = "running", !.state = state]
<1>1. SameCounters(r, q) /\ q.state = state
  <2> HIDE DEF state
  <2> QED
    BY LimitFields DEF RunType, SameCounters
<1>2. Sound(q)
  BY ResumeRunSound
<1>3. ASSUME r.status = "paused"
      PROVE  Limits(q, c)
  <2>1. r.status \notin Terminal
    BY <1>3 DEF Terminal
  <2>2. \A n \in Nodes : state[n] = r.state[n]
    BY <2>1 DEF Limits, AttemptRoom, CancelledToPending
  <2>3. QED
    <3> HIDE DEF q, state
    <3> QED
      BY <1>1, <2>1, <2>2, SameLimits
<1>4. r.status = "paused" => Limits(ScheduleReady(q), c)
  <2> HIDE DEF q
  <2> QED
    BY <1>2, <1>3, ScheduleReadyLimits
<1>5. QED
  BY <1>4 DEF ResumeRun

LEMMA StopRunLimits ==
  ASSUME NEW r, NEW c, Sound(r), Limits(r, c)
  PROVE  Limits(StopRun(r), c)
<1> DEFINE f == Finish(r, "stopped")
<1>1. Sound(f) /\ Limits(f, c) /\ f.status = "stopped" /\ f.state = r.state
  <2>1. Sound(f) /\ Limits(f, c)
    BY FinishSound, FinishLimits DEF Statuses, Terminal
  <2>2. f.status = "stopped" /\ f.state = r.state
    BY LimitFields DEF Finish, RunType
  <2>3. QED
    BY <2>1, <2>2
<1>2. ASSUME NEW state, NEW logState, \A n \in Nodes : state[n] \in {"cancelled", r.state[n]}
      PROVE  Limits([f EXCEPT !.state = state, !.logState = logState, !.inFlight = 0], c)
  <2> HIDE DEF f
  <2> DEFINE q == [f EXCEPT !.state = state, !.logState = logState, !.inFlight = 0]
  <2>1. SameCounters(f, q) /\ q.status = "stopped" /\ q.state = state
    BY <1>1, LimitFields DEF RunType, SameCounters
  <2>2. AttemptRoom(q, c)
    <3> HIDE DEF q
    <3> QED
      BY <1>1, <1>2, <2>1 DEF Limits, AttemptRoom, SameCounters, Terminal
  <2>3. RepairRoom(q)
    <3> HIDE DEF q
    <3> QED
      BY <1>1, <2>1 DEF Limits, RepairRoom, SameCounters
  <2>4. QED
    BY <2>2, <2>3 DEF Limits
<1>3. QED
  <2> DEFINE Cancel(g) == [n \in Nodes |-> IF n \in RunningNodes(r) THEN "cancelled" ELSE g[n]]
             state    == Cancel(r.state)
             logState == Cancel(r.logState)
  <2>1. \A n \in Nodes : state[n] \in {"cancelled", r.state[n]}
    OBVIOUS
  <2>2. Limits([f EXCEPT !.state = state, !.logState = logState, !.inFlight = 0], c)
    <3> HIDE DEF state, logState, f
    <3> QED
      BY <1>2, <2>1
  <2>3. QED
    BY <2>2, Zenon DEF StopRun

(* After a crash every node has an attempt left, the one the restart allows. *)
Survived(r, c) ==
  /\ RepairRoom(r)
  /\ \A n \in Nodes : r.attempt[n] <= RetryLimit[n] + r.repairs + c

LEMMA LostLimits ==
  ASSUME NEW r, NEW c \in Nat, Sound(r), Limits(r, c)
  PROVE  Survived(Lost(r), c + 1)
<1> DEFINE q == Lost(r)
<1>1. /\ q.attempt = r.attempt /\ q.repairs = r.repairs /\ q.repairsUsed = r.repairsUsed
      /\ q.logFails = r.logFails /\ q.hop = "none"
  BY LimitFields DEF Lost, RunType
<1>2. RepairRoom(q)
  BY <1>1 DEF Limits, RepairRoom
<1>3. ASSUME NEW n \in Nodes
      PROVE  q.attempt[n] <= RetryLimit[n] + q.repairs + (c + 1)
  <2>1. r.attempt[n] \in Nat /\ RetryLimit[n] \in Nat /\ r.repairs \in Nat
    BY LimitFields, LimitConstants
  <2>2. r.attempt[n] <= RetryLimit[n] + 1 + r.repairs + c
    BY DEF Limits, AttemptRoom
  <2>3. QED
    <3> HIDE DEF q
    <3> QED
      BY <1>1, <2>1, <2>2
<1>4. QED
  BY <1>2, <1>3 DEF Survived

LEMMA HydrateLimits ==
  ASSUME NEW r, NEW c \in Nat, Sound(r), r.hop = "none", Survived(r, c)
  PROVE  Limits(ScheduleReady(Hydrate(r)), c)
<1> DEFINE state == CancelledToPending(r.logState)
           q     == Hydrate(r)
<1>1. /\ q.attempt = r.attempt /\ q.repairs = r.repairs /\ q.repairsUsed = r.logFails
      /\ q.logFails = r.logFails /\ q.hop = "none" /\ q.state = state
  <2> DEFINE nobody == [n \in Nodes |-> FALSE]
  <2>1. q = [r EXCEPT !.status = "running", !.settled = FALSE, !.inFlight = 0,
                      !.state = state, !.waiting = nobody, !.replied = nobody,
                      !.repairsUsed = r.logFails, !.reAsks = r.logUnparsed,
                      !.lastScoped = FALSE]
    BY DEF Hydrate
  <2>2. QED
    <3> HIDE DEF state, nobody, q
    <3> QED
      BY <2>1, LimitFields DEF RunType
<1>2. \A n \in Nodes : state[n] # "cancelled"
  BY DEF CancelledToPending
<1>3. Limits(q, c)
  <2> HIDE DEF q, state
  <2>1. RepairRoom(q)
    BY <1>1 DEF Survived, RepairRoom
  <2>2. ASSUME NEW n \in Nodes
        PROVE  /\ q.attempt[n] <= RetryLimit[n] + 1 + q.repairs + c
               /\ q.attempt[n] <= RetryLimit[n] + q.repairs + c
               /\ q.state[n] # "cancelled"
    <3>1. /\ r.attempt[n] \in Nat /\ RetryLimit[n] \in Nat /\ r.repairs \in Nat
          /\ r.attempt[n] <= RetryLimit[n] + r.repairs + c
      BY LimitFields, LimitConstants DEF Survived
    <3>2. r.attempt[n] <= RetryLimit[n] + 1 + r.repairs + c
      BY <3>1
    <3>3. QED
      BY <1>1, <1>2, <3>1, <3>2
  <2>3. AttemptRoom(q, c)
    BY <2>2 DEF AttemptRoom
  <2>4. QED
    BY <2>1, <2>3 DEF Limits
<1>4. Sound(q)
  BY HydrateSound
<1>5. QED
  <2> HIDE DEF q
  <2>1. Limits(ScheduleReady(q), c)
    BY <1>3, <1>4, ScheduleReadyLimits
  <2>2. QED
    BY <2>1 DEF q

-----------------------------------------------------------------------------
(* Every action keeps the limits. *)

LimitInv ==
  /\ up => Limits(run, crashes)
  /\ ~up => Survived(run, crashes)

LEMMA InitLimits == Init => LimitInv
<1>1. Limits(FreshRun, 0)
  <2>1. AttemptRoom(FreshRun, 0)
    BY LimitConstants DEF AttemptRoom, FreshRun
  <2>2. RepairRoom(FreshRun)
    BY LimitConstants DEF RepairRoom, FreshRun
  <2>3. QED
    BY <2>1, <2>2 DEF Limits
<1>2. QED
  BY <1>1, FreshRunSound, ScheduleReadyLimits DEF Init, LimitInv

LEMMA DispatchLimits ==
  ASSUME SoundInv, Limits(run, crashes), DispatchProceeds
  PROVE  Limits(run', crashes')
<1>0. /\ Sound(run) /\ crashes \in Nat
      /\ run.creating \subseteq Sessions /\ run.sending \subseteq Sessions
  BY SoundFields DEF SoundInv, EnvironmentOK
<1>1. ASSUME NEW s \in run.creating, SessionCreated(s)
      PROVE  Limits(run', crashes')
  <2>1. SameCounters(run, run') /\ run'.state = run.state /\ run'.status = run.status
    <3> DEFINE session == [run.session EXCEPT ![s[1]] = s[2]]
    <3>1. run' = [run EXCEPT !.creating = @ \ {s}, !.sending = @ \cup {s},
                             !.created = @ \cup {s}, !.session = session]
      BY <1>1 DEF SessionCreated
    <3>2. QED
      <4> HIDE DEF session
      <4> QED
        BY <1>0, <3>1, LimitFields DEF RunType, SameCounters
  <2>2. crashes' = crashes
    BY <1>1 DEF SessionCreated
  <2>3. QED
    BY <2>1, <2>2, UntouchedLimits
<1>2. ASSUME NEW s \in run.creating, SessionRefused(s)
      PROVE  Limits(run', crashes')
  <2> DEFINE q == [run EXCEPT !.creating = @ \ {s}]
  <2>1. Sound(q) /\ s[1] \in Nodes
    BY <1>0, CreatingSound DEF Sessions
  <2>2. SameCounters(run, q) /\ q.state = run.state /\ q.status = run.status
    BY <1>0, LimitFields DEF RunType, SameCounters
  <2>3. Limits(FailNode(q, s[1]), crashes)
    <3> HIDE DEF q
    <3> QED
      BY <1>0, <2>1, <2>2, UntouchedLimits, FailNodeLimits
  <2>4. QED
    BY <1>2, <2>3 DEF SessionRefused
<1>3. ASSUME NEW s \in run.sending, PromptSent(s)
      PROVE  Limits(run', crashes')
  <2>1. SameCounters(run, run') /\ run'.state = run.state /\ run'.status = run.status
    BY <1>0, <1>3, LimitFields DEF PromptSent, RunType, SameCounters
  <2>2. crashes' = crashes
    BY <1>3 DEF PromptSent
  <2>3. QED
    BY <2>1, <2>2, UntouchedLimits
<1>4. ASSUME NEW s \in run.sending, PromptRejected(s)
      PROVE  Limits(run', crashes')
  <2> DEFINE q == [run EXCEPT !.sending = @ \ {s}]
  <2>1. Sound(q) /\ s[1] \in Nodes
    BY <1>0, SendingSound DEF Sessions
  <2>2. SameCounters(run, q) /\ q.state = run.state /\ q.status = run.status
    BY <1>0, LimitFields DEF RunType, SameCounters
  <2>3. Limits(FailNode(q, s[1]), crashes)
    <3> HIDE DEF q
    <3> QED
      BY <1>0, <2>1, <2>2, UntouchedLimits, FailNodeLimits
  <2>4. QED
    BY <1>4, <2>3 DEF PromptRejected
<1>5. QED
  BY <1>1, <1>2, <1>3, <1>4 DEF DispatchProceeds

LEMMA SessionsLimits ==
  ASSUME SoundInv, Limits(run, crashes), SessionsProceed
  PROVE  Limits(run', crashes')
<1>0. Sound(run) /\ crashes \in Nat
  BY DEF SoundInv, EnvironmentOK
<1>1. ASSUME NEW s \in userTurns \cup wakeTurns,
             NEW reason \in {"complete", "interrupted", "error"},
             NEW reply \in BOOLEAN, NEW launched \in BOOLEAN, NEW over \in BOOLEAN,
             TurnEnds(s, reason, reply, launched, over)
      PROVE  Limits(run', crashes')
  <2> DEFINE e == [reason |-> reason, reply |-> reply, background |-> s \in background',
                   fromUser |-> s \in userTurns, over |-> over]
  <2>1. s \in Sessions /\ e \in Completions
    BY DEF SoundInv, EnvironmentOK, Completions
  <2>2. run' = OnSessionComplete(run, s, e) /\ crashes' = crashes
    BY <1>1 DEF TurnEnds
  <2>3. QED
    <3> HIDE DEF e
    <3> QED
      BY <1>0, <2>1, <2>2, OnSessionCompleteLimits
<1>2. ASSUME NEW s \in background, BackgroundEnds(s)
      PROVE  Limits(run', crashes')
  BY <1>2 DEF BackgroundEnds
<1>3. ASSUME NEW s \in BagToSet(run.checks), NEW finished \in BOOLEAN,
             OutcomeAnswered(s, finished)
      PROVE  Limits(run', crashes')
  <2>1. s \in Sessions
    BY <1>0 DEF Sound, Typed, Bagged
  <2>2. QED
    BY <1>0, <1>3, <2>1, OutcomeKnownLimits DEF OutcomeAnswered
<1>4. (IF HasBudget THEN {run.overBudget, TRUE} ELSE {FALSE}) \subseteq BOOLEAN
  BY <1>0, SoundFields
<1>5. QED
  BY <1>1, <1>2, <1>3, <1>4 DEF SessionsProceed, SomeTurnEnds

LEMMA VerificationLimits ==
  ASSUME SoundInv, Awaited(run), Limits(run, crashes), VerificationProceeds
  PROVE  Limits(run', crashes')
<1>0. Sound(run) /\ crashes \in Nat
  BY DEF SoundInv, EnvironmentOK
<1>1. CASE AskSent
  <2>1. SameCounters(run, run') /\ run'.state = run.state /\ run'.status = run.status
    BY <1>0, <1>1, LimitFields DEF AskSent, RunType, SameCounters
  <2>2. crashes' = crashes
    BY <1>1 DEF AskSent
  <2>3. QED
    BY <2>1, <2>2, UntouchedLimits
<1>2. CASE AskFails
  BY <1>0, <1>2, AskRejectedLimits DEF AskFails
<1>3. CASE OrchestratorBackgroundEnds
  BY <1>3 DEF OrchestratorBackgroundEnds
<1>4. ASSUME NEW interrupted \in BOOLEAN, NEW launched \in BOOLEAN, NEW v \in Verdicts,
             OrchestratorTurnEnds(interrupted, launched, v)
      PROVE  Limits(run', crashes')
  <2> DEFINE e == [reason |-> IF interrupted THEN "interrupted" ELSE "complete",
                   background |-> orchestrator.background \/ launched, verdict |-> v]
  <2>1. e \in Answers
    BY DEF Answers
  <2>2. Limits(OnOrchestratorComplete(run, e), crashes)
    BY <1>0, <2>1, OnOrchestratorCompleteLimits
  <2>3. QED
    BY <1>4, <2>2 DEF OrchestratorTurnEnds
<1>5. ASSUME NEW v \in Verdicts, VerdictClassified(v)
      PROVE  Limits(run', crashes')
  <2>1. run.hop # "none" /\ run' = VerdictDecided(run, v) /\ crashes' = crashes
    BY <1>5 DEF VerdictClassified
  <2>2. QED
    BY <1>0, <2>1, VerdictDecidedLimits
<1>6. ASSUME NEW names \in SUBSET Nodes, RepairNarrowed(names)
      PROVE  Limits(run', crashes')
  BY <1>0, <1>6, RepairScopedLimits DEF RepairNarrowed
<1>7. QED
  BY <1>1, <1>2, <1>3, <1>4, <1>5, <1>6
     DEF VerificationProceeds, SomeOrchestratorTurnEnds

LEMMA CommandsLimits ==
  ASSUME SoundInv, Limits(run, crashes), Commands
  PROVE  Limits(run', crashes')
<1>0. Sound(run) /\ crashes \in Nat
  BY DEF SoundInv, EnvironmentOK
<1>1. ASSUME NEW s \in run.created, UserMessage(s)
      PROVE  Limits(run', crashes')
  BY <1>1 DEF UserMessage
<1>2. CASE UserAsksOrchestrator
  BY <1>2 DEF UserAsksOrchestrator
<1>3. CASE Pause
  BY <1>0, <1>3, PauseRunLimits DEF Pause
<1>4. CASE Resume
  BY <1>0, <1>4, ResumeRunLimits DEF Resume
<1>5. CASE Stop
  BY <1>0, <1>5, StopRunLimits DEF Stop
<1>6. QED
  BY <1>1, <1>2, <1>3, <1>4, <1>5 DEF Commands

LEMMA StepLimits ==
  ASSUME SoundInv, AwaitInv, LimitInv, [Next]_vars
  PROVE  LimitInv'
<1>0. Sound(run) /\ crashes \in Nat
  BY DEF SoundInv, EnvironmentOK
<1>1. CASE up /\ (DispatchProceeds \/ SessionsProceed \/ VerificationProceeds \/ Commands)
  <2>1. Limits(run, crashes) /\ Awaited(run)
    BY <1>1 DEF LimitInv, AwaitInv
  <2>2. Limits(run', crashes')
    BY <1>1, <2>1, DispatchLimits, SessionsLimits, VerificationLimits, CommandsLimits
  <2>3. up' = up
    BY <1>1 DEF DispatchProceeds, SessionCreated, SessionRefused, PromptSent, PromptRejected,
                SessionsProceed, SomeTurnEnds, TurnEnds, BackgroundEnds, OutcomeAnswered,
                VerificationProceeds, AskSent, AskFails, OrchestratorBackgroundEnds,
                SomeOrchestratorTurnEnds, OrchestratorTurnEnds, VerdictClassified,
                RepairNarrowed, Commands, UserMessage, UserAsksOrchestrator, Pause, Resume, Stop
  <2>4. QED
    BY <1>1, <2>2, <2>3 DEF LimitInv
<1>2. CASE up /\ Crash
  <2>1. ~up' /\ run' = Lost(run) /\ crashes' = crashes + 1 /\ Limits(run, crashes)
    BY <1>2 DEF Crash, LimitInv
  <2>2. Survived(run', crashes')
    BY <1>0, <2>1, LostLimits
  <2>3. QED
    BY <2>1, <2>2 DEF LimitInv
<1>3. CASE Rehydrate
  <2>1. up' /\ run' = ScheduleReady(Hydrate(run)) /\ crashes' = crashes /\ ~up
    BY <1>3 DEF Rehydrate
  <2>2. Survived(run, crashes) /\ run.hop = "none"
    BY <2>1 DEF LimitInv, AwaitInv
  <2>3. Limits(run', crashes')
    BY <1>0, <2>1, <2>2, HydrateLimits
  <2>4. QED
    BY <2>1, <2>3 DEF LimitInv
<1>4. CASE UNCHANGED vars
  BY <1>4 DEF LimitInv, vars
<1>5. QED
  BY <1>1, <1>2, <1>3, <1>4 DEF Next, AtRest

LEMMA AwaitInvHolds == Spec => []AwaitInv
BY InitAwaits, StepAwaits, SoundInvHolds, PTL DEF Spec

LEMMA LimitInvHolds == Spec => []LimitInv
BY InitLimits, StepLimits, SoundInvHolds, AwaitInvHolds, PTL DEF Spec

(* However retries, repair passes and restarts interleave, a node is        *)
(* dispatched at most once, once per retry it is allowed, once per repair   *)
(* pass and once per restart: no deterministic failure is retried for ever. *)
THEOREM AttemptsLimited == Spec => []AttemptsBounded
<1>1. ASSUME SoundInv, LimitInv
      PROVE  AttemptsBounded
  <2>1. ASSUME NEW n \in Nodes
        PROVE  run.attempt[n] <= RetryLimit[n] + 1 + run.repairs + crashes
    <3>1. /\ run.attempt[n] \in Nat /\ RetryLimit[n] \in Nat /\ run.repairs \in Nat
          /\ crashes \in Nat
      BY <1>1, LimitFields, LimitConstants DEF SoundInv, EnvironmentOK
    <3>2. CASE up
      BY <1>1, <3>2 DEF LimitInv, Limits, AttemptRoom
    <3>3. CASE ~up
      <4>1. run.attempt[n] <= RetryLimit[n] + run.repairs + crashes
        BY <1>1, <3>3 DEF LimitInv, Survived
      <4>2. QED
        BY <3>1, <4>1
    <3>4. QED
      BY <3>2, <3>3
  <2>2. QED
    BY <2>1 DEF AttemptsBounded
<1>2. QED
  BY <1>1, SoundInvHolds, LimitInvHolds, PTL

(* The repair budget is one budget for the life of the run: verdicts taken  *)
(* in any order with commands, decision-model answers and restarts never    *)
(* start more passes than the task file allows.                             *)
THEOREM RepairsLimited == Spec => []RepairsBounded
<1>1. LimitInv => RepairsBounded
  BY DEF LimitInv, Limits, Survived, RepairRoom, RepairsBounded
<1>2. QED
  BY <1>1, LimitInvHolds, PTL

==============================================================================

------------------------------ MODULE Conductor ------------------------------
(***************************************************************************)
(* One run of a task by the Conductor (ActiveRun in TaskRunner.ts): a DAG  *)
(* of nodes, each executed by a child session, at most MaxParallel at a    *)
(* time, then verified by the orchestrator session, whose FAIL verdict     *)
(* sends part of the DAG back for repair.                                  *)
(*                                                                         *)
(* The process is single-threaded: a handler runs to its first await       *)
(* without interruption.  An action below is therefore one such stretch,   *)
(* and everything that can happen between two stretches is an interleaving *)
(* of actions.  The run is one record, and each method of the class is an  *)
(* operator from a run to the run the method leaves behind, so that the    *)
(* calls a handler makes compose the way they do in the code.              *)
(***************************************************************************)
EXTENDS Integers, FiniteSets, Bags

CONSTANTS
  NodeCount,       \* spec.nodes, numbered in the order of the task file
  Deps,            \* the edges: node -> the nodes whose replies it needs
  MaxParallel,     \* spec.max_parallel
  RetryLimit,      \* node -> retry.limit, 0 for a node without a retry policy
  MaxRepairs,      \* min(spec.max_iterations, MAX_REPAIR_ATTEMPTS_CAP)
  HasOrchestrator, \* the run has an orchestrator to verify it
  HasBudget,       \* spec.token_budget is set
  OutcomeCheck,    \* deps.classifyNodeOutcome is wired and active
  Decide,          \* deps.decide is wired
  Scoping,         \* deps.pickRepairNodes is wired
  MaxForeign,      \* bound: steps of users and background agents
  MaxCrashes,      \* bound: crashes of the process
  QuietWindows     \* environment: nobody acts in the windows named below

Nodes == 1..NodeCount

MaxUnparsedReAsks == 2

(***************************************************************************)
(* Validation refuses a task file with a cycle before a run starts: every  *)
(* non-empty set of nodes has one that needs none of the others.           *)
(***************************************************************************)
ASSUME ConductorAssumption ==
  /\ NodeCount \in Nat \ {0}
  /\ Deps \in [Nodes -> SUBSET Nodes]
  /\ \A S \in (SUBSET Nodes) \ {{}} : \E n \in S : Deps[n] \cap S = {}
  /\ MaxParallel \in Nat \ {0}
  /\ RetryLimit \in [Nodes -> Nat]
  /\ MaxRepairs \in Nat
  /\ {HasOrchestrator, HasBudget, OutcomeCheck, Decide, Scoping, QuietWindows}
       \subseteq BOOLEAN
  /\ MaxForeign \in Nat
  /\ MaxCrashes \in Nat

VARIABLES
  run,         \* the ActiveRun object, its pending promises and its run log
  up,          \* the process is alive
  userTurns,   \* child sessions busy with a turn that answers a person
               \* or the Conductor's own prompt
  wakeTurns,   \* child sessions busy with a turn an ended background agent began
  background,  \* child sessions with a background agent still running
  orchestrator,\* the orchestrator session: [busy, background, held]
  foreign,     \* steps of users and background agents so far
  crashes      \* crashes so far

vars == <<run, up, userTurns, wakeTurns, background, orchestrator, foreign, crashes>>

(***************************************************************************)
(* A child session is named by the node and the attempt it was created     *)
(* for.  Sessions are never reused: each dispatch creates one.             *)
(***************************************************************************)
Sessions == Nodes \X Nat

NodeStates == {"pending", "running", "done", "failed", "cancelled"}
Terminal   == {"completed", "failed", "stopped"}
Statuses   == Terminal \cup {"running", "paused", "verifying"}

FreshRun ==
  [ status      |-> "running",
    settled     |-> FALSE,                         \* finalize() has run
    state       |-> [n \in Nodes |-> "pending"],
    attempt     |-> [n \in Nodes |-> 0],
    session     |-> [n \in Nodes |-> 0],           \* attempt whose session st.sessionId is
    waiting     |-> [n \in Nodes |-> FALSE],       \* st.waitingForUser
    replied     |-> [n \in Nodes |-> FALSE],       \* st.replies holds text
    output      |-> [n \in Nodes |-> 0],           \* attempt whose session wrote outputs[n]
    inputs      |-> [n \in Nodes |-> [d \in Nodes |-> 0]], \* outputs the last prompt of n quoted
    inFlight    |-> 0,
    overBudget  |-> FALSE,
    listening   |-> FALSE,                         \* verdictOff is set
    hop         |-> "none",                        \* decision model asked about a verdict
    repairsUsed |-> 0,
    reAsks      |-> 0,
    lastScoped  |-> FALSE,
    creating    |-> {},                            \* dispatches awaiting createSession
    sending     |-> {},                            \* dispatches awaiting sendMessage's set-up
    created     |-> {},                            \* sessionToNode
    checks      |-> EmptyBag,                      \* outcome checks awaited, by session
    asks        |-> 0,                             \* orchestrator sends still being set up
    verified    |-> [n \in Nodes |-> 0],           \* outputs the last verification quoted
    repairs     |-> 0,                             \* repair passes started, over all restarts
    logState    |-> [n \in Nodes |-> "pending"],   \* last node-finished entry of the log
    logFails    |-> 0,                             \* FAIL verdicts in the log
    logUnparsed |-> 0 ]                            \* unparsed verdicts since the last PASS

-----------------------------------------------------------------------------
(* Settling. *)

Finish(r, status) ==
  [r EXCEPT !.status = status, !.settled = TRUE, !.listening = FALSE]

AskOrchestrator(r) == [r EXCEPT !.listening = TRUE, !.asks = @ + 1]

EnterVerifying(r) ==
  AskOrchestrator([r EXCEPT !.status = "verifying", !.verified = r.output])

-----------------------------------------------------------------------------
(* Scheduling. *)

ReadyNodes(r) ==
  {n \in Nodes : r.state[n] = "pending" /\ \A d \in Deps[n] : r.state[d] = "done"}

(* Mutant of MaybeFinish: the check that every node is done is dropped. *)
MaybeFinishAnyway(r) ==
  IF r.inFlight > 0 \/ ReadyNodes(r) # {} THEN r
  ELSE IF HasOrchestrator THEN EnterVerifying(r)
  ELSE Finish(r, "completed")

MaybeFinish(r) ==
  IF r.inFlight > 0 \/ ReadyNodes(r) # {} THEN r
  ELSE IF \E n \in Nodes : r.state[n] # "done" THEN Finish(r, "failed")
  ELSE IF HasOrchestrator THEN EnterVerifying(r)
  ELSE Finish(r, "completed")

(* What the prompt of node n quotes: the outputs its dependencies have now. *)
Quoted(r, n) == [d \in Nodes |-> IF d \in Deps[n] THEN r.output[d] ELSE 0]

(* markRunning and the synchronous start of dispatch, for each node of S. *)
MarkRunning(r, S) ==
  [r EXCEPT
     !.state    = [n \in Nodes |-> IF n \in S THEN "running" ELSE r.state[n]],
     !.attempt  = [n \in Nodes |-> IF n \in S THEN r.attempt[n] + 1 ELSE r.attempt[n]],
     !.replied  = [n \in Nodes |-> n \notin S /\ r.replied[n]],
     !.waiting  = [n \in Nodes |-> n \notin S /\ r.waiting[n]],
     !.inputs   = [n \in Nodes |-> IF n \in S THEN Quoted(r, n) ELSE r.inputs[n]],
     !.inFlight = r.inFlight + Cardinality(S),
     !.creating = r.creating \cup {<<n, r.attempt[n] + 1>> : n \in S}]

(* The loop takes ready nodes in file order while a slot is free. *)
NextBatch(r) ==
  LET ready == ReadyNodes(r)
  IN  {n \in ready : r.inFlight + Cardinality({m \in ready : m < n}) < MaxParallel}

ScheduleReady(r) ==
  IF r.status # "running" THEN r
  ELSE IF r.overBudget /\ NextBatch(r) # {} THEN [r EXCEPT !.status = "paused"]
  ELSE MaybeFinish(MarkRunning(r, NextBatch(r)))

-----------------------------------------------------------------------------
(* A node's attempt ends. *)

(* Mutant of ReleaseSlot: it does not ask whether the node holds a slot. *)
ReleaseAnyway(r, n) == r.inFlight - 1

(* Mutant of ReleaseSlot: any slot will do. *)
ReleaseSome(r, n) == IF r.inFlight > 0 THEN r.inFlight - 1 ELSE r.inFlight

ReleaseSlot(r, n) ==
  IF r.state[n] = "running" /\ r.inFlight > 0 THEN r.inFlight - 1 ELSE r.inFlight

MarkNodeDone(r, s) ==
  ScheduleReady(
    [r EXCEPT !.state[s[1]] = "done", !.output[s[1]] = s[2],
              !.inFlight = ReleaseSlot(r, s[1]), !.logState[s[1]] = "done"])

RetryNode(r, n) ==
  ScheduleReady([r EXCEPT !.state[n] = "pending", !.inFlight = ReleaseSlot(r, n)])

(* Mutant of GiveUpNode: a failed node does not reschedule the run. *)
GiveUpSilently(r, n) ==
  [r EXCEPT !.state[n] = "failed", !.inFlight = ReleaseSlot(r, n), !.logState[n] = "failed"]

GiveUpNode(r, n) ==
  ScheduleReady([r EXCEPT !.state[n] = "failed", !.inFlight = ReleaseSlot(r, n),
                          !.logState[n] = "failed"])

(* Mutant of FailNode: one retry too many. *)
FailNodeLate(r, n) ==
  IF r.attempt[n] <= RetryLimit[n] + 1 THEN RetryNode(r, n) ELSE GiveUpNode(r, n)

FailNode(r, n) ==
  IF r.attempt[n] <= RetryLimit[n] THEN RetryNode(r, n) ELSE GiveUpNode(r, n)

(* The completion-time budget check, before the event is interpreted. *)
MeterTokens(r, over) ==
  LET metered == [r EXCEPT !.overBudget = over]
  IN  IF over /\ r.status = "running" /\ \E n \in Nodes : r.state[n] = "pending"
      THEN [metered EXCEPT !.status = "paused"]
      ELSE metered

(* A turn of the node's session ended: complete, with nothing left to wait for. *)
NodeReplied(r, s) ==
  IF ~r.replied[s[1]] THEN FailNode(r, s[1])
  ELSE IF OutcomeCheck THEN [r EXCEPT !.checks = @ (+) SetToBag({s})]
  ELSE MarkNodeDone(r, s)

TurnCompleted(r, s, e) ==
  LET heard    == [r EXCEPT !.replied[s[1]] = @ \/ e.reply]
      answered == [heard EXCEPT !.waiting[s[1]] = FALSE]
  IN  IF r.waiting[s[1]] /\ ~e.fromUser THEN heard
      ELSE IF e.background THEN answered
      ELSE NodeReplied(answered, s)

(* Whether the run still takes a completion of session s as its node's. *)
Accepts(r, s) ==
  /\ ~r.settled
  /\ s \in r.created
  /\ r.state[s[1]] = "running"
  /\ r.session[s[1]] = s[2]

OnSessionComplete(r, s, e) ==
  LET m == MeterTokens(r, e.over)
  IN  IF ~Accepts(r, s) THEN r
      ELSE CASE e.reason = "interrupted" -> [m EXCEPT !.waiting[s[1]] = TRUE]
             [] e.reason = "error"       -> FailNode(m, s[1])
             [] e.reason = "complete"    -> TurnCompleted(m, s, e)

(* finishNodeAfterOutcomeCheck, after the decision model answered. *)
OutcomeKnown(r, s, finished) ==
  LET answered == [r EXCEPT !.checks = @ (-) SetToBag({s})]
  IN  IF r.state[s[1]] # "running" \/ r.session[s[1]] # s[2] \/ r.status \in Terminal
      THEN answered
      ELSE IF finished THEN MarkNodeDone(answered, s) ELSE FailNode(answered, s[1])

-----------------------------------------------------------------------------
(* Verification and repair. *)

DependentClosed(S) == \A n \in Nodes : Deps[n] \cap S # {} => n \in S

(* Mutant of Frontier: the dependents of the named nodes are left alone. *)
FrontierNamed(names) == IF names = {} THEN Nodes ELSE names

(* What a repair pass re-runs: the named nodes and all that depends on them, *)
(* directly or not; without names, everything.                               *)
Frontier(names) ==
  IF names = {} THEN Nodes
  ELSE {n \in Nodes :
          \A S \in SUBSET Nodes : names \subseteq S /\ DependentClosed(S) => n \in S}

RepairForVerdict(r, names) ==
  LET reset == {n \in Frontier(names) : r.state[n] = "done"}
  IN  IF reset = {} THEN Finish(r, "failed")
      ELSE ScheduleReady(
             [r EXCEPT !.status = "running", !.repairs = @ + 1,
                       !.state = [n \in Nodes |->
                                    IF n \in reset THEN "pending" ELSE r.state[n]]])

LogVerdict(r, result) ==
  [r EXCEPT !.logFails    = IF result = "fail" THEN @ + 1 ELSE @,
            !.logUnparsed = CASE result = "unparsed" -> @ + 1
                              [] result = "pass"     -> 0
                              [] result = "fail"     -> @]

ApplyPass(r) == Finish([r EXCEPT !.reAsks = 0], "completed")

ApplyUnparsed(r) ==
  IF r.reAsks < MaxUnparsedReAsks
  THEN AskOrchestrator([r EXCEPT !.reAsks = @ + 1])
  ELSE Finish(r, "failed")

(* Only a reason the orchestrator wrote itself can narrow an unnamed repair, *)
(* and a narrowed repair is not followed by another one.                     *)
ApplyFail(r, v) ==
  LET spent == [r EXCEPT !.repairsUsed = @ + 1, !.lastScoped = FALSE]
  IN  IF r.repairsUsed >= MaxRepairs \/ r.overBudget THEN Finish(r, "failed")
      ELSE IF Scoping /\ v.reason /\ ~r.lastScoped /\ v.names = {}
           THEN [spent EXCEPT !.hop = "scope"]
           ELSE RepairForVerdict(spent, v.names)

ApplyVerdict(r, v) ==
  CASE v.result = "pass"     -> ApplyPass(r)
    [] v.result = "unparsed" -> ApplyUnparsed(r)
    [] v.result = "fail"     -> ApplyFail(r, v)

HandleVerdict(r, v) ==
  IF r.status # "verifying" THEN r
  ELSE IF v.result = "unparsed" /\ Decide THEN [r EXCEPT !.hop = "decide"]
  ELSE ApplyVerdict(LogVerdict(r, v.result), v)

(* Mutant of OnOrchestratorComplete: the listener detaches before it looks at the event. *)
DetachThenLook(r, e) ==
  IF \/ ~r.listening
     \/ e.reason = "interrupted"
     \/ e.background /\ e.verdict.result = "unparsed"
  THEN [r EXCEPT !.listening = FALSE]
  ELSE HandleVerdict([r EXCEPT !.listening = FALSE], e.verdict)

(* The one-shot verdict listener: a stopped turn is no answer, and a turn *)
(* without a verdict is none while background agents are still verifying. *)
OnOrchestratorComplete(r, e) ==
  IF \/ ~r.listening
     \/ e.reason = "interrupted"
     \/ e.background /\ e.verdict.result = "unparsed"
  THEN r
  ELSE HandleVerdict([r EXCEPT !.listening = FALSE], e.verdict)

(* The decision model read the unparsed reply. *)
VerdictDecided(r, v) ==
  LET answered == [r EXCEPT !.hop = "none"]
  IN  IF r.status # "verifying" THEN answered
      ELSE ApplyVerdict(LogVerdict(answered, v.result), v)

(* The decision model narrowed the repair to some nodes, or did not (names = {}). *)
RepairScoped(r, names) ==
  LET answered == [r EXCEPT !.hop = "none"]
  IN  IF r.status # "verifying" THEN answered
      ELSE RepairForVerdict([answered EXCEPT !.lastScoped = names # {}], names)

(* sendToOrchestrator's catch. *)
AskRejected(r) == Finish([r EXCEPT !.asks = @ - 1], "failed")

-----------------------------------------------------------------------------
(* Pause, resume, stop, and the restart of the process. *)

RunningNodes(r) == {n \in Nodes : r.state[n] = "running"}

PauseRun(r) == IF r.status = "running" THEN [r EXCEPT !.status = "paused"] ELSE r

CancelledToPending(state) ==
  [n \in Nodes |-> IF state[n] = "cancelled" THEN "pending" ELSE state[n]]

ResumeRun(r) ==
  IF r.status # "paused" THEN r
  ELSE ScheduleReady([r EXCEPT !.status = "running", !.state = CancelledToPending(@)])

StopRun(r) ==
  LET Cancel(f) == [n \in Nodes |-> IF n \in RunningNodes(r) THEN "cancelled" ELSE f[n]]
  IN  IF r.status \in Terminal THEN r
      ELSE [Finish(r, "stopped") EXCEPT !.state = Cancel(r.state),
                                        !.logState = Cancel(r.logState),
                                        !.inFlight = 0]

(* What a crash leaves: the run log, the node outputs, and what the log can *)
(* be counted for.  The fields it does not reset are rebuilt by Hydrate.    *)
Lost(r) ==
  [r EXCEPT !.creating = {}, !.sending = {}, !.checks = EmptyBag, !.asks = 0,
            !.hop = "none", !.listening = FALSE, !.overBudget = FALSE]

(* Mutant of Hydrate: the repair counter starts over. *)
HydrateForgettingRepairs(r) ==
  [r EXCEPT !.status = "running", !.settled = FALSE, !.inFlight = 0,
            !.state = CancelledToPending(r.logState),
            !.waiting = [n \in Nodes |-> FALSE], !.replied = [n \in Nodes |-> FALSE],
            !.repairsUsed = 0, !.reAsks = r.logUnparsed, !.lastScoped = FALSE]

(* hydrate: node states come from the last node-finished entry, attempts from *)
(* the node-scheduled ones, sessions from the node-spawned ones.              *)
Hydrate(r) ==
  [r EXCEPT !.status = "running", !.settled = FALSE, !.inFlight = 0,
            !.state = CancelledToPending(r.logState),
            !.waiting = [n \in Nodes |-> FALSE], !.replied = [n \in Nodes |-> FALSE],
            !.repairsUsed = r.logFails, !.reAsks = r.logUnparsed, !.lastScoped = FALSE]

-----------------------------------------------------------------------------
(***************************************************************************)
(* The dispatch of a node, from its first await on.  QuietWindows leaves   *)
(* out what can happen to a node while its next session is being created:  *)
(* the class takes st.sessionId for the current session, and until         *)
(* createSession returns it still names the replaced one.                  *)
(***************************************************************************)
Undisturbed(n) == QuietWindows => \A s \in run.creating : s[1] # n

SessionCreated(s) ==
  /\ s \in run.creating
  /\ run' = [run EXCEPT !.creating = @ \ {s}, !.sending = @ \cup {s},
                        !.created = @ \cup {s}, !.session[s[1]] = s[2]]
  /\ UNCHANGED <<up, userTurns, wakeTurns, background, orchestrator, foreign, crashes>>

SessionRefused(s) ==
  /\ s \in run.creating
  /\ run' = FailNode([run EXCEPT !.creating = @ \ {s}], s[1])
  /\ UNCHANGED <<up, userTurns, wakeTurns, background, orchestrator, foreign, crashes>>

(* sendMessage starts a turn, or queues onto the one in progress; a message *)
(* that is not hidden makes the turn one that answers a person.             *)
BeginUserTurn(s) ==
  /\ userTurns' = userTurns \cup {s}
  /\ wakeTurns' = wakeTurns \ {s}

PromptSent(s) ==
  /\ s \in run.sending
  /\ run' = [run EXCEPT !.sending = @ \ {s}]
  /\ BeginUserTurn(s)
  /\ UNCHANGED <<up, background, orchestrator, foreign, crashes>>

PromptRejected(s) ==
  /\ s \in run.sending
  /\ run' = FailNode([run EXCEPT !.sending = @ \ {s}], s[1])
  /\ UNCHANGED <<up, userTurns, wakeTurns, background, orchestrator, foreign, crashes>>

-----------------------------------------------------------------------------
(* Child sessions.  Only what the bound MaxForeign counts is limited; a user *)
(* whom a node waits for can always answer it.                               *)

Idle(s) == s \notin userTurns \cup wakeTurns

Foreign(cost) ==
  /\ foreign + cost <= MaxForeign
  /\ foreign' = foreign + cost

UserMessage(s) ==
  /\ s \in run.created
  /\ QuietWindows => s \notin run.sending
  /\ BeginUserTurn(s)
  /\ Foreign(IF run.waiting[s[1]] /\ Accepts(run, s) /\ Idle(s) THEN 0 ELSE 1)
  /\ UNCHANGED <<run, up, background, orchestrator, crashes>>

(* A background agent ends: it wakes an idle session, and a busy one reads *)
(* its result in the turn it is in.                                        *)
BackgroundEnds(s) ==
  /\ s \in background
  /\ background' = background \ {s}
  /\ wakeTurns' = IF Idle(s) THEN wakeTurns \cup {s} ELSE wakeTurns
  /\ UNCHANGED <<run, up, userTurns, orchestrator, foreign, crashes>>

TurnEnds(s, reason, reply, launched, over) ==
  /\ ~Idle(s)
  /\ Undisturbed(s[1])
  /\ background' = IF launched THEN background \cup {s} ELSE background
  /\ run' = OnSessionComplete(run, s,
              [reason |-> reason, reply |-> reply, background |-> s \in background',
               fromUser |-> s \in userTurns, over |-> over])
  /\ userTurns' = userTurns \ {s}
  /\ wakeTurns' = wakeTurns \ {s}
  /\ Foreign((IF launched THEN 1 ELSE 0) + (IF reason = "interrupted" THEN 1 ELSE 0))
  /\ UNCHANGED <<up, orchestrator, crashes>>

SomeTurnEnds ==
  \E s \in userTurns \cup wakeTurns, reason \in {"complete", "interrupted", "error"},
     reply \in BOOLEAN, launched \in BOOLEAN,
     over \in IF HasBudget THEN {run.overBudget, TRUE} ELSE {FALSE} :
       TurnEnds(s, reason, reply, launched, over)

OutcomeAnswered(s, finished) ==
  /\ BagIn(s, run.checks)
  /\ Undisturbed(s[1])
  /\ run' = OutcomeKnown(run, s, finished)
  /\ UNCHANGED <<up, userTurns, wakeTurns, background, orchestrator, foreign, crashes>>

-----------------------------------------------------------------------------
(* The orchestrator session. *)

(* sendToOrchestrator resolves when the turn it started ends; past set-up it *)
(* cannot reject any more.                                                   *)
AskSent ==
  /\ run.asks > 0
  /\ run' = [run EXCEPT !.asks = @ - 1]
  /\ orchestrator' = [orchestrator EXCEPT !.busy = TRUE, !.held = FALSE]
  /\ UNCHANGED <<up, userTurns, wakeTurns, background, foreign, crashes>>

(* QuietWindows: a send that is refused is refused while the run still waits for it. *)
AskFails ==
  /\ run.asks > 0
  /\ QuietWindows => run.status = "verifying"
  /\ run' = AskRejected(run)
  /\ UNCHANGED <<up, userTurns, wakeTurns, background, orchestrator, foreign, crashes>>

UserAsksOrchestrator ==
  /\ HasOrchestrator
  /\ orchestrator' = [orchestrator EXCEPT !.busy = TRUE, !.held = FALSE]
  /\ Foreign(IF orchestrator.held THEN 0 ELSE 1)
  /\ UNCHANGED <<run, up, userTurns, wakeTurns, background, crashes>>

OrchestratorBackgroundEnds ==
  /\ orchestrator.background
  /\ orchestrator' = [orchestrator EXCEPT !.background = FALSE, !.busy = TRUE]
  /\ UNCHANGED <<run, up, userTurns, wakeTurns, background, foreign, crashes>>

Verdicts ==
  [result : {"pass", "fail", "unparsed"}, names : SUBSET Nodes, reason : BOOLEAN]

OrchestratorTurnEnds(interrupted, launched, verdict) ==
  /\ orchestrator.busy
  /\ LET working == orchestrator.background \/ launched
     IN /\ orchestrator' = [busy |-> FALSE, background |-> working, held |-> interrupted]
        /\ run' = OnOrchestratorComplete(run,
                    [reason |-> IF interrupted THEN "interrupted" ELSE "complete",
                     background |-> working, verdict |-> verdict])
  /\ Foreign((IF launched THEN 1 ELSE 0) + (IF interrupted THEN 1 ELSE 0))
  /\ UNCHANGED <<up, userTurns, wakeTurns, background, crashes>>

SomeOrchestratorTurnEnds ==
  \E interrupted \in BOOLEAN, launched \in BOOLEAN, v \in Verdicts :
    OrchestratorTurnEnds(interrupted, launched, v)

(* A verdict the decision model read carries no reason of the orchestrator's. *)
VerdictClassified(v) ==
  /\ run.hop = "decide"
  /\ ~v.reason
  /\ run' = VerdictDecided(run, v)
  /\ UNCHANGED <<up, userTurns, wakeTurns, background, orchestrator, foreign, crashes>>

RepairNarrowed(names) ==
  /\ run.hop = "scope"
  /\ run' = RepairScoped(run, names)
  /\ UNCHANGED <<up, userTurns, wakeTurns, background, orchestrator, foreign, crashes>>

-----------------------------------------------------------------------------
(* Commands and crashes. *)

Pause ==
  /\ run.status = "running"
  /\ run' = PauseRun(run)
  /\ Foreign(1)
  /\ UNCHANGED <<up, userTurns, wakeTurns, background, orchestrator, crashes>>

Resume ==
  /\ run.status = "paused"
  /\ run' = ResumeRun(run)
  /\ UNCHANGED <<up, userTurns, wakeTurns, background, orchestrator, foreign, crashes>>

(* stop() cancels the turns of the running nodes' sessions. *)
Stop ==
  /\ run.status \notin Terminal
  /\ run' = StopRun(run)
  /\ LET cancelled == {<<n, run.session[n]>> : n \in RunningNodes(run)}
     IN /\ userTurns' = userTurns \ cancelled
        /\ wakeTurns' = wakeTurns \ cancelled
  /\ Foreign(1)
  /\ UNCHANGED <<up, background, orchestrator, crashes>>

Crash ==
  /\ crashes < MaxCrashes
  /\ crashes' = crashes + 1
  /\ up' = FALSE
  /\ run' = Lost(run)
  /\ userTurns' = {} /\ wakeTurns' = {} /\ background' = {}
  /\ orchestrator' = [busy |-> FALSE, background |-> FALSE, held |-> FALSE]
  /\ UNCHANGED foreign

(* resume() of a run the new process does not hold: rehydrate it from the log. *)
Rehydrate ==
  /\ ~up
  /\ up' = TRUE
  /\ run' = ScheduleReady(Hydrate(run))
  /\ UNCHANGED <<userTurns, wakeTurns, background, orchestrator, foreign, crashes>>

(* A settled run may stay as it is: no other state may be without a successor. *)
AtRest == run.settled /\ UNCHANGED vars

-----------------------------------------------------------------------------
Init ==
  /\ run = ScheduleReady(FreshRun)
  /\ up = TRUE
  /\ userTurns = {} /\ wakeTurns = {} /\ background = {}
  /\ orchestrator = [busy |-> FALSE, background |-> FALSE, held |-> FALSE]
  /\ foreign = 0
  /\ crashes = 0

(* What the process and the sessions do by themselves. *)
DispatchProceeds ==
  \/ \E s \in run.creating : SessionCreated(s) \/ SessionRefused(s)
  \/ \E s \in run.sending : PromptSent(s) \/ PromptRejected(s)

SessionsProceed ==
  \/ SomeTurnEnds
  \/ \E s \in background : BackgroundEnds(s)
  \/ \E s \in BagToSet(run.checks), finished \in BOOLEAN : OutcomeAnswered(s, finished)

VerificationProceeds ==
  \/ AskSent
  \/ AskFails
  \/ OrchestratorBackgroundEnds
  \/ SomeOrchestratorTurnEnds
  \/ \E v \in Verdicts : VerdictClassified(v)
  \/ \E names \in SUBSET Nodes : RepairNarrowed(names)

(* What people do, and nobody has to. *)
Commands ==
  \/ \E s \in run.created : UserMessage(s)
  \/ UserAsksOrchestrator
  \/ Pause
  \/ Resume
  \/ Stop

Next ==
  \/ up /\ (DispatchProceeds \/ SessionsProceed \/ VerificationProceeds \/ Commands \/ Crash)
  \/ Rehydrate
  \/ AtRest

(***************************************************************************)
(* Promises the process awaits settle, turns end, ended background agents  *)
(* report.  Nothing is assumed of users, of commands or of a restart.      *)
(***************************************************************************)
Fairness ==
  /\ WF_vars(up /\ DispatchProceeds)
  /\ WF_vars(up /\ SessionsProceed)
  /\ WF_vars(up /\ VerificationProceeds)

Spec == Init /\ [][Next]_vars

FairSpec == Spec /\ Fairness
-----------------------------------------------------------------------------
(* Properties. *)

RunType(bags) ==
  [ status : Statuses, settled : BOOLEAN, state : [Nodes -> NodeStates],
    attempt : [Nodes -> Nat], session : [Nodes -> Nat], waiting : [Nodes -> BOOLEAN],
    replied : [Nodes -> BOOLEAN], output : [Nodes -> Nat],
    inputs : [Nodes -> [Nodes -> Nat]], inFlight : Nat, overBudget : BOOLEAN,
    listening : BOOLEAN, hop : {"none", "decide", "scope"}, repairsUsed : Nat,
    reAsks : Nat, lastScoped : BOOLEAN, creating : SUBSET Sessions,
    sending : SUBSET Sessions, created : SUBSET Sessions, checks : bags, asks : Nat,
    verified : [Nodes -> Nat], repairs : Nat,
    logState : [Nodes -> NodeStates \ {"running"}],
    logFails : Nat, logUnparsed : Nat ]

TypeOK ==
  /\ run \in RunType({run.checks})
  /\ IsABag(run.checks) /\ BagToSet(run.checks) \subseteq Sessions
  /\ up \in BOOLEAN
  /\ userTurns \in SUBSET Sessions
  /\ wakeTurns \in SUBSET Sessions
  /\ background \in SUBSET Sessions
  /\ orchestrator \in [busy : BOOLEAN, background : BOOLEAN, held : BOOLEAN]
  /\ foreign \in Nat
  /\ crashes \in Nat

(* The parallelism cap holds and the slot counter never drifts from the    *)
(* nodes it counts, whatever order turns, retries, repairs and stops take: *)
(* a leaked slot would stall the run, a lost one would exceed max_parallel. *)
SlotsExact ==
  /\ run.inFlight = Cardinality(RunningNodes(run))
  /\ run.inFlight <= MaxParallel

(* A verifying run always has somebody to move it on: the verdict listener *)
(* or a decision-model call; and no listener outlives the verification it  *)
(* was attached for, so no later reply is taken for a verdict.             *)
VerdictAwaited ==
  /\ run.listening => run.status = "verifying"
  /\ up /\ run.status = "verifying" => run.listening \/ run.hop # "none"

(* However failures, repairs and restarts interleave, a node is dispatched *)
(* once per retry it is allowed, per repair pass and per restart, no more. *)
AttemptsBounded ==
  \A n \in Nodes : run.attempt[n] <= RetryLimit[n] + 1 + run.repairs + crashes

(* The repair budget is one budget for the life of the run: restarts       *)
(* between passes do not refill it.                                        *)
RepairsBounded == run.repairs <= MaxRepairs

(* A node that runs, or is done, was prompted with the outputs its         *)
(* dependencies have now, and a done node's output is that attempt's.      *)
ResultsFresh ==
  \A n \in Nodes :
    /\ run.state[n] \in {"running", "done"} =>
         /\ \A d \in Deps[n] : run.state[d] = "done"
         /\ run.inputs[n] = Quoted(run, n)
    /\ run.state[n] = "done" => run.output[n] = run.attempt[n]

(* A run completes only with every node done and, when an orchestrator     *)
(* verifies it, with exactly the outputs the verification quoted.          *)
CompletedAsVerified ==
  run.status = "completed" =>
    /\ \A n \in Nodes : run.state[n] = "done"
    /\ HasOrchestrator => run.verified = run.output

(* The run waits for a person: paused, or in a stopped turn of a step or of *)
(* the orchestrator, which that person has to continue.                    *)
AwaitsPerson ==
  \/ run.status = "paused"
  \/ \E n \in RunningNodes(run) : run.waiting[n]
  \/ run.status = "verifying" /\ orchestrator.held

(* Every run ends settled or waiting for a person: no completion that is  *)
(* ignored, dropped or taken for another leaves it waiting for nothing.    *)
RunSettles == <>[](~up \/ run.settled \/ AwaitsPerson)

(* What the source says of the run, and the code does not keep:             *)
(* isTerminalRunStatus says "no further work" once a run is terminal, so a  *)
(* settled run creates no child session.                                    *)
NoFurtherWork == [][run.settled => run'.created \subseteq run.created]_vars

==============================================================================

--------------------------- MODULE ConductorFresh ---------------------------
(***************************************************************************)
(* Proofs that the Conductor never works with stale data, as long as nobody *)
(* acts on a node while its next session is being created: a step runs on  *)
(* the outputs its dependencies have now, and a run completes with exactly *)
(* the outputs its verification quoted.  The argument is about where the   *)
(* run's sessions come from; each method has a lemma saying that it keeps  *)
(* what is true of them.                                                   *)
(***************************************************************************)
EXTENDS ConductorProofs

(* No dispatch of node n is under way. *)
Undispatched(r, n) == \A s \in r.creating \cup r.sending : s[1] # n

(* Where a run's sessions come from: each belongs to an attempt that was    *)
(* made, and one that is not under way yet to the latest one, of a node that *)
(* runs or that stop() cancelled.                                           *)
Dispatches(r) ==
  /\ r.sending \subseteq r.created
  /\ r.creating \cap r.created = {}
  /\ \A s \in r.created : s[2] <= r.attempt[s[1]]
  /\ \A s \in r.creating \cup r.sending :
       /\ s[2] = r.attempt[s[1]]
       /\ \/ r.state[s[1]] = "running"
          \/ r.state[s[1]] = "cancelled" /\ r.status = "stopped"
  /\ BagToSet(r.checks) \subseteq r.created \ r.sending

(* A running node's current session is its latest attempt's, from the moment *)
(* the session exists.                                                      *)
Owned(r, n) ==
  r.state[n] = "running" /\ (\A s \in r.creating : s[1] # n) => r.session[n] = r.attempt[n]

Verified(r) ==
  r.status \in {"verifying", "completed"} =>
    /\ \A n \in Nodes : r.state[n] = "done"
    /\ HasOrchestrator => r.verified = r.output

Fresh(r) ==
  \A n \in Nodes :
    /\ r.state[n] \in {"running", "done"} =>
         /\ \A d \in Deps[n] : r.state[d] = "done"
         /\ r.inputs[n] = Quoted(r, n)
    /\ r.state[n] = "done" => r.output[n] = r.attempt[n]

(* But for the nodes of N; the freshness of outputs only as long as whole holds. *)
GoodBut(r, whole, N) ==
  /\ Dispatches(r)
  /\ \A n \in Nodes \ N : Owned(r, n)
  /\ Verified(r)
  /\ whole => Fresh(r)

Good(r, whole) == GoodBut(r, whole, {})

(* What no method of the class changes once a dispatch is past createSession. *)
SameSessions(r, q) == q.created = r.created /\ q.sending = r.sending

LEMMA FreshFields ==
  ASSUME NEW r, Sound(r)
  PROVE  /\ r \in RunType({r.checks})
         /\ r.status \in Statuses
         /\ r.state \in [Nodes -> NodeStates]
         /\ r.attempt \in [Nodes -> Nat]
         /\ r.session \in [Nodes -> Nat]
         /\ r.output \in [Nodes -> Nat]
         /\ r.inputs \in [Nodes -> [Nodes -> Nat]]
         /\ r.creating \in SUBSET Sessions
         /\ r.sending \in SUBSET Sessions
         /\ r.created \in SUBSET Sessions
BY DEF Sound, Typed, RunType

(* The fields the freshness of results is about, but for the status. *)
SameWork(r, q) ==
  /\ q.state = r.state
  /\ q.attempt = r.attempt
  /\ q.session = r.session
  /\ q.output = r.output
  /\ q.inputs = r.inputs
  /\ q.creating = r.creating
  /\ q.created = r.created
  /\ q.sending = r.sending

LEMMA SameWorkGood ==
  ASSUME NEW r, NEW q, NEW whole, Good(r, whole), SameWork(r, q), Verified(q),
         BagToSet(q.checks) \subseteq q.created \ q.sending,
         r.status = "stopped" => q.status = "stopped"
  PROVE  Good(q, whole) /\ SameSessions(r, q)
<1>1. Dispatches(q)
  BY DEF Good, GoodBut, Dispatches, SameWork
<1>2. \A n \in Nodes : Owned(q, n)
  BY DEF Good, GoodBut, Owned, SameWork
<1>3. whole => Fresh(q)
  BY DEF Good, GoodBut, Fresh, Quoted, SameWork
<1>4. QED
  BY <1>1, <1>2, <1>3 DEF Good, GoodBut, SameSessions, SameWork

(* A change of fields none of this is about. *)
LEMMA UntouchedGood ==
  ASSUME NEW r, NEW q, NEW whole, Good(r, whole), SameWork(r, q),
         q.status = r.status, q.verified = r.verified, q.checks = r.checks
  PROVE  Good(q, whole) /\ SameSessions(r, q)
<1>1. Verified(q)
  BY DEF Good, GoodBut, Verified, SameWork
<1>2. BagToSet(q.checks) \subseteq q.created \ q.sending
  BY DEF Good, GoodBut, Dispatches, SameWork
<1>3. QED
  BY <1>1, <1>2, SameWorkGood

LEMMA FinishGood ==
  ASSUME NEW r, NEW whole, Sound(r), Good(r, whole), NEW x \in {"failed", "stopped", "completed"},
         r.status = "stopped" => x = "stopped",
         x = "completed" => /\ \A n \in Nodes : r.state[n] = "done"
                            /\ HasOrchestrator => r.verified = r.output
  PROVE  Good(Finish(r, x), whole) /\ SameSessions(r, Finish(r, x))
<1> DEFINE q == Finish(r, x)
<1>1. SameWork(r, q) /\ q.status = x /\ q.checks = r.checks /\ q.verified = r.verified
  BY FreshFields DEF Finish, RunType, SameWork
<1>2. Good(q, whole) /\ SameSessions(r, q)
  <2> HIDE DEF q
  <2>1. Verified(q)
    BY <1>1 DEF Verified, SameWork
  <2>2. BagToSet(q.checks) \subseteq q.created \ q.sending
    BY <1>1 DEF Good, GoodBut, Dispatches, SameWork
  <2>3. QED
    BY <1>1, <2>1, <2>2, SameWorkGood
<1>3. QED
  BY <1>2

LEMMA AskGood ==
  ASSUME NEW r, NEW whole, Sound(r), Good(r, whole)
  PROVE  Good(AskOrchestrator(r), whole) /\ SameSessions(r, AskOrchestrator(r))
<1> DEFINE q == AskOrchestrator(r)
<1>1. SameWork(r, q) /\ q.status = r.status /\ q.checks = r.checks /\ q.verified = r.verified
  BY FreshFields DEF AskOrchestrator, RunType, SameWork
<1>2. Good(q, whole) /\ SameSessions(r, q)
  <2> HIDE DEF q
  <2> QED
    BY <1>1, UntouchedGood
<1>3. QED
  BY <1>2

(* A dispatch quotes what its dependencies have produced, and nothing that  *)
(* runs or is done depends on a node that has not run.                      *)
LEMMA MarkRunningGood ==
  ASSUME NEW r, NEW whole, Sound(r), Good(r, whole), r.status = "running",
         NEW S \in SUBSET ReadyNodes(r)
  PROVE  /\ Good(MarkRunning(r, S), whole)
         /\ SameSessions(r, MarkRunning(r, S))
         /\ MarkRunning(r, S).status = "running"
<1> DEFINE q == MarkRunning(r, S)
<1>1. /\ q.state = [n \in Nodes |-> IF n \in S THEN "running" ELSE r.state[n]]
      /\ q.attempt = [n \in Nodes |-> IF n \in S THEN r.attempt[n] + 1 ELSE r.attempt[n]]
      /\ q.inputs = [n \in Nodes |-> IF n \in S THEN Quoted(r, n) ELSE r.inputs[n]]
      /\ q.creating = r.creating \cup {<<n, r.attempt[n] + 1>> : n \in S}
      /\ q.sending = r.sending /\ q.created = r.created /\ q.output = r.output
      /\ q.session = r.session /\ q.status = r.status /\ q.checks = r.checks
  BY FreshFields DEF MarkRunning, RunType
<1>2. S \subseteq Nodes /\ \A n \in S : r.state[n] = "pending" /\ \A d \in Deps[n] : r.state[d] = "done"
  BY DEF ReadyNodes
<1>3. \A n \in Nodes : Deps[n] \subseteq Nodes
  BY ConductorAssumption
<1>4. Dispatches(r) /\ (\A n \in Nodes : Owned(r, n)) /\ (whole => Fresh(r))
  BY DEF Good, GoodBut
<1>5. \A s \in Sessions : s[1] \in Nodes /\ s[2] \in Nat
  BY DEF Sessions
<1>6. \A n \in Nodes : r.attempt[n] \in Nat
  BY FreshFields
<1>7. \A s \in r.creating \cup r.sending : s[1] \notin S
  BY <1>2, <1>4 DEF Dispatches
<1> HIDE DEF q
<1>8. Dispatches(q)
  <2>1. \A s \in r.created : s[2] <= q.attempt[s[1]]
    <3> SUFFICES ASSUME NEW s \in r.created PROVE s[2] <= q.attempt[s[1]]
      OBVIOUS
    <3>1. s[1] \in Nodes /\ s[2] \in Nat /\ s[2] <= r.attempt[s[1]]
      BY <1>4, <1>5, FreshFields DEF Dispatches
    <3>2. QED
      BY <1>1, <1>6, <3>1
  <2>2. \A s \in {<<n, r.attempt[n] + 1>> : n \in S} :
          /\ s \notin r.created
          /\ s[2] = q.attempt[s[1]]
          /\ q.state[s[1]] = "running"
    <3> SUFFICES ASSUME NEW n \in S
                 PROVE  /\ <<n, r.attempt[n] + 1>> \notin r.created
                        /\ r.attempt[n] + 1 = q.attempt[n]
                        /\ q.state[n] = "running"
      OBVIOUS
    <3>1. n \in Nodes /\ r.attempt[n] \in Nat
      BY <1>2, <1>6
    <3>2. <<n, r.attempt[n] + 1>> \in r.created => r.attempt[n] + 1 <= r.attempt[n]
      BY <1>4 DEF Dispatches
    <3>3. QED
      BY <1>1, <3>1, <3>2
  <2>3. \A s \in r.creating \cup r.sending :
          /\ s[2] = q.attempt[s[1]]
          /\ \/ q.state[s[1]] = "running"
             \/ q.state[s[1]] = "cancelled" /\ q.status = "stopped"
    <3> SUFFICES ASSUME NEW s \in r.creating \cup r.sending
                 PROVE  /\ s[2] = q.attempt[s[1]]
                        /\ \/ q.state[s[1]] = "running"
                           \/ q.state[s[1]] = "cancelled" /\ q.status = "stopped"
      OBVIOUS
    <3>1. s[1] \in Nodes /\ s[1] \notin S
      BY <1>5, <1>7, FreshFields
    <3>2. QED
      BY <1>1, <1>4, <3>1 DEF Dispatches
  <2>4. QED
    BY <1>1, <1>4, <2>1, <2>2, <2>3 DEF Dispatches
<1>9. \A n \in Nodes : Owned(q, n)
  <2> SUFFICES ASSUME NEW n \in Nodes PROVE Owned(q, n)
    OBVIOUS
  <2>1. CASE n \in S
    <3>1. <<n, r.attempt[n] + 1>> \in q.creating
      BY <1>1, <2>1
    <3>2. QED
      BY <3>1 DEF Owned
  <2>2. CASE n \notin S
    BY <1>1, <1>4, <2>2 DEF Owned
  <2>3. QED
    BY <2>1, <2>2
<1>10. whole => Fresh(q)
  <2> SUFFICES ASSUME Fresh(r) PROVE Fresh(q)
    BY <1>4
  <2> SUFFICES ASSUME NEW n \in Nodes
               PROVE  /\ q.state[n] \in {"running", "done"} =>
                           /\ \A d \in Deps[n] : q.state[d] = "done"
                           /\ q.inputs[n] = Quoted(q, n)
                      /\ q.state[n] = "done" => q.output[n] = q.attempt[n]
    BY DEF Fresh
  <2>1. \A d \in Deps[n] : r.state[d] = "done" => q.state[d] = "done"
    BY <1>1, <1>2, <1>3
  <2>2. Quoted(q, n) = Quoted(r, n)
    BY <1>1 DEF Quoted
  <2>3. CASE n \in S
    BY <1>1, <1>2, <2>1, <2>2, <2>3
  <2>4. CASE n \notin S
    BY <1>1, <2>1, <2>2, <2>4 DEF Fresh
  <2>5. QED
    BY <2>3, <2>4
<1>11. Verified(q)
  BY <1>1 DEF Verified
<1>12. Good(q, whole) /\ SameSessions(r, q) /\ q.status = "running"
  BY <1>1, <1>8, <1>9, <1>10, <1>11 DEF Good, GoodBut, SameSessions
<1>13. QED
  BY <1>12 DEF q

LEMMA MaybeFinishGood ==
  ASSUME NEW r, NEW whole, Sound(r), Good(r, whole), r.status = "running"
  PROVE  Good(MaybeFinish(r), whole) /\ SameSessions(r, MaybeFinish(r))
<1> DEFINE q == [r EXCEPT !.status = "verifying", !.verified = r.output]
<1>1. Good(Finish(r, "failed"), whole) /\ SameSessions(r, Finish(r, "failed"))
  BY FinishGood
<1>2. ASSUME \A n \in Nodes : r.state[n] = "done"
      PROVE  Good(EnterVerifying(r), whole) /\ SameSessions(r, EnterVerifying(r))
  <2>1. /\ SameWork(r, q) /\ q.status = "verifying" /\ q.checks = r.checks
        /\ q.verified = r.output
    BY FreshFields DEF RunType, SameWork
  <2>2. Sound(q)
    <3>1. r \in RunType({r.checks}) /\ r.output \in [Nodes -> Nat] /\ "verifying" \in Statuses
      BY FreshFields DEF Statuses
    <3>2. q \in RunType({r.checks}) /\ q.checks = r.checks
      BY <3>1 DEF RunType
    <3>3. Slots(q)
      BY <3>1, SameSlots DEF Sound, RunType
    <3>4. QED
      BY <3>2, <3>3 DEF Sound, Typed
  <2>3. Good(q, whole) /\ SameSessions(r, q)
    <3> HIDE DEF q
    <3>1. Verified(q)
      BY <1>2, <2>1 DEF Verified, SameWork
    <3>2. BagToSet(q.checks) \subseteq q.created \ q.sending
      BY <2>1 DEF Good, GoodBut, Dispatches, SameWork
    <3>3. QED
      BY <2>1, <3>1, <3>2, SameWorkGood
  <2>4. Good(AskOrchestrator(q), whole) /\ SameSessions(q, AskOrchestrator(q))
    <3> HIDE DEF q
    <3> QED
      BY <2>2, <2>3, AskGood
  <2>5. QED
    BY <2>3, <2>4 DEF EnterVerifying, SameSessions
<1>3. ASSUME \A n \in Nodes : r.state[n] = "done", ~HasOrchestrator
      PROVE  Good(Finish(r, "completed"), whole) /\ SameSessions(r, Finish(r, "completed"))
  BY <1>3, FinishGood
<1>4. SameSessions(r, r)
  BY DEF SameSessions
<1>5. QED
  <2>1. CASE r.inFlight > 0 \/ ReadyNodes(r) # {}
    BY <1>4, <2>1 DEF MaybeFinish
  <2>2. CASE ~(r.inFlight > 0 \/ ReadyNodes(r) # {}) /\ \E n \in Nodes : r.state[n] # "done"
    BY <1>1, <2>2 DEF MaybeFinish
  <2>3. CASE ~(r.inFlight > 0 \/ ReadyNodes(r) # {}) /\ \A n \in Nodes : r.state[n] = "done"
    <3>1. MaybeFinish(r) = IF HasOrchestrator THEN EnterVerifying(r) ELSE Finish(r, "completed")
      BY <2>3 DEF MaybeFinish
    <3>2. CASE HasOrchestrator
      BY <1>2, <2>3, <3>1, <3>2
    <3>3. CASE ~HasOrchestrator
      BY <1>3, <2>3, <3>1, <3>3
    <3>4. QED
      BY <3>2, <3>3
  <2>4. QED
    BY <2>1, <2>2, <2>3

LEMMA ScheduleReadyGood ==
  ASSUME NEW r, NEW whole, Sound(r), Good(r, whole)
  PROVE  Good(ScheduleReady(r), whole) /\ SameSessions(r, ScheduleReady(r))
<1> DEFINE p == [r EXCEPT !.status = "paused"]
           m == MarkRunning(r, NextBatch(r))
<1>1. CASE r.status # "running"
  BY <1>1 DEF ScheduleReady, SameSessions
<1>2. CASE r.status = "running"
  <2>1. /\ SameWork(r, p) /\ p.status = "paused" /\ p.checks = r.checks
    BY FreshFields DEF RunType, SameWork
  <2>2. Good(p, whole) /\ SameSessions(r, p)
    <3> HIDE DEF p
    <3>1. Verified(p)
      BY <2>1 DEF Verified
    <3>2. BagToSet(p.checks) \subseteq p.created \ p.sending
      BY <2>1 DEF Good, GoodBut, Dispatches, SameWork
    <3>3. QED
      BY <1>2, <2>1, <3>1, <3>2, SameWorkGood
  <2>3. NextBatch(r) \in SUBSET ReadyNodes(r)
    BY DEF NextBatch
  <2>4. Sound(m)
    BY BatchFits, MarkRunningSound
  <2>5. Good(m, whole) /\ SameSessions(r, m) /\ m.status = "running"
    BY <1>2, <2>3, MarkRunningGood
  <2>6. Good(MaybeFinish(m), whole) /\ SameSessions(m, MaybeFinish(m))
    <3> HIDE DEF m
    <3> QED
      BY <2>4, <2>5, MaybeFinishGood
  <2>7. ScheduleReady(r) \in {p, MaybeFinish(m)}
    BY <1>2 DEF ScheduleReady
  <2>8. QED
    <3> HIDE DEF p, m
    <3> QED
      BY <2>2, <2>5, <2>6, <2>7 DEF SameSessions
<1>3. QED
  BY <1>1, <1>2

-----------------------------------------------------------------------------
(* A node's attempt ends. *)

(* A node with no dispatch under way leaves its attempt.  Nothing that runs *)
(* or is done reads it, so nothing becomes stale.                           *)
LEMMA NodeEndsGood ==
  ASSUME NEW r, NEW q, NEW whole, NEW n \in Nodes, Sound(r),
         GoodBut(r, whole, {n}), Undispatched(r, n), r.state[n] # "done",
         NEW x, q.state = [r.state EXCEPT ![n] = x], x \in {"pending", "failed", "done"},
         x = "done" => r.state[n] = "running" /\ q.output[n] = r.attempt[n],
         \A m \in Nodes \ {n} : q.output[m] = r.output[m],
         q.attempt = r.attempt, q.session = r.session, q.inputs = r.inputs,
         q.creating = r.creating, q.created = r.created, q.sending = r.sending,
         q.status = r.status, q.checks = r.checks
  PROVE  Good(q, whole)
<1>1. Dispatches(r) /\ (\A m \in Nodes \ {n} : Owned(r, m)) /\ Verified(r) /\ (whole => Fresh(r))
  BY DEF GoodBut
<1>2. /\ r.state \in [Nodes -> NodeStates] /\ r.output \in [Nodes -> Nat]
      /\ r.creating \in SUBSET Sessions /\ r.sending \in SUBSET Sessions
      /\ \A m \in Nodes : Deps[m] \subseteq Nodes
  BY FreshFields, ConductorAssumption
<1>3. q.state[n] = x /\ \A m \in Nodes \ {n} : q.state[m] = r.state[m]
  BY <1>2
<1>4. Dispatches(q)
  <2>1. \A s \in r.creating \cup r.sending : q.state[s[1]] = r.state[s[1]]
    BY <1>2, <1>3 DEF Undispatched, Sessions
  <2>2. QED
    BY <1>1, <2>1 DEF Dispatches
<1>5. \A m \in Nodes : Owned(q, m)
  <2> SUFFICES ASSUME NEW m \in Nodes PROVE Owned(q, m)
    OBVIOUS
  <2>1. CASE m = n
    BY <1>3, <2>1 DEF Owned
  <2>2. CASE m # n
    BY <1>1, <1>3, <2>2 DEF Owned
  <2>3. QED
    BY <2>1, <2>2
<1>6. Verified(q)
  BY <1>1 DEF Verified
<1>7. ASSUME Fresh(r), NEW m \in Nodes
      PROVE  /\ q.state[m] \in {"running", "done"} =>
                  /\ \A d \in Deps[m] : q.state[d] = "done"
                  /\ q.inputs[m] = Quoted(q, m)
             /\ q.state[m] = "done" => q.output[m] = q.attempt[m]
  <2>1. r.state[m] \in {"running", "done"} =>
          /\ \A d \in Deps[m] : r.state[d] = "done"
          /\ r.inputs[m] = Quoted(r, m)
    BY <1>7 DEF Fresh
  <2>2. q.state[m] \in {"running", "done"} => r.state[m] \in {"running", "done"}
    BY <1>3
  <2>3. r.state[m] \in {"running", "done"} => n \notin Deps[m]
    BY <2>1
  <2>4. n \notin Deps[m] => Quoted(q, m) = Quoted(r, m)
    BY <1>2 DEF Quoted
  <2>5. n \notin Deps[m] => \A d \in Deps[m] : q.state[d] = r.state[d]
    BY <1>2, <1>3
  <2>6. q.state[m] = "done" => q.output[m] = q.attempt[m]
    <3>1. CASE m = n
      BY <1>2, <1>3, <3>1
    <3>2. CASE m # n
      BY <1>2, <1>3, <1>7, <3>2 DEF Fresh
    <3>3. QED
      BY <3>1, <3>2
  <2>7. QED
    BY <2>1, <2>2, <2>3, <2>4, <2>5, <2>6
<1>8. whole => Fresh(q)
  BY <1>1, <1>7 DEF Fresh
<1>9. QED
  BY <1>4, <1>5, <1>6, <1>8 DEF Good, GoodBut

(* A session that can end its node's attempt: it is the node's latest, and  *)
(* nothing newer is being created.                                          *)
Latest(r, s) ==
  /\ s \in r.created \ r.sending
  /\ r.state[s[1]] = "running"
  /\ s[2] = r.attempt[s[1]]
  /\ Undispatched(r, s[1])

LEMMA GoodIsGoodBut ==
  ASSUME NEW r, NEW whole, NEW N, Good(r, whole)
  PROVE  GoodBut(r, whole, N)
BY DEF Good, GoodBut

LEMMA MarkNodeDoneGood ==
  ASSUME NEW r, NEW whole, NEW s \in Sessions, Sound(r), Good(r, whole), Latest(r, s)
  PROVE  Good(MarkNodeDone(r, s), whole) /\ SameSessions(r, MarkNodeDone(r, s))
<1> DEFINE q == NodeDone(r, s)
<1>1. s[1] \in Nodes
  BY DEF Sessions
<1>2. /\ q.state = [r.state EXCEPT ![s[1]] = "done"]
      /\ q.attempt = r.attempt /\ q.session = r.session /\ q.inputs = r.inputs
      /\ q.creating = r.creating /\ q.created = r.created /\ q.sending = r.sending
      /\ q.status = r.status /\ q.checks = r.checks
  BY FreshFields DEF NodeDone, RunType
<1>3. Sound(q)
  BY MarkNodeDoneSound
<1>4. Good(q, whole)
  <2> HIDE DEF q
  <2>1. GoodBut(r, whole, {s[1]})
    BY GoodIsGoodBut
  <2>2. Undispatched(r, s[1]) /\ r.state[s[1]] = "running" /\ s[2] = r.attempt[s[1]]
    BY DEF Latest
  <2>3. q.output[s[1]] = r.attempt[s[1]] /\ \A m \in Nodes \ {s[1]} : q.output[m] = r.output[m]
    <3>1. q.output = [r.output EXCEPT ![s[1]] = s[2]]
      BY FreshFields DEF q, NodeDone, RunType
    <3>2. QED
      BY <1>1, <2>2, <3>1, FreshFields
  <2>4. r.state[s[1]] # "done"
    BY <2>2
  <2>5. QED
    BY <1>1, <1>2, <2>1, <2>2, <2>3, <2>4, NodeEndsGood
<1>5. Good(ScheduleReady(q), whole) /\ SameSessions(q, ScheduleReady(q))
  <2> HIDE DEF q
  <2> QED
    BY <1>3, <1>4, ScheduleReadyGood
<1>6. MarkNodeDone(r, s) = ScheduleReady(q)
  BY DEF MarkNodeDone, NodeDone
<1>7. QED
  <2> HIDE DEF q
  <2> QED
    BY <1>2, <1>5, <1>6 DEF SameSessions

LEMMA FailNodeGood ==
  ASSUME NEW r, NEW whole, NEW n \in Nodes, Sound(r),
         GoodBut(r, whole, {n}), Undispatched(r, n), r.state[n] # "done"
  PROVE  Good(FailNode(r, n), whole) /\ SameSessions(r, FailNode(r, n))
<1>1. Good(RetryNode(r, n), whole) /\ SameSessions(r, RetryNode(r, n))
  <2> DEFINE q == NodeRetried(r, n)
  <2>1. /\ q.state = [r.state EXCEPT ![n] = "pending"] /\ q.output = r.output
        /\ q.attempt = r.attempt /\ q.session = r.session /\ q.inputs = r.inputs
        /\ q.creating = r.creating /\ q.created = r.created /\ q.sending = r.sending
        /\ q.status = r.status /\ q.checks = r.checks
    BY FreshFields DEF NodeRetried, RunType
  <2>2. Sound(q)
    BY RetryNodeSound
  <2>3. Good(q, whole)
    <3> HIDE DEF q
    <3> QED
      BY <2>1, NodeEndsGood
  <2>4. Good(ScheduleReady(q), whole) /\ SameSessions(q, ScheduleReady(q))
    <3> HIDE DEF q
    <3> QED
      BY <2>2, <2>3, ScheduleReadyGood
  <2>5. RetryNode(r, n) = ScheduleReady(q)
    BY DEF RetryNode, NodeRetried
  <2>6. QED
    <3> HIDE DEF q
    <3> QED
      BY <2>1, <2>4, <2>5 DEF SameSessions
<1>2. Good(GiveUpNode(r, n), whole) /\ SameSessions(r, GiveUpNode(r, n))
  <2> DEFINE q == NodeGivenUp(r, n)
  <2>1. /\ q.state = [r.state EXCEPT ![n] = "failed"] /\ q.output = r.output
        /\ q.attempt = r.attempt /\ q.session = r.session /\ q.inputs = r.inputs
        /\ q.creating = r.creating /\ q.created = r.created /\ q.sending = r.sending
        /\ q.status = r.status /\ q.checks = r.checks
    BY FreshFields DEF NodeGivenUp, RunType
  <2>2. Sound(q)
    BY GiveUpNodeSound
  <2>3. Good(q, whole)
    <3> HIDE DEF q
    <3> QED
      BY <2>1, NodeEndsGood
  <2>4. Good(ScheduleReady(q), whole) /\ SameSessions(q, ScheduleReady(q))
    <3> HIDE DEF q
    <3> QED
      BY <2>2, <2>3, ScheduleReadyGood
  <2>5. GiveUpNode(r, n) = ScheduleReady(q)
    BY DEF GiveUpNode, NodeGivenUp
  <2>6. QED
    <3> HIDE DEF q
    <3> QED
      BY <2>1, <2>4, <2>5 DEF SameSessions
<1>3. QED
  BY <1>1, <1>2 DEF FailNode

-----------------------------------------------------------------------------
(* Completions of the nodes' sessions. *)

(* A completion the run accepts, of a node that is not being dispatched, is *)
(* of the node's latest session.                                            *)
LEMMA AcceptedIsLatest ==
  ASSUME NEW r, NEW whole, NEW s \in Sessions, Sound(r), Good(r, whole),
         s \in r.created \ r.sending, r.state[s[1]] = "running", r.session[s[1]] = s[2],
         \A t \in r.creating : t[1] # s[1]
  PROVE  Latest(r, s)
<1>1. s[1] \in Nodes
  BY DEF Sessions
<1>2. s[2] = r.attempt[s[1]]
  BY <1>1 DEF Good, GoodBut, Owned
<1>3. ASSUME NEW t \in r.sending, t[1] = s[1]
      PROVE  FALSE
  <2>1. t[2] = s[2] /\ t \in Sessions
    BY <1>2, <1>3, FreshFields DEF Good, GoodBut, Dispatches
  <2>2. t = s
    BY <1>3, <2>1 DEF Sessions
  <2>3. QED
    BY <2>2
<1>4. QED
  BY <1>2, <1>3 DEF Latest, Undispatched

LEMMA SameLatest ==
  ASSUME NEW r, NEW q, NEW s, SameWork(r, q), Latest(r, s)
  PROVE  Latest(q, s)
BY DEF SameWork, Latest, Undispatched

LEMMA LatestFails ==
  ASSUME NEW r, NEW whole, NEW s \in Sessions, Sound(r), Good(r, whole), Latest(r, s)
  PROVE  Good(FailNode(r, s[1]), whole) /\ SameSessions(r, FailNode(r, s[1]))
<1>1. s[1] \in Nodes
  BY DEF Sessions
<1>2. QED
  BY <1>1, FailNodeGood, GoodIsGoodBut DEF Latest

LEMMA MeterTokensGood ==
  ASSUME NEW r, NEW whole, Sound(r), Good(r, whole), NEW over \in BOOLEAN
  PROVE  Good(MeterTokens(r, over), whole) /\ SameWork(r, MeterTokens(r, over))
<1> DEFINE metered == [r EXCEPT !.overBudget = over]
           held    == [metered EXCEPT !.status = "paused"]
<1>1. /\ SameWork(r, metered) /\ metered.status = r.status /\ metered.checks = r.checks
      /\ metered.verified = r.verified
      /\ SameWork(r, held) /\ held.status = "paused" /\ held.checks = r.checks
  BY FreshFields DEF RunType, SameWork
<1>2. Good(metered, whole)
  <2> HIDE DEF metered, held
  <2> QED
    BY <1>1, UntouchedGood
<1>3. r.status = "running" => Good(held, whole)
  <2> HIDE DEF metered, held
  <2>1. Verified(held)
    BY <1>1 DEF Verified
  <2>2. BagToSet(held.checks) \subseteq held.created \ held.sending
    BY <1>1 DEF Good, GoodBut, Dispatches, SameWork
  <2>3. QED
    BY <1>1, <2>1, <2>2, SameWorkGood
<1>4. MeterTokens(r, over) = metered \/ (r.status = "running" /\ MeterTokens(r, over) = held)
  BY Zenon DEF MeterTokens
<1>5. QED
  <2> HIDE DEF metered, held
  <2> QED
    BY <1>1, <1>2, <1>3, <1>4

LEMMA ChecksGood ==
  ASSUME NEW r, NEW whole, Sound(r), Good(r, whole), NEW bag,
         BagToSet(bag) \subseteq r.created \ r.sending
  PROVE  LET q == [r EXCEPT !.checks = bag]
         IN  Good(q, whole) /\ SameWork(r, q) /\ SameSessions(r, q)
<1> DEFINE q == [r EXCEPT !.checks = bag]
<1>1. SameWork(r, q) /\ q.status = r.status /\ q.checks = bag /\ q.verified = r.verified
  BY FreshFields DEF RunType, SameWork
<1>2. Good(q, whole) /\ SameSessions(r, q)
  <2> HIDE DEF q
  <2>1. Verified(q)
    BY <1>1 DEF Good, GoodBut, Verified, SameWork
  <2>2. BagToSet(q.checks) \subseteq q.created \ q.sending
    BY <1>1 DEF SameWork
  <2>3. QED
    BY <1>1, <2>1, <2>2, SameWorkGood
<1>3. QED
  BY <1>1, <1>2

LEMMA CheckedSessions ==
  ASSUME NEW bag, Bagged(bag), NEW s \in Sessions
  PROVE  /\ BagToSet(bag (+) SetToBag({s})) \subseteq BagToSet(bag) \cup {s}
         /\ BagToSet(bag (-) SetToBag({s})) \subseteq BagToSet(bag)
<1>1. BagToSet(bag (+) SetToBag({s})) \subseteq BagToSet(bag) \cup {s}
  BY DEF Bagged, IsABag, BagToSet, SetToBag, (+)
<1>2. BagToSet(bag (-) SetToBag({s})) \subseteq BagToSet(bag)
  BY DEF Bagged, IsABag, BagToSet, SetToBag, (-)
<1>3. QED
  BY <1>1, <1>2

LEMMA NodeRepliedGood ==
  ASSUME NEW r, NEW whole, NEW s \in Sessions, Sound(r), Good(r, whole), Latest(r, s)
  PROVE  Good(NodeReplied(r, s), whole) /\ SameSessions(r, NodeReplied(r, s))
<1>1. Good(FailNode(r, s[1]), whole) /\ SameSessions(r, FailNode(r, s[1]))
  BY LatestFails
<1>2. Good(MarkNodeDone(r, s), whole) /\ SameSessions(r, MarkNodeDone(r, s))
  BY MarkNodeDoneGood
<1>3. LET q == [r EXCEPT !.checks = @ (+) SetToBag({s})]
      IN  Good(q, whole) /\ SameSessions(r, q)
  <2>1. BagToSet(r.checks (+) SetToBag({s})) \subseteq r.created \ r.sending
    <3>1. BagToSet(r.checks) \subseteq r.created \ r.sending /\ s \in r.created \ r.sending
      BY DEF Good, GoodBut, Dispatches, Latest
    <3>2. QED
      BY <3>1, CheckedSessions DEF Sound, Typed
  <2>2. QED
    BY <2>1, ChecksGood
<1>4. QED
  BY <1>1, <1>2, <1>3 DEF NodeReplied

LEMMA TurnCompletedGood ==
  ASSUME NEW r, NEW whole, NEW s \in Sessions, NEW e \in Completions,
         Sound(r), Good(r, whole), Latest(r, s)
  PROVE  Good(TurnCompleted(r, s, e), whole) /\ SameSessions(r, TurnCompleted(r, s, e))
<1> DEFINE heard    == [r EXCEPT !.replied[s[1]] = @ \/ e.reply]
           answered == [heard EXCEPT !.waiting[s[1]] = FALSE]
<1>1. Sound(answered)
  <2>1. answered = Answered(r, s, e)
    BY Zenon DEF Answered
  <2>2. Sound(Answered(r, s, e))
    BY TurnCompletedSound
  <2>3. QED
    BY <2>1, <2>2
<1>2. /\ SameWork(r, heard) /\ heard.status = r.status /\ heard.checks = r.checks
      /\ heard.verified = r.verified
      /\ SameWork(r, answered) /\ answered.status = r.status /\ answered.checks = r.checks
      /\ answered.verified = r.verified
  BY FreshFields DEF RunType, SameWork
<1>3. /\ Good(heard, whole) /\ SameSessions(r, heard)
      /\ Good(answered, whole) /\ SameSessions(r, answered) /\ Latest(answered, s)
  <2> HIDE DEF heard, answered
  <2> QED
    BY <1>2, UntouchedGood, SameLatest
<1>4. Good(NodeReplied(answered, s), whole) /\ SameSessions(answered, NodeReplied(answered, s))
  <2> HIDE DEF answered
  <2> QED
    BY <1>1, <1>3, NodeRepliedGood
<1>5. TurnCompleted(r, s, e) \in {heard, answered, NodeReplied(answered, s)}
  BY Zenon DEF TurnCompleted
<1>6. QED
  <2> HIDE DEF heard, answered
  <2> QED
    BY <1>3, <1>4, <1>5 DEF SameSessions

LEMMA OnSessionCompleteGood ==
  ASSUME NEW r, NEW whole, NEW s \in Sessions, NEW e \in Completions, Sound(r), Good(r, whole),
         s \in r.created \ r.sending, \A t \in r.creating : t[1] # s[1]
  PROVE  Good(OnSessionComplete(r, s, e), whole) /\ SameSessions(r, OnSessionComplete(r, s, e))
<1> DEFINE m == MeterTokens(r, e.over)
           w == [m EXCEPT !.waiting[s[1]] = TRUE]
<1>1. Sound(m) /\ Good(m, whole) /\ SameWork(r, m) /\ SameSessions(r, m)
  <2>1. Sound(m) /\ Good(m, whole) /\ SameWork(r, m)
    BY MeterTokensSound, MeterTokensGood DEF Completions
  <2>2. QED
    BY <2>1 DEF SameWork, SameSessions
<1>2. e.reason \in {"complete", "interrupted", "error"}
  BY DEF Completions
<1>3. OnSessionComplete(r, s, e) =
        IF ~Accepts(r, s) THEN r
        ELSE CASE e.reason = "interrupted" -> w
               [] e.reason = "error"       -> FailNode(m, s[1])
               [] e.reason = "complete"    -> TurnCompleted(m, s, e)
  BY DEF OnSessionComplete
<1> HIDE DEF m
<1>4. Good(w, whole) /\ SameSessions(m, w)
  <2>1. SameWork(m, w) /\ w.status = m.status /\ w.checks = m.checks /\ w.verified = m.verified
    BY <1>1, FreshFields DEF RunType, SameWork
  <2>2. QED
    <3> HIDE DEF w
    <3> QED
      BY <1>1, <2>1, UntouchedGood
<1> HIDE DEF w
<1>5. ASSUME Accepts(r, s)
      PROVE  /\ Good(FailNode(m, s[1]), whole) /\ SameSessions(m, FailNode(m, s[1]))
             /\ Good(TurnCompleted(m, s, e), whole) /\ SameSessions(m, TurnCompleted(m, s, e))
  <2>1. Latest(r, s)
    BY <1>5, AcceptedIsLatest DEF Accepts
  <2>2. Latest(m, s)
    BY <1>1, <2>1, SameLatest
  <2>3. QED
    BY <1>1, <2>2, LatestFails, TurnCompletedGood
<1>6. CASE ~Accepts(r, s)
  BY <1>3, <1>6 DEF SameSessions
<1>7. CASE Accepts(r, s) /\ e.reason = "interrupted"
  BY <1>1, <1>3, <1>4, <1>7 DEF SameSessions
<1>8. CASE Accepts(r, s) /\ e.reason = "error"
  BY <1>1, <1>3, <1>5, <1>8 DEF SameSessions
<1>9. CASE Accepts(r, s) /\ e.reason = "complete"
  BY <1>1, <1>3, <1>5, <1>9 DEF SameSessions
<1>10. QED
  BY <1>2, <1>6, <1>7, <1>8, <1>9

LEMMA OutcomeKnownGood ==
  ASSUME NEW r, NEW whole, NEW s \in Sessions, NEW finished, Sound(r), Good(r, whole),
         s \in BagToSet(r.checks), \A t \in r.creating : t[1] # s[1]
  PROVE  Good(OutcomeKnown(r, s, finished), whole) /\ SameSessions(r, OutcomeKnown(r, s, finished))
<1> DEFINE answered == [r EXCEPT !.checks = @ (-) SetToBag({s})]
<1>1. Bagged(r.checks) /\ BagToSet(r.checks) \subseteq r.created \ r.sending
  BY DEF Sound, Typed, Good, GoodBut, Dispatches
<1>2. Sound(answered)
  BY <1>1, BagLemma, ChecksSound
<1>3. Good(answered, whole) /\ SameWork(r, answered) /\ SameSessions(r, answered)
  BY <1>1, CheckedSessions, ChecksGood
<1> HIDE DEF answered
<1>4. ASSUME r.state[s[1]] = "running", r.session[s[1]] = s[2]
      PROVE  /\ Good(MarkNodeDone(answered, s), whole)
             /\ SameSessions(answered, MarkNodeDone(answered, s))
             /\ Good(FailNode(answered, s[1]), whole)
             /\ SameSessions(answered, FailNode(answered, s[1]))
  <2>1. Latest(r, s)
    BY <1>1, <1>4, AcceptedIsLatest
  <2>2. Latest(answered, s)
    BY <1>3, <2>1, SameLatest
  <2>3. QED
    BY <1>2, <1>3, <2>2, MarkNodeDoneGood, LatestFails
<1>5. OutcomeKnown(r, s, finished) =
        IF r.state[s[1]] # "running" \/ r.session[s[1]] # s[2] \/ r.status \in Terminal
        THEN answered
        ELSE IF finished THEN MarkNodeDone(answered, s) ELSE FailNode(answered, s[1])
  BY DEF OutcomeKnown, answered
<1>6. QED
  BY <1>3, <1>4, <1>5 DEF SameSessions

-----------------------------------------------------------------------------
(* Verdicts and repairs. *)

Untouched(r, q) ==
  SameWork(r, q) /\ q.status = r.status /\ q.verified = r.verified /\ q.checks = r.checks

(* What does not depend on a node that is redone is not redone. *)
LEMMA FrontierClosed ==
  ASSUME NEW names, NEW n \in Nodes, n \notin Frontier(names)
  PROVE  Deps[n] \cap Frontier(names) = {}
<1>1. names # {}
  BY DEF Frontier
<1>2. PICK S \in SUBSET Nodes : names \subseteq S /\ DependentClosed(S) /\ n \notin S
  BY <1>1 DEF Frontier
<1>3. Deps[n] \cap S = {}
  BY <1>2 DEF DependentClosed
<1>4. Frontier(names) \subseteq S
  BY <1>1, <1>2 DEF Frontier
<1>5. QED
  BY <1>3, <1>4

LEMMA RepairingGood ==
  ASSUME NEW r, NEW whole, Sound(r), Good(r, whole), r.status = "verifying", NEW names
  PROVE  Good(Repairing(r, names), whole) /\ SameSessions(r, Repairing(r, names))
<1> DEFINE q == Repairing(r, names)
           state == [n \in Nodes |-> IF n \in Redone(r, names) THEN "pending" ELSE r.state[n]]
<1>1. q = [r EXCEPT !.status = "running", !.repairs = @ + 1, !.state = state]
  BY Zenon DEF Repairing
<1>2. /\ q.state = state /\ q.status = "running" /\ q.checks = r.checks
      /\ q.attempt = r.attempt /\ q.session = r.session /\ q.output = r.output
      /\ q.inputs = r.inputs /\ q.creating = r.creating /\ q.created = r.created
      /\ q.sending = r.sending
  <2> HIDE DEF state, q
  <2> QED
    BY <1>1, FreshFields DEF RunType
<1>3. \A n \in Nodes : r.state[n] = "done"
  BY DEF Good, GoodBut, Verified
<1>4. \A n \in Nodes : state[n] = IF n \in Frontier(names) THEN "pending" ELSE "done"
  BY <1>3 DEF Redone
<1> HIDE DEF state, q
<1>5. r.creating = {} /\ r.sending = {}
  <2> SUFFICES ASSUME NEW s \in r.creating \cup r.sending PROVE FALSE
    OBVIOUS
  <2>1. s[1] \in Nodes
    <3>1. r.creating \in SUBSET Sessions /\ r.sending \in SUBSET Sessions
      BY FreshFields
    <3>2. QED
      BY <3>1 DEF Sessions
  <2>2. r.state[s[1]] # "done"
    BY DEF Good, GoodBut, Dispatches
  <2>3. QED
    BY <1>3, <2>1, <2>2
<1>6. Dispatches(q)
  <2>1. /\ q.creating = {} /\ q.sending = {} /\ q.created = r.created
        /\ q.attempt = r.attempt /\ q.checks = r.checks
    BY <1>2, <1>5
  <2>2. Dispatches(r)
    BY DEF Good, GoodBut
  <2>3. QED
    BY <1>5, <2>1, <2>2 DEF Dispatches
<1>7. (\A n \in Nodes : Owned(q, n)) /\ Verified(q)
  BY <1>2, <1>4 DEF Owned, Verified
<1>8. ASSUME Fresh(r), NEW n \in Nodes
      PROVE  /\ q.state[n] \in {"running", "done"} =>
                  /\ \A d \in Deps[n] : q.state[d] = "done"
                  /\ q.inputs[n] = Quoted(q, n)
             /\ q.state[n] = "done" => q.output[n] = q.attempt[n]
  <2>1. Quoted(q, n) = Quoted(r, n) /\ Deps[n] \subseteq Nodes
    BY <1>2, ConductorAssumption DEF Quoted
  <2>2. r.inputs[n] = Quoted(r, n) /\ r.output[n] = r.attempt[n]
    BY <1>3, <1>8 DEF Fresh
  <2>3. n \notin Frontier(names) => \A d \in Deps[n] : q.state[d] = "done"
    BY <1>2, <1>4, <2>1, FrontierClosed
  <2>4. QED
    BY <1>2, <1>4, <2>1, <2>2, <2>3
<1>9. whole => Fresh(q)
  BY <1>8 DEF Good, GoodBut, Fresh
<1>10. QED
  BY <1>2, <1>6, <1>7, <1>9 DEF q, Good, GoodBut, SameSessions

LEMMA RepairForVerdictGood ==
  ASSUME NEW r, NEW whole, Sound(r), Good(r, whole), r.status = "verifying", NEW names
  PROVE  Good(RepairForVerdict(r, names), whole) /\ SameSessions(r, RepairForVerdict(r, names))
<1> DEFINE q == Repairing(r, names)
<1>1. Sound(q) /\ Good(q, whole) /\ SameSessions(r, q)
  BY RepairForVerdictSound, RepairingGood
<1>2. Good(ScheduleReady(q), whole) /\ SameSessions(q, ScheduleReady(q))
  <2> HIDE DEF q
  <2> QED
    BY <1>1, ScheduleReadyGood
<1>3. Good(Finish(r, "failed"), whole) /\ SameSessions(r, Finish(r, "failed"))
  BY FinishGood
<1>4. RepairForVerdict(r, names) \in {Finish(r, "failed"), ScheduleReady(q)}
  BY Zenon DEF RepairForVerdict, Repairing, Redone
<1>5. QED
  <2> HIDE DEF q
  <2> QED
    BY <1>1, <1>2, <1>3, <1>4 DEF SameSessions

LEMMA ApplyPassGood ==
  ASSUME NEW r, NEW whole, Sound(r), Good(r, whole), r.status = "verifying"
  PROVE  Good(ApplyPass(r), whole) /\ SameSessions(r, ApplyPass(r))
<1> DEFINE q == [r EXCEPT !.reAsks = 0]
<1>1. Untouched(r, q)
  BY FreshFields DEF RunType, Untouched, SameWork
<1>2. Sound(q)
  BY ReAsksSound
<1>3. ApplyPass(r) = Finish(q, "completed")
  BY DEF ApplyPass
<1> HIDE DEF q
<1>4. Good(q, whole) /\ SameSessions(r, q)
  BY <1>1, UntouchedGood DEF Untouched
<1>5. (\A n \in Nodes : q.state[n] = "done") /\ (HasOrchestrator => q.verified = q.output)
  BY <1>1, <1>4 DEF Good, GoodBut, Verified, Untouched
<1>6. q.status # "stopped"
  BY <1>1 DEF Untouched
<1>7. Good(Finish(q, "completed"), whole) /\ SameSessions(q, Finish(q, "completed"))
  BY <1>2, <1>4, <1>5, <1>6, FinishGood
<1>8. QED
  BY <1>3, <1>4, <1>7 DEF SameSessions

LEMMA ApplyUnparsedGood ==
  ASSUME NEW r, NEW whole, Sound(r), Good(r, whole), r.status = "verifying"
  PROVE  Good(ApplyUnparsed(r), whole) /\ SameSessions(r, ApplyUnparsed(r))
<1> DEFINE q == [r EXCEPT !.reAsks = @ + 1]
<1>1. Untouched(r, q)
  BY FreshFields DEF RunType, Untouched, SameWork
<1>2. Sound(q)
  <2>1. r.reAsks + 1 \in Nat
    BY FreshFields DEF RunType
  <2>2. QED
    BY <2>1, ReAsksSound
<1>3. ApplyUnparsed(r) \in {AskOrchestrator(q), Finish(r, "failed")}
  BY DEF ApplyUnparsed
<1> HIDE DEF q
<1>4. Good(q, whole) /\ SameSessions(r, q)
  BY <1>1, UntouchedGood DEF Untouched
<1>5. Good(AskOrchestrator(q), whole) /\ SameSessions(q, AskOrchestrator(q))
  BY <1>2, <1>4, AskGood
<1>6. Good(Finish(r, "failed"), whole) /\ SameSessions(r, Finish(r, "failed"))
  BY FinishGood
<1>7. QED
  BY <1>3, <1>4, <1>5, <1>6 DEF SameSessions

LEMMA ApplyFailGood ==
  ASSUME NEW r, NEW whole, Sound(r), Good(r, whole), r.status = "verifying", NEW v \in Verdicts
  PROVE  Good(ApplyFail(r, v), whole) /\ SameSessions(r, ApplyFail(r, v))
<1> DEFINE spent  == [r EXCEPT !.repairsUsed = @ + 1, !.lastScoped = FALSE]
           scoped == [spent EXCEPT !.hop = "scope"]
<1>1. Untouched(r, spent) /\ Untouched(r, scoped)
  BY FreshFields DEF RunType, Untouched, SameWork
<1>2. Sound(spent)
  BY SpentSound
<1>3. ApplyFail(r, v) \in {Finish(r, "failed"), scoped, RepairForVerdict(spent, v.names)}
  BY Zenon DEF ApplyFail
<1> HIDE DEF spent, scoped
<1>4. Good(spent, whole) /\ SameSessions(r, spent) /\ Good(scoped, whole) /\ SameSessions(r, scoped)
  BY <1>1, UntouchedGood DEF Untouched
<1>5. spent.status = "verifying"
  BY <1>1 DEF Untouched
<1>6. /\ Good(RepairForVerdict(spent, v.names), whole)
      /\ SameSessions(spent, RepairForVerdict(spent, v.names))
  BY <1>2, <1>4, <1>5, RepairForVerdictGood
<1>7. Good(Finish(r, "failed"), whole) /\ SameSessions(r, Finish(r, "failed"))
  BY FinishGood
<1>8. QED
  BY <1>3, <1>4, <1>6, <1>7 DEF SameSessions

LEMMA ApplyVerdictGood ==
  ASSUME NEW r, NEW whole, Sound(r), Good(r, whole), r.status = "verifying", NEW v \in Verdicts
  PROVE  Good(ApplyVerdict(r, v), whole) /\ SameSessions(r, ApplyVerdict(r, v))
<1>1. v.result \in {"pass", "fail", "unparsed"}
  BY DEF Verdicts
<1>2. /\ Good(ApplyPass(r), whole) /\ SameSessions(r, ApplyPass(r))
      /\ Good(ApplyUnparsed(r), whole) /\ SameSessions(r, ApplyUnparsed(r))
      /\ Good(ApplyFail(r, v), whole) /\ SameSessions(r, ApplyFail(r, v))
  BY ApplyPassGood, ApplyUnparsedGood, ApplyFailGood
<1>3. QED
  BY <1>1, <1>2 DEF ApplyVerdict

(* A verdict that is logged and then applied. *)
LEMMA LoggedVerdictGood ==
  ASSUME NEW r, NEW whole, Sound(r), Good(r, whole), r.status = "verifying", NEW v \in Verdicts
  PROVE  LET q == ApplyVerdict(LogVerdict(r, v.result), v)
         IN  Good(q, whole) /\ SameSessions(r, q)
<1> DEFINE q == LogVerdict(r, v.result)
<1>1. v.result \in {"pass", "fail", "unparsed"}
  BY DEF Verdicts
<1>2. Untouched(r, q)
  BY FreshFields DEF LogVerdict, RunType, Untouched, SameWork
<1>3. Sound(q)
  BY <1>1, LogVerdictSound
<1> HIDE DEF q
<1>4. Good(q, whole) /\ SameSessions(r, q) /\ q.status = "verifying"
  BY <1>2, UntouchedGood DEF Untouched
<1>5. Good(ApplyVerdict(q, v), whole) /\ SameSessions(q, ApplyVerdict(q, v))
  BY <1>3, <1>4, ApplyVerdictGood
<1>6. QED
  BY <1>4, <1>5 DEF q, SameSessions

LEMMA HopGood ==
  ASSUME NEW r, NEW whole, Sound(r), Good(r, whole), NEW hop
  PROVE  LET q == [r EXCEPT !.hop = hop]
         IN  Good(q, whole) /\ SameSessions(r, q) /\ q.status = r.status
<1> DEFINE q == [r EXCEPT !.hop = hop]
<1>1. Untouched(r, q)
  BY FreshFields DEF RunType, Untouched, SameWork
<1>2. Good(q, whole) /\ SameSessions(r, q) /\ q.status = r.status
  <2> HIDE DEF q
  <2> QED
    BY <1>1, UntouchedGood DEF Untouched
<1>3. QED
  BY <1>2

LEMMA HandleVerdictGood ==
  ASSUME NEW r, NEW whole, Sound(r), Good(r, whole), NEW v \in Verdicts
  PROVE  Good(HandleVerdict(r, v), whole) /\ SameSessions(r, HandleVerdict(r, v))
<1> DEFINE hopped == [r EXCEPT !.hop = "decide"]
           logged == ApplyVerdict(LogVerdict(r, v.result), v)
<1>1. Good(hopped, whole) /\ SameSessions(r, hopped)
  BY HopGood
<1>2. r.status = "verifying" => Good(logged, whole) /\ SameSessions(r, logged)
  BY LoggedVerdictGood
<1>3. HandleVerdict(r, v) = IF r.status # "verifying" THEN r
                            ELSE IF v.result = "unparsed" /\ Decide THEN hopped ELSE logged
  BY DEF HandleVerdict
<1>4. QED
  <2> HIDE DEF hopped, logged
  <2> QED
    BY <1>1, <1>2, <1>3 DEF SameSessions

LEMMA OnOrchestratorCompleteGood ==
  ASSUME NEW r, NEW whole, Sound(r), Good(r, whole), NEW e \in Answers
  PROVE  Good(OnOrchestratorComplete(r, e), whole) /\ SameSessions(r, OnOrchestratorComplete(r, e))
<1> DEFINE q == [r EXCEPT !.listening = FALSE]
<1>1. Untouched(r, q)
  BY FreshFields DEF RunType, Untouched, SameWork
<1>2. Sound(q) /\ e.verdict \in Verdicts
  BY OnOrchestratorCompleteSound DEF Answers
<1>3. OnOrchestratorComplete(r, e) \in {r, HandleVerdict(q, e.verdict)}
  BY DEF OnOrchestratorComplete
<1> HIDE DEF q
<1>4. Good(q, whole) /\ SameSessions(r, q)
  BY <1>1, UntouchedGood DEF Untouched
<1>5. Good(HandleVerdict(q, e.verdict), whole) /\ SameSessions(q, HandleVerdict(q, e.verdict))
  BY <1>2, <1>4, HandleVerdictGood
<1>6. QED
  BY <1>3, <1>4, <1>5 DEF SameSessions

LEMMA VerdictDecidedGood ==
  ASSUME NEW r, NEW whole, Sound(r), Good(r, whole), NEW v \in Verdicts
  PROVE  Good(VerdictDecided(r, v), whole) /\ SameSessions(r, VerdictDecided(r, v))
<1> DEFINE answered == [r EXCEPT !.hop = "none"]
           logged   == ApplyVerdict(LogVerdict(answered, v.result), v)
<1>1. Sound(answered) /\ Good(answered, whole) /\ SameSessions(r, answered)
      /\ answered.status = r.status
  BY HopSound, HopGood
<1>2. r.status = "verifying" => Good(logged, whole) /\ SameSessions(answered, logged)
  <2> HIDE DEF answered
  <2> QED
    BY <1>1, LoggedVerdictGood
<1>3. VerdictDecided(r, v) = IF r.status # "verifying" THEN answered ELSE logged
  BY DEF VerdictDecided
<1>4. QED
  <2> HIDE DEF answered, logged
  <2> QED
    BY <1>1, <1>2, <1>3 DEF SameSessions

LEMMA RepairScopedGood ==
  ASSUME NEW r, NEW whole, Sound(r), Good(r, whole), NEW names
  PROVE  Good(RepairScoped(r, names), whole) /\ SameSessions(r, RepairScoped(r, names))
<1> DEFINE answered == [r EXCEPT !.hop = "none"]
           q == [answered EXCEPT !.lastScoped = (names # {})]
<1>1. Good(answered, whole) /\ SameSessions(r, answered)
  BY HopGood
<1>2. Untouched(r, q)
  BY FreshFields DEF RunType, Untouched, SameWork
<1>3. Sound(q)
  BY RepairScopedSound
<1>4. RepairScoped(r, names) = IF r.status # "verifying" THEN answered ELSE RepairForVerdict(q, names)
  <2>1. answered.status = r.status
    BY FreshFields DEF RunType
  <2>2. QED
    BY DEF RepairScoped
<1> HIDE DEF answered, q
<1>5. Good(q, whole) /\ SameSessions(r, q) /\ q.status = r.status
  BY <1>2, UntouchedGood DEF Untouched
<1>6. r.status = "verifying" =>
        Good(RepairForVerdict(q, names), whole) /\ SameSessions(q, RepairForVerdict(q, names))
  BY <1>3, <1>5, RepairForVerdictGood
<1>7. QED
  BY <1>1, <1>4, <1>5, <1>6 DEF SameSessions

(* QuietWindows: a send is refused only while the run still waits for it. *)
LEMMA AskRejectedGood ==
  ASSUME NEW r, NEW whole, Sound(r), Good(r, whole), r.asks > 0, r.status = "verifying"
  PROVE  Good(AskRejected(r), whole) /\ SameSessions(r, AskRejected(r))
<1> DEFINE q == [r EXCEPT !.asks = @ - 1]
<1>1. Untouched(r, q)
  BY FreshFields DEF RunType, Untouched, SameWork
<1>2. Sound(q)
  BY AsksSound
<1>3. AskRejected(r) = Finish(q, "failed")
  BY DEF AskRejected
<1> HIDE DEF q
<1>4. Good(q, whole) /\ SameSessions(r, q) /\ q.status # "stopped"
  BY <1>1, UntouchedGood DEF Untouched
<1>5. Good(Finish(q, "failed"), whole) /\ SameSessions(q, Finish(q, "failed"))
  BY <1>2, <1>4, FinishGood
<1>6. QED
  BY <1>3, <1>4, <1>5 DEF SameSessions

-----------------------------------------------------------------------------
(* Commands and crashes. *)

LEMMA PauseRunGood ==
  ASSUME NEW r, NEW whole, Sound(r), Good(r, whole)
  PROVE  Good(PauseRun(r), whole) /\ SameSessions(r, PauseRun(r))
<1> DEFINE q == [r EXCEPT !.status = "paused"]
<1>1. SameWork(r, q) /\ q.status = "paused" /\ q.checks = r.checks
  BY FreshFields DEF RunType, SameWork
<1>2. PauseRun(r) = IF r.status = "running" THEN q ELSE r
  BY DEF PauseRun
<1> HIDE DEF q
<1>3. ASSUME r.status = "running"
      PROVE  Good(q, whole) /\ SameSessions(r, q)
  <2>1. Verified(q)
    BY <1>1 DEF Verified
  <2>2. BagToSet(q.checks) \subseteq q.created \ q.sending
    BY <1>1 DEF Good, GoodBut, Dispatches, SameWork
  <2>3. QED
    BY <1>1, <1>3, <2>1, <2>2, SameWorkGood
<1>4. QED
  BY <1>2, <1>3 DEF SameSessions

(* A node that is neither running nor done before nor after can change.     *)
LEMMA IdleNodesGood ==
  ASSUME NEW r, NEW q, NEW whole, Sound(r), GoodBut(r, whole, Nodes),
         \A n \in Nodes : \/ q.state[n] = r.state[n]
                          \/ {q.state[n], r.state[n]} \cap {"running", "done"} = {},
         \A s \in r.creating \cup r.sending : r.state[s[1]] = "running",
         \A n \in Nodes : Owned(r, n),
         q.status = "running",
         q.attempt = r.attempt, q.session = r.session, q.inputs = r.inputs,
         q.output = r.output, q.creating = r.creating, q.created = r.created,
         q.sending = r.sending, q.checks = r.checks
  PROVE  Good(q, whole) /\ SameSessions(r, q)
<1>1. \A n \in Nodes : /\ q.state[n] = "running" <=> r.state[n] = "running"
                       /\ q.state[n] = "done" <=> r.state[n] = "done"
  OBVIOUS
<1>2. \A s \in r.creating \cup r.sending : s[1] \in Nodes
  <2>1. r.creating \in SUBSET Sessions /\ r.sending \in SUBSET Sessions
    BY FreshFields
  <2>2. QED
    BY <2>1 DEF Sessions
<1>3. Dispatches(q)
  <2>1. \A s \in r.creating \cup r.sending : q.state[s[1]] = "running"
    BY <1>1, <1>2
  <2>2. QED
    BY <2>1 DEF GoodBut, Dispatches
<1>4. (\A n \in Nodes : Owned(q, n)) /\ Verified(q)
  BY <1>1 DEF Owned, Verified
<1>5. ASSUME Fresh(r), NEW n \in Nodes
      PROVE  /\ q.state[n] \in {"running", "done"} =>
                  /\ \A d \in Deps[n] : q.state[d] = "done"
                  /\ q.inputs[n] = Quoted(q, n)
             /\ q.state[n] = "done" => q.output[n] = q.attempt[n]
  <2>1. Quoted(q, n) = Quoted(r, n) /\ Deps[n] \subseteq Nodes
    BY ConductorAssumption DEF Quoted
  <2>2. \A d \in Deps[n] : q.state[d] = "done" <=> r.state[d] = "done"
    BY <1>1, <2>1
  <2>3. QED
    BY <1>1, <1>5, <2>1, <2>2 DEF Fresh
<1>6. whole => Fresh(q)
  BY <1>5 DEF GoodBut, Fresh
<1>7. QED
  BY <1>3, <1>4, <1>6 DEF Good, GoodBut, SameSessions

LEMMA ResumeRunGood ==
  ASSUME NEW r, NEW whole, Sound(r), Good(r, whole)
  PROVE  Good(ResumeRun(r), whole) /\ SameSessions(r, ResumeRun(r))
<1> DEFINE state == CancelledToPending(r.state)
           q == [r EXCEPT !.status = "running", !.state = state]
<1>1. /\ q.state = state /\ q.status = "running" /\ q.checks = r.checks
      /\ q.attempt = r.attempt /\ q.session = r.session /\ q.output = r.output
      /\ q.inputs = r.inputs /\ q.creating = r.creating /\ q.created = r.created
      /\ q.sending = r.sending
  <2> HIDE DEF state
  <2> QED
    BY FreshFields DEF RunType
<1>2. Sound(q)
  BY ResumeRunSound
<1>3. \A n \in Nodes : \/ state[n] = r.state[n]
                       \/ {state[n], r.state[n]} \cap {"running", "done"} = {}
  BY DEF CancelledToPending
<1>4. ResumeRun(r) = IF r.status # "paused" THEN r ELSE ScheduleReady(q)
  BY DEF ResumeRun
<1> HIDE DEF state, q
<1>5. ASSUME r.status = "paused"
      PROVE  Good(q, whole) /\ SameSessions(r, q)
  <2>1. \A s \in r.creating \cup r.sending : r.state[s[1]] = "running"
    BY <1>5 DEF Good, GoodBut, Dispatches
  <2>2. GoodBut(r, whole, Nodes) /\ \A n \in Nodes : Owned(r, n)
    BY GoodIsGoodBut DEF Good, GoodBut
  <2>3. \A n \in Nodes : \/ q.state[n] = r.state[n]
                         \/ {q.state[n], r.state[n]} \cap {"running", "done"} = {}
    BY <1>1, <1>3
  <2>4. QED
    BY <1>1, <2>1, <2>2, <2>3, IdleNodesGood
<1>6. r.status = "paused" => Good(ScheduleReady(q), whole) /\ SameSessions(q, ScheduleReady(q))
  BY <1>2, <1>5, ScheduleReadyGood
<1>7. QED
  BY <1>4, <1>5, <1>6 DEF SameSessions

LEMMA StopRunGood ==
  ASSUME NEW r, NEW whole, Sound(r), Good(r, whole)
  PROVE  Good(StopRun(r), whole) /\ SameSessions(r, StopRun(r))
<1> DEFINE Cancel(f) == [n \in Nodes |-> IF n \in RunningNodes(r) THEN "cancelled" ELSE f[n]]
           state    == Cancel(r.state)
           logState == Cancel(r.logState)
           f == Finish(r, "stopped")
           q == [f EXCEPT !.state = state, !.logState = logState, !.inFlight = 0]
<1>1. StopRun(r) = IF r.status \in Terminal THEN r ELSE q
  BY Zenon DEF StopRun
<1>2. \A n \in Nodes : state[n] = IF r.state[n] = "running" THEN "cancelled" ELSE r.state[n]
  BY DEF RunningNodes
<1>3. /\ q.state = state /\ q.status = "stopped" /\ q.checks = r.checks
      /\ q.attempt = r.attempt /\ q.session = r.session /\ q.output = r.output
      /\ q.inputs = r.inputs /\ q.creating = r.creating /\ q.created = r.created
      /\ q.sending = r.sending
  <2> HIDE DEF state, logState
  <2> QED
    BY FreshFields DEF Finish, RunType
<1> HIDE DEF state, logState, f, q
<1>4. \A s \in r.creating \cup r.sending : s[1] \in Nodes
  <2>1. r.creating \in SUBSET Sessions /\ r.sending \in SUBSET Sessions
    BY FreshFields
  <2>2. QED
    BY <2>1 DEF Sessions
<1>5. ASSUME r.status \notin Terminal
      PROVE  Good(q, whole) /\ SameSessions(r, q)
  <2>1. Dispatches(r)
    BY DEF Good, GoodBut
  <2>2. \A s \in r.creating \cup r.sending : q.state[s[1]] = "cancelled" /\ s[2] = q.attempt[s[1]]
    <3>1. r.status # "stopped"
      BY <1>5 DEF Terminal
    <3>2. QED
      BY <1>2, <1>3, <1>4, <2>1, <3>1 DEF Dispatches
  <2>3. Dispatches(q)
    BY <1>3, <2>1, <2>2 DEF Dispatches
  <2>4. (\A n \in Nodes : Owned(q, n)) /\ Verified(q)
    BY <1>2, <1>3 DEF Owned, Verified
  <2>5. ASSUME Fresh(r), NEW n \in Nodes
        PROVE  /\ q.state[n] \in {"running", "done"} =>
                    /\ \A d \in Deps[n] : q.state[d] = "done"
                    /\ q.inputs[n] = Quoted(q, n)
               /\ q.state[n] = "done" => q.output[n] = q.attempt[n]
    <3>1. Quoted(q, n) = Quoted(r, n) /\ Deps[n] \subseteq Nodes
      BY <1>3, ConductorAssumption DEF Quoted
    <3>2. \A d \in Deps[n] : r.state[d] = "done" => q.state[d] = "done"
      BY <1>2, <1>3, <3>1
    <3>3. q.state[n] \in {"running", "done"} => r.state[n] = "done"
      BY <1>2, <1>3
    <3>4. r.state[n] = "done" =>
            /\ \A d \in Deps[n] : r.state[d] = "done"
            /\ r.inputs[n] = Quoted(r, n)
            /\ r.output[n] = r.attempt[n]
      BY <2>5 DEF Fresh
    <3>5. QED
      BY <1>3, <3>1, <3>2, <3>3, <3>4
  <2>6. whole => Fresh(q)
    BY <2>5 DEF Good, GoodBut, Fresh
  <2>7. QED
    BY <1>3, <2>3, <2>4, <2>6 DEF Good, GoodBut, SameSessions
<1>6. QED
  BY <1>1, <1>5 DEF SameSessions

(* After a crash nothing is under way. *)
AtRestAfterCrash(r) == r.creating = {} /\ r.sending = {} /\ BagToSet(r.checks) = {}

LEMMA LostGood ==
  ASSUME NEW r, NEW whole, Sound(r), Good(r, whole)
  PROVE  GoodBut(Lost(r), FALSE, Nodes) /\ AtRestAfterCrash(Lost(r))
<1> DEFINE q == Lost(r)
<1>1. /\ q.creating = {} /\ q.sending = {} /\ q.checks = EmptyBag
      /\ q.created = r.created /\ q.attempt = r.attempt /\ q.state = r.state
      /\ q.status = r.status /\ q.verified = r.verified /\ q.output = r.output
  BY FreshFields DEF Lost, RunType
<1>2. BagToSet(EmptyBag) = {}
  BY DEF BagToSet, EmptyBag, SetToBag
<1> HIDE DEF q
<1>3. AtRestAfterCrash(q)
  BY <1>1, <1>2 DEF AtRestAfterCrash
<1>4. Dispatches(q)
  <2>1. \A s \in r.created : s[2] <= r.attempt[s[1]]
    BY DEF Good, GoodBut, Dispatches
  <2>2. QED
    BY <1>1, <1>2, <2>1 DEF Dispatches
<1>5. Verified(q)
  BY <1>1 DEF Good, GoodBut, Verified
<1>6. QED
  BY <1>3, <1>4, <1>5 DEF q, GoodBut

LEMMA HydrateGood ==
  ASSUME NEW r, Sound(r), GoodBut(r, FALSE, Nodes), AtRestAfterCrash(r)
  PROVE  /\ Good(ScheduleReady(Hydrate(r)), FALSE)
         /\ SameSessions(r, ScheduleReady(Hydrate(r)))
<1> DEFINE state  == CancelledToPending(r.logState)
           nobody == [n \in Nodes |-> FALSE]
           q      == Hydrate(r)
<1>1. q = [r EXCEPT !.status = "running", !.settled = FALSE, !.inFlight = 0,
                    !.state = state, !.waiting = nobody, !.replied = nobody,
                    !.repairsUsed = r.logFails, !.reAsks = r.logUnparsed,
                    !.lastScoped = FALSE]
  BY DEF Hydrate
<1>2. \A n \in Nodes : state[n] # "running"
  <2>1. r.logState \in [Nodes -> NodeStates \ {"running"}]
    BY DEF Sound, Typed, RunType
  <2>2. QED
    BY <2>1 DEF CancelledToPending
<1>3. Sound(q)
  BY HydrateSound
<1> HIDE DEF state, nobody, q
<1>4. /\ q.state = state /\ q.status = "running" /\ q.checks = r.checks
      /\ q.attempt = r.attempt /\ q.creating = r.creating /\ q.created = r.created
      /\ q.sending = r.sending
  BY <1>1, FreshFields DEF RunType
<1>5. Dispatches(q)
  <2>1. \A s \in r.created : s[2] <= r.attempt[s[1]]
    BY DEF GoodBut, Dispatches
  <2>2. QED
    BY <1>4, <2>1 DEF Dispatches, AtRestAfterCrash
<1>6. (\A n \in Nodes : Owned(q, n)) /\ Verified(q)
  BY <1>2, <1>4 DEF Owned, Verified
<1>7. Good(q, FALSE)
  BY <1>5, <1>6 DEF Good, GoodBut
<1>8. Good(ScheduleReady(q), FALSE) /\ SameSessions(q, ScheduleReady(q))
  BY <1>3, <1>7, ScheduleReadyGood
<1>9. QED
  BY <1>4, <1>8 DEF q, SameSessions

-----------------------------------------------------------------------------
(* Every action keeps it. *)

TurnsKnown ==
  userTurns \cup wakeTurns \cup background \subseteq run.created \ run.sending

GoodInv ==
  /\ GoodBut(run, crashes = 0, IF up THEN {} ELSE Nodes)
  /\ TurnsKnown
  /\ ~up => crashes # 0 /\ AtRestAfterCrash(run)

LEMMA InitGood == Init => GoodInv
<1> SUFFICES ASSUME Init PROVE GoodInv
  OBVIOUS
<1>1. /\ FreshRun.sending = {} /\ FreshRun.creating = {} /\ FreshRun.created = {}
      /\ FreshRun.checks = EmptyBag /\ FreshRun.status = "running"
      /\ \A n \in Nodes : FreshRun.state[n] = "pending"
  BY DEF FreshRun
<1>2. BagToSet(EmptyBag) = {}
  BY DEF BagToSet, EmptyBag, SetToBag
<1>3. Good(FreshRun, TRUE)
  BY <1>1, <1>2 DEF Good, GoodBut, Dispatches, Owned, Verified, Fresh
<1>4. Good(run, TRUE) /\ run.created = {} /\ run.sending = {}
  BY <1>1, <1>3, FreshRunSound, ScheduleReadyGood DEF Init, SameSessions
<1>5. up /\ crashes = 0 /\ TurnsKnown
  BY <1>4 DEF Init, TurnsKnown
<1>6. QED
  BY <1>4, <1>5 DEF GoodInv, Good

(* A dispatch that failed leaves nothing of its node's under way.           *)
LEMMA DispatchFailsGood ==
  ASSUME NEW r, NEW q, NEW whole, Sound(r), Good(r, whole),
         NEW s \in r.creating \cup r.sending,
         q.creating = r.creating \ {s}, q.sending = r.sending \ {s},
         q.state = r.state, q.attempt = r.attempt, q.session = r.session,
         q.output = r.output, q.inputs = r.inputs, q.created = r.created,
         q.checks = r.checks, q.status = r.status, q.verified = r.verified
  PROVE  /\ s[1] \in Nodes
         /\ GoodBut(q, whole, {s[1]})
         /\ Undispatched(q, s[1])
         /\ q.state[s[1]] # "done"
<1>1. r.creating \in SUBSET Sessions /\ r.sending \in SUBSET Sessions
  BY FreshFields
<1>2. \A t \in r.creating \cup r.sending : t = <<t[1], t[2]>> /\ t[1] \in Nodes
  BY <1>1 DEF Sessions
<1>3. Dispatches(r) /\ (\A n \in Nodes : Owned(r, n)) /\ Verified(r) /\ (whole => Fresh(r))
  BY DEF Good, GoodBut
<1>4. Undispatched(q, s[1])
  <2> SUFFICES ASSUME NEW t \in q.creating \cup q.sending, t[1] = s[1] PROVE FALSE
    BY DEF Undispatched
  <2>1. t \in r.creating \cup r.sending /\ t # s
    OBVIOUS
  <2>2. t[2] = s[2]
    BY <1>3, <2>1 DEF Dispatches
  <2>3. t = <<t[1], t[2]>> /\ s = <<s[1], s[2]>>
    BY <1>2, <2>1
  <2>4. QED
    BY <2>1, <2>2, <2>3
<1>5. Dispatches(q)
  BY <1>3 DEF Dispatches
<1>6. \A n \in Nodes \ {s[1]} : Owned(q, n)
  BY <1>3 DEF Owned
<1>7. Verified(q) /\ (whole => Fresh(q))
  BY <1>3 DEF Verified, Fresh, Quoted
<1>8. q.state[s[1]] # "done"
  BY <1>3 DEF Dispatches
<1>9. QED
  BY <1>2, <1>4, <1>5, <1>6, <1>7, <1>8 DEF GoodBut

LEMMA SessionCreatedGood ==
  ASSUME NEW r, NEW whole, Sound(r), Good(r, whole), NEW s \in r.creating
  PROVE  LET q == [r EXCEPT !.creating = @ \ {s}, !.sending = @ \cup {s},
                            !.created = @ \cup {s}, !.session[s[1]] = s[2]]
         IN  /\ Good(q, whole)
             /\ r.created \ r.sending \subseteq q.created \ q.sending
<1> DEFINE session == [r.session EXCEPT ![s[1]] = s[2]]
           q == [r EXCEPT !.creating = @ \ {s}, !.sending = @ \cup {s},
                          !.created = @ \cup {s}, !.session = session]
<1>1. /\ q.creating = r.creating \ {s} /\ q.sending = r.sending \cup {s}
      /\ q.created = r.created \cup {s} /\ q.session = session
      /\ q.state = r.state /\ q.attempt = r.attempt /\ q.output = r.output
      /\ q.inputs = r.inputs /\ q.checks = r.checks /\ q.status = r.status
      /\ q.verified = r.verified
  <2> HIDE DEF session
  <2> QED
    BY FreshFields DEF RunType
<1>2. s \in Sessions /\ s[1] \in Nodes /\ s[2] \in Nat /\ r.session \in [Nodes -> Nat]
  <2>1. s \in Sessions /\ r.session \in [Nodes -> Nat]
    BY FreshFields
  <2>2. QED
    BY <2>1 DEF Sessions
<1>3. session[s[1]] = s[2] /\ \A n \in Nodes \ {s[1]} : session[n] = r.session[n]
  BY <1>2
<1> HIDE DEF q, session
<1>4. Dispatches(r) /\ (\A n \in Nodes : Owned(r, n)) /\ Verified(r) /\ (whole => Fresh(r))
  BY DEF Good, GoodBut
<1>5. s[2] = r.attempt[s[1]] /\ s \notin r.created
  BY <1>4 DEF Dispatches
<1>6. Dispatches(q)
  <2>1. \A t \in q.created : t[2] <= q.attempt[t[1]]
    BY <1>1, <1>2, <1>4, <1>5 DEF Dispatches
  <2>2. q.creating \cup q.sending = r.creating \cup r.sending
    BY <1>1
  <2>3. BagToSet(q.checks) \subseteq q.created \ q.sending
    BY <1>1, <1>4, <1>5 DEF Dispatches
  <2>4. QED
    BY <1>1, <1>4, <1>5, <2>1, <2>2, <2>3 DEF Dispatches
<1>7. ASSUME NEW n \in Nodes
      PROVE  Owned(q, n)
  <2>1. CASE n = s[1]
    BY <1>1, <1>3, <1>5, <2>1 DEF Owned
  <2>2. CASE n # s[1]
    BY <1>1, <1>3, <1>4, <2>2 DEF Owned
  <2>3. QED
    BY <2>1, <2>2
<1>8. Verified(q) /\ (whole => Fresh(q))
  BY <1>1, <1>4 DEF Verified, Fresh, Quoted
<1>9. Good(q, whole) /\ r.created \ r.sending \subseteq q.created \ q.sending
  BY <1>1, <1>5, <1>6, <1>7, <1>8 DEF Good, GoodBut
<1>10. QED
  BY <1>9 DEF q, session

LEMMA DispatchGood ==
  ASSUME SoundInv, Good(run, crashes = 0), TurnsKnown, DispatchProceeds
  PROVE  Good(run', crashes' = 0) /\ TurnsKnown' /\ up' = up
<1>0. Sound(run)
  BY DEF SoundInv
<1>1. ASSUME NEW s \in run.creating, SessionCreated(s)
      PROVE  Good(run', crashes' = 0) /\ TurnsKnown' /\ up' = up
  <2>1. Good(run', crashes = 0) /\ run.created \ run.sending \subseteq run'.created \ run'.sending
    BY <1>0, <1>1, SessionCreatedGood DEF SessionCreated
  <2>2. QED
    BY <1>1, <2>1 DEF SessionCreated, TurnsKnown
<1>2. ASSUME NEW s \in run.creating, SessionRefused(s)
      PROVE  Good(run', crashes' = 0) /\ TurnsKnown' /\ up' = up
  <2> DEFINE q == [run EXCEPT !.creating = @ \ {s}]
  <2>1. Sound(q)
    BY <1>0, CreatingSound
  <2>2. /\ q.creating = run.creating \ {s} /\ q.sending = run.sending \ {s}
        /\ q.state = run.state /\ q.attempt = run.attempt /\ q.session = run.session
        /\ q.output = run.output /\ q.inputs = run.inputs /\ q.created = run.created
        /\ q.checks = run.checks /\ q.status = run.status /\ q.verified = run.verified
    <3>1. s \notin run.sending
      BY DEF Good, GoodBut, Dispatches
    <3>2. QED
      BY <1>0, <3>1, FreshFields DEF RunType
  <2>3. run' = FailNode(q, s[1])
    BY <1>2 DEF SessionRefused
  <2> HIDE DEF q
  <2>4. /\ s[1] \in Nodes /\ GoodBut(q, crashes = 0, {s[1]})
        /\ Undispatched(q, s[1]) /\ q.state[s[1]] # "done"
    <3> DEFINE whole == crashes = 0
    <3>1. s \in run.creating \cup run.sending /\ Good(run, whole)
      OBVIOUS
    <3>2. s[1] \in Nodes /\ GoodBut(q, whole, {s[1]}) /\ Undispatched(q, s[1]) /\ q.state[s[1]] # "done"
      <4> HIDE DEF whole
      <4> QED
        BY <1>0, <2>2, <3>1, DispatchFailsGood
    <3>3. QED
      BY <3>2
  <2>5. Good(run', crashes = 0) /\ SameSessions(q, run')
    BY <2>1, <2>3, <2>4, FailNodeGood
  <2>6. QED
    BY <1>2, <2>2, <2>5 DEF SessionRefused, TurnsKnown, SameSessions
<1>3. ASSUME NEW s \in run.sending, PromptSent(s)
      PROVE  Good(run', crashes' = 0) /\ TurnsKnown' /\ up' = up
  <2>1. /\ run'.creating = run.creating /\ run'.sending = run.sending \ {s}
        /\ run'.state = run.state /\ run'.attempt = run.attempt /\ run'.session = run.session
        /\ run'.output = run.output /\ run'.inputs = run.inputs /\ run'.created = run.created
        /\ run'.checks = run.checks /\ run'.status = run.status
        /\ run'.verified = run.verified
    BY <1>0, <1>3, FreshFields DEF PromptSent, RunType
  <2>2. s \in run.created
    BY DEF Good, GoodBut, Dispatches
  <2>3. Dispatches(run')
    BY <2>1 DEF Good, GoodBut, Dispatches
  <2>4. (\A n \in Nodes : Owned(run', n)) /\ Verified(run')
    BY <2>1 DEF Good, GoodBut, Owned, Verified
  <2>5. crashes = 0 => Fresh(run')
    BY <2>1 DEF Good, GoodBut, Fresh, Quoted
  <2>6. Good(run', crashes = 0)
    BY <2>3, <2>4, <2>5 DEF Good, GoodBut
  <2>7. QED
    BY <1>3, <2>1, <2>2, <2>6 DEF PromptSent, BeginUserTurn, TurnsKnown
<1>4. ASSUME NEW s \in run.sending, PromptRejected(s)
      PROVE  Good(run', crashes' = 0) /\ TurnsKnown' /\ up' = up
  <2> DEFINE q == [run EXCEPT !.sending = @ \ {s}]
  <2>1. Sound(q)
    BY <1>0, SendingSound
  <2>2. /\ q.creating = run.creating \ {s} /\ q.sending = run.sending \ {s}
        /\ q.state = run.state /\ q.attempt = run.attempt /\ q.session = run.session
        /\ q.output = run.output /\ q.inputs = run.inputs /\ q.created = run.created
        /\ q.checks = run.checks /\ q.status = run.status /\ q.verified = run.verified
    <3>1. s \notin run.creating
      BY DEF Good, GoodBut, Dispatches
    <3>2. QED
      BY <1>0, <3>1, FreshFields DEF RunType
  <2>3. run' = FailNode(q, s[1])
    BY <1>4 DEF PromptRejected
  <2> HIDE DEF q
  <2>4. /\ s[1] \in Nodes /\ GoodBut(q, crashes = 0, {s[1]})
        /\ Undispatched(q, s[1]) /\ q.state[s[1]] # "done"
    <3> DEFINE whole == crashes = 0
    <3>1. s \in run.creating \cup run.sending /\ Good(run, whole)
      OBVIOUS
    <3>2. s[1] \in Nodes /\ GoodBut(q, whole, {s[1]}) /\ Undispatched(q, s[1]) /\ q.state[s[1]] # "done"
      <4> HIDE DEF whole
      <4> QED
        BY <1>0, <2>2, <3>1, DispatchFailsGood
    <3>3. QED
      BY <3>2
  <2>5. Good(run', crashes = 0) /\ SameSessions(q, run')
    BY <2>1, <2>3, <2>4, FailNodeGood
  <2>6. QED
    BY <1>4, <2>2, <2>5 DEF PromptRejected, TurnsKnown, SameSessions
<1>5. QED
  BY <1>1, <1>2, <1>3, <1>4 DEF DispatchProceeds

LEMMA SessionsGood ==
  ASSUME QuietWindows, SoundInv, Good(run, crashes = 0), TurnsKnown, SessionsProceed
  PROVE  Good(run', crashes' = 0) /\ TurnsKnown' /\ up' = up
<1>0. Sound(run)
  BY DEF SoundInv
<1>1. ASSUME NEW s \in userTurns \cup wakeTurns,
             NEW reason \in {"complete", "interrupted", "error"},
             NEW reply \in BOOLEAN, NEW launched \in BOOLEAN, NEW over \in BOOLEAN,
             TurnEnds(s, reason, reply, launched, over)
      PROVE  Good(run', crashes' = 0) /\ TurnsKnown' /\ up' = up
  <2> DEFINE e == [reason |-> reason, reply |-> reply, background |-> s \in background',
                   fromUser |-> s \in userTurns, over |-> over]
  <2>1. s \in Sessions /\ e \in Completions /\ s \in run.created \ run.sending
    BY DEF SoundInv, EnvironmentOK, Completions, TurnsKnown
  <2>2. run' = OnSessionComplete(run, s, e) /\ \A t \in run.creating : t[1] # s[1]
    BY <1>1 DEF TurnEnds, Undisturbed
  <2>3. Good(run', crashes = 0) /\ SameSessions(run, run')
    <3> HIDE DEF e
    <3> QED
      BY <1>0, <2>1, <2>2, OnSessionCompleteGood
  <2>4. QED
    BY <1>1, <2>1, <2>3 DEF TurnEnds, TurnsKnown, SameSessions
<1>2. ASSUME NEW s \in background, BackgroundEnds(s)
      PROVE  Good(run', crashes' = 0) /\ TurnsKnown' /\ up' = up
  BY <1>2 DEF BackgroundEnds, TurnsKnown
<1>3. ASSUME NEW s \in BagToSet(run.checks), NEW finished \in BOOLEAN,
             OutcomeAnswered(s, finished)
      PROVE  Good(run', crashes' = 0) /\ TurnsKnown' /\ up' = up
  <2>1. s \in Sessions
    BY <1>0 DEF Sound, Typed, Bagged
  <2>2. run' = OutcomeKnown(run, s, finished) /\ \A t \in run.creating : t[1] # s[1]
    BY <1>3 DEF OutcomeAnswered, Undisturbed
  <2>3. Good(run', crashes = 0) /\ SameSessions(run, run')
    BY <1>0, <2>1, <2>2, OutcomeKnownGood
  <2>4. QED
    BY <1>3, <2>3 DEF OutcomeAnswered, TurnsKnown, SameSessions
<1>4. (IF HasBudget THEN {run.overBudget, TRUE} ELSE {FALSE}) \subseteq BOOLEAN
  BY <1>0, SoundFields
<1>5. QED
  BY <1>1, <1>2, <1>3, <1>4 DEF SessionsProceed, SomeTurnEnds

LEMMA VerificationGood ==
  ASSUME QuietWindows, SoundInv, Good(run, crashes = 0), TurnsKnown, VerificationProceeds
  PROVE  Good(run', crashes' = 0) /\ TurnsKnown' /\ up' = up
<1>0. Sound(run)
  BY DEF SoundInv
<1>1. SUFFICES /\ Good(run', crashes = 0) /\ SameSessions(run, run')
               /\ UNCHANGED <<up, userTurns, wakeTurns, background, crashes>>
  BY DEF TurnsKnown, SameSessions
<1>2. UNCHANGED <<up, userTurns, wakeTurns, background, crashes>>
  BY DEF VerificationProceeds, AskSent, AskFails, OrchestratorBackgroundEnds,
         SomeOrchestratorTurnEnds, OrchestratorTurnEnds, VerdictClassified, RepairNarrowed
<1>3. CASE AskSent
  <2>1. Untouched(run, run')
    BY <1>0, <1>3, FreshFields DEF AskSent, RunType, Untouched, SameWork
  <2>2. QED
    BY <1>2, <2>1, UntouchedGood DEF Untouched
<1>4. CASE AskFails
  BY <1>0, <1>2, <1>4, AskRejectedGood DEF AskFails
<1>5. CASE OrchestratorBackgroundEnds
  BY <1>2, <1>5 DEF OrchestratorBackgroundEnds, SameSessions
<1>6. ASSUME NEW interrupted \in BOOLEAN, NEW launched \in BOOLEAN, NEW v \in Verdicts,
             OrchestratorTurnEnds(interrupted, launched, v)
      PROVE  Good(run', crashes = 0) /\ SameSessions(run, run')
  <2> DEFINE e == [reason |-> IF interrupted THEN "interrupted" ELSE "complete",
                   background |-> orchestrator.background \/ launched, verdict |-> v]
  <2>1. e \in Answers
    BY DEF Answers
  <2>2. run' = OnOrchestratorComplete(run, e)
    BY <1>6 DEF OrchestratorTurnEnds
  <2>3. QED
    <3> HIDE DEF e
    <3> QED
      BY <1>0, <2>1, <2>2, OnOrchestratorCompleteGood
<1>7. ASSUME NEW v \in Verdicts, VerdictClassified(v)
      PROVE  Good(run', crashes = 0) /\ SameSessions(run, run')
  BY <1>0, <1>7, VerdictDecidedGood DEF VerdictClassified
<1>8. ASSUME NEW names \in SUBSET Nodes, RepairNarrowed(names)
      PROVE  Good(run', crashes = 0) /\ SameSessions(run, run')
  BY <1>0, <1>8, RepairScopedGood DEF RepairNarrowed
<1>9. QED
  BY <1>2, <1>3, <1>4, <1>5, <1>6, <1>7, <1>8
     DEF VerificationProceeds, SomeOrchestratorTurnEnds

LEMMA CommandsGood ==
  ASSUME QuietWindows, SoundInv, Good(run, crashes = 0), TurnsKnown, Commands
  PROVE  Good(run', crashes' = 0) /\ TurnsKnown' /\ up' = up
<1>0. Sound(run)
  BY DEF SoundInv
<1>1. ASSUME NEW s \in run.created, UserMessage(s)
      PROVE  Good(run', crashes' = 0) /\ TurnsKnown' /\ up' = up
  <2>1. s \notin run.sending /\ userTurns' = userTurns \cup {s} /\ wakeTurns' = wakeTurns \ {s}
    BY <1>1 DEF UserMessage, BeginUserTurn
  <2>2. QED
    BY <1>1, <2>1 DEF UserMessage, TurnsKnown
<1>2. CASE UserAsksOrchestrator
  BY <1>2 DEF UserAsksOrchestrator, TurnsKnown
<1>3. CASE Pause
  <2>1. Good(run', crashes = 0) /\ SameSessions(run, run')
    BY <1>0, <1>3, PauseRunGood DEF Pause
  <2>2. QED
    BY <1>3, <2>1 DEF Pause, TurnsKnown, SameSessions
<1>4. CASE Resume
  <2>1. Good(run', crashes = 0) /\ SameSessions(run, run')
    BY <1>0, <1>4, ResumeRunGood DEF Resume
  <2>2. QED
    BY <1>4, <2>1 DEF Resume, TurnsKnown, SameSessions
<1>5. CASE Stop
  <2>1. Good(run', crashes = 0) /\ SameSessions(run, run')
    BY <1>0, <1>5, StopRunGood DEF Stop
  <2>2. userTurns' \subseteq userTurns /\ wakeTurns' \subseteq wakeTurns
    <3> DEFINE cancelled == {<<n, run.session[n]>> : n \in RunningNodes(run)}
    <3>1. userTurns' = userTurns \ cancelled /\ wakeTurns' = wakeTurns \ cancelled
      BY <1>5 DEF Stop
    <3>2. QED
      <4> HIDE DEF cancelled
      <4> QED
        BY <3>1
  <2>3. QED
    BY <1>5, <2>1, <2>2 DEF Stop, TurnsKnown, SameSessions
<1>6. QED
  BY <1>1, <1>2, <1>3, <1>4, <1>5 DEF Commands

LEMMA StepGood ==
  ASSUME QuietWindows, SoundInv, GoodInv, [Next]_vars
  PROVE  GoodInv'
<1>0. Sound(run) /\ crashes \in Nat
  BY DEF SoundInv, EnvironmentOK
<1>1. CASE up /\ (DispatchProceeds \/ SessionsProceed \/ VerificationProceeds \/ Commands)
  <2>1. Good(run, crashes = 0) /\ TurnsKnown
    BY <1>1 DEF GoodInv, Good
  <2>2. Good(run', crashes' = 0) /\ TurnsKnown' /\ up' = up
    BY <1>1, <2>1, DispatchGood, SessionsGood, VerificationGood, CommandsGood
  <2>3. QED
    BY <1>1, <2>2 DEF GoodInv, Good
<1>2. CASE up /\ Crash
  <2>1. ~up' /\ run' = Lost(run) /\ crashes' = crashes + 1 /\ TurnsKnown'
    BY <1>2 DEF Crash, TurnsKnown
  <2>2. crashes' # 0
    BY <1>0, <2>1
  <2>3. Good(run, crashes = 0)
    BY <1>2 DEF GoodInv, Good
  <2>4. GoodBut(run', FALSE, Nodes) /\ AtRestAfterCrash(run')
    BY <1>0, <2>1, <2>3, LostGood
  <2>5. GoodBut(run', crashes' = 0, Nodes)
    BY <2>2, <2>4 DEF GoodBut
  <2>6. QED
    BY <2>1, <2>2, <2>4, <2>5 DEF GoodInv
<1>3. CASE Rehydrate
  <2>1. /\ ~up /\ up' /\ run' = ScheduleReady(Hydrate(run)) /\ crashes' = crashes
        /\ UNCHANGED <<userTurns, wakeTurns, background>>
    BY <1>3 DEF Rehydrate
  <2>2. crashes # 0 /\ AtRestAfterCrash(run) /\ TurnsKnown /\ GoodBut(run, FALSE, Nodes)
    BY <2>1 DEF GoodInv, GoodBut
  <2>3. Good(run', FALSE) /\ SameSessions(run, run')
    BY <1>0, <2>1, <2>2, HydrateGood
  <2>4. Good(run', crashes' = 0)
    BY <2>1, <2>2, <2>3 DEF Good, GoodBut
  <2>5. TurnsKnown'
    BY <2>1, <2>2, <2>3 DEF TurnsKnown, SameSessions
  <2>6. QED
    BY <2>1, <2>4, <2>5 DEF GoodInv, Good
<1>4. CASE UNCHANGED vars
  BY <1>4 DEF GoodInv, TurnsKnown, vars
<1>5. QED
  BY <1>1, <1>2, <1>3, <1>4 DEF Next, AtRest

LEMMA GoodInvHolds ==
  ASSUME QuietWindows
  PROVE  Spec => []GoodInv
<1>1. SoundInv /\ GoodInv /\ [Next]_vars => GoodInv'
  BY StepGood
<1>2. QED
  BY <1>1, InitGood, SoundInvHolds, PTL DEF Spec

(* Unless the process crashed, and as long as nobody acts on a node while   *)
(* its next session is being created: markRunning, completions, retries and *)
(* repair passes, in any order, never leave a step running or done that     *)
(* quotes an output since replaced, or an output of an earlier attempt.     *)
THEOREM NoStaleResults ==
  ASSUME QuietWindows
  PROVE  Spec => [](crashes = 0 => ResultsFresh)
<1>1. GoodInv => (crashes = 0 => ResultsFresh)
  BY DEF GoodInv, GoodBut, Fresh, ResultsFresh
<1>2. QED
  BY <1>1, GoodInvHolds, PTL

(* In the same windows, and whether or not the process crashed: a run that  *)
(* completes has every node done, and the outputs it completes with are the *)
(* ones the orchestrator was asked to verify.                               *)
THEOREM CompletesAsVerified ==
  ASSUME QuietWindows
  PROVE  Spec => []CompletedAsVerified
<1>1. GoodInv => CompletedAsVerified
  BY DEF GoodInv, GoodBut, Verified, CompletedAsVerified
<1>2. QED
  BY <1>1, GoodInvHolds, PTL
==============================================================================

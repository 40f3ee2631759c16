------------------------------ MODULE SessionTurns ------------------------------
(***************************************************************************)
(* The turns of one session (SessionManager): messages are sent, steered   *)
(* into the running turn or queued, replayed, stopped, handed to the user, *)
(* retried after an expired login, and every end of a turn is reported.    *)
(*                                                                         *)
(* sendMessage and onProcessingStopped are asynchronous, and both read the *)
(* session again after their awaits: an action is what runs between two.   *)
(* The backend is Claude's, whose steers wait for the next tool call; the  *)
(* decision model's say in mid-turn messages is off.  Whether the message  *)
(* of an accepted send survives a crash is SessionPersistence's matter.    *)
(***************************************************************************)
EXTENDS Naturals, Sequences, FiniteSets, FiniteSetsExt, SequencesExt, Picking

CONSTANTS
  MaxMessages,  \* bound: messages ever sent
  Texts,        \* the plain-text ones, which may be steered into a turn
  Nudges,       \* the hidden ones the application sends itself
  Recovered,    \* those found queued when the session is loaded from disk
  Overlap,      \* a message may be sent while another is being taken in
  Mishaps,      \* what may happen to turns: a subset of MishapKinds
  MaxMishaps    \* bound: how often

Messages == 1 .. MaxMessages

MishapKinds == {"stop", "slow", "handoff", "auth", "error", "setup", "delete"}

ASSUME SessionTurnsAssumption ==
  /\ MaxMessages \in Nat /\ MaxMishaps \in Nat /\ Overlap \in BOOLEAN
  /\ Texts \subseteq Messages /\ Nudges \subseteq Messages \ Texts /\ Recovered \subseteq Messages
  /\ Mishaps \subseteq MishapKinds

VARIABLES
  session,     \* the scalar fields of ManagedSession
  queue,       \* messageQueue
  accepted,    \* acceptedSteers
  transcript,  \* the user bubbles of each message among managed.messages
  agent,       \* the backend: the turn that owns its steers, and its pending ones
  calls,       \* the last sendMessage call of each message
  ends,        \* the onProcessingStopped calls under way
  delivered,   \* how often each message reached the model
  history,     \* what the properties speak about: messages answered and withdrawn
  report,      \* the last SessionCompletionEvent
  timers,      \* the timers of Stop
  left,        \* calls a retry has replaced that are still under way
  mishaps      \* how many mishaps there were

vars == <<session, queue, accepted, transcript, agent, calls, ends, delivered, history, report, timers, left, mishaps>>

(* A call: not made yet; entered, up to the first look at isProcessing; its  *)
(* bubble being persisted; preparing the agent; consuming the turn; told     *)
(* that the turn is over; returned.                                          *)
Stages == {"unsent", "entered", "persisting", "preparing", "running", "winding", "returned"}

Call(stage, replay, auth) ==
  [stage |-> stage, replay |-> replay, auth |-> auth, gen |-> 0, epoch |-> 0, seen |-> 0]

NoAgent == [exists |-> FALSE, turn |-> 0, active |-> FALSE, pending |-> <<>>]

Mishap(k) == k \in Mishaps /\ mishaps < MaxMishaps /\ mishaps' = mishaps + 1

Returned(m) == calls' = [calls EXCEPT ![m].stage = "returned"]
Current(m) == calls[m].gen = session.gen
-----------------------------------------------------------------------------
(* Queued messages and steers. *)

(* A new bubble comes after every other. *)
Pushed(m, queued) ==
  LET last == Max({transcript[n].pos : n \in Messages} \cup {0})
  IN  [transcript EXCEPT ![m] = [bubbles |-> @.bubbles + 1, pos |-> last + 1, queued |-> queued]]

(* Mutant of Requeue: a recovered steer goes behind what is queued. *)
RequeueLast(q, m) == Append(q, m)

(* recoverUndeliveredSteer puts a steer back where it arrived. *)
Requeue(q, m) ==
  LET later == {i \in DOMAIN q : transcript[q[i]].pos > transcript[m].pos}
  IN  IF later = {} THEN Append(q, m) ELSE InsertAt(q, Min(later), m)

(* Accepted steers the backend still holds, and what becomes of them: the    *)
(* queue once the first k pending ones were looked at, and all of them.      *)
Undelivered == ToSet(agent.pending) \cap accepted

LookedAt[k \in 0 .. Len(agent.pending)] ==
  IF k = 0 THEN queue
  ELSE IF agent.pending[k] \in accepted THEN Requeue(LookedAt[k - 1], agent.pending[k])
  ELSE LookedAt[k - 1]

Recovery == LookedAt[Len(agent.pending)]

QueuedAgain == [m \in Messages |-> [transcript[m] EXCEPT !.queued = @ \/ m \in Undelivered]]

(* Mutant of Paused: the steers handed over stay with the backend. *)
PausedKeeping == [agent EXCEPT !.active = FALSE]

(* pause, after everything pending was taken. *)
Paused == [agent EXCEPT !.active = FALSE, !.pending = <<>>]

(* processNextQueuedMessage, in session s; a replay is another sendMessage. *)
ProcessNext(s) ==
  IF queue = <<>> \/ s.deleted
  THEN session' = s /\ UNCHANGED <<queue, transcript, calls>>
  ELSE /\ queue' = Tail(queue)
       /\ transcript' = [transcript EXCEPT ![Head(queue)].queued = FALSE]
       /\ calls' = [calls EXCEPT ![Head(queue)] = Call("entered", TRUE, FALSE)]
       /\ session' = [s EXCEPT !.fromUser = Head(queue) \notin Nudges]
-----------------------------------------------------------------------------
(* The end of a turn. *)

(* onProcessingStopped, up to its first await. *)
Ended(reason) ==
  IF session.deleted
  THEN UNCHANGED <<session, accepted, ends>>
  ELSE /\ session' = [session EXCEPT !.processing = FALSE, !.stopRequested = FALSE]
       /\ accepted' = {}
       /\ ends' = Append(ends, [reason |-> reason, gen |-> session.gen, checked |-> FALSE])

(* Mutant of EndChecksQueue: nobody looks at the queue. *)
EndForgetsQueue(i) ==
  /\ ~ends[i].checked
  /\ ends' = [ends EXCEPT ![i].checked = TRUE] /\ UNCHANGED <<queue, transcript, calls, session>>
  /\ UNCHANGED <<accepted, agent, delivered, history, report, mishaps, timers, left>>

(* Browser, unread flag and metadata are seen to; then the queue is looked at. *)
EndChecksQueue(i) ==
  /\ ~ends[i].checked
  /\ IF queue # <<>>
     THEN ends' = RemoveAt(ends, i) /\ ProcessNext(session)
     ELSE ends' = [ends EXCEPT ![i].checked = TRUE] /\ UNCHANGED <<queue, transcript, calls, session>>
  /\ UNCHANGED <<accepted, agent, delivered, history, report, mishaps, timers, left>>

(* The browser is released, and the completion is emitted. *)
EndReports(i) ==
  /\ ends[i].checked
  /\ ends' = RemoveAt(ends, i)
  /\ report' = [number |-> report.number + 1, reason |-> ends[i].reason, gen |-> ends[i].gen,
                fromUser |-> session.fromUser]
  /\ UNCHANGED <<session, queue, accepted, transcript, agent, calls, delivered, history, mishaps, timers, left>>
-----------------------------------------------------------------------------
(* sendMessage. *)

(* Without Overlap a message is taken in at once, and none comes while the   *)
(* end of a turn is under way or a retry is about to begin.                  *)
Ready == Overlap \/ \A m \in Messages : calls[m].stage \notin {"entered", "persisting"}
Free == Ready /\ (Overlap \/ ~session.retrying)

(* Mutant of Send: what the application sent itself is remembered too long. *)
SendSticky(m) ==
  /\ calls[m].stage = "unsent" /\ ~session.deleted
  /\ m \in Nudges => ~session.processing
  /\ Free /\ (Overlap \/ ends = <<>>)
  /\ calls' = [calls EXCEPT ![m] = Call("entered", FALSE, FALSE)]
  /\ session' = [session EXCEPT !.fromUser = @ /\ m \notin Nudges]
  /\ UNCHANGED <<queue, accepted, transcript, agent, ends, delivered, history, report, mishaps, timers, left>>

(* Background work wakes the session only when no turn is running. *)
Send(m) ==
  /\ calls[m].stage = "unsent" /\ ~session.deleted
  /\ m \in Nudges => ~session.processing
  /\ Free /\ (Overlap \/ ends = <<>>)
  /\ calls' = [calls EXCEPT ![m] = Call("entered", FALSE, FALSE)]
  /\ session' = [session EXCEPT !.fromUser = m \notin Nudges]
  /\ UNCHANGED <<queue, accepted, transcript, agent, ends, delivered, history, report, mishaps, timers, left>>

(* ensureMessagesLoaded: for a message, or when the session is looked at.    *)
Load ==
  /\ ~session.loaded
  /\ session' = [session EXCEPT !.loaded = TRUE, !.recovering = Recovered # {} /\ ~session.processing]
  /\ queue' = queue \o Ascending(Recovered)
  /\ UNCHANGED <<accepted, transcript, agent, calls, ends, delivered, history, report, mishaps, timers, left>>

(* What was found queued is replayed in a turn of the event loop of its own. *)
Recovers ==
  /\ session.recovering
  /\ ProcessNext([session EXCEPT !.recovering = FALSE])
  /\ UNCHANGED <<accepted, agent, ends, delivered, history, report, mishaps, timers, left>>

(* A message that finds a turn running: a steer, or a queued message.  A     *)
(* replay is given another bubble.  redirect aborts a turn that takes no     *)
(* steers (any more): it ends early.                                         *)
TakenMidTurn(m) ==
  LET steered == m \in Texts /\ agent.active
  IN  /\ transcript' = Pushed(m, ~steered)
      /\ IF steered
         THEN /\ agent' = [agent EXCEPT !.pending = Append(@, m)]
              /\ accepted' = accepted \cup {m}
              /\ UNCHANGED queue
         ELSE queue' = Append(queue, m) /\ UNCHANGED <<agent, accepted>>
      /\ Returned(m)
      /\ UNCHANGED session

(* Claims the session for a turn of its own, a retry that is about to begin *)
(* or not: sendMessage does not look at authRetryInProgress.                *)
Claim(m) ==
  /\ session' = [session EXCEPT !.processing = TRUE, !.gen = @ + 1, !.lastSent = m,
                                !.retried = @ /\ calls[m].auth]
  /\ calls' = [calls EXCEPT ![m].stage = "preparing", ![m].gen = session.gen + 1,
                            ![m].epoch = session.stopEpoch]
  /\ history' = [history EXCEPT !.answers = {m}, !.waits = FALSE,
                                !.between = IF session.retrying THEN @ \cup {m} ELSE @]

(* Mutant of Checks: busy is when the backend is at work. *)
ChecksAgent(m) ==
  /\ calls[m].stage = "entered" /\ session.loaded
  /\ \/ agent.active /\ TakenMidTurn(m) /\ UNCHANGED history
     \/ /\ ~agent.active /\ calls[m].replay
        /\ Claim(m)
        /\ UNCHANGED <<queue, accepted, transcript, agent>>
     \/ /\ ~agent.active /\ ~calls[m].replay
        /\ transcript' = Pushed(m, FALSE)
        /\ calls' = [calls EXCEPT ![m].stage = "persisting", ![m].seen = session.gen]
        /\ UNCHANGED <<session, queue, accepted, agent, history>>
  /\ UNCHANGED <<ends, delivered, report, mishaps, timers, left>>

(* The first look at isProcessing; a replay needs no bubble, and claims at once. *)
Checks(m) ==
  /\ calls[m].stage = "entered" /\ session.loaded
  /\ \/ session.processing /\ TakenMidTurn(m) /\ UNCHANGED history
     \/ /\ ~session.processing /\ calls[m].replay
        /\ Claim(m)
        /\ UNCHANGED <<queue, accepted, transcript, agent>>
     \/ /\ ~session.processing /\ ~calls[m].replay
        /\ transcript' = Pushed(m, FALSE)
        /\ calls' = [calls EXCEPT ![m].stage = "persisting", ![m].seen = session.gen]
        /\ UNCHANGED <<session, queue, accepted, agent, history>>
  /\ UNCHANGED <<ends, delivered, report, mishaps, timers, left>>

(* Its bubble is on disk, and nobody looks at isProcessing again. *)
Persisted(m) ==
  /\ calls[m].stage = "persisting"
  /\ Claim(m)
  /\ UNCHANGED <<queue, accepted, transcript, agent, ends, delivered, report, mishaps, timers, left>>

(* Credentials, agent or servers cannot be set up: sendMessage rejects.  Only *)
(* the senders of a replay and of a retry take that for the end of a turn.    *)
SetupFails(m) ==
  /\ calls[m].stage = "preparing" /\ Mishap("setup")
  /\ Returned(m)
  /\ IF calls[m].replay \/ calls[m].auth THEN Ended("error") ELSE UNCHANGED <<session, accepted, ends>>
  /\ UNCHANGED <<queue, transcript, agent, delivered, history, report, timers, left>>

Stopped(m) == calls[m].epoch # session.stopEpoch

(* Mutant of StartsChat: only the turn's number is looked at. *)
StartsChatRegardless(m) ==
  /\ calls[m].stage = "preparing" /\ Current(m) /\ ~session.deleted
  /\ calls' = [calls EXCEPT ![m].stage = "running"]
  /\ queue' = Recovery /\ transcript' = QueuedAgain
  /\ accepted' = accepted \ ToSet(agent.pending)
  /\ agent' = [exists |-> TRUE, turn |-> session.gen, active |-> TRUE, pending |-> <<>>]
  /\ delivered' = [delivered EXCEPT ![m] = @ + 1]
  /\ UNCHANGED <<session, ends, history, report, mishaps, timers, left>>

(* agent.chat begins; steers nobody took back go to the queue first. *)
StartsChat(m) ==
  /\ calls[m].stage = "preparing" /\ Current(m) /\ ~Stopped(m) /\ ~session.deleted
  /\ calls' = [calls EXCEPT ![m].stage = "running"]
  /\ queue' = Recovery /\ transcript' = QueuedAgain
  /\ accepted' = accepted \ ToSet(agent.pending)
  /\ agent' = [exists |-> TRUE, turn |-> session.gen, active |-> TRUE, pending |-> <<>>]
  /\ delivered' = [delivered EXCEPT ![m] = @ + 1]
  /\ UNCHANGED <<session, ends, history, report, mishaps, timers, left>>

(* Mutant of NotStarted: nobody is told. *)
NotStartedSilently(m) ==
  /\ calls[m].stage = "preparing"
  /\ ~Current(m) \/ Stopped(m) \/ session.deleted
  /\ Returned(m)
  /\ UNCHANGED <<session, accepted, ends, queue, transcript, agent, delivered, history, report, mishaps, timers, left>>

(* Stopped, superseded or deleted meanwhile. *)
NotStarted(m) ==
  /\ calls[m].stage = "preparing"
  /\ ~Current(m) \/ Stopped(m) \/ session.deleted
  /\ Returned(m)
  /\ IF Current(m) THEN Ended("interrupted") ELSE UNCHANGED <<session, accepted, ends>>
  /\ UNCHANGED <<queue, transcript, agent, delivered, history, report, mishaps, timers, left>>

(* The model is about to use a tool, and is told what was steered in. *)
ToolBoundary ==
  /\ agent.active /\ agent.pending # <<>>
  /\ delivered' = [m \in Messages |-> IF m \in ToSet(agent.pending) THEN delivered[m] + 1 ELSE delivered[m]]
  /\ history' = [history EXCEPT !.answers = @ \cup ToSet(agent.pending)]
  /\ agent' = [agent EXCEPT !.pending = <<>>]
  /\ UNCHANGED <<session, queue, accepted, transcript, calls, ends, report, mishaps, timers, left>>

Owns(m) == agent.turn = calls[m].gen

(* A turn that is not the session's any more ends at its next event; steers  *)
(* it still held are gone.                                                   *)
Superseded(m) ==
  /\ calls[m].stage \in {"running", "winding"} /\ ~Current(m)
  /\ Returned(m)
  /\ agent' = IF Owns(m) THEN Paused ELSE agent
  /\ UNCHANGED <<session, queue, accepted, transcript, ends, delivered, history, report, mishaps, timers, left>>

(* Mutant of WindsDown: steers that met no tool call are forgotten. *)
WindsDownForgetful(m) ==
  /\ calls[m].stage = "running" /\ Current(m)
  /\ calls' = [calls EXCEPT ![m].stage = "winding"]
  /\ agent' = IF Owns(m) THEN Paused ELSE agent
  /\ UNCHANGED <<session, queue, accepted, transcript, ends, delivered, history, report, mishaps, timers, left>>

(* The model has finished; what it was steered with too late is queued. *)
WindsDown(m) ==
  /\ calls[m].stage = "running" /\ Current(m)
  /\ calls' = [calls EXCEPT ![m].stage = "winding"]
  /\ IF Owns(m)
     THEN /\ queue' = Recovery /\ transcript' = QueuedAgain
          /\ accepted' = accepted \ ToSet(agent.pending)
          /\ agent' = Paused
     ELSE UNCHANGED <<queue, transcript, accepted, agent>>
  /\ UNCHANGED <<session, ends, delivered, history, report, mishaps, timers, left>>

(* The complete event, or an iterator that ends without one.  A turn handed  *)
(* to the user or given up has an end already; while a login is retried the  *)
(* event is passed over, but not by the finally block.                       *)
Completes(m) ==
  /\ calls[m].stage = "winding" /\ Current(m)
  /\ Returned(m)
  /\ \/ ~session.processing /\ UNCHANGED <<session, accepted, ends>>
     \/ session.processing /\ Ended("interrupted")
     \/ session.processing /\ ~session.retrying /\ ~Stopped(m) /\ Ended("complete")
  /\ UNCHANGED <<queue, transcript, agent, delivered, history, report, mishaps, timers, left>>

(* agent.chat throws. *)
ChatFails(m) ==
  /\ calls[m].stage = "winding" /\ Current(m) /\ Mishap("error")
  /\ Returned(m)
  /\ Ended("error")
  /\ UNCHANGED <<queue, transcript, agent, delivered, history, report, timers, left>>

(* SubmitPlan or an auth tool: the turn is the user's now. *)
Handoff(m) ==
  /\ calls[m].stage = "running" /\ Owns(m) /\ agent.active
  /\ session.processing /\ Mishap("handoff")
  /\ queue' = Recovery /\ transcript' = QueuedAgain
  /\ accepted' = {} /\ agent' = Paused
  /\ session' = [session EXCEPT !.processing = FALSE]
  /\ history' = [history EXCEPT !.waits = TRUE]
  /\ UNCHANGED <<calls, ends, delivered, report, timers, left>>
-----------------------------------------------------------------------------
(* Mutant of AuthFails: a refusal while the agent is set up is taken for the model's. *)
AuthFailsEarly(m) ==
  /\ calls[m].stage \in {"preparing", "running"} /\ Current(m)
  /\ session.processing /\ ~session.retried /\ ~session.retrying /\ Mishap("auth")
  /\ session' = [session EXCEPT !.retried = TRUE, !.retrying = TRUE]
  /\ delivered' = [delivered EXCEPT ![m] = @ - 1]
  /\ UNCHANGED <<queue, accepted, transcript, agent, calls, ends, history, report, timers, left>>

(* An expired login: the model has refused the message, and attemptAuthRetry *)
(* retries in the next turn of the event loop; no second reply of a model    *)
(* comes as soon as that.                                                    *)
AuthFails(m) ==
  /\ calls[m].stage = "running" /\ Current(m) /\ Owns(m)
  /\ session.processing /\ ~session.retried /\ ~session.retrying /\ Mishap("auth")
  /\ session' = [session EXCEPT !.retried = TRUE, !.retrying = TRUE]
  /\ delivered' = [delivered EXCEPT ![m] = @ - 1]
  /\ UNCHANGED <<queue, accepted, transcript, agent, calls, ends, history, report, timers, left>>

(* The retry: the message sent last is sent again, by a new agent.  Whoever  *)
(* claimed the session since the refusal is sent again in the place of the   *)
(* refused message; the call that sent it goes on.                           *)
AuthRetries ==
  LET m == session.lastSent
      c == calls[m]
  IN  /\ session.retrying
      /\ queue' = Recovery
      /\ transcript' = [QueuedAgain EXCEPT ![m].bubbles = 0]
      /\ accepted' = {} /\ agent' = NoAgent
      /\ session' = [session EXCEPT !.retrying = FALSE, !.processing = FALSE]
      /\ calls' = [calls EXCEPT ![m] = Call(IF session.deleted THEN "returned" ELSE "entered", FALSE, TRUE)]
      /\ left' = IF c.stage \in {"preparing", "running", "winding"}
                 THEN left \cup {[message |-> m, started |-> c.stage # "preparing", caught |-> c.replay \/ c.auth,
                                  gen |-> c.gen, epoch |-> c.epoch]}
                 ELSE left
      /\ UNCHANGED <<ends, delivered, history, report, mishaps, timers>>

(* A replaced call begins its chat, in the new agent or the discarded one:   *)
(* its turn is the last one claimed until the retry has claimed its own.     *)
LeftStarts(c) ==
  /\ ~c.started /\ c.gen = session.gen /\ c.epoch = session.stopEpoch /\ ~session.deleted
  /\ left' = (left \ {c}) \cup {[c EXCEPT !.started = TRUE]}
  /\ delivered' = [delivered EXCEPT ![c.message] = @ + 1]
  /\ \/ /\ queue' = Recovery /\ transcript' = QueuedAgain
        /\ accepted' = accepted \ ToSet(agent.pending)
        /\ agent' = [exists |-> TRUE, turn |-> session.gen, active |-> TRUE, pending |-> <<>>]
     \/ UNCHANGED <<queue, transcript, accepted, agent>>
  /\ UNCHANGED <<session, calls, ends, history, report, mishaps, timers>>

(* It ends: thrown out of a chat or of the preparation of one, stopped, or   *)
(* unnoticed, for its session is claimed by nobody or by another turn.       *)
LeftEnds(c) ==
  /\ left' = left \ {c}
  /\ agent' = IF agent.turn = c.gen THEN Paused ELSE agent
  /\ \/ (IF c.started THEN c.gen = session.gen ELSE c.caught) /\ Ended("error")
     \/ ~c.started /\ c.gen = session.gen /\ c.epoch # session.stopEpoch /\ Ended("interrupted")
     \/ /\ c.started \/ c.gen # session.gen \/ session.deleted \/ ~c.caught
        /\ UNCHANGED <<session, accepted, ends>>
  /\ UNCHANGED <<queue, transcript, calls, delivered, history, report, mishaps, timers>>

(* cancelProcessing: queued messages go back to the input field. *)
Stop ==
  LET withdrawn == ToSet(queue) \cup Undelivered
  IN  /\ session.processing /\ ~session.deleted /\ Mishap("stop") /\ timers' = timers + 1
      /\ session' = [session EXCEPT !.stopRequested = TRUE, !.stopEpoch = @ + 1]
      /\ queue' = <<>> /\ accepted' = {} /\ agent' = Paused
      /\ transcript' = [m \in Messages |-> IF m \in withdrawn
                          THEN [bubbles |-> transcript[m].bubbles - 1, pos |-> 0, queued |-> FALSE]
                          ELSE transcript[m]]
      /\ history' = [history EXCEPT !.withdrawn = @ \cup withdrawn \cup {session.lastSent}]
      /\ UNCHANGED <<calls, ends, delivered, report, left>>

(* Five seconds after it, if the turn is "slow" to end.  An end leaves the    *)
(* timers alone.                                                              *)
StopTimesOut ==
  /\ "slow" \in Mishaps /\ timers > 0 /\ timers' = timers - 1
  /\ IF session.stopRequested /\ session.processing
     THEN Ended("timeout")
     ELSE UNCHANGED <<session, accepted, ends>>
  /\ UNCHANGED <<queue, transcript, agent, calls, delivered, history, report, mishaps, left>>

(* deleteSession, once what ran has been told to stop. *)
Delete ==
  /\ ~session.deleted /\ Mishap("delete")
  /\ session' = [session EXCEPT !.deleted = TRUE]
  /\ agent' = [agent EXCEPT !.active = FALSE]
  /\ UNCHANGED <<queue, accepted, transcript, calls, ends, delivered, history, report, timers, left>>
-----------------------------------------------------------------------------
Init ==
  /\ session = [processing |-> FALSE, gen |-> 0, stopRequested |-> FALSE, stopEpoch |-> 0,
                lastSent |-> 0, retried |-> FALSE, retrying |-> FALSE, fromUser |-> TRUE,
                deleted |-> FALSE, loaded |-> Recovered = {}, recovering |-> FALSE]
  /\ queue = <<>> /\ accepted = {} /\ agent = NoAgent /\ ends = <<>>
  /\ transcript = [m \in Messages |-> IF m \in Recovered
                     THEN [bubbles |-> 1, pos |-> m, queued |-> TRUE]
                     ELSE [bubbles |-> 0, pos |-> 0, queued |-> FALSE]]
  /\ calls = [m \in Messages |-> Call(IF m \in Recovered THEN "returned" ELSE "unsent", FALSE, FALSE)]
  /\ delivered = [m \in Messages |-> 0]
  /\ history = [answers |-> {}, withdrawn |-> {}, waits |-> FALSE, between |-> {}]
  /\ report = [number |-> 0, reason |-> "none", gen |-> 0, fromUser |-> TRUE]
  /\ timers = 0 /\ left = {} /\ mishaps = 0

TakenIn(m) == Checks(m) \/ Persisted(m)
TurnStep(m) == StartsChat(m) \/ NotStarted(m) \/ Superseded(m) \/ WindsDown(m) \/ Completes(m)
CallStep(m) == TakenIn(m) \/ (Ready /\ TurnStep(m))
LeftStep(c) == Ready /\ (LeftStarts(c) \/ LeftEnds(c))
EndStep(i) == Free /\ (EndChecksQueue(i) \/ EndReports(i))
TimerStep == (Free /\ Recovers) \/ (Ready /\ (AuthRetries \/ StopTimesOut))
Trouble(m) == SetupFails(m) \/ ChatFails(m) \/ Handoff(m) \/ AuthFails(m)

Next ==
  \/ \E m \in Messages : Send(m) \/ CallStep(m) \/ (Ready /\ Trouble(m))
  \/ \E c \in left : LeftStep(c)
  \/ \E i \in DOMAIN ends : EndStep(i)
  \/ TimerStep \/ Load
  \/ Ready /\ (ToolBoundary \/ Stop \/ Delete)

Spec == Init /\ [][Next]_vars

(* Awaits are over some day, a model finishes its turn, timers fire.  Nobody *)
(* has to send anything, and no turn has to use a tool.                      *)
Fairness ==
  /\ \A m \in Messages : WF_vars(CallStep(m))
  /\ WF_vars(\E c \in left : LeftStep(c)) /\ WF_vars(\E i \in DOMAIN ends : EndStep(i))
  /\ WF_vars(Load) /\ WF_vars(Free /\ Recovers)
  /\ WF_vars(Ready /\ AuthRetries) /\ WF_vars(Ready /\ StopTimesOut)

FairSpec == Spec /\ Fairness
-----------------------------------------------------------------------------
(* The shapes of the state; no message reaches the model fewer than no times, *)
(* and every timer is of a Stop.                                              *)
TypeOK ==
  /\ session \in [processing : BOOLEAN, gen : Nat, stopRequested : BOOLEAN, stopEpoch : Nat,
                  lastSent : 0 .. MaxMessages, retried : BOOLEAN, retrying : BOOLEAN,
                  fromUser : BOOLEAN, deleted : BOOLEAN, loaded : BOOLEAN, recovering : BOOLEAN]
  /\ queue \in Seq(Messages) /\ accepted \subseteq Messages
  /\ transcript \in [Messages -> [bubbles : Nat, pos : Nat, queued : BOOLEAN]]
  /\ agent \in [exists : BOOLEAN, turn : Nat, active : BOOLEAN, pending : Seq(Messages)]
  /\ calls \in [Messages -> [stage : Stages, replay : BOOLEAN, auth : BOOLEAN,
                         gen : Nat, epoch : Nat, seen : Nat]]
  /\ ends \in Seq([reason : {"complete", "interrupted", "error", "timeout"}, gen : Nat, checked : BOOLEAN])
  /\ delivered \in [Messages -> Nat]
  /\ timers \in 0 .. mishaps
  /\ left \subseteq [message : Messages, started : BOOLEAN, caught : BOOLEAN, gen : Nat, epoch : Nat]

Times(s, m) == Cardinality({i \in DOMAIN s : s[i] = m})
One(b) == IF b THEN 1 ELSE 0

(* Whatever is sent, steered, queued, replayed, stopped and retried at once, *)
(* a message waits in one place at a time and reaches the model once; only   *)
(* those that claim the session between a refused login and its retry are    *)
(* sent twice, in the place of the message that was refused.                 *)
InOnePlace ==
  \A m \in Messages \ history.between :
    Times(queue, m) + Times(agent.pending, m) + delivered[m]
      + One(calls[m].stage \in {"entered", "persisting", "preparing"}) <= 1

(* Queued messages are in the order of their bubbles, recovered steers too, *)
(* and they, and no others, show as queued.                                  *)
QueueShown ==
  /\ \A i, j \in DOMAIN queue : i < j => transcript[queue[i]].pos < transcript[queue[j]].pos
  /\ session.loaded => \A m \in Messages : transcript[m].queued <=> m \in ToSet(queue)

(* A turn begins over another only by a message that is sent while another   *)
(* one is taken in: it looked whether the session was busy before that turn  *)
(* was claimed, and claimed it after.                                        *)
TurnsApart ==
  [][session'.gen # session.gen =>
       \/ ~session.processing
       \/ Overlap /\ LET first == calls[session'.lastSent]
                      IN  first.stage = "persisting" /\ first.seen < session.gen]_vars

(* No turn begins before the one before it is over. *)
OneTurnAtATime == [][session'.gen # session.gen => ~session.processing]_vars

(* A completion says that the session is done: no turn, nothing queued. *)
CompletionMeansIdle == [][report' # report => ~session.processing /\ queue = <<>>]_vars

(* A message whose turn the user stopped does not start again by itself. *)
StopHolds == [][\A m \in history.withdrawn : delivered'[m] <= delivered[m]]_vars

(* The turn of a message somebody sent is never reported as the application's *)
(* own, which the task runner would pass over.                               *)
UserTurnsTold == [][report' # report /\ ~report'.fromUser => history.answers \subseteq Nudges]_vars

(* Every message reaches the model, unless the user stops its turn, the      *)
(* session is deleted, or the agent waits for the user.                      *)
Answered(m) == delivered[m] > 0 \/ m \in history.withdrawn \/ session.deleted \/ history.waits
AllAnswered == \A m \in Messages : transcript[m].bubbles > 0 ~> Answered(m)

(* A turn ends. *)
TurnsEnd == session.processing /\ ~session.deleted ~> ~session.processing \/ session.deleted
================================================================================

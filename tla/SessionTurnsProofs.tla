--------------------------- MODULE SessionTurnsProofs ---------------------------
(***************************************************************************)
(* Proofs about SessionTurns, for any number of messages and of mishaps.   *)
(* However sends overlap, a turn begins over another only by a message     *)
(* that was being persisted when that other one claimed the session; where *)
(* messages are taken in one at a time (Overlap is off), a completion is   *)
(* reported when the session is idle.  However they overlap, a message     *)
(* waits in one place, in the order of the bubbles, and reaches the model  *)
(* once, unless it claims the session between a refused login and its      *)
(* retry; and what the user stopped stays stopped, unless a login expires. *)
(* Last, and again one at a time: the turn of a person is not reported as  *)
(* the application's own.                                                  *)
(***************************************************************************)
EXTENDS SessionTurns, SequenceLemmas

Sessions ==
  [processing : BOOLEAN, gen : Nat, stopRequested : BOOLEAN, stopEpoch : Nat,
   lastSent : 0 .. MaxMessages, retried : BOOLEAN, retrying : BOOLEAN,
   fromUser : BOOLEAN, deleted : BOOLEAN, loaded : BOOLEAN, recovering : BOOLEAN]

Calls ==
  [stage : Stages, replay : BOOLEAN, auth : BOOLEAN, gen : Nat, epoch : Nat, seen : Nat]

(* The part of the types the proofs need. *)
Shapes == session \in Sessions /\ calls \in [Messages -> Calls]

Entering(m) == calls[m].stage \in {"entered", "persisting"}

NoneEnters == \A m \in Messages : ~Entering(m)

(* One message is taken in at a time, and while its bubble is written to    *)
(* disk nobody else claims the session.                                     *)
OneEnters ==
  /\ \A m, n \in Messages : Entering(m) /\ Entering(n) => m = n
  /\ \A m \in Messages : calls[m].stage = "persisting" => ~session.processing

-----------------------------------------------------------------------------
(* What the operators do to calls and session. *)

LEMMA StageNames ==
  /\ {"unsent", "entered", "persisting", "preparing", "running", "winding", "returned"}
       = Stages
  /\ \A m \in Messages : calls \in [Messages -> Calls] => calls[m] \in Calls
BY DEF Stages

(* A call moves to another stage. *)
LEMMA Moves ==
  ASSUME Shapes, NEW m \in Messages, NEW st \in Stages,
         calls' = [calls EXCEPT ![m].stage = st]
  PROVE  /\ calls' \in [Messages -> Calls]
         /\ \A n \in Messages : n # m => calls'[n] = calls[n]
         /\ calls'[m].stage = st /\ calls'[m].gen = calls[m].gen
         /\ calls'[m].epoch = calls[m].epoch
<1> DEFINE c == [calls[m] EXCEPT !.stage = st]
<1>1. calls \in [Messages -> Calls] /\ calls[m] \in Calls
  BY DEF Shapes
<1>2. c \in Calls /\ c.stage = st /\ c.gen = calls[m].gen /\ c.epoch = calls[m].epoch
  BY <1>1 DEF Calls
<1>3. calls' = [calls EXCEPT ![m] = c]
  OBVIOUS
<1> HIDE DEF c
<1>4. QED
  BY <1>1, <1>2, <1>3

(* A call is made, or made anew. *)
LEMMA IsCalled ==
  ASSUME Shapes, NEW m \in Messages, NEW st \in Stages, NEW r \in BOOLEAN, NEW a \in BOOLEAN,
         calls' = [calls EXCEPT ![m] = Call(st, r, a)]
  PROVE  /\ calls' \in [Messages -> Calls]
         /\ \A n \in Messages : n # m => calls'[n] = calls[n]
         /\ calls'[m].stage = st /\ calls'[m].gen = 0 /\ calls'[m].epoch = 0
<1> DEFINE c == Call(st, r, a)
<1>1. c \in Calls /\ c.stage = st /\ c.gen = 0 /\ c.epoch = 0
  BY DEF Call, Calls
<1> HIDE DEF c
<1>2. calls' = [calls EXCEPT ![m] = c]
  BY DEF c
<1>3. QED
  BY <1>1, <1>2 DEF Shapes

(* A call has found the session idle, and writes its bubble to disk. *)
LEMMA LooksFirst ==
  ASSUME Shapes, NEW m \in Messages,
         calls' = [calls EXCEPT ![m].stage = "persisting", ![m].seen = session.gen]
  PROVE  /\ calls' \in [Messages -> Calls]
         /\ \A n \in Messages : n # m => calls'[n] = calls[n]
         /\ calls'[m].stage = "persisting" /\ calls'[m].gen = calls[m].gen
         /\ calls'[m].epoch = calls[m].epoch /\ calls'[m].seen = session.gen
<1> DEFINE c == [calls[m] EXCEPT !.stage = "persisting", !.seen = session.gen]
<1>1. /\ calls \in [Messages -> Calls] /\ calls[m] \in Calls
      /\ session.gen \in Nat /\ "persisting" \in Stages
  BY DEF Shapes, Sessions, Stages
<1>2. /\ c \in Calls /\ c.stage = "persisting" /\ c.seen = session.gen
      /\ c.gen = calls[m].gen /\ c.epoch = calls[m].epoch
  BY <1>1 DEF Calls
<1>3. calls' = [calls EXCEPT ![m] = c]
  BY <1>1
<1> HIDE DEF c
<1>4. QED
  BY <1>1, <1>2, <1>3

LEMMA Claims ==
  ASSUME Shapes, NEW m \in Messages, Claim(m)
  PROVE  /\ calls' \in [Messages -> Calls]
         /\ \A n \in Messages : n # m => calls'[n] = calls[n]
         /\ calls'[m].stage = "preparing" /\ calls'[m].gen = session.gen + 1
         /\ calls'[m].epoch = session.stopEpoch
         /\ session' \in Sessions
         /\ session'.lastSent = m /\ session'.retried = (session.retried /\ calls[m].auth)
         /\ session'.stopEpoch = session.stopEpoch
         /\ session'.processing = TRUE /\ session'.gen = session.gen + 1
         /\ session'.fromUser = session.fromUser /\ session'.deleted = session.deleted
         /\ session'.loaded = session.loaded /\ session'.retrying = session.retrying
         /\ session'.recovering = session.recovering
<1> DEFINE c == [calls[m] EXCEPT !.stage = "preparing", !.gen = session.gen + 1,
                                 !.epoch = session.stopEpoch]
<1>1. calls \in [Messages -> Calls] /\ calls[m] \in Calls /\ session \in Sessions
  BY DEF Shapes
<1>2. session.gen + 1 \in Nat /\ session.stopEpoch \in Nat /\ "preparing" \in Stages
  BY <1>1 DEF Sessions, Stages
<1>3. c \in Calls /\ c.stage = "preparing" /\ c.gen = session.gen + 1 /\ c.epoch = session.stopEpoch
  BY <1>1, <1>2 DEF Calls
<1>4. calls' = [calls EXCEPT ![m] = c]
  BY <1>1 DEF Claim
<1> HIDE DEF c
<1>5. /\ calls' \in [Messages -> Calls] /\ calls'[m] = c
      /\ \A n \in Messages : n # m => calls'[n] = calls[n]
  BY <1>1, <1>3, <1>4
<1>6. m \in 0 .. MaxMessages /\ calls[m].auth \in BOOLEAN
  BY <1>1, SessionTurnsAssumption DEF Messages, Calls
<1>7. session' = [session EXCEPT !.processing = TRUE, !.gen = session.gen + 1, !.lastSent = m,
                                 !.retried = session.retried /\ calls[m].auth]
  BY DEF Claim
<1>8. QED
  BY <1>1, <1>2, <1>3, <1>5, <1>6, <1>7 DEF Sessions

(* processNextQueuedMessage takes in the next message, or does nothing. *)
LEMMA ProcessesNext ==
  ASSUME Shapes, NEW s \in Sessions, ProcessNext(s)
  PROVE  /\ calls' \in [Messages -> Calls]
         /\ session' \in Sessions
         /\ session'.processing = s.processing /\ session'.gen = s.gen
         /\ session'.deleted = s.deleted
         /\ session'.loaded = s.loaded /\ session'.retrying = s.retrying
         /\ session'.recovering = s.recovering
         /\ session'.lastSent = s.lastSent /\ session'.retried = s.retried
         /\ session'.stopEpoch = s.stopEpoch
         /\ \/ calls' = calls /\ (session'.fromUser = s.fromUser \/ session'.fromUser)
            \/ \E h \in Messages :
                 /\ \A n \in Messages : n # h => calls'[n] = calls[n]
                 /\ calls'[h].stage = "entered"
                 /\ session'.fromUser = (h \notin Nudges)
<1>1. CASE queue = <<>> \/ s.deleted
  BY <1>1 DEF ProcessNext, Shapes
<1>2. CASE ~(queue = <<>> \/ s.deleted)
  <2> DEFINE h == Head(queue)
             u == h \notin Nudges
  <2>1. /\ calls' = [calls EXCEPT ![h] = Call("entered", TRUE, FALSE)]
        /\ session' = [s EXCEPT !.fromUser = u]
    BY <1>2 DEF ProcessNext
  <2>2. u \in BOOLEAN
    OBVIOUS
  <2>3. h \notin Messages => u
    BY SessionTurnsAssumption
  <2> HIDE DEF u
  <2>4. /\ session' \in Sessions /\ session'.fromUser = u
        /\ session'.processing = s.processing /\ session'.gen = s.gen
        /\ session'.deleted = s.deleted /\ session'.loaded = s.loaded
        /\ session'.retrying = s.retrying /\ session'.recovering = s.recovering
        /\ session'.lastSent = s.lastSent /\ session'.retried = s.retried
        /\ session'.stopEpoch = s.stopEpoch
    BY <2>1, <2>2 DEF Sessions
  <2>5. CASE h \in Messages
    <3>1. "entered" \in Stages
      BY DEF Stages
    <3>2. /\ calls' \in [Messages -> Calls]
          /\ \A n \in Messages : n # h => calls'[n] = calls[n]
          /\ calls'[h].stage = "entered"
      BY <2>1, <2>5, <3>1, IsCalled
    <3>3. QED
      BY <2>4, <2>5, <3>2 DEF u
  <2>6. CASE h \notin Messages
    <3>1. calls' = calls
      <4> HIDE DEF h
      <4> QED
        BY <2>1, <2>6 DEF Shapes
    <3>2. QED
      BY <2>3, <2>4, <2>6, <3>1 DEF Shapes
  <2>7. QED
    BY <2>5, <2>6
<1>3. QED
  BY <1>1, <1>2

(* onProcessingStopped leaves a session that is not processing. *)
LEMMA Ends ==
  ASSUME Shapes, NEW reason, Ended(reason)
  PROVE  /\ session' \in Sessions
         /\ session'.gen = session.gen /\ session'.fromUser = session.fromUser
         /\ session'.deleted = session.deleted /\ session'.loaded = session.loaded
         /\ session'.retrying = session.retrying /\ session'.recovering = session.recovering
         /\ session'.lastSent = session.lastSent /\ session'.retried = session.retried
         /\ session'.stopEpoch = session.stopEpoch
         /\ \/ session' = session /\ ends' = ends
            \/ /\ session'.processing = FALSE
               /\ ends' = Append(ends, [reason |-> reason, gen |-> session.gen, checked |-> FALSE])
BY DEF Ended, Shapes, Sessions

-----------------------------------------------------------------------------
(* One message is taken in at a time. *)

OneInv == Shapes /\ OneEnters

(* A step in which no message is taken in and nobody claims the session. *)
LEMMA NobodyEnters ==
  ASSUME OneEnters,
         \A n \in Messages : Entering(n)' => calls'[n].stage = calls[n].stage,
         session'.processing => session.processing
  PROVE  OneEnters'
BY DEF OneEnters, Entering

(* A step that takes one in where none was. *)
LEMMA OneMoreEnters ==
  ASSUME NoneEnters, NEW h,
         \A n \in Messages : n # h => calls'[n] = calls[n],
         calls'[h].stage = "entered"
  PROVE  OneEnters'
BY DEF NoneEnters, OneEnters, Entering

LEMMA ClaimOne ==
  ASSUME OneInv, NEW m \in Messages, Entering(m), Claim(m)
  PROVE  OneInv'
<1>1. /\ \A n \in Messages : n # m => calls'[n] = calls[n]
      /\ calls'[m].stage = "preparing" /\ Shapes'
  BY Claims DEF OneInv, Shapes
<1>2. \A n \in Messages : ~Entering(n)'
  BY <1>1 DEF OneInv, OneEnters, Entering
<1>3. QED
  BY <1>1, <1>2 DEF OneInv, OneEnters, Entering

LEMMA ChecksOne ==
  ASSUME OneInv, NEW m \in Messages, Checks(m)
  PROVE  OneInv'
<1>1. Entering(m) /\ Shapes
  BY DEF Checks, OneInv, Entering
<1>2. CASE session.processing /\ TakenMidTurn(m)
  <2>1. calls' = [calls EXCEPT ![m].stage = "returned"] /\ session' = session
    BY <1>2 DEF TakenMidTurn, Returned
  <2>2. /\ Shapes' /\ calls'[m].stage = "returned"
        /\ \A n \in Messages : n # m => calls'[n] = calls[n]
    BY <1>1, <2>1, Moves DEF Shapes, Stages
  <2>3. QED
    BY <2>1, <2>2, NobodyEnters DEF OneInv, Entering
<1>3. CASE Claim(m)
  BY <1>1, <1>3, ClaimOne
<1>4. CASE /\ ~session.processing /\ UNCHANGED session
           /\ calls' = [calls EXCEPT ![m].stage = "persisting", ![m].seen = session.gen]
  <2>1. /\ Shapes' /\ calls'[m].stage = "persisting"
        /\ \A n \in Messages : n # m => calls'[n] = calls[n]
    BY <1>1, <1>4, LooksFirst DEF Shapes
  <2>2. QED
    BY <1>1, <1>4, <2>1 DEF OneInv, OneEnters, Entering
<1>5. QED
  BY <1>2, <1>3, <1>4 DEF Checks

(* The steps of a turn under way. *)
LEMMA TurnStepsOne ==
  ASSUME OneInv, NEW m \in Messages,
         StartsChat(m) \/ NotStarted(m) \/ Superseded(m) \/ WindsDown(m) \/ Completes(m)
           \/ SetupFails(m) \/ ChatFails(m)
  PROVE  OneInv'
<1>1. \E st \in {"running", "winding", "returned"} : calls' = [calls EXCEPT ![m].stage = st]
  BY DEF StartsChat, NotStarted, Superseded, WindsDown, Completes, SetupFails, ChatFails, Returned
<1>2. PICK st \in {"running", "winding", "returned"} : calls' = [calls EXCEPT ![m].stage = st]
  BY <1>1
<1>3. /\ calls' \in [Messages -> Calls] /\ calls'[m].stage = st
      /\ \A n \in Messages : n # m => calls'[n] = calls[n]
  BY <1>2, Moves DEF OneInv, Stages
<1>4. session' = session \/ \E r : Ended(r)
  BY DEF StartsChat, NotStarted, Superseded, WindsDown, Completes, SetupFails, ChatFails
<1>5. session' \in Sessions /\ (session'.processing => session.processing)
  BY <1>4, Ends DEF OneInv, Shapes
<1>6. QED
  BY <1>3, <1>5, NobodyEnters DEF OneInv, Shapes, Entering

(* A step of the event loop that takes in a message when none is taken in.  *)
LEMMA NextOne ==
  ASSUME OneInv, NoneEnters, NEW s \in Sessions, s.processing = session.processing,
         ProcessNext(s)
  PROVE  OneInv'
<1>1. Shapes' /\ session'.processing = session.processing
  BY ProcessesNext DEF OneInv, Shapes
<1>2. \/ calls' = calls
      \/ \E h \in Messages : /\ \A n \in Messages : n # h => calls'[n] = calls[n]
                             /\ calls'[h].stage = "entered"
  BY ProcessesNext DEF OneInv
<1>3. OneEnters'
  BY <1>1, <1>2, NobodyEnters, OneMoreEnters DEF OneInv
<1>4. QED
  BY <1>1, <1>3 DEF OneInv

LEMMA AuthRetriesOne ==
  ASSUME OneInv, NoneEnters, AuthRetries
  PROVE  OneInv'
<1> DEFINE m  == session.lastSent
           st == IF session.deleted THEN "returned" ELSE "entered"
<1>1. /\ calls' = [calls EXCEPT ![m] = Call(st, FALSE, TRUE)]
      /\ session' = [session EXCEPT !.retrying = FALSE, !.processing = FALSE]
  BY DEF AuthRetries
<1>2. st \in Stages /\ st \in {"returned", "entered"}
  BY DEF Stages
<1> HIDE DEF st
<1>3. session' \in Sessions /\ session'.processing = FALSE
  BY <1>1 DEF OneInv, Shapes, Sessions
<1>4. CASE m \in Messages
  <2>1. /\ calls' \in [Messages -> Calls] /\ calls'[m].stage = st
        /\ \A n \in Messages : n # m => calls'[n] = calls[n]
    BY <1>1, <1>2, <1>4, IsCalled DEF OneInv
  <2>2. OneEnters'
    BY <1>2, <1>3, <2>1 DEF NoneEnters, OneEnters, Entering
  <2>3. QED
    BY <1>3, <2>1, <2>2 DEF OneInv, Shapes
<1>5. CASE m \notin Messages
  <2>1. calls' = calls
    <3> HIDE DEF m
    <3> QED
      BY <1>1, <1>5 DEF OneInv, Shapes
  <2>2. QED
    BY <1>3, <2>1, NobodyEnters DEF OneInv, Shapes
<1>6. QED
  BY <1>4, <1>5

(* Everything else leaves the calls alone, and claims nothing. *)
LEMMA OthersOne ==
  ASSUME OneInv, calls' = calls, session' \in Sessions,
         session'.processing => session.processing
  PROVE  OneInv'
BY NobodyEnters DEF OneInv, Shapes

LEMMA SessionStepsOne ==
  ASSUME OneInv
  PROVE  /\ \A m \in Messages : Handoff(m) \/ AuthFails(m) => OneInv'
         /\ Load \/ ToolBoundary \/ Stop \/ Delete \/ StopTimesOut => OneInv'
         /\ \A i \in DOMAIN ends : EndReports(i) => OneInv'
<1>1. session \in Sessions
  BY DEF OneInv, Shapes
<1>2. ASSUME NEW m \in Messages, Handoff(m) PROVE OneInv'
  <2>1. calls' = calls /\ session' \in Sessions /\ session'.processing = FALSE
    BY <1>1, <1>2 DEF Handoff, Sessions
  <2>2. QED
    BY <2>1, OthersOne
<1>3. ASSUME NEW m \in Messages, AuthFails(m) PROVE OneInv'
  <2>1. calls' = calls /\ session' \in Sessions /\ session'.processing = session.processing
    BY <1>1, <1>3 DEF AuthFails, Sessions
  <2>2. QED
    BY <2>1, OthersOne
<1>4. CASE Load
  <2>1. calls' = calls /\ session' \in Sessions /\ session'.processing = session.processing
    BY <1>1, <1>4 DEF Load, Sessions
  <2>2. QED
    BY <2>1, OthersOne
<1>5. CASE ToolBoundary
  BY <1>1, <1>5, OthersOne DEF ToolBoundary
<1>6. CASE Stop
  <2> DEFINE e == session.stopEpoch + 1
  <2>1. /\ calls' = calls
        /\ session' = [session EXCEPT !.stopRequested = TRUE, !.stopEpoch = e]
    BY <1>6, Zenon DEF Stop
  <2>2. e \in Nat
    BY <1>1 DEF Sessions
  <2> HIDE DEF e
  <2>3. session' \in Sessions /\ session'.processing = session.processing
    BY <1>1, <2>1, <2>2 DEF Sessions
  <2>4. QED
    BY <2>1, <2>3, OthersOne
<1>7. CASE Delete
  <2>1. calls' = calls /\ session' \in Sessions /\ session'.processing = session.processing
    BY <1>1, <1>7 DEF Delete, Sessions
  <2>2. QED
    BY <2>1, OthersOne
<1>8. CASE StopTimesOut
  <2>1. calls' = calls /\ (session' = session \/ Ended("timeout"))
    BY <1>8 DEF StopTimesOut
  <2>2. session' \in Sessions /\ (session'.processing => session.processing)
    BY <1>1, <2>1, Ends DEF OneInv
  <2>3. QED
    BY <2>1, <2>2, OthersOne
<1>9. ASSUME NEW i \in DOMAIN ends, EndReports(i) PROVE OneInv'
  BY <1>1, <1>9, OthersOne DEF EndReports
<1>10. QED
  BY <1>2, <1>3, <1>4, <1>5, <1>6, <1>7, <1>8, <1>9

(* A call that a retry has replaced takes nothing in, and claims nothing. *)
LEMMA LeftStepsOne ==
  ASSUME OneInv, NEW c, LeftStarts(c) \/ LeftEnds(c)
  PROVE  OneInv'
<1>1. calls' = calls /\ (session' = session \/ \E r : Ended(r))
  BY DEF LeftStarts, LeftEnds
<1>2. session' \in Sessions /\ (session'.processing => session.processing)
  BY <1>1, Ends DEF OneInv, Shapes
<1>3. QED
  BY <1>1, <1>2, OthersOne

LEMMA SendOne ==
  ASSUME OneInv, NoneEnters, NEW m \in Messages, Send(m)
  PROVE  OneInv'
<1>1. calls' = [calls EXCEPT ![m] = Call("entered", FALSE, FALSE)]
  BY DEF Send
<1>2. /\ calls' \in [Messages -> Calls] /\ calls'[m].stage = "entered"
      /\ \A n \in Messages : n # m => calls'[n] = calls[n]
  BY <1>1, IsCalled DEF OneInv, Stages
<1>3. session' \in Sessions
  BY DEF Send, OneInv, Shapes, Sessions
<1>4. QED
  BY <1>2, <1>3, OneMoreEnters DEF OneInv, Shapes

LEMMA EndChecksQueueOne ==
  ASSUME OneInv, NoneEnters, NEW i \in DOMAIN ends, EndChecksQueue(i)
  PROVE  OneInv'
<1>1. ProcessNext(session) \/ UNCHANGED <<calls, session>>
  BY DEF EndChecksQueue
<1>2. QED
  BY <1>1, NextOne, OthersOne DEF OneInv, Shapes

LEMMA RecoversOne ==
  ASSUME OneInv, NoneEnters, Recovers
  PROVE  OneInv'
<1> DEFINE s == [session EXCEPT !.recovering = FALSE]
<1>1. s \in Sessions /\ s.processing = session.processing
  BY DEF OneInv, Shapes, Sessions
<1>2. ProcessNext(s)
  BY DEF Recovers
<1> HIDE DEF s
<1>3. QED
  BY <1>1, <1>2, NextOne

LEMMA InitOne == Init => OneInv
<1> SUFFICES ASSUME Init PROVE OneInv
  OBVIOUS
<1>1. session \in Sessions /\ session.processing = FALSE
  BY SessionTurnsAssumption DEF Init, Sessions
<1>2. \A m \in Messages : calls[m].stage \in {"unsent", "returned"} /\ calls[m] \in Calls
  BY DEF Init, Call, Calls, Stages
<1>3. calls \in [Messages -> Calls]
  BY <1>2 DEF Init
<1>4. QED
  BY <1>1, <1>2, <1>3 DEF OneInv, Shapes, OneEnters, Entering

LEMMA StepOne ==
  ASSUME ~Overlap, OneInv, [Next]_vars
  PROVE  OneInv'
<1>1. Ready \/ Free => NoneEnters
  BY DEF Free, Ready, NoneEnters, Entering
<1>2. ASSUME NEW m \in Messages, Send(m) PROVE OneInv'
  BY <1>1, <1>2, SendOne DEF Send
<1>3. ASSUME NEW m \in Messages, CallStep(m) PROVE OneInv'
  <2>1. ASSUME Persisted(m) PROVE OneInv'
    BY <2>1, ClaimOne DEF Persisted, Entering
  <2>2. QED
    BY <1>3, <2>1, ChecksOne, TurnStepsOne DEF CallStep, TakenIn, TurnStep
<1>4. ASSUME NEW m \in Messages, Trouble(m) PROVE OneInv'
  BY <1>4, TurnStepsOne, SessionStepsOne DEF Trouble
<1>5. ASSUME NEW i \in DOMAIN ends, EndStep(i) PROVE OneInv'
  BY <1>1, <1>5, EndChecksQueueOne, SessionStepsOne DEF EndStep
<1>6. CASE TimerStep
  BY <1>1, <1>6, RecoversOne, AuthRetriesOne, SessionStepsOne DEF TimerStep
<1>7. CASE Load \/ (Ready /\ (ToolBoundary \/ Stop \/ Delete))
  BY <1>7, SessionStepsOne
<1>8. CASE UNCHANGED vars
  <2>1. calls' = calls /\ session' = session
    BY <1>8 DEF vars
  <2>2. QED
    BY <2>1, OthersOne DEF OneInv, Shapes
<1>9. ASSUME NEW c \in left, LeftStep(c) PROVE OneInv'
  BY <1>9, LeftStepsOne DEF LeftStep
<1>10. QED
  BY <1>2, <1>3, <1>4, <1>5, <1>6, <1>7, <1>8, <1>9 DEF Next

LEMMA OneInvHolds ==
  ASSUME ~Overlap
  PROVE  Spec => []OneInv
<1>1. OneInv /\ [Next]_vars => OneInv'
  BY StepOne
<1>2. QED
  BY <1>1, InitOne, PTL DEF Spec

(* A turn is begun by a claim. *)
LEMMA GenerationsByClaims ==
  ASSUME Shapes, [Next]_vars, session'.gen # session.gen
  PROVE  \E m \in Messages : Claim(m) /\ (calls[m].stage = "persisting" \/ ~session.processing)
<1>1. session \in Sessions
  BY DEF Shapes
<1>2. ASSUME NEW m \in Messages, CallStep(m)
      PROVE  Claim(m) /\ (calls[m].stage = "persisting" \/ ~session.processing)
  <2>1. ~TurnStep(m)
    BY <1>1, Ends DEF TurnStep, StartsChat, NotStarted, Superseded, WindsDown, Completes
  <2>2. QED
    BY <1>2, <2>1 DEF CallStep, TakenIn, Persisted, Checks, TakenMidTurn
<1>3. ASSUME NEW m \in Messages PROVE ~Send(m) /\ ~Handoff(m) /\ ~AuthFails(m)
  BY <1>1 DEF Send, Handoff, AuthFails, Sessions
<1>4. ASSUME NEW m \in Messages PROVE ~SetupFails(m) /\ ~ChatFails(m)
  BY <1>1, Ends DEF SetupFails, ChatFails
<1>5. ASSUME NEW i \in DOMAIN ends PROVE ~EndStep(i)
  BY <1>1, ProcessesNext DEF EndStep, EndChecksQueue, EndReports
<1>6. ~Recovers
  <2> DEFINE s == [session EXCEPT !.recovering = FALSE]
  <2>1. s \in Sessions /\ s.gen = session.gen
    BY <1>1 DEF Sessions
  <2>2. Recovers => ProcessNext(s)
    BY DEF Recovers
  <2> HIDE DEF s
  <2>3. QED
    BY <1>1, <2>1, <2>2, ProcessesNext
<1>7. ~AuthRetries /\ ~Load /\ ~ToolBoundary /\ ~Stop /\ ~Delete
  BY <1>1 DEF AuthRetries, Load, ToolBoundary, Stop, Delete, Sessions
<1>8. ~StopTimesOut
  BY <1>1, Ends DEF StopTimesOut
<1>9. ASSUME NEW c \in left PROVE ~LeftStep(c)
  BY <1>1, Ends DEF LeftStep, LeftStarts, LeftEnds
<1>10. ~UNCHANGED vars
  BY DEF vars
<1>11. QED
  BY <1>2, <1>3, <1>4, <1>5, <1>6, <1>7, <1>8, <1>9, <1>10 DEF Next, Trouble, TimerStep

(* What a call that writes its bubble saw: no turn later than the last one  *)
(* claimed, and while a turn runs not that one.                             *)
Seen ==
  \A m \in Messages : calls[m].stage = "persisting" =>
    calls[m].seen <= session.gen /\ (session.processing => calls[m].seen < session.gen)

SeenInv == Shapes /\ Seen

(* A step that writes no other bubble, and begins no turn. *)
LEMMA SeenKept ==
  ASSUME SeenInv, calls' \in [Messages -> Calls], session' \in Sessions,
         \A n \in Messages : calls'[n].stage = "persisting" => calls'[n] = calls[n],
         session'.gen = session.gen, session'.processing => session.processing
  PROVE  SeenInv'
BY DEF SeenInv, Shapes, Seen

(* Who claims the session sees it pass from what the others saw. *)
LEMMA ClaimSeen ==
  ASSUME SeenInv, NEW m \in Messages, Claim(m)
  PROVE  SeenInv'
<1>1. /\ calls' \in [Messages -> Calls] /\ session' \in Sessions
      /\ \A n \in Messages : n # m => calls'[n] = calls[n]
      /\ calls'[m].stage = "preparing" /\ session'.gen = session.gen + 1
  BY Claims DEF SeenInv
<1>2. /\ session.gen \in Nat
      /\ \A n \in Messages : calls[n].seen \in Nat
  BY DEF SeenInv, Shapes, Sessions, Calls
<1>3. ASSUME NEW n \in Messages, calls'[n].stage = "persisting"
      PROVE  calls'[n].seen < session'.gen
  <2>1. calls'[n] = calls[n] /\ calls[n].seen <= session.gen
    BY <1>1, <1>3 DEF SeenInv, Seen
  <2>2. QED
    BY <1>1, <1>2, <2>1
<1>4. QED
  BY <1>1, <1>2, <1>3 DEF SeenInv, Shapes, Seen, Calls, Sessions

LEMMA ChecksSeen ==
  ASSUME SeenInv, NEW m \in Messages, Checks(m)
  PROVE  SeenInv'
<1>1. Shapes /\ session.gen \in Nat
  BY DEF SeenInv, Shapes, Sessions
<1>2. CASE TakenMidTurn(m)
  <2>1. calls' = [calls EXCEPT ![m].stage = "returned"] /\ session' = session
    BY <1>2 DEF TakenMidTurn, Returned
  <2>2. /\ calls' \in [Messages -> Calls] /\ calls'[m].stage = "returned"
        /\ \A n \in Messages : n # m => calls'[n] = calls[n]
    BY <1>1, <2>1, Moves DEF Stages
  <2>3. QED
    BY <1>1, <2>1, <2>2, SeenKept DEF Shapes
<1>3. CASE Claim(m)
  BY <1>3, ClaimSeen
<1>4. CASE /\ ~session.processing /\ UNCHANGED session
           /\ calls' = [calls EXCEPT ![m].stage = "persisting", ![m].seen = session.gen]
  <2>1. /\ calls' \in [Messages -> Calls] /\ calls'[m].seen = session.gen
        /\ \A n \in Messages : n # m => calls'[n] = calls[n]
    BY <1>1, <1>4, LooksFirst
  <2>2. QED
    BY <1>1, <1>4, <2>1 DEF SeenInv, Shapes, Seen
<1>5. QED
  BY <1>2, <1>3, <1>4 DEF Checks

(* A message is taken in from the queue, or none is. *)
LEMMA NextSeen ==
  ASSUME SeenInv, NEW s \in Sessions, s.processing = session.processing,
         s.gen = session.gen, ProcessNext(s)
  PROVE  SeenInv'
<1>1. /\ calls' \in [Messages -> Calls] /\ session' \in Sessions
      /\ session'.processing = session.processing /\ session'.gen = session.gen
      /\ \/ calls' = calls
         \/ \E h \in Messages : /\ \A n \in Messages : n # h => calls'[n] = calls[n]
                                /\ calls'[h].stage = "entered"
  BY ProcessesNext DEF SeenInv
<1>2. \A n \in Messages : calls'[n].stage = "persisting" => calls'[n] = calls[n]
  BY <1>1
<1>3. QED
  BY <1>1, <1>2, SeenKept

(* The other steps of a call. *)
LEMMA TurnStepsSeen ==
  ASSUME SeenInv, NEW m \in Messages, TurnStep(m) \/ SetupFails(m) \/ ChatFails(m)
  PROVE  SeenInv'
<1>1. PICK st \in {"running", "winding", "returned"} : calls' = [calls EXCEPT ![m].stage = st]
  BY DEF TurnStep, StartsChat, NotStarted, Superseded, WindsDown, Completes, SetupFails, ChatFails,
         Returned
<1>2. /\ calls' \in [Messages -> Calls] /\ calls'[m].stage = st
      /\ \A n \in Messages : n # m => calls'[n] = calls[n]
  BY <1>1, Moves DEF SeenInv, Stages
<1>3. session' = session \/ \E r : Ended(r)
  BY DEF TurnStep, StartsChat, NotStarted, Superseded, WindsDown, Completes, SetupFails, ChatFails
<1>4. /\ session' \in Sessions /\ session'.gen = session.gen
      /\ session'.processing => session.processing
  BY <1>3, Ends DEF SeenInv, Shapes
<1>5. QED
  BY <1>2, <1>4, SeenKept

(* The steps of the session, and of a call that a retry has replaced. *)
LEMMA SessionStepsSeen ==
  ASSUME SeenInv,
         \/ \E m \in Messages : Handoff(m) \/ AuthFails(m)
         \/ \E c \in left : LeftStep(c)
         \/ \E i \in DOMAIN ends : EndReports(i)
         \/ Load \/ ToolBoundary \/ Stop \/ Delete \/ StopTimesOut
  PROVE  SeenInv'
<1>1. session \in Sessions /\ calls \in [Messages -> Calls]
  BY DEF SeenInv, Shapes
<1>2. calls' = calls
  BY DEF Handoff, AuthFails, LeftStep, LeftStarts, LeftEnds, EndReports, Load, ToolBoundary, Stop,
         Delete, StopTimesOut
<1>3. CASE Stop
  <2> DEFINE e == session.stopEpoch + 1
  <2>1. session' = [session EXCEPT !.stopRequested = TRUE, !.stopEpoch = e]
    BY <1>3, Zenon DEF Stop
  <2>2. e \in Nat
    BY <1>1 DEF Sessions
  <2> HIDE DEF e
  <2>3. /\ session' \in Sessions /\ session'.processing = session.processing
        /\ session'.gen = session.gen
    BY <1>1, <2>1, <2>2 DEF Sessions
  <2>4. QED
    BY <1>1, <1>2, <2>3, SeenKept
<1>4. CASE session' = session \/ \E r : Ended(r)
  <2>1. /\ session' \in Sessions /\ session'.gen = session.gen
        /\ session'.processing => session.processing
    BY <1>1, <1>4, Ends DEF SeenInv
  <2>2. QED
    BY <1>1, <1>2, <2>1, SeenKept
<1>5. CASE Load \/ Delete \/ \E m \in Messages : Handoff(m) \/ AuthFails(m)
  <2>1. /\ session' \in Sessions /\ session'.gen = session.gen
        /\ session'.processing => session.processing
    BY <1>1, <1>5 DEF Load, Delete, Handoff, AuthFails, Sessions
  <2>2. QED
    BY <1>1, <1>2, <2>1, SeenKept
<1>6. QED
  BY <1>3, <1>4, <1>5 DEF LeftStep, LeftStarts, LeftEnds, EndReports, ToolBoundary, StopTimesOut

LEMMA AuthRetriesSeen ==
  ASSUME SeenInv, AuthRetries
  PROVE  SeenInv'
<1> DEFINE m  == session.lastSent
           st == IF session.deleted THEN "returned" ELSE "entered"
<1>1. /\ calls' = [calls EXCEPT ![m] = Call(st, FALSE, TRUE)]
      /\ session' = [session EXCEPT !.retrying = FALSE, !.processing = FALSE]
  BY DEF AuthRetries
<1>2. st \in Stages /\ st # "persisting"
  BY DEF Stages
<1> HIDE DEF st
<1>3. session' \in Sessions /\ session'.processing = FALSE /\ session'.gen = session.gen
  BY <1>1 DEF SeenInv, Shapes, Sessions
<1>4. /\ calls' \in [Messages -> Calls]
      /\ \A n \in Messages : calls'[n].stage = "persisting" => calls'[n] = calls[n]
  <2>1. CASE m \in Messages
    BY <1>1, <1>2, <2>1, IsCalled DEF SeenInv
  <2>2. CASE m \notin Messages
    <3> HIDE DEF m
    <3> QED
      BY <1>1, <2>2 DEF SeenInv, Shapes
  <2>3. QED
    BY <2>1, <2>2
<1>5. QED
  BY <1>3, <1>4, SeenKept

LEMMA StepSeen ==
  ASSUME SeenInv, [Next]_vars
  PROVE  SeenInv'
<1>1. Shapes /\ session \in Sessions /\ calls \in [Messages -> Calls]
  BY DEF SeenInv, Shapes
<1>2. ASSUME NEW m \in Messages, Send(m) PROVE SeenInv'
  <2>1. calls' = [calls EXCEPT ![m] = Call("entered", FALSE, FALSE)]
    BY <1>2 DEF Send
  <2>2. /\ calls' \in [Messages -> Calls] /\ calls'[m].stage = "entered"
        /\ \A n \in Messages : n # m => calls'[n] = calls[n]
    BY <1>1, <2>1, IsCalled DEF Stages
  <2>3. /\ session' \in Sessions /\ session'.gen = session.gen
        /\ session'.processing = session.processing
    BY <1>1, <1>2 DEF Send, Sessions
  <2>4. QED
    BY <2>2, <2>3, SeenKept
<1>3. ASSUME NEW m \in Messages, CallStep(m) PROVE SeenInv'
  BY <1>3, ChecksSeen, ClaimSeen, TurnStepsSeen DEF CallStep, TakenIn, Persisted
<1>4. ASSUME NEW m \in Messages, Trouble(m) PROVE SeenInv'
  BY <1>4, TurnStepsSeen, SessionStepsSeen DEF Trouble
<1>5. ASSUME NEW i \in DOMAIN ends, EndStep(i) PROVE SeenInv'
  <2>1. CASE EndReports(i)
    BY <2>1, SessionStepsSeen
  <2>2. CASE EndChecksQueue(i)
    <3>1. ProcessNext(session) \/ UNCHANGED <<calls, session>>
      BY <2>2 DEF EndChecksQueue
    <3>2. QED
      BY <1>1, <3>1, NextSeen, SeenKept
  <2>3. QED
    BY <1>5, <2>1, <2>2 DEF EndStep
<1>6. CASE Recovers
  <2> DEFINE s == [session EXCEPT !.recovering = FALSE]
  <2>1. s \in Sessions /\ s.processing = session.processing /\ s.gen = session.gen
    BY <1>1 DEF Sessions
  <2>2. ProcessNext(s)
    BY <1>6 DEF Recovers
  <2> HIDE DEF s
  <2>3. QED
    BY <2>1, <2>2, NextSeen
<1>7. CASE TimerStep
  BY <1>6, <1>7, AuthRetriesSeen, SessionStepsSeen DEF TimerStep
<1>8. ASSUME NEW c \in left, LeftStep(c) PROVE SeenInv'
  BY <1>8, SessionStepsSeen
<1>9. CASE Load \/ (Ready /\ (ToolBoundary \/ Stop \/ Delete))
  BY <1>9, SessionStepsSeen
<1>10. CASE UNCHANGED vars
  <2>1. calls' = calls /\ session' = session
    BY <1>10 DEF vars
  <2>2. QED
    BY <1>1, <2>1, SeenKept
<1>11. QED
  BY <1>2, <1>3, <1>4, <1>5, <1>7, <1>8, <1>9, <1>10 DEF Next

LEMMA InitSeen == Init => SeenInv
<1> SUFFICES ASSUME Init PROVE SeenInv
  OBVIOUS
<1>1. Shapes
  BY InitOne DEF OneInv
<1>2. \A m \in Messages : calls[m].stage # "persisting"
  BY DEF Init, Call
<1>3. QED
  BY <1>1, <1>2 DEF SeenInv, Seen

LEMMA SeenInvHolds == Spec => []SeenInv
<1>1. SeenInv /\ [Next]_vars => SeenInv'
  BY StepSeen
<1>2. QED
  BY <1>1, InitSeen, PTL DEF Spec

(* A turn that begins over another is one whose message looked whether the  *)
(* session was busy before that other turn was claimed, however many calls, *)
(* stops, retries and ends are under way: nobody who finds a turn running   *)
(* claims the session.  While messages are taken in one at a time no turn   *)
(* begins over another at all, whatever is stopped, slow, handed over,      *)
(* refused, fails or is deleted, and whatever was found queued.             *)
THEOREM TurnsExclude == Spec => TurnsApart
<1> DEFINE Over == \/ ~session.processing
                   \/ Overlap /\ LET first == calls[session'.lastSent]
                                 IN  first.stage = "persisting" /\ first.seen < session.gen
<1>1. SeenInv /\ (~Overlap => OneInv) /\ [Next]_vars => [session'.gen # session.gen => Over]_vars
  <2> SUFFICES ASSUME SeenInv, ~Overlap => OneInv, [Next]_vars, session'.gen # session.gen
               PROVE  Over
    OBVIOUS
  <2>1. PICK m \in Messages : Claim(m) /\ (calls[m].stage = "persisting" \/ ~session.processing)
    BY GenerationsByClaims DEF SeenInv
  <2>2. session'.lastSent = m
    BY <2>1, Claims DEF SeenInv
  <2>3. CASE calls[m].stage = "persisting" /\ session.processing
    BY <2>2, <2>3, SessionTurnsAssumption DEF SeenInv, Seen, OneInv, OneEnters
  <2>4. QED
    BY <2>1, <2>3
<1>2. CASE Overlap
  BY <1>1, <1>2, SeenInvHolds, PTL DEF Spec, TurnsApart
<1>3. CASE ~Overlap
  BY <1>1, <1>3, SeenInvHolds, OneInvHolds, PTL DEF Spec, TurnsApart
<1>4. QED
  BY <1>2, <1>3, SessionTurnsAssumption

-----------------------------------------------------------------------------
(* The end of a turn.  Five seconds that pass before a stopped turn ends,   *)
(* a refused login and a restart can bring about a second end or report one *)
(* while messages are queued; without them:                                 *)
Steady == ~Overlap /\ Recovered = {} /\ Mishaps \cap {"slow", "auth"} = {}

Agents == [exists : BOOLEAN, turn : Nat, active : BOOLEAN, pending : Seq(Messages)]

Plain == session.loaded /\ ~session.retrying /\ ~session.recovering

Active(m) == calls[m].stage \in {"preparing", "running", "winding"}

(* While an end of a turn is reported, it is the only one, the session is   *)
(* idle, no call can end that turn again, and nothing is queued once the     *)
(* queue was looked at.                                                     *)
Resting ==
  ends # <<>> =>
    /\ \E e : ends = <<e>>
    /\ ~session.processing
    /\ \A m \in Messages : ~Entering(m) /\ ~(Active(m) /\ Current(m))
    /\ ends[1].checked => queue = <<>>

(* A claimed session has one call that may end its turn; the backend is at  *)
(* work for that one only.                                                  *)
Owned ==
  /\ \A m \in Messages : Active(m) => calls[m].gen <= session.gen
  /\ \A m, n \in Messages : Active(m) /\ Active(n) /\ Current(m) /\ Current(n) => m = n
  /\ \A m \in Messages : calls[m].stage = "preparing" => Current(m) /\ session.processing
  /\ agent.active => /\ session.processing /\ agent.turn = session.gen
                     /\ \E m \in Messages : calls[m].stage = "running" /\ Current(m)

SteadyInv == OneInv /\ agent \in Agents /\ left = {} /\ Plain /\ Resting /\ Owned

(* Only a retry replaces calls. *)
LEMMA LeftByRetries ==
  ASSUME [Next]_vars, left' # left
  PROVE  AuthRetries \/ \E c \in left : LeftStep(c)
<1>1. ASSUME NEW m \in Messages PROVE ~Send(m) /\ ~CallStep(m) /\ ~Trouble(m)
  BY DEF Send, CallStep, TakenIn, Checks, Persisted, TurnStep, StartsChat, NotStarted, Superseded,
     WindsDown, Completes, Trouble, SetupFails, ChatFails, Handoff, AuthFails
<1>2. ~Recovers /\ ~StopTimesOut /\ ~Load /\ ~ToolBoundary /\ ~Stop /\ ~Delete
  BY DEF Recovers, StopTimesOut, Load, ToolBoundary, Stop, Delete
<1>3. ASSUME NEW i \in DOMAIN ends PROVE ~EndStep(i)
  BY DEF EndStep, EndChecksQueue, EndReports
<1>4. ~UNCHANGED vars
  BY DEF vars
<1>5. QED
  BY <1>1, <1>2, <1>3, <1>4 DEF Next, TimerStep

(* What a step may leave of it. *)
LEMMA OwnedKept ==
  ASSUME Owned, session'.gen = session.gen,
         \A n \in Messages : Active(n)' => Active(n) /\ calls'[n].gen = calls[n].gen,
         \A n \in Messages : calls'[n].stage = "preparing" =>
                               calls[n].stage = "preparing" /\ session'.processing,
         agent'.active =>
           /\ agent.active /\ agent'.turn = agent.turn /\ session'.processing
           /\ \A n \in Messages : calls[n].stage = "running" /\ Current(n) => calls'[n] = calls[n]
  PROVE  Owned'
<1>1. \A n \in Messages : Active(n)' /\ Current(n)' => Active(n) /\ Current(n)
  BY DEF Current
<1>2. \A n \in Messages : Active(n)' => calls'[n].gen <= session'.gen
  BY DEF Owned
<1>3. \A m, n \in Messages : Active(m)' /\ Active(n)' /\ Current(m)' /\ Current(n)' => m = n
  BY <1>1 DEF Owned
<1>4. \A n \in Messages : calls'[n].stage = "preparing" => Current(n)' /\ session'.processing
  <2> SUFFICES ASSUME NEW n \in Messages, calls'[n].stage = "preparing"
               PROVE  Current(n)' /\ session'.processing
    OBVIOUS
  <2>1. calls[n].stage = "preparing" /\ session'.processing /\ Active(n)'
    BY DEF Active
  <2>2. Current(n) /\ calls'[n].gen = calls[n].gen
    BY <2>1 DEF Owned
  <2>3. QED
    BY <2>1, <2>2 DEF Current
<1>5. ASSUME agent'.active
      PROVE  /\ session'.processing /\ agent'.turn = session'.gen
             /\ \E m \in Messages : calls'[m].stage = "running" /\ Current(m)'
  <2>1. PICK w \in Messages : calls[w].stage = "running" /\ Current(w)
    BY <1>5 DEF Owned
  <2>2. calls'[w] = calls[w]
    BY <1>5, <2>1
  <2>3. Current(w)'
    BY <2>1, <2>2 DEF Current
  <2>4. agent'.turn = session'.gen /\ session'.processing
    BY <1>5 DEF Owned
  <2>5. QED
    BY <2>1, <2>2, <2>3, <2>4
<1>6. QED
  BY <1>2, <1>3, <1>4, <1>5 DEF Owned

LEMMA RestingKept ==
  ASSUME Resting, ends' = ends, session'.processing => session.processing,
         \A n \in Messages : Entering(n)' => Entering(n),
         \A n \in Messages : Active(n)' /\ Current(n)' => Active(n) /\ Current(n),
         ends # <<>> => queue' = queue \/ queue' = <<>>
  PROVE  Resting'
BY DEF Resting

LEMMA NoEndsRests ==
  ASSUME ends' = <<>>
  PROVE  Resting'
BY DEF Resting

LEMMA OneEnd ==
  ASSUME NEW e
  PROVE  /\ DOMAIN <<e>> = {1} /\ <<e>> # <<>>
         /\ RemoveAt(<<e>>, 1) = <<>>
         /\ Append(<<>>, e) = <<e>>
<1>1. DOMAIN <<e>> = {1} /\ <<e>> # <<>> /\ Len(<<e>>) = 1
  OBVIOUS
<1>2. RemoveAt(<<e>>, 1) = <<>>
  BY DEF RemoveAt
<1>3. Append(<<>>, e) = <<e>>
  OBVIOUS
<1>4. QED
  BY <1>1, <1>2, <1>3

-----------------------------------------------------------------------------
(* The actions, where messages are taken in one at a time. *)

LEMMA IdleFacts ==
  ASSUME SteadyInv
  PROVE  /\ Shapes /\ OneInv /\ agent \in Agents
         /\ session \in Sessions /\ session.gen \in Nat
         /\ \A m \in Messages : calls[m] \in Calls /\ calls[m].gen \in Nat
         /\ (\E m \in Messages : Entering(m)) => ends = <<>>
         /\ (\E m \in Messages : Active(m) /\ Current(m)) => ends = <<>>
         /\ session.processing => ends = <<>>
BY DEF SteadyInv, OneInv, Shapes, Sessions, Calls, Resting

LEMMA ClaimSteady ==
  ASSUME SteadyInv, NEW m \in Messages, Entering(m), ~session.processing, Claim(m),
         agent' = agent, ends' = ends
  PROVE  agent' \in Agents /\ Plain' /\ Resting' /\ Owned'
<1>1. /\ \A n \in Messages : n # m => calls'[n] = calls[n]
      /\ calls'[m].stage = "preparing" /\ calls'[m].gen = session.gen + 1
      /\ session'.processing = TRUE /\ session'.gen = session.gen + 1
      /\ session'.loaded = session.loaded /\ session'.retrying = session.retrying
      /\ session'.recovering = session.recovering
  BY IdleFacts, Claims
<1>2. Plain' /\ agent' \in Agents
  BY <1>1, IdleFacts DEF SteadyInv, Plain
<1>3. Resting'
  BY IdleFacts, NoEndsRests
<1>4. ~agent'.active
  BY DEF SteadyInv, Owned
<1>5. \A n \in Messages : n # m => calls'[n].stage # "preparing"
  BY <1>1 DEF SteadyInv, Owned
<1>6. \A n \in Messages : n # m /\ Active(n)' => calls'[n].gen < session'.gen
  <2> SUFFICES ASSUME NEW n \in Messages, n # m, Active(n)' PROVE calls'[n].gen < session'.gen
    OBVIOUS
  <2>1. Active(n) /\ calls'[n].gen = calls[n].gen
    BY <1>1 DEF Active
  <2>2. calls[n].gen <= session.gen
    BY <2>1 DEF SteadyInv, Owned
  <2>3. QED
    BY <1>1, <2>1, <2>2, IdleFacts
<1>7. /\ session'.gen \in Nat
      /\ \A n \in Messages : Active(n)' => calls'[n].gen \in Nat /\ calls'[n].gen <= session'.gen
  <2>1. session'.gen \in Nat
    BY <1>1, IdleFacts
  <2>2. ASSUME NEW n \in Messages, Active(n)'
        PROVE  calls'[n].gen \in Nat /\ calls'[n].gen <= session'.gen
    BY <1>1, <1>6, <2>1, <2>2, IdleFacts
  <2>3. QED
    BY <2>1, <2>2
<1>8. \A n \in Messages : Active(n)' /\ Current(n)' => n = m
  BY <1>6, <1>7 DEF Current
<1>9. Current(m)'
  BY <1>1 DEF Current
<1>10. Owned'
  BY <1>1, <1>4, <1>5, <1>7, <1>8, <1>9 DEF Owned
<1>11. QED
  BY <1>2, <1>3, <1>10

LEMMA ChecksSteady ==
  ASSUME SteadyInv, NEW m \in Messages, Checks(m)
  PROVE  agent' \in Agents /\ Plain' /\ Resting' /\ Owned'
<1>1. Entering(m) /\ ends = <<>> /\ ends' = <<>>
  BY IdleFacts DEF Checks, Entering
<1>2. Resting'
  BY <1>1, NoEndsRests
<1>3. CASE session.processing /\ TakenMidTurn(m)
  <2>1. /\ calls' = [calls EXCEPT ![m].stage = "returned"] /\ session' = session
        /\ agent' = agent \/ agent' = [agent EXCEPT !.pending = Append(agent.pending, m)]
    BY <1>3 DEF TakenMidTurn, Returned
  <2>2. /\ \A n \in Messages : n # m => calls'[n] = calls[n]
        /\ calls'[m].stage = "returned"
    BY <2>1, IdleFacts, Moves DEF Stages
  <2>3. agent' \in Agents /\ agent'.active = agent.active /\ agent'.turn = agent.turn
    BY <2>1, IdleFacts DEF Agents
  <2>4. Owned'
    BY <1>1, <1>3, <2>1, <2>2, <2>3, OwnedKept DEF SteadyInv, Entering, Active
  <2>5. QED
    BY <1>2, <2>1, <2>3, <2>4 DEF SteadyInv, Plain
<1>4. CASE ~session.processing /\ Claim(m) /\ agent' = agent
  BY <1>1, <1>4, ClaimSteady
<1>5. CASE /\ ~session.processing /\ UNCHANGED <<session, agent>>
           /\ calls' = [calls EXCEPT ![m].stage = "persisting", ![m].seen = session.gen]
  <2>1. /\ \A n \in Messages : n # m => calls'[n] = calls[n]
        /\ calls'[m].stage = "persisting"
    BY <1>5, IdleFacts, LooksFirst
  <2>2. Owned'
    BY <1>1, <1>5, <2>1, OwnedKept DEF SteadyInv, Owned, Entering, Active
  <2>3. QED
    BY <1>2, <1>5, <2>2, IdleFacts DEF SteadyInv, Plain
<1>6. QED
  BY <1>3, <1>4, <1>5 DEF Checks

(* The end of the turn of call m. *)
LEMMA EndedSteady ==
  ASSUME SteadyInv, NoneEnters, NEW m \in Messages, Active(m), Current(m),
         calls[m].stage # "running", Returned(m), NEW reason, Ended(reason), agent' = agent
  PROVE  agent' \in Agents /\ Plain' /\ Resting' /\ Owned'
<1>1. /\ \A n \in Messages : n # m => calls'[n] = calls[n]
      /\ calls'[m].stage = "returned"
  BY IdleFacts, Moves DEF Returned, Stages
<1>2. /\ session'.gen = session.gen /\ session'.loaded = session.loaded
      /\ session'.retrying = session.retrying /\ session'.recovering = session.recovering
      /\ \/ session' = session /\ ends' = ends
         \/ /\ session'.processing = FALSE
            /\ ends' = Append(ends, [reason |-> reason, gen |-> session.gen, checked |-> FALSE])
  BY IdleFacts, Ends
<1>3. \A n \in Messages : Active(n) /\ Current(n) => n = m
  BY DEF SteadyInv, Owned
<1>4. ~agent.active
  BY <1>3 DEF SteadyInv, Owned, Active
<1>5. \A n \in Messages : calls'[n].stage # "preparing"
  BY <1>1, <1>3 DEF SteadyInv, Owned, Active
<1>6. \A n \in Messages : Active(n)' => Active(n) /\ calls'[n].gen = calls[n].gen
  BY <1>1 DEF Active
<1>7. Owned'
  BY <1>2, <1>4, <1>5, <1>6, OwnedKept DEF SteadyInv
<1>8. ends = <<>>
  BY IdleFacts
<1>9. CASE ends' = ends
  BY <1>2, <1>7, <1>8, <1>9, NoEndsRests DEF SteadyInv, Plain
<1>10. CASE ~(ends' = ends)
  <2> DEFINE e == [reason |-> reason, gen |-> session.gen, checked |-> FALSE]
  <2>1. e.checked = FALSE
    OBVIOUS
  <2>2. session'.processing = FALSE /\ ends' = Append(<<>>, e)
    BY <1>2, <1>8, <1>10
  <2> HIDE DEF e
  <2>3. ends' = <<e>> /\ ends'[1] = e
    BY <2>2, OneEnd
  <2>4. \A n \in Messages : ~Entering(n)'
    BY <1>1 DEF NoneEnters, Entering
  <2>5. \A n \in Messages : ~(Active(n)' /\ Current(n)')
    BY <1>1, <1>2, <1>3, <1>6 DEF Current, Active
  <2>6. Resting'
    BY <2>1, <2>2, <2>3, <2>4, <2>5 DEF Resting
  <2>7. QED
    BY <1>2, <1>7, <2>6 DEF SteadyInv, Plain
<1>11. QED
  BY <1>9, <1>10

LEMMA StartsChatSteady ==
  ASSUME SteadyInv, NEW m \in Messages, StartsChat(m)
  PROVE  agent' \in Agents /\ Plain' /\ Resting' /\ Owned'
<1>1. calls[m].stage = "preparing" /\ Current(m) /\ Active(m) /\ session.processing
  BY DEF StartsChat, SteadyInv, Owned, Active
<1>2. /\ \A n \in Messages : n # m => calls'[n] = calls[n]
      /\ calls'[m].stage = "running" /\ calls'[m].gen = calls[m].gen
  BY IdleFacts, Moves DEF StartsChat, Stages
<1>3. /\ session' = session /\ ends' = ends
      /\ agent' = [exists |-> TRUE, turn |-> session.gen, active |-> TRUE, pending |-> <<>>]
  BY DEF StartsChat
<1>4. ends' = <<>>
  BY <1>1, <1>3, IdleFacts
<1>5. agent' \in Agents /\ agent'.turn = session.gen
  BY <1>3, IdleFacts DEF Agents
<1>6. \A n \in Messages : Active(n)' => Active(n) /\ calls'[n].gen = calls[n].gen
  BY <1>1, <1>2 DEF Active
<1>7. Current(m)'
  BY <1>1, <1>2, <1>3 DEF Current
<1>8. \A n \in Messages : Current(n)' <=> Current(n)
  BY <1>2, <1>3 DEF Current
<1>9. \A n \in Messages : calls'[n].stage # "preparing"
  BY <1>1, <1>2 DEF SteadyInv, Owned, Active
<1>10. /\ \A n \in Messages : Active(n)' => calls'[n].gen <= session'.gen
       /\ \A k, n \in Messages : Active(k)' /\ Active(n)' /\ Current(k)' /\ Current(n)' => k = n
  BY <1>3, <1>6, <1>8 DEF SteadyInv, Owned
<1>11. Owned'
  BY <1>1, <1>2, <1>3, <1>5, <1>7, <1>9, <1>10 DEF Owned
<1>12. QED
  BY <1>3, <1>4, <1>5, <1>11, NoEndsRests DEF SteadyInv, Plain

(* A call moves on within the turn, or is over without ending it, and the   *)
(* backend is at work no longer, or goes on for another call.               *)
LEMMA WithinTurn ==
  ASSUME SteadyInv, NEW m \in Messages, Active(m), NEW st \in {"winding", "returned"},
         calls[m].stage # "preparing",
         calls' = [calls EXCEPT ![m].stage = st], session' = session, ends' = ends,
         agent' \in Agents, ends # <<>> => queue' = queue,
         agent'.active => agent' = agent /\ ~(calls[m].stage = "running" /\ Current(m))
  PROVE  agent' \in Agents /\ Plain' /\ Resting' /\ Owned'
<1>1. /\ \A n \in Messages : n # m => calls'[n] = calls[n]
      /\ calls'[m].stage = st /\ calls'[m].gen = calls[m].gen
  BY IdleFacts, Moves DEF Stages
<1>2. \A n \in Messages : Active(n)' => Active(n) /\ calls'[n].gen = calls[n].gen
  BY <1>1 DEF Active
<1>3. \A n \in Messages : Active(n)' /\ Current(n)' => Active(n) /\ Current(n)
  BY <1>2 DEF Current
<1>4. \A n \in Messages : Entering(n)' => Entering(n)
  BY <1>1 DEF Entering
<1>5. Resting'
  BY <1>3, <1>4, RestingKept DEF SteadyInv
<1>6. \A n \in Messages : calls'[n].stage = "preparing" =>
                            calls[n].stage = "preparing" /\ session'.processing
  BY <1>1 DEF SteadyInv, Owned
<1>7. Owned'
  BY <1>1, <1>2, <1>6, OwnedKept DEF SteadyInv, Owned
<1>8. QED
  BY <1>5, <1>7 DEF SteadyInv, Plain

LEMMA PausedAgent ==
  ASSUME agent \in Agents
  PROVE  Paused \in Agents /\ Paused.active = FALSE /\ Paused.pending = <<>>
<1> DEFINE p == <<>>
<1>1. p \in Seq(Messages)
  OBVIOUS
<1> HIDE DEF p
<1>2. Paused = [agent EXCEPT !.active = FALSE, !.pending = p]
  BY DEF Paused, p
<1>3. Paused \in Agents /\ Paused.active = FALSE /\ Paused.pending = p
  BY <1>1, <1>2 DEF Agents
<1>4. QED
  BY <1>3 DEF p

(* A turn that runs runs for its owner: nobody else's is taken for it. *)
LEMMA RunsForOwner ==
  ASSUME SteadyInv, agent.active, NEW m \in Messages, Active(m), Current(m)
  PROVE  Owns(m) /\ calls[m].stage = "running"
BY DEF SteadyInv, Owned, Owns, Current, Active

LEMMA TurnStepSteady ==
  ASSUME Steady, SteadyInv, NoneEnters, NEW m \in Messages, TurnStep(m)
  PROVE  agent' \in Agents /\ Plain' /\ Resting' /\ Owned'
<1>1. CASE StartsChat(m)
  BY <1>1, StartsChatSteady
<1>2. CASE NotStarted(m)
  <2>1. Current(m) /\ Active(m)
    BY <1>2 DEF NotStarted, SteadyInv, Owned, Active
  <2>2. QED
    BY <1>2, <2>1, EndedSteady DEF NotStarted
<1>3. CASE Superseded(m)
  <2>1. /\ Active(m) /\ ~Current(m) /\ calls' = [calls EXCEPT ![m].stage = "returned"]
        /\ calls[m].stage # "preparing"
        /\ UNCHANGED <<session, ends, queue>> /\ agent' \in {agent, Paused}
    BY <1>3 DEF Superseded, Returned, Active
  <2>2. agent' \in Agents /\ (agent'.active => agent' = agent)
    BY <2>1, PausedAgent, IdleFacts
  <2>3. QED
    BY <2>1, <2>2, WithinTurn
<1>4. CASE WindsDown(m)
  <2>1. /\ Active(m) /\ Current(m) /\ calls' = [calls EXCEPT ![m].stage = "winding"]
        /\ calls[m].stage = "running" /\ UNCHANGED <<session, ends>>
        /\ agent' = Paused \/ (~Owns(m) /\ agent' = agent)
    BY <1>4 DEF WindsDown, Active
  <2>2. agent' \in Agents /\ ~agent'.active
    BY <2>1, PausedAgent, RunsForOwner, IdleFacts
  <2>3. ends = <<>>
    BY <2>1, IdleFacts
  <2>4. QED
    BY <2>1, <2>2, <2>3, WithinTurn
<1>5. CASE Completes(m)
  <2>1. calls[m].stage = "winding" /\ Active(m) /\ Current(m) /\ Returned(m)
        /\ UNCHANGED <<agent, queue>>
        /\ (UNCHANGED <<session, ends>> \/ Ended("interrupted") \/ Ended("complete"))
    BY <1>5 DEF Completes, Active
  <2>2. CASE UNCHANGED <<session, ends>>
    <3>1. calls' = [calls EXCEPT ![m].stage = "returned"]
      BY <2>1 DEF Returned
    <3>2. QED
      BY <2>1, <2>2, <3>1, WithinTurn, IdleFacts
  <2>3. CASE Ended("interrupted")
    BY <2>1, <2>3, EndedSteady
  <2>4. CASE Ended("complete")
    BY <2>1, <2>4, EndedSteady
  <2>5. QED
    BY <2>1, <2>2, <2>3, <2>4
<1>6. QED
  BY <1>1, <1>2, <1>3, <1>4, <1>5 DEF TurnStep

LEMMA TroubleSteady ==
  ASSUME Steady, SteadyInv, NoneEnters, NEW m \in Messages, Trouble(m)
  PROVE  agent' \in Agents /\ Plain' /\ Resting' /\ Owned'
<1>1. CASE SetupFails(m)
  <2>1. calls[m].stage = "preparing" /\ Active(m) /\ Current(m) /\ Returned(m)
        /\ UNCHANGED <<agent, queue>> /\ (UNCHANGED <<session, ends>> \/ Ended("error"))
    BY <1>1 DEF SetupFails, SteadyInv, Owned, Active
  <2>2. CASE Ended("error")
    BY <2>1, <2>2, EndedSteady
  <2>3. CASE UNCHANGED <<session, ends>>
    <3>1. /\ \A n \in Messages : n # m => calls'[n] = calls[n]
          /\ calls'[m].stage = "returned"
      BY <2>1, IdleFacts, Moves DEF Returned, Stages
    <3>2. Owned'
      BY <2>1, <2>3, <3>1, OwnedKept DEF SteadyInv, Owned, Active
    <3>3. ends' = <<>>
      BY <2>1, <2>3, IdleFacts
    <3>4. QED
      BY <2>1, <2>3, <3>2, <3>3, NoEndsRests, IdleFacts DEF SteadyInv, Plain
  <2>4. QED
    BY <2>1, <2>2, <2>3
<1>2. CASE ChatFails(m)
  <2>1. calls[m].stage = "winding" /\ Active(m) /\ Current(m) /\ Returned(m)
        /\ Ended("error") /\ agent' = agent
    BY <1>2 DEF ChatFails, Active
  <2>2. QED
    BY <2>1, EndedSteady
<1>3. CASE Handoff(m)
  <2>1. /\ agent.active /\ session.processing /\ agent' = Paused
        /\ session' = [session EXCEPT !.processing = FALSE] /\ UNCHANGED <<calls, ends>>
    BY <1>3 DEF Handoff
  <2>2. /\ session'.processing = FALSE /\ session'.gen = session.gen
        /\ session'.loaded = session.loaded /\ session'.retrying = session.retrying
        /\ session'.recovering = session.recovering
    BY <2>1, IdleFacts DEF Sessions
  <2>3. \A n \in Messages : calls[n].stage # "preparing"
    BY <2>1, RunsForOwner DEF SteadyInv, Owned, Active
  <2>4. agent' \in Agents /\ ~agent'.active
    BY <2>1, PausedAgent, IdleFacts
  <2>5. Owned'
    BY <2>1, <2>2, <2>3, <2>4, OwnedKept DEF SteadyInv, Active
  <2>6. ends' = <<>>
    BY <2>1, IdleFacts
  <2>7. QED
    BY <2>2, <2>4, <2>5, <2>6, NoEndsRests DEF SteadyInv, Plain
<1>4. CASE AuthFails(m)
  BY <1>4 DEF AuthFails, Mishap, Steady
<1>5. QED
  BY <1>1, <1>2, <1>3, <1>4 DEF Trouble

LEMMA SendSteady ==
  ASSUME Steady, SteadyInv, NEW m \in Messages, Send(m)
  PROVE  agent' \in Agents /\ Plain' /\ Resting' /\ Owned'
<1>1. /\ calls[m].stage = "unsent" /\ ends' = <<>> /\ agent' = agent
      /\ calls' = [calls EXCEPT ![m] = Call("entered", FALSE, FALSE)]
      /\ session' = [session EXCEPT !.fromUser = m \notin Nudges]
  BY DEF Send, Steady
<1>2. /\ \A n \in Messages : n # m => calls'[n] = calls[n]
      /\ calls'[m].stage = "entered"
  BY <1>1, IdleFacts, IsCalled DEF Stages
<1>3. /\ session'.processing = session.processing /\ session'.gen = session.gen
      /\ session'.loaded = session.loaded /\ session'.retrying = session.retrying
      /\ session'.recovering = session.recovering
  BY <1>1, IdleFacts DEF Sessions
<1>4. \A n \in Messages : Active(n)' => Active(n) /\ calls'[n].gen = calls[n].gen
  BY <1>2 DEF Active
<1>5. Owned'
  BY <1>1, <1>2, <1>3, <1>4, OwnedKept DEF SteadyInv, Owned
<1>6. QED
  BY <1>1, <1>3, <1>5, NoEndsRests DEF SteadyInv, Plain

LEMMA EndStepSteady ==
  ASSUME Steady, SteadyInv, NoneEnters, NEW i \in DOMAIN ends, EndStep(i)
  PROVE  agent' \in Agents /\ Plain' /\ Resting' /\ Owned'
<1>1. PICK e : ends = <<e>>
  BY DEF SteadyInv, Resting
<1>2. i = 1 /\ ends # <<>> /\ RemoveAt(ends, i) = <<>>
  BY <1>1, OneEnd
<1>3. ~session.processing /\ ~agent.active /\ agent' = agent
  BY <1>2 DEF SteadyInv, Resting, Owned, EndStep, EndChecksQueue, EndReports
<1>4. \A n \in Messages : calls[n].stage # "preparing"
  BY <1>3 DEF SteadyInv, Owned
<1>5. CASE ends' = <<>> /\ ProcessNext(session)
  <2>1. /\ session'.gen = session.gen /\ session'.processing = session.processing
        /\ session'.loaded = session.loaded /\ session'.retrying = session.retrying
        /\ session'.recovering = session.recovering
        /\ \/ calls' = calls
           \/ \E h \in Messages : /\ \A n \in Messages : n # h => calls'[n] = calls[n]
                                  /\ calls'[h].stage = "entered"
    BY <1>5, IdleFacts, ProcessesNext
  <2>2. \A n \in Messages : Active(n)' => calls'[n] = calls[n]
    BY <2>1 DEF Active
  <2>3. \A n \in Messages : Active(n)' => Active(n) /\ calls'[n].gen = calls[n].gen
    BY <2>2 DEF Active
  <2>4. \A n \in Messages : calls'[n].stage # "preparing"
    BY <1>4, <2>2 DEF Active
  <2>5. Owned'
    BY <1>3, <2>1, <2>3, <2>4, OwnedKept DEF SteadyInv
  <2>6. QED
    BY <1>3, <1>5, <2>1, <2>5, NoEndsRests DEF SteadyInv, Plain
<1>6. CASE /\ ends' = [ends EXCEPT ![i].checked = TRUE] /\ queue = <<>>
           /\ UNCHANGED <<queue, calls, session>>
  <2>1. \E u : ends' = <<u>>
    <3> DEFINE u == [ends[1] EXCEPT !.checked = TRUE]
    <3>1. ends' = [ends EXCEPT ![1] = u]
      BY <1>2, <1>6
    <3> HIDE DEF u
    <3>2. ends' = <<u>>
      BY <1>1, <3>1
    <3>3. QED
      BY <3>2
  <2>2. ends' # <<>>
    BY <2>1, OneEnd
  <2>3. Resting'
    <3>1. \A n \in Messages : ~Entering(n)' /\ ~(Active(n)' /\ Current(n)')
      BY <1>2, <1>6 DEF SteadyInv, Resting, Entering, Active, Current
    <3>2. ~session'.processing /\ queue' = <<>>
      BY <1>3, <1>6
    <3>3. QED
      BY <2>1, <3>1, <3>2 DEF Resting
  <2>4. Owned'
    BY <1>3, <1>6 DEF SteadyInv, Owned, Active, Current
  <2>5. QED
    BY <1>3, <1>6, <2>3, <2>4 DEF SteadyInv, Plain
<1>7. CASE ends' = <<>> /\ UNCHANGED <<calls, session>>
  <2>1. Owned'
    BY <1>3, <1>7 DEF SteadyInv, Owned, Active, Current
  <2>2. QED
    BY <1>3, <1>7, <2>1, NoEndsRests DEF SteadyInv, Plain
<1>8. QED
  BY <1>2, <1>5, <1>6, <1>7 DEF EndStep, EndChecksQueue, EndReports

(* The calls and the owner of the turn stay; the backend may stop. *)
LEMMA CallsStay ==
  ASSUME SteadyInv, calls' = calls, ends' = ends, queue' = queue \/ queue' = <<>>,
         session'.processing = session.processing, session'.gen = session.gen,
         Plain', agent' \in Agents,
         agent'.active => agent.active /\ agent'.turn = agent.turn
  PROVE  agent' \in Agents /\ Plain' /\ Resting' /\ Owned'
<1>1. \A n \in Messages : /\ Active(n)' <=> Active(n)
                          /\ Current(n)' <=> Current(n)
                          /\ Entering(n)' <=> Entering(n)
  BY DEF Active, Current, Entering
<1>2. Resting'
  BY <1>1, RestingKept DEF SteadyInv
<1>3. Owned'
  BY <1>1, OwnedKept DEF SteadyInv, Owned
<1>4. QED
  BY <1>2, <1>3

LEMMA SessionStepSteady ==
  ASSUME Steady, SteadyInv, ToolBoundary \/ Stop \/ Delete
  PROVE  agent' \in Agents /\ Plain' /\ Resting' /\ Owned'
<1>1. CASE ToolBoundary
  <2> DEFINE p == <<>>
  <2>1. agent' = [agent EXCEPT !.pending = p] /\ UNCHANGED <<session, queue, calls, ends>>
    BY <1>1 DEF ToolBoundary
  <2>2. p \in Seq(Messages)
    OBVIOUS
  <2> HIDE DEF p
  <2>3. agent' \in Agents /\ agent'.active = agent.active /\ agent'.turn = agent.turn
    BY <2>1, <2>2, IdleFacts DEF Agents
  <2>4. QED
    BY <2>1, <2>3, CallsStay DEF SteadyInv, Plain
<1>2. CASE Stop
  <2> DEFINE e == session.stopEpoch + 1
  <2>1. /\ agent' = Paused /\ queue' = <<>> /\ UNCHANGED <<calls, ends>>
        /\ session' = [session EXCEPT !.stopRequested = TRUE, !.stopEpoch = e]
    BY <1>2, Zenon DEF Stop
  <2> HIDE DEF e
  <2>2. /\ session'.processing = session.processing /\ session'.gen = session.gen
        /\ session'.loaded = session.loaded /\ session'.retrying = session.retrying
        /\ session'.recovering = session.recovering
    BY <2>1, IdleFacts DEF Sessions
  <2>3. agent' \in Agents /\ ~agent'.active
    BY <2>1, PausedAgent, IdleFacts
  <2>4. QED
    BY <2>1, <2>2, <2>3, CallsStay DEF SteadyInv, Plain
<1>3. CASE Delete
  <2>1. /\ agent' = [agent EXCEPT !.active = FALSE] /\ UNCHANGED <<calls, ends, queue>>
        /\ session' = [session EXCEPT !.deleted = TRUE]
    BY <1>3 DEF Delete
  <2>2. /\ session'.processing = session.processing /\ session'.gen = session.gen
        /\ session'.loaded = session.loaded /\ session'.retrying = session.retrying
        /\ session'.recovering = session.recovering
    BY <2>1, IdleFacts DEF Sessions
  <2>3. agent' \in Agents /\ ~agent'.active
    BY <2>1, IdleFacts DEF Agents
  <2>4. QED
    BY <2>1, <2>2, <2>3, CallsStay DEF SteadyInv, Plain
<1>4. QED
  BY <1>1, <1>2, <1>3

LEMMA InitSteady == Steady /\ Init => SteadyInv
<1> SUFFICES ASSUME Steady, Init PROVE SteadyInv
  OBVIOUS
<1>1. OneInv
  BY InitOne
<1>2. agent \in Agents /\ agent.active = FALSE
  BY DEF Init, NoAgent, Agents
<1>3. Plain
  BY DEF Init, Plain, Steady
<1>4. \A m \in Messages : ~Active(m)
  BY DEF Init, Call, Active
<1>5. Resting /\ Owned
  BY <1>2, <1>4 DEF Init, Resting, Owned, Active
<1>6. left = {}
  BY DEF Init
<1>7. QED
  BY <1>1, <1>2, <1>3, <1>5, <1>6 DEF SteadyInv

LEMMA StepSteady ==
  ASSUME Steady, SteadyInv, [Next]_vars
  PROVE  SteadyInv'
<1>1. OneInv'
  BY StepOne DEF Steady, SteadyInv
<1>2. Ready \/ Free => NoneEnters
  BY DEF Free, Ready, NoneEnters, Entering, Steady
<1>3. ASSUME NEW m \in Messages, CallStep(m)
      PROVE  agent' \in Agents /\ Plain' /\ Resting' /\ Owned'
  <2>1. CASE Persisted(m)
    <3>1. Entering(m) /\ ~session.processing
      BY <2>1, IdleFacts DEF Persisted, Entering, OneInv, OneEnters
    <3>2. QED
      BY <2>1, <3>1, ClaimSteady DEF Persisted
  <2>2. QED
    BY <1>2, <1>3, <2>1, ChecksSteady, TurnStepSteady DEF CallStep, TakenIn
<1>4. ASSUME NEW m \in Messages, Send(m) \/ (Ready /\ Trouble(m))
      PROVE  agent' \in Agents /\ Plain' /\ Resting' /\ Owned'
  BY <1>2, <1>4, SendSteady, TroubleSteady
<1>5. ASSUME NEW i \in DOMAIN ends, EndStep(i)
      PROVE  agent' \in Agents /\ Plain' /\ Resting' /\ Owned'
  BY <1>2, <1>5, EndStepSteady DEF EndStep
<1>6. ~TimerStep /\ ~Load
  BY DEF TimerStep, Recovers, AuthRetries, StopTimesOut, Load, Steady, SteadyInv, Plain
<1>7. ASSUME Ready /\ (ToolBoundary \/ Stop \/ Delete)
      PROVE  agent' \in Agents /\ Plain' /\ Resting' /\ Owned'
  BY <1>2, <1>7, SessionStepSteady
<1>8. ASSUME UNCHANGED vars
      PROVE  agent' \in Agents /\ Plain' /\ Resting' /\ Owned'
  <2>1. UNCHANGED <<session, queue, agent, calls, ends>>
    BY <1>8 DEF vars
  <2>2. QED
    BY <2>1, CallsStay DEF SteadyInv, Plain
<1>9. left = {} /\ left' = {}
  BY LeftByRetries DEF AuthRetries, SteadyInv, Plain
<1>10. agent' \in Agents /\ Plain' /\ Resting' /\ Owned'
  BY <1>3, <1>4, <1>5, <1>6, <1>7, <1>8, <1>9 DEF Next
<1>11. QED
  BY <1>1, <1>9, <1>10 DEF SteadyInv

LEMMA SteadyInvHolds ==
  ASSUME Steady
  PROVE  Spec => []SteadyInv
<1>1. SteadyInv /\ [Next]_vars => SteadyInv'
  BY StepSteady
<1>2. QED
  BY <1>1, InitSteady, PTL DEF Spec

(* A report is made by the end of a turn, and by nothing else. *)
LEMMA ReportsByEnds ==
  ASSUME [Next]_vars, report' # report
  PROVE  \E i \in DOMAIN ends : Free /\ EndReports(i)
<1>1. ASSUME NEW m \in Messages PROVE ~Send(m) /\ ~CallStep(m) /\ ~Trouble(m)
  BY DEF Send, CallStep, TakenIn, Checks, Persisted, TurnStep, StartsChat, NotStarted, Superseded,
     WindsDown, Completes, Trouble, SetupFails, ChatFails, Handoff, AuthFails
<1>2. ~TimerStep /\ ~Load /\ ~ToolBoundary /\ ~Stop /\ ~Delete
  BY DEF TimerStep, Recovers, AuthRetries, StopTimesOut, Load, ToolBoundary, Stop, Delete
<1>3. ASSUME NEW i \in DOMAIN ends PROVE ~EndChecksQueue(i)
  BY DEF EndChecksQueue
<1>4. ASSUME NEW c \in left PROVE ~LeftStep(c)
  BY DEF LeftStep, LeftStarts, LeftEnds
<1>5. ~UNCHANGED vars
  BY DEF vars
<1>6. QED
  BY <1>1, <1>2, <1>3, <1>4, <1>5 DEF Next, EndStep

(* A completion is reported of an idle session with nothing queued, whatever *)
(* is stopped, handed over, fails, cannot be set up or is deleted: what      *)
(* arrives between the look at the queue and the report would have to be     *)
(* taken in first, and the end of a turn has only one call to come from.     *)
THEOREM ReportsWhenIdle ==
  ASSUME Steady
  PROVE  Spec => CompletionMeansIdle
<1>1. SteadyInv /\ [Next]_vars
        => [report' # report => ~session.processing /\ queue = <<>>]_vars
  <2> SUFFICES ASSUME SteadyInv, [Next]_vars, report' # report
               PROVE  ~session.processing /\ queue = <<>>
    OBVIOUS
  <2>1. PICK i \in DOMAIN ends : EndReports(i)
    BY ReportsByEnds
  <2>2. PICK e : ends = <<e>>
    BY <2>1 DEF SteadyInv, Resting
  <2>3. i = 1 /\ ends # <<>> /\ ends[i].checked
    BY <2>1, <2>2, OneEnd DEF EndReports
  <2>4. QED
    BY <2>3 DEF SteadyInv, Resting
<1>2. QED
  BY <1>1, SteadyInvHolds, PTL DEF Spec, CompletionMeansIdle

-----------------------------------------------------------------------------
(* Where messages wait: the queue, the backend's pending steers, and what   *)
(* the transcript shows of them.  Nothing here asks for messages to be      *)
(* taken in one at a time.                                                  *)

Bubble == [bubbles : Nat, pos : Nat, queued : BOOLEAN]
EndOf == [reason : {"complete", "interrupted", "error", "timeout"}, gen : Nat, checked : BOOLEAN]

(* The rest of the types. *)
Goods ==
  /\ queue \in Seq(Messages) /\ accepted \subseteq Messages
  /\ transcript \in [Messages -> Bubble]
  /\ agent \in Agents /\ ends \in Seq(EndOf)
  /\ delivered \in [Messages -> Nat]
  /\ mishaps \in Nat /\ timers \in 0 .. mishaps

LeftCalls == [message : Messages, started : BOOLEAN, caught : BOOLEAN, gen : Nat, epoch : Nat]

LEMMA TypesAre == Shapes /\ Goods /\ left \subseteq LeftCalls => TypeOK
BY DEF Shapes, Goods, TypeOK, Sessions, Calls, Bubble, EndOf, Agents, LeftCalls

(* Messages in s have bubbles in the order of s. *)
InOrder(t, s) == \A i, j \in DOMAIN s : i < j => t[s[i]].pos < t[s[j]].pos

(* No two bubbles are at one place. *)
Distinct == \A m, n \in Messages : transcript[m].pos > 0 /\ transcript[m].pos = transcript[n].pos => m = n

LEMMA OrderKept ==
  ASSUME NEW t, NEW u, NEW s, InOrder(t, s), \A m \in ToSet(s) : u[m].pos = t[m].pos
  PROVE  InOrder(u, s)
<1>1. \A i \in DOMAIN s : s[i] \in ToSet(s)
  BY DEF ToSet
<1>2. QED
  BY <1>1 DEF InOrder

LEMMA OrderEmpty ==
  ASSUME NEW t
  PROVE  InOrder(t, <<>>) /\ ToSet(<<>>) = {} /\ <<>> \in Seq(Messages)
BY DEF InOrder, ToSet

LEMMA OrderTail ==
  ASSUME NEW t, NEW s \in Seq(Messages), s # <<>>, InOrder(t, s), \A m \in Messages : t[m].pos \in Nat
  PROVE  InOrder(t, Tail(s)) /\ Head(s) \notin ToSet(Tail(s))
<1>1. /\ Head(s) = s[1] /\ 1 \in DOMAIN s /\ Tail(s) \in Seq(Messages)
      /\ DOMAIN s = 1 .. Len(s) /\ Len(s) \in Nat \ {0} /\ DOMAIN Tail(s) = 1 .. Len(s) - 1
      /\ \A i \in DOMAIN Tail(s) : i + 1 \in DOMAIN s /\ Tail(s)[i] = s[i + 1]
  BY TailElements
<1>2. InOrder(t, Tail(s))
  <2> SUFFICES ASSUME NEW i \in DOMAIN Tail(s), NEW j \in DOMAIN Tail(s), i < j
               PROVE  t[Tail(s)[i]].pos < t[Tail(s)[j]].pos
    BY DEF InOrder
  <2>1. i + 1 < j + 1
    BY <1>1
  <2>2. QED
    BY <1>1, <2>1 DEF InOrder
<1>3. ASSUME NEW i \in DOMAIN Tail(s), Tail(s)[i] = Head(s)
      PROVE  FALSE
  <2>1. 1 < i + 1 /\ i + 1 \in DOMAIN s /\ s[i + 1] = s[1]
    BY <1>1, <1>3
  <2>2. t[s[1]].pos < t[s[i + 1]].pos
    BY <1>1, <2>1 DEF InOrder
  <2>3. s[1] \in Messages
    BY <1>1
  <2>4. t[s[1]].pos \in Nat
    BY <2>3
  <2>5. QED
    BY <2>1, <2>2, <2>4
<1>4. QED
  BY <1>2, <1>3 DEF ToSet

LEMMA OrderAppend ==
  ASSUME NEW t, NEW s \in Seq(Messages), NEW m \in Messages, InOrder(t, s),
         \A n \in ToSet(s) : t[n].pos < t[m].pos
  PROVE  InOrder(t, Append(s, m))
<1> DEFINE a == Append(s, m)
<1>1. /\ Len(s) \in Nat /\ DOMAIN s = 1 .. Len(s) /\ DOMAIN a = 1 .. Len(s) + 1
      /\ \A i \in DOMAIN s : a[i] = s[i]
      /\ a[Len(s) + 1] = m
  BY AppendElements
<1> HIDE DEF a
<1>2. ASSUME NEW i \in DOMAIN a, NEW j \in DOMAIN a, i < j
      PROVE  t[a[i]].pos < t[a[j]].pos
  <2>1. i \in DOMAIN s
    BY <1>1, <1>2
  <2>2. CASE j \in DOMAIN s
    BY <1>1, <1>2, <2>1, <2>2 DEF InOrder
  <2>3. CASE j \notin DOMAIN s
    <3>1. j = Len(s) + 1 /\ s[i] \in ToSet(s)
      BY <1>1, <2>1, <2>3 DEF ToSet
    <3>2. QED
      BY <1>1, <2>1, <3>1
  <2>4. QED
    BY <2>2, <2>3
<1>3. QED
  BY <1>2 DEF InOrder, a

(* A message occurs once at most in a sequence that is in order. *)
LEMMA OrderOnce ==
  ASSUME NEW t, NEW s \in Seq(Messages), InOrder(t, s), \A n \in Messages : t[n].pos \in Nat,
         NEW m \in Messages
  PROVE  Times(s, m) = IF m \in ToSet(s) THEN 1 ELSE 0
<1> DEFINE D == {i \in DOMAIN s : s[i] = m}
<1>0. DOMAIN s = 1 .. Len(s) /\ Len(s) \in Nat
  BY LenProperties
<1>1. CASE m \notin ToSet(s)
  <2>1. D = {}
    BY <1>1 DEF ToSet
  <2>2. QED
    BY <1>1, <2>1, FS_EmptySet DEF Times
<1>2. CASE m \in ToSet(s)
  <2>1. PICK i \in DOMAIN s : s[i] = m
    BY <1>2 DEF ToSet
  <2>2. ASSUME NEW j \in D
        PROVE  j = i
    <3>1. t[m].pos \in Nat /\ ~(t[m].pos < t[m].pos)
      OBVIOUS
    <3>2. ~(i < j) /\ ~(j < i)
      BY <2>1, <3>1 DEF InOrder
    <3>3. QED
      BY <1>0, <2>1, <3>2
  <2>3. D = {i}
    BY <2>1, <2>2
  <2>4. Cardinality({i}) = 1
    BY FS_Singleton
  <2>5. QED
    BY <1>2, <2>3, <2>4 DEF Times
<1>3. QED
  BY <1>1, <1>2

(* A new bubble comes after every other. *)
LEMMA PushedFacts ==
  ASSUME transcript \in [Messages -> Bubble], NEW m \in Messages, NEW b \in BOOLEAN
  PROVE  /\ Pushed(m, b) \in [Messages -> Bubble]
         /\ \A n \in Messages : n # m => Pushed(m, b)[n] = transcript[n]
         /\ Pushed(m, b)[m].queued = b /\ Pushed(m, b)[m].bubbles > 0 /\ Pushed(m, b)[m].pos > 0
         /\ \A n \in Messages : transcript[n].pos < Pushed(m, b)[m].pos
<1> DEFINE P == {transcript[n].pos : n \in Messages} \cup {0}
           last == Max(P)
           f == [n \in 1 .. MaxMessages |-> transcript[n].pos]
<1>1. \A n \in Messages : transcript[n] \in Bubble /\ transcript[n].pos \in Nat
  BY DEF Bubble
<1>2. MaxMessages \in Nat /\ f \in [1 .. MaxMessages -> Nat]
  BY <1>1, SessionTurnsAssumption DEF Messages
<1> HIDE DEF f
<1>3. PICK b1 \in Nat : \A n \in 1 .. MaxMessages : f[n] <= b1
  BY <1>2, Bounded
<1>4. P \subseteq 0 .. b1 /\ P # {}
  <2>1. \A n \in Messages : transcript[n].pos \in 0 .. b1
    BY <1>1, <1>3 DEF f, Messages
  <2>2. QED
    BY <2>1
<1>5. last \in P /\ \A k \in P : k <= last
  <2> HIDE DEF P
  <2>1. QED
    BY <1>4, MaxFacts
<1>6. last \in Nat /\ \A n \in Messages : transcript[n].pos <= last
  BY <1>4, <1>5
<1> DEFINE c == [bubbles |-> transcript[m].bubbles + 1, pos |-> last + 1, queued |-> b]
<1>7. Pushed(m, b) = [transcript EXCEPT ![m] = c]
  BY DEF Pushed
<1> HIDE DEF last, P
<1>8. c \in Bubble /\ c.queued = b /\ c.bubbles > 0 /\ c.pos = last + 1
  BY <1>1, <1>6 DEF Bubble
<1> HIDE DEF c
<1>9. Pushed(m, b)[m] = c
  BY <1>7
<1>10. \A n \in Messages : transcript[n].pos < last + 1
  BY <1>1, <1>6
<1>11. last + 1 > 0
  BY <1>6
<1>12. QED
  BY <1>7, <1>8, <1>9, <1>10, <1>11
LEMMA MinFacts ==
  ASSUME NEW T, T \subseteq Nat, T # {}
  PROVE  Min(T) \in T /\ \A n \in T : Min(T) <= n
<1> DEFINE P(k) == \A n \in T : k =< n
<1>1. Min(T) = CHOOSE k \in T : P(k)
  BY DEF Min
<1>2. \E k \in T : P(k)
  BY Least
<1> HIDE DEF P
<1>3. Min(T) \in T /\ P(Min(T))
  BY <1>1, <1>2, Zenon
<1>4. QED
  BY <1>3 DEF P

(* A steer put back is before the first message that arrived after it. *)
LEMMA RequeueFacts ==
  ASSUME NEW q \in Seq(Messages), NEW m \in Messages
  PROVE  /\ Requeue(q, m) \in Seq(Messages)
         /\ ToSet(Requeue(q, m)) = ToSet(q) \cup {m}
         /\ transcript \in [Messages -> Bubble] /\ Distinct /\ InOrder(transcript, q)
              /\ transcript[m].pos > 0 /\ m \notin ToSet(q)
            => InOrder(transcript, Requeue(q, m))
<1> DEFINE later == {i \in DOMAIN q : transcript[q[i]].pos > transcript[m].pos}
           r == Requeue(q, m)
           k == Min(later)
<1>1. DOMAIN q = 1 .. Len(q) /\ Len(q) \in Nat /\ \A i \in DOMAIN q : q[i] \in Messages
  BY LenProperties, ElementOfSeq
<1>2. r = IF later = {} THEN Append(q, m) ELSE InsertAt(q, k, m)
  BY DEF Requeue
<1>3. later # {} => k \in later /\ \A i \in later : k <= i
  <2>1. later \subseteq Nat
    BY <1>1
  <2> HIDE DEF later
  <2>2. QED
    BY <2>1, MinFacts
<1> HIDE DEF k, r
<1>4. CASE later = {}
  <2>1. r = Append(q, m)
    BY <1>2, <1>4
  <2>2. r \in Seq(Messages) /\ ToSet(r) = ToSet(q) \cup {m}
    <3> HIDE DEF later
    <3>1. QED
      BY <2>1, AppendElements
  <2>3. ASSUME transcript \in [Messages -> Bubble], Distinct, InOrder(transcript, q),
               transcript[m].pos > 0, m \notin ToSet(q)
        PROVE  InOrder(transcript, r)
    <3>1. ASSUME NEW n \in ToSet(q)
          PROVE  transcript[n].pos < transcript[m].pos
      <4>1. PICK i \in DOMAIN q : q[i] = n
        BY DEF ToSet
      <4>2. n \in Messages /\ n # m /\ ~(transcript[n].pos > transcript[m].pos)
        BY <1>1, <1>4, <2>3, <4>1
      <4>3. transcript[n].pos \in Nat /\ transcript[m].pos \in Nat
        BY <2>3, <4>2 DEF Bubble
      <4>4. transcript[n].pos # transcript[m].pos
        BY <2>3, <4>2 DEF Distinct
      <4>5. QED
        BY <4>2, <4>3, <4>4
    <3> HIDE DEF later
    <3>2. QED
      BY <2>1, <2>3, <3>1, OrderAppend
  <2>4. QED
    BY <2>2, <2>3 DEF r
<1>5. CASE later # {}
  <2>1. r = InsertAt(q, k, m) /\ k \in DOMAIN q /\ transcript[q[k]].pos > transcript[m].pos
    BY <1>2, <1>3, <1>5
  <2>2. \A i \in DOMAIN q : i < k => ~(transcript[q[i]].pos > transcript[m].pos)
    <3>1. TAKE i \in DOMAIN q
    <3>2. i \in later => k <= i
      BY <1>3, <1>5
    <3>3. QED
      BY <1>1, <2>1, <3>2
  <2> HIDE DEF later
  <2>3. /\ r \in Seq(Messages) /\ DOMAIN r = 1 .. Len(q) + 1
        /\ \A i \in 1 .. Len(q) + 1 :
             r[i] = IF i < k THEN q[i] ELSE IF i = k THEN m ELSE q[i - 1]
        /\ ToSet(r) = ToSet(q) \cup {m}
    BY <2>1, InsertAtElements
  <2>4. ASSUME transcript \in [Messages -> Bubble], Distinct, InOrder(transcript, q),
               transcript[m].pos > 0, m \notin ToSet(q)
        PROVE  InOrder(transcript, r)
    <3>1. \A n \in Messages : transcript[n].pos \in Nat
      BY <2>4 DEF Bubble
    <3>2. ASSUME NEW i \in DOMAIN q, i < k
          PROVE  transcript[q[i]].pos < transcript[m].pos
      <4>1. q[i] \in Messages /\ q[i] # m
        BY <1>1, <2>4 DEF ToSet
      <4>2. transcript[q[i]].pos # transcript[m].pos
        BY <2>4, <4>1 DEF Distinct
      <4>3. QED
        BY <2>2, <3>1, <3>2, <4>1, <4>2
    <3>3. ASSUME NEW i \in DOMAIN q, k <= i
          PROVE  transcript[m].pos < transcript[q[i]].pos
      <4>1. CASE i = k
        BY <1>1, <2>1, <3>1, <4>1
      <4>2. CASE i # k
        <5>1. k < i
          BY <1>1, <2>1, <3>3, <4>2
        <5>2. transcript[q[k]].pos < transcript[q[i]].pos
          BY <2>1, <2>4, <5>1 DEF InOrder
        <5>3. transcript[q[k]].pos \in Nat /\ transcript[q[i]].pos \in Nat
          BY <1>1, <2>1, <3>1
        <5>4. QED
          BY <2>1, <3>1, <5>2, <5>3
      <4>3. QED
        BY <4>1, <4>2
    <3>4. ASSUME NEW i \in DOMAIN r, NEW j \in DOMAIN r, i < j
          PROVE  transcript[r[i]].pos < transcript[r[j]].pos
      <4>0. i \in 1 .. Len(q) + 1 /\ j \in 1 .. Len(q) + 1 /\ k \in 1 .. Len(q) /\ Len(q) \in Nat
        BY <1>1, <2>1, <2>3
      <4>1. CASE j < k
        <5>1. i \in DOMAIN q /\ j \in DOMAIN q /\ r[i] = q[i] /\ r[j] = q[j]
          BY <1>1, <2>3, <3>4, <4>0, <4>1
        <5>2. QED
          BY <2>4, <3>4, <5>1 DEF InOrder
      <4>2. CASE j = k
        <5>1. i \in DOMAIN q /\ i < k /\ r[i] = q[i] /\ r[j] = m
          BY <1>1, <2>3, <3>4, <4>0, <4>2
        <5>2. QED
          BY <3>2, <5>1
      <4>3. CASE j > k /\ i < k
        <5>1. /\ i \in DOMAIN q /\ j - 1 \in DOMAIN q /\ i < j - 1
              /\ r[i] = q[i] /\ r[j] = q[j - 1]
          BY <1>1, <2>3, <3>4, <4>0, <4>3
        <5>2. QED
          BY <2>4, <5>1 DEF InOrder
      <4>4. CASE j > k /\ i = k
        <5>1. j - 1 \in DOMAIN q /\ k <= j - 1 /\ r[i] = m /\ r[j] = q[j - 1]
          BY <1>1, <2>3, <3>4, <4>0, <4>4
        <5>2. QED
          BY <3>3, <5>1
      <4>5. CASE j > k /\ i > k
        <5>1. /\ i - 1 \in DOMAIN q /\ j - 1 \in DOMAIN q /\ i - 1 < j - 1
              /\ r[i] = q[i - 1] /\ r[j] = q[j - 1]
          BY <1>1, <2>3, <3>4, <4>0, <4>5
        <5>2. QED
          BY <2>4, <5>1 DEF InOrder
      <4>6. QED
        BY <4>0, <4>1, <4>2, <4>3, <4>4, <4>5
    <3>5. QED
      BY <3>4 DEF InOrder
  <2>5. QED
    BY <2>3, <2>4 DEF r
<1>6. QED
  BY <1>4, <1>5

(* The queue while the pending steers are looked at. *)
LEMMA LookedAtFacts ==
  ASSUME queue \in Seq(Messages), agent \in Agents
  PROVE  /\ LookedAt \in [0 .. Len(agent.pending) -> Seq(Messages)] /\ LookedAt[0] = queue
         /\ Len(agent.pending) \in Nat
         /\ \A k \in 1 .. Len(agent.pending) :
              /\ agent.pending[k] \in Messages
              /\ LookedAt[k] = IF agent.pending[k] \in accepted
                               THEN Requeue(LookedAt[k - 1], agent.pending[k])
                               ELSE LookedAt[k - 1]
<1> DEFINE p == agent.pending
           l == Len(p)
           S == Seq(Messages)
           Is(f) == f = [k \in 0 .. l |->
                           IF k = 0 THEN queue
                           ELSE IF p[k] \in accepted THEN Requeue(f[k - 1], p[k])
                           ELSE f[k - 1]]
<1>1. l \in Nat /\ \A k \in 1 .. l : p[k] \in Messages
  <2>1. p \in S
    BY DEF Agents
  <2>2. QED
    BY <2>1, LenProperties, ElementOfSeq
<1>2. LookedAt = CHOOSE f : Is(f)
  BY Zenon DEF LookedAt
<1> HIDE DEF S, l
<1> DEFINE step == [kq \in Nat \X S |-> IF kq[1] \in 1 .. l /\ p[kq[1]] \in accepted
                                        THEN Requeue(kq[2], p[kq[1]]) ELSE kq[2]]
<1>3. step \in [Nat \X S -> S]
  <2>1. ASSUME NEW k \in 1 .. l, NEW q \in S
        PROVE  Requeue(q, p[k]) \in S
    BY <1>1, <2>1, RequeueFacts DEF S
  <2>2. ASSUME NEW kq \in Nat \X S
        PROVE  step[kq] \in S
    BY <2>1
  <2>3. QED
    BY <2>2
<1>4. \A k \in 1 .. l : \A q \in S :
        step[<<k, q>>] = IF p[k] \in accepted THEN Requeue(q, p[k]) ELSE q
  <2>1. TAKE k \in 1 .. l
  <2>2. TAKE q \in S
  <2>3. <<k, q>> \in Nat \X S /\ <<k, q>>[1] = k /\ <<k, q>>[2] = q
    BY <1>1
  <2>4. QED
    BY <2>3
<1> HIDE DEF step
<1>5. PICK f \in [0 .. l -> S] : f[0] = queue /\ \A k \in 1 .. l : f[k] = step[<<k, f[k - 1]>>]
  <2>1. queue \in S
    BY DEF S
  <2>2. \A n \in Nat : \E f \in [0 .. n -> S] : Iterates(f, n, queue, step)
    BY <1>3, <2>1, Iteration
  <2>3. QED
    BY <1>1, <2>2 DEF Iterates
<1>6. Is(f)
  <2>1. ASSUME NEW k \in 0 .. l
        PROVE  f[k] = IF k = 0 THEN queue
                      ELSE IF p[k] \in accepted THEN Requeue(f[k - 1], p[k]) ELSE f[k - 1]
    <3>1. CASE k = 0
      BY <1>5, <3>1
    <3>2. CASE k # 0
      <4>1. k \in 1 .. l /\ k - 1 \in 0 .. l
        BY <1>1, <3>2
      <4>2. f[k - 1] \in S /\ f[k] = step[<<k, f[k - 1]>>]
        BY <1>5, <4>1
      <4>3. QED
        BY <1>4, <3>2, <4>1, <4>2
    <3>3. QED
      BY <3>1, <3>2
  <2>2. QED
    BY <2>1
<1>7. Is(LookedAt)
  <2> HIDE DEF Is
  <2>1. QED
    BY <1>2, <1>6, Zenon
<1>8. ASSUME NEW k \in 0 .. l
      PROVE  LookedAt[k] = IF k = 0 THEN queue
                           ELSE IF p[k] \in accepted THEN Requeue(LookedAt[k - 1], p[k])
                           ELSE LookedAt[k - 1]
  <2> DEFINE F == LookedAt
  <2>1. Is(F)
    BY <1>7
  <2> HIDE DEF F
  <2>2. F[k] = IF k = 0 THEN queue
               ELSE IF p[k] \in accepted THEN Requeue(F[k - 1], p[k]) ELSE F[k - 1]
    BY <2>1
  <2>3. QED
    BY <2>2 DEF F
<1>9. LookedAt[0] = queue
  BY <1>1, <1>8
<1>10. \A k \in 1 .. l : LookedAt[k] = IF p[k] \in accepted THEN Requeue(LookedAt[k - 1], p[k])
                                       ELSE LookedAt[k - 1]
  <2>1. TAKE k \in 1 .. l
  <2>2. k \in 0 .. l /\ k # 0
    BY <1>1
  <2>3. QED
    BY <1>8, <2>2
<1>11. LookedAt = f
  <2> DEFINE F == LookedAt
             T == {k \in Nat : k \in 0 .. l => F[k] = f[k]}
  <2>1. 0 \in T
    BY <1>5, <1>9
  <2>2. ASSUME NEW k \in Nat, k \in T
        PROVE  k + 1 \in T
    <3>1. CASE k + 1 \in 0 .. l
      <4>1. k + 1 \in 1 .. l /\ k \in 0 .. l /\ k + 1 - 1 = k
        BY <1>1, <3>1
      <4>2. F[k] = f[k] /\ f[k] \in S
        BY <1>5, <2>2, <4>1
      <4>3. f[k + 1] = step[<<k + 1, f[k]>>]
        BY <1>5, <4>1
      <4>4. f[k + 1] = IF p[k + 1] \in accepted THEN Requeue(f[k], p[k + 1]) ELSE f[k]
        BY <1>4, <4>1, <4>2, <4>3
      <4>5. F[k + 1] = IF p[k + 1] \in accepted THEN Requeue(F[k], p[k + 1]) ELSE F[k]
        BY <1>10, <4>1
      <4>6. QED
        BY <4>2, <4>4, <4>5
    <3>2. QED
      BY <3>1
  <2>3. \A k \in Nat : k \in T
    <3> HIDE DEF T
    <3>1. QED
      BY <2>1, <2>2, InductionOver
  <2>4. \A k \in 0 .. l : F[k] = f[k]
    BY <1>1, <2>3
  <2>5. F = [k \in 0 .. l |-> F[k]]
    <3>1. Is(F)
      BY <1>7
    <3> HIDE DEF F
    <3>2. QED
      BY <3>1
  <2> HIDE DEF F
  <2>6. F = f
    BY <1>5, <2>4, <2>5
  <2>7. QED
    BY <2>6 DEF F
<1>12. LookedAt \in [0 .. l -> Seq(Messages)]
  BY <1>5, <1>11 DEF S
<1> HIDE DEF step, Is
<1>13. QED
  BY <1>1, <1>9, <1>10, <1>12 DEF l
(* Recovery puts the accepted steers that are pending back among what is    *)
(* queued, in the order in which everything arrived.                        *)
LEMMA RecoveryFacts ==
  ASSUME queue \in Seq(Messages), agent \in Agents, transcript \in [Messages -> Bubble], Distinct,
         InOrder(transcript, queue), InOrder(transcript, agent.pending),
         \A m \in ToSet(agent.pending) : m \notin ToSet(queue) /\ transcript[m].pos > 0
  PROVE  /\ Recovery \in Seq(Messages) /\ InOrder(transcript, Recovery)
         /\ ToSet(Recovery) = ToSet(queue) \cup Undelivered
<1> DEFINE p == agent.pending
           l == Len(p)
           Back(k) == {p[i] : i \in {j \in 1 .. k : p[j] \in accepted}}
           F == LookedAt
           T == {k \in Nat : k \in 0 .. l => /\ InOrder(transcript, F[k])
                                             /\ ToSet(F[k]) = ToSet(queue) \cup Back(k)}
<1>1. /\ F \in [0 .. l -> Seq(Messages)] /\ F[0] = queue /\ l \in Nat
      /\ \A k \in 1 .. l : /\ p[k] \in Messages
                           /\ F[k] = IF p[k] \in accepted THEN Requeue(F[k - 1], p[k])
                                     ELSE F[k - 1]
  BY LookedAtFacts
<1>2. p \in Seq(Messages) /\ DOMAIN p = 1 .. l
  <2>1. p \in Seq(Messages)
    BY DEF Agents
  <2>2. QED
    BY <2>1, LenProperties
<1> HIDE DEF F
<1>3. 0 \in T
  <2>1. Back(0) = {}
    OBVIOUS
  <2>2. QED
    BY <1>1, <2>1
<1>4. ASSUME NEW k \in Nat, k \in T
      PROVE  k + 1 \in T
  <2>1. CASE k + 1 \in 0 .. l
    <3>1. k + 1 \in 1 .. l /\ k \in 0 .. l /\ k + 1 - 1 = k
      BY <1>1, <2>1
    <3>2. /\ F[k] \in Seq(Messages) /\ InOrder(transcript, F[k])
          /\ ToSet(F[k]) = ToSet(queue) \cup Back(k)
      BY <1>1, <1>4, <3>1
    <3>3. /\ p[k + 1] \in Messages
          /\ F[k + 1] = IF p[k + 1] \in accepted THEN Requeue(F[k], p[k + 1]) ELSE F[k]
      BY <1>1, <3>1
    <3>4. Back(k + 1) = IF p[k + 1] \in accepted THEN Back(k) \cup {p[k + 1]} ELSE Back(k)
      <4>1. 1 .. k + 1 = (1 .. k) \cup {k + 1}
        BY <1>4
      <4>2. QED
        BY <4>1
    <3>5. p[k + 1] \in ToSet(p) /\ transcript[p[k + 1]].pos > 0 /\ p[k + 1] \notin ToSet(queue)
      BY <1>2, <3>1 DEF ToSet
    <3>6. p[k + 1] \notin Back(k)
      <4> SUFFICES ASSUME NEW j \in 1 .. k, p[j] = p[k + 1] PROVE FALSE
        OBVIOUS
      <4>1. j < k + 1 /\ j \in DOMAIN p /\ k + 1 \in DOMAIN p
        BY <1>1, <1>2, <3>1
      <4>2. transcript[p[j]].pos < transcript[p[k + 1]].pos
        BY <4>1 DEF InOrder
      <4>3. transcript[p[k + 1]].pos \in Nat
        BY <3>3 DEF Bubble
      <4>4. QED
        BY <4>2, <4>3
    <3>7. p[k + 1] \notin ToSet(F[k])
      BY <3>2, <3>5, <3>6
    <3> HIDE DEF Back
    <3>8. CASE p[k + 1] \in accepted
      <4>1. /\ InOrder(transcript, Requeue(F[k], p[k + 1]))
            /\ ToSet(Requeue(F[k], p[k + 1])) = ToSet(F[k]) \cup {p[k + 1]}
        BY <3>2, <3>3, <3>5, <3>7, RequeueFacts
      <4>2. QED
        BY <1>4, <3>2, <3>3, <3>4, <3>8, <4>1
    <3>9. CASE p[k + 1] \notin accepted
      BY <1>4, <3>2, <3>3, <3>4, <3>9
    <3>10. QED
      BY <3>8, <3>9
  <2>2. CASE k + 1 \notin 0 .. l
    BY <1>4, <2>2
  <2>3. QED
    BY <2>1, <2>2
<1>5. l \in T
  <2> HIDE DEF T, l
  <2>1. \A k \in Nat : k \in T
    BY <1>3, <1>4, InductionOver
  <2>2. QED
    BY <1>1, <2>1
<1>6. InOrder(transcript, F[l]) /\ ToSet(F[l]) = ToSet(queue) \cup Back(l) /\ F[l] \in Seq(Messages)
  <2>1. l \in 0 .. l /\ F[l] \in Seq(Messages)
    BY <1>1
  <2> HIDE DEF Back, l
  <2>2. QED
    BY <1>5, <2>1
<1>7. Back(l) = Undelivered
  <2>1. Undelivered = {p[i] : i \in 1 .. l} \cap accepted
    BY <1>2 DEF Undelivered, ToSet
  <2> HIDE DEF p, l
  <2>2. \A x : x \in Back(l) <=> x \in {p[i] : i \in 1 .. l} \cap accepted
    OBVIOUS
  <2> HIDE DEF Back
  <2>3. QED
    BY <2>1, <2>2
<1> HIDE DEF Back, T
<1>8. QED
  BY <1>6, <1>7 DEF Recovery, F

LEMMA QueuedAgainFacts ==
  ASSUME transcript \in [Messages -> Bubble]
  PROVE  /\ QueuedAgain \in [Messages -> Bubble]
         /\ \A m \in Messages :
              /\ QueuedAgain[m].bubbles = transcript[m].bubbles
              /\ QueuedAgain[m].pos = transcript[m].pos
              /\ QueuedAgain[m].queued = (transcript[m].queued \/ m \in Undelivered)
<1>1. ASSUME NEW m \in Messages
      PROVE  /\ QueuedAgain[m] \in Bubble
             /\ QueuedAgain[m].bubbles = transcript[m].bubbles
             /\ QueuedAgain[m].pos = transcript[m].pos
             /\ QueuedAgain[m].queued = (transcript[m].queued \/ m \in Undelivered)
  <2> DEFINE u == transcript[m].queued \/ m \in Undelivered
  <2>1. transcript[m] \in Bubble /\ u \in BOOLEAN
    BY DEF Bubble
  <2>2. QueuedAgain[m] = [transcript[m] EXCEPT !.queued = u]
    BY DEF QueuedAgain
  <2> HIDE DEF u
  <2>3. /\ QueuedAgain[m] \in Bubble
        /\ QueuedAgain[m].bubbles = transcript[m].bubbles
        /\ QueuedAgain[m].pos = transcript[m].pos
        /\ QueuedAgain[m].queued = u
    BY <2>1, <2>2 DEF Bubble
  <2>4. QED
    BY <2>3 DEF u
<1>2. QueuedAgain = [m \in Messages |-> QueuedAgain[m]]
  <2> DEFINE e(m) == [transcript[m] EXCEPT !.queued = @ \/ m \in Undelivered]
             Q == QueuedAgain
  <2>1. Q = [m \in Messages |-> e(m)]
    BY DEF QueuedAgain
  <2> HIDE DEF e, Q
  <2>2. Q = [m \in Messages |-> Q[m]]
    BY <2>1
  <2>3. QED
    BY <2>2 DEF Q
<1>3. QED
  BY <1>1, <1>2
Underway(m) == calls[m].stage \in {"unsent", "entered", "persisting", "preparing"}
Queued(m) == m \in ToSet(queue)
Steered(m) == m \in ToSet(agent.pending)

(* Nobody's turn is after the session's, and the session's is that of the   *)
(* message sent last.                                                       *)
Clock ==
  /\ \A m \in Messages : calls[m].gen <= session.gen
  /\ \A m \in Messages : Active(m) /\ Current(m) => session.lastSent = m

(* Who claimed the session between a refusal and its retry is remembered.   *)
HistoryShaped == {"answers", "between"} \subseteq DOMAIN history

Twice(m) == m \in history.between

(* What waits has a bubble, has not reached the model, and its call is over. *)
Waits(m) == /\ Twice(m) \/ delivered[m] = 0
            /\ calls[m].stage = "returned"
            /\ transcript[m].bubbles > 0 /\ transcript[m].pos > 0

(* A message waits once and in one place, in the order of the bubbles; and  *)
(* has not reached the model before its turn, unless it is sent in the      *)
(* place of a refused one.                                                  *)
Placed ==
  /\ Distinct /\ InOrder(transcript, queue) /\ InOrder(transcript, agent.pending)
  /\ \A m \in Messages : Queued(m) => ~Steered(m)
  /\ \A m \in Messages : Queued(m) \/ Steered(m) => Waits(m)
  /\ \A m \in Messages : Underway(m) => Twice(m) \/ delivered[m] = 0
  /\ \A m \in Messages : Twice(m) \/ delivered[m] <= 1

(* The model has the message of a turn that runs, unless it refused it. *)
Reached ==
  \A m \in Messages :
    calls[m].stage = "running" /\ Current(m) /\ ~session.retried => delivered[m] > 0

(* A message that is sent once more after a refusal waits nowhere meanwhile; *)
(* it is the refused one, which the model has not, or has claimed since.     *)
Resends(m) ==
  /\ Active(m) \/ calls[m].stage = "returned"
  /\ ~Queued(m) /\ ~Steered(m)
  /\ Twice(m) \/ (delivered[m] = 0 /\ calls[m].stage # "preparing")

Refused ==
  session.retrying =>
    session.loaded /\ session.lastSent \in Messages /\ Resends(session.lastSent)

Shown == session.loaded => \A m \in Messages : transcript[m].queued <=> Queued(m)

(* Until the session is loaded, nothing of it moves. *)
Unread ==
  ~session.loaded =>
    /\ queue = <<>> /\ agent.pending = <<>> /\ ~session.processing /\ left = {}
    /\ \A m \in Messages : calls[m].stage \in {"unsent", "entered", "returned"}
    /\ \A m \in Messages : transcript[m].queued <=> m \in Recovered
    /\ \A m \in Recovered : /\ calls[m].stage = "returned" /\ delivered[m] = 0
                            /\ transcript[m].bubbles = 1 /\ transcript[m].pos = m

PlacesInv == Shapes /\ Goods /\ Clock /\ Placed /\ Reached /\ Refused /\ Shown /\ Unread

(* The values a step starts from. *)
LEMMA PlacesFacts ==
  ASSUME PlacesInv
  PROVE  /\ session \in Sessions /\ session.gen \in Nat /\ session.stopEpoch \in Nat
         /\ session.lastSent \in 0 .. MaxMessages
         /\ calls \in [Messages -> Calls]
         /\ \A m \in Messages : calls[m] \in Calls /\ calls[m].gen \in Nat /\ calls[m].stage \in Stages
         /\ queue \in Seq(Messages) /\ agent \in Agents /\ agent.pending \in Seq(Messages)
         /\ \A m \in ToSet(queue) \cup ToSet(agent.pending) : m \in Messages
         /\ transcript \in [Messages -> Bubble]
         /\ \A m \in Messages : transcript[m] \in Bubble /\ transcript[m].pos \in Nat
                                /\ transcript[m].bubbles \in Nat
         /\ delivered \in [Messages -> Nat] /\ \A m \in Messages : delivered[m] \in Nat
<1>1. Shapes /\ Goods
  BY DEF PlacesInv
<1>2. \A m \in Messages : calls[m] \in Calls /\ transcript[m] \in Bubble
  BY <1>1 DEF Shapes, Goods
<1>3. agent.pending \in Seq(Messages)
  BY <1>1 DEF Goods, Agents
<1>4. \A m \in ToSet(queue) \cup ToSet(agent.pending) : m \in Messages
  <2>1. ASSUME NEW s \in Seq(Messages) PROVE \A i \in DOMAIN s : s[i] \in Messages
    BY LenProperties, ElementOfSeq
  <2>2. queue \in Seq(Messages)
    BY <1>1 DEF Goods
  <2>3. QED
    BY <1>3, <2>1, <2>2 DEF ToSet
<1>5. session \in Sessions
  BY <1>1 DEF Shapes
<1>6. session.gen \in Nat /\ session.stopEpoch \in Nat /\ session.lastSent \in 0 .. MaxMessages
  BY <1>5 DEF Sessions
<1>7. \A m \in Messages : calls[m].gen \in Nat /\ calls[m].stage \in Stages
  BY <1>2 DEF Calls
<1>8. \A m \in Messages : transcript[m].pos \in Nat /\ transcript[m].bubbles \in Nat
  BY <1>2 DEF Bubble
<1>9. QED
  BY <1>1, <1>2, <1>3, <1>4, <1>5, <1>6, <1>7, <1>8 DEF Shapes, Goods

(* A call stays as it is, goes on towards its return, or is made. *)
Onward(n) ==
  \/ calls'[n] = calls[n]
  \/ Active(n) /\ calls'[n].stage \in {"winding", "returned"} /\ calls'[n].gen = calls[n].gen
  \/ calls[n].stage = "unsent" /\ calls'[n].stage = "entered" /\ calls'[n].gen = 0

(* A step that moves no message, except that the backend may drop its steers. *)
LEMMA CalmKept ==
  ASSUME PlacesInv, \A n \in Messages : Twice(n) => Twice(n)',
         Shapes', Goods',
         queue' = queue, transcript' = transcript, delivered' = delivered,
         agent'.pending \in {agent.pending, <<>>},
         session'.gen = session.gen, session'.lastSent = session.lastSent,
         session'.retried = session.retried, session'.retrying = session.retrying,
         session'.loaded = session.loaded, session'.processing => session.processing,
         left' \subseteq left, \A n \in Messages : Onward(n)
  PROVE  PlacesInv'
<1>1. \A n \in Messages : Active(n)' => Active(n) /\ calls'[n].gen = calls[n].gen
  BY DEF Onward, Active
<1>2. \A n \in Messages : Underway(n)' => Underway(n)
  BY DEF Onward, Underway
<1>3. \A n \in Messages : Queued(n)' <=> Queued(n)
  BY DEF Queued
<1>4. \A n \in Messages : Steered(n)' => Steered(n)
  BY OrderEmpty DEF Steered
<1>5. Clock'
  <2>1. \A n \in Messages : calls'[n].gen = calls[n].gen \/ calls'[n].gen = 0
    BY DEF Onward
  <2>2. Clock
    BY DEF PlacesInv
  <2>3. \A n \in Messages : calls'[n].gen <= session.gen
    BY <2>1, <2>2, PlacesFacts DEF Clock
  <2>4. \A n \in Messages : Active(n)' /\ Current(n)' => session'.lastSent = n
    BY <1>1, <2>2 DEF Clock, Current
  <2>5. QED
    BY <2>3, <2>4 DEF Clock
<1>6. Placed'
  <2>1. InOrder(transcript, agent'.pending) /\ InOrder(transcript, queue) /\ Distinct
    BY OrderEmpty DEF PlacesInv, Placed
  <2>2. InOrder(transcript, agent.pending)' /\ InOrder(transcript, queue)' /\ Distinct'
    BY <2>1 DEF InOrder, Distinct
  <2>3. \A n \in Messages : Waits(n) => Waits(n)'
    BY DEF Waits, Onward, Active
  <2>4. QED
    BY <1>2, <1>3, <1>4, <2>2, <2>3 DEF PlacesInv, Placed
<1>7. Reached'
  <2>1. \A n \in Messages : calls'[n].stage = "running" => calls'[n] = calls[n]
    BY DEF Onward
  <2>2. QED
    BY <2>1 DEF PlacesInv, Reached, Current
<1>8. Refused'
  <2>1. \A n \in Messages : Resends(n) => Resends(n)'
    BY <1>3, <1>4 DEF Resends, Onward, Active
  <2>2. QED
    BY <2>1 DEF PlacesInv, Refused
<1>9. Shown'
  BY <1>3 DEF PlacesInv, Shown
<1>10. Unread'
  <2> SUFFICES ASSUME ~session.loaded
               PROVE  Unread'
    BY DEF Unread
  <2>1. /\ queue = <<>> /\ agent.pending = <<>> /\ ~session.processing /\ left' = {}
        /\ \A m \in Messages : calls[m].stage \in {"unsent", "entered", "returned"}
        /\ \A m \in Messages : transcript[m].queued <=> m \in Recovered
        /\ \A m \in Recovered : /\ calls[m].stage = "returned" /\ delivered[m] = 0
                                /\ transcript[m].bubbles = 1 /\ transcript[m].pos = m
    BY DEF PlacesInv, Unread
  <2>2. \A m \in Messages : calls'[m].stage \in {"unsent", "entered", "returned"}
    BY <2>1 DEF Onward, Active
  <2>3. \A m \in Recovered : m \in Messages
    BY SessionTurnsAssumption
  <2>4. \A m \in Recovered : calls'[m].stage = "returned"
    BY <2>1, <2>3 DEF Onward, Active
  <2>5. QED
    BY <2>1, <2>2, <2>4 DEF Unread
<1>11. QED
  BY <1>5, <1>6, <1>7, <1>8, <1>9, <1>10 DEF PlacesInv

(* onProcessingStopped keeps the types. *)
LEMMA EndsGood ==
  ASSUME PlacesInv, NEW reason \in {"complete", "interrupted", "error", "timeout"}, Ended(reason)
  PROVE  ends' \in Seq(EndOf) /\ accepted' \subseteq Messages
<1>1. ends \in Seq(EndOf) /\ accepted \subseteq Messages /\ session.gen \in Nat
  BY PlacesFacts DEF PlacesInv, Goods
<1> DEFINE e == [reason |-> reason, gen |-> session.gen, checked |-> FALSE]
<1>2. e \in EndOf
  BY <1>1 DEF EndOf
<1>3. \/ ends' = ends /\ accepted' = accepted
      \/ ends' = Append(ends, e) /\ accepted' = {}
  BY DEF Ended
<1> HIDE DEF e
<1>4. QED
  BY <1>1, <1>2, <1>3
-----------------------------------------------------------------------------
(* The steps that leave every message where it is. *)

(* One call of an active turn goes on, perhaps ending the turn. *)
LEMMA TurnGoesOn ==
  ASSUME PlacesInv, \A n \in Messages : Twice(n) => Twice(n)',
         NEW m \in Messages, Active(m), NEW st \in {"winding", "returned"},
         calls' = [calls EXCEPT ![m].stage = st],
         UNCHANGED <<session, accepted, ends>>
           \/ \E reason \in {"complete", "interrupted", "error", "timeout"} : Ended(reason),
         queue' = queue, transcript' = transcript, delivered' = delivered,
         agent' \in {agent, Paused}, timers' = timers, mishaps' \in {mishaps, mishaps + 1},
         left' = left
  PROVE  PlacesInv'
<1>1. Shapes /\ Goods
  BY DEF PlacesInv
<1>2. /\ calls' \in [Messages -> Calls] /\ calls'[m].stage = st /\ calls'[m].gen = calls[m].gen
      /\ \A n \in Messages : n # m => calls'[n] = calls[n]
  <2>1. st \in Stages
    BY DEF Stages
  <2>2. QED
    BY <1>1, <2>1, Moves
<1>3. /\ session' \in Sessions
      /\ session'.gen = session.gen /\ session'.lastSent = session.lastSent
      /\ session'.retried = session.retried /\ session'.retrying = session.retrying
      /\ session'.loaded = session.loaded /\ (session'.processing => session.processing)
      /\ ends' \in Seq(EndOf) /\ accepted' \subseteq Messages
  <2>1. CASE UNCHANGED <<session, accepted, ends>>
    BY <1>1, <2>1 DEF Shapes, Goods
  <2>2. ASSUME NEW reason \in {"complete", "interrupted", "error", "timeout"}, Ended(reason)
        PROVE  <1>3!:
    BY <1>1, <2>2, Ends, EndsGood
  <2>3. QED
    BY <2>1, <2>2
<1>4. agent' \in Agents /\ agent'.pending \in {agent.pending, <<>>}
  BY <1>1, PausedAgent DEF Goods
<1>5. mishaps' \in Nat /\ timers' \in 0 .. mishaps'
  BY <1>1 DEF Goods
<1>6. Shapes' /\ Goods'
  BY <1>1, <1>2, <1>3, <1>4, <1>5 DEF Shapes, Goods
<1>7. \A n \in Messages : Onward(n)
  BY <1>2 DEF Onward
<1>8. QED
  BY <1>3, <1>4, <1>6, <1>7, CalmKept

LEMMA TurnStepsCalm ==
  ASSUME PlacesInv, \A n \in Messages : Twice(n) => Twice(n)',
         NEW m \in Messages,
         SetupFails(m) \/ NotStarted(m) \/ Superseded(m) \/ Completes(m) \/ ChatFails(m)
           \/ (WindsDown(m) /\ ~Owns(m))
  PROVE  PlacesInv'
<1>1. Active(m)
  BY DEF SetupFails, NotStarted, Superseded, Completes, ChatFails, WindsDown, Active
<1>2. PICK st \in {"winding", "returned"} : calls' = [calls EXCEPT ![m].stage = st]
  BY Zenon DEF SetupFails, NotStarted, Superseded, Completes, ChatFails, WindsDown, Returned
<1>3. UNCHANGED <<session, accepted, ends>>
        \/ \E reason \in {"complete", "interrupted", "error", "timeout"} : Ended(reason)
  <2>1. /\ "complete" \in {"complete", "interrupted", "error", "timeout"}
        /\ "interrupted" \in {"complete", "interrupted", "error", "timeout"}
        /\ "error" \in {"complete", "interrupted", "error", "timeout"}
    OBVIOUS
  <2>2. \/ UNCHANGED <<session, accepted, ends>>
        \/ Ended("complete") \/ Ended("interrupted") \/ Ended("error")
    BY DEF SetupFails, NotStarted, Superseded, Completes, ChatFails, WindsDown
  <2>3. QED
    BY <2>1, <2>2
<1>4. /\ queue' = queue /\ transcript' = transcript /\ delivered' = delivered /\ timers' = timers
      /\ left' = left
  BY DEF SetupFails, NotStarted, Superseded, Completes, ChatFails, WindsDown
<1>5. agent' \in {agent, Paused}
  BY DEF SetupFails, NotStarted, Superseded, Completes, ChatFails, WindsDown
<1>6. mishaps' \in {mishaps, mishaps + 1}
  BY DEF SetupFails, NotStarted, Superseded, Completes, ChatFails, WindsDown, Mishap
<1>7. QED
  BY <1>1, <1>2, <1>3, <1>4, <1>5, <1>6, TurnGoesOn

LEMMA SendCalm ==
  ASSUME PlacesInv, \A n \in Messages : Twice(n) => Twice(n)',
         NEW m \in Messages, Send(m)
  PROVE  PlacesInv'
<1>1. Shapes /\ Goods
  BY DEF PlacesInv
<1>2. /\ calls' \in [Messages -> Calls] /\ calls'[m].stage = "entered" /\ calls'[m].gen = 0
      /\ \A n \in Messages : n # m => calls'[n] = calls[n]
  <2>1. calls' = [calls EXCEPT ![m] = Call("entered", FALSE, FALSE)] /\ "entered" \in Stages
    BY DEF Send, Stages
  <2>2. QED
    BY <1>1, <2>1, IsCalled
<1>3. /\ session' \in Sessions
      /\ session'.gen = session.gen /\ session'.lastSent = session.lastSent
      /\ session'.retried = session.retried /\ session'.retrying = session.retrying
      /\ session'.loaded = session.loaded /\ session'.processing = session.processing
  BY <1>1 DEF Send, Shapes, Sessions
<1>4. /\ queue' = queue /\ transcript' = transcript /\ delivered' = delivered /\ agent' = agent
      /\ accepted' = accepted /\ ends' = ends /\ mishaps' = mishaps /\ timers' = timers
      /\ left' = left
  BY DEF Send
<1>5. Shapes' /\ Goods'
  BY <1>1, <1>2, <1>3, <1>4 DEF Shapes, Goods
<1>6. \A n \in Messages : Onward(n)
  BY <1>2 DEF Onward, Send
<1>7. QED
  BY <1>3, <1>4, <1>5, <1>6, CalmKept

(* Whatever leaves the calls alone as well. *)
LEMMA StillKept ==
  ASSUME PlacesInv, \A n \in Messages : Twice(n) => Twice(n)',
         session' \in Sessions, Goods', calls' = calls,
         queue' = queue, transcript' = transcript, delivered' = delivered,
         agent'.pending \in {agent.pending, <<>>},
         session'.gen = session.gen, session'.lastSent = session.lastSent,
         session'.retried = session.retried, session'.retrying = session.retrying,
         session'.loaded = session.loaded, session'.processing => session.processing,
         left' \subseteq left
  PROVE  PlacesInv'
<1>1. Shapes'
  BY DEF PlacesInv, Shapes
<1>2. \A n \in Messages : Onward(n)
  BY DEF Onward
<1>3. QED
  BY <1>1, <1>2, CalmKept

LEMMA EndReportsCalm ==
  ASSUME PlacesInv, \A n \in Messages : Twice(n) => Twice(n)',
         NEW i \in DOMAIN ends, EndReports(i)
  PROVE  PlacesInv'
<1>1. Shapes /\ Goods
  BY DEF PlacesInv
<1>2. ends' \in Seq(EndOf)
  BY <1>1, RemoveAtElements DEF EndReports, Goods
<1>3. Goods'
  BY <1>1, <1>2 DEF EndReports, Goods
<1>4. QED
  BY <1>1, <1>3, StillKept DEF EndReports, Shapes

LEMMA StopTimesOutCalm ==
  ASSUME PlacesInv, \A n \in Messages : Twice(n) => Twice(n)',
         StopTimesOut
  PROVE  PlacesInv'
<1>1. Shapes /\ Goods
  BY DEF PlacesInv
<1>2. UNCHANGED <<session, accepted, ends>> \/ Ended("timeout")
  BY DEF StopTimesOut
<1>3. /\ session' \in Sessions
      /\ session'.gen = session.gen /\ session'.lastSent = session.lastSent
      /\ session'.retried = session.retried /\ session'.retrying = session.retrying
      /\ session'.loaded = session.loaded /\ (session'.processing => session.processing)
      /\ ends' \in Seq(EndOf) /\ accepted' \subseteq Messages
  <2>1. CASE UNCHANGED <<session, accepted, ends>>
    BY <1>1, <2>1 DEF Shapes, Goods
  <2>2. CASE Ended("timeout")
    BY <1>1, <2>2, Ends, EndsGood
  <2>3. QED
    BY <1>2, <2>1, <2>2
<1>4. /\ timers > 0 /\ timers' = timers - 1 /\ mishaps' = mishaps
      /\ queue' = queue /\ transcript' = transcript /\ delivered' = delivered
      /\ agent' = agent /\ calls' = calls /\ left' = left
  BY DEF StopTimesOut
<1>5. timers' \in 0 .. mishaps'
  BY <1>1, <1>4 DEF Goods
<1>6. Goods'
  BY <1>1, <1>3, <1>4, <1>5 DEF Goods
<1>7. QED
  BY <1>3, <1>4, <1>6, StillKept

LEMMA DeleteCalm ==
  ASSUME PlacesInv, \A n \in Messages : Twice(n) => Twice(n)',
         Delete
  PROVE  PlacesInv'
<1>1. Shapes /\ Goods
  BY DEF PlacesInv
<1>2. /\ session' \in Sessions
      /\ session'.gen = session.gen /\ session'.lastSent = session.lastSent
      /\ session'.retried = session.retried /\ session'.retrying = session.retrying
      /\ session'.loaded = session.loaded /\ session'.processing = session.processing
  BY <1>1 DEF Delete, Shapes, Sessions
<1>3. agent' \in Agents /\ agent'.pending = agent.pending
  BY <1>1 DEF Delete, Goods, Agents
<1>4. mishaps' \in Nat /\ timers' \in 0 .. mishaps'
  BY <1>1 DEF Delete, Goods, Mishap
<1>5. Goods'
  BY <1>1, <1>3, <1>4 DEF Delete, Goods
<1>6. QED
  BY <1>2, <1>3, <1>5, StillKept DEF Delete
-----------------------------------------------------------------------------
(* The steps that claim the session, and those that take a message in. *)

LEMMA ClaimPlaced ==
  ASSUME PlacesInv, \A n \in Messages : Twice(n) => Twice(n)',
         NEW m \in Messages, Entering(m), session.loaded, Claim(m), HistoryShaped,
         UNCHANGED <<queue, accepted, transcript, agent, ends, delivered, timers, mishaps>>
  PROVE  PlacesInv'
<1>1. Shapes /\ Goods /\ Clock /\ Placed
  BY DEF PlacesInv
<1>2. /\ calls' \in [Messages -> Calls]
      /\ \A n \in Messages : n # m => calls'[n] = calls[n]
      /\ calls'[m].stage = "preparing" /\ calls'[m].gen = session.gen + 1
      /\ session' \in Sessions /\ session'.gen = session.gen + 1 /\ session'.lastSent = m
      /\ session'.loaded = session.loaded /\ session'.retrying = session.retrying
  BY <1>1, Claims
<1>3. Shapes' /\ Goods'
  BY <1>1, <1>2 DEF Shapes, Goods
<1>4. \A n \in Messages : n # m => calls'[n].gen < session'.gen
  <2>1. TAKE n \in Messages
  <2>2. HAVE n # m
  <2>3. calls'[n].gen <= session.gen /\ calls'[n].gen \in Nat /\ session.gen \in Nat
    BY <1>1, <1>2, <2>2, PlacesFacts DEF Clock
  <2>4. QED
    BY <1>2, <2>3
<1>5. \A n \in Messages : calls'[n].gen <= session'.gen /\ (Current(n)' => n = m)
  <2>1. TAKE n \in Messages
  <2>2. calls'[n].gen \in Nat /\ session'.gen \in Nat
    BY <1>2 DEF Calls, Sessions
  <2>3. QED
    BY <1>2, <1>4, <2>2 DEF Current
<1>6. Clock'
  BY <1>2, <1>5 DEF Clock
<1>7. Underway(m) /\ (Twice(m) \/ delivered[m] = 0) /\ ~Queued(m) /\ ~Steered(m)
  BY <1>1 DEF Placed, Waits, Underway, Entering
<1>8. /\ \A n \in Messages : Queued(n)' <=> Queued(n)
      /\ \A n \in Messages : Steered(n)' <=> Steered(n)
      /\ \A n \in Messages : n # m => (Underway(n)' <=> Underway(n))
  BY <1>2 DEF Queued, Steered, Underway
<1>9. Placed'
  <2>1. \A n \in Messages : Queued(n)' \/ Steered(n)' => Waits(n)'
    BY <1>1, <1>2, <1>7, <1>8 DEF Placed, Waits
  <2>2. Distinct' /\ InOrder(transcript, queue)' /\ InOrder(transcript, agent.pending)'
    BY <1>1 DEF Placed, Distinct, InOrder
  <2>3. QED
    BY <1>1, <1>7, <1>8, <2>1, <2>2 DEF Placed
<1>10. Reached'
  BY <1>2, <1>5 DEF Reached
<1>11. Refused' /\ Unread'
  <2>1. session.retrying => Twice(m)'
    BY DEF Claim, HistoryShaped, Twice
  <2>2. session.retrying => Resends(m)'
    BY <1>2, <1>7, <1>8, <2>1 DEF Resends, Active
  <2>3. QED
    BY <1>2, <2>2 DEF Refused, Unread
<1>12. Shown'
  BY <1>2, <1>8 DEF PlacesInv, Shown
<1>13. QED
  BY <1>3, <1>6, <1>9, <1>10, <1>11, <1>12 DEF PlacesInv

(* A message whose call goes on without a claim: it is given a bubble, and  *)
(* waits, or is written to disk.                                            *)
LEMMA PushPlaced ==
  ASSUME PlacesInv, \A n \in Messages : Twice(n) => Twice(n)',
         NEW m \in Messages, calls[m].stage = "entered",
         session.loaded,
         NEW st \in {"returned", "persisting"}, NEW b \in BOOLEAN,
         calls' \in [Messages -> Calls], calls'[m].stage = st, calls'[m].gen = calls[m].gen,
         \A n \in Messages : n # m => calls'[n] = calls[n],
         transcript' = Pushed(m, b), session' = session,
         \/ /\ queue' = queue /\ agent' = agent /\ accepted' = accepted
            /\ b = FALSE /\ st = "persisting"
         \/ /\ queue' = Append(queue, m) /\ agent' = agent /\ accepted' = accepted
            /\ b = TRUE /\ st = "returned"
         \/ /\ queue' = queue /\ agent' = [agent EXCEPT !.pending = Append(@, m)]
            /\ accepted' = accepted \cup {m} /\ b = FALSE /\ st = "returned",
         UNCHANGED <<ends, delivered, timers, mishaps>>
  PROVE  PlacesInv'
<1>1. Shapes /\ Goods /\ Clock /\ Placed
  BY DEF PlacesInv
<1>2. /\ calls' \in [Messages -> Calls] /\ calls'[m].stage = st /\ calls'[m].gen = calls[m].gen
      /\ \A n \in Messages : n # m => calls'[n] = calls[n]
  OBVIOUS
<1>3. /\ transcript' \in [Messages -> Bubble]
      /\ \A n \in Messages : n # m => transcript'[n] = transcript[n]
      /\ transcript'[m].queued = b /\ transcript'[m].bubbles > 0 /\ transcript'[m].pos > 0
      /\ \A n \in Messages : transcript[n].pos < transcript'[m].pos
  BY PlacesFacts, PushedFacts
<1>4. Underway(m) /\ (Twice(m) \/ delivered[m] = 0) /\ ~Queued(m) /\ ~Steered(m)
  BY <1>1 DEF Placed, Waits, Underway
<1> DEFINE p == agent'.pending
<1>5. \/ queue' = queue /\ p = agent.pending /\ st = "persisting" /\ b = FALSE
      \/ queue' = Append(queue, m) /\ p = agent.pending /\ st = "returned" /\ b = TRUE
      \/ queue' = queue /\ p = Append(agent.pending, m) /\ st = "returned" /\ b = FALSE
  BY PlacesFacts DEF Agents
<1>6. agent' \in Agents /\ accepted' \subseteq Messages
  <2> DEFINE a == Append(agent.pending, m)
  <2>1. a \in Seq(Messages)
    BY PlacesFacts, AppendElements
  <2>2. agent' = agent \/ agent' = [agent EXCEPT !.pending = a]
    OBVIOUS
  <2> HIDE DEF a
  <2>3. QED
    BY <1>1, <2>1, <2>2 DEF Agents, Goods
<1> HIDE DEF p
<1>7. \A s \in Seq(Messages) : /\ Append(s, m) \in Seq(Messages)
                               /\ ToSet(Append(s, m)) = ToSet(s) \cup {m}
  BY AppendElements
<1>8. \A n \in Messages : Queued(n)' <=> Queued(n) \/ (n = m /\ b)
  <2>1. CASE b
    <3>1. queue' = Append(queue, m)
      BY <1>5, <2>1
    <3>2. ToSet(queue') = ToSet(queue) \cup {m}
      BY <1>7, <3>1, PlacesFacts
    <3>3. QED
      BY <2>1, <3>2 DEF Queued
  <2>2. CASE ~b
    BY <1>5, <2>2 DEF Queued
  <2>3. QED
    BY <2>1, <2>2
<1>9. \A n \in Messages : Steered(n)' <=> Steered(n) \/ (n = m /\ ~b /\ st = "returned")
  <2>1. CASE p = Append(agent.pending, m) /\ st = "returned" /\ b = FALSE
    <3>1. ToSet(p) = ToSet(agent.pending) \cup {m}
      BY <1>7, <2>1, PlacesFacts
    <3>2. QED
      BY <2>1, <3>1 DEF Steered, p
  <2>2. CASE p = agent.pending /\ ~(~b /\ st = "returned")
    BY <2>2 DEF Steered, p
  <2>3. QED
    BY <1>5, <2>1, <2>2
<1>10. Shapes' /\ Goods'
  <2>1. queue' \in Seq(Messages)
    BY <1>5, <1>7, PlacesFacts
  <2>2. QED
    BY <1>1, <1>2, <1>3, <1>6, <2>1 DEF Shapes, Goods
<1>11. Clock'
  <2>1. \A n \in Messages : Active(n)' => Active(n)
    BY <1>2 DEF Active
  <2>2. \A n \in Messages : calls'[n].gen = calls[n].gen
    BY <1>2
  <2>3. QED
    BY <1>1, <2>1, <2>2 DEF Clock, Current
<1>12. \A n \in Messages : n # m => Underway(n)' = Underway(n)
  BY <1>2 DEF Underway
<1>13. \A s \in Seq(Messages) : InOrder(transcript, s) /\ m \notin ToSet(s)
         => InOrder(transcript', s) /\ InOrder(transcript', Append(s, m))
  <2>1. TAKE s \in Seq(Messages)
  <2>2. HAVE InOrder(transcript, s) /\ m \notin ToSet(s)
  <2>3. \A n \in ToSet(s) : n \in Messages /\ n # m
    BY <2>2, LenProperties, ElementOfSeq DEF ToSet
  <2>4. InOrder(transcript', s)
    BY <1>3, <2>2, <2>3, OrderKept
  <2>5. \A n \in ToSet(s) : transcript'[n].pos < transcript'[m].pos
    BY <1>3, <2>3
  <2>6. QED
    BY <2>4, <2>5, OrderAppend
<1>14. Placed'
  <2>1. InOrder(transcript', queue') /\ InOrder(transcript', p)
    BY <1>1, <1>4, <1>5, <1>13, PlacesFacts DEF Placed, Queued, Steered
  <2>2. InOrder(transcript, queue)' /\ InOrder(transcript, agent.pending)'
    BY <2>1 DEF InOrder, p
  <2>3. Distinct'
    <3> SUFFICES ASSUME NEW x \in Messages, NEW y \in Messages,
                        transcript'[x].pos > 0, transcript'[x].pos = transcript'[y].pos
                 PROVE  x = y
      BY DEF Distinct
    <3>1. x # m /\ y # m => x = y
      BY <1>1, <1>3 DEF Placed, Distinct
    <3>2. \A n \in Messages : n # m => transcript'[n].pos < transcript'[m].pos
      BY <1>3
    <3>3. \A n \in Messages : transcript'[n].pos \in Nat
      BY <1>3 DEF Bubble
    <3>4. QED
      BY <3>1, <3>2, <3>3
  <2>4. \A n \in Messages : Queued(n)' => ~Steered(n)'
    BY <1>1, <1>4, <1>8, <1>9 DEF Placed
  <2>5. \A n \in Messages : Queued(n)' \/ Steered(n)' => Waits(n)'
    <3> SUFFICES ASSUME NEW n \in Messages, Queued(n)' \/ Steered(n)' PROVE Waits(n)'
      OBVIOUS
    <3>1. CASE n = m
      <4>1. st = "returned"
        BY <1>4, <1>5, <1>8, <1>9, <3>1
      <4>2. QED
        BY <1>2, <1>3, <1>4, <3>1, <4>1 DEF Waits, Underway
    <3>2. CASE n # m
      BY <1>1, <1>2, <1>3, <1>8, <1>9, <3>2 DEF Placed, Waits
    <3>3. QED
      BY <3>1, <3>2
  <2>6. \A n \in Messages : Underway(n)' => Twice(n)' \/ delivered'[n] = 0
    BY <1>1, <1>4, <1>12 DEF Placed
  <2>7. QED
    BY <1>1, <2>2, <2>3, <2>4, <2>5, <2>6 DEF Placed
<1>15. Reached'
  <2>1. \A n \in Messages : calls'[n].stage = "running" => n # m
    BY <1>2
  <2>2. QED
    BY <1>2, <2>1 DEF PlacesInv, Reached, Current
<1>16. Refused' /\ Unread'
  <2>1. Resends(m) => FALSE
    BY DEF Resends, Active
  <2>2. \A n \in Messages : Resends(n) => Resends(n)'
    BY <1>2, <1>8, <1>9, <2>1 DEF Resends, Active
  <2>3. QED
    BY <2>2 DEF PlacesInv, Refused, Unread
<1>17. Shown'
  <2> SUFFICES ASSUME NEW n \in Messages PROVE transcript'[n].queued <=> Queued(n)'
    BY DEF Shown
  <2>1. CASE n = m
    BY <1>3, <1>4, <1>8, <2>1
  <2>2. CASE n # m
    BY <1>3, <1>8, <2>2 DEF PlacesInv, Shown
  <2>3. QED
    BY <2>1, <2>2
<1>18. QED
  BY <1>10, <1>11, <1>14, <1>15, <1>16, <1>17 DEF PlacesInv

LEMMA TakenInPlaced ==
  ASSUME PlacesInv, \A n \in Messages : Twice(n) => Twice(n)',
         NEW m \in Messages, Checks(m) \/ Persisted(m), HistoryShaped
  PROVE  PlacesInv'
<1>1. ASSUME Persisted(m) PROVE PlacesInv'
  <2>1. calls[m].stage = "persisting" /\ Claim(m)
    BY <1>1 DEF Persisted
  <2>2. session.loaded /\ Entering(m)
    BY <2>1 DEF PlacesInv, Unread, Entering
  <2>3. QED
    BY <1>1, <2>1, <2>2, ClaimPlaced DEF Persisted
<1>2. ASSUME Checks(m) PROVE PlacesInv'
  <2>1. /\ calls[m].stage = "entered" /\ session.loaded
        /\ UNCHANGED <<ends, delivered, timers, mishaps>>
    BY <1>2 DEF Checks
  <2>2. CASE Claim(m) /\ UNCHANGED <<queue, accepted, transcript, agent>>
    BY <2>1, <2>2, ClaimPlaced DEF Entering
  <2>3. CASE /\ transcript' = Pushed(m, FALSE)
             /\ calls' = [calls EXCEPT ![m].stage = "persisting", ![m].seen = session.gen]
             /\ UNCHANGED <<session, queue, accepted, agent>>
    <3>1. /\ calls' \in [Messages -> Calls] /\ calls'[m].stage = "persisting"
          /\ calls'[m].gen = calls[m].gen /\ \A n \in Messages : n # m => calls'[n] = calls[n]
      BY <2>3, LooksFirst DEF PlacesInv
    <3>2. QED
      BY <2>1, <2>3, <3>1, PushPlaced
  <2>4. CASE TakenMidTurn(m)
    <3> DEFINE steered == m \in Texts /\ agent.active
    <3>1. /\ transcript' = Pushed(m, ~steered) /\ session' = session
          /\ calls' \in [Messages -> Calls] /\ calls'[m].stage = "returned"
          /\ calls'[m].gen = calls[m].gen /\ \A n \in Messages : n # m => calls'[n] = calls[n]
      <4>1. calls' = [calls EXCEPT ![m].stage = "returned"] /\ "returned" \in Stages
        BY <2>4 DEF TakenMidTurn, Returned, Stages
      <4>2. QED
        BY <2>4, <4>1, Moves DEF TakenMidTurn, PlacesInv
    <3>2. CASE steered
      <4>1. /\ agent' = [agent EXCEPT !.pending = Append(@, m)]
            /\ accepted' = accepted \cup {m} /\ queue' = queue
        BY <2>4, <3>2 DEF TakenMidTurn
      <4>2. transcript' = Pushed(m, FALSE)
        BY <3>1, <3>2
      <4>3. QED
        BY <2>1, <3>1, <4>1, <4>2, PushPlaced
    <3>3. CASE ~steered
      <4>1. queue' = Append(queue, m) /\ agent' = agent /\ accepted' = accepted
        BY <2>4, <3>3 DEF TakenMidTurn
      <4>2. transcript' = Pushed(m, TRUE)
        BY <3>1, <3>3
      <4>3. QED
        BY <2>1, <3>1, <4>1, <4>2, PushPlaced
    <3>4. QED
      BY <3>2, <3>3
  <2>5. QED
    BY <1>2, <2>2, <2>3, <2>4 DEF Checks
<1>3. QED
  BY <1>1, <1>2
-----------------------------------------------------------------------------
(* The steps that look at the queue. *)

LEMMA ProcessNextPlaced ==
  ASSUME PlacesInv, \A n \in Messages : Twice(n) => Twice(n)',
         NEW s \in Sessions, ProcessNext(s),
         s.gen = session.gen, s.lastSent = session.lastSent, s.retried = session.retried,
         s.retrying = session.retrying, s.loaded = session.loaded,
         s.processing = session.processing,
         ends' \in Seq(EndOf), UNCHANGED <<accepted, agent, delivered, timers, mishaps, left>>
  PROVE  PlacesInv'
<1>1. Shapes /\ Goods /\ Clock /\ Placed
  BY DEF PlacesInv
<1>2. /\ calls' \in [Messages -> Calls] /\ session' \in Sessions
      /\ session'.gen = session.gen /\ session'.lastSent = session.lastSent
      /\ session'.retried = session.retried /\ session'.retrying = session.retrying
      /\ session'.loaded = session.loaded /\ session'.processing = session.processing
  BY <1>1, ProcessesNext
<1>3. CASE queue = <<>> \/ s.deleted
  <2>1. UNCHANGED <<queue, transcript, calls>>
    BY <1>3 DEF ProcessNext
  <2>2. Goods'
    BY <1>1, <2>1 DEF Goods
  <2>3. QED
    BY <1>2, <2>1, <2>2, StillKept
<1>4. CASE ~(queue = <<>> \/ s.deleted)
  <2> DEFINE h == Head(queue)
  <2>1. /\ queue' = Tail(queue)
        /\ transcript' = [transcript EXCEPT ![h].queued = FALSE]
        /\ calls' = [calls EXCEPT ![h] = Call("entered", TRUE, FALSE)]
    BY <1>4 DEF ProcessNext
  <2>2. /\ h \in Messages /\ Tail(queue) \in Seq(Messages) /\ queue # <<>>
        /\ ToSet(queue) = {h} \cup ToSet(Tail(queue))
    BY <1>4, PlacesFacts, TailElements
  <2>3. InOrder(transcript, Tail(queue)) /\ h \notin ToSet(Tail(queue))
    BY <1>1, <2>2, PlacesFacts, OrderTail DEF Placed
  <2> HIDE DEF h
  <2>4. /\ \A n \in Messages : n # h => calls'[n] = calls[n]
        /\ calls'[h].stage = "entered" /\ calls'[h].gen = 0
    <3>1. "entered" \in Stages
      BY DEF Stages
    <3>2. QED
      BY <1>1, <2>1, <2>2, <3>1, IsCalled
  <2>5. /\ transcript' \in [Messages -> Bubble]
        /\ \A n \in Messages : n # h => transcript'[n] = transcript[n]
        /\ transcript'[h].pos = transcript[h].pos /\ transcript'[h].queued = FALSE
    <3> DEFINE c == [transcript[h] EXCEPT !.queued = FALSE]
    <3>1. transcript[h] \in Bubble
      BY <2>2, PlacesFacts
    <3>2. c \in Bubble /\ c.pos = transcript[h].pos /\ c.queued = FALSE
      BY <3>1 DEF Bubble
    <3>3. transcript' = [transcript EXCEPT ![h] = c]
      BY <2>1
    <3> HIDE DEF c
    <3>4. QED
      BY <2>2, <3>2, <3>3, PlacesFacts
  <2>6. \A n \in Messages : Queued(n)' <=> Queued(n) /\ n # h
    BY <2>1, <2>2, <2>3 DEF Queued
  <2>7. \A n \in Messages : Steered(n)' <=> Steered(n)
    BY DEF Steered
  <2>8. /\ Queued(h) /\ ~Steered(h) /\ (Twice(h) \/ delivered[h] = 0) /\ session.loaded
        /\ calls[h].stage = "returned"
    <3>1. Queued(h)
      BY <2>2 DEF Queued
    <3>2. QED
      BY <1>1, <2>2, <3>1 DEF Placed, Waits, PlacesInv, Unread
  <2>9. Shapes' /\ Goods'
    BY <1>1, <1>2, <2>1, <2>2, <2>5 DEF Shapes, Goods
  <2>10. Clock'
    <3>1. \A n \in Messages : Active(n)' => Active(n) /\ n # h
      BY <2>4 DEF Active
    <3>2. calls'[h].gen <= session'.gen
      BY <1>2, <2>4, PlacesFacts
    <3>3. QED
      BY <1>1, <1>2, <2>4, <3>1, <3>2 DEF Clock, Current
  <2>11. Placed'
    <3>1. \A n \in Messages : transcript'[n].pos = transcript[n].pos
      BY <2>5
    <3>2. InOrder(transcript', Tail(queue)) /\ InOrder(transcript', agent.pending)
      <4>1. \A n \in ToSet(Tail(queue)) : n \in Messages
        BY <2>2, PlacesFacts
      <4>2. \A n \in ToSet(agent.pending) : n \in Messages
        BY PlacesFacts
      <4>3. InOrder(transcript, agent.pending)
        BY <1>1 DEF Placed
      <4>4. QED
        BY <2>3, <3>1, <4>1, <4>2, <4>3, OrderKept
    <3>3. InOrder(transcript, queue)' /\ InOrder(transcript, agent.pending)' /\ Distinct'
      BY <1>1, <2>1, <3>1, <3>2 DEF InOrder, Distinct, Placed
    <3>4. \A n \in Messages : Queued(n)' \/ Steered(n)' => Waits(n)'
      <4> SUFFICES ASSUME NEW n \in Messages, Queued(n)' \/ Steered(n)' PROVE Waits(n)'
        OBVIOUS
      <4>1. n # h /\ Waits(n)
        BY <1>1, <2>6, <2>7, <2>8 DEF Placed
      <4>2. QED
        BY <2>4, <2>5, <4>1 DEF Waits, Underway
    <3>5. \A n \in Messages : Underway(n)' => Twice(n)' \/ delivered'[n] = 0
      BY <1>1, <2>4, <2>8 DEF Placed, Underway
    <3>6. QED
      BY <1>1, <2>6, <2>7, <3>3, <3>4, <3>5 DEF Placed
  <2>12. Reached'
    <3>1. \A n \in Messages : calls'[n].stage = "running" => n # h
      BY <2>4
    <3>2. QED
      BY <1>2, <2>4, <3>1 DEF PlacesInv, Reached, Current
  <2>13. Refused'
    <3>1. ~Resends(h)
      BY <2>8 DEF Resends
    <3>2. \A n \in Messages : Resends(n) => Resends(n)'
      BY <2>4, <2>6, <2>7, <3>1 DEF Resends, Active
    <3>3. QED
      BY <1>2, <3>2 DEF PlacesInv, Refused
  <2>14. Shown'
    <3> SUFFICES ASSUME NEW n \in Messages PROVE transcript'[n].queued <=> Queued(n)'
      BY DEF Shown
    <3>1. CASE n = h
      BY <2>5, <2>6, <3>1
    <3>2. CASE n # h
      BY <2>5, <2>6, <2>8, <3>2 DEF PlacesInv, Shown
    <3>3. QED
      BY <3>1, <3>2
  <2>15. Unread'
    BY <1>2, <2>8 DEF Unread
  <2>16. QED
    BY <2>9, <2>10, <2>11, <2>12, <2>13, <2>14, <2>15 DEF PlacesInv
<1>5. QED
  BY <1>3, <1>4

LEMMA EndChecksPlaced ==
  ASSUME PlacesInv, \A n \in Messages : Twice(n) => Twice(n)',
         NEW i \in DOMAIN ends, EndChecksQueue(i)
  PROVE  PlacesInv'
<1>1. Shapes /\ Goods
  BY DEF PlacesInv
<1>2. UNCHANGED <<accepted, agent, delivered, timers, mishaps, left>>
  BY DEF EndChecksQueue
<1>3. CASE queue # <<>>
  <2>1. ends' = RemoveAt(ends, i) /\ ProcessNext(session)
    BY <1>3 DEF EndChecksQueue
  <2>2. ends' \in Seq(EndOf) /\ session \in Sessions
    BY <1>1, <2>1, RemoveAtElements DEF Goods, Shapes
  <2>3. QED
    BY <1>2, <2>1, <2>2, ProcessNextPlaced
<1>4. CASE queue = <<>>
  <2>1. ends' = [ends EXCEPT ![i].checked = TRUE] /\ UNCHANGED <<queue, transcript, calls, session>>
    BY <1>4 DEF EndChecksQueue
  <2>2. ends' \in Seq(EndOf)
    <3> DEFINE e == [ends[i] EXCEPT !.checked = TRUE]
    <3>1. i \in 1 .. Len(ends) /\ ends[i] \in EndOf
      BY <1>1, LenProperties, ElementOfSeq DEF Goods
    <3>2. e \in EndOf
      BY <3>1 DEF EndOf
    <3>3. ends' = [ends EXCEPT ![i] = e]
      BY <2>1
    <3> HIDE DEF e
    <3>4. QED
      BY <1>1, <3>1, <3>2, <3>3, ExceptSeq DEF Goods
  <2>3. Goods'
    BY <1>1, <1>2, <2>1, <2>2 DEF Goods
  <2>4. QED
    BY <1>1, <1>2, <2>1, <2>3, StillKept DEF Shapes
<1>5. QED
  BY <1>3, <1>4

LEMMA RecoversPlaced ==
  ASSUME PlacesInv, \A n \in Messages : Twice(n) => Twice(n)',
         Recovers
  PROVE  PlacesInv'
<1> DEFINE s == [session EXCEPT !.recovering = FALSE]
<1>1. /\ s \in Sessions
      /\ s.gen = session.gen /\ s.lastSent = session.lastSent /\ s.retried = session.retried
      /\ s.retrying = session.retrying /\ s.loaded = session.loaded
      /\ s.processing = session.processing
  BY DEF PlacesInv, Shapes, Sessions
<1>2. ProcessNext(s) /\ UNCHANGED <<accepted, agent, delivered, timers, mishaps, left, ends>>
  BY DEF Recovers
<1>3. ends' \in Seq(EndOf)
  BY <1>2 DEF PlacesInv, Goods
<1> HIDE DEF s
<1>4. QED
  BY <1>1, <1>2, <1>3, ProcessNextPlaced

(* What was found queued, in the order it was found in. *)
LEMMA FoundQueued ==
  LET a == Ascending(Recovered)
      c == Cardinality(Recovered)
  IN  /\ c \in Nat /\ \A k \in 1 .. c : a[k] \in Recovered
      /\ a \in Seq(Messages) /\ DOMAIN a = 1 .. c /\ ToSet(a) = Recovered
      /\ \A k, l \in 1 .. c : k < l => a[k] < a[l]
<1> DEFINE a == Ascending(Recovered)
           c == Cardinality(Recovered)
<1>1. Recovered \subseteq Messages /\ Recovered \subseteq Nat /\ IsFiniteSet(Recovered)
  <2>1. Recovered \subseteq Messages /\ Messages \subseteq Nat
    BY SessionTurnsAssumption DEF Messages
  <2>2. IsFiniteSet(Messages)
    BY SessionTurnsAssumption, FS_Interval DEF Messages
  <2>3. QED
    BY <2>1, <2>2, FS_Subset
<1>2. /\ c \in Nat /\ a \in [1 .. c -> Recovered]
      /\ \A m \in Recovered : \E k \in 1 .. c : a[k] = m
      /\ \A k, l \in 1 .. c : k < l => a[k] < a[l]
  BY <1>1, AscendingFacts
<1> HIDE DEF a, c
<1>3. a \in [1 .. c -> Messages]
  BY <1>1, <1>2
<1>4. a \in Seq(Messages) /\ DOMAIN a = 1 .. c
  BY <1>2, <1>3
<1>5. ToSet(a) = Recovered
  BY <1>2, <1>4 DEF ToSet
<1>6. \A k \in 1 .. c : a[k] \in Recovered
  BY <1>2
<1>7. QED
  BY <1>2, <1>4, <1>5, <1>6 DEF a, c

(* What was found queued is queued in the order of its bubbles. *)
LEMMA LoadPlaced ==
  ASSUME PlacesInv, \A n \in Messages : Twice(n) => Twice(n)',
         Load
  PROVE  PlacesInv'
<1>1. Shapes /\ Goods /\ Clock /\ Placed
  BY DEF PlacesInv
<1> DEFINE a == Ascending(Recovered)
           b == Recovered # {} /\ ~session.processing
<1>2. /\ ~session.loaded /\ queue' = queue \o a
      /\ session' = [session EXCEPT !.loaded = TRUE, !.recovering = b]
      /\ UNCHANGED <<accepted, transcript, agent, calls, ends, delivered, mishaps, timers>>
  BY DEF Load
<1>3. /\ queue = <<>> /\ agent.pending = <<>>
      /\ \A m \in Messages : calls[m].stage \in {"unsent", "entered", "returned"}
      /\ \A m \in Messages : transcript[m].queued <=> m \in Recovered
      /\ \A m \in Recovered : /\ calls[m].stage = "returned" /\ delivered[m] = 0
                              /\ transcript[m].bubbles = 1 /\ transcript[m].pos = m
  BY <1>2 DEF PlacesInv, Unread
<1>4. b \in BOOLEAN
  OBVIOUS
<1> HIDE DEF b
<1>5. /\ session' \in Sessions
      /\ session'.gen = session.gen /\ session'.lastSent = session.lastSent
      /\ session'.retried = session.retried /\ session'.retrying = session.retrying
      /\ session'.loaded = TRUE
  BY <1>1, <1>2, <1>4 DEF Shapes, Sessions
<1>6. Recovered \subseteq Messages /\ \A n \in Recovered : n \in Nat /\ n > 0
  BY SessionTurnsAssumption DEF Messages
<1> DEFINE c == Cardinality(Recovered)
<1>7. c \in Nat /\ \A k \in 1 .. c : a[k] \in Recovered
  BY FoundQueued
<1>8. /\ a \in Seq(Messages) /\ DOMAIN a = 1 .. c /\ ToSet(a) = Recovered
      /\ \A k, l \in 1 .. c : k < l => a[k] < a[l]
  BY FoundQueued
<1> HIDE DEF a, c
<1>9. queue' = a
  <2>1. <<>> \o a = a
    BY <1>8, ConcatEmptySeq
  <2>2. QED
    BY <1>2, <1>3, <2>1
<1>10. \A n \in Messages : /\ Queued(n)' <=> n \in Recovered
                           /\ ~Steered(n)' /\ ~Steered(n)
  BY <1>2, <1>3, <1>8, <1>9, OrderEmpty DEF Queued, Steered
<1>11. InOrder(transcript', queue')
  <2> SUFFICES ASSUME NEW i \in 1 .. c, NEW j \in 1 .. c, i < j
               PROVE  transcript[a[i]].pos < transcript[a[j]].pos
    BY <1>2, <1>8, <1>9 DEF InOrder
  <2>1. a[i] \in Recovered /\ a[j] \in Recovered /\ a[i] < a[j]
    BY <1>7, <1>8
  <2>2. QED
    BY <1>3, <2>1
<1>12. Shapes' /\ Goods'
  BY <1>1, <1>2, <1>5, <1>8, <1>9 DEF Shapes, Goods
<1>13. Clock' /\ Reached'
  BY <1>1, <1>2, <1>5 DEF PlacesInv, Clock, Reached, Current, Active
<1>14. Placed'
  <2>1. InOrder(transcript, queue)' /\ InOrder(transcript, agent.pending)' /\ Distinct'
    BY <1>1, <1>2, <1>11 DEF InOrder, Placed, Distinct
  <2>2. \A n \in Recovered : Waits(n)'
    BY <1>2, <1>3, <1>6 DEF Waits, Underway
  <2>3. \A n \in Messages : Underway(n)' => Underway(n)
    BY <1>2 DEF Underway
  <2>4. QED
    BY <1>1, <1>2, <1>10, <2>1, <2>2, <2>3 DEF Placed
<1>15. Refused'
  BY <1>2, <1>5 DEF PlacesInv, Refused
<1>16. Shown'
  BY <1>2, <1>3, <1>10 DEF Shown
<1>17. Unread'
  BY <1>5 DEF Unread
<1>18. QED
  BY <1>12, <1>13, <1>14, <1>15, <1>16, <1>17 DEF PlacesInv
-----------------------------------------------------------------------------
(* The steps that take pending steers from the backend. *)

(* What the queue and the transcript are once the steers are back. *)
LEMMA BackInQueue ==
  ASSUME PlacesInv, queue' = Recovery, transcript' \in [Messages -> Bubble],
         \A n \in Messages : transcript'[n].pos = transcript[n].pos,
         agent'.pending = <<>>
  PROVE  /\ queue' \in Seq(Messages)
         /\ \A n \in Messages : Queued(n)' <=> Queued(n) \/ n \in Undelivered
         /\ \A n \in Messages : ~Steered(n)'
         /\ \A n \in Undelivered : n \in Messages /\ Steered(n)
         /\ Distinct' /\ InOrder(transcript, queue)' /\ InOrder(transcript, agent.pending)'
<1>1. Placed /\ Goods
  BY DEF PlacesInv
<1>2. \A n \in ToSet(agent.pending) : n \in Messages /\ n \notin ToSet(queue) /\ transcript[n].pos > 0
  BY <1>1, PlacesFacts DEF Placed, Queued, Steered, Waits
<1>3. /\ Recovery \in Seq(Messages) /\ InOrder(transcript, Recovery)
      /\ ToSet(Recovery) = ToSet(queue) \cup Undelivered
  BY <1>1, <1>2, PlacesFacts, RecoveryFacts DEF Placed
<1>4. InOrder(transcript', queue')
  <2>1. \A n \in ToSet(Recovery) : n \in Messages
    BY <1>3, LenProperties, ElementOfSeq DEF ToSet
  <2>2. QED
    BY <1>3, <2>1, OrderKept
<1>5. Distinct'
  BY <1>1 DEF Placed, Distinct
<1>6. InOrder(transcript, queue)' /\ InOrder(transcript, agent.pending)'
  <2>1. InOrder(transcript', agent'.pending)
    BY OrderEmpty
  <2>2. QED
    BY <1>4, <2>1 DEF InOrder
<1>7. \A n \in Messages : Queued(n)' <=> Queued(n) \/ n \in Undelivered
  BY <1>3 DEF Queued
<1>8. \A n \in Messages : ~Steered(n)'
  BY OrderEmpty DEF Steered
<1>9. \A n \in Undelivered : n \in Messages /\ Steered(n)
  BY PlacesFacts DEF Undelivered, Steered
<1>10. QED
  BY <1>3, <1>5, <1>6, <1>7, <1>8, <1>9

(* The steers are back in the queue, and one call goes on: m's, whose       *)
(* message the model may just have been given.                              *)
LEMMA BackKept ==
  ASSUME PlacesInv, \A n \in Messages : Twice(n) => Twice(n)',
         NEW m \in Messages, Active(m),
         NEW st \in {"running", "winding", calls[m].stage},
         \/ st = "running" /\ calls[m].stage = "preparing"
            /\ delivered' = [delivered EXCEPT ![m] = @ + 1]
         \/ st # "running" /\ st # "preparing" /\ delivered' = delivered
         \/ st = calls[m].stage /\ delivered' = delivered,
         calls' = [calls EXCEPT ![m].stage = st],
         queue' = Recovery, transcript' = QueuedAgain, accepted' \subseteq accepted,
         agent' \in Agents, agent'.pending = <<>>,
         session' \in Sessions, session'.gen = session.gen, session'.lastSent = session.lastSent,
         session'.retried = session.retried, session'.retrying = session.retrying,
         session'.loaded = session.loaded,
         ends' = ends, timers' = timers, mishaps' \in {mishaps, mishaps + 1}
  PROVE  PlacesInv'
<1>1. Shapes /\ Goods /\ Clock /\ Placed
  BY DEF PlacesInv
<1>2. /\ calls' \in [Messages -> Calls] /\ calls'[m].stage = st /\ calls'[m].gen = calls[m].gen
      /\ \A n \in Messages : n # m => calls'[n] = calls[n]
  <2>1. st \in Stages
    BY PlacesFacts DEF Stages
  <2>2. QED
    BY <1>1, <2>1, Moves
<1>3. /\ transcript' \in [Messages -> Bubble]
      /\ \A n \in Messages : /\ transcript'[n].bubbles = transcript[n].bubbles
                             /\ transcript'[n].pos = transcript[n].pos
                             /\ transcript'[n].queued = (transcript[n].queued \/ n \in Undelivered)
  BY PlacesFacts, QueuedAgainFacts
<1>4. /\ queue' \in Seq(Messages)
      /\ \A n \in Messages : Queued(n)' <=> Queued(n) \/ n \in Undelivered
      /\ \A n \in Messages : ~Steered(n)'
      /\ \A n \in Undelivered : n \in Messages /\ Steered(n)
      /\ Distinct' /\ InOrder(transcript, queue)' /\ InOrder(transcript, agent.pending)'
  BY <1>3, BackInQueue
<1>5. session.loaded
  BY DEF PlacesInv, Unread, Active
<1>6. /\ delivered' \in [Messages -> Nat]
      /\ \A n \in Messages : n # m => delivered'[n] = delivered[n]
      /\ \/ delivered'[m] = delivered[m]
         \/ st = "running" /\ calls[m].stage = "preparing" /\ delivered'[m] = delivered[m] + 1
  <2> DEFINE d == delivered[m] + 1
  <2>1. d \in Nat
    BY PlacesFacts
  <2>2. delivered' = delivered \/ (st = "running" /\ calls[m].stage = "preparing"
                                   /\ delivered' = [delivered EXCEPT ![m] = d])
    OBVIOUS
  <2> HIDE DEF d
  <2>3. delivered' = delivered \/ (st = "running" /\ calls[m].stage = "preparing"
                                   /\ delivered'[m] = d
                                   /\ delivered' \in [Messages -> Nat]
                                   /\ \A n \in Messages : n # m => delivered'[n] = delivered[n])
    BY <2>1, <2>2, PlacesFacts
  <2>4. QED
    BY <2>3, PlacesFacts DEF d
<1>7. Shapes' /\ Goods'
  BY <1>1, <1>2, <1>3, <1>4, <1>6 DEF Shapes, Goods
<1>8. \A n \in Messages : Active(n)' => Active(n) /\ calls'[n].gen = calls[n].gen
  BY <1>2 DEF Active
<1>9. Clock'
  <2>1. \A n \in Messages : calls'[n].gen = calls[n].gen
    BY <1>2
  <2>2. QED
    BY <1>1, <1>8, <2>1 DEF Clock, Current
<1>10. \A n \in Messages : Underway(n)' => Underway(n) /\ delivered'[n] = delivered[n]
  <2>1. TAKE n \in Messages
  <2>2. CASE n # m
    BY <1>2, <1>6, <2>2 DEF Underway
  <2>3. CASE n = m
    BY <1>2, <1>6, <2>3 DEF Underway, Active
  <2>4. QED
    BY <2>2, <2>3
<1>11. calls[m].stage = "preparing"
         => (Twice(m) \/ delivered[m] = 0) /\ ~Queued(m) /\ ~Steered(m)
  BY <1>1 DEF Placed, Waits, Underway
<1>12. Placed'
  <2>1. \A n \in Messages : Queued(n)' => Waits(n)'
    <3> SUFFICES ASSUME NEW n \in Messages, Queued(n)' PROVE Waits(n)'
      OBVIOUS
    <3>1. Queued(n) \/ Steered(n)
      BY <1>4
    <3>2. Waits(n)
      BY <1>1, <3>1 DEF Placed
    <3>3. n # m
      BY <3>2 DEF Waits, Active
    <3>4. Twice(n)' \/ delivered'[n] = 0
      BY <1>6, <3>2, <3>3 DEF Waits
    <3>5. QED
      BY <1>2, <1>3, <3>2, <3>3, <3>4 DEF Waits
  <2>2. \A n \in Messages : Underway(n)' => Twice(n)' \/ delivered'[n] = 0
    BY <1>1, <1>10 DEF Placed
  <2>3. \A n \in Messages : Twice(n)' \/ delivered'[n] <= 1
    BY <1>1, <1>6, <1>11 DEF Placed
  <2>4. QED
    BY <1>4, <2>1, <2>2, <2>3 DEF Placed
<1>13. Reached'
  <2> SUFFICES ASSUME NEW n \in Messages, calls'[n].stage = "running", Current(n)',
                      ~session.retried
               PROVE  delivered'[n] > 0
    BY DEF Reached
  <2>1. CASE n = m /\ calls[m].stage = "preparing"
    BY <1>2, <2>1, PlacesFacts
  <2>2. CASE ~(n = m /\ calls[m].stage = "preparing")
    <3>1. calls[n].stage = "running" /\ Current(n) /\ delivered'[n] = delivered[n]
      BY <1>2, <1>6, <2>2 DEF Current
    <3>2. QED
      BY <3>1 DEF PlacesInv, Reached
  <2>3. QED
    BY <2>1, <2>2
<1>14. Refused'
  <2>1. ASSUME NEW n \in Messages, Resends(n) PROVE Resends(n)'
    <3>1. ~Queued(n)' /\ ~Steered(n)'
      BY <1>4, <2>1 DEF Resends
    <3>2. Active(n)' \/ calls'[n].stage = "returned"
      BY <1>2, <2>1 DEF Resends, Active
    <3>3. CASE Twice(n)
      BY <3>1, <3>2, <3>3 DEF Resends
    <3>4. CASE ~Twice(n)
      <4>1. delivered[n] = 0 /\ calls[n].stage # "preparing"
        BY <2>1, <3>4 DEF Resends
      <4>2. delivered'[n] = 0 /\ calls'[n].stage # "preparing"
        BY <1>2, <1>6, <4>1
      <4>3. QED
        BY <3>1, <3>2, <4>2 DEF Resends
    <3>5. QED
      BY <3>3, <3>4
  <2>2. QED
    BY <2>1 DEF PlacesInv, Refused
<1>15. Shown'
  BY <1>3, <1>4, <1>5 DEF PlacesInv, Shown
<1>16. Unread'
  BY <1>5 DEF Unread
<1>17. QED
  BY <1>7, <1>9, <1>12, <1>13, <1>14, <1>15, <1>16 DEF PlacesInv
LEMMA BackSteps ==
  ASSUME PlacesInv, \A n \in Messages : Twice(n) => Twice(n)',
         NEW m \in Messages,
         StartsChat(m) \/ (WindsDown(m) /\ Owns(m)) \/ Handoff(m)
  PROVE  PlacesInv'
<1>1. Shapes /\ Goods /\ session \in Sessions
  BY DEF PlacesInv, Shapes
<1>2. ASSUME StartsChat(m) PROVE PlacesInv'
  <2> DEFINE none == <<>>
             g == session.gen
  <2>1. none \in Seq(Messages) /\ g \in Nat
    BY PlacesFacts
  <2>2. agent' = [exists |-> TRUE, turn |-> g, active |-> TRUE, pending |-> none]
    BY <1>2 DEF StartsChat
  <2> HIDE DEF none, g
  <2>3. agent' \in Agents /\ agent'.pending = none
    BY <2>1, <2>2 DEF Agents
  <2>4. /\ calls[m].stage = "preparing"
        /\ calls' = [calls EXCEPT ![m].stage = "running"]
        /\ delivered' = [delivered EXCEPT ![m] = @ + 1]
        /\ queue' = Recovery /\ transcript' = QueuedAgain /\ accepted' \subseteq accepted
        /\ UNCHANGED <<session, ends, mishaps, timers>>
    BY <1>2 DEF StartsChat
  <2>5. Active(m)
    BY <2>4 DEF Active
  <2>6. QED
    BY <1>1, <2>3, <2>4, <2>5, BackKept DEF none
<1>3. ASSUME WindsDown(m), Owns(m) PROVE PlacesInv'
  <2>1. /\ calls[m].stage = "running"
        /\ calls' = [calls EXCEPT ![m].stage = "winding"]
        /\ queue' = Recovery /\ transcript' = QueuedAgain /\ accepted' \subseteq accepted
        /\ agent' = Paused
        /\ UNCHANGED <<session, ends, delivered, mishaps, timers>>
    BY <1>3 DEF WindsDown
  <2>2. agent' \in Agents /\ agent'.pending = <<>> /\ Active(m)
    BY <1>1, <2>1, PausedAgent DEF Goods, Active
  <2>3. QED
    BY <1>1, <2>1, <2>2, BackKept
<1>4. ASSUME Handoff(m) PROVE PlacesInv'
  <2>1. /\ calls[m].stage = "running" /\ calls' = calls
        /\ queue' = Recovery /\ transcript' = QueuedAgain /\ accepted' \subseteq accepted
        /\ agent' = Paused /\ session' = [session EXCEPT !.processing = FALSE]
        /\ UNCHANGED <<ends, delivered, timers>> /\ mishaps' = mishaps + 1
    BY <1>4 DEF Handoff, Mishap
  <2>2. agent' \in Agents /\ agent'.pending = <<>> /\ Active(m)
    BY <1>1, <2>1, PausedAgent DEF Goods, Active
  <2>3. calls' = [calls EXCEPT ![m].stage = calls[m].stage]
    <3>1. calls[m] \in Calls
      BY PlacesFacts
    <3>2. [calls[m] EXCEPT !.stage = calls[m].stage] = calls[m]
      BY <3>1 DEF Calls
    <3>3. QED
      BY <2>1, <3>2, PlacesFacts
  <2>4. /\ session' \in Sessions /\ session'.gen = session.gen
        /\ session'.lastSent = session.lastSent /\ session'.retried = session.retried
        /\ session'.retrying = session.retrying /\ session'.loaded = session.loaded
    BY <1>1, <2>1 DEF Sessions
  <2>5. QED
    BY <2>1, <2>2, <2>3, <2>4, BackKept
<1>5. QED
  BY <1>2, <1>3, <1>4

(* The model is told of what was steered in. *)
LEMMA ToolPlaced ==
  ASSUME PlacesInv, \A n \in Messages : Twice(n) => Twice(n)',
         ToolBoundary
  PROVE  PlacesInv'
<1>1. Shapes /\ Goods /\ Clock /\ Placed
  BY DEF PlacesInv
<1>2. /\ agent' = [agent EXCEPT !.pending = <<>>] /\ agent.pending # <<>>
      /\ delivered' = [n \in Messages |-> IF n \in ToSet(agent.pending) THEN delivered[n] + 1
                                          ELSE delivered[n]]
      /\ UNCHANGED <<session, queue, accepted, transcript, calls, ends, mishaps, timers>>
  BY DEF ToolBoundary
<1>3. agent' \in Agents /\ agent'.pending = <<>>
  <2> DEFINE none == <<>>
  <2>1. none \in Seq(Messages)
    OBVIOUS
  <2> HIDE DEF none
  <2>2. agent' = [agent EXCEPT !.pending = none]
    BY <1>2 DEF none
  <2>3. agent' \in Agents /\ agent'.pending = none
    BY <1>1, <2>1, <2>2 DEF Goods, Agents
  <2>4. QED
    BY <2>3 DEF none
<1>4. /\ delivered' \in [Messages -> Nat]
      /\ \A n \in Messages : delivered'[n] = IF Steered(n) THEN delivered[n] + 1 ELSE delivered[n]
  BY <1>2, PlacesFacts DEF Steered
<1>5. /\ \A n \in Messages : Queued(n)' <=> Queued(n)
      /\ \A n \in Messages : ~Steered(n)'
      /\ \A n \in Messages : Underway(n)' <=> Underway(n)
  BY <1>2, <1>3, OrderEmpty DEF Queued, Steered, Underway
<1>6. session.loaded
  BY <1>2 DEF PlacesInv, Unread
<1>7. Shapes' /\ Goods'
  BY <1>1, <1>2, <1>3, <1>4 DEF Shapes, Goods
<1>8. Clock'
  BY <1>1, <1>2 DEF Clock, Current, Active
<1>9. \A n \in Messages : Steered(n) => /\ Twice(n) \/ delivered[n] = 0
                                        /\ ~Underway(n) /\ ~Queued(n)
  BY <1>1 DEF Placed, Waits, Underway
<1>10. Placed'
  <2>1. InOrder(transcript', agent'.pending)
    BY <1>3, OrderEmpty
  <2>2. Distinct' /\ InOrder(transcript, queue)' /\ InOrder(transcript, agent.pending)'
    BY <1>1, <1>2, <2>1 DEF Placed, Distinct, InOrder
  <2>3. \A n \in Messages : Queued(n)' => Waits(n)'
    BY <1>1, <1>2, <1>4, <1>5 DEF Placed, Waits
  <2>4. \A n \in Messages : Underway(n)' => Twice(n)' \/ delivered'[n] = 0
    BY <1>1, <1>4, <1>5, <1>9 DEF Placed
  <2>5. \A n \in Messages : Twice(n)' \/ delivered'[n] <= 1
    BY <1>1, <1>4, <1>9 DEF Placed
  <2>6. QED
    BY <1>5, <2>2, <2>3, <2>4, <2>5 DEF Placed
<1>11. Reached'
  <2> SUFFICES ASSUME NEW n \in Messages, calls[n].stage = "running", Current(n), ~session.retried
               PROVE  delivered'[n] > 0
    BY <1>2 DEF Reached, Current
  <2>1. delivered[n] > 0 /\ delivered[n] \in Nat
    BY PlacesFacts DEF PlacesInv, Reached
  <2>2. QED
    BY <1>4, <2>1
<1>12. Refused'
  <2>1. \A n \in Messages : Resends(n) => Resends(n)'
    BY <1>2, <1>4, <1>5 DEF Resends, Active
  <2>2. QED
    BY <1>2, <2>1 DEF PlacesInv, Refused
<1>13. Shown'
  BY <1>2, <1>5 DEF PlacesInv, Shown
<1>14. Unread'
  BY <1>2, <1>6 DEF Unread
<1>15. QED
  BY <1>7, <1>8, <1>10, <1>11, <1>12, <1>13, <1>14 DEF PlacesInv

(* The model refuses the message whose turn runs: it had it once. *)
LEMMA AuthFailsPlaced ==
  ASSUME PlacesInv, \A n \in Messages : Twice(n) => Twice(n)',
         NEW m \in Messages, AuthFails(m)
  PROVE  PlacesInv'
<1>1. Shapes /\ Goods /\ Clock /\ Placed
  BY DEF PlacesInv
<1>2. /\ calls[m].stage = "running" /\ Current(m) /\ ~session.retried /\ ~session.retrying
      /\ session' = [session EXCEPT !.retried = TRUE, !.retrying = TRUE]
      /\ delivered' = [delivered EXCEPT ![m] = @ - 1] /\ mishaps' = mishaps + 1
      /\ UNCHANGED <<queue, accepted, transcript, agent, calls, ends, timers>>
  BY DEF AuthFails, Mishap
<1>3. /\ session' \in Sessions /\ session'.gen = session.gen
      /\ session'.lastSent = session.lastSent /\ session'.loaded = session.loaded
      /\ session'.retried = TRUE
  BY <1>1, <1>2 DEF Shapes, Sessions
<1>4. delivered[m] > 0 /\ (Twice(m) \/ delivered[m] <= 1) /\ session.lastSent = m
  BY <1>1, <1>2 DEF PlacesInv, Reached, Clock, Active, Placed
<1>5. /\ delivered' \in [Messages -> Nat] /\ (Twice(m) \/ delivered'[m] = 0)
      /\ \A n \in Messages : n # m => delivered'[n] = delivered[n]
  <2> DEFINE d == delivered[m] - 1
  <2>1. d \in Nat /\ (Twice(m) \/ d = 0)
    BY <1>4, PlacesFacts
  <2>2. delivered' = [delivered EXCEPT ![m] = d]
    BY <1>2
  <2> HIDE DEF d
  <2>3. QED
    BY <2>1, <2>2, PlacesFacts
<1>6. session.loaded
  BY <1>2 DEF PlacesInv, Unread
<1>7. /\ \A n \in Messages : Queued(n)' <=> Queued(n)
      /\ \A n \in Messages : Steered(n)' <=> Steered(n)
      /\ \A n \in Messages : Underway(n)' <=> Underway(n)
  BY <1>2 DEF Queued, Steered, Underway
<1>8. ~Queued(m) /\ ~Steered(m) /\ ~Underway(m)
  BY <1>1, <1>2 DEF Placed, Waits, Underway
<1>9. Shapes' /\ Goods'
  BY <1>1, <1>2, <1>3, <1>5 DEF Shapes, Goods
<1>10. Clock'
  BY <1>1, <1>2, <1>3 DEF Clock, Current, Active
<1>11. Placed'
  <2>1. Distinct' /\ InOrder(transcript, queue)' /\ InOrder(transcript, agent.pending)'
    BY <1>1, <1>2 DEF Placed, Distinct, InOrder
  <2>2. \A n \in Messages : Twice(n)' \/ delivered'[n] <= 1
    BY <1>1, <1>5 DEF Placed
  <2>3. \A n \in Messages : Twice(n) \/ delivered[n] = 0 => Twice(n)' \/ delivered'[n] = 0
    BY <1>5
  <2>4. QED
    BY <1>1, <1>2, <1>7, <2>1, <2>2, <2>3 DEF Placed, Waits
<1>12. Reached'
  BY <1>3 DEF Reached
<1>13. Refused'
  <2>1. Resends(m)'
    BY <1>2, <1>5, <1>7, <1>8 DEF Resends, Active
  <2>2. QED
    BY <1>3, <1>4, <1>6, <2>1 DEF Refused
<1>14. Shown'
  BY <1>2, <1>3, <1>7 DEF PlacesInv, Shown
<1>15. Unread'
  BY <1>3, <1>6 DEF Unread
<1>16. QED
  BY <1>9, <1>10, <1>11, <1>12, <1>13, <1>14, <1>15 DEF PlacesInv
(* The refused message is sent once more. *)
LEMMA AuthRetriesPlaced ==
  ASSUME PlacesInv, \A n \in Messages : Twice(n) => Twice(n)',
         AuthRetries
  PROVE  PlacesInv'
<1>1. Shapes /\ Goods /\ Clock /\ Placed
  BY DEF PlacesInv
<1>2. PICK m \in Messages : m = session.lastSent
  BY DEF AuthRetries, PlacesInv, Refused
<1>3. session.loaded /\ (Twice(m) \/ delivered[m] = 0) /\ ~Queued(m) /\ ~Steered(m)
  BY <1>2 DEF AuthRetries, PlacesInv, Refused, Resends
<1> DEFINE st == IF session.deleted THEN "returned" ELSE "entered"
<1>4. /\ queue' = Recovery /\ transcript' = [QueuedAgain EXCEPT ![m].bubbles = 0]
      /\ accepted' = {} /\ agent' = NoAgent
      /\ session' = [session EXCEPT !.retrying = FALSE, !.processing = FALSE]
      /\ calls' = [calls EXCEPT ![m] = Call(st, FALSE, TRUE)]
      /\ UNCHANGED <<ends, delivered, mishaps, timers>>
  BY <1>2 DEF AuthRetries
<1>5. st \in Stages /\ st \in {"returned", "entered"}
  BY DEF Stages
<1> HIDE DEF st
<1>6. /\ calls' \in [Messages -> Calls] /\ calls'[m].stage = st /\ calls'[m].gen = 0
      /\ \A n \in Messages : n # m => calls'[n] = calls[n]
  BY <1>1, <1>4, <1>5, IsCalled
<1>7. /\ session' \in Sessions /\ session'.gen = session.gen
      /\ session'.lastSent = session.lastSent /\ session'.retried = session.retried
      /\ session'.retrying = FALSE /\ session'.loaded = session.loaded
  BY <1>1, <1>4 DEF Shapes, Sessions
<1>8. /\ transcript' \in [Messages -> Bubble]
      /\ \A n \in Messages : n # m => transcript'[n].bubbles = transcript[n].bubbles
      /\ \A n \in Messages : /\ transcript'[n].pos = transcript[n].pos
                             /\ transcript'[n].queued = (transcript[n].queued \/ n \in Undelivered)
  <2> DEFINE Q == QueuedAgain
             c == [Q[m] EXCEPT !.bubbles = 0]
  <2>1. /\ Q \in [Messages -> Bubble]
        /\ \A n \in Messages : /\ Q[n].bubbles = transcript[n].bubbles
                               /\ Q[n].pos = transcript[n].pos
                               /\ Q[n].queued = (transcript[n].queued \/ n \in Undelivered)
    BY PlacesFacts, QueuedAgainFacts
  <2>2. transcript' = [Q EXCEPT ![m] = c]
    BY <1>4
  <2> HIDE DEF Q
  <2>3. c \in Bubble /\ c.pos = Q[m].pos /\ c.queued = Q[m].queued
    BY <2>1 DEF Bubble
  <2> HIDE DEF c
  <2>4. transcript' \in [Messages -> Bubble] /\ transcript'[m] = c
        /\ \A n \in Messages : n # m => transcript'[n] = Q[n]
    BY <2>1, <2>2, <2>3
  <2>5. QED
    BY <2>1, <2>3, <2>4
<1>9. agent' \in Agents /\ agent'.pending = <<>>
  <2> DEFINE none == <<>>
  <2>1. none \in Seq(Messages)
    OBVIOUS
  <2> HIDE DEF none
  <2>2. agent' = [exists |-> FALSE, turn |-> 0, active |-> FALSE, pending |-> none]
    BY <1>4 DEF NoAgent, none
  <2>3. agent' \in Agents /\ agent'.pending = none
    BY <2>1, <2>2 DEF Agents
  <2>4. QED
    BY <2>3 DEF none
<1>10. /\ queue' \in Seq(Messages)
       /\ \A n \in Messages : Queued(n)' <=> Queued(n) \/ n \in Undelivered
       /\ \A n \in Messages : ~Steered(n)'
       /\ \A n \in Undelivered : n \in Messages /\ Steered(n)
       /\ Distinct' /\ InOrder(transcript, queue)' /\ InOrder(transcript, agent.pending)'
  BY <1>4, <1>8, <1>9, BackInQueue
<1>11. m \notin Undelivered /\ ~Queued(m)'
  BY <1>3, <1>10
<1>12. Shapes' /\ Goods'
  <2>1. {} \subseteq Messages
    OBVIOUS
  <2>2. QED
    BY <1>1, <1>4, <1>6, <1>7, <1>8, <1>9, <1>10, <2>1 DEF Shapes, Goods
<1>13. Clock'
  <2>1. \A n \in Messages : Active(n)' => Active(n) /\ n # m
    BY <1>5, <1>6 DEF Active
  <2>2. calls'[m].gen <= session'.gen
    BY <1>6, <1>7, PlacesFacts
  <2>3. QED
    BY <1>1, <1>6, <1>7, <2>1, <2>2 DEF Clock, Current
<1>14. Placed'
  <2>1. \A n \in Messages : Queued(n)' => Waits(n)'
    <3> SUFFICES ASSUME NEW n \in Messages, Queued(n)' PROVE Waits(n)'
      OBVIOUS
    <3>1. n # m /\ Waits(n)
      BY <1>1, <1>10, <1>11 DEF Placed
    <3>2. QED
      BY <1>4, <1>6, <1>8, <3>1 DEF Waits, Underway
  <2>2. \A n \in Messages : Underway(n)' => Twice(n)' \/ delivered'[n] = 0
    <3>1. \A n \in Messages : n # m => (Underway(n)' <=> Underway(n))
      BY <1>6 DEF Underway
    <3>2. QED
      BY <1>1, <1>3, <1>4, <3>1 DEF Placed
  <2>3. QED
    BY <1>1, <1>4, <1>10, <2>1, <2>2 DEF Placed
<1>15. Reached'
  <2>1. \A n \in Messages : calls'[n].stage = "running" => n # m
    BY <1>5, <1>6
  <2>2. QED
    BY <1>4, <1>6, <1>7, <2>1 DEF PlacesInv, Reached, Current
<1>16. Refused' /\ Unread'
  BY <1>3, <1>7 DEF Refused, Unread
<1>17. Shown'
  BY <1>3, <1>8, <1>10 DEF PlacesInv, Shown
<1>18. QED
  BY <1>12, <1>13, <1>14, <1>15, <1>16, <1>17 DEF PlacesInv

(* Stop withdraws whatever waits. *)
LEMMA StopPlaced ==
  ASSUME PlacesInv, \A n \in Messages : Twice(n) => Twice(n)',
         Stop
  PROVE  PlacesInv'
<1>1. Shapes /\ Goods /\ Clock /\ Placed
  BY DEF PlacesInv
<1> DEFINE W == ToSet(queue) \cup Undelivered
           epoch == session.stopEpoch + 1
           none == <<>>
<1>2. /\ session.processing
      /\ session' = [session EXCEPT !.stopRequested = TRUE, !.stopEpoch = epoch]
      /\ queue' = <<>> /\ accepted' = {} /\ agent' = Paused
      /\ transcript' = [n \in Messages |-> IF n \in W
                          THEN [bubbles |-> transcript[n].bubbles - 1, pos |-> 0, queued |-> FALSE]
                          ELSE transcript[n]]
      /\ timers' = timers + 1 /\ mishaps' = mishaps + 1
      /\ UNCHANGED <<calls, ends, delivered>>
  BY Zenon DEF Stop, Mishap
<1>3. session.loaded
  BY <1>2 DEF PlacesInv, Unread
<1>4. epoch \in Nat
  BY PlacesFacts
<1> HIDE DEF epoch
<1>5. /\ session' \in Sessions /\ session'.gen = session.gen
      /\ session'.lastSent = session.lastSent /\ session'.retried = session.retried
      /\ session'.retrying = session.retrying /\ session'.loaded = session.loaded
  BY <1>1, <1>2, <1>4 DEF Shapes, Sessions
<1>6. \A n \in W : n \in Messages /\ (Queued(n) \/ Steered(n)) /\ transcript[n].bubbles > 0
  BY <1>1, PlacesFacts DEF Placed, Waits, Queued, Steered, Undelivered
<1>7. \A n \in Messages : n \notin W => ~Queued(n)
  BY DEF Queued
<1> HIDE DEF W
<1>8. /\ transcript' \in [Messages -> Bubble]
      /\ \A n \in Messages : n \in W => transcript'[n].pos = 0 /\ transcript'[n].queued = FALSE
      /\ \A n \in Messages : n \notin W => transcript'[n] = transcript[n]
  <2>1. ASSUME NEW n \in Messages
        PROVE  transcript'[n] = IF n \in W
                 THEN [bubbles |-> transcript[n].bubbles - 1, pos |-> 0, queued |-> FALSE]
                 ELSE transcript[n]
    BY <1>2
  <2>2. ASSUME NEW n \in Messages, n \in W
        PROVE  transcript'[n] \in Bubble /\ transcript'[n].pos = 0 /\ transcript'[n].queued = FALSE
    <3> DEFINE b == transcript[n].bubbles - 1
    <3>1. b \in Nat
      BY <1>6, <2>2, PlacesFacts
    <3>2. transcript'[n] = [bubbles |-> b, pos |-> 0, queued |-> FALSE]
      BY <2>1, <2>2
    <3> HIDE DEF b
    <3>3. QED
      BY <3>1, <3>2 DEF Bubble
  <2>3. \A n \in Messages : transcript'[n] \in Bubble
    BY <2>1, <2>2, PlacesFacts
  <2>4. transcript' = [n \in Messages |-> transcript'[n]]
    BY <1>2
  <2>5. QED
    BY <2>1, <2>2, <2>3, <2>4
<1>9. agent' \in Agents /\ agent'.pending = <<>>
  BY <1>1, <1>2, PausedAgent DEF Goods
<1>10. \A n \in Messages : ~Queued(n)' /\ ~Steered(n)'
  BY <1>2, <1>9, OrderEmpty DEF Queued, Steered
<1>11. Shapes' /\ Goods'
  <2>1. queue' \in Seq(Messages) /\ accepted' \subseteq Messages
    BY <1>2, OrderEmpty
  <2>2. mishaps' \in Nat /\ timers' \in 0 .. mishaps'
    BY <1>1, <1>2 DEF Goods
  <2>3. QED
    BY <1>1, <1>2, <1>5, <1>8, <1>9, <2>1, <2>2 DEF Shapes, Goods
<1>12. Clock' /\ Reached'
  BY <1>1, <1>2, <1>5 DEF PlacesInv, Clock, Reached, Current, Active
<1>13. Placed'
  <2>1. InOrder(transcript', queue') /\ InOrder(transcript', agent'.pending)
    BY <1>2, <1>9, OrderEmpty
  <2>2. InOrder(transcript, queue)' /\ InOrder(transcript, agent.pending)'
    BY <2>1 DEF InOrder
  <2>3. Distinct'
    <3> SUFFICES ASSUME NEW x \in Messages, NEW y \in Messages,
                        transcript'[x].pos > 0, transcript'[x].pos = transcript'[y].pos
                 PROVE  x = y
      BY DEF Distinct
    <3>1. x \notin W /\ y \notin W
      BY <1>8
    <3>2. QED
      BY <1>1, <1>8, <3>1 DEF Placed, Distinct
  <2>4. \A n \in Messages : Underway(n)' => Twice(n)' \/ delivered'[n] = 0
    BY <1>1, <1>2 DEF Placed, Underway
  <2>5. QED
    BY <1>1, <1>2, <1>10, <2>2, <2>3, <2>4 DEF Placed
<1>14. Refused'
  <2>1. \A n \in Messages : Resends(n) => Resends(n)'
    BY <1>2, <1>10 DEF Resends, Active
  <2>2. QED
    BY <1>5, <2>1 DEF PlacesInv, Refused
<1>15. Shown'
  <2>1. \A n \in Messages : transcript'[n].queued => FALSE
    <3>1. TAKE n \in Messages
    <3>2. n \notin W => ~transcript[n].queued
      BY <1>3, <1>7 DEF PlacesInv, Shown
    <3>3. QED
      BY <1>8, <3>2
  <2>2. QED
    BY <1>10, <2>1 DEF Shown
<1>16. Unread'
  BY <1>3, <1>5 DEF Unread
<1>17. QED
  BY <1>11, <1>12, <1>13, <1>14, <1>15, <1>16 DEF PlacesInv

LEMMA InitPlaces == Init => PlacesInv
<1> SUFFICES ASSUME Init PROVE PlacesInv
  OBVIOUS
<1>1. Shapes
  BY InitOne DEF OneInv
<1>2. Recovered \subseteq Messages /\ \A m \in Messages : m \in Nat /\ m > 0
  BY SessionTurnsAssumption DEF Messages
<1>3. /\ queue = <<>> /\ accepted = {} /\ ends = <<>> /\ timers = 0 /\ mishaps = 0
      /\ delivered = [m \in Messages |-> 0] /\ agent = NoAgent
      /\ session.gen = 0 /\ session.retrying = FALSE /\ session.processing = FALSE
      /\ session.loaded = (Recovered = {}) /\ left = {}
  BY DEF Init
<1>4. \A m \in Messages : /\ calls[m].stage = IF m \in Recovered THEN "returned" ELSE "unsent"
                          /\ calls[m].gen = 0
  BY DEF Init, Call
<1>5. /\ transcript \in [Messages -> Bubble]
      /\ \A m \in Messages : m \in Recovered => /\ transcript[m].bubbles = 1 /\ transcript[m].pos = m
                                                /\ transcript[m].queued = TRUE
      /\ \A m \in Messages : m \notin Recovered => transcript[m].pos = 0 /\ transcript[m].queued = FALSE
  <2>1. \A m \in Messages : /\ [bubbles |-> 1, pos |-> m, queued |-> TRUE] \in Bubble
                            /\ [bubbles |-> 0, pos |-> 0, queued |-> FALSE] \in Bubble
    BY <1>2 DEF Bubble
  <2>2. transcript = [m \in Messages |-> IF m \in Recovered
                        THEN [bubbles |-> 1, pos |-> m, queued |-> TRUE]
                        ELSE [bubbles |-> 0, pos |-> 0, queued |-> FALSE]]
    BY DEF Init
  <2>3. QED
    BY <2>1, <2>2
<1>6. agent \in Agents /\ agent.pending = <<>>
  <2> DEFINE none == <<>>
  <2>1. none \in Seq(Messages)
    OBVIOUS
  <2>2. agent = [exists |-> FALSE, turn |-> 0, active |-> FALSE, pending |-> none]
    BY <1>3 DEF NoAgent
  <2> HIDE DEF none
  <2>3. agent \in Agents /\ agent.pending = none
    BY <2>1, <2>2 DEF Agents
  <2>4. QED
    BY <2>3 DEF none
<1>7. \A m \in Messages : ~Queued(m) /\ ~Steered(m)
  BY <1>3, <1>6, OrderEmpty DEF Queued, Steered
<1>8. Goods
  <2>1. queue \in Seq(Messages) /\ ends \in Seq(EndOf) /\ accepted \subseteq Messages
    BY <1>3
  <2>2. delivered \in [Messages -> Nat] /\ mishaps \in Nat /\ timers \in 0 .. mishaps
    BY <1>3
  <2>3. QED
    BY <1>5, <1>6, <2>1, <2>2 DEF Goods
<1>9. Clock
  BY <1>3, <1>4 DEF Clock, Active
<1>10. Placed
  <2>1. Distinct
    BY <1>2, <1>5 DEF Distinct
  <2>2. InOrder(transcript, queue) /\ InOrder(transcript, agent.pending)
    BY <1>3, <1>6, OrderEmpty
  <2>3. QED
    BY <1>3, <1>7, <2>1, <2>2 DEF Placed
<1>11. Reached /\ Refused
  BY <1>3, <1>4 DEF Reached, Refused
<1>12. Shown
  <2>1. session.loaded => Recovered = {}
    BY <1>3
  <2>2. QED
    BY <1>5, <1>7, <2>1 DEF Shown
<1>13. Unread
  BY <1>2, <1>3, <1>4, <1>5, <1>6 DEF Unread
<1>14. QED
  BY <1>1, <1>8, <1>9, <1>10, <1>11, <1>12, <1>13 DEF PlacesInv

(* A replaced call is that of a message that claimed the session between a  *)
(* refusal and its retry, unless its chat had begun.                        *)
Lefts == left \subseteq LeftCalls /\ \A c \in left : c.started \/ Twice(c.message)

(* Its chat begins: the message reaches the model, and the steers the       *)
(* backend held may be back in the queue.                                   *)
LEMMA LeftStartsPlaced ==
  ASSUME PlacesInv, \A n \in Messages : Twice(n) => Twice(n)',
         Lefts, NEW c \in left, LeftStarts(c)
  PROVE  PlacesInv'
<1>1. Shapes /\ Goods /\ Clock /\ Placed
  BY DEF PlacesInv
<1>2. c.message \in Messages /\ Twice(c.message) /\ session.loaded
  BY DEF Lefts, LeftCalls, LeftStarts, PlacesInv, Unread
<1>3. UNCHANGED <<session, calls, ends, mishaps, timers>>
  BY DEF LeftStarts
<1>4. /\ delivered' \in [Messages -> Nat]
      /\ \A n \in Messages : delivered'[n] = delivered[n] \/ Twice(n)
      /\ \A n \in Messages : delivered'[n] >= delivered[n]
  <2> DEFINE d == delivered[c.message] + 1
  <2>1. d \in Nat /\ d >= delivered[c.message]
    BY <1>2, PlacesFacts
  <2>2. delivered' = [delivered EXCEPT ![c.message] = d]
    BY DEF LeftStarts
  <2> HIDE DEF d
  <2>3. QED
    BY <1>2, <2>1, <2>2, PlacesFacts
<1>5. /\ transcript' \in [Messages -> Bubble] /\ accepted' \subseteq accepted
      /\ agent' \in Agents
      /\ \A n \in Messages : /\ transcript'[n].bubbles = transcript[n].bubbles
                             /\ transcript'[n].pos = transcript[n].pos
  <2>1. CASE UNCHANGED <<transcript, accepted, agent>>
    BY <1>1, <2>1 DEF Goods
  <2>2. CASE /\ transcript' = QueuedAgain /\ accepted' = accepted \ ToSet(agent.pending)
             /\ agent' = [exists |-> TRUE, turn |-> session.gen, active |-> TRUE, pending |-> <<>>]
    <3> DEFINE none == <<>>
    <3>1. none \in Seq(Messages)
      OBVIOUS
    <3> DEFINE g == session.gen
    <3>2. agent' = [exists |-> TRUE, turn |-> g, active |-> TRUE, pending |-> none] /\ g \in Nat
      BY <2>2, PlacesFacts
    <3> HIDE DEF none, g
    <3>3. agent' \in Agents
      BY <3>1, <3>2 DEF Agents
    <3>4. QED
      BY <2>2, <3>3, PlacesFacts, QueuedAgainFacts
  <2>3. QED
    BY <2>1, <2>2 DEF LeftStarts
<1>6. \E U : /\ queue' \in Seq(Messages)
             /\ \A n \in Messages : Queued(n)' <=> Queued(n) \/ n \in U
             /\ \A n \in Messages : Steered(n)' => Steered(n) /\ n \notin U
             /\ \A n \in Messages : n \in U => Steered(n)
             /\ \A n \in Messages : transcript'[n].queued = (transcript[n].queued \/ n \in U)
             /\ Distinct' /\ InOrder(transcript, queue)' /\ InOrder(transcript, agent.pending)'
  <2>1. CASE UNCHANGED <<queue, transcript, agent>>
    <3>1. /\ Distinct' /\ InOrder(transcript, queue)' /\ InOrder(transcript, agent.pending)'
      BY <1>1, <2>1 DEF Placed, Distinct, InOrder
    <3>2. \A n \in Messages : (Queued(n)' <=> Queued(n)) /\ (Steered(n)' <=> Steered(n))
      BY <2>1 DEF Queued, Steered
    <3> DEFINE N == {}
    <3>3. \A n \in Messages : transcript'[n].queued = (transcript[n].queued \/ n \in N)
      <4>1. \A n \in Messages : transcript[n].queued \in BOOLEAN
        BY PlacesFacts DEF Bubble
      <4>2. QED
        BY <2>1, <4>1
    <3>4. queue' \in Seq(Messages) /\ \A n \in Messages : n \notin N
      BY <2>1, PlacesFacts
    <3> HIDE DEF N
    <3>5. /\ \A n \in Messages : Queued(n)' <=> Queued(n) \/ n \in N
          /\ \A n \in Messages : Steered(n)' => Steered(n) /\ n \notin N
          /\ \A n \in Messages : n \in N => Steered(n)
      BY <3>2, <3>4
    <3>6. QED
      BY <3>1, <3>3, <3>4, <3>5, Zenon
  <2>2. CASE /\ queue' = Recovery /\ transcript' = QueuedAgain /\ agent'.pending = <<>>
    <3>1. \A n \in Messages : transcript'[n].queued = (transcript[n].queued \/ n \in Undelivered)
      BY <2>2, PlacesFacts, QueuedAgainFacts
    <3>2. /\ queue' \in Seq(Messages)
          /\ \A n \in Messages : Queued(n)' <=> Queued(n) \/ n \in Undelivered
          /\ \A n \in Messages : ~Steered(n)'
          /\ \A n \in Undelivered : n \in Messages /\ Steered(n)
          /\ Distinct' /\ InOrder(transcript, queue)' /\ InOrder(transcript, agent.pending)'
      BY <1>5, <2>2, BackInQueue
    <3>3. QED
      BY <3>1, <3>2
  <2>3. QED
    BY <2>1, <2>2 DEF LeftStarts
<1>7. PICK U : /\ queue' \in Seq(Messages)
               /\ \A n \in Messages : Queued(n)' <=> Queued(n) \/ n \in U
               /\ \A n \in Messages : Steered(n)' => Steered(n) /\ n \notin U
               /\ \A n \in Messages : n \in U => Steered(n)
               /\ \A n \in Messages : transcript'[n].queued = (transcript[n].queued \/ n \in U)
               /\ Distinct' /\ InOrder(transcript, queue)' /\ InOrder(transcript, agent.pending)'
  BY <1>6
<1>8. Shapes' /\ Goods'
  BY <1>1, <1>3, <1>4, <1>5, <1>7 DEF Shapes, Goods
<1>9. \A n \in Messages : Underway(n)' <=> Underway(n)
  BY <1>3 DEF Underway
<1>10. Clock'
  BY <1>1, <1>3 DEF Clock, Current, Active
<1>11. Placed'
  <2>1. \A n \in Messages : Queued(n)' \/ Steered(n)' => Waits(n)'
    BY <1>1, <1>3, <1>4, <1>5, <1>7 DEF Placed, Waits
  <2>2. \A n \in Messages : Underway(n)' => Twice(n)' \/ delivered'[n] = 0
    BY <1>1, <1>4, <1>9 DEF Placed
  <2>3. \A n \in Messages : Twice(n)' \/ delivered'[n] <= 1
    BY <1>1, <1>4 DEF Placed
  <2>4. \A n \in Messages : Queued(n)' => ~Steered(n)'
    BY <1>1, <1>7 DEF Placed
  <2>5. QED
    BY <1>7, <2>1, <2>2, <2>3, <2>4 DEF Placed
<1>12. Reached'
  <2>1. \A n \in Messages : delivered[n] > 0 => delivered'[n] > 0
    BY <1>4, PlacesFacts
  <2>2. QED
    BY <1>3, <2>1 DEF PlacesInv, Reached, Current
<1>13. Refused'
  <2>1. \A n \in Messages : Resends(n) => Resends(n)'
    BY <1>3, <1>4, <1>7 DEF Resends, Active
  <2>2. QED
    BY <1>3, <2>1 DEF PlacesInv, Refused
<1>14. Shown'
  BY <1>2, <1>3, <1>7 DEF PlacesInv, Shown
<1>15. Unread'
  BY <1>2, <1>3 DEF Unread
<1>16. QED
  BY <1>8, <1>10, <1>11, <1>12, <1>13, <1>14, <1>15 DEF PlacesInv

(* It ends, and with it perhaps the turn. *)
LEMMA LeftEndsCalm ==
  ASSUME PlacesInv, \A n \in Messages : Twice(n) => Twice(n)',
         NEW c, LeftEnds(c)
  PROVE  PlacesInv'
<1>1. Shapes /\ Goods
  BY DEF PlacesInv
<1>2. UNCHANGED <<session, accepted, ends>> \/ Ended("interrupted") \/ Ended("error")
  BY DEF LeftEnds
<1>3. /\ session' \in Sessions
      /\ session'.gen = session.gen /\ session'.lastSent = session.lastSent
      /\ session'.retried = session.retried /\ session'.retrying = session.retrying
      /\ session'.loaded = session.loaded /\ (session'.processing => session.processing)
      /\ ends' \in Seq(EndOf) /\ accepted' \subseteq Messages
  <2>1. CASE UNCHANGED <<session, accepted, ends>>
    BY <1>1, <2>1 DEF Shapes, Goods
  <2>2. CASE Ended("interrupted")
    BY <1>1, <2>2, Ends, EndsGood
  <2>3. CASE Ended("error")
    BY <1>1, <2>3, Ends, EndsGood
  <2>4. QED
    BY <1>2, <2>1, <2>2, <2>3
<1>4. /\ UNCHANGED <<queue, transcript, calls, delivered, mishaps, timers>>
      /\ left' \subseteq left /\ (agent' = Paused \/ agent' = agent)
  BY DEF LeftEnds
<1>5. agent' \in Agents /\ agent'.pending \in {agent.pending, <<>>}
  BY <1>1, <1>4, PausedAgent DEF Goods
<1>6. Goods'
  BY <1>1, <1>3, <1>4, <1>5 DEF Goods
<1>7. QED
  BY <1>3, <1>4, <1>5, <1>6, StillKept
-----------------------------------------------------------------------------
(* What is remembered is not forgotten. *)
LEMMA HistoryKept ==
  ASSUME HistoryShaped, [Next]_vars
  PROVE  HistoryShaped' /\ \A n \in Messages : Twice(n) => Twice(n)'
<1> DEFINE Kept == HistoryShaped' /\ history.between \subseteq history'.between
<1>1. ASSUME NEW m \in Messages, Claim(m) PROVE Kept
  BY <1>1 DEF Claim, HistoryShaped
<1>2. ASSUME history' = history PROVE Kept
  BY <1>2 DEF HistoryShaped
<1>3. ASSUME NEW m \in Messages, CallStep(m) PROVE Kept
  BY <1>1, <1>2, <1>3 DEF CallStep, TakenIn, Checks, Persisted, TurnStep, StartsChat, NotStarted,
     Superseded, WindsDown, Completes
<1>4. ASSUME NEW m \in Messages, Send(m) \/ Trouble(m) PROVE Kept
  <2>1. history' = history \/ history' = [history EXCEPT !.waits = TRUE]
    BY <1>4 DEF Send, Trouble, SetupFails, ChatFails, Handoff, AuthFails
  <2>2. QED
    BY <1>2, <2>1 DEF HistoryShaped
<1>5. ASSUME NEW i \in DOMAIN ends, EndStep(i) PROVE Kept
  BY <1>2, <1>5 DEF EndStep, EndChecksQueue, EndReports
<1>6. ASSUME NEW c \in left, LeftStep(c) PROVE Kept
  BY <1>2, <1>6 DEF LeftStep, LeftStarts, LeftEnds
<1>7. ASSUME TimerStep \/ Load \/ Delete PROVE Kept
  BY <1>2, <1>7 DEF TimerStep, Recovers, AuthRetries, StopTimesOut, Load, Delete
<1>8. ASSUME ToolBoundary \/ Stop PROVE Kept
  BY <1>8 DEF ToolBoundary, Stop, HistoryShaped
<1>9. ASSUME UNCHANGED vars PROVE Kept
  BY <1>2, <1>9 DEF vars
<1>10. Kept
  BY <1>3, <1>4, <1>5, <1>6, <1>7, <1>8, <1>9 DEF Next
<1>11. QED
  BY <1>10 DEF Twice

LEMMA StepPlaces ==
  ASSUME PlacesInv, Lefts, HistoryShaped, [Next]_vars
  PROVE  PlacesInv'
<1>1. \A n \in Messages : Twice(n) => Twice(n)'
  BY HistoryKept
<1>2. ASSUME NEW m \in Messages, Send(m) \/ CallStep(m) \/ Trouble(m)
      PROVE  PlacesInv'
  BY <1>1, <1>2, SendCalm, TakenInPlaced, TurnStepsCalm, BackSteps, AuthFailsPlaced
     DEF CallStep, TakenIn, TurnStep, Trouble
<1>3. ASSUME NEW i \in DOMAIN ends, EndStep(i)
      PROVE  PlacesInv'
  BY <1>1, <1>3, EndChecksPlaced, EndReportsCalm DEF EndStep
<1>4. ASSUME NEW c \in left, LeftStep(c)
      PROVE  PlacesInv'
  BY <1>1, <1>4, LeftStartsPlaced, LeftEndsCalm DEF LeftStep
<1>5. CASE TimerStep \/ Load \/ ToolBoundary \/ Stop \/ Delete
  BY <1>1, <1>5, RecoversPlaced, AuthRetriesPlaced, StopTimesOutCalm, LoadPlaced, ToolPlaced,
     StopPlaced, DeleteCalm DEF TimerStep
<1>6. CASE UNCHANGED vars
  <2>1. /\ UNCHANGED <<session, queue, accepted, transcript, agent, calls, ends, delivered>>
        /\ UNCHANGED <<timers, mishaps, left>>
    BY <1>6 DEF vars
  <2>2. session \in Sessions /\ Goods
    BY DEF PlacesInv, Shapes
  <2>3. session' \in Sessions /\ Goods'
    BY <2>1, <2>2 DEF Goods
  <2>4. QED
    BY <1>1, <2>1, <2>3, StillKept
<1>7. QED
  BY <1>2, <1>3, <1>4, <1>5, <1>6 DEF Next

(* A retry replaces the call of a message that was refused in its chat, or  *)
(* has claimed the session since.                                           *)
LEMMA StepLefts ==
  ASSUME PlacesInv, Lefts, HistoryShaped, [Next]_vars
  PROVE  Lefts'
<1>1. \A n \in Messages : Twice(n) => Twice(n)'
  BY HistoryKept
<1>2. CASE left' = left
  BY <1>1, <1>2 DEF Lefts, LeftCalls
<1>3. ASSUME NEW c \in left, LeftStep(c) PROVE Lefts'
  <2>1. c \in LeftCalls
    BY DEF Lefts
  <2>2. CASE LeftEnds(c)
    <3>1. left' \subseteq left
      BY <2>2 DEF LeftEnds
    <3>2. QED
      BY <1>1, <3>1 DEF Lefts, LeftCalls
  <2>3. CASE LeftStarts(c)
    <3> DEFINE d == [c EXCEPT !.started = TRUE]
    <3>1. d \in LeftCalls /\ d.started
      BY <2>1 DEF LeftCalls
    <3>2. left' = (left \ {c}) \cup {d}
      BY <2>3 DEF LeftStarts
    <3> HIDE DEF d
    <3>3. QED
      BY <1>1, <3>1, <3>2 DEF Lefts, LeftCalls
  <2>4. QED
    BY <1>3, <2>2, <2>3 DEF LeftStep
<1>4. CASE AuthRetries
  <2>1. PICK m \in Messages : m = session.lastSent
    BY <1>4 DEF AuthRetries, PlacesInv, Refused
  <2>2. Resends(m)
    BY <1>4, <2>1 DEF AuthRetries, PlacesInv, Refused
  <2> DEFINE on == calls[m].stage # "preparing"
             ct == calls[m].replay \/ calls[m].auth
             c  == [message |-> m, started |-> on, caught |-> ct,
                    gen |-> calls[m].gen, epoch |-> calls[m].epoch]
  <2>3. left' = left \/ left' = left \cup {c}
    BY <1>4, <2>1 DEF AuthRetries
  <2>4. on \in BOOLEAN /\ ct \in BOOLEAN /\ (on \/ Twice(m))
    BY <2>2 DEF Resends
  <2>5. calls[m].gen \in Nat /\ calls[m].epoch \in Nat
    BY PlacesFacts DEF Calls
  <2> HIDE DEF on, ct
  <2>6. c \in LeftCalls /\ (c.started \/ Twice(c.message))
    BY <2>4, <2>5 DEF LeftCalls
  <2> HIDE DEF c
  <2>7. QED
    BY <1>1, <2>3, <2>6 DEF Lefts, LeftCalls
<1>5. QED
  BY <1>2, <1>3, <1>4, LeftByRetries

WaitsInv == PlacesInv /\ Lefts /\ HistoryShaped

LEMMA InitWaits == Init => WaitsInv
<1> SUFFICES ASSUME Init PROVE WaitsInv
  OBVIOUS
<1>1. PlacesInv
  BY InitPlaces
<1>2. left = {} /\ HistoryShaped
  BY DEF Init, HistoryShaped
<1>3. QED
  BY <1>1, <1>2 DEF WaitsInv, Lefts

LEMMA WaitsInvHolds == Spec => []WaitsInv
<1>1. WaitsInv /\ [Next]_vars => WaitsInv'
  BY StepPlaces, StepLefts, HistoryKept DEF WaitsInv
<1>2. QED
  BY <1>1, InitWaits, PTL DEF Spec

(* The state has its shapes whatever overlaps: no message reaches the model *)
(* fewer than no times, and no bubble is taken away twice.                  *)
THEOREM TypeCorrect == Spec => []TypeOK
<1>1. WaitsInv => TypeOK
  BY TypesAre DEF WaitsInv, PlacesInv, Lefts
<1>2. QED
  BY <1>1, WaitsInvHolds, PTL

(* However sends, steers, queueing, recovery, replays, stops and retries    *)
(* overlap, a message waits in one place and reaches the model once at most, *)
(* unless it claimed the session between a refused login and its retry.     *)
THEOREM WaitsOnce == Spec => []InOnePlace
<1>1. WaitsInv => InOnePlace
  <2> SUFFICES ASSUME WaitsInv, NEW m \in Messages, ~Twice(m)
               PROVE  Times(queue, m) + Times(agent.pending, m) + delivered[m]
                        + One(calls[m].stage \in {"entered", "persisting", "preparing"}) <= 1
    BY DEF InOnePlace, Twice
  <2>1. /\ PlacesInv /\ Placed /\ delivered[m] \in Nat
    BY PlacesFacts DEF WaitsInv, PlacesInv
  <2>2. /\ Times(queue, m) = (IF Queued(m) THEN 1 ELSE 0)
        /\ Times(agent.pending, m) = (IF Steered(m) THEN 1 ELSE 0)
    BY <2>1, PlacesFacts, OrderOnce DEF Placed, Queued, Steered
  <2> DEFINE u == calls[m].stage \in {"entered", "persisting", "preparing"}
  <2>3. One(u) = IF u THEN 1 ELSE 0
    BY DEF One
  <2>4. /\ u => Underway(m)
        /\ u => calls[m].stage # "returned"
    BY DEF Underway
  <2> HIDE DEF u
  <2>5. /\ Queued(m) => ~Steered(m) /\ delivered[m] = 0 /\ ~u
        /\ Steered(m) => delivered[m] = 0 /\ ~u
        /\ u => delivered[m] = 0
        /\ delivered[m] <= 1
    BY <2>1, <2>4 DEF Placed, Waits
  <2>6. Times(queue, m) + Times(agent.pending, m) + delivered[m] + One(u) <= 1
    BY <2>1, <2>2, <2>3, <2>5
  <2>7. QED
    BY <2>6 DEF u
<1>2. QED
  BY <1>1, WaitsInvHolds, PTL

(* The queue is in the order of the bubbles, recovered steers included, and *)
(* a bubble shows as queued when its message is queued.                     *)
THEOREM QueueAsShown == Spec => []QueueShown
<1>1. WaitsInv => QueueShown
  BY DEF WaitsInv, PlacesInv, Placed, InOrder, Shown, Queued, QueueShown
<1>2. QED
  BY <1>1, WaitsInvHolds, PTL
-----------------------------------------------------------------------------
(* What the user stopped stays stopped, unless a refused message is sent    *)
(* once more.                                                               *)

(* The call of the message has claimed the session, or is over. *)
Claimed(m) == calls[m].stage \in {"preparing", "running", "winding", "returned"}

(* A message that is in no place and that nothing takes in again. *)
Settled(m) == session.loaded /\ ~Queued(m) /\ ~Steered(m) /\ Claimed(m)

Withdrawing ==
  /\ "withdrawn" \in DOMAIN history /\ history.withdrawn \subseteq Messages
  /\ ~session.retrying
  /\ \A m \in Messages : calls[m].epoch <= session.stopEpoch
  /\ session.processing => session.lastSent \in Messages
  /\ session.lastSent \in Messages => Settled(session.lastSent)
  /\ \A m \in history.withdrawn :
       Settled(m) /\ (calls[m].stage = "preparing" => calls[m].epoch < session.stopEpoch)

StopInv == PlacesInv /\ HistoryShaped /\ left = {} /\ Withdrawing

(* What every step but Stop does to the messages. *)
Ordinary ==
  /\ "withdrawn" \in DOMAIN history' /\ history'.withdrawn = history.withdrawn
  /\ session'.stopEpoch = session.stopEpoch /\ ~session'.retrying
  /\ session.loaded => session'.loaded
  /\ \A m \in Messages : Settled(m) => Settled(m)'
  /\ \A m \in Messages : calls'[m].epoch <= session.stopEpoch
  /\ \A m \in Messages : calls'[m].stage = "preparing" => calls'[m] = calls[m] \/ Entering(m)
  /\ \/ session'.lastSent = session.lastSent
     \/ session'.lastSent \in Messages /\ Settled(session.lastSent)'
  /\ session'.processing => session.processing \/ session'.lastSent \in Messages
  /\ \A m \in Messages : Settled(m) /\ (calls[m].stage = "preparing" => Stopped(m))
                           => delivered'[m] <= delivered[m]

LEMMA OrdinaryKept ==
  ASSUME StopInv, Ordinary
  PROVE  /\ Withdrawing'
         /\ \A m \in history.withdrawn : delivered'[m] <= delivered[m]
<1>1. Withdrawing
  BY DEF StopInv
<1>2. ASSUME session'.lastSent \in Messages
      PROVE  Settled(session.lastSent)'
  <2>1. CASE session'.lastSent = session.lastSent
    <3>1. PICK m \in Messages : m = session.lastSent
      BY <1>2, <2>1
    <3>2. Settled(m)
      BY <1>1, <3>1 DEF Withdrawing
    <3>3. Settled(m)'
      BY <3>2 DEF Ordinary
    <3>4. QED
      BY <2>1, <3>1, <3>3 DEF Settled, Queued, Steered, Claimed
  <2>2. QED
    BY <1>2, <2>1 DEF Ordinary
<1>3. ASSUME NEW m \in history.withdrawn
      PROVE  /\ m \in Messages /\ Settled(m)'
             /\ (calls'[m].stage = "preparing" => calls'[m].epoch < session'.stopEpoch)
             /\ (calls[m].stage = "preparing" => Stopped(m))
  <2>1. m \in Messages /\ Settled(m)
        /\ (calls[m].stage = "preparing" => calls[m].epoch < session.stopEpoch)
    BY <1>1, <1>3 DEF Withdrawing
  <2>2. ~Entering(m)
    BY <2>1 DEF Settled, Claimed, Entering
  <2>3. session.stopEpoch \in Nat
    BY PlacesFacts DEF StopInv
  <2>4. QED
    BY <2>1, <2>2, <2>3 DEF Ordinary, Stopped
<1>4. \A m \in history.withdrawn : delivered'[m] <= delivered[m]
  BY <1>1, <1>3 DEF Ordinary, Withdrawing
<1>5. session'.processing => session'.lastSent \in Messages
  BY <1>1 DEF Ordinary, Withdrawing
<1>6. QED
  BY <1>1, <1>2, <1>3, <1>4, <1>5 DEF Ordinary, Withdrawing

(* A call stays as it is, goes on towards its return, or is made. *)
Goes(n) ==
  \/ calls'[n] = calls[n]
  \/ /\ Active(n) /\ calls'[n].stage \in {"running", "winding", "returned"}
     /\ calls'[n].epoch = calls[n].epoch
  \/ ~Claimed(n) /\ calls'[n].stage \in {"entered", "persisting", "returned"}
     /\ calls'[n].epoch \in {0, calls[n].epoch}

LEMMA GoesOrdinary ==
  ASSUME StopInv, "withdrawn" \in DOMAIN history', history'.withdrawn = history.withdrawn,
         session'.stopEpoch = session.stopEpoch, ~session'.retrying,
         session.loaded => session'.loaded, session'.lastSent = session.lastSent,
         session'.processing => session.processing,
         \A n \in Messages : Goes(n) \/ (Queued(n) /\ calls'[n].stage = "entered" /\ calls'[n].epoch = 0),
         \A n \in Messages : Settled(n) => ~Queued(n)' /\ ~Steered(n)',
         \A n \in Messages : delivered'[n] <= delivered[n] \/ Steered(n)
                              \/ (calls[n].stage = "preparing" /\ ~Stopped(n))
  PROVE  Ordinary
<1>1. \A n \in Messages : Settled(n) => Settled(n)'
  <2> SUFFICES ASSUME NEW n \in Messages, Settled(n) PROVE Settled(n)'
    OBVIOUS
  <2>1. Claimed(n) /\ ~Queued(n) /\ Goes(n)
    BY DEF Settled
  <2>2. Claimed(n)'
    BY <2>1 DEF Goes, Claimed, Active
  <2>3. QED
    BY <2>2 DEF Settled
<1>2. \A n \in Messages : calls'[n].epoch <= session.stopEpoch
  <2>1. TAKE n \in Messages
  <2>2. calls[n].epoch <= session.stopEpoch /\ session.stopEpoch \in Nat
    BY PlacesFacts DEF StopInv, Withdrawing
  <2>3. calls'[n].epoch = calls[n].epoch \/ calls'[n].epoch = 0
    BY DEF Goes
  <2>4. QED
    BY <2>2, <2>3
<1>3. \A n \in Messages : calls'[n].stage = "preparing" => calls'[n] = calls[n]
  BY DEF Goes
<1>4. \A n \in Messages : Settled(n) /\ (calls[n].stage = "preparing" => Stopped(n))
                           => delivered'[n] <= delivered[n]
  BY DEF Settled
<1>5. QED
  BY <1>1, <1>2, <1>3, <1>4 DEF Ordinary

(* The steps of a turn leave the queue, or give it what the backend holds.  *)
LEMMA TurnsGather ==
  ASSUME PlacesInv, NEW m \in Messages, TurnStep(m) \/ SetupFails(m) \/ ChatFails(m) \/ Handoff(m)
  PROVE  \A n \in Messages : Queued(n)' \/ Steered(n)' => Queued(n) \/ Steered(n)
<1>1. Paused.pending = <<>>
  BY PausedAgent DEF PlacesInv, Goods
<1>2. CASE queue' = queue /\ (agent' = agent \/ agent' = Paused)
  <2>1. agent'.pending \in {agent.pending, <<>>}
    BY <1>1, <1>2
  <2>2. QED
    BY <1>2, <2>1, OrderEmpty DEF Queued, Steered
<1>3. CASE queue' = Recovery /\ transcript' = QueuedAgain /\ agent'.pending = <<>>
  <2>1. /\ transcript' \in [Messages -> Bubble]
        /\ \A n \in Messages : transcript'[n].pos = transcript[n].pos
    BY <1>3, PlacesFacts, QueuedAgainFacts
  <2>2. /\ \A n \in Messages : Queued(n)' <=> Queued(n) \/ n \in Undelivered
        /\ \A n \in Messages : ~Steered(n)'
        /\ \A n \in Undelivered : n \in Messages /\ Steered(n)
    BY <1>3, <2>1, BackInQueue
  <2>3. QED
    BY <2>2
<1>4. \/ queue' = queue /\ (agent' = agent \/ agent' = Paused)
      \/ /\ queue' = Recovery /\ transcript' = QueuedAgain
         /\ \/ agent' = Paused
            \/ agent' = [exists |-> TRUE, turn |-> session.gen, active |-> TRUE, pending |-> <<>>]
  BY DEF TurnStep, StartsChat, NotStarted, Superseded, WindsDown, Completes, SetupFails,
     ChatFails, Handoff
<1>5. QED
  BY <1>1, <1>2, <1>3, <1>4

(* The steps of calls, of the backend and of ends that leave the queue, or  *)
(* take from the backend what it holds.                                     *)
LEMMA TurnsOrdinary ==
  ASSUME StopInv, NEW m \in Messages, TurnStep(m) \/ SetupFails(m) \/ ChatFails(m) \/ Handoff(m)
  PROVE  Ordinary
<1>1. PlacesInv /\ Withdrawing /\ Shapes /\ session \in Sessions
  BY DEF StopInv, PlacesInv, Shapes
<1>2. \/ calls' = calls
      \/ Active(m) /\ \E st \in {"running", "winding", "returned"} :
                        calls' = [calls EXCEPT ![m].stage = st]
  BY Zenon DEF TurnStep, StartsChat, NotStarted, Superseded, WindsDown, Completes, SetupFails,
     ChatFails, Handoff, Returned, Active
<1>3. \A n \in Messages : Goes(n)
  <2>1. CASE calls' = calls
    BY <2>1 DEF Goes
  <2>2. ASSUME Active(m), NEW st \in {"running", "winding", "returned"},
               calls' = [calls EXCEPT ![m].stage = st]
        PROVE  \A n \in Messages : Goes(n)
    <3>1. st \in Stages
      BY DEF Stages
    <3>2. /\ calls'[m].stage = st /\ calls'[m].epoch = calls[m].epoch
          /\ \A n \in Messages : n # m => calls'[n] = calls[n]
      BY <1>1, <2>2, <3>1, Moves
    <3>3. QED
      BY <2>2, <3>2 DEF Goes
  <2>3. QED
    BY <1>2, <2>1, <2>2
<1>4. /\ session'.stopEpoch = session.stopEpoch /\ ~session'.retrying
      /\ session'.loaded = session.loaded /\ session'.lastSent = session.lastSent
      /\ (session'.processing => session.processing)
  <2>1. session' = session \/ session' = [session EXCEPT !.processing = FALSE]
        \/ \E reason : Ended(reason)
    BY DEF TurnStep, StartsChat, NotStarted, Superseded, WindsDown, Completes, SetupFails,
       ChatFails, Handoff
  <2>2. ASSUME NEW reason, Ended(reason) PROVE <1>4!:
    BY <1>1, <2>2, Ends DEF Withdrawing
  <2>3. CASE session' = session \/ session' = [session EXCEPT !.processing = FALSE]
    BY <1>1, <2>3 DEF Withdrawing, Sessions
  <2>4. QED
    BY <2>1, <2>2, <2>3
<1>5. "withdrawn" \in DOMAIN history' /\ history'.withdrawn = history.withdrawn
  <2>1. history' = history \/ history' = [history EXCEPT !.waits = TRUE]
    BY DEF TurnStep, StartsChat, NotStarted, Superseded, WindsDown, Completes, SetupFails,
       ChatFails, Handoff
  <2>2. QED
    BY <1>1, <2>1 DEF Withdrawing
<1>6. \A n \in Messages : Settled(n) => ~Queued(n)' /\ ~Steered(n)'
  BY <1>1, TurnsGather DEF Settled
<1>7. \A n \in Messages : delivered'[n] <= delivered[n] \/ Steered(n)
                           \/ (calls[n].stage = "preparing" /\ ~Stopped(n))
  <2>1. \A n \in Messages : delivered[n] \in Nat
    BY <1>1, PlacesFacts
  <2>2. CASE delivered' = delivered
    BY <2>1, <2>2
  <2>3. CASE StartsChat(m)
    <3>1. /\ calls[m].stage = "preparing" /\ ~Stopped(m)
          /\ delivered' = [delivered EXCEPT ![m] = @ + 1]
      BY <2>3 DEF StartsChat
    <3>2. \A n \in Messages : n # m => delivered'[n] = delivered[n]
      BY <1>1, <3>1, PlacesFacts
    <3>3. QED
      BY <2>1, <3>1, <3>2
  <2>4. QED
    BY <2>2, <2>3 DEF TurnStep, NotStarted, Superseded, WindsDown, Completes, SetupFails,
       ChatFails, Handoff
<1>8. QED
  BY <1>3, <1>4, <1>5, <1>6, <1>7, GoesOrdinary

(* A step that leaves the queue, or takes its first message in. *)
LEMMA StillOrdinary ==
  ASSUME StopInv, "withdrawn" \in DOMAIN history', history'.withdrawn = history.withdrawn,
         session'.stopEpoch = session.stopEpoch, session'.retrying = session.retrying,
         session'.loaded = session.loaded, session'.lastSent = session.lastSent,
         session'.processing => session.processing,
         \A n \in Messages : Goes(n), queue' = queue, agent'.pending \in {agent.pending, <<>>},
         \A n \in Messages : delivered'[n] <= delivered[n] \/ Steered(n)
  PROVE  Ordinary
<1>1. ~session'.retrying
  BY DEF StopInv, Withdrawing
<1>2. \A n \in Messages : Settled(n) => ~Queued(n)' /\ ~Steered(n)'
  BY OrderEmpty DEF Settled, Queued, Steered
<1>3. QED
  BY <1>1, <1>2, GoesOrdinary

LEMMA QueueOrdinary ==
  ASSUME StopInv, NEW s \in Sessions, ProcessNext(s),
         s.stopEpoch = session.stopEpoch, s.lastSent = session.lastSent,
         s.retrying = session.retrying, s.loaded = session.loaded,
         s.processing = session.processing, UNCHANGED <<agent, delivered, history>>
  PROVE  Ordinary
<1>1. PlacesInv /\ Withdrawing /\ Shapes
  BY DEF StopInv, PlacesInv
<1>2. /\ session'.stopEpoch = session.stopEpoch /\ session'.lastSent = session.lastSent
      /\ session'.retrying = session.retrying /\ session'.loaded = session.loaded
      /\ session'.processing = session.processing
  BY <1>1, ProcessesNext
<1>3. "withdrawn" \in DOMAIN history' /\ history'.withdrawn = history.withdrawn
  BY <1>1 DEF Withdrawing
<1>4. \A n \in Messages : delivered'[n] <= delivered[n]
  BY <1>1, PlacesFacts
<1>5. CASE queue = <<>> \/ s.deleted
  <2>1. UNCHANGED <<queue, calls>>
    BY <1>5 DEF ProcessNext
  <2>2. \A n \in Messages : Goes(n)
    BY <2>1 DEF Goes
  <2>3. QED
    BY <1>2, <1>3, <1>4, <2>1, <2>2, StillOrdinary
<1>6. CASE ~(queue = <<>> \/ s.deleted)
  <2> DEFINE h == Head(queue)
  <2>1. queue' = Tail(queue) /\ calls' = [calls EXCEPT ![h] = Call("entered", TRUE, FALSE)]
    BY <1>6 DEF ProcessNext
  <2>2. /\ h \in Messages /\ ToSet(queue) = {h} \cup ToSet(Tail(queue))
    BY <1>1, <1>6, PlacesFacts, TailElements
  <2> HIDE DEF h
  <2>3. /\ \A n \in Messages : n # h => calls'[n] = calls[n]
        /\ calls'[h].stage = "entered" /\ calls'[h].epoch = 0
    BY <1>1, <2>1, <2>2, IsCalled, StageNames
  <2>4. \A n \in Messages :
          Goes(n) \/ (Queued(n) /\ calls'[n].stage = "entered" /\ calls'[n].epoch = 0)
    BY <2>2, <2>3 DEF Goes, Queued
  <2>5. \A n \in Messages : Settled(n) => ~Queued(n)' /\ ~Steered(n)'
    BY <2>1, <2>2 DEF Settled, Queued, Steered
  <2>6. ~session'.retrying
    BY <1>1, <1>2 DEF Withdrawing
  <2>7. QED
    BY <1>2, <1>3, <1>4, <2>4, <2>5, <2>6, GoesOrdinary
<1>7. QED
  BY <1>5, <1>6

LEMMA EndsOrdinary ==
  ASSUME StopInv, NEW i \in DOMAIN ends, EndStep(i)
  PROVE  Ordinary
<1>1. PlacesInv /\ Withdrawing /\ session \in Sessions
  BY DEF StopInv, PlacesInv, Shapes
<1>2. UNCHANGED <<agent, delivered, history>>
  BY DEF EndStep, EndChecksQueue, EndReports
<1>3. CASE ProcessNext(session)
  BY <1>1, <1>2, <1>3, QueueOrdinary
<1>4. CASE UNCHANGED <<queue, calls, session>>
  <2>1. \A n \in Messages : delivered'[n] <= delivered[n]
    BY <1>1, <1>2, PlacesFacts
  <2>2. \A n \in Messages : Goes(n)
    BY <1>4 DEF Goes
  <2>3. QED
    BY <1>1, <1>2, <1>4, <2>1, <2>2, StillOrdinary DEF Withdrawing
<1>5. QED
  BY <1>3, <1>4 DEF EndStep, EndChecksQueue, EndReports

LEMMA RecoversOrdinary ==
  ASSUME StopInv, Recovers
  PROVE  Ordinary
<1> DEFINE s == [session EXCEPT !.recovering = FALSE]
<1>1. /\ s \in Sessions
      /\ s.stopEpoch = session.stopEpoch /\ s.lastSent = session.lastSent
      /\ s.retrying = session.retrying /\ s.loaded = session.loaded
      /\ s.processing = session.processing
  BY DEF StopInv, PlacesInv, Shapes, Sessions
<1>2. ProcessNext(s) /\ UNCHANGED <<agent, delivered, history>>
  BY DEF Recovers
<1> HIDE DEF s
<1>3. QED
  BY <1>1, <1>2, QueueOrdinary

(* The session was not loaded, so that nothing of it was settled. *)
LEMMA LoadOrdinary ==
  ASSUME StopInv, Load
  PROVE  Ordinary
<1>1. PlacesInv /\ Withdrawing /\ session \in Sessions
  BY DEF StopInv, PlacesInv, Shapes
<1>2. ~session.loaded /\ UNCHANGED <<agent, calls, delivered, history>>
  BY DEF Load
<1>3. /\ session'.stopEpoch = session.stopEpoch /\ session'.lastSent = session.lastSent
      /\ session'.retrying = session.retrying /\ session'.processing = session.processing
  BY <1>1 DEF Load, Sessions
<1>4. \A n \in Messages : Goes(n) /\ delivered'[n] <= delivered[n] /\ ~Settled(n)
  BY <1>1, <1>2, PlacesFacts DEF Goes, Settled
<1>5. QED
  BY <1>1, <1>2, <1>3, <1>4, GoesOrdinary DEF Withdrawing

(* What leaves the messages where they are, and the steers that reach the model. *)
LEMMA SessionOrdinary ==
  ASSUME StopInv, ToolBoundary \/ StopTimesOut \/ Delete \/ UNCHANGED vars
  PROVE  Ordinary
<1>1. PlacesInv /\ Withdrawing /\ Shapes /\ session \in Sessions /\ agent \in Agents
  BY DEF StopInv, PlacesInv, Shapes, Goods
<1>2. calls' = calls /\ queue' = queue
  BY DEF ToolBoundary, StopTimesOut, Delete, vars
<1>3. /\ session'.stopEpoch = session.stopEpoch /\ session'.lastSent = session.lastSent
      /\ session'.retrying = session.retrying /\ session'.loaded = session.loaded
      /\ (session'.processing => session.processing)
  <2>1. session' = session \/ session' = [session EXCEPT !.deleted = TRUE] \/ Ended("timeout")
    BY DEF ToolBoundary, StopTimesOut, Delete, vars
  <2>2. CASE Ended("timeout")
    BY <1>1, <2>2, Ends
  <2>3. CASE session' = session \/ session' = [session EXCEPT !.deleted = TRUE]
    BY <1>1, <2>3 DEF Sessions
  <2>4. QED
    BY <2>1, <2>2, <2>3
<1>4. "withdrawn" \in DOMAIN history' /\ history'.withdrawn = history.withdrawn
  <2>1. history' = history \/ history' = [history EXCEPT !.answers = @ \cup ToSet(agent.pending)]
    BY DEF ToolBoundary, StopTimesOut, Delete, vars
  <2>2. QED
    BY <1>1, <2>1 DEF Withdrawing
<1>5. agent'.pending \in {agent.pending, <<>>}
  <2>1. \/ agent' = agent \/ agent' = [agent EXCEPT !.active = FALSE]
        \/ agent' = [agent EXCEPT !.pending = <<>>]
    BY DEF ToolBoundary, StopTimesOut, Delete, vars
  <2>2. QED
    BY <1>1, <2>1 DEF Agents
<1>6. \A n \in Messages : delivered'[n] <= delivered[n] \/ Steered(n)
  <2>1. \A n \in Messages : delivered[n] \in Nat
    BY <1>1, PlacesFacts
  <2>2. \/ delivered' = delivered
        \/ delivered' = [n \in Messages |-> IF n \in ToSet(agent.pending) THEN delivered[n] + 1
                                            ELSE delivered[n]]
    BY DEF ToolBoundary, StopTimesOut, Delete, vars
  <2>3. QED
    BY <2>1, <2>2 DEF Steered
<1>7. \A n \in Messages : Goes(n)
  BY <1>2 DEF Goes
<1>8. QED
  BY <1>2, <1>3, <1>4, <1>5, <1>6, <1>7, StillOrdinary

LEMMA SendOrdinary ==
  ASSUME StopInv, NEW m \in Messages, Send(m)
  PROVE  Ordinary
<1>1. PlacesInv /\ Withdrawing /\ Shapes /\ session \in Sessions
  BY DEF StopInv, PlacesInv, Shapes
<1>2. /\ calls[m].stage = "unsent" /\ calls' = [calls EXCEPT ![m] = Call("entered", FALSE, FALSE)]
      /\ UNCHANGED <<queue, agent, delivered, history>>
  BY DEF Send
<1>3. /\ \A n \in Messages : n # m => calls'[n] = calls[n]
      /\ calls'[m].stage = "entered" /\ calls'[m].epoch = 0
  BY <1>1, <1>2, IsCalled, StageNames
<1>4. /\ session'.stopEpoch = session.stopEpoch /\ session'.lastSent = session.lastSent
      /\ session'.retrying = session.retrying /\ session'.loaded = session.loaded
      /\ session'.processing = session.processing
  BY <1>1 DEF Send, Sessions
<1>5. \A n \in Messages : Goes(n)
  <2>1. Goes(m)
    BY <1>2, <1>3 DEF Goes, Claimed
  <2>2. QED
    BY <1>3, <2>1 DEF Goes
<1>6. \A n \in Messages : delivered'[n] <= delivered[n]
  BY <1>1, <1>2, PlacesFacts
<1>7. QED
  BY <1>1, <1>2, <1>4, <1>5, <1>6, StillOrdinary DEF Withdrawing

(* The message that claims the session is settled from then on. *)
LEMMA ClaimOrdinary ==
  ASSUME StopInv, NEW m \in Messages, Entering(m), session.loaded, Claim(m),
         UNCHANGED <<queue, agent, delivered>>
  PROVE  Ordinary
<1>1. PlacesInv /\ Withdrawing /\ Shapes /\ Placed
  BY DEF StopInv, PlacesInv
<1>2. /\ \A n \in Messages : n # m => calls'[n] = calls[n]
      /\ calls'[m].stage = "preparing" /\ calls'[m].epoch = session.stopEpoch
      /\ session'.lastSent = m /\ session'.stopEpoch = session.stopEpoch
      /\ session'.loaded = session.loaded /\ session'.retrying = session.retrying
  BY <1>1, Claims
<1>3. ~Queued(m) /\ ~Steered(m)
  BY <1>1 DEF Placed, Waits, Underway, Entering
<1>4. /\ \A n \in Messages : Queued(n)' <=> Queued(n)
      /\ \A n \in Messages : Steered(n)' <=> Steered(n)
  BY DEF Queued, Steered
<1>5. \A n \in Messages : Settled(n) \/ n = m => Settled(n)'
  BY <1>2, <1>3, <1>4 DEF Settled, Claimed
<1>6. \A n \in Messages : delivered'[n] <= delivered[n] /\ calls'[n].epoch <= session.stopEpoch
  <2>1. \A n \in Messages : delivered'[n] <= delivered[n]
    BY <1>1, PlacesFacts
  <2>2. session.stopEpoch \in Nat /\ \A n \in Messages : calls[n].epoch <= session.stopEpoch
    BY <1>1, PlacesFacts DEF Withdrawing
  <2>3. QED
    BY <1>2, <2>1, <2>2
<1>7. "withdrawn" \in DOMAIN history' /\ history'.withdrawn = history.withdrawn
  BY <1>1 DEF Withdrawing, Claim
<1>8. session'.lastSent \in Messages /\ Settled(session.lastSent)'
  <2>1. Settled(m)'
    BY <1>5
  <2>2. QED
    BY <1>2, <2>1 DEF Settled, Queued, Steered, Claimed
<1>9. \A n \in Messages : calls'[n].stage = "preparing" => calls'[n] = calls[n] \/ Entering(n)
  BY <1>2
<1>10. QED
  BY <1>1, <1>2, <1>5, <1>6, <1>7, <1>8, <1>9 DEF Ordinary, Withdrawing

LEMMA TakenInOrdinary ==
  ASSUME StopInv, NEW m \in Messages, Checks(m) \/ Persisted(m)
  PROVE  Ordinary
<1>1. PlacesInv /\ Withdrawing /\ Shapes /\ agent \in Agents
  BY DEF StopInv, PlacesInv, Goods
<1>2. Entering(m) /\ session.loaded /\ delivered' = delivered
  BY <1>1 DEF Checks, Persisted, Entering, PlacesInv, Unread
<1>3. CASE Claim(m) /\ UNCHANGED <<queue, agent>>
  BY <1>2, <1>3, ClaimOrdinary
<1>4. ASSUME NEW st \in {"persisting", "returned"},
             calls'[m].stage = st, calls'[m].epoch = calls[m].epoch,
             \A n \in Messages : n # m => calls'[n] = calls[n],
             UNCHANGED <<session, history>>,
             queue' = queue \/ queue' = Append(queue, m),
             agent' = agent \/ agent' = [agent EXCEPT !.pending = Append(@, m)]
      PROVE  Ordinary
  <2>1. /\ \A n \in Messages : n # m => calls'[n] = calls[n]
        /\ calls'[m].stage = st /\ calls'[m].epoch = calls[m].epoch
    BY <1>4
  <2>2. ~Claimed(m)
    BY <1>2 DEF Entering, Claimed
  <2>3. \A n \in Messages : Goes(n)
    BY <2>1, <2>2 DEF Goes
  <2>4. agent'.pending = agent.pending \/ agent'.pending = Append(agent.pending, m)
    BY <1>1, <1>4 DEF Agents
  <2>5. \A n \in Messages : n # m => (Queued(n)' => Queued(n)) /\ (Steered(n)' => Steered(n))
    <3>1. /\ ToSet(Append(queue, m)) = ToSet(queue) \cup {m}
          /\ ToSet(Append(agent.pending, m)) = ToSet(agent.pending) \cup {m}
      BY <1>1, PlacesFacts, AppendElements
    <3>2. queue' = queue \/ queue' = Append(queue, m)
      BY <1>4
    <3>3. \A n \in Messages : n # m => (Queued(n)' => Queued(n))
      BY <3>1, <3>2 DEF Queued
    <3>4. \A n \in Messages : n # m => (Steered(n)' => Steered(n))
      BY <2>4, <3>1 DEF Steered
    <3>5. QED
      BY <3>3, <3>4
  <2>6. \A n \in Messages : Settled(n) => ~Queued(n)' /\ ~Steered(n)'
    BY <2>2, <2>5 DEF Settled
  <2>7. \A n \in Messages : delivered'[n] <= delivered[n]
    BY <1>1, <1>2, PlacesFacts
  <2>8. QED
    BY <1>1, <1>4, <2>3, <2>6, <2>7, GoesOrdinary DEF Withdrawing
<1>5. CASE TakenMidTurn(m) /\ UNCHANGED history
  <2>1. /\ calls'[m].stage = "returned" /\ calls'[m].epoch = calls[m].epoch
        /\ \A n \in Messages : n # m => calls'[n] = calls[n]
    <3>1. calls' = [calls EXCEPT ![m].stage = "returned"] /\ "returned" \in Stages
      BY <1>5 DEF TakenMidTurn, Returned, Stages
    <3>2. QED
      BY <1>1, <3>1, Moves
  <2>2. /\ session' = session
        /\ queue' = queue \/ queue' = Append(queue, m)
        /\ agent' = agent \/ agent' = [agent EXCEPT !.pending = Append(@, m)]
    BY <1>5 DEF TakenMidTurn
  <2>3. QED
    BY <1>4, <1>5, <2>1, <2>2
<1>6. CASE /\ calls' = [calls EXCEPT ![m].stage = "persisting", ![m].seen = session.gen]
           /\ UNCHANGED <<session, queue, agent, history>>
  <2>1. /\ calls'[m].stage = "persisting" /\ calls'[m].epoch = calls[m].epoch
        /\ \A n \in Messages : n # m => calls'[n] = calls[n]
    BY <1>1, <1>6, LooksFirst
  <2>2. QED
    BY <1>4, <1>6, <2>1
<1>7. QED
  BY <1>3, <1>5, <1>6 DEF Checks, Persisted

(* What the user stops is in no place afterwards, and the call of a message *)
(* that was about to start is of an earlier stop.                           *)
LEMMA StopWithdraws ==
  ASSUME StopInv, Stop
  PROVE  Withdrawing' /\ delivered' = delivered
<1>1. PlacesInv /\ Withdrawing /\ Shapes /\ Placed /\ session \in Sessions /\ agent \in Agents
  BY DEF StopInv, PlacesInv, Shapes, Goods
<1> DEFINE W == ToSet(queue) \cup Undelivered
<1>2. /\ session.processing /\ UNCHANGED <<calls, delivered>>
      /\ session' = [session EXCEPT !.stopRequested = TRUE, !.stopEpoch = @ + 1]
      /\ queue' = <<>> /\ agent' = Paused
      /\ history' = [history EXCEPT !.withdrawn = @ \cup W \cup {session.lastSent}]
  BY Zenon DEF Stop
<1>3. session.loaded /\ session.lastSent \in Messages
  BY <1>1, <1>2 DEF PlacesInv, Unread, Withdrawing
<1>4. /\ session'.stopEpoch = session.stopEpoch + 1 /\ session'.lastSent = session.lastSent
      /\ session'.retrying = session.retrying /\ session'.loaded = session.loaded
      /\ session.stopEpoch \in Nat
  BY <1>1, <1>2 DEF Sessions
<1>5. \A n \in W : n \in Messages /\ Claimed(n)
  <2>1. \A n \in W : n \in Messages /\ (Queued(n) \/ Steered(n))
    BY <1>1, PlacesFacts DEF Queued, Steered, Undelivered
  <2>2. \A n \in Messages : calls[n].stage \in Stages
    BY <1>1, PlacesFacts
  <2>3. QED
    BY <1>1, <2>1, <2>2 DEF Placed, Waits, Underway, Claimed, Stages
<1>6. \A n \in Messages : ~Queued(n)' /\ ~Steered(n)'
  <2>1. agent'.pending = <<>>
    BY <1>1, <1>2, PausedAgent DEF PlacesInv, Goods
  <2>2. QED
    BY <1>2, <2>1, OrderEmpty DEF Queued, Steered
<1> HIDE DEF W
<1>7. /\ "withdrawn" \in DOMAIN history'
      /\ history'.withdrawn = history.withdrawn \cup W \cup {session.lastSent}
  BY <1>1, <1>2 DEF Withdrawing
<1>8. \A n \in Messages : Claimed(n) => Settled(n)'
  BY <1>2, <1>3, <1>4, <1>6 DEF Settled, Claimed
<1>9. \A n \in history'.withdrawn : n \in Messages /\ Claimed(n)
  BY <1>1, <1>3, <1>5, <1>7 DEF Withdrawing, Settled
<1>10. \A n \in Messages : calls'[n].epoch < session'.stopEpoch
  <2>1. TAKE n \in Messages
  <2>2. calls[n].epoch <= session.stopEpoch /\ calls[n] \in Calls
    BY <1>1, PlacesFacts DEF Withdrawing
  <2>3. calls[n].epoch \in Nat
    BY <2>2 DEF Calls
  <2>4. QED
    BY <1>2, <1>4, <2>2, <2>3
<1>11. \A n \in Messages : calls'[n].epoch <= session'.stopEpoch
  <2>1. TAKE n \in Messages
  <2>2. calls'[n] \in Calls
    BY <1>1, <1>2, PlacesFacts
  <2>3. calls'[n].epoch \in Nat /\ session'.stopEpoch \in Nat
    BY <1>4, <2>2 DEF Calls
  <2>4. QED
    BY <1>10, <2>3
<1>12. Settled(session.lastSent)'
  <2>1. PICK n \in Messages : n = session.lastSent
    BY <1>3
  <2>2. Settled(n)'
    BY <1>1, <1>8, <2>1 DEF Withdrawing, Settled
  <2>3. QED
    BY <1>4, <2>1, <2>2 DEF Settled, Queued, Steered, Claimed
<1>13. ~session'.retrying
  BY <1>1, <1>4 DEF Withdrawing
<1>14. QED
  BY <1>2, <1>3, <1>4, <1>7, <1>8, <1>9, <1>10, <1>11, <1>12, <1>13 DEF Withdrawing

LEMMA InitStop == Init => StopInv
<1> SUFFICES ASSUME Init PROVE StopInv
  OBVIOUS
<1>1. PlacesInv /\ HistoryShaped /\ left = {}
  BY InitWaits DEF WaitsInv, Init
<1>2. history = [answers |-> {}, withdrawn |-> {}, waits |-> FALSE, between |-> {}]
  BY DEF Init
<1>3. "withdrawn" \in DOMAIN history /\ history.withdrawn = {}
  BY <1>2
<1>4. session.lastSent = 0 /\ ~session.retrying /\ ~session.processing /\ session.stopEpoch = 0
  BY DEF Init
<1>5. \A m \in Messages : calls[m].epoch = 0
  BY DEF Init, Call
<1>6. 0 \notin Messages
  BY SessionTurnsAssumption DEF Messages
<1>7. Withdrawing
  BY <1>3, <1>4, <1>5, <1>6 DEF Withdrawing
<1>8. QED
  BY <1>1, <1>7 DEF StopInv

(* Unless a login expires, which takes a message back from the model. *)
LEMMA StepStop ==
  ASSUME "auth" \notin Mishaps, StopInv, [Next]_vars
  PROVE  StopInv' /\ \A m \in history.withdrawn : delivered'[m] <= delivered[m]
<1>1. PlacesInv' /\ HistoryShaped' /\ left' = {}
  <2>1. Lefts
    BY DEF StopInv, Lefts
  <2>2. ~AuthRetries /\ \A c \in left : FALSE
    BY DEF AuthRetries, StopInv, Withdrawing
  <2>3. left' = left
    BY <2>2, LeftByRetries
  <2>4. QED
    BY <2>1, <2>3, StepPlaces, HistoryKept DEF StopInv
<1>2. ASSUME NEW m \in Messages, Send(m) \/ CallStep(m) \/ Trouble(m)
      PROVE  Ordinary
  <2>1. ~AuthFails(m)
    BY DEF AuthFails, Mishap
  <2>2. QED
    BY <1>2, <2>1, SendOrdinary, TakenInOrdinary, TurnsOrdinary
       DEF CallStep, TakenIn, Trouble
<1>3. ASSUME NEW i \in DOMAIN ends, EndStep(i)
      PROVE  Ordinary
  BY <1>3, EndsOrdinary
<1>4. CASE TimerStep \/ Load \/ ToolBoundary \/ Delete \/ UNCHANGED vars
  <2>1. ~AuthRetries
    BY DEF AuthRetries, StopInv, Withdrawing
  <2>2. Ordinary
    BY <1>4, <2>1, RecoversOrdinary, LoadOrdinary, SessionOrdinary DEF TimerStep
  <2>3. QED
    BY <1>1, <2>2, OrdinaryKept DEF StopInv
<1>5. CASE Stop
  <2>1. Withdrawing' /\ delivered' = delivered
    BY <1>5, StopWithdraws
  <2>2. \A m \in history.withdrawn : delivered'[m] <= delivered[m]
    <3>1. \A m \in Messages : delivered[m] \in Nat
      BY PlacesFacts DEF StopInv
    <3>2. QED
      BY <2>1, <3>1 DEF StopInv, Withdrawing
  <2>3. QED
    BY <1>1, <2>1, <2>2 DEF StopInv
<1>6. ASSUME Ordinary PROVE StopInv' /\ \A m \in history.withdrawn : delivered'[m] <= delivered[m]
  BY <1>1, <1>6, OrdinaryKept DEF StopInv
<1>7. \A c \in left : FALSE
  BY DEF StopInv
<1>8. QED
  BY <1>2, <1>3, <1>4, <1>5, <1>6, <1>7 DEF Next

(* Where no login expires in mid-turn, a message whose turn the user        *)
(* stopped, and one that waited then, is not given to the model again,      *)
(* however its call, its replay and the stop overlap.                       *)
THEOREM StoppedStays ==
  ASSUME "auth" \notin Mishaps
  PROVE  Spec => StopHolds
<1>1. StopInv /\ [Next]_vars => StopInv'
  BY StepStop
<1>2. StopInv /\ [Next]_vars => [\A m \in history.withdrawn : delivered'[m] <= delivered[m]]_vars
  BY StepStop
<1>3. QED
  BY <1>1, <1>2, InitStop, PTL DEF Spec, StopHolds
-----------------------------------------------------------------------------
(* Whose turn it is, where messages are taken in one at a time, a stopped    *)
(* turn is never taken for ended by its timer, and what the application sent *)
(* itself is not found queued.  Logins may expire here, and people's         *)
(* messages be found queued.                                                 *)
Prompt == ~Overlap /\ Recovered \cap Nudges = {} /\ "slow" \notin Mishaps

(* Only the turn of the session is prepared, and the backend works for no   *)
(* other.                                                                   *)
Working ==
  /\ \A m \in Messages : calls[m].stage = "preparing" =>
       Current(m) /\ session.processing /\ ~session.retrying
  /\ agent.active =>
       session.processing /\ \E m \in Messages : calls[m].stage = "running" /\ Current(m) /\ Owns(m)

(* What the application sent itself waits nowhere, and comes to an idle     *)
(* session.                                                                 *)
Apart ==
  \A m \in Nudges : ~Queued(m) /\ ~Steered(m) /\ (Entering(m) => ~session.processing)

(* While the session takes its turn for the application's own, nobody's     *)
(* message is in that turn, on its way into it, or being taken in.          *)
Told ==
  ~session.fromUser =>
    /\ agent.active => agent.pending = <<>>
    /\ \A m \in Messages : Entering(m) => m \in Nudges
    /\ \/ \E m \in Messages : Entering(m)
       \/ history.answers \subseteq Nudges /\ session.lastSent \in Nudges

(* Nobody comes between a refusal and its retry; the calls retries replaced *)
(* are in their chats, and none is the turn of a session that goes on.      *)
Discarded ==
  /\ session.retrying => NoneEnters
  /\ \A c \in left :
       /\ c.started /\ c.gen <= session.gen
       /\ c.gen = session.gen => session.deleted \/ (~session.processing /\ ~NoneEnters)

TellInv ==
  OneInv /\ PlacesInv /\ Lefts /\ HistoryShaped /\ Working /\ Apart /\ Told /\ Discarded

(* The session has one turn. *)
LEMMA OneTurn ==
  ASSUME PlacesInv, NEW m \in Messages, NEW n \in Messages,
         Active(m), Current(m), Active(n), Current(n)
  PROVE  m = n
BY DEF PlacesInv, Clock

LEMMA WorkingKept ==
  ASSUME Working, session'.gen = session.gen,
         \A n \in Messages : calls'[n].stage = "preparing" =>
           /\ calls[n].stage = "preparing" /\ calls'[n].gen = calls[n].gen
           /\ session'.processing = session.processing /\ session'.retrying = session.retrying,
         agent'.active =>
           /\ agent.active /\ agent'.turn = agent.turn /\ session'.processing = session.processing
           /\ \A n \in Messages : calls[n].stage = "running" /\ Current(n) /\ Owns(n)
                                    => calls'[n].stage = "running" /\ calls'[n].gen = calls[n].gen
  PROVE  Working'
<1>1. \A n \in Messages : calls'[n].stage = "preparing" =>
        calls'[n].gen = session'.gen /\ session'.processing /\ ~session'.retrying
  BY DEF Working, Current
<1>2. ASSUME agent'.active
      PROVE  session'.processing /\ \E n \in Messages : /\ calls'[n].stage = "running"
                                                        /\ calls'[n].gen = session'.gen
                                                        /\ agent'.turn = calls'[n].gen
  <2>1. PICK n \in Messages : calls[n].stage = "running" /\ Current(n) /\ Owns(n)
    BY <1>2 DEF Working
  <2>2. QED
    BY <1>2, <2>1 DEF Working, Current, Owns
<1>3. QED
  BY <1>1, <1>2 DEF Working, Current, Owns

(* The turn of the session is over, and it was not running any more. *)
LEMMA EndingWorks ==
  ASSUME PlacesInv, Working, NEW m \in Messages, Active(m), Current(m), calls[m].stage # "running",
         Returned(m), session'.gen = session.gen, agent' = agent
  PROVE  Working'
<1>1. /\ calls'[m].stage = "returned"
      /\ \A n \in Messages : n # m => calls'[n] = calls[n]
  BY Moves, StageNames DEF PlacesInv, Returned, Stages
<1>2. ASSUME NEW n \in Messages PROVE calls'[n].stage # "preparing"
  <2>1. CASE n = m
    BY <1>1, <2>1
  <2>2. CASE n # m
    <3>1. calls[n].stage = "preparing" => Active(n) /\ Current(n)
      BY DEF Working, Active
    <3>2. QED
      BY <1>1, <2>2, <3>1, OneTurn
  <2>3. QED
    BY <2>1, <2>2
<1>3. ~agent.active
  <2>1. \A n \in Messages : ~(calls[n].stage = "running" /\ Current(n))
    BY OneTurn DEF Active
  <2>2. QED
    BY <2>1 DEF Working
<1>4. QED
  BY <1>2, <1>3, WorkingKept

(* An ended turn keeps its number, whoever ends it. *)
LEMMA EndedGen ==
  ASSUME Shapes, NEW reason, UNCHANGED <<session, accepted, ends>> \/ Ended(reason)
  PROVE  /\ session'.gen = session.gen /\ session'.fromUser = session.fromUser
         /\ session'.lastSent = session.lastSent /\ (session'.processing => session.processing)
BY Ends DEF Shapes

LEMMA TurnStepWorks ==
  ASSUME PlacesInv, Working, NEW m \in Messages, TurnStep(m) \/ SetupFails(m) \/ ChatFails(m)
  PROVE  Working'
<1>1. Shapes /\ agent \in Agents
  BY DEF PlacesInv, Goods
<1>2. CASE SetupFails(m) \/ NotStarted(m) \/ Completes(m) \/ ChatFails(m)
  <2>1. /\ Active(m) /\ Current(m) /\ calls[m].stage # "running" /\ Returned(m) /\ agent' = agent
    BY <1>2 DEF SetupFails, NotStarted, Completes, ChatFails, Active, Working
  <2>2. UNCHANGED <<session, accepted, ends>> \/ \E reason : Ended(reason)
    BY <1>2 DEF SetupFails, NotStarted, Completes, ChatFails
  <2>3. session'.gen = session.gen
    BY <1>1, <2>2, EndedGen
  <2>4. QED
    BY <2>1, <2>3, EndingWorks
<1>3. CASE StartsChat(m)
  <2>1. /\ calls[m].stage = "preparing" /\ Current(m) /\ session' = session
        /\ calls' = [calls EXCEPT ![m].stage = "running"]
        /\ agent' = [exists |-> TRUE, turn |-> session.gen, active |-> TRUE, pending |-> <<>>]
    BY <1>3 DEF StartsChat
  <2>2. /\ calls'[m].stage = "running" /\ calls'[m].gen = calls[m].gen
        /\ \A n \in Messages : n # m => calls'[n] = calls[n]
    BY <1>1, <2>1, Moves DEF Stages
  <2>3. session.processing /\ Active(m)
    BY <2>1 DEF Working, Active
  <2>4. ASSUME NEW n \in Messages PROVE calls'[n].stage # "preparing"
    <3>1. calls[n].stage = "preparing" => Active(n) /\ Current(n)
      BY DEF Working, Active
    <3>2. QED
      BY <2>1, <2>2, <2>3, <3>1, OneTurn
  <2>5. agent'.active /\ agent'.turn = session.gen
    BY <2>1
  <2>6. QED
    BY <2>1, <2>2, <2>3, <2>4, <2>5 DEF Working, Current, Owns
<1>4. CASE Superseded(m) \/ WindsDown(m)
  <2>1. /\ session' = session /\ calls[m].stage \in {"running", "winding"}
        /\ \/ calls' = [calls EXCEPT ![m].stage = "returned"]
           \/ calls' = [calls EXCEPT ![m].stage = "winding"]
        /\ agent' = Paused \/ (agent' = agent /\ ~(Current(m) /\ Owns(m)))
    BY <1>4 DEF Superseded, WindsDown, Returned
  <2>2. /\ calls'[m].stage \in {"returned", "winding"} /\ calls'[m].gen = calls[m].gen
        /\ \A n \in Messages : n # m => calls'[n] = calls[n]
    BY <1>1, <2>1, Moves DEF Stages
  <2>3. agent'.active => agent' = agent /\ ~(Current(m) /\ Owns(m))
    BY <1>1, <2>1, PausedAgent
  <2>4. QED
    BY <2>1, <2>2, <2>3, WorkingKept
<1>5. QED
  BY <1>2, <1>3, <1>4 DEF TurnStep

LEMMA TroubleWorks ==
  ASSUME PlacesInv, Working, NEW m \in Messages, Handoff(m) \/ AuthFails(m)
  PROVE  Working'
<1>1. session \in Sessions /\ agent \in Agents
  BY DEF PlacesInv, Shapes, Goods
<1>2. calls' = calls /\ calls[m].stage = "running"
  BY DEF Handoff, AuthFails
<1>3. PICK k \in Messages : calls[k].stage = "running" /\ Current(k)
  BY <1>2 DEF Handoff, AuthFails, Working
<1>4. ASSUME NEW n \in Messages PROVE calls'[n].stage # "preparing"
  <2>1. calls[n].stage = "preparing" => Active(n) /\ Current(n)
    BY DEF Working, Active
  <2>2. Active(k)
    BY <1>3 DEF Active
  <2>3. QED
    BY <1>2, <1>3, <2>1, <2>2, OneTurn
<1>5. CASE Handoff(m)
  <2>1. session' = [session EXCEPT !.processing = FALSE] /\ agent' = Paused
    BY <1>5 DEF Handoff
  <2>2. session'.gen = session.gen /\ ~agent'.active
    BY <1>1, <2>1, PausedAgent DEF Sessions
  <2>3. QED
    BY <1>4, <2>2, WorkingKept
<1>6. CASE AuthFails(m)
  <2>1. session' = [session EXCEPT !.retried = TRUE, !.retrying = TRUE] /\ agent' = agent
    BY <1>6 DEF AuthFails
  <2>2. session'.gen = session.gen /\ session'.processing = session.processing
    BY <1>1, <2>1 DEF Sessions
  <2>3. QED
    BY <1>2, <1>4, <2>1, <2>2, WorkingKept
<1>7. QED
  BY <1>5, <1>6

(* A message that claims the session finds nobody else at work in it. *)
LEMMA ClaimWorks ==
  ASSUME PlacesInv, Working, NEW m \in Messages, ~session.processing, ~session.retrying, Claim(m),
         agent' = agent
  PROVE  Working'
<1>1. /\ \A n \in Messages : n # m => calls'[n] = calls[n]
      /\ calls'[m].stage = "preparing" /\ calls'[m].gen = session.gen + 1
      /\ session'.processing = TRUE /\ session'.gen = session.gen + 1
      /\ session'.retrying = session.retrying
  BY Claims DEF PlacesInv
<1>2. \A n \in Messages : n # m => calls'[n].stage # "preparing"
  BY <1>1 DEF Working
<1>3. ~agent'.active
  BY DEF Working
<1>4. QED
  BY <1>1, <1>2, <1>3 DEF Working, Current

(* A call is made, moved or returned, and the turn of the session goes on. *)
LEMMA OthersWork ==
  ASSUME Working, NEW m, calls[m].stage \in {"unsent", "entered", "returned"},
         \A n \in Messages : n # m => calls'[n] = calls[n],
         calls'[m].stage # "preparing",
         session'.gen = session.gen, session'.processing = session.processing,
         session'.retrying = session.retrying,
         agent'.active = agent.active, agent'.turn = agent.turn
  PROVE  Working'
BY WorkingKept

LEMMA TakenInWorks ==
  ASSUME OneInv, PlacesInv, Working, Discarded, NEW m \in Messages, Checks(m) \/ Persisted(m)
  PROVE  Working'
<1>1. Shapes /\ agent \in Agents
  BY DEF PlacesInv, Goods
<1>2. ~session.retrying
  BY DEF Discarded, NoneEnters, Entering, Checks, Persisted
<1>3. ASSUME ~session.processing, Claim(m), agent' = agent
      PROVE  Working'
  BY <1>2, <1>3, ClaimWorks
<1>4. ASSUME calls[m].stage = "entered", session' = session, calls'[m].stage # "preparing",
             \A n \in Messages : n # m => calls'[n] = calls[n],
             agent' = agent \/ agent' = [agent EXCEPT !.pending = Append(@, m)]
      PROVE  Working'
  <2>1. agent'.active = agent.active /\ agent'.turn = agent.turn
    BY <1>1, <1>4 DEF Agents
  <2>2. QED
    BY <1>4, <2>1, OthersWork
<1>5. CASE Persisted(m)
  BY <1>3, <1>5 DEF Persisted, OneInv, OneEnters
<1>6. CASE Checks(m) /\ TakenMidTurn(m)
  <2>1. calls' = [calls EXCEPT ![m].stage = "returned"] /\ "returned" \in Stages
    BY <1>6 DEF TakenMidTurn, Returned, Stages
  <2>2. calls'[m].stage = "returned" /\ \A n \in Messages : n # m => calls'[n] = calls[n]
    BY <1>1, <2>1, Moves
  <2>3. QED
    BY <1>4, <1>6, <2>2 DEF Checks, TakenMidTurn
<1>7. CASE /\ Checks(m) /\ UNCHANGED <<session, agent>>
           /\ calls' = [calls EXCEPT ![m].stage = "persisting", ![m].seen = session.gen]
  <2>1. calls'[m].stage = "persisting" /\ \A n \in Messages : n # m => calls'[n] = calls[n]
    BY <1>1, <1>7, LooksFirst
  <2>2. QED
    BY <1>4, <1>7, <2>1 DEF Checks
<1>8. QED
  BY <1>3, <1>5, <1>6, <1>7 DEF Checks
(* What is taken from the queue: a call that had returned. *)

LEMMA TakenFromQueue ==
  ASSUME PlacesInv, NEW s \in Sessions, ProcessNext(s)
  PROVE  \/ session' = s /\ UNCHANGED <<queue, calls>>
         \/ \E h \in Messages :
              /\ Queued(h) /\ calls[h].stage = "returned" /\ calls'[h].stage = "entered"
              /\ \A n \in Messages : n # h => calls'[n] = calls[n]
              /\ \A n \in Messages : Queued(n)' => Queued(n)
              /\ session'.fromUser = (h \notin Nudges)
<1>1. Shapes /\ Placed
  BY DEF PlacesInv
<1>2. CASE queue = <<>> \/ s.deleted
  BY <1>2 DEF ProcessNext
<1>3. CASE ~(queue = <<>> \/ s.deleted)
  <2> DEFINE h == Head(queue)
  <2>1. /\ queue' = Tail(queue) /\ calls' = [calls EXCEPT ![h] = Call("entered", TRUE, FALSE)]
        /\ session' = [s EXCEPT !.fromUser = h \notin Nudges]
    BY <1>3 DEF ProcessNext
  <2>2. h \in Messages /\ ToSet(queue) = {h} \cup ToSet(Tail(queue))
    BY <1>3, PlacesFacts, TailElements
  <2> HIDE DEF h
  <2>3. /\ \A n \in Messages : n # h => calls'[n] = calls[n]
        /\ calls'[h].stage = "entered"
    BY <1>1, <2>1, <2>2, IsCalled, StageNames
  <2>4. session'.fromUser = (h \notin Nudges)
    BY <2>1 DEF Sessions
  <2>5. Queued(h) /\ \A n \in Messages : Queued(n)' => Queued(n)
    BY <2>1, <2>2 DEF Queued
  <2>6. calls[h].stage = "returned"
    BY <1>1, <2>2, <2>5 DEF Placed, Waits
  <2>7. QED
    BY <2>2, <2>3, <2>4, <2>5, <2>6
<1>4. QED
  BY <1>2, <1>3

LEMMA NextWorks ==
  ASSUME PlacesInv, Working, NEW s \in Sessions, ProcessNext(s), s.gen = session.gen,
         s.processing = session.processing, s.retrying = session.retrying, agent' = agent
  PROVE  Working'
<1>1. /\ session'.gen = session.gen /\ session'.processing = session.processing
      /\ session'.retrying = session.retrying
  BY ProcessesNext DEF PlacesInv
<1>2. CASE calls' = calls
  BY <1>1, <1>2, WorkingKept
<1>3. CASE \E h \in Messages :
             /\ calls[h].stage = "returned" /\ calls'[h].stage = "entered"
             /\ \A n \in Messages : n # h => calls'[n] = calls[n]
  BY <1>1, <1>3, OthersWork
<1>4. QED
  BY <1>2, <1>3, TakenFromQueue

LEMMA EndStepWorks ==
  ASSUME PlacesInv, Working, NEW i \in DOMAIN ends, EndStep(i)
  PROVE  Working'
<1>1. session \in Sessions /\ agent' = agent
  BY DEF PlacesInv, Shapes, EndStep, EndChecksQueue, EndReports
<1>2. CASE ProcessNext(session)
  BY <1>1, <1>2, NextWorks
<1>3. CASE calls' = calls /\ session' = session
  BY <1>1, <1>3, WorkingKept
<1>4. QED
  BY <1>2, <1>3 DEF EndStep, EndChecksQueue, EndReports

LEMMA RecoversWorks ==
  ASSUME PlacesInv, Working, Recovers
  PROVE  Working'
<1> DEFINE s == [session EXCEPT !.recovering = FALSE]
<1>1. /\ s \in Sessions /\ s.gen = session.gen
      /\ s.processing = session.processing /\ s.retrying = session.retrying
  BY DEF PlacesInv, Shapes, Sessions
<1>2. ProcessNext(s) /\ agent' = agent
  BY DEF Recovers
<1> HIDE DEF s
<1>3. QED
  BY <1>1, <1>2, NextWorks

LEMMA AuthRetriesWork ==
  ASSUME PlacesInv, Working, AuthRetries
  PROVE  Working'
<1>1. session \in Sessions /\ Shapes /\ session.retrying
  BY DEF PlacesInv, Shapes, AuthRetries
<1>2. session.lastSent \in Messages
  BY <1>1 DEF PlacesInv, Refused
<1>3. PICK st \in {"returned", "entered"} :
        calls' = [calls EXCEPT ![session.lastSent] = Call(st, FALSE, TRUE)]
  BY DEF AuthRetries
<1>4. /\ calls'[session.lastSent].stage = st
      /\ \A n \in Messages : n # session.lastSent => calls'[n] = calls[n]
  BY <1>1, <1>2, <1>3, IsCalled DEF Stages
<1>5. \A n \in Messages : calls'[n].stage # "preparing"
  BY <1>1, <1>4 DEF Working
<1>6. agent' = NoAgent /\ session' = [session EXCEPT !.retrying = FALSE, !.processing = FALSE]
  BY DEF AuthRetries
<1>7. ~agent'.active /\ session'.gen = session.gen
  BY <1>1, <1>6 DEF NoAgent, Sessions
<1>8. QED
  BY <1>5, <1>7, WorkingKept

LEMMA SessionStepWorks ==
  ASSUME PlacesInv, Working, Load \/ ToolBoundary \/ Stop \/ Delete \/ UNCHANGED vars
  PROVE  Working'
<1>1. session \in Sessions /\ agent \in Agents
  BY DEF PlacesInv, Shapes, Goods
<1>2. calls' = calls
  BY DEF Load, ToolBoundary, Stop, Delete, vars
<1>3. /\ session'.gen = session.gen /\ session'.processing = session.processing
      /\ session'.retrying = session.retrying
  <2>1. \/ session' = session \/ session' = [session EXCEPT !.deleted = TRUE]
        \/ session' = [session EXCEPT !.loaded = TRUE,
                                      !.recovering = Recovered # {} /\ ~session.processing]
        \/ session' = [session EXCEPT !.stopRequested = TRUE, !.stopEpoch = @ + 1]
    BY DEF Load, ToolBoundary, Stop, Delete, vars
  <2>2. QED
    BY <1>1, <2>1 DEF Sessions
<1>4. agent'.active => agent.active /\ agent'.turn = agent.turn
  <2>1. \/ agent' = agent \/ agent' = Paused \/ agent' = [agent EXCEPT !.active = FALSE]
        \/ agent' = [agent EXCEPT !.pending = <<>>]
    BY DEF Load, ToolBoundary, Stop, Delete, vars
  <2>2. QED
    BY <1>1, <2>1, PausedAgent DEF Agents
<1>5. QED
  BY <1>2, <1>3, <1>4, WorkingKept

LEMMA SendWorks ==
  ASSUME PlacesInv, Working, NEW m \in Messages, Send(m)
  PROVE  Working'
<1>1. session \in Sessions /\ Shapes
  BY DEF PlacesInv, Shapes
<1>2. /\ calls[m].stage = "unsent" /\ calls' = [calls EXCEPT ![m] = Call("entered", FALSE, FALSE)]
      /\ session' = [session EXCEPT !.fromUser = m \notin Nudges] /\ agent' = agent
  BY DEF Send
<1>3. /\ calls'[m].stage = "entered" /\ \A n \in Messages : n # m => calls'[n] = calls[n]
  BY <1>1, <1>2, IsCalled DEF Stages
<1>4. /\ session'.gen = session.gen /\ session'.processing = session.processing
      /\ session'.retrying = session.retrying
  BY <1>1, <1>2 DEF Sessions
<1>5. /\ calls[m].stage \in {"unsent", "entered", "returned"} /\ calls'[m].stage # "preparing"
      /\ agent'.active = agent.active /\ agent'.turn = agent.turn
  BY <1>2, <1>3
<1>6. QED
  BY <1>3, <1>4, <1>5, OthersWork

(* The end of a call that was replaced says nothing of the session. *)
LEMMA LeftEndsUnheard ==
  ASSUME ~Overlap, Discarded, Ready, NEW c \in left, LeftStarts(c) \/ LeftEnds(c)
  PROVE  /\ LeftEnds(c) /\ left' \subseteq left /\ (agent' = Paused \/ agent' = agent)
         /\ UNCHANGED <<session, accepted, ends, queue, transcript, calls, delivered, history>>
<1>1. NoneEnters
  BY DEF Ready, NoneEnters, Entering
<1>2. c.started /\ (c.gen = session.gen => session.deleted)
  BY <1>1 DEF Discarded
<1>3. LeftEnds(c)
  BY <1>2 DEF LeftStarts
<1>4. UNCHANGED <<session, accepted, ends>>
  BY <1>2, <1>3 DEF LeftEnds, Ended
<1>5. QED
  BY <1>3, <1>4 DEF LeftEnds

LEMMA LeftStepWorks ==
  ASSUME ~Overlap, PlacesInv, Working, Discarded, NEW c \in left, LeftStep(c)
  PROVE  Working'
<1>1. agent' = Paused \/ agent' = agent
  BY LeftEndsUnheard DEF LeftStep
<1>2. UNCHANGED <<session, calls>>
  BY LeftEndsUnheard DEF LeftStep
<1>3. agent'.active => agent' = agent
  BY <1>1, PausedAgent DEF PlacesInv, Goods
<1>4. QED
  BY <1>2, <1>3, WorkingKept

(* The timer of a stop is not among the steps. *)
LEMMA StepWorks ==
  ASSUME Prompt, OneInv, PlacesInv, Working, Discarded, [Next]_vars
  PROVE  Working'
<1>1. ~StopTimesOut /\ ~Overlap
  BY DEF Prompt, StopTimesOut
<1>2. ASSUME NEW m \in Messages, Send(m) \/ CallStep(m) \/ Trouble(m)
      PROVE  Working'
  BY <1>2, SendWorks, TakenInWorks, TurnStepWorks, TroubleWorks DEF CallStep, TakenIn, Trouble
<1>3. ASSUME NEW i \in DOMAIN ends, EndStep(i)
      PROVE  Working'
  BY <1>3, EndStepWorks
<1>4. CASE TimerStep \/ Load \/ ToolBoundary \/ Stop \/ Delete \/ UNCHANGED vars
  BY <1>1, <1>4, RecoversWorks, AuthRetriesWork, SessionStepWorks DEF TimerStep
<1>5. ASSUME NEW c \in left, LeftStep(c)
      PROVE  Working'
  BY <1>1, <1>5, LeftStepWorks
<1>6. QED
  BY <1>2, <1>3, <1>4, <1>5 DEF Next

LEMMA ToldKept ==
  ASSUME Apart, Told,
         session'.fromUser = session.fromUser, session'.lastSent = session.lastSent,
         history'.answers = history.answers, session'.processing => session.processing,
         \A n \in Messages : Entering(n)' <=> Entering(n),
         \A n \in Messages : Queued(n)' \/ Steered(n)' => Queued(n) \/ Steered(n),
         agent'.active => agent'.pending = <<>> \/ (agent.active /\ agent'.pending = agent.pending)
  PROVE  Apart' /\ Told'
<1>1. \A n \in Nudges : n \in Messages
  BY SessionTurnsAssumption
<1>2. Apart'
  BY <1>1 DEF Apart
<1>3. Told'
  BY <1>1 DEF Told
<1>4. QED
  BY <1>2, <1>3

(* The steps of a turn take nobody in. *)
LEMMA TurnsEnterNobody ==
  ASSUME Shapes, NEW m \in Messages, TurnStep(m) \/ SetupFails(m) \/ ChatFails(m) \/ Handoff(m)
  PROVE  \A n \in Messages : Entering(n)' <=> Entering(n)
<1>1. \/ calls' = calls
      \/ /\ ~Entering(m)
         /\ \E st \in {"running", "winding", "returned"} : calls' = [calls EXCEPT ![m].stage = st]
  BY Zenon DEF TurnStep, StartsChat, NotStarted, Superseded, WindsDown, Completes, SetupFails,
     ChatFails, Handoff, Returned, Entering
<1>2. CASE calls' = calls
  BY <1>2 DEF Entering
<1>3. ASSUME ~Entering(m), NEW st \in {"running", "winding", "returned"},
             calls' = [calls EXCEPT ![m].stage = st]
      PROVE  \A n \in Messages : Entering(n)' <=> Entering(n)
  <2>1. calls'[m].stage = st /\ \A n \in Messages : n # m => calls'[n] = calls[n]
    BY <1>3, Moves DEF Stages
  <2>2. QED
    BY <1>3, <2>1 DEF Entering
<1>4. QED
  BY <1>1, <1>2, <1>3

LEMMA TurnStepTold ==
  ASSUME PlacesInv, HistoryShaped, Apart, Told, NEW m \in Messages,
         TurnStep(m) \/ SetupFails(m) \/ ChatFails(m) \/ Handoff(m)
  PROVE  Apart' /\ Told'
<1>1. Shapes /\ session \in Sessions /\ agent \in Agents
  BY DEF PlacesInv, Shapes, Goods
<1>2. \A n \in Messages : Entering(n)' <=> Entering(n)
  BY <1>1, TurnsEnterNobody
<1>3. /\ session'.fromUser = session.fromUser /\ session'.lastSent = session.lastSent
      /\ (session'.processing => session.processing)
  <2>1. session' = session \/ session' = [session EXCEPT !.processing = FALSE]
        \/ \E reason : Ended(reason)
    BY DEF TurnStep, StartsChat, NotStarted, Superseded, WindsDown, Completes, SetupFails,
       ChatFails, Handoff
  <2>2. CASE session' = session \/ session' = [session EXCEPT !.processing = FALSE]
    BY <1>1, <2>2 DEF Sessions
  <2>3. QED
    BY <1>1, <2>1, <2>2, EndedGen
<1>4. history'.answers = history.answers
  <2>1. history' = history \/ history' = [history EXCEPT !.waits = TRUE]
    BY DEF TurnStep, StartsChat, NotStarted, Superseded, WindsDown, Completes, SetupFails,
       ChatFails, Handoff
  <2>2. QED
    BY <2>1 DEF HistoryShaped
<1>5. agent'.active => agent'.pending = <<>> \/ (agent.active /\ agent'.pending = agent.pending)
  <2>1. \/ agent' = agent \/ agent' = Paused
        \/ agent' = [exists |-> TRUE, turn |-> session.gen, active |-> TRUE, pending |-> <<>>]
    BY DEF TurnStep, StartsChat, NotStarted, Superseded, WindsDown, Completes, SetupFails,
       ChatFails, Handoff
  <2>2. QED
    BY <1>1, <2>1, PausedAgent
<1>6. QED
  BY <1>2, <1>3, <1>4, <1>5, TurnsGather, ToldKept

LEMMA AuthFailsTold ==
  ASSUME PlacesInv, Apart, Told, NEW m \in Messages, AuthFails(m)
  PROVE  Apart' /\ Told'
<1>1. session \in Sessions
  BY DEF PlacesInv, Shapes
<1>2. /\ session' = [session EXCEPT !.retried = TRUE, !.retrying = TRUE]
      /\ UNCHANGED <<queue, agent, calls, history>>
  BY DEF AuthFails
<1>3. /\ session'.fromUser = session.fromUser /\ session'.lastSent = session.lastSent
      /\ session'.processing = session.processing
  BY <1>1, <1>2 DEF Sessions
<1>4. \A n \in Messages : /\ Entering(n)' <=> Entering(n)
                          /\ Queued(n)' \/ Steered(n)' => Queued(n) \/ Steered(n)
  BY <1>2 DEF Entering, Queued, Steered
<1>5. QED
  BY <1>2, <1>3, <1>4, ToldKept

(* The message whose turn it was is taken in again: nobody else is. *)
LEMMA AuthRetriesTold ==
  ASSUME PlacesInv, HistoryShaped, Apart, Told, NoneEnters, AuthRetries
  PROVE  Apart' /\ Told'
<1>1. session \in Sessions /\ Shapes /\ session.retrying
  BY DEF PlacesInv, Shapes, AuthRetries
<1>2. session.lastSent \in Messages
  BY <1>1 DEF PlacesInv, Refused
<1>3. PICK st \in {"returned", "entered"} :
        calls' = [calls EXCEPT ![session.lastSent] = Call(st, FALSE, TRUE)]
  BY DEF AuthRetries
<1>4. \A n \in Messages : n # session.lastSent => ~Entering(n)'
  <2>1. \A n \in Messages : n # session.lastSent => calls'[n] = calls[n]
    BY <1>1, <1>2, <1>3, IsCalled DEF Stages
  <2>2. QED
    BY <2>1 DEF NoneEnters, Entering
<1>5. /\ agent' = NoAgent /\ UNCHANGED history
      /\ session' = [session EXCEPT !.retrying = FALSE, !.processing = FALSE]
  BY DEF AuthRetries
<1>6. /\ ~agent'.active /\ agent'.pending = <<>> /\ ~session'.processing
      /\ session'.fromUser = session.fromUser /\ session'.lastSent = session.lastSent
  BY <1>1, <1>5 DEF NoAgent, Sessions
<1>7. \A n \in Messages : Queued(n)' \/ Steered(n)' => Queued(n) \/ Steered(n)
  <2> DEFINE t == [QueuedAgain EXCEPT ![session.lastSent].bubbles = 0]
  <2>1. /\ QueuedAgain \in [Messages -> Bubble]
        /\ \A n \in Messages : QueuedAgain[n].pos = transcript[n].pos
    BY PlacesFacts, QueuedAgainFacts
  <2>2. t \in [Messages -> Bubble] /\ \A n \in Messages : t[n].pos = QueuedAgain[n].pos
    BY <1>2, <2>1 DEF Bubble
  <2>3. queue' = Recovery /\ transcript' = t
    BY DEF AuthRetries
  <2> HIDE DEF t
  <2>4. /\ \A n \in Messages : Queued(n)' <=> Queued(n) \/ n \in Undelivered
        /\ \A n \in Messages : ~Steered(n)'
        /\ \A n \in Undelivered : n \in Messages /\ Steered(n)
    BY <1>6, <2>1, <2>2, <2>3, BackInQueue
  <2>5. QED
    BY <2>4
<1>8. \A n \in Nudges : n \in Messages
  BY SessionTurnsAssumption
<1>9. Apart'
  BY <1>6, <1>7, <1>8 DEF Apart
<1>10. Told'
  <2> SUFFICES ASSUME ~session'.fromUser
               PROVE  /\ \A n \in Messages : Entering(n)' => n \in Nudges
                      /\ history'.answers \subseteq Nudges /\ session'.lastSent \in Nudges
    BY <1>6 DEF Told
  <2>1. history.answers \subseteq Nudges /\ session.lastSent \in Nudges
    BY <1>6 DEF Told, NoneEnters
  <2>2. QED
    BY <1>4, <1>5, <1>6, <2>1
<1>11. QED
  BY <1>9, <1>10

LEMMA SendTold ==
  ASSUME PlacesInv, Working, Apart, Told, NoneEnters, NEW m \in Messages, Send(m)
  PROVE  Apart' /\ Told'
<1>1. session \in Sessions /\ Shapes
  BY DEF PlacesInv, Shapes
<1>2. /\ m \in Nudges => ~session.processing
      /\ calls' = [calls EXCEPT ![m] = Call("entered", FALSE, FALSE)]
      /\ session' = [session EXCEPT !.fromUser = m \notin Nudges]
      /\ UNCHANGED <<queue, agent, history>>
  BY DEF Send
<1>3. /\ calls'[m].stage = "entered" /\ \A n \in Messages : n # m => calls'[n] = calls[n]
  BY <1>1, <1>2, IsCalled DEF Stages
<1>4. session'.processing = session.processing /\ session'.fromUser = (m \notin Nudges)
  BY <1>1, <1>2 DEF Sessions
<1>5. \A n \in Messages : Entering(n)' <=> n = m
  BY <1>3 DEF Entering, NoneEnters
<1>6. \A n \in Nudges : n \in Messages
  BY SessionTurnsAssumption
<1>7. Apart'
  BY <1>2, <1>4, <1>5, <1>6 DEF Apart, Queued, Steered
<1>8. ASSUME m \in Nudges PROVE ~agent'.active
  BY <1>2, <1>8 DEF Working
<1>9. Told'
  BY <1>4, <1>5, <1>8 DEF Told
<1>10. QED
  BY <1>7, <1>9

(* Who claims the session is its turn. *)
LEMMA ClaimTold ==
  ASSUME OneInv, HistoryShaped, Apart, Told, NEW m \in Messages, Entering(m), Claim(m),
         UNCHANGED <<queue, agent>>
  PROVE  Apart' /\ Told'
<1>1. Shapes /\ OneEnters
  BY DEF OneInv
<1>2. /\ \A n \in Messages : n # m => calls'[n] = calls[n]
      /\ calls'[m].stage = "preparing" /\ session'.lastSent = m
      /\ session'.fromUser = session.fromUser
  BY <1>1, Claims
<1>3. \A n \in Messages : ~Entering(n)'
  BY <1>1, <1>2 DEF OneEnters, Entering
<1>4. history'.answers = {m}
  BY DEF Claim, HistoryShaped
<1>5. \A n \in Nudges : n \in Messages
  BY SessionTurnsAssumption
<1>6. Apart'
  BY <1>3, <1>5 DEF Apart, Queued, Steered
<1>7. Told'
  BY <1>2, <1>3, <1>4 DEF Told
<1>8. QED
  BY <1>6, <1>7

LEMMA TakenInTold ==
  ASSUME OneInv, PlacesInv, HistoryShaped, Apart, Told, NEW m \in Messages,
         Checks(m) \/ Persisted(m)
  PROVE  Apart' /\ Told'
<1>1. Shapes /\ agent \in Agents /\ Entering(m)
  BY DEF PlacesInv, Goods, Checks, Persisted, Entering
<1>2. CASE Claim(m) /\ UNCHANGED <<queue, agent>>
  BY <1>1, <1>2, ClaimTold
<1>3. calls' = [calls EXCEPT ![m].stage = "returned"]
        => /\ calls'[m].stage = "returned" /\ \A n \in Messages : n # m => calls'[n] = calls[n]
  BY <1>1, Moves DEF Stages
<1>4. CASE /\ calls' = [calls EXCEPT ![m].stage = "persisting", ![m].seen = session.gen]
           /\ UNCHANGED <<session, queue, agent, history>>
  <2>1. \A n \in Messages : Entering(n)' <=> Entering(n)
    BY <1>1, <1>4, LooksFirst DEF Entering
  <2>2. \A n \in Messages : Queued(n)' \/ Steered(n)' => Queued(n) \/ Steered(n)
    BY <1>4 DEF Queued, Steered
  <2>3. QED
    BY <1>4, <2>1, <2>2, ToldKept
<1>5. CASE /\ session.processing /\ session' = session
           /\ calls' = [calls EXCEPT ![m].stage = "returned"]
           /\ queue' = queue \/ queue' = Append(queue, m)
           /\ agent' = agent \/ agent' = [agent EXCEPT !.pending = Append(@, m)]
  <2>1. m \notin Nudges
    BY <1>1, <1>5 DEF Apart
  <2>2. session.fromUser
    BY <1>1, <2>1 DEF Told
  <2>3. agent'.pending = agent.pending \/ agent'.pending = Append(agent.pending, m)
    BY <1>1, <1>5 DEF Agents
  <2>4. /\ ToSet(Append(queue, m)) = ToSet(queue) \cup {m}
        /\ ToSet(Append(agent.pending, m)) = ToSet(agent.pending) \cup {m}
    BY PlacesFacts, AppendElements
  <2>5. \A n \in Messages : n # m => (Queued(n)' => Queued(n)) /\ (Steered(n)' => Steered(n))
    BY <1>5, <2>3, <2>4 DEF Queued, Steered
  <2>6. \A n \in Nudges : n \in Messages /\ n # m
    BY <2>1, SessionTurnsAssumption
  <2>7. \A n \in Messages : Entering(n)' => Entering(n)
    BY <1>3, <1>5 DEF Entering
  <2>8. Apart'
    BY <1>5, <2>5, <2>6, <2>7 DEF Apart
  <2>9. QED
    BY <1>5, <2>2, <2>8 DEF Told
<1>6. CASE Persisted(m)
  BY <1>2, <1>6 DEF Persisted
<1>7. CASE Checks(m)
  BY <1>2, <1>4, <1>5, <1>7 DEF Checks, TakenMidTurn, Returned
<1>8. QED
  BY <1>6, <1>7

(* What is taken from the queue is a person's. *)
LEMMA NextTold ==
  ASSUME PlacesInv, Apart, Told, NEW s \in Sessions, ProcessNext(s),
         s.fromUser = session.fromUser, s.lastSent = session.lastSent,
         s.processing = session.processing, UNCHANGED <<agent, history>>
  PROVE  Apart' /\ Told'
<1>1. /\ session'.processing = session.processing /\ session'.lastSent = session.lastSent
  BY ProcessesNext DEF PlacesInv
<1>2. CASE session' = s /\ UNCHANGED <<queue, calls>>
  <2>1. \A n \in Messages : /\ Entering(n)' <=> Entering(n)
                            /\ Queued(n)' \/ Steered(n)' => Queued(n) \/ Steered(n)
    BY <1>2 DEF Entering, Queued, Steered
  <2>2. QED
    BY <1>1, <1>2, <2>1, ToldKept
<1>3. ASSUME NEW h \in Messages, Queued(h), calls'[h].stage = "entered",
             \A n \in Messages : n # h => calls'[n] = calls[n],
             \A n \in Messages : Queued(n)' => Queued(n),
             session'.fromUser = (h \notin Nudges)
      PROVE  Apart' /\ Told'
  <2>1. h \notin Nudges
    BY <1>3 DEF Apart
  <2>2. \A n \in Nudges : n \in Messages /\ n # h
    BY <2>1, SessionTurnsAssumption
  <2>3. \A n \in Nudges : Entering(n)' => Entering(n)
    BY <1>3, <2>2 DEF Entering
  <2>4. Apart'
    BY <1>1, <1>3, <2>2, <2>3 DEF Apart, Queued, Steered
  <2>5. QED
    BY <1>3, <2>1, <2>4 DEF Told
<1>4. QED
  BY <1>2, <1>3, TakenFromQueue

LEMMA EndStepTold ==
  ASSUME PlacesInv, Apart, Told, NEW i \in DOMAIN ends, EndStep(i)
  PROVE  Apart' /\ Told'
<1>1. session \in Sessions /\ UNCHANGED <<agent, history>>
  BY DEF PlacesInv, Shapes, EndStep, EndChecksQueue, EndReports
<1>2. CASE ProcessNext(session)
  BY <1>1, <1>2, NextTold
<1>3. CASE UNCHANGED <<queue, calls, session>>
  <2>1. \A n \in Messages : /\ Entering(n)' <=> Entering(n)
                            /\ Queued(n)' \/ Steered(n)' => Queued(n) \/ Steered(n)
    BY <1>1, <1>3 DEF Entering, Queued, Steered
  <2>2. QED
    BY <1>1, <1>3, <2>1, ToldKept
<1>4. QED
  BY <1>2, <1>3 DEF EndStep, EndChecksQueue, EndReports

LEMMA RecoversTold ==
  ASSUME PlacesInv, Apart, Told, Recovers
  PROVE  Apart' /\ Told'
<1> DEFINE s == [session EXCEPT !.recovering = FALSE]
<1>1. /\ s \in Sessions /\ s.fromUser = session.fromUser
      /\ s.processing = session.processing /\ s.lastSent = session.lastSent
  BY DEF PlacesInv, Shapes, Sessions
<1>2. ProcessNext(s) /\ UNCHANGED <<agent, history>>
  BY DEF Recovers
<1> HIDE DEF s
<1>3. QED
  BY <1>1, <1>2, NextTold

LEMMA LoadTold ==
  ASSUME Recovered \cap Nudges = {}, PlacesInv, Apart, Told, Load
  PROVE  Apart' /\ Told'
<1>1. session \in Sessions /\ UNCHANGED <<agent, calls, history>>
  BY DEF PlacesInv, Shapes, Load
<1>2. queue = <<>> /\ queue' = queue \o Ascending(Recovered)
  BY DEF PlacesInv, Unread, Load
<1>3. ToSet(queue') = Recovered
  <2>1. Ascending(Recovered) \in Seq(Messages) /\ ToSet(Ascending(Recovered)) = Recovered
    BY FoundQueued
  <2>2. <<>> \o Ascending(Recovered) = Ascending(Recovered)
    BY <2>1, ConcatEmptySeq
  <2>3. QED
    BY <1>2, <2>1, <2>2
<1>4. /\ session'.fromUser = session.fromUser /\ session'.lastSent = session.lastSent
      /\ session'.processing = session.processing
  BY <1>1 DEF Load, Sessions
<1>5. \A n \in Nudges : n \notin Recovered
  OBVIOUS
<1>6. Apart'
  BY <1>1, <1>3, <1>4, <1>5 DEF Apart, Queued, Steered, Entering
<1>7. Told'
  BY <1>1, <1>4 DEF Told, Entering
<1>8. QED
  BY <1>6, <1>7

LEMMA SessionStepTold ==
  ASSUME PlacesInv, HistoryShaped, Apart, Told, ToolBoundary \/ Stop \/ Delete \/ UNCHANGED vars
  PROVE  Apart' /\ Told'
<1>1. session \in Sessions /\ agent \in Agents
  BY DEF PlacesInv, Shapes, Goods
<1>2. calls' = calls /\ (queue' = queue \/ queue' = <<>>)
  BY DEF ToolBoundary, Stop, Delete, vars
<1>3. /\ session'.fromUser = session.fromUser /\ session'.lastSent = session.lastSent
      /\ session'.processing = session.processing
  <2>1. \/ session' = session \/ session' = [session EXCEPT !.deleted = TRUE]
        \/ session' = [session EXCEPT !.stopRequested = TRUE, !.stopEpoch = @ + 1]
    BY DEF ToolBoundary, Stop, Delete, vars
  <2>2. QED
    BY <1>1, <2>1 DEF Sessions
<1>4. /\ agent'.pending = agent.pending \/ agent'.pending = <<>>
      /\ agent'.active => agent.active
  <2>1. \/ agent' = agent \/ agent' = Paused \/ agent' = [agent EXCEPT !.active = FALSE]
        \/ agent' = [agent EXCEPT !.pending = <<>>]
    BY DEF ToolBoundary, Stop, Delete, vars
  <2>2. QED
    BY <1>1, <2>1, PausedAgent DEF Agents
<1>5. \A n \in Messages : /\ Entering(n)' <=> Entering(n)
                          /\ Queued(n)' \/ Steered(n)' => Queued(n) \/ Steered(n)
  BY <1>2, <1>4, OrderEmpty DEF Entering, Queued, Steered
<1>6. CASE Stop \/ Delete \/ UNCHANGED vars
  <2>1. history' = history
        \/ history' = [history EXCEPT !.withdrawn = @ \cup (ToSet(queue) \cup Undelivered)
                                                      \cup {session.lastSent}]
    BY <1>6 DEF Stop, Delete, vars
  <2>2. history'.answers = history.answers
    BY <2>1 DEF HistoryShaped
  <2>3. QED
    BY <1>3, <1>4, <1>5, <2>2, ToldKept
<1>7. CASE ToolBoundary
  <2>1. session.fromUser /\ session'.fromUser
    BY <1>3, <1>7 DEF ToolBoundary, Told
  <2>2. Apart'
    <3>1. \A n \in Nudges : n \in Messages
      BY SessionTurnsAssumption
    <3>2. QED
      BY <1>3, <1>5, <3>1 DEF Apart
  <2>3. QED
    BY <2>1, <2>2 DEF Told
<1>8. QED
  BY <1>6, <1>7

LEMMA LeftStepTold ==
  ASSUME ~Overlap, PlacesInv, Apart, Told, Discarded, NEW c \in left, LeftStep(c)
  PROVE  Apart' /\ Told'
<1>1. /\ agent' = Paused \/ agent' = agent
      /\ UNCHANGED <<session, queue, calls, history>>
  BY LeftEndsUnheard DEF LeftStep
<1>2. /\ agent'.active => agent' = agent
      /\ agent'.pending \in {agent.pending, <<>>}
  BY <1>1, PausedAgent DEF PlacesInv, Goods
<1>3. \A n \in Messages : /\ Entering(n)' <=> Entering(n)
                          /\ Queued(n)' \/ Steered(n)' => Queued(n) \/ Steered(n)
  BY <1>1, <1>2, OrderEmpty DEF Entering, Queued, Steered
<1>4. QED
  BY <1>1, <1>2, <1>3, ToldKept

LEMMA StepTold ==
  ASSUME Prompt, TellInv, [Next]_vars
  PROVE  Apart' /\ Told'
<1>1. /\ OneInv /\ PlacesInv /\ HistoryShaped /\ Working /\ Apart /\ Told /\ Discarded
      /\ ~Overlap /\ Recovered \cap Nudges = {} /\ ~StopTimesOut
  BY DEF TellInv, Prompt, StopTimesOut
<1>2. Ready \/ Free => NoneEnters
  BY <1>1 DEF Free, Ready, NoneEnters, Entering
<1>3. ASSUME NEW m \in Messages, Send(m) PROVE Apart' /\ Told'
  BY <1>1, <1>2, <1>3, SendTold DEF Send
<1>4. ASSUME NEW m \in Messages, CallStep(m) \/ Trouble(m) PROVE Apart' /\ Told'
  BY <1>1, <1>4, TakenInTold, TurnStepTold, AuthFailsTold DEF CallStep, TakenIn, Trouble
<1>5. ASSUME NEW i \in DOMAIN ends, EndStep(i) PROVE Apart' /\ Told'
  BY <1>1, <1>5, EndStepTold
<1>6. CASE TimerStep
  BY <1>1, <1>2, <1>6, RecoversTold, AuthRetriesTold DEF TimerStep
<1>7. CASE Load \/ ToolBoundary \/ Stop \/ Delete \/ UNCHANGED vars
  BY <1>1, <1>7, LoadTold, SessionStepTold
<1>8. ASSUME NEW c \in left, LeftStep(c) PROVE Apart' /\ Told'
  BY <1>1, <1>8, LeftStepTold
<1>9. QED
  BY <1>3, <1>4, <1>5, <1>6, <1>7, <1>8 DEF Next

(* What a retry replaces is the turn that was refused; the session is idle, *)
(* and the message of that turn enters again unless nothing may.            *)
LEMMA AuthRetriesDiscarded ==
  ASSUME PlacesInv, Working, Discarded, NoneEnters, AuthRetries
  PROVE  Discarded'
<1>1. session \in Sessions /\ Shapes /\ Clock /\ session.retrying
  BY DEF PlacesInv, Shapes, AuthRetries
<1>2. PICK m \in Messages : m = session.lastSent
  BY <1>1 DEF PlacesInv, Refused
<1>3. session' = [session EXCEPT !.retrying = FALSE, !.processing = FALSE]
  BY DEF AuthRetries
<1>4. /\ ~session'.retrying /\ ~session'.processing
      /\ session'.gen = session.gen /\ session'.deleted = session.deleted
  BY <1>1, <1>3 DEF Sessions
<1>5. session.deleted \/ ~NoneEnters'
  <2>1. CASE ~session.deleted
    <3>1. calls' = [calls EXCEPT ![m] = Call("entered", FALSE, TRUE)]
      BY <1>2, <2>1 DEF AuthRetries
    <3>2. calls'[m].stage = "entered"
      BY <1>1, <3>1, IsCalled DEF Stages
    <3>3. QED
      BY <3>2 DEF NoneEnters, Entering
  <2>2. QED
    BY <2>1
<1> DEFINE on == calls[m].stage # "preparing"
           ct == calls[m].replay \/ calls[m].auth
           c  == [message |-> m, started |-> on, caught |-> ct,
                  gen |-> calls[m].gen, epoch |-> calls[m].epoch]
<1>6. left' = left \/ left' = left \cup {c}
  BY <1>2 DEF AuthRetries
<1>7. on /\ calls[m].gen <= session.gen
  BY <1>1 DEF Working, Clock
<1> HIDE DEF on, ct
<1>8. c.started /\ c.gen <= session.gen
  BY <1>7
<1> HIDE DEF c
<1>9. \A d \in left' : d.started /\ d.gen <= session.gen
  BY <1>6, <1>8 DEF Discarded
<1>10. QED
  BY <1>4, <1>5, <1>9 DEF Discarded

(* Who enters is seen to by the steps of sends, of ends and of timers. *)
LEMMA DiscardedKept ==
  ASSUME Discarded, left' \subseteq left, session'.gen = session.gen,
         session'.processing => session.processing, session.deleted => session'.deleted,
         session'.retrying => session.retrying \/ NoneEnters,
         \A n \in Messages : Entering(n)' <=> Entering(n)
  PROVE  Discarded'
<1>1. NoneEnters' <=> NoneEnters
  BY DEF NoneEnters
<1>2. QED
  BY <1>1 DEF Discarded

(* A message enters where nobody does and no retry is about to begin. *)
LEMMA EntersDiscarded ==
  ASSUME Discarded, NoneEnters, ~session.retrying, left' = left,
         session'.gen = session.gen, session'.retrying = session.retrying,
         session.deleted => session'.deleted
  PROVE  Discarded'
<1>1. \A c \in left : c.gen = session.gen => session.deleted
  BY DEF Discarded
<1>2. QED
  BY <1>1 DEF Discarded

(* The message that is taken in claims the session, or waits for its end. *)
LEMMA TakenInDiscarded ==
  ASSUME OneInv, Lefts, Discarded, NEW m \in Messages, Checks(m) \/ Persisted(m)
  PROVE  Discarded'
<1>1. Shapes /\ OneEnters /\ Entering(m) /\ ~session.retrying /\ left' = left
  BY DEF OneInv, Discarded, NoneEnters, Entering, Checks, Persisted
<1>2. session.gen \in Nat
  BY <1>1 DEF Shapes, Sessions
<1>3. CASE Claim(m)
  <2>1. session'.gen = session.gen + 1 /\ ~session'.retrying
    BY <1>1, <1>3, Claims
  <2>2. \A c \in left : c.gen <= session'.gen /\ c.gen # session'.gen
    <3>1. \A c \in left : c.gen \in Nat
      BY DEF Lefts, LeftCalls
    <3>2. \A c \in left : c.gen <= session.gen
      BY DEF Discarded
    <3>3. QED
      BY <1>2, <2>1, <3>1, <3>2
  <2>3. QED
    BY <1>1, <2>1, <2>2 DEF Discarded
<1>4. CASE /\ calls' = [calls EXCEPT ![m].stage = "persisting", ![m].seen = session.gen]
           /\ session' = session
  <2>1. \A n \in Messages : Entering(n)' <=> Entering(n)
    BY <1>1, <1>4, LooksFirst DEF Entering
  <2>2. QED
    BY <1>1, <1>4, <2>1, DiscardedKept
<1>5. CASE session.processing /\ session' = session
  BY <1>1, <1>5 DEF Discarded
<1>6. QED
  BY <1>3, <1>4, <1>5 DEF Checks, Persisted, TakenMidTurn

LEMMA StepDiscarded ==
  ASSUME Prompt, TellInv, [Next]_vars
  PROVE  Discarded'
<1>1. /\ OneInv /\ PlacesInv /\ Lefts /\ Working /\ Discarded /\ Shapes
      /\ session \in Sessions /\ ~Overlap /\ ~StopTimesOut
  BY DEF TellInv, Prompt, StopTimesOut, PlacesInv, Shapes
<1>2. /\ Ready \/ Free => NoneEnters
      /\ Free => ~session.retrying
  BY <1>1 DEF Free, Ready, NoneEnters, Entering
<1>3. ASSUME NEW m \in Messages, Send(m) PROVE Discarded'
  <2>1. /\ session' = [session EXCEPT !.fromUser = m \notin Nudges] /\ left' = left
        /\ NoneEnters /\ ~session.retrying
    BY <1>2, <1>3 DEF Send
  <2>2. /\ session'.gen = session.gen /\ session'.retrying = session.retrying
        /\ session'.deleted = session.deleted
    BY <1>1, <2>1 DEF Sessions
  <2>3. QED
    BY <1>1, <2>1, <2>2, EntersDiscarded
<1>4. ASSUME NEW m \in Messages, TakenIn(m) PROVE Discarded'
  BY <1>1, <1>4, TakenInDiscarded DEF TakenIn
<1>5. ASSUME NEW m \in Messages, TurnStep(m) \/ SetupFails(m) \/ ChatFails(m) \/ Handoff(m)
      PROVE  Discarded'
  <2>1. \A n \in Messages : Entering(n)' <=> Entering(n)
    BY <1>1, <1>5, TurnsEnterNobody
  <2>2. left' = left
    BY <1>5 DEF TurnStep, StartsChat, NotStarted, Superseded, WindsDown, Completes, SetupFails,
       ChatFails, Handoff
  <2>3. session' = session \/ session' = [session EXCEPT !.processing = FALSE]
        \/ \E reason : Ended(reason)
    BY <1>5 DEF TurnStep, StartsChat, NotStarted, Superseded, WindsDown, Completes, SetupFails,
       ChatFails, Handoff
  <2>4. /\ session'.gen = session.gen /\ session'.retrying = session.retrying
        /\ session'.deleted = session.deleted /\ (session'.processing => session.processing)
    <3>1. CASE session' = session \/ session' = [session EXCEPT !.processing = FALSE]
      BY <1>1, <3>1 DEF Sessions
    <3>2. QED
      BY <1>1, <2>3, <3>1, Ends
  <2>5. QED
    BY <1>1, <2>1, <2>2, <2>4, DiscardedKept
<1>6. ASSUME NEW m \in Messages, Ready, AuthFails(m) PROVE Discarded'
  <2>1. /\ session' = [session EXCEPT !.retried = TRUE, !.retrying = TRUE]
        /\ UNCHANGED <<calls, left>>
    BY <1>6 DEF AuthFails
  <2>2. /\ session'.gen = session.gen /\ session'.processing = session.processing
        /\ session'.deleted = session.deleted
    BY <1>1, <2>1 DEF Sessions
  <2>3. QED
    BY <1>1, <1>2, <1>6, <2>1, <2>2, DiscardedKept DEF Entering
<1>7. ASSUME NEW i \in DOMAIN ends, EndStep(i) PROVE Discarded'
  <2>1. /\ NoneEnters /\ ~session.retrying /\ left' = left
        /\ session' = session \/ ProcessNext(session)
    BY <1>2, <1>7 DEF EndStep, EndChecksQueue, EndReports
  <2>2. /\ session'.gen = session.gen /\ session'.retrying = session.retrying
        /\ session'.deleted = session.deleted
    BY <1>1, <2>1, ProcessesNext
  <2>3. QED
    BY <1>1, <2>1, <2>2, EntersDiscarded
<1>8. CASE Free /\ Recovers
  <2> DEFINE s == [session EXCEPT !.recovering = FALSE]
  <2>1. /\ s \in Sessions /\ s.gen = session.gen
        /\ s.retrying = session.retrying /\ s.deleted = session.deleted
    BY <1>1 DEF Sessions
  <2>2. ProcessNext(s) /\ left' = left
    BY <1>8 DEF Recovers
  <2> HIDE DEF s
  <2>3. /\ session'.gen = session.gen /\ session'.retrying = session.retrying
        /\ session'.deleted = session.deleted
    BY <1>1, <2>1, <2>2, ProcessesNext
  <2>4. QED
    BY <1>1, <1>2, <1>8, <2>2, <2>3, EntersDiscarded
<1>9. CASE Ready /\ AuthRetries
  BY <1>1, <1>2, <1>9, AuthRetriesDiscarded
<1>10. CASE Load \/ ToolBoundary \/ Stop \/ Delete \/ UNCHANGED vars
  <2>1. UNCHANGED <<calls, left>>
    BY <1>10 DEF Load, ToolBoundary, Stop, Delete, vars
  <2>2. \/ session' = session \/ session' = [session EXCEPT !.deleted = TRUE]
        \/ session' = [session EXCEPT !.loaded = TRUE,
                                      !.recovering = Recovered # {} /\ ~session.processing]
        \/ session' = [session EXCEPT !.stopRequested = TRUE, !.stopEpoch = @ + 1]
    BY <1>10 DEF Load, ToolBoundary, Stop, Delete, vars
  <2>3. /\ session'.gen = session.gen /\ session'.processing = session.processing
        /\ session'.retrying = session.retrying /\ (session.deleted => session'.deleted)
    BY <1>1, <2>2 DEF Sessions
  <2>4. QED
    BY <1>1, <2>1, <2>3, DiscardedKept DEF Entering
<1>11. ASSUME NEW c \in left, LeftStep(c) PROVE Discarded'
  <2>1. left' \subseteq left /\ UNCHANGED <<session, calls>>
    BY <1>1, <1>11, LeftEndsUnheard DEF LeftStep
  <2>2. QED
    BY <1>1, <2>1, DiscardedKept DEF Entering
<1>12. QED
  BY <1>1, <1>3, <1>4, <1>5, <1>6, <1>7, <1>8, <1>9, <1>10, <1>11
     DEF Next, CallStep, Trouble, TimerStep

LEMMA InitTells == Init => TellInv
<1> SUFFICES ASSUME Init PROVE TellInv
  OBVIOUS
<1>1. OneInv /\ PlacesInv /\ Lefts /\ HistoryShaped
  BY InitOne, InitWaits DEF WaitsInv
<1>2. session.fromUser /\ ~session.processing /\ ~agent.active
  BY DEF Init, NoAgent
<1>3. \A m \in Messages : calls[m].stage # "preparing"
  BY DEF Init, Call
<1>4. queue = <<>> /\ agent.pending = <<>>
  BY DEF Init, NoAgent
<1>5. Working /\ Apart /\ Told
  BY <1>2, <1>3, <1>4, OrderEmpty DEF Working, Apart, Told, Queued, Steered
<1>6. Discarded
  BY DEF Init, Discarded
<1>7. QED
  BY <1>1, <1>5, <1>6 DEF TellInv

LEMMA TellInvHolds ==
  ASSUME Prompt
  PROVE  Spec => []TellInv
<1>1. TellInv /\ [Next]_vars => TellInv'
  BY StepOne, StepPlaces, StepLefts, HistoryKept, StepWorks, StepTold, StepDiscarded
     DEF TellInv, Prompt
<1>2. QED
  BY <1>1, InitTells, PTL DEF Spec

(* A turn that answers a person is never reported as the application's own, *)
(* whatever is stopped, handed over, fails, cannot be set up, is deleted,   *)
(* refused by an expired login or found queued: a queued message's sender   *)
(* is looked up again when it is replayed, nothing the application sends    *)
(* finds a turn to be steered into, and no steer reaches the model in a     *)
(* turn of the application's own.                                           *)
THEOREM UserHears ==
  ASSUME Prompt
  PROVE  Spec => UserTurnsTold
<1>1. TellInv /\ [Next]_vars
        => [report' # report /\ ~report'.fromUser => history.answers \subseteq Nudges]_vars
  <2> SUFFICES ASSUME TellInv, [Next]_vars, report' # report, ~report'.fromUser
               PROVE  history.answers \subseteq Nudges
    OBVIOUS
  <2>1. PICK i \in DOMAIN ends : Free /\ EndReports(i)
    BY ReportsByEnds
  <2>2. ~session.fromUser
    BY <2>1 DEF EndReports
  <2>3. NoneEnters
    BY <2>1 DEF Free, Ready, NoneEnters, Entering, Prompt
  <2>4. QED
    BY <2>2, <2>3 DEF TellInv, Told, NoneEnters
<1>2. QED
  BY <1>1, TellInvHolds, PTL DEF Spec, UserTurnsTold
===============================================================================

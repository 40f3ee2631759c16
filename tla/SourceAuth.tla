------------------------------ MODULE SourceAuth ------------------------------
(***************************************************************************)
(* The OAuth credential of one source: who refreshes it                    *)
(* (TokenRefreshManager of each session, SourceCredentialManager), how a   *)
(* person signs in and out (the oauth RPC handlers, OAuthFlowStore), and   *)
(* which paused sessions a sign-in resumes (SessionManager).               *)
(*                                                                         *)
(* Credential store and config file are read and written within one task   *)
(* of the event loop, so an action is a stretch between two answers of the *)
(* network.  A provider that rotates refresh tokens refuses a spent one.   *)
(***************************************************************************)
EXTENDS Picking, Naturals, Sequences, FiniteSets, SequencesExt

CONSTANTS
  Sessions,     \* sessions that use the source; each has a TokenRefreshManager
  None,         \* no session
  Kinds,        \* the provider: "google" leaves a refresh token valid, the others rotate them,
                \* and of these "slack" has the new one dropped; "microsoft" is any other
  MaxFlows,     \* bound: sign-ins started
  MaxCards,     \* bound: times a session pauses for a sign-in
  MaxExpiries,  \* bound: access tokens that expire
  Mishaps,      \* what may go wrong
  MaxMishaps    \* bound: how often

ASSUME SourceAuthAssumption ==
  /\ IsFiniteSet(Sessions) /\ None \notin Sessions
  /\ Kinds \subseteq {"google", "slack", "microsoft"}
  /\ MaxFlows \in Nat /\ MaxCards \in Nat /\ MaxExpiries \in Nat /\ MaxMishaps \in Nat
  /\ Mishaps \subseteq {"lost", "signout", "crash", "failed", "refused", "thrown", "ended",
                        "restart", "alone"}

VARIABLES
  store,      \* the stored credential
  shown,      \* config.isAuthenticated
  provider,   \* the provider's side: its kind, the grants, their current refresh tokens
  flight,     \* each session's request to the provider (doRefresh)
  pending,    \* pendingRefreshes: whose request is shared
  awaits,     \* whose request a session awaits in ensureFreshToken
  cooling,    \* sessions with an entry in failedAttempts
  flows,      \* OAuthFlowStore, in the order of its entries, and the exchanges under way
  opened,     \* flows stored so far
  starts,     \* the oauth:start call of each session's card
  preparing,  \* whose preparation the starter's map holds
  card,       \* the last sign-in card of each session
  held,       \* pendingAuthRequest: the card a session is paused on, or 0
  trouble,    \* what went wrong so far
  mishaps, expiries

token == <<store, shown, provider, flight, pending, awaits, cooling, expiries>>
signIn == <<flows, opened, starts, preparing, card, held>>
vars == <<token, signIn, trouble, mishaps>>

FlowIds == 1 .. MaxFlows

NoCredential == [grant |-> 0, number |-> 0, fresh |-> FALSE]
NoFlight == [phase |-> "none", grant |-> 0, number |-> 0]
NoFlow == [listed |-> FALSE, exchanging |-> FALSE, bound |-> <<>>, from |-> 0]
NoStart == [stage |-> "idle", number |-> 0, on |-> None, restart |-> FALSE]

(* A mishap happens, beside the things it brings about. *)
Mishap(kinds) ==
  /\ kinds \subseteq Mishaps /\ mishaps < MaxMishaps
  /\ mishaps' = mishaps + 1

(* The credential is replaced or deleted under a refresh that still uses it. *)
Raced == IF pending = None THEN {} ELSE {"raced"}
-----------------------------------------------------------------------------
(* Refreshing: TokenRefreshManager.ensureFreshToken over                    *)
(* SourceCredentialManager.refresh.                                         *)

Waiters(s) == {q \in Sessions : awaits[q] = s}

(* markSourceNeedsReauth and recordFailure, in every session that waited. *)
RefreshFails(who) ==
  /\ shown' = FALSE
  /\ cooling' = [s \in Sessions |-> cooling[s] \/ s \in who]

(* ensureFreshToken with nothing stored: the refresh fails at once. *)
HasNothing(s) ==
  /\ store = NoCredential
  /\ RefreshFails({s})
  /\ UNCHANGED <<flight, pending, awaits>>

(* A request is sent with what is stored. *)
Requests(s) ==
  /\ store # NoCredential
  /\ flight' = [flight EXCEPT ![s] = [phase |-> "sent", grant |-> store.grant, number |-> store.number]]
  /\ pending' = s /\ awaits' = [awaits EXCEPT ![s] = s]
  /\ UNCHANGED <<shown, cooling>>

(* Mutant of StartsRefresh: pendingRefreshes is not looked up. *)
StartsRefreshAlways(s) == HasNothing(s) \/ Requests(s)

StartsRefresh(s) == pending = None /\ (HasNothing(s) \/ Requests(s))

(* A refresh of the source is under way already: its promise is shared. *)
JoinsRefresh(s) ==
  /\ pending # None
  /\ awaits' = [awaits EXCEPT ![s] = pending]
  /\ UNCHANGED <<shown, cooling, flight, pending>>

AsksForToken(s) ==
  /\ ~cooling[s] /\ ~store.fresh /\ awaits[s] = None
  /\ StartsRefresh(s) \/ JoinsRefresh(s)
  /\ UNCHANGED <<store, provider, expiries, signIn, trouble, mishaps>>

(* The refresh token that comes with new tokens. *)
Issued(number) == IF provider.kind = "google" THEN number ELSE number + 1

(* The provider gives out new tokens for the current refresh token, and     *)
(* refuses a spent one.                                                     *)
ProviderAnswers(s) ==
  LET grant == flight[s].grant
  IN  /\ flight[s].phase = "sent"
      /\ \/ /\ flight[s].number = provider.current[grant]
            /\ flight' = [flight EXCEPT ![s].phase = "granted"]
            /\ provider' = [provider EXCEPT !.current[grant] = Issued(flight[s].number)]
         \/ /\ flight[s].number # provider.current[grant]
            /\ flight' = [flight EXCEPT ![s].phase = "refused"]
            /\ provider' = [provider EXCEPT !.reused = TRUE]
      /\ UNCHANGED <<store, shown, pending, awaits, cooling, expiries, signIn, trouble, mishaps>>

(* The request of s is over for everybody who awaits it. *)
Settled(s) ==
  /\ flight' = [flight EXCEPT ![s] = NoFlight]
  /\ pending' = None
  /\ awaits' = [q \in Sessions |-> IF awaits[q] = s THEN None ELSE awaits[q]]

(* The refresh token that is saved with new tokens: refreshGoogle and       *)
(* refreshSlack save the one they had.                                      *)
Saved(number) == IF provider.kind = "microsoft" THEN Issued(number) ELSE number

(* Mutant of TokensArrive: markSourceAuthenticated is left out. *)
TokensArriveUnseen(s) ==
  /\ flight[s].phase = "granted"
  /\ store' = [grant |-> flight[s].grant, number |-> Saved(flight[s].number), fresh |-> TRUE]
  /\ cooling' = [q \in Sessions |-> cooling[q] /\ awaits[q] # s]
  /\ Settled(s)
  /\ UNCHANGED <<shown, provider, expiries, signIn, trouble, mishaps>>

(* New tokens: saved over whatever is stored by now, and everybody who      *)
(* waited has one.                                                          *)
TokensArrive(s) ==
  /\ flight[s].phase = "granted"
  /\ store' = [grant |-> flight[s].grant, number |-> Saved(flight[s].number), fresh |-> TRUE]
  /\ shown' = TRUE
  /\ cooling' = [q \in Sessions |-> cooling[q] /\ awaits[q] # s]
  /\ Settled(s)
  /\ UNCHANGED <<provider, expiries, signIn, trouble, mishaps>>

RefusalArrives(s) ==
  /\ flight[s].phase = "refused"
  /\ RefreshFails(Waiters(s))
  /\ Settled(s)
  /\ UNCHANGED <<store, provider, expiries, signIn, trouble, mishaps>>

(* No answer arrives, whether or not the provider has given out tokens, or  *)
(* those that arrive cannot be saved.                                       *)
AnswerLost(s) ==
  /\ flight[s].phase \in {"sent", "granted"}
  /\ Mishap({"lost"}) /\ trouble' = trouble \cup {"lost"}
  /\ RefreshFails(Waiters(s))
  /\ Settled(s)
  /\ UNCHANGED <<store, provider, expiries, signIn>>

(* The access token comes within five minutes of its end. *)
TokenExpires ==
  /\ store.fresh /\ expiries < MaxExpiries
  /\ store' = [store EXCEPT !.fresh = FALSE]
  /\ expiries' = expiries + 1
  /\ UNCHANGED <<shown, provider, flight, pending, awaits, cooling, signIn, trouble, mishaps>>

CooldownEnds(s) ==
  /\ cooling[s]
  /\ cooling' = [cooling EXCEPT ![s] = FALSE]
  /\ UNCHANGED <<store, shown, provider, flight, pending, awaits, expiries, signIn, trouble, mishaps>>

(* oauth:revoke *)
SignsOut ==
  /\ store # NoCredential
  /\ Mishap({"signout"}) /\ trouble' = trouble \cup {"signout"} \cup Raced
  /\ store' = NoCredential /\ shown' = FALSE
  /\ UNCHANGED <<provider, flight, pending, awaits, cooling, expiries, signIn>>
-----------------------------------------------------------------------------
(* Signing in: startOAuthFlow and completeOAuthFlow over OAuthFlowStore. *)

Listed(fs) == {f \in FlowIds : fs[f].listed}

(* getLiveForSource: the newest of the flows that have not ended. *)
Newest(fs) == CHOOSE f \in Listed(fs) : \A g \in Listed(fs) : g <= f

(* Mutant of Joined: a waiter without its card. *)
JoinedBare(flow, id) == [flow EXCEPT !.bound = Append(@, <<id[1], 0>>)]

(* OAuthFlowStore.join, which records a waiter once; the first of `bound` is *)
(* the card that started the flow.                                          *)
Joined(flow, id) ==
  IF id \in ToSet(Tail(flow.bound)) THEN flow ELSE [flow EXCEPT !.bound = Append(@, id)]

(* The cards whose starts waited for the preparation of s. *)
Queued(s) == {q \in Sessions : starts[q].stage = "queued" /\ starts[q].on = s}

(* They join the newest flow.  Each is the start of another session, so    *)
(* that the order in which they do makes no difference.                     *)
AllJoin(fs, who) ==
  LET ids == {<<q, starts[q].number>> : q \in who} \ ToSet(Tail(fs[Newest(fs)].bound))
  IN  [fs EXCEPT ![Newest(fs)].bound = @ \o SetToSeq(ids)]

(* Starts that are not over yet may each store a flow (bound). *)
Promised == Cardinality({s \in Sessions : starts[s].stage = "preparing"})

Preparation(n, restart) == [stage |-> "preparing", number |-> n, on |-> None, restart |-> restart]

(* A turn of the session asks for a sign-in and stops (onAuthRequest). *)
Pauses(s) ==
  /\ card[s].status # "pending" /\ card[s].number < MaxCards
  /\ card' = [card EXCEPT ![s] = [number |-> card[s].number + 1, status |-> "pending"]]
  /\ held' = [held EXCEPT ![s] = card[s].number + 1]
  /\ UNCHANGED <<token, flows, opened, starts, preparing, trouble, mishaps>>

CanStart(s) == card[s].status = "pending" /\ starts[s].stage = "idle"

(* oauth:start with joinLive: it waits for a preparation under way. *)
StartWaits(s) ==
  /\ CanStart(s) /\ preparing # None
  /\ starts' = [starts EXCEPT ![s] = [stage |-> "queued", number |-> card[s].number,
                                      on |-> preparing, restart |-> FALSE]]
  /\ UNCHANGED <<token, flows, opened, preparing, card, held, trouble, mishaps>>

(* It joins the flow that is live already. *)
StartJoins(s) ==
  /\ CanStart(s) /\ preparing = None /\ Listed(flows) # {}
  /\ flows' = [flows EXCEPT ![Newest(flows)] = Joined(@, <<s, card[s].number>>)]
  /\ UNCHANGED <<token, opened, starts, preparing, card, held, trouble, mishaps>>

(* It prepares a flow of its own. *)
Prepares(s, restart) ==
  /\ CanStart(s) /\ opened + Promised < MaxFlows
  /\ starts' = [starts EXCEPT ![s] = Preparation(card[s].number, restart)]
  /\ preparing' = s
  /\ UNCHANGED <<token, flows, opened, card, held>>

(* Mutant of StartPrepares: only flows are looked up, not preparations. *)
StartPreparesBeside(s) ==
  /\ Listed(flows) = {}
  /\ Prepares(s, FALSE)
  /\ UNCHANGED <<trouble, mishaps>>

StartPrepares(s) ==
  /\ preparing = None /\ Listed(flows) = {}
  /\ Prepares(s, FALSE)
  /\ UNCHANGED <<trouble, mishaps>>

(* oauth:start of an older client, which cannot join, or with `restart`. *)
StartAlone(s) ==
  \E kind \in {"alone", "restart"} :
    /\ Mishap({kind}) /\ trouble' = trouble \cup {kind}
    /\ Prepares(s, kind = "restart")

(* preparing.delete, unless another preparation has taken its place *)
Unregister(s) == preparing' = IF preparing = s THEN None ELSE preparing

(* The prepared flow is stored; a restart ends the live one and takes over  *)
(* its cards; those who waited for the preparation join.                    *)
PreparationEnds(s) ==
  LET id == <<s, starts[s].number>>
      replaced == {f \in Listed(flows) : starts[s].restart /\ f = Newest(flows)}
      kept == [f \in FlowIds |-> IF f \in replaced THEN [flows[f] EXCEPT !.listed = FALSE] ELSE flows[f]]
      cards == flows[Newest(flows)].bound
      taken == IF replaced = {} THEN <<>> ELSE Picked(cards, {i \in DOMAIN cards : cards[i] # id})
      flow == [listed |-> TRUE, exchanging |-> FALSE, bound |-> <<id>> \o taken,
               from |-> IF replaced = {} THEN 0 ELSE Newest(flows)]
  IN  /\ starts[s].stage = "preparing"
      /\ opened' = opened + 1
      /\ flows' = AllJoin([kept EXCEPT ![opened + 1] = flow], Queued(s))
      /\ starts' = [q \in Sessions |-> IF q \in Queued(s) \cup {s} THEN NoStart ELSE starts[q]]
      /\ Unregister(s)
      /\ UNCHANGED <<token, card, held, trouble, mishaps>>

(* Mutant of PreparationFails: those who waited for it are left waiting. *)
PreparationFailsAlone(s) ==
  /\ starts[s].stage = "preparing"
  /\ Mishap({"failed"}) /\ trouble' = trouble \cup {"failed"}
  /\ starts' = [starts EXCEPT ![s] = NoStart]
  /\ Unregister(s)
  /\ UNCHANGED <<token, flows, opened, card, held>>

(* The preparation fails.  Those who waited for it join a live flow, if     *)
(* there is one, or all go on to prepare one of their own.                  *)
PreparationFails(s) ==
  /\ starts[s].stage = "preparing"
  /\ Mishap({"failed"})
  /\ \/ /\ Queued(s) = {} \/ Listed(flows) # {}
        /\ flows' = IF Queued(s) = {} THEN flows ELSE AllJoin(flows, Queued(s))
        /\ starts' = [q \in Sessions |-> IF q \in Queued(s) \cup {s} THEN NoStart ELSE starts[q]]
        /\ Unregister(s)
        /\ trouble' = trouble \cup {"failed"}
     \/ /\ Queued(s) # {} /\ Listed(flows) = {}
        /\ opened + Promised + Cardinality(Queued(s)) <= MaxFlows + 1
        /\ starts' = [q \in Sessions |-> IF q = s THEN NoStart
                                         ELSE IF q \in Queued(s) THEN Preparation(starts[q].number, FALSE)
                                         ELSE starts[q]]
        /\ preparing' \in Queued(s)
        /\ trouble' = trouble \cup {"failed"}
             \cup (IF Cardinality(Queued(s)) > 1 \/ preparing # s THEN {"split"} ELSE {})
        /\ UNCHANGED flows
  /\ UNCHANGED <<token, opened, card, held>>

(* oauth:complete, or the callback: the code is exchanged for tokens. *)
Completes(f) ==
  /\ flows[f].listed /\ ~flows[f].exchanging
  /\ flows' = [flows EXCEPT ![f].exchanging = TRUE]
  /\ UNCHANGED <<token, opened, starts, preparing, card, held, trouble, mishaps>>

(* The card of s that the flow is bound to: the last one it lists. *)
BoundCard(flow, s) ==
  LET own == {i \in DOMAIN flow.bound : flow.bound[i][1] = s}
  IN  IF own = {} THEN 0 ELSE flow.bound[Max(own)][2]

(* Mutant of AnsweredCard: only what is in memory. *)
AnsweredCardHeld(flow, s) == held[s]

(* completeAuthRequestsForSource: what a session is paused on, or, if it    *)
(* remembers nothing, the card bound to the flow.                           *)
AnsweredCard(flow, s) == IF held[s] # 0 THEN held[s] ELSE BoundCard(flow, s)

Answers(flow) ==
  {s \in Sessions : AnsweredCard(flow, s) = card[s].number /\ card[s].status = "pending"}

(* exchangeAndStore, then the sessions' cards and cooldowns. *)
ExchangeSucceeds(f) ==
  LET answered == Answers(flows[f])
  IN  /\ flows[f].exchanging /\ provider.grants < MaxFlows
      /\ provider' = [provider EXCEPT !.grants = @ + 1]
      /\ store' = [grant |-> provider.grants + 1, number |-> 0, fresh |-> TRUE]
      /\ shown' = TRUE
      /\ cooling' = [s \in Sessions |-> FALSE]
      /\ flows' = [flows EXCEPT ![f] = NoFlow]
      /\ card' = [s \in Sessions |-> IF s \in answered THEN [card[s] EXCEPT !.status = "completed"]
                                     ELSE card[s]]
      /\ held' = [s \in Sessions |-> IF s \in answered THEN 0 ELSE held[s]]
      /\ trouble' = trouble \cup Raced
      /\ UNCHANGED <<flight, pending, awaits, expiries, opened, starts, preparing, mishaps>>

(* completeAuthRequest for the card that started the flow: it forgets what  *)
(* the session is paused on, whichever card that is.                        *)
OwnerFails(flow) ==
  LET s == flow.bound[1][1]
      n == flow.bound[1][2]
  IN  /\ card' = IF card[s].number = n /\ card[s].status = "pending"
                 THEN [card EXCEPT ![s].status = "failed"] ELSE card
      /\ held' = [held EXCEPT ![s] = 0]

ExchangeFails(f) ==
  /\ flows[f].exchanging
  /\ \/ Mishap({"refused"}) /\ OwnerFails(flows[f]) /\ trouble' = trouble \cup {"refused"}
     \/ Mishap({"thrown"}) /\ UNCHANGED <<card, held>> /\ trouble' = trouble \cup {"thrown"}
  /\ flows' = [flows EXCEPT ![f] = NoFlow]
  /\ UNCHANGED <<token, opened, starts, preparing>>

(* oauth:cancel, or the flow is five minutes old. *)
FlowEnds(f) ==
  /\ flows[f].listed
  /\ Mishap({"ended"}) /\ trouble' = trouble \cup {"ended"}
  /\ flows' = [flows EXCEPT ![f] = IF @.exchanging THEN [@ EXCEPT !.listed = FALSE] ELSE NoFlow]
  /\ UNCHANGED <<token, opened, starts, preparing, card, held>>

(* The process dies and starts again: the files stay. *)
Crash ==
  /\ Mishap({"crash"}) /\ trouble' = trouble \cup {"crash"}
  /\ flight' = [s \in Sessions |-> NoFlight] /\ pending' = None
  /\ awaits' = [s \in Sessions |-> None] /\ cooling' = [s \in Sessions |-> FALSE]
  /\ flows' = [f \in FlowIds |-> NoFlow]
  /\ starts' = [s \in Sessions |-> NoStart] /\ preparing' = None
  /\ held' = [s \in Sessions |-> 0]
  /\ UNCHANGED <<store, shown, provider, expiries, opened, card>>
-----------------------------------------------------------------------------
Init ==
  /\ store = NoCredential /\ shown = FALSE
  /\ provider \in [kind : Kinds, grants : {0}, current : {[g \in FlowIds |-> 0]}, reused : {FALSE}]
  /\ flight = [s \in Sessions |-> NoFlight] /\ pending = None
  /\ awaits = [s \in Sessions |-> None] /\ cooling = [s \in Sessions |-> FALSE]
  /\ flows = [f \in FlowIds |-> NoFlow] /\ opened = 0
  /\ starts = [s \in Sessions |-> NoStart] /\ preparing = None
  /\ card = [s \in Sessions |-> [number |-> 0, status |-> "none"]]
  /\ held = [s \in Sessions |-> 0]
  /\ trouble = {} /\ mishaps = 0 /\ expiries = 0

Provider(s) == ProviderAnswers(s) \/ TokensArrive(s) \/ RefusalArrives(s)
Starts(s) == StartWaits(s) \/ StartJoins(s) \/ StartPrepares(s) \/ StartAlone(s)
Prepared(s) == PreparationEnds(s) \/ PreparationFails(s)

Next ==
  \/ TokenExpires \/ SignsOut \/ Crash
  \/ \E s \in Sessions : \/ AsksForToken(s) \/ Provider(s) \/ AnswerLost(s) \/ CooldownEnds(s)
                         \/ Pauses(s) \/ Starts(s) \/ Prepared(s)
  \/ \E f \in FlowIds : Completes(f) \/ ExchangeSucceeds(f) \/ ExchangeFails(f) \/ FlowEnds(f)

Spec == Init /\ [][Next]_vars

(* Requests to the provider have an end.  Nobody has to ask for a token, or *)
(* to sign in.                                                              *)
Fairness == \A s \in Sessions : WF_vars(Provider(s)) /\ WF_vars(Prepared(s))

FairSpec == Spec /\ Fairness
-----------------------------------------------------------------------------
CardIds == Sessions \X (1 .. MaxCards)

TypeOK ==
  /\ store \in [grant : 0 .. MaxFlows, number : Nat, fresh : BOOLEAN]
  /\ shown \in BOOLEAN
  /\ provider \in [kind : Kinds, grants : 0 .. MaxFlows, current : [FlowIds -> Nat], reused : BOOLEAN]
  /\ flight \in [Sessions -> [phase : {"none", "sent", "granted", "refused"},
                              grant : 0 .. MaxFlows, number : Nat]]
  /\ pending \in Sessions \cup {None} /\ awaits \in [Sessions -> Sessions \cup {None}]
  /\ cooling \in [Sessions -> BOOLEAN]
  /\ flows \in [FlowIds -> [listed : BOOLEAN, exchanging : BOOLEAN, bound : Seq(CardIds),
                            from : 0 .. MaxFlows]]
  /\ opened \in 0 .. MaxFlows
  /\ starts \in [Sessions -> [stage : {"idle", "queued", "preparing"}, number : 0 .. MaxCards,
                              on : Sessions \cup {None}, restart : BOOLEAN]]
  /\ preparing \in Sessions \cup {None}
  /\ card \in [Sessions -> [number : 0 .. MaxCards, status : {"none", "pending", "completed", "failed"}]]
  /\ held \in [Sessions -> 0 .. MaxCards]
  /\ trouble \subseteq Mishaps \cup {"raced", "split"}
  /\ mishaps \in 0 .. MaxMishaps /\ expiries \in 0 .. MaxExpiries

(* A spent refresh token is presented again, for which a provider withdraws *)
(* the grant, only if it is Slack's, which are not updated, or after an     *)
(* answer was lost: however many sessions ask at once, and whoever signs in *)
(* or out meanwhile (pendingRefreshes).                                     *)
NoReuse ==
  provider.reused => \/ provider.kind = "slack"
                     \/ provider.kind = "microsoft" /\ trouble \cap {"lost", "crash"} # {}

(* While a usable token is stored, the source is shown as signed in: no     *)
(* second, late refresh marks it as needing a sign-in (ensureFreshToken),   *)
(* unless somebody signed in or out under a refresh.                        *)
FreshShown == store.fresh => shown \/ "raced" \in trouble

(* Sessions that need the same sign-in at the same time share one           *)
(* (createOAuthFlowStarter: single flight), unless a client cannot join or  *)
(* starts over, or a preparation failed that several waited for.            *)
OneSignIn == Cardinality(Listed(flows)) <= 1 \/ trouble \cap {"alone", "restart", "split"} # {}

SignsIn == provider'.grants # provider.grants

(* A pending card that nothing in memory names, because the process         *)
(* restarted or a late failure of an older sign-in cleared it, and that     *)
(* neither the flow nor the one it replaced lists, or that it lists before  *)
(* an older card of the same session, which a start over took along.        *)
Forgotten(s) ==
  /\ held[s] = 0 /\ trouble \cap {"crash", "refused"} # {}
  /\ \E f \in FlowIds :
       /\ flows[f].exchanging /\ ~flows'[f].exchanging
       /\ \/ \A g \in FlowIds \cap {f, flows[f].from} :
               <<s, card[s].number>> \notin ToSet(flows[g].bound)
          \/ "restart" \in trouble
               /\ \E n \in 1 .. card[s].number - 1 : <<s, n>> \in ToSet(flows[f].bound)

(* A sign-in answers every session paused on the source, those that joined  *)
(* it included, whichever flow they joined and whatever they forgot in a    *)
(* crash (completeAuthRequestsForSource, boundRequests).  Only a card that  *)
(* is forgotten waits for the next start from it.                           *)
SignInAnswers ==
  [][SignsIn => \A s \in Sessions : card'[s].status = "pending" => Forgotten(s)]_vars

(* Whoever asks for a token or a sign-in gets an answer: no promise that a   *)
(* failure, a restart or another caller leaves pending.                     *)
RequestsEnd ==
  \A s \in Sessions : /\ awaits[s] # None ~> awaits[s] = None
                      /\ starts[s].stage # "idle" ~> starts[s].stage = "idle"
=============================================================================

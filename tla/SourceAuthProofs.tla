--------------------------- MODULE SourceAuthProofs ---------------------------
(***************************************************************************)
(* Theorems about SourceAuth: what holds of the stored credential and of   *)
(* the sign-ins under way for any number of sessions, sign-ins, pauses,    *)
(* expiries and mishaps.                                                   *)
(***************************************************************************)
EXTENDS SourceAuth, SequenceLemmas

Credentials == [grant : 0 .. MaxFlows, number : Nat, fresh : BOOLEAN]
Flights == [phase : {"none", "sent", "granted", "refused"}, grant : 0 .. MaxFlows, number : Nat]
Providers == [kind : Kinds, grants : 0 .. MaxFlows, current : [FlowIds -> Nat], reused : BOOLEAN]

TokenTypes ==
  /\ store \in Credentials /\ shown \in BOOLEAN
  /\ provider \in Providers /\ flight \in [Sessions -> Flights]
  /\ pending \in Sessions \cup {None} /\ awaits \in [Sessions -> Sessions \cup {None}]

(* Only the request that pendingRefreshes knows is under way. *)
OneFlight == \A s \in Sessions : flight[s].phase # "none" => pending = s

(* Grants are numbered in the order of the sign-ins, and nobody holds a     *)
(* token of one that is not given yet.                                      *)
GrantInv ==
  /\ store.grant <= provider.grants
  /\ store.grant = 0 => store = NoCredential
  /\ \A s \in Sessions : flight[s].phase # "none" => flight[s].grant \in 1 .. provider.grants
  /\ \A g \in FlowIds : g > provider.grants => provider.current[g] = 0

(* A provider that does not rotate refresh tokens refuses none. *)
FixedInv ==
  /\ ~provider.reused /\ store.number = 0
  /\ \A g \in FlowIds : provider.current[g] = 0
  /\ \A s \in Sessions : flight[s].number = 0 /\ flight[s].phase # "refused"

(* While every answer has arrived, the stored refresh token is the current  *)
(* one of its grant, but for the refresh under way that has been answered.  *)
CurrentInv ==
  /\ ~provider.reused
  /\ \A s \in Sessions :
       /\ flight[s].phase # "refused"
       /\ flight[s].phase = "sent" => flight[s].number = provider.current[flight[s].grant]
       /\ flight[s].phase = "granted" => provider.current[flight[s].grant] = flight[s].number + 1
  /\ store.grant # 0 /\ (\A s \in Sessions : flight[s].phase = "granted" => flight[s].grant # store.grant)
       => store.number = provider.current[store.grant]

(* Only an expired credential is refreshed. *)
ExpiredInv == store.fresh => shown /\ pending = None

TokenInv ==
  /\ TokenTypes /\ OneFlight /\ GrantInv
  /\ provider.kind = "google" => FixedInv
  /\ provider.kind = "microsoft" /\ trouble \cap {"lost", "crash"} = {} => CurrentInv
  /\ "raced" \in trouble \/ ExpiredInv

-----------------------------------------------------------------------------
(* A mishap that leaves the credential alone does no harm. *)
LEMMA TokenKept == TokenInv /\ UNCHANGED token /\ trouble \subseteq trouble' => TokenInv'
<1>1. SUFFICES ASSUME TokenInv, UNCHANGED token, trouble \subseteq trouble' PROVE TokenInv'
  OBVIOUS
<1>2. UNCHANGED <<store, shown, provider, flight, pending, awaits>>
  BY <1>1 DEF token
<1>3. TokenTypes' /\ OneFlight' /\ GrantInv'
  BY <1>1, <1>2 DEF TokenInv, TokenTypes, OneFlight, GrantInv, NoCredential
<1>4. (FixedInv => FixedInv') /\ (CurrentInv => CurrentInv') /\ (ExpiredInv => ExpiredInv')
  BY <1>2 DEF FixedInv, CurrentInv, ExpiredInv
<1>5. QED
  BY <1>1, <1>2, <1>3, <1>4 DEF TokenInv

(* A refresh that fails, or whose process dies, leaves the credential as it *)
(* is, and the source shown as it was or as signed out.                     *)
LEMMA FlightOver ==
  ASSUME TokenInv, UNCHANGED <<store, provider>>, shown' \in BOOLEAN, trouble \subseteq trouble',
         flight' \in [Sessions -> Flights], pending' = None,
         awaits' \in [Sessions -> Sessions \cup {None}],
         \A s \in Sessions : flight'[s].phase = "none" /\ (flight'[s].number = 0 \/ flight'[s] = flight[s]),
         \/ trouble' = trouble /\ \E s \in Sessions : flight[s].phase = "refused"
         \/ trouble' \cap {"lost", "crash"} # {},
         shown' = shown \/ pending # None
  PROVE  TokenInv'
<1>1. TokenTypes' /\ OneFlight' /\ GrantInv'
  BY DEF TokenInv, TokenTypes, OneFlight, GrantInv, NoCredential
<1>2. FixedInv => FixedInv'
  BY DEF FixedInv
<1>3. ~(trouble' \cap {"lost", "crash"} = {} /\ CurrentInv)
  BY DEF CurrentInv
<1>4. trouble \cap {"lost", "crash"} # {} => trouble' \cap {"lost", "crash"} # {}
  OBVIOUS
<1>5. ExpiredInv => ExpiredInv'
  BY DEF ExpiredInv
<1> QED
  BY <1>1, <1>2, <1>3, <1>4, <1>5 DEF TokenInv

LEMMA NoFlightType == NoFlight \in Flights /\ NoFlight.phase = "none" /\ NoFlight.number = 0
  BY SourceAuthAssumption DEF NoFlight, Flights

(* What is over for everybody who awaits it. *)
LEMMA SettledFacts ==
  ASSUME TokenInv, NEW s \in Sessions, Settled(s), flight[s].phase # "none"
  PROVE  /\ flight' \in [Sessions -> Flights] /\ pending = s /\ pending' = None /\ s # None
         /\ awaits' \in [Sessions -> Sessions \cup {None}]
         /\ \A q \in Sessions : /\ flight'[q].phase = "none"
                                /\ flight'[q].number = 0 \/ flight'[q] = flight[q]
                                /\ q # s => flight[q].phase = "none"
<1>1. /\ flight' = [flight EXCEPT ![s] = NoFlight] /\ pending' = None
      /\ awaits' = [q \in Sessions |-> IF awaits[q] = s THEN None ELSE awaits[q]]
  BY DEF Settled
<1>2. /\ flight \in [Sessions -> Flights] /\ awaits \in [Sessions -> Sessions \cup {None}]
      /\ pending = s /\ \A q \in Sessions : q # s => flight[q].phase = "none"
  BY DEF TokenInv, TokenTypes, OneFlight
<1> HIDE DEF NoFlight
<1>3. /\ flight' \in [Sessions -> Flights] /\ flight'[s] = NoFlight
      /\ \A q \in Sessions : q # s => flight'[q] = flight[q]
  BY <1>1, <1>2, NoFlightType
<1>4. QED
  BY <1>1, <1>2, <1>3, NoFlightType, SourceAuthAssumption

(* ensureFreshToken *)
LEMMA AsksKeeps ==
  ASSUME TokenInv, NEW s \in Sessions, AsksForToken(s)
  PROVE  TokenInv'
<1>1. ~store.fresh /\ UNCHANGED <<store, provider, trouble>>
  BY DEF AsksForToken
<1>2. ASSUME UNCHANGED <<flight, pending>>, shown' \in BOOLEAN,
             awaits' \in [Sessions -> Sessions \cup {None}]
      PROVE  TokenInv'
  <2>1. TokenTypes' /\ OneFlight' /\ GrantInv'
    BY <1>1, <1>2 DEF TokenInv, TokenTypes, OneFlight, GrantInv, NoCredential
  <2>2. (FixedInv => FixedInv') /\ (CurrentInv => CurrentInv') /\ ExpiredInv'
    BY <1>1, <1>2 DEF FixedInv, CurrentInv, ExpiredInv
  <2>3. QED
    BY <1>1, <2>1, <2>2 DEF TokenInv
<1>3. ASSUME HasNothing(s) \/ JoinsRefresh(s)
      PROVE  TokenInv'
  <2>1. UNCHANGED <<flight, pending>> /\ shown' \in BOOLEAN
    BY <1>3 DEF HasNothing, JoinsRefresh, RefreshFails, TokenInv, TokenTypes
  <2>2. awaits' \in [Sessions -> Sessions \cup {None}]
    <3>1. awaits' = awaits \/ awaits' = [awaits EXCEPT ![s] = pending]
      BY <1>3 DEF HasNothing, JoinsRefresh
    <3>2. QED
      BY <3>1 DEF TokenInv, TokenTypes
  <2>3. QED
    BY <1>2, <2>1, <2>2
<1>4. ASSUME pending = None, Requests(s)
      PROVE  TokenInv'
  <2> DEFINE new == [phase |-> "sent", grant |-> store.grant, number |-> store.number]
  <2>1. /\ store # NoCredential /\ flight' = [flight EXCEPT ![s] = new]
        /\ pending' = s /\ awaits' = [awaits EXCEPT ![s] = s] /\ UNCHANGED shown
    BY <1>4 DEF Requests
  <2>2. new \in Flights /\ new.phase = "sent" /\ new.grant = store.grant /\ new.number = store.number
    BY DEF TokenInv, TokenTypes, Flights, Credentials
  <2> HIDE DEF new
  <2>3. /\ flight'[s] = new /\ flight' \in [Sessions -> Flights]
        /\ \A q \in Sessions : q # s => flight'[q] = flight[q]
    BY <2>1, <2>2 DEF TokenInv, TokenTypes
  <2>4. \A q \in Sessions : flight[q].phase = "none"
    BY <1>4, SourceAuthAssumption DEF TokenInv, OneFlight
  <2>5. store.grant \in 1 .. provider.grants
    BY <2>1 DEF TokenInv, TokenTypes, GrantInv, Credentials, Providers
  <2>6. TokenTypes'
    BY <1>1, <2>1, <2>3 DEF TokenInv, TokenTypes
  <2>7. OneFlight' /\ GrantInv'
    BY <1>1, <2>1, <2>2, <2>3, <2>4, <2>5 DEF TokenInv, OneFlight, GrantInv, NoCredential
  <2>8. FixedInv => FixedInv'
    BY <1>1, <2>2, <2>3 DEF FixedInv
  <2>9. CurrentInv => CurrentInv'
    BY <1>1, <2>2, <2>3, <2>4, <2>5 DEF CurrentInv
  <2> QED
    BY <1>1, <2>6, <2>7, <2>8, <2>9 DEF TokenInv, ExpiredInv
<1> QED
  BY <1>3, <1>4 DEF AsksForToken, StartsRefresh

(* The provider's answer: the one who holds the current token gets the next. *)
LEMMA ProviderKeeps ==
  ASSUME TokenInv, NEW s \in Sessions, ProviderAnswers(s)
  PROVE  TokenInv'
<1> DEFINE grant == flight[s].grant
           n == Issued(flight[s].number)
<1>1. flight[s].phase = "sent" /\ UNCHANGED <<store, shown, pending, awaits, trouble>>
  BY DEF ProviderAnswers
<1>2. /\ flight[s] \in Flights /\ grant \in FlowIds /\ grant \in 1 .. provider.grants
      /\ flight[s].number \in Nat
  BY <1>1 DEF TokenInv, TokenTypes, GrantInv, Flights, Providers, FlowIds
<1>3. n \in Nat
  BY <1>2 DEF Issued
<1>4. \A q \in Sessions : q # s => flight[q].phase = "none"
  BY <1>1 DEF TokenInv, OneFlight
<1>5. ASSUME NEW phase \in {"granted", "refused"}, flight' = [flight EXCEPT ![s].phase = phase]
      PROVE  /\ flight' \in [Sessions -> Flights]
             /\ \A q \in Sessions : q # s => flight'[q] = flight[q]
             /\ flight'[s].phase = phase /\ flight'[s].grant = grant
             /\ flight'[s].number = flight[s].number
  <2> DEFINE new == [flight[s] EXCEPT !.phase = phase]
  <2>1. new \in Flights /\ new.phase = phase /\ new.grant = grant /\ new.number = flight[s].number
    BY <1>2 DEF Flights
  <2>2. flight' = [flight EXCEPT ![s] = new]
    BY <1>5
  <2> HIDE DEF new, grant
  <2>3. flight \in [Sessions -> Flights]
    BY DEF TokenInv, TokenTypes
  <2>4. QED
    BY <2>1, <2>2, <2>3
<1>6. ASSUME flight[s].number = provider.current[grant],
             flight' = [flight EXCEPT ![s].phase = "granted"],
             provider' = [provider EXCEPT !.current[grant] = n]
      PROVE  TokenInv'
  <2> HIDE DEF grant, n
  <2>1. /\ flight' \in [Sessions -> Flights]
        /\ \A q \in Sessions : q # s => flight'[q] = flight[q]
        /\ flight'[s].phase = "granted" /\ flight'[s].grant = grant
        /\ flight'[s].number = flight[s].number
    BY <1>5, <1>6
  <2>2. /\ provider'.grants = provider.grants /\ provider'.reused = provider.reused
        /\ provider'.kind = provider.kind
        /\ provider'.current = [provider.current EXCEPT ![grant] = n]
        /\ provider' \in Providers
    BY <1>2, <1>3, <1>6 DEF TokenInv, TokenTypes, Providers
  <2>3. /\ provider'.current[grant] = n
        /\ \A g \in FlowIds \ {grant} : provider'.current[g] = provider.current[g]
    BY <1>2, <2>2 DEF TokenInv, TokenTypes, Providers
  <2>4. TokenTypes'
    BY <1>1, <2>1, <2>2 DEF TokenInv, TokenTypes
  <2>5. OneFlight'
    BY <1>1, <2>1, <1>4 DEF TokenInv, OneFlight
  <2>6. GrantInv'
    <3>1. \A q \in Sessions : flight'[q].phase # "none" => flight'[q].grant \in 1 .. provider'.grants
      BY <1>2, <1>4, <2>1, <2>2
    <3>2. \A g \in FlowIds : g > provider'.grants => provider'.current[g] = 0
      BY <1>2, <2>2, <2>3 DEF TokenInv, TokenTypes, Providers, GrantInv, FlowIds
    <3>3. QED
      BY <1>1, <2>2, <3>1, <3>2 DEF TokenInv, GrantInv, NoCredential
  <2>7. provider.kind = "google" /\ FixedInv => FixedInv'
    <3>1. provider.kind = "google" /\ FixedInv => n = 0
      BY DEF FixedInv, Issued, n
    <3>2. QED
      BY <1>1, <2>1, <2>2, <2>3, <3>1 DEF FixedInv
  <2>8. provider.kind = "microsoft" /\ CurrentInv => CurrentInv'
    <3>1. provider.kind = "microsoft" => n = flight[s].number + 1
      BY DEF Issued, n
    <3>2. store.grant # 0 => store.grant \in FlowIds
      BY DEF TokenInv, TokenTypes, Credentials, FlowIds
    <3>3. \A q \in Sessions : q # s => flight'[q].phase = "none"
      BY <1>4, <2>1
    <3>4. QED
      BY <1>1, <2>1, <2>2, <2>3, <3>1, <3>2, <3>3, <1>4 DEF CurrentInv
  <2>9. ExpiredInv => ExpiredInv'
    BY <1>1 DEF ExpiredInv
  <2> QED
    BY <1>1, <2>2, <2>4, <2>5, <2>6, <2>7, <2>8, <2>9 DEF TokenInv
<1>7. ASSUME flight[s].number # provider.current[grant],
             flight' = [flight EXCEPT ![s].phase = "refused"],
             provider' = [provider EXCEPT !.reused = TRUE]
      PROVE  TokenInv'
  <2> HIDE DEF grant, n
  <2>1. /\ flight' \in [Sessions -> Flights]
        /\ \A q \in Sessions : q # s => flight'[q] = flight[q]
        /\ flight'[s].phase = "refused" /\ flight'[s].grant = grant
        /\ flight'[s].number = flight[s].number
    BY <1>5, <1>7
  <2>2. /\ provider'.grants = provider.grants /\ provider'.current = provider.current
        /\ provider'.kind = provider.kind /\ provider' \in Providers
    BY <1>7 DEF TokenInv, TokenTypes, Providers
  <2>3. ~CurrentInv /\ ~FixedInv
    BY <1>1, <1>2, <1>7 DEF CurrentInv, FixedInv, grant
  <2>4. TokenTypes'
    BY <1>1, <2>1, <2>2 DEF TokenInv, TokenTypes
  <2>5. OneFlight'
    BY <1>1, <2>1, <1>4 DEF TokenInv, OneFlight
  <2>6. GrantInv'
    <3>1. \A q \in Sessions : flight'[q].phase # "none" => flight'[q].grant \in 1 .. provider'.grants
      BY <1>2, <1>4, <2>1, <2>2
    <3>2. QED
      BY <1>1, <2>2, <3>1 DEF TokenInv, GrantInv, NoCredential
  <2>7. ExpiredInv => ExpiredInv'
    BY <1>1 DEF ExpiredInv
  <2> QED
    BY <1>1, <2>2, <2>3, <2>4, <2>5, <2>6, <2>7 DEF TokenInv
<1> QED
  BY <1>6, <1>7 DEF ProviderAnswers

(* Tokens that arrive are those of the grant that was asked for, whatever   *)
(* is stored meanwhile.                                                     *)
LEMMA TokensKeep ==
  ASSUME TokenInv, NEW s \in Sessions, TokensArrive(s)
  PROVE  TokenInv'
<1> DEFINE n == Saved(flight[s].number)
           new == [grant |-> flight[s].grant, number |-> n, fresh |-> TRUE]
<1>1. /\ flight[s].phase = "granted" /\ shown' = TRUE /\ Settled(s) /\ store' = new
      /\ UNCHANGED <<provider, trouble>>
  BY DEF TokensArrive
<1>2. /\ flight[s].grant \in 1 .. provider.grants /\ flight[s].grant \in 0 .. MaxFlows
      /\ flight[s].number \in Nat
  BY <1>1 DEF TokenInv, TokenTypes, GrantInv, Flights
<1>3. n \in Nat
  BY <1>2 DEF Saved, Issued
<1>4. new.grant = flight[s].grant /\ new.number = n /\ new \in Credentials
  BY <1>2, <1>3 DEF Credentials
<1> HIDE DEF new, n
<1>5. /\ flight' \in [Sessions -> Flights] /\ pending = s /\ pending' = None
      /\ awaits' \in [Sessions -> Sessions \cup {None}]
      /\ \A q \in Sessions : /\ flight'[q].phase = "none"
                             /\ flight'[q].number = 0 \/ flight'[q] = flight[q]
  BY <1>1, SettledFacts
<1>6. TokenTypes' /\ OneFlight'
  BY <1>1, <1>4, <1>5 DEF TokenInv, TokenTypes, OneFlight
<1>7. GrantInv'
  BY <1>1, <1>2, <1>4, <1>5 DEF TokenInv, TokenTypes, Providers, GrantInv
<1>8. provider.kind = "google" /\ FixedInv => FixedInv'
  <2>1. provider.kind = "google" /\ FixedInv => n = 0
    BY DEF FixedInv, Saved, n
  <2>2. QED
    BY <1>1, <1>4, <1>5, <2>1 DEF FixedInv
<1>9. provider.kind = "microsoft" /\ CurrentInv => CurrentInv'
  <2>1. provider.kind = "microsoft" => n = flight[s].number + 1
    BY DEF Saved, Issued, n
  <2>2. QED
    BY <1>1, <1>4, <1>5, <2>1 DEF CurrentInv
<1>10. ExpiredInv'
  BY <1>1, <1>5 DEF ExpiredInv
<1> QED
  BY <1>1, <1>6, <1>7, <1>8, <1>9, <1>10 DEF TokenInv

(* A refresh ends with nothing. *)
LEMMA FailureKeeps ==
  ASSUME TokenInv, NEW s \in Sessions, RefusalArrives(s) \/ AnswerLost(s)
  PROVE  TokenInv'
<1>1. /\ flight[s].phase # "none" /\ Settled(s) /\ shown' = FALSE /\ UNCHANGED <<store, provider>>
      /\ trouble \subseteq trouble'
  BY DEF RefusalArrives, AnswerLost, RefreshFails
<1>2. \/ flight[s].phase = "refused" /\ trouble' = trouble
      \/ trouble' \cap {"lost", "crash"} # {}
  BY DEF RefusalArrives, AnswerLost
<1>3. /\ flight' \in [Sessions -> Flights] /\ pending # None /\ pending' = None
      /\ awaits' \in [Sessions -> Sessions \cup {None}]
      /\ \A q \in Sessions : flight'[q].phase = "none" /\ (flight'[q].number = 0 \/ flight'[q] = flight[q])
  BY <1>1, SettledFacts
<1> QED
  BY <1>1, <1>2, <1>3, FlightOver

(* The access token expires, or a cooldown ends. *)
LEMMA TimeKeeps ==
  ASSUME TokenInv, TokenExpires \/ \E s \in Sessions : CooldownEnds(s)
  PROVE  TokenInv'
<1>1. UNCHANGED <<shown, provider, flight, pending, awaits, trouble>>
  BY DEF TokenExpires, CooldownEnds
<1>2. \/ UNCHANGED store
      \/ store' = [store EXCEPT !.fresh = FALSE] /\ store.fresh
  BY DEF TokenExpires, CooldownEnds
<1>3. \/ store' = store
      \/ /\ store'.grant = store.grant /\ store'.number = store.number /\ store'.fresh = FALSE
         /\ store' \in Credentials /\ store.grant # 0
  <2>1. CASE UNCHANGED store
    BY <2>1
  <2>2. CASE store' = [store EXCEPT !.fresh = FALSE] /\ store.fresh
    <3>1. store \in Credentials /\ (store.grant = 0 => store = NoCredential)
      BY DEF TokenInv, TokenTypes, GrantInv
    <3>2. store.grant # 0
      BY <2>2, <3>1 DEF NoCredential
    <3>3. QED
      BY <2>2, <3>1, <3>2 DEF Credentials
  <2> QED
    BY <1>2, <2>1, <2>2
<1>4. TokenTypes' /\ OneFlight' /\ GrantInv'
  BY <1>1, <1>3 DEF TokenInv, TokenTypes, OneFlight, GrantInv, NoCredential
<1>5. (FixedInv => FixedInv') /\ (CurrentInv => CurrentInv') /\ (ExpiredInv => ExpiredInv')
  BY <1>1, <1>3 DEF FixedInv, CurrentInv, ExpiredInv
<1> QED
  BY <1>1, <1>4, <1>5 DEF TokenInv

LEMMA SignOutKeeps ==
  ASSUME TokenInv, SignsOut
  PROVE  TokenInv'
<1>1. /\ store' = NoCredential /\ shown' = FALSE /\ UNCHANGED <<provider, flight, pending, awaits>>
      /\ trouble \subseteq trouble'
  BY DEF SignsOut
<1>2. store'.grant = 0 /\ store'.fresh = FALSE /\ store'.number = 0 /\ store' \in Credentials
  BY <1>1, SourceAuthAssumption DEF NoCredential, Credentials
<1>3. TokenTypes' /\ OneFlight'
  BY <1>1, <1>2 DEF TokenInv, TokenTypes, OneFlight
<1>4. GrantInv'
  <2>1. store'.grant <= provider'.grants
    BY <1>1, <1>2 DEF TokenInv, TokenTypes, Providers
  <2>2. store'.grant = 0 => (store = NoCredential)'
    BY <1>1 DEF NoCredential
  <2>3. /\ \A s \in Sessions : flight'[s].phase # "none" => flight'[s].grant \in 1 .. provider'.grants
        /\ \A g \in FlowIds : g > provider'.grants => provider'.current[g] = 0
    BY <1>1 DEF TokenInv, GrantInv
  <2> QED
    BY <2>1, <2>2, <2>3 DEF GrantInv
<1>5. (FixedInv => FixedInv') /\ (CurrentInv => CurrentInv') /\ ExpiredInv'
  BY <1>1, <1>2 DEF FixedInv, CurrentInv, ExpiredInv
<1> QED
  BY <1>1, <1>3, <1>4, <1>5 DEF TokenInv

(* A sign-in stores a token of a new grant. *)
LEMMA SignInKeeps ==
  ASSUME TokenInv, NEW f \in FlowIds, ExchangeSucceeds(f)
  PROVE  TokenInv'
<1>1. /\ provider.grants < MaxFlows /\ provider' = [provider EXCEPT !.grants = @ + 1]
      /\ store' = [grant |-> provider.grants + 1, number |-> 0, fresh |-> TRUE]
      /\ shown' = TRUE /\ UNCHANGED <<flight, pending, awaits>> /\ trouble' = trouble \cup Raced
  BY DEF ExchangeSucceeds
<1>2. PICK g \in Nat : g = provider.grants + 1
  BY DEF TokenInv, TokenTypes, Providers
<1>3. g \in 1 .. MaxFlows /\ g \in FlowIds /\ g > provider.grants /\ provider.grants \in Nat
  BY <1>1, <1>2, SourceAuthAssumption DEF TokenInv, TokenTypes, Providers, FlowIds
<1>4. provider' = [provider EXCEPT !.grants = g]
  BY <1>1, <1>2
<1>5. /\ provider'.grants = g /\ provider'.current = provider.current
      /\ provider'.kind = provider.kind
      /\ provider'.reused = provider.reused /\ provider' \in Providers
  BY <1>3, <1>4 DEF TokenInv, TokenTypes, Providers
<1>6. /\ store'.grant = g /\ store'.number = 0 /\ store' \in Credentials
  BY <1>1, <1>2, <1>3 DEF Credentials
<1>7. TokenTypes' /\ OneFlight'
  BY <1>1, <1>5, <1>6 DEF TokenInv, TokenTypes, OneFlight
<1>8. GrantInv'
  <2>1. store'.grant <= provider'.grants /\ store'.grant # 0
    BY <1>3, <1>5, <1>6
  <2>2. \A s \in Sessions : flight'[s].phase # "none" => flight'[s].grant \in 1 .. provider'.grants
    BY <1>1, <1>2, <1>5 DEF TokenInv, TokenTypes, Flights, Providers, GrantInv
  <2>3. \A h \in FlowIds : h > provider'.grants => provider'.current[h] = 0
    BY <1>2, <1>3, <1>5 DEF TokenInv, GrantInv, FlowIds
  <2> QED
    BY <2>1, <2>2, <2>3 DEF GrantInv
<1>9. FixedInv => FixedInv'
  BY <1>1, <1>5, <1>6 DEF FixedInv
<1>10. CurrentInv => CurrentInv'
  <2>1. provider.current[g] = 0
    BY <1>3 DEF TokenInv, GrantInv
  <2> QED
    BY <1>1, <1>5, <1>6, <2>1 DEF CurrentInv
<1>11. pending = None => ExpiredInv'
  BY <1>1 DEF ExpiredInv
<1>12. pending # None => "raced" \in trouble'
  BY <1>1 DEF Raced
<1>13. trouble \subseteq trouble'
  BY <1>1
<1> QED
  BY <1>5, <1>7, <1>8, <1>9, <1>10, <1>11, <1>12, <1>13 DEF TokenInv

LEMMA CrashKeeps ==
  ASSUME TokenInv, Crash
  PROVE  TokenInv'
<1>1. /\ flight' = [s \in Sessions |-> NoFlight] /\ pending' = None
      /\ awaits' = [s \in Sessions |-> None]
      /\ UNCHANGED <<store, provider, shown>> /\ trouble' = trouble \cup {"crash"}
  BY DEF Crash
<1>2. shown \in BOOLEAN
  BY DEF TokenInv, TokenTypes
<1> HIDE DEF NoFlight
<1>3. /\ flight' \in [Sessions -> Flights] /\ awaits' \in [Sessions -> Sessions \cup {None}]
      /\ \A s \in Sessions : flight'[s].phase = "none" /\ flight'[s].number = 0
  BY <1>1, NoFlightType
<1> QED
  BY <1>1, <1>2, <1>3, FlightOver

(* Everything else leaves the credential alone. *)
LEMMA OthersKeep ==
  ASSUME TokenInv,
         \/ \E s \in Sessions : Pauses(s) \/ Starts(s) \/ Prepared(s)
         \/ \E f \in FlowIds : Completes(f) \/ ExchangeFails(f) \/ FlowEnds(f)
         \/ UNCHANGED vars
  PROVE  TokenInv'
<1>1. UNCHANGED token /\ trouble \subseteq trouble'
  <2>1. ASSUME NEW s \in Sessions, Pauses(s) \/ Starts(s) \/ Prepared(s)
        PROVE  UNCHANGED token /\ trouble \subseteq trouble'
    BY <2>1 DEF Pauses, Starts, StartWaits, StartJoins, StartPrepares, StartAlone, Prepares,
                Prepared, PreparationEnds, PreparationFails
  <2>2. ASSUME NEW f \in FlowIds, Completes(f) \/ ExchangeFails(f) \/ FlowEnds(f)
        PROVE  UNCHANGED token /\ trouble \subseteq trouble'
    BY <2>2 DEF Completes, ExchangeFails, FlowEnds
  <2> QED
    BY <2>1, <2>2 DEF vars
<1> QED
  BY <1>1, TokenKept

LEMMA TokenInvHolds == Spec => []TokenInv
<1>1. Init => TokenInv
  <2> SUFFICES ASSUME Init PROVE TokenInv
    OBVIOUS
  <2>1. /\ store = NoCredential /\ shown = FALSE /\ pending = None
        /\ flight = [s \in Sessions |-> NoFlight] /\ awaits = [s \in Sessions |-> None]
        /\ provider \in [kind : Kinds, grants : {0}, current : {[g \in FlowIds |-> 0]}, reused : {FALSE}]
    BY DEF Init
  <2>2. /\ provider.grants = 0 /\ ~provider.reused /\ provider.current = [g \in FlowIds |-> 0]
        /\ provider \in Providers
    <3>1. 0 \in 0 .. MaxFlows /\ [g \in FlowIds |-> 0] \in [FlowIds -> Nat]
      BY SourceAuthAssumption
    <3>2. QED
      BY <2>1, <3>1 DEF Providers
  <2>3. store \in Credentials /\ store.number = 0 /\ store.grant = 0 /\ ~store.fresh
    BY <2>1, SourceAuthAssumption DEF Credentials, NoCredential
  <2> HIDE DEF NoFlight
  <2>4. /\ flight \in [Sessions -> Flights]
        /\ \A s \in Sessions : flight[s].phase = "none" /\ flight[s].number = 0
    BY <2>1, NoFlightType
  <2>5. TokenTypes /\ OneFlight
    BY <2>1, <2>2, <2>3, <2>4 DEF TokenTypes, OneFlight
  <2>6. \A g \in FlowIds : provider.current[g] = 0
    BY <2>2
  <2>7. GrantInv /\ FixedInv /\ CurrentInv /\ ExpiredInv
    BY <2>1, <2>2, <2>3, <2>4, <2>6 DEF GrantInv, FixedInv, CurrentInv, ExpiredInv
  <2> QED
    BY <2>5, <2>7 DEF TokenInv
<1>2. TokenInv /\ [Next]_vars => TokenInv'
  <2> SUFFICES ASSUME TokenInv, [Next]_vars PROVE TokenInv'
    OBVIOUS
  <2>1. CASE TokenExpires \/ SignsOut \/ Crash
    BY <2>1, TimeKeeps, SignOutKeeps, CrashKeeps
  <2>2. ASSUME NEW s \in Sessions,
               AsksForToken(s) \/ CooldownEnds(s) \/ Pauses(s) \/ Starts(s) \/ Prepared(s)
        PROVE  TokenInv'
    BY <2>2, AsksKeeps, TimeKeeps, OthersKeep
  <2>3. ASSUME NEW s \in Sessions, Provider(s) \/ AnswerLost(s)
        PROVE  TokenInv'
    BY <2>3, ProviderKeeps, TokensKeep, FailureKeeps DEF Provider
  <2>4. ASSUME NEW f \in FlowIds,
               Completes(f) \/ ExchangeSucceeds(f) \/ ExchangeFails(f) \/ FlowEnds(f)
        PROVE  TokenInv'
    BY <2>4, SignInKeeps, OthersKeep
  <2>5. CASE UNCHANGED vars
    BY <2>5, OthersKeep
  <2> QED
    BY <2>1, <2>2, <2>3, <2>4, <2>5 DEF Next
<1> QED
  BY <1>1, <1>2, PTL DEF Spec

(* However many sessions refresh, whoever signs in or out meanwhile: a spent *)
(* refresh token is presented again only if the new one was not saved, which *)
(* refreshSlack never does, or an answer was lost or the process died        *)
(* (SourceCredentialManager.refresh).                                       *)
THEOREM NoTokenReused == Spec => []NoReuse
<1>1. TokenInv => NoReuse
  <2>1. TokenInv => provider.kind \in {"google", "slack", "microsoft"}
    BY SourceAuthAssumption DEF TokenInv, TokenTypes, Providers
  <2>2. QED
    BY <2>1 DEF TokenInv, FixedInv, CurrentInv, NoReuse
<1> QED
  BY <1>1, TokenInvHolds, PTL

(* A usable credential is shown as one (ensureFreshToken,                   *)
(* markSourceNeedsReauth), unless it was replaced under a refresh.          *)
THEOREM FreshIsShown == Spec => []FreshShown
<1>1. TokenInv => FreshShown
  BY DEF TokenInv, ExpiredInv, FreshShown
<1> QED
  BY <1>1, TokenInvHolds, PTL

-----------------------------------------------------------------------------
StartShape == starts = [s \in Sessions |-> starts[s]]

FlowShape(fs) ==
  fs = [f \in FlowIds |-> [listed |-> fs[f].listed, exchanging |-> fs[f].exchanging,
                           bound |-> fs[f].bound, from |-> fs[f].from]]

(* While everybody can join and nobody starts over: a preparation is the one *)
(* the starter knows, there is none beside a flow that is live, and one flow *)
(* at most is.                                                              *)
Shared == trouble \cap {"alone", "restart", "split"} = {}

PreparedAlone == \A s \in Sessions : starts[s].stage = "preparing" => preparing = s
NoneBeside == preparing # None => Listed(flows) = {}
OneListed == \A f, g \in Listed(flows) : f = g

SignInv ==
  /\ StartShape /\ FlowShape(flows)
  /\ Shared => PreparedAlone /\ NoneBeside /\ OneListed

(* Flows are marked or end. *)
LEMMA FewerListed ==
  ASSUME SignInv, FlowShape(flows)', Listed(flows)' \subseteq Listed(flows),
         UNCHANGED <<starts, preparing>>, trouble \subseteq trouble'
  PROVE  SignInv'
<1>1. StartShape'
  BY DEF SignInv, StartShape
<1>2. Shared' => Shared
  BY DEF Shared
<1>3. PreparedAlone => PreparedAlone'
  BY DEF PreparedAlone
<1>4. NoneBeside => NoneBeside'
  BY DEF NoneBeside
<1>5. OneListed => OneListed'
  BY DEF OneListed
<1> QED
  BY <1>1, <1>2, <1>3, <1>4, <1>5 DEF SignInv

(* Who joins a flow changes what is bound to it, and nothing else. *)
LEMMA BoundOnly ==
  ASSUME NEW fs, FlowShape(fs), NEW n, NEW b, NEW gs, gs = [fs EXCEPT ![n].bound = b]
  PROVE  FlowShape(gs) /\ Listed(gs) = Listed(fs)
<1>1. DOMAIN fs = FlowIds /\ DOMAIN gs = FlowIds /\ gs = [f \in FlowIds |-> gs[f]]
  BY DEF FlowShape
<1>2. ASSUME NEW f \in FlowIds
      PROVE  /\ gs[f] = [listed |-> gs[f].listed, exchanging |-> gs[f].exchanging,
                         bound |-> gs[f].bound, from |-> gs[f].from]
             /\ gs[f].listed = fs[f].listed
  <2>1. fs[f] = [listed |-> fs[f].listed, exchanging |-> fs[f].exchanging,
                 bound |-> fs[f].bound, from |-> fs[f].from]
    BY DEF FlowShape
  <2>2. CASE f = n
    <3>1. gs[f] = [fs[f] EXCEPT !.bound = b]
      BY <1>1, <2>2
    <3> QED
      BY <2>1, <3>1
  <2>3. CASE f # n
    <3>1. gs[f] = fs[f]
      BY <1>1, <2>3
    <3> QED
      BY <2>1, <3>1
  <2> QED
    BY <2>2, <2>3
<1>3. FlowShape(gs)
  BY <1>1, <1>2 DEF FlowShape
<1>4. Listed(gs) = Listed(fs)
  BY <1>2 DEF Listed
<1> QED
  BY <1>3, <1>4

LEMMA AllJoinKeeps ==
  ASSUME NEW fs, FlowShape(fs), NEW who
  PROVE  FlowShape(AllJoin(fs, who)) /\ Listed(AllJoin(fs, who)) = Listed(fs)
<1> DEFINE n == Newest(fs)
           b == fs[n].bound \o SetToSeq({<<q, starts[q].number>> : q \in who} \ ToSet(Tail(fs[n].bound)))
           gs == AllJoin(fs, who)
<1>1. gs = [fs EXCEPT ![n].bound = b]
  BY DEF AllJoin
<1> HIDE DEF n, b, gs
<1>2. FlowShape(gs) /\ Listed(gs) = Listed(fs)
  BY <1>1, BoundOnly
<1> QED
  BY <1>2 DEF gs

(* A start waits, joins, or prepares the only flow there will be. *)
LEMMA StartsKeep ==
  ASSUME SignInv, NEW s \in Sessions, Starts(s)
  PROVE  SignInv'
<1>0. DOMAIN starts = Sessions /\ s # None
  BY SourceAuthAssumption DEF SignInv, StartShape
<1>1. CASE StartWaits(s)
  <2>1. /\ starts' = [starts EXCEPT ![s] = [stage |-> "queued", number |-> card[s].number,
                                            on |-> preparing, restart |-> FALSE]]
        /\ UNCHANGED <<flows, preparing, trouble>>
    BY <1>1 DEF StartWaits
  <2>2. /\ starts'[s].stage = "queued" /\ StartShape'
        /\ \A q \in Sessions \ {s} : starts'[q] = starts[q]
    BY <1>0, <2>1 DEF StartShape
  <2> QED
    BY <2>1, <2>2 DEF SignInv, Shared, PreparedAlone, NoneBeside, OneListed
<1>2. CASE StartJoins(s)
  <2> DEFINE n == Newest(flows)
             flow == flows[n]
             joined == Joined(flow, <<s, card[s].number>>)
  <2>1. flows' = [flows EXCEPT ![n] = joined] /\ UNCHANGED <<starts, preparing, trouble>>
    BY <1>2 DEF StartJoins
  <2>2. FlowShape(flows)
    BY DEF SignInv
  <2>3. \/ joined = flow
        \/ joined = [flow EXCEPT !.bound = Append(flow.bound, <<s, card[s].number>>)]
    BY DEF Joined
  <2>4. \/ flows' = flows
        \/ flows' = [flows EXCEPT ![n].bound = Append(flow.bound, <<s, card[s].number>>)]
    <3>1. CASE joined = flow
      BY <2>1, <2>2, <3>1 DEF FlowShape
    <3>2. CASE joined = [flow EXCEPT !.bound = Append(flow.bound, <<s, card[s].number>>)]
      BY <2>1, <3>2
    <3> QED
      BY <2>3, <3>1, <3>2
  <2> DEFINE b == Append(flow.bound, <<s, card[s].number>>)
             fs == flows'
  <2>5. fs = flows \/ fs = [flows EXCEPT ![n].bound = b]
    BY <2>4
  <2> HIDE DEF n, flow, b, fs
  <2>6. FlowShape(fs) /\ Listed(fs) = Listed(flows)
    BY <2>2, <2>5, BoundOnly
  <2>7. FlowShape(flows)' /\ Listed(flows)' = Listed(flows)
    BY <2>6 DEF fs, FlowShape, Listed
  <2> QED
    BY <2>1, <2>7, FewerListed
<1>3. CASE StartPrepares(s)
  <2>1. /\ preparing = None /\ Listed(flows) = {}
        /\ starts' = [starts EXCEPT ![s] = Preparation(card[s].number, FALSE)]
        /\ preparing' = s /\ UNCHANGED <<flows, trouble>>
    BY <1>3 DEF StartPrepares, Prepares
  <2>2. StartShape' /\ \A q \in Sessions \ {s} : starts'[q] = starts[q]
    BY <1>0, <2>1 DEF StartShape
  <2>3. PreparedAlone => PreparedAlone'
    BY <1>0, <2>1, <2>2, SourceAuthAssumption DEF PreparedAlone
  <2> QED
    BY <2>1, <2>2, <2>3 DEF SignInv, Shared, NoneBeside, OneListed
<1>4. CASE StartAlone(s)
  <2>1. PICK kind \in {"alone", "restart"} : trouble' = trouble \cup {kind} /\ Prepares(s, kind = "restart")
    BY <1>4 DEF StartAlone
  <2>2. ~Shared'
    BY <2>1 DEF Shared
  <2>3. StartShape' /\ UNCHANGED flows
    BY <1>0, <2>1 DEF Prepares, StartShape
  <2> QED
    BY <2>2, <2>3 DEF SignInv
<1> QED
  BY <1>1, <1>2, <1>3, <1>4 DEF Starts

(* The preparation that ends is the only one, and no flow is live beside it. *)
LEMMA PreparationEndsKeeps ==
  ASSUME SignInv, NEW s \in Sessions, PreparationEnds(s)
  PROVE  SignInv'
<1> DEFINE id == <<s, starts[s].number>>
           replaced == {f \in Listed(flows) : starts[s].restart /\ f = Newest(flows)}
           kept == [f \in FlowIds |-> IF f \in replaced THEN [flows[f] EXCEPT !.listed = FALSE] ELSE flows[f]]
           cards == flows[Newest(flows)].bound
           taken == IF replaced = {} THEN <<>>
                    ELSE Picked(cards, {i \in DOMAIN cards : cards[i] # id})
           flow == [listed |-> TRUE, exchanging |-> FALSE, bound |-> <<id>> \o taken,
                    from |-> IF replaced = {} THEN 0 ELSE Newest(flows)]
           fs == [kept EXCEPT ![opened + 1] = flow]
<1>1. /\ starts[s].stage = "preparing" /\ UNCHANGED trouble
      /\ flows' = AllJoin(fs, Queued(s))
      /\ starts' = [q \in Sessions |-> IF q \in Queued(s) \cup {s} THEN NoStart ELSE starts[q]]
      /\ Unregister(s)
  BY DEF PreparationEnds
<1>2. \A f \in FlowIds : kept[f] = [listed |-> kept[f].listed, exchanging |-> kept[f].exchanging,
                                    bound |-> kept[f].bound, from |-> kept[f].from]
  <2> SUFFICES ASSUME NEW f \in FlowIds
               PROVE  kept[f] = [listed |-> kept[f].listed, exchanging |-> kept[f].exchanging,
                                 bound |-> kept[f].bound, from |-> kept[f].from]
    OBVIOUS
  <2>1. flows[f] = [listed |-> flows[f].listed, exchanging |-> flows[f].exchanging,
                    bound |-> flows[f].bound, from |-> flows[f].from]
    BY DEF SignInv, FlowShape
  <2>2. kept[f] = flows[f] \/ kept[f] = [flows[f] EXCEPT !.listed = FALSE]
    OBVIOUS
  <2> HIDE DEF kept
  <2> QED
    BY <2>1, <2>2
<1>3. FlowShape(fs)
  <2>1. DOMAIN kept = FlowIds
    OBVIOUS
  <2>2. flow = [listed |-> flow.listed, exchanging |-> flow.exchanging, bound |-> flow.bound,
                from |-> flow.from]
    OBVIOUS
  <2> HIDE DEF kept, flow
  <2>3. /\ DOMAIN fs = FlowIds /\ fs = [f \in FlowIds |-> fs[f]]
        /\ \A f \in FlowIds : fs[f] = kept[f] \/ fs[f] = flow
    BY <2>1
  <2> HIDE DEF fs
  <2>4. \A f \in FlowIds : fs[f] = [listed |-> fs[f].listed, exchanging |-> fs[f].exchanging,
                                    bound |-> fs[f].bound, from |-> fs[f].from]
    BY <1>2, <2>2, <2>3
  <2> QED
    BY <2>3, <2>4 DEF FlowShape
<1>4. \A f \in Listed(fs) : f \in Listed(flows) \/ f = opened + 1
  <2> SUFFICES ASSUME NEW f \in FlowIds, f # opened + 1, fs[f].listed
               PROVE  flows[f].listed
    BY DEF Listed
  <2>1. DOMAIN kept = FlowIds
    OBVIOUS
  <2>2. f \notin replaced => kept[f] = flows[f]
    OBVIOUS
  <2>3. f \in replaced => flows[f].listed
    BY DEF Listed
  <2> HIDE DEF kept, replaced
  <2>4. fs[f] = kept[f]
    BY <2>1
  <2> QED
    BY <2>2, <2>3, <2>4
<1> HIDE DEF fs
<1>5. FlowShape(flows') /\ Listed(flows') = Listed(fs)
  BY <1>1, <1>3, AllJoinKeeps
<1>6. FlowShape(flows)' /\ Listed(flows)' = Listed(fs)
  BY <1>5 DEF FlowShape, Listed
<1>7. StartShape'
  BY <1>1 DEF StartShape
<1>8. ASSUME Shared, PreparedAlone, NoneBeside
      PROVE  PreparedAlone' /\ NoneBeside' /\ OneListed'
  <2>1. preparing = s /\ Listed(flows) = {}
    BY <1>1, <1>8, SourceAuthAssumption DEF PreparedAlone, NoneBeside
  <2>2. preparing' = None
    BY <1>1, <2>1 DEF Unregister
  <2>3. \A q \in Sessions : starts'[q].stage # "preparing"
    BY <1>1, <1>8, <2>1 DEF NoStart, PreparedAlone
  <2>4. OneListed'
    BY <1>4, <1>6, <2>1 DEF OneListed
  <2> QED
    BY <2>2, <2>3, <2>4 DEF PreparedAlone, NoneBeside
<1> QED
  BY <1>1, <1>6, <1>7, <1>8 DEF SignInv, Shared

(* When it fails, one that waited for it takes its place, or nobody. *)
LEMMA PreparationFailsKeeps ==
  ASSUME SignInv, NEW s \in Sessions, PreparationFails(s)
  PROVE  SignInv'
<1>1. starts[s].stage = "preparing" /\ trouble \subseteq trouble'
  BY DEF PreparationFails
<1>2. Shared' => Shared
  BY <1>1 DEF Shared
<1>3. Shared => preparing = s /\ PreparedAlone /\ NoneBeside /\ OneListed /\ Listed(flows) = {}
  BY <1>1, SourceAuthAssumption DEF SignInv, PreparedAlone, NoneBeside
<1>4. ASSUME flows' = (IF Queued(s) = {} THEN flows ELSE AllJoin(flows, Queued(s))),
             starts' = [q \in Sessions |-> IF q \in Queued(s) \cup {s} THEN NoStart ELSE starts[q]],
             Unregister(s)
      PROVE  SignInv'
  <2>1. FlowShape(flows') /\ Listed(flows') = Listed(flows)
    <3>1. CASE Queued(s) = {}
      BY <1>4, <3>1 DEF SignInv
    <3>2. CASE Queued(s) # {}
      BY <1>4, <3>2, AllJoinKeeps DEF SignInv
    <3> QED
      BY <3>1, <3>2
  <2>2. FlowShape(flows)' /\ Listed(flows)' = Listed(flows)
    BY <2>1 DEF FlowShape, Listed
  <2>3. StartShape'
    BY <1>4 DEF StartShape
  <2>4. Shared => preparing' = None /\ \A q \in Sessions : starts'[q].stage # "preparing"
    BY <1>3, <1>4 DEF Unregister, NoStart, PreparedAlone
  <2> QED
    BY <1>2, <1>3, <2>2, <2>3, <2>4 DEF SignInv, PreparedAlone, NoneBeside, OneListed
<1>5. ASSUME Queued(s) # {}, Listed(flows) = {}, preparing' \in Queued(s), UNCHANGED flows,
             starts' = [q \in Sessions |-> IF q = s THEN NoStart
                                           ELSE IF q \in Queued(s) THEN Preparation(starts[q].number, FALSE)
                                           ELSE starts[q]],
             Cardinality(Queued(s)) > 1 => ~Shared'
      PROVE  SignInv'
  <2>1. StartShape' /\ FlowShape(flows)' /\ Listed(flows)' = {}
    BY <1>5 DEF SignInv, StartShape, FlowShape, Listed
  <2>2. ASSUME Shared', NEW q \in Sessions, starts'[q].stage = "preparing"
        PROVE  preparing' = q
    <3>1. q \in Queued(s)
      BY <1>2, <1>3, <1>5, <2>2 DEF NoStart, PreparedAlone
    <3>2. IsFiniteSet(Queued(s))
      BY FS_Subset, SourceAuthAssumption DEF Queued
    <3>3. ~(Cardinality(Queued(s)) > 1) /\ Cardinality(Queued(s)) \in Nat
      BY <1>5, <2>2, <3>2, FS_CardinalityType
    <3>4. SUFFICES ASSUME preparing' # q PROVE FALSE
      OBVIOUS
    <3>5. {q, preparing'} \subseteq Queued(s) /\ Cardinality({q, preparing'}) = 2
      <4>1. Cardinality({q}) = 1 /\ IsFiniteSet({q})
        BY FS_Singleton
      <4>2. Cardinality({q} \cup {preparing'}) = Cardinality({q}) + 1
        BY <3>4, <4>1, FS_AddElement
      <4>3. {q} \cup {preparing'} = {q, preparing'}
        OBVIOUS
      <4> QED
        BY <1>5, <3>1, <4>1, <4>2, <4>3
    <3>6. Cardinality({q, preparing'}) <= Cardinality(Queued(s))
      BY <3>2, <3>5, FS_Subset
    <3> QED
      BY <3>3, <3>5, <3>6
  <2> QED
    BY <2>1, <2>2 DEF SignInv, PreparedAlone, NoneBeside, OneListed
<1>6. /\ Cardinality(Queued(s)) > 1
      /\ trouble' = trouble \cup {"failed"}
           \cup (IF Cardinality(Queued(s)) > 1 \/ preparing # s THEN {"split"} ELSE {})
      => ~Shared'
  BY DEF Shared
<1> QED
  BY <1>4, <1>5, <1>6 DEF PreparationFails

(* A flow is taken up, or ends. *)
LEMMA FlowsKeep ==
  ASSUME SignInv, NEW h \in FlowIds,
         Completes(h) \/ ExchangeSucceeds(h) \/ ExchangeFails(h) \/ FlowEnds(h)
  PROVE  SignInv'
<1>1. UNCHANGED <<starts, preparing>> /\ trouble \subseteq trouble'
  BY DEF Completes, ExchangeSucceeds, ExchangeFails, FlowEnds
<1>2. \/ flows' = [flows EXCEPT ![h].exchanging = TRUE]
      \/ flows' = [flows EXCEPT ![h] = IF @.exchanging THEN [@ EXCEPT !.listed = FALSE] ELSE NoFlow]
      \/ flows' = [flows EXCEPT ![h] = NoFlow]
  BY DEF Completes, ExchangeSucceeds, ExchangeFails, FlowEnds
<1>3. flows = [f \in FlowIds |-> [listed |-> flows[f].listed, exchanging |-> flows[f].exchanging,
                                  bound |-> flows[f].bound, from |-> flows[f].from]]
  BY DEF SignInv, FlowShape
<1>4. DOMAIN flows' = FlowIds /\ flows' = [f \in FlowIds |-> flows'[f]]
  BY <1>2, <1>3
<1>5. ASSUME NEW f \in FlowIds
      PROVE  /\ flows'[f] = [listed |-> flows'[f].listed, exchanging |-> flows'[f].exchanging,
                             bound |-> flows'[f].bound, from |-> flows'[f].from]
             /\ flows'[f].listed => flows[f].listed
  <2>1. /\ DOMAIN flows = FlowIds
        /\ flows[f] = [listed |-> flows[f].listed, exchanging |-> flows[f].exchanging,
                       bound |-> flows[f].bound, from |-> flows[f].from]
    BY <1>3
  <2>2. \/ flows'[f] = flows[f]
        \/ flows'[f] = [flows[f] EXCEPT !.exchanging = TRUE]
        \/ flows'[f] = [flows[f] EXCEPT !.listed = FALSE]
        \/ flows'[f] = NoFlow
    BY <1>2, <2>1
  <2>3. CASE flows'[f] = NoFlow
    BY <2>3 DEF NoFlow
  <2> QED
    BY <2>1, <2>2, <2>3
<1>6. FlowShape(flows)' /\ Listed(flows)' \subseteq Listed(flows)
  BY <1>4, <1>5 DEF FlowShape, Listed
<1> QED
  BY <1>1, <1>6, FewerListed

LEMMA SignInHolds == Spec => []SignInv
<1>1. Init => SignInv
  BY SourceAuthAssumption
  DEF Init, SignInv, StartShape, FlowShape, PreparedAlone, NoneBeside, OneListed, Listed, NoStart, NoFlow
<1>2. SignInv /\ [Next]_vars => SignInv'
  <2> SUFFICES ASSUME SignInv, [Next]_vars PROVE SignInv'
    OBVIOUS
  <2>1. ASSUME UNCHANGED <<flows, starts, preparing>>, trouble \subseteq trouble'
        PROVE  SignInv'
    <3>1. FlowShape(flows)' /\ Listed(flows)' = Listed(flows)
      BY <2>1 DEF SignInv, FlowShape, Listed
    <3> QED
      BY <2>1, <3>1, FewerListed
  <2>2. ASSUME NEW s \in Sessions, Provider(s) \/ AnswerLost(s)
        PROVE  SignInv'
    BY <2>1, <2>2 DEF Provider, ProviderAnswers, TokensArrive, RefusalArrives, AnswerLost, signIn
  <2>8. CASE TokenExpires \/ SignsOut
    BY <2>1, <2>8 DEF TokenExpires, SignsOut, signIn
  <2>3. CASE Crash
    <3>1. /\ flows' = [f \in FlowIds |-> NoFlow]
          /\ starts' = [s \in Sessions |-> NoStart] /\ preparing' = None
      BY <2>3 DEF Crash
    <3>2. ASSUME NEW f \in FlowIds
          PROVE  /\ flows'[f] = [listed |-> flows'[f].listed, exchanging |-> flows'[f].exchanging,
                                 bound |-> flows'[f].bound, from |-> flows'[f].from]
                 /\ ~flows'[f].listed
      BY <3>1 DEF NoFlow
    <3>3. FlowShape(flows)' /\ Listed(flows)' = {}
      BY <3>1, <3>2 DEF FlowShape, Listed
    <3> QED
      BY <3>1, <3>3 DEF SignInv, StartShape, NoStart, PreparedAlone, NoneBeside, OneListed
  <2>4. ASSUME NEW s \in Sessions, AsksForToken(s) \/ CooldownEnds(s) \/ Pauses(s)
        PROVE  SignInv'
    BY <2>1, <2>4 DEF AsksForToken, CooldownEnds, Pauses, signIn
  <2>5. ASSUME NEW s \in Sessions, Starts(s) \/ Prepared(s)
        PROVE  SignInv'
    BY <2>5, StartsKeep, PreparationEndsKeeps, PreparationFailsKeeps DEF Prepared
  <2>6. ASSUME NEW f \in FlowIds,
               Completes(f) \/ ExchangeSucceeds(f) \/ ExchangeFails(f) \/ FlowEnds(f)
        PROVE  SignInv'
    BY <2>6, FlowsKeep
  <2>7. CASE UNCHANGED vars
    BY <2>1, <2>7 DEF vars, signIn
  <2> QED
    BY <2>2, <2>3, <2>4, <2>5, <2>6, <2>7, <2>8 DEF Next
<1> QED
  BY <1>1, <1>2, PTL DEF Spec

(* Sessions that need the same sign-in share one flow, for any number of     *)
(* them and whatever fails, as long as every client can join, nobody starts  *)
(* over and no failed preparation wakes several that waited                  *)
(* (createOAuthFlowStarter).                                                *)
THEOREM SignInShared == Spec => []OneSignIn
<1>1. SignInv => OneSignIn
  <2> SUFFICES ASSUME SignInv, Shared PROVE Cardinality(Listed(flows)) <= 1
    BY DEF OneSignIn, Shared
  <2>1. OneListed
    BY DEF SignInv
  <2>2. CASE Listed(flows) = {}
    BY <2>2, FS_EmptySet
  <2>3. CASE Listed(flows) # {}
    <3>1. PICK f : f \in Listed(flows)
      BY <2>3
    <3>2. Listed(flows) = {f}
      BY <2>1, <3>1 DEF OneListed
    <3>3. Cardinality({f}) = 1
      BY FS_Singleton
    <3>4. 1 <= 1
      OBVIOUS
    <3> QED
      BY <3>2, <3>3, <3>4, Zenon
  <2> QED
    BY <2>2, <2>3
<1> QED
  BY <1>1, SignInHolds, PTL
-----------------------------------------------------------------------------
(* The cards: which of them a session waits for, and which the flows list. *)

Cards == [number : 0 .. MaxCards, status : {"none", "pending", "completed", "failed"}]
StartCalls == [stage : {"idle", "queued", "preparing"}, number : 0 .. MaxCards,
               on : Sessions \cup {None}, restart : BOOLEAN]
FlowKinds == [listed : BOOLEAN, exchanging : BOOLEAN, bound : Seq(CardIds), from : 0 .. MaxFlows]

CardTypes ==
  /\ card \in [Sessions -> Cards] /\ held \in [Sessions -> 0 .. MaxCards]
  /\ starts \in [Sessions -> StartCalls] /\ preparing \in Sessions \cup {None}
  /\ opened \in Nat

(* What a session holds is its last card, and that is pending; one that is  *)
(* pending and not held was forgotten.  A start is for a card that there    *)
(* was, and starts over only when somebody asked for it.                    *)
Paused ==
  \A s \in Sessions :
    /\ held[s] # 0 => held[s] = card[s].number /\ card[s].status = "pending"
    /\ card[s].status = "pending" => held[s] # 0 \/ trouble \cap {"crash", "refused"} # {}
    /\ card[s].status # "none" => card[s].number # 0
    /\ starts[s].stage # "idle" => starts[s].number # 0 /\ starts[s].number <= card[s].number
    /\ starts[s].stage = "preparing" /\ starts[s].restart => "restart" \in trouble

(* The newest card of each session that a flow can list by now. *)
Latest == [s \in Sessions |-> IF starts[s].stage = "idle" THEN card[s].number ELSE starts[s].number]

Within(b, most) == \A i \in DOMAIN b : b[i][2] <= most[b[i][1]]

(* The cards of a session are listed in their order. *)
Ordered(b) == \A i, j \in DOMAIN b : i < j /\ b[i][1] = b[j][1] => b[i][2] <= b[j][2]

FlowsListed(fs) ==
  /\ fs \in [FlowIds -> FlowKinds]
  /\ \A f \in FlowIds : /\ Within(fs[f].bound, Latest)
                        /\ "restart" \notin trouble => Ordered(fs[f].bound)

(* A flow that started over lists the cards of the one it replaced, which   *)
(* nobody joins any more.                                                   *)
Nested(fs, top) ==
  \A f \in FlowIds :
    /\ fs[f].listed => f <= top
    /\ fs[f].from # 0 => /\ fs[f].from \in FlowIds /\ fs[f].from <= top /\ ~fs[fs[f].from].listed
                         /\ ToSet(fs[fs[f].from].bound) \subseteq ToSet(fs[f].bound)

CardInv ==
  /\ CardTypes /\ Paused /\ FlowsListed(flows) /\ Nested(flows, opened)
  /\ opened + Promised <= MaxFlows

LEMMA NoFlowType ==
  /\ NoFlow \in FlowKinds /\ NoFlow.bound = <<>> /\ ~NoFlow.listed /\ ~NoFlow.exchanging
  /\ NoFlow.from = 0
  BY SourceAuthAssumption DEF NoFlow, FlowKinds

LEMMA LatestType == ASSUME CardTypes PROVE Latest \in [Sessions -> Nat]
<1>1. \A s \in Sessions : card[s].number \in Nat /\ starts[s].number \in Nat
  BY SourceAuthAssumption DEF CardTypes, Cards, StartCalls
<1>2. QED
  BY <1>1 DEF Latest

(* Cards listed after others, each the newest of its session. *)
LEMMA ListedAfter ==
  ASSUME NEW most \in [Sessions -> Nat], NEW b \in Seq(CardIds), Within(b, most),
         NEW t \in Seq(CardIds), \A c \in ToSet(t) : c[2] = most[c[1]]
  PROVE  /\ b \o t \in Seq(CardIds) /\ Within(b \o t, most)
         /\ Ordered(b) => Ordered(b \o t)
<1> DEFINE u == b \o t
<1>1. /\ u \in Seq(CardIds) /\ Len(b) \in Nat /\ Len(t) \in Nat
      /\ DOMAIN b = 1 .. Len(b) /\ DOMAIN t = 1 .. Len(t)
      /\ DOMAIN u = 1 .. Len(b) + Len(t)
      /\ \A i \in DOMAIN u : \/ i \in DOMAIN b /\ u[i] = b[i]
                             \/ i - Len(b) \in DOMAIN t /\ u[i] = t[i - Len(b)]
  BY ConcatElements
<1>2. \A i \in DOMAIN t : t[i] \in ToSet(t)
  BY DEF ToSet
<1> HIDE DEF u
<1>3. ASSUME NEW i \in DOMAIN u
      PROVE  /\ u[i][1] \in Sessions /\ u[i][2] \in Nat /\ u[i][2] <= most[u[i][1]]
             /\ i \notin DOMAIN b => u[i][2] = most[u[i][1]]
  <2>1. u[i] \in CardIds
    BY <1>1, ElementOfSeq
  <2>2. u[i][1] \in Sessions /\ u[i][2] \in Nat
    BY <2>1, SourceAuthAssumption DEF CardIds
  <2>3. CASE i \in DOMAIN b /\ u[i] = b[i]
    BY <2>2, <2>3 DEF Within
  <2>4. CASE i - Len(b) \in DOMAIN t /\ u[i] = t[i - Len(b)]
    BY <1>2, <2>2, <2>4
  <2>5. CASE i \notin DOMAIN b
    BY <1>1, <1>2, <2>2, <2>5
  <2>6. QED
    BY <1>1, <2>2, <2>3, <2>4, <2>5
<1>4. Within(u, most)
  BY <1>3 DEF Within
<1>5. ASSUME Ordered(b)
      PROVE  Ordered(u)
  <2>1. SUFFICES ASSUME NEW i \in DOMAIN u, NEW j \in DOMAIN u, i < j, u[i][1] = u[j][1]
                 PROVE  u[i][2] <= u[j][2]
    BY DEF Ordered
  <2>2. CASE j \in DOMAIN b
    <3>1. i \in DOMAIN b
      BY <1>1, <2>1, <2>2
    <3>2. u[i] = b[i] /\ u[j] = b[j]
      BY <1>1, <2>1, <2>2, <3>1
    <3>3. QED
      BY <1>5, <2>1, <2>2, <3>1, <3>2 DEF Ordered
  <2>3. CASE j \notin DOMAIN b
    BY <1>3, <2>1, <2>3
  <2>4. QED
    BY <2>2, <2>3
<1>6. QED
  BY <1>1, <1>4, <1>5 DEF u

(* A card that is the newest of its session joins a flow. *)
LEMMA OneListedAfter ==
  ASSUME NEW most \in [Sessions -> Nat], NEW b \in Seq(CardIds), Within(b, most),
         NEW c \in CardIds, c[2] = most[c[1]]
  PROVE  /\ Append(b, c) \in Seq(CardIds) /\ Within(Append(b, c), most)
         /\ Ordered(b) => Ordered(Append(b, c))
<1>1. <<c>> \in Seq(CardIds) /\ ToSet(<<c>>) = {c}
  <2>1. DOMAIN <<c>> = {1} /\ <<c>>[1] = c /\ <<c>> \in Seq(CardIds)
    OBVIOUS
  <2>2. QED
    BY <2>1 DEF ToSet
<1>2. Append(b, c) = b \o <<c>>
  OBVIOUS
<1>3. QED
  BY <1>1, <1>2, ListedAfter

(* What the flows list stays in order while the sessions' cards get newer. *)
LEMMA NewerLatest ==
  ASSUME CardTypes, CardTypes', \A s \in Sessions : Latest[s] <= Latest'[s],
         trouble \subseteq trouble', FlowsListed(flows')
  PROVE  FlowsListed(flows)'
<1>1. Latest \in [Sessions -> Nat]
  BY LatestType
<1>2. CardTypes' => Latest' \in [Sessions -> Nat]
  <2>1. CardTypes' => \A s \in Sessions : card'[s].number \in Nat /\ starts'[s].number \in Nat
    BY SourceAuthAssumption DEF CardTypes, Cards, StartCalls
  <2>2. QED
    BY <2>1 DEF Latest
<1>3. ASSUME NEW f \in FlowIds, NEW i \in DOMAIN flows'[f].bound
      PROVE  flows'[f].bound[i][2] <= Latest'[flows'[f].bound[i][1]]
  <2>1. flows'[f].bound \in Seq(CardIds)
    BY DEF FlowsListed, FlowKinds
  <2>2. flows'[f].bound[i] \in CardIds
    BY <1>3, <2>1, ElementOfSeq
  <2>3. flows'[f].bound[i][1] \in Sessions /\ flows'[f].bound[i][2] \in Nat
    BY <2>2, SourceAuthAssumption DEF CardIds
  <2>4. flows'[f].bound[i][2] <= Latest[flows'[f].bound[i][1]]
    BY <1>3 DEF FlowsListed, Within
  <2>5. QED
    BY <1>1, <1>2, <2>3, <2>4
<1>4. \A f \in FlowIds : "restart" \notin trouble' => Ordered(flows'[f].bound)
  BY DEF FlowsListed
<1>5. flows' \in [FlowIds -> FlowKinds]
  BY DEF FlowsListed
<1>6. QED
  BY <1>3, <1>4, <1>5 DEF FlowsListed, Within, Ordered

LEMMA NewestListed ==
  ASSUME NEW fs, Listed(fs) # {}
  PROVE  Newest(fs) \in Listed(fs) /\ \A f \in Listed(fs) : f <= Newest(fs)
<1>1. Listed(fs) \subseteq 0 .. MaxFlows
  BY SourceAuthAssumption DEF Listed, FlowIds
<1>2. Max(Listed(fs)) \in Listed(fs) /\ \A f \in Listed(fs) : f <= Max(Listed(fs))
  BY <1>1, MaxFacts, SourceAuthAssumption
<1>3. \E f \in Listed(fs) : \A g \in Listed(fs) : g <= f
  BY <1>2
<1>4. QED
  BY <1>3 DEF Newest

(* Nobody joins a flow that was replaced. *)
LEMMA NestedGrows ==
  ASSUME NEW fs \in [FlowIds -> FlowKinds], NEW top, Nested(fs, top), NEW n \in Listed(fs),
         NEW b, ToSet(fs[n].bound) \subseteq ToSet(b),
         NEW gs, DOMAIN gs = FlowIds, \A f \in FlowIds \ {n} : gs[f] = fs[f],
         gs[n] = [fs[n] EXCEPT !.bound = b]
  PROVE  Nested(gs, top)
<1>1. ASSUME NEW f \in FlowIds
      PROVE  /\ gs[f].listed = fs[f].listed /\ gs[f].from = fs[f].from
             /\ f # n => gs[f].bound = fs[f].bound
             /\ f = n => gs[f].bound = b
  <2>1. fs[f] \in FlowKinds
    OBVIOUS
  <2>2. QED
    BY <2>1 DEF FlowKinds
<1>2. n \in FlowIds /\ fs[n].listed
  BY DEF Listed
<1>3. ASSUME NEW f \in FlowIds, gs[f].from # 0
      PROVE  /\ gs[f].from \in FlowIds /\ gs[f].from <= top /\ ~gs[gs[f].from].listed
             /\ ToSet(gs[gs[f].from].bound) \subseteq ToSet(gs[f].bound)
  <2>1. /\ fs[f].from \in FlowIds /\ fs[f].from <= top /\ ~fs[fs[f].from].listed
        /\ ToSet(fs[fs[f].from].bound) \subseteq ToSet(fs[f].bound)
    BY <1>1, <1>3 DEF Nested
  <2>2. PICK g \in FlowIds : g = fs[f].from
    BY <2>1
  <2>3. g # n /\ ~gs[g].listed /\ gs[g].bound = fs[g].bound
    BY <1>1, <1>2, <2>1, <2>2
  <2>4. ToSet(gs[g].bound) \subseteq ToSet(gs[f].bound)
    BY <1>1, <2>1, <2>2, <2>3
  <2>5. QED
    BY <1>1, <2>1, <2>2, <2>3, <2>4
<1>4. QED
  BY <1>1, <1>3 DEF Nested

(* Everybody who waited joins the newest flow. *)
LEMMA AllJoinLists ==
  ASSUME CardInv, NEW fs, FlowsListed(fs), Listed(fs) # {},
         NEW who \in SUBSET Sessions, \A q \in who : starts[q].stage # "idle"
  PROVE  /\ FlowsListed(AllJoin(fs, who))
         /\ \A top : Nested(fs, top) => Nested(AllJoin(fs, who), top)
<1> DEFINE n == Newest(fs)
           ids == {<<q, starts[q].number>> : q \in who} \ ToSet(Tail(fs[n].bound))
           t == SetToSeq(ids)
           b == fs[n].bound \o t
           gs == AllJoin(fs, who)
<1>1. gs = [fs EXCEPT ![n].bound = b]
  BY DEF AllJoin
<1>2. n \in FlowIds
  <2>1. n \in Listed(fs)
    <3> HIDE DEF n
    <3>1. QED
      BY NewestListed DEF n
  <2> HIDE DEF n
  <2>2. QED
    BY <2>1 DEF Listed
<1>3. ids \subseteq CardIds /\ IsFiniteSet(ids) /\ \A c \in ids : c[2] = Latest[c[1]]
  <2> DEFINE all == {<<q, starts[q].number>> : q \in who}
  <2>1. ASSUME NEW q \in who
        PROVE  /\ <<q, starts[q].number>> \in CardIds
               /\ starts[q].number = Latest[q]
    <3>1. q \in Sessions /\ starts[q].stage # "idle"
      OBVIOUS
    <3>2. starts[q].number \in 0 .. MaxCards /\ starts[q].number # 0
      BY <3>1 DEF CardInv, CardTypes, Paused, StartCalls
    <3>3. starts[q].number \in 1 .. MaxCards
      BY <3>2, SourceAuthAssumption
    <3>4. QED
      BY <3>1, <3>3 DEF CardIds, Latest
  <2>2. IsFiniteSet(who)
    BY SourceAuthAssumption, FS_Subset
  <2>3. IsFiniteSet(all)
    <3>1. IsFiniteSet(Sessions) /\ IsFiniteSet(1 .. MaxCards)
      BY SourceAuthAssumption, FS_Interval
    <3>2. IsFiniteSet(CardIds)
      BY <3>1, FS_Product DEF CardIds
    <3>3. all \in SUBSET CardIds
      BY <2>1
    <3> HIDE DEF all
    <3>4. QED
      BY <3>2, <3>3, FS_Subset
  <2>4. all \subseteq CardIds /\ \A c \in all : c[2] = Latest[c[1]]
    BY <2>1
  <2>5. ids \in SUBSET all
    OBVIOUS
  <2> HIDE DEF all, ids
  <2>6. QED
    BY <2>3, <2>4, <2>5, FS_Subset
<1>4. t \in Seq(CardIds) /\ \A c \in ToSet(t) : c[2] = Latest[c[1]]
  <2> HIDE DEF ids
  <2>1. t \in Seq(ids) /\ ToSet(t) = ids
    BY <1>3, SetToSeqFacts
  <2> HIDE DEF t
  <2>2. QED
    BY <1>3, <2>1
<1>5. /\ fs[n] \in FlowKinds /\ fs[n].bound \in Seq(CardIds) /\ Within(fs[n].bound, Latest)
      /\ "restart" \notin trouble => Ordered(fs[n].bound)
  <2> HIDE DEF n
  <2>1. QED
    BY <1>2 DEF FlowsListed, FlowKinds
<1>6. b \in Seq(CardIds) /\ Within(b, Latest) /\ ("restart" \notin trouble => Ordered(b))
  <2> HIDE DEF n, t
  <2>1. Latest \in [Sessions -> Nat]
    BY LatestType DEF CardInv
  <2>2. QED
    BY <1>4, <1>5, <2>1, ListedAfter
<1> HIDE DEF n, b, t, gs
<1>7. ASSUME NEW f \in FlowIds
      PROVE  /\ gs[f] \in FlowKinds /\ Within(gs[f].bound, Latest)
             /\ "restart" \notin trouble => Ordered(gs[f].bound)
  <2>1. fs \in [FlowIds -> FlowKinds]
    BY DEF FlowsListed
  <2>2. CASE f = n
    <3>1. gs[f] = [fs[f] EXCEPT !.bound = b]
      BY <1>1, <2>1, <2>2
    <3>2. gs[f].bound = b /\ gs[f] \in FlowKinds
      BY <1>5, <1>6, <2>2, <3>1 DEF FlowKinds
    <3>3. QED
      BY <1>6, <3>2
  <2>3. CASE f # n
    <3>1. gs[f] = fs[f]
      BY <1>1, <2>1, <2>3
    <3>2. QED
      BY <3>1 DEF FlowsListed
  <2>4. QED
    BY <2>2, <2>3
<1>8. gs \in [FlowIds -> FlowKinds]
  <2>1. DOMAIN gs = FlowIds /\ gs = [f \in FlowIds |-> gs[f]]
    BY <1>1 DEF FlowsListed
  <2>2. QED
    BY <1>7, <2>1
<1>9. FlowsListed(gs)
  BY <1>7, <1>8 DEF FlowsListed
<1>10. ASSUME NEW top, Nested(fs, top)
       PROVE  Nested(gs, top)
  <2>1. fs \in [FlowIds -> FlowKinds] /\ DOMAIN gs = FlowIds /\ n \in Listed(fs)
    BY <1>1, NewestListed DEF FlowsListed, n
  <2>2. gs[n] = [fs[n] EXCEPT !.bound = b] /\ \A f \in FlowIds \ {n} : gs[f] = fs[f]
    BY <1>1, <1>2, <2>1
  <2>3. ToSet(fs[n].bound) \subseteq ToSet(b)
    <3>1. fs[n].bound \in Seq(CardIds) /\ t \in Seq(CardIds) /\ b = fs[n].bound \o t
      BY <1>4, <1>5 DEF b
    <3>2. PICK c \in Seq(CardIds) : c = fs[n].bound
      BY <3>1
    <3>3. DOMAIN c \subseteq DOMAIN b /\ \A i \in DOMAIN c : b[i] = c[i]
      BY <3>1, <3>2, ConcatElements
    <3>4. QED
      BY <3>2, <3>3 DEF ToSet
  <2>4. QED
    BY <1>10, <2>1, <2>2, <2>3, NestedGrows
<1>11. QED
  BY <1>9, <1>10 DEF gs

Preparers == {s \in Sessions : starts[s].stage = "preparing"}

LEMMA PreparersFinite == IsFiniteSet(Preparers) /\ Cardinality(Preparers) \in Nat /\ Promised = Cardinality(Preparers)
<1>1. IsFiniteSet(Preparers) /\ Promised = Cardinality(Preparers)
  BY SourceAuthAssumption, FS_Subset DEF Preparers, Promised
<1>2. QED
  BY <1>1, FS_CardinalityType

(* Fewer preparations, and no other flow: there is room for them. *)
LEMMA RoomKept ==
  ASSUME CardInv, UNCHANGED opened, Preparers' \subseteq Preparers
  PROVE  (opened + Promised <= MaxFlows)'
<1> DEFINE new == Preparers'
<1>1. IsFiniteSet(Preparers) /\ Cardinality(Preparers) \in Nat /\ Promised = Cardinality(Preparers)
  BY PreparersFinite
<1>2. Promised' = Cardinality(new)
  BY DEF Promised, Preparers
<1>3. new \in SUBSET Preparers
  OBVIOUS
<1> HIDE DEF new
<1>4. Cardinality(new) <= Cardinality(Preparers) /\ Cardinality(new) \in Nat
  BY <1>1, <1>3, FS_Subset, FS_CardinalityType
<1>5. QED
  BY <1>1, <1>2, <1>4, SourceAuthAssumption DEF CardInv, CardTypes

(* Nothing happens to the cards. *)
LEMMA CardsKept ==
  ASSUME CardInv, UNCHANGED signIn, trouble \subseteq trouble'
  PROVE  CardInv'
<1>1. CardTypes'
  BY DEF CardInv, CardTypes, signIn
<1>2. Paused'
  <2>1. SUFFICES ASSUME NEW s \in Sessions
                 PROVE  /\ held'[s] # 0 => held'[s] = card'[s].number /\ card'[s].status = "pending"
                        /\ card'[s].status = "pending" => held'[s] # 0 \/ trouble' \cap {"crash", "refused"} # {}
                        /\ card'[s].status # "none" => card'[s].number # 0
                        /\ starts'[s].stage # "idle" =>
                             starts'[s].number # 0 /\ starts'[s].number <= card'[s].number
                        /\ starts'[s].stage = "preparing" /\ starts'[s].restart => "restart" \in trouble'
    BY DEF Paused
  <2>2. QED
    BY <2>1 DEF CardInv, Paused, signIn
<1>3. FlowsListed(flows)'
  <2>1. FlowsListed(flows')
    BY DEF CardInv, signIn
  <2>2. \A s \in Sessions : Latest[s] <= Latest'[s]
    <3>1. Latest' = Latest
      BY DEF Latest, signIn
    <3>2. \A s \in Sessions : Latest[s] \in Nat
      BY LatestType DEF CardInv
    <3>3. QED
      BY <3>1, <3>2
  <2>3. QED
    BY <1>1, <2>1, <2>2, NewerLatest DEF CardInv
<1>4. (opened + Promised <= MaxFlows)'
  BY RoomKept DEF signIn, Preparers
<1>5. Nested(flows, opened)'
  BY DEF CardInv, Nested, signIn
<1>6. QED
  BY <1>1, <1>2, <1>3, <1>4, <1>5 DEF CardInv

(* A turn stops for a new card. *)
LEMMA PausesKeep ==
  ASSUME CardInv, NEW s \in Sessions, Pauses(s)
  PROVE  CardInv'
<1> DEFINE n == card[s].number + 1
           new == [number |-> n, status |-> "pending"]
<1>1. /\ card[s].status # "pending" /\ card[s].number < MaxCards
      /\ card' = [card EXCEPT ![s] = new] /\ held' = [held EXCEPT ![s] = n]
      /\ UNCHANGED <<flows, opened, starts, preparing, trouble>>
  BY DEF Pauses
<1>2. card[s].number \in Nat /\ n \in 1 .. MaxCards
  BY <1>1, SourceAuthAssumption DEF CardInv, CardTypes, Cards
<1>3. new \in Cards /\ new.number = n /\ new.status = "pending"
  BY <1>2 DEF Cards
<1>4. /\ card'[s] = new /\ held'[s] = n
      /\ \A q \in Sessions \ {s} : card'[q] = card[q] /\ held'[q] = held[q]
      /\ card' \in [Sessions -> Cards] /\ held' \in [Sessions -> 0 .. MaxCards]
  <2>1. n \in 0 .. MaxCards
    BY <1>2
  <2> HIDE DEF n, new
  <2>2. QED
    BY <1>1, <1>3, <2>1 DEF CardInv, CardTypes
<1>5. CardTypes'
  BY <1>1, <1>4 DEF CardInv, CardTypes
<1>6. \A q \in Sessions : card[q].number <= card'[q].number
  <2>1. \A q \in Sessions : card[q].number \in Nat
    BY SourceAuthAssumption DEF CardInv, CardTypes, Cards
  <2>2. card'[s].number = n
    <3> HIDE DEF n, new
    <3>1. QED
      BY <1>3, <1>4
  <2>3. card[s].number <= n
    BY <1>2
  <2> HIDE DEF n, new
  <2>4. QED
    BY <1>4, <2>1, <2>2, <2>3
<1>7. Paused'
  <2>1. SUFFICES ASSUME NEW q \in Sessions
                 PROVE  /\ held'[q] # 0 => held'[q] = card'[q].number /\ card'[q].status = "pending"
                        /\ card'[q].status = "pending" => held'[q] # 0 \/ trouble' \cap {"crash", "refused"} # {}
                        /\ card'[q].status # "none" => card'[q].number # 0
                        /\ starts'[q].stage # "idle" =>
                             starts'[q].number # 0 /\ starts'[q].number <= card'[q].number
                        /\ starts'[q].stage = "preparing" /\ starts'[q].restart => "restart" \in trouble'
    BY DEF Paused
  <2>2. starts'[q].stage # "idle" => starts'[q].number # 0 /\ starts'[q].number <= card'[q].number
    <3>1. /\ starts[q].number \in Nat /\ card[q].number \in Nat /\ card'[q].number \in Nat
      BY <1>4, SourceAuthAssumption DEF CardInv, CardTypes, Cards, StartCalls
    <3>2. QED
      BY <1>1, <1>6, <3>1 DEF CardInv, Paused
  <2>3. CASE q = s
    <3>1. n # 0
      BY <1>2
    <3> HIDE DEF n, new
    <3>2. QED
      BY <1>1, <1>3, <1>4, <2>2, <2>3, <3>1 DEF CardInv, Paused
  <2>4. CASE q # s
    <3> HIDE DEF n, new
    <3>1. QED
      BY <1>1, <1>4, <2>2, <2>4 DEF CardInv, Paused
  <2>5. QED
    BY <2>3, <2>4
<1>8. \A q \in Sessions : Latest[q] <= Latest'[q]
  <2>1. \A q \in Sessions : /\ Latest[q] = IF starts[q].stage = "idle" THEN card[q].number ELSE starts[q].number
                            /\ Latest'[q] = IF starts[q].stage = "idle" THEN card'[q].number ELSE starts[q].number
    BY <1>1 DEF Latest
  <2>2. \A q \in Sessions : starts[q].number \in Nat
    BY SourceAuthAssumption DEF CardInv, CardTypes, StartCalls
  <2>3. QED
    BY <1>6, <2>1, <2>2
<1>9. FlowsListed(flows')
  BY <1>1 DEF CardInv
<1>10. FlowsListed(flows)'
  BY <1>1, <1>5, <1>8, <1>9, NewerLatest DEF CardInv
<1>11. (opened + Promised <= MaxFlows)'
  BY <1>1, RoomKept DEF Preparers
<1>12. Nested(flows, opened)'
  BY <1>1 DEF CardInv, Nested
<1>13. QED
  BY <1>5, <1>7, <1>10, <1>11, <1>12 DEF CardInv

(* A start that begins is for the newest card, and one under way keeps its  *)
(* card.                                                                    *)
LEMMA StartsMove ==
  ASSUME CardInv, UNCHANGED <<card, held>>, starts' \in [Sessions -> StartCalls],
         preparing' \in Sessions \cup {None}, opened' \in Nat, trouble \subseteq trouble',
         FlowsListed(flows'), Nested(flows', opened'), opened' + Promised' <= MaxFlows,
         \A q \in Sessions :
            /\ \/ starts'[q].stage = "idle"
               \/ starts[q].stage # "idle" /\ starts'[q].number = starts[q].number
               \/ /\ starts[q].stage = "idle" /\ starts'[q].number = card[q].number
                  /\ card[q].status # "none"
            /\ starts'[q].stage = "preparing" /\ starts'[q].restart => "restart" \in trouble'
  PROVE  CardInv'
<1>1. CardTypes'
  BY DEF CardInv, CardTypes
<1>2. \A q \in Sessions : /\ starts[q].number \in Nat /\ starts'[q].number \in Nat
                          /\ card[q].number \in Nat
  BY SourceAuthAssumption DEF CardInv, CardTypes, Cards, StartCalls
<1>3. ASSUME NEW q \in Sessions
      PROVE  /\ starts'[q].stage # "idle" => starts'[q].number # 0 /\ starts'[q].number <= card[q].number
             /\ Latest[q] <= Latest'[q]
  <2>1. /\ Latest[q] = IF starts[q].stage = "idle" THEN card[q].number ELSE starts[q].number
        /\ Latest'[q] = IF starts'[q].stage = "idle" THEN card[q].number ELSE starts'[q].number
    BY DEF Latest
  <2>2. /\ starts[q].stage # "idle" => starts[q].number # 0 /\ starts[q].number <= card[q].number
        /\ card[q].status # "none" => card[q].number # 0
    BY DEF CardInv, Paused
  <2>3. QED
    BY <1>2, <2>1, <2>2
<1>4. Paused'
  <2>1. SUFFICES ASSUME NEW s \in Sessions
                 PROVE  /\ held'[s] # 0 => held'[s] = card'[s].number /\ card'[s].status = "pending"
                        /\ card'[s].status = "pending" => held'[s] # 0 \/ trouble' \cap {"crash", "refused"} # {}
                        /\ card'[s].status # "none" => card'[s].number # 0
                        /\ starts'[s].stage # "idle" =>
                             starts'[s].number # 0 /\ starts'[s].number <= card'[s].number
                        /\ starts'[s].stage = "preparing" /\ starts'[s].restart => "restart" \in trouble'
    BY DEF Paused
  <2>2. QED
    BY <1>3 DEF CardInv, Paused
<1>5. FlowsListed(flows)'
  BY <1>1, <1>3, NewerLatest DEF CardInv
<1>6. Nested(flows, opened)'
  BY DEF Nested
<1>7. QED
  BY <1>1, <1>4, <1>5, <1>6 DEF CardInv

LEMMA StartTyped ==
  ASSUME CardInv, NEW s \in Sessions, CanStart(s)
  PROVE  /\ card[s].number \in 1 .. MaxCards /\ card[s].status # "none"
         /\ starts[s].stage = "idle" /\ Latest[s] = card[s].number
<1>1. card[s].status = "pending" /\ starts[s].stage = "idle"
  BY DEF CanStart
<1>2. card[s].number \in 0 .. MaxCards /\ card[s].number # 0
  BY <1>1 DEF CardInv, CardTypes, Cards, Paused
<1>3. QED
  BY <1>1, <1>2, SourceAuthAssumption DEF Latest

LEMMA StartWaitsCards ==
  ASSUME CardInv, NEW s \in Sessions, StartWaits(s)
  PROVE  CardInv'
<1> DEFINE n == card[s].number
           call == [stage |-> "queued", number |-> n, on |-> preparing, restart |-> FALSE]
<1>1. /\ CanStart(s) /\ starts' = [starts EXCEPT ![s] = call]
      /\ UNCHANGED <<flows, opened, preparing, card, held, trouble>>
  BY DEF StartWaits
<1>2. n \in 1 .. MaxCards /\ card[s].status # "none" /\ starts[s].stage = "idle"
  BY <1>1, StartTyped
<1>3. call \in StartCalls /\ call.stage = "queued" /\ call.number = n
  BY <1>2, SourceAuthAssumption DEF StartCalls, CardInv, CardTypes
<1> HIDE DEF call
<1>4. /\ starts'[s] = call /\ starts' \in [Sessions -> StartCalls]
      /\ \A q \in Sessions \ {s} : starts'[q] = starts[q]
  BY <1>1, <1>3 DEF CardInv, CardTypes
<1>5. Preparers' = Preparers
  BY <1>2, <1>3, <1>4 DEF Preparers
<1>6. (opened + Promised <= MaxFlows)'
  BY <1>1, <1>5, RoomKept
<1>7. ASSUME NEW q \in Sessions
      PROVE  /\ \/ starts'[q].stage = "idle"
                \/ starts[q].stage # "idle" /\ starts'[q].number = starts[q].number
                \/ /\ starts[q].stage = "idle" /\ starts'[q].number = card[q].number
                   /\ card[q].status # "none"
             /\ starts'[q].stage = "preparing" /\ starts'[q].restart => "restart" \in trouble'
  <2>1. CASE q = s
    BY <1>2, <1>3, <1>4, <2>1
  <2>2. CASE q # s
    <3>1. starts'[q] = starts[q]
      BY <1>4, <2>2
    <3>2. starts[q].stage = "preparing" /\ starts[q].restart => "restart" \in trouble
      BY DEF CardInv, Paused
    <3>3. QED
      BY <1>1, <3>1, <3>2
  <2>3. QED
    BY <2>1, <2>2
<1>8. /\ FlowsListed(flows') /\ Nested(flows', opened') /\ opened' \in Nat
      /\ preparing' \in Sessions \cup {None}
  BY <1>1 DEF CardInv, CardTypes
<1>9. QED
  BY <1>1, <1>4, <1>6, <1>7, <1>8, StartsMove

LEMMA StartJoinsCards ==
  ASSUME CardInv, NEW s \in Sessions, StartJoins(s)
  PROVE  CardInv'
<1> DEFINE n == Newest(flows)
           c == <<s, card[s].number>>
           flow == flows[n]
           joined == Joined(flow, c)
<1>1. /\ CanStart(s) /\ Listed(flows) # {} /\ flows' = [flows EXCEPT ![n] = joined]
      /\ UNCHANGED <<opened, starts, preparing, card, held, trouble>>
  BY DEF StartJoins
<1>2. card[s].number \in 1 .. MaxCards /\ Latest[s] = card[s].number
  BY <1>1, StartTyped
<1>3. c \in CardIds /\ c[2] = Latest[c[1]]
  BY <1>2 DEF CardIds
<1>4. n \in FlowIds
  BY <1>1, NewestListed DEF Listed
<1> HIDE DEF n
<1>5. /\ flow \in FlowKinds /\ flow.bound \in Seq(CardIds) /\ Within(flow.bound, Latest)
      /\ "restart" \notin trouble => Ordered(flow.bound)
  BY <1>4 DEF CardInv, FlowsListed, FlowKinds
<1> HIDE DEF c, flow
<1>6. /\ Append(flow.bound, c) \in Seq(CardIds) /\ Within(Append(flow.bound, c), Latest)
      /\ "restart" \notin trouble => Ordered(Append(flow.bound, c))
  <2>1. Latest \in [Sessions -> Nat]
    BY LatestType DEF CardInv
  <2>2. QED
    BY <1>3, <1>5, <2>1, OneListedAfter
<1>7. joined = flow \/ joined = [flow EXCEPT !.bound = Append(flow.bound, c)]
  BY DEF Joined
<1> HIDE DEF joined
<1>8. /\ joined \in FlowKinds /\ Within(joined.bound, Latest)
      /\ "restart" \notin trouble => Ordered(joined.bound)
  <2>1. CASE joined = flow
    BY <1>5, <2>1
  <2>2. CASE joined = [flow EXCEPT !.bound = Append(flow.bound, c)]
    <3>1. joined.bound = Append(flow.bound, c) /\ joined \in FlowKinds
      BY <1>5, <1>6, <2>2 DEF FlowKinds
    <3>2. QED
      BY <1>6, <3>1
  <2>3. QED
    BY <1>7, <2>1, <2>2
<1>9. FlowsListed(flows')
  <2>1. flows \in [FlowIds -> FlowKinds]
    BY DEF CardInv, FlowsListed
  <2>2. /\ flows' \in [FlowIds -> FlowKinds] /\ flows'[n] = joined
        /\ \A f \in FlowIds \ {n} : flows'[f] = flows[f]
    BY <1>1, <1>4, <1>8, <2>1
  <2>3. ASSUME NEW f \in FlowIds
        PROVE  /\ Within(flows'[f].bound, Latest)
               /\ "restart" \notin trouble => Ordered(flows'[f].bound)
    BY <1>8, <2>2 DEF CardInv, FlowsListed
  <2>4. QED
    BY <2>2, <2>3 DEF FlowsListed
<1>10. (opened + Promised <= MaxFlows)'
  BY <1>1, RoomKept DEF Preparers
<1>11. ASSUME NEW q \in Sessions
       PROVE  /\ starts'[q] = starts[q]
              /\ starts'[q].stage = "preparing" /\ starts'[q].restart => "restart" \in trouble'
  BY <1>1 DEF CardInv, Paused
<1>12. starts' \in [Sessions -> StartCalls] /\ opened' \in Nat /\ preparing' \in Sessions \cup {None}
  BY <1>1 DEF CardInv, CardTypes
<1>13. Nested(flows', opened')
  <2>1. flows \in [FlowIds -> FlowKinds] /\ Nested(flows, opened)
    BY DEF CardInv, FlowsListed
  <2>2. /\ DOMAIN flows' = FlowIds /\ flows'[n] = joined
        /\ \A f \in FlowIds \ {n} : flows'[f] = flows[f]
    BY <1>1, <1>4, <2>1
  <2>3. CASE joined = flow
    <3>1. \A f \in FlowIds : flows'[f] = flows[f]
      BY <2>2, <2>3 DEF flow
    <3>2. QED
      BY <1>1, <2>1, <3>1 DEF Nested
  <2>4. CASE joined = [flow EXCEPT !.bound = Append(flow.bound, c)]
    <3>1. n \in Listed(flows)
      BY <1>1, NewestListed DEF n
    <3>2. ToSet(flows[n].bound) \subseteq ToSet(Append(flow.bound, c))
      BY <1>3, <1>5, AppendElements DEF flow
    <3>3. flows'[n] = [flows[n] EXCEPT !.bound = Append(flow.bound, c)]
      BY <2>2, <2>4 DEF flow
    <3>4. QED
      BY <1>1, <2>1, <2>2, <3>1, <3>2, <3>3, NestedGrows
  <2>5. QED
    BY <1>7, <2>3, <2>4
<1>14. QED
  BY <1>1, <1>9, <1>10, <1>11, <1>12, <1>13, StartsMove

LEMMA PreparesCards ==
  ASSUME CardInv, NEW s \in Sessions, NEW restart \in BOOLEAN, Prepares(s, restart),
         trouble \subseteq trouble', restart => "restart" \in trouble'
  PROVE  CardInv'
<1> DEFINE n == card[s].number
           call == Preparation(n, restart)
<1>1. /\ CanStart(s) /\ starts' = [starts EXCEPT ![s] = call]
      /\ opened + Promised < MaxFlows /\ preparing' = s
      /\ UNCHANGED <<flows, opened, card, held>>
  BY DEF Prepares
<1>2. n \in 1 .. MaxCards /\ card[s].status # "none" /\ starts[s].stage = "idle"
  BY <1>1, StartTyped
<1>3. call \in StartCalls /\ call.stage = "preparing" /\ call.number = n /\ call.restart = restart
  BY <1>2, SourceAuthAssumption DEF StartCalls, Preparation
<1> HIDE DEF call
<1>4. /\ starts'[s] = call /\ starts' \in [Sessions -> StartCalls]
      /\ \A q \in Sessions \ {s} : starts'[q] = starts[q]
  BY <1>1, <1>3 DEF CardInv, CardTypes
<1>5. Preparers' = Preparers \cup {s} /\ s \notin Preparers
  BY <1>2, <1>3, <1>4 DEF Preparers
<1>6. opened' + Promised' <= MaxFlows
  <2>1. /\ IsFiniteSet(Preparers) /\ Cardinality(Preparers) \in Nat
        /\ Promised = Cardinality(Preparers)
    BY PreparersFinite
  <2>2. Cardinality(Preparers \cup {s}) = Cardinality(Preparers) + 1
    BY <1>5, <2>1, FS_AddElement
  <2>3. Promised' = Cardinality(Preparers')
    BY DEF Promised, Preparers
  <2>4. opened \in Nat
    BY DEF CardInv, CardTypes
  <2>5. QED
    BY <1>1, <1>5, <2>1, <2>2, <2>3, <2>4, SourceAuthAssumption
<1>7. ASSUME NEW q \in Sessions
      PROVE  /\ \/ starts'[q].stage = "idle"
                \/ starts[q].stage # "idle" /\ starts'[q].number = starts[q].number
                \/ /\ starts[q].stage = "idle" /\ starts'[q].number = card[q].number
                   /\ card[q].status # "none"
             /\ starts'[q].stage = "preparing" /\ starts'[q].restart => "restart" \in trouble'
  <2>1. CASE q = s
    BY <1>2, <1>3, <1>4, <2>1
  <2>2. CASE q # s
    <3>1. starts'[q] = starts[q]
      BY <1>4, <2>2
    <3>2. starts[q].stage = "preparing" /\ starts[q].restart => "restart" \in trouble
      BY DEF CardInv, Paused
    <3>3. QED
      BY <1>1, <3>1, <3>2
  <2>3. QED
    BY <2>1, <2>2
<1>8. /\ FlowsListed(flows') /\ Nested(flows', opened') /\ opened' \in Nat
      /\ preparing' \in Sessions \cup {None}
  BY <1>1 DEF CardInv, CardTypes
<1>9. QED
  BY <1>1, <1>4, <1>6, <1>7, <1>8, StartsMove

LEMMA StartsCards ==
  ASSUME CardInv, NEW s \in Sessions, Starts(s)
  PROVE  CardInv'
<1>1. CASE StartPrepares(s)
  <2>1. Prepares(s, FALSE) /\ UNCHANGED trouble
    BY <1>1 DEF StartPrepares
  <2>2. QED
    BY <2>1, PreparesCards
<1>2. CASE StartAlone(s)
  <2>1. PICK kind \in {"alone", "restart"} : trouble' = trouble \cup {kind} /\ Prepares(s, kind = "restart")
    BY <1>2 DEF StartAlone
  <2>2. (kind = "restart") \in BOOLEAN
    OBVIOUS
  <2>3. trouble \subseteq trouble' /\ (kind = "restart" => "restart" \in trouble')
    BY <2>1
  <2>4. CASE kind = "restart"
    <3>1. Prepares(s, TRUE)
      BY <2>1, <2>4
    <3>2. QED
      BY <2>3, <2>4, <3>1, PreparesCards
  <2>5. CASE kind # "restart"
    <3>1. Prepares(s, FALSE)
      BY <2>1, <2>5
    <3>2. QED
      BY <2>3, <3>1, PreparesCards
  <2>6. QED
    BY <2>4, <2>5
<1>3. QED
  BY <1>1, <1>2, StartWaitsCards, StartJoinsCards DEF Starts

LEMMA StartTypes ==
  ASSUME CardInv, NEW s \in Sessions, starts[s].stage = "preparing"
  PROVE  <<s, starts[s].number>> \in CardIds
<1>1. starts[s].number \in 0 .. MaxCards /\ starts[s].number # 0
  BY DEF CardInv, CardTypes, Paused, StartCalls
<1>2. starts[s].number \in 1 .. MaxCards
  BY <1>1, SourceAuthAssumption
<1>3. QED
  BY <1>2 DEF CardIds

(* The flow that a preparation stores lists the card it was for, and, when  *)
(* it starts over, those of the flow before.                                *)
LEMMA PreparedFlow ==
  ASSUME CardInv, NEW s \in Sessions, starts[s].stage = "preparing",
         NEW cards \in Seq(CardIds), Within(cards, Latest),
         NEW K \in SUBSET (DOMAIN cards),
         NEW taken, taken = <<>> \/ (taken = Picked(cards, K) /\ starts[s].restart)
  PROVE  /\ <<<<s, starts[s].number>>>> \o taken \in Seq(CardIds)
         /\ Within(<<<<s, starts[s].number>>>> \o taken, Latest)
         /\ "restart" \notin trouble => Ordered(<<<<s, starts[s].number>>>> \o taken)
<1> DEFINE id == <<s, starts[s].number>>
           one == <<id>>
           b == one \o taken
<1>1. Latest[s] = starts[s].number /\ starts[s].number \in 1 .. MaxCards
  <2>1. starts[s].number \in 0 .. MaxCards /\ starts[s].number # 0
    BY DEF CardInv, CardTypes, Paused, StartCalls
  <2>2. QED
    BY <2>1, SourceAuthAssumption DEF Latest
<1>2. id \in CardIds /\ id[1] = s /\ id[2] = Latest[s]
  BY <1>1 DEF CardIds
<1> HIDE DEF id
<1>3. one \in Seq(CardIds) /\ Len(one) = 1 /\ DOMAIN one = {1} /\ one[1] = id
  BY <1>2
<1>4. taken \in Seq(CardIds) /\ \A k \in DOMAIN taken : taken[k][2] <= Latest[taken[k][1]]
  <2>1. CASE taken = <<>>
    <3>1. DOMAIN taken = {} /\ taken \in Seq(CardIds)
      BY <2>1
    <3>2. QED
      BY <3>1
  <2>2. CASE taken = Picked(cards, K)
    <3>1. taken \in Seq(CardIds)
      BY <2>2, PickedFacts
    <3>2. \A k \in DOMAIN taken : \E i \in K : taken[k] = cards[i]
      BY <2>2, PickedElements
    <3>3. QED
      BY <3>1, <3>2 DEF Within
  <2>3. QED
    BY <2>1, <2>2
<1>5. "restart" \notin trouble => taken = <<>>
  BY DEF CardInv, Paused
<1> HIDE DEF one
<1>6. /\ b \in Seq(CardIds) /\ Len(one) \in Nat
      /\ \A i \in DOMAIN b : \/ i \in DOMAIN one /\ b[i] = one[i]
                             \/ i - Len(one) \in DOMAIN taken /\ b[i] = taken[i - Len(one)]
  <2>1. one \in Seq(CardIds) /\ taken \in Seq(CardIds)
    BY <1>3, <1>4
  <2>2. QED
    BY <2>1, ConcatElements
<1>7. Within(b, Latest)
  <2>1. Latest[s] \in Nat
    BY LatestType DEF CardInv
  <2>2. \A i \in DOMAIN one : one[i][2] <= Latest[one[i][1]]
    BY <1>2, <1>3, <2>1
  <2> HIDE DEF b
  <2>3. QED
    BY <1>4, <1>6, <2>2 DEF Within
<1>8. taken = <<>> => Ordered(b)
  <2>1. ASSUME taken = <<>>
        PROVE  b = one
    BY <1>3, <2>1, ConcatEmptySeq
  <2>2. taken = <<>> => \A i, j \in DOMAIN b : ~(i < j)
    BY <1>3, <2>1
  <2> HIDE DEF b
  <2>3. QED
    BY <2>2 DEF Ordered
<1>9. QED
  BY <1>5, <1>6, <1>7, <1>8 DEF b, one, id

(* The preparation is over, and with it the starts that waited for it. *)
LEMMA CallsOver ==
  ASSUME CardInv, NEW s \in Sessions, starts[s].stage = "preparing",
         starts' = [q \in Sessions |-> IF q \in Queued(s) \cup {s} THEN NoStart ELSE starts[q]]
  PROVE  /\ starts' \in [Sessions -> StartCalls]
         /\ Promised' = Promised - 1 /\ Promised \in Nat \ {0}
         /\ \A q \in Sessions : starts'[q].stage = "idle" \/ starts'[q] = starts[q]
<1>1. NoStart \in StartCalls /\ NoStart.stage = "idle"
  BY SourceAuthAssumption DEF NoStart, StartCalls
<1>2. \A q \in Sessions : starts'[q] = IF q \in Queued(s) \cup {s} THEN NoStart ELSE starts[q]
  OBVIOUS
<1> HIDE DEF NoStart
<1>3. starts' \in [Sessions -> StartCalls]
  BY <1>1 DEF CardInv, CardTypes
<1>4. Preparers' = Preparers \ {s} /\ s \in Preparers
  BY <1>1, <1>2 DEF Preparers, Queued
<1>5. /\ IsFiniteSet(Preparers) /\ Cardinality(Preparers) \in Nat
      /\ Promised = Cardinality(Preparers)
  BY PreparersFinite
<1>6. Promised' = Cardinality(Preparers')
  BY DEF Promised, Preparers
<1>7. Cardinality(Preparers \ {s}) = Cardinality(Preparers) - 1
  BY <1>4, <1>5, FS_RemoveElement
<1>8. Cardinality(Preparers) # 0
  BY <1>4, <1>5, FS_EmptySet
<1>9. QED
  BY <1>1, <1>2, <1>3, <1>4, <1>5, <1>6, <1>7, <1>8

LEMMA PreparationEndsCards ==
  ASSUME CardInv, NEW s \in Sessions, PreparationEnds(s)
  PROVE  CardInv'
<1> DEFINE id == <<s, starts[s].number>>
           replaced == {f \in Listed(flows) : starts[s].restart /\ f = Newest(flows)}
           kept == [f \in FlowIds |-> IF f \in replaced THEN [flows[f] EXCEPT !.listed = FALSE] ELSE flows[f]]
           cards == flows[Newest(flows)].bound
           K == {i \in DOMAIN cards : cards[i] # id}
           taken == IF replaced = {} THEN <<>> ELSE Picked(cards, K)
           b == <<id>> \o taken
           old == IF replaced = {} THEN 0 ELSE Newest(flows)
           flow == [listed |-> TRUE, exchanging |-> FALSE, bound |-> b, from |-> old]
           n == opened + 1
           fs == [kept EXCEPT ![n] = flow]
<1>1. /\ starts[s].stage = "preparing" /\ opened' = n
      /\ flows' = AllJoin(fs, Queued(s))
      /\ starts' = [q \in Sessions |-> IF q \in Queued(s) \cup {s} THEN NoStart ELSE starts[q]]
      /\ Unregister(s) /\ UNCHANGED <<card, held, trouble>>
  BY DEF PreparationEnds
<1>2. flows \in [FlowIds -> FlowKinds]
  BY DEF CardInv, FlowsListed
<1>3. ASSUME NEW f \in FlowIds
      PROVE  kept[f] \in FlowKinds /\ kept[f].bound = flows[f].bound
  <2>1. flows[f] \in FlowKinds
    BY <1>2
  <2>2. kept[f] = flows[f] \/ kept[f] = [flows[f] EXCEPT !.listed = FALSE]
    OBVIOUS
  <2> HIDE DEF kept
  <2>3. QED
    BY <2>1, <2>2 DEF FlowKinds
<1>4. /\ b \in Seq(CardIds) /\ Within(b, Latest)
      /\ "restart" \notin trouble => Ordered(b)
  <2>1. CASE replaced = {}
    <3>1. taken = <<>>
      BY <2>1
    <3>2. <<>> \in Seq(CardIds) /\ Within(<<>>, Latest) /\ {} \in SUBSET (DOMAIN <<>>)
      BY DEF Within
    <3> HIDE DEF taken, cards, K, replaced
    <3>3. QED
      BY <1>1, <3>1, <3>2, PreparedFlow
  <2>2. CASE replaced # {}
    <3>1. starts[s].restart /\ Newest(flows) \in Listed(flows)
      BY <2>2
    <3>2. cards \in Seq(CardIds) /\ Within(cards, Latest)
      BY <3>1 DEF CardInv, FlowsListed, FlowKinds, Listed
    <3>3. taken = Picked(cards, K)
      BY <2>2
    <3>4. K \in SUBSET (DOMAIN cards)
      OBVIOUS
    <3> HIDE DEF taken, cards, K, replaced
    <3>5. QED
      BY <1>1, <3>1, <3>2, <3>3, <3>4, PreparedFlow
  <2>3. QED
    BY <2>1, <2>2
<1>5. /\ starts' \in [Sessions -> StartCalls]
      /\ Promised' = Promised - 1 /\ Promised \in Nat \ {0}
      /\ \A q \in Sessions : starts'[q].stage = "idle" \/ starts'[q] = starts[q]
  BY <1>1, CallsOver
<1>6. n \in FlowIds /\ opened \in Nat /\ opened' + Promised' <= MaxFlows
  BY <1>1, <1>5, SourceAuthAssumption DEF CardInv, CardTypes, FlowIds
<1>16. old \in 0 .. MaxFlows
  <2>1. replaced # {} => Newest(flows) \in Listed(flows)
    OBVIOUS
  <2> HIDE DEF replaced
  <2>2. QED
    BY <2>1, SourceAuthAssumption DEF Listed, FlowIds
<1> HIDE DEF kept, b, old
<1>7. flow \in FlowKinds /\ flow.bound = b /\ flow.listed
  BY <1>4, <1>16 DEF FlowKinds
<1>18. flow.from = old
  OBVIOUS
<1> HIDE DEF flow
<1>8. /\ fs \in [FlowIds -> FlowKinds] /\ fs[n] = flow
      /\ \A f \in FlowIds \ {n} : fs[f] = kept[f]
  <2>1. kept \in [FlowIds -> FlowKinds]
    <3>1. DOMAIN kept = FlowIds /\ kept = [f \in FlowIds |-> kept[f]]
      BY DEF kept
    <3>2. QED
      BY <1>3, <3>1
  <2> HIDE DEF n
  <2>2. QED
    BY <1>6, <1>7, <2>1
<1> HIDE DEF fs, n
<1>9. FlowsListed(fs)
  <2>1. ASSUME NEW f \in FlowIds
        PROVE  /\ Within(fs[f].bound, Latest)
               /\ "restart" \notin trouble => Ordered(fs[f].bound)
    <3>1. CASE f = n
      BY <1>4, <1>7, <1>8, <3>1
    <3>2. CASE f # n
      BY <1>3, <1>8, <3>2 DEF CardInv, FlowsListed
    <3>3. QED
      BY <3>1, <3>2
  <2>2. QED
    BY <1>8, <2>1 DEF FlowsListed
<1>10. Listed(fs) # {}
  BY <1>6, <1>7, <1>8 DEF Listed
<1>11. Queued(s) \in SUBSET Sessions /\ \A q \in Queued(s) : starts[q].stage # "idle"
  BY DEF Queued
<1>12. FlowsListed(flows')
  BY <1>1, <1>9, <1>10, <1>11, AllJoinLists
<1>17. Nested(flows', opened')
  <2>1. Nested(flows, opened) /\ opened' = n /\ opened <= n /\ opened < n
    BY <1>1, <1>6 DEF CardInv, n
  <2>2. ASSUME NEW f \in FlowIds, fs[f].listed
        PROVE  f <= n
    <3>1. CASE f = n
      BY <1>6, <3>1 DEF n
    <3>2. CASE f # n
      <4>1. kept[f].listed => flows[f].listed
        <5>1. flows[f] \in FlowKinds /\ (kept[f] = flows[f] \/ kept[f] = [flows[f] EXCEPT !.listed = FALSE])
          BY <1>2 DEF kept
        <5>2. QED
          BY <5>1 DEF FlowKinds
      <4>2. f <= opened
        BY <1>8, <2>1, <2>2, <3>2, <4>1 DEF Nested
      <4>3. QED
        BY <1>6, <2>1, <4>2 DEF n, FlowIds
    <3>3. QED
      BY <3>1, <3>2
  <2>3. ASSUME NEW f \in FlowIds
        PROVE  kept[f].from = flows[f].from /\ (~flows[f].listed => ~kept[f].listed)
    <3>1. flows[f] \in FlowKinds /\ (kept[f] = flows[f] \/ kept[f] = [flows[f] EXCEPT !.listed = FALSE])
      BY <1>2 DEF kept
    <3>2. QED
      BY <3>1 DEF FlowKinds
  <2>4. ASSUME NEW f \in FlowIds, f # n, fs[f].from # 0
        PROVE  /\ fs[f].from \in FlowIds /\ fs[f].from <= n /\ ~fs[fs[f].from].listed
               /\ ToSet(fs[fs[f].from].bound) \subseteq ToSet(fs[f].bound)
    <3>1. fs[f].from = flows[f].from /\ fs[f].bound = flows[f].bound
      BY <1>3, <1>8, <2>3, <2>4
    <3>2. PICK g \in FlowIds : /\ g = flows[f].from /\ g <= opened /\ ~flows[g].listed
                               /\ ToSet(flows[g].bound) \subseteq ToSet(flows[f].bound)
      BY <2>1, <2>4, <3>1 DEF Nested
    <3>3. g # n /\ g <= n
      BY <1>6, <2>1, <3>2 DEF n, FlowIds
    <3>4. ~fs[g].listed /\ fs[g].bound = flows[g].bound
      BY <1>3, <1>8, <2>3, <3>2, <3>3
    <3>5. QED
      BY <3>1, <3>2, <3>3, <3>4
  <2>5. ASSUME fs[n].from # 0
        PROVE  /\ fs[n].from \in FlowIds /\ fs[n].from <= n /\ ~fs[fs[n].from].listed
               /\ ToSet(fs[fs[n].from].bound) \subseteq ToSet(fs[n].bound)
    <3>1. fs[n].from = old /\ fs[n].bound = b
      BY <1>7, <1>8, <1>18
    <3>2. PICK g \in FlowIds : g = old /\ g \in Listed(flows) /\ g \in replaced /\ g = Newest(flows)
      BY <2>5, <3>1 DEF old, Listed
    <3>3. g <= opened
      BY <2>1, <3>2 DEF Nested, Listed
    <3>4. g # n /\ g <= n
      BY <1>6, <2>1, <3>3 DEF n, FlowIds
    <3>5. ~kept[g].listed /\ flows[g] \in FlowKinds
      <4>1. kept[g] = [flows[g] EXCEPT !.listed = FALSE] /\ flows[g] \in FlowKinds
        BY <1>2, <3>2 DEF kept
      <4>2. QED
        BY <4>1 DEF FlowKinds
    <3>6. ~fs[g].listed /\ fs[g].bound = cards
      BY <1>3, <1>8, <3>2, <3>4, <3>5
    <3>7. ToSet(cards) \subseteq ToSet(b)
      <4>1. replaced # {} /\ cards \in Seq(CardIds)
        BY <3>2, <3>5 DEF FlowKinds
      <4> HIDE DEF cards, replaced
      <4>2. taken = Picked(cards, K) /\ K \in SUBSET (DOMAIN cards)
        BY <4>1
      <4> HIDE DEF taken
      <4>3. \A i \in K : \E k \in DOMAIN taken : taken[k] = cards[i]
        <5> HIDE DEF K
        <5>1. QED
          BY <4>1, <4>2, PickedElements
      <4>4. taken \in Seq(CardIds)
        <5> HIDE DEF K
        <5>1. QED
          BY <4>1, <4>2, PickedFacts
      <4>6. id \in CardIds
        BY <1>1, StartTypes
      <4>5. <<id>> \in Seq(CardIds) /\ DOMAIN <<id>> = {1} /\ <<id>>[1] = id /\ Len(<<id>>) = 1
        BY <4>6
      <4>7. ASSUME NEW i \in DOMAIN cards
            PROVE  cards[i] \in ToSet(b)
        <5>1. CASE cards[i] = id
          <6>1. 1 \in DOMAIN b /\ b[1] = id
            BY <4>4, <4>5, ConcatElements DEF b
          <6>2. QED
            BY <5>1, <6>1 DEF ToSet
        <5>2. CASE cards[i] # id
          <6>1. PICK k \in DOMAIN taken : taken[k] = cards[i]
            BY <4>3, <5>2
          <6>2. 1 + k \in DOMAIN b /\ b[1 + k] = taken[k]
            BY <4>4, <4>5, ConcatElements DEF b
          <6>3. QED
            BY <6>1, <6>2 DEF ToSet
        <5>3. QED
          BY <5>1, <5>2
      <4>8. QED
        BY <4>7 DEF ToSet
    <3>8. QED
      BY <3>1, <3>2, <3>4, <3>6, <3>7
  <2>6. Nested(fs, n)
    BY <2>2, <2>4, <2>5 DEF Nested
  <2>7. Nested(AllJoin(fs, Queued(s)), n)
    BY <1>9, <1>10, <1>11, <2>6, AllJoinLists
  <2>8. QED
    BY <1>1, <2>1, <2>7
<1>13. preparing' \in Sessions \cup {None} /\ opened' \in Nat
  BY <1>1, <1>6 DEF Unregister, CardInv, CardTypes, n
<1>14. ASSUME NEW q \in Sessions
       PROVE  /\ \/ starts'[q].stage = "idle"
                 \/ starts[q].stage # "idle" /\ starts'[q].number = starts[q].number
                 \/ /\ starts[q].stage = "idle" /\ starts'[q].number = card[q].number
                    /\ card[q].status # "none"
              /\ starts'[q].stage = "preparing" /\ starts'[q].restart => "restart" \in trouble'
  BY <1>1, <1>5 DEF CardInv, Paused
<1>15. QED
  BY <1>1, <1>5, <1>6, <1>12, <1>13, <1>14, <1>17, StartsMove

LEMMA PreparationFailsCards ==
  ASSUME CardInv, NEW s \in Sessions, PreparationFails(s)
  PROVE  CardInv'
<1>1. starts[s].stage = "preparing" /\ trouble \subseteq trouble' /\ UNCHANGED <<card, held, opened>>
  BY DEF PreparationFails
<1>2. Queued(s) \in SUBSET Sessions /\ s \notin Queued(s) /\ \A q \in Queued(s) : starts[q].stage = "queued"
  BY <1>1 DEF Queued
<1>3. opened \in Nat /\ preparing \in Sessions \cup {None}
  BY DEF CardInv, CardTypes
<1>4. ASSUME Queued(s) = {} \/ Listed(flows) # {},
             flows' = (IF Queued(s) = {} THEN flows ELSE AllJoin(flows, Queued(s))),
             starts' = [q \in Sessions |-> IF q \in Queued(s) \cup {s} THEN NoStart ELSE starts[q]],
             Unregister(s)
      PROVE  CardInv'
  <2>1. FlowsListed(flows') /\ Nested(flows', opened')
    <3>1. CASE Queued(s) = {}
      BY <1>1, <1>4, <3>1 DEF CardInv
    <3>2. CASE Queued(s) # {}
      <4>1. FlowsListed(flows) /\ Nested(flows, opened) /\ \A q \in Queued(s) : starts[q].stage # "idle"
        BY <1>2 DEF CardInv
      <4>2. QED
        BY <1>1, <1>2, <1>4, <3>2, <4>1, AllJoinLists
    <3>3. QED
      BY <3>1, <3>2
  <2>2. /\ starts' \in [Sessions -> StartCalls]
        /\ Promised' = Promised - 1 /\ Promised \in Nat \ {0}
        /\ \A q \in Sessions : starts'[q].stage = "idle" \/ starts'[q] = starts[q]
    BY <1>1, <1>4, CallsOver
  <2>3. opened' + Promised' <= MaxFlows
    BY <1>1, <1>3, <2>2, SourceAuthAssumption DEF CardInv
  <2>4. preparing' \in Sessions \cup {None} /\ opened' \in Nat
    BY <1>1, <1>3, <1>4 DEF Unregister
  <2>5. ASSUME NEW q \in Sessions
        PROVE  /\ \/ starts'[q].stage = "idle"
                  \/ starts[q].stage # "idle" /\ starts'[q].number = starts[q].number
                  \/ /\ starts[q].stage = "idle" /\ starts'[q].number = card[q].number
                     /\ card[q].status # "none"
               /\ starts'[q].stage = "preparing" /\ starts'[q].restart => "restart" \in trouble'
    BY <1>1, <2>2 DEF CardInv, Paused
  <2>6. QED
    BY <1>1, <2>1, <2>2, <2>3, <2>4, <2>5, StartsMove
<1>5. ASSUME opened + Promised + Cardinality(Queued(s)) <= MaxFlows + 1,
             preparing' \in Queued(s), UNCHANGED flows,
             starts' = [q \in Sessions |-> IF q = s THEN NoStart
                                           ELSE IF q \in Queued(s) THEN Preparation(starts[q].number, FALSE)
                                           ELSE starts[q]]
      PROVE  CardInv'
  <2>1. NoStart \in StartCalls /\ NoStart.stage = "idle"
    BY SourceAuthAssumption DEF NoStart, StartCalls
  <2>2. ASSUME NEW q \in Queued(s)
        PROVE  /\ starts'[q] \in StartCalls /\ starts'[q].stage = "preparing" /\ ~starts'[q].restart
               /\ starts'[q].number = starts[q].number /\ starts[q].stage = "queued"
    <3>1. starts'[q] = Preparation(starts[q].number, FALSE)
      BY <1>2, <1>5
    <3>2. starts[q].number \in 0 .. MaxCards
      BY <1>2 DEF CardInv, CardTypes, StartCalls
    <3>3. QED
      BY <1>2, <3>1, <3>2 DEF Preparation, StartCalls
  <2>3. ASSUME NEW q \in Sessions, q \notin Queued(s)
        PROVE  starts'[q] = IF q = s THEN NoStart ELSE starts[q]
    BY <1>5, <2>3
  <2>4. starts' \in [Sessions -> StartCalls]
    <3>1. DOMAIN starts' = Sessions /\ starts' = [q \in Sessions |-> starts'[q]]
      BY <1>5
    <3>2. \A q \in Sessions : starts'[q] \in StartCalls
      BY <2>1, <2>2, <2>3 DEF CardInv, CardTypes
    <3>3. QED
      BY <3>1, <3>2
  <2>5. Preparers' = (Preparers \ {s}) \cup Queued(s) /\ s \in Preparers /\ Preparers \cap Queued(s) = {}
    BY <1>1, <1>2, <2>1, <2>2, <2>3 DEF Preparers
  <2>6. opened' + Promised' <= MaxFlows
    <3>1. /\ IsFiniteSet(Preparers) /\ Cardinality(Preparers) \in Nat
          /\ Promised = Cardinality(Preparers)
      BY PreparersFinite
    <3>2. Promised' = Cardinality(Preparers')
      BY DEF Promised, Preparers
    <3>3. IsFiniteSet(Queued(s)) /\ Cardinality(Queued(s)) \in Nat
      BY <1>2, SourceAuthAssumption, FS_Subset, FS_CardinalityType
    <3>4. /\ IsFiniteSet(Preparers \ {s})
          /\ Cardinality(Preparers \ {s}) = Cardinality(Preparers) - 1
      BY <2>5, <3>1, FS_RemoveElement
    <3>5. Cardinality((Preparers \ {s}) \cap Queued(s)) = 0
      <4>1. (Preparers \ {s}) \cap Queued(s) = {}
        BY <2>5
      <4>2. QED
        BY <4>1, FS_EmptySet
    <3>6. Cardinality((Preparers \ {s}) \cup Queued(s)) =
            Cardinality(Preparers \ {s}) + Cardinality(Queued(s)) - Cardinality((Preparers \ {s}) \cap Queued(s))
      BY <3>3, <3>4, FS_Union
    <3>7. Promised' = Cardinality(Preparers) - 1 + Cardinality(Queued(s))
      BY <2>5, <3>1, <3>2, <3>3, <3>4, <3>5, <3>6
    <3>8. QED
      BY <1>1, <1>3, <1>5, <3>1, <3>3, <3>7, SourceAuthAssumption
  <2>7. ASSUME NEW q \in Sessions
        PROVE  /\ \/ starts'[q].stage = "idle"
                  \/ starts[q].stage # "idle" /\ starts'[q].number = starts[q].number
                  \/ /\ starts[q].stage = "idle" /\ starts'[q].number = card[q].number
                     /\ card[q].status # "none"
               /\ starts'[q].stage = "preparing" /\ starts'[q].restart => "restart" \in trouble'
    <3>1. CASE q \in Queued(s)
      BY <2>2, <3>1
    <3>2. CASE q \notin Queued(s)
      BY <1>1, <2>1, <2>3, <3>2 DEF CardInv, Paused
    <3>3. QED
      BY <3>1, <3>2
  <2>8. /\ FlowsListed(flows') /\ Nested(flows', opened') /\ opened' \in Nat
        /\ preparing' \in Sessions \cup {None}
    BY <1>1, <1>2, <1>3, <1>5 DEF CardInv
  <2>9. QED
    BY <1>1, <2>4, <2>6, <2>7, <2>8, StartsMove
<1>6. QED
  BY <1>4, <1>5 DEF PreparationFails

(* Cards are answered or fail, flows are marked or end. *)
LEMMA CardsAnswered ==
  ASSUME CardInv, UNCHANGED <<opened, starts, preparing>>, trouble \subseteq trouble',
         card' \in [Sessions -> Cards], held' \in [Sessions -> 0 .. MaxCards],
         \A s \in Sessions :
            /\ card'[s].number = card[s].number
            /\ \/ card'[s] = card[s] /\ held'[s] = held[s]
               \/ /\ held'[s] = 0
                  /\ card[s].status = "pending" \/ card'[s] = card[s]
                  /\ card'[s].status # "pending" \/ trouble' \cap {"crash", "refused"} # {},
         flows' \in [FlowIds -> FlowKinds],
         \A f \in FlowIds : flows'[f].bound = flows[f].bound \/ flows'[f].bound = <<>>,
         Nested(flows', opened)
  PROVE  CardInv'
<1>1. CardTypes'
  BY DEF CardInv, CardTypes
<1>2. Paused'
  <2>1. SUFFICES ASSUME NEW s \in Sessions
                 PROVE  /\ held'[s] # 0 => held'[s] = card'[s].number /\ card'[s].status = "pending"
                        /\ card'[s].status = "pending" => held'[s] # 0 \/ trouble' \cap {"crash", "refused"} # {}
                        /\ card'[s].status # "none" => card'[s].number # 0
                        /\ starts'[s].stage # "idle" =>
                             starts'[s].number # 0 /\ starts'[s].number <= card'[s].number
                        /\ starts'[s].stage = "preparing" /\ starts'[s].restart => "restart" \in trouble'
    BY DEF Paused
  <2>2. /\ held[s] # 0 => held[s] = card[s].number /\ card[s].status = "pending"
        /\ card[s].status = "pending" => held[s] # 0 \/ trouble \cap {"crash", "refused"} # {}
        /\ card[s].status # "none" => card[s].number # 0
        /\ starts[s].stage # "idle" => starts[s].number # 0 /\ starts[s].number <= card[s].number
        /\ starts[s].stage = "preparing" /\ starts[s].restart => "restart" \in trouble
    BY DEF CardInv, Paused
  <2>3. CASE card'[s] = card[s] /\ held'[s] = held[s]
    BY <2>2, <2>3
  <2>4. CASE /\ held'[s] = 0
             /\ card[s].status = "pending" \/ card'[s] = card[s]
             /\ card'[s].status # "pending" \/ trouble' \cap {"crash", "refused"} # {}
    BY <2>2, <2>4
  <2>5. QED
    BY <2>3, <2>4
<1>3. FlowsListed(flows')
  <2>1. Within(<<>>, Latest) /\ Ordered(<<>>)
    BY DEF Within, Ordered
  <2>2. QED
    BY <2>1 DEF CardInv, FlowsListed
<1>4. \A s \in Sessions : Latest[s] <= Latest'[s]
  <2>1. Latest' = Latest
    BY DEF Latest
  <2>2. \A s \in Sessions : Latest[s] \in Nat
    BY LatestType DEF CardInv
  <2>3. QED
    BY <2>1, <2>2
<1>5. FlowsListed(flows)'
  BY <1>1, <1>3, <1>4, NewerLatest DEF CardInv
<1>6. (opened + Promised <= MaxFlows)'
  BY RoomKept DEF Preparers
<1>7. Nested(flows, opened)'
  BY DEF Nested
<1>8. QED
  BY <1>1, <1>2, <1>5, <1>6, <1>7 DEF CardInv

LEMMA FlowsCards ==
  ASSUME CardInv, NEW f \in FlowIds,
         Completes(f) \/ ExchangeSucceeds(f) \/ ExchangeFails(f) \/ FlowEnds(f)
  PROVE  CardInv'
<1>1. UNCHANGED <<opened, starts, preparing>> /\ trouble \subseteq trouble'
  BY DEF Completes, ExchangeSucceeds, ExchangeFails, FlowEnds
<1>9. ASSUME NEW g \in FlowIds
      PROVE  \/ flows'[g] = flows[g]
             \/ flows'[g] = [flows[g] EXCEPT !.exchanging = TRUE]
             \/ flows'[g] = [flows[g] EXCEPT !.listed = FALSE]
             \/ flows'[g] = NoFlow
  <2>1. \/ flows' = [flows EXCEPT ![f].exchanging = TRUE]
        \/ flows' = [flows EXCEPT ![f] = IF @.exchanging THEN [@ EXCEPT !.listed = FALSE] ELSE NoFlow]
        \/ flows' = [flows EXCEPT ![f] = NoFlow]
    BY DEF Completes, ExchangeSucceeds, ExchangeFails, FlowEnds
  <2>2. flows \in [FlowIds -> FlowKinds]
    BY DEF CardInv, FlowsListed
  <2>3. QED
    BY <2>1, <2>2
<1>2. /\ flows' \in [FlowIds -> FlowKinds]
      /\ \A g \in FlowIds : flows'[g].bound = flows[g].bound \/ flows'[g].bound = <<>>
  <2>1. \/ flows' = [flows EXCEPT ![f].exchanging = TRUE]
        \/ flows' = [flows EXCEPT ![f] = IF @.exchanging THEN [@ EXCEPT !.listed = FALSE] ELSE NoFlow]
        \/ flows' = [flows EXCEPT ![f] = NoFlow]
    BY DEF Completes, ExchangeSucceeds, ExchangeFails, FlowEnds
  <2>2. flows \in [FlowIds -> FlowKinds]
    BY DEF CardInv, FlowsListed
  <2>3. ASSUME NEW g \in FlowIds
        PROVE  flows'[g] \in FlowKinds /\ (flows'[g].bound = flows[g].bound \/ flows'[g].bound = <<>>)
    <3>1. flows[g] \in FlowKinds
      BY <2>2
    <3>2. \/ flows'[g] = flows[g]
          \/ flows'[g] = [flows[g] EXCEPT !.exchanging = TRUE]
          \/ flows'[g] = [flows[g] EXCEPT !.listed = FALSE]
          \/ flows'[g] = NoFlow
      BY <1>9
    <3>3. CASE flows'[g] = NoFlow
      BY <3>3, NoFlowType
    <3>4. QED
      BY <3>1, <3>2, <3>3 DEF FlowKinds
  <2>4. DOMAIN flows' = FlowIds /\ flows' = [g \in FlowIds |-> flows'[g]]
    BY <2>1, <2>2
  <2>5. QED
    BY <2>3, <2>4
<1>8. Nested(flows', opened)
  <2>1. ToSet(<<>>) = {}
    BY DEF ToSet
  <2>2. ASSUME NEW g \in FlowIds
        PROVE  /\ flows'[g].listed => flows[g].listed
               /\ \/ flows'[g].bound = flows[g].bound /\ flows'[g].from = flows[g].from
                  \/ flows'[g].bound = <<>> /\ flows'[g].from = 0
    <3>1. flows[g] \in FlowKinds
      BY DEF CardInv, FlowsListed
    <3>2. \/ flows'[g] = flows[g]
          \/ flows'[g] = [flows[g] EXCEPT !.exchanging = TRUE]
          \/ flows'[g] = [flows[g] EXCEPT !.listed = FALSE]
          \/ flows'[g] = NoFlow
      BY <1>9
    <3>3. QED
      BY <3>1, <3>2, NoFlowType DEF FlowKinds
  <2>3. QED
    BY <2>1, <2>2 DEF CardInv, Nested
<1>3. card \in [Sessions -> Cards] /\ held \in [Sessions -> 0 .. MaxCards] /\ 0 \in 0 .. MaxCards
  BY SourceAuthAssumption DEF CardInv, CardTypes
<1>4. CASE UNCHANGED <<card, held>>
  BY <1>1, <1>2, <1>8, <1>3, <1>4, CardsAnswered
<1>5. CASE ExchangeSucceeds(f)
  <2> DEFINE answered == Answers(flows[f])
  <2>1. /\ card' = [s \in Sessions |-> IF s \in answered THEN [card[s] EXCEPT !.status = "completed"]
                                       ELSE card[s]]
        /\ held' = [s \in Sessions |-> IF s \in answered THEN 0 ELSE held[s]]
    BY <1>5 DEF ExchangeSucceeds
  <2>2. \A s \in answered : card[s].status = "pending"
    BY DEF Answers
  <2> HIDE DEF answered
  <2>3. ASSUME NEW s \in Sessions
        PROVE  /\ card'[s] \in Cards /\ card'[s].number = card[s].number
               /\ \/ card'[s] = card[s] /\ held'[s] = held[s]
                  \/ held'[s] = 0 /\ card[s].status = "pending" /\ card'[s].status # "pending"
    <3>1. card[s] \in Cards
      BY <1>3
    <3>2. CASE s \in answered
      <4>1. card'[s] = [card[s] EXCEPT !.status = "completed"] /\ held'[s] = 0
        BY <2>1, <3>2
      <4>2. QED
        BY <2>2, <3>1, <3>2, <4>1 DEF Cards
    <3>3. CASE s \notin answered
      BY <2>1, <3>1, <3>3
    <3>4. QED
      BY <3>2, <3>3
  <2>4. card' \in [Sessions -> Cards] /\ held' \in [Sessions -> 0 .. MaxCards]
    <3>1. DOMAIN card' = Sessions /\ card' = [s \in Sessions |-> card'[s]]
      BY <2>1
    <3>2. held' \in [Sessions -> 0 .. MaxCards]
      BY <1>3, <2>1
    <3>3. QED
      BY <2>3, <3>1, <3>2
  <2>5. QED
    BY <1>1, <1>2, <1>8, <2>3, <2>4, CardsAnswered
<1>6. CASE ExchangeFails(f) /\ OwnerFails(flows[f]) /\ "refused" \in trouble'
  <2> DEFINE s == flows[f].bound[1][1]
             n == flows[f].bound[1][2]
  <2>1. /\ card' = IF card[s].number = n /\ card[s].status = "pending"
                   THEN [card EXCEPT ![s].status = "failed"] ELSE card
        /\ held' = [held EXCEPT ![s] = 0]
    BY <1>6 DEF OwnerFails
  <2> HIDE DEF s, n
  <2>2. held' \in [Sessions -> 0 .. MaxCards] /\ \A q \in Sessions : held'[q] = 0 \/ (q # s /\ held'[q] = held[q])
    BY <1>3, <2>1
  <2>3. ASSUME NEW q \in Sessions
        PROVE  /\ card'[q] \in Cards /\ card'[q].number = card[q].number
               /\ \/ card'[q] = card[q]
                  \/ card[q].status = "pending" /\ q = s
    <3>1. card[q] \in Cards
      BY <1>3
    <3>2. \/ card'[q] = card[q]
          \/ q = s /\ card[q].status = "pending" /\ card'[q] = [card[q] EXCEPT !.status = "failed"]
      BY <1>3, <2>1
    <3>3. QED
      BY <3>1, <3>2 DEF Cards
  <2>4. card' \in [Sessions -> Cards]
    <3>1. DOMAIN card' = Sessions /\ card' = [q \in Sessions |-> card'[q]]
      BY <1>3, <2>1
    <3>2. QED
      BY <2>3, <3>1
  <2>5. trouble' \cap {"crash", "refused"} # {}
    BY <1>6
  <2>6. QED
    BY <1>1, <1>2, <1>8, <2>2, <2>3, <2>4, <2>5, CardsAnswered
<1>7. QED
  BY <1>4, <1>5, <1>6 DEF Completes, ExchangeFails, FlowEnds

LEMMA CrashCards ==
  ASSUME CardInv, Crash
  PROVE  CardInv'
<1>1. /\ flows' = [f \in FlowIds |-> NoFlow]
      /\ starts' = [s \in Sessions |-> NoStart] /\ preparing' = None
      /\ held' = [s \in Sessions |-> 0] /\ UNCHANGED <<opened, card>>
      /\ trouble' = trouble \cup {"crash"}
  BY DEF Crash
<1>2. NoStart \in StartCalls /\ NoStart.stage = "idle" /\ 0 \in 0 .. MaxCards
  BY SourceAuthAssumption DEF NoStart, StartCalls
<1> HIDE DEF NoStart
<1>3. CardTypes'
  BY <1>1, <1>2 DEF CardInv, CardTypes
<1>4. \A s \in Sessions : starts'[s].stage = "idle" /\ held'[s] = 0
  BY <1>1, <1>2
<1>5. Paused'
  BY <1>1, <1>4 DEF CardInv, Paused
<1>6. FlowsListed(flows')
  <2> HIDE DEF NoFlow
  <2>1. Within(<<>>, Latest) /\ Ordered(<<>>)
    BY DEF Within, Ordered
  <2>2. flows' \in [FlowIds -> FlowKinds] /\ \A f \in FlowIds : flows'[f].bound = <<>>
    BY <1>1, NoFlowType
  <2>3. QED
    BY <2>1, <2>2 DEF FlowsListed
<1>7. \A s \in Sessions : Latest[s] <= Latest'[s]
  <2>1. ASSUME NEW s \in Sessions
        PROVE  Latest[s] <= Latest'[s]
    <3>1. /\ card[s].number \in Nat /\ starts[s].number \in Nat
          /\ starts[s].stage # "idle" => starts[s].number <= card[s].number
      BY SourceAuthAssumption DEF CardInv, CardTypes, Cards, StartCalls, Paused
    <3>2. /\ Latest[s] = IF starts[s].stage = "idle" THEN card[s].number ELSE starts[s].number
          /\ Latest'[s] = card[s].number
      BY <1>1, <1>4 DEF Latest
    <3>3. QED
      BY <3>1, <3>2
  <2>2. QED
    BY <2>1
<1>8. FlowsListed(flows)'
  BY <1>1, <1>3, <1>6, <1>7, NewerLatest DEF CardInv
<1>9. (opened + Promised <= MaxFlows)'
  BY <1>1, <1>4, RoomKept DEF Preparers
<1>10. Nested(flows, opened)'
  <2> HIDE DEF NoFlow
  <2>1. \A f \in FlowIds : ~flows'[f].listed /\ flows'[f].from = 0
    BY <1>1, NoFlowType
  <2>2. QED
    BY <2>1 DEF Nested
<1>11. QED
  BY <1>3, <1>5, <1>8, <1>9, <1>10 DEF CardInv

LEMMA CardStep == CardInv /\ [Next]_vars => CardInv'
<1>1. SUFFICES ASSUME CardInv, [Next]_vars PROVE CardInv'
  OBVIOUS
<1>2. CASE TokenExpires \/ SignsOut
  <2>1. UNCHANGED signIn /\ trouble \subseteq trouble'
    BY <1>2 DEF TokenExpires, SignsOut
  <2>2. QED
    BY <1>1, <2>1, CardsKept
<1>3. ASSUME NEW s \in Sessions, AsksForToken(s) \/ CooldownEnds(s) \/ Provider(s) \/ AnswerLost(s)
      PROVE  CardInv'
  <2>1. UNCHANGED signIn /\ trouble \subseteq trouble'
    BY <1>3 DEF AsksForToken, CooldownEnds, Provider, ProviderAnswers, TokensArrive, RefusalArrives, AnswerLost
  <2>2. QED
    BY <1>1, <2>1, CardsKept
<1>4. ASSUME NEW s \in Sessions, Pauses(s) \/ Starts(s) \/ Prepared(s)
      PROVE  CardInv'
  BY <1>1, <1>4, PausesKeep, StartsCards, PreparationEndsCards, PreparationFailsCards DEF Prepared
<1>5. ASSUME NEW f \in FlowIds, Completes(f) \/ ExchangeSucceeds(f) \/ ExchangeFails(f) \/ FlowEnds(f)
      PROVE  CardInv'
  BY <1>1, <1>5, FlowsCards
<1>6. CASE UNCHANGED vars
  BY <1>1, <1>6, CardsKept DEF vars
<1>7. QED
  BY <1>1, <1>2, <1>3, <1>4, <1>5, <1>6, CrashCards DEF Next

LEMMA CardInvHolds == Spec => []CardInv
<1>1. Init => CardInv
  <2>1. SUFFICES ASSUME Init PROVE CardInv
    OBVIOUS
  <2>2. /\ flows = [f \in FlowIds |-> NoFlow] /\ opened = 0
        /\ starts = [s \in Sessions |-> NoStart] /\ preparing = None
        /\ card = [s \in Sessions |-> [number |-> 0, status |-> "none"]]
        /\ held = [s \in Sessions |-> 0]
    BY <2>1 DEF Init
  <2>3. NoStart \in StartCalls /\ NoStart.stage = "idle" /\ 0 \in 0 .. MaxCards
    BY SourceAuthAssumption DEF NoStart, StartCalls
  <2>4. NoFlow \in FlowKinds /\ NoFlow.bound = <<>>
    BY NoFlowType
  <2> HIDE DEF NoStart, NoFlow
  <2>5. CardTypes
    BY <2>2, <2>3 DEF CardTypes, Cards
  <2>6. Paused
    BY <2>2, <2>3 DEF Paused
  <2>7. FlowsListed(flows)
    <3>1. Within(<<>>, Latest) /\ Ordered(<<>>)
      BY DEF Within, Ordered
    <3>2. QED
      BY <2>2, <2>4, <3>1 DEF FlowsListed
  <2>8. Promised = 0
    <3>1. {s \in Sessions : starts[s].stage = "preparing"} = {}
      BY <2>2, <2>3
    <3>2. QED
      BY <3>1, FS_EmptySet DEF Promised
  <2>10. Nested(flows, opened)
    <3>1. \A f \in FlowIds : ~flows[f].listed /\ flows[f].from = 0
      BY <2>2, NoFlowType
    <3>2. QED
      BY <3>1 DEF Nested
  <2>9. QED
    BY <2>2, <2>5, <2>6, <2>7, <2>8, <2>10, SourceAuthAssumption DEF CardInv
<1>2. QED
  BY <1>1, CardStep, PTL DEF Spec

-----------------------------------------------------------------------------
(* The bounds of what may go wrong, and who waits for a token. *)
Limited ==
  /\ cooling \in [Sessions -> BOOLEAN]
  /\ trouble \subseteq Mishaps \cup {"raced", "split"}
  /\ mishaps \in 0 .. MaxMishaps /\ expiries \in 0 .. MaxExpiries

LEMMA LimitedStep == Limited /\ [Next]_vars => Limited'
<1>1. SUFFICES ASSUME Limited, [Next]_vars PROVE Limited'
  OBVIOUS
<1>2. \/ UNCHANGED mishaps /\ trouble' \subseteq trouble \cup {"raced"}
      \/ \E kinds \in SUBSET Mishaps :
           /\ mishaps < MaxMishaps /\ mishaps' = mishaps + 1
           /\ trouble' \subseteq trouble \cup kinds \cup {"raced", "split"}
  <2>1. ASSUME NEW kinds, Mishap(kinds), trouble' \subseteq trouble \cup kinds \cup {"raced", "split"}
        PROVE  \E ks \in SUBSET Mishaps :
                 /\ mishaps < MaxMishaps /\ mishaps' = mishaps + 1
                 /\ trouble' \subseteq trouble \cup ks \cup {"raced", "split"}
    BY <2>1 DEF Mishap
  <2>2. ASSUME NEW s \in Sessions, AnswerLost(s)
        PROVE  \E ks \in SUBSET Mishaps :
                 /\ mishaps < MaxMishaps /\ mishaps' = mishaps + 1
                 /\ trouble' \subseteq trouble \cup ks \cup {"raced", "split"}
    BY <2>1, <2>2 DEF AnswerLost
  <2>3. CASE SignsOut \/ Crash
    BY <2>1, <2>3 DEF SignsOut, Crash, Raced
  <2>10. CASE TokenExpires
    BY <2>10 DEF TokenExpires
  <2>4. ASSUME NEW s \in Sessions,
               AsksForToken(s) \/ CooldownEnds(s) \/ Pauses(s) \/ StartWaits(s) \/ StartJoins(s)
               \/ StartPrepares(s) \/ PreparationEnds(s) \/ Provider(s)
        PROVE  UNCHANGED <<mishaps, trouble>>
    BY <2>4 DEF AsksForToken, CooldownEnds, Pauses, StartWaits, StartJoins, StartPrepares, PreparationEnds,
                Provider, ProviderAnswers, TokensArrive, RefusalArrives
  <2>5. ASSUME NEW s \in Sessions, StartAlone(s) \/ PreparationFails(s)
        PROVE  \E ks \in SUBSET Mishaps :
                 /\ mishaps < MaxMishaps /\ mishaps' = mishaps + 1
                 /\ trouble' \subseteq trouble \cup ks \cup {"raced", "split"}
    BY <2>1, <2>5 DEF StartAlone, PreparationFails
  <2>6. ASSUME NEW f \in FlowIds, ExchangeFails(f) \/ FlowEnds(f)
        PROVE  \E ks \in SUBSET Mishaps :
                 /\ mishaps < MaxMishaps /\ mishaps' = mishaps + 1
                 /\ trouble' \subseteq trouble \cup ks \cup {"raced", "split"}
    BY <2>1, <2>6 DEF ExchangeFails, FlowEnds
  <2>7. ASSUME NEW f \in FlowIds, Completes(f) \/ ExchangeSucceeds(f)
        PROVE  UNCHANGED mishaps /\ trouble' \subseteq trouble \cup {"raced"}
    BY <2>7 DEF Completes, ExchangeSucceeds, Raced
  <2>8. CASE UNCHANGED vars
    BY <2>8 DEF vars
  <2>9. QED
    BY <1>1, <2>2, <2>3, <2>4, <2>5, <2>6, <2>7, <2>8, <2>10 DEF Next, Starts, Prepared
<1>3. trouble' \subseteq Mishaps \cup {"raced", "split"} /\ mishaps' \in 0 .. MaxMishaps
  <2>1. trouble \subseteq Mishaps \cup {"raced", "split"} /\ mishaps \in 0 .. MaxMishaps
    BY <1>1 DEF Limited
  <2>2. CASE UNCHANGED mishaps /\ trouble' \subseteq trouble \cup {"raced"}
    BY <2>1, <2>2
  <2>3. ASSUME NEW kinds \in SUBSET Mishaps, mishaps < MaxMishaps, mishaps' = mishaps + 1,
               trouble' \subseteq trouble \cup kinds \cup {"raced", "split"}
        PROVE  trouble' \subseteq Mishaps \cup {"raced", "split"} /\ mishaps' \in 0 .. MaxMishaps
    <3>1. trouble' \subseteq Mishaps \cup {"raced", "split"}
      BY <2>1, <2>3, Zenon
    <3>2. mishaps' \in 0 .. MaxMishaps
      BY <2>1, <2>3, SourceAuthAssumption
    <3>3. QED
      BY <3>1, <3>2
  <2>4. QED
    BY <1>2, <2>2, <2>3
<1>4. cooling' \in [Sessions -> BOOLEAN] /\ expiries' \in 0 .. MaxExpiries
  <2>1. UNCHANGED expiries \/ (expiries < MaxExpiries /\ expiries' = expiries + 1)
    BY <1>1 DEF Next, Provider, ProviderAnswers, TokensArrive, RefusalArrives, AnswerLost, TokenExpires,
       SignsOut, Crash, AsksForToken, CooldownEnds, Pauses, Starts, StartWaits, StartJoins, StartPrepares,
       StartAlone, Prepares, Prepared, PreparationEnds, PreparationFails, Completes, ExchangeSucceeds,
       ExchangeFails, FlowEnds, token, vars
  <2>2. \/ cooling' = cooling
        \/ \E who : cooling' = [s \in Sessions |-> cooling[s] \/ s \in who]
        \/ \E s \in Sessions : cooling' = [q \in Sessions |-> cooling[q] /\ awaits[q] # s]
        \/ cooling' = [s \in Sessions |-> FALSE]
        \/ \E s \in Sessions : cooling' = [cooling EXCEPT ![s] = FALSE]
    BY <1>1 DEF Next, Provider, ProviderAnswers, TokensArrive, RefusalArrives, RefreshFails, AnswerLost,
       TokenExpires, SignsOut, Crash, AsksForToken, StartsRefresh, HasNothing, Requests, JoinsRefresh,
       CooldownEnds, Pauses, Starts, StartWaits, StartJoins, StartPrepares, StartAlone, Prepares, Prepared,
       PreparationEnds, PreparationFails, Completes, ExchangeSucceeds, ExchangeFails, FlowEnds, token, vars
  <2>3. expiries' \in 0 .. MaxExpiries
    BY <1>1, <2>1, SourceAuthAssumption DEF Limited
  <2>4. cooling' \in [Sessions -> BOOLEAN]
    BY <1>1, <2>2, Zenon DEF Limited
  <2>5. QED
    BY <2>3, <2>4
<1>5. QED
  BY <1>3, <1>4 DEF Limited

(* All variables keep their types: among them, no card, flow or start goes  *)
(* beyond the numbers there are.                                            *)
THEOREM TypeCorrect == Spec => []TypeOK
<1>1. Init => Limited
  BY SourceAuthAssumption DEF Init, Limited
<1>2. CardInv => opened \in 0 .. MaxFlows
  BY PreparersFinite, SourceAuthAssumption DEF CardInv, CardTypes
<1>3. TokenInv /\ CardInv /\ Limited => TypeOK
  BY <1>2, Zenon DEF TokenInv, TokenTypes, Credentials, Flights, Providers, CardInv, CardTypes,
     Cards, StartCalls, FlowsListed, FlowKinds, Limited, TypeOK
<1>4. QED
  BY <1>1, <1>3, LimitedStep, TokenInvHolds, CardInvHolds, PTL DEF Spec

-----------------------------------------------------------------------------
(* The card a flow answers for a session is the last of its cards listed.   *)
LEMMA BoundCardLast ==
  ASSUME CardInv, NEW f \in FlowIds, NEW s \in Sessions, NEW n \in Nat,
         <<s, n>> \in ToSet(flows[f].bound), n = card[s].number, BoundCard(flows[f], s) # n
  PROVE  /\ "restart" \in trouble
         /\ \E k \in 1 .. n - 1 : <<s, k>> \in ToSet(flows[f].bound)
<1> DEFINE b == flows[f].bound
           own == {i \in DOMAIN b : b[i][1] = s}
           m == Max(own)
<1>1. /\ b \in Seq(CardIds) /\ Within(b, Latest)
      /\ "restart" \notin trouble => Ordered(b)
  BY DEF CardInv, FlowsListed, FlowKinds
<1>2. BoundCard(flows[f], s) = IF own = {} THEN 0 ELSE b[m][2]
  BY DEF BoundCard
<1>3. Latest[s] <= n
  <2>1. /\ card[s].number \in Nat /\ starts[s].number \in Nat
        /\ starts[s].stage # "idle" => starts[s].number <= card[s].number
    BY SourceAuthAssumption DEF CardInv, CardTypes, Cards, StartCalls, Paused
  <2>2. QED
    BY <2>1 DEF Latest
<1>4. <<s, n>> \in ToSet(b)
  OBVIOUS
<1> HIDE DEF b
<1>5. PICK i \in DOMAIN b : b[i] = <<s, n>>
  BY <1>4 DEF ToSet
<1>6. i \in own
  BY <1>5
<1>7. Len(b) \in Nat /\ DOMAIN b = 1 .. Len(b)
  BY <1>1, LenProperties
<1>8. own \subseteq 0 .. Len(b) /\ own # {}
  BY <1>6, <1>7
<1>9. m \in own /\ \A j \in own : j <= m
  <2> HIDE DEF own
  <2>1. QED
    BY <1>7, <1>8, MaxFacts
<1>10. b[m][1] = s /\ m \in DOMAIN b /\ m \in Nat /\ i \in Nat /\ i <= m
  BY <1>6, <1>7, <1>9
<1>11. b[m][2] # n
  BY <1>2, <1>8
<1> HIDE DEF own, m
<1>12. b[m] \in CardIds
  BY <1>1, <1>10, ElementOfSeq
<1>13. b[m] = <<s, b[m][2]>> /\ b[m][2] \in Nat /\ b[m][2] # 0
  BY <1>10, <1>12, SourceAuthAssumption DEF CardIds
<1>14. b[m][2] <= n
  <2>1. b[m][2] <= Latest[s] /\ Latest[s] \in Nat
    BY <1>1, <1>10, LatestType DEF Within, CardInv
  <2>2. QED
    BY <1>3, <1>13, <2>1
<1>15. b[m][2] \in 1 .. n - 1
  BY <1>11, <1>13, <1>14
<1>16. <<s, b[m][2]>> \in ToSet(b)
  BY <1>10, <1>13 DEF ToSet
<1>17. ~Ordered(b)
  <2>1. i < m
    <3>1. b[i][2] = n
      BY <1>5
    <3>2. i # m
      BY <1>11, <3>1
    <3>3. QED
      BY <1>10, <3>2
  <2>2. b[i][1] = b[m][1] /\ ~(b[i][2] <= b[m][2])
    BY <1>5, <1>10, <1>11, <1>13, <1>14
  <2>3. QED
    BY <1>10, <2>1, <2>2 DEF Ordered
<1>18. QED
  BY <1>1, <1>15, <1>16, <1>17 DEF b

LEMMA AnswerStep ==
  ASSUME TokenInv, CardInv, [Next]_vars, SignsIn,
         NEW s \in Sessions, card'[s].status = "pending"
  PROVE  Forgotten(s)
<1>1. PICK f \in FlowIds : ExchangeSucceeds(f)
  <2>1. ASSUME UNCHANGED provider
        PROVE  FALSE
    BY <2>1 DEF SignsIn
  <2>2. ASSUME NEW q \in Sessions, ProviderAnswers(q)
        PROVE  FALSE
    <3>1. \/ \E g, n : provider' = [provider EXCEPT !.current[g] = n]
          \/ provider' = [provider EXCEPT !.reused = TRUE]
      BY <2>2 DEF ProviderAnswers
    <3>2. provider'.grants = provider.grants
      BY <3>1 DEF TokenInv, TokenTypes, Providers
    <3>3. QED
      BY <3>2 DEF SignsIn
  <2>3. ~(TokenExpires \/ SignsOut \/ Crash)
    BY <2>1 DEF TokenExpires, SignsOut, Crash
  <2>8. ASSUME NEW q \in Sessions, TokensArrive(q) \/ RefusalArrives(q) \/ AnswerLost(q)
        PROVE  FALSE
    BY <2>1, <2>8 DEF TokensArrive, RefusalArrives, AnswerLost
  <2>4. ASSUME NEW q \in Sessions,
               AsksForToken(q) \/ CooldownEnds(q) \/ Pauses(q) \/ Starts(q) \/ Prepared(q)
        PROVE  FALSE
    BY <2>1, <2>4 DEF AsksForToken, CooldownEnds, Pauses, Starts, StartWaits, StartJoins, StartPrepares,
       StartAlone, Prepares, Prepared, PreparationEnds, PreparationFails, token
  <2>5. ASSUME NEW f \in FlowIds, Completes(f) \/ ExchangeFails(f) \/ FlowEnds(f)
        PROVE  FALSE
    BY <2>1, <2>5 DEF Completes, ExchangeFails, FlowEnds, token
  <2>6. ~UNCHANGED vars
    BY <2>1 DEF vars, token
  <2>7. QED
    BY <2>2, <2>3, <2>4, <2>5, <2>6, <2>8 DEF Next, Provider
<1> DEFINE answered == Answers(flows[f])
<1>2. /\ flows[f].exchanging
      /\ flows' = [flows EXCEPT ![f] = NoFlow]
      /\ card' = [q \in Sessions |-> IF q \in answered THEN [card[q] EXCEPT !.status = "completed"]
                                     ELSE card[q]]
  BY <1>1 DEF ExchangeSucceeds
<1>3. flows \in [FlowIds -> FlowKinds] /\ card[s] \in Cards /\ card[s].number \in Nat
  BY SourceAuthAssumption DEF CardInv, CardTypes, Cards, FlowsListed
<1>4. ~flows'[f].exchanging
  <2>1. flows'[f] = NoFlow
    BY <1>2, <1>3
  <2>2. QED
    BY <2>1, NoFlowType
<1>5. s \notin answered /\ card[s].status = "pending"
  <2> HIDE DEF answered
  <2>1. ASSUME s \in answered
        PROVE  FALSE
    <3>1. card'[s] = [card[s] EXCEPT !.status = "completed"]
      BY <1>2, <2>1
    <3>2. card'[s].status = "completed"
      BY <1>3, <3>1 DEF Cards
    <3>3. QED
      BY <3>2
  <2>2. QED
    BY <1>2, <2>1
<1>6. AnsweredCard(flows[f], s) # card[s].number
  BY <1>5 DEF Answers
<1>7. held[s] = 0 /\ BoundCard(flows[f], s) # card[s].number
  BY <1>6 DEF AnsweredCard, CardInv, Paused
<1>8. trouble \cap {"crash", "refused"} # {}
  BY <1>5, <1>7 DEF CardInv, Paused
<1>11. ASSUME <<s, card[s].number>> \notin ToSet(flows[f].bound)
       PROVE  \A g \in FlowIds \cap {f, flows[f].from} : <<s, card[s].number>> \notin ToSet(flows[g].bound)
  <2>1. ASSUME NEW g \in FlowIds, g = flows[f].from
        PROVE  ToSet(flows[g].bound) \subseteq ToSet(flows[f].bound)
    <3>1. flows[f].from # 0
      BY <2>1 DEF FlowIds
    <3>2. QED
      BY <2>1, <3>1 DEF CardInv, Nested
  <2>2. QED
    BY <1>11, <2>1
<1>9. \/ <<s, card[s].number>> \notin ToSet(flows[f].bound)
      \/ "restart" \in trouble
           /\ \E n \in 1 .. card[s].number - 1 : <<s, n>> \in ToSet(flows[f].bound)
  BY <1>3, <1>7, BoundCardLast
<1>10. QED
  BY <1>2, <1>4, <1>7, <1>8, <1>9, <1>11 DEF Forgotten

(* A sign-in answers every session paused on the source, but for a card     *)
(* that its session forgot and that neither its flow nor the one it         *)
(* replaced lists, or lists before an older one of the session which a      *)
(* start over took along (completeAuthRequestsForSource, boundRequests).    *)
THEOREM SignInsAnswer == Spec => SignInAnswers
<1>1. TokenInv /\ CardInv /\ [Next]_vars =>
        [SignsIn => \A s \in Sessions : card'[s].status = "pending" => Forgotten(s)]_vars
  BY AnswerStep
<1>2. QED
  BY <1>1, TokenInvHolds, CardInvHolds, PTL DEF Spec, SignInAnswers
=============================================================================

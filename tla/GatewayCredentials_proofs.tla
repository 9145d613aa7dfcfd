--------------------- MODULE GatewayCredentials_proofs ---------------------
(***************************************************************************)
(* Proofs about a gateway's credentials (GatewayCredentials), for any      *)
(* requests, issuers, authorities, resource groups and lifetimes:          *)
(*   - who is let in by a token, and who is turned away with a valid one;  *)
(*   - a token that is sent to an upstream has not expired;                *)
(*   - a call is sent with the token of its own upstream, or with none.    *)
(* Requests and calls share no variable that they change: each has an      *)
(* invariant of its own, which the steps of the other leave alone.         *)
(***************************************************************************)
EXTENDS GatewayCredentials, WellFoundedInduction, TLAPS

----------------------------------------------------------------------------
(* Requests. *)

\* A client reads the uri of some issuer of its authority.
ClientsInv ==
    \A a \in Authorities : jwkClients[a] # None =>
        \E j \in Issuers : authority[j] = a /\ jwkClients[a] = UriOf(j)

\* Where a request stands, and what it owes its outcome to.
Synchronous(i) == AllowsAnonymous(i) \/ AllowsApiKey(i)
ByToken(i) == ~Synchronous(i) /\ MayVerify(i)
Outcome(r) ==
    LET i == request[r].input
        at == request[r].at
    IN  /\ at = "discovering" => ByToken(i) /\ configuredUri[i.authorization.iss] = None
        /\ at = "verifying" =>
              ByToken(i) /\ \E j \in SameAuthority(i.authorization.iss) : request[r].client = UriOf(j)
        /\ at = "accepted" /\ ~Synchronous(i) =>
              MayVerify(i) /\ \E j \in SameAuthority(i.authorization.iss) : Verifies(i, UriOf(j))
        /\ at = "refused" /\ MayVerify(i) =>
              r \in disturbed \/ \E j \in SameAuthority(i.authorization.iss) : ~Verifies(i, UriOf(j))
AuthInv == AuthTypeOK /\ ClientsInv /\ \A r \in Requests : Outcome(r)

\* A step of one request that leaves the others alone, and its own input.
LEMMA MoveRequest ==
  ASSUME AuthInv, NEW r \in Requests,
         NEW at \in {"received", "discovering", "verifying", "accepted", "refused"},
         NEW client \in Uris \cup {None}, Move(r, at, client)
  PROVE  /\ request' \in [Requests -> [at : {"received", "discovering", "verifying", "accepted", "refused"},
                                       input : Inputs, client : Uris \cup {None}]]
         /\ request'[r].at = at /\ request'[r].client = client /\ request'[r].input = request[r].input
         /\ \A s \in Requests : s # r => request'[s] = request[s]
<1>1. /\ request \in [Requests -> [at : {"received", "discovering", "verifying", "accepted", "refused"},
                                   input : Inputs, client : Uris \cup {None}]]
  BY DEF AuthInv, AuthTypeOK
<1>2. At(at, request[r].input, client) \in [at : {"received", "discovering", "verifying", "accepted", "refused"},
                                            input : Inputs, client : Uris \cup {None}]
  BY <1>1 DEF At
<1>3. QED
  BY <1>1, <1>2 DEF Move, At

\* The outcome of the other requests.
LEMMA OthersKept ==
  ASSUME NEW s \in Requests, Outcome(s), request'[s] = request[s], s \in disturbed => s \in disturbed'
  PROVE  Outcome(s)'
BY DEF Outcome

\* The authority and the uris of an issuer.
LEMMA IssuerUris ==
  ASSUME NEW j \in Issuers
  PROVE  /\ authority[j] \in Authorities /\ configuredUri[j] \in Uris \cup {None}
         /\ discovered[authority[j]] \in Uris \cup {None} /\ UriOf(j) \in Uris \cup {None}
         /\ j \in SameAuthority(j)
BY IssuersAssumption DEF UriOf, SameAuthority

\* No request has come: nothing is decided.
LEMMA AuthInit ==
  ASSUME InitAuthentication
  PROVE  AuthInv
<1>1. PICK input \in [Requests -> Inputs] : request = [r \in Requests |-> At("received", input[r], None)]
  BY DEF InitAuthentication
<1>2. AuthTypeOK
  BY <1>1 DEF InitAuthentication, AuthTypeOK, At
<1>3. \A r \in Requests : request[r].at = "received"
  BY <1>1 DEF At
<1>4. QED
  BY <1>2, <1>3 DEF AuthInv, ClientsInv, Outcome, InitAuthentication

\* Every step of the hook keeps the invariant.
LEMMA AuthStep ==
  ASSUME AuthInv, NEW r \in Requests, AuthenticationStep(r)
  PROVE  AuthInv'
<1> DEFINE i == request[r].input
           iss == i.authorization.iss
<1>1. /\ Outcome(r) /\ \A s \in Requests : Outcome(s)
      /\ jwkClients \in [Authorities -> Uris \cup {None}] /\ disturbed \subseteq Requests
      /\ request[r].client \in Uris \cup {None}
  BY DEF AuthInv, AuthTypeOK
<1>2. MayVerify(i) => /\ iss \in Issuers /\ authority[iss] \in Authorities /\ iss \in SameAuthority(iss)
                      /\ configuredUri[iss] \in Uris \cup {None} /\ discovered[authority[iss]] \in Uris \cup {None}
  BY IssuerUris DEF MayVerify
<1>3. AuthorityOf(r) = authority[iss] /\ ClientOf(r) = jwkClients[authority[iss]]
  BY DEF AuthorityOf, ClientOf
<1> HIDE DEF i, iss
<1>4. ASSUME NEW at \in {"received", "discovering", "verifying", "accepted", "refused"},
             NEW client \in Uris \cup {None}, Move(r, at, client), UNCHANGED jwkClients,
             disturbed' = disturbed \/ disturbed' = disturbed \cup {r}, Outcome(r)'
      PROVE  AuthInv'
  <2>1. AuthTypeOK'
    BY <1>1, <1>4, MoveRequest DEF AuthTypeOK
  <2>2. ClientsInv'
    BY <1>4 DEF AuthInv, ClientsInv, UriOf
  <2>3. \A s \in Requests : Outcome(s)'
    BY <1>1, <1>4, MoveRequest, OthersKept
  <2>4. QED
    BY <2>1, <2>2, <2>3 DEF AuthInv
<1>5. ASSUME NEW uri \in Uris, Move(r, "verifying", uri), ByToken(i), uri = UriOf(iss),
             jwkClients' = [jwkClients EXCEPT ![authority[iss]] = uri], UNCHANGED disturbed
      PROVE  AuthInv'
  <2>1. iss \in Issuers /\ authority[iss] \in Authorities /\ iss \in SameAuthority(iss)
    BY <1>2, <1>5 DEF ByToken
  <2>2. AuthTypeOK'
    BY <1>1, <1>5, <2>1, MoveRequest DEF AuthTypeOK
  <2>3. ClientsInv'
    BY <1>1, <1>5, <2>1 DEF AuthInv, ClientsInv, UriOf
  <2>4. request'[r].at = "verifying" /\ request'[r].client = uri /\ request'[r].input = i
    BY <1>5, MoveRequest DEF i
  <2>5. Outcome(r)'
    BY <1>5, <2>1, <2>4 DEF Outcome, UriOf, SameAuthority, ByToken, Synchronous, iss
  <2>6. \A s \in Requests : Outcome(s)'
    BY <1>1, <1>5, <2>5, MoveRequest, OthersKept
  <2>7. QED
    BY <2>2, <2>3, <2>6 DEF AuthInv
<1>6. CASE Accept(r)
  <2>1. Move(r, "accepted", None) /\ Synchronous(i) /\ UNCHANGED <<jwkClients, disturbed>>
    BY <1>6 DEF Accept, Synchronous, i
  <2>2. request'[r].at = "accepted" /\ request'[r].input = i
    BY <2>1, MoveRequest DEF i
  <2>3. Outcome(r)'
    BY <2>1, <2>2 DEF Outcome
  <2>4. QED
    BY <1>4, <2>1, <2>3
<1>7. CASE Refuse(r)
  <2>1. Move(r, "refused", None) /\ ~MayVerify(i) /\ UNCHANGED <<jwkClients, disturbed>>
    BY <1>7 DEF Refuse, i
  <2>2. request'[r].at = "refused" /\ request'[r].input = i
    BY <2>1, MoveRequest DEF i
  <2>3. Outcome(r)'
    BY <2>1, <2>2 DEF Outcome
  <2>4. QED
    BY <1>4, <2>1, <2>3
<1>8. CASE GetJwkClient(r)
  <2>1. ByToken(i) /\ UNCHANGED disturbed
    BY <1>8 DEF GetJwkClient, ByToken, Synchronous, i
  <2>2. CASE ClientOf(r) # None /\ Move(r, "verifying", ClientOf(r)) /\ UNCHANGED jwkClients
    <3>1. ClientOf(r) \in Uris
      BY <1>1, <1>2, <1>3, <2>1, <2>2 DEF ByToken
    <3>2. \E j \in SameAuthority(iss) : ClientOf(r) = UriOf(j)
      BY <1>2, <1>3, <2>1, <2>2 DEF AuthInv, ClientsInv, ByToken, SameAuthority
    <3>3. PICK client \in Uris : client = ClientOf(r)
      BY <3>1
    <3>4. request'[r].at = "verifying" /\ request'[r].input = i /\ request'[r].client = client
      BY <2>2, <3>3, MoveRequest DEF i
    <3>5. Outcome(r)'
      BY <2>1, <3>2, <3>3, <3>4 DEF Outcome, UriOf, SameAuthority, ByToken, Synchronous, iss
    <3>6. QED
      BY <1>4, <2>1, <2>2, <3>3, <3>5
  <2>3. CASE ClientOf(r) = None /\ configuredUri[iss] = None /\ Move(r, "discovering", None) /\ UNCHANGED jwkClients
    <3>1. request'[r].at = "discovering" /\ request'[r].input = i
      BY <2>3, MoveRequest DEF i
    <3>2. Outcome(r)'
      BY <2>1, <2>3, <3>1 DEF Outcome, ByToken, Synchronous, iss
    <3>3. QED
      BY <1>4, <2>1, <2>3, <3>2
  <2>4. CASE /\ configuredUri[iss] # None /\ Move(r, "verifying", configuredUri[iss])
             /\ jwkClients' = [jwkClients EXCEPT ![authority[iss]] = configuredUri[iss]]
    <3>1. PICK uri \in Uris : uri = configuredUri[iss]
      BY <1>2, <2>1, <2>4 DEF ByToken
    <3>2. uri = UriOf(iss)
      BY <2>4, <3>1 DEF UriOf
    <3>3. QED
      BY <1>5, <2>1, <2>4, <3>1, <3>2
  <2>5. QED
    BY <1>3, <1>8, <2>2, <2>3, <2>4 DEF GetJwkClient, i, iss
<1>9. CASE Discover(r)
  <2>1. /\ ByToken(i) /\ configuredUri[iss] = None /\ discovered[authority[iss]] # None
        /\ Move(r, "verifying", discovered[authority[iss]])
        /\ jwkClients' = [jwkClients EXCEPT ![authority[iss]] = discovered[authority[iss]]]
        /\ UNCHANGED disturbed
    BY <1>1, <1>3, <1>9 DEF Discover, Outcome, i, iss
  <2>2. PICK uri \in Uris : uri = discovered[authority[iss]]
    BY <1>2, <2>1 DEF ByToken
  <2>3. uri = UriOf(iss)
    BY <2>1, <2>2 DEF UriOf
  <2>4. QED
    BY <1>5, <2>1, <2>2, <2>3
<1>10. ASSUME Move(r, "refused", request[r].client) \/ Move(r, "refused", None), disturbed' = disturbed \cup {r},
              UNCHANGED jwkClients
       PROVE  AuthInv'
  <2>1. PICK client \in Uris \cup {None} : Move(r, "refused", client)
    BY <1>1, <1>10
  <2>2. request'[r].at = "refused" /\ r \in disturbed'
    BY <1>10, <2>1, MoveRequest
  <2>3. Outcome(r)'
    BY <2>2 DEF Outcome
  <2>4. QED
    BY <1>4, <1>10, <2>1, <2>3
<1>11. CASE DiscoveryFails(r)
  BY <1>10, <1>11 DEF DiscoveryFails
<1>12. CASE Verify(r)
  <2>1. PICK client \in Uris \cup {None} : client = request[r].client
    BY <1>1
  <2>2. ByToken(i) /\ \E j \in SameAuthority(iss) : client = UriOf(j)
    BY <1>1, <1>12, <2>1 DEF Verify, Outcome, i, iss
  <2>3. CASE Move(r, "refused", None) /\ disturbed' = disturbed \cup {r}
    BY <1>10, <1>12, <2>3 DEF Verify
  <2>4. CASE Verifies(i, client) /\ Move(r, "accepted", client) /\ UNCHANGED disturbed
    <3>1. request'[r].at = "accepted" /\ request'[r].input = i
      BY <2>4, MoveRequest DEF i
    <3>2. Outcome(r)'
      BY <2>2, <2>4, <3>1 DEF Outcome, UriOf, SameAuthority, ByToken, iss
    <3>3. QED
      BY <1>4, <1>12, <2>4, <3>2 DEF Verify
  <2>5. CASE ~Verifies(i, client) /\ Move(r, "refused", client) /\ UNCHANGED disturbed
    <3>1. request'[r].at = "refused" /\ request'[r].input = i
      BY <2>5, MoveRequest DEF i
    <3>2. Outcome(r)'
      BY <2>2, <2>5, <3>1 DEF Outcome, UriOf, SameAuthority, ByToken, iss
    <3>3. QED
      BY <1>4, <1>12, <2>5, <3>2 DEF Verify
  <2>6. QED
    BY <1>12, <2>1, <2>3, <2>4, <2>5 DEF Verify, i
<1>13. QED
  BY <1>6, <1>7, <1>8, <1>9, <1>11, <1>12 DEF AuthenticationStep

\* What upstreams, executions and updates of the schema do leaves the requests where they are.
LEMMA AuthUnchanged ==
  ASSUME AuthInv, UNCHANGED authVars
  PROVE  AuthInv'
BY DEF authVars, AuthInv, AuthTypeOK, ClientsInv, Outcome, UriOf

\* The invariant of the requests, in the whole system.
LEMMA AuthInvariant == Spec => []AuthInv
<1>1. Init => AuthInv
  BY AuthInit DEF Init
<1>2. AuthInv /\ [Next]_vars => AuthInv'
  <2>1. SUFFICES ASSUME AuthInv, [Next]_vars
                 PROVE  AuthInv'
    OBVIOUS
  <2>2. (\E r \in Requests : AuthenticationStep(r)) \/ UNCHANGED authVars
    BY <2>1 DEF Next, Step, Execute, CallUpstream, UpdateSchema, CreateGatewaySchema, vars
  <2>3. QED
    BY <2>1, <2>2, AuthStep, AuthUnchanged
<1>3. QED
  BY <1>1, <1>2, PTL DEF Spec

\* A request that no synchronous strategy lets in is accepted only with a token that was
\* verified with a key of the authority of its issuer (jwt.ts, get-secret.ts).
THEOREM VerifiedByAuthorityHolds == Spec => []VerifiedByAuthority
<1>1. AuthInv => VerifiedByAuthority
  BY DEF AuthInv, VerifiedByAuthority, Outcome, Synchronous, Verifies
<1>2. QED
  BY <1>1, AuthInvariant, PTL

\* A request with a valid token is refused only when its own lookup of the key failed
\* (get-secret.ts): what others met leaves nothing behind.
THEOREM RefusedOnlyOnFailureHolds == Spec => []RefusedOnlyOnFailure
<1>1. AuthInv => RefusedOnlyOnFailure
  BY DEF AuthInv, RefusedOnlyOnFailure, Outcome
<1>2. QED
  BY <1>1, AuthInvariant, PTL

----------------------------------------------------------------------------
(* Tokens for upstreams.  The cached end of a token is reckoned from its   *)
(* arrival, which may be MaxDelay after the authority granted it; what     *)
(* makes up for the delay is the margin, at least as long.                 *)

Fits(token) == token.lifetime \in Lifetimes /\ token.grantedAt \in Nat
AliveAt(token, now) ==
    now \in Nat /\ (now <= token.grantedAt + token.lifetime \/ token.lifetime \in Endless)
Whole(m) == m = [at |-> m.at, group |-> m.group, headers |-> m.headers, token |-> m.token, sentAt |-> m.sentAt]

\* A kept token is not kept beyond its life; the exceptions have no end.
EntryFits(e) ==
    /\ Fits(e.token) /\ e.until \in Int
    /\ e.token.lifetime \notin Endless => e.until # 0 /\ e.until <= e.token.grantedAt + e.token.lifetime

\* A call, at a time: an answer on its way is recent, and a sent token was alive.
CallFits(m, now) ==
    /\ Whole(m)
    /\ m.at = "granted" => Fits(m.token) /\ now <= m.token.grantedAt + MaxDelay
    /\ m.at = "sent" /\ m.token # Absent => Fits(m.token) /\ AliveAt(m.token, m.sentAt)

TokenInv ==
    /\ clock \in Nat /\ clock > Margin
    /\ call = [c \in Calls |-> call[c]]
    /\ \A e \in tokens : EntryFits(e)
    /\ \A c \in Calls : CallFits(call[c], clock)

\* A call that goes on to a fitting state, while the clock stands.
LEMMA CallMoves ==
  ASSUME TokenInv, NEW c \in Calls, NEW m, CallFits(m, clock), call' = [call EXCEPT ![c] = m],
         clock' = clock, \A e \in tokens' : EntryFits(e)
  PROVE  TokenInv'
<1>1. /\ clock \in Nat /\ clock > Margin /\ call = [d \in Calls |-> call[d]]
      /\ \A d \in Calls : CallFits(call[d], clock)
  BY DEF TokenInv
<1>2. call' = [d \in Calls |-> call'[d]] /\ call'[c] = m /\ \A d \in Calls : d # c => call'[d] = call[d]
  BY <1>1
<1>3. PICK now : now = clock
  OBVIOUS
<1>4. \A d \in Calls : CallFits(call'[d], now)
  BY <1>1, <1>2, <1>3
<1>5. \A d \in Calls : CallFits(call[d], clock)'
  BY <1>3, <1>4 DEF CallFits, Whole
<1>6. QED
  BY <1>1, <1>2, <1>5 DEF TokenInv, EntryFits, Fits

\* The record of a call that is sent.
LEMMA SentRecord ==
  ASSUME NEW c \in Calls, NEW headers, NEW token, NEW group, Whole(call[c])
  PROVE  LET h == IF token = Absent THEN headers ELSE SetHeader(headers, "Authorization", "token")
         IN  /\ Sent(headers, token, c) =
                  [at |-> "sent", group |-> call[c].group, headers |-> h, token |-> token, sentAt |-> clock]
             /\ [Sent(headers, token, c) EXCEPT !.group = group] =
                  [at |-> "sent", group |-> group, headers |-> h, token |-> token, sentAt |-> clock]
<1>2. PICK h : h = IF token = Absent THEN headers ELSE SetHeader(headers, "Authorization", "token")
  OBVIOUS
<1>3. PICK m : m = call[c]
  OBVIOUS
<1>4. PICK at, g, h0, t0, s0 : m = [at |-> at, group |-> g, headers |-> h0, token |-> t0, sentAt |-> s0]
  BY <1>3 DEF Whole
<1>5. PICK m1 : m1 = [m EXCEPT !.at = "sent"]
  OBVIOUS
<1>6. PICK m2 : m2 = [m1 EXCEPT !.sentAt = clock]
  OBVIOUS
<1>7. PICK m3 : m3 = [m2 EXCEPT !.token = token]
  OBVIOUS
<1>8. PICK m4 : m4 = [m3 EXCEPT !.headers = h]
  OBVIOUS
<1>9. Sent(headers, token, c) = m4
  BY <1>2, <1>3, <1>5, <1>6, <1>7, <1>8, Zenon DEF Sent
<1>10. Sent(headers, token, c) = [at |-> "sent", group |-> g, headers |-> h, token |-> token, sentAt |-> clock]
  <2>1. m1 = [at |-> "sent", group |-> g, headers |-> h0, token |-> t0, sentAt |-> s0]
    BY <1>4, <1>5
  <2>2. m2 = [at |-> "sent", group |-> g, headers |-> h0, token |-> t0, sentAt |-> clock]
    BY <2>1, <1>6
  <2>3. m3 = [at |-> "sent", group |-> g, headers |-> h0, token |-> token, sentAt |-> clock]
    BY <2>2, <1>7
  <2>4. m4 = [at |-> "sent", group |-> g, headers |-> h, token |-> token, sentAt |-> clock]
    BY <2>3, <1>8
  <2>5. QED
    BY <1>9, <2>4
<1>11. [Sent(headers, token, c) EXCEPT !.group = group] =
        [at |-> "sent", group |-> group, headers |-> h, token |-> token, sentAt |-> clock]
  BY <1>10
<1>12. g = call[c].group
  BY <1>3, <1>4
<1>13. QED
  BY <1>2, <1>10, <1>11, <1>12

\* A call that is sent with a token that is alive, or with none.
LEMMA SentFits ==
  ASSUME TokenInv, NEW c \in Calls, NEW headers, NEW token, NEW group,
         token # Absent => Fits(token) /\ AliveAt(token, clock)
  PROVE  CallFits(Sent(headers, token, c), clock)
         /\ CallFits([Sent(headers, token, c) EXCEPT !.group = group], clock)
<1>1. Whole(call[c])
  BY DEF TokenInv, CallFits
<1>2. PICK h : h = IF token = Absent THEN headers ELSE SetHeader(headers, "Authorization", "token")
  OBVIOUS
<1>3. PICK g : g = call[c].group
  OBVIOUS
<1>4. Sent(headers, token, c) = [at |-> "sent", group |-> g, headers |-> h, token |-> token, sentAt |-> clock]
  BY <1>1, <1>2, <1>3, SentRecord
<1>5. [Sent(headers, token, c) EXCEPT !.group = group] =
        [at |-> "sent", group |-> group, headers |-> h, token |-> token, sentAt |-> clock]
  BY <1>1, <1>2, SentRecord
<1>6. QED
  BY <1>4, <1>5 DEF CallFits, Whole

\* A token that the cache yields is alive.
LEMMA CachedAlive ==
  ASSUME TokenInv, NEW key, NEW e \in Cached(key)
  PROVE  Fits(e.token) /\ AliveAt(e.token, clock)
<1>1. /\ EntryFits(e) /\ clock \in Nat /\ (e.until = 0 \/ clock <= e.until)
  BY DEF TokenInv, Cached
<1>2. e.token.lifetime \in Nat /\ e.token.grantedAt \in Nat
  BY <1>1, TimeAssumption DEF EntryFits, Fits
<1>3. e.token.lifetime \notin Endless => clock <= e.token.grantedAt + e.token.lifetime
  BY <1>1, <1>2 DEF EntryFits
<1>4. QED
  BY <1>1, <1>3 DEF EntryFits, AliveAt

\* A token that arrives is alive, and is not kept for too long.
LEMMA ArrivesAlive ==
  ASSUME TokenInv, \A lifetime \in Lifetimes \ {0} : MaxDelay <= lifetime,
         NEW c \in Calls, call[c].at = "granted"
  PROVE  /\ Fits(call[c].token) /\ AliveAt(call[c].token, clock)
         /\ EntryFits([token |-> call[c].token, until |-> Until(call[c].token.lifetime)])
<1>1. /\ clock \in Nat /\ clock > Margin /\ CallFits(call[c], clock)
  BY DEF TokenInv
<1>2. Fits(call[c].token) /\ clock <= call[c].token.grantedAt + MaxDelay
  BY <1>1 DEF CallFits
<1>3. PICK lifetime, grantedAt : lifetime = call[c].token.lifetime /\ grantedAt = call[c].token.grantedAt
  OBVIOUS
<1>4. lifetime \in Lifetimes /\ grantedAt \in Nat /\ clock <= grantedAt + MaxDelay
  BY <1>2, <1>3 DEF Fits
<1>5. /\ lifetime \in Nat /\ grantedAt \in Nat /\ MaxDelay \in Nat /\ Margin \in Nat
      /\ MaxDelay <= Margin /\ (lifetime # 0 => MaxDelay <= lifetime) /\ clock <= grantedAt + MaxDelay
  BY <1>4, TimeAssumption
<1>6. clock <= grantedAt + lifetime \/ lifetime \in Endless
  BY <1>1, <1>5 DEF Endless
<1>7. /\ Until(lifetime) \in Int
      /\ lifetime \notin Endless => Until(lifetime) # 0 /\ Until(lifetime) <= grantedAt + lifetime
  BY <1>1, <1>5 DEF Until, Endless
<1>8. QED
  BY <1>1, <1>2, <1>3, <1>6, <1>7 DEF AliveAt, EntryFits

\* Every step of a call keeps the invariant.
LEMMA TokenSteps ==
  ASSUME TokenInv, \A lifetime \in Lifetimes \ {0} : MaxDelay <= lifetime, NEW c \in Calls, TokenStep(c)
  PROVE  TokenInv'
<1>1. /\ CallFits(call[c], clock) /\ Whole(call[c]) /\ clock \in Nat
      /\ \A e \in tokens : EntryFits(e)
  BY DEF TokenInv, CallFits
<1>2. CASE DiscoverIssuer(c)
  <2>1. PICK m : m = [call[c] EXCEPT !.at = "granting"]
    OBVIOUS
  <2>2. CallFits(m, clock)
    BY <1>1, <2>1 DEF CallFits, Whole
  <2>3. QED
    BY <1>1, <1>2, <2>1, <2>2, CallMoves DEF DiscoverIssuer
<1>3. CASE Grant(c)
  <2>0. PICK lifetime \in Lifetimes :
          call' = [call EXCEPT ![c] = [call[c] EXCEPT !.at = "granted",
                     !.token = [key |-> MyKey(c), grantedAt |-> clock, lifetime |-> lifetime]]]
    BY <1>3 DEF Grant
  <2>1. PICK m :
          /\ m = [call[c] EXCEPT !.at = "granted",
                                 !.token = [key |-> MyKey(c), grantedAt |-> clock, lifetime |-> lifetime]]
          /\ call' = [call EXCEPT ![c] = m]
    BY <2>0
  <2>2. PICK key : key = MyKey(c)
    OBVIOUS
  <2>3. MaxDelay \in Nat
    BY TimeAssumption
  <2>4. /\ Whole(m) /\ m.at = "granted"
        /\ m.token = [key |-> key, grantedAt |-> clock, lifetime |-> lifetime]
    BY <1>1, <2>1, <2>2 DEF Whole
  <2>5. CallFits(m, clock)
    BY <1>1, <2>3, <2>4 DEF CallFits, Fits
  <2>6. QED
    BY <1>1, <1>3, <2>1, <2>5, CallMoves DEF Grant
<1>4. CASE ReceiveToken(c)
  <2>1. call[c].at = "granted"
    BY <1>4 DEF ReceiveToken
  <2>2. PICK token : token = call[c].token
    OBVIOUS
  <2>3. PICK entry : entry = [token |-> token, until |-> Until(token.lifetime)]
    OBVIOUS
  <2>4. Fits(token) /\ AliveAt(token, clock) /\ EntryFits(entry)
    BY <2>1, <2>2, <2>3, ArrivesAlive
  <2>5. \A e \in tokens' : EntryFits(e)
    BY <1>1, <1>4, <2>2, <2>3, <2>4 DEF ReceiveToken
  <2>6. PICK headers, m : headers = call[c].headers /\ m = Sent(headers, token, c)
    OBVIOUS
  <2>7. CallFits(m, clock)
    BY <2>4, <2>6, SentFits
  <2>8. call' = [call EXCEPT ![c] = m] /\ clock' = clock
    BY <1>4, <2>2, <2>6 DEF ReceiveToken
  <2>9. QED
    BY <2>5, <2>7, <2>8, CallMoves
<1>5. CASE FailToken(c)
  <2>1. PICK m : m = [call[c] EXCEPT !.at = "failed", !.token = Absent]
    OBVIOUS
  <2>2. CallFits(m, clock)
    BY <1>1, <2>1 DEF CallFits, Whole
  <2>3. QED
    BY <1>1, <1>5, <2>1, <2>2, CallMoves DEF FailToken
<1>6. QED
  BY <1>2, <1>3, <1>4, <1>5 DEF TokenStep

\* A call that starts, whatever its resource group and its request.
LEMMA TokenApply ==
  ASSUME TokenInv, NEW c \in Calls, NEW group, NEW incoming, ApplyUpstream(c, group, incoming)
  PROVE  TokenInv'
<1>1. PICK g, u, headers, key :
        /\ g = Groups[group] /\ u = UpstreamOf(g, hostOf[c]) /\ headers = HeadersOf(c, u, incoming)
        /\ key = KeyOfToken(g, u)
  OBVIOUS
<1>2. clock' = clock /\ (\A e \in tokens' : EntryFits(e)) /\ Whole(call[c])
  BY DEF ApplyUpstream, TokenInv, CallFits
<1>3. ASSUME NEW token, token # Absent => Fits(token) /\ AliveAt(token, clock),
             call' = [call EXCEPT ![c] = [Sent(headers, token, c) EXCEPT !.group = group]]
      PROVE  TokenInv'
  <2>1. PICK m : m = [Sent(headers, token, c) EXCEPT !.group = group]
    OBVIOUS
  <2>2. CallFits(m, clock)
    BY <1>3, <2>1, SentFits
  <2>3. QED
    BY <1>2, <1>3, <2>1, <2>2, CallMoves
<1>4. CASE call' = [call EXCEPT ![c] = [Sent(headers, Absent, c) EXCEPT !.group = group]]
  BY <1>3, <1>4
<1>5. CASE \E e \in Cached(key) :
              call' = [call EXCEPT ![c] = [Sent(headers, e.token, c) EXCEPT !.group = group]]
  <2>1. PICK e, token :
           e \in Cached(key) /\ token = e.token
           /\ call' = [call EXCEPT ![c] = [Sent(headers, token, c) EXCEPT !.group = group]]
    BY <1>5
  <2>2. QED
    BY <1>3, <2>1, CachedAlive
<1>6. CASE \E at \in {"granting", "discovering"} :
              call' = [call EXCEPT ![c] = [call[c] EXCEPT !.group = group, !.headers = headers, !.at = at]]
  <2>0. PICK at \in {"granting", "discovering"} :
           call' = [call EXCEPT ![c] = [call[c] EXCEPT !.group = group, !.headers = headers, !.at = at]]
    BY <1>6
  <2>1. PICK m :
           /\ m = [call[c] EXCEPT !.group = group, !.headers = headers, !.at = at]
           /\ call' = [call EXCEPT ![c] = m]
    BY <2>0
  <2>2. CallFits(m, clock)
    BY <1>2, <2>1 DEF CallFits, Whole
  <2>3. QED
    BY <1>2, <2>1, <2>2, CallMoves
<1>7. QED
  BY <1>1, <1>4, <1>5, <1>6 DEF ApplyUpstream

\* Time passes only while no answer is overdue.
LEMMA TokenTick ==
  ASSUME TokenInv, Tick
  PROVE  TokenInv'
<1>1. /\ clock \in Nat /\ clock > Margin /\ clock' = clock + 1 /\ call' = call /\ tokens' = tokens
      /\ Margin \in Nat /\ MaxDelay \in Nat
      /\ \A c \in Calls : call[c].at = "granted" => clock < call[c].token.grantedAt + MaxDelay
  BY TimeAssumption DEF TokenInv, Tick
<1>2. ASSUME NEW c \in Calls
      PROVE  CallFits(call[c], clock)'
  <2>1. CallFits(call[c], clock)
    BY DEF TokenInv
  <2>2. call[c].at = "granted" => clock + 1 <= call[c].token.grantedAt + MaxDelay
    BY <1>1, <2>1 DEF CallFits, Fits
  <2>3. QED
    BY <1>1, <2>1, <2>2 DEF CallFits, Whole
<1>3. QED
  BY <1>1, <1>2 DEF TokenInv, EntryFits, Fits

\* What the requests do leaves the tokens alone.
LEMMA TokenUnchanged ==
  ASSUME TokenInv, UNCHANGED upstreamVars
  PROVE  TokenInv'
BY DEF upstreamVars, TokenInv, CallFits, Whole, EntryFits, Fits, AliveAt

\* The invariant of the tokens, in the whole system.
LEMMA TokenInvariant ==
  ASSUME \A lifetime \in Lifetimes \ {0} : MaxDelay <= lifetime
  PROVE  Spec => []TokenInv
<1>1. Init => TokenInv
  BY TimeAssumption DEF Init, InitUpstreams, TokenInv, CallFits, Whole
<1>2. TokenInv /\ [Next]_vars => TokenInv'
  <2>1. SUFFICES ASSUME TokenInv, [Next]_vars
                 PROVE  TokenInv'
    OBVIOUS
  <2>2. \/ \E c \in Calls : TokenStep(c)
        \/ \E c \in Calls : CallUpstream(c)
        \/ Tick
        \/ UNCHANGED upstreamVars
    BY <2>1 DEF Next, Step, Execute, UpdateSchema, CreateGatewaySchema, vars
  <2>3. CASE \E c \in Calls : CallUpstream(c)
    <3>1. PICK c \in Calls : CallUpstream(c)
      BY <2>3
    <3>2. PICK group, incoming :
             /\ group = GroupOfCall(c)
             /\ incoming = (request[requestOf[c]].input.authorization.scheme # "none")
      OBVIOUS
    <3>3. ApplyUpstream(c, group, incoming)
      BY <3>1, <3>2 DEF CallUpstream
    <3>4. QED
      BY <2>1, <3>3, TokenApply
  <2>4. QED
    BY <2>1, <2>2, <2>3, TokenSteps, TokenTick, TokenUnchanged
<1>3. QED
  BY <1>1, <1>2, PTL DEF Spec

\* When no authority states a lifetime that is shorter than an answer may take, a token that
\* is sent to an upstream has not expired (active-directory-auth.ts).  Excepted are a lifetime
\* of exactly the margin, and one that the authority did not state: their tokens have no end
\* in the cache.
THEOREM TokenAliveHolds ==
  ASSUME \A lifetime \in Lifetimes \ {0} : MaxDelay <= lifetime
  PROVE  Spec => []TokenAlive
<1>1. TokenInv => TokenAlive
  BY DEF TokenInv, TokenAlive, CallFits, AliveAt
<1>2. QED
  BY <1>1, TokenInvariant, PTL

----------------------------------------------------------------------------
(* Which token a call is sent with, and under which header. *)

\* What the list of headers looks like before a token goes into it: the directive and the
\* upstream each may have written one, and where both did they spelled it differently.
Entry(name, value) == [name |-> name, value |-> value]
Shape(h, c, u) ==
    \/ h = <<>>
    \/ \E n \in Headers : \E v : h = <<Entry(n, v)>>
    \/ /\ directiveSets[c] /\ u.header # Absent /\ u.header.name = "authorization"
       /\ \E v, w : h = <<Entry("Authorization", v), Entry("authorization", w)>>
NamedHeaders(h) == \A i \in DOMAIN h : h[i].name \in Headers

LEMMA EntryFields ==
  ASSUME NEW name, NEW value, NEW other
  PROVE  /\ Entry(name, value).name = name /\ Entry(name, value).value = value
         /\ [Entry(name, value) EXCEPT !.value = other] = Entry(name, other)
BY DEF Entry

\* SetHeader adds a name at the end, or keeps the names and exchanges values.
LEMMA SetAdds ==
  ASSUME NEW h, NEW name, NEW value, \A i \in DOMAIN h : h[i].name # name
  PROVE  SetHeader(h, name, value) = Append(h, Entry(name, value))
BY DEF SetHeader, Entry

LEMMA SetReplaces ==
  ASSUME NEW v, NEW name, NEW value
  PROVE  SetHeader(<<Entry(name, v)>>, name, value) = <<Entry(name, value)>>
<1>1. PICK h : h = <<Entry(name, v)>>
  OBVIOUS
<1>2. DOMAIN h = 1..1 /\ 1 \in 1..1 /\ h[1] = Entry(name, v) /\ h[1].name = name
  BY <1>1 DEF Entry
<1>3. SetHeader(h, name, value) = [k \in 1..1 |-> [h[k] EXCEPT !.value = IF h[k].name = name THEN value ELSE h[k].value]]
  BY <1>2 DEF SetHeader
<1>4. [h[1] EXCEPT !.value = value] = Entry(name, value)
  BY <1>2 DEF Entry
<1>5. SetHeader(h, name, value) = <<Entry(name, value)>>
  BY <1>2, <1>3, <1>4
<1>6. QED
  BY <1>1, <1>5

LEMMA SetReplacesFirst ==
  ASSUME NEW v, NEW w, NEW name, NEW other, other # name, NEW value
  PROVE  SetHeader(<<Entry(name, v), Entry(other, w)>>, name, value) = <<Entry(name, value), Entry(other, w)>>
<1>1. PICK h : h = <<Entry(name, v), Entry(other, w)>>
  OBVIOUS
<1>2. /\ DOMAIN h = 1..2 /\ 1 \in 1..2 /\ 2 \in 1..2
      /\ h[1] = Entry(name, v) /\ h[1].name = name /\ h[2] = Entry(other, w) /\ h[2].name # name
  BY <1>1 DEF Entry
<1>3. SetHeader(h, name, value) = [k \in 1..2 |-> [h[k] EXCEPT !.value = IF h[k].name = name THEN value ELSE h[k].value]]
  BY <1>2 DEF SetHeader
<1>4. [h[1] EXCEPT !.value = value] = Entry(name, value) /\ [h[2] EXCEPT !.value = h[2].value] = Entry(other, w)
  BY <1>2, EntryFields
<1>5. PICK a, b : a = Entry(name, value) /\ b = Entry(other, w)
  OBVIOUS
<1>6. SetHeader(h, name, value) = [k \in 1..2 |-> IF k = 1 THEN a ELSE b]
  BY <1>2, <1>3, <1>4, <1>5
<1>7. SetHeader(h, name, value) = <<a, b>>
  BY <1>6
<1>8. QED
  BY <1>1, <1>5, <1>7

LEMMA HeadersShape ==
  ASSUME NEW c \in Calls, NEW u, IsHeader(u.header), NEW incoming
  PROVE  Shape(HeadersOf(c, u, incoming), c, u)
<1> DEFINE own == IF directiveSets[c] THEN <<Entry("Authorization", "directive")>> ELSE <<>>
<1>1. HeadersOf(c, u, incoming) = IF u.header = Absent \/ (u.header.value = "incoming" /\ ~incoming)
                                  THEN own ELSE SetHeader(own, u.header.name, u.header.value)
  BY DEF HeadersOf, Entry
<1>2. Shape(own, c, u)
  BY DEF Shape, Headers
<1>3. ASSUME u.header # Absent
      PROVE  Shape(SetHeader(own, u.header.name, u.header.value), c, u)
  <2>1. PICK n, v : n = u.header.name /\ v = u.header.value /\ n \in Headers
    BY <1>3 DEF IsHeader
  <2>2. CASE ~directiveSets[c]
    <3>1. own = <<>> /\ DOMAIN own = {}
      BY <2>2
    <3>2. SetHeader(own, n, v) = Append(own, Entry(n, v))
      BY <3>1, SetAdds
    <3>3. SetHeader(own, n, v) = <<Entry(n, v)>>
      BY <3>1, <3>2
    <3>4. QED
      BY <2>1, <3>3 DEF Shape
  <2>3. CASE directiveSets[c] /\ n = "authorization"
    <3>1. own = <<Entry("Authorization", "directive")>>
      BY <2>3
    <3>2. \A i \in DOMAIN own : own[i].name # n
      BY <2>3, <3>1 DEF Entry
    <3> HIDE DEF own
    <3>3. PICK a, b : a = Entry("Authorization", "directive") /\ b = Entry(n, v)
      OBVIOUS
    <3>4. own = <<a>> /\ SetHeader(own, n, v) = Append(own, b)
      BY <3>1, <3>2, <3>3, SetAdds
    <3>5. SetHeader(own, n, v) = <<a, b>>
      BY <3>4
    <3>6. QED
      BY <1>3, <2>1, <2>3, <3>3, <3>5 DEF Shape
  <2>4. CASE directiveSets[c] /\ n = "Authorization"
    <3>1. own = <<Entry(n, "directive")>>
      BY <2>4
    <3> HIDE DEF own
    <3>2. SetHeader(own, n, v) = <<Entry(n, v)>>
      BY <3>1, SetReplaces
    <3>3. QED
      BY <2>1, <3>2 DEF Shape
  <2>5. QED
    BY <2>1, <2>2, <2>3, <2>4 DEF Headers
<1>4. QED
  BY <1>1, <1>2, <1>3

\* The token takes the place of what was there, and is the last word but for another spelling.
LEMMA TokenHeader ==
  ASSUME NEW c, NEW u, NEW h, Shape(h, c, u), NEW r, r = SetHeader(h, "Authorization", "token")
  PROVE  /\ NamedHeaders(r)
         /\ \/ r[Len(r)].value = "token"
            \/ /\ directiveSets[c] /\ u.header # Absent /\ u.header.name = "authorization"
               /\ r[Len(r)].name = "authorization"
<1>0. /\ Entry("Authorization", "token").name = "Authorization"
      /\ Entry("Authorization", "token").value = "token"
  BY EntryFields
<1>1. PICK t : t = Entry("Authorization", "token") /\ t.name = "Authorization" /\ t.value = "token"
  BY <1>0
<1>2. CASE h = <<>>
  <2>0. \A i \in DOMAIN h : h[i].name # "Authorization"
    BY <1>2
  <2>1. r = Append(h, t)
    BY <1>1, <2>0, SetAdds
  <2>2. r = <<t>>
    BY <1>2, <2>1
  <2>3. QED
    BY <1>1, <2>2 DEF NamedHeaders, Headers
<1>3. CASE \E n \in Headers : \E v : h = <<Entry(n, v)>>
  <2>1. PICK n, v : n \in Headers /\ h = <<Entry(n, v)>>
    BY <1>3
  <2>2. CASE n = "Authorization"
    <3>1. r = <<t>>
      BY <1>1, <2>1, <2>2, SetReplaces
    <3>2. QED
      BY <1>1, <3>1 DEF NamedHeaders, Headers
  <2>3. CASE n # "Authorization"
    <3>0. Entry(n, v).name = n
      BY EntryFields
    <3>1. PICK a : a = Entry(n, v) /\ a.name = n
      BY <3>0
    <3>2. \A i \in DOMAIN h : h[i].name # "Authorization"
      BY <2>1, <2>3, <3>1
    <3>3. r = Append(h, t)
      BY <1>1, <3>2, SetAdds
    <3>4. r = <<a, t>>
      BY <2>1, <3>1, <3>3
    <3>5. DOMAIN r = 1..2 /\ Len(r) = 2 /\ r[1].name = n /\ r[2] = t
      BY <3>1, <3>4
    <3>6. NamedHeaders(r)
      BY <1>1, <2>1, <3>5 DEF NamedHeaders, Headers
    <3>7. QED
      BY <1>1, <3>5, <3>6
  <2>4. QED
    BY <2>2, <2>3
<1>4. CASE /\ directiveSets[c] /\ u.header # Absent /\ u.header.name = "authorization"
           /\ \E v, w : h = <<Entry("Authorization", v), Entry("authorization", w)>>
  <2>1. PICK v, w : h = <<Entry("Authorization", v), Entry("authorization", w)>>
    BY <1>4
  <2>0. Entry("authorization", w).name = "authorization"
    BY EntryFields
  <2>2. PICK b : b = Entry("authorization", w) /\ b.name = "authorization"
    BY <2>0
  <2>3. r = <<t, b>>
    BY <1>1, <2>1, <2>2, SetReplacesFirst
  <2>4. DOMAIN r = 1..2 /\ Len(r) = 2 /\ r[1] = t /\ r[2] = b
    BY <2>3
  <2>5. NamedHeaders(r)
    BY <1>1, <2>2, <2>4 DEF NamedHeaders, Headers
  <2>6. QED
    BY <1>4, <2>2, <2>4, <2>5
<1>5. QED
  BY <1>2, <1>3, <1>4 DEF Shape

LEMMA ShapeNames ==
  ASSUME NEW c, NEW u, NEW h, Shape(h, c, u)
  PROVE  NamedHeaders(h)
BY DEF Shape, NamedHeaders, Headers, Entry

\* Of some positions one is the first.
LEMMA FirstOf ==
  ASSUME NEW T, T \subseteq Nat, T # {}
  PROVE  \E i \in T : \A j \in T : i <= j
<1>1. PICK R : R = OpToRel(<, Nat)
  OBVIOUS
<1>2. IsWellFoundedOn(R, Nat)
  BY <1>1, NatLessThanWellFounded
<1>3. \E i \in T : \A j \in T : <<j, i>> \notin R
  BY <1>2, WFMin
<1>4. \A i, j \in Nat : <<j, i>> \in R <=> j < i
  BY <1>1 DEF OpToRel
<1>5. PICK i \in T : \A j \in T : <<j, i>> \notin R
  BY <1>3
<1>6. ASSUME NEW j \in T
      PROVE  i <= j
  <2>1. i \in Nat /\ j \in Nat
    OBVIOUS
  <2>2. ~(j < i)
    BY <1>4, <1>5, <2>1, Zenon
  <2>3. QED
    BY <2>1, <2>2
<1>7. QED
  BY <1>6

\* The upstream of a host is one of the group, the default of the group, or the default.
LEMMA UpstreamHeader ==
  ASSUME NEW n \in DOMAIN Groups, NEW host
  PROVE  IsHeader(UpstreamOf(Groups[n], host).header)
<1>1. PICK g : g = Groups[n]
  OBVIOUS
<1>2. /\ Len(g.upstreams) \in Nat /\ DOMAIN g.upstreams = 1..Len(g.upstreams)
      /\ \A i \in DOMAIN g.upstreams : IsHeader(g.upstreams[i].header)
      /\ g.defaultUpstream # Absent => IsHeader(g.defaultUpstream.header)
  BY <1>1, GroupsAssumption
<1>3. IsHeader(defaultDefaultUpstream.header)
  BY DEF IsHeader, Headers, defaultDefaultUpstream
<1> DEFINE T == {i \in DOMAIN g.upstreams : host \in g.upstreams[i].hosts}
           First(i) == /\ host \in g.upstreams[i].hosts
                       /\ \A j \in 1..(i - 1) : host \notin g.upstreams[j].hosts
<1>4. CASE T # {}
  <2>0. T \subseteq Nat
    BY <1>2
  <2>1. PICK i \in T : \A j \in T : i <= j
    <3> HIDE DEF T
    <3>1. QED
      BY <1>4, <2>0, FirstOf
  <2>2. First(i)
    <3>1. ASSUME NEW j \in 1..(i - 1), host \in g.upstreams[j].hosts
          PROVE  FALSE
      <4>1. j \in Nat /\ j < i
        BY <1>2, <2>1
      <4>2. j \in DOMAIN g.upstreams
        BY <1>2, <2>1, <3>1
      <4>3. QED
        BY <1>2, <2>1, <3>1, <4>1, <4>2
    <3>2. QED
      BY <2>1, <3>1
  <2>3. QED
    BY <1>1, <1>2, <1>4, <2>2 DEF UpstreamOf
<1>5. CASE T = {}
  BY <1>1, <1>2, <1>3, <1>5 DEF UpstreamOf
<1>6. QED
  BY <1>4, <1>5

\* A record of a call c at some time.  While it waits for its token it remembers a group
\* that asks for one, and the headers before the token; a token that was granted to it is
\* for its own key; and once sent it carries what TokenOfUpstream says.
Pending == {"discovering", "granting", "granted"}
GroupOf(m) == Groups[m.group]
ItsUpstream(m, c) == UpstreamOf(GroupOf(m), hostOf[c])
ItsKey(m, c) == KeyOfToken(GroupOf(m), ItsUpstream(m, c))
Owed(m, c) == NeedsToken(GroupOf(m), ItsUpstream(m, c))
LastWord(h, c, u) ==
    \/ h[Len(h)].value = "token"
    \/ /\ directiveSets[c] /\ u.header # Absent /\ u.header.name = "authorization"
       /\ h[Len(h)].name = "authorization"
Carries(m, c) ==
    IF Owed(m, c)
    THEN /\ m.token # Absent /\ m.token.key = ItsKey(m, c)
         /\ LastWord(m.headers, c, ItsUpstream(m, c))
    ELSE m.token = Absent
Follows(m, c, now) ==
    /\ Whole(m) /\ m.at \in Pending \cup {"idle", "sent", "failed"}
    /\ m.group \in {0} \cup DOMAIN Groups /\ NamedHeaders(m.headers)
    /\ m.at \in Pending =>
          /\ m.group \in DOMAIN Groups /\ Owed(m, c)
          /\ Shape(m.headers, c, ItsUpstream(m, c))
    /\ m.at = "granted" => m.token \in Tokens(ItsKey(m, c)) /\ m.token.grantedAt \in (Margin + 1)..now
    /\ m.at = "sent" => Carries(m, c)

\* A token in the cache.
Kept(e, now) ==
    /\ e.token # Absent /\ e.until \in Int /\ e.token.lifetime \in Lifetimes
    /\ e.token.grantedAt \in (Margin + 1)..now

KeyInv ==
    /\ clock \in (Margin + 1)..MaxClock
    /\ call = [c \in Calls |-> call[c]]
    /\ \A d, e \in tokens : d.token.key = e.token.key => d = e
    /\ \A e \in tokens : Kept(e, clock)
    /\ \A c \in Calls : Follows(call[c], c, clock)

\* The groups that are installed, and those that the requests have.
GroupInv ==
    /\ version \in DOMAIN Groups /\ schema \in 1..version /\ building \subseteq 1..version
    /\ resourceGroup \in [Requests -> 0..version] /\ schemaGroup \in [Requests -> 0..version]
    /\ \A r \in Requests : /\ schemaGroup[r] <= resourceGroup[r]
                          /\ resourceGroup[r] # 0 => schemaGroup[r] # 0

\* A call of a request that is executed has a group, the request's or its schema's.
LEMMA CallHasGroup ==
  ASSUME GroupInv, NEW c \in Calls, resourceGroup[requestOf[c]] # 0
  PROVE  GroupOfCall(c) \in DOMAIN Groups
<1>1. PICK r \in Requests : r = requestOf[c]
  BY RequestOfAssumption
<1>2. resourceGroup[r] \in 1..version /\ schemaGroup[r] \in 1..version
  BY <1>1, GroupsAssumption DEF GroupInv
<1>3. QED
  BY <1>1, <1>2, GroupsAssumption DEF GroupInv, GroupOfCall

\* Executions and updates keep the order of the groups.
LEMMA GroupStep ==
  ASSUME GroupInv,
         \/ \E r \in Requests : Execute(r)
         \/ UpdateSchema \/ CreateGatewaySchema \/ UNCHANGED groupVars
  PROVE  GroupInv'
<1>1. /\ version \in 1..Len(Groups) /\ Len(Groups) \in Nat /\ schema \in 1..version
      /\ version \in Nat /\ schema \in Nat
  BY GroupsAssumption DEF GroupInv
<1>2. CASE \E r \in Requests : Execute(r)
  <2>1. PICK r \in Requests : Execute(r)
    BY <1>2
  <2>2. /\ version' = version /\ schema' = schema /\ building' = building
        /\ resourceGroup' = [resourceGroup EXCEPT ![r] = version]
        /\ schemaGroup' = [schemaGroup EXCEPT ![r] = schema]
    BY <2>1 DEF Execute
  <2>3. QED
    BY <1>1, <2>2 DEF GroupInv
<1>3. CASE UpdateSchema
  <2>1. /\ version' = version + 1 /\ version + 1 \in 1..Len(Groups) /\ schema' = schema
        /\ building' = building \cup {version + 1}
        /\ resourceGroup' = resourceGroup /\ schemaGroup' = schemaGroup
    BY <1>1, <1>3 DEF UpdateSchema
  <2>2. 0..version \subseteq 0..(version + 1) /\ 1..version \subseteq 1..(version + 1)
    BY <1>1
  <2>3. /\ version' \in DOMAIN Groups /\ schema' \in 1..version'
        /\ building' \subseteq 1..version'
    <3>1. DOMAIN Groups = 1..Len(Groups)
      BY GroupsAssumption
    <3>2. version + 1 \in 1..(version + 1) /\ building \subseteq 1..version
      BY <1>1 DEF GroupInv
    <3>3. QED
      BY <1>1, <2>1, <2>2, <3>1, <3>2
  <2>4. /\ resourceGroup' \in [Requests -> 0..version']
        /\ schemaGroup' \in [Requests -> 0..version']
    BY <2>1, <2>2 DEF GroupInv
  <2>5. QED
    BY <2>1, <2>3, <2>4 DEF GroupInv
<1>4. CASE CreateGatewaySchema
  BY <1>1, <1>4 DEF GroupInv, CreateGatewaySchema
<1>5. CASE UNCHANGED groupVars
  BY <1>5 DEF GroupInv, groupVars
<1>6. QED
  BY <1>2, <1>3, <1>4, <1>5

\* A call that goes on, while the clock stands and the cache keeps its tokens.
LEMMA FollowsOn ==
  ASSUME KeyInv, NEW c \in Calls, NEW m, Follows(m, c, clock), call' = [call EXCEPT ![c] = m],
         clock' = clock, tokens' = tokens
  PROVE  KeyInv'
<1>1. /\ call = [d \in Calls |-> call[d]] /\ \A d \in Calls : Follows(call[d], d, clock)
  BY DEF KeyInv
<1>2. call' = [d \in Calls |-> call'[d]] /\ call'[c] = m /\ \A d \in Calls : d # c => call'[d] = call[d]
  BY <1>1
<1>3. PICK now : now = clock
  OBVIOUS
<1>4. \A d \in Calls : Follows(call'[d], d, now)
  BY <1>1, <1>2, <1>3
<1>5. \A d \in Calls : Follows(call[d], d, clock)'
  BY <1>3, <1>4
<1>6. QED
  BY <1>2, <1>5 DEF KeyInv, Kept

\* A call is sent with the token that its upstream asks for, under the headers of the
\* directive and the upstream; one without credentials is sent as it is.
LEMMA SentFollows ==
  ASSUME NEW c \in Calls, NEW n \in DOMAIN Groups, NEW u, u = UpstreamOf(Groups[n], hostOf[c]),
         NEW headers, Shape(headers, c, u), NEW token, NEW m, NEW now,
         IF NeedsToken(Groups[n], u) THEN token # Absent /\ token.key = KeyOfToken(Groups[n], u)
                                     ELSE token = Absent,
         m = [at |-> "sent", group |-> n,
              headers |-> IF token = Absent THEN headers ELSE SetHeader(headers, "Authorization", "token"),
              token |-> token, sentAt |-> now]
  PROVE  Follows(m, c, now)
<1>1. /\ m.at = "sent" /\ m.group = n /\ m.token = token /\ Whole(m)
      /\ m.headers = IF token = Absent THEN headers ELSE SetHeader(headers, "Authorization", "token")
  BY DEF Whole
<1>2. GroupOf(m) = Groups[n] /\ ItsUpstream(m, c) = u /\ ItsKey(m, c) = KeyOfToken(Groups[n], u)
  BY <1>1 DEF GroupOf, ItsUpstream, ItsKey
<1>3. NamedHeaders(m.headers) /\ (token # Absent => LastWord(m.headers, c, u))
  <2>1. CASE token = Absent
    BY <1>1, <2>1, ShapeNames
  <2>2. CASE token # Absent
    BY <1>1, <2>2, TokenHeader DEF LastWord
  <2>3. QED
    BY <2>1, <2>2
<1>4. Carries(m, c)
  BY <1>1, <1>2, <1>3 DEF Carries, Owed
<1>5. QED
  BY <1>1, <1>3, <1>4 DEF Follows, Pending

\* A call starts.
LEMMA ApplyFollows ==
  ASSUME KeyInv, NEW c \in Calls, NEW n \in DOMAIN Groups, NEW incoming, ApplyUpstream(c, n, incoming)
  PROVE  KeyInv'
<1>1. PICK g, u, headers, key :
        /\ g = Groups[n] /\ u = UpstreamOf(g, hostOf[c]) /\ headers = HeadersOf(c, u, incoming)
        /\ key = KeyOfToken(g, u)
  OBVIOUS
<1>2. /\ clock' = clock /\ tokens' = tokens /\ Whole(call[c]) /\ call[c].at = "idle"
  BY DEF ApplyUpstream, KeyInv, Follows
<1>3. Shape(headers, c, u)
  BY <1>1, UpstreamHeader, HeadersShape
<1>4. ASSUME NEW token, IF NeedsToken(g, u) THEN token # Absent /\ token.key = key ELSE token = Absent,
             call' = [call EXCEPT ![c] = [Sent(headers, token, c) EXCEPT !.group = n]]
      PROVE  KeyInv'
  <2>1. PICK m : m = [Sent(headers, token, c) EXCEPT !.group = n]
    OBVIOUS
  <2>2. m = [at |-> "sent", group |-> n,
             headers |-> IF token = Absent THEN headers ELSE SetHeader(headers, "Authorization", "token"),
             token |-> token, sentAt |-> clock]
    BY <1>2, <2>1, SentRecord
  <2>3. Follows(m, c, clock)
    BY <1>1, <1>3, <1>4, <2>2, SentFollows
  <2>4. QED
    BY <1>2, <1>4, <2>1, <2>3, FollowsOn
<1>5. CASE ~NeedsToken(g, u) /\ call' = [call EXCEPT ![c] = [Sent(headers, Absent, c) EXCEPT !.group = n]]
  BY <1>4, <1>5
<1>6. CASE /\ NeedsToken(g, u)
           /\ \E e \in Cached(key) : call' = [call EXCEPT ![c] = [Sent(headers, e.token, c) EXCEPT !.group = n]]
  <2>1. PICK e, token :
           e \in Cached(key) /\ token = e.token
           /\ call' = [call EXCEPT ![c] = [Sent(headers, token, c) EXCEPT !.group = n]]
    BY <1>6
  <2>2. token # Absent /\ token.key = key
    BY <2>1 DEF Cached, SameKey, KeyInv, Kept
  <2>3. QED
    BY <1>4, <1>6, <2>1, <2>2
<1>7. CASE /\ NeedsToken(g, u)
           /\ \E at \in {"granting", "discovering"} :
                call' = [call EXCEPT ![c] = [call[c] EXCEPT !.group = n, !.headers = headers, !.at = at]]
  <2>0. PICK at \in {"granting", "discovering"} :
           call' = [call EXCEPT ![c] = [call[c] EXCEPT !.group = n, !.headers = headers, !.at = at]]
    BY <1>7
  <2>1. PICK m : /\ m = [call[c] EXCEPT !.group = n, !.headers = headers, !.at = at]
                 /\ call' = [call EXCEPT ![c] = m]
    BY <2>0
  <2>2. m.at = at /\ m.group = n /\ m.headers = headers /\ Whole(m)
    BY <1>2, <2>1 DEF Whole
  <2>3. GroupOf(m) = g /\ ItsUpstream(m, c) = u
    BY <1>1, <2>2 DEF GroupOf, ItsUpstream
  <2>4. Follows(m, c, clock)
    BY <1>3, <1>7, <2>1, <2>2, <2>3, ShapeNames DEF Follows, Pending, Owed
  <2>5. QED
    BY <1>2, <2>1, <2>4, FollowsOn
<1>8. QED
  BY <1>1, <1>5, <1>6, <1>7 DEF ApplyUpstream

\* The steps of a call that waits for its token.
LEMMA TokenStepFollows ==
  ASSUME KeyInv, NEW c \in Calls, TokenStep(c)
  PROVE  KeyInv'
<1>1. PICK m : m = call[c]
  OBVIOUS
<1>2. /\ Follows(m, c, clock) /\ Whole(m)
      /\ clock \in (Margin + 1)..MaxClock /\ Margin \in Nat
  BY <1>1, TimeAssumption DEF KeyInv, Follows
<1>3. PICK k : k = m.group
  OBVIOUS
<1>4. ASSUME NEW q, q.group = k
      PROVE  GroupOf(q) = GroupOf(m) /\ ItsUpstream(q, c) = ItsUpstream(m, c)
             /\ ItsKey(q, c) = ItsKey(m, c) /\ Owed(q, c) = Owed(m, c)
  BY <1>3, <1>4 DEF GroupOf, ItsUpstream, ItsKey, Owed
<1>5. MyKey(c) = ItsKey(m, c)
  BY <1>1 DEF MyKey, ItsKey, MyUpstream, ItsUpstream, GroupOf
<1>6. CASE DiscoverIssuer(c)
  <2>1. PICK q : q = [m EXCEPT !.at = "granting"]
    OBVIOUS
  <2>2. /\ q.at = "granting" /\ q.group = k /\ q.headers = m.headers /\ Whole(q)
    BY <1>2, <1>3, <2>1 DEF Whole
  <2>3. Follows(q, c, clock)
    BY <1>1, <1>2, <1>3, <1>4, <1>6, <2>2 DEF Follows, Pending, DiscoverIssuer
  <2>4. QED
    BY <1>1, <1>6, <2>1, <2>3, FollowsOn DEF DiscoverIssuer
<1>7. CASE Grant(c)
  <2>1. PICK lifetime \in Lifetimes :
          call' = [call EXCEPT ![c] = [call[c] EXCEPT !.at = "granted",
                     !.token = [key |-> MyKey(c), grantedAt |-> clock, lifetime |-> lifetime]]]
    BY <1>7 DEF Grant
  <2>2. PICK token : token = [key |-> MyKey(c), grantedAt |-> clock, lifetime |-> lifetime]
    OBVIOUS
  <2>3. PICK q : q = [m EXCEPT !.at = "granted", !.token = token] /\ call' = [call EXCEPT ![c] = q]
    BY <1>1, <2>1, <2>2
  <2>4. q.at = "granted" /\ q.group = k /\ q.headers = m.headers /\ q.token = token /\ Whole(q)
    BY <1>2, <1>3, <2>3 DEF Whole
  <2>5. token \in Tokens(ItsKey(m, c)) /\ token.grantedAt \in (Margin + 1)..clock
    <3>1. clock \in Nat /\ clock \in (Margin + 1)..clock
      BY <1>2
    <3>2. PICK key : key = ItsKey(m, c)
      OBVIOUS
    <3>3. token = [key |-> key, grantedAt |-> clock, lifetime |-> lifetime]
      BY <1>5, <2>2, <3>2
    <3>4. token \in Tokens(key) /\ token.grantedAt = clock
      BY <3>1, <3>3 DEF Tokens
    <3>5. QED
      BY <3>1, <3>2, <3>4
  <2>6. Follows(q, c, clock)
    BY <1>1, <1>2, <1>3, <1>4, <1>7, <2>4, <2>5 DEF Follows, Pending, Grant
  <2>7. QED
    BY <1>7, <2>3, <2>6, FollowsOn DEF Grant
<1>8. CASE FailToken(c)
  <2>1. PICK q : q = [m EXCEPT !.at = "failed", !.token = Absent]
    OBVIOUS
  <2>2. q.at = "failed" /\ q.group = k /\ q.headers = m.headers /\ Whole(q)
    BY <1>2, <1>3, <2>1 DEF Whole
  <2>3. Follows(q, c, clock)
    BY <1>2, <1>3, <2>2 DEF Follows, Pending
  <2>4. QED
    BY <1>1, <1>8, <2>1, <2>3, FollowsOn DEF FailToken
<1>9. CASE ReceiveToken(c)
  <2>1. m.at = "granted" /\ clock' = clock
    BY <1>1, <1>9 DEF ReceiveToken
  <2>2. PICK u, key, token : u = ItsUpstream(m, c) /\ key = ItsKey(m, c) /\ token = m.token
    OBVIOUS
  <2>3. /\ token \in Tokens(key) /\ token.grantedAt \in (Margin + 1)..clock
        /\ k \in DOMAIN Groups /\ NeedsToken(Groups[k], u) /\ Shape(m.headers, c, u)
    BY <1>2, <1>3, <2>1, <2>2 DEF Follows, Pending, Owed, GroupOf
  <2>4. u = UpstreamOf(Groups[k], hostOf[c]) /\ key = KeyOfToken(Groups[k], u)
    BY <1>3, <2>2 DEF ItsUpstream, ItsKey, GroupOf
  <2>5. token # Absent
    BY <2>3, <2>4, AbsentAssumption
  <2>6. token.key = key /\ token.lifetime \in Lifetimes
    BY <2>3 DEF Tokens
  <2>7. PICK q : q = Sent(m.headers, token, c)
    OBVIOUS
  <2>8. q = [at |-> "sent", group |-> k,
             headers |-> IF token = Absent THEN m.headers ELSE SetHeader(m.headers, "Authorization", "token"),
             token |-> token, sentAt |-> clock]
    BY <1>1, <1>2, <1>3, <2>7, SentRecord
  <2>9. Follows(q, c, clock)
    BY <2>3, <2>4, <2>5, <2>6, <2>8, SentFollows
  <2>10. PICK entry : entry = [token |-> token, until |-> Until(token.lifetime)]
    OBVIOUS
  <2>11. /\ call' = [call EXCEPT ![c] = q]
         /\ tokens' = {e \in tokens : ~SameKey(e.token.key, key)} \cup {entry}
    BY <1>1, <1>9, <2>2, <2>6, <2>7, <2>10 DEF ReceiveToken
  <2>12. entry.token = token /\ Kept(entry, clock)
    <3>1. PICK lifetime \in Nat : lifetime = token.lifetime
      BY <2>6, TimeAssumption
    <3>2. Until(lifetime) \in Int
      BY <1>2 DEF Until
    <3>3. QED
      BY <2>3, <2>5, <2>6, <2>10, <3>1, <3>2 DEF Kept
  <2>13. \A d, e \in tokens' : d.token.key = e.token.key => d = e
    BY <2>6, <2>11, <2>12 DEF KeyInv, SameKey
  <2>14. \A e \in tokens' : Kept(e, clock)
    BY <2>11, <2>12 DEF KeyInv
  <2>15. call' = [d \in Calls |-> call'[d]] /\ \A d \in Calls : Follows(call'[d], d, clock)
    BY <2>9, <2>11 DEF KeyInv
  <2>16. QED
    BY <2>1, <2>13, <2>14, <2>15 DEF KeyInv
<1>10. QED
  BY <1>6, <1>7, <1>8, <1>9 DEF TokenStep

LEMMA TickFollows ==
  ASSUME KeyInv, Tick
  PROVE  KeyInv'
<1>1. /\ clock \in Nat /\ clock' = clock + 1 /\ clock' \in (Margin + 1)..MaxClock /\ Margin \in Nat
      /\ call' = call /\ tokens' = tokens
  BY TimeAssumption DEF KeyInv, Tick
<1>2. PICK next : next = clock'
  OBVIOUS
<1>3. (Margin + 1)..clock \subseteq (Margin + 1)..next
  BY <1>1, <1>2
<1>4. \A c \in Calls : Follows(call[c], c, next)
  BY <1>3 DEF KeyInv, Follows
<1>5. \A e \in tokens : Kept(e, next)
  BY <1>3 DEF KeyInv, Kept
<1>6. QED
  BY <1>1, <1>2, <1>4, <1>5 DEF KeyInv

\* Which resource group a request is executed with, and that its calls have their keys.
LEMMA KeyInvariant == Spec => [](KeyInv /\ GroupInv)
<1>1. Init => KeyInv /\ GroupInv
  BY TimeAssumption, GroupsAssumption
     DEF Init, InitUpstreams, KeyInv, GroupInv, Follows, Whole, NamedHeaders, Pending
<1>2. KeyInv /\ GroupInv /\ [Next]_vars => KeyInv' /\ GroupInv'
  <2> SUFFICES ASSUME KeyInv, GroupInv, [Next]_vars
               PROVE  KeyInv' /\ GroupInv'
    OBVIOUS
  <2>1. \/ \E c \in Calls : TokenStep(c) /\ UNCHANGED groupVars
        \/ \E c \in Calls : CallUpstream(c)
        \/ Tick /\ UNCHANGED groupVars
        \/ UNCHANGED upstreamVars /\ \/ \E r \in Requests : Execute(r)
                                     \/ UpdateSchema \/ CreateGatewaySchema
                                     \/ UNCHANGED groupVars
    BY DEF Next, Step, Execute, UpdateSchema, CreateGatewaySchema, vars
  <2>2. KeyInv'
    <3>1. CASE \E c \in Calls : CallUpstream(c)
      <4>1. PICK c \in Calls : CallUpstream(c)
        BY <3>1
      <4>2. PICK n, incoming :
              /\ n = GroupOfCall(c) /\ resourceGroup[requestOf[c]] # 0
              /\ incoming = (request[requestOf[c]].input.authorization.scheme # "none")
        BY <4>1 DEF CallUpstream
      <4>3. n \in DOMAIN Groups
        BY <4>2, CallHasGroup
      <4>4. ApplyUpstream(c, n, incoming)
        BY <4>1, <4>2 DEF CallUpstream
      <4>5. QED
        BY <4>3, <4>4, ApplyFollows
    <3>2. CASE UNCHANGED upstreamVars
      BY <3>2 DEF upstreamVars, KeyInv, Kept, Follows
    <3>3. QED
      BY <2>1, <3>1, <3>2, TokenStepFollows, TickFollows
  <2>3. GroupInv'
    BY <2>1, GroupStep DEF CallUpstream
  <2>4. QED
    BY <2>2, <2>3
<1>3. QED
  BY <1>1, <1>2, PTL DEF Spec

\* A call to an upstream with client credentials is sent with the token of that upstream's
\* own authority, client and resource, for any groups, hosts and headers, however calls
\* and updates of the schema overlap (active-directory-auth.ts, upstreams/index.ts).
THEOREM TokenOfUpstreamHolds == Spec => []TokenOfUpstream
<1>1. KeyInv => TokenOfUpstream
  BY DEF KeyInv, Follows, Carries, Owed, ItsKey, ItsUpstream, GroupOf, LastWord, TokenOfUpstream,
         Respelled, MyUpstream, MyKey
<1>2. QED
  BY <1>1, KeyInvariant, PTL

\* The types of the requests, the cache and the calls; the cache keeps one token for a key.
THEOREM TypeCorrect == Spec => []TypeOK
<1>1. AuthInv /\ KeyInv /\ GroupInv => TypeOK
  BY DEF AuthInv, KeyInv, GroupInv, Kept, Follows, NamedHeaders, Pending, TypeOK, UpstreamTypeOK
<1>2. QED
  BY <1>1, KeyInvariant, AuthInvariant, PTL

=============================================================================

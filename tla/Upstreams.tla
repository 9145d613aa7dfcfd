----------------------------- MODULE Upstreams -----------------------------
(***************************************************************************)
(* Requests to upstreams: the Authorization header that applyUpstream      *)
(* (upstreams/index.ts) gives a request of @rest, @gql or of the           *)
(* introspection, and the tokens that ActiveDirectoryAuth                  *)
(* (authentication/active-directory-auth.ts) keeps for the whole process.  *)
(*                                                                         *)
(* Calls that miss a token in the cache do not wait for each other, and    *)
(* the last answer stays.  Of a call's headers only Authorization counts:  *)
(* an object may hold it in two spellings, and the last one is sent.       *)
(***************************************************************************)
EXTENDS Integers, Sequences

CONSTANTS
    Calls, hostOf,      \* requests to upstreams, and where their directives send them
    directiveSets,      \* directiveSets[c]: @rest sets an Authorization header itself
    Absent,
    Groups,             \* the versions of the resource group
    Lifetimes,          \* for how long an authority may grant a token; 0: it does not say
    Margin,             \* a token is dropped that long before it expires (30 seconds)
    MaxDelay,           \* openid-client gives up an answer that takes longer
    MaxClock            \* bound on the clock

Headers == {"Authorization", "authorization"}
IsHeader(header) == header = Absent \/ header.name \in Headers
ASSUME GroupsAssumption ==
    /\ Len(Groups) \in Nat \ {0} /\ DOMAIN Groups = 1..Len(Groups)
    /\ \A n \in DOMAIN Groups :
          LET g == Groups[n]
          IN  /\ Len(g.upstreams) \in Nat /\ DOMAIN g.upstreams = 1..Len(g.upstreams)
              /\ \A i \in DOMAIN g.upstreams : IsHeader(g.upstreams[i].header)
              /\ g.defaultUpstream # Absent => IsHeader(g.defaultUpstream.header)
ASSUME TimeAssumption ==
    /\ Lifetimes \subseteq Nat
    /\ Margin \in Nat /\ MaxDelay \in 0..Margin
    /\ MaxClock \in Nat /\ MaxClock > Margin

VARIABLES
    clock,
    issuers,    \* this.issuers: the authorities that were discovered
    tokens,     \* this.tokens: tokens with the end of their time to live; 0 is no end
    call        \* call[c]: where the call stands, its resource group, headers, token, end

upstreamVars == <<clock, issuers, tokens, call>>

InitUpstreams ==
    /\ clock = Margin + 1
    /\ issuers = {}
    /\ tokens = {}
    /\ call = [c \in Calls |-> [at |-> "idle", group |-> 0, headers |-> <<>>, token |-> Absent, sentAt |-> 0]]

----------------------------------------------------------------------------
(* Which upstream, headers and credentials. *)

defaultDefaultUpstream ==
    [hosts |-> {}, header |-> [name |-> "Authorization", value |-> "incoming"], auth |-> Absent]

UpstreamOf(g, host) ==
    IF \E i \in DOMAIN g.upstreams : host \in g.upstreams[i].hosts
    THEN g.upstreams[CHOOSE i \in DOMAIN g.upstreams :
                        /\ host \in g.upstreams[i].hosts
                        /\ \A j \in 1..(i - 1) : host \notin g.upstreams[j].hosts]
    ELSE IF g.defaultUpstream # Absent THEN g.defaultUpstream ELSE defaultDefaultUpstream

\* A known name keeps its place in an object, a new one goes to the end.
SetHeader(headers, name, value) ==
    IF \E i \in DOMAIN headers : headers[i].name = name
    THEN [i \in DOMAIN headers |-> [headers[i] EXCEPT !.value = IF headers[i].name = name THEN value ELSE @]]
    ELSE Append(headers, [name |-> name, value |-> value])

\* A header injected from an incoming request that has none is left out.
HeadersOf(c, u, incoming) ==
    LET own == IF directiveSets[c] THEN <<[name |-> "Authorization", value |-> "directive"]>> ELSE <<>>
    IN  IF u.header = Absent \/ (u.header.value = "incoming" /\ ~incoming) THEN own
        ELSE SetHeader(own, u.header.name, u.header.value)

\* getAuthHeaders: the first credentials of the authority.
NeedsToken(g, u) ==
    /\ u.auth # Absent
    /\ \E i \in DOMAIN g.credentials : g.credentials[i].authority = u.auth.authority
ClientIdOf(g, u) ==
    g.credentials[CHOOSE i \in DOMAIN g.credentials :
                     /\ g.credentials[i].authority = u.auth.authority
                     /\ \A j \in 1..(i - 1) : g.credentials[j].authority # u.auth.authority].client
KeyOfToken(g, u) == [authority |-> u.auth.authority, client |-> ClientIdOf(g, u), resource |-> u.auth.resource]

Tokens(key) == [key : {key}, grantedAt : Nat, lifetime : Lifetimes]
ASSUME AbsentAssumption ==
    \A n \in DOMAIN Groups, c \in Calls :
        LET u == UpstreamOf(Groups[n], hostOf[c])
        IN  NeedsToken(Groups[n], u) => Absent \notin Tokens(KeyOfToken(Groups[n], u))

----------------------------------------------------------------------------
(* The steps of a call. *)

MyUpstream(c) == UpstreamOf(Groups[call[c].group], hostOf[c])
MyKey(c) == KeyOfToken(Groups[call[c].group], MyUpstream(c))

SameKey_NoClient(key, k) == key.authority = k.authority /\ key.resource = k.resource
SameKey(key, k) == key = k
Cached(key) == {e \in tokens : SameKey(e.token.key, key) /\ (e.until = 0 \/ clock <= e.until)}

Sent(headers, token, c) ==
    [call[c] EXCEPT !.at = "sent", !.sentAt = clock, !.token = token,
                    !.headers = IF token = Absent THEN headers ELSE SetHeader(headers, "Authorization", "token")]

\* applyUpstream up to its await, or to the end when it has nothing to wait for.
ApplyUpstream(c, group, incoming) ==
    /\ call[c].at = "idle"
    /\ LET g == Groups[group]
           u == UpstreamOf(g, hostOf[c])
           headers == HeadersOf(c, u, incoming)
           waiting == [call[c] EXCEPT !.group = group, !.headers = headers]
       IN \/ /\ ~NeedsToken(g, u)
             /\ call' = [call EXCEPT ![c] = [Sent(headers, Absent, c) EXCEPT !.group = group]]
          \/ /\ NeedsToken(g, u)
             /\ \E e \in Cached(KeyOfToken(g, u)) :
                   call' = [call EXCEPT ![c] = [Sent(headers, e.token, c) EXCEPT !.group = group]]
          \/ /\ NeedsToken(g, u) /\ Cached(KeyOfToken(g, u)) = {}
             /\ call' = [call EXCEPT ![c] =
                   [waiting EXCEPT !.at = IF u.auth.authority \in issuers THEN "granting" ELSE "discovering"]]
    /\ UNCHANGED <<clock, issuers, tokens>>

DiscoverIssuer(c) ==
    /\ call[c].at = "discovering"
    /\ issuers' = issuers \cup {MyKey(c).authority}
    /\ call' = [call EXCEPT ![c].at = "granting"]
    /\ UNCHANGED <<clock, tokens>>

\* The authority: the token lives from now on, and the answer is on its way.
Grant(c) ==
    /\ call[c].at = "granting"
    /\ \E lifetime \in Lifetimes :
          call' = [call EXCEPT ![c] = [@ EXCEPT
                     !.at = "granted",
                     !.token = [key |-> MyKey(c), grantedAt |-> clock, lifetime |-> lifetime]]]
    /\ UNCHANGED <<clock, issuers, tokens>>

\* node-cache: the end is 0, which is never, for a time to live of 0 and for one that is no
\* number, because the answer has no expires_in; it is in the past for a negative one.
Endless == {0, Margin}
Until_NoMargin(lifetime) == clock + lifetime
Until(lifetime) == IF lifetime \in Endless THEN 0 ELSE clock + lifetime - Margin

ReceiveToken(c) ==
    /\ call[c].at = "granted"
    /\ LET token == call[c].token
       IN  /\ tokens' = {e \in tokens : ~SameKey(e.token.key, token.key)}
                           \cup {[token |-> token, until |-> Until(token.lifetime)]}
           /\ call' = [call EXCEPT ![c] = Sent(call[c].headers, token, c)]
    /\ UNCHANGED <<clock, issuers>>

\* The discovery or the grant fails, or its answer does not come; nothing is kept.
FailToken(c) ==
    /\ call[c].at \in {"discovering", "granting", "granted"}
    /\ call' = [call EXCEPT ![c] = [@ EXCEPT !.at = "failed", !.token = Absent]]
    /\ UNCHANGED <<clock, issuers, tokens>>

Tick ==
    /\ clock < MaxClock
    /\ \A c \in Calls : call[c].at = "granted" => clock < call[c].token.grantedAt + MaxDelay
    /\ clock' = clock + 1
    /\ UNCHANGED <<issuers, tokens, call>>

TokenStep(c) == DiscoverIssuer(c) \/ Grant(c) \/ ReceiveToken(c) \/ FailToken(c)

----------------------------------------------------------------------------
(* Properties. *)

\* Types; the cache keeps one token for a key.
UpstreamTypeOK ==
    /\ clock \in (Margin + 1)..MaxClock
    /\ \A d, e \in tokens : d.token.key = e.token.key => d = e
    /\ \A e \in tokens : e.until \in Int /\ e.token.lifetime \in Lifetimes
                         /\ e.token.grantedAt \in (Margin + 1)..clock
    /\ \A c \in Calls :
          /\ call[c].at \in {"idle", "discovering", "granting", "granted", "sent", "failed"}
          /\ call[c].group \in {0} \cup DOMAIN Groups
          /\ \A i \in DOMAIN call[c].headers : call[c].headers[i].name \in Headers

\* A token that is sent has not expired, although calls overwrite each other's tokens and
\* answers come late (active-directory-auth.ts).  The exceptions are a lifetime of exactly the
\* margin, whose time to live, 0, node-cache takes for no limit, and one that the authority
\* did not state.
TokenAlive ==
    \A c \in Calls :
        call[c].at = "sent" /\ call[c].token # Absent =>
            \/ call[c].sentAt <= call[c].token.grantedAt + call[c].token.lifetime
            \/ call[c].token.lifetime \in Endless

Respelled(c) == directiveSets[c] /\ MyUpstream(c).header # Absent /\ MyUpstream(c).header.name = "authorization"

\* A call to an upstream with client credentials carries a token for the resource of that
\* upstream, granted to the first credentials that its own resource group has for the
\* authority, and never the header of the incoming request; other calls have no token.
\* (Where the directive writes Authorization and the upstream authorization, the token goes
\* into the first and the second is sent.)
TokenOfUpstream ==
    \A c \in Calls :
        call[c].at = "sent" =>
            IF NeedsToken(Groups[call[c].group], MyUpstream(c))
            THEN /\ call[c].token # Absent /\ call[c].token.key = MyKey(c)
                 /\ \/ call[c].headers[Len(call[c].headers)].value = "token"
                    \/ Respelled(c) /\ call[c].headers[Len(call[c].headers)].name = "authorization"
            ELSE call[c].token = Absent
=============================================================================

------------------------------- MODULE SignIn -------------------------------
(***************************************************************************)
(* Bearer tokens and sign-in through Auth Arcana: the cache of the         *)
(* issuer's keys (JwksCache) that verifications running side by side read  *)
(* and refill, the OAuth round trip whose only memory is the signed state  *)
(* parameter, and the exchange of a refresh token.  The issuer rotates its *)
(* keys and its refresh tokens, and any request to it may fail.            *)
(***************************************************************************)
EXTENDS Naturals, FiniteSets

CONSTANTS
    KidsJ,        \* key identifiers of the issuer
    VerifsJ,      \* slots for verifications
    FlowsJ,       \* slots for OAuth round trips
    RedirectsJ,   \* browser redirects a client may ask for
    KeyTtlJ,      \* JwksCache.ttl
    StateTtlJ,    \* lifetime of a state parameter (600 s in the code)
    MaxClockJ,    \* bound on the clock
    MaxRotations, \* bound on the issuer's changes
    NoneJ         \* no key, no redirect

ASSUME SignAssumption == KeyTtlJ \in Nat /\ StateTtlJ \in Nat

VARIABLES
    modeJ,        \* JwtMode: "local", "auth_arcana", "dual"
    clockJ,
    docJ,         \* the key identifiers the issuer publishes
    cacheJ,       \* the cached document and when it was stored
    verifsJ,      \* verification -> where it is
    flowsJ,       \* OAuth round trip -> where it is
    refreshJ,     \* the refresh token: what the client and the issuer hold
    rotationsJ

signVars == <<modeJ, clockJ, docJ, cacheJ, verifsJ, flowsJ, refreshJ, rotationsJ>>

IdleVerif == [at |-> "idle", kid |-> NoneJ, doc |-> {}, steady |-> FALSE]
IdleFlow == [at |-> "idle", asked |-> NoneJ, state |-> NoneJ, exp |-> 0, sent |-> NoneJ]
Configured == "configured"        \* OAuthConfig.redirect_uri

SignInit ==
    /\ modeJ \in {"local", "auth_arcana", "dual"}
    /\ clockJ = 0
    /\ docJ \in SUBSET KidsJ \ {{}}
    /\ cacheJ = [keys |-> {}, at |-> 0]
    /\ verifsJ = [v \in VerifsJ |-> IdleVerif]
    /\ flowsJ = [f \in FlowsJ |-> IdleFlow]
    /\ refreshJ = [client |-> 0, issuer |-> 0, at |-> "idle", grant |-> 0, fault |-> FALSE]
    /\ rotationsJ = 0

JwksMode == modeJ \in {"auth_arcana", "dual"}

\* cached_key: nothing once the entry is older than its lifetime.
CachedKey(kid) == kid \in cacheJ.keys /\ clockJ - cacheJ.at <= KeyTtlJ

Fetching == {v \in VerifsJ : verifsJ[v].at \in {"fetch", "store"}}

\* JwtConfig::verify of a token that the issuer signed.  "steady" follows whether the key
\* stayed published, every fetch succeeded and no other fetch ran beside this one.
BeginVerify(v) ==
    \E kid \in KidsJ :
        /\ verifsJ[v] = IdleVerif
        /\ verifsJ' = [o \in VerifsJ |->
               IF o = v THEN [at |-> IF JwksMode THEN "lookup" ELSE "refused", kid |-> kid,
                              doc |-> {}, steady |-> JwksMode /\ kid \in docJ]
               ELSE verifsJ[o]]
        /\ UNCHANGED <<modeJ, clockJ, docJ, cacheJ, flowsJ, refreshJ, rotationsJ>>

\* The first look; a miss starts a fetch.
LookupKey(v) ==
    /\ verifsJ[v].at = "lookup"
    /\ verifsJ' = [o \in VerifsJ |->
           IF o = v THEN [verifsJ[v] EXCEPT
                              !.at = IF CachedKey(verifsJ[v].kid) THEN "accepted" ELSE "fetch",
                              !.steady = @ /\ (Fetching = {} \/ CachedKey(verifsJ[v].kid))]
           ELSE IF o \in Fetching /\ ~CachedKey(verifsJ[v].kid)
                THEN [verifsJ[o] EXCEPT !.steady = FALSE]
           ELSE verifsJ[o]]
    /\ UNCHANGED <<modeJ, clockJ, docJ, cacheJ, flowsJ, refreshJ, rotationsJ>>

\* The issuer answers the GET with the document of that moment, or the request fails.
Fetched(v) ==
    /\ verifsJ[v].at = "fetch"
    /\ \/ verifsJ' = [verifsJ EXCEPT ![v].at = "store", ![v].doc = docJ]
       \/ verifsJ' = [verifsJ EXCEPT ![v].at = "refused", ![v].steady = FALSE]
    /\ UNCHANGED <<modeJ, clockJ, docJ, cacheJ, flowsJ, refreshJ, rotationsJ>>

\* Mutant: the new keys are added to the old ones, which keep their age.
KeyEntryMerged(doc) == [keys |-> cacheJ.keys \cup doc, at |-> cacheJ.at]

\* The document replaces the cached one, and its age counts from now.
KeyEntry(doc) == [keys |-> doc, at |-> clockJ]

\* refresh stores the document, then the cache is read a second time.
StoreDocument(v) ==
    /\ verifsJ[v].at = "store"
    /\ cacheJ' = KeyEntry(verifsJ[v].doc)
    /\ verifsJ' = [verifsJ EXCEPT ![v].at = "reread", ![v].doc = {}]
    /\ UNCHANGED <<modeJ, clockJ, docJ, flowsJ, refreshJ, rotationsJ>>

RereadKey(v) ==
    /\ verifsJ[v].at = "reread"
    /\ verifsJ' = [verifsJ EXCEPT
           ![v].at = IF CachedKey(verifsJ[v].kid) THEN "accepted" ELSE "refused"]
    /\ UNCHANGED <<modeJ, clockJ, docJ, cacheJ, flowsJ, refreshJ, rotationsJ>>

EndVerify(v) ==
    /\ verifsJ[v].at \in {"accepted", "refused"}
    /\ verifsJ' = [verifsJ EXCEPT ![v] = IdleVerif]
    /\ UNCHANGED <<modeJ, clockJ, docJ, cacheJ, flowsJ, refreshJ, rotationsJ>>

\* oauth_start: a browser's redirect is carried by the state, any other goes by the
\* configured one; the authorization URL names it.
OauthStart(f) ==
    \E r \in RedirectsJ \cup {NoneJ} :
        /\ flowsJ[f] = IdleFlow
        /\ flowsJ' = [flowsJ EXCEPT ![f] =
               [at |-> "provider", asked |-> IF r = NoneJ THEN Configured ELSE r,
                state |-> r, exp |-> clockJ + StateTtlJ, sent |-> NoneJ]]
        /\ UNCHANGED <<modeJ, clockJ, docJ, cacheJ, verifsJ, refreshJ, rotationsJ>>

\* verify_oauth_state: the redirect the state was issued with, if any.
StateRedirect(f) == flowsJ[f].state

\* oauth_callback: an expired state is refused; exchange_auth_arcana_code sends the
\* redirect of the state, or the configured one.
OauthCallback(f) ==
    /\ flowsJ[f].at = "provider"
    /\ flowsJ' = [flowsJ EXCEPT ![f] =
           IF clockJ > flowsJ[f].exp THEN IdleFlow
           ELSE [@ EXCEPT !.at = "exchange",
                          !.sent = IF StateRedirect(f) = NoneJ THEN Configured
                                   ELSE StateRedirect(f)]]
    /\ UNCHANGED <<modeJ, clockJ, docJ, cacheJ, verifsJ, refreshJ, rotationsJ>>

\* The token endpoint takes a code only with the redirect it was issued for; then
\* userinfo, and the account is looked up or made.  Either request may fail.
OauthExchanged(f) ==
    /\ flowsJ[f].at = "exchange"
    /\ \/ flowsJ' = [flowsJ EXCEPT ![f].at =
              IF flowsJ[f].sent = flowsJ[f].asked THEN "signed_in" ELSE "mismatch"]
       \/ flowsJ' = [flowsJ EXCEPT ![f] = IdleFlow]
    /\ UNCHANGED <<modeJ, clockJ, docJ, cacheJ, verifsJ, refreshJ, rotationsJ>>

EndFlow(f) ==
    /\ flowsJ[f].at \in {"signed_in", "mismatch"}
    /\ flowsJ' = [flowsJ EXCEPT ![f] = IdleFlow]
    /\ UNCHANGED <<modeJ, clockJ, docJ, cacheJ, verifsJ, refreshJ, rotationsJ>>

\* refresh_token: the issuer takes the token and may hand out a new one in its place.
RefreshExchange ==
    /\ JwksMode /\ refreshJ.at = "idle" /\ refreshJ.client = refreshJ.issuer
    /\ rotationsJ < MaxRotations
    /\ \E rotated \in BOOLEAN :
        refreshJ' = [refreshJ EXCEPT !.at = "verify",
                     !.issuer = IF rotated THEN @ + 1 ELSE @,
                     !.grant = IF rotated THEN refreshJ.issuer + 1 ELSE 0]
    /\ rotationsJ' = rotationsJ + 1
    /\ UNCHANGED <<modeJ, clockJ, docJ, cacheJ, verifsJ, flowsJ>>

\* build_external_token_response carries the new token; without one the client keeps its own.
Answer(client, grant) == IF grant = 0 THEN client ELSE grant

\* The new access token is verified before the answer: when that fails the client is told
\* 401 and never sees the token that replaced its own.  The answer itself may be lost.
RefreshAnswered ==
    /\ refreshJ.at = "verify"
    /\ \/ refreshJ' = [refreshJ EXCEPT !.at = "idle", !.grant = 0,
                       !.client = Answer(@, refreshJ.grant)]
       \/ refreshJ' = [refreshJ EXCEPT !.at = "idle", !.grant = 0, !.fault = TRUE]
    /\ UNCHANGED <<modeJ, clockJ, docJ, cacheJ, verifsJ, flowsJ, rotationsJ>>

\* The issuer publishes other keys; a verification of a key that goes is not steady.
IssuerRotates ==
    /\ rotationsJ < MaxRotations
    /\ rotationsJ' = rotationsJ + 1
    /\ docJ' \in SUBSET KidsJ \ {{}, docJ}
    /\ verifsJ' = [v \in VerifsJ |->
           [verifsJ[v] EXCEPT !.steady = @ /\ verifsJ[v].kid \in docJ']]
    /\ UNCHANGED <<modeJ, clockJ, cacheJ, flowsJ, refreshJ>>

TickJ ==
    /\ clockJ < MaxClockJ
    /\ clockJ' = clockJ + 1
    \* The two steps between storing and reading again take no time.
    /\ \A v \in VerifsJ : verifsJ[v].at # "reread"
    /\ UNCHANGED <<modeJ, docJ, cacheJ, verifsJ, flowsJ, refreshJ, rotationsJ>>

SignNext ==
    \/ \E v \in VerifsJ : \/ BeginVerify(v) \/ LookupKey(v) \/ Fetched(v) \/ StoreDocument(v)
                          \/ RereadKey(v) \/ EndVerify(v)
    \/ \E f \in FlowsJ : OauthStart(f) \/ OauthCallback(f) \/ OauthExchanged(f) \/ EndFlow(f)
    \/ RefreshExchange \/ RefreshAnswered \/ IssuerRotates \/ TickJ

SignSpec == SignInit /\ [][SignNext]_signVars

\* A token whose key is published all the while is accepted, however old the cache is and
\* however often the keys were rotated before, unless a fetch fails or two fetches overlap:
\* then an older document may be stored over a newer one between refresh and the second
\* look of JwksCache::decoding_key.
PublishedKeyAccepted ==
    \A v \in VerifsJ : verifsJ[v].steady => verifsJ[v].at # "refused"

\* A code is always exchanged with the redirect it was issued for, with sign-ins of browsers
\* and of other clients under way at once: the server keeps nothing between oauth_start and
\* oauth_callback, so the state parameter must bring the redirect back.
RedirectMatches == \A f \in FlowsJ : flowsJ[f].at # "mismatch"

\* Outside a refresh the client holds the refresh token that the issuer will take, whether
\* or not the issuer rotates it, unless an answer was lost or the verification of the new
\* access token failed after the exchange.
RefreshTokenKept ==
    refreshJ.at = "idle" /\ ~refreshJ.fault => refreshJ.client = refreshJ.issuer
=============================================================================

---------------------------- MODULE SignedCookie -----------------------------
(***************************************************************************)
(* Sessions kept in the cookies themselves (signed_cookie_store.rs,        *)
(* cookie_store.rs): the servers of one site, the cookies that browsers    *)
(* hold, and the two changes a deployment goes through while browsers      *)
(* hold them - the move from CookieStore to SignedCookieStore and the      *)
(* rotation of signing keys with with_fallback_key.                        *)
(*                                                                         *)
(* A store is immutable, so a server changes its keys by a restart, which  *)
(* ends its request.  The site rotates a key by the documented recipe, a   *)
(* store that signs with the new key and accepts the old one; its servers  *)
(* take that configuration over one by one, and go on serving in between.  *)
(* A cookie is what its bytes decide: format, key of the tag, expiry and   *)
(* length.  Tags are made by the stores only: a tag verifies under the key *)
(* that made it and under no other.                                        *)
(***************************************************************************)
EXTENDS Integers, FiniteSets

CONSTANTS
    Servers, Keys,
    NoKey,
    PrefixLen, TagLen, MaxValueLen,  \* the constants of signed_cookie_store.rs
    PayloadLens,     \* sizes that serialized sessions can have
    MaxLifetime,     \* longest time from a save to the expiry it stores
    CookieBound,     \* bound of the cookies held at a time
    Horizon          \* bound of the clock

MaxBinaryLen == 3 * ((MaxValueLen - PrefixLen) \div 4)

ASSUME NoKeyAssumption == NoKey \notin Keys
ASSUME LengthAssumption ==
    /\ PrefixLen \in Nat /\ TagLen \in Nat /\ MaxValueLen \in Nat
    /\ PayloadLens \subseteq Nat
    /\ PrefixLen <= MaxValueLen /\ TagLen <= MaxBinaryLen
ASSUME LifetimeAssumption == MaxLifetime \in Nat

VARIABLES
    config,      \* the store that a server makes when it starts
    rank,        \* history: the order in which the site took up its keys, or 0
    store,       \* the store that each server runs
    request,     \* the request that each server handles
    cookies,     \* the cookies that browsers hold
    clock,
    unused_since \* when a server last stopped signing with a key

vars == <<config, rank, store, request, cookies, clock, unused_since>>
site == <<config, rank>>

Stores == [kind : {"plain", "signed"}, signing_key : Keys \cup {NoKey},
           fallback_keys : SUBSET Keys]

\* legacy: history, the session was once read from an unsigned cookie.
Cookies == [format : {"plain", "signed"}, key : Keys \cup {NoKey},
            expiry : Nat, length : Nat, legacy : BOOLEAN]

\* payload: the size of the session that a save refused.
Requests == [at : {"none", "open", "refused"}, legacy : BOOLEAN, payload : Nat]

NoRequest == [at |-> "none", legacy |-> FALSE, payload |-> 0]
Opened(legacy) == [at |-> "open", legacy |-> legacy, payload |-> 0]

TypeOK ==
    /\ config \in Stores /\ rank \in [Keys -> Nat]
    /\ config.kind = "signed" => config.signing_key \in Keys
    /\ store \in [Servers -> Stores]
    /\ \A s \in Servers : store[s].kind = "signed" => store[s].signing_key \in Keys
    /\ request \in [Servers -> Requests]
    /\ cookies \subseteq Cookies
    /\ clock \in Nat
    /\ unused_since \in [Keys -> Nat]

\* The bug of a signed store that can be made without a key.
UnkeyedStore == [kind |-> "signed", signing_key |-> NoKey, fallback_keys |-> {}]

\* CookieStore::new
PlainStore == [kind |-> "plain", signing_key |-> NoKey, fallback_keys |-> {}]

\* SignedCookieStore::new
SignedStore(k) == [kind |-> "signed", signing_key |-> k, fallback_keys |-> {}]

\* The bug of one fallback that each call replaces.
OnlyFallbackKey(st, k) == [st EXCEPT !.fallback_keys = {k}]

\* SignedCookieStore::with_fallback_key
WithFallbackKey(st, k) == [st EXCEPT !.fallback_keys = @ \cup {k}]

\* A site starts with unsigned or with signed cookies.
Init ==
    /\ \E st \in {PlainStore} \cup {SignedStore(k) : k \in Keys} :
         /\ config = st /\ store = [s \in Servers |-> st]
         /\ rank = [k \in Keys |-> IF k = st.signing_key THEN 1 ELSE 0]
    /\ request = [s \in Servers |-> NoRequest]
    /\ cookies = {}
    /\ clock = 0
    /\ unused_since = [k \in Keys |-> 0]

-----------------------------------------------------------------------------
(* The stores.                                                             *)

Signed == {s \in Servers : store[s].kind = "signed"}

\* The keys that a tag is verified with.
Accepted(s) == {store[s].signing_key} \cup store[s].fallback_keys

\* Standard Base64 with padding.
Base64Len(bytes) == 4 * ((bytes + 2) \div 3)

\* format! of PREFIX and the encoded tag and payload
SignedLen(payload) == PrefixLen + Base64Len(TagLen + payload)

\* Session::is_expired
Expired(c) == c.expiry < clock

\* The bug of accepting unsigned cookies while a rotation is going on.
AcceptsLegacy(s, c) ==
    /\ c.format = "signed" \/ store[s].fallback_keys # {}
    /\ c.length <= MaxValueLen
    /\ c.format = "signed" => c.key \in Accepted(s)
    /\ ~Expired(c)

\* SignedCookieStore::load_session: a CookieStore value has no prefix.
LoadsSigned(s, c) ==
    /\ c.length <= MaxValueLen
    /\ c.format = "signed"
    /\ c.key \in Accepted(s)
    /\ ~Expired(c)

\* load_session returns a session.
Loads(s, c) ==
    IF store[s].kind = "signed" THEN LoadsSigned(s, c)
    ELSE c.format = "plain" /\ ~Expired(c)

\* CookieStore::load_session fails on a signed value: its prefix is not Base64.
Fails(s, c) == store[s].kind = "plain" /\ c.format = "signed"

\* A request brings a cookie.  Without a session in it the application makes
\* a new one; an error ends the request.
LoadSession(s, c) ==
    /\ request[s].at = "none" /\ c \in cookies
    /\ ~Fails(s, c)
    /\ request' = [request EXCEPT ![s] =
         Opened(Loads(s, c) /\ (c.legacy \/ c.format = "plain"))]
    /\ UNCHANGED <<site, store, cookies, clock, unused_since>>

\* A request brings no cookie.
NewSession(s) ==
    /\ request[s].at = "none"
    /\ request' = [request EXCEPT ![s] = Opened(FALSE)]
    /\ UNCHANGED <<site, store, cookies, clock, unused_since>>

\* The bug of a buffer that is one Base64 group too short.
FitsShort(payload) == payload + TagLen <= MaxBinaryLen - 3

\* serialize_bounded succeeds in the buffer of store_session.
Fits(payload) == payload <= MaxBinaryLen - TagLen

Cookie(s, e, n) ==
    LET signed == store[s].kind = "signed"
    IN  [format |-> store[s].kind, key |-> store[s].signing_key, expiry |-> e,
         length |-> IF signed THEN SignedLen(n) ELSE Base64Len(n),
         legacy |-> request[s].legacy]

\* store_session issues a cookie, ...
StoreSession(s, e, n) ==
    /\ request[s].at = "open"
    /\ Cardinality(cookies) < CookieBound
    /\ store[s].kind = "signed" => Fits(n)
    /\ cookies' = cookies \cup {Cookie(s, e, n)}
    /\ UNCHANGED <<site, store, request, clock, unused_since>>

\* ... or fails, before it takes a revision: the session stays unsaved.
RefuseSession(s, n) ==
    /\ request[s].at = "open"
    /\ store[s].kind = "signed" /\ ~Fits(n)
    /\ request' = [request EXCEPT ![s] = [@ EXCEPT !.at = "refused", !.payload = n]]
    /\ UNCHANGED <<site, store, cookies, clock, unused_since>>

\* The request ends.  destroy_session and clear_store do nothing.
EndRequest(s) ==
    /\ request[s].at # "none"
    /\ request' = [request EXCEPT ![s] = NoRequest]
    /\ UNCHANGED <<site, store, cookies, clock, unused_since>>

\* A browser gives up a cookie.
Forget(c) ==
    /\ cookies' = cookies \ {c}
    /\ UNCHANGED <<site, store, request, clock, unused_since>>

-----------------------------------------------------------------------------
(* The deployment.                                                         *)

\* The site changes its configuration; the servers go on with the old one.
Configure(st, ranks) ==
    /\ config' = st /\ rank' = ranks
    /\ UNCHANGED <<store, request, cookies, clock, unused_since>>

\* The site moves to SignedCookieStore.
AdoptSigned(k) ==
    /\ config.kind = "plain"
    /\ Configure(SignedStore(k), [rank EXCEPT ![k] = 1])

\* new(new_key).with_fallback_key(old_key), and the fallback keys there were
RotateKey(k) ==
    /\ config.kind = "signed" /\ rank[k] = 0
    /\ Configure(WithFallbackKey([SignedStore(k) EXCEPT !.fallback_keys = config.fallback_keys],
                                 config.signing_key),
                 [rank EXCEPT ![k] = rank[config.signing_key] + 1])

\* "Remove fallback keys after the maximum lifetime of cookies signed by them."
RemoveFallbackKey(k) ==
    /\ k \in config.fallback_keys
    /\ \A t \in Signed : store[t].signing_key # k
    /\ clock > unused_since[k] + MaxLifetime
    /\ Configure([config EXCEPT !.fallback_keys = @ \ {k}], rank)

\* A server restarts with the configuration of the site.
Deploy(s) ==
    /\ store[s] # config
    /\ store' = [store EXCEPT ![s] = config]
    /\ request' = [request EXCEPT ![s] = NoRequest]
    /\ unused_since' = [k \in Keys |->
         IF k = store[s].signing_key /\ k # config.signing_key THEN clock
         ELSE unused_since[k]]
    /\ UNCHANGED <<site, cookies, clock>>

Tick ==
    /\ clock < Horizon
    /\ clock' = clock + 1
    /\ UNCHANGED <<site, store, request, cookies, unused_since>>

Next ==
    \/ \E s \in Servers :
         \/ \E c \in cookies : LoadSession(s, c)
         \/ NewSession(s) \/ EndRequest(s)
         \/ \E n \in PayloadLens :
              \/ \E e \in 0 .. clock + MaxLifetime : StoreSession(s, e, n)
              \/ RefuseSession(s, n)
         \/ Deploy(s)
    \/ \E k \in Keys : AdoptSigned(k) \/ RotateKey(k) \/ RemoveFallbackKey(k)
    \/ \E c \in cookies : Forget(c)
    \/ Tick

Spec == Init /\ [][Next]_vars

-----------------------------------------------------------------------------

\* "with_fallback_key permits existing cookies to survive key rotation": from
\* its save to its expiry a signed cookie is read by every server that signs
\* with the key of the cookie or one that the site took up later, however many
\* rotations, removals and restarts of other servers there are in between.  (A
\* server that has not yet restarted with the key of the cookie rejects it.)
LiveCookiesLoad ==
    \A c \in cookies, s \in Signed :
        /\ c.format = "signed" /\ ~Expired(c)
        /\ rank[c.key] <= rank[store[s].signing_key]
        => Loads(s, c)

\* No chain of requests turns the contents of an unsigned cookie into those
\* of a signed one ("unsigned legacy values are never accepted").
NothingUnsignedGetsSigned ==
    \A c \in cookies : c.format = "signed" => ~c.legacy

\* A save is refused only if its cookie would be too long to be loaded.
RefusesOnlyOversized ==
    \A s \in Servers :
        request[s].at = "refused" => SignedLen(request[s].payload) > MaxValueLen
=============================================================================

-------------------------- MODULE SignedCookieProofs --------------------------
(***************************************************************************)
(* The properties of SignedCookie, for any number of servers and keys, any *)
(* lifetime and any length limits.                                         *)
(***************************************************************************)
EXTENDS SignedCookie, TLAPS

SignedCookies == {c \in cookies : c.format = "signed"}

\* A signed cookie has a key and a loadable length.
WellFormed ==
    \A c \in SignedCookies : c.key \in Keys /\ c.length <= MaxValueLen

\* The keys that still matter: a server signs with them, or a live cookie bears
\* them.
InUse(k) ==
    \/ \E s \in Signed : store[s].signing_key = k
    \/ \E c \in SignedCookies : c.key = k /\ ~Expired(c)

Verifies(st, k) == k \in {st.signing_key} \cup st.fallback_keys

\* Before the site adopts signed cookies there are none.
PlainSite ==
    config.kind = "plain" =>
        /\ config = PlainStore /\ \A s \in Servers : store[s] = config
        /\ SignedCookies = {} /\ \A k \in Keys : rank[k] = 0

\* Keys are taken up in a strict order, and the configuration has the last one.
KeysOrdered ==
    /\ \A k \in Keys : InUse(k) => rank[k] > 0
    /\ \A j, k \in Keys : rank[j] = rank[k] /\ rank[k] > 0 => j = k
    /\ config.kind = "signed" =>
         /\ rank[config.signing_key] > 0
         /\ \A k \in Keys : rank[k] <= rank[config.signing_key]

\* The configuration verifies every key that matters, ...
ConfigVerifies ==
    config.kind = "signed" => \A k \in Keys : InUse(k) => Verifies(config, k)

\* ... and every server those up to its own.
ServersVerify ==
    \A s \in Signed, k \in Keys :
        InUse(k) /\ rank[k] <= rank[store[s].signing_key] => Verifies(store[s], k)

\* No cookie outlives the time that RemoveFallbackKey waits for.
LifetimeBounded ==
    \A c \in SignedCookies :
        /\ c.expiry <= clock + MaxLifetime
        /\ \/ \E s \in Signed : store[s].signing_key = c.key
           \/ c.expiry <= unused_since[c.key] + MaxLifetime

\* A server that signs does not handle contents of an unsigned cookie.
NoLegacyRequest == \A s \in Signed : ~request[s].legacy

KeyInv ==
    PlainSite /\ KeysOrdered /\ ConfigVerifies /\ ServersVerify /\ LifetimeBounded

IInv ==
    /\ TypeOK
    /\ WellFormed
    /\ KeyInv
    /\ NoLegacyRequest
    /\ NothingUnsignedGetsSigned
    /\ RefusesOnlyOversized

-----------------------------------------------------------------------------

\* The byte limit of a save is exactly the character limit of a load: payloads
\* that fit are those whose cookie is short enough (MAX_BINARY_LEN).
LEMMA FitsIffLoadable ==
    ASSUME NEW n \in Nat
    PROVE  Fits(n) <=> SignedLen(n) <= MaxValueLen
<1> DEFINE room == MaxValueLen - PrefixLen
           groups == (TagLen + n + 2) \div 3
<1>1. room \in Nat /\ TagLen \in Nat /\ TagLen + n \in Nat
  BY LengthAssumption
<1>2. /\ groups \in Nat /\ 3 * groups <= TagLen + n + 2 /\ TagLen + n <= 3 * groups
  BY <1>1
<1>3. /\ room \div 4 \in Nat /\ 4 * (room \div 4) <= room /\ room < 4 * (room \div 4) + 4
  BY <1>1
<1> HIDE DEF room, groups
<1>4. Fits(n) <=> TagLen + n <= 3 * (room \div 4)
  BY <1>1, <1>3 DEF Fits, MaxBinaryLen, room
<1>5. SignedLen(n) <= MaxValueLen <=> 4 * groups <= room
  BY <1>1, <1>2, LengthAssumption DEF SignedLen, Base64Len, room, groups
<1>6. TagLen + n <= 3 * (room \div 4) <=> groups <= room \div 4
  BY <1>1, <1>2, <1>3
<1>7. groups <= room \div 4 <=> 4 * groups <= room
  BY <1>1, <1>2, <1>3
<1> QED  BY <1>4, <1>5, <1>6, <1>7

-----------------------------------------------------------------------------
(* The steps.                                                              *)

LEMMA InitHolds == Init => IInv
<1> SUFFICES ASSUME Init PROVE IInv
  OBVIOUS
<1>1. PICK st \in {PlainStore} \cup {SignedStore(k) : k \in Keys} :
        /\ config = st /\ store = [s \in Servers |-> st]
        /\ rank = [k \in Keys |-> IF k = st.signing_key THEN 1 ELSE 0]
  BY DEF Init
<1>2. /\ st \in Stores /\ st.fallback_keys = {}
      /\ st.kind = "signed" <=> st.signing_key \in Keys
      /\ st.kind = "plain" => st = PlainStore
  BY <1>1, NoKeyAssumption DEF PlainStore, SignedStore, Stores
<1>3. TypeOK
  BY <1>1, <1>2 DEF Init, TypeOK, Requests, NoRequest
<1>4. SignedCookies = {} /\ cookies = {}
  BY DEF Init, SignedCookies
<1>5. \A k \in Keys : InUse(k) => st.kind = "signed" /\ k = st.signing_key
  BY <1>1, <1>4 DEF InUse, Signed
<1>6. PlainSite /\ LifetimeBounded
  BY <1>1, <1>2, <1>4 DEF PlainSite, LifetimeBounded, PlainStore
<1>7. KeysOrdered
  BY <1>1, <1>2, <1>5 DEF KeysOrdered
<1>8. ConfigVerifies /\ ServersVerify
  BY <1>1, <1>2, <1>5 DEF ConfigVerifies, ServersVerify, Verifies, Signed
<1>9. WellFormed /\ NothingUnsignedGetsSigned
  BY <1>4 DEF WellFormed, NothingUnsignedGetsSigned
<1>10. NoLegacyRequest /\ RefusesOnlyOversized
  BY DEF Init, NoLegacyRequest, RefusesOnlyOversized, NoRequest, Signed
<1> QED  BY <1>3, <1>6, <1>7, <1>8, <1>9, <1>10 DEF IInv, KeyInv

\* While servers and their configuration stay as they are, keys only leave use.
LEMMA KeysKept ==
    ASSUME IInv, UNCHANGED <<site, store, unused_since>>, clock' \in Nat, clock' >= clock,
           \A c \in SignedCookies' :
               \/ c \in SignedCookies
               \/ /\ c.expiry <= clock' + MaxLifetime
                  /\ \E s \in Signed : store[s].signing_key = c.key
    PROVE  KeyInv'
<1>1. UNCHANGED <<config, rank, store, unused_since>> /\ Signed' = Signed
  BY DEF site, Signed
<1>2. \A c \in SignedCookies : c.expiry \in Nat /\ c \in cookies
  BY DEF IInv, TypeOK, Cookies, SignedCookies
<1>3. clock \in Nat /\ \A c \in SignedCookies : Expired(c) => c.expiry < clock'
  BY <1>2 DEF IInv, TypeOK, Expired
<1>4. ASSUME NEW k \in Keys, InUse(k)' PROVE InUse(k)
  <2>1. CASE \E s \in Signed : store[s].signing_key = k
    BY <2>1 DEF InUse
  <2>2. CASE \E c \in SignedCookies' : c.key = k /\ ~(c.expiry < clock')
    BY <1>3, <2>2 DEF InUse
  <2> QED  BY <1>1, <1>4, <2>1, <2>2 DEF InUse, Expired
<1>5. KeysOrdered' /\ ConfigVerifies' /\ ServersVerify'
  BY <1>1, <1>4 DEF IInv, KeyInv, KeysOrdered, ConfigVerifies, ServersVerify, Verifies
<1>6. LifetimeBounded'
  <2> SUFFICES ASSUME NEW c \in SignedCookies'
               PROVE  /\ c.expiry <= clock' + MaxLifetime
                      /\ \/ \E s \in Signed : store[s].signing_key = c.key
                         \/ c.expiry <= unused_since[c.key] + MaxLifetime
    BY <1>1 DEF LifetimeBounded
  <2>1. CASE c \in SignedCookies
    <3>1. /\ c.expiry <= clock + MaxLifetime
          /\ \/ \E s \in Signed : store[s].signing_key = c.key
             \/ c.expiry <= unused_since[c.key] + MaxLifetime
      BY <2>1 DEF IInv, KeyInv, LifetimeBounded
    <3>2. c.expiry <= clock' + MaxLifetime
      BY <1>2, <1>3, <2>1, <3>1, LifetimeAssumption
    <3> QED  BY <3>1, <3>2
  <2> QED  BY <2>1
<1>7. PlainSite'
  BY <1>1 DEF IInv, KeyInv, PlainSite, Signed, TypeOK
<1> QED  BY <1>5, <1>6, <1>7 DEF KeyInv

\* Requests come and go: only what they hold matters.
LEMMA RequestStep ==
    ASSUME IInv, UNCHANGED <<site, store, cookies, clock, unused_since>>,
           NEW s \in Servers, NEW r \in Requests,
           request' = [request EXCEPT ![s] = r],
           s \in Signed => ~r.legacy,
           r.at = "refused" => SignedLen(r.payload) > MaxValueLen
    PROVE  IInv'
<1>1. TypeOK'
  BY DEF IInv, TypeOK, site
<1>2. NoLegacyRequest' /\ RefusesOnlyOversized'
  BY DEF IInv, TypeOK, NoLegacyRequest, RefusesOnlyOversized, Signed
<1>3. SignedCookies' = SignedCookies /\ clock' \in Nat /\ clock' >= clock
  BY DEF SignedCookies, IInv, TypeOK
<1>4. KeyInv'
  BY <1>3, KeysKept
<1>5. WellFormed' /\ NothingUnsignedGetsSigned'
  BY <1>3 DEF IInv, WellFormed, NothingUnsignedGetsSigned
<1> QED  BY <1>1, <1>2, <1>4, <1>5 DEF IInv

LEMMA RequestsHold ==
    ASSUME IInv, NEW s \in Servers,
           \/ \E c \in cookies : LoadSession(s, c)
           \/ NewSession(s)
           \/ \E n \in PayloadLens : RefuseSession(s, n)
           \/ EndRequest(s)
    PROVE  IInv'
<1>1. CASE \E c \in cookies : LoadSession(s, c)
  <2>1. PICK c \in cookies : LoadSession(s, c)
    BY <1>1
  <2> DEFINE r == Opened(Loads(s, c) /\ (c.legacy \/ c.format = "plain"))
  <2>2. s \in Signed /\ Loads(s, c) => ~c.legacy /\ c.format = "signed"
    BY DEF IInv, NothingUnsignedGetsSigned, Loads, LoadsSigned, Signed
  <2>3. r \in Requests /\ r.at = "open" /\ (s \in Signed => ~r.legacy)
    BY <2>2 DEF Opened, Requests
  <2> QED  BY <2>1, <2>3, RequestStep DEF LoadSession
<1>2. CASE NewSession(s)
  <2>1. Opened(FALSE) \in Requests /\ Opened(FALSE).at = "open" /\ ~Opened(FALSE).legacy
    BY DEF Opened, Requests
  <2> QED  BY <1>2, <2>1, RequestStep DEF NewSession
<1>3. CASE \E n \in PayloadLens : RefuseSession(s, n)
  <2>1. PICK n \in PayloadLens : RefuseSession(s, n)
    BY <1>3
  <2> DEFINE r == [request[s] EXCEPT !.at = "refused", !.payload = n]
  <2>2. n \in Nat /\ SignedLen(n) \in Int /\ ~(SignedLen(n) <= MaxValueLen)
    <3>1. n \in Nat /\ ~Fits(n)
      BY <2>1, LengthAssumption DEF RefuseSession
    <3> QED  BY <3>1, FitsIffLoadable, LengthAssumption DEF SignedLen, Base64Len
  <2>3. request[s] \in Requests /\ (s \in Signed => ~request[s].legacy)
    BY DEF IInv, TypeOK, NoLegacyRequest
  <2>4. r \in Requests /\ r.payload = n /\ (s \in Signed => ~r.legacy)
    BY <2>2, <2>3 DEF Requests
  <2>5. SignedLen(r.payload) > MaxValueLen
    BY <2>2, <2>4, LengthAssumption
  <2>6. request' = [request EXCEPT ![s] = r]
    BY <2>1 DEF RefuseSession
  <2> HIDE DEF r
  <2> QED  BY <2>1, <2>4, <2>5, <2>6, RequestStep DEF RefuseSession
<1>4. CASE EndRequest(s)
  <2>1. NoRequest \in Requests /\ NoRequest.at = "none" /\ ~NoRequest.legacy
    BY DEF NoRequest, Requests
  <2> QED  BY <1>4, <2>1, RequestStep DEF EndRequest
<1> QED  BY <1>1, <1>2, <1>3, <1>4

LEMMA StoreSessionHolds ==
    ASSUME IInv, NEW s \in Servers, NEW e \in 0 .. clock + MaxLifetime,
           NEW n \in PayloadLens, StoreSession(s, e, n)
    PROVE  IInv'
<1> DEFINE new == Cookie(s, e, n)
<1>1. /\ cookies' = cookies \cup {new}
      /\ UNCHANGED <<site, store, request, clock, unused_since>>
      /\ store[s].kind = "signed" => Fits(n)
  BY DEF StoreSession
<1>2. n \in Nat /\ SignedLen(n) \in Nat /\ Base64Len(n) \in Nat /\ e \in Nat
  BY LengthAssumption, LifetimeAssumption DEF SignedLen, Base64Len, IInv, TypeOK
<1>3. /\ new \in Cookies /\ new.expiry = e
      /\ new.format = "signed" =>
           /\ s \in Signed /\ new.key = store[s].signing_key /\ new.key \in Keys
           /\ new.length <= MaxValueLen /\ ~new.legacy
  <2>1. store[s] \in Stores /\ request[s] \in Requests
    BY DEF IInv, TypeOK
  <2>2. new \in Cookies /\ new.expiry = e
    BY <1>2, <2>1 DEF Cookie, Cookies, Stores, Requests
  <2>3. ASSUME new.format = "signed"
        PROVE  /\ s \in Signed /\ new.key = store[s].signing_key /\ new.key \in Keys
               /\ new.length = SignedLen(n) /\ ~new.legacy
    BY <2>3 DEF Cookie, Signed, IInv, TypeOK, NoLegacyRequest
  <2>4. Fits(n) => SignedLen(n) <= MaxValueLen
    BY <1>2, FitsIffLoadable
  <2> QED  BY <1>1, <2>2, <2>3, <2>4 DEF Signed
<1> HIDE DEF new
<1>4. \A c \in SignedCookies' : c \in SignedCookies \/ (c = new /\ new.format = "signed")
  BY <1>1 DEF SignedCookies
<1>5. TypeOK'
  BY <1>1, <1>3 DEF IInv, TypeOK, site
<1>6. WellFormed'
  BY <1>1, <1>3, <1>4 DEF IInv, WellFormed, Signed
<1>7. clock \in Nat /\ e <= clock + MaxLifetime
  BY DEF IInv, TypeOK
<1>8. KeyInv'
  BY <1>1, <1>3, <1>4, <1>7, KeysKept
<1>9. NoLegacyRequest' /\ RefusesOnlyOversized'
  BY <1>1 DEF IInv, NoLegacyRequest, RefusesOnlyOversized, Signed
<1>10. NothingUnsignedGetsSigned'
  BY <1>1, <1>3 DEF IInv, NothingUnsignedGetsSigned
<1> QED  BY <1>5, <1>6, <1>8, <1>9, <1>10 DEF IInv

\* Fewer cookies, or a later clock.
LEMMA PassingHolds ==
    ASSUME IInv, (\E c \in cookies : Forget(c)) \/ Tick
    PROVE  IInv'
<1>1. /\ cookies' \subseteq cookies /\ UNCHANGED <<site, store, request, unused_since>>
      /\ clock' \in Nat /\ clock' >= clock
  BY DEF Forget, Tick, IInv, TypeOK
<1>2. SignedCookies' \subseteq SignedCookies /\ SignedCookies \subseteq cookies
  BY <1>1 DEF SignedCookies
<1>3. TypeOK' /\ WellFormed' /\ NothingUnsignedGetsSigned'
  BY <1>1, <1>2 DEF IInv, TypeOK, WellFormed, NothingUnsignedGetsSigned, site
<1>4. KeyInv'
  BY <1>1, <1>2, KeysKept
<1>5. NoLegacyRequest' /\ RefusesOnlyOversized'
  BY <1>1 DEF IInv, NoLegacyRequest, RefusesOnlyOversized, Signed
<1> QED  BY <1>3, <1>4, <1>5 DEF IInv

-----------------------------------------------------------------------------
(* The deployment.                                                         *)

\* A new configuration changes no server and no cookie: it has to verify the
\* keys in use and to have the last of the keys.
LEMMA ConfigureStep ==
    ASSUME IInv, NEW st \in Stores, NEW ranks \in [Keys -> Nat], Configure(st, ranks),
           st.kind = "signed", st.signing_key \in Keys,
           \A k \in Keys : InUse(k) => Verifies(st, k) /\ ranks[k] = rank[k],
           \A j, k \in Keys : ranks[j] = ranks[k] /\ ranks[k] > 0 => j = k,
           ranks[st.signing_key] > 0,
           \A k \in Keys : ranks[k] <= ranks[st.signing_key]
    PROVE  IInv'
<1>1. /\ config' = st /\ rank' = ranks
      /\ UNCHANGED <<store, request, cookies, clock, unused_since>>
      /\ Signed' = Signed /\ SignedCookies' = SignedCookies
  BY DEF Configure, Signed, SignedCookies
<1>2. \A k : InUse(k)' <=> InUse(k)
  BY <1>1 DEF InUse, Expired
<1>3. \A s \in Signed : store[s].signing_key \in Keys /\ InUse(store[s].signing_key)
  BY DEF IInv, TypeOK, Signed, InUse
<1>4. TypeOK' /\ WellFormed'
  BY <1>1 DEF IInv, TypeOK, WellFormed
<1>5. NoLegacyRequest' /\ NothingUnsignedGetsSigned' /\ RefusesOnlyOversized'
  BY <1>1 DEF IInv, NoLegacyRequest, NothingUnsignedGetsSigned, RefusesOnlyOversized
<1>6. KeysOrdered'
  BY <1>1, <1>2 DEF IInv, KeyInv, KeysOrdered
<1>7. PlainSite' /\ ConfigVerifies' /\ LifetimeBounded'
  BY <1>1, <1>2 DEF IInv, KeyInv, PlainSite, ConfigVerifies, LifetimeBounded
<1>8. ServersVerify'
  BY <1>1, <1>2, <1>3 DEF IInv, KeyInv, ServersVerify, Verifies
<1> QED  BY <1>4, <1>5, <1>6, <1>7, <1>8 DEF IInv, KeyInv

LEMMA AdoptSignedHolds ==
    ASSUME IInv, NEW k \in Keys, AdoptSigned(k)
    PROVE  IInv'
<1> DEFINE st == SignedStore(k)
           ranks == [rank EXCEPT ![k] = 1]
<1>1. config.kind = "plain" /\ Configure(st, ranks)
  BY DEF AdoptSigned
<1>2. st \in Stores /\ st.kind = "signed" /\ st.signing_key = k
  BY DEF SignedStore, Stores
<1>3. \A j \in Keys : ~InUse(j)
  BY <1>1 DEF IInv, KeyInv, PlainSite, InUse, Signed
<1>4. \A j \in Keys : rank[j] = 0
  BY <1>1 DEF IInv, KeyInv, PlainSite
<1>5. /\ ranks \in [Keys -> Nat] /\ ranks[k] = 1
      /\ \A j \in Keys : j # k => ranks[j] = 0
  BY <1>4 DEF IInv, TypeOK
<1> HIDE DEF st, ranks
<1> QED  BY <1>1, <1>2, <1>3, <1>5, ConfigureStep

LEMMA RotateKeyHolds ==
    ASSUME IInv, NEW k \in Keys, RotateKey(k)
    PROVE  IInv'
<1> DEFINE old == config.signing_key
           st == WithFallbackKey([SignedStore(k) EXCEPT !.fallback_keys = config.fallback_keys], old)
           ranks == [rank EXCEPT ![k] = rank[old] + 1]
<1>1. config.kind = "signed" /\ rank[k] = 0 /\ Configure(st, ranks)
  BY DEF RotateKey
<1>2. config \in Stores /\ rank \in [Keys -> Nat] /\ old \in Keys
  BY <1>1 DEF IInv, TypeOK
<1>3. /\ st \in Stores /\ st.kind = "signed" /\ st.signing_key = k
      /\ \A j : Verifies(config, j) => Verifies(st, j)
  BY <1>2 DEF WithFallbackKey, SignedStore, Stores, Verifies
<1> HIDE DEF st
<1>4. \A j \in Keys : rank[j] <= rank[old]
  BY <1>1 DEF IInv, KeyInv, KeysOrdered
<1>5. \A j \in Keys : InUse(j) => Verifies(st, j) /\ j # k
  BY <1>1, <1>3 DEF IInv, KeyInv, KeysOrdered, ConfigVerifies
<1>6. \A i, j \in Keys : rank[i] = rank[j] /\ rank[j] > 0 => i = j
  BY DEF IInv, KeyInv, KeysOrdered
<1>7. /\ ranks \in [Keys -> Nat] /\ ranks[k] > 0
      /\ \A j \in Keys : InUse(j) => ranks[j] = rank[j]
      /\ \A j \in Keys : ranks[j] <= ranks[k]
      /\ \A i, j \in Keys : ranks[i] = ranks[j] /\ ranks[j] > 0 => i = j
  BY <1>2, <1>4, <1>5, <1>6
<1> HIDE DEF ranks
<1> QED  BY <1>1, <1>3, <1>5, <1>7, ConfigureStep

\* After the wait no live cookie has the key, and no server signs with it.
LEMMA RemoveFallbackKeyHolds ==
    ASSUME IInv, NEW k \in Keys, RemoveFallbackKey(k)
    PROVE  IInv'
<1> DEFINE st == [config EXCEPT !.fallback_keys = @ \ {k}]
<1>1. /\ k \in config.fallback_keys
      /\ \A t \in Signed : store[t].signing_key # k
      /\ clock > unused_since[k] + MaxLifetime
      /\ Configure(st, rank)
  BY DEF RemoveFallbackKey
<1>2. /\ config.kind = "signed" /\ config.signing_key \in Keys
      /\ config \in Stores /\ rank \in [Keys -> Nat]
  BY <1>1 DEF IInv, TypeOK, KeyInv, PlainSite, PlainStore, Stores
<1>3. /\ st \in Stores /\ st.kind = "signed" /\ st.signing_key = config.signing_key
      /\ \A j : Verifies(config, j) /\ j # k => Verifies(st, j)
  BY <1>2 DEF Stores, Verifies
<1> HIDE DEF st
<1>4. ~InUse(k)
  <2> SUFFICES ASSUME NEW c \in SignedCookies, c.key = k, ~Expired(c) PROVE FALSE
    BY <1>1 DEF InUse
  <2>1. c.expiry \in Nat /\ clock \in Nat /\ c.expiry >= clock
    BY DEF IInv, TypeOK, Cookies, SignedCookies, Expired
  <2>2. c.expiry <= unused_since[k] + MaxLifetime
    BY <1>1 DEF IInv, KeyInv, LifetimeBounded
  <2>3. unused_since[k] \in Nat
    BY DEF IInv, TypeOK
  <2> QED  BY <1>1, <2>1, <2>2, <2>3, LifetimeAssumption
<1>5. \A j \in Keys : InUse(j) => Verifies(st, j)
  BY <1>2, <1>3, <1>4 DEF IInv, KeyInv, ConfigVerifies
<1>6. /\ \A i, j \in Keys : rank[i] = rank[j] /\ rank[j] > 0 => i = j
      /\ rank[st.signing_key] > 0
      /\ \A j \in Keys : rank[j] <= rank[st.signing_key]
  BY <1>2, <1>3 DEF IInv, KeyInv, KeysOrdered
<1> QED  BY <1>1, <1>2, <1>3, <1>5, <1>6, ConfigureStep

\* A restarted server verifies all keys in use.  Its key may be new to the
\* others, but then it is one that the site took up later than theirs.
LEMMA DeployHolds ==
    ASSUME IInv, NEW s \in Servers, Deploy(s)
    PROVE  IInv'
<1> DEFINE key == config.signing_key
           old == store[s].signing_key
<1>1. /\ store[s] # config /\ store' = [store EXCEPT ![s] = config]
      /\ request' = [request EXCEPT ![s] = NoRequest]
      /\ unused_since' = [k \in Keys |->
           IF k = old /\ k # key THEN clock ELSE unused_since[k]]
      /\ UNCHANGED <<config, rank, cookies, clock>> /\ SignedCookies' = SignedCookies
  BY DEF Deploy, site, SignedCookies
<1>2. /\ config.kind = "signed" /\ config \in Stores /\ key \in Keys
      /\ rank \in [Keys -> Nat] /\ clock \in Nat /\ NoRequest \in Requests
  BY <1>1 DEF IInv, TypeOK, KeyInv, PlainSite, Stores, NoRequest, Requests
<1>3. /\ store' \in [Servers -> Stores] /\ store'[s] = config
      /\ \A t \in Servers : t # s => store'[t] = store[t]
      /\ request' \in [Servers -> Requests] /\ request'[s] = NoRequest
      /\ \A t \in Servers : t # s => request'[t] = request[t]
  BY <1>1, <1>2 DEF IInv, TypeOK
<1>4. Signed' = Signed \cup {s} /\ Signed \subseteq Servers
  BY <1>2, <1>3 DEF Signed
<1>5. TypeOK'
  BY <1>1, <1>2, <1>3 DEF IInv, TypeOK
<1>6. NoLegacyRequest' /\ RefusesOnlyOversized'
  BY <1>3, <1>4 DEF IInv, NoLegacyRequest, RefusesOnlyOversized, NoRequest
<1>7. WellFormed' /\ NothingUnsignedGetsSigned'
  BY <1>1 DEF IInv, WellFormed, NothingUnsignedGetsSigned
<1>8. ASSUME NEW k, InUse(k)' PROVE InUse(k) \/ k = key
  BY <1>1, <1>3, <1>4, <1>8 DEF InUse, Expired
<1>9. PlainSite' /\ KeysOrdered' /\ ConfigVerifies'
  BY <1>1, <1>2, <1>8 DEF IInv, KeyInv, PlainSite, KeysOrdered, ConfigVerifies, Verifies
<1>10. ServersVerify'
  <2> SUFFICES ASSUME NEW t \in Signed', NEW k \in Keys, InUse(k)',
                      rank[k] <= rank[store'[t].signing_key]
               PROVE  Verifies(store'[t], k)
    BY <1>1 DEF ServersVerify, Verifies
  <2>1. CASE t = s
    BY <1>2, <1>3, <1>8, <2>1 DEF IInv, KeyInv, ConfigVerifies, Verifies
  <2>2. CASE t # s /\ InUse(k)
    BY <1>3, <1>4, <2>2 DEF IInv, KeyInv, ServersVerify
  <2>3. CASE t # s /\ k = key
    <3>1. t \in Signed /\ store'[t] = store[t] /\ store[t].signing_key \in Keys
      BY <1>3, <1>4, <2>3 DEF IInv, TypeOK, Signed
    <3>2. rank[store[t].signing_key] <= rank[key] /\ rank[key] > 0
      BY <1>2, <3>1 DEF IInv, KeyInv, KeysOrdered
    <3>3. rank[store[t].signing_key] = rank[key]
      BY <1>2, <2>3, <3>1, <3>2
    <3>4. store[t].signing_key = key
      BY <1>2, <3>1, <3>2, <3>3 DEF IInv, KeyInv, KeysOrdered
    <3> QED  BY <2>3, <3>1, <3>4 DEF Verifies
  <2> QED  BY <1>8, <2>1, <2>2, <2>3
<1>11. LifetimeBounded'
  <2> SUFFICES ASSUME NEW c \in SignedCookies
               PROVE  /\ c.expiry <= clock + MaxLifetime
                      /\ \/ \E t \in Signed' : store'[t].signing_key = c.key
                         \/ c.expiry <= unused_since'[c.key] + MaxLifetime
    BY <1>1 DEF LifetimeBounded
  <2>1. /\ c.expiry <= clock + MaxLifetime /\ c.key \in Keys
        /\ \/ \E t \in Signed : store[t].signing_key = c.key
           \/ c.expiry <= unused_since[c.key] + MaxLifetime
    BY DEF IInv, KeyInv, LifetimeBounded, WellFormed
  <2>2. CASE c.key = key
    BY <1>3, <1>4, <2>1, <2>2
  <2>3. CASE c.key # key /\ c.key = old
    BY <1>1, <2>1, <2>3
  <2>4. CASE c.key # key /\ c.key # old
    BY <1>1, <1>3, <1>4, <2>1, <2>4
  <2> QED  BY <2>2, <2>3, <2>4
<1> QED  BY <1>5, <1>6, <1>7, <1>9, <1>10, <1>11 DEF IInv, KeyInv

LEMMA NextHolds == IInv /\ [Next]_vars => IInv'
<1> SUFFICES ASSUME IInv, [Next]_vars PROVE IInv'
  OBVIOUS
<1>1. CASE UNCHANGED vars
  <2>1. SignedCookies' = SignedCookies /\ Signed' = Signed
    BY <1>1 DEF vars, SignedCookies, Signed
  <2>2. KeyInv'
    BY <1>1, <2>1, KeysKept DEF vars, site, IInv, TypeOK
  <2> QED  BY <1>1, <2>1, <2>2 DEF vars, IInv, TypeOK, WellFormed, NoLegacyRequest,
              NothingUnsignedGetsSigned, RefusesOnlyOversized
<1>2. CASE (\E c \in cookies : Forget(c)) \/ Tick
  BY <1>2, PassingHolds
<1>3. ASSUME NEW s \in Servers,
             \/ \E c \in cookies : LoadSession(s, c)
             \/ NewSession(s) \/ EndRequest(s)
             \/ \E n \in PayloadLens : RefuseSession(s, n)
      PROVE  IInv'
  BY <1>3, RequestsHold
<1>4. ASSUME NEW s \in Servers, NEW n \in PayloadLens,
             NEW e \in 0 .. clock + MaxLifetime, StoreSession(s, e, n)
      PROVE  IInv'
  BY <1>4, StoreSessionHolds
<1>5. ASSUME NEW k \in Keys, AdoptSigned(k) \/ RotateKey(k) \/ RemoveFallbackKey(k)
      PROVE  IInv'
  BY <1>5, AdoptSignedHolds, RotateKeyHolds, RemoveFallbackKeyHolds
<1>6. ASSUME NEW s \in Servers, Deploy(s)
      PROVE  IInv'
  BY <1>6, DeployHolds
<1> QED  BY <1>1, <1>2, <1>3, <1>4, <1>5, <1>6 DEF Next

-----------------------------------------------------------------------------

LEMMA Invariance == Spec => []IInv
<1>1. Init => IInv
  BY InitHolds
<1>2. IInv /\ [Next]_vars => IInv'
  BY NextHolds
<1> QED  BY <1>1, <1>2, PTL DEF Spec

\* Every store, request, cookie and time keeps its type.
THEOREM SignedCookieTypes == Spec => []TypeOK
<1>1. IInv => TypeOK
  BY DEF IInv
<1> QED  BY <1>1, Invariance, PTL

\* A live signed cookie is read by every server that signs with its key or a
\* later one: for any number of servers, any number of documented rotations
\* (new, with_fallback_key), any lag of the servers behind the configuration,
\* and removals of fallback keys after the lifetime of their cookies.
THEOREM LiveSignedCookiesLoad == Spec => []LiveCookiesLoad
<1>1. IInv => LiveCookiesLoad
  <2> SUFFICES ASSUME IInv, NEW c \in cookies, NEW s \in Signed, c.format = "signed",
                      ~Expired(c), rank[c.key] <= rank[store[s].signing_key]
               PROVE  Loads(s, c)
    BY DEF LiveCookiesLoad
  <2>1. c \in SignedCookies /\ c.key \in Keys /\ InUse(c.key)
    BY DEF SignedCookies, InUse, IInv, WellFormed
  <2>2. Verifies(store[s], c.key)
    BY <2>1 DEF IInv, KeyInv, ServersVerify
  <2> QED  BY <2>1, <2>2 DEF Loads, LoadsSigned, Signed, Accepted, Verifies, IInv, WellFormed
<1> QED  BY <1>1, Invariance, PTL

\* load_session never lets unsigned contents into a session that a
\* SignedCookieStore signs.
THEOREM LegacyIsNeverSigned == Spec => []NothingUnsignedGetsSigned
<1>1. IInv => NothingUnsignedGetsSigned
  BY DEF IInv
<1> QED  BY <1>1, Invariance, PTL

\* The buffer of store_session is as large as the limit of load_session
\* allows, whatever the two constants are.
THEOREM OnlyOversizedAreRefused == Spec => []RefusesOnlyOversized
<1>1. IInv => RefusesOnlyOversized
  BY DEF IInv
<1> QED  BY <1>1, Invariance, PTL
=============================================================================

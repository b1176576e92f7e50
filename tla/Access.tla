------------------------------- MODULE Access -------------------------------
(***************************************************************************)
(* Who is let in: validation of a caller's token against the keys its      *)
(* realm publishes (autobench/deps.py, auth/caller_jwt.py, auth/jwks.py,   *)
(* auth/discovery.py, instances.py).                                       *)
(*                                                                         *)
(* The keys of a realm are cached for Ttl; a kid that is not among them    *)
(* forces one fetch.  Requests are coroutines: fetches of one realm run    *)
(* side by side and may end in any order, while the realm rotates its      *)
(* keys.  A fetch lasts any time: http_timeout_seconds limits each phase   *)
(* of it and each read, not the whole, so nothing is assumed of its age.   *)
(* Signatures are the PyJWT library's: a token is its issuer and the kid   *)
(* it was signed with, and only tokens with an allowed algorithm and a kid *)
(* are considered.                                                         *)
(***************************************************************************)
EXTENDS Naturals

CONSTANTS
    Requests,     \* requests, each made once
    Issuers,      \* values of iss
    Urls,         \* where realms publish their keys
    JwksUrl,      \* registry and endpoints_for: [issuers in scope -> Urls]
    Kids,         \* names of keys
    None,         \* absent
    Ttl,          \* jwks_cache_seconds
    MaxTime       \* bound: the clock stops there

ASSUME JwksUrlAssumption == JwksUrl \in [DOMAIN JwksUrl -> Urls] /\ DOMAIN JwksUrl \subseteq Issuers
ASSUME TimesAssumption == {Ttl, MaxTime} \subseteq Nat

VARIABLES
    now,        \* time.monotonic()
    published,  \* [Urls -> the kids that are published there]
    withdrawn,  \* history: [Urls -> [Kids -> when it was withdrawn, or None]]
    cache,      \* JWKSCache: [Urls -> [at, keys], or None]
    req,        \* [Requests -> where the request is and what it asked for]
    missed,     \* history: requests whose kid was unpublished since they came
    verdict     \* [Requests -> "none", "ok", "scope" 403, "key" 401, "error" 500]

realm == <<now, published, withdrawn>>
vars == <<realm, cache, req, missed, verdict>>

Url(r) == JwksUrl[req[r].iss]
Entries == [at : 0..MaxTime, keys : SUBSET Kids]

ASSUME NoneAssumption ==
    None \notin (0..MaxTime) \union Entries /\ \A keys \in SUBSET Kids : None # keys

\* pc: "none", in get_key ("lookup"), awaiting a fetch or the forced one.
Calls == [pc : {"none", "lookup", "fetch", "forced"},
          iss : DOMAIN JwksUrl \union {None}, kid : Kids \union {None},
          began : 0..MaxTime,                     \* _get_keys: `now`
          reply : {None} \union (SUBSET Kids)]    \* the keys on their way
NoCall == [pc |-> "none", iss |-> None, kid |-> None, began |-> 0, reply |-> None]
Waiting == {r \in Requests : req[r].pc \in {"fetch", "forced"}}

TypeOK ==
    /\ now \in 0..MaxTime
    /\ published \in [Urls -> SUBSET Kids]
    /\ withdrawn \in [Urls -> [Kids -> (0..MaxTime) \union {None}]]
    /\ cache \in [Urls -> Entries \union {None}]
    /\ req \in [Requests -> Calls]
    /\ missed \subseteq Requests
    /\ verdict \in [Requests -> {"none", "ok", "scope", "key", "error"}]

Init ==
    /\ now = 0
    /\ published \in [Urls -> SUBSET Kids]
    /\ \A u, v \in Urls : u # v => published[u] \intersect published[v] = {}
    /\ withdrawn = [u \in Urls |-> [k \in Kids |-> None]]
    /\ cache = [u \in Urls |-> None]
    /\ req = [r \in Requests |-> NoCall]
    /\ missed = {}
    /\ verdict = [r \in Requests |-> "none"]

---------------------------------------------------------------------------
\* The realms and the clock.

\* A new key; names of keys are not used again.
Publish(u, k) ==
    /\ \A v \in Urls : k \notin published[v] /\ withdrawn[v][k] = None
    /\ published' = [published EXCEPT ![u] = @ \union {k}]
    /\ UNCHANGED <<now, withdrawn, cache, req, missed, verdict>>

Withdraw(u, k) ==
    /\ k \in published[u]
    /\ published' = [published EXCEPT ![u] = @ \ {k}]
    /\ withdrawn' = [withdrawn EXCEPT ![u][k] = now]
    /\ missed' = missed \union {r \in Requests : req[r].kid = k}
    /\ UNCHANGED <<now, cache, req, verdict>>

\* Time passes while requests wait, however long that takes; a request that
\* has come looks its keys up without an await.
Tick ==
    /\ now < MaxTime
    /\ \A r \in Requests : req[r].pc # "lookup"
    /\ now' = now + 1
    /\ UNCHANGED <<published, withdrawn, cache, req, missed, verdict>>

---------------------------------------------------------------------------
\* A request.

Answer(r, v) ==
    /\ req' = [req EXCEPT ![r] = NoCall]
    /\ verdict' = [verdict EXCEPT ![r] = v]

\* require_caller_jwt: an issuer in scope selects the instance and its keys.
Arrive(r, i, k) ==
    /\ verdict[r] = "none" /\ req[r] = NoCall
    /\ i \in DOMAIN JwksUrl
    /\ req' = [req EXCEPT ![r] = [NoCall EXCEPT !.pc = "lookup", !.iss = i, !.kid = k]]
    /\ missed' = IF k \in published[JwksUrl[i]] THEN missed ELSE missed \union {r}
    /\ UNCHANGED <<realm, cache, verdict>>

OutOfScope(r, i) ==
    /\ verdict[r] = "none" /\ req[r] = NoCall
    /\ i \notin DOMAIN JwksUrl
    /\ Answer(r, "scope")
    /\ UNCHANGED <<realm, cache, missed>>

\* A fetch begins; its age counts from before it is sent.
Fetch(r, stage) ==
    /\ req' = [req EXCEPT ![r] = [@ EXCEPT !.pc = stage, !.began = now, !.reply = None]]
    /\ UNCHANGED verdict

Fresh(u) == cache[u] # None /\ now - cache[u].at < Ttl

\* Mutant: an unknown kid is refused on what the cache holds.
UseKeysOnce(r, keys) == Answer(r, IF req[r].kid \in keys THEN "ok" ELSE "key")

\* get_key with what _get_keys returned; a miss forces one fetch.
UseKeys(r, keys) ==
    IF req[r].kid \in keys THEN Answer(r, "ok")
    ELSE IF req[r].pc = "forced" THEN Answer(r, "key") ELSE Fetch(r, "forced")

LookUp(r) ==
    /\ req[r].pc = "lookup"
    /\ IF Fresh(Url(r)) THEN UseKeys(r, cache[Url(r)].keys) ELSE Fetch(r, "fetch")
    /\ UNCHANGED <<realm, cache, missed>>

\* The realm answers with the keys it publishes at that moment.
RealmReplies(r) ==
    /\ r \in Waiting /\ req[r].reply = None
    /\ req' = [req EXCEPT ![r].reply = published[Url(r)]]
    /\ UNCHANGED <<realm, cache, missed, verdict>>

\* Mutant: the age of the keys counts from when they are here.
FetchedLater(r) ==
    /\ r \in Waiting /\ req[r].reply # None
    /\ cache' = [cache EXCEPT ![Url(r)] = [at |-> now, keys |-> req[r].reply]]
    /\ UseKeys(r, req[r].reply)
    /\ UNCHANGED <<realm, missed>>

\* The reply is here: whatever is cached meanwhile is replaced.
Fetched(r) ==
    /\ r \in Waiting /\ req[r].reply # None
    /\ cache' = [cache EXCEPT ![Url(r)] = [at |-> req[r].began, keys |-> req[r].reply]]
    /\ UseKeys(r, req[r].reply)
    /\ UNCHANGED <<realm, missed>>

\* A transport error, an error status or a body that is no JWKS: it is no
\* CallerTokenError, so the request ends in an error of the Service.
FetchFails(r) ==
    /\ r \in Waiting
    /\ Answer(r, "error")
    /\ UNCHANGED <<realm, cache, missed>>

Step(r) == LookUp(r) \/ RealmReplies(r) \/ Fetched(r) \/ FetchFails(r)

Next ==
    \/ Tick
    \/ \E u \in Urls, k \in Kids : Publish(u, k) \/ Withdraw(u, k)
    \/ \E r \in Requests, i \in Issuers, k \in Kids : Arrive(r, i, k)
    \/ \E r \in Requests, i \in Issuers : OutOfScope(r, i)
    \/ \E r \in Requests : Step(r)

Spec == Init /\ [][Next]_vars

---------------------------------------------------------------------------
\* Who is let in, and who is not.

(* A caller whose key its realm publishes all through the request is never   *)
(* refused for its key, however recent the key and whatever the cache holds, *)
(* also when an older fetch ends late and puts older keys in the cache.      *)
RotatedKeyFound == \A r \in Requests : verdict[r] = "key" => r \in missed

\* Request r's key is published, was withdrawn less than Ttl ago, or was so
\* while r itself waited for the keys it is now let in by.
Recent(r) ==
    LET out == withdrawn[Url(r)][req[r].kid] IN
    \/ req[r].kid \in published[Url(r)]
    \/ out # None /\ now < out + Ttl
    \/ out # None /\ r \in Waiting /\ req[r].began <= out

(* A caller is let in only by a key that its own realm published within Ttl, *)
(* or since this caller's own fetch began.  However long fetches last and in *)
(* whatever order they end, keys that came late let in nobody else beyond    *)
(* Ttl: the age of cached keys counts from before their fetch.               *)
RevocationBound ==
    [][\A r \in Requests :
        verdict[r] # "ok" /\ verdict'[r] = "ok" => Recent(r)]_vars
=============================================================================

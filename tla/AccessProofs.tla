---------------------------- MODULE AccessProofs ----------------------------
(***************************************************************************)
(* Theorems about Access, for any requests, realms and keys and any times: *)
(* a caller whose key is published all through is not refused for it, and  *)
(* a caller is let in only by a key its realm published within Ttl, or     *)
(* since that caller's own fetch began, however long fetches last.         *)
(*                                                                         *)
(* The invariant follows a key from the realm's answer into the cache: the *)
(* keys of an answer, and of a cache entry, were published at some moment  *)
(* since the fetch that took them began.                                   *)
(***************************************************************************)
EXTENDS Access, TLAPS

USE JwksUrlAssumption, TimesAssumption, NoneAssumption
    DEF JwksUrlAssumption, TimesAssumption, NoneAssumption

\* Key k was published at u at some moment since time began.
PublishedSince(u, k, began) ==
    \/ k \in published[u]
    \/ withdrawn[u][k] # None /\ began <= withdrawn[u][k]

\* A request that is being looked at has an issuer in scope and a kid; unless
\* the kid was missing at some moment, it is published, and in the answer.
RequestInv(r) ==
    req[r].pc # "none" =>
        /\ req[r].iss \in DOMAIN JwksUrl
        /\ req[r].kid \in Kids
        /\ r \notin missed =>
            /\ req[r].kid \in published[Url(r)]
            /\ r \in Waiting /\ req[r].reply # None => req[r].kid \in req[r].reply

\* A fetch under way began in the past, and its answer has keys published
\* since, however long ago that is.
FetchInv(r) ==
    r \in Waiting =>
        /\ req[r].began <= now
        /\ req[r].reply # None =>
            \A k \in req[r].reply : PublishedSince(Url(r), k, req[r].began)

\* What is cached was published since the time it is stamped with.
CacheInv(u) ==
    cache[u] # None =>
        /\ cache[u].at <= now
        /\ \A k \in cache[u].keys : PublishedSince(u, k, cache[u].at)

AccessInv ==
    /\ TypeOK
    /\ \A r \in Requests : RequestInv(r) /\ FetchInv(r)
    /\ \A u \in Urls : CacheInv(u)
    /\ RotatedKeyFound

-----------------------------------------------------------------------------
(* What a request does to itself.                                           *)

\* A request ends ...
LEMMA AnswerEffect ==
    ASSUME TypeOK, NEW r \in Requests, NEW v \in {"ok", "scope", "key", "error"},
           Answer(r, v)
    PROVE  /\ req' \in [Requests -> Calls] /\ req'[r].pc = "none"
           /\ verdict' \in [Requests -> {"none", "ok", "scope", "key", "error"}]
           /\ verdict'[r] = v
           /\ \A q \in Requests \ {r} : req'[q] = req[q] /\ verdict'[q] = verdict[q]
  <1>1. NoCall \in Calls
    BY DEF NoCall, Calls
  <1> QED
    BY <1>1 DEF Answer, TypeOK, NoCall

\* ... or begins a fetch: it has no answer yet, and is as old as the fetch.
LEMMA FetchEffect ==
    ASSUME TypeOK, NEW r \in Requests, NEW stage \in {"fetch", "forced"}, Fetch(r, stage)
    PROVE  /\ req' \in [Requests -> Calls] /\ UNCHANGED verdict
           /\ req'[r].pc = stage /\ req'[r].began = now /\ req'[r].reply = None
           /\ req'[r].iss = req[r].iss /\ req'[r].kid = req[r].kid
           /\ \A q \in Requests \ {r} : req'[q] = req[q]
  BY DEF Fetch, TypeOK, Calls

\* With keys at hand it is let in, refused after a forced fetch, or fetches.
LEMMA UseKeysEffect ==
    ASSUME NEW r \in Requests, NEW keys, UseKeys(r, keys)
    PROVE  \/ req[r].kid \in keys /\ Answer(r, "ok")
           \/ req[r].kid \notin keys /\ req[r].pc = "forced" /\ Answer(r, "key")
           \/ Fetch(r, "forced")
  BY DEF UseKeys

\* A request is at its realm's url.
LEMMA UrlType ==
    ASSUME NEW r \in Requests, RequestInv(r), req[r].pc # "none"
    PROVE  Url(r) \in Urls
  BY DEF RequestInv, Url

\* Nothing of what is known of one request is about another.
LEMMA OtherRequest ==
    ASSUME NEW r \in Requests, NEW q \in Requests, RequestInv(q), FetchInv(q),
           req'[q] = req[q], UNCHANGED realm, q \in missed => q \in missed'
    PROVE  RequestInv(q)' /\ FetchInv(q)'
  BY DEF RequestInv, FetchInv, Waiting, Url, PublishedSince, realm

\* A request that has ended has nothing more to be known of.
LEMMA EndedRequest ==
    ASSUME NEW r \in Requests, req'[r].pc = "none"
    PROVE  RequestInv(r)' /\ FetchInv(r)'
  BY DEF RequestInv, FetchInv, Waiting

\* A fetch that begins keeps what is known of its request.
LEMMA BegunFetch ==
    ASSUME TypeOK, NEW r \in Requests, RequestInv(r), req[r].pc # "none",
           NEW stage \in {"fetch", "forced"}, Fetch(r, stage), UNCHANGED <<realm, missed>>
    PROVE  RequestInv(r)' /\ FetchInv(r)'
  BY FetchEffect DEF TypeOK, RequestInv, FetchInv, Waiting, Url, realm

-----------------------------------------------------------------------------
(* The steps of a request.                                                  *)

\* The keys at hand decide: a refusal is of a request whose kid was missing at
\* some moment, since an answer that was forced lacks it.
LEMMA UseKeysKeeps ==
    ASSUME AccessInv, NEW r \in Requests, NEW keys, UseKeys(r, keys), req[r].pc # "none",
           req[r].pc = "forced" => r \in missed \/ req[r].kid \in keys,
           UNCHANGED <<realm, missed>>
    PROVE  /\ req' \in [Requests -> Calls]
           /\ verdict' \in [Requests -> {"none", "ok", "scope", "key", "error"}]
           /\ \A q \in Requests : RequestInv(q)' /\ FetchInv(q)'
           /\ RotatedKeyFound'
  <1> USE DEF AccessInv
  <1>1. CASE req[r].kid \in keys /\ Answer(r, "ok")
    BY <1>1, AnswerEffect, EndedRequest, OtherRequest DEF RotatedKeyFound
  <1>2. CASE req[r].kid \notin keys /\ req[r].pc = "forced" /\ Answer(r, "key")
    BY <1>2, AnswerEffect, EndedRequest, OtherRequest DEF RotatedKeyFound
  <1>3. CASE Fetch(r, "forced")
    BY <1>3, FetchEffect, BegunFetch, OtherRequest DEF RotatedKeyFound, TypeOK
  <1> QED
    BY <1>1, <1>2, <1>3, UseKeysEffect

\* Cached keys are used while they are fresh, else a fetch begins.
LEMMA LookUpKeeps ==
    ASSUME AccessInv, NEW r \in Requests, LookUp(r) PROVE AccessInv'
  <1> USE DEF AccessInv
  <1>1. req[r].pc = "lookup" /\ UNCHANGED <<realm, cache, missed>>
    BY DEF LookUp
  <1>2. \A u \in Urls : CacheInv(u)'
    BY <1>1 DEF CacheInv, PublishedSince, realm
  <1>3. CASE UseKeys(r, cache[Url(r)].keys)
    BY <1>1, <1>2, <1>3, UseKeysKeeps DEF TypeOK, realm
  <1>4. CASE Fetch(r, "fetch")
    <2>1. \A q \in Requests : RequestInv(q)' /\ FetchInv(q)'
      BY <1>1, <1>4, FetchEffect, BegunFetch, OtherRequest
    <2>2. TypeOK' /\ RotatedKeyFound'
      BY <1>1, <1>4, FetchEffect DEF TypeOK, RotatedKeyFound, realm
    <2> QED
      BY <1>2, <2>1, <2>2
  <1> QED
    BY <1>3, <1>4 DEF LookUp

\* The realm's answer is what it publishes now: since the fetch began.
LEMMA RealmRepliesKeeps ==
    ASSUME AccessInv, NEW r \in Requests, RealmReplies(r) PROVE AccessInv'
  <1> USE DEF AccessInv
  <1>1. /\ r \in Waiting /\ req[r].pc # "none" /\ UNCHANGED <<realm, cache, missed, verdict>>
        /\ req' = [req EXCEPT ![r].reply = published[Url(r)]]
    BY DEF RealmReplies, Waiting
  <1>2. Url(r) \in Urls /\ published[Url(r)] \in SUBSET Kids
    BY <1>1, UrlType DEF TypeOK
  <1>3. /\ req' \in [Requests -> Calls]
        /\ req'[r] = [req[r] EXCEPT !.reply = published[Url(r)]]
        /\ \A q \in Requests \ {r} : req'[q] = req[q]
    <2> DEFINE answered == [req[r] EXCEPT !.reply = published[Url(r)]]
    <2>1. answered \in Calls
      <3>1. req[r] \in Calls /\ published[Url(r)] \in {None} \union (SUBSET Kids)
        BY <1>2 DEF TypeOK
      <3> QED
        BY <3>1 DEF Calls
    <2>2. req' = [req EXCEPT ![r] = answered]
      BY <1>1
    <2> HIDE DEF answered
    <2>3. /\ req' \in [Requests -> Calls] /\ req'[r] = answered
          /\ \A q \in Requests \ {r} : req'[q] = req[q]
      BY <2>1, <2>2 DEF TypeOK
    <2> QED
      BY <2>3 DEF answered
  <1>4. RequestInv(r)' /\ FetchInv(r)'
    <2>1. /\ req'[r].pc = req[r].pc /\ req'[r].kid = req[r].kid /\ Url(r)' = Url(r)
          /\ req'[r].began = req[r].began /\ req'[r].reply = published[Url(r)]
      BY <1>1, <1>3 DEF TypeOK, Calls, Url
    <2>2. RequestInv(r)'
      BY <1>1, <1>3, <2>1 DEF TypeOK, Calls, RequestInv, realm
    <2>3. FetchInv(r)'
      BY <1>1, <2>1 DEF FetchInv, PublishedSince, realm
    <2> QED
      BY <2>2, <2>3
  <1>5. \A q \in Requests : RequestInv(q)' /\ FetchInv(q)'
    BY <1>1, <1>3, <1>4, OtherRequest
  <1>6. \A u \in Urls : CacheInv(u)'
    BY <1>1 DEF CacheInv, PublishedSince, realm
  <1> QED
    BY <1>1, <1>3, <1>5, <1>6 DEF TypeOK, RotatedKeyFound, realm

\* The answer replaces what is cached, however old it is by now.
LEMMA FetchedKeeps ==
    ASSUME AccessInv, NEW r \in Requests, Fetched(r) PROVE AccessInv'
  <1> USE DEF AccessInv
  <1>1. /\ r \in Waiting /\ req[r].pc # "none" /\ req[r].reply # None
        /\ UNCHANGED <<realm, missed>> /\ UseKeys(r, req[r].reply)
        /\ cache' = [cache EXCEPT ![Url(r)] = [at |-> req[r].began, keys |-> req[r].reply]]
    BY DEF Fetched, Waiting
  <1>2. /\ Url(r) \in Urls /\ req[r].reply \in SUBSET Kids /\ req[r].began \in 0..MaxTime
    BY <1>1, UrlType DEF TypeOK, Calls
  <1>3. [at |-> req[r].began, keys |-> req[r].reply] \in Entries
    BY <1>2 DEF Entries
  <1>4. cache' \in [Urls -> Entries \union {None}]
    BY <1>1, <1>3 DEF TypeOK
  <1>5. ASSUME NEW u \in Urls PROVE CacheInv(u)'
    <2>1. CASE u # Url(r)
      BY <1>1, <2>1 DEF TypeOK, CacheInv, PublishedSince, realm
    <2>2. CASE u = Url(r)
      <3>1. cache'[u].at = req[r].began /\ cache'[u].keys = req[r].reply
        BY <1>1, <1>2, <2>2 DEF TypeOK
      <3> QED
        BY <1>1, <2>2, <3>1 DEF CacheInv, FetchInv, PublishedSince, realm
    <2> QED
      BY <2>1, <2>2
  <1>6. req[r].pc = "forced" => r \in missed \/ req[r].kid \in req[r].reply
    BY <1>1 DEF RequestInv
  <1>7. /\ req' \in [Requests -> Calls]
        /\ verdict' \in [Requests -> {"none", "ok", "scope", "key", "error"}]
        /\ \A q \in Requests : RequestInv(q)' /\ FetchInv(q)'
        /\ RotatedKeyFound'
    BY <1>1, <1>6, UseKeysKeeps
  <1> QED
    BY <1>1, <1>4, <1>5, <1>7 DEF TypeOK, realm

\* A request arrives: its kid is published, or was missing at some moment.
LEMMA ArriveKeeps ==
    ASSUME AccessInv, NEW r \in Requests, NEW i \in Issuers, NEW k \in Kids, Arrive(r, i, k)
    PROVE  AccessInv'
  <1> USE DEF AccessInv
  <1> DEFINE asked == [NoCall EXCEPT !.pc = "lookup", !.iss = i, !.kid = k]
  <1>1. /\ i \in DOMAIN JwksUrl /\ UNCHANGED <<realm, cache, verdict>>
        /\ req' = [req EXCEPT ![r] = asked]
        /\ missed' = IF k \in published[JwksUrl[i]] THEN missed ELSE missed \union {r}
    BY DEF Arrive
  <1>2. /\ asked \in Calls /\ asked.pc = "lookup" /\ asked.iss = i /\ asked.kid = k
    <2>1. NoCall \in Calls
      BY DEF NoCall, Calls
    <2> QED
      BY <1>1, <2>1 DEF Calls
  <1> HIDE DEF asked
  <1>3. /\ req' \in [Requests -> Calls] /\ req'[r] = asked
        /\ \A q \in Requests \ {r} : req'[q] = req[q]
    BY <1>1, <1>2 DEF TypeOK
  <1>4. RequestInv(r)' /\ FetchInv(r)'
    BY <1>1, <1>2, <1>3 DEF RequestInv, FetchInv, Waiting, Url, realm
  <1>5. \A q \in Requests : RequestInv(q)' /\ FetchInv(q)'
    BY <1>1, <1>3, <1>4, OtherRequest
  <1>6. \A u \in Urls : CacheInv(u)'
    BY <1>1 DEF CacheInv, PublishedSince, realm
  <1> QED
    BY <1>1, <1>3, <1>5, <1>6 DEF TypeOK, RotatedKeyFound, realm

\* A request that is out of scope, or loses its fetch, ends.
LEMMA EndsKeep ==
    ASSUME AccessInv, NEW r \in Requests,
           FetchFails(r) \/ \E i \in Issuers : OutOfScope(r, i)
    PROVE  AccessInv'
  <1> USE DEF AccessInv
  <1>1. PICK v \in {"scope", "error"} : Answer(r, v) /\ UNCHANGED <<realm, cache, missed>>
    BY DEF FetchFails, OutOfScope
  <1>2. \A q \in Requests : RequestInv(q)' /\ FetchInv(q)'
    BY <1>1, AnswerEffect, EndedRequest, OtherRequest
  <1>3. \A u \in Urls : CacheInv(u)'
    BY <1>1 DEF CacheInv, PublishedSince, realm
  <1>4. TypeOK' /\ RotatedKeyFound'
    BY <1>1, AnswerEffect DEF TypeOK, RotatedKeyFound, realm
  <1> QED
    BY <1>2, <1>3, <1>4

-----------------------------------------------------------------------------
(* The steps of the realms and the clock.                                   *)

\* A key that is published or withdrawn was published until now.
LEMMA PublishedStays ==
    ASSUME TypeOK, NEW u \in Urls, NEW k \in Kids, Publish(u, k) \/ Withdraw(u, k),
           NEW v \in Urls, NEW j \in Kids, NEW began \in Nat, began <= now,
           PublishedSince(v, j, began)
    PROVE  PublishedSince(v, j, began)'
  <1>1. CASE Publish(u, k)
    BY <1>1 DEF Publish, PublishedSince, TypeOK
  <1>2. CASE Withdraw(u, k)
    BY <1>2 DEF Withdraw, PublishedSince, TypeOK
  <1> QED
    BY <1>1, <1>2

\* A rotation leaves what was published since a time published since then.
LEMMA RealmKeeps ==
    ASSUME AccessInv, NEW u \in Urls, NEW k \in Kids, Publish(u, k) \/ Withdraw(u, k)
    PROVE  AccessInv'
  <1> USE DEF AccessInv
  <1>1. UNCHANGED <<now, cache, req, verdict>> /\ missed \subseteq missed'
    BY DEF Publish, Withdraw
  <1>2. TypeOK'
    <2>1. CASE Publish(u, k)
      BY <2>1 DEF TypeOK, Publish
    <2>2. CASE Withdraw(u, k)
      <3> DEFINE W == [Kids -> (0..MaxTime) \union {None}]
      <3>1. [withdrawn[u] EXCEPT ![k] = now] \in W
        BY DEF TypeOK
      <3>2. withdrawn' = [withdrawn EXCEPT ![u] = [withdrawn[u] EXCEPT ![k] = now]]
        BY <2>2 DEF Withdraw
      <3>3. withdrawn \in [Urls -> W]
        BY DEF TypeOK
      <3> HIDE DEF W
      <3>4. withdrawn' \in [Urls -> W]
        BY <3>1, <3>2, <3>3
      <3>5. published' \in [Urls -> SUBSET Kids] /\ missed' \subseteq Requests
        BY <2>2 DEF TypeOK, Withdraw
      <3> QED
        BY <1>1, <3>4, <3>5 DEF TypeOK, W
    <2> QED
      BY <2>1, <2>2
  <1>3. ASSUME NEW r \in Requests PROVE RequestInv(r)'
    <2>1. CASE req[r].pc = "none"
      BY <1>1, <2>1 DEF RequestInv
    <2>2. CASE req[r].pc # "none"
      <3>1. Url(r) \in Urls
        BY <2>2, UrlType
      <3>2. r \notin missed' /\ req[r].kid \in published[Url(r)]
                => req[r].kid \in published'[Url(r)]
        BY <3>1 DEF Publish, Withdraw, TypeOK
      <3> QED
        BY <1>1, <3>2 DEF RequestInv, Waiting, Url
    <2> QED
      BY <2>1, <2>2
  <1>4. ASSUME NEW r \in Requests PROVE FetchInv(r)'
    <2>1. CASE r \notin Waiting
      BY <1>1, <2>1 DEF FetchInv, Waiting
    <2>2. CASE r \in Waiting
      <3>1. /\ Url(r) \in Urls /\ req[r].began \in Nat /\ req[r].began <= now
            /\ req[r].reply # None => req[r].reply \subseteq Kids
        BY <2>2, UrlType DEF FetchInv, Waiting, TypeOK, Calls
      <3>2. req[r].reply # None =>
                \A j \in req[r].reply : PublishedSince(Url(r), j, req[r].began)'
        <4> SUFFICES ASSUME req[r].reply # None, NEW j \in req[r].reply
                     PROVE  PublishedSince(Url(r), j, req[r].began)'
          OBVIOUS
        <4>1. j \in Kids /\ PublishedSince(Url(r), j, req[r].began)
          BY <2>2, <3>1 DEF FetchInv
        <4>2. ASSUME NEW v \in Urls, NEW began \in Nat, began <= now,
                     PublishedSince(v, j, began)
              PROVE  PublishedSince(v, j, began)'
          BY <4>1, <4>2, PublishedStays
        <4> QED
          BY <1>1, <3>1, <4>1, <4>2 DEF PublishedSince, Url
      <3> QED
        BY <1>1, <3>2 DEF FetchInv, Waiting, Url, PublishedSince
    <2> QED
      BY <2>1, <2>2
  <1>5. ASSUME NEW v \in Urls PROVE CacheInv(v)'
    <2>1. CASE cache[v] = None
      BY <1>1, <2>1 DEF CacheInv
    <2>2. CASE cache[v] # None
      <3>1. cache[v] \in Entries
        BY <2>2 DEF TypeOK
      <3>2. cache[v].at \in Nat /\ cache[v].at <= now /\ cache[v].keys \subseteq Kids
        BY <2>2, <3>1 DEF CacheInv, Entries
      <3>3. \A j \in cache[v].keys : PublishedSince(v, j, cache[v].at)'
        <4> SUFFICES ASSUME NEW j \in cache[v].keys
                     PROVE  PublishedSince(v, j, cache[v].at)'
          OBVIOUS
        <4>1. j \in Kids /\ PublishedSince(v, j, cache[v].at)
          BY <2>2, <3>2 DEF CacheInv
        <4>2. ASSUME NEW began \in Nat, began <= now, PublishedSince(v, j, began)
              PROVE  PublishedSince(v, j, began)'
          BY <4>1, <4>2, PublishedStays
        <4> QED
          BY <1>1, <3>2, <4>1, <4>2 DEF PublishedSince
      <3> QED
        BY <1>1, <3>2, <3>3 DEF CacheInv, PublishedSince
    <2> QED
      BY <2>1, <2>2
  <1> QED
    BY <1>1, <1>2, <1>3, <1>4, <1>5 DEF RotatedKeyFound

\* What was published since a time is so at any later time.
LEMMA TickKeeps ==
    ASSUME AccessInv, Tick PROVE AccessInv'
  <1> USE DEF AccessInv
  <1>1. /\ now < MaxTime /\ now' = now + 1
        /\ UNCHANGED <<published, withdrawn, cache, req, missed, verdict>>
    BY DEF Tick
  <1>2. TypeOK'
    BY <1>1 DEF TypeOK
  <1>3. \A r \in Requests : RequestInv(r)'
    BY <1>1 DEF RequestInv, Waiting, Url
  <1>4. ASSUME NEW r \in Requests PROVE FetchInv(r)'
    <2>1. req[r].began \in Nat /\ now \in Nat
      BY DEF TypeOK, Calls
    <2> QED
      BY <1>1, <2>1 DEF FetchInv, Waiting, Url, PublishedSince
  <1>5. ASSUME NEW u \in Urls PROVE CacheInv(u)'
    <2>1. cache[u] # None => cache[u].at \in Nat /\ now \in Nat
      BY DEF TypeOK, Entries
    <2> QED
      BY <1>1, <2>1 DEF CacheInv, PublishedSince
  <1> QED
    BY <1>1, <1>2, <1>3, <1>4, <1>5 DEF RotatedKeyFound

-----------------------------------------------------------------------------
(* The theorems.                                                            *)

\* Nothing is cached and nobody has come at first ...
LEMMA InitAccess == Init => AccessInv
  <1> SUFFICES ASSUME Init PROVE AccessInv
    OBVIOUS
  <1>1. NoCall \in Calls /\ NoCall.pc = "none"
    BY DEF NoCall, Calls
  <1>2. TypeOK
    BY <1>1 DEF Init, TypeOK
  <1>3. \A r \in Requests : RequestInv(r) /\ FetchInv(r)
    BY <1>1 DEF Init, RequestInv, FetchInv, Waiting
  <1>4. (\A u \in Urls : CacheInv(u)) /\ RotatedKeyFound
    BY DEF Init, CacheInv, RotatedKeyFound
  <1> QED
    BY <1>2, <1>3, <1>4 DEF AccessInv

\* ... and every step keeps the invariant.
LEMMA AccessKeeps == AccessInv /\ [Next]_vars => AccessInv'
  <1> SUFFICES ASSUME AccessInv, [Next]_vars PROVE AccessInv'
    OBVIOUS
  <1>1. CASE Next
    BY <1>1, TickKeeps, RealmKeeps, ArriveKeeps, EndsKeep, LookUpKeeps, RealmRepliesKeeps,
       FetchedKeeps DEF Next, Step
  <1>2. CASE UNCHANGED vars
    BY <1>2 DEF vars, realm, AccessInv, TypeOK, RequestInv, FetchInv, CacheInv, Waiting,
                Url, PublishedSince, RotatedKeyFound
  <1> QED
    BY <1>1, <1>2

\* The inductive invariant holds in every behaviour.
THEOREM AccessInvariant == Spec => []AccessInv
  BY InitAccess, AccessKeeps, PTL DEF Spec

\* Types of the clock, the realms, the cache and the requests.
THEOREM AccessTypes == Spec => []TypeOK
  <1>1. AccessInv => TypeOK
    BY DEF AccessInv
  <1> QED
    BY <1>1, AccessInvariant, PTL

\* A caller whose key is published all through its request is never refused
\* for the key, whatever is cached and however fetches overtake each other
\* (jwks.py get_key: an unknown kid forces one fetch).
THEOREM KeyFound == Spec => []RotatedKeyFound
  <1>1. AccessInv => RotatedKeyFound
    BY DEF AccessInv
  <1> QED
    BY <1>1, AccessInvariant, PTL

\* A caller is let in only by a key that its realm published within Ttl, or
\* since this caller's own fetch began, with nothing assumed of how long
\* fetches last: the age of cached keys counts from before their fetch
\* (jwks.py _get_keys), so keys that come late let in nobody else beyond Ttl.
THEOREM RevocationBounded == Spec => RevocationBound
  <1> DEFINE A == \A r \in Requests :
                    verdict[r] # "ok" /\ verdict'[r] = "ok" => Recent(r)
  <1>1. AccessInv /\ [Next]_vars => [A]_vars
    <2> SUFFICES ASSUME AccessInv, Next, NEW r \in Requests,
                        verdict[r] # "ok", verdict'[r] = "ok"
                 PROVE  Recent(r)
      OBVIOUS
    <2> USE DEF AccessInv
    <2>1. LookUp(r) \/ Fetched(r)
      <3>1. ASSUME NEW q \in Requests, Step(q) PROVE q = r /\ (LookUp(r) \/ Fetched(r))
        BY <3>1 DEF Step, LookUp, Fetched, RealmReplies, FetchFails, UseKeys, Answer, Fetch,
                    TypeOK
      <3>2. ASSUME NEW q \in Requests, NEW i \in Issuers,
                   OutOfScope(q, i) \/ \E k \in Kids : Arrive(q, i, k)
            PROVE  FALSE
        BY <3>2 DEF OutOfScope, Arrive, Answer, TypeOK
      <3> QED
        BY <3>1, <3>2 DEF Next, Tick, Publish, Withdraw
    <2>2. now \in Nat /\ Url(r) \in Urls
      BY <2>1, UrlType DEF LookUp, Fetched, Waiting, TypeOK
    <2>3. CASE LookUp(r)
      <3>1. cache[Url(r)] # None /\ now - cache[Url(r)].at < Ttl
            /\ req[r].kid \in cache[Url(r)].keys
        BY <2>3 DEF LookUp, Fresh, UseKeys, Answer, Fetch, TypeOK
      <3>2. cache[Url(r)].at \in Nat /\ req[r].kid \in Kids
        BY <2>2, <3>1 DEF TypeOK, Entries
      <3>3. PublishedSince(Url(r), req[r].kid, cache[Url(r)].at)
        BY <2>2, <3>1 DEF CacheInv
      <3>4. withdrawn[Url(r)][req[r].kid] \in Nat \union {None}
        BY <2>2, <3>2 DEF TypeOK
      <3> QED
        BY <2>2, <3>1, <3>2, <3>3, <3>4 DEF PublishedSince, Recent
    <2>4. CASE Fetched(r)
      <3>1. r \in Waiting /\ req[r].reply # None /\ req[r].kid \in req[r].reply
        BY <2>4 DEF Fetched, UseKeys, Answer, Fetch, TypeOK
      <3>2. PublishedSince(Url(r), req[r].kid, req[r].began)
        BY <3>1 DEF FetchInv
      <3> QED
        BY <3>1, <3>2 DEF PublishedSince, Recent
    <2> QED
      BY <2>1, <2>3, <2>4
  <1>2. Spec => [][A]_vars
    BY <1>1, AccessInvariant, PTL DEF Spec
  <1> QED
    BY <1>2 DEF RevocationBound
=============================================================================

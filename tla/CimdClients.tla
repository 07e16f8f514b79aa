----------------------------- MODULE CimdClients -----------------------------
(***************************************************************************)
(* Client identity by Client ID Metadata Document: get_client of           *)
(* auth/bridge_provider.py with its LRU+TTL cache, and the parts of        *)
(* auth/cimd.py and of the middleware that decide what it answers.         *)
(*                                                                         *)
(* A client_id is a URL whose host publishes a document; of the document   *)
(* the redirect URIs are kept.  Fetching suspends, with no single flight:  *)
(* several requests may fetch one document, the host may rotate it, and    *)
(* the answers may complete in any order.                                  *)
(***************************************************************************)
EXTENDS Naturals, FiniteSets, SequencesExt

CONSTANTS Url,             \* client_ids that are https URLs
          OpaqueId,        \* client_ids that are not
          Base,            \* scheme, host and path of a redirect URI
          LoopbackBase,    \* those whose host is a loopback address
          Port,
          Documents,       \* the redirect sets a host may publish
          Requested,       \* the redirect URIs /authorize may ask for
          Request,         \* the get_client calls of a behaviour
          CIMD_CACHE_TTL,  \* 3600 s
          CIMD_CACHE_MAX,  \* 256
          CodeTTL,         \* 300 s: how long after /authorize a code may come
          MaxTime,         \* bound of the model: the clock stops there
          MaxRotations,    \* bound of the model: documents rotated
          None

Uri == [base : Base, port : Port]

ClientId == Url \cup OpaqueId

ASSUME CimdConstantsOK ==
  /\ LoopbackBase \subseteq Base
  /\ Requested \subseteq Uri
  /\ Documents \subseteq (SUBSET Uri) \ {{}}
  /\ CIMD_CACHE_TTL \in Nat /\ CIMD_CACHE_MAX \in Nat \ {0}
  /\ CodeTTL \in Nat /\ MaxTime \in Nat /\ MaxRotations \in Nat

VARIABLES
  now,        \* time.time()
  document,   \* what each URL's host publishes
  entry,      \* _clients: the cached client of a client_id, None if absent
  order,      \* _clients: the keys, least recently used first
  request,    \* where each get_client call stands
  published,  \* history: everything each host has published
  recent,     \* history: the ids put or hit, most recent last
  stored      \* history: when an id was last put, None before

vars == <<now, document, entry, order, request, published, recent, stored>>

Entry == [redirects : SUBSET Uri, expires_at : Nat]

ASSUME NoneIsNoCachedClient == None \notin Entry

\* "no_client": get_client answered None, or raised.
Stage == {"idle", "fetching", "served", "found", "no_client"}

(***************************************************************************)
(* redirect is the contextvar _AuthorizeContextMiddleware sets: None on    *)
(* the /token leg, and where /authorize has none in its query string.  document is what the host served, client the redirect  *)
(* URIs of the client answered; at is history: when /authorize had it.     *)
(***************************************************************************)
RequestState ==
  [stage    : Stage,
   leg      : {"authorize", "token"} \cup {None},
   id       : ClientId \cup {None},
   redirect : Requested \cup {None},
   document : SUBSET Uri,
   client   : SUBSET Uri,
   at       : Nat \cup {None}]

IdleRequest == [stage |-> "idle", leg |-> None, id |-> None, redirect |-> None,
                document |-> {}, client |-> {}, at |-> None]

(***************************************************************************)
(* Types; the LRU order lists exactly the cached ids, each once.           *)
(***************************************************************************)
TypeOK ==
  /\ now \in Nat
  /\ document \in [Url -> Documents]
  /\ entry \in [Url -> Entry \cup {None}]
  /\ order \in Seq(Url)
  /\ ToSet(order) = {u \in Url : entry[u] # None}
  /\ IsInjective(order)
  /\ request \in [Request -> RequestState]
  /\ published \in [Url -> SUBSET Documents]
  /\ recent \in Seq(Url)
  /\ stored \in [Url -> Nat \cup {None}]

Init ==
  /\ now = 0
  /\ document \in [Url -> Documents]
  /\ entry = [u \in Url |-> None]
  /\ order = <<>>
  /\ request = [r \in Request |-> IdleRequest]
  /\ published = [u \in Url |-> {document[u]}]
  /\ recent = <<>>
  /\ stored = [u \in Url |-> None]

Tick ==
  /\ now < MaxTime
  /\ now' = now + 1
  /\ UNCHANGED <<document, entry, order, request, published, recent, stored>>

(***************************************************************************)
(* The client's operator publishes another document.                       *)
(***************************************************************************)
Rotate(u, uris) ==
  /\ uris \notin published[u]
  /\ Cardinality(UNION {{<<v, d>> : d \in published[v]} : v \in Url})
       < Cardinality(Url) + MaxRotations
  /\ document' = [document EXCEPT ![u] = uris]
  /\ published' = [published EXCEPT ![u] = @ \cup {uris}]
  /\ UNCHANGED <<now, entry, order, request, recent, stored>>

-------------------------------------------------------------------------------
(* What a client is answered with                                          *)

(***************************************************************************)
(* redirect_uri_matches: equal, or the same loopback address and path on   *)
(* any port (RFC 8252).                                                    *)
(***************************************************************************)
\* Mutant of RedirectUriMatches: exact comparison only.
ExactMatch(requested, declared) == requested = declared

RedirectUriMatches(requested, declared) ==
  \/ requested = declared
  \/ requested.base = declared.base /\ requested.base \in LoopbackBase

(***************************************************************************)
(* client_with_requested_redirect, a copy made for this request.           *)
(***************************************************************************)
WithRequestedRedirect(uris, requested) ==
  IF requested # None /\ \E d \in uris : RedirectUriMatches(requested, d)
  THEN uris \cup {requested} ELSE uris

-------------------------------------------------------------------------------
(* The cache                                                               *)

MoveToEnd(seq, u) == Append(RemoveFirst(seq, u), u)

\* Mutant of TouchOnHit: a hit does not count as a use.
NoTouch(seq, u) == seq

TouchOnHit(seq, u) == MoveToEnd(seq, u)

\* Mutant of Lives: an entry is served until it is evicted.
LivesForever(e) == e # None

Lives(e) == e # None /\ e.expires_at > now

(***************************************************************************)
(* _cache_put: a fresh TTL, the newest place, and the oldest entries out   *)
(* while there are more than the cap.                                      *)
(***************************************************************************)
\* Mutant of Capped: the cap is tested before the insertion.
CappedLate(seq) ==
  IF Len(seq) > CIMD_CACHE_MAX + 1 THEN Tail(seq) ELSE seq

Capped(seq) ==
  IF Len(seq) > CIMD_CACHE_MAX
  THEN SubSeq(seq, Len(seq) - CIMD_CACHE_MAX + 1, Len(seq)) ELSE seq

\* Mutant of CachePut: what leaves the order stays in the cache.
KeepsEvicted(u, uris) ==
  /\ order' = Capped(MoveToEnd(order, u))
  /\ entry' = [entry EXCEPT ![u] =
                 [redirects |-> uris, expires_at |-> now + CIMD_CACHE_TTL]]
  /\ recent' = MoveToEnd(recent, u)
  /\ stored' = [stored EXCEPT ![u] = now]

CachePut(u, uris) ==
  LET kept == Capped(MoveToEnd(order, u))
      new  == [redirects |-> uris, expires_at |-> now + CIMD_CACHE_TTL]
  IN /\ order' = kept
     /\ entry' = [v \in Url |-> IF v \notin ToSet(kept) THEN None
                                ELSE IF v = u THEN new ELSE entry[v]]
     /\ recent' = MoveToEnd(recent, u)
     /\ stored' = [stored EXCEPT ![u] = now]

-------------------------------------------------------------------------------
(* get_client                                                              *)

Answer(r, leg, id, requested, uris) ==
  request' = [request EXCEPT ![r] =
    [stage |-> "found", leg |-> leg, id |-> id, redirect |-> requested,
     document |-> uris, client |-> WithRequestedRedirect(uris, requested),
     at |-> IF leg = "authorize" THEN now ELSE None]]

(***************************************************************************)
(* The middleware takes the redirect URI from the query string of an       *)
(* /authorize request, which may have none (a POST with a form); on /token *)
(* the contextvar is unset.  Anyone may send either, for any client_id.    *)
(***************************************************************************)
MayAsk(leg, requested) == leg = "token" => requested = None

GetClientHit(r, leg, id, requested) ==
  /\ request[r].stage = "idle"
  /\ MayAsk(leg, requested)
  /\ id \in Url /\ Lives(entry[id])
  /\ order' = TouchOnHit(order, id)
  /\ recent' = MoveToEnd(recent, id)
  /\ Answer(r, leg, id, requested, entry[id].redirects)
  /\ UNCHANGED <<now, document, entry, published, stored>>

(***************************************************************************)
(* A miss, an expired entry deleted: start fetching the document.          *)
(***************************************************************************)
GetClientMiss(r, leg, id, requested) ==
  /\ request[r].stage = "idle"
  /\ MayAsk(leg, requested)
  /\ id \in Url /\ ~Lives(entry[id])
  /\ entry' = [entry EXCEPT ![id] = None]
  /\ order' = RemoveFirst(order, id)
  /\ request' = [request EXCEPT ![r] =
       [IdleRequest EXCEPT !.stage = "fetching", !.leg = leg, !.id = id, !.redirect = requested]]
  /\ UNCHANGED <<now, document, published, recent, stored>>

(***************************************************************************)
(* Not an https URL: is_cimd_client_id fails and the client is unknown.    *)
(***************************************************************************)
GetClientUnknown(r, leg, id, requested) ==
  /\ request[r].stage = "idle"
  /\ MayAsk(leg, requested)
  /\ id \in OpaqueId
  /\ request' = [request EXCEPT ![r] =
       [IdleRequest EXCEPT !.stage = "no_client", !.leg = leg, !.id = id, !.redirect = requested]]
  /\ UNCHANGED <<now, document, entry, order, published, recent, stored>>

(***************************************************************************)
(* The host serves its current document; the response is on its way.       *)
(***************************************************************************)
DocumentServed(r) ==
  /\ request[r].stage = "fetching"
  /\ request' = [request EXCEPT ![r] =
                   [@ EXCEPT !.stage = "served", !.document = document[request[r].id]]]
  /\ UNCHANGED <<now, document, entry, order, published, recent, stored>>

(***************************************************************************)
(* The response is in and valid: cache the document's client, answer with  *)
(* this request's copy of it.                                              *)
(***************************************************************************)
\* Mutant of ResolveCompletes: the request's own copy is cached.
CacheRequestCopy(r) ==
  LET q == request[r] IN
  /\ q.stage = "served"
  /\ CachePut(q.id, WithRequestedRedirect(q.document, q.redirect))
  /\ Answer(r, q.leg, q.id, q.redirect, q.document)
  /\ UNCHANGED <<now, document, published>>

ResolveCompletes(r) ==
  LET q == request[r] IN
  /\ q.stage = "served"
  /\ CachePut(q.id, q.document)
  /\ Answer(r, q.leg, q.id, q.redirect, q.document)
  /\ UNCHANGED <<now, document, published>>

(***************************************************************************)
(* A CimdError (an unsafe URL, a failed fetch, a document that is too      *)
(* large, malformed or not self-referential) makes the client unknown; any *)
(* other exception, like parsed.port's ValueError, leaves get_client.      *)
(* Neither caches or answers a client.                                     *)
(***************************************************************************)
ResolveFails(r) ==
  /\ request[r].stage \in {"fetching", "served"}
  /\ request' = [request EXCEPT ![r].stage = "no_client"]
  /\ UNCHANGED <<now, document, entry, order, published, recent, stored>>

Next ==
  \/ Tick
  \/ \E u \in Url, uris \in Documents : Rotate(u, uris)
  \/ \E r \in Request, leg \in {"authorize", "token"}, requested \in Requested \cup {None} :
       \/ \E id \in Url : GetClientHit(r, leg, id, requested) \/ GetClientMiss(r, leg, id, requested)
       \/ \E id \in OpaqueId : GetClientUnknown(r, leg, id, requested)
  \/ \E r \in Request : DocumentServed(r) \/ ResolveFails(r) \/ ResolveCompletes(r)

Spec == Init /\ [][Next]_vars

-------------------------------------------------------------------------------
(* Properties                                                              *)

(***************************************************************************)
(* The cache never holds more clients than the cap (comment on             *)
(* _CIMD_CACHE_MAX), whatever resolves complete at once.                   *)
(***************************************************************************)
CapIsKept == Len(order) <= CIMD_CACHE_MAX

(***************************************************************************)
(* What is cached is a client some published document declares, never one  *)
(* with a request's ephemeral redirect in it (_resolve_cimd's docstring).  *)
(***************************************************************************)
CacheIsCanonical ==
  \A u \in Url : entry[u] # None => entry[u].redirects \in published[u]

(***************************************************************************)
(* A fresh ephemeral loopback port in the query string of /authorize is    *)
(* accepted on every attempt, and only the request's own: the client       *)
(* answered has the redirect asked for if its document declares it up to   *)
(* the loopback port, and no redirect that is neither declared nor asked   *)
(* for by this request; without one in the query string, just those        *)
(* declared.                                                               *)
(***************************************************************************)
OwnRedirectOnly ==
  \A r \in Request : request[r].stage = "found" =>
    LET q == request[r]
        SameUpToPort(d) ==
          d.base = q.redirect.base /\ (d.base \in LoopbackBase \/ d.port = q.redirect.port)
    IN /\ q.document \in published[q.id]
       /\ q.client \subseteq q.document \cup ({q.redirect} \ {None})
       /\ q.redirect # None =>
            (q.redirect \in q.client <=> \E d \in q.document : SameUpToPort(d))

(***************************************************************************)
(* Least recently used: the clients put or hit last, as many as the cache  *)
(* holds, are in it for the whole TTL of their last put, whatever resolves *)
(* and hits on other clients come in between.                              *)
(***************************************************************************)
RecentlyUsedStay ==
  \A i \in 1..Len(recent) :
    /\ i > Len(recent) - CIMD_CACHE_MAX
    /\ now < stored[recent[i]] + CIMD_CACHE_TTL
    => entry[recent[i]] # None

(***************************************************************************)
(* A hit is on a client stored less than a TTL ago: hits do not extend it  *)
(* ("a TTL caps staleness of rotated CIMD documents").                     *)
(***************************************************************************)
HitsAreFresh ==
  [][\A r \in Request :
       request[r].stage = "idle" /\ request'[r].stage = "found" =>
         now < stored[request'[r].id] + CIMD_CACHE_TTL]_vars

(***************************************************************************)
(* _resolve_cimd's docstring: on the /token leg the client resolved during *)
(* /authorize is already cached, so no re-fetch is needed: no /token look- *)
(* up that follows an /authorize that found its client, within the life of *)
(* the code it led to, goes out for the document.  An entry that was       *)
(* already old at the /authorize hit, or is pushed out by other clients,   *)
(* refutes it.                                                             *)
(***************************************************************************)
Authorized(id) ==
  \E q \in Request : /\ request[q].stage = "found" /\ request[q].leg = "authorize"
                      /\ request[q].id = id /\ now < request[q].at + CodeTTL

TokenLegNeedsNoFetch ==
  [][\A r \in Request :
       request[r].stage = "idle" /\ request'[r].leg = "token" /\ Authorized(request'[r].id) =>
         request'[r].stage # "fetching"]_vars
===============================================================================

-------------------------- MODULE CimdClients_proofs --------------------------
(***************************************************************************)
(* The cache of resolved clients keeps its cap, its order and its TTL, and *)
(* every request is answered with its own redirect, for any clients,       *)
(* documents, redirects and requests, any cap and any TTL.                 *)
(***************************************************************************)
EXTENDS CimdClients, SequenceLemmas

(***************************************************************************)
(* What is cached, on its way or answered was published by its client's    *)
(* host; an entry expires a TTL after its id was last stored.              *)
(***************************************************************************)
DocumentsArePublished == \A u \in Url : document[u] \in published[u]

EntriesAreStamped ==
  \A u \in Url : entry[u] # None =>
    stored[u] \in Nat /\ entry[u].expires_at = stored[u] + CIMD_CACHE_TTL

Fetched(q) == q.stage \in {"served", "found"}

RequestsAreGenuine ==
  \A r \in Request :
    /\ request[r].stage = "fetching" \/ Fetched(request[r]) => request[r].id \in Url
    /\ Fetched(request[r]) => request[r].document \in published[request[r].id]
    /\ request[r].stage = "found" =>
         request[r].client = WithRequestedRedirect(request[r].document, request[r].redirect)

DocumentsInv ==
  DocumentsArePublished /\ CacheIsCanonical /\ EntriesAreStamped /\ RequestsAreGenuine

(***************************************************************************)
(* The order of the cache is the order of use, with the clients that were  *)
(* evicted or deleted left out.                                            *)
(***************************************************************************)
OrderIsByUse(ord, rec) ==
  /\ IsInjective(rec)
  /\ ToSet(ord) \subseteq ToSet(rec)
  /\ InOrder(ord, rec)

UsedAreStored == \A u \in ToSet(recent) : stored[u] \in Nat

UseInv == CapIsKept /\ OrderIsByUse(order, recent) /\ UsedAreStored /\ RecentlyUsedStay

IInv == TypeOK /\ DocumentsInv /\ UseInv

-------------------------------------------------------------------------------
(* Requests                                                                *)

LEMMA Constants ==
  /\ CIMD_CACHE_TTL \in Nat /\ CIMD_CACHE_MAX \in Nat \ {0}
  /\ Requested \subseteq Uri /\ Documents \subseteq SUBSET Uri
BY CimdConstantsOK

LEMMA CopyType ==
  ASSUME NEW uris \in SUBSET Uri, NEW requested \in Requested \cup {None}
  PROVE  WithRequestedRedirect(uris, requested) \in SUBSET Uri
BY Constants DEF WithRequestedRedirect

LEMMA IdleRequestType == IdleRequest \in RequestState
BY DEF IdleRequest, RequestState, Stage

(***************************************************************************)
(* What Answer changes.                                                    *)
(***************************************************************************)
LEMMA Answering ==
  ASSUME TypeOK, NEW r \in Request, NEW leg \in {"authorize", "token"} \cup {None},
         NEW id \in Url, NEW requested \in Requested \cup {None}, NEW uris \in SUBSET Uri,
         Answer(r, leg, id, requested, uris)
  PROVE  /\ request' \in [Request -> RequestState]
         /\ \A q \in Request \ {r} : request'[q] = request[q]
         /\ request'[r].stage = "found" /\ request'[r].id = id
         /\ request'[r].document = uris /\ request'[r].redirect = requested
         /\ request'[r].client = WithRequestedRedirect(uris, requested)
<1> DEFINE copy == WithRequestedRedirect(uris, requested)
           time == IF leg = "authorize" THEN now ELSE None
           q == [stage |-> "found", leg |-> leg, id |-> id, redirect |-> requested,
                 document |-> uris, client |-> copy, at |-> time]
<1>1. copy \in SUBSET Uri /\ time \in Nat \cup {None} /\ id \in ClientId \cup {None}
  BY CopyType DEF TypeOK, ClientId
<1>2. request' = [request EXCEPT ![r] = q]
  BY DEF Answer
<1> HIDE DEF copy, time
<1>3. q \in RequestState
  BY <1>1 DEF RequestState, Stage
<1>4. /\ q.stage = "found" /\ q.id = id /\ q.document = uris
      /\ q.redirect = requested /\ q.client = copy
  OBVIOUS
<1> HIDE DEF q
<1> QED
  BY <1>2, <1>3, <1>4 DEF TypeOK, copy

(***************************************************************************)
(* Requests stay genuine while hosts only publish more, and those that     *)
(* move keep what their stage says.                                        *)
(***************************************************************************)
Genuine(q, pub) ==
  /\ q.stage = "fetching" \/ Fetched(q) => q.id \in Url
  /\ Fetched(q) => q.document \in pub[q.id]
  /\ q.stage = "found" => q.client = WithRequestedRedirect(q.document, q.redirect)

LEMMA GenuineByRequest ==
  RequestsAreGenuine <=> \A r \in Request : Genuine(request[r], published)
BY DEF RequestsAreGenuine, Genuine

LEMMA MovingKeepsGenuine ==
  ASSUME RequestsAreGenuine, published' = published,
         NEW r \in Request, Genuine(request'[r], published),
         \A q \in Request \ {r} : request'[q] = request[q]
  PROVE  RequestsAreGenuine'
BY DEF RequestsAreGenuine, Genuine, Fetched

-------------------------------------------------------------------------------
(* The order of use                                                        *)

(***************************************************************************)
(* Moving u to the end of the cache's order and of the order of use.       *)
(***************************************************************************)
LEMMA MovingToEnd ==
  ASSUME NEW s \in Seq(Url), IsInjective(s), NEW u \in Url, NEW t, t = MoveToEnd(s, u)
  PROVE  /\ t \in Seq(Url) /\ IsInjective(t)
         /\ ToSet(t) = ToSet(s) \cup {u}
         /\ u \in ToSet(s) => Len(t) = Len(s)
         /\ Len(t) \in Nat \ {0} /\ t[Len(t)] = u
         /\ InOrderWithout(RemoveFirst(s, u), s, u)
         /\ InOrderThen(t, RemoveFirst(s, u), u)
         /\ ToSet(RemoveFirst(s, u)) = ToSet(s) \ {u}
<1> DEFINE m == RemoveFirst(s, u)
<1>1. /\ m \in Seq(Url) /\ IsInjective(m)
      /\ ToSet(m) = ToSet(s) \ {u}
      /\ u \in ToSet(s) => Len(m) = Len(s) - 1
      /\ InOrderWithout(m, s, u)
  BY Removing
<1> HIDE DEF m
<1>2. t = Append(m, u)
  BY DEF MoveToEnd, m
<1>3. u \notin ToSet(m)
  BY <1>1
<1>4. /\ t \in Seq(Url) /\ IsInjective(t)
      /\ ToSet(t) = ToSet(m) \cup {u}
      /\ Len(t) = Len(m) + 1
      /\ InOrderThen(t, m, u)
  BY <1>1, <1>2, <1>3, Appending
<1>5. Len(t) \in Nat \ {0} /\ t[Len(t)] = u /\ (u \in ToSet(s) => Len(t) = Len(s))
  <2>1. Len(s) \in Nat /\ Len(m) \in Nat /\ t[Len(m) + 1] = u
    BY <1>1, <1>2
  <2> QED
    BY <2>1, <1>1, <1>4
<1> QED
  BY <1>1, <1>4, <1>5 DEF m

LEMMA MovingKeepsOrder ==
  ASSUME NEW ord \in Seq(Url), IsInjective(ord), NEW rec \in Seq(Url), OrderIsByUse(ord, rec),
         NEW u \in Url, NEW ord2, ord2 = MoveToEnd(ord, u), NEW rec2, rec2 = MoveToEnd(rec, u)
  PROVE  OrderIsByUse(ord2, rec2)
<1> DEFINE m == RemoveFirst(ord, u)
           n == RemoveFirst(rec, u)
<1>1. InOrderWithout(m, ord, u) /\ InOrderThen(ord2, m, u) /\ ToSet(m) = ToSet(ord) \ {u}
  BY MovingToEnd
<1>2. IsInjective(rec) /\ InOrder(ord, rec) /\ ToSet(ord) \subseteq ToSet(rec)
  BY DEF OrderIsByUse
<1>3. InOrderWithout(n, rec, u) /\ InOrderThen(rec2, n, u) /\ ToSet(n) = ToSet(rec) \ {u}
  BY <1>2, MovingToEnd
<1>4. /\ ToSet(ord2) = ToSet(ord) \cup {u} /\ ToSet(rec2) = ToSet(rec) \cup {u}
      /\ IsInjective(rec2)
  BY <1>2, MovingToEnd
<1> HIDE DEF m, n
<1>5. ASSUME NEW x, NEW y, Before(ord2, x, y)
      PROVE  Before(rec2, x, y)
  <2>1. Before(m, x, y) \/ (x \in ToSet(m) /\ y = u)
    BY <1>1, <1>5 DEF InOrderThen
  <2>2. CASE Before(m, x, y)
    <3>1. Before(rec, x, y) /\ x # u /\ y # u
      BY <1>1, <1>2, <2>2 DEF InOrderWithout, InOrder
    <3> QED
      BY <1>3, <3>1 DEF InOrderWithout, InOrderThen
  <2>3. CASE x \in ToSet(m) /\ y = u
    BY <1>1, <1>2, <1>3, <2>3 DEF InOrderThen
  <2> QED
    BY <2>1, <2>2, <2>3
<1>6. InOrder(ord2, rec2)
  BY <1>5 DEF InOrder
<1> QED
  BY <1>2, <1>4, <1>6 DEF OrderIsByUse

(***************************************************************************)
(* Nobody but u comes nearer to the end.                                   *)
(***************************************************************************)
LEMMA OthersStepBack ==
  ASSUME NEW rec \in Seq(Url), IsInjective(rec), NEW u \in Url,
         NEW rec2, rec2 = MoveToEnd(rec, u), NEW i \in 1..Len(rec2), rec2[i] # u
  PROVE  \E j \in 1..Len(rec) : rec[j] = rec2[i] /\ Len(rec) - j <= Len(rec2) - i
<1> DEFINE m == RemoveFirst(rec, u)
<1>1. m \in Seq(Url) /\ rec2 = Append(m, u)
  BY Removing DEF MoveToEnd
<1>2. Len(m) \in Nat /\ Len(rec) \in Nat /\ Len(rec2) = Len(m) + 1 /\ rec2[Len(m) + 1] = u
  BY <1>1
<1>3. i \in 1..Len(m)
  BY <1>2
<1>4. rec2[i] = m[i]
  BY <1>1, <1>3
<1>5. CASE u \notin ToSet(rec)
  <2>1. m = rec
    BY <1>5, NothingRemoved
  <2> QED
    BY <2>1, <1>2, <1>3, <1>4
<1>6. CASE u \in ToSet(rec)
  <2>1. PICK p \in 1..Len(rec) : rec[p] = u
    BY <1>6 DEF ToSet
  <2>2. /\ Len(m) = Len(rec) - 1
        /\ \A k \in 1..(Len(rec) - 1) : m[k] = IF k < p THEN rec[k] ELSE rec[k + 1]
    BY <2>1, RemovedAt
  <2> HIDE DEF m
  <2>3. CASE i < p
    <3>1. i \in 1..Len(rec) /\ rec[i] = rec2[i] /\ Len(rec) - i <= Len(rec2) - i
      BY <1>2, <1>3, <1>4, <2>2, <2>3
    <3> QED
      BY <3>1
  <2>4. CASE ~(i < p)
    <3>1. i + 1 \in 1..Len(rec) /\ rec[i + 1] = rec2[i] /\ Len(rec) - (i + 1) <= Len(rec2) - i
      BY <1>2, <1>3, <1>4, <2>2, <2>4
    <3> QED
      BY <3>1
  <2> QED
    BY <2>3, <2>4
<1> QED
  BY <1>5, <1>6

(***************************************************************************)
(* Evicting down to the cap keeps the order, and evicts only what lies     *)
(* behind the last CIMD_CACHE_MAX uses.                                    *)
(***************************************************************************)
LEMMA Evicting ==
  ASSUME NEW ord \in Seq(Url), IsInjective(ord), NEW rec \in Seq(Url), OrderIsByUse(ord, rec),
         NEW kept, kept = Capped(ord)
  PROVE  /\ kept \in Seq(Url) /\ IsInjective(kept) /\ Len(kept) <= CIMD_CACHE_MAX
         /\ ToSet(kept) \subseteq ToSet(ord)
         /\ Len(ord) > 0 => ord[Len(ord)] \in ToSet(kept)
         /\ OrderIsByUse(kept, rec)
         /\ \A i \in 1..Len(rec) :
              rec[i] \in ToSet(ord) /\ i > Len(rec) - CIMD_CACHE_MAX => rec[i] \in ToSet(kept)
<1>1. Len(ord) \in Nat /\ CIMD_CACHE_MAX \in Nat \ {0} /\ Len(rec) \in Nat
  BY Constants
<1>2. CASE ~(Len(ord) > CIMD_CACHE_MAX)
  <2>1. kept = ord
    BY <1>2 DEF Capped
  <2>2. Len(ord) > 0 => ord[Len(ord)] \in ToSet(ord)
    BY <1>1 DEF ToSet
  <2> QED
    BY <1>1, <1>2, <2>1, <2>2
<1>3. CASE Len(ord) > CIMD_CACHE_MAX
  <2>1. kept = SubSeq(ord, Len(ord) - CIMD_CACHE_MAX + 1, Len(ord)) /\ CIMD_CACHE_MAX < Len(ord)
    BY <1>1, <1>3 DEF Capped
  <2>2. /\ kept \in Seq(Url) /\ IsInjective(kept) /\ Len(kept) = CIMD_CACHE_MAX
        /\ ToSet(kept) \subseteq ToSet(ord)
        /\ ord[Len(ord)] \in ToSet(kept)
    BY <1>1, <2>1, Keeping
  <2>3. InOrder(kept, ord)
    BY <1>1, <2>1, Keeping
  <2>4. OrderIsByUse(kept, rec)
    BY <2>2, <2>3 DEF OrderIsByUse, InOrder
  <2>5. ASSUME NEW i \in 1..Len(rec), rec[i] \in ToSet(ord), rec[i] \notin ToSet(kept)
        PROVE  i <= Len(rec) - CIMD_CACHE_MAX
    <3>1. IsInjective(rec) /\ InOrder(ord, rec)
      BY DEF OrderIsByUse
    <3> QED
      BY <1>1, <2>1, <2>5, <3>1, DroppedIsFarBack
  <2>6. ASSUME NEW i \in 1..Len(rec), rec[i] \in ToSet(ord), i > Len(rec) - CIMD_CACHE_MAX
        PROVE  rec[i] \in ToSet(kept)
    BY <1>1, <2>5, <2>6
  <2> QED
    BY <1>1, <2>2, <2>4, <2>6
<1> QED
  BY <1>2, <1>3

-------------------------------------------------------------------------------
(* Steps                                                                   *)

LEMMA IInvParts ==
  ASSUME IInv
  PROVE  /\ TypeOK /\ DocumentsInv /\ UseInv
         /\ order \in Seq(Url) /\ IsInjective(order)
         /\ recent \in Seq(Url) /\ OrderIsByUse(order, recent)
         /\ now \in Nat /\ CIMD_CACHE_MAX \in Nat \ {0} /\ CIMD_CACHE_TTL \in Nat
         /\ ToSet(order) = {u \in Url : entry[u] # None}
BY Constants DEF IInv, TypeOK, UseInv

(***************************************************************************)
(* The clock runs, a host publishes, a request moves: the order is as it   *)
(* was.                                                                    *)
(***************************************************************************)
LEMMA TickKeepsIInv == IInv /\ Tick => IInv'
<1> SUFFICES ASSUME IInv, Tick PROVE IInv'
  OBVIOUS
<1>1. now' = now + 1 /\ UNCHANGED <<document, entry, order, request, published, recent, stored>>
  BY DEF Tick
<1>2. TypeOK'
  BY <1>1, IInvParts DEF TypeOK
<1>3. DocumentsInv'
  BY <1>1, IInvParts DEF DocumentsInv, DocumentsArePublished, CacheIsCanonical, EntriesAreStamped,
                         RequestsAreGenuine, Fetched
<1>4. RecentlyUsedStay'
  <2> SUFFICES ASSUME NEW i \in 1..Len(recent), i > Len(recent) - CIMD_CACHE_MAX,
                      now + 1 < stored[recent[i]] + CIMD_CACHE_TTL
               PROVE  entry[recent[i]] # None
    BY <1>1 DEF RecentlyUsedStay
  <2>1. stored[recent[i]] \in Nat
    BY IInvParts DEF UseInv, UsedAreStored, ToSet
  <2>2. now < stored[recent[i]] + CIMD_CACHE_TTL
    BY <2>1, IInvParts
  <2> QED
    BY <2>2, IInvParts DEF UseInv, RecentlyUsedStay
<1>5. UseInv'
  BY <1>1, <1>4, IInvParts DEF UseInv, CapIsKept, OrderIsByUse, UsedAreStored
<1> QED
  BY <1>2, <1>3, <1>5 DEF IInv

LEMMA UseInvUnchanged ==
  ASSUME UseInv, UNCHANGED <<now, entry, order, recent, stored>>
  PROVE  UseInv'
BY DEF UseInv, CapIsKept, OrderIsByUse, UsedAreStored, RecentlyUsedStay

LEMMA RotateKeepsIInv ==
  ASSUME IInv, NEW u \in Url, NEW uris \in Documents, Rotate(u, uris)
  PROVE  IInv'
<1>1. /\ document' = [document EXCEPT ![u] = uris]
      /\ published' = [published EXCEPT ![u] = @ \cup {uris}]
      /\ UNCHANGED <<now, entry, order, request, recent, stored>>
  BY DEF Rotate
<1>2. TypeOK'
  BY <1>1, IInvParts DEF TypeOK
<1>3. \A v \in Url : published[v] \subseteq published'[v]
  BY <1>1, IInvParts DEF TypeOK
<1>4. DocumentsArePublished'
  BY <1>1, IInvParts DEF TypeOK, DocumentsInv, DocumentsArePublished
<1>5. CacheIsCanonical' /\ EntriesAreStamped'
  BY <1>1, <1>3, IInvParts DEF DocumentsInv, CacheIsCanonical, EntriesAreStamped
<1>6. RequestsAreGenuine'
  BY <1>1, <1>3, IInvParts DEF DocumentsInv, RequestsAreGenuine, Fetched
<1> QED
  BY <1>1, <1>2, <1>4, <1>5, <1>6, IInvParts, UseInvUnchanged DEF IInv, DocumentsInv

(***************************************************************************)
(* A request moves, and nothing else.                                      *)
(***************************************************************************)
LEMMA MoveKeepsIInv ==
  ASSUME IInv, NEW r \in Request, NEW q \in RequestState, Genuine(q, published),
         request' = [request EXCEPT ![r] = q],
         UNCHANGED <<now, document, entry, order, published, recent, stored>>
  PROVE  IInv'
<1>1. request'[r] = q /\ \A p \in Request \ {r} : request'[p] = request[p]
  BY IInvParts DEF TypeOK
<1>2. TypeOK'
  BY IInvParts DEF TypeOK
<1>3. RequestsAreGenuine'
  BY <1>1, IInvParts, MovingKeepsGenuine DEF DocumentsInv
<1>4. DocumentsArePublished' /\ CacheIsCanonical' /\ EntriesAreStamped'
  BY IInvParts DEF DocumentsInv, DocumentsArePublished, CacheIsCanonical, EntriesAreStamped
<1> QED
  BY <1>2, <1>3, <1>4, IInvParts, UseInvUnchanged DEF IInv, DocumentsInv

LEMMA UnknownKeepsIInv ==
  ASSUME IInv, NEW r \in Request, NEW leg \in {"authorize", "token"}, NEW id \in OpaqueId,
         NEW requested \in Requested \cup {None}, GetClientUnknown(r, leg, id, requested)
  PROVE  IInv'
<1> DEFINE q == [IdleRequest EXCEPT !.stage = "no_client", !.leg = leg, !.id = id,
                                    !.redirect = requested]
<1>1. IdleRequest \in RequestState
  BY IdleRequestType
<1>2. q \in RequestState /\ q.stage = "no_client"
  <2>1. ASSUME NEW p \in RequestState, NEW i \in ClientId
        PROVE  /\ [p EXCEPT !.stage = "no_client", !.leg = leg, !.id = i,
                             !.redirect = requested] \in RequestState
               /\ [p EXCEPT !.stage = "no_client", !.leg = leg, !.id = i,
                             !.redirect = requested].stage = "no_client"
    BY DEF RequestState, Stage
  <2> QED
    BY <1>1, <2>1 DEF ClientId
<1>3. /\ request' = [request EXCEPT ![r] = q]
      /\ UNCHANGED <<now, document, entry, order, published, recent, stored>>
  BY DEF GetClientUnknown
<1> HIDE DEF q
<1>4. Genuine(q, published)
  BY <1>2 DEF Genuine, Fetched
<1> QED
  BY <1>2, <1>3, <1>4, MoveKeepsIInv

LEMMA ServedKeepsIInv ==
  ASSUME IInv, NEW r \in Request, DocumentServed(r)
  PROVE  IInv'
<1> DEFINE q == [request[r] EXCEPT !.stage = "served", !.document = document[request[r].id]]
<1>1. /\ request[r].stage = "fetching" /\ request' = [request EXCEPT ![r] = q]
      /\ UNCHANGED <<now, document, entry, order, published, recent, stored>>
  BY DEF DocumentServed
<1>2. request[r] \in RequestState /\ request[r].id \in Url
  BY <1>1, IInvParts DEF TypeOK, DocumentsInv, RequestsAreGenuine
<1>3. document[request[r].id] \in SUBSET Uri
      /\ document[request[r].id] \in published[request[r].id]
  BY <1>2, IInvParts, Constants DEF TypeOK, DocumentsInv, DocumentsArePublished
<1>4. ASSUME NEW p \in RequestState, NEW d \in SUBSET Uri
      PROVE  /\ [p EXCEPT !.stage = "served", !.document = d] \in RequestState
             /\ [p EXCEPT !.stage = "served", !.document = d].stage = "served"
             /\ [p EXCEPT !.stage = "served", !.document = d].document = d
             /\ [p EXCEPT !.stage = "served", !.document = d].id = p.id
  BY DEF RequestState, Stage
<1>5. /\ q \in RequestState /\ q.stage = "served"
      /\ q.document = document[request[r].id] /\ q.id = request[r].id
  BY <1>2, <1>3, <1>4
<1> HIDE DEF q
<1>6. Genuine(q, published)
  BY <1>2, <1>3, <1>5 DEF Genuine, Fetched
<1> QED
  BY <1>1, <1>5, <1>6, MoveKeepsIInv

LEMMA FailsKeepsIInv ==
  ASSUME IInv, NEW r \in Request, ResolveFails(r)
  PROVE  IInv'
<1> DEFINE q == [request[r] EXCEPT !.stage = "no_client"]
<1>1. /\ request' = [request EXCEPT ![r] = q]
      /\ UNCHANGED <<now, document, entry, order, published, recent, stored>>
  BY DEF ResolveFails
<1>2. ASSUME NEW p \in RequestState
      PROVE  /\ [p EXCEPT !.stage = "no_client"] \in RequestState
             /\ [p EXCEPT !.stage = "no_client"].stage = "no_client"
  BY DEF RequestState, Stage
<1>3. q \in RequestState /\ q.stage = "no_client"
  BY <1>2, IInvParts DEF TypeOK
<1> HIDE DEF q
<1>4. Genuine(q, published)
  BY <1>3 DEF Genuine, Fetched
<1> QED
  BY <1>1, <1>3, <1>4, MoveKeepsIInv

LEMMA HitKeepsIInv ==
  ASSUME IInv, NEW r \in Request, NEW leg \in {"authorize", "token"}, NEW id \in Url,
         NEW requested \in Requested \cup {None}, GetClientHit(r, leg, id, requested)
  PROVE  IInv'
<1> DEFINE uris == entry[id].redirects
<1>1. /\ entry[id] # None
      /\ order' = MoveToEnd(order, id) /\ recent' = MoveToEnd(recent, id)
      /\ Answer(r, leg, id, requested, uris)
      /\ UNCHANGED <<now, document, entry, published, stored>>
  BY DEF GetClientHit, Lives, TouchOnHit
<1>2. uris \in SUBSET Uri /\ uris \in published[id] /\ stored[id] \in Nat
  <2>1. entry[id] \in Entry
    BY <1>1, IInvParts DEF TypeOK
  <2> QED
    BY <1>1, <2>1, IInvParts DEF Entry, DocumentsInv, CacheIsCanonical, EntriesAreStamped
<1> HIDE DEF uris
<1>3. /\ request' \in [Request -> RequestState]
      /\ \A q \in Request \ {r} : request'[q] = request[q]
      /\ request'[r].stage = "found" /\ request'[r].id = id
      /\ request'[r].document = uris /\ request'[r].redirect = requested
      /\ request'[r].client = WithRequestedRedirect(uris, requested)
  <2>1. leg \in {"authorize", "token"} \cup {None} /\ TypeOK
    BY IInvParts
  <2> QED
    BY <1>1, <1>2, <2>1, Answering
<1>4. id \in ToSet(order)
  BY <1>1, IInvParts
<1>5. /\ order' \in Seq(Url) /\ IsInjective(order')
      /\ ToSet(order') = ToSet(order) /\ Len(order') = Len(order)
  <2>1. ToSet(order') = ToSet(order) \cup {id}
    BY <1>1, IInvParts, MovingToEnd
  <2>2. order' \in Seq(Url) /\ IsInjective(order') /\ Len(order') = Len(order)
    BY <1>1, <1>4, IInvParts, MovingToEnd
  <2> QED
    BY <1>4, <2>1, <2>2
<1>6. recent' \in Seq(Url) /\ IsInjective(recent) /\ ToSet(recent') = ToSet(recent) \cup {id}
  <2>1. IsInjective(recent)
    BY IInvParts DEF OrderIsByUse
  <2> QED
    BY <1>1, <2>1, IInvParts, MovingToEnd
<1>7. TypeOK'
  BY <1>1, <1>3, <1>5, <1>6, IInvParts DEF TypeOK
<1>8. DocumentsInv'
  <2>1. Genuine(request'[r], published)
    BY <1>2, <1>3 DEF Genuine, Fetched
  <2>2. RequestsAreGenuine'
    BY <1>1, <1>3, <2>1, IInvParts, MovingKeepsGenuine DEF DocumentsInv
  <2> QED
    BY <1>1, <2>2, IInvParts
       DEF DocumentsInv, DocumentsArePublished, CacheIsCanonical, EntriesAreStamped
<1>9. OrderIsByUse(order', recent')
  BY <1>1, IInvParts, MovingKeepsOrder
<1>10. RecentlyUsedStay'
  <2> SUFFICES ASSUME NEW i \in 1..Len(recent'), i > Len(recent') - CIMD_CACHE_MAX,
                      now < stored[recent'[i]] + CIMD_CACHE_TTL
               PROVE  entry[recent'[i]] # None
    BY <1>1 DEF RecentlyUsedStay
  <2>1. CASE recent'[i] = id
    BY <1>1, <2>1
  <2>2. CASE recent'[i] # id
    <3>1. PICK j \in 1..Len(recent) : recent[j] = recent'[i] /\ Len(recent) - j <= Len(recent') - i
      BY <1>1, <1>6, <2>2, IInvParts, OthersStepBack
    <3>2. Len(recent) \in Nat /\ Len(recent') \in Nat
      BY <1>6, IInvParts
    <3>3. j > Len(recent) - CIMD_CACHE_MAX
      BY <3>1, <3>2, IInvParts
    <3> QED
      BY <3>1, <3>3, IInvParts DEF UseInv, RecentlyUsedStay
  <2> QED
    BY <2>1, <2>2
<1>11. UseInv'
  <2>1. CapIsKept'
    BY <1>5, IInvParts DEF UseInv, CapIsKept
  <2>2. UsedAreStored'
    BY <1>1, <1>2, <1>6, IInvParts DEF UseInv, UsedAreStored
  <2> QED
    BY <1>9, <1>10, <2>1, <2>2 DEF UseInv, OrderIsByUse
<1> QED
  BY <1>7, <1>8, <1>11 DEF IInv

LEMMA MissKeepsIInv ==
  ASSUME IInv, NEW r \in Request, NEW leg \in {"authorize", "token"}, NEW id \in Url,
         NEW requested \in Requested \cup {None}, GetClientMiss(r, leg, id, requested)
  PROVE  IInv'
<1> DEFINE q == [IdleRequest EXCEPT !.stage = "fetching", !.leg = leg, !.id = id,
                                    !.redirect = requested]
<1>1. /\ ~Lives(entry[id]) /\ entry' = [entry EXCEPT ![id] = None]
      /\ order' = RemoveFirst(order, id) /\ request' = [request EXCEPT ![r] = q]
      /\ UNCHANGED <<now, document, published, recent, stored>>
  BY DEF GetClientMiss
<1>2. q \in RequestState /\ q.stage = "fetching" /\ q.id = id
  <2>1. ASSUME NEW p \in RequestState, NEW i \in ClientId
        PROVE  /\ [p EXCEPT !.stage = "fetching", !.leg = leg, !.id = i,
                             !.redirect = requested] \in RequestState
               /\ [p EXCEPT !.stage = "fetching", !.leg = leg, !.id = i,
                             !.redirect = requested].stage = "fetching"
               /\ [p EXCEPT !.stage = "fetching", !.leg = leg, !.id = i,
                             !.redirect = requested].id = i
    BY DEF RequestState, Stage
  <2> QED
    BY <2>1, IdleRequestType DEF ClientId
<1> HIDE DEF q
<1>3. \A u \in Url : entry'[u] = IF u = id THEN None ELSE entry[u]
  BY <1>1, IInvParts DEF TypeOK
<1>4. /\ order' \in Seq(Url) /\ IsInjective(order')
      /\ ToSet(order') = ToSet(order) \ {id} /\ Len(order') <= Len(order)
      /\ InOrderWithout(order', order, id)
  BY <1>1, IInvParts, Removing
<1>5. TypeOK'
  <2>1. ToSet(order') = {u \in Url : entry'[u] # None}
    BY <1>3, <1>4, IInvParts
  <2> QED
    BY <1>1, <1>2, <1>4, <2>1, IInvParts DEF TypeOK
<1>6. DocumentsInv'
  <2>1. request'[r] = q /\ \A p \in Request \ {r} : request'[p] = request[p]
    BY <1>1, IInvParts DEF TypeOK
  <2>2. Genuine(q, published)
    BY <1>2 DEF Genuine, Fetched
  <2>3. RequestsAreGenuine'
    BY <1>1, <2>1, <2>2, IInvParts, MovingKeepsGenuine DEF DocumentsInv
  <2> QED
    BY <1>1, <1>3, <2>3, IInvParts
       DEF DocumentsInv, DocumentsArePublished, CacheIsCanonical, EntriesAreStamped
<1>7. OrderIsByUse(order', recent)
  BY <1>4, IInvParts DEF OrderIsByUse, InOrder, InOrderWithout
<1>8. RecentlyUsedStay'
  <2> SUFFICES ASSUME NEW i \in 1..Len(recent), i > Len(recent) - CIMD_CACHE_MAX,
                      now < stored[recent[i]] + CIMD_CACHE_TTL
               PROVE  entry'[recent[i]] # None
    BY <1>1 DEF RecentlyUsedStay
  <2>1. entry[recent[i]] # None /\ recent[i] \in Url
    BY IInvParts DEF UseInv, RecentlyUsedStay
  <2>2. recent[i] # id
    <3> SUFFICES ASSUME recent[i] = id PROVE FALSE
      OBVIOUS
    <3>1. ~(entry[id].expires_at > now)
      BY <1>1, <2>1 DEF Lives
    <3>2. stored[id] \in Nat /\ entry[id].expires_at = stored[id] + CIMD_CACHE_TTL
      BY <2>1, IInvParts DEF DocumentsInv, EntriesAreStamped
    <3> QED
      BY <3>1, <3>2, IInvParts
  <2> QED
    BY <1>3, <2>1, <2>2
<1>9. UseInv'
  <2>1. CapIsKept'
    <3>1. Len(order') \in Nat /\ Len(order) \in Nat
      BY <1>4, IInvParts
    <3> QED
      BY <1>4, <3>1, IInvParts DEF UseInv, CapIsKept
  <2> QED
    BY <1>1, <1>7, <1>8, <2>1, IInvParts DEF UseInv, UsedAreStored, OrderIsByUse
<1> QED
  BY <1>5, <1>6, <1>9 DEF IInv

LEMMA CompletesKeepsIInv ==
  ASSUME IInv, NEW r \in Request, ResolveCompletes(r)
  PROVE  IInv'
<1> DEFINE u    == request[r].id
           uris == request[r].document
           m    == MoveToEnd(order, u)
           kept == Capped(m)
           new  == [redirects |-> uris, expires_at |-> now + CIMD_CACHE_TTL]
<1>1. /\ request[r].stage = "served"
      /\ order' = kept
      /\ entry' = [v \in Url |-> IF v \notin ToSet(kept) THEN None
                                 ELSE IF v = u THEN new ELSE entry[v]]
      /\ recent' = MoveToEnd(recent, u) /\ stored' = [stored EXCEPT ![u] = now]
      /\ Answer(r, request[r].leg, u, request[r].redirect, uris)
      /\ UNCHANGED <<now, document, published>>
  BY DEF ResolveCompletes, CachePut
<1>2. /\ u \in Url /\ uris \in published[u] /\ uris \in SUBSET Uri
      /\ request[r].leg \in {"authorize", "token"} \cup {None}
      /\ request[r].redirect \in Requested \cup {None}
  <2>1. request[r] \in RequestState
    BY IInvParts DEF TypeOK
  <2>2. u \in Url /\ uris \in published[u]
    BY <1>1, IInvParts DEF DocumentsInv, RequestsAreGenuine, Fetched
  <2> QED
    BY <2>1, <2>2 DEF RequestState
<1>3. new \in Entry /\ new # None /\ new.redirects = uris /\ new.expires_at = now + CIMD_CACHE_TTL
  <2>1. new \in Entry
    BY <1>2, IInvParts DEF Entry
  <2> QED
    BY <2>1, NoneIsNoCachedClient
<1> HIDE DEF new, uris, u
<1>4. /\ request' \in [Request -> RequestState]
      /\ \A q \in Request \ {r} : request'[q] = request[q]
      /\ request'[r].stage = "found" /\ request'[r].id = u
      /\ request'[r].document = uris /\ request'[r].redirect = request[r].redirect
      /\ request'[r].client = WithRequestedRedirect(uris, request[r].redirect)
  BY <1>1, <1>2, IInvParts, Answering
<1>5. m \in Seq(Url) /\ IsInjective(m) /\ Len(m) \in Nat \ {0} /\ m[Len(m)] = u
  BY <1>2, IInvParts, MovingToEnd
<1>6. ToSet(m) = ToSet(order) \cup {u}
  BY <1>2, IInvParts, MovingToEnd
<1>7. IsInjective(recent)
  BY IInvParts DEF OrderIsByUse
<1>8. recent' \in Seq(Url) /\ ToSet(recent') = ToSet(recent) \cup {u}
  BY <1>1, <1>2, <1>7, IInvParts, MovingToEnd
<1>9. OrderIsByUse(m, recent')
  BY <1>1, <1>2, IInvParts, MovingKeepsOrder
<1> HIDE DEF m
<1>10. /\ kept \in Seq(Url) /\ IsInjective(kept) /\ Len(kept) <= CIMD_CACHE_MAX
       /\ ToSet(kept) \subseteq ToSet(m)
       /\ OrderIsByUse(kept, recent')
  BY <1>5, <1>8, <1>9, Evicting
<1>11. u \in ToSet(kept)
  <2>1. Len(m) > 0 => m[Len(m)] \in ToSet(kept)
    BY <1>5, <1>8, <1>9, Evicting
  <2> QED
    BY <1>5, <2>1
<1>12. \A i \in 1..Len(recent') :
         recent'[i] \in ToSet(m) /\ i > Len(recent') - CIMD_CACHE_MAX => recent'[i] \in ToSet(kept)
  BY <1>5, <1>8, <1>9, Evicting
<1> HIDE DEF kept
<1>13. \A v \in Url : entry'[v] = IF v \notin ToSet(kept) THEN None
                                  ELSE IF v = u THEN new ELSE entry[v]
  BY <1>1
<1>14. \A v \in Url : entry'[v] # None => v = u \/ entry'[v] = entry[v]
  BY <1>13
<1>15. \A v \in Url : stored'[v] = IF v = u THEN now ELSE stored[v]
  BY <1>1, IInvParts DEF TypeOK
<1>16. entry'[u] = new
  BY <1>2, <1>11, <1>13
<1>17. TypeOK'
  <2>1. ToSet(kept) = {v \in Url : entry'[v] # None}
    <3>1. \A v \in Url : v \in ToSet(kept) => v = u \/ entry[v] # None
      BY <1>6, <1>10, IInvParts
    <3>2. \A v \in Url : v \in ToSet(kept) <=> entry'[v] # None
      BY <1>3, <1>13, <3>1
    <3>3. ToSet(kept) \subseteq Url
      BY <1>10 DEF ToSet
    <3> QED
      BY <3>2, <3>3
  <2>2. entry' \in [Url -> Entry \cup {None}]
    <3>1. \A v \in Url : entry'[v] \in Entry \cup {None}
      BY <1>3, <1>13, IInvParts DEF TypeOK
    <3> QED
      BY <1>1, <3>1
  <2>3. stored' \in [Url -> Nat \cup {None}]
    BY <1>1, IInvParts DEF TypeOK
  <2>4. order' \in Seq(Url) /\ IsInjective(order') /\ ToSet(order') = {v \in Url : entry'[v] # None}
    BY <1>1, <1>10, <2>1
  <2> QED
    BY <1>1, <1>4, <1>8, <2>2, <2>3, <2>4, IInvParts DEF TypeOK
<1>18. DocumentsInv'
  <2>1. Genuine(request'[r], published)
    BY <1>2, <1>4 DEF Genuine, Fetched
  <2>2. RequestsAreGenuine'
    BY <1>1, <1>4, <2>1, IInvParts, MovingKeepsGenuine DEF DocumentsInv
  <2>3. CacheIsCanonical'
    BY <1>1, <1>2, <1>3, <1>14, <1>16, IInvParts DEF DocumentsInv, CacheIsCanonical
  <2>4. EntriesAreStamped'
    <3> SUFFICES ASSUME NEW v \in Url, entry'[v] # None
                 PROVE  stored'[v] \in Nat /\ entry'[v].expires_at = stored'[v] + CIMD_CACHE_TTL
      BY DEF EntriesAreStamped
    <3>1. CASE v = u
      BY <1>3, <1>15, <1>16, <3>1, IInvParts
    <3>2. CASE v # u
      BY <1>14, <1>15, <3>2, IInvParts DEF DocumentsInv, EntriesAreStamped
    <3> QED
      BY <3>1, <3>2
  <2>5. DocumentsArePublished'
    BY <1>1, IInvParts DEF DocumentsInv, DocumentsArePublished
  <2> QED
    BY <2>2, <2>3, <2>4, <2>5 DEF DocumentsInv
<1>19. RecentlyUsedStay'
  <2> SUFFICES ASSUME NEW i \in 1..Len(recent'), i > Len(recent') - CIMD_CACHE_MAX,
                      now < stored'[recent'[i]] + CIMD_CACHE_TTL
               PROVE  entry'[recent'[i]] # None
    BY <1>1 DEF RecentlyUsedStay
  <2>1. CASE recent'[i] = u
    BY <1>3, <1>16, <2>1
  <2>2. CASE recent'[i] # u
    <3>1. PICK j \in 1..Len(recent) : recent[j] = recent'[i] /\ Len(recent) - j <= Len(recent') - i
      BY <1>1, <1>2, <1>7, <2>2, IInvParts, OthersStepBack
    <3>2. Len(recent) \in Nat /\ Len(recent') \in Nat
      BY <1>8, IInvParts
    <3>3. j > Len(recent) - CIMD_CACHE_MAX
      BY <3>1, <3>2, IInvParts
    <3>4. recent'[i] \in Url
      BY <1>8
    <3>5. now < stored[recent[j]] + CIMD_CACHE_TTL
      BY <1>15, <2>2, <3>1, <3>4
    <3>6. entry[recent'[i]] # None
      BY <3>1, <3>3, <3>5, IInvParts DEF UseInv, RecentlyUsedStay
    <3>7. recent'[i] \in ToSet(m)
      BY <1>6, <3>4, <3>6, IInvParts
    <3>8. recent'[i] \in ToSet(kept)
      BY <1>12, <3>7
    <3> QED
      BY <1>13, <2>2, <3>4, <3>6, <3>8
  <2> QED
    BY <2>1, <2>2
<1>20. UseInv'
  <2>1. CapIsKept'
    BY <1>1, <1>10 DEF CapIsKept
  <2>2. UsedAreStored'
    <3>1. ToSet(recent) \subseteq Url
      BY IInvParts DEF ToSet
    <3> QED
      BY <1>2, <1>8, <1>15, <3>1, IInvParts DEF UseInv, UsedAreStored
  <2>3. OrderIsByUse(order', recent')
    BY <1>1, <1>10
  <2> QED
    BY <1>19, <2>1, <2>2, <2>3 DEF UseInv, OrderIsByUse
<1> QED
  BY <1>17, <1>18, <1>20 DEF IInv

-------------------------------------------------------------------------------
(* Theorems                                                                *)

LEMMA InitEstablishesIInv == Init => IInv
<1> SUFFICES ASSUME Init PROVE IInv
  OBVIOUS
<1>1. /\ \A u \in Url : entry[u] = None
      /\ \A r \in Request : request[r].stage = "idle"
      /\ order = <<>> /\ recent = <<>>
  BY DEF Init, IdleRequest
<1>2. Len(order) = 0 /\ ToSet(order) = {} /\ ToSet(recent) = {} /\ Len(recent) = 0
  BY <1>1 DEF ToSet
<1>3. IsInjective(order) /\ IsInjective(recent) /\ InOrder(order, recent)
  BY <1>1, <1>2 DEF IsInjective, InOrder, Before
<1>4. TypeOK
  <2>1. document \in [Url -> Documents] /\ published = [u \in Url |-> {document[u]}]
    BY DEF Init
  <2>2. published \in [Url -> SUBSET Documents]
    BY <2>1
  <2>3. request \in [Request -> RequestState]
    BY IdleRequestType DEF Init
  <2> QED
    BY <1>1, <1>2, <1>3, <2>1, <2>2, <2>3 DEF Init, TypeOK
<1>5. DocumentsInv
  BY <1>1 DEF Init, DocumentsInv, DocumentsArePublished, CacheIsCanonical, EntriesAreStamped,
              RequestsAreGenuine, Fetched
<1>6. UseInv
  <2>1. CapIsKept
    BY <1>2, Constants DEF CapIsKept
  <2>2. OrderIsByUse(order, recent)
    BY <1>2, <1>3 DEF OrderIsByUse
  <2> QED
    BY <1>2, <2>1, <2>2 DEF UseInv, UsedAreStored, RecentlyUsedStay
<1> QED
  BY <1>4, <1>5, <1>6 DEF IInv

LEMMA NextKeepsIInv == IInv /\ [Next]_vars => IInv'
<1> SUFFICES ASSUME IInv, [Next]_vars PROVE IInv'
  OBVIOUS
<1>1. CASE Tick
  BY <1>1, TickKeepsIInv
<1>2. CASE \E u \in Url, uris \in Documents : Rotate(u, uris)
  BY <1>2, RotateKeepsIInv
<1>3. CASE \E r \in Request, leg \in {"authorize", "token"}, id \in Url,
              requested \in Requested \cup {None} : GetClientHit(r, leg, id, requested)
  BY <1>3, HitKeepsIInv
<1>4. CASE \E r \in Request, leg \in {"authorize", "token"}, id \in Url,
              requested \in Requested \cup {None} : GetClientMiss(r, leg, id, requested)
  BY <1>4, MissKeepsIInv
<1>5. CASE \E r \in Request, leg \in {"authorize", "token"}, id \in OpaqueId,
              requested \in Requested \cup {None} : GetClientUnknown(r, leg, id, requested)
  BY <1>5, UnknownKeepsIInv
<1>6. CASE \E r \in Request : DocumentServed(r)
  BY <1>6, ServedKeepsIInv
<1>7. CASE \E r \in Request : ResolveCompletes(r)
  BY <1>7, CompletesKeepsIInv
<1>8. CASE \E r \in Request : ResolveFails(r)
  BY <1>8, FailsKeepsIInv
<1>9. CASE UNCHANGED vars
  <2>1. UNCHANGED <<now, document, entry, order, request, published, recent, stored>>
    BY <1>9 DEF vars
  <2>2. TypeOK'
    BY <2>1, IInvParts DEF TypeOK
  <2>3. DocumentsInv'
    BY <2>1, IInvParts DEF DocumentsInv, DocumentsArePublished, CacheIsCanonical,
                           EntriesAreStamped, RequestsAreGenuine, Fetched
  <2> QED
    BY <2>1, <2>2, <2>3, IInvParts, UseInvUnchanged DEF IInv
<1> QED
  BY <1>1, <1>2, <1>3, <1>4, <1>5, <1>6, <1>7, <1>8, <1>9 DEF Next

(***************************************************************************)
(* The cache, the requests and the order of use agree in every state.      *)
(***************************************************************************)
THEOREM CimdInvariant == Spec => []IInv
BY InitEstablishesIInv, NextKeepsIInv, PTL DEF Spec

(***************************************************************************)
(* Types; _clients and its order hold the same ids, each once.             *)
(***************************************************************************)
THEOREM CimdTypes == Spec => []TypeOK
<1>1. IInv => TypeOK
  BY DEF IInv
<1> QED
  BY <1>1, CimdInvariant, PTL

(***************************************************************************)
(* Whatever resolves complete at once, the cache is never over its cap.    *)
(***************************************************************************)
THEOREM CacheStaysBounded == Spec => []CapIsKept
<1>1. IInv => CapIsKept
  BY DEF IInv, UseInv
<1> QED
  BY <1>1, CimdInvariant, PTL

(***************************************************************************)
(* Only what a host published is cached: no request's ephemeral redirect   *)
(* is pinned for later ones.                                               *)
(***************************************************************************)
THEOREM OnlyDocumentsAreCached == Spec => []CacheIsCanonical
<1>1. IInv => CacheIsCanonical
  BY DEF IInv, DocumentsInv
<1> QED
  BY <1>1, CimdInvariant, PTL

(***************************************************************************)
(* The last CIMD_CACHE_MAX clients used stay for the TTL of their last     *)
(* put: eviction is by least recent use, for any cap.                      *)
(***************************************************************************)
THEOREM EvictionIsByUse == Spec => []RecentlyUsedStay
<1>1. IInv => RecentlyUsedStay
  BY DEF IInv, UseInv
<1> QED
  BY <1>1, CimdInvariant, PTL

(***************************************************************************)
(* The client a request is answered with has the request's own redirect,   *)
(* when its document declares it up to the loopback port, and nothing that *)
(* is neither declared nor asked for.                                      *)
(***************************************************************************)
THEOREM EachRequestItsRedirect == Spec => []OwnRedirectOnly
<1>1. IInv => OwnRedirectOnly
  <2> SUFFICES ASSUME IInv, NEW r \in Request, request[r].stage = "found"
               PROVE  LET q == request[r]
                          SameUpToPort(d) ==
                            d.base = q.redirect.base /\ (d.base \in LoopbackBase \/ d.port = q.redirect.port)
                      IN /\ q.document \in published[q.id]
                         /\ q.client \subseteq q.document \cup ({q.redirect} \ {None})
                         /\ q.redirect # None =>
                              (q.redirect \in q.client <=> \E d \in q.document : SameUpToPort(d))
    BY DEF OwnRedirectOnly
  <2> DEFINE q == request[r]
  <2>1. q \in RequestState /\ q.document \in SUBSET Uri /\ q.redirect \in Requested \cup {None}
    BY IInvParts DEF TypeOK, RequestState
  <2>2. q.document \in published[q.id] /\ q.client = WithRequestedRedirect(q.document, q.redirect)
    BY IInvParts DEF DocumentsInv, RequestsAreGenuine, Fetched
  <2> HIDE DEF q
  <2>3. q.client \subseteq q.document \cup ({q.redirect} \ {None})
    BY <2>2 DEF WithRequestedRedirect
  <2>4. ASSUME NEW d \in q.document, NEW asked \in Uri, NEW e \in Uri, e = d
        PROVE  RedirectUriMatches(asked, e) <=>
                 e.base = asked.base /\ (e.base \in LoopbackBase \/ e.port = asked.port)
    BY DEF RedirectUriMatches, Uri
  <2>5. ASSUME q.redirect # None
        PROVE  q.redirect \in q.client <=>
                 \E d \in q.document : d.base = q.redirect.base
                                       /\ (d.base \in LoopbackBase \/ d.port = q.redirect.port)
    <3>1. q.redirect \in Uri /\ \A d \in q.document : d \in Uri
      BY <2>1, <2>5, Constants
    <3>2. \A d \in q.document : RedirectUriMatches(q.redirect, d) <=>
            d.base = q.redirect.base /\ (d.base \in LoopbackBase \/ d.port = q.redirect.port)
      BY <2>4, <3>1
    <3>3. q.redirect \in q.document => RedirectUriMatches(q.redirect, q.redirect)
      BY DEF RedirectUriMatches
    <3>4. q.redirect \in q.client <=> \E d \in q.document : RedirectUriMatches(q.redirect, d)
      BY <2>2, <2>5, <3>3 DEF WithRequestedRedirect
    <3> QED
      BY <3>2, <3>4
  <2> QED
    BY <2>2, <2>3, <2>5 DEF q
<1> QED
  BY <1>1, CimdInvariant, PTL

(***************************************************************************)
(* A hit is on a client stored less than a TTL ago, however often it was   *)
(* hit since.                                                              *)
(***************************************************************************)
HitIsFresh ==
  \A r \in Request :
    request[r].stage = "idle" /\ request'[r].stage = "found" =>
      now < stored[request'[r].id] + CIMD_CACHE_TTL

THEOREM HitsDoNotExtendTheTTL == Spec => HitsAreFresh
<1>1. IInv /\ [Next]_vars => [HitIsFresh]_vars
  <2> SUFFICES ASSUME IInv, Next, NEW r \in Request, request[r].stage = "idle",
                      request'[r].stage = "found"
               PROVE  now < stored[request'[r].id] + CIMD_CACHE_TTL
    BY DEF HitIsFresh
  <2>1. CASE \E q \in Request, leg \in {"authorize", "token"}, id \in Url,
                requested \in Requested \cup {None} : GetClientHit(q, leg, id, requested)
    <3>1. PICK q \in Request, leg \in {"authorize", "token"}, id \in Url,
               requested \in Requested \cup {None} : GetClientHit(q, leg, id, requested)
      BY <2>1
    <3>2. Lives(entry[id]) /\ Answer(q, leg, id, requested, entry[id].redirects)
      BY <3>1 DEF GetClientHit
    <3>3. q = r
      BY <3>2, IInvParts DEF Answer, TypeOK
    <3>4. request'[r].id = id
      BY <3>2, <3>3, IInvParts DEF Answer, TypeOK
    <3>5. stored[id] \in Nat /\ entry[id].expires_at = stored[id] + CIMD_CACHE_TTL
      BY <3>2, IInvParts DEF Lives, DocumentsInv, EntriesAreStamped
    <3> QED
      BY <3>2, <3>4, <3>5, IInvParts DEF Lives
  <2>2. CASE \E q \in Request, leg \in {"authorize", "token"}, id \in Url,
                requested \in Requested \cup {None} : GetClientMiss(q, leg, id, requested)
    <3>1. PICK q \in Request, leg \in {"authorize", "token"}, id \in Url,
               requested \in Requested \cup {None} : GetClientMiss(q, leg, id, requested)
      BY <2>2
    <3> DEFINE e == [IdleRequest EXCEPT !.stage = "fetching", !.leg = leg, !.id = id,
                                        !.redirect = requested]
    <3>2. request' = [request EXCEPT ![q] = e]
      BY <3>1 DEF GetClientMiss
    <3>3. e.stage = "fetching"
      BY DEF IdleRequest
    <3> HIDE DEF e
    <3> QED
      BY <3>2, <3>3, IInvParts DEF TypeOK
  <2>3. CASE \E q \in Request, leg \in {"authorize", "token"}, id \in OpaqueId,
                requested \in Requested \cup {None} : GetClientUnknown(q, leg, id, requested)
    <3>1. PICK q \in Request, leg \in {"authorize", "token"}, id \in OpaqueId,
                requested \in Requested \cup {None} : GetClientUnknown(q, leg, id, requested)
      BY <2>3
    <3> DEFINE e == [IdleRequest EXCEPT !.stage = "no_client", !.leg = leg, !.id = id,
                                        !.redirect = requested]
    <3>2. request' = [request EXCEPT ![q] = e]
      BY <3>1 DEF GetClientUnknown
    <3>3. e.stage = "no_client"
      BY DEF IdleRequest
    <3> HIDE DEF e
    <3> QED
      BY <3>2, <3>3, IInvParts DEF TypeOK
  <2>4. CASE \E q \in Request : DocumentServed(q) \/ ResolveFails(q) \/ ResolveCompletes(q)
    <3>1. PICK q \in Request : DocumentServed(q) \/ ResolveFails(q) \/ ResolveCompletes(q)
      BY <2>4
    <3>2. q # r
      BY <3>1 DEF DocumentServed, ResolveCompletes, ResolveFails
    <3>3. request'[r] = request[r]
      BY <3>1, <3>2, IInvParts
         DEF DocumentServed, ResolveCompletes, ResolveFails, Answer, TypeOK
    <3> QED
      BY <3>3
  <2>5. CASE Tick \/ \E u \in Url, uris \in Documents : Rotate(u, uris)
    BY <2>5 DEF Tick, Rotate
  <2> QED
    BY <2>1, <2>2, <2>3, <2>4, <2>5 DEF Next
<1> QED
  BY <1>1, CimdInvariant, PTL DEF Spec, HitsAreFresh, HitIsFresh
==============================================================================

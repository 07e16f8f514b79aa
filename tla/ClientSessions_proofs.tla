------------------------ MODULE ClientSessions_proofs ------------------------
(***************************************************************************)
(* The session cache, the clients and the calls agree, for any sessions,   *)
(* bearers, clients and calls, any TTL and any clock.                      *)
(***************************************************************************)
EXTENDS ClientSessions, TLAPS

Clients == [Client -> ClientState \cup {None}]

(***************************************************************************)
(* An entry is for an open client of its key and expires TTL after that    *)
(* client was built; an open client with a key is the cached one of it.    *)
(***************************************************************************)
EntriesAgree(ca, cl) ==
  \A key \in Key : ca[key] # None =>
    /\ cl[ca[key].client] # None
    /\ cl[ca[key].client].open
    /\ cl[ca[key].client].key = key
    /\ ca[key].expires_at = cl[ca[key].client].built_at + TTL

OpenAreCached(ca, cl) ==
  \A c \in Client : cl[c] # None /\ cl[c].open /\ cl[c].key # None =>
    ca[cl[c].key] # None /\ ca[cl[c].key].client = c

(***************************************************************************)
(* No client is from the future, and one with a key is closed only when    *)
(* its TTL is over, or by the shutdown.                                    *)
(***************************************************************************)
BuiltInThePast(cl, t) == \A c \in Client : cl[c] # None => cl[c].built_at <= t

ClosedInTime(cl, t, sv) ==
  \A c \in Client : cl[c] # None /\ cl[c].key # None /\ ~cl[c].open =>
    t > cl[c].built_at + TTL \/ ~sv

BuiltApart(cl) ==
  \A c, d \in Client :
    /\ c # d
    /\ cl[c] # None /\ cl[d] # None
    /\ cl[c].key # None /\ cl[c].key = cl[d].key
    => \/ cl[c].built_at > cl[d].built_at + TTL
       \/ cl[d].built_at > cl[c].built_at + TTL

SweptBy(ca, cl) ==
  \A key \in Key, c \in Client :
    ca[key] # None /\ cl[c] # None /\ cl[c].key # None =>
      cl[c].built_at <= ca[key].expires_at

CacheInv(ca, cl, t, sv) ==
  /\ EntriesAgree(ca, cl)
  /\ OpenAreCached(ca, cl)
  /\ BuiltInThePast(cl, t)
  /\ ClosedInTime(cl, t, sv)
  /\ BuiltApart(cl)
  /\ SweptBy(ca, cl)

(***************************************************************************)
(* A running call's client was built for its bearer, under the key of its  *)
(* session and bearer or, without a session, for this call alone; and then *)
(* it is open, and only then.  A client with a key was built for the       *)
(* key's bearer.                                                           *)
(***************************************************************************)
Running(k) == call[k].stage = "running"

HoldsItsOwn(k, cl) ==
  /\ cl[call[k].client] # None
  /\ cl[call[k].client].bearer = call[k].bearer
  /\ call[k].session # None =>
       cl[call[k].client].key = <<call[k].session, call[k].bearer>>
  /\ call[k].session = None =>
       /\ cl[call[k].client].key = None
       /\ cl[call[k].client].open
       /\ \A l \in Call : Running(l) /\ call[l].client = call[k].client => l = k

CallsInv(cl) ==
  /\ \A k \in Call : Running(k) => HoldsItsOwn(k, cl)
  /\ \A c \in Client : cl[c] # None /\ cl[c].key = None /\ cl[c].open =>
       \E k \in Call : Running(k) /\ call[k].client = c
  /\ \A c \in Client : cl[c] # None /\ cl[c].key # None => cl[c].key[2] = cl[c].bearer

IInv == TypeOK /\ CacheInv(cache, client, now, serving) /\ CallsInv(client)

-------------------------------------------------------------------------------
(* Operators                                                               *)

LEMMA NoneIsNone ==
  /\ None \notin Session /\ None \notin Bearer /\ None \notin Client
  /\ None \notin Key /\ None \notin Entry /\ None \notin ClientState
BY NoneIsNoEntry, NoneIsNoClient

(***************************************************************************)
(* Close closes the clients in the set and changes nothing else.           *)
(***************************************************************************)
LEMMA ClosedRecord ==
  ASSUME NEW r \in ClientState
  PROVE  /\ [r EXCEPT !.open = FALSE] \in ClientState
         /\ [r EXCEPT !.open = FALSE].bearer = r.bearer
         /\ [r EXCEPT !.open = FALSE].key = r.key
         /\ [r EXCEPT !.open = FALSE].built_at = r.built_at
         /\ [r EXCEPT !.open = FALSE].open = FALSE
BY DEF ClientState

LEMMA Closing ==
  ASSUME NEW cl \in Clients, NEW which, NEW cl2, cl2 = Close(cl, which)
  PROVE  /\ cl2 \in Clients
         /\ \A c \in Client :
              /\ cl2[c] = None <=> cl[c] = None
              /\ cl[c] # None => /\ cl2[c].bearer = cl[c].bearer
                                 /\ cl2[c].key = cl[c].key
                                 /\ cl2[c].built_at = cl[c].built_at
                                 /\ cl2[c].open <=> cl[c].open /\ c \notin which
<1>1. ASSUME NEW c \in Client
      PROVE  /\ cl2[c] \in ClientState \cup {None}
             /\ cl2[c] = None <=> cl[c] = None
             /\ cl[c] # None => /\ cl2[c].bearer = cl[c].bearer
                                /\ cl2[c].key = cl[c].key
                                /\ cl2[c].built_at = cl[c].built_at
                                /\ cl2[c].open <=> cl[c].open /\ c \notin which
  <2>1. cl[c] \in ClientState \cup {None}
    BY DEF Clients
  <2>2. CASE c \in which /\ cl[c] # None
    <3>1. cl2[c] = [cl[c] EXCEPT !.open = FALSE] /\ cl[c] \in ClientState
      BY <2>1, <2>2 DEF Close
    <3> QED
      BY <3>1, <2>2, ClosedRecord, NoneIsNone
  <2>3. CASE ~(c \in which /\ cl[c] # None)
    <3>1. cl2[c] = cl[c]
      BY <2>3 DEF Close
    <3>2. cl[c] # None => c \notin which /\ cl[c].open \in BOOLEAN
      BY <2>1, <2>3 DEF ClientState
    <3> QED
      BY <3>1, <3>2, <2>1
  <2> QED
    BY <2>2, <2>3
<1>2. cl2 = [c \in Client |-> cl2[c]]
  BY DEF Close
<1>3. cl2 \in Clients
  BY <1>1, <1>2 DEF Clients
<1> QED
  BY <1>1, <1>3

(***************************************************************************)
(* Dropping keys and closing their clients keeps cache and clients in      *)
(* agreement, if the dropped entries have expired or the server shuts down.*)
(***************************************************************************)
LEMMA DropKeepsCacheInv ==
  ASSUME NEW ca \in Cache, NEW cl \in Clients, NEW t \in Nat, NEW sv \in BOOLEAN,
         CacheInv(ca, cl, t, sv), NEW gone \in SUBSET Key,
         gone \subseteq ExpiredKeys(ca, t) \/ ~sv,
         NEW ca2, ca2 = Drop(ca, gone), NEW cl2, cl2 = Close(cl, ClientsAt(ca, gone))
  PROVE  ca2 \in Cache /\ cl2 \in Clients /\ CacheInv(ca2, cl2, t, sv)
<1>1. ca2 \in Cache /\ \A key \in Key : ca2[key] = IF key \in gone THEN None ELSE ca[key]
  BY DEF Drop, Cache
<1>2. cl2 \in Clients
  BY Closing
<1>3. \A c \in Client :
        /\ cl2[c] = None <=> cl[c] = None
        /\ cl[c] # None => /\ cl2[c].key = cl[c].key
                           /\ cl2[c].built_at = cl[c].built_at
                           /\ cl2[c].open <=> cl[c].open /\ c \notin ClientsAt(ca, gone)
  BY Closing
<1>4. \A key \in Key : ca[key] # None => ca[key].client \in Client
  BY NoneIsNone DEF Cache, Entry
<1>5. \A key \in Key \ gone : ca[key] # None => ca[key].client \notin ClientsAt(ca, gone)
  BY <1>4 DEF ClientsAt, CacheInv, EntriesAgree
<1>6. EntriesAgree(ca2, cl2)
  BY <1>1, <1>3, <1>4, <1>5 DEF CacheInv, EntriesAgree
<1>7. OpenAreCached(ca2, cl2)
  <2> SUFFICES ASSUME NEW c \in Client, cl2[c] # None, cl2[c].open, cl2[c].key # None
               PROVE  ca2[cl2[c].key] # None /\ ca2[cl2[c].key].client = c
    BY DEF OpenAreCached
  <2>1. /\ cl[c] # None /\ cl[c].open /\ cl2[c].key = cl[c].key
        /\ c \notin ClientsAt(ca, gone)
    BY <1>3
  <2>2. cl[c].key \in Key
    BY <2>1 DEF Clients, ClientState
  <2>3. ca[cl[c].key] # None /\ ca[cl[c].key].client = c
    BY <2>1 DEF CacheInv, OpenAreCached
  <2>4. cl[c].key \notin gone
    BY <2>1, <2>3 DEF ClientsAt
  <2> QED
    BY <2>1, <2>2, <2>3, <2>4, <1>1
<1>8. BuiltInThePast(cl2, t)
  BY <1>3 DEF CacheInv, BuiltInThePast
<1>9. ClosedInTime(cl2, t, sv)
  <2> SUFFICES ASSUME NEW c \in Client, cl2[c] # None, cl2[c].key # None, ~cl2[c].open
               PROVE  t > cl2[c].built_at + TTL \/ ~sv
    BY DEF ClosedInTime
  <2>1. CASE ~cl[c].open
    BY <2>1, <1>3 DEF CacheInv, ClosedInTime
  <2>2. CASE c \in ClientsAt(ca, gone)
    <3>1. PICK key \in gone : ca[key] # None /\ ca[key].client = c
      BY <2>2 DEF ClientsAt
    <3>2. ca[key].expires_at = cl[c].built_at + TTL
      BY <3>1 DEF CacheInv, EntriesAgree
    <3>3. ca[key].expires_at < t \/ ~sv
      BY <3>1 DEF ExpiredKeys
    <3>4. ca[key].expires_at \in Nat
      BY <3>1, NoneIsNone DEF Cache, Entry
    <3> QED
      BY <3>2, <3>3, <3>4, <1>3
  <2> QED
    BY <2>1, <2>2, <1>3
<1>10. BuiltApart(cl2)
  BY <1>3 DEF CacheInv, BuiltApart
<1>11. SweptBy(ca2, cl2)
  BY <1>1, <1>3 DEF CacheInv, SweptBy
<1> QED
  BY <1>1, <1>2, <1>6, <1>7, <1>8, <1>9, <1>10, <1>11 DEF CacheInv

(***************************************************************************)
(* Storing a new client under a key that is free, once nothing expired is  *)
(* left.                                                                   *)
(***************************************************************************)
LEMMA StoreKeepsCacheInv ==
  ASSUME NEW ca \in Cache, NEW cl \in Clients, NEW t \in Nat, CacheInv(ca, cl, t, TRUE),
         NEW key \in Key, ca[key] = None, ExpiredKeys(ca, t) = {},
         NEW c \in Client, cl[c] = None, NEW bearer \in Bearer,
         NEW ca2, ca2 = [ca EXCEPT ![key] = [client |-> c, expires_at |-> t + TTL]],
         NEW cl2, cl2 = [cl EXCEPT ![c] = [bearer |-> bearer, key |-> key,
                                           built_at |-> t, open |-> TRUE]]
  PROVE  ca2 \in Cache /\ cl2 \in Clients /\ CacheInv(ca2, cl2, t, TRUE)
<1> DEFINE e == [client |-> c, expires_at |-> t + TTL]
           r == [bearer |-> bearer, key |-> key, built_at |-> t, open |-> TRUE]
<1>1. e \in Entry /\ e # None /\ r \in ClientState /\ r # None /\ TTL \in Nat /\ key # None
  <2>1. TTL \in Nat /\ key # None /\ key \in Key \cup {None}
    BY BoundsOK, NoneIsNone
  <2>2. e \in Entry
    BY <2>1 DEF Entry
  <2>3. r \in ClientState
    BY <2>1 DEF ClientState
  <2> QED
    BY <2>1, <2>2, <2>3, NoneIsNone
<1>2. ca2 \in Cache /\ \A other \in Key : ca2[other] = IF other = key THEN e ELSE ca[other]
  BY <1>1 DEF Cache
<1>3. cl2 \in Clients /\ \A d \in Client : cl2[d] = IF d = c THEN r ELSE cl[d]
  BY <1>1 DEF Clients
<1>4. \A other \in Key : ca[other] # None =>
        /\ ca[other].client \in Client \ {c}
        /\ ca[other].expires_at \in Nat /\ ca[other].expires_at >= t
  BY NoneIsNone DEF Cache, Entry, CacheInv, EntriesAgree, ExpiredKeys
<1>5. \A d \in Client : cl[d] # None => cl[d].built_at \in Nat /\ cl[d].key \in Key \cup {None}
  BY DEF Clients, ClientState
<1>6. \A d \in Client : cl[d] # None /\ cl[d].key = key => t > cl[d].built_at + TTL
  BY <1>1 DEF CacheInv, OpenAreCached, ClosedInTime
<1> HIDE DEF e
<1>7. EntriesAgree(ca2, cl2)
  <2> SUFFICES ASSUME NEW other \in Key, ca2[other] # None
               PROVE  /\ cl2[ca2[other].client] # None
                      /\ cl2[ca2[other].client].open
                      /\ cl2[ca2[other].client].key = other
                      /\ ca2[other].expires_at = cl2[ca2[other].client].built_at + TTL
    BY DEF EntriesAgree
  <2>1. CASE other = key
    <3>1. ca2[other].client = c /\ ca2[other].expires_at = t + TTL /\ cl2[c] = r
      <4>1. ca2[other] = e /\ cl2[c] = r
        BY <2>1, <1>2, <1>3
      <4>2. e.client = c /\ e.expires_at = t + TTL
        BY DEF e
      <4> QED
        BY <4>1, <4>2
    <3> QED
      BY <3>1, <2>1, <1>1
  <2>2. CASE other # key
    BY <2>2, <1>2, <1>3, <1>4 DEF CacheInv, EntriesAgree
  <2> QED
    BY <2>1, <2>2
<1>8. OpenAreCached(ca2, cl2)
  <2> SUFFICES ASSUME NEW d \in Client, cl2[d] # None, cl2[d].open, cl2[d].key # None
               PROVE  ca2[cl2[d].key] # None /\ ca2[cl2[d].key].client = d
    BY DEF OpenAreCached
  <2>1. CASE d = c
    <3>1. cl2[d].key = key /\ e.client = c
      BY <2>1, <1>3 DEF e
    <3> QED
      BY <3>1, <2>1, <1>1, <1>2
  <2>2. CASE d # c
    <3>1. cl2[d] = cl[d] /\ cl[d].key \in Key
      BY <2>2, <1>3, <1>5
    <3>2. ca[cl[d].key] # None /\ ca[cl[d].key].client = d
      BY <3>1 DEF CacheInv, OpenAreCached
    <3> QED
      BY <3>1, <3>2, <1>2
  <2> QED
    BY <2>1, <2>2
<1>9. BuiltInThePast(cl2, t)
  BY <1>3 DEF CacheInv, BuiltInThePast
<1>10. ClosedInTime(cl2, t, TRUE)
  BY <1>3 DEF CacheInv, ClosedInTime
<1>11. BuiltApart(cl2)
  <2> SUFFICES ASSUME NEW a \in Client, NEW b \in Client, a # b, cl2[a] # None, cl2[b] # None,
                      cl2[a].key # None, cl2[a].key = cl2[b].key
               PROVE  \/ cl2[a].built_at > cl2[b].built_at + TTL
                      \/ cl2[b].built_at > cl2[a].built_at + TTL
    BY DEF BuiltApart
  <2>1. CASE a = c
    BY <2>1, <1>3, <1>6
  <2>2. CASE b = c
    BY <2>2, <1>3, <1>6
  <2>3. CASE a # c /\ b # c
    BY <2>3, <1>3 DEF CacheInv, BuiltApart
  <2> QED
    BY <2>1, <2>2, <2>3
<1>12. SweptBy(ca2, cl2)
  <2> SUFFICES ASSUME NEW other \in Key, NEW d \in Client, ca2[other] # None,
                      cl2[d] # None, cl2[d].key # None
               PROVE  cl2[d].built_at <= ca2[other].expires_at
    BY DEF SweptBy
  <2>1. cl2[d].built_at \in Nat /\ cl2[d].built_at <= t
    BY <1>9, <1>3 DEF BuiltInThePast, Clients, ClientState
  <2>2. CASE other = key
    <3>1. ca2[other].expires_at = t + TTL
      BY <2>2, <1>2 DEF e
    <3> QED
      BY <3>1, <2>1, <1>1
  <2>3. CASE other # key
    BY <2>1, <2>3, <1>2, <1>4
  <2> QED
    BY <2>2, <2>3
<1> QED
  BY <1>2, <1>3, <1>7, <1>8, <1>9, <1>10, <1>11, <1>12 DEF CacheInv

(***************************************************************************)
(* The cache knows nothing of clients without a key.                       *)
(***************************************************************************)
LEMMA KeylessKeepsCacheInv ==
  ASSUME NEW ca \in Cache, NEW cl \in Clients, NEW t \in Nat, NEW sv \in BOOLEAN,
         CacheInv(ca, cl, t, sv), NEW cl2,
         \A c \in Client :
           \/ cl2[c] = cl[c]
           \/ /\ cl2[c] # None /\ cl2[c].key = None /\ cl2[c].built_at <= t
              /\ cl[c] # None => cl[c].key = None
  PROVE  CacheInv(ca, cl2, t, sv)
<1>1. \A key \in Key : ca[key] # None => ca[key].client \in Client
  BY NoneIsNone DEF Cache, Entry
<1>2. \A key \in Key : ca[key] # None => cl2[ca[key].client] = cl[ca[key].client]
  BY <1>1, NoneIsNone DEF CacheInv, EntriesAgree
<1>3. EntriesAgree(ca, cl2)
  BY <1>2 DEF CacheInv, EntriesAgree
<1>4. OpenAreCached(ca, cl2)
  BY DEF CacheInv, OpenAreCached
<1>5. BuiltInThePast(cl2, t) /\ ClosedInTime(cl2, t, sv)
  BY DEF CacheInv, BuiltInThePast, ClosedInTime
<1>6. BuiltApart(cl2)
  BY DEF CacheInv, BuiltApart
<1>7. SweptBy(ca, cl2)
  BY DEF CacheInv, SweptBy
<1> QED
  BY <1>3, <1>4, <1>5, <1>6, <1>7 DEF CacheInv

-------------------------------------------------------------------------------
(* Calls                                                                   *)

(***************************************************************************)
(* What a step may do to the clients without a call noticing.              *)
(***************************************************************************)
ClientsKept ==
  \A c \in Client : client[c] # None =>
    /\ client'[c] # None
    /\ client'[c].bearer = client[c].bearer
    /\ client'[c].key = client[c].key
    /\ client[c].key = None => client'[c].open = client[c].open

LEMMA SameCallsKeepCallsInv ==
  ASSUME TypeOK, CallsInv(client), ClientsKept,
         \A c \in Client : client[c] = None => client'[c] = None,
         \A k \in Call : Running(k)' <=> Running(k),
         \A k \in Call : Running(k) => call'[k] = call[k]
  PROVE  CallsInv(client)'
<1>1. \A k \in Call : Running(k) => call[k].client \in Client
  BY NoneIsNone DEF TypeOK, CallState, Running
<1>2. ASSUME NEW k \in Call, Running(k)'
      PROVE  HoldsItsOwn(k, client)'
  <2>1. Running(k) /\ HoldsItsOwn(k, client) /\ call'[k] = call[k] /\ call[k].client \in Client
    BY <1>1, <1>2 DEF CallsInv
  <2>2. \A l \in Call : Running(l)' => Running(l) /\ call'[l] = call[l]
    OBVIOUS
  <2> QED
    BY <2>1, <2>2 DEF HoldsItsOwn, ClientsKept
<1>3. ASSUME NEW c \in Client, client'[c] # None, client'[c].key = None, client'[c].open
      PROVE  \E k \in Call : Running(k)' /\ call'[k].client = c
  <2>1. client[c] # None /\ client[c].key = None /\ client[c].open
    BY <1>3 DEF ClientsKept
  <2> QED
    BY <2>1 DEF CallsInv
<1>4. \A c \in Client : client'[c] # None /\ client'[c].key # None =>
        client'[c].key[2] = client'[c].bearer
  BY DEF ClientsKept, CallsInv
<1> QED
  BY <1>2, <1>3, <1>4 DEF CallsInv

(***************************************************************************)
(* A call that gets its client: one cached for its session and bearer, or  *)
(* without a session one built for it.                                     *)
(***************************************************************************)
LEMMA NewCallKeepsCallsInv ==
  ASSUME TypeOK, CallsInv(client), ClientsKept,
         NEW k \in Call, call[k].stage = "idle",
         NEW session \in Session \cup {None}, NEW bearer \in Bearer, NEW c \in Client,
         Run(k, session, bearer, c),
         client'[c] # None, client'[c].bearer = bearer,
         session # None => client'[c].key = <<session, bearer>>,
         session = None => client[c] = None /\ client'[c].key = None /\ client'[c].open,
         \A d \in Client \ {c} : client[d] = None => client'[d] = None
  PROVE  CallsInv(client)'
<1>1. /\ call'[k] = [stage |-> "running", session |-> session, bearer |-> bearer, client |-> c]
      /\ \A l \in Call \ {k} : call'[l] = call[l]
  BY DEF Run, TypeOK
<1>2. Running(k)' /\ ~Running(k) /\ \A l \in Call \ {k} : Running(l)' <=> Running(l)
  BY <1>1 DEF Running
<1>3. \A l \in Call : Running(l) => call[l].client \in Client /\ client[call[l].client] # None
  BY NoneIsNone DEF TypeOK, CallState, Running, CallsInv, HoldsItsOwn
<1>4. session # None => <<session, bearer>> # None
  BY NoneIsNone DEF Key
<1>5. HoldsItsOwn(k, client)'
  <2>1. CASE session # None
    BY <2>1, <1>1 DEF HoldsItsOwn
  <2>2. CASE session = None
    BY <2>2, <1>1, <1>2, <1>3 DEF HoldsItsOwn
  <2> QED
    BY <2>1, <2>2
<1>6. ASSUME NEW l \in Call \ {k}, Running(l)'
      PROVE  HoldsItsOwn(l, client)'
  <2>1. Running(l) /\ HoldsItsOwn(l, client) /\ call'[l] = call[l] /\ call[l].client \in Client
    BY <1>1, <1>2, <1>3, <1>6 DEF CallsInv
  <2>2. CASE call[l].session # None
    BY <2>1, <2>2 DEF HoldsItsOwn, ClientsKept
  <2>3. CASE call[l].session = None
    <3>1. /\ client'[call[l].client] # None /\ client'[call[l].client].key = None
          /\ client'[call[l].client].open /\ client'[call[l].client].bearer = call[l].bearer
      BY <2>1, <2>3 DEF HoldsItsOwn, ClientsKept
    <3>2. c # call[l].client
      BY <3>1, <2>1, <1>3, <1>4
    <3>3. \A j \in Call : Running(j)' /\ call'[j].client = call[l].client => j = l
      BY <3>2, <2>1, <2>3, <1>1, <1>2 DEF HoldsItsOwn
    <3> QED
      BY <3>1, <3>3, <2>1, <2>3 DEF HoldsItsOwn
  <2> QED
    BY <2>2, <2>3
<1>7. ASSUME NEW d \in Client, client'[d] # None, client'[d].key = None, client'[d].open
      PROVE  \E l \in Call : Running(l)' /\ call'[l].client = d
  <2>1. CASE d = c
    BY <2>1, <1>1, <1>2
  <2>2. CASE d # c
    <3>1. client[d] # None /\ client[d].key = None /\ client[d].open
      BY <2>2, <1>7 DEF ClientsKept
    <3>2. PICK l \in Call : Running(l) /\ call[l].client = d
      BY <3>1 DEF CallsInv
    <3> QED
      BY <3>2, <1>1, <1>2
  <2> QED
    BY <2>1, <2>2
<1>8. ASSUME NEW d \in Client, client'[d] # None, client'[d].key # None
      PROVE  client'[d].key[2] = client'[d].bearer
  <2>1. CASE d = c
    BY <2>1, <1>8
  <2>2. CASE d # c
    BY <2>2, <1>8 DEF ClientsKept, CallsInv
  <2> QED
    BY <2>1, <2>2
<1> QED
  BY <1>5, <1>6, <1>7, <1>8 DEF CallsInv

-------------------------------------------------------------------------------
(* Steps                                                                   *)

LEMMA IInvParts ==
  ASSUME IInv
  PROVE  /\ TypeOK /\ CacheInv(cache, client, now, serving) /\ CallsInv(client)
         /\ cache \in Cache /\ client \in Clients /\ now \in Nat /\ serving \in BOOLEAN
BY DEF IInv, TypeOK, Clients

LEMMA TickKeepsIInv == IInv /\ Tick => IInv'
<1> SUFFICES ASSUME IInv, Tick PROVE IInv'
  OBVIOUS
<1>1. now' = now + 1 /\ now \in Nat /\ UNCHANGED <<cache, client, call, serving>>
  BY IInvParts DEF Tick
<1>2. TypeOK'
  BY <1>1, IInvParts DEF TypeOK
<1>3. \A c \in Client : client[c] # None => client[c].built_at + TTL \in Nat /\ client[c].built_at \in Nat
  BY IInvParts, BoundsOK DEF Clients, ClientState
<1>4. BuiltInThePast(client, now)' /\ ClosedInTime(client, now, serving)'
  BY <1>1, <1>3, IInvParts DEF CacheInv, BuiltInThePast, ClosedInTime
<1>5. CacheInv(cache, client, now, serving)'
  BY <1>1, <1>4, IInvParts DEF CacheInv, EntriesAgree, OpenAreCached, BuiltApart, SweptBy
<1>6. CallsInv(client)'
  BY <1>1, IInvParts DEF CallsInv, HoldsItsOwn, Running
<1> QED
  BY <1>2, <1>5, <1>6 DEF IInv

(***************************************************************************)
(* The types after a call is refused, or gets a client.                    *)
(***************************************************************************)
LEMMA RefusedCall ==
  ASSUME TypeOK, NEW k \in Call, call[k].stage = "idle",
         call' = [call EXCEPT ![k].stage = "refused"]
  PROVE  /\ call' \in [Call -> CallState]
         /\ \A l \in Call : Running(l)' <=> Running(l)
         /\ \A l \in Call : Running(l) => call'[l] = call[l]
<1>1. \A l \in Call : call[l] \in CallState
  BY DEF TypeOK
<1>2. [call[k] EXCEPT !.stage = "refused"] \in CallState
      /\ [call[k] EXCEPT !.stage = "refused"].stage = "refused"
  BY <1>1 DEF CallState
<1>3. \A l \in Call : call'[l] = IF l = k THEN [call[k] EXCEPT !.stage = "refused"] ELSE call[l]
  BY DEF TypeOK
<1>4. call' \in [Call -> CallState]
  BY <1>2 DEF TypeOK
<1> QED
  BY <1>2, <1>3, <1>4 DEF Running

LEMMA RunningCall ==
  ASSUME TypeOK, NEW k \in Call, NEW session \in Session \cup {None}, NEW bearer \in Bearer,
         NEW c \in Client, Run(k, session, bearer, c)
  PROVE  /\ call' \in [Call -> CallState]
         /\ \A l \in Call : call'[l].stage = "running" =>
              call'[l].bearer # None /\ call'[l].client # None
<1>1. [stage |-> "running", session |-> session, bearer |-> bearer, client |-> c] \in CallState
  BY DEF CallState
<1> QED
  BY <1>1, NoneIsNone DEF TypeOK, Run

LEMMA RefuseKeepsIInv ==
  ASSUME IInv, NEW k \in Call, RefuseUnauthenticated(k)
  PROVE  IInv'
<1>1. /\ call[k].stage = "idle" /\ call' = [call EXCEPT ![k].stage = "refused"]
      /\ UNCHANGED <<now, cache, client, serving>>
  BY DEF RefuseUnauthenticated
<1>2. /\ call' \in [Call -> CallState]
      /\ \A l \in Call : Running(l)' <=> Running(l)
      /\ \A l \in Call : Running(l) => call'[l] = call[l]
  BY <1>1, IInvParts, RefusedCall
<1>3. TypeOK'
  BY <1>1, <1>2, IInvParts DEF TypeOK, Running
<1>4. CallsInv(client)'
  BY <1>1, <1>2, IInvParts, SameCallsKeepCallsInv DEF ClientsKept
<1> QED
  BY <1>1, <1>3, <1>4, IInvParts
     DEF IInv, CacheInv, EntriesAgree, OpenAreCached, BuiltInThePast, ClosedInTime, BuiltApart, SweptBy

LEMMA UseCachedKeepsIInv ==
  ASSUME IInv, NEW k \in Call, NEW session \in Session, NEW bearer \in Bearer,
         UseCached(k, session, bearer)
  PROVE  IInv'
<1> DEFINE key == <<session, bearer>>
           c == cache[key].client
<1>1. key \in Key
  BY DEF Key
<1>2. /\ call[k].stage = "idle" /\ UNCHANGED <<now, cache, client, serving>>
      /\ cache[key] # None /\ Run(k, session, bearer, c)
  BY <1>1 DEF UseCached, Get, CacheKey
<1>3. c \in Client /\ client[c] # None /\ client[c].key = key
  BY <1>1, <1>2, IInvParts, NoneIsNone DEF Cache, Entry, CacheInv, EntriesAgree
<1>4. TypeOK'
  BY <1>2, <1>3, IInvParts, RunningCall DEF TypeOK
<1>5. client[c].bearer = bearer
  BY <1>1, <1>3, NoneIsNone, IInvParts DEF CallsInv
<1> HIDE DEF c
<1>6. CallsInv(client)'
  <2>1. session # None
    BY NoneIsNone
  <2> QED
    BY <1>2, <1>3, <1>5, <2>1, IInvParts, NewCallKeepsCallsInv DEF ClientsKept
<1> QED
  BY <1>2, <1>4, <1>6, IInvParts
     DEF IInv, CacheInv, EntriesAgree, OpenAreCached, BuiltInThePast, ClosedInTime, BuiltApart, SweptBy

(***************************************************************************)
(* What a step that closes clients, and builds at most one, keeps.         *)
(***************************************************************************)
LEMMA CloseTwice ==
  ASSUME NEW cl \in Clients, NEW a, NEW b
  PROVE  Close(Close(cl, a), b) = Close(cl, a \cup b)
<1> DEFINE one == Close(cl, a)
<1>1. one \in Clients /\ \A c \in Client : one[c] = None <=> cl[c] = None
  BY Closing
<1>2. ASSUME NEW c \in Client
      PROVE  (IF c \in b /\ one[c] # None THEN [one[c] EXCEPT !.open = FALSE] ELSE one[c])
             = IF c \in a \cup b /\ cl[c] # None THEN [cl[c] EXCEPT !.open = FALSE] ELSE cl[c]
  <2>1. one[c] = IF c \in a /\ cl[c] # None THEN [cl[c] EXCEPT !.open = FALSE] ELSE cl[c]
    BY DEF Close
  <2>2. CASE cl[c] = None
    BY <2>1, <2>2
  <2>3. CASE cl[c] # None
    <3>1. cl[c] \in ClientState
      BY <2>3 DEF Clients
    <3>2. [[cl[c] EXCEPT !.open = FALSE] EXCEPT !.open = FALSE] = [cl[c] EXCEPT !.open = FALSE]
      BY <3>1 DEF ClientState
    <3>3. one[c] # None
      BY <1>1, <2>3
    <3> HIDE DEF one
    <3> QED
      BY <2>1, <2>3, <3>2, <3>3
  <2> QED
    BY <2>2, <2>3
<1> QED
  BY <1>2 DEF Close

(***************************************************************************)
(* The clients of cached entries have a key, so closing them concerns no   *)
(* call without a session.                                                 *)
(***************************************************************************)
LEMMA CloseKeepsClients ==
  ASSUME IInv, NEW keys \in SUBSET Key, NEW cl2, cl2 = Close(client, ClientsAt(cache, keys))
  PROVE  /\ cl2 \in Clients
         /\ \A c \in Client :
              /\ cl2[c] = None <=> client[c] = None
              /\ client[c] # None => /\ cl2[c].bearer = client[c].bearer
                                     /\ cl2[c].key = client[c].key
                                     /\ client[c].key = None => cl2[c].open = client[c].open
<1>1. \A c \in ClientsAt(cache, keys) : c \in Client /\ client[c].key # None
  BY IInvParts, NoneIsNone DEF ClientsAt, Cache, Entry, CacheInv, EntriesAgree
<1>2. /\ cl2 \in Clients
      /\ \A c \in Client :
           /\ cl2[c] = None <=> client[c] = None
           /\ client[c] # None => /\ cl2[c].bearer = client[c].bearer
                                  /\ cl2[c].key = client[c].key
                                  /\ cl2[c].open <=> client[c].open /\ c \notin ClientsAt(cache, keys)
  BY IInvParts, Closing
<1>3. \A c \in Client : client[c] # None => client[c].open \in BOOLEAN /\ cl2[c].open \in BOOLEAN
  BY <1>2, IInvParts DEF Clients, ClientState
<1> QED
  BY <1>1, <1>2, <1>3

LEMMA BuildFailsKeepsIInv ==
  ASSUME IInv, NEW k \in Call, NEW session \in Session, NEW bearer \in Bearer,
         BuildFails(k, session, bearer)
  PROVE  IInv'
<1> DEFINE gone == DroppedByGet(cache, CacheKey(session, bearer), now)
<1>1. /\ call[k].stage = "idle" /\ call' = [call EXCEPT ![k].stage = "refused"]
      /\ cache' = Drop(cache, gone) /\ client' = Close(client, ClientsAt(cache, gone))
      /\ UNCHANGED <<now, serving>>
  BY DEF BuildFails, Miss
<1>2. gone \in SUBSET Key /\ gone \subseteq ExpiredKeys(cache, now)
  BY DEF DroppedByGet, ExpiredKeys
<1> HIDE DEF gone
<1>3. cache' \in Cache /\ client' \in Clients /\ CacheInv(cache', client', now, serving)
  BY <1>1, <1>2, IInvParts, DropKeepsCacheInv
<1>4. /\ call' \in [Call -> CallState]
      /\ \A l \in Call : Running(l)' <=> Running(l)
      /\ \A l \in Call : Running(l) => call'[l] = call[l]
  BY <1>1, IInvParts, RefusedCall
<1>5. TypeOK'
  BY <1>1, <1>3, <1>4, IInvParts DEF TypeOK, Running, Clients
<1>6. CallsInv(client)'
  <2>1. ClientsKept /\ \A c \in Client : client[c] = None => client'[c] = None
    BY <1>1, <1>2, CloseKeepsClients DEF ClientsKept
  <2> QED
    BY <2>1, <1>4, IInvParts, SameCallsKeepCallsInv
<1> QED
  BY <1>1, <1>3, <1>5, <1>6
     DEF IInv, CacheInv, EntriesAgree, OpenAreCached, BuiltInThePast, ClosedInTime, BuiltApart, SweptBy

LEMMA ShutdownKeepsIInv ==
  ASSUME IInv, Shutdown
  PROVE  IInv'
<1>1. /\ client' = Close(client, ClientsAt(cache, Key)) /\ cache' = EmptyCache
      /\ serving' = FALSE /\ UNCHANGED <<now, call>>
  BY DEF Shutdown
<1>2. EmptyCache = Drop(cache, Key)
  BY DEF EmptyCache, Drop
<1>3. CacheInv(cache, client, now, FALSE)
  BY IInvParts DEF CacheInv, ClosedInTime
<1>4. cache' \in Cache /\ client' \in Clients /\ CacheInv(cache', client', now, FALSE)
  BY <1>1, <1>2, <1>3, IInvParts, DropKeepsCacheInv
<1>5. TypeOK'
  BY <1>1, <1>4, IInvParts DEF TypeOK, Clients
<1>6. CallsInv(client)'
  <2>1. ClientsKept /\ \A c \in Client : client[c] = None => client'[c] = None
    BY <1>1, CloseKeepsClients DEF ClientsKept
  <2>2. \A k \in Call : (Running(k)' <=> Running(k)) /\ call'[k] = call[k]
    BY <1>1 DEF Running
  <2> QED
    BY <2>1, <2>2, IInvParts, SameCallsKeepCallsInv
<1> QED
  BY <1>1, <1>4, <1>5, <1>6
     DEF IInv, CacheInv, EntriesAgree, OpenAreCached, BuiltInThePast, ClosedInTime, BuiltApart, SweptBy

LEMMA BuildUncachedKeepsIInv ==
  ASSUME IInv, NEW k \in Call, NEW bearer \in Bearer, NEW c \in Client,
         BuildUncached(k, bearer, c)
  PROVE  IInv'
<1> DEFINE r == [bearer |-> bearer, key |-> None, built_at |-> now, open |-> TRUE]
<1>1. /\ call[k].stage = "idle" /\ client[c] = None
      /\ client' = [client EXCEPT ![c] = r]
      /\ Run(k, None, bearer, c) /\ UNCHANGED <<now, cache, serving>>
  BY DEF BuildUncached, NewClient
<1>2. /\ r \in ClientState /\ r # None
      /\ r.bearer = bearer /\ r.key = None /\ r.built_at = now /\ r.open
  <2>1. r \in ClientState
    BY IInvParts DEF ClientState
  <2> QED
    BY <2>1, NoneIsNone
<1> HIDE DEF r
<1>3. client' \in Clients /\ \A d \in Client : client'[d] = IF d = c THEN r ELSE client[d]
  BY <1>1, <1>2, IInvParts DEF Clients
<1>4. TypeOK'
  BY <1>1, <1>3, IInvParts, RunningCall DEF TypeOK, Clients
<1>5. CacheInv(cache, client', now, serving)
  <2>1. \A d \in Client :
          \/ client'[d] = client[d]
          \/ /\ client'[d] # None /\ client'[d].key = None /\ client'[d].built_at <= now
             /\ client[d] # None => client[d].key = None
    BY <1>1, <1>2, <1>3, IInvParts
  <2> QED
    BY <2>1, IInvParts, KeylessKeepsCacheInv
<1>6. CallsInv(client)'
  <2>1. ClientsKept /\ \A d \in Client \ {c} : client[d] = None => client'[d] = None
    BY <1>1, <1>3 DEF ClientsKept
  <2>2. /\ client'[c] # None /\ client'[c].bearer = bearer
        /\ client'[c].key = None /\ client'[c].open
    BY <1>2, <1>3
  <2>3. None \in Session \cup {None}
    OBVIOUS
  <2> QED
    BY <1>1, <2>1, <2>2, <2>3, IInvParts, NewCallKeepsCallsInv
<1> QED
  BY <1>1, <1>4, <1>5, <1>6
     DEF IInv, CacheInv, EntriesAgree, OpenAreCached, BuiltInThePast, ClosedInTime, BuiltApart, SweptBy

LEMMA BuildAndCacheKeepsIInv ==
  ASSUME IInv, NEW k \in Call, NEW session \in Session, NEW bearer \in Bearer, NEW c \in Client,
         BuildAndCache(k, session, bearer, c)
  PROVE  IInv'
<1> DEFINE key   == <<session, bearer>>
           gone  == DroppedByGet(cache, key, now)
           after == Drop(cache, gone)
           swept == DroppedByPut(after, now)
           left  == Drop(after, swept)
           cl1   == Close(client, ClientsAt(cache, gone))
           cl2   == Close(cl1, ClientsAt(after, swept))
           r     == [bearer |-> bearer, key |-> key, built_at |-> now, open |-> TRUE]
<1>1. key \in Key /\ key # None /\ key[2] = bearer /\ session # None
  BY NoneIsNone DEF Key
<1>2. /\ serving /\ call[k].stage = "idle" /\ Get(cache, key, now) = None /\ client[c] = None
      /\ cache' = [left EXCEPT ![key] = [client |-> c, expires_at |-> now + TTL]]
      /\ client' = [Close(client, ClientsAt(cache, gone) \cup ClientsAt(after, swept))
                      EXCEPT ![c] = r]
      /\ Run(k, session, bearer, c) /\ UNCHANGED <<now, serving>>
  BY DEF BuildAndCache, Miss, CacheKey, Put, NewClient
<1>3. client' = [cl2 EXCEPT ![c] = r]
  <2>1. cl2 = Close(client, ClientsAt(cache, gone) \cup ClientsAt(after, swept))
    <3> HIDE DEF after, gone, swept
    <3> QED
      BY CloseTwice, IInvParts
  <2> HIDE DEF after, gone, swept, cl2
  <2> QED
    BY <1>2, <2>1
<1>4. serving = TRUE
  BY <1>2, IInvParts
<1>5. gone \in SUBSET Key /\ gone \subseteq ExpiredKeys(cache, now)
  BY DEF DroppedByGet, ExpiredKeys
<1>6. swept \in SUBSET Key /\ swept \subseteq ExpiredKeys(after, now)
  BY DEF DroppedByPut, ExpiredKeys
<1>7. after \in Cache /\ cl1 \in Clients /\ CacheInv(after, cl1, now, TRUE)
  <2> HIDE DEF gone
  <2> QED
    BY <1>4, <1>5, IInvParts, DropKeepsCacheInv
<1>8. left \in Cache /\ cl2 \in Clients /\ CacheInv(left, cl2, now, TRUE)
  <2> HIDE DEF after, cl1, swept
  <2> QED
    BY <1>6, <1>7, IInvParts, DropKeepsCacheInv
<1>9. ExpiredKeys(left, now) = {}
  BY DEF ExpiredKeys, Drop, DroppedByPut
<1>10. left[key] = None
  <2>1. cache[key] = None \/ key \in ExpiredKeys(cache, now)
    <3>1. cache[key] # None => cache[key].client # None
      BY <1>1, IInvParts, NoneIsNone DEF Cache, Entry
    <3> QED
      BY <1>2, <3>1 DEF Get
  <2>2. after[key] = None
    BY <2>1, <1>1 DEF Drop, DroppedByGet
  <2> HIDE DEF after
  <2> QED
    BY <2>2, <1>1 DEF Drop
<1>11. /\ \A d \in Client : cl1[d] = None <=> client[d] = None
       /\ \A d \in Client : client[d] # None =>
            /\ cl1[d].bearer = client[d].bearer /\ cl1[d].key = client[d].key
            /\ client[d].key = None => cl1[d].open = client[d].open
  BY <1>5, CloseKeepsClients
<1>12. /\ \A d \in Client : cl2[d] = None <=> cl1[d] = None
       /\ \A d \in Client : cl1[d] # None =>
            /\ cl2[d].bearer = cl1[d].bearer /\ cl2[d].key = cl1[d].key
            /\ cl1[d].key = None => cl2[d].open = cl1[d].open
  <2> HIDE DEF after, cl1
  <2>1. \A d \in ClientsAt(after, swept) : d \in Client /\ cl1[d].key # None
    BY <1>7, NoneIsNone, <1>6 DEF ClientsAt, Cache, Entry, CacheInv, EntriesAgree
  <2>2. \A d \in Client :
          /\ cl2[d] = None <=> cl1[d] = None
          /\ cl1[d] # None => /\ cl2[d].bearer = cl1[d].bearer
                              /\ cl2[d].key = cl1[d].key
                              /\ cl2[d].open <=> cl1[d].open /\ d \notin ClientsAt(after, swept)
    BY <1>7, Closing
  <2>3. \A d \in Client : cl1[d] # None => cl1[d].open \in BOOLEAN /\ cl2[d].open \in BOOLEAN
    BY <1>7, <1>8, <2>2 DEF Clients, ClientState
  <2> HIDE DEF cl2
  <2> QED
    BY <2>1, <2>2, <2>3
<1> HIDE DEF left, cl2, cl1, after, swept, gone
<1>13. cache' \in Cache /\ client' \in Clients /\ CacheInv(cache', client', now, TRUE)
  <2>1. cl2[c] = None
    BY <1>2, <1>11, <1>12
  <2>2. key \in Key /\ now \in Nat
    BY <1>1, IInvParts
  <2>3. cache' = [left EXCEPT ![key] = [client |-> c, expires_at |-> now + TTL]]
    BY <1>2
  <2> HIDE DEF key
  <2> QED
    BY <1>3, <1>8, <1>9, <1>10, <2>1, <2>2, <2>3, StoreKeepsCacheInv
<1>14. TypeOK'
  <2> session \in Session \cup {None}
    OBVIOUS
  <2> QED
    BY <1>2, <1>13, IInvParts, RunningCall DEF TypeOK, Clients
<1>15. r.bearer = bearer /\ r.key = key /\ r # None
  <2>1. r \in ClientState
    BY <1>1, IInvParts DEF ClientState
  <2> QED
    BY <2>1, NoneIsNone
<1> HIDE DEF r
<1>16. \A d \in Client : client'[d] = IF d = c THEN r ELSE cl2[d]
  BY <1>3, <1>8 DEF Clients
<1>17. /\ \A d \in Client : cl2[d] = None <=> client[d] = None
       /\ \A d \in Client : client[d] # None =>
            /\ cl2[d].bearer = client[d].bearer /\ cl2[d].key = client[d].key
            /\ client[d].key = None => cl2[d].open = client[d].open
  BY <1>11, <1>12
<1>18. CallsInv(client)'
  <2>1. ClientsKept /\ \A d \in Client \ {c} : client[d] = None => client'[d] = None
    <3>1. client[c] = None
      BY <1>2
    <3>2. \A d \in Client : client[d] # None => client'[d] = cl2[d]
      BY <3>1, <1>16
    <3>3. ClientsKept
      BY <3>2, <1>17 DEF ClientsKept
    <3>4. \A d \in Client \ {c} : client[d] = None => client'[d] = None
      BY <1>16, <1>17
    <3> QED
      BY <3>3, <3>4
  <2>2. client'[c] # None /\ client'[c].bearer = bearer /\ client'[c].key = key
    BY <1>15, <1>16
  <2> QED
    BY <1>1, <1>2, <2>1, <2>2, IInvParts, NewCallKeepsCallsInv
<1>19. CacheInv(cache', client', now', serving')
  BY <1>2, <1>4, <1>13
<1> QED
  BY <1>14, <1>18, <1>19
     DEF IInv, CacheInv, EntriesAgree, OpenAreCached, BuiltInThePast, ClosedInTime, BuiltApart, SweptBy

(***************************************************************************)
(* A call that ends lets go of its client; one without a session was the   *)
(* only holder of its own.                                                 *)
(***************************************************************************)
LEMMA FinishKeepsIInv ==
  ASSUME IInv, NEW k \in Call, Finish(k)
  PROVE  IInv'
<1> DEFINE c == call[k].client
           done == [call[k] EXCEPT !.stage = "answered", !.client = None]
<1>1. /\ Running(k) /\ call' = [call EXCEPT ![k] = [@ EXCEPT !.stage = "answered", !.client = None]]
      /\ client' = IF client[c].key = None THEN Close(client, {c}) ELSE client
      /\ UNCHANGED <<now, cache, serving>>
  BY DEF Finish, Running
<1>2. /\ \A l \in Call : call[l] \in CallState
      /\ c \in Client /\ HoldsItsOwn(k, client) /\ client[c] # None
  BY <1>1, IInvParts, NoneIsNone DEF TypeOK, CallState, CallsInv, HoldsItsOwn, Running
<1>3. done \in CallState /\ done.stage = "answered"
  <2>1. ASSUME NEW e \in CallState
        PROVE  /\ [e EXCEPT !.stage = "answered", !.client = None] \in CallState
               /\ [e EXCEPT !.stage = "answered", !.client = None].stage = "answered"
    BY DEF CallState
  <2> QED
    BY <2>1, <1>2
<1>4. call' = [call EXCEPT ![k] = done]
  BY <1>1
<1> HIDE DEF done
<1>5. /\ call' \in [Call -> CallState]
      /\ \A l \in Call : call'[l] = IF l = k THEN done ELSE call[l]
  BY <1>4, <1>3, IInvParts DEF TypeOK
<1>6. \A l \in Call : Running(l)' <=> Running(l) /\ l # k
  BY <1>3, <1>5 DEF Running
<1> HIDE DEF c
<1>7. /\ client' \in Clients
      /\ \A d \in Client :
           /\ client'[d] = None <=> client[d] = None
           /\ client[d] # None => /\ client'[d].bearer = client[d].bearer
                                  /\ client'[d].key = client[d].key
                                  /\ client'[d].built_at = client[d].built_at
                                  /\ d # c => (client'[d].open <=> client[d].open)
                                  /\ d = c /\ client[c].key = None => ~client'[d].open
  <2>1. CASE client[c].key = None
    <3>1. client' = Close(client, {c})
      BY <1>1, <2>1
    <3> QED
      BY <3>1, IInvParts, Closing
  <2>2. CASE client[c].key # None
    BY <1>1, <2>2, IInvParts
  <2> QED
    BY <2>1, <2>2
<1>8. ASSUME NEW d \in Client
      PROVE  client'[d] = client[d] \/ (d = c /\ client[c].key = None)
  <2>1. CASE client[c].key = None
    <3>1. client' = Close(client, {c})
      BY <1>1, <2>1
    <3> QED
      BY <3>1, <2>1 DEF Close
  <2>2. CASE client[c].key # None
    BY <1>1, <2>2
  <2> QED
    BY <2>1, <2>2
<1>9. TypeOK'
  <2>1. \A l \in Call : call'[l].stage = "running" => call'[l].bearer # None /\ call'[l].client # None
    BY <1>5, <1>6, IInvParts DEF TypeOK, Running
  <2> QED
    BY <2>1, <1>1, <1>5, <1>7, IInvParts DEF TypeOK, Clients
<1>10. CacheInv(cache, client', now, serving)
  <2>1. client[c].built_at <= now
    BY <1>2, IInvParts DEF CacheInv, BuiltInThePast
  <2>2. \A d \in Client :
          \/ client'[d] = client[d]
          \/ /\ client'[d] # None /\ client'[d].key = None /\ client'[d].built_at <= now
             /\ client[d] # None => client[d].key = None
    BY <1>2, <1>7, <1>8, <2>1
  <2> QED
    BY <2>2, IInvParts, KeylessKeepsCacheInv
<1>11. ASSUME NEW l \in Call, Running(l)'
       PROVE  HoldsItsOwn(l, client)'
  <2>1. Running(l) /\ l # k /\ HoldsItsOwn(l, client) /\ call'[l] = call[l] /\ call[l].client \in Client
    BY <1>2, <1>5, <1>6, <1>11, IInvParts, NoneIsNone DEF TypeOK, CallState, CallsInv, Running
  <2>2. call[l].client = c => client[c].key # None
    <3>1. call[l].session = None /\ call[l].client = c => FALSE
      BY <1>1, <1>2, <2>1 DEF HoldsItsOwn, c
    <3>2. call[l].session # None => <<call[l].session, call[l].bearer>> # None
      <4>1. call[l].session \in Session \cup {None} /\ call[l].bearer \in Bearer \cup {None} /\ call[l].bearer # None
        BY <1>2, <2>1, IInvParts DEF CallState, TypeOK, Running
      <4> QED
        BY <4>1, NoneIsNone DEF Key
    <3> QED
      BY <3>1, <3>2, <2>1 DEF HoldsItsOwn
  <2>3. client'[call[l].client] = client[call[l].client]
    BY <1>8, <2>1, <2>2
  <2>4. \A j \in Call : Running(j)' => Running(j) /\ call'[j] = call[j]
    BY <1>5, <1>6
  <2> QED
    BY <2>1, <2>3, <2>4 DEF HoldsItsOwn
<1>12. ASSUME NEW d \in Client, client'[d] # None, client'[d].key = None, client'[d].open
       PROVE  \E l \in Call : Running(l)' /\ call'[l].client = d
  <2>1. client[d] # None /\ client[d].key = None /\ client[d].open /\ d # c
    BY <1>7, <1>8, <1>12
  <2>2. PICK l \in Call : Running(l) /\ call[l].client = d
    BY <2>1, IInvParts DEF CallsInv
  <2> QED
    BY <2>1, <2>2, <1>5, <1>6 DEF c
<1>13. \A d \in Client : client'[d] # None /\ client'[d].key # None =>
         client'[d].key[2] = client'[d].bearer
  BY <1>7, IInvParts DEF CallsInv
<1>14. CallsInv(client)'
  BY <1>11, <1>12, <1>13 DEF CallsInv
<1>15. CacheInv(cache', client', now', serving')
  BY <1>1, <1>10
<1> QED
  BY <1>9, <1>14, <1>15
     DEF IInv, CacheInv, EntriesAgree, OpenAreCached, BuiltInThePast, ClosedInTime, BuiltApart, SweptBy

-------------------------------------------------------------------------------
(* Theorems                                                                *)

LEMMA InitEstablishesIInv == Init => IInv
<1> SUFFICES ASSUME Init PROVE IInv
  OBVIOUS
<1>1. /\ now = 0 /\ serving = TRUE
      /\ \A key \in Key : cache[key] = None
      /\ \A c \in Client : client[c] = None
      /\ \A k \in Call : call[k].stage = "idle"
  BY DEF Init, EmptyCache, IdleCall
<1>2. TypeOK
  <2>1. IdleCall \in CallState
    BY DEF IdleCall, CallState
  <2> QED
    BY <1>1, <2>1 DEF Init, TypeOK, EmptyCache, Cache
<1>3. CacheInv(cache, client, now, serving)
  BY <1>1 DEF CacheInv, EntriesAgree, OpenAreCached, BuiltInThePast, ClosedInTime, BuiltApart, SweptBy
<1>4. CallsInv(client)
  BY <1>1 DEF CallsInv, Running
<1> QED
  BY <1>2, <1>3, <1>4 DEF IInv

LEMMA NextKeepsIInv == IInv /\ [Next]_vars => IInv'
<1> SUFFICES ASSUME IInv, [Next]_vars PROVE IInv'
  OBVIOUS
<1>1. CASE Tick
  BY <1>1, TickKeepsIInv
<1>2. CASE \E k \in Call : RefuseUnauthenticated(k)
  BY <1>2, RefuseKeepsIInv
<1>3. CASE \E k \in Call, session \in Session, bearer \in Bearer : UseCached(k, session, bearer)
  BY <1>3, UseCachedKeepsIInv
<1>4. CASE \E k \in Call, session \in Session, bearer \in Bearer : BuildFails(k, session, bearer)
  BY <1>4, BuildFailsKeepsIInv
<1>5. CASE \E k \in Call, session \in Session, bearer \in Bearer, c \in Client :
             BuildAndCache(k, session, bearer, c)
  BY <1>5, BuildAndCacheKeepsIInv
<1>6. CASE \E k \in Call, bearer \in Bearer, c \in Client : BuildUncached(k, bearer, c)
  BY <1>6, BuildUncachedKeepsIInv
<1>7. CASE \E k \in Call : Finish(k)
  BY <1>7, FinishKeepsIInv
<1>8. CASE Shutdown
  BY <1>8, ShutdownKeepsIInv
<1>9. CASE UNCHANGED vars
  BY <1>9 DEF vars, IInv, TypeOK, CacheInv, EntriesAgree, OpenAreCached, BuiltInThePast,
              ClosedInTime, BuiltApart, SweptBy, CallsInv, HoldsItsOwn, Running
<1> QED
  BY <1>1, <1>2, <1>3, <1>4, <1>5, <1>6, <1>7, <1>8, <1>9 DEF Next

(***************************************************************************)
(* Cache, clients and calls agree in every state of the factory.           *)
(***************************************************************************)
THEOREM CacheAndCallsAgree == Spec => []IInv
BY InitEstablishesIInv, NextKeepsIInv, PTL DEF Spec

(***************************************************************************)
(* Every state is of the types of TypeOK.                                  *)
(***************************************************************************)
THEOREM SessionTypes == Spec => []TypeOK
<1>1. IInv => TypeOK
  BY DEF IInv
<1> QED
  BY <1>1, CacheAndCallsAgree, PTL

(***************************************************************************)
(* A lookup of session_cache.get never returns a client whose query cache  *)
(* is closed, nor one stored under another key.                            *)
(***************************************************************************)
THEOREM NoClosedClientIsServed == Spec => []CachedClientsAreOpen
<1>1. IInv => CachedClientsAreOpen
  BY DEF IInv, CacheInv, EntriesAgree, CachedClientsAreOpen
<1> QED
  BY <1>1, CacheAndCallsAgree, PTL

(***************************************************************************)
(* No open file handle is left behind: its client is cached, or a call     *)
(* awaits ServiceX with it.                                                *)
(***************************************************************************)
THEOREM EveryHandleHasAnOwner == Spec => []NoHandleLeaks
<1>1. IInv => NoHandleLeaks
  <2> SUFFICES ASSUME IInv, NEW c \in Client, client[c] # None, client[c].open
               PROVE  Cached(c) \/ InUse(c)
    BY DEF NoHandleLeaks
  <2>1. CASE client[c].key = None
    BY <2>1, IInvParts DEF CallsInv, InUse, Running
  <2>2. CASE client[c].key # None
    <3>1. client[c].key \in Key
      BY <2>2, IInvParts DEF Clients, ClientState
    <3> QED
      BY <2>2, <3>1, IInvParts DEF CacheInv, OpenAreCached, Cached
  <2> QED
    BY <2>1, <2>2
<1> QED
  BY <1>1, CacheAndCallsAgree, PTL

(***************************************************************************)
(* The client a call awaits ServiceX with was built for the call's bearer, *)
(* and is shared only within one session and bearer (get_client).          *)
(***************************************************************************)
THEOREM NoCallBorrowsAClient == Spec => []CallsAreIsolated
<1>1. IInv => CallsAreIsolated
  <2> SUFFICES ASSUME IInv, NEW k \in Call, Running(k)
               PROVE  /\ client[call[k].client] # None
                      /\ client[call[k].client].bearer = call[k].bearer
                      /\ \A l \in Call \ {k} : Running(l) /\ call[l].client = call[k].client =>
                           /\ call[k].session # None
                           /\ call[l].session = call[k].session
                           /\ call[l].bearer = call[k].bearer
    BY DEF CallsAreIsolated, Running
  <2>1. HoldsItsOwn(k, client)
    BY IInvParts DEF CallsInv
  <2>2. ASSUME NEW l \in Call \ {k}, Running(l), call[l].client = call[k].client
        PROVE  /\ call[k].session # None
               /\ call[l].session = call[k].session
               /\ call[l].bearer = call[k].bearer
    <3>1. HoldsItsOwn(l, client)
      BY <2>2, IInvParts DEF CallsInv
    <3>2. call[k].session # None /\ call[l].session # None
      BY <2>1, <2>2, <3>1 DEF HoldsItsOwn
    <3>3. <<call[k].session, call[k].bearer>> = <<call[l].session, call[l].bearer>>
      BY <2>1, <2>2, <3>1, <3>2 DEF HoldsItsOwn
    <3> QED
      BY <3>2, <3>3
  <2> QED
    BY <2>1, <2>2 DEF HoldsItsOwn
<1> QED
  BY <1>1, CacheAndCallsAgree, PTL

(***************************************************************************)
(* A call's client is closed under it only after the TTL from its          *)
(* construction, or by the shutdown.                                       *)
(***************************************************************************)
THEOREM AClientLivesForItsTTL == Spec => []ClosedInUseOnlyAfterTTL
<1>1. IInv => ClosedInUseOnlyAfterTTL
  <2> SUFFICES ASSUME IInv, NEW k \in Call, Running(k), ~client[call[k].client].open
               PROVE  now > client[call[k].client].built_at + TTL \/ ~serving
    BY DEF ClosedInUseOnlyAfterTTL, Running
  <2>1. HoldsItsOwn(k, client) /\ call[k].client \in Client
    BY IInvParts, NoneIsNone DEF CallsInv, TypeOK, CallState, Running
  <2>2. client[call[k].client].key # None
    <3>1. call[k].session # None
      BY <2>1 DEF HoldsItsOwn
    <3>2. <<call[k].session, call[k].bearer>> \in Key
      BY <3>1, IInvParts DEF TypeOK, CallState, Running, Key
    <3> QED
      BY <2>1, <3>1, <3>2, NoneIsNone DEF HoldsItsOwn
  <2> QED
    BY <2>1, <2>2, IInvParts DEF CacheInv, ClosedInTime, HoldsItsOwn
<1> QED
  BY <1>1, CacheAndCallsAgree, PTL

(***************************************************************************)
(* Two clients cached for one session and bearer are built more than a TTL *)
(* apart, however many are built ("a new client is built once per          *)
(* session").                                                              *)
(***************************************************************************)
THEOREM OneClientPerTTL == Spec => []BuiltOncePerTTL
<1>1. IInv => BuiltOncePerTTL
  BY DEF IInv, CacheInv, BuiltApart, BuiltOncePerTTL
<1> QED
  BY <1>1, CacheAndCallsAgree, PTL

(***************************************************************************)
(* No entry outlives the first put after its expiry.                       *)
(***************************************************************************)
THEOREM EveryPutSweeps == Spec => []AbandonedSessionsAreSwept
<1>1. IInv => AbandonedSessionsAreSwept
  BY DEF IInv, CacheInv, SweptBy, AbandonedSessionsAreSwept
<1> QED
  BY <1>1, CacheAndCallsAgree, PTL
==============================================================================

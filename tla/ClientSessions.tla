---------------------------- MODULE ClientSessions ----------------------------
(***************************************************************************)
(* Which ServiceX client a tool call works with, and for how long: the     *)
(* HTTP client factories (auth/factory.py) over a SessionCache, with the   *)
(* tool calls that hold the clients while they await ServiceX, and the     *)
(* server's lifespan that closes the factory.  The bearer-token and the    *)
(* broker factory share this get_client; they differ in the adapter put    *)
(* into the client.                                                        *)
(*                                                                         *)
(* get_client is synchronous on the event loop: look-up, build and put are *)
(* one action.  A call then awaits ServiceX for any time, with other       *)
(* calls, the clock and the shutdown in between.                           *)
(***************************************************************************)
EXTENDS SessionCache

CONSTANTS Call,     \* the tool calls of a behaviour
          TTL,      \* 300 s in get_client
          MaxTime   \* bound of the model: the clock stops there

ASSUME BoundsOK == TTL \in Nat /\ MaxTime \in Nat

VARIABLES
  now,      \* time.time()
  cache,    \* the factory's SessionCache
  client,   \* every ServiceXClient built, None before
  call,     \* where each tool call stands
  serving   \* the lifespan has not ended

vars == <<now, cache, client, call, serving>>

(***************************************************************************)
(* open: the query cache's file is not closed yet.  key: the key it was    *)
(* cached under, None for a client that is never cached.                   *)
(***************************************************************************)
ClientState == [bearer : Bearer, key : Key \cup {None}, built_at : Nat, open : BOOLEAN]

ASSUME NoneIsNoClient == None \notin ClientState

CallState == [stage   : {"idle", "running", "answered", "refused"},
              session : Session \cup {None},
              bearer  : Bearer \cup {None},
              client  : Client \cup {None}]

IdleCall == [stage |-> "idle", session |-> None, bearer |-> None, client |-> None]

(***************************************************************************)
(* Types; a running call has a bearer and a client.                        *)
(***************************************************************************)
TypeOK ==
  /\ now \in Nat
  /\ cache \in Cache
  /\ client \in [Client -> ClientState \cup {None}]
  /\ call \in [Call -> CallState]
  /\ serving \in BOOLEAN
  /\ \A k \in Call : call[k].stage = "running" =>
       call[k].bearer # None /\ call[k].client # None

Init ==
  /\ now = 0
  /\ cache = EmptyCache
  /\ client = [c \in Client |-> None]
  /\ call = [k \in Call |-> IdleCall]
  /\ serving = TRUE

Tick ==
  /\ now < MaxTime
  /\ now' = now + 1
  /\ UNCHANGED <<cache, client, call, serving>>

-------------------------------------------------------------------------------
(* get_client                                                              *)

(***************************************************************************)
(* _close_client_resources on a set of clients.                            *)
(***************************************************************************)
\* Mutant of Close: the handles are left to the garbage collector.
LeaveOpen(clients, which) == clients

Close(clients, which) ==
  [c \in Client |-> IF c \in which /\ clients[c] # None
                    THEN [clients[c] EXCEPT !.open = FALSE] ELSE clients[c]]

NewClient(bearer, key) ==
  [bearer |-> bearer, key |-> key, built_at |-> now, open |-> TRUE]

Run(k, session, bearer, c) ==
  call' = [call EXCEPT ![k] = [stage |-> "running", session |-> session,
                               bearer |-> bearer, client |-> c]]

(***************************************************************************)
(* _extract_request_auth: no Bearer header, PermissionError; the tool      *)
(* answers with the classified error.                                      *)
(***************************************************************************)
RefuseUnauthenticated(k) ==
  /\ serving /\ call[k].stage = "idle"
  /\ call' = [call EXCEPT ![k].stage = "refused"]
  /\ UNCHANGED <<now, cache, client, serving>>

(***************************************************************************)
(* A client for this session id and this bearer is cached and unexpired.   *)
(***************************************************************************)
\* Mutant of CacheKey: the bearer is not part of the key.
KeyOfSession(session, bearer) == <<session, CHOOSE b \in Bearer : TRUE>>

CacheKey(session, bearer) == <<session, bearer>>

UseCached(k, session, bearer) ==
  LET found == Get(cache, CacheKey(session, bearer), now) IN
  /\ serving /\ call[k].stage = "idle"
  /\ found # None
  /\ Run(k, session, bearer, found)
  /\ UNCHANGED <<now, cache, client, serving>>

(***************************************************************************)
(* A miss: get drops and closes the key's expired entry, then the client   *)
(* is built.  Building opens the query cache's file and can raise; else    *)
(* put sweeps, closes what it sweeps, and stores.                          *)
(***************************************************************************)
Miss(k, key) ==
  /\ serving /\ call[k].stage = "idle"
  /\ Get(cache, key, now) = None

BuildFails(k, session, bearer) ==
  LET key  == CacheKey(session, bearer)
      gone == DroppedByGet(cache, key, now)
  IN
  /\ Miss(k, key)
  /\ cache' = Drop(cache, gone)
  /\ client' = Close(client, ClientsAt(cache, gone))
  /\ call' = [call EXCEPT ![k].stage = "refused"]
  /\ UNCHANGED <<now, serving>>

BuildAndCache(k, session, bearer, c) ==
  LET key   == CacheKey(session, bearer)
      gone  == DroppedByGet(cache, key, now)
      after == Drop(cache, gone)
      swept == DroppedByPut(after, now)
  IN
  /\ Miss(k, key)
  /\ client[c] = None
  /\ cache' = Put(after, key, c, now + TTL, now)
  /\ client' = [Close(client, ClientsAt(cache, gone) \cup ClientsAt(after, swept))
                  EXCEPT ![c] = NewClient(bearer, key)]
  /\ Run(k, session, bearer, c)
  /\ UNCHANGED <<now, serving>>

(***************************************************************************)
(* No mcp-session-id header: build for this request only.                  *)
(***************************************************************************)
BuildUncached(k, bearer, c) ==
  /\ serving /\ call[k].stage = "idle"
  /\ client[c] = None
  /\ client' = [client EXCEPT ![c] = NewClient(bearer, None)]
  /\ Run(k, None, bearer, c)
  /\ UNCHANGED <<now, cache, serving>>

-------------------------------------------------------------------------------

(***************************************************************************)
(* The awaited ServiceX call returned or raised, and the tool answered.    *)
(* Its reference to the client is gone: a client that was never cached is  *)
(* then closed by reference counting.                                      *)
(***************************************************************************)
Finish(k) ==
  LET c == call[k].client IN
  /\ call[k].stage = "running"
  /\ call' = [call EXCEPT ![k] = [@ EXCEPT !.stage = "answered", !.client = None]]
  /\ client' = IF client[c].key = None THEN Close(client, {c}) ELSE client
  /\ UNCHANGED <<now, cache, serving>>

(***************************************************************************)
(* The lifespan ends: factory.close() closes every cached client.  Calls   *)
(* still awaiting ServiceX keep theirs.                                    *)
(***************************************************************************)
Shutdown ==
  /\ serving
  /\ serving' = FALSE
  /\ client' = Close(client, ClientsAt(cache, Key))
  /\ cache' = EmptyCache
  /\ UNCHANGED <<now, call>>

Next ==
  \/ Tick
  \/ \E k \in Call : RefuseUnauthenticated(k)
  \/ \E k \in Call, session \in Session, bearer \in Bearer :
       \/ UseCached(k, session, bearer)
       \/ BuildFails(k, session, bearer)
       \/ \E c \in Client : BuildAndCache(k, session, bearer, c)
  \/ \E k \in Call, bearer \in Bearer, c \in Client : BuildUncached(k, bearer, c)
  \/ \E k \in Call : Finish(k)
  \/ Shutdown

Spec == Init /\ [][Next]_vars

-------------------------------------------------------------------------------
(* Properties                                                              *)

Cached(c) == \E key \in Key : cache[key] # None /\ cache[key].client = c

InUse(c) == \E k \in Call : call[k].stage = "running" /\ call[k].client = c

(***************************************************************************)
(* No lookup can return a client whose query cache is closed, and no two   *)
(* keys share a client: closing on one eviction path never leaves the      *)
(* client reachable through the cache.                                     *)
(***************************************************************************)
CachedClientsAreOpen ==
  \A key \in Key : cache[key] # None =>
    /\ client[cache[key].client] # None
    /\ client[cache[key].client].open
    /\ client[cache[key].client].key = key

(***************************************************************************)
(* Every eviction path closes: a client with an open file handle is cached *)
(* or held by a call in flight (docstring of SessionCache and of           *)
(* _close_client_resources, "latent fd-exhaustion risk").                  *)
(***************************************************************************)
NoHandleLeaks ==
  \A c \in Client : client[c] # None /\ client[c].open => Cached(c) \/ InUse(c)

(***************************************************************************)
(* A call works with a client built for its own bearer, and shares it only *)
(* with calls of the same session and bearer; a call without a session id  *)
(* shares it with none (get_client's docstring).                           *)
(***************************************************************************)
CallsAreIsolated ==
  \A k \in Call : call[k].stage = "running" =>
    /\ client[call[k].client] # None
    /\ client[call[k].client].bearer = call[k].bearer
    /\ \A l \in Call \ {k} :
         call[l].stage = "running" /\ call[l].client = call[k].client =>
           /\ call[k].session # None
           /\ call[l].session = call[k].session
           /\ call[l].bearer = call[k].bearer

(***************************************************************************)
(* The client of a call in flight may be closed under it, but only once    *)
(* the TTL counted from its construction is over, or by the shutdown.      *)
(***************************************************************************)
ClosedInUseOnlyAfterTTL ==
  \A k \in Call :
    call[k].stage = "running" /\ ~client[call[k].client].open =>
      now > client[call[k].client].built_at + TTL \/ ~serving

(***************************************************************************)
(* "A new client is built once per session": two clients cached for one    *)
(* session and bearer are built more than a TTL apart.                     *)
(***************************************************************************)
BuiltOncePerTTL ==
  \A c, d \in Client :
    /\ c # d
    /\ client[c] # None /\ client[d] # None
    /\ client[c].key # None /\ client[c].key = client[d].key
    => \/ client[c].built_at > client[d].built_at + TTL
       \/ client[d].built_at > client[c].built_at + TTL

(***************************************************************************)
(* Every put sweeps: an entry, of whatever key, does not outlive the first *)
(* client cached after it expired, so an abandoned session's client and    *)
(* token do not stay in memory while others keep working.                  *)
(***************************************************************************)
AbandonedSessionsAreSwept ==
  \A key \in Key, c \in Client :
    cache[key] # None /\ client[c] # None /\ client[c].key # None =>
      client[c].built_at <= cache[key].expires_at
===============================================================================

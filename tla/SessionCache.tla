----------------------------- MODULE SessionCache -----------------------------
(***************************************************************************)
(* The TTL cache of ServiceX clients (auth/session_cache.py).  A cache is  *)
(* a function from keys to entries, None for an absent key.  Each method   *)
(* is one critical section: an operator for the cache it leaves and one    *)
(* for the clients whose query cache it closes.                            *)
(***************************************************************************)
EXTENDS Naturals

CONSTANTS Session,   \* mcp-session-id values
          Bearer,    \* bearer tokens of callers
          Client,    \* ServiceXClient objects a behaviour may build
          None

Key == Session \X Bearer   \* _cache_key: the session id with a hash of the bearer

Entry == [client : Client, expires_at : Nat]

Cache == [Key -> Entry \cup {None}]

ASSUME NoneIsNoEntry == None \notin Session \cup Bearer \cup Client \cup Key \cup Entry

EmptyCache == [key \in Key |-> None]

(***************************************************************************)
(* An entry outlives the instant it expires at: the test is exp < now.     *)
(***************************************************************************)
\* Mutant of ExpiredKeys: the comparison the bridge store uses.
ExpiredAtDeadline(cache, t) ==
  {key \in Key : cache[key] # None /\ cache[key].expires_at <= t}

ExpiredKeys(cache, t) ==
  {key \in Key : cache[key] # None /\ cache[key].expires_at < t}

\* Mutant of Drop: the entries stay, though their clients are closed.
KeepEntries(cache, keys) == cache

Drop(cache, keys) == [key \in Key |-> IF key \in keys THEN None ELSE cache[key]]

ClientsAt(cache, keys) == {cache[key].client : key \in {k \in keys : cache[k] # None}}

(***************************************************************************)
(* get: the client, or None; an expired entry of this key is dropped and   *)
(* its client closed.                                                      *)
(***************************************************************************)
\* Mutant of Get: answers with the entry, not with its client.
ReturnsEntry(cache, key, t) ==
  IF cache[key] = None \/ key \in ExpiredKeys(cache, t) THEN None ELSE cache[key]

Get(cache, key, t) ==
  IF cache[key] = None \/ key \in ExpiredKeys(cache, t) THEN None ELSE cache[key].client

DroppedByGet(cache, key, t) == {key} \cap ExpiredKeys(cache, t)

(***************************************************************************)
(* put: sweep every expired entry, then store.                             *)
(***************************************************************************)
\* Mutant of DroppedByPut: no sweep.
SweepsNothing(cache, t) == {}

DroppedByPut(cache, t) == ExpiredKeys(cache, t)

Put(cache, key, client, expires_at, t) ==
  [Drop(cache, DroppedByPut(cache, t))
     EXCEPT ![key] = [client |-> client, expires_at |-> expires_at]]
===============================================================================

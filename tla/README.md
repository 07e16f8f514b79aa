# servicex-mcp in TLA+

servicex-mcp is an MCP server in front of ServiceX, a high-energy-physics data
delivery service. Over HTTP it signs users in by a paste-a-token OAuth bridge, resolves
OAuth clients by their Client ID Metadata Documents (CIMD), keeps a ServiceX
client per MCP session, and offers tools that call ServiceX. This directory
models its stateful parts, checks them with TLC and proves all their safety
properties with TLAPS, for every value of the constants. Paths below are relative to `src/servicex_mcp/` in the
repository.

## The system

| Component | State | Operations | Where it can go wrong |
|---|---|---|---|
| bridge state store, `auth/bridge_state.py` | `_by_session`, `_by_code`, one lock | `put`, `get_by_session_id`, `get_by_auth_code`, `pop_by_auth_code`, `mark_done`, `mark_error`, `session_counts`; every read sweeps | two dictionaries that must agree after marks, sweeps and pops in any order; the expiry instant |
| sign-in bridge, `auth/bridge_provider.py`, `auth/bridge_routes.py` | the store; each request's own progress | `authorize`, `/bridge` GET and POST, `submit_token`, `load_authorization_code`, `exchange_authorization_code` | checks made before an `await` and used after it; POSTs racing on one page; `/token` requests racing or repeated; the TTL passing anywhere |
| CIMD clients, `auth/bridge_provider.py`, `auth/cimd.py`, middleware in `server.py` | `_clients`, an LRU cache with TTL; a contextvar per request | `get_client`, `_resolve_cimd`, `_cache_get`, `_cache_put` | no single flight; documents that rotate; one request's ephemeral port reaching another |
| ServiceX clients, `auth/factory.py`, `auth/session_cache.py` | `SessionCache._data`; one open file per client | `get_client` (bearer and broker), `close`, sweep on `put` | a client shared between callers; closed while in use; never closed |
| broker adapter, `_BrokerServiceXAdapter` in `auth/factory.py` | the redeemer's token cache (in `af_credentials`) | one redeem per ServiceX call | stale tokens, a redeem that fails |
| MCP tools, `tools/*.py` | none of their own; the event loop and the default executor's threads, which they share | submit, list, status, cancel, delete, info | the read-only gate, retries of a submission that went through, cancelled calls whose thread goes on, calls that block the loop |
| tool helpers, `tools/_helpers.py` | none | `paginate_iter`, `classify_error`, formatting | page boundaries, the order of the error patterns |
| metadata middleware, `server.py` | per request: the start message and the pieces held back | forward, rewrite | pieces of two responses, a wrong length, an application that fails half-way |
| server assembly and CLI, `server.py`, `cli.py` | the lifespan | build, serve, shut down | closing the factory under calls in flight |

They interact as follows. The MCP SDK calls the provider (`get_client`, then
`authorize`; later `get_client`, `load_authorization_code` and
`exchange_authorization_code`), the browser calls `/bridge`, and bridge and
provider share the store. The access token the exchange returns is the pasted
refresh token; MCP clients send it as their bearer, from which the factory
builds ServiceX clients. Nothing is persisted: a restart forgets sessions,
codes and caches, so there is no recovery to model.

Everything runs as coroutines on one event loop. A handler is therefore atomic
between two awaits that really suspend: `request.form()`, ServiceX's answer, a
metadata document's host, and whatever the SDK awaits between its calls of the
provider. Every store and cache method runs under a lock on top of that.

## Modules

| Module | Models |
|---|---|
| `BridgeStateStore` | the store's methods, as operators from store and clock to store and answer |
| `BridgeFlow` | the handlers over one store: one action per stretch between suspensions; history variables for what was created, minted and granted |
| `CodeGrant` | what the bridge promises, with no requests, pages or dictionaries |
| `BridgeFlow_proofs`, `BridgeRefinement_proofs` | theorems about the two |
| `SessionCache` | the session cache's methods, as operators |
| `ClientSessions` | tool calls, the two factories' `get_client`, the lifespan, over one cache |
| `CimdClients` | `get_client` for CIMD clients, its cache, the documents' hosts |
| `ListPages` | the list tools' paging, and a caller that follows the footers |
| `ToolCalls` | a tool call from the gates to its answer, on the loop or in a worker thread; ServiceX; callers that repeat and cancel |
| `AnswerPromise` | what answers promise about ServiceX, with no threads, queues or messages |
| `ToolCalls_proofs` | the proof that the one implements the other, and of the calls' other invariants |
| `MetadataResponse` | the middleware that rewrites the authorization server's metadata |
| `ClientSessions_proofs`, `CimdClients_proofs`, `MetadataResponse_proofs`, `ListPages_proofs` | theorems about these |
| `SequenceLemmas` | lemmas about sequences without repetition: removing, appending, taking, keeping the last n; used for the cache's order, the executor's queue and the lists |
| `MC*` | TLC's values and symmetry |

**BridgeFlow.** `Authorize` is `authorize`; `BridgeGet` is the form page.
A POST is `PostArrives` (to `await request.form()`, with the done check),
`PostReadsForm` (to `submit_token`'s await, with its own look-up), then
`ValidationSucceeds` (`mark_done`, and `bridge_post`'s look-up and redirect,
which follow without a suspension) or `ValidationFails` (`mark_error`). A
`/token` request is `LoadAuthorizationCode` and `ExchangeAuthorizationCode`.
PKCE, redirect URI and client checks between the two belong to the SDK and can
only refuse; a refused request is one that stays at `loaded`. A POST or GET
without a session parameter touches nothing and is left out. `now` is
`time.time()` in ticks and does not run backwards. A fresh code or session id is
one not used before (`secrets.token_urlsafe(32)`).

**CodeGrant.** A sign-in has a deadline, a validation may issue a code and
supersedes the sign-in's earlier ones, a live code is redeemed at most once,
before the deadline, and that ends the sign-in. Live codes may also die early:
that they do so only for a reason is `UndisturbedCodeIsHonoured`, on the
detailed module. The refinement maps `deadline` to creation time plus TTL, and
`live` to the keys of `_by_code`.

**ClientSessions.** `get_client` is synchronous, so look-up, build and put are
one action: `UseCached`, `BuildAndCache`, `BuildUncached` (no session id) or
`BuildFails`. A call then runs until `Finish`; in between the clock, other
calls and `Shutdown` may drop and close its client. Both factories share this
module, as their `get_client` differ only in the adapter. That a client nobody
caches is closed when its call ends is reference counting, not code of the
repository.

**CimdClients.** A document is its set of redirect URIs, a URI a base and a
port. `GetClientHit`, `GetClientMiss` and `GetClientUnknown` are the synchronous
beginnings of `get_client`; `DocumentServed` is the host's answer, after which
the host may `Rotate`; `ResolveCompletes` and `ResolveFails` end
`_resolve_cimd`. The safety checks on URL and document are one failure that may
happen to any lookup; whether it is answered with no client (`CimdError`) or leaves
`get_client` as another exception makes no difference to the cache, and both are the
stage `no_client`. `order` is the `OrderedDict`'s order of keys. Lookups come in any
order on either leg, as anyone may send any request. The middleware reads the redirect
from the query string only: an `/authorize` may have none there (a POST with a form),
and then the contextvar is unset as on `/token`.

**ListPages.** `ListPage` is a list tool's call: the list as ServiceX has it at
that moment, cut by `paginate_iter` (`Window`, `IsTruncated`, `Page`, `Shown`).
`Add` and `Delete` change the list between calls, anywhere, since ServiceX
promises no order. An empty list is answered before it is paginated. `limit` and `offset` are any integers, as in the code, and
`Slice` is Python's slicing; `ListRaises` is the ValueError of a negative
count. `seen` is what the pages listed, one after the other, and `pages` their number.
All properties but the types are about callers with a positive limit and no negative
offset.

**ToolCalls.** `RefuseWrite`, `RefuseArguments` and `RefuseWithoutClient` are the
early returns at the head of a tool, `Start` what follows them up to the first
suspension. A tool's function is then on the loop, or in the executor's queue until
`TakeWorker`; `SendRequest` and `AuthorizationFails` are the token at hand,
refreshed or (broker) redeemed, and the request leaving, or not. `Serve` and
`Reject` are ServiceX; `Succeeds`, `IsRefused` and `LosesAnswer` the end of the
work, with or before ServiceX's decision. ServiceX may also answer the deletion of a dataset
without having deleted it (`Decline`): what it returns is a flag, and the tool passes it
on. A thread's result reaches its caller
with `Deliver`, for which the loop must be free. `Withdraw` is the caller's
cancellation: `CancelledError` is not an `Exception`, so the tools' handlers let
it pass; a queued function is cancelled with it, a running one goes on.
`servicex_list_code_generators` calls the synchronous client on the loop, and while
it does nothing else on the loop runs (`LoopFree`). Callers ask again for what they
were not told is done. An error is the set of `classify_error`'s patterns that its
type's name and its message contain; the message is ServiceX's or the broker's to
choose. `call[k].answer` is what the caller reads, a result, the read-only text or an
error with its advice; `cause` is what was behind it, which the caller does not see.
The client a call works with is ClientSessions' subject: a call here has
one or is refused.

**AnswerPromise.** What a caller knows of its call: nothing yet, that it waits, that
the call has changed ServiceX (`changed`), that it has not and never will (`unchanged`),
that it will not change it any more (`over`), or none of these (`doubt`). ServiceX
changes only for calls that wait or were left in doubt, never on a read-only server.
The refinement maps `changed` to the write requests ServiceX has applied and the
outcome to what a caller sees, its tool and the answer. A write's result is
`changed`; `servicex_delete_dataset`'s, "not an unconditional success/failure signal"
in the tool's own words, is `over`. The read-only text and the broker's two errors are
`unchanged`, as only gates and failed redeems are answered with them. All other
errors are `doubt`: ServiceX chooses the message of an error, so a "not found" may be a
refusal or the answer to a request that is still on its way, and reads the same.

**MetadataResponse.** The application's `http.response.start` is `Starts`, each body
message `SendsPiece`; with the last the middleware rewrites (`Augment`) and sends
its start message, then its body (`ForwardsBody`). `Raises` is the application's
exception, or a send's. A document is its pieces and what was added to them;
half a document does not parse. Only answers with a body are modelled, and requests
for other paths, which pass straight through, are not.

## What is checked

| Run | Shows | Bounds |
|---|---|---|
| `bridge_safety` | type and index agreement; one grant per sign-in; a code redeems its own token, in time; the redirect carries its own code; undisturbed codes are honoured | 2 sessions, 3 POSTs, 3 codes, 2 `/token`, TTL 2, clock to 3 |
| `bridge_refinement` | BridgeFlow implements CodeGrant; every POST is answered | 2 sessions, 2 POSTs, 2 codes, no symmetry |
| `bridge_double_submit` | refutes "a second token must never overwrite the first" | 1 session, 2 POSTs |
| `bridge_done_to_error` | refutes that done is final | 1 session, 2 POSTs |
| `client_sessions` | cached clients are open, handles never leak, calls are isolated, clients in use close only after the TTL or by shutdown, one build per TTL, sweeps reach abandoned keys | 2 sessions, 2 bearers, 3 clients, 3 calls, TTL 1, clock to 4 |
| `cimd_clients` | the cache holds published documents only; own redirect and no other's; hits are fresh | 2 clients, 1 place, 3 lookups, 3 redirects or none, 1 rotation, TTL 2, clock to 2 |
| `cimd_lru` | the cap; recently used clients stay | 3 clients, 2 places, 4 lookups, TTL 1, clock to 1 |
| `cimd_token_leg` | refutes "no re-fetch is needed" on the `/token` leg | 1 client, 3 lookups, TTL 3, code life 2 |
| `list_pages` | the whole list, once, when it is stable; otherwise additions only repeat and removals only hide; no page asked for in vain | lists of up to 5, 3 changes, limits -1, 1, 2, offsets -2, 0, 1 |
| `list_pages_zero` | refutes that a footer's call shows more | limit 0 |
| `tool_calls` | ToolCalls implements AnswerPromise; a write happens twice only after a lost answer or a cancellation; redeem errors name the broker; every call ends and gives its thread back | 3 calls, 2 intents, 1 thread; a write on the loop, the dataset deletion in a thread, the blocking tool; broker mode; messages say "not found" |
| `metadata_response` | each client gets its own whole response, of the announced length, with the advertisement; none truncated, none held back for good | 2 requests, up to 3 pieces, both statuses, 3 contents |

The bounds hold the cases that matter. Three POSTs are two that race on a page
and one on another page, or three on one; a code index goes wrong with two codes
on a session and a third elsewhere. Two `/token` requests are a replay. The
clock passes the TTL, so every comparison is met before, at and after the
deadline. For the client cache, three calls are one that builds, one that waits
with the client, and one whose put sweeps; the clock reaches two TTLs. The
oldest of two places is told from the newest by three puts with a hit in
between, hence four lookups in `cimd_lru`. Lists of five give three pages of two,
the last one short, and pages of one after changes on either side of the offset. In `tool_calls` one thread is the limit that more threads only put off; with three
calls one is repeated after a lost answer while its first thread or request still
goes on, beside a call that blocks the loop. The three tools are one of each way to
wait, so that every pair of ways meets. Broker mode has every refusal at the gates, and
its redeem errors are the ones that rule an effect out; in the other modes
`AuthorizationFails` has causes that a request that left has in broker mode too (and the
theorems hold for every mode).
Every message says "not found", which has a rule after the broker's and is what a refusal
and a lost answer may both say: all of them then read alike, the hardest case for what may
be concluded from an answer. Two responses of three
pieces interleave at every message; more only repeat this. Symmetry is used only in runs of
safety properties, on values no definition tells apart.

`CHECK_DEADLOCK FALSE` is set where the model may really end: after the
shutdown, or when all lookups, calls or responses have been answered. In BridgeFlow the form page can
always be requested, and deadlock is checked.

**Fairness.** `FairSpec` of BridgeFlow assumes that a suspended POST goes on:
the form arrives or its read raises, the call to ServiceX returns or raises.
Of users, clients and clock it assumes nothing. CimdClients has no fairness: `_FETCH_TIMEOUT`
(10 s) is httpx's timeout of each connect or read, not of the fetch, the size of a document
is tested once its whole body is there, and the host's name is resolved outside the
timeout, so the code does not guarantee that a lookup ends, and no property says so.
`FairSpec` of ToolCalls assumes that the loop and the
executor go on with each call they can go on with, and that an exchange ends: with
ServiceX or the broker it either answers or raises when the HTTP client's timeout is
over. That ServiceX ever serves or rejects a request is not assumed, nor that callers
ask or cancel. `FairSpec` of MetadataResponse assumes that the loop runs what is
ready; it does not assume that the application raises.

## Where code and documents disagree

1. *Two POSTs of one page.* `bridge_post` tests `status == "done"` before two
   suspensions and never again. Two POSTs that both passed it both complete:
   the second token replaces the first, and the first redirect's code no longer
   redeems. The test's comment and the handler's comment say this must not
   happen. It stays harmless otherwise: at most one grant, of the right token.
2. *Done to error.* `mark_error` ignores the status, so a slower POST that is
   refused takes a completed sign-in back; the delivered code is then refused.
3. *The `/token` leg may fetch.* `_resolve_cimd` says the client is still
   cached by then. A hit does not extend an entry's TTL, so `/authorize` may
   find an entry that is gone minutes later.
4. *A footer that leads nowhere.* With `limit` 0 the footer names the offset
   just asked for; following it shows nothing, forever.

## What is proved

Every invariant and every action property of the passing runs, and both refinements,
for all sets of sessions, codes, tokens, clients, requests, calls and entries, any TTL,
cap, number of threads, limit and bound of the model:

| Theorem | States |
|---|---|
| *BridgeFlow* | |
| `TypeCorrect` | `Spec => []TypeOK` |
| `IndexAlwaysConsistent` | `Spec => []IndexConsistent` |
| `SingleUse` | `Spec => []OneGrantPerSession` |
| `OwnToken` | `Spec => []CodeRedeemsItsOwnToken` |
| `Timely` | `Spec => []NoGrantAfterExpiry` |
| `OwnRedirect` | `Spec => []RedirectCarriesOwnCode` |
| `UndisturbedIsHonoured` | `Spec => []UndisturbedCodeIsHonoured` |
| `BridgeImplementsCodeGrant` | `Spec => Promise` |
| *ToolCalls* | |
| `ToolCallsKeepPromise` | `Spec => Promise` |
| `ToolCallTypes` | `Spec => []TypeOK`: with it that threads are never overdrawn |
| `DuplicatesAreDoubtful` | `Spec => []DuplicatesNeedDoubt` |
| `RedeemIsTheBrokersFault` | `Spec => []RedeemFailuresNameTheBroker` |
| *ClientSessions* | |
| `SessionTypes` | `Spec => []TypeOK` |
| `NoClosedClientIsServed` | `Spec => []CachedClientsAreOpen` |
| `EveryHandleHasAnOwner` | `Spec => []NoHandleLeaks` |
| `NoCallBorrowsAClient` | `Spec => []CallsAreIsolated` |
| `AClientLivesForItsTTL` | `Spec => []ClosedInUseOnlyAfterTTL` |
| `OneClientPerTTL` | `Spec => []BuiltOncePerTTL` |
| `EveryPutSweeps` | `Spec => []AbandonedSessionsAreSwept` |
| *CimdClients* | |
| `CimdTypes` | `Spec => []TypeOK` |
| `CacheStaysBounded` | `Spec => []CapIsKept` |
| `OnlyDocumentsAreCached` | `Spec => []CacheIsCanonical` |
| `EvictionIsByUse` | `Spec => []RecentlyUsedStay` |
| `EachRequestItsRedirect` | `Spec => []OwnRedirectOnly` |
| `HitsDoNotExtendTheTTL` | `Spec => HitsAreFresh`, an action property |
| *MetadataResponse* | |
| `MetadataTypes` | `Spec => []TypeOK` |
| `ResponsesAreNotMixed` | `Spec => []OwnWholeResponse` |
| `LengthsAreHonest` | `Spec => []LengthIsHonest` |
| `SupportIsAdvertised` | `Spec => []AdvertisesCimd` |
| `NothingGoesOutEarly` | `Spec => []NoTruncatedSuccess` |
| *ListPages* | |
| `PageTypes` | `Spec => []TypeOK` |
| `FootersListEverything` | `Spec => []WholeListOnce` |
| `AdditionsHideNothing` | `Spec => []OnlyRemovalsHide` |
| `RemovalsRepeatNothing` | `Spec => []OnlyAdditionsRepeat` |
| `NoPageInVain` | `Spec => []WalkIsShort` |

**Assumptions.** That None is none of the values it stands beside (`NoneIsNoValue`,
`NoneIsDistinct`, `NoneIsNoEntry`, `NoneIsNoClient`, `NoneIsNoCachedClient`,
`NoneIsNoBody`, `NoneIsNoAnswer`, and in ToolCalls' `ConstantsOK`), and the ranges of the constants
(`ConstantsOK`, `BoundsOK`, `CimdConstantsOK`, `PagesConstantsOK`): TTLs are natural
numbers, caps and threads positive, limits and offsets integers. Sessions, calls,
clients and requests need not be finite sets; the entries of a list must be, since a
list is one without repetition. TLC evaluates each assumption on the runs of its module.

**Arguments.** Each component's proofs rest on one inductive invariant, `IInv` in its
module (with `HonouredInv` for the bridge and `CallsInv` for tool calls). TLC finds each of them true in all
states of the component's run.

*The bridge.* `IndexConsistent` is inductive given the types: the lemmas
`*Consistent` show it store method by store method. The other properties are
not: that a grant is unique depends on the store no longer holding the session
it came from. `IInv` adds what ties the store to the history: a stored session
was created and expires TTL later (`SessionsAreCreated`); its code was minted
for it and for its current token (`CodesAreMinted`), after a validation
(`MintsAreValidated`); and the session of every grant is gone from the store
(`GrantsEndSessions`). It cannot return, since ids are fresh and marking does
nothing to a session that is gone. Most steps only remove from the store, and
`ShrinkKeepsHistory` settles all of these at once; the work is in
`ValidationSucceedsKeepsIInv` and `ExchangeKeepsIInv`. The refinement then goes
action by action: an accepted validation is `Issue`, a granting exchange
`Redeem`, a sweep `Invalidate` or a stutter.

That an undisturbed code is honoured needs the converse: not that what the store holds
is justified by the history, but that what the history promises is in the store.
`HonouredInv` says that the session of an undisturbed POST stands done, with its code. If
the POST is undisturbed after a step it was so before (`UndisturbedBefore`), because time
only passes and verdicts and grants are only added, so what is left
(`KeepsHonoured`) is that the step did not touch the session: a sweep takes what is
expired, an exchange takes a session only with its code and then grants, a validation on
the session would be a second verdict.

*Tool calls.* A step of the promise asks what the answer says of a
request that may still be on its way, so the invariant ties each call's stage and
cause to its work and request: a request leaves only for a call past the gates
(`Gated`), a call without work or with a queued function has sent nothing
(`Fitting`), and success, refusal and early cancellation each fix the request's fate
(`Truthful`). The answer tells less than the cause: `Legible` says what can be
concluded from it, and `AnswersFit` proves that of `classify_error`, for every
set of patterns a message can hold, as its rules test the broker's errors first
(`Classified`). Actions are about one call; `KeepsIInv` and `MovesArePromised` reduce
each to that call once and for all, after which there is one lemma per kind of step.
The two hard ones are `Withdrawn`, where a thread may go on, and `Decided`, where
ServiceX applies a request whose caller is gone.

The other two invariants count. `CallsInv` adds that only finitely many calls were
made so far, though callers may go on for ever; that the queue holds the queued calls,
once each; that busy threads are at most the threads; and that of the calls for one
intent all but one are over without success (`OneAtATime`). `CallsStep` is what one step may do to one
call's caller, its place in the queue and its thread, and every action is one.
`DuplicatesNeedDoubt` then follows, as every applied write but one lost its answer or was withdrawn;
`RedeemFailuresNameTheBroker` is a part of `Legible`.

*Client sessions.* The cache, the clients and the calls agree. An entry is for an open
client of its key and expires a TTL after the client was built (`EntriesAgree`), and an
open client with a key is the one cached for it (`OpenAreCached`): together they are
what "closed on every eviction path" means. `ClosedInTime`, `BuiltApart` and `SweptBy`
relate clients that are closed to the clock and to the entry that followed. The
calls' side (`CallsInv`) is that a running call's client was built for its bearer, and
is its own if it has no session.

*CIMD clients.* `CacheIsCanonical` needs that documents on their way were published
(`RequestsAreGenuine`). For the eviction, `recent` is the whole order of use and
`order` is `recent` with the evicted clients left out (`OrderIsByUse`); so
if a client was dropped from the front of a full `order`, as many as the cap
are behind it in `recent` too: `DroppedIsFarBack`, a count of positions. `HitsAreFresh`
needs that an entry expires a TTL after it was stored (`EntriesAreStamped`).

*Metadata.* The buffers of a call hold the first pieces its own application sent, in
order (`First`), and the client has got nothing, or the outcome's start
message, or both messages (`Buffered`). Pieces carry their request, so no other body is
the same (`WholeIsOwn`).

*Paging.* `PageOf` computes `paginate_iter`: Python's slices of slices are the entries
from the offset to the limit or the end, with a footer if the list goes on. The
walk's offset is then its start plus a limit for each page (`WalkInv`). For a changing list
the invariant is about what is still to come, the entries behind the offset: an entry
not seen is still to come as long as nothing is removed (`NothingMissed`), and one seen
is not as long as nothing is added (`NothingTwice`); an insertion moves an entry only
back, a deletion only forward (`InsertedAt`, `DeletedAt`).

Model-checked only: liveness (`EveryPostIsAnswered`, `EveryCallEnds`, `EveryResponseIsForwarded`), which is out of the prover's reach as it
needs ENABLED; and the four properties the code refutes, which have counterexamples.

## Not modelled

The CLI and deployment keep no state of interest. Cryptography, JWT parsing
(`_jwt_expires_in` only reports a lifetime), HTML, formatting and logs are left out,
and so are the provider's methods that always answer the same (`load_access_token`,
the refresh, assertion and revocation stubs) and the transport security settings,
which are a function of the resource URL. A bearer's hash in the cache key is taken
to be injective. The number of pending sessions has no bound in the code, and none is
claimed; nor is there a bound on how long a host may take to send a document. Which of two concurrent fetches of a document wins the cache is not
promised, and neither is the advice for an error of ServiceX itself in broker mode.
When a redeemed token is used again is decided in the `servicex` library; the model
lets every request redeem or not.

## Plan

Done: every component listed as modelled is checked, and its safety is proved. What
may follow:

1. Abstract specifications of the client cache (a map of keys to clients with a
   deadline each) and of the CIMD cache, with refinement proofs from the invariants
   above.
2. Action properties worth a run and a proof: a client that is served is never closed
   by another key's put before its TTL; a verdict of a POST is final.

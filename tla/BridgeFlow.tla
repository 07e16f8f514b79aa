------------------------------ MODULE BridgeFlow ------------------------------
(***************************************************************************)
(* The paste-a-token OAuth sign-in of servicex-mcp: authorize, the /bridge *)
(* page, submit_token and the /token exchange (auth/bridge_provider.py and *)
(* auth/bridge_routes.py) over one BridgeStateStore.                       *)
(*                                                                         *)
(* The handlers are coroutines on one event loop: what runs between two    *)
(* awaits that really suspend is one action.  A POST suspends twice, while *)
(* it reads the form and while ServiceX validates the token, so other      *)
(* handlers and the clock run between the done check, the session lookup   *)
(* of submit_token and the marking.  /token calls load_authorization_code  *)
(* and exchange_authorization_code one after the other from the MCP SDK;   *)
(* nothing in src/ keeps the SDK from suspending in between, so they are   *)
(* two actions.                                                            *)
(***************************************************************************)
EXTENDS BridgeStateStore

CONSTANTS ValidTokens,   \* the tokens ServiceX's /token/refresh accepts
          Post,          \* the POST /bridge requests of a behaviour
          Redemption,    \* the /token requests of a behaviour
          TTL,           \* lifetime of a session: 300 s in authorize
          MaxTime        \* bound of the model: the clock stops there

ASSUME ConstantsOK ==
  /\ ValidTokens \subseteq Token
  /\ TTL \in Nat
  /\ MaxTime \in Nat

VARIABLES
  now,        \* time.time()
  store,      \* ServiceXBridgeProvider.store
  post,       \* where each POST /bridge request stands
  redemption, \* where each /token request stands
  createdAt,  \* history: when authorize created a session, None before
  minted,     \* history: the validation a registered code was made for
  granted     \* history: the access tokens handed out

vars == <<now, store, post, redemption, createdAt, minted, granted>>

Reply == {"not_found",   \* 404: session unknown or expired
          "completed",   \* 400: the session has already completed sign-in
          "empty",       \* 400: token is required
          "invalid",     \* 400: submit_token raised
          "expired",     \* 400: the session expired during validation
          "redirect"}    \* 302 with a code

PostState ==
  [stage : {"idle", "reading", "validating", "answered"},
   sid   : SessionId \cup {None},
   token : Token \cup {None},
   reply : Reply \cup {None},
   code  : AuthCode \cup {None}]

IdlePost == [stage |-> "idle", sid |-> None, token |-> None,
             reply |-> None, code |-> None]

RedemptionState ==
  [stage : {"idle", "loaded", "granted", "refused"},
   code  : AuthCode \cup {None}]

Mint == [sid : SessionId, token : Token]

ASSUME NoneIsDistinct == None \notin Reply \cup Mint \cup Nat

Grant == [by : Redemption, code : AuthCode, token : Token, at : Nat]

(***************************************************************************)
(* Types, and which fields of a request are set at which stage.            *)
(***************************************************************************)
TypeOK ==
  /\ now \in Nat
  /\ store \in Store
  /\ post \in [Post -> PostState]
  /\ redemption \in [Redemption -> RedemptionState]
  /\ createdAt \in [SessionId -> Nat \cup {None}]
  /\ minted \in [AuthCode -> Mint \cup {None}]
  /\ granted \subseteq Grant
  /\ \A p \in Post : /\ post[p].stage # "idle" => post[p].sid # None
                     /\ post[p].stage = "validating" => post[p].token # None
  /\ \A r \in Redemption : redemption[r].stage # "idle" => redemption[r].code # None

Init ==
  /\ now = 0
  /\ store = EmptyStore
  /\ post = [p \in Post |-> IdlePost]
  /\ redemption = [r \in Redemption |-> [stage |-> "idle", code |-> None]]
  /\ createdAt = [sid \in SessionId |-> None]
  /\ minted = [code \in AuthCode |-> None]
  /\ granted = {}

-------------------------------------------------------------------------------

Tick ==
  /\ now < MaxTime
  /\ now' = now + 1
  /\ UNCHANGED <<store, post, redemption, createdAt, minted, granted>>

(***************************************************************************)
(* GET /authorize: a session under a fresh id.                             *)
(***************************************************************************)
Authorize(sid) ==
  /\ createdAt[sid] = None
  /\ store' = Put(store, sid, NewSession(now + TTL), now)
  /\ createdAt' = [createdAt EXCEPT ![sid] = now]
  /\ UNCHANGED <<now, post, redemption, minted, granted>>

(***************************************************************************)
(* GET /bridge and session_counts: they only read, but every read sweeps.  *)
(* The page answered is the form or a 404.                                 *)
(***************************************************************************)
BridgeGet ==
  /\ store' = Evict(store, now)
  /\ UNCHANGED <<now, post, redemption, createdAt, minted, granted>>

SessionCounts ==
  /\ store' = Evict(store, now)
  /\ UNCHANGED <<now, post, redemption, createdAt, minted, granted>>

-------------------------------------------------------------------------------
(* POST /bridge                                                            *)

AnswerPost(p, reply, code) ==
  post' = [post EXCEPT ![p] = [@ EXCEPT !.stage = "answered",
                                        !.reply = reply, !.code = code]]

(***************************************************************************)
(* bridge_post up to `await request.form()`.  The link a user posts to is  *)
(* one that authorize gave out.                                            *)
(***************************************************************************)
PostArrives(p, sid) ==
  LET session == GetBySessionId(store, sid, now) IN
  /\ post[p].stage = "idle"
  /\ createdAt[sid] # None
  /\ store' = Evict(store, now)
  /\ post' = [post EXCEPT ![p] =
       IF session = None
       THEN [IdlePost EXCEPT !.stage = "answered", !.sid = sid, !.reply = "not_found"]
       ELSE IF session.status = "done"
       THEN [IdlePost EXCEPT !.stage = "answered", !.sid = sid, !.reply = "completed"]
       ELSE [IdlePost EXCEPT !.stage = "reading", !.sid = sid]]
  /\ UNCHANGED <<now, redemption, createdAt, minted, granted>>

(***************************************************************************)
(* The form is there.  token is None when the field is missing, blank or a *)
(* file; a read that raises ends the request as much without effect.       *)
(* submit_token looks the session up again and raises when it is    *)
(* gone; the status is not looked at again.                                *)
(***************************************************************************)
PostReadsForm(p, token) ==
  /\ post[p].stage = "reading"
  /\ \/ /\ token = None
        /\ AnswerPost(p, "empty", None)
        /\ UNCHANGED store
     \/ /\ token # None
        /\ store' = Evict(store, now)
        /\ \/ /\ GetBySessionId(store, post[p].sid, now) = None
              /\ AnswerPost(p, "invalid", None)
           \/ /\ GetBySessionId(store, post[p].sid, now) # None
              /\ post' = [post EXCEPT ![p] = [@ EXCEPT !.stage = "validating",
                                                       !.token = token]]
  /\ UNCHANGED <<now, redemption, createdAt, minted, granted>>

(***************************************************************************)
(* _get_authorization returned: submit_token makes a fresh code and marks  *)
(* the session, and bridge_post, without another suspension, looks the     *)
(* session up and redirects with the code it finds there.                  *)
(***************************************************************************)
ValidationSucceeds(p, code) ==
  LET sid    == post[p].sid
      token  == post[p].token
      marked == MarkDone(store, sid, token, code)
      session == GetBySessionId(marked, sid, now)
  IN
  /\ post[p].stage = "validating"
  /\ token \in ValidTokens
  /\ minted[code] = None
  /\ store' = Evict(marked, now)
  /\ minted' = IF store.by_session[sid] = None THEN minted
               ELSE [minted EXCEPT ![code] = [sid |-> sid, token |-> token]]
  /\ \/ /\ session = None
        /\ AnswerPost(p, "expired", None)
     \/ /\ session # None
        /\ AnswerPost(p, "redirect", session.auth_code)
  /\ UNCHANGED <<now, redemption, createdAt, granted>>

(***************************************************************************)
(* _get_authorization raised: a token ServiceX refuses, but also any other *)
(* failure of the call.                                                    *)
(***************************************************************************)
\* Mutant of ValidationFails: the exception is lost and the request hangs.
FailureNeverAnswered(p) ==
  /\ post[p].stage = "validating"
  /\ store' = MarkError(store, post[p].sid)
  /\ UNCHANGED <<now, post, redemption, createdAt, minted, granted>>

ValidationFails(p) ==
  /\ post[p].stage = "validating"
  /\ store' = MarkError(store, post[p].sid)
  /\ AnswerPost(p, "invalid", None)
  /\ UNCHANGED <<now, redemption, createdAt, minted, granted>>

-------------------------------------------------------------------------------
(* POST /token                                                             *)

(***************************************************************************)
(* The codes clients hold: those a redirect carried.  A client may present *)
(* one again, after a lost answer or by mistake.                           *)
(***************************************************************************)
DeliveredCodes == {post[p].code : p \in {q \in Post : post[q].reply = "redirect"}}

(***************************************************************************)
(* load_authorization_code: only the code of a done session is honoured.   *)
(***************************************************************************)
LoadAuthorizationCode(r, code) ==
  LET session == GetByAuthCode(store, code, now)
      ok      == session # None /\ session.status = "done"
  IN
  /\ redemption[r].stage = "idle"
  /\ code \in DeliveredCodes
  /\ store' = AfterGetByAuthCode(store, code, now)
  /\ redemption' = [redemption EXCEPT ![r] =
                      [stage |-> IF ok THEN "loaded" ELSE "refused", code |-> code]]
  /\ UNCHANGED <<now, post, createdAt, minted, granted>>

(***************************************************************************)
(* exchange_authorization_code: pop the session and hand its token out;    *)
(* the status is not looked at again.                                      *)
(***************************************************************************)
ExchangeAuthorizationCode(r) ==
  LET code    == redemption[r].code
      session == PopByAuthCode(store, code, now)
      ok      == session # None /\ session.servicex_token # None
  IN
  /\ redemption[r].stage = "loaded"
  /\ store' = AfterPopByAuthCode(store, code)
  /\ redemption' = [redemption EXCEPT ![r].stage = IF ok THEN "granted" ELSE "refused"]
  /\ granted' = IF ok
                THEN granted \cup {[by |-> r, code |-> code,
                                    token |-> session.servicex_token, at |-> now]}
                ELSE granted
  /\ UNCHANGED <<now, post, createdAt, minted>>

-------------------------------------------------------------------------------

PostAdvances(p) ==
  \/ \E token \in Token \cup {None} : PostReadsForm(p, token)
  \/ \E code \in AuthCode : ValidationSucceeds(p, code)
  \/ ValidationFails(p)

Next ==
  \/ Tick
  \/ \E sid \in SessionId : Authorize(sid)
  \/ BridgeGet
  \/ SessionCounts
  \/ \E p \in Post, sid \in SessionId : PostArrives(p, sid)
  \/ \E p \in Post : PostAdvances(p)
  \/ \E r \in Redemption, code \in AuthCode : LoadAuthorizationCode(r, code)
  \/ \E r \in Redemption : ExchangeAuthorizationCode(r)

Spec == Init /\ [][Next]_vars

(***************************************************************************)
(* The event loop resumes every suspended POST: its form arrives or the    *)
(* read raises, and the call to ServiceX returns or raises.  Nothing is    *)
(* assumed of users, clients or the clock.                                 *)
(***************************************************************************)
FairSpec == Spec /\ \A p \in Post : WF_vars(PostAdvances(p))
-------------------------------------------------------------------------------
(* Properties                                                              *)

(***************************************************************************)
(* The two dictionaries agree: a code leads to a session that exists and   *)
(* carries it, and a session's code leads back to it.  No method may leave *)
(* a dangling or a missing entry, whatever the order of marks, sweeps and  *)
(* pops (mark_done's docstring, bridge_state.py:102-105).                  *)
(***************************************************************************)
IndexConsistent == Consistent(store)

(***************************************************************************)
(* One sign-in yields at most one access token, however many POSTs race on *)
(* its page and however often /token is called with the codes they made    *)
(* (exchange_authorization_code: "popped atomically so the authorization   *)
(* code is single-use").                                                   *)
(***************************************************************************)
OneGrantPerSession ==
  \A g, h \in granted : minted[g.code].sid = minted[h.code].sid => g = h

(***************************************************************************)
(* A code redeems exactly the token whose validation minted it, and that   *)
(* is a token ServiceX accepted: a later POST on the same session never    *)
(* puts its token behind an earlier POST's code.                           *)
(***************************************************************************)
CodeRedeemsItsOwnToken ==
  \A g \in granted : /\ minted[g.code] # None
                     /\ minted[g.code].token = g.token
                     /\ g.token \in ValidTokens

(***************************************************************************)
(* No access token is handed out once the session's TTL, counted from      *)
(* authorize, is over: not even by a validation, or between the load and   *)
(* the exchange of a /token call, that outlasts it.                        *)
(***************************************************************************)
NoGrantAfterExpiry ==
  \A g \in granted : g.at < createdAt[minted[g.code].sid] + TTL

(***************************************************************************)
(* The redirect that answers a POST carries the code minted for that       *)
(* POST's own session and token, even when another POST completed the same *)
(* session meanwhile.                                                      *)
(***************************************************************************)
RedirectCarriesOwnCode ==
  \A p \in Post : post[p].reply = "redirect" =>
    /\ post[p].code # None
    /\ minted[post[p].code] # None
    /\ minted[post[p].code].sid = post[p].sid
    /\ minted[post[p].code].token = post[p].token

(***************************************************************************)
(* A sign-in nobody interfered with is honoured for its whole TTL: while   *)
(* no other POST on the session got as far as a verdict, and the code is   *)
(* not redeemed yet, load_authorization_code accepts the code.  Sweeps,    *)
(* other sessions and refused requests must not take it away.              *)
(***************************************************************************)
UndisturbedCodeIsHonoured ==
  \A p \in Post :
    LET sid == post[p].sid
        code == post[p].code
    IN (/\ post[p].reply = "redirect"
        /\ now < createdAt[sid] + TTL
        /\ \A g \in granted : g.code # code
        /\ \A q \in Post \ {p} :
             post[q].sid = sid => post[q].reply \notin {"redirect", "invalid"})
       => /\ GetByAuthCode(store, code, now) # None
          /\ GetByAuthCode(store, code, now).status = "done"

(***************************************************************************)
(* Every POST /bridge that started is answered: none of the early returns, *)
(* lookups after a suspension, or exceptions strands the request.          *)
(***************************************************************************)
EveryPostIsAnswered ==
  \A p \in Post : post[p].stage = "reading" ~> post[p].stage = "answered"

(***************************************************************************)
(* What bridge_post's comment and test_bridge_routes.py claim of the done  *)
(* check: once a session completed, a second, different token never        *)
(* overwrites its token/code pair.  Two POSTs that both passed the check   *)
(* before either completed refute it.                                      *)
(***************************************************************************)
CompletedSessionKeepsItsToken ==
  [][\A sid \in SessionId :
       LET old == store.by_session[sid]
           new == store'.by_session[sid]
       IN old # None /\ old.status = "done" /\ new # None =>
            new.servicex_token = old.servicex_token]_vars

(***************************************************************************)
(* The lifecycle in bridge_state.py's docstring: a session goes from       *)
(* pending to done or to error; done is final.  A slower POST whose token  *)
(* is refused refutes it.                                                  *)
(***************************************************************************)
DoneIsFinal ==
  [][\A sid \in SessionId :
       LET old == store.by_session[sid]
           new == store'.by_session[sid]
       IN old # None /\ old.status = "done" /\ new # None => new.status = "done"]_vars
-------------------------------------------------------------------------------
(* Refinement                                                              *)

Deadline == [sid \in SessionId |->
               IF createdAt[sid] = None THEN None ELSE createdAt[sid] + TTL]

LiveCodes == {code \in AuthCode : store.by_code[code] # None}

Abstract == INSTANCE CodeGrant
              WITH deadline <- Deadline, issued <- minted, live <- LiveCodes

(***************************************************************************)
(* The bridge implements CodeGrant: every handler step is a step of the    *)
(* promise or invisible to it.                                             *)
(***************************************************************************)
Promise == Abstract!Spec
===============================================================================

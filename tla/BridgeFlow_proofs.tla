-------------------------- MODULE BridgeFlow_proofs --------------------------
(***************************************************************************)
(* Proofs about the bridge store's operations and about BridgeFlow, for    *)
(* any sets of sessions, codes, tokens, requests and any TTL.              *)
(***************************************************************************)
EXTENDS BridgeFlow, TLAPS

(***************************************************************************)
(* Every store operation maps stores to stores.                            *)
(***************************************************************************)
LEMMA EvictType ==
  ASSUME NEW st \in Store, NEW t \in Nat
  PROVE  Evict(st, t) \in Store
BY DEF Evict, Store

(***************************************************************************)
(* put stores a session: the store stays a store.                          *)
(***************************************************************************)
LEMMA PutType ==
  ASSUME NEW st \in Store, NEW t \in Nat, NEW sid \in SessionId,
         NEW session \in BridgeSession
  PROVE  Put(st, sid, session, t) \in Store
BY EvictType DEF Put, Store

(***************************************************************************)
(* Dropping a code and its session leaves a store.                         *)
(***************************************************************************)
LEMMA DropCodeType ==
  ASSUME NEW st \in Store, NEW code \in AuthCode
  PROVE  DropCode(st, code) \in Store
BY DEF DropCode, Store

(***************************************************************************)
(* mark_done with any token and code leaves a store.                       *)
(***************************************************************************)
LEMMA MarkDoneType ==
  ASSUME NEW st \in Store, NEW sid \in SessionId, NEW token \in Token,
         NEW code \in AuthCode
  PROVE  MarkDone(st, sid, token, code) \in Store
<1>1. CASE st.by_session[sid] = None
  BY <1>1 DEF MarkDone
<1>2. CASE st.by_session[sid] # None
  <2> DEFINE s == [st.by_session[sid] EXCEPT !.status = "done",
                                             !.servicex_token = token,
                                             !.auth_code = code]
  <2>1. s \in BridgeSession
    BY <1>2 DEF Store, BridgeSession, Status
  <2>2. MarkDone(st, sid, token, code)
          = [by_session |-> [st.by_session EXCEPT ![sid] = s],
             by_code |-> [c \in AuthCode |->
                            IF c = code THEN sid
                            ELSE IF c = st.by_session[sid].auth_code THEN None
                            ELSE st.by_code[c]]]
    BY <1>2 DEF MarkDone
  <2> QED
    BY <2>1, <2>2 DEF Store
<1> QED
  BY <1>1, <1>2

(***************************************************************************)
(* mark_error leaves a store.                                              *)
(***************************************************************************)
LEMMA MarkErrorType ==
  ASSUME NEW st \in Store, NEW sid \in SessionId
  PROVE  MarkError(st, sid) \in Store
BY NoneIsNoValue DEF MarkError, Store, BridgeSession, Status

(***************************************************************************)
(* A look-up by code answers a session or None.                            *)
(***************************************************************************)
LEMMA GetType ==
  ASSUME NEW st \in Store, NEW t \in Nat, NEW code \in AuthCode
  PROVE  GetByAuthCode(st, code, t) \in BridgeSession \cup {None}
BY DEF GetByAuthCode, Store

(***************************************************************************)
(* Every store operation keeps the two dictionaries in agreement.  put     *)
(* needs the session to be new, mark_done the code to be new: a code drawn *)
(* twice would take the first session's index entry away.                  *)
(***************************************************************************)
LEMMA EvictConsistent ==
  ASSUME NEW st \in Store, NEW t \in Nat, Consistent(st)
  PROVE  Consistent(Evict(st, t))
<1> DEFINE new == Evict(st, t)
           Old(sid) == st.by_session[sid] # None /\ Expired(st.by_session[sid], t)
<1>1. ASSUME NEW sid \in SessionId
      PROVE  new.by_session[sid] = IF Old(sid) THEN None ELSE st.by_session[sid]
  BY DEF Evict
<1>2. ASSUME NEW code \in AuthCode
      PROVE  new.by_code[code] = IF \E sid \in SessionId : Old(sid) /\ Carries(st, sid, code)
                                 THEN None ELSE st.by_code[code]
  BY DEF Evict, Carries
<1>3. Consistent(new)
  <2> HIDE DEF new, Old
  <2> QED
    BY <1>1, <1>2, NoneIsNoValue DEF Consistent, Carries
<1> QED
  BY <1>3

(***************************************************************************)
(* put under an id not in the store, of a session without a code, keeps    *)
(* the two dictionaries in agreement.                                      *)
(***************************************************************************)
LEMMA PutConsistent ==
  ASSUME NEW st \in Store, NEW t \in Nat, NEW sid \in SessionId,
         NEW e \in Nat, st.by_session[sid] = None, Consistent(st)
  PROVE  Consistent(Put(st, sid, NewSession(e), t))
<1> DEFINE swept == Evict(st, t)
           new == Put(st, sid, NewSession(e), t)
<1>1. swept \in Store /\ Consistent(swept)
  BY EvictType, EvictConsistent
<1>2. swept.by_session[sid] = None
  BY DEF Evict, Store
<1>3. /\ new.by_code = swept.by_code
      /\ new.by_session[sid] = NewSession(e)
      /\ \A x \in SessionId \ {sid} : new.by_session[x] = swept.by_session[x]
  BY <1>1 DEF Put, Store
<1>4. NewSession(e).auth_code = None
  BY DEF NewSession
<1>5. Consistent(new)
  <2> HIDE DEF swept, new
  <2> QED
    BY <1>1, <1>2, <1>3, <1>4, NoneIsNoValue DEF Consistent, Carries
<1> QED
  BY <1>5

(***************************************************************************)
(* Dropping a code together with its session keeps them in agreement.      *)
(***************************************************************************)
LEMMA DropCodeConsistent ==
  ASSUME NEW st \in Store, NEW code \in AuthCode, Consistent(st)
  PROVE  Consistent(DropCode(st, code))
<1> DEFINE new == DropCode(st, code)
           owner == st.by_code[code]
<1>1. CASE owner = None
  BY <1>1 DEF DropCode
<1>2. CASE owner # None
  <2>1. owner \in SessionId
    BY <1>2 DEF Store
  <2>2. \A x \in SessionId : new.by_session[x] = IF x = owner THEN None
                                                 ELSE st.by_session[x]
    BY <1>2, <2>1 DEF DropCode, Store
  <2>3. \A c \in AuthCode : new.by_code[c] = IF c = code THEN None ELSE st.by_code[c]
    BY <1>2 DEF DropCode, Store
  <2>4. Consistent(new)
    <3> HIDE DEF new
    <3> QED
      BY <1>2, <2>1, <2>2, <2>3, NoneIsNoValue DEF Consistent, Carries
  <2> QED
    BY <2>4
<1> QED
  BY <1>1, <1>2

(***************************************************************************)
(* What each session is after mark_done: only the marked one changes.      *)
(***************************************************************************)
LEMMA MarkDoneSession ==
  ASSUME NEW st \in Store, NEW sid \in SessionId, NEW token \in Token, NEW code \in AuthCode
  PROVE  LET new == MarkDone(st, sid, token, code) IN
         /\ \A x \in SessionId \ {sid} : new.by_session[x] = st.by_session[x]
         /\ st.by_session[sid] = None => new = st
         /\ st.by_session[sid] # None =>
              /\ new.by_session[sid] # None
              /\ new.by_session[sid].status = "done"
              /\ new.by_session[sid].auth_code = code
              /\ new.by_session[sid].servicex_token = token
              /\ new.by_session[sid].expires_at = st.by_session[sid].expires_at
<1> DEFINE new == MarkDone(st, sid, token, code)
<1>1. CASE st.by_session[sid] = None
  BY <1>1 DEF MarkDone
<1>2. CASE st.by_session[sid] # None
  <2>1. \A x \in SessionId \ {sid} : new.by_session[x] = st.by_session[x]
    BY <1>2 DEF MarkDone, Store
  <2>2. new.by_session[sid] = [st.by_session[sid] EXCEPT !.status = "done",
                                                         !.servicex_token = token,
                                                         !.auth_code = code]
    BY <1>2 DEF MarkDone, Store
  <2>3. st.by_session[sid] \in BridgeSession
    BY <1>2 DEF Store
  <2>4. new.by_session[sid] # None
    <3> HIDE DEF new
    <3>1. new.by_session[sid] \in BridgeSession
      BY <2>2, <2>3 DEF BridgeSession, Status
    <3> QED
      BY <3>1, NoneIsNoValue
  <2>5. /\ new.by_session[sid].status = "done"
        /\ new.by_session[sid].auth_code = code
        /\ new.by_session[sid].servicex_token = token
        /\ new.by_session[sid].expires_at = st.by_session[sid].expires_at
    <3> HIDE DEF new
    <3> QED
      BY <2>2, <2>3 DEF BridgeSession
  <2> QED
    BY <1>2, <2>1, <2>4, <2>5
<1> QED
  BY <1>1, <1>2

(***************************************************************************)
(* mark_done with a code not in the index keeps the two dictionaries in    *)
(* agreement: the session's previous code leaves the index.                *)
(***************************************************************************)
LEMMA MarkDoneConsistent ==
  ASSUME NEW st \in Store, NEW sid \in SessionId, NEW token \in Token,
         NEW code \in AuthCode, Consistent(st), st.by_code[code] = None
  PROVE  Consistent(MarkDone(st, sid, token, code))
<1> DEFINE new == MarkDone(st, sid, token, code)
           old == st.by_session[sid].auth_code
<1>1. CASE st.by_session[sid] = None
  BY <1>1 DEF MarkDone
<1>2. CASE st.by_session[sid] # None
  <2>1. new.by_session[sid] # None /\ new.by_session[sid].auth_code = code
    BY <1>2, MarkDoneSession
  <2>2. \A x \in SessionId \ {sid} : new.by_session[x] = st.by_session[x]
    BY MarkDoneSession
  <2>3. \A c \in AuthCode : new.by_code[c] = IF c = code THEN sid
                                            ELSE IF c = old THEN None
                                            ELSE st.by_code[c]
    BY <1>2 DEF MarkDone
  <2>4. Consistent(new)
    <3> HIDE DEF new
    <3> QED
      BY <1>2, <2>1, <2>2, <2>3, NoneIsNoValue DEF Consistent, Carries
  <2> QED
    BY <2>4
<1> QED
  BY <1>1, <1>2

(***************************************************************************)
(* mark_error keeps them in agreement: code and index entry both stay.     *)
(***************************************************************************)
LEMMA MarkErrorConsistent ==
  ASSUME NEW st \in Store, NEW sid \in SessionId, Consistent(st)
  PROVE  Consistent(MarkError(st, sid))
<1> DEFINE new == MarkError(st, sid)
<1>1. CASE st.by_session[sid] = None
  BY <1>1 DEF MarkError
<1>2. CASE st.by_session[sid] # None
  <2>1. /\ new.by_session[sid] # None
        /\ new.by_session[sid].auth_code = st.by_session[sid].auth_code
    <3>1. new.by_session[sid] = [st.by_session[sid] EXCEPT !.status = "error"]
      BY <1>2 DEF MarkError, Store
    <3>2. st.by_session[sid] \in BridgeSession
      BY <1>2 DEF Store
    <3> HIDE DEF new
    <3>3. new.by_session[sid] \in BridgeSession
      BY <3>1, <3>2 DEF BridgeSession, Status
    <3> QED
      BY <3>1, <3>2, <3>3, NoneIsNoValue DEF BridgeSession
  <2>2. /\ new.by_code = st.by_code
        /\ \A x \in SessionId \ {sid} : new.by_session[x] = st.by_session[x]
    BY <1>2 DEF MarkError, Store
  <2>3. Consistent(new)
    <3> HIDE DEF new
    <3> QED
      BY <1>2, <2>1, <2>2 DEF Consistent, Carries
  <2> QED
    BY <2>3
<1> QED
  BY <1>1, <1>2

(***************************************************************************)
(* Type correctness of the sign-in flow.                                   *)
(***************************************************************************)
LEMMA TypeInit == Init => TypeOK
BY ConstantsOK DEF Init, TypeOK, EmptyStore, Store, PostState, IdlePost, RedemptionState

(***************************************************************************)
(* Answering a POST keeps the types of the requests.                       *)
(***************************************************************************)
LEMMA AnswerType ==
  ASSUME TypeOK, NEW p \in Post, NEW reply \in Reply, NEW code \in AuthCode \cup {None},
         post[p].stage # "idle", AnswerPost(p, reply, code)
  PROVE  /\ post' \in [Post -> PostState]
         /\ \A q \in Post : /\ post'[q].stage # "idle" => post'[q].sid # None
                            /\ post'[q].stage = "validating" => post'[q].token # None
BY ZenonT(60) DEF TypeOK, PostState, AnswerPost

(***************************************************************************)
(* Every handler step keeps the types.                                     *)
(***************************************************************************)
LEMMA TypeStep == TypeOK /\ [Next]_vars => TypeOK'
<1> SUFFICES ASSUME TypeOK, [Next]_vars PROVE TypeOK'
  OBVIOUS
<1> USE NoneIsNoValue
<1>1. CASE Tick
  BY <1>1 DEF Tick, TypeOK
<1>2. ASSUME NEW sid \in SessionId, Authorize(sid) PROVE TypeOK'
  <2>1. now + TTL \in Nat
    BY ConstantsOK DEF TypeOK
  <2>2. NewSession(now + TTL) \in BridgeSession
    BY <2>1 DEF NewSession, BridgeSession, Status
  <2>3. store' \in Store
    BY <1>2, <2>2, PutType DEF Authorize, TypeOK
  <2> QED
    BY <1>2, <2>3 DEF Authorize, TypeOK
<1>3. CASE BridgeGet
  BY <1>3, EvictType DEF BridgeGet, TypeOK
<1>4. CASE SessionCounts
  BY <1>4, EvictType DEF SessionCounts, TypeOK
<1>5. ASSUME NEW p \in Post, NEW sid \in SessionId, PostArrives(p, sid) PROVE TypeOK'
  <2>1. store' \in Store
    BY <1>5, EvictType DEF PostArrives, TypeOK
  <2>2. /\ post' \in [Post -> PostState]
        /\ \A q \in Post : /\ post'[q].stage # "idle" => post'[q].sid # None
                           /\ post'[q].stage = "validating" => post'[q].token # None
    BY <1>5 DEF PostArrives, TypeOK, PostState, IdlePost, Reply
  <2> QED
    BY <1>5, <2>1, <2>2 DEF PostArrives, TypeOK
<1>6. ASSUME NEW p \in Post, NEW token \in Token \cup {None}, PostReadsForm(p, token)
      PROVE TypeOK'
  <2>1. store' \in Store
    BY <1>6, EvictType DEF PostReadsForm, TypeOK
  <2>2. /\ post' \in [Post -> PostState]
        /\ \A q \in Post : /\ post'[q].stage # "idle" => post'[q].sid # None
                           /\ post'[q].stage = "validating" => post'[q].token # None
    <3>1. CASE AnswerPost(p, "empty", None) \/ AnswerPost(p, "invalid", None)
      BY <1>6, <3>1, AnswerType DEF PostReadsForm, Reply
    <3>2. CASE /\ token # None
               /\ post' = [post EXCEPT ![p] = [@ EXCEPT !.stage = "validating",
                                                        !.token = token]]
      <4> DEFINE new == [post[p] EXCEPT !.stage = "validating", !.token = token]
      <4>1. new \in PostState /\ new.sid = post[p].sid /\ new.token = token
        BY DEF TypeOK, PostState
      <4>2. post[p].sid # None
        BY <1>6 DEF PostReadsForm, TypeOK
      <4>3. post' = [post EXCEPT ![p] = new]
        BY <3>2
      <4> HIDE DEF new
      <4> QED
        BY <3>2, <4>1, <4>2, <4>3 DEF TypeOK
    <3> QED
      BY <1>6, <3>1, <3>2 DEF PostReadsForm
  <2> QED
    BY <1>6, <2>1, <2>2 DEF PostReadsForm, TypeOK
<1>7. ASSUME NEW p \in Post, NEW code \in AuthCode, ValidationSucceeds(p, code)
      PROVE TypeOK'
  <2> DEFINE sid == post[p].sid
             token == post[p].token
             marked == MarkDone(store, sid, token, code)
             session == GetBySessionId(marked, sid, now)
  <2>1. token \in Token /\ sid \in SessionId
    BY <1>7, ConstantsOK DEF ValidationSucceeds, TypeOK, PostState
  <2>2. marked \in Store
    BY <2>1, MarkDoneType DEF TypeOK
  <2>3. store' \in Store
    BY <1>7, <2>2, EvictType DEF ValidationSucceeds, TypeOK
  <2>4. session \in BridgeSession \cup {None}
    BY <2>1, <2>2, EvictType DEF GetBySessionId, TypeOK, Store
  <2>5. minted' \in [AuthCode -> Mint \cup {None}]
    BY <1>7, <2>1 DEF ValidationSucceeds, TypeOK, Mint
  <2>6. /\ post' \in [Post -> PostState]
        /\ \A q \in Post : /\ post'[q].stage # "idle" => post'[q].sid # None
                           /\ post'[q].stage = "validating" => post'[q].token # None
    <3>1. CASE AnswerPost(p, "expired", None)
      BY <1>7, <3>1, AnswerType DEF ValidationSucceeds, Reply
    <3>2. CASE session # None /\ AnswerPost(p, "redirect", session.auth_code)
      <4>1. session.auth_code \in AuthCode \cup {None}
        BY <2>4, <3>2 DEF BridgeSession
      <4> QED
        BY <1>7, <3>2, <4>1, AnswerType DEF ValidationSucceeds, Reply
    <3> QED
      BY <1>7, <3>1, <3>2 DEF ValidationSucceeds
  <2> QED
    BY <1>7, <2>3, <2>5, <2>6 DEF ValidationSucceeds, TypeOK
<1>8. ASSUME NEW p \in Post, ValidationFails(p) PROVE TypeOK'
  <2>1. post[p].sid \in SessionId
    BY <1>8 DEF ValidationFails, TypeOK, PostState
  <2>2. store' \in Store
    BY <1>8, <2>1, MarkErrorType DEF ValidationFails, TypeOK
  <2>3. /\ post' \in [Post -> PostState]
        /\ \A q \in Post : /\ post'[q].stage # "idle" => post'[q].sid # None
                           /\ post'[q].stage = "validating" => post'[q].token # None
    BY <1>8, AnswerType DEF ValidationFails, Reply
  <2> QED
    BY <1>8, <2>2, <2>3 DEF ValidationFails, TypeOK
<1>9. ASSUME NEW r \in Redemption, NEW code \in AuthCode, LoadAuthorizationCode(r, code)
      PROVE TypeOK'
  <2>1. store' \in Store
    BY <1>9, DropCodeType DEF LoadAuthorizationCode, AfterGetByAuthCode, TypeOK
  <2> QED
    BY <1>9, <2>1 DEF LoadAuthorizationCode, TypeOK, RedemptionState
<1>10. ASSUME NEW r \in Redemption, ExchangeAuthorizationCode(r) PROVE TypeOK'
  <2> DEFINE code == redemption[r].code
             session == PopByAuthCode(store, code, now)
             ok == session # None /\ session.servicex_token # None
  <2>1. code \in AuthCode
    BY <1>10 DEF ExchangeAuthorizationCode, TypeOK, RedemptionState
  <2>2. store' \in Store
    BY <1>10, <2>1, DropCodeType DEF ExchangeAuthorizationCode, AfterPopByAuthCode, TypeOK
  <2>3. ok => session.servicex_token \in Token
    BY <2>1, GetType DEF PopByAuthCode, BridgeSession, TypeOK
  <2>4. granted' \subseteq Grant
    BY <1>10, <2>1, <2>3 DEF ExchangeAuthorizationCode, TypeOK, Grant
  <2>5. /\ redemption' \in [Redemption -> RedemptionState]
        /\ \A q \in Redemption : redemption'[q].stage # "idle" => redemption'[q].code # None
    BY <1>10 DEF ExchangeAuthorizationCode, TypeOK, RedemptionState
  <2> QED
    BY <1>10, <2>2, <2>4, <2>5 DEF ExchangeAuthorizationCode, TypeOK
<1>11. CASE UNCHANGED vars
  BY <1>11 DEF vars, TypeOK
<1> QED
  BY <1>1, <1>2, <1>3, <1>4, <1>5, <1>6, <1>7, <1>8, <1>9, <1>10, <1>11
  DEF Next, PostAdvances

(***************************************************************************)
(* In every reachable state the store, the requests and the history have   *)
(* their types, a started POST names its session, and a POST that          *)
(* validates has its token.                                                *)
(***************************************************************************)
THEOREM TypeCorrect == Spec => []TypeOK
BY TypeInit, TypeStep, PTL DEF Spec

(***************************************************************************)
(* The inductive invariant.  The history variables tie what the store      *)
(* holds to how it came there: a session stored was created by authorize   *)
(* and expires TTL later; its code, if any, was minted for its session and *)
(* its current token; a session that was redeemed is gone for good.        *)
(***************************************************************************)
SessionsAreCreated ==
  \A sid \in SessionId : store.by_session[sid] # None =>
    /\ createdAt[sid] # None
    /\ store.by_session[sid].expires_at = createdAt[sid] + TTL

CodesAreMinted ==
  \A sid \in SessionId : store.by_session[sid] # None =>
    LET s == store.by_session[sid] IN
    /\ s.servicex_token # None <=> s.auth_code # None
    /\ s.auth_code # None => /\ minted[s.auth_code] # None
                             /\ minted[s.auth_code].sid = sid
                             /\ minted[s.auth_code].token = s.servicex_token

MintsAreValidated ==
  \A code \in AuthCode : minted[code] # None =>
    /\ createdAt[minted[code].sid] # None
    /\ minted[code].token \in ValidTokens

GrantsEndSessions ==
  \A g \in granted :
    /\ minted[g.code] # None
    /\ minted[g.code].token = g.token
    /\ store.by_session[minted[g.code].sid] = None
    /\ g.at < createdAt[minted[g.code].sid] + TTL

PostsNameSessions ==
  \A p \in Post : /\ post[p].stage # "idle" => createdAt[post[p].sid] # None
                  /\ post[p].reply = "redirect" => post[p].stage = "answered"

IInv ==
  /\ TypeOK
  /\ IndexConsistent
  /\ SessionsAreCreated
  /\ CodesAreMinted
  /\ MintsAreValidated
  /\ GrantsEndSessions
  /\ OneGrantPerSession
  /\ PostsNameSessions
  /\ RedirectCarriesOwnCode

(***************************************************************************)
(* The inductive invariant holds before the first request.                 *)
(***************************************************************************)
LEMMA IInvInit == Init => IInv
<1> SUFFICES ASSUME Init PROVE IInv
  OBVIOUS
<1>1. TypeOK
  BY TypeInit
<1>2. IndexConsistent
  BY NoneIsNoValue DEF Init, EmptyStore, IndexConsistent, Consistent, Carries
<1>3. SessionsAreCreated /\ CodesAreMinted /\ MintsAreValidated
  BY DEF Init, EmptyStore, SessionsAreCreated, CodesAreMinted, MintsAreValidated
<1>4. GrantsEndSessions /\ OneGrantPerSession
  BY DEF Init, GrantsEndSessions, OneGrantPerSession
<1>5. PostsNameSessions /\ RedirectCarriesOwnCode
  BY NoneIsDistinct DEF Init, IdlePost, PostsNameSessions, RedirectCarriesOwnCode, Reply
<1> QED
  BY <1>1, <1>2, <1>3, <1>4, <1>5 DEF IInv

(***************************************************************************)
(* Sweeps and lookups only remove sessions.  Such a step keeps every part  *)
(* of the invariant that relates the store to the history.                 *)
(***************************************************************************)
Shrinks(old, new) ==
  \A sid \in SessionId : new.by_session[sid] \in {None, old.by_session[sid]}

(***************************************************************************)
(* A sweep only removes sessions and index entries.                        *)
(***************************************************************************)
LEMMA EvictShrinks ==
  ASSUME NEW st \in Store, NEW t \in Nat
  PROVE  Shrinks(st, Evict(st, t))
BY DEF Evict, Shrinks, Store

(***************************************************************************)
(* Dropping a code only removes.                                           *)
(***************************************************************************)
LEMMA DropCodeShrinks ==
  ASSUME NEW st \in Store, NEW code \in AuthCode
  PROVE  Shrinks(st, DropCode(st, code))
BY DEF DropCode, Shrinks, Store

(***************************************************************************)
(* A step that only removes from the store, and adds no session, code or   *)
(* grant, keeps what the invariant says of sessions and codes.             *)
(***************************************************************************)
LEMMA ShrinkKeepsHistory ==
  ASSUME IInv, TypeOK', Shrinks(store, store'), UNCHANGED <<createdAt, minted>>
  PROVE  /\ SessionsAreCreated'
         /\ CodesAreMinted'
         /\ MintsAreValidated'
         /\ UNCHANGED granted => GrantsEndSessions' /\ OneGrantPerSession'
<1>1. SessionsAreCreated'
  BY DEF IInv, Shrinks, SessionsAreCreated
<1>2. CodesAreMinted'
  BY DEF IInv, Shrinks, CodesAreMinted
<1>3. MintsAreValidated'
  BY DEF IInv, MintsAreValidated
<1>4. ASSUME UNCHANGED granted PROVE GrantsEndSessions' /\ OneGrantPerSession'
  <2>1. GrantsEndSessions'
    <3> SUFFICES ASSUME NEW g \in granted
        PROVE  /\ minted[g.code] # None
               /\ minted[g.code].token = g.token
               /\ store'.by_session[minted[g.code].sid] = None
               /\ g.at < createdAt[minted[g.code].sid] + TTL
      BY <1>4 DEF GrantsEndSessions
    <3>1. minted[g.code].sid \in SessionId
      BY DEF IInv, TypeOK, GrantsEndSessions, Grant, Mint
    <3> QED
      BY <3>1 DEF IInv, Shrinks, GrantsEndSessions
  <2>2. OneGrantPerSession'
    BY <1>4 DEF IInv, OneGrantPerSession
  <2> QED
    BY <2>1, <2>2
<1> QED
  BY <1>1, <1>2, <1>3, <1>4

(***************************************************************************)
(* What a look-up by code answers is the session stored under the indexed  *)
(* id, unexpired and carrying that code.                                   *)
(***************************************************************************)
LEMMA LookupIsStored ==
  ASSUME NEW st \in Store, NEW code \in AuthCode, NEW t \in Nat, Consistent(st),
         GetByAuthCode(st, code, t) # None
  PROVE  \E sid \in SessionId :
           /\ st.by_code[code] = sid
           /\ st.by_session[sid] = GetByAuthCode(st, code, t)
           /\ st.by_session[sid].auth_code = code
           /\ t < st.by_session[sid].expires_at
<1> DEFINE sid == st.by_code[code]
<1>1. /\ sid # None
      /\ st.by_session[sid] # None
      /\ ~Expired(st.by_session[sid], t)
      /\ st.by_session[sid] = GetByAuthCode(st, code, t)
  BY DEF GetByAuthCode
<1>2. sid \in SessionId /\ st.by_session[sid] \in BridgeSession
  BY <1>1 DEF Store
<1>3. t < st.by_session[sid].expires_at
  BY <1>1, <1>2 DEF Expired, BridgeSession
<1> QED
  BY <1>1, <1>2, <1>3 DEF Consistent, Carries

(***************************************************************************)
(* The invariant is inductive: one lemma per kind of step.                 *)
(***************************************************************************)
LEMMA AuthorizeKeepsIInv ==
  ASSUME IInv, TypeOK', NEW sid \in SessionId, Authorize(sid)
  PROVE  IInv'
<1> USE NoneIsNoValue, NoneIsDistinct
<1> DEFINE swept == Evict(store, now)
           new == NewSession(now + TTL)
<1>1. /\ TypeOK
      /\ now \in Nat
      /\ now + TTL \in Nat
      /\ swept \in Store
      /\ Shrinks(store, swept)
  BY ConstantsOK, EvictType, EvictShrinks DEF IInv, TypeOK
<1>2. store.by_session[sid] = None
  BY DEF Authorize, IInv, SessionsAreCreated
<1>3. /\ store'.by_session[sid] = new
      /\ \A x \in SessionId \ {sid} : store'.by_session[x] \in {None, store.by_session[x]}
  BY <1>1 DEF Authorize, Put, Store, Shrinks
<1>4. /\ createdAt'[sid] = now
      /\ \A x \in SessionId \ {sid} : createdAt'[x] = createdAt[x]
      /\ \A x \in SessionId : createdAt[x] # None => createdAt'[x] = createdAt[x]
  BY <1>1 DEF Authorize, TypeOK
<1>5. new.auth_code = None /\ new.servicex_token = None /\ new.expires_at = now + TTL
  BY DEF NewSession
<1>6. IndexConsistent'
  BY <1>1, <1>2, PutConsistent DEF Authorize, IInv, TypeOK, IndexConsistent
<1> HIDE DEF swept, new
<1>7. SessionsAreCreated'
  BY <1>1, <1>3, <1>4, <1>5 DEF IInv, SessionsAreCreated
<1>8. CodesAreMinted'
  <2>1. UNCHANGED minted
    BY DEF Authorize
  <2> QED
    BY <2>1, <1>3, <1>5 DEF IInv, CodesAreMinted
<1>9. MintsAreValidated'
  BY <1>1, <1>4 DEF Authorize, IInv, MintsAreValidated, TypeOK, Mint
<1>10. GrantsEndSessions'
  <2> SUFFICES ASSUME NEW g \in granted
      PROVE  /\ minted[g.code] # None
             /\ minted[g.code].token = g.token
             /\ store'.by_session[minted[g.code].sid] = None
             /\ g.at < createdAt'[minted[g.code].sid] + TTL
    BY DEF Authorize, GrantsEndSessions
  <2>1. minted[g.code] \in Mint /\ g.code \in AuthCode
    BY DEF IInv, TypeOK, GrantsEndSessions, Grant
  <2>2. minted[g.code].sid \in SessionId /\ createdAt[minted[g.code].sid] # None
    BY <2>1 DEF IInv, MintsAreValidated, Mint
  <2>3. minted[g.code].sid # sid
    BY <2>2 DEF Authorize
  <2> QED
    BY <2>2, <2>3, <1>3, <1>4 DEF IInv, GrantsEndSessions
<1>11. OneGrantPerSession' /\ RedirectCarriesOwnCode'
  BY DEF Authorize, IInv, OneGrantPerSession, RedirectCarriesOwnCode
<1>12. PostsNameSessions'
  BY <1>1, <1>4 DEF Authorize, IInv, PostsNameSessions, TypeOK, PostState
<1> QED
  BY <1>6, <1>7, <1>8, <1>9, <1>10, <1>11, <1>12 DEF IInv

(***************************************************************************)
(* A read that sweeps keeps the invariant (bridge_get, session_counts).    *)
(***************************************************************************)
LEMMA SweepKeepsIInv ==
  ASSUME IInv, TypeOK', store' = Evict(store, now),
         UNCHANGED <<createdAt, minted, granted>>,
         PostsNameSessions', RedirectCarriesOwnCode'
  PROVE  IInv'
<1>1. Shrinks(store, store') /\ IndexConsistent'
  BY EvictShrinks, EvictConsistent DEF IInv, TypeOK, IndexConsistent
<1> QED
  BY <1>1, ShrinkKeepsHistory DEF IInv

(***************************************************************************)
(* The first part of bridge_post keeps the invariant.                      *)
(***************************************************************************)
LEMMA PostArrivesKeepsIInv ==
  ASSUME IInv, TypeOK', NEW p \in Post, NEW sid \in SessionId, PostArrives(p, sid)
  PROVE  IInv'
<1>1. /\ \A q \in Post \ {p} : post'[q] = post[q]
      /\ post'[p].sid = sid
      /\ post'[p].reply # "redirect"
  BY NoneIsDistinct DEF PostArrives, IInv, TypeOK, IdlePost, Reply
<1>2. PostsNameSessions'
  BY <1>1 DEF PostArrives, IInv, PostsNameSessions
<1>3. RedirectCarriesOwnCode'
  BY <1>1 DEF PostArrives, IInv, RedirectCarriesOwnCode
<1> QED
  BY <1>2, <1>3, SweepKeepsIInv DEF PostArrives

(***************************************************************************)
(* A reply other than a redirect changes nothing the invariant speaks of.  *)
(***************************************************************************)
LEMMA RefusalKeepsPosts ==
  ASSUME IInv, NEW p \in Post, NEW reply \in Reply \ {"redirect"},
         post[p].stage # "idle", AnswerPost(p, reply, None),
         UNCHANGED createdAt,
         \A code \in AuthCode : minted[code] # None => minted'[code] = minted[code]
  PROVE  PostsNameSessions' /\ RedirectCarriesOwnCode'
<1>1. /\ \A q \in Post \ {p} : post'[q] = post[q]
      /\ post'[p].sid = post[p].sid
      /\ post'[p].stage = "answered"
      /\ post'[p].reply = reply
  BY DEF AnswerPost, IInv, TypeOK, PostState
<1>2. PostsNameSessions'
  BY <1>1 DEF IInv, PostsNameSessions
<1>3. RedirectCarriesOwnCode'
  <2> SUFFICES ASSUME NEW q \in Post, post'[q].reply = "redirect"
      PROVE  /\ post'[q].code # None
             /\ minted'[post'[q].code] # None
             /\ minted'[post'[q].code].sid = post'[q].sid
             /\ minted'[post'[q].code].token = post'[q].token
    BY DEF RedirectCarriesOwnCode
  <2>1. q # p /\ post'[q] = post[q]
    BY <1>1
  <2>2. post[q].code \in AuthCode /\ minted[post[q].code] # None
    BY <2>1 DEF IInv, TypeOK, PostState, RedirectCarriesOwnCode
  <2> QED
    BY <2>1, <2>2 DEF IInv, RedirectCarriesOwnCode
<1> QED
  BY <1>2, <1>3

(***************************************************************************)
(* Reading the form and looking the session up again keeps the invariant.  *)
(***************************************************************************)
LEMMA PostReadsFormKeepsIInv ==
  ASSUME IInv, TypeOK', NEW p \in Post, NEW token \in Token \cup {None},
         PostReadsForm(p, token)
  PROVE  IInv'
<1>1. post[p].stage # "idle" /\ UNCHANGED <<createdAt, minted, granted>>
  BY DEF PostReadsForm
<1>2. PostsNameSessions' /\ RedirectCarriesOwnCode'
  <2>1. CASE AnswerPost(p, "empty", None) \/ AnswerPost(p, "invalid", None)
    BY <1>1, <2>1, RefusalKeepsPosts DEF Reply
  <2>2. CASE post' = [post EXCEPT ![p] = [@ EXCEPT !.stage = "validating", !.token = token]]
    <3>1. /\ \A q \in Post \ {p} : post'[q] = post[q]
          /\ post'[p].sid = post[p].sid
          /\ post'[p].reply = post[p].reply
      BY <2>2 DEF IInv, TypeOK, PostState
    <3>2. post[p].reply # "redirect"
      BY DEF PostReadsForm, IInv, PostsNameSessions
    <3> QED
      BY <1>1, <3>1, <3>2 DEF IInv, PostsNameSessions, RedirectCarriesOwnCode
  <2> QED
    BY <2>1, <2>2 DEF PostReadsForm
<1>3. CASE UNCHANGED store
  <2>1. Shrinks(store, store') /\ IndexConsistent'
    BY <1>3 DEF Shrinks, IInv, IndexConsistent
  <2> QED
    BY <1>1, <1>2, <2>1, ShrinkKeepsHistory DEF IInv
<1>4. CASE store' = Evict(store, now)
  BY <1>1, <1>2, <1>4, SweepKeepsIInv
<1> QED
  BY <1>3, <1>4 DEF PostReadsForm

(***************************************************************************)
(* Marking a session done, for a first or a later time or after it is      *)
(* gone, keeps the invariant: the fresh code is the only one the session   *)
(* carries.                                                                *)
(***************************************************************************)
LEMMA ValidationSucceedsKeepsIInv ==
  ASSUME IInv, TypeOK', NEW p \in Post, NEW code \in AuthCode, ValidationSucceeds(p, code)
  PROVE  IInv'
<1> USE NoneIsNoValue, NoneIsDistinct
<1> DEFINE sid == post[p].sid
           token == post[p].token
           marked == MarkDone(store, sid, token, code)
           session == GetBySessionId(marked, sid, now)
           mint == [sid |-> sid, token |-> token]
<1>1. /\ TypeOK
      /\ sid \in SessionId
      /\ token \in Token /\ token \in ValidTokens
      /\ createdAt[sid] # None
      /\ minted[code] = None
      /\ post[p].stage = "validating"
      /\ UNCHANGED <<now, redemption, createdAt, granted>>
  BY ConstantsOK DEF IInv, ValidationSucceeds, TypeOK, PostState, PostsNameSessions
<1>2. mint \in Mint /\ mint # None
  BY <1>1 DEF Mint
<1>3. marked \in Store
  BY <1>1, MarkDoneType DEF TypeOK
<1>4. store' = Evict(marked, now) /\ store' \in Store /\ Shrinks(marked, store')
  BY <1>1, <1>3, EvictType, EvictShrinks DEF ValidationSucceeds, TypeOK
<1>5. store.by_code[code] = None
  <2>1. ASSUME NEW x \in SessionId PROVE ~Carries(store, x, code)
    BY <1>1, <1>2 DEF IInv, CodesAreMinted, Carries, TypeOK, Mint
  <2> QED
    BY <1>1, <2>1 DEF IInv, IndexConsistent, Consistent, TypeOK, Store
<1>6. IndexConsistent'
  <2>1. Consistent(marked)
    BY <1>1, <1>5, MarkDoneConsistent DEF IInv, IndexConsistent, TypeOK
  <2> QED
    BY <1>1, <1>3, <1>4, <2>1, EvictConsistent DEF TypeOK, IndexConsistent
<1>7. /\ \A x \in SessionId \ {sid} : marked.by_session[x] = store.by_session[x]
      /\ store.by_session[sid] = None => marked = store /\ minted' = minted
      /\ store.by_session[sid] # None =>
           /\ marked.by_session[sid].status = "done"
           /\ marked.by_session[sid].auth_code = code
           /\ marked.by_session[sid].servicex_token = token
           /\ marked.by_session[sid].expires_at = store.by_session[sid].expires_at
           /\ minted' = [minted EXCEPT ![code] = mint]
  BY <1>1, MarkDoneSession DEF ValidationSucceeds, TypeOK
<1>8. \A c \in AuthCode : minted[c] # None => minted'[c] = minted[c]
  BY <1>1, <1>7 DEF TypeOK
<1>9. SessionsAreCreated'
  BY <1>1, <1>4, <1>7 DEF IInv, SessionsAreCreated, Shrinks
<1>10. CodesAreMinted'
  <2> SUFFICES ASSUME NEW x \in SessionId, store'.by_session[x] # None
      PROVE  LET s == store'.by_session[x] IN
             /\ s.servicex_token # None <=> s.auth_code # None
             /\ s.auth_code # None => /\ minted'[s.auth_code] # None
                                      /\ minted'[s.auth_code].sid = x
                                      /\ minted'[s.auth_code].token = s.servicex_token
    BY DEF CodesAreMinted
  <2>1. store'.by_session[x] = marked.by_session[x] /\ marked.by_session[x] # None
    BY <1>4 DEF Shrinks
  <2>2. CASE x = sid /\ store.by_session[sid] # None
    <3>1. store'.by_session[x].auth_code = code /\ store'.by_session[x].servicex_token = token
      BY <1>7, <2>1, <2>2
    <3>2. code # None /\ token # None
      BY <1>1
    <3>3. minted'[code] = mint
      BY <1>1, <1>7, <2>2 DEF TypeOK
    <3>4. mint.sid = x /\ mint.token = token
      BY <2>2
    <3> HIDE DEF mint, token, sid
    <3> QED
      BY Zenon, <1>2, <3>1, <3>2, <3>3, <3>4
  <2>3. CASE x # sid \/ store.by_session[sid] = None
    <3>1. store'.by_session[x] = store.by_session[x]
      BY <1>7, <2>1, <2>3
    <3>2. store.by_session[x].auth_code \in AuthCode \cup {None}
      BY <1>1, <2>1, <3>1 DEF TypeOK, Store, BridgeSession
    <3> QED
      BY <1>8, <2>1, <3>1, <3>2 DEF IInv, CodesAreMinted
  <2> QED
    BY <2>2, <2>3
<1>11. MintsAreValidated'
  BY <1>1, <1>2, <1>7 DEF IInv, MintsAreValidated, TypeOK
<1>12. \A g \in granted : g.code \in AuthCode /\ minted[g.code] # None
  BY <1>1 DEF IInv, TypeOK, GrantsEndSessions, Grant
<1>13. GrantsEndSessions'
  <2> SUFFICES ASSUME NEW g \in granted
      PROVE  /\ minted'[g.code] # None
             /\ minted'[g.code].token = g.token
             /\ store'.by_session[minted'[g.code].sid] = None
             /\ g.at < createdAt[minted'[g.code].sid] + TTL
    BY <1>1 DEF GrantsEndSessions
  <2>1. /\ minted'[g.code] = minted[g.code]
        /\ minted[g.code].sid \in SessionId
        /\ store.by_session[minted[g.code].sid] = None
    BY <1>1, <1>8, <1>12 DEF IInv, TypeOK, GrantsEndSessions, Mint
  <2>2. marked.by_session[minted[g.code].sid] = None
    BY <1>7, <2>1
  <2> QED
    BY <1>4, <2>1, <2>2 DEF IInv, GrantsEndSessions, Shrinks
<1>14. OneGrantPerSession'
  BY <1>1, <1>8, <1>12 DEF IInv, OneGrantPerSession
<1>15. PostsNameSessions' /\ RedirectCarriesOwnCode'
  <2>1. CASE AnswerPost(p, "expired", None)
    BY <1>1, <1>8, <2>1, RefusalKeepsPosts DEF Reply
  <2>2. CASE session # None /\ AnswerPost(p, "redirect", session.auth_code)
    <3>1. /\ session = marked.by_session[sid]
          /\ store.by_session[sid] # None
      <4>1. Shrinks(marked, Evict(marked, now))
        BY <1>1, <1>3, EvictShrinks DEF TypeOK
      <4>2. session = Evict(marked, now).by_session[sid]
        BY DEF GetBySessionId
      <4> HIDE DEF session, marked, sid
      <4>3. session = marked.by_session[sid] /\ session # None
        BY <1>1, <2>2, <4>1, <4>2 DEF Shrinks
      <4>4. store.by_session[sid] = None => marked = store
        BY <1>7
      <4> QED
        BY Zenon, <4>3, <4>4
    <3>2. session.auth_code = code
      BY <1>7, <3>1
    <3>3. /\ \A q \in Post \ {p} : post'[q] = post[q]
          /\ post'[p].stage = "answered"
          /\ post'[p].sid = sid
          /\ post'[p].token = token
          /\ post'[p].code = code
      BY <1>1, <2>2, <3>2 DEF AnswerPost, TypeOK, PostState
    <3>4. PostsNameSessions'
      BY <1>1, <3>3 DEF IInv, PostsNameSessions
    <3>5. RedirectCarriesOwnCode'
      <4> SUFFICES ASSUME NEW q \in Post, post'[q].reply = "redirect"
          PROVE  /\ post'[q].code # None
                 /\ minted'[post'[q].code] # None
                 /\ minted'[post'[q].code].sid = post'[q].sid
                 /\ minted'[post'[q].code].token = post'[q].token
        BY DEF RedirectCarriesOwnCode
      <4>1. CASE q = p
        BY <1>1, <1>2, <1>7, <3>1, <3>3, <4>1 DEF TypeOK
      <4>2. CASE q # p
        <5>1. post'[q] = post[q]
          BY <3>3, <4>2
        <5>2. post[q].code \in AuthCode /\ minted[post[q].code] # None
          BY <1>1, <5>1 DEF IInv, TypeOK, PostState, RedirectCarriesOwnCode
        <5> QED
          BY <1>8, <5>1, <5>2 DEF IInv, RedirectCarriesOwnCode
      <4> QED
        BY <4>1, <4>2
    <3> QED
      BY <3>4, <3>5
  <2> QED
    BY <2>1, <2>2 DEF ValidationSucceeds
<1> QED
  BY <1>6, <1>9, <1>10, <1>11, <1>13, <1>14, <1>15 DEF IInv

(***************************************************************************)
(* What each session is after mark_error: only a status changes.           *)
(***************************************************************************)
LEMMA MarkErrorSession ==
  ASSUME NEW st \in Store, NEW sid \in SessionId
  PROVE  LET new == MarkError(st, sid) IN
         /\ \A x \in SessionId \ {sid} : new.by_session[x] = st.by_session[x]
         /\ st.by_session[sid] = None => new = st
         /\ st.by_session[sid] # None =>
              /\ new.by_session[sid].auth_code = st.by_session[sid].auth_code
              /\ new.by_session[sid].servicex_token = st.by_session[sid].servicex_token
              /\ new.by_session[sid].expires_at = st.by_session[sid].expires_at
<1> DEFINE new == MarkError(st, sid)
<1>1. CASE st.by_session[sid] = None
  BY <1>1 DEF MarkError
<1>2. CASE st.by_session[sid] # None
  <2>1. \A x \in SessionId \ {sid} : new.by_session[x] = st.by_session[x]
    BY <1>2 DEF MarkError, Store
  <2>2. new.by_session[sid] = [st.by_session[sid] EXCEPT !.status = "error"]
    BY <1>2 DEF MarkError, Store
  <2>3. st.by_session[sid] \in BridgeSession
    BY <1>2 DEF Store
  <2>4. /\ new.by_session[sid].auth_code = st.by_session[sid].auth_code
        /\ new.by_session[sid].servicex_token = st.by_session[sid].servicex_token
        /\ new.by_session[sid].expires_at = st.by_session[sid].expires_at
    <3> HIDE DEF new
    <3> QED
      BY <2>2, <2>3 DEF BridgeSession
  <2> QED
    BY <1>2, <2>1, <2>4
<1> QED
  BY <1>1, <1>2

(***************************************************************************)
(* Marking a session failed keeps the invariant.                           *)
(***************************************************************************)
LEMMA ValidationFailsKeepsIInv ==
  ASSUME IInv, TypeOK', NEW p \in Post, ValidationFails(p)
  PROVE  IInv'
<1> DEFINE sid == post[p].sid
<1>1. /\ TypeOK
      /\ store \in Store
      /\ sid \in SessionId
      /\ post[p].stage # "idle"
      /\ store' = MarkError(store, sid)
      /\ UNCHANGED <<createdAt, minted, granted>>
  BY DEF IInv, ValidationFails, TypeOK, PostState
<1>2. /\ \A x \in SessionId \ {sid} : store'.by_session[x] = store.by_session[x]
      /\ store.by_session[sid] = None => store' = store
      /\ store.by_session[sid] # None =>
           /\ store'.by_session[sid].auth_code = store.by_session[sid].auth_code
           /\ store'.by_session[sid].servicex_token = store.by_session[sid].servicex_token
           /\ store'.by_session[sid].expires_at = store.by_session[sid].expires_at
  BY <1>1, MarkErrorSession
<1>3. IndexConsistent'
  BY <1>1, MarkErrorConsistent DEF IInv, IndexConsistent
<1>4. SessionsAreCreated' /\ CodesAreMinted' /\ MintsAreValidated'
  <2>1. SessionsAreCreated'
    BY <1>1, <1>2 DEF IInv, SessionsAreCreated
  <2>2. CodesAreMinted'
    BY SMTT(60), <1>1, <1>2 DEF IInv, CodesAreMinted
  <2>3. MintsAreValidated'
    BY <1>1 DEF IInv, MintsAreValidated
  <2> QED
    BY <2>1, <2>2, <2>3
<1>5. GrantsEndSessions' /\ OneGrantPerSession'
  <2>1. \A g \in granted : minted[g.code].sid \in SessionId
    BY <1>1 DEF IInv, TypeOK, GrantsEndSessions, Grant, Mint
  <2> QED
    BY <1>1, <1>2, <2>1 DEF IInv, GrantsEndSessions, OneGrantPerSession
<1>6. PostsNameSessions' /\ RedirectCarriesOwnCode'
  BY <1>1, RefusalKeepsPosts DEF ValidationFails, Reply
<1> QED
  BY <1>3, <1>4, <1>5, <1>6 DEF IInv

(***************************************************************************)
(* load_authorization_code keeps the invariant.                            *)
(***************************************************************************)
LEMMA LoadKeepsIInv ==
  ASSUME IInv, TypeOK', NEW r \in Redemption, NEW code \in AuthCode,
         LoadAuthorizationCode(r, code)
  PROVE  IInv'
<1>1. Shrinks(store, store') /\ IndexConsistent'
  BY DropCodeShrinks, DropCodeConsistent
  DEF LoadAuthorizationCode, AfterGetByAuthCode, IInv, TypeOK, IndexConsistent, Shrinks
<1>2. PostsNameSessions' /\ RedirectCarriesOwnCode'
  BY DEF LoadAuthorizationCode, IInv, PostsNameSessions, RedirectCarriesOwnCode
<1> QED
  BY <1>1, <1>2, ShrinkKeepsHistory DEF LoadAuthorizationCode, IInv

(***************************************************************************)
(* exchange_authorization_code keeps the invariant: the session leaves the *)
(* store in the step that hands its token out, so no code leads to it      *)
(* again.                                                                  *)
(***************************************************************************)
LEMMA ExchangeKeepsIInv ==
  ASSUME IInv, TypeOK', NEW r \in Redemption, ExchangeAuthorizationCode(r)
  PROVE  IInv'
<1> USE NoneIsNoValue
<1> DEFINE code == redemption[r].code
           session == GetByAuthCode(store, code, now)
           ok == session # None /\ session.servicex_token # None
           grant == [by |-> r, code |-> code, token |-> session.servicex_token, at |-> now]
<1>1. /\ TypeOK
      /\ store \in Store
      /\ now \in Nat
      /\ code \in AuthCode
      /\ store' = DropCode(store, code)
      /\ granted' = IF ok THEN granted \cup {grant} ELSE granted
      /\ UNCHANGED <<post, createdAt, minted>>
  BY DEF IInv, ExchangeAuthorizationCode, TypeOK, RedemptionState, PopByAuthCode,
         AfterPopByAuthCode
<1>2. Shrinks(store, store') /\ IndexConsistent'
  BY <1>1, DropCodeShrinks, DropCodeConsistent DEF IInv, IndexConsistent
<1>3. SessionsAreCreated' /\ CodesAreMinted' /\ MintsAreValidated'
  BY <1>1, <1>2, ShrinkKeepsHistory
<1>4. PostsNameSessions' /\ RedirectCarriesOwnCode'
  BY <1>1 DEF IInv, PostsNameSessions, RedirectCarriesOwnCode
<1>5. CASE ~ok
  BY <1>1, <1>2, <1>3, <1>4, <1>5, ShrinkKeepsHistory DEF IInv
<1>6. CASE ok
  <2>1. PICK sid \in SessionId : /\ store.by_code[code] = sid
                                 /\ store.by_session[sid] = session
                                 /\ session.auth_code = code
                                 /\ now < session.expires_at
    BY <1>1, <1>6, LookupIsStored DEF IInv, IndexConsistent
  <2>2. /\ minted[code] # None
        /\ minted[code].sid = sid
        /\ minted[code].token = session.servicex_token
        /\ session.expires_at = createdAt[sid] + TTL
    BY <1>6, <2>1 DEF IInv, CodesAreMinted, SessionsAreCreated
  <2>3. store'.by_session[sid] = None
    BY <1>1, <2>1 DEF DropCode, Store
  <2>4. \A g \in granted : /\ minted[g.code].sid \in SessionId
                           /\ minted[g.code].sid # sid
    BY <1>1, <1>6, <2>1 DEF IInv, TypeOK, GrantsEndSessions, Grant, Mint
  <2>5. grant.code = code /\ grant.token = session.servicex_token /\ grant.at = now
    OBVIOUS
  <2> HIDE DEF ok, grant
  <2>6. GrantsEndSessions'
    <3> SUFFICES ASSUME NEW g \in granted \cup {grant}
        PROVE  /\ minted[g.code] # None
               /\ minted[g.code].token = g.token
               /\ store'.by_session[minted[g.code].sid] = None
               /\ g.at < createdAt[minted[g.code].sid] + TTL
      BY <1>1, <1>6 DEF GrantsEndSessions
    <3>1. CASE g = grant
      BY <2>1, <2>2, <2>3, <2>5, <3>1
    <3>2. CASE g \in granted
      BY <1>2, <2>4, <3>2 DEF IInv, GrantsEndSessions, Shrinks
    <3> QED
      BY <3>1, <3>2
  <2>7. OneGrantPerSession'
    BY <1>1, <1>6, <2>2, <2>4, <2>5 DEF IInv, OneGrantPerSession
  <2> QED
    BY <1>2, <1>3, <1>4, <2>6, <2>7 DEF IInv
<1> QED
  BY <1>5, <1>6

(***************************************************************************)
(* Every step keeps the inductive invariant.                               *)
(***************************************************************************)
LEMMA IInvStep == IInv /\ [Next]_vars => IInv'
<1> SUFFICES ASSUME IInv, [Next]_vars PROVE IInv'
  OBVIOUS
<1>1. TypeOK'
  BY TypeStep DEF IInv
<1>2. CASE Tick \/ UNCHANGED vars
  BY <1>1, <1>2 DEF Tick, vars, IInv, IndexConsistent, SessionsAreCreated, CodesAreMinted,
     MintsAreValidated, GrantsEndSessions, OneGrantPerSession, PostsNameSessions,
     RedirectCarriesOwnCode
<1>3. ASSUME NEW sid \in SessionId, Authorize(sid) PROVE IInv'
  BY <1>1, <1>3, AuthorizeKeepsIInv
<1>4. CASE BridgeGet \/ SessionCounts
  <2>1. PostsNameSessions' /\ RedirectCarriesOwnCode'
    BY <1>4 DEF BridgeGet, SessionCounts, IInv, PostsNameSessions, RedirectCarriesOwnCode
  <2> QED
    BY <1>1, <1>4, <2>1, SweepKeepsIInv DEF BridgeGet, SessionCounts
<1>5. ASSUME NEW p \in Post, NEW sid \in SessionId, PostArrives(p, sid) PROVE IInv'
  BY <1>1, <1>5, PostArrivesKeepsIInv
<1>6. ASSUME NEW p \in Post, PostAdvances(p) PROVE IInv'
  BY <1>1, <1>6, PostReadsFormKeepsIInv, ValidationSucceedsKeepsIInv, ValidationFailsKeepsIInv
  DEF PostAdvances
<1>7. ASSUME NEW r \in Redemption, NEW code \in AuthCode, LoadAuthorizationCode(r, code)
      PROVE IInv'
  BY <1>1, <1>7, LoadKeepsIInv
<1>8. ASSUME NEW r \in Redemption, ExchangeAuthorizationCode(r) PROVE IInv'
  BY <1>1, <1>8, ExchangeKeepsIInv
<1> QED
  BY <1>2, <1>3, <1>4, <1>5, <1>6, <1>7, <1>8 DEF Next

(***************************************************************************)
(* The inductive invariant holds in every reachable state.                 *)
(***************************************************************************)
LEMMA InvariantHolds == Spec => []IInv
BY IInvInit, IInvStep, PTL DEF Spec

(***************************************************************************)
(* The two dictionaries agree in every reachable state, whatever marks,    *)
(* sweeps and pops race.                                                   *)
(***************************************************************************)
THEOREM IndexAlwaysConsistent == Spec => []IndexConsistent
<1>1. IInv => IndexConsistent
  BY DEF IInv
<1> QED
  BY <1>1, InvariantHolds, PTL

(***************************************************************************)
(* One sign-in, at most one access token.                                  *)
(***************************************************************************)
THEOREM SingleUse == Spec => []OneGrantPerSession
<1>1. IInv => OneGrantPerSession
  BY DEF IInv
<1> QED
  BY <1>1, InvariantHolds, PTL

(***************************************************************************)
(* A code redeems the validated token it was minted for.                   *)
(***************************************************************************)
THEOREM OwnToken == Spec => []CodeRedeemsItsOwnToken
<1>1. IInv => CodeRedeemsItsOwnToken
  BY DEF IInv, CodeRedeemsItsOwnToken, GrantsEndSessions, MintsAreValidated, TypeOK, Grant
<1> QED
  BY <1>1, InvariantHolds, PTL

(***************************************************************************)
(* No access token after the session's TTL.                                *)
(***************************************************************************)
THEOREM Timely == Spec => []NoGrantAfterExpiry
<1>1. IInv => NoGrantAfterExpiry
  BY DEF IInv, NoGrantAfterExpiry, GrantsEndSessions
<1> QED
  BY <1>1, InvariantHolds, PTL

(***************************************************************************)
(* A redirect carries the code of its own POST.                            *)
(***************************************************************************)
THEOREM OwnRedirect == Spec => []RedirectCarriesOwnCode
<1>1. IInv => RedirectCarriesOwnCode
  BY DEF IInv
<1> QED
  BY <1>1, InvariantHolds, PTL

-------------------------------------------------------------------------------
(* The code of an undisturbed sign-in                                      *)

(***************************************************************************)
(* A redirected POST is undisturbed while its session's TTL runs, nobody   *)
(* redeemed its code, and no other POST on the session got a verdict; then *)
(* its session stands in the store, done and with its code.                *)
(***************************************************************************)
Undisturbed(p) ==
  /\ post[p].reply = "redirect"
  /\ now < createdAt[post[p].sid] + TTL
  /\ \A g \in granted : g.code # post[p].code
  /\ \A q \in Post \ {p} :
       post[q].sid = post[p].sid => post[q].reply \notin {"redirect", "invalid"}

Standing(p) ==
  LET session == store.by_session[post[p].sid] IN
  session # None /\ session.status = "done" /\ session.auth_code = post[p].code

HonouredInv ==
  /\ \A p \in Post : Undisturbed(p) => Standing(p)
  /\ \A p \in Post : post[p].stage # "answered" => post[p].reply = None

(***************************************************************************)
(* What every step does to the clock, the history and the requests: time   *)
(* passes, nothing is forgotten, and an answer is final.                   *)
(***************************************************************************)
GoesOn ==
  /\ now' >= now /\ granted \subseteq granted'
  /\ \A sid \in SessionId : createdAt[sid] # None => createdAt'[sid] = createdAt[sid]
  /\ \A q \in Post : /\ post[q].stage = "answered" => post'[q] = post[q]
                     /\ post'[q].stage # "answered" => post'[q].reply = None

LEMMA AnsweredPosts ==
  ASSUME IInv, NEW p \in Post, post[p].reply = "redirect"
  PROVE  /\ post[p].stage = "answered" /\ post[p].sid \in SessionId
         /\ post[p].code \in AuthCode /\ createdAt[post[p].sid] \in Nat
<1>1. post[p].stage = "answered"
  BY DEF IInv, PostsNameSessions
<1>2. post[p].sid \in SessionId /\ createdAt[post[p].sid] # None
  BY <1>1 DEF IInv, TypeOK, PostState, PostsNameSessions
<1>3. post[p].code \in AuthCode
  BY DEF IInv, TypeOK, PostState, RedirectCarriesOwnCode
<1> QED
  BY <1>1, <1>2, <1>3 DEF IInv, TypeOK

LEMMA UndisturbedBefore ==
  ASSUME IInv, IInv', HonouredInv, GoesOn, NEW p \in Post, Undisturbed(p)',
         post[p].stage = "answered"
  PROVE  Undisturbed(p) /\ Standing(p) /\ post'[p] = post[p]
<1>1. post'[p] = post[p] /\ post[p].reply = "redirect"
  BY DEF GoesOn, Undisturbed
<1>2. createdAt'[post[p].sid] = createdAt[post[p].sid] /\ createdAt[post[p].sid] \in Nat
  BY <1>1, AnsweredPosts, NoneIsDistinct DEF GoesOn
<1>3. now < createdAt[post[p].sid] + TTL
  <2>1. now \in Nat /\ now' \in Nat /\ now' >= now
    BY DEF IInv, TypeOK, GoesOn
  <2>2. now' < createdAt[post[p].sid] + TTL
    BY <1>1, <1>2 DEF Undisturbed
  <2> QED
    BY <1>2, <2>1, <2>2, ConstantsOK
<1>4. \A g \in granted : g.code # post[p].code
  BY <1>1 DEF Undisturbed, GoesOn
<1>5. ASSUME NEW q \in Post \ {p}, post[q].sid = post[p].sid
      PROVE  post[q].reply \notin {"redirect", "invalid"}
  <2>1. CASE post[q].stage = "answered"
    BY <1>1, <1>5, <2>1 DEF GoesOn, Undisturbed
  <2>2. CASE post[q].stage # "answered"
    BY <2>2, NoneIsDistinct DEF HonouredInv, Reply
  <2> QED
    BY <2>1, <2>2
<1>6. Undisturbed(p)
  BY <1>1, <1>3, <1>4, <1>5 DEF Undisturbed
<1> QED
  BY <1>1, <1>6 DEF HonouredInv

(***************************************************************************)
(* So a step that redirects nobody keeps the invariant if it leaves the    *)
(* sessions of undisturbed POSTs alone.                                    *)
(***************************************************************************)
LEMMA KeepsHonoured ==
  ASSUME IInv, IInv', HonouredInv, GoesOn,
         \A p \in Post : post'[p].reply = "redirect" => post[p].stage = "answered",
         \A p \in Post : Undisturbed(p) /\ Standing(p) /\ Undisturbed(p)' =>
           store'.by_session[post[p].sid] = store.by_session[post[p].sid]
  PROVE  HonouredInv'
<1>1. ASSUME NEW p \in Post, Undisturbed(p)'
      PROVE  Standing(p)'
  <2>1. post[p].stage = "answered"
    BY <1>1 DEF Undisturbed
  <2>2. Undisturbed(p) /\ Standing(p) /\ post'[p] = post[p]
    BY <1>1, <2>1, UndisturbedBefore
  <2> QED
    BY <1>1, <2>2 DEF Standing
<1>2. \A p \in Post : post'[p].stage # "answered" => post'[p].reply = None
  BY DEF GoesOn
<1> QED
  BY <1>1, <1>2 DEF HonouredInv

(***************************************************************************)
(* A session that stands for an undisturbed POST has not expired: no sweep *)
(* takes it.                                                               *)
(***************************************************************************)
LEMMA StandingIsLive ==
  ASSUME IInv, NEW p \in Post, Undisturbed(p), Standing(p)
  PROVE  /\ store.by_session[post[p].sid].expires_at \in Nat
         /\ now < store.by_session[post[p].sid].expires_at
<1>1. post[p].sid \in SessionId /\ createdAt[post[p].sid] \in Nat
  BY AnsweredPosts DEF Undisturbed
<1>2. store.by_session[post[p].sid].expires_at = createdAt[post[p].sid] + TTL
  BY <1>1 DEF IInv, SessionsAreCreated, Standing
<1> QED
  BY <1>1, <1>2, ConstantsOK DEF Undisturbed

LEMMA EvictKeepsLive ==
  ASSUME NEW st \in Store, NEW t \in Nat, NEW sid \in SessionId,
         st.by_session[sid] # None, st.by_session[sid].expires_at \in Nat,
         t < st.by_session[sid].expires_at
  PROVE  Evict(st, t).by_session[sid] = st.by_session[sid]
BY DEF Evict, Expired

LEMMA SweepKeepsHonoured ==
  ASSUME IInv, IInv', HonouredInv, GoesOn,
         \A p \in Post : post'[p].reply = "redirect" => post[p].stage = "answered",
         store' = store \/ store' = Evict(store, now)
  PROVE  HonouredInv'
<1>1. ASSUME NEW p \in Post, Undisturbed(p), Standing(p)
      PROVE  store'.by_session[post[p].sid] = store.by_session[post[p].sid]
  <2>1. post[p].sid \in SessionId /\ store \in Store /\ now \in Nat
    BY <1>1, AnsweredPosts DEF Undisturbed, IInv, TypeOK
  <2>2. /\ store.by_session[post[p].sid].expires_at \in Nat
        /\ now < store.by_session[post[p].sid].expires_at
        /\ store.by_session[post[p].sid] # None
    BY <1>1, StandingIsLive DEF Standing
  <2> QED
    BY <2>1, <2>2, EvictKeepsLive
<1> QED
  BY <1>1, KeepsHonoured

(***************************************************************************)
(* Answering a POST is final, and it is no redirect unless it says so.     *)
(***************************************************************************)
LEMMA RefusalGoesOn ==
  ASSUME IInv, HonouredInv, NEW p \in Post, NEW reply \in Reply \ {"redirect"},
         post[p].stage \in {"reading", "validating"}, AnswerPost(p, reply, None),
         UNCHANGED <<now, granted, createdAt>>
  PROVE  /\ GoesOn
         /\ \A q \in Post \ {p} : post'[q] = post[q]
         /\ post'[p].reply = reply /\ post'[p].sid = post[p].sid
         /\ \A q \in Post : post'[q].reply = "redirect" => post[q].stage = "answered"
<1>1. /\ \A q \in Post \ {p} : post'[q] = post[q]
      /\ post'[p].reply = reply /\ post'[p].stage = "answered" /\ post'[p].sid = post[p].sid
  BY DEF AnswerPost, IInv, TypeOK, PostState
<1>2. \A q \in Post : post[q].reply = "redirect" => post[q].stage = "answered"
  BY DEF IInv, PostsNameSessions
<1>3. now' >= now
  BY DEF IInv, TypeOK
<1>4. \A q \in Post : /\ post[q].stage = "answered" => post'[q] = post[q]
                      /\ post'[q].stage # "answered" => post'[q].reply = None
  BY <1>1 DEF HonouredInv
<1> QED
  BY <1>1, <1>2, <1>3, <1>4 DEF GoesOn

LEMMA RestGoesOn ==
  ASSUME IInv, HonouredInv, UNCHANGED <<post, createdAt>>, now' >= now,
         granted \subseteq granted'
  PROVE  /\ GoesOn
         /\ \A q \in Post : post'[q].reply = "redirect" => post[q].stage = "answered"
BY DEF IInv, PostsNameSessions, HonouredInv, GoesOn

LEMMA AuthorizeKeepsHonoured ==
  ASSUME IInv, IInv', HonouredInv, NEW sid \in SessionId, Authorize(sid)
  PROVE  HonouredInv'
<1> USE NoneIsNoValue, NoneIsDistinct
<1>1. createdAt[sid] = None /\ createdAt' = [createdAt EXCEPT ![sid] = now]
      /\ UNCHANGED <<now, post, granted>>
  BY DEF Authorize
<1>2. \A x \in SessionId : createdAt[x] # None => createdAt'[x] = createdAt[x]
  BY <1>1 DEF IInv, TypeOK
<1>3. /\ GoesOn
      /\ \A q \in Post : post'[q].reply = "redirect" => post[q].stage = "answered"
  <2>1. now' >= now
    BY <1>1 DEF IInv, TypeOK
  <2> QED
    BY <1>1, <1>2, <2>1 DEF IInv, PostsNameSessions, HonouredInv, GoesOn
<1>4. ASSUME NEW p \in Post, Undisturbed(p), Standing(p)
      PROVE  store'.by_session[post[p].sid] = store.by_session[post[p].sid]
  <2> DEFINE swept == Evict(store, now)
  <2>1. /\ post[p].sid \in SessionId /\ store \in Store /\ now \in Nat
        /\ post[p].sid # sid
    BY <1>1, <1>4, AnsweredPosts DEF Undisturbed, IInv, TypeOK
  <2>2. swept \in Store
    BY <2>1, EvictType
  <2>3. swept.by_session[post[p].sid] = store.by_session[post[p].sid]
    <3>1. /\ store.by_session[post[p].sid].expires_at \in Nat
          /\ now < store.by_session[post[p].sid].expires_at
          /\ store.by_session[post[p].sid] # None
      BY <1>4, StandingIsLive DEF Standing
    <3> QED
      BY <2>1, <3>1, EvictKeepsLive
  <2>4. store'.by_session = [swept.by_session EXCEPT ![sid] = NewSession(now + TTL)]
    BY <2>2 DEF Authorize, Put, Store
  <2> HIDE DEF swept
  <2> QED
    BY <2>1, <2>2, <2>3, <2>4 DEF Store
<1> QED
  BY <1>3, <1>4, KeepsHonoured

LEMMA PostArrivesKeepsHonoured ==
  ASSUME IInv, IInv', HonouredInv, NEW p \in Post, NEW sid \in SessionId, PostArrives(p, sid)
  PROVE  HonouredInv'
<1>1. /\ post[p].stage = "idle" /\ store' = Evict(store, now)
      /\ UNCHANGED <<now, createdAt, granted>>
      /\ \A q \in Post \ {p} : post'[q] = post[q]
      /\ post'[p].reply # "redirect"
      /\ post'[p].stage # "answered" => post'[p].reply = None
  BY NoneIsDistinct DEF PostArrives, IInv, TypeOK, IdlePost, Reply
<1>2. now' >= now
  BY <1>1 DEF IInv, TypeOK
<1>3. GoesOn
  BY <1>1, <1>2 DEF GoesOn, HonouredInv
<1>4. \A q \in Post : post'[q].reply = "redirect" => post[q].stage = "answered"
  BY <1>1 DEF IInv, PostsNameSessions
<1> QED
  BY <1>1, <1>3, <1>4, SweepKeepsHonoured

LEMMA PostReadsFormKeepsHonoured ==
  ASSUME IInv, IInv', HonouredInv, NEW p \in Post, NEW token \in Token \cup {None},
         PostReadsForm(p, token)
  PROVE  HonouredInv'
<1>1. /\ post[p].stage = "reading" /\ UNCHANGED <<now, createdAt, granted>>
      /\ store' = store \/ store' = Evict(store, now)
  BY DEF PostReadsForm
<1>2. CASE AnswerPost(p, "empty", None) \/ AnswerPost(p, "invalid", None)
  BY <1>1, <1>2, RefusalGoesOn, SweepKeepsHonoured DEF Reply
<1>3. CASE post' = [post EXCEPT ![p] = [@ EXCEPT !.stage = "validating", !.token = token]]
  <2>1. /\ \A q \in Post \ {p} : post'[q] = post[q]
        /\ post'[p].reply = post[p].reply
    BY <1>3 DEF IInv, TypeOK, PostState
  <2>2. post[p].reply = None
    BY <1>1 DEF HonouredInv
  <2>3. now' >= now
    BY <1>1 DEF IInv, TypeOK
  <2>4. GoesOn
    BY <1>1, <2>1, <2>2, <2>3 DEF GoesOn, HonouredInv
  <2>5. \A q \in Post : post'[q].reply = "redirect" => post[q].stage = "answered"
    BY <2>1, <2>2, NoneIsDistinct DEF IInv, PostsNameSessions, Reply
  <2> QED
    BY <1>1, <2>4, <2>5, SweepKeepsHonoured
<1> QED
  BY <1>2, <1>3 DEF PostReadsForm

LEMMA ValidationFailsKeepsHonoured ==
  ASSUME IInv, IInv', HonouredInv, NEW p \in Post, ValidationFails(p)
  PROVE  HonouredInv'
<1>1. /\ post[p].stage = "validating" /\ store' = MarkError(store, post[p].sid)
      /\ AnswerPost(p, "invalid", None) /\ UNCHANGED <<now, createdAt, granted>>
      /\ store \in Store /\ post[p].sid \in SessionId
  BY DEF ValidationFails, IInv, TypeOK, PostState
<1>2. /\ GoesOn
      /\ \A q \in Post \ {p} : post'[q] = post[q]
      /\ post'[p].reply = "invalid" /\ post'[p].sid = post[p].sid
      /\ \A q \in Post : post'[q].reply = "redirect" => post[q].stage = "answered"
  BY <1>1, RefusalGoesOn DEF Reply
<1>3. ASSUME NEW q \in Post, Undisturbed(q), Undisturbed(q)'
      PROVE  store'.by_session[post[q].sid] = store.by_session[post[q].sid]
  <2>1. /\ q # p /\ post'[q] = post[q] /\ post[q].sid \in SessionId
        /\ post[q].sid # post[p].sid
    <3>1. post[q].stage = "answered" /\ post[q].sid \in SessionId
      BY <1>3, AnsweredPosts DEF Undisturbed
    <3> QED
      BY <1>1, <1>2, <1>3, <3>1 DEF Undisturbed
  <2> QED
    BY <1>1, <2>1, MarkErrorSession
<1> QED
  BY <1>2, <1>3, KeepsHonoured

(***************************************************************************)
(* A validation disturbs every other redirect of its session, unless it    *)
(* finds the session expired, and then those have lost their TTL too.      *)
(***************************************************************************)
LEMMA ValidationSucceedsKeepsHonoured ==
  ASSUME IInv, IInv', HonouredInv, NEW p \in Post, NEW code \in AuthCode,
         ValidationSucceeds(p, code)
  PROVE  HonouredInv'
<1> USE NoneIsNoValue, NoneIsDistinct
<1> DEFINE sid == post[p].sid
           token == post[p].token
           marked == MarkDone(store, sid, token, code)
           session == GetBySessionId(marked, sid, now)
<1>1. /\ store \in Store /\ sid \in SessionId /\ token \in Token /\ now \in Nat
      /\ post[p].stage = "validating" /\ createdAt[sid] # None
      /\ store' = Evict(marked, now)
      /\ UNCHANGED <<now, createdAt, granted>>
  BY ConstantsOK DEF IInv, ValidationSucceeds, TypeOK, PostState, PostsNameSessions
<1>2. /\ marked \in Store
      /\ \A x \in SessionId \ {sid} : marked.by_session[x] = store.by_session[x]
      /\ store.by_session[sid] = None => marked = store
      /\ store.by_session[sid] # None =>
           /\ marked.by_session[sid] # None
           /\ marked.by_session[sid].status = "done"
           /\ marked.by_session[sid].auth_code = code
           /\ marked.by_session[sid].expires_at = store.by_session[sid].expires_at
  BY <1>1, MarkDoneType, MarkDoneSession
<1>3. session = store'.by_session[sid]
  BY <1>1 DEF GetBySessionId
<1>4. Shrinks(marked, store')
  BY <1>1, <1>2, EvictShrinks
<1>5. \/ session = None /\ AnswerPost(p, "expired", None)
      \/ session # None /\ AnswerPost(p, "redirect", session.auth_code)
  BY DEF ValidationSucceeds
<1> HIDE DEF marked, session
<1>6. ASSUME NEW q \in Post, Undisturbed(q), Standing(q), post[q].sid # sid
      PROVE  store'.by_session[post[q].sid] = store.by_session[post[q].sid]
  <2>1. /\ post[q].sid \in SessionId
        /\ store.by_session[post[q].sid].expires_at \in Nat
        /\ now < store.by_session[post[q].sid].expires_at
        /\ store.by_session[post[q].sid] # None
    BY <1>6, AnsweredPosts, StandingIsLive DEF Undisturbed, Standing
  <2> QED
    BY <1>1, <1>2, <1>6, <2>1, EvictKeepsLive
<1>7. CASE session = None /\ AnswerPost(p, "expired", None)
  <2>1. /\ GoesOn
        /\ \A q \in Post : post'[q].reply = "redirect" => post[q].stage = "answered"
    BY <1>1, <1>7, RefusalGoesOn DEF Reply
  <2>2. ASSUME NEW q \in Post, Undisturbed(q), Standing(q)
        PROVE  post[q].sid # sid
    <3> SUFFICES ASSUME post[q].sid = sid PROVE FALSE
      OBVIOUS
    <3>1. /\ store.by_session[sid].expires_at \in Nat
          /\ now < store.by_session[sid].expires_at
          /\ store.by_session[sid] # None
      BY <2>2, StandingIsLive DEF Standing
    <3>2. store'.by_session[sid] = marked.by_session[sid]
      BY <1>1, <1>2, <3>1, EvictKeepsLive
    <3> QED
      BY <1>2, <1>3, <1>7, <3>1, <3>2
  <2> QED
    BY <1>6, <2>1, <2>2, KeepsHonoured
<1>8. CASE session # None /\ AnswerPost(p, "redirect", session.auth_code)
  <2>1. /\ \A q \in Post \ {p} : post'[q] = post[q]
        /\ post'[p].reply = "redirect" /\ post'[p].stage = "answered"
        /\ post'[p].sid = sid /\ post'[p].code = session.auth_code
    BY <1>8 DEF AnswerPost, IInv, TypeOK, PostState
  <2>2. GoesOn
    <3>1. now' >= now
      BY <1>1
    <3> QED
      BY <1>1, <2>1, <3>1 DEF GoesOn, HonouredInv
  <2>3. Standing(p)'
    <3>1. session = marked.by_session[sid] /\ store.by_session[sid] # None
      BY <1>1, <1>2, <1>3, <1>4, <1>8 DEF Shrinks
    <3> QED
      BY <1>2, <1>3, <1>8, <2>1, <3>1 DEF Standing
  <2>4. ASSUME NEW q \in Post \ {p}, Undisturbed(q)'
        PROVE  Standing(q)'
    <3>1. post'[q] = post[q] /\ post[q].sid # sid
      BY <2>1, <2>4 DEF Undisturbed
    <3>2. post[q].stage = "answered"
      BY <2>4, <3>1 DEF Undisturbed, IInv, PostsNameSessions
    <3>3. Undisturbed(q) /\ Standing(q)
      BY <2>2, <2>4, <3>2, UndisturbedBefore
    <3> QED
      BY <1>6, <3>1, <3>3 DEF Standing
  <2>5. \A q \in Post : post'[q].stage # "answered" => post'[q].reply = None
    BY <2>2 DEF GoesOn
  <2> QED
    BY <2>3, <2>4, <2>5 DEF HonouredInv
<1> QED
  BY <1>5, <1>7, <1>8

(***************************************************************************)
(* A look-up drops only what has expired.                                  *)
(***************************************************************************)
LEMMA LoadKeepsHonoured ==
  ASSUME IInv, IInv', HonouredInv, NEW r \in Redemption, NEW code \in AuthCode,
         LoadAuthorizationCode(r, code)
  PROVE  HonouredInv'
<1>1. /\ UNCHANGED <<now, post, createdAt, granted>> /\ now \in Nat /\ store \in Store
      /\ store' = AfterGetByAuthCode(store, code, now)
  BY DEF LoadAuthorizationCode, IInv, TypeOK
<1>2. /\ GoesOn
      /\ \A q \in Post : post'[q].reply = "redirect" => post[q].stage = "answered"
  BY <1>1, RestGoesOn
<1>3. ASSUME NEW p \in Post, Undisturbed(p), Standing(p)
      PROVE  store'.by_session[post[p].sid] = store.by_session[post[p].sid]
  <2> DEFINE owner == store.by_code[code]
  <2>1. /\ post[p].sid \in SessionId
        /\ store.by_session[post[p].sid].expires_at \in Nat
        /\ now < store.by_session[post[p].sid].expires_at
    BY <1>3, AnsweredPosts, StandingIsLive DEF Undisturbed
  <2>2. CASE store' = store
    BY <2>2
  <2>3. CASE store' = DropCode(store, code) /\ owner # None
             /\ Expired(store.by_session[owner], now)
    <3>1. owner # post[p].sid
      BY <1>1, <2>1, <2>3 DEF Expired
    <3>2. owner \in SessionId
      BY <1>1, <2>3 DEF Store
    <3> QED
      BY <1>1, <2>1, <2>3, <3>1, <3>2 DEF DropCode, Store
  <2> QED
    BY <1>1, <2>2, <2>3 DEF AfterGetByAuthCode
<1> QED
  BY <1>2, <1>3, KeepsHonoured

(***************************************************************************)
(* An exchange takes a session away only with the code that led to it,     *)
(* and then it grants its token.                                           *)
(***************************************************************************)
LEMMA ExchangeKeepsHonoured ==
  ASSUME IInv, IInv', HonouredInv, NEW r \in Redemption, ExchangeAuthorizationCode(r)
  PROVE  HonouredInv'
<1> USE NoneIsNoValue
<1> DEFINE code == redemption[r].code
           session == GetByAuthCode(store, code, now)
           ok == session # None /\ session.servicex_token # None
           grant == [by |-> r, code |-> code, token |-> session.servicex_token, at |-> now]
<1>1. /\ store \in Store /\ now \in Nat /\ code \in AuthCode
      /\ store' = DropCode(store, code)
      /\ granted' = IF ok THEN granted \cup {grant} ELSE granted
      /\ UNCHANGED <<now, post, createdAt>>
  BY DEF IInv, ExchangeAuthorizationCode, TypeOK, RedemptionState, PopByAuthCode,
         AfterPopByAuthCode
<1>2. granted \subseteq granted' /\ now' >= now
  BY <1>1
<1>3. /\ GoesOn
      /\ \A q \in Post : post'[q].reply = "redirect" => post[q].stage = "answered"
  BY <1>1, <1>2, RestGoesOn
<1>4. ASSUME NEW p \in Post, Undisturbed(p), Standing(p), Undisturbed(p)'
      PROVE  store'.by_session[post[p].sid] = store.by_session[post[p].sid]
  <2> DEFINE owner == store.by_code[code]
  <2>1. /\ post[p].sid \in SessionId
        /\ store.by_session[post[p].sid].expires_at \in Nat
        /\ now < store.by_session[post[p].sid].expires_at
        /\ store.by_session[post[p].sid] # None
        /\ store.by_session[post[p].sid].auth_code = post[p].code
        /\ post[p].code \in AuthCode
    BY <1>4, AnsweredPosts, StandingIsLive DEF Undisturbed, Standing
  <2>2. CASE owner = post[p].sid
    <3>1. store.by_session[owner].auth_code = code /\ code = post[p].code
      BY <1>1, <2>1, <2>2 DEF IInv, IndexConsistent, Consistent, Carries
    <3>2. session = store.by_session[owner]
      BY <1>1, <2>1, <2>2 DEF GetByAuthCode, Expired
    <3>3. ok
      <4> HIDE DEF session, owner
      <4>1. /\ owner \in SessionId
            /\ store.by_session[owner] # None
            /\ store.by_session[owner].auth_code # None
        BY <1>1, <2>1, <2>2
      <4>2. CodesAreMinted
        BY DEF IInv
      <4>3. store.by_session[owner].servicex_token # None
        BY <4>1, <4>2 DEF CodesAreMinted
      <4> QED
        BY <3>2, <4>1, <4>3
    <3>4. grant \in granted' /\ grant.code = code
      BY <1>1, <3>3
    <3> QED
      BY <1>1, <1>4, <3>1, <3>4 DEF Undisturbed
  <2>3. CASE owner # post[p].sid
    <3>1. owner \in SessionId \cup {None}
      BY <1>1 DEF Store
    <3> QED
      BY <1>1, <2>1, <2>3, <3>1 DEF DropCode, Store
  <2> QED
    BY <2>2, <2>3
<1> QED
  BY <1>3, <1>4, KeepsHonoured

LEMMA HonouredStep == IInv /\ IInv' /\ HonouredInv /\ [Next]_vars => HonouredInv'
<1> SUFFICES ASSUME IInv, IInv', HonouredInv, [Next]_vars PROVE HonouredInv'
  OBVIOUS
<1>1. CASE Tick \/ UNCHANGED vars
  <2>1. /\ UNCHANGED <<post, createdAt, granted, store>> /\ now' >= now
    BY <1>1 DEF Tick, vars, IInv, TypeOK
  <2> QED
    BY <2>1, RestGoesOn, KeepsHonoured
<1>2. ASSUME NEW sid \in SessionId, Authorize(sid) PROVE HonouredInv'
  BY <1>2, AuthorizeKeepsHonoured
<1>3. CASE BridgeGet \/ SessionCounts
  <2>1. /\ UNCHANGED <<post, createdAt, granted>> /\ now' >= now
        /\ store' = Evict(store, now)
    BY <1>3 DEF BridgeGet, SessionCounts, IInv, TypeOK
  <2> QED
    BY <2>1, RestGoesOn, SweepKeepsHonoured
<1>4. ASSUME NEW p \in Post, NEW sid \in SessionId, PostArrives(p, sid) PROVE HonouredInv'
  BY <1>4, PostArrivesKeepsHonoured
<1>5. ASSUME NEW p \in Post, PostAdvances(p) PROVE HonouredInv'
  BY <1>5, PostReadsFormKeepsHonoured, ValidationSucceedsKeepsHonoured,
     ValidationFailsKeepsHonoured DEF PostAdvances
<1>6. ASSUME NEW r \in Redemption, NEW code \in AuthCode, LoadAuthorizationCode(r, code)
      PROVE HonouredInv'
  BY <1>6, LoadKeepsHonoured
<1>7. ASSUME NEW r \in Redemption, ExchangeAuthorizationCode(r) PROVE HonouredInv'
  BY <1>7, ExchangeKeepsHonoured
<1> QED
  BY <1>1, <1>2, <1>3, <1>4, <1>5, <1>6, <1>7 DEF Next

(***************************************************************************)
(* A sign-in nobody interfered with is honoured for its whole TTL.         *)
(***************************************************************************)
THEOREM UndisturbedIsHonoured == Spec => []UndisturbedCodeIsHonoured
<1>1. Init => HonouredInv
  BY NoneIsDistinct DEF Init, IdlePost, HonouredInv, Undisturbed, Reply
<1>2. IInv /\ HonouredInv => UndisturbedCodeIsHonoured
  <2> SUFFICES ASSUME IInv, HonouredInv, NEW p \in Post, Undisturbed(p)
               PROVE  /\ GetByAuthCode(store, post[p].code, now) # None
                      /\ GetByAuthCode(store, post[p].code, now).status = "done"
    BY DEF UndisturbedCodeIsHonoured, Undisturbed
  <2>1. /\ Standing(p) /\ post[p].sid \in SessionId /\ post[p].code \in AuthCode
        /\ store.by_session[post[p].sid].expires_at \in Nat
        /\ now < store.by_session[post[p].sid].expires_at
    BY AnsweredPosts, StandingIsLive DEF HonouredInv, Undisturbed
  <2>2. store.by_code[post[p].code] = post[p].sid
    BY <2>1 DEF Standing, IInv, IndexConsistent, Consistent, Carries
  <2>3. ~Expired(store.by_session[post[p].sid], now)
    BY <2>1 DEF Expired, IInv, TypeOK
  <2> QED
    BY <2>1, <2>2, <2>3, NoneIsNoValue DEF GetByAuthCode, Standing
<1> QED
  BY <1>1, <1>2, InvariantHolds, HonouredStep, PTL DEF Spec
==============================================================================

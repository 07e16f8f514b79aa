----------------------- MODULE BridgeRefinement_proofs -----------------------
(***************************************************************************)
(* BridgeFlow implements CodeGrant, for any constants.                     *)
(***************************************************************************)
EXTENDS BridgeFlow_proofs

(***************************************************************************)
(* A sweep makes no code live.                                             *)
(***************************************************************************)
LEMMA EvictLive ==
  ASSUME NEW st \in Store, NEW t \in Nat, NEW code \in AuthCode,
         Evict(st, t).by_code[code] # None
  PROVE  Evict(st, t).by_code[code] = st.by_code[code]
BY DEF Evict, Store

(***************************************************************************)
(* Dropping a code makes no code live.                                     *)
(***************************************************************************)
LEMMA DropCodeLive ==
  ASSUME NEW st \in Store, NEW code \in AuthCode, NEW c \in AuthCode
  PROVE  DropCode(st, code).by_code[c] = IF c = code THEN None ELSE st.by_code[c]
BY DEF DropCode, Store

(***************************************************************************)
(* A sweep is an Invalidate of the promise, or invisible.                  *)
(***************************************************************************)
LEMMA SweepInvalidates ==
  ASSUME IInv, store' = Evict(store, now), UNCHANGED <<now, createdAt, minted, granted>>
  PROVE  Abstract!Invalidate
<1>1. LiveCodes' \in SUBSET LiveCodes
  BY EvictLive DEF LiveCodes, IInv, TypeOK
<1>2. UNCHANGED <<now, Deadline, minted, granted>>
  BY DEF Deadline
<1> QED
  BY <1>1, <1>2 DEF Abstract!Invalidate

(***************************************************************************)
(* The bridge starts where the promise starts.                             *)
(***************************************************************************)
LEMMA RefinementInit == Init => Abstract!Init
<1> SUFFICES ASSUME Init PROVE Abstract!Init
  OBVIOUS
<1>1. Deadline = [sid \in SessionId |-> None]
  BY DEF Init, Deadline
<1>2. LiveCodes = {}
  BY DEF Init, LiveCodes, EmptyStore
<1> QED
  BY <1>1, <1>2 DEF Init, Abstract!Init

(***************************************************************************)
(* authorize is a Start of the promise, the codes it sweeps included.      *)
(***************************************************************************)
LEMMA AuthorizeRefines ==
  ASSUME IInv, NEW sid \in SessionId, Authorize(sid)
  PROVE  Abstract!Start(sid)
<1>1. store'.by_code = Evict(store, now).by_code
  BY DEF Authorize, Put
<1>2. LiveCodes' \in SUBSET LiveCodes
  BY <1>1, EvictLive DEF LiveCodes, IInv, TypeOK
<1>3. /\ Deadline[sid] = None
      /\ Deadline' = [Deadline EXCEPT ![sid] = now + TTL]
  BY NoneIsDistinct DEF Authorize, Deadline, IInv, TypeOK
<1> QED
  BY <1>2, <1>3 DEF Authorize, Abstract!Start

(***************************************************************************)
(* Reading the form is an Invalidate, or invisible.                        *)
(***************************************************************************)
LEMMA PostReadsFormRefines ==
  ASSUME IInv, NEW p \in Post, NEW token \in Token \cup {None}, PostReadsForm(p, token)
  PROVE  Abstract!Invalidate
<1>1. UNCHANGED <<now, createdAt, minted, granted>>
  BY DEF PostReadsForm
<1>2. CASE UNCHANGED store
  <2>1. UNCHANGED <<now, Deadline, minted, LiveCodes, granted>>
    BY <1>1, <1>2 DEF Deadline, LiveCodes
  <2> QED
    BY <2>1 DEF Abstract!Invalidate
<1>3. CASE store' = Evict(store, now)
  BY <1>1, <1>3, SweepInvalidates
<1> QED
  BY <1>2, <1>3 DEF PostReadsForm

(***************************************************************************)
(* A validation that marks its session is an Issue; one whose session is   *)
(* gone is an Invalidate, or invisible.                                    *)
(***************************************************************************)
LEMMA ValidationSucceedsRefines ==
  ASSUME IInv, NEW p \in Post, NEW code \in AuthCode, ValidationSucceeds(p, code)
  PROVE  Abstract!Next
<1> USE NoneIsNoValue
<1> DEFINE sid == post[p].sid
           token == post[p].token
           marked == MarkDone(store, sid, token, code)
<1>1. /\ TypeOK
      /\ store \in Store
      /\ sid \in SessionId
      /\ token \in Token /\ token \in ValidTokens
      /\ createdAt[sid] # None /\ createdAt[sid] \in Nat
      /\ minted[code] = None
      /\ UNCHANGED <<now, createdAt, granted>>
      /\ store' = Evict(marked, now)
  BY ConstantsOK DEF IInv, ValidationSucceeds, TypeOK, PostState, PostsNameSessions
<1>2. marked \in Store
  BY <1>1, MarkDoneType
<1>3. UNCHANGED Deadline
  BY <1>1 DEF Deadline
<1>4. \A c \in AuthCode : store'.by_code[c] # None => store'.by_code[c] = marked.by_code[c]
  BY <1>1, <1>2, EvictLive DEF TypeOK
<1>5. CASE store.by_session[sid] = None
  <2>1. marked = store /\ UNCHANGED minted
    BY <1>1, <1>5 DEF MarkDone, ValidationSucceeds
  <2> HIDE DEF marked
  <2>2. LiveCodes' \in SUBSET LiveCodes
    BY <1>4, <2>1 DEF LiveCodes
  <2> QED
    BY <1>1, <1>3, <2>1, <2>2 DEF Abstract!Next, Abstract!Invalidate
<1>6. CASE store.by_session[sid] # None
  <2>1. minted' = [minted EXCEPT ![code] = [sid |-> sid, token |-> token]]
    BY <1>6 DEF ValidationSucceeds
  <2>2. \A c \in AuthCode \ {code} :
          marked.by_code[c] = IF c = store.by_session[sid].auth_code THEN None
                              ELSE store.by_code[c]
    BY <1>1, <1>6 DEF MarkDone
  <2> HIDE DEF marked
  <2>3. ASSUME NEW c \in AuthCode \ {code}, store'.by_code[c] # None
        PROVE  c \in LiveCodes /\ minted[c].sid # sid
    <3>1. /\ store.by_code[c] # None
          /\ c # store.by_session[sid].auth_code
      BY <1>4, <2>2, <2>3
    <3>2. PICK x \in SessionId : store.by_code[c] = x
      BY <1>1, <3>1 DEF Store
    <3>3. store.by_session[x] # None /\ store.by_session[x].auth_code = c
      BY <1>1, <3>2 DEF IInv, IndexConsistent, Consistent, Carries
    <3>4. minted[c].sid = x
      BY <3>3 DEF IInv, CodesAreMinted
    <3> QED
      BY <3>1, <3>3, <3>4 DEF LiveCodes
  <2>4. LiveCodes' \in SUBSET ({c \in LiveCodes : minted[c].sid # sid} \cup {code})
    BY <2>3 DEF LiveCodes
  <2>5. \A g \in granted : minted[g.code].sid # sid
    BY <1>6 DEF IInv, GrantsEndSessions
  <2>6. Deadline[sid] # None
    BY <1>1, ConstantsOK, NoneIsDistinct DEF Deadline
  <2>7. Abstract!Issue(sid, token, code)
    BY <1>1, <1>3, <2>1, <2>4, <2>5, <2>6 DEF Abstract!Issue
  <2> QED
    BY <1>1, <2>7 DEF Abstract!Next
<1> QED
  BY <1>5, <1>6

(***************************************************************************)
(* A failed validation is invisible to the promise.                        *)
(***************************************************************************)
LEMMA ValidationFailsRefines ==
  ASSUME IInv, NEW p \in Post, ValidationFails(p)
  PROVE  UNCHANGED Abstract!vars
<1>1. store'.by_code = store.by_code
  BY DEF ValidationFails, MarkError
<1> QED
  BY <1>1 DEF ValidationFails, Abstract!vars, Deadline, LiveCodes

(***************************************************************************)
(* load_authorization_code is an Invalidate, or invisible.                 *)
(***************************************************************************)
LEMMA LoadRefines ==
  ASSUME IInv, NEW r \in Redemption, NEW code \in AuthCode, LoadAuthorizationCode(r, code)
  PROVE  Abstract!Invalidate
<1>1. LiveCodes' \in SUBSET LiveCodes
  BY DropCodeLive DEF LoadAuthorizationCode, AfterGetByAuthCode, LiveCodes, IInv, TypeOK
<1>2. UNCHANGED <<now, Deadline, minted, granted>>
  BY DEF LoadAuthorizationCode, Deadline
<1> QED
  BY <1>1, <1>2 DEF Abstract!Invalidate

(***************************************************************************)
(* An exchange that hands out a token is a Redeem; one that refuses is an  *)
(* Invalidate, or invisible.                                               *)
(***************************************************************************)
LEMMA ExchangeRefines ==
  ASSUME IInv, NEW r \in Redemption, ExchangeAuthorizationCode(r)
  PROVE  Abstract!Next
<1> DEFINE code == redemption[r].code
           session == GetByAuthCode(store, code, now)
           ok == session # None /\ session.servicex_token # None
           grant == [by |-> r, code |-> code, token |-> session.servicex_token, at |-> now]
<1>1. /\ store \in Store
      /\ now \in Nat
      /\ code \in AuthCode
      /\ store' = DropCode(store, code)
      /\ granted' = IF ok THEN granted \cup {grant} ELSE granted
      /\ UNCHANGED <<now, createdAt, minted>>
  BY DEF IInv, ExchangeAuthorizationCode, TypeOK, RedemptionState, PopByAuthCode,
         AfterPopByAuthCode
<1>2. LiveCodes' = LiveCodes \ {code}
  BY <1>1, DropCodeLive DEF LiveCodes
<1>3. UNCHANGED Deadline
  BY <1>1 DEF Deadline
<1>4. CASE ~ok
  BY <1>1, <1>2, <1>3, <1>4 DEF Abstract!Next, Abstract!Invalidate
<1>5. CASE ok
  <2>1. PICK sid \in SessionId : /\ store.by_code[code] = sid
                                 /\ store.by_session[sid] = session
                                 /\ session.auth_code = code
                                 /\ now < session.expires_at
    BY <1>1, <1>5, LookupIsStored DEF IInv, IndexConsistent
  <2>2. /\ minted[code].sid = sid
        /\ minted[code].token = session.servicex_token
        /\ createdAt[sid] # None
        /\ session.expires_at = createdAt[sid] + TTL
    BY <1>1, <1>5, <2>1, NoneIsNoValue DEF IInv, CodesAreMinted, SessionsAreCreated
  <2>3. code \in LiveCodes
    BY <1>1, <2>1, NoneIsNoValue DEF LiveCodes
  <2>4. now < Deadline[minted[code].sid]
    BY <2>1, <2>2 DEF Deadline
  <2>5. Abstract!Redeem(r, code)
    BY <1>1, <1>2, <1>3, <1>5, <2>2, <2>3, <2>4 DEF Abstract!Redeem
  <2> QED
    BY <1>1, <2>5 DEF Abstract!Next
<1> QED
  BY <1>4, <1>5

(***************************************************************************)
(* Every step of the bridge is a step of the promise or a stutter.         *)
(***************************************************************************)
LEMMA RefinementStep == IInv /\ [Next]_vars => [Abstract!Next]_(Abstract!vars)
<1> SUFFICES ASSUME IInv, [Next]_vars PROVE Abstract!Next \/ UNCHANGED Abstract!vars
  OBVIOUS
<1>1. CASE Tick
  <2>1. Abstract!Tick
    BY <1>1 DEF Tick, Abstract!Tick, Deadline, LiveCodes
  <2> QED
    BY <2>1 DEF Abstract!Next
<1>2. ASSUME NEW sid \in SessionId, Authorize(sid) PROVE Abstract!Next
  BY <1>2, AuthorizeRefines DEF Abstract!Next
<1>3. CASE BridgeGet \/ SessionCounts
  BY <1>3, SweepInvalidates DEF BridgeGet, SessionCounts, Abstract!Next
<1>4. ASSUME NEW p \in Post, NEW sid \in SessionId, PostArrives(p, sid) PROVE Abstract!Next
  BY <1>4, SweepInvalidates DEF PostArrives, Abstract!Next
<1>5. ASSUME NEW p \in Post, PostAdvances(p)
      PROVE  Abstract!Next \/ UNCHANGED Abstract!vars
  BY <1>5, PostReadsFormRefines, ValidationSucceedsRefines, ValidationFailsRefines
  DEF PostAdvances, Abstract!Next
<1>6. ASSUME NEW r \in Redemption, NEW code \in AuthCode, LoadAuthorizationCode(r, code)
      PROVE  Abstract!Next
  BY <1>6, LoadRefines DEF Abstract!Next
<1>7. ASSUME NEW r \in Redemption, ExchangeAuthorizationCode(r) PROVE Abstract!Next
  BY <1>7, ExchangeRefines
<1>8. CASE UNCHANGED vars
  BY <1>8 DEF vars, Abstract!vars, Deadline, LiveCodes
<1> QED
  BY <1>1, <1>2, <1>3, <1>4, <1>5, <1>6, <1>7, <1>8 DEF Next

(***************************************************************************)
(* The bridge keeps its promise.                                           *)
(***************************************************************************)
THEOREM BridgeImplementsCodeGrant == Spec => Promise
BY RefinementInit, RefinementStep, InvariantHolds, PTL DEF Spec, Promise, Abstract!Spec
=============================================================================

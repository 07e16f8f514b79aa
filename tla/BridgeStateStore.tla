-------------------------- MODULE BridgeStateStore --------------------------
(***************************************************************************)
(* The in-memory store of OAuth bridge sessions (auth/bridge_state.py).    *)
(*                                                                         *)
(* Every method of BridgeStateStore runs under one lock, so a method is    *)
(* one operator from the store before it, and the clock it reads, to the   *)
(* store after it; a method that also answers has a second operator for    *)
(* the answer.  The handlers that call them are actions of BridgeFlow.     *)
(*                                                                         *)
(* A store is a record of the two dictionaries, as total functions in      *)
(* which None stands for an absent key.  Of a BridgeSession only the       *)
(* fields the handlers change or decide by are kept; the OAuth parameters  *)
(* copied from /authorize never change after put.                          *)
(***************************************************************************)
EXTENDS Naturals

CONSTANTS SessionId,   \* session ids, secrets.token_urlsafe(32)
          AuthCode,    \* authorization codes, secrets.token_urlsafe(32)
          Token,       \* ServiceX refresh tokens a user may paste
          None         \* Python's None, and an absent dictionary key

Status == {"pending", "done", "error"}

BridgeSession == [status         : Status,
                  servicex_token : Token \cup {None},
                  auth_code      : AuthCode \cup {None},
                  expires_at     : Nat]

Store == [by_session : [SessionId -> BridgeSession \cup {None}],
          by_code    : [AuthCode -> SessionId \cup {None}]]

ASSUME NoneIsNoValue ==
  None \notin SessionId \cup AuthCode \cup Token \cup BridgeSession

(***************************************************************************)
(* The two dictionaries agree: a code is indexed under exactly the session *)
(* that carries it.                                                        *)
(***************************************************************************)
Carries(st, sid, code) ==
  st.by_session[sid] # None /\ st.by_session[sid].auth_code = code

Consistent(st) ==
  \A sid \in SessionId, code \in AuthCode :
    st.by_code[code] = sid <=> Carries(st, sid, code)

(***************************************************************************)
(* The dataclass's defaults: a session starts pending, with no token and   *)
(* no code.                                                                *)
(***************************************************************************)
NewSession(expires_at) ==
  [status |-> "pending", servicex_token |-> None, auth_code |-> None,
   expires_at |-> expires_at]

EmptyStore == [by_session |-> [sid \in SessionId |-> None],
               by_code    |-> [code \in AuthCode |-> None]]

Expired(session, t) == session.expires_at <= t

(***************************************************************************)
(* _evict_locked: drop every expired session, and the code it had.         *)
(***************************************************************************)
\* Mutant of Evict: drops a session one tick before it expires.
EvictEarly(st, t) ==
  LET expired == {sid \in SessionId : /\ st.by_session[sid] # None
                                      /\ Expired(st.by_session[sid], t + 1)}
  IN [by_session |-> [sid \in SessionId |->
                        IF sid \in expired THEN None ELSE st.by_session[sid]],
      by_code    |-> [code \in AuthCode |->
                        IF \E sid \in expired : st.by_session[sid].auth_code = code
                        THEN None ELSE st.by_code[code]]]

\* Mutant of Evict: forgets the code index.
EvictSessionsOnly(st, t) ==
  [st EXCEPT !.by_session = [sid \in SessionId |->
     IF st.by_session[sid] # None /\ Expired(st.by_session[sid], t)
     THEN None ELSE st.by_session[sid]]]

Evict(st, t) ==
  LET expired == {sid \in SessionId : /\ st.by_session[sid] # None
                                      /\ Expired(st.by_session[sid], t)}
  IN [by_session |-> [sid \in SessionId |->
                        IF sid \in expired THEN None ELSE st.by_session[sid]],
      by_code    |-> [code \in AuthCode |->
                        IF \E sid \in expired : st.by_session[sid].auth_code = code
                        THEN None ELSE st.by_code[code]]]

(***************************************************************************)
(* put: evict, then store under the session's id.                          *)
(***************************************************************************)
Put(st, sid, session, t) ==
  LET swept == Evict(st, t)
  IN [swept EXCEPT !.by_session = [swept.by_session EXCEPT ![sid] = session]]

(***************************************************************************)
(* get_by_session_id leaves Evict(st, t) behind and answers with the       *)
(* session found there, or None.                                           *)
(***************************************************************************)
GetBySessionId(st, sid, t) == Evict(st, t).by_session[sid]

(***************************************************************************)
(* The session a code leads to, or None for an unknown code, a session     *)
(* that is gone, or one that has expired: what get_by_auth_code and        *)
(* pop_by_auth_code both answer.                                           *)
(***************************************************************************)
\* Mutant of PopByAuthCode: no expiry check.
AnyAge(st, code, t) ==
  IF st.by_code[code] = None THEN None ELSE st.by_session[st.by_code[code]]

GetByAuthCode(st, code, t) ==
  LET sid == st.by_code[code] IN
  IF sid = None \/ st.by_session[sid] = None THEN None
  ELSE IF Expired(st.by_session[sid], t) THEN None
  ELSE st.by_session[sid]

PopByAuthCode(st, code, t) == GetByAuthCode(st, code, t)

(***************************************************************************)
(* The store without a code and without the session it leads to.           *)
(***************************************************************************)
DropCode(st, code) ==
  LET sid == st.by_code[code] IN
  IF sid = None THEN st
  ELSE [by_session |-> [st.by_session EXCEPT ![sid] = None],
        by_code    |-> [st.by_code EXCEPT ![code] = None]]

(***************************************************************************)
(* get_by_auth_code drops an expired session and its code, and changes     *)
(* nothing otherwise.                                                      *)
(***************************************************************************)
AfterGetByAuthCode(st, code, t) ==
  LET sid == st.by_code[code] IN
  IF /\ sid # None
     /\ st.by_session[sid] # None
     /\ Expired(st.by_session[sid], t)
  THEN DropCode(st, code)
  ELSE st

(***************************************************************************)
(* pop_by_auth_code removes code and session whatever it then answers:     *)
(* the removal and the answer are one critical section, which is what      *)
(* makes a code single-use.                                                *)
(***************************************************************************)
\* Mutant of AfterPopByAuthCode: answers without removing.
KeepOnPop(st, code) == st

AfterPopByAuthCode(st, code) == DropCode(st, code)

(***************************************************************************)
(* mark_done: nothing for a session that is gone.  Otherwise the session's *)
(* previous code, if any, leaves the index, and token and code are set and *)
(* indexed.  Neither the status nor the expiry is looked at.               *)
(***************************************************************************)
\* Mutant of MarkDone: a code once set is kept.
KeepFirstCode(st, sid, token, code) ==
  IF st.by_session[sid] = None THEN st
  ELSE IF st.by_session[sid].auth_code # None
  THEN [st EXCEPT !.by_session = [st.by_session EXCEPT
                    ![sid] = [@ EXCEPT !.status = "done", !.servicex_token = token]]]
  ELSE [by_session |-> [st.by_session EXCEPT
                          ![sid] = [@ EXCEPT !.status = "done",
                                             !.servicex_token = token,
                                             !.auth_code = code]],
        by_code |-> [st.by_code EXCEPT ![code] = sid]]

MarkDone(st, sid, token, code) ==
  IF st.by_session[sid] = None THEN st
  ELSE [by_session |-> [st.by_session EXCEPT
                          ![sid] = [@ EXCEPT !.status = "done",
                                             !.servicex_token = token,
                                             !.auth_code = code]],
        by_code |-> [c \in AuthCode |->
                       IF c = code THEN sid
                       ELSE IF c = st.by_session[sid].auth_code THEN None
                       ELSE st.by_code[c]]]

(***************************************************************************)
(* mark_error: nothing for a session that is gone; otherwise only the      *)
(* status changes, whatever it was.  Token, code and index entry stay.     *)
(***************************************************************************)
\* Mutant of MarkError: a status the rest of the code does not know.
MarkFailed(st, sid) ==
  IF st.by_session[sid] = None THEN st
  ELSE [st EXCEPT !.by_session =
          [st.by_session EXCEPT ![sid] = [@ EXCEPT !.status = "failed"]]]

MarkError(st, sid) ==
  IF st.by_session[sid] = None THEN st
  ELSE [st EXCEPT !.by_session =
          [st.by_session EXCEPT ![sid] = [@ EXCEPT !.status = "error"]]]
=============================================================================

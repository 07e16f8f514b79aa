------------------------------ MODULE CodeGrant ------------------------------
(***************************************************************************)
(* What the sign-in bridge promises, without pages, requests or            *)
(* dictionaries: a sign-in has a deadline; validating a token for it may   *)
(* issue a code, which supersedes the sign-in's earlier codes; a live code *)
(* can be redeemed once, before the deadline, and redeeming it ends the    *)
(* sign-in; a live code may also stop being live.                          *)
(*                                                                         *)
(* BridgeFlow implements this specification (its property Promise).        *)
(***************************************************************************)
EXTENDS Naturals

CONSTANTS SessionId, AuthCode, ValidTokens, Redemption, TTL, MaxTime, None

VARIABLES
  now,
  deadline,  \* of each sign-in, None before it starts
  issued,    \* what each code was issued for, None before
  live,      \* the codes that can still be redeemed
  granted    \* the access tokens handed out

vars == <<now, deadline, issued, live, granted>>

Init ==
  /\ now = 0
  /\ deadline = [sid \in SessionId |-> None]
  /\ issued = [code \in AuthCode |-> None]
  /\ live = {}
  /\ granted = {}

Tick ==
  /\ now < MaxTime
  /\ now' = now + 1
  /\ UNCHANGED <<deadline, issued, live, granted>>

Start(sid) ==
  /\ deadline[sid] = None
  /\ deadline' = [deadline EXCEPT ![sid] = now + TTL]
  /\ live' \in SUBSET live
  /\ UNCHANGED <<now, issued, granted>>

Issue(sid, token, code) ==
  /\ deadline[sid] # None
  /\ token \in ValidTokens
  /\ issued[code] = None
  /\ \A g \in granted : issued[g.code].sid # sid
  /\ issued' = [issued EXCEPT ![code] = [sid |-> sid, token |-> token]]
  /\ live' \in SUBSET ({c \in live : issued[c].sid # sid} \cup {code})
  /\ UNCHANGED <<now, deadline, granted>>

Redeem(r, code) ==
  /\ code \in live
  /\ now < deadline[issued[code].sid]
  /\ live' = live \ {code}
  /\ granted' = granted \cup {[by |-> r, code |-> code,
                               token |-> issued[code].token, at |-> now]}
  /\ UNCHANGED <<now, deadline, issued>>

Invalidate ==
  /\ live' \in SUBSET live
  /\ UNCHANGED <<now, deadline, issued, granted>>

Next ==
  \/ Tick
  \/ \E sid \in SessionId : Start(sid)
  \/ \E sid \in SessionId, token \in ValidTokens, code \in AuthCode :
       Issue(sid, token, code)
  \/ \E r \in Redemption, code \in AuthCode : Redeem(r, code)
  \/ Invalidate

Spec == Init /\ [][Next]_vars
==============================================================================

---------------------------- MODULE AnswerPromise ----------------------------
(***************************************************************************)
(* What the end of a tool call tells its caller about ServiceX, without    *)
(* threads, queues or messages.  "changed": the call has changed ServiceX. *)
(* "unchanged": it has not and never will.  "over": it may have, and will  *)
(* not do so any more.  "doubt": it may have, or may yet, or never.  A     *)
(* read-only server changes nothing at all.                                *)
(*                                                                         *)
(* ToolCalls implements this specification (its property Promise).         *)
(***************************************************************************)
CONSTANT Call

VARIABLES
  readOnly,  \* the server runs with --read-only
  outcome,   \* what each call's caller knows
  changed    \* the calls that have changed ServiceX

vars == <<readOnly, outcome, changed>>

Outcome == {"none", "pending", "changed", "unchanged", "over", "doubt"}

Init ==
  /\ readOnly \in BOOLEAN
  /\ outcome = [k \in Call |-> "none"]
  /\ changed = {}

Become(k, from, to) ==
  /\ outcome[k] \in from
  /\ outcome' = [outcome EXCEPT ![k] = to]
  /\ UNCHANGED <<readOnly, changed>>

Start(k) == Become(k, {"none"}, "pending")

(***************************************************************************)
(* ServiceX is changed while the caller waits, or after it gave up.        *)
(***************************************************************************)
Change(k) ==
  /\ ~readOnly
  /\ outcome[k] \in {"pending", "doubt"}
  /\ changed' = changed \cup {k}
  /\ UNCHANGED <<readOnly, outcome>>

Confirm(k) == k \in changed /\ Become(k, {"pending"}, "changed")

RuleOut(k) == k \notin changed /\ Become(k, {"none", "pending"}, "unchanged")

Report(k) == Become(k, {"pending"}, "over")

LeaveInDoubt(k) == Become(k, {"none", "pending"}, "doubt")

Next ==
  \E k \in Call :
    \/ Start(k) \/ Change(k)
    \/ Confirm(k) \/ RuleOut(k) \/ Report(k) \/ LeaveInDoubt(k)

Spec == Init /\ [][Next]_vars
==============================================================================

--------------------------- MODULE ToolCalls_proofs ---------------------------
(***************************************************************************)
(* What a tool's answer says of ServiceX is true, for any calls, intents,  *)
(* tools, modes and number of threads: ToolCalls implements AnswerPromise. *)
(* The threads and their queue are never overdrawn, and no write is done   *)
(* twice without a lost answer or a cancellation.                          *)
(***************************************************************************)
EXTENDS ToolCalls, SequenceLemmas

(***************************************************************************)
(* How a call, its work and its request hang together: a request leaves    *)
(* only for a call that passed the gates; what is known of a call that     *)
(* ended, or whose thread returned, agrees with its request; what its      *)
(* caller reads fits that; and a call withdrawn before its request left    *)
(* has no work any more.                                                   *)
(***************************************************************************)
Fitting(k) ==
  /\ call[k].stage = "idle" =>
       call[k].intent = None /\ work[k] = "none" /\ request[k] = "unsent"
  /\ call[k].stage # "idle" => call[k].intent \in Intent
  /\ call[k].stage = "answered" => work[k] = "none"
  /\ call[k].stage = "withdrawn" =>
       call[k].cause \in {"never_sent", "withdrawn"} /\ call[k].answer = None
  /\ request[k] = "declined" => Uses(k, FlaggedTools)
  /\ work[k] \in {"queued", "authorizing"} => request[k] = "unsent"
  /\ work[k] = "returned" => call[k].stage = "waiting"

Gated(k) ==
  readOnly /\ Uses(k, WriteTools) => work[k] = "none" /\ request[k] = "unsent"

Truthful(k) ==
  /\ call[k].stage = "answered" \/ work[k] = "returned" =>
       /\ call[k].cause = "success" => request[k] \in {"applied", "declined"}
       /\ call[k].cause \in Refusals => request[k] \in {"unsent", "rejected"}
  /\ call[k].stage = "withdrawn" /\ call[k].cause = "never_sent" =>
       work[k] = "none" /\ request[k] = "unsent"

(***************************************************************************)
(* The answers that rule out an effect come from gates and failed redeems  *)
(* only.                                                                   *)
(***************************************************************************)
Fits(answer, cause) ==
  /\ answer = "result" <=> cause = "success"
  /\ answer \in RulesOutEffect => cause \in {"not_tried", "redeem"}
  /\ cause = "redeem" => answer \in {"link_at_broker", "ask_operator", "try_again"}

Legible(k) == call[k].stage = "answered" => Fits(call[k].answer, call[k].cause)

Types ==
  /\ readOnly \in BOOLEAN
  /\ tool \in [Intent -> Tool]
  /\ call \in [Call -> CallState]
  /\ work \in [Call -> Work]
  /\ request \in [Call -> Fate]

IInv == Types /\ \A k \in Call : Fitting(k) /\ Gated(k) /\ Truthful(k) /\ Legible(k)

LEMMA Constants == Workers \in Nat \ {0} /\ None \notin Intent
BY ConstantsOK

(***************************************************************************)
(* A step about one call leaves the facts about the others.                *)
(***************************************************************************)
LEMMA OthersKeep ==
  ASSUME IInv, NEW k \in Call, NEW c, NEW w, NEW q,
         call' = [call EXCEPT ![k] = c], work' = [work EXCEPT ![k] = w],
         request' = [request EXCEPT ![k] = q], UNCHANGED <<readOnly, tool>>
  PROVE  \A j \in Call \ {k} : Fitting(j)' /\ Gated(j)' /\ Truthful(j)' /\ Legible(j)'
<1> SUFFICES ASSUME NEW j \in Call \ {k}
             PROVE  Fitting(j)' /\ Gated(j)' /\ Truthful(j)' /\ Legible(j)'
  OBVIOUS
<1>1. call'[j] = call[j] /\ work'[j] = work[j] /\ request'[j] = request[j]
  BY DEF IInv, Types
<1>2. \A tools : Uses(j, tools)' <=> Uses(j, tools)
  BY <1>1 DEF Uses
<1> QED
  BY <1>1, <1>2 DEF IInv, Fitting, Gated, Truthful, Legible

(***************************************************************************)
(* So a step about call k keeps the invariant if it keeps the facts of k.  *)
(***************************************************************************)
LEMMA KeepsIInv ==
  ASSUME IInv, NEW k \in Call, NEW c \in CallState, NEW w \in Work, NEW q \in Fate,
         call' = [call EXCEPT ![k] = c], work' = [work EXCEPT ![k] = w],
         request' = [request EXCEPT ![k] = q], UNCHANGED <<readOnly, tool>>,
         Fitting(k)' /\ Gated(k)' /\ Truthful(k)' /\ Legible(k)'
  PROVE  IInv'
<1>1. Types'
  BY DEF IInv, Types
<1>2. \A j \in Call \ {k} : Fitting(j)' /\ Gated(j)' /\ Truthful(j)' /\ Legible(j)'
  BY OthersKeep
<1> QED
  BY <1>1, <1>2 DEF IInv

(***************************************************************************)
(* Seen from the promise: a step about k changes no other call's outcome,  *)
(* and no other call's effect.                                             *)
(***************************************************************************)
Outcomes == [k \in Call |-> Outcome(k)]

Changed == {k \in Call : Uses(k, WriteTools) /\ request[k] = "applied"}

LEMMA OthersLookTheSame ==
  ASSUME IInv, NEW k \in Call, NEW c, NEW q,
         call' = [call EXCEPT ![k] = c], request' = [request EXCEPT ![k] = q],
         UNCHANGED tool
  PROVE  /\ Outcomes' = [Outcomes EXCEPT ![k] = Outcome(k)']
         /\ \A j \in Call \ {k} : j \in Changed' <=> j \in Changed
<1>1. \A j \in Call \ {k} : call'[j] = call[j] /\ request'[j] = request[j]
  BY DEF IInv, Types
<1>2. \A j \in Call \ {k} : Uses(j, WriteTools)' <=> Uses(j, WriteTools)
  BY <1>1 DEF Uses
<1>3. \A j \in Call \ {k} : Outcome(j)' = Outcome(j)
  <2> SUFFICES ASSUME NEW j \in Call \ {k} PROVE Outcome(j)' = Outcome(j)
    OBVIOUS
  <2>1. call'[j] = call[j] /\ tool' = tool
    BY <1>1
  <2>2. \A tools : Uses(j, tools)' <=> Uses(j, tools)
    BY <2>1 DEF Uses
  <2> QED
    BY <2>1, <2>2 DEF Outcome
<1>4. Outcomes' = [Outcomes EXCEPT ![k] = Outcome(k)']
  BY <1>3 DEF Outcomes
<1> QED
  BY <1>1, <1>2, <1>4 DEF Changed

(***************************************************************************)
(* What may become of one call's outcome without a change of ServiceX.     *)
(***************************************************************************)
Moves(k) ==
  \/ Outcome(k)' = Outcome(k)
  \/ Outcome(k) = "none" /\ Outcome(k)' = "pending"
  \/ k \in Changed /\ Outcome(k) = "pending" /\ Outcome(k)' = "changed"
  \/ k \notin Changed /\ Outcome(k) \in {"none", "pending"} /\ Outcome(k)' = "unchanged"
  \/ Outcome(k) = "pending" /\ Outcome(k)' = "over"
  \/ Outcome(k) \in {"none", "pending"} /\ Outcome(k)' = "doubt"

LEMMA MovesArePromised ==
  ASSUME IInv, NEW k \in Call, NEW c, NEW q,
         call' = [call EXCEPT ![k] = c], request' = [request EXCEPT ![k] = q],
         UNCHANGED <<readOnly, tool>>, k \in Changed' <=> k \in Changed, Moves(k)
  PROVE  [P!Next]_(P!vars)
<1>1. Outcomes' = [Outcomes EXCEPT ![k] = Outcome(k)'] /\ Changed' = Changed
  <2>1. \A j \in Call : j \in Changed' <=> j \in Changed
    BY OthersLookTheSame
  <2>2. Changed' \subseteq Call /\ Changed \subseteq Call
    BY DEF Changed
  <2> QED
    BY <2>1, <2>2, OthersLookTheSame
<1>2. Outcomes[k] = Outcome(k) /\ Outcomes \in [Call -> {Outcome(j) : j \in Call}]
  BY DEF Outcomes
<1>3. CASE Outcome(k)' = Outcome(k)
  <2>1. Outcomes' = Outcomes
    BY <1>1, <1>2, <1>3
  <2> QED
    BY <1>1, <2>1 DEF P!vars, Outcomes, Changed
<1>4. CASE Outcome(k) = "none" /\ Outcome(k)' = "pending"
  <2>1. P!Start(k)
    BY <1>1, <1>2, <1>4 DEF P!Start, P!Become, Outcomes, Changed
  <2> QED
    BY <2>1 DEF P!Next
<1>5. CASE k \in Changed /\ Outcome(k) = "pending" /\ Outcome(k)' = "changed"
  <2>1. P!Confirm(k)
    BY <1>1, <1>2, <1>5 DEF P!Confirm, P!Become, Outcomes, Changed
  <2> QED
    BY <2>1 DEF P!Next
<1>6. CASE /\ k \notin Changed /\ Outcome(k) \in {"none", "pending"}
           /\ Outcome(k)' = "unchanged"
  <2>1. P!RuleOut(k)
    BY <1>1, <1>2, <1>6 DEF P!RuleOut, P!Become, Outcomes, Changed
  <2> QED
    BY <2>1 DEF P!Next
<1>7. CASE Outcome(k) = "pending" /\ Outcome(k)' = "over"
  <2>1. P!Report(k)
    BY <1>1, <1>2, <1>7 DEF P!Report, P!Become, Outcomes, Changed
  <2> QED
    BY <2>1 DEF P!Next
<1>8. CASE Outcome(k) \in {"none", "pending"} /\ Outcome(k)' = "doubt"
  <2>1. P!LeaveInDoubt(k)
    BY <1>1, <1>2, <1>8 DEF P!LeaveInDoubt, P!Become, Outcomes, Changed
  <2> QED
    BY <2>1 DEF P!Next
<1> QED
  BY <1>3, <1>4, <1>5, <1>6, <1>7, <1>8 DEF Moves

(***************************************************************************)
(* Both together: a step about k that leaves ServiceX alone need only be   *)
(* looked at for k.                                                        *)
(***************************************************************************)
LEMMA StepAbout ==
  ASSUME IInv, NEW k \in Call, NEW c \in CallState, NEW w \in Work, NEW q \in Fate,
         call' = [call EXCEPT ![k] = c], work' = [work EXCEPT ![k] = w],
         request' = [request EXCEPT ![k] = q], UNCHANGED <<readOnly, tool>>,
         Fitting(k)', Gated(k)', Truthful(k)', Legible(k)',
         k \in Changed' <=> k \in Changed, Moves(k)
  PROVE  IInv' /\ [P!Next]_(P!vars)
BY KeepsIInv, MovesArePromised

LEMMA Unassigned ==
  ASSUME Types, NEW k \in Call
  PROVE  /\ call = [call EXCEPT ![k] = call[k]] /\ call[k] \in CallState
         /\ work = [work EXCEPT ![k] = work[k]] /\ work[k] \in Work
         /\ request = [request EXCEPT ![k] = request[k]] /\ request[k] \in Fate
BY DEF Types

-------------------------------------------------------------------------------
(* Answers                                                                 *)

(***************************************************************************)
(* classify_error tests the broker's own errors first: the words of a      *)
(* message matter only for the others.                                     *)
(***************************************************************************)
LEMMA Classified ==
  ASSUME NEW exc
  PROVE  /\ ClassifyError(exc) \in Advice
         /\ (ClassifyError(exc) \in {"link_at_broker", "ask_operator"}) <=>
              ("proxynotavailableerror" \in exc.name \/ "proxyredeemerror" \in exc.name)
         /\ exc.name = {"timeout"} /\ exc.text = {"timeout"} =>
              ClassifyError(exc) = "try_again"
<1> DEFINE matching == {i \in 1..Len(Rules) : Rules[i].name \cap exc.name # {}
                                              \/ Rules[i].text \cap exc.text # {}}
<1>1. /\ Rules = << Rules[1], Rules[2], Rules[3], Rules[4], Rules[5], Rules[6] >>
      /\ Len(Rules) = 6
  BY DEF Rules
<1>2. /\ Rules[1].advice = "link_at_broker" /\ Rules[1].name = {"proxynotavailableerror"}
      /\ Rules[1].text = {}
      /\ Rules[2].advice = "ask_operator" /\ Rules[2].name = {"proxyredeemerror"}
      /\ Rules[2].text = {}
      /\ Rules[3].advice = "check_token" /\ Rules[3].name = {"authorizationerror"}
      /\ Rules[3].text = {"not authorized"}
      /\ Rules[4].advice = "list_ids" /\ Rules[4].name = {} /\ Rules[4].text = {"not found"}
      /\ Rules[5].advice = "check_query" /\ Rules[5].name = {}
      /\ Rules[5].text = {"invalid transform request"}
      /\ Rules[6].advice = "try_again" /\ Rules[6].name = {"connectionerror", "timeout"}
  BY DEF Rules, Rule
<1>3. ClassifyError(exc) = IF matching = {} THEN "none" ELSE Rules[Min(matching)].advice
  BY DEF ClassifyError
<1> HIDE DEF matching
<1>4. ASSUME NEW i \in 1..6
      PROVE  i \in matching <=> \/ Rules[i].name \cap exc.name # {}
                               \/ Rules[i].text \cap exc.text # {}
  BY <1>1, <1>4 DEF matching
<1> DEFINE name == exc.name
           text == exc.text
<1>5. /\ 1 \in matching <=> "proxynotavailableerror" \in name
      /\ 2 \in matching <=> "proxyredeemerror" \in name
      /\ 3 \in matching <=> "authorizationerror" \in name \/ "not authorized" \in text
      /\ 4 \in matching <=> "not found" \in text
      /\ 5 \in matching <=> "invalid transform request" \in text
      /\ "timeout" \in name => 6 \in matching
      /\ matching \subseteq 1..6
  <2>1. 1 \in matching <=> {"proxynotavailableerror"} \cap exc.name # {} \/ {} \cap exc.text # {}
    <3>1. 1 \in matching <=> Rules[1].name \cap exc.name # {} \/ Rules[1].text \cap exc.text # {}
      BY <1>4
    <3> QED
      BY <1>2, <3>1, Zenon
  <2>2. 2 \in matching <=> {"proxyredeemerror"} \cap exc.name # {} \/ {} \cap exc.text # {}
    <3>1. 2 \in matching <=> Rules[2].name \cap exc.name # {} \/ Rules[2].text \cap exc.text # {}
      BY <1>4
    <3> QED
      BY <1>2, <3>1, Zenon
  <2>3. 3 \in matching <=> {"authorizationerror"} \cap exc.name # {}
                            \/ {"not authorized"} \cap exc.text # {}
    <3>1. 3 \in matching <=> Rules[3].name \cap exc.name # {} \/ Rules[3].text \cap exc.text # {}
      BY <1>4
    <3> QED
      BY <1>2, <3>1, Zenon
  <2>4. 4 \in matching <=> {} \cap exc.name # {} \/ {"not found"} \cap exc.text # {}
    <3>1. 4 \in matching <=> Rules[4].name \cap exc.name # {} \/ Rules[4].text \cap exc.text # {}
      BY <1>4
    <3> QED
      BY <1>2, <3>1, Zenon
  <2>5. 5 \in matching <=> {} \cap exc.name # {}
                            \/ {"invalid transform request"} \cap exc.text # {}
    <3>1. 5 \in matching <=> Rules[5].name \cap exc.name # {} \/ Rules[5].text \cap exc.text # {}
      BY <1>4
    <3> QED
      BY <1>2, <3>1, Zenon
  <2>6. 6 \in matching <=> {"connectionerror", "timeout"} \cap exc.name # {}
                            \/ Rules[6].text \cap exc.text # {}
    <3>1. 6 \in matching <=> Rules[6].name \cap exc.name # {} \/ Rules[6].text \cap exc.text # {}
      BY <1>4
    <3> QED
      BY <1>2, <3>1, Zenon
  <2>7. matching \subseteq 1..6
    BY <1>1 DEF matching
  <2>8. \A x : {} \cap x = {}
    OBVIOUS
  <2>9. ASSUME NEW e, NEW x PROVE {e} \cap x # {} <=> e \in x
    OBVIOUS
  <2>10. "timeout" \in exc.name => {"connectionerror", "timeout"} \cap exc.name # {}
    OBVIOUS
  <2> QED
    BY <2>1, <2>2, <2>3, <2>4, <2>5, <2>6, <2>7, <2>8, <2>9, <2>10
<1> HIDE DEF name, text
<1>6. ASSUME matching # {}
      PROVE  /\ Min(matching) \in matching /\ Min(matching) \in 1..6
             /\ 1 \in matching \/ 2 \in matching <=> Min(matching) \in {1, 2}
  <2>1. \A n \in matching : n \in 1..6
    BY <1>5, Zenon
  <2>2. \E n \in matching : \A m \in matching : n <= m
    BY <1>6, <2>1
  <2>3. Min(matching) \in matching /\ \A m \in matching : Min(matching) <= m
    BY <2>2 DEF Min
  <2> QED
    BY <2>1, <2>3
<1>7. ASSUME NEW n \in 1..6
      PROVE  /\ Rules[n].advice \in Advice
             /\ Rules[n].advice \in {"link_at_broker", "ask_operator"} <=> n \in {1, 2}
  <2>1. n = 1 \/ n = 2 \/ n = 3 \/ n = 4 \/ n = 5 \/ n = 6
    BY <1>7
  <2>2. CASE n = 1
    BY <1>2, <2>2 DEF Advice
  <2>3. CASE n = 2
    BY <1>2, <2>3 DEF Advice
  <2>4. CASE n = 3
    BY <1>2, <2>4 DEF Advice
  <2>5. CASE n = 4
    BY <1>2, <2>5 DEF Advice
  <2>6. CASE n = 5
    BY <1>2, <2>6 DEF Advice
  <2>7. CASE n = 6
    BY <1>2, <2>7 DEF Advice
  <2> QED
    BY <2>1, <2>2, <2>3, <2>4, <2>5, <2>6, <2>7
<1>8. ClassifyError(exc) \in Advice
  <2>1. CASE matching = {}
    BY <1>3, <2>1 DEF Advice
  <2>2. CASE matching # {}
    <3>1. ClassifyError(exc) = Rules[Min(matching)].advice /\ Min(matching) \in 1..6
      BY <1>3, <1>6, <2>2
    <3> QED
      BY <1>7, <3>1, Zenon
  <2> QED
    BY <2>1, <2>2
<1>9. (ClassifyError(exc) \in {"link_at_broker", "ask_operator"}) <=>
        (1 \in matching \/ 2 \in matching)
  <2>1. CASE matching = {}
    BY <1>3, <2>1
  <2>2. CASE matching # {}
    <3>1. ClassifyError(exc) = Rules[Min(matching)].advice /\ Min(matching) \in 1..6
      BY <1>3, <1>6, <2>2
    <3>2. ClassifyError(exc) \in {"link_at_broker", "ask_operator"} <=> Min(matching) \in {1, 2}
      BY <1>7, <3>1, Zenon
    <3> QED
      BY <1>6, <2>2, <3>2
  <2> QED
    BY <2>1, <2>2
<1>10. ASSUME name = {"timeout"}, text = {"timeout"}
       PROVE  ClassifyError(exc) = "try_again"
  <2>1. /\ 1 \notin matching /\ 2 \notin matching /\ 3 \notin matching
        /\ 4 \notin matching /\ 5 \notin matching /\ 6 \in matching
    BY <1>5, <1>10
  <2>2. Min(matching) = 6
    BY <1>6, <2>1
  <2> QED
    BY <1>3, <1>2, <2>1, <2>2
<1> QED
  BY <1>5, <1>8, <1>9, <1>10 DEF name, text

(***************************************************************************)
(* So only a failed redeem is answered with the broker's advice, and it    *)
(* never with another, but for a timeout.                                  *)
(***************************************************************************)
LEMMA AnswersFit ==
  ASSUME NEW cause \in Cause, NEW a \in AnswersFor(cause)
  PROVE  a \in Answer /\ Fits(a, cause)
<1>1. CASE cause = "success"
  BY <1>1 DEF AnswersFor, Answer, Fits, RulesOutEffect
<1>2. CASE cause # "success"
  <2>1. a \in {ClassifyError(exc) : exc \in Exceptions(cause)}
    BY <1>2 DEF AnswersFor, AdviceFor
  <2>2. PICK exc \in Exceptions(cause) : a = ClassifyError(exc)
    BY <2>1
  <2>3. a \in Advice /\ a \notin {"result", "read_only"} /\ a \in Answer
    BY <2>2, Classified DEF Advice, Answer
  <2>4. CASE cause = "redeem"
    <3>1. \/ exc.name \in {{"proxynotavailableerror"}, {"proxyredeemerror"}}
          \/ exc.name = {"timeout"} /\ exc.text = {"timeout"}
      <4>1. Exceptions("redeem") =
              Raised({{"proxynotavailableerror"}, {"proxyredeemerror"}}, Messages)
                \cup Raised({{"timeout"}}, {{"timeout"}})
        BY Zenon DEF Exceptions
      <4> QED
        BY <2>4, <4>1 DEF Raised
    <3>2. a \in {"link_at_broker", "ask_operator", "try_again"}
      BY <2>2, <3>1, Classified
    <3> QED
      BY <1>2, <2>3, <2>4, <3>2 DEF Fits
  <2>5. CASE cause # "redeem"
    <3>1. exc.name \in {{}, {"authorizationerror"}, {"connectionerror"}, {"timeout"}}
      BY <1>2, <2>5 DEF Exceptions, Raised
    <3>2. a \notin {"link_at_broker", "ask_operator"}
      <4>1. "proxynotavailableerror" \notin exc.name /\ "proxyredeemerror" \notin exc.name
        BY <3>1
      <4> QED
        BY <2>2, <4>1, Classified
    <3> QED
      BY <1>2, <2>3, <2>5, <3>2 DEF Fits, RulesOutEffect
  <2> QED
    BY <2>4, <2>5
<1> QED
  BY <1>1, <1>2

-------------------------------------------------------------------------------
(* The steps of a call                                                     *)

(***************************************************************************)
(* A refusal at the head of the tool: the call was never made.             *)
(***************************************************************************)
LEMMA RefusedAtOnce ==
  ASSUME IInv, NEW k \in Call, NEW i \in Intent, MayAsk(k, i),
         NEW a \in {"read_only"} \cup AdviceFor["not_tried"], RefuseAtOnce(k, i, a)
  PROVE  IInv' /\ [P!Next]_(P!vars)
<1> DEFINE c == [intent |-> i, stage |-> "answered", cause |-> "not_tried", answer |-> a]
<1>1. call[k].stage = "idle" /\ call[k].intent = None /\ work[k] = "none" /\ request[k] = "unsent"
  BY DEF MayAsk, IsNextCall, IInv, Fitting
<1>2. call' = [call EXCEPT ![k] = c] /\ UNCHANGED <<readOnly, tool, work, request>>
  BY DEF RefuseAtOnce
<1>3. a \in Answer /\ Fits(a, "not_tried")
  <2>1. CASE a = "read_only"
    BY <2>1 DEF Answer, Fits, RulesOutEffect
  <2>2. CASE a \in AdviceFor["not_tried"]
    BY <2>2, AnswersFit DEF Cause, Refusals, AnswersFor
  <2> QED
    BY <2>1, <2>2
<1>4. /\ c \in CallState /\ c.stage = "answered" /\ c.cause = "not_tried" /\ c.answer = a
  BY <1>3 DEF CallState, Cause, Refusals
<1> HIDE DEF c
<1>5. call'[k] = c /\ work'[k] = "none" /\ request'[k] = "unsent"
  BY <1>1, <1>2 DEF IInv, Types
<1>6. Fitting(k)' /\ Gated(k)' /\ Truthful(k)' /\ Legible(k)'
  <2>1. c.intent \in Intent
    BY DEF c
  <2> QED
    BY <1>3, <1>4, <1>5, <2>1 DEF Fitting, Gated, Truthful, Legible
<1>7. k \notin Changed /\ k \notin Changed'
  BY <1>1, <1>5 DEF Changed
<1>8. Outcome(k) = "none"
  BY <1>1 DEF Outcome
<1>9. Outcome(k)' \in {"unchanged", "doubt"}
  <2>1. a # "result"
    BY <1>3 DEF Fits
  <2> QED
    BY <1>4, <1>5, <2>1 DEF Outcome
<1>10. Moves(k) /\ (k \in Changed' <=> k \in Changed)
  BY <1>7, <1>8, <1>9 DEF Moves
<1>11. /\ work' = [work EXCEPT ![k] = work[k]] /\ work[k] \in Work
       /\ request' = [request EXCEPT ![k] = request[k]] /\ request[k] \in Fate
  BY <1>2, Unassigned DEF IInv
<1> QED
  BY <1>2, <1>4, <1>6, <1>10, <1>11, StepAbout

LEMMA Started ==
  ASSUME IInv, NEW k \in Call, NEW i \in Intent, Start(k, i)
  PROVE  IInv' /\ [P!Next]_(P!vars)
<1> DEFINE c == [intent |-> i, stage |-> "waiting", cause |-> None, answer |-> None]
           w == IF tool[i] \in ThreadTools THEN "queued" ELSE "authorizing"
<1>1. call[k].stage = "idle" /\ call[k].intent = None /\ work[k] = "none" /\ request[k] = "unsent"
  BY DEF Start, MayAsk, IsNextCall, IInv, Fitting
<1>2. /\ call' = [call EXCEPT ![k] = c] /\ work' = [work EXCEPT ![k] = w]
      /\ UNCHANGED <<readOnly, tool, request>>
  BY DEF Start
<1>3. c \in CallState /\ w \in Work
  BY DEF CallState, Cause, Work
<1>4. call'[k] = c /\ work'[k] = w /\ request'[k] = "unsent"
  BY <1>1, <1>2 DEF IInv, Types
<1>5. Fitting(k)'
  BY <1>3, <1>4 DEF Fitting
<1>6. Gated(k)'
  BY <1>2, <1>3, <1>4 DEF Gated, Uses, Start, WriteAllowed
<1>7. Truthful(k)' /\ Legible(k)'
  BY <1>3, <1>4 DEF Truthful, Legible
<1>8. k \notin Changed /\ k \notin Changed'
  BY <1>1, <1>4 DEF Changed
<1>9. Outcome(k) = "none" /\ Outcome(k)' = "pending"
  BY <1>1, <1>3, <1>4 DEF Outcome
<1>10. Types
  BY DEF IInv
<1> HIDE DEF c, w
<1> QED
  BY <1>2, <1>3, <1>5, <1>6, <1>7, <1>8, <1>9, <1>10, Unassigned, StepAbout DEF Moves

(***************************************************************************)
(* A thread takes the call, or its request leaves: its caller sees nothing *)
(* of either.                                                              *)
(***************************************************************************)
LEMMA Proceeds ==
  ASSUME IInv, NEW k \in Call, NEW w \in {"authorizing", "sent"}, NEW q \in Fate,
         work[k] \in {"queued", "authorizing"}, work' = [work EXCEPT ![k] = w],
         q = (IF w = "sent" THEN "in_flight" ELSE request[k]),
         request' = [request EXCEPT ![k] = q], UNCHANGED <<readOnly, tool, call>>
  PROVE  IInv' /\ [P!Next]_(P!vars)
<1>1. Types /\ w \in Work
  BY DEF IInv, Work
<1>2. call'[k] = call[k] /\ work'[k] = w /\ request'[k] = q
  BY <1>1 DEF Types
<1>3. /\ call[k].stage \notin {"idle", "answered"} /\ request[k] = "unsent"
      /\ ~(call[k].stage = "withdrawn" /\ call[k].cause = "never_sent")
      /\ ~(readOnly /\ Uses(k, WriteTools))
  BY DEF IInv, Fitting, Gated, Truthful
<1>4. \A tools : Uses(k, tools)' <=> Uses(k, tools)
  BY <1>2 DEF Uses
<1>5. Fitting(k)' /\ Gated(k)' /\ Truthful(k)' /\ Legible(k)'
  BY <1>2, <1>3, <1>4 DEF IInv, Fitting, Gated, Truthful, Legible
<1>6. k \notin Changed /\ k \notin Changed'
  BY <1>2, <1>3 DEF Changed
<1>7. Outcome(k)' = Outcome(k)
  BY <1>2, <1>4 DEF Outcome
<1> QED
  BY <1>1, <1>5, <1>6, <1>7, Unassigned, StepAbout DEF Moves

(***************************************************************************)
(* The work on a call ends, and ServiceX has or has not done what the      *)
(* cause of its end says.                                                  *)
(***************************************************************************)
LEMMA Ended ==
  ASSUME IInv, NEW k \in Call, NEW cause \in {"redeem", "rejected", "unknown", "success"},
         InProgress(k), Ends(k, cause),
         cause = "success" => request[k] \in {"applied", "declined"},
         cause \in Refusals => request[k] \in {"unsent", "rejected"}
  PROVE  IInv' /\ [P!Next]_(P!vars)
<1> DEFINE waiting == call[k].stage = "waiting"
           thread == Uses(k, ThreadTools)
           w == IF waiting /\ thread THEN "returned" ELSE "none"
<1>1. Types /\ work[k] \in {"authorizing", "sent"}
  BY DEF IInv, InProgress
<1>2. call[k] \in CallState /\ cause \in Cause
  BY <1>1 DEF Types, Cause, Refusals, Doubts
<1>3. work' = [work EXCEPT ![k] = w] /\ UNCHANGED <<readOnly, tool, request>>
  BY DEF Ends
<1>4. /\ call[k].stage \in {"waiting", "withdrawn"} /\ call[k].intent \in Intent
      /\ ~(call[k].stage = "withdrawn" /\ call[k].cause = "never_sent")
      /\ call[k].stage = "withdrawn" => call[k].cause = "withdrawn" /\ call[k].answer = None
      /\ request[k] = "declined" => Uses(k, FlaggedTools)
      /\ ~(readOnly /\ Uses(k, WriteTools))
  BY <1>1, <1>2 DEF IInv, Fitting, Gated, Truthful, CallState
<1>5. ASSUME NEW c \in CallState, call' = [call EXCEPT ![k] = c], c.intent = call[k].intent,
             ~waiting => c = call[k],
             waiting /\ thread => c.stage = "waiting" /\ c.cause = cause,
             waiting /\ ~thread => c.stage = "answered" /\ c.cause = cause /\ Fits(c.answer, cause)
      PROVE  IInv' /\ [P!Next]_(P!vars)
  <2>1. call'[k] = c /\ work'[k] = w /\ request'[k] = request[k]
    BY <1>1, <1>3, <1>5 DEF Types
  <2>2. \A tools : Uses(k, tools)' <=> Uses(k, tools)
    BY <1>3, <1>5, <2>1 DEF Uses
  <2>3. Fitting(k)' /\ Gated(k)'
    BY <1>3, <1>4, <1>5, <2>1, <2>2 DEF Fitting, Gated
  <2>4. Truthful(k)' /\ Legible(k)'
    BY <1>4, <1>5, <2>1 DEF Truthful, Legible
  <2>5. k \in Changed' <=> k \in Changed
    BY <2>1, <2>2 DEF Changed
  <2>6. Moves(k)
    <3>1. CASE ~waiting \/ thread
      BY <1>4, <1>5, <2>1, <2>2, <3>1 DEF Outcome, Moves
    <3>2. CASE waiting /\ ~thread
      <4>1. /\ Outcome(k) = "pending" /\ call'[k].stage = "answered"
            /\ call'[k].answer = c.answer /\ Fits(c.answer, cause)
        BY <1>5, <2>1, <3>2 DEF Outcome
      <4> USE DEF Outcome, Moves, Fits
      <4>2. CASE ~Uses(k, WriteTools)
        BY <2>2, <4>1, <4>2 DEF Changed
      <4>3. CASE Uses(k, WriteTools) /\ c.answer \in RulesOutEffect
        <5>1. request[k] # "applied"
          BY <4>1, <4>3 DEF Refusals
        <5> QED
          BY <2>2, <4>1, <4>3, <5>1 DEF Changed
      <4>4. CASE Uses(k, WriteTools) /\ c.answer \notin RulesOutEffect /\ cause # "success"
        BY <2>2, <4>1, <4>4
      <4>5. CASE Uses(k, WriteTools) /\ c.answer \notin RulesOutEffect /\ cause = "success"
        <5>1. Uses(k, FlaggedTools) \/ k \in Changed
          BY <1>4, <4>5 DEF Changed
        <5> QED
          BY <2>2, <4>1, <4>5, <5>1
      <4> QED
        BY <4>2, <4>3, <4>4, <4>5
    <3> QED
      BY <3>1, <3>2
  <2>7. w \in Work
    BY DEF Work
  <2> HIDE DEF w
  <2> QED
    BY <1>1, <1>3, <1>5, <2>3, <2>4, <2>5, <2>6, <2>7, Unassigned, StepAbout
<1>6. CASE ~waiting
  <2>1. call' = [call EXCEPT ![k] = call[k]]
    BY <1>1, <1>6, Unassigned DEF Ends
  <2> QED
    BY <1>2, <1>5, <1>6, <2>1
<1>7. CASE waiting /\ thread
  <2> DEFINE c == [intent |-> call[k].intent, stage |-> "waiting", cause |-> cause, answer |-> None]
  <2>1. call' = [call EXCEPT ![k] = c]
    BY <1>1, <1>7 DEF Ends, Become, Types
  <2>2. c \in CallState /\ c.intent = call[k].intent /\ c.stage = "waiting" /\ c.cause = cause
    BY <1>2 DEF CallState
  <2> HIDE DEF c
  <2> QED
    BY <1>5, <1>7, <2>1, <2>2
<1>8. CASE waiting /\ ~thread
  <2>1. PICK a \in AnswersFor(cause) : Become(k, "answered", cause, a)
    BY <1>8 DEF Ends, AnswerCall
  <2>2. a \in Answer /\ Fits(a, cause)
    BY <1>2, AnswersFit
  <2> DEFINE c == [intent |-> call[k].intent, stage |-> "answered", cause |-> cause, answer |-> a]
  <2>3. call' = [call EXCEPT ![k] = c]
    BY <1>1, <2>1 DEF Become, Types
  <2>4. /\ c \in CallState /\ c.intent = call[k].intent /\ c.stage = "answered"
        /\ c.cause = cause /\ c.answer = a
    BY <1>2, <2>2 DEF CallState
  <2> HIDE DEF c
  <2> QED
    BY <1>5, <1>8, <2>2, <2>3, <2>4
<1> QED
  BY <1>6, <1>7, <1>8

LEMMA Delivered ==
  ASSUME IInv, NEW k \in Call, Deliver(k)
  PROVE  IInv' /\ [P!Next]_(P!vars)
<1>1. Types /\ call[k] \in CallState /\ call[k].cause \in Cause
  BY DEF IInv, Types, CallState
<1>2. PICK a \in AnswersFor(call[k].cause) : Become(k, "answered", call[k].cause, a)
  BY DEF Deliver, AnswerCall
<1>3. a \in Answer /\ Fits(a, call[k].cause)
  BY <1>1, AnswersFit
<1> DEFINE c == [intent |-> call[k].intent, stage |-> "answered", cause |-> call[k].cause, answer |-> a]
<1>4. /\ call' = [call EXCEPT ![k] = c] /\ work' = [work EXCEPT ![k] = "none"]
      /\ UNCHANGED <<readOnly, tool, request>>
  BY <1>1, <1>2 DEF Deliver, Become, Types
<1>5. /\ c \in CallState /\ "none" \in Work /\ c.intent = call[k].intent
      /\ c.stage = "answered" /\ c.cause = call[k].cause /\ c.answer = a
  BY <1>1, <1>3 DEF CallState, Work
<1> HIDE DEF c
<1>6. call'[k] = c /\ work'[k] = "none" /\ request'[k] = request[k]
  BY <1>1, <1>4 DEF Types
<1>7. \A tools : Uses(k, tools)' <=> Uses(k, tools)
  BY <1>4, <1>5, <1>6 DEF Uses
<1>8. /\ work[k] = "returned" /\ call[k].stage = "waiting" /\ call[k].intent \in Intent
      /\ ~(readOnly /\ Uses(k, WriteTools))
      /\ request[k] = "declined" => Uses(k, FlaggedTools)
      /\ call[k].cause = "success" => request[k] \in {"applied", "declined"}
      /\ call[k].cause \in Refusals => request[k] \in {"unsent", "rejected"}
  BY DEF Deliver, IInv, Fitting, Gated, Truthful
<1>9. Fitting(k)' /\ Gated(k)'
  BY <1>4, <1>5, <1>6, <1>7, <1>8 DEF Fitting, Gated
<1>10. Truthful(k)' /\ Legible(k)'
  BY <1>3, <1>5, <1>6, <1>8 DEF Truthful, Legible
<1>11. k \in Changed' <=> k \in Changed
  BY <1>6, <1>7 DEF Changed
<1>12. Moves(k)
  <2> USE DEF Outcome, Moves, Fits
  <2>1. /\ Outcome(k) = "pending" /\ call'[k].stage = "answered" /\ call'[k].answer = a
    BY <1>5, <1>6, <1>8
  <2>2. CASE ~Uses(k, WriteTools)
    BY <1>7, <2>1, <2>2 DEF Changed
  <2>3. CASE Uses(k, WriteTools) /\ a \in RulesOutEffect
    <3>1. request[k] # "applied"
      BY <1>3, <1>8, <2>3 DEF Refusals
    <3> QED
      BY <1>7, <2>1, <2>3, <3>1 DEF Changed
  <2>4. CASE Uses(k, WriteTools) /\ a \notin RulesOutEffect /\ a # "result"
    BY <1>7, <2>1, <2>4
  <2>5. CASE Uses(k, WriteTools) /\ a \notin RulesOutEffect /\ a = "result"
    <3>1. Uses(k, FlaggedTools) \/ k \in Changed
      BY <1>3, <1>8, <2>5 DEF Changed
    <3> QED
      BY <1>7, <2>1, <2>5, <3>1
  <2> QED
    BY <2>2, <2>3, <2>4, <2>5
<1> QED
  BY <1>1, <1>4, <1>5, <1>9, <1>10, <1>11, <1>12, Unassigned, StepAbout

(***************************************************************************)
(* A caller gives up: what was queued, or not sent by a coroutine, never   *)
(* leaves, but the caller cannot tell and must be in doubt about a write.  *)
(***************************************************************************)
LEMMA Withdrawn ==
  ASSUME IInv, NEW k \in Call, Withdraw(k)
  PROVE  IInv' /\ [P!Next]_(P!vars)
<1> DEFINE unsent == work[k] = "queued" \/ (work[k] = "authorizing" /\ ~RunsOn(k))
           c == [intent |-> call[k].intent, stage |-> "withdrawn",
                 cause |-> IF unsent THEN "never_sent" ELSE "withdrawn", answer |-> None]
           w == IF RunsOn(k) THEN work[k] ELSE "none"
<1>1. Types /\ call[k] \in CallState
  BY DEF IInv, Types
<1>2. /\ call' = [call EXCEPT ![k] = c] /\ work' = [work EXCEPT ![k] = w]
      /\ UNCHANGED <<readOnly, tool, request>>
  BY <1>1, Unassigned DEF Withdraw, Become, Types
<1>3. c \in CallState /\ w \in Work /\ c.intent = call[k].intent
  BY <1>1 DEF CallState, Work, Types, Cause, Refusals, Doubts
<1>4. call'[k] = c /\ work'[k] = w /\ request'[k] = request[k]
  BY <1>1, <1>2 DEF Types
<1>5. \A tools : Uses(k, tools)' <=> Uses(k, tools)
  BY <1>2, <1>3, <1>4 DEF Uses
<1>6. /\ call[k].stage = "waiting" /\ call[k].intent \in Intent
      /\ readOnly /\ Uses(k, WriteTools) => work[k] = "none" /\ request[k] = "unsent"
      /\ work[k] \in {"queued", "authorizing"} => request[k] = "unsent"
      /\ request[k] = "declined" => Uses(k, FlaggedTools)
  BY DEF Withdraw, IInv, Fitting, Gated
<1>7. /\ w \in {"none", work[k]} /\ w \notin {"queued", "returned"}
      /\ unsent => w = "none" /\ request[k] = "unsent"
  BY <1>6 DEF RunsOn, InProgress
<1>8. Fitting(k)' /\ Gated(k)'
  BY <1>2, <1>3, <1>4, <1>5, <1>6, <1>7 DEF Fitting, Gated
<1>9. Truthful(k)' /\ Legible(k)'
  BY <1>4, <1>7 DEF Truthful, Legible
<1>10. k \in Changed' <=> k \in Changed
  BY <1>4, <1>5 DEF Changed
<1>11. Moves(k)
  <2>1. Outcome(k) = "pending"
    BY <1>6 DEF Outcome
  <2>2. None \notin RulesOutEffect /\ None # "result"
    BY NoneIsNoAnswer DEF RulesOutEffect, Answer, Advice
  <2>3. call'[k].stage = "withdrawn" /\ call'[k].answer = None
    BY <1>4
  <2>4. IF Uses(k, WriteTools) THEN Outcome(k)' = "doubt" ELSE Outcome(k)' = "unchanged"
    BY <1>5, <2>2, <2>3 DEF Outcome
  <2> QED
    BY <2>1, <2>4 DEF Moves, Changed
<1> HIDE DEF c, w
<1> QED
  BY <1>1, <1>2, <1>3, <1>8, <1>9, <1>10, <1>11, Unassigned, StepAbout

(***************************************************************************)
(* ServiceX decides on a request in flight: the caller of a write waits or *)
(* is in doubt, for nobody is told anything of such a request.             *)
(***************************************************************************)
LEMMA Decided ==
  ASSUME IInv, NEW k \in Call, NEW q \in {"applied", "declined", "rejected"},
         request[k] = "in_flight", q = "declined" => Uses(k, FlaggedTools),
         request' = [request EXCEPT ![k] = q], UNCHANGED <<readOnly, tool, call, work>>
  PROVE  IInv' /\ [P!Next]_(P!vars)
<1>1. Types /\ call[k] \in CallState /\ q \in Fate
  BY DEF IInv, Types, Fate
<1>2. call'[k] = call[k] /\ work'[k] = work[k] /\ request'[k] = q
  BY <1>1 DEF Types
<1>3. \A tools : Uses(k, tools)' <=> Uses(k, tools)
  BY DEF Uses
<1>4. /\ call[k].stage # "idle" /\ ~(readOnly /\ Uses(k, WriteTools))
      /\ work[k] \notin {"queued", "authorizing"}
      /\ ~(call[k].stage = "withdrawn" /\ call[k].cause = "never_sent")
      /\ call[k].stage = "answered" \/ work[k] = "returned" =>
           call[k].cause # "success" /\ call[k].cause \notin Refusals
  BY DEF IInv, Fitting, Gated, Truthful
<1>5. Fitting(k)' /\ Gated(k)' /\ Truthful(k)' /\ Legible(k)'
  BY <1>2, <1>3, <1>4 DEF IInv, Fitting, Gated, Truthful, Legible
<1>6. IInv'
  BY <1>1, <1>5, Unassigned, KeepsIInv
<1>7. Outcome(k)' = Outcome(k) /\ (Uses(k, WriteTools) => Outcome(k) \in {"pending", "doubt"})
  <2>1. call[k].stage = "withdrawn" => call[k].answer = None
    BY DEF IInv, Fitting
  <2>2. call[k].stage \in {"waiting", "answered", "withdrawn"}
    BY <1>1, <1>4 DEF CallState
  <2>3. None \notin RulesOutEffect /\ None # "result"
    BY NoneIsNoAnswer DEF RulesOutEffect, Answer, Advice
  <2>4. call[k].stage = "answered" =>
          call[k].answer \notin RulesOutEffect /\ call[k].answer # "result"
    BY <1>4 DEF IInv, Legible, Fits, Refusals
  <2>5. Uses(k, WriteTools) => Outcome(k) \in {"pending", "doubt"}
    BY <2>1, <2>2, <2>3, <2>4 DEF Outcome
  <2>6. Outcome(k)' = Outcome(k)
    BY <1>2, <1>3 DEF Outcome
  <2> QED
    BY <2>5, <2>6
<1>8. CASE k \in Changed' <=> k \in Changed
  <2>1. Moves(k)
    BY <1>7 DEF Moves
  <2>2. call' = [call EXCEPT ![k] = call[k]]
    BY <1>1, Unassigned
  <2> QED
    BY <2>1, <2>2, <1>6, <1>8, MovesArePromised
<1>9. CASE ~(k \in Changed' <=> k \in Changed)
  <2>1. q = "applied" /\ Uses(k, WriteTools)
    BY <1>2, <1>3, <1>9 DEF Changed
  <2>2. /\ Outcomes' = [Outcomes EXCEPT ![k] = Outcome(k)']
        /\ \A j \in Call \ {k} : j \in Changed' <=> j \in Changed
    BY <1>1, Unassigned, OthersLookTheSame
  <2>3. Outcomes' = Outcomes /\ Outcomes[k] \in {"pending", "doubt"}
    BY <1>7, <2>1, <2>2 DEF Outcomes
  <2>4. Changed' = Changed \cup {k}
    <3>1. Changed' \subseteq Call /\ Changed \subseteq Call /\ k \in Changed'
      BY <1>2, <1>3, <2>1 DEF Changed
    <3> QED
      BY <2>2, <3>1
  <2>5. ~readOnly
    BY <1>4, <2>1 DEF IInv, Types
  <2>6. P!Change(k)
    BY <2>3, <2>4, <2>5 DEF P!Change, Outcomes, Changed
  <2> QED
    BY <1>6, <2>6 DEF P!Next
<1> QED
  BY <1>6, <1>8, <1>9

-------------------------------------------------------------------------------
(* The specification                                                       *)

LEMMA Initially == Init => IInv /\ P!Init
<1> SUFFICES ASSUME Init PROVE IInv /\ P!Init
  OBVIOUS
<1>1. \A k \in Call : call[k] = IdleCall /\ work[k] = "none" /\ request[k] = "unsent"
  BY DEF Init
<1>2. Types
  BY DEF Init, Types, CallState, IdleCall, Cause, Work, Fate
<1>3. \A k \in Call : Fitting(k) /\ Gated(k) /\ Truthful(k) /\ Legible(k)
  BY <1>1 DEF IdleCall, Fitting, Gated, Truthful, Legible
<1>4. \A k \in Call : Outcome(k) = "none" /\ ~(Uses(k, WriteTools) /\ request[k] = "applied")
  BY <1>1 DEF IdleCall, Outcome
<1>5. P!Init
  BY <1>4 DEF P!Init, Init
<1> QED
  BY <1>2, <1>3, <1>5 DEF IInv

(***************************************************************************)
(* Every step keeps the invariant and is a step of the promise or none.    *)
(***************************************************************************)
LEMMA EveryStep == IInv /\ [Next]_vars => IInv' /\ [P!Next]_(P!vars)
<1> SUFFICES ASSUME IInv, [Next]_vars PROVE IInv' /\ [P!Next]_(P!vars)
  OBVIOUS
<1>1. ASSUME NEW k \in Call, NEW i \in Intent,
             RefuseWrite(k, i) \/ RefuseArguments(k, i) \/ RefuseWithoutClient(k, i)
      PROVE  IInv' /\ [P!Next]_(P!vars)
  BY <1>1, RefusedAtOnce DEF RefuseWrite, RefuseArguments, RefuseWithoutClient
<1>2. ASSUME NEW k \in Call, NEW i \in Intent, Start(k, i)
      PROVE  IInv' /\ [P!Next]_(P!vars)
  BY <1>2, Started
<1>3. ASSUME NEW k \in Call, TakeWorker(k)
      PROVE  IInv' /\ [P!Next]_(P!vars)
  BY <1>3, Unassigned, Proceeds DEF TakeWorker, IInv
<1>4. ASSUME NEW k \in Call, SendRequest(k)
      PROVE  IInv' /\ [P!Next]_(P!vars)
  BY <1>4, Proceeds DEF SendRequest, Fate
<1>5. ASSUME NEW k \in Call, AuthorizationFails(k)
      PROVE  IInv' /\ [P!Next]_(P!vars)
  <2>1. PICK cause \in {"redeem", "rejected", "unknown"} : Ends(k, cause)
    BY <1>5 DEF AuthorizationFails
  <2>2. InProgress(k) /\ request[k] = "unsent"
    BY <1>5 DEF AuthorizationFails, InProgress, IInv, Fitting
  <2> QED
    BY <2>1, <2>2, Ended
<1>6. ASSUME NEW k \in Call, Succeeds(k)
      PROVE  IInv' /\ [P!Next]_(P!vars)
  BY <1>6, Ended DEF Succeeds, Awaits, InProgress, Refusals
<1>7. ASSUME NEW k \in Call, IsRefused(k)
      PROVE  IInv' /\ [P!Next]_(P!vars)
  BY <1>7, Ended DEF IsRefused, Awaits, InProgress
<1>8. ASSUME NEW k \in Call, LosesAnswer(k)
      PROVE  IInv' /\ [P!Next]_(P!vars)
  BY <1>8, Ended DEF LosesAnswer, Awaits, InProgress, Refusals
<1>9. ASSUME NEW k \in Call, Deliver(k)
      PROVE  IInv' /\ [P!Next]_(P!vars)
  BY <1>9, Delivered
<1>10. ASSUME NEW k \in Call, Withdraw(k)
       PROVE  IInv' /\ [P!Next]_(P!vars)
  BY <1>10, Withdrawn
<1>11. ASSUME NEW k \in Call, Serve(k) \/ Decline(k) \/ Reject(k)
       PROVE  IInv' /\ [P!Next]_(P!vars)
  BY <1>11, Decided DEF Serve, Decline, Reject
<1>12. CASE UNCHANGED vars
  <2>1. IInv'
    BY <1>12 DEF vars, IInv, Types, Fitting, Gated, Truthful, Legible, Uses
  <2>2. UNCHANGED P!vars
    BY <1>12 DEF vars, P!vars, Outcome, Uses
  <2> QED
    BY <2>1, <2>2
<1> QED
  BY <1>1, <1>2, <1>3, <1>4, <1>5, <1>6, <1>7, <1>8, <1>9, <1>10, <1>11, <1>12
     DEF Next, Advance

(***************************************************************************)
(* What callers may conclude from what they read is true of ServiceX: the  *)
(* result of a write means changed (of a deletion of a dataset only: no    *)
(* effect from now on), the read-only gate's text and the broker's errors  *)
(* mean never changed, and a read-only server changes nothing, however     *)
(* calls, threads, timeouts and cancellations interleave.                  *)
(***************************************************************************)
THEOREM ToolCallsKeepPromise == Spec => Promise
BY Initially, EveryStep, PTL DEF Spec, Promise, P!Spec

-------------------------------------------------------------------------------
(* Threads, and calls repeated                                             *)

(***************************************************************************)
(* The calls made so far are finitely many; only thread tools are queued;  *)
(* a call that is answered, or whose thread returned, has a cause.         *)
(***************************************************************************)
Made == {k \in Call : call[k].stage # "idle"}

Causes == Refusals \cup {"unknown", "success"}

Settled(k) ==
  /\ work[k] = "queued" => Uses(k, ThreadTools)
  /\ call[k].stage = "answered" \/ work[k] = "returned" => call[k].cause \in Causes

QueueInv ==
  /\ queue \in Seq(Call) /\ IsInjective(queue)
  /\ ToSet(queue) = {k \in Call : work[k] = "queued"}

ThreadsInv == Cardinality(Busy) <= Workers

(***************************************************************************)
(* Of the calls for one intent all but one are over and have not said      *)
(* success.                                                                *)
(***************************************************************************)
Over(k) == call[k].stage \in {"answered", "withdrawn"} /\ call[k].cause # "success"

OneAtATime ==
  \A k, j \in Call :
    k # j /\ call[k].intent \in Intent /\ call[k].intent = call[j].intent => Over(k) \/ Over(j)

CallsInv ==
  /\ mode \in Mode
  /\ IsFiniteSet(Made)
  /\ \A k \in Call : Settled(k)
  /\ QueueInv /\ ThreadsInv /\ OneAtATime

(***************************************************************************)
(* What a step about call k may do to the callers, the queue and the       *)
(* threads.                                                                *)
(***************************************************************************)
CallerMoves(k) ==
  \/ call'[k] = call[k]
  \/ /\ call[k].stage = "waiting" /\ call'[k].intent = call[k].intent
     /\ call'[k].stage # "idle"
  \/ /\ call[k].stage = "idle" /\ call'[k].stage # "idle"
     /\ \A j \in Call : call[j].intent = call'[k].intent => Over(j)

QueueMoves(k) ==
  \/ queue' = queue /\ (work'[k] = "queued" <=> work[k] = "queued")
  \/ queue' = Append(queue, k) /\ work[k] # "queued" /\ work'[k] = "queued"
  \/ queue # <<>> /\ k = Head(queue) /\ queue' = Tail(queue) /\ work'[k] # "queued"
  \/ queue' = RemoveFirst(queue, k) /\ work'[k] # "queued"

ThreadMoves(k) == k \in Busy' => k \in Busy \/ Cardinality(Busy) < Workers

SameForOthers(k) ==
  /\ UNCHANGED <<tool, mode>>
  /\ \A j \in Call \ {k} : call'[j] = call[j] /\ work'[j] = work[j]

CallsStep(k) ==
  /\ SameForOthers(k) /\ Settled(k)'
  /\ CallerMoves(k) /\ QueueMoves(k) /\ ThreadMoves(k)

LEMMA OthersStaySettled ==
  ASSUME CallsInv, NEW k \in Call, SameForOthers(k), NEW j \in Call \ {k}
  PROVE  /\ Settled(j)' /\ (Over(j)' <=> Over(j))
         /\ j \in Busy' <=> j \in Busy
<1>1. call'[j] = call[j] /\ work'[j] = work[j] /\ tool' = tool
  BY DEF SameForOthers
<1>2. Uses(j, ThreadTools)' <=> Uses(j, ThreadTools)
  BY <1>1 DEF Uses
<1>3. Settled(j)' /\ (Over(j)' <=> Over(j))
  BY <1>1, <1>2 DEF CallsInv, Settled, Over
<1>4. j \in Busy' <=> j \in Busy
  BY <1>1, <1>2 DEF Busy, InProgress
<1> QED
  BY <1>3, <1>4

LEMMA MadeStaysFinite ==
  ASSUME CallsInv, NEW k \in Call, SameForOthers(k)
  PROVE  IsFiniteSet(Made')
<1>1. Made' \subseteq Made \cup {k}
  BY DEF Made, SameForOthers
<1>2. IsFiniteSet(Made \cup {k})
  BY FS_AddElement DEF CallsInv
<1> QED
  BY <1>1, <1>2, FS_Subset

LEMMA QueueIsKept ==
  ASSUME CallsInv, NEW k \in Call, SameForOthers(k), QueueMoves(k)
  PROVE  QueueInv'
<1>1. \A j \in Call \ {k} : work'[j] = "queued" <=> work[j] = "queued"
  BY DEF SameForOthers
<1>2. queue \in Seq(Call) /\ IsInjective(queue) /\ ToSet(queue) = {j \in Call : work[j] = "queued"}
  BY DEF CallsInv, QueueInv
<1>3. CASE queue' = queue /\ (work'[k] = "queued" <=> work[k] = "queued")
  <2>1. {j \in Call : work'[j] = "queued"} = {j \in Call : work[j] = "queued"}
    BY <1>1, <1>3
  <2> QED
    BY <1>2, <1>3, <2>1 DEF QueueInv
<1>4. CASE queue' = Append(queue, k) /\ work[k] # "queued" /\ work'[k] = "queued"
  <2>1. {j \in Call : work'[j] = "queued"} = {j \in Call : work[j] = "queued"} \cup {k}
    BY <1>1, <1>4
  <2>2. k \notin ToSet(queue)
    BY <1>2, <1>4
  <2>3. queue' \in Seq(Call) /\ IsInjective(queue') /\ ToSet(queue') = ToSet(queue) \cup {k}
    <3>1. queue' \in Seq(Call) /\ IsInjective(queue')
      BY <1>2, <1>4, <2>2, Appending
    <3>2. /\ Len(queue) \in Nat /\ Len(queue') = Len(queue) + 1
          /\ \A i \in 1..Len(queue) : queue'[i] = queue[i]
          /\ queue'[Len(queue) + 1] = k
      BY <1>2, <1>4
    <3>3. ToSet(queue') = ToSet(queue) \cup {k}
      BY <1>2, <3>1, <3>2 DEF ToSet
    <3> QED
      BY <3>1, <3>3
  <2> QED
    BY <1>2, <2>1, <2>3 DEF QueueInv
<1>5. CASE queue # <<>> /\ k = Head(queue) /\ queue' = Tail(queue) /\ work'[k] # "queued"
  <2>1. {j \in Call : work'[j] = "queued"} = {j \in Call : work[j] = "queued"} \ {k}
    BY <1>1, <1>5
  <2>2. queue' \in Seq(Call) /\ IsInjective(queue') /\ ToSet(queue') = ToSet(queue) \ {k}
    BY <1>2, <1>5, Taking
  <2> QED
    BY <1>2, <2>1, <2>2 DEF QueueInv
<1>6. CASE queue' = RemoveFirst(queue, k) /\ work'[k] # "queued"
  <2>1. {j \in Call : work'[j] = "queued"} = {j \in Call : work[j] = "queued"} \ {k}
    BY <1>1, <1>6
  <2>2. queue' \in Seq(Call) /\ IsInjective(queue') /\ ToSet(queue') = ToSet(queue) \ {k}
    BY <1>2, <1>6, Removing
  <2> QED
    BY <1>2, <2>1, <2>2 DEF QueueInv
<1> QED
  BY <1>3, <1>4, <1>5, <1>6 DEF QueueMoves

LEMMA ThreadsAreKept ==
  ASSUME IInv, IInv', CallsInv, NEW k \in Call, SameForOthers(k), ThreadMoves(k)
  PROVE  ThreadsInv'
<1>1. Busy \subseteq Made /\ Busy' \subseteq Made'
  BY DEF Busy, Made, InProgress, IInv, Fitting
<1>2. IsFiniteSet(Busy) /\ IsFiniteSet(Busy')
  BY <1>1, MadeStaysFinite, FS_Subset DEF CallsInv
<1>3. Cardinality(Busy) \in Nat /\ Cardinality(Busy') \in Nat
  BY <1>2, FS_CardinalityType
<1>4. Busy' \subseteq Busy \cup {k}
  BY OthersStaySettled DEF Busy
<1>5. CASE k \in Busy \/ k \notin Busy'
  <2>1. Busy' \subseteq Busy
    BY <1>4, <1>5
  <2>2. Cardinality(Busy') <= Cardinality(Busy)
    BY <2>1, <1>2, FS_Subset
  <2> QED
    BY <2>2, <1>3, Constants DEF CallsInv, ThreadsInv
<1>6. CASE k \notin Busy /\ k \in Busy'
  <2>1. Cardinality(Busy) < Workers
    BY <1>6 DEF ThreadMoves
  <2>2. IsFiniteSet(Busy \cup {k}) /\ Cardinality(Busy \cup {k}) = Cardinality(Busy) + 1
    BY <1>2, <1>6, FS_AddElement
  <2>3. Cardinality(Busy') <= Cardinality(Busy \cup {k})
    BY <1>4, <2>2, FS_Subset
  <2> QED
    BY <2>1, <2>2, <2>3, <1>3, Constants DEF ThreadsInv
<1> QED
  BY <1>5, <1>6

LEMMA OneAtATimeIsKept ==
  ASSUME IInv, CallsInv, NEW k \in Call, SameForOthers(k), CallerMoves(k)
  PROVE  OneAtATime'
<1>1. \A j \in Call \ {k} : call'[j] = call[j] /\ (Over(j)' <=> Over(j))
  BY OthersStaySettled DEF SameForOthers
<1>2. ASSUME NEW j \in Call \ {k}, call'[k].intent \in Intent,
             call'[k].intent = call[j].intent
      PROVE  Over(k)' \/ Over(j)
  <2>1. CASE call'[k] = call[k]
    BY <1>2, <2>1 DEF CallsInv, OneAtATime, Over
  <2>2. CASE call[k].stage = "waiting" /\ call'[k].intent = call[k].intent
    BY <1>2, <2>2 DEF CallsInv, OneAtATime, Over
  <2>3. CASE \A i \in Call : call[i].intent = call'[k].intent => Over(i)
    BY <1>2, <2>3
  <2> QED
    BY <2>1, <2>2, <2>3 DEF CallerMoves
<1>3. ASSUME NEW i \in Call \ {k}, NEW j \in Call \ {k}, i # j, call[i].intent \in Intent,
             call[i].intent = call[j].intent
      PROVE  Over(i) \/ Over(j)
  BY <1>3 DEF CallsInv, OneAtATime
<1> SUFFICES ASSUME NEW i \in Call, NEW j \in Call, i # j, call'[i].intent \in Intent,
                    call'[i].intent = call'[j].intent
             PROVE  Over(i)' \/ Over(j)'
  BY DEF OneAtATime
<1>4. CASE i = k
  BY <1>1, <1>2, <1>4
<1>5. CASE j = k
  BY <1>1, <1>2, <1>5
<1>6. CASE i # k /\ j # k
  BY <1>1, <1>3, <1>6
<1> QED
  BY <1>4, <1>5, <1>6

LEMMA StepKeepsCallsInv ==
  ASSUME IInv, IInv', CallsInv, NEW k \in Call, CallsStep(k)
  PROVE  CallsInv'
<1>1. \A j \in Call : Settled(j)'
  BY OthersStaySettled DEF CallsStep
<1>2. mode' \in Mode
  BY DEF CallsInv, SameForOthers, CallsStep
<1> QED
  BY <1>1, <1>2, MadeStaysFinite, QueueIsKept, ThreadsAreKept, OneAtATimeIsKept
     DEF CallsInv, CallsStep

(***************************************************************************)
(* Each action is such a step.                                             *)
(***************************************************************************)
LEMMA AskingStep ==
  ASSUME IInv, CallsInv, NEW k \in Call, NEW i \in Intent, MayAsk(k, i),
         NEW a, RefuseAtOnce(k, i, a) \/ Start(k, i)
  PROVE  CallsStep(k)
<1>1. /\ call[k].stage = "idle" /\ call[k].intent = None /\ work[k] = "none"
      /\ \A j \in Call : call[j].intent = i => Over(j)
  BY DEF MayAsk, IsNextCall, IInv, Fitting, Legible, Fits, Over
<1>2. UNCHANGED <<tool, mode>>
  BY DEF RefuseAtOnce, Start
<1>3. CASE RefuseAtOnce(k, i, a)
  <2> DEFINE c == [intent |-> i, stage |-> "answered", cause |-> "not_tried", answer |-> a]
  <2>1. call' = [call EXCEPT ![k] = c] /\ UNCHANGED <<work, queue>>
    BY <1>3 DEF RefuseAtOnce
  <2>2. c.intent = i /\ c.stage = "answered" /\ c.cause = "not_tried"
    OBVIOUS
  <2> HIDE DEF c
  <2>3. call'[k] = c /\ \A j \in Call \ {k} : call'[j] = call[j]
    BY <2>1 DEF IInv, Types
  <2>4. Settled(k)'
    BY <1>1, <2>1, <2>2, <2>3 DEF Settled, Causes, Refusals
  <2>5. k \notin Busy'
    BY <1>1, <2>1 DEF Busy, InProgress
  <2> QED
    BY <1>1, <1>2, <2>1, <2>2, <2>3, <2>4, <2>5
       DEF CallsStep, SameForOthers, CallerMoves, QueueMoves, ThreadMoves
<1>4. CASE Start(k, i)
  <2> DEFINE c == [intent |-> i, stage |-> "waiting", cause |-> None, answer |-> None]
             w == IF tool[i] \in ThreadTools THEN "queued" ELSE "authorizing"
  <2>1. /\ call' = [call EXCEPT ![k] = c] /\ work' = [work EXCEPT ![k] = w]
        /\ queue' = IF w = "queued" THEN Append(queue, k) ELSE queue
    BY <1>4 DEF Start
  <2>2. /\ c.intent = i /\ c.stage = "waiting"
        /\ w \in {"queued", "authorizing"} /\ (w = "queued" <=> tool[i] \in ThreadTools)
    OBVIOUS
  <2> HIDE DEF c, w
  <2>3. /\ call'[k] = c /\ work'[k] = w
        /\ \A j \in Call \ {k} : call'[j] = call[j] /\ work'[j] = work[j]
    BY <2>1 DEF IInv, Types
  <2>4. Uses(k, ThreadTools)' <=> w = "queued"
    <3>1. c.intent # None
      BY <2>2, Constants
    <3> QED
      BY <1>2, <2>2, <2>3, <3>1 DEF Uses
  <2>5. Settled(k)'
    BY <2>2, <2>3, <2>4 DEF Settled
  <2>6. k \notin Busy'
    BY <2>2, <2>3, <2>4 DEF Busy, InProgress
  <2> QED
    BY <1>1, <1>2, <2>1, <2>2, <2>3, <2>5, <2>6
       DEF CallsStep, SameForOthers, CallerMoves, QueueMoves, ThreadMoves
<1> QED
  BY <1>3, <1>4

LEMMA TakeWorkerStep ==
  ASSUME IInv, CallsInv, NEW k \in Call, TakeWorker(k)
  PROVE  CallsStep(k)
<1>1. /\ work' = [work EXCEPT ![k] = "authorizing"] /\ Cardinality(Busy) < Workers
      /\ UNCHANGED <<tool, mode, call>> /\ queue # <<>> /\ k = Head(queue)
      /\ queue' = Tail(queue) /\ work[k] = "queued"
  BY DEF TakeWorker
<1>2. work'[k] = "authorizing" /\ \A j \in Call \ {k} : work'[j] = work[j]
  BY <1>1 DEF IInv, Types
<1>3. Settled(k)'
  BY <1>1, <1>2 DEF Settled, IInv, Fitting
<1> QED
  BY <1>1, <1>2, <1>3 DEF CallsStep, SameForOthers, CallerMoves, QueueMoves, ThreadMoves

LEMMA SendRequestStep ==
  ASSUME IInv, CallsInv, NEW k \in Call, SendRequest(k)
  PROVE  CallsStep(k)
<1>1. /\ work' = [work EXCEPT ![k] = "sent"] /\ work[k] = "authorizing"
      /\ UNCHANGED <<tool, mode, call, queue>>
  BY DEF SendRequest
<1>2. work'[k] = "sent" /\ \A j \in Call \ {k} : work'[j] = work[j]
  BY <1>1 DEF IInv, Types
<1>3. Settled(k)'
  BY <1>1, <1>2 DEF Settled, IInv, Fitting
<1>4. k \in Busy
      \/ k \notin Busy'
  BY <1>1, <1>2 DEF Busy, InProgress, Uses
<1> QED
  BY <1>1, <1>2, <1>3, <1>4 DEF CallsStep, SameForOthers, CallerMoves, QueueMoves, ThreadMoves

LEMMA EndsStep ==
  ASSUME IInv, CallsInv, NEW k \in Call, NEW cause \in {"redeem"} \cup Causes,
         InProgress(k), Ends(k, cause)
  PROVE  CallsStep(k)
<1> DEFINE waiting == call[k].stage = "waiting"
           thread == Uses(k, ThreadTools)
           w == IF waiting /\ thread THEN "returned" ELSE "none"
<1>0. PICK a : waiting => Become(k, IF thread THEN "waiting" ELSE "answered", cause, a)
  BY DEF Ends, AnswerCall
<1> DEFINE c == [intent |-> call[k].intent, cause |-> cause, answer |-> a,
                 stage |-> IF thread THEN "waiting" ELSE "answered"]
<1>1. /\ work' = [work EXCEPT ![k] = w] /\ UNCHANGED <<tool, mode, queue>>
      /\ waiting => call' = [call EXCEPT ![k] = c]
      /\ ~waiting => call' = call
  BY <1>0 DEF Ends, Become
<1>2. c.intent = call[k].intent /\ c.cause = cause /\ c.stage \in {"waiting", "answered"}
  OBVIOUS
<1>3. w \in {"returned", "none"} /\ (w = "returned" => waiting)
  OBVIOUS
<1>4. cause \in Causes
  BY DEF Causes, Refusals
<1>5. work[k] \in {"authorizing", "sent"}
  BY DEF InProgress
<1>6. call[k].stage # "answered"
  BY <1>5 DEF IInv, Fitting
<1> HIDE DEF c, w
<1>7. /\ work'[k] = w /\ \A j \in Call \ {k} : work'[j] = work[j] /\ call'[j] = call[j]
      /\ call'[k] = IF waiting THEN c ELSE call[k]
  BY <1>1 DEF IInv, Types
<1>8. Settled(k)'
  BY <1>2, <1>3, <1>4, <1>6, <1>7 DEF Settled
<1>9. k \notin Busy'
  BY <1>3, <1>7 DEF Busy, InProgress
<1>10. CallerMoves(k)
  BY <1>2, <1>7 DEF CallerMoves
<1> QED
  BY <1>1, <1>3, <1>5, <1>7, <1>8, <1>9, <1>10
     DEF CallsStep, SameForOthers, QueueMoves, ThreadMoves

LEMMA DeliverStep ==
  ASSUME IInv, CallsInv, NEW k \in Call, Deliver(k)
  PROVE  CallsStep(k)
<1>0. PICK a : Become(k, "answered", call[k].cause, a)
  BY DEF Deliver, AnswerCall
<1> DEFINE c == [intent |-> call[k].intent, stage |-> "answered", cause |-> call[k].cause, answer |-> a]
<1>1. /\ work' = [work EXCEPT ![k] = "none"] /\ work[k] = "returned"
      /\ call' = [call EXCEPT ![k] = c] /\ UNCHANGED <<tool, mode, queue>>
  BY <1>0 DEF Deliver, Become
<1>2. c.intent = call[k].intent /\ c.stage = "answered" /\ c.cause = call[k].cause
  OBVIOUS
<1> HIDE DEF c
<1>3. /\ work'[k] = "none" /\ \A j \in Call \ {k} : work'[j] = work[j] /\ call'[j] = call[j]
      /\ call'[k] = c
  BY <1>1 DEF IInv, Types
<1>4. call[k].stage = "waiting" /\ call[k].cause \in Causes
  BY <1>1 DEF IInv, Fitting, CallsInv, Settled
<1>5. Settled(k)'
  BY <1>2, <1>3, <1>4 DEF Settled
<1>6. k \notin Busy'
  BY <1>3 DEF Busy, InProgress
<1> QED
  BY <1>1, <1>2, <1>3, <1>4, <1>5, <1>6
     DEF CallsStep, SameForOthers, CallerMoves, QueueMoves, ThreadMoves

LEMMA WithdrawStep ==
  ASSUME IInv, CallsInv, NEW k \in Call, Withdraw(k)
  PROVE  CallsStep(k)
<1> DEFINE unsent == work[k] = "queued" \/ (work[k] = "authorizing" /\ ~RunsOn(k))
           c == [intent |-> call[k].intent, stage |-> "withdrawn",
                 cause |-> IF unsent THEN "never_sent" ELSE "withdrawn", answer |-> None]
<1>1. /\ call[k].stage = "waiting" /\ call' = [call EXCEPT ![k] = c]
      /\ RunsOn(k) => UNCHANGED <<work, queue>>
      /\ ~RunsOn(k) => work' = [work EXCEPT ![k] = "none"] /\ queue' = RemoveFirst(queue, k)
      /\ UNCHANGED <<tool, mode>>
  BY DEF Withdraw, Become
<1>2. c.intent = call[k].intent /\ c.stage = "withdrawn"
  OBVIOUS
<1> HIDE DEF c
<1>3. /\ \A j \in Call \ {k} : work'[j] = work[j] /\ call'[j] = call[j]
      /\ call'[k] = c
      /\ work'[k] = IF RunsOn(k) THEN work[k] ELSE "none"
  BY <1>1 DEF IInv, Types
<1>4. RunsOn(k) => work[k] \in {"authorizing", "sent"}
  BY DEF RunsOn, InProgress
<1>5. Settled(k)'
  BY <1>2, <1>3, <1>4 DEF Settled
<1>6. k \in Busy \/ k \notin Busy'
  BY <1>3 DEF Busy, InProgress, RunsOn
<1> QED
  BY <1>1, <1>2, <1>3, <1>4, <1>5, <1>6
     DEF CallsStep, SameForOthers, CallerMoves, QueueMoves, ThreadMoves

LEMMA CallsInvInitially == Init => CallsInv
<1> SUFFICES ASSUME Init PROVE CallsInv
  OBVIOUS
<1>1. \A k \in Call : call[k] = IdleCall /\ work[k] = "none"
  BY DEF Init
<1>2. Made = {} /\ Busy = {}
  BY <1>1 DEF Made, IdleCall, Busy, InProgress
<1>3. IsFiniteSet(Made) /\ Cardinality(Busy) = 0
  BY <1>2, FS_EmptySet
<1>4. QueueInv
  <2>1. queue = <<>> /\ queue \in Seq(Call) /\ ToSet(queue) = {} /\ IsInjective(queue)
    BY DEF Init, ToSet, IsInjective
  <2> QED
    BY <1>1, <2>1 DEF QueueInv
<1>5. \A k \in Call : Settled(k)
  BY <1>1 DEF Settled, IdleCall
<1>6. OneAtATime
  BY <1>1, Constants DEF OneAtATime, IdleCall
<1> QED
  BY <1>3, <1>4, <1>5, <1>6, Constants DEF CallsInv, ThreadsInv, Init

LEMMA EveryStepKeepsCallsInv == IInv /\ IInv' /\ CallsInv /\ [Next]_vars => CallsInv'
<1> SUFFICES ASSUME IInv, IInv', CallsInv, [Next]_vars PROVE CallsInv'
  OBVIOUS
<1>1. ASSUME NEW k \in Call, NEW i \in Intent,
             RefuseWrite(k, i) \/ RefuseArguments(k, i) \/ RefuseWithoutClient(k, i)
      PROVE  CallsInv'
  BY <1>1, AskingStep, StepKeepsCallsInv
     DEF RefuseWrite, RefuseArguments, RefuseWithoutClient
<1>2. ASSUME NEW k \in Call, NEW i \in Intent, Start(k, i)
      PROVE  CallsInv'
  <2>1. MayAsk(k, i)
    BY <1>2 DEF Start
  <2> QED
    BY <1>2, <2>1, AskingStep, StepKeepsCallsInv
<1>3. ASSUME NEW k \in Call, TakeWorker(k)
      PROVE  CallsInv'
  BY <1>3, TakeWorkerStep, StepKeepsCallsInv
<1>4. ASSUME NEW k \in Call, SendRequest(k)
      PROVE  CallsInv'
  BY <1>4, SendRequestStep, StepKeepsCallsInv
<1>5. ASSUME NEW k \in Call, AuthorizationFails(k)
      PROVE  CallsInv'
  <2>1. PICK cause \in {"redeem", "rejected", "unknown"} : Ends(k, cause)
    BY <1>5 DEF AuthorizationFails
  <2>2. InProgress(k) /\ cause \in {"redeem"} \cup Causes
    BY <1>5 DEF AuthorizationFails, InProgress, Causes, Refusals
  <2> QED
    BY <2>1, <2>2, EndsStep, StepKeepsCallsInv
<1>6. ASSUME NEW k \in Call, Succeeds(k) \/ IsRefused(k) \/ LosesAnswer(k)
      PROVE  CallsInv'
  <2>1. PICK cause \in {"success", "rejected", "unknown"} : Ends(k, cause)
    BY <1>6 DEF Succeeds, IsRefused, LosesAnswer
  <2>2. InProgress(k) /\ cause \in {"redeem"} \cup Causes
    BY <1>6 DEF Succeeds, IsRefused, LosesAnswer, Awaits, InProgress, Causes, Refusals
  <2> QED
    BY <2>1, <2>2, EndsStep, StepKeepsCallsInv
<1>7. ASSUME NEW k \in Call, Deliver(k)
      PROVE  CallsInv'
  BY <1>7, DeliverStep, StepKeepsCallsInv
<1>8. ASSUME NEW k \in Call, Withdraw(k)
      PROVE  CallsInv'
  BY <1>8, WithdrawStep, StepKeepsCallsInv
<1>9. CASE UNCHANGED <<mode, tool, call, work, queue>>
  <2>1. UNCHANGED <<Made, Busy>>
    BY <1>9 DEF Made, Busy, Uses, InProgress
  <2>2. /\ mode' \in Mode /\ IsFiniteSet(Made') /\ ThreadsInv'
    BY <1>9, <2>1 DEF CallsInv, ThreadsInv
  <2>3. (\A k \in Call : Settled(k))' /\ QueueInv' /\ OneAtATime'
    BY <1>9 DEF CallsInv, Settled, Uses, QueueInv, OneAtATime, Over
  <2> QED
    BY <2>2, <2>3 DEF CallsInv
<1>10. ASSUME NEW k \in Call, Serve(k) \/ Decline(k) \/ Reject(k)
       PROVE  CallsInv'
  BY <1>9, <1>10 DEF Serve, Decline, Reject
<1>11. CASE UNCHANGED vars
  BY <1>9, <1>11 DEF vars
<1> QED
  BY <1>1, <1>2, <1>3, <1>4, <1>5, <1>6, <1>7, <1>8, <1>10, <1>11 DEF Next, Advance

(***************************************************************************)
(* Requests, threads, queue and callers stay in step.                      *)
(***************************************************************************)
THEOREM CallsInvariant == Spec => [](IInv /\ CallsInv)
BY Initially, EveryStep, CallsInvInitially, EveryStepKeepsCallsInv, PTL DEF Spec

(***************************************************************************)
(* The executor's queue holds the queued calls once each, and the thread   *)
(* tools never have more work in progress than there are threads.          *)
(***************************************************************************)
THEOREM ToolCallTypes == Spec => []TypeOK
<1>1. IInv /\ CallsInv => TypeOK
  BY DEF IInv, Types, CallsInv, QueueInv, ThreadsInv, TypeOK
<1> QED
  BY <1>1, CallsInvariant, PTL

(***************************************************************************)
(* A write is done twice for one intent only after a call for it whose     *)
(* answer was lost or that was withdrawn, once more for each such call.    *)
(***************************************************************************)
THEOREM DuplicatesAreDoubtful == Spec => []DuplicatesNeedDoubt
<1>1. ASSUME IInv, CallsInv, NEW i \in Intent
      PROVE  Cardinality({k \in Call : call[k].intent = i /\ request[k] = "applied"
                                       /\ tool[i] \in WriteTools})
               <= 1 + Cardinality({k \in Call : call[k].intent = i /\ call[k].cause \in Doubts})
  <2> DEFINE done == {k \in Call : call[k].intent = i /\ request[k] = "applied"
                                   /\ tool[i] \in WriteTools}
             doubtful == {k \in Call : call[k].intent = i /\ call[k].cause \in Doubts}
  <2>1. \A k \in Call : call[k].intent = i => k \in Made
    BY <1>1, Constants DEF IInv, Fitting, Made
  <2>2. /\ done \subseteq Made /\ doubtful \subseteq Made
        /\ \A k \in done : k \in Call /\ call[k].intent = i /\ request[k] = "applied"
        /\ \A k \in Call : call[k].intent = i /\ call[k].cause \in Doubts => k \in doubtful
    BY <2>1
  <2>3. Made \subseteq Call /\ IsFiniteSet(Made)
    BY <1>1 DEF CallsInv, Made
  <2> HIDE DEF done, doubtful
  <2>4. /\ IsFiniteSet(done) /\ IsFiniteSet(doubtful)
        /\ Cardinality(done) \in Nat /\ Cardinality(doubtful) \in Nat
    BY <2>2, <2>3, FS_Subset, FS_CardinalityType
  <2>5. ASSUME NEW k \in done, Over(k)
        PROVE  k \in doubtful
    <3>1. k \in Call /\ call[k].intent = i /\ request[k] = "applied" /\ call[k].cause # "success"
      BY <2>2, <2>5 DEF Over
    <3>2. Settled(k) /\ Truthful(k) /\ Fitting(k)
      BY <1>1, <3>1 DEF CallsInv, IInv
    <3>3. CASE call[k].stage = "answered"
      <4>1. call[k].cause \in Causes /\ call[k].cause \notin Refusals
        BY <3>1, <3>2, <3>3 DEF Truthful, Settled
      <4>2. call[k].cause \in Doubts
        BY <3>1, <4>1 DEF Causes, Doubts
      <4> QED
        BY <2>2, <3>1, <4>2
    <3>4. CASE call[k].stage = "withdrawn"
      <4>1. call[k].cause \in Doubts
        BY <3>1, <3>2, <3>4 DEF Fitting, Truthful, Doubts
      <4> QED
        BY <2>2, <3>1, <4>1
    <3> QED
      BY <2>5, <3>3, <3>4 DEF Over
  <2>6. CASE done \subseteq doubtful
    <3>1. Cardinality(done) <= Cardinality(doubtful)
      BY <2>4, <2>6, FS_Subset
    <3> QED
      BY <2>4, <3>1 DEF done, doubtful
  <2>7. CASE ~(done \subseteq doubtful)
    <3>1. PICK k \in done : ~Over(k)
      BY <2>5, <2>7
    <3>2. ASSUME NEW j \in done, j # k
          PROVE  Over(j)
      BY <1>1, <2>2, <3>1, <3>2 DEF CallsInv, OneAtATime
    <3>3. done \subseteq doubtful \cup {k}
      BY <2>5, <3>2
    <3>4. /\ IsFiniteSet(doubtful \cup {k})
          /\ Cardinality(doubtful \cup {k}) \in {Cardinality(doubtful), Cardinality(doubtful) + 1}
      BY <2>4, FS_AddElement
    <3>5. Cardinality(done) <= Cardinality(doubtful \cup {k})
      BY <3>3, <3>4, FS_Subset
    <3>6. Cardinality(done) <= 1 + Cardinality(doubtful)
      BY <2>4, <3>4, <3>5
    <3> QED
      BY <3>6 DEF done, doubtful
  <2> QED
    BY <2>6, <2>7
<1>2. IInv /\ CallsInv => DuplicatesNeedDoubt
  BY <1>1 DEF DuplicatesNeedDoubt
<1> QED
  BY <1>2, CallsInvariant, PTL

(***************************************************************************)
(* A redeem that failed is blamed on the broker, its operator or the       *)
(* connection, never on a token or a request of the caller's.              *)
(***************************************************************************)
THEOREM RedeemIsTheBrokersFault == Spec => []RedeemFailuresNameTheBroker
<1>1. IInv => RedeemFailuresNameTheBroker
  BY DEF IInv, Legible, Fits, RedeemFailuresNameTheBroker
<1> QED
  BY <1>1, CallsInvariant, PTL
==============================================================================

------------------------------ MODULE ToolCalls ------------------------------
(***************************************************************************)
(* A tool call from the caller's request to its answer: the gates at the   *)
(* head of a tool (tools/*.py), the request to ServiceX and what can       *)
(* happen to it, the classified answer, and the caller that repeats what   *)
(* it was not told is done.                                                *)
(*                                                                         *)
(* A tool awaits ServiceX on the event loop, hands a synchronous client    *)
(* method to a worker thread (asyncio.to_thread), or calls one on the loop *)
(* itself and stops every other coroutine until it returns.                *)
(***************************************************************************)
EXTENDS Naturals, FiniteSets, Sequences, SequencesExt, FiniteSetsExt

CONSTANTS Call,     \* the tool calls of a behaviour
          Intent,   \* what callers want done; a call repeated has the same
          Tool,     \* the tools called in a behaviour
          Mode,     \* client factories the server may run with
          Messages, \* what messages say: the patterns of classify_error in each
          Workers,  \* threads of the loop's default executor
          None

WriteTools == {"servicex_submit_query", "servicex_cancel_transform",
               "servicex_delete_transform", "servicex_delete_dataset"}

ThreadTools == {"servicex_cancel_transform", "servicex_delete_transform",
                "servicex_list_datasets", "servicex_get_dataset",
                "servicex_delete_dataset"}

BlockingTools == {"servicex_list_code_generators"}

\* Their normal answer passes on a flag of ServiceX's and confirms nothing.
FlaggedTools == {"servicex_delete_dataset"}

AwaitingTools == {"servicex_info", "servicex_list_transforms",
                  "servicex_get_transform_status", "servicex_submit_query"}

ASSUME ConstantsOK ==
  /\ Tool \subseteq AwaitingTools \cup ThreadTools \cup BlockingTools
  /\ Mode \subseteq {"stdio", "bearer", "broker"}
  /\ Messages \subseteq SUBSET {"not authorized", "not found", "invalid transform request",
                                  "connection", "timeout"}
  /\ Workers \in Nat \ {0}
  /\ None \notin Intent

-------------------------------------------------------------------------------
(* Errors and advice                                                       *)

(***************************************************************************)
(* An exception is the patterns of classify_error its type's name and its  *)
(* message contain; the message of one without is its type's name.         *)
(***************************************************************************)
Raised(names, texts) == [name : names, text : texts]

Rule(advice, names, texts) == [advice |-> advice, name |-> names, text |-> texts]

(***************************************************************************)
(* classify_error: the first rule that matches decides on the advice.      *)
(***************************************************************************)
\* Mutant of Rules: the broker's errors are tested last.
BrokerRulesLast ==
  << Rule("check_token", {"authorizationerror"}, {"not authorized"}),
     Rule("list_ids", {}, {"not found"}),
     Rule("check_query", {}, {"invalid transform request"}),
     Rule("try_again", {"connectionerror", "timeout"}, {"connection", "timeout"}),
     Rule("link_at_broker", {"proxynotavailableerror"}, {}),
     Rule("ask_operator", {"proxyredeemerror"}, {}) >>

Rules ==
  << Rule("link_at_broker", {"proxynotavailableerror"}, {}),
     Rule("ask_operator", {"proxyredeemerror"}, {}),
     Rule("check_token", {"authorizationerror"}, {"not authorized"}),
     Rule("list_ids", {}, {"not found"}),
     Rule("check_query", {}, {"invalid transform request"}),
     Rule("try_again", {"connectionerror", "timeout"}, {"connection", "timeout"}) >>

Advice == {"link_at_broker", "ask_operator", "check_token", "list_ids",
           "check_query", "try_again", "none"}

ClassifyError(exc) ==
  LET matching == {i \in 1..Len(Rules) : Rules[i].name \cap exc.name # {}
                                         \/ Rules[i].text \cap exc.text # {}}
  IN IF matching = {} THEN "none" ELSE Rules[Min(matching)].advice

Refusals == {"not_tried", "redeem", "rejected", "never_sent"}
Doubts == {"unknown", "withdrawn"}
Cause == Refusals \cup Doubts \cup {"success", None}

(***************************************************************************)
(* Why a call ended, and what can be raised then.  "not_tried": a gate at  *)
(* the head of the tool, whose message may quote the caller's arguments;   *)
(* "rejected": ServiceX refused it; "unknown": a timeout, a lost           *)
(* connection, any other status, with a message ServiceX chooses, or a     *)
(* failure of the client once the answer was there.                        *)
(***************************************************************************)
Exceptions(cause) ==
  CASE cause = "redeem" ->
         Raised({{"proxynotavailableerror"}, {"proxyredeemerror"}}, Messages)
           \cup Raised({{"timeout"}}, {{"timeout"}})
    [] cause = "rejected" ->
         Raised({{"authorizationerror"}}, Messages)
           \cup Raised({{}}, {t \in Messages :
                               t \cap {"not found", "invalid transform request"} # {}})
    [] cause = "unknown" ->
         Raised({{}, {"connectionerror"}, {"timeout"}}, Messages)
    [] cause = "not_tried" -> Raised({{}}, Messages)
    [] OTHER -> {}

AdviceFor == [cause \in Cause |-> {ClassifyError(exc) : exc \in Exceptions(cause)}]

(***************************************************************************)
(* What the caller reads: a result, the text of the read-only gate, or an  *)
(* error with its advice.  The cause behind it the caller does not see.    *)
(***************************************************************************)
Answer == Advice \cup {"result", "read_only"}

ASSUME NoneIsNoAnswer == None \notin Answer

AnswersFor(cause) == IF cause = "success" THEN {"result"} ELSE AdviceFor[cause]

-------------------------------------------------------------------------------
VARIABLES
  readOnly,  \* the server runs with --read-only
  mode,      \* its client factory
  tool,      \* the tool each intent needs
  call,      \* each call: the caller's view, and the cause behind the answer
  work,      \* what the server does for it
  queue,     \* calls that wait for a thread
  request    \* its request to ServiceX

vars == <<readOnly, mode, tool, call, work, queue, request>>

CallState == [intent : Intent \cup {None},
              stage  : {"idle", "waiting", "answered", "withdrawn"},
              cause  : Cause,
              answer : Answer \cup {None}]

IdleCall == [intent |-> None, stage |-> "idle", cause |-> None, answer |-> None]

Work == {"none", "queued", "authorizing", "sent", "returned"}

Fate == {"unsent", "in_flight", "applied", "declined", "rejected"}

Uses(k, tools) == call[k].intent # None /\ tool[call[k].intent] \in tools

InProgress(k) == work[k] \in {"authorizing", "sent"}

Busy == {k \in Call : Uses(k, ThreadTools) /\ InProgress(k)}

(***************************************************************************)
(* Types; the executor's queue holds the queued calls once each, and there *)
(* is never more work in threads than threads.                             *)
(***************************************************************************)
TypeOK ==
  /\ readOnly \in BOOLEAN
  /\ mode \in Mode
  /\ tool \in [Intent -> Tool]
  /\ call \in [Call -> CallState]
  /\ work \in [Call -> Work]
  /\ queue \in Seq(Call)
  /\ ToSet(queue) = {k \in Call : work[k] = "queued"}
  /\ IsInjective(queue)
  /\ Cardinality(Busy) <= Workers
  /\ request \in [Call -> Fate]

Init ==
  /\ readOnly \in BOOLEAN
  /\ mode \in Mode
  /\ tool \in [Intent -> Tool]
  /\ call = [k \in Call |-> IdleCall]
  /\ work = [k \in Call |-> "none"]
  /\ queue = <<>>
  /\ request = [k \in Call |-> "unsent"]

(***************************************************************************)
(* No synchronous client call holds the event loop.                        *)
(***************************************************************************)
LoopFree == \A k \in Call : ~(Uses(k, BlockingTools) /\ InProgress(k))

CanRun(k) == Uses(k, ThreadTools \cup BlockingTools) \/ LoopFree

-------------------------------------------------------------------------------
(* The head of a tool                                                      *)

(***************************************************************************)
(* A caller repeats what did not give a result, one call at a time.        *)
(* Calls are interchangeable: the next one is any that is not made yet.    *)
(***************************************************************************)
IsNextCall(k) ==
  call[k].stage = "idle" /\ k = CHOOSE j \in Call : call[j].stage = "idle"

MayAsk(k, i) ==
  /\ LoopFree
  /\ IsNextCall(k)
  /\ \A j \in Call : call[j].intent = i =>
       call[j].stage \in {"answered", "withdrawn"} /\ call[j].answer # "result"

\* Mutant of WriteAllowed: one write tool misses its check.
SubmitUngated(i) == readOnly => tool[i] \notin WriteTools \ {"servicex_submit_query"}

WriteAllowed(i) == readOnly => tool[i] \notin WriteTools

RefuseAtOnce(k, i, answer) ==
  /\ call' = [call EXCEPT ![k] = [intent |-> i, stage |-> "answered",
                                 cause |-> "not_tried", answer |-> answer]]
  /\ UNCHANGED <<readOnly, mode, tool, work, queue, request>>

RefuseWrite(k, i) ==
  /\ MayAsk(k, i)
  /\ ~WriteAllowed(i)
  /\ RefuseAtOnce(k, i, "read_only")

(***************************************************************************)
(* _build_dataset_identifier or ResultFormat raises, or generic_query,     *)
(* which only builds the query.                                            *)
(***************************************************************************)
RefuseArguments(k, i) ==
  /\ MayAsk(k, i)
  /\ WriteAllowed(i)
  /\ tool[i] = "servicex_submit_query"
  /\ \E advice \in AdviceFor["not_tried"] : RefuseAtOnce(k, i, advice)

(***************************************************************************)
(* get_servicex_client raises: no bearer, or its client cannot be built.   *)
(* In stdio mode there is one client, built before the server runs.        *)
(***************************************************************************)
RefuseWithoutClient(k, i) ==
  /\ MayAsk(k, i)
  /\ WriteAllowed(i)
  /\ mode # "stdio"
  /\ \E advice \in AdviceFor["not_tried"] : RefuseAtOnce(k, i, advice)

Start(k, i) ==
  /\ MayAsk(k, i)
  /\ WriteAllowed(i)
  /\ call' = [call EXCEPT ![k] = [intent |-> i, stage |-> "waiting",
                                 cause |-> None, answer |-> None]]
  /\ IF tool[i] \in ThreadTools
     THEN work' = [work EXCEPT ![k] = "queued"] /\ queue' = Append(queue, k)
     ELSE work' = [work EXCEPT ![k] = "authorizing"] /\ UNCHANGED queue
  /\ UNCHANGED <<readOnly, mode, tool, request>>

(***************************************************************************)
(* A thread that is free takes the oldest function in the queue.           *)
(***************************************************************************)
\* Mutant of TakeWorker: a thread for every call.
TakeNewThread(k) ==
  /\ queue # <<>> /\ k = Head(queue) /\ work[k] = "queued"
  /\ queue' = Tail(queue)
  /\ work' = [work EXCEPT ![k] = "authorizing"]
  /\ UNCHANGED <<readOnly, mode, tool, call, request>>

TakeWorker(k) ==
  /\ queue # <<>> /\ k = Head(queue) /\ work[k] = "queued"
  /\ Cardinality(Busy) < Workers
  /\ queue' = Tail(queue)
  /\ work' = [work EXCEPT ![k] = "authorizing"]
  /\ UNCHANGED <<readOnly, mode, tool, call, request>>

-------------------------------------------------------------------------------
(* ServiceX, and the way to it                                             *)

Become(k, stage, cause, answer) ==
  call' = [call EXCEPT ![k] = [intent |-> @.intent, stage |-> stage,
                               cause |-> cause, answer |-> answer]]

AnswerCall(k, cause) ==
  \E answer \in AnswersFor(cause) : Become(k, "answered", cause, answer)

(***************************************************************************)
(* The work is over: a coroutine answers, a thread hands its result to the *)
(* loop, or drops it when the caller has withdrawn.                        *)
(***************************************************************************)
Ends(k, cause) ==
  LET waiting == call[k].stage = "waiting"
      thread  == Uses(k, ThreadTools)
  IN
  /\ work' = [work EXCEPT ![k] = IF waiting /\ thread THEN "returned" ELSE "none"]
  /\ IF ~waiting THEN UNCHANGED call
     ELSE IF thread THEN Become(k, "waiting", cause, None)
     ELSE AnswerCall(k, cause)
  /\ UNCHANGED <<readOnly, mode, tool, queue, request>>

(***************************************************************************)
(* The access token is at hand, or redeemed (broker) or refreshed          *)
(* (otherwise) first; the request leaves.                                  *)
(***************************************************************************)
SendRequest(k) ==
  /\ work[k] = "authorizing" /\ CanRun(k)
  /\ work' = [work EXCEPT ![k] = "sent"]
  /\ request' = [request EXCEPT ![k] = "in_flight"]
  /\ UNCHANGED <<readOnly, mode, tool, call, queue>>

(***************************************************************************)
(* The code generators are listed without a token.                         *)
(***************************************************************************)
AuthorizationFails(k) ==
  /\ work[k] = "authorizing" /\ CanRun(k)
  /\ ~Uses(k, BlockingTools)
  /\ \E cause \in IF mode = "broker" THEN {"redeem"} ELSE {"rejected", "unknown"} :
       Ends(k, cause)

Serve(k) ==
  /\ request[k] = "in_flight"
  /\ request' = [request EXCEPT ![k] = "applied"]
  /\ UNCHANGED <<readOnly, mode, tool, call, work, queue>>

Reject(k) ==
  /\ request[k] = "in_flight"
  /\ request' = [request EXCEPT ![k] = "rejected"]
  /\ UNCHANGED <<readOnly, mode, tool, call, work, queue>>

(***************************************************************************)
(* ServiceX answers a deletion of a dataset with its "stale" flag, "not an *)
(* unconditional success/failure signal" (servicex_delete_dataset): it may *)
(* have deleted nothing.                                                   *)
(***************************************************************************)
Decline(k) ==
  /\ request[k] = "in_flight" /\ Uses(k, FlaggedTools)
  /\ request' = [request EXCEPT ![k] = "declined"]
  /\ UNCHANGED <<readOnly, mode, tool, call, work, queue>>

Awaits(k) == work[k] = "sent" /\ CanRun(k)

Succeeds(k) ==
  Awaits(k) /\ request[k] \in {"applied", "declined"} /\ Ends(k, "success")

IsRefused(k) == Awaits(k) /\ request[k] = "rejected" /\ Ends(k, "rejected")

(***************************************************************************)
(* The answer is lost, late or of no use; the request may still be served. *)
(***************************************************************************)
\* Mutant of LosesAnswer: no timeout, ServiceX must have decided.
NoTimeout(k) == Awaits(k) /\ request[k] # "in_flight" /\ Ends(k, "unknown")

LosesAnswer(k) == Awaits(k) /\ Ends(k, "unknown")

(***************************************************************************)
(* The loop runs the tool's coroutine after the thread's return.           *)
(***************************************************************************)
Deliver(k) ==
  /\ work[k] = "returned" /\ LoopFree
  /\ work' = [work EXCEPT ![k] = "none"]
  /\ AnswerCall(k, call[k].cause)
  /\ UNCHANGED <<readOnly, mode, tool, queue, request>>

(***************************************************************************)
(* The caller cancels the call: CancelledError passes `except Exception`.  *)
(* A queued function never runs; one a thread runs goes on.                *)
(***************************************************************************)
\* Mutant of RunsOn: a queued function runs too, as under asyncio.shield.
ShieldedRunsOn(k) == Uses(k, ThreadTools) /\ work[k] # "returned"

RunsOn(k) == Uses(k, ThreadTools) /\ InProgress(k)

Withdraw(k) ==
  /\ call[k].stage = "waiting" /\ LoopFree
  /\ LET unsent == work[k] = "queued" \/ (work[k] = "authorizing" /\ ~RunsOn(k))
     IN Become(k, "withdrawn", IF unsent THEN "never_sent" ELSE "withdrawn", None)
  /\ IF RunsOn(k)
     THEN UNCHANGED <<work, queue>>
     ELSE work' = [work EXCEPT ![k] = "none"] /\ queue' = RemoveFirst(queue, k)
  /\ UNCHANGED <<readOnly, mode, tool, request>>

(***************************************************************************)
(* The steps the server owes a call it works on.                           *)
(***************************************************************************)
Advance(k) ==
  \/ TakeWorker(k)
  \/ SendRequest(k) \/ AuthorizationFails(k)
  \/ Succeeds(k) \/ IsRefused(k) \/ LosesAnswer(k)
  \/ Deliver(k)

Next ==
  \/ \E k \in Call, i \in Intent :
       \/ RefuseWrite(k, i) \/ RefuseArguments(k, i) \/ RefuseWithoutClient(k, i)
       \/ Start(k, i)
  \/ \E k \in Call : 
       Advance(k) \/ Serve(k) \/ Decline(k) \/ Reject(k) \/ Withdraw(k)

Spec == Init /\ [][Next]_vars

(***************************************************************************)
(* The loop and the executor run what is ready, and every exchange with    *)
(* ServiceX or the broker has a timeout.  ServiceX need not answer.        *)
(***************************************************************************)
FairSpec == Spec /\ \A k \in Call : WF_vars(Advance(k))

-------------------------------------------------------------------------------
(* Properties                                                              *)

(***************************************************************************)
(* What a caller may conclude (module AnswerPromise) from what it sees:    *)
(* the tool it called and the answer it read, never the cause.  A result   *)
(* of a write tool means ServiceX was changed, except a deleted dataset's, *)
(* which means that the call has no effect any more.  The read-only gate's *)
(* text and the broker's two errors mean that ServiceX is not and never    *)
(* will be changed by the call, even by a thread or a request on its way,  *)
(* and so does any end of a reading tool.  Every other error and a         *)
(* cancellation leave it in doubt: a refusal reads like a lost answer.     *)
(* And a read-only server changes nothing.                                 *)
(***************************************************************************)
RulesOutEffect == {"read_only", "link_at_broker", "ask_operator"}

Outcome(k) ==
  CASE call[k].stage = "idle" -> "none"
    [] call[k].stage = "waiting" -> "pending"
    [] OTHER ->
         IF ~Uses(k, WriteTools) \/ call[k].answer \in RulesOutEffect THEN "unchanged"
         ELSE IF call[k].answer # "result" THEN "doubt"
         ELSE IF Uses(k, FlaggedTools) THEN "over" ELSE "changed"

P == INSTANCE AnswerPromise
       WITH outcome <- [k \in Call |-> Outcome(k)],
            changed <- {k \in Call : Uses(k, WriteTools) /\ request[k] = "applied"}

Promise == P!Spec

(***************************************************************************)
(* A submission carries no idempotency key, so a repeated one may run      *)
(* twice; but only after a call whose answer was lost or that was          *)
(* withdrawn, once for each such call.                                     *)
(***************************************************************************)
DuplicatesNeedDoubt ==
  \A i \in Intent :
    Cardinality({k \in Call : call[k].intent = i /\ request[k] = "applied"
                              /\ tool[i] \in WriteTools})
      <= 1 + Cardinality({k \in Call : call[k].intent = i /\ call[k].cause \in Doubts})

(***************************************************************************)
(* A call that ended in a failed redeem is never answered with advice on a *)
(* token of the caller's or on what it asked for, whatever the broker's    *)
(* message says: in broker mode the caller has no ServiceX token to check  *)
(* (comment in classify_error).                                            *)
(***************************************************************************)
RedeemFailuresNameTheBroker ==
  \A k \in Call : call[k].stage = "answered" /\ call[k].cause = "redeem" =>
    call[k].answer \in {"link_at_broker", "ask_operator", "try_again"}

(***************************************************************************)
(* Every call that is started is answered or withdrawn and gives its       *)
(* thread back, though ServiceX may never answer, other calls hold the     *)
(* loop or the threads, and nobody waits for it any more.                  *)
(***************************************************************************)
EveryCallEnds ==
  \A k \in Call : work[k] # "none" ~>
    work[k] = "none" /\ call[k].stage \in {"answered", "withdrawn"}
==============================================================================

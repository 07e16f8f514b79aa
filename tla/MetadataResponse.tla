--------------------------- MODULE MetadataResponse ---------------------------
(***************************************************************************)
(* The authorization server's metadata on its way out (server.py): the     *)
(* SDK's application answers a request for it by ASGI messages, a start    *)
(* and one or more pieces of body; _CimdMetadataMiddleware holds them back *)
(* until the last piece, adds the CIMD advertisement, and sends one start  *)
(* and one body with a Content-Length of its own.  Requests for it share   *)
(* the middleware and interleave at every message; the application may     *)
(* raise, and a client may go away, at any of them.                        *)
(***************************************************************************)
EXTENDS Naturals, Sequences, FiniteSets

CONSTANTS Request,   \* concurrent requests for the metadata
          MaxPieces, \* bound of the model: pieces of a body
          None

ASSUME ConstantsOK == MaxPieces \in Nat \ {0}

(***************************************************************************)
(* What the application answers.  The content is a JSON object with or     *)
(* without the auth method "none", or not JSON (a CORS preflight's "OK").  *)
(***************************************************************************)
Answer == [status  : {200, 404},
           content : {"lacks_none", "has_none", "not_json"},
           pieces  : 1..MaxPieces]

Piece == [of : Request, number : 1..MaxPieces]

(***************************************************************************)
(* A body is its pieces and what was added to them, each of size one.      *)
(***************************************************************************)
Body(pieces, added) == [pieces |-> pieces, added |-> added]

BodyState == [pieces : Seq(Piece), added : SUBSET {"cimd_supported", "none_method"}]

ASSUME NoneIsNoBody == None \notin BodyState

Size(body) == Len(body.pieces) + Cardinality(body.added)

StartMessage(status, length) == [type |-> "start", status |-> status, length |-> length]

BodyMessage(body) == [type |-> "body", body |-> body]

VARIABLES
  answer,  \* what the application answers to each request
  app,     \* the application, for each request: where it is
  count,   \* the pieces it has produced
  start,   \* start_message of each middleware call
  chunks,  \* body_chunks of each middleware call
  body,    \* the rewritten body, once the last piece is there
  sent     \* the messages sent to each client

vars == <<answer, app, count, start, chunks, body, sent>>

(***************************************************************************)
(* Types; the application waits in its last send while the middleware      *)
(* forwards, and a response has two messages.                              *)
(***************************************************************************)
TypeOK ==
  /\ answer \in [Request -> Answer]
  /\ app \in [Request -> {"called", "producing", "forwarding", "returned", "raised"}]
  /\ count \in [Request -> 0..MaxPieces]
  /\ start \in [Request -> {200, 404, None}]
  /\ chunks \in [Request -> Seq(Piece)]
  /\ body \in [Request -> BodyState \cup {None}]
  /\ \A r \in Request :
       /\ app[r] = "forwarding" => body[r] # None /\ count[r] = answer[r].pieces
       /\ Len(sent[r]) <= 2

Init ==
  /\ answer \in [Request -> Answer]
  /\ app = [r \in Request |-> "called"]
  /\ count = [r \in Request |-> 0]
  /\ start = [r \in Request |-> None]
  /\ chunks = [r \in Request |-> <<>>]
  /\ body = [r \in Request |-> None]
  /\ sent = [r \in Request |-> <<>>]

-------------------------------------------------------------------------------
(* The rewriting                                                           *)

Whole(r) == [n \in 1..answer[r].pieces |-> [of |-> r, number |-> n]]

(***************************************************************************)
(* _augment_as_metadata on joined pieces: only a whole document parses;    *)
(* what does not stays as it is.                                           *)
(***************************************************************************)
\* Mutant of Augment: a document that lists "none" gets it again.
AugmentTwice(pieces) ==
  IF \E r \in Request : pieces = Whole(r) /\ answer[r].content # "not_json"
  THEN Body(pieces, {"cimd_supported", "none_method"})
  ELSE Body(pieces, {})

Augment(pieces) ==
  LET documents == {r \in Request : pieces = Whole(r)}
      json      == {r \in documents : answer[r].content # "not_json"}
      lacking   == {r \in documents : answer[r].content = "lacks_none"}
  IN Body(pieces, (IF json = {} THEN {} ELSE {"cimd_supported"})
                  \cup (IF lacking = {} THEN {} ELSE {"none_method"}))

Rewritten(status, pieces) ==
  IF status = 200 THEN Augment(pieces) ELSE Body(pieces, {})

\* Mutant of ContentLength: the length of the application's body is kept.
OriginalLength(b) == Len(b.pieces)

ContentLength(b) == Size(b)

-------------------------------------------------------------------------------
(* The messages                                                            *)

(***************************************************************************)
(* The call whose buffers a message goes to: its own, start_message and    *)
(* body_chunks are local to it.                                            *)
(***************************************************************************)
\* Mutant of BuffersOf: the buffers are attributes of the middleware.
SharedBuffers(r) == CHOOSE q \in Request : TRUE

BuffersOf(r) == r

\* Mutant of Starts: the start goes out when it comes.
StartsAtOnce(r) ==
  /\ app[r] = "called"
  /\ app' = [app EXCEPT ![r] = "producing"]
  /\ start' = [start EXCEPT ![r] = answer[r].status]
  /\ sent' = [sent EXCEPT ![r] = <<StartMessage(answer[r].status, answer[r].pieces)>>]
  /\ UNCHANGED <<answer, count, chunks, body>>

Starts(r) ==
  /\ app[r] = "called"
  /\ app' = [app EXCEPT ![r] = "producing"]
  /\ start' = [start EXCEPT ![BuffersOf(r)] = answer[r].status]
  /\ UNCHANGED <<answer, count, chunks, body, sent>>

\* Mutant of MoreBody: a message without the key counts as one of several.
MoreByDefault(r) == TRUE

MoreBody(r) == count'[r] < answer[r].pieces

(***************************************************************************)
(* A piece of the body; with the last the body is rewritten, and the start *)
(* goes out with the new length.                                           *)
(***************************************************************************)
SendsPiece(r) ==
  LET own == BuffersOf(r) IN
  /\ app[r] = "producing" /\ count[r] < answer[r].pieces
  /\ count' = [count EXCEPT ![r] = @ + 1]
  /\ chunks' = [chunks EXCEPT ![own] = Append(@, [of |-> r, number |-> count'[r]])]
  /\ IF MoreBody(r)
     THEN UNCHANGED <<app, body, sent>>
     ELSE LET b == Rewritten(start[own], chunks'[own]) IN
          /\ app' = [app EXCEPT ![r] = "forwarding"]
          /\ body' = [body EXCEPT ![r] = b]
          /\ sent' = [sent EXCEPT ![r] =
                        Append(@, StartMessage(start[own], ContentLength(b)))]
  /\ UNCHANGED <<answer, start>>

ForwardsBody(r) ==
  /\ app[r] = "forwarding"
  /\ sent' = [sent EXCEPT ![r] = Append(@, BodyMessage(body[r]))]
  /\ app' = [app EXCEPT ![r] = "returned"]
  /\ UNCHANGED <<answer, count, start, chunks, body>>

(***************************************************************************)
(* The application raises, or a send does because the client is gone; the  *)
(* exception passes through the middleware.                                *)
(***************************************************************************)
Raises(r) ==
  /\ app[r] \in {"called", "producing", "forwarding"}
  /\ app' = [app EXCEPT ![r] = "raised"]
  /\ UNCHANGED <<answer, count, start, chunks, body, sent>>

Advances(r) == Starts(r) \/ SendsPiece(r) \/ ForwardsBody(r)

Next == \E r \in Request : Advances(r) \/ Raises(r)

Spec == Init /\ [][Next]_vars

(***************************************************************************)
(* The loop runs what is ready; nothing makes the application raise.       *)
(***************************************************************************)
FairSpec == Spec /\ \A r \in Request : WF_vars(Advances(r))

-------------------------------------------------------------------------------
(* Properties                                                              *)

Complete(r) == Len(sent[r]) = 2

(***************************************************************************)
(* What a client gets is its own response and the whole of it, whatever    *)
(* other responses pass through the middleware: its application's status,  *)
(* then every piece of its body once and in order.                         *)
(***************************************************************************)
OwnWholeResponse ==
  \A r \in Request :
    /\ sent[r] # <<>> => sent[r][1].type = "start" /\ sent[r][1].status = answer[r].status
    /\ Complete(r) => sent[r][2].type = "body" /\ sent[r][2].body.pieces = Whole(r)

(***************************************************************************)
(* The announced length is that of the body that follows, rewritten or not *)
(* ("recompute Content-Length after the rewrite").                         *)
(***************************************************************************)
LengthIsHonest ==
  \A r \in Request : Complete(r) => sent[r][1].length = Size(sent[r][2].body)

(***************************************************************************)
(* Clients see CIMD support and the auth method "none" in every successful *)
(* metadata answer, "none" never twice, and nothing is added to another    *)
(* answer.                                                                 *)
(***************************************************************************)
AdvertisesCimd ==
  \A r \in Request : Complete(r) =>
    LET added == sent[r][2].body.added IN
    IF answer[r].status = 200 /\ answer[r].content # "not_json"
    THEN /\ "cimd_supported" \in added
         /\ "none_method" \in added <=> answer[r].content = "lacks_none"
    ELSE added = {}

(***************************************************************************)
(* Nothing goes out before the last piece is in, so an application that    *)
(* fails on the way leaves the server free to answer with an error.        *)
(***************************************************************************)
NoTruncatedSuccess ==
  \A r \in Request : sent[r] # <<>> => count[r] = answer[r].pieces

(***************************************************************************)
(* Holding messages back loses none: every request whose application does  *)
(* not fail is answered.                                                   *)
(***************************************************************************)
EveryResponseIsForwarded ==
  \A r \in Request : app[r] = "called" ~> (Complete(r) \/ app[r] = "raised")
===============================================================================

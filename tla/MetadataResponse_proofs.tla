----------------------- MODULE MetadataResponse_proofs -----------------------
(***************************************************************************)
(* Every metadata response that gets through is its own, whole, of the     *)
(* announced length and advertised, for any requests and any number of     *)
(* pieces.                                                                 *)
(***************************************************************************)
EXTENDS MetadataResponse, SequenceTheorems, TLAPS

(***************************************************************************)
(* The first n pieces of r's body, and what the middleware makes of all.   *)
(***************************************************************************)
PieceOf(r, n) == [of |-> r, number |-> n]

First(r, n) == [k \in 1..n |-> PieceOf(r, k)]

Outcome(r) == Rewritten(answer[r].status, Whole(r))

Announced(r) == StartMessage(answer[r].status, ContentLength(Outcome(r)))

(***************************************************************************)
(* The buffers of a call hold what its application has sent so far; the    *)
(* client has got nothing before the last piece is in, and then the        *)
(* outcome, message by message.                                            *)
(***************************************************************************)
Silent(r) == sent[r] = <<>>

HalfSent(r) ==
  count[r] = answer[r].pieces /\ body[r] = Outcome(r) /\ sent[r] = <<Announced(r)>>

FullySent(r) ==
  /\ count[r] = answer[r].pieces
  /\ sent[r] = <<Announced(r), BodyMessage(Outcome(r))>>

Buffered(r) ==
  /\ app[r] = "called" => count[r] = 0 /\ chunks[r] = First(r, 0) /\ Silent(r)
  /\ app[r] = "producing" =>
       /\ start[r] = answer[r].status /\ chunks[r] = First(r, count[r])
       /\ Silent(r)
  /\ app[r] = "forwarding" => HalfSent(r)
  /\ app[r] = "returned" => FullySent(r)
  /\ app[r] = "raised" => Silent(r) \/ HalfSent(r)

IInv == TypeOK /\ DOMAIN sent = Request /\ \A r \in Request : Buffered(r)

-------------------------------------------------------------------------------
(* Bodies                                                                  *)

(***************************************************************************)
(* The pieces of a body come one by one.                                   *)
(***************************************************************************)
LEMMA PieceType ==
  ASSUME NEW r \in Request, NEW n \in 1..MaxPieces
  PROVE  PieceOf(r, n) \in Piece
BY DEF PieceOf, Piece

LEMMA FirstType ==
  ASSUME NEW r \in Request, NEW n \in 0..MaxPieces
  PROVE  /\ First(r, n) \in Seq(Piece) /\ Len(First(r, n)) = n
         /\ \A k \in 1..n : First(r, n)[k] = PieceOf(r, k)
<1>1. n \in Nat /\ 1..n \subseteq 1..MaxPieces
  BY ConstantsOK
<1>2. First(r, n) \in [1..n -> Piece]
  BY <1>1, PieceType DEF First
<1> QED
  BY <1>1, <1>2 DEF First

LEMMA NoPieces ==
  ASSUME NEW r \in Request
  PROVE  First(r, 0) = <<>>
<1>1. 0 \in 0..MaxPieces
  BY ConstantsOK
<1> QED
  BY <1>1, FirstType, EmptySeq

LEMMA NextPiece ==
  ASSUME NEW r \in Request, NEW n \in 0..MaxPieces, n + 1 <= MaxPieces
  PROVE  Append(First(r, n), PieceOf(r, n + 1)) = First(r, n + 1)
<1> DEFINE a == Append(First(r, n), PieceOf(r, n + 1))
           b == First(r, n + 1)
<1>1. n + 1 \in 1..MaxPieces /\ n + 1 \in 0..MaxPieces /\ n \in Nat
  BY ConstantsOK
<1>2. /\ First(r, n) \in Seq(Piece) /\ Len(First(r, n)) = n
      /\ \A k \in 1..n : First(r, n)[k] = PieceOf(r, k)
  BY FirstType
<1>3. PieceOf(r, n + 1) \in Piece
  BY <1>1, PieceType
<1>4. /\ a \in Seq(Piece) /\ Len(a) = n + 1
      /\ \A k \in 1..(n + 1) : a[k] = PieceOf(r, k)
  <2>1. a \in Seq(Piece) /\ Len(a) = n + 1
    BY <1>2, <1>3
  <2>2. \A k \in 1..n : a[k] = PieceOf(r, k)
    BY <1>2, <1>3
  <2>3. a[n + 1] = PieceOf(r, n + 1)
    BY <1>2, <1>3
  <2> HIDE DEF a
  <2> QED
    BY <1>1, <2>1, <2>2, <2>3
<1>5. /\ b \in Seq(Piece) /\ Len(b) = n + 1
      /\ \A k \in 1..(n + 1) : b[k] = PieceOf(r, k)
  BY <1>1, FirstType
<1> HIDE DEF a, b
<1>6. \A k \in 1..Len(a) : a[k] = b[k]
  BY <1>4, <1>5
<1>7. a = b
  BY <1>4, <1>5, <1>6, SeqEqual
<1> QED
  BY <1>7 DEF a, b

LEMMA AllPieces ==
  ASSUME NEW r \in Request
  PROVE  First(r, answer[r].pieces) = Whole(r)
BY DEF First, Whole, PieceOf

(***************************************************************************)
(* No other request has the same pieces, so the middleware adds to r's     *)
(* what r's content calls for.                                             *)
(***************************************************************************)
LEMMA AnswerType ==
  ASSUME TypeOK, NEW r \in Request
  PROVE  /\ answer[r].status \in {200, 404} /\ answer[r].pieces \in 1..MaxPieces
         /\ answer[r].content \in {"lacks_none", "has_none", "not_json"}
BY DEF TypeOK, Answer

LEMMA WholeIsOwn ==
  ASSUME TypeOK, NEW r \in Request, NEW q \in Request, Whole(q) = Whole(r)
  PROVE  q = r
<1>1. 1 \in 1..answer[r].pieces /\ 1 \in 1..answer[q].pieces
  BY AnswerType, ConstantsOK
<1>2. Whole(r)[1] = [of |-> r, number |-> 1] /\ Whole(q)[1] = [of |-> q, number |-> 1]
  BY <1>1 DEF Whole
<1>3. Whole(r)[1].of = r /\ Whole(q)[1].of = q
  BY <1>2
<1> QED
  BY <1>3

LEMMA OutcomeIsOwn ==
  ASSUME TypeOK, NEW r \in Request
  PROVE  /\ Outcome(r) \in BodyState
         /\ Outcome(r).pieces = Whole(r)
         /\ Outcome(r).added =
              IF answer[r].status = 200 /\ answer[r].content # "not_json"
              THEN {"cimd_supported"}
                   \cup (IF answer[r].content = "lacks_none" THEN {"none_method"} ELSE {})
              ELSE {}
<1> DEFINE documents == {q \in Request : Whole(r) = Whole(q)}
           json      == {q \in documents : answer[q].content # "not_json"}
           lacking   == {q \in documents : answer[q].content = "lacks_none"}
           found     == (IF json = {} THEN {} ELSE {"cimd_supported"})
                        \cup (IF lacking = {} THEN {} ELSE {"none_method"})
           added     == IF answer[r].status = 200 THEN found ELSE {}
<1>1. documents = {r}
  BY WholeIsOwn
<1>2. /\ json = {} <=> answer[r].content = "not_json"
      /\ lacking = {} <=> answer[r].content # "lacks_none"
  BY <1>1
<1>3. Outcome(r) = [pieces |-> Whole(r), added |-> added]
  BY DEF Outcome, Rewritten, Augment, Body
<1>4. Whole(r) \in Seq(Piece)
  <2>1. answer[r].pieces \in 0..MaxPieces
    BY AnswerType, ConstantsOK
  <2> QED
    BY <2>1, FirstType, AllPieces
<1>5. added \in SUBSET {"cimd_supported", "none_method"}
  BY DEF added
<1>6. added = IF answer[r].status = 200 /\ answer[r].content # "not_json"
              THEN {"cimd_supported"}
                   \cup (IF answer[r].content = "lacks_none" THEN {"none_method"} ELSE {})
              ELSE {}
  <2> HIDE DEF json, lacking
  <2>1. found = IF answer[r].content # "not_json"
                THEN {"cimd_supported"}
                     \cup (IF answer[r].content = "lacks_none" THEN {"none_method"} ELSE {})
                ELSE {}
    <3>1. CASE answer[r].content = "not_json"
      BY <1>2, <3>1
    <3>2. CASE answer[r].content = "lacks_none"
      BY <1>2, <3>2
    <3>3. CASE answer[r].content = "has_none"
      BY <1>2, <3>3
    <3> QED
      BY <3>1, <3>2, <3>3, AnswerType
  <2> HIDE DEF found
  <2> QED
    BY <2>1 DEF added
<1> HIDE DEF added
<1> QED
  BY <1>3, <1>4, <1>5, <1>6 DEF BodyState

-------------------------------------------------------------------------------
(* Steps                                                                   *)

(***************************************************************************)
(* A step of r leaves the calls of the others where they are.              *)
(***************************************************************************)
SameCall(q) ==
  /\ app'[q] = app[q] /\ count'[q] = count[q] /\ start'[q] = start[q]
  /\ chunks'[q] = chunks[q] /\ body'[q] = body[q] /\ sent'[q] = sent[q]

LEMMA OthersAreLeftAlone ==
  ASSUME NEW q \in Request, Buffered(q), SameCall(q), answer' = answer
  PROVE  Buffered(q)'
BY DEF Buffered, SameCall, Silent, HalfSent, FullySent, Announced, Outcome, Rewritten,
       Augment, Whole

LEMMA TypesOfCalls ==
  ASSUME IInv, NEW r \in Request
  PROVE  /\ count[r] \in 0..MaxPieces /\ chunks[r] \in Seq(Piece)
         /\ answer[r].status \in {200, 404} /\ answer[r].pieces \in 1..MaxPieces
         /\ Buffered(r)
BY AnswerType DEF IInv, TypeOK

LEMMA InitEstablishesIInv == Init => IInv
<1> SUFFICES ASSUME Init PROVE IInv
  OBVIOUS
<1>1. DOMAIN sent = Request
  BY DEF Init
<1>2. TypeOK
  <2>1. 0 \in 0..MaxPieces /\ <<>> \in Seq(Piece) /\ Len(<<>>) = 0
    BY ConstantsOK
  <2> QED
    BY <2>1 DEF Init, TypeOK
<1>3. ASSUME NEW r \in Request
      PROVE  Buffered(r)
  BY <1>3, NoPieces DEF Init, Buffered, Silent
<1> QED
  BY <1>1, <1>2, <1>3 DEF IInv

LEMMA StartsKeepsIInv ==
  ASSUME IInv, NEW r \in Request, Starts(r)
  PROVE  IInv'
<1>1. /\ app' = [app EXCEPT ![r] = "producing"] /\ app[r] = "called"
      /\ start' = [start EXCEPT ![r] = answer[r].status]
      /\ UNCHANGED <<answer, count, chunks, body, sent>>
  BY DEF Starts, BuffersOf
<1>2. TypeOK'
  BY <1>1, TypesOfCalls DEF IInv, TypeOK
<1>3. Buffered(r)'
  <2>1. count[r] = 0 /\ chunks[r] = First(r, 0) /\ Silent(r)
    BY <1>1, TypesOfCalls DEF Buffered
  <2>2. app'[r] = "producing" /\ start'[r] = answer[r].status
    BY <1>1 DEF IInv, TypeOK
  <2> QED
    BY <1>1, <2>1, <2>2 DEF Buffered, Silent, First, PieceOf
<1>4. ASSUME NEW q \in Request \ {r}
      PROVE  Buffered(q)'
  <2>1. SameCall(q)
    BY <1>1 DEF SameCall, IInv, TypeOK
  <2> QED
    BY <1>1, <2>1, OthersAreLeftAlone, TypesOfCalls
<1> QED
  BY <1>1, <1>2, <1>3, <1>4 DEF IInv

LEMMA ForwardsBodyKeepsIInv ==
  ASSUME IInv, NEW r \in Request, ForwardsBody(r)
  PROVE  IInv'
<1>1. /\ app' = [app EXCEPT ![r] = "returned"] /\ app[r] = "forwarding"
      /\ sent' = [sent EXCEPT ![r] = Append(sent[r], BodyMessage(body[r]))]
      /\ UNCHANGED <<answer, count, start, chunks, body>>
  BY DEF ForwardsBody
<1>2. HalfSent(r)
  BY <1>1, TypesOfCalls DEF Buffered
<1>3. sent'[r] = <<Announced(r), BodyMessage(Outcome(r))>>
  <2>1. sent'[r] = Append(<<Announced(r)>>, BodyMessage(Outcome(r)))
    BY <1>1, <1>2 DEF HalfSent, IInv
  <2>2. ASSUME NEW a, NEW b PROVE Append(<<a>>, b) = <<a, b>>
    <3>1. <<a>> \in Seq({a, b}) /\ <<a, b>> \in Seq({a, b})
      OBVIOUS
    <3>2. Len(Append(<<a>>, b)) = 2 /\ Len(<<a, b>>) = 2
      BY <3>1
    <3>3. \A k \in 1..2 : Append(<<a>>, b)[k] = <<a, b>>[k]
      BY <3>1
    <3>4. Append(<<a>>, b) \in Seq({a, b})
      BY <3>1
    <3> QED
      BY <3>1, <3>2, <3>3, <3>4, SeqEqual
  <2> QED
    BY <2>1, <2>2
<1>4. TypeOK'
  <2>1. Len(sent'[r]) = 2
    BY <1>3
  <2> QED
    BY <1>1, <2>1 DEF IInv, TypeOK
<1>5. Buffered(r)'
  <2>1. app'[r] = "returned"
    BY <1>1 DEF IInv, TypeOK
  <2>2. FullySent(r)'
    <3>1. Outcome(r)' = Outcome(r)
      BY <1>1 DEF Outcome, Rewritten, Augment, Whole
    <3>2. Announced(r)' = Announced(r)
      BY <1>1, <3>1 DEF Announced
    <3>3. count'[r] = answer'[r].pieces
      BY <1>1, <1>2 DEF HalfSent
    <3> QED
      BY Zenon, <1>3, <3>1, <3>2, <3>3 DEF FullySent
  <2> QED
    BY <2>1, <2>2 DEF Buffered
<1>6. ASSUME NEW q \in Request \ {r}
      PROVE  Buffered(q)'
  <2>1. SameCall(q)
    BY <1>1 DEF SameCall, IInv, TypeOK
  <2> QED
    BY <1>1, <2>1, OthersAreLeftAlone, TypesOfCalls
<1> QED
  BY <1>1, <1>4, <1>5, <1>6 DEF IInv

LEMMA RaisesKeepsIInv ==
  ASSUME IInv, NEW r \in Request, Raises(r)
  PROVE  IInv'
<1>1. /\ app' = [app EXCEPT ![r] = "raised"]
      /\ app[r] \in {"called", "producing", "forwarding"}
      /\ UNCHANGED <<answer, count, start, chunks, body, sent>>
  BY DEF Raises
<1>2. TypeOK'
  BY <1>1 DEF IInv, TypeOK
<1>3. Buffered(r)'
  <2>1. app'[r] = "raised"
    BY <1>1 DEF IInv, TypeOK
  <2>2. Silent(r) \/ HalfSent(r)
    BY <1>1, TypesOfCalls DEF Buffered
  <2>3. Silent(r)' \/ HalfSent(r)'
    BY <1>1, <2>2 DEF Silent, HalfSent, Announced, Outcome, Rewritten, Augment, Whole
  <2> QED
    BY <2>1, <2>3 DEF Buffered
<1>4. ASSUME NEW q \in Request \ {r}
      PROVE  Buffered(q)'
  <2>1. SameCall(q)
    BY <1>1 DEF SameCall, IInv, TypeOK
  <2> QED
    BY <1>1, <2>1, OthersAreLeftAlone, TypesOfCalls
<1> QED
  BY <1>1, <1>2, <1>3, <1>4 DEF IInv

(***************************************************************************)
(* A piece before the last only joins the others; with the last the client *)
(* gets the start that announces the outcome.                              *)
(***************************************************************************)
LEMMA PieceJoins ==
  ASSUME IInv, NEW r \in Request, SendsPiece(r)
  PROVE  /\ count'[r] = count[r] + 1 /\ count'[r] \in 0..MaxPieces
         /\ count' \in [Request -> 0..MaxPieces]
         /\ chunks' \in [Request -> Seq(Piece)]
         /\ chunks'[r] = First(r, count'[r])
         /\ \A q \in Request \ {r} : count'[q] = count[q] /\ chunks'[q] = chunks[q]
<1>1. /\ app[r] = "producing" /\ count[r] < answer[r].pieces
      /\ count' = [count EXCEPT ![r] = count[r] + 1]
      /\ chunks' = [chunks EXCEPT ![r] = Append(chunks[r], [of |-> r, number |-> count'[r]])]
  BY DEF SendsPiece, BuffersOf
<1>2. /\ count[r] \in 0..MaxPieces /\ count[r] + 1 <= MaxPieces
      /\ count[r] + 1 \in 1..MaxPieces /\ count[r] + 1 \in 0..MaxPieces
  BY <1>1, TypesOfCalls, ConstantsOK
<1>3. count'[r] = count[r] + 1
  BY <1>1 DEF IInv, TypeOK
<1>4. chunks' = [chunks EXCEPT ![r] = First(r, count'[r])]
  <2>1. chunks[r] = First(r, count[r])
    BY <1>1, TypesOfCalls DEF Buffered
  <2>2. Append(chunks[r], [of |-> r, number |-> count'[r]]) = First(r, count'[r])
    BY <1>2, <1>3, <2>1, NextPiece DEF PieceOf
  <2> QED
    BY <1>1, <2>2
<1>5. First(r, count'[r]) \in Seq(Piece)
  BY <1>2, <1>3, FirstType
<1> QED
  BY <1>1, <1>2, <1>3, <1>4, <1>5 DEF IInv, TypeOK

LEMMA SendsPieceKeepsIInv ==
  ASSUME IInv, NEW r \in Request, SendsPiece(r)
  PROVE  IInv'
<1>1. /\ app[r] = "producing" /\ count[r] < answer[r].pieces
      /\ answer' = answer /\ start' = start
  BY DEF SendsPiece
<1>2. start[r] = answer[r].status /\ Silent(r)
  BY <1>1, TypesOfCalls DEF Buffered
<1>3. CASE MoreBody(r)
  <2>1. UNCHANGED <<app, body, sent>>
    BY <1>3 DEF SendsPiece
  <2>2. TypeOK'
    BY <1>1, <2>1, PieceJoins DEF IInv, TypeOK
  <2>3. Buffered(r)'
    BY <1>1, <1>2, <2>1, PieceJoins DEF Buffered, Silent, First, PieceOf
  <2>4. ASSUME NEW q \in Request \ {r}
        PROVE  Buffered(q)'
    <3>1. SameCall(q)
      BY <1>1, <2>1, PieceJoins DEF SameCall
    <3> QED
      BY <1>1, <3>1, OthersAreLeftAlone, TypesOfCalls
  <2> QED
    BY <2>1, <2>2, <2>3, <2>4 DEF IInv
<1>4. CASE ~MoreBody(r)
  <2> DEFINE b == Rewritten(start[r], chunks'[r])
  <2>1. /\ app' = [app EXCEPT ![r] = "forwarding"]
        /\ body' = [body EXCEPT ![r] = b]
        /\ sent' = [sent EXCEPT ![r] =
                      Append(sent[r], StartMessage(start[r], ContentLength(b)))]
    BY <1>4 DEF SendsPiece, BuffersOf
  <2>2. count'[r] = answer[r].pieces
    BY <1>1, <1>4, PieceJoins, TypesOfCalls DEF MoreBody
  <2>3. chunks'[r] = Whole(r)
    BY <2>2, PieceJoins, AllPieces
  <2>4. b = Outcome(r)
    BY <1>2, <2>3 DEF Outcome
  <2> HIDE DEF b
  <2>5. sent'[r] = <<Announced(r)>>
    <3>1. ASSUME NEW m PROVE Append(<<>>, m) = <<m>>
      OBVIOUS
    <3> QED
      BY <1>2, <2>1, <2>4, <3>1 DEF Announced, Silent, IInv
  <2>6. b \in BodyState /\ b # None
    BY <2>4, OutcomeIsOwn, NoneIsNoBody DEF IInv
  <2>7. TypeOK'
    <3>1. Len(sent'[r]) = 1
      BY <2>5
    <3> QED
      BY <1>1, <2>1, <2>2, <2>6, <3>1, PieceJoins DEF IInv, TypeOK
  <2>8. Buffered(r)'
    <3>1. app'[r] = "forwarding" /\ body'[r] = Outcome(r)
      BY <2>1, <2>4 DEF IInv, TypeOK
    <3>2. HalfSent(r)'
      BY <1>1, <2>2, <2>5, <3>1 DEF HalfSent, Announced, Outcome, Rewritten, Augment, Whole
    <3> QED
      BY <3>1, <3>2 DEF Buffered
  <2>9. ASSUME NEW q \in Request \ {r}
        PROVE  Buffered(q)'
    <3>1. SameCall(q)
      BY <1>1, <2>1, PieceJoins DEF SameCall, IInv, TypeOK
    <3> QED
      BY <1>1, <3>1, OthersAreLeftAlone, TypesOfCalls
  <2> QED
    BY <2>1, <2>7, <2>8, <2>9 DEF IInv
<1> QED
  BY <1>3, <1>4

-------------------------------------------------------------------------------
(* Theorems                                                                *)

(***************************************************************************)
(* The agreement of every call's buffers with what its application has     *)
(* sent and its client has received, from one message to the next.         *)
(***************************************************************************)
THEOREM BuffersInvariant == Spec => []IInv
<1>1. IInv /\ [Next]_vars => IInv'
  <2> SUFFICES ASSUME IInv, [Next]_vars PROVE IInv'
    OBVIOUS
  <2>1. ASSUME NEW r \in Request, Starts(r) PROVE IInv'
    BY <2>1, StartsKeepsIInv
  <2>2. ASSUME NEW r \in Request, SendsPiece(r) PROVE IInv'
    BY <2>2, SendsPieceKeepsIInv
  <2>3. ASSUME NEW r \in Request, ForwardsBody(r) PROVE IInv'
    BY <2>3, ForwardsBodyKeepsIInv
  <2>4. ASSUME NEW r \in Request, Raises(r) PROVE IInv'
    BY <2>4, RaisesKeepsIInv
  <2>5. CASE UNCHANGED vars
    <3>1. \A q \in Request : SameCall(q) /\ Buffered(q)
      BY <2>5 DEF vars, SameCall, IInv
    <3>2. \A q \in Request : Buffered(q)'
      BY <2>5, <3>1, OthersAreLeftAlone DEF vars
    <3>3. TypeOK' /\ (DOMAIN sent = Request)'
      BY <2>5 DEF vars, IInv, TypeOK
    <3> QED
      BY <3>2, <3>3 DEF IInv
  <2> QED
    BY <2>1, <2>2, <2>3, <2>4, <2>5 DEF Next, Advances
<1> QED
  BY <1>1, InitEstablishesIInv, PTL DEF Spec

(***************************************************************************)
(* The buffers and messages of the middleware keep their types: a call     *)
(* that forwards has its whole rewritten body, and sends two messages at   *)
(* most.                                                                   *)
(***************************************************************************)
THEOREM MetadataTypes == Spec => []TypeOK
BY BuffersInvariant, PTL DEF IInv

(***************************************************************************)
(* What a client has received is nothing, the announcement of its own      *)
(* outcome, or the announcement and the outcome.                           *)
(***************************************************************************)
LEMMA ClientsView ==
  ASSUME IInv, NEW r \in Request
  PROVE  \/ sent[r] = <<>>
         \/ sent[r] = <<Announced(r)>> /\ count[r] = answer[r].pieces
         \/ sent[r] = <<Announced(r), BodyMessage(Outcome(r))>> /\ count[r] = answer[r].pieces
<1>1. app[r] \in {"called", "producing", "forwarding", "returned", "raised"} /\ Buffered(r)
  BY DEF IInv, TypeOK
<1> QED
  BY <1>1 DEF Buffered, Silent, HalfSent, FullySent

LEMMA CompleteView ==
  ASSUME IInv, NEW r \in Request, Complete(r)
  PROVE  /\ sent[r][1] = Announced(r)
         /\ sent[r][2].type = "body" /\ sent[r][2].body = Outcome(r)
<1>1. sent[r] = <<Announced(r), BodyMessage(Outcome(r))>>
  BY ClientsView DEF Complete
<1>2. sent[r][1] = Announced(r) /\ sent[r][2] = BodyMessage(Outcome(r))
  BY <1>1
<1>3. ASSUME NEW b PROVE BodyMessage(b).type = "body" /\ BodyMessage(b).body = b
  BY DEF BodyMessage
<1> QED
  BY <1>2, <1>3

LEMMA AnnouncedStart ==
  ASSUME NEW r \in Request
  PROVE  /\ Announced(r).type = "start" /\ Announced(r).status = answer[r].status
         /\ Announced(r).length = Size(Outcome(r))
<1>1. ASSUME NEW s, NEW n
      PROVE  /\ StartMessage(s, n).type = "start" /\ StartMessage(s, n).status = s
             /\ StartMessage(s, n).length = n
  BY DEF StartMessage
<1> QED
  BY <1>1 DEF Announced, ContentLength

(***************************************************************************)
(* Whatever other responses pass through the middleware in between, a      *)
(* client gets its own status and then every piece of its own body, once   *)
(* and in order.                                                           *)
(***************************************************************************)
THEOREM ResponsesAreNotMixed == Spec => []OwnWholeResponse
<1>1. IInv => OwnWholeResponse
  <2> SUFFICES ASSUME IInv, NEW r \in Request
               PROVE  /\ sent[r] # <<>> =>
                           sent[r][1].type = "start" /\ sent[r][1].status = answer[r].status
                      /\ Complete(r) =>
                           sent[r][2].type = "body" /\ sent[r][2].body.pieces = Whole(r)
    BY DEF OwnWholeResponse
  <2>1. sent[r] # <<>> => sent[r][1] = Announced(r)
    BY ClientsView
  <2>2. Complete(r) => sent[r][2].type = "body" /\ sent[r][2].body.pieces = Whole(r)
    BY CompleteView, OutcomeIsOwn DEF IInv
  <2> QED
    BY <2>1, <2>2, AnnouncedStart
<1> QED
  BY <1>1, BuffersInvariant, PTL

(***************************************************************************)
(* The Content-Length that goes out is the size of the body that follows,  *)
(* though it is sent before that body is.                                  *)
(***************************************************************************)
THEOREM LengthsAreHonest == Spec => []LengthIsHonest
<1>1. IInv => LengthIsHonest
  BY CompleteView, AnnouncedStart DEF LengthIsHonest
<1> QED
  BY <1>1, BuffersInvariant, PTL

(***************************************************************************)
(* Every successful metadata answer advertises CIMD and the auth method    *)
(* "none", the latter once, and no other answer is touched.                *)
(***************************************************************************)
THEOREM SupportIsAdvertised == Spec => []AdvertisesCimd
<1>1. ASSUME IInv, NEW r \in Request, Complete(r)
      PROVE  sent[r][2].body.added =
               IF answer[r].status = 200 /\ answer[r].content # "not_json"
               THEN {"cimd_supported"}
                    \cup (IF answer[r].content = "lacks_none" THEN {"none_method"} ELSE {})
               ELSE {}
  BY <1>1, CompleteView, OutcomeIsOwn DEF IInv
<1>2. ASSUME IInv, NEW r \in Request, Complete(r)
      PROVE  LET added == sent[r][2].body.added IN
             IF answer[r].status = 200 /\ answer[r].content # "not_json"
             THEN /\ "cimd_supported" \in added
                  /\ "none_method" \in added <=> answer[r].content = "lacks_none"
             ELSE added = {}
  <2> DEFINE added == sent[r][2].body.added
  <2>1. added = IF answer[r].status = 200 /\ answer[r].content # "not_json"
                THEN {"cimd_supported"}
                     \cup (IF answer[r].content = "lacks_none" THEN {"none_method"} ELSE {})
                ELSE {}
    BY <1>1, <1>2
  <2> HIDE DEF added
  <2>2. IF answer[r].status = 200 /\ answer[r].content # "not_json"
        THEN /\ "cimd_supported" \in added
             /\ "none_method" \in added <=> answer[r].content = "lacks_none"
        ELSE added = {}
    BY <2>1
  <2> QED
    BY <2>2 DEF added
<1>3. IInv => AdvertisesCimd
  BY <1>2 DEF AdvertisesCimd
<1> QED
  BY <1>3, BuffersInvariant, PTL

(***************************************************************************)
(* No client has a start before the application's last piece is in: a      *)
(* success status never goes out for a body that does not come.            *)
(***************************************************************************)
THEOREM NothingGoesOutEarly == Spec => []NoTruncatedSuccess
<1>1. IInv => NoTruncatedSuccess
  BY ClientsView DEF NoTruncatedSuccess
<1> QED
  BY <1>1, BuffersInvariant, PTL
==============================================================================

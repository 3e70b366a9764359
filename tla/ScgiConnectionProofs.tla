----------------------- MODULE ScgiConnectionProofs ------------------------
(***************************************************************************)
(* Proofs about ScgiConnection for every set of connections, requests and  *)
(* messages and every size of head, body limit, read and chain.            *)
(***************************************************************************)
EXTENDS ScgiConnection, TLAPS

-----------------------------------------------------------------------------
(***************************************************************************)
(* The inductive invariant.  AnswersOnce alone is not inductive: it needs  *)
(* to know that a connection which may still be answered has no reply yet  *)
(* (Bookkeeping), that the tag of an unparsed head cannot be finished      *)
(* (BeforeHead), that send_response waits for AMQP only in a connection    *)
(* that is complete and unanswered (WaitingForAmqp) and that a slot is     *)
(* clean when it is reused (FreeSlots).                                    *)
(***************************************************************************)
WireOrder ==
  \A c \in Conn : got[c] <= sent[c] /\ sent[c] <= Wire(req[c])

FreeSlots ==
  \A c \in Conn \ open : /\ tag[c] = {} /\ output[c] = <<>>
                         /\ sent[c] = 0 /\ got[c] = 0 /\ c \notin busy
                         /\ Len(delivered[c]) <= 1

BeforeHead ==
  \A c \in open : ~ HeadDone(got[c]) => tag[c] = {"REQUEST_RECEIVED"}

ApprovedMeansParsed ==
  \A c \in open : "REQUEST_HEAD_APPROVED" \in tag[c] => HeadApproved(req[c])

Bookkeeping ==
  \A c \in open : /\ delivered[c] = <<>>
                  /\ Len(output[c]) = IF "REQUEST_FINISHED" \in tag[c]
                                        THEN 1 ELSE 0

WaitingForAmqp ==
  /\ \A c, d \in busy : c = d
  /\ \A c \in busy : /\ c \in open
                     /\ "REQUEST_FINISHED" \notin tag[c]
                     /\ HeadDone(got[c])
                     /\ BodySize(got[c]) = req[c].length
                     /\ HeadApproved(req[c])
                     /\ ~ Refused(req[c])

IInv == /\ TypeOK
        /\ WireOrder
        /\ FreeSlots
        /\ BeforeHead
        /\ ApprovedMeansParsed
        /\ Bookkeeping
        /\ WaitingForAmqp

-----------------------------------------------------------------------------
(* Every reply that send_response makes after notifying is in ReplySet. *)
LEMMA NotifiedReplyType ==
  ASSUME NEW r, NEW t, NEW failed \in BOOLEAN,
         NEW fetched \in {<<>>} \cup {<<m>> : m \in Message}
  PROVE  NotifiedReply(r, t, failed, fetched) \in ReplySet
<1>1. InternalServerError \in ReplySet /\ NoContent \in ReplySet
      /\ InformResponse \in ReplySet /\ InitialProvisioning \in ReplySet
  BY DEF ReplySet, ReplyOver
<1>2. FetchReply(failed, fetched) \in ReplySet
  <2>1. CASE failed \/ fetched = <<>>
    BY <1>1, <2>1 DEF FetchReply
  <2>2. CASE ~ failed /\ fetched # <<>>
    <3>1. PICK m \in Message : fetched = <<m>>
      BY <2>2
    <3>2. FetchReply(failed, fetched) = FetchReply(FALSE, <<m>>)
      BY <2>2, <3>1 DEF FetchReply
    <3> QED
      BY <3>2 DEF ReplySet, ReplyOver
  <2> QED
    BY <2>1, <2>2
<1> QED
  BY <1>1, <1>2 DEF NotifiedReply

(* Refusals are in ReplySet. *)
LEMMA RefusalType ==
  ASSUME NEW r
  PROVE  Refusal(r) \in ReplySet /\ InternalServerError \in ReplySet
BY DEF Refusal, ReplySet, ReplyOver

(* The analysis of a document never finishes or approves a request. *)
LEMMA AnalysisTag ==
  ASSUME NEW doc \in Document
  PROVE  /\ AnalyzedTag(doc) \in SUBSET Tag
         /\ "REQUEST_FINISHED" \notin AnalyzedTag(doc)
         /\ "REQUEST_HEAD_APPROVED" \notin AnalyzedTag(doc)
BY DEF AnalyzedTag, Document, Tag

-----------------------------------------------------------------------------
(* The initial state satisfies the inductive invariant. *)
LEMMA InitIInv == Init => IInv
<1> SUFFICES ASSUME Init PROVE IInv
  OBVIOUS
<1>1. (CHOOSE r \in Request : TRUE) \in Request
  BY RequestAssumption
<1>2. \A c \in Conn : Wire(req[c]) \in Nat
  BY <1>1, RequestAssumption, HeadLenAssumption DEF Init, Wire, RequestType
<1>3. TypeOK
  BY <1>1 DEF Init, TypeOK
<1>4. WireOrder
  BY <1>2 DEF Init, WireOrder
<1> QED
  BY <1>3, <1>4 DEF Init, IInv, FreeSlots, BeforeHead, ApprovedMeansParsed,
                    Bookkeeping, WaitingForAmqp

-----------------------------------------------------------------------------
(* What the inductive invariant says of the numbers of one connection. *)
LEMMA Numbers ==
  ASSUME IInv, NEW c \in Conn
  PROVE  /\ req[c].length \in Nat /\ req[c].actual \in Nat
         /\ req[c].doc \in Document
         /\ HeadLen \in Nat /\ HeadLen > 0
         /\ sent[c] \in Nat /\ got[c] \in Nat /\ chain[c] \in Nat
         /\ Wire(req[c]) = HeadLen + req[c].actual
         /\ BodySize(got[c]) \in Nat
BY RequestAssumption, HeadLenAssumption
   DEF IInv, TypeOK, RequestType, Wire, BodySize, HeadDone

(* The peer's own steps preserve the inductive invariant. *)
LEMMA PeerStep ==
  ASSUME IInv, NEW c \in Conn, PeerSend(c) \/ PeerClose(c)
  PROVE  IInv'
<1>1. CASE PeerSend(c)
  <2>1. PICK units \in (sent[c] + 1)..Wire(req[c]) :
               sent' = [sent EXCEPT ![c] = units]
    BY <1>1 DEF PeerSend
  <2>2. units \in Nat /\ sent[c] < units /\ units <= Wire(req[c])
    BY <2>1, Numbers
  <2>3. TypeOK'
    BY <1>1, <2>1, <2>2 DEF PeerSend, IInv, TypeOK
  <2>4. WireOrder'
    <3> SUFFICES ASSUME NEW d \in Conn
                 PROVE  got[d] <= sent'[d] /\ sent'[d] <= Wire(req[d])
      BY <1>1 DEF PeerSend, WireOrder
    <3>1. got[d] <= sent[d] /\ sent[d] <= Wire(req[d])
      BY DEF IInv, WireOrder
    <3>2. CASE d = c
      BY <2>1, <2>2, <3>1, <3>2, Numbers DEF IInv, TypeOK
    <3>3. CASE d # c
      BY <2>1, <3>1, <3>3 DEF IInv, TypeOK
    <3> QED
      BY <3>2, <3>3
  <2> QED
    BY <1>1, <2>1, <2>3, <2>4, SMTT(30), ZenonT(40)
       DEF PeerSend, IInv, TypeOK, FreeSlots, BeforeHead, ApprovedMeansParsed,
           Bookkeeping, WaitingForAmqp
<1>2. CASE PeerClose(c)
  BY <1>2 DEF PeerClose, IInv, TypeOK, WireOrder, FreeSlots, BeforeHead,
              ApprovedMeansParsed, Bookkeeping, WaitingForAmqp
<1> QED
  BY <1>1, <1>2

(* Accepting a connection into a free slot preserves it. *)
LEMMA AcceptStep ==
  ASSUME IInv, NEW c \in Conn, Accept(c)
  PROVE  IInv'
<1>1. PICK r \in Request : req' = [req EXCEPT ![c] = r]
  BY DEF Accept
<1>2. sent[c] = 0 /\ got[c] = 0 /\ output[c] = <<>>
  BY DEF Accept, IInv, FreeSlots
<1>3. Wire(r) \in Nat /\ HeadLen \in Nat /\ HeadLen > 0
  BY RequestAssumption, HeadLenAssumption DEF Wire, RequestType
<1>4. TypeOK'
  BY <1>1 DEF Accept, IInv, TypeOK, Tag
<1>5. WireOrder'
  BY <1>1, <1>2, <1>3 DEF Accept, IInv, TypeOK, WireOrder
<1>6. FreeSlots' /\ BeforeHead' /\ ApprovedMeansParsed'
  BY <1>1, <1>2, <1>3
     DEF Accept, IInv, TypeOK, FreeSlots, BeforeHead, ApprovedMeansParsed,
         HeadDone, LoopFree
<1>7. Bookkeeping'
  BY <1>2 DEF Accept, IInv, TypeOK, Bookkeeping
<1>8. WaitingForAmqp'
  BY DEF Accept, LoopFree, WaitingForAmqp
<1> QED
  BY <1>4, <1>5, <1>6, <1>7, <1>8 DEF IInv

(* Releasing a connection while no callback is under way preserves it,    *)
(* as long as what the peer has received stays a single reply.            *)
LEMMA ReleaseStep ==
  ASSUME IInv, NEW c \in Conn, Release(c), busy = {},
         UNCHANGED <<running, busy, req>>,
         delivered' \in [Conn -> Seq(ReplySet)],
         Len(delivered'[c]) <= 1,
         \A d \in Conn \ {c} : delivered'[d] = delivered[d]
  PROVE  IInv'
<1>1. Wire(req[c]) \in Nat
  BY Numbers
<1>2. TypeOK'
  <2>1. /\ open' \in SUBSET Conn /\ gone' \in SUBSET Conn
        /\ sent' \in [Conn -> Nat] /\ got' \in [Conn -> Nat]
        /\ chain' \in [Conn -> Nat] /\ tag' \in [Conn -> SUBSET Tag]
    BY DEF Release, IInv, TypeOK
  <2>2. output' \in [Conn -> Seq(ReplySet)]
    BY DEF Release, IInv, TypeOK
  <2>3. running' \in BOOLEAN /\ busy' \in SUBSET Conn
        /\ req' \in [Conn -> Request]
    BY DEF IInv, TypeOK
  <2> QED
    BY <2>1, <2>2, <2>3 DEF TypeOK
<1>3. WireOrder'
  BY <1>1 DEF Release, IInv, TypeOK, WireOrder
<1>4. FreeSlots'
  BY DEF Release, IInv, TypeOK, FreeSlots
<1>5. BeforeHead' /\ ApprovedMeansParsed' /\ Bookkeeping'
  BY DEF Release, IInv, TypeOK, BeforeHead, ApprovedMeansParsed, Bookkeeping
<1>6. WaitingForAmqp'
  BY DEF WaitingForAmqp
<1> QED
  BY <1>2, <1>3, <1>4, <1>5, <1>6 DEF IInv

(* Where a read takes the parser. *)
LEMMA ReadAdvances ==
  ASSUME IInv, NEW c \in Conn, got[c] < sent[c]
  PROVE  /\ UnitsAfterRead(c) \in Nat
         /\ got[c] < UnitsAfterRead(c) /\ UnitsAfterRead(c) <= sent[c]
         /\ BodySize(UnitsAfterRead(c)) \in Nat
         /\ ChainAfter(c, UnitsAfterRead(c)) \in Nat
<1> DEFINE units == UnitsAfterRead(c)
           n     == BodySize(units) - BodySize(got[c])
<1>1. ReadMax \in Nat /\ ReadMax > 0
  BY ReadMaxAssumption
<1>2. sent[c] <= HeadLen + req[c].actual /\ req[c] \in Request
  BY Numbers DEF IInv, TypeOK, WireOrder
<1>3. units \in Nat /\ got[c] < units /\ units <= sent[c]
  BY <1>1, Numbers DEF UnitsAfterRead
<1>4. BodySize(units) \in Nat
  BY <1>3, Numbers DEF BodySize, HeadDone
<1>5. CASE chain[c] = 0 /\ n > 0
  <2>1. n \in 0..req[c].actual
    BY <1>2, <1>3, <1>4, <1>5, Numbers DEF BodySize, HeadDone
  <2> QED
    BY <1>2, <1>3, <1>4, <1>5, <2>1, SpaceAssumption DEF ChainAfter
<1>6. CASE ~ (chain[c] = 0 /\ n > 0)
  BY <1>3, <1>4, <1>6, Numbers DEF ChainAfter
<1> QED
  BY <1>5, <1>6

(* The tag and the output that finish_head leaves for a read of the head,  *)
(* or that were there before for a read of the body.                       *)
HeadRead(c, t, o) ==
  LET headNow == HeadDone(UnitsAfterRead(c)) /\ ~ HeadDone(got[c])
  IN  /\ t = IF headNow THEN TagAfterHead(req[c], tag[c]) ELSE tag[c]
      /\ o = IF headNow THEN OutputAfterHead(req[c], output[c])
                        ELSE output[c]

(* finish_head keeps the bookkeeping of an open connection. *)
LEMMA HeadReadKeepsBooks ==
  ASSUME IInv, NEW c \in open, got[c] < sent[c], NEW t, NEW o,
         HeadRead(c, t, o)
  PROVE  /\ t \in SUBSET Tag
         /\ o \in Seq(ReplySet)
         /\ Len(o) = IF "REQUEST_FINISHED" \in t THEN 1 ELSE 0
         /\ "REQUEST_HEAD_APPROVED" \in t => HeadApproved(req[c])
         /\ ~ HeadDone(UnitsAfterRead(c)) => t = {"REQUEST_RECEIVED"}
<1>1. c \in Conn /\ tag[c] \in SUBSET Tag /\ output[c] \in Seq(ReplySet)
  BY DEF IInv, TypeOK
<1>2. /\ UnitsAfterRead(c) \in Nat /\ got[c] < UnitsAfterRead(c)
      /\ got[c] \in Nat /\ HeadLen \in Nat
  BY <1>1, ReadAdvances, Numbers
<1>3. /\ Len(output[c]) = IF "REQUEST_FINISHED" \in tag[c] THEN 1 ELSE 0
      /\ "REQUEST_HEAD_APPROVED" \in tag[c] => HeadApproved(req[c])
      /\ ~ HeadDone(got[c]) => tag[c] = {"REQUEST_RECEIVED"}
  BY DEF IInv, Bookkeeping, ApprovedMeansParsed, BeforeHead
<1>4. CASE HeadDone(UnitsAfterRead(c)) /\ ~ HeadDone(got[c])
  <2>1. tag[c] = {"REQUEST_RECEIVED"} /\ output[c] = <<>>
    BY <1>1, <1>3, <1>4
  <2>2. CASE HeadApproved(req[c])
    BY <1>1, <1>4, <2>1, <2>2
       DEF HeadRead, TagAfterHead, OutputAfterHead, Tag
  <2>3. CASE ~ HeadApproved(req[c])
    <3>1. t = {"REQUEST_RECEIVED", "REQUEST_FINISHED"}
      BY <1>4, <2>1, <2>3 DEF HeadRead, TagAfterHead
    <3>2. o = Append(<<>>, InternalServerError)
      BY <1>4, <2>1, <2>3 DEF HeadRead, OutputAfterHead
    <3>3. o \in Seq(ReplySet) /\ Len(o) = 1
      BY <3>2, <1>1, <2>1, RefusalType
    <3> QED
      BY <1>4, <3>1, <3>3 DEF Tag
  <2> QED
    BY <2>2, <2>3
<1>5. CASE ~ (HeadDone(UnitsAfterRead(c)) /\ ~ HeadDone(got[c]))
  <2>1. t = tag[c] /\ o = output[c]
    BY <1>5 DEF HeadRead
  <2>2. HeadDone(got[c]) => HeadDone(UnitsAfterRead(c))
    BY <1>2 DEF HeadDone
  <2> QED
    BY <1>1, <1>3, <1>5, <2>1, <2>2
<1> QED
  BY <1>4, <1>5

(* What send_response does to the tag, the output and the loop, stated so  *)
(* that its three disjuncts need not be opened again.                      *)
LEMMA SendResponseEffect ==
  ASSUME IInv, NEW c \in open, got[c] < sent[c], busy = {},
         NEW t, NEW o, HeadRead(c, t, o),
         Completes(req[c], t, UnitsAfterRead(c)),
         NEW doc \in Document,
         SendResponse(c, t, o, doc)
  PROVE  \E t2 \in SUBSET Tag, o2 \in Seq(ReplySet) :
           /\ tag' = [tag EXCEPT ![c] = t2]
           /\ output' = [output EXCEPT ![c] = o2]
           /\ Len(o2) = IF "REQUEST_FINISHED" \in t2 THEN 1 ELSE 0
           /\ "REQUEST_HEAD_APPROVED" \in t2 => HeadApproved(req[c])
           /\ \/ busy' = {}
              \/ /\ busy' = {c}
                 /\ "REQUEST_FINISHED" \notin t2
                 /\ HeadApproved(req[c])
                 /\ ~ Refused(req[c])
<1>1. /\ t \in SUBSET Tag /\ o \in Seq(ReplySet)
      /\ Len(o) = IF "REQUEST_FINISHED" \in t THEN 1 ELSE 0
      /\ HeadApproved(req[c])
  BY HeadReadKeepsBooks DEF Completes, IInv, TypeOK
<1>2. CASE "REQUEST_FINISHED" \in t
  <2>1. /\ tag' = [tag EXCEPT ![c] = t] /\ output' = [output EXCEPT ![c] = o]
        /\ busy' = {}
    BY <1>2 DEF SendResponse
  <2> QED
    BY <1>1, <2>1
<1>3. CASE "REQUEST_FINISHED" \notin t /\ Refused(req[c])
  <2> DEFINE t2 == t \cup {"REQUEST_FINISHED"}
             o2 == Append(o, Refusal(req[c]))
  <2>1. /\ tag' = [tag EXCEPT ![c] = t2]
        /\ output' = [output EXCEPT ![c] = o2]
        /\ busy' = {}
    BY <1>3 DEF SendResponse
  <2>2. t2 \in SUBSET Tag /\ "REQUEST_FINISHED" \in t2
    BY <1>1 DEF Tag
  <2>3. o2 \in Seq(ReplySet) /\ Len(o2) = 1
    BY <1>1, <1>3, RefusalType
  <2> HIDE DEF t2, o2
  <2> QED
    BY <1>1, <2>1, <2>2, <2>3
<1>4. CASE "REQUEST_FINISHED" \notin t /\ ~ Refused(req[c])
  <2> DEFINE t2 == TagAfterAnalysis(req[c], doc, t)
  <2>1. /\ tag' = [tag EXCEPT ![c] = t2] /\ output' = [output EXCEPT ![c] = o]
        /\ busy' = {c}
    BY <1>4 DEF SendResponse
  <2>2. t2 \in SUBSET Tag /\ "REQUEST_FINISHED" \notin t2
    BY <1>1, <1>4, AnalysisTag DEF TagAfterAnalysis
  <2> HIDE DEF t2
  <2> QED
    BY <1>1, <1>4, <2>1, <2>2
<1> QED
  BY <1>2, <1>3, <1>4

(* read_cb preserves the inductive invariant. *)
LEMMA ReadStep ==
  ASSUME IInv, NEW c \in Conn, ReadCb(c)
  PROVE  IInv'
<1> DEFINE units   == UnitsAfterRead(c)
           headNow == HeadDone(units) /\ ~ HeadDone(got[c])
           t       == IF headNow THEN TagAfterHead(req[c], tag[c]) ELSE tag[c]
           o       == IF headNow THEN OutputAfterHead(req[c], output[c])
                                 ELSE output[c]
<1>1. /\ busy = {} /\ c \in open /\ got[c] < sent[c]
      /\ UNCHANGED <<running, req, delivered>>
  BY DEF ReadCb, LoopFree
<1>2. CASE ParserFails(req[c], units)
  <2>1. Release(c) /\ UNCHANGED busy
    BY <1>2 DEF ReadCb
  <2>2. delivered[c] = <<>> /\ delivered' \in [Conn -> Seq(ReplySet)]
    BY <1>1 DEF IInv, TypeOK, Bookkeeping
  <2> QED
    BY <1>1, <2>1, <2>2, ReleaseStep
<1>3. CASE ~ ParserFails(req[c], units)
  <2>1. HeadRead(c, t, o)
    BY DEF HeadRead
  <2>2. /\ t \in SUBSET Tag /\ o \in Seq(ReplySet)
        /\ Len(o) = IF "REQUEST_FINISHED" \in t THEN 1 ELSE 0
        /\ "REQUEST_HEAD_APPROVED" \in t => HeadApproved(req[c])
        /\ ~ HeadDone(units) => t = {"REQUEST_RECEIVED"}
    <3> HIDE DEF t, o
    <3> QED
      BY <1>1, <2>1, HeadReadKeepsBooks
  <2>3. /\ units \in Nat /\ got[c] < units /\ units <= sent[c]
        /\ ChainAfter(c, units) \in Nat
    BY <1>1, ReadAdvances
  <2>4. /\ got' = [got EXCEPT ![c] = units]
        /\ chain' = [chain EXCEPT ![c] = ChainAfter(c, units)]
        /\ UNCHANGED <<open, sent, gone>>
    BY <1>3 DEF ReadCb
  <2>5. \E t2 \in SUBSET Tag, o2 \in Seq(ReplySet) :
           /\ tag' = [tag EXCEPT ![c] = t2]
           /\ output' = [output EXCEPT ![c] = o2]
           /\ Len(o2) = IF "REQUEST_FINISHED" \in t2 THEN 1 ELSE 0
           /\ "REQUEST_HEAD_APPROVED" \in t2 => HeadApproved(req[c])
           /\ ~ HeadDone(units) => t2 = {"REQUEST_RECEIVED"}
           /\ \/ busy' = {}
              \/ /\ busy' = {c}
                 /\ "REQUEST_FINISHED" \notin t2
                 /\ HeadApproved(req[c])
                 /\ ~ Refused(req[c])
                 /\ HeadDone(units)
                 /\ BodySize(units) = req[c].length
    <3>1. CASE Completes(req[c], t, units)
      <4> DEFINE doc == DocumentSeen(req[c], ChainAfter(c, units))
      <4>1. SendResponse(c, t, o, doc)
        BY <1>3, <3>1 DEF ReadCb
      <4>2. doc \in Document
        BY Numbers DEF DocumentSeen, Document
      <4>3. HeadDone(units) /\ BodySize(units) = req[c].length
        BY <3>1 DEF Completes
      <4> HIDE DEF doc, t, o
      <4> QED
        BY <1>1, <2>1, <3>1, <4>1, <4>2, <4>3, SendResponseEffect
    <3>2. CASE ~ Completes(req[c], t, units)
      <4>1. /\ tag' = [tag EXCEPT ![c] = t]
            /\ output' = [output EXCEPT ![c] = o]
            /\ busy' = {}
        BY <1>1, <1>3, <3>2 DEF ReadCb
      <4> HIDE DEF t, o
      <4> QED
        BY <2>2, <4>1
    <3> QED
      BY <3>1, <3>2
  <2>6. PICK t2 \in SUBSET Tag, o2 \in Seq(ReplySet) :
           /\ tag' = [tag EXCEPT ![c] = t2]
           /\ output' = [output EXCEPT ![c] = o2]
           /\ Len(o2) = IF "REQUEST_FINISHED" \in t2 THEN 1 ELSE 0
           /\ "REQUEST_HEAD_APPROVED" \in t2 => HeadApproved(req[c])
           /\ ~ HeadDone(units) => t2 = {"REQUEST_RECEIVED"}
           /\ \/ busy' = {}
              \/ /\ busy' = {c}
                 /\ "REQUEST_FINISHED" \notin t2
                 /\ HeadApproved(req[c])
                 /\ ~ Refused(req[c])
                 /\ HeadDone(units)
                 /\ BodySize(units) = req[c].length
    BY <2>5
  <2> HIDE DEF t, o, headNow, units
  <2>7. TypeOK'
    BY <1>1, <2>3, <2>4, <2>6 DEF IInv, TypeOK
  <2>8. WireOrder'
    BY <1>1, <2>3, <2>4 DEF IInv, TypeOK, WireOrder
  <2>9. FreeSlots'
    BY <1>1, <2>4, <2>6 DEF IInv, TypeOK, FreeSlots
  <2>10. BeforeHead' /\ ApprovedMeansParsed'
    BY <1>1, <2>4, <2>6 DEF IInv, TypeOK, BeforeHead, ApprovedMeansParsed
  <2>11. Bookkeeping'
    BY <1>1, <2>4, <2>6 DEF IInv, TypeOK, Bookkeeping
  <2>12. WaitingForAmqp'
    BY <1>1, <2>4, <2>6 DEF IInv, TypeOK, WaitingForAmqp
  <2> QED
    BY <2>7, <2>8, <2>9, <2>10, <2>11, <2>12 DEF IInv
<1> QED
  BY <1>2, <1>3

(* The return from the AMQP calls preserves it. *)
LEMMA AmqpReturnsStep ==
  ASSUME IInv, NEW c \in Conn, AmqpReturns(c)
  PROVE  IInv'
<1>1. PICK failed \in BOOLEAN, fetched \in {<<>>} \cup {<<m>> : m \in Message} :
        output' = [output EXCEPT ![c] =
                    Append(@, NotifiedReply(req[c], tag[c], failed, fetched))]
  BY DEF AmqpReturns
<1> DEFINE reply == NotifiedReply(req[c], tag[c], failed, fetched)
<1>2. reply \in ReplySet
  BY NotifiedReplyType
<1>3. /\ c \in busy /\ c \in open
      /\ "REQUEST_FINISHED" \notin tag[c] /\ HeadDone(got[c])
      /\ HeadApproved(req[c])
  BY DEF AmqpReturns, IInv, WaitingForAmqp
<1> HIDE DEF reply
<1>4. output[c] \in Seq(ReplySet) /\ Len(output[c]) = 0
  BY <1>3 DEF IInv, TypeOK, Bookkeeping
<1>5. PICK o2 : o2 = Append(output[c], reply)
  OBVIOUS
<1>6. o2 \in Seq(ReplySet) /\ Len(o2) = 1 /\ output' = [output EXCEPT ![c] = o2]
  BY <1>1, <1>2, <1>4, <1>5 DEF reply
<1>7. /\ tag' = [tag EXCEPT ![c] = @ \cup {"REQUEST_FINISHED"}]
      /\ busy' = {}
      /\ UNCHANGED <<running, open, req, sent, got, gone, chain, delivered>>
  BY DEF AmqpReturns
<1>8. TypeOK' /\ WireOrder'
  BY <1>6, <1>7 DEF IInv, TypeOK, WireOrder, Tag
<1>9. FreeSlots' /\ BeforeHead' /\ ApprovedMeansParsed'
  BY <1>3, <1>6, <1>7
     DEF IInv, TypeOK, FreeSlots, BeforeHead, ApprovedMeansParsed
<1>10. Bookkeeping' /\ WaitingForAmqp'
  BY <1>3, <1>6, <1>7 DEF IInv, TypeOK, Bookkeeping, WaitingForAmqp
<1> QED
  BY <1>8, <1>9, <1>10 DEF IInv

(* write_cb finds a single reply of a finished request, and releases. *)
LEMMA WriteFinds ==
  ASSUME IInv, NEW c \in Conn, WriteCb(c)
  PROVE  /\ busy = {} /\ c \in open
         /\ Len(output[c]) = 1 /\ delivered[c] = <<>>
         /\ delivered' = [delivered EXCEPT ![c] = output[c]]
         /\ Release(c)
         /\ UNCHANGED <<running, busy, req>>
<1>1. c \in open /\ busy = {} /\ output[c] # <<>>
  BY DEF WriteCb, LoopFree
<1>2. output[c] \in Seq(ReplySet) /\ delivered[c] = <<>>
  BY <1>1 DEF IInv, TypeOK, Bookkeeping
<1>3. Len(output[c]) = 1 /\ "REQUEST_FINISHED" \in tag[c]
  <2>1. Len(output[c]) # 0
    BY <1>1, <1>2
  <2>2. Len(output[c]) = IF "REQUEST_FINISHED" \in tag[c] THEN 1 ELSE 0
    BY <1>1 DEF IInv, Bookkeeping
  <2> QED
    BY <2>1, <2>2
<1>4. delivered[c] \o output[c] = output[c]
  BY <1>2
<1> QED
  BY <1>1, <1>2, <1>3, <1>4 DEF WriteCb, ReleasesAfterWrite

(* So write_cb preserves the inductive invariant. *)
LEMMA WriteStep ==
  ASSUME IInv, NEW c \in Conn, WriteCb(c)
  PROVE  IInv'
<1>1. /\ busy = {} /\ c \in open
      /\ Len(output[c]) = 1
      /\ delivered' = [delivered EXCEPT ![c] = output[c]]
      /\ Release(c)
      /\ UNCHANGED <<running, busy, req>>
  BY WriteFinds
<1>2. delivered' \in [Conn -> Seq(ReplySet)] /\ Len(delivered'[c]) <= 1
      /\ \A d \in Conn \ {c} : delivered'[d] = delivered[d]
  <2>1. delivered \in [Conn -> Seq(ReplySet)] /\ output[c] \in Seq(ReplySet)
    BY DEF IInv, TypeOK
  <2>2. delivered'[c] = output[c]
    BY <1>1, <2>1
  <2>3. \A d \in Conn \ {c} : delivered'[d] = delivered[d]
    BY <1>1, <2>1
  <2>4. delivered' \in [Conn -> Seq(ReplySet)]
    BY <1>1, <2>1
  <2>5. Len(output[c]) <= 1
    BY <1>1
  <2>6. Len(delivered'[c]) <= 1
    BY ONLY <2>2, <2>5, Zenon
  <2> QED
    BY <2>3, <2>4, <2>6
<1> QED
  BY <1>1, <1>2, ReleaseStep

(* And so does the end of a connection. *)
LEMMA EventStep ==
  ASSUME IInv, NEW c \in Conn, EventCb(c)
  PROVE  IInv'
<1>1. busy = {} /\ c \in open /\ Release(c)
      /\ UNCHANGED <<running, busy, req, delivered>>
  BY DEF EventCb, LoopFree
<1>2. delivered[c] = <<>> /\ delivered' \in [Conn -> Seq(ReplySet)]
  BY <1>1 DEF IInv, TypeOK, Bookkeeping
<1> QED
  BY <1>1, <1>2, ReleaseStep

-----------------------------------------------------------------------------
(***************************************************************************)
(* The inductive invariant holds of every behaviour.                       *)
(***************************************************************************)
THEOREM IInvHolds == Spec => []IInv
<1>1. IInv /\ [Next]_vars => IInv'
  <2> SUFFICES ASSUME IInv, [Next]_vars PROVE IInv'
    OBVIOUS
  <2>1. ASSUME NEW c \in Conn, PeerSend(c) \/ PeerClose(c) PROVE IInv'
    BY <2>1, PeerStep
  <2>2. ASSUME NEW c \in Conn, Accept(c) PROVE IInv'
    BY <2>2, AcceptStep
  <2>3. ASSUME NEW c \in Conn, ReadCb(c) PROVE IInv'
    BY <2>3, ReadStep
  <2>4. ASSUME NEW c \in Conn, AmqpReturns(c) PROVE IInv'
    BY <2>4, AmqpReturnsStep
  <2>5. ASSUME NEW c \in Conn, WriteCb(c) PROVE IInv'
    BY <2>5, WriteStep
  <2>6. ASSUME NEW c \in Conn, EventCb(c) PROVE IInv'
    BY <2>6, EventStep
  <2>7. CASE AcceptErrorCb
    BY <2>7 DEF AcceptErrorCb, IInv, TypeOK, WireOrder, FreeSlots, BeforeHead,
                ApprovedMeansParsed, Bookkeeping, WaitingForAmqp
  <2>8. CASE UNCHANGED vars
    BY <2>8 DEF vars, IInv, TypeOK, WireOrder, FreeSlots, BeforeHead,
                ApprovedMeansParsed, Bookkeeping, WaitingForAmqp
  <2> QED
    BY <2>1, <2>2, <2>3, <2>4, <2>5, <2>6, <2>7, <2>8 DEF Next
<1> QED
  BY <1>1, InitIInv, PTL DEF Spec

(***************************************************************************)
(* Type correctness.                                                       *)
(***************************************************************************)
THEOREM TypeCorrect == Spec => []TypeOK
<1>1. IInv => TypeOK
  BY DEF IInv
<1> QED
  BY <1>1, IInvHolds, PTL

(***************************************************************************)
(* No connection ever carries two replies: the answers of finish_head,     *)
(* read_cb and send_response exclude each other under every fragmentation. *)
(***************************************************************************)
THEOREM OneAnswer == Spec => []AnswersOnce
<1>1. IInv => AnswersOnce
  <2> SUFFICES ASSUME IInv, NEW c \in Conn
               PROVE  Len(output[c]) + Len(delivered[c]) <= 1
    BY DEF AnswersOnce
  <2>1. CASE c \in open
    <3>1. /\ delivered[c] = <<>>
          /\ Len(output[c]) = IF "REQUEST_FINISHED" \in tag[c] THEN 1 ELSE 0
      BY <2>1 DEF IInv, Bookkeeping
    <3>2. Len(delivered[c]) = 0 /\ Len(output[c]) <= 1
      BY <3>1
    <3> QED
      BY <3>1, <3>2
  <2>2. CASE c \notin open
    BY <2>2 DEF IInv, TypeOK, FreeSlots
  <2> QED
    BY <2>1, <2>2
<1> QED
  BY <1>1, IInvHolds, PTL

(***************************************************************************)
(* The FINISHED tag and the queued reply of an open connection coincide.   *)
(***************************************************************************)
THEOREM FinishedIsAnswered == Spec => []FinishedMeansAnswered
<1>1. IInv => FinishedMeansAnswered
  <2> SUFFICES ASSUME IInv, NEW c \in open
               PROVE  /\ "REQUEST_FINISHED" \in tag[c] <=> output[c] # <<>>
                      /\ delivered[c] = <<>>
    BY DEF FinishedMeansAnswered
  <2>1. output[c] \in Seq(ReplySet)
    BY DEF IInv, TypeOK
  <2>2. /\ delivered[c] = <<>>
        /\ Len(output[c]) = IF "REQUEST_FINISHED" \in tag[c] THEN 1 ELSE 0
    BY DEF IInv, Bookkeeping
  <2> QED
    BY <2>1, <2>2
<1> QED
  BY <1>1, IInvHolds, PTL

(***************************************************************************)
(* send_response never follows a pointer to a header that was not sent, or *)
(* into a connection that was released while it waited for the broker.     *)
(***************************************************************************)
THEOREM HeadersAreThere == Spec => []HeadersAtHand
<1>1. IInv => HeadersAtHand
  BY DEF IInv, WaitingForAmqp, HeadersAtHand, HeadApproved, Refused
<1> QED
  BY <1>1, IInvHolds, PTL

-----------------------------------------------------------------------------
(***************************************************************************)
(* What read_cb queues, it queues for a request that is complete, or for a *)
(* parsed head that was rejected.                                          *)
(***************************************************************************)
LEMMA ReadQueuesForWhole ==
  ASSUME IInv, NEW c \in Conn, ReadCb(c), Queues(c)
  PROVE  /\ HeadDone(got'[c])
         /\ HeadApproved(req[c]) => BodySize(got'[c]) = req[c].length
<1> DEFINE units   == UnitsAfterRead(c)
           headNow == HeadDone(units) /\ ~ HeadDone(got[c])
           t       == IF headNow THEN TagAfterHead(req[c], tag[c]) ELSE tag[c]
           o       == IF headNow THEN OutputAfterHead(req[c], output[c])
                                 ELSE output[c]
<1>1. output[c] \in Seq(ReplySet) /\ output \in [Conn -> Seq(ReplySet)]
  BY DEF IInv, TypeOK
<1>2. ~ ParserFails(req[c], units)
  <2> SUFFICES ASSUME ParserFails(req[c], units) PROVE FALSE
    OBVIOUS
  <2>1. output' = [output EXCEPT ![c] = <<>>]
    BY DEF ReadCb, Release
  <2>2. output'[c] = <<>>
    BY <1>1, <2>1
  <2> QED
    BY <1>1, <2>2 DEF Queues
<1>3. got'[c] = units
  BY <1>2 DEF ReadCb, IInv, TypeOK
<1>4. CASE Completes(req[c], t, units)
  BY <1>3, <1>4 DEF Completes
<1>5. CASE ~ Completes(req[c], t, units)
  <2>1. output'[c] = o
    BY <1>1, <1>2, <1>5 DEF ReadCb
  <2>2. headNow /\ ~ HeadApproved(req[c])
    BY <1>1, <2>1 DEF Queues, OutputAfterHead
  <2> QED
    BY <1>3, <2>2
<1> QED
  BY <1>4, <1>5

(***************************************************************************)
(* No reply is queued before the request it answers has been read.         *)
(***************************************************************************)
THEOREM OnlyWholeRequestsAnswered == Spec => AnswersWholeRequest
<1> DEFINE Whole(c) ==
      /\ HeadDone(got'[c])
      /\ HeadApproved(req[c]) => BodySize(got'[c]) = req[c].length
<1>1. ASSUME IInv, [Next]_vars, NEW c \in Conn, Queues(c)
      PROVE  Whole(c)
  <2>1. output \in [Conn -> Seq(ReplySet)] /\ output[c] \in Seq(ReplySet)
    BY <1>1 DEF IInv, TypeOK
  <2>2. output'[c] # output[c] /\ output'[c] # <<>>
    BY <1>1, <2>1 DEF Queues
  <2>3. output' # output
    BY <2>2
  <2>4. ASSUME NEW d \in Conn, Release(d) PROVE FALSE
    BY <2>1, <2>2, <2>4 DEF Release
  <2>5. PICK d \in Conn : ReadCb(d) \/ AmqpReturns(d) \/ WriteCb(d)
    BY <1>1, <2>3, <2>4
       DEF Next, vars, PeerSend, PeerClose, Accept, EventCb, AcceptErrorCb
  <2>6. CASE WriteCb(d)
    BY <1>1, <2>4, <2>6, WriteFinds
  <2>7. CASE AmqpReturns(d)
    <3>1. d = c
      BY <2>1, <2>2, <2>7 DEF AmqpReturns
    <3> QED
      BY <1>1, <2>7, <3>1 DEF AmqpReturns, IInv, WaitingForAmqp
  <2>8. CASE ReadCb(d)
    <3>1. d = c
      BY <2>1, <2>2, <2>4, <2>8 DEF ReadCb, SendResponse
    <3> QED
      BY <1>1, <2>8, <3>1, ReadQueuesForWhole
  <2> QED
    BY <2>5, <2>6, <2>7, <2>8
<1>2. IInv /\ [Next]_vars
        => [\A c \in Conn : Queues(c) => Whole(c)]_vars
  BY <1>1
<1> QED
  BY <1>2, IInvHolds, PTL DEF Spec, AnswersWholeRequest

(***************************************************************************)
(* A connection is released with its reply written, because its peer is    *)
(* gone or because its request is malformed or too long, never otherwise.  *)
(***************************************************************************)
THEOREM ReleasesHaveReasons == Spec => ReleasedForAReason
<1> DEFINE Reason(c) == \/ output[c] # <<>> /\ delivered'[c] = output[c]
                        \/ c \in gone
                        \/ ~ req[c].wellformed
                        \/ req[c].actual > MaxBody
<1>1. ASSUME IInv, [Next]_vars, NEW c \in open \ open'
      PROVE  Reason(c)
  <2>1. c \in Conn /\ delivered \in [Conn -> Seq(ReplySet)]
    BY <1>1 DEF IInv, TypeOK
  <2>2. ASSUME NEW d \in Conn, Release(d) PROVE d = c
    BY <1>1, <2>2 DEF Release
  <2>3. PICK d \in Conn : ReadCb(d) \/ WriteCb(d) \/ EventCb(d)
    BY <1>1
       DEF Next, vars, PeerSend, PeerClose, Accept, AmqpReturns, AcceptErrorCb
  <2>4. CASE ReadCb(d)
    <3>1. ParserFails(req[c], UnitsAfterRead(c)) /\ got[c] < sent[c]
      BY <1>1, <2>2, <2>4 DEF ReadCb
    <3>2. /\ UnitsAfterRead(c) \in Nat /\ UnitsAfterRead(c) <= sent[c]
          /\ sent[c] <= HeadLen + req[c].actual
      BY <1>1, <2>1, <3>1, ReadAdvances, Numbers DEF IInv, WireOrder
    <3> QED
      BY <1>1, <2>1, <3>1, <3>2, Numbers, MaxBodyAssumption
         DEF ParserFails, BodySize, HeadDone
  <2>5. CASE EventCb(d)
    BY <2>2, <2>5 DEF EventCb, EndsConnection
  <2>6. CASE WriteCb(d)
    <3>1. /\ delivered' = [delivered EXCEPT ![d] = output[d]]
          /\ Release(d) /\ output[d] # <<>>
      BY <1>1, <2>6, WriteFinds DEF WriteCb
    <3> QED
      BY <2>1, <2>2, <3>1
  <2> QED
    BY <2>3, <2>4, <2>5, <2>6
<1>2. IInv /\ [Next]_vars => [\A c \in open \ open' : Reason(c)]_vars
  BY <1>1
<1> QED
  BY <1>2, IInvHolds, PTL DEF Spec, ReleasedForAReason
=============================================================================

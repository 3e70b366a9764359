-------------------------- MODULE ScgiConnection ---------------------------
(***************************************************************************)
(* The SCGI side of freeacs-ng: the connections that the HTTP front end    *)
(* opens, each carrying one request, and the libevent callbacks that serve *)
(* them (src/freeacs-ng.c).                                                *)
(*                                                                         *)
(* One thread runs everything.  A callback is atomic with respect to the   *)
(* other callbacks, but not with respect to the peers: while send_response *)
(* sits in a blocking AMQP call (busy # {}), peers go on sending and       *)
(* closing and no other callback runs.                                     *)
(*                                                                         *)
(* The request travels as units: HeadLen of them for the SCGI head, then   *)
(* the body.  A peer may send less or more body than CONTENT_LENGTH says.  *)
(***************************************************************************)
EXTENDS RequestProcessing, FiniteSets

CONSTANTS
  Conn,         \* slots for connections; a slot is reused after a release
  Request,      \* the requests peers make
  Message,      \* the messages the provisioning queue may hold
  HeadLen,      \* units of a head
  MaxBody,      \* scgi_limits.max_body_size
  ReadMax,      \* most units libevent reads before it calls read_cb
  Space(_)      \* size of the evbuffer chain created for a first add of n

RequestType == [has : SUBSET Header, method : STRING, credentials : STRING,
                cookie : STRING, length : Nat, wellformed : BOOLEAN,
                doc : Document, actual : Nat]

ASSUME RequestAssumption == Request \subseteq RequestType /\ Request # {}
ASSUME HeadLenAssumption == HeadLen \in Nat \ {0}
ASSUME MaxBodyAssumption == MaxBody \in Nat
ASSUME ReadMaxAssumption == ReadMax \in Nat \ {0}
ASSUME SpaceAssumption ==
         \A r \in Request : \A n \in 0..r.actual : Space(n) \in Nat

VARIABLES
  running,      \* event_base_dispatch has not been told to exit
  busy,         \* the connection whose send_response waits for AMQP, if any
  open,         \* connections whose struct connection_t is allocated
  req,          \* the request the peer is making
  sent,         \* units the peer has put on the wire
  got,          \* units read_cb has fed to scgi_consume
  gone,         \* peers that have closed, or whose socket has failed
  tag,          \* connection_t.tag
  chain,        \* size of the first chain of connection_t.body
  output,       \* replies in the bufferevent's output buffer
  delivered     \* replies written to the socket

vars == <<running, busy, open, req, sent, got, gone, tag, chain, output,
          delivered>>

ReplySet == ReplyOver(Message)

(***************************************************************************)
(* Operators named X_Y are the mutants of X: X with the slip Y in it.      *)
(* Nothing uses them; the checks put them in place of X.                   *)
(***************************************************************************)

(***************************************************************************)
(* The parser's position follows from the units it has been fed.           *)
(***************************************************************************)
HeadDone(units) == units >= HeadLen
BodySize(units) == IF HeadDone(units) THEN units - HeadLen ELSE 0

TypeOK ==
  /\ running \in BOOLEAN
  /\ busy \in SUBSET Conn
  /\ open \in SUBSET Conn
  /\ req \in [Conn -> Request]
  /\ sent \in [Conn -> Nat]
  /\ got \in [Conn -> Nat]
  /\ gone \in SUBSET Conn
  /\ tag \in [Conn -> SUBSET Tag]
  /\ chain \in [Conn -> Nat]
  /\ output \in [Conn -> Seq(ReplySet)]
  /\ delivered \in [Conn -> Seq(ReplySet)]

Init ==
  /\ running = TRUE
  /\ busy = {}
  /\ open = {}
  /\ req = [c \in Conn |-> CHOOSE r \in Request : TRUE]
  /\ sent = [c \in Conn |-> 0]
  /\ got = [c \in Conn |-> 0]
  /\ gone = {}
  /\ tag = [c \in Conn |-> {}]
  /\ chain = [c \in Conn |-> 0]
  /\ output = [c \in Conn |-> <<>>]
  /\ delivered = [c \in Conn |-> <<>>]

-----------------------------------------------------------------------------
(***************************************************************************)
(* The peers.  Wire(r) units make up the whole of request r.               *)
(***************************************************************************)
Wire(r) == HeadLen + r.actual

PeerSend(c) ==
  /\ c \in open \ gone
  /\ \E units \in (sent[c] + 1)..Wire(req[c]) :
       sent' = [sent EXCEPT ![c] = units]
  /\ UNCHANGED <<running, busy, open, req, got, gone, tag, chain, output,
                 delivered>>

PeerClose(c) ==
  /\ c \in open \ gone
  /\ gone' = gone \cup {c}
  /\ UNCHANGED <<running, busy, open, req, sent, got, tag, chain, output,
                 delivered>>

-----------------------------------------------------------------------------
(***************************************************************************)
(* A callback starts only when the loop runs and no other is under way.    *)
(***************************************************************************)
LoopFree == running /\ busy = {}

(***************************************************************************)
(* accept_conn_cb and prepare_connection for a peer that wants r.          *)
(***************************************************************************)
Accept(c) ==
  /\ LoopFree
  /\ c \notin open
  /\ open' = open \cup {c}
  /\ \E r \in Request : req' = [req EXCEPT ![c] = r]
  /\ tag' = [tag EXCEPT ![c] = {"REQUEST_RECEIVED"}]
  /\ delivered' = [delivered EXCEPT ![c] = <<>>]
  /\ UNCHANGED <<running, busy, sent, got, gone, chain, output>>

(***************************************************************************)
(* release_connection: the socket, the buffers and the bookkeeping go, and *)
(* with them whatever was not written yet.                                 *)
(***************************************************************************)
Release(c) ==
  /\ open' = open \ {c}
  /\ gone' = gone \ {c}
  /\ sent' = [sent EXCEPT ![c] = 0]
  /\ got' = [got EXCEPT ![c] = 0]
  /\ tag' = [tag EXCEPT ![c] = {}]
  /\ chain' = [chain EXCEPT ![c] = 0]
  /\ output' = [output EXCEPT ![c] = <<>>]

(***************************************************************************)
(* The SCGI parser library: a head it cannot parse, a body over the limit. *)
(***************************************************************************)
ParserFails_AtLimit(r, units) ==
  HeadDone(units) /\ (~ r.wellformed \/ BodySize(units) >= MaxBody)

ParserFails(r, units) ==
  HeadDone(units) /\ (~ r.wellformed \/ BodySize(units) > MaxBody)

(***************************************************************************)
(* finish_head approves the head, or answers 500 at once.                  *)
(***************************************************************************)
TagAfterHead_NoReturn(r, t) == t \cup {"REQUEST_HEAD_APPROVED"}

TagAfterHead_NotFinished(r, t) ==
  IF HeadApproved(r) THEN t \cup {"REQUEST_HEAD_APPROVED"} ELSE t

TagAfterHead(r, t) ==
  IF HeadApproved(r) THEN t \cup {"REQUEST_HEAD_APPROVED"}
                     ELSE t \cup {"REQUEST_FINISHED"}

OutputAfterHead(r, o) ==
  IF HeadApproved(r) THEN o ELSE Append(o, InternalServerError)

(***************************************************************************)
(* read_cb's test for the end of the request: an approved head, and as     *)
(* much body as it declared, when the read is over.                        *)
(***************************************************************************)
Completes_AnyBody(r, t, units) ==
  "REQUEST_HEAD_APPROVED" \in t /\ HeadDone(units)

Completes_BodyOnly(r, t, units) ==
  /\ "REQUEST_HEAD_APPROVED" \in t
  /\ HeadDone(units)
  /\ r.length > 0 /\ BodySize(units) = r.length

Completes(r, t, units) ==
  /\ "REQUEST_HEAD_APPROVED" \in t
  /\ HeadDone(units)
  /\ BodySize(units) = r.length

(***************************************************************************)
(* accept_body: the first add creates a chain with room for Space(n).      *)
(* finish_body hands on a pointer into that first chain with the length of *)
(* the whole body, so a body that went on into a second chain is not what  *)
(* xml_message_analyze sees.  What follows the first chain in memory is    *)
(* allocator and evbuffer bookkeeping, never the rest of the document.     *)
(***************************************************************************)
ChainAfter(c, units) ==
  LET n == BodySize(units) - BodySize(got[c])
  IN  IF chain[c] = 0 /\ n > 0 THEN Space(n) ELSE chain[c]

DocumentSeen(r, room) == IF r.length <= room THEN r.doc ELSE "Unreadable"

(***************************************************************************)
(* send_response up to the first AMQP call.                                *)
(***************************************************************************)
SendResponse(c, t, o, doc) ==
  \/ /\ "REQUEST_FINISHED" \in t
     /\ tag' = [tag EXCEPT ![c] = t]
     /\ output' = [output EXCEPT ![c] = o]
     /\ UNCHANGED busy
  \/ /\ "REQUEST_FINISHED" \notin t
     /\ Refused(req[c])
     /\ tag' = [tag EXCEPT ![c] = t \cup {"REQUEST_FINISHED"}]
     /\ output' = [output EXCEPT ![c] = Append(o, Refusal(req[c]))]
     /\ UNCHANGED busy
  \/ /\ "REQUEST_FINISHED" \notin t
     /\ ~ Refused(req[c])
     /\ tag' = [tag EXCEPT ![c] = TagAfterAnalysis(req[c], doc, t)]
     /\ output' = [output EXCEPT ![c] = o]
     /\ busy' = {c}

(***************************************************************************)
(* read_cb: take what has arrived, feed the parser, and answer if that     *)
(* completed the request.                                                  *)
(***************************************************************************)
UnitsAfterRead(c) ==
  IF sent[c] - got[c] <= ReadMax THEN sent[c] ELSE got[c] + ReadMax

ReadCb(c) ==
  LET units   == UnitsAfterRead(c)
      headNow == HeadDone(units) /\ ~ HeadDone(got[c])
      t       == IF headNow THEN TagAfterHead(req[c], tag[c]) ELSE tag[c]
      o       == IF headNow THEN OutputAfterHead(req[c], output[c])
                            ELSE output[c]
  IN
  /\ LoopFree
  /\ c \in open
  /\ got[c] < sent[c]
  /\ \/ /\ ParserFails(req[c], units)
        /\ Release(c)
        /\ UNCHANGED busy
     \/ /\ ~ ParserFails(req[c], units)
        /\ got' = [got EXCEPT ![c] = units]
        /\ chain' = [chain EXCEPT ![c] = ChainAfter(c, units)]
        /\ IF Completes(req[c], t, units)
             THEN SendResponse(c, t, o,
                               DocumentSeen(req[c], ChainAfter(c, units)))
             ELSE /\ tag' = [tag EXCEPT ![c] = t]
                  /\ output' = [output EXCEPT ![c] = o]
                  /\ UNCHANGED busy
        /\ UNCHANGED <<open, sent, gone>>
  /\ UNCHANGED <<running, req, delivered>>

(***************************************************************************)
(* The rest of send_response, once amqp_notify and, if it is called,       *)
(* amqp_fetch_pending have returned.                                       *)
(***************************************************************************)
AmqpReturns(c) ==
  /\ c \in busy
  /\ \E failed \in BOOLEAN, fetched \in {<<>>} \cup {<<m>> : m \in Message} :
       output' = [output EXCEPT ![c] =
                    Append(@, NotifiedReply(req[c], tag[c], failed, fetched))]
  /\ tag' = [tag EXCEPT ![c] = @ \cup {"REQUEST_FINISHED"}]
  /\ busy' = {}
  /\ UNCHANGED <<running, open, req, sent, got, gone, chain, delivered>>

(***************************************************************************)
(* libevent writes the output buffer to the socket and calls write_cb when *)
(* nothing is left in it; the input buffer is always empty then, because   *)
(* read_cb never leaves anything behind.                                   *)
(***************************************************************************)
ReleasesAfterWrite(c) == "REQUEST_FINISHED" \in tag[c]

WriteCb(c) ==
  /\ LoopFree
  /\ c \in open
  /\ output[c] # <<>>
  /\ delivered' = [delivered EXCEPT ![c] = @ \o output[c]]
  /\ IF ReleasesAfterWrite(c)
       THEN Release(c)
       ELSE /\ output' = [output EXCEPT ![c] = <<>>]
            /\ UNCHANGED <<open, gone, sent, got, tag, chain>>
  /\ UNCHANGED <<running, busy, req>>

(***************************************************************************)
(* echo_event_cb on end of file or error: both release the connection, an  *)
(* answer that is still in the output buffer included.                     *)
(***************************************************************************)
EndsConnection_UnlessFinished(c) == c \in gone /\ "REQUEST_FINISHED" \notin tag[c]
EndsConnection(c) == c \in gone

EventCb(c) ==
  /\ LoopFree
  /\ c \in open
  /\ EndsConnection(c)
  /\ Release(c)
  /\ UNCHANGED <<running, busy, req, delivered>>

(***************************************************************************)
(* accept_error_cb stops the loop; main returns and nothing runs any more. *)
(***************************************************************************)
AcceptErrorCb ==
  /\ LoopFree
  /\ running' = FALSE
  /\ UNCHANGED <<busy, open, req, sent, got, gone, tag, chain, output,
                 delivered>>

Next ==
  \/ \E c \in Conn : \/ PeerSend(c) \/ PeerClose(c)
                     \/ Accept(c) \/ ReadCb(c) \/ AmqpReturns(c)
                     \/ WriteCb(c) \/ EventCb(c)
  \/ AcceptErrorCb

Spec == Init /\ [][Next]_vars

(***************************************************************************)
(* libevent runs every active event before it polls again, so a callback   *)
(* whose event keeps becoming active is not passed over for ever while     *)
(* other connections hold the loop: strong fairness.  A write to a peer    *)
(* that is gone may fail every time.  That an AMQP call returns at all is  *)
(* the broker's part; freeacs-ng gives it no timeout.                      *)
(***************************************************************************)
Fairness ==
  \A c \in Conn : /\ SF_vars(ReadCb(c))
                  /\ SF_vars(c \notin gone /\ WriteCb(c))
                  /\ SF_vars(EventCb(c))
                  /\ WF_vars(AmqpReturns(c))

FairSpec == Spec /\ Fairness

-----------------------------------------------------------------------------
(***************************************************************************)
(* A connection carries at most one reply, however its request is cut into *)
(* reads and whatever the peer sends after the request was complete: the   *)
(* FINISHED tag, the head's approval and the size test of read_cb have to  *)
(* agree, because finish_head, send_response and read_cb can all answer.   *)
(***************************************************************************)
AnswersOnce == \A c \in Conn : Len(output[c]) + Len(delivered[c]) <= 1

(***************************************************************************)
(* A connection that still exists is finished exactly when its reply waits *)
(* in the output buffer.  write_cb relies on it: a reply without the tag   *)
(* leaves the connection behind for good, the tag without a reply does     *)
(* too, because write_cb is not called for an empty buffer.                *)
(***************************************************************************)
FinishedMeansAnswered ==
  \A c \in open : /\ "REQUEST_FINISHED" \in tag[c] <=> output[c] # <<>>
                  /\ delivered[c] = <<>>

(***************************************************************************)
(* Past its AMQP calls send_response reads CONTENT_LENGTH, REMOTE_ADDR,    *)
(* the credentials and the connection itself without looking at the        *)
(* pointers again: all of them are there, also when the peer has gone.     *)
(***************************************************************************)
HeadersAtHand ==
  \A c \in busy : /\ c \in open
                  /\ Mandatory \cup {"HTTP_AUTHORIZATION"} \subseteq req[c].has

(***************************************************************************)
(* Nothing is answered before its time: when a reply is queued the whole   *)
(* head has been parsed, and unless the head was rejected exactly the body *)
(* that CONTENT_LENGTH announces has been read.                            *)
(***************************************************************************)
Queues(c) == Len(output'[c]) > Len(output[c])

AnswersWholeRequest ==
  [][\A c \in Conn :
       Queues(c) => /\ HeadDone(got'[c])
                    /\ HeadApproved(req[c]) => BodySize(got'[c]) = req[c].length
    ]_vars

(***************************************************************************)
(* A connection goes away for three reasons only: its reply has been       *)
(* written out, the peer is gone, or the peer's request is malformed or    *)
(* over the limit.  A request within the limits is never dropped.          *)
(***************************************************************************)
ReleasedForAReason ==
  [][\A c \in open \ open' :
       \/ output[c] # <<>> /\ delivered'[c] = output[c]
       \/ c \in gone
       \/ ~ req[c].wellformed
       \/ req[c].actual > MaxBody]_vars

(***************************************************************************)
(* A peer that sends what it announced, within the limit, and waits gets   *)
(* its reply (as long as the loop runs).                                   *)
(***************************************************************************)
Waits(c) == /\ c \in open \ gone
            /\ req[c].wellformed
            /\ req[c].actual <= MaxBody
            /\ req[c].actual = req[c].length
            /\ sent[c] = Wire(req[c])

Answered ==
  \A c \in Conn :
    Waits(c) ~> (delivered[c] # <<>> \/ c \in gone \/ ~ running)

(***************************************************************************)
(* A peer that goes away leaves nothing behind, at whatever stage of the   *)
(* request and of the reply it does.                                       *)
(***************************************************************************)
Reclaimed == \A c \in Conn : c \in gone ~> (c \notin open \/ ~ running)

(***************************************************************************)
(* prepare_connection sets out to make room for a body of max_body_size in *)
(* one piece; then what finish_body hands to xml_message_analyze is the    *)
(* whole body.                                                             *)
(***************************************************************************)
BodyIsContiguous == \A c \in busy : req[c].length <= chain[c]
=============================================================================

------------------------- MODULE RequestProcessing -------------------------
(***************************************************************************)
(* What send_response (src/freeacs-ng.c) decides about one CWMP request.   *)
(*                                                                         *)
(* The function is a ladder of early exits.  Some rungs are decided from   *)
(* the HTTP headers alone, some from the tag that xml_message_analyze      *)
(* leaves behind, and the last ones from what amqp_fetch_pending returns.  *)
(* This module holds the rungs as predicates and the reply of each rung;   *)
(* the modules that run them (ScgiConnection, AcsSession) add the state.   *)
(***************************************************************************)
EXTENDS Naturals, Sequences

CONSTANT Factory        \* auth_head: the credentials of the 'authorization'
                        \* sections, those a device is shipped with

(***************************************************************************)
(* A request.  "has" are the headers that the SCGI front end passes on;    *)
(* "length" is what atoi() makes of CONTENT_LENGTH; "doc" is the kind of   *)
(* document in the body.                                                   *)
(***************************************************************************)
Header == {"CONTENT_LENGTH", "HTTP_AUTHORIZATION", "HTTP_COOKIE",
           "REMOTE_ADDR", "REQUEST_METHOD"}

Document == {"Inform", "SetParameterValuesResponse", "AddObjectResponse",
             "Other", "Unreadable"}

Tag == {"REQUEST_RECEIVED", "REQUEST_HEAD_APPROVED", "REQUEST_FINISHED",
        "XML_CWMP_NONE", "XML_CWMP_TYPE_UNKNOWN", "XML_CWMP_TYPE_INFORM",
        "XML_CWMP_TYPE_SET_PARAM_RES", "XML_CWMP_TYPE_ADD_OBJECT_RES"}

(***************************************************************************)
(* finish_head approves a head only if it names these three.               *)
(***************************************************************************)
Mandatory == {"REQUEST_METHOD", "CONTENT_LENGTH", "REMOTE_ADDR"}

HeadApproved_NoAddress(r) == {"REQUEST_METHOD", "CONTENT_LENGTH"} \subseteq r.has

HeadApproved(r) == Mandatory \subseteq r.has

(***************************************************************************)
(* The tag after xml_message_analyze.  The assignment on entry throws away *)
(* everything finish_head has put there; every failure leaves through the  *)
(* error label, which returns 0 as well, so the tag is all the caller has. *)
(***************************************************************************)
AnalyzedTag(doc) ==
  CASE doc = "Inform"     -> {"XML_CWMP_NONE", "XML_CWMP_TYPE_INFORM"}
    [] doc = "SetParameterValuesResponse"
                          -> {"XML_CWMP_NONE", "XML_CWMP_TYPE_SET_PARAM_RES"}
    [] doc = "AddObjectResponse"
                          -> {"XML_CWMP_NONE", "XML_CWMP_TYPE_ADD_OBJECT_RES"}
    [] doc = "Other"      -> {"XML_CWMP_TYPE_UNKNOWN"}
    [] doc = "Unreadable" -> {"XML_CWMP_NONE"}

TagAfterAnalysis(r, doc, tag) == IF r.length # 0 THEN AnalyzedTag(doc) ELSE tag

-----------------------------------------------------------------------------
(***************************************************************************)
(* Replies: the status line, the cookie that is set ("" for none) and what *)
(* the entity is.                                                          *)
(***************************************************************************)
Reply(status, cookie, entity) ==
  [status |-> status, cookie |-> cookie, entity |-> entity]

Unauthorized        == Reply(401, "", "nothing")
InternalServerError == Reply(500, "", "nothing")
NoContent           == Reply(204, "", "nothing")
InformResponse      == Reply(200, "level=0", "InformResponse")
InitialProvisioning_SameLevel == Reply(200, "level=0", "InitialProvisioning")
InitialProvisioning == Reply(200, "level=1", "InitialProvisioning")

(***************************************************************************)
(* The rungs before the backend is told: no credentials, not a POST.       *)
(***************************************************************************)
Refused(r) == "HTTP_AUTHORIZATION" \notin r.has \/ r.method # "POST"

Refusal(r) == IF "HTTP_AUTHORIZATION" \notin r.has THEN Unauthorized
                                                    ELSE InternalServerError

(***************************************************************************)
(* The rungs after amqp_notify, whose failure is only logged.              *)
(***************************************************************************)
IsInform(tag) == "XML_CWMP_TYPE_INFORM" \in tag

IsUnprovisioned_NextLevel(r) == /\ "HTTP_COOKIE" \in r.has
                                /\ r.cookie = "level=1"
                                /\ r.credentials \in Factory

IsUnprovisioned(r) == /\ "HTTP_COOKIE" \in r.has
                      /\ r.cookie = "level=0"
                      /\ r.credentials \in Factory

AsksForWork_ResponseOnly(r, tag) == "XML_CWMP_TYPE_SET_PARAM_RES" \in tag

AsksForWork(r, tag) == r.length = 0 \/ "XML_CWMP_TYPE_SET_PARAM_RES" \in tag

NeedsFetch_Early(r, tag) == ~ IsInform(tag) /\ AsksForWork(r, tag)

NeedsFetch(r, tag) ==
  ~ IsInform(tag) /\ ~ IsUnprovisioned(r) /\ AsksForWork(r, tag)

(***************************************************************************)
(* The rungs after amqp_fetch_pending.  "fetched" is <<>> when the queue   *)
(* had nothing, <<m>> when it had m.  json_tokener_parse takes m apart     *)
(* unless it is "garbage", xml_message_create fails if it is "unbuildable".*)
(***************************************************************************)
MessageForm == {"garbage", "unbuildable", "operation"}

FetchReply_NoEmpty(failed, fetched) ==
  IF failed                                  THEN InternalServerError
  ELSE IF fetched = <<>>                     THEN Reply(200, "", "nothing")
  ELSE IF fetched[1].form # "operation"      THEN InternalServerError
  ELSE Reply(200, fetched[1].cookie, fetched[1].id)

FetchReply(failed, fetched) ==
  IF failed                                  THEN InternalServerError
  ELSE IF fetched = <<>>                     THEN NoContent
  ELSE IF fetched[1].form # "operation"      THEN InternalServerError
  ELSE Reply(200, fetched[1].cookie, fetched[1].id)

NotifiedReply(r, tag, failed, fetched) ==
  IF IsInform(tag)              THEN InformResponse
  ELSE IF IsUnprovisioned(r)    THEN InitialProvisioning
  ELSE IF AsksForWork(r, tag)   THEN FetchReply(failed, fetched)
  ELSE NoContent

(***************************************************************************)
(* Everything the ACS ever answers when the backend's messages are Msgs.   *)
(***************************************************************************)
ReplyOver(Msgs) ==
  {Unauthorized, InternalServerError, NoContent, InformResponse,
   InitialProvisioning} \cup {FetchReply(FALSE, <<m>>) : m \in Msgs}
=============================================================================

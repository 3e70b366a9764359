---------------------------- MODULE SendResponse ----------------------------
(***************************************************************************)
(* send_response (src/freeacs-ng.c) from one end to the other, with        *)
(* xml_message_analyze and xml_message_create (src/xml.c) pass by pass and *)
(* the AMQP calls of AmqpClient: what it allocates and releases on the     *)
(* way, what it tells the backend and what it answers.  Any allocation may *)
(* fail, and every step has its own way out; a pointer that a step reads   *)
(* or releases without looking may be NULL or stale, and the process then  *)
(* stops.                                                                  *)
(***************************************************************************)
EXTENDS RequestProcessing, AmqpClient, FiniteSets

CONSTANTS
  Request,      \* requests, as in RequestProcessing, with a DocumentType
  Content       \* per body, what json_tokener_parse makes of it

Version == {"XML_CWMP_VERSION_1_0", "XML_CWMP_VERSION_1_1", "XML_CWMP_VERSION_1_2"}

Type == {"Inform", "SetParameterValuesResponse", "AddObjectResponse"}

\* What is looked for in a document besides its type.
Element == {"ID", "EventCode", "Name", "Status", "InstanceNumber"}

\* Whether libxml2 can read it, what it has below Body, how many of each
\* element, and whether a Name has no element after it.
DocumentType == [readable : BOOLEAN, body : SUBSET (Type \X Version),
                 count : [Element -> Nat], lone : BOOLEAN]

\* A download of an unknown file_type or of none, and set_parameter_values
\* that are no object: what no document is ever made of.
Unfinished == {"unknown file_type", "no file_type", "no parameters"}

\* What a message asks for.
Asked == {"set_parameter_values", "add_object", "download", "nothing",
          "no cwmp", "no json"} \cup Unfinished

ASSUME RequestAssumption ==
  \A r \in Request : /\ r.doc.readable \in BOOLEAN
                     /\ r.doc.body \subseteq Type \X Version
                     /\ r.doc.count \in [Element -> Nat]
                     /\ r.doc.lone \in BOOLEAN
ASSUME ContentAssumption ==
  Content \in [Body -> [asks : Asked, hasId : BOOLEAN, cookie : STRING, id : STRING]]

VARIABLES
  at,           \* where send_response is; "idle" between requests, "aborted"
                \* if a read or a release has stopped the process
  request,      \* the request it works on, or worked on last; <<>> or <<r>>
  tag,          \* connection->tag
  passes,       \* passes over the document still to be made
  told,         \* jso_cwmp: pairs of a key and what its value stands for
  dangling,     \* pointers left to what has been released: c of an
                \* AddObjectResponse
  heap,         \* what the request has allocated and not released
  misused,      \* what was read or released without being allocated
  starved,      \* whether an allocation has failed
  reply         \* the replies added to the output buffer

responseVars == <<at, request, tag, passes, told, dangling, heap, misused,
                  starved, reply>>
allVars == <<vars, responseVars>>

Object == {"json_msg_in", "json_msg_out", "msg.data", "copies", "content",
           "doc", "xpath_ctx", "xpath_obj", "ns_soap_env", "ns_cwmp"}

\* What can be read or released without being there: besides the objects, the
\* element after a Name, two parts of a message, and a text without memory.
Mishandled == Object \cup {"jso_http", "value", "file_type", "parameters", "text"}

Place == {"idle", "aborted", "allocate", "read", "analyze", "headers", "notify",
          "fetch", "parse", "create", "clean"}

Pass == Element \X {""} \cup Type \X Version \cup Asked \X {""}

ResponseTypeOK ==
  /\ at \in Place
  /\ request \in {<<>>} \cup {<<r>> : r \in Request}
  /\ tag \subseteq Tag \cup Version
  /\ passes \in Seq(Pass)
  /\ at \notin {"analyze", "create"} => passes = <<>>
  /\ dangling \subseteq {"content"}
  /\ heap \subseteq Object /\ misused \subseteq Mishandled
  /\ starved \in BOOLEAN
  /\ Len(reply) <= 1
  /\ \A i \in DOMAIN reply : reply[i].status \in {200, 204, 401, 500}

ResponseInit ==
  /\ Init
  /\ at = "idle" /\ request = <<>> /\ tag = {} /\ passes = <<>> /\ told = {}
  /\ dangling = {} /\ heap = {} /\ misused = {} /\ starved = FALSE
  /\ reply = <<>>

Give(r) == reply' = Append(reply, r)

\* Releases objects; releasing one that is not there is misuse.
Free(objects) ==
  /\ heap' = heap \ objects
  /\ misused' = misused \cup (objects \ heap)

\* The process stops where it reads or releases what is not there.
Stops(objects) ==
  /\ misused' = misused \cup objects
  /\ at' = "aborted"
  /\ passes' = <<>>

-----------------------------------------------------------------------------
(***************************************************************************)
(* The way in.  A process that was stopped is started again.               *)
(***************************************************************************)
NewTag == {"REQUEST_RECEIVED", "REQUEST_HEAD_APPROVED"}

Begin(r) ==
  /\ at \in {"idle", "aborted"}
  /\ request' = <<r>>
  /\ passes' = <<>> /\ told' = {} /\ dangling' = {} /\ heap' = {}
  /\ misused' = {} /\ starved' = FALSE
  /\ IF Refused(r)
       THEN /\ at' = "idle"
            /\ tag' = NewTag \cup {"REQUEST_FINISHED"}
            /\ reply' = <<Refusal(r)>>
       ELSE at' = "allocate" /\ tag' = NewTag /\ reply' = <<>>
  /\ UNCHANGED vars

\* json_msg_in and the two objects that it owns.  Whatever has been made of
\* it when one cannot be made is released together.
Allocate ==
  /\ at = "allocate"
  /\ \/ /\ heap' = {"json_msg_in"}
        /\ at' = IF request[1].length = 0 THEN "headers" ELSE "read"
        /\ UNCHANGED <<starved, reply>>
     \/ /\ starved' = TRUE
        /\ heap' \in {{}, {"json_msg_in"}}
        /\ Give(InternalServerError)
        /\ at' = "clean"
  /\ UNCHANGED <<vars, request, tag, passes, told, dangling, misused>>

(***************************************************************************)
(* The label "clean" releases the objects whose pointers are set.  Without *)
(* json_msg_in the other two pointers have never been set, and may be      *)
(* anything.                                                               *)
(***************************************************************************)
Owned_InOnly == {"json_msg_in"}

Owned == {"json_msg_in", "json_msg_out"}

Clean ==
  /\ at = "clean"
  /\ tag' = tag \cup {"REQUEST_FINISHED"}
  /\ \/ Free(heap \cap Owned) /\ at' = "idle"
     \/ /\ "json_msg_in" \notin heap
        /\ misused' = misused \cup {"jso_http"}
        /\ at' = "aborted"
        /\ UNCHANGED heap
  /\ UNCHANGED <<vars, request, passes, told, dangling, starved, reply>>

-----------------------------------------------------------------------------
(***************************************************************************)
(* xml_message_analyze: nine passes for the types, then those that the tag *)
(* calls for.  All of its exits return 0.                                  *)
(***************************************************************************)
TypePasses ==
  << <<"Inform", "XML_CWMP_VERSION_1_0">>,
     <<"Inform", "XML_CWMP_VERSION_1_1">>,
     <<"Inform", "XML_CWMP_VERSION_1_2">>,
     <<"SetParameterValuesResponse", "XML_CWMP_VERSION_1_0">>,
     <<"SetParameterValuesResponse", "XML_CWMP_VERSION_1_1">>,
     <<"SetParameterValuesResponse", "XML_CWMP_VERSION_1_2">>,
     <<"AddObjectResponse", "XML_CWMP_VERSION_1_0">>,
     <<"AddObjectResponse", "XML_CWMP_VERSION_1_1">>,
     <<"AddObjectResponse", "XML_CWMP_VERSION_1_2">> >>

TypeTag_OneResponse(type) ==
  IF type = "Inform" THEN "XML_CWMP_TYPE_INFORM" ELSE "XML_CWMP_TYPE_SET_PARAM_RES"

TypeTag(type) == CASE type = "Inform" -> "XML_CWMP_TYPE_INFORM"
                   [] type = "SetParameterValuesResponse" -> "XML_CWMP_TYPE_SET_PARAM_RES"
                   [] type = "AddObjectResponse" -> "XML_CWMP_TYPE_ADD_OBJECT_RES"

Extractions_InformOnly(t) ==
  << <<"ID", "">> >>
    \o (IF IsInform(t) THEN << <<"EventCode", "">>, <<"Name", "">> >> ELSE <<>>)

\* The second look for an ID, whose result is thrown away, is left out.
Extractions(t) ==
  << <<"ID", "">> >>
    \o (IF IsInform(t) THEN << <<"EventCode", "">>, <<"Name", "">> >> ELSE <<>>)
    \o (IF "XML_CWMP_TYPE_SET_PARAM_RES" \in t THEN << <<"Status", "">> >> ELSE <<>>)
    \o (IF "XML_CWMP_TYPE_ADD_OBJECT_RES" \in t
          THEN << <<"InstanceNumber", "">>, <<"Status", "">> >> ELSE <<>>)

\* What the analysis holds throughout.
Analysis == {"doc", "xpath_ctx"}

Read ==
  /\ at = "read"
  /\ tag' = {"XML_CWMP_NONE"}
  /\ \/ /\ request[1].doc.readable
        /\ heap' = heap \cup Analysis
        /\ passes' = TypePasses
        /\ at' = "analyze"
        /\ UNCHANGED starved
     \/ /\ starved' = (starved \/ request[1].doc.readable)
        /\ at' = "headers"
        /\ UNCHANGED <<heap, passes>>
  /\ UNCHANGED <<vars, request, told, dangling, misused, reply>>

AnalysisFails ==
  /\ at = "analyze" /\ passes # <<>>
  /\ starved' = TRUE
  /\ Free(Analysis)
  /\ passes' = <<>>
  /\ at' = "headers"
  /\ UNCHANGED <<vars, request, tag, told, dangling, reply>>

TypePass ==
  /\ at = "analyze" /\ passes # <<>> /\ Head(passes)[1] \in Type
  /\ LET p == Head(passes)
     IN  /\ tag' = IF p \in request[1].doc.body THEN tag \cup {TypeTag(p[1]), p[2]}
                   ELSE tag
         /\ passes' = IF Len(passes) > 1 THEN Tail(passes) ELSE Extractions(tag')
  /\ UNCHANGED <<vars, at, request, told, dangling, heap, misused, starved, reply>>

Found(e) == request[1].doc.count[e] > 0

\* Of several elements the last one counts, and the content of the others is
\* never released; IDs, events and parameters are released one by one.
Overwritten(e) ==
  IF e \in {"Status", "InstanceNumber"} /\ request[1].doc.count[e] > 1
    THEN {"content"} ELSE {}

\* The ID is looked for in the name space of the version, or where the last
\* type was.
Entries(e) ==
  CASE e = "ID"             -> IF Found(e) /\ tag \cap Version # {} THEN {<<"id", e>>} ELSE {}
    [] e = "EventCode"      -> {<<"events", e>>}
    [] e = "Name"           -> {<<"type", "Inform">>, <<"parameters", e>>}
    [] e = "InstanceNumber" -> {<<"type", "AddObjectResponse">>} \cup
                               IF Found(e) THEN {<<"instance_number", e>>} ELSE {}
    [] e = "Status"         ->
         (IF "XML_CWMP_TYPE_SET_PARAM_RES" \in tag
            THEN {<<"type", "SetParameterValuesResponse">>} ELSE {}) \cup
         (IF Found(e) THEN {<<"status", e>>} ELSE {})

\* A Name with no element after it has no value.
ValueMissing == Found("Name") /\ request[1].doc.lone

ExtractionPass ==
  /\ at = "analyze" /\ passes # <<>> /\ Head(passes)[1] \in Element
  /\ LET e == Head(passes)[1]
     IN  /\ ~(e = "Name" /\ ValueMissing)
         /\ ~(e = "Status" /\ ~Found(e) /\ "content" \in dangling)
         /\ told' = told \cup Entries(e)
         /\ dangling' = IF e = "InstanceNumber" /\ Found(e) THEN {"content"} ELSE dangling
         /\ heap' = heap \cup Overwritten(e)
  /\ passes' = Tail(passes)
  /\ UNCHANGED <<vars, at, request, tag, misused, starved, reply>>

\* The value of such a Name is read all the same.
NullValue ==
  /\ at = "analyze" /\ passes # <<>> /\ Head(passes)[1] = "Name"
  /\ ValueMissing
  /\ Stops({"value"})
  /\ UNCHANGED <<vars, request, tag, told, dangling, heap, starved, reply>>

\* There is no memory for the content of an element: that of an ID, an
\* EventCode or a Name is read all the same, while a Status or an
\* InstanceNumber counts as not found.
ContentFails ==
  /\ at = "analyze" /\ passes # <<>> /\ Head(passes)[1] \in Element
  /\ starved' = TRUE
  /\ LET e == Head(passes)[1]
     IN  /\ Found(e) /\ (e = "ID" => tag \cap Version # {})
         /\ \/ /\ e \in {"ID", "EventCode", "Name"}
               /\ Stops({"text"})
               /\ UNCHANGED <<told, dangling, heap>>
            \/ /\ e \in {"Status", "InstanceNumber"}
               /\ told' = told \cup {entry \in Entries(e) : entry[2] # e}
               /\ dangling' = {}
               /\ heap' = heap \cup Overwritten(e)
               /\ passes' = Tail(passes)
               /\ UNCHANGED <<at, misused>>
  /\ UNCHANGED <<vars, request, tag, reply>>

\* An AddObjectResponse with an InstanceNumber and without a Status: the
\* content of the first is read and released again.
StaleStatus ==
  /\ at = "analyze" /\ passes # <<>> /\ Head(passes)[1] = "Status"
  /\ ~Found("Status") /\ "content" \in dangling
  /\ misused' = misused \cup dangling
  /\ told' = told \cup {<<"status", "InstanceNumber">>}
  /\ passes' = Tail(passes)
  /\ at' \in {"analyze", "aborted"}
  /\ UNCHANGED <<vars, request, tag, dangling, heap, starved, reply>>

EndOfAnalysis ==
  /\ at = "analyze" /\ passes = <<>>
  /\ Free(Analysis)
  /\ tag' = IF tag = {"XML_CWMP_NONE"} THEN {"XML_CWMP_TYPE_UNKNOWN"} ELSE tag
  /\ at' = "headers"
  /\ UNCHANGED <<vars, request, passes, told, dangling, starved, reply>>

-----------------------------------------------------------------------------
(***************************************************************************)
(* The backend is notified, and the request answered or work fetched.      *)
(***************************************************************************)
NotifyBackend ==
  /\ at = "headers"
  /\ Call("amqp_notify")
  /\ at' = "notify"
  /\ UNCHANGED <<request, tag, passes, told, dangling, heap, misused, starved, reply>>

\* There is no memory to write the notification out; its length is read all
\* the same.
NotificationFails ==
  /\ at = "headers"
  /\ starved' = TRUE
  /\ Stops({"text"})
  /\ UNCHANGED <<vars, request, tag, told, dangling, heap, reply>>

AmqpStep ==
  /\ SetupStep \/ Publish \/ GetReply \/ ContentHeader \/ BodyFrame \/ Close
  /\ UNCHANGED responseVars

Notified ==
  /\ at = "notify" /\ pc = "idle"
  /\ \/ /\ IsInform(tag)
        /\ Give(InformResponse)
        /\ at' = "clean" /\ UNCHANGED vars
     \/ /\ ~IsInform(tag) /\ IsUnprovisioned(request[1])
        /\ Give(InitialProvisioning)
        /\ at' = "clean" /\ UNCHANGED vars
     \/ /\ NeedsFetch(request[1], tag)
        /\ Call("amqp_fetch_pending")
        /\ at' = "fetch" /\ UNCHANGED reply
     \/ /\ ~IsInform(tag) /\ ~IsUnprovisioned(request[1]) /\ ~AsksForWork(request[1], tag)
        /\ Give(NoContent)
        /\ at' = "clean" /\ UNCHANGED vars
  /\ UNCHANGED <<request, tag, passes, told, dangling, heap, misused, starved>>

\* What the call has left behind.
FromCall == (IF data # <<>> THEN {"msg.data"} ELSE {})
            \cup (IF copies > 0 THEN {"copies"} ELSE {})

\* The message is looked at although the fetch has failed.
FetchError_NoGoto ==
  IF data = <<>> THEN reply' = reply \o <<InternalServerError, NoContent>> /\ at' = "clean"
  ELSE Give(InternalServerError) /\ at' = "parse"

FetchError == Give(InternalServerError) /\ at' = "clean"

Fetched ==
  /\ at = "fetch" /\ pc = "idle"
  /\ heap' = heap \cup FromCall
  /\ starved' = (starved \/ short)
  /\ \/ rc # 0 /\ FetchError
     \/ rc = 0 /\ data = <<>> /\ Give(NoContent) /\ at' = "clean"
     \/ rc = 0 /\ data # <<>> /\ at' = "parse" /\ UNCHANGED reply
  /\ UNCHANGED <<vars, request, tag, passes, told, dangling, misused>>

-----------------------------------------------------------------------------
(***************************************************************************)
(* The message fetched, and the document that xml_message_create makes of  *)
(* it.                                                                     *)
(***************************************************************************)
Readable == data[1] \in Body /\ Content[data[1]].asks # "no json"

Parse ==
  /\ at = "parse"
  /\ \/ /\ Readable
        /\ heap' = (heap \ {"msg.data"}) \cup {"json_msg_out"}
        /\ at' = "create"
        /\ UNCHANGED <<starved, reply>>
     \/ /\ starved' = (starved \/ Readable)
        /\ heap' = heap \ {"msg.data"}
        /\ Give(InternalServerError)
        /\ at' = "clean"
  /\ UNCHANGED <<vars, request, tag, passes, told, dangling, misused>>

\* The document, and what is needed to work on it.
Template == {"doc", "xpath_ctx", "ns_soap_env", "ns_cwmp"}

CreatePasses(content) ==
  (IF content.hasId THEN << <<"ID", "">> >> ELSE <<>>)
    \o (IF content.asks = "nothing" THEN <<>> ELSE << <<content.asks, "">> >>)

CreateFails == Give(InternalServerError) /\ at' = "clean" /\ passes' = <<>>

StartCreate ==
  /\ at = "create" /\ "doc" \notin heap
  /\ LET content == Content[data[1]]
     IN  \/ /\ content.asks # "no cwmp"
            /\ heap' = heap \cup Template
            /\ passes' = CreatePasses(content)
            /\ UNCHANGED <<at, starved, reply>>
         \/ /\ starved' = (starved \/ content.asks # "no cwmp")
            /\ CreateFails
            /\ UNCHANGED heap
  /\ UNCHANGED <<vars, request, tag, told, dangling, misused>>

\* The error label: an unknown file type, or an allocation that fails.  After
\* the loop of a set_parameter_values, xpath_obj has been released before.
CreateError ==
  /\ at = "create" /\ "doc" \in heap /\ passes # <<>>
  /\ starved' = (starved \/ Head(passes)[1] # "unknown file_type")
  /\ \/ CreateFails /\ Free(Template)
     \/ /\ Head(passes)[1] = "set_parameter_values"
        /\ Free(Template \cup {"xpath_obj"})
        /\ CreateFails \/ (at' = "aborted" /\ passes' = <<>> /\ UNCHANGED reply)
  /\ UNCHANGED <<vars, request, tag, told, dangling>>

CreatePass ==
  /\ at = "create" /\ "doc" \in heap
  /\ passes # <<>> /\ Head(passes)[1] \notin Unfinished
  /\ passes' = Tail(passes)
  /\ UNCHANGED <<vars, at, request, tag, told, dangling, heap, misused, starved, reply>>

\* The file_type that is not there is compared, and the parameters that are no
\* object are gone through.
NullCreate ==
  /\ at = "create" /\ "doc" \in heap /\ passes # <<>>
  /\ \/ Head(passes)[1] = "no file_type" /\ Stops({"file_type"})
     \/ Head(passes)[1] = "no parameters" /\ Stops({"parameters"})
  /\ UNCHANGED <<vars, request, tag, told, dangling, heap, starved, reply>>

OperationReply(content) ==
  FetchReply(FALSE, <<[form |-> "operation", cookie |-> content.cookie, id |-> content.id]>>)

\* The label "done".
Done_LikeError == Template \cup {"xpath_obj"}

Done == Template

\* The document is written out, copied into the reply and released.  If there
\* is no memory for it, the reply is copied from nowhere.
Reply200 ==
  /\ at = "create" /\ "doc" \in heap /\ passes = <<>>
  /\ Give(OperationReply(Content[data[1]]))
  /\ \/ Free(Done) /\ at' = "clean" /\ UNCHANGED starved
     \/ Free(Done \cup {"msg.data"}) /\ at' = "aborted" /\ starved' = TRUE
  /\ UNCHANGED <<vars, request, tag, passes, told, dangling>>

-----------------------------------------------------------------------------
ResponseNext ==
  \/ \E r \in Request : Begin(r)
  \/ Allocate \/ Read \/ AnalysisFails \/ TypePass \/ ExtractionPass \/ NullValue
  \/ ContentFails \/ StaleStatus \/ EndOfAnalysis
  \/ NotifyBackend \/ NotificationFails \/ AmqpStep \/ Notified \/ Fetched
  \/ Parse \/ StartCreate \/ CreateError \/ CreatePass \/ NullCreate \/ Reply200 \/ Clean
  \/ \E b \in Body : Enqueue(b) /\ UNCHANGED responseVars

ResponseSpec == ResponseInit /\ [][ResponseNext]_allVars

-----------------------------------------------------------------------------
(***************************************************************************)
(* Properties.                                                             *)
(***************************************************************************)
Answered == at = "idle" /\ request # <<>>

\* Whichever way a request goes, all that is left of it is what a fetch that
\* fails under way, a message in fragments and an element that is repeated
\* leave: the labels and early exits of the five functions together release
\* the rest.
NothingElseLeft ==
  Answered => /\ heap \subseteq {"msg.data", "copies", "content"}
              /\ "msg.data" \in heap => rc # 0

\* A device's AddObjectResponse with an InstanceNumber and without a Status.
StatusMissing ==
  ~Found("Status") /\ Found("InstanceNumber")

\* The message fetched asks for it.
AsksFor(what) == data # <<>> /\ data[1] \in Body /\ Content[data[1]].asks = what

\* What the code reads or releases without making sure that it is there, by
\* what the device, the backend or the memory leaves out.
Unguarded ==
  (IF request # <<>> /\ StatusMissing THEN {"content"} ELSE {})
    \cup (IF request # <<>> /\ ValueMissing THEN {"value"} ELSE {})
    \cup (IF AsksFor("no file_type") THEN {"file_type"} ELSE {})
    \cup (IF AsksFor("no parameters") THEN {"parameters"} ELSE {})
    \cup (IF starved THEN {"jso_http", "xpath_obj", "msg.data", "text"} ELSE {})

\* Over all passes, labels and exits, nothing else is read or released that is
\* not there, and nothing else stops the process: with memory at hand and all
\* that a document and a message are to have, it outlives every request.
HandlesItsOwn ==
  /\ misused \subseteq Unguarded
  /\ at = "aborted" => misused # {}

\* The backend is told all that it is to know of a document, whatever version
\* of CWMP it is in: its type, its ID and what it says.
KindOf(doc) ==
  IF ~doc.readable THEN "Unreadable"
  ELSE IF doc.body = {} THEN "Other"
  ELSE CHOOSE t \in Type : \E v \in Version : <<t, v>> \in doc.body

Sought(kind) ==
  CASE kind = "Inform" -> {}
    [] kind = "SetParameterValuesResponse" -> {"Status"}
    [] kind = "AddObjectResponse" -> {"Status", "InstanceNumber"}

Known(doc) ==
  IF KindOf(doc) \notin Type THEN {}
  ELSE {"type"} \cup {e \in Sought(KindOf(doc)) \cup {"ID"} : doc.count[e] > 0}
       \cup (IF KindOf(doc) = "Inform" THEN {"EventCode", "Name"} ELSE {})

Source(entry) == IF entry[1] = "type" THEN "type" ELSE entry[2]

Notifying == at = "notify" /\ request[1].length # 0 /\ ~starved

TellsTheDocument ==
  Notifying /\ ~StatusMissing =>
    /\ {Source(entry) : entry \in told} = Known(request[1].doc)
    /\ \A entry \in told : entry[1] = "type" => entry[2] = KindOf(request[1].doc)

\* A status that the backend is told of is what the device said in Status:
\* "if (c)" is there for a response that has none.
StatusIsTheDevices ==
  \A entry \in told : entry[1] = "status" => entry[2] = "Status"

\* Step by step, send_response comes to the one reply that RequestProcessing
\* states as a function of the request, the document and the fetch.
Result ==
  IF data = <<>> THEN <<>>
  ELSE LET content == Content[data[1]]
       IN  <<[form |-> CASE content.asks = "no json" -> "garbage"
                         [] content.asks \in {"no cwmp"} \cup Unfinished -> "unbuildable"
                         [] OTHER -> "operation",
              cookie |-> content.cookie, id |-> content.id]>>

AnswersAsStated ==
  Answered /\ ~starved =>
    LET r == request[1]
        t == TagAfterAnalysis(r, KindOf(r.doc), NewTag)
    IN  reply = << IF Refused(r) THEN Refusal(r) ELSE NotifiedReply(r, t, rc # 0, Result) >>
=============================================================================

----------------------------- MODULE AcsSession ----------------------------
(***************************************************************************)
(* CWMP sessions: devices, the ACS and the provisioning queues in the      *)
(* broker.                                                                 *)
(*                                                                         *)
(* A device sends one request at a time.  The ACS takes one request at a   *)
(* time and walks it through send_response (src/freeacs-ng.c); its calls   *)
(* to amqp_notify and amqp_fetch_pending (src/amqp.c) are steps of their   *)
(* own here, so that backends, devices and the broker move in between.     *)
(* While the ACS works on a request the device may stop waiting for it: a  *)
(* request that is no longer live is still worked on, because the loop     *)
(* learns of the closed connection only after the AMQP calls.              *)
(*                                                                         *)
(* Devices and broker are not part of the repository; they do what the     *)
(* code in src/ counts on.                                                 *)
(***************************************************************************)
EXTENDS RequestProcessing, FiniteSets

CONSTANTS
  Dev,          \* devices
  Message,      \* operations the backend may queue, with a field "op"
  Setting,      \* the settings to consider, by name
  Faulty        \* whether calls fail, devices give up, the ACS crashes
                \* and queues expire

(***************************************************************************)
(* What xml_message_create makes of an operation.  A message that names    *)
(* none of the three becomes an envelope with nothing in it ("None").      *)
(***************************************************************************)
Operation == {"SetParameterValues", "AddObject", "Download", "None"}

MessageType == [id : STRING, form : MessageForm, cookie : STRING,
                op : Operation]

ASSUME MessageAssumption ==
         /\ Message \subseteq MessageType
         /\ \A m, n \in Message : m.id = n.id => m = n
         /\ \A m \in Message : m.id \notin {"nothing", "InformResponse",
                                            "InitialProvisioning"}
ASSUME FaultyAssumption == Faulty \in BOOLEAN

(***************************************************************************)
(* A setting: the devices that are there and the credentials they start    *)
(* with, the operations the backend has for them, and the queue that       *)
(* amqp_fetch_pending reads for a device, its address ("@remote_addr"), or *)
(* one queue for all.                                                      *)
(***************************************************************************)
ASSUME SettingAssumption ==
         \A n \in DOMAIN Setting : LET s == Setting[n] IN
           /\ s.message \subseteq Message /\ DOMAIN s.initial \subseteq Dev
           /\ DOMAIN s.queueOf = Dev

Own == "own"            \* the credentials that initial provisioning sets

ASSUME FactoryAssumption == Own \notin Factory

(***************************************************************************)
(* The cookies and the credentials that go round.                          *)
(***************************************************************************)
Cookie == {"", "level=0", "level=1"} \cup {m.cookie : m \in Message}

Credential ==
  {Own} \cup UNION {{Setting[n].initial[d] : d \in DOMAIN Setting[n].initial} :
                   n \in DOMAIN Setting}

NoRequest == [live |-> FALSE]      \* while stage = "idle"

VARIABLES
  setting,      \* the name of the setting that holds throughout
  next,         \* per device, the document it sends next; "idle" between
                \* sessions
  cookie,       \* per device, the cookie of the session
  credentials,  \* per device, what it has stored to authenticate with
  login,        \* per device, what it authenticates with in this session
  waiting,      \* devices with a request outstanding
  inbox,        \* requests the ACS has not started on
  stage,        \* where send_response is: "idle", "notify", "fetch",
                \* "transfer" or "reply"
  current,      \* the request it works on
  fetched,      \* what amqp_fetch_pending got, <<>> or <<message>>
  failed,       \* whether amqp_fetch_pending failed
  wire,         \* per device, the reply on its way to it
  told,         \* devices whose Inform the backend has been notified of
  queue,        \* the provisioning queues
  published,    \* messages the backend has queued, and for which device
  executed      \* per device, the operations it has carried out

deviceVars == <<next, cookie, credentials, login, waiting>>
serverVars == <<stage, current, fetched, failed>>
sessionVars == <<deviceVars, inbox, serverVars, wire, told, queue, published,
                 executed>>
vars == <<setting, sessionVars>>

Step == {"idle", "Inform", "Empty", "SetParameterValuesResponse",
         "AddObjectResponse", "Other"}

RequestType == [dev : Dev, doc : Step \ {"idle"}, cookie : Cookie,
                credentials : Credential, live : BOOLEAN]

QueueOf == Setting[setting].queueOf

Present == DOMAIN Setting[setting].initial

Queues == {QueueOf[d] : d \in Dev}

OwnQueues == {n \in DOMAIN Setting : \A d, e \in Dev :
                Setting[n].queueOf[d] = Setting[n].queueOf[e] => d = e}

Unshared == setting \in OwnQueues

TypeOK ==
  /\ setting \in DOMAIN Setting
  /\ next \in [Dev -> Step]
  /\ cookie \in [Dev -> Cookie]
  /\ credentials \in [Dev -> Credential]
  /\ login \in [Dev -> Credential]
  /\ waiting \in SUBSET Dev
  /\ inbox \in SUBSET RequestType
  /\ stage \in {"idle", "notify", "fetch", "transfer", "reply"}
  /\ stage # "idle" => current \in RequestType
  /\ fetched \in {<<>>} \cup {<<m>> : m \in Message}
  /\ failed \in BOOLEAN
  /\ wire \in [Dev -> {<<>>} \cup {<<r>> : r \in ReplyOver(Message)}]
  /\ told \in SUBSET Dev
  /\ queue \in [Queues -> Seq(Message)]
  /\ published \in SUBSET (Dev \X Message)
  /\ executed \in [Dev -> Seq(Message)]

Init ==
  /\ setting \in DOMAIN Setting
  /\ next = [d \in Dev |-> "idle"]
  /\ cookie = [d \in Dev |-> ""]
  /\ credentials = [d \in Dev |-> IF d \in Present THEN Setting[setting].initial[d]
                                  ELSE Own]
  /\ login = credentials
  /\ waiting = {}
  /\ inbox = {}
  /\ stage = "idle"
  /\ current = NoRequest
  /\ fetched = <<>>
  /\ failed = FALSE
  /\ wire = [d \in Dev |-> <<>>]
  /\ told = {}
  /\ queue = [q \in Queues |-> <<>>]
  /\ published = {}
  /\ executed = [d \in Dev |-> <<>>]

-----------------------------------------------------------------------------
(***************************************************************************)
(* Devices.                                                                *)
(***************************************************************************)
Begin(d) ==
  /\ d \in Present
  /\ next[d] = "idle"
  /\ next' = [next EXCEPT ![d] = "Inform"]
  /\ cookie' = [cookie EXCEPT ![d] = ""]
  /\ login' = [login EXCEPT ![d] = credentials[d]]
  /\ UNCHANGED <<credentials, waiting, inbox, serverVars, wire, told, queue,
                 published, executed>>

Send(d) ==
  /\ d \notin waiting
  /\ next[d] # "idle"
  /\ waiting' = waiting \cup {d}
  /\ inbox' = inbox \cup {[dev |-> d, doc |-> next[d], cookie |-> cookie[d],
                           credentials |-> login[d], live |-> TRUE]}
  /\ UNCHANGED <<next, cookie, credentials, login, serverVars, wire, told, queue,
                 published, executed>>

ResponseTo(op) ==
  CASE op = "SetParameterValues" -> "SetParameterValuesResponse"
    [] op = "AddObject"          -> "AddObjectResponse"
    [] op = "Download"           -> "Other"

MessageIn(reply) == {m \in Message : m.id = reply.entity}

AsksNothing(reply) == \/ reply.status # 200
                      \/ \E m \in MessageIn(reply) : m.op = "None"

(***************************************************************************)
(* What a device makes of a reply: it carries out what it is asked to and  *)
(* reports on it, and ends the session if it is asked nothing.             *)
(* Credentials that it is given it uses at once or from the next session.  *)
(***************************************************************************)
Receive(d) ==
  /\ wire[d] # <<>>
  /\ wire' = [wire EXCEPT ![d] = <<>>]
  /\ waiting' = waiting \ {d}
  /\ LET r == wire[d][1] IN
       /\ cookie' = [cookie EXCEPT ![d] = IF r.cookie = "" THEN @ ELSE r.cookie]
       /\ \/ /\ AsksNothing(r)
             /\ next' = [next EXCEPT ![d] = "idle"]
             /\ UNCHANGED <<credentials, login, executed>>
          \/ /\ r.entity = "InformResponse"
             /\ next' = [next EXCEPT ![d] = "Empty"]
             /\ UNCHANGED <<credentials, login, executed>>
          \/ /\ r.entity = "InitialProvisioning"
             /\ next' = [next EXCEPT ![d] = "SetParameterValuesResponse"]
             /\ credentials' = [credentials EXCEPT ![d] = Own]
             /\ \E c \in {login[d], Own} : login' = [login EXCEPT ![d] = c]
             /\ UNCHANGED executed
          \/ \E m \in MessageIn(r) :
               /\ ~ AsksNothing(r)
               /\ next' = [next EXCEPT ![d] = ResponseTo(m.op)]
               /\ executed' = [executed EXCEPT ![d] = Append(@, m)]
               /\ UNCHANGED <<credentials, login>>
  /\ UNCHANGED <<inbox, serverVars, told, queue, published>>

(***************************************************************************)
(* A device stops waiting and ends the session.  MaxDead is one: at most   *)
(* one abandoned request of a device is left in the ACS at a time.         *)
(***************************************************************************)
Abandoned(d) == \/ \E rq \in inbox : rq.dev = d /\ ~ rq.live
                \/ stage # "idle" /\ current.dev = d /\ ~ current.live

Disown(d, rq) == IF rq.dev = d THEN [rq EXCEPT !.live = FALSE] ELSE rq

GiveUp(d) ==
  /\ Faulty
  /\ d \in waiting
  /\ ~ Abandoned(d)
  /\ waiting' = waiting \ {d}
  /\ next' = [next EXCEPT ![d] = "idle"]
  /\ wire' = [wire EXCEPT ![d] = <<>>]
  /\ inbox' = {Disown(d, rq) : rq \in inbox}
  /\ current' = IF stage = "idle" THEN current ELSE Disown(d, current)
  /\ UNCHANGED <<cookie, credentials, login, stage, fetched, failed, told, queue,
                 published, executed>>

-----------------------------------------------------------------------------
(***************************************************************************)
(* The ACS: send_response, one AMQP call at a time.                        *)
(***************************************************************************)
View(rq) ==
  [has         |-> IF rq.cookie = "" THEN Header \ {"HTTP_COOKIE"} ELSE Header,
   method      |-> "POST",
   credentials |-> rq.credentials,
   cookie      |-> rq.cookie,
   length      |-> IF rq.doc = "Empty" THEN 0 ELSE 1]

TagOf(rq) == TagAfterAnalysis(View(rq), rq.doc,
                              {"REQUEST_RECEIVED", "REQUEST_HEAD_APPROVED"})

Take(d) ==
  /\ stage = "idle"
  /\ \E rq \in inbox : /\ rq.dev = d
                       /\ inbox' = inbox \ {rq}
                       /\ current' = rq
  /\ stage' = "notify"
  /\ UNCHANGED <<deviceVars, fetched, failed, wire, told, queue, published,
                 executed>>

(***************************************************************************)
(* The event loop sees the end of an abandoned connection before it reads  *)
(* the request.                                                            *)
(***************************************************************************)
Drop(rq) ==
  /\ stage = "idle"
  /\ ~ rq.live
  /\ inbox' = inbox \ {rq}
  /\ UNCHANGED <<deviceVars, serverVars, wire, told, queue, published,
                 executed>>

(***************************************************************************)
(* amqp_notify; a failure is logged and the request goes on.               *)
(***************************************************************************)
Notify ==
  /\ stage = "notify"
  /\ \/ told' = IF IsInform(TagOf(current)) THEN told \cup {current.dev}
                                           ELSE told
     \/ Faulty /\ UNCHANGED told
  /\ stage' = IF NeedsFetch(View(current), TagOf(current)) THEN "fetch"
                                                          ELSE "reply"
  /\ UNCHANGED <<deviceVars, inbox, current, fetched, failed, wire, queue,
                 published, executed>>

(***************************************************************************)
(* amqp_fetch_pending up to the answer to basic.get: no connection, an     *)
(* empty or missing queue, or a message, which the broker forgets (no_ack).*)
(* Any exception of the broker is taken for a missing queue.               *)
(***************************************************************************)
QueueRead_Fixed(d) == QueueOf[CHOOSE e \in Dev : TRUE]

QueueRead(d) == QueueOf[d]

AfterGet_Requeued(messages) == messages

AfterGet_Newest(messages) == SubSeq(messages, 1, Len(messages) - 1)

AfterGet(messages) == Tail(messages)

FetchFails ==
  /\ stage = "fetch"
  /\ Faulty
  /\ failed' = TRUE
  /\ stage' = "reply"
  /\ UNCHANGED <<deviceVars, inbox, current, fetched, wire, told, queue,
                 published, executed>>

FetchEmpty ==
  /\ stage = "fetch"
  /\ Faulty \/ queue[QueueRead(current.dev)] = <<>>
  /\ stage' = "reply"
  /\ UNCHANGED <<deviceVars, inbox, current, fetched, failed, wire, told,
                 queue, published, executed>>

FetchGets ==
  /\ stage = "fetch"
  /\ LET q == QueueRead(current.dev) IN
       /\ queue[q] # <<>>
       /\ fetched' = <<Head(queue[q])>>
       /\ queue' = [queue EXCEPT ![q] = AfterGet(@)]
  /\ stage' = "transfer"
  /\ UNCHANGED <<deviceVars, inbox, current, failed, wire, told, published,
                 executed>>

(***************************************************************************)
(* The frames of the message arrive, or the connection fails under them.   *)
(***************************************************************************)
Transfer ==
  /\ stage = "transfer"
  /\ \/ UNCHANGED <<fetched, failed>>
     \/ Faulty /\ failed' = TRUE /\ fetched' = <<>>
  /\ stage' = "reply"
  /\ UNCHANGED <<deviceVars, inbox, current, wire, told, queue, published,
                 executed>>

(***************************************************************************)
(* The reply goes to whoever still waits for it.                           *)
(***************************************************************************)
Answer ==
  /\ stage = "reply"
  /\ wire' = IF current.live
               THEN [wire EXCEPT ![current.dev] =
                       <<NotifiedReply(View(current), TagOf(current),
                                       failed, fetched)>>]
               ELSE wire
  /\ stage' = "idle"
  /\ current' = NoRequest
  /\ fetched' = <<>>
  /\ failed' = FALSE
  /\ UNCHANGED <<deviceVars, inbox, told, queue, published, executed>>

(***************************************************************************)
(* The process dies and is started again.  Nothing is stored: requests in  *)
(* it and a message it has taken from the broker are gone; their devices   *)
(* see the connection break.                                               *)
(***************************************************************************)
Pending(d) == \/ \E rq \in inbox : rq.dev = d /\ rq.live
              \/ stage # "idle" /\ current.dev = d /\ current.live

Crash ==
  /\ Faulty
  /\ LET cut == {d \in Dev : Pending(d)} IN
       /\ waiting' = waiting \ cut
       /\ next' = [d \in Dev |-> IF d \in cut THEN "idle" ELSE next[d]]
  /\ inbox' = {}
  /\ stage' = "idle"
  /\ current' = NoRequest
  /\ fetched' = <<>>
  /\ failed' = FALSE
  /\ UNCHANGED <<cookie, credentials, login, wire, told, queue, published,
                 executed>>

-----------------------------------------------------------------------------
(***************************************************************************)
(* The backend, which knows the devices it was told of, and the broker.    *)
(* Every message is queued once: they carry ids of their own.              *)
(***************************************************************************)
Publish(d, m) ==
  /\ d \in told
  /\ m \in Setting[setting].message
  /\ \A e \in Dev : <<e, m>> \notin published
  /\ published' = published \cup {<<d, m>>}
  /\ queue' = [queue EXCEPT ![QueueOf[d]] = Append(@, m)]
  /\ UNCHANGED <<deviceVars, inbox, serverVars, wire, told, executed>>

Expire(q) ==
  /\ Faulty
  /\ queue[q] # <<>>
  /\ queue' = [queue EXCEPT ![q] = <<>>]
  /\ UNCHANGED <<deviceVars, inbox, serverVars, wire, told, published,
                 executed>>

ServerStep == Notify \/ FetchFails \/ FetchEmpty \/ FetchGets \/ Transfer
              \/ Answer

Next ==
  /\ \/ \E d \in Dev : \/ Begin(d) \/ Send(d) \/ Receive(d) \/ GiveUp(d)
                       \/ Take(d)
                       \/ \E m \in Message : Publish(d, m)
     \/ \E rq \in inbox : Drop(rq)
     \/ \E q \in Queues : Expire(q)
     \/ ServerStep
     \/ Crash
  /\ UNCHANGED setting

Spec == Init /\ [][Next]_vars

(***************************************************************************)
(* Devices inform periodically and go on with a session they have begun;   *)
(* the loop does not pass over a request for ever; AMQP calls return.      *)
(***************************************************************************)
Fairness ==
  /\ \A d \in Dev :
       /\ WF_sessionVars(Begin(d)) /\ WF_sessionVars(Send(d))
       /\ WF_sessionVars(Receive(d)) /\ SF_sessionVars(Take(d))
  /\ WF_sessionVars(ServerStep)

FairSpec == Spec /\ Fairness

-----------------------------------------------------------------------------
(***************************************************************************)
(* Where message m is: every position it has in a queue, in the ACS, on    *)
(* the wire and among the operations carried out.                          *)
(***************************************************************************)
Held(m)     == {<<"acs", x>> : x \in {y \in DOMAIN fetched : fetched[y] = m}}
Queued(m)   == UNION {{<<"queue", q, i>> :
                         i \in {j \in DOMAIN queue[q] : queue[q][j] = m}} :
                       q \in Queues}
OnWire(m)   == {<<"wire", d>> : d \in {e \in Dev : wire[e] # <<>>
                                                  /\ wire[e][1].entity = m.id}}
Executed(m) == UNION {{<<"device", d, i>> :
                         i \in {j \in DOMAIN executed[d] : executed[d][j] = m}} :
                       d \in Dev}

Places(m) == Held(m) \cup Queued(m) \cup OnWire(m) \cup Executed(m)

(***************************************************************************)
(* A message is in one place at most: no operation is carried out twice or *)
(* by two devices, whatever is retried, abandoned, crashed or expired, and *)
(* also when the queue is shared.                                          *)
(***************************************************************************)
OnePlace == \A m \in Message : Cardinality(Places(m)) <= 1

(***************************************************************************)
(* With a queue per device, a device is only ever sent, and carries out,   *)
(* operations that the backend queued for it.                              *)
(***************************************************************************)
RightDevice ==
  Unshared => \A m \in Message, d \in Dev :
    \/ <<"wire", d>> \in OnWire(m)
    \/ \E i \in DOMAIN executed[d] : executed[d][i] = m
    => <<d, m>> \in published

(***************************************************************************)
(* A device that still has its factory credentials carries out nothing but *)
(* the initial provisioning: send_response puts that before any operation  *)
(* in every session, abandoned and repeated ones included.                 *)
(***************************************************************************)
UnprovisionedFirst ==
  \A d \in Dev : credentials[d] \in Factory => executed[d] = <<>>

(***************************************************************************)
(* When no call fails and nobody gives up, a message that was queued stays *)
(* somewhere until it has been carried out: send_response takes a message  *)
(* from the broker only for a request it then answers with that message.   *)
(***************************************************************************)
NothingVanishes ==
  ~ Faulty => \A dm \in published : Places(dm[2]) # {}

(***************************************************************************)
(* When no call fails and nobody gives up, every operation reaches its     *)
(* device: those a session leaves behind, because it ended on an           *)
(* AddObjectResponse or before the backend had queued them, a later one    *)
(* collects.                                                               *)
(***************************************************************************)
Delivered ==
  \A d \in Dev, m \in Message :
    <<d, m>> \in published
      ~> \E i \in DOMAIN executed[d] : executed[d][i] = m

(***************************************************************************)
(* A device that waits gets a reply or stops waiting, and a session ends:  *)
(* the cookie takes it past initial provisioning, and the queue runs dry.  *)
(***************************************************************************)
SessionsEnd == \A d \in Dev : next[d] # "idle" ~> next[d] = "idle"

(***************************************************************************)
(* With a queue per device AcsSession implements OperationQueue.  A        *)
(* message that the ACS or the wire holds for a waiting device is still    *)
(* pending; one that it holds for nobody, or cannot turn into a request to *)
(* the device, is lost the moment it is taken.                             *)
(***************************************************************************)
InHand(d) ==
  IF wire[d] # <<>>
    THEN LET ms == MessageIn(wire[d][1])
         IN  IF ms = {} THEN <<>> ELSE <<CHOOSE m \in ms : TRUE>>
  ELSE IF /\ stage \in {"transfer", "reply"} /\ fetched # <<>>
          /\ current.dev = d /\ current.live
          /\ fetched[1].form = "operation"
    THEN fetched
  ELSE <<>>

PendingOperations ==
  [d \in Dev |-> IF Unshared THEN InHand(d) \o queue[QueueOf[d]] ELSE <<>>]

ExecutedOperations ==
  IF Unshared THEN executed ELSE [d \in Dev |-> <<>>]

Promise == INSTANCE OperationQueue
             WITH pending <- PendingOperations, executed <- ExecutedOperations

KeepsPromise == Promise!Spec
=============================================================================

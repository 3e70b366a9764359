---------------------------- MODULE Provisioning ----------------------------
(***************************************************************************)
(* A pika backend: Provisioning (backend/pika/provisioning.py) with the    *)
(* action of TimeProvisioning (example_1_provisioning_periodic_inform.py). *)
(*                                                                         *)
(* Everything happens in callbacks of one thread over one channel.  To     *)
(* publish, the backend declares the exchange, declares the queue, binds   *)
(* it, and publishes, each in the callback of the one before: a chain.     *)
(* pika lets one call at a time be outstanding and holds back the rest, so *)
(* that chains take turns, and notifications arrive in between.  The       *)
(* messages of all chains are the two templates; a callback reads them     *)
(* when it runs.                                                           *)
(***************************************************************************)
EXTENDS Naturals, Sequences, FiniteSets

CONSTANTS
  Inform,       \* the notifications of the ACS, records
  Device,       \* stand for the routing keys, "<OUI>.<serial number>"
  Address,      \* remote addresses, the names of the devices' queues
  MaxBreaks,    \* bound: how often the network breaks the connection
  Arrivals      \* which informs come in, and whether each waits until the
                \* backend is at rest

Self == "time_provisioning_1"     \* the backend's queue, and its mark

Mark == {Self, "mongodb_relay"}

\* "factory": with the credentials freecwmp; "owned": with others; "unfit":
\* not an inform, or with an address or serial number that does not match.
Message == [id : Nat, device : Device, address : Address,
            form : {"factory", "owned", "unfit"}, archive : SUBSET Mark]

ASSUME InformAssumption == Inform \subseteq Message
ASSUME AddressAssumption == Self \notin Address
\* An id stands for one notification of the ACS.
ASSUME ArrivalsAssumption ==
  /\ Arrivals \subseteq [patient : BOOLEAN, informs : SUBSET Inform]
  /\ \A a \in Arrivals : \A m, n \in a.informs : m.id = n.id => m = n
ASSUME BoundAssumption == MaxBreaks \in Nat

VARIABLES
  alive,        \* the process has not exited
  link,         \* the backend believes in its channel
  calls,        \* pika's calls: the first is outstanding, the others held back
  template,     \* the external and the internal message: number of the
                \* announcement they hold (0: none), and the archive
  announced,    \* history: what action logged it was publishing, in order
  chan,         \* the broker has the channel
  sent,         \* commands on their way to the broker
  frames,       \* frames on their way to the backend
  backlog,      \* messages ready in the backend's queue
  unacked,      \* messages delivered and not acknowledged
  consuming,    \* the broker knows the backend as a consumer
  declared,     \* queues that exist
  bound,        \* bindings <<exchange, queue, key>>
  published,    \* history: operations that reached the topic exchange
  closed,       \* how often the broker's side of the channel was lost
  informs,      \* notifications the ACS has yet to publish
  patient       \* informs wait until the backend is at rest

backend == <<alive, link, calls, template, announced>>
broker == <<chan, unacked, consuming, declared, bound, published, closed>>
chainVars == <<backend, broker, sent, frames, backlog, informs>>
vars == <<chainVars, patient>>

\* A call of a chain; number tells the chains of operations apart.
Call == [step : {"confirm", "exchange", "queue", "bind", "consume"},
         chain : {"consumer", "publisher", "operation"},
         number : Nat, queue : Address \cup {Self, ""}, key : Device \cup {""}]

Command == [command : {"ack"}] \cup [command : {"rpc"}, call : Call]
           \cup [command : {"publish"}, number : Nat, content : Nat]
           \cup [command : {"pass"}, message : Message]

Frame == [frame : {"ok", "close"}] \cup [frame : {"deliver"}, message : Message]

TypeOK ==
  /\ {alive, link, chan, consuming, patient} \subseteq BOOLEAN
  /\ calls \in Seq(Call)
  /\ template \in [content : 0..Len(announced), archive : SUBSET Mark]
  /\ announced \in Seq(Message)
  /\ sent \in Seq(Command)
  /\ frames \in Seq(Frame)
  /\ backlog \in Seq(Message) /\ unacked \in Seq(Message)
  /\ declared \subseteq Address \cup {Self}
  /\ bound \subseteq {"fanout", "topic"} \X declared \X (Device \cup {""})
  /\ published \subseteq [number : 1..Len(announced), content : 1..Len(announced),
                          queues : SUBSET Address]
  /\ closed \in Nat
  /\ informs \subseteq Inform

Init ==
  /\ alive = TRUE /\ link = FALSE /\ chan = FALSE /\ consuming = FALSE
  /\ calls = <<>> /\ sent = <<>> /\ frames = <<>>
  /\ template = [content |-> 0, archive |-> {}] /\ announced = <<>>
  /\ backlog = <<>> /\ unacked = <<>>
  /\ declared = {} /\ bound = {} /\ published = {} /\ closed = 0
  /\ \E a \in Arrivals : patient = a.patient /\ informs = a.informs

-----------------------------------------------------------------------------
(***************************************************************************)
(* Calls.                                                                  *)
(***************************************************************************)
CallOf(step, chain, number, queue, key) ==
  [step |-> step, chain |-> chain, number |-> number, queue |-> queue, key |-> key]

Rpc(call) == [command |-> "rpc", call |-> call]

FirstOf(s) == IF s = <<>> THEN <<>> ELSE <<Rpc(Head(s))>>

\* Commands get as far as a channel that is still there.
Send(commands) == sent' = IF chan THEN sent \o commands ELSE sent

\* The mutant sets its consumer up when it starts, and not again.
SetupChains_ConsumerOnce ==
  IF closed = 0 THEN <<"consumer", "publisher">> ELSE <<"publisher">>

SetupChains == <<"consumer", "publisher">>

\* on_channel_open: confirm_delivery, then setup_exchange for both.
SetupCalls ==
  <<CallOf("confirm", "consumer", 0, "", "")>>
    \o [i \in 1..Len(SetupChains) |-> CallOf("exchange", SetupChains[i], 0, "", "")]

\* The names in the message a chain works on.  An operation's are what the
\* template says now.
QueueName(chain) ==
  CASE chain = "consumer" -> Self
    [] chain = "operation" -> announced[template.content].address
    [] OTHER -> ""

KeyName(chain) ==
  IF chain = "operation" THEN announced[template.content].device ELSE ""

\* The mutant overlooks that a queue may be disabled.
SkipsQueue_Never(chain) == FALSE

\* setup_queue: the publisher's message has its queue disabled.
SkipsQueue(chain) == chain = "publisher"

\* The mutant remembers the queue that the chain declared.
BindCall_OwnQueue(done) ==
  CallOf("bind", done.chain, done.number, done.queue, KeyName(done.chain))

BindCall(done) ==
  CallOf("bind", done.chain, done.number, QueueName(done.chain), KeyName(done.chain))

\* The next call of the chain that done belongs to, made in its callback.
NextCall(done) ==
  CASE done.step = "exchange" /\ ~SkipsQueue(done.chain) ->
         <<CallOf("queue", done.chain, done.number, QueueName(done.chain), "")>>
    [] done.step = "queue" -> <<BindCall(done)>>
    [] done.step = "bind" /\ done.chain = "consumer" ->
         <<CallOf("consume", "consumer", 0, Self, "")>>
    [] OTHER -> <<>>

\* The mutant publishes without a queue.
PublishesAfter_Exchange(done) == done.chain = "operation" /\ done.step = "exchange"

\* The step of a chain after whose answer the messages are published.
PublishesAfter(done) == done.chain = "operation" /\ done.step = "bind"

\* publish and handle: the operation to the topic exchange, then, with no
\* set-up of its own, the notification to the fanout exchange.
Publications(done) ==
  IF ~PublishesAfter(done) THEN <<>>
  ELSE << [command |-> "publish", number |-> done.number, content |-> template.content],
          [command |-> "pass", message |->
             [announced[template.content] EXCEPT !.archive = template.archive]] >>

-----------------------------------------------------------------------------
(***************************************************************************)
(* The backend's callbacks.                                                *)
(***************************************************************************)
\* connection_open, on_connection_open, on_channel_open.
Open ==
  /\ alive /\ ~link
  /\ link' = TRUE /\ chan' = TRUE
  /\ calls' = SetupCalls
  /\ sent' = FirstOf(calls')
  /\ UNCHANGED <<alive, template, announced, frames, backlog, informs,
                 unacked, consuming, declared, bound, published, closed>>

\* on_connection_open_error, after connection_attempts.
OpenError ==
  /\ alive /\ ~link
  /\ alive' = FALSE
  /\ UNCHANGED <<link, calls, template, announced, broker, sent, frames, backlog, informs>>

\* on_channel_closed, on_connection_closed.
OnClosed ==
  /\ frames # <<>> /\ Head(frames).frame = "close"
  /\ link' = FALSE
  /\ calls' = <<>>
  /\ frames' = <<>>
  /\ UNCHANGED <<alive, template, announced, broker, sent, backlog, informs>>

\* The answer to the outstanding call.  pika sends the next one it has held
\* back before it runs the callback.
OnOk ==
  /\ frames # <<>> /\ Head(frames).frame = "ok"
  /\ frames' = Tail(frames)
  /\ LET done == Head(calls)
     IN  /\ calls' = Tail(calls) \o NextCall(done)
         /\ Send(FirstOf(calls') \o Publications(done))
  /\ UNCHANGED <<alive, link, template, announced, broker, backlog, informs>>

\* The mutant takes any mark for its own.
Considers_Unmarked(m) == m.form # "unfit" /\ m.archive = {}

\* Input verification, and the backend's own mark in the archive.
Considers(m) == m.form # "unfit" /\ Self \notin m.archive

Provisions(m) == Considers(m) /\ m.form = "factory"

\* The mutant puts off the archive until the notification has been dealt with.
TemplateAfter_NoArchive(m) ==
  [content |-> IF Provisions(m) THEN Len(announced) + 1 ELSE template.content,
   archive |-> IF Considers(m) /\ ~Provisions(m) THEN m.archive \cup {Self}
               ELSE template.archive]

\* The mutant fills the template when it is empty.
TemplateAfter_FirstOnly(m) ==
  [content |-> IF Provisions(m) /\ template.content = 0 THEN Len(announced) + 1
               ELSE template.content,
   archive |-> IF Considers(m) THEN m.archive \cup {Self} ELSE template.archive]

\* The archive is written into the template before the credentials are looked
\* at; the rest only when there is something to publish.
TemplateAfter(m) ==
  [content |-> IF Provisions(m) THEN Len(announced) + 1 ELSE template.content,
   archive |-> IF Considers(m) THEN m.archive \cup {Self} ELSE template.archive]

\* on_message and action.
OnMessage ==
  /\ frames # <<>> /\ Head(frames).frame = "deliver"
  /\ frames' = Tail(frames)
  /\ LET m == Head(frames).message
         start == IF Provisions(m)
                  THEN <<CallOf("exchange", "operation", Len(announced) + 1, "", "")>>
                  ELSE <<>>
     IN  /\ template' = TemplateAfter(m)
         /\ announced' = IF Provisions(m) THEN Append(announced, m) ELSE announced
         /\ calls' = calls \o start
         /\ Send(<<[command |-> "ack"]>> \o (IF calls = <<>> THEN FirstOf(start) ELSE <<>>))
  /\ UNCHANGED <<alive, link, broker, backlog, informs>>

-----------------------------------------------------------------------------
(***************************************************************************)
(* The broker, the network and the ACS.                                    *)
(***************************************************************************)
\* The broker's side of the channel goes; what was not acknowledged goes back.
Lost ==
  /\ chan' = FALSE /\ consuming' = FALSE /\ closed' = closed + 1
  /\ backlog' = unacked \o backlog /\ unacked' = <<>>
  /\ sent' = <<>>

Answers == frames' = Append(frames, [frame |-> "ok"])

NextCommand(command) ==
  chan /\ sent # <<>> /\ Head(sent).command = command

TakesAck ==
  /\ NextCommand("ack")
  /\ sent' = Tail(sent)
  /\ unacked' = Tail(unacked)
  /\ UNCHANGED <<backend, chan, consuming, declared, bound, published, closed,
                 frames, backlog, informs>>

TakesRpc ==
  /\ NextCommand("rpc")
  /\ LET c == Head(sent).call
         exchange == IF c.chain = "operation" THEN "topic" ELSE "fanout"
     IN  /\ c.step = "bind" => c.queue \in declared
         /\ declared' = IF c.step = "queue" THEN declared \cup {c.queue} ELSE declared
         /\ bound' = IF c.step = "bind" THEN bound \cup {<<exchange, c.queue, c.key>>}
                     ELSE bound
         /\ consuming' = (consuming \/ c.step = "consume")
  /\ sent' = Tail(sent)
  /\ Answers
  /\ UNCHANGED <<backend, chan, unacked, published, closed, backlog, informs>>

\* Binding a queue that does not exist closes the channel.
NotFound ==
  /\ NextCommand("rpc")
  /\ Head(sent).call.step = "bind" /\ Head(sent).call.queue \notin declared
  /\ Lost
  /\ frames' = Append(frames, [frame |-> "close"])
  /\ UNCHANGED <<backend, declared, bound, published, informs>>

TakesPublish ==
  /\ NextCommand("publish")
  /\ LET p == Head(sent)
     IN  published' = published \cup
           {[number |-> p.number, content |-> p.content,
             queues |-> {q \in Address : <<"topic", q, announced[p.content].device>> \in bound}]}
  /\ sent' = Tail(sent)
  /\ UNCHANGED <<backend, chan, unacked, consuming, declared, bound, closed,
                 frames, backlog, informs>>

\* What the fanout exchange gets reaches the backend's queue if it is bound.
Queued(m) ==
  IF <<"fanout", Self, "">> \in bound THEN Append(backlog, m) ELSE backlog

TakesPass ==
  /\ NextCommand("pass")
  /\ backlog' = Queued(Head(sent).message)
  /\ sent' = Tail(sent)
  /\ UNCHANGED <<backend, broker, frames, informs>>

Deliver ==
  /\ chan /\ consuming /\ backlog # <<>>
  /\ frames' = Append(frames, [frame |-> "deliver", message |-> Head(backlog)])
  /\ unacked' = Append(unacked, Head(backlog))
  /\ backlog' = Tail(backlog)
  /\ UNCHANGED <<backend, chan, consuming, declared, bound, published, closed, sent, informs>>

\* The connection breaks: the backend still gets some of what is on its way.
Break ==
  /\ chan /\ closed < MaxBreaks
  /\ Lost
  /\ \E n \in 0..Len(frames) :
       frames' = Append(SubSeq(frames, 1, n), [frame |-> "close"])
  /\ UNCHANGED <<backend, declared, bound, published, informs>>

\* A queue that nobody uses for ten minutes goes, longer than any chain takes.
Expire(q) ==
  /\ q \in declared
  /\ IF q = Self THEN ~chan ELSE calls = <<>> /\ sent = <<>>
  /\ declared' = declared \ {q}
  /\ bound' = {b \in bound : b[2] # q}
  /\ backlog' = IF q = Self THEN <<>> ELSE backlog
  /\ UNCHANGED <<backend, chan, unacked, consuming, published, closed, sent, frames, informs>>

AtRest == <<calls, sent, frames, backlog, unacked>> = <<<<>>, <<>>, <<>>, <<>>, <<>>>>

\* amqp_notify of the ACS.
Notify ==
  /\ patient => AtRest
  /\ \E m \in informs : informs' = informs \ {m} /\ backlog' = Queued(m)
  /\ UNCHANGED <<backend, broker, sent, frames>>

-----------------------------------------------------------------------------
BrokerStep == TakesAck \/ TakesRpc \/ NotFound \/ TakesPublish \/ TakesPass

Callback == OnClosed \/ OnOk \/ OnMessage

Step ==
  \/ Open \/ OpenError
  \/ OnClosed \/ OnOk \/ OnMessage
  \/ TakesAck \/ TakesRpc \/ NotFound \/ TakesPublish \/ TakesPass
  \/ Deliver \/ Break \/ Notify
  \/ \E q \in Address \cup {Self} : Expire(q)

Next == Step /\ UNCHANGED patient

\* The backend's loop runs and the broker serves; nobody has to send informs,
\* and nothing has to break or expire.
Fairness ==
  /\ WF_chainVars(Open) /\ WF_chainVars(Callback)
  /\ WF_chainVars(BrokerStep) /\ WF_chainVars(Deliver)

Spec == Init /\ [][Next]_vars /\ Fairness

-----------------------------------------------------------------------------
(***************************************************************************)
(* Properties.                                                             *)
(***************************************************************************)
\* However chains and notifications interleave, an operation only gets into
\* queues of addresses from which the device it is for was seen: setup_bind
\* takes queue and routing key from the template in the same callback.
OwnQueues ==
  \A p \in published : \A q \in p.queues :
    \E i \in 1..Len(announced) : /\ announced[i].device = announced[p.content].device
                                 /\ announced[i].address = q

\* A notification is provisioned once, and again only if a broken channel had
\* it redelivered: the copy that the backend passes on and gets back itself
\* bears its mark, whichever archive the shared template holds by then.
NoLoop ==
  \A i \in 1..Len(announced) :
    Cardinality({j \in 1..Len(announced) : announced[j].id = announced[i].id}) <= 1 + closed

\* A backend whose connection or channel was closed consumes again, unless
\* its attempts to connect fail: on_connection_closed reopens everything.
Recovers == (alive /\ ~consuming) ~> (consuming \/ ~alive)

\* Each chain publishes the message that action announced in the log before it
\* started the chain ("publishing message with content").
PublishesWhatItAnnounced == \A p \in published : p.number = p.content

\* Only informs that overlap have that effect: if each waits until the backend
\* is at rest, breaks included, chains publish what was announced.
AloneItPublishesWhatItAnnounced == patient => PublishesWhatItAnnounced

\* Then an operation that gets published reaches the queue of the address that
\* its device was notified from: the chain has declared and bound it by then.
ReachesItsQueue ==
  patient => \A p \in published : announced[p.content].address \in p.queues

\* And while the connection holds, a device with factory credentials whose
\* Inform reached the backend's queue gets its operation into its own queue.
Provisioned ==
  \A m \in {n \in Inform : n.form = "factory"} :
    (patient /\ \E i \in 1..Len(backlog) : backlog[i] = m)
      ~> \/ \E p \in published : /\ announced[p.content].id = m.id
                                 /\ m.address \in p.queues
         \/ closed > 0 \/ ~alive
=============================================================================

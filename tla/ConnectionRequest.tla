------------------------- MODULE ConnectionRequest -------------------------
(***************************************************************************)
(* A backend that asks devices to open a session: the action of            *)
(* ConnectionRequest (backend/pika/example_5_connection_request.py).       *)
(*                                                                         *)
(* A request that fails is published again, by way of a delay queue whose  *)
(* messages expire into the fanout exchange, until its ttl is used up.     *)
(* The chain of callbacks that publishes it (see Provisioning) reads the   *)
(* one template when it ends, and other requests may come in between.      *)
(***************************************************************************)
EXTENDS Integers, Sequences, FiniteSets

CONSTANTS
  Request,      \* connection requests, and other notifications
  Url,          \* of each: "good", "noHost", "badPort", or "absent"
  Relayed,      \* sets of requests that come in during a run
  Ttl,          \* what a request starts with, five (example_2_add_object.py)
  MaxBreaks     \* bound: how often the network breaks the connection

\* Finitely many notifications come in during a run.
ASSUME RequestAssumption == IsFiniteSet(Request)
ASSUME UrlAssumption == Url \in [Request -> {"good", "noHost", "badPort", "absent"}]
ASSUME RelayedAssumption == \A R \in Relayed : R \subseteq Request
ASSUME BoundAssumption == Ttl \in Nat \ {0} /\ MaxBreaks \in Nat

VARIABLES
  patient,      \* requests wait until none is under way
  waiting,      \* requests that have yet to be relayed
  alive,        \* the process has not exited
  link,         \* it consumes over a channel
  bound,        \* its queue exists and is bound to the fanout exchange
  backlog,      \* messages in that queue
  unacked,      \* messages that were acted on and whose acknowledgement is
                \* on its way
  calls,        \* pika's calls: the first is outstanding, the others held back
  template,     \* internal_msg_delay_template
  sent,         \* acknowledgements and publications on their way
  delayed,      \* the delay queue
  attempts,     \* history: how often a request was made
  completed,    \* history: the requests to which a device answered
  entered,      \* history: messages that came into circulation
  closed        \* how often the connection broke

histories == <<attempts, completed, entered>>
vars == <<patient, waiting, alive, link, bound, backlog, unacked, calls, template,
          sent, delayed, histories, closed>>

Message == [request : Request, ttl : 0..Ttl]

\* Every request that comes in may start all those under way over again.
Most(n) == Ttl * ((n * (n + 1)) \div 2)

TypeOK ==
  /\ {patient, alive, link, bound} \subseteq BOOLEAN
  /\ waiting \subseteq Request
  /\ backlog \in Seq(Message) /\ unacked \in Seq(Message) /\ delayed \in Seq(Message)
  /\ calls \in Seq({"exchange", "queue", "bind"})
  /\ calls # <<>> => template \in Message
  /\ sent \in Seq({"ack"} \X {<<>>} \cup {"publish"} \X Message)
  /\ attempts \in [Request -> Nat]
  /\ completed \subseteq {r \in Request : attempts[r] > 0}
  /\ entered \in 0..(Cardinality(Request) * (1 + MaxBreaks)) /\ closed \in 0..MaxBreaks

Init ==
  /\ patient \in BOOLEAN /\ waiting \in Relayed
  /\ alive = TRUE /\ link = FALSE /\ bound = FALSE
  /\ backlog = <<>> /\ unacked = <<>> /\ calls = <<>> /\ sent = <<>> /\ delayed = <<>>
  /\ template = <<>>
  /\ attempts = [r \in Request |-> 0] /\ completed = {} /\ entered = 0 /\ closed = 0

-----------------------------------------------------------------------------
\* on_message and action.
Unfit(m) == Url[m.request] \in {"absent", "noHost"}

Left_Kept(m) == m.ttl

Left(m) == m.ttl - 1

Spent_Late(ttl) == ttl < -1

Spent_Early(ttl) == ttl <= 0

Spent(ttl) == ttl < 0

Ignored(m) == Spent(Left(m)) \/ Unfit(m)

\* The message is acknowledged before anything else.
Received ==
  /\ alive /\ link /\ backlog # <<>>
  /\ backlog' = Tail(backlog)
  /\ unacked' = Append(unacked, Head(backlog))
  /\ sent' = Append(sent, <<"ack", <<>>>>)
  /\ UNCHANGED <<patient, waiting, link, bound, delayed, entered, closed>>

Ignore ==
  /\ Received
  /\ Ignored(Head(backlog))
  /\ UNCHANGED <<alive, calls, template, attempts, completed>>

Counted(m) == attempts' = [attempts EXCEPT ![m.request] = @ + 1]

\* A status of any kind, or a line that is none, counts as an answer.
Complete ==
  /\ Received
  /\ LET m == Head(backlog)
     IN  /\ ~Ignored(m) /\ Url[m.request] = "good"
         /\ Counted(m)
         /\ completed' = completed \cup {m.request}
  /\ UNCHANGED <<alive, calls, template>>

\* The template is filled, and a chain started that will publish it.
Requeue ==
  /\ Received
  /\ LET m == Head(backlog)
     IN  /\ ~Ignored(m) /\ Url[m.request] = "good"
         /\ Counted(m)
         /\ template' = [request |-> m.request, ttl |-> Left(m)]
         /\ calls' = Append(calls, "exchange")
  /\ UNCHANGED <<alive, completed>>

\* The port is not a number: HTTPConnection raises, and the finally clause
\* reads a variable that was never set.
Raise ==
  /\ Received
  /\ LET m == Head(backlog) IN ~Ignored(m) /\ Url[m.request] = "badPort"
  /\ alive' = FALSE
  /\ UNCHANGED <<calls, template, attempts, completed>>

NextCall_QueueAgain(done) ==
  CASE done = "exchange" -> <<"queue">>
    [] done = "queue"    -> <<"queue">>
    [] done = "bind"     -> <<>>

\* on_exchange_declare_ok, on_queue_declare_ok, on_bind_ok.
NextCall(done) ==
  CASE done = "exchange" -> <<"queue">>
    [] done = "queue"    -> <<"bind">>
    [] done = "bind"     -> <<>>

OnOk ==
  /\ alive /\ link /\ calls # <<>>
  /\ calls' = Tail(calls) \o NextCall(Head(calls))
  /\ sent' = IF Head(calls) = "bind" THEN Append(sent, <<"publish", template>>) ELSE sent
  /\ UNCHANGED <<patient, waiting, alive, link, bound, backlog, unacked, template,
                 delayed, histories, closed>>

\* connection_open to the end of the set-up, or on_connection_open_error.
Open ==
  /\ alive /\ ~link
  /\ link' = TRUE /\ bound' = TRUE
  /\ UNCHANGED <<patient, waiting, alive, backlog, unacked, calls, template, sent,
                 delayed, histories, closed>>

OpenError ==
  /\ alive /\ ~link
  /\ alive' = FALSE
  /\ UNCHANGED <<patient, waiting, link, bound, backlog, unacked, calls, template, sent,
                 delayed, histories, closed>>

-----------------------------------------------------------------------------
(***************************************************************************)
(* The broker, the network, and the backend that relays requests.          *)
(***************************************************************************)
Fanout(m) == IF bound THEN Append(backlog, m) ELSE backlog

Circulating ==
  \/ <<backlog, calls, delayed>> # <<<<>>, <<>>, <<>>>>
  \/ \E i \in DOMAIN sent : sent[i][1] = "publish"

\* What example_2_add_object.py has stored for later, example 3 publishes: the
\* fanout of the broker has it in the queue of requests, if there is one.
Relay ==
  /\ patient => ~Circulating
  /\ \E r \in waiting :
       /\ waiting' = waiting \ {r}
       /\ backlog' = Fanout([request |-> r, ttl |-> Ttl])
       /\ entered' = entered + 1
  /\ UNCHANGED <<patient, alive, link, bound, unacked, calls, template, sent, delayed,
                 attempts, completed, closed>>

\* The commands are taken in order.
TakesCommand ==
  /\ sent # <<>>
  /\ sent' = Tail(sent)
  /\ IF Head(sent)[1] = "ack"
       THEN unacked' = Tail(unacked) /\ delayed' = delayed
       ELSE unacked' = unacked /\ delayed' = Append(delayed, Head(sent)[2])
  /\ UNCHANGED <<patient, waiting, alive, link, bound, backlog, calls, template,
                 histories, closed>>

DeadLetter ==
  /\ delayed # <<>>
  /\ delayed' = Tail(delayed)
  /\ backlog' = Fanout(Head(delayed))
  /\ UNCHANGED <<patient, waiting, alive, link, bound, unacked, calls, template, sent,
                 histories, closed>>

\* What was acted on and not acknowledged is delivered again; what was on its
\* way, and the chains, are gone.
Break ==
  /\ link /\ closed < MaxBreaks
  /\ link' = FALSE /\ closed' = closed + 1
  /\ backlog' = unacked \o backlog /\ unacked' = <<>>
  /\ entered' = entered + Len(unacked)
  /\ sent' = <<>> /\ calls' = <<>>
  /\ UNCHANGED <<patient, waiting, alive, bound, template, delayed, attempts, completed>>

\* The queue goes when nobody has used it for ten minutes.
Expire ==
  /\ ~link /\ bound
  /\ bound' = FALSE /\ backlog' = <<>>
  /\ UNCHANGED <<patient, waiting, alive, link, unacked, calls, template, sent, delayed,
                 histories, closed>>

Next ==
  \/ Ignore \/ Complete \/ Requeue \/ Raise \/ OnOk \/ Open \/ OpenError
  \/ Relay \/ TakesCommand \/ DeadLetter \/ Break \/ Expire

\* The loop runs, and the broker serves and expires; nothing is assumed of
\* the devices, nor of who relays requests.
Fairness ==
  /\ WF_vars(Open) /\ WF_vars(OnOk)
  /\ WF_vars(Ignore \/ Complete \/ Requeue \/ Raise)
  /\ WF_vars(TakesCommand) /\ WF_vars(DeadLetter)

Spec == Init /\ [][Next]_vars /\ Fairness

-----------------------------------------------------------------------------
(***************************************************************************)
(* Properties.                                                             *)
(***************************************************************************)
\* All the times that requests were made.
Tries == UNION {{r} \X (1..attempts[r]) : r \in Request}

\* Devices are not flooded: a chain that publishes another's request, with the
\* ttl of that, only does so once for every request that came in since.
NoStorm == Cardinality(Tries) <= Most(entered)

\* The retries come to an end: every template that is published has less ttl
\* than a request that was made.
Quiesces == Circulating ~> ~Circulating \/ ~alive

\* If no other request comes in meanwhile, one is made until the device
\* answers, as often as its ttl says and no more.
RetriedInFull ==
  \A r \in {s \in Request : Url[s] = "good"} :
    /\ [](patient /\ closed = 0 => attempts[r] <= Ttl)
    /\ (patient /\ \E i \in DOMAIN backlog : backlog[i].request = r)
         ~> (r \in completed \/ attempts[r] = Ttl \/ closed > 0 \/ ~alive)
=============================================================================

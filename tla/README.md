# Verification of freeacs-ng

freeacs-ng is an auto configuration server (ACS) for CWMP (TR-069) devices. An
HTTP front end passes each HTTP request of a device to it over SCGI; it tells a
backend about the request over AMQP, and answers with the next operation that
the backend has queued for the device. This directory holds TLA+ models of it,
TLC configurations that check them, and TLAPS proofs about them.

## Inventory

| component | source | state | operations |
|---|---|---|---|
| SCGI connections | `src/freeacs-ng.c` | `struct connection_t` (parser, buffers, header pointers, tag), the event loop | `accept_conn_cb`, `read_cb` with the SCGI callbacks and `finish_body`, `write_cb`, `echo_event_cb`, `accept_error_cb` |
| request processing | `src/freeacs-ng.c` `send_response` | the connection's tag and output buffer | one ladder of early exits, with two blocking AMQP calls in it |
| CWMP XML | `src/xml.c` | none | `xml_message_analyze`: document to tag and JSON; `xml_message_create`: JSON to document |
| AMQP client | `src/amqp.c` | a connection per call | `amqp_notify` publishes to a fanout exchange, `amqp_fetch_pending` takes one message from a queue |
| configuration | `src/config.c`, `config/freeacs-ng` | globals, libuci's packages | `config_load`, once per `-c`, before the loop; `config_exit` |
| provisioning base | `backend/pika/provisioning.py` | AMQP connection, channel, the chain of messages being published | connect and reconnect, `on_message`, the callback chain exchange, queue, bind, publish |
| example backends | `backend/pika/example_*.py` | message templates | `action`: decide on one notification, publish operations and pass the notification on |
| MongoDB wrapper | `backend/pika/database_mongodb.py` | a collection | `insert`, `find_one` |
| outside | | | SCGI front end, libevent, the SCGI parser, RabbitMQ, the devices |

How they interact: the front end opens one connection per request. libevent
calls back from one thread. When the parser has the head and the declared body,
`finish_body` calls `send_response`, which blocks that thread in `amqp_notify`
and, for requests that ask for work, in `amqp_fetch_pending`. The backend
consumes the notifications, and puts operations into a queue named after the
device's address (or one queue for all, by configuration). The reply goes into
the output buffer; `write_cb` releases the connection when it has been written.

What is hard about it:

- a request arrives in arbitrary pieces, and three functions may answer it
  (`finish_head`, `send_response` twice over); the peer may close at any moment;
- the tag that steers all this is overwritten by `xml_message_analyze`;
- `send_response` reads header pointers that another function checked;
- the provisioning queue is read without acknowledgement, by a request that the
  device may have given up on, in a process that may crash;
- the backend runs concurrently with the session it provisions;
- every AMQP call has its own way out, and messages arrive in frames;
- the backend builds messages in shared templates that its callbacks use later;
- `send_response` and the XML functions allocate as they go, with labels that
  release, and pointers that outlive what they point to;
- retries of connection requests go round through the fanout exchange.

What makes the parts correct: one reply per connection, to a whole request, and
no connection kept or dropped without a reason (connections); operations reach
the right device, in order, at most once, and without faults exactly once, after
initial provisioning (sessions); a call leaves nothing behind and returns the
message unaltered (AMQP client); a request releases what it allocated, and the
backend is told what the document says (request processing and XML); the program
serves with the settings of one file (configuration); retries end (examples).

## Modules

| module | models | rests on |
|---|---|---|
| `RequestProcessing` | the rungs of `send_response` as predicates, the reply of each, the tag `xml_message_analyze` leaves | |
| `ScgiConnection` | connections, callbacks, peers | `RequestProcessing` |
| `ScgiConnectionProofs` | theorems on `ScgiConnection` | |
| `AcsSession` | devices, the ACS one AMQP call at a time, queues, backend | `RequestProcessing` |
| `OperationQueue` | the promise `AcsSession` implements: in-order, at-most-once operations | |
| `AmqpClient` | `amqp_notify` and `amqp_fetch_pending` call by call | |
| `PendingFetch` | the promise `AmqpClient` implements, and the steps `AcsSession` takes for a fetch | |
| `SendResponse` | `send_response`, `xml_message_analyze` and `xml_message_create` step by step: memory, what the backend is told, the reply | `RequestProcessing`, `AmqpClient` |
| `Configuration` | `config_load` and `config_exit` over libuci | |
| `Provisioning` | the pika backend: `provisioning.py` with example 1, over one channel | |
| `ConnectionRequest` | example 5: retries by way of a delay queue | |
| `AcsSessionProofs`, `AmqpClientProofs`, `ConfigurationProofs` | theorems on those modules | |
| `SendResponseProofs` | theorems on `SendResponse` | `AmqpClientProofs` |
| `ProvisioningProofs`, `ConnectionRequestProofs` | theorems on those modules | `Counting` |
| `Counting` | how many elements of a sequence are in a set, with the lemmas on it | |
| `MC...` | small instances for TLC | |

Operators named `X_Y` are mutants: `X` with a slip `Y` in it. No specification
uses them; each property is broken by putting one in the place of its original.

### ScgiConnection

A slot of `Conn` holds at most one connection; `open` says which are allocated.
The parser is represented by what it has been fed (`got`, in units; the first
`HeadLen` are the head). `ReadCb` is the whole of `read_cb`: it takes what has
arrived (at most `ReadMax`, libevent's limit per read), runs `finish_head` when
the head is complete, adds to the body, and calls `finish_body` when an approved
head and exactly the declared body are there at the end of the read. `busy`
holds the connection whose `send_response` is in its AMQP calls; no callback
starts meanwhile, but peers go on (`PeerSend`, `PeerClose`). `AmqpReturns` is
the rest of `send_response`, for every result the two calls can have. `chain` is
the size of the first chain of the body's evbuffer, which is all `finish_body`
hands on.

### AcsSession

One request at a time goes through `stage`: `Take`, `Notify`, then `FetchFails`,
`FetchEmpty` or `FetchGets` and `Transfer` when `NeedsFetch` says so, and
`Answer`. Devices follow CWMP as far as the code counts on it: Inform, then empty
requests and responses, until they are answered with something that asks for
nothing. With `Faulty` calls fail, a device gives up on a request (which the ACS
goes on with, because the loop is blocked), the process crashes and restarts with
nothing, and queues expire. Every message has an id, so that copies show. `setting`, chosen
at the start, says which devices take part and whether each has its queue
(`amqp_queue.provisioning` is `@remote_addr`) or all share one. With a shared
queue `RightDevice` and the refinement are off, `OnePlace` is not.

### AmqpClient

`pc` names the library call the function is in; every call may fail and leave
through its own exit, which takes down what `CleanedUp` says. `live` is what
exists of the connection, at the broker too. After `basic.get` the content
arrives as a header and frames; `Extended` is the `snprintf` that appends one,
to a copy of what is there (`copies`, which the code never releases) or, when
`strdup` fails (`short`), to nothing. The module has no instance of its own: it
is checked as the part of `SendResponse` that calls it.

### SendResponse

`at` is where `send_response` is. `heap` is what the request has allocated and
not released; `misused` collects what is read or released without being there.
`xml_message_analyze` and `xml_message_create` are sequences of `passes` over
the document, each of which may fail to allocate and leave through `error`.
`told` is what ends up in the JSON for the backend, each key with what its value
stands for: a status with the value of an InstanceNumber is
`<<"status", "InstanceNumber">>`. Where the C library may stop the process
(a double release, a copy from nowhere) that is one of the outcomes
(`"aborted"`), and a process is started again by the next `Begin`.

`AnswersAsStated` ties it to the modules above: while there is memory and the
process goes on, the steps come to the one reply `RequestProcessing` states as a
function, which is what `ScgiConnection` and `AcsSession` build on.

The code does read and release what is not there, and can stop the process with
it. `Unguarded` lists every way there, and `HandlesItsOwn` says that there is no
other:

- an AddObjectResponse with an InstanceNumber and no Status (`StatusMissing`,
  `StaleStatus`): released memory is read and released again, `xml.c:365-366`;
- a `Name` in an Inform with no element after it (`ValueMissing`, `NullValue`):
  `json_object_new_string` reads NULL, `xml.c:275-277`;
- a download without `file_type`, and a `set_parameter_values` that is no object
  (`NullCreate`): `strcmp` reads NULL, `xml.c:580`, and so does the loop at
  `xml.c:500`. The message has been taken from the queue by then and is lost;
- failed allocations (`starved`): the pointers that `clean` reads without
  `json_msg_in`, the second release of `xpath_obj`, and texts that are read
  without having been made (`Clean`, `CreateError`, `Reply200`, `ContentFails`,
  `NotificationFails`).

What a request may leave allocated is in `NothingElseLeft`: the memory of a failed
fetch, of a fragmented message and of a repeated element. `ScgiConnection` has no
such stop; for the operations it is a `Crash` of `AcsSession`, which may come
between any two steps and takes with it what the ACS has fetched.

### Configuration

A file is a sequence of sections with options; a package in memory is a file and
the number of the load that read it, so that a pointer into a package that has
been unloaded shows. Only the first `-c` sets the directory; later ones give a
name in it. `InitSection` is `config_init_scgi`, `_amqp`, `_amqp_exchange` and
`_amqp_queue`: the first section of the type, its port neither zero nor
unreadable, and in the end a value for every option. They forget what an earlier
load has set before they start (`Cleared`): without that the test for NULL at the
end would accept an option that only the file of another `-c` has. Each may fail
for want of memory, which ends the program.

### Provisioning

`calls` is pika's queue of calls that wait for an answer: the first is
outstanding, the rest held back. `OnOk` is the callback for an answer; it makes
the next call of its chain (`NextCall`), or publishes (`Publications`). The two
templates are one record, the number of the announcement whose values they hold
and the archive; callbacks read it when they run, as `setup_queue`, `setup_bind`
and `publish` do. `sent` and `frames` are the two directions of the connection.
`Break` loses all of the one and an end of the other; `NotFound` is the
broker's answer to a bind of a queue that does not exist. `Open` is everything
from `connection_open` to the end of `on_channel_open`. `Arrivals` gives the
notifications of a run and whether each waits until the backend is at rest.

### ConnectionRequest

The set-up and the connection are those of `Provisioning`, in one step (`Open`),
and so are the answers of the broker; the chain (`calls`), the one template, the
acknowledgement on its way and the break are as there. The delay queue is
`delayed`, `DeadLetter` its expiry into the fanout exchange, which reaches the
backend's queue if that has not expired itself (`bound`). A request's `Url` is
one the parser accepts, one without a host, which `action` ignores, or one whose
port is not a number: then `httplib` raises, the `finally` clause reads `conn`,
which was never set, and the process ends (`Raise`).

## Runs

| run | shows | bounds |
|---|---|---|
| `scgi_safety` | `AnswersOnce`, `FinishedMeansAnswered`, `HeadersAtHand`, `AnswersWholeRequest`, `ReleasedForAReason` | two connections, twelve requests: every rung, bodies short, exact, over the declared length and over the limit; a head of two units, reads of three, so that each boundary is met before, at and after the end of a read |
| `scgi_liveness` | `Answered`, `Reclaimed` | two connections, four requests |
| `scgi_body` | a violation, see below | one connection |
| `session_faults` | `OnePlace`, `RightDevice`, `UnprovisionedFirst`, `KeepsPromise` | all faults, in four settings: two devices that share a queue, one operation; two devices with a queue each, one of them new, one operation; one new device, two operations; one new device, four messages: of each form, one that asks nothing, one that sets a cookie |
| `session_liveness` | `NothingVanishes`, `Delivered`, `SessionsEnd` | two devices, three operations, no faults |
| `response` | `NothingElseLeft`, `HandlesItsOwn`, `TellsTheDocument`, `AnswersAsStated`; of the AMQP client `CleansUp`, `CountsDown`, `KeepsFetchPromise` | thirteen requests: refused, unprovisioned, empty, unreadable, each type of document, each version, elements missing, once and twice, a `Name` with and without a value; messages of none to three units of every kind `xml_message_create` tells apart, frames of up to two, two messages queued |
| `response_status` | a violation, see below | as `response`, nothing queued |
| `configuration` | `ServesOneFile`, `AuthorizationLives`, `ExitReleases` | one to three `-c`, nine paths, eight of them of files: whole, an option missing, a section missing or twice, ports 65535, 65536, -1 and a word |
| `config_sections` | a violation, see below | as `configuration` |
| `provisioning` | `OwnQueues`, `NoLoop`, `Recovers`; if informs wait for each other `AloneItPublishesWhatItAnnounced`, `ReachesItsQueue` and, until a break, `Provisioned` | at any time: two new devices and a notification passed on by another backend, or one device from two addresses; alone: a device that moves, one that takes its address over, an unfit notification; one break |
| `prov_announced` | a violation, see below | two new devices, no breaks |
| `connection_request` | `NoStorm`, `Quiesces`, `RetriedInFull` | the real ttl of five; two requests, or one and a malformed one or another notification; one break |

Connections only interact through the one thread, and devices through it and the
queues, so two of each show every kind of interference; three units of body
suffice for two reads, two chains and a body at, below and over the limit; two
messages show order. A device's abandoned requests are limited to one at a time
(`Abandoned`). `scgi_*` do not check deadlock: after `accept_error_cb` the
program stops.

`scgi_body` finds that `BodyIsContiguous` does not hold. `prepare_connection`
announces ("prepare buffer for HTTP body", "Failed to expand memory for HTTP
body.") that it makes room for the body in one piece, but expands
`connection->head` instead (`src/freeacs-ng.c:88`). A body whose first read is
smaller than the rest ends up in two chains, and `finish_body` passes the first
one on with the length of both. `ScgiConnection` models the consequence: such a
document is `"Unreadable"`.

`prov_announced` finds that a chain does not always publish what `action` logged
("publishing message with content"): the chain holds the shared template, and a
second Inform that is delivered before the chain has ended overwrites it. The
first chain then publishes the second device's operation, the second chain
publishes it again, and the first device gets nothing. If the second address has
no queue yet, the first chain binds a queue that does not exist and the channel
is closed (`NotFound`), which ends both chains. `provisioning` shows that overlap
is the only cause, and what survives it. In `prov*` and `connection_request` the
system comes to rest when all notifications have been dealt with or the process
has exited, so deadlock is not checked; `configuration` ends with the program.
Two chains and a notification in between are enough for each to overwrite the
other; a break is possible between any two steps, and a second one only starts
the backend over again.

`response_status` finds that the status the backend is told of an
AddObjectResponse need not be the device's. `xml.c:346` and `:359` use one
variable `c` for the InstanceNumber and the Status; it is released at `:347` and
not reset, so that "if (c)" at `:365` holds for a document without a Status. The
released content is told as the status and released a second time.

`config_sections` finds that a file with two sections of a type is served. "only
one uci scgi section is allowed..." (`config.c:48`, and for the other types
`:111`, `:205`, `:278`, `:329`) is said if more than one is counted, but the loop
that counts ends at the first (`:40`). Which one is used depends on their order.

`ServesOneFile` does not say which section of a type is the right one. It also
leaves out ports of more than 16 bits: `config.c:65` refuses a port that `atoi`
makes zero, and `htons` makes 65536 zero after that (`:70`). Another place where
the properties state what the code does, and a reader may want something else, is
`AnswersAsStated` for a body that is no XML: `xml_message_analyze` returns 0 from
its error label too (`xml.c:375-379`), so the 500 that `freeacs-ng.c:402-408` has
for it is never sent, and the request is answered 204 like one of unknown type.

`connection_request` shows what the shared template does to retries: a chain
publishes whatever request was filled in last, with the ttl of that, so that one
request may be lost and another made more often than its ttl says (for example six times
instead of five with two requests). What does hold is `NoStorm`: with `n`
messages that came in, at most `Ttl * n * (n + 1) / 2` attempts, because each new
request can renew the ttl of those under way once. `Ttl * n` would be too little.

## Fairness

- Callbacks (`ReadCb`, `WriteCb`, `EventCb`): strong fairness. libevent runs all
  active events before it polls again, so a socket that is ready again and again
  is served although other connections keep the loop busy in between. A write to
  a peer that is gone may fail for ever; `WriteCb` is fair for living peers only.
- `AmqpReturns`, `ServerStep`: weak fairness, the assumption that the broker
  answers. The code gives these calls no timeout: with a broker that accepts and
  stays silent, none of the liveness properties hold.
- Peers: none. `Answered` speaks of those that have sent everything and wait.
- `ConnectionRequest`: as `Provisioning`, and the broker lets messages expire.
- `Provisioning`: weak fairness of the backend's callbacks, of its reopening and
  of the broker's serving and delivering. Informs, breaks and expiry are never
  assumed; an attempt to open may always fail for good (`OpenError`).
- Devices in `AcsSession`: weak fairness of starting sessions (periodic inform),
  sending and receiving; `Take` is strongly fair like the callbacks. Publishing
  and faults are never assumed.

## Proofs

Every safety invariant and action property of the passing runs, and both
refinements, are theorems for every value of the constants. They use the named
assumptions of the modules on their constants, and where a theorem says so an
`ASSUME` of its own. Each proof module first states an invariant, as a conjunction of named
parts; none of the properties is inductive without it. One lemma per action shows that the action
preserves it, with one step per part it disturbs; what several actions need is a
lemma of its own. Action properties and refinements then follow from the
invariant and the step.

**`ScgiConnectionProofs`**: `TypeOK`, `AnswersOnce`, `FinishedMeansAnswered`,
`HeadersAtHand`, `AnswersWholeRequest`, `ReleasedForAReason`. `IInv` adds what the
code relies on: the parser is never ahead of the wire (`WireOrder`), a free slot
is clean (`FreeSlots`), a connection without a complete head has the tag of a new
one (`BeforeHead`), approval implies the headers (`ApprovedMeansParsed`), an open
connection has a reply exactly if it is finished (`Bookkeeping`), and a
connection in the AMQP calls is complete, unanswered and past every refusal
(`WaitingForAmqp`). The lemma on `ReadCb` goes through head, body and
`send_response` separately.

**`AmqpClientProofs`**: `TypeOK`, `CleansUp`, `CountsDown`, and that the client
implements `PendingFetch`. `OpenedOnly` says what can exist when a library call
begins, so that the exit of that call takes down all of it. `Reassembly` is the
loop over the frames: the broker has the end of the body still to send, `left` is
its length, and the buffer has the rest unless an allocation failed. With
`BeforeGet` and `BeforeContent` it makes the last frame complete exactly the
message that was at the head of the queue (`Complete`), which is the refinement's
one step that is not a stutter.

**`SendResponseProofs`**: each step of `send_response` is a step of the client or
leaves it alone (`ResponseStep`), which carries the theorems on `AmqpClient` and its
refinement over. On top of that `ResponseTypeOK`, `NothingElseLeft`,
`HandlesItsOwn`, `TellsTheDocument` and `AnswersAsStated`. For `HandlesItsOwn` each
step that may misuse something is shown to be enabled only where `Unguarded` has
it, and what `Unguarded` has during a request stays there. `Holds` bounds the heap
from both sides at each place, what must be allocated and what may be; `Dangles`
is where the pointer of an InstanceNumber can lead; `Analyzes` and `Analyzed`
say that the tag and what is told are those of the passes made so far;
`Turns` that only messages `send_response` can use become documents; `AsStated` that the
reply is the one `RequestProcessing` states. The last two theorems assume
`OneMethod`: below the Body of a document there are methods of one type, as
CWMP has it. In a document with several, the code sets a tag for each.

**`AcsSessionProofs`**: `TypeOK`, `OnePlace`, `RightDevice`, `UnprovisionedFirst`,
`NothingVanishes`, and that the sessions implement `OperationQueue`. `Core` says
that a device has one request outstanding, as it sent it (`Outstanding`), and what
`fetched` can hold at each stage (`Fetching`). For `OnePlace` each message is
found in the queue, with the ACS, on the wire or done, and each action moves it
from one of these to the next or loses it. For the refinement a step on queues,
fetched message or wire is a step of the promise for its device and none for the
others. `NothingVanishes` assumes `Deliverable`, that what is published are
operations that ask a device for something; other messages `send_response` drops.

**`ConfigurationProofs`**: `ConfigurationTypeOK`, `AuthorizationLives`,
`ServesOneFile`, `ExitReleases`. The credentials live because only one package is
called `uci_freeacs_ng` (`OneOfAName`, `InMemory`) and it is that of the last load
(`Current`), from which `authorized` is taken (`Authorizes`). `Progress` fixes the
directory to the first `-c`; `Settles` follows the readers of the sections in the
order `config_load` calls them. That nothing of another `-c` is mixed in rests on
`TakenIs`: the values of a type are there only if its section has the options. The
section itself is the least position of its type, which exists because positions
are numbers.

**`ProvisioningProofs`**: `TypeOK`, `OwnQueues`, `NoLoop`, and with informs that
wait `AloneItPublishesWhatItAnnounced`, `ReachesItsQueue`. The invariant counts:
one RPC is on its way or being answered (`Outstanding`), each unacknowledged message is
still to arrive or its acknowledgement is still to be served (`Acked`), if
informs wait there is one chain at most and the template is what it announced
(`OneChain`), and notifications with one id come in at most once more than
channels were lost (`Loop`). `Counting` has what a count becomes when a sequence
loses its head, gets an element or is cut.

**`ConnectionRequestProofs`**: `TypeOK` and `NoStorm`. That a chain publishes
whatever the template holds makes a bound on the attempts hard to see: a new request
can renew the ttl of all those under way. `IInv` has the requests in circulation
(`Tokens`: messages, chains, publications; each request once, `Once`) and a cut
that goes round with them, from the backlog through chains and publications to
the delay queue (`Cut`): behind it all have a ttl below the `level`, before it at
most the level. The attempts so far, `level - 1` for each token and one for each
before the cut stay within the bound (`Bounded`). An attempt uses up one of these
(`CutMoves`), a cut that has been round is a cut of the level below (`Relevel`),
and a new request starts again at the full ttl with one token more, for which the
bound grows by `Ttl` times their number (`Afresh`). The requests are finitely
many (`RequestAssumption`).

Only model-checked are the liveness properties, which TLAPS does not handle:
`Answered`, `Reclaimed`, `Delivered`, `SessionsEnd`, `Recovers`, `Provisioned`,
`Quiesces`, `RetriedInFull`. The four runs that find a violation have nothing to prove.

## Not modelled

- Allocation failures in the libevent callbacks (`accept_conn_cb`, `read_cb`),
  the `DUMMY_MODE` build, HTTP and XML text, the nodes of created documents, and
  what json-c does inside with memory it cannot get.
- Event codes that libfreecwmp does not know: what it makes of them is not in the
  repository.
- The front end's handling of 401; devices that change addresses while the ACS
  serves them (only `Provisioning` has moving devices).
- Examples 2 to 4 and the MongoDB wrapper, but for the request that example 3
  relays (`Relay` of `ConnectionRequest`). Their relay continues with whatever
  document `find_one` returns; it ignores its argument, and the repository says
  nothing of the order in which MongoDB stores documents. A model could only
  allow any document, which shows no more than the line itself.
- Of `provisioning.py` its shutdown (`halt`), the cancelling of its consumer by
  the broker, and the nesting of event loops by `reconnect`.
- Timeouts: neither the connections nor the AMQP calls have any. A silent peer
  keeps its connection, and a silent broker stops the program.

## Plan

1. Done: `RequestProcessing`, `ScgiConnection` with proofs, `AcsSession` and its
   refinement, `AmqpClient` and its refinement, `Provisioning` with example 1.
2. Done: `SendResponse` with the XML functions and memory, `Configuration`,
   `ConnectionRequest`, shared queues in `AcsSession`.
3. Done: proofs of all safety invariants, action properties and refinements that
   the runs check.
4. To do: whether `OneMethod` can be weakened to what `xml_message_analyze` does
   with several methods, and shorter proofs of `AcsSession` and `SendResponse`.

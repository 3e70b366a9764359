-------------------------- MODULE AcsSessionProofs -------------------------
(***************************************************************************)
(* Proofs about AcsSession for any devices, messages, credentials and      *)
(* settings, with faults and without.                                      *)
(***************************************************************************)
EXTENDS AcsSession, SequenceTheorems, FiniteSetTheorems, TLAPS

-----------------------------------------------------------------------------
(***************************************************************************)
(* The core of the inductive invariant.  A device has one request          *)
(* outstanding: a request that is live, in the inbox or in the works, is   *)
(* what its device sent last, and its reply is not yet on the wire.        *)
(***************************************************************************)
AsSent(rq) == /\ rq.dev \in waiting
              /\ rq.doc = next[rq.dev]
              /\ rq.cookie = cookie[rq.dev]
              /\ rq.credentials = login[rq.dev]
              /\ wire[rq.dev] = <<>>

InTheWorks(d) == stage # "idle" /\ current.live /\ current.dev = d

Outstanding ==
  /\ \A d \in waiting : next[d] # "idle"
  /\ \A d \in Dev : wire[d] # <<>> => d \in waiting
  /\ \A rq \in inbox : rq.live => AsSent(rq) /\ ~ InTheWorks(rq.dev)
  /\ \A d \in Dev : InTheWorks(d) => AsSent(current)

\* Where send_response is, and what amqp_fetch_pending has returned to it.
Wanted == NeedsFetch(View(current), TagOf(current))

Fetching ==
  /\ stage \in {"idle", "notify", "fetch"} => fetched = <<>>
  /\ stage \in {"idle", "notify", "fetch", "transfer"} => ~ failed
  /\ stage \in {"fetch", "transfer"} => Wanted
  /\ fetched # <<>> => Wanted /\ ~ failed

Core == TypeOK /\ Outstanding /\ Fetching

-----------------------------------------------------------------------------
(***************************************************************************)
(* OnePlace in a form that a step can be held against: the places of a     *)
(* message by kind, no two of them at once, and none before it was queued. *)
(***************************************************************************)
InAcs(m)         == fetched # <<>> /\ fetched[1] = m
InQueue(m, q, i) == i \in DOMAIN queue[q] /\ queue[q][i] = m
ToDevice(m, d)   == wire[d] # <<>> /\ wire[d][1].entity = m.id
DoneBy(m, d, i)  == i \in DOMAIN executed[d] /\ executed[d][i] = m

Somewhere(m) == \/ InAcs(m)
                \/ \E q \in Queues : \E i \in DOMAIN queue[q] : InQueue(m, q, i)
                \/ \E d \in Dev : ToDevice(m, d)
                \/ \E d \in Dev : \E i \in DOMAIN executed[d] : DoneBy(m, d, i)

PublishedFirst ==
  \A m \in Message : Somewhere(m) => \E d \in Dev : <<d, m>> \in published

OnceInQueue ==
  \A m \in Message, q, r \in Queues : \A i \in DOMAIN queue[q], j \in DOMAIN queue[r] :
    InQueue(m, q, i) /\ InQueue(m, r, j) => q = r /\ i = j

OnceOnWire ==
  \A m \in Message, d, e \in Dev : ToDevice(m, d) /\ ToDevice(m, e) => d = e

OnceDone ==
  \A m \in Message, d, e \in Dev : \A i \in DOMAIN executed[d], j \in DOMAIN executed[e] :
    DoneBy(m, d, i) /\ DoneBy(m, e, j) => d = e /\ i = j

Apart ==
  \A m \in Message :
    /\ InAcs(m) => /\ \A q \in Queues : \A i \in DOMAIN queue[q] : ~ InQueue(m, q, i)
                   /\ \A d \in Dev : ~ ToDevice(m, d)
                   /\ \A d \in Dev : \A i \in DOMAIN executed[d] : ~ DoneBy(m, d, i)
    /\ \A q \in Queues : \A i \in DOMAIN queue[q] : InQueue(m, q, i) =>
         /\ \A d \in Dev : ~ ToDevice(m, d)
         /\ \A d \in Dev : \A j \in DOMAIN executed[d] : ~ DoneBy(m, d, j)
    /\ \A d \in Dev : ToDevice(m, d) =>
         \A e \in Dev : \A i \in DOMAIN executed[e] : ~ DoneBy(m, e, i)

OneSpot == PublishedFirst /\ OnceInQueue /\ OnceOnWire /\ OnceDone /\ Apart

-----------------------------------------------------------------------------
(***************************************************************************)
(* With a queue per device, wherever a message is, it is with the device   *)
(* that it was queued for.                                                 *)
(***************************************************************************)
IsWith(m, d) ==
  \/ \E i \in DOMAIN queue[QueueOf[d]] : InQueue(m, QueueOf[d], i)
  \/ InAcs(m) /\ current.dev = d
  \/ ToDevice(m, d)
  \/ \E i \in DOMAIN executed[d] : DoneBy(m, d, i)

OwnersOnly ==
  Unshared => \A m \in Message, d \in Dev : IsWith(m, d) => <<d, m>> \in published

(***************************************************************************)
(* A device with factory credentials gets no further than the answer to    *)
(* its first empty request, which is the initial provisioning.             *)
(***************************************************************************)
NotYetProvisioned ==
  \A d \in Dev : credentials[d] \in Factory =>
    /\ executed[d] = <<>>
    /\ login[d] = credentials[d]
    /\ next[d] \in {"idle", "Inform", "Empty"}
    /\ next[d] = "Empty" => cookie[d] = "level=0"
    /\ wire[d] # <<>> => wire[d][1] \in {InformResponse, InitialProvisioning}

-----------------------------------------------------------------------------
(* Every reply that send_response makes after notifying is one of ReplyOver. *)
LEMMA NotifiedReplyType ==
  ASSUME NEW r, NEW t, NEW f \in BOOLEAN,
         NEW got \in {<<>>} \cup {<<m>> : m \in Message}
  PROVE  NotifiedReply(r, t, f, got) \in ReplyOver(Message)
<1>1. /\ InternalServerError \in ReplyOver(Message) /\ NoContent \in ReplyOver(Message)
      /\ InformResponse \in ReplyOver(Message)
      /\ InitialProvisioning \in ReplyOver(Message)
  BY DEF ReplyOver
<1>2. FetchReply(f, got) \in ReplyOver(Message)
  <2>1. CASE f \/ got = <<>>
    BY <1>1, <2>1 DEF FetchReply
  <2>2. CASE ~ f /\ got # <<>>
    <3>1. PICK m \in Message : got = <<m>>
      BY <2>2
    <3>2. FetchReply(f, got) = FetchReply(FALSE, <<m>>)
      BY <2>2, <3>1 DEF FetchReply
    <3> QED
      BY <3>2 DEF ReplyOver
  <2> QED
    BY <2>1, <2>2
<1> QED
  BY <1>1, <1>2 DEF NotifiedReply

(* The fields of a message. *)
LEMMA MessageFields ==
  ASSUME NEW m \in Message
  PROVE  /\ m.id \in STRING /\ m.cookie \in STRING
         /\ m.form \in MessageForm /\ m.op \in Operation
         /\ m.id # "nothing" /\ m.id # "InformResponse" /\ m.id # "InitialProvisioning"
         /\ \A n \in Message : m.id = n.id => m = n
BY MessageAssumption DEF MessageType

(* A reply has a cookie; one that names a message asks for it. *)
LEMMA ReplyFields ==
  ASSUME NEW r \in ReplyOver(Message)
  PROVE  /\ r.cookie \in Cookie
         /\ \A m \in Message : r.entity = m.id => r.status = 200
         /\ r.entity = "InformResponse" => r = InformResponse
         /\ r.entity = "InitialProvisioning" => r = InitialProvisioning
<1>1. CASE r \in {Unauthorized, InternalServerError, NoContent, InformResponse,
                  InitialProvisioning}
  <2>1. CASE r = InformResponse
    BY <2>1, MessageFields DEF InformResponse, InitialProvisioning, Reply, Cookie
  <2>2. CASE r = InitialProvisioning
    BY <2>2, MessageFields DEF InformResponse, InitialProvisioning, Reply, Cookie
  <2>3. CASE r \in {Unauthorized, InternalServerError, NoContent}
    <3>1. r.cookie = "" /\ r.entity = "nothing"
      <4>1. CASE r = Unauthorized
        BY <4>1 DEF Unauthorized, Reply
      <4>2. CASE r = InternalServerError
        BY <4>2 DEF InternalServerError, Reply
      <4>3. CASE r = NoContent
        BY <4>3 DEF NoContent, Reply
      <4> QED
        BY <2>3, <4>1, <4>2, <4>3
    <3> QED
      BY <3>1, MessageFields DEF Cookie
  <2> QED
    BY <1>1, <2>1, <2>2, <2>3
<1>2. CASE \E m \in Message : r = FetchReply(FALSE, <<m>>)
  <2>1. PICK m \in Message : r = FetchReply(FALSE, <<m>>)
    BY <1>2
  <2>2. r = InternalServerError \/ r = Reply(200, m.cookie, m.id)
    BY <2>1 DEF FetchReply
  <2>3. CASE r = InternalServerError
    BY <1>1, <2>3
  <2>4. CASE r = Reply(200, m.cookie, m.id)
    BY <2>4, MessageFields DEF Reply, Cookie
  <2> QED
    BY <2>2, <2>3, <2>4
<1> QED
  BY <1>1, <1>2 DEF ReplyOver

(* What send_response makes of a request does not depend on who still waits. *)
LEMMA DisownedRequest ==
  ASSUME NEW rq \in RequestType, NEW d \in Dev
  PROVE  /\ Disown(d, rq) \in RequestType
         /\ Disown(d, rq).dev = rq.dev
         /\ Disown(d, rq).live => rq.live /\ rq.dev # d /\ Disown(d, rq) = rq
         /\ rq.dev # d => Disown(d, rq) = rq
         /\ View(Disown(d, rq)) = View(rq)
         /\ TagOf(Disown(d, rq)) = TagOf(rq)
<1>1. CASE rq.dev = d
  <2> DEFINE rs == [rq EXCEPT !.live = FALSE]
  <2>1. /\ rs \in RequestType /\ rs.dev = rq.dev /\ ~ rs.live
        /\ rs.doc = rq.doc /\ rs.cookie = rq.cookie /\ rs.credentials = rq.credentials
    BY DEF RequestType
  <2>2. Disown(d, rq) = rs
    BY <1>1 DEF Disown
  <2> HIDE DEF rs
  <2>3. View(rs) = View(rq)
    BY <2>1 DEF View
  <2> QED
    BY <1>1, <2>1, <2>2, <2>3 DEF TagOf
<1>2. CASE rq.dev # d
  BY <1>2 DEF Disown
<1> QED
  BY <1>1, <1>2

(* The queue of a device is one of the queues. *)
LEMMA QueueNames == \A d \in Dev : QueueOf[d] \in Queues
BY DEF Queues

(* What the settings of the assumption hold, for the one in force. *)
LEMMA InSetting ==
  ASSUME setting \in DOMAIN Setting
  PROVE  /\ Setting[setting].message \subseteq Message
         /\ Present \subseteq Dev
         /\ \A d \in Present : Setting[setting].initial[d] \in Credential
<1> DEFINE s == Setting[setting]
<1>1. s.message \subseteq Message /\ DOMAIN s.initial \subseteq Dev
  BY SettingAssumption
<1> QED
  BY <1>1 DEF Present, Credential

(* The setting holds throughout. *)
LEMMA SameSetting ==
  ASSUME UNCHANGED setting
  PROVE  /\ QueueOf' = QueueOf /\ Queues' = Queues /\ Present' = Present
         /\ Unshared' = Unshared
<1>1. QueueOf' = QueueOf /\ Present' = Present /\ Unshared' = Unshared
  BY DEF QueueOf, Present, Unshared
<1>2. Queues' = Queues
  BY <1>1 DEF Queues
<1> QED
  BY <1>1, <1>2

-----------------------------------------------------------------------------
(* The invariant starts out true. *)
LEMMA InitCore == Init => Core
<1> SUFFICES ASSUME Init PROVE Core
  OBVIOUS
<1>1. credentials \in [Dev -> Credential] /\ login \in [Dev -> Credential]
  BY InSetting DEF Init, Credential
<1>2. <<>> \in Seq(Message)
  OBVIOUS
<1>3. queue \in [Queues -> Seq(Message)] /\ executed \in [Dev -> Seq(Message)]
  BY <1>2 DEF Init
<1>4. wire \in [Dev -> {<<>>} \cup {<<r>> : r \in ReplyOver(Message)}]
  BY DEF Init
<1>5. /\ next \in [Dev -> Step] /\ cookie \in [Dev -> Cookie]
  BY DEF Init, Step, Cookie
<1>6. TypeOK
  BY <1>1, <1>3, <1>4, <1>5 DEF Init, TypeOK
<1>7. Outstanding /\ Fetching
  BY DEF Init, Outstanding, Fetching, InTheWorks
<1> QED
  BY <1>6, <1>7 DEF Core

(* Begin: a device between sessions waits for nothing. *)
LEMMA BeginCore ==
  ASSUME Core, UNCHANGED setting, NEW d \in Dev, Begin(d)
  PROVE  Core'
<1>1. TypeOK'
  <2>1. next' \in [Dev -> Step] /\ cookie' \in [Dev -> Cookie] /\ login' \in [Dev -> Credential]
    BY DEF Begin, Core, TypeOK, Step, Cookie
  <2> QED
    BY <2>1, SameSetting DEF Begin, serverVars, Core, TypeOK
<1>2. d \notin waiting
  BY DEF Begin, Core, Outstanding
<1>3. Outstanding'
  BY <1>2, SMTT(30), ZenonT(40)
    DEF Begin, serverVars, Core, TypeOK, Outstanding, AsSent, InTheWorks, RequestType
<1>4. Fetching'
  BY DEF Begin, serverVars, Core, Fetching, Wanted
<1> QED
  BY <1>1, <1>3, <1>4 DEF Core

(* Send: a device that waits for nothing has no live request in the ACS. *)
LEMMA SendCore ==
  ASSUME Core, UNCHANGED setting, NEW d \in Dev, Send(d)
  PROVE  Core'
<1> DEFINE new == [dev |-> d, doc |-> next[d], cookie |-> cookie[d],
                   credentials |-> login[d], live |-> TRUE]
<1>1. new \in RequestType /\ inbox' = inbox \cup {new} /\ waiting' = waiting \cup {d}
  BY DEF Send, Core, TypeOK, RequestType
<1>2. /\ new.dev = d /\ new.doc = next[d] /\ new.cookie = cookie[d]
      /\ new.credentials = login[d] /\ new.live
  OBVIOUS
<1> HIDE DEF new
<1>3. TypeOK'
  BY <1>1, SameSetting DEF Send, serverVars, Core, TypeOK
<1>4. wire[d] = <<>> /\ ~ InTheWorks(d) /\ \A rq \in inbox : rq.live => rq.dev # d
  BY DEF Send, Core, TypeOK, Outstanding, AsSent, InTheWorks
<1>5. Outstanding'
  BY <1>1, <1>2, <1>4
     DEF Send, serverVars, Core, TypeOK, Outstanding, AsSent, InTheWorks, RequestType
<1>6. Fetching'
  BY DEF Send, serverVars, Core, Fetching, Wanted
<1> QED
  BY <1>3, <1>5, <1>6 DEF Core

(* Receive: a device that has its reply has no live request in the ACS. *)
LEMMA ReceiveCore ==
  ASSUME Core, UNCHANGED setting, NEW d \in Dev, Receive(d)
  PROVE  Core'
<1> DEFINE r == wire[d][1]
<1>1. r \in ReplyOver(Message)
  <2>1. wire[d] \in {<<>>} \cup {<<x>> : x \in ReplyOver(Message)} /\ wire[d] # <<>>
    BY DEF Receive, Core, TypeOK
  <2> QED
    BY <2>1
<1>2. /\ wire' = [wire EXCEPT ![d] = <<>>] /\ waiting' = waiting \ {d}
      /\ UNCHANGED <<setting, inbox, serverVars, told, queue, published>>
      /\ cookie' = [cookie EXCEPT ![d] = IF r.cookie = "" THEN @ ELSE r.cookie]
  BY DEF Receive
<1>3. /\ \E s \in Step : next' = [next EXCEPT ![d] = s]
      /\ \E c \in Credential : credentials' = [credentials EXCEPT ![d] = c]
      /\ \E c \in Credential : login' = [login EXCEPT ![d] = c]
      /\ \E s \in Seq(Message) : executed' = [executed EXCEPT ![d] = s]
  <2>0. /\ credentials \in [Dev -> Credential] /\ login \in [Dev -> Credential]
        /\ executed \in [Dev -> Seq(Message)] /\ Own \in Credential
    BY DEF Core, TypeOK, Credential
  <2>1. /\ \E c \in Credential : credentials = [credentials EXCEPT ![d] = c]
        /\ \E c \in Credential : login = [login EXCEPT ![d] = c]
        /\ \E s \in Seq(Message) : executed = [executed EXCEPT ![d] = s]
    <3>1. /\ credentials = [credentials EXCEPT ![d] = credentials[d]]
          /\ login = [login EXCEPT ![d] = login[d]]
          /\ executed = [executed EXCEPT ![d] = executed[d]]
      BY <2>0
    <3> QED
      BY <2>0, <3>1
  <2>2. CASE \E s \in Step : /\ next' = [next EXCEPT ![d] = s]
                             /\ UNCHANGED <<credentials, login, executed>>
    BY <2>1, <2>2
  <2>3. CASE /\ next' = [next EXCEPT ![d] = "SetParameterValuesResponse"]
             /\ credentials' = [credentials EXCEPT ![d] = Own]
             /\ \E c \in {login[d], Own} : login' = [login EXCEPT ![d] = c]
             /\ UNCHANGED executed
    BY <2>0, <2>1, <2>3 DEF Step
  <2>4. CASE \E m \in MessageIn(r) :
               /\ ~ AsksNothing(r)
               /\ next' = [next EXCEPT ![d] = ResponseTo(m.op)]
               /\ executed' = [executed EXCEPT ![d] = Append(@, m)]
               /\ UNCHANGED <<credentials, login>>
    <3>1. PICK m \in MessageIn(r) :
               /\ ~ AsksNothing(r)
               /\ next' = [next EXCEPT ![d] = ResponseTo(m.op)]
               /\ executed' = [executed EXCEPT ![d] = Append(@, m)]
               /\ UNCHANGED <<credentials, login>>
      BY <2>4
    <3>2. m \in Message /\ m.op \in Operation \ {"None"}
      BY <3>1, MessageAssumption DEF MessageIn, AsksNothing, MessageType
    <3>3. ResponseTo(m.op) \in Step
      BY <3>2 DEF ResponseTo, Operation, Step
    <3>4. /\ Append(executed[d], m) \in Seq(Message)
          /\ executed' = [executed EXCEPT ![d] = Append(executed[d], m)]
      BY <2>0, <3>1, <3>2
    <3> QED
      BY <2>1, <3>1, <3>3, <3>4
  <2> QED
    BY <2>2, <2>3, <2>4 DEF Receive, Step
<1>4. TypeOK'
  <2>1. cookie' \in [Dev -> Cookie]
    <3>1. r.cookie \in Cookie
      BY <1>1, ReplyFields
    <3> QED
      BY <1>2, <3>1 DEF Core, TypeOK
  <2>2. /\ next' \in [Dev -> Step] /\ credentials' \in [Dev -> Credential]
        /\ login' \in [Dev -> Credential] /\ executed' \in [Dev -> Seq(Message)]
    BY <1>3 DEF Core, TypeOK
  <2>3. wire' \in [Dev -> {<<>>} \cup {<<x>> : x \in ReplyOver(Message)}]
    BY <1>2 DEF Core, TypeOK
  <2> QED
    BY <1>2, <2>1, <2>2, <2>3, SameSetting DEF serverVars, Core, TypeOK
<1>5. ~ InTheWorks(d) /\ \A rq \in inbox : rq.live => rq.dev # d
  BY DEF Receive, Core, Outstanding, AsSent, InTheWorks
<1>6. \A e \in Dev \ {d} : /\ next'[e] = next[e] /\ cookie'[e] = cookie[e]
                           /\ login'[e] = login[e] /\ wire'[e] = wire[e]
  BY <1>2, <1>3 DEF Core, TypeOK
<1>7. wire'[d] = <<>>
  BY <1>2 DEF Core, TypeOK
<1>8. Outstanding'
  <2>1. \A e \in waiting' : e \in waiting /\ e # d
    BY <1>2
  <2>2. (\A e \in waiting : next[e] # "idle")' /\ (\A e \in Dev : wire[e] # <<>> => e \in waiting)'
    BY <1>2, <1>6, <1>7, <2>1 DEF Core, TypeOK, Outstanding
  <2>3. ASSUME NEW rq \in RequestType, rq.dev # d, AsSent(rq) PROVE AsSent(rq)'
    <3>1. rq.dev \in Dev \ {d}
      BY <2>3 DEF RequestType
    <3> QED
      BY <1>2, <1>6, <2>3, <3>1 DEF AsSent
  <2>4. ASSUME NEW rq \in inbox', rq.live PROVE AsSent(rq)' /\ ~ InTheWorks(rq.dev)'
    BY <1>2, <1>5, <2>3, <2>4 DEF Core, TypeOK, Outstanding, serverVars, InTheWorks
  <2>5. ASSUME NEW e \in Dev, InTheWorks(e)' PROVE AsSent(current)'
    <3>1. InTheWorks(e) /\ current' = current /\ current \in RequestType /\ current.dev = e
      BY <1>2, <2>5 DEF Core, TypeOK, serverVars, InTheWorks
    <3>2. current.dev # d /\ AsSent(current)
      BY <1>5, <3>1 DEF Core, Outstanding
    <3>3. AsSent(current)'
      BY <1>2, <1>6, <3>1, <3>2, SMTT(30), ZenonT(40) DEF AsSent
    <3> QED
      BY <3>1, <3>3
  <2> QED
    BY <2>2, <2>4, <2>5 DEF Outstanding
<1>9. Fetching'
  BY <1>2 DEF serverVars, Core, Fetching, Wanted
<1> QED
  BY <1>4, <1>8, <1>9 DEF Core

(* GiveUp: the requests of the device are live no more. *)
LEMMA GiveUpCore ==
  ASSUME Core, UNCHANGED setting, NEW d \in Dev, GiveUp(d)
  PROVE  Core'
<1>1. /\ waiting' = waiting \ {d} /\ next' = [next EXCEPT ![d] = "idle"]
      /\ wire' = [wire EXCEPT ![d] = <<>>]
      /\ inbox' = {Disown(d, rq) : rq \in inbox}
      /\ current' = IF stage = "idle" THEN current ELSE Disown(d, current)
      /\ UNCHANGED <<setting, cookie, credentials, login, stage, fetched, failed, told,
                     queue, published, executed>>
  BY DEF GiveUp
<1>2. /\ \A rq \in inbox' : rq \in RequestType /\ (rq.live => rq \in inbox /\ rq.dev # d)
      /\ stage # "idle" =>
           /\ current \in RequestType /\ current' \in RequestType
           /\ current'.dev = current.dev
           /\ current'.live => current.live /\ current' = current /\ current.dev # d
           /\ View(current') = View(current) /\ TagOf(current') = TagOf(current)
  BY <1>1, DisownedRequest DEF Core, TypeOK
<1>3. /\ next'[d] = "idle" /\ wire'[d] = <<>>
      /\ \A e \in Dev \ {d} : next'[e] = next[e] /\ wire'[e] = wire[e]
      /\ \A e \in waiting \ {d} : e \in waiting'
  BY <1>1 DEF Core, TypeOK
<1>4. TypeOK'
  <2>1. /\ next' \in [Dev -> Step]
        /\ wire' \in [Dev -> {<<>>} \cup {<<r>> : r \in ReplyOver(Message)}]
    BY <1>1 DEF Core, TypeOK, Step
  <2>2. inbox' \in SUBSET RequestType /\ (stage' # "idle" => current' \in RequestType)
    BY <1>1, <1>2
  <2> QED
    BY <1>1, <2>1, <2>2, SameSetting DEF Core, TypeOK
<1>5. ASSUME NEW rq \in RequestType, AsSent(rq), rq.dev # d PROVE AsSent(rq)'
  <2>1. rq.dev \in Dev \ {d} /\ rq.dev \in waiting \ {d}
    BY <1>5 DEF RequestType, AsSent
  <2> QED
    BY <1>1, <1>3, <1>5, <2>1 DEF AsSent
<1>6. Outstanding'
  <2>1. (\A e \in waiting : next[e] # "idle")' /\ (\A e \in Dev : wire[e] # <<>> => e \in waiting)'
    BY <1>1, <1>3 DEF Core, TypeOK, Outstanding
  <2>2. ASSUME NEW rq \in inbox', rq.live PROVE AsSent(rq)' /\ ~ InTheWorks(rq.dev)'
    <3>1. rq \in RequestType /\ rq \in inbox /\ rq.dev # d /\ AsSent(rq) /\ ~ InTheWorks(rq.dev)
      BY <1>2, <2>2 DEF Core, Outstanding
    <3>2. ~ InTheWorks(rq.dev)'
      BY <1>1, <1>2, <3>1 DEF InTheWorks
    <3> QED
      BY <1>5, <3>1, <3>2
  <2>3. ASSUME NEW e \in Dev, InTheWorks(e)' PROVE AsSent(current)'
    <3>1. /\ InTheWorks(e) /\ current' = current /\ current.dev # d
          /\ current \in RequestType /\ AsSent(current)
      BY <1>1, <1>2, <2>3 DEF InTheWorks, Core, Outstanding
    <3>2. /\ current.dev \in waiting' /\ next'[current.dev] = next[current.dev]
          /\ wire'[current.dev] = wire[current.dev]
      BY <1>3, <3>1 DEF AsSent, RequestType
    <3> QED
      BY <1>1, <3>1, <3>2 DEF AsSent
  <2> QED
    BY <2>1, <2>2, <2>3 DEF Outstanding
<1>7. Fetching'
  BY <1>1, <1>2 DEF Core, Fetching, Wanted
<1> QED
  BY <1>4, <1>6, <1>7 DEF Core

(* Take: one request of a device is live at a time, so none is left behind. *)
LEMMA TakeCore ==
  ASSUME Core, UNCHANGED setting, NEW d \in Dev, Take(d)
  PROVE  Core'
<1>1. PICK rq \in inbox : rq.dev = d /\ inbox' = inbox \ {rq} /\ current' = rq
  BY DEF Take
<1>2. /\ stage = "idle" /\ stage' = "notify" /\ rq \in RequestType
      /\ UNCHANGED <<setting, next, cookie, credentials, login, waiting, fetched, failed,
                     wire, told, queue, published, executed>>
  BY DEF Take, deviceVars, Core, TypeOK
<1>3. TypeOK'
  BY <1>1, <1>2, SameSetting DEF Core, TypeOK
<1>4. \A other \in inbox \ {rq} : rq.live /\ other.live => other.dev # rq.dev
  <2> SUFFICES ASSUME NEW other \in inbox, rq.live, other.live, other.dev = rq.dev
               PROVE  other = rq
    OBVIOUS
  <2>1. AsSent(rq) /\ AsSent(other) /\ other \in RequestType
    BY DEF Core, TypeOK, Outstanding
  <2>2. other.doc = rq.doc /\ other.cookie = rq.cookie /\ other.credentials = rq.credentials
        /\ other.live = rq.live
    BY <1>2, <2>1 DEF AsSent, RequestType
  <2> QED
    BY <1>2, <2>1, <2>2 DEF RequestType
<1>5. Outstanding'
  BY <1>1, <1>2, <1>4 DEF Core, TypeOK, Outstanding, AsSent, InTheWorks
<1>6. Fetching'
  BY <1>1, <1>2 DEF Core, Fetching
<1> QED
  BY <1>3, <1>5, <1>6 DEF Core

(* Drop leaves everything else alone. *)
LEMMA DropCore ==
  ASSUME Core, UNCHANGED setting, NEW rq \in inbox, Drop(rq)
  PROVE  Core'
<1>1. /\ inbox' = inbox \ {rq}
      /\ UNCHANGED <<setting, next, cookie, credentials, login, waiting, stage, current,
                     fetched, failed, wire, told, queue, published, executed>>
  BY DEF Drop, deviceVars, serverVars
<1>2. TypeOK'
  BY <1>1, SameSetting DEF Core, TypeOK
<1>3. Outstanding' /\ Fetching'
  BY <1>1 DEF Core, Outstanding, AsSent, InTheWorks, Fetching, Wanted
<1> QED
  BY <1>2, <1>3 DEF Core

(* The backend and the broker touch the queues only. *)
LEMMA BrokerCore ==
  ASSUME Core, UNCHANGED setting,
         \/ \E d \in Dev, m \in Message : Publish(d, m)
         \/ \E q \in Queues : Expire(q)
  PROVE  Core'
<1>1. UNCHANGED <<setting, next, cookie, credentials, login, waiting, inbox, stage, current,
                  fetched, failed, wire, told, executed>>
  BY DEF Publish, Expire, deviceVars, serverVars
<1>2. queue' \in [Queues -> Seq(Message)] /\ published' \in SUBSET (Dev \X Message)
  <2>1. ASSUME NEW d \in Dev, NEW m \in Message, Publish(d, m)
        PROVE  queue' \in [Queues -> Seq(Message)] /\ published' \in SUBSET (Dev \X Message)
    <3>1. QueueOf[d] \in Queues
      BY QueueNames
    <3>2. Append(queue[QueueOf[d]], m) \in Seq(Message)
      BY <3>1 DEF Core, TypeOK
    <3> QED
      BY <2>1, <3>1, <3>2 DEF Publish, Core, TypeOK
  <2>2. ASSUME NEW q \in Queues, Expire(q)
        PROVE  queue' \in [Queues -> Seq(Message)] /\ published' \in SUBSET (Dev \X Message)
    <3>1. <<>> \in Seq(Message)
      OBVIOUS
    <3> QED
      BY <2>2, <3>1 DEF Expire, Core, TypeOK
  <2> QED
    BY <2>1, <2>2
<1>3. TypeOK'
  BY <1>1, <1>2, SameSetting DEF Core, TypeOK
<1>4. Outstanding' /\ Fetching'
  BY <1>1 DEF Core, Outstanding, AsSent, InTheWorks, Fetching, Wanted
<1> QED
  BY <1>3, <1>4 DEF Core

(* send_response up to the reply: it fetches for a request that wants it. *)
LEMMA WorkCore ==
  ASSUME Core, UNCHANGED setting,
         Notify \/ FetchFails \/ FetchEmpty \/ FetchGets \/ Transfer
  PROVE  Core'
<1>1. /\ UNCHANGED <<setting, next, cookie, credentials, login, waiting, inbox, current,
                     wire, published, executed>>
      /\ stage # "idle" /\ stage' \in {"fetch", "transfer", "reply"}
  BY DEF Notify, FetchFails, FetchEmpty, FetchGets, Transfer, deviceVars
<1>2. current \in RequestType /\ current.dev \in Dev
  BY <1>1 DEF Core, TypeOK, RequestType
<1>3. told' \in SUBSET Dev
  BY <1>2 DEF Notify, FetchFails, FetchEmpty, FetchGets, Transfer, Core, TypeOK
<1>4. /\ failed' \in BOOLEAN /\ queue' \in [Queues -> Seq(Message)]
      /\ fetched' \in {<<>>} \cup {<<m>> : m \in Message}
  <2>1. CASE FetchGets
    <3> DEFINE q == QueueOf[current.dev]
    <3>1. q \in Queues /\ queue[q] \in Seq(Message) /\ queue[q] # <<>>
      BY <1>2, <2>1, QueueNames DEF FetchGets, QueueRead, Core, TypeOK
    <3>2. Head(queue[q]) \in Message /\ Tail(queue[q]) \in Seq(Message)
      BY <3>1, HeadTailProperties
    <3>3. /\ fetched' = <<Head(queue[q])>> /\ failed' = failed
          /\ queue' = [queue EXCEPT ![q] = Tail(queue[q])]
      BY <2>1 DEF FetchGets, QueueRead, AfterGet
    <3> QED
      BY <3>1, <3>2, <3>3 DEF Core, TypeOK
  <2>2. CASE Notify \/ FetchFails \/ FetchEmpty \/ Transfer
    BY <2>2 DEF Notify, FetchFails, FetchEmpty, Transfer, Core, TypeOK
  <2> QED
    BY <2>1, <2>2
<1>5. TypeOK'
  BY <1>1, <1>2, <1>3, <1>4, SameSetting DEF Core, TypeOK
<1>6. Outstanding'
  BY <1>1 DEF Core, Outstanding, AsSent, InTheWorks
<1>7. Fetching'
  <2>1. Wanted' = Wanted
    BY <1>1 DEF Wanted
  <2>2. CASE Notify
    BY <1>1, <2>1, <2>2 DEF Notify, Core, Fetching, Wanted
  <2>3. CASE FetchFails
    BY <1>1, <2>1, <2>3 DEF FetchFails, Core, Fetching
  <2>4. CASE FetchEmpty
    BY <1>1, <2>1, <2>4 DEF FetchEmpty, Core, Fetching
  <2>5. CASE FetchGets
    BY <1>1, <2>1, <2>5 DEF FetchGets, Core, Fetching
  <2>6. CASE Transfer
    BY <1>1, <2>1, <2>6 DEF Transfer, Core, Fetching
  <2> QED
    BY <2>2, <2>3, <2>4, <2>5, <2>6
<1> QED
  BY <1>5, <1>6, <1>7 DEF Core

(* Answer: the reply is the only thing that the device has outstanding. *)
LEMMA AnswerCore ==
  ASSUME Core, UNCHANGED setting, Answer
  PROVE  Core'
<1> DEFINE reply == NotifiedReply(View(current), TagOf(current), failed, fetched)
<1>1. /\ stage = "reply" /\ stage' = "idle" /\ fetched' = <<>> /\ failed' = FALSE
      /\ wire' = IF current.live THEN [wire EXCEPT ![current.dev] = <<reply>>] ELSE wire
      /\ UNCHANGED <<setting, next, cookie, credentials, login, waiting, inbox, told, queue,
                     published, executed>>
  BY DEF Answer, deviceVars
<1>2. current \in RequestType /\ current.dev \in Dev
  BY <1>1 DEF Core, TypeOK, RequestType
<1>3. reply \in ReplyOver(Message)
  BY NotifiedReplyType DEF Core, TypeOK
<1> HIDE DEF reply
<1>4. TypeOK'
  <2>1. wire' \in [Dev -> {<<>>} \cup {<<r>> : r \in ReplyOver(Message)}]
    BY <1>1, <1>2, <1>3 DEF Core, TypeOK
  <2> QED
    BY <1>1, <2>1, SameSetting DEF Core, TypeOK
<1>5. \A e \in Dev : wire'[e] = wire[e] \/ (current.live /\ e = current.dev)
  BY <1>1, <1>2 DEF Core, TypeOK
<1>6. current.live => InTheWorks(current.dev) /\ current.dev \in waiting
  BY <1>1, <1>2 DEF Core, Outstanding, AsSent, InTheWorks
<1>7. Outstanding'
  <2>1. ASSUME NEW rq \in inbox, rq.live PROVE AsSent(rq)'
    <3>1. rq.dev \in Dev /\ AsSent(rq) /\ ~ InTheWorks(rq.dev)
      BY <2>1 DEF Core, TypeOK, Outstanding, RequestType
    <3> QED
      BY <1>1, <1>5, <1>6, <3>1 DEF AsSent
  <2> QED
    BY <1>1, <1>5, <1>6, <2>1 DEF Core, Outstanding, InTheWorks
<1>8. Fetching'
  BY <1>1 DEF Fetching
<1> QED
  BY <1>4, <1>7, <1>8 DEF Core

(* Crash: the devices whose requests go down with the ACS wait no more. *)
LEMMA CrashCore ==
  ASSUME Core, UNCHANGED setting, Crash
  PROVE  Core'
<1> DEFINE cut == {d \in Dev : Pending(d)}
<1>1. /\ waiting' = waiting \ cut
      /\ next' = [d \in Dev |-> IF d \in cut THEN "idle" ELSE next[d]]
      /\ inbox' = {} /\ stage' = "idle" /\ fetched' = <<>> /\ failed' = FALSE
      /\ UNCHANGED <<setting, cookie, credentials, login, wire, told, queue, published,
                     executed>>
  BY DEF Crash
<1>2. \A d \in cut : d \in Dev /\ wire[d] = <<>>
  BY DEF Pending, Core, Outstanding, AsSent, InTheWorks
<1> HIDE DEF cut
<1>3. TypeOK'
  <2>1. next' \in [Dev -> Step]
    BY <1>1 DEF Core, TypeOK, Step
  <2> QED
    BY <1>1, <2>1, SameSetting DEF Core, TypeOK
<1>4. Outstanding'
  BY <1>1, <1>2 DEF Core, TypeOK, Outstanding, InTheWorks
<1>5. Fetching'
  BY <1>1 DEF Fetching
<1> QED
  BY <1>3, <1>4, <1>5 DEF Core

(* The core of the invariant, whatever step is taken. *)
LEMMA StepCore == Core /\ [Next]_vars => Core'
<1> SUFFICES ASSUME Core, [Next]_vars PROVE Core'
  OBVIOUS
<1>1. CASE UNCHANGED vars
  <2>1. UNCHANGED <<setting, next, cookie, credentials, login, waiting, inbox, stage, current,
                    fetched, failed, wire, told, queue, published, executed>>
    BY <1>1 DEF vars, sessionVars, deviceVars, serverVars
  <2>2. TypeOK'
    BY <2>1, SameSetting DEF Core, TypeOK
  <2>3. Outstanding' /\ Fetching'
    BY <2>1 DEF Core, Outstanding, AsSent, InTheWorks, Fetching, Wanted
  <2> QED
    BY <2>2, <2>3 DEF Core
<1>2. CASE Next
  <2>1. UNCHANGED setting
    BY <1>2 DEF Next
  <2>2. CASE \E d \in Dev : Begin(d)
    BY <2>1, <2>2, BeginCore
  <2>3. CASE \E d \in Dev : Send(d)
    BY <2>1, <2>3, SendCore
  <2>4. CASE \E d \in Dev : Receive(d)
    BY <2>1, <2>4, ReceiveCore
  <2>5. CASE \E d \in Dev : GiveUp(d)
    BY <2>1, <2>5, GiveUpCore
  <2>6. CASE \E d \in Dev : Take(d)
    BY <2>1, <2>6, TakeCore
  <2>7. CASE \E rq \in inbox : Drop(rq)
    BY <2>1, <2>7, DropCore
  <2>8. CASE \/ \E d \in Dev, m \in Message : Publish(d, m)
             \/ \E q \in Queues : Expire(q)
    BY <2>1, <2>8, BrokerCore
  <2>9. CASE Notify \/ FetchFails \/ FetchEmpty \/ FetchGets \/ Transfer
    BY <2>1, <2>9, WorkCore
  <2>10. CASE Answer
    BY <2>1, <2>10, AnswerCore
  <2>11. CASE Crash
    BY <2>1, <2>11, CrashCore
  <2> QED
    BY <1>2, <2>2, <2>3, <2>4, <2>5, <2>6, <2>7, <2>8, <2>9, <2>10, <2>11
       DEF Next, ServerStep
<1> QED
  BY <1>1, <1>2

(***************************************************************************)
(* Whatever fails and whoever gives up: every request, reply and message   *)
(* keeps to its type, a device has one request outstanding, and a message  *)
(* is fetched only for a request that wants one (Core).                    *)
(***************************************************************************)
THEOREM CoreHolds == Spec => []Core
<1>1. Init => Core
  BY InitCore
<1>2. Core /\ [Next]_vars => Core'
  BY StepCore
<1> QED
  BY <1>1, <1>2, PTL DEF Spec

(***************************************************************************)
(* The variables of AcsSession keep to their types.                        *)
(***************************************************************************)
THEOREM TypeCorrect == Spec => []TypeOK
<1>1. Core => TypeOK
  BY DEF Core
<1> QED
  BY CoreHolds, <1>1, PTL

-----------------------------------------------------------------------------
(* Steps that lose messages and move none. *)
LEMMA LosingIsSafe ==
  ASSUME OneSpot, UNCHANGED <<setting, executed, published>>,
         fetched' = fetched \/ fetched' = <<>>,
         \A q \in Queues : queue'[q] = queue[q] \/ queue'[q] = <<>>,
         \A d \in Dev : wire'[d] = wire[d] \/ wire'[d] = <<>>
  PROVE  OneSpot'
<1>1. Queues' = Queues
  BY SameSetting
<1>2. \A m : InAcs(m)' => InAcs(m)
  BY DEF InAcs
<1>3. \A m : \A q \in Queues : \A i : InQueue(m, q, i)' => InQueue(m, q, i)
  BY DEF InQueue
<1>4. \A m : \A d \in Dev : ToDevice(m, d)' => ToDevice(m, d)
  BY DEF ToDevice
<1>5. \A m, d, i : DoneBy(m, d, i)' => DoneBy(m, d, i)
  BY DEF DoneBy
<1>6. /\ \A m, q, i : InQueue(m, q, i) => i \in DOMAIN queue[q]
      /\ \A m, d, i : DoneBy(m, d, i) => i \in DOMAIN executed[d]
  BY DEF InQueue, DoneBy
<1>7. PublishedFirst'
  BY <1>1, <1>2, <1>3, <1>4, <1>5, <1>6 DEF OneSpot, PublishedFirst, Somewhere
<1>8. OnceInQueue' /\ OnceOnWire' /\ OnceDone'
  BY <1>1, <1>3, <1>4, <1>5, <1>6 DEF OneSpot, OnceInQueue, OnceOnWire, OnceDone
<1>9. Apart'
  BY <1>1, <1>2, <1>3, <1>4, <1>5, <1>6 DEF OneSpot, Apart
<1> QED
  BY <1>7, <1>8, <1>9 DEF OneSpot

(* What makes up a place, for any parameters. *)
LEMMA PlaceBounds ==
  /\ \A m, q, i : InQueue(m, q, i) => i \in DOMAIN queue[q]
  /\ \A m, d, i : DoneBy(m, d, i) => i \in DOMAIN executed[d]
BY DEF InQueue, DoneBy

(* Publish queues a message that is nowhere yet. *)
LEMMA PublishOnce ==
  ASSUME Core, OneSpot, UNCHANGED setting, NEW d \in Dev, NEW m \in Message, Publish(d, m)
  PROVE  OneSpot'
<1> DEFINE Q == QueueOf[d]
           L == Len(queue[Q]) + 1
<1>1. /\ Queues' = Queues /\ Q \in Queues /\ queue[Q] \in Seq(Message)
      /\ queue \in [Queues -> Seq(Message)]
  BY SameSetting, QueueNames DEF Core, TypeOK
<1>2. /\ UNCHANGED <<fetched, wire, executed>> /\ published' = published \cup {<<d, m>>}
      /\ queue' = [queue EXCEPT ![Q] = Append(queue[Q], m)]
      /\ \A e \in Dev : <<e, m>> \notin published
  BY <1>1 DEF Publish, serverVars
<1>3. ~ Somewhere(m)
  BY <1>2 DEF OneSpot, PublishedFirst
<1>4. /\ DOMAIN queue'[Q] = DOMAIN queue[Q] \cup {L}
      /\ \A i \in DOMAIN queue[Q] : queue'[Q][i] = queue[Q][i]
      /\ queue'[Q][L] = m
  BY <1>1, <1>2
<1>5. \A q \in Queues \ {Q} : queue'[q] = queue[q]
  BY <1>1, <1>2
<1> HIDE DEF Q, L
<1>6. \A n : \A q \in Queues : \A i :
        InQueue(n, q, i)' => InQueue(n, q, i) \/ (n = m /\ q = Q /\ i = L)
  BY <1>4, <1>5 DEF InQueue
<1>7. /\ \A n : InAcs(n)' = InAcs(n)
      /\ \A n, e : ToDevice(n, e)' = ToDevice(n, e)
      /\ \A n, e, i : DoneBy(n, e, i)' = DoneBy(n, e, i)
      /\ executed' = executed
  BY <1>2 DEF InAcs, ToDevice, DoneBy
<1>8. /\ ~ InAcs(m) /\ (\A q \in Queues : \A i : ~ InQueue(m, q, i))
      /\ (\A e \in Dev : ~ ToDevice(m, e)) /\ (\A e \in Dev : \A i : ~ DoneBy(m, e, i))
  BY <1>3, PlaceBounds DEF Somewhere
<1>9. PublishedFirst'
  BY <1>1, <1>2, <1>6, <1>7, PlaceBounds DEF OneSpot, PublishedFirst, Somewhere
<1>10. OnceInQueue'
  BY <1>1, <1>6, <1>8, PlaceBounds DEF OneSpot, OnceInQueue
<1>11. OnceOnWire' /\ OnceDone'
  BY <1>7 DEF OneSpot, OnceOnWire, OnceDone
<1>12. Apart'
  BY <1>1, <1>6, <1>7, <1>8, PlaceBounds DEF OneSpot, Apart
<1> QED
  BY <1>9, <1>10, <1>11, <1>12 DEF OneSpot

(* What FetchGets moves: the head of a queue, into an ACS that holds nothing. *)
LEMMA FetchMoves ==
  ASSUME Core, UNCHANGED setting, FetchGets
  PROVE  /\ fetched = <<>> /\ current.dev \in Dev
         /\ UNCHANGED <<setting, current, wire, executed, published>>
         /\ \E Q \in Queues : \E h \in Message :
              /\ Q = QueueOf[current.dev] /\ InQueue(h, Q, 1)
              /\ \A n : InAcs(n)' <=> n = h
              /\ \A n, i : InQueue(n, Q, i)' => i \in Nat \ {0} /\ InQueue(n, Q, i + 1)
              /\ \A n : \A q \in Queues \ {Q} : \A i : InQueue(n, q, i)' => InQueue(n, q, i)
<1>0. PICK Q, h : Q = QueueOf[current.dev] /\ h = Head(queue[Q])
  OBVIOUS
<1>1. /\ current.dev \in Dev /\ Q \in Queues
      /\ queue[Q] \in Seq(Message) /\ queue[Q] # <<>>
      /\ queue \in [Queues -> Seq(Message)] /\ fetched = <<>>
  BY <1>0, QueueNames DEF FetchGets, QueueRead, Core, TypeOK, RequestType, Fetching
<1>2. /\ UNCHANGED <<current, wire, executed, published>> /\ fetched' = <<h>>
      /\ queue' = [queue EXCEPT ![Q] = Tail(queue[Q])]
  BY <1>0, <1>1 DEF FetchGets, QueueRead, AfterGet
<1>3. /\ h = queue[Q][1] /\ 1 \in DOMAIN queue[Q] /\ h \in Message
      /\ Tail(queue[Q]) \in Seq(Message)
      /\ \A i \in DOMAIN Tail(queue[Q]) : /\ i \in Nat \ {0} /\ i + 1 \in DOMAIN queue[Q]
                                          /\ Tail(queue[Q])[i] = queue[Q][i + 1]
  BY <1>0, <1>1, HeadTailProperties
<1>4. queue'[Q] = Tail(queue[Q]) /\ \A q \in Queues \ {Q} : queue'[q] = queue[q]
  BY <1>1, <1>2
<1>5. \A n : InAcs(n)' <=> n = h
  BY <1>2 DEF InAcs
<1>6. InQueue(h, Q, 1)
  BY <1>3 DEF InQueue
<1>7. \A n, i : InQueue(n, Q, i)' => i \in Nat \ {0} /\ InQueue(n, Q, i + 1)
  BY <1>3, <1>4 DEF InQueue
<1>8. \A n : \A q \in Queues \ {Q} : \A i : InQueue(n, q, i)' => InQueue(n, q, i)
  BY <1>4 DEF InQueue
<1> QED
  BY <1>0, <1>1, <1>2, <1>3, <1>5, <1>6, <1>7, <1>8

(* A message that is fetched is in no queue any more. *)
LEMMA FetchOnce ==
  ASSUME Core, OneSpot, UNCHANGED setting, FetchGets
  PROVE  OneSpot'
<1>1. /\ Queues' = Queues /\ ~ \E n : InAcs(n)
      /\ UNCHANGED <<wire, executed, published>>
  BY SameSetting, FetchMoves DEF InAcs
<1>2. PICK Q \in Queues, h \in Message :
              /\ InQueue(h, Q, 1)
              /\ \A n : InAcs(n)' <=> n = h
              /\ \A n, i : InQueue(n, Q, i)' => i \in Nat \ {0} /\ InQueue(n, Q, i + 1)
              /\ \A n : \A q \in Queues \ {Q} : \A i : InQueue(n, q, i)' => InQueue(n, q, i)
  BY FetchMoves
<1>3. /\ \A n, e : ToDevice(n, e)' = ToDevice(n, e)
      /\ \A n, e, i : DoneBy(n, e, i)' = DoneBy(n, e, i)
  BY <1>1 DEF ToDevice, DoneBy
<1>4. \A q \in Queues : \A i : ~ InQueue(h, q, i)'
  <2> SUFFICES ASSUME NEW q \in Queues, NEW i, InQueue(h, q, i)' PROVE FALSE
    OBVIOUS
  <2>1. \E j : InQueue(h, q, j) /\ ~ (q = Q /\ j = 1)
    <3>1. CASE q = Q
      <4>1. i + 1 # 1 /\ InQueue(h, Q, i + 1)
        BY <1>2, <3>1
      <4> QED
        BY <3>1, <4>1
    <3>2. CASE q # Q
      BY <1>2, <3>2
    <3> QED
      BY <3>1, <3>2
  <2> QED
    BY <1>2, <2>1, PlaceBounds DEF OneSpot, OnceInQueue
<1>5. \A n : \A q \in Queues : \A i : InQueue(n, q, i)' => \E j : InQueue(n, q, j)
  BY <1>2
<1>6. PublishedFirst'
  BY <1>1, <1>2, <1>3, <1>5, PlaceBounds DEF OneSpot, PublishedFirst, Somewhere
<1>7. OnceInQueue'
  <2> SUFFICES ASSUME NEW n \in Message, NEW q \in Queues, NEW r \in Queues, NEW i, NEW j,
                      InQueue(n, q, i)', InQueue(n, r, j)'
               PROVE  q = r /\ i = j
    BY <1>1 DEF OnceInQueue
  <2>1. CASE q = Q /\ r = Q
    <3>1. i \in Nat /\ j \in Nat /\ InQueue(n, Q, i + 1) /\ InQueue(n, Q, j + 1)
      BY <1>2, <2>1
    <3>2. i + 1 = j + 1
      BY <3>1, PlaceBounds DEF OneSpot, OnceInQueue
    <3> QED
      BY <2>1, <3>1, <3>2
  <2>2. CASE q = Q /\ r # Q
    BY <1>2, <2>2, PlaceBounds DEF OneSpot, OnceInQueue
  <2>3. CASE q # Q /\ r = Q
    BY <1>2, <2>3, PlaceBounds DEF OneSpot, OnceInQueue
  <2>4. CASE q # Q /\ r # Q
    BY <1>2, <2>4, PlaceBounds DEF OneSpot, OnceInQueue
  <2> QED
    BY <2>1, <2>2, <2>3, <2>4
<1>8. OnceOnWire' /\ OnceDone'
  BY <1>1, <1>3 DEF OneSpot, OnceOnWire, OnceDone
<1>9. Apart'
  BY <1>1, <1>2, <1>3, <1>4, <1>5, PlaceBounds DEF OneSpot, Apart
<1> QED
  BY <1>6, <1>7, <1>8, <1>9 DEF OneSpot

(* A reply that names a message is made from that message. *)
LEMMA ReplyToMessage ==
  \A r, t, got : \A f \in BOOLEAN, m \in Message :
    /\ got # <<>> => got[1] \in Message
    /\ NotifiedReply(r, t, f, got).entity = m.id
    => /\ got # <<>> /\ got[1] = m /\ ~ f /\ m.form = "operation"
       /\ ~ IsInform(t) /\ ~ IsUnprovisioned(r) /\ AsksForWork(r, t)
<1> SUFFICES ASSUME NEW r, NEW t, NEW got, NEW f \in BOOLEAN, NEW m \in Message,
                    got # <<>> => got[1] \in Message,
                    NotifiedReply(r, t, f, got).entity = m.id
             PROVE  /\ got # <<>> /\ got[1] = m /\ ~ f /\ m.form = "operation"
                    /\ ~ IsInform(t) /\ ~ IsUnprovisioned(r) /\ AsksForWork(r, t)
  OBVIOUS
<1>1. /\ InformResponse.entity = "InformResponse"
      /\ InitialProvisioning.entity = "InitialProvisioning"
      /\ NoContent.entity = "nothing" /\ InternalServerError.entity = "nothing"
  BY DEF InformResponse, InitialProvisioning, NoContent, InternalServerError, Reply
<1>2. /\ NotifiedReply(r, t, f, got) = FetchReply(f, got)
      /\ ~ IsInform(t) /\ ~ IsUnprovisioned(r) /\ AsksForWork(r, t)
  BY <1>1, MessageFields DEF NotifiedReply
<1>3. FetchReply(f, got).entity # "nothing"
  BY <1>2, MessageFields
<1>4. /\ got # <<>> /\ ~ f /\ got[1].form = "operation"
      /\ FetchReply(f, got) = Reply(200, got[1].cookie, got[1].id)
  BY <1>1, <1>3 DEF FetchReply
<1>5. got[1] \in Message /\ got[1].id = m.id
  BY <1>2, <1>4 DEF Reply
<1> QED
  BY <1>2, <1>4, <1>5, MessageFields

(* What Answer moves: the message that the ACS holds, to the device it is for. *)
LEMMA AnswerMoves ==
  ASSUME Core, UNCHANGED setting, Answer
  PROVE  /\ fetched' = <<>> /\ UNCHANGED <<setting, queue, published, executed>>
         /\ \A m \in Message, d \in Dev :
               ToDevice(m, d)' => ToDevice(m, d) \/ (InAcs(m) /\ d = current.dev)
<1> DEFINE reply == NotifiedReply(View(current), TagOf(current), failed, fetched)
<1>1. /\ fetched' = <<>> /\ UNCHANGED <<setting, queue, published, executed>>
      /\ wire' = IF current.live THEN [wire EXCEPT ![current.dev] = <<reply>>] ELSE wire
      /\ wire \in [Dev -> {<<>>} \cup {<<x>> : x \in ReplyOver(Message)}]
  BY DEF Answer, Core, TypeOK
<1>2. \A m \in Message : reply.entity = m.id => InAcs(m)
  <2> SUFFICES ASSUME NEW m \in Message, reply.entity = m.id PROVE InAcs(m)
    OBVIOUS
  <2>1. failed \in BOOLEAN /\ (fetched # <<>> => fetched[1] \in Message)
    BY DEF Core, TypeOK
  <2>2. NotifiedReply(View(current), TagOf(current), failed, fetched).entity = m.id
    OBVIOUS
  <2>3. fetched # <<>> /\ fetched[1] = m
    BY <2>1, <2>2, ReplyToMessage
  <2> QED
    BY <2>3 DEF InAcs
<1>3. ASSUME NEW m \in Message, NEW d \in Dev, ToDevice(m, d)', ~ ToDevice(m, d)
      PROVE  InAcs(m) /\ d = current.dev
  <2>1. d = current.dev /\ wire'[d] = <<reply>>
    BY <1>1, <1>3 DEF ToDevice
  <2>2. reply.entity = m.id
    BY <1>3, <2>1 DEF ToDevice
  <2> QED
    BY <1>2, <2>1, <2>2
<1> QED
  BY <1>1, <1>3

(* A message that is on its way to a device is held no longer. *)
LEMMA AnswerOnce ==
  ASSUME Core, OneSpot, UNCHANGED setting, Answer
  PROVE  OneSpot'
<1>1. /\ Queues' = Queues /\ fetched' = <<>> /\ UNCHANGED <<queue, published, executed>>
  BY SameSetting, AnswerMoves
<1>2. \A m \in Message, d \in Dev :
        ToDevice(m, d)' => ToDevice(m, d) \/ (InAcs(m) /\ d = current.dev)
  BY AnswerMoves
<1>3. /\ ~ \E n : InAcs(n)'
      /\ \A n, q, i : InQueue(n, q, i)' = InQueue(n, q, i)
      /\ \A n, e, i : DoneBy(n, e, i)' = DoneBy(n, e, i)
  BY <1>1 DEF InAcs, InQueue, DoneBy
<1>4. PublishedFirst'
  BY <1>1, <1>2, <1>3, PlaceBounds DEF OneSpot, PublishedFirst, Somewhere
<1>5. OnceInQueue' /\ OnceDone'
  BY <1>1, <1>3, PlaceBounds DEF OneSpot, OnceInQueue, OnceDone
<1>6. OnceOnWire'
  BY <1>2 DEF OneSpot, OnceOnWire, Apart
<1>7. Apart'
  BY <1>1, <1>2, <1>3, PlaceBounds DEF OneSpot, Apart
<1> QED
  BY <1>4, <1>5, <1>6, <1>7 DEF OneSpot

(* Receive: what the device carries out is no longer on its way to it. *)
LEMMA ReceiveOnce ==
  ASSUME Core, OneSpot, UNCHANGED setting, NEW d \in Dev, Receive(d)
  PROVE  OneSpot'
<1>1. /\ wire' = [wire EXCEPT ![d] = <<>>] /\ UNCHANGED <<setting, fetched, queue, published>>
      /\ wire[d] # <<>>
  BY DEF Receive, serverVars
<1>2. \A e \in Dev : wire'[e] = wire[e] \/ wire'[e] = <<>>
  BY <1>1 DEF Core, TypeOK
<1>3. CASE UNCHANGED executed
  BY <1>1, <1>2, <1>3, LosingIsSafe
<1>4. CASE \E m \in MessageIn(wire[d][1]) : executed' = [executed EXCEPT ![d] = Append(@, m)]
  <2>1. PICK m \in MessageIn(wire[d][1]) :
               executed' = [executed EXCEPT ![d] = Append(@, m)]
    BY <1>4
  <2>2. PICK L : L = Len(executed[d]) + 1
    OBVIOUS
  <2>3. m \in Message /\ ToDevice(m, d)
    BY <1>1, <2>1 DEF MessageIn, ToDevice
  <2>4. /\ DOMAIN executed'[d] = DOMAIN executed[d] \cup {L}
        /\ \A i \in DOMAIN executed[d] : executed'[d][i] = executed[d][i]
        /\ executed'[d][L] = m
        /\ \A e \in Dev \ {d} : executed'[e] = executed[e]
    BY <2>1, <2>2, <2>3 DEF Core, TypeOK
  <2>5. \A n : \A e \in Dev : \A i :
          DoneBy(n, e, i)' => DoneBy(n, e, i) \/ (n = m /\ e = d /\ i = L)
    BY <2>4 DEF DoneBy
  <2>6. /\ \A n : InAcs(n)' = InAcs(n)
        /\ \A n, q, i : InQueue(n, q, i)' = InQueue(n, q, i)
        /\ \A n : \A e \in Dev : ToDevice(n, e)' => ToDevice(n, e) /\ e # d
    BY <1>1 DEF InAcs, InQueue, ToDevice, Core, TypeOK
  <2>7. Queues' = Queues
    BY SameSetting
  <2>8. PublishedFirst'
    BY <1>1, <2>3, <2>5, <2>6, <2>7, PlaceBounds DEF OneSpot, PublishedFirst, Somewhere
  <2>9. OnceInQueue' /\ OnceOnWire'
    BY <1>1, <2>6, <2>7, PlaceBounds DEF OneSpot, OnceInQueue, OnceOnWire
  <2>10. OnceDone'
    BY <2>3, <2>5, PlaceBounds DEF OneSpot, OnceDone, Apart
  <2>11. Apart'
    BY <1>1, <2>3, <2>5, <2>6, <2>7, PlaceBounds DEF OneSpot, Apart, OnceOnWire
  <2> QED
    BY <2>8, <2>9, <2>10, <2>11 DEF OneSpot
<1> QED
  BY <1>3, <1>4 DEF Receive

(* The initial states hold no message anywhere. *)
LEMMA InitOneSpot == Init => OneSpot
<1> SUFFICES ASSUME Init PROVE OneSpot
  OBVIOUS
<1>1. /\ \A m : ~ InAcs(m) /\ \A d \in Dev : ~ ToDevice(m, d)
      /\ \A m, i : /\ \A q \in Queues : ~ InQueue(m, q, i)
                  /\ \A d \in Dev : ~ DoneBy(m, d, i)
  <2>1. /\ fetched = <<>> /\ \A d \in Dev : wire[d] = <<>> /\ executed[d] = <<>>
        /\ \A q \in Queues : queue[q] = <<>>
    BY DEF Init
  <2> QED
    BY <2>1 DEF InAcs, ToDevice, InQueue, DoneBy
<1> QED
  BY <1>1 DEF OneSpot, PublishedFirst, Somewhere, OnceInQueue, OnceOnWire, OnceDone, Apart

(* A message has one spot, whatever step is taken. *)
LEMMA StepOneSpot == Core /\ OneSpot /\ [Next]_vars => OneSpot'
<1> SUFFICES ASSUME Core, OneSpot, [Next]_vars PROVE OneSpot'
  OBVIOUS
<1> USE DEF deviceVars, serverVars
<1>1. CASE UNCHANGED vars
  BY <1>1, LosingIsSafe DEF vars, sessionVars
<1>2. CASE Next
  <2>1. UNCHANGED setting
    BY <1>2 DEF Next
  <2>2. CASE \E d \in Dev : Begin(d) \/ Send(d) \/ Take(d)
    BY <2>1, <2>2, LosingIsSafe DEF Begin, Send, Take
  <2>3. CASE \E d \in Dev : Receive(d)
    BY <2>1, <2>3, ReceiveOnce
  <2>4. CASE \E d \in Dev : GiveUp(d)
    <3>1. PICK d \in Dev : GiveUp(d)
      BY <2>4
    <3>2. /\ wire' = [wire EXCEPT ![d] = <<>>]
          /\ UNCHANGED <<executed, published, fetched, queue>>
      BY <3>1 DEF GiveUp
    <3>3. \A e \in Dev : wire'[e] = wire[e] \/ wire'[e] = <<>>
      BY <3>2 DEF Core, TypeOK
    <3> QED
      BY <2>1, <3>2, <3>3, LosingIsSafe
  <2>5. CASE \E rq \in inbox : Drop(rq)
    BY <2>1, <2>5, LosingIsSafe DEF Drop
  <2>6. CASE \E d \in Dev, m \in Message : Publish(d, m)
    BY <2>1, <2>6, PublishOnce
  <2>7. CASE \E q \in Queues : Expire(q)
    <3>1. PICK q \in Queues : Expire(q)
      BY <2>7
    <3>2. \A r \in Queues : queue'[r] = queue[r] \/ queue'[r] = <<>>
      BY <3>1 DEF Expire, Core, TypeOK
    <3> QED
      BY <2>1, <3>1, <3>2, LosingIsSafe DEF Expire
  <2>8. CASE Notify \/ FetchFails \/ FetchEmpty \/ Transfer \/ Crash
    BY <2>1, <2>8, LosingIsSafe DEF Notify, FetchFails, FetchEmpty, Transfer, Crash
  <2>9. CASE FetchGets
    BY <2>1, <2>9, FetchOnce
  <2>10. CASE Answer
    BY <2>1, <2>10, AnswerOnce
  <2> QED
    BY <1>2, <2>2, <2>3, <2>4, <2>5, <2>6, <2>7, <2>8, <2>9, <2>10
       DEF Next, ServerStep
<1> QED
  BY <1>1, <1>2

(* Any two places of a message are the same one. *)
LEMMA OneSpotOnePlace ==
  ASSUME TypeOK, OneSpot, NEW m \in Message
  PROVE  Cardinality(Places(m)) <= 1
<1>1. ASSUME NEW p \in Places(m), NEW o \in Places(m) PROVE p = o
  <2>1. ASSUME NEW x \in Places(m)
        PROVE  \/ x = <<"acs", 1>> /\ InAcs(m)
               \/ \E q \in Queues : \E i \in DOMAIN queue[q] : x = <<"queue", q, i>> /\ InQueue(m, q, i)
               \/ \E d \in Dev : x = <<"wire", d>> /\ ToDevice(m, d)
               \/ \E d \in Dev : \E i \in DOMAIN executed[d] : x = <<"device", d, i>> /\ DoneBy(m, d, i)
    <3>1. CASE x \in Held(m)
      <4>1. PICK i \in DOMAIN fetched : x = <<"acs", i>> /\ fetched[i] = m
        BY <3>1 DEF Held
      <4>2. i = 1 /\ fetched # <<>>
        BY <4>1 DEF TypeOK
      <4> QED
        BY <4>1, <4>2 DEF InAcs
    <3>2. CASE x \in Queued(m)
      BY <3>2 DEF Queued, InQueue
    <3>3. CASE x \in OnWire(m)
      BY <3>3 DEF OnWire, ToDevice
    <3>4. CASE x \in Executed(m)
      BY <3>4 DEF Executed, DoneBy
    <3> QED
      BY <3>1, <3>2, <3>3, <3>4 DEF Places
  <2> QED
    BY <2>1 DEF OneSpot, OnceInQueue, OnceOnWire, OnceDone, Apart
<1>2. Places(m) = {} \/ \E p : Places(m) = {p}
  BY <1>1
<1> QED
  <2>1. CASE Places(m) = {}
    BY <2>1, FS_EmptySet
  <2>2. CASE \E p : Places(m) = {p}
    <3>1. PICK p : Places(m) = {p}
      BY <2>2
    <3>2. Cardinality({p}) = 1
      BY FS_Singleton
    <3> QED
      BY <3>1, <3>2
  <2> QED
    BY <1>2, <2>1, <2>2

(***************************************************************************)
(* A message is in one place at most, for any devices, messages and        *)
(* settings: nothing that amqp_fetch_pending has taken is taken again,     *)
(* answered twice or carried out twice, shared queue or not.               *)
(***************************************************************************)
THEOREM OperationsOnce == Spec => []OnePlace
<1>1. Init => Core /\ OneSpot
  BY InitCore, InitOneSpot
<1>2. Core /\ OneSpot /\ [Next]_vars => (Core /\ OneSpot)'
  BY StepCore, StepOneSpot
<1>3. Core /\ OneSpot => OnePlace
  BY OneSpotOnePlace DEF Core, OnePlace
<1> QED
  BY <1>1, <1>2, <1>3, PTL DEF Spec

-----------------------------------------------------------------------------
(* Steps that lose messages take none to another device. *)
LEMMA LosingIsPrivate ==
  ASSUME OwnersOnly, UNCHANGED <<setting, executed, published>>,
         fetched' = <<>> \/ (fetched' = fetched /\ current'.dev = current.dev),
         \A q \in Queues : queue'[q] = queue[q] \/ queue'[q] = <<>>,
         \A d \in Dev : wire'[d] = wire[d] \/ wire'[d] = <<>>
  PROVE  OwnersOnly'
<1>1. Unshared' = Unshared /\ QueueOf' = QueueOf
  BY SameSetting
<1>2. ASSUME NEW m \in Message, NEW d \in Dev, IsWith(m, d)' PROVE IsWith(m, d)
  <2>1. InAcs(m)' /\ current'.dev = d => InAcs(m) /\ current.dev = d
    BY DEF InAcs
  <2>2. /\ \A i : InQueue(m, QueueOf[d], i)' => InQueue(m, QueueOf[d], i)
        /\ \A i : DoneBy(m, d, i)' => DoneBy(m, d, i)
        /\ ToDevice(m, d)' => ToDevice(m, d)
    BY <1>1, QueueNames DEF InQueue, DoneBy, ToDevice
  <2> QED
    BY <1>1, <1>2, <2>1, <2>2, PlaceBounds DEF IsWith
<1> QED
  BY <1>1, <1>2 DEF OwnersOnly

(* A message goes to the queue of the device that it is queued for. *)
LEMMA PublishPrivate ==
  ASSUME Core, OwnersOnly, UNCHANGED setting, NEW d \in Dev, NEW m \in Message, Publish(d, m)
  PROVE  OwnersOnly'
<1> SUFFICES ASSUME Unshared, NEW n \in Message, NEW e \in Dev, IsWith(n, e)',
                    <<e, n>> \notin published'
             PROVE  FALSE
  BY SameSetting DEF OwnersOnly
<1>1. PICK Q, R : Q = QueueOf[d] /\ R = QueueOf[e]
  OBVIOUS
<1>2. /\ QueueOf' = QueueOf /\ Q \in Queues /\ R \in Queues /\ queue[Q] \in Seq(Message)
      /\ queue \in [Queues -> Seq(Message)]
  BY <1>1, SameSetting, QueueNames DEF Core, TypeOK
<1>3. /\ UNCHANGED <<fetched, current, wire, executed>>
      /\ published' = published \cup {<<d, m>>}
      /\ queue' = [queue EXCEPT ![Q] = Append(queue[Q], m)]
  BY <1>1, <1>2 DEF Publish, serverVars
<1>4. ~ IsWith(n, e) /\ ~ (n = m /\ e = d)
  BY <1>3 DEF OwnersOnly
<1>5. PICK i : i \in DOMAIN queue'[R] /\ queue'[R][i] = n /\ ~ InQueue(n, R, i)
  <2>1. \E i : InQueue(n, R, i)' /\ ~ InQueue(n, R, i)
    BY <1>1, <1>2, <1>3, <1>4, PlaceBounds DEF IsWith, InAcs, ToDevice, DoneBy
  <2> QED
    BY <2>1 DEF InQueue
<1>6. R = Q
  BY <1>2, <1>3, <1>5 DEF InQueue
<1>7. n = m
  <2>1. i = Len(queue[Q]) + 1 \/ (i \in DOMAIN queue[Q] /\ queue'[Q][i] = queue[Q][i])
    BY <1>2, <1>3, <1>5, <1>6
  <2> QED
    BY <1>2, <1>3, <1>5, <1>6, <2>1 DEF InQueue
<1>8. e = d
  BY <1>1, <1>6 DEF Unshared, OwnQueues, QueueOf
<1> QED
  BY <1>4, <1>7, <1>8

(* What is fetched for a device comes from the queue of that device. *)
LEMMA FetchPrivate ==
  ASSUME Core, OwnersOnly, UNCHANGED setting, FetchGets
  PROVE  OwnersOnly'
<1> SUFFICES ASSUME Unshared, NEW n \in Message, NEW e \in Dev, IsWith(n, e)'
             PROVE  <<e, n>> \in published
  BY SameSetting, FetchMoves DEF OwnersOnly
<1>1. /\ fetched = <<>> /\ current.dev \in Dev /\ QueueOf' = QueueOf
      /\ UNCHANGED <<current, wire, executed, published>>
  BY FetchMoves, SameSetting
<1>2. PICK Q \in Queues, h \in Message :
              /\ Q = QueueOf[current.dev] /\ InQueue(h, Q, 1)
              /\ \A m : InAcs(m)' <=> m = h
              /\ \A m, i : InQueue(m, Q, i)' => i \in Nat \ {0} /\ InQueue(m, Q, i + 1)
              /\ \A m : \A q \in Queues \ {Q} : \A i : InQueue(m, q, i)' => InQueue(m, q, i)
  BY FetchMoves
<1>3. PICK R \in Queues : R = QueueOf[e]
  BY QueueNames
<1>4. CASE InAcs(n)' /\ current.dev = e
  <2>1. IsWith(n, e)
    BY <1>2, <1>4, PlaceBounds DEF IsWith
  <2> QED
    BY <2>1 DEF OwnersOnly
<1>5. CASE \E i : InQueue(n, R, i)'
  <2>1. \E i : InQueue(n, R, i)
    BY <1>2, <1>5
  <2>2. IsWith(n, e)
    BY <1>3, <2>1, PlaceBounds DEF IsWith
  <2> QED
    BY <2>2 DEF OwnersOnly
<1>6. CASE ToDevice(n, e)' \/ \E i \in DOMAIN executed[e]' : DoneBy(n, e, i)'
  <2>1. ToDevice(n, e) \/ \E i : DoneBy(n, e, i)
    BY <1>1, <1>6 DEF ToDevice, DoneBy
  <2>2. IsWith(n, e)
    BY <2>1, PlaceBounds DEF IsWith
  <2> QED
    BY <2>2 DEF OwnersOnly
<1> QED
  BY <1>1, <1>3, <1>4, <1>5, <1>6 DEF IsWith

(* The reply for a device is made from what was fetched for it. *)
LEMMA AnswerPrivate ==
  ASSUME Core, OwnersOnly, UNCHANGED setting, Answer
  PROVE  OwnersOnly'
<1>1. /\ fetched' = <<>> /\ UNCHANGED <<setting, queue, published, executed>>
      /\ Unshared' = Unshared /\ QueueOf' = QueueOf
  BY AnswerMoves, SameSetting
<1>2. ASSUME NEW m \in Message, NEW d \in Dev, IsWith(m, d)' PROVE IsWith(m, d)
  <2>1. ToDevice(m, d)' => ToDevice(m, d) \/ (InAcs(m) /\ d = current.dev)
    BY AnswerMoves
  <2>2. /\ ~ InAcs(m)'
        /\ \A i : InQueue(m, QueueOf[d], i)' => InQueue(m, QueueOf[d], i)
        /\ \A i : DoneBy(m, d, i)' => DoneBy(m, d, i)
    BY <1>1 DEF InAcs, InQueue, DoneBy
  <2> QED
    BY <1>1, <1>2, <2>1, <2>2, PlaceBounds DEF IsWith
<1> QED
  BY <1>1, <1>2 DEF OwnersOnly

(* A device carries out what is on its way to it. *)
LEMMA ReceivePrivate ==
  ASSUME Core, OwnersOnly, UNCHANGED setting, NEW d \in Dev, Receive(d)
  PROVE  OwnersOnly'
<1>1. /\ wire' = [wire EXCEPT ![d] = <<>>] /\ wire[d] # <<>>
      /\ UNCHANGED <<setting, fetched, current, queue, published>>
      /\ Unshared' = Unshared /\ QueueOf' = QueueOf
  BY SameSetting DEF Receive, serverVars
<1>2. ASSUME NEW m \in Message, NEW e \in Dev, IsWith(m, e)' PROVE IsWith(m, e)
  <2>1. /\ InAcs(m)' => InAcs(m)
        /\ \A i : InQueue(m, QueueOf[e], i)' => InQueue(m, QueueOf[e], i)
        /\ ToDevice(m, e)' => ToDevice(m, e)
    BY <1>1 DEF InAcs, InQueue, ToDevice, Core, TypeOK
  <2>2. \A i : DoneBy(m, e, i)' => DoneBy(m, e, i) \/ ToDevice(m, e)
    <3>1. CASE UNCHANGED executed
      BY <3>1 DEF DoneBy
    <3>2. CASE \E n \in MessageIn(wire[d][1]) : executed' = [executed EXCEPT ![d] = Append(@, n)]
      <4>1. PICK n \in MessageIn(wire[d][1]) : executed' = [executed EXCEPT ![d] = Append(@, n)]
        BY <3>2
      <4>2. n \in Message /\ ToDevice(n, d)
        BY <1>1, <4>1 DEF MessageIn, ToDevice
      <4>3. /\ \A i \in DOMAIN executed'[d] :
                  (i \in DOMAIN executed[d] /\ executed'[d][i] = executed[d][i]) \/ executed'[d][i] = n
            /\ \A x \in Dev \ {d} : executed'[x] = executed[x]
        BY <4>1, <4>2 DEF Core, TypeOK
      <4> QED
        BY <4>2, <4>3 DEF DoneBy
    <3> QED
      BY <3>1, <3>2 DEF Receive
  <2> QED
    BY <1>1, <1>2, <2>1, <2>2, PlaceBounds DEF IsWith
<1> QED
  BY <1>1, <1>2 DEF OwnersOnly

(* A message stays with its device, whatever step is taken. *)
LEMMA StepOwnersOnly == Core /\ OwnersOnly /\ [Next]_vars => OwnersOnly'
<1> SUFFICES ASSUME Core, OwnersOnly, [Next]_vars PROVE OwnersOnly'
  OBVIOUS
<1> USE DEF deviceVars, serverVars
<1>1. CASE UNCHANGED vars
  BY <1>1, LosingIsPrivate DEF vars, sessionVars
<1>2. CASE Next
  <2>1. UNCHANGED setting
    BY <1>2 DEF Next
  <2>2. CASE \E d \in Dev : Begin(d) \/ Send(d)
    BY <2>1, <2>2, LosingIsPrivate DEF Begin, Send
  <2>3. CASE \E d \in Dev : Receive(d)
    BY <2>1, <2>3, ReceivePrivate
  <2>4. CASE \E d \in Dev : GiveUp(d)
    <3>1. PICK d \in Dev : GiveUp(d)
      BY <2>4
    <3>2. /\ wire' = [wire EXCEPT ![d] = <<>>]
          /\ current' = IF stage = "idle" THEN current ELSE Disown(d, current)
          /\ UNCHANGED <<executed, published, fetched, queue>>
      BY <3>1 DEF GiveUp
    <3>3. \A e \in Dev : wire'[e] = wire[e] \/ wire'[e] = <<>>
      BY <3>2 DEF Core, TypeOK
    <3>4. current'.dev = current.dev
      BY <3>2, DisownedRequest DEF Core, TypeOK
    <3> QED
      BY <2>1, <3>2, <3>3, <3>4, LosingIsPrivate
  <2>5. CASE \E d \in Dev : Take(d)
    <3>1. fetched' = <<>> /\ UNCHANGED <<executed, published, queue, wire>>
      BY <2>5 DEF Take, Core, Fetching
    <3> QED
      BY <2>1, <3>1, LosingIsPrivate
  <2>6. CASE \E rq \in inbox : Drop(rq)
    BY <2>1, <2>6, LosingIsPrivate DEF Drop
  <2>7. CASE \E d \in Dev, m \in Message : Publish(d, m)
    BY <2>1, <2>7, PublishPrivate
  <2>8. CASE \E q \in Queues : Expire(q)
    <3>1. PICK q \in Queues : Expire(q)
      BY <2>8
    <3>2. \A r \in Queues : queue'[r] = queue[r] \/ queue'[r] = <<>>
      BY <3>1 DEF Expire, Core, TypeOK
    <3> QED
      BY <2>1, <3>1, <3>2, LosingIsPrivate DEF Expire
  <2>9. CASE Notify \/ FetchFails \/ FetchEmpty \/ Transfer \/ Crash
    BY <2>1, <2>9, LosingIsPrivate DEF Notify, FetchFails, FetchEmpty, Transfer, Crash
  <2>10. CASE FetchGets
    BY <2>1, <2>10, FetchPrivate
  <2>11. CASE Answer
    BY <2>1, <2>11, AnswerPrivate
  <2> QED
    BY <1>2, <2>2, <2>3, <2>4, <2>5, <2>6, <2>7, <2>8, <2>9, <2>10, <2>11
       DEF Next, ServerStep
<1> QED
  BY <1>1, <1>2

(***************************************************************************)
(* With a queue per device, a device is sent, and carries out, only what   *)
(* the backend queued for it, whatever is abandoned, repeated or crashes.  *)
(***************************************************************************)
THEOREM OperationsOfItsOwn == Spec => []RightDevice
<1>1. Init => Core /\ OwnersOnly
  <2> SUFFICES ASSUME Init PROVE OwnersOnly
    BY InitCore
  <2>1. /\ fetched = <<>> /\ \A d \in Dev : wire[d] = <<>> /\ executed[d] = <<>>
        /\ \A q \in Queues : queue[q] = <<>>
    BY DEF Init
  <2>2. \A m \in Message, d \in Dev : ~ IsWith(m, d)
    BY <2>1, QueueNames DEF IsWith, InAcs, ToDevice
  <2> QED
    BY <2>2 DEF OwnersOnly
<1>2. Core /\ OwnersOnly /\ [Next]_vars => (Core /\ OwnersOnly)'
  BY StepCore, StepOwnersOnly
<1>3. OwnersOnly => RightDevice
  <2>1. \A m \in Message, d \in Dev :
          <<"wire", d>> \in OnWire(m) \/ (\E i \in DOMAIN executed[d] : executed[d][i] = m)
          => IsWith(m, d)
    BY DEF OnWire, IsWith, ToDevice, DoneBy
  <2> QED
    BY <2>1 DEF OwnersOnly, RightDevice
<1> QED
  BY <1>1, <1>2, <1>3, PTL DEF Spec

-----------------------------------------------------------------------------
(* What send_response answers a device that still has factory credentials. *)
LEMMA FactoryReply ==
  ASSUME NEW rq \in RequestType, rq.credentials \in Factory,
         rq.doc = "Inform" \/ (rq.doc = "Empty" /\ rq.cookie = "level=0"),
         NEW f, NEW got
  PROVE  NotifiedReply(View(rq), TagOf(rq), f, got) \in {InformResponse, InitialProvisioning}
<1>1. CASE rq.doc = "Inform"
  <2>1. View(rq).length # 0
    BY <1>1 DEF View
  <2>2. TagOf(rq) = AnalyzedTag("Inform")
    BY <1>1, <2>1 DEF TagOf, TagAfterAnalysis
  <2>3. IsInform(TagOf(rq))
    BY <2>2 DEF AnalyzedTag, IsInform
  <2> QED
    BY <2>3 DEF NotifiedReply
<1>2. CASE rq.doc = "Empty" /\ rq.cookie = "level=0"
  <2>1. View(rq).length = 0
    BY <1>2 DEF View
  <2>2. TagOf(rq) = {"REQUEST_RECEIVED", "REQUEST_HEAD_APPROVED"}
    BY <2>1 DEF TagOf, TagAfterAnalysis
  <2>3. ~ IsInform(TagOf(rq))
    BY <2>2 DEF IsInform
  <2>4. View(rq).has = Header /\ View(rq).cookie = "level=0"
        /\ View(rq).credentials = rq.credentials
    BY <1>2 DEF View
  <2>5. IsUnprovisioned(View(rq))
    BY <2>4 DEF IsUnprovisioned, Header
  <2> QED
    BY <2>3, <2>5 DEF NotifiedReply
<1> QED
  BY <1>1, <1>2

(* Steps in which devices do nothing, and none gets a reply. *)
LEMMA StandingStill ==
  ASSUME NotYetProvisioned,
         UNCHANGED <<credentials, login, cookie, executed>>,
         \A d \in Dev : next'[d] = next[d] \/ next'[d] = "idle",
         \A d \in Dev : wire'[d] = wire[d] \/ wire'[d] = <<>>
  PROVE  NotYetProvisioned'
BY DEF NotYetProvisioned

(* A new session starts over, with the credentials that the device has. *)
LEMMA BeginUnprovisioned ==
  ASSUME Core, NotYetProvisioned, NEW d \in Dev, Begin(d)
  PROVE  NotYetProvisioned'
<1>1. /\ next' = [next EXCEPT ![d] = "Inform"] /\ cookie' = [cookie EXCEPT ![d] = ""]
      /\ login' = [login EXCEPT ![d] = credentials[d]]
      /\ UNCHANGED <<credentials, wire, executed>>
  BY DEF Begin
<1>2. /\ next'[d] = "Inform" /\ login'[d] = credentials[d]
      /\ \A e \in Dev \ {d} : next'[e] = next[e] /\ cookie'[e] = cookie[e] /\ login'[e] = login[e]
  BY <1>1 DEF Core, TypeOK
<1> QED
  BY <1>1, <1>2, SMTT(30), ZenonT(40) DEF NotYetProvisioned

(* Credentials are replaced before an operation is asked for. *)
LEMMA ReceiveUnprovisioned ==
  ASSUME Core, NotYetProvisioned, NEW d \in Dev, Receive(d)
  PROVE  NotYetProvisioned'
<1> DEFINE r == wire[d][1]
<1>1. /\ wire[d] # <<>> /\ wire' = [wire EXCEPT ![d] = <<>>]
      /\ cookie' = [cookie EXCEPT ![d] = IF r.cookie = "" THEN @ ELSE r.cookie]
  BY DEF Receive
<1>2. wire'[d] = <<>> /\ \A e \in Dev \ {d} : wire'[e] = wire[e] /\ cookie'[e] = cookie[e]
  BY <1>1 DEF Core, TypeOK
<1>3. \A e \in Dev \ {d} : /\ next'[e] = next[e] /\ credentials'[e] = credentials[e]
                           /\ login'[e] = login[e] /\ executed'[e] = executed[e]
  BY DEF Receive, Core, TypeOK
<1>4. CASE credentials[d] \in Factory
  <2>1. r \in {InformResponse, InitialProvisioning}
    BY <1>1, <1>4 DEF NotYetProvisioned
  <2>2. /\ r.status = 200 /\ r.entity \in {"InformResponse", "InitialProvisioning"}
        /\ r.entity = "InformResponse" => r.cookie = "level=0"
    BY <2>1 DEF InformResponse, InitialProvisioning, Reply
  <2>3. MessageIn(r) = {} /\ ~ AsksNothing(r)
    BY <2>2, MessageFields DEF MessageIn, AsksNothing
  <2> HIDE DEF r
  <2>4. CASE /\ r.entity = "InformResponse"
             /\ next' = [next EXCEPT ![d] = "Empty"]
             /\ UNCHANGED <<credentials, login, executed>>
    <3>1. next'[d] = "Empty" /\ cookie'[d] = "level=0"
      <4>1. r.cookie = "level=0" /\ r.cookie # ""
        BY <2>2, <2>4
      <4>2. cookie' = [cookie EXCEPT ![d] = "level=0"]
        BY <1>1, <4>1
      <4> QED
        BY <2>4, <4>2 DEF Core, TypeOK
    <3> QED
      BY <1>2, <1>3, <2>4, <3>1 DEF NotYetProvisioned
  <2>5. CASE credentials' = [credentials EXCEPT ![d] = Own]
    <3>1. credentials'[d] \notin Factory
      BY <2>5, FactoryAssumption DEF Core, TypeOK
    <3> QED
      BY <1>2, <1>3, <3>1 DEF NotYetProvisioned
  <2> QED
    BY <2>3, <2>4, <2>5 DEF Receive, r
<1>5. CASE credentials[d] \notin Factory
  <2>1. credentials'[d] \notin Factory
    BY <1>5, FactoryAssumption DEF Receive, Core, TypeOK
  <2> QED
    BY <1>2, <1>3, <2>1 DEF NotYetProvisioned
<1> QED
  BY <1>4, <1>5

(* The reply to the empty request is the initial provisioning. *)
LEMMA AnswerUnprovisioned ==
  ASSUME Core, NotYetProvisioned, Answer
  PROVE  NotYetProvisioned'
<1>1. /\ stage = "reply" /\ UNCHANGED <<next, cookie, credentials, login, executed>>
      /\ current \in RequestType /\ current.dev \in Dev
      /\ wire' = IF current.live
                   THEN [wire EXCEPT ![current.dev] =
                           <<NotifiedReply(View(current), TagOf(current), failed, fetched)>>]
                   ELSE wire
  BY DEF Answer, deviceVars, Core, TypeOK, RequestType
<1>2. CASE ~ current.live
  BY <1>1, <1>2 DEF NotYetProvisioned
<1>3. CASE current.live
  <2>1. PICK d \in Dev : d = current.dev
    BY <1>1
  <2>2. /\ current.doc = next[d] /\ current.cookie = cookie[d]
        /\ current.credentials = login[d] /\ next[d] # "idle"
    BY <1>1, <1>3, <2>1 DEF Core, Outstanding, InTheWorks, AsSent
  <2>3. /\ wire'[d][1] = NotifiedReply(View(current), TagOf(current), failed, fetched)
        /\ \A e \in Dev \ {d} : wire'[e] = wire[e]
    BY <1>1, <1>3, <2>1 DEF Core, TypeOK
  <2>4. ASSUME credentials[d] \in Factory
        PROVE  wire'[d][1] \in {InformResponse, InitialProvisioning}
    <3>1. /\ current.credentials \in Factory
          /\ current.doc = "Inform" \/ (current.doc = "Empty" /\ current.cookie = "level=0")
      BY <2>2, <2>4 DEF NotYetProvisioned
    <3> QED
      BY <1>1, <2>3, <3>1, FactoryReply
  <2> QED
    BY <1>1, <2>3, <2>4 DEF NotYetProvisioned
<1> QED
  BY <1>2, <1>3

(* A device is provisioned first, whatever step is taken. *)
LEMMA StepNotYetProvisioned ==
  Core /\ NotYetProvisioned /\ [Next]_vars => NotYetProvisioned'
<1> SUFFICES ASSUME Core, NotYetProvisioned, [Next]_vars PROVE NotYetProvisioned'
  OBVIOUS
<1> USE DEF deviceVars, serverVars
<1>1. CASE UNCHANGED vars
  BY <1>1, StandingStill DEF vars, sessionVars
<1>2. CASE Next
  <2>1. CASE \E d \in Dev : Begin(d)
    BY <2>1, BeginUnprovisioned
  <2>2. CASE \E d \in Dev : Receive(d)
    BY <2>2, ReceiveUnprovisioned
  <2>3. CASE \E d \in Dev : GiveUp(d)
    <3>1. /\ UNCHANGED <<credentials, login, cookie, executed>>
          /\ \A d \in Dev : next'[d] = next[d] \/ next'[d] = "idle"
          /\ \A d \in Dev : wire'[d] = wire[d] \/ wire'[d] = <<>>
      BY <2>3 DEF GiveUp, Core, TypeOK
    <3> QED
      BY <3>1, StandingStill
  <2>4. CASE Crash
    <3>1. /\ UNCHANGED <<credentials, login, cookie, executed, wire>>
          /\ \A d \in Dev : next'[d] = next[d] \/ next'[d] = "idle"
      BY <2>4 DEF Crash
    <3> QED
      BY <3>1, StandingStill
  <2>5. CASE \/ \E d \in Dev : \/ Send(d) \/ Take(d)
                                \/ \E m \in Message : Publish(d, m)
             \/ \E rq \in inbox : Drop(rq)
             \/ \E q \in Queues : Expire(q)
             \/ Notify \/ FetchFails \/ FetchEmpty \/ FetchGets \/ Transfer
    <3>1. UNCHANGED <<credentials, login, cookie, executed, next, wire>>
      BY <2>5 DEF Send, Take, Publish, Drop, Expire, Notify, FetchFails, FetchEmpty,
                  FetchGets, Transfer
    <3> QED
      BY <3>1, StandingStill
  <2>6. CASE Answer
    BY <2>6, AnswerUnprovisioned
  <2> QED
    BY <1>2, <2>1, <2>2, <2>3, <2>4, <2>5, <2>6 DEF Next, ServerStep
<1> QED
  BY <1>1, <1>2

(***************************************************************************)
(* A device that still has factory credentials has carried out nothing     *)
(* but the initial provisioning, in however many sessions, abandoned and   *)
(* repeated ones included.                                                 *)
(***************************************************************************)
THEOREM ProvisionedFirst == Spec => []UnprovisionedFirst
<1>1. Init => Core /\ NotYetProvisioned
  BY InitCore DEF Init, NotYetProvisioned
<1>2. Core /\ NotYetProvisioned /\ [Next]_vars => (Core /\ NotYetProvisioned)'
  BY StepCore, StepNotYetProvisioned
<1>3. NotYetProvisioned => UnprovisionedFirst
  BY DEF NotYetProvisioned, UnprovisionedFirst
<1> QED
  BY <1>1, <1>2, <1>3, PTL DEF Spec

-----------------------------------------------------------------------------
(***************************************************************************)
(* Without faults nobody gives up, so that a message that has been queued  *)
(* is always somewhere.                                                    *)
(***************************************************************************)
NothingLost ==
  /\ \A rq \in inbox : rq.live
  /\ stage # "idle" => current.live
  /\ \A dm \in published : Somewhere(dm[2])

\* Messages that send_response makes an operation of and a device carries out.
Deliverable == \A m \in Message : m.form = "operation" /\ m.op # "None"

(* Steps that leave the messages where they are. *)
LEMMA StayingPut ==
  ASSUME UNCHANGED <<setting, fetched, queue, wire, executed>>, NEW m, Somewhere(m)
  PROVE  Somewhere(m)'
BY SameSetting DEF Somewhere, InAcs, InQueue, ToDevice, DoneBy

(* What is fetched is held. *)
LEMMA FetchKeeps ==
  ASSUME Core, UNCHANGED setting, FetchGets, NEW m \in Message, Somewhere(m)
  PROVE  Somewhere(m)'
<1>1. /\ fetched = <<>> /\ UNCHANGED <<wire, executed>> /\ Queues' = Queues
  BY FetchMoves, SameSetting
<1>2. PICK Q \in Queues : Q = QueueOf[current.dev]
  BY QueueNames DEF FetchGets, Core, TypeOK, RequestType
<1>3. /\ queue[Q] \in Seq(Message) /\ queue[Q] # <<>> /\ fetched' = <<Head(queue[Q])>>
      /\ queue' = [queue EXCEPT ![Q] = Tail(queue[Q])]
  BY <1>2 DEF FetchGets, QueueRead, AfterGet, Core, TypeOK
<1>4. /\ Head(queue[Q]) = queue[Q][1] /\ Tail(queue[Q]) \in Seq(Message)
      /\ \A i \in DOMAIN queue[Q] :
           i = 1 \/ (i - 1 \in DOMAIN Tail(queue[Q]) /\ Tail(queue[Q])[i - 1] = queue[Q][i])
  <2>1. /\ Tail(queue[Q]) \in Seq(Message) /\ Len(Tail(queue[Q])) = Len(queue[Q]) - 1
        /\ \A i \in 1..Len(Tail(queue[Q])) : Tail(queue[Q])[i] = queue[Q][i + 1]
    BY <1>3, HeadTailProperties
  <2>2. ASSUME NEW i \in DOMAIN queue[Q], i # 1
        PROVE  i - 1 \in DOMAIN Tail(queue[Q]) /\ Tail(queue[Q])[i - 1] = queue[Q][i]
    <3>1. i \in 1..Len(queue[Q]) /\ Len(queue[Q]) \in Nat
      BY <1>3
    <3>2. i - 1 \in 1..Len(Tail(queue[Q])) /\ (i - 1) + 1 = i
      BY <2>1, <2>2, <3>1
    <3> QED
      BY <2>1, <3>2
  <2> QED
    BY <1>3, <2>1, <2>2
<1>5. CASE \E q \in Queues : \E i : InQueue(m, q, i)
  <2>1. PICK q, i : q \in Queues /\ InQueue(m, q, i)
    BY <1>5
  <2>2. CASE q = Q /\ i = 1
    BY <1>3, <1>4, <2>1, <2>2 DEF InQueue, Somewhere, InAcs
  <2>3. CASE q = Q /\ i # 1
    <3>1. queue'[Q] = Tail(queue[Q])
      BY <1>3 DEF Core, TypeOK
    <3>2. i - 1 \in DOMAIN queue'[Q] /\ queue'[Q][i - 1] = m
      BY <1>4, <2>1, <2>3, <3>1 DEF InQueue
    <3> QED
      BY <1>1, <3>2 DEF InQueue, Somewhere
  <2>4. CASE q # Q
    <3>1. i \in DOMAIN queue'[q] /\ queue'[q][i] = m
      BY <1>3, <2>1, <2>4 DEF InQueue, Core, TypeOK
    <3> QED
      BY <1>1, <2>1, <3>1 DEF InQueue, Somewhere
  <2> QED
    BY <2>2, <2>3, <2>4
<1>6. CASE \E d \in Dev : ToDevice(m, d) \/ \E i : DoneBy(m, d, i)
  BY <1>1, <1>6 DEF Somewhere, ToDevice, DoneBy
<1> QED
  BY <1>1, <1>5, <1>6 DEF Somewhere, InAcs

(* What is held for a device that waits is sent to it. *)
LEMMA AnswerKeeps ==
  ASSUME Deliverable, Core, UNCHANGED setting, Answer, current.live,
         NEW m \in Message, Somewhere(m)
  PROVE  Somewhere(m)'
<1>1. PICK d \in Dev : d = current.dev
  BY DEF Answer, Core, TypeOK, RequestType
<1>2. PICK reply : reply = NotifiedReply(View(current), TagOf(current), failed, fetched)
  OBVIOUS
<1>3. /\ stage = "reply" /\ UNCHANGED <<setting, queue, executed>> /\ Queues' = Queues
      /\ wire' = [wire EXCEPT ![d] = <<reply>>]
  BY <1>1, <1>2, SameSetting DEF Answer
<1>4. wire[d] = <<>>
  BY <1>1, <1>3 DEF Core, Outstanding, InTheWorks, AsSent
<1>5. CASE InAcs(m)
  <2>1. /\ fetched # <<>> /\ fetched[1] = m /\ m.form = "operation" /\ ~ failed
        /\ NeedsFetch(View(current), TagOf(current))
    BY <1>5 DEF InAcs, Deliverable, Core, Fetching, Wanted
  <2>2. reply = Reply(200, m.cookie, m.id)
    BY <1>2, <2>1 DEF NeedsFetch, NotifiedReply, FetchReply
  <2>3. wire'[d] = <<reply>> /\ wire'[d] # <<>> /\ wire'[d][1].entity = m.id
    BY <1>3, <2>2 DEF Reply, Core, TypeOK
  <2> QED
    BY <2>3 DEF Somewhere, ToDevice
<1>6. CASE \E e \in Dev : ToDevice(m, e)
  <2>1. PICK e \in Dev : ToDevice(m, e) /\ e # d
    BY <1>4, <1>6 DEF ToDevice
  <2>2. wire'[e] = wire[e]
    BY <1>3, <2>1 DEF Core, TypeOK
  <2> QED
    BY <2>1, <2>2 DEF Somewhere, ToDevice
<1>7. CASE \/ \E q \in Queues : \E i : InQueue(m, q, i)
           \/ \E e \in Dev : \E i : DoneBy(m, e, i)
  BY <1>3, <1>7 DEF Somewhere, InQueue, DoneBy
<1> QED
  BY <1>5, <1>6, <1>7 DEF Somewhere

(* What is sent to a device is carried out. *)
LEMMA ReceiveKeeps ==
  ASSUME Deliverable, Core, UNCHANGED setting, NEW d \in Dev, Receive(d),
         NEW m \in Message, Somewhere(m)
  PROVE  Somewhere(m)'
<1> DEFINE r == wire[d][1]
<1>1. /\ wire[d] # <<>> /\ wire' = [wire EXCEPT ![d] = <<>>]
      /\ UNCHANGED <<setting, queue, fetched>> /\ Queues' = Queues
  BY SameSetting DEF Receive, serverVars
<1>2. \A e \in Dev \ {d} : wire'[e] = wire[e]
  BY <1>1 DEF Core, TypeOK
<1>3. \A n : \A e \in Dev : \A i : DoneBy(n, e, i) => DoneBy(n, e, i)'
  <2>1. CASE UNCHANGED executed
    BY <2>1 DEF DoneBy
  <2>2. CASE \E n \in MessageIn(r) : executed' = [executed EXCEPT ![d] = Append(@, n)]
    <3>1. PICK n \in Message : executed' = [executed EXCEPT ![d] = Append(@, n)]
      BY <2>2 DEF MessageIn
    <3>2. /\ \A i \in DOMAIN executed[d] :
               i \in DOMAIN executed'[d] /\ executed'[d][i] = executed[d][i]
          /\ \A e \in Dev \ {d} : executed'[e] = executed[e]
      BY <3>1 DEF Core, TypeOK
    <3> QED
      BY <3>2 DEF DoneBy
  <2> QED
    BY <2>1, <2>2 DEF Receive
<1>4. CASE ToDevice(m, d)
  <2>1. wire[d] \in {<<>>} \cup {<<x>> : x \in ReplyOver(Message)}
    BY DEF Core, TypeOK
  <2>2. r \in ReplyOver(Message) /\ r.entity = m.id
    BY <1>1, <1>4, <2>1 DEF ToDevice
  <2> HIDE DEF r
  <2>3. MessageIn(r) = {m} /\ r.status = 200
    BY <2>2, MessageFields, ReplyFields DEF MessageIn
  <2>4. ~ AsksNothing(r) /\ r.entity # "InformResponse" /\ r.entity # "InitialProvisioning"
    BY <2>2, <2>3, MessageFields DEF AsksNothing, Deliverable
  <2>5. executed' = [executed EXCEPT ![d] = Append(@, m)]
    BY <2>3, <2>4 DEF Receive, r
  <2>6. \E i \in DOMAIN executed'[d] : executed'[d][i] = m
    <3>1. PICK s \in Seq(Message) : s = executed[d]
      BY DEF Core, TypeOK
    <3>2. executed'[d] = Append(s, m)
      BY <2>5, <3>1 DEF Core, TypeOK
    <3>3. Len(s) + 1 \in DOMAIN Append(s, m) /\ Append(s, m)[Len(s) + 1] = m
      OBVIOUS
    <3> QED
      BY <3>2, <3>3
  <2> QED
    BY <2>6 DEF Somewhere, DoneBy
<1>5. CASE \E e \in Dev \ {d} : ToDevice(m, e)
  BY <1>2, <1>5 DEF Somewhere, ToDevice
<1>6. CASE InAcs(m) \/ \E q \in Queues : \E i : InQueue(m, q, i)
  BY <1>1, <1>6 DEF Somewhere, InAcs, InQueue
<1>7. CASE \E e \in Dev : \E i \in DOMAIN executed[e] : DoneBy(m, e, i)
  BY <1>3, <1>7, PlaceBounds DEF Somewhere, DoneBy
<1> QED
  BY <1>4, <1>5, <1>6, <1>7 DEF Somewhere

(* What is queued is in the queue, with all that was there. *)
LEMMA PublishKeeps ==
  ASSUME Core, UNCHANGED setting, NEW d \in Dev, NEW n \in Message, Publish(d, n),
         NEW m \in Message, Somewhere(m) \/ m = n
  PROVE  Somewhere(m)'
<1>1. PICK Q \in Queues : Q = QueueOf[d]
  BY QueueNames
<1>2. /\ UNCHANGED <<setting, fetched, wire, executed>> /\ Queues' = Queues
      /\ queue' = [queue EXCEPT ![Q] = Append(queue[Q], n)] /\ queue[Q] \in Seq(Message)
  BY <1>1, SameSetting DEF Publish, serverVars, Core, TypeOK
<1>3. /\ \A i \in DOMAIN queue[Q] : i \in DOMAIN queue'[Q] /\ queue'[Q][i] = queue[Q][i]
      /\ \E i \in DOMAIN queue'[Q] : queue'[Q][i] = n
      /\ \A q \in Queues \ {Q} : queue'[q] = queue[q]
  <2>1. PICK s \in Seq(Message) : s = queue[Q]
    BY <1>2
  <2>2. queue'[Q] = Append(s, n) /\ \A q \in Queues \ {Q} : queue'[q] = queue[q]
    BY <1>2, <2>1 DEF Core, TypeOK
  <2>3. /\ \A i \in DOMAIN s : i \in DOMAIN Append(s, n) /\ Append(s, n)[i] = s[i]
        /\ Len(s) + 1 \in DOMAIN Append(s, n) /\ Append(s, n)[Len(s) + 1] = n
    OBVIOUS
  <2> QED
    BY <2>1, <2>2, <2>3
<1>4. \A q \in Queues : \A i : InQueue(m, q, i) => InQueue(m, q, i)'
  BY <1>3 DEF InQueue
<1>5. CASE m = n
  BY <1>2, <1>3, <1>5 DEF Somewhere, InQueue
<1>6. CASE \E q \in Queues : \E i \in DOMAIN queue[q] : InQueue(m, q, i)
  <2>1. PICK q, i : q \in Queues /\ InQueue(m, q, i)'
    BY <1>4, <1>6
  <2>2. i \in DOMAIN queue'[q]
    BY <2>1 DEF InQueue
  <2> QED
    BY <1>2, <2>1, <2>2 DEF Somewhere
<1>7. CASE \/ InAcs(m) \/ \E e \in Dev : ToDevice(m, e)
           \/ \E e \in Dev : \E i \in DOMAIN executed[e] : DoneBy(m, e, i)
  BY <1>2, <1>7 DEF Somewhere, InAcs, ToDevice, DoneBy
<1> QED
  BY <1>5, <1>6, <1>7 DEF Somewhere

(* Nothing is lost in a step without faults. *)
LEMMA StepNothingLost ==
  ASSUME ~ Faulty, Deliverable, Core, NothingLost, [Next]_vars
  PROVE  NothingLost'
<1> USE DEF deviceVars, serverVars
<1>1. CASE UNCHANGED vars
  BY <1>1, StayingPut DEF vars, sessionVars, NothingLost
<1>2. CASE Next
  <2>1. UNCHANGED setting
    BY <1>2 DEF Next
  <2>2. \A dm \in published : dm[2] \in Message
    BY DEF Core, TypeOK
  <2>3. CASE \/ \E d \in Dev : Begin(d) \/ Send(d) \/ Take(d)
             \/ \E rq \in inbox : Drop(rq)
             \/ Notify \/ FetchFails \/ FetchEmpty \/ Transfer
    <3>1. UNCHANGED <<fetched, queue, wire, executed, published>>
      BY <2>3 DEF Begin, Send, Take, Drop, Notify, FetchFails, FetchEmpty, Transfer
    <3>2. (\A rq \in inbox : rq.live)' /\ (stage # "idle" => current.live)'
      <4>1. CASE \E d \in Dev : Send(d)
        <5>1. UNCHANGED <<stage, current>> /\ \E rq : rq.live /\ inbox' = inbox \cup {rq}
          BY <4>1 DEF Send
        <5> QED
          BY <5>1 DEF NothingLost
      <4>2. CASE \E d \in Dev : Take(d)
        <5>1. \E rq \in inbox : inbox' \subseteq inbox /\ current' = rq
          BY <4>2 DEF Take
        <5> QED
          BY <5>1 DEF NothingLost
      <4>3. CASE \/ \E d \in Dev : Begin(d)
                 \/ \E rq \in inbox : Drop(rq)
                 \/ Notify \/ FetchFails \/ FetchEmpty \/ Transfer
        <5>1. inbox' \subseteq inbox /\ current' = current /\ (stage' # "idle" => stage # "idle")
          BY <4>3 DEF Begin, Drop, Notify, FetchFails, FetchEmpty, Transfer
        <5> QED
          BY <5>1 DEF NothingLost
      <4> QED
        BY <2>3, <4>1, <4>2, <4>3
    <3> QED
      BY <2>1, <3>1, <3>2, StayingPut DEF NothingLost
  <2>4. CASE \E d \in Dev : Receive(d)
    <3>1. UNCHANGED <<inbox, stage, current, published>>
      BY <2>4 DEF Receive
    <3> QED
      BY <2>1, <2>2, <2>4, <3>1, ReceiveKeeps DEF NothingLost
  <2>5. CASE \E d \in Dev, m \in Message : Publish(d, m)
    <3>1. PICK d \in Dev, m \in Message : Publish(d, m)
      BY <2>5
    <3>2. UNCHANGED <<inbox, stage, current>> /\ published' = published \cup {<<d, m>>}
      BY <3>1 DEF Publish
    <3>3. ASSUME NEW dm \in published' PROVE Somewhere(dm[2])'
      <4>1. PICK n \in Message : n = dm[2] /\ (Somewhere(n) \/ n = m)
        BY <2>2, <3>2, <3>3 DEF NothingLost
      <4>2. Somewhere(n)'
        BY <2>1, <3>1, <4>1, PublishKeeps
      <4> QED
        BY <4>1, <4>2
    <3> QED
      BY <3>2, <3>3 DEF NothingLost
  <2>6. CASE FetchGets
    <3>1. UNCHANGED <<inbox, current, published>> /\ stage # "idle"
      BY <2>6 DEF FetchGets
    <3> QED
      BY <2>1, <2>2, <2>6, <3>1, FetchKeeps DEF NothingLost
  <2>7. CASE Answer
    <3>1. UNCHANGED <<inbox, published>> /\ stage # "idle" /\ stage' = "idle"
      BY <2>7 DEF Answer
    <3> QED
      BY <2>1, <2>2, <2>7, <3>1, AnswerKeeps DEF NothingLost
  <2>8. CASE (\E d \in Dev : GiveUp(d)) \/ Crash \/ \E q \in Queues : Expire(q)
    BY <2>8 DEF GiveUp, Crash, Expire
  <2> QED
    BY <1>2, <2>3, <2>4, <2>5, <2>6, <2>7, <2>8 DEF Next, ServerStep
<1> QED
  BY <1>1, <1>2

(***************************************************************************)
(* When no call fails and nobody gives up, and every message is one that   *)
(* send_response can make an operation of, what the backend has queued is  *)
(* in the queue, in the ACS, on its way or carried out.                    *)
(***************************************************************************)
THEOREM NothingIsLost ==
  ASSUME Deliverable
  PROVE  Spec => []NothingVanishes
<1>1. CASE Faulty
  <2>1. NothingVanishes
    BY <1>1 DEF NothingVanishes
  <2> QED
    BY <2>1, PTL
<1>2. CASE ~ Faulty
  <2>1. Init => Core /\ NothingLost
    BY InitCore DEF Init, NothingLost
  <2>2. Core /\ NothingLost /\ [Next]_vars => (Core /\ NothingLost)'
    BY <1>2, StepCore, StepNothingLost
  <2>3. Core /\ NothingLost => NothingVanishes
    <3>1. ASSUME Core, NEW m, Somewhere(m) PROVE Places(m) # {}
      <4>1. CASE InAcs(m)
        <5>1. <<"acs", 1>> \in Held(m)
          BY <3>1, <4>1 DEF InAcs, Held, Core, TypeOK
        <5> QED
          BY <5>1 DEF Places
      <4>2. CASE \E q \in Queues : \E i \in DOMAIN queue[q] : InQueue(m, q, i)
        <5>1. PICK q \in Queues : \E i \in DOMAIN queue[q] : InQueue(m, q, i)
          BY <4>2
        <5>2. PICK i \in DOMAIN queue[q] : queue[q][i] = m
          BY <5>1 DEF InQueue
        <5>3. <<"queue", q, i>> \in Queued(m)
          BY <5>2 DEF Queued
        <5> QED
          BY <5>3 DEF Places
      <4>3. CASE \E d \in Dev : ToDevice(m, d)
        BY <4>3 DEF ToDevice, OnWire, Places
      <4>4. CASE \E d \in Dev : \E i \in DOMAIN executed[d] : DoneBy(m, d, i)
        <5>1. PICK d \in Dev : \E i \in DOMAIN executed[d] : DoneBy(m, d, i)
          BY <4>4
        <5>2. PICK i \in DOMAIN executed[d] : executed[d][i] = m
          BY <5>1 DEF DoneBy
        <5>3. <<"device", d, i>> \in Executed(m)
          BY <5>2 DEF Executed
        <5> QED
          BY <5>3 DEF Places
      <4> QED
        BY <3>1, <4>1, <4>2, <4>3, <4>4 DEF Somewhere
    <3> QED
      BY <3>1 DEF NothingLost, NothingVanishes
  <2> QED
    BY <2>1, <2>2, <2>3, PTL DEF Spec
<1> QED
  BY <1>1, <1>2

-----------------------------------------------------------------------------
(***************************************************************************)
(* Sequences: what the steps of OperationQueue make of a queue behind what *)
(* is in hand.                                                             *)
(***************************************************************************)

(* The head of what is behind h is lost. *)
LEMMA LosesHead ==
  ASSUME NEW S, NEW h \in Seq(S), NEW q \in Seq(S), q # <<>>
  PROVE  \E i \in DOMAIN (h \o q) :
           h \o Tail(q) = SubSeq(h \o q, 1, i - 1) \o SubSeq(h \o q, i + 1, Len(h \o q))
<1> DEFINE s == h \o q
           k == Len(h) + 1
           a == SubSeq(s, 1, k - 1)
           b == SubSeq(s, k + 1, Len(s))
<1>1. /\ s \in Seq(S) /\ Len(s) = Len(h) + Len(q) /\ Len(h) \in Nat
      /\ Len(q) \in Nat /\ Len(q) >= 1
      /\ \A i \in 1..Len(s) : s[i] = IF i <= Len(h) THEN h[i] ELSE q[i - Len(h)]
  BY ConcatProperties
<1>2. /\ Tail(q) \in Seq(S) /\ Len(Tail(q)) = Len(q) - 1
      /\ \A i \in 1..Len(q) - 1 : Tail(q)[i] = q[i + 1]
  BY HeadTailProperties
<1> HIDE DEF s
<1>3. \A i \in 1..Len(s) : s[i] \in S
  BY <1>1
<1>4. /\ a \in Seq(S) /\ Len(a) = Len(h)
      /\ \A i \in 1..Len(h) : a[i] = h[i]
  <2>1. /\ k - 1 = Len(h) /\ 1 \in Int /\ Len(h) \in Int
        /\ \A i \in 1..Len(h) : s[i] \in S /\ s[i] = h[i]
    BY <1>1, <1>3
  <2>2. /\ SubSeq(s, 1, Len(h)) \in Seq(S)
        /\ Len(SubSeq(s, 1, Len(h))) = IF 1 <= Len(h) THEN Len(h) - 1 + 1 ELSE 0
        /\ \A i \in 1..Len(h) - 1 + 1 : SubSeq(s, 1, Len(h))[i] = s[1 + i - 1]
    BY <2>1, SubSeqProperties
  <2> QED
    BY <1>1, <2>1, <2>2
<1>5. /\ b \in Seq(S) /\ Len(b) = Len(q) - 1
      /\ \A i \in 1..Len(q) - 1 : b[i] = q[i + 1]
  <2>1. k + 1 \in Int /\ Len(s) \in Int /\ \A i \in k + 1..Len(s) : s[i] \in S
    BY <1>1, <1>3
  <2>2. /\ b \in Seq(S)
        /\ Len(b) = IF k + 1 <= Len(s) THEN Len(s) - (k + 1) + 1 ELSE 0
        /\ \A i \in 1..Len(s) - (k + 1) + 1 : b[i] = s[(k + 1) + i - 1]
    BY <2>1, SubSeqProperties
  <2> HIDE DEF b
  <2>3. k + 1 = Len(h) + 2 /\ Len(s) - (k + 1) + 1 = Len(q) - 1
    BY <1>1
  <2>4. (k + 1 <= Len(s)) <=> Len(q) >= 2
    BY <1>1
  <2>5. ~ (Len(q) >= 2) => Len(q) - 1 = 0
    <3>1. \A n \in Nat : n >= 1 /\ ~ (n >= 2) => n - 1 = 0
      OBVIOUS
    <3> QED
      BY <1>1, <3>1
  <2>6. ASSUME NEW i \in 1..Len(q) - 1 PROVE b[i] = q[i + 1]
    <3>1. b[i] = s[Len(h) + 2 + i - 1]
      BY <2>2, <2>3
    <3>2. /\ Len(h) + 2 + i - 1 \in 1..Len(s) /\ ~ (Len(h) + 2 + i - 1 <= Len(h))
          /\ Len(h) + 2 + i - 1 - Len(h) = i + 1
      BY <1>1
    <3> QED
      BY <1>1, <3>1, <3>2, SMTT(30)
  <2>7. Len(b) = Len(q) - 1
    BY <2>2, <2>3, <2>4, <2>5
  <2> QED
    BY <2>2, <2>6, <2>7
<1> HIDE DEF a, b
<1>6. h \o Tail(q) = a \o b
  <2>1. a = h
    BY <1>4, SeqEqual
  <2>2. b = Tail(q)
    BY <1>2, <1>5, SeqEqual
  <2> QED
    BY <2>1, <2>2
<1>7. k \in DOMAIN s
  BY <1>1
<1> QED
  BY <1>6, <1>7 DEF s, a, b

(* The one message in hand is lost. *)
LEMMA LosesHand ==
  ASSUME NEW S, NEW m \in S, NEW q \in Seq(S)
  PROVE  /\ Head(<<m>> \o q) = m /\ Tail(<<m>> \o q) = q /\ <<m>> \o q # <<>>
         /\ \E i \in DOMAIN (<<m>> \o q) :
              q = SubSeq(<<m>> \o q, 1, i - 1) \o SubSeq(<<m>> \o q, i + 1, Len(<<m>> \o q))
<1> DEFINE s == <<m>> \o q
<1>1. <<m>> \in Seq(S) /\ Len(<<m>>) = 1 /\ <<m>>[1] = m
  OBVIOUS
<1>2. /\ s \in Seq(S) /\ Len(s) = 1 + Len(q) /\ Len(q) \in Nat
      /\ \A i \in 1..1 + Len(q) : s[i] = IF i <= 1 THEN <<m>>[i] ELSE q[i - 1]
  BY <1>1, ConcatProperties
<1> HIDE DEF s
<1>3. s # <<>> /\ Head(s) = m
  BY <1>1, <1>2
<1>4. /\ Tail(s) \in Seq(S) /\ Len(Tail(s)) = Len(s) - 1
      /\ \A i \in 1..Len(Tail(s)) : Tail(s)[i] = s[i + 1]
  BY <1>2, <1>3, HeadTailProperties
<1>5. Tail(s) = q
  <2>1. Len(Tail(s)) = Len(q) /\ \A i \in 1..Len(Tail(s)) : Tail(s)[i] = q[i]
    BY <1>2, <1>4
  <2> QED
    BY <1>4, <2>1, SeqEqual
<1>6. \E i \in DOMAIN s : q = SubSeq(s, 1, i - 1) \o SubSeq(s, i + 1, Len(s))
  <2>1. <<>> \in Seq(S) /\ <<>> \o s = s /\ <<>> \o Tail(s) = Tail(s)
    BY <1>2, <1>4, ConcatEmptySeq
  <2>2. \E i \in DOMAIN (<<>> \o s) :
          <<>> \o Tail(s) = SubSeq(<<>> \o s, 1, i - 1) \o SubSeq(<<>> \o s, i + 1, Len(<<>> \o s))
    BY <1>2, <1>3, <2>1, LosesHead
  <2> QED
    BY <1>5, <2>1, <2>2
<1> QED
  BY <1>3, <1>5, <1>6 DEF s

(* A queue is its head and its tail. *)
LEMMA TakenApart ==
  ASSUME NEW S, NEW q \in Seq(S), q # <<>>
  PROVE  <<Head(q)>> \o Tail(q) = q
<1>1. 1 \in 1..Len(q) /\ Len(q) \in 1..Len(q) /\ Head(q) = q[1]
  OBVIOUS
<1>2. SubSeq(q, 1, Len(q)) = <<q[1]>> \o SubSeq(q, 1 + 1, Len(q))
  BY <1>1, SubSeqRecursiveFirst
<1>3. SubSeq(q, 1, Len(q)) = q /\ Tail(q) = SubSeq(q, 2, Len(q))
  BY SubSeqFull, TailIsSubSeq
<1> QED
  BY <1>1, <1>2, <1>3

(* All that is behind h is lost. *)
LEMMA KeepsHand ==
  ASSUME NEW S, NEW h \in Seq(S), NEW q \in Seq(S)
  PROVE  /\ Len(h) <= Len(h \o q)
         /\ SubSeq(h \o q, 1, Len(h)) = h \o <<>>
<1> DEFINE s == h \o q
           a == SubSeq(s, 1, Len(h))
<1>1. /\ s \in Seq(S) /\ Len(s) = Len(h) + Len(q) /\ Len(h) \in Nat /\ Len(q) \in Nat
      /\ \A i \in 1..Len(h) : s[i] = h[i] /\ s[i] \in S
  BY ConcatProperties
<1> HIDE DEF s
<1>2. 1 \in Int /\ Len(h) \in Int
  BY <1>1
<1>3. /\ a \in Seq(S) /\ Len(a) = IF 1 <= Len(h) THEN Len(h) - 1 + 1 ELSE 0
      /\ \A i \in 1..Len(h) - 1 + 1 : a[i] = s[1 + i - 1]
  BY <1>1, <1>2, SubSeqProperties
<1> HIDE DEF a
<1>4. Len(a) = Len(h) /\ \A i \in 1..Len(h) : a[i] = h[i]
  BY <1>1, <1>3
<1>5. a = h
  BY <1>3, <1>4, SeqEqual
<1>6. h \o <<>> = h
  BY ConcatEmptySeq
<1>7. Len(h) <= Len(s)
  BY <1>1
<1> QED
  BY <1>5, <1>6, <1>7 DEF s, a

(* What is queued comes last. *)
LEMMA QueuedLast ==
  ASSUME NEW S, NEW h \in Seq(S), NEW q \in Seq(S), NEW m \in S
  PROVE  h \o Append(q, m) = Append(h \o q, m)
<1>1. h \o q \in Seq(S) /\ <<m>> \in Seq(S)
  BY ConcatProperties
<1>2. Append(q, m) = q \o <<m>> /\ Append(h \o q, m) = (h \o q) \o <<m>>
  BY <1>1, AppendIsConcat
<1>3. (h \o q) \o <<m>> = h \o (q \o <<m>>)
  BY <1>1, ConcatAssociative
<1> QED
  BY <1>2, <1>3

-----------------------------------------------------------------------------
(***************************************************************************)
(* The refinement: what is in hand for a device, by where it is.           *)
(***************************************************************************)
Holding(d) == /\ stage \in {"transfer", "reply"} /\ fetched # <<>>
              /\ current.dev = d /\ current.live
              /\ fetched[1].form = "operation"

\* The message that a reply names, if it names one.
Named(reply) == LET ms == MessageIn(reply)
                IN  IF ms = {} THEN <<>> ELSE <<CHOOSE m \in ms : TRUE>>

(* A reply names the one message that has its id. *)
LEMMA NamedMessage ==
  ASSUME NEW r
  PROVE  /\ \A m \in Message : r.entity = m.id => Named(r) = <<m>>
         /\ (\A m \in Message : r.entity # m.id) => Named(r) = <<>>
         /\ Named(r) = <<>> \/ \E m \in Message : Named(r) = <<m>>
         /\ \A m \in MessageIn(r) : m \in Message /\ Named(r) = <<m>>
<1>1. ASSUME NEW m \in Message, r.entity = m.id PROVE Named(r) = <<m>>
  <2>1. MessageIn(r) = {m}
    BY <1>1, MessageFields DEF MessageIn
  <2>2. (CHOOSE n \in {m} : TRUE) = m
    OBVIOUS
  <2> QED
    BY <2>1, <2>2 DEF Named
<1>2. ASSUME \A m \in Message : r.entity # m.id PROVE Named(r) = <<>>
  BY <1>2 DEF Named, MessageIn
<1>3. \A m \in MessageIn(r) : m \in Message /\ r.entity = m.id
  BY DEF MessageIn
<1> QED
  BY <1>1, <1>2, <1>3

(* What is in hand, now and after a step. *)
LEMMA HandIs ==
  ASSUME NEW d \in Dev
  PROVE  /\ InHand(d) = IF wire[d] # <<>> THEN Named(wire[d][1])
                         ELSE IF Holding(d) THEN fetched ELSE <<>>
         /\ InHand(d)' = IF wire'[d] # <<>> THEN Named(wire'[d][1])
                          ELSE IF Holding(d)' THEN fetched' ELSE <<>>
BY DEF InHand, Holding, Named

(* At most one message is in hand, and a reply on the wire is it. *)
LEMMA HandType ==
  ASSUME Core, NEW d \in Dev
  PROVE  /\ InHand(d) = <<>> \/ \E m \in Message : InHand(d) = <<m>>
         /\ InHand(d) \in Seq(Message)
         /\ queue[QueueOf[d]] \in Seq(Message)
         /\ Holding(d) => wire[d] = <<>>
<1>1. InHand(d) = <<>> \/ \E m \in Message : InHand(d) = <<m>>
  <2>1. fetched = <<>> \/ \E m \in Message : fetched = <<m>>
    BY DEF Core, TypeOK
  <2> QED
    BY <2>1, HandIs, NamedMessage
<1>2. Holding(d) => wire[d] = <<>>
  BY DEF Holding, Core, Outstanding, InTheWorks, AsSent
<1>3. queue[QueueOf[d]] \in Seq(Message)
  BY QueueNames DEF Core, TypeOK
<1>4. <<>> \in Seq(Message) /\ \A m \in Message : <<m>> \in Seq(Message)
  OBVIOUS
<1> QED
  BY <1>1, <1>2, <1>3, <1>4

(* A step that changes what is pending for one device. *)
LEMMA OneDevice ==
  ASSUME Unshared, UNCHANGED setting, NEW d \in Dev,
         \A e \in Dev \ {d} : /\ InHand(e)' = InHand(e)
                              /\ queue'[QueueOf[e]] = queue[QueueOf[e]]
  PROVE  /\ PendingOperations[d] = InHand(d) \o queue[QueueOf[d]]
         /\ PendingOperations' =
              [PendingOperations EXCEPT ![d] = InHand(d)' \o queue'[QueueOf[d]]]
         /\ ExecutedOperations = executed /\ ExecutedOperations' = executed'
<1>1. Unshared' /\ QueueOf' = QueueOf
  BY SameSetting
<1>2. PendingOperations = [e \in Dev |-> InHand(e) \o queue[QueueOf[e]]]
  BY DEF PendingOperations
<1>3. PendingOperations' = [e \in Dev |-> InHand(e)' \o queue'[QueueOf[e]]]
  BY <1>1 DEF PendingOperations
<1> QED
  BY <1>1, <1>2, <1>3 DEF ExecutedOperations

(* A step that changes what is pending for nobody. *)
LEMMA NoDevice ==
  ASSUME UNCHANGED <<setting, queue, executed>>,
         Unshared => \A e \in Dev : InHand(e)' = InHand(e)
  PROVE  UNCHANGED Promise!vars
<1>1. Unshared' = Unshared /\ QueueOf' = QueueOf
  BY SameSetting
<1>2. CASE Unshared
  <2>1. PendingOperations = [e \in Dev |-> InHand(e) \o queue[QueueOf[e]]]
    BY <1>2 DEF PendingOperations
  <2>2. PendingOperations' = [e \in Dev |-> InHand(e)' \o queue'[QueueOf[e]]]
    BY <1>1, <1>2 DEF PendingOperations
  <2>3. PendingOperations' = PendingOperations
    BY <1>2, <2>1, <2>2
  <2> QED
    BY <1>1, <1>2, <2>3 DEF ExecutedOperations, Promise!vars
<1>3. CASE ~ Unshared
  BY <1>1, <1>3 DEF PendingOperations, ExecutedOperations, Promise!vars
<1> QED
  BY <1>2, <1>3

(* A queue that is shared promises nothing. *)
LEMMA SharedPromise ==
  ASSUME ~ Unshared, UNCHANGED setting
  PROVE  UNCHANGED Promise!vars
BY SameSetting DEF PendingOperations, ExecutedOperations, Promise!vars

(* A step in which a device loses what is in hand for it, or keeps it. *)
LEMMA LoseInHand ==
  ASSUME Core, UNCHANGED <<setting, queue, executed>>, NEW d \in Dev,
         \A e \in Dev \ {d} : InHand(e)' = InHand(e),
         InHand(d)' = InHand(d) \/ InHand(d)' = <<>>
  PROVE  [Promise!Next]_(Promise!vars)
<1>1. CASE ~ Unshared \/ InHand(d)' = InHand(d)
  BY <1>1, SharedPromise, NoDevice
<1>2. CASE Unshared /\ InHand(d) # <<>> /\ InHand(d)' = <<>>
  <2>1. PICK m \in Message : InHand(d) = <<m>>
    BY <1>2, HandType
  <2>2. PICK q \in Seq(Message) : q = queue[QueueOf[d]]
    BY HandType
  <2>3. /\ PendingOperations[d] = <<m>> \o q
        /\ PendingOperations' = [PendingOperations EXCEPT ![d] = <<>> \o q]
        /\ ExecutedOperations' = ExecutedOperations
    BY <1>2, <2>1, <2>2, OneDevice
  <2>4. <<>> \o q = q
    BY ConcatEmptySeq
  <2>5. \E i \in DOMAIN (<<m>> \o q) :
          q = SubSeq(<<m>> \o q, 1, i - 1) \o SubSeq(<<m>> \o q, i + 1, Len(<<m>> \o q))
    BY LosesHand
  <2>6. Promise!Lose(d)
    BY <2>3, <2>4, <2>5 DEF Promise!Lose
  <2> QED
    BY <2>6 DEF Promise!Next
<1> QED
  BY <1>1, <1>2

(* Publish queues an operation for the device. *)
LEMMA PublishPromise ==
  ASSUME Core, UNCHANGED setting, NEW d \in Dev, NEW m \in Message, Publish(d, m)
  PROVE  [Promise!Next]_(Promise!vars)
<1>1. CASE ~ Unshared
  BY <1>1, SharedPromise
<1>2. CASE Unshared
  <2>1. /\ UNCHANGED <<stage, current, fetched, wire, executed>>
        /\ queue' = [queue EXCEPT ![QueueOf[d]] = Append(@, m)]
    BY DEF Publish, serverVars
  <2>2. \A e \in Dev : InHand(e)' = InHand(e)
    BY <2>1, HandIs DEF Holding
  <2>3. \A e \in Dev \ {d} : QueueOf[e] # QueueOf[d]
    BY <1>2 DEF Unshared, OwnQueues, QueueOf
  <2>4. /\ \A e \in Dev \ {d} : queue'[QueueOf[e]] = queue[QueueOf[e]]
        /\ queue'[QueueOf[d]] = Append(queue[QueueOf[d]], m)
    BY <2>1, <2>3, QueueNames DEF Core, TypeOK
  <2>5. InHand(d) \o Append(queue[QueueOf[d]], m) = Append(InHand(d) \o queue[QueueOf[d]], m)
    BY HandType, QueuedLast
  <2>6. /\ PendingOperations' =
             [PendingOperations EXCEPT ![d] = Append(PendingOperations[d], m)]
        /\ ExecutedOperations' = ExecutedOperations
    BY <1>2, <2>1, <2>2, <2>4, <2>5, OneDevice
  <2>7. Promise!Enqueue(d, m)
    BY <2>6 DEF Promise!Enqueue
  <2> QED
    BY <2>7 DEF Promise!Next
<1> QED
  BY <1>1, <1>2

(* Expire loses what nobody has collected, and nothing that is in hand. *)
LEMMA ExpirePromise ==
  ASSUME Core, UNCHANGED setting, NEW q \in Queues, Expire(q)
  PROVE  [Promise!Next]_(Promise!vars)
<1>1. CASE ~ Unshared
  BY <1>1, SharedPromise
<1>2. CASE Unshared
  <2>1. PICK d \in Dev : q = QueueOf[d]
    BY DEF Queues
  <2>2. /\ UNCHANGED <<stage, current, fetched, wire, executed>>
        /\ queue' = [queue EXCEPT ![QueueOf[d]] = <<>>]
    BY <2>1 DEF Expire, serverVars
  <2>3. \A e \in Dev : InHand(e)' = InHand(e)
    BY <2>2, HandIs DEF Holding
  <2>4. \A e \in Dev \ {d} : QueueOf[e] # QueueOf[d]
    BY <1>2 DEF Unshared, OwnQueues, QueueOf
  <2>5. /\ \A e \in Dev \ {d} : queue'[QueueOf[e]] = queue[QueueOf[e]]
        /\ queue'[QueueOf[d]] = <<>>
    BY <2>2, <2>4, QueueNames DEF Core, TypeOK
  <2>6. PICK h \in Seq(Message), r \in Seq(Message) :
          h = InHand(d) /\ r = queue[QueueOf[d]] /\ Len(h) \in 0..1
    BY HandType
  <2>7. Len(h) <= Len(h \o r) /\ SubSeq(h \o r, 1, Len(h)) = h \o <<>>
    BY KeepsHand
  <2>8. /\ PendingOperations[d] = h \o r
        /\ PendingOperations' = [PendingOperations EXCEPT ![d] = h \o <<>>]
        /\ ExecutedOperations' = ExecutedOperations
    BY <1>2, <2>2, <2>3, <2>5, <2>6, OneDevice
  <2>9. Promise!Expire(d)
    BY <2>6, <2>7, <2>8 DEF Promise!Expire
  <2> QED
    BY <2>9 DEF Promise!Next
<1> QED
  BY <1>1, <1>2

(* A device that carries out an operation carries out the next one pending. *)
LEMMA ReceivePromise ==
  ASSUME Core, UNCHANGED setting, NEW d \in Dev, Receive(d)
  PROVE  [Promise!Next]_(Promise!vars)
<1>1. /\ wire[d] # <<>> /\ wire' = [wire EXCEPT ![d] = <<>>]
      /\ UNCHANGED <<stage, current, fetched, queue>>
  BY DEF Receive, serverVars
<1>2. wire'[d] = <<>> /\ \A e \in Dev \ {d} : wire'[e] = wire[e]
  BY <1>1 DEF Core, TypeOK
<1>3. /\ InHand(d)' = <<>> /\ InHand(d) = Named(wire[d][1])
      /\ \A e \in Dev \ {d} : InHand(e)' = InHand(e)
  <2>1. \A e \in Dev : Holding(e)' = Holding(e)
    BY <1>1 DEF Holding
  <2>2. ~ Holding(d)
    BY <1>1, HandType
  <2> QED
    BY <1>1, <1>2, <2>1, <2>2, HandIs
<1>4. CASE UNCHANGED executed
  BY <1>1, <1>3, <1>4, LoseInHand
<1>5. CASE ~ Unshared
  BY <1>5, SharedPromise
<1>6. CASE Unshared /\ \E m \in MessageIn(wire[d][1]) : executed' = [executed EXCEPT ![d] = Append(@, m)]
  <2>1. PICK m \in MessageIn(wire[d][1]) : executed' = [executed EXCEPT ![d] = Append(@, m)]
    BY <1>6
  <2>2. m \in Message /\ InHand(d) = <<m>>
    BY <1>3, <2>1, NamedMessage
  <2>3. PICK q \in Seq(Message) : q = queue[QueueOf[d]]
    BY HandType
  <2>4. <<m>> \o q # <<>> /\ Head(<<m>> \o q) = m /\ Tail(<<m>> \o q) = <<>> \o q
    <3>1. <<>> \o q = q
      BY ConcatEmptySeq
    <3>2. <<m>> \o q # <<>> /\ Head(<<m>> \o q) = m /\ Tail(<<m>> \o q) = q
      BY <2>2, LosesHand, SMTT(30), ZenonT(40)
    <3> QED
      BY <3>1, <3>2
  <2>5. /\ PendingOperations[d] = <<m>> \o q
        /\ PendingOperations' = [PendingOperations EXCEPT ![d] = <<>> \o q]
        /\ ExecutedOperations = executed /\ ExecutedOperations' = executed'
    BY <1>1, <1>3, <1>6, <2>2, <2>3, OneDevice
  <2>6. Promise!Execute(d)
    BY <2>1, <2>4, <2>5 DEF Promise!Execute
  <2> QED
    BY <2>6 DEF Promise!Next
<1> QED
  BY <1>4, <1>5, <1>6 DEF Receive

(* What is fetched for a device that waits stays in hand; else it is lost. *)
LEMMA FetchPromise ==
  ASSUME Core, UNCHANGED setting, FetchGets
  PROVE  [Promise!Next]_(Promise!vars)
<1>1. CASE ~ Unshared
  BY <1>1, SharedPromise
<1>2. CASE Unshared
  <2>1. PICK d \in Dev : d = current.dev
    BY FetchMoves
  <2>2. PICK q, h : q = queue[QueueOf[d]] /\ h = InHand(d)
    OBVIOUS
  <2>3. /\ q \in Seq(Message) /\ q # <<>> /\ h \in Seq(Message)
    BY <2>1, <2>2, HandType DEF FetchGets, QueueRead
  <2>4. Head(q) \in Message /\ Tail(q) \in Seq(Message)
    BY <2>3, HeadTailProperties
  <2>5. /\ UNCHANGED <<current, wire, executed>> /\ fetched = <<>>
        /\ fetched' = <<Head(q)>> /\ stage' = "transfer"
        /\ queue' = [queue EXCEPT ![QueueOf[d]] = Tail(q)]
    BY <2>1, <2>2 DEF FetchGets, QueueRead, AfterGet, Core, Fetching
  <2>6. \A e \in Dev \ {d} : QueueOf[e] # QueueOf[d]
    BY <1>2 DEF Unshared, OwnQueues, QueueOf
  <2>7. /\ \A e \in Dev \ {d} : queue'[QueueOf[e]] = queue[QueueOf[e]]
        /\ queue'[QueueOf[d]] = Tail(q)
    BY <2>5, <2>6, QueueNames DEF Core, TypeOK
  <2>8. \A e \in Dev : ~ Holding(e) /\ (e # d => ~ Holding(e)')
    BY <2>1, <2>5 DEF Holding
  <2>9. \A e \in Dev \ {d} : InHand(e)' = InHand(e)
    BY <2>5, <2>8, HandIs
  <2>10. /\ PendingOperations[d] = h \o q
         /\ PendingOperations' = [PendingOperations EXCEPT ![d] = InHand(d)' \o Tail(q)]
         /\ ExecutedOperations' = ExecutedOperations
    BY <1>2, <2>2, <2>5, <2>7, <2>9, OneDevice
  <2>11. CASE InHand(d)' = h
    <3>1. \E i \in DOMAIN (h \o q) :
            h \o Tail(q) = SubSeq(h \o q, 1, i - 1) \o SubSeq(h \o q, i + 1, Len(h \o q))
      BY <2>3, LosesHead
    <3>2. Promise!Lose(d)
      BY <2>10, <2>11, <3>1 DEF Promise!Lose
    <3> QED
      BY <3>2 DEF Promise!Next
  <2>12. CASE InHand(d)' # h
    <3>1. h = <<>> /\ InHand(d)' = <<Head(q)>>
      BY <2>2, <2>5, <2>8, <2>12, HandIs
    <3>2. <<Head(q)>> \o Tail(q) = q /\ <<>> \o q = q
      BY <2>3, TakenApart, ConcatEmptySeq
    <3>3. UNCHANGED Promise!vars
      <4>1. PendingOperations' = [PendingOperations EXCEPT ![d] = PendingOperations[d]]
        BY <2>10, <3>1, <3>2
      <4>2. PendingOperations' = PendingOperations
        BY <4>1 DEF PendingOperations
      <4> QED
        BY <2>10, <4>2 DEF Promise!vars
    <3> QED
      BY <3>3
  <2> QED
    BY <2>11, <2>12
<1> QED
  BY <1>1, <1>2

(* What is in hand in the ACS is in hand on the wire, and nothing else is. *)
LEMMA AnswerPromise ==
  ASSUME Core, UNCHANGED setting, Answer
  PROVE  [Promise!Next]_(Promise!vars)
<1>1. /\ stage = "reply" /\ stage' = "idle" /\ UNCHANGED <<setting, queue, executed>>
      /\ current \in RequestType /\ current.dev \in Dev
      /\ wire' = IF current.live
                   THEN [wire EXCEPT ![current.dev] =
                           <<NotifiedReply(View(current), TagOf(current), failed, fetched)>>]
                   ELSE wire
  BY DEF Answer, Core, TypeOK, RequestType
<1>2. \A e \in Dev : ~ Holding(e)' /\ (e # current.dev \/ ~ current.live => ~ Holding(e))
  BY <1>1 DEF Holding
<1>3. \A e \in Dev : e # current.dev \/ ~ current.live => wire'[e] = wire[e]
  BY <1>1 DEF Core, TypeOK
<1>4. \A e \in Dev : e # current.dev \/ ~ current.live => InHand(e)' = InHand(e)
  BY <1>2, <1>3, HandIs
<1>5. ASSUME NEW d \in Dev, d = current.dev, current.live PROVE InHand(d)' = InHand(d)
  <2>1. PICK reply : reply = NotifiedReply(View(current), TagOf(current), failed, fetched)
    BY <1>1
  <2>2. wire[d] = <<>> /\ wire'[d] = <<reply>> /\ wire'[d] # <<>> /\ wire'[d][1] = reply
    BY <1>1, <1>5, <2>1 DEF Core, TypeOK, Outstanding, InTheWorks, AsSent
  <2>3. InHand(d)' = Named(reply) /\ InHand(d) = IF Holding(d) THEN fetched ELSE <<>>
    BY <2>2, HandIs
  <2>4. failed \in BOOLEAN /\ (fetched # <<>> => fetched[1] \in Message /\ fetched = <<fetched[1]>>)
    BY DEF Core, TypeOK
  <2>5. CASE Holding(d)
    <3>1. /\ fetched # <<>> /\ fetched[1].form = "operation" /\ ~ failed
          /\ NeedsFetch(View(current), TagOf(current))
      BY <2>5 DEF Holding, Core, Fetching, Wanted
    <3>2. reply = Reply(200, fetched[1].cookie, fetched[1].id)
      BY <2>1, <3>1 DEF NeedsFetch, NotifiedReply, FetchReply
    <3>3. Named(reply) = fetched
      BY <2>4, <3>1, <3>2, NamedMessage DEF Reply
    <3> QED
      BY <2>3, <2>5, <3>3
  <2>6. CASE ~ Holding(d)
    <3>1. ASSUME NEW m \in Message, reply.entity = m.id PROVE FALSE
      <4>1. fetched # <<>> /\ fetched[1] = m /\ m.form = "operation"
        BY <2>1, <2>4, <3>1, ReplyToMessage
      <4> QED
        BY <1>1, <1>5, <2>6, <4>1 DEF Holding
    <3>2. Named(reply) = <<>>
      BY <3>1, NamedMessage
    <3> QED
      BY <2>3, <2>6, <3>2
  <2> QED
    BY <2>5, <2>6
<1>6. \A e \in Dev : InHand(e)' = InHand(e)
  BY <1>4, <1>5
<1> QED
  BY <1>1, <1>6, NoDevice

(* A device that gives up, and an ACS that fails, lose what is in hand. *)
LEMMA FailurePromise ==
  ASSUME Core, UNCHANGED setting,
         (\E d \in Dev : GiveUp(d)) \/ Transfer \/ Crash
  PROVE  [Promise!Next]_(Promise!vars)
<1>1. CASE \E d \in Dev : GiveUp(d)
  <2>1. PICK d \in Dev : GiveUp(d)
    BY <1>1
  <2>2. /\ wire' = [wire EXCEPT ![d] = <<>>] /\ UNCHANGED <<stage, fetched, queue, executed>>
        /\ current' = IF stage = "idle" THEN current ELSE Disown(d, current)
    BY <2>1 DEF GiveUp
  <2>3. wire'[d] = <<>> /\ \A e \in Dev \ {d} : wire'[e] = wire[e]
    BY <2>2 DEF Core, TypeOK
  <2>4. stage # "idle" =>
          /\ current'.dev = current.dev /\ (current'.live => current.dev # d)
          /\ current.dev # d => current' = current
    BY <2>2, DisownedRequest DEF Core, TypeOK
  <2>5. ~ Holding(d)' /\ \A e \in Dev \ {d} : Holding(e)' = Holding(e)
    <3>1. CASE stage \in {"transfer", "reply"}
      BY <2>2, <2>4, <3>1 DEF Holding
    <3>2. CASE stage \notin {"transfer", "reply"}
      BY <2>2, <3>2 DEF Holding
    <3> QED
      BY <3>1, <3>2
  <2>6. InHand(d)' = <<>> /\ \A e \in Dev \ {d} : InHand(e)' = InHand(e)
    BY <2>2, <2>3, <2>5, HandIs
  <2> QED
    BY <2>2, <2>6, LoseInHand
<1>2. CASE Transfer \/ Crash
  <2>1. /\ UNCHANGED <<wire, queue, executed>>
        /\ \/ /\ UNCHANGED <<current, fetched>>
              /\ stage = "transfer" /\ stage' = "reply"
           \/ fetched' = <<>>
    BY <1>2 DEF Transfer, Crash
  <2>2. CASE fetched' = <<>>
    <3>1. \A e \in Dev : ~ Holding(e)'
      BY <2>2 DEF Holding
    <3>2. \A e \in Dev : ~ Holding(e) => InHand(e)' = InHand(e)
      BY <2>1, <3>1, HandIs
    <3>3. CASE \E d \in Dev : Holding(d)
      <4>1. PICK d \in Dev : Holding(d)
        BY <3>3
      <4>2. \A e \in Dev \ {d} : InHand(e)' = InHand(e)
        BY <3>2, <4>1 DEF Holding
      <4>3. InHand(d)' = <<>>
        BY <2>1, <3>1, <4>1, HandIs, HandType
      <4> QED
        BY <2>1, <4>2, <4>3, LoseInHand
    <3>4. CASE \A d \in Dev : ~ Holding(d)
      BY <2>1, <3>2, <3>4, NoDevice
    <3> QED
      BY <3>3, <3>4
  <2>3. CASE /\ UNCHANGED <<current, fetched>>
             /\ stage = "transfer" /\ stage' = "reply"
    <3>1. \A e \in Dev : Holding(e)' = Holding(e)
      BY <2>3 DEF Holding
    <3>2. \A e \in Dev : InHand(e)' = InHand(e)
      BY <2>1, <2>3, <3>1, HandIs
    <3> QED
      BY <2>1, <3>2, NoDevice
  <2> QED
    BY <2>1, <2>2, <2>3
<1> QED
  BY <1>1, <1>2

(* Every step is a step of OperationQueue, or changes nothing in it. *)
LEMMA StepPromise == Core /\ [Next]_vars => [Promise!Next]_(Promise!vars)
<1> SUFFICES ASSUME Core, [Next]_vars PROVE [Promise!Next]_(Promise!vars)
  OBVIOUS
<1>1. ASSUME UNCHANGED <<setting, wire, queue, executed>>,
             \/ UNCHANGED <<stage, current, fetched>>
             \/ fetched = <<>> /\ fetched' = <<>>
      PROVE  UNCHANGED Promise!vars
  <2>1. \A e \in Dev : Holding(e)' = Holding(e)
    BY <1>1 DEF Holding
  <2>2. \A e \in Dev : Holding(e) => fetched' = fetched
    BY <1>1
  <2>3. \A e \in Dev : InHand(e)' = InHand(e)
    BY <1>1, <2>1, <2>2, HandIs
  <2> QED
    BY <1>1, <2>3, NoDevice
<1>2. CASE UNCHANGED vars
  BY <1>1, <1>2 DEF vars, sessionVars, serverVars
<1>3. CASE Next
  <2>1. UNCHANGED setting
    BY <1>3 DEF Next
  <2>2. CASE \/ \E d \in Dev : Begin(d) \/ Send(d) \/ Take(d)
             \/ \E rq \in inbox : Drop(rq)
             \/ Notify \/ FetchFails \/ FetchEmpty
    <3>1. UNCHANGED <<wire, queue, executed>>
      BY <2>2 DEF Begin, Send, Take, Drop, Notify, FetchFails, FetchEmpty
    <3>2. \/ UNCHANGED <<stage, current, fetched>>
          \/ fetched = <<>> /\ fetched' = <<>>
      BY <2>2 DEF Begin, Send, Take, Drop, Notify, FetchFails, FetchEmpty, serverVars,
                  Core, Fetching
    <3> QED
      BY <1>1, <2>1, <3>1, <3>2
  <2>3. CASE \E d \in Dev : Receive(d)
    BY <2>1, <2>3, ReceivePromise
  <2>4. CASE (\E d \in Dev : GiveUp(d)) \/ Transfer \/ Crash
    BY <2>1, <2>4, FailurePromise
  <2>5. CASE \E d \in Dev, m \in Message : Publish(d, m)
    BY <2>1, <2>5, PublishPromise
  <2>6. CASE \E q \in Queues : Expire(q)
    BY <2>1, <2>6, ExpirePromise
  <2>7. CASE FetchGets
    BY <2>1, <2>7, FetchPromise
  <2>8. CASE Answer
    BY <2>1, <2>8, AnswerPromise
  <2> QED
    BY <1>3, <2>2, <2>3, <2>4, <2>5, <2>6, <2>7, <2>8 DEF Next, ServerStep
<1> QED
  BY <1>2, <1>3

(***************************************************************************)
(* AcsSession implements OperationQueue: with a queue per device, each     *)
(* device carries out its operations at most once and in the order they    *)
(* were queued; what fails, gives up, crashes or expires loses the one     *)
(* operation that is in hand, the one that is taken, or those that nobody  *)
(* has collected, and never reorders the others.                           *)
(***************************************************************************)
THEOREM Refinement == Spec => KeepsPromise
<1>1. Init => Promise!Init
  <2> SUFFICES ASSUME Init PROVE Promise!Init
    OBVIOUS
  <2>1. \A d \in Dev : InHand(d) = <<>> /\ queue[QueueOf[d]] = <<>>
    BY HandIs, QueueNames DEF Init, Holding
  <2>2. <<>> \o <<>> = <<>>
    BY ConcatEmptySeq
  <2>3. PendingOperations = [d \in Dev |-> <<>>]
    BY <2>1, <2>2 DEF PendingOperations
  <2>4. ExecutedOperations = [d \in Dev |-> <<>>]
    BY DEF ExecutedOperations, Init
  <2> QED
    BY <2>3, <2>4 DEF Promise!Init
<1>2. Core /\ [Next]_vars => [Promise!Next]_(Promise!vars)
  BY StepPromise
<1> QED
  BY <1>1, <1>2, CoreHolds, PTL DEF Spec, KeepsPromise, Promise!Spec
=============================================================================

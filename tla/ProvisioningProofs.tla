------------------------- MODULE ProvisioningProofs -------------------------
(***************************************************************************)
(* Proofs about Provisioning for all notifications, arrivals and breaks.   *)
(***************************************************************************)
EXTENDS Provisioning, Counting

-----------------------------------------------------------------------------
(***************************************************************************)
(* The inductive invariant.  Shape strengthens the types: which calls,     *)
(* commands and messages there can be, given what has been announced.      *)
(***************************************************************************)
\* What is provisioned, and what the backend has passed on.
Fresh == {m \in Message : Provisions(m)}
Marked == {m \in Message : Self \in m.archive}

Announcement == 1..Len(announced)

Seen(queue, key) ==
  \E i \in Announcement : announced[i].device = key /\ announced[i].address = queue

SoundCall ==
  {c \in Call :
     /\ c.step \in {"queue", "bind"} => c.chain # "publisher" /\ c.queue \in Address \cup {Self}
     /\ c.chain = "operation" => /\ c.number \in Announcement
                                 /\ c.step = "bind" => Seen(c.queue, c.key)}

SoundCommand ==
  [command : {"ack"}] \cup [command : {"rpc"}, call : SoundCall]
    \cup [command : {"publish"}, number : Announcement, content : Announcement]
    \cup [command : {"pass"}, message : Marked]

Flags ==
  /\ alive \in BOOLEAN /\ link \in BOOLEAN /\ chan \in BOOLEAN
  /\ consuming \in BOOLEAN /\ patient \in BOOLEAN
  /\ closed \in Nat
  /\ informs \subseteq Inform
  /\ \A m, n \in informs : m.id = n.id => m = n

Chains ==
  /\ announced \in Seq(Fresh)
  /\ template \in [content : 0..Len(announced), archive : SUBSET Mark]
  /\ announced # <<>> => template.content # 0
  /\ template.content # 0 => Self \in template.archive
  /\ calls \in Seq(SoundCall)
  /\ sent \in Seq(SoundCommand)

Wires == frames \in Seq(Frame) /\ backlog \in Seq(Message) /\ unacked \in Seq(Message)

\* A topic binding leads from a device to an address it was seen at.
Books ==
  /\ declared \subseteq Address \cup {Self}
  /\ bound \subseteq {"fanout", "topic"} \X declared \X (Device \cup {""})
  /\ \A b \in bound : b[1] = "topic" => Seen(b[2], b[3])
  /\ published \subseteq [number : Announcement, content : Announcement, queues : SUBSET Address]

Shape == Flags /\ Chains /\ Wires /\ Books

CommandsOf(kind) == {x \in Command : x.command = kind}
FramesOf(kind) == {f \in Frame : f.frame = kind}
Carriers(S) == {f \in Frame : f.frame = "deliver" /\ f.message \in S}
OperationCalls == {c \in Call : c.chain = "operation"}

Rpcs == Count(sent, CommandsOf("rpc"))
Acks == Count(sent, CommandsOf("ack"))
Oks == Count(frames, FramesOf("ok"))
Closes == Count(frames, FramesOf("close"))
Deliveries == Count(frames, FramesOf("deliver"))
Operations == Count(calls, OperationCalls)

\* The messages of S in the queue, delivered, on their way, and announced.
Waiting(S) == Count(backlog, S)
Held(S) == Count(unacked, S)
Arriving(S) == Count(frames, Carriers(S))
Taken(S) == Count(announced, S)

\* Who knows of the channel, and what it takes with it.
Linked ==
  /\ chan => link /\ Closes = 0
  /\ ~link => calls = <<>> /\ frames = <<>>
  /\ ~chan => sent = <<>> /\ unacked = <<>> /\ ~consuming

\* Of the backend's calls, only the first is on its way or being answered.
Outward == {x \in Command : x.command = "rpc" => x.call = Head(calls)}

Outstanding ==
  /\ Rpcs + Oks <= 1
  /\ calls = <<>> => Rpcs + Oks = 0
  /\ sent \in Seq(Outward)

\* Each unacknowledged message is yet to arrive, or its acknowledgement is.
Acked == chan => Acks + Deliveries = Len(unacked)

\* The chain's call, or its publication, is about what the template holds.
CurrentCall ==
  {c \in Call : c.chain = "operation" =>
     /\ c.number = template.content
     /\ c.step = "bind" => /\ c.queue = announced[template.content].address
                           /\ c.key = announced[template.content].device}

Route(n) == <<"topic", announced[n].address, announced[n].device>>

CurrentCommand ==
  {x \in Command : x.command = "publish" => x.number = x.content /\ Route(x.content) \in bound}

\* If informs wait, one message at a time is provisioned, over one chain.
OneChain ==
  patient =>
    /\ Waiting(Fresh) + Held(Fresh) <= 1
    /\ Arriving(Fresh) + Operations <= 1
    /\ chan => Waiting(Fresh) + Arriving(Fresh) + Operations <= 1
    /\ calls \in Seq(CurrentCall)
    /\ sent \in Seq(CurrentCommand)
    /\ Oks # 0 /\ Head(calls).chain = "operation" /\ Head(calls).step = "bind" =>
         <<"topic", Head(calls).queue, Head(calls).key>> \in bound
    /\ \A p \in published : /\ p.number = p.content
                            /\ announced[p.content].address \in p.queues

\* A notification is in one place with the broker, and can come again only by
\* way of a lost channel.
OfId(id) == {m \in Fresh : m.id = id}

Loop ==
  \A id \in Nat :
    /\ Waiting(OfId(id)) + Held(OfId(id)) <= 1
    /\ Waiting(OfId(id)) + Arriving(OfId(id)) + Taken(OfId(id)) <= 1 + closed
    /\ informs \cap OfId(id) # {} =>
         /\ Waiting(OfId(id)) = 0 /\ Held(OfId(id)) = 0
         /\ Arriving(OfId(id)) = 0 /\ Taken(OfId(id)) = 0

IInv == /\ Shape
        /\ Linked
        /\ Outstanding
        /\ Acked
        /\ OneChain
        /\ Loop
        /\ OwnQueues

-----------------------------------------------------------------------------
(***************************************************************************)
(* What the steps share.                                                   *)
(***************************************************************************)
\* Sound calls and commands are calls and commands.
LEMMA SoundTypes ==
  ASSUME Chains
  PROVE  /\ Len(announced) \in Nat /\ Announcement \subseteq Nat
         /\ SoundCall \subseteq Call /\ SoundCommand \subseteq Command
         /\ Fresh \subseteq Message /\ Marked \subseteq Message
<1>1. Len(announced) \in Nat /\ Announcement \subseteq Nat
  BY LenProperties DEF Chains, Announcement
<1>2. SoundCall \subseteq Call /\ Fresh \subseteq Message /\ Marked \subseteq Message
  BY DEF SoundCall, Fresh, Marked
<1>3. ASSUME NEW x \in SoundCommand PROVE x \in Command
  BY <1>1, <1>2 DEF SoundCommand, Command
<1> QED  BY <1>1, <1>2, <1>3

\* Which fields a sound command has.
LEMMA SoundKinds ==
  ASSUME Chains, NEW x \in SoundCommand
  PROVE  /\ x \in Command
         /\ x.command \in {"ack", "rpc", "publish", "pass"}
         /\ x.command = "rpc" => x.call \in SoundCall
         /\ x.command = "publish" => x.number \in Announcement /\ x.content \in Announcement
         /\ x.command = "pass" => x.message \in Marked
         /\ \A kind : x \in CommandsOf(kind) <=> x.command = kind
<1>1. x \in Command  BY SoundTypes
<1> QED  BY <1>1 DEF SoundCommand, CommandsOf

Numbers ==
  \A S : Waiting(S) \in Nat /\ Held(S) \in Nat /\ Arriving(S) \in Nat /\ Taken(S) \in Nat

\* All counts are numbers.
LEMMA CountsAre ==
  ASSUME Shape
  PROVE  /\ Rpcs \in Nat /\ Acks \in Nat /\ Operations \in Nat
         /\ Oks \in Nat /\ Closes \in Nat /\ Deliveries \in Nat
         /\ Numbers
<1>1. Rpcs \in Nat /\ Acks \in Nat /\ Operations \in Nat
  BY CountType DEF Shape, Chains, Rpcs, Acks, Operations
<1>2. Oks \in Nat /\ Closes \in Nat /\ Deliveries \in Nat
  BY CountType DEF Shape, Wires, Oks, Closes, Deliveries
<1>3. ASSUME NEW S
      PROVE  Waiting(S) \in Nat /\ Held(S) \in Nat /\ Arriving(S) \in Nat /\ Taken(S) \in Nat
  BY CountType DEF Shape, Chains, Wires, Waiting, Held, Arriving, Taken
<1> QED  BY <1>1, <1>2, <1>3 DEF Numbers

\* What is left, and counts, when the broker has taken a command.
LEMMA TakesCommand ==
  ASSUME Chains, sent # <<>>, sent' = Tail(sent)
  PROVE  /\ Head(sent) \in SoundCommand
         /\ sent' \in Seq(SoundCommand)
         /\ Rpcs = Rpcs' + (IF Head(sent).command = "rpc" THEN 1 ELSE 0) /\ Rpcs' \in Nat
         /\ Acks = Acks' + (IF Head(sent).command = "ack" THEN 1 ELSE 0) /\ Acks' \in Nat
         /\ \A U : sent \in Seq(U) => Head(sent) \in U /\ sent' \in Seq(U)
<1>1. sent \in Seq(SoundCommand)  BY DEF Chains
<1>2. Head(sent) \in SoundCommand /\ sent' \in Seq(SoundCommand)
  BY <1>1, HeadTailProperties
<1>3. \A U : sent \in Seq(U) => Head(sent) \in U /\ sent' \in Seq(U)
  BY HeadTailProperties
<1>4. \A S : /\ Count(sent, S) = Count(sent', S) + (IF Head(sent) \in S THEN 1 ELSE 0)
             /\ Count(sent', S) \in Nat
  BY <1>1, <1>2, CountTail, CountType
<1>5. \A kind : Head(sent) \in CommandsOf(kind) <=> Head(sent).command = kind
  BY <1>2, SoundKinds
<1>6. Rpcs' = Count(sent', CommandsOf("rpc")) /\ Acks' = Count(sent', CommandsOf("ack"))
  BY DEF Rpcs, Acks
<1> QED  BY <1>2, <1>3, <1>4, <1>5, <1>6 DEF Rpcs, Acks

\* A frame has one kind, and carries a message if it delivers one.
LEMMA FrameKinds ==
  ASSUME NEW f \in Frame
  PROVE  /\ f.frame \in {"ok", "close", "deliver"}
         /\ f.frame = "deliver" => f.message \in Message
         /\ \A kind : f \in FramesOf(kind) <=> f.frame = kind
         /\ \A S : f \in Carriers(S) <=> f.frame = "deliver" /\ f.message \in S
BY DEF Frame, FramesOf, Carriers

\* What is left when the backend has taken a frame.
LEMMA TakesFrame ==
  ASSUME Wires, frames # <<>>, frames' = Tail(frames)
  PROVE  /\ Head(frames) \in Frame /\ frames' \in Seq(Frame)
         /\ Oks = Oks' + (IF Head(frames).frame = "ok" THEN 1 ELSE 0) /\ Oks' \in Nat
         /\ Closes = Closes' + (IF Head(frames).frame = "close" THEN 1 ELSE 0) /\ Closes' \in Nat
         /\ Deliveries = Deliveries' + (IF Head(frames).frame = "deliver" THEN 1 ELSE 0)
         /\ Deliveries' \in Nat
         /\ \A S : /\ Arriving(S) = Arriving(S)' +
                        (IF Head(frames).frame = "deliver" /\ Head(frames).message \in S THEN 1 ELSE 0)
                   /\ Arriving(S)' \in Nat
<1>1. frames \in Seq(Frame)  BY DEF Wires
<1>2. Head(frames) \in Frame /\ frames' \in Seq(Frame)  BY <1>1, HeadTailProperties
<1>3. \A S : /\ Count(frames, S) = Count(frames', S) + (IF Head(frames) \in S THEN 1 ELSE 0)
             /\ Count(frames', S) \in Nat
  BY <1>1, <1>2, CountTail, CountType
<1>4. /\ \A kind : Head(frames) \in FramesOf(kind) <=> Head(frames).frame = kind
      /\ \A S : Head(frames) \in Carriers(S) <=>
                  Head(frames).frame = "deliver" /\ Head(frames).message \in S
  BY <1>2, FrameKinds
<1>5. /\ Oks' = Count(frames', FramesOf("ok")) /\ Closes' = Count(frames', FramesOf("close"))
      /\ Deliveries' = Count(frames', FramesOf("deliver"))
      /\ \A S : Arriving(S)' = Count(frames', Carriers(S))
  BY DEF Oks, Closes, Deliveries, Arriving
<1>6. \A S : Arriving(S)' \in Nat /\ Arriving(S) = Arriving(S)' +
                (IF Head(frames).frame = "deliver" /\ Head(frames).message \in S THEN 1 ELSE 0)
  BY <1>3, <1>4, <1>5 DEF Arriving
<1> QED  BY <1>2, <1>3, <1>4, <1>5, <1>6 DEF Oks, Closes, Deliveries

\* What is on its way when the broker has sent a frame.
LEMMA AddsFrame ==
  ASSUME Wires, NEW f \in Frame, frames' = Append(frames, f)
  PROVE  /\ frames' \in Seq(Frame) /\ frames' # <<>>
         /\ Oks' = Oks + (IF f.frame = "ok" THEN 1 ELSE 0)
         /\ Closes' = Closes + (IF f.frame = "close" THEN 1 ELSE 0)
         /\ Deliveries' = Deliveries + (IF f.frame = "deliver" THEN 1 ELSE 0)
         /\ \A S : Arriving(S)' = Arriving(S) +
                     (IF f.frame = "deliver" /\ f.message \in S THEN 1 ELSE 0)
<1>1. frames \in Seq(Frame)  BY DEF Wires
<1>2. frames' \in Seq(Frame) /\ frames' # <<>>  BY <1>1, AppendProperties
<1>3. \A S : Count(frames', S) = Count(frames, S) + (IF f \in S THEN 1 ELSE 0)
  BY <1>1, CountAppend
<1>4. /\ \A kind : f \in FramesOf(kind) <=> f.frame = kind
      /\ \A S : f \in Carriers(S) <=> f.frame = "deliver" /\ f.message \in S
  BY FrameKinds
<1>5. /\ Oks' = Count(frames', FramesOf("ok")) /\ Closes' = Count(frames', FramesOf("close"))
      /\ Deliveries' = Count(frames', FramesOf("deliver"))
      /\ \A S : Arriving(S)' = Count(frames', Carriers(S))
  BY DEF Oks, Closes, Deliveries, Arriving
<1>6. \A S : Arriving(S)' = Arriving(S) +
                (IF f.frame = "deliver" /\ f.message \in S THEN 1 ELSE 0)
  BY <1>3, <1>4, <1>5 DEF Arriving
<1> QED  BY <1>2, <1>3, <1>4, <1>5, <1>6 DEF Oks, Closes, Deliveries

\* With the announcements unchanged, so is what is sound.
LEMMA SameSound ==
  ASSUME UNCHANGED announced
  PROVE  /\ SoundCall' = SoundCall /\ SoundCommand' = SoundCommand
         /\ Announcement' = Announcement
         /\ \A q, k : Seen(q, k)' <=> Seen(q, k)
BY DEF SoundCall, SoundCommand, Seen, Announcement

\* What a step that only takes commands, and what goes with it, keeps.
LEMMA ChainsStay ==
  ASSUME Chains, UNCHANGED <<announced, template>>,
         calls' \in Seq(SoundCall), sent' \in Seq(SoundCommand)
  PROVE  Chains'
BY SameSound DEF Chains

\* The books only depend on the announcements and on themselves.
LEMMA BooksStay ==
  ASSUME Books, UNCHANGED <<announced, declared, bound, published>>
  PROVE  Books'
BY SameSound DEF Books

\* No notification multiplies in a step in which none of these sums grows.
NoneGrows ==
  \A S : S \subseteq Fresh =>
    /\ Waiting(S)' + Held(S)' <= Waiting(S) + Held(S)
    /\ Waiting(S)' + Arriving(S)' + Taken(S)' <= Waiting(S) + Arriving(S) + Taken(S)

\* Then each notification is still in one place, and announced as often as before
\* at most.
LEMMA LoopStays ==
  ASSUME Loop, Flags, informs' \subseteq informs, closed' = closed, Numbers, Numbers', NoneGrows
  PROVE  Loop'
<1>1. SUFFICES ASSUME NEW id \in Nat
               PROVE  /\ Waiting(OfId(id))' + Held(OfId(id))' <= 1
                      /\ Waiting(OfId(id))' + Arriving(OfId(id))' + Taken(OfId(id))' <= 1 + closed'
                      /\ informs' \cap OfId(id) # {} =>
                           /\ Waiting(OfId(id))' = 0 /\ Held(OfId(id))' = 0
                           /\ Arriving(OfId(id))' = 0 /\ Taken(OfId(id))' = 0
  BY DEF Loop
<1>2. PICK S : S = OfId(id) /\ S \subseteq Fresh  BY DEF OfId
<1>3. /\ Waiting(S) + Held(S) <= 1
      /\ Waiting(S) + Arriving(S) + Taken(S) <= 1 + closed
  BY <1>2 DEF Loop
<1>4. closed \in Nat  BY DEF Flags
<1>5. /\ Waiting(S) \in Nat /\ Held(S) \in Nat /\ Arriving(S) \in Nat /\ Taken(S) \in Nat
      /\ Waiting(S)' \in Nat /\ Held(S)' \in Nat /\ Arriving(S)' \in Nat /\ Taken(S)' \in Nat
  BY DEF Numbers
<1>6. /\ Waiting(S)' + Held(S)' <= Waiting(S) + Held(S)
      /\ Waiting(S)' + Arriving(S)' + Taken(S)' <= Waiting(S) + Arriving(S) + Taken(S)
  BY <1>2 DEF NoneGrows
<1>7. /\ Waiting(S)' + Held(S)' <= 1
      /\ Waiting(S)' + Arriving(S)' + Taken(S)' <= 1 + closed'
  BY <1>3, <1>4, <1>5, <1>6
<1>8. ASSUME informs' \cap S # {}
      PROVE  Waiting(S)' = 0 /\ Held(S)' = 0 /\ Arriving(S)' = 0 /\ Taken(S)' = 0
  <2>1. informs \cap S # {}  BY <1>8
  <2>2. Waiting(S) = 0 /\ Held(S) = 0 /\ Arriving(S) = 0 /\ Taken(S) = 0
    BY <1>2, <2>1 DEF Loop
  <2> QED  BY <1>5, <1>6, <2>2
<1> QED  BY <1>2, <1>7, <1>8

-----------------------------------------------------------------------------
(***************************************************************************)
(* The broker's steps.                                                     *)
(***************************************************************************)
\* An acknowledgement takes the oldest delivery off the unacknowledged.
LEMMA TakesAckKeeps ==
  ASSUME IInv, TakesAck, UNCHANGED patient
  PROVE  IInv'
<1>0. /\ Acks \in Nat /\ Deliveries \in Nat
      /\ \A S : Waiting(S) \in Nat /\ Held(S) \in Nat /\ Arriving(S) \in Nat /\ Taken(S) \in Nat
  BY CountsAre DEF IInv, Numbers
<1>1. /\ chan /\ sent # <<>> /\ Head(sent).command = "ack" /\ sent' = Tail(sent)
      /\ unacked' = Tail(unacked)
      /\ UNCHANGED <<alive, link, calls, template, announced, chan, consuming, declared,
                     bound, published, closed, frames, backlog, informs, patient>>
  BY DEF TakesAck, NextCommand, backend
<1>2. /\ sent' \in Seq(SoundCommand) /\ Rpcs = Rpcs' /\ Acks = Acks' + 1
      /\ Rpcs' \in Nat /\ Acks' \in Nat
      /\ \A U : sent \in Seq(U) => sent' \in Seq(U)
  BY <1>1, TakesCommand DEF IInv, Shape
<1>3. /\ Oks' = Oks /\ Closes' = Closes /\ Deliveries' = Deliveries /\ Operations' = Operations
      /\ \A S : Waiting(S)' = Waiting(S) /\ Arriving(S)' = Arriving(S) /\ Taken(S)' = Taken(S)
  BY <1>1 DEF Oks, Closes, Deliveries, Operations, Waiting, Arriving, Taken
<1>4. unacked # <<>> /\ Len(unacked) \in Nat
  <2>1. Acks + Deliveries = Len(unacked) /\ Deliveries \in Nat
    BY <1>1, CountsAre DEF IInv, Acked
  <2>2. Len(unacked) > 0  BY <1>2, <2>1
  <2> QED  BY <2>2, EmptySeq DEF IInv, Shape, Wires
<1>5. /\ unacked' \in Seq(Message) /\ Len(unacked') = Len(unacked) - 1
      /\ \A S : Held(S)' \in Nat /\ Held(S)' <= Held(S)
  <2>1. unacked \in Seq(Message)  BY DEF IInv, Shape, Wires
  <2>2. unacked' \in Seq(Message) /\ Len(unacked') = Len(unacked) - 1
    BY <1>1, <1>4, <2>1, HeadTailProperties
  <2>3. ASSUME NEW S PROVE Held(S)' \in Nat /\ Held(S)' <= Held(S)
    <3>1. Count(unacked, S) = Count(unacked', S) + (IF Head(unacked) \in S THEN 1 ELSE 0)
      BY <1>1, <1>4, <2>1, CountTail
    <3>2. Count(unacked', S) \in Nat  BY <2>2, CountType
    <3> QED  BY <3>1, <3>2 DEF Held
  <2> QED  BY <2>2, <2>3
<1>6. Shape'
  <2>1. Flags'  BY <1>1 DEF IInv, Shape, Flags
  <2>2. Chains'  BY <1>1, <1>2, ChainsStay DEF IInv, Shape, Chains
  <2>3. Wires'  BY <1>1, <1>5 DEF IInv, Shape, Wires
  <2>4. Books'  BY <1>1, BooksStay DEF IInv, Shape
  <2> QED  BY <2>1, <2>2, <2>3, <2>4 DEF Shape
<1>7. Linked'  BY <1>1, <1>3 DEF IInv, Linked
<1>8. Outstanding'
  BY <1>1, <1>2, <1>3 DEF IInv, Outstanding, Outward
<1>9. Acked'
  <2>1. chan => Acks + Deliveries = Len(unacked)  BY DEF IInv, Acked
  <2> QED  BY <1>0, <1>1, <1>2, <1>3, <1>4, <1>5, <2>1, SMTT(30) DEF Acked
<1>10. OneChain'
  <2>1. SUFFICES ASSUME patient PROVE OneChain'  BY <1>1 DEF OneChain
  <2>2. CurrentCall' = CurrentCall /\ CurrentCommand' = CurrentCommand
    BY <1>1 DEF CurrentCall, CurrentCommand, Route
  <2>3. Waiting(Fresh)' + Held(Fresh)' <= 1
    BY <1>0, <1>3, <1>5, <2>1 DEF IInv, OneChain
  <2> QED  BY <1>1, <1>2, <1>3, <2>1, <2>2, <2>3 DEF IInv, OneChain
<1>11. Loop'
  <2>1. ASSUME NEW S
        PROVE  /\ Waiting(S)' \in Nat /\ Held(S)' \in Nat /\ Arriving(S)' \in Nat /\ Taken(S)' \in Nat
               /\ Waiting(S)' + Held(S)' <= Waiting(S) + Held(S)
               /\ Waiting(S)' + Arriving(S)' + Taken(S)' <= Waiting(S) + Arriving(S) + Taken(S)
    BY <1>0, <1>3, <1>5
  <2>2. Numbers /\ Numbers' /\ NoneGrows  BY <1>0, <2>1 DEF Numbers, NoneGrows
  <2> QED  BY <1>1, <2>2, LoopStays DEF IInv, Shape
<1>12. OwnQueues'  BY <1>1 DEF IInv, OwnQueues
<1> QED  BY <1>6, <1>7, <1>8, <1>9, <1>10, <1>11, <1>12 DEF IInv

\* A declaration or binding is made, and answered.
LEMMA TakesRpcKeeps ==
  ASSUME IInv, TakesRpc, UNCHANGED patient
  PROVE  IInv'
<1>0. /\ Rpcs \in Nat /\ Oks \in Nat /\ Acks \in Nat /\ Deliveries \in Nat /\ Numbers
  BY CountsAre DEF IInv
<1> DEFINE ok == [frame |-> "ok"]
<1>1. /\ chan /\ sent # <<>> /\ Head(sent).command = "rpc" /\ sent' = Tail(sent)
      /\ frames' = Append(frames, ok)
      /\ UNCHANGED <<alive, link, calls, template, announced, chan, unacked,
                     published, closed, backlog, informs, patient>>
  BY DEF TakesRpc, NextCommand, backend, Answers
<1>2. /\ Head(sent) \in SoundCommand
      /\ sent' \in Seq(SoundCommand) /\ Rpcs = Rpcs' + 1 /\ Acks = Acks'
      /\ Rpcs' \in Nat /\ Acks' \in Nat
      /\ \A U : sent \in Seq(U) => Head(sent) \in U /\ sent' \in Seq(U)
  BY <1>1, TakesCommand DEF IInv, Shape
<1>3. PICK c \in SoundCall : c = Head(sent).call
  BY <1>1, <1>2, SoundKinds DEF IInv, Shape
<1>4. /\ c.step = "bind" => c.queue \in declared
      /\ declared' = IF c.step = "queue" THEN declared \cup {c.queue} ELSE declared
      /\ bound' = IF c.step = "bind"
                  THEN bound \cup {<<IF c.chain = "operation" THEN "topic" ELSE "fanout", c.queue, c.key>>}
                  ELSE bound
      /\ consuming' = (consuming \/ c.step = "consume")
  BY <1>3 DEF TakesRpc
<1>5. /\ ok \in Frame /\ ok.frame = "ok"  BY DEF Frame
<1>6. /\ frames' \in Seq(Frame) /\ Oks' = Oks + 1 /\ Closes' = Closes /\ Deliveries' = Deliveries
      /\ \A S : Arriving(S)' = Arriving(S)
  <2>1. /\ frames' \in Seq(Frame) /\ Oks' = Oks + 1 /\ Closes' = Closes + 0
        /\ Deliveries' = Deliveries + 0
        /\ \A S : Arriving(S)' = Arriving(S) + 0
    BY <1>1, <1>5, AddsFrame DEF IInv, Shape
  <2>2. \A n \in Nat : n + 0 = n  OBVIOUS
  <2>3. Closes \in Nat /\ \A S : Arriving(S) \in Nat  BY CountsAre DEF IInv, Numbers
  <2> QED  BY <1>0, <2>1, <2>2, <2>3
<1> HIDE DEF ok
<1>7. /\ Operations' = Operations
      /\ \A S : Waiting(S)' = Waiting(S) /\ Held(S)' = Held(S) /\ Taken(S)' = Taken(S)
  BY <1>1 DEF Operations, Waiting, Held, Taken
<1>8. c = Head(calls)
  <2>1. Head(sent) \in Outward  BY <1>2 DEF IInv, Outstanding
  <2> QED  BY <1>1, <1>3, <2>1 DEF Outward
<1>9. bound \subseteq bound'  BY <1>4
<1>10. Shape'
  <2>1. Flags'  BY <1>1, <1>4 DEF IInv, Shape, Flags
  <2>2. Chains'  BY <1>1, <1>2, ChainsStay DEF IInv, Shape, Chains
  <2>3. Wires'  BY <1>1, <1>6 DEF IInv, Shape, Wires
  <2>4. /\ declared \subseteq Address \cup {Self}
        /\ bound \subseteq {"fanout", "topic"} \X declared \X (Device \cup {""})
        /\ \A b \in bound : b[1] = "topic" => Seen(b[2], b[3])
        /\ published \subseteq [number : Announcement, content : Announcement, queues : SUBSET Address]
    BY DEF IInv, Shape, Books
  <2>5. /\ c.step \in {"queue", "bind"} => c.queue \in Address \cup {Self}
        /\ c.chain = "operation" /\ c.step = "bind" => Seen(c.queue, c.key)
        /\ c.key \in Device \cup {""}
    BY DEF SoundCall, Call
  <2>6. declared' \subseteq Address \cup {Self} /\ declared \subseteq declared'
    BY <1>4, <2>4, <2>5
  <2>7. bound' \subseteq {"fanout", "topic"} \X declared' \X (Device \cup {""})
    <3>1. bound \subseteq {"fanout", "topic"} \X declared' \X (Device \cup {""})
      BY <2>4, <2>6
    <3>2. CASE c.step = "bind"
      <4> DEFINE exchange == IF c.chain = "operation" THEN "topic" ELSE "fanout"
      <4>1. exchange \in {"fanout", "topic"}  OBVIOUS
      <4>2. bound' = bound \cup {<<exchange, c.queue, c.key>>}  BY <1>4, <3>2
      <4> HIDE DEF exchange
      <4>3. <<exchange, c.queue, c.key>> \in {"fanout", "topic"} \X declared' \X (Device \cup {""})
        BY <1>4, <2>5, <2>6, <3>2, <4>1
      <4> QED  BY <3>1, <4>2, <4>3
    <3>3. CASE c.step # "bind"  BY <1>4, <3>1, <3>3
    <3> QED  BY <3>2, <3>3
  <2>8. \A b \in bound' : b[1] = "topic" => Seen(b[2], b[3])
    <3>1. SUFFICES ASSUME NEW b \in bound', b[1] = "topic", b \notin bound
                   PROVE  Seen(b[2], b[3])
      BY <2>4
    <3>2. /\ c.step = "bind"
          /\ b = <<IF c.chain = "operation" THEN "topic" ELSE "fanout", c.queue, c.key>>
      BY <1>4, <3>1
    <3>3. b[2] = c.queue /\ b[3] = c.key /\ c.chain = "operation"
      <4>1. b[1] = IF c.chain = "operation" THEN "topic" ELSE "fanout"  BY <3>2
      <4> QED  BY <3>1, <3>2, <4>1
    <3> QED  BY <2>5, <3>2, <3>3
  <2>9. Books'
    BY <1>1, <2>4, <2>6, <2>7, <2>8, SameSound DEF Books
  <2> QED  BY <2>1, <2>2, <2>3, <2>9 DEF Shape
<1>11. Linked'  BY <1>1, <1>6 DEF IInv, Linked, Closes
<1>12. Outstanding'
  <2>1. Rpcs + Oks <= 1 /\ (calls = <<>> => Rpcs + Oks = 0)  BY DEF IInv, Outstanding
  <2>2. Rpcs' + Oks' = Rpcs + Oks  BY <1>0, <1>2, <1>6
  <2>3. sent' \in Seq(Outward) /\ Outward' = Outward
    BY <1>1, <1>2 DEF IInv, Outstanding, Outward
  <2> QED  BY <1>1, <2>1, <2>2, <2>3 DEF Outstanding
<1>13. Acked'
  BY <1>1, <1>2, <1>6 DEF IInv, Acked
<1>14. OneChain'
  <2>1. SUFFICES ASSUME patient PROVE OneChain'  BY <1>1 DEF OneChain
  <2>2. CurrentCall' = CurrentCall  BY <1>1 DEF CurrentCall
  <2>3. CurrentCommand \subseteq CurrentCommand'
    BY <1>1, <1>9 DEF CurrentCommand, Route
  <2>4. sent' \in Seq(CurrentCommand')
    BY <1>2, <2>1, <2>3, SeqMonotonic DEF IInv, OneChain
  <2>5. Head(calls).chain = "operation" /\ Head(calls).step = "bind" =>
          <<"topic", Head(calls).queue, Head(calls).key>> \in bound'
    BY <1>4, <1>8
  <2> QED  BY <1>1, <1>6, <1>7, <2>1, <2>2, <2>4, <2>5 DEF IInv, OneChain
<1>15. Loop'
  <2>1. Numbers' /\ NoneGrows  BY <1>0, <1>6, <1>7 DEF Numbers, NoneGrows
  <2> QED  BY <1>0, <1>1, <2>1, LoopStays DEF IInv, Shape
<1>16. OwnQueues'  BY <1>1 DEF IInv, OwnQueues
<1> QED  BY <1>10, <1>11, <1>12, <1>13, <1>14, <1>15, <1>16 DEF IInv

\* A publication goes to the queues that are bound for its device.
LEMMA TakesPublishKeeps ==
  ASSUME IInv, TakesPublish, UNCHANGED patient
  PROVE  IInv'
<1>0. /\ Rpcs \in Nat /\ Oks \in Nat /\ Acks \in Nat /\ Deliveries \in Nat /\ Numbers
  BY CountsAre DEF IInv
<1>1. /\ chan /\ sent # <<>> /\ Head(sent).command = "publish" /\ sent' = Tail(sent)
      /\ UNCHANGED <<alive, link, calls, template, announced, chan, unacked, consuming, declared,
                     bound, closed, frames, backlog, informs, patient>>
  BY DEF TakesPublish, NextCommand, backend
<1>2. /\ Head(sent) \in SoundCommand
      /\ sent' \in Seq(SoundCommand) /\ Rpcs = Rpcs' /\ Acks = Acks'
      /\ \A U : sent \in Seq(U) => Head(sent) \in U /\ sent' \in Seq(U)
  BY <1>1, TakesCommand DEF IInv, Shape
<1>3. PICK n \in Announcement, k \in Announcement : n = Head(sent).number /\ k = Head(sent).content
  BY <1>1, <1>2, SoundKinds DEF IInv, Shape
<1> DEFINE queues == {q \in Address : <<"topic", q, announced[k].device>> \in bound}
           new == [number |-> n, content |-> k, queues |-> queues]
<1>4. published' = published \cup {new}
  BY <1>3 DEF TakesPublish
<1>5. /\ Oks' = Oks /\ Closes' = Closes /\ Deliveries' = Deliveries /\ Operations' = Operations
      /\ \A S : /\ Waiting(S)' = Waiting(S) /\ Held(S)' = Held(S)
                /\ Arriving(S)' = Arriving(S) /\ Taken(S)' = Taken(S)
  BY <1>1 DEF Oks, Closes, Deliveries, Operations, Waiting, Held, Arriving, Taken
<1>6. announced[k] \in Fresh /\ announced[k].address \in Address
  <2>1. announced[k] \in Fresh
    BY <1>3, ElementOfSeq DEF IInv, Shape, Chains, Announcement
  <2> QED  BY <2>1 DEF Fresh, Message
<1>7. \A q \in queues : Seen(q, announced[k].device)
  <2>1. SUFFICES ASSUME NEW q \in Address, <<"topic", q, announced[k].device>> \in bound
                 PROVE  Seen(q, announced[k].device)
    OBVIOUS
  <2> DEFINE b == <<"topic", q, announced[k].device>>
  <2>2. b[1] = "topic" /\ b[2] = q /\ b[3] = announced[k].device  OBVIOUS
  <2>3. b \in bound  BY <2>1
  <2> HIDE DEF b
  <2> QED  BY <2>2, <2>3 DEF IInv, Shape, Books
<1>8. patient => n = k /\ announced[k].address \in queues
  <2>1. SUFFICES ASSUME patient PROVE n = k /\ announced[k].address \in queues  OBVIOUS
  <2>2. Head(sent) \in CurrentCommand  BY <1>2, <2>1 DEF IInv, OneChain
  <2>3. n = k /\ Route(k) \in bound  BY <1>1, <1>3, <2>2 DEF CurrentCommand
  <2> QED  BY <1>6, <2>3 DEF Route
<1>9. new.number = n /\ new.content = k /\ new.queues = queues  OBVIOUS
<1>10. new \in [number : Announcement, content : Announcement, queues : SUBSET Address]
  OBVIOUS
<1> HIDE DEF queues, new
<1>11. Shape'
  <2>1. Flags'  BY <1>1 DEF IInv, Shape, Flags
  <2>2. Chains'  BY <1>1, <1>2, ChainsStay DEF IInv, Shape, Chains
  <2>3. Wires'  BY <1>1 DEF IInv, Shape, Wires
  <2>4. Books'
    <3>1. published' \subseteq [number : Announcement, content : Announcement, queues : SUBSET Address]
      BY <1>4, <1>10 DEF IInv, Shape, Books
    <3> QED  BY <1>1, <3>1, SameSound DEF IInv, Shape, Books
  <2> QED  BY <2>1, <2>2, <2>3, <2>4 DEF Shape
<1>12. Linked'  BY <1>1, <1>5 DEF IInv, Linked
<1>13. Outstanding'
  BY <1>1, <1>2, <1>5 DEF IInv, Outstanding, Outward
<1>14. Acked'  BY <1>1, <1>2, <1>5 DEF IInv, Acked
<1>15. OneChain'
  <2>1. SUFFICES ASSUME patient PROVE OneChain'  BY <1>1 DEF OneChain
  <2>2. CurrentCall' = CurrentCall /\ CurrentCommand' = CurrentCommand
    BY <1>1 DEF CurrentCall, CurrentCommand, Route
  <2>3. \A p \in published' : p.number = p.content /\ announced'[p.content].address \in p.queues
    <3>1. \A p \in published : p.number = p.content /\ announced[p.content].address \in p.queues
      BY <2>1 DEF IInv, OneChain
    <3>2. new.number = new.content /\ announced[new.content].address \in new.queues
      BY <1>8, <1>9, <2>1
    <3> QED  BY <1>1, <1>4, <3>1, <3>2
  <2> QED  BY <1>1, <1>2, <1>5, <2>1, <2>2, <2>3 DEF IInv, OneChain
<1>16. Loop'
  <2>1. Numbers' /\ NoneGrows  BY <1>0, <1>5 DEF Numbers, NoneGrows
  <2> QED  BY <1>0, <1>1, <2>1, LoopStays DEF IInv, Shape
<1>17. OwnQueues'
  <2>1. SUFFICES ASSUME NEW q \in new.queues
                 PROVE  \E i \in 1..Len(announced) : /\ announced[i].device = announced[new.content].device
                                                     /\ announced[i].address = q
    BY <1>1, <1>4 DEF IInv, OwnQueues
  <2> QED  BY <1>7, <1>9, <2>1 DEF Seen, Announcement
<1> QED  BY <1>11, <1>12, <1>13, <1>14, <1>15, <1>16, <1>17 DEF IInv

\* The backend's queue gets a message at most once.
LEMMA QueuedIs ==
  ASSUME Wires, NEW m \in Message, backlog' = Queued(m)
  PROVE  /\ backlog' \in Seq(Message)
         /\ \A S : /\ Waiting(S)' \in Nat
                   /\ m \notin S => Waiting(S)' = Waiting(S)
                   /\ Waiting(S)' <= Waiting(S) + 1
<1>1. backlog \in Seq(Message)  BY DEF Wires
<1>2. backlog' = Append(backlog, m) \/ backlog' = backlog  BY DEF Queued
<1>3. backlog' \in Seq(Message)  BY <1>1, <1>2, AppendProperties
<1>4. ASSUME NEW S
      PROVE  /\ Count(backlog', S) \in Nat
             /\ m \notin S => Count(backlog', S) = Count(backlog, S)
             /\ Count(backlog', S) <= Count(backlog, S) + 1
  <2>1. Count(backlog, S) \in Nat /\ Count(backlog', S) \in Nat  BY <1>1, <1>3, CountType
  <2>2. Count(Append(backlog, m), S) = Count(backlog, S) + (IF m \in S THEN 1 ELSE 0)
    BY <1>1, CountAppend
  <2>3. CASE backlog' = backlog  BY <2>1, <2>3
  <2>4. CASE backlog' = Append(backlog, m)  BY <2>1, <2>2, <2>4
  <2> QED  BY <1>2, <2>3, <2>4
<1> QED  BY <1>3, <1>4 DEF Waiting

\* What the backend passes on bears its mark, so that it is not fresh.
LEMMA TakesPassKeeps ==
  ASSUME IInv, TakesPass, UNCHANGED patient
  PROVE  IInv'
<1>0. /\ Rpcs \in Nat /\ Oks \in Nat /\ Acks \in Nat /\ Deliveries \in Nat /\ Numbers
  BY CountsAre DEF IInv
<1>1. /\ chan /\ sent # <<>> /\ Head(sent).command = "pass" /\ sent' = Tail(sent)
      /\ backlog' = Queued(Head(sent).message)
      /\ UNCHANGED <<alive, link, calls, template, announced, chan, unacked, consuming, declared,
                     bound, published, closed, frames, informs, patient>>
  BY DEF TakesPass, NextCommand, backend, broker
<1>2. /\ Head(sent) \in SoundCommand
      /\ sent' \in Seq(SoundCommand) /\ Rpcs = Rpcs' /\ Acks = Acks'
      /\ \A U : sent \in Seq(U) => Head(sent) \in U /\ sent' \in Seq(U)
  BY <1>1, TakesCommand DEF IInv, Shape
<1>3. PICK m \in Message : m = Head(sent).message /\ m \notin Fresh
  BY <1>1, <1>2, SoundKinds DEF IInv, Shape, Marked, Fresh, Provisions, Considers
<1>4. /\ backlog' \in Seq(Message)
      /\ \A S : Waiting(S)' \in Nat
      /\ \A S : S \subseteq Fresh => Waiting(S)' = Waiting(S)
  BY <1>1, <1>3, QueuedIs DEF IInv, Shape
<1>5. /\ Oks' = Oks /\ Closes' = Closes /\ Deliveries' = Deliveries /\ Operations' = Operations
      /\ \A S : Held(S)' = Held(S) /\ Arriving(S)' = Arriving(S) /\ Taken(S)' = Taken(S)
  BY <1>1 DEF Oks, Closes, Deliveries, Operations, Held, Arriving, Taken
<1>6. Shape'
  <2>1. Flags'  BY <1>1 DEF IInv, Shape, Flags
  <2>2. Chains'  BY <1>1, <1>2, ChainsStay DEF IInv, Shape, Chains
  <2>3. Wires'  BY <1>1, <1>4 DEF IInv, Shape, Wires
  <2>4. Books'  BY <1>1, BooksStay DEF IInv, Shape
  <2> QED  BY <2>1, <2>2, <2>3, <2>4 DEF Shape
<1>7. Linked'  BY <1>1, <1>5 DEF IInv, Linked
<1>8. Outstanding'
  BY <1>1, <1>2, <1>5 DEF IInv, Outstanding, Outward
<1>9. Acked'  BY <1>1, <1>2, <1>5 DEF IInv, Acked
<1>10. OneChain'
  <2>1. SUFFICES ASSUME patient PROVE OneChain'  BY <1>1 DEF OneChain
  <2>2. CurrentCall' = CurrentCall /\ CurrentCommand' = CurrentCommand
    BY <1>1 DEF CurrentCall, CurrentCommand, Route
  <2>3. Waiting(Fresh)' = Waiting(Fresh)  BY <1>4
  <2> QED  BY <1>1, <1>2, <1>5, <2>1, <2>2, <2>3 DEF IInv, OneChain
<1>11. Loop'
  <2>1. Numbers'  BY <1>0, <1>4, <1>5 DEF Numbers
  <2>2. NoneGrows
    <3>1. SUFFICES ASSUME NEW S, S \subseteq Fresh
                   PROVE  /\ Waiting(S)' + Held(S)' <= Waiting(S) + Held(S)
                          /\ Waiting(S)' + Arriving(S)' + Taken(S)'
                               <= Waiting(S) + Arriving(S) + Taken(S)
      BY DEF NoneGrows
    <3>2. /\ Waiting(S)' = Waiting(S) /\ Held(S)' = Held(S)
          /\ Arriving(S)' = Arriving(S) /\ Taken(S)' = Taken(S)
      BY <1>4, <1>5, <3>1
    <3>3. Waiting(S) \in Nat /\ Held(S) \in Nat /\ Arriving(S) \in Nat /\ Taken(S) \in Nat
      BY <1>0 DEF Numbers
    <3> QED  BY <3>2, <3>3
  <2> QED  BY <1>0, <1>1, <2>1, <2>2, LoopStays DEF IInv, Shape
<1>12. OwnQueues'  BY <1>1 DEF IInv, OwnQueues
<1> QED  BY <1>6, <1>7, <1>8, <1>9, <1>10, <1>11, <1>12 DEF IInv

\* A message goes from the queue to the unacknowledged, and on its way.
LEMMA DeliverKeeps ==
  ASSUME IInv, Deliver, UNCHANGED patient
  PROVE  IInv'
<1>0. /\ Rpcs \in Nat /\ Oks \in Nat /\ Acks \in Nat /\ Deliveries \in Nat /\ Closes \in Nat
      /\ Operations \in Nat /\ Numbers
  BY CountsAre DEF IInv
<1>1. /\ chan /\ backlog # <<>>
      /\ backlog' = Tail(backlog) /\ unacked' = Append(unacked, Head(backlog))
      /\ frames' = Append(frames, [frame |-> "deliver", message |-> Head(backlog)])
      /\ UNCHANGED <<alive, link, calls, template, announced, chan, consuming, declared,
                     bound, published, closed, sent, informs, patient>>
  BY DEF Deliver, backend
<1>2. backlog \in Seq(Message) /\ unacked \in Seq(Message)  BY DEF IInv, Shape, Wires
<1>3. PICK m \in Message : m = Head(backlog)  BY <1>1, <1>2, HeadTailProperties
<1> DEFINE f == [frame |-> "deliver", message |-> m]
<1>4. f \in Frame /\ f.frame = "deliver" /\ f.message = m  BY DEF Frame
<1>5. frames' = Append(frames, f)  BY <1>1, <1>3
<1> HIDE DEF f
<1>6. /\ backlog' \in Seq(Message) /\ unacked' \in Seq(Message)
      /\ Len(unacked') = Len(unacked) + 1 /\ Len(unacked) \in Nat
  BY <1>1, <1>2, <1>3, HeadTailProperties, AppendProperties
<1>7. /\ frames' \in Seq(Frame) /\ Oks' = Oks /\ Closes' = Closes /\ Deliveries' = Deliveries + 1
  <2>1. /\ frames' \in Seq(Frame) /\ Oks' = Oks + 0 /\ Closes' = Closes + 0
        /\ Deliveries' = Deliveries + 1
    BY <1>4, <1>5, AddsFrame DEF IInv, Shape
  <2> QED  BY <1>0, <2>1
<1>8. ASSUME NEW S
      PROVE  /\ Waiting(S)' \in Nat /\ Held(S)' \in Nat /\ Arriving(S)' \in Nat
             /\ Waiting(S)' + Held(S)' = Waiting(S) + Held(S)
             /\ Waiting(S)' + Arriving(S)' = Waiting(S) + Arriving(S)
  <2>1. Waiting(S) \in Nat /\ Held(S) \in Nat /\ Arriving(S) \in Nat
    BY <1>0 DEF Numbers
  <2>2. /\ Count(backlog, S) = Count(backlog', S) + (IF m \in S THEN 1 ELSE 0)
        /\ Count(backlog', S) \in Nat
    BY <1>1, <1>2, <1>3, <1>6, CountTail, CountType
  <2>3. Count(unacked', S) = Count(unacked, S) + (IF m \in S THEN 1 ELSE 0)
    BY <1>1, <1>2, <1>3, CountAppend
  <2>4. Arriving(S)' = Arriving(S) + (IF f.frame = "deliver" /\ f.message \in S THEN 1 ELSE 0)
    BY <1>4, <1>5, AddsFrame DEF IInv, Shape
  <2>5. Waiting(S)' = Count(backlog', S) /\ Held(S)' = Count(unacked', S)
    BY DEF Waiting, Held
  <2>6. CASE m \in S
    BY <1>4, <2>1, <2>2, <2>3, <2>4, <2>5, <2>6 DEF Waiting, Held
  <2>7. CASE m \notin S
    BY <1>4, <2>1, <2>2, <2>3, <2>4, <2>5, <2>7 DEF Waiting, Held
  <2> QED  BY <2>6, <2>7
<1>9. /\ Rpcs' = Rpcs /\ Acks' = Acks /\ Operations' = Operations
      /\ \A S : Taken(S)' = Taken(S)
  BY <1>1 DEF Rpcs, Acks, Operations, Taken
<1>10. Shape'
  <2>1. Flags'  BY <1>1 DEF IInv, Shape, Flags
  <2>2. Chains'  BY <1>1, ChainsStay DEF IInv, Shape, Chains
  <2>3. Wires'  BY <1>6, <1>7 DEF Wires
  <2>4. Books'  BY <1>1, BooksStay DEF IInv, Shape
  <2> QED  BY <2>1, <2>2, <2>3, <2>4 DEF Shape
<1>11. Linked'  BY <1>1, <1>7 DEF IInv, Linked
<1>12. Outstanding'
  BY <1>1, <1>7, <1>9 DEF IInv, Outstanding, Outward
<1>13. Acked'
  <2>1. Acks + Deliveries = Len(unacked)  BY <1>1 DEF IInv, Acked
  <2> QED  BY <1>0, <1>6, <1>7, <1>9, <2>1 DEF Acked
<1>14. OneChain'
  <2>1. SUFFICES ASSUME patient PROVE OneChain'  BY <1>1 DEF OneChain
  <2>2. CurrentCall' = CurrentCall /\ CurrentCommand' = CurrentCommand
    BY <1>1 DEF CurrentCall, CurrentCommand, Route
  <2>3. /\ Waiting(Fresh) + Held(Fresh) <= 1
        /\ Waiting(Fresh) + Arriving(Fresh) + Operations <= 1
    BY <1>1, <2>1 DEF IInv, OneChain
  <2>4. /\ Waiting(Fresh) \in Nat /\ Held(Fresh) \in Nat /\ Arriving(Fresh) \in Nat
        /\ Waiting(Fresh)' \in Nat /\ Held(Fresh)' \in Nat /\ Arriving(Fresh)' \in Nat
        /\ Waiting(Fresh)' + Held(Fresh)' = Waiting(Fresh) + Held(Fresh)
        /\ Waiting(Fresh)' + Arriving(Fresh)' = Waiting(Fresh) + Arriving(Fresh)
    BY <1>0, <1>8 DEF Numbers
  <2>5. /\ Waiting(Fresh)' + Held(Fresh)' <= 1
        /\ Arriving(Fresh)' + Operations' <= 1
        /\ Waiting(Fresh)' + Arriving(Fresh)' + Operations' <= 1
    BY <1>0, <1>9, <2>3, <2>4
  <2> QED  BY <1>1, <1>7, <2>1, <2>2, <2>5 DEF IInv, OneChain
<1>15. Loop'
  <2>1. ASSUME NEW S
        PROVE  /\ Waiting(S)' \in Nat /\ Held(S)' \in Nat /\ Arriving(S)' \in Nat /\ Taken(S)' \in Nat
               /\ Waiting(S)' + Held(S)' <= Waiting(S) + Held(S)
               /\ Waiting(S)' + Arriving(S)' + Taken(S)' <= Waiting(S) + Arriving(S) + Taken(S)
    <3>1. /\ Waiting(S) \in Nat /\ Held(S) \in Nat /\ Arriving(S) \in Nat /\ Taken(S) \in Nat
          /\ Taken(S)' = Taken(S)
      BY <1>0, <1>9 DEF Numbers
    <3> QED  BY <1>8, <3>1
  <2>2. Numbers' /\ NoneGrows  BY <2>1 DEF Numbers, NoneGrows
  <2> QED  BY <1>0, <1>1, <2>2, LoopStays DEF IInv, Shape
<1>16. OwnQueues'  BY <1>1 DEF IInv, OwnQueues
<1> QED  BY <1>10, <1>11, <1>12, <1>13, <1>14, <1>15, <1>16 DEF IInv

\* Of the answers and the messages on their way, some may be lost.
FewerArrive ==
  /\ Oks' \in Nat /\ Oks' <= Oks
  /\ \A S : Arriving(S)' \in Nat /\ Arriving(S)' <= Arriving(S)

\* With the channel goes what was on its way to the broker; what was not
\* acknowledged waits again.
LEMMA LostKeeps ==
  ASSUME IInv, chan, Lost,
         UNCHANGED <<alive, link, calls, template, announced, declared, bound, published,
                     informs, patient>>,
         frames' \in Seq(Frame), FewerArrive
  PROVE  IInv'
<1>0. /\ Rpcs \in Nat /\ Oks \in Nat /\ Operations \in Nat /\ Numbers
  BY CountsAre DEF IInv
<1>1. /\ chan' = FALSE /\ consuming' = FALSE /\ closed' = closed + 1
      /\ backlog' = unacked \o backlog /\ unacked' = <<>> /\ sent' = <<>>
  BY DEF Lost
<1>2. backlog \in Seq(Message) /\ unacked \in Seq(Message) /\ closed \in Nat
  BY DEF IInv, Shape, Wires, Flags
<1>3. backlog' \in Seq(Message)  BY <1>1, <1>2, ConcatProperties
<1>4. Rpcs' = 0 /\ \A S : Held(S)' = 0
  <2>1. \A S : Count(<<>>, S) = 0  BY CountEmpty
  <2> QED  BY <1>1, <2>1 DEF Rpcs, Held
<1>5. Operations' = Operations /\ \A S : Taken(S)' = Taken(S)
  BY DEF Operations, Taken
<1>6. ASSUME NEW S PROVE Waiting(S)' = Held(S) + Waiting(S)
  <2>1. Count(backlog', S) = Count(unacked, S) + Count(backlog, S)
    BY <1>1, <1>2, CountConcat
  <2> QED  BY <2>1 DEF Waiting, Held
<1>7. Shape'
  <2>1. Flags'
    <3>1. closed' \in Nat  BY <1>1, <1>2
    <3>2. chan' \in BOOLEAN /\ consuming' \in BOOLEAN  BY <1>1
    <3> QED  BY <3>1, <3>2 DEF IInv, Shape, Flags
  <2>2. Chains'
    <3>1. sent' \in Seq(SoundCommand)  BY <1>1, EmptySeq
    <3> QED  BY <3>1, ChainsStay DEF IInv, Shape, Chains
  <2>3. Wires'
    <3>1. unacked' \in Seq(Message)  BY <1>1, EmptySeq
    <3> QED  BY <1>3, <3>1 DEF Wires
  <2>4. Books'  BY BooksStay DEF IInv, Shape
  <2> QED  BY <2>1, <2>2, <2>3, <2>4 DEF Shape
<1>8. Linked'  BY <1>1 DEF IInv, Linked
<1>9. Outstanding'
  <2>1. Rpcs + Oks <= 1  BY DEF IInv, Outstanding
  <2>2. Rpcs' + Oks' <= 1
    <3>1. Rpcs' \in Nat /\ Rpcs' <= 0 /\ Oks' \in Nat /\ Oks' <= Oks  BY <1>4 DEF FewerArrive
    <3> QED  BY <1>0, <2>1, <3>1 DEF Rpcs, Oks
  <2>3. ASSUME calls = <<>> PROVE Rpcs' + Oks' = 0
    <3>1. Rpcs + Oks = 0  BY <2>3 DEF IInv, Outstanding
    <3>2. Rpcs' \in Nat /\ Rpcs' <= 0 /\ Oks' \in Nat /\ Oks' <= Oks  BY <1>4 DEF FewerArrive
    <3> QED  BY <1>0, <3>1, <3>2 DEF Rpcs, Oks
  <2>4. sent' \in Seq(Outward')  BY <1>1, EmptySeq
  <2> QED  BY <2>2, <2>3, <2>4 DEF Outstanding
<1>10. Acked'  BY <1>1 DEF Acked
<1>11. OneChain'
  <2>1. SUFFICES ASSUME patient PROVE OneChain'  BY DEF OneChain
  <2>2. CurrentCall' = CurrentCall  BY DEF CurrentCall
  <2>3. sent' \in Seq(CurrentCommand')  BY <1>1, EmptySeq
  <2>4. /\ Waiting(Fresh) + Held(Fresh) <= 1 /\ Arriving(Fresh) + Operations <= 1
    BY <2>1 DEF IInv, OneChain
  <2>5. /\ Waiting(Fresh) \in Nat /\ Held(Fresh) \in Nat /\ Arriving(Fresh) \in Nat
        /\ Arriving(Fresh)' \in Nat /\ Arriving(Fresh)' <= Arriving(Fresh)
        /\ Waiting(Fresh)' = Held(Fresh) + Waiting(Fresh) /\ Held(Fresh)' = 0
    BY <1>0, <1>4, <1>6 DEF Numbers, FewerArrive
  <2>6. Waiting(Fresh)' + Held(Fresh)' <= 1 /\ Arriving(Fresh)' + Operations' <= 1
    BY <1>0, <1>5, <2>4, <2>5
  <2>7. Oks' # 0 => Oks # 0
    <3>1. Oks' \in Nat /\ Oks' <= Oks  BY DEF FewerArrive
    <3> QED  BY <1>0, <3>1
  <2>8. calls' \in Seq(CurrentCall')  BY <2>1, <2>2 DEF IInv, OneChain
  <2>9. \A p \in published' : p.number = p.content /\ announced'[p.content].address \in p.queues
    BY <2>1 DEF IInv, OneChain
  <2>10. Oks' # 0 /\ Head(calls').chain = "operation" /\ Head(calls').step = "bind" =>
           <<"topic", Head(calls').queue, Head(calls').key>> \in bound'
    BY <2>1, <2>7 DEF IInv, OneChain
  <2> QED  BY <1>1, <2>3, <2>6, <2>8, <2>9, <2>10 DEF OneChain
<1>12. Loop'
  <2>1. SUFFICES ASSUME NEW id \in Nat
                 PROVE  /\ Waiting(OfId(id))' + Held(OfId(id))' <= 1
                        /\ Waiting(OfId(id))' + Arriving(OfId(id))' + Taken(OfId(id))' <= 1 + closed'
                        /\ informs' \cap OfId(id) # {} =>
                             /\ Waiting(OfId(id))' = 0 /\ Held(OfId(id))' = 0
                             /\ Arriving(OfId(id))' = 0 /\ Taken(OfId(id))' = 0
    BY DEF Loop
  <2>2. PICK S : S = OfId(id)  OBVIOUS
  <2>3. /\ Waiting(S) + Held(S) <= 1
        /\ Waiting(S) + Arriving(S) + Taken(S) <= 1 + closed
    BY <2>2 DEF IInv, Loop
  <2>4. /\ Waiting(S) \in Nat /\ Held(S) \in Nat /\ Arriving(S) \in Nat /\ Taken(S) \in Nat
        /\ Arriving(S)' \in Nat /\ Arriving(S)' <= Arriving(S) /\ Taken(S)' = Taken(S)
        /\ Waiting(S)' = Held(S) + Waiting(S) /\ Held(S)' = 0
    BY <1>0, <1>4, <1>5, <1>6 DEF Numbers, FewerArrive
  <2>5. /\ Waiting(S)' + Held(S)' <= 1
        /\ Waiting(S)' + Arriving(S)' + Taken(S)' <= 1 + closed'
    BY <1>1, <1>2, <2>3, <2>4, SMTT(30)
  <2>6. ASSUME informs' \cap S # {}
        PROVE  Waiting(S)' = 0 /\ Held(S)' = 0 /\ Arriving(S)' = 0 /\ Taken(S)' = 0
    <3>1. Waiting(S) = 0 /\ Held(S) = 0 /\ Arriving(S) = 0 /\ Taken(S) = 0
      BY <2>2, <2>6 DEF IInv, Loop
    <3> QED  BY <2>4, <3>1
  <2> QED  BY <2>2, <2>5, <2>6
<1>13. OwnQueues'  BY DEF IInv, OwnQueues
<1> QED  BY <1>7, <1>8, <1>9, <1>10, <1>11, <1>12, <1>13 DEF IInv

\* A frame that closes the channel is neither an answer nor a delivery.
LEMMA CloseFrame ==
  ASSUME NEW s \in Seq(Frame)
  PROVE  LET t == Append(s, [frame |-> "close"]) IN
         /\ t \in Seq(Frame)
         /\ Count(t, FramesOf("ok")) = Count(s, FramesOf("ok"))
         /\ \A S : Count(t, Carriers(S)) = Count(s, Carriers(S))
<1> DEFINE f == [frame |-> "close"]
<1>1. f \in Frame /\ f.frame = "close"  BY DEF Frame
<1> HIDE DEF f
<1>2. f \notin FramesOf("ok") /\ \A S : f \notin Carriers(S)  BY <1>1, FrameKinds
<1>3. \A S : Count(s, S) \in Nat  BY CountType
<1>4. \A S : Count(Append(s, f), S) = Count(s, S) + (IF f \in S THEN 1 ELSE 0)
  BY <1>1, CountAppend
<1>5. ASSUME NEW S, f \notin S PROVE Count(Append(s, f), S) = Count(s, S)
  BY <1>3, <1>4, <1>5
<1>6. Append(s, f) \in Seq(Frame)  BY <1>1, AppendProperties
<1> QED  BY <1>2, <1>5, <1>6 DEF f

\* A binding to a queue that is gone loses the channel.
LEMMA NotFoundKeeps ==
  ASSUME IInv, NotFound, UNCHANGED patient
  PROVE  IInv'
<1>1. /\ chan /\ Lost /\ frames' = Append(frames, [frame |-> "close"])
      /\ UNCHANGED <<alive, link, calls, template, announced, declared, bound, published, informs>>
  BY DEF NotFound, NextCommand, backend
<1>2. frames \in Seq(Frame)  BY DEF IInv, Shape, Wires
<1>3. /\ frames' \in Seq(Frame)
      /\ Oks' = Oks /\ \A S : Arriving(S)' = Arriving(S)
  BY <1>1, <1>2, CloseFrame DEF Oks, Arriving
<1>4. Oks \in Nat /\ \A S : Arriving(S) \in Nat  BY CountsAre DEF IInv, Numbers
<1>5. FewerArrive  BY <1>3, <1>4 DEF FewerArrive
<1> QED  BY <1>1, <1>3, <1>5, LostKeeps

\* So does a broken connection, with some of the frames.
LEMMA BreakKeeps ==
  ASSUME IInv, Break, UNCHANGED patient
  PROVE  IInv'
<1>1. /\ chan /\ Lost
      /\ UNCHANGED <<alive, link, calls, template, announced, declared, bound, published, informs>>
  BY DEF Break, backend
<1>2. PICK n \in 0..Len(frames) : frames' = Append(SubSeq(frames, 1, n), [frame |-> "close"])
  BY DEF Break
<1>3. frames \in Seq(Frame)  BY DEF IInv, Shape, Wires
<1>4. /\ SubSeq(frames, 1, n) \in Seq(Frame)
      /\ \A S : /\ Count(SubSeq(frames, 1, n), S) <= Count(frames, S)
                /\ Count(SubSeq(frames, 1, n), S) \in Nat
  BY <1>3, CountPrefix, CountType
<1>5. /\ frames' \in Seq(Frame)
      /\ Oks' = Count(SubSeq(frames, 1, n), FramesOf("ok"))
      /\ \A S : Arriving(S)' = Count(SubSeq(frames, 1, n), Carriers(S))
  BY <1>2, <1>4, CloseFrame DEF Oks, Arriving
<1>6. FewerArrive  BY <1>4, <1>5 DEF Oks, Arriving, FewerArrive
<1> QED  BY <1>1, <1>5, <1>6, LostKeeps

\* What goes with an expired queue is nobody's: no chain is on its way to it.
LEMMA ExpireKeeps ==
  ASSUME IInv, NEW q \in Address \cup {Self}, Expire(q), UNCHANGED patient
  PROVE  IInv'
<1>0. /\ Rpcs \in Nat /\ Oks \in Nat /\ Acks \in Nat /\ Deliveries \in Nat /\ Operations \in Nat
      /\ Numbers
  BY CountsAre DEF IInv
<1>1. /\ declared' = declared \ {q} /\ bound' = {b \in bound : b[2] # q}
      /\ UNCHANGED <<alive, link, calls, template, announced, chan, unacked, consuming,
                     published, closed, sent, frames, informs, patient>>
  BY DEF Expire, backend
<1>2. backlog' = <<>> \/ backlog' = backlog  BY DEF Expire
<1>3. sent = <<>> /\ (q # Self => calls = <<>>)
  <2>1. CASE q = Self  BY <2>1 DEF Expire, IInv, Linked
  <2>2. CASE q # Self  BY <2>2 DEF Expire
  <2> QED  BY <2>1, <2>2
<1>4. backlog' \in Seq(Message)  BY <1>2, EmptySeq DEF IInv, Shape, Wires
<1>5. ASSUME NEW S PROVE Waiting(S)' \in Nat /\ Waiting(S)' <= Waiting(S)
  <2>1. Waiting(S) \in Nat  BY <1>0 DEF Numbers
  <2>2. CASE backlog' = backlog  BY <2>1, <2>2 DEF Waiting
  <2>3. CASE backlog' = <<>>
    <3>1. Count(backlog', S) = 0  BY <2>3, CountEmpty
    <3>2. Count(backlog', S) \in Nat  BY <1>4, CountType
    <3> QED  BY <2>1, <3>1, <3>2 DEF Waiting
  <2> QED  BY <1>2, <2>2, <2>3
<1>6. /\ Rpcs' = Rpcs /\ Acks' = Acks /\ Oks' = Oks /\ Closes' = Closes /\ Deliveries' = Deliveries
      /\ Operations' = Operations
      /\ \A S : Held(S)' = Held(S) /\ Arriving(S)' = Arriving(S) /\ Taken(S)' = Taken(S)
  BY <1>1 DEF Rpcs, Acks, Oks, Closes, Deliveries, Operations, Held, Arriving, Taken
<1>7. Shape'
  <2>1. Flags'  BY <1>1 DEF IInv, Shape, Flags
  <2>2. Chains'  BY <1>1, ChainsStay DEF IInv, Shape, Chains
  <2>3. Wires'  BY <1>1, <1>4 DEF IInv, Shape, Wires
  <2>4. bound' \subseteq {"fanout", "topic"} \X declared' \X (Device \cup {""})
    <3>1. SUFFICES ASSUME NEW b \in bound, b[2] # q
                   PROVE  b \in {"fanout", "topic"} \X declared' \X (Device \cup {""})
      BY <1>1
    <3>2. b \in {"fanout", "topic"} \X declared \X (Device \cup {""})
      BY DEF IInv, Shape, Books
    <3> QED  BY <1>1, <3>1, <3>2
  <2>5. Books'
    BY <1>1, <2>4, SameSound DEF IInv, Shape, Books
  <2> QED  BY <2>1, <2>2, <2>3, <2>5 DEF Shape
<1>8. Linked'  BY <1>1, <1>6 DEF IInv, Linked
<1>9. Outstanding'
  BY <1>1, <1>6 DEF IInv, Outstanding, Outward
<1>10. Acked'  BY <1>1, <1>6 DEF IInv, Acked
<1>11. OneChain'
  <2>1. SUFFICES ASSUME patient PROVE OneChain'  BY <1>1 DEF OneChain
  <2>2. CurrentCall' = CurrentCall  BY <1>1 DEF CurrentCall
  <2>3. sent' \in Seq(CurrentCommand')  BY <1>1, <1>3, EmptySeq
  <2>4. /\ Waiting(Fresh)' + Held(Fresh)' <= 1
        /\ chan => Waiting(Fresh)' + Arriving(Fresh)' + Operations' <= 1
    <3>1. /\ Waiting(Fresh)' \in Nat /\ Waiting(Fresh)' <= Waiting(Fresh)
          /\ Held(Fresh)' = Held(Fresh) /\ Arriving(Fresh)' = Arriving(Fresh)
          /\ Waiting(Fresh) \in Nat /\ Held(Fresh) \in Nat /\ Arriving(Fresh) \in Nat
      BY <1>0, <1>5, <1>6 DEF Numbers
    <3>2. Waiting(Fresh) + Held(Fresh) <= 1  BY <2>1 DEF IInv, OneChain
    <3>3. ASSUME chan PROVE Waiting(Fresh)' + Arriving(Fresh)' + Operations' <= 1
      <4>1. Waiting(Fresh) + Arriving(Fresh) + Operations <= 1  BY <2>1, <3>3 DEF IInv, OneChain
      <4> QED  BY <1>0, <1>6, <3>1, <4>1
    <3> QED  BY <3>1, <3>2, <3>3
  <2>5. ASSUME Oks # 0, Head(calls).chain = "operation", Head(calls).step = "bind"
        PROVE  <<"topic", Head(calls).queue, Head(calls).key>> \in bound'
    <3> DEFINE b == <<"topic", Head(calls).queue, Head(calls).key>>
    <3>1. calls # <<>>
      <4>1. SUFFICES ASSUME calls = <<>> PROVE FALSE  OBVIOUS
      <4>2. Rpcs + Oks = 0  BY <4>1 DEF IInv, Outstanding
      <4> QED  BY <1>0, <2>5, <4>2 DEF Rpcs, Oks
    <3>2. q = Self  BY <1>3, <3>1
    <3>3. Head(calls) \in SoundCall /\ Head(calls) \in CurrentCall
      BY <2>1, <3>1, HeadTailProperties DEF IInv, Shape, Chains, OneChain
    <3>4. template.content \in Announcement /\ Head(calls).queue = announced[template.content].address
      BY <2>5, <3>3 DEF SoundCall, CurrentCall
    <3>5. announced[template.content] \in Fresh
      BY <3>4, ElementOfSeq DEF IInv, Shape, Chains, Announcement
    <3>6. Head(calls).queue \in Address  BY <3>4, <3>5 DEF Fresh, Message
    <3>7. b \in bound  BY <2>1, <2>5 DEF IInv, OneChain
    <3>8. b[2] # q  BY <3>2, <3>6, AddressAssumption
    <3> HIDE DEF b
    <3>9. b \in bound'  BY <1>1, <3>7, <3>8
    <3> QED  BY <3>9 DEF b
  <2> QED  BY <1>1, <1>6, <2>1, <2>2, <2>3, <2>4, <2>5 DEF IInv, OneChain
<1>12. Loop'
  <2>1. ASSUME NEW S
        PROVE  /\ Waiting(S)' \in Nat /\ Held(S)' \in Nat /\ Arriving(S)' \in Nat /\ Taken(S)' \in Nat
               /\ Waiting(S)' + Held(S)' <= Waiting(S) + Held(S)
               /\ Waiting(S)' + Arriving(S)' + Taken(S)' <= Waiting(S) + Arriving(S) + Taken(S)
    <3>1. /\ Waiting(S) \in Nat /\ Held(S) \in Nat /\ Arriving(S) \in Nat /\ Taken(S) \in Nat
          /\ Held(S)' = Held(S) /\ Arriving(S)' = Arriving(S) /\ Taken(S)' = Taken(S)
          /\ Waiting(S)' \in Nat /\ Waiting(S)' <= Waiting(S)
      BY <1>0, <1>5, <1>6 DEF Numbers
    <3> QED  BY <3>1
  <2>2. Numbers' /\ NoneGrows  BY <2>1 DEF Numbers, NoneGrows
  <2> QED  BY <1>0, <1>1, <2>2, LoopStays DEF IInv, Shape
<1>13. OwnQueues'  BY <1>1 DEF IInv, OwnQueues
<1> QED  BY <1>7, <1>8, <1>9, <1>10, <1>11, <1>12, <1>13 DEF IInv

\* The ACS notifies the backend of something it has not heard of.
LEMMA NotifyKeeps ==
  ASSUME IInv, Notify, UNCHANGED patient
  PROVE  IInv'
<1>0. /\ Oks \in Nat /\ Operations \in Nat /\ Numbers
  BY CountsAre DEF IInv
<1>1. PICK m \in informs : informs' = informs \ {m} /\ backlog' = Queued(m)
  BY DEF Notify
<1>2. UNCHANGED <<alive, link, calls, template, announced, chan, unacked, consuming, declared,
                  bound, published, closed, sent, frames, patient>>
  BY DEF Notify, backend, broker
<1>3. m \in Message /\ Wires
  BY InformAssumption DEF IInv, Shape, Flags
<1>4. /\ backlog' \in Seq(Message)
      /\ \A S : /\ Waiting(S)' \in Nat
                /\ m \notin S => Waiting(S)' = Waiting(S)
                /\ Waiting(S)' <= Waiting(S) + 1
  BY <1>1, <1>3, QueuedIs
<1>5. /\ Rpcs' = Rpcs /\ Acks' = Acks /\ Oks' = Oks /\ Closes' = Closes /\ Deliveries' = Deliveries
      /\ Operations' = Operations
      /\ \A S : Held(S)' = Held(S) /\ Arriving(S)' = Arriving(S) /\ Taken(S)' = Taken(S)
  BY <1>2 DEF Rpcs, Acks, Oks, Closes, Deliveries, Operations, Held, Arriving, Taken
<1>6. Shape'
  <2>1. Flags'  BY <1>1, <1>2 DEF IInv, Shape, Flags
  <2>2. Chains'  BY <1>2, ChainsStay DEF IInv, Shape, Chains
  <2>3. Wires'  BY <1>2, <1>3, <1>4 DEF Wires
  <2>4. Books'  BY <1>2, BooksStay DEF IInv, Shape
  <2> QED  BY <2>1, <2>2, <2>3, <2>4 DEF Shape
<1>7. Linked'  BY <1>2, <1>5 DEF IInv, Linked
<1>8. Outstanding'
  BY <1>2, <1>5 DEF IInv, Outstanding, Outward
<1>9. Acked'  BY <1>2, <1>5 DEF IInv, Acked
<1>10. OneChain'
  <2>1. SUFFICES ASSUME patient PROVE OneChain'  BY <1>2 DEF OneChain
  <2>2. CurrentCall' = CurrentCall /\ CurrentCommand' = CurrentCommand
    BY <1>2 DEF CurrentCall, CurrentCommand, Route
  <2>3. calls = <<>> /\ frames = <<>> /\ backlog = <<>> /\ unacked = <<>>
    BY <2>1 DEF Notify, AtRest
  <2>4. /\ Waiting(Fresh) <= 0 /\ Held(Fresh) <= 0 /\ Arriving(Fresh) <= 0 /\ Operations <= 0
    <3>1. \A S : Count(<<>>, S) <= 0  BY CountEmpty
    <3> QED  BY <2>3, <3>1 DEF Waiting, Held, Arriving, Operations
  <2>5. /\ Waiting(Fresh)' + Held(Fresh)' <= 1
        /\ Arriving(Fresh)' + Operations' <= 1
        /\ Waiting(Fresh)' + Arriving(Fresh)' + Operations' <= 1
    <3>1. /\ Waiting(Fresh) \in Nat /\ Held(Fresh) \in Nat /\ Arriving(Fresh) \in Nat
          /\ Held(Fresh)' = Held(Fresh) /\ Arriving(Fresh)' = Arriving(Fresh)
          /\ Waiting(Fresh)' \in Nat /\ Waiting(Fresh)' <= Waiting(Fresh) + 1
      BY <1>0, <1>4, <1>5 DEF Numbers
    <3> QED  BY <1>0, <1>5, <2>4, <3>1 DEF Operations
  <2> QED  BY <1>2, <1>5, <2>1, <2>2, <2>5 DEF IInv, OneChain
<1>11. Loop'
  <2>1. SUFFICES ASSUME NEW id \in Nat
                 PROVE  /\ Waiting(OfId(id))' + Held(OfId(id))' <= 1
                        /\ Waiting(OfId(id))' + Arriving(OfId(id))' + Taken(OfId(id))' <= 1 + closed'
                        /\ informs' \cap OfId(id) # {} =>
                             /\ Waiting(OfId(id))' = 0 /\ Held(OfId(id))' = 0
                             /\ Arriving(OfId(id))' = 0 /\ Taken(OfId(id))' = 0
    BY DEF Loop
  <2>2. PICK S : S = OfId(id)  OBVIOUS
  <2>3. /\ Waiting(S) \in Nat /\ Held(S) \in Nat /\ Arriving(S) \in Nat /\ Taken(S) \in Nat
        /\ Held(S)' = Held(S) /\ Arriving(S)' = Arriving(S) /\ Taken(S)' = Taken(S)
        /\ Waiting(S)' \in Nat /\ Waiting(S)' <= Waiting(S) + 1
        /\ closed \in Nat /\ closed' = closed
    BY <1>0, <1>2, <1>4, <1>5 DEF Numbers, IInv, Shape, Flags
  <2>4. CASE m \in S
    <3>1. informs \cap S # {}  BY <2>4
    <3>2. Waiting(S) = 0 /\ Held(S) = 0 /\ Arriving(S) = 0 /\ Taken(S) = 0
      BY <2>2, <3>1 DEF IInv, Loop
    <3>3. /\ Waiting(S)' + Held(S)' <= 1
          /\ Waiting(S)' + Arriving(S)' + Taken(S)' <= 1 + closed'
      BY <2>3, <3>2
    <3>4. informs' \cap S = {}
      BY <1>1, <2>2, <2>4 DEF OfId, IInv, Shape, Flags
    <3> QED  BY <2>2, <3>3, <3>4
  <2>5. CASE m \notin S
    <3>1. Waiting(S)' = Waiting(S)  BY <1>4, <2>5
    <3>2. /\ Waiting(S) + Held(S) <= 1
          /\ Waiting(S) + Arriving(S) + Taken(S) <= 1 + closed
      BY <2>2 DEF IInv, Loop
    <3>3. /\ Waiting(S)' + Held(S)' <= 1
          /\ Waiting(S)' + Arriving(S)' + Taken(S)' <= 1 + closed'
      BY <2>3, <3>1, <3>2
    <3>4. ASSUME informs' \cap S # {}
          PROVE  Waiting(S)' = 0 /\ Held(S)' = 0 /\ Arriving(S)' = 0 /\ Taken(S)' = 0
      <4>1. informs \cap S # {}  BY <1>1, <3>4
      <4>2. Waiting(S) = 0 /\ Held(S) = 0 /\ Arriving(S) = 0 /\ Taken(S) = 0
        BY <2>2, <4>1 DEF IInv, Loop
      <4> QED  BY <2>3, <3>1, <4>2
    <3> QED  BY <2>2, <3>3, <3>4
  <2> QED  BY <2>4, <2>5
<1>12. OwnQueues'  BY <1>2 DEF IInv, OwnQueues
<1> QED  BY <1>6, <1>7, <1>8, <1>9, <1>10, <1>11, <1>12 DEF IInv

-----------------------------------------------------------------------------
(***************************************************************************)
(* The backend's callbacks.                                                *)
(***************************************************************************)
\* The call that is sent first is the first of the calls.
Leading(s) == {x \in Command : x.command = "rpc" /\ x.call = Head(s)}

\* What it is: a command of that call alone, or none.
LEMMA FirstOfIs ==
  ASSUME Chains, NEW s \in Seq(SoundCall)
  PROVE  /\ FirstOf(s) \in Seq(SoundCommand)
         /\ FirstOf(s) \in Seq(Leading(s))
         /\ Count(FirstOf(s), CommandsOf("rpc")) \in Nat
         /\ Count(FirstOf(s), CommandsOf("rpc")) <= 1
         /\ s = <<>> => Count(FirstOf(s), CommandsOf("rpc")) = 0
         /\ Count(FirstOf(s), CommandsOf("ack")) = 0
<1>1. CASE s = <<>>
  <2>1. FirstOf(s) = <<>>  BY <1>1 DEF FirstOf
  <2>2. \A S : Count(<<>>, S) = 0  BY CountEmpty
  <2>3. \A S : <<>> \in Seq(S)  BY EmptySeq
  <2> QED  BY <2>1, <2>2, <2>3
<1>2. CASE s # <<>>
  <2>1. Head(s) \in SoundCall  BY <1>2, HeadTailProperties
  <2> DEFINE x == Rpc(Head(s))
  <2>2. FirstOf(s) = <<x>>  BY <1>2 DEF FirstOf
  <2>3. x \in SoundCommand /\ x.command = "rpc" /\ x.call = Head(s)
    BY <2>1 DEF Rpc, SoundCommand
  <2> HIDE DEF x
  <2>4. x \in CommandsOf("rpc") /\ x \notin CommandsOf("ack") /\ x \in Leading(s)
    BY <2>3, SoundKinds DEF Leading
  <2>5. /\ <<x>> \in Seq(SoundCommand) /\ <<x>> \in Seq(Leading(s))
        /\ \A S : Count(<<x>>, S) = IF x \in S THEN 1 ELSE 0
    BY <2>3, <2>4, CountOne
  <2>6. Count(<<x>>, CommandsOf("rpc")) = 1 /\ Count(<<x>>, CommandsOf("ack")) = 0
    BY <2>4, <2>5
  <2> QED  BY <1>2, <2>2, <2>5, <2>6
<1> QED  BY <1>1, <1>2

\* Setting up, the backend works on no operation.
LEMMA SetupIs ==
  /\ SetupCalls \in Seq(SoundCall \ OperationCalls)
  /\ SetupCalls # <<>>
<1> DEFINE S == SoundCall \ OperationCalls
           confirm == CallOf("confirm", "consumer", 0, "", "")
           rest == [i \in 1..Len(SetupChains) |-> CallOf("exchange", SetupChains[i], 0, "", "")]
<1>1. confirm \in S
  BY DEF CallOf, SoundCall, Call, OperationCalls
<1>2. Len(SetupChains) = 2 /\ SetupChains[1] = "consumer" /\ SetupChains[2] = "publisher"
  BY DEF SetupChains
<1>3. ASSUME NEW chain \in {"consumer", "publisher"}
      PROVE  CallOf("exchange", chain, 0, "", "") \in S
  BY DEF CallOf, SoundCall, Call, OperationCalls
<1>4. rest \in Seq(S)
  <2>1. \A i \in 1..2 : SetupChains[i] \in {"consumer", "publisher"}  BY <1>2
  <2>2. rest \in [1..2 -> S]  BY <1>2, <1>3, <2>1
  <2> HIDE DEF rest, S
  <2> QED  BY <2>2, SeqDef
<1>5. <<confirm>> \in Seq(S) /\ <<confirm>> # <<>>
  <2> HIDE DEF confirm, S
  <2> QED  BY <1>1, CountOne
<1>6. SetupCalls = <<confirm>> \o rest  BY DEF SetupCalls
<1> HIDE DEF confirm, rest, S
<1>7. SetupCalls \in Seq(S) /\ SetupCalls # <<>>
  BY <1>4, <1>5, <1>6, ConcatProperties, ConcatEqualIffEmpty
<1> QED  BY <1>7 DEF S

\* A new connection starts with nothing under way.
LEMMA OpenKeeps ==
  ASSUME IInv, Open, UNCHANGED patient
  PROVE  IInv'
<1>0. /\ Rpcs \in Nat /\ Oks \in Nat /\ Acks \in Nat /\ Deliveries \in Nat /\ Operations \in Nat
      /\ Numbers
  BY CountsAre DEF IInv
<1>1. /\ ~link /\ link' = TRUE /\ chan' = TRUE
      /\ calls' = SetupCalls /\ sent' = FirstOf(SetupCalls)
      /\ UNCHANGED <<alive, template, announced, frames, backlog, unacked, consuming, declared,
                     bound, published, closed, informs, patient>>
  BY DEF Open
<1>2. ~chan /\ calls = <<>> /\ frames = <<>> /\ sent = <<>> /\ unacked = <<>>
  BY <1>1 DEF IInv, Linked
<1>3. /\ SetupCalls \in Seq(SoundCall) /\ SetupCalls \in Seq(SoundCall \ OperationCalls)
      /\ SetupCalls # <<>>
  BY SetupIs, SeqMonotonic
<1>4. /\ sent' \in Seq(SoundCommand) /\ sent' \in Seq(Leading(SetupCalls))
      /\ Rpcs' \in Nat /\ Rpcs' <= 1 /\ Acks' = 0
  BY <1>1, <1>3, FirstOfIs DEF IInv, Shape, Rpcs, Acks
<1>5. /\ Oks' \in Nat /\ Oks' <= 0 /\ Closes' = 0 /\ Deliveries' = 0
      /\ \A S : Arriving(S)' = Arriving(S)
  <2>1. \A S : Count(<<>>, S) = 0  BY CountEmpty
  <2> QED  BY <1>1, <1>2, <2>1 DEF Oks, Closes, Deliveries, Arriving
<1>6. Operations' \in Nat /\ Operations' <= 0
  <2>1. Count(SetupCalls, OperationCalls) = 0  BY <1>3, CountNone
  <2> QED  BY <1>1, <2>1 DEF Operations
<1>7. \A S : Waiting(S)' = Waiting(S) /\ Held(S)' = Held(S) /\ Taken(S)' = Taken(S)
  BY <1>1 DEF Waiting, Held, Taken
<1>8. Shape'
  <2>1. Flags'  BY <1>1 DEF IInv, Shape, Flags
  <2>2. Chains'  BY <1>1, <1>3, <1>4, ChainsStay DEF IInv, Shape
  <2>3. Wires'  BY <1>1 DEF IInv, Shape, Wires
  <2>4. Books'  BY <1>1, BooksStay DEF IInv, Shape
  <2> QED  BY <2>1, <2>2, <2>3, <2>4 DEF Shape
<1>9. Linked'  BY <1>1, <1>5 DEF IInv, Linked
<1>10. Outstanding'
  <2>1. Rpcs' + Oks' <= 1  BY <1>4, <1>5 DEF Rpcs, Oks
  <2>2. Leading(SetupCalls) \subseteq Outward'  BY <1>1 DEF Leading, Outward
  <2>3. sent' \in Seq(Outward')  BY <1>4, <2>2, SeqMonotonic
  <2> QED  BY <1>1, <1>3, <2>1, <2>3 DEF Outstanding
<1>11. Acked'
  <2>1. Len(unacked') = 0  BY <1>1, <1>2, EmptySeq
  <2>2. Acks' + Deliveries' = 0  BY <1>4, <1>5
  <2> QED  BY <2>1, <2>2 DEF Acked
<1>12. OneChain'
  <2>1. SUFFICES ASSUME patient PROVE OneChain'  BY <1>1 DEF OneChain
  <2>2. SoundCall \ OperationCalls \subseteq CurrentCall'
    BY DEF SoundCall, OperationCalls, CurrentCall
  <2>3. calls' \in Seq(CurrentCall')  BY <1>1, <1>3, <2>2, SeqMonotonic
  <2>4. Leading(SetupCalls) \subseteq CurrentCommand'  BY DEF Leading, CurrentCommand
  <2>5. sent' \in Seq(CurrentCommand')  BY <1>4, <2>4, SeqMonotonic
  <2>6. Waiting(Fresh) + Held(Fresh) <= 1  BY <2>1 DEF IInv, OneChain
  <2>7. Arriving(Fresh) <= 0
    <3>1. \A S : Count(<<>>, S) <= 0  BY CountEmpty
    <3> QED  BY <1>2, <3>1 DEF Arriving
  <2>8. /\ Waiting(Fresh) \in Nat /\ Held(Fresh) \in Nat /\ Arriving(Fresh) \in Nat
    BY <1>0 DEF Numbers
  <2>9. /\ Waiting(Fresh)' + Held(Fresh)' <= 1
        /\ Arriving(Fresh)' + Operations' <= 1
        /\ Waiting(Fresh)' + Arriving(Fresh)' + Operations' <= 1
    <3>1. /\ Waiting(Fresh)' = Waiting(Fresh) /\ Held(Fresh)' = Held(Fresh)
          /\ Arriving(Fresh)' = Arriving(Fresh)
      BY <1>5, <1>7
    <3> QED  BY <1>6, <2>6, <2>7, <2>8, <3>1 DEF Operations
  <2>10. Oks' = 0  BY <1>5
  <2>11. \A p \in published' : p.number = p.content /\ announced'[p.content].address \in p.queues
    BY <1>1, <2>1 DEF IInv, OneChain
  <2> QED  BY <1>1, <2>3, <2>5, <2>9, <2>10, <2>11 DEF OneChain
<1>13. Loop'
  <2>1. Numbers' /\ NoneGrows  BY <1>0, <1>5, <1>7 DEF Numbers, NoneGrows
  <2> QED  BY <1>0, <1>1, <2>1, LoopStays DEF IInv, Shape
<1>14. OwnQueues'  BY <1>1 DEF IInv, OwnQueues
<1> QED  BY <1>8, <1>9, <1>10, <1>11, <1>12, <1>13, <1>14 DEF IInv

\* A step that touches none of this keeps it.
LEMMA UnchangedKeeps ==
  ASSUME IInv, alive' \in BOOLEAN,
         UNCHANGED <<link, calls, template, announced, chan, sent, frames, backlog, unacked,
                     consuming, declared, bound, published, closed, informs, patient>>
  PROVE  IInv'
<1>1. /\ Rpcs' = Rpcs /\ Acks' = Acks /\ Oks' = Oks /\ Closes' = Closes /\ Deliveries' = Deliveries
      /\ Operations' = Operations
      /\ \A S : /\ Waiting(S)' = Waiting(S) /\ Held(S)' = Held(S)
                /\ Arriving(S)' = Arriving(S) /\ Taken(S)' = Taken(S)
  BY DEF Rpcs, Acks, Oks, Closes, Deliveries, Operations, Waiting, Held, Arriving, Taken
<1>2. Shape'
  <2>1. Flags'  BY DEF IInv, Shape, Flags
  <2>2. Chains'  BY ChainsStay DEF IInv, Shape, Chains
  <2>3. Wires'  BY DEF IInv, Shape, Wires
  <2>4. Books'  BY BooksStay DEF IInv, Shape
  <2> QED  BY <2>1, <2>2, <2>3, <2>4 DEF Shape
<1>3. Linked'  BY <1>1 DEF IInv, Linked
<1>4. Outstanding'  BY <1>1 DEF IInv, Outstanding, Outward
<1>5. Acked'  BY <1>1 DEF IInv, Acked
<1>6. OneChain'
  <2>1. CurrentCall' = CurrentCall /\ CurrentCommand' = CurrentCommand
    BY DEF CurrentCall, CurrentCommand, Route
  <2> QED  BY <1>1, <2>1 DEF IInv, OneChain
<1>7. Loop'
  <2>1. Numbers  BY CountsAre DEF IInv
  <2>2. Numbers' /\ NoneGrows  BY <1>1, <2>1 DEF Numbers, NoneGrows
  <2> QED  BY <2>1, <2>2, LoopStays DEF IInv, Shape
<1>8. OwnQueues'  BY DEF IInv, OwnQueues
<1> QED  BY <1>2, <1>3, <1>4, <1>5, <1>6, <1>7, <1>8 DEF IInv

\* A backend that cannot connect exits, and nothing else changes.
LEMMA OpenErrorKeeps ==
  ASSUME IInv, OpenError, UNCHANGED patient
  PROVE  IInv'
BY UnchangedKeeps DEF OpenError, broker

\* When the backend learns that the channel is gone, the broker has lost it.
LEMMA OnClosedKeeps ==
  ASSUME IInv, OnClosed, UNCHANGED patient
  PROVE  IInv'
<1>0. /\ Rpcs \in Nat /\ Oks \in Nat /\ Closes \in Nat /\ Numbers
  BY CountsAre DEF IInv
<1>1. /\ frames # <<>> /\ Head(frames).frame = "close"
      /\ link' = FALSE /\ calls' = <<>> /\ frames' = <<>>
      /\ UNCHANGED <<alive, template, announced, chan, sent, backlog, unacked, consuming, declared,
                     bound, published, closed, informs, patient>>
  BY DEF OnClosed, broker
<1>2. ~chan
  <2>1. frames \in Seq(Frame)  BY DEF IInv, Shape, Wires
  <2>2. Head(frames) \in Frame /\ Head(frames) = frames[1] /\ 1 \in 1..Len(frames)
    BY <1>1, <2>1, HeadTailProperties, EmptySeq
  <2>3. frames[1] \in FramesOf("close")  BY <1>1, <2>2, FrameKinds
  <2>4. Closes >= 1  BY <2>1, <2>2, <2>3, CountPositive DEF Closes
  <2>5. Closes # 0  BY <1>0, <2>4
  <2> QED  BY <2>5 DEF IInv, Linked
<1>3. sent = <<>> /\ unacked = <<>>  BY <1>2 DEF IInv, Linked
<1>4. /\ Rpcs' \in Nat /\ Rpcs' <= 0 /\ Oks' \in Nat /\ Oks' <= 0
      /\ Operations' \in Nat /\ Operations' <= 0
      /\ \A S : Arriving(S)' \in Nat /\ Arriving(S)' <= 0
  <2>1. \A S : Count(<<>>, S) = 0  BY CountEmpty
  <2> QED  BY <1>1, <1>3, <2>1 DEF Rpcs, Oks, Operations, Arriving
<1>5. \A S : Waiting(S)' = Waiting(S) /\ Held(S)' = Held(S) /\ Taken(S)' = Taken(S)
  BY <1>1 DEF Waiting, Held, Taken
<1>6. Shape'
  <2>1. Flags'  BY <1>1 DEF IInv, Shape, Flags
  <2>2. Chains'  BY <1>1, EmptySeq, ChainsStay DEF IInv, Shape, Chains
  <2>3. Wires'  BY <1>1, EmptySeq DEF IInv, Shape, Wires
  <2>4. Books'  BY <1>1, BooksStay DEF IInv, Shape
  <2> QED  BY <2>1, <2>2, <2>3, <2>4 DEF Shape
<1>7. Linked'  BY <1>1, <1>2 DEF IInv, Linked
<1>8. Outstanding'
  <2>1. Rpcs' + Oks' <= 1 /\ Rpcs' + Oks' = 0  BY <1>4 DEF Rpcs, Oks
  <2>2. sent' \in Seq(Outward')  BY <1>1, <1>3, EmptySeq
  <2> QED  BY <2>1, <2>2 DEF Outstanding
<1>9. Acked'  BY <1>1, <1>2 DEF Acked
<1>10. OneChain'
  <2>1. SUFFICES ASSUME patient PROVE OneChain'  BY <1>1 DEF OneChain
  <2>2. calls' \in Seq(CurrentCall') /\ sent' \in Seq(CurrentCommand')
    BY <1>1, <1>3, EmptySeq
  <2>3. Waiting(Fresh)' + Held(Fresh)' <= 1  BY <1>5, <2>1 DEF IInv, OneChain
  <2>4. Arriving(Fresh)' + Operations' <= 1  BY <1>4 DEF Operations
  <2>5. Oks' = 0  BY <1>4
  <2>6. \A p \in published' : p.number = p.content /\ announced'[p.content].address \in p.queues
    BY <1>1, <2>1 DEF IInv, OneChain
  <2> QED  BY <1>1, <1>2, <2>2, <2>3, <2>4, <2>5, <2>6 DEF OneChain
<1>11. Loop'
  <2>1. ASSUME NEW S
        PROVE  /\ Waiting(S)' \in Nat /\ Held(S)' \in Nat /\ Arriving(S)' \in Nat /\ Taken(S)' \in Nat
               /\ Waiting(S)' + Held(S)' <= Waiting(S) + Held(S)
               /\ Waiting(S)' + Arriving(S)' + Taken(S)' <= Waiting(S) + Arriving(S) + Taken(S)
    <3>1. /\ Waiting(S) \in Nat /\ Held(S) \in Nat /\ Arriving(S) \in Nat /\ Taken(S) \in Nat
          /\ Waiting(S)' = Waiting(S) /\ Held(S)' = Held(S) /\ Taken(S)' = Taken(S)
          /\ Arriving(S)' \in Nat /\ Arriving(S)' <= 0
      BY <1>0, <1>4, <1>5 DEF Numbers
    <3> QED  BY <3>1
  <2>2. Numbers' /\ NoneGrows  BY <2>1 DEF Numbers, NoneGrows
  <2> QED  BY <1>0, <1>1, <2>2, LoopStays DEF IInv, Shape
<1>12. OwnQueues'  BY <1>1 DEF IInv, OwnQueues
<1> QED  BY <1>6, <1>7, <1>8, <1>9, <1>10, <1>11, <1>12 DEF IInv

\* While there is something announced, the template holds one of it.
LEMMA Holding ==
  ASSUME Chains, NEW n \in Announcement
  PROVE  /\ template.content \in Announcement /\ Self \in template.archive
         /\ announced[template.content] \in Fresh
         /\ announced[template.content].address \in Address
         /\ announced[template.content].device \in Device
<1>1. Len(announced) \in Nat  BY SoundTypes
<1>2. announced # <<>>  BY <1>1, EmptySeq DEF Announcement
<1>3. template.content \in 0..Len(announced) /\ template.content # 0 /\ Self \in template.archive
  BY <1>2 DEF Chains
<1>4. template.content \in Announcement  BY <1>1, <1>3 DEF Announcement
<1>5. announced[template.content] \in Fresh
  BY <1>4, ElementOfSeq DEF Chains, Announcement
<1> QED  BY <1>3, <1>4, <1>5 DEF Fresh, Message

\* A chain goes on with one call, or none, and an operation's with what the
\* template says.
LEMMA NextCallIs ==
  ASSUME Chains, NEW done \in SoundCall
  PROVE  /\ NextCall(done) \in Seq(SoundCall)
         /\ Count(NextCall(done), OperationCalls) \in Nat
         /\ Count(NextCall(done), OperationCalls) <= 1
         /\ done \notin OperationCalls => Count(NextCall(done), OperationCalls) = 0
         /\ done \in CurrentCall => NextCall(done) \in Seq(CurrentCall)
<1>1. /\ done.step \in {"confirm", "exchange", "queue", "bind", "consume"}
      /\ done.chain \in {"consumer", "publisher", "operation"} /\ done.number \in Nat
      /\ done.chain = "operation" => done.number \in Announcement
      /\ done.step = "queue" => done.chain # "publisher"
  BY DEF SoundCall, Call
<1>2. done.chain = "operation" =>
        /\ template.content \in Announcement
        /\ announced[template.content].address \in Address
        /\ announced[template.content].device \in Device
  BY <1>1, Holding
<1>3. ASSUME NEW c \in SoundCall, NextCall(done) = <<c>>, c.chain = done.chain,
             done \in CurrentCall => c \in CurrentCall
      PROVE  /\ NextCall(done) \in Seq(SoundCall)
             /\ Count(NextCall(done), OperationCalls) \in Nat
             /\ Count(NextCall(done), OperationCalls) <= 1
             /\ done \notin OperationCalls => Count(NextCall(done), OperationCalls) = 0
             /\ done \in CurrentCall => NextCall(done) \in Seq(CurrentCall)
  <2>1. c \in OperationCalls <=> done \in OperationCalls
    BY <1>3 DEF OperationCalls, SoundCall
  <2>2. /\ <<c>> \in Seq(SoundCall)
        /\ Count(<<c>>, OperationCalls) = IF c \in OperationCalls THEN 1 ELSE 0
        /\ c \in CurrentCall => <<c>> \in Seq(CurrentCall)
    BY CountOne
  <2> QED  BY <1>3, <2>1, <2>2
<1>4. CASE done.step = "exchange" /\ ~SkipsQueue(done.chain)
  <2> DEFINE c == CallOf("queue", done.chain, done.number, QueueName(done.chain), "")
  <2>1. QueueName(done.chain) \in Address \cup {Self}
    BY <1>1, <1>2, <1>4 DEF QueueName, SkipsQueue
  <2>2. c \in SoundCall
    BY <1>1, <1>4, <2>1 DEF CallOf, SoundCall, Call, SkipsQueue
  <2>3. NextCall(done) = <<c>>  BY <1>4 DEF NextCall
  <2>4. c.chain = done.chain /\ c.number = done.number /\ c.step = "queue"  BY DEF CallOf
  <2> HIDE DEF c
  <2>5. done \in CurrentCall => c \in CurrentCall
    BY <2>2, <2>4 DEF CurrentCall, SoundCall
  <2> QED  BY <1>3, <2>2, <2>3, <2>4, <2>5
<1>5. CASE done.step = "queue"
  <2> DEFINE c == BindCall(done)
  <2>1. /\ QueueName(done.chain) \in Address \cup {Self}
        /\ KeyName(done.chain) \in Device \cup {""}
        /\ done.chain = "operation" =>
             /\ QueueName(done.chain) = announced[template.content].address
             /\ KeyName(done.chain) = announced[template.content].device
    BY <1>1, <1>2, <1>5 DEF QueueName, KeyName
  <2>2. c.chain = done.chain /\ c.number = done.number /\ c.step = "bind"
        /\ c.queue = QueueName(done.chain) /\ c.key = KeyName(done.chain)
    BY DEF BindCall, CallOf
  <2>3. c \in Call  BY <1>1, <2>1 DEF BindCall, CallOf, Call
  <2>4. NextCall(done) = <<c>>  BY <1>5 DEF NextCall
  <2> HIDE DEF c
  <2>5. done.chain = "operation" => Seen(c.queue, c.key)
    BY <1>2, <2>1, <2>2 DEF Seen
  <2>6. c \in SoundCall  BY <1>1, <1>5, <2>1, <2>2, <2>3, <2>5 DEF SoundCall
  <2>7. done \in CurrentCall => c \in CurrentCall
    BY <2>1, <2>2, <2>3 DEF CurrentCall
  <2> QED  BY <1>3, <2>2, <2>4, <2>6, <2>7
<1>6. CASE done.step = "bind" /\ done.chain = "consumer"
  <2> DEFINE c == CallOf("consume", "consumer", 0, Self, "")
  <2>1. c \in SoundCall  BY DEF CallOf, SoundCall, Call
  <2>2. NextCall(done) = <<c>>  BY <1>6 DEF NextCall
  <2>3. c.chain = done.chain /\ c.chain # "operation"  BY <1>6 DEF CallOf
  <2> HIDE DEF c
  <2>4. c \in CurrentCall  BY <2>1, <2>3 DEF CurrentCall, SoundCall
  <2> QED  BY <1>3, <2>1, <2>2, <2>3, <2>4
<1>7. CASE /\ ~ (done.step = "exchange" /\ ~SkipsQueue(done.chain))
           /\ done.step # "queue"
           /\ ~ (done.step = "bind" /\ done.chain = "consumer")
  <2>1. NextCall(done) = <<>>  BY <1>7 DEF NextCall
  <2>2. Count(<<>>, OperationCalls) = 0  BY CountEmpty
  <2>3. \A S : <<>> \in Seq(S)  BY EmptySeq
  <2> QED  BY <2>1, <2>2, <2>3
<1> QED  BY <1>4, <1>5, <1>6, <1>7

\* What the callback of a binding publishes is no call and acknowledges
\* nothing; it is what the template holds.
LEMMA PublicationsAre ==
  ASSUME Chains, NEW done \in SoundCall
  PROVE  /\ Publications(done) \in Seq(SoundCommand \ CommandsOf("rpc"))
         /\ Count(Publications(done), CommandsOf("rpc")) = 0
         /\ Count(Publications(done), CommandsOf("ack")) = 0
         /\ (PublishesAfter(done) => done \in CurrentCall /\ <<"topic", done.queue, done.key>> \in bound)
              => Publications(done) \in Seq(CurrentCommand)
<1>1. CASE ~PublishesAfter(done)
  <2>1. Publications(done) = <<>>  BY <1>1 DEF Publications
  <2>2. \A S : Count(<<>>, S) = 0  BY CountEmpty
  <2>3. \A S : <<>> \in Seq(S)  BY EmptySeq
  <2> QED  BY <2>1, <2>2, <2>3
<1>2. CASE PublishesAfter(done)
  <2> DEFINE p == [command |-> "publish", number |-> done.number, content |-> template.content]
             m == [announced[template.content] EXCEPT !.archive = template.archive]
             x == [command |-> "pass", message |-> m]
  <2>1. Publications(done) = <<p, x>>  BY <1>2 DEF Publications
  <2>2. done.chain = "operation" /\ done.step = "bind" /\ done.number \in Announcement
    BY <1>2 DEF PublishesAfter, SoundCall
  <2>3. /\ template.content \in Announcement /\ Self \in template.archive
        /\ announced[template.content] \in Message
    BY <2>2, Holding DEF Fresh
  <2>4. m \in Marked
    BY <2>3 DEF Marked, Message, Chains
  <2>5. /\ p \in SoundCommand /\ p.command = "publish"
        /\ p.number = done.number /\ p.content = template.content
    BY <2>2, <2>3 DEF SoundCommand
  <2> HIDE DEF m
  <2>6. x \in SoundCommand /\ x.command = "pass"
    BY <2>4 DEF SoundCommand
  <2> HIDE DEF p, x
  <2>7. /\ p \notin CommandsOf("rpc") /\ x \notin CommandsOf("rpc")
        /\ p \notin CommandsOf("ack") /\ x \notin CommandsOf("ack")
    BY <2>5, <2>6 DEF CommandsOf
  <2>8. /\ <<p, x>> \in Seq(SoundCommand \ CommandsOf("rpc"))
        /\ <<p, x>> \in Seq(SoundCommand \ CommandsOf("ack"))
    BY <2>5, <2>6, <2>7
  <2>9. Count(<<p, x>>, CommandsOf("rpc")) = 0 /\ Count(<<p, x>>, CommandsOf("ack")) = 0
    <3>1. \A S : \A y \in SoundCommand \ S : y \notin S  OBVIOUS
    <3>2. Count(<<p, x>>, CommandsOf("rpc")) = 0  BY <2>8, <3>1, CountNone
    <3>3. Count(<<p, x>>, CommandsOf("ack")) = 0  BY <2>8, <3>1, CountNone
    <3> QED  BY <3>2, <3>3
  <2>10. ASSUME done \in CurrentCall, <<"topic", done.queue, done.key>> \in bound
         PROVE  <<p, x>> \in Seq(CurrentCommand)
    <3>1. /\ done.number = template.content
          /\ done.queue = announced[template.content].address
          /\ done.key = announced[template.content].device
      BY <2>2, <2>10 DEF CurrentCall
    <3>2. p \in Command /\ x \in Command  BY <2>5, <2>6, SoundKinds
    <3>3. p \in CurrentCommand
      BY <2>5, <2>10, <3>1, <3>2 DEF CurrentCommand, Route
    <3>4. x \in CurrentCommand  BY <2>6, <3>2 DEF CurrentCommand
    <3> QED  BY <3>3, <3>4
  <2> QED  BY <1>2, <2>1, <2>8, <2>9, <2>10
<1> QED  BY <1>1, <1>2

\* An answer lets pika send the next call, and the chain of the answered one
\* go on: with another call, or with the publication.
LEMMA OnOkKeeps ==
  ASSUME IInv, OnOk, UNCHANGED patient
  PROVE  IInv'
<1>0. /\ Rpcs \in Nat /\ Oks \in Nat /\ Acks \in Nat /\ Deliveries \in Nat /\ Closes \in Nat
      /\ Operations \in Nat /\ Numbers
  BY CountsAre DEF IInv
<1> DEFINE done == Head(calls)
           new == FirstOf(Tail(calls) \o NextCall(done)) \o Publications(done)
<1>1. /\ frames # <<>> /\ Head(frames).frame = "ok" /\ frames' = Tail(frames)
      /\ calls' = Tail(calls) \o NextCall(done)
      /\ sent' = IF chan THEN sent \o new ELSE sent
      /\ UNCHANGED <<alive, link, template, announced, chan, backlog, unacked, consuming, declared,
                     bound, published, closed, informs, patient>>
  BY DEF OnOk, Send, broker
<1>2. /\ frames' \in Seq(Frame) /\ Oks = Oks' + 1 /\ Oks' \in Nat
      /\ Closes' = Closes /\ Deliveries' = Deliveries
      /\ \A S : Arriving(S)' = Arriving(S)
  <2>1. /\ frames' \in Seq(Frame) /\ Oks = Oks' + 1 /\ Oks' \in Nat
        /\ Closes = Closes' + 0 /\ Closes' \in Nat
        /\ Deliveries = Deliveries' + 0 /\ Deliveries' \in Nat
    BY <1>1, TakesFrame DEF IInv, Shape
  <2>2. ASSUME NEW S PROVE Arriving(S)' = Arriving(S)
    <3>1. Arriving(S) = Arriving(S)' + 0 /\ Arriving(S)' \in Nat
      BY <1>1, TakesFrame DEF IInv, Shape
    <3> QED  BY <3>1
  <2>3. Closes' = Closes  BY <2>1 DEF Closes
  <2>4. Deliveries' = Deliveries  BY <2>1 DEF Deliveries
  <2> QED  BY <2>1, <2>2, <2>3, <2>4
<1>3. Rpcs <= 0 /\ Oks' <= 0 /\ Oks # 0
  <2>1. Rpcs + Oks <= 1  BY DEF IInv, Outstanding
  <2> QED  BY <1>0, <1>2, <2>1 DEF Oks, Rpcs
<1>4. calls # <<>> /\ calls \in Seq(SoundCall)
  <2>1. calls = <<>> => Rpcs + Oks = 0  BY DEF IInv, Outstanding
  <2>2. Rpcs + Oks # 0  BY <1>0, <1>3
  <2> QED  BY <2>1, <2>2 DEF IInv, Shape, Chains
<1>5. done \in SoundCall /\ Tail(calls) \in Seq(SoundCall)
  BY <1>4, HeadTailProperties
<1> HIDE DEF done
<1>6. /\ NextCall(done) \in Seq(SoundCall)
      /\ Count(NextCall(done), OperationCalls) \in Nat
      /\ Count(NextCall(done), OperationCalls) <= 1
      /\ done \notin OperationCalls => Count(NextCall(done), OperationCalls) = 0
      /\ done \in CurrentCall => NextCall(done) \in Seq(CurrentCall)
  BY <1>5, NextCallIs DEF IInv, Shape
<1>7. calls' \in Seq(SoundCall)  BY <1>1, <1>5, <1>6, ConcatProperties
<1>8. Operations' \in Nat /\ Operations' <= Operations
  <2>1. Count(calls', OperationCalls)
          = Count(Tail(calls), OperationCalls) + Count(NextCall(done), OperationCalls)
    BY <1>1, <1>5, <1>6, CountConcat
  <2>2. Count(calls, OperationCalls)
          = Count(Tail(calls), OperationCalls) + (IF done \in OperationCalls THEN 1 ELSE 0)
    BY <1>4, CountTail DEF done
  <2>3. Count(Tail(calls), OperationCalls) \in Nat  BY <1>5, CountType
  <2>4. Count(NextCall(done), OperationCalls) <= IF done \in OperationCalls THEN 1 ELSE 0
    BY <1>6
  <2>5. Count(calls', OperationCalls) \in Nat
        /\ Count(calls', OperationCalls) <= Count(calls, OperationCalls)
    BY <1>6, <2>1, <2>2, <2>3, <2>4
  <2> QED  BY <2>5 DEF Operations
<1>9. /\ FirstOf(calls') \in Seq(SoundCommand) /\ FirstOf(calls') \in Seq(Leading(calls'))
      /\ Count(FirstOf(calls'), CommandsOf("rpc")) \in Nat
      /\ Count(FirstOf(calls'), CommandsOf("rpc")) <= 1
      /\ calls' = <<>> => Count(FirstOf(calls'), CommandsOf("rpc")) = 0
      /\ Count(FirstOf(calls'), CommandsOf("ack")) = 0
  BY <1>7, FirstOfIs DEF IInv, Shape
<1>10. /\ Publications(done) \in Seq(SoundCommand)
       /\ Publications(done) \in Seq(SoundCommand \ CommandsOf("rpc"))
       /\ Count(Publications(done), CommandsOf("rpc")) = 0
       /\ Count(Publications(done), CommandsOf("ack")) = 0
  BY <1>5, PublicationsAre, SeqMonotonic DEF IInv, Shape
<1>11. new = FirstOf(calls') \o Publications(done)  BY <1>1
<1> HIDE DEF new
<1>12. /\ new \in Seq(SoundCommand)
       /\ Count(new, CommandsOf("rpc")) = Count(FirstOf(calls'), CommandsOf("rpc"))
       /\ Count(new, CommandsOf("ack")) = 0
  <2>1. new \in Seq(SoundCommand)  BY <1>9, <1>10, <1>11, ConcatProperties
  <2>2. \A S : Count(new, S) = Count(FirstOf(calls'), S) + Count(Publications(done), S)
    BY <1>9, <1>10, <1>11, CountConcat
  <2> QED  BY <1>9, <1>10, <2>1, <2>2
<1>13. sent \in Seq(SoundCommand)  BY DEF IInv, Shape, Chains
<1>14. /\ sent' \in Seq(SoundCommand)
       /\ Rpcs' \in Nat /\ Rpcs' <= 1 /\ (calls' = <<>> => Rpcs' <= 0)
       /\ Acks' = Acks
  <2>1. CASE chan
    <3>1. sent' = sent \o new  BY <1>1, <2>1
    <3>2. /\ Rpcs' = Rpcs + Count(new, CommandsOf("rpc"))
          /\ Acks' = Acks + Count(new, CommandsOf("ack"))
      BY <1>12, <1>13, <3>1, CountConcat DEF Rpcs, Acks
    <3>3. sent' \in Seq(SoundCommand)  BY <1>12, <1>13, <3>1, ConcatProperties
    <3>4. /\ Rpcs' = Rpcs + Count(FirstOf(calls'), CommandsOf("rpc"))
          /\ Acks' = Acks + 0
      BY <1>12, <3>2
    <3>5. Rpcs' \in Nat /\ Rpcs' <= 1  BY <1>0, <1>3, <1>9, <3>4
    <3>6. calls' = <<>> => Rpcs' <= 0  BY <1>0, <1>3, <1>9, <3>4
    <3>7. Acks' = Acks  BY <1>0, <3>4
    <3> QED  BY <3>3, <3>5, <3>6, <3>7
  <2>2. CASE ~chan
    <3>1. sent' = sent  BY <1>1, <2>2
    <3>2. Rpcs' = Rpcs /\ Acks' = Acks  BY <3>1 DEF Rpcs, Acks
    <3> QED  BY <1>0, <1>3, <1>13, <3>1, <3>2
  <2> QED  BY <2>1, <2>2
<1>15. \A S : Waiting(S)' = Waiting(S) /\ Held(S)' = Held(S) /\ Taken(S)' = Taken(S)
  BY <1>1 DEF Waiting, Held, Taken
<1>16. Shape'
  <2>1. Flags'  BY <1>1 DEF IInv, Shape, Flags
  <2>2. Chains'  BY <1>1, <1>7, <1>14, ChainsStay DEF IInv, Shape
  <2>3. Wires'  BY <1>1, <1>2 DEF IInv, Shape, Wires
  <2>4. Books'  BY <1>1, BooksStay DEF IInv, Shape
  <2> QED  BY <2>1, <2>2, <2>3, <2>4 DEF Shape
<1>17. Linked'
  <2>1. link
    BY <1>1 DEF IInv, Linked
  <2>2. ~chan => sent' = <<>>  BY <1>1 DEF IInv, Linked
  <2> QED  BY <1>1, <1>2, <2>1, <2>2 DEF IInv, Linked
<1>18. sent \in Seq(SoundCommand \ CommandsOf("rpc"))
  <2>1. Rpcs = 0  BY <1>0, <1>3
  <2> QED  BY <1>13, <2>1, CountZero DEF Rpcs
<1>19. Outstanding'
  <2>1. Rpcs' + Oks' <= 1  BY <1>2, <1>3, <1>14 DEF Rpcs, Oks
  <2>2. ASSUME calls' = <<>> PROVE Rpcs' + Oks' = 0
    <3>1. Rpcs' <= 0  BY <1>14, <2>2
    <3> QED  BY <1>2, <1>3, <1>14, <3>1 DEF Rpcs, Oks
  <2>3. SoundCommand \ CommandsOf("rpc") \subseteq Outward'
    <3>1. SoundCommand \subseteq Command  BY SoundTypes DEF IInv, Shape
    <3> QED  BY <3>1 DEF Outward, CommandsOf
  <2>4. Leading(calls') \subseteq Outward'  BY DEF Leading, Outward
  <2>5. /\ sent \in Seq(Outward') /\ FirstOf(calls') \in Seq(Outward')
        /\ Publications(done) \in Seq(Outward')
    BY <1>9, <1>10, <1>18, <2>3, <2>4, SeqMonotonic
  <2>6. new \in Seq(Outward')  BY <1>11, <2>5, ConcatProperties
  <2>7. sent \o new \in Seq(Outward')  BY <2>5, <2>6, ConcatProperties
  <2>8. sent' \in Seq(Outward')  BY <1>1, <2>5, <2>7
  <2> QED  BY <2>1, <2>2, <2>8 DEF Outstanding
<1>20. Acked'
  <2>1. Acks' = Acks /\ Deliveries' = Deliveries  BY <1>2, <1>14
  <2>2. chan' = chan /\ unacked' = unacked  BY <1>1
  <2>3. chan => Acks + Deliveries = Len(unacked)  BY DEF IInv, Acked
  <2> QED  BY <2>1, <2>2, <2>3 DEF Acked, Acks, Deliveries
<1>21. OneChain'
  <2>1. SUFFICES ASSUME patient PROVE OneChain'  BY DEF OneChain
  <2>2. CurrentCall' = CurrentCall /\ CurrentCommand' = CurrentCommand
    BY <1>1 DEF CurrentCall, CurrentCommand, Route
  <2>3. done \in CurrentCall /\ Tail(calls) \in Seq(CurrentCall)
    BY <1>4, <2>1, HeadTailProperties DEF IInv, OneChain, done
  <2>4. calls' \in Seq(CurrentCall')
    <3>1. NextCall(done) \in Seq(CurrentCall)  BY <1>6, <2>3
    <3> QED  BY <1>1, <2>2, <2>3, <3>1, ConcatProperties
  <2>5. Publications(done) \in Seq(CurrentCommand)
    <3>1. done.chain = "operation" /\ done.step = "bind" =>
            <<"topic", done.queue, done.key>> \in bound
      BY <1>3, <2>1 DEF IInv, OneChain, done
    <3> QED  BY <1>5, <2>3, <3>1, PublicationsAre DEF IInv, Shape, PublishesAfter
  <2>6. sent' \in Seq(CurrentCommand')
    <3>1. Leading(calls') \subseteq CurrentCommand  BY DEF Leading, CurrentCommand
    <3>2. FirstOf(calls') \in Seq(CurrentCommand)  BY <1>9, <3>1, SeqMonotonic
    <3>3. sent \in Seq(CurrentCommand)  BY <2>1 DEF IInv, OneChain
    <3>4. new \in Seq(CurrentCommand)  BY <1>11, <2>5, <3>2, ConcatProperties
    <3>5. sent \o new \in Seq(CurrentCommand)  BY <3>3, <3>4, ConcatProperties
    <3> QED  BY <1>1, <2>2, <3>3, <3>5
  <2>7. /\ Waiting(Fresh) + Held(Fresh) <= 1
        /\ Arriving(Fresh) + Operations <= 1
        /\ chan => Waiting(Fresh) + Arriving(Fresh) + Operations <= 1
    BY <2>1 DEF IInv, OneChain
  <2>8. /\ Waiting(Fresh) \in Nat /\ Held(Fresh) \in Nat /\ Arriving(Fresh) \in Nat
        /\ Waiting(Fresh)' = Waiting(Fresh) /\ Held(Fresh)' = Held(Fresh)
        /\ Arriving(Fresh)' = Arriving(Fresh)
    BY <1>0, <1>2, <1>15 DEF Numbers
  <2>9. Waiting(Fresh)' + Held(Fresh)' <= 1  BY <2>7, <2>8
  <2>10. Arriving(Fresh)' + Operations' <= 1
    BY <1>0, <1>8, <2>7, <2>8 DEF Operations
  <2>11. chan' => Waiting(Fresh)' + Arriving(Fresh)' + Operations' <= 1
    BY <1>0, <1>1, <1>8, <2>7, <2>8 DEF Operations
  <2>12. Oks' = 0  BY <1>2, <1>3
  <2>13. \A p \in published' : p.number = p.content /\ announced'[p.content].address \in p.queues
    BY <1>1, <2>1 DEF IInv, OneChain
  <2> QED  BY <2>4, <2>6, <2>9, <2>10, <2>11, <2>12, <2>13 DEF OneChain
<1>22. Loop'
  <2>1. Numbers' /\ NoneGrows  BY <1>0, <1>2, <1>15 DEF Numbers, NoneGrows
  <2> QED  BY <1>0, <1>1, <2>1, LoopStays DEF IInv, Shape
<1>23. OwnQueues'  BY <1>1 DEF IInv, OwnQueues
<1> QED  BY <1>16, <1>17, <1>19, <1>20, <1>21, <1>22, <1>23 DEF IInv

\* Announcing more makes no call, command or sighting unsound.
LEMMA MoreSound ==
  ASSUME Chains, NEW m \in Fresh, announced' = Append(announced, m)
  PROVE  /\ announced' \in Seq(Fresh) /\ Len(announced') = Len(announced) + 1
         /\ Len(announced) + 1 \in Announcement' /\ announced'[Len(announced) + 1] = m
         /\ Announcement \subseteq Announcement'
         /\ \A i \in Announcement : announced'[i] = announced[i]
         /\ \A q, k : Seen(q, k) => Seen(q, k)'
         /\ SoundCall \subseteq SoundCall' /\ SoundCommand \subseteq SoundCommand'
<1>1. announced \in Seq(Fresh) /\ Len(announced) \in Nat  BY SoundTypes DEF Chains
<1>2. /\ announced' \in Seq(Fresh) /\ Len(announced') = Len(announced) + 1
      /\ \A i \in 1..Len(announced) : announced'[i] = announced[i]
      /\ announced'[Len(announced) + 1] = m
  BY <1>1, AppendProperties
<1>3. Announcement \subseteq Announcement' /\ Len(announced) + 1 \in Announcement'
  BY <1>1, <1>2 DEF Announcement
<1>4. \A i \in Announcement : announced'[i] = announced[i]  BY <1>2 DEF Announcement
<1>5. \A q, k : Seen(q, k) => Seen(q, k)'  BY <1>3, <1>4 DEF Seen
<1>6. SoundCall \subseteq SoundCall'  BY <1>3, <1>5 DEF SoundCall
<1>7. SoundCommand \subseteq SoundCommand'  BY <1>3, <1>6 DEF SoundCommand
<1> QED  BY <1>2, <1>3, <1>4, <1>5, <1>6, <1>7

\* The callback of a message starts a chain if the message is fresh.
LEMMA OnMessageKeeps ==
  ASSUME IInv, OnMessage, UNCHANGED patient
  PROVE  IInv'
<1>0. /\ Rpcs \in Nat /\ Oks \in Nat /\ Acks \in Nat /\ Deliveries \in Nat /\ Closes \in Nat
      /\ Operations \in Nat /\ Numbers
  BY CountsAre DEF IInv
<1>1. frames # <<>> /\ Head(frames).frame = "deliver" /\ frames' = Tail(frames)
  BY DEF OnMessage
<1>2. Head(frames) \in Frame  BY <1>1, HeadTailProperties DEF IInv, Shape, Wires
<1>3. PICK m \in Message : m = Head(frames).message
  BY <1>1, <1>2, FrameKinds
<1>4. m \in Fresh <=> Provisions(m)  BY DEF Fresh
<1> DEFINE n == Len(announced) + 1
           c == CallOf("exchange", "operation", n, "", "")
           ack == [command |-> "ack"]
           start == IF m \in Fresh THEN <<c>> ELSE <<>>
           reply == <<ack>> \o (IF calls = <<>> THEN FirstOf(start) ELSE <<>>)
<1>5. /\ template' = TemplateAfter(m)
      /\ announced' = IF m \in Fresh THEN Append(announced, m) ELSE announced
      /\ calls' = calls \o start
      /\ sent' = IF chan THEN sent \o reply ELSE sent
      /\ UNCHANGED <<alive, link, chan, unacked, consuming, declared, bound, published, closed,
                     backlog, informs, patient>>
  BY <1>3, <1>4 DEF OnMessage, Send, broker
<1>6. /\ frames' \in Seq(Frame) /\ Oks' = Oks /\ Closes' = Closes
      /\ Deliveries = Deliveries' + 1 /\ Deliveries' \in Nat
      /\ \A S : /\ Arriving(S) = Arriving(S)' + (IF m \in S THEN 1 ELSE 0)
                /\ Arriving(S)' \in Nat
  <2>1. /\ frames' \in Seq(Frame) /\ Oks = Oks' + 0 /\ Oks' \in Nat
        /\ Closes = Closes' + 0 /\ Closes' \in Nat
        /\ Deliveries = Deliveries' + 1 /\ Deliveries' \in Nat
    BY <1>1, TakesFrame DEF IInv, Shape
  <2>2. \A S : /\ Arriving(S) = Arriving(S)' + (IF m \in S THEN 1 ELSE 0)
               /\ Arriving(S)' \in Nat
    BY <1>1, <1>3, TakesFrame DEF IInv, Shape
  <2>3. Closes' = Closes  BY <2>1 DEF Closes
  <2>4. Oks' = Oks  BY <2>1 DEF Oks
  <2> QED  BY <2>1, <2>2, <2>3, <2>4
<1>7. /\ announced' \in Seq(Fresh) /\ Announcement \subseteq Announcement'
      /\ \A i \in Announcement : announced'[i] = announced[i]
      /\ \A q, k : Seen(q, k) => Seen(q, k)'
      /\ SoundCall \subseteq SoundCall' /\ SoundCommand \subseteq SoundCommand'
  <2>1. CASE m \in Fresh  BY <1>5, <2>1, MoreSound DEF IInv, Shape
  <2>2. CASE m \notin Fresh  BY <1>5, <2>2, SameSound DEF IInv, Shape, Chains
  <2> QED  BY <2>1, <2>2
<1>8. \A S : Taken(S)' = Taken(S) + (IF m \in Fresh /\ m \in S THEN 1 ELSE 0)
  <2>1. announced \in Seq(Fresh)  BY DEF IInv, Shape, Chains
  <2>2. ASSUME NEW S
        PROVE  Count(announced', S) = Count(announced, S)
                                        + (IF m \in Fresh /\ m \in S THEN 1 ELSE 0)
    <3>1. CASE m \in Fresh
      <4>1. announced' = Append(announced, m)  BY <1>5, <3>1
      <4> QED  BY <2>1, <3>1, <4>1, CountAppend
    <3>2. CASE m \notin Fresh
      <4>1. announced' = announced  BY <1>5, <3>2
      <4>2. Count(announced, S) \in Nat  BY <2>1, CountType
      <4> QED  BY <3>2, <4>1, <4>2
    <3> QED  BY <3>1, <3>2
  <2> QED  BY <2>2 DEF Taken
<1>9. /\ template' \in [content : 0..Len(announced'), archive : SUBSET Mark]
      /\ announced' # <<>> => template'.content # 0
      /\ template'.content # 0 => Self \in template'.archive
      /\ m \in Fresh => template'.content = n
      /\ m \notin Fresh => template'.content = template.content
  <2>1. /\ template \in [content : 0..Len(announced), archive : SUBSET Mark]
        /\ announced # <<>> => template.content # 0
        /\ template.content # 0 => Self \in template.archive
        /\ Len(announced) \in Nat
    BY SoundTypes DEF IInv, Shape, Chains
  <2>2. m.archive \cup {Self} \in SUBSET Mark  BY DEF Message, Mark
  <2>3. template'.content = IF m \in Fresh THEN n ELSE template.content
    BY <1>4, <1>5 DEF TemplateAfter
  <2>4. template'.archive = IF Considers(m) THEN m.archive \cup {Self} ELSE template.archive
    BY <1>5 DEF TemplateAfter
  <2>5. template' = [content |-> template'.content, archive |-> template'.archive]
    BY <1>5 DEF TemplateAfter
  <2>6. CASE m \in Fresh
    <3>1. Considers(m)  BY <1>4, <2>6 DEF Provisions
    <3>2. Len(announced') = n /\ n \in Nat /\ n # 0
      <4>1. announced' = Append(announced, m)  BY <1>5, <2>6
      <4>2. Len(announced') = Len(announced) + 1
        BY <2>6, <4>1, MoreSound DEF IInv, Shape
      <4> QED  BY <2>1, <4>2
    <3>3. n \in 0..Len(announced')  BY <3>2
    <3>4. template'.content = n /\ template'.archive = m.archive \cup {Self}
      BY <2>3, <2>4, <2>6, <3>1
    <3> HIDE DEF n
    <3> QED  BY <2>2, <2>5, <2>6, <3>2, <3>3, <3>4
  <2>7. CASE m \notin Fresh
    <3>1. announced' = announced /\ template'.content = template.content
      BY <1>5, <2>3, <2>7
    <3>2. template'.archive \in SUBSET Mark
      BY <2>1, <2>2, <2>4
    <3>3. template.content # 0 => Self \in template'.archive
      BY <2>1, <2>4
    <3> QED  BY <2>1, <2>5, <2>7, <3>1, <3>2, <3>3
  <2> QED  BY <2>6, <2>7
<1> HIDE DEF n
<1>10. m \in Fresh =>
         /\ c \in SoundCall' /\ c \in OperationCalls /\ c \in CurrentCall'
         /\ c.chain = "operation" /\ c.step = "exchange"
  <2>1. SUFFICES ASSUME m \in Fresh
                 PROVE  /\ c \in SoundCall' /\ c \in OperationCalls /\ c \in CurrentCall'
                        /\ c.chain = "operation" /\ c.step = "exchange"
    OBVIOUS
  <2>2. n \in Announcement' /\ Len(announced) \in Nat
    BY <1>5, <2>1, MoreSound, SoundTypes DEF IInv, Shape, n
  <2>3. n \in Nat  BY <2>2 DEF n
  <2>4. /\ c.step = "exchange" /\ c.chain = "operation" /\ c.number = n /\ c.queue = ""
        /\ c.key = "" /\ c \in Call
    BY <2>3 DEF CallOf, Call
  <2> HIDE DEF c
  <2>5. c \in SoundCall'  BY <2>2, <2>4 DEF SoundCall
  <2>6. c \in CurrentCall'  BY <1>9, <2>1, <2>4 DEF CurrentCall
  <2> QED  BY <2>4, <2>5, <2>6 DEF OperationCalls
<1> HIDE DEF c
<1>11. /\ start \in Seq(SoundCall') /\ start \in Seq(CurrentCall')
       /\ Count(start, OperationCalls) = IF m \in Fresh THEN 1 ELSE 0
       /\ start = <<>> <=> m \notin Fresh
       /\ m \in Fresh => start = <<c>>
  <2>1. CASE m \in Fresh
    <3>1. /\ <<c>> \in Seq(SoundCall') /\ <<c>> \in Seq(CurrentCall')
          /\ Count(<<c>>, OperationCalls) = 1
      BY <1>10, <2>1, CountOne
    <3>2. <<c>> # <<>>  OBVIOUS
    <3> QED  BY <2>1, <3>1, <3>2
  <2>2. CASE m \notin Fresh
    <3>1. Count(<<>>, OperationCalls) = 0  BY CountEmpty
    <3> QED  BY <2>2, <3>1, EmptySeq
  <2> QED  BY <2>1, <2>2
<1> HIDE DEF start

<1>12. /\ calls \in Seq(SoundCall) /\ sent \in Seq(SoundCommand)
       /\ calls' \in Seq(SoundCall')
       /\ calls # <<>> => calls' # <<>> /\ Head(calls') = Head(calls)
       /\ calls = <<>> => calls' = start
  <2>1. calls \in Seq(SoundCall) /\ sent \in Seq(SoundCommand)
    BY DEF IInv, Shape, Chains
  <2>2. calls \in Seq(SoundCall')  BY <1>7, <2>1, SeqMonotonic
  <2>3. calls' \in Seq(SoundCall')  BY <1>5, <1>11, <2>2, ConcatProperties
  <2>4. ASSUME calls # <<>> PROVE calls' # <<>> /\ Head(calls') = Head(calls)
    <3>1. /\ Len(calls) \in Nat \ {0} /\ Len(start) \in Nat
          /\ Len(calls') = Len(calls) + Len(start) /\ calls'[1] = calls[1]
      BY <1>5, <1>11, <2>2, <2>4, ConcatProperties, EmptySeq, LenProperties
    <3>2. calls' # <<>>  BY <2>3, <3>1, EmptySeq
    <3> QED  BY <2>2, <2>3, <2>4, <3>1, <3>2, HeadTailProperties
  <2>5. calls = <<>> => calls' = start  BY <1>5, <1>11, ConcatEmptySeq
  <2> QED  BY <2>1, <2>3, <2>4, <2>5
<1>13. Operations' = Operations + (IF m \in Fresh THEN 1 ELSE 0)
  <2>1. calls \in Seq(SoundCall')  BY <1>7, <1>12, SeqMonotonic
  <2>2. Count(calls', OperationCalls) = Count(calls, OperationCalls) + Count(start, OperationCalls)
    BY <1>5, <1>11, <2>1, CountConcat
  <2> QED  BY <1>11, <2>2 DEF Operations
<1> DEFINE extra == IF calls = <<>> THEN FirstOf(start) ELSE <<>>
<1>14. /\ extra \in Seq(SoundCommand') /\ extra \in Seq(Outward') /\ extra \in Seq(CurrentCommand')
       /\ Count(extra, CommandsOf("rpc")) \in Nat /\ Count(extra, CommandsOf("rpc")) <= 1
       /\ calls # <<>> \/ m \notin Fresh => Count(extra, CommandsOf("rpc")) = 0
       /\ Count(extra, CommandsOf("ack")) = 0
  <2>1. CASE calls # <<>> \/ m \notin Fresh
    <3>1. extra = <<>>  BY <1>11, <2>1 DEF FirstOf
    <3>2. \A S : Count(<<>>, S) = 0  BY CountEmpty
    <3>3. \A S : <<>> \in Seq(S)  BY EmptySeq
    <3> HIDE DEF extra
    <3> QED  BY <3>1, <3>2, <3>3
  <2>2. CASE calls = <<>> /\ m \in Fresh
    <3> DEFINE x == Rpc(c)
    <3>1. start = <<c>>  BY <1>11, <2>2
    <3>2. Head(<<c>>) = c /\ <<c>> # <<>>  OBVIOUS
    <3>3. extra = <<x>>  BY <2>2, <3>1, <3>2 DEF FirstOf
    <3>4. x.command = "rpc" /\ x.call = c  BY DEF Rpc
    <3>5. x \in SoundCommand'  BY <1>10, <2>2 DEF Rpc, SoundCommand
    <3>6. x \in Command  BY <1>10, <2>2 DEF Rpc, Command, OperationCalls
    <3> HIDE DEF x
    <3>7. Head(calls') = c  BY <1>12, <2>2, <3>1, <3>2
    <3>8. x \in Outward' /\ x \in CurrentCommand'
      BY <3>4, <3>6, <3>7 DEF Outward, CurrentCommand
    <3>9. x \in CommandsOf("rpc") /\ x \notin CommandsOf("ack")
      BY <3>4, <3>6 DEF CommandsOf
    <3>10. /\ <<x>> \in Seq(SoundCommand') /\ <<x>> \in Seq(Outward') /\ <<x>> \in Seq(CurrentCommand')
           /\ Count(<<x>>, CommandsOf("rpc")) = 1 /\ Count(<<x>>, CommandsOf("ack")) = 0
      BY <3>5, <3>8, <3>9, CountOne
    <3> HIDE DEF extra
    <3> QED  BY <2>2, <3>3, <3>10
  <2> QED  BY <2>1, <2>2
<1>15. reply = <<ack>> \o extra  OBVIOUS
<1>16. /\ <<ack>> \in Seq(SoundCommand') /\ <<ack>> \in Seq(Outward') /\ <<ack>> \in Seq(CurrentCommand')
       /\ Count(<<ack>>, CommandsOf("rpc")) = 0 /\ Count(<<ack>>, CommandsOf("ack")) = 1
  <2>1. ack \in SoundCommand' /\ ack \in Command /\ ack.command = "ack"
    BY DEF SoundCommand, Command
  <2> HIDE DEF ack
  <2>2. /\ ack \in Outward' /\ ack \in CurrentCommand'
        /\ ack \notin CommandsOf("rpc") /\ ack \in CommandsOf("ack")
    BY <2>1 DEF Outward, CurrentCommand, CommandsOf
  <2> QED  BY <2>1, <2>2, CountOne
<1> HIDE DEF ack, extra, reply
<1>17. /\ reply \in Seq(SoundCommand') /\ reply \in Seq(Outward') /\ reply \in Seq(CurrentCommand')
       /\ Count(reply, CommandsOf("rpc")) = Count(extra, CommandsOf("rpc"))
       /\ Count(reply, CommandsOf("ack")) = 1
  <2>1. /\ reply \in Seq(SoundCommand') /\ reply \in Seq(Outward') /\ reply \in Seq(CurrentCommand')
    BY <1>14, <1>15, <1>16, ConcatProperties
  <2>2. <<ack>> \in Seq(CurrentCommand') /\ extra \in Seq(CurrentCommand')  BY <1>14, <1>16
  <2>3. \A S : Count(<<ack>> \o extra, S) = Count(<<ack>>, S) + Count(extra, S)
    BY <2>2, CountConcat
  <2> QED  BY <1>14, <1>15, <1>16, <2>1, <2>3
<1>18. sent \in Seq(SoundCommand')  BY <1>7, <1>12, SeqMonotonic
<1>19. /\ sent' \in Seq(SoundCommand')
       /\ Rpcs' \in Nat /\ Rpcs' <= Rpcs + 1
       /\ calls # <<>> \/ m \notin Fresh => Rpcs' = Rpcs
       /\ chan => Acks' = Acks + 1
  <2>1. CASE chan
    <3>1. sent' = sent \o reply  BY <1>5, <2>1
    <3>2. sent' \in Seq(SoundCommand')  BY <1>17, <1>18, <3>1, ConcatProperties
    <3>3. \A S : Count(sent', S) = Count(sent, S) + Count(reply, S)
      BY <1>17, <1>18, <3>1, CountConcat
    <3>4. /\ Rpcs' = Rpcs + Count(extra, CommandsOf("rpc")) /\ Acks' = Acks + 1
      BY <1>17, <3>3 DEF Rpcs, Acks
    <3>5. Rpcs' \in Nat /\ Rpcs' <= Rpcs + 1  BY <1>0, <1>14, <3>4
    <3>6. ASSUME calls # <<>> \/ m \notin Fresh PROVE Rpcs' = Rpcs
      <4>1. Rpcs' = Rpcs + 0  BY <1>14, <3>4, <3>6
      <4> QED  BY <1>0, <4>1
    <3> QED  BY <3>2, <3>4, <3>5, <3>6
  <2>2. CASE ~chan
    <3>1. sent' = sent  BY <1>5, <2>2
    <3>2. Rpcs' = Rpcs  BY <3>1 DEF Rpcs
    <3> QED  BY <1>0, <1>18, <2>2, <3>1, <3>2
  <2> QED  BY <2>1, <2>2
<1>20. \A S : Waiting(S)' = Waiting(S) /\ Held(S)' = Held(S)
  BY <1>5 DEF Waiting, Held
<1>21. Shape'
  <2>1. Flags'  BY <1>5 DEF IInv, Shape, Flags
  <2>2. Chains'  BY <1>7, <1>9, <1>12, <1>19 DEF Chains
  <2>3. Wires'  BY <1>5, <1>6 DEF IInv, Shape, Wires
  <2>4. Books'
    <3>1. /\ declared \subseteq Address \cup {Self}
          /\ bound \subseteq {"fanout", "topic"} \X declared \X (Device \cup {""})
          /\ \A b \in bound : b[1] = "topic" => Seen(b[2], b[3])
          /\ published \subseteq [number : Announcement, content : Announcement,
                                  queues : SUBSET Address]
      BY DEF IInv, Shape, Books
    <3>2. published \subseteq [number : Announcement', content : Announcement',
                               queues : SUBSET Address]
      BY <1>7, <3>1
    <3>3. \A b \in bound : b[1] = "topic" => Seen(b[2], b[3])'  BY <1>7, <3>1
    <3> QED  BY <1>5, <3>1, <3>2, <3>3 DEF Books
  <2> QED  BY <2>1, <2>2, <2>3, <2>4 DEF Shape
<1>22. Linked'
  <2>1. link  BY <1>1 DEF IInv, Linked
  <2>2. ~chan => sent' = <<>>  BY <1>5 DEF IInv, Linked
  <2> QED  BY <1>5, <1>6, <2>1, <2>2 DEF IInv, Linked
<1>23. Outstanding'
  <2>1. Rpcs + Oks <= 1 /\ (calls = <<>> => Rpcs + Oks = 0)  BY DEF IInv, Outstanding
  <2>2. CASE calls # <<>>
    <3>1. Rpcs' + Oks' <= 1
      <4>1. Rpcs' = Rpcs /\ Oks' = Oks  BY <1>6, <1>19, <2>2
      <4> QED  BY <2>1, <4>1
    <3>2. Outward' = Outward  BY <1>12, <2>2 DEF Outward
    <3>3. sent' \in Seq(Outward')
      <4>1. sent \in Seq(Outward')  BY <3>2 DEF IInv, Outstanding
      <4>2. sent \o reply \in Seq(Outward')  BY <1>17, <4>1, ConcatProperties
      <4> QED  BY <1>5, <4>1, <4>2
    <3> QED  BY <1>12, <2>2, <3>1, <3>3 DEF Outstanding
  <2>3. CASE calls = <<>>
    <3>1. Rpcs <= 0 /\ Oks <= 0  BY <1>0, <2>1, <2>3
    <3>2. Rpcs' + Oks' <= 1
      <4>1. Oks' = Oks /\ Rpcs' \in Nat /\ Rpcs' <= Rpcs + 1  BY <1>6, <1>19
      <4> QED  BY <1>0, <3>1, <4>1 DEF Rpcs, Oks
    <3>3. ASSUME calls' = <<>> PROVE Rpcs' + Oks' = 0
      <4>1. m \notin Fresh  BY <1>11, <1>12, <2>3, <3>3
      <4>2. Rpcs' = Rpcs /\ Oks' = Oks  BY <1>6, <1>19, <4>1
      <4> QED  BY <1>0, <3>1, <4>2
    <3>4. sent' \in Seq(Outward')
      <4>1. Rpcs = 0  BY <1>0, <3>1
      <4>2. sent \in Seq(SoundCommand \ CommandsOf("rpc"))
        BY <1>12, <4>1, CountZero DEF Rpcs
      <4>3. SoundCommand \ CommandsOf("rpc") \subseteq Outward'
        <5>1. SoundCommand \subseteq Command  BY SoundTypes DEF IInv, Shape
        <5> QED  BY <5>1 DEF Outward, CommandsOf
      <4>4. sent \in Seq(Outward')  BY <4>2, <4>3, SeqMonotonic
      <4>5. sent \o reply \in Seq(Outward')  BY <1>17, <4>4, ConcatProperties
      <4> QED  BY <1>5, <4>4, <4>5
    <3> QED  BY <3>2, <3>3, <3>4 DEF Outstanding
  <2> QED  BY <2>2, <2>3
<1>24. Acked'
  <2>1. SUFFICES ASSUME chan PROVE Acks' + Deliveries' = Len(unacked)
    BY <1>5 DEF Acked
  <2>2. Acks + Deliveries = Len(unacked)  BY <2>1 DEF IInv, Acked
  <2>3. Acks' = Acks + 1 /\ Deliveries = Deliveries' + 1 /\ Deliveries' \in Nat
    BY <1>6, <1>19, <2>1
  <2> QED  BY <1>0, <2>2, <2>3 DEF Acks, Deliveries
<1>25. OneChain'
  <2>1. SUFFICES ASSUME patient PROVE OneChain'  BY DEF OneChain
  <2>2. /\ Waiting(Fresh) + Held(Fresh) <= 1
        /\ Arriving(Fresh) + Operations <= 1
        /\ chan => Waiting(Fresh) + Arriving(Fresh) + Operations <= 1
    BY <2>1 DEF IInv, OneChain
  <2>3. /\ Waiting(Fresh) \in Nat /\ Held(Fresh) \in Nat
        /\ Arriving(Fresh) \in Nat /\ Arriving(Fresh)' \in Nat
        /\ Waiting(Fresh)' = Waiting(Fresh) /\ Held(Fresh)' = Held(Fresh)
    BY <1>0, <1>6, <1>20 DEF Numbers
  <2>4. Arriving(Fresh) = Arriving(Fresh)' + (IF m \in Fresh THEN 1 ELSE 0)
    BY <1>6
  <2>5. Arriving(Fresh)' + Operations' = Arriving(Fresh) + Operations
    BY <1>0, <1>13, <2>3, <2>4 DEF Operations
  <2>6. Operations' \in Nat  BY <1>0, <1>13
  <2>7. Waiting(Fresh)' + Held(Fresh)' <= 1 /\ Arriving(Fresh)' + Operations' <= 1
    BY <2>2, <2>3, <2>5
  <2>8. chan' => Waiting(Fresh)' + Arriving(Fresh)' + Operations' <= 1
    BY <1>0, <1>5, <2>2, <2>3, <2>5, <2>6, SMTT(30)
  <2>9. calls' \in Seq(CurrentCall')
    <3>1. CASE m \in Fresh
      <4>1. Operations = 0  BY <1>0, <2>2, <2>3, <2>4, <3>1
      <4>2. calls \in Seq(SoundCall \ OperationCalls)
        BY <1>12, <4>1, CountZero DEF Operations
      <4>3. SoundCall \ OperationCalls \subseteq CurrentCall'
        BY DEF SoundCall, OperationCalls, CurrentCall
      <4>4. calls \in Seq(CurrentCall')  BY <4>2, <4>3, SeqMonotonic
      <4> QED  BY <1>5, <1>11, <4>4, ConcatProperties
    <3>2. CASE m \notin Fresh
      <4>1. template'.content = template.content /\ announced' = announced  BY <1>5, <1>9, <3>2
      <4>2. CurrentCall' = CurrentCall  BY <4>1 DEF CurrentCall
      <4>3. calls \in Seq(CurrentCall')  BY <2>1, <4>2 DEF IInv, OneChain
      <4> QED  BY <1>5, <1>11, <4>3, ConcatProperties
    <3> QED  BY <3>1, <3>2
  <2>10. sent' \in Seq(CurrentCommand')
    <3>1. \A i \in 1..Len(sent) : sent[i] \in SoundCommand /\ sent[i] \in CurrentCommand
      BY <1>12, <2>1, ElementOfSeq DEF IInv, OneChain
    <3>2. ASSUME NEW x \in SoundCommand, x \in CurrentCommand PROVE x \in CurrentCommand'
      <4>1. x.command = "publish" => x.content \in Announcement
        BY SoundKinds DEF IInv, Shape
      <4>2. x.command = "publish" => Route(x.content)' = Route(x.content)
        BY <1>7, <4>1 DEF Route
      <4> QED  BY <1>5, <3>2, <4>2 DEF CurrentCommand
    <3>3. sent \in Seq(CurrentCommand')  BY <1>12, <3>1, <3>2, SeqAll
    <3>4. sent \o reply \in Seq(CurrentCommand')  BY <1>17, <3>3, ConcatProperties
    <3> QED  BY <1>5, <3>3, <3>4
  <2>11. Oks' # 0 /\ Head(calls').chain = "operation" /\ Head(calls').step = "bind" =>
           <<"topic", Head(calls').queue, Head(calls').key>> \in bound'
    <3>1. SUFFICES ASSUME Oks # 0
                   PROVE  Head(calls').chain = "operation" /\ Head(calls').step = "bind" =>
                            <<"topic", Head(calls').queue, Head(calls').key>> \in bound
      BY <1>5, <1>6
    <3>2. calls # <<>>
      <4>1. calls = <<>> => Rpcs + Oks = 0  BY DEF IInv, Outstanding
      <4> QED  BY <1>0, <3>1, <4>1
    <3>3. Head(calls') = Head(calls)  BY <1>12, <3>2
    <3> QED  BY <2>1, <3>1, <3>3 DEF IInv, OneChain
  <2>12. \A p \in published' : p.number = p.content /\ announced'[p.content].address \in p.queues
    <3>1. \A p \in published : p.number = p.content /\ announced[p.content].address \in p.queues
      BY <2>1 DEF IInv, OneChain
    <3>2. \A p \in published : p.content \in Announcement  BY DEF IInv, Shape, Books
    <3> QED  BY <1>5, <1>7, <3>1, <3>2
  <2> QED  BY <2>7, <2>8, <2>9, <2>10, <2>11, <2>12 DEF OneChain
<1>26. Loop'
  <2>1. ASSUME NEW S
        PROVE  /\ Waiting(S)' \in Nat /\ Held(S)' \in Nat /\ Arriving(S)' \in Nat /\ Taken(S)' \in Nat
               /\ Waiting(S)' + Held(S)' <= Waiting(S) + Held(S)
               /\ Waiting(S)' + Arriving(S)' + Taken(S)' <= Waiting(S) + Arriving(S) + Taken(S)
    <3>1. /\ Waiting(S) \in Nat /\ Held(S) \in Nat /\ Arriving(S) \in Nat /\ Taken(S) \in Nat
          /\ Waiting(S)' = Waiting(S) /\ Held(S)' = Held(S) /\ Arriving(S)' \in Nat
      BY <1>0, <1>6, <1>20 DEF Numbers
    <3>2. CASE m \in S
      <4>1. Arriving(S) = Arriving(S)' + 1 /\ Taken(S)' \in Nat /\ Taken(S)' <= Taken(S) + 1
        BY <1>6, <1>8, <3>1, <3>2
      <4> QED  BY <3>1, <4>1
    <3>3. CASE m \notin S
      <4>1. Arriving(S) = Arriving(S)' + 0 /\ Taken(S)' = Taken(S) + 0
        BY <1>6, <1>8, <3>3
      <4> QED  BY <3>1, <4>1
    <3> QED  BY <3>2, <3>3
  <2>2. Numbers' /\ NoneGrows  BY <2>1 DEF Numbers, NoneGrows
  <2> QED  BY <1>0, <1>5, <2>2, LoopStays DEF IInv, Shape
<1>27. OwnQueues'
  <2>1. SUFFICES ASSUME NEW p \in published, NEW q \in p.queues
                 PROVE  \E i \in Announcement' : /\ announced'[i].device = announced'[p.content].device
                                                 /\ announced'[i].address = q
    BY <1>5 DEF OwnQueues, Announcement
  <2>2. PICK i \in Announcement : /\ announced[i].device = announced[p.content].device
                                  /\ announced[i].address = q
    BY DEF IInv, OwnQueues, Announcement
  <2>3. p.content \in Announcement  BY DEF IInv, Shape, Books
  <2> QED  BY <1>7, <2>2, <2>3
<1> QED  BY <1>21, <1>22, <1>23, <1>24, <1>25, <1>26, <1>27 DEF IInv

-----------------------------------------------------------------------------
(***************************************************************************)
(* The invariant is inductive.                                             *)
(***************************************************************************)
\* At the start nothing is anywhere.
LEMMA InitKeeps ==
  ASSUME Init
  PROVE  IInv
<1>1. /\ alive = TRUE /\ link = FALSE /\ chan = FALSE /\ consuming = FALSE
      /\ calls = <<>> /\ sent = <<>> /\ frames = <<>>
      /\ template = [content |-> 0, archive |-> {}] /\ announced = <<>>
      /\ backlog = <<>> /\ unacked = <<>>
      /\ declared = {} /\ bound = {} /\ published = {} /\ closed = 0
  BY DEF Init
<1>2. /\ patient \in BOOLEAN /\ informs \subseteq Inform
      /\ \A m, n \in informs : m.id = n.id => m = n
  BY ArrivalsAssumption DEF Init
<1>3. \A S : Count(<<>>, S) = 0  BY CountEmpty
<1>4. /\ Rpcs = 0 /\ Acks = 0 /\ Oks = 0 /\ Closes = 0 /\ Deliveries = 0 /\ Operations = 0
      /\ \A S : Waiting(S) = 0 /\ Held(S) = 0 /\ Arriving(S) = 0 /\ Taken(S) = 0
  BY <1>1, <1>3
     DEF Rpcs, Acks, Oks, Closes, Deliveries, Operations, Waiting, Held, Arriving, Taken
<1>5. \A S : <<>> \in Seq(S)  BY EmptySeq
<1>6. Shape
  <2>1. Flags  BY <1>1, <1>2 DEF Flags
  <2>2. Chains
    <3>1. Len(announced) = 0  BY <1>1, EmptySeq
    <3>2. template \in [content : 0..Len(announced), archive : SUBSET Mark]
      BY <1>1, <3>1
    <3>3. template.content = 0  BY <1>1
    <3> QED  BY <1>1, <1>5, <3>2, <3>3 DEF Chains
  <2>3. Wires  BY <1>1, <1>5 DEF Wires
  <2>4. Books  BY <1>1 DEF Books
  <2> QED  BY <2>1, <2>2, <2>3, <2>4 DEF Shape
<1>7. Linked  BY <1>1 DEF Linked
<1>8. Outstanding  BY <1>1, <1>4, <1>5 DEF Outstanding
<1>9. Acked  BY <1>1 DEF Acked
<1>10. OneChain
  <2>1. /\ Waiting(Fresh) + Held(Fresh) <= 1 /\ Arriving(Fresh) + Operations <= 1
    BY <1>4
  <2> QED  BY <1>1, <1>4, <1>5, <2>1 DEF OneChain
<1>11. Loop  BY <1>1, <1>4 DEF Loop
<1>12. OwnQueues  BY <1>1 DEF OwnQueues
<1> QED  BY <1>6, <1>7, <1>8, <1>9, <1>10, <1>11, <1>12 DEF IInv

\* Every step keeps the invariant.
LEMMA NextKeeps ==
  ASSUME IInv, [Next]_vars
  PROVE  IInv'
<1>1. CASE UNCHANGED vars
  <2>1. alive' \in BOOLEAN  BY <1>1 DEF vars, chainVars, backend, IInv, Shape, Flags
  <2> QED  BY <1>1, <2>1, UnchangedKeeps DEF vars, chainVars, backend, broker
<1>2. CASE Next
  <2>1. UNCHANGED patient  BY <1>2 DEF Next
  <2>2. CASE Open  BY <2>1, <2>2, OpenKeeps
  <2>3. CASE OpenError  BY <2>1, <2>3, OpenErrorKeeps
  <2>4. CASE OnClosed  BY <2>1, <2>4, OnClosedKeeps
  <2>5. CASE OnOk  BY <2>1, <2>5, OnOkKeeps
  <2>6. CASE OnMessage  BY <2>1, <2>6, OnMessageKeeps
  <2>7. CASE TakesAck  BY <2>1, <2>7, TakesAckKeeps
  <2>8. CASE TakesRpc  BY <2>1, <2>8, TakesRpcKeeps
  <2>9. CASE NotFound  BY <2>1, <2>9, NotFoundKeeps
  <2>10. CASE TakesPublish  BY <2>1, <2>10, TakesPublishKeeps
  <2>11. CASE TakesPass  BY <2>1, <2>11, TakesPassKeeps
  <2>12. CASE Deliver  BY <2>1, <2>12, DeliverKeeps
  <2>13. CASE Break  BY <2>1, <2>13, BreakKeeps
  <2>14. CASE Notify  BY <2>1, <2>14, NotifyKeeps
  <2>15. ASSUME NEW q \in Address \cup {Self}, Expire(q) PROVE IInv'
    BY <2>1, <2>15, ExpireKeeps
  <2> QED
    BY <1>2, <2>2, <2>3, <2>4, <2>5, <2>6, <2>7, <2>8, <2>9, <2>10, <2>11, <2>12, <2>13, <2>14,
       <2>15 DEF Next, Step
<1> QED  BY <1>1, <1>2

\* The backend's state, its broker's and what lies between them are
\* consistent, for all arrivals and breaks.
THEOREM Inductive == Spec => []IInv
<1>1. Init => IInv  BY InitKeeps
<1>2. IInv /\ [Next]_vars => IInv'  BY NextKeeps
<1> QED  BY <1>1, <1>2, PTL DEF Spec

-----------------------------------------------------------------------------
(***************************************************************************)
(* What the runs check.                                                    *)
(***************************************************************************)
\* Every variable keeps its type: in particular a chain never speaks of
\* a template that nothing was announced in.
THEOREM TypeCorrect == Spec => []TypeOK
<1>1. IInv => TypeOK
  <2> SUFFICES ASSUME IInv PROVE TypeOK  OBVIOUS
  <2>1. /\ SoundCall \subseteq Call /\ SoundCommand \subseteq Command
        /\ Fresh \subseteq Message
    BY SoundTypes DEF IInv, Shape
  <2>2. calls \in Seq(Call) /\ sent \in Seq(Command) /\ announced \in Seq(Message)
    BY <2>1, SeqMonotonic DEF IInv, Shape, Chains
  <2>3. {alive, link, chan, consuming, patient} \subseteq BOOLEAN /\ closed \in Nat
        /\ informs \subseteq Inform
    BY DEF IInv, Shape, Flags
  <2>4. template \in [content : 0..Len(announced), archive : SUBSET Mark]
    BY DEF IInv, Shape, Chains
  <2>5. frames \in Seq(Frame) /\ backlog \in Seq(Message) /\ unacked \in Seq(Message)
    BY DEF IInv, Shape, Wires
  <2>6. /\ declared \subseteq Address \cup {Self}
        /\ bound \subseteq {"fanout", "topic"} \X declared \X (Device \cup {""})
        /\ published \subseteq [number : 1..Len(announced), content : 1..Len(announced),
                                queues : SUBSET Address]
    BY DEF IInv, Shape, Books, Announcement
  <2> QED  BY <2>2, <2>3, <2>4, <2>5, <2>6 DEF TypeOK
<1> QED  BY <1>1, Inductive, PTL

\* An operation gets only into queues of addresses its device was seen at,
\* however many chains and notifications interleave.
THEOREM OperationsKeepToTheirQueues == Spec => []OwnQueues
<1>1. IInv => OwnQueues  BY DEF IInv
<1> QED  BY <1>1, Inductive, PTL

\* A notification is provisioned at most once more than channels were lost.
THEOREM NotificationsDoNotLoop == Spec => []NoLoop
<1>1. IInv => NoLoop
  <2> SUFFICES ASSUME IInv, NEW i \in 1..Len(announced)
               PROVE  Cardinality({j \in 1..Len(announced) : announced[j].id = announced[i].id})
                        <= 1 + closed
    BY DEF NoLoop
  <2>1. announced \in Seq(Fresh) /\ closed \in Nat  BY DEF IInv, Shape, Chains, Flags
  <2>2. \A j \in 1..Len(announced) : announced[j] \in Fresh  BY <2>1, ElementOfSeq
  <2>3. PICK id \in Nat : id = announced[i].id  BY <2>2 DEF Fresh, Message
  <2>4. {j \in 1..Len(announced) : announced[j].id = announced[i].id} = Places(announced, OfId(id))
    BY <2>2, <2>3 DEF Places, OfId
  <2>5. Waiting(OfId(id)) + Arriving(OfId(id)) + Taken(OfId(id)) <= 1 + closed
    BY DEF IInv, Loop
  <2>6. /\ Waiting(OfId(id)) \in Nat /\ Arriving(OfId(id)) \in Nat /\ Taken(OfId(id)) \in Nat
    BY CountsAre DEF IInv, Numbers
  <2>7. Taken(OfId(id)) <= 1 + closed  BY <2>1, <2>5, <2>6
  <2> QED  BY <2>4, <2>7 DEF Taken, Count
<1> QED  BY <1>1, Inductive, PTL

\* Informs that wait until the backend is at rest are published as announced,
\* though all chains read one template.
THEOREM ChainsAloneKeepTheirContent == Spec => []AloneItPublishesWhatItAnnounced
<1>1. IInv => AloneItPublishesWhatItAnnounced
  BY DEF IInv, OneChain, AloneItPublishesWhatItAnnounced, PublishesWhatItAnnounced
<1> QED  BY <1>1, Inductive, PTL

\* Then a published operation is in the queue that its chain declared and
\* bound before.
THEOREM ChainsAloneReachTheirQueue == Spec => []ReachesItsQueue
<1>1. IInv => ReachesItsQueue  BY DEF IInv, OneChain, ReachesItsQueue
<1> QED  BY <1>1, Inductive, PTL

=============================================================================

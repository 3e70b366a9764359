----------------------------- MODULE AmqpClient ----------------------------
(***************************************************************************)
(* amqp_notify and amqp_fetch_pending (src/amqp.c), call by call.          *)
(*                                                                         *)
(* Both set up a connection of their own in the same six steps, do one     *)
(* thing over it and take it down again; any of the steps may fail, and    *)
(* each has its own way out.  send_response calls them one after another,  *)
(* so there is one call at a time.                                         *)
(***************************************************************************)
EXTENDS Naturals, Sequences, SequencesExt

CONSTANTS
  Body,         \* bodies of messages, sequences of units
  MaxFrame,     \* units in a body frame (frame_max of the login)
  MaxQueue      \* bound: messages in the queue

ASSUME BodyAssumption == \A b \in Body : b \in Seq(Nat)
ASSUME BoundAssumption == MaxFrame \in Nat \ {0} /\ MaxQueue \in Nat

VARIABLES
  pc,           \* the call the function is in, "idle" between calls
  function,     \* "amqp_notify" or "amqp_fetch_pending"
  live,         \* what exists of the connection
  rc,           \* what the last call returned
  data,         \* msg->data: <<>> for NULL, <<units>> otherwise
  left,         \* body_len, units the loop still expects
  arriving,     \* units the broker has yet to send
  copies,       \* copies of the fragments so far; nothing frees them
  short,        \* whether such a copy could not be made
  taken,        \* the body that basic.get took in this call, <<>> or <<b>>
  queue         \* the provisioning queue

clientVars == <<pc, function, live, rc, data, left, arriving, copies, short,
                taken>>
vars == <<clientVars, queue>>

Setup == <<"new", "socket", "open", "login", "channel", "exchange">>

Resource == {"state", "session", "channel"}

TypeOK ==
  /\ pc \in {"idle", "publish", "get", "header", "body", "close"} \cup Range(Setup)
  /\ function \in {"amqp_notify", "amqp_fetch_pending"}
  /\ live \in SUBSET Resource
  /\ rc \in {0, 1}              \* 1 stands for -1
  /\ data # <<>> => Len(data) = 1 /\ data[1] \in Seq(Nat)
  /\ left \in Nat
  /\ arriving \in Seq(Nat)
  /\ copies \in Nat
  /\ short \in BOOLEAN
  /\ taken \in {<<>>} \cup {<<b>> : b \in Body}
  /\ queue \in Seq(Body)

Init ==
  /\ pc = "idle" /\ function = "amqp_notify" /\ live = {} /\ rc = 0
  /\ data = <<>> /\ left = 0 /\ arriving = <<>> /\ taken = <<>>
  /\ copies = 0 /\ short = FALSE
  /\ queue = <<>>

-----------------------------------------------------------------------------
(***************************************************************************)
(* What a step brings about when it succeeds, and may have brought about   *)
(* when it fails: a login or an open that goes wrong can have got as far   *)
(* as the broker.                                                          *)
(***************************************************************************)
Creates(step) == CASE step = "new"     -> {"state"}
                   [] step = "login"   -> {"session"}
                   [] step = "channel" -> {"channel"}
                   [] OTHER            -> {}

(***************************************************************************)
(* The ways out: free the connection state, after closing the session once *)
(* login was tried, and the channel once opening it was tried.             *)
(***************************************************************************)
CleanedUp_NoClose(step) ==
  IF step = "new" THEN {} ELSE {"state"}

CleanedUp(step) ==
  CASE step = "new"                -> {}
    [] step \in {"socket", "open"} -> {"state"}
    [] step = "login"              -> {"state", "session"}
    [] OTHER                       -> Resource

Return(step, code) ==
  /\ pc' = "idle"
  /\ rc' = code
  /\ \E halfway \in SUBSET IF step = "new" THEN {} ELSE Creates(step) :
       live' = (live \cup halfway) \ CleanedUp(step)

Call(f) ==
  /\ pc = "idle"
  /\ function' = f
  /\ pc' = "new"
  /\ data' = <<>> /\ left' = 0 /\ arriving' = <<>> /\ taken' = <<>>
  /\ copies' = 0 /\ short' = FALSE
  /\ UNCHANGED <<live, rc, queue>>

AfterSetup(step) ==
  IF step # "exchange"
    THEN Setup[1 + CHOOSE i \in DOMAIN Setup : Setup[i] = step]
    ELSE IF function = "amqp_notify" THEN "publish" ELSE "get"

SetupStep ==
  /\ pc \in Range(Setup)
  /\ \/ /\ pc' = AfterSetup(pc)
        /\ live' = live \cup Creates(pc)
        /\ UNCHANGED rc
     \/ Return(pc, 1)
  /\ UNCHANGED <<function, data, left, arriving, copies, short, taken, queue>>

(***************************************************************************)
(* amqp_basic_publish only writes: 0 says that the message left, not that  *)
(* the broker has it.                                                      *)
(***************************************************************************)
Publish ==
  /\ pc = "publish"
  /\ \/ pc' = "close" /\ UNCHANGED <<live, rc>>
     \/ Return(pc, 1)
  /\ UNCHANGED <<function, data, left, arriving, copies, short, taken, queue>>

(***************************************************************************)
(* amqp_basic_get with no_ack: a message is gone from the queue when the   *)
(* broker answers.  No message counts as success, and so does every        *)
(* exception of the broker, which is taken for a missing queue.            *)
(***************************************************************************)
GetReply ==
  /\ pc = "get"
  /\ \/ /\ pc' = "close"
        /\ UNCHANGED <<live, rc, arriving, taken, queue>>
     \/ /\ queue # <<>>
        /\ queue' = Tail(queue)
        /\ taken' = <<Head(queue)>>
        /\ arriving' = Head(queue)
        /\ pc' = "header"
        /\ UNCHANGED <<live, rc>>
     \/ /\ Return(pc, 1)
        /\ UNCHANGED <<arriving, taken, queue>>
  /\ UNCHANGED <<function, data, left, copies, short>>

(***************************************************************************)
(* The content header gives the size; a buffer of zeroes is allocated.     *)
(***************************************************************************)
ContentHeader ==
  /\ pc = "header"
  /\ \/ /\ data' = <<<<>>>>
        /\ left' = Len(arriving)
        /\ pc' = IF arriving = <<>> THEN "close" ELSE "body"
        /\ UNCHANGED <<live, rc>>
     \/ Return(pc, 1) /\ UNCHANGED <<data, left>>
  /\ UNCHANGED <<function, arriving, copies, short, taken, queue>>

(***************************************************************************)
(* One turn of the loop.  A frame as long as the message is the message;   *)
(* any other is appended to a copy of what is there, and snprintf cuts the *)
(* result to the size of the buffer.  If the copy cannot be made the       *)
(* fragment replaces what is there.                                        *)
(***************************************************************************)
Cut(s, n) == IF Len(s) <= n THEN s ELSE SubSeq(s, 1, n)

Extended_NoRoomForNul(old, fragment, size) ==
  IF Len(fragment) = size THEN fragment ELSE Cut(old \o fragment, size - 1)

Extended(old, fragment, size) ==
  IF Len(fragment) = size THEN fragment ELSE Cut(old \o fragment, size)

LeftAfter_WithNul(fragment, size) ==
  IF Len(fragment) = size THEN 0 ELSE left - (Len(fragment) + 1)

LeftAfter_OneShort(fragment, size) ==
  IF Len(fragment) = size THEN 0 ELSE left - (Len(fragment) - 1)

LeftAfter(fragment, size) == IF Len(fragment) = size THEN 0
                                                     ELSE left - Len(fragment)

\* Takes the fragment in, after copying what is there unless it is complete.
TakeIn(fragment, size) ==
  \/ /\ data' = <<Extended(data[1], fragment, size)>>
     /\ copies' = IF Len(fragment) = size THEN copies ELSE copies + 1
     /\ UNCHANGED short
  \/ /\ Len(fragment) # size
     /\ data' = <<Extended(<<>>, fragment, size)>>
     /\ short' = TRUE
     /\ UNCHANGED copies

BodyFrame ==
  /\ pc = "body"
  /\ \/ \E n \in 1..MaxFrame :
          LET fragment == SubSeq(arriving, 1, n)
              size     == Len(taken[1])
          IN  /\ n <= Len(arriving)
              /\ arriving' = SubSeq(arriving, n + 1, Len(arriving))
              /\ TakeIn(fragment, size)
              /\ left' = LeftAfter(fragment, size)
              /\ pc' = IF left' = 0 THEN "close" ELSE "body"
              /\ UNCHANGED <<live, rc>>
     \/ Return(pc, 1) /\ UNCHANGED <<data, left, arriving, copies, short>>
  /\ UNCHANGED <<function, taken, queue>>

Close ==
  /\ pc = "close"
  /\ Return(pc, 0)
  /\ UNCHANGED <<function, data, left, arriving, copies, short, taken, queue>>

(***************************************************************************)
(* The backend (publish in provisioning.py) queues a message whenever it   *)
(* likes.                                                                  *)
(***************************************************************************)
Enqueue(b) ==
  /\ Len(queue) < MaxQueue
  /\ queue' = Append(queue, b)
  /\ UNCHANGED clientVars

Next ==
  \/ \E f \in {"amqp_notify", "amqp_fetch_pending"} : Call(f)
  \/ SetupStep \/ Publish \/ GetReply \/ ContentHeader \/ BodyFrame \/ Close
  \/ \E b \in Body : Enqueue(b)

Spec == Init /\ [][Next]_vars

-----------------------------------------------------------------------------
(***************************************************************************)
(* However a call ends, it leaves no connection state, no session and no   *)
(* channel behind: each of the ways out undoes what the steps before it    *)
(* did.                                                                    *)
(***************************************************************************)
CleansUp == pc = "idle" => live = {}

(***************************************************************************)
(* The loop of amqp_fetch_pending expects exactly what the broker has yet  *)
(* to send: body_len never wraps, and the loop neither ends early nor      *)
(* waits for a frame that will not come.                                   *)
(***************************************************************************)
CountsDown ==
  /\ pc = "body" => left = Len(arriving) /\ left > 0
  /\ pc = "close" => left = 0 /\ arriving = <<>>

(***************************************************************************)
(* Unless memory runs short amqp_fetch_pending keeps what PendingFetch     *)
(* promises: in particular a message that comes in fragments is put        *)
(* together again.  When it does, the promise is off: a copy that cannot   *)
(* be made loses the fragments so far and the call still returns 0.        *)
(***************************************************************************)
Fetching == function = "amqp_fetch_pending"

StageOfCall ==
  CASE ~ Fetching             -> "idle"
    [] Fetching /\ pc = "idle" -> IF rc = 0 THEN "done" ELSE "failed"
    [] OTHER                  -> IF taken = <<>> THEN "fetch" ELSE "transfer"

FetchedByCall ==
  CASE StageOfCall = "transfer" -> taken
    [] StageOfCall = "done"     -> IF short THEN taken ELSE data
    [] OTHER                    -> <<>>

Fetch == INSTANCE PendingFetch
           WITH stage <- StageOfCall, fetched <- FetchedByCall

KeepsFetchPromise == Fetch!Spec
=============================================================================

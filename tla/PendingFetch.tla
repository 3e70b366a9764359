---------------------------- MODULE PendingFetch ---------------------------
(***************************************************************************)
(* What amqp_fetch_pending (src/amqp.c) promises send_response: a call     *)
(* ends with the first message of the queue, unaltered, with nothing, or   *)
(* with a failure; only a call that got as far as taking the message from  *)
(* the queue can lose it, and it never takes a second one.  AcsSession     *)
(* uses the same steps.                                                    *)
(***************************************************************************)
EXTENDS Naturals, Sequences

CONSTANT Body           \* bodies of messages

VARIABLES
  stage,        \* "idle", "fetch", "transfer", "done" or "failed"
  fetched,      \* the message taken or returned, <<>> for none
  queue         \* the provisioning queue

vars == <<stage, fetched, queue>>

Returned == {"idle", "done", "failed"}

Init == stage = "idle" /\ fetched = <<>> /\ queue = <<>>

Call ==
  /\ stage \in Returned
  /\ stage' \in {"fetch", "idle"}       \* "idle": the caller moves on
  /\ fetched' = <<>>
  /\ UNCHANGED queue

Nothing == stage = "fetch" /\ stage' = "done" /\ UNCHANGED <<fetched, queue>>

Get ==
  /\ stage = "fetch"
  /\ queue # <<>>
  /\ fetched' = <<Head(queue)>>
  /\ queue' = Tail(queue)
  /\ stage' = "transfer"

Deliver == stage = "transfer" /\ stage' = "done" /\ UNCHANGED <<fetched, queue>>

Fail ==
  /\ stage \in {"fetch", "transfer"}
  /\ stage' = "failed"
  /\ fetched' = <<>>
  /\ UNCHANGED queue

Enqueue ==
  /\ \E b \in Body : queue' = Append(queue, b)
  /\ UNCHANGED <<stage, fetched>>

Next == Call \/ Nothing \/ Get \/ Deliver \/ Fail \/ Enqueue

Spec == Init /\ [][Next]_vars
=============================================================================

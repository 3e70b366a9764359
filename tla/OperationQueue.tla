-------------------------- MODULE OperationQueue ---------------------------
(***************************************************************************)
(* What the ACS and its broker promise about the operations that a backend *)
(* queues for devices: a device carries out each of its operations at most *)
(* once and in the order they were queued.  Operations may be lost, one at *)
(* a time (the queue is read without acknowledgement, so whatever happens  *)
(* to the reader happens to the operation) or all that nobody has          *)
(* collected (the queue expires); losing one never reorders the others.    *)
(***************************************************************************)
EXTENDS Naturals, Sequences

CONSTANTS Dev,          \* devices
          Message       \* operations

VARIABLES
  pending,      \* per device, operations queued and not yet carried out
  executed      \* per device, operations it has carried out

vars == <<pending, executed>>

Init ==
  /\ pending = [d \in Dev |-> <<>>]
  /\ executed = [d \in Dev |-> <<>>]

Enqueue(d, m) ==
  /\ pending' = [pending EXCEPT ![d] = Append(@, m)]
  /\ UNCHANGED executed

Execute(d) ==
  /\ pending[d] # <<>>
  /\ executed' = [executed EXCEPT ![d] = Append(@, Head(pending[d]))]
  /\ pending' = [pending EXCEPT ![d] = Tail(@)]

Lose(d) ==
  /\ \E i \in DOMAIN pending[d] :
       pending' = [pending EXCEPT ![d] = SubSeq(@, 1, i - 1)
                                         \o SubSeq(@, i + 1, Len(@))]
  /\ UNCHANGED executed

Expire(d) ==
  /\ \E kept \in 0..1 :
       /\ kept <= Len(pending[d])
       /\ pending' = [pending EXCEPT ![d] = SubSeq(@, 1, kept)]
  /\ UNCHANGED executed

\* Most steps of an implementation move no operation.
Next ==
  \/ UNCHANGED vars
  \/ \E d \in Dev : \/ \E m \in Message : Enqueue(d, m)
                   \/ Execute(d)
                   \/ Lose(d)
                   \/ Expire(d)

Spec == Init /\ [][Next]_vars
=============================================================================

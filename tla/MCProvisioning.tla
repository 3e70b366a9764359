-------------------------- MODULE MCProvisioning ---------------------------
(***************************************************************************)
(* Small instances of Provisioning.                                        *)
(***************************************************************************)
EXTENDS Provisioning

MCDevice == {"d", "e"}
MCAddress == {"addr1", "addr2"}

New(id, device, address) ==
  [id |-> id, device |-> device, address |-> address, form |-> "factory", archive |-> {}]

\* Two new devices, and one of them again when it has its own credentials, as
\* passed on by another backend.
Overlapping ==
  { New(1, "d", "addr1"), New(2, "e", "addr2"),
    [New(3, "d", "addr1") EXCEPT !.form = "owned", !.archive = {"mongodb_relay"}] }

\* A device that changes its address, one that takes it over, notified by way
\* of another backend, and an unfit notification.
Moving ==
  { New(1, "d", "addr1"), New(2, "d", "addr2"), [New(3, "e", "addr1") EXCEPT !.archive = {"mongodb_relay"}],
    [New(4, "e", "addr1") EXCEPT !.form = "unfit"] }

MCInform == Overlapping \cup Moving

AtAnyTime(notifications) == [patient |-> FALSE, informs |-> notifications]
Alone(notifications) == [patient |-> TRUE, informs |-> notifications]

AnyArrivals == {AtAnyTime(Overlapping), AtAnyTime({m \in Moving : m.id < 3}), Alone(Moving)}
AnnouncedArrivals == {AtAnyTime(Overlapping)}
=============================================================================

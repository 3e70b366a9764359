--------------------------- MODULE MCAcsSession ----------------------------
(***************************************************************************)
(* Small instances of AcsSession: one device with factory credentials and  *)
(* one without, and messages of the kinds that send_response tells apart.  *)
(***************************************************************************)
EXTENDS AcsSession, TLC

CONSTANTS d1, d2

MCDev  == {d1, d2}

ByAddress == d1 :> "addr1" @@ d2 :> "addr2"
Shared    == d1 :> "operations" @@ d2 :> "operations"

NewAndOwn == d1 :> "factory" @@ d2 :> "own"
AllOwn    == d1 :> "own" @@ d2 :> "own"
OneNew    == d1 :> "factory"
MCFactory == {"factory"}

Op(id, op) == [id |-> id, form |-> "operation", cookie |-> "", op |-> op]

Set1 == Op("set1", "SetParameterValues")
Add1 == Op("add1", "AddObject")
Get1 == [Op("get1", "Download") EXCEPT !.cookie = "level=2"]
Bare == Op("bare", "None")
Junk == [Op("junk", "SetParameterValues") EXCEPT !.form = "garbage"]

TwoOperations   == {Set1, Add1}
MixedOperations == {Set1, Get1, Bare, Junk}
EveryMessage    == {Set1, Add1, Get1, Bare, Junk}
AllOperations   == {Set1, Add1, Get1}

In(initial, message, queueOf) ==
  [initial |-> initial, message |-> message, queueOf |-> queueOf]

\* Two devices that share a queue or have one each, and one operation; a new
\* device alone with two operations, and with messages of every form.
FaultySettings == [ shared |-> In(AllOwn, {Add1}, Shared),
                    own    |-> In(NewAndOwn, {Set1}, ByAddress),
                    alone  |-> In(OneNew, TwoOperations, ByAddress),
                    mixed  |-> In(OneNew, MixedOperations, ByAddress) ]

FaultlessSettings == [ both |-> In(NewAndOwn, AllOperations, ByAddress) ]
=============================================================================

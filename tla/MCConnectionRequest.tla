------------------------ MODULE MCConnectionRequest ------------------------
(***************************************************************************)
(* Small instance of ConnectionRequest: two devices that may or may not    *)
(* answer, or one and a request with a malformed port, or another          *)
(* notification.                                                           *)
(***************************************************************************)
EXTENDS ConnectionRequest, TLC

MCUrl == "r1" :> "good" @@ "r2" :> "good" @@ "r3" :> "badPort" @@ "inform" :> "absent"
MCRequest == DOMAIN MCUrl
MCRelayed == {{"r1", "r2"}, {"r1", "r3"}, {"r1", "inform"}}
=============================================================================

------------------------ MODULE MCScgiConnection ---------------------------
(***************************************************************************)
(* Small instances of ScgiConnection.  A head takes two units and libevent *)
(* reads three at a time, so that a body of three units needs two reads;   *)
(* chains come in powers of two, as libevent allocates them.               *)
(***************************************************************************)
EXTENDS ScgiConnection

MCSpace(n) == IF n <= 1 THEN 1 ELSE IF n <= 2 THEN 2 ELSE 4

Post == [has |-> Header, method |-> "POST", credentials |-> "device",
         cookie |-> "level=1", length |-> 0, wellformed |-> TRUE,
         doc |-> "Other", actual |-> 0]

Body(r, doc, length, actual) ==
  [r EXCEPT !.doc = doc, !.length = length, !.actual = actual]

Asking      == Post
Informing   == Body(Post, "Inform", 2, 2)
Long        == Body(Post, "SetParameterValuesResponse", 3, 3)
TooLong     == Body(Post, "Inform", 4, 4)
Overshoots  == Body(Post, "AddObjectResponse", 1, 2)
FallsShort  == Body(Post, "Inform", 2, 1)
New         == [Post EXCEPT !.credentials = "factory", !.cookie = "level=0"]
Anonymous   == [Post EXCEPT !.has = Header \ {"HTTP_AUTHORIZATION"}]
Getting     == [Post EXCEPT !.method = "GET"]
NoAddress   == Body([Post EXCEPT !.has = Header \ {"REMOTE_ADDR"}],
                    "Inform", 1, 1)
NoLength    == [Post EXCEPT !.has = Header \ {"CONTENT_LENGTH"}]
Broken      == [Post EXCEPT !.wellformed = FALSE]

AllRequests == {Asking, Informing, Long, TooLong, Overshoots, FallsShort, New,
                Anonymous, Getting, NoAddress, NoLength, Broken}

FewRequests == {Asking, Long, Overshoots, NoAddress}

MCMessage == {[form |-> "operation", cookie |-> "", id |-> "op"],
              [form |-> "garbage", cookie |-> "", id |-> "junk"]}

MCFactory == {"factory"}
=============================================================================

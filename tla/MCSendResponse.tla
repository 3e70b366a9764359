--------------------------- MODULE MCSendResponse ---------------------------
(***************************************************************************)
(* A small instance of SendResponse: requests for every rung, documents of *)
(* every type and version, with elements missing and repeated, and         *)
(* messages of every kind in none, one, two or three units.                *)
(***************************************************************************)
EXTENDS SendResponse, TLC

None == [e \in Element |-> 0]
Nothing == [readable |-> TRUE, body |-> {}, count |-> None, lone |-> FALSE]

Document1(type, version, ids, statuses, instances) ==
  [readable |-> TRUE, body |-> {<<type, version>>},
   count |-> [None EXCEPT !["ID"] = ids, !["Status"] = statuses,
                          !["InstanceNumber"] = instances],
   lone |-> FALSE]

\* An Inform with a Name that has its value, or has none.
Parameter(version, lone) ==
  [Document1("Inform", version, 1, 0, 0) EXCEPT
     !.count["EventCode"] = 1, !.count["Name"] = 1, !.lone = lone]

Asking == [has |-> Header \ {"HTTP_COOKIE"}, method |-> "POST", cookie |-> "",
           credentials |-> "own", length |-> 0, doc |-> Nothing]

With(doc) == [Asking EXCEPT !.length = 1, !.doc = doc]

MCRequest ==
  { Asking,
    [Asking EXCEPT !.has = {"HTTP_COOKIE"}],
    [Asking EXCEPT !.method = "GET"],
    [Asking EXCEPT !.has = Header, !.cookie = "level=0", !.credentials = "factory"],
    With(Nothing),
    With([Nothing EXCEPT !.readable = FALSE]),
    With(Document1("Inform", "XML_CWMP_VERSION_1_1", 0, 0, 0)),
    With(Parameter("XML_CWMP_VERSION_1_0", FALSE)),
    With(Parameter("XML_CWMP_VERSION_1_2", TRUE)),
    With(Document1("SetParameterValuesResponse", "XML_CWMP_VERSION_1_0", 1, 2, 0)),
    With(Document1("AddObjectResponse", "XML_CWMP_VERSION_1_1", 1, 1, 1)),
    With(Document1("AddObjectResponse", "XML_CWMP_VERSION_1_0", 1, 0, 1)),
    With(Document1("AddObjectResponse", "XML_CWMP_VERSION_1_2", 1, 0, 2)) }

Says(asks) == [asks |-> asks, hasId |-> TRUE, cookie |-> "", id |-> asks]

MCContent ==
  (<<>>        :> Says("no json")) @@
  (<<1>>       :> [Says("no cwmp") EXCEPT !.hasId = FALSE]) @@
  (<<2>>       :> [Says("nothing") EXCEPT !.hasId = FALSE]) @@
  (<<4, 5>>    :> [Says("set_parameter_values") EXCEPT !.cookie = "level=2"]) @@
  (<<6, 7>>    :> Says("unknown file_type")) @@
  (<<3>>       :> Says("no file_type")) @@
  (<<8>>       :> [Says("no parameters") EXCEPT !.hasId = FALSE]) @@
  (<<7, 8, 9>> :> Says("download"))

MCBody == DOMAIN MCContent
MCFactory == {"factory"}
=============================================================================

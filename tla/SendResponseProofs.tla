------------------------- MODULE SendResponseProofs -------------------------
(***************************************************************************)
(* Proofs about SendResponse for all requests, documents, messages, frame  *)
(* sizes and queue bounds.                                                 *)
(***************************************************************************)
EXTENDS SendResponse, AmqpClientProofs

-----------------------------------------------------------------------------
(***************************************************************************)
(* The inductive invariant, conjunct by conjunct.                          *)
(***************************************************************************)
\* A request is being worked on, and is the only one to use the AMQP client.
OneAtATime ==
  /\ at \notin {"idle", "aborted"} => request # <<>>
  /\ pc # "idle" => at \in {"notify", "fetch"}

\* What is allocated wherever send_response is there, and all that can be.
Must(place) ==
  CASE place \in {"read", "headers", "notify", "fetch"} -> {"json_msg_in"}
    [] place = "analyze" -> {"json_msg_in"} \cup Analysis
    [] place = "parse"   -> {"json_msg_in", "msg.data"}
    [] place = "create"  -> {"json_msg_in", "json_msg_out"}
    [] OTHER             -> {}

May(place) ==
  CASE place = "idle"     -> {"msg.data", "copies", "content"}
    [] place = "aborted"  -> Object
    [] place = "allocate" -> {}
    [] place \in {"read", "headers", "notify", "fetch"} -> {"json_msg_in", "content"}
    [] place = "analyze"  -> {"json_msg_in", "content"} \cup Analysis
    [] place = "parse"    -> {"json_msg_in", "msg.data", "copies", "content"}
    [] place = "create"   -> Owned \cup {"copies", "content"} \cup Template
    [] place = "clean"    -> Owned \cup {"msg.data", "copies", "content"}

Holds ==
  /\ Must(at) \subseteq heap /\ heap \subseteq May(at)
  /\ at = "create" => Template \subseteq heap \/ Template \cap heap = {}
  /\ at \in {"idle", "clean"} /\ "msg.data" \in heap => rc # 0
  /\ at = "clean" /\ "json_msg_in" \notin heap => starved

\* The pointer that an InstanceNumber leaves behind, and what has been read or
\* released: what a message leaves out stops the process at once.
Dangles ==
  /\ dangling # {} => request # <<>> /\ Found("InstanceNumber")
  /\ HandlesItsOwn
  /\ misused \cap {"file_type", "parameters"} # {} => at = "aborted"

\* The tag once the first n passes have looked for their types.
Seen(doc, n) ==
  {"XML_CWMP_NONE"} \cup
  UNION {{TypeTag(TypePasses[i][1]), TypePasses[i][2]} :
           i \in {j \in 1..n : TypePasses[j] \in doc.body}}

\* The passes still to be made are the end of all, and the others are past.
EndOf(p, all) ==
  /\ Len(p) <= Len(all)
  /\ \A i \in 1..Len(p) : p[i] = all[Len(all) - Len(p) + i]

Past(p, all) == {all[i][1] : i \in 1..(Len(all) - Len(p))}

LookingForTypes ==
  /\ passes # <<>> /\ EndOf(passes, TypePasses)
  /\ tag = Seen(request[1].doc, 9 - Len(passes))
  /\ told = {} /\ dangling = {}

LookingForElements ==
  /\ EndOf(passes, Extractions(tag))
  /\ tag = Seen(request[1].doc, 9)
  /\ ~starved /\ ~StatusMissing =>
       told = UNION {Entries(e) : e \in Past(passes, Extractions(tag))}
  /\ dangling # {} => Len(passes) <= 1

Analyzes ==
  /\ at \in {"allocate", "read"} => told = {} /\ dangling = {}
  /\ at = "allocate" => tag = NewTag
  /\ at = "read" => request[1].length # 0
  /\ at = "analyze" =>
       /\ request[1].length # 0 /\ request[1].doc.readable
       /\ LookingForTypes \/ LookingForElements

\* The tag that the analysis leaves.
Known_Tag(r) ==
  IF r.length = 0 THEN NewTag
  ELSE IF ~r.doc.readable THEN {"XML_CWMP_NONE"}
  ELSE IF Seen(r.doc, 9) = {"XML_CWMP_NONE"} THEN {"XML_CWMP_TYPE_UNKNOWN"}
  ELSE Seen(r.doc, 9)

Tells ==
  IF request[1].length = 0 \/ ~request[1].doc.readable THEN {}
  ELSE UNION {Entries(e) : e \in Past(<<>>, Extractions(tag))}

Analyzed ==
  /\ at \in {"headers", "notify", "fetch", "parse", "create"} /\ ~starved =>
       tag = Known_Tag(request[1])
  /\ at \in {"headers", "notify"} /\ ~starved /\ ~StatusMissing => told = Tells

\* The message that is turned into a document.
Turns ==
  /\ at \in {"fetch", "parse", "create"} => NeedsFetch(request[1], tag)
  /\ at \in {"parse", "create"} => rc = 0 /\ data # <<>>
  /\ at = "parse" /\ ~starved => data[1] \in Body
  /\ at = "create" => data[1] \in Body /\ Content[data[1]].asks # "no json"
  /\ at = "create" /\ "doc" \notin heap => passes = <<>>
  /\ at = "create" /\ "doc" \in heap =>
       LET asks == Content[data[1]].asks
       IN  /\ asks # "no cwmp"
           /\ asks \in Unfinished => passes # <<>> /\ passes[Len(passes)][1] = asks
           /\ \A i \in 1..Len(passes) : passes[i][1] \in {"ID", asks}

\* One reply per request, and which.
Answer ==
  LET r == request[1]
      t == TagAfterAnalysis(r, KindOf(r.doc), NewTag)
  IN  IF Refused(r) THEN Refusal(r) ELSE NotifiedReply(r, t, rc # 0, Result)

Replied == reply = <<reply[1]>> /\ reply[1].status \in {200, 204, 401, 500}

Replies ==
  /\ reply = <<>> \/ Replied
  /\ at = "clean" \/ Answered => Replied
  /\ at \notin {"idle", "aborted", "clean"} => reply = <<>> /\ ~Refused(request[1])

AsStated ==
  (at = "clean" \/ Answered) /\ ~starved => reply = <<Answer>>

ResponseParts == /\ ResponseTypeOK
                 /\ OneAtATime
                 /\ Holds
                 /\ Dangles
                 /\ Analyzes
                 /\ Analyzed
                 /\ Turns
                 /\ Replies

ResponseIInv == IInv /\ ResponseParts

-----------------------------------------------------------------------------
(***************************************************************************)
(* send_response uses the AMQP client as AmqpClient says that it is used:  *)
(* each of its steps is one of the client's or leaves the client alone.    *)
(***************************************************************************)
LEMMA ResponseStep == [ResponseNext]_allVars => [Next]_vars
<1> SUFFICES ASSUME [ResponseNext]_allVars PROVE [Next]_vars
  OBVIOUS
<1>1. CASE UNCHANGED allVars
  BY <1>1 DEF allVars
<1>2. CASE \E r \in Request : Begin(r)
  BY <1>2 DEF Begin
<1>3. CASE \/ Allocate \/ Read \/ AnalysisFails \/ TypePass \/ ExtractionPass \/ NullValue
            \/ ContentFails \/ StaleStatus
  BY <1>3 DEF Allocate, Read, AnalysisFails, TypePass, ExtractionPass, NullValue,
              ContentFails, StaleStatus
<1>4. CASE EndOfAnalysis \/ Fetched \/ Parse \/ StartCreate \/ CreateError
  BY <1>4 DEF EndOfAnalysis, Fetched, Parse, StartCreate, CreateError
<1>5. CASE CreatePass \/ NullCreate \/ Reply200 \/ Clean \/ NotificationFails
  BY <1>5 DEF CreatePass, NullCreate, Reply200, Clean, NotificationFails
<1>6. CASE NotifyBackend
  BY <1>6 DEF NotifyBackend, Next
<1>7. CASE Notified
  BY <1>7 DEF Notified, Next
<1>8. CASE AmqpStep
  BY <1>8 DEF AmqpStep, Next
<1>9. CASE \E b \in Body : Enqueue(b) /\ UNCHANGED responseVars
  BY <1>9 DEF Next
<1> QED
  BY <1>1, <1>2, <1>3, <1>4, <1>5, <1>6, <1>7, <1>8, <1>9 DEF ResponseNext

(* Every behaviour of send_response is one of the AMQP client. *)
LEMMA ResponseClient == ResponseSpec => Spec
<1>1. ResponseInit => Init
  BY DEF ResponseInit
<1> QED
  BY <1>1, ResponseStep, PTL DEF ResponseSpec, Spec

(***************************************************************************)
(* What AmqpClient promises therefore holds of the calls of send_response. *)
(***************************************************************************)
THEOREM ResponseClientTyped == ResponseSpec => []TypeOK
BY ResponseClient, TypeCorrect, PTL

(* No connection outlives the amqp_notify or amqp_fetch_pending of a request. *)
THEOREM ResponseNothingStaysOpen == ResponseSpec => []CleansUp
BY ResponseClient, NothingStaysOpen, PTL

(* The loop over the body frames ends with the message, in every request. *)
THEOREM ResponseLoopCounts == ResponseSpec => []CountsDown
BY ResponseClient, LoopCounts, PTL

(* A request that fetches gets the first message of the queue or fails. *)
THEOREM ResponseRefinement == ResponseSpec => KeepsFetchPromise
BY ResponseClient, Refinement

-----------------------------------------------------------------------------
(***************************************************************************)
(* The passes.                                                             *)
(***************************************************************************)
LEMMA ElementsAreNotTypes == Element \cap Type = {} /\ Asked \cap Type = {}
BY DEF Element, Type, Asked, Unfinished

(* The nine passes for the types are all pairs of a type and a version. *)
LEMMA TypePassesAre ==
  /\ Len(TypePasses) = 9
  /\ TypePasses \in Seq(Type \X Version)
  /\ \A i \in 1..9 : TypePasses[i] \in Type \X Version
  /\ \A p \in Type \X Version : \E i \in 1..9 : TypePasses[i] = p
<1>1. Len(TypePasses) = 9
  BY DEF TypePasses
<1>2. \A i \in 1..9 : TypePasses[i] \in Type \X Version
  BY DEF TypePasses, Type, Version
<1>3. TypePasses \in Seq(Type \X Version)
  BY <1>1, <1>2 DEF TypePasses
<1>4. \A p \in Type \X Version : \E i \in 1..9 : TypePasses[i] = p
  BY DEF TypePasses, Type, Version
<1> QED
  BY <1>1, <1>2, <1>3, <1>4

(* Short sequences, and those of the elements. *)
LEMMA ShortSequences ==
  ASSUME NEW S, NEW x \in S, NEW y \in S
  PROVE  /\ <<>> \in Seq(S) /\ Len(<<>>) = 0
         /\ <<x>> \in Seq(S) /\ Len(<<x>>) = 1 /\ <<x>>[1] = x
         /\ <<x, y>> \in Seq(S) /\ Len(<<x, y>>) = 2
         /\ <<x, y>>[1] = x /\ <<x, y>>[2] = y
OBVIOUS

(* Four sequences put together, the first three of them over a smaller set. *)
PutTogether(E, F, d, a, b, c) ==
  \E n \in Nat :
    /\ n = Len(d) + Len(a) + Len(b)
    /\ d \o a \o b \o c \in Seq(E) /\ Len(d \o a \o b \o c) = n + Len(c)
    /\ \A i \in 1..n : (d \o a \o b \o c)[i] \in F
    /\ \A i \in n + 1..n + Len(c) : (d \o a \o b \o c)[i] = c[i - n]

(* Where the passes of the four parts are in the whole. *)
LEMMA Joined ==
  ASSUME NEW E, NEW F, F \subseteq E,
         NEW d \in Seq(F), NEW a \in Seq(F), NEW b \in Seq(F), NEW c \in Seq(E)
  PROVE  PutTogether(E, F, d, a, b, c)
<1> DEFINE p == d \o a
           q == p \o b
           s == q \o c
           n == Len(q)
<1>1. p \in Seq(F) /\ Len(p) = Len(d) + Len(a)
  BY ConcatProperties
<1> HIDE DEF p
<1>2. q \in Seq(F) /\ Len(q) = Len(p) + Len(b)
  BY <1>1, ConcatProperties
<1> HIDE DEF q
<1>3. q \in Seq(E) /\ \A i \in 1..Len(q) : q[i] \in F
  BY <1>2
<1>4. /\ s \in Seq(E) /\ Len(s) = Len(q) + Len(c)
      /\ \A i \in 1..Len(q) + Len(c) : s[i] = IF i <= Len(q) THEN q[i] ELSE c[i - Len(q)]
  BY <1>3, ConcatProperties
<1>5. /\ Len(d) \in Nat /\ Len(a) \in Nat /\ Len(b) \in Nat /\ Len(c) \in Nat
      /\ Len(q) \in Nat
  BY <1>2
<1>6. Len(q) = Len(d) + Len(a) + Len(b)
  BY <1>1, <1>2
<1> HIDE DEF s
<1>7. /\ \A i \in 1..Len(q) : s[i] \in F
      /\ \A i \in Len(q) + 1..Len(q) + Len(c) : s[i] = c[i - Len(q)]
  <2>1. PICK k \in Nat, l \in Nat : k = Len(q) /\ l = Len(c)
    BY <1>5
  <2>2. \A i \in 1..k + l : s[i] = IF i <= k THEN q[i] ELSE c[i - k]
    BY <2>1, <1>4
  <2>3. \A i \in 1..k : q[i] \in F
    BY <2>1, <1>3
  <2>4. /\ \A i \in 1..k : s[i] \in F
        /\ \A i \in k + 1..k + l : s[i] = c[i - k]
    BY <2>2, <2>3
  <2> QED
    BY <2>1, <2>4
<1>9. s = d \o a \o b \o c
  BY DEF p, q, s
<1> QED
  BY <1>4, <1>5, <1>6, <1>7, <1>9 DEF PutTogether

(***************************************************************************)
(* Which passes the tag calls for: an InstanceNumber is the last but one,  *)
(* and looked for in an AddObjectResponse alone.                           *)
(***************************************************************************)
LEMMA ExtractionsAre ==
  ASSUME NEW t
  PROVE  /\ Extractions(t) \in Seq(Element \X {""})
         /\ Len(Extractions(t)) \in 1..6
         /\ \A i \in 1..Len(Extractions(t)) :
              /\ Extractions(t)[i] \in Element \X {""}
              /\ Extractions(t)[i][1] = "InstanceNumber" => i = Len(Extractions(t)) - 1
              /\ Extractions(t)[i][1] = "InstanceNumber" => "XML_CWMP_TYPE_ADD_OBJECT_RES" \in t
<1> DEFINE E == Element \X {""}
           id == <<"ID", "">>
           event == <<"EventCode", "">>
           name == <<"Name", "">>
           status == <<"Status", "">>
           number == <<"InstanceNumber", "">>
           F == {id, event, name, status}
           a == IF IsInform(t) THEN <<event, name>> ELSE <<>>
           b == IF "XML_CWMP_TYPE_SET_PARAM_RES" \in t THEN <<status>> ELSE <<>>
           c == IF "XML_CWMP_TYPE_ADD_OBJECT_RES" \in t THEN <<number, status>> ELSE <<>>
           d == <<id>>
<1>1. Extractions(t) = d \o a \o b \o c
  BY DEF Extractions
<1>2. /\ id \in E /\ event \in E /\ name \in E /\ status \in E /\ number \in E
      /\ id[1] = "ID" /\ event[1] = "EventCode" /\ name[1] = "Name"
      /\ status[1] = "Status" /\ number[1] = "InstanceNumber"
  BY DEF Element
<1> HIDE DEF E, id, event, name, status, number
<1>3. /\ id \in F /\ event \in F /\ name \in F /\ status \in F
      /\ F \subseteq E /\ \A x \in F : x[1] # "InstanceNumber"
  BY <1>2
<1> HIDE DEF F
<1>4. d \in Seq(F) /\ Len(d) = 1
  BY <1>3, ShortSequences
<1>5. a \in Seq(F) /\ (Len(a) = 0 \/ Len(a) = 2)
  <2>1. CASE IsInform(t)
    BY <2>1, <1>3, ShortSequences
  <2>2. CASE ~IsInform(t)
    BY <2>2, <1>3, ShortSequences
  <2> QED
    BY <2>1, <2>2
<1>6. b \in Seq(F) /\ (Len(b) = 0 \/ Len(b) = 1)
  <2>1. CASE "XML_CWMP_TYPE_SET_PARAM_RES" \in t
    BY <2>1, <1>3, ShortSequences
  <2>2. CASE "XML_CWMP_TYPE_SET_PARAM_RES" \notin t
    BY <2>2, <1>3, ShortSequences
  <2> QED
    BY <2>1, <2>2
<1>7. /\ c \in Seq(E) /\ (Len(c) = 0 \/ Len(c) = 2)
      /\ Len(c) = 2 => /\ c[1] = number /\ c[2] = status
                       /\ "XML_CWMP_TYPE_ADD_OBJECT_RES" \in t
  <2>1. CASE "XML_CWMP_TYPE_ADD_OBJECT_RES" \in t
    BY <2>1, <1>2, ShortSequences
  <2>2. CASE "XML_CWMP_TYPE_ADD_OBJECT_RES" \notin t
    BY <2>2, <1>2, ShortSequences
  <2> QED
    BY <2>1, <2>2
<1> HIDE DEF a, b, c, d
<1>8. PICK n \in Nat :
        /\ n = Len(d) + Len(a) + Len(b)
        /\ Extractions(t) \in Seq(E) /\ Len(Extractions(t)) = n + Len(c)
        /\ \A i \in 1..n : Extractions(t)[i] \in F
        /\ \A i \in n + 1..n + Len(c) : Extractions(t)[i] = c[i - n]
  <2>1. /\ F \subseteq E /\ d \in Seq(F) /\ a \in Seq(F) /\ b \in Seq(F)
        /\ c \in Seq(E)
    BY <1>3, <1>4, <1>5, <1>6, <1>7
  <2>2. PutTogether(E, F, d, a, b, c)
    BY <2>1, Joined
  <2> QED
    BY <2>2, <1>1 DEF PutTogether
<1>9. n \in 1..4
  <2>1. n = Len(d) + Len(a) + Len(b)
    BY <1>8
  <2>2. Len(d) = 1 /\ (Len(a) = 0 \/ Len(a) = 2) /\ (Len(b) = 0 \/ Len(b) = 1)
    BY <1>4, <1>5, <1>6
  <2>3. \A x, y, z : z = 1 /\ (x = 0 \/ x = 2) /\ (y = 0 \/ y = 1) => z + x + y \in 1..4
    OBVIOUS
  <2> QED
    BY <2>1, <2>2, <2>3, Zenon
<1>10. /\ Extractions(t) \in Seq(E) /\ Len(Extractions(t)) = n + Len(c)
       /\ \A i \in 1..n : Extractions(t)[i] \in F
       /\ \A i \in n + 1..n + Len(c) : Extractions(t)[i] = c[i - n]
  BY <1>8
<1>11. Len(Extractions(t)) \in 1..6
  <2>1. Len(c) = 0 \/ Len(c) = 2
    BY <1>7
  <2> QED
    BY <2>1, <1>9, <1>10
<1>12. ASSUME NEW i \in 1..Len(Extractions(t)), Extractions(t)[i][1] = "InstanceNumber"
       PROVE  i = Len(Extractions(t)) - 1 /\ "XML_CWMP_TYPE_ADD_OBJECT_RES" \in t
  <2>1. ~ i \in 1..n
    BY <1>3, <1>10, <1>12
  <2>2. i \in n + 1..n + Len(c)
    BY <2>1, <1>7, <1>9, <1>10
  <2>3. Len(c) = 2 /\ i - n \in {1, 2}
    <3>1. PICK l : l = Len(c)
      OBVIOUS
    <3>2. (l = 0 \/ l = 2) /\ i \in n + 1..n + l
      BY <3>1, <2>2, <1>7
    <3> QED
      BY <3>1, <3>2, <1>9
  <2>4. c[i - n][1] = "InstanceNumber"
    BY <2>2, <1>10, <1>12
  <2>5. i - n = 1
    BY <2>3, <2>4, <1>3, <1>7
  <2> QED
    BY <2>3, <2>5, <1>7, <1>9, <1>10
<1>13. \A i \in 1..Len(Extractions(t)) : Extractions(t)[i] \in E
  BY <1>10, <1>11
<1> QED
  BY <1>10, <1>11, <1>12, <1>13 DEF E

(* All passes are left in the beginning, and one less after each. *)
LEMMA AllLeft ==
  ASSUME NEW S, NEW all \in Seq(S)
  PROVE  EndOf(all, all) /\ Past(all, all) = {}
<1>1. PICK n \in Nat : n = Len(all)
  OBVIOUS
<1>2. n - n = 0 /\ 1..0 = {} /\ n <= n /\ \A i \in 1..n : n - n + i = i
  OBVIOUS
<1>3. Past(all, all) = {all[i][1] : i \in {}}
  BY <1>1, <1>2 DEF Past
<1> QED
  BY <1>1, <1>2, <1>3 DEF EndOf

(* One pass further. *)
LEMMA OneLess ==
  ASSUME NEW S, NEW all \in Seq(S), NEW p \in Seq(S), p # <<>>, EndOf(p, all)
  PROVE  /\ Tail(p) \in Seq(S) /\ EndOf(Tail(p), all)
         /\ Len(p) \in Nat \ {0} /\ Len(Tail(p)) = Len(p) - 1
         /\ Head(p) = all[Len(all) - Len(Tail(p))]
         /\ Len(all) - Len(Tail(p)) \in 1..Len(all)
         /\ Past(Tail(p), all) = Past(p, all) \cup {Head(p)[1]}
<1>1. PICK n \in Nat, k \in Nat, q \in Seq(S) :
         n = Len(all) /\ k = Len(p) /\ q = Tail(p)
  <2>1. Len(all) \in Nat /\ Len(p) \in Nat
    OBVIOUS
  <2>2. Tail(p) \in Seq(S)
    OBVIOUS
  <2> QED
    BY <2>1, <2>2
<1>2. /\ k # 0 /\ Len(q) = k - 1 /\ Head(p) = p[1]
      /\ \A i \in 1..(k - 1) : q[i] = p[i + 1]
  BY <1>1
<1>3. k <= n /\ \A i \in 1..k : p[i] = all[n - k + i]
  BY <1>1 DEF EndOf
<1>4. k \in 1..n /\ n - (k - 1) \in 1..n /\ n - k + 1 = n - (k - 1) /\ k - 1 <= n
  BY <1>2, <1>3
<1>5. Head(p) = all[n - (k - 1)]
  BY <1>2, <1>3, <1>4
<1>6. \A i \in 1..(k - 1) : q[i] = all[n - (k - 1) + i]
  <2> TAKE i \in 1..(k - 1)
  <2>1. i + 1 \in 1..k /\ n - k + (i + 1) = n - (k - 1) + i
    BY <1>4
  <2> QED
    BY <2>1, <1>2, <1>3
<1>7. EndOf(q, all)
  BY <1>1, <1>2, <1>4, <1>6 DEF EndOf
<1>8. Past(q, all) = Past(p, all) \cup {Head(p)[1]}
  <2>1. 1..(n - (k - 1)) = 1..(n - k) \cup {n - (k - 1)}
    BY <1>4
  <2>2. Past(q, all) = {all[i][1] : i \in 1..(n - (k - 1))}
    BY <1>1, <1>2 DEF Past
  <2>3. Past(p, all) = {all[i][1] : i \in 1..(n - k)}
    BY <1>1 DEF Past
  <2> QED
    BY <2>1, <2>2, <2>3, <1>5
<1> QED
  BY <1>1, <1>2, <1>4, <1>5, <1>7, <1>8

(* What the tag is after one more of the passes for the types. *)
LEMMA SeenNext ==
  ASSUME NEW doc, NEW n \in Nat, NEW m, m = n + 1
  PROVE  Seen(doc, m) =
           IF TypePasses[m] \in doc.body
             THEN Seen(doc, n) \cup {TypeTag(TypePasses[m][1]), TypePasses[m][2]}
             ELSE Seen(doc, n)
<1> DEFINE new(i) == {TypeTag(TypePasses[i][1]), TypePasses[i][2]}
           found(k) == {j \in 1..k : TypePasses[j] \in doc.body}
           all(k) == UNION {new(i) : i \in found(k)}
<1>1. 1..m = 1..n \cup {m}
  OBVIOUS
<1>2. found(m) = IF TypePasses[m] \in doc.body THEN found(n) \cup {m} ELSE found(n)
  BY <1>1
<1>3. Seen(doc, m) = {"XML_CWMP_NONE"} \cup all(m) /\ Seen(doc, n) = {"XML_CWMP_NONE"} \cup all(n)
  BY DEF Seen
<1> HIDE DEF found, new
<1>4. ASSUME TypePasses[m] \in doc.body PROVE all(m) = all(n) \cup new(m)
  <2>1. \A x : x \in all(m) <=> x \in all(n) \/ x \in new(m)
    BY <1>2, <1>4
  <2> HIDE DEF all
  <2> QED
    BY <2>1
<1>5. ASSUME TypePasses[m] \notin doc.body PROVE all(m) = all(n)
  BY <1>2, <1>5
<1> HIDE DEF all
<1> QED
  BY <1>3, <1>4, <1>5 DEF new

(* Before the first pass. *)
LEMMA SeenFirst == \A doc : Seen(doc, 0) = {"XML_CWMP_NONE"}
<1> TAKE doc
<1>1. 1..0 = {}
  OBVIOUS
<1>2. UNION {{TypeTag(TypePasses[i][1]), TypePasses[i][2]} : i \in {}} = {}
  OBVIOUS
<1> QED
  BY <1>1, <1>2 DEF Seen

(***************************************************************************)
(* The tag after all nine is the types and versions below Body, as tags.   *)
(***************************************************************************)
LEMMA SeenAll ==
  ASSUME NEW doc, doc.body \subseteq Type \X Version
  PROVE  /\ Seen(doc, 9) = {"XML_CWMP_NONE"} \cup UNION {{TypeTag(p[1]), p[2]} : p \in doc.body}
         /\ Seen(doc, 9) \subseteq Tag \cup Version
<1>1. {TypePasses[i] : i \in {j \in 1..9 : TypePasses[j] \in doc.body}} = doc.body
  <2>1. \A p \in doc.body : \E i \in 1..9 : TypePasses[i] = p
    BY TypePassesAre
  <2> QED
    BY <2>1
<1>2. UNION {{TypeTag(TypePasses[i][1]), TypePasses[i][2]} : i \in {j \in 1..9 : TypePasses[j] \in doc.body}}
        = UNION {{TypeTag(p[1]), p[2]} : p \in doc.body}
  BY <1>1
<1>3. \A p \in Type \X Version : TypeTag(p[1]) \in Tag /\ p[2] \in Version
  BY DEF TypeTag, Tag, Type
<1> QED
  BY <1>2, <1>3 DEF Seen, Tag

-----------------------------------------------------------------------------
(***************************************************************************)
(* The invariant, step by step.  First the way in and the way out.         *)
(***************************************************************************)
Status == {200, 204, 401, 500}

OneReply(r) == Len(r) <= 1 /\ \A i \in DOMAIN r : r[i].status \in Status

(* One reply, or none, has its status. *)
LEMMA OneStatus ==
  \A r : r = <<>> \/ (r = <<r[1]>> /\ r[1].status \in Status) => OneReply(r)
<1> TAKE r
<1>1. CASE r = <<>>
  BY <1>1 DEF OneReply
<1>2. CASE r = <<r[1]>> /\ r[1].status \in Status
  <2>1. PICK x : x = r[1]
    OBVIOUS
  <2>2. r = <<x>> /\ x.status \in Status /\ Len(<<x>>) = 1 /\ DOMAIN <<x>> = {1} /\ <<x>>[1] = x
    BY <2>1, <1>2
  <2> QED
    BY <2>2 DEF OneReply
<1> QED
  BY <1>1, <1>2

(* The statuses of the replies. *)
LEMMA Statuses ==
  /\ Unauthorized.status = 401 /\ InternalServerError.status = 500
  /\ NoContent.status = 204 /\ InformResponse.status = 200
  /\ InitialProvisioning.status = 200
  /\ \A m : OperationReply(m).status = 200
BY DEF Unauthorized, InternalServerError, NoContent, InformResponse, InitialProvisioning,
       OperationReply, FetchReply, Reply

(* The first reply of a request. *)
LEMMA TheReply ==
  \A x : Append(<<>>, x) = <<x>> /\ <<x>>[1] = x /\ <<x>> # <<>>
OBVIOUS

(* No passes are left. *)
LEMMA EmptyPasses == <<>> \in Seq(Pass)
OBVIOUS

(* The request that is worked on. *)
LEMMA Requests ==
  ASSUME ResponseTypeOK, request # <<>>
  PROVE  request[1] \in Request /\ request = <<request[1]>>
BY DEF ResponseTypeOK

(***************************************************************************)
(* What a request leaves unguarded stays so to its end, but for what a     *)
(* message leaves out.                                                     *)
(***************************************************************************)
LEMMA UnguardedStays ==
  ASSUME UNCHANGED request, starved => starved'
  PROVE  Unguarded \ {"file_type", "parameters"} \subseteq Unguarded'
<1>1. StatusMissing' = StatusMissing /\ ValueMissing' = ValueMissing
  BY DEF StatusMissing, ValueMissing, Found
<1> QED
  BY <1>1 DEF Unguarded

(* A step that goes on, without reading or releasing what is not there. *)
LEMMA StillHandled ==
  ASSUME Dangles, at # "aborted", at' # "aborted",
         UNCHANGED <<request, misused, dangling>>, starved => starved'
  PROVE  Dangles'
<1>1. misused' \subseteq Unguarded' /\ misused' \cap {"file_type", "parameters"} = {}
  BY UnguardedStays DEF Dangles, HandlesItsOwn
<1> QED
  BY <1>1 DEF Dangles, HandlesItsOwn, Found

(* A step that stops the process for one of the reasons stated. *)
LEMMA StopHandled ==
  ASSUME Dangles, at # "aborted", at' = "aborted", UNCHANGED <<request, dangling>>,
         starved => starved', misused' # {},
         \A x \in misused' : x \in misused \/ x \in Unguarded'
  PROVE  Dangles'
<1>1. misused \subseteq Unguarded'
  BY UnguardedStays DEF Dangles, HandlesItsOwn
<1>2. misused' \subseteq Unguarded'
  BY <1>1
<1> QED
  BY <1>2 DEF Dangles, HandlesItsOwn, Found

(* Before the first request the invariant holds. *)
LEMMA InitParts == ResponseInit => ResponseParts
<1> SUFFICES ASSUME ResponseInit PROVE ResponseParts
  OBVIOUS
<1>1. ResponseTypeOK
  <2>1. OneReply(reply)
    BY OneStatus DEF ResponseInit
  <2>2. passes \in Seq(Pass)
    BY EmptyPasses DEF ResponseInit
  <2> QED
    BY <2>1, <2>2 DEF ResponseInit, ResponseTypeOK, Place, OneReply, Status
<1>2. OneAtATime /\ Dangles
  BY DEF ResponseInit, Init, OneAtATime, Dangles, HandlesItsOwn
<1>3. Holds
  BY DEF ResponseInit, Holds, Must, May
<1>4. Analyzes /\ Analyzed /\ Turns
  BY DEF ResponseInit, Analyzes, Analyzed, Turns
<1>5. Replies
  BY DEF ResponseInit, Replies, Answered
<1> QED
  BY <1>1, <1>2, <1>3, <1>4, <1>5 DEF ResponseParts

(* A request comes in, after the last one or after the process has been started again. *)
LEMMA BeginStep ==
  ASSUME ResponseIInv, NEW r \in Request, Begin(r)
  PROVE  ResponseParts'
<1> USE DEF ResponseIInv, ResponseParts
<1>1. Replied' \/ (reply' = <<>> /\ at' = "allocate" /\ ~Refused(r))
  BY Statuses, TheReply DEF Begin, Replied, Refusal
<1>2. Replies'
  BY <1>1, TheReply DEF Begin, Replies, Replied, Answered
<1>3. ResponseTypeOK'
  <2>1. OneReply(reply')
    BY <1>1, OneStatus DEF Replied, Status
  <2>2. tag' \subseteq Tag \cup Version
    BY DEF Begin, NewTag, Tag
  <2>3. passes' \in Seq(Pass) /\ passes' = <<>>
    BY EmptyPasses DEF Begin
  <2> QED
    BY <2>1, <2>2, <2>3, SMTT(30), ZenonT(40) DEF Begin, ResponseTypeOK, Place, Status, OneReply
<1>4. OneAtATime'
  BY DEF Begin, OneAtATime, vars, clientVars
<1>5. Holds'
  BY DEF Begin, Holds, Must, May
<1>6. Dangles'
  BY DEF Begin, Dangles, HandlesItsOwn
<1>7. Analyzes' /\ Analyzed' /\ Turns'
  BY DEF Begin, Analyzes, Analyzed, Turns
<1> QED
  BY <1>2, <1>3, <1>4, <1>5, <1>6, <1>7

(* json_msg_in is there, or the request ends at "clean" without memory. *)
LEMMA AllocateStep ==
  ASSUME ResponseIInv, Allocate
  PROVE  ResponseParts'
<1> USE DEF ResponseIInv, ResponseParts
<1>1. reply = <<>> /\ request # <<>> /\ ~Refused(request[1])
  BY DEF Allocate, Replies, OneAtATime
<1>2. Replied' \/ (reply' = <<>> /\ at' \in {"headers", "read"})
  BY <1>1, Statuses, TheReply DEF Allocate, Replied, Give
<1>3. Replies'
  BY <1>1, <1>2, TheReply DEF Allocate, Replies, Replied, Answered
<1>4. ResponseTypeOK'
  <2>1. OneReply(reply')
    BY <1>2, OneStatus DEF Replied, Status
  <2> QED
    BY <2>1, SMTT(30), ZenonT(40) DEF Allocate, ResponseTypeOK, Place, Status, OneReply, Object
<1>5. OneAtATime'
  BY <1>1 DEF Allocate, OneAtATime, vars, clientVars
<1>6. Holds'
  BY DEF Allocate, Holds, Must, May, Owned
<1>7. Dangles'
  BY StillHandled DEF Allocate
<1>8. Analyzes'
  BY DEF Allocate, Analyzes
<1>9. Analyzed'
  <2>1. at' = "headers" => told' = {} /\ tag' = NewTag /\ request'[1].length = 0
    BY DEF Allocate, Analyzes
  <2>2. at' \in {"headers", "read", "clean"}
    BY DEF Allocate
  <2> QED
    BY <2>1, <2>2 DEF Analyzed, Known_Tag, Tells
<1>10. Turns'
  BY DEF Allocate, Turns
<1> QED
  BY <1>3, <1>4, <1>5, <1>6, <1>7, <1>8, <1>9, <1>10

(* "clean" leaves at most what a fetch or a repeated element has left. *)
LEMMA CleanStep ==
  ASSUME ResponseIInv, Clean
  PROVE  ResponseParts'
<1> USE DEF ResponseIInv, ResponseParts
<1>1. Replied /\ request # <<>> /\ UNCHANGED <<reply, request>> /\ at' \in {"idle", "aborted"}
  BY DEF Clean, Replies, OneAtATime
<1>2. Replies'
  BY <1>1 DEF Replies, Replied, Answered
<1>3. ResponseTypeOK'
  <2>1. OneReply(reply')
    BY <1>1, OneStatus DEF Replied, Status
  <2>2. heap' \subseteq Object /\ misused' \subseteq Mishandled
    BY DEF Clean, ResponseTypeOK, Free, Mishandled
  <2>3. tag' \subseteq Tag \cup Version
    BY DEF Clean, ResponseTypeOK, Tag
  <2> QED
    BY <1>1, <2>1, <2>2, <2>3 DEF Clean, ResponseTypeOK, Place, Status, OneReply
<1>4. OneAtATime'
  BY <1>1 DEF Clean, OneAtATime, vars, clientVars
<1>5. Holds'
  <2>1. CASE at' = "idle"
    BY <2>1 DEF Clean, Holds, Must, May, Free, Owned, vars, clientVars
  <2>2. CASE at' = "aborted"
    BY <2>2, <1>3 DEF Holds, Must, May, ResponseTypeOK
  <2> QED
    BY <1>1, <2>1, <2>2
<1>6. Dangles'
  <2>1. UNCHANGED <<request, dangling, starved>>
    BY DEF Clean
  <2>2. CASE at' = "idle"
    <3>1. misused' = misused
      BY <2>2 DEF Clean, Free
    <3> QED
      BY <2>1, <2>2, <3>1, StillHandled DEF Clean
  <2>3. CASE at' = "aborted"
    <3>1. misused' = misused \cup {"jso_http"} /\ starved /\ at = "clean"
      BY <2>3 DEF Clean, Holds
    <3>2. "jso_http" \in Unguarded'
      BY <2>1, <3>1 DEF Unguarded
    <3> QED
      BY <2>1, <2>3, <3>1, <3>2, StopHandled
  <2> QED
    BY <1>1, <2>2, <2>3
<1>7. Analyzes' /\ Analyzed' /\ Turns'
  BY <1>1 DEF Analyzes, Analyzed, Turns
<1> QED
  BY <1>2, <1>3, <1>4, <1>5, <1>6, <1>7

-----------------------------------------------------------------------------
(***************************************************************************)
(* The analysis.                                                           *)
(***************************************************************************)
LEMMA PassSets ==
  /\ Seq(Element \X {""}) \subseteq Seq(Pass)
  /\ Seq(Type \X Version) \subseteq Seq(Pass)
<1>1. Element \X {""} \subseteq Pass /\ Type \X Version \subseteq Pass
  BY DEF Pass
<1>2. ASSUME NEW A, NEW B, A \subseteq B, NEW s \in Seq(A) PROVE s \in Seq(B)
  BY <1>2
<1> QED
  BY <1>1, <1>2

(* The document is read, or the analysis ends where it begins. *)
LEMMA ReadStep ==
  ASSUME ResponseIInv, Read
  PROVE  ResponseParts'
<1> USE DEF ResponseIInv, ResponseParts
<1>1. reply = <<>> /\ request # <<>> /\ UNCHANGED <<reply, request>>
      /\ ~Refused(request[1]) /\ at' \in {"analyze", "headers"}
  BY DEF Read, Replies, OneAtATime
<1>2. Replies'
  BY <1>1 DEF Replies, Answered
<1>3. ResponseTypeOK'
  <2>1. passes' \in Seq(Pass) /\ (at' = "headers" => passes' = <<>>)
    <3>1. TypePasses \in Seq(Pass)
      BY PassSets, TypePassesAre
    <3>2. passes = <<>> /\ passes \in Seq(Pass)
      BY DEF Read, ResponseTypeOK
    <3> QED
      BY <3>1, <3>2 DEF Read
  <2>2. tag' \subseteq Tag \cup Version
    BY DEF Read, Tag
  <2>3. heap' \subseteq Object
    BY DEF Read, ResponseTypeOK, Object, Analysis
  <2>4. starved' \in BOOLEAN
    BY <1>1, Requests, RequestAssumption DEF Read, ResponseTypeOK
  <2> QED
    BY <1>1, <2>1, <2>2, <2>3, <2>4 DEF Read, ResponseTypeOK, Place
<1>4. OneAtATime'
  BY <1>1 DEF Read, OneAtATime, vars, clientVars
<1>5. Holds'
  BY DEF Read, Holds, Must, May, Analysis
<1>6. Dangles'
  <2>1. starved => starved'
    BY Zenon DEF Read
  <2> QED
    BY <2>1, <1>1, StillHandled DEF Read
<1>7. Analyzes'
  <2>1. CASE at' = "analyze"
    <3>1. /\ request'[1].doc.readable /\ request'[1].length # 0
          /\ told' = {} /\ dangling' = {} /\ passes' = TypePasses /\ tag' = {"XML_CWMP_NONE"}
      BY <2>1 DEF Read, Analyzes
    <3>2. TypePasses # <<>> /\ Len(TypePasses) = 9
      BY TypePassesAre
    <3>3. EndOf(TypePasses, TypePasses)
      BY TypePassesAre, AllLeft
    <3>4. LookingForTypes'
      BY <3>1, <3>2, <3>3, SeenFirst DEF LookingForTypes
    <3> QED
      BY <2>1, <3>1, <3>4 DEF Analyzes
  <2>2. CASE at' = "headers"
    BY <2>2 DEF Analyzes
  <2> QED
    BY <1>1, <2>1, <2>2
<1>8. Analyzed'
  <2>1. CASE at' = "headers" /\ ~starved'
    <3>1. ~request'[1].doc.readable /\ tag' = {"XML_CWMP_NONE"} /\ told' = {}
          /\ request'[1].length # 0
      BY <2>1 DEF Read, Analyzes
    <3> QED
      BY <2>1, <3>1 DEF Analyzed, Known_Tag, Tells
  <2> QED
    BY <1>1, <2>1 DEF Analyzed
<1>9. Turns'
  BY <1>1 DEF Turns
<1> QED
  BY <1>2, <1>3, <1>4, <1>5, <1>6, <1>7, <1>8, <1>9

(* The error label releases what the analysis holds. *)
LEMMA AnalysisFailsStep ==
  ASSUME ResponseIInv, AnalysisFails
  PROVE  ResponseParts'
<1> USE DEF ResponseIInv, ResponseParts
<1>1. reply = <<>> /\ request # <<>> /\ UNCHANGED <<reply, request>>
      /\ ~Refused(request[1]) /\ at' = "headers" /\ starved'
  BY DEF AnalysisFails, Replies, OneAtATime
<1>2. Replies' /\ Analyzes' /\ Analyzed' /\ Turns'
  BY <1>1 DEF Replies, Answered, Analyzes, Analyzed, Turns
<1>3. ResponseTypeOK'
  BY EmptyPasses DEF AnalysisFails, Free, ResponseTypeOK, Place, Object, Analysis, Mishandled
<1>4. OneAtATime'
  BY <1>1 DEF AnalysisFails, OneAtATime, vars, clientVars
<1>5. Holds'
  BY DEF AnalysisFails, Free, Holds, Must, May, Analysis
<1>6. Dangles'
  <2>1. misused' = misused
    BY DEF AnalysisFails, Free, Holds, Must
  <2> QED
    BY <2>1, <1>1, StillHandled DEF AnalysisFails
<1> QED
  BY <1>1, <1>2, <1>3, <1>4, <1>5, <1>6

(* A pass for a type adds its tags; after the last one the tag is complete. *)
LEMMA TypePassStep ==
  ASSUME ResponseIInv, TypePass
  PROVE  ResponseParts'
<1> USE DEF ResponseIInv, ResponseParts
<1> DEFINE doc == request[1].doc
           p == Head(passes)
<1>1. reply = <<>> /\ request # <<>> /\ UNCHANGED <<reply, request, at>>
      /\ ~Refused(request[1]) /\ at = "analyze" /\ request[1] \in Request
  BY Requests DEF TypePass, Replies, OneAtATime
<1>2. Replies' /\ Analyzed' /\ Turns'
  BY <1>1 DEF Replies, Answered, Analyzed, Turns
<1>3. OneAtATime' /\ Holds' /\ Dangles'
  <2>1. OneAtATime' /\ Holds'
    BY <1>1 DEF TypePass, OneAtATime, vars, clientVars, Holds
  <2>2. Dangles'
    BY <1>1, StillHandled DEF TypePass
  <2> QED
    BY <2>1, <2>2
<1>4. LookingForTypes
  <2>1. SUFFICES ASSUME LookingForElements PROVE FALSE
    BY <1>1 DEF Analyzes
  <2>2. PICK all : /\ all = Extractions(tag) /\ all \in Seq(Element \X {""})
                   /\ \A i \in 1..Len(all) : all[i] \in Element \X {""}
    BY ExtractionsAre
  <2>3. passes \in Seq(Pass) /\ passes # <<>> /\ EndOf(passes, all)
    BY <2>1, <2>2 DEF TypePass, ResponseTypeOK, LookingForElements
  <2>4. all \in Seq(Pass)
    BY <2>2, PassSets
  <2>5. p \in Element \X {""}
    <3>1. PICK i : i \in 1..Len(all) /\ p = all[i]
      BY <2>3, <2>4, OneLess
    <3> QED
      BY <3>1, <2>2
  <2>6. p[1] \in Element /\ p[1] \in Type
    BY <2>5 DEF TypePass
  <2> QED
    BY <2>6, ElementsAreNotTypes
<1>5. /\ passes \in Seq(Pass) /\ passes # <<>> /\ EndOf(passes, TypePasses)
      /\ tag = Seen(doc, 9 - Len(passes)) /\ told = {} /\ dangling = {}
      /\ TypePasses \in Seq(Pass) /\ Len(TypePasses) = 9
  BY <1>4, PassSets, TypePassesAre DEF LookingForTypes, ResponseTypeOK
<1>6. PICK l \in Nat, m \in 1..9 :
        /\ l = Len(Tail(passes)) /\ Len(passes) = l + 1 /\ m = 9 - l
        /\ p = TypePasses[m] /\ Tail(passes) \in Seq(Pass)
        /\ EndOf(Tail(passes), TypePasses)
  <2>1. PICK l : l = Len(Tail(passes))
    OBVIOUS
  <2>2. /\ Tail(passes) \in Seq(Pass) /\ Len(passes) \in Nat \ {0} /\ l = Len(passes) - 1
        /\ p = TypePasses[9 - l] /\ 9 - l \in 1..9
        /\ EndOf(Tail(passes), TypePasses)
    <3>1. /\ Tail(passes) \in Seq(Pass) /\ EndOf(Tail(passes), TypePasses)
          /\ Len(passes) \in Nat \ {0} /\ Len(Tail(passes)) = Len(passes) - 1
          /\ Head(passes) = TypePasses[Len(TypePasses) - Len(Tail(passes))]
          /\ Len(TypePasses) - Len(Tail(passes)) \in 1..Len(TypePasses)
      BY <1>5, OneLess, SMTT(30), ZenonT(40)
    <3> QED
      BY <3>1, <2>1, <1>5
  <2>3. l \in Nat /\ Len(passes) = l + 1
    <3>1. PICK k : k = Len(passes)
      OBVIOUS
    <3>2. k \in Nat \ {0} /\ l = k - 1
      BY <2>2, <3>1
    <3> QED
      BY <3>1, <3>2
  <2> QED
    BY <2>1, <2>2, <2>3
<1>7. tag' = Seen(doc, m)
  <2>1. 9 - Len(passes) \in Nat /\ m = (9 - Len(passes)) + 1
    <3>1. 9 - (l + 1) \in Nat /\ m = (9 - (l + 1)) + 1
      BY <1>6
    <3> QED
      BY <3>1, <1>6
  <2>2. Seen(doc, m) = IF p \in doc.body THEN tag \cup {TypeTag(p[1]), p[2]} ELSE tag
    <3>1. PICK n : n = 9 - Len(passes)
      OBVIOUS
    <3>2. n \in Nat /\ m = n + 1
      BY <2>1, <3>1
    <3>3. Seen(doc, m) = IF TypePasses[m] \in doc.body
            THEN Seen(doc, n) \cup {TypeTag(TypePasses[m][1]), TypePasses[m][2]}
            ELSE Seen(doc, n)
      BY <3>2, SeenNext
    <3> HIDE DEF doc, p
    <3>4. p = TypePasses[m] /\ tag = Seen(doc, n)
      BY <3>1, <1>5, <1>6
    <3> QED
      BY <3>3, <3>4
  <2> QED
    BY <2>2 DEF TypePass
<1>8. UNCHANGED <<told, dangling, heap, misused, starved>>
  BY DEF TypePass
<1>9. passes' = IF l > 0 THEN Tail(passes) ELSE Extractions(tag')
  <2>1. Len(passes) > 1 <=> l > 0
    BY <1>6
  <2> QED
    BY <2>1 DEF TypePass
<1>10. Analyzes'
  <2>1. CASE l > 0
    <3>1. Tail(passes) # <<>>
      <4>1. Len(<<>>) = 0
        OBVIOUS
      <4> QED
        <5>1. l = Len(Tail(passes))
          BY <1>6
        <5>2. l > 0 => l # 0
          OBVIOUS
        <5> QED
          BY <4>1, <5>1, <5>2, <2>1, Zenon
    <3>2. LookingForTypes'
      BY <2>1, <3>1, <1>1, <1>5, <1>6, <1>7, <1>8, <1>9 DEF LookingForTypes
    <3> QED
      BY <3>2, <1>1 DEF Analyzes
  <2>2. CASE l = 0
    <3>1. m = 9 /\ passes' = Extractions(tag')
      <4>1. m = 9 - l
        BY <1>6
      <4> QED
        BY <4>1, <2>2, <1>9
    <3>2. PICK all : all = Extractions(tag') /\ all \in Seq(Element \X {""})
      BY ExtractionsAre
    <3>3. EndOf(all, all) /\ Past(all, all) = {}
      BY <3>2, AllLeft
    <3>4. UNION {Entries(e)' : e \in {}} = {}
      OBVIOUS
    <3>5. LookingForElements'
      BY <3>1, <3>2, <3>3, <3>4, <1>1, <1>5, <1>7, <1>8 DEF LookingForElements
    <3> QED
      BY <3>5, <1>1 DEF Analyzes
  <2> QED
    BY <2>1, <2>2, <1>6
<1>11. ResponseTypeOK'
  <2>1. passes' \in Seq(Pass)
    BY <1>6, <1>9, ExtractionsAre, PassSets
  <2>2. tag' \subseteq Tag \cup Version
    <3>1. p \in doc.body => p \in Type \X Version
      BY <1>1, RequestAssumption
    <3>2. p \in Type \X Version => TypeTag(p[1]) \in Tag /\ p[2] \in Version
      BY DEF TypeTag, Type, Tag
    <3> QED
      BY <3>1, <3>2 DEF TypePass, ResponseTypeOK
  <2> QED
    BY <1>1, <1>8, <2>1, <2>2 DEF ResponseTypeOK
<1> QED
  BY <1>2, <1>3, <1>10, <1>11

(* Where an element is looked for. *)
LEMMA ElementsLeft ==
  ASSUME ResponseIInv, at = "analyze", passes # <<>>, Head(passes)[1] \in Element
  PROVE  /\ LookingForElements
         /\ Tail(passes) \in Seq(Pass)
         /\ Len(passes) \in Nat \ {0} /\ Len(Tail(passes)) = Len(passes) - 1
         /\ EndOf(Tail(passes), Extractions(tag))
         /\ Past(Tail(passes), Extractions(tag)) =
              Past(passes, Extractions(tag)) \cup {Head(passes)[1]}
         /\ Head(passes)[1] = "InstanceNumber" => Len(Tail(passes)) = 1
<1> USE DEF ResponseIInv, ResponseParts
<1>1. passes \in Seq(Pass)
  BY DEF ResponseTypeOK
<1>2. LookingForElements
  <2>1. SUFFICES ASSUME LookingForTypes PROVE FALSE
    BY DEF Analyzes
  <2>2. TypePasses \in Seq(Pass) /\ EndOf(passes, TypePasses) /\ Len(TypePasses) = 9
    BY <2>1, PassSets, TypePassesAre DEF LookingForTypes
  <2>3. PICK i : i \in 1..9 /\ Head(passes) = TypePasses[i]
    BY <1>1, <2>2, OneLess
  <2>4. Head(passes)[1] \in Type
    BY <2>3, TypePassesAre
  <2> QED
    BY <2>4, ElementsAreNotTypes
<1>3. PICK all : /\ all = Extractions(tag) /\ all \in Seq(Pass)
                 /\ \A i \in 1..Len(all) : all[i][1] = "InstanceNumber" => i = Len(all) - 1
                 /\ Len(all) \in 1..6
  BY ExtractionsAre, PassSets
<1>4. EndOf(passes, all)
  BY <1>2, <1>3 DEF LookingForElements
<1>5. /\ Tail(passes) \in Seq(Pass) /\ EndOf(Tail(passes), all)
      /\ Len(passes) \in Nat \ {0} /\ Len(Tail(passes)) = Len(passes) - 1
      /\ Head(passes) = all[Len(all) - Len(Tail(passes))]
      /\ Len(all) - Len(Tail(passes)) \in 1..Len(all)
      /\ Past(Tail(passes), all) = Past(passes, all) \cup {Head(passes)[1]}
  BY <1>1, <1>3, <1>4, OneLess
<1>6. Head(passes)[1] = "InstanceNumber" => Len(Tail(passes)) = 1
  <2>1. PICK n, l : n = Len(all) /\ l = Len(Tail(passes))
    OBVIOUS
  <2>2. Head(passes)[1] = "InstanceNumber" => n - l = n - 1
    BY <2>1, <1>3, <1>5
  <2>3. n \in Nat /\ l \in Nat
    BY <2>1, <1>3, <1>5
  <2> QED
    BY <2>1, <2>2, <2>3
<1> QED
  BY <1>2, <1>3, <1>5, <1>6

(* A pass for an element adds what the backend is told of it. *)
LEMMA ExtractionPassStep ==
  ASSUME ResponseIInv, ExtractionPass
  PROVE  ResponseParts'
<1> USE DEF ResponseIInv, ResponseParts
<1> DEFINE e == Head(passes)[1]
<1>1. reply = <<>> /\ request # <<>> /\ UNCHANGED <<reply, request, at, tag, misused, starved>>
      /\ ~Refused(request[1]) /\ at = "analyze" /\ request[1] \in Request
      /\ passes # <<>> /\ e \in Element /\ passes' = Tail(passes)
  BY Requests DEF ExtractionPass, Replies, OneAtATime
<1>2. Replies' /\ Analyzed' /\ Turns'
  BY <1>1 DEF Replies, Answered, Analyzed, Turns
<1>3. /\ told' = told \cup Entries(e)
      /\ dangling' = IF e = "InstanceNumber" /\ Found(e) THEN {"content"} ELSE dangling
      /\ heap' = heap \cup Overwritten(e)
  BY DEF ExtractionPass
<1>4. Overwritten(e) \subseteq {"content"}
  BY DEF Overwritten
<1>5. OneAtATime'
  BY <1>1 DEF ExtractionPass, OneAtATime, vars, clientVars
<1>6. Holds'
  BY <1>1, <1>3, <1>4 DEF Holds, Must, May
<1>7. Dangles'
  <2>1. misused' \subseteq Unguarded' /\ misused' \cap {"file_type", "parameters"} = {}
    BY <1>1, UnguardedStays DEF Dangles, HandlesItsOwn
  <2>2. dangling' # {} => request' # <<>> /\ Found("InstanceNumber")'
    BY <1>1, <1>3 DEF Dangles, Found
  <2> QED
    BY <2>1, <2>2, <1>1 DEF Dangles, HandlesItsOwn
<1>8. /\ LookingForElements /\ passes' \in Seq(Pass)
      /\ Len(passes) \in Nat \ {0} /\ Len(passes') = Len(passes) - 1
      /\ EndOf(passes', Extractions(tag))
      /\ Past(passes', Extractions(tag)) = Past(passes, Extractions(tag)) \cup {e}
      /\ e = "InstanceNumber" => Len(passes') = 1
  BY <1>1, ElementsLeft
<1>9. LookingForElements'
  <2>1. EndOf(passes', Extractions(tag'))
    BY <1>1, <1>8
  <2>2. tag' = Seen(request'[1].doc, 9)
    BY <1>1, <1>8 DEF LookingForElements
  <2>3. ~starved' /\ ~StatusMissing' =>
          told' = UNION {Entries(x)' : x \in Past(passes', Extractions(tag'))}
    <3>1. SUFFICES ASSUME ~starved, ~StatusMissing
                   PROVE  told' = UNION {Entries(x)' : x \in Past(passes', Extractions(tag))}
      BY <1>1 DEF StatusMissing, Found
    <3>2. \A x : Entries(x)' = Entries(x)
      BY <1>1 DEF Entries, Found
    <3>3. PICK q : q = Past(passes, Extractions(tag))
      OBVIOUS
    <3>4. told = UNION {Entries(x) : x \in q}
      BY <3>1, <3>3, <1>8 DEF LookingForElements
    <3> HIDE DEF e
    <3>5. told' = UNION {Entries(x) : x \in q \cup {e}}
      BY <3>4, <1>3
    <3>6. told' = UNION {Entries(x)' : x \in q \cup {e}}
      BY <3>2, <3>5
    <3> QED
      BY <3>3, <3>6, <1>8
  <2>4. dangling' # {} => Len(passes') <= 1
    <3>1. PICK k, l : k = Len(passes) /\ l = Len(passes')
      OBVIOUS
    <3>2. k \in Nat \ {0} /\ l = k - 1 /\ (e = "InstanceNumber" => l = 1)
          /\ (dangling # {} => k <= 1)
      BY <3>1, <1>8 DEF LookingForElements
    <3>3. dangling' # {} => l <= 1
      BY <3>2, <1>3
    <3> QED
      BY <3>1, <3>3
  <2> QED
    BY <2>1, <2>2, <2>3, <2>4 DEF LookingForElements
<1>10. Analyzes'
  BY <1>1, <1>9 DEF Analyzes
<1>11. ResponseTypeOK'
  <2>1. passes' \in Seq(Pass) /\ heap' \subseteq Object /\ dangling' \subseteq {"content"}
    BY <1>3, <1>4, <1>8, SMTT(30), ZenonT(40) DEF ResponseTypeOK, Object
  <2> QED
    BY <1>1, <2>1 DEF ResponseTypeOK
<1> QED
  BY <1>2, <1>5, <1>6, <1>7, <1>10, <1>11

(* A response without its Status: the only read of what has been released. *)
LEMMA StaleStatusStep ==
  ASSUME ResponseIInv, StaleStatus
  PROVE  ResponseParts'
<1> USE DEF ResponseIInv, ResponseParts
<1>1. reply = <<>> /\ request # <<>> /\ UNCHANGED <<reply, request, tag, dangling, heap, starved>>
      /\ ~Refused(request[1]) /\ at = "analyze" /\ at' \in {"analyze", "aborted"}
      /\ request[1] \in Request /\ passes # <<>> /\ passes' = Tail(passes)
      /\ dangling # {} /\ "Status" \in Element /\ Head(passes)[1] = "Status"
  BY Requests DEF StaleStatus, Replies, OneAtATime, Element
<1>2. Replies' /\ Analyzed' /\ Turns'
  BY <1>1 DEF Replies, Answered, Analyzed, Turns
<1>3. misused' = misused \cup dangling /\ dangling = {"content"}
  BY <1>1 DEF StaleStatus, ResponseTypeOK
<1>4. OneAtATime'
  BY <1>1 DEF StaleStatus, OneAtATime, vars, clientVars
<1>5. StatusMissing /\ StatusMissing'
  BY <1>1 DEF StaleStatus, StatusMissing, Dangles, Found
<1>6. Dangles'
  <2>1. "content" \in Unguarded'
    BY <1>1, <1>5 DEF Unguarded
  <2>2. misused \subseteq Unguarded' /\ misused \cap {"file_type", "parameters"} = {}
    BY <1>1, UnguardedStays DEF Dangles, HandlesItsOwn
  <2>3. misused' \subseteq Unguarded' /\ misused' \cap {"file_type", "parameters"} = {}
        /\ misused' # {}
    BY <2>1, <2>2, <1>3
  <2> QED
    BY <2>3, <1>1 DEF Dangles, HandlesItsOwn, Found
<1>7. /\ LookingForElements /\ passes' \in Seq(Pass)
      /\ Len(passes) \in Nat \ {0} /\ Len(passes') = Len(passes) - 1
      /\ EndOf(passes', Extractions(tag))
  BY <1>1, ElementsLeft
<1>8. Len(passes') = 0 /\ passes' = <<>>
  <2>1. PICK k, l : k = Len(passes) /\ l = Len(passes')
    OBVIOUS
  <2>2. k \in Nat \ {0} /\ l = k - 1 /\ k <= 1
    BY <2>1, <1>1, <1>7 DEF LookingForElements
  <2>3. l = 0
    BY <2>2
  <2>4. Len(passes') = 0
    BY <2>1, <2>3
  <2> QED
    BY <2>4, <1>7, EmptySeq
<1>9. Analyzes'
  <2>1. CASE at' = "analyze"
    <3>1. LookingForElements'
      BY <1>1, <1>5, <1>7, <1>8 DEF LookingForElements
    <3> QED
      BY <3>1, <2>1, <1>1 DEF Analyzes
  <2>2. CASE at' = "aborted"
    BY <2>2 DEF Analyzes
  <2> QED
    BY <1>1, <2>1, <2>2
<1>10. ResponseTypeOK'
  BY <1>1, <1>3, <1>7, <1>8 DEF ResponseTypeOK, Object, Mishandled, Place
<1>11. Holds'
  <2>1. CASE at' = "analyze"
    BY <2>1, <1>1, <1>3 DEF Holds, Must, May, Analysis
  <2>2. CASE at' = "aborted"
    BY <2>2, <1>10 DEF Holds, Must, May, ResponseTypeOK
  <2> QED
    BY <1>1, <2>1, <2>2
<1> QED
  BY <1>2, <1>4, <1>6, <1>9, <1>10, <1>11

(* The process stops where something is read that is not there. *)
LEMMA StopStep ==
  ASSUME ResponseIInv, at \in {"analyze", "headers", "create"},
         at' = "aborted", passes' = <<>>,
         UNCHANGED <<vars, request, tag, told, dangling, heap, reply>>,
         UNCHANGED starved \/ starved' = TRUE,
         NEW x \in Mishandled, x \in Unguarded', misused' = misused \cup {x}
  PROVE  ResponseParts'
<1> USE DEF ResponseIInv, ResponseParts
<1>1. reply = <<>> /\ request # <<>> /\ pc = "idle"
  BY DEF Replies, OneAtATime
<1>2. ResponseTypeOK'
  <2>1. passes' \in Seq(Pass) /\ at' \in Place /\ misused' \subseteq Mishandled
    BY EmptyPasses DEF Place, ResponseTypeOK
  <2> QED
    BY <2>1 DEF ResponseTypeOK
<1>3. OneAtATime'
  BY <1>1 DEF OneAtATime, vars, clientVars
<1>4. Holds'
  BY DEF Holds, Must, May, ResponseTypeOK
<1>5. Dangles'
  BY StopHandled
<1>6. Analyzes' /\ Analyzed' /\ Turns'
  BY DEF Analyzes, Analyzed, Turns
<1>7. Replies'
  BY <1>1 DEF Replies, Answered
<1> QED
  BY <1>2, <1>3, <1>4, <1>5, <1>6, <1>7

(* A Name without a value stops the process. *)
LEMMA NullValueStep ==
  ASSUME ResponseIInv, NullValue
  PROVE  ResponseParts'
<1>1. /\ at = "analyze" /\ at' = "aborted" /\ passes' = <<>> /\ ValueMissing
      /\ UNCHANGED <<vars, request, tag, told, dangling, heap, reply, starved>>
      /\ misused' = misused \cup {"value"}
  BY DEF NullValue, Stops
<1>2. request # <<>>
  BY <1>1 DEF ResponseIInv, ResponseParts, OneAtATime
<1>3. "value" \in Mishandled /\ "value" \in Unguarded'
  BY <1>1, <1>2 DEF Mishandled, Unguarded, ValueMissing, Found
<1> QED
  BY <1>1, <1>3, StopStep

(* A content without memory stops the process, or is taken for none. *)
LEMMA ContentFailsStep ==
  ASSUME ResponseIInv, ContentFails
  PROVE  ResponseParts'
<1> USE DEF ResponseIInv, ResponseParts
<1> DEFINE e == Head(passes)[1]
<1>1. reply = <<>> /\ request # <<>> /\ UNCHANGED <<vars, request, tag, reply>>
      /\ ~Refused(request[1]) /\ at = "analyze" /\ request[1] \in Request
      /\ passes # <<>> /\ e \in Element /\ starved' = TRUE
  BY Requests DEF ContentFails, Replies, OneAtATime
<1>2. CASE Stops({"text"}) /\ UNCHANGED <<told, dangling, heap>>
  <2>1. "text" \in Mishandled /\ "text" \in Unguarded'
    BY <1>1 DEF Mishandled, Unguarded
  <2>2. at' = "aborted" /\ passes' = <<>> /\ misused' = misused \cup {"text"}
    BY <1>2 DEF Stops
  <2> QED
    BY <1>1, <1>2, <2>1, <2>2, StopStep
<1>3. CASE /\ dangling' = {} /\ heap' = heap \cup Overwritten(e) /\ passes' = Tail(passes)
           /\ UNCHANGED <<at, misused>>
  <2>1. Replies' /\ Turns'
    BY <1>1, <1>3 DEF Replies, Answered, Turns
  <2>2. OneAtATime'
    BY <1>1, <1>3 DEF OneAtATime, vars, clientVars
  <2>3. Overwritten(e) \subseteq {"content"}
    BY DEF Overwritten
  <2>4. Holds'
    BY <1>1, <1>3, <2>3 DEF Holds, Must, May
  <2>5. Dangles'
    <3>1. misused' \subseteq Unguarded' /\ misused' \cap {"file_type", "parameters"} = {}
      BY <1>1, <1>3, UnguardedStays DEF Dangles, HandlesItsOwn
    <3> QED
      BY <3>1, <1>1, <1>3 DEF Dangles, HandlesItsOwn
  <2>6. /\ LookingForElements /\ passes' \in Seq(Pass)
        /\ EndOf(passes', Extractions(tag))
    BY <1>1, <1>3, ElementsLeft
  <2>7. LookingForElements'
    BY <1>1, <1>3, <2>6 DEF LookingForElements
  <2>8. Analyzes' /\ Analyzed'
    BY <1>1, <1>3, <2>7 DEF Analyzes, Analyzed
  <2>9. ResponseTypeOK'
    <3>1. heap' \subseteq Object
      BY <1>3, <2>3 DEF ResponseTypeOK, Object
    <3> QED
      BY <3>1, <1>1, <1>3, <2>6 DEF ResponseTypeOK
  <2> QED
    BY <2>1, <2>2, <2>4, <2>5, <2>8, <2>9
<1> QED
  BY <1>2, <1>3 DEF ContentFails

(* A document with no type of CWMP says nothing, unknown or not. *)
LEMMA UnknownSaysNothing ==
  Extractions({"XML_CWMP_TYPE_UNKNOWN"}) = Extractions({"XML_CWMP_NONE"})
BY DEF Extractions, IsInform

(* The tag is the one of the document, and the backend is told what is known of it. *)
LEMMA EndOfAnalysisStep ==
  ASSUME ResponseIInv, EndOfAnalysis
  PROVE  ResponseParts'
<1> USE DEF ResponseIInv, ResponseParts
<1>1. reply = <<>> /\ request # <<>> /\ UNCHANGED <<reply, request, passes, told, dangling, starved>>
      /\ ~Refused(request[1]) /\ at = "analyze" /\ at' = "headers" /\ passes = <<>>
  BY DEF EndOfAnalysis, Replies, OneAtATime
<1>2. Replies' /\ Analyzes' /\ Turns'
  BY <1>1 DEF Replies, Answered, Analyzes, Turns
<1>3. OneAtATime'
  BY <1>1 DEF EndOfAnalysis, OneAtATime, vars, clientVars
<1>4. heap' = heap \ Analysis /\ misused' = misused
  BY <1>1 DEF EndOfAnalysis, Free, Holds, Must
<1>5. Holds'
  BY <1>1, <1>4 DEF Holds, Must, May, Analysis
<1>6. Dangles'
  BY <1>1, <1>4, StillHandled
<1>7. tag' = IF tag = {"XML_CWMP_NONE"} THEN {"XML_CWMP_TYPE_UNKNOWN"} ELSE tag
  BY DEF EndOfAnalysis
<1>8. ResponseTypeOK'
  BY <1>1, <1>4, <1>7 DEF ResponseTypeOK, Place, Tag
<1>9. /\ request[1].length # 0 /\ request[1].doc.readable
      /\ tag = Seen(request[1].doc, 9)
      /\ ~starved /\ ~StatusMissing =>
           told = UNION {Entries(e) : e \in Past(<<>>, Extractions(tag))}
  BY <1>1 DEF Analyzes, LookingForTypes, LookingForElements
<1>10. tag' = Known_Tag(request[1])
  BY <1>7, <1>9 DEF Known_Tag
<1>11. ~starved /\ ~StatusMissing => told' = Tells'
  <2>1. UNION {Entries(e)' : e \in Past(<<>>, Extractions(tag'))}
          = UNION {Entries(e) : e \in Past(<<>>, Extractions(tag))}
    <3>1. CASE tag = {"XML_CWMP_NONE"}
      <4>1. Extractions(tag') = Extractions(tag)
        BY <3>1, <1>7, UnknownSaysNothing
      <4>2. \A e : Entries(e)' = Entries(e)
        BY <3>1, <1>1, <1>7 DEF Entries, Found, Version
      <4> QED
        BY <4>1, <4>2
    <3>2. CASE tag # {"XML_CWMP_NONE"}
      <4>1. \A e : Entries(e)' = Entries(e)
        BY <3>2, <1>1, <1>7 DEF Entries, Found
      <4> QED
        BY <3>2, <4>1, <1>7
    <3> QED
      BY <3>1, <3>2
  <2> QED
    BY <2>1, <1>1, <1>9 DEF Tells
<1>12. Analyzed'
  BY <1>1, <1>10, <1>11 DEF Analyzed, StatusMissing, Found
<1> QED
  BY <1>2, <1>3, <1>5, <1>6, <1>8, <1>12

-----------------------------------------------------------------------------
(***************************************************************************)
(* The backend: the notification, the fetch and the calls under way.       *)
(***************************************************************************)
LEMMA NotifyBackendStep ==
  ASSUME ResponseIInv, NotifyBackend
  PROVE  ResponseParts'
<1> USE DEF ResponseIInv, ResponseParts
<1>1. /\ at = "headers" /\ at' = "notify"
      /\ UNCHANGED <<request, tag, passes, told, dangling, heap, misused, starved, reply>>
  BY DEF NotifyBackend
<1>2. ResponseTypeOK' /\ OneAtATime'
  BY <1>1 DEF ResponseTypeOK, Place, OneAtATime
<1>3. Holds' /\ Dangles'
  <2>1. Holds'
    BY <1>1 DEF Holds, Must, May
  <2>2. Dangles'
    BY <1>1, StillHandled
  <2> QED
    BY <2>1, <2>2
<1>4. Analyzes' /\ Turns' /\ Replies'
  BY <1>1 DEF Analyzes, Turns, Replies, Answered
<1>5. Tells' = Tells
  BY <1>1 DEF Tells, Entries, Found
<1>6. Analyzed'
  BY <1>1, <1>5 DEF Analyzed, StatusMissing, Found
<1> QED
  BY <1>2, <1>3, <1>4, <1>6

(* A notification that there is no memory for stops the process. *)
LEMMA NotificationFailsStep ==
  ASSUME ResponseIInv, NotificationFails
  PROVE  ResponseParts'
<1>1. /\ at = "headers" /\ at' = "aborted" /\ passes' = <<>> /\ starved' = TRUE
      /\ UNCHANGED <<vars, request, tag, told, dangling, heap, reply>>
      /\ misused' = misused \cup {"text"}
  BY DEF NotificationFails, Stops
<1>2. "text" \in Mishandled /\ "text" \in Unguarded'
  BY <1>1 DEF Mishandled, Unguarded
<1> QED
  BY <1>1, <1>2, StopStep

\* While the AMQP client works, or the backend queues a message.
LEMMA WaitingStep ==
  ASSUME ResponseIInv, UNCHANGED responseVars, pc # "idle" \/ UNCHANGED clientVars
  PROVE  ResponseParts'
<1> USE DEF ResponseIInv, ResponseParts, responseVars
<1>1. at \in {"notify", "fetch"} \/ UNCHANGED <<pc, rc, data>>
  BY DEF OneAtATime, clientVars
<1>2. ResponseTypeOK' /\ OneAtATime'
  BY <1>1 DEF ResponseTypeOK, OneAtATime
<1>3. Holds'
  BY <1>1 DEF Holds, Must, May
<1>4. Dangles'
  <2>1. CASE at = "aborted"
    <3>1. Unguarded' = Unguarded
      BY <1>1, <2>1 DEF Unguarded, StatusMissing, ValueMissing, Found, AsksFor
    <3> QED
      BY <3>1 DEF Dangles, HandlesItsOwn, Found
  <2>2. CASE at # "aborted"
    BY <2>2, StillHandled
  <2> QED
    BY <2>1, <2>2
<1>5. Analyzes'
  <2>1. LookingForTypes => LookingForTypes'
    BY DEF LookingForTypes
  <2>2. \A e : Entries(e)' = Entries(e)
    BY DEF Entries, Found
  <2>3. LookingForElements => LookingForElements'
    BY <2>2 DEF LookingForElements, StatusMissing, Found
  <2> QED
    BY <2>1, <2>3 DEF Analyzes
<1>6. Tells' = Tells
  BY DEF Tells, Entries, Found
<1>7. Analyzed'
  BY <1>6 DEF Analyzed, StatusMissing, Found
<1>8. Turns'
  BY <1>1 DEF Turns
<1>9. Replies'
  BY DEF Replies, Replied, Answered
<1> QED
  BY <1>2, <1>3, <1>4, <1>5, <1>7, <1>8, <1>9

(* The steps of the AMQP client are steps of waiting. *)
LEMMA AmqpStepStep ==
  ASSUME ResponseIInv, AmqpStep
  PROVE  ResponseParts'
<1>1. pc # "idle" /\ UNCHANGED responseVars
  BY SetupIs DEF AmqpStep, SetupStep, SetupStage, Publish, GetReply, ContentHeader, BodyFrame, Close
<1> QED
  BY <1>1, WaitingStep

(* The rungs after amqp_notify. *)
LEMMA NotifiedStep ==
  ASSUME ResponseIInv, Notified
  PROVE  ResponseParts'
<1> USE DEF ResponseIInv, ResponseParts
<1>1. /\ at = "notify" /\ pc = "idle" /\ request # <<>> /\ reply = <<>> /\ ~Refused(request[1])
      /\ UNCHANGED <<request, tag, passes, told, dangling, heap, misused, starved>>
  BY DEF Notified, Replies, OneAtATime
<1>2. \/ Replied' /\ reply' # <<>> /\ at' = "clean" /\ UNCHANGED vars
      \/ NeedsFetch(request[1], tag) /\ at' = "fetch" /\ UNCHANGED reply
  BY <1>1, Statuses, TheReply DEF Notified, Replied, Give
<1>3. Replies'
  BY <1>1, <1>2 DEF Replies, Replied, Answered
<1>4. ResponseTypeOK'
  <2>1. OneReply(reply')
    BY <1>1, <1>2, OneStatus DEF Replied, Status
  <2> QED
    BY <1>1, <1>2, <2>1 DEF ResponseTypeOK, Place, Status, OneReply
<1>5. OneAtATime'
  BY <1>1, <1>2 DEF OneAtATime, vars, clientVars
<1>6. Holds'
  BY <1>1, <1>2 DEF Holds, Must, May, Owned
<1>7. Dangles'
  BY <1>1, <1>2, StillHandled
<1>8. Analyzes'
  BY <1>1, <1>2 DEF Analyzes
<1>9. Analyzed'
  BY <1>1, <1>2 DEF Analyzed, StatusMissing, Found
<1>10. Turns'
  BY <1>1, <1>2 DEF Turns
<1> QED
  BY <1>3, <1>4, <1>5, <1>6, <1>7, <1>8, <1>9, <1>10

(* The rungs after amqp_fetch_pending. *)
LEMMA FetchedStep ==
  ASSUME ResponseIInv, Fetched
  PROVE  ResponseParts'
<1> USE DEF ResponseIInv, ResponseParts
<1>1. /\ at = "fetch" /\ pc = "idle" /\ request # <<>> /\ reply = <<>> /\ ~Refused(request[1])
      /\ heap' = heap \cup FromCall /\ starved' = (starved \/ short)
      /\ UNCHANGED <<vars, request, tag, passes, told, dangling, misused>>
  BY DEF Fetched, Replies, OneAtATime
<1>2. UNCHANGED <<pc, rc, data, short>>
  BY <1>1 DEF vars, clientVars
<1>3. \/ Replied' /\ reply' # <<>> /\ at' = "clean" /\ (rc # 0 \/ data = <<>>)
      \/ at' = "parse" /\ rc = 0 /\ data # <<>> /\ UNCHANGED reply
  BY <1>1, Statuses, TheReply DEF Fetched, FetchError, Replied, Give
<1>4. Replies'
  BY <1>1, <1>3 DEF Replies, Replied, Answered
<1>5. FromCall \subseteq {"msg.data", "copies"} /\ ("msg.data" \in FromCall <=> data # <<>>)
  BY DEF FromCall
<1>6. ResponseTypeOK'
  <2>1. OneReply(reply')
    BY <1>1, <1>3, OneStatus DEF Replied, Status
  <2>2. starved' \in BOOLEAN
    BY <1>1 DEF ResponseTypeOK, IInv, TypeOK
  <2>3. at' \in Place  BY <1>3 DEF Place
  <2>4. heap' \subseteq Object  BY <1>1, <1>5 DEF ResponseTypeOK, Object
  <2>5. at' \notin {"analyze", "create"}  BY <1>3
  <2> QED
    BY <1>1, <2>1, <2>2, <2>3, <2>4, <2>5 DEF ResponseTypeOK, Status, OneReply
<1>7. OneAtATime'
  BY <1>1, <1>2, <1>3 DEF OneAtATime
<1>8. Holds'
  <2>1. heap \subseteq {"json_msg_in", "content"} /\ "json_msg_in" \in heap
    BY <1>1 DEF Holds, Must, May
  <2>2. CASE at' = "clean" /\ (rc # 0 \/ data = <<>>)
    BY <2>1, <2>2, <1>1, <1>2, <1>5 DEF Holds, Must, May, Owned
  <2>3. CASE at' = "parse" /\ data # <<>>
    BY <2>1, <2>3, <1>1, <1>2, <1>5 DEF Holds, Must, May
  <2> QED
    BY <2>2, <2>3, <1>3
<1>9. Dangles'
  BY <1>1, <1>3, StillHandled
<1>10. Analyzes'
  BY <1>1, <1>3 DEF Analyzes
<1>11. Analyzed'
  BY <1>1, <1>3 DEF Analyzed
<1>12. at' = "parse" /\ ~starved' => data'[1] \in Body
  <2> SUFFICES ASSUME at' = "parse", ~short PROVE data[1] \in Body
    BY <1>1, <1>2
  <2>1. taken # <<>> /\ data = taken
    BY <1>1, <1>3 DEF IInv, Complete
  <2>2. taken \in {<<>>} \cup {<<b>> : b \in Body}
    BY DEF IInv, TypeOK
  <2> QED
    BY <2>1, <2>2
<1>13. Turns'
  BY <1>1, <1>2, <1>3, <1>12 DEF Turns
<1> QED
  BY <1>4, <1>6, <1>7, <1>8, <1>9, <1>10, <1>11, <1>13

-----------------------------------------------------------------------------
(***************************************************************************)
(* The message and the document made of it.                                *)
(***************************************************************************)
LEMMA ParseStep ==
  ASSUME ResponseIInv, Parse
  PROVE  ResponseParts'
<1> USE DEF ResponseIInv, ResponseParts
<1>1. /\ at = "parse" /\ request # <<>> /\ reply = <<>> /\ ~Refused(request[1])
      /\ UNCHANGED <<vars, request, tag, passes, told, dangling, misused>>
  BY DEF Parse, Replies, OneAtATime
<1>2. UNCHANGED <<pc, rc, data>>
  BY <1>1 DEF vars, clientVars
<1>3. \/ /\ at' = "create" /\ Readable /\ reply' = <<>> /\ starved' = starved
         /\ heap' = (heap \ {"msg.data"}) \cup {"json_msg_out"}
      \/ /\ at' = "clean" /\ Replied' /\ reply' # <<>> /\ starved' = (starved \/ Readable)
         /\ heap' = heap \ {"msg.data"}
  BY <1>1, Statuses, TheReply, SMTT(30) DEF Parse, Replied, Give
<1>4. Replies'
  BY <1>1, <1>3 DEF Replies, Replied, Answered
<1>5. ResponseTypeOK'
  <2>1. OneReply(reply')
    BY <1>3, OneStatus DEF Replied, Status
  <2>2. starved' \in BOOLEAN
    BY <1>3, SMTT(30), ZenonT(40) DEF ResponseTypeOK, Readable
  <2> QED
    BY <1>1, <1>3, <2>1, <2>2, SMTT(30), ZenonT(40) DEF ResponseTypeOK, Place, Status, OneReply, Object
<1>6. OneAtATime'
  BY <1>1, <1>2, <1>3 DEF OneAtATime
<1>7. Holds'
  BY <1>1, <1>2, <1>3 DEF Holds, Must, May, Owned, Template
<1>8. Dangles'
  <2>1. starved => starved'
    BY <1>3, Zenon
  <2> QED
    BY <2>1, <1>1, <1>3, StillHandled
<1>9. Analyzes'
  BY <1>1, <1>3 DEF Analyzes
<1>10. Analyzed'
  BY <1>1, <1>3 DEF Analyzed
<1>11. "doc" \notin heap'
  BY <1>1, <1>3 DEF Holds, May
<1>12. passes' = <<>>
  BY <1>1 DEF ResponseTypeOK
<1>13. Turns'
  BY <1>1, <1>2, <1>3, <1>11, <1>12 DEF Turns, Readable
<1> QED
  BY <1>4, <1>5, <1>6, <1>7, <1>8, <1>9, <1>10, <1>13

(* A sequence of at most two, put together from two of at most one. *)
LEMMA TwoOf ==
  ASSUME NEW S, NEW x \in S, NEW y \in S
  PROVE  <<x>> \o <<y>> = <<x, y>>
<1>1. /\ <<x>> \in Seq(S) /\ Len(<<x>>) = 1 /\ <<x>>[1] = x
      /\ <<y>> \in Seq(S) /\ Len(<<y>>) = 1 /\ <<y>>[1] = y
      /\ <<x, y>> \in Seq(S) /\ Len(<<x, y>>) = 2
      /\ <<x, y>>[1] = x /\ <<x, y>>[2] = y
  BY ShortSequences
<1>2. PICK a, b, t : a = <<x>> /\ b = <<y>> /\ t = <<x, y>>
  OBVIOUS
<1>3. PICK s : s = a \o b
  OBVIOUS
<1>4. /\ a \in Seq(S) /\ Len(a) = 1 /\ a[1] = x
      /\ b \in Seq(S) /\ Len(b) = 1 /\ b[1] = y
      /\ t \in Seq(S) /\ Len(t) = 2 /\ t[1] = x /\ t[2] = y
  BY <1>1, <1>2
<1>5. s \in Seq(S) /\ Len(s) = 2 /\ s[1] = x /\ s[2] = y
  <2>1. /\ s \in Seq(S) /\ Len(s) = Len(a) + Len(b)
        /\ \A i \in 1..Len(a) + Len(b) : s[i] = IF i <= Len(a) THEN a[i] ELSE b[i - Len(a)]
    BY <1>3, <1>4, ConcatProperties
  <2>2. Len(s) = 2 /\ \A i \in 1..2 : s[i] = IF i <= 1 THEN a[i] ELSE b[i - 1]
    BY <2>1, <1>4
  <2> QED
    BY <2>1, <2>2, <1>4
<1>6. \A i \in 1..2 : s[i] = t[i]
  BY <1>4, <1>5
<1>7. s = t
  BY <1>4, <1>5, <1>6, SeqEqual
<1> QED
  BY <1>2, <1>3, <1>7

(* The passes that a message asks for: what it asks for comes last. *)
LEMMA CreatePassesAre ==
  ASSUME NEW c, c.asks \in Asked
  PROVE  /\ CreatePasses(c) \in Seq(Pass)
         /\ c.asks \in Unfinished =>
              CreatePasses(c) # <<>> /\ CreatePasses(c)[Len(CreatePasses(c))][1] = c.asks
         /\ \A i \in 1..Len(CreatePasses(c)) : CreatePasses(c)[i][1] \in {"ID", c.asks}
<1> DEFINE id == <<"ID", "">>
           one == <<c.asks, "">>
<1>1. id \in Pass /\ one \in Pass /\ id[1] = "ID" /\ one[1] = c.asks
      /\ "nothing" \notin Unfinished
  BY DEF Pass, Element, Unfinished
<1>2. CreatePasses(c) = (IF c.hasId THEN <<id>> ELSE <<>>) \o
                        (IF c.asks = "nothing" THEN <<>> ELSE <<one>>)
  BY DEF CreatePasses
<1> HIDE DEF id, one
<1>3. /\ <<>> \o <<>> = <<>> /\ <<id>> \o <<>> = <<id>> /\ <<>> \o <<one>> = <<one>>
      /\ <<id>> \o <<one>> = <<id, one>>
  <2>1. <<id>> \in Seq(Pass) /\ <<one>> \in Seq(Pass) /\ <<>> \in Seq(Pass)
    BY <1>1
  <2>2. <<>> \o <<>> = <<>> /\ <<id>> \o <<>> = <<id>> /\ <<>> \o <<one>> = <<one>>
    BY <2>1, ConcatEmptySeq
  <2>3. <<id>> \o <<one>> = <<id, one>>
    BY <1>1, TwoOf
  <2> QED
    BY <2>2, <2>3
<1>4. /\ c.hasId /\ c.asks = "nothing" => CreatePasses(c) = <<id>>
      /\ ~c.hasId /\ c.asks = "nothing" => CreatePasses(c) = <<>>
      /\ c.hasId /\ c.asks # "nothing" => CreatePasses(c) = <<id, one>>
      /\ ~c.hasId /\ c.asks # "nothing" => CreatePasses(c) = <<one>>
  BY <1>2, <1>3
<1>5. /\ <<>> \in Seq(Pass) /\ Len(<<>>) = 0
      /\ <<id>> \in Seq(Pass) /\ Len(<<id>>) = 1 /\ <<id>>[1] = id
      /\ <<one>> \in Seq(Pass) /\ Len(<<one>>) = 1 /\ <<one>>[1] = one
      /\ <<id, one>> \in Seq(Pass) /\ Len(<<id, one>>) = 2
      /\ <<id, one>>[1] = id /\ <<id, one>>[2] = one
  BY <1>1, ShortSequences
<1>6. CreatePasses(c) \in Seq(Pass)
  BY <1>4, <1>5
<1>7. ASSUME c.asks \in Unfinished
      PROVE  CreatePasses(c) # <<>> /\ CreatePasses(c)[Len(CreatePasses(c))][1] = c.asks
  <2>1. CASE c.hasId
    <3>1. CreatePasses(c) = <<id, one>>
      BY <2>1, <1>1, <1>4, <1>7
    <3>2. <<id, one>> # <<>> /\ <<id, one>>[Len(<<id, one>>)] = one
      BY <1>5
    <3> QED
      BY <3>1, <3>2, <1>1
  <2>2. CASE ~c.hasId
    <3>1. CreatePasses(c) = <<one>>
      BY <2>2, <1>1, <1>4, <1>7
    <3>2. <<one>> # <<>> /\ <<one>>[Len(<<one>>)] = one
      BY <1>5
    <3> QED
      BY <3>1, <3>2, <1>1
  <2> QED
    BY <2>1, <2>2
<1>8. ASSUME NEW i \in 1..Len(CreatePasses(c))
      PROVE  CreatePasses(c)[i][1] \in {"ID", c.asks}
  <2>1. CreatePasses(c) = <<>> \/ CreatePasses(c) = <<id>> \/ CreatePasses(c) = <<one>>
          \/ CreatePasses(c) = <<id, one>>
    BY <1>4
  <2>2. CreatePasses(c)[i] = id \/ CreatePasses(c)[i] = one
    BY <2>1, <1>5
  <2> QED
    BY <2>2, <1>1
<1> QED
  BY <1>6, <1>7, <1>8

(* While the document is made, content is what the message says. *)
LEMMA ContentIs ==
  ASSUME ResponseIInv, at = "create"
  PROVE  Content[data[1]].asks \in Asked
BY ContentAssumption DEF ResponseIInv, ResponseParts, Turns

(* The first pass over the new document is for the ID or for what is asked. *)
LEMMA WhatIsAsked ==
  ASSUME ResponseIInv, at = "create", "doc" \in heap, passes # <<>>,
         Head(passes)[1] \in Unfinished
  PROVE  Content[data[1]].asks = Head(passes)[1]
<1> USE DEF ResponseIInv, ResponseParts
<1>1. PICK p \in Seq(Pass) : p = passes
  BY DEF ResponseTypeOK
<1>2. p # <<>> /\ Len(p) # 0 /\ Len(p) \in Nat /\ Head(p) = p[1]
  BY <1>1, EmptySeq
<1>3. 1 \in 1..Len(p)
  BY <1>2
<1>4. p[1][1] \in {"ID", Content[data[1]].asks}
  BY <1>1, <1>3 DEF Turns
<1>5. "ID" \notin Unfinished
  BY DEF Unfinished
<1> QED
  BY <1>1, <1>2, <1>4, <1>5

(* The document is begun, with the passes that the message calls for. *)
LEMMA StartCreateStep ==
  ASSUME ResponseIInv, StartCreate
  PROVE  ResponseParts'
<1> USE DEF ResponseIInv, ResponseParts
<1> DEFINE c == Content[data[1]]
<1>1. /\ at = "create" /\ "doc" \notin heap /\ request # <<>> /\ reply = <<>>
      /\ ~Refused(request[1])
      /\ UNCHANGED <<vars, request, tag, told, dangling, misused>>
  BY DEF StartCreate, Replies, OneAtATime
<1>2. UNCHANGED <<pc, rc, data>>
  BY <1>1 DEF vars, clientVars
<1>3. \/ /\ at' = "create" /\ c.asks # "no cwmp" /\ reply' = <<>> /\ starved' = starved
         /\ heap' = heap \cup Template /\ passes' = CreatePasses(c)
      \/ /\ at' = "clean" /\ Replied' /\ reply' # <<>> /\ starved' = (starved \/ c.asks # "no cwmp")
         /\ UNCHANGED heap /\ passes' = <<>>
  <2>1. CASE /\ c.asks # "no cwmp" /\ heap' = heap \cup Template
             /\ passes' = CreatePasses(c) /\ UNCHANGED <<at, starved, reply>>
    BY <2>1, <1>1
  <2>2. CASE /\ starved' = (starved \/ c.asks # "no cwmp") /\ CreateFails /\ UNCHANGED heap
    <3>1. Replied' /\ reply' # <<>>
      <4>1. reply' = <<InternalServerError>>
        BY <2>2, <1>1, TheReply DEF CreateFails, Give
      <4> QED
        BY <4>1, Statuses, TheReply DEF Replied
    <3> QED
      BY <2>2, <3>1 DEF CreateFails
  <2> QED
    BY <2>1, <2>2 DEF StartCreate
<1>4. Replies'
  BY <1>1, <1>3 DEF Replies, Replied, Answered
<1>5. passes' \in Seq(Pass)
  <2>1. c.asks \in Asked
    BY <1>1, ContentIs
  <2>2. CreatePasses(c) \in Seq(Pass)
    BY <2>1, CreatePassesAre
  <2> QED
    BY <2>2, <1>3, EmptyPasses
<1>6. ResponseTypeOK'
  <2>1. OneReply(reply')
    <3>1. reply' = <<>> \/ Replied'
      BY <1>3
    <3> QED
      BY <3>1, OneStatus DEF Replied, Status
  <2>2. starved' \in BOOLEAN
    BY <1>3, SMTT(30), ZenonT(40) DEF ResponseTypeOK
  <2> QED
    BY <1>1, <1>3, <1>5, <2>1, <2>2, SMTT(30), ZenonT(40) DEF ResponseTypeOK, Place, Status, OneReply, Object, Template
<1>7. OneAtATime'
  BY <1>1, <1>2, <1>3 DEF OneAtATime
<1>8. Holds'
  <2>1. Template \cap heap = {}
    BY <1>1 DEF Holds, Template
  <2> QED
    BY <2>1, <1>1, <1>2, <1>3 DEF Holds, Must, May, Owned, Template
<1>9. Dangles'
  <2>1. starved => starved'
    BY <1>3, Zenon
  <2> QED
    BY <2>1, <1>1, <1>3, StillHandled
<1>10. Analyzes'
  BY <1>1, <1>3 DEF Analyzes
<1>11. Analyzed'
  BY <1>1, <1>3 DEF Analyzed
<1>12. Turns'
  <2>1. CASE at' = "create"
    <3>1. c \in {c} /\ c.asks \in Asked /\ c.asks # "no cwmp" /\ passes' = CreatePasses(c)
          /\ "doc" \in heap'
      BY <2>1, <1>1, <1>3, ContentIs DEF Template
    <3>2. /\ c.asks \in Unfinished => passes' # <<>> /\ passes'[Len(passes')][1] = c.asks
          /\ \A i \in 1..Len(passes') : passes'[i][1] \in {"ID", c.asks}
      BY <3>1, CreatePassesAre
    <3> QED
      BY <2>1, <3>1, <3>2, <1>1, <1>2 DEF Turns
  <2>2. CASE at' = "clean"
    BY <2>2 DEF Turns
  <2> QED
    BY <2>1, <2>2, <1>3
<1> QED
  BY <1>4, <1>6, <1>7, <1>8, <1>9, <1>10, <1>11, <1>12

(* The error label of xml_message_create. *)
LEMMA CreateErrorStep ==
  ASSUME ResponseIInv, CreateError
  PROVE  ResponseParts'
<1> USE DEF ResponseIInv, ResponseParts
<1>1. /\ at = "create" /\ "doc" \in heap /\ request # <<>> /\ reply = <<>>
      /\ ~Refused(request[1]) /\ Template \subseteq heap
      /\ UNCHANGED <<vars, request, tag, told, dangling>>
  BY DEF CreateError, Replies, OneAtATime, Holds, Template
<1>2. UNCHANGED <<pc, rc, data>>
  BY <1>1 DEF vars, clientVars
<1>3. /\ passes' = <<>> /\ starved' = (starved \/ Head(passes)[1] # "unknown file_type")
      /\ heap' \subseteq heap \ Template /\ "json_msg_in" \in heap'
      /\ misused' = misused \/ (starved' /\ misused' = misused \cup {"xpath_obj"})
      /\ at' = "aborted" => starved' /\ misused' = misused \cup {"xpath_obj"}
  <2>1. heap \subseteq May("create") /\ "json_msg_in" \in heap
    BY <1>1 DEF Holds, Must
  <2>2. "xpath_obj" \notin heap
    BY <2>1 DEF May, Owned, Template
  <2> QED
    BY <1>1, <2>1, <2>2 DEF CreateError, CreateFails, Free, Template
<1>4. \/ at' = "clean" /\ Replied' /\ reply' # <<>>
      \/ at' = "aborted" /\ reply' = <<>>
  <2>1. \/ at' = "clean" /\ reply' = Append(reply, InternalServerError)
        \/ at' = "aborted" /\ reply' = reply
    BY DEF CreateError, CreateFails, Give
  <2> QED
    BY <2>1, <1>1, Statuses, TheReply DEF Replied
<1>5. Replies'
  BY <1>1, <1>4 DEF Replies, Replied, Answered
<1>6. ResponseTypeOK'
  <2>1. OneReply(reply')
    BY <1>4, OneStatus DEF Replied, Status
  <2>2. starved' \in BOOLEAN
    BY <1>3 DEF ResponseTypeOK
  <2> QED
    <3>1. passes' \in Seq(Pass) /\ passes' = <<>>
      BY <1>3, EmptyPasses
    <3>2. heap' \subseteq Object /\ misused' \subseteq Mishandled
      BY <1>3, SMTT(30), ZenonT(40) DEF ResponseTypeOK, Object, Mishandled
    <3>3. at' \in Place
      BY <1>4 DEF Place
    <3> QED
      BY <1>1, <2>1, <2>2, <3>1, <3>2, <3>3 DEF ResponseTypeOK, Status, OneReply
<1>7. OneAtATime'
  BY <1>1, <1>2, <1>4 DEF OneAtATime
<1>8. Holds'
  <2>1. heap' \subseteq Owned \cup {"copies", "content"}
    <3>1. heap \subseteq Owned \cup {"copies", "content"} \cup Template
      BY <1>1 DEF Holds, May
    <3> QED
      BY <3>1, <1>3
  <2>2. CASE at' = "clean"
    BY <2>1, <2>2, <1>3 DEF Holds, Must, May, Owned
  <2>3. CASE at' = "aborted"
    BY <2>1, <2>3 DEF Holds, Must, May, Owned, Object
  <2> QED
    BY <2>2, <2>3, <1>4
<1>9. Dangles'
  <2>1. ASSUME misused' = misused, at' = "clean" PROVE Dangles'
    BY <2>1, <1>1, <1>3, StillHandled
  <2>2. ASSUME misused' = misused \cup {"xpath_obj"}, starved' PROVE Dangles'
    <3>1. "xpath_obj" \in Unguarded' /\ misused \subseteq Unguarded'
          /\ misused \cap {"file_type", "parameters"} = {}
      BY <2>2, <1>1, UnguardedStays DEF Unguarded, Dangles, HandlesItsOwn
    <3>2. misused' \subseteq Unguarded' /\ misused' \cap {"file_type", "parameters"} = {}
          /\ misused' # {}
      BY <2>2, <3>1
    <3> QED
      BY <3>2, <1>1 DEF Dangles, HandlesItsOwn, Found
  <2> QED
    BY <2>1, <2>2, <1>3, <1>4
<1>10. Analyzes' /\ Analyzed' /\ Turns'
  BY <1>4 DEF Analyzes, Analyzed, Turns
<1> QED
  BY <1>5, <1>6, <1>7, <1>8, <1>9, <1>10

(* A pass over the new document; the last one of an unfinished document is never made. *)
LEMMA CreatePassStep ==
  ASSUME ResponseIInv, CreatePass
  PROVE  ResponseParts'
<1> USE DEF ResponseIInv, ResponseParts
<1>1. /\ at = "create" /\ "doc" \in heap /\ passes # <<>> /\ passes' = Tail(passes)
      /\ Head(passes)[1] \notin Unfinished
      /\ UNCHANGED <<vars, at, request, tag, told, dangling, heap, misused, starved, reply>>
  BY DEF CreatePass
<1>2. UNCHANGED <<pc, rc, data>>
  BY <1>1 DEF vars, clientVars
<1>3. passes \in Seq(Pass) /\ passes' \in Seq(Pass)
  BY <1>1, HeadTailProperties, SMTT(30), ZenonT(40) DEF ResponseTypeOK
<1>4. ResponseTypeOK' /\ OneAtATime'
  BY <1>1, <1>2, <1>3, SMTT(30), ZenonT(40) DEF ResponseTypeOK, OneAtATime
<1>5. Holds' /\ Dangles'
  <2>1. Holds'
    BY <1>1, <1>2 DEF Holds
  <2>2. Dangles'
    BY <1>1, StillHandled
  <2> QED
    BY <2>1, <2>2
<1>6. Analyzes' /\ Analyzed' /\ Replies'
  BY <1>1, SMTT(30), ZenonT(40) DEF Analyzes, Analyzed, Replies, Replied, Answered
<1>7. PICK n \in Nat \ {0} : /\ n = Len(passes) /\ Len(passes') = n - 1
                            /\ \A i \in 1..(n - 1) : passes'[i] = passes[i + 1]
  <2>1. PICK n \in Nat : n = Len(passes)
    BY <1>3
  <2>2. n # 0 /\ Len(passes') = n - 1 /\ \A i \in 1..(n - 1) : passes'[i] = passes[i + 1]
    <3>1. /\ Len(Tail(passes)) = Len(passes) - 1
          /\ \A i \in 1..Len(Tail(passes)) : Tail(passes)[i] = passes[i + 1]
      BY <1>1, <1>3, HeadTailProperties
    <3>2. Len(passes) # 0
      BY <1>1, <1>3, EmptySeq
    <3> QED
      BY <3>1, <3>2, <2>1, <1>1
  <2>3. n \in Nat \ {0}
    BY <2>2
  <2> QED
    BY <2>1, <2>2, <2>3
<1>8. Head(passes) = passes[1]
  BY <1>3
<1>9. Turns'
  <2>1. ASSUME Content[data[1]].asks \in Unfinished
        PROVE  passes' # <<>> /\ passes'[Len(passes')][1] = Content[data[1]].asks
    <3>1. passes[n][1] = Content[data[1]].asks
      BY <2>1, <1>1, <1>7 DEF Turns
    <3>2. n # 1
      BY <2>1, <3>1, <1>1, <1>8
    <3>3. n - 1 \in 1..(n - 1) /\ (n - 1) + 1 = n
      BY <3>2
    <3>4. passes'[n - 1] = passes[n] /\ Len(passes') = n - 1 /\ n - 1 # 0
      <4>1. passes'[n - 1] = passes[(n - 1) + 1]
        BY <3>3, <1>7
      <4> QED
        BY <4>1, <3>3, <1>7
    <3> QED
      <4>1. Len(<<>>) = 0
        OBVIOUS
      <4> QED
        BY <4>1, <3>1, <3>4
  <2>2. \A i \in 1..Len(passes') : passes'[i][1] \in {"ID", Content[data[1]].asks}
    <3>1. \A i \in 1..n : passes[i][1] \in {"ID", Content[data[1]].asks}
      BY <1>1, <1>7 DEF Turns
    <3>2. \A i \in 1..(n - 1) : passes'[i][1] \in {"ID", Content[data[1]].asks}
      <4> TAKE i \in 1..(n - 1)
      <4>1. i + 1 \in 1..n
        OBVIOUS
      <4> QED
        BY <4>1, <3>1, <1>7
    <3> QED
      BY <3>2, <1>7
  <2> QED
    BY <2>1, <2>2, <1>1, <1>2 DEF Turns
<1> QED
  BY <1>4, <1>5, <1>6, <1>9

(* What a message leaves out stops the process. *)
LEMMA NullCreateStep ==
  ASSUME ResponseIInv, NullCreate
  PROVE  ResponseParts'
<1> USE DEF ResponseIInv, ResponseParts
<1>1. /\ at = "create" /\ "doc" \in heap /\ passes # <<>> /\ data # <<>> /\ data[1] \in Body
      /\ at' = "aborted" /\ passes' = <<>>
      /\ UNCHANGED <<vars, request, tag, told, dangling, heap, reply, starved>>
  BY DEF NullCreate, Stops, Turns
<1>2. data' = data
  BY <1>1 DEF vars, clientVars
<1>3. \/ Head(passes)[1] = "no file_type" /\ misused' = misused \cup {"file_type"}
      \/ Head(passes)[1] = "no parameters" /\ misused' = misused \cup {"parameters"}
  BY DEF NullCreate, Stops
<1>4. Head(passes)[1] \in Unfinished => Content[data[1]].asks = Head(passes)[1]
  BY <1>1, WhatIsAsked
<1>5. CASE Head(passes)[1] = "no file_type" /\ misused' = misused \cup {"file_type"}
  <2>1. "file_type" \in Mishandled /\ "file_type" \in Unguarded'
    BY <1>1, <1>2, <1>4, <1>5 DEF Mishandled, Unguarded, Unfinished, AsksFor
  <2> QED
    BY <1>1, <1>5, <2>1, StopStep
<1>6. CASE Head(passes)[1] = "no parameters" /\ misused' = misused \cup {"parameters"}
  <2>1. "parameters" \in Mishandled /\ "parameters" \in Unguarded'
    BY <1>1, <1>2, <1>4, <1>6 DEF Mishandled, Unguarded, Unfinished, AsksFor
  <2> QED
    BY <1>1, <1>6, <2>1, StopStep
<1> QED
  BY <1>3, <1>5, <1>6

(* The document is the reply. *)
LEMMA Reply200Step ==
  ASSUME ResponseIInv, Reply200
  PROVE  ResponseParts'
<1> USE DEF ResponseIInv, ResponseParts
<1>1. /\ at = "create" /\ "doc" \in heap /\ request # <<>> /\ reply = <<>>
      /\ ~Refused(request[1]) /\ Template \subseteq heap
      /\ UNCHANGED <<vars, request, tag, passes, told, dangling>>
      /\ passes = <<>>
  BY DEF Reply200, Replies, OneAtATime, Holds, Template
<1>2. UNCHANGED <<pc, rc, data>>
  BY <1>1 DEF vars, clientVars
<1>3. /\ heap' \subseteq heap \ Template /\ "json_msg_in" \in heap'
      /\ \/ misused' = misused /\ at' = "clean" /\ UNCHANGED starved
         \/ misused' = misused \cup {"msg.data"} /\ at' = "aborted" /\ starved' = TRUE
  <2>1. heap \subseteq May("create") /\ "json_msg_in" \in heap
    BY <1>1 DEF Holds, Must
  <2>2. "msg.data" \notin heap
    BY <2>1 DEF May, Owned, Template
  <2> QED
    BY <1>1, <2>1, <2>2 DEF Reply200, Free, Done, Template
<1>4. Replied' /\ reply' # <<>>
  BY <1>1, Statuses, TheReply DEF Reply200, Replied, Give
<1>5. Replies'
  BY <1>1, <1>3, <1>4 DEF Replies, Replied, Answered
<1>6. ResponseTypeOK'
  <2>1. OneReply(reply')
    BY <1>4, OneStatus DEF Replied, Status
  <2> QED
    <3>1. heap' \subseteq Object /\ misused' \subseteq Mishandled
      BY <1>3, SMTT(30), ZenonT(40) DEF ResponseTypeOK, Object, Mishandled
    <3>2. at' \in Place /\ starved' \in BOOLEAN
      BY <1>3 DEF Place, ResponseTypeOK
    <3> QED
      BY <1>1, <2>1, <3>1, <3>2 DEF ResponseTypeOK, Status, OneReply
<1>7. OneAtATime'
  BY <1>1, <1>2, <1>3 DEF OneAtATime
<1>8. Holds'
  <2>1. heap' \subseteq Owned \cup {"copies", "content"}
    <3>1. heap \subseteq Owned \cup {"copies", "content"} \cup Template
      BY <1>1 DEF Holds, May
    <3> QED
      BY <3>1, <1>3
  <2>2. CASE at' = "clean"
    BY <2>1, <2>2, <1>3 DEF Holds, Must, May, Owned
  <2>3. CASE at' = "aborted"
    BY <2>1, <2>3 DEF Holds, Must, May, Owned, Object
  <2> QED
    BY <2>2, <2>3, <1>3
<1>9. Dangles'
  <2>1. CASE at' = "clean"
    BY <2>1, <1>1, <1>3, StillHandled
  <2>2. CASE at' = "aborted"
    <3>1. "msg.data" \in Unguarded'
      BY <2>2, <1>3 DEF Unguarded
    <3> QED
      BY <2>2, <3>1, <1>1, <1>3, StopHandled
  <2> QED
    BY <2>1, <2>2, <1>3
<1>10. Analyzes' /\ Analyzed' /\ Turns'
  BY <1>3 DEF Analyzes, Analyzed, Turns
<1> QED
  BY <1>5, <1>6, <1>7, <1>8, <1>9, <1>10

-----------------------------------------------------------------------------
(***************************************************************************)
(* All steps together.                                                     *)
(***************************************************************************)
LEMMA ResponseNextStep == ResponseIInv /\ [ResponseNext]_allVars => ResponseIInv'
<1> SUFFICES ASSUME ResponseIInv, [ResponseNext]_allVars PROVE ResponseIInv'
  OBVIOUS
<1>1. IInv'
  BY ResponseStep, NextStep DEF ResponseIInv
<1>2. ResponseParts'
  <2>1. CASE UNCHANGED allVars
    BY <2>1, WaitingStep DEF allVars, vars
  <2>2. CASE \E r \in Request : Begin(r)
    BY <2>2, BeginStep
  <2>3. CASE Allocate \/ Clean
    BY <2>3, AllocateStep, CleanStep
  <2>4. CASE Read \/ AnalysisFails \/ TypePass
    BY <2>4, ReadStep, AnalysisFailsStep, TypePassStep
  <2>5. CASE ExtractionPass \/ NullValue \/ ContentFails \/ StaleStatus \/ EndOfAnalysis
    BY <2>5, ExtractionPassStep, NullValueStep, ContentFailsStep, StaleStatusStep,
       EndOfAnalysisStep
  <2>6. CASE NotifyBackend \/ NotificationFails \/ AmqpStep \/ Notified \/ Fetched
    BY <2>6, NotifyBackendStep, NotificationFailsStep, AmqpStepStep, NotifiedStep, FetchedStep
  <2>7. CASE Parse \/ StartCreate \/ CreateError \/ CreatePass \/ NullCreate \/ Reply200
    BY <2>7, ParseStep, StartCreateStep, CreateErrorStep, CreatePassStep, NullCreateStep,
       Reply200Step
  <2>8. CASE \E b \in Body : Enqueue(b) /\ UNCHANGED responseVars
    BY <2>8, WaitingStep DEF Enqueue
  <2> QED
    BY <2>1, <2>2, <2>3, <2>4, <2>5, <2>6, <2>7, <2>8 DEF ResponseNext
<1> QED
  BY <1>1, <1>2 DEF ResponseIInv

(* The invariant holds throughout. *)
LEMMA ResponseIInvHolds == ResponseSpec => []ResponseIInv
<1>1. ResponseInit => ResponseIInv
  BY InitParts, InitIInv DEF ResponseInit, ResponseIInv
<1> QED
  BY <1>1, ResponseNextStep, PTL DEF ResponseSpec

(***************************************************************************)
(* The variables of send_response keep to their types: in particular it    *)
(* adds no second reply, and leaves no pass over the document unfinished   *)
(* when it goes on.                                                        *)
(***************************************************************************)
THEOREM ResponseTypeCorrect == ResponseSpec => []ResponseTypeOK
<1>1. ResponseIInv => ResponseTypeOK
  BY DEF ResponseIInv, ResponseParts
<1> QED
  BY <1>1, ResponseIInvHolds, PTL

(***************************************************************************)
(* Whatever fails, in whatever request: the labels and the early exits     *)
(* release all but what a fetch that fails under way, fragments and        *)
(* repeated elements leave.                                                *)
(***************************************************************************)
THEOREM ReleasesTheRest == ResponseSpec => []NothingElseLeft
<1>1. ResponseIInv => NothingElseLeft
  BY DEF ResponseIInv, ResponseParts, Holds, May, NothingElseLeft, Answered
<1> QED
  BY <1>1, ResponseIInvHolds, PTL

(***************************************************************************)
(* Nothing is read or released that is not there, and the process is not   *)
(* stopped, but for an AddObjectResponse with an InstanceNumber and        *)
(* without a Status, a Name with no element after it, a download without a *)
(* file_type, set_parameter_values that are no object, and an allocation   *)
(* that fails: and each of these touches only what Unguarded names for it. *)
(***************************************************************************)
THEOREM ReleasesItsOwn == ResponseSpec => []HandlesItsOwn
<1>1. ResponseIInv => HandlesItsOwn
  BY DEF ResponseIInv, ResponseParts, Dangles
<1> QED
  BY <1>1, ResponseIInvHolds, PTL

-----------------------------------------------------------------------------
(***************************************************************************)
(* What the backend is told, and what is answered, when every document has *)
(* what a CWMP envelope has: one method below Body.                        *)
(***************************************************************************)
OneMethod == \A r \in Request : \A p, q \in r.doc.body : p[1] = q[1]

(* A document with one method has one type, and the passes find it. *)
LEMMA KindIs ==
  ASSUME NEW doc, doc.body \subseteq Type \X Version, doc.readable, doc.body # {},
         \A p, q \in doc.body : p[1] = q[1]
  PROVE  /\ KindOf(doc) \in Type
         /\ TypeTag(KindOf(doc)) \in Seen(doc, 9)
         /\ Seen(doc, 9) \subseteq {"XML_CWMP_NONE", TypeTag(KindOf(doc))} \cup Version
         /\ Seen(doc, 9) \cap Version # {}
<1>1. PICK p \in doc.body : TRUE
  OBVIOUS
<1>2. PICK t \in Type, v \in Version : p = <<t, v>>
  BY <1>1
<1>3. \E x \in Type : \E y \in Version : <<x, y>> \in doc.body
  BY <1>1, <1>2
<1>4. PICK k : k = CHOOSE x \in Type : \E y \in Version : <<x, y>> \in doc.body
  OBVIOUS
<1>5. k \in Type /\ \E y \in Version : <<k, y>> \in doc.body
  BY <1>3, <1>4
<1>6. \A q \in doc.body : q[1] = k
  BY <1>5
<1>7. KindOf(doc) = k
  BY <1>4 DEF KindOf
<1>8. Seen(doc, 9) = {"XML_CWMP_NONE"} \cup UNION {{TypeTag(q[1]), q[2]} : q \in doc.body}
  BY SeenAll
<1>9. \A q \in doc.body : q[2] \in Version
  OBVIOUS
<1>10. UNION {{TypeTag(q[1]), q[2]} : q \in doc.body} \subseteq {TypeTag(k)} \cup Version
  BY <1>6, <1>9
<1>11. {TypeTag(k), p[2]} \subseteq UNION {{TypeTag(q[1]), q[2]} : q \in doc.body}
  BY <1>1, <1>6
<1> QED
  BY <1>1, <1>5, <1>7, <1>8, <1>9, <1>10, <1>11

(* The tag of a request that has a document. *)
LEMMA TagIs ==
  ASSUME OneMethod, NEW r \in Request, r.length # 0
  PROVE  /\ ~r.doc.readable => Known_Tag(r) = {"XML_CWMP_NONE"} /\ KindOf(r.doc) = "Unreadable"
         /\ r.doc.readable /\ r.doc.body = {} =>
              Known_Tag(r) = {"XML_CWMP_TYPE_UNKNOWN"} /\ KindOf(r.doc) = "Other"
         /\ r.doc.readable /\ r.doc.body # {} =>
              /\ KindOf(r.doc) \in Type
              /\ \A x \in Type : TypeTag(x) \in Known_Tag(r) <=> x = KindOf(r.doc)
              /\ Known_Tag(r) \cap Version # {}
<1>1. r.doc.body \subseteq Type \X Version
  BY RequestAssumption
<1>2. CASE ~r.doc.readable
  BY <1>2 DEF Known_Tag, KindOf
<1>3. CASE r.doc.readable /\ r.doc.body = {}
  <2>1. Seen(r.doc, 9) = {"XML_CWMP_NONE"}
    BY <1>1, <1>3, SeenAll
  <2> QED
    BY <2>1, <1>3 DEF Known_Tag, KindOf
<1>4. CASE r.doc.readable /\ r.doc.body # {}
  <2>1. PICK k : k = KindOf(r.doc)
    OBVIOUS
  <2>2. /\ k \in Type /\ TypeTag(k) \in Seen(r.doc, 9)
        /\ Seen(r.doc, 9) \subseteq {"XML_CWMP_NONE", TypeTag(k)} \cup Version
        /\ Seen(r.doc, 9) \cap Version # {}
    BY <2>1, <1>1, <1>4, KindIs DEF OneMethod
  <2>3. /\ \A x, y \in Type : TypeTag(x) = TypeTag(y) => x = y
        /\ \A x \in Type : TypeTag(x) # "XML_CWMP_NONE" /\ TypeTag(x) \notin Version
    BY DEF TypeTag, Type, Version
  <2>4. Known_Tag(r) = Seen(r.doc, 9)
    BY <2>2, <2>3, <1>4 DEF Known_Tag
  <2> QED
    BY <2>1, <2>2, <2>3, <2>4, <1>4
<1> QED
  BY <1>2, <1>3, <1>4

(***************************************************************************)
(* What send_response decides from the tag is what RequestProcessing       *)
(* decides from the document.                                              *)
(***************************************************************************)
LEMMA TagsAgree ==
  ASSUME OneMethod, NEW r \in Request, NEW t, t = TagAfterAnalysis(r, KindOf(r.doc), NewTag)
  PROVE  /\ IsInform(Known_Tag(r)) <=> IsInform(t)
         /\ AsksForWork(r, Known_Tag(r)) <=> AsksForWork(r, t)
<1>1. CASE r.length = 0
  BY <1>1 DEF Known_Tag, TagAfterAnalysis
<1>2. CASE r.length # 0
  <2>1. PICK k : k = KindOf(r.doc)
    OBVIOUS
  <2>2. t = AnalyzedTag(k)
    BY <2>1, <1>2 DEF TagAfterAnalysis
  <2>3. CASE ~r.doc.readable
    BY <2>1, <2>2, <2>3, <1>2, TagIs DEF AnalyzedTag, IsInform, AsksForWork
  <2>4. CASE r.doc.readable /\ r.doc.body = {}
    BY <2>1, <2>2, <2>4, <1>2, TagIs DEF AnalyzedTag, IsInform, AsksForWork
  <2>5. CASE r.doc.readable /\ r.doc.body # {}
    <3>1. k \in Type /\ \A x \in Type : TypeTag(x) \in Known_Tag(r) <=> x = k
      BY <2>1, <2>5, <1>2, TagIs
    <3>2. /\ "XML_CWMP_TYPE_INFORM" \in Known_Tag(r) <=> k = "Inform"
          /\ "XML_CWMP_TYPE_SET_PARAM_RES" \in Known_Tag(r) <=> k = "SetParameterValuesResponse"
      BY <3>1 DEF TypeTag, Type
    <3>3. /\ "XML_CWMP_TYPE_INFORM" \in t <=> k = "Inform"
          /\ "XML_CWMP_TYPE_SET_PARAM_RES" \in t <=> k = "SetParameterValuesResponse"
      BY <3>1, <2>2 DEF AnalyzedTag, Type
    <3> QED
      BY <3>2, <3>3 DEF IsInform, AsksForWork
  <2> QED
    BY <2>3, <2>4, <2>5
<1> QED
  BY <1>1, <1>2

(* What is looked for, by sequence. *)
LEMMA PastJoined ==
  ASSUME NEW S, NEW s \in Seq(S), NEW t \in Seq(S)
  PROVE  Past(<<>>, s \o t) = Past(<<>>, s) \cup Past(<<>>, t)
<1>1. PICK u \in Seq(S), m \in Nat, n \in Nat :
        /\ u = s \o t /\ m = Len(s) /\ n = Len(t) /\ Len(u) = m + n
        /\ \A i \in 1..(m + n) : u[i] = IF i <= m THEN s[i] ELSE t[i - m]
  <2>1. PICK m \in Nat, n \in Nat : m = Len(s) /\ n = Len(t)
    OBVIOUS
  <2>2. PICK u : u = s \o t
    OBVIOUS
  <2>3. /\ u \in Seq(S) /\ Len(u) = Len(s) + Len(t)
        /\ \A i \in 1..(Len(s) + Len(t)) : u[i] = IF i <= Len(s) THEN s[i] ELSE t[i - Len(s)]
    BY <2>2, ConcatProperties
  <2> QED
    BY <2>1, <2>2, <2>3
<1>2. Len(<<>>) = 0 /\ m - 0 = m /\ n - 0 = n /\ (m + n) - 0 = m + n
  OBVIOUS
<1>3. /\ Past(<<>>, u) = {u[i][1] : i \in 1..(m + n)}
      /\ Past(<<>>, s) = {s[i][1] : i \in 1..m}
      /\ Past(<<>>, t) = {t[i][1] : i \in 1..n}
  BY <1>1, <1>2 DEF Past
<1>4. ASSUME NEW i \in 1..(m + n)
      PROVE  u[i][1] \in {s[j][1] : j \in 1..m} \cup {t[j][1] : j \in 1..n}
  <2>1. CASE i <= m
    <3>1. i \in 1..m /\ u[i] = s[i]
      BY <2>1, <1>1
    <3> QED
      BY <3>1
  <2>2. CASE i > m
    <3>1. i - m \in 1..n /\ u[i] = t[i - m]
      BY <2>2, <1>1
    <3> QED
      BY <3>1
  <2> QED
    BY <2>1, <2>2
<1>5. ASSUME NEW i \in 1..m PROVE s[i][1] \in {u[j][1] : j \in 1..(m + n)}
  <2>1. i \in 1..(m + n) /\ u[i] = s[i]
    BY <1>1
  <2> QED
    BY <2>1
<1>6. ASSUME NEW i \in 1..n PROVE t[i][1] \in {u[j][1] : j \in 1..(m + n)}
  <2>1. i + m \in 1..(m + n) /\ ~ i + m <= m /\ (i + m) - m = i
    OBVIOUS
  <2>2. u[i + m] = t[i]
    BY <2>1, <1>1
  <2> QED
    BY <2>1, <2>2
<1> DEFINE whole == {u[i][1] : i \in 1..(m + n)}
           first == {s[i][1] : i \in 1..m}
           second == {t[i][1] : i \in 1..n}
<1>7. whole \subseteq first \cup second /\ first \subseteq whole /\ second \subseteq whole
  BY <1>4, <1>5, <1>6
<1>8. Past(<<>>, u) = whole /\ Past(<<>>, s) = first /\ Past(<<>>, t) = second
  BY <1>3
<1> HIDE DEF whole, first, second
<1>9. Past(<<>>, u) = Past(<<>>, s) \cup Past(<<>>, t)
  BY <1>7, <1>8
<1> QED
  BY <1>1, <1>9

(* What is past of at most two passes, when all are past. *)
LEMMA PastShort ==
  \A x, y : /\ Past(<<>>, <<>>) = {} /\ Past(<<>>, <<x>>) = {x[1]}
            /\ Past(<<>>, <<x, y>>) = {x[1], y[1]}
<1> TAKE x, y
<1>1. /\ Len(<<>>) = 0 /\ Len(<<x>>) = 1 /\ Len(<<x, y>>) = 2
      /\ <<x>>[1] = x /\ <<x, y>>[1] = x /\ <<x, y>>[2] = y
      /\ 1..(0 - 0) = {} /\ 1..(1 - 0) = {1} /\ 1..(2 - 0) = {1, 2}
  OBVIOUS
<1>2. /\ Past(<<>>, <<>>) = {<<>>[i][1] : i \in {}}
      /\ Past(<<>>, <<x>>) = {<<x>>[i][1] : i \in {1}}
      /\ Past(<<>>, <<x, y>>) = {<<x, y>>[i][1] : i \in {1, 2}}
  BY <1>1 DEF Past
<1> QED
  BY <1>1, <1>2

(* What has been looked for once the analysis is over. *)
LEMMA LookedFor ==
  ASSUME NEW t
  PROVE  Past(<<>>, Extractions(t)) =
           {"ID"} \cup (IF IsInform(t) THEN {"EventCode", "Name"} ELSE {})
             \cup (IF "XML_CWMP_TYPE_SET_PARAM_RES" \in t THEN {"Status"} ELSE {})
             \cup (IF "XML_CWMP_TYPE_ADD_OBJECT_RES" \in t THEN {"InstanceNumber", "Status"} ELSE {})
<1> DEFINE E == Element \X {""}
           a == IF IsInform(t) THEN << <<"EventCode", "">>, <<"Name", "">> >> ELSE <<>>
           b == IF "XML_CWMP_TYPE_SET_PARAM_RES" \in t THEN << <<"Status", "">> >> ELSE <<>>
           c == IF "XML_CWMP_TYPE_ADD_OBJECT_RES" \in t
                  THEN << <<"InstanceNumber", "">>, <<"Status", "">> >> ELSE <<>>
           d == << <<"ID", "">> >>
<1>1. Extractions(t) = d \o a \o b \o c
  BY DEF Extractions
<1>2. \A e \in Element : <<e, "">> \in E
  OBVIOUS
<1>3. \A e, f \in Element : <<>> \in Seq(E) /\ << <<e, "">> >> \in Seq(E)
                              /\ << <<e, "">>, <<f, "">> >> \in Seq(E)
  BY <1>2, ShortSequences
<1> HIDE DEF E
<1>4. d \in Seq(E) /\ a \in Seq(E) /\ b \in Seq(E) /\ c \in Seq(E)
  BY <1>3 DEF Element
<1>5. /\ Past(<<>>, d) = {"ID"}
      /\ Past(<<>>, a) = IF IsInform(t) THEN {"EventCode", "Name"} ELSE {}
      /\ Past(<<>>, b) = IF "XML_CWMP_TYPE_SET_PARAM_RES" \in t THEN {"Status"} ELSE {}
      /\ Past(<<>>, c) = IF "XML_CWMP_TYPE_ADD_OBJECT_RES" \in t
                           THEN {"InstanceNumber", "Status"} ELSE {}
  <2>1. Past(<<>>, d) = {<<"ID", "">>[1]}
    BY PastShort
  <2>2. /\ IsInform(t) => Past(<<>>, a) = {<<"EventCode", "">>[1], <<"Name", "">>[1]}
        /\ ~IsInform(t) => Past(<<>>, a) = {}
    BY PastShort
  <2>3. /\ "XML_CWMP_TYPE_SET_PARAM_RES" \in t => Past(<<>>, b) = {<<"Status", "">>[1]}
        /\ "XML_CWMP_TYPE_SET_PARAM_RES" \notin t => Past(<<>>, b) = {}
    BY PastShort
  <2>4. /\ "XML_CWMP_TYPE_ADD_OBJECT_RES" \in t =>
             Past(<<>>, c) = {<<"InstanceNumber", "">>[1], <<"Status", "">>[1]}
        /\ "XML_CWMP_TYPE_ADD_OBJECT_RES" \notin t => Past(<<>>, c) = {}
    BY PastShort
  <2> HIDE DEF a, b, c, d
  <2>5. /\ <<"ID", "">>[1] = "ID" /\ <<"EventCode", "">>[1] = "EventCode"
        /\ <<"Name", "">>[1] = "Name" /\ <<"Status", "">>[1] = "Status"
        /\ <<"InstanceNumber", "">>[1] = "InstanceNumber"
    OBVIOUS
  <2> QED
    BY <2>1, <2>2, <2>3, <2>4, <2>5
<1> HIDE DEF a, b, c, d
<1>6. PICK p : p = d \o a
  OBVIOUS
<1>7. p \in Seq(E) /\ Past(<<>>, p) = Past(<<>>, d) \cup Past(<<>>, a)
  BY <1>4, <1>6, PastJoined, ConcatProperties
<1>8. PICK q : q = p \o b
  OBVIOUS
<1>9. q \in Seq(E) /\ Past(<<>>, q) = Past(<<>>, p) \cup Past(<<>>, b)
  BY <1>4, <1>7, <1>8, PastJoined, ConcatProperties
<1>10. Past(<<>>, Extractions(t)) = Past(<<>>, q) \cup Past(<<>>, c)
  <2>1. Past(<<>>, q \o c) = Past(<<>>, q) \cup Past(<<>>, c)
    BY <1>4, <1>9, PastJoined
  <2>2. Extractions(t) = q \o c
    BY <1>1, <1>6, <1>8
  <2> QED
    BY <2>1, <2>2
<1> QED
  BY <1>5, <1>7, <1>9, <1>10

(* The sources of entries, and of entries put together. *)
Sources(entries) == {Source(entry) : entry \in entries}

(* The sources of two sets of entries, of one entry, and of none. *)
LEMMA SourcesAre ==
  /\ \A a, b : Sources(a \cup b) = Sources(a) \cup Sources(b)
  /\ \A x : Sources({x}) = {Source(x)}
  /\ Sources({}) = {}
BY DEF Sources

(* The sources of three sets of entries. *)
LEMMA SourcesOfThree ==
  \A a, b, c : Sources(a \cup b \cup c) = Sources(a) \cup Sources(b) \cup Sources(c)
BY DEF Sources

(* The sources of four sets of entries. *)
LEMMA SourcesOfFour ==
  \A a, b, c, d : Sources(a \cup b \cup c \cup d) =
                    Sources(a) \cup Sources(b) \cup Sources(c) \cup Sources(d)
BY DEF Sources

(* The source of an entry that is there only if its element is. *)
LEMMA SourceOf ==
  ASSUME NEW entry, NEW e, Source(entry) = e
  PROVE  Sources(IF Found(e) THEN {entry} ELSE {}) = IF Found(e) THEN {e} ELSE {}
<1>1. CASE Found(e)
  BY <1>1 DEF Sources
<1>2. CASE ~Found(e)
  BY <1>2 DEF Sources
<1> QED
  BY <1>1, <1>2

(* The sources of the entries. *)
LEMMA SourceIs ==
  /\ Source(<<"id", "ID">>) = "ID" /\ Source(<<"events", "EventCode">>) = "EventCode"
  /\ Source(<<"parameters", "Name">>) = "Name" /\ Source(<<"status", "Status">>) = "Status"
  /\ Source(<<"instance_number", "InstanceNumber">>) = "InstanceNumber"
  /\ \A k : Source(<<"type", k>>) = "type"
BY DEF Source

(* What the backend is told of a document, kind by kind. *)
LEMMA TellsKnown ==
  ASSUME ResponseIInv, OneMethod, Notifying, ~StatusMissing
  PROVE  /\ Sources(told) = Known(request[1].doc)
         /\ \A entry \in told : entry[1] = "type" => entry[2] = KindOf(request[1].doc)
<1> USE DEF ResponseIInv, ResponseParts
<1>1. PICK r \in Request : r = request[1] /\ r.length # 0
  BY Requests DEF Notifying, OneAtATime
<1>2. PICK doc : doc = r.doc
  OBVIOUS
<1>3. tag = Known_Tag(r) /\ told = Tells
  BY <1>1 DEF Notifying, Analyzed
<1>4. PICK k : k = KindOf(doc)
  OBVIOUS
<1>5. CASE ~doc.readable
  <2>1. told = {} /\ k = "Unreadable"
    BY <1>1, <1>2, <1>3, <1>4, <1>5, TagIs DEF Tells
  <2>2. Known(doc) = {}
    BY <2>1, <1>4 DEF Known, Type
  <2> QED
    BY <2>1, <2>2, <1>1, <1>2, SourcesAre
<1>6. doc.readable => told = UNION {Entries(e) : e \in Past(<<>>, Extractions(tag))}
  BY <1>1, <1>2, <1>3 DEF Tells
<1>7. CASE doc.readable /\ doc.body = {}
  <2>1. tag = {"XML_CWMP_TYPE_UNKNOWN"} /\ k = "Other"
    BY <1>1, <1>2, <1>3, <1>4, <1>7, TagIs
  <2>2. Past(<<>>, Extractions(tag)) = {"ID"}
    BY <2>1, LookedFor DEF IsInform
  <2>3. Entries("ID") = {}
    BY <2>1 DEF Entries, Version
  <2>4. told = {}
    BY <2>2, <2>3, <1>6, <1>7
  <2>5. Known(doc) = {}
    BY <2>1, <1>4 DEF Known, Type
  <2> QED
    BY <2>4, <2>5, <1>1, <1>2, SourcesAre
<1>8. CASE doc.readable /\ doc.body # {}
  <2>1. k \in Type /\ (\A x \in Type : TypeTag(x) \in tag <=> x = k) /\ tag \cap Version # {}
    BY <1>1, <1>2, <1>3, <1>4, <1>8, TagIs
  <2>2. /\ IsInform(tag) <=> k = "Inform"
        /\ "XML_CWMP_TYPE_SET_PARAM_RES" \in tag <=> k = "SetParameterValuesResponse"
        /\ "XML_CWMP_TYPE_ADD_OBJECT_RES" \in tag <=> k = "AddObjectResponse"
    BY <2>1 DEF TypeTag, Type, IsInform
  <2>3. Entries("ID") = IF Found("ID") THEN {<<"id", "ID">>} ELSE {}
    BY <2>1 DEF Entries
  <2>4. \A e : Found(e) <=> doc.count[e] > 0
    BY <1>1, <1>2 DEF Found
  <2> DEFINE entry(key, e) == IF Found(e) THEN {<<key, e>>} ELSE {}
             found(e) == IF Found(e) THEN {e} ELSE {}
             type == {<<"type", k>>}
             rest == {<<"events", "EventCode">>} \cup {<<"parameters", "Name">>}
  <2>5. /\ Sources(entry("id", "ID")) = found("ID")
        /\ Sources(entry("status", "Status")) = found("Status")
        /\ Sources(entry("instance_number", "InstanceNumber")) = found("InstanceNumber")
    <3>1. Sources(entry("id", "ID")) = found("ID")
      <4>1. Source(<<"id", "ID">>) = "ID"
        BY SourceIs
      <4> QED
        BY <4>1, SourceOf
    <3>2. Sources(entry("status", "Status")) = found("Status")
      <4>1. Source(<<"status", "Status">>) = "Status"
        BY SourceIs
      <4> QED
        BY <4>1, SourceOf
    <3>3. Sources(entry("instance_number", "InstanceNumber")) = found("InstanceNumber")
      <4>1. Source(<<"instance_number", "InstanceNumber">>) = "InstanceNumber"
        BY SourceIs
      <4> QED
        BY <4>1, SourceOf
    <3> QED
      BY <3>1, <3>2, <3>3
  <2>6. Sources(type) = {"type"}
    <3>1. Source(<<"type", k>>) = "type"
      BY SourceIs
    <3>2. Sources(type) = {Source(<<"type", k>>)}
      BY SourcesAre
    <3> QED
      BY <3>1, <3>2
  <2>7. Sources(rest) = {"EventCode", "Name"}
    <3>1. Sources(rest) = Sources({<<"events", "EventCode">>}) \cup Sources({<<"parameters", "Name">>})
      BY SourcesAre
    <3>2. Sources({<<"events", "EventCode">>}) = {"EventCode"}
      BY SourcesAre, SourceIs
    <3>3. Sources({<<"parameters", "Name">>}) = {"Name"}
      BY SourcesAre, SourceIs
    <3> QED
      BY <3>1, <3>2, <3>3
  <2>8. \A x \in type : x[2] = k
    OBVIOUS
  <2>9. /\ \A x \in rest : x[1] # "type"
        /\ \A x \in entry("id", "ID") : x[1] # "type"
        /\ \A x \in entry("status", "Status") : x[1] # "type"
        /\ \A x \in entry("instance_number", "InstanceNumber") : x[1] # "type"
    <3>1. /\ <<"id", "ID">>[1] = "id" /\ <<"events", "EventCode">>[1] = "events"
          /\ <<"parameters", "Name">>[1] = "parameters" /\ <<"status", "Status">>[1] = "status"
          /\ <<"instance_number", "InstanceNumber">>[1] = "instance_number"
      OBVIOUS
    <3> QED
      BY <3>1
  <2>12. CASE k = "Inform"
    <3>1. Past(<<>>, Extractions(tag)) = {"ID", "EventCode", "Name"}
      BY <2>2, <2>12, LookedFor
    <3>2. told = Entries("ID") \cup Entries("EventCode") \cup Entries("Name")
      BY <3>1, <1>6, <1>8
    <3>3. told = entry("id", "ID") \cup rest \cup type
      BY <3>2, <2>3, <2>12 DEF Entries
    <3>4. Known(doc) = {"type"} \cup {e \in {"ID"} : doc.count[e] > 0} \cup {"EventCode", "Name"}
      BY <2>12, <1>4 DEF Known, Sought, Type
    <3>5. Known(doc) = {"type"} \cup found("ID") \cup {"EventCode", "Name"}
      BY <3>4, <2>4
    <3> HIDE DEF entry, found, rest, type
    <3>6. Sources(told) = Known(doc)
      BY <3>3, <3>5, <2>5, <2>6, <2>7, SourcesOfThree, SMTT(30)
    <3>7. \A x \in told : x[1] = "type" => x[2] = k
      BY <3>3, <2>8, <2>9
    <3> QED
      BY <3>6, <3>7, <1>1, <1>2, <1>4
  <2>13. CASE k = "SetParameterValuesResponse"
    <3>1. Past(<<>>, Extractions(tag)) = {"ID", "Status"}
      BY <2>2, <2>13, LookedFor
    <3>2. told = Entries("ID") \cup Entries("Status")
      BY <3>1, <1>6, <1>8
    <3>3. told = entry("id", "ID") \cup type \cup entry("status", "Status")
      BY <3>2, <2>2, <2>3, <2>13 DEF Entries
    <3>4. Known(doc) = {"type"} \cup {e \in {"Status", "ID"} : doc.count[e] > 0}
      BY <2>13, <1>4 DEF Known, Sought, Type
    <3>5. Known(doc) = {"type"} \cup found("ID") \cup found("Status")
      BY <3>4, <2>4
    <3> HIDE DEF entry, found, type
    <3>6. Sources(told) = Known(doc)
      BY <3>3, <3>5, <2>5, <2>6, SourcesOfThree, SMTT(30)
    <3>7. \A x \in told : x[1] = "type" => x[2] = k
      BY <3>3, <2>8, <2>9
    <3> QED
      BY <3>6, <3>7, <1>1, <1>2, <1>4
  <2>14. CASE k = "AddObjectResponse"
    <3>1. Past(<<>>, Extractions(tag)) = {"ID", "InstanceNumber", "Status"}
      BY <2>2, <2>14, LookedFor
    <3>2. told = Entries("ID") \cup Entries("InstanceNumber") \cup Entries("Status")
      BY <3>1, <1>6, <1>8
    <3>3. told = entry("id", "ID") \cup type \cup entry("instance_number", "InstanceNumber")
                   \cup entry("status", "Status")
      BY <3>2, <2>2, <2>3, <2>14 DEF Entries
    <3>4. Known(doc) = {"type"} \cup {e \in {"Status", "InstanceNumber", "ID"} : doc.count[e] > 0}
      BY <2>14, <1>4 DEF Known, Sought, Type
    <3>5. Known(doc) = {"type"} \cup found("ID") \cup found("InstanceNumber") \cup found("Status")
      BY <3>4, <2>4
    <3> HIDE DEF entry, found, type
    <3>6. Sources(told) = Known(doc)
      BY <3>3, <3>5, <2>5, <2>6, SourcesOfFour, SMTT(30)
    <3>7. \A x \in told : x[1] = "type" => x[2] = k
      BY <3>3, <2>8, <2>9
    <3> QED
      BY <3>6, <3>7, <1>1, <1>2, <1>4
  <2> QED
    BY <2>1, <2>12, <2>13, <2>14 DEF Type
<1> QED
  BY <1>5, <1>7, <1>8

(***************************************************************************)
(* The backend is told all that it is to know of a document.               *)
(***************************************************************************)
THEOREM BackendIsTold ==
  ASSUME OneMethod
  PROVE  ResponseSpec => []TellsTheDocument
<1>1. ResponseIInv => TellsTheDocument
  BY TellsKnown DEF TellsTheDocument, Sources
<1> QED
  BY <1>1, ResponseIInvHolds, PTL

-----------------------------------------------------------------------------
(***************************************************************************)
(* The reply, in the terms of RequestProcessing.                           *)
(***************************************************************************)
\* At a place that has not replied yet.
LEMMA Elsewhere ==
  ASSUME at' \notin {"clean", "idle"}
  PROVE  AsStated'
BY DEF AsStated, Answered

(* The reply stated depends on the request and on what the call has left. *)
LEMMA AnswerStays ==
  ASSUME UNCHANGED <<request, rc, data>>
  PROVE  Answer' = Answer
BY DEF Answer, Result

(* The reply stated, from the tag that the analysis has left. *)
LEMMA AnswerIs ==
  ASSUME OneMethod, request[1] \in Request, ~Refused(request[1]),
         tag = Known_Tag(request[1])
  PROVE  /\ Answer = NotifiedReply(request[1], tag, rc # 0, Result)
         /\ NeedsFetch(request[1], tag) => Answer = FetchReply(rc # 0, Result)
<1>1. PICK r : r = request[1]
  OBVIOUS
<1>2. PICK t : t = TagAfterAnalysis(r, KindOf(r.doc), NewTag)
  OBVIOUS
<1>3. /\ IsInform(tag) <=> IsInform(t)
      /\ AsksForWork(r, tag) <=> AsksForWork(r, t)
  BY <1>1, <1>2, TagsAgree
<1>4. Answer = NotifiedReply(r, t, rc # 0, Result)
  BY <1>1, <1>2 DEF Answer
<1>5. NotifiedReply(r, t, rc # 0, Result) = NotifiedReply(r, tag, rc # 0, Result)
  BY <1>3 DEF NotifiedReply
<1> QED
  BY <1>1, <1>3, <1>4, <1>5 DEF NotifiedReply, NeedsFetch

(* The replies to a fetch, by what it has fetched. *)
LEMMA FetchReplies ==
  /\ \A m : FetchReply(TRUE, m) = InternalServerError
  /\ data = <<>> => FetchReply(FALSE, Result) = NoContent
  /\ data # <<>> /\ Content[data[1]].asks \in {"no json", "no cwmp"} \cup Unfinished
       => FetchReply(FALSE, Result) = InternalServerError
  /\ data # <<>> /\ Content[data[1]].asks \notin {"no json", "no cwmp"} \cup Unfinished
       => FetchReply(FALSE, Result) = OperationReply(Content[data[1]])
<1> DEFINE c == Content[data[1]]
           form == CASE c.asks = "no json" -> "garbage"
                     [] c.asks \in {"no cwmp"} \cup Unfinished -> "unbuildable"
                     [] OTHER -> "operation"
           message == [form |-> form, cookie |-> c.cookie, id |-> c.id]
<1>1. \A m : FetchReply(TRUE, m) = InternalServerError
  BY DEF FetchReply
<1>2. data = <<>> => FetchReply(FALSE, Result) = NoContent
  BY DEF FetchReply, Result
<1>3. data # <<>> => Result = <<message>>
  BY DEF Result
<1>4. <<message>> # <<>> /\ <<message>>[1] = message /\ message.form = form
  OBVIOUS
<1>5. /\ c.asks \in {"no json", "no cwmp"} \cup Unfinished => form # "operation"
      /\ c.asks \notin {"no json", "no cwmp"} \cup Unfinished => form = "operation"
  OBVIOUS
<1>6. OperationReply(c) = Reply(200, c.cookie, c.id)
  BY DEF OperationReply, FetchReply
<1>7. message.cookie = c.cookie /\ message.id = c.id
  OBVIOUS
<1> HIDE DEF message, form
<1>8. FetchReply(FALSE, <<message>>) =
        IF form # "operation" THEN InternalServerError ELSE Reply(200, c.cookie, c.id)
  BY <1>4, <1>7 DEF FetchReply
<1> QED
  BY <1>1, <1>2, <1>3, <1>5, <1>6, <1>8

(* The steps that reply, one by one. *)
LEMMA BeginStates ==
  ASSUME NEW r \in Request, Begin(r)
  PROVE  AsStated'
<1>1. CASE Refused(r)
  <2>1. request'[1] = r /\ reply' = <<Refusal(r)>>
    BY <1>1 DEF Begin
  <2>2. Answer' = Refusal(r)
    BY <1>1, <2>1 DEF Answer
  <2> QED
    BY <2>1, <2>2 DEF AsStated
<1>2. CASE ~Refused(r)
  BY <1>2, Elsewhere DEF Begin
<1> QED
  BY <1>1, <1>2

(* The replies that need no fetch. *)
LEMMA NotifiedStates ==
  ASSUME OneMethod, ResponseIInv, Notified
  PROVE  AsStated'
<1> USE DEF ResponseIInv, ResponseParts
<1>1. /\ at = "notify" /\ request[1] \in Request /\ reply = <<>> /\ ~Refused(request[1])
      /\ UNCHANGED <<request, tag, starved>>
  BY Requests DEF Notified, Replies, OneAtATime
<1>2. CASE at' = "clean" /\ UNCHANGED vars
  <2> SUFFICES ASSUME ~starved PROVE reply' = <<Answer>>'
    BY <1>1 DEF AsStated
  <2>1. Answer' = Answer
    BY <1>1, <1>2, AnswerStays DEF vars, clientVars
  <2>2. Answer = NotifiedReply(request[1], tag, rc # 0, Result)
    BY <1>1, AnswerIs DEF Analyzed
  <2>3. \/ IsInform(tag) /\ reply' = <<InformResponse>>
        \/ /\ ~IsInform(tag) /\ IsUnprovisioned(request[1])
           /\ reply' = <<InitialProvisioning>>
        \/ /\ ~IsInform(tag) /\ ~IsUnprovisioned(request[1]) /\ ~AsksForWork(request[1], tag)
           /\ reply' = <<NoContent>>
    BY <1>1, <1>2, TheReply DEF Notified, Give
  <2> QED
    BY <2>1, <2>2, <2>3 DEF NotifiedReply
<1>3. CASE at' = "fetch"
  BY <1>3, Elsewhere
<1> QED
  BY <1>2, <1>3 DEF Notified

(* What is answered once a fetch is through. *)
LEMMA FetchAnswer ==
  ASSUME OneMethod, ResponseIInv, at \in {"fetch", "parse", "create"}, ~starved
  PROVE  Answer = FetchReply(rc # 0, Result)
<1> USE DEF ResponseIInv, ResponseParts
<1>1. request[1] \in Request /\ ~Refused(request[1])
  BY Requests DEF Replies, OneAtATime
<1>2. tag = Known_Tag(request[1]) /\ NeedsFetch(request[1], tag)
  BY DEF Analyzed, Turns
<1> QED
  BY <1>1, <1>2, AnswerIs

(* The fetch has failed, or there was nothing. *)
LEMMA FetchedStates ==
  ASSUME OneMethod, ResponseIInv, Fetched
  PROVE  AsStated'
<1> USE DEF ResponseIInv, ResponseParts
<1>1. /\ at = "fetch" /\ reply = <<>> /\ UNCHANGED <<vars, request>>
      /\ starved' = (starved \/ short)
  BY DEF Fetched, Replies
<1>2. Answer' = Answer
  BY <1>1, AnswerStays DEF vars, clientVars
<1>3. \/ rc # 0 /\ reply' = <<InternalServerError>>
      \/ rc = 0 /\ data = <<>> /\ reply' = <<NoContent>>
      \/ at' = "parse"
  BY <1>1, TheReply DEF Fetched, FetchError, Give
<1>4. ~starved => reply' = <<Answer>> \/ at' = "parse"
  BY <1>1, <1>3, FetchAnswer, FetchReplies
<1> QED
  BY <1>1, <1>2, <1>4, Elsewhere DEF AsStated

(* The message is not JSON. *)
LEMMA ParseStates ==
  ASSUME OneMethod, ResponseIInv, Parse
  PROVE  AsStated'
<1> USE DEF ResponseIInv, ResponseParts
<1>1. /\ at = "parse" /\ reply = <<>> /\ UNCHANGED <<vars, request>>
      /\ rc = 0 /\ data # <<>>
  BY DEF Parse, Replies, Turns
<1>2. Answer' = Answer
  BY <1>1, AnswerStays DEF vars, clientVars
<1>3. \/ reply' = <<InternalServerError>> /\ starved' = (starved \/ Readable)
      \/ at' = "create"
  BY <1>1, TheReply DEF Parse, Give
<1>4. ~starved /\ ~Readable => Answer = InternalServerError
  BY <1>1, FetchAnswer, FetchReplies DEF Readable, Turns
<1> QED
  BY <1>2, <1>3, <1>4, Elsewhere DEF AsStated

(* The message has no cwmp. *)
LEMMA StartCreateStates ==
  ASSUME OneMethod, ResponseIInv, StartCreate
  PROVE  AsStated'
<1> USE DEF ResponseIInv, ResponseParts
<1> DEFINE c == Content[data[1]]
<1>1. /\ at = "create" /\ reply = <<>> /\ UNCHANGED <<vars, request>>
      /\ rc = 0 /\ data # <<>>
  BY DEF StartCreate, Replies, Turns
<1>2. Answer' = Answer
  BY <1>1, AnswerStays DEF vars, clientVars
<1>3. \/ reply' = <<InternalServerError>> /\ starved' = (starved \/ c.asks # "no cwmp")
      \/ at' = "create"
  BY <1>1, TheReply DEF StartCreate, CreateFails, Give
<1>4. ~starved /\ c.asks = "no cwmp" => Answer = InternalServerError
  BY <1>1, FetchAnswer, FetchReplies
<1> QED
  BY <1>2, <1>3, <1>4, Elsewhere DEF AsStated

(* The message asks for a download of an unknown file type. *)
LEMMA CreateErrorStates ==
  ASSUME OneMethod, ResponseIInv, CreateError
  PROVE  AsStated'
<1> USE DEF ResponseIInv, ResponseParts
<1> DEFINE c == Content[data[1]]
<1>1. /\ at = "create" /\ "doc" \in heap /\ passes # <<>> /\ reply = <<>>
      /\ UNCHANGED <<vars, request>> /\ rc = 0 /\ data # <<>>
      /\ starved' = (starved \/ Head(passes)[1] # "unknown file_type")
  BY DEF CreateError, Replies, Turns
<1>2. Answer' = Answer
  BY <1>1, AnswerStays DEF vars, clientVars
<1>3. reply' = <<InternalServerError>> \/ at' = "aborted"
  BY <1>1, TheReply DEF CreateError, CreateFails, Give
<1>4. Head(passes)[1] = "unknown file_type" => c.asks \in Unfinished
  BY <1>1, WhatIsAsked DEF Unfinished
<1>5. ~starved /\ c.asks \in Unfinished => Answer = InternalServerError
  BY <1>1, FetchAnswer, FetchReplies
<1> QED
  BY <1>1, <1>2, <1>3, <1>4, <1>5, Elsewhere DEF AsStated

(* The document has been made. *)
LEMMA Reply200States ==
  ASSUME OneMethod, ResponseIInv, Reply200
  PROVE  AsStated'
<1> USE DEF ResponseIInv, ResponseParts
<1> DEFINE c == Content[data[1]]
<1>1. /\ at = "create" /\ "doc" \in heap /\ passes = <<>> /\ reply = <<>>
      /\ UNCHANGED <<vars, request>> /\ rc = 0 /\ data # <<>>
      /\ reply' = <<OperationReply(c)>>
      /\ starved' = starved \/ at' = "aborted"
  BY TheReply DEF Reply200, Replies, Turns, Give
<1>2. Answer' = Answer
  BY <1>1, AnswerStays DEF vars, clientVars
<1>3. c.asks \notin {"no json", "no cwmp"} \cup Unfinished
  BY <1>1 DEF Turns
<1>4. ~starved => Answer = OperationReply(c)
  BY <1>1, <1>3, FetchAnswer, FetchReplies
<1> QED
  BY <1>1, <1>2, <1>4, Elsewhere DEF AsStated

(* A request that has been answered, or is being worked on elsewhere. *)
LEMMA WaitingStates ==
  ASSUME ResponseIInv, AsStated, UNCHANGED <<request, starved, reply>>,
         at' = at \/ (at = "clean" /\ at' = "idle"),
         pc # "idle" \/ UNCHANGED clientVars
  PROVE  AsStated'
<1>1. CASE at \in {"notify", "fetch"}
  BY <1>1, Elsewhere
<1>2. CASE at \notin {"notify", "fetch"}
  <2>1. UNCHANGED <<rc, data>>
    BY <1>2 DEF ResponseIInv, ResponseParts, OneAtATime, clientVars
  <2> QED
    BY <2>1, AnswerStays DEF AsStated, Answered
<1> QED
  BY <1>1, <1>2

(* Every step keeps the reply stated. *)
LEMMA StatesStep ==
  ASSUME OneMethod, ResponseIInv, AsStated, [ResponseNext]_allVars
  PROVE  AsStated'
<1>1. CASE UNCHANGED allVars
  BY <1>1, WaitingStates DEF allVars, vars, responseVars
<1>2. CASE \E r \in Request : Begin(r)
  BY <1>2, BeginStates
<1>3. CASE Allocate
  BY <1>3, Elsewhere DEF Allocate, AsStated
<1>4. CASE Read \/ AnalysisFails \/ TypePass \/ ExtractionPass \/ ContentFails \/ StaleStatus
  BY <1>4, Elsewhere DEF Read, AnalysisFails, TypePass, ExtractionPass, ContentFails, Stops,
                         StaleStatus
<1>5. CASE \/ EndOfAnalysis \/ NotifyBackend \/ CreatePass
            \/ NullValue \/ NotificationFails \/ NullCreate
  BY <1>5, Elsewhere DEF EndOfAnalysis, NotifyBackend, CreatePass, NullValue,
                         NotificationFails, NullCreate, Stops
<1>6. CASE AmqpStep
  <2>1. pc # "idle" /\ UNCHANGED responseVars
    BY <1>6, SetupIs DEF AmqpStep, SetupStep, SetupStage, Publish, GetReply, ContentHeader,
                         BodyFrame, Close
  <2> QED
    BY <2>1, WaitingStates DEF responseVars
<1>7. CASE Notified \/ Fetched \/ Parse
  BY <1>7, NotifiedStates, FetchedStates, ParseStates
<1>8. CASE StartCreate \/ CreateError \/ Reply200
  BY <1>8, StartCreateStates, CreateErrorStates, Reply200States
<1>9. CASE Clean
  <2>1. /\ at = "clean" /\ at' \in {"idle", "aborted"}
        /\ UNCHANGED <<request, starved, reply, clientVars>>
    BY <1>9 DEF Clean, vars
  <2> QED
    BY <2>1, WaitingStates, Elsewhere
<1>10. CASE \E b \in Body : Enqueue(b) /\ UNCHANGED responseVars
  BY <1>10, WaitingStates DEF Enqueue, responseVars
<1> QED
  BY <1>1, <1>2, <1>3, <1>4, <1>5, <1>6, <1>7, <1>8, <1>9, <1>10 DEF ResponseNext

(***************************************************************************)
(* While there is memory, send_response comes, over all its passes, calls  *)
(* and labels, to the one reply that RequestProcessing states as a         *)
(* function of the request, its document and the fetch.                    *)
(***************************************************************************)
THEOREM RepliesAsStated ==
  ASSUME OneMethod
  PROVE  ResponseSpec => []AnswersAsStated
<1>1. ResponseInit => AsStated
  BY DEF ResponseInit, AsStated, Answered
<1>2. ResponseIInv /\ AsStated /\ [ResponseNext]_allVars => AsStated'
  BY StatesStep
<1>3. AsStated => AnswersAsStated
  BY DEF AsStated, AnswersAsStated, Answer
<1> QED
  BY <1>1, <1>2, <1>3, ResponseIInvHolds, PTL DEF ResponseSpec

=============================================================================

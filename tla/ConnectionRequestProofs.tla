----------------------- MODULE ConnectionRequestProofs -----------------------
(***************************************************************************)
(* Proofs about ConnectionRequest for any requests, URLs, ttl and breaks.  *)
(***************************************************************************)
EXTENDS ConnectionRequest, Counting

-----------------------------------------------------------------------------
(***************************************************************************)
(* The inductive invariant.                                                *)
(***************************************************************************)
Command == {"ack"} \X {<<>>} \cup {"publish"} \X Message
Acking == {x \in Command : x[1] = "ack"}
Publishing == {x \in Command : x[1] = "publish"}

Typed ==
  /\ patient \in BOOLEAN /\ alive \in BOOLEAN /\ link \in BOOLEAN /\ bound \in BOOLEAN
  /\ waiting \subseteq Request
  /\ backlog \in Seq(Message) /\ unacked \in Seq(Message) /\ delayed \in Seq(Message)
  /\ calls \in Seq({"exchange", "queue", "bind"})
  /\ calls # <<>> => template \in Message
  /\ sent \in Seq(Command)
  /\ attempts \in [Request -> Nat]
  /\ completed \subseteq {r \in Request : attempts[r] > 0}
  /\ entered \in Nat /\ closed \in 0..MaxBreaks
  /\ IsFiniteSet(Tries)

Acks == Count(sent, Acking)
Publications == Count(sent, Publishing)
Made == Cardinality(Tries)

\* What was acted on waits for its acknowledgement.
Acked == Len(unacked) = Acks

\* The requests in circulation: each is a message, a publication, or a chain.
Tokens == Len(backlog) + Len(delayed) + Publications + Len(calls)

\* A request is once in circulation, or back there if the connection breaks now:
\* its publication is on its way behind its acknowledgement.
Once ==
  /\ \A j \in 0..Len(sent) :
       Len(backlog) + Len(delayed) + Upto(sent, j, Publishing) + Acks + Cardinality(waiting)
         <= Cardinality(Request) + Upto(sent, j, Acking)
  /\ Tokens + Cardinality(waiting) <= Cardinality(Request)
  /\ entered + Cardinality(waiting) <= Cardinality(Request) * (1 + closed)

\* The tokens go round: from the backlog to the chains, to the publications, to
\* the delay queue and back.  A cut parts those that have yet to have their turn
\* at a level of ttl from those that had it; b, d, s, k are its places in the
\* backlog, the delay queue, what is sent, and the calls.
Ordered(b, d, s, k) ==
  /\ b \in 0..Len(backlog) /\ d \in 0..Len(delayed) /\ s \in 0..Len(sent) /\ k \in 0..Len(calls)
  /\ d # 0 \/ s # 0 \/ k # 0 => b = Len(backlog)
  /\ s # 0 \/ k # 0 => d = Len(delayed)
  /\ k # 0 => s = Len(sent)

\* A message after the cut has less ttl than the level, one before it no more.
Below(q, n, level) ==
  \A i \in 1..Len(q) : q[i].ttl <= level /\ (i > n => q[i].ttl < level)

Levels(level, b, d, s, k) ==
  /\ level \in 1..Ttl
  /\ Below(backlog, b, level)
  /\ Below(delayed, d, level)
  /\ \A i \in 1..Len(sent) : sent[i][1] = "publish" =>
       sent[i][2].ttl <= level /\ (i > s => sent[i][2].ttl < level)
  /\ calls # <<>> => template.ttl <= level
  /\ k < Len(calls) => template.ttl < level

\* The attempts that may follow without another request: one for each token
\* before the cut, and level - 1 for all.
Early(b, d, s, k) == b + d + Upto(sent, s, Publishing) + k

Cut(level, b, d, s, k) ==
  /\ Ordered(b, d, s, k)
  /\ Levels(level, b, d, s, k)
  /\ Made + Tokens * (level - 1) + Early(b, d, s, k) <= Most(entered)

Bounded == \E level, b, d, s, k \in Nat : Cut(level, b, d, s, k)

IInv == /\ Typed
        /\ Acked
        /\ Once
        /\ Tokens <= entered
        /\ Bounded

-----------------------------------------------------------------------------
(***************************************************************************)
(* What the steps share.                                                   *)
(***************************************************************************)
\* All of these are numbers.
LEMMA Numbers ==
  ASSUME Typed
  PROVE  /\ Len(backlog) \in Nat /\ Len(delayed) \in Nat /\ Len(unacked) \in Nat
         /\ Len(calls) \in Nat /\ Len(sent) \in Nat
         /\ Acks \in Nat /\ Publications \in Nat /\ Tokens \in Nat /\ Made \in Nat
         /\ Cardinality(Request) \in Nat /\ Cardinality(waiting) \in Nat
         /\ Ttl \in Nat /\ Ttl >= 1 /\ MaxBreaks \in Nat /\ entered \in Nat
         /\ \A j \in 0..Len(sent) :
              /\ Upto(sent, j, Publishing) \in Nat /\ Upto(sent, j, Publishing) <= Publications
              /\ Upto(sent, j, Acking) \in Nat
<1>1. /\ Len(backlog) \in Nat /\ Len(delayed) \in Nat /\ Len(unacked) \in Nat
      /\ Len(calls) \in Nat /\ Len(sent) \in Nat
  BY DEF Typed
<1>2. Acks \in Nat /\ Publications \in Nat
  BY CountType DEF Typed, Acks, Publications
<1>3. Tokens \in Nat  BY <1>1, <1>2 DEF Tokens
<1>4. Made \in Nat  BY FS_CardinalityType DEF Typed, Made
<1>5. Cardinality(Request) \in Nat /\ Cardinality(waiting) \in Nat
  <2>1. IsFiniteSet(waiting)  BY RequestAssumption, FS_Subset DEF Typed
  <2> QED  BY <2>1, RequestAssumption, FS_CardinalityType
<1>6. Ttl \in Nat /\ Ttl >= 1 /\ MaxBreaks \in Nat /\ entered \in Nat
  BY BoundAssumption DEF Typed
<1>7. ASSUME NEW j \in 0..Len(sent)
      PROVE  /\ Upto(sent, j, Publishing) \in Nat /\ Upto(sent, j, Publishing) <= Publications
             /\ Upto(sent, j, Acking) \in Nat
  BY UptoType DEF Typed, Publications
<1> QED  BY <1>1, <1>2, <1>3, <1>4, <1>5, <1>6, <1>7

\* The bound leaves room for starting all over with whatever comes in.
LEMMA MostGrows ==
  ASSUME NEW n \in Nat, NEW u \in Nat, u >= 1
  PROVE  /\ Most(n) \in Nat /\ Most(n + u) \in Nat
         /\ Most(n) + Ttl * (n + u) <= Most(n + u)
<1> DEFINE q == n * (n + 1)
           z == (u - 1) * (2 * n + u)
           a == q \div 2
           e == (q + 2 * (n + u) + z) \div 2
<1>1. q \in Nat /\ z \in Nat /\ n + u \in Nat  OBVIOUS
<1>2. (n + u) * (n + u + 1) = q + 2 * (n + u) + z  OBVIOUS
<1>3. Most(n) = Ttl * a /\ Most(n + u) = Ttl * e  BY <1>2 DEF Most
<1> HIDE DEF q, z
<1>4. a \in Nat /\ e \in Nat /\ a + (n + u) <= e  BY <1>1
<1> HIDE DEF a, e
<1>5. PICK x \in Nat : e = a + (n + u) + x
  <2>1. e - (a + (n + u)) \in Nat  BY <1>1, <1>4
  <2> QED  BY <1>1, <1>4, <2>1
<1>6. Ttl \in Nat  BY BoundAssumption
<1>7. Ttl * e = Ttl * a + Ttl * (n + u) + Ttl * x  BY <1>1, <1>4, <1>5, <1>6
<1>8. Ttl * a \in Nat /\ Ttl * e \in Nat /\ Ttl * (n + u) \in Nat /\ Ttl * x \in Nat
  BY <1>1, <1>4, <1>6
<1> QED  BY <1>3, <1>7, <1>8

\* A command goes behind those on their way.
LEMMA Sends ==
  ASSUME Typed, NEW x \in Command, sent' = Append(sent, x)
  PROVE  /\ sent' \in Seq(Command) /\ Len(sent') = Len(sent) + 1
         /\ \A i \in 1..Len(sent) : sent'[i] = sent[i]
         /\ sent'[Len(sent) + 1] = x
         /\ Acks' = Acks + (IF x[1] = "ack" THEN 1 ELSE 0) /\ Acks' \in Nat
         /\ Publications' = Publications + (IF x[1] = "publish" THEN 1 ELSE 0)
         /\ Publications' \in Nat
         /\ \A j \in 0..Len(sent) :
              /\ Upto(sent', j, Publishing) = Upto(sent, j, Publishing)
              /\ Upto(sent', j, Acking) = Upto(sent, j, Acking)
         /\ Upto(sent', Len(sent) + 1, Publishing) = Publications'
         /\ Upto(sent', Len(sent) + 1, Acking) = Acks'
<1>1. sent \in Seq(Command)  BY DEF Typed
<1>2. /\ sent' \in Seq(Command) /\ Len(sent') = Len(sent) + 1
      /\ \A i \in 1..Len(sent) : sent'[i] = sent[i]
      /\ sent'[Len(sent) + 1] = x
  BY <1>1, AppendProperties
<1>3. /\ x \in Acking <=> x[1] = "ack"
      /\ x \in Publishing <=> x[1] = "publish"
  BY DEF Acking, Publishing
<1>4. \A S : /\ Count(sent', S) = Count(sent, S) + (IF x \in S THEN 1 ELSE 0)
             /\ Count(sent', S) \in Nat
  BY <1>1, <1>2, CountAppend, CountType
<1>5. Acks' = Count(sent', Acking) /\ Publications' = Count(sent', Publishing)
  BY DEF Acks, Publications, Acking, Publishing, Command
<1>6. \A S : \A j \in 0..Len(sent) : Upto(sent', j, S) = Upto(sent, j, S)
  BY <1>1, UptoAppend
<1>7. \A S : Upto(sent', Len(sent) + 1, S) = Count(sent', S)
  BY <1>2, UptoType
<1>8. /\ Acks' = Acks + (IF x[1] = "ack" THEN 1 ELSE 0) /\ Acks' \in Nat
      /\ Publications' = Publications + (IF x[1] = "publish" THEN 1 ELSE 0)
      /\ Publications' \in Nat
  BY <1>3, <1>4, <1>5 DEF Acks, Publications
<1> QED  BY <1>2, <1>5, <1>6, <1>7, <1>8

\* The broker takes the first of them.
LEMMA Takes ==
  ASSUME Typed, sent # <<>>, sent' = Tail(sent)
  PROVE  /\ Head(sent) \in Command /\ Head(sent) = sent[1] /\ Len(sent) >= 1
         /\ sent' \in Seq(Command) /\ Len(sent') = Len(sent) - 1
         /\ \A i \in 1..Len(sent') : sent'[i] = sent[i + 1]
         /\ Acks = Acks' + (IF Head(sent)[1] = "ack" THEN 1 ELSE 0) /\ Acks' \in Nat
         /\ Publications = Publications' + (IF Head(sent)[1] = "publish" THEN 1 ELSE 0)
         /\ Publications' \in Nat
         /\ \A j \in 1..Len(sent) :
              /\ Upto(sent, j, Publishing) = Upto(sent', j - 1, Publishing)
                                               + (IF Head(sent)[1] = "publish" THEN 1 ELSE 0)
              /\ Upto(sent, j, Acking) = Upto(sent', j - 1, Acking)
                                           + (IF Head(sent)[1] = "ack" THEN 1 ELSE 0)
         /\ \A j \in 0..Len(sent') : Upto(sent', j, Publishing) \in Nat /\ Upto(sent', j, Acking) \in Nat
         /\ Upto(sent', 0, Publishing) = 0
<1>1. sent \in Seq(Command)  BY DEF Typed
<1>2. /\ Head(sent) \in Command /\ Head(sent) = sent[1] /\ Len(sent) >= 1
      /\ sent' \in Seq(Command) /\ Len(sent') = Len(sent) - 1
      /\ \A i \in 1..Len(sent') : sent'[i] = sent[i + 1]
  <2>1. /\ Head(sent) \in Command /\ Head(sent) = sent[1]
        /\ sent' \in Seq(Command) /\ Len(sent') = Len(sent) - 1
        /\ \A i \in 1..Len(sent') : sent'[i] = sent[i + 1]
    BY <1>1, HeadTailProperties
  <2>2. Len(sent) \in Nat /\ Len(sent) # 0  BY <1>1, EmptySeq
  <2> QED  BY <2>1, <2>2
<1>3. /\ Head(sent) \in Acking <=> Head(sent)[1] = "ack"
      /\ Head(sent) \in Publishing <=> Head(sent)[1] = "publish"
  BY <1>2 DEF Acking, Publishing
<1>4. \A S : /\ Count(sent, S) = Count(sent', S) + (IF Head(sent) \in S THEN 1 ELSE 0)
             /\ Count(sent', S) \in Nat
  BY <1>1, <1>2, CountTail, CountType
<1>5. Acks' = Count(sent', Acking) /\ Publications' = Count(sent', Publishing)
  BY DEF Acks, Publications, Acking, Publishing, Command
<1>6. \A S : \A j \in 1..Len(sent) :
        Upto(sent, j, S) = Upto(sent', j - 1, S) + (IF Head(sent) \in S THEN 1 ELSE 0)
  BY <1>1, UptoTail
<1>7. \A S : Upto(sent', 0, S) = 0 /\ \A j \in 0..Len(sent') : Upto(sent', j, S) \in Nat
  BY <1>2, UptoType
<1>8. /\ Acks = Acks' + (IF Head(sent)[1] = "ack" THEN 1 ELSE 0) /\ Acks' \in Nat
      /\ Publications = Publications' + (IF Head(sent)[1] = "publish" THEN 1 ELSE 0)
      /\ Publications' \in Nat
  BY <1>3, <1>4, <1>5 DEF Acks, Publications
<1> QED  BY <1>2, <1>3, <1>6, <1>7, <1>8

\* A cut is within bounds.
LEMMA CutIs ==
  ASSUME Typed, NEW level \in Nat, NEW b \in Nat, NEW d \in Nat, NEW s \in Nat, NEW k \in Nat,
         Cut(level, b, d, s, k)
  PROVE  /\ Made + Tokens * (level - 1) + Early(b, d, s, k) <= Most(entered)
         /\ level - 1 \in Nat /\ level <= Ttl
         /\ b <= Len(backlog) /\ d <= Len(delayed) /\ s <= Len(sent) /\ k <= Len(calls)
         /\ Upto(sent, s, Publishing) \in Nat /\ Upto(sent, s, Publishing) <= Publications
         /\ Early(b, d, s, k) \in Nat
         /\ Tokens \in Nat /\ Made \in Nat /\ entered \in Nat /\ Most(entered) \in Nat
<1>1. Made + Tokens * (level - 1) + Early(b, d, s, k) <= Most(entered)  BY DEF Cut
<1>2. level \in 1..Ttl /\ Ttl \in Nat  BY BoundAssumption DEF Cut, Levels
<1>3. level - 1 \in Nat /\ level <= Ttl  BY <1>2
<1>4. /\ b \in 0..Len(backlog) /\ d \in 0..Len(delayed) /\ s \in 0..Len(sent) /\ k \in 0..Len(calls)
  BY DEF Cut, Ordered
<1>5. Upto(sent, s, Publishing) \in Nat /\ Upto(sent, s, Publishing) <= Publications
  BY <1>4, UptoType DEF Typed, Publications
<1>6. Early(b, d, s, k) \in Nat  BY <1>5 DEF Early
<1>7. b <= Len(backlog) /\ d <= Len(delayed) /\ s <= Len(sent) /\ k <= Len(calls)
  BY <1>4
<1>8. Tokens \in Nat /\ Made \in Nat /\ entered \in Nat  BY Numbers
<1>9. Most(entered) \in Nat  BY <1>8, MostGrows, 1 \in Nat
<1> QED  BY <1>1, <1>3, <1>5, <1>6, <1>7, <1>8, <1>9

\* The attempts so far are within the bound.
LEMMA MadeIsBounded ==
  ASSUME Typed, Bounded
  PROVE  Made <= Most(entered)
<1>1. PICK level, b, d, s, k \in Nat : Cut(level, b, d, s, k)  BY DEF Bounded
<1>2. /\ Made + Tokens * (level - 1) + Early(b, d, s, k) <= Most(entered)
      /\ level - 1 \in Nat /\ Early(b, d, s, k) \in Nat
  BY <1>1, CutIs
<1>3. Made \in Nat /\ Tokens \in Nat /\ entered \in Nat  BY Numbers
<1>4. Most(entered) \in Nat  BY <1>3, MostGrows, 1 \in Nat
<1>5. Tokens * (level - 1) \in Nat  BY <1>2, <1>3
<1> QED  BY <1>2, <1>3, <1>4, <1>5

\* A cut that moves on with the tokens still bounds the attempts.
LEMMA CutMoves ==
  ASSUME Typed, NEW level \in Nat, NEW b \in Nat, NEW d \in Nat, NEW s \in Nat, NEW k \in Nat,
         Cut(level, b, d, s, k),
         NEW b1 \in Nat, NEW d1 \in Nat, NEW s1 \in Nat, NEW k1 \in Nat,
         Ordered(b1, d1, s1, k1)', Levels(level, b1, d1, s1, k1)',
         Tokens' \in Nat, Tokens' <= Tokens,
         Made' \in Nat, Upto(sent', s1, Publishing) \in Nat,
         Made' + (b1 + d1 + Upto(sent', s1, Publishing) + k1) <= Made + Early(b, d, s, k),
         entered' = entered
  PROVE  Bounded'
<1>1. /\ Made + Tokens * (level - 1) + Early(b, d, s, k) <= Most(entered)
      /\ level - 1 \in Nat /\ Early(b, d, s, k) \in Nat
  BY CutIs
<1>2. PICK l \in Nat : l = level - 1  BY <1>1
<1>3. PICK e \in Nat : e = b1 + d1 + Upto(sent', s1, Publishing) + k1  OBVIOUS
<1>4. PICK t \in Nat : t = Tokens'  OBVIOUS
<1>5. PICK n \in Nat : n = Made'  OBVIOUS
<1>6. Tokens \in Nat /\ Made \in Nat /\ entered \in Nat  BY CutIs
<1>7. Most(entered) \in Nat  BY CutIs
<1>8. PICK x \in Nat : Tokens = t + x
  <2>1. t <= Tokens  BY <1>4
  <2>2. Tokens - t \in Nat /\ Tokens = t + (Tokens - t)  BY <1>6, <2>1
  <2> QED  BY <2>2
<1>9. Tokens * l = t * l + x * l  BY <1>8
<1>10. t * l \in Nat /\ x * l \in Nat  BY <1>8
<1>11. n + e <= Made + Early(b, d, s, k)  BY <1>3, <1>5
<1>12. Made + Tokens * l + Early(b, d, s, k) <= Most(entered)  BY <1>1, <1>2
<1>13. n + t * l + e <= Most(entered)
  <2> DEFINE tl == t * l
             xl == x * l
             Tl == Tokens * l
  <2>1. Tl = tl + xl /\ tl \in Nat /\ xl \in Nat  BY <1>9, <1>10
  <2>2. Made + Tl + Early(b, d, s, k) <= Most(entered)  BY <1>12
  <2> HIDE DEF tl, xl, Tl
  <2>3. n + tl + e <= Most(entered)
    BY <1>1, <1>6, <1>7, <1>11, <2>1, <2>2
  <2> QED  BY <2>3 DEF tl
<1>14. Most(entered)' = Most(entered)  BY DEF Most
<1>15. Made' + Tokens' * (level - 1) + Early(b1, d1, s1, k1)' <= Most(entered)'
  <2>1. Early(b1, d1, s1, k1)' = e  BY <1>3 DEF Early, Publishing, Command
  <2> QED  BY <1>2, <1>4, <1>5, <1>13, <1>14, <2>1
<1>16. Cut(level, b1, d1, s1, k1)'  BY <1>15 DEF Cut
<1> QED  BY <1>16 DEF Bounded

\* If nothing more is in circulation than has entered, a new start is bounded
\* once something comes in.
LEMMA Afresh ==
  ASSUME Typed, Bounded, Typed', Made' = Made, Tokens' <= entered',
         NEW u \in Nat, u >= 1, entered' = entered + u
  PROVE  Bounded'
<1>1. PICK b \in Nat, d \in Nat, s \in Nat, k \in Nat :
        b = Len(backlog') /\ d = Len(delayed') /\ s = Len(sent') /\ k = Len(calls')
  BY DEF Typed
<1>2. Ttl \in Nat /\ Ttl \in 1..Ttl  BY BoundAssumption
<1>3. \A m \in Message : m.ttl \in Nat /\ m.ttl <= Ttl  BY <1>2 DEF Message
<1>4. Upto(sent', s, Publishing) = Publications' /\ Publications' \in Nat
  <2>1. sent' \in Seq(Command)  BY DEF Typed, Command, Message
  <2>2. Upto(sent', s, Publishing) = Count(sent', Publishing) /\ Count(sent', Publishing) \in Nat
    BY <1>1, <2>1, UptoType, CountType
  <2>3. Publications' = Count(sent', Publishing)
    BY DEF Publications, Publishing, Command, Message
  <2> QED  BY <2>2, <2>3
<1>5. Ordered(b, d, s, k)'  BY <1>1 DEF Ordered
<1>6. Levels(Ttl, b, d, s, k)'
  <2>1. Below(backlog', b, Ttl) /\ Below(delayed', d, Ttl)
    <3>1. backlog' \in Seq(Message) /\ delayed' \in Seq(Message)  BY DEF Typed, Message
    <3>2. ASSUME NEW q \in Seq(Message), NEW i \in 1..Len(q)
          PROVE  q[i].ttl <= Ttl /\ (i > Len(q) => q[i].ttl < Ttl)
      <4>1. q[i] \in Message  BY ElementOfSeq
      <4>2. ~ (i > Len(q))  OBVIOUS
      <4> QED  BY <1>3, <4>1, <4>2
    <3> QED  BY <1>1, <3>1, <3>2 DEF Below
  <2>2. \A i \in 1..Len(sent') : sent'[i][1] = "publish" =>
          sent'[i][2].ttl <= Ttl /\ (i > s => sent'[i][2].ttl < Ttl)
    <3>1. sent' \in Seq(Command)  BY DEF Typed, Command, Message
    <3>2. ASSUME NEW i \in 1..Len(sent'), sent'[i][1] = "publish"
          PROVE  sent'[i][2].ttl <= Ttl /\ ~ (i > s)
      <4>1. sent'[i] \in Command  BY <3>1, ElementOfSeq
      <4>2. sent'[i][2] \in Message  BY <3>2, <4>1 DEF Command
      <4> QED  BY <1>1, <1>3, <4>2
    <3> QED  BY <3>2
  <2>3. calls' # <<>> => template'.ttl <= Ttl  BY <1>3 DEF Typed, Message
  <2>4. ~ (k < Len(calls'))  BY <1>1
  <2> QED  BY <1>2, <2>1, <2>2, <2>3, <2>4 DEF Levels
<1>7. Tokens' = b + d + Publications' + k  BY <1>1 DEF Tokens
<1>8. PICK t \in Nat : t = Tokens' /\ t = b + d + Upto(sent', s, Publishing) + k
  BY <1>1, <1>4, <1>7 DEF Publications
<1>9. Made <= Most(entered) /\ Made \in Nat /\ entered \in Nat  BY MadeIsBounded, Numbers
<1>10. PICK n \in Nat : n = entered + u  BY <1>9
<1>11. /\ Most(entered) \in Nat /\ Most(n) \in Nat
       /\ Most(entered) + Ttl * n <= Most(n)
  BY <1>9, <1>10, MostGrows
<1>12. t <= n  BY <1>8, <1>10
<1>13. PICK x \in Nat : n = t + x
  <2>1. n - t \in Nat /\ n = t + (n - t)  BY <1>12
  <2> QED  BY <2>1
<1>14. Ttl * n = Ttl * t + Ttl * x /\ Ttl * t \in Nat /\ Ttl * x \in Nat
  BY <1>2, <1>13
<1>15. Made + Ttl * t <= Most(n)
  <2> DEFINE Tn == Ttl * n
             Tt == Ttl * t
             Tx == Ttl * x
  <2>1. Tn = Tt + Tx /\ Tt \in Nat /\ Tx \in Nat /\ Most(entered) + Tn <= Most(n)
    BY <1>11, <1>14
  <2> HIDE DEF Tn, Tt, Tx
  <2>2. Made + Tt <= Most(n)  BY <1>9, <1>11, <2>1
  <2> QED  BY <2>2 DEF Tt
<1>16. t * (Ttl - 1) + t = Ttl * t  BY <1>2
<1>17. Made + t * (Ttl - 1) + t <= Most(n)
  <2>1. t * (Ttl - 1) \in Nat  BY <1>2
  <2> QED  BY <1>9, <1>15, <1>16, <2>1
<1>18. Most(entered)' = Most(n)
  <2>1. entered' = n  BY <1>10
  <2> QED  BY <2>1 DEF Most
<1>19. Early(b, d, s, k)' = t  BY <1>8 DEF Early, Publishing, Command
<1>20. Made' + Tokens' * (Ttl - 1) + Early(b, d, s, k)' <= Most(entered)'
  <2>1. Tokens' = t /\ Made' = Made  BY <1>8
  <2> QED  BY <1>17, <1>18, <1>19, <2>1
<1>21. Cut(Ttl, b, d, s, k)'  BY <1>5, <1>6, <1>20 DEF Cut
<1> QED  BY <1>1, <1>2, <1>21 DEF Bounded

\* When a request is made there is one attempt more.
LEMMA MadeGrows ==
  ASSUME Typed, NEW r \in Request, attempts' = [attempts EXCEPT ![r] = @ + 1]
  PROVE  /\ attempts' \in [Request -> Nat] /\ attempts'[r] > 0
         /\ \A q \in Request : attempts[q] > 0 => attempts'[q] > 0
         /\ IsFiniteSet(Tries)' /\ Made' = Made + 1
<1>1. attempts \in [Request -> Nat]  BY DEF Typed
<1>2. /\ attempts' \in [Request -> Nat] /\ attempts'[r] = attempts[r] + 1
      /\ \A q \in Request : q # r => attempts'[q] = attempts[q]
  BY <1>1
<1> DEFINE new == <<r, attempts[r] + 1>>
<1>3. Tries' = Tries \cup {new}
  <2>1. ASSUME NEW x \in Tries' PROVE x \in Tries \cup {new}
    <3>1. PICK q \in Request : x \in {q} \X (1..attempts'[q])  BY <2>1 DEF Tries
    <3>2. CASE q = r
      <4>1. PICK i \in 1..(attempts[r] + 1) : x = <<r, i>>  BY <1>2, <3>1, <3>2
      <4>2. CASE i = attempts[r] + 1  BY <4>1, <4>2
      <4>3. CASE i # attempts[r] + 1
        <5>1. i \in 1..attempts[r]  BY <1>1, <4>3
        <5>2. x \in {r} \X (1..attempts[r])  BY <4>1, <5>1
        <5> QED  BY <5>2 DEF Tries
      <4> QED  BY <4>2, <4>3
    <3>3. CASE q # r
      <4>1. x \in {q} \X (1..attempts[q])  BY <1>2, <3>1, <3>3
      <4> QED  BY <4>1 DEF Tries
    <3> QED  BY <3>2, <3>3
  <2>2. ASSUME NEW x \in Tries PROVE x \in Tries'
    <3>1. PICK q \in Request : x \in {q} \X (1..attempts[q])  BY <2>2 DEF Tries
    <3>2. attempts[q] \in Nat /\ attempts'[q] \in Nat /\ attempts[q] <= attempts'[q]
      <4>1. attempts[q] \in Nat /\ attempts'[q] \in Nat  BY <1>1, <1>2
      <4>2. CASE q = r  BY <1>2, <4>1, <4>2
      <4>3. CASE q # r  BY <1>2, <4>1, <4>3
      <4> QED  BY <4>1, <4>2, <4>3
    <3>3. 1..attempts[q] \subseteq 1..attempts'[q]  BY <3>2
    <3>4. x \in {q} \X (1..attempts'[q])  BY <3>1, <3>3
    <3> QED  BY <3>4 DEF Tries
  <2>3. new \in Tries'
    <3>1. attempts[r] + 1 \in 1..attempts'[r]  BY <1>1, <1>2
    <3>2. new \in {r} \X (1..attempts'[r])  BY <3>1
    <3> QED  BY <3>2 DEF Tries
  <2> QED  BY <2>1, <2>2, <2>3
<1>4. new \notin Tries
  <2>1. SUFFICES ASSUME NEW q \in Request, new \in {q} \X (1..attempts[q]) PROVE FALSE
    BY DEF Tries
  <2>2. q = r /\ attempts[r] + 1 \in 1..attempts[r]  BY <2>1
  <2> QED  BY <1>1, <2>2
<1> HIDE DEF new
<1>5. IsFiniteSet(Tries)  BY DEF Typed
<1>6. IsFiniteSet(Tries \cup {new}) /\ Cardinality(Tries \cup {new}) = Cardinality(Tries) + 1
  BY <1>4, <1>5, FS_AddElement
<1>7. Made' = Made + 1  BY <1>3, <1>6 DEF Made
<1>8. \A q \in Request : attempts[q] > 0 => attempts'[q] > 0
  <2>1. SUFFICES ASSUME NEW q \in Request, attempts[q] > 0 PROVE attempts'[q] > 0  OBVIOUS
  <2>2. CASE q = r  BY <1>1, <1>2, <2>1, <2>2
  <2>3. CASE q # r  BY <1>2, <2>1, <2>3
  <2> QED  BY <2>2, <2>3
<1>9. attempts'[r] > 0  BY <1>1, <1>2
<1> QED  BY <1>2, <1>3, <1>6, <1>7, <1>8, <1>9

-----------------------------------------------------------------------------
(***************************************************************************)
(* A message has its turn: the backlog is one shorter, n attempts are made *)
(* of the first, and c chains are started.                                 *)
(***************************************************************************)
Turn(c, n) ==
  /\ backlog # <<>>
  /\ backlog' = Tail(backlog) /\ delayed' = delayed /\ entered' = entered
  /\ sent' = Append(sent, <<"ack", <<>>>>)
  /\ c <= n
  /\ n = 1 => Head(backlog).ttl >= 1
  /\ c = 0 => calls' = calls /\ template' = template
  /\ c = 1 => calls' = Append(calls, "exchange") /\ template'.ttl = Head(backlog).ttl - 1
  /\ Made' = Made + n

\* What a turn does to the numbers.
LEMMA TurnCounts ==
  ASSUME Typed, NEW c \in {0, 1}, NEW n \in {0, 1}, Turn(c, n)
  PROVE  /\ Head(backlog) \in Message /\ Head(backlog) = backlog[1]
         /\ backlog' \in Seq(Message)
         /\ Len(backlog) >= 1 /\ Len(backlog') = Len(backlog) - 1
         /\ \A i \in 1..Len(backlog') : backlog'[i] = backlog[i + 1]
         /\ sent' \in Seq(Command) /\ Len(sent') = Len(sent) + 1
         /\ \A i \in 1..Len(sent) : sent'[i] = sent[i]
         /\ sent'[Len(sent) + 1][1] = "ack"
         /\ Acks' = Acks + 1
         /\ Publications' = Publications
         /\ \A j \in 0..Len(sent) :
              /\ Upto(sent', j, Publishing) = Upto(sent, j, Publishing)
              /\ Upto(sent', j, Acking) = Upto(sent, j, Acking)
         /\ Upto(sent', Len(sent) + 1, Publishing) = Publications
         /\ Upto(sent', Len(sent) + 1, Acking) = Acks + 1
         /\ Len(calls') = Len(calls) + c /\ calls' \in Seq({"exchange", "queue", "bind"})
         /\ Tokens' = (Tokens - 1) + c /\ Tokens' \in Nat
<1>1. /\ backlog # <<>> /\ backlog' = Tail(backlog) /\ delayed' = delayed
      /\ sent' = Append(sent, <<"ack", <<>>>>)
  BY DEF Turn
<1>2. /\ Head(backlog) \in Message /\ Head(backlog) = backlog[1]
      /\ backlog' \in Seq(Message)
      /\ Len(backlog) >= 1 /\ Len(backlog') = Len(backlog) - 1
      /\ \A i \in 1..Len(backlog') : backlog'[i] = backlog[i + 1]
  <2>1. backlog \in Seq(Message)  BY DEF Typed
  <2>2. /\ Head(backlog) \in Message /\ Head(backlog) = backlog[1]
        /\ backlog' \in Seq(Message) /\ Len(backlog') = Len(backlog) - 1
        /\ \A i \in 1..Len(backlog') : backlog'[i] = backlog[i + 1]
    BY <1>1, <2>1, HeadTailProperties
  <2>3. Len(backlog) \in Nat /\ Len(backlog) # 0  BY <1>1, <2>1, EmptySeq
  <2> QED  BY <2>2, <2>3
<1>3. PICK x \in Command : x = <<"ack", <<>>>>  BY DEF Command
<1>4. x[1] = "ack" /\ x[1] # "publish" /\ sent' = Append(sent, x)  BY <1>1, <1>3
<1>5. /\ sent' \in Seq(Command) /\ Len(sent') = Len(sent) + 1
      /\ \A i \in 1..Len(sent) : sent'[i] = sent[i]
      /\ sent'[Len(sent) + 1] = x
      /\ Acks' = Acks + (IF x[1] = "ack" THEN 1 ELSE 0)
      /\ Publications' = Publications + (IF x[1] = "publish" THEN 1 ELSE 0)
      /\ Publications' \in Nat
      /\ \A j \in 0..Len(sent) :
           /\ Upto(sent', j, Publishing) = Upto(sent, j, Publishing)
           /\ Upto(sent', j, Acking) = Upto(sent, j, Acking)
      /\ Upto(sent', Len(sent) + 1, Publishing) = Publications'
      /\ Upto(sent', Len(sent) + 1, Acking) = Acks'
  BY <1>4, Sends
<1>6. Publications \in Nat /\ Len(calls) \in Nat /\ Len(delayed) \in Nat /\ Len(backlog) \in Nat
  BY Numbers
<1>7. Acks' = Acks + 1 /\ Publications' = Publications
  BY <1>4, <1>5, <1>6
<1>8. Len(calls') = Len(calls) + c /\ calls' \in Seq({"exchange", "queue", "bind"})
  <2>1. calls \in Seq({"exchange", "queue", "bind"})  BY DEF Typed
  <2>2. CASE c = 0  BY <2>1, <2>2, <1>6 DEF Turn
  <2>3. CASE c = 1
    <3>1. calls' = Append(calls, "exchange")  BY <2>3 DEF Turn
    <3> QED  BY <2>1, <2>3, <3>1, AppendProperties
  <2> QED  BY <2>2, <2>3
<1>9. Tokens' = (Tokens - 1) + c /\ Tokens' \in Nat
  <2>1. PICK p \in Nat : p = Publications /\ p = Publications'  BY <1>6, <1>7
  <2>2. Len(delayed') = Len(delayed)  BY <1>1
  <2>3. Tokens' = (Len(backlog) - 1) + Len(delayed) + p + (Len(calls) + c)
    BY <1>2, <1>8, <2>1, <2>2 DEF Tokens
  <2>4. Tokens = Len(backlog) + Len(delayed) + p + Len(calls)  BY <2>1 DEF Tokens
  <2> QED  BY <1>2, <1>6, <2>3, <2>4
<1> QED  BY <1>2, <1>4, <1>5, <1>7, <1>8, <1>9

\* It comes before the cut.
LEMMA TurnBefore ==
  ASSUME Typed, NEW c \in {0, 1}, NEW n \in {0, 1}, Turn(c, n),
         NEW level \in Nat, NEW b \in Nat, NEW d \in Nat, NEW s \in Nat, NEW k \in Nat,
         Cut(level, b, d, s, k), b >= 1
  PROVE  Bounded'
<1>0. /\ Head(backlog) \in Message /\ Head(backlog) = backlog[1]
      /\ Len(backlog) >= 1 /\ Len(backlog') = Len(backlog) - 1
      /\ \A i \in 1..Len(backlog') : backlog'[i] = backlog[i + 1]
      /\ Len(sent') = Len(sent) + 1
      /\ \A i \in 1..Len(sent) : sent'[i] = sent[i]
      /\ sent'[Len(sent) + 1][1] = "ack"
      /\ \A j \in 0..Len(sent) : Upto(sent', j, Publishing) = Upto(sent, j, Publishing)
      /\ Upto(sent', Len(sent) + 1, Publishing) = Publications
      /\ Len(calls') = Len(calls) + c
      /\ Tokens' = (Tokens - 1) + c /\ Tokens' \in Nat
  BY TurnCounts
<1>1. PICK s1 \in Nat : s1 = IF k # 0 THEN Len(sent) + 1 ELSE s
  BY Numbers
<1>2. Ordered(b, d, s, k) /\ Levels(level, b, d, s, k)  BY DEF Cut
<1>3. /\ Len(backlog) \in Nat /\ Len(delayed) \in Nat /\ Len(calls) \in Nat /\ Len(sent) \in Nat
      /\ Tokens \in Nat /\ Made \in Nat /\ Publications \in Nat
  BY Numbers
<1>4. PICK b1 \in Nat : b = b1 + 1
  <2>1. b - 1 \in Nat /\ b = (b - 1) + 1  OBVIOUS
  <2> QED  BY <2>1
<1>5. delayed' = delayed /\ entered' = entered /\ Made' = Made + n  BY DEF Turn
<1>6. Ordered(b1, d, s1, k)'
  <2>1. /\ b \in 0..Len(backlog) /\ d \in 0..Len(delayed) /\ s \in 0..Len(sent) /\ k \in 0..Len(calls)
        /\ d # 0 \/ s # 0 \/ k # 0 => b = Len(backlog)
        /\ s # 0 \/ k # 0 => d = Len(delayed)
    BY <1>2 DEF Ordered
  <2>2. /\ Len(backlog') = Len(backlog) - 1 /\ Len(delayed') = Len(delayed)
        /\ Len(sent') = Len(sent) + 1 /\ Len(calls') = Len(calls) + c
    BY <1>0, <1>5
  <2>3. b1 \in 0..Len(backlog') /\ d \in 0..Len(delayed') /\ s1 \in 0..Len(sent') /\ k \in 0..Len(calls')
    BY <1>1, <1>3, <1>4, <2>1, <2>2, SMTT(30)
  <2>4. d # 0 \/ s1 # 0 \/ k # 0 => b1 = Len(backlog')
    BY <1>1, <1>3, <1>4, <2>1, <2>2
  <2>5. s1 # 0 \/ k # 0 => d = Len(delayed')  BY <1>1, <2>1, <2>2
  <2>6. k # 0 => s1 = Len(sent')  BY <1>1, <2>2
  <2> QED  BY <2>3, <2>4, <2>5, <2>6 DEF Ordered
<1>7. Levels(level, b1, d, s1, k)'
  <2>1. /\ level \in 1..Ttl
        /\ Below(backlog, b, level) /\ Below(delayed, d, level)
        /\ \A i \in 1..Len(sent) : sent[i][1] = "publish" =>
             sent[i][2].ttl <= level /\ (i > s => sent[i][2].ttl < level)
        /\ calls # <<>> => template.ttl <= level
        /\ k < Len(calls) => template.ttl < level
    BY <1>2 DEF Levels
  <2>2. Below(backlog', b1, level)
    <3>1. ASSUME NEW i \in 1..Len(backlog')
          PROVE  backlog'[i].ttl <= level /\ (i > b1 => backlog'[i].ttl < level)
      <4>1. i + 1 \in 1..Len(backlog) /\ backlog'[i] = backlog[i + 1]
        <5>1. PICK h \in Nat : h = Len(backlog) /\ Len(backlog') = h - 1 /\ h >= 1
          BY <1>0, <1>3
        <5>2. i \in 1..(h - 1)  BY <5>1
        <5>3. i + 1 \in 1..h  BY <5>1, <5>2
        <5> QED  BY <1>0, <5>1, <5>3
      <4>2. i > b1 => i + 1 > b  BY <1>4
      <4> QED  BY <2>1, <4>1, <4>2 DEF Below
    <3> QED  BY <3>1 DEF Below
  <2>3. Below(delayed', d, level)  BY <1>5, <2>1
  <2>4. ASSUME NEW i \in 1..Len(sent'), sent'[i][1] = "publish"
        PROVE  sent'[i][2].ttl <= level /\ (i > s1 => sent'[i][2].ttl < level)
    <3>1. Len(sent') = Len(sent) + 1 /\ sent'[Len(sent) + 1][1] = "ack"  BY <1>0
    <3>2. i # Len(sent) + 1  BY <2>4, <3>1
    <3>3. i \in 1..Len(sent)  BY <1>3, <3>1, <3>2
    <3>4. sent'[i] = sent[i]  BY <1>0, <3>3
    <3>5. i > s1 => i > s  BY <1>1, <1>3, <3>3
    <3> QED  BY <2>1, <2>4, <3>3, <3>4, <3>5
  <2>5. /\ calls' # <<>> => template'.ttl <= level
        /\ k < Len(calls') => template'.ttl < level
    <3>1. CASE c = 0
      <4>1. calls' = calls /\ template' = template  BY <3>1 DEF Turn
      <4> QED  BY <2>1, <4>1
    <3>2. CASE c = 1
      <4>1. template'.ttl = Head(backlog).ttl - 1  BY <3>2 DEF Turn
      <4>2. 1 \in 1..Len(backlog) /\ Head(backlog) = backlog[1]  BY <1>0, <1>3
      <4>3. Head(backlog).ttl <= level  BY <2>1, <4>2 DEF Below
      <4>4. Head(backlog).ttl \in Nat  BY <1>0, BoundAssumption DEF Message
      <4>5. PICK x \in Nat : x = Head(backlog).ttl  BY <4>4
      <4>6. x - 1 <= level /\ x - 1 < level  BY <4>3, <4>5
      <4> QED  BY <4>1, <4>5, <4>6
    <3> QED  BY <3>1, <3>2
  <2> QED  BY <2>1, <2>2, <2>3, <2>4, <2>5 DEF Levels
<1>8. Upto(sent', s1, Publishing) = Upto(sent, s, Publishing)
  <2>1. s \in 0..Len(sent) /\ (k # 0 => s = Len(sent))  BY <1>2 DEF Ordered
  <2>2. CASE k = 0  BY <1>0, <1>1, <2>1, <2>2
  <2>3. CASE k # 0
    <3>1. Upto(sent, Len(sent), Publishing) = Publications
      BY UptoType DEF Typed, Publications
    <3>2. Upto(sent', Len(sent) + 1, Publishing) = Publications  BY <1>0
    <3> QED  BY <1>1, <2>1, <2>3, <3>1, <3>2
  <2> QED  BY <2>2, <2>3
<1>9. PICK p \in Nat : p = Upto(sent, s, Publishing) /\ p = Upto(sent', s1, Publishing)
  BY <1>8, CutIs
<1>10. Made' \in Nat /\ Made' + (b1 + d + p + k) <= Made + Early(b, d, s, k)
  <2>1. Early(b, d, s, k) = b + d + p + k  BY <1>9 DEF Early
  <2>2. PICK m \in Nat : m = Made  BY <1>3
  <2>3. Made' = m + n  BY <1>5, <2>2
  <2>4. m + n \in Nat /\ (m + n) + (b1 + d + p + k) <= m + (b + d + p + k)  BY <1>4
  <2> QED  BY <2>1, <2>2, <2>3, <2>4
<1>11. Tokens' \in Nat /\ Tokens' <= Tokens
  <2>1. PICK t \in Nat, t1 \in Nat : t = Tokens /\ t1 = Tokens'  BY <1>0, <1>3
  <2>2. t1 = (t - 1) + c  BY <1>0, <2>1
  <2>3. t1 <= t  BY <2>1, <2>2
  <2> QED  BY <2>1, <2>3
<1> QED  BY <1>5, <1>6, <1>7, <1>9, <1>10, <1>11, CutMoves, SMTT(30), ZenonT(40)

\* When nobody has to have a turn at a level, all have one at the next.
LEMMA Relevel ==
  ASSUME Typed, NEW level \in Nat, level >= 2, Cut(level, 0, 0, 0, 0)
  PROVE  Cut(level - 1, Len(backlog), Len(delayed), Len(sent), Len(calls))
<1>1. PICK b \in Nat, d \in Nat, s \in Nat, k \in Nat :
        b = Len(backlog) /\ d = Len(delayed) /\ s = Len(sent) /\ k = Len(calls)
  BY Numbers
<1>2. Levels(level, 0, 0, 0, 0)  BY DEF Cut
<1>3. Ordered(b, d, s, k)  BY <1>1 DEF Ordered
<1>4. level - 1 \in 1..Ttl  BY <1>2, BoundAssumption DEF Levels
<1>5. \A m \in Message : m.ttl \in Nat /\ (m.ttl < level => m.ttl <= level - 1)
  BY BoundAssumption DEF Message
<1>6. Levels(level - 1, b, d, s, k)
  <2>1. ASSUME NEW q \in Seq(Message), Below(q, 0, level)
        PROVE  Below(q, Len(q), level - 1)
    <3>1. ASSUME NEW i \in 1..Len(q)
          PROVE  q[i].ttl <= level - 1 /\ ~ (i > Len(q))
      <4>1. q[i] \in Message  BY ElementOfSeq
      <4>2. i > 0 /\ ~ (i > Len(q))  OBVIOUS
      <4>3. q[i].ttl < level  BY <2>1, <4>2 DEF Below
      <4> QED  BY <1>5, <4>1, <4>2, <4>3
    <3> QED  BY <3>1 DEF Below
  <2>2. Below(backlog, b, level - 1) /\ Below(delayed, d, level - 1)
    BY <1>1, <1>2, <2>1 DEF Levels, Typed
  <2>3. ASSUME NEW i \in 1..Len(sent), sent[i][1] = "publish"
        PROVE  sent[i][2].ttl <= level - 1 /\ ~ (i > s)
    <3>1. sent[i] \in Command  BY ElementOfSeq DEF Typed
    <3>2. sent[i][2] \in Message  BY <2>3, <3>1 DEF Command
    <3>3. i > 0 /\ ~ (i > s)  BY <1>1
    <3>4. sent[i][2].ttl < level  BY <1>2, <2>3, <3>3 DEF Levels
    <3> QED  BY <1>5, <3>2, <3>3, <3>4
  <2>4. calls # <<>> => template.ttl <= level - 1
    <3>1. SUFFICES ASSUME calls # <<>> PROVE template.ttl <= level - 1  OBVIOUS
    <3>2. Len(calls) \in Nat /\ Len(calls) # 0  BY <3>1, EmptySeq DEF Typed
    <3>3. 0 < Len(calls)  BY <3>2
    <3>4. template.ttl < level /\ template \in Message
      BY <1>2, <3>1, <3>3 DEF Levels, Typed
    <3> QED  BY <1>5, <3>4
  <2>5. ~ (k < Len(calls))  BY <1>1
  <2> QED  BY <1>4, <2>2, <2>3, <2>4, <2>5 DEF Levels
<1>7. Made + Tokens * (level - 1) <= Most(entered)
  <2>1. Early(0, 0, 0, 0) = 0
    BY UptoType DEF Typed, Early
  <2>2. Made + Tokens * (level - 1) + Early(0, 0, 0, 0) <= Most(entered)  BY DEF Cut
  <2>3. level - 1 \in Nat  OBVIOUS
  <2>4. Tokens \in Nat /\ Made \in Nat  BY Numbers
  <2>5. Tokens * (level - 1) \in Nat  BY <2>3, <2>4
  <2> QED  BY <2>1, <2>2, <2>4, <2>5
<1>8. Early(b, d, s, k) = Tokens
  <2>1. Upto(sent, s, Publishing) = Publications
    BY <1>1, UptoType DEF Typed, Publications
  <2> QED  BY <1>1, <2>1, Numbers DEF Early, Tokens
<1>9. Made + Tokens * ((level - 1) - 1) + Early(b, d, s, k) <= Most(entered)
  <2>1. PICK t \in Nat : t = Tokens  BY Numbers
  <2>2. PICK l \in Nat : level - 1 = l + 1
    <3>1. level - 2 \in Nat /\ level - 1 = (level - 2) + 1  OBVIOUS
    <3> QED  BY <3>1
  <2>3. t * (l + 1) = t * l + t /\ t * l \in Nat  BY <2>2
  <2>4. (level - 1) - 1 = l  BY <2>2
  <2>5. Made + t * (l + 1) <= Most(entered)  BY <1>7, <2>1, <2>2
  <2>6. Made + (t * l + t) <= Most(entered)  BY <2>3, <2>5
  <2>7. PICK m \in Nat, y \in Nat : m = Made /\ y = t * l  BY <2>3, Numbers
  <2>8. m + y + t = m + (y + t)  BY <2>1, <2>7
  <2>9. Made + t * l + t <= Most(entered)  BY <2>6, <2>7, <2>8
  <2> QED  BY <1>8, <2>1, <2>4, <2>9
<1>10. Cut(level - 1, b, d, s, k)  BY <1>3, <1>6, <1>9 DEF Cut
<1> QED  BY <1>1, <1>10

\* Nothing is before the cut, and the message is ignored.
LEMMA TurnIgnored ==
  ASSUME Typed, Turn(0, 0), NEW level \in Nat, Cut(level, 0, 0, 0, 0)
  PROVE  Bounded'
<1>1. /\ backlog' \in Seq(Message) /\ Len(backlog') = Len(backlog) - 1
      /\ \A i \in 1..Len(backlog') : backlog'[i] = backlog[i + 1]
      /\ sent' \in Seq(Command) /\ Len(sent') = Len(sent) + 1
      /\ \A i \in 1..Len(sent) : sent'[i] = sent[i]
      /\ sent'[Len(sent) + 1][1] = "ack"
      /\ Upto(sent', 0, Publishing) = 0
      /\ Tokens' = (Tokens - 1) + 0 /\ Tokens' \in Nat
      /\ Len(backlog) >= 1
  BY TurnCounts, UptoType
<1>2. Levels(level, 0, 0, 0, 0)  BY DEF Cut
<1>3. delayed' = delayed /\ entered' = entered /\ calls' = calls /\ template' = template
  BY DEF Turn
<1>4. /\ Len(backlog) \in Nat /\ Len(delayed) \in Nat /\ Len(calls) \in Nat /\ Len(sent) \in Nat
      /\ Tokens \in Nat /\ Made \in Nat
  BY Numbers
<1>5. Made' = Made  BY <1>4 DEF Turn
<1>6. Ordered(0, 0, 0, 0)'  BY <1>1, <1>3, <1>4 DEF Ordered
<1>7. Levels(level, 0, 0, 0, 0)'
  <2>1. /\ level \in 1..Ttl
        /\ Below(backlog, 0, level) /\ Below(delayed, 0, level)
        /\ \A i \in 1..Len(sent) : sent[i][1] = "publish" =>
             sent[i][2].ttl <= level /\ (i > 0 => sent[i][2].ttl < level)
        /\ calls # <<>> => template.ttl <= level
        /\ 0 < Len(calls) => template.ttl < level
    BY <1>2 DEF Levels
  <2>2. Below(backlog', 0, level)
    <3>1. ASSUME NEW i \in 1..Len(backlog')
          PROVE  backlog'[i].ttl <= level /\ (i > 0 => backlog'[i].ttl < level)
      <4>1. i + 1 \in 1..Len(backlog) /\ i + 1 > 0 /\ backlog'[i] = backlog[i + 1]
        BY <1>1, <1>4, SMTT(30)
      <4> QED  BY <2>1, <4>1 DEF Below
    <3> QED  BY <3>1 DEF Below
  <2>3. Below(delayed', 0, level)  BY <1>3, <2>1
  <2>4. ASSUME NEW i \in 1..Len(sent'), sent'[i][1] = "publish"
        PROVE  sent'[i][2].ttl <= level /\ (i > 0 => sent'[i][2].ttl < level)
    <3>1. i # Len(sent) + 1  BY <1>1, <2>4
    <3>2. i \in 1..Len(sent)  BY <1>1, <1>4, <3>1
    <3> QED  BY <1>1, <2>1, <2>4, <3>2
  <2> QED  BY <1>3, <2>1, <2>2, <2>3, <2>4 DEF Levels
<1>8. Early(0, 0, 0, 0) \in Nat  BY CutIs, 0 \in Nat
<1>9. Made' \in Nat /\ Made' + (0 + 0 + 0 + 0) <= Made + Early(0, 0, 0, 0)
  <2>1. PICK m \in Nat : m = Made  BY <1>4
  <2>2. m + (0 + 0 + 0 + 0) <= m + Early(0, 0, 0, 0)  BY <1>8
  <2> QED  BY <1>5, <2>1, <2>2
<1>10. Tokens' \in Nat /\ Tokens' <= Tokens
  BY <1>1, <1>4
<1> QED  BY <1>1, <1>3, <1>6, <1>7, <1>9, <1>10, CutMoves, 0 \in Nat

\* Wherever it is.
LEMMA TurnBounds ==
  ASSUME Typed, Bounded, NEW c \in {0, 1}, NEW n \in {0, 1}, Turn(c, n)
  PROVE  Bounded'
<1>1. PICK level, b, d, s, k \in Nat : Cut(level, b, d, s, k)  BY DEF Bounded
<1>2. CASE b >= 1  BY <1>1, <1>2, TurnBefore
<1>3. CASE b = 0
  <2>1. Len(backlog) >= 1 /\ Head(backlog) \in Message /\ Head(backlog) = backlog[1]
    BY TurnCounts
  <2>2. Len(backlog) \in Nat /\ Len(delayed) \in Nat /\ Len(sent) \in Nat /\ Len(calls) \in Nat
    BY Numbers
  <2>3. d = 0 /\ s = 0 /\ k = 0
    <3>1. d # 0 \/ s # 0 \/ k # 0 => b = Len(backlog)  BY <1>1 DEF Cut, Ordered
    <3> QED  BY <1>3, <2>1, <2>2, <3>1
  <2>4. Cut(level, 0, 0, 0, 0)  BY <1>1, <1>3, <2>3
  <2>5. CASE n = 0
    <3>1. c = 0  BY <2>5 DEF Turn
    <3> QED  BY <2>4, <2>5, <3>1, TurnIgnored
  <2>6. CASE n = 1
    <3>1. Head(backlog).ttl >= 1  BY <2>6 DEF Turn
    <3>2. Head(backlog).ttl < level
      <4>1. 1 \in 1..Len(backlog) /\ 1 > 0  BY <2>1, <2>2
      <4>2. Below(backlog, 0, level)  BY <2>4 DEF Cut, Levels
      <4> QED  BY <2>1, <4>1, <4>2 DEF Below
    <3>3. level >= 2 /\ level - 1 \in Nat
      <4>1. Head(backlog).ttl \in Nat  BY <2>1, BoundAssumption DEF Message
      <4> QED  BY <3>1, <3>2, <4>1
    <3>4. Cut(level - 1, Len(backlog), Len(delayed), Len(sent), Len(calls))
      BY <2>4, <3>3, Relevel
    <3> QED  BY <2>1, <2>2, <3>3, <3>4, TurnBefore
  <2> QED  BY <2>5, <2>6
<1> QED  BY <1>2, <1>3

\* The message waits for its acknowledgement, behind which its publication will be.
LEMMA TurnKeeps ==
  ASSUME IInv, NEW c \in {0, 1}, NEW n \in {0, 1}, Turn(c, n),
         unacked' = Append(unacked, Head(backlog)),
         waiting' = waiting, closed' = closed, Typed'
  PROVE  IInv'
<1>1. Typed /\ Acked /\ Once /\ Tokens <= entered /\ Bounded  BY DEF IInv
<1>2. /\ Head(backlog) \in Message /\ Len(backlog) >= 1 /\ Len(backlog') = Len(backlog) - 1
      /\ Len(sent') = Len(sent) + 1
      /\ Acks' = Acks + 1 /\ Publications' = Publications
      /\ \A j \in 0..Len(sent) :
           /\ Upto(sent', j, Publishing) = Upto(sent, j, Publishing)
           /\ Upto(sent', j, Acking) = Upto(sent, j, Acking)
      /\ Upto(sent', Len(sent) + 1, Publishing) = Publications
      /\ Upto(sent', Len(sent) + 1, Acking) = Acks + 1
      /\ Tokens' = (Tokens - 1) + c /\ Tokens' \in Nat
  BY <1>1, TurnCounts
<1>3. /\ Len(backlog) \in Nat /\ Len(delayed) \in Nat /\ Len(calls) \in Nat /\ Len(sent) \in Nat
      /\ Tokens \in Nat /\ Publications \in Nat /\ Acks \in Nat /\ entered \in Nat
      /\ Cardinality(Request) \in Nat /\ Cardinality(waiting) \in Nat
      /\ \A j \in 0..Len(sent) : Upto(sent, j, Publishing) \in Nat /\ Upto(sent, j, Acking) \in Nat
  BY <1>1, Numbers
<1>4. delayed' = delayed /\ entered' = entered /\ waiting' = waiting /\ closed' = closed
  BY DEF Turn
<1>5. Acked'
  <2>1. Len(unacked') = Len(unacked) + 1
    BY <1>1, <1>2, AppendProperties DEF Typed
  <2> QED  BY <1>1, <1>2, <2>1 DEF Acked
<1>6. PICK C \in Nat, w \in Nat, a \in Nat, p \in Nat, t \in Nat :
        /\ C = Cardinality(Request) /\ w = Cardinality(waiting) /\ a = Acks
        /\ p = Publications /\ t = Tokens
  BY <1>3
<1>7. Tokens' = (t - 1) + c /\ Acks' = a + 1  BY <1>2, <1>6
<1>8. Tokens' <= entered'
  <2>1. (t - 1) + c <= entered  BY <1>1, <1>3, <1>6
  <2> QED  BY <1>4, <1>7, <2>1
<1>9. Tokens' + Cardinality(waiting') <= Cardinality(Request)
  <2>1. t + w <= C  BY <1>1, <1>6 DEF Once
  <2>2. ((t - 1) + c) + w <= C  BY <2>1
  <2> QED  BY <1>4, <1>6, <1>7, <2>2
<1>10. ASSUME NEW j \in 0..Len(sent')
       PROVE  Len(backlog') + Len(delayed') + Upto(sent', j, Publishing) + Acks' + Cardinality(waiting')
                <= Cardinality(Request) + Upto(sent', j, Acking)
  <2>1. CASE j \in 0..Len(sent)
    <3>1. PICK x \in Nat, y \in Nat : x = Upto(sent, j, Publishing) /\ y = Upto(sent, j, Acking)
      BY <1>3, <2>1
    <3>2. Len(backlog) + Len(delayed) + x + a + w <= C + y
      BY <1>1, <1>6, <2>1, <3>1 DEF Once
    <3>3. (Len(backlog) - 1) + Len(delayed) + x + (a + 1) + w <= C + y
      BY <1>3, <3>2
    <3>4. Upto(sent', j, Publishing) = x /\ Upto(sent', j, Acking) = y  BY <1>2, <2>1, <3>1
    <3> QED  BY <1>2, <1>4, <1>6, <1>7, <3>3, <3>4
  <2>2. CASE j \notin 0..Len(sent)
    <3>1. j = Len(sent) + 1  BY <1>2, <1>3, <2>2
    <3>2. t + w <= C  BY <1>1, <1>6 DEF Once
    <3>3. t = Len(backlog) + Len(delayed) + p + Len(calls)  BY <1>6 DEF Tokens
    <3>4. (Len(backlog) - 1) + Len(delayed) + p + (a + 1) + w <= C + (a + 1)
      BY <1>3, <3>2, <3>3
    <3>5. Upto(sent', j, Publishing) = p /\ Upto(sent', j, Acking) = a + 1  BY <1>2, <1>6, <3>1
    <3> QED  BY <1>2, <1>4, <1>6, <1>7, <3>4, <3>5
  <2> QED  BY <2>1, <2>2
<1>11. entered' + Cardinality(waiting') <= Cardinality(Request) * (1 + closed')
  BY <1>1, <1>4 DEF Once
<1>12. Once'  BY <1>9, <1>10, <1>11 DEF Once, Publishing, Acking, Command, Message
<1>13. Bounded'  BY <1>1, TurnBounds
<1> QED  BY <1>5, <1>8, <1>12, <1>13 DEF IInv

\* A message is ignored, acted on, or asked for again.
LEMMA ReceivedKeeps ==
  ASSUME IInv, Ignore \/ Complete \/ Requeue \/ Raise
  PROVE  IInv'
<1>1. Typed  BY DEF IInv
<1>2. /\ backlog # <<>> /\ backlog' = Tail(backlog) /\ unacked' = Append(unacked, Head(backlog))
      /\ sent' = Append(sent, <<"ack", <<>>>>)
      /\ UNCHANGED <<patient, waiting, link, bound, delayed, entered, closed>>
  BY DEF Ignore, Complete, Requeue, Raise, Received
<1>3. Head(backlog) \in Message /\ backlog' \in Seq(Message) /\ unacked' \in Seq(Message)
  BY <1>1, <1>2, HeadTailProperties, AppendProperties DEF Typed
<1>4. sent' \in Seq(Command)
  <2>1. <<"ack", <<>>>> \in Command  BY DEF Command
  <2> QED  BY <1>1, <1>2, <2>1, AppendProperties DEF Typed
<1>5. /\ Head(backlog).request \in Request
      /\ Head(backlog).ttl \in Nat /\ Head(backlog).ttl <= Ttl /\ Ttl \in Nat
  BY <1>3, BoundAssumption DEF Message
<1>6. Made \in Nat  BY <1>1, Numbers
<1>7. CASE Ignore \/ Raise
  <2>1. UNCHANGED <<calls, template, attempts, completed>> /\ alive' \in BOOLEAN
    BY <1>1, <1>7 DEF Ignore, Raise, Typed
  <2>2. Tries' = Tries  BY <2>1 DEF Tries
  <2>3. Made' = Made + 0  BY <1>6, <2>2 DEF Made
  <2>4. Typed'
    BY <1>1, <1>2, <1>3, <1>4, <2>1, <2>2 DEF Typed, Command, Message
  <2>5. Turn(0, 0)  BY <1>2, <2>1, <2>3 DEF Turn
  <2> QED  BY <1>2, <2>4, <2>5, TurnKeeps
<1>8. CASE Complete \/ Requeue
  <2> DEFINE m == Head(backlog)
  <2>1. ~ Ignored(m) /\ attempts' = [attempts EXCEPT ![m.request] = @ + 1]
    BY <1>8 DEF Complete, Requeue, Counted
  <2>2. m.ttl >= 1 /\ m.ttl - 1 \in 0..Ttl
    <3>1. ~ (m.ttl - 1 < 0)  BY <2>1 DEF Ignored, Spent, Left
    <3> QED  BY <1>5, <3>1
  <2>3. /\ attempts' \in [Request -> Nat] /\ attempts'[m.request] > 0
        /\ \A q \in Request : attempts[q] > 0 => attempts'[q] > 0
        /\ IsFiniteSet(Tries)' /\ Made' = Made + 1
    BY <1>1, <1>5, <2>1, MadeGrows
  <2>4. completed \subseteq {r \in Request : attempts'[r] > 0}
    BY <1>1, <2>3 DEF Typed
  <2>5. CASE Complete
    <3>1. completed' = completed \cup {m.request} /\ UNCHANGED <<alive, calls, template>>
      BY <2>5 DEF Complete
    <3>2. completed' \subseteq {r \in Request : attempts'[r] > 0}
      BY <1>5, <2>3, <2>4, <3>1
    <3>3. Typed'
      BY <1>1, <1>2, <1>3, <1>4, <2>3, <3>1, <3>2 DEF Typed, Command, Message
    <3>4. Turn(0, 1)  BY <1>2, <2>2, <2>3, <3>1 DEF Turn
    <3> QED  BY <1>2, <3>3, <3>4, TurnKeeps
  <2>6. CASE Requeue
    <3>1. /\ template' = [request |-> m.request, ttl |-> m.ttl - 1]
          /\ calls' = Append(calls, "exchange") /\ UNCHANGED <<alive, completed>>
      BY <2>6 DEF Requeue, Left
    <3>2. template' \in Message /\ template'.ttl = m.ttl - 1
      BY <1>5, <2>2, <3>1 DEF Message
    <3>3. calls' \in Seq({"exchange", "queue", "bind"})
      BY <1>1, <3>1, AppendProperties DEF Typed
    <3>4. Typed'
      BY <1>1, <1>2, <1>3, <1>4, <2>3, <2>4, <3>1, <3>2, <3>3 DEF Typed, Command, Message
    <3>5. Turn(1, 1)  BY <1>2, <2>2, <2>3, <3>1, <3>2 DEF Turn
    <3> QED  BY <1>2, <3>4, <3>5, TurnKeeps
  <2> QED  BY <1>8, <2>5, <2>6
<1> QED  BY <1>7, <1>8

-----------------------------------------------------------------------------
(***************************************************************************)
(* The chains, the broker and the network.                                 *)
(***************************************************************************)
\* The end of a chain, before the cut or behind it, is a publication.
LEMMA PublishBounds ==
  ASSUME Typed, Bounded, calls # <<>>, Len(calls') = Len(calls) - 1,
         template \in Message, template' = template,
         sent' = Append(sent, <<"publish", template>>),
         UNCHANGED <<backlog, delayed, entered, attempts>>
  PROVE  Bounded'
<1>1. PICK level, b, d, s, k \in Nat : Cut(level, b, d, s, k)  BY DEF Bounded
<1>2. Ordered(b, d, s, k) /\ Levels(level, b, d, s, k)  BY <1>1 DEF Cut
<1>3. /\ Len(backlog) \in Nat /\ Len(delayed) \in Nat /\ Len(calls) \in Nat /\ Len(sent) \in Nat
      /\ Tokens \in Nat /\ Made \in Nat /\ Publications \in Nat
  BY Numbers
<1>4. PICK x \in Command : x = <<"publish", template>>  BY DEF Command
<1>5. x[1] = "publish" /\ x[2] = template /\ sent' = Append(sent, x)  BY <1>4
<1>6. /\ sent' \in Seq(Command) /\ Len(sent') = Len(sent) + 1
      /\ \A i \in 1..Len(sent) : sent'[i] = sent[i]
      /\ sent'[Len(sent) + 1] = x
      /\ Publications' = Publications + 1
      /\ Publications' \in Nat
      /\ \A j \in 0..Len(sent) : Upto(sent', j, Publishing) = Upto(sent, j, Publishing)
      /\ Upto(sent', Len(sent) + 1, Publishing) = Publications'
  BY <1>3, <1>5, Sends
<1>7. Len(calls) >= 1
  <2>1. Len(calls) # 0  BY EmptySeq DEF Typed
  <2> QED  BY <1>3, <2>1
<1>8. /\ b \in 0..Len(backlog) /\ d \in 0..Len(delayed) /\ s \in 0..Len(sent) /\ k \in 0..Len(calls)
      /\ d # 0 \/ s # 0 \/ k # 0 => b = Len(backlog)
      /\ s # 0 \/ k # 0 => d = Len(delayed)
      /\ k # 0 => s = Len(sent)
  BY <1>2 DEF Ordered
<1>9. /\ level \in 1..Ttl
      /\ Below(backlog, b, level) /\ Below(delayed, d, level)
      /\ \A i \in 1..Len(sent) : sent[i][1] = "publish" =>
           sent[i][2].ttl <= level /\ (i > s => sent[i][2].ttl < level)
      /\ template.ttl <= level
      /\ k < Len(calls) => template.ttl < level
  BY <1>2 DEF Levels
<1>10. PICK s1 \in Nat, k1 \in Nat :
         /\ s1 = IF k # 0 THEN Len(sent) + 1 ELSE s
         /\ k1 = IF k # 0 THEN k - 1 ELSE 0
  <2>1. (IF k # 0 THEN Len(sent) + 1 ELSE s) \in Nat  BY <1>1, <1>3
  <2>2. (IF k # 0 THEN k - 1 ELSE 0) \in Nat  BY <1>1
  <2> QED  BY <2>1, <2>2
<1>11. Ordered(b, d, s1, k1)'
  <2>1. s1 \in 0..Len(sent') /\ k1 \in 0..Len(calls')
    BY <1>3, <1>6, <1>7, <1>8, <1>10
  <2>2. d # 0 \/ s1 # 0 \/ k1 # 0 => b = Len(backlog)  BY <1>8, <1>10
  <2>3. s1 # 0 \/ k1 # 0 => d = Len(delayed)  BY <1>8, <1>10
  <2>4. k1 # 0 => s1 = Len(sent')  BY <1>6, <1>10
  <2> QED  BY <1>8, <2>1, <2>2, <2>3, <2>4 DEF Ordered
<1>12. Levels(level, b, d, s1, k1)'
  <2>1. ASSUME NEW i \in 1..Len(sent'), sent'[i][1] = "publish"
        PROVE  sent'[i][2].ttl <= level /\ (i > s1 => sent'[i][2].ttl < level)
    <3>1. CASE i = Len(sent) + 1
      <4>1. sent'[i][2] = template  BY <1>5, <1>6, <3>1
      <4>2. CASE k # 0
        <5>1. ~ (i > s1)  BY <1>3, <1>10, <3>1, <4>2
        <5> QED  BY <1>9, <4>1, <5>1
      <4>3. CASE k = 0
        <5>1. k < Len(calls)  BY <1>3, <1>7, <4>3
        <5> QED  BY <1>9, <4>1, <5>1
      <4> QED  BY <4>2, <4>3
    <3>2. CASE i # Len(sent) + 1
      <4>1. i \in 1..Len(sent)  BY <1>3, <1>6, <3>2
      <4>2. i > s1 => i > s  BY <1>3, <1>8, <1>10, <4>1
      <4> QED  BY <1>6, <1>9, <2>1, <4>1, <4>2
    <3> QED  BY <3>1, <3>2
  <2>2. k1 < Len(calls') => template'.ttl < level
    <3>1. k1 < Len(calls') => k < Len(calls)  BY <1>3, <1>7, <1>8, <1>10
    <3> QED  BY <1>9, <3>1
  <2>3. Below(backlog', b, level) /\ Below(delayed', d, level)  BY <1>9
  <2> QED  BY <1>9, <2>1, <2>2, <2>3 DEF Levels
<1>13. PICK p \in Nat, t \in Nat, m \in Nat : p = Publications /\ t = Tokens /\ m = Made
  BY <1>3
<1>14. Tokens' = t
  <2>1. Publications' = p + 1  BY <1>6, <1>13
  <2>2. Tokens' = Len(backlog) + Len(delayed) + (p + 1) + (Len(calls) - 1)
    BY <2>1 DEF Tokens
  <2>3. t = Len(backlog) + Len(delayed) + p + Len(calls)  BY <1>13 DEF Tokens
  <2> QED  BY <1>3, <2>2, <2>3
<1>15. Made' = m  BY <1>13 DEF Made, Tries
<1>16. PICK e \in Nat, e1 \in Nat :
         /\ e = Upto(sent, s, Publishing) /\ e1 = Upto(sent', s1, Publishing)
         /\ e1 + k1 = e + k
  <2>1. Upto(sent, s, Publishing) \in Nat  BY <1>8, Numbers
  <2>2. CASE k = 0  BY <1>6, <1>8, <1>10, <2>1, <2>2
  <2>3. CASE k # 0
    <3>1. Upto(sent, Len(sent), Publishing) = p
      BY <1>13, UptoType DEF Typed, Publications
    <3>2. Upto(sent', Len(sent) + 1, Publishing) = p + 1  BY <1>6, <1>13
    <3>3. (p + 1) + k1 = p + k  BY <1>10, <2>3
    <3> QED  BY <1>8, <1>10, <2>3, <3>1, <3>2, <3>3
  <2> QED  BY <2>2, <2>3
<1>17. Made' + (b + d + Upto(sent', s1, Publishing) + k1) <= Made + Early(b, d, s, k)
  <2>1. b \in Nat /\ d \in Nat /\ k \in Nat  BY <1>1
  <2>2. e \in Nat /\ e1 \in Nat /\ k1 \in Nat /\ e1 + k1 = e + k  BY <1>16, <1>10
  <2>3. m + (b + d + e1 + k1) <= m + (b + d + e + k)  BY <1>13, <2>1, <2>2
  <2> QED  BY <1>13, <1>15, <1>16, <2>3 DEF Early
<1>18. Tokens' \in Nat /\ Tokens' <= Tokens /\ Made' \in Nat  BY <1>13, <1>14, <1>15
<1> QED  BY <1>1, <1>11, <1>12, <1>16, <1>17, <1>18, CutMoves

\* A reply to a call leads to the next, or to a publication.
LEMMA OnOkKeeps ==
  ASSUME IInv, OnOk
  PROVE  IInv'
<1>1. Typed /\ Acked /\ Once /\ Tokens <= entered /\ Bounded  BY DEF IInv
<1>2. /\ calls # <<>> /\ calls' = Tail(calls) \o NextCall(Head(calls))
      /\ sent' = IF Head(calls) = "bind" THEN Append(sent, <<"publish", template>>) ELSE sent
      /\ UNCHANGED <<patient, waiting, alive, link, bound, backlog, unacked, template,
                     delayed, attempts, completed, entered, closed>>
  BY DEF OnOk, histories
<1>3. /\ Len(backlog) \in Nat /\ Len(delayed) \in Nat /\ Len(calls) \in Nat /\ Len(sent) \in Nat
      /\ Tokens \in Nat /\ Publications \in Nat /\ Acks \in Nat /\ entered \in Nat
      /\ Cardinality(Request) \in Nat /\ Cardinality(waiting) \in Nat
      /\ \A j \in 0..Len(sent) : Upto(sent, j, Publishing) \in Nat /\ Upto(sent, j, Acking) \in Nat
  BY <1>1, Numbers
<1>4. /\ Head(calls) \in {"exchange", "queue", "bind"}
      /\ Tail(calls) \in Seq({"exchange", "queue", "bind"}) /\ Len(Tail(calls)) = Len(calls) - 1
      /\ Len(calls) >= 1
  <2>1. calls \in Seq({"exchange", "queue", "bind"})  BY <1>1 DEF Typed
  <2>2. Len(calls) # 0  BY <1>2, <2>1, EmptySeq
  <2> QED  BY <1>2, <1>3, <2>1, <2>2, HeadTailProperties
<1>5. template \in Message  BY <1>1, <1>2 DEF Typed
<1>6. Tries' = Tries  BY <1>2 DEF Tries
<1>7. CASE Head(calls) # "bind"
  <2>1. PICK q \in {"exchange", "queue", "bind"} : NextCall(Head(calls)) = <<q>>
    BY <1>4, <1>7 DEF NextCall
  <2>2. calls' \in Seq({"exchange", "queue", "bind"}) /\ Len(calls') = Len(calls)
    <3>1. <<q>> \in Seq({"exchange", "queue", "bind"}) /\ Len(<<q>>) = 1  OBVIOUS
    <3>2. calls' = Tail(calls) \o <<q>>  BY <1>2, <2>1
    <3>3. /\ Tail(calls) \o <<q>> \in Seq({"exchange", "queue", "bind"})
          /\ Len(Tail(calls) \o <<q>>) = Len(Tail(calls)) + Len(<<q>>)
      BY <1>4, <3>1, ConcatProperties
    <3>4. calls' \in Seq({"exchange", "queue", "bind"}) /\ Len(calls') = Len(Tail(calls)) + 1
      BY <3>1, <3>2, <3>3
    <3> QED  BY <1>3, <1>4, <3>4
  <2>3. sent' = sent  BY <1>2, <1>7
  <2>4. calls' # <<>>  BY <1>4, <2>2, EmptySeq
  <2>5. Typed'
    BY <1>1, <1>2, <1>5, <1>6, <2>2, <2>3 DEF Typed, Command, Message
  <2>6. Acks' = Acks /\ Publications' = Publications /\ Made' = Made
    BY <1>6, <2>3 DEF Acks, Publications, Acking, Publishing, Command, Message, Made
  <2>7. Tokens' = Tokens  BY <1>2, <2>2, <2>6 DEF Tokens
  <2>8. Acked'  BY <1>1, <1>2, <2>6 DEF Acked
  <2>9. Once'
    BY <1>1, <1>2, <2>3, <2>6, <2>7 DEF Once, Publishing, Acking, Command, Message
  <2>10. Bounded'
    <3>1. PICK level, b, d, s, k \in Nat : Cut(level, b, d, s, k)  BY <1>1 DEF Bounded
    <3>2. Ordered(b, d, s, k)'
      BY <1>2, <2>2, <2>3, <3>1 DEF Cut, Ordered
    <3>3. Levels(level, b, d, s, k)'
      BY <1>2, <2>2, <2>3, <3>1 DEF Cut, Levels, Below
    <3>4. Early(b, d, s, k)' = Early(b, d, s, k)
      BY <2>3 DEF Early, Publishing, Command, Message
    <3>5. Made + Tokens * (level - 1) + Early(b, d, s, k) <= Most(entered)  BY <3>1 DEF Cut
    <3>6. Made' + Tokens' * (level - 1) + Early(b, d, s, k)' <= Most(entered)'
      BY <1>2, <2>6, <2>7, <3>4, <3>5 DEF Most
    <3>7. Cut(level, b, d, s, k)'  BY <3>2, <3>3, <3>6 DEF Cut
    <3> QED  BY <3>7 DEF Bounded
  <2>11. Tokens' <= entered'  BY <1>1, <1>2, <2>7
  <2> QED  BY <2>5, <2>8, <2>9, <2>10, <2>11 DEF IInv
<1>8. CASE Head(calls) = "bind"
  <2>1. calls' \in Seq({"exchange", "queue", "bind"}) /\ Len(calls') = Len(calls) - 1
    <3>1. NextCall(Head(calls)) = <<>>  BY <1>8 DEF NextCall
    <3>2. Tail(calls) \o <<>> = Tail(calls)  BY <1>4
    <3> QED  BY <1>2, <1>4, <3>1, <3>2
  <2>2. PICK x \in Command : x = <<"publish", template>>  BY <1>5 DEF Command
  <2>3. x[1] = "publish" /\ x[1] # "ack" /\ sent' = Append(sent, x)  BY <1>2, <1>8, <2>2
  <2>4. /\ sent' \in Seq(Command) /\ Len(sent') = Len(sent) + 1
        /\ Acks' = Acks + (IF x[1] = "ack" THEN 1 ELSE 0) /\ Acks' \in Nat
        /\ Publications' = Publications + (IF x[1] = "publish" THEN 1 ELSE 0)
        /\ Publications' \in Nat
        /\ \A j \in 0..Len(sent) :
             /\ Upto(sent', j, Publishing) = Upto(sent, j, Publishing)
             /\ Upto(sent', j, Acking) = Upto(sent, j, Acking)
        /\ Upto(sent', Len(sent) + 1, Publishing) = Publications'
        /\ Upto(sent', Len(sent) + 1, Acking) = Acks'
    BY <1>1, <2>3, Sends
  <2>5. PICK C \in Nat, w \in Nat, a \in Nat, p \in Nat, t \in Nat :
          /\ C = Cardinality(Request) /\ w = Cardinality(waiting) /\ a = Acks
          /\ p = Publications /\ t = Tokens
    BY <1>3
  <2>6. Acks' = a /\ Publications' = p + 1  BY <2>3, <2>4, <2>5
  <2>7. t = Len(backlog) + Len(delayed) + p + Len(calls)  BY <2>5 DEF Tokens
  <2>8. Tokens' = t
    <3>1. Tokens' = Len(backlog) + Len(delayed) + (p + 1) + (Len(calls) - 1)
      BY <1>2, <2>1, <2>6 DEF Tokens
    <3> QED  BY <1>3, <2>7, <3>1
  <2>9. Typed'
    BY <1>1, <1>2, <1>5, <1>6, <2>1, <2>4 DEF Typed, Command, Message
  <2>10. Acked'  BY <1>1, <1>2, <2>5, <2>6 DEF Acked
  <2>11. t + w <= C  BY <1>1, <2>5 DEF Once
  <2>12. ASSUME NEW j \in 0..Len(sent')
         PROVE  Len(backlog') + Len(delayed') + Upto(sent', j, Publishing) + Acks' + Cardinality(waiting')
                  <= Cardinality(Request) + Upto(sent', j, Acking)
    <3>1. CASE j \in 0..Len(sent)
      <4>1. Len(backlog) + Len(delayed) + Upto(sent, j, Publishing) + a + w
              <= C + Upto(sent, j, Acking)
        BY <1>1, <2>5, <3>1 DEF Once
      <4> QED  BY <1>2, <2>4, <2>5, <2>6, <3>1, <4>1
    <3>2. CASE j \notin 0..Len(sent)
      <4>1. j = Len(sent) + 1  BY <1>3, <2>4, <3>2
      <4>2. Len(backlog) + Len(delayed) + (p + 1) + a + w <= C + a
        BY <1>3, <1>4, <2>7, <2>11
      <4>3. Upto(sent', j, Publishing) = p + 1 /\ Upto(sent', j, Acking) = a
        BY <2>4, <2>6, <4>1
      <4> QED  BY <1>2, <2>5, <2>6, <4>2, <4>3
    <3> QED  BY <3>1, <3>2
  <2>13. Tokens' + Cardinality(waiting') <= Cardinality(Request)
    BY <1>2, <2>5, <2>8, <2>11
  <2>14. entered' + Cardinality(waiting') <= Cardinality(Request) * (1 + closed')
    BY <1>1, <1>2 DEF Once
  <2>15. Once'
    BY <2>12, <2>13, <2>14 DEF Once, Publishing, Acking, Command, Message
  <2>16. Tokens' <= entered'  BY <1>1, <1>2, <2>5, <2>8
  <2>17. Bounded'
    BY <1>1, <1>2, <1>5, <1>8, <2>1, PublishBounds
  <2> QED  BY <2>9, <2>10, <2>15, <2>16, <2>17 DEF IInv
<1> QED  BY <1>7, <1>8

\* Opening a connection, or failing to, touches no request.
LEMMA OpenKeeps ==
  ASSUME IInv, Open \/ OpenError \/ UNCHANGED vars
  PROVE  IInv'
<1>1. /\ UNCHANGED <<patient, waiting, backlog, unacked, calls, template, sent, delayed,
                     attempts, completed, entered, closed>>
      /\ alive' \in BOOLEAN /\ link' \in BOOLEAN /\ bound' \in BOOLEAN
  BY DEF Open, OpenError, vars, histories, IInv, Typed
<1>2. Tries' = Tries  BY <1>1 DEF Tries
<1>3. Typed'  BY <1>1, <1>2 DEF IInv, Typed, Command, Message
<1>4. Acks' = Acks /\ Publications' = Publications /\ Made' = Made
  BY <1>1, <1>2 DEF Acks, Publications, Acking, Publishing, Command, Message, Made
<1>5. Tokens' = Tokens  BY <1>1, <1>4 DEF Tokens
<1>6. Acked'  BY <1>1, <1>4 DEF IInv, Acked
<1>7. Once'
  BY <1>1, <1>4, <1>5 DEF IInv, Once, Publishing, Acking, Command, Message
<1>8. Bounded'
  <2>1. PICK level, b, d, s, k \in Nat : Cut(level, b, d, s, k)  BY DEF IInv, Bounded
  <2>2. Ordered(b, d, s, k)'  BY <1>1, <2>1 DEF Cut, Ordered
  <2>3. Levels(level, b, d, s, k)'  BY <1>1, <2>1 DEF Cut, Levels, Below
  <2>4. Early(b, d, s, k)' = Early(b, d, s, k)
    BY <1>1 DEF Early, Publishing, Command, Message
  <2>5. Made + Tokens * (level - 1) + Early(b, d, s, k) <= Most(entered)  BY <2>1 DEF Cut
  <2>6. Made' + Tokens' * (level - 1) + Early(b, d, s, k)' <= Most(entered)'
    BY <1>1, <1>4, <1>5, <2>4, <2>5 DEF Most
  <2>7. Cut(level, b, d, s, k)'  BY <2>2, <2>3, <2>6 DEF Cut
  <2> QED  BY <2>7 DEF Bounded
<1>9. Tokens' <= entered'  BY <1>1, <1>5 DEF IInv
<1> QED  BY <1>3, <1>6, <1>7, <1>8, <1>9 DEF IInv

\* A message that is fanned out is behind those in the queue, if there is one.
LEMMA FannedOut ==
  ASSUME Typed, NEW m \in Message, backlog' = Fanout(m)
  PROVE  /\ backlog' \in Seq(Message)
         /\ bound => /\ Len(backlog') = Len(backlog) + 1 /\ backlog'[Len(backlog) + 1] = m
                     /\ \A i \in 1..Len(backlog) : backlog'[i] = backlog[i]
         /\ ~bound => backlog' = backlog
         /\ Len(backlog') \in Nat /\ Len(backlog') <= Len(backlog) + 1
<1>1. backlog \in Seq(Message) /\ bound \in BOOLEAN  BY DEF Typed
<1>2. CASE bound
  <2>1. backlog' = Append(backlog, m)  BY <1>2 DEF Fanout
  <2>2. /\ backlog' \in Seq(Message)
        /\ Len(backlog') = Len(backlog) + 1 /\ backlog'[Len(backlog) + 1] = m
        /\ \A i \in 1..Len(backlog) : backlog'[i] = backlog[i]
    BY <1>1, <2>1, AppendProperties
  <2>3. Len(backlog) \in Nat  BY <1>1
  <2> QED  BY <1>2, <2>2, <2>3
<1>3. CASE ~bound
  <2>1. backlog' = backlog  BY <1>3 DEF Fanout
  <2>2. Len(backlog) \in Nat  BY <1>1
  <2> QED  BY <1>1, <1>3, <2>1, <2>2
<1> QED  BY <1>2, <1>3

\* A request that comes in: everything may start all over.
LEMMA RelayKeeps ==
  ASSUME IInv, Relay
  PROVE  IInv'
<1>1. Typed /\ Acked /\ Once /\ Tokens <= entered /\ Bounded  BY DEF IInv
<1>2. PICK r \in waiting :
        /\ waiting' = waiting \ {r} /\ backlog' = Fanout([request |-> r, ttl |-> Ttl])
        /\ entered' = entered + 1
  BY DEF Relay
<1>3. UNCHANGED <<patient, alive, link, bound, unacked, calls, template, sent, delayed,
                  attempts, completed, closed>>
  BY DEF Relay
<1>4. [request |-> r, ttl |-> Ttl] \in Message
  BY <1>1, BoundAssumption DEF Typed, Message
<1>5. /\ backlog' \in Seq(Message)
      /\ Len(backlog') \in Nat /\ Len(backlog') <= Len(backlog) + 1
  BY <1>1, <1>2, <1>4, FannedOut
<1>6. /\ Len(backlog) \in Nat /\ Len(delayed) \in Nat /\ Len(calls) \in Nat /\ Len(sent) \in Nat
      /\ Tokens \in Nat /\ Publications \in Nat /\ Acks \in Nat /\ entered \in Nat
      /\ Cardinality(Request) \in Nat /\ Cardinality(waiting) \in Nat
      /\ \A j \in 0..Len(sent) : Upto(sent, j, Publishing) \in Nat /\ Upto(sent, j, Acking) \in Nat
  BY <1>1, Numbers
<1>7. Cardinality(waiting') \in Nat /\ Cardinality(waiting) = Cardinality(waiting') + 1
  <2>1. IsFiniteSet(waiting)  BY <1>1, RequestAssumption, FS_Subset DEF Typed
  <2>2. IsFiniteSet(waiting \ {r}) /\ Cardinality(waiting \ {r}) = Cardinality(waiting) - 1
    BY <1>2, <2>1, FS_RemoveElement
  <2>3. Cardinality(waiting \ {r}) \in Nat  BY <2>2, FS_CardinalityType
  <2> QED  BY <1>2, <1>6, <2>2, <2>3
<1>8. Tries' = Tries  BY <1>3 DEF Tries
<1>9. Typed'
  BY <1>1, <1>2, <1>3, <1>5, <1>6, <1>8, SMTT(30), ZenonT(40) DEF Typed, Command, Message
<1>10. Acks' = Acks /\ Publications' = Publications /\ Made' = Made
  BY <1>3, <1>8 DEF Acks, Publications, Acking, Publishing, Command, Message, Made
<1>11. PICK p \in Nat, t \in Nat : p = Publications /\ t = Tokens  BY <1>6
<1>12. PICK t1 \in Nat : t1 = Tokens' /\ t1 <= t + 1
  <2>1. Tokens' = Len(backlog') + Len(delayed) + p + Len(calls)  BY <1>3, <1>10, <1>11 DEF Tokens
  <2>2. t = Len(backlog) + Len(delayed) + p + Len(calls)  BY <1>11 DEF Tokens
  <2>3. Len(backlog') + Len(delayed) + p + Len(calls) \in Nat  BY <1>5, <1>6
  <2>4. Len(backlog') + Len(delayed) + p + Len(calls) <= t + 1  BY <1>5, <1>6, <2>2
  <2> QED  BY <2>1, <2>3, <2>4
<1>13. Tokens' <= entered'
  <2>1. t1 <= entered + 1  BY <1>1, <1>6, <1>11, <1>12
  <2> QED  BY <1>2, <1>12, <2>1
<1>14. Acked'  BY <1>1, <1>3, <1>10 DEF Acked
<1>15. ASSUME NEW j \in 0..Len(sent')
       PROVE  Len(backlog') + Len(delayed') + Upto(sent', j, Publishing) + Acks' + Cardinality(waiting')
                <= Cardinality(Request) + Upto(sent', j, Acking)
  <2>1. j \in 0..Len(sent) /\ sent' = sent /\ delayed' = delayed  BY <1>3
  <2>2. PICK x \in Nat, y \in Nat : x = Upto(sent, j, Publishing) /\ y = Upto(sent, j, Acking)
    BY <1>6, <2>1
  <2>3. Len(backlog) + Len(delayed) + x + Acks + Cardinality(waiting) <= Cardinality(Request) + y
    BY <1>1, <2>1, <2>2 DEF Once
  <2>4. PICK l1 \in Nat, w1 \in Nat :
          /\ l1 = Len(backlog') /\ w1 = Cardinality(waiting')
          /\ l1 <= Len(backlog) + 1 /\ Cardinality(waiting) = w1 + 1
    BY <1>5, <1>7
  <2>5. PICK l \in Nat, d \in Nat, a \in Nat, C \in Nat :
          l = Len(backlog) /\ d = Len(delayed) /\ a = Acks /\ C = Cardinality(Request)
    BY <1>6
  <2>6. l + d + x + a + (w1 + 1) <= C + y  BY <2>3, <2>4, <2>5
  <2>7. x \in Nat /\ y \in Nat  BY <2>2
  <2>8. l1 \in Nat /\ w1 \in Nat /\ l1 <= l + 1  BY <2>4, <2>5
  <2>9. l \in Nat /\ d \in Nat /\ a \in Nat /\ C \in Nat  BY <2>5
  <2>10. l1 + d + x + a + w1 <= C + y  BY <2>6, <2>7, <2>8, <2>9
  <2> QED  BY <1>10, <2>1, <2>2, <2>4, <2>5, <2>10
<1>16. Tokens' + Cardinality(waiting') <= Cardinality(Request)
  <2>1. t + Cardinality(waiting) <= Cardinality(Request)  BY <1>1, <1>11 DEF Once
  <2>2. t1 + Cardinality(waiting') <= Cardinality(Request)  BY <1>6, <1>7, <1>12, <2>1, SMTT(30)
  <2> QED  BY <1>12, <2>2
<1>17. entered' + Cardinality(waiting') <= Cardinality(Request) * (1 + closed')
  <2>1. entered + Cardinality(waiting) <= Cardinality(Request) * (1 + closed)  BY <1>1 DEF Once
  <2>2. (entered + 1) + Cardinality(waiting') = entered + Cardinality(waiting)  BY <1>6, <1>7
  <2> QED  BY <1>2, <1>3, <2>1, <2>2
<1>18. Once'
  BY <1>15, <1>16, <1>17 DEF Once, Publishing, Acking, Command, Message
<1>19. Bounded'
  <2>1. 1 \in Nat /\ 1 >= 1  OBVIOUS
  <2> QED  BY <1>1, <1>2, <1>9, <1>10, <1>13, <2>1, Afresh
<1> QED  BY <1>9, <1>13, <1>14, <1>18, <1>19 DEF IInv

\* What the broker takes keeps its side of the cut.
LEMMA TakenBounds ==
  ASSUME Typed, Bounded, sent # <<>>, sent' = Tail(sent),
         \/ Head(sent)[1] = "ack" /\ delayed' = delayed
         \/ Head(sent)[1] = "publish" /\ delayed' = Append(delayed, Head(sent)[2]),
         UNCHANGED <<backlog, calls, template, attempts, entered>>
  PROVE  Bounded'
<1>1. PICK level, b, d, s, k \in Nat : Cut(level, b, d, s, k)  BY DEF Bounded
<1>2. Ordered(b, d, s, k) /\ Levels(level, b, d, s, k)  BY <1>1 DEF Cut
<1>3. /\ Len(backlog) \in Nat /\ Len(delayed) \in Nat /\ Len(calls) \in Nat /\ Len(sent) \in Nat
      /\ Tokens \in Nat /\ Made \in Nat /\ Publications \in Nat
  BY Numbers
<1>4. /\ Head(sent) \in Command /\ Head(sent) = sent[1] /\ Len(sent) >= 1
      /\ sent' \in Seq(Command) /\ Len(sent') = Len(sent) - 1
      /\ \A i \in 1..Len(sent') : sent'[i] = sent[i + 1]
      /\ Publications = Publications' + (IF Head(sent)[1] = "publish" THEN 1 ELSE 0)
      /\ Publications' \in Nat
      /\ \A j \in 1..Len(sent) :
           Upto(sent, j, Publishing) = Upto(sent', j - 1, Publishing)
                                         + (IF Head(sent)[1] = "publish" THEN 1 ELSE 0)
      /\ \A j \in 0..Len(sent') : Upto(sent', j, Publishing) \in Nat
      /\ Upto(sent', 0, Publishing) = 0
  BY Takes
<1>5. /\ b \in 0..Len(backlog) /\ d \in 0..Len(delayed) /\ s \in 0..Len(sent) /\ k \in 0..Len(calls)
      /\ d # 0 \/ s # 0 \/ k # 0 => b = Len(backlog)
      /\ s # 0 \/ k # 0 => d = Len(delayed)
      /\ k # 0 => s = Len(sent)
  BY <1>2 DEF Ordered
<1>6. /\ level \in 1..Ttl
      /\ Below(backlog, b, level) /\ Below(delayed, d, level)
      /\ \A i \in 1..Len(sent) : sent[i][1] = "publish" =>
           sent[i][2].ttl <= level /\ (i > s => sent[i][2].ttl < level)
      /\ calls # <<>> => template.ttl <= level
      /\ k < Len(calls) => template.ttl < level
  BY <1>2 DEF Levels
<1>7. PICK h \in Nat : h = IF Head(sent)[1] = "publish" THEN 1 ELSE 0  OBVIOUS
<1>8. PICK s1 \in Nat, d1 \in Nat :
        /\ s # 0 => s = s1 + 1 /\ d1 = d + h
        /\ s = 0 => s1 = 0 /\ d1 = d
  <2>1. CASE s = 0  BY <1>1, <2>1
  <2>2. CASE s # 0
    <3>1. s - 1 \in Nat /\ s = (s - 1) + 1 /\ d + h \in Nat  BY <1>1, <1>7, <2>2
    <3> QED  BY <2>2, <3>1
  <2> QED  BY <2>1, <2>2
<1>9. s = 0 => k = 0  BY <1>3, <1>4, <1>5
<1>10. /\ delayed' \in Seq(Message) /\ Len(delayed') = Len(delayed) + h
       /\ \A i \in 1..Len(delayed) : delayed'[i] = delayed[i]
       /\ \A i \in 1..Len(delayed') : i = Len(delayed) + 1 =>
            Head(sent)[1] = "publish" /\ delayed'[i] = Head(sent)[2]
  <2>1. delayed \in Seq(Message)  BY DEF Typed
  <2>2. CASE Head(sent)[1] = "ack"
    <3>1. delayed' = delayed /\ h = 0  BY <1>7, <2>2
    <3> QED  BY <1>3, <2>1, <3>1
  <2>3. CASE Head(sent)[1] = "publish"
    <3>1. delayed' = Append(delayed, Head(sent)[2]) /\ h = 1  BY <1>7, <2>3
    <3>2. Head(sent)[2] \in Message  BY <1>4, <2>3 DEF Command
    <3> QED  BY <2>1, <2>3, <3>1, <3>2, AppendProperties
  <2> QED  BY <2>2, <2>3
<1>11. Ordered(b, d1, s1, k)'
  <2>1. PICK ld \in Nat, ls \in Nat :
          /\ ld = Len(delayed) /\ Len(delayed') = ld + h
          /\ ls + 1 = Len(sent) /\ Len(sent') = ls
    <3>1. Len(sent) - 1 \in Nat /\ (Len(sent) - 1) + 1 = Len(sent)  BY <1>3, <1>4
    <3> QED  BY <1>3, <1>4, <1>10, <3>1
  <2>2. d \in 0..ld /\ s \in 0..(ls + 1) /\ (s # 0 => d = ld) /\ (k # 0 => s = ls + 1)
    BY <1>5, <2>1
  <2>3. CASE s = 0
    <3>1. d1 \in 0..(ld + h) /\ s1 = 0 /\ k = 0  BY <1>7, <1>8, <1>9, <2>2, <2>3
    <3>2. 0 \in 0..ls  OBVIOUS
    <3>3. d1 # 0 => b = Len(backlog)  BY <1>5, <1>8, <2>3
    <3> QED  BY <1>5, <2>1, <3>1, <3>2, <3>3 DEF Ordered
  <2>4. CASE s # 0
    <3>1. s = s1 + 1 /\ d1 = d + h  BY <1>8, <2>4
    <3>2. d1 \in 0..(ld + h) /\ d1 = ld + h  BY <1>7, <2>1, <2>2, <2>4, <3>1
    <3>3. s1 \in 0..ls /\ (k # 0 => s1 = ls)  BY <1>8, <2>1, <2>2, <3>1
    <3>4. b = Len(backlog)  BY <1>5, <2>4
    <3> QED  BY <1>5, <2>1, <3>2, <3>3, <3>4 DEF Ordered
  <2> QED  BY <2>3, <2>4
<1>12. Levels(level, b, d1, s1, k)'
  <2>1. ASSUME NEW i \in 1..Len(sent'), sent'[i][1] = "publish"
        PROVE  sent'[i][2].ttl <= level /\ (i > s1 => sent'[i][2].ttl < level)
    <3>1. i + 1 \in 1..Len(sent) /\ sent'[i] = sent[i + 1]  BY <1>3, <1>4
    <3>2. i > s1 => i + 1 > s  BY <1>8, <3>1
    <3> QED  BY <1>6, <2>1, <3>1, <3>2
  <2>2. ASSUME NEW i \in 1..Len(delayed')
        PROVE  delayed'[i].ttl <= level /\ (i > d1 => delayed'[i].ttl < level)
    <3>1. CASE i \in 1..Len(delayed)
      <4>1. i > d1 => i > d  BY <1>3, <1>7, <1>8, <3>1
      <4> QED  BY <1>6, <1>10, <3>1, <4>1 DEF Below
    <3>2. CASE i \notin 1..Len(delayed)
      <4>1. i = Len(delayed) + 1 /\ h = 1  BY <1>3, <1>7, <1>10, <3>2
      <4>2. sent[1][1] = "publish" /\ delayed'[i] = sent[1][2]  BY <1>4, <1>10, <4>1
      <4>3. 1 \in 1..Len(sent)  BY <1>3, <1>4
      <4>4. i > d1 => 1 > s
        <5>1. s # 0 => d1 = Len(delayed) + 1  BY <1>5, <1>8, <4>1
        <5> QED  BY <1>1, <1>3, <4>1, <5>1
      <4> QED  BY <1>6, <4>2, <4>3, <4>4
    <3> QED  BY <3>1, <3>2
  <2>3. Below(delayed', d1, level)  BY <2>2 DEF Below
  <2>4. Below(backlog', b, level)  BY <1>6
  <2> QED  BY <1>6, <2>1, <2>3, <2>4 DEF Levels
<1>13. PICK p \in Nat, t \in Nat, m \in Nat : p = Publications /\ t = Tokens /\ m = Made
  BY <1>3
<1>14. Tokens' = t
  <2>1. PICK p1 \in Nat : p1 = Publications' /\ p = p1 + h  BY <1>4, <1>7, <1>13
  <2>2. Tokens' = Len(backlog) + (Len(delayed) + h) + p1 + Len(calls)
    BY <1>10, <2>1 DEF Tokens
  <2>3. t = Len(backlog) + Len(delayed) + (p1 + h) + Len(calls)  BY <1>13, <2>1 DEF Tokens
  <2> QED  BY <1>3, <1>7, <2>2, <2>3
<1>15. Made' = m  BY <1>13 DEF Made, Tries
<1>16. PICK e \in Nat, e1 \in Nat :
         /\ e = Upto(sent, s, Publishing) /\ e1 = Upto(sent', s1, Publishing)
         /\ d1 + e1 = d + e
  <2>1. Upto(sent, s, Publishing) \in Nat  BY <1>5, Numbers
  <2>2. s1 \in 0..Len(sent')  BY <1>11 DEF Ordered
  <2>3. CASE s = 0
    <3>1. Upto(sent, 0, Publishing) = 0  BY UptoType DEF Typed
    <3> QED  BY <1>1, <1>4, <1>8, <2>3, <3>1
  <2>4. CASE s # 0
    <3>1. s \in 1..Len(sent) /\ s - 1 = s1  BY <1>5, <1>8, <2>4
    <3>2. PICK e1 \in Nat : e1 = Upto(sent', s1, Publishing)  BY <1>4, <2>2
    <3>3. Upto(sent, s, Publishing) = e1 + h  BY <1>4, <1>7, <3>1, <3>2
    <3>4. (d + h) + e1 = d + (e1 + h)  BY <1>1, <1>7
    <3> QED  BY <1>8, <2>1, <2>4, <3>2, <3>3, <3>4
  <2> QED  BY <2>3, <2>4
<1>17. Made' + (b + d1 + Upto(sent', s1, Publishing) + k) <= Made + Early(b, d, s, k)
  <2>1. b \in Nat /\ d \in Nat /\ k \in Nat  BY <1>1
  <2>2. e \in Nat /\ e1 \in Nat /\ d1 \in Nat /\ d1 + e1 = d + e  BY <1>16, <1>8
  <2>3. m + (b + d1 + e1 + k) <= m + (b + d + e + k)  BY <1>13, <2>1, <2>2
  <2> QED  BY <1>13, <1>15, <1>16, <2>3 DEF Early
<1>18. Tokens' \in Nat /\ Tokens' <= Tokens /\ Made' \in Nat  BY <1>13, <1>14, <1>15
<1> QED  BY <1>1, <1>8, <1>11, <1>12, <1>16, <1>17, <1>18, CutMoves

\* An acknowledgement is taken, or a publication joins the delay queue.
LEMMA TakesCommandKeeps ==
  ASSUME IInv, TakesCommand
  PROVE  IInv'
<1>1. Typed /\ Acked /\ Once /\ Tokens <= entered /\ Bounded  BY DEF IInv
<1>2. /\ sent # <<>> /\ sent' = Tail(sent)
      /\ IF Head(sent)[1] = "ack"
           THEN unacked' = Tail(unacked) /\ delayed' = delayed
           ELSE unacked' = unacked /\ delayed' = Append(delayed, Head(sent)[2])
      /\ UNCHANGED <<patient, waiting, alive, link, bound, backlog, calls, template,
                     attempts, completed, entered, closed>>
  BY DEF TakesCommand, histories
<1>3. /\ Len(backlog) \in Nat /\ Len(delayed) \in Nat /\ Len(calls) \in Nat /\ Len(sent) \in Nat
      /\ Len(unacked) \in Nat
      /\ Tokens \in Nat /\ Publications \in Nat /\ Acks \in Nat /\ entered \in Nat
      /\ Cardinality(Request) \in Nat /\ Cardinality(waiting) \in Nat
  BY <1>1, Numbers
<1>4. /\ Head(sent) \in Command /\ Head(sent) = sent[1] /\ Len(sent) >= 1
      /\ sent' \in Seq(Command) /\ Len(sent') = Len(sent) - 1
      /\ Acks = Acks' + (IF Head(sent)[1] = "ack" THEN 1 ELSE 0) /\ Acks' \in Nat
      /\ Publications = Publications' + (IF Head(sent)[1] = "publish" THEN 1 ELSE 0)
      /\ Publications' \in Nat
      /\ \A j \in 1..Len(sent) :
           /\ Upto(sent, j, Publishing) = Upto(sent', j - 1, Publishing)
                                            + (IF Head(sent)[1] = "publish" THEN 1 ELSE 0)
           /\ Upto(sent, j, Acking) = Upto(sent', j - 1, Acking)
                                        + (IF Head(sent)[1] = "ack" THEN 1 ELSE 0)
      /\ \A j \in 0..Len(sent') : Upto(sent', j, Publishing) \in Nat /\ Upto(sent', j, Acking) \in Nat
  BY <1>1, <1>2, Takes
<1>5. Head(sent)[1] \in {"ack", "publish"}  BY <1>4 DEF Command
<1>6. PICK g \in Nat, h \in Nat :
        /\ g = IF Head(sent)[1] = "ack" THEN 1 ELSE 0
        /\ h = IF Head(sent)[1] = "publish" THEN 1 ELSE 0
  OBVIOUS
<1>7. PICK a1 \in Nat, p1 \in Nat :
        a1 = Acks' /\ p1 = Publications' /\ Acks = a1 + g /\ Publications = p1 + h
  BY <1>4, <1>6
<1>8. /\ unacked' \in Seq(Message) /\ Len(unacked') + g = Len(unacked)
      /\ delayed' \in Seq(Message) /\ Len(delayed') = Len(delayed) + h
  <2>1. unacked \in Seq(Message) /\ delayed \in Seq(Message)  BY <1>1 DEF Typed
  <2>2. CASE Head(sent)[1] = "ack"
    <3>1. unacked' = Tail(unacked) /\ delayed' = delayed /\ g = 1 /\ h = 0
      BY <1>2, <1>6, <2>2
    <3>2. Len(unacked) = a1 + 1  BY <1>1, <1>7, <3>1 DEF Acked
    <3>3. unacked # <<>>
      <4>1. a1 \in Nat  BY <1>7
      <4>2. Len(unacked) # 0  BY <3>2, <4>1
      <4>3. Len(<<>>) = 0  OBVIOUS
      <4> QED  BY <4>2, <4>3
    <3>4. unacked' \in Seq(Message) /\ Len(unacked') = Len(unacked) - 1
      BY <2>1, <3>1, <3>3, HeadTailProperties
    <3> QED  BY <1>3, <2>1, <3>1, <3>4
  <2>3. CASE Head(sent)[1] = "publish"
    <3>1. unacked' = unacked /\ delayed' = Append(delayed, Head(sent)[2]) /\ g = 0 /\ h = 1
      BY <1>2, <1>6, <2>3
    <3>2. Head(sent)[2] \in Message  BY <1>4, <2>3 DEF Command
    <3> QED  BY <1>3, <2>1, <3>1, <3>2, AppendProperties
  <2> QED  BY <1>5, <2>2, <2>3
<1>9. Tries' = Tries  BY <1>2 DEF Tries
<1>10. Typed'
  BY <1>1, <1>2, <1>4, <1>8, <1>9 DEF Typed, Command, Message
<1>11. Acked'
  <2>1. PICK n1 \in Nat : n1 = Len(unacked')  BY <1>8
  <2>2. n1 + g = a1 + g  BY <1>1, <1>7, <1>8, <2>1 DEF Acked
  <2>3. n1 \in Nat /\ g \in Nat /\ a1 \in Nat  BY <1>6, <1>7, <2>1
  <2>4. n1 = a1  BY <2>2, <2>3
  <2> QED  BY <1>7, <2>1, <2>4 DEF Acked
<1>12. PICK w \in Nat, C \in Nat, l \in Nat, dl \in Nat, c \in Nat :
         /\ w = Cardinality(waiting) /\ C = Cardinality(Request)
         /\ l = Len(backlog) /\ dl = Len(delayed) /\ c = Len(calls)
  BY <1>3
<1>13. Tokens' = Tokens /\ Tokens = l + dl + (p1 + h) + c
  <2>1. Tokens' = l + (dl + h) + p1 + c  BY <1>2, <1>7, <1>8, <1>12 DEF Tokens
  <2>2. Tokens = l + dl + (p1 + h) + c  BY <1>7, <1>12 DEF Tokens
  <2>3. l + (dl + h) + p1 + c = l + dl + (p1 + h) + c  OBVIOUS
  <2> QED  BY <2>1, <2>2, <2>3
<1>14. ASSUME NEW j \in 0..Len(sent')
       PROVE  Len(backlog') + Len(delayed') + Upto(sent', j, Publishing) + Acks' + Cardinality(waiting')
                <= Cardinality(Request) + Upto(sent', j, Acking)
  <2>1. PICK i \in Nat : i = j + 1 /\ i \in 1..Len(sent) /\ i \in 0..Len(sent) /\ i - 1 = j
    BY <1>3, <1>4
  <2>2. PICK x \in Nat, y \in Nat : x = Upto(sent', j, Publishing) /\ y = Upto(sent', j, Acking)
    BY <1>4
  <2>3. Upto(sent, i, Publishing) = x + h /\ Upto(sent, i, Acking) = y + g
    BY <1>4, <1>6, <2>1, <2>2
  <2>4. l + dl + (x + h) + (a1 + g) + w <= C + (y + g)
    BY <1>1, <1>7, <1>12, <2>1, <2>3 DEF Once
  <2>5. x \in Nat /\ y \in Nat  BY <2>2
  <2>6. /\ l \in Nat /\ dl \in Nat /\ h \in Nat /\ g \in Nat
        /\ a1 \in Nat /\ w \in Nat /\ C \in Nat
    BY <1>6, <1>7, <1>12
  <2>7. l + (dl + h) + x + a1 + w <= C + y  BY <2>4, <2>5, <2>6
  <2> QED  BY <1>2, <1>7, <1>8, <1>12, <2>2, <2>7
<1>15. /\ Tokens' + Cardinality(waiting') <= Cardinality(Request)
       /\ entered' + Cardinality(waiting') <= Cardinality(Request) * (1 + closed')
  BY <1>1, <1>2, <1>13 DEF Once
<1>16. Once'
  BY <1>14, <1>15 DEF Once, Publishing, Acking, Command, Message
<1>17. Tokens' <= entered'  BY <1>1, <1>2, <1>13
<1>18. Bounded'
  <2>1. \/ Head(sent)[1] = "ack" /\ delayed' = delayed
        \/ Head(sent)[1] = "publish" /\ delayed' = Append(delayed, Head(sent)[2])
    BY <1>2, <1>5
  <2> QED  BY <1>1, <1>2, <2>1, TakenBounds
<1> QED  BY <1>10, <1>11, <1>16, <1>17, <1>18 DEF IInv

\* What leaves the delay queue keeps its side of the cut.
LEMMA DeadLetterBounds ==
  ASSUME Typed, Bounded, delayed # <<>>, delayed' = Tail(delayed),
         backlog' = Fanout(Head(delayed)), Tokens' \in Nat, Tokens' <= Tokens,
         UNCHANGED <<calls, template, sent, attempts, entered>>
  PROVE  Bounded'
<1>1. PICK level, b, d, s, k \in Nat : Cut(level, b, d, s, k)  BY DEF Bounded
<1>2. Ordered(b, d, s, k) /\ Levels(level, b, d, s, k)  BY <1>1 DEF Cut
<1>3. /\ Len(backlog) \in Nat /\ Len(delayed) \in Nat /\ Len(calls) \in Nat /\ Len(sent) \in Nat
      /\ Made \in Nat
  BY Numbers
<1>4. /\ b \in 0..Len(backlog) /\ d \in 0..Len(delayed) /\ s \in 0..Len(sent) /\ k \in 0..Len(calls)
      /\ d # 0 \/ s # 0 \/ k # 0 => b = Len(backlog)
      /\ s # 0 \/ k # 0 => d = Len(delayed)
      /\ k # 0 => s = Len(sent)
  BY <1>2 DEF Ordered
<1>5. /\ level \in 1..Ttl
      /\ Below(backlog, b, level) /\ Below(delayed, d, level)
      /\ \A i \in 1..Len(sent) : sent[i][1] = "publish" =>
           sent[i][2].ttl <= level /\ (i > s => sent[i][2].ttl < level)
      /\ calls # <<>> => template.ttl <= level
      /\ k < Len(calls) => template.ttl < level
  BY <1>2 DEF Levels
<1>6. /\ Head(delayed) \in Message /\ Head(delayed) = delayed[1]
      /\ delayed' \in Seq(Message) /\ Len(delayed) >= 1 /\ Len(delayed') = Len(delayed) - 1
      /\ \A i \in 1..Len(delayed') : delayed'[i] = delayed[i + 1]
  <2>1. delayed \in Seq(Message)  BY DEF Typed
  <2>2. Len(delayed) # 0  BY <2>1, EmptySeq
  <2> QED  BY <1>3, <2>1, <2>2, HeadTailProperties
<1>7. PICK u \in Nat : u = IF bound THEN 1 ELSE 0  OBVIOUS
<1>8. /\ backlog' \in Seq(Message) /\ Len(backlog') = Len(backlog) + u
      /\ \A i \in 1..Len(backlog) : backlog'[i] = backlog[i]
      /\ \A i \in 1..Len(backlog') : i = Len(backlog) + 1 => u = 1 /\ backlog'[i] = delayed[1]
  <2>1. /\ backlog' \in Seq(Message)
        /\ bound => /\ Len(backlog') = Len(backlog) + 1 /\ backlog'[Len(backlog) + 1] = Head(delayed)
                    /\ \A i \in 1..Len(backlog) : backlog'[i] = backlog[i]
        /\ ~bound => backlog' = backlog
    BY <1>6, FannedOut
  <2>2. CASE bound  BY <1>6, <1>7, <2>1, <2>2
  <2>3. CASE ~bound
    <3>1. backlog' = backlog /\ u = 0  BY <1>7, <2>1, <2>3
    <3> QED  BY <1>3, <2>1, <3>1
  <2> QED  BY <2>2, <2>3
<1>9. PICK b1 \in Nat, d1 \in Nat :
        /\ d # 0 => d = d1 + 1 /\ b1 = b + u
        /\ d = 0 => d1 = 0 /\ b1 = b
  <2>1. CASE d = 0  BY <1>1, <2>1
  <2>2. CASE d # 0
    <3>1. d - 1 \in Nat /\ d = (d - 1) + 1 /\ b + u \in Nat  BY <1>1, <1>7, <2>2
    <3> QED  BY <2>2, <3>1
  <2> QED  BY <2>1, <2>2
<1>10. d = 0 => s = 0 /\ k = 0  BY <1>3, <1>4, <1>6
<1>11. Ordered(b1, d1, s, k)'
  <2>1. PICK lb \in Nat, ld \in Nat :
          /\ lb = Len(backlog) /\ Len(backlog') = lb + u
          /\ ld + 1 = Len(delayed) /\ Len(delayed') = ld
    <3>1. Len(delayed) - 1 \in Nat /\ (Len(delayed) - 1) + 1 = Len(delayed)  BY <1>3, <1>6
    <3> QED  BY <1>3, <1>6, <1>8, <3>1
  <2>2. b \in 0..lb /\ d \in 0..(ld + 1) /\ (d # 0 => b = lb)  BY <1>4, <2>1
  <2>3. s # 0 \/ k # 0 => d = ld + 1  BY <1>4, <2>1
  <2>4. CASE d = 0
    <3>1. b1 \in 0..(lb + u) /\ d1 = 0 /\ s = 0 /\ k = 0  BY <1>7, <1>9, <1>10, <2>2, <2>4
    <3>2. 0 \in 0..ld  OBVIOUS
    <3> QED  BY <1>4, <2>1, <3>1, <3>2 DEF Ordered
  <2>5. CASE d # 0
    <3>1. d = d1 + 1 /\ b1 = b + u  BY <1>9, <2>5
    <3>2. b1 \in 0..(lb + u) /\ b1 = lb + u  BY <1>7, <2>1, <2>2, <2>5, <3>1
    <3>3. d1 \in 0..ld /\ (s # 0 \/ k # 0 => d1 = ld)  BY <1>9, <2>1, <2>2, <2>3, <3>1
    <3> QED  BY <1>4, <2>1, <3>2, <3>3 DEF Ordered
  <2> QED  BY <2>4, <2>5
<1>12. Levels(level, b1, d1, s, k)'
  <2>1. ASSUME NEW i \in 1..Len(delayed')
        PROVE  delayed'[i].ttl <= level /\ (i > d1 => delayed'[i].ttl < level)
    <3>1. i + 1 \in 1..Len(delayed) /\ delayed'[i] = delayed[i + 1]  BY <1>3, <1>6
    <3>2. i > d1 => i + 1 > d  BY <1>9, <3>1
    <3> QED  BY <1>5, <3>1, <3>2 DEF Below
  <2>2. ASSUME NEW i \in 1..Len(backlog')
        PROVE  backlog'[i].ttl <= level /\ (i > b1 => backlog'[i].ttl < level)
    <3>1. CASE i \in 1..Len(backlog)
      <4>1. i > b1 => i > b  BY <1>3, <1>7, <1>9, <3>1
      <4> QED  BY <1>5, <1>8, <3>1, <4>1 DEF Below
    <3>2. CASE i \notin 1..Len(backlog)
      <4>1. i = Len(backlog) + 1 /\ u = 1  BY <1>3, <1>7, <1>8, <3>2
      <4>2. backlog'[i] = delayed[1]  BY <1>8, <4>1
      <4>3. 1 \in 1..Len(delayed)  BY <1>3, <1>6
      <4>4. i > b1 => 1 > d
        <5>1. d # 0 => b1 = Len(backlog) + 1  BY <1>4, <1>9, <4>1
        <5> QED  BY <1>1, <1>3, <4>1, <5>1, SMTT(30)
      <4>5. delayed[1].ttl <= level /\ (1 > d => delayed[1].ttl < level)
        BY <1>5, <4>3 DEF Below
      <4> QED  BY <4>2, <4>4, <4>5
    <3> QED  BY <3>1, <3>2
  <2>3. Below(delayed', d1, level) /\ Below(backlog', b1, level)  BY <2>1, <2>2 DEF Below
  <2> QED  BY <1>5, <2>3 DEF Levels
<1>13. PICK e \in Nat, m \in Nat : e = Upto(sent, s, Publishing) /\ m = Made
  BY <1>3, <1>4, Numbers
<1>14. Upto(sent', s, Publishing) = e /\ Made' = m  BY <1>13 DEF Made, Tries
<1>15. Made' + (b1 + d1 + Upto(sent', s, Publishing) + k) <= Made + Early(b, d, s, k)
  <2>1. b \in Nat /\ d \in Nat /\ k \in Nat  BY <1>1
  <2>2. e \in Nat /\ m \in Nat /\ b1 \in Nat /\ d1 \in Nat  BY <1>9, <1>13
  <2>3. b1 + d1 <= b + d
    <3>1. CASE d = 0  BY <1>9, <2>1, <2>2, <3>1
    <3>2. CASE d # 0
      <4>1. d = d1 + 1 /\ b1 = b + u  BY <1>9, <3>2
      <4>2. u \in Nat /\ u <= 1  BY <1>7
      <4> QED  BY <2>1, <2>2, <4>1, <4>2
    <3> QED  BY <3>1, <3>2
  <2>4. m + (b1 + d1 + e + k) <= m + (b + d + e + k)  BY <2>1, <2>2, <2>3
  <2> QED  BY <1>13, <1>14, <2>4 DEF Early
<1>16. Made' \in Nat /\ Upto(sent', s, Publishing) \in Nat  BY <1>13, <1>14
<1> QED  BY <1>1, <1>9, <1>11, <1>12, <1>15, <1>16, CutMoves

\* A message goes from the delay queue to the queue, or is lost without one.
LEMMA DeadLetterKeeps ==
  ASSUME IInv, DeadLetter
  PROVE  IInv'
<1>1. Typed /\ Acked /\ Once /\ Tokens <= entered /\ Bounded  BY DEF IInv
<1>2. /\ delayed # <<>> /\ delayed' = Tail(delayed) /\ backlog' = Fanout(Head(delayed))
      /\ UNCHANGED <<patient, waiting, alive, link, bound, unacked, calls, template, sent,
                     attempts, completed, entered, closed>>
  BY DEF DeadLetter, histories
<1>3. /\ Len(backlog) \in Nat /\ Len(delayed) \in Nat /\ Len(calls) \in Nat
      /\ Tokens \in Nat /\ Publications \in Nat /\ Acks \in Nat /\ entered \in Nat
      /\ Cardinality(Request) \in Nat /\ Cardinality(waiting) \in Nat
      /\ \A j \in 0..Len(sent) : Upto(sent, j, Publishing) \in Nat /\ Upto(sent, j, Acking) \in Nat
  BY <1>1, Numbers
<1>4. /\ Head(delayed) \in Message
      /\ delayed' \in Seq(Message) /\ Len(delayed) >= 1 /\ Len(delayed') = Len(delayed) - 1
  <2>1. delayed \in Seq(Message)  BY <1>1 DEF Typed
  <2>2. Len(delayed) # 0  BY <1>2, <2>1, EmptySeq
  <2> QED  BY <1>2, <1>3, <2>1, <2>2, HeadTailProperties
<1>5. /\ backlog' \in Seq(Message)
      /\ Len(backlog') \in Nat /\ Len(backlog') <= Len(backlog) + 1
  BY <1>1, <1>2, <1>4, FannedOut
<1>6. PICK l \in Nat, l1 \in Nat, d1 \in Nat :
        /\ l = Len(backlog) /\ l1 = Len(backlog') /\ l1 <= l + 1
        /\ d1 = Len(delayed') /\ Len(delayed) = d1 + 1
  <2>1. Len(delayed) - 1 \in Nat /\ Len(delayed) = (Len(delayed) - 1) + 1  BY <1>3, <1>4
  <2> QED  BY <1>3, <1>4, <1>5, <2>1
<1>7. PICK w \in Nat, C \in Nat, a \in Nat, p \in Nat, c \in Nat :
        /\ w = Cardinality(waiting) /\ C = Cardinality(Request)
        /\ a = Acks /\ p = Publications /\ c = Len(calls)
  BY <1>3
<1>8. /\ l \in Nat /\ l1 \in Nat /\ d1 \in Nat /\ l1 <= l + 1
      /\ w \in Nat /\ C \in Nat /\ a \in Nat /\ p \in Nat /\ c \in Nat
  BY <1>6, <1>7
<1>9. Tries' = Tries  BY <1>2 DEF Tries
<1>10. Typed'
  BY <1>1, <1>2, <1>4, <1>5, <1>9 DEF Typed, Command, Message
<1>11. Acks' = a /\ Publications' = p
  BY <1>2, <1>7 DEF Acks, Publications, Acking, Publishing, Command, Message
<1>12. PICK t \in Nat, t1 \in Nat :
         t = Tokens /\ t1 = Tokens' /\ t1 <= t
  <2>1. Tokens' = l1 + d1 + p + c  BY <1>2, <1>6, <1>7, <1>11 DEF Tokens
  <2>2. Tokens = l + (d1 + 1) + p + c  BY <1>6, <1>7 DEF Tokens
  <2>3. l1 + d1 + p + c \in Nat /\ l + (d1 + 1) + p + c \in Nat
        /\ l1 + d1 + p + c <= l + (d1 + 1) + p + c
    BY <1>8
  <2> QED  BY <2>1, <2>2, <2>3
<1>13. t \in Nat /\ t1 \in Nat /\ t1 <= t  BY <1>12
<1>14. Acked'  BY <1>1, <1>2, <1>7, <1>11 DEF Acked
<1>15. ASSUME NEW j \in 0..Len(sent')
       PROVE  Len(backlog') + Len(delayed') + Upto(sent', j, Publishing) + Acks' + Cardinality(waiting')
                <= Cardinality(Request) + Upto(sent', j, Acking)
  <2>1. j \in 0..Len(sent) /\ sent' = sent  BY <1>2
  <2>2. PICK x \in Nat, y \in Nat : x = Upto(sent, j, Publishing) /\ y = Upto(sent, j, Acking)
    BY <1>3, <2>1
  <2>3. l + (d1 + 1) + x + a + w <= C + y  BY <1>1, <1>6, <1>7, <2>1, <2>2 DEF Once
  <2>4. x \in Nat /\ y \in Nat  BY <2>2
  <2>5. l1 + d1 + x + a + w <= C + y  BY <1>8, <2>3, <2>4
  <2> QED  BY <1>2, <1>6, <1>7, <1>11, <2>1, <2>2, <2>5
<1>16. Tokens' + Cardinality(waiting') <= Cardinality(Request)
  <2>1. t + w <= C  BY <1>1, <1>7, <1>12 DEF Once
  <2>2. t1 + w <= C  BY <1>8, <1>13, <2>1
  <2> QED  BY <1>2, <1>7, <1>12, <2>2
<1>17. entered' + Cardinality(waiting') <= Cardinality(Request) * (1 + closed')
  BY <1>1, <1>2 DEF Once
<1>18. Once'
  BY <1>15, <1>16, <1>17 DEF Once, Publishing, Acking, Command, Message
<1>19. Tokens' <= entered'
  <2>1. t <= entered  BY <1>1, <1>12
  <2>2. t1 <= entered  BY <1>3, <1>13, <2>1
  <2> QED  BY <1>2, <1>12, <2>2
<1>20. Bounded'
  <2>1. Tokens' \in Nat /\ Tokens' <= Tokens  BY <1>12
  <2> QED  BY <1>1, <1>2, <2>1, DeadLetterBounds
<1> QED  BY <1>10, <1>14, <1>18, <1>19, <1>20 DEF IInv

\* What was on its way is gone: the cut is where it was, or everything anew.
LEMMA BreakKeeps ==
  ASSUME IInv, Break
  PROVE  IInv'
<1>1. Typed /\ Acked /\ Once /\ Tokens <= entered /\ Bounded  BY DEF IInv
<1>2. /\ closed < MaxBreaks /\ closed' = closed + 1
      /\ backlog' = unacked \o backlog /\ unacked' = <<>>
      /\ entered' = entered + Len(unacked)
      /\ sent' = <<>> /\ calls' = <<>> /\ link' = FALSE
      /\ UNCHANGED <<patient, waiting, alive, bound, template, delayed, attempts, completed>>
  BY DEF Break
<1>3. /\ Len(backlog) \in Nat /\ Len(delayed) \in Nat /\ Len(calls) \in Nat /\ Len(sent) \in Nat
      /\ Len(unacked) \in Nat /\ MaxBreaks \in Nat
      /\ Tokens \in Nat /\ Publications \in Nat /\ Acks \in Nat /\ entered \in Nat
      /\ Cardinality(Request) \in Nat /\ Cardinality(waiting) \in Nat
  BY <1>1, Numbers
<1>4. /\ backlog' \in Seq(Message) /\ Len(backlog') = Len(unacked) + Len(backlog)
  BY <1>1, <1>2, ConcatProperties DEF Typed
<1>5. PICK l \in Nat, d \in Nat, u \in Nat, w \in Nat, C \in Nat, p \in Nat,
           c \in Nat, n \in Nat, z \in Nat :
        /\ l = Len(backlog) /\ d = Len(delayed) /\ u = Len(unacked)
        /\ w = Cardinality(waiting) /\ C = Cardinality(Request)
        /\ p = Publications /\ c = Len(calls) /\ n = entered /\ z = closed
  <2>1. closed \in Nat  BY <1>1, <1>3 DEF Typed
  <2> QED  BY <1>3, <2>1
<1>6. /\ l \in Nat /\ d \in Nat /\ u \in Nat /\ w \in Nat /\ C \in Nat /\ p \in Nat
      /\ c \in Nat /\ n \in Nat /\ z \in Nat
  BY <1>5
<1>7. Tries' = Tries  BY <1>2 DEF Tries
<1>8. Typed'
  <2>1. /\ <<>> \in Seq(Message) /\ <<>> \in Seq(Command)
        /\ <<>> \in Seq({"exchange", "queue", "bind"})
    OBVIOUS
  <2>2. entered' \in Nat /\ closed' \in 0..MaxBreaks
    BY <1>1, <1>2, <1>3 DEF Typed
  <2> QED
    BY <1>1, <1>2, <1>4, <1>7, <2>1, <2>2 DEF Typed, Command, Message
<1>9. Acks' = 0 /\ Publications' = 0
  BY <1>2, CountEmpty DEF Acks, Publications
<1>10. Made' = Made  BY <1>7 DEF Made
<1>11. Tokens' = (u + l) + d
  <2>1. Len(<<>>) = 0  OBVIOUS
  <2>2. Tokens' = (u + l) + d + 0 + 0  BY <1>2, <1>4, <1>5, <1>9, <2>1 DEF Tokens
  <2> QED  BY <1>6, <2>2
<1>12. Tokens = l + d + p + c  BY <1>5 DEF Tokens
<1>13. Acked'
  <2>1. Len(<<>>) = 0  OBVIOUS
  <2> QED  BY <1>2, <1>9, <2>1 DEF Acked
<1>14. l + d + u + w <= C
  <2>1. 0 \in 0..Len(sent)  BY <1>3
  <2>2. Upto(sent, 0, Publishing) = 0 /\ Upto(sent, 0, Acking) = 0
    BY <1>1, UptoType DEF Typed
  <2>3. l + d + 0 + u + w <= C + 0  BY <1>1, <1>5, <2>1, <2>2 DEF Once, Acked
  <2> QED  BY <1>6, <2>3
<1>15. Once'
  <2>1. ASSUME NEW j \in 0..Len(sent')
        PROVE  Len(backlog') + Len(delayed') + Upto(sent', j, Publishing) + Acks' + Cardinality(waiting')
                 <= Cardinality(Request) + Upto(sent', j, Acking)
    <3>1. <<>> \in Seq(Command) /\ Len(<<>>) = 0  OBVIOUS
    <3>2. j = 0 /\ sent' = <<>>  BY <1>2, <2>1, <3>1
    <3>3. Upto(sent', j, Publishing) = 0 /\ Upto(sent', j, Acking) = 0
      BY <3>1, <3>2, UptoType
    <3>4. (u + l) + d + 0 + 0 + w <= C + 0  BY <1>6, <1>14
    <3> QED  BY <1>2, <1>4, <1>5, <1>9, <3>3, <3>4
  <2>2. Tokens' + Cardinality(waiting') <= Cardinality(Request)
    <3>1. ((u + l) + d) + w <= C  BY <1>6, <1>14
    <3> QED  BY <1>2, <1>5, <1>11, <3>1
  <2>3. entered' + Cardinality(waiting') <= Cardinality(Request) * (1 + closed')
    <3>1. n + w <= C * (1 + z)  BY <1>1, <1>5 DEF Once
    <3>2. C * (1 + (z + 1)) = C * (1 + z) + C  BY <1>6
    <3>3. C * (1 + z) \in Nat  BY <1>6
    <3>4. u <= C  BY <1>6, <1>14
    <3>5. (n + u) + w <= C * (1 + z) + C  BY <1>6, <3>1, <3>3, <3>4
    <3>6. (n + u) + w <= C * (1 + (z + 1))  BY <3>2, <3>5
    <3> QED  BY <1>2, <1>5, <3>6
  <2> QED  BY <2>1, <2>2, <2>3 DEF Once, Publishing, Acking, Command, Message
<1>16. Tokens' <= entered'
  <2>1. l + d + p + c <= n  BY <1>1, <1>5, <1>12
  <2>2. (u + l) + d <= n + u  BY <1>6, <2>1
  <2> QED  BY <1>2, <1>5, <1>11, <2>2
<1>17. Bounded'
  <2>1. CASE u >= 1
    <3>1. entered' = entered + u  BY <1>2, <1>5
    <3> QED  BY <1>1, <1>6, <1>8, <1>10, <1>16, <2>1, <3>1, Afresh
  <2>2. CASE u = 0
    <3>1. PICK level, b, d0, s, k \in Nat : Cut(level, b, d0, s, k)  BY <1>1 DEF Bounded
    <3>2. unacked = <<>>  BY <1>1, <1>5, <2>2, EmptySeq DEF Typed
    <3>3. backlog' = backlog
      <4>1. <<>> \o backlog = backlog  BY <1>1, ConcatEmptySeq DEF Typed
      <4> QED  BY <1>2, <3>2, <4>1
    <3>4. entered' = entered
      <4>1. entered + 0 = entered  BY <1>3
      <4> QED  BY <1>2, <1>5, <2>2, <4>1
    <3>5. /\ b \in 0..Len(backlog) /\ d0 \in 0..Len(delayed)
          /\ d0 # 0 => b = Len(backlog)
          /\ s \in 0..Len(sent) /\ k \in Nat
      BY <3>1 DEF Cut, Ordered
    <3>6. /\ level \in 1..Ttl /\ Below(backlog, b, level) /\ Below(delayed, d0, level)
      BY <3>1 DEF Cut, Levels
    <3>7. Len(<<>>) = 0  OBVIOUS
    <3>8. Ordered(b, d0, 0, 0)'  BY <1>2, <3>3, <3>5, <3>7 DEF Ordered
    <3>9. Levels(level, b, d0, 0, 0)'
      <4>1. Below(backlog', b, level) /\ Below(delayed', d0, level)  BY <1>2, <3>3, <3>6
      <4>2. calls' = <<>> /\ ~ (0 < Len(calls')) /\ 1..Len(sent') = {}  BY <1>2, <3>7
      <4> QED  BY <3>6, <4>1, <4>2 DEF Levels
    <3>10. Upto(sent', 0, Publishing) = 0
      <4>1. <<>> \in Seq(Command)  OBVIOUS
      <4> QED  BY <1>2, <4>1, UptoType
    <3>11. PICK e \in Nat, m \in Nat : e = Upto(sent, s, Publishing) /\ m = Made
      BY <1>1, <3>5, Numbers
    <3>12. Made' + (b + d0 + Upto(sent', 0, Publishing) + 0) <= Made + Early(b, d0, s, k)
      <4>1. b \in Nat /\ d0 \in Nat /\ k \in Nat /\ e \in Nat /\ m \in Nat  BY <3>1, <3>11
      <4>2. m + (b + d0 + 0 + 0) <= m + (b + d0 + e + k)  BY <4>1
      <4> QED  BY <1>10, <3>10, <3>11, <4>2 DEF Early
    <3>13. Tokens' \in Nat /\ Tokens' <= Tokens
      <4>1. (u + l) + d \in Nat /\ (u + l) + d <= l + d + p + c  BY <1>6, <2>2
      <4> QED  BY <1>11, <1>12, <4>1
    <3>14. Made' \in Nat /\ Upto(sent', 0, Publishing) \in Nat /\ 0 \in Nat
      BY <1>10, <3>10, <3>11
    <3> QED  BY <1>1, <3>1, <3>4, <3>8, <3>9, <3>12, <3>13, <3>14, CutMoves
  <2> QED  BY <1>6, <2>1, <2>2
<1> QED  BY <1>8, <1>13, <1>15, <1>16, <1>17 DEF IInv

\* The queue goes with what is in it.
LEMMA ExpireKeeps ==
  ASSUME IInv, Expire
  PROVE  IInv'
<1>1. Typed /\ Acked /\ Once /\ Tokens <= entered /\ Bounded  BY DEF IInv
<1>2. /\ bound' = FALSE /\ backlog' = <<>>
      /\ UNCHANGED <<patient, waiting, alive, link, unacked, calls, template, sent, delayed,
                     attempts, completed, entered, closed>>
  BY DEF Expire, histories
<1>3. /\ Len(backlog) \in Nat /\ Len(delayed) \in Nat /\ Len(calls) \in Nat
      /\ Tokens \in Nat /\ Publications \in Nat /\ Acks \in Nat /\ entered \in Nat
      /\ Cardinality(Request) \in Nat /\ Cardinality(waiting) \in Nat
      /\ \A j \in 0..Len(sent) : Upto(sent, j, Publishing) \in Nat /\ Upto(sent, j, Acking) \in Nat
  BY <1>1, Numbers
<1>4. PICK l \in Nat, d \in Nat, w \in Nat, C \in Nat, a \in Nat, p \in Nat, c \in Nat :
        /\ l = Len(backlog) /\ d = Len(delayed)
        /\ w = Cardinality(waiting) /\ C = Cardinality(Request)
        /\ a = Acks /\ p = Publications /\ c = Len(calls)
  BY <1>3
<1>5. /\ l \in Nat /\ d \in Nat /\ w \in Nat /\ C \in Nat /\ a \in Nat /\ p \in Nat /\ c \in Nat
  BY <1>4
<1>6. Tries' = Tries /\ <<>> \in Seq(Message) /\ Len(<<>>) = 0  BY <1>2 DEF Tries
<1>7. Typed'
  BY <1>1, <1>2, <1>6 DEF Typed, Command, Message
<1>8. Acks' = a /\ Publications' = p /\ Made' = Made
  BY <1>2, <1>4, <1>6 DEF Acks, Publications, Acking, Publishing, Command, Message, Made
<1>9. PICK t \in Nat, t1 \in Nat : t = Tokens /\ t1 = Tokens' /\ t1 <= t
  <2>1. Tokens' = 0 + d + p + c  BY <1>2, <1>4, <1>6, <1>8 DEF Tokens
  <2>2. Tokens = l + d + p + c  BY <1>4 DEF Tokens
  <2>3. 0 + d + p + c \in Nat /\ l + d + p + c \in Nat /\ 0 + d + p + c <= l + d + p + c
    BY <1>5
  <2> QED  BY <2>1, <2>2, <2>3
<1>10. t \in Nat /\ t1 \in Nat /\ t1 <= t  BY <1>9
<1>11. Acked'  BY <1>1, <1>2, <1>4, <1>8 DEF Acked
<1>12. ASSUME NEW j \in 0..Len(sent')
       PROVE  Len(backlog') + Len(delayed') + Upto(sent', j, Publishing) + Acks' + Cardinality(waiting')
                <= Cardinality(Request) + Upto(sent', j, Acking)
  <2>1. j \in 0..Len(sent) /\ sent' = sent  BY <1>2
  <2>2. PICK x \in Nat, y \in Nat : x = Upto(sent, j, Publishing) /\ y = Upto(sent, j, Acking)
    BY <1>3, <2>1
  <2>3. l + d + x + a + w <= C + y  BY <1>1, <1>4, <2>1, <2>2 DEF Once
  <2>4. x \in Nat /\ y \in Nat  BY <2>2
  <2>5. 0 + d + x + a + w <= C + y  BY <1>5, <2>3, <2>4
  <2> QED  BY <1>2, <1>4, <1>6, <1>8, <2>1, <2>2, <2>5
<1>13. Tokens' + Cardinality(waiting') <= Cardinality(Request)
  <2>1. t + w <= C  BY <1>1, <1>4, <1>9 DEF Once
  <2>2. t1 + w <= C  BY <1>5, <1>10, <2>1
  <2> QED  BY <1>2, <1>4, <1>9, <2>2
<1>14. entered' + Cardinality(waiting') <= Cardinality(Request) * (1 + closed')
  BY <1>1, <1>2 DEF Once
<1>15. Once'
  BY <1>12, <1>13, <1>14 DEF Once, Publishing, Acking, Command, Message
<1>16. Tokens' <= entered'
  <2>1. t <= entered  BY <1>1, <1>9
  <2>2. t1 <= entered  BY <1>3, <1>10, <2>1
  <2> QED  BY <1>2, <1>9, <2>2
<1>17. Bounded'
  <2>1. PICK level, b, d0, s, k \in Nat : Cut(level, b, d0, s, k)  BY <1>1 DEF Bounded
  <2>2. Ordered(b, d0, s, k) /\ Levels(level, b, d0, s, k)  BY <2>1 DEF Cut
  <2>3. Ordered(0, d0, s, k)'  BY <1>2, <1>6, <2>2 DEF Ordered
  <2>4. Levels(level, 0, d0, s, k)'
    <3>1. Below(backlog', 0, level)
      <4>1. 1..Len(backlog') = {}  BY <1>2, <1>6
      <4> QED  BY <4>1 DEF Below
    <3> QED  BY <1>2, <2>2, <3>1 DEF Levels, Below
  <2>5. PICK e \in Nat, m \in Nat : e = Upto(sent, s, Publishing) /\ m = Made
    <3>1. s \in 0..Len(sent)  BY <2>2 DEF Ordered
    <3> QED  BY <1>1, <3>1, Numbers
  <2>6. Upto(sent', s, Publishing) = e /\ Made' = m  BY <1>2, <1>8, <2>5
  <2>7. Made' + (0 + d0 + Upto(sent', s, Publishing) + k) <= Made + Early(b, d0, s, k)
    <3>1. b \in Nat /\ d0 \in Nat /\ k \in Nat /\ e \in Nat /\ m \in Nat  BY <2>1, <2>5
    <3>2. m + (0 + d0 + e + k) <= m + (b + d0 + e + k)  BY <3>1
    <3> QED  BY <2>5, <2>6, <3>2 DEF Early
  <2>8. Tokens' \in Nat /\ Tokens' <= Tokens /\ entered' = entered
        /\ Made' \in Nat /\ Upto(sent', s, Publishing) \in Nat /\ 0 \in Nat
    BY <1>2, <1>9, <2>5, <2>6
  <2> QED  BY <1>1, <2>1, <2>3, <2>4, <2>7, <2>8, CutMoves
<1> QED  BY <1>7, <1>11, <1>15, <1>16, <1>17 DEF IInv

-----------------------------------------------------------------------------
(***************************************************************************)
(* The theorems.                                                           *)
(***************************************************************************)
\* Nothing has come in.
LEMMA InitKeeps ==
  ASSUME Init
  PROVE  IInv
<1>1. /\ patient \in BOOLEAN /\ waiting \in Relayed
      /\ alive = TRUE /\ link = FALSE /\ bound = FALSE
      /\ backlog = <<>> /\ unacked = <<>> /\ calls = <<>> /\ sent = <<>> /\ delayed = <<>>
      /\ attempts = [r \in Request |-> 0] /\ completed = {} /\ entered = 0 /\ closed = 0
  BY DEF Init
<1>2. /\ Len(<<>>) = 0 /\ <<>> \in Seq(Message) /\ <<>> \in Seq(Command)
      /\ <<>> \in Seq({"exchange", "queue", "bind"})
  OBVIOUS
<1>3. Tries = {}
  <2>1. \A r \in Request : {r} \X (1..attempts[r]) = {}  BY <1>1
  <2> QED  BY <2>1 DEF Tries
<1>4. IsFiniteSet(Tries) /\ Made = 0  BY <1>3, FS_EmptySet DEF Made
<1>5. waiting \subseteq Request  BY <1>1, RelayedAssumption
<1>6. Ttl \in Nat /\ Ttl >= 1 /\ MaxBreaks \in Nat  BY BoundAssumption
<1>7. Typed
  <2>1. attempts \in [Request -> Nat] /\ completed \subseteq {r \in Request : attempts[r] > 0}
    BY <1>1
  <2>2. entered \in Nat /\ closed \in 0..MaxBreaks  BY <1>1, <1>6
  <2>3. backlog \in Seq(Message) /\ unacked \in Seq(Message) /\ delayed \in Seq(Message)
    BY <1>1, <1>2
  <2>4. calls \in Seq({"exchange", "queue", "bind"}) /\ calls = <<>> /\ sent \in Seq(Command)
    BY <1>1, <1>2
  <2>5. alive \in BOOLEAN /\ link \in BOOLEAN /\ bound \in BOOLEAN  BY <1>1
  <2> QED  BY <1>1, <1>4, <1>5, <2>1, <2>2, <2>3, <2>4, <2>5 DEF Typed
<1>8. Acks = 0 /\ Publications = 0  BY <1>1, CountEmpty DEF Acks, Publications
<1>9. Tokens = 0  BY <1>1, <1>2, <1>8 DEF Tokens
<1>10. Acked  BY <1>1, <1>2, <1>8 DEF Acked
<1>11. PICK w \in Nat, C \in Nat : w = Cardinality(waiting) /\ C = Cardinality(Request)
  BY <1>7, Numbers
<1>12. w \in Nat /\ C \in Nat /\ w <= C
  <2>1. Cardinality(waiting) <= Cardinality(Request)  BY <1>5, RequestAssumption, FS_Subset
  <2> QED  BY <1>11, <2>1
<1>13. Once
  <2>1. ASSUME NEW j \in 0..Len(sent)
        PROVE  Len(backlog) + Len(delayed) + Upto(sent, j, Publishing) + Acks + Cardinality(waiting)
                 <= Cardinality(Request) + Upto(sent, j, Acking)
    <3>1. j = 0  BY <1>1, <1>2, <2>1
    <3>2. Upto(sent, j, Publishing) = 0 /\ Upto(sent, j, Acking) = 0
      BY <1>1, <1>2, <3>1, UptoType
    <3>3. 0 + 0 + 0 + 0 + w <= C + 0  BY <1>12
    <3> QED  BY <1>1, <1>2, <1>8, <1>11, <3>2, <3>3
  <2>2. Tokens + Cardinality(waiting) <= Cardinality(Request)
    <3>1. 0 + w <= C  BY <1>12
    <3> QED  BY <1>9, <1>11, <3>1
  <2>3. entered + Cardinality(waiting) <= Cardinality(Request) * (1 + closed)
    <3>1. 0 + w <= C * (1 + 0)  BY <1>12
    <3> QED  BY <1>1, <1>11, <3>1
  <2> QED  BY <2>1, <2>2, <2>3 DEF Once
<1>14. Bounded
  <2>1. 1 \in Nat /\ 1 \in 1..Ttl /\ 0 \in Nat  BY <1>6
  <2>2. Ordered(0, 0, 0, 0)  BY <1>1, <1>2 DEF Ordered
  <2>3. Levels(1, 0, 0, 0, 0)
    <3>1. 1..Len(backlog) = {} /\ 1..Len(delayed) = {} /\ 1..Len(sent) = {}
      BY <1>1, <1>2
    <3>2. calls = <<>> /\ ~ (0 < Len(calls))  BY <1>1, <1>2
    <3> QED  BY <2>1, <3>1, <3>2 DEF Levels, Below
  <2>4. Early(0, 0, 0, 0) = 0
    <3>1. Upto(sent, 0, Publishing) = 0  BY <1>1, <1>2, UptoType
    <3> QED  BY <3>1 DEF Early
  <2>5. Most(entered) \in Nat
    <3>1. 0 \in Nat /\ 1 \in Nat /\ 1 >= 1  OBVIOUS
    <3>2. Most(0) \in Nat  BY <3>1, MostGrows
    <3> QED  BY <1>1, <3>2
  <2>6. Made + Tokens * (1 - 1) + Early(0, 0, 0, 0) <= Most(entered)
    <3>1. 0 + 0 * (1 - 1) + 0 = 0  OBVIOUS
    <3>2. 0 <= Most(entered)  BY <2>5
    <3> QED  BY <1>4, <1>9, <2>4, <3>1, <3>2
  <2>7. Cut(1, 0, 0, 0, 0)  BY <2>2, <2>3, <2>6 DEF Cut
  <2> QED  BY <2>1, <2>7 DEF Bounded
<1>15. Tokens <= entered  BY <1>1, <1>9
<1> QED  BY <1>7, <1>10, <1>13, <1>14, <1>15 DEF IInv

\* One case for each action.
LEMMA NextKeeps ==
  ASSUME IInv, [Next]_vars
  PROVE  IInv'
<1>1. CASE Ignore \/ Complete \/ Requeue \/ Raise  BY <1>1, ReceivedKeeps
<1>2. CASE OnOk  BY <1>2, OnOkKeeps
<1>3. CASE Open \/ OpenError  BY <1>3, OpenKeeps
<1>4. CASE Relay  BY <1>4, RelayKeeps
<1>5. CASE TakesCommand  BY <1>5, TakesCommandKeeps
<1>6. CASE DeadLetter  BY <1>6, DeadLetterKeeps
<1>7. CASE Break  BY <1>7, BreakKeeps
<1>8. CASE Expire  BY <1>8, ExpireKeeps
<1>9. CASE UNCHANGED vars  BY <1>9, OpenKeeps
<1> QED  BY <1>1, <1>2, <1>3, <1>4, <1>5, <1>6, <1>7, <1>8, <1>9 DEF Next

\* The invariant holds in every run.
THEOREM Inductive == Spec => []IInv
<1>1. Init => IInv  BY InitKeeps
<1>2. IInv /\ [Next]_vars => IInv'  BY NextKeeps
<1> QED  BY <1>1, <1>2, PTL DEF Spec

\* The variables keep their types: calls that are under way have a template to
\* publish, and no more comes into circulation than the breaks account for.
THEOREM TypeCorrect == Spec => []TypeOK
<1>1. IInv => TypeOK
  <2>1. SUFFICES ASSUME IInv PROVE TypeOK  OBVIOUS
  <2>2. Typed /\ Once  BY <2>1 DEF IInv
  <2>3. entered \in 0..(Cardinality(Request) * (1 + MaxBreaks))
    <3>1. PICK n \in Nat, w \in Nat, C \in Nat, M \in Nat :
            /\ n = entered /\ w = Cardinality(waiting) /\ C = Cardinality(Request)
            /\ M = MaxBreaks
      BY <2>2, Numbers
    <3>2. PICK z \in Nat : z = closed /\ z <= M
      BY <2>2, <3>1 DEF Typed
    <3>3. n + w <= C * (1 + z)  BY <2>2, <3>1, <3>2 DEF Once
    <3>4. PICK y \in Nat : M = z + y
      <4>1. M - z \in Nat /\ M = z + (M - z)  BY <3>1, <3>2
      <4> QED  BY <4>1
    <3>5. C * (1 + M) = C * (1 + z) + C * y  BY <3>1, <3>2, <3>4
    <3>6. C * (1 + z) \in Nat /\ C * y \in Nat  BY <3>1, <3>2, <3>4
    <3>7. n <= C * (1 + M)
      <4> DEFINE p == C * (1 + z)
                 q == C * y
                 s == C * (1 + M)
      <4>1. s = p + q /\ p \in Nat /\ q \in Nat /\ n + w <= p  BY <3>3, <3>5, <3>6
      <4>2. n \in Nat /\ w \in Nat  BY <3>1
      <4> HIDE DEF p, q, s
      <4>3. n <= s  BY <4>1, <4>2
      <4> QED  BY <4>3 DEF s
    <3>8. C * (1 + M) \in Nat  BY <3>1
    <3>9. n \in 0..(C * (1 + M))  BY <3>1, <3>7, <3>8
    <3> QED  BY <3>1, <3>9
  <2> QED  BY <2>2, <2>3 DEF Typed, TypeOK, Command
<1> QED  BY <1>1, Inductive, PTL

\* However requests, breaks and expiring queues interleave, devices are asked no
\* more often than Most allows for the messages that came into circulation.
THEOREM DevicesAreNotFlooded == Spec => []NoStorm
<1>1. IInv => NoStorm
  BY MadeIsBounded DEF IInv, NoStorm, Made
<1> QED  BY <1>1, Inductive, PTL

=============================================================================

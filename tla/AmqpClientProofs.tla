-------------------------- MODULE AmqpClientProofs -------------------------
(***************************************************************************)
(* Proofs about AmqpClient for all bodies, frame sizes and queue bounds.   *)
(***************************************************************************)
EXTENDS AmqpClient, SequenceTheorems, TLAPS

-----------------------------------------------------------------------------
(***************************************************************************)
(* The inductive invariant.  Opened is what can exist of the connection    *)
(* when a step begins: CleansUp holds because each way out undoes at least *)
(* that much.  Reassembly says how the loop stands: the broker has the end *)
(* of the body yet to send, left is its length, and unless memory ran      *)
(* short the buffer has the rest.                                          *)
(***************************************************************************)
SetupStage == {"new", "socket", "open", "login", "channel", "exchange"}

Opened(step) ==
  CASE step \in {"idle", "new"}             -> {}
    [] step \in {"socket", "open", "login"} -> {"state"}
    [] step = "channel"                     -> {"state", "session"}
    [] OTHER                                -> Resource

OpenedOnly == live \subseteq Opened(pc)

OnlyFetchGets ==
  function = "amqp_notify" => pc \notin {"get", "header", "body"}

Buffer == data \in {<<>>} \cup {<<s>> : s \in Seq(Nat)}

BeforeGet ==
  pc \in SetupStage \cup {"publish", "get"} =>
    data = <<>> /\ left = 0 /\ arriving = <<>> /\ taken = <<>>

BeforeContent ==
  pc = "header" => data = <<>> /\ left = 0 /\ taken = <<arriving>>

\* The loop has taken in k units of body b.
Reassembly ==
  pc = "body" =>
    \E b \in Body : \E k \in 0..(Len(b) - 1) :
      /\ taken = <<b>>
      /\ arriving = SubSeq(b, k + 1, Len(b))
      /\ left = Len(b) - k
      /\ data # <<>>
      /\ ~ short => data = <<SubSeq(b, 1, k)>>

Complete ==
  pc = "close" \/ (pc = "idle" /\ rc = 0) =>
    /\ left = 0 /\ arriving = <<>>
    /\ taken = <<>> => data = <<>>
    /\ taken # <<>> /\ ~ short => data = taken

IInv == /\ TypeOK
        /\ OpenedOnly
        /\ OnlyFetchGets
        /\ Buffer
        /\ BeforeGet
        /\ BeforeContent
        /\ Reassembly
        /\ Complete

-----------------------------------------------------------------------------
(* The steps of the set-up, by name. *)
LEMMA SetupIs == Range(Setup) = SetupStage
BY DEF Range, Setup, SetupStage

(* The step that follows one of the set-up. *)
LEMMA SetupOrder ==
  /\ AfterSetup("new") = "socket"
  /\ AfterSetup("socket") = "open"
  /\ AfterSetup("open") = "login"
  /\ AfterSetup("login") = "channel"
  /\ AfterSetup("channel") = "exchange"
  /\ AfterSetup("exchange") = IF function = "amqp_notify" THEN "publish" ELSE "get"
<1>1. \A i \in DOMAIN Setup : /\ Setup[i] = "new" <=> i = 1
                              /\ Setup[i] = "socket" <=> i = 2
                              /\ Setup[i] = "open" <=> i = 3
                              /\ Setup[i] = "login" <=> i = 4
                              /\ Setup[i] = "channel" <=> i = 5
  BY DEF Setup
<1>2. DOMAIN Setup = 1..6
  BY DEF Setup
<1>3. /\ (CHOOSE i \in DOMAIN Setup : Setup[i] = "new") = 1
      /\ (CHOOSE i \in DOMAIN Setup : Setup[i] = "socket") = 2
      /\ (CHOOSE i \in DOMAIN Setup : Setup[i] = "open") = 3
      /\ (CHOOSE i \in DOMAIN Setup : Setup[i] = "login") = 4
      /\ (CHOOSE i \in DOMAIN Setup : Setup[i] = "channel") = 5
  BY <1>1, <1>2
<1> QED
  BY <1>3 DEF AfterSetup, Setup

(* Every way out takes down all that can exist, whatever the step did. *)
LEMMA WaysOut ==
  ASSUME OpenedOnly, NEW code, Return(pc, code),
         pc \in SetupStage \cup {"publish", "get", "header", "body", "close"}
  PROVE  live' = {} /\ pc' = "idle" /\ rc' = code
<1>1. CASE pc = "new"
  BY <1>1 DEF OpenedOnly, Opened, Return, CleanedUp, Creates
<1>2. CASE pc # "new"
  BY <1>2 DEF OpenedOnly, Opened, Return, CleanedUp, Creates, Resource, SetupStage
<1> QED
  BY <1>1, <1>2

-----------------------------------------------------------------------------
(* What comes after the first m elements, up to the n-th. *)
LEMMA PartOf ==
  ASSUME NEW s \in Seq(Nat), NEW m \in Nat, NEW n \in Nat, m <= n, n <= Len(s)
  PROVE  /\ SubSeq(s, m + 1, n) \in Seq(Nat)
         /\ Len(SubSeq(s, m + 1, n)) = n - m
         /\ \A i \in 1..(n - m) : SubSeq(s, m + 1, n)[i] = s[m + i]
<1>1. Len(s) \in Nat  BY LenProperties
<1>2. m + 1 \in Int /\ n \in Int /\ \A i \in (m + 1)..n : s[i] \in Nat
  BY <1>1, ElementOfSeq
<1>3. /\ SubSeq(s, m + 1, n) \in Seq(Nat)
      /\ Len(SubSeq(s, m + 1, n)) = IF m + 1 <= n THEN n - (m + 1) + 1 ELSE 0
      /\ \A i \in 1..(n - (m + 1) + 1) : SubSeq(s, m + 1, n)[i] = s[(m + 1) + i - 1]
  BY <1>2, SubSeqProperties
<1>4. n - (m + 1) + 1 = n - m /\ (IF m + 1 <= n THEN n - (m + 1) + 1 ELSE 0) = n - m
  OBVIOUS
<1>5. \A i \in Nat : (m + 1) + i - 1 = m + i
  OBVIOUS
<1> QED  BY <1>3, <1>4, <1>5

(* A body of which k units have been taken in, and then n more. *)
LEMMA NextFragment ==
  ASSUME NEW b \in Seq(Nat), NEW k \in 0..(Len(b) - 1), NEW n \in 1..(Len(b) - k)
  PROVE  LET rest == SubSeq(b, k + 1, Len(b)) IN
         /\ rest \in Seq(Nat) /\ Len(rest) = Len(b) - k
         /\ SubSeq(rest, 1, n) = SubSeq(b, k + 1, k + n)
         /\ SubSeq(rest, n + 1, Len(rest)) = SubSeq(b, k + n + 1, Len(b))
         /\ SubSeq(b, 1, k) \o SubSeq(rest, 1, n) = SubSeq(b, 1, k + n)
         /\ Len(SubSeq(rest, 1, n)) = n
         /\ Len(SubSeq(rest, n + 1, Len(rest))) = Len(b) - (k + n)
         /\ SubSeq(rest, n + 1, Len(rest)) \in Seq(Nat)
         /\ Len(SubSeq(b, 1, k)) = k
<1> DEFINE rest == SubSeq(b, k + 1, Len(b))
<1>0. Len(b) \in Nat /\ k \in Nat /\ n \in Nat \ {0} /\ k + n <= Len(b)
  BY LenProperties
<1>1. /\ rest \in Seq(Nat) /\ Len(rest) = Len(b) - k
      /\ \A i \in 1..(Len(b) - k) : rest[i] = b[k + i]
  <2>1. k <= Len(b) /\ Len(b) <= Len(b)  BY <1>0
  <2> QED  BY <1>0, <2>1, PartOf
<1> HIDE DEF rest
<1>2. /\ SubSeq(rest, 1, n) \in Seq(Nat) /\ Len(SubSeq(rest, 1, n)) = n
      /\ \A i \in 1..n : SubSeq(rest, 1, n)[i] = b[k + i]
  <2>1. rest \in Seq(Nat) /\ n \in Nat /\ n <= Len(rest)  BY <1>0, <1>1
  <2>2. PICK m \in Nat : m = 0  OBVIOUS
  <2>3. m <= n  BY <2>1, <2>2
  <2>4. /\ SubSeq(rest, m + 1, n) \in Seq(Nat) /\ Len(SubSeq(rest, m + 1, n)) = n - m
        /\ \A i \in 1..(n - m) : SubSeq(rest, m + 1, n)[i] = rest[m + i]
    BY <2>1, <2>3, PartOf
  <2>5. m + 1 = 1 /\ n - m = n  BY <2>1, <2>2
  <2>6. \A i \in 1..n : m + i = i /\ i \in 1..(Len(b) - k)  BY <1>0, <2>2
  <2> QED  BY <1>1, <2>4, <2>5, <2>6
<1>3. /\ SubSeq(b, k + 1, k + n) \in Seq(Nat) /\ Len(SubSeq(b, k + 1, k + n)) = n
      /\ \A i \in 1..n : SubSeq(b, k + 1, k + n)[i] = b[k + i]
  <2>1. k + n \in Nat /\ k <= k + n /\ (k + n) - k = n  BY <1>0
  <2> QED  BY <1>0, <2>1, PartOf
<1>4. SubSeq(rest, 1, n) = SubSeq(b, k + 1, k + n)
  BY <1>2, <1>3, SeqEqual
<1>5. /\ SubSeq(rest, n + 1, Len(rest)) \in Seq(Nat)
      /\ Len(SubSeq(rest, n + 1, Len(rest))) = Len(b) - k - n
      /\ \A i \in 1..(Len(b) - k - n) :
           SubSeq(rest, n + 1, Len(rest))[i] = b[k + n + i]
  <2>1. /\ rest \in Seq(Nat) /\ n \in Nat
        /\ Len(rest) \in Nat /\ n <= Len(rest) /\ Len(rest) <= Len(rest)
        /\ Len(rest) - n = Len(b) - k - n
    BY <1>0, <1>1
  <2>2. /\ SubSeq(rest, n + 1, Len(rest)) \in Seq(Nat)
        /\ Len(SubSeq(rest, n + 1, Len(rest))) = Len(rest) - n
        /\ \A i \in 1..(Len(rest) - n) : SubSeq(rest, n + 1, Len(rest))[i] = rest[n + i]
    BY <2>1, PartOf
  <2>3. ASSUME NEW i \in 1..(Len(b) - k - n)
        PROVE  SubSeq(rest, n + 1, Len(rest))[i] = b[k + n + i]
    <3>1. n + i \in 1..(Len(b) - k) /\ k + (n + i) = k + n + i
      BY <1>0
    <3>2. rest[n + i] = b[k + (n + i)]
      BY <1>1, <3>1
    <3> QED  BY <2>1, <2>2, <3>1, <3>2
  <2> QED  BY <2>1, <2>2, <2>3
<1>6. /\ SubSeq(b, k + n + 1, Len(b)) \in Seq(Nat)
      /\ Len(SubSeq(b, k + n + 1, Len(b))) = Len(b) - k - n
      /\ \A i \in 1..(Len(b) - k - n) :
           SubSeq(b, k + n + 1, Len(b))[i] = b[k + n + i]
  <2>1. PICK m \in Nat : m = k + n  BY <1>0
  <2>2. m <= Len(b) /\ Len(b) <= Len(b) /\ Len(b) - m = Len(b) - k - n
    BY <1>0, <2>1
  <2>3. /\ SubSeq(b, m + 1, Len(b)) \in Seq(Nat)
        /\ Len(SubSeq(b, m + 1, Len(b))) = Len(b) - m
        /\ \A i \in 1..(Len(b) - m) : SubSeq(b, m + 1, Len(b))[i] = b[m + i]
    BY <1>0, <2>2, PartOf
  <2> QED  BY <2>1, <2>2, <2>3
<1>7. SubSeq(rest, n + 1, Len(rest)) = SubSeq(b, k + n + 1, Len(b))
  BY <1>0, <1>5, <1>6, SeqEqual
<1>8. SubSeq(b, 1, k) \o SubSeq(b, k + 1, k + n) = SubSeq(b, 1, k + n)
  BY <1>0, ConcatAdjacentSubSeq
<1>9. Len(SubSeq(b, 1, k)) = k
  BY <1>0, SubSeqProperties
<1> QED
  <2>1. Len(SubSeq(rest, n + 1, Len(rest))) = Len(b) - (k + n)
    BY <1>0, <1>5
  <2> QED
    BY <1>1, <1>2, <1>4, <1>5, <1>7, <1>8, <1>9, <2>1 DEF rest

-----------------------------------------------------------------------------
(* Between calls, before the first one, the invariant holds. *)
LEMMA InitIInv == Init => IInv
<1> SUFFICES ASSUME Init PROVE IInv
  OBVIOUS
<1>1. TypeOK
  <2>1. arriving \in Seq(Nat) /\ queue \in Seq(Body) /\ data = <<>> /\ taken = <<>>
    BY DEF Init
  <2> QED
    BY <2>1 DEF Init, TypeOK
<1>2. OpenedOnly /\ OnlyFetchGets /\ Buffer
  BY DEF Init, OpenedOnly, OnlyFetchGets, Buffer
<1>3. BeforeGet /\ BeforeContent /\ Reassembly /\ Complete
  BY DEF Init, BeforeGet, BeforeContent, Reassembly, Complete, SetupStage
<1> QED
  BY <1>1, <1>2, <1>3 DEF IInv

(* A call starts where the one before it left nothing. *)
LEMMA CallStep ==
  ASSUME IInv, NEW f \in {"amqp_notify", "amqp_fetch_pending"}, Call(f)
  PROVE  IInv'
<1>1. TypeOK'
  <2>1. arriving' \in Seq(Nat) /\ data' = <<>> /\ taken' = <<>>
    BY DEF Call
  <2> QED
    BY <2>1, SetupIs DEF Call, IInv, TypeOK, SetupStage
<1>2. OpenedOnly' /\ OnlyFetchGets' /\ Buffer'
  BY DEF Call, IInv, OpenedOnly, Opened, OnlyFetchGets, Buffer
<1>3. BeforeGet' /\ BeforeContent' /\ Reassembly' /\ Complete'
  BY DEF Call, BeforeGet, BeforeContent, Reassembly, Complete
<1> QED
  BY <1>1, <1>2, <1>3 DEF IInv

(* Leaving early: nothing is left of the connection, and rc says so. *)
LEMMA EarlyReturn ==
  ASSUME IInv, Return(pc, 1),
         pc \in SetupStage \cup {"publish", "get", "header", "body"},
         UNCHANGED <<function, data, left, arriving, copies, short, taken, queue>>
  PROVE  IInv'
<1>1. live' = {} /\ pc' = "idle" /\ rc' = 1
  BY WaysOut DEF IInv
<1> QED
  BY <1>1 DEF IInv, TypeOK, OpenedOnly, OnlyFetchGets, Buffer, BeforeGet, BeforeContent,
              Reassembly, Complete, SetupStage

(* One call of the set-up adds what it opens, or fails and leaves it to Close. *)
LEMMA SetupStepStep ==
  ASSUME IInv, SetupStep
  PROVE  IInv'
<1>1. CASE Return(pc, 1)
  BY <1>1, EarlyReturn, SetupIs DEF SetupStep
<1>2. CASE /\ pc' = AfterSetup(pc)
           /\ live' = live \cup Creates(pc)
           /\ UNCHANGED rc
  <2>1. pc \in SetupStage
    BY SetupIs DEF SetupStep
  <2>2. function \in {"amqp_notify", "amqp_fetch_pending"}
    BY DEF IInv, TypeOK
  <2>3. pc' \in SetupStage \cup {"publish", "get"}
    BY <1>2, <2>1, SetupOrder DEF SetupStage
  <2>4. OpenedOnly' /\ live' \subseteq Resource
    BY <1>2, <2>1, SetupOrder DEF IInv, TypeOK, OpenedOnly, Opened, Creates, Resource, SetupStage
  <2>5. OnlyFetchGets'
    BY <1>2, <2>1, <2>2, SetupOrder DEF SetupStep, IInv, OnlyFetchGets, SetupStage
  <2>6. TypeOK' /\ Buffer'
    BY <1>2, <2>3, <2>4, SetupIs DEF SetupStep, IInv, TypeOK, Buffer, SetupStage
  <2>7. BeforeGet' /\ BeforeContent' /\ Reassembly' /\ Complete'
    BY <1>2, <2>1, <2>3
       DEF SetupStep, IInv, BeforeGet, BeforeContent, Reassembly, Complete, SetupStage
  <2> QED
    BY <2>4, <2>5, <2>6, <2>7 DEF IInv
<1> QED
  BY <1>1, <1>2 DEF SetupStep

(* amqp_notify: the message is published, and the connection closed next. *)
LEMMA PublishStep ==
  ASSUME IInv, Publish
  PROVE  IInv'
<1>1. CASE Return(pc, 1)
  BY <1>1, EarlyReturn DEF Publish
<1>2. CASE pc' = "close" /\ UNCHANGED <<live, rc>>
  BY <1>2, SetupIs DEF Publish, IInv, TypeOK, OpenedOnly, Opened, OnlyFetchGets, Buffer,
                       BeforeGet, BeforeContent, Reassembly, Complete, SetupStage
<1> QED
  BY <1>1, <1>2 DEF Publish

(* amqp_basic_get: a message, none, or a failure. *)
LEMMA GetReplyStep ==
  ASSUME IInv, GetReply
  PROVE  IInv'
<1>1. CASE Return(pc, 1) /\ UNCHANGED <<arriving, taken, queue>>
  BY <1>1, EarlyReturn DEF GetReply
<1>2. CASE pc' = "close" /\ UNCHANGED <<live, rc, arriving, taken, queue>>
  BY <1>2, SetupIs DEF GetReply, IInv, TypeOK, OpenedOnly, Opened, OnlyFetchGets, Buffer,
                       BeforeGet, BeforeContent, Reassembly, Complete, SetupStage
<1>3. CASE /\ queue # <<>>
           /\ queue' = Tail(queue)
           /\ taken' = <<Head(queue)>>
           /\ arriving' = Head(queue)
           /\ pc' = "header"
           /\ UNCHANGED <<live, rc>>
  <2>1. queue' \in Seq(Body) /\ Head(queue) \in Body /\ Head(queue) \in Seq(Nat)
    BY <1>3, BodyAssumption, HeadTailProperties DEF IInv, TypeOK
  <2>2. TypeOK'
    BY <1>3, <2>1, SetupIs DEF GetReply, IInv, TypeOK
  <2> QED
    BY <1>3, <2>2 DEF GetReply, IInv, OpenedOnly, Opened, OnlyFetchGets, Buffer, BeforeGet,
                      BeforeContent, Reassembly, Complete, SetupStage
<1> QED
  BY <1>1, <1>2, <1>3 DEF GetReply

(* The header says how much is to come; msg.data is allocated for it. *)
LEMMA ContentHeaderStep ==
  ASSUME IInv, ContentHeader
  PROVE  IInv'
<1>1. CASE Return(pc, 1) /\ UNCHANGED <<data, left>>
  BY <1>1, EarlyReturn DEF ContentHeader
<1>2. CASE /\ data' = <<<<>>>>
           /\ left' = Len(arriving)
           /\ pc' = IF arriving = <<>> THEN "close" ELSE "body"
           /\ UNCHANGED <<live, rc>>
  <2>1. /\ taken = <<arriving>> /\ arriving \in Seq(Nat) /\ arriving \in Body
        /\ Len(arriving) \in Nat /\ (arriving # <<>> => Len(arriving) > 0)
        /\ (arriving = <<>> => Len(arriving) = 0)
    <3>1. taken = <<arriving>> /\ arriving \in Seq(Nat)
      BY DEF ContentHeader, IInv, TypeOK, BeforeContent
    <3>2. taken # <<>> /\ taken[1] = arriving
      BY <3>1
    <3>3. taken[1] \in Body
      BY <3>2 DEF IInv, TypeOK
    <3> QED
      BY <3>1, <3>2, <3>3
  <2>2. <<>> \in Seq(Nat)
    OBVIOUS
  <2>3. TypeOK' /\ Buffer'
    <3>1. Buffer' /\ Len(data') = 1 /\ data'[1] \in Seq(Nat)
      BY <1>2, <2>2 DEF Buffer
    <3>2. pc' \in {"close", "body"}
      BY <1>2
    <3> QED
      BY <1>2, <2>1, <3>1, <3>2 DEF ContentHeader, IInv, TypeOK
  <2>4. Reassembly'
    <3> SUFFICES ASSUME arriving # <<>>
                 PROVE  \E b \in Body : \E k \in 0..(Len(b) - 1) :
                          /\ taken' = <<b>>
                          /\ arriving' = SubSeq(b, k + 1, Len(b))
                          /\ left' = Len(b) - k
                          /\ data' # <<>>
                          /\ ~ short' => data' = <<SubSeq(b, 1, k)>>
      BY <1>2 DEF Reassembly
    <3>1. SubSeq(arriving, 1, 0) = <<>> /\ SubSeq(arriving, 0 + 1, Len(arriving)) = arriving
      BY <2>1, SubSeqEmpty, SubSeqFull
    <3>2. 0 \in 0..(Len(arriving) - 1)
      BY <2>1
    <3>3. data' # <<>> /\ data' = <<SubSeq(arriving, 1, 0)>>
      BY <1>2, <3>1
    <3>4. left' = Len(arriving) - 0
      BY <1>2, <2>1
    <3> QED
      BY <1>2, <2>1, <3>1, <3>2, <3>3, <3>4 DEF ContentHeader
  <2>5. Complete'
    BY <1>2, <2>1 DEF ContentHeader, Complete
  <2> QED
    BY <1>2, <2>3, <2>4, <2>5
       DEF ContentHeader, IInv, OpenedOnly, Opened, OnlyFetchGets, BeforeGet, BeforeContent,
           SetupStage
<1> QED
  BY <1>1, <1>2 DEF ContentHeader

(***************************************************************************)
(* One turn of the loop.  A fragment as long as the whole body only comes  *)
(* first, and is the body; any other extends what is there to the next     *)
(* k + n units without being cut.                                          *)
(***************************************************************************)
LEMMA Extending ==
  ASSUME NEW b \in Seq(Nat), NEW k \in 0..(Len(b) - 1), NEW n \in 1..(Len(b) - k)
  PROVE  LET fragment == SubSeq(b, k + 1, k + n) IN
         /\ Extended(SubSeq(b, 1, k), fragment, Len(b)) = SubSeq(b, 1, k + n)
         /\ \A old \in Seq(Nat) : Extended(old, fragment, Len(b)) \in Seq(Nat)
<1> DEFINE fragment == SubSeq(b, k + 1, k + n)
<1>0. /\ Len(b) \in Nat /\ \A i \in 1..Len(b) : b[i] \in Nat
      /\ k + n <= Len(b) /\ k + n \in Nat
  BY LenProperties, ElementOfSeq
<1>1. /\ fragment \in Seq(Nat) /\ Len(fragment) = n
      /\ SubSeq(b, 1, k) \in Seq(Nat) /\ Len(SubSeq(b, 1, k)) = k
      /\ SubSeq(b, 1, k) \o fragment = SubSeq(b, 1, k + n)
      /\ Len(SubSeq(b, 1, k + n)) = k + n
  <2>2. fragment \in Seq(Nat) /\ Len(fragment) = n
    BY <1>0, SubSeqProperties
  <2>3. /\ SubSeq(b, 1, k) \in Seq(Nat) /\ Len(SubSeq(b, 1, k)) = k
        /\ Len(SubSeq(b, 1, k + n)) = k + n
    BY <1>0, SubSeqProperties
  <2>4. SubSeq(b, 1, k) \o fragment = SubSeq(b, 1, k + n)
    BY <1>0, ConcatAdjacentSubSeq
  <2> QED
    BY <2>2, <2>3, <2>4
<1> HIDE DEF fragment
<1>2. Extended(SubSeq(b, 1, k), fragment, Len(b)) = SubSeq(b, 1, k + n)
  <2>1. CASE n = Len(b)
    <3>1. k = 0 /\ SubSeq(b, 1, k) = <<>>
      BY <1>0, <1>1, <2>1, EmptySeq
    <3>2. <<>> \o fragment = fragment
      BY <1>1, ConcatEmptySeq
    <3> QED
      BY <1>0, <1>1, <2>1, <3>1, <3>2 DEF Extended
  <2>2. CASE n # Len(b)
    BY <1>0, <1>1, <2>2 DEF Extended, Cut
  <2> QED
    BY <2>1, <2>2
<1>3. ASSUME NEW old \in Seq(Nat)
      PROVE  Extended(old, fragment, Len(b)) \in Seq(Nat)
  <2> DEFINE all == old \o fragment
  <2>1. all \in Seq(Nat) /\ Len(all) \in Nat /\ \A i \in 1..Len(all) : all[i] \in Nat
    <3>1. all \in Seq(Nat)
      BY <1>1, ConcatProperties
    <3> QED
      BY <3>1, ElementOfSeq, LenProperties
  <2> HIDE DEF all
  <2>2. Len(all) > Len(b) => SubSeq(all, 1, Len(b)) \in Seq(Nat)
    BY <1>0, <2>1, SubSeqProperties
  <2>3. Cut(all, Len(b)) \in Seq(Nat)
    BY <1>0, <2>1, <2>2 DEF Cut
  <2> QED
    BY <1>1, <2>3 DEF Extended, all
<1> QED
  BY <1>2, <1>3 DEF fragment

(* A frame is appended to what has come, or the loop is left. *)
LEMMA BodyFrameStep ==
  ASSUME IInv, BodyFrame
  PROVE  IInv'
<1>1. CASE Return(pc, 1) /\ UNCHANGED <<data, left, arriving, copies, short>>
  BY <1>1, EarlyReturn DEF BodyFrame
<1>2. ASSUME NEW n \in 1..MaxFrame, n <= Len(arriving),
             arriving' = SubSeq(arriving, n + 1, Len(arriving)),
             TakeIn(SubSeq(arriving, 1, n), Len(taken[1])),
             left' = LeftAfter(SubSeq(arriving, 1, n), Len(taken[1])),
             pc' = IF left' = 0 THEN "close" ELSE "body",
             UNCHANGED <<live, rc>>
      PROVE  IInv'
  <2>1. PICK b \in Body : \E k \in 0..(Len(b) - 1) :
          /\ taken = <<b>>
          /\ arriving = SubSeq(b, k + 1, Len(b))
          /\ left = Len(b) - k
          /\ data # <<>>
          /\ ~ short => data = <<SubSeq(b, 1, k)>>
    BY DEF BodyFrame, IInv, Reassembly
  <2>2. PICK k \in 0..(Len(b) - 1) :
          /\ taken = <<b>>
          /\ arriving = SubSeq(b, k + 1, Len(b))
          /\ left = Len(b) - k
          /\ data # <<>>
          /\ ~ short => data = <<SubSeq(b, 1, k)>>
    BY <2>1
  <2>3. b \in Seq(Nat) /\ Len(b) \in Nat /\ taken[1] = b
    BY <2>2, BodyAssumption, LenProperties
  <2>4. /\ n \in 1..(Len(b) - k) /\ k + n \in Nat /\ Len(arriving) = Len(b) - k
        /\ k \in Int /\ n \in Int
    BY <1>2, <2>2, <2>3, NextFragment, BoundAssumption
  <2> DEFINE fragment == SubSeq(arriving, 1, n)
  <2>5. /\ fragment = SubSeq(b, k + 1, k + n) /\ Len(fragment) = n
        /\ arriving' = SubSeq(b, k + n + 1, Len(b))
        /\ arriving' \in Seq(Nat) /\ Len(arriving') = Len(b) - (k + n)
    BY <1>2, <2>2, <2>3, <2>4, NextFragment, SMTT(30), ZenonT(40)
  <2>6. left' = Len(b) - (k + n)
    BY <1>2, <2>2, <2>3, <2>4, <2>5 DEF LeftAfter
  <2>7. PICK old \in Seq(Nat) : data = <<old>>
    BY <2>2 DEF IInv, Buffer
  <2>21. TakeIn(fragment, Len(b))
    BY <1>2, <2>3
  <2>20. /\ Extended(SubSeq(b, 1, k), SubSeq(b, k + 1, k + n), Len(b)) = SubSeq(b, 1, k + n)
         /\ \A s \in Seq(Nat) : Extended(s, SubSeq(b, k + 1, k + n), Len(b)) \in Seq(Nat)
    BY <2>3, <2>4, Extending
  <2>8. \E d \in Seq(Nat) : /\ data' = <<d>>
                            /\ ~ short' => d = SubSeq(b, 1, k + n)
    <3>1. CASE /\ data' = <<Extended(data[1], fragment, Len(b))>>
               /\ UNCHANGED short
      <4>1. ~ short => old = SubSeq(b, 1, k)
        BY <2>2, <2>7
      <4>2. Extended(old, fragment, Len(b)) \in Seq(Nat)
        BY <2>5, <2>20
      <4>3. ~ short => Extended(old, fragment, Len(b)) = SubSeq(b, 1, k + n)
        BY <2>5, <2>20, <4>1
      <4> QED
        BY <2>7, <3>1, <4>2, <4>3
    <3>2. CASE data' = <<Extended(<<>>, fragment, Len(b))>> /\ short' = TRUE
      <4>1. Extended(<<>>, fragment, Len(b)) \in Seq(Nat)
        <5>1. <<>> \in Seq(Nat)
          OBVIOUS
        <5> QED
          BY <2>5, <2>20, <5>1
      <4> QED
        BY <3>2, <4>1
    <3> QED
      BY <2>21, <3>1, <3>2 DEF TakeIn
  <2>9. PICK d \in Seq(Nat) : /\ data' = <<d>>
                              /\ ~ short' => d = SubSeq(b, 1, k + n)
    BY <2>8
  <2>10. Buffer' /\ data' # <<>> /\ Len(data') = 1 /\ data'[1] \in Seq(Nat)
    BY <2>9 DEF Buffer
  <2>11. /\ function' = function /\ taken' = taken /\ queue' = queue
         /\ copies' \in Nat /\ short' \in BOOLEAN
    <3>1. function' = function /\ taken' = taken /\ queue' = queue
      BY DEF BodyFrame
    <3>2. copies \in Nat /\ short \in BOOLEAN
      BY DEF IInv, TypeOK
    <3> QED
      <4>1. copies' \in Nat
        BY <2>21, <3>2 DEF TakeIn
      <4>2. short' \in BOOLEAN
        BY <2>21, <3>2, Zenon DEF TakeIn
      <4> QED
        BY <3>1, <4>1, <4>2
  <2>12. TypeOK'
    <3>1. left' \in Nat /\ pc' \in {"close", "body"}
      BY <1>2, <2>3, <2>4, <2>6, SMTT(30)
    <3> QED
      BY <1>2, <2>5, <2>10, <2>11, <3>1 DEF IInv, TypeOK
  <2>13. OpenedOnly' /\ OnlyFetchGets'
    BY <1>2, <2>11 DEF BodyFrame, IInv, OpenedOnly, Opened, OnlyFetchGets
  <2>14. Reassembly'
    <3> SUFFICES ASSUME pc' = "body"
                 PROVE  \E c \in Body : \E j \in 0..(Len(c) - 1) :
                          /\ taken' = <<c>>
                          /\ arriving' = SubSeq(c, j + 1, Len(c))
                          /\ left' = Len(c) - j
                          /\ data' # <<>>
                          /\ ~ short' => data' = <<SubSeq(c, 1, j)>>
      BY DEF Reassembly
    <3>1. k + n \in 0..(Len(b) - 1)
      BY <1>2, <2>3, <2>4, <2>6
    <3> QED
      BY <2>2, <2>5, <2>6, <2>9, <2>10, <2>11, <3>1
  <2>15. Complete'
    <3> SUFFICES ASSUME pc' = "close"
                 PROVE  /\ left' = 0 /\ arriving' = <<>>
                        /\ taken' # <<>> /\ (~ short' => data' = taken')
      BY <1>2 DEF Complete
    <3>1. left' = 0 /\ k + n = Len(b)
      <4>1. left' = 0
        BY <1>2
      <4>2. Len(b) - (k + n) = 0
        BY <2>6, <4>1
      <4>3. k + n = Len(b)
        <5>1. Len(b) \in Int /\ k \in Int /\ n \in Int
          BY <2>3, <2>4
        <5> QED
          BY <4>2, <5>1
      <4> QED
        BY <4>1, <4>3
    <3>2. arriving' = <<>>
      BY <2>5, <3>1, EmptySeq
    <3>3. SubSeq(b, 1, k + n) = b
      BY <2>3, <3>1, SubSeqFull
    <3> QED
      BY <2>2, <2>9, <2>11, <3>1, <3>2, <3>3
  <2>16. BeforeGet' /\ BeforeContent'
    BY <1>2 DEF BeforeGet, BeforeContent, SetupStage
  <2> QED
    BY <2>10, <2>12, <2>13, <2>14, <2>15, <2>16 DEF IInv
<1> QED
  BY <1>1, <1>2 DEF BodyFrame

(* The labels release what has been opened. *)
LEMMA CloseStep ==
  ASSUME IInv, Close
  PROVE  IInv'
<1>1. live' = {} /\ pc' = "idle" /\ rc' = 0
  BY WaysOut DEF Close, IInv
<1> QED
  BY <1>1 DEF Close, IInv, TypeOK, OpenedOnly, OnlyFetchGets, Buffer, BeforeGet, BeforeContent,
              Reassembly, Complete, SetupStage

(* The backend publishes while the call is under way. *)
LEMMA EnqueueStep ==
  ASSUME IInv, NEW b \in Body, Enqueue(b)
  PROVE  IInv'
<1>1. queue' \in Seq(Body)
  BY DEF Enqueue, IInv, TypeOK
<1> QED
  BY <1>1, SMTT(30), ZenonT(40)
    DEF Enqueue, clientVars, IInv, TypeOK, OpenedOnly, OnlyFetchGets, Buffer, BeforeGet,
              BeforeContent, Reassembly, Complete

(* Every step keeps the invariant. *)
LEMMA NextStep == IInv /\ [Next]_vars => IInv'
<1> SUFFICES ASSUME IInv, [Next]_vars PROVE IInv'
  OBVIOUS
<1>1. CASE UNCHANGED vars
  BY <1>1, SMTT(30), ZenonT(40)
    DEF vars, clientVars, IInv, TypeOK, OpenedOnly, OnlyFetchGets, Buffer, BeforeGet,
              BeforeContent, Reassembly, Complete
<1>2. CASE Next
  BY <1>2, CallStep, SetupStepStep, PublishStep, GetReplyStep, ContentHeaderStep,
     BodyFrameStep, CloseStep, EnqueueStep DEF Next
<1> QED
  BY <1>1, <1>2

(* The invariant holds throughout. *)
LEMMA IInvHolds == Spec => []IInv
BY InitIInv, NextStep, PTL DEF Spec

-----------------------------------------------------------------------------
(***************************************************************************)
(* Type correctness.                                                       *)
(***************************************************************************)
THEOREM TypeCorrect == Spec => []TypeOK
<1>1. IInv => TypeOK
  BY DEF IInv
<1> QED
  BY <1>1, IInvHolds, PTL

(***************************************************************************)
(* A call that has returned, by whichever of its exits, has left nothing   *)
(* of its connection behind, here or at the broker.                        *)
(***************************************************************************)
THEOREM NothingStaysOpen == Spec => []CleansUp
<1>1. IInv => CleansUp
  BY DEF IInv, OpenedOnly, Opened, CleansUp
<1> QED
  BY <1>1, IInvHolds, PTL

(***************************************************************************)
(* The loop of amqp_fetch_pending counts what the broker has yet to send,  *)
(* whatever frames it comes in: body_len never wraps.                      *)
(***************************************************************************)
THEOREM LoopCounts == Spec => []CountsDown
<1>1. IInv => CountsDown
  <2> SUFFICES ASSUME IInv PROVE CountsDown
    OBVIOUS
  <2>1. ASSUME pc = "body" PROVE left = Len(arriving) /\ left > 0
    <3>1. PICK b \in Body : \E k \in 0..(Len(b) - 1) :
            arriving = SubSeq(b, k + 1, Len(b)) /\ left = Len(b) - k
      BY <2>1 DEF IInv, Reassembly
    <3>2. PICK k \in 0..(Len(b) - 1) :
            arriving = SubSeq(b, k + 1, Len(b)) /\ left = Len(b) - k
      BY <3>1
    <3>3. b \in Seq(Nat) /\ Len(b) \in Nat
      BY BodyAssumption, LenProperties
    <3>4. 1 \in 1..(Len(b) - k)
      BY <3>3
    <3> QED
      BY <3>2, <3>3, <3>4, NextFragment
  <2>2. ASSUME pc = "close" PROVE left = 0 /\ arriving = <<>>
    BY <2>2 DEF IInv, Complete
  <2> QED
    BY <2>1, <2>2 DEF CountsDown
<1> QED
  BY <1>1, IInvHolds, PTL

-----------------------------------------------------------------------------
(***************************************************************************)
(* AmqpClient implements PendingFetch.  What the mapping makes of a state: *)
(* nothing of amqp_notify; the body that was taken while a fetch is under  *)
(* way; what the call returned when it has ended.                          *)
(***************************************************************************)
LEMMA NotFetching ==
  ASSUME function = "amqp_notify"
  PROVE  StageOfCall = "idle" /\ FetchedByCall = <<>>
BY DEF StageOfCall, FetchedByCall, Fetching

(* The promise of a call that is still under way. *)
LEMMA UnderWay ==
  ASSUME function = "amqp_fetch_pending", pc # "idle"
  PROVE  /\ StageOfCall = IF taken = <<>> THEN "fetch" ELSE "transfer"
         /\ FetchedByCall = taken
BY DEF StageOfCall, FetchedByCall, Fetching

(* The promise of a call that has ended. *)
LEMMA Ended ==
  ASSUME function = "amqp_fetch_pending", pc = "idle"
  PROVE  /\ StageOfCall = IF rc = 0 THEN "done" ELSE "failed"
         /\ rc # 0 => FetchedByCall = <<>>
         /\ rc = 0 => FetchedByCall = IF short THEN taken ELSE data
BY DEF StageOfCall, FetchedByCall, Fetching

(* A step within the call that changes neither what was taken nor the queue, *)
(* and does not end the call, is not seen.                                 *)
LEMMA Unseen ==
  ASSUME function' = function, taken' = taken, queue' = queue,
         pc # "idle", pc' # "idle",
         function \in {"amqp_notify", "amqp_fetch_pending"}
  PROVE  UNCHANGED <<StageOfCall, FetchedByCall, queue>>
BY DEF StageOfCall, FetchedByCall, Fetching

(* Leaving early is a failure of the fetch, or unseen. *)
LEMMA EarlyReturnFails ==
  ASSUME IInv, Return(pc, 1), pc # "idle",
         UNCHANGED <<function, taken, queue>>
  PROVE  Fetch!Fail \/ UNCHANGED <<StageOfCall, FetchedByCall, queue>>
<1>1. pc' = "idle" /\ rc' = 1
  BY DEF Return
<1>2. CASE function = "amqp_notify"
  BY <1>2 DEF StageOfCall, FetchedByCall, Fetching
<1>3. CASE function = "amqp_fetch_pending"
  <2>1. StageOfCall \in {"fetch", "transfer"}
    BY <1>3 DEF StageOfCall, Fetching
  <2>2. StageOfCall' = "failed" /\ FetchedByCall' = <<>>
    BY <1>1, <1>3 DEF StageOfCall, FetchedByCall, Fetching
  <2> QED
    BY <2>1, <2>2 DEF Fetch!Fail
<1> QED
  BY <1>2, <1>3 DEF IInv, TypeOK

(* The steps of the client as those of the promise. *)
LEMMA CallSeen ==
  ASSUME IInv, NEW f \in {"amqp_notify", "amqp_fetch_pending"}, Call(f)
  PROVE  Fetch!Call
<1>1. StageOfCall \in Fetch!Returned
  BY DEF Call, IInv, TypeOK, StageOfCall, Fetching, Fetch!Returned
<1>2. StageOfCall' \in {"fetch", "idle"} /\ FetchedByCall' = <<>>
  BY DEF Call, StageOfCall, FetchedByCall, Fetching
<1> QED
  BY <1>1, <1>2 DEF Call, Fetch!Call

(* The message is taken from the queue at once. *)
LEMMA GetReplySeen ==
  ASSUME IInv, GetReply
  PROVE  Fetch!Next \/ UNCHANGED <<StageOfCall, FetchedByCall, queue>>
<1>1. pc = "get" /\ function = "amqp_fetch_pending" /\ taken = <<>>
  BY DEF GetReply, IInv, TypeOK, OnlyFetchGets, BeforeGet
<1>2. CASE Return(pc, 1) /\ UNCHANGED <<arriving, taken, queue>>
  BY <1>1, <1>2, EarlyReturnFails DEF GetReply, Fetch!Next
<1>3. CASE pc' = "close" /\ UNCHANGED <<live, rc, arriving, taken, queue>>
  BY <1>1, <1>3, Unseen DEF GetReply
<1>4. CASE /\ queue # <<>>
           /\ queue' = Tail(queue)
           /\ taken' = <<Head(queue)>>
           /\ pc' = "header"
  <2>1. StageOfCall = "fetch"
    BY <1>1 DEF StageOfCall, Fetching
  <2>2. StageOfCall' = "transfer" /\ FetchedByCall' = <<Head(queue)>>
    BY <1>1, <1>4 DEF GetReply, StageOfCall, FetchedByCall, Fetching
  <2> QED
    BY <1>4, <2>1, <2>2 DEF Fetch!Get, Fetch!Next
<1> QED
  BY <1>2, <1>3, <1>4 DEF GetReply

(* The one exit with success: the message as it was, or nothing. *)
LEMMA CloseSeen ==
  ASSUME IInv, Close
  PROVE  Fetch!Next \/ UNCHANGED <<StageOfCall, FetchedByCall, queue>>
<1>1. /\ pc = "close" /\ pc' = "idle" /\ rc' = 0
      /\ UNCHANGED <<function, data, short, taken, queue>>
  BY DEF Close, Return
<1>2. CASE function = "amqp_notify"
  BY <1>1, <1>2 DEF StageOfCall, FetchedByCall, Fetching
<1>3. CASE function = "amqp_fetch_pending"
  <2>1. StageOfCall' = "done" /\ FetchedByCall' = IF short THEN taken ELSE data
    BY <1>1, <1>3 DEF StageOfCall, FetchedByCall, Fetching
  <2>2. FetchedByCall = taken /\ StageOfCall = IF taken = <<>> THEN "fetch" ELSE "transfer"
    BY <1>1, <1>3, UnderWay
  <2>3. FetchedByCall' = taken
    BY <1>1, <2>1 DEF IInv, Complete
  <2> QED
    BY <1>1, <2>1, <2>2, <2>3 DEF Fetch!Nothing, Fetch!Deliver, Fetch!Next
<1> QED
  BY <1>2, <1>3 DEF IInv, TypeOK

(* A message published is a message published. *)
LEMMA EnqueueSeen ==
  ASSUME IInv, NEW b \in Body, Enqueue(b)
  PROVE  Fetch!Enqueue
BY DEF Enqueue, clientVars, StageOfCall, FetchedByCall, Fetching, Fetch!Enqueue

(* Every step is one of the promise, or none. *)
LEMMA NextSeen ==
  ASSUME IInv, [Next]_vars
  PROVE  Fetch!Next \/ UNCHANGED <<StageOfCall, FetchedByCall, queue>>
<1>1. function \in {"amqp_notify", "amqp_fetch_pending"}
  BY DEF IInv, TypeOK
<1>2. CASE UNCHANGED vars
  BY <1>2 DEF vars, clientVars, StageOfCall, FetchedByCall, Fetching
<1>3. ASSUME NEW f \in {"amqp_notify", "amqp_fetch_pending"}, Call(f)
      PROVE  Fetch!Next
  BY <1>3, CallSeen DEF Fetch!Next
<1>4. CASE SetupStep
  <2>1. pc \in SetupStage /\ pc # "idle"
    BY <1>4, SetupIs DEF SetupStep, SetupStage
  <2>2. CASE Return(pc, 1)
    BY <1>4, <2>1, <2>2, EarlyReturnFails DEF SetupStep, Fetch!Next
  <2>3. CASE pc' = AfterSetup(pc)
    <3>1. pc' # "idle"
      BY <1>1, <2>1, <2>3, SetupOrder DEF SetupStage
    <3> QED
      BY <1>1, <1>4, <2>1, <3>1, Unseen DEF SetupStep
  <2> QED
    BY <1>4, <2>2, <2>3 DEF SetupStep
<1>5. CASE Publish
  BY <1>1, <1>5, EarlyReturnFails, Unseen DEF Publish, Fetch!Next
<1>6. CASE GetReply
  BY <1>6, GetReplySeen
<1>7. CASE ContentHeader
  <2>1. pc' # "idle" \/ Return(pc, 1)
    BY <1>7 DEF ContentHeader
  <2> QED
    BY <1>1, <1>7, <2>1, EarlyReturnFails, Unseen DEF ContentHeader, Fetch!Next
<1>8. CASE BodyFrame
  <2>1. pc' # "idle" \/ Return(pc, 1)
    BY <1>8 DEF BodyFrame
  <2>2. pc # "idle" /\ UNCHANGED <<function, taken, queue>>
    BY <1>8 DEF BodyFrame
  <2> QED
    BY <1>1, <2>1, <2>2, EarlyReturnFails, Unseen DEF Fetch!Next
<1>9. CASE Close
  BY <1>9, CloseSeen
<1>10. ASSUME NEW b \in Body, Enqueue(b)
       PROVE  Fetch!Next
  BY <1>10, EnqueueSeen DEF Fetch!Next
<1> QED
  BY <1>2, <1>3, <1>4, <1>5, <1>6, <1>7, <1>8, <1>9, <1>10 DEF Next

(***************************************************************************)
(* amqp_fetch_pending keeps the promise that send_response relies on: each *)
(* call ends with the first message of the queue unaltered, with nothing   *)
(* or with a failure, and takes one message at most.                       *)
(***************************************************************************)
THEOREM Refinement == Spec => KeepsFetchPromise
<1>1. Init => Fetch!Init
  BY NotFetching DEF Init, Fetch!Init
<1>2. IInv /\ [Next]_vars => [Fetch!Next]_(Fetch!vars)
  BY NextSeen DEF Fetch!vars
<1> QED
  BY <1>1, <1>2, IInvHolds, PTL DEF Spec, KeepsFetchPromise, Fetch!Spec
=============================================================================

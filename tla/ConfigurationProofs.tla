------------------------ MODULE ConfigurationProofs -------------------------
(***************************************************************************)
(* Proofs about Configuration for all command lines, files and values.     *)
(***************************************************************************)
EXTENDS Configuration, WellFoundedInduction, TLAPS

-----------------------------------------------------------------------------
(***************************************************************************)
(* The inductive invariant, conjunct by conjunct.                          *)
(***************************************************************************)
Reading == {"scgi", "amqp", "amqp_exchange", "amqp_queue", "authorization"}

Settings == {"scgi", "amqp", "amqp_exchange", "amqp_queue"}

\* ConfigurationTypeOK in its parts.
Places == /\ line \in CommandLine /\ done \in 0..Len(line)
          /\ at \in Place
          /\ Len(confdir) <= 1

InMemory == \A p \in packages : p.path \in DOMAIN File /\ p.load \in 1..done

OneOfAName == \A p, q \in packages : p.path.name = q.path.name => p = q

PortFits == "port" \in DOMAIN settings["scgi"] => settings["scgi"].port \in 0..(2^16 - 1)

Lists == \A i \in DOMAIN authorized : authorized[i].load \in 1..done

Copies == heap \subseteq (1..done) \X {"amqp", "amqp_exchange", "amqp_queue", "authorization"}

\* What has been loaded, and that the directory is the first one's.
Progress ==
  /\ at \in {"package"} \cup Reading => done # 0
  /\ at \in {"serving", "ended"} => done = Len(line)
  /\ at # "failed" =>
       confdir = IF done = 0 \/ (done = 1 /\ at = "package") THEN <<>>
                 ELSE <<line[1].dir>>

\* A package has been read: by the load under way or by the last one.
Loading == at \in Reading \cup {"serving"} \/ (at = "getopt" /\ done # 0)

Named(n) == [dir |-> line[1].dir, name |-> line[n].name]

\* uci_freeacs_ng is a package in memory, that of the last load.
Current ==
  Loading => /\ package = <<[path |-> Named(done), load |-> done]>>
             /\ package[1] \in packages

\* The settings that the load under way, or the last one, has taken over.
IsSet(type) ==
  /\ Sections(type) # {}
  /\ Usable(type, SectionOf(type).options)
  /\ settings[type] = Taken(type, SectionOf(type).options)

Settles ==
  /\ DOMAIN settings = Settings
  /\ Loading =>
       /\ at # "scgi" => IsSet("scgi")
       /\ at \notin {"scgi", "amqp"} => IsSet("amqp")
       /\ at \notin {"scgi", "amqp", "amqp_exchange"} => IsSet("amqp_exchange")
       /\ at \notin Settings => IsSet("amqp_queue")

Authorizes ==
  at \in {"getopt", "serving"} => \A i \in DOMAIN authorized : authorized[i].load = done

IInv == /\ Places /\ InMemory /\ OneOfAName /\ PortFits /\ Lists /\ Copies
        /\ Progress
        /\ Current
        /\ Settles
        /\ Authorizes
        /\ ExitReleases

-----------------------------------------------------------------------------
(***************************************************************************)
(* Sections and what is taken from them.                                   *)
(***************************************************************************)
LessOnNat == {p \in Nat \X Nat : p[1] < p[2]}

(* A set of positions has a first one. *)
LEMMA FirstOf ==
  ASSUME NEW S, S \subseteq Nat, S # {}
  PROVE  \E i \in S : \A j \in S : i <= j
<1>1. IsWellFoundedOn(LessOnNat, Nat)
  BY NatLessThanWellFounded DEF OpToRel, LessOnNat
<1>2. PICK i \in S : \A j \in S : ~(<<j, i>> \in LessOnNat)
  BY <1>1, WFMin
<1>3. ASSUME NEW j \in S PROVE i <= j
  <2>1. i \in Nat /\ j \in Nat
    OBVIOUS
  <2>2. j < i => <<j, i>> \in LessOnNat
    BY <2>1 DEF LessOnNat
  <2> QED
    BY <1>2, <2>1, <2>2
<1> QED
  BY <1>3

(* The port is that of the settings. *)
LEMMA PortStays ==
  ASSUME PortFits, settings' = settings
  PROVE  PortFits'
BY Zenon DEF PortFits

(* The line a program is started with. *)
LEMMA LineIs ==
  ASSUME Places
  PROVE  /\ line \in Seq(Path) /\ Len(line) \in Nat \ {0} /\ done \in 0..Len(line)
         /\ DOMAIN line = 1..Len(line)
BY CommandLineAssumption DEF Places

(* htons keeps 16 bits, and all of a port. *)
LEMMA Ports ==
  ASSUME NEW n \in Int
  PROVE  n % 2^16 \in 0..(2^16 - 1) /\ (n \in 1..(2^16 - 1) => n % 2^16 = n)
<1>1. PICK w : w = 2^16 /\ w = 65536
  OBVIOUS
<1>2. n % w \in 0..(w - 1)
  <2>1. w \in Nat \ {0}
    BY <1>1
  <2> QED
    BY <2>1
<1>3. n \in 1..(w - 1) => n % w = n
  <2> SUFFICES ASSUME n >= 1, n <= 65535 PROVE n % 65536 = n
    BY <1>1
  <2> QED
    OBVIOUS
<1> QED
  BY ONLY <1>1, <1>2, <1>3

(* The section that the loop stops at is one of its type. *)
LEMMA SectionIs ==
  ASSUME IInv, Loading, NEW type, Sections(type) # {}
  PROVE  \E i \in DOMAIN File[Named(done)] :
           /\ SectionOf(type) = File[Named(done)][i]
           /\ File[Named(done)][i].type = type
<1>1. PICK content : content = File[Named(done)]
  OBVIOUS
<1>2. package[1].path = Named(done) /\ Named(done) \in DOMAIN File
  BY DEF IInv, Current, InMemory
<1>3. Len(content) \in Nat /\ DOMAIN content = 1..Len(content)
  BY <1>1, <1>2, FileAssumption
<1>4. PICK S : S = Sections(type)
  OBVIOUS
<1>5. S = {i \in DOMAIN content : content[i].type = type}
  BY <1>1, <1>2, <1>4 DEF Sections
<1>6. S \subseteq Nat /\ S # {}
  BY <1>3, <1>4, <1>5
<1>7. PICK i : i = CHOOSE m \in S : \A j \in S : m <= j
  OBVIOUS
<1>8. i \in S /\ \A j \in S : i <= j
  BY <1>6, <1>7, FirstOf
<1>9. SectionOf(type) = content[i]
  BY <1>1, <1>2, <1>4, <1>7 DEF SectionOf
<1> QED
  BY <1>1, <1>5, <1>8, <1>9

(* Nothing of an earlier load is left among the values: a type is usable if *)
(* the section itself has every option, and then its values are taken.      *)
LEMMA TakenIs ==
  ASSUME NEW type, NEW options, Usable(type, options)
  PROVE  /\ Required(type) \subseteq DOMAIN options
         /\ DOMAIN Taken(type, options) = Required(type)
         /\ \A o \in Required(type) :
              Taken(type, options)[o] =
                IF o = "port" THEN Number(type, options[o]) ELSE options[o]
         /\ "port" \in Required(type) => Atoi[options["port"]] # 0
<1>1. DOMAIN Cleared(type) = {}
  BY DEF Cleared
<1>2. PICK given : given = Required(type) \cap DOMAIN options
  OBVIOUS
<1>3. /\ DOMAIN Taken(type, options) = given
      /\ \A o \in given :
           Taken(type, options)[o] =
             IF o = "port" THEN Number(type, options[o]) ELSE options[o]
  BY <1>1, <1>2 DEF Taken
<1> QED
  BY <1>2, <1>3 DEF Usable

(* A port is a number of its type. *)
LEMMA PortIs ==
  ASSUME IInv, Loading, NEW type \in {"scgi", "amqp"}, Sections(type) # {},
         Usable(type, SectionOf(type).options)
  PROVE  Atoi[SectionOf(type).options["port"]] \in Int
<1>1. PICK i \in DOMAIN File[Named(done)] :
        SectionOf(type) = File[Named(done)][i] /\ File[Named(done)][i].type = type
  BY SectionIs
<1>2. Named(done) \in DOMAIN File
  BY DEF IInv, Current, InMemory
<1>3. "port" \in DOMAIN SectionOf(type).options /\ type # "authorization"
  BY TakenIs DEF Required
<1>4. SectionOf(type).options["port"] \in DOMAIN Atoi
  BY <1>1, <1>2, <1>3, FileAssumption
<1> QED
  BY <1>4, AtoiAssumption

-----------------------------------------------------------------------------
(***************************************************************************)
(* The invariant, step by step.                                            *)
(***************************************************************************)
\* The order of config_load.
AfterIs == /\ After("scgi") = "amqp"
           /\ After("amqp") = "amqp_exchange"
           /\ After("amqp_exchange") = "amqp_queue"
           /\ After("amqp_queue") = "authorization"

LEMMA NextIs == AfterIs
BY DEF AfterIs, After

(* Before the first -c. *)
LEMMA InitIInv == Init => IInv
<1> SUFFICES ASSUME Init PROVE IInv
  OBVIOUS
<1>1. Len(line) \in Nat
  BY CommandLineAssumption DEF Init
<1>2. Places /\ InMemory /\ OneOfAName /\ Lists /\ Copies
  BY <1>1 DEF Init, Places, Place, InMemory, OneOfAName, Lists, Copies
<1>3. PortFits
  <2>1. settings["scgi"] = <<>>
    BY DEF Init
  <2>2. "port" \notin DOMAIN settings["scgi"]
    BY <2>1
  <2> QED
    BY <2>2, Zenon DEF PortFits
<1>4. Progress /\ Current /\ Settles /\ Authorizes /\ ExitReleases
  BY DEF Init, Progress, Current, Settles, Settings, Authorizes, ExitReleases, Loading, Reading
<1> QED
  BY <1>2, <1>3, <1>4 DEF IInv

(* One more path, or the event loop. *)
LEMMA GetOptStep ==
  ASSUME IInv, GetOpt
  PROVE  IInv'
<1>1. /\ at = "getopt"
      /\ UNCHANGED <<line, confdir, packages, package, settings, authorized, heap>>
  BY DEF GetOpt
<1>2. /\ Len(line) \in Nat \ {0} /\ done \in 0..Len(line)
  BY LineIs DEF IInv
<1>3. CASE done < Len(line) /\ done' = done + 1 /\ at' = "package"
  <2>1. Places' /\ InMemory' /\ OneOfAName' /\ PortFits' /\ Lists' /\ Copies'
    <3>1. done' \in 0..Len(line) /\ 1..done \subseteq 1..done'
      BY <1>2, <1>3
    <3>2. Places'
      BY <3>1, <1>1, <1>3 DEF IInv, Places, Place
    <3>3. InMemory' /\ Lists'
      BY <3>1, <1>1 DEF IInv, InMemory, Lists
    <3>4. OneOfAName' /\ PortFits'
      BY <1>1, PortStays DEF IInv, OneOfAName
    <3>5. Copies'
      BY <3>1, <1>1 DEF IInv, Copies
    <3> QED
      BY <3>2, <3>3, <3>4, <3>5
  <2>2. Progress'
    BY <1>1, <1>2, <1>3 DEF IInv, Progress, Reading
  <2>3. ~Loading'
    BY <1>3 DEF Loading, Reading
  <2>4. Current' /\ Settles' /\ Authorizes' /\ ExitReleases'
    BY <1>1, <1>3, <2>3 DEF IInv, Current, Settles, Authorizes, ExitReleases
  <2> QED
    BY <2>1, <2>2, <2>4 DEF IInv
<1>4. CASE done = Len(line) /\ done' = done /\ at' \in {"serving", "failed"}
  <2>1. Places' /\ InMemory' /\ OneOfAName' /\ PortFits' /\ Lists' /\ Copies'
    <3>1. Places'
      BY <1>1, <1>4 DEF IInv, Places, Place
    <3>2. InMemory' /\ Lists' /\ Copies'
      BY <1>1, <1>4 DEF IInv, InMemory, Lists, Copies
    <3>3. OneOfAName' /\ PortFits'
      BY <1>1, <1>4, PortStays DEF IInv, OneOfAName
    <3> QED
      BY <3>1, <3>2, <3>3
  <2>2. Progress'
    BY <1>1, <1>2, <1>4 DEF IInv, Progress, Reading
  <2>3. Loading
    BY <1>1, <1>2, <1>4 DEF Loading
  <2>4. Current'
    BY <1>1, <1>4, <2>3 DEF IInv, Current, Named
  <2>5. Settles'
    <3>1. \A type : IsSet(type)' = IsSet(type)
      BY <1>1 DEF IsSet, Sections, SectionOf
    <3>2. at' = "failed" => ~Loading'
      BY DEF Loading, Reading
    <3> QED
      BY <1>1, <1>4, <2>3, <3>1, <3>2 DEF IInv, Settles, Settings
  <2>6. Authorizes' /\ ExitReleases'
    BY <1>1, <1>4 DEF IInv, Authorizes, ExitReleases
  <2> QED
    BY <2>1, <2>2, <2>4, <2>5, <2>6 DEF IInv
<1> QED
  BY <1>2, <1>3, <1>4 DEF GetOpt

(* config_load gives up, and with it the program. *)
LEMMA FailStep ==
  ASSUME IInv, Fail
  PROVE  IInv'
<1>1. /\ at' = "failed"
      /\ UNCHANGED <<line, done, confdir, packages, package, settings, authorized, heap>>
  BY DEF Fail
<1>2. ~Loading'
  BY <1>1 DEF Loading, Reading
<1>3. Places' /\ InMemory' /\ OneOfAName' /\ PortFits' /\ Lists' /\ Copies'
  <2>1. Places'
    BY <1>1 DEF IInv, Places, Place
  <2>2. InMemory' /\ Lists' /\ Copies'
    BY <1>1 DEF IInv, InMemory, Lists, Copies
  <2>3. OneOfAName' /\ PortFits'
    BY <1>1, PortStays DEF IInv, OneOfAName
  <2> QED
    BY <2>1, <2>2, <2>3
<1> QED
  BY <1>1, <1>2, <1>3
     DEF IInv, Progress, Reading, Current, Settles, Authorizes, ExitReleases

(* The package is read from the directory of the first, and takes the place *)
(* of the one of its name.                                                 *)
LEMMA LoadPackageStep ==
  ASSUME IInv, LoadPackage
  PROVE  IInv'
<1>1. CASE Fail
  BY <1>1, FailStep
<1>2. CASE /\ at = "package"
           /\ confdir' = IF confdir = <<>> THEN <<line[done].dir>> ELSE confdir
           /\ Resolved \in DOMAIN File
           /\ package' = <<[path |-> Resolved, load |-> done]>>
           /\ packages' = Kept(line[done].name) \cup {package'[1]}
           /\ at' = "scgi"
           /\ UNCHANGED <<line, done, settings, authorized, heap>>
  <2>1. done # 0 /\ done \in 1..Len(line) /\ Len(line) \in Nat
    BY <1>2, LineIs DEF IInv, Progress
  <2>2. confdir' = <<line[1].dir>>
    BY <1>2, <2>1 DEF IInv, Progress
  <2>3. Progress'
    BY <1>2, <2>1, <2>2 DEF Progress, Reading
  <2>4. PICK p : p = [path |-> Named(done), load |-> done]
    OBVIOUS
  <2>5. package' = <<p>> /\ packages' = Kept(line[done].name) \cup {p} /\ p.path \in DOMAIN File
    BY <1>2, <2>2, <2>4 DEF Resolved, Named
  <2>6. p.load = done /\ p.path.name = line[done].name
    BY <2>4 DEF Named
  <2>7. Current'
    BY <1>2, <2>4, <2>5 DEF Current, Named
  <2>8. Places' /\ InMemory' /\ OneOfAName' /\ PortFits' /\ Lists' /\ Copies'
    <3>1. InMemory'
      BY <1>2, <2>1, <2>5, <2>6 DEF IInv, InMemory, Kept
    <3>2. OneOfAName'
      <4>1. \A q \in packages' : q = p \/ (q \in packages /\ q.path.name # p.path.name)
        BY <2>5, <2>6 DEF Kept
      <4> QED
        BY <4>1, Zenon DEF IInv, OneOfAName
    <3>3. Places'
      BY <1>2, <2>2 DEF IInv, Places, Place
    <3>4. PortFits' /\ Lists' /\ Copies'
      BY <1>2, PortStays DEF IInv, Lists, Copies
    <3> QED
      BY <3>1, <3>2, <3>3, <3>4
  <2>9. Settles' /\ Authorizes' /\ ExitReleases'
    BY <1>2 DEF IInv, Settles, Settings, Authorizes, ExitReleases
  <2> QED
    BY <2>3, <2>7, <2>8, <2>9 DEF IInv
<1> QED
  BY <1>1, <1>2 DEF LoadPackage

(* The settings of one type are those of its section. *)
LEMMA InitSectionStep ==
  ASSUME IInv, NEW type \in Settings, InitSection(type)
  PROVE  IInv'
<1>1. CASE Fail
  BY <1>1, FailStep
<1>2. CASE /\ at = type
           /\ Sections(type) # {}
           /\ Usable(type, SectionOf(type).options)
           /\ settings' = [settings EXCEPT ![type] = Taken(type, SectionOf(type).options)]
           /\ heap' = IF type = "scgi" THEN heap ELSE heap \cup {<<done, type>>}
           /\ at' = After(type)
           /\ UNCHANGED <<line, done, confdir, packages, package, authorized>>
  <2>1. Loading /\ Loading' /\ at' \in Reading
    BY <1>2, NextIs DEF AfterIs, Loading, Reading, Settings
  <2>2. done \in 1..Len(line) /\ Len(line) \in Nat
    BY <1>2, LineIs DEF IInv, Progress, Settings, Reading
  <2>3. Progress' /\ Current'
    <3>1. at \notin {"package", "failed"} /\ at' \notin {"package", "failed", "serving", "ended"}
      BY <1>2, <2>1 DEF Settings, Reading
    <3>2. confdir = <<line[1].dir>>
      BY <3>1, <2>2 DEF IInv, Progress
    <3>3. Progress'
      BY <1>2, <2>1, <2>2, <3>1, <3>2 DEF Progress
    <3>4. Current'
      BY <1>2, <2>1 DEF IInv, Current, Named
    <3> QED
      BY <3>3, <3>4
  <2>4. Settles'
    <3>1. DOMAIN settings' = Settings
      BY <1>2 DEF IInv, Settles
    <3>2. \A t : Sections(t)' = Sections(t) /\ SectionOf(t)' = SectionOf(t)
      BY <1>2 DEF Sections, SectionOf
    <3>3. settings'[type] = Taken(type, SectionOf(type).options)
      BY <1>2 DEF IInv, Settles
    <3>4. IsSet(type)'
      BY <1>2, <3>2, <3>3 DEF IsSet
    <3>5. \A t \in Settings \ {type} : IsSet(t)' = IsSet(t)
      <4>1. \A t \in Settings \ {type} : settings'[t] = settings[t]
        BY <1>2 DEF IInv, Settles
      <4> QED
        BY <3>2, <4>1 DEF IsSet
    <3>6. at' = After(type) /\ AfterIs
      BY <1>2, NextIs
    <3>7. /\ at # "scgi" => IsSet("scgi")
          /\ at \notin {"scgi", "amqp"} => IsSet("amqp")
          /\ at \notin {"scgi", "amqp", "amqp_exchange"} => IsSet("amqp_exchange")
      BY <2>1 DEF IInv, Settles
    <3>8. DOMAIN settings' = Settings /\ (\A t \in Settings : IsSet(t) => IsSet(t)') /\ IsSet(type)'
      BY <1>2, <3>1, <3>4, <3>5
    <3>9. /\ at' # "scgi" => IsSet("scgi")'
          /\ at' \notin {"scgi", "amqp"} => IsSet("amqp")'
          /\ at' \notin {"scgi", "amqp", "amqp_exchange"} => IsSet("amqp_exchange")'
          /\ at' \notin Settings => IsSet("amqp_queue")'
      <4>1. \/ type = "scgi" /\ at' = "amqp"
            \/ type = "amqp" /\ at' = "amqp_exchange"
            \/ type = "amqp_exchange" /\ at' = "amqp_queue"
            \/ type = "amqp_queue" /\ at' = "authorization"
        BY <3>6 DEF AfterIs, Settings
      <4> QED
        BY <1>2, <3>7, <3>8, <4>1 DEF Settings
    <3> QED
      BY <3>1, <3>9 DEF Settles
  <2>5. Places' /\ InMemory' /\ OneOfAName' /\ PortFits' /\ Lists' /\ Copies'
    <3>1. PortFits'
      <4>1. CASE type = "scgi"
        <5>1. Atoi[SectionOf("scgi").options["port"]] \in Int
          BY <1>2, <2>1, <4>1, PortIs
        <5>2. Number("scgi", SectionOf("scgi").options["port"]) \in 0..(2^16 - 1)
          BY <5>1, Ports DEF Number
        <5>3. settings'["scgi"] = Taken("scgi", SectionOf("scgi").options)
          BY <1>2, <4>1 DEF IInv, Settles, Settings
        <5> QED
          <6>1. settings'["scgi"]["port"] = Number("scgi", SectionOf("scgi").options["port"])
            BY <1>2, <4>1, <5>3, TakenIs DEF Required
          <6>2. settings'["scgi"].port \in 0..(2^16 - 1)
            BY <5>2, <6>1, Zenon
          <6> QED
            BY <6>2, Zenon DEF PortFits
      <4>2. CASE type # "scgi"
        <5>1. settings'["scgi"] = settings["scgi"]
          BY <1>2, <4>2 DEF IInv, Settles, Settings
        <5> QED
          BY <5>1, Zenon DEF IInv, PortFits
      <4> QED
        BY <4>1, <4>2
    <3>2. Copies'
      BY <1>2, <2>2 DEF IInv, Copies, Settings
    <3>3. Places'
      BY <1>2, <2>1 DEF IInv, Places, Place, Reading
    <3>4. InMemory' /\ OneOfAName' /\ Lists'
      BY <1>2 DEF IInv, InMemory, OneOfAName, Lists
    <3> QED
      BY <3>1, <3>2, <3>3, <3>4
  <2>6. Authorizes' /\ ExitReleases'
    BY <2>1 DEF Authorizes, ExitReleases, Reading
  <2> QED
    BY <2>3, <2>4, <2>5, <2>6 DEF IInv
<1> QED
  BY <1>1, <1>2 DEF InitSection

(* The list of credentials is that of the package just read. *)
LEMMA InitAuthorizationStep ==
  ASSUME IInv, InitAuthorization
  PROVE  IInv'
<1>1. CASE Fail
  BY <1>1, FailStep
<1>2. CASE /\ at = "authorization"
           /\ authorized' = Listed(SectionOf("authorization").options)
           /\ heap' = heap \cup {<<done, "authorization">>}
           /\ at' = "getopt"
           /\ UNCHANGED <<line, done, confdir, packages, package, settings>>
  <2>1. done \in 1..Len(line) /\ Len(line) \in Nat
    BY <1>2, LineIs DEF IInv, Progress, Reading
  <2>2. Loading /\ Loading'
    BY <1>2, <2>1 DEF Loading, Reading
  <2>3. \A i \in DOMAIN authorized' : authorized'[i].load = done
    BY <1>2 DEF Listed
  <2>4. Places' /\ InMemory' /\ OneOfAName' /\ PortFits' /\ Lists' /\ Copies'
    <3>1. Copies'
      BY <1>2, <2>1 DEF IInv, Copies
    <3>2. Lists'
      BY <1>2, <2>1, <2>3 DEF Lists
    <3>3. Places'
      BY <1>2 DEF IInv, Places, Place
    <3>4. InMemory' /\ OneOfAName' /\ PortFits'
      BY <1>2, PortStays DEF IInv, InMemory, OneOfAName
    <3> QED
      BY <3>1, <3>2, <3>3, <3>4
  <2>5. Progress' /\ Current'
    BY <1>2, <2>1, <2>2 DEF IInv, Progress, Current, Named, Reading
  <2>6. Settles'
    <3>1. \A type : IsSet(type)' = IsSet(type)
      BY <1>2 DEF IsSet, Sections, SectionOf
    <3> QED
      BY <1>2, <2>2, <3>1 DEF IInv, Settles, Settings
  <2>7. Authorizes' /\ ExitReleases'
    BY <1>2, <2>3 DEF Authorizes, ExitReleases
  <2> QED
    BY <2>4, <2>5, <2>6, <2>7 DEF IInv
<1> QED
  BY <1>1, <1>2 DEF InitAuthorization

(* config_exit frees what the last load has allocated. *)
LEMMA ExitStep ==
  ASSUME IInv, Exit
  PROVE  IInv'
<1>1. /\ at = "serving" /\ at' = "ended" /\ packages' = {} /\ authorized' = <<>>
      /\ heap' = heap \ ({done} \X Freed)
      /\ UNCHANGED <<line, done, confdir, package, settings>>
  BY DEF Exit
<1>2. ~Loading'
  BY <1>1 DEF Loading, Reading
<1>3. Places' /\ InMemory' /\ OneOfAName' /\ PortFits' /\ Lists' /\ Copies'
  <2>1. Places'
    BY <1>1 DEF IInv, Places, Place
  <2>2. InMemory' /\ Lists' /\ Copies'
    BY <1>1 DEF IInv, InMemory, Lists, Copies
  <2>3. OneOfAName' /\ PortFits'
    BY <1>1, PortStays DEF IInv, OneOfAName
  <2> QED
    BY <2>1, <2>2, <2>3
<1>4. ExitReleases'
  <2> SUFFICES ASSUME NEW h \in heap' PROVE h[1] < done
    BY <1>1 DEF ExitReleases
  <2>1. h \in (1..done) \X Freed /\ h \notin {done} \X Freed
    BY <1>1 DEF IInv, Copies, Freed
  <2>2. h[1] \in 1..done /\ h[1] # done
    BY <2>1
  <2>3. done \in Nat
    BY LineIs DEF IInv
  <2> QED
    BY <2>2, <2>3
<1>5. Progress'
  <2>1. done = Len(line) /\ Len(line) \in Nat \ {0}
    BY <1>1, LineIs DEF IInv, Progress
  <2> QED
    BY <1>1, <2>1 DEF IInv, Progress, Reading
<1> QED
  BY <1>1, <1>2, <1>3, <1>4, <1>5 DEF IInv, Current, Settles, Authorizes

(* Every step keeps the invariant. *)
LEMMA NextStep == IInv /\ [Next]_vars => IInv'
<1> SUFFICES ASSUME IInv, [Next]_vars PROVE IInv'
  OBVIOUS
<1>1. CASE UNCHANGED vars
  <2>1. UNCHANGED <<line, done, at, confdir, packages, package, settings, authorized, heap>>
    BY <1>1 DEF vars
  <2>2. Places' /\ InMemory' /\ OneOfAName' /\ PortFits' /\ Lists' /\ Copies'
    <3>1. Places'
      BY <2>1 DEF IInv, Places, Place
    <3>2. InMemory' /\ Lists' /\ Copies'
      BY <2>1 DEF IInv, InMemory, Lists, Copies
    <3>3. OneOfAName' /\ PortFits'
      BY <2>1, PortStays DEF IInv, OneOfAName
    <3> QED
      BY <3>1, <3>2, <3>3
  <2>6. Progress'
    BY <2>1 DEF IInv, Progress
  <2>3. Current'
    BY <2>1 DEF IInv, Current, Loading, Named
  <2>4. Settles'
    <3>1. \A type : IsSet(type)' = IsSet(type)
      BY <2>1 DEF IsSet, Sections, SectionOf
    <3>2. Loading' = Loading
      BY <2>1 DEF Loading
    <3> QED
      BY <2>1, <3>1, <3>2 DEF IInv, Settles
  <2>5. Authorizes' /\ ExitReleases'
    BY <2>1 DEF IInv, Authorizes, ExitReleases
  <2> QED
    BY <2>2, <2>3, <2>4, <2>5, <2>6 DEF IInv
<1>2. CASE GetOpt \/ LoadPackage \/ InitAuthorization \/ Exit
  BY <1>2, GetOptStep, LoadPackageStep, InitAuthorizationStep, ExitStep
<1>3. CASE \E i \in DOMAIN Copied : InitSection(Copied[i])
  <2>1. \A i \in DOMAIN Copied : Copied[i] \in Settings
    BY DEF Copied, Settings
  <2> QED
    BY <1>3, <2>1, InitSectionStep
<1> QED
  BY <1>1, <1>2, <1>3 DEF Next

(* The invariant holds throughout. *)
LEMMA IInvHolds == Spec => []IInv
BY InitIInv, NextStep, PTL DEF Spec

-----------------------------------------------------------------------------
(***************************************************************************)
(* The variables keep to their types; in particular no two packages of one *)
(* name are in memory, and the port fits its 16 bits.                      *)
(***************************************************************************)
THEOREM TypeCorrect == Spec => []ConfigurationTypeOK
<1>1. IInv => ConfigurationTypeOK
  BY Zenon DEF IInv, ConfigurationTypeOK, Places, InMemory, OneOfAName, PortFits, Lists, Copies
<1> QED
  BY <1>1, IInvHolds, PTL

(***************************************************************************)
(* However often a package has been unloaded and read again, the list of   *)
(* credentials points into the one that is in memory.                      *)
(***************************************************************************)
THEOREM CredentialsLive == Spec => []AuthorizationLives
<1>1. IInv => AuthorizationLives
  <2> SUFFICES ASSUME IInv, at = "serving" PROVE AuthorizationLives
    BY DEF AuthorizationLives
  <2>1. package[1] \in packages /\ package[1].load = done
    BY DEF IInv, Current, Loading
  <2>2. \A i \in DOMAIN authorized : authorized[i].load = done
    BY DEF IInv, Authorizes
  <2> QED
    BY <2>1, <2>2 DEF AuthorizationLives
<1> QED
  BY <1>1, IInvHolds, PTL

(***************************************************************************)
(* config_exit frees all that the last load has copied.                    *)
(***************************************************************************)
THEOREM ReleasesTheLast == Spec => []ExitReleases
<1>1. IInv => ExitReleases
  BY DEF IInv
<1> QED
  BY <1>1, IInvHolds, PTL

(***************************************************************************)
(* The program serves with the values of one section per type, of one      *)
(* file, that has every option: nothing of another -c is left among them.  *)
(***************************************************************************)
THEOREM OneFile == Spec => []ServesOneFile
<1>1. IInv => ServesOneFile
  <2> SUFFICES ASSUME IInv, at = "serving", NEW i \in 1..4
               PROVE  \E j \in DOMAIN File[Loaded] :
                        LET section == File[Loaded][j]
                            set == settings[Copied[i]]
                        IN  /\ section.type = Copied[i]
                            /\ Required(Copied[i]) \subseteq DOMAIN section.options
                            /\ DOMAIN set = Required(Copied[i])
                            /\ \A o \in DOMAIN set \ {"port"} : set[o] = section.options[o]
                            /\ "port" \in DOMAIN set =>
                                 /\ Atoi[section.options["port"]] \in 1..(2^16 - 1) =>
                                      set["port"] = Atoi[section.options["port"]]
                                 /\ Atoi[section.options["port"]] # 0
    BY DEF ServesOneFile
  <2>1. Loading /\ Named(done) = Loaded
    BY DEF IInv, Progress, Loading, Named, Loaded
  <2>2. PICK type \in Settings : type = Copied[i]
    BY DEF Copied, Settings
  <2>3. IsSet(type)
    BY <2>1, <2>2 DEF IInv, Settles, Settings
  <2>4. PICK j \in DOMAIN File[Loaded] :
          /\ SectionOf(type) = File[Loaded][j]
          /\ File[Loaded][j].type = type
    BY <2>1, <2>3, SectionIs DEF IsSet
  <2>5. PICK options : options = File[Loaded][j].options
    OBVIOUS
  <2>6. Usable(type, options) /\ settings[type] = Taken(type, options)
    BY <2>3, <2>4, <2>5 DEF IsSet
  <2>7. /\ Required(type) \subseteq DOMAIN options
        /\ DOMAIN settings[type] = Required(type)
        /\ \A o \in Required(type) \ {"port"} : settings[type][o] = options[o]
        /\ "port" \in Required(type) =>
             /\ settings[type]["port"] = Number(type, options["port"])
             /\ Atoi[options["port"]] # 0
    BY <2>6, TakenIs
  <2>8. "port" \in Required(type) /\ Atoi[options["port"]] \in 1..(2^16 - 1) =>
          Number(type, options["port"]) = Atoi[options["port"]]
    BY Ports DEF Number
  <2> QED
    BY <2>2, <2>4, <2>5, <2>7, <2>8, SMTT(30), ZenonT(40)
<1> QED
  BY <1>1, IInvHolds, PTL
=============================================================================

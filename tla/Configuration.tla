---------------------------- MODULE Configuration ---------------------------
(***************************************************************************)
(* config_load and config_exit (src/config.c), as main (src/freeacs-ng.c)  *)
(* calls them: once for every -c on the command line, and before it ends.  *)
(*                                                                         *)
(* libuci reads a package from the directory of its context and keeps it   *)
(* in memory until it is unloaded.  The configuration is partly copied out *)
(* of it, and partly points into it.                                       *)
(***************************************************************************)
EXTENDS Integers, Sequences, SequencesExt

CONSTANTS
  CommandLine,  \* sequences of the paths given with -c
  File,         \* what the files have in them: a function on paths
  Atoi          \* what atoi makes of the values that occur

\* A path as config_load splits it, at the last slash.
Path == [dir : STRING, name : STRING]

\* A file is a sequence of sections.  A section has a type and values of its
\* options; those of an "authorization" are a list.
ASSUME FileAssumption ==
  \A p \in DOMAIN File :
    /\ Len(File[p]) \in Nat /\ DOMAIN File[p] = 1..Len(File[p])
    /\ \A i \in DOMAIN File[p] :
         /\ {"type", "options"} = DOMAIN File[p][i]
         /\ File[p][i].type # "authorization" /\ "port" \in DOMAIN File[p][i].options =>
              File[p][i].options["port"] \in DOMAIN Atoi
ASSUME CommandLineAssumption ==
  \A line \in CommandLine : line # <<>> /\ line \in Seq(Path)
ASSUME AtoiAssumption == \A v \in DOMAIN Atoi : Atoi[v] \in Int

VARIABLES
  line,         \* the command line
  done,         \* how many of its paths have been loaded, or are being
  at,           \* the function config_load is in, "getopt" between calls,
                \* "serving" in the event loop, "failed" or "ended" after exit
  confdir,      \* the directory of uci_ctx, <<>> before it is there
  packages,     \* packages in memory: path and number of the load
  package,      \* uci_freeacs_ng
  settings,     \* scgi, amqp, amqp_exchange and amqp_queue
  authorized,   \* auth_head: the credentials, with the load whose memory
                \* they are in
  heap          \* copies and list entries that have not been freed: for each
                \* load, whose

vars == <<line, done, at, confdir, packages, package, settings, authorized, heap>>

\* The four that are copied, in the order of config_load.
Copied == <<"scgi", "amqp", "amqp_exchange", "amqp_queue">>

Required(type) ==
  CASE type = "scgi"          -> {"address", "port"}
    [] type = "amqp"          -> {"host", "port", "username", "password", "virtual_host"}
    [] type = "amqp_exchange" -> {"broadcast", "provisioning"}
    [] type = "amqp_queue"    -> {"provisioning"}

Place == {"getopt", "package", "scgi", "amqp", "amqp_exchange", "amqp_queue",
          "authorization", "serving", "failed", "ended"}

ConfigurationTypeOK ==
  /\ line \in CommandLine /\ done \in 0..Len(line)
  /\ at \in Place
  /\ Len(confdir) <= 1
  /\ \A p \in packages : p.path \in DOMAIN File /\ p.load \in 1..done
  /\ \A p, q \in packages : p.path.name = q.path.name => p = q
  /\ "port" \in DOMAIN settings["scgi"] => settings["scgi"].port \in 0..(2^16 - 1)
  /\ \A i \in DOMAIN authorized : authorized[i].load \in 1..done
  /\ heap \subseteq (1..done) \X {"amqp", "amqp_exchange", "amqp_queue", "authorization"}

Init ==
  /\ line \in CommandLine /\ done = 0 /\ at = "getopt" /\ confdir = <<>>
  /\ packages = {} /\ package = <<>>
  /\ settings = [type \in {"scgi", "amqp", "amqp_exchange", "amqp_queue"} |-> <<>>]
  /\ authorized = <<>> /\ heap = {}

-----------------------------------------------------------------------------
\* main finds one more -c, or no more.
GetOpt ==
  /\ at = "getopt"
  /\ IF done < Len(line) THEN done' = done + 1 /\ at' = "package"
                         ELSE done' = done /\ at' \in {"serving", "failed"}
  /\ UNCHANGED <<line, confdir, packages, package, settings, authorized, heap>>

Fail ==
  /\ at' = "failed"
  /\ UNCHANGED <<line, done, confdir, packages, package, settings, authorized, heap>>

(***************************************************************************)
(* config_init_package: only the first call sets the directory.  A package *)
(* of the same name is unloaded, and then looked for in that directory.    *)
(***************************************************************************)
Kept(name) == {p \in packages : p.path.name # name}

Resolved == [dir |-> confdir'[1], name |-> line[done].name]

LoadPackage ==
  /\ at = "package"
  /\ \/ /\ confdir' = IF confdir = <<>> THEN <<line[done].dir>> ELSE confdir
        /\ Resolved \in DOMAIN File
        /\ package' = <<[path |-> Resolved, load |-> done]>>
        /\ packages' = Kept(line[done].name) \cup {package'[1]}
        /\ at' = "scgi"
        /\ UNCHANGED <<line, done, settings, authorized, heap>>
     \/ Fail

-----------------------------------------------------------------------------
(***************************************************************************)
(* config_init_scgi and the like.  The search stops at the first section   *)
(* of the type, so that a second one is never counted.                     *)
(***************************************************************************)
Sections(type) ==
  LET content == File[package[1].path]
  IN  {i \in DOMAIN content : content[i].type = type}

SectionOf(type) ==
  File[package[1].path][CHOOSE i \in Sections(type) : \A j \in Sections(type) : i <= j]

\* scgi takes the number into the 16 bits of a sockaddr_in.
Number_Wide(type, value) == Atoi[value]

Number(type, value) == IF type = "scgi" THEN Atoi[value] % 2^16 ELSE Atoi[value]

\* Each function forgets what an earlier load has left before it starts.
Cleared_ButAmqp(type) == IF type = "amqp" THEN settings[type] ELSE <<>>

Cleared(type) == <<>>

Taken(type, options) ==
  LET given == Required(type) \cap DOMAIN options
      before == Cleared(type)
  IN  [o \in given \cup DOMAIN before |->
         IF o \notin given THEN before[o]
         ELSE IF o = "port" THEN Number(type, options[o]) ELSE options[o]]

\* All values have to be there in the end.  A port that atoi cannot read, or
\* reads as zero, will not do.
Usable(type, options) ==
  /\ Required(type) \subseteq DOMAIN Taken(type, options)
  /\ "port" \in Required(type) \cap DOMAIN options => Atoi[options["port"]] # 0

After(type) ==
  CASE type = "scgi" -> "amqp"
    [] type = "amqp" -> "amqp_exchange"
    [] type = "amqp_exchange" -> "amqp_queue"
    [] type = "amqp_queue" -> "authorization"

\* The values of an earlier load are overwritten, not freed.  An allocation
\* may fail, as may the section.
InitSection(type) ==
  /\ at = type
  /\ \/ /\ Sections(type) # {}
        /\ LET options == SectionOf(type).options
           IN  /\ Usable(type, options)
               /\ settings' = [settings EXCEPT ![type] = Taken(type, options)]
        /\ heap' = IF type = "scgi" THEN heap ELSE heap \cup {<<done, type>>}
        /\ at' = After(type)
        /\ UNCHANGED <<line, done, confdir, packages, package, authorized>>
     \/ Fail

\* A list begun anew, each entry at its head and pointing to the package.
Listed_Appended(values) ==
  [i \in DOMAIN values |-> [value |-> Reverse(values)[i], load |-> done]] \o authorized

Listed(values) ==
  [i \in DOMAIN values |-> [value |-> Reverse(values)[i], load |-> done]]

InitAuthorization ==
  /\ at = "authorization"
  /\ \/ /\ Sections("authorization") # {}
        /\ authorized' = Listed(SectionOf("authorization").options)
        /\ heap' = heap \cup {<<done, "authorization">>}
        /\ at' = "getopt"
        /\ UNCHANGED <<line, done, confdir, packages, package, settings>>
     \/ Fail

\* config_exit, when the event loop has ended.
Freed_NoQueue == {"amqp", "amqp_exchange", "authorization"}

Freed == {"amqp", "amqp_exchange", "amqp_queue", "authorization"}

Exit ==
  /\ at = "serving"
  /\ at' = "ended"
  /\ packages' = {} /\ authorized' = <<>>
  /\ heap' = heap \ ({done} \X Freed)
  /\ UNCHANGED <<line, done, confdir, package, settings>>

Next ==
  \/ GetOpt \/ LoadPackage
  \/ \E i \in DOMAIN Copied : InitSection(Copied[i])
  \/ InitAuthorization \/ Exit

Spec == Init /\ [][Next]_vars

-----------------------------------------------------------------------------
(***************************************************************************)
(* Properties.                                                             *)
(***************************************************************************)
Loaded == [dir |-> line[1].dir, name |-> line[Len(line)].name]

\* Where two -c disagree nothing is mixed: the program only serves when one and
\* the same section of one file, the last that was named but in the directory
\* of the first, has every option of a type, and then with its values.  Which
\* section that is, if there are two, OneSectionAllowed is about.  A port of
\* more than 16 bits is left out: the code tests for zero and then cuts it.
ServesOneFile ==
  at = "serving" =>
    \A i \in 1..4 : \E j \in DOMAIN File[Loaded] :
      LET section == File[Loaded][j]
          set == settings[Copied[i]]
      IN  /\ section.type = Copied[i]
          /\ Required(Copied[i]) \subseteq DOMAIN section.options
          /\ DOMAIN set = Required(Copied[i])
          /\ \A o \in DOMAIN set \ {"port"} : set[o] = section.options[o]
          /\ "port" \in DOMAIN set =>
               /\ Atoi[section.options["port"]] \in 1..(2^16 - 1) =>
                    set["port"] = Atoi[section.options["port"]]
               /\ Atoi[section.options["port"]] # 0

\* "only one uci scgi section is allowed" (config.c:48, and 111, 205, 278 and
\* 329 for the other types): no file with two sections of a type is served.
\* The program violates it: the loops end at the first.
OneSectionAllowed ==
  at = "serving" =>
    \A type \in ToSet(Copied) \cup {"authorization"} :
      \A i, j \in Sections(type) : i = j

\* Credentials are compared against memory that libuci owns: however often a
\* package is unloaded and read again, send_response never looks at credentials
\* of one that is gone, and at those of the last load only.
AuthorizationLives ==
  at = "serving" => \A i \in DOMAIN authorized :
    /\ authorized[i].load = done
    /\ \E p \in packages : p.load = authorized[i].load

\* What the last load has copied is freed in the end, and the loads before it,
\* whose values it has overwritten, are all that is not.
ExitReleases ==
  at = "ended" => packages = {} /\ \A h \in heap : h[1] < done
=============================================================================

----------------------------- MODULE ServiceOptions -----------------------------
(***************************************************************************)
(* The configuration of the Linux service, from the command line to the    *)
(* threads that use it: Service::run() up to its event loop, the one       *)
(* Parser that the first caller creates, the reload of the file by the     *)
(* notification thread, and a thread that builds the command that verifies *)
(* the license or a request for a new one.  Threads that read do not touch *)
(* each other, so one stands for all.  The options are shared without a    *)
(* lock: each value is the version of the file that it was read from, and  *)
(* 0 where nothing was read.                                               *)
(***************************************************************************)
EXTENDS Naturals, Sequences

CONSTANT MaxEdits    \* how often the file is edited (bounds the model)

ASSUME MaxEditsAssumption == MaxEdits \in Nat

Unset == 0
Version == Unset .. MaxEdits + 1

\* What make_license_extractor() reads, in its order; the commands of the lic program
\* take the fourth to the sixth, and prod is read again as the type of the host.
RequestReads ==
  <<"uri", "unp", "agentId", "lic_app", "make_uid_cmd", "prod", "prod">>
LicApp == 4
UidProd == 6

CommandFields == {"lic_app", "prod", "lic_file", "uid_file_name"}
Fields == {RequestReads[i] : i \in DOMAIN RequestReads} \cup CommandFields

\* The configuration file as the command line names it: with its directory, by its
\* bare name, or not at all.
Paths == {"directory", "bare", "none"}

\* What init() takes for an address is any text: an address the client takes, a URI
\* it refuses, of another scheme or without a host, or no URI at all.
AddressKinds == {"http", "refused", "malformed"}

VARIABLES
  process,   \* "running", "over", "killed" by a signal, or "crashed"
  at,        \* how far run() is: "args", "paths", "raise", "options", "signal", "loop"
  ignored,   \* SIGINT is ignored, as whoever started the process had it
  path,      \* the path on the command line
  parser,    \* what PARSER holds: "none", the "default", or one for the "named" file
  file,      \* the configuration file: its version, whether init() accepts it, and
             \* the address in this version and those before
  options,   \* per field, the version it holds
  incoming,  \* the version set_options() is assigning, or Unset
  request,   \* the versions read so far for the request that is being built
  command    \* the versions in the command that verifies the license

\* History:
VARIABLES
  reloaded,  \* options were assigned since the request was begun
  raced      \* per text, it has a value that was copied while options were assigned

start == <<at, ignored, path, parser>>
texts == <<request, command, raced>>
vars == <<process, start, file, options, incoming, texts, reloaded>>

Init ==
  /\ process = "running" /\ at = "args"
  /\ ignored \in BOOLEAN /\ path \in Paths
  /\ parser = "none"
  /\ file \in [version : {1}, accepted : BOOLEAN, addresses : {<<k>> : k \in AddressKinds}]
  /\ options = [f \in Fields |-> Unset] /\ incoming = Unset
  /\ request = <<>> /\ command = <<>>
  /\ reloaded = FALSE /\ raced = [request |-> FALSE, command |-> FALSE]

-----------------------------------------------------------------------------
(* Service::run()                                                          *)

Goto(here, there) == process = "running" /\ at = here /\ at' = there

\* An option without its argument or one that is unknown ends parse_args(), and then
\* make_paths() is not called.
ParseArgs ==
  /\ Goto("args", "paths") \/ Goto("args", "raise")
  /\ UNCHANGED <<process, ignored, path, parser, file, options, incoming, texts, reloaded>>

\* split_file_path() makes "." the directory of a bare name, and its file is then
\* looked for as ".name"; the default Parser looks in the current directory.
Reads(kind) == file.accepted /\ (kind = "default" \/ path = "directory")

\* Singleton::instance2nd(): the Parser of whoever comes first, whatever he asks for.
First(kind) == IF parser = "none" THEN kind ELSE parser

MakePaths ==
  /\ process = "running" /\ at = "paths"
  /\ parser' = First("named")
  /\ IF Reads(First("named"))
     THEN /\ at' = "options"
          /\ options' = [f \in Fields |-> file.version]
     ELSE at' = "raise" /\ UNCHANGED options
  /\ UNCHANGED <<process, ignored, path, file, incoming, texts, reloaded>>

\* Variant: SIGINT has its handler before run() raises it.
Raise_Handled ==
  /\ Goto("raise", "options")
  /\ UNCHANGED <<process, ignored, path, parser, file, options, incoming, texts, reloaded>>

\* raise(SIGINT) before there is a handler for it: the default of the signal kills the
\* process; in a process that was started with SIGINT ignored nothing happens.
Raise ==
  /\ process = "running" /\ at = "raise"
  /\ IF ignored THEN at' = "options" /\ UNCHANGED process
                ELSE process' = "killed" /\ UNCHANGED at
  /\ UNCHANGED <<ignored, path, parser, file, options, incoming, texts, reloaded>>

\* PARSER::instance(), after parse_args() failed the first to ask for a Parser.
CopyOptions ==
  /\ Goto("options", "signal")
  /\ parser' = First("default")
  /\ UNCHANGED <<process, ignored, path, file, options, incoming, texts, reloaded>>

\* The handler of SIGINT, the tasks and the notification thread; where one of them
\* fails the loop ends as soon as it runs.
StartLoop ==
  /\ Goto("signal", "loop")
  /\ UNCHANGED <<process, ignored, path, parser, file, options, incoming, texts, reloaded>>

InLoop == process = "running" /\ at = "loop"

EndLoop ==
  /\ InLoop
  /\ process' = "over"
  /\ UNCHANGED <<start, file, options, incoming, texts, reloaded>>

-----------------------------------------------------------------------------
(* Parser::init() on the notification thread                               *)

\* While the process runs; later nobody reads the file any more.
Edit ==
  /\ process = "running"
  /\ file.version <= MaxEdits
  /\ \E accepted \in BOOLEAN, address \in AddressKinds :
       file' = [version |-> file.version + 1, accepted |-> accepted,
                addresses |-> Append(file.addresses, address)]
  /\ UNCHANGED <<process, start, options, incoming, texts, reloaded>>

\* Variant: init() works on options_ itself and not on a copy of its own.
Reload_InPlace ==
  /\ InLoop /\ incoming = Unset
  /\ options' = [options EXCEPT !["unp"] = file.version, !["prod"] = file.version]
  /\ incoming' = IF Reads(parser) THEN file.version ELSE Unset
  /\ UNCHANGED <<process, start, file, texts, reloaded>>

\* The file is read into a copy, and the copy is checked; one that is not accepted has
\* the handler raise SIGINT, which ends the loop.
Reload ==
  /\ InLoop /\ incoming = Unset
  /\ IF Reads(parser) THEN incoming' = file.version /\ UNCHANGED process
              ELSE process' = "over" /\ UNCHANGED incoming
  /\ UNCHANGED <<start, file, options, texts, reloaded>>

\* set_options() has assigned the copy, field after field.
SetOptions ==
  /\ InLoop /\ incoming # Unset
  /\ options' = [f \in Fields |-> incoming]
  /\ incoming' = Unset
  /\ reloaded' = TRUE
  /\ UNCHANGED <<process, start, file, texts>>

-----------------------------------------------------------------------------
(* A thread that reads: verify_license(), then make_license_extractor()    *)

\* options() copies the whole structure.  While it is assigned each of its strings is
\* copied as it was or as it becomes, if nothing worse happens (Tear).
Copies(f) == {options[f], incoming} \ ({Unset} \ {options[f]})

Racing(text) == [raced EXCEPT ![text] = @ \/ incoming # Unset]

Address(version) == IF version = Unset THEN "none" ELSE file.addresses[version]

\* One read of make_license_extractor() or make_machine_uid_cmd().  The first, of the
\* address, becomes a uri: a text that is none raises uri_exception, which nobody
\* catches.
ReadOption ==
  /\ InLoop /\ Len(request) < Len(RequestReads)
  /\ Len(request) = UidProd => request[LicApp] # Unset
  /\ \E version \in Copies(RequestReads[Len(request) + 1]) :
       /\ request' = Append(request, version)
       /\ process' = IF request = <<>> /\ Address(version) = "malformed"
                     THEN "crashed" ELSE process
  /\ IF request = <<>>
     THEN /\ reloaded' = FALSE
          /\ raced' = [request |-> incoming # Unset, command |-> FALSE]
     ELSE raced' = Racing("request") /\ UNCHANGED reloaded
  /\ command' = <<>>
  /\ UNCHANGED <<start, file, options, incoming>>

\* run_proc() without the name of a program: boost::process::process_error, and the
\* task tries again later.
NoProgram ==
  /\ InLoop /\ Len(request) = UidProd /\ request[LicApp] = Unset
  /\ request' = <<>>
  /\ UNCHANGED <<process, start, file, options, incoming, command, raced, reloaded>>

\* The request goes to the server ...
Send ==
  /\ InLoop /\ Len(request) = Len(RequestReads)
  /\ Address(request[1]) = "http"
  /\ request' = <<>>
  /\ UNCHANGED <<process, start, file, options, incoming, command, raced, reloaded>>

\* ... unless there is no address or one of another kind: the client's constructor
\* raises std::invalid_argument, which nobody catches.
RefuseAddress ==
  /\ InLoop /\ Len(request) = Len(RequestReads)
  /\ Address(request[1]) # "http"
  /\ process' = "crashed"
  /\ UNCHANGED <<start, file, options, incoming, texts, reloaded>>

\* Variant: the command is made of options read one by one, like that of the uid.
MakeVerifyLicenseCmd_OneByOne ==
  /\ InLoop /\ request = <<>>
  /\ \E f \in CommandFields : \E version \in Copies(f) :
       command' = IF DOMAIN command = CommandFields THEN <<>>
                  ELSE [g \in DOMAIN command \cup {f} |->
                          IF g = f THEN version ELSE command[g]]
  /\ raced' = Racing("command")
  /\ UNCHANGED <<process, start, file, options, incoming, request, reloaded>>

\* make_verify_license_cmd() copies the options once.
MakeVerifyLicenseCmd ==
  /\ InLoop /\ request = <<>>
  /\ command' \in [CommandFields -> UNION {Copies(f) : f \in CommandFields}]
  /\ \A f \in CommandFields : command'[f] \in Copies(f)
  /\ raced' = [raced EXCEPT !.command = incoming # Unset]
  /\ UNCHANGED <<process, start, file, options, incoming, request, reloaded>>

\* What else a copy may come to that is made while the strings are assigned.
Tear ==
  /\ InLoop /\ incoming # Unset
  /\ process' = "crashed"
  /\ UNCHANGED <<start, file, options, incoming, texts, reloaded>>

Main == ParseArgs \/ MakePaths \/ Raise \/ CopyOptions \/ StartLoop \/ EndLoop
Notification == Reload \/ SetOptions
Readers ==
  ReadOption \/ NoProgram \/ Send \/ RefuseAddress \/ MakeVerifyLicenseCmd \/ Tear

Next == Main \/ Edit \/ Notification \/ Readers

Spec == Init /\ [][Next]_vars

-----------------------------------------------------------------------------
(* Properties                                                              *)

\* Every variable holds what its declaration says; a request is begun and a command
\* made only in the event loop.
TypeOK ==
  /\ process \in {"running", "over", "killed", "crashed"}
  /\ at \in {"args", "paths", "raise", "options", "signal", "loop"}
  /\ ignored \in BOOLEAN /\ path \in Paths
  /\ parser \in {"none", "default", "named"}
  /\ file \in [version : Version \ {Unset}, accepted : BOOLEAN,
               addresses : Seq(AddressKinds)]
  /\ Len(file.addresses) = file.version
  /\ options \in [Fields -> Version] /\ incoming \in Version
  /\ request \in Seq(Version) /\ Len(request) <= Len(RequestReads)
  /\ command = <<>> \/ command \in [CommandFields -> Version]
  /\ at # "loop" => request = <<>> /\ command = <<>>
  /\ reloaded \in BOOLEAN /\ raced \in [request : BOOLEAN, command : BOOLEAN]

\* The address of the request that is being built is one that init() accepted and
\* the client does not.
BadAddress ==
  request # <<>> /\ request[1] # Unset /\ file.addresses[request[1]] # "http"

\* Nothing keeps a service without a configuration from its event loop but the signal
\* it sends itself: only a process started with SIGINT ignored gets there with nothing
\* read.  What any other makes of its options ends it by a crash only where a copy is
\* made while they are assigned, or at an address that a version of the file gives and
\* init() accepts without a look: never for want of an option.
ConfiguredService ==
  /\ at \in {"options", "signal", "loop"} /\ ~ignored => \A f \in Fields : options[f] # Unset
  /\ process = "crashed" /\ ~ignored => incoming # Unset \/ BadAddress

\* A request reads its options one by one while the file may be loaded anew: it mixes
\* configurations only then, never has an older value after a newer one, and the
\* machine's uid and the type of the host in it are of one prod unless the file was
\* loaded in between.  A command that verifies is of one configuration.  Neither
\* promise reaches a copy made while the options are assigned.
BuiltOfOneFile ==
  /\ ~raced.request =>
       \A i, j \in DOMAIN request : i < j =>
         /\ request[i] <= request[j]
         /\ ~reloaded => request[i] = request[j]
  /\ ~raced.command =>
       \A f, g \in DOMAIN command : command[f] = command[g]

==============================================================================

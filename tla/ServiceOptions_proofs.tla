-------------------------- MODULE ServiceOptions_proofs --------------------------
(***************************************************************************)
(* Theorems about ServiceOptions, for any number of edits of the file.     *)
(***************************************************************************)
EXTENDS ServiceOptions, TLAPS

LEMMA Versions ==
  /\ MaxEdits \in Nat /\ Version = 0 .. MaxEdits + 1 /\ Unset = 0
BY MaxEditsAssumption DEF Version, Unset

LEMMA ReadsFields ==
  /\ Len(RequestReads) = 7
  /\ \A i \in 1 .. 7 : RequestReads[i] \in Fields
BY DEF RequestReads, Fields

LEMMA CommandReads == CommandFields \subseteq Fields /\ "lic_app" \in CommandFields
BY DEF CommandFields, Fields

LEMMA CopiesType ==
  ASSUME TypeOK, NEW f \in Fields, NEW v \in Copies(f)
  PROVE  v \in Version
BY DEF TypeOK, Copies

\* A copy that is made while nothing is assigned is of the options as they are.
LEMMA CopiesWhole ==
  ASSUME NEW f \in Fields, NEW v \in Copies(f)
  PROVE  /\ v = options[f] \/ (v = incoming /\ incoming # Unset)
         /\ incoming = Unset => v = options[f]
BY DEF Copies

\* What a step of ReadOption appends.
LEMMA Reading ==
  ASSUME TypeOK, ReadOption
  PROVE  \E f \in Fields : \E v \in Copies(f) :
           /\ v \in Version
           /\ request' = Append(request, v)
           /\ Len(request') = Len(request) + 1 /\ Len(request) < 7
           /\ request' \in Seq(Version)
           /\ request'[Len(request) + 1] = v
           /\ \A i \in 1 .. Len(request) : request'[i] = request[i]
<1>1. request \in Seq(Version) /\ Len(request) \in 0 .. 6
  <2>1. request \in Seq(Version) /\ Len(request) < 7
    BY ReadsFields DEF TypeOK, ReadOption
  <2>2. Len(request) \in Nat
    BY <2>1
  <2>3. \A n \in Nat : n < 7 => n \in 0 .. 6
    OBVIOUS
  <2> QED
    BY <2>1, <2>2, <2>3
<1>2. PICK v \in Copies(RequestReads[Len(request) + 1]) : request' = Append(request, v)
  BY DEF ReadOption
<1>3. RequestReads[Len(request) + 1] \in Fields
  <2>1. \A n \in 0 .. 6 : n + 1 \in 1 .. 7
    OBVIOUS
  <2> QED
    BY <1>1, <2>1, ReadsFields
<1>4. v \in Version
  BY <1>2, <1>3, CopiesType
<1>5. /\ Len(request') = Len(request) + 1 /\ request' \in Seq(Version)
      /\ request'[Len(request) + 1] = v
      /\ \A i \in 1 .. Len(request) : request'[i] = request[i]
  BY <1>1, <1>2, <1>4
<1> QED
  BY <1>1, <1>2, <1>3, <1>4, <1>5

-----------------------------------------------------------------------------

LEMMA TypeInit == Init => TypeOK
<1> SUFFICES ASSUME Init PROVE TypeOK
  OBVIOUS
<1>1. options \in [Fields -> Version] /\ incoming \in Version
  BY Versions DEF Init
<1>2. /\ file \in [version : Version \ {Unset}, accepted : BOOLEAN,
                  addresses : Seq(AddressKinds)]
      /\ Len(file.addresses) = file.version
  <2>1. 1 \in Version \ {Unset}
    BY Versions
  <2>2. \A k \in AddressKinds : <<k>> \in Seq(AddressKinds) /\ Len(<<k>>) = 1
    OBVIOUS
  <2>3. PICK k \in AddressKinds, b \in BOOLEAN :
          file = [version |-> 1, accepted |-> b, addresses |-> <<k>>]
    BY DEF Init
  <2> QED
    BY <2>1, <2>2, <2>3
<1>3. request \in Seq(Version) /\ Len(request) <= Len(RequestReads)
  BY ReadsFields DEF Init
<1>4. raced \in [request : BOOLEAN, command : BOOLEAN] /\ command = <<>>
  BY DEF Init
<1> QED
  BY <1>1, <1>2, <1>3, <1>4 DEF Init, TypeOK

LEMMA TypeStep == TypeOK /\ [Next]_vars => TypeOK'
<1> SUFFICES ASSUME TypeOK, [Next]_vars PROVE TypeOK'
  OBVIOUS
<1> USE DEF TypeOK
<1>1. CASE Main
  <2>1. \A kind \in {"default", "named"} : First(kind) \in {"none", "default", "named"}
    BY DEF First
  <2>2. file.version \in Version
    OBVIOUS
  <2> QED
    BY <1>1, <2>1, <2>2
       DEF Main, ParseArgs, MakePaths, Raise, CopyOptions, StartLoop, EndLoop, InLoop,
           Goto, start, texts
<1>2. CASE Edit
  <2>1. file.version + 1 \in Version \ {Unset}
    <3>1. file.version \in Nat /\ file.version <= MaxEdits
      BY <1>2, Versions DEF Edit
    <3> QED
      BY <3>1, Versions
  <2>2. PICK b \in BOOLEAN, k \in AddressKinds :
          file' = [version |-> file.version + 1, accepted |-> b,
                   addresses |-> Append(file.addresses, k)]
    BY <1>2 DEF Edit
  <2>3. /\ Append(file.addresses, k) \in Seq(AddressKinds)
        /\ Len(Append(file.addresses, k)) = Len(file.addresses) + 1
    OBVIOUS
  <2>4. /\ file' \in [version : Version \ {Unset}, accepted : BOOLEAN,
                     addresses : Seq(AddressKinds)]
        /\ Len(file'.addresses) = file'.version
    BY <2>1, <2>2, <2>3
  <2> QED
    BY <1>2, <2>4 DEF Edit, start, texts
<1>3. CASE Notification
  <2>1. CASE Reload
    <3>1. incoming' \in Version /\ process' \in {"running", "over"}
      BY <2>1 DEF Reload, InLoop
    <3> QED
      BY <2>1, <3>1 DEF Reload, start, texts
  <2>2. CASE SetOptions
    <3>1. options' \in [Fields -> Version] /\ incoming' \in Version
      BY <2>2, Versions DEF SetOptions
    <3> QED
      BY <2>2, <3>1 DEF SetOptions, InLoop, start, texts
  <2> QED
    BY <1>3, <2>1, <2>2 DEF Notification
<1>4. CASE ReadOption
  <2>1. request' \in Seq(Version) /\ Len(request') <= Len(RequestReads)
    <3>1. PICK f \in Fields : \E v \in Copies(f) :
            /\ Len(request') = Len(request) + 1 /\ Len(request) < 7
            /\ request' \in Seq(Version)
      BY <1>4, Reading
    <3>2. Len(request) \in Nat
      OBVIOUS
    <3> QED
      BY <3>1, <3>2, ReadsFields
  <2>2. raced' \in [request : BOOLEAN, command : BOOLEAN] /\ reloaded' \in BOOLEAN
    <3>1. CASE request = <<>>
      <4>1. PICK b \in BOOLEAN : b = (incoming # Unset)
        OBVIOUS
      <4>2. raced' = [request |-> b, command |-> FALSE] /\ reloaded' = FALSE
        BY <1>4, <3>1, <4>1, Zenon DEF ReadOption
      <4> QED
        BY <4>2
    <3>2. CASE request # <<>>
      <4>1. PICK b \in BOOLEAN : b = (raced.request \/ incoming # Unset)
        OBVIOUS
      <4>2. raced' = [raced EXCEPT !["request"] = b]
        BY <1>4, <3>2, <4>1, Zenon DEF ReadOption, Racing
      <4>3. UNCHANGED reloaded
        BY <1>4, <3>2 DEF ReadOption
      <4> QED
        BY <4>2, <4>3
    <3> QED
      BY <3>1, <3>2
  <2>3. process' \in {"running", "over", "killed", "crashed"}
    BY <1>4 DEF ReadOption
  <2> QED
    BY <1>4, <2>1, <2>2, <2>3 DEF ReadOption, InLoop, start
<1>5. CASE NoProgram \/ Send \/ RefuseAddress \/ Tear
  <2>1. <<>> \in Seq(Version) /\ Len(<<>>) <= Len(RequestReads)
    BY ReadsFields
  <2> QED
    BY <1>5, <2>1 DEF NoProgram, Send, RefuseAddress, Tear, InLoop, start, texts
<1>6. CASE MakeVerifyLicenseCmd
  <2>1. command' \in [CommandFields -> Version]
    BY <1>6, CopiesType, CommandReads DEF MakeVerifyLicenseCmd
  <2> QED
    BY <1>6, <2>1 DEF MakeVerifyLicenseCmd, InLoop, start
<1>7. CASE UNCHANGED vars
  BY <1>7 DEF vars, start, texts
<1> QED
  BY <1>1, <1>2, <1>3, <1>4, <1>5, <1>6, <1>7 DEF Next, Readers

\* Every variable keeps its type.
THEOREM TypeCorrect == Spec => []TypeOK
BY TypeInit, TypeStep, PTL DEF Spec

-----------------------------------------------------------------------------

\* Before the event loop nobody reads and nothing is assigned.
Quiet == at # "loop" => incoming = Unset /\ request = <<>>

\* A request has no unset value where run() was not forced past its signal.
NothingUnset == ~ignored => \A i \in 1 .. Len(request) : request[i] # Unset

ConfiguredInv == TypeOK /\ Quiet /\ NothingUnset /\ ConfiguredService

LEMMA ConfiguredInit == Init => ConfiguredInv
<1> SUFFICES ASSUME Init PROVE ConfiguredInv
  OBVIOUS
<1>1. Quiet /\ ConfiguredService
  BY DEF Init, Quiet, ConfiguredService
<1>2. Len(request) = 0
  BY DEF Init
<1>3. NothingUnset
  BY <1>2 DEF NothingUnset
<1> QED
  BY <1>1, <1>3, TypeInit DEF ConfiguredInv

LEMMA ConfiguredStep == TypeOK' /\ ConfiguredInv /\ [Next]_vars => ConfiguredInv'
<1> SUFFICES ASSUME TypeOK', ConfiguredInv, [Next]_vars
             PROVE  Quiet' /\ NothingUnset' /\ ConfiguredService'
  BY DEF ConfiguredInv
<1> USE DEF ConfiguredInv
<1>1. UNCHANGED <<request, ignored>> => NothingUnset'
  BY DEF NothingUnset
<1>2. request' = <<>> => NothingUnset'
  <2> SUFFICES ASSUME request' = <<>> PROVE Len(request') = 0
    BY DEF NothingUnset
  <2> QED
    OBVIOUS
<1>3. CASE Main
  <2>1. CASE MakePaths
    <3>1. file.version # Unset
      BY DEF TypeOK
    <3>2. at' \in {"options", "raise"} /\ at = "paths" /\ process' = "running"
          /\ (at' = "options" => options' = [f \in Fields |-> file.version])
          /\ UNCHANGED <<ignored, incoming, request>>
      BY <2>1 DEF MakePaths, texts
    <3> QED
      BY <1>1, <3>1, <3>2 DEF Quiet, ConfiguredService
  <2>2. CASE ParseArgs \/ Raise \/ CopyOptions \/ StartLoop \/ EndLoop
    <3>1. UNCHANGED <<request, ignored, incoming, options>> /\ process' # "crashed"
      BY <2>2 DEF ParseArgs, Raise, CopyOptions, StartLoop, EndLoop, InLoop, Goto,
                  start, texts
    <3>2. at' = at \/ (at # "loop" /\ (at' \in {"options", "signal", "loop"} =>
                           ignored \/ at \in {"options", "signal", "loop"}))
      BY <2>2 DEF ParseArgs, Raise, CopyOptions, StartLoop, EndLoop, Goto, start
    <3> QED
      BY <1>1, <3>1, <3>2 DEF Quiet, ConfiguredService
  <2> QED
    BY <1>3, <2>1, <2>2 DEF Main
<1>4. CASE Edit
  BY <1>1, <1>4 DEF Edit, start, texts, Quiet, ConfiguredService
<1>5. CASE Reload
  <2>1. at = "loop" /\ process' \in {"running", "over"} /\ UNCHANGED <<start, options, texts>>
    BY <1>5 DEF Reload, InLoop
  <2> QED
    BY <1>1, <2>1 DEF start, texts, Quiet, ConfiguredService
<1>6. CASE SetOptions
  <2>1. /\ at = "loop" /\ process' = "running" /\ incoming # Unset
        /\ options' = [f \in Fields |-> incoming] /\ UNCHANGED <<start, texts>>
    BY <1>6 DEF SetOptions, InLoop
  <2> QED
    BY <1>1, <2>1 DEF start, texts, Quiet, ConfiguredService
<1>7. CASE ReadOption
  <2>1. at = "loop" /\ process = "running" /\ UNCHANGED <<start, file, options, incoming>>
    BY <1>7 DEF ReadOption, InLoop
  <2>2. process' = "crashed" => BadAddress'
    <3> SUFFICES ASSUME process' = "crashed" PROVE BadAddress'
      OBVIOUS
    <3>1. PICK v : /\ request = <<>> /\ Address(v) = "malformed"
                   /\ request' = Append(request, v)
      BY <1>7, <2>1 DEF ReadOption
    <3>2. request' # <<>> /\ request'[1] = v
      BY <3>1
    <3>3. Address(v)' = Address(v)
      BY <2>1 DEF Address
    <3> QED
      BY <3>1, <3>2, <3>3 DEF BadAddress, Address
  <2>8. Quiet' /\ ConfiguredService'
    BY <2>1, <2>2 DEF start, Quiet, ConfiguredService
  <2>3. PICK f \in Fields : \E v \in Copies(f) :
          /\ Len(request') = Len(request) + 1 /\ request'[Len(request) + 1] = v
          /\ \A i \in 1 .. Len(request) : request'[i] = request[i]
    BY <1>7, Reading
  <2>4. PICK v \in Copies(f) :
          /\ Len(request') = Len(request) + 1 /\ request'[Len(request) + 1] = v
          /\ \A i \in 1 .. Len(request) : request'[i] = request[i]
    BY <2>3
  <2>5. ~ignored => v # Unset
    BY <2>1, CopiesWhole DEF ConfiguredService
  <2>6. Len(request) \in Nat
    BY DEF TypeOK
  <2>7. NothingUnset'
    <3> SUFFICES ASSUME ~ignored, NEW i \in 1 .. Len(request) + 1
                 PROVE  request'[i] # Unset
      BY <2>1, <2>4 DEF NothingUnset, start
    <3>1. CASE i \in 1 .. Len(request)
      BY <2>4, <3>1 DEF NothingUnset
    <3>2. CASE i = Len(request) + 1
      BY <2>4, <2>5, <3>2
    <3> QED
      BY <2>6, <3>1, <3>2
  <2> QED
    BY <2>7, <2>8
<1>8. CASE NoProgram
  BY <1>2, <1>8 DEF NoProgram, InLoop, start, Quiet, ConfiguredService
<1>9. CASE Send
  BY <1>2, <1>9 DEF Send, InLoop, start, Quiet, ConfiguredService
<1>10. CASE MakeVerifyLicenseCmd \/ Tear
  <2>1. at = "loop" /\ UNCHANGED <<start, options, incoming, request>>
        /\ (process' = "crashed" => incoming # Unset)
    BY <1>10 DEF MakeVerifyLicenseCmd, Tear, InLoop, texts
  <2> QED
    BY <1>1, <2>1 DEF start, Quiet, ConfiguredService
<1>11. CASE RefuseAddress
  <2>1. /\ at = "loop" /\ Address(request[1]) # "http"
        /\ UNCHANGED <<start, file, options, incoming, request>>
    BY <1>11 DEF RefuseAddress, InLoop, texts
  <2>2. Len(request) = 7
    BY <1>11, ReadsFields DEF RefuseAddress
  <2>3. request # <<>> /\ 1 \in 1 .. Len(request)
    BY <2>2
  <2>4. request[1] # Unset => BadAddress
    BY <2>1, <2>3 DEF BadAddress, Address
  <2> QED
    BY <1>1, <2>1, <2>3, <2>4 DEF start, NothingUnset, BadAddress, Quiet, ConfiguredService
<1>12. CASE UNCHANGED vars
  BY <1>1, <1>12 DEF vars, start, texts, BadAddress, Quiet, ConfiguredService
<1> QED
  BY <1>3, <1>4, <1>5, <1>6, <1>7, <1>8, <1>9, <1>10, <1>11, <1>12
     DEF Next, Notification, Readers

LEMMA ConfiguredInvariant == Spec => []ConfiguredInv
<1>1. ConfiguredInv => TypeOK
  BY DEF ConfiguredInv
<1> QED
  BY <1>1, TypeStep, ConfiguredInit, ConfiguredStep, PTL DEF Spec

\* Only a process started with SIGINT ignored runs without a configuration, and what
\* any other makes of its options crashes only in a race or at a bad address.
THEOREM Configured == Spec => []ConfiguredService
<1>1. ConfiguredInv => ConfiguredService
  BY DEF ConfiguredInv
<1> QED
  BY <1>1, ConfiguredInvariant, PTL

-----------------------------------------------------------------------------

\* Between two assignments the options are those of one file, and of none that is
\* newer than the file.
OneFile ==
  /\ \A f, g \in Fields : options[f] = options[g]
  /\ \A f \in Fields : options[f] <= file.version
  /\ incoming # Unset =>
       incoming <= file.version /\ \A f \in Fields : options[f] <= incoming

\* What was read without a race is not newer than the options, and not older unless
\* they were assigned since.
ReadFrom ==
  ~raced.request =>
    \A i \in 1 .. Len(request) : \A f \in Fields :
      request[i] <= options[f] /\ (~reloaded => request[i] = options[f])

RequestInOrder ==
  ~raced.request =>
    \A i, j \in 1 .. Len(request) : i < j =>
      request[i] <= request[j] /\ (~reloaded => request[i] = request[j])

CommandOfOneFile ==
  ~raced.command => \A f, g \in DOMAIN command : command[f] = command[g]

BuiltInv == ConfiguredInv /\ OneFile /\ ReadFrom /\ RequestInOrder /\ CommandOfOneFile

LEMMA BuiltInit == Init => BuiltInv
<1> SUFFICES ASSUME Init PROVE BuiltInv
  OBVIOUS
<1>1. OneFile
  BY Versions DEF Init, OneFile
<1>2. Len(request) = 0 /\ DOMAIN command = 1 .. 0
  BY DEF Init
<1>3. ReadFrom /\ RequestInOrder /\ CommandOfOneFile
  BY <1>2 DEF ReadFrom, RequestInOrder, CommandOfOneFile
<1> QED
  BY <1>1, <1>3, ConfiguredInit DEF BuiltInv

LEMMA BuiltStep ==
  TypeOK' /\ ConfiguredInv' /\ BuiltInv /\ [Next]_vars => BuiltInv'
<1> SUFFICES ASSUME TypeOK', ConfiguredInv', BuiltInv, [Next]_vars
             PROVE  OneFile' /\ ReadFrom' /\ RequestInOrder' /\ CommandOfOneFile'
  BY DEF BuiltInv
<1> USE DEF BuiltInv
<1>1. /\ TypeOK /\ options \in [Fields -> Nat] /\ incoming \in Nat
      /\ file.version \in Nat /\ file.version # 0 /\ Len(request) \in Nat
  BY Versions DEF ConfiguredInv, TypeOK
<1>2. UNCHANGED <<options, incoming, file>> => OneFile'
  BY DEF OneFile
<1>3. UNCHANGED <<request, options, reloaded, raced>> => ReadFrom' /\ RequestInOrder'
  BY DEF ReadFrom, RequestInOrder
<1>4. UNCHANGED <<command, raced>> => CommandOfOneFile'
  BY DEF CommandOfOneFile
<1>5. request' = <<>> => ReadFrom' /\ RequestInOrder'
  <2> SUFFICES ASSUME request' = <<>> PROVE Len(request') = 0
    BY DEF ReadFrom, RequestInOrder
  <2> QED
    OBVIOUS
<1>6. CASE MakePaths
  <2>1. request' = <<>> /\ incoming' = Unset /\ UNCHANGED <<file, command, raced>>
    BY <1>6 DEF MakePaths, texts, ConfiguredInv, Quiet
  <2>2. options' = [f \in Fields |-> file.version] \/ options' = options
    BY <1>6 DEF MakePaths
  <2>3. OneFile'
    BY <1>1, <2>1, <2>2 DEF OneFile
  <2> QED
    BY <1>4, <1>5, <2>1, <2>3
<1>7. CASE \/ ParseArgs \/ Raise \/ CopyOptions \/ StartLoop \/ EndLoop
           \/ RefuseAddress \/ Tear
  <2>1. UNCHANGED <<options, incoming, file, request, reloaded, raced, command>>
    BY <1>7 DEF ParseArgs, Raise, CopyOptions, StartLoop, EndLoop, RefuseAddress,
                Tear, texts
  <2> QED
    BY <1>2, <1>3, <1>4, <2>1
<1>8. CASE Edit
  <2>1. /\ file'.version = file.version + 1
        /\ UNCHANGED <<options, incoming, request, reloaded, raced, command>>
    BY <1>8 DEF Edit, texts
  <2>2. OneFile'
    BY <1>1, <2>1 DEF OneFile
  <2> QED
    BY <1>3, <1>4, <2>1, <2>2
<1>9. CASE Reload
  <2>1. /\ incoming = Unset /\ incoming' \in {Unset, file.version}
        /\ UNCHANGED <<file, options, request, reloaded, raced, command>>
    BY <1>9 DEF Reload, texts
  <2>2. OneFile'
    BY <1>1, <2>1 DEF OneFile
  <2> QED
    BY <1>3, <1>4, <2>1, <2>2
<1>10. CASE SetOptions
  <2>1. /\ incoming # Unset /\ incoming' = Unset /\ reloaded' = TRUE
        /\ options' = [f \in Fields |-> incoming]
        /\ UNCHANGED <<file, request, raced, command>>
    BY <1>10 DEF SetOptions, texts
  <2>2. OneFile'
    BY <2>1 DEF OneFile
  <2>3. RequestInOrder'
    BY <2>1 DEF RequestInOrder
  <2>4. \A i \in 1 .. Len(request) : request[i] \in Nat
    BY Versions DEF ConfiguredInv, TypeOK
  <2>5. ReadFrom'
    BY <1>1, <2>1, <2>4 DEF ReadFrom, OneFile
  <2> QED
    BY <1>4, <2>1, <2>2, <2>3, <2>5
<1>11. CASE ReadOption
  <2>1. UNCHANGED <<file, options, incoming>> /\ command' = <<>>
    BY <1>11 DEF ReadOption
  <2>2. OneFile' /\ CommandOfOneFile'
    BY <1>2, <2>1 DEF CommandOfOneFile
  <2>3. PICK f \in Fields : \E v \in Copies(f) :
          /\ v \in Version /\ request' \in Seq(Version)
          /\ Len(request') = Len(request) + 1 /\ request'[Len(request) + 1] = v
          /\ \A i \in 1 .. Len(request) : request'[i] = request[i]
    BY <1>1, <1>11, Reading
  <2>4. PICK v \in Copies(f) :
          /\ v \in Version /\ request' \in Seq(Version)
          /\ Len(request') = Len(request) + 1 /\ request'[Len(request) + 1] = v
          /\ \A i \in 1 .. Len(request) : request'[i] = request[i]
    BY <2>3
  <2>5. CASE raced'.request
    BY <2>2, <2>5 DEF ReadFrom, RequestInOrder
  <2>6. CASE ~raced'.request
    <3>1. incoming = Unset /\ (request # <<>> => ~raced.request)
      <4>1. CASE request = <<>>
        <5>1. PICK b \in BOOLEAN : b = (incoming # Unset)
          OBVIOUS
        <5>2. raced' = [request |-> b, command |-> FALSE]
          BY <1>11, <4>1, <5>1, Zenon DEF ReadOption
        <5>3. b = FALSE
          BY <2>6, <5>2
        <5> QED
          BY <4>1, <5>1, <5>3
      <4>2. CASE request # <<>>
        <5>1. PICK b \in BOOLEAN : b = (raced.request \/ incoming # Unset)
          OBVIOUS
        <5>2. raced' = [raced EXCEPT !["request"] = b]
          BY <1>11, <4>2, <5>1, Zenon DEF ReadOption, Racing
        <5>3. b = FALSE
          BY <1>1, <2>6, <5>2 DEF TypeOK
        <5> QED
          BY <5>1, <5>3
      <4> QED
        BY <4>1, <4>2
    <3>2. \A g \in Fields : v = options[g]
      BY <3>1, CopiesWhole DEF OneFile
    <3>3. \A i \in 1 .. Len(request) : \A g \in Fields :
            request[i] <= options[g] /\ (~reloaded' => request[i] = options[g])
      <4>1. CASE request = <<>>
        BY <4>1
      <4>2. CASE request # <<>>
        BY <1>11, <3>1, <4>2 DEF ReadFrom, ReadOption
      <4> QED
        BY <4>1, <4>2
    <3>4. \A i \in 1 .. Len(request) + 1 : \A g \in Fields :
            request'[i] <= options[g] /\ (~reloaded' => request'[i] = options[g])
      <4> SUFFICES ASSUME NEW i \in 1 .. Len(request) + 1, NEW g \in Fields
                   PROVE  request'[i] <= options[g] /\ (~reloaded' => request'[i] = options[g])
        OBVIOUS
      <4>1. CASE i \in 1 .. Len(request)
        BY <2>4, <3>3, <4>1
      <4>2. CASE i = Len(request) + 1
        BY <1>1, <2>4, <3>2, <4>2
      <4> QED
        BY <1>1, <4>1, <4>2
    <3>5. ReadFrom'
      BY <2>1, <2>4, <3>4 DEF ReadFrom
    <3>6. RequestInOrder'
      <4> SUFFICES ASSUME NEW i \in 1 .. Len(request) + 1,
                          NEW j \in 1 .. Len(request) + 1, i < j
                   PROVE  request'[i] <= request'[j]
                          /\ (~reloaded' => request'[i] = request'[j])
        BY <2>4 DEF RequestInOrder
      <4>1. CASE j = Len(request) + 1
        BY <2>4, <3>2, <3>4, <4>1
      <4>2. CASE j # Len(request) + 1
        <5>1. i \in 1 .. Len(request) /\ j \in 1 .. Len(request) /\ request # <<>>
          BY <1>1, <4>2
        <5>2. ~raced.request /\ UNCHANGED reloaded
          BY <1>11, <3>1, <5>1 DEF ReadOption
        <5> QED
          BY <2>4, <5>1, <5>2 DEF RequestInOrder
      <4> QED
        BY <4>1, <4>2
    <3> QED
      BY <2>2, <3>5, <3>6
  <2> QED
    BY <2>5, <2>6
<1>12. CASE NoProgram \/ Send
  <2>1. request' = <<>> /\ UNCHANGED <<file, options, incoming, command, raced>>
    BY <1>12 DEF NoProgram, Send
  <2> QED
    BY <1>2, <1>4, <1>5, <2>1
<1>13. CASE MakeVerifyLicenseCmd
  <2>1. /\ request = <<>> /\ UNCHANGED <<request, file, options, incoming>>
        /\ DOMAIN command' = CommandFields
        /\ \A f \in CommandFields : command'[f] \in Copies(f)
    BY <1>13 DEF MakeVerifyLicenseCmd
  <2>2. ~raced'.command => incoming = Unset
    BY <1>1, <1>13 DEF MakeVerifyLicenseCmd, TypeOK
  <2>3. incoming = Unset => \A f \in CommandFields : command'[f] = options[f]
    BY <2>1, CopiesWhole, CommandReads
  <2>4. CommandOfOneFile'
    BY <2>1, <2>2, <2>3, CommandReads DEF CommandOfOneFile, OneFile
  <2> QED
    BY <1>2, <1>5, <2>1, <2>4
<1>14. CASE UNCHANGED vars
  BY <1>2, <1>3, <1>4, <1>14 DEF vars, texts
<1> QED
  BY <1>6, <1>7, <1>8, <1>9, <1>10, <1>11, <1>12, <1>13, <1>14
     DEF Next, Main, Notification, Readers

\* What is built without a race is of one configuration, or, for a request and only
\* after a reload, of several in the order of the file.
THEOREM Built == Spec => []BuiltOfOneFile
<1>1. BuiltInv => BuiltOfOneFile
  <2>1. TypeOK => DOMAIN request = 1 .. Len(request)
    BY DEF TypeOK
  <2> QED
    BY <2>1 DEF BuiltInv, ConfiguredInv, RequestInOrder, CommandOfOneFile, BuiltOfOneFile
<1>2. ConfiguredInv => TypeOK
  BY DEF ConfiguredInv
<1>3. BuiltInv => ConfiguredInv
  BY DEF BuiltInv
<1> QED
  BY <1>1, <1>2, <1>3, TypeStep, ConfiguredStep, BuiltInit, BuiltStep, PTL DEF Spec

==============================================================================

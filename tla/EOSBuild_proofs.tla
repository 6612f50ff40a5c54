---------------------------- MODULE EOSBuild_proofs ----------------------------
(***************************************************************************)
(* Proofs about EOSBuild, for every set of releases and headers.  The      *)
(* header's story is told by HeaderInv: where the invocation is determines *)
(* what the header and its backup are relative to the header it found.     *)
(***************************************************************************)
EXTENDS EOSBuild, TLAPS

(* What the two files hold at each place of an invocation.                 *)
HeaderInv ==
    /\ pc \in {"generate", "back up"} => base = found
    /\ pc = "copy" => base = found /\ found \in Texts
                      /\ backup \in Texts /\ backup.form = "cut"
    /\ pc = "open" => base = found /\ backup = found /\ found \in Texts
    /\ pc = "patch" => /\ backup = found /\ found \in Texts
                       /\ base \in Texts /\ base.form = "cut"
    /\ pc \in {"compile", "remove"}
         => backup = found /\ found \in Texts /\ base = Patch(found)
    /\ pc = "rename" => backup = found /\ found \in Texts /\ base = NoFile

(* Generating leaves the files it came past as they should be.             *)
AsDeclared(f) == IF f \in Declares[sdk] THEN gen[f] = sdk
                 ELSE f[2] \in Deleted => gen[f] = None
GenInv ==
    /\ pc \notin {"idle", "generate"} => todo = {}
    /\ generated /\ pc # "idle"
         => \A f \in GenFiles : f \in FilesOf(Headers[sdk]) \ todo => AsDeclared(f)

IInv == TypeOK /\ HeaderInv /\ GenInv

LEMMA NoFileIsNoText == NoFile \notin Texts
<1>1. SUFFICES ASSUME NoFile \in Texts PROVE FALSE
  OBVIOUS
<1>2. DOMAIN NoFile = {"release", "form"}
  BY <1>1 DEF Texts
<1>3. DOMAIN NoFile = {"form"}
  BY DEF NoFile
<1> QED
  BY <1>2, <1>3

LEMMA TextFacts ==
    ASSUME NEW t \in Texts
    PROVE  /\ Patch(t) \in Texts
           /\ Patch(t).form # "vendor"
           /\ Cut(t.release) \in Texts
           /\ Cut(t.release).form = "cut"
BY DEF Texts, Forms, Patch, Cut

LEMMA VendorFacts ==
    ASSUME NEW r \in Releases
    PROVE  Vendor(r) \in Texts /\ Vendor(r).form = "vendor"
BY DEF Texts, Forms, Vendor

LEMMA FileFacts ==
    ASSUME NEW r \in Releases
    PROVE  /\ Declares[r] \subseteq GenFiles
           /\ Declares[r] \subseteq FilesOf(Headers[r])
           /\ FilesOf(Headers[r]) \subseteq GenFiles
           /\ \A f \in GenFiles : f \in FilesOf(Headers[r]) <=> f[1] \in Headers[r]
<1>1. /\ Declares[r] \subseteq GenFiles /\ Declares[r] \subseteq FilesOf(Headers[r])
      /\ Headers[r] \subseteq Sources
  BY HeadersAssumption
<1> QED
  BY <1>1 DEF FilesOf, GenFiles

LEMMA InitInv == Init => IInv
<1> SUFFICES ASSUME Init PROVE IInv
  OBVIOUS
<1>1. TypeOK
  BY VendorFacts DEF Init, TypeOK
<1>2. HeaderInv /\ GenInv
  BY DEF Init, HeaderInv, GenInv
<1> QED
  BY <1>1, <1>2 DEF IInv

LEMMA StepInv == IInv /\ [Next]_vars => IInv'
<1> SUFFICES ASSUME IInv, [Next]_vars PROVE IInv'
  OBVIOUS
<1> USE DEF IInv
<1>1. ASSUME NEW g \in BOOLEAN, Invoke(g) PROVE IInv'
  <2>1. TypeOK'
    BY <1>1, FileFacts DEF Invoke, TypeOK
  <2>2. HeaderInv'
    BY <1>1 DEF Invoke, HeaderInv
  <2>3. GenInv'
    BY <1>1 DEF Invoke, GenInv
  <2> QED
    BY <2>1, <2>2, <2>3
<1>2. ASSUME NEW g \in GenFiles, GenerateFile(g) PROVE IInv'
  <2>1. TypeOK'
    BY <1>2 DEF GenerateFile, TypeOK, header
  <2>2. HeaderInv'
    BY <1>2 DEF GenerateFile, HeaderInv, header
  <2>3. ASSUME NEW f \in GenFiles, f \in FilesOf(Headers[sdk]) \ todo', generated
        PROVE  AsDeclared(f)'
    <3>0. gen \in [GenFiles -> Releases \cup {None}]
      BY DEF TypeOK
    <3>1. CASE f = g
      BY <1>2, <2>3, <3>0, <3>1 DEF GenerateFile, AsDeclared
    <3>2. CASE f # g
      <4>1. f \notin todo
        BY <1>2, <2>3, <3>2 DEF GenerateFile
      <4>2. AsDeclared(f)
        BY <1>2, <2>3, <4>1 DEF GenInv, GenerateFile
      <4>3. gen'[f] = gen[f]
        BY <1>2, <3>0, <3>2 DEF GenerateFile
      <4> QED
        BY <1>2, <4>2, <4>3 DEF AsDeclared, GenerateFile
    <3> QED
      BY <3>1, <3>2
  <2>4. GenInv'
    <3>1. pc' = "generate" /\ sdk' = sdk /\ generated' = generated
      BY <1>2 DEF GenerateFile
    <3> QED
      BY <3>1, <2>3 DEF GenInv
  <2> QED
    BY <2>1, <2>2, <2>4
<1>3. CASE GenerateDone
  BY <1>3 DEF GenerateDone, TypeOK, HeaderInv, GenInv, header, AsDeclared
<1>4. CASE OpenBackup
  <2>1. base # NoFile => base \in Texts /\ Cut(base.release) \in Texts
                         /\ Cut(base.release).form = "cut"
    BY TextFacts DEF TypeOK
  <2>2. TypeOK' /\ HeaderInv'
    BY <1>4, <2>1 DEF OpenBackup, TypeOK, HeaderInv
  <2>3. GenInv'
    BY <1>4 DEF OpenBackup, GenInv, AsDeclared
  <2> QED
    BY <2>2, <2>3
<1>5. CASE WriteBackup
  BY <1>5 DEF WriteBackup, TypeOK, HeaderInv, GenInv, AsDeclared
<1>6. CASE OpenBase
  <2>1. base \in Texts
    BY <1>6 DEF OpenBase, HeaderInv
  <2>2. Cut(base.release) \in Texts /\ Cut(base.release).form = "cut"
    BY <2>1, TextFacts
  <2>3. TypeOK' /\ HeaderInv'
    BY <1>6, <2>2 DEF OpenBase, TypeOK, HeaderInv
  <2>4. GenInv'
    BY <1>6 DEF OpenBase, GenInv, AsDeclared
  <2> QED
    BY <2>3, <2>4
<1>7. CASE WriteBase
  <2>1. backup = found /\ found \in Texts
    BY <1>7 DEF WriteBase, HeaderInv
  <2>2. Patch(backup) \in Texts
    BY <2>1, TextFacts
  <2>3. TypeOK'
    BY <1>7, <2>2 DEF WriteBase, TypeOK
  <2>4. HeaderInv'
    BY <1>7, <2>1 DEF WriteBase, HeaderInv, Patch
  <2>5. GenInv'
    BY <1>7 DEF WriteBase, GenInv, AsDeclared
  <2> QED
    BY <2>3, <2>4, <2>5
<1>8. ASSUME NEW ok \in BOOLEAN, Compile(ok) PROVE IInv'
  BY <1>8 DEF Compile, TypeOK, HeaderInv, GenInv, header, AsDeclared, Patch
<1>9. CASE RemoveBase
  BY <1>9, NoFileIsNoText DEF RemoveBase, TypeOK, HeaderInv, GenInv, AsDeclared
<1>10. CASE RenameBackup
  BY <1>10 DEF RenameBackup, TypeOK, HeaderInv, GenInv
<1>11. CASE Interrupt
  BY <1>11 DEF Interrupt, TypeOK, HeaderInv, GenInv, header
<1>12. CASE Clean
  BY <1>12 DEF Clean, TypeOK, HeaderInv, GenInv, header
<1>13. ASSUME NEW r \in Releases, Install(r) PROVE IInv'
  BY <1>13, VendorFacts DEF Install, TypeOK, HeaderInv, GenInv
<1>14. CASE UNCHANGED vars
  BY <1>14 DEF vars, header, TypeOK, HeaderInv, GenInv, AsDeclared, Patch
<1> QED
  BY <1>1, <1>2, <1>3, <1>4, <1>5, <1>6, <1>7, <1>8, <1>9, <1>10, <1>11,
     <1>12, <1>13, <1>14 DEF Next

(* The inductive invariant holds in every state of the specification.      *)
THEOREM InvHolds == Spec => []IInv
BY InitInv, StepInv, PTL DEF Spec

(* The files, their releases and the invocation's place keep their types.  *)
THEOREM TypeCorrect == Spec => []TypeOK
<1>1. IInv => TypeOK
  BY DEF IInv
<1> QED
  BY <1>1, InvHolds, PTL

(* Every build compiles against, and puts back, the header it found,       *)
(* whatever earlier invocations were stopped at.                           *)
THEOREM FoundIsRestored == Spec => []HeaderAsFound
<1>1. IInv => HeaderAsFound
  BY DEF IInv, HeaderInv, HeaderAsFound
<1> QED
  BY <1>1, InvHolds, PTL

(* The files compiled after generating are the installed release's, save   *)
(* for leftovers of headers that are gone and of kinds never deleted.      *)
THEOREM CurrentFiles == Spec => []CompiledFiles
<1>1. IInv => CompiledFiles
  <2> SUFFICES ASSUME IInv, generated, pc \in {"compile", "remove", "rename"}
               PROVE  /\ \A f \in Declares[sdk] : gen[f] = sdk
                      /\ \A f \in GenFiles : gen[f] \notin {sdk, None}
                           => f[1] \notin Headers[sdk] \/ f[2] \in Written
    BY DEF CompiledFiles
  <2>1. sdk \in Releases /\ todo = {}
    BY DEF IInv, TypeOK, GenInv
  <2>2. \A f \in GenFiles : f[1] \in Headers[sdk] => AsDeclared(f)
    BY <2>1, FileFacts DEF IInv, GenInv
  <2>3. \A f \in Declares[sdk] : gen[f] = sdk
    BY <2>1, <2>2, FileFacts DEF AsDeclared
  <2>4. \A f \in GenFiles : f[2] \in Deleted \/ f[2] \in Written
    BY DEF GenFiles
  <2> QED
    BY <2>2, <2>3, <2>4 DEF AsDeclared
<1> QED
  BY <1>1, InvHolds, PTL

(* Only a build on top of one that was stopped after it had opened the     *)
(* header for writing loses the vendor's header.                           *)
THEOREM LossNeedsRebuild == Spec => LostOnlyByRebuilding
<1> DEFINE Loss == Recoverable /\ ~Recoverable'
                     => OpenBackup /\ base \notin {Vendor(sdk), NoFile}
<1>1. ASSUME IInv, [Next]_vars PROVE [Loss]_vars
  <2> SUFFICES ASSUME Recoverable, ~Recoverable'
               PROVE  OpenBackup /\ base \notin {Vendor(sdk), NoFile}
    OBVIOUS
  <2> USE <1>1
  <2>1. Vendor(sdk) \in Texts /\ Vendor(sdk).form = "vendor"
    BY VendorFacts DEF IInv, TypeOK
  <2>2. ~(\E r \in Releases : Install(r))
    <3>1. ASSUME NEW r \in Releases, Install(r) PROVE Recoverable'
      BY <3>1 DEF Install, Recoverable
    <3> QED
      BY <3>1
  <2>3. sdk' = sdk /\ Vendor(sdk)' = Vendor(sdk)
    BY <2>2 DEF Next, vars, Invoke, GenerateFile, GenerateDone, OpenBackup,
       WriteBackup, OpenBase, WriteBase, Compile, RemoveBase, RenameBackup,
       Interrupt, Clean, Vendor
  <2>4. ~UNCHANGED header
    BY <2>3 DEF Recoverable, header
  <2>5. OpenBackup \/ WriteBackup \/ OpenBase \/ WriteBase \/ RemoveBase
          \/ RenameBackup
    BY <2>2, <2>4 DEF Next, vars, header, Invoke, GenerateFile, GenerateDone,
       Compile, Interrupt, Clean
  <2>6. ~WriteBackup
    BY <2>1, <2>3 DEF WriteBackup, Recoverable, IInv, HeaderInv
  <2>7. ~OpenBase
    BY <2>1, <2>3 DEF OpenBase, Recoverable, IInv, HeaderInv
  <2>8. ~WriteBase
    BY <2>1, <2>3 DEF WriteBase, Recoverable, IInv, HeaderInv
  <2>9. ~RemoveBase
    <3>1. SUFFICES ASSUME RemoveBase PROVE FALSE
      OBVIOUS
    <3>2. base = Patch(found) /\ found \in Texts
      BY <3>1, <1>1 DEF RemoveBase, IInv, HeaderInv
    <3>3. base.form # "vendor"
      BY <3>2, TextFacts
    <3>4. base # Vendor(sdk)
      BY <3>3, <2>1
    <3> QED
      BY <3>1, <3>4, <2>3 DEF RemoveBase, Recoverable
  <2>10. ~RenameBackup
    BY <2>1, <2>3, NoFileIsNoText DEF RenameBackup, Recoverable, IInv, HeaderInv
  <2>11. OpenBackup
    BY <2>5, <2>6, <2>7, <2>8, <2>9, <2>10
  <2>12. base \notin {Vendor(sdk), NoFile}
    BY <2>3, <2>11 DEF OpenBackup, Recoverable
  <2> QED
    BY <2>11, <2>12
<1> QED
  BY <1>1, InvHolds, PTL DEF Spec, LostOnlyByRebuilding
===============================================================================

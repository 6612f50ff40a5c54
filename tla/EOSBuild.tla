------------------------------- MODULE EOSBuild -------------------------------
(***************************************************************************)
(* A scons invocation of the extension (SConstruct, tools/gd_eos.py and    *)
(* tools/binding_generator/main.py): it may generate the bindings, patches *)
(* the SDK's eos_base.h in place, compiles and, when the library was       *)
(* built, puts the header back from the backup it took.  Everything lives  *)
(* in files that outlast the process, and a build may fail, or be killed,  *)
(* between any two of them.                                                *)
(*                                                                         *)
(* A text of the header is the release it belongs to and its form: as the  *)
(* vendor ships it, with EOS_HAS_ENUM_CLASS commented out, or cut short (a *)
(* file opened for writing is empty until it is written).  A generated     *)
(* file is a pair of the SDK header it is generated from and its kind.     *)
(***************************************************************************)
EXTENDS Naturals

CONSTANTS Releases,   \* releases of the SDK that may be installed
          Sources,    \* base names of SDK headers
          Headers,    \* release -> the headers parse_all_file finds in it
          Declares,   \* release -> the generated files its headers call for
          None        \* a generated file that is not there

(* The kinds of generated file, in the order gen_files comes to them: it   *)
(* deletes a packed result, handle or struct file that has nothing to hold *)
(* any more, and only writes the files of enums and interfaces.            *)
Deleted == {"packed_results", "handles", "structs"}
Written == {"enums", "interfaces"}
Before(k) == CASE k = "packed_results" -> {}
               [] k = "handles" -> {"packed_results"}
               [] k = "structs" -> {"packed_results", "handles"}
               [] k = "enums" -> Deleted
               [] k = "interfaces" -> Deleted \cup {"enums"}
GenFiles == Sources \X (Deleted \cup Written)
FilesOf(S) == S \X (Deleted \cup Written)

ASSUME HeadersAssumption ==
    /\ Headers \in [Releases -> SUBSET Sources]
    /\ Declares \in [Releases -> SUBSET GenFiles]
    /\ \A r \in Releases : Declares[r] \subseteq FilesOf(Headers[r])

VARIABLES sdk,        \* the installed release
          base,       \* eos_base.h
          backup,     \* .eos_base.h.bak
          gen,        \* generated file -> the release it was generated from
          pc,         \* what the invocation does next
          todo,       \* files gen_files has still to write or to delete
          generated,  \* whether this invocation generated the bindings
          found       \* history: the header this invocation started with

header == <<base, backup>>
vars == <<sdk, base, backup, gen, pc, todo, generated, found>>

Forms == {"vendor", "patched", "cut"}
Texts == [release : Releases, form : Forms]
NoFile == [form |-> "none"]

Vendor(r) == [release |-> r, form |-> "vendor"]
Cut(r) == [release |-> r, form |-> "cut"]

(* preprocess comments the line out unless it already is; a file that was  *)
(* cut has no such line.                                                   *)
PatchAgain(text) == \* variant
    CASE text.form = "vendor" -> [text EXCEPT !.form = "patched"]
      [] text.form = "patched" -> [text EXCEPT !.form = "patched twice"]
      [] text.form = "cut" -> text

Patch(text) == IF text.form = "vendor" THEN [text EXCEPT !.form = "patched"]
                                       ELSE text

-----------------------------------------------------------------------------
Init == /\ sdk \in Releases
        /\ base = Vendor(sdk)
        /\ backup = NoFile
        /\ gen = [f \in GenFiles |-> None]
        /\ pc = "idle"
        /\ todo = {}
        /\ generated = FALSE
        /\ found = base

(* scons without -c; generate_eos_bindings is an option of the build.      *)
Invoke(generate) ==
    /\ pc = "idle"
    /\ pc' = IF generate THEN "generate" ELSE "back up"
    /\ todo' = IF generate THEN FilesOf(Headers[sdk]) ELSE {}
    /\ generated' = generate
    /\ found' = base
    /\ UNCHANGED <<sdk, base, backup, gen>>

(* gen_files goes through the headers one after the other, and through the *)
(* kinds of a header's files in their order: a file there is something for *)
(* is written, one of the deleted kinds there is nothing for goes away.    *)
(* Files of headers the release no longer has are not looked at.           *)
IsNext(f) ==
    /\ f \in todo
    /\ \A g \in todo : g[1] = f[1] => g[2] \notin Before(f[2])
    /\ \A g \in todo : g[1] # f[1] => FilesOf({g[1]}) \subseteq todo

GenerateFileOnly(f) == \* variant
    /\ pc = "generate" /\ IsNext(f)
    /\ gen' = IF f \in Declares[sdk] THEN [gen EXCEPT ![f] = sdk] ELSE gen
    /\ todo' = todo \ {f}
    /\ UNCHANGED <<sdk, header, pc, generated, found>>

GenerateFile(f) ==
    /\ pc = "generate" /\ IsNext(f)
    /\ gen' = [gen EXCEPT ![f] = IF f \in Declares[sdk] THEN sdk
                                 ELSE IF f[2] \in Deleted THEN None ELSE @]
    /\ todo' = todo \ {f}
    /\ UNCHANGED <<sdk, header, pc, generated, found>>

GenerateDone ==
    /\ pc = "generate" /\ todo = {}
    /\ pc' = "back up"
    /\ UNCHANGED <<sdk, header, gen, todo, generated, found>>

(* preprocess: without a header there is nothing to open and the build     *)
(* fails before it touches the backup.                                     *)
OpenBackupOnce == \* variant
    /\ pc = "back up"
    /\ IF backup # NoFile
         THEN pc' = "open" /\ UNCHANGED backup
         ELSE pc' = "copy" /\ backup' = Cut(base.release)
    /\ UNCHANGED <<sdk, base, gen, todo, generated, found>>

OpenBackup ==
    /\ pc = "back up"
    /\ IF base = NoFile
         THEN pc' = "idle" /\ UNCHANGED backup
         ELSE pc' = "copy" /\ backup' = Cut(base.release)
    /\ UNCHANGED <<sdk, base, gen, todo, generated, found>>

WriteBackup ==
    /\ pc = "copy"
    /\ backup' = base
    /\ pc' = "open"
    /\ UNCHANGED <<sdk, base, gen, todo, generated, found>>

OpenBase ==
    /\ pc = "open"
    /\ base' = Cut(base.release)
    /\ pc' = "patch"
    /\ UNCHANGED <<sdk, backup, gen, todo, generated, found>>

(* The lines written are those read before the backup was closed.          *)
WriteBase ==
    /\ pc = "patch"
    /\ base' = Patch(backup)
    /\ pc' = "compile"
    /\ UNCHANGED <<sdk, backup, gen, todo, generated, found>>

(* The "complete" command depends on the library: it runs when that was    *)
(* built, and a compiler error ends the invocation before it.              *)
Compile(ok) ==
    /\ pc = "compile"
    /\ pc' = IF ok THEN "remove" ELSE "idle"
    /\ UNCHANGED <<sdk, header, gen, todo, generated, found>>

(* postprocess: os.remove, then os.rename.                                 *)
RemoveBoth == \* variant
    /\ pc = "remove"
    /\ pc' = "idle" /\ base' = NoFile /\ backup' = NoFile
    /\ UNCHANGED <<sdk, gen, todo, generated, found>>

RemoveBase ==
    /\ pc = "remove"
    /\ IF backup = NoFile
         THEN pc' = "idle" /\ UNCHANGED base
         ELSE pc' = "rename" /\ base' = NoFile
    /\ UNCHANGED <<sdk, backup, gen, todo, generated, found>>

RenameBackup ==
    /\ pc = "rename"
    /\ base' = backup
    /\ backup' = NoFile
    /\ pc' = "idle"
    /\ UNCHANGED <<sdk, gen, todo, generated, found>>

(* The process is killed, the machine goes down, the disk is full.         *)
Interrupt ==
    /\ pc # "idle"
    /\ pc' = "idle"
    /\ UNCHANGED <<sdk, header, gen, todo, generated, found>>

(* scons -c: neither generates nor patches, removes the generated files    *)
(* that exist, and runs no command, so postprocess is not called.          *)
Clean ==
    /\ pc = "idle"
    /\ gen' = [f \in GenFiles |-> None]
    /\ UNCHANGED <<sdk, header, pc, todo, generated, found>>

(* The user unpacks a release over the old one.                            *)
Install(r) ==
    /\ pc = "idle"
    /\ sdk' = r
    /\ base' = Vendor(r)
    /\ UNCHANGED <<backup, gen, pc, todo, generated, found>>

Next == \/ \E g \in BOOLEAN : Invoke(g)
        \/ \E f \in GenFiles : GenerateFile(f)
        \/ GenerateDone
        \/ OpenBackup \/ WriteBackup \/ OpenBase \/ WriteBase
        \/ \E ok \in BOOLEAN : Compile(ok)
        \/ RemoveBase \/ RenameBackup
        \/ Interrupt
        \/ Clean
        \/ \E r \in Releases : Install(r)

Spec == Init /\ [][Next]_vars

-----------------------------------------------------------------------------
(* The types of the variables: the files, the release they belong to and   *)
(* the place an invocation is at.                                          *)
TypeOK == /\ sdk \in Releases
          /\ base \in Texts \cup {NoFile}
          /\ backup \in Texts \cup {NoFile}
          /\ gen \in [GenFiles -> Releases \cup {None}]
          /\ pc \in {"idle", "generate", "back up", "copy", "open", "patch",
                     "compile", "remove", "rename"}
          /\ todo \subseteq GenFiles
          /\ generated \in BOOLEAN
          /\ found \in Texts \cup {NoFile}

(* What a build compiles against and puts back is the header it started    *)
(* with, never one an earlier, interrupted build of this or of another     *)
(* release left in the backup: the compiler sees the patched form of it,   *)
(* and postprocess restores it.                                            *)
HeaderAsFound ==
    /\ pc \in {"open", "patch", "compile", "remove", "rename"} => backup = found
    /\ pc = "compile" => base = Patch(found)

(* The vendor's header is on the disk, as the header or as its backup.     *)
Recoverable == Vendor(sdk) \in {base, backup}

(* There is one way to lose the vendor's header: to build again after a    *)
(* build that failed or was killed once it had opened the header for       *)
(* writing.  preprocess then overwrites the backup with the patched, or    *)
(* the cut, header; no other step of any invocation loses it.              *)
LostOnlyByRebuilding ==
    [][Recoverable /\ ~Recoverable'
         => OpenBackup /\ base \notin {Vendor(sdk), NoFile}]_vars

(* What is compiled after generating: every file the installed release     *)
(* calls for comes from it, and one of another release can only be there   *)
(* if its header is gone from the SDK, or its kind is never deleted.       *)
CompiledFiles ==
    generated /\ pc \in {"compile", "remove", "rename"}
      => /\ \A f \in Declares[sdk] : gen[f] = sdk
         /\ \A f \in GenFiles : gen[f] \notin {sdk, None}
                => f[1] \notin Headers[sdk] \/ f[2] \in Written
===============================================================================

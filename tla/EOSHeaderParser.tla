---------------------------- MODULE EOSHeaderParser ----------------------------
(***************************************************************************)
(* parse_file of parser/header_parser.py: the headers of the SDK are read  *)
(* line by line, depth first through their #include lines, and everything  *)
(* declared is put down under the interface that is being parsed, with its *)
(* deprecation.  A header is read once, for whoever asks first.            *)
(*                                                                         *)
(* A header is a sequence of the lines the parser tells apart; the text of *)
(* a line is reduced to the name it declares and what its documentation    *)
(* says about deprecation.  The names of headers and declarations are      *)
(* opaque: what the code reads off their spelling is in About and Facts.   *)
(***************************************************************************)
EXTENDS Naturals, Sequences, FiniteSets

CONSTANTS Headers,     \* the headers in the SDK's include directory
          Lines,       \* header -> its lines
          About,       \* header -> what its name and place tell, see below
          Facts,       \* declaration -> kind and what its name tells
          None

(* About[h]: il, the interface its name is for (convert_to_interface_      *)
(* lower); main, the header it is the _types.h of, if it is one; common,   *)
(* whether it is in _SKIP_INCLUDES; deprecated, whether its name says so;  *)
(* direct, whether it may be included directly.                            *)
(* Facts[n].kind is one of Kinds; skip holds for the constants             *)
(* (is_need_skip_constant) and structs (is_special_builtin_type) that are  *)
(* left out.                                                               *)
Kinds == {"handle", "struct", "enum", "method", "callback", "constant"}

LineKinds == {"include", "interface doc", "latest", "declare", "enum start"}

ASSUME LinesAssumption ==
    /\ DOMAIN Lines = Headers /\ DOMAIN About = Headers
    /\ \A n \in DOMAIN Facts : Facts[n].kind \in Kinds
    /\ \A h \in Headers :
        /\ Lines[h] \in Seq({Lines[h][k] : k \in DOMAIN Lines[h]})
        /\ About[h].deprecated \in BOOLEAN
        /\ \A k \in DOMAIN Lines[h] :
            /\ Lines[h][k].kind \in LineKinds
            /\ Lines[h][k].kind \in {"declare", "enum start"}
                  => Lines[h][k].of \in DOMAIN Facts
            /\ Lines[h][k].kind = "enum start" => ~Facts[Lines[h][k].of].skip

VARIABLES stack,     \* the active calls of parse_file, the innermost first
          visited,   \* headers opened so far
          infos,     \* what is declared: [il, kind, name, deprecated]
          docs,      \* interface -> its doc: [of: handle, from: header]
          deferred,  \* _deferred_include_enums
          latest     \* api_latest_macros

parserVars == <<stack, visited, infos, docs, deferred, latest>>

Frame(il, h, dep, skip, saved) ==
    [il |-> il, header |-> h, at |-> 1, dep |-> dep, skip |-> skip,
     saved |-> saved]

(* The call parse_file(il, h, ...) when the calls cs are active.           *)
Call(cs, il, h, dep, skip) ==
    /\ stack' = IF h \in visited THEN cs
                ELSE <<Frame(il, h, dep, skip, docs[il])>> \o cs
    /\ visited' = visited \cup {h}

Top == Head(stack)
Line == Lines[Top.header][Top.at]
Advanced == <<[Top EXCEPT !.at = @ + 1]>> \o Tail(stack)
Reading(kind) == /\ stack # <<>> /\ Top.at <= Len(Lines[Top.header])
                 /\ Line.kind = kind

(* infos[il].<kind>[name] = ...: a dictionary, the last declaration wins.  *)
Entry(il, name, dep) ==
    [il |-> il, kind |-> Facts[name].kind, name |-> name, deprecated |-> dep]
Declared(is, il, name, dep) ==
    {i \in is : i.il # il \/ i.name # name} \cup {Entry(il, name, dep)}

-----------------------------------------------------------------------------
(* An #include: not for the header of the whole SDK, not of a common       *)
(* header, not of the types of another interface that has a header of its  *)
(* own, and not of what is not there.                                      *)
IncludedForOthers(f, h) == ~f.skip /\ h \in Headers /\ ~About[h].common \* variant

Included(f, h) ==
    /\ ~f.skip
    /\ h \in Headers
    /\ ~About[h].common
    /\ About[h].main \in Headers => About[About[h].main].il = f.il

Include ==
    /\ Reading("include")
    /\ IF Included(Top, Line.of)
         THEN Call(Advanced, Top.il, Line.of,
                   Top.dep \/ About[Line.of].deprecated, FALSE)
         ELSE stack' = Advanced /\ UNCHANGED visited
    /\ UNCHANGED <<infos, docs, deferred, latest>>

(* The end of a file: an interface doc found in a deprecated include is    *)
(* dropped again.                                                          *)
DocsKept == docs \* variant

DocsAfterReturn ==
    IF Len(stack) > 1 /\ About[Top.header].deprecated
      THEN [docs EXCEPT ![Top.il] = Top.saved] ELSE docs

Return ==
    /\ stack # <<>> /\ Top.at > Len(Lines[Top.header])
    /\ docs' = DocsAfterReturn
    /\ stack' = Tail(stack)
    /\ UNCHANGED <<visited, infos, deferred, latest>>

(* The first comment that is the doc of the interface.                     *)
InterfaceDoc ==
    /\ Reading("interface doc")
    /\ docs' = IF docs[Top.il] # None THEN docs
               ELSE [docs EXCEPT ![Top.il] = [of |-> Line.of, from |-> Top.header]]
    /\ stack' = Advanced
    /\ UNCHANGED <<visited, infos, deferred, latest>>

(* #define EOS_..._API_LATEST                                              *)
ApiLatest ==
    /\ Reading("latest")
    /\ latest' = latest \cup {Line.of}
    /\ stack' = Advanced
    /\ UNCHANGED <<visited, infos, docs, deferred>>

(* _is_deprecated: by the file, by the doc, or by the name; the parser     *)
(* gives handles no deprecation.                                           *)
LineDeprecated(fileDep, l) ==
    /\ Facts[l.of].kind # "handle"
    /\ fileDep \/ l.deprecated \/ Facts[l.of].deprecated

(* A typedef, EOS_ENUM, EOS_DECLARE_FUNC, EOS_DECLARE_CALLBACK, EOS_STRUCT *)
(* or a #define of a constant.                                             *)
Declare ==
    /\ Reading("declare")
    /\ infos' = IF Facts[Line.of].skip THEN infos
                ELSE Declared(infos, Top.il, Line.of,
                              LineDeprecated(Top.dep, Line))
    /\ stack' = Advanced
    /\ UNCHANGED <<visited, docs, deferred, latest>>

(* EOS_ENUM_START: the members come from a file that is read afterwards.   *)
EnumStart ==
    /\ Reading("enum start")
    /\ deferred' = Append(deferred, [il |-> Top.il, name |-> Line.of])
    /\ stack' = Advanced
    /\ UNCHANGED <<visited, infos, docs, latest>>

ParseStep == Include \/ Return \/ InterfaceDoc \/ ApiLatest \/ Declare \/ EnumStart

(* parse_deferred_include_enums: such an enum is never deprecated.         *)
DeferredDeclared ==
    {i \in infos : \A k \in DOMAIN deferred :
                      i.il # deferred[k].il \/ i.name # deferred[k].name}
      \cup {Entry(deferred[k].il, deferred[k].name, FALSE) : k \in DOMAIN deferred}
===============================================================================

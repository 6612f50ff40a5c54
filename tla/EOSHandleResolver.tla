--------------------------- MODULE EOSHandleResolver ---------------------------
(***************************************************************************)
(* parse_all_file of resolver/handle_resolver.py: it parses the headers in *)
(* the order os.listdir gives them and then hands out, pass by pass, what  *)
(* they declare: to the handle, to the structs, to the release methods, or *)
(* to what nobody handles.  The passes are one action each, or one for     *)
(* each interface where the passes loop over them; a KeyError or a failed  *)
(* assertion ends the generator.                                           *)
(***************************************************************************)
EXTENDS EOSHeaderParser, SequencesExt

CONSTANTS SdkHeader,      \* eos_sdk.h, whose includes are skipped
          FirstHeaders,   \* parsed before the listing, in this order
          Unlisted,       \* _SKIP_HEADERS
          ClassOf,        \* interface -> its class, convert_interface_class_name
          HandleOf,       \* class -> the name of its handle, "EOS_H" + class
          SpecialHandle,  \* _INTERFACE_LOWER_TO_HANDLE
          GlobalEnums,    \* _GLOBAL_ENUM_FILES
          GlobalConstants,\* _GLOBAL_CONSTANT_FILES
          Cheats,         \* the special mappings of methods and callbacks, and the
                          \* constants whose prefix _CONSTANT_PREFIX_TO_HANDLE maps
          Words,          \* handle or enum -> the words of its name
          Copies,         \* the callbacks given to a file transfer request
          PresetHandles,  \* the handles of context.py
          Eos, Platform   \* "EOS" and "EOS_HPlatform"

(* Facts of a method: first, the handle that is its first argument; taken, *)
(* the callback it takes; release, whether it is called ..._Release;       *)
(* getter, the class whose instance it gets.  Of a method, a callback and  *)
(* a constant: prefix, the handle its name begins with.                    *)

ASSUME CheatsAssumption == \A n \in DOMAIN Cheats : n \in DOMAIN Facts

VARIABLES phase,       \* the pass that is running
          at,          \* the place of a pass that loops over the interfaces
          ils,         \* the interfaces, in the order they were met
          listed,      \* headers os.listdir has given so far
          interfaces,  \* the classes somebody can get
          extras,      \* extra_handles_methods: <<handle, method>>
          releases,    \* release_methods
          handles,     \* the names of the handles
          owned,       \* <<handle, declaration>>
          documented,  \* the docs that have reached their handle
          gen,         \* generate_infos: <<interface, handle>>
          structs,     \* structs
          routed,      \* enums, constants, ... that have their handle
          unhandled    \* unhandled_methods and the others

vars == <<parserVars, phase, at, ils, listed, interfaces, extras, releases,
          handles, owned, documented, gen, structs, routed, unhandled>>

Kind(n) == Facts[n].kind
Of(il, kind) == {i.name : i \in {j \in infos : j.kind = kind /\ j.il = il}}
All(kind) == {i.name : i \in {j \in infos : j.kind = kind}}
WithoutNone(S) == infos \* variant
Without(S) == {i \in infos : i.name \notin S}
Gone(il, S) == {i \in infos : i.il # il \/ i.name \notin S}

-----------------------------------------------------------------------------
Init ==
    /\ phase = "first" /\ at = 1 /\ ils = <<"common">> /\ listed = {}
    /\ stack = <<>> /\ visited = {} /\ infos = {} /\ deferred = <<>>
    /\ docs = [il \in DOMAIN ClassOf |-> None] /\ latest = {}
    /\ interfaces = {"Platform"}
    /\ extras = {} /\ releases = {} /\ handles = PresetHandles /\ owned = {}
    /\ documented = {} /\ gen = {} /\ structs = {} /\ routed = {}
    /\ unhandled = {}

resolved == <<interfaces, extras, releases, handles, owned, documented, gen,
              structs, routed, unhandled>>

Parse == /\ ParseStep
         /\ UNCHANGED <<phase, at, ils, listed, resolved>>

NotMet(il) == ils' = ils \* variant
Met(il) == ils' = IF \E k \in DOMAIN ils : ils[k] = il THEN ils ELSE Append(ils, il)

(* The types every header includes are parsed first, for their own         *)
(* interfaces; the files are then only found visited.                      *)
ParseFirst ==
    /\ phase = "first" /\ stack = <<>>
    /\ LET h == FirstHeaders[at] IN
       /\ Call(<<>>, About[h].il, h, FALSE, FALSE)
       /\ Met(About[h].il)
    /\ IF at = Len(FirstHeaders) THEN phase' = "list" /\ at' = 1
                                 ELSE at' = at + 1 /\ UNCHANGED phase
    /\ UNCHANGED <<infos, docs, deferred, latest, listed, resolved>>

(* os.listdir gives the headers in any order; of those that are passed     *)
(* over nothing more is said.                                              *)
Listed == {h \in Headers \ Unlisted : About[h].main = None /\ About[h].direct}

ListHeader(h) ==
    /\ phase = "list" /\ stack = <<>> /\ h \in Listed \ listed
    /\ listed' = listed \cup {h}
    /\ Call(<<>>, About[h].il, h, About[h].deprecated, h = SdkHeader)
    /\ Met(About[h].il)
    /\ UNCHANGED <<infos, docs, deferred, latest, phase, at, resolved>>

ParseDeferred ==
    /\ phase = "list" /\ stack = <<>> /\ listed = Listed
    /\ infos' = DeferredDeclared
    /\ deferred' = <<>>
    /\ phase' = "methods"
    /\ UNCHANGED <<stack, visited, docs, latest, at, ils, listed, resolved>>

(* What a pass leaves alone of the parser's state.                         *)
parsed == <<stack, visited, docs, deferred, latest, ils, listed>>

NextPass(next) == /\ phase' = IF at = Len(ils) THEN next ELSE phase
                  /\ at' = IF at = Len(ils) THEN 1 ELSE at + 1

Fail == phase' = "failed"

-----------------------------------------------------------------------------
(* The pass over the methods, for the handles of one interface.            *)
Getters == {m \in All("method") : Facts[m].getter # None}
Mine(il) == {m \in All("method") \ Getters : Facts[m].first \in Of(il, "handle")}
ForeignMethods(il) == \* variant
    {m \in All("method") \ (Getters \cup Mine(il)) : Facts[m].first # None}
ForeignReleases(il) ==
    {m \in All("method") \ (Getters \cup Mine(il)) :
        Facts[m].release /\ Facts[m].first # None}
FreeReleases ==
    {m \in All("method") \ Getters : Facts[m].release /\ Facts[m].first = None}

(* A callback is looked up among those of the interface that declares the  *)
(* method, and taken out: the second method that takes it finds nothing.   *)
CallbackFound(il, m, taking) ==
    /\ Facts[m].first \in Of(il, "handle")
    /\ \E i \in infos : i.name = m /\ Facts[m].taken \in Of(i.il, "callback")
    /\ \A n \in taking \ {m} : Facts[n].taken # Facts[m].taken

RouteMethods ==
    /\ phase = "methods"
    /\ LET il == ils[at]
           mine == Mine(il)
           foreign == ForeignReleases(il)
           getters == Getters
           free == FreeReleases
           taking == {m \in mine \cup foreign : Facts[m].taken # None}
           moved == {<<Facts[m].first, Facts[m].taken>> : m \in taking}
       IN IF \/ \E m \in taking : ~CallbackFound(il, m, taking)
             \/ docs[il] # None /\ docs[il].of \notin Of(il, "handle") \cup handles
            THEN Fail /\ UNCHANGED <<parserVars, at, ils, listed, resolved>>
            ELSE
            /\ interfaces' = interfaces \cup {Facts[m].getter : m \in getters}
            /\ extras' = extras \cup {<<Facts[m].first, m>> : m \in getters \cup foreign}
            /\ owned' = owned \cup {<<Facts[m].first, m>> : m \in mine} \cup moved
            /\ releases' = releases \cup free
            /\ infos' = Without(getters \cup mine \cup foreign \cup free
                                  \cup {p[2] : p \in moved})
            /\ documented' = IF docs[il] = None THEN documented
                             ELSE {d \in documented : d.of # docs[il].of}
                                     \cup {docs[il]}
            /\ docs' = [docs EXCEPT ![il] = None]
            /\ NextPass("merge")
            /\ UNCHANGED <<stack, visited, deferred, latest, ils, listed, handles,
                           gen, structs, routed, unhandled>>

(* The handles of all interfaces become those of the context.              *)
MergeHandles ==
    /\ phase = "merge"
    /\ gen' = {<<i.il, i.name>> : i \in {j \in infos : j.kind = "handle"}}
              \cup {<<"common", Eos>>}
              \cup {<<il, SpecialHandle[il]>> : il \in DOMAIN SpecialHandle}
    /\ handles' = handles \cup All("handle")
    /\ infos' = Without(All("handle"))
    /\ phase' = "structs"
    /\ UNCHANGED <<parsed, at, interfaces, extras, releases, owned, documented,
                   structs, routed, unhandled>>

RouteStructs ==
    /\ phase = "structs"
    /\ structs' = structs \cup All("struct")
    /\ infos' = Without(All("struct"))
    /\ phase' = "enum"
    /\ UNCHANGED <<parsed, at, interfaces, extras, releases, handles, owned,
                   documented, gen, routed, unhandled>>

-----------------------------------------------------------------------------
(* _route_by_interface: the enums, then the constants, of an interface     *)
(* whose class somebody can get, or that has a special handle.             *)
RouteTargetOwn(il, kind) == \* variant
    CASE ClassOf[il] \in interfaces -> <<il, HandleOf[ClassOf[il]]>>
      [] il \in DOMAIN SpecialHandle -> <<il, SpecialHandle[il]>>
      [] OTHER -> None

RouteTarget(il, kind) ==
    LET global == IF kind = "constant" THEN GlobalConstants ELSE GlobalEnums
    IN CASE ClassOf[il] \in interfaces /\ il \in global -> <<"common", Eos>>
         [] ClassOf[il] \in interfaces /\ il \notin global
              -> <<il, HandleOf[ClassOf[il]]>>
         [] ClassOf[il] \notin interfaces /\ il \in DOMAIN SpecialHandle
                /\ SpecialHandle[il] \in handles -> <<il, SpecialHandle[il]>>
         [] OTHER -> None

RouteByInterface(kind) ==
    /\ phase = kind
    /\ LET il == ils[at]
           target == RouteTarget(il, kind)
           new == Of(il, kind) \ routed
       IN IF Of(il, kind) = {} \/ target = None
            THEN NextPass(IF kind = "enum" THEN "constant" ELSE "cheat method")
                 /\ UNCHANGED <<owned, routed, infos>>
            ELSE IF new # {} /\ target \notin gen
            THEN Fail /\ UNCHANGED <<at, owned, routed, infos>>
            ELSE /\ owned' = owned \cup {<<target[2], n>> : n \in new}
                 /\ routed' = routed \cup new
                 /\ infos' = Gone(il, Of(il, kind))
                 /\ NextPass(IF kind = "enum" THEN "constant" ELSE "cheat method")
    /\ UNCHANGED <<parsed, interfaces, extras, releases, handles, documented,
                   gen, structs, unhandled>>

(* _find_handle_by_prefix and, for an enum, the handle whose words are the *)
(* longest beginning of its own.                                           *)
ByPrefix(n) == IF Facts[n].prefix \in handles THEN Facts[n].prefix ELSE Eos
Beginning(n) == {h \in handles \ {Eos} : IsPrefix(Words[h], Words[n])}
LongestOf(H) == CHOOSE h \in H : \A g \in H : Len(Words[g]) <= Len(Words[h])
ByWords(n) == IF Beginning(n) = {} THEN Eos ELSE LongestOf(Beginning(n))

(* The _cheat_as_handle_... of each kind; a constant without a prefix has  *)
(* no handle.                                                              *)
CheatAs(n) == CASE n \in DOMAIN Cheats -> Cheats[n]
                [] Kind(n) = "enum" -> ByWords(n)
                [] Kind(n) = "constant" /\ Facts[n].prefix = None -> None
                [] OTHER -> ByPrefix(n)

CheatPass == [method |-> "cheat method", enum |-> "cheat enum",
              callback |-> "cheat callback", constant |-> "cheat constant"]
AfterCheat(kind) == CASE kind = "method" -> "cheat enum"
                      [] kind = "enum" -> "platform enums"
                      [] kind = "callback" -> "cheat constant"
                      [] OTHER -> "copies"

RouteByCheat(kind) ==
    /\ phase = CheatPass[kind]
    /\ LET il == ils[at]
           new == {n \in Of(il, kind) \ routed : CheatAs(n) # None}
       IN IF \E n \in new : CheatAs(n) \notin handles
            THEN Fail /\ UNCHANGED <<at, owned, routed, infos>>
            ELSE /\ owned' = owned \cup {<<CheatAs(n), n>> : n \in new}
                 /\ routed' = routed \cup new
                 /\ infos' = Gone(il, new \cup (Of(il, kind) \cap routed))
                 /\ NextPass(AfterCheat(kind))
    /\ UNCHANGED <<parsed, interfaces, extras, releases, handles, documented,
                   gen, structs, unhandled>>

(* Enums of the platform's handle whose name says another handle.          *)
PlatformEnums ==
    /\ phase = "platform enums"
    /\ LET moving == {p \in owned : /\ p[1] = Platform /\ Kind(p[2]) = "enum"
                                    /\ ByWords(p[2]) # Platform}
       IN IF Platform \notin handles
            THEN Fail /\ UNCHANGED owned
            ELSE /\ owned' = (owned \ moving) \cup {<<ByWords(p[2]), p[2]>> : p \in moving}
                 /\ phase' = "extras"
    /\ UNCHANGED <<parsed, infos, at, interfaces, extras, releases, handles,
                   documented, gen, structs, routed, unhandled>>

AddExtras ==
    /\ phase = "extras"
    /\ IF \E p \in extras : p[1] \notin handles
         THEN Fail /\ UNCHANGED owned
         ELSE owned' = owned \cup extras /\ phase' = "cheat callback"
    /\ UNCHANGED <<parsed, infos, at, interfaces, extras, releases, handles,
                   documented, gen, structs, routed, unhandled>>

(* The callbacks of the file transfers are also given to the requests.     *)
CopyCallbacks ==
    /\ phase = "copies"
    /\ IF \E c \in Copies : c.to \notin handles \/ <<c.from, c.callback>> \notin owned
         THEN Fail /\ UNCHANGED owned
         ELSE /\ owned' = owned \cup {<<c.to, c.callback>> : c \in Copies}
              /\ phase' = "unhandled"
    /\ UNCHANGED <<parsed, infos, at, interfaces, extras, releases, handles,
                   documented, gen, structs, routed, unhandled>>

(* _collect_unhandled: what is left.                                       *)
CollectUnhandled ==
    /\ phase = "unhandled"
    /\ unhandled' = {i.name : i \in infos}
    /\ infos' = {}
    /\ phase' = "done"
    /\ UNCHANGED <<parsed, at, interfaces, extras, releases, handles, owned,
                   documented, gen, structs, routed>>

(* The generator goes on with what it resolved, or has stopped.            *)
Finished == phase \in {"done", "failed"} /\ UNCHANGED vars

Next == \/ Parse \/ ParseFirst \/ (\E h \in Headers : ListHeader(h)) \/ ParseDeferred
        \/ RouteMethods \/ MergeHandles \/ RouteStructs
        \/ (\E k \in {"enum", "constant"} : RouteByInterface(k))
        \/ (\E k \in {"method", "enum", "callback", "constant"} : RouteByCheat(k))
        \/ PlatformEnums \/ AddExtras \/ CopyCallbacks \/ CollectUnhandled
        \/ Finished

Spec == Init /\ [][Next]_vars

-----------------------------------------------------------------------------
(* What the declarations say, whatever the order: the reference the passes *)
(* are compared with.                                                      *)

Says(h, kind) == {l.of : l \in {k \in Range(Lines[h]) : k.kind = kind}}
StandsAlone(h) ==
    h \in Range(FirstHeaders) \/ h \in Listed
Includers(h) ==
    {g \in Headers \ {SdkHeader} :
        /\ h \in Says(g, "include")
        /\ ~About[h].common
        /\ About[h].main \in Headers => About[h].main = g}

(* The headers on the way to h, the one through which it is read, and      *)
(* whether it is then deprecated.                                          *)
Way[h \in Headers] ==
    IF StandsAlone(h) \/ Includers(h) = {} THEN {h}
    ELSE {h} \cup Way[CHOOSE g \in Includers(h) : TRUE]

Read == {h \in Headers : \E r \in Way[h] : StandsAlone(r)}
Reader(h) == CHOOSE r \in Way[h] : StandsAlone(r)
ReadFor(h) == About[Reader(h)].il
Old(h) == \E g \in Way[h] \ Range(FirstHeaders) : About[g].deprecated

Kept(h) == {l \in Range(Lines[h]) :
              l.kind \in {"declare", "enum start"} /\ ~Facts[l.of].skip}
Expected ==
    UNION {{Entry(ReadFor(h), l.of, l.kind = "declare" /\ LineDeprecated(Old(h), l)) :
               l \in Kept(h)} : h \in Read}
Names == {i.name : i \in Expected}
IlOf(n) == (CHOOSE i \in Expected : i.name = n).il
AllHandles == PresetHandles \cup {n \in Names : Kind(n) = "handle"}
AllGetters == {n \in Names : Kind(n) = "method" /\ Facts[n].getter # None}
AllClasses == {"Platform"} \cup {Facts[m].getter : m \in AllGetters}
HandlesOf(il) == {i.name : i \in {j \in Expected : j.kind = "handle" /\ j.il = il}}
DocsIn(h) == Says(h, "interface doc")
OwnDocs == UNION {{[of |-> h, from |-> g] : h \in DocsIn(g)} :
                     g \in {f \in Read : ~Old(f)}}

(* What the code counts on in the SDK's headers.  They are included in no  *)
(* cycle, and what is not read for itself is included by one header only   *)
(* ("This file is not intended to be included directly"); the types of an  *)
(* interface by its own header.  A header with an interface of its own is  *)
(* included by eos_sdk.h alone, whose includes are skipped, and the first  *)
(* headers do not include each other.  A name is declared once, as C wants *)
(* it, and a callback is taken by one method, as convert_to_signal_name    *)
(* asserts.                                                                *)
ASSUME ListingAssumption ==
    /\ FirstHeaders \in Seq(Headers) /\ FirstHeaders # <<>>
    /\ SdkHeader \in Listed \ Range(FirstHeaders)
    /\ "common" \in DOMAIN ClassOf /\ \A h \in Headers : About[h].il \in DOMAIN ClassOf

ASSUME OneReader ==
    \A h \in Headers : StandsAlone(h) \/ \A f, g \in Includers(h) : f = g

ASSUME NoCycle ==
    LET dependent == {h \in Headers : ~StandsAlone(h)}
    IN \A H \in SUBSET dependent : H # {} => \E h \in H : Includers(h) \cap H = {}

ASSUME IncludesAssumption ==
    /\ \A h \in Listed : Includers(h) = {}
    /\ \A h \in Range(FirstHeaders) : \A g \in Includers(h) :
          ~\E r \in Way[g] : r \in Range(FirstHeaders)
    /\ \A g \in Read : \A h \in Says(g, "include") \cap Headers :
          About[h].main \in Headers =>
            /\ StandsAlone(About[h].main)
            /\ About[About[h].main].il = ReadFor(g) => About[h].main = g

ASSUME DeclaredOnce == \A i, j \in Expected : i.name = j.name => i = j

ASSUME OneTaker == \A m, n \in {x \in DOMAIN Facts : Kind(x) = "method"} :
    m # n /\ Facts[m].taken # None => Facts[m].taken # Facts[n].taken

Prefixed(n) == IF Facts[n].prefix \in AllHandles THEN Facts[n].prefix ELSE Eos
ByClass(n, global, otherwise) ==
    LET il == IlOf(n) IN
    IF ClassOf[il] \in AllClasses
      THEN IF il \in global THEN Eos ELSE HandleOf[ClassOf[il]]
    ELSE IF il \in DOMAIN SpecialHandle THEN SpecialHandle[il] ELSE otherwise
Longest(n) ==
    LET H == {h \in AllHandles \ {Eos} : IsPrefix(Words[h], Words[n])}
    IN IF H = {} THEN Eos ELSE LongestOf(H)
Special(n) == IF n \in DOMAIN Cheats THEN Cheats[n] ELSE Prefixed(n)

(* A method belongs to the handle it is called with, a callback to that of *)
(* the method that takes it, an enum or a constant to the interface that   *)
(* declares it; what none of this places goes by its name.                 *)
OwnerOf ==
    [n \in Names |->
       CASE Kind(n) \in {"struct", "handle"} -> Kind(n)
         [] Kind(n) = "method" ->
              IF Facts[n].first \in AllHandles THEN Facts[n].first
              ELSE IF Facts[n].release THEN "release" ELSE Special(n)
         [] Kind(n) = "callback" ->
              LET M == {m \in Names : Kind(m) = "method" /\ Facts[m].taken = n
                                        /\ Facts[m].first \in AllHandles}
              IN IF M # {} THEN Facts[CHOOSE m \in M : TRUE].first ELSE Special(n)
         [] Kind(n) = "enum" -> ByClass(n, GlobalEnums, Longest(n))
         [] Kind(n) = "constant" ->
              ByClass(n, GlobalConstants,
                      IF Facts[n].prefix = None THEN "unhandled" ELSE Special(n))]

(* What the passes count on in what is declared, and in their own tables.  *)
(* The handles of context.py are not declared, and no method is called     *)
(* with one.  A getter or a release takes no callback; a callback is       *)
(* declared beside the method that takes it.  An interface that can be got *)
(* declares its handle; the platform's enums are global.  A copied         *)
(* callback belongs to the handle it is copied from.  An interface has one *)
(* doc, which names a handle of its own, and a deprecated one only in a    *)
(* file it includes.                                                       *)
ASSUME NoneAssumption ==
    None \notin Names \cup AllHandles \cup {"handle", "struct", "release", "unhandled"}
                 \cup ((DOMAIN ClassOf) \X AllHandles) \cup OwnDocs

ASSUME HandlesAssumption ==
    /\ IsFiniteSet(Headers) /\ IsFiniteSet(PresetHandles)
    /\ \A h \in AllHandles \ {Eos} : Words[h] \in Seq(Range(Words[h]))
    /\ Eos \in PresetHandles /\ Names \cap PresetHandles = {}
    /\ Platform \in AllHandles \ {Eos}
    /\ \A il \in DOMAIN SpecialHandle : SpecialHandle[il] \in AllHandles \ {Platform}
    /\ \A n \in Names \cap DOMAIN Cheats :
          /\ Kind(n) \in {"method", "callback", "constant"} /\ Cheats[n] \in AllHandles
          /\ Kind(n) = "constant" => Facts[n].prefix # None

ASSUME MethodsAssumption ==
    \A m \in {n \in Names : Kind(n) = "method"} :
      /\ Facts[m].first \in {None} \cup (AllHandles \ PresetHandles)
      /\ Facts[m].release => Facts[m].taken = None
      /\ Facts[m].getter # None => Facts[m].first # None /\ Facts[m].taken = None
      /\ Facts[m].first # None /\ Facts[m].taken # None =>
            /\ Facts[m].taken \in Names /\ Kind(Facts[m].taken) = "callback"
            /\ IlOf(Facts[m].taken) = IlOf(m)

ASSUME InterfacesAssumption ==
    \A e \in Expected :
      e.kind \in {"enum", "constant"} /\ ClassOf[e.il] \in AllClasses =>
        LET global == IF e.kind = "enum" THEN GlobalEnums ELSE GlobalConstants
        IN \/ e.il \in global
           \/ /\ HandleOf[ClassOf[e.il]] \in HandlesOf(e.il)
              /\ e.kind = "enum" => HandleOf[ClassOf[e.il]] # Platform

ASSUME CopiesAssumption ==
    \A c \in Copies : /\ c.to \in AllHandles \ {c.from} /\ c.callback \in Names
                      /\ Kind(c.callback) = "callback" /\ OwnerOf[c.callback] = c.from

ASSUME DocsAssumption ==
    /\ \A d \in OwnDocs :
          /\ d.of \in HandlesOf(ReadFor(d.from)) \cup PresetHandles
          /\ \A c \in OwnDocs :
                c.of = d.of \/ ReadFor(c.from) = ReadFor(d.from) => c = d
    /\ \A g \in Read : Old(g) /\ DocsIn(g) # {} => ~Old(Reader(g))

CopyPairs == {<<c.to, c.callback>> : c \in Copies}

(* Where a declaration is while the passes run.                            *)
owner ==
    [n \in Names |->
       IF \E p \in owned \ CopyPairs : p[2] = n
         THEN (CHOOSE p \in owned \ CopyPairs : p[2] = n)[1]
       ELSE CASE n \in handles -> "handle"
              [] n \in structs -> "struct"
              [] n \in releases -> "release"
              [] n \in unhandled -> "unhandled"
              [] OTHER -> None]

Ownership == INSTANCE EOSOwnership WITH owner <- owner, Names <- Names,
                                        OwnerOf <- OwnerOf, Nobody <- None

-----------------------------------------------------------------------------
(* The variables hold what they are for: interfaces and headers that       *)
(* exist, declarations under an interface that was met.                    *)
TypeOK ==
    /\ phase \in {"first", "list", "methods", "merge", "structs", "enum", "constant",
                  "cheat method", "cheat enum", "platform enums", "extras",
                  "cheat callback", "cheat constant", "copies", "unhandled",
                  "done", "failed"}
    /\ visited \subseteq Headers /\ listed \subseteq Headers
    /\ at \in DOMAIN (IF phase = "first" THEN FirstHeaders ELSE ils)
    /\ \A i \in infos : i.il \in Range(ils) /\ i.name \in DOMAIN Facts
    /\ \A p \in owned : p[2] \in DOMAIN Facts

(* In whatever order the directory lists the headers, and whoever includes *)
(* them, every declaration is read, once, for the interface whose header   *)
(* it belongs to, and is deprecated exactly if it, its name or a file on   *)
(* the way to it is.                                                       *)
ReadAsDeclared == phase = "methods" /\ at = 1 => infos = Expected

(* Resolving implements EOSOwnership: each declaration gets the owner it   *)
(* asks for, in one step, and never changes it, not even in the pass that  *)
(* takes enums away from the platform.                                     *)
Owned == Ownership!Spec

(* Nothing is handed to two owners, except the three callbacks the file    *)
(* transfer requests share with their interface, and in the end nothing is *)
(* left without one.                                                       *)
OwnedOnce ==
    /\ Cardinality({p[2] : p \in owned \ CopyPairs}) = Cardinality(owned \ CopyPairs)
    /\ phase = "done" => None \notin {owner[n] : n \in Names}

(* No lookup fails and no assertion stops the generator, whatever the      *)
(* order of the headers.                                                   *)
NeverFails == phase # "failed"

(* The documentation of an interface ends at its handle, and it is the     *)
(* interface's own, not what a deprecated header it includes has to say.   *)
DocsAtHandles == phase = "done" => documented = OwnDocs
===============================================================================

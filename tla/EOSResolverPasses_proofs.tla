----------------------- MODULE EOSResolverPasses_proofs -----------------------
(***************************************************************************)
(* Theorems about the passes of parse_all_file: for any SDK of the kind    *)
(* the assumptions of EOSHandleResolver describe, no pass fails, and each  *)
(* declaration ends, once, with the owner its declaration asks for.        *)
(***************************************************************************)
EXTENDS EOSHandleResolver_proofs, FiniteSetTheorems

-----------------------------------------------------------------------------
(* The passes, by their number.                                            *)
PassNumber(p) ==
    CASE p = "methods" -> 1 [] p = "merge" -> 2 [] p = "structs" -> 3
      [] p = "enum" -> 4 [] p = "constant" -> 5 [] p = "cheat method" -> 6
      [] p = "cheat enum" -> 7 [] p = "platform enums" -> 8
      [] p = "extras" -> 9 [] p = "cheat callback" -> 10
      [] p = "cheat constant" -> 11 [] p = "copies" -> 12
      [] p = "unhandled" -> 13 [] p = "done" -> 14
      [] OTHER -> 0
Pass == PassNumber(phase)

(* Pass r has been over the interface il.                                  *)
Passed(r, il) == \/ Pass > r
                 \/ Pass = r /\ \E k \in DOMAIN ils : k < at /\ ils[k] = il

Methods == {n \in Names : Kind(n) = "method"}
Left == {i.name : i \in infos}
Right(n) == <<OwnerOf[n], n>>
Placed(n) == Right(n) \in owned \/ n \in handles \cup structs \cup releases \cup unhandled
AllGen == {<<i.il, i.name>> : i \in {j \in Expected : j.kind = "handle"}}
              \cup {<<"common", Eos>>}
              \cup {<<il, SpecialHandle[il]>> : il \in DOMAIN SpecialHandle}
Unclaimed(il) == ClassOf[il] \notin AllClasses /\ il \notin DOMAIN SpecialHandle

(* What the passes look things up in.                                      *)
Tables ==
    /\ \A e \in Expected : e.il \in Range(ils)
    /\ Pass \in {2, 3, 8, 9, 12, 13, 14} => at = 1
    /\ handles = IF Pass <= 2 THEN PresetHandles ELSE AllHandles
    /\ interfaces \cup {Facts[m].getter : m \in Getters} = AllClasses
    /\ Pass > 2 => gen = AllGen

(* What has been handed out has the owner its declaration asks for.        *)
RightOwners ==
    /\ \A p \in extras : /\ p[2] \in Methods /\ Facts[p[2]].first \in AllHandles
                         /\ p = <<Facts[p[2]].first, p[2]>>
    /\ \A p \in owned : p \in CopyPairs \/ (p[2] \in Names /\ p = Right(p[2]))
    /\ \A n \in structs : n \in Names /\ Kind(n) = "struct"
    /\ \A n \in releases : n \in Methods /\ OwnerOf[n] = "release"
    /\ \A n \in unhandled : n \in Names /\ OwnerOf[n] = "unhandled" /\ Pass = 14

NothingLost ==
    \A n \in Names : n \in Left \/ Placed(n) \/ (Pass <= 9 /\ \E p \in extras : p[2] = n)

(* What is left has not been placed by any of the passes that are over.    *)
MethodWaits(n, x) ==
    Facts[n].getter = None /\ ~Facts[n].release /\ Facts[n].first \notin HandlesOf(x)
CallbackWaits(n, x) ==
    \A m \in Methods : Facts[m].taken = n => Facts[m].first \notin HandlesOf(x)
Waits(i) ==
    /\ i.kind = "handle" => Pass <= 2
    /\ i.kind = "struct" => Pass <= 3
    /\ i.kind = "enum" => (Passed(4, i.il) => Unclaimed(i.il)) /\ ~Passed(7, i.il)
    /\ i.kind = "constant" =>
         /\ Passed(5, i.il) => Unclaimed(i.il)
         /\ Passed(11, i.il) => Facts[i.name].prefix = None
    /\ i.kind = "method" =>
         /\ \A x \in Range(ils) : Passed(1, x) => MethodWaits(i.name, x)
         /\ ~Passed(6, i.il)
    /\ i.kind = "callback" =>
         /\ \A x \in Range(ils) : Passed(1, x) => CallbackWaits(i.name, x)
         /\ ~Passed(10, i.il)

(* Methods and the callbacks they take go together; in the end nothing is  *)
(* left.                                                                   *)
Unmoved ==
    /\ Pass <= 2 => \A e \in Expected : e.kind = "handle" => e \in infos
    /\ Pass = 1 => \A m \in Methods : Facts[m].first # None /\ Facts[m].taken # None =>
                      (m \in Left <=> Facts[m].taken \in Left)
    /\ Pass = 14 => infos = {}

DocsPassed ==
    /\ documented \subseteq OwnDocs
    /\ \A il \in DOMAIN ClassOf :
         docs[il] # None => docs[il] \in OwnDocs /\ ReadFor(docs[il].from) = il
    /\ \A d \in OwnDocs :
         /\ ReadFor(d.from) \in Range(ils)
         /\ d \in documented \/ (docs[ReadFor(d.from)] = d /\ ~Passed(1, ReadFor(d.from)))

PassInv ==
    /\ Pass >= 1 /\ infos \subseteq Expected /\ routed \cap Left = {}
    /\ Tables /\ RightOwners /\ NothingLost /\ (\A i \in infos : Waits(i))
    /\ Unmoved /\ DocsPassed

Fresh ==
    /\ phase = "list" => at = 1
    /\ interfaces = {"Platform"} /\ extras = {} /\ releases = {} /\ handles = PresetHandles
    /\ owned = {} /\ documented = {} /\ structs = {} /\ routed = {} /\ unhandled = {}

ResolvedInv == IF phase \in {"first", "list"} THEN Fresh ELSE PassInv

-----------------------------------------------------------------------------
(* What is declared, and who it asks for.                                  *)

LEMMA ExpectedFacts ==
  ASSUME NEW e \in Expected
  PROVE  /\ e.kind = Kind(e.name) /\ e.name \in Names /\ IlOf(e.name) = e.il
         /\ e.name \in DOMAIN Facts
  <1>0. PICK h \in Read : \E l \in Kept(h) : e = EntryOf(h, l)
    <2>. DEFINE declares(x) == {EntryOf(x, m) : m \in Kept(x)}
    <2>1. Expected = UNION {declares(x) : x \in Read}
      BY Zenon DEF Expected, EntryOf
    <2>2. PICK h \in Read : e \in declares(h)
      <3>. HIDE DEF declares
      <3>. QED  BY <2>1
    <2>. QED  BY <2>2
  <1>1. PICK l \in Kept(h) : e = EntryOf(h, l)
    BY <1>0
  <1>2. e.kind = Kind(e.name) /\ e.name = l.of
    BY <1>1, EntryFields DEF EntryOf
  <1>3. e.name \in Names
    BY DEF Names
  <1>4. IlOf(e.name) = e.il
    <2>1. \A i \in Expected : i.name = e.name => i = e
      BY DeclaredOnce
    <2>. QED  BY <2>1 DEF IlOf
  <1>5. l.of \in DOMAIN Facts
    <2>1. h \in Headers
      BY DEF Read
    <2>2. PICK k \in DOMAIN Lines[h] : l = Lines[h][k]
      BY DEF Kept, Range
    <2>. QED  BY <2>1, <2>2, LinesAssumption DEF Kept
  <1>. QED  BY <1>2, <1>3, <1>4, <1>5

LEMMA NameDeclared ==
  ASSUME NEW n \in Names
  PROVE  \E e \in Expected : e.name = n /\ e.il = IlOf(n) /\ e.kind = Kind(n)
  <1>1. PICK e \in Expected : e.name = n
    BY DEF Names
  <1>. QED  BY <1>1, ExpectedFacts

LEMMA NamesHaveKinds ==
  ASSUME NEW n \in Names
  PROVE  n \in DOMAIN Facts
         /\ Kind(n) \in {"handle", "struct", "enum", "method", "callback", "constant"}
  <1>1. PICK e \in Expected : e.name = n
    BY DEF Names
  <1>2. n \in DOMAIN Facts
    BY <1>1, ExpectedFacts
  <1>. QED  BY <1>2, LinesAssumption DEF Kind, Kinds

LEMMA HandleNames ==
  /\ \A il : HandlesOf(il) \subseteq {n \in Names : Kind(n) = "handle"}
  /\ \A il : HandlesOf(il) \subseteq AllHandles \ PresetHandles
  /\ \A h \in AllHandles \ PresetHandles : \E e \in Expected :
        e.kind = "handle" /\ e.name = h /\ h \in HandlesOf(e.il)
  /\ \A n \in Names : n \in AllHandles <=> Kind(n) = "handle"
  /\ \A e \in Expected : e.kind = "handle" => e.name \in HandlesOf(e.il)
  <1>1. \A e \in Expected : e.kind = "handle" => e.name \in HandlesOf(e.il)
    BY DEF HandlesOf
  <1>2. \A il : HandlesOf(il) \subseteq {n \in Names : Kind(n) = "handle"}
    BY ExpectedFacts DEF HandlesOf
  <1>3. \A n \in Names : n \in AllHandles <=> Kind(n) = "handle"
    BY HandlesAssumption DEF AllHandles
  <1>4. \A n \in Names : n \notin PresetHandles
    BY HandlesAssumption
  <1>5. \A h \in AllHandles \ PresetHandles : h \in Names /\ Kind(h) = "handle"
    BY DEF AllHandles
  <1>6. \A h \in AllHandles \ PresetHandles : \E e \in Expected :
           e.kind = "handle" /\ e.name = h /\ h \in HandlesOf(e.il)
    BY <1>1, <1>5, NameDeclared
  <1>. QED  BY <1>1, <1>2, <1>3, <1>4, <1>6

LEMMA OntoFinite ==
  ASSUME NEW S, NEW T, IsFiniteSet(S), NEW f \in [S -> T], \A t \in T : \E x \in S : f[x] = t
  PROVE  IsFiniteSet(T)
  <1>1. f \in Surjection(S, T)
    BY DEF Surjection
  <1>. QED  BY <1>1, FS_Surjection

LEMMA NamesFinite == IsFiniteSet(Names) /\ IsFiniteSet(AllHandles)
  <1>. DEFINE lines(h) == {Lines[h][k] : k \in DOMAIN Lines[h]}
              entries(h) == {EntryOf(h, l) : l \in Kept(h)}
  <1>1. IsFiniteSet(Read)
    BY HandlesAssumption, FS_Subset DEF Read
  <1>2. ASSUME NEW h \in Read PROVE IsFiniteSet(entries(h))
    <2>1. Lines[h] \in Seq(lines(h)) /\ h \in Headers
      BY LinesAssumption DEF Read
    <2>2. DOMAIN Lines[h] = 1 .. Len(Lines[h]) /\ Len(Lines[h]) \in Nat
      BY <2>1
    <2>3. IsFiniteSet(DOMAIN Lines[h])
      BY <2>2, FS_Interval
    <2>4. IsFiniteSet(lines(h))
      <3>. DEFINE f == [k \in DOMAIN Lines[h] |-> Lines[h][k]]
      <3>1. f \in [DOMAIN Lines[h] -> lines(h)]
        OBVIOUS
      <3>2. \A t \in lines(h) : \E k \in DOMAIN Lines[h] : f[k] = t
        BY Zenon
      <3>. HIDE DEF f, lines
      <3>. QED  BY <2>3, <3>1, <3>2, OntoFinite
    <2>5. Kept(h) \in SUBSET lines(h)
      BY DEF Kept, Range
    <2>6. IsFiniteSet(Kept(h))
      BY <2>4, <2>5, FS_Subset
    <2>. DEFINE f == [l \in Kept(h) |-> EntryOf(h, l)]
    <2>7. f \in [Kept(h) -> entries(h)]
      OBVIOUS
    <2>8. \A t \in entries(h) : \E l \in Kept(h) : f[l] = t
      BY Zenon
    <2>. HIDE DEF f, entries
    <2>. QED  BY <2>6, <2>7, <2>8, OntoFinite
  <1>3. Expected = UNION {entries(h) : h \in Read}
    BY Zenon DEF Expected, EntryOf
  <1>4. IsFiniteSet({entries(h) : h \in Read})
    <2>. HIDE DEF entries
    <2>. DEFINE f == [h \in Read |-> entries(h)]
                T == {entries(h) : h \in Read}
    <2>1. f \in [Read -> T]
      OBVIOUS
    <2>2. \A t \in T : \E h \in Read : f[h] = t
      BY Zenon
    <2>. HIDE DEF f, T
    <2>3. IsFiniteSet(T)
      BY <1>1, <2>1, <2>2, OntoFinite
    <2>. QED  BY <2>3 DEF T
  <1>5. IsFiniteSet(Expected)
    <2>. HIDE DEF entries
    <2>1. \A T \in {entries(h) : h \in Read} : IsFiniteSet(T)
      BY <1>2
    <2>. QED  BY <1>3, <1>4, <2>1, FS_UNION
  <1>6. IsFiniteSet(Names)
    <2>1. [e \in Expected |-> e.name] \in [Expected -> Names]
      BY DEF Names
    <2>2. \A n \in Names : \E e \in Expected : [i \in Expected |-> i.name][e] = n
      BY DEF Names
    <2>. QED  BY <1>5, <2>1, <2>2, OntoFinite
  <1>7. IsFiniteSet({n \in Names : Kind(n) = "handle"})
    BY <1>6, FS_Subset
  <1>. QED  BY <1>6, <1>7, HandlesAssumption, FS_Union DEF AllHandles

(* Of handles one has a name as long as any other's.                       *)
LEMMA LongestIs ==
  ASSUME NEW H, H \subseteq AllHandles \ {Eos}, H # {}
  PROVE  LongestOf(H) \in H
  <1>. DEFINE long(g) == Len(Words[g])
              longer(g) == {h \in H : long(h) > long(g)}
              F == {longer(g) : g \in H}
  <1>1. \A g \in H : long(g) \in Nat
    BY HandlesAssumption
  <1>2. IsFiniteSet(H)
    BY NamesFinite, FS_Subset
  <1>3. IsWellFoundedOn(StrictSubsetOrdering(H), FiniteSubsetsOf(H))
    BY FS_StrictSubsetOrderingWellFounded
  <1>4. F \subseteq FiniteSubsetsOf(H) /\ F # {} /\ F \subseteq SUBSET H
    <2>1. FiniteSubsetsOf(H) = SUBSET H
      BY <1>2, FS_FiniteSubsetsOfFinite
    <2>2. \A g \in H : longer(g) \in SUBSET H
      OBVIOUS
    <2>. HIDE DEF longer
    <2>. QED  BY <2>1, <2>2
  <1>. HIDE DEF F
  <1>5. PICK x \in F : \A y \in F : ~(<<y, x>> \in StrictSubsetOrdering(H))
    BY <1>3, <1>4, WFMin
  <1>6. PICK g \in H : x = longer(g)
    BY DEF F
  <1>7. ASSUME NEW h \in H PROVE long(h) <= long(g)
    <2>. SUFFICES ASSUME long(h) > long(g) PROVE FALSE
      BY <1>1
    <2>1. longer(h) \in F /\ longer(g) \in F
      BY DEF F
    <2>2. longer(h) \subseteq longer(g) /\ h \in longer(g) /\ h \notin longer(h)
      BY <1>1
    <2>. HIDE DEF longer
    <2>3. <<longer(h), longer(g)>> \in StrictSubsetOrdering(H)
      BY <2>1, <2>2, <1>4 DEF StrictSubsetOrdering
    <2>. QED  BY <2>1, <2>3, <1>5, <1>6
  <1>. QED  BY <1>7 DEF LongestOf

LEMMA PrefixedIsHandle ==
  ASSUME NEW n
  PROVE  Prefixed(n) \in AllHandles /\ Longest(n) \in AllHandles
  <1>1. Eos \in AllHandles
    BY HandlesAssumption DEF AllHandles
  <1>. DEFINE H == {h \in AllHandles \ {Eos} : IsPrefix(Words[h], Words[n])}
  <1>2. H # {} => LongestOf(H) \in H
    BY LongestIs
  <1>3. Longest(n) = IF H = {} THEN Eos ELSE LongestOf(H)
    BY DEF Longest
  <1>. HIDE DEF H
  <1>4. H \subseteq AllHandles
    BY DEF H
  <1>. QED  BY <1>1, <1>2, <1>3, <1>4 DEF Prefixed

(* What OwnerOf is for each kind of declaration.                           *)
LEMMA OwnerOfMethod ==
  ASSUME NEW m \in Methods
  PROVE  /\ m \in DOMAIN Facts
         /\ OwnerOf[m] = IF Facts[m].first \in AllHandles THEN Facts[m].first
                         ELSE IF Facts[m].release THEN "release" ELSE Special(m)
  <1>1. m \in Names /\ Kind(m) = "method" /\ m \in DOMAIN Facts
    BY NamesHaveKinds DEF Methods
  <1>. QED  BY <1>1 DEF OwnerOf

LEMMA OwnerOfCallback ==
  ASSUME NEW n \in Names, Kind(n) = "callback"
  PROVE  /\ \A m \in Methods : Facts[m].taken = n /\ Facts[m].first \in AllHandles
              => OwnerOf[n] = Facts[m].first
         /\ (\A m \in Methods : Facts[m].taken = n => Facts[m].first \notin AllHandles)
              => OwnerOf[n] = Special(n)
  <1>. DEFINE M == {m \in Names : Kind(m) = "method" /\ Facts[m].taken = n
                                   /\ Facts[m].first \in AllHandles}
  <1>1. OwnerOf[n] = IF M # {} THEN Facts[CHOOSE m \in M : TRUE].first ELSE Special(n)
    BY DEF OwnerOf
  <1>2. \A m \in Methods : m \in DOMAIN Facts /\ Kind(m) = "method" /\ m \in Names
    BY NamesHaveKinds DEF Methods
  <1>3. n # None
    BY NoneAssumption
  <1>4. ASSUME NEW m \in Methods, Facts[m].taken = n, Facts[m].first \in AllHandles
        PROVE  M = {m}
    <2>1. m \in M
      BY <1>2, <1>4
    <2>2. ASSUME NEW x \in M PROVE x = m
      <3>1. x \in Methods
        BY DEF Methods
      <3>. QED  BY <1>2, <1>3, <1>4, <3>1, OneTaker
    <2>. HIDE DEF M
    <2>. QED  BY <2>1, <2>2
  <1>5. (\A m \in Methods : Facts[m].taken = n => Facts[m].first \notin AllHandles) => M = {}
    BY DEF Methods
  <1>. HIDE DEF M
  <1>. QED  BY <1>1, <1>4, <1>5

LEMMA OwnerOfOthers ==
  ASSUME NEW n \in Names
  PROVE  /\ Kind(n) = "handle" => OwnerOf[n] = "handle"
         /\ Kind(n) = "struct" => OwnerOf[n] = "struct"
         /\ Kind(n) = "enum" => OwnerOf[n] = ByClass(n, GlobalEnums, Longest(n))
         /\ Kind(n) = "constant" => OwnerOf[n] =
              ByClass(n, GlobalConstants,
                      IF Facts[n].prefix = None THEN "unhandled" ELSE Special(n))
  BY DEF OwnerOf

(* What an enum's or a constant's interface says.                          *)
LEMMA ClassOwner ==
  ASSUME NEW e \in Expected, e.kind \in {"enum", "constant"},
         NEW global, global = IF e.kind = "enum" THEN GlobalEnums ELSE GlobalConstants, NEW x
  PROVE  LET o == ByClass(e.name, global, x) IN
         /\ ClassOf[e.il] \in AllClasses =>
              /\ o = IF e.il \in global THEN Eos ELSE HandleOf[ClassOf[e.il]]
              /\ e.il \notin global => HandleOf[ClassOf[e.il]] \in HandlesOf(e.il)
              /\ e.kind = "enum" => o # Platform
              /\ o \in AllHandles
         /\ ClassOf[e.il] \notin AllClasses /\ e.il \in DOMAIN SpecialHandle =>
              o = SpecialHandle[e.il] /\ o \in AllHandles \ {Platform}
         /\ Unclaimed(e.il) => o = x
  <1>1. IlOf(e.name) = e.il
    BY ExpectedFacts
  <1>2. ByClass(e.name, global, x) =
          IF ClassOf[e.il] \in AllClasses
            THEN IF e.il \in global THEN Eos ELSE HandleOf[ClassOf[e.il]]
          ELSE IF e.il \in DOMAIN SpecialHandle THEN SpecialHandle[e.il] ELSE x
    BY <1>1 DEF ByClass
  <1>3. Eos \in AllHandles /\ Eos # Platform
    BY HandlesAssumption DEF AllHandles
  <1>4. ASSUME ClassOf[e.il] \in AllClasses, e.il \notin global
        PROVE  /\ HandleOf[ClassOf[e.il]] \in HandlesOf(e.il)
               /\ e.kind = "enum" => HandleOf[ClassOf[e.il]] # Platform
    BY <1>4, InterfacesAssumption
  <1>5. e.il \in DOMAIN SpecialHandle => SpecialHandle[e.il] \in AllHandles \ {Platform}
    BY HandlesAssumption
  <1>6. HandlesOf(e.il) \subseteq AllHandles
    BY HandleNames
  <1>. QED  BY <1>2, <1>3, <1>4, <1>5, <1>6 DEF Unclaimed

LEMMA SpecialIsHandle ==
  ASSUME NEW n \in Names
  PROVE  Special(n) \in AllHandles
  BY HandlesAssumption, PrefixedIsHandle DEF Special

LEMMA OwnerFound ==
  ASSUME NEW n \in Names
  PROVE  OwnerOf[n] # None
  <1>1. PICK e \in Expected : e.name = n /\ e.kind = Kind(n)
    BY NameDeclared
  <1>2. OwnerOf[n] \in AllHandles \cup {"handle", "struct", "release", "unhandled"}
    <2>1. CASE Kind(n) = "method"
      BY <2>1, OwnerOfMethod, SpecialIsHandle DEF Methods
    <2>2. CASE Kind(n) = "callback"
      BY <2>2, OwnerOfCallback, SpecialIsHandle
    <2>3. CASE Kind(n) = "enum"
      <3>. DEFINE o == ByClass(n, GlobalEnums, Longest(n))
      <3>1. o \in AllHandles \cup {Longest(n)}
        BY <1>1, <2>3, ClassOwner DEF Unclaimed
      <3>. HIDE DEF o
      <3>2. OwnerOf[n] = o
        BY <2>3, OwnerOfOthers DEF o
      <3>. QED  BY <3>1, <3>2, PrefixedIsHandle
    <2>4. CASE Kind(n) = "constant"
      <3>. DEFINE x == IF Facts[n].prefix = None THEN "unhandled" ELSE Special(n)
                  o == ByClass(n, GlobalConstants, x)
      <3>1. OwnerOf[n] = o
        BY <2>4, OwnerOfOthers
      <3>2. x \in AllHandles \cup {"unhandled"}
        BY SpecialIsHandle
      <3>. HIDE DEF x
      <3>3. o \in AllHandles \cup {x}
        BY <1>1, <2>4, ClassOwner DEF Unclaimed
      <3>. HIDE DEF o
      <3>. QED  BY <3>1, <3>2, <3>3
    <2>. QED  BY <2>1, <2>2, <2>3, <2>4, NamesHaveKinds, OwnerOfOthers
  <1>. QED  BY <1>2, NoneAssumption

(* No copied callback is at home where it is copied to.                    *)
LEMMA CopiesAreNotRight ==
  /\ \A n \in Names : Right(n) \notin CopyPairs
  /\ \A p \in CopyPairs : Kind(p[2]) = "callback"
  <1>1. ASSUME NEW c \in Copies
        PROVE  Kind(c.callback) = "callback" /\ Right(c.callback) # <<c.to, c.callback>>
    BY CopiesAssumption DEF Right
  <1>2. ASSUME NEW n \in Names, Right(n) \in CopyPairs PROVE FALSE
    <2>1. PICK c \in Copies : Right(n) = <<c.to, c.callback>>
      BY <1>2 DEF CopyPairs
    <2>2. n = c.callback
      BY <2>1 DEF Right
    <2>. QED  BY <1>1, <2>1, <2>2
  <1>. QED  BY <1>1, <1>2 DEF CopyPairs

-----------------------------------------------------------------------------
(* What any pass leaves as it was.                                         *)

LEMMA AllNumbers ==
  ASSUME NEW p
  PROVE  /\ PassNumber(p) \in 0..14
         /\ p \in {"first", "list", "failed"} => PassNumber(p) = 0
         /\ p = "methods" <=> PassNumber(p) = 1
         /\ p = "merge" <=> PassNumber(p) = 2
         /\ p = "structs" <=> PassNumber(p) = 3
         /\ p = "enum" <=> PassNumber(p) = 4
         /\ p = "constant" <=> PassNumber(p) = 5
         /\ p = "cheat method" <=> PassNumber(p) = 6
         /\ p = "cheat enum" <=> PassNumber(p) = 7
         /\ p = "platform enums" <=> PassNumber(p) = 8
         /\ p = "extras" <=> PassNumber(p) = 9
         /\ p = "cheat callback" <=> PassNumber(p) = 10
         /\ p = "cheat constant" <=> PassNumber(p) = 11
         /\ p = "copies" <=> PassNumber(p) = 12
         /\ p = "unhandled" <=> PassNumber(p) = 13
         /\ p = "done" <=> PassNumber(p) = 14
  <1>. DEFINE is6 == p = "cheat method"   is7 == p = "cheat enum"
              is8 == p = "platform enums"  is10 == p = "cheat callback"
              is11 == p = "cheat constant"
  <1>1. /\ p = "methods" => PassNumber(p) = 1
        /\ p = "merge" => PassNumber(p) = 2
        /\ p = "structs" => PassNumber(p) = 3
        /\ p = "enum" => PassNumber(p) = 4
        /\ p = "constant" => PassNumber(p) = 5
        /\ is6 => PassNumber(p) = 6
        /\ is7 => PassNumber(p) = 7
        /\ is8 => PassNumber(p) = 8
        /\ p = "extras" => PassNumber(p) = 9
        /\ is10 => PassNumber(p) = 10
        /\ is11 => PassNumber(p) = 11
        /\ p = "copies" => PassNumber(p) = 12
        /\ p = "unhandled" => PassNumber(p) = 13
        /\ p = "done" => PassNumber(p) = 14
        /\ p # "methods" /\ p # "merge" /\ p # "structs" /\ p # "enum" /\ p # "constant" /\ ~is6 /\ ~is7
           /\ ~is8 /\ p # "extras" /\ ~is10 /\ ~is11 /\ p # "copies" /\ p # "unhandled" /\ p # "done"
             => PassNumber(p) = 0
    BY DEF PassNumber
  <1>2. p \in {"first", "list", "failed"} => ~is6 /\ ~is7 /\ ~is8 /\ ~is10 /\ ~is11
    OBVIOUS
  <1>. HIDE DEF is6, is7, is8, is10, is11
  <1>3. /\ PassNumber(p) \in 0..14
        /\ p \in {"first", "list", "failed"} => PassNumber(p) = 0
        /\ p = "methods" <=> PassNumber(p) = 1
        /\ p = "merge" <=> PassNumber(p) = 2
        /\ p = "structs" <=> PassNumber(p) = 3
        /\ p = "enum" <=> PassNumber(p) = 4
        /\ p = "constant" <=> PassNumber(p) = 5
        /\ is6 <=> PassNumber(p) = 6
        /\ is7 <=> PassNumber(p) = 7
        /\ is8 <=> PassNumber(p) = 8
        /\ p = "extras" <=> PassNumber(p) = 9
        /\ is10 <=> PassNumber(p) = 10
        /\ is11 <=> PassNumber(p) = 11
        /\ p = "copies" <=> PassNumber(p) = 12
        /\ p = "unhandled" <=> PassNumber(p) = 13
        /\ p = "done" <=> PassNumber(p) = 14
    BY <1>1, <1>2
  <1>. QED  BY <1>3 DEF is6, is7, is8, is10, is11

LEMMA PassNumbers ==
  ASSUME NEW p
  PROVE  /\ PassNumber(p) \in 0..14
         /\ p \in {"first", "list", "failed"} => PassNumber(p) = 0
         /\ p = "methods" <=> PassNumber(p) = 1
         /\ p = "merge" <=> PassNumber(p) = 2
         /\ p = "structs" <=> PassNumber(p) = 3
         /\ p = "enum" <=> PassNumber(p) = 4
         /\ p = "constant" <=> PassNumber(p) = 5
         /\ p = "extras" <=> PassNumber(p) = 9
         /\ p = "copies" <=> PassNumber(p) = 12
         /\ p = "unhandled" <=> PassNumber(p) = 13
         /\ p = "done" <=> PassNumber(p) = 14
  BY AllNumbers, Zenon

LEMMA LeftIsDeclared ==
  ASSUME infos \subseteq Expected
  PROVE  /\ \A i \in infos : /\ i \in Expected /\ i.kind = Kind(i.name) /\ i.name \in Names
                             /\ i.name \in Left /\ i.il = IlOf(i.name)
         /\ \A i, j \in infos : i.name = j.name => i = j
         /\ \A n \in Left : /\ n \in Names /\ n \in DOMAIN Facts
                            /\ n \in Of(IlOf(n), Kind(n)) /\ n \in All(Kind(n))
         /\ \A il, kind : \A n \in Of(il, kind) : n \in Left /\ Kind(n) = kind /\ IlOf(n) = il
         /\ \A kind : \A n \in All(kind) : n \in Left /\ Kind(n) = kind
  <1>1. \A i \in infos : /\ i \in Expected /\ i.kind = Kind(i.name) /\ i.name \in Names
                         /\ i.name \in Left /\ i.il = IlOf(i.name) /\ i.name \in DOMAIN Facts
    BY ExpectedFacts DEF Left
  <1>2. \A i, j \in infos : i.name = j.name => i = j
    BY DeclaredOnce
  <1>3. ASSUME NEW n \in Left
        PROVE  /\ n \in Names /\ n \in DOMAIN Facts
               /\ n \in Of(IlOf(n), Kind(n)) /\ n \in All(Kind(n))
    <2>1. PICK i \in infos : i.name = n
      BY DEF Left
    <2>. QED  BY <1>1, <2>1 DEF Of, All
  <1>4. ASSUME NEW il, NEW kind, NEW n \in Of(il, kind)
        PROVE  n \in Left /\ Kind(n) = kind /\ IlOf(n) = il
    <2>1. PICK i \in infos : i.name = n /\ i.kind = kind /\ i.il = il
      BY <1>4 DEF Of
    <2>. QED  BY <1>1, <2>1
  <1>5. ASSUME NEW kind, NEW n \in All(kind)
        PROVE  n \in Left /\ Kind(n) = kind
    <2>1. PICK i \in infos : i.name = n /\ i.kind = kind
      BY <1>5 DEF All
    <2>. QED  BY <1>1, <2>1
  <1>. QED  BY <1>1, <1>2, <1>3, <1>4, <1>5

(* A step of a pass goes over the interfaces turn, and no other.           *)
Turned(turn) ==
    /\ ils' = ils /\ Pass \in 1..13 /\ Pass' \in {Pass, Pass + 1}
    /\ Pass' \in {2, 3, 8, 9, 12, 13, 14} => at' = 1
    /\ \A r \in 1..14 : \A x \in Range(ils) :
         Passed(r, x)' => Passed(r, x) \/ (r = Pass /\ x \in turn)

LEMMA LoopTurns ==
  ASSUME TypeInv, ils' = ils, Pass \in {1, 4, 5, 6, 7, 10, 11}, NEW next, NextPass(next),
         phase' = next => Pass' = Pass + 1
  PROVE  Turned({ils[at]}) /\ ils[at] \in Range(ils) /\ ils[at] \in DOMAIN ClassOf
  <1>1. phase # "first"
    BY PassNumbers DEF Pass
  <1>2. ils \in Seq(DOMAIN ClassOf) /\ at \in DOMAIN ils /\ Range(ils) = {ils[k] : k \in DOMAIN ils}
    BY <1>1 DEF TypeInv, TypeOK, ParserType, Range
  <1>3. DOMAIN ils = 1..Len(ils) /\ Len(ils) \in Nat /\ at \in Nat /\ ils[at] \in DOMAIN ClassOf
    BY <1>2
  <1>4. CASE at = Len(ils)
    <2>1. phase' = next /\ at' = 1 /\ Pass' = Pass + 1
      BY <1>4 DEF NextPass
    <2>2. ASSUME NEW r \in 1..14, NEW x \in Range(ils), Passed(r, x)'
          PROVE  Passed(r, x) \/ (r = Pass /\ x = ils[at])
      <3>1. Pass + 1 > r
        BY <2>1, <2>2, <1>3 DEF Passed
      <3>2. PICK k \in DOMAIN ils : x = ils[k]
        BY <1>2
      <3>3. k < at \/ k = at
        BY <1>3, <1>4, <3>2
      <3>. QED  BY <3>1, <3>2, <3>3 DEF Passed
    <2>. QED  BY <1>2, <1>3, <2>1, <2>2 DEF Turned
  <1>5. CASE at # Len(ils)
    <2>1. phase' = phase /\ at' = at + 1
      BY <1>5 DEF NextPass
    <2>2. Pass' = Pass
      BY <2>1 DEF Pass
    <2>3. ASSUME NEW r \in 1..14, NEW x \in Range(ils), Passed(r, x)'
          PROVE  Passed(r, x) \/ (r = Pass /\ x = ils[at])
      <3>1. CASE Pass > r
        BY <3>1 DEF Passed
      <3>2. CASE ~(Pass > r)
        <4>1. Pass = r /\ \E k \in DOMAIN ils : k < at + 1 /\ ils[k] = x
          BY <2>1, <2>2, <2>3, <3>2 DEF Passed
        <4>2. PICK k \in DOMAIN ils : k < at + 1 /\ ils[k] = x
          BY <4>1
        <4>3. k < at \/ k = at
          BY <1>3, <4>2
        <4>. QED  BY <4>1, <4>2, <4>3 DEF Passed
      <3>. QED  BY <3>1, <3>2
    <2>. QED  BY <1>2, <1>3, <2>1, <2>2, <2>3 DEF Turned
  <1>. QED  BY <1>4, <1>5

LEMMA OneTurn ==
  ASSUME TypeInv, PassInv, ils' = ils, at' = at, Pass \in {2, 3, 8, 9, 12, 13}, Pass' = Pass + 1
  PROVE  Turned(Range(ils))
  <1>1. at = 1
    BY DEF PassInv, Tables
  <1>2. ASSUME NEW r \in 1..14, NEW x \in Range(ils), Passed(r, x)'
        PROVE  Passed(r, x) \/ r = Pass
    <2>1. \A k \in DOMAIN ils : ~(k < at')
      <3>1. ils \in Seq(DOMAIN ClassOf)
        BY DEF TypeInv, ParserType
      <3>2. DOMAIN ils \subseteq Nat \ {0}
        BY <3>1
      <3>. QED  BY <1>1, <3>2
    <2>2. Pass + 1 > r
      BY <1>2, <2>1 DEF Passed
    <2>. QED  BY <2>2 DEF Passed
  <1>. QED  BY <1>1, <1>2 DEF Turned

(* What is left waits for later passes, unless its turn was now.           *)
Turn(i, turn) ==
    /\ i.kind = "handle" => Pass # 2
    /\ i.kind = "struct" => Pass # 3
    /\ i.il \in turn =>
         /\ i.kind = "enum" => (Pass = 4 => Unclaimed(i.il)) /\ Pass # 7
         /\ i.kind = "constant" =>
              (Pass = 5 => Unclaimed(i.il)) /\ (Pass = 11 => Facts[i.name].prefix = None)
         /\ i.kind = "method" => Pass # 6
         /\ i.kind = "callback" => Pass # 10
    /\ \A x \in turn : Pass = 1 =>
         /\ i.kind = "method" => MethodWaits(i.name, x)
         /\ i.kind = "callback" => CallbackWaits(i.name, x)

LEMMA StillWaits ==
  ASSUME NEW i, NEW turn, i.il \in Range(ils), Waits(i), Turned(turn), Turn(i, turn)
  PROVE  Waits(i)'
  <1>. USE DEF Turned
  <1>1. i.kind = "handle" => Pass' <= 2
    BY DEF Waits, Turn
  <1>2. i.kind = "struct" => Pass' <= 3
    BY DEF Waits, Turn
  <1>3. i.kind = "enum" => (Passed(4, i.il)' => Unclaimed(i.il)) /\ ~Passed(7, i.il)'
    BY DEF Waits, Turn
  <1>4. i.kind = "constant" =>
          /\ Passed(5, i.il)' => Unclaimed(i.il)
          /\ Passed(11, i.il)' => Facts[i.name].prefix = None
    BY DEF Waits, Turn
  <1>5. i.kind = "method" =>
          /\ \A x \in Range(ils) : Passed(1, x)' => MethodWaits(i.name, x)
          /\ ~Passed(6, i.il)'
    BY DEF Waits, Turn
  <1>6. i.kind = "callback" =>
          /\ \A x \in Range(ils) : Passed(1, x)' => CallbackWaits(i.name, x)
          /\ ~Passed(10, i.il)'
    BY DEF Waits, Turn
  <1>. HIDE DEF Turned
  <1>7. ils' = ils
    BY DEF Turned
  <1>. QED  BY <1>1, <1>2, <1>3, <1>4, <1>5, <1>6, <1>7 DEF Waits

LEMMA NoGetters ==
  ASSUME TypeInv, PassInv, Pass >= 2
  PROVE  Getters = {}
  <1>1. PICK x : x \in Range(ils)
    <2>1. ils \in Seq(DOMAIN ClassOf) /\ ils # <<>>
      BY DEF TypeInv, ParserType
    <2>2. 1 \in DOMAIN ils
      BY <2>1
    <2>. QED  BY <2>2 DEF Range
  <1>2. Passed(1, x)
    BY PassNumbers DEF Passed, Pass
  <1>3. \A i \in infos : i.kind = "method" => Facts[i.name].getter = None
    BY <1>1, <1>2 DEF PassInv, Waits, MethodWaits
  <1>. QED  BY <1>3 DEF Getters, All

(* A later pass keeps the invariant when what it takes out of infos is     *)
(* placed, and what it places has the right owner.                         *)
Later(turn) ==
    /\ Turned(turn) /\ turn \subseteq Range(ils)
    /\ UNCHANGED <<docs, documented, interfaces, extras, releases>>
    /\ infos' \subseteq infos /\ (\A i \in infos' : Turn(i, turn))
    /\ \A i \in infos \ infos' : Placed(i.name)'
    /\ owned \subseteq owned' /\ handles \subseteq handles' /\ structs \subseteq structs'
    /\ unhandled \subseteq unhandled'
    /\ \A p \in owned' \ owned : p \in CopyPairs \/ (p[2] \in Names /\ p = Right(p[2]))
    /\ \A n \in structs' \ structs : n \in Names /\ Kind(n) = "struct"
    /\ \A n \in unhandled' \ unhandled : n \in Names /\ OwnerOf[n] = "unhandled" /\ Pass' = 14
    /\ \A n \in routed' \ routed : \E i \in infos \ infos' : i.name = n
    /\ Pass > 2 => handles' = handles /\ gen' = gen
    /\ Pass = 2 => Pass' = 3 /\ handles' = AllHandles /\ gen' = AllGen
    /\ Pass = 9 => \A p \in extras : p \in owned'
    /\ Pass = 13 => infos' = {}

(* What has been placed stays so.                                          *)
PlacedStays == \A n \in Names : Placed(n) => Placed(n)'

LEMMA LaterPass ==
  ASSUME TypeInv, PassInv, Pass >= 2, NEW turn, Later(turn)
  PROVE  PassInv' /\ PlacedStays
  <1>1. /\ Pass \in 2..13 /\ Pass' \in {Pass, Pass + 1} /\ ils' = ils
        /\ infos \subseteq Expected /\ infos' \subseteq Expected
    BY DEF Later, Turned, PassInv
  <1>2. PlacedStays
    <2>1. releases' = releases /\ owned \subseteq owned' /\ handles \subseteq handles'
          /\ structs \subseteq structs' /\ unhandled \subseteq unhandled'
      BY DEF Later
    <2>. QED  BY <2>1 DEF PlacedStays, Placed
  <1>3. routed' \cap Left' = {}
    <2>. SUFFICES ASSUME NEW n \in routed', NEW j \in infos', j.name = n PROVE FALSE
      BY DEF Left
    <2>1. j \in infos
      BY DEF Later
    <2>2. CASE n \in routed
      BY <2>1, <2>2 DEF PassInv, Left
    <2>3. CASE n \notin routed
      <3>1. PICK i \in infos \ infos' : i.name = n
        BY <2>3 DEF Later
      <3>. QED  BY <1>1, <2>1, <3>1, LeftIsDeclared
    <2>. QED  BY <2>2, <2>3
  <1>4. Tables'
    <2>1. \A e \in Expected : e.il \in Range(ils')
      BY <1>1 DEF PassInv, Tables
    <2>2. Pass' \in {2, 3, 8, 9, 12, 13, 14} => at' = 1
      BY DEF Later, Turned
    <2>3. handles' = IF Pass' <= 2 THEN PresetHandles ELSE AllHandles
      <3>1. CASE Pass = 2
        BY <3>1 DEF Later
      <3>2. CASE Pass > 2
        BY <1>1, <3>2 DEF Later, PassInv, Tables
      <3>. QED  BY <1>1, <3>1, <3>2
    <2>4. Pass' > 2 => gen' = AllGen
      BY <1>1 DEF Later, PassInv, Tables
    <2>5. interfaces' \cup {Facts[m].getter : m \in Getters'} = AllClasses
      <3>1. Getters = {} /\ interfaces = AllClasses
        BY <1>1, NoGetters DEF PassInv, Tables
      <3>2. Getters' \subseteq Getters
        BY DEF Later, Getters, All
      <3>3. interfaces' = interfaces
        BY DEF Later
      <3>. QED  BY <3>1, <3>2, <3>3
    <2>. QED  BY <2>1, <2>2, <2>3, <2>4, <2>5 DEF Tables
  <1>5. RightOwners'
    <2>1. extras' = extras /\ releases' = releases /\ (Pass' = 14 \/ unhandled' = unhandled)
          /\ (unhandled # {} => Pass = 14)
      BY <1>1 DEF Later, PassInv, RightOwners
    <2>2. ASSUME NEW p \in owned'
          PROVE  p \in CopyPairs \/ (p[2] \in Names /\ p = Right(p[2]))
      BY DEF Later, PassInv, RightOwners
    <2>3. ASSUME NEW n \in structs' PROVE n \in Names /\ Kind(n) = "struct"
      BY DEF Later, PassInv, RightOwners
    <2>4. ASSUME NEW n \in unhandled'
          PROVE  n \in Names /\ OwnerOf[n] = "unhandled" /\ Pass' = 14
      BY <1>1 DEF Later, PassInv, RightOwners
    <2>. QED  BY <2>1, <2>2, <2>3, <2>4 DEF PassInv, RightOwners
  <1>6. NothingLost'
    <2>. SUFFICES ASSUME NEW n \in Names
                  PROVE  \/ n \in Left' \/ Placed(n)'
                         \/ Pass' <= 9 /\ \E p \in extras' : p[2] = n
      BY DEF NothingLost
    <2>1. CASE n \in Left
      <3>1. PICK i \in infos : i.name = n
        BY <2>1 DEF Left
      <3>. QED  BY <3>1 DEF Later, Left
    <2>2. CASE Placed(n)
      BY <1>2, <2>2 DEF PlacedStays
    <2>3. CASE Pass <= 9 /\ \E p \in extras : p[2] = n
      <3>1. PICK p \in extras : p[2] = n
        BY <2>3
      <3>2. CASE Pass = 9
        <4>1. p \in owned'
          BY <3>1, <3>2 DEF Later
        <4>2. p = Right(n)
          BY <3>1, OwnerOfMethod DEF PassInv, RightOwners, Right
        <4>. QED  BY <4>1, <4>2 DEF Placed
      <3>3. CASE Pass # 9
        BY <1>1, <2>3, <3>1, <3>3 DEF Later
      <3>. QED  BY <3>2, <3>3
    <2>. QED  BY <2>1, <2>2, <2>3 DEF PassInv, NothingLost
  <1>7. \A i \in infos' : Waits(i)'
    <2>. SUFFICES ASSUME NEW i \in infos' PROVE Waits(i)'
      OBVIOUS
    <2>1. i \in infos /\ Turn(i, turn) /\ Turned(turn) /\ Waits(i)
      BY DEF Later, PassInv
    <2>2. i.il \in Range(ils)
      BY <1>1, <2>1 DEF PassInv, Tables
    <2>. QED  BY <2>1, <2>2, StillWaits
  <1>8. Unmoved'
    <2>1. Pass' # 1 /\ (Pass' <= 2 => Pass = 2 /\ Pass' = 2)
      BY <1>1
    <2>2. ~(Pass' <= 2)
      BY <2>1 DEF Later
    <2>3. Pass' = 14 => infos' = {}
      BY <1>1 DEF Later
    <2>. QED  BY <2>1, <2>2, <2>3 DEF Unmoved
  <1>9. DocsPassed'
    <2>1. documented' = documented /\ docs' = docs
      BY DEF Later
    <2>2. \A d \in OwnDocs : d \in documented /\ ReadFor(d.from) \in Range(ils)
      BY <1>1 DEF PassInv, DocsPassed, Passed
    <2>. QED  BY <1>1, <2>1, <2>2 DEF PassInv, DocsPassed
  <1>. QED  BY <1>1, <1>2, <1>3, <1>4, <1>5, <1>6, <1>7, <1>8, <1>9 DEF PassInv

-----------------------------------------------------------------------------
(* The passes that are one step.                                           *)

LEMMA MergePass ==
  ASSUME TypeInv, PassInv, MergeHandles
  PROVE  PassInv' /\ PlacedStays
  <1>1. phase = "merge" /\ phase' = "structs" /\ at' = at /\ ils' = ils
    BY DEF MergeHandles, parsed
  <1>2. Pass = 2 /\ Pass' = 3
    BY <1>1, PassNumbers DEF Pass
  <1>3. Turned(Range(ils))
    BY <1>1, <1>2, OneTurn
  <1>4. /\ handles' = handles \cup All("handle") /\ infos' = Without(All("handle"))
        /\ UNCHANGED <<docs, documented, interfaces, extras, releases, owned, structs, unhandled,
                       routed>>
    BY DEF MergeHandles, parsed
  <1>5. \A i \in infos : i \in infos' \/ (i.name \in handles' /\ i \notin infos')
    BY <1>4 DEF Without
  <1>6. \A i \in infos' : i.kind # "handle"
    BY <1>4 DEF Without, All
  <1>7. infos \subseteq Expected /\ handles = PresetHandles
        /\ \A e \in Expected : e.kind = "handle" => e \in infos
    BY <1>2 DEF PassInv, Tables, Unmoved
  <1>8. handles' = AllHandles
    <2>1. \A n \in Names : Kind(n) = "handle" => n \in All("handle")
      BY <1>7, NameDeclared DEF All
    <2>2. \A n \in All("handle") : n \in Names /\ Kind(n) = "handle"
      BY <1>7, LeftIsDeclared
    <2>. QED  BY <1>4, <1>7, <2>1, <2>2 DEF AllHandles
  <1>9. gen' = AllGen
    <2>1. {j \in infos : j.kind = "handle"} = {j \in Expected : j.kind = "handle"}
      BY <1>7
    <2>2. gen' = {<<i.il, i.name>> : i \in {j \in infos : j.kind = "handle"}}
                   \cup {<<"common", Eos>>}
                   \cup {<<il, SpecialHandle[il]>> : il \in DOMAIN SpecialHandle}
      BY DEF MergeHandles
    <2>. QED  BY <2>1, <2>2 DEF AllGen
  <1>10. \A i \in infos' : Turn(i, Range(ils))
    BY <1>2, <1>6 DEF Turn
  <1>11. \A i \in infos \ infos' : Placed(i.name)'
    BY <1>5 DEF Placed
  <1>12. infos' \subseteq infos
    BY <1>4 DEF Without
  <1>13. Later(Range(ils))
    BY <1>2, <1>3, <1>4, <1>8, <1>9, <1>10, <1>11, <1>12 DEF Later
  <1>. QED  BY <1>2, <1>13, LaterPass

LEMMA StructsPass ==
  ASSUME TypeInv, PassInv, RouteStructs
  PROVE  PassInv' /\ PlacedStays
  <1>1. phase = "structs" /\ phase' = "enum" /\ at' = at /\ ils' = ils
    BY DEF RouteStructs, parsed
  <1>2. Pass = 3 /\ Pass' = 4
    BY <1>1, PassNumbers DEF Pass
  <1>3. Turned(Range(ils))
    BY <1>1, <1>2, OneTurn
  <1>4. /\ structs' = structs \cup All("struct") /\ infos' = Without(All("struct"))
        /\ UNCHANGED <<docs, documented, interfaces, extras, releases, owned, handles, gen,
                       unhandled, routed>>
    BY DEF RouteStructs, parsed
  <1>5. infos \subseteq Expected
    BY DEF PassInv
  <1>6. \A n \in structs' \ structs : n \in Names /\ Kind(n) = "struct"
    BY <1>4, <1>5, LeftIsDeclared
  <1>7. \A i \in infos' : Turn(i, Range(ils))
    BY <1>2, <1>4 DEF Turn, Without, All
  <1>8. \A i \in infos \ infos' : Placed(i.name)'
    BY <1>4 DEF Placed, Without
  <1>9. infos' \subseteq infos
    BY <1>4 DEF Without
  <1>10. Later(Range(ils))
    BY <1>2, <1>3, <1>4, <1>6, <1>7, <1>8, <1>9 DEF Later
  <1>. QED  BY <1>2, <1>10, LaterPass

(* Handing the platform's enums over takes none away: those it has are the *)
(* ones whose name says so.                                                *)
LEMMA PlatformEnumsPass ==
  ASSUME TypeInv, PassInv, PlatformEnums
  PROVE  PassInv' /\ PlacedStays
  <1>1. Pass = 8
    BY AllNumbers, Zenon DEF PlatformEnums, Pass
  <1>0. Platform \in handles
    BY <1>1, HandlesAssumption DEF PassInv, Tables
  <1>2. Pass' = 9 /\ at' = at /\ ils' = ils
    BY <1>0, PassNumbers, Zenon DEF PlatformEnums, Pass, parsed
  <1>3. Turned(Range(ils))
    BY <1>1, <1>2, OneTurn
  <1>. DEFINE moving == {p \in owned : /\ p[1] = Platform /\ Kind(p[2]) = "enum"
                                       /\ ByWords(p[2]) # Platform}
  <1>4. /\ owned' = (owned \ moving) \cup {<<ByWords(p[2]), p[2]>> : p \in moving}
        /\ UNCHANGED <<infos, docs, documented, interfaces, extras, releases, handles, gen,
                       structs, unhandled, routed>>
    BY <1>0 DEF PlatformEnums, parsed
  <1>5. ASSUME NEW p \in moving PROVE FALSE
    <2>1. p \in owned /\ p[1] = Platform /\ Kind(p[2]) = "enum" /\ ByWords(p[2]) # Platform
      OBVIOUS
    <2>2. p \notin CopyPairs
      BY <2>1, CopiesAreNotRight
    <2>3. p[2] \in Names /\ p = Right(p[2])
      BY <2>1, <2>2 DEF PassInv, RightOwners
    <2>4. OwnerOf[p[2]] = Platform
      BY <2>1, <2>3 DEF Right
    <2>5. PICK e \in Expected : e.name = p[2] /\ e.kind = "enum"
      BY <2>1, <2>3, NameDeclared
    <2>6. ByClass(e.name, GlobalEnums, Longest(p[2])) = Platform
      BY <2>1, <2>3, <2>4, <2>5, OwnerOfOthers
    <2>7. Longest(p[2]) = Platform
      BY <2>5, <2>6, ClassOwner DEF Unclaimed
    <2>8. handles = AllHandles
      BY <1>1 DEF PassInv, Tables
    <2>9. ByWords(p[2]) = Longest(p[2])
      BY <2>8 DEF ByWords, Beginning, Longest
    <2>. QED  BY <2>1, <2>7, <2>9
  <1>6. owned' = owned
    <2>. HIDE DEF moving
    <2>. QED  BY <1>4, <1>5
  <1>7. Later(Range(ils))
    BY <1>1, <1>2, <1>3, <1>4, <1>6 DEF Later, Turn
  <1>. QED  BY <1>1, <1>7, LaterPass

LEMMA ExtrasPass ==
  ASSUME TypeInv, PassInv, AddExtras
  PROVE  PassInv' /\ PlacedStays
  <1>1. phase = "extras"
    BY DEF AddExtras
  <1>2. Pass = 9
    BY <1>1, PassNumbers DEF Pass
  <1>3. \A p \in extras : p[1] \in handles /\ p = Right(p[2]) /\ p[2] \in Names
    <2>. SUFFICES ASSUME NEW p \in extras
                  PROVE  p[1] \in handles /\ p = Right(p[2]) /\ p[2] \in Names
      OBVIOUS
    <2>1. handles = AllHandles
      BY <1>2 DEF PassInv, Tables
    <2>2. p[2] \in Methods /\ Facts[p[2]].first \in AllHandles /\ p = <<Facts[p[2]].first, p[2]>>
      BY DEF PassInv, RightOwners
    <2>3. OwnerOf[p[2]] = Facts[p[2]].first
      BY <2>2, OwnerOfMethod
    <2>. QED  BY <2>1, <2>2, <2>3 DEF Right, Methods
  <1>4. /\ owned' = owned \cup extras /\ at' = at /\ ils' = ils
        /\ UNCHANGED <<infos, docs, documented, interfaces, extras, releases, handles, gen,
                       structs, unhandled, routed>>
    BY <1>3 DEF AddExtras, parsed
  <1>5. Pass' = 10
    BY <1>3, AllNumbers, Zenon DEF AddExtras, Pass
  <1>6. Turned(Range(ils))
    BY <1>2, <1>4, <1>5, OneTurn
  <1>7. Later(Range(ils))
    BY <1>2, <1>3, <1>4, <1>6 DEF Later, Turn
  <1>. QED  BY <1>2, <1>7, LaterPass

LEMMA CopiesPass ==
  ASSUME TypeInv, PassInv, CopyCallbacks
  PROVE  PassInv' /\ PlacedStays
  <1>1. phase = "copies"
    BY DEF CopyCallbacks
  <1>2. Pass = 12 /\ handles = AllHandles
    BY <1>1, PassNumbers DEF Pass, PassInv, Tables
  <1>3. ASSUME NEW c \in Copies PROVE c.to \in handles /\ <<c.from, c.callback>> \in owned
    <2>1. /\ c.to \in AllHandles /\ c.callback \in Names /\ Kind(c.callback) = "callback"
          /\ Right(c.callback) = <<c.from, c.callback>>
      BY CopiesAssumption DEF Right
    <2>2. c.callback \notin Left
      <3>. SUFFICES ASSUME NEW i \in infos, i.name = c.callback PROVE FALSE
        BY DEF Left
      <3>1. i.kind = "callback"
        BY <2>1, LeftIsDeclared DEF PassInv
      <3>. QED  BY <1>2, <3>1 DEF PassInv, Waits, Passed
    <2>3. Placed(c.callback)
      BY <1>2, <2>1, <2>2 DEF PassInv, NothingLost
    <2>4. c.callback \notin handles
      BY <1>2, <2>1, HandleNames
    <2>5. c.callback \notin structs \cup releases \cup unhandled
      BY <1>2, <2>1 DEF PassInv, RightOwners, Methods
    <2>. QED  BY <1>2, <2>1, <2>3, <2>4, <2>5 DEF Placed
  <1>4. /\ owned' = owned \cup {<<c.to, c.callback>> : c \in Copies} /\ phase' = "unhandled"
        /\ at' = at /\ ils' = ils
        /\ UNCHANGED <<infos, docs, documented, interfaces, extras, releases, handles, gen,
                       structs, unhandled, routed>>
    BY <1>3 DEF CopyCallbacks, parsed
  <1>5. Pass' = 13
    BY <1>4, PassNumbers DEF Pass
  <1>6. Turned(Range(ils))
    BY <1>2, <1>4, <1>5, OneTurn
  <1>7. \A p \in owned' \ owned : p \in CopyPairs
    BY <1>4 DEF CopyPairs
  <1>8. Later(Range(ils))
    BY <1>2, <1>4, <1>6, <1>7 DEF Later, Turn
  <1>. QED  BY <1>2, <1>8, LaterPass

(* A method nobody handles, or a callback of one, that the first pass has  *)
(* left.                                                                   *)
LEMMA LeftByMethods ==
  ASSUME TypeInv, PassInv, Pass >= 2, NEW i \in infos
  PROVE  /\ i.kind = "method" => /\ Facts[i.name].first \notin AllHandles
                                 /\ ~Facts[i.name].release
         /\ i.kind = "callback" => \A m \in Methods :
              Facts[m].taken = i.name => Facts[m].first \notin AllHandles
  <1>1. \A x \in Range(ils) : Passed(1, x)
    BY PassNumbers DEF Passed, Pass
  <1>2. \A h \in AllHandles \ PresetHandles : \E x \in Range(ils) : h \in HandlesOf(x)
    BY HandleNames DEF PassInv, Tables
  <1>3. \A m \in Methods : /\ Facts[m].first \in {None} \cup (AllHandles \ PresetHandles)
                           /\ None \notin AllHandles
    BY MethodsAssumption, NoneAssumption DEF Methods
  <1>4. i.name \in Names /\ i.kind = Kind(i.name)
    BY LeftIsDeclared DEF PassInv
  <1>5. PICK x : x \in Range(ils)
    BY <1>4, LeftIsDeclared DEF PassInv, Tables
  <1>6. i.kind = "method" => /\ \A y \in Range(ils) : Facts[i.name].first \notin HandlesOf(y)
                             /\ ~Facts[i.name].release
    BY <1>1, <1>5 DEF PassInv, Waits, MethodWaits
  <1>7. i.kind = "callback" => \A y \in Range(ils) : \A m \in Methods :
          Facts[m].taken = i.name => Facts[m].first \notin HandlesOf(y)
    BY <1>1 DEF PassInv, Waits, CallbackWaits
  <1>8. i.kind = "method" => i.name \in Methods
    BY <1>4 DEF Methods
  <1>. QED  BY <1>2, <1>3, <1>6, <1>7, <1>8

LEMMA UnhandledPass ==
  ASSUME TypeInv, PassInv, CollectUnhandled
  PROVE  PassInv' /\ PlacedStays
  <1>1. /\ phase = "unhandled" /\ phase' = "done" /\ at' = at /\ ils' = ils
        /\ unhandled' = {i.name : i \in infos} /\ infos' = {}
        /\ UNCHANGED <<docs, documented, interfaces, extras, releases, owned, handles, gen,
                       structs, routed>>
    BY DEF CollectUnhandled, parsed
  <1>2. Pass = 13 /\ Pass' = 14
    BY <1>1, PassNumbers DEF Pass
  <1>3. Turned(Range(ils))
    BY <1>1, <1>2, OneTurn
  <1>4. \A r \in {7, 10, 6, 11, 4, 5} : \A x : Passed(r, x)
    BY <1>2 DEF Passed
  <1>5. ASSUME NEW i \in infos PROVE i.name \in Names /\ OwnerOf[i.name] = "unhandled"
    <2>1. i \in Expected /\ i.kind = Kind(i.name) /\ i.name \in Names
      BY LeftIsDeclared DEF PassInv
    <2>2. i.kind = "constant"
      BY <1>2, <1>4, <2>1, NamesHaveKinds DEF PassInv, Waits
    <2>3. Unclaimed(i.il) /\ Facts[i.name].prefix = None
      BY <1>4, <2>2 DEF PassInv, Waits
    <2>4. OwnerOf[i.name] = ByClass(i.name, GlobalConstants, "unhandled")
      BY <2>1, <2>2, <2>3, OwnerOfOthers
    <2>. QED  BY <2>1, <2>2, <2>3, <2>4, ClassOwner
  <1>6. unhandled = {}
    BY <1>2 DEF PassInv, RightOwners
  <1>7. \A i \in infos : i.name \in unhandled'
    BY <1>1
  <1>8. \A n \in unhandled' : n \in Names /\ OwnerOf[n] = "unhandled"
    BY <1>1, <1>5
  <1>9. \A i \in infos \ infos' : Placed(i.name)'
    BY <1>7 DEF Placed
  <1>10. Later(Range(ils))
    BY <1>1, <1>2, <1>3, <1>6, <1>8, <1>9 DEF Later
  <1>. QED  BY <1>2, <1>10, LaterPass

-----------------------------------------------------------------------------
(* The passes that loop over the interfaces.                               *)

LEMMA TargetIsOwner ==
  ASSUME TypeInv, PassInv, Pass \in {4, 5}, NEW kind \in {"enum", "constant"},
         NEW e \in infos, e.kind = kind
  PROVE  LET t == RouteTarget(e.il, kind) IN
         /\ t # None => t \in gen /\ Right(e.name) = <<t[2], e.name>>
         /\ t = None => Unclaimed(e.il)
  <1>. DEFINE global == IF kind = "constant" THEN GlobalConstants ELSE GlobalEnums
              il == e.il
              n == e.name
              x == IF kind = "enum" THEN Longest(n)
                   ELSE IF Facts[n].prefix = None THEN "unhandled" ELSE Special(n)
              o == ByClass(n, global, x)
  <1>1. e \in Expected /\ kind = Kind(n) /\ n \in Names
    BY LeftIsDeclared DEF PassInv
  <1>2. OwnerOf[n] = o
    <2>1. CASE kind = "enum"
      BY <1>1, <2>1, OwnerOfOthers
    <2>2. CASE kind = "constant"
      BY <1>1, <2>2, OwnerOfOthers
    <2>. QED  BY <2>1, <2>2
  <1>3. handles = AllHandles /\ gen = AllGen
    BY DEF PassInv, Tables
  <1>4. interfaces = AllClasses
    BY NoGetters DEF PassInv, Tables
  <1>5. global = IF e.kind = "enum" THEN GlobalEnums ELSE GlobalConstants
    OBVIOUS
  <1>. HIDE DEF x
  <1>6. /\ ClassOf[il] \in AllClasses =>
              /\ o = IF il \in global THEN Eos ELSE HandleOf[ClassOf[il]]
              /\ il \notin global => HandleOf[ClassOf[il]] \in HandlesOf(il)
        /\ ClassOf[il] \notin AllClasses /\ il \in DOMAIN SpecialHandle => o = SpecialHandle[il]
    BY <1>1, <1>5, ClassOwner
  <1>7. /\ "common" \in DOMAIN ClassOf /\ il \in DOMAIN ClassOf /\ Eos \in AllHandles
        /\ il \in DOMAIN SpecialHandle => SpecialHandle[il] \in AllHandles
        /\ HandlesOf(il) \subseteq AllHandles
    <2>1. il \in Range(ils) /\ ils \in Seq(DOMAIN ClassOf)
      BY DEF TypeInv, ParserType
    <2>2. il \in DOMAIN ClassOf
      BY <2>1 DEF Range
    <2>. QED  BY <2>2, ListingAssumption, HandlesAssumption, HandleNames DEF AllHandles
  <1>8. \A k \in DOMAIN ClassOf : \A h \in AllHandles : <<k, h>> # None
    BY NoneAssumption
  <1>9. <<"common", Eos>> \in AllGen
        /\ (il \in DOMAIN SpecialHandle => <<il, SpecialHandle[il]>> \in AllGen)
    BY DEF AllGen
  <1>10. \A h \in HandlesOf(il) : <<il, h>> \in AllGen
    <2>. SUFFICES ASSUME NEW h \in HandlesOf(il) PROVE <<il, h>> \in AllGen
      OBVIOUS
    <2>1. PICK i \in Expected : i.kind = "handle" /\ i.il = il /\ i.name = h
      BY DEF HandlesOf
    <2>. QED  BY <2>1 DEF AllGen
  <1>. HIDE DEF o, global
  <1>11. CASE ClassOf[il] \in AllClasses /\ il \in global
    <2>1. RouteTarget(il, kind) = <<"common", Eos>>
      BY <1>4, <1>11 DEF RouteTarget, global
    <2>. QED  BY <1>2, <1>3, <1>6, <1>7, <1>8, <1>9, <1>11, <2>1 DEF Right
  <1>12. CASE ClassOf[il] \in AllClasses /\ il \notin global
    <2>1. RouteTarget(il, kind) = <<il, HandleOf[ClassOf[il]]>>
      BY <1>4, <1>12 DEF RouteTarget, global
    <2>. QED  BY <1>2, <1>3, <1>6, <1>7, <1>8, <1>10, <1>12, <2>1 DEF Right
  <1>13. CASE ClassOf[il] \notin AllClasses /\ il \in DOMAIN SpecialHandle
    <2>1. RouteTarget(il, kind) = <<il, SpecialHandle[il]>>
      BY <1>3, <1>4, <1>7, <1>13 DEF RouteTarget
    <2>. QED  BY <1>2, <1>3, <1>6, <1>7, <1>8, <1>9, <1>13, <2>1 DEF Right
  <1>14. CASE Unclaimed(il)
    <2>1. RouteTarget(il, kind) = None
      BY <1>4, <1>14 DEF RouteTarget, Unclaimed
    <2>. QED  BY <1>14, <2>1
  <1>. QED  BY <1>11, <1>12, <1>13, <1>14 DEF Unclaimed

LEMMA InterfacePass ==
  ASSUME TypeInv, PassInv, NEW kind \in {"enum", "constant"}, RouteByInterface(kind)
  PROVE  PassInv' /\ PlacedStays
  <1>. DEFINE il == ils[at]
              target == RouteTarget(il, kind)
              next == IF kind = "enum" THEN "constant" ELSE "cheat method"
  <1>1. /\ phase = kind /\ ils' = ils
        /\ UNCHANGED <<docs, documented, interfaces, extras, releases, handles, gen, structs,
                       unhandled>>
    BY DEF RouteByInterface, parsed
  <1>2. Pass = (IF kind = "enum" THEN 4 ELSE 5)
    BY <1>1, PassNumbers DEF Pass
  <1>3. phase' = next => Pass' = Pass + 1
    <2>1. phase' = next /\ kind = "enum" => Pass' = 5
      BY PassNumbers DEF Pass
    <2>2. phase' = next /\ kind = "constant" => Pass' = 6
      BY AllNumbers, Zenon DEF Pass
    <2>. HIDE DEF next
    <2>. QED  BY <1>2, <2>1, <2>2
  <1>. HIDE DEF next
  <1>4. infos \subseteq Expected /\ routed \cap Left = {}
    BY DEF PassInv
  <1>5. Of(il, kind) \ routed = Of(il, kind)
    BY <1>4, LeftIsDeclared
  <1>6. ASSUME NEW n \in Of(il, kind)
        PROVE  /\ target # None => target \in gen /\ Right(n) = <<target[2], n>>
               /\ target = None => Unclaimed(il)
    <2>1. PICK e \in infos : e.name = n /\ e.il = il /\ e.kind = kind
      BY DEF Of
    <2>. QED  BY <1>2, <2>1, TargetIsOwner
  <1>7. CASE Of(il, kind) = {} \/ target = None
    <2>1. NextPass(next) /\ UNCHANGED <<owned, routed, infos>>
      BY <1>7 DEF RouteByInterface, next
    <2>2. Turned({il}) /\ il \in Range(ils)
      BY <1>1, <1>2, <1>3, <2>1, LoopTurns
    <2>3. ASSUME NEW i \in infos PROVE Turn(i, {il})
      <3>1. i.kind = kind /\ i.il = il => Unclaimed(il)
        BY <1>6, <1>7 DEF Of
      <3>. QED  BY <1>2, <3>1 DEF Turn
    <2>4. Later({il})
      <3>. HIDE DEF il, target
      <3>. QED  BY <1>1, <1>2, <2>1, <2>2, <2>3 DEF Later
    <2>. QED  BY <1>2, <2>4, LaterPass
  <1>8. CASE Of(il, kind) # {} /\ target # None
    <2>1. target \in gen
      BY <1>6, <1>8
    <2>2. /\ owned' = owned \cup {<<target[2], n>> : n \in Of(il, kind)}
          /\ routed' = routed \cup Of(il, kind)
          /\ infos' = Gone(il, Of(il, kind))
          /\ NextPass(next)
      BY <1>5, <1>8, <2>1 DEF RouteByInterface, next
    <2>3. Turned({il}) /\ il \in Range(ils)
      BY <1>1, <1>2, <1>3, <2>2, LoopTurns
    <2>4. \A n \in Of(il, kind) : /\ Right(n) = <<target[2], n>> /\ n \in Names
                                  /\ Right(n) \in owned' /\ Right(n)[2] = n
      BY <1>4, <1>6, <1>8, <2>2, LeftIsDeclared DEF Right
    <2>5. \A p \in owned' \ owned : p[2] \in Names /\ p = Right(p[2])
      BY <2>2, <2>4
    <2>6. infos' \subseteq infos /\ \A i \in infos \ infos' : i.name \in Of(il, kind)
      BY <2>2 DEF Gone
    <2>7. \A i \in infos \ infos' : Placed(i.name)'
      BY <2>4, <2>6 DEF Placed, Right
    <2>8. \A n \in routed' \ routed : \E i \in infos \ infos' : i.name = n
      BY <2>2 DEF Of, Gone
    <2>9. ASSUME NEW i \in infos' PROVE Turn(i, {il})
      <3>1. ~(i.kind = kind /\ i.il = il)
        BY <2>2 DEF Of, Gone
      <3>. QED  BY <1>2, <3>1 DEF Turn
    <2>10. Later({il})
      <3>1. owned \subseteq owned'
        BY <2>2
      <3>2. infos' \subseteq infos /\ {il} \subseteq Range(ils) /\ Pass \in {4, 5}
        BY <1>2, <2>3, <2>6
      <3>3. ~(Pass = 9) /\ ~(Pass = 2)
        BY <3>2
      <3>4. \A p \in owned' \ owned : p \in CopyPairs \/ (p[2] \in Names /\ p = Right(p[2]))
        BY <2>5
      <3>5. /\ structs' \ structs = {} /\ unhandled' \ unhandled = {} /\ handles \subseteq handles'
            /\ structs \subseteq structs' /\ unhandled \subseteq unhandled'
            /\ UNCHANGED <<docs, documented, interfaces, extras, releases, handles, gen>>
        BY <1>1
      <3>. QED  BY <2>3, <2>7, <2>8, <2>9, <3>1, <3>2, <3>3, <3>4, <3>5 DEF Later
    <2>. QED  BY <1>2, <2>10, LaterPass
  <1>. QED  BY <1>7, <1>8

(* The handle found by name is the owner of what comes to these passes.    *)
LEMMA CheatIsOwner ==
  ASSUME TypeInv, PassInv, NEW e \in infos, e.kind \in {"method", "enum", "callback", "constant"},
         Pass \in {6, 7, 10, 11}
  PROVE  /\ CheatAs(e.name) # None => /\ CheatAs(e.name) \in handles
                                      /\ Right(e.name) = <<CheatAs(e.name), e.name>>
         /\ CheatAs(e.name) = None => e.kind = "constant" /\ Facts[e.name].prefix = None
  <1>. DEFINE n == e.name
  <1>1. e \in Expected /\ e.kind = Kind(n) /\ n \in Names
    BY LeftIsDeclared DEF PassInv
  <1>2. handles = AllHandles
    BY DEF PassInv, Tables
  <1>3. None \notin AllHandles
    BY NoneAssumption
  <1>4. Prefixed(n) \in AllHandles /\ Longest(n) \in AllHandles /\ Special(n) \in AllHandles
    BY <1>1, PrefixedIsHandle, SpecialIsHandle
  <1>5. ByPrefix(n) = Prefixed(n) /\ ByWords(n) = Longest(n)
    BY <1>2 DEF ByPrefix, Prefixed, ByWords, Beginning, Longest
  <1>6. /\ n \in DOMAIN Cheats => Kind(n) \in {"method", "callback", "constant"}
        /\ n \in DOMAIN Cheats /\ Kind(n) = "constant" => Facts[n].prefix # None
    BY <1>1, HandlesAssumption
  <1>7. CASE e.kind \in {"method", "callback"}
    <2>1. CheatAs(n) = Special(n)
      BY <1>1, <1>5, <1>7 DEF CheatAs, Special
    <2>2. OwnerOf[n] = Special(n)
      <3>1. CASE e.kind = "method"
        <4>1. Facts[n].first \notin AllHandles /\ ~Facts[n].release
          BY <3>1, LeftByMethods
        <4>. QED  BY <1>1, <3>1, <4>1, OwnerOfMethod DEF Methods
      <3>2. CASE e.kind = "callback"
        <4>1. \A m \in Methods : Facts[m].taken = n => Facts[m].first \notin AllHandles
          BY <3>2, LeftByMethods
        <4>. QED  BY <1>1, <3>2, <4>1, OwnerOfCallback
      <3>. QED  BY <1>7, <3>1, <3>2
    <2>. QED  BY <1>2, <1>3, <1>4, <2>1, <2>2 DEF Right
  <1>8. CASE e.kind = "enum"
    <2>1. CheatAs(n) = Longest(n)
      BY <1>1, <1>5, <1>6, <1>8 DEF CheatAs
    <2>2. Unclaimed(e.il)
      BY <1>8 DEF PassInv, Waits, Passed
    <2>3. OwnerOf[n] = ByClass(n, GlobalEnums, Longest(n))
      BY <1>1, <1>8, OwnerOfOthers
    <2>4. OwnerOf[n] = Longest(n)
      BY <1>1, <1>8, <2>2, <2>3, ClassOwner
    <2>. QED  BY <1>2, <1>3, <1>4, <2>1, <2>4 DEF Right
  <1>9. CASE e.kind = "constant"
    <2>1. CheatAs(n) = IF Facts[n].prefix = None THEN None ELSE Special(n)
      <3>1. CASE n \in DOMAIN Cheats
        BY <1>1, <1>6, <1>9, <3>1 DEF CheatAs, Special
      <3>2. CASE n \notin DOMAIN Cheats
        BY <1>1, <1>5, <1>9, <3>2 DEF CheatAs, Special
      <3>. QED  BY <3>1, <3>2
    <2>2. Unclaimed(e.il)
      BY <1>9 DEF PassInv, Waits, Passed
    <2>. DEFINE x == IF Facts[n].prefix = None THEN "unhandled" ELSE Special(n)
    <2>3. OwnerOf[n] = ByClass(n, GlobalConstants, x)
      BY <1>1, <1>9, OwnerOfOthers
    <2>4. OwnerOf[n] = x
      <3>. HIDE DEF x
      <3>. QED  BY <1>1, <1>9, <2>2, <2>3, ClassOwner
    <2>. QED  BY <1>2, <1>3, <1>4, <1>9, <2>1, <2>4 DEF Right
  <1>. QED  BY <1>7, <1>8, <1>9

CheatNumber == [method |-> 6, enum |-> 7, callback |-> 10, constant |-> 11]

LEMMA CheatNumbers ==
  ASSUME NEW kind \in {"method", "enum", "callback", "constant"}, RouteByCheat(kind)
  PROVE  /\ Pass = CheatNumber[kind]
         /\ phase' = AfterCheat(kind) => Pass' = Pass + 1
  <1>1. phase = CheatPass[kind]
    BY DEF RouteByCheat
  <1>2. CASE kind = "method"
    <2>1. Pass = 6 /\ (phase' = AfterCheat(kind) => Pass' = 7)
      BY <1>1, <1>2, CheatPhases, AllNumbers, Zenon DEF Pass, AfterCheat
    <2>. QED  BY <1>2, <2>1 DEF CheatNumber
  <1>3. CASE kind = "enum"
    <2>1. Pass = 7 /\ (phase' = AfterCheat(kind) => Pass' = 8)
      BY <1>1, <1>3, CheatPhases, AllNumbers, Zenon DEF Pass, AfterCheat
    <2>. QED  BY <1>3, <2>1 DEF CheatNumber
  <1>4. CASE kind = "callback"
    <2>1. Pass = 10 /\ (phase' = AfterCheat(kind) => Pass' = 11)
      BY <1>1, <1>4, CheatPhases, AllNumbers, Zenon DEF Pass, AfterCheat
    <2>. QED  BY <1>4, <2>1 DEF CheatNumber
  <1>5. CASE kind = "constant"
    <2>1. Pass = 11 /\ (phase' = AfterCheat(kind) => Pass' = 12)
      BY <1>1, <1>5, CheatPhases, AllNumbers, Zenon DEF Pass, AfterCheat
    <2>. QED  BY <1>5, <2>1 DEF CheatNumber
  <1>. QED  BY <1>2, <1>3, <1>4, <1>5

LEMMA CheatPasses ==
  ASSUME TypeInv, PassInv, NEW kind \in {"method", "enum", "callback", "constant"},
         RouteByCheat(kind)
  PROVE  PassInv' /\ PlacedStays
  <1>. DEFINE il == ils[at]
              new == {n \in Of(il, kind) : CheatAs(n) # None}
  <1>1. /\ ils' = ils
        /\ UNCHANGED <<docs, documented, interfaces, extras, releases, handles, gen, structs,
                       unhandled>>
    BY DEF RouteByCheat, parsed
  <1>2. Pass = CheatNumber[kind] /\ (phase' = AfterCheat(kind) => Pass' = Pass + 1)
    BY CheatNumbers
  <1>3. Pass \in {6, 7, 10, 11}
    BY <1>2 DEF CheatNumber
  <1>4. infos \subseteq Expected /\ routed \cap Left = {}
    BY DEF PassInv
  <1>5. Of(il, kind) \ routed = Of(il, kind) /\ Of(il, kind) \cap routed = {}
    BY <1>4, LeftIsDeclared
  <1>6. ASSUME NEW n \in Of(il, kind)
        PROVE  /\ n \in Names
               /\ n \in new => CheatAs(n) \in handles /\ Right(n) = <<CheatAs(n), n>>
               /\ n \notin new => kind = "constant" /\ Facts[n].prefix = None
    <2>1. PICK e \in infos : e.name = n /\ e.il = il /\ e.kind = kind
      BY DEF Of
    <2>. QED  BY <1>3, <1>4, <2>1, LeftIsDeclared, CheatIsOwner
  <1>7. /\ owned' = owned \cup {<<CheatAs(n), n>> : n \in new}
        /\ routed' = routed \cup new
        /\ infos' = Gone(il, new)
        /\ NextPass(AfterCheat(kind))
    <2>1. {n \in Of(il, kind) \ routed : CheatAs(n) # None} = new
      BY <1>5
    <2>2. ~\E n \in new : CheatAs(n) \notin handles
      BY <1>6
    <2>3. new \cup (Of(il, kind) \cap routed) = new
      BY <1>5
    <2>. HIDE DEF new
    <2>. QED  BY <2>1, <2>2, <2>3 DEF RouteByCheat
  <1>8. Turned({il}) /\ il \in Range(ils)
    BY <1>1, <1>2, <1>3, <1>7, LoopTurns
  <1>9. \A n \in new : /\ Right(n) = <<CheatAs(n), n>> /\ n \in Names
                       /\ Right(n) \in owned' /\ Right(n)[2] = n
    BY <1>6, <1>7 DEF Right
  <1>10. \A p \in owned' \ owned : p[2] \in Names /\ p = Right(p[2])
    BY <1>7, <1>9
  <1>11. infos' \subseteq infos /\ \A i \in infos \ infos' : i.name \in new
    BY <1>7 DEF Gone
  <1>12. \A i \in infos \ infos' : Placed(i.name)'
    BY <1>9, <1>11 DEF Placed, Right
  <1>13. \A n \in routed' \ routed : \E i \in infos \ infos' : i.name = n
    BY <1>7 DEF Of, Gone
  <1>14. ASSUME NEW i \in infos' PROVE Turn(i, {il})
    <2>1. i.kind = kind /\ i.il = il => kind = "constant" /\ Facts[i.name].prefix = None
      <3>1. i \in infos /\ (i.il = il => i.name \notin new)
        BY <1>7 DEF Gone
      <3>2. i.kind = kind /\ i.il = il => i.name \in Of(il, kind)
        BY <3>1 DEF Of
      <3>. QED  BY <1>6, <3>1, <3>2
    <2>2. /\ i.kind = "enum" /\ Pass = 7 => kind = "enum"
          /\ i.kind = "method" /\ Pass = 6 => kind = "method"
          /\ i.kind = "callback" /\ Pass = 10 => kind = "callback"
          /\ i.kind = "constant" /\ Pass = 11 => kind = "constant"
      BY <1>2 DEF CheatNumber
    <2>. QED  BY <1>3, <2>1, <2>2 DEF Turn
  <1>15. Later({il})
    <2>1. owned \subseteq owned'
      BY <1>7
    <2>2. Pass # 2 /\ Pass # 9 /\ Pass # 13
      BY <1>3
    <2>. HIDE DEF il, new
    <2>. QED  BY <1>1, <1>3, <1>8, <1>10, <1>11, <1>12, <1>13, <1>14, <2>1, <2>2 DEF Later
  <1>. QED  BY <1>3, <1>15, LaterPass

-----------------------------------------------------------------------------
(* The pass over the methods, for one interface.                           *)

Taking(il) == {m \in Mine(il) \cup ForeignReleases(il) : Facts[m].taken # None}
Moved(il) == {<<Facts[m].first, Facts[m].taken>> : m \in Taking(il)}
TakenOut(il) == Getters \cup Mine(il) \cup ForeignReleases(il) \cup FreeReleases
                  \cup {p[2] : p \in Moved(il)}

(* What the assumptions say of a method.                                   *)
LEMMA MethodFacts ==
  ASSUME NEW m \in Methods
  PROVE  /\ m \in Names /\ m \in DOMAIN Facts /\ Kind(m) = "method"
         /\ Facts[m].first \in {None} \cup (AllHandles \ PresetHandles)
         /\ Facts[m].release => Facts[m].taken = None
         /\ Facts[m].getter # None => Facts[m].first # None /\ Facts[m].taken = None
         /\ Facts[m].first # None /\ Facts[m].taken # None =>
               /\ Facts[m].taken \in Names /\ Kind(Facts[m].taken) = "callback"
               /\ IlOf(Facts[m].taken) = IlOf(m)
         /\ \A n \in Methods : Facts[m].taken # None /\ Facts[m].taken = Facts[n].taken => m = n
         /\ \A x : Facts[m].first \in HandlesOf(x) => Facts[m].first # None
  <1>1. \A n \in Methods : n \in Names /\ n \in DOMAIN Facts /\ Kind(n) = "method"
    BY NamesHaveKinds DEF Methods
  <1>2. \A n \in Methods : Facts[m].taken # None /\ Facts[m].taken = Facts[n].taken => m = n
    BY <1>1, OneTaker
  <1>3. \A x : None \notin HandlesOf(x)
    BY NoneAssumption, HandleNames
  <1>4. m \in {n \in Names : Kind(n) = "method"}
    BY <1>1
  <1>. QED  BY <1>1, <1>2, <1>3, <1>4, MethodsAssumption

LEMMA MethodsToRoute ==
  ASSUME TypeInv, PassInv, Pass = 1, NEW il
  PROVE  /\ Of(il, "handle") = HandlesOf(il)
         /\ \A m : m \in Getters <=> m \in Left \cap Methods /\ Facts[m].getter # None
         /\ \A m : m \in Mine(il) <=>
              m \in Left \cap Methods /\ Facts[m].getter = None /\ Facts[m].first \in HandlesOf(il)
         /\ \A m : m \in ForeignReleases(il) <=>
              /\ m \in Left \cap Methods /\ Facts[m].getter = None /\ Facts[m].release
              /\ Facts[m].first # None /\ Facts[m].first \notin HandlesOf(il)
         /\ \A m : m \in FreeReleases <=>
              /\ m \in Left \cap Methods /\ Facts[m].getter = None /\ Facts[m].release
              /\ Facts[m].first = None
         /\ \A m : m \in Taking(il) <=> m \in Mine(il) /\ Facts[m].taken # None
  <1>1. infos \subseteq Expected /\ \A e \in Expected : e.kind = "handle" => e \in infos
    BY DEF PassInv, Unmoved
  <1>2. Of(il, "handle") = HandlesOf(il)
    BY <1>1 DEF Of, HandlesOf
  <1>3. \A m : m \in All("method") <=> m \in Left \cap Methods
    BY <1>1, LeftIsDeclared DEF Methods
  <1>4. \A m : m \in Getters <=> m \in Left \cap Methods /\ Facts[m].getter # None
    BY <1>3 DEF Getters
  <1>5. \A m : m \in Mine(il) <=>
          m \in Left \cap Methods /\ Facts[m].getter = None /\ Facts[m].first \in HandlesOf(il)
    BY <1>2, <1>3, <1>4 DEF Mine
  <1>6. \A m : m \in ForeignReleases(il) <=>
          /\ m \in Left \cap Methods /\ Facts[m].getter = None /\ Facts[m].release
          /\ Facts[m].first # None /\ Facts[m].first \notin HandlesOf(il)
    BY <1>3, <1>4, <1>5 DEF ForeignReleases
  <1>7. \A m : m \in FreeReleases <=>
          /\ m \in Left \cap Methods /\ Facts[m].getter = None /\ Facts[m].release
          /\ Facts[m].first = None
    BY <1>3, <1>4 DEF FreeReleases
  <1>8. \A m : m \in Taking(il) <=> m \in Mine(il) /\ Facts[m].taken # None
    BY <1>6, MethodFacts DEF Taking
  <1>. QED  BY <1>2, <1>4, <1>5, <1>6, <1>7, <1>8

(* The callback of each method is there, and no other method's.            *)
LEMMA CallbacksFound ==
  ASSUME TypeInv, PassInv, Pass = 1, NEW il, NEW m \in Taking(il)
  PROVE  CallbackFound(il, m, Taking(il))
  <1>1. m \in Mine(il) /\ Facts[m].taken # None
    BY MethodsToRoute
  <1>2. m \in Left /\ m \in Methods /\ Facts[m].first \in HandlesOf(il)
    BY <1>1, MethodsToRoute
  <1>3. Facts[m].first \in Of(il, "handle")
    BY <1>2, MethodsToRoute
  <1>4. PICK i \in infos : i.name = m
    BY <1>2 DEF Left
  <1>5. i.il = IlOf(m)
    BY <1>4, LeftIsDeclared DEF PassInv
  <1>6. /\ Facts[m].first # None /\ Facts[m].taken \in Names
        /\ Kind(Facts[m].taken) = "callback" /\ IlOf(Facts[m].taken) = IlOf(m)
    BY <1>1, <1>2, MethodFacts
  <1>7. Facts[m].taken \in Left
    BY <1>1, <1>2, <1>6 DEF PassInv, Unmoved
  <1>8. Facts[m].taken \in Of(i.il, "callback")
    BY <1>5, <1>6, <1>7, LeftIsDeclared DEF PassInv
  <1>9. ASSUME NEW n \in Taking(il), n # m PROVE Facts[n].taken # Facts[m].taken
    <2>1. n \in Methods
      BY MethodsToRoute
    <2>. QED  BY <1>1, <1>2, <1>9, <2>1, MethodFacts
  <1>. QED  BY <1>3, <1>4, <1>8, <1>9 DEF CallbackFound

LEMMA RouteMethodsDoes ==
  ASSUME TypeInv, PassInv, RouteMethods, NEW il, il = ils[at]
  PROVE  /\ phase = "methods" /\ Pass = 1 /\ il \in Range(ils) /\ il \in DOMAIN ClassOf
         /\ Turned({il})
         /\ interfaces' = interfaces \cup {Facts[m].getter : m \in Getters}
         /\ extras' = extras \cup {<<Facts[m].first, m>> : m \in Getters \cup ForeignReleases(il)}
         /\ owned' = owned \cup {<<Facts[m].first, m>> : m \in Mine(il)} \cup Moved(il)
         /\ releases' = releases \cup FreeReleases
         /\ infos' = Without(TakenOut(il))
         /\ documented' = IF docs[il] = None THEN documented
                          ELSE {d \in documented : d.of # docs[il].of} \cup {docs[il]}
         /\ docs' = [docs EXCEPT ![il] = None]
         /\ UNCHANGED <<ils, handles, gen, structs, routed, unhandled>>
  <1>1. phase = "methods"
    BY DEF RouteMethods
  <1>2. Pass = 1 /\ handles = PresetHandles
    BY <1>1, PassNumbers DEF Pass, PassInv, Tables
  <1>. DEFINE taking == {m \in Mine(il) \cup ForeignReleases(il) : Facts[m].taken # None}
              moved == {<<Facts[m].first, Facts[m].taken>> : m \in taking}
              Wrong == \/ \E m \in taking : ~CallbackFound(il, m, taking)
                       \/ docs[il] # None /\ docs[il].of \notin Of(il, "handle") \cup handles
  <1>3. taking = Taking(il) /\ moved = Moved(il)
    BY DEF Taking, Moved
  <1>4. \A m \in taking : CallbackFound(il, m, taking)
    BY <1>2, <1>3, CallbacksFound
  <1>5. il \in Range(ils) /\ il \in DOMAIN ClassOf
    <2>1. at \in DOMAIN ils
      BY <1>1 DEF TypeInv, TypeOK
    <2>2. ils \in Seq(DOMAIN ClassOf)
      BY DEF TypeInv, ParserType
    <2>. QED  BY <2>1, <2>2 DEF Range
  <1>6. docs[il] # None => docs[il].of \in Of(il, "handle") \cup handles
    <2>. SUFFICES ASSUME docs[il] # None PROVE docs[il].of \in Of(il, "handle") \cup handles
      OBVIOUS
    <2>1. docs[il] \in OwnDocs /\ ReadFor(docs[il].from) = il
      BY <1>5 DEF PassInv, DocsPassed
    <2>2. docs[il].of \in HandlesOf(il) \cup PresetHandles
      BY <2>1, DocsAssumption
    <2>. QED  BY <1>2, <2>2, MethodsToRoute
  <1>7. ~Wrong
    BY <1>4, <1>6
  <1>8. /\ interfaces' = interfaces \cup {Facts[m].getter : m \in Getters}
        /\ extras' = extras \cup {<<Facts[m].first, m>> : m \in Getters \cup ForeignReleases(il)}
        /\ owned' = owned \cup {<<Facts[m].first, m>> : m \in Mine(il)} \cup moved
        /\ releases' = releases \cup FreeReleases
        /\ infos' = Without(Getters \cup Mine(il) \cup ForeignReleases(il) \cup FreeReleases
                              \cup {p[2] : p \in moved})
        /\ documented' = IF docs[il] = None THEN documented
                         ELSE {d \in documented : d.of # docs[il].of} \cup {docs[il]}
        /\ docs' = [docs EXCEPT ![il] = None]
        /\ NextPass("merge")
        /\ UNCHANGED <<ils, handles, gen, structs, routed, unhandled>>
    BY <1>7 DEF RouteMethods
  <1>9. Turned({il})
    <2>1. phase' = "merge" => Pass' = Pass + 1
      BY <1>2, PassNumbers DEF Pass
    <2>. QED  BY <1>2, <1>8, <2>1, LoopTurns
  <1>. QED  BY <1>1, <1>2, <1>3, <1>5, <1>8, <1>9 DEF TakenOut

(* What one turn of the pass takes out of infos.                           *)
LEMMA TakenOutIs ==
  ASSUME TypeInv, PassInv, Pass = 1, NEW il
  PROVE  /\ \A m \in Left \cap Methods :
              m \in TakenOut(il) <=>
                \/ Facts[m].getter # None
                \/ Facts[m].release
                \/ Facts[m].first \in HandlesOf(il)
         /\ \A n \in Left : Kind(n) = "callback" =>
              (n \in TakenOut(il) <=> \E m \in Taking(il) : Facts[m].taken = n)
         /\ \A n \in Left : Kind(n) \notin {"method", "callback"} => n \notin TakenOut(il)
  <1>1. \A m \in Taking(il) :
          /\ m \in Methods /\ Facts[m].taken \in Names /\ Kind(Facts[m].taken) = "callback"
    BY MethodsToRoute, MethodFacts
  <1>2. ASSUME NEW n
        PROVE  n \in {p[2] : p \in Moved(il)} <=> \E m \in Taking(il) : Facts[m].taken = n
    <2>1. \A m \in Taking(il) : <<Facts[m].first, Facts[m].taken>> \in Moved(il)
      BY Zenon DEF Moved
    <2>2. \A p \in Moved(il) : \E m \in Taking(il) : p = <<Facts[m].first, Facts[m].taken>>
      BY Zenon DEF Moved
    <2>3. \A m \in Taking(il) : <<Facts[m].first, Facts[m].taken>>[2] = Facts[m].taken
      OBVIOUS
    <2>4. n \in {p[2] : p \in Moved(il)} <=> \E p \in Moved(il) : p[2] = n
      BY Zenon
    <2>5. ASSUME NEW p \in Moved(il), p[2] = n PROVE \E m \in Taking(il) : Facts[m].taken = n
      <3>1. PICK m \in Taking(il) : p = <<Facts[m].first, Facts[m].taken>>
        BY <2>2
      <3>2. Facts[m].taken = n
        BY <2>3, <2>5, <3>1
      <3>. QED  BY <3>2
    <2>6. ASSUME NEW m \in Taking(il), Facts[m].taken = n PROVE \E p \in Moved(il) : p[2] = n
      BY <2>1, <2>3, <2>6
    <2>. QED  BY <2>4, <2>5, <2>6, Zenon
  <1>3. \A m \in Methods : Kind(m) = "method"
    BY DEF Methods
  <1>4. \A m \in Getters \cup Mine(il) \cup ForeignReleases(il) \cup FreeReleases : m \in Methods
    BY MethodsToRoute
  <1>5. \A n : n \in TakenOut(il) <=>
          \/ n \in Getters \cup Mine(il) \cup ForeignReleases(il) \cup FreeReleases
          \/ \E m \in Taking(il) : Facts[m].taken = n
    BY <1>2 DEF TakenOut
  <1>6. ASSUME NEW m \in Left \cap Methods
        PROVE  m \in TakenOut(il) <=>
                \/ Facts[m].getter # None
                \/ Facts[m].release
                \/ Facts[m].first \in HandlesOf(il)
    <2>1. ~\E x \in Taking(il) : Facts[x].taken = m
      BY <1>1, <1>3
    <2>2. m \in Getters \cup Mine(il) \cup ForeignReleases(il) \cup FreeReleases <=>
                \/ Facts[m].getter # None
                \/ Facts[m].release
                \/ Facts[m].first \in HandlesOf(il)
      BY MethodsToRoute
    <2>. QED  BY <1>5, <2>1, <2>2
  <1>7. ASSUME NEW n \in Left, Kind(n) = "callback"
        PROVE  n \in TakenOut(il) <=> \E m \in Taking(il) : Facts[m].taken = n
    <2>1. n \notin Methods
      BY <1>3, <1>7
    <2>. QED  BY <1>4, <1>5, <2>1
  <1>8. ASSUME NEW n \in Left, Kind(n) \notin {"method", "callback"}
        PROVE  n \notin TakenOut(il)
    <2>1. n \notin Methods
      BY <1>3, <1>8
    <2>. QED  BY <1>1, <1>4, <1>5, <1>8, <2>1
  <1>. QED  BY <1>6, <1>7, <1>8

(* What it hands out goes to whom it belongs to.                           *)
LEMMA RoutedRight ==
  ASSUME TypeInv, PassInv, Pass = 1, NEW il
  PROVE  /\ \A m \in Mine(il) : m \in Names /\ Right(m) = <<Facts[m].first, m>>
         /\ \A m \in Taking(il) :
              /\ Facts[m].taken \in Names
              /\ Right(Facts[m].taken) = <<Facts[m].first, Facts[m].taken>>
         /\ \A m \in Getters \cup ForeignReleases(il) :
              m \in Methods /\ Facts[m].first \in AllHandles
         /\ \A m \in FreeReleases : m \in Methods /\ OwnerOf[m] = "release"
  <1>1. \A x : HandlesOf(x) \subseteq AllHandles
    BY HandleNames
  <1>2. ASSUME NEW m \in Mine(il) PROVE m \in Names /\ Right(m) = <<Facts[m].first, m>>
    <2>1. m \in Methods /\ Facts[m].first \in AllHandles
      BY <1>1, MethodsToRoute
    <2>. QED  BY <2>1, OwnerOfMethod, MethodFacts DEF Right
  <1>3. ASSUME NEW m \in Taking(il)
        PROVE  /\ Facts[m].taken \in Names
               /\ Right(Facts[m].taken) = <<Facts[m].first, Facts[m].taken>>
    <2>1. /\ m \in Methods /\ Facts[m].first \in AllHandles /\ Facts[m].taken # None
          /\ Facts[m].first \in HandlesOf(il)
      BY <1>1, MethodsToRoute
    <2>2. Facts[m].taken \in Names /\ Kind(Facts[m].taken) = "callback"
      BY <2>1, MethodFacts
    <2>3. OwnerOf[Facts[m].taken] = Facts[m].first
      BY <2>1, <2>2, OwnerOfCallback
    <2>. QED  BY <2>2, <2>3 DEF Right
  <1>4. ASSUME NEW m \in Getters \cup ForeignReleases(il)
        PROVE  m \in Methods /\ Facts[m].first \in AllHandles
    BY MethodsToRoute, MethodFacts
  <1>5. ASSUME NEW m \in FreeReleases PROVE m \in Methods /\ OwnerOf[m] = "release"
    <2>1. m \in Methods /\ Facts[m].release /\ Facts[m].first = None
      BY MethodsToRoute
    <2>2. None \notin AllHandles
      BY NoneAssumption
    <2>. QED  BY <2>1, <2>2, OwnerOfMethod
  <1>. QED  BY <1>2, <1>3, <1>4, <1>5

(* Each interface's doc goes to its handle.                                *)
LEMMA DocsRouted ==
  ASSUME TypeInv, PassInv, Pass = 1, NEW il \in DOMAIN ClassOf, Turned({il}),
         documented' = IF docs[il] = None THEN documented
                       ELSE {d \in documented : d.of # docs[il].of} \cup {docs[il]},
         docs' = [docs EXCEPT ![il] = None]
  PROVE  DocsPassed'
  <1>1. ils' = ils /\ DocsPassed
    BY DEF PassInv, Turned
  <1>2. DOMAIN docs = DOMAIN ClassOf
    BY DEF TypeInv, ParserType
  <1>3. docs'[il] = None /\ \A x \in DOMAIN ClassOf : x # il => docs'[x] = docs[x]
    BY <1>2
  <1>4. docs[il] # None => docs[il] \in OwnDocs /\ ReadFor(docs[il].from) = il
    BY <1>1 DEF DocsPassed
  <1>5. \A c, d \in OwnDocs : c.of = d.of => c = d
    BY DocsAssumption
  <1>6. documented' \subseteq OwnDocs
    BY <1>1, <1>4 DEF DocsPassed
  <1>7. \A x \in DOMAIN ClassOf :
          docs'[x] # None => docs'[x] \in OwnDocs /\ ReadFor(docs'[x].from) = x
    BY <1>1, <1>3 DEF DocsPassed
  <1>8. ASSUME NEW d \in OwnDocs
        PROVE  /\ ReadFor(d.from) \in Range(ils)
               /\ d \in documented' \/ (docs'[ReadFor(d.from)] = d /\ ~Passed(1, ReadFor(d.from))')
    <2>1. /\ ReadFor(d.from) \in Range(ils)
          /\ d \in documented \/ (docs[ReadFor(d.from)] = d /\ ~Passed(1, ReadFor(d.from)))
      BY <1>1 DEF DocsPassed
    <2>2. ReadFor(d.from) \in DOMAIN ClassOf
      <3>1. ils \in Seq(DOMAIN ClassOf)
        BY DEF TypeInv, ParserType
      <3>. QED  BY <2>1, <3>1 DEF Range
    <2>3. CASE d \in documented
      BY <1>4, <1>5, <2>1, <2>3
    <2>4. CASE d \notin documented /\ ReadFor(d.from) = il
      <3>1. docs[il] = d /\ d # None
        BY <2>1, <2>4, NoneAssumption
      <3>. QED  BY <2>1, <3>1
    <2>5. CASE d \notin documented /\ ReadFor(d.from) # il
      <3>1. docs'[ReadFor(d.from)] = d
        BY <1>3, <2>1, <2>2, <2>5
      <3>2. ~Passed(1, ReadFor(d.from))'
        BY <2>1, <2>5 DEF Turned
      <3>. QED  BY <2>1, <3>1, <3>2
    <2>. QED  BY <2>3, <2>4, <2>5
  <1>. QED  BY <1>1, <1>6, <1>7, <1>8 DEF DocsPassed

LEMMA MethodsPass ==
  ASSUME TypeInv, PassInv, RouteMethods
  PROVE  PassInv' /\ PlacedStays
  <1>. DEFINE il == ils[at]
  <1>1. /\ Pass = 1 /\ il \in Range(ils) /\ il \in DOMAIN ClassOf /\ Turned({il})
        /\ interfaces' = interfaces \cup {Facts[m].getter : m \in Getters}
        /\ extras' = extras \cup {<<Facts[m].first, m>> : m \in Getters \cup ForeignReleases(il)}
        /\ owned' = owned \cup {<<Facts[m].first, m>> : m \in Mine(il)} \cup Moved(il)
        /\ releases' = releases \cup FreeReleases
        /\ infos' = Without(TakenOut(il))
        /\ UNCHANGED <<ils, handles, gen, structs, routed, unhandled>>
    BY RouteMethodsDoes
  <1>2. DocsPassed'
    <2>1. /\ documented' = IF docs[il] = None THEN documented
                           ELSE {d \in documented : d.of # docs[il].of} \cup {docs[il]}
          /\ docs' = [docs EXCEPT ![il] = None]
      BY RouteMethodsDoes
    <2>. HIDE DEF il
    <2>. QED  BY <1>1, <2>1, DocsRouted
  <1>. HIDE DEF il
  <1>3. /\ Pass' \in {1, 2} /\ ils' = ils /\ infos \subseteq Expected /\ infos' \subseteq infos
        /\ routed \cap Left = {}
    BY <1>1 DEF Turned, PassInv, Without
  <1>4. Left' = Left \ TakenOut(il)
    BY <1>1 DEF Left, Without
  <1>5. routed' \cap Left' = {}
    BY <1>1, <1>3, <1>4
  <1>6. \A n \in Left' \cap Methods : /\ Facts[n].getter = None /\ ~Facts[n].release
                                      /\ Facts[n].first \notin HandlesOf(il)
    BY <1>1, <1>4, TakenOutIs
  <1>7. Tables'
    <2>1. Getters' = {}
      <3>1. \A n \in All("method")' : n \in Left' \cap Methods
        <4>1. \A i \in infos' : i.kind = Kind(i.name) /\ i.name \in Names
          BY <1>3, LeftIsDeclared
        <4>. QED  BY <4>1 DEF All, Left, Methods
      <3>. QED  BY <1>6, <3>1 DEF Getters
    <2>2. interfaces' \cup {Facts[m].getter : m \in Getters'} = AllClasses
      BY <1>1, <2>1 DEF PassInv, Tables
    <2>3. Pass' \in {2, 3, 8, 9, 12, 13, 14} => at' = 1
      BY <1>1 DEF Turned
    <2>4. handles' = PresetHandles /\ \A e \in Expected : e.il \in Range(ils')
      BY <1>1 DEF PassInv, Tables
    <2>. QED  BY <1>3, <2>2, <2>3, <2>4 DEF Tables
  <1>8. RightOwners'
    <2>1. ASSUME NEW p \in extras'
          PROVE  /\ p[2] \in Methods /\ Facts[p[2]].first \in AllHandles
                 /\ p = <<Facts[p[2]].first, p[2]>>
      <3>1. CASE p \in extras
        BY <3>1 DEF PassInv, RightOwners
      <3>2. CASE p \notin extras
        <4>1. PICK m \in Getters \cup ForeignReleases(il) : p = <<Facts[m].first, m>>
          BY <1>1, <3>2
        <4>. QED  BY <1>1, <4>1, RoutedRight
      <3>. QED  BY <3>1, <3>2
    <2>2. ASSUME NEW p \in owned'
          PROVE  p \in CopyPairs \/ (p[2] \in Names /\ p = Right(p[2]))
      <3>1. CASE p \in owned
        BY <3>1 DEF PassInv, RightOwners
      <3>2. CASE p \in {<<Facts[m].first, m>> : m \in Mine(il)}
        <4>1. PICK m \in Mine(il) : p = <<Facts[m].first, m>>
          BY <3>2
        <4>. QED  BY <1>1, <4>1, RoutedRight
      <3>3. CASE p \in Moved(il)
        <4>1. PICK m \in Taking(il) : p = <<Facts[m].first, Facts[m].taken>>
          BY <3>3, Zenon DEF Moved
        <4>2. Facts[m].taken \in Names /\ Right(Facts[m].taken) = p
          BY <1>1, <4>1, RoutedRight
        <4>. QED  BY <4>1, <4>2
      <3>. QED  BY <1>1, <3>1, <3>2, <3>3
    <2>3. ASSUME NEW n \in releases' PROVE n \in Methods /\ OwnerOf[n] = "release"
      BY <1>1, RoutedRight DEF PassInv, RightOwners
    <2>4. unhandled = {} /\ \A n \in structs : n \in Names /\ Kind(n) = "struct"
      BY <1>1 DEF PassInv, RightOwners
    <2>. QED  BY <1>1, <2>1, <2>2, <2>3, <2>4 DEF RightOwners
  <1>9. PlacedStays
    BY <1>1 DEF PlacedStays, Placed
  <1>10. NothingLost'
    <2>. SUFFICES ASSUME NEW n \in Names
                  PROVE  \/ n \in Left' \/ Placed(n)' \/ \E p \in extras' : p[2] = n
      BY <1>3 DEF NothingLost
    <2>1. CASE Placed(n)
      BY <1>9, <2>1 DEF PlacedStays
    <2>2. CASE \E p \in extras : p[2] = n
      BY <1>1, <2>2
    <2>3. CASE n \in TakenOut(il)
      <3>1. CASE n \in Getters \cup ForeignReleases(il)
        <4>1. <<Facts[n].first, n>> \in extras' /\ <<Facts[n].first, n>>[2] = n
          BY <1>1, <3>1
        <4>. QED  BY <4>1
      <3>2. CASE n \in FreeReleases
        BY <1>1, <3>2 DEF Placed
      <3>3. CASE n \in Mine(il)
        BY <1>1, <3>3, RoutedRight DEF Placed
      <3>4. CASE n \in {p[2] : p \in Moved(il)}
        <4>1. PICK p \in Moved(il) : p[2] = n
          BY <3>4
        <4>2. PICK m \in Taking(il) : p = <<Facts[m].first, Facts[m].taken>>
          BY <4>1, Zenon DEF Moved
        <4>3. Facts[m].taken = n /\ Right(n) = p
          BY <1>1, <4>1, <4>2, RoutedRight
        <4>. QED  BY <1>1, <4>1, <4>3 DEF Placed
      <3>. QED  BY <2>3, <3>1, <3>2, <3>3, <3>4 DEF TakenOut
    <2>. QED  BY <1>1, <1>4, <2>1, <2>2, <2>3 DEF PassInv, NothingLost
  <1>11. ASSUME NEW i \in infos' PROVE Waits(i)'
    <2>1. i \in infos /\ i.il \in Range(ils) /\ Waits(i) /\ i.name \in Left' /\ i.name \in Names
          /\ i.kind = Kind(i.name)
      BY <1>3, LeftIsDeclared DEF PassInv, Tables, Left
    <2>2. i.kind = "method" => MethodWaits(i.name, il)
      BY <1>6, <2>1 DEF MethodWaits, Methods
    <2>3. ASSUME i.kind = "callback", NEW m \in Methods, Facts[m].taken = i.name
          PROVE  Facts[m].first \notin HandlesOf(il)
      <3>. SUFFICES ASSUME Facts[m].first \in HandlesOf(il) PROVE FALSE
        OBVIOUS
      <3>1. i.name # None /\ Facts[m].first # None /\ Facts[m].getter = None
        BY <2>1, <2>3, MethodFacts, NoneAssumption
      <3>2. m \in Left
        BY <1>1, <1>4, <2>1, <2>3, <3>1 DEF PassInv, Unmoved
      <3>3. m \in Taking(il)
        BY <1>1, <2>3, <3>1, <3>2, MethodsToRoute
      <3>. QED  BY <1>1, <1>4, <2>1, <2>3, <3>3, TakenOutIs
    <2>4. Turn(i, {il})
      BY <1>1, <2>2, <2>3 DEF Turn, CallbackWaits
    <2>. QED  BY <1>1, <2>1, <2>4, StillWaits
  <1>12. Unmoved'
    <2>1. ASSUME NEW e \in Expected, e.kind = "handle" PROVE e \in infos'
      <3>1. e \in infos
        BY <1>1, <2>1 DEF PassInv, Unmoved
      <3>2. e.name \in Left /\ Kind(e.name) = "handle"
        BY <1>3, <2>1, <3>1, LeftIsDeclared
      <3>3. e.name \notin TakenOut(il)
        BY <1>1, <3>2, TakenOutIs
      <3>. QED  BY <1>1, <3>1, <3>3 DEF Without
    <2>2. ASSUME NEW m \in Methods, Facts[m].first # None, Facts[m].taken # None
          PROVE  m \in Left' <=> Facts[m].taken \in Left'
      <3>1. /\ Facts[m].getter = None /\ ~Facts[m].release
            /\ Facts[m].taken \in Names /\ Kind(Facts[m].taken) = "callback"
        BY <2>2, MethodFacts
      <3>2. m \in Left <=> Facts[m].taken \in Left
        BY <1>1, <2>2 DEF PassInv, Unmoved
      <3>3. m \in Left' <=> m \in Left /\ Facts[m].first \notin HandlesOf(il)
        BY <1>1, <1>4, <3>1, TakenOutIs
      <3>4. \A x \in Taking(il) : x \in Methods
        BY <1>1, MethodsToRoute
      <3>5. (\E x \in Taking(il) : Facts[x].taken = Facts[m].taken) <=> m \in Taking(il)
        BY <2>2, <3>4, MethodFacts
      <3>6. m \in Taking(il) <=> m \in Left /\ Facts[m].first \in HandlesOf(il)
        BY <1>1, <2>2, <3>1, MethodsToRoute
      <3>7. Facts[m].taken \in Left' <=> Facts[m].taken \in Left /\ m \notin Taking(il)
        BY <1>1, <1>4, <3>1, <3>5, TakenOutIs
      <3>. QED  BY <3>2, <3>3, <3>6, <3>7
    <2>. QED  BY <1>3, <2>1, <2>2 DEF Unmoved
  <1>. QED  BY <1>1, <1>2, <1>3, <1>5, <1>7, <1>8, <1>9, <1>10, <1>11, <1>12 DEF PassInv

-----------------------------------------------------------------------------
(* The passes from beginning to end.                                       *)

LEMMA ResolvedInit == Init => ResolvedInv
  BY DEF Init, ResolvedInv, Fresh

LEMMA ParsingStays ==
  ASSUME ParsedInv, ResolvedInv, Parse \/ ParseFirst \/ \E h \in Headers : ListHeader(h)
  PROVE  ResolvedInv' /\ PlacedStays
  <1>1. phase \in {"first", "list"}
    <2>1. CASE Parse
      <3>1. stack # <<>>
        BY <2>1 DEF Parse, ParseStep, Include, Return, InterfaceDoc, ApiLatest, Declare, EnumStart,
                    Reading
      <3>. QED  BY <3>1 DEF ParsedInv
    <2>2. CASE ParseFirst \/ \E h \in Headers : ListHeader(h)
      BY <2>2 DEF ParseFirst, ListHeader
    <2>. QED  BY <2>1, <2>2
  <1>2. phase' \in {"first", "list"} /\ UNCHANGED resolved
    BY <1>1 DEF Parse, ParseFirst, ListHeader
  <1>3. phase' = "list" => at' = 1
    BY <1>1 DEF Parse, ParseFirst, ListHeader, ResolvedInv, Fresh
  <1>4. Fresh'
    BY <1>1, <1>2, <1>3 DEF ResolvedInv, Fresh, resolved
  <1>. QED  BY <1>2, <1>4 DEF ResolvedInv, PlacedStays, Placed, resolved

(* The passes begin with everything that is declared.                      *)
LEMMA DeferredPass ==
  ASSUME TypeInv, ResolvedInv, ParseDeferred, ParsedInv'
  PROVE  ResolvedInv' /\ PlacedStays
  <1>1. /\ phase = "list" /\ phase' = "methods" /\ at' = at /\ ils' = ils
        /\ UNCHANGED resolved
    BY DEF ParseDeferred
  <1>2. Fresh /\ at = 1 /\ at' = 1
    BY <1>1 DEF ResolvedInv, Fresh
  <1>3. infos' = Expected /\ DocsReady' /\ \A h \in Read : ReadFor(h) \in Range(ils)
    BY <1>1, <1>2 DEF ParsedInv
  <1>4. Pass' = 1
    BY <1>1, PassNumbers DEF Pass
  <1>5. Left' = Names
    BY <1>3 DEF Left, Names
  <1>6. \A r \in 1..14 : \A x : ~Passed(r, x)'
    <2>1. \A k \in DOMAIN ils : ~(k < 1)
      <3>1. ils \in Seq(DOMAIN ClassOf)
        BY DEF TypeInv, ParserType
      <3>2. DOMAIN ils \subseteq Nat \ {0}
        BY <3>1
      <3>. QED  BY <3>2
    <2>. QED  BY <1>1, <1>2, <1>4, <2>1 DEF Passed
  <1>7. Tables'
    <2>1. ASSUME NEW e \in Expected PROVE e.il \in Range(ils')
      <3>1. PICK h \in Read : \E l \in Kept(h) : e = EntryOf(h, l)
        <4>. DEFINE declares(x) == {EntryOf(x, m) : m \in Kept(x)}
        <4>1. Expected = UNION {declares(x) : x \in Read}
          BY Zenon DEF Expected, EntryOf
        <4>2. PICK h \in Read : e \in declares(h)
          <5>. HIDE DEF declares
          <5>. QED  BY <4>1
        <4>. QED  BY <4>2
      <3>2. e.il = ReadFor(h)
        BY <3>1 DEF EntryOf, Entry
      <3>. QED  BY <1>1, <1>3, <3>2
    <2>2. Getters' = AllGetters
      <3>1. All("method")' = {n \in Names : Kind(n) = "method"}
        <4>1. \A e \in Expected : e.kind = Kind(e.name) /\ e.name \in Names
          BY ExpectedFacts
        <4>. QED  BY <1>3, <4>1, NameDeclared DEF All
      <3>. QED  BY <3>1 DEF Getters, AllGetters
    <2>3. interfaces' \cup {Facts[m].getter : m \in Getters'} = AllClasses
      BY <1>1, <1>2, <2>2 DEF Fresh, resolved, AllClasses
    <2>. QED  BY <1>1, <1>2, <1>4, <2>1, <2>3 DEF Tables, Fresh, resolved
  <1>8. RightOwners' /\ NothingLost'
    BY <1>1, <1>2, <1>5 DEF RightOwners, NothingLost, Fresh, resolved
  <1>9. \A i \in infos' : Waits(i)'
    BY <1>4, <1>6 DEF Waits
  <1>10. Unmoved'
    BY <1>3, <1>4, <1>5, MethodFacts DEF Unmoved
  <1>11. DocsPassed'
    <2>1. documented' = {}
      BY <1>1, <1>2 DEF Fresh, resolved
    <2>2. \A d \in OwnDocs : ReadFor(d.from) \in Range(ils')
      BY <1>1, <1>3, OwnDocFacts
    <2>. QED  BY <1>3, <1>6, <2>1, <2>2 DEF DocsPassed, DocsReady
  <1>12. routed' = {}
    BY <1>1, <1>2 DEF Fresh, resolved
  <1>13. PassInv'
    BY <1>3, <1>4, <1>7, <1>8, <1>9, <1>10, <1>11, <1>12 DEF PassInv
  <1>. QED  BY <1>1, <1>13 DEF ResolvedInv, PlacedStays, Placed, resolved

LEMMA ResolvedStep ==
  TypeInv /\ ParsedInv /\ ResolvedInv /\ [Next]_vars => ResolvedInv' /\ PlacedStays
  <1>. SUFFICES ASSUME TypeInv, ParsedInv, ResolvedInv, [Next]_vars
                PROVE  ResolvedInv' /\ PlacedStays
    OBVIOUS
  <1>1. CASE UNCHANGED vars \/ Finished
    <2>1. /\ UNCHANGED <<phase, at, ils, infos, docs, interfaces, extras, releases, handles, owned,
                         documented, gen, structs, routed, unhandled>>
      BY <1>1 DEF vars, parserVars, Finished
    <2>2. Pass' = Pass /\ Left' = Left
      BY <2>1 DEF Pass, Left
    <2>3. \A r, x : Passed(r, x)' <=> Passed(r, x)
      BY <2>1, <2>2 DEF Passed
    <2>4. \A n : Placed(n)' <=> Placed(n)
      BY <2>1 DEF Placed
    <2>5. Getters' = Getters
      BY <2>1 DEF Getters, All
    <2>6. /\ Tables' <=> Tables
          /\ RightOwners' <=> RightOwners
          /\ NothingLost' <=> NothingLost
          /\ \A i : Waits(i)' <=> Waits(i)
          /\ Unmoved' <=> Unmoved
          /\ DocsPassed' <=> DocsPassed
      BY <2>1, <2>2, <2>3, <2>4, <2>5
         DEF Tables, RightOwners, NothingLost, Waits, Unmoved, DocsPassed
    <2>7. PassInv' <=> PassInv
      BY <2>1, <2>2, <2>6 DEF PassInv
    <2>8. Fresh' <=> Fresh
      BY <2>1 DEF Fresh
    <2>. QED  BY <2>1, <2>4, <2>7, <2>8 DEF ResolvedInv, PlacedStays
  <1>2. CASE Parse \/ ParseFirst \/ \E h \in Headers : ListHeader(h)
    BY <1>2, ParsingStays
  <1>3. CASE ParseDeferred
    BY <1>3, ReadStep, DeferredPass
  <1>4. CASE \/ RouteMethods \/ MergeHandles \/ RouteStructs
             \/ \E k \in {"enum", "constant"} : RouteByInterface(k)
             \/ \E k \in {"method", "enum", "callback", "constant"} : RouteByCheat(k)
             \/ PlatformEnums \/ AddExtras \/ CopyCallbacks \/ CollectUnhandled
    <2>1. phase \notin {"first", "list"} /\ phase' \notin {"first", "list"}
      BY <1>4, PassesGoOn
    <2>2. PassInv
      BY <2>1 DEF ResolvedInv
    <2>3. PassInv' /\ PlacedStays
      BY <1>4, <2>2, MethodsPass, MergePass, StructsPass, InterfacePass, CheatPasses,
         PlatformEnumsPass, ExtrasPass, CopiesPass, UnhandledPass
    <2>. QED  BY <2>1, <2>3 DEF ResolvedInv
  <1>. QED  BY <1>1, <1>2, <1>3, <1>4 DEF Next

(* In any pass what is handed out, but for the copies, is handed to the    *)
(* owner its declaration asks for.                                         *)
LEMMA OwnedRight ==
  ASSUME ResolvedInv
  PROVE  /\ \A p \in owned \ CopyPairs : p[2] \in Names /\ p = Right(p[2])
         /\ \A n \in Names : n \in structs => OwnerOf[n] = "struct"
         /\ \A n \in Names : n \in releases => OwnerOf[n] = "release"
         /\ \A n \in Names : n \in handles => OwnerOf[n] = "handle"
         /\ \A n \in Names : n \in unhandled => OwnerOf[n] = "unhandled"
  <1>1. \A n \in Names : n \notin PresetHandles /\ (n \in AllHandles => OwnerOf[n] = "handle")
    BY HandlesAssumption, HandleNames, OwnerOfOthers
  <1>2. CASE phase \in {"first", "list"}
    BY <1>1, <1>2 DEF ResolvedInv, Fresh
  <1>3. CASE phase \notin {"first", "list"}
    BY <1>1, <1>3, OwnerOfOthers DEF ResolvedInv, PassInv, RightOwners, Tables
  <1>. QED  BY <1>2, <1>3

(* So a declaration has the owner it asks for from when it is placed.      *)
OwnersFollow == \A n \in Names : owner[n] = IF Placed(n) THEN OwnerOf[n] ELSE None

LEMMA OwnerIs ==
  ASSUME ResolvedInv
  PROVE  OwnersFollow
  <1>. SUFFICES ASSUME NEW n \in Names
                PROVE  owner[n] = IF Placed(n) THEN OwnerOf[n] ELSE None
    BY DEF OwnersFollow
  <1>. DEFINE P == {p \in owned \ CopyPairs : p[2] = n}
              elsewhere == CASE n \in handles -> "handle"
                             [] n \in structs -> "struct"
                             [] n \in releases -> "release"
                             [] n \in unhandled -> "unhandled"
                             [] OTHER -> None
  <1>1. owner[n] = IF \E p \in owned \ CopyPairs : p[2] = n
                     THEN (CHOOSE p \in owned \ CopyPairs : p[2] = n)[1] ELSE elsewhere
    BY DEF owner
  <1>2. \A p \in owned \ CopyPairs : p[2] = n => p = Right(n) /\ p[1] = OwnerOf[n]
    BY OwnedRight DEF Right
  <1>3. Right(n)[2] = n /\ Right(n) \notin CopyPairs
    BY CopiesAreNotRight DEF Right
  <1>4. CASE Right(n) \in owned
    <2>1. \E p \in owned \ CopyPairs : p[2] = n
      BY <1>3, <1>4
    <2>. HIDE DEF elsewhere
    <2>2. owner[n] = (CHOOSE p \in owned \ CopyPairs : p[2] = n)[1]
      BY <1>1, <2>1
    <2>3. PICK q : q = CHOOSE p \in owned \ CopyPairs : p[2] = n
      OBVIOUS
    <2>4. q \in owned \ CopyPairs /\ q[2] = n
      BY <2>1, <2>3
    <2>. QED  BY <1>2, <1>4, <2>2, <2>3, <2>4 DEF Placed
  <1>5. CASE Right(n) \notin owned
    <2>1. ~\E p \in owned \ CopyPairs : p[2] = n
      BY <1>2, <1>5
    <2>2. owner[n] = elsewhere
      BY <1>1, <2>1
    <2>3. elsewhere = IF n \in handles \cup structs \cup releases \cup unhandled
                        THEN OwnerOf[n] ELSE None
      BY OwnedRight
    <2>. HIDE DEF elsewhere
    <2>. QED  BY <1>5, <2>2, <2>3 DEF Placed
  <1>. QED  BY <1>4, <1>5

(* No lookup of the passes fails and none of their assertions stops the    *)
(* generator, whatever the order of the headers: what a pass looks up, the *)
(* callback a method takes, the handle of a doc, of an interface or of a   *)
(* name, is there when it looks.                                           *)
THEOREM NeverFailsEver == Spec => []NeverFails
  <1>1. ResolvedInv => NeverFails
    <2>. SUFFICES ASSUME ResolvedInv PROVE NeverFails
      OBVIOUS
    <2>1. CASE phase \in {"first", "list"}
      BY <2>1 DEF NeverFails
    <2>2. CASE phase \notin {"first", "list"}
      BY <2>2, PassNumbers DEF ResolvedInv, PassInv, Pass, NeverFails
    <2>. QED  BY <2>1, <2>2
  <1>. QED  BY <1>1, TypeInit, TypeStep, ReadInit, ReadStep, ResolvedInit, ResolvedStep, PTL DEF Spec

(* In the end every interface's documentation is at its handle, and no     *)
(* other documentation is.                                                 *)
THEOREM DocsCorrect == Spec => []DocsAtHandles
  <1>1. ResolvedInv => DocsAtHandles
    <2>. SUFFICES ASSUME ResolvedInv, phase = "done" PROVE documented = OwnDocs
      BY DEF DocsAtHandles
    <2>1. Pass = 14 /\ DocsPassed
      BY PassNumbers DEF Pass, ResolvedInv, PassInv
    <2>2. \A x : Passed(1, x)
      BY <2>1 DEF Passed
    <2>. QED  BY <2>1, <2>2 DEF DocsPassed
  <1>. QED  BY <1>1, TypeInit, TypeStep, ReadInit, ReadStep, ResolvedInit, ResolvedStep, PTL DEF Spec

(* At any time no declaration has two owners but for the copied callbacks, *)
(* and when the passes are over each one has an owner.                     *)
THEOREM OwnedOnceEver == Spec => []OwnedOnce
  <1>1. ResolvedInv => OwnedOnce
    <2>. SUFFICES ASSUME ResolvedInv PROVE OwnedOnce
      OBVIOUS
    <2>. DEFINE O == owned \ CopyPairs
                T == {p[2] : p \in O}
    <2>1. \A p \in O : p[2] \in Names /\ p = Right(p[2])
      BY OwnedRight
    <2>2. T \subseteq Names
      BY <2>1
    <2>3. IsFiniteSet(T)
      BY <2>2, NamesFinite, FS_Subset
    <2>4. \A n \in T : Right(n) \in O
      BY <2>1
    <2>5. ExistsBijection(T, O)
      <3>. DEFINE g == [n \in T |-> Right(n)]
      <3>1. g \in [T -> O]
        BY <2>4
      <3>2. \A p \in O : p[2] \in T /\ g[p[2]] = p
        BY <2>1
      <3>3. \A m, n \in T : g[m] = g[n] => m = n
        BY DEF Right
      <3>. HIDE DEF g, O, T
      <3>4. \A p \in O : \E n \in T : g[n] = p
        BY <3>2
      <3>5. IsInjective(g)
        BY <3>1, <3>3 DEF IsInjective
      <3>6. g \in Bijection(T, O)
        BY <3>1, <3>4, <3>5 DEF Bijection, Injection, Surjection
      <3>. QED  BY <3>6 DEF ExistsBijection
    <2>6. Cardinality(T) = Cardinality(O)
      <3>. HIDE DEF O, T
      <3>. QED  BY <2>3, <2>5, FS_Bijection
    <2>7. ASSUME phase = "done" PROVE None \notin {owner[n] : n \in Names}
      <3>1. Pass = 14 /\ PassInv
        BY <2>7, PassNumbers DEF Pass, ResolvedInv
      <3>2. Left = {}
        BY <3>1 DEF PassInv, Unmoved, Left
      <3>3. \A n \in Names : Placed(n)
        BY <3>1, <3>2 DEF PassInv, NothingLost
      <3>4. \A n \in Names : owner[n] # None
        BY <3>3, OwnerIs, OwnerFound DEF OwnersFollow
      <3>. QED  BY <3>4
    <2>. QED  BY <2>6, <2>7 DEF OwnedOnce
  <1>. QED  BY <1>1, TypeInit, TypeStep, ReadInit, ReadStep, ResolvedInit, ResolvedStep, PTL DEF Spec

(* Resolving implements EOSOwnership: nobody owns a declaration at first,  *)
(* and a step of the resolver places some declarations with the owner they *)
(* ask for, or none; whom one has been given to it stays with.             *)
THEOREM Implements == Spec => Owned
  <1>1. Init => Ownership!Init
    <2>. SUFFICES ASSUME Init PROVE owner = [n \in Names |-> None]
      BY DEF Ownership!Init
    <2>1. \A n \in Names : ~Placed(n)
      BY HandlesAssumption DEF Init, Placed
    <2>2. OwnersFollow
      BY ResolvedInit, OwnerIs
    <2>3. \A n \in Names : owner[n] = None
      BY <2>1, <2>2 DEF OwnersFollow
    <2>4. owner = [n \in Names |-> owner[n]]
      BY DEF owner
    <2>. QED  BY <2>3, <2>4
  <1>2. ResolvedInv => OwnersFollow
    BY OwnerIs
  <1>3. OwnersFollow /\ OwnersFollow' /\ PlacedStays => Ownership!Place
    BY DEF OwnersFollow, PlacedStays, Ownership!Place
  <1>. QED  BY <1>1, <1>2, <1>3, TypeInit, TypeStep, ReadInit, ReadStep, ResolvedInit, ResolvedStep,
               PTL DEF Spec, Owned, Ownership!Spec
===============================================================================

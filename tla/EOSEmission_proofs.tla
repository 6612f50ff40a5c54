-------------------------- MODULE EOSEmission_proofs --------------------------
(***************************************************************************)
(* Proofs about the code the generator writes, for every SDK that meets    *)
(* the assumptions of EOSTypes and EOSEmission: the types of the variables,*)
(* the signals of the class, that every conversion the written code calls  *)
(* is one that make_additional_method_requirements asked for, that an      *)
(* argument is passed for every parameter, that packed results are filled  *)
(* in as they are declared, and that structs are filled in whole.          *)
(*                                                                         *)
(* What the loops compute is proved by induction on numbers: of those at   *)
(* which a statement would not hold there is a least one (Upward, Downward)*)
(* and FlattenSeq is what any function gives that meets its equation.      *)
(***************************************************************************)
EXTENDS EOSEmission, TLAPS, WellFoundedInduction, FiniteSetTheorems, SequenceTheorems

-----------------------------------------------------------------------------
(* The least element of a set of numbers, which Min and elif chains give.  *)
LEMMA LeastExists ==
  ASSUME NEW S \in SUBSET Nat, S # {}
  PROVE  \E x \in S : \A y \in S : x <= y
  <1> DEFINE R == OpToRel(<, Nat)
  <1>1. IsWellFoundedOn(R, Nat)
    BY NatLessThanWellFounded
  <1>2. \A x, y \in Nat : <<x, y>> \in R <=> x < y
    BY DEF OpToRel
  <1> HIDE DEF R
  <1>3. \E x \in S : \A y \in S : ~ (<<y, x>> \in R)
    BY <1>1, WFMin
  <1>4. PICK x \in S : \A y \in S : ~ (<<y, x>> \in R)
    BY <1>3
  <1>5. ASSUME NEW y \in S
        PROVE  x <= y
    <2>1. x \in Nat /\ y \in Nat
      OBVIOUS
    <2>2. ~(y < x)
      BY <2>1, <1>2, <1>4
    <2> QED  BY <2>1, <2>2
  <1> QED  BY <1>5

LEMMA MinIs ==
  ASSUME NEW S \in SUBSET Nat, S # {}
  PROVE  Min(S) \in S /\ \A y \in S : Min(S) <= y
  BY LeastExists DEF Min

LEMMA MaxOfTwo ==
  ASSUME NEW a \in Nat, NEW b \in Nat
  PROVE  Max({a, b}) \in Nat /\ a <= Max({a, b}) /\ b <= Max({a, b})
  <1>1. \E x \in {a, b} : \A y \in {a, b} : x >= y
    OBVIOUS
  <1> QED  BY <1>1 DEF Max

LEMMA FirstTrueIs ==
  ASSUME NEW pairs, NEW n \in Nat \ {0}, DOMAIN pairs = 1 .. n, pairs[n][1]
  PROVE  \E j \in 1 .. n : pairs[j][1] /\ FirstTrue(pairs) = pairs[j][2]
  <1> DEFINE S == {i \in DOMAIN pairs : pairs[i][1]}
  <1>1. S \in SUBSET Nat /\ n \in S /\ S \subseteq 1 .. n
    OBVIOUS
  <1>2. Min(S) \in S
    BY <1>1, MinIs
  <1>3. FirstTrue(pairs) = pairs[Min(S)][2]
    BY DEF FirstTrue
  <1> QED  BY <1>1, <1>2, <1>3

-----------------------------------------------------------------------------
(* What the form of an argument says of it.                                *)
LEMMA FormIs ==
  ASSUME NEW m, NEW k
  PROVE  /\ ArgForm(m, k) = "expanded" =>
              IsInputOnly(m.args[k].base) /\ IsExpanded(m.args[k].base)
         /\ ArgForm(m, k) = "object" =>
              IsInputOnly(m.args[k].base) /\ ~IsExpanded(m.args[k].base)
         /\ ArgForm(m, k) = "out" => OutNamed(m.args[k])
  <1> DEFINE a == m.args[k]
             p1 == a.base = Handle
             p2 == IsCallback(a)
             p3 == IsClientData(a)
             p4 == sdk.oneUser /\ a.name = LocalUserId
             p5 == IsInputOnly(a.base)
             p6 == OutNamed(a)
             p7 == IsHandleArray(a) \/ (Sort[a.base] = "text" /\ a.ptr > 0)
             v5 == IF IsExpanded(a.base) THEN "expanded" ELSE "object"
             pairs == << <<p1, "self">>, <<p2, "callback">>, <<p3, "client">>,
                         <<p4, "user">>, <<p5, v5>>, <<p6, "out">>,
                         <<p7, "unsupported">>, <<TRUE, "value">> >>
  <1>1. ArgForm(m, k) = FirstTrue(pairs)
    BY DEF ArgForm
  <1>2. v5 \in {"expanded", "object"} /\ (v5 = "expanded" <=> IsExpanded(a.base))
    OBVIOUS
  <1> HIDE DEF p1, p2, p3, p4, p5, p6, p7, v5
  <1>3. DOMAIN pairs = 1 .. 8 /\ pairs[8][1]
    OBVIOUS
  <1>4. PICK j \in 1 .. 8 : pairs[j][1] /\ FirstTrue(pairs) = pairs[j][2]
    <2> HIDE DEF pairs
    <2>1. 8 \in Nat \ {0}
      OBVIOUS
    <2>2. \A n \in Nat \ {0} : DOMAIN pairs = 1 .. n /\ pairs[n][1] =>
            \E j \in 1 .. n : pairs[j][1] /\ FirstTrue(pairs) = pairs[j][2]
      BY FirstTrueIs
    <2> QED  BY <2>1, <2>2, <1>3, Zenon
  <1>5. j = 1 \/ j = 2 \/ j = 3 \/ j = 4 \/ j = 5 \/ j = 6 \/ j = 7 \/ j = 8
    OBVIOUS
  <1>6. /\ j = 1 => pairs[j][2] = "self"
        /\ j = 2 => pairs[j][2] = "callback"
        /\ j = 3 => pairs[j][2] = "client"
        /\ j = 4 => pairs[j][2] = "user"
        /\ j = 5 => pairs[j][2] = v5 /\ (pairs[j][1] <=> p5)
        /\ j = 6 => pairs[j][2] = "out" /\ (pairs[j][1] <=> p6)
        /\ j = 7 => pairs[j][2] = "unsupported"
        /\ j = 8 => pairs[j][2] = "value"
    OBVIOUS
  <1> HIDE DEF pairs
  <1>7. (v5 = "expanded" \/ v5 = "object") /\ (v5 = "expanded" <=> IsExpanded(a.base))
    BY <1>2
  <1>8. /\ ArgForm(m, k) = "expanded" => p5 /\ v5 = "expanded"
        /\ ArgForm(m, k) = "object" => p5 /\ v5 = "object"
        /\ ArgForm(m, k) = "out" => p6
    BY <1>1, <1>4, <1>5, <1>6, <1>7
  <1> QED  BY <1>7, <1>8 DEF p5, p6

(* The first out argument, if there is one, is where an argument is out.   *)
LEMMA FirstOutIs ==
  ASSUME NEW m, m.args \in Seq(Range(m.args))
  PROVE  /\ FirstOut(m) \in 1 .. Len(m.args) + 1
         /\ FirstOut(m) <= Len(m.args) => OutNamed(m.args[FirstOut(m)])
  <1> DEFINE S == {k \in DOMAIN m.args : ArgForm(m, k) = "out"} \cup {Len(m.args) + 1}
  <1>1. Len(m.args) \in Nat /\ DOMAIN m.args = 1 .. Len(m.args)
    OBVIOUS
  <1>2. S \in SUBSET (1 .. Len(m.args) + 1) /\ S # {}
    BY <1>1
  <1>3. S \in SUBSET Nat
    BY <1>1, <1>2
  <1>4. Min(S) \in S
    BY <1>2, <1>3, MinIs
  <1>5. FirstOut(m) = Min(S)
    BY DEF FirstOut
  <1>6. FirstOut(m) = Len(m.args) + 1 \/ ArgForm(m, FirstOut(m)) = "out"
    BY <1>4, <1>5
  <1> HIDE DEF S
  <1>7. FirstOut(m) \in 1 .. Len(m.args) + 1
    BY <1>2, <1>4, <1>5
  <1> QED  BY <1>1, <1>6, <1>7, FormIs

-----------------------------------------------------------------------------
(* The SDK that was parsed: its lists, and the structs by their names.     *)
LEMMA ListIs ==
  ASSUME NEW s, s \in Seq(Range(s)) \ {<<>>}
  PROVE  /\ Len(s) \in Nat \ {0}
         /\ \A k \in 1 .. Len(s) : s[k] \in Range(s)
         /\ \A x \in Range(s) : \E k \in 1 .. Len(s) : s[k] = x
  <1>1. s \in Seq(Range(s)) /\ s # <<>>
    OBVIOUS
  <1> QED  BY <1>1 DEF Range

LEMMA SdkIs ==
  ASSUME sdk \in Sdks
  PROVE  /\ Len(sdk.structs) \in Nat \ {0}
         /\ Len(sdk.methods) \in Nat \ {0}
         /\ \A k \in 1 .. Len(sdk.structs) :
              sdk.structs[k] \in Range(sdk.structs) /\ sdk.structs[k].name \in Structs
         /\ \A n \in Structs : \E k \in 1 .. Len(sdk.structs) : sdk.structs[k].name = n
         /\ \A k \in 1 .. Len(sdk.methods) : sdk.methods[k] \in Range(sdk.methods)
         /\ \A m \in Range(sdk.methods) : m.args \in Seq(Range(m.args))
  <1>1. /\ sdk.structs \in Seq(Range(sdk.structs)) \ {<<>>}
        /\ sdk.methods \in Seq(Range(sdk.methods)) \ {<<>>}
        /\ \A m \in Range(sdk.methods) : m.args \in Seq(Range(m.args))
    BY SdkAssumption
  <1>2. /\ Len(sdk.structs) \in Nat \ {0}
        /\ \A k \in 1 .. Len(sdk.structs) : sdk.structs[k] \in Range(sdk.structs)
        /\ \A x \in Range(sdk.structs) : \E k \in 1 .. Len(sdk.structs) : sdk.structs[k] = x
    BY <1>1, ListIs
  <1>3. /\ Len(sdk.methods) \in Nat \ {0}
        /\ \A k \in 1 .. Len(sdk.methods) : sdk.methods[k] \in Range(sdk.methods)
    BY <1>1, ListIs
  <1>4. \A x \in Range(sdk.structs) : x.name \in Structs
    BY DEF Structs, StructsOf
  <1>5. \A n \in Structs : \E x \in Range(sdk.structs) : x.name = n
    BY DEF Structs, StructsOf
  <1>6. \A n \in Structs : \E k \in 1 .. Len(sdk.structs) : sdk.structs[k].name = n
    BY <1>2, <1>5
  <1> QED  BY <1>1, <1>2, <1>3, <1>4, <1>6

LEMMA StructIs ==
  ASSUME sdk \in Sdks, NEW n \in Structs
  PROVE  /\ Struct(n) \in Range(sdk.structs) /\ Struct(n).name = n
         /\ \A s \in Range(sdk.structs) : s.name = n => s = Struct(n)
         /\ \A f \in Range(Fields(n)) :
              f.ptr \in Nat /\ (Sort[f.base] = "struct" <=> f.base \in Structs)
  <1>1. \E s \in Range(sdk.structs) : s.name = n
    BY DEF Structs, StructsOf
  <1>2. Struct(n) \in Range(sdk.structs) /\ Struct(n).name = n
    BY <1>1 DEF Struct
  <1>3. \A s, t \in Range(sdk.structs) : s.name = t.name => s = t
    BY SdkAssumption
  <1>4. \A s \in Range(sdk.structs) : \A f \in Range(s.fields) :
           f.ptr \in Nat /\ (Sort[f.base] = "struct" <=> f.base \in Structs)
    BY SdkAssumption DEF Structs
  <1> QED  BY <1>2, <1>3, <1>4 DEF Fields

-----------------------------------------------------------------------------
(* The callback of a method: the one its last argument names, if any.      *)
LEMMA CallbackIs ==
  ASSUME sdk \in Sdks, NEW n \in {c.name : c \in Range(sdk.callbacks)}
  PROVE  Callback(n) \in Range(sdk.callbacks) /\ Callback(n).name = n
  <1>1. \E c \in Range(sdk.callbacks) : c.name = n
    OBVIOUS
  <1> QED  BY <1>1 DEF Callback

LEMMA CallbacksOfIs ==
  ASSUME sdk \in Sdks, NEW m \in Range(sdk.methods)
  PROVE  /\ CallbacksOf(m) \subseteq Range(sdk.callbacks)
         /\ {c.name : c \in CallbacksOf(m)} = {CallbackTypeOf(m)} \ {None}
         /\ ~m.deprecated => \A c \in CallbacksOf(m) : ~c.deprecated
  <1> DEFINE names == {c.name : c \in Range(sdk.callbacks)}
             L == Len(m.args)
             mine == {j \in DOMAIN m.args : IsCallback(m.args[j])}
  <1>1. L \in Nat /\ DOMAIN m.args = 1 .. L /\ (m.args # <<>> <=> L # 0)
    BY SdkIs
  <1>2. None \notin names
        /\ \A k \in DOMAIN m.args : IsCallback(m.args[k]) => k = L /\ m.args[k].base \in names
    BY CallbacksAssumption
  <1>3. ASSUME NEW j \in mine
        PROVE  /\ j = L /\ L # 0
               /\ Callback(m.args[j].base) \in Range(sdk.callbacks)
               /\ Callback(m.args[j].base).name = m.args[j].base
               /\ m.args[j] \in Range(m.args)
    <2>1. j = L /\ L # 0 /\ m.args[j].base \in names
      BY <1>1, <1>2
    <2>2. m.args[j] \in Range(m.args)
      BY DEF Range
    <2> HIDE DEF mine
    <2> QED  BY <2>1, <2>2, CallbackIs
  <1>4. CallbacksOf(m) = {Callback(m.args[k].base) : k \in mine}
    BY DEF CallbacksOf
  <1>5. mine # {} => L \in mine /\ mine = {L} /\ L # 0
    <2> HIDE DEF mine
    <2> QED  BY <1>3
  <1>6. L # 0 /\ IsCallback(m.args[L]) => L \in mine
    BY <1>1
  <1>7. L \in mine => IsCallback(m.args[L]) /\ m.args[L].base \in names
    BY <1>2
  <1>8. CallbackTypeOf(m) = IF L # 0 /\ IsCallback(m.args[L]) THEN m.args[L].base ELSE None
    BY <1>1 DEF CallbackTypeOf, Last
  <1>9. ~m.deprecated => \A c \in CallbacksOf(m) : ~c.deprecated
    <2> SUFFICES ASSUME ~m.deprecated, NEW j \in mine, Callback(m.args[j].base).deprecated
                 PROVE  FALSE
      BY <1>4
    <2> DEFINE late == {c.name : c \in {d \in Range(sdk.callbacks) : d.deprecated}}
    <2>1. \A a \in Range(m.args) : a.base \notin late
      BY MethodsAssumption
    <2>2. Callback(m.args[j].base).name \in late
      BY <1>3
    <2> HIDE DEF late, mine
    <2> QED  BY <2>1, <2>2, <1>3
  <1>10. CallbacksOf(m) \subseteq Range(sdk.callbacks)
    BY <1>3, <1>4
  <1> HIDE DEF mine, names
  <1>11. {c.name : c \in CallbacksOf(m)} = {CallbackTypeOf(m)} \ {None}
    <2>1. CASE mine = {}
      <3>1. CallbacksOf(m) = {} /\ CallbackTypeOf(m) = None
        BY <2>1, <1>4, <1>6, <1>8
      <3> QED  BY <3>1
    <2>2. CASE mine # {}
      <3>1. mine = {L} /\ L \in mine /\ L # 0
        BY <2>2, <1>5
      <3>2. CallbackTypeOf(m) = m.args[L].base /\ CallbackTypeOf(m) # None
        BY <3>1, <1>2, <1>7, <1>8
      <3>3. CallbacksOf(m) = {Callback(m.args[L].base)}
        BY <3>1, <1>4
      <3>4. Callback(m.args[L].base).name = m.args[L].base
        BY <3>1, <1>3
      <3> QED  BY <3>2, <3>3, <3>4
    <2> QED  BY <2>1, <2>2
  <1> QED  BY <1>9, <1>10, <1>11

-----------------------------------------------------------------------------
(* Type correctness.  A step that goes through a list is at one of its     *)
(* elements.                                                               *)
CallbackNames == {c.name : c \in Range(sdk.callbacks)}

Placed ==
    /\ step \in {"use", "inherit", "expand", "results", "structs", "methods", "signals",
                 "done", "failed"}
    /\ at \in 1 .. Len(sdk.structs) \/ at \in 1 .. Len(sdk.methods)
    /\ step \in {"inherit", "expand", "structs"} => at \in 1 .. Len(sdk.structs)
    /\ step \in {"results", "methods"} => at \in 1 .. Len(sdk.methods)
    /\ step = "use" => at = 1

Typed ==
    /\ sdk \in Sdks
    /\ Placed
    /\ needs \in [Structs -> SUBSET {"to", "set_to", "from", "set_from"}]
    /\ expanded \subseteq Structs
    /\ \A f \in fills : f.of \in Structs
    /\ emitted \cup wanted \cup bound \subseteq CallbackNames

LEMMA TypedTypeOK == Typed => TypeOK
  <1> SUFFICES ASSUME Typed
               PROVE  TypeOK
    OBVIOUS
  <1>1. Len(sdk.structs) \in Nat /\ Len(sdk.methods) \in Nat
    BY SdkIs DEF Typed
  <1>2. at \in 1 .. Max({Len(sdk.structs), Len(sdk.methods)})
    BY <1>1, MaxOfTwo DEF Typed, Placed
  <1> QED  BY <1>2 DEF Typed, Placed, TypeOK, CallbackNames

LEMMA TypedInit == Init => Typed
  <1> SUFFICES ASSUME Init
               PROVE  Typed
    OBVIOUS
  <1>1. sdk \in Sdks /\ step = "use" /\ at = 1
    BY DEF Init, TypesInit
  <1>2. Len(sdk.structs) \in Nat \ {0}
    BY <1>1, SdkIs
  <1>3. Placed
    BY <1>1, <1>2 DEF Placed
  <1> QED  BY <1>1, <1>3 DEF Init, TypesInit, Typed

LEMMA ThroughIs ==
  ASSUME NEW S, Len(S) \in Nat, at \in 1 .. Len(S), NEW next, Through(S, next)
  PROVE  \/ step' = step /\ at' = at + 1 /\ at' \in 1 .. Len(S)
         \/ step' = next /\ at' = 1 /\ at = Len(S)
  BY DEF Through

LEMMA InheritedIs ==
  ASSUME NEW s, NEW c
  PROVE  c \in Inherited(s) <=>
           \/ c \in {"set_to", "to", "set_from"} /\ \E o \in Owners(s) : c \in needs[o]
           \/ c = "set_to" /\ \E o \in ArrayOwners(s) : Input(o)
           \/ c \in {"set_from", "from"} /\ \E o \in ArrayOwners(s) : Output(o) \/ ArgOut(o)
  <1> DEFINE A == UNION {needs[o] \cap {"set_to", "to", "set_from"} : o \in Owners(s)}
             B == IF \E o \in ArrayOwners(s) : Input(o) THEN {"set_to"} ELSE {}
             C == IF \E o \in ArrayOwners(s) : Output(o) \/ ArgOut(o)
                    THEN {"set_from", "from"} ELSE {}
  <1>1. Inherited(s) = A \cup B \cup C
    BY DEF Inherited
  <1>2. c \in A <=> c \in {"set_to", "to", "set_from"} /\ \E o \in Owners(s) : c \in needs[o]
    <2>1. c \in A <=> \E o \in Owners(s) : c \in needs[o] \cap {"set_to", "to", "set_from"}
      OBVIOUS
    <2> QED  BY <2>1
  <1>3. c \in B <=> c = "set_to" /\ \E o \in ArrayOwners(s) : Input(o)
    OBVIOUS
  <1>4. c \in C <=> c \in {"set_from", "from"} /\ \E o \in ArrayOwners(s) : Output(o) \/ ArgOut(o)
    OBVIOUS
  <1> HIDE DEF A, B, C
  <1> QED  BY <1>1, <1>2, <1>3, <1>4

LEMMA DirectIs ==
  ASSUME NEW s, NEW c
  PROVE  c \in Direct(s) <=>
           \/ c = "to" /\ InputPtr(s)
           \/ c = "set_to" /\ (InputPtr(s) \/ InputValue(s))
           \/ c = "from" /\ Output(s)
           \/ c = "set_from" /\ (Output(s) \/ ArgOut(s))
  <1> DEFINE A == IF InputPtr(s) THEN {"to", "set_to"} ELSE {}
             B == IF InputValue(s) THEN {"set_to"} ELSE {}
             C == IF Output(s) THEN {"set_from", "from"} ELSE {}
             D == IF ArgOut(s) THEN {"set_from"} ELSE {}
  <1>1. Direct(s) = UNION {A, B, C, D}
    BY DEF Direct
  <1>2. c \in A <=> c \in {"to", "set_to"} /\ InputPtr(s)
    OBVIOUS
  <1>3. c \in B <=> c = "set_to" /\ InputValue(s)
    OBVIOUS
  <1>4. c \in C <=> c \in {"set_from", "from"} /\ Output(s)
    OBVIOUS
  <1>5. c \in D <=> c = "set_from" /\ ArgOut(s)
    OBVIOUS
  <1> HIDE DEF A, B, C, D
  <1>6. c \in Direct(s) <=> c \in A \/ c \in B \/ c \in C \/ c \in D
    BY <1>1
  <1> QED  BY <1>2, <1>3, <1>4, <1>5, <1>6

LEMMA ConversionsAsked ==
  ASSUME NEW s
  PROVE  /\ Direct(s) \subseteq {"to", "set_to", "from", "set_from"}
         /\ Inherited(s) \subseteq {"to", "set_to", "from", "set_from"}
  BY DirectIs, InheritedIs

(* What changes when a method is written: where its options' fields go     *)
(* are structs, its signals are callbacks.                                 *)
LEMMA WritingTyped ==
  ASSUME Typed, NEW m \in Range(sdk.methods), WriteMethod(m)
  PROVE  /\ \A f \in fills' : f.of \in Structs
         /\ emitted' \cup wanted' \subseteq CallbackNames
  <1>1. CallbacksOf(m) \subseteq Range(sdk.callbacks)
        /\ {c.name : c \in CallbacksOf(m)} = {CallbackTypeOf(m)} \ {None}
    BY CallbacksOfIs DEF Typed
  <1>2. {c.name : c \in CallbacksOf(m)} \subseteq CallbackNames
    BY <1>1 DEF CallbackNames
  <1>3. emitted' \cup wanted' \subseteq CallbackNames
    BY <1>1, <1>2 DEF WriteMethod, Signals, Typed
  <1>4. \A s \in ExpandedArgs(m) : s \in Structs
    BY FormIs DEF ExpandedArgs, IsInputOnly
  <1>5. fills' = fills \cup {[by |-> m.name, of |-> s, fields |-> TakenFields(s)] :
                               s \in ExpandedArgs(m)}
    BY DEF WriteMethod
  <1>6. \A f \in fills' : f.of \in Structs
    BY <1>4, <1>5 DEF Typed
  <1> QED  BY <1>3, <1>6

LEMMA SettingUpTyped ==
  ASSUME Typed, NEW m \in Range(sdk.methods), SetUpNotify(m),
         m.args[2].base \in Structs, CallbackTypeOf(m) # None
  PROVE  /\ \A f \in fills' : f.of \in Structs
         /\ emitted' \cup wanted' \subseteq CallbackNames
  <1>1. CallbacksOf(m) \subseteq Range(sdk.callbacks)
        /\ {c.name : c \in CallbacksOf(m)} = {CallbackTypeOf(m)} \ {None}
    BY CallbacksOfIs DEF Typed
  <1>2. {c.name : c \in CallbacksOf(m)} \subseteq CallbackNames
    BY <1>1 DEF CallbackNames
  <1>3. emitted' \cup wanted' \subseteq CallbackNames
    BY <1>1, <1>2 DEF SetUpNotify, Typed
  <1>4. \A f \in fills' : f.of \in Structs
    BY DEF SetUpNotify, Typed
  <1> QED  BY <1>3, <1>4

(* Which of the two a method leads to, if any.                             *)
LEMMA GenMethodIs ==
  ASSUME GenMethod, ~Fail
  PROVE  \/ IsWritten(sdk.methods[at]) /\ ~MethodFails(sdk.methods[at])
              /\ WriteMethod(sdk.methods[at])
         \/ /\ IsBuiltInNotify(sdk.methods[at]) /\ ~sdk.methods[at].deprecated
            /\ CallbackTypeOf(sdk.methods[at]) # None
            /\ \A c \in CallbacksOf(sdk.methods[at]) : ~CallbackFails(c)
            /\ SetUpNotify(sdk.methods[at])
         \/ UNCHANGED <<passed, written, fills, calls, emitted, wanted, removers>>
  BY DEF GenMethod

LEMMA GenMethodRest ==
  ASSUME GenMethod, ~Fail
  PROVE  Through(sdk.methods, "signals") /\ UNCHANGED <<sdk, typeVars, declared, bound>>
  BY DEF GenMethod

LEMMA TypedStep == Typed /\ [Next]_vars => Typed'
  <1> SUFFICES ASSUME Typed, [Next]_vars
               PROVE  Typed'
    OBVIOUS
  <1> USE DEF typeVars
  <1>1. /\ Len(sdk.structs) \in Nat \ {0} /\ Len(sdk.methods) \in Nat \ {0}
        /\ \A k \in 1 .. Len(sdk.structs) : sdk.structs[k].name \in Structs
        /\ \A k \in 1 .. Len(sdk.methods) : sdk.methods[k] \in Range(sdk.methods)
    BY SdkIs DEF Typed
  <1>2. sdk' = sdk => Structs' = Structs /\ CallbackNames' = CallbackNames
    BY DEF Structs, StructsOf, CallbackNames
  <1> DEFINE Conversions == {"to", "set_to", "from", "set_from"}
  <1>3. CASE UNCHANGED vars
    BY <1>2, <1>3 DEF vars, Typed, Placed
  <1>4. CASE Fail
    BY <1>2, <1>4 DEF Fail, Typed, Placed, output
  <1>5. CASE RequireByUse /\ UNCHANGED output
    <2>1. sdk' = sdk /\ UNCHANGED <<fills, emitted, wanted, bound, expanded>>
      BY <1>5 DEF RequireByUse, output
    <2>2. Placed'
      BY <1>1, <1>5 DEF RequireByUse, Typed, Placed
    <2>3. needs' = [s \in Structs |-> Direct(s)] /\ \A s \in Structs : Direct(s) \in SUBSET Conversions
      BY <1>5, ConversionsAsked DEF RequireByUse
    <2>4. needs' \in [Structs -> SUBSET Conversions]
      BY <2>3
    <2> QED  BY <1>2, <2>1, <2>2, <2>4 DEF Typed
  <1>6. CASE RequireByOwner /\ UNCHANGED output
    <2>1. sdk' = sdk /\ UNCHANGED <<fills, emitted, wanted, bound, expanded>>
      BY <1>6 DEF RequireByOwner, output
    <2>2. step = "inherit" /\ at \in 1 .. Len(sdk.structs) /\ Through(sdk.structs, "expand")
      BY <1>6 DEF RequireByOwner, Typed, Placed
    <2>3. \/ step' = step /\ at' \in 1 .. Len(sdk.structs)
          \/ step' = "expand" /\ at' = 1
      BY <1>1, <2>2, ThroughIs
    <2>4. Placed'
      BY <1>1, <2>1, <2>2, <2>3 DEF Placed
    <2>5. PICK s : needs' = [needs EXCEPT ![s] = @ \cup Inherited(s)]
      BY <1>6 DEF RequireByOwner
    <2>6. Inherited(s) \in SUBSET Conversions
      BY ConversionsAsked
    <2>7. needs' \in [Structs -> SUBSET Conversions]
      BY <2>5, <2>6 DEF Typed
    <2> QED  BY <1>2, <2>1, <2>4, <2>7 DEF Typed
  <1>7. CASE Expand /\ UNCHANGED output
    <2>1. sdk' = sdk /\ UNCHANGED <<fills, emitted, wanted, bound, needs>>
      BY <1>7 DEF Expand, output
    <2>2. step = "expand" /\ at \in 1 .. Len(sdk.structs) /\ Through(sdk.structs, "results")
      BY <1>7 DEF Expand, Typed, Placed
    <2>3. \/ step' = step /\ at' \in 1 .. Len(sdk.structs)
          \/ step' = "results" /\ at' = 1
      BY <1>1, <2>2, ThroughIs
    <2>4. Placed'
      BY <1>1, <2>1, <2>2, <2>3 DEF Placed
    <2>5. expanded' \subseteq Structs
      BY <1>1, <1>7, <2>2 DEF Expand, Typed
    <2> QED  BY <1>2, <2>1, <2>4, <2>5 DEF Typed
  <1>8. CASE GenPackedResult /\ ~Fail
    <2>1. sdk' = sdk /\ UNCHANGED <<fills, emitted, wanted, bound, needs, expanded>>
      BY <1>8 DEF GenPackedResult
    <2>2. step = "results" /\ at \in 1 .. Len(sdk.methods) /\ Through(sdk.methods, "structs")
      BY <1>8 DEF GenPackedResult, Typed, Placed
    <2>3. \/ step' = step /\ at' \in 1 .. Len(sdk.methods)
          \/ step' = "structs" /\ at' = 1
      BY <1>1, <2>2, ThroughIs
    <2>4. Placed'
      BY <1>1, <2>1, <2>2, <2>3 DEF Placed
    <2> QED  BY <1>2, <2>1, <2>4 DEF Typed
  <1>9. CASE GenStruct /\ ~Fail
    <2>1. sdk' = sdk /\ UNCHANGED <<emitted, wanted, bound, needs, expanded>>
      BY <1>9 DEF GenStruct
    <2>2. step = "structs" /\ at \in 1 .. Len(sdk.structs) /\ Through(sdk.structs, "methods")
      BY <1>9 DEF GenStruct, Typed, Placed
    <2>3. \/ step' = step /\ at' \in 1 .. Len(sdk.structs)
          \/ step' = "methods" /\ at' = 1
      BY <1>1, <2>2, ThroughIs
    <2>4. Placed'
      BY <1>1, <2>1, <2>2, <2>3 DEF Placed
    <2>5. PICK fields : \/ fills' = fills
                        \/ fills' = fills \cup {[by |-> <<"class">>, of |-> sdk.structs[at].name,
                                                 fields |-> fields]}
      BY <1>9 DEF GenStruct
    <2>6. \A f \in fills' : f.of \in Structs
      BY <1>1, <2>2, <2>5 DEF Typed
    <2> QED  BY <1>2, <2>1, <2>4, <2>6 DEF Typed
  <1>10. CASE GenMethod /\ ~Fail
    <2> DEFINE m == sdk.methods[at]
    <2>1. sdk' = sdk /\ UNCHANGED <<needs, expanded, bound>>
      BY <1>10, GenMethodRest
    <2>2. step = "methods" /\ at \in 1 .. Len(sdk.methods) /\ Through(sdk.methods, "signals")
      BY <1>10, GenMethodRest DEF GenMethod, Typed, Placed
    <2>3. \/ step' = step /\ at' \in 1 .. Len(sdk.methods)
          \/ step' = "signals" /\ at' = 1
      BY <1>1, <2>2, ThroughIs
    <2>4. Placed'
      BY <1>1, <2>1, <2>2, <2>3 DEF Placed
    <2>5. m \in Range(sdk.methods)
      BY <1>1, <2>2
    <2>6. (\A f \in fills' : f.of \in Structs) /\ emitted' \cup wanted' \subseteq CallbackNames
      <3> HIDE DEF m
      <3>1. CASE WriteMethod(m)
        BY <2>5, <3>1, WritingTyped
      <3>2. CASE IsBuiltInNotify(m) /\ CallbackTypeOf(m) # None /\ SetUpNotify(m)
        <4>1. m.args[2].base \in Structs
          BY <3>2 DEF IsBuiltInNotify
        <4> QED  BY <2>5, <3>2, <4>1, SettingUpTyped
      <3>3. CASE UNCHANGED <<fills, emitted, wanted>>
        BY <3>3 DEF Typed
      <3> QED  BY <1>10, <3>1, <3>2, <3>3, GenMethodIs DEF m
    <2> QED  BY <1>2, <2>1, <2>4, <2>6 DEF Typed
  <1>11. CASE GenSignals
    <2>1. sdk' = sdk /\ UNCHANGED <<at, fills, emitted, wanted, needs, expanded>> /\ step' = "done"
      BY <1>11 DEF GenSignals
    <2>2. bound' \subseteq CallbackNames
      BY <1>11 DEF GenSignals, CallbackNames
    <2>3. Placed'
      BY <2>1 DEF Typed, Placed
    <2> QED  BY <1>2, <2>1, <2>2, <2>3 DEF Typed
  <1> QED  BY <1>3, <1>4, <1>5, <1>6, <1>7, <1>8, <1>9, <1>10, <1>11 DEF Next, Preparing, Done

LEMMA TypedEver == Spec => []Typed
  BY TypedInit, TypedStep, PTL DEF Spec

(* The variables hold what they are for, whatever the SDK: each list is    *)
(* gone through within its bounds, what is filled in is a struct of the    *)
(* SDK, and signals are its callbacks (the steps of gen_files).            *)
THEOREM TypeCorrect == Spec => []TypeOK
  BY TypedEver, TypedTypeOK, PTL

-----------------------------------------------------------------------------
(* The signals.  The two ways the generator keeps account of them, what    *)
(* the callbacks it writes emit and what their types are, come to the same *)
(* after every method, and each is the signal of a callback that GenSignals*)
(* will find.                                                              *)
Signalled ==
    /\ emitted = wanted
    /\ \A n \in wanted : \E c \in Range(sdk.callbacks) :
          c.name = n /\ ~c.deprecated /\ c.returns = "void"
    /\ step = "done" => bound = emitted

LEMMA SignalledInit == Init => Signalled
  BY DEF Init, TypesInit, Signalled

LEMMA WritingSignalled ==
  ASSUME Typed, Signalled, NEW m \in Range(sdk.methods),
         \/ IsWritten(m) /\ ~MethodFails(m) /\ WriteMethod(m)
         \/ /\ ~m.deprecated /\ CallbackTypeOf(m) # None
            /\ \A c \in CallbacksOf(m) : ~CallbackFails(c)
            /\ SetUpNotify(m)
  PROVE  /\ emitted' = wanted'
         /\ \A n \in wanted' : \E c \in Range(sdk.callbacks) :
               c.name = n /\ ~c.deprecated /\ c.returns = "void"
  <1> DEFINE mine == {c.name : c \in CallbacksOf(m)}
  <1>1. /\ CallbacksOf(m) \subseteq Range(sdk.callbacks)
        /\ mine = {CallbackTypeOf(m)} \ {None}
        /\ ~m.deprecated => \A c \in CallbacksOf(m) : ~c.deprecated
    BY CallbacksOfIs DEF Typed
  <1>2. ~m.deprecated /\ \A c \in CallbacksOf(m) : ~CallbackFails(c)
    BY DEF IsWritten, MethodFails
  <1>3. \A c \in CallbacksOf(m) :
          c \in Range(sdk.callbacks) /\ ~c.deprecated /\ c.returns = "void"
    BY <1>1, <1>2 DEF CallbackFails
  <1>4. \A n \in mine : \E c \in Range(sdk.callbacks) :
          c.name = n /\ ~c.deprecated /\ c.returns = "void"
    BY <1>3
  <1>5. \/ emitted' = emitted /\ wanted' = wanted
        \/ emitted' = emitted \cup mine /\ wanted' = wanted \cup mine
    <2>1. CASE WriteMethod(m)
      <3>1. emitted' = emitted \cup Signals(m)
            /\ wanted' = IF IsAddNotify(m) THEN wanted ELSE wanted \cup mine
        BY <1>1, <2>1 DEF WriteMethod
      <3>2. Signals(m) = IF IsAddNotify(m) THEN {} ELSE mine
        BY DEF Signals
      <3> HIDE DEF mine
      <3> QED  BY <3>1, <3>2
    <2>2. CASE SetUpNotify(m) /\ CallbackTypeOf(m) # None
      <3>1. emitted' = emitted \cup mine /\ wanted' = wanted \cup {CallbackTypeOf(m)}
        BY <2>2 DEF SetUpNotify
      <3> QED  BY <1>1, <2>2, <3>1
    <2> QED  BY <2>1, <2>2
  <1> HIDE DEF mine
  <1> QED  BY <1>4, <1>5 DEF Signalled

LEMMA SignalledStep == Typed /\ Signalled /\ [Next]_vars => Signalled'
  <1> SUFFICES ASSUME Typed, Signalled, [Next]_vars
               PROVE  Signalled'
    OBVIOUS
  <1>1. CASE UNCHANGED vars
    BY <1>1 DEF vars, Signalled
  <1>2. CASE Fail
    BY <1>2 DEF Fail, Signalled, output
  <1>3. CASE Preparing
    <2>1. UNCHANGED <<sdk, emitted, wanted, bound>>
      BY <1>3 DEF Preparing, RequireByUse, RequireByOwner, Expand, output
    <2>2. step' # "done"
      BY <1>3 DEF Preparing, RequireByUse, RequireByOwner, Expand, Through
    <2> QED  BY <2>1, <2>2 DEF Signalled
  <1>4. CASE (GenPackedResult \/ GenStruct) /\ ~Fail
    <2>1. UNCHANGED <<sdk, emitted, wanted, bound>>
      BY <1>4 DEF GenPackedResult, GenStruct
    <2>2. step' # "done"
      BY <1>4 DEF GenPackedResult, GenStruct, Through
    <2> QED  BY <2>1, <2>2 DEF Signalled
  <1>5. CASE GenMethod /\ ~Fail
    <2> DEFINE m == sdk.methods[at]
    <2>1. sdk' = sdk /\ step = "methods" /\ Through(sdk.methods, "signals")
      BY <1>5, GenMethodRest DEF GenMethod
    <2>2. step' # "done"
      BY <2>1 DEF Through
    <2>3. m \in Range(sdk.methods)
      BY <2>1, SdkIs DEF Typed, Placed
    <2>4. /\ emitted' = wanted'
          /\ \A n \in wanted' : \E c \in Range(sdk.callbacks) :
                c.name = n /\ ~c.deprecated /\ c.returns = "void"
      <3>1. CASE UNCHANGED <<emitted, wanted>>
        BY <3>1 DEF Signalled
      <3>2. CASE IsWritten(m) /\ ~MethodFails(m) /\ WriteMethod(m)
        <4> HIDE DEF m
        <4> QED  BY <2>3, <3>2, WritingSignalled
      <3>3. CASE /\ ~m.deprecated /\ CallbackTypeOf(m) # None
                 /\ \A c \in CallbacksOf(m) : ~CallbackFails(c)
                 /\ SetUpNotify(m)
        <4> HIDE DEF m
        <4> QED  BY <2>3, <3>3, WritingSignalled
      <3> QED  BY <1>5, <3>1, <3>2, <3>3, GenMethodIs
    <2> QED  BY <2>1, <2>2, <2>4 DEF Signalled
  <1>6. CASE GenSignals
    <2>1. UNCHANGED <<sdk, emitted, wanted>>
      BY <1>6 DEF GenSignals
    <2>2. bound' = {c.name : c \in {d \in Range(sdk.callbacks) :
                       /\ ~d.deprecated /\ d.name \in wanted
                       /\ d.returns = "void" \/ ~IsExpanded(d.arg)}}
      BY <1>6 DEF GenSignals
    <2>3. bound' = wanted
      BY <2>2 DEF Signalled
    <2> QED  BY <2>1, <2>3 DEF Signalled
  <1> QED  BY <1>1, <1>2, <1>3, <1>4, <1>5, <1>6 DEF Next, Done

(* The class declares a signal for every callback that emits one, and for  *)
(* no other: need_signal_callback_list, filled method by method, and the   *)
(* code of the callbacks agree at the end of every invocation.             *)
THEOREM SignalsBoundEver == Spec => []SignalsBound
  <1>1. Init => Signalled
    BY SignalledInit
  <1>2. Typed /\ Signalled /\ [Next]_vars => Signalled'
    BY SignalledStep
  <1>3. Signalled => SignalsBound
    BY DEF Signalled, SignalsBound
  <1> QED  BY <1>1, <1>2, <1>3, TypedEver, PTL DEF Spec

-----------------------------------------------------------------------------
(* The conversions.  What is asked of a struct's class by its own use, and *)
(* by the structs it is in, depends on the SDK alone.                      *)
FromOwners(s, c) ==
    \/ c \in {"set_to", "to", "set_from"} /\ \E o \in Owners(s) : c \in Direct(o)
    \/ c = "set_to" /\ \E o \in ArrayOwners(s) : Input(o)
    \/ c \in {"set_from", "from"} /\ \E o \in ArrayOwners(s) : Output(o) \/ ArgOut(o)

LEMMA FieldsFrozen ==
  ASSUME sdk' = sdk, NEW CONSTANT s
  PROVE  Struct(s)' = Struct(s) /\ Fields(s)' = Fields(s) /\ Structs' = Structs /\ Args' = Args
  <1>1. Struct(s)' = Struct(s)
    BY DEF Struct
  <1>2. Structs' = Structs /\ Args' = Args
    BY DEF Structs, StructsOf, Args, ArgsOf
  <1> QED  BY <1>1, <1>2 DEF Fields

LEMMA UseFrozen ==
  ASSUME sdk' = sdk, NEW CONSTANT s
  PROVE  /\ ArgOut(s)' <=> ArgOut(s)
         /\ InputPtr(s)' <=> InputPtr(s)
         /\ InputValue(s)' <=> InputValue(s)
         /\ Input(s)' <=> Input(s)
         /\ CallbackArg(s)' <=> CallbackArg(s)
         /\ Output(s)' <=> Output(s)
         /\ Direct(s)' = Direct(s)
  <1>1. Args' = Args
    BY FieldsFrozen
  <1>2. ArgOut(s)' <=> ArgOut(s)
    BY <1>1 DEF ArgOut
  <1>3. (InputPtr(s)' <=> InputPtr(s)) /\ (InputValue(s)' <=> InputValue(s))
    BY <1>1 DEF InputPtr, InputValue
  <1>4. CallbackArg(s)' <=> CallbackArg(s)
    BY DEF CallbackArg
  <1>5. Output(s)' <=> Output(s)
    BY <1>4 DEF Output
  <1>6. Direct(s)' = Direct(s)
    BY <1>2, <1>3, <1>5 DEF Direct
  <1> QED  BY <1>2, <1>3, <1>4, <1>5, <1>6 DEF Input

LEMMA OwnersFrozen ==
  ASSUME sdk' = sdk, NEW CONSTANT s
  PROVE  Owners(s)' = Owners(s) /\ ArrayOwners(s)' = ArrayOwners(s)
  <1>1. Structs' = Structs /\ \A o : Fields(o)' = Fields(o)
    BY FieldsFrozen
  <1>2. \A f, o : IsStructArray(f, o)' <=> IsStructArray(f, o)
    BY <1>1 DEF IsStructArray
  <1>3. Owners(s)' = Owners(s)
    BY <1>1, <1>2 DEF Owners
  <1>4. ArrayOwners(s)' = ArrayOwners(s)
    BY <1>1, <1>2 DEF ArrayOwners
  <1> QED  BY <1>3, <1>4

LEMMA FromOwnersFrozen ==
  ASSUME sdk' = sdk, NEW CONSTANT s, NEW CONSTANT c
  PROVE  FromOwners(s, c)' <=> FromOwners(s, c)
  <1>1. Owners(s)' = Owners(s) /\ ArrayOwners(s)' = ArrayOwners(s)
    BY OwnersFrozen
  <1>2. \A o : (Input(o)' <=> Input(o)) /\ (Output(o)' <=> Output(o))
               /\ (ArgOut(o)' <=> ArgOut(o)) /\ Direct(o)' = Direct(o)
    BY UseFrozen
  <1> QED  BY <1>1, <1>2 DEF FromOwners

LEMMA ExpandsFrozen ==
  ASSUME sdk' = sdk, NEW CONSTANT s
  PROVE  Expands(s)' <=> Expands(s)
  <1>1. Owners(s)' = Owners(s) /\ ArrayOwners(s)' = ArrayOwners(s)
    BY OwnersFrozen
  <1>2. /\ ArgOut(s)' <=> ArgOut(s)
        /\ Input(s)' <=> Input(s)
        /\ CallbackArg(s)' <=> CallbackArg(s)
        /\ Output(s)' <=> Output(s)
    BY UseFrozen
  <1>3. Struct(s)' = Struct(s) /\ Fields(s)' = Fields(s) /\ Structs' = Structs /\ Args' = Args
    BY FieldsFrozen
  <1>4. IsInputOnly(s)' <=> IsInputOnly(s)
    BY <1>1, <1>2, <1>3 DEF IsInputOnly
  <1>5. IsCallbackOnly(s)' <=> IsCallbackOnly(s)
    BY <1>1, <1>2 DEF IsCallbackOnly
  <1>6. \A f : UserFilledIn(f, s)' <=> UserFilledIn(f, s)
    BY <1>3 DEF UserFilledIn
  <1>7. FieldCount(s)' = FieldCount(s)
    BY <1>3, <1>6 DEF FieldCount
  <1> QED  BY <1>4, <1>5, <1>7 DEF Expands

-----------------------------------------------------------------------------
(* What the assumptions say of the parsed SDK, in the words of the model.  *)
Whole(s) == \E f \in Range(Fields(s)) : f.base \in Structs

LEMMA UseIs ==
  ASSUME sdk \in Sdks, NEW s \in Structs
  PROVE  /\ s \in PassedIn(sdk) <=> InputPtr(s)
         /\ s \in PassedIn(sdk) <=> Input(s)
         /\ ~InputValue(s)
         /\ s \in GivenOut(sdk) <=> Output(s) \/ ArgOut(s)
  <1>1. \A a \in Args : a.base = s => a.ptr \in Nat \ {0}
    BY UseAssumption DEF Args, Structs
  <1>2. s \in PassedIn(sdk) <=> \E a \in Args : a.base = s /\ a.name[1] # "out"
    BY DEF PassedIn, Args
  <1>3. ~InputValue(s)
    BY <1>1 DEF InputValue
  <1>4. s \in PassedIn(sdk) <=> InputPtr(s)
    BY <1>1, <1>2 DEF InputPtr
  <1>5. s \in GivenOut(sdk) <=>
          \/ \E a \in Args : a.base = s /\ a.name[1] = "out"
          \/ \E m \in Range(sdk.methods) : m.returns = s
          \/ \E c \in Range(sdk.callbacks) : c.arg = s
    <2> DEFINE A == {a.base : a \in {b \in ArgsOf(sdk) : b.name[1] = "out"}}
               B == {m.returns : m \in Range(sdk.methods)}
               C == {c.arg : c \in Range(sdk.callbacks)}
    <2>1. GivenOut(sdk) = A \cup B \cup C
      BY DEF GivenOut
    <2>2. s \in A <=> \E a \in Args : a.base = s /\ a.name[1] = "out"
      BY DEF Args
    <2>3. s \in B <=> \E m \in Range(sdk.methods) : m.returns = s
      OBVIOUS
    <2>4. s \in C <=> \E c \in Range(sdk.callbacks) : c.arg = s
      OBVIOUS
    <2> HIDE DEF A, B, C
    <2> QED  BY <2>1, <2>2, <2>3, <2>4
  <1>6. s \in GivenOut(sdk) <=> Output(s) \/ ArgOut(s)
    BY <1>5 DEF Output, ArgOut, CallbackArg
  <1> QED  BY <1>3, <1>4, <1>6 DEF Input

(* Of a struct and one it has inside, by field f.                          *)
LEMMA OwnerUses ==
  ASSUME sdk \in Sdks, NEW o \in Structs, NEW s \in Structs,
         NEW f \in Range(Fields(o)), f.base = s
  PROVE  IF IsStructArray(f, o)
           THEN /\ o \in ArrayOwners(s) /\ ~Whole(s)
                /\ \/ InputPtr(s)
                   \/ \A g \in Range(Fields(s)) :
                        Sort[g.base] \in {"text", "handle"} => Hidden(g) \/ g.ptr = 0
           ELSE /\ o \in Owners(s)
                /\ Whole(s) => /\ Input(o) => InputPtr(s)
                               /\ Output(o) \/ ArgOut(o) => Output(s) \/ ArgOut(s)
  <1>1. Struct(o) \in Range(sdk.structs) /\ Struct(o).name = o
        /\ Struct(s) \in Range(sdk.structs) /\ Struct(s).name = s
    BY StructIs
  <1>2. Struct(o).fields = Fields(o) /\ Struct(s).fields = Fields(s)
    BY DEF Fields
  <1>3. IF StructArrayIn(f, Fields(o))
          THEN /\ ~Holds(Struct(s), sdk)
               /\ \/ s \in PassedIn(sdk)
                  \/ \A g \in Range(Fields(s)) :
                       Sort[g.base] \in {"text", "handle"} => Hidden(g) \/ g.ptr = 0
          ELSE Holds(Struct(s), sdk) => /\ o \in PassedIn(sdk) => s \in PassedIn(sdk)
                                        /\ o \in GivenOut(sdk) => s \in GivenOut(sdk)
    BY <1>1, <1>2, UseAssumption
  <1>4. Holds(Struct(s), sdk) <=> Whole(s)
    BY <1>2 DEF Holds, Whole, Structs
  <1>5. IF IsStructArray(f, o) THEN o \in ArrayOwners(s) ELSE o \in Owners(s)
    BY DEF ArrayOwners, Owners
  <1>6. IsStructArray(f, o) <=> StructArrayIn(f, Fields(o))
    BY DEF IsStructArray
  <1>7. /\ s \in PassedIn(sdk) <=> InputPtr(s)
        /\ o \in PassedIn(sdk) <=> Input(o)
        /\ s \in GivenOut(sdk) <=> Output(s) \/ ArgOut(s)
        /\ o \in GivenOut(sdk) <=> Output(o) \/ ArgOut(o)
    BY UseIs
  <1> QED  BY <1>3, <1>4, <1>5, <1>6, <1>7

(* A struct that has one inside asks of its class, by its own use, all     *)
(* that the structs it is in ask of it.                                    *)
LEMMA WholeAsks ==
  ASSUME sdk \in Sdks, NEW s \in Structs, Whole(s)
  PROVE  /\ ArrayOwners(s) = {}
         /\ \A o \in Owners(s) : o \in Structs
              /\ Direct(o) \cap {"set_to", "to", "set_from"} \subseteq Direct(s)
  <1>1. ASSUME NEW o \in ArrayOwners(s)
        PROVE  FALSE
    <2>1. o \in Structs
      BY DEF ArrayOwners
    <2>2. PICK f \in Range(Fields(o)) : f.base = s /\ IsStructArray(f, o)
      BY DEF ArrayOwners
    <2> QED  BY <2>1, <2>2, OwnerUses
  <1>2. ASSUME NEW o \in Owners(s)
        PROVE  o \in Structs /\ Direct(o) \cap {"set_to", "to", "set_from"} \subseteq Direct(s)
    <2>1. o \in Structs
      BY DEF Owners
    <2>2. PICK f \in Range(Fields(o)) : f.base = s /\ ~IsStructArray(f, o)
      BY DEF Owners
    <2>3. /\ Input(o) => InputPtr(s)
          /\ Output(o) \/ ArgOut(o) => Output(s) \/ ArgOut(s)
      BY <2>1, <2>2, OwnerUses
    <2>4. ASSUME NEW c \in Direct(o), c \in {"set_to", "to", "set_from"}
          PROVE  c \in Direct(s)
      <3>1. CASE c \in {"set_to", "to"}
        <4>1. Input(o)
          BY <3>1, <2>4, DirectIs DEF Input
        <4> QED  BY <3>1, <4>1, <2>3, DirectIs
      <3>2. CASE c = "set_from"
        <4>1. Output(o) \/ ArgOut(o)
          BY <3>2, <2>4, DirectIs
        <4> QED  BY <3>2, <4>1, <2>3, DirectIs
      <3> QED  BY <2>4, <3>1, <3>2
    <2> QED  BY <2>1, <2>4
  <1> QED  BY <1>1, <1>2

LEMMA OwnersWhole ==
  ASSUME NEW s \in Structs, NEW o \in Owners(s) \cup ArrayOwners(s)
  PROVE  o \in Structs /\ Whole(o)
  BY DEF Owners, ArrayOwners, Whole

-----------------------------------------------------------------------------
(* The first two passes.  A struct asks at least what its own use asks;    *)
(* one that has a struct inside asks nothing more, so that the single pass *)
(* over the owners, in whatever order they were parsed, finds them done.   *)
(* What "to" needs is asked with it, except of an array's elements.        *)
AskedOf(s) ==
    /\ Direct(s) \subseteq needs[s]
    /\ Whole(s) => needs[s] = Direct(s)
    /\ "to" \in needs[s] => "set_to" \in needs[s]
    /\ "from" \in needs[s] => "set_from" \in needs[s]
    /\ "set_to" \in needs[s] /\ "to" \notin needs[s] => ArrayOwners(s) # {}

Asked == step = "use" \/ \A s \in Structs : AskedOf(s)

(* The structs that the second pass has been to ask all that their owners  *)
(* ask of them.                                                            *)
Settled ==
    \A k \in 1 .. Len(sdk.structs) :
        step # "use" /\ (step = "inherit" => k < at) =>
            \A c : FromOwners(sdk.structs[k].name, c) => c \in needs[sdk.structs[k].name]

LEMMA InheritedFromOwners ==
  ASSUME sdk \in Sdks, NEW s \in Structs, \A o \in Structs : AskedOf(o), NEW c
  PROVE  c \in Inherited(s) <=> FromOwners(s, c)
  <1>1. \A o \in Owners(s) : needs[o] = Direct(o)
    BY OwnersWhole DEF AskedOf
  <1> QED  BY <1>1, InheritedIs DEF FromOwners

LEMMA AskedOfUse ==
  ASSUME sdk \in Sdks, NEW s \in Structs
  PROVE  /\ "to" \in Direct(s) <=> "set_to" \in Direct(s)
         /\ "from" \in Direct(s) => "set_from" \in Direct(s)
  BY UseIs, DirectIs

(* Adding what the owners ask keeps all of it.                             *)
LEMMA AskedMore ==
  ASSUME sdk \in Sdks, NEW s \in Structs, \A o \in Structs : AskedOf(o),
         NEW all, all = needs[s] \cup Inherited(s)
  PROVE  /\ Direct(s) \subseteq all
         /\ Whole(s) => all = Direct(s)
         /\ "to" \in all => "set_to" \in all
         /\ "from" \in all => "set_from" \in all
         /\ "set_to" \in all /\ "to" \notin all => ArrayOwners(s) # {}
  <1>1. AskedOf(s)
    OBVIOUS
  <1>2. \A c : c \in Inherited(s) <=> FromOwners(s, c)
    BY InheritedFromOwners
  <1>3. \A o \in Owners(s) : o \in Structs /\ ("to" \in Direct(o) <=> "set_to" \in Direct(o))
    <2>1. \A o \in Owners(s) : o \in Structs
      BY OwnersWhole
    <2> QED  BY <2>1, AskedOfUse
  <1>4. Direct(s) \subseteq all
    BY <1>1 DEF AskedOf
  <1>5. ASSUME Whole(s)
        PROVE  all = Direct(s)
    <2>1. ArrayOwners(s) = {}
          /\ \A o \in Owners(s) : Direct(o) \cap {"set_to", "to", "set_from"} \subseteq Direct(s)
      BY <1>5, WholeAsks
    <2>2. \A c : FromOwners(s, c) => c \in Direct(s)
      BY <2>1 DEF FromOwners
    <2>3. needs[s] = Direct(s)
      BY <1>1, <1>5 DEF AskedOf
    <2> QED  BY <2>2, <2>3, <1>2
  <1>6. "to" \in Inherited(s) => "set_to" \in Inherited(s)
    BY <1>2, <1>3 DEF FromOwners
  <1>7. "set_to" \in Inherited(s) /\ "to" \notin Inherited(s) => ArrayOwners(s) # {}
    BY <1>2, <1>3 DEF FromOwners
  <1>8. "from" \in Inherited(s) => "set_from" \in Inherited(s)
    BY <1>2 DEF FromOwners
  <1> QED  BY <1>1, <1>4, <1>5, <1>6, <1>7, <1>8 DEF AskedOf

LEMMA AskedOfFrozen ==
  ASSUME sdk' = sdk, NEW CONSTANT s
  PROVE  /\ Direct(s)' = Direct(s) /\ ArrayOwners(s)' = ArrayOwners(s)
         /\ Whole(s)' <=> Whole(s)
         /\ Structs' = Structs
  <1>1. Fields(s)' = Fields(s) /\ Structs' = Structs
    BY FieldsFrozen
  <1>2. Direct(s)' = Direct(s) /\ ArrayOwners(s)' = ArrayOwners(s)
    BY UseFrozen, OwnersFrozen
  <1> QED  BY <1>1, <1>2 DEF Whole

LEMMA AskedInit == Init => Asked /\ Settled
  BY DEF Init, TypesInit, Asked, Settled

(* Everything but the two passes leaves the requirements alone.            *)
LEMMA AskedKept ==
  ASSUME Asked, Settled, UNCHANGED <<sdk, needs>>, step \notin {"use", "inherit"},
         step' \notin {"use", "inherit"}
  PROVE  Asked' /\ Settled'
  <1>1. Structs' = Structs
    BY FieldsFrozen
  <1>2. \A s \in Structs : AskedOf(s)
    BY DEF Asked
  <1>3. \A s \in Structs : AskedOf(s)'
    BY <1>2, AskedOfFrozen DEF AskedOf
  <1>4. Asked'
    BY <1>1, <1>3 DEF Asked
  <1>5. \A s, c : FromOwners(s, c)' <=> FromOwners(s, c)
    BY FromOwnersFrozen
  <1>6. Settled'
    BY <1>5 DEF Settled
  <1> QED  BY <1>4, <1>6

LEMMA AskedByUse ==
  ASSUME Typed, RequireByUse
  PROVE  Asked' /\ Settled'
  <1>1. sdk' = sdk /\ needs' = [s \in Structs |-> Direct(s)] /\ step' = "inherit" /\ at' = 1
    BY DEF RequireByUse, Typed, Placed
  <1>2. Structs' = Structs
    BY <1>1, FieldsFrozen
  <1>3. ASSUME NEW s \in Structs
        PROVE  AskedOf(s)'
    <2>1. needs'[s] = Direct(s)
      BY <1>1
    <2>2. Direct(s)' = Direct(s)
      BY <1>1, AskedOfFrozen
    <2>3. /\ "to" \in Direct(s) <=> "set_to" \in Direct(s)
          /\ "from" \in Direct(s) => "set_from" \in Direct(s)
      BY AskedOfUse DEF Typed
    <2> QED  BY <2>1, <2>2, <2>3 DEF AskedOf
  <1>4. Asked'
    BY <1>2, <1>3 DEF Asked
  <1>5. Settled'
    BY <1>1 DEF Settled
  <1> QED  BY <1>4, <1>5

LEMMA AskedByOwner ==
  ASSUME Typed, Asked, Settled, RequireByOwner
  PROVE  Asked' /\ Settled'
  <1> DEFINE s0 == sdk.structs[at].name
             L == Len(sdk.structs)
  <1>1. /\ sdk' = sdk /\ step = "inherit" /\ at \in 1 .. L
        /\ needs' = [needs EXCEPT ![s0] = @ \cup Inherited(s0)]
        /\ Through(sdk.structs, "expand")
    BY DEF RequireByOwner, Typed, Placed
  <1>2. Structs' = Structs
    BY <1>1, FieldsFrozen
  <1>3. L \in Nat \ {0} /\ \A k \in 1 .. L : sdk.structs[k].name \in Structs
    BY SdkIs DEF Typed
  <1>4. s0 \in Structs
    BY <1>1, <1>3
  <1>5. \/ step' = "inherit" /\ at' = at + 1 /\ at' \in 1 .. L
        \/ step' = "expand" /\ at' = 1 /\ at = L
    BY <1>1, <1>3, ThroughIs
  <1>6. \A s \in Structs : AskedOf(s)
    BY <1>1 DEF Asked
  <1>7. /\ needs'[s0] = needs[s0] \cup Inherited(s0)
        /\ \A s \in Structs : s # s0 => needs'[s] = needs[s]
    <2> HIDE DEF s0
    <2> QED  BY <1>1, <1>4 DEF Typed
  <1> HIDE DEF s0
  <1>8. ASSUME NEW s \in Structs
        PROVE  AskedOf(s)'
    <2>1. /\ Direct(s)' = Direct(s) /\ ArrayOwners(s)' = ArrayOwners(s)
          /\ Whole(s)' <=> Whole(s)
      BY <1>1, AskedOfFrozen
    <2>2. CASE s # s0
      BY <2>1, <2>2, <1>6, <1>7 DEF AskedOf
    <2>3. CASE s = s0
      <3>1. needs'[s] = needs[s] \cup Inherited(s)
        BY <2>3, <1>7
      <3>2. /\ Direct(s) \subseteq needs'[s]
            /\ Whole(s) => needs'[s] = Direct(s)
            /\ "to" \in needs'[s] => "set_to" \in needs'[s]
            /\ "from" \in needs'[s] => "set_from" \in needs'[s]
            /\ "set_to" \in needs'[s] /\ "to" \notin needs'[s] => ArrayOwners(s) # {}
        BY <3>1, <1>6, AskedMore DEF Typed
      <3> QED  BY <2>1, <3>2 DEF AskedOf
    <2> QED  BY <2>2, <2>3
  <1>9. Asked'
    BY <1>2, <1>8 DEF Asked
  <1>10. ASSUME NEW k \in 1 .. L, step' = "inherit" => k < at'
         PROVE  \A c : FromOwners(sdk.structs[k].name, c) => c \in needs'[sdk.structs[k].name]
    <2> DEFINE s == sdk.structs[k].name
    <2>1. s \in Structs
      BY <1>3
    <2>2. k < at \/ k = at
      BY <1>5, <1>10, <1>3, <1>1
    <2>3. CASE k < at
      <3>1. \A c : FromOwners(s, c) => c \in needs[s]
        BY <2>3, <1>1 DEF Settled
      <3>2. needs[s] \subseteq needs'[s]
        BY <2>1, <1>7
      <3> QED  BY <3>1, <3>2
    <2>4. CASE k = at
      <3>1. s = s0
        BY <2>4 DEF s0
      <3>2. \A c : c \in Inherited(s) <=> FromOwners(s, c)
        BY <2>1, <1>6, InheritedFromOwners DEF Typed
      <3> QED  BY <3>1, <3>2, <1>7
    <2> QED  BY <2>2, <2>3, <2>4
  <1>11. \A s, c : FromOwners(s, c)' <=> FromOwners(s, c)
    BY <1>1, FromOwnersFrozen
  <1>12. Settled'
    BY <1>1, <1>10, <1>11 DEF Settled
  <1> QED  BY <1>9, <1>12

(* The structs to be taken apart are those the third pass finds fit.       *)
Fit == \A s \in expanded : Expands(s)

LEMMA RequirementsStep ==
  ASSUME Typed, Asked, Settled, Fit, [Next]_vars
  PROVE  Asked' /\ Settled' /\ Fit'
  <1> USE DEF typeVars
  <1>1. sdk' = sdk
    BY DEF Next, Preparing, RequireByUse, RequireByOwner, Expand, GenPackedResult, GenStruct,
           GenMethod, GenSignals, Done, Fail, vars
  <1>2. \A s : Expands(s)' <=> Expands(s)
    BY <1>1, ExpandsFrozen
  <1>3. CASE RequireByUse
    BY <1>2, <1>3, AskedByUse DEF RequireByUse, Fit
  <1>4. CASE RequireByOwner
    BY <1>2, <1>4, AskedByOwner DEF RequireByOwner, Fit
  <1>5. CASE Expand
    <2>1. Asked' /\ Settled'
      BY <1>5, <1>1, AskedKept DEF Expand, Through
    <2>2. Fit'
      BY <1>2, <1>5 DEF Expand, Fit
    <2> QED  BY <2>1, <2>2
  <1>6. CASE GenPackedResult \/ GenStruct \/ GenMethod \/ GenSignals
    <2>1. UNCHANGED <<needs, expanded>> /\ step \notin {"use", "inherit"}
          /\ step' \notin {"use", "inherit"}
      BY <1>6 DEF GenPackedResult, GenStruct, GenMethod, GenSignals, Fail, Through
    <2> QED  BY <1>1, <1>2, <2>1, AskedKept DEF Fit
  <1>7. CASE UNCHANGED vars
    <2>1. UNCHANGED <<sdk, needs, expanded, step, at>>
      BY <1>7 DEF vars
    <2>2. Structs' = Structs
      BY <1>1, FieldsFrozen
    <2>3. \A s : AskedOf(s)' <=> AskedOf(s)
      BY <2>1, AskedOfFrozen DEF AskedOf
    <2>4. \A s, c : FromOwners(s, c)' <=> FromOwners(s, c)
      BY <1>1, FromOwnersFrozen
    <2>5. Asked'
      BY <2>1, <2>2, <2>3 DEF Asked
    <2>6. Settled'
      BY <2>1, <2>4 DEF Settled
    <2> QED  BY <2>1, <2>5, <2>6, <1>2 DEF Fit
  <1> QED  BY <1>3, <1>4, <1>5, <1>6, <1>7 DEF Next, Preparing, Done

-----------------------------------------------------------------------------
(* Once the passes are over, what the written code may call is there.      *)
Ready ==
    /\ Typed /\ Fit
    /\ \A s \in Structs : AskedOf(s)
    /\ \A s \in Structs : \A c : FromOwners(s, c) => c \in needs[s]

Declared(c) == c[1] \in Structs /\ HasClass(c[1]) /\ c[2] \in needs[c[1]]

LEMMA PassesOver ==
  ASSUME Typed, Asked, Settled, Fit, step \notin {"use", "inherit"}
  PROVE  Ready
  <1>1. \A s \in Structs : AskedOf(s)
    BY DEF Asked
  <1>2. \A s \in Structs : \A c : FromOwners(s, c) => c \in needs[s]
    BY SdkIs DEF Settled, Typed
  <1> QED  BY <1>1, <1>2 DEF Ready

LEMMA LiveIs ==
  ASSUME NEW s, NEW f \in Live(s)
  PROVE  f \in Range(Fields(s)) /\ ~Hidden(f)
  <1>1. f \in Range(Fields(s)) /\ f.name \notin CountAndTypeFields(s)
    BY DEF Live
  <1>2. Hidden(f) => f.name \in CountAndTypeFields(s)
    BY <1>1 DEF CountAndTypeFields
  <1> QED  BY <1>1, <1>2

(* A struct inside a struct that is not deprecated has a class.            *)
LEMMA InnerClass ==
  ASSUME Ready, NEW s \in Structs, ~Struct(s).deprecated, NEW f \in Live(s), f.base \in Structs
  PROVE  HasClass(f.base)
  <1> DEFINE b == f.base
  <1>1. sdk \in Sdks
    BY DEF Ready, Typed
  <1>2. f \in Range(Fields(s)) /\ ~Hidden(f)
    BY LiveIs
  <1>3. /\ Struct(s) \in Range(sdk.structs) /\ Struct(s).fields = Fields(s)
        /\ Struct(b) \in Range(sdk.structs) /\ Struct(b).name = b
    BY <1>1, StructIs DEF Fields
  <1>4. ~Struct(b).deprecated
    <2> DEFINE gone == {t.name : t \in {u \in Range(sdk.structs) : u.deprecated}}
    <2>1. \A t \in Range(sdk.structs) :
             t.deprecated \/ \A g \in Range(t.fields) : Hidden(g) \/ g.base \notin gone
      BY <1>1, MethodsAssumption
    <2>2. b \notin gone
      BY <1>2, <1>3, <2>1
    <2> QED  BY <1>3, <2>2
  <1>5. Owners(b) # {} \/ ArrayOwners(b) # {}
    BY <1>2 DEF Owners, ArrayOwners
  <1>6. ~IsInputOnly(b)
    BY <1>5 DEF IsInputOnly
  <1>7. ~CallbackArg(b)
    <2>1. \A c \in Range(sdk.callbacks) : c.arg # b
      BY <1>1, <1>2, <1>3, InfosAssumption
    <2> QED  BY <2>1 DEF CallbackArg
  <1>8. b \notin expanded
    BY <1>6, <1>7 DEF Ready, Fit, Expands, IsCallbackOnly
  <1> QED  BY <1>4, <1>8 DEF HasClass, IsExpanded

(* The conversion of a field that is a struct, to and from the SDK's.      *)
LEMMA ToCalls ==
  ASSUME Ready, NEW s \in Structs, ~Struct(s).deprecated, "set_to" \in needs[s],
         NEW f \in Live(s), NEW c \in StructCalls(f, s)
  PROVE  Declared(c)
  <1> DEFINE b == f.base
             conv == IF f.ptr > 0 /\ ~ConvertsEach(f, s) THEN "to" ELSE "set_to"
  <1>1. sdk \in Sdks /\ f \in Range(Fields(s))
    BY LiveIs DEF Ready, Typed
  <1>2. Sort[b] = "struct" /\ c = <<b, conv>>
    BY DEF StructCalls
  <1>3. b \in Structs
    BY <1>1, <1>2, StructIs
  <1>4. HasClass(b)
    BY <1>3, InnerClass
  <1>5. Whole(s)
    BY <1>1, <1>3 DEF Whole
  <1>6. needs[s] = Direct(s)
    BY <1>5 DEF Ready, AskedOf
  <1>7. "set_to" \in Direct(s) /\ "to" \in Direct(s)
    BY <1>1, <1>6, AskedOfUse
  <1>8. Input(s)
    BY <1>7, DirectIs DEF Input
  <1>9. ConvertsEach(f, s) <=> IsStructArray(f, s)
    BY <1>2 DEF ConvertsEach
  <1>10. conv \in {"to", "set_to"} /\ (IsStructArray(f, s) => conv = "set_to")
    BY <1>9
  <1> HIDE DEF conv
  <1>11. IF IsStructArray(f, s) THEN s \in ArrayOwners(b) ELSE s \in Owners(b)
    BY <1>1 DEF ArrayOwners, Owners
  <1>12. FromOwners(b, conv)
    BY <1>7, <1>8, <1>10, <1>11 DEF FromOwners
  <1>13. conv \in needs[b]
    BY <1>3, <1>12 DEF Ready
  <1> QED  BY <1>2, <1>3, <1>4, <1>13 DEF Declared

LEMMA FromCalls ==
  ASSUME Ready, NEW s \in Structs, ~Struct(s).deprecated, "set_from" \in needs[s],
         NEW f \in Live(s), NEW c \in SetFromCalls(f, s)
  PROVE  Declared(c)
  <1> DEFINE b == f.base
             conv == IF ConvertsEach(f, s) THEN "from" ELSE "set_from"
  <1>1. sdk \in Sdks /\ f \in Range(Fields(s))
    BY LiveIs DEF Ready, Typed
  <1>2. Sort[b] = "struct" /\ c = <<b, conv>>
    BY DEF SetFromCalls
  <1>3. b \in Structs
    BY <1>1, <1>2, StructIs
  <1>4. HasClass(b)
    BY <1>3, InnerClass
  <1>5. Whole(s)
    BY <1>1, <1>3 DEF Whole
  <1>6. "set_from" \in Direct(s)
    BY <1>5 DEF Ready, AskedOf
  <1>7. Output(s) \/ ArgOut(s)
    BY <1>6, DirectIs
  <1>8. ConvertsEach(f, s) <=> IsStructArray(f, s)
    BY <1>2 DEF ConvertsEach
  <1>9. IF IsStructArray(f, s) THEN conv = "from" ELSE conv = "set_from"
    BY <1>8
  <1> HIDE DEF conv
  <1>10. IF IsStructArray(f, s) THEN s \in ArrayOwners(b) ELSE s \in Owners(b)
    BY <1>1 DEF ArrayOwners, Owners
  <1>11. FromOwners(b, conv)
    BY <1>6, <1>7, <1>9, <1>10 DEF FromOwners
  <1>12. conv \in needs[b]
    BY <1>3, <1>11 DEF Ready
  <1> QED  BY <1>2, <1>3, <1>4, <1>12 DEF Declared

(* Only structs with to_eos have a place for the elements of an array.     *)
LEMMA ShadowsKept ==
  ASSUME Ready, NEW s \in Structs, "set_to" \in needs[s], NEW f \in Live(s), IsShadowed(f, s)
  PROVE  "to" \in needs[s]
  <1>1. sdk \in Sdks /\ f \in Range(Fields(s)) /\ ~Hidden(f)
    BY LiveIs DEF Ready, Typed
  <1>2. AskedOf(s)
    BY DEF Ready
  <1>3. SUFFICES ASSUME "to" \notin needs[s]
                 PROVE  FALSE
    OBVIOUS
  <1>4. PICK o \in ArrayOwners(s) : TRUE
    BY <1>2, <1>3 DEF AskedOf
  <1>5. o \in Structs
    BY DEF ArrayOwners
  <1>6. PICK g \in Range(Fields(o)) : g.base = s /\ IsStructArray(g, o)
    BY DEF ArrayOwners
  <1>7. /\ ~Whole(s)
        /\ \/ InputPtr(s)
           \/ \A h \in Range(Fields(s)) : Sort[h.base] \in {"text", "handle"} => Hidden(h) \/ h.ptr = 0
    BY <1>1, <1>5, <1>6, OwnerUses
  <1>8. ~InputPtr(s)
    BY <1>2, <1>3, DirectIs DEF AskedOf
  <1>9. Sort[f.base] \in {"text", "handle"} => f.ptr = 0
    BY <1>1, <1>7, <1>8
  <1>10. f.ptr \in Nat /\ Sort[f.base] # "struct"
    BY <1>1, <1>7, StructIs DEF Whole
  <1>11. ~ConvertsEach(f, s)
    BY <1>10 DEF ConvertsEach, IsStructArray, StructArrayIn
  <1>12. ~IsHandleArray(f)
    BY <1>9, <1>10 DEF IsHandleArray
  <1> QED  BY <1>9, <1>11, <1>12 DEF IsShadowed

-----------------------------------------------------------------------------
(* What the class of a struct calls.                                       *)
LEMMA ClassCallsDeclared ==
  ASSUME Ready, NEW s \in Structs, HasClass(s), NEW c \in ClassCalls(s)
  PROVE  Declared(c)
  <1> DEFINE A == UNION {IF "set_to" \in needs[s] THEN SetToCalls(f, s) ELSE {} : f \in Live(s)}
             B == UNION {IF "set_from" \in needs[s] THEN SetFromCalls(f, s) ELSE {} : f \in Live(s)}
             C == IF "from" \in needs[s] THEN {<<s, "set_from">>} ELSE {}
             D == IF "to" \in needs[s] THEN {<<s, "set_to">>} ELSE {}
  <1>1. ClassCalls(s) = A \cup B \cup C \cup D
    BY DEF ClassCalls
  <1>2. ~Struct(s).deprecated
    BY DEF HasClass
  <1>3. AskedOf(s)
    BY DEF Ready
  <1>4. ASSUME c \in A
        PROVE  Declared(c)
    <2>1. PICK f \in Live(s) : "set_to" \in needs[s] /\ c \in SetToCalls(f, s)
      BY <1>4
    <2>2. CASE c \in StructCalls(f, s)
      BY <1>2, <2>1, <2>2, ToCalls
    <2>3. CASE c = <<s, "to">> /\ IsShadowed(f, s)
      <3>1. "to" \in needs[s]
        BY <2>1, <2>3, ShadowsKept
      <3> QED  BY <2>3, <3>1 DEF Declared
    <2> QED  BY <2>1, <2>2, <2>3 DEF SetToCalls
  <1>5. ASSUME c \in B
        PROVE  Declared(c)
    <2>1. PICK f \in Live(s) : "set_from" \in needs[s] /\ c \in SetFromCalls(f, s)
      BY <1>5
    <2> QED  BY <1>2, <2>1, FromCalls
  <1>6. ASSUME c \in C
        PROVE  Declared(c)
    BY <1>3, <1>6 DEF Declared, AskedOf
  <1>7. ASSUME c \in D
        PROVE  Declared(c)
    BY <1>3, <1>7 DEF Declared, AskedOf
  <1> HIDE DEF A, B, C, D
  <1> QED  BY <1>1, <1>4, <1>5, <1>6, <1>7

(* What a callback calls: its info's class, or, where the info was taken   *)
(* apart, nothing, for then no field of it is converted.                   *)
LEMMA FieldCountIs ==
  ASSUME sdk \in Sdks, NEW s \in Structs
  PROVE  /\ FieldCount(s) \in Nat
         /\ FieldCount(s) =
              Cardinality({k \in DOMAIN Fields(s) :
                 /\ Fields(s)[k].name \notin {ClientData, ApiVersion}
                 /\ ~(sdk.oneUser /\ Fields(s)[k].name = LocalUserId /\ ~Struct(s).logins)})
  <1> DEFINE own == {k \in DOMAIN Fields(s) :
                 /\ Fields(s)[k].name \notin {ClientData, ApiVersion}
                 /\ ~(sdk.oneUser /\ Fields(s)[k].name = LocalUserId /\ ~Struct(s).logins)}
  <1>1. FieldCount(s) = Cardinality(own)
    BY DEF FieldCount, UserFilledIn
  <1>2. Fields(s) \in Seq(Range(Fields(s)))
    BY StructIs, SdkAssumption DEF Fields
  <1>3. Len(Fields(s)) \in Nat /\ own \subseteq 1 .. Len(Fields(s))
    BY <1>2
  <1>4. IsFiniteSet(1 .. Len(Fields(s)))
    BY <1>3, FS_Interval
  <1> HIDE DEF own
  <1>5. IsFiniteSet(own)
    BY <1>3, <1>4, FS_Subset
  <1>6. Cardinality(own) \in Nat
    BY <1>5, FS_CardinalityType
  <1> QED  BY <1>1, <1>6 DEF own

LEMMA TakenApartInfo ==
  ASSUME Ready, NEW c \in Range(sdk.callbacks), c.arg \in Structs, IsExpanded(c.arg),
         NEW f \in Live(c.arg)
  PROVE  Sort[f.base] # "struct" /\ ~IsHandleArray(f)
  <1> DEFINE s == c.arg
             counted == {k \in DOMAIN Fields(s) :
                 /\ Fields(s)[k].name \notin {ClientData, ApiVersion}
                 /\ ~(sdk.oneUser /\ Fields(s)[k].name = LocalUserId /\ ~Struct(s).logins)}
  <1>1. sdk \in Sdks /\ f \in Range(Fields(s)) /\ ~Hidden(f)
    BY LiveIs DEF Ready, Typed
  <1>2. /\ Struct(s) \in Range(sdk.structs) /\ Struct(s).name = s
        /\ Struct(s).fields = Fields(s) /\ ~Struct(s).kept
    BY <1>1, StructIs DEF Fields, IsExpanded
  <1>3. Expands(s)
    BY DEF IsExpanded, Ready, Fit
  <1>4. Output(s)
    BY DEF Output, CallbackArg
  <1>5. FieldCount(s) <= sdk.callbackLimit
    BY <1>3, <1>4 DEF Expands, IsInputOnly
  <1>6. FieldCount(s) \in Nat /\ FieldCount(s) = Cardinality(counted)
    BY <1>1, FieldCountIs
  <1>7. sdk.callbackLimit \in Nat
    BY <1>1, SdkAssumption
  <1>8. \/ \A g \in Range(Fields(s)) : Hidden(g) \/ (g.base \notin Structs /\ ~IsHandleArray(g))
        \/ sdk.callbackLimit < Cardinality(counted)
    BY <1>1, <1>2, InfosAssumption DEF Structs
  <1> HIDE DEF counted
  <1>9. f.base \notin Structs /\ ~IsHandleArray(f)
    BY <1>1, <1>5, <1>6, <1>7, <1>8
  <1> QED  BY <1>1, <1>9, StructIs

LEMMA CallbackCallsDeclared ==
  ASSUME Ready, NEW c \in Range(sdk.callbacks), ~c.deprecated, ~CallbackFails(c),
         NEW d \in CallbackCalls(c)
  PROVE  Declared(d)
  <1> DEFINE s == c.arg
  <1>1. sdk \in Sdks /\ s \in Structs
    BY DEF Ready, Typed, CallbackFails
  <1>2. Struct(s) \in Range(sdk.structs) /\ Struct(s).name = s
    BY <1>1, StructIs
  <1>3. ~Struct(s).deprecated
    <2> DEFINE gone == {t.name : t \in {u \in Range(sdk.structs) : u.deprecated}}
    <2>1. s \notin gone
      BY <1>1, MethodsAssumption
    <2> QED  BY <1>2, <2>1
  <1>4. "from" \in needs[s]
    <2>1. Output(s)
      BY DEF Output, CallbackArg
    <2> QED  BY <1>1, <2>1, DirectIs DEF Ready, AskedOf
  <1>5. CASE ~IsExpanded(s)
    <2>1. d = <<s, "from">>
      BY <1>5 DEF CallbackCalls
    <2> QED  BY <1>1, <1>3, <1>4, <1>5, <2>1 DEF Declared, HasClass
  <1>6. CASE IsExpanded(s)
    <2>1. PICK f \in ExpandedFields(s) :
             \/ Sort[f.base] = "struct"
             \/ ConvertsEach(f, s) \/ IsHandleArray(f)
      BY <1>6 DEF CallbackCalls
    <2>2. f \in Live(s)
      BY DEF ExpandedFields
    <2>3. Sort[f.base] # "struct" /\ ~IsHandleArray(f)
      BY <1>1, <1>6, <2>2, TakenApartInfo
    <2>4. ~ConvertsEach(f, s)
      BY <2>3 DEF ConvertsEach, IsStructArray, StructArrayIn
    <2> QED  BY <2>1, <2>3, <2>4
  <1> QED  BY <1>5, <1>6

-----------------------------------------------------------------------------
(* What a method calls.  Its arguments are structs that are not deprecated,*)
(* since it is not.                                                        *)
LEMMA ArgumentIs ==
  ASSUME Ready, NEW m \in Range(sdk.methods), ~m.deprecated,
         NEW k \in 1 .. Len(m.args), m.args[k].base \in Structs
  PROVE  /\ m.args[k] \in Args
         /\ ~Struct(m.args[k].base).deprecated
  <1> DEFINE s == m.args[k].base
             gone == {t.name : t \in {u \in Range(sdk.structs) : u.deprecated}}
  <1>1. sdk \in Sdks
    BY DEF Ready, Typed
  <1>2. m.args[k] \in Range(m.args)
    BY <1>1, SdkIs DEF Range
  <1>3. m.args[k] \in Args
    BY <1>2 DEF Args, ArgsOf
  <1>4. Struct(s) \in Range(sdk.structs) /\ Struct(s).name = s
    BY <1>1, StructIs
  <1>5. s \notin gone
    BY <1>1, <1>2, MethodsAssumption
  <1> QED  BY <1>3, <1>4, <1>5

LEMMA ObjectDeclared ==
  ASSUME Ready, NEW m \in Range(sdk.methods), ~m.deprecated, NEW s \in ObjectArgs(m)
  PROVE  Declared(<<s, "to">>)
  <1>1. sdk \in Sdks /\ Len(m.args) \in Nat /\ FirstOut(m) \in 1 .. Len(m.args) + 1
    BY SdkIs, FirstOutIs DEF Ready, Typed
  <1>2. PICK k \in 1 .. FirstOut(m) - 1 : ArgForm(m, k) = "object" /\ m.args[k].base = s
    BY DEF ObjectArgs
  <1>3. k \in 1 .. Len(m.args)
    BY <1>1
  <1>4. IsInputOnly(s) /\ ~IsExpanded(s)
    BY <1>2, FormIs
  <1>5. s \in Structs /\ ~ArgOut(s) /\ ~Struct(s).deprecated /\ m.args[k] \in Args
    BY <1>2, <1>3, <1>4, ArgumentIs DEF IsInputOnly
  <1>6. Input(s)
    <2>1. PICK a \in Args : a.base = s
      BY <1>4 DEF IsInputOnly
    <2>2. a.name[1] # "out"
      BY <1>5, <2>1 DEF ArgOut
    <2>3. s \in PassedIn(sdk)
      BY <2>1, <2>2 DEF PassedIn, Args
    <2> QED  BY <1>1, <1>5, <2>3, UseIs
  <1>7. InputPtr(s)
    BY <1>1, <1>5, <1>6, UseIs
  <1>8. "to" \in needs[s]
    BY <1>5, <1>7, DirectIs DEF Ready, AskedOf
  <1> QED  BY <1>4, <1>5, <1>8 DEF Declared, HasClass

LEMMA TakenApartDeclared ==
  ASSUME Ready, NEW m \in Range(sdk.methods), ~m.deprecated, NEW s \in ExpandedArgs(m),
         NEW f \in Live(s), NEW c \in StructCalls(f, s)
  PROVE  Declared(c)
  <1>1. sdk \in Sdks /\ Len(m.args) \in Nat /\ FirstOut(m) \in 1 .. Len(m.args) + 1
    BY SdkIs, FirstOutIs DEF Ready, Typed
  <1>2. PICK k \in 1 .. FirstOut(m) - 1 : ArgForm(m, k) = "expanded" /\ m.args[k].base = s
    BY DEF ExpandedArgs
  <1>3. k \in 1 .. Len(m.args)
    BY <1>1
  <1>4. IsInputOnly(s)
    BY <1>2, FormIs
  <1>5. s \in Structs /\ ~ArgOut(s) /\ ~Struct(s).deprecated
    BY <1>2, <1>3, <1>4, ArgumentIs DEF IsInputOnly
  <1>6. Input(s)
    <2>1. PICK a \in Args : a.base = s
      BY <1>4 DEF IsInputOnly
    <2>2. a.name[1] # "out"
      BY <1>5, <2>1 DEF ArgOut
    <2>3. s \in PassedIn(sdk)
      BY <2>1, <2>2 DEF PassedIn, Args
    <2> QED  BY <1>1, <1>5, <2>3, UseIs
  <1>7. "set_to" \in needs[s]
    <2>1. "set_to" \in Direct(s)
      BY <1>6, DirectIs DEF Input
    <2> QED  BY <1>5, <2>1 DEF Ready, AskedOf
  <1> QED  BY <1>5, <1>7, ToCalls

LEMMA OutDeclared ==
  ASSUME Ready, NEW m \in Range(sdk.methods), ~m.deprecated, NEW s \in OutStructs(m)
  PROVE  Declared(<<s, "set_from">>)
  <1>1. /\ sdk \in Sdks /\ m.args \in Seq(Range(m.args))
        /\ Len(m.args) \in Nat /\ DOMAIN m.args = 1 .. Len(m.args)
    BY SdkIs DEF Ready, Typed
  <1>2. /\ FirstOut(m) \in 1 .. Len(m.args) + 1
        /\ FirstOut(m) <= Len(m.args) => OutNamed(m.args[FirstOut(m)])
    BY <1>1, FirstOutIs
  <1>3. PICK k \in FirstOut(m) .. Len(m.args) : m.args[k].base \in Structs /\ m.args[k].base = s
    BY DEF OutStructs
  <1>4. k \in 1 .. Len(m.args) /\ FirstOut(m) \in 1 .. Len(m.args)
    BY <1>1, <1>2
  <1>5. OutNamed(m.args[k])
    <2>1. \A i, j \in DOMAIN m.args : i < j /\ OutNamed(m.args[i]) => OutNamed(m.args[j])
      BY <1>1, MethodsAssumption
    <2>2. CASE FirstOut(m) = k
      BY <1>2, <1>4, <2>2
    <2>3. CASE FirstOut(m) < k
      BY <1>1, <1>2, <1>4, <2>1, <2>3
    <2> QED  BY <1>4, <2>2, <2>3
  <1>6. s \in Structs /\ m.args[k] \in Args /\ ~Struct(s).deprecated
    BY <1>3, <1>4, ArgumentIs
  <1>7. m.args[k].name[1] = "out"
    BY <1>1, <1>3, <1>5, <1>6, UseAssumption DEF Args, Structs
  <1>8. ArgOut(s)
    BY <1>3, <1>6, <1>7 DEF ArgOut
  <1>9. "set_from" \in needs[s]
    BY <1>6, <1>8, DirectIs DEF Ready, AskedOf
  <1>10. s \notin expanded
    BY <1>8 DEF Ready, Fit, Expands, IsInputOnly, IsCallbackOnly
  <1> QED  BY <1>6, <1>9, <1>10 DEF Declared, HasClass, IsExpanded

LEMMA MethodCallsDeclared ==
  ASSUME Ready, NEW m \in Range(sdk.methods), ~m.deprecated,
         \A c \in CallbacksOf(m) : ~CallbackFails(c)
  PROVE  /\ \A d \in UNION {CallbackCalls(c) : c \in CallbacksOf(m)} : Declared(d)
         /\ \A d \in MethodCalls(m) : Declared(d)
  <1> DEFINE A == {<<s, "to">> : s \in ObjectArgs(m)}
             B == UNION {UNION {StructCalls(f, s) : f \in Live(s)} : s \in ExpandedArgs(m)}
             C == {<<s, "set_from">> : s \in OutStructs(m)}
             D == UNION {CallbackCalls(c) : c \in CallbacksOf(m)}
  <1>1. MethodCalls(m) = A \cup B \cup C \cup D
    BY DEF MethodCalls
  <1>2. \A d \in A : Declared(d)
    BY ObjectDeclared
  <1>3. ASSUME NEW d \in B
        PROVE  Declared(d)
    <2>1. PICK s \in ExpandedArgs(m) : d \in UNION {StructCalls(f, s) : f \in Live(s)}
      OBVIOUS
    <2>2. PICK f \in Live(s) : d \in StructCalls(f, s)
      BY <2>1
    <2> QED  BY <2>2, TakenApartDeclared
  <1>4. \A d \in C : Declared(d)
    BY OutDeclared
  <1>5. ASSUME NEW d \in D
        PROVE  Declared(d)
    <2>1. PICK c \in CallbacksOf(m) : d \in CallbackCalls(c)
      OBVIOUS
    <2>2. c \in Range(sdk.callbacks) /\ ~c.deprecated
      BY CallbacksOfIs DEF Ready, Typed
    <2> QED  BY <2>1, <2>2, CallbackCallsDeclared
  <1> HIDE DEF A, B, C, D
  <1>6. \A d \in MethodCalls(m) : Declared(d)
    BY <1>1, <1>2, <1>3, <1>4, <1>5
  <1>7. \A d \in D : Declared(d)
    BY <1>5
  <1> QED  BY <1>6, <1>7 DEF D

-----------------------------------------------------------------------------
(* Nothing is called before the passes are over, and then nothing that     *)
(* they did not ask for.                                                   *)
Called ==
    /\ step \in {"use", "inherit", "expand"} => calls = {}
    /\ \A c \in calls : Declared(c)

LEMMA DeclaredFrozen ==
  ASSUME UNCHANGED <<sdk, needs, expanded>>, NEW CONSTANT c
  PROVE  Declared(c)' <=> Declared(c)
  <1>1. \A s : Struct(s)' = Struct(s)
    BY FieldsFrozen
  <1>2. Structs' = Structs
    BY FieldsFrozen
  <1>3. \A s : HasClass(s)' <=> HasClass(s)
    BY <1>1 DEF HasClass, IsExpanded
  <1> QED  BY <1>2, <1>3 DEF Declared

LEMMA CalledStep ==
  ASSUME Typed, Asked, Settled, Fit, Called, [Next]_vars
  PROVE  Called'
  <1> USE DEF typeVars
  <1>1. CASE Preparing
    <2>1. step \in {"use", "inherit", "expand"} /\ calls' = calls
      BY <1>1 DEF Preparing, RequireByUse, RequireByOwner, Expand, output
    <2>2. calls' = {}
      BY <2>1 DEF Called
    <2> QED  BY <2>2 DEF Called
  <1>2. CASE (GenPackedResult \/ GenStruct \/ GenMethod \/ GenSignals \/ UNCHANGED vars)
             /\ calls' = calls
    <2>1. UNCHANGED <<sdk, needs, expanded>>
      BY <1>2 DEF GenPackedResult, GenStruct, GenMethod, GenSignals, Fail, vars
    <2>2. step' = step \/ step' \notin {"use", "inherit", "expand"}
      BY <1>2 DEF GenPackedResult, GenStruct, GenMethod, GenSignals, Fail, Through, vars
    <2>3. \A c : Declared(c)' <=> Declared(c)
      BY <2>1, DeclaredFrozen
    <2> QED  BY <1>2, <2>2, <2>3 DEF Called
  <1>3. CASE GenStruct /\ ~Fail /\ calls' # calls
    <2> DEFINE s == sdk.structs[at].name
    <2>1. UNCHANGED <<sdk, needs, expanded>> /\ step = "structs" /\ step' \in {"structs", "methods"}
      BY <1>3 DEF GenStruct, Through
    <2>2. HasClass(s) /\ calls' = calls \cup ClassCalls(s)
      BY <1>3 DEF GenStruct
    <2>3. s \in Structs
      BY <2>1, SdkIs DEF Typed, Placed
    <2>4. Ready
      BY <2>1, PassesOver
    <2>5. \A c \in ClassCalls(s) : Declared(c)
      <3> HIDE DEF s
      <3> QED  BY <2>2, <2>3, <2>4, ClassCallsDeclared
    <2>6. \A c : Declared(c)' <=> Declared(c)
      BY <2>1, DeclaredFrozen
    <2> HIDE DEF s
    <2> QED  BY <2>1, <2>2, <2>5, <2>6 DEF Called
  <1>4. CASE GenMethod /\ ~Fail /\ calls' # calls
    <2> DEFINE m == sdk.methods[at]
    <2>1. UNCHANGED <<sdk, needs, expanded>> /\ step = "methods" /\ step' \in {"methods", "signals"}
      BY <1>4, GenMethodRest DEF GenMethod, Through
    <2>2. m \in Range(sdk.methods)
      BY <2>1, SdkIs DEF Typed, Placed
    <2>3. Ready
      BY <2>1, PassesOver
    <2>4. \A c \in calls' : c \in calls \/ Declared(c)
      <3>1. CASE IsWritten(m) /\ ~MethodFails(m) /\ WriteMethod(m)
        <4> HIDE DEF m
        <4>1. ~m.deprecated /\ \A c \in CallbacksOf(m) : ~CallbackFails(c)
          BY <3>1 DEF IsWritten, MethodFails
        <4>2. calls' = calls \cup MethodCalls(m)
          BY <3>1 DEF WriteMethod
        <4>3. \A d \in MethodCalls(m) : Declared(d)
          BY <2>2, <2>3, <4>1, MethodCallsDeclared
        <4> QED  BY <4>2, <4>3
      <3>2. CASE ~m.deprecated /\ (\A c \in CallbacksOf(m) : ~CallbackFails(c)) /\ SetUpNotify(m)
        <4> HIDE DEF m
        <4>1. calls' = calls \cup UNION {CallbackCalls(c) : c \in CallbacksOf(m)}
          BY <3>2 DEF SetUpNotify
        <4>2. \A d \in UNION {CallbackCalls(c) : c \in CallbacksOf(m)} : Declared(d)
          BY <2>2, <2>3, <3>2, MethodCallsDeclared
        <4> QED  BY <4>1, <4>2
      <3> QED  BY <1>4, <3>1, <3>2, GenMethodIs
    <2>5. \A c : Declared(c)' <=> Declared(c)
      BY <2>1, DeclaredFrozen
    <2> HIDE DEF m
    <2> QED  BY <2>1, <2>4, <2>5 DEF Called
  <1>5. CASE (GenPackedResult \/ GenSignals \/ Fail) /\ calls' # calls
    BY <1>5 DEF GenPackedResult, GenSignals, Fail, output
  <1>6. CASE UNCHANGED vars
    BY <1>2, <1>6 DEF vars
  <1> QED  BY <1>1, <1>2, <1>3, <1>4, <1>5, <1>6 DEF Next, Done

(* Whatever the SDK, as long as it is of the make the assumptions say:     *)
(* every conversion called by the classes, methods and callbacks that were *)
(* written is a member of a class that was written, since it is one of     *)
(* those make_additional_method_requirements asked for in its passes, the  *)
(* second of which visits each struct once.                                *)
THEOREM CallsDeclaredEver == Spec => []CallsDeclared
  <1> DEFINE All == Asked /\ Settled /\ Fit /\ Called
  <1>1. Init => All
    <2>1. Init => Fit /\ Called
      BY DEF Init, TypesInit, Fit, Called
    <2> QED  BY <2>1, AskedInit
  <1>2. Typed /\ All /\ [Next]_vars => All'
    BY RequirementsStep, CalledStep
  <1>3. All => CallsDeclared
    BY DEF Called, Declared, CallsDeclared
  <1> HIDE DEF All
  <1> QED  BY <1>1, <1>2, <1>3, TypedEver, PTL DEF Spec

-----------------------------------------------------------------------------
(* Induction on numbers, as what a set of them must hold.                  *)
LEMMA Upward ==
  ASSUME NEW n \in Nat, NEW S, 1 \in S, \A k \in 1 .. n : k \in S /\ k + 1 <= n => k + 1 \in S
  PROVE  1 .. n \subseteq S
  <1> SUFFICES ASSUME NEW j \in 1 .. n, j \notin S
               PROVE  FALSE
    OBVIOUS
  <1> DEFINE T == {k \in 1 .. n : k \notin S}
  <1>1. PICK k \in T : \A y \in T : k <= y
    <2>1. T \in SUBSET Nat /\ T # {}
      OBVIOUS
    <2> HIDE DEF T
    <2> QED  BY <2>1, LeastExists
  <1>2. k \in Nat /\ k # 1 /\ k \in 1 .. n /\ k - 1 \in 1 .. n
    OBVIOUS
  <1>3. k - 1 \in S
    BY <1>1, <1>2
  <1>4. (k - 1) + 1 = k
    BY <1>2
  <1> QED  BY <1>2, <1>3, <1>4

LEMMA Downward ==
  ASSUME NEW n \in Nat, NEW S, n \in S, \A k \in 1 .. n : k + 1 <= n /\ k + 1 .. n \subseteq S => k \in S
  PROVE  1 .. n \subseteq S
  <1> DEFINE T == {k \in 1 .. n : n - k + 1 .. n \subseteq S}
  <1>1. CASE n = 0
    BY <1>1
  <1>2. CASE n # 0
    <2>1. 1 \in T
      BY <1>2
    <2>2. ASSUME NEW k \in 1 .. n, k \in T, k + 1 <= n
          PROVE  k + 1 \in T
      <3>1. n - k \in 1 .. n /\ (n - k) + 1 <= n /\ (n - k) + 1 = n - k + 1
        BY <2>2
      <3>2. n - k \in S
        BY <3>1, <2>2
      <3>3. n - (k + 1) + 1 = n - k
        OBVIOUS
      <3>4. n - k .. n \subseteq S
        BY <3>1, <3>2, <2>2
      <3> QED  BY <3>3, <3>4, <2>2
    <2>3. \A k \in 1 .. n : k \in T /\ k + 1 <= n => k + 1 \in T
      BY <2>2
    <2> HIDE DEF T
    <2>4. 1 .. n \subseteq T
      BY <2>1, <2>3, Upward
    <2>5. n \in T
      BY <1>2, <2>4
    <2> QED  BY <2>5 DEF T
  <1> QED  BY <1>1, <1>2

(* FlattenSeq, by any function that satisfies its equation.                *)
LEMMA FlattenIs ==
  ASSUME NEW seqs, NEW n \in Nat \ {0}, Len(seqs) = n, NEW g,
         g = [i \in 1 .. n |-> IF i = 1 THEN seqs[i] ELSE g[i - 1] \o seqs[i]]
  PROVE  FlattenSeq(seqs) = g[n]
  <1> DEFINE f == CHOOSE h : h = [i \in 1 .. n |-> IF i = 1 THEN seqs[i] ELSE h[i - 1] \o seqs[i]]
  <1>1. FlattenSeq(seqs) = f[n]
    BY DEF FlattenSeq
  <1>2. f = [i \in 1 .. n |-> IF i = 1 THEN seqs[i] ELSE f[i - 1] \o seqs[i]]
    OBVIOUS
  <1> HIDE DEF f
  <1> DEFINE S == {i \in 1 .. n : f[i] = g[i]}
  <1>3. 1 \in S
    BY <1>2
  <1>4. ASSUME NEW k \in 1 .. n, k \in S, k + 1 <= n
        PROVE  k + 1 \in S
    <2>1. k + 1 \in 1 .. n /\ k + 1 # 1 /\ (k + 1) - 1 = k
      BY <1>4
    <2>2. f[k + 1] = f[k] \o seqs[k + 1]
      BY <2>1, <1>2
    <2>3. g[k + 1] = g[k] \o seqs[k + 1]
      BY <2>1
    <2> QED  BY <2>1, <2>2, <2>3, <1>4
  <1>5. \A k \in 1 .. n : k \in S /\ k + 1 <= n => k + 1 \in S
    BY <1>4
  <1> HIDE DEF S
  <1>6. n \in Nat /\ n \in 1 .. n
    OBVIOUS
  <1>7. n \in S
    BY <1>3, <1>5, <1>6, Upward
  <1> QED  BY <1>1, <1>7 DEF S

Solution(g, seqs, n) == g = [i \in 1 .. n |-> IF i = 1 THEN seqs[i] ELSE g[i - 1] \o seqs[i]]

LEMMA FlattenSolution ==
  ASSUME NEW seqs, NEW n \in Nat \ {0}, Len(seqs) = n, NEW g, Solution(g, seqs, n)
  PROVE  FlattenSeq(seqs) = g[n]
  <1>1. g = [i \in 1 .. n |-> IF i = 1 THEN seqs[i] ELSE g[i - 1] \o seqs[i]]
    BY DEF Solution
  <1>2. \A h : h = [i \in 1 .. n |-> IF i = 1 THEN seqs[i] ELSE h[i - 1] \o seqs[i]] =>
               FlattenSeq(seqs) = h[n]
    BY FlattenIs
  <1> QED  BY <1>1, <1>2, Zenon

(* FlattenSeq as the last of the concatenations it goes through.           *)
Lists(seqs, n, S) == Len(seqs) = n /\ \A i \in 1 .. n : seqs[i] \in Seq(S)
Flattening(seqs, n, S, g) ==
    /\ g \in [1 .. n -> Seq(S)]
    /\ \A i \in 1 .. n : g[i] = IF i = 1 THEN seqs[i] ELSE g[i - 1] \o seqs[i]

LEMMA FlattenExists ==
  ASSUME NEW seqs, NEW n \in Nat \ {0}, NEW S, Lists(seqs, n, S)
  PROVE  \E g : Flattening(seqs, n, S, g) /\ FlattenSeq(seqs) = g[n]
  <1>0. Len(seqs) = n /\ \A i \in 1 .. n : seqs[i] \in Seq(S)
    BY DEF Lists
  <1> DEFINE T == {k \in 1 .. n : \E g : Flattening(seqs, k, S, g)}
  <1>1. 1 \in T
    <2> DEFINE g == [i \in 1 .. 1 |-> seqs[i]]
    <2>1. g \in [1 .. 1 -> Seq(S)] /\ \A i \in 1 .. 1 : i = 1 /\ g[i] = seqs[i]
      BY <1>0
    <2> HIDE DEF g
    <2>2. Flattening(seqs, 1, S, g)
      BY <2>1 DEF Flattening
    <2> QED  BY <2>2
  <1>2. ASSUME NEW k \in 1 .. n, k \in T, k + 1 <= n
        PROVE  k + 1 \in T
    <2>1. PICK g : Flattening(seqs, k, S, g)
      BY <1>2
    <2>2. k + 1 \in 1 .. n /\ seqs[k + 1] \in Seq(S)
      BY <1>0, <1>2
    <2>3. g \in [1 .. k -> Seq(S)] /\ \A i \in 1 .. k : g[i] = IF i = 1 THEN seqs[i] ELSE g[i - 1] \o seqs[i]
      BY <2>1 DEF Flattening
    <2> HIDE DEF T
    <2>4. g[k] \in Seq(S) /\ g[k] \o seqs[k + 1] \in Seq(S)
      BY <2>2, <2>3, ConcatProperties
    <2> DEFINE h == [i \in 1 .. k + 1 |-> IF i <= k THEN g[i] ELSE g[k] \o seqs[k + 1]]
    <2>5. h \in [1 .. k + 1 -> Seq(S)]
      BY <2>3, <2>4
    <2>6. ASSUME NEW i \in 1 .. k + 1
          PROVE  h[i] = IF i = 1 THEN seqs[i] ELSE h[i - 1] \o seqs[i]
      <3>1. CASE i <= k
        <4>1. i \in 1 .. k /\ (i # 1 => i - 1 \in 1 .. k + 1 /\ i - 1 <= k)
          BY <3>1
        <4>2. h[i] = g[i] /\ (i # 1 => h[i - 1] = g[i - 1])
          BY <3>1, <4>1
        <4> HIDE DEF h
        <4> QED  BY <4>1, <4>2, <2>3
      <3>2. CASE ~(i <= k)
        <4>1. i = k + 1 /\ i # 1 /\ i - 1 = k /\ k \in 1 .. k + 1
          BY <3>2
        <4>2. h[i] = g[k] \o seqs[k + 1]
          BY <3>2
        <4>3. k <= k /\ h[k] = g[k]
          BY <4>1
        <4> HIDE DEF h
        <4>4. h[i] = h[i - 1] \o seqs[i]
          BY <4>1, <4>2, <4>3
        <4> QED  BY <4>1, <4>4
      <3> QED  BY <3>1, <3>2
    <2> HIDE DEF h
    <2>7. Flattening(seqs, k + 1, S, h)
      BY <2>5, <2>6 DEF Flattening
    <2> QED  BY <2>2, <2>7 DEF T
  <1>3. \A k \in 1 .. n : k \in T /\ k + 1 <= n => k + 1 \in T
    BY <1>2
  <1>4. n \in T
    <2> HIDE DEF T
    <2>1. 1 .. n \subseteq T
      BY <1>1, <1>3, Upward
    <2> QED  BY <2>1
  <1>5. PICK g : Flattening(seqs, n, S, g)
    BY <1>4
  <1>6. g = [i \in 1 .. n |-> IF i = 1 THEN seqs[i] ELSE g[i - 1] \o seqs[i]]
    BY <1>5 DEF Flattening
  <1>7. FlattenSeq(seqs) = g[n]
    <2>1. \A h : h = [i \in 1 .. n |-> IF i = 1 THEN seqs[i] ELSE h[i - 1] \o seqs[i]] =>
            FlattenSeq(seqs) = h[n]
      BY <1>0, FlattenIs
    <2> QED  BY <2>1, <1>6, Zenon
  <1> QED  BY <1>5, <1>7

(* One list more, the others named by a function.                          *)
LEMMA FlattenMore ==
  ASSUME NEW n \in Nat, NEW S, NEW E, \A k \in 1 .. n + 1 : E[k] \in Seq(S)
  PROVE  /\ FlattenSeq([k \in 1 .. n |-> E[k]]) \in Seq(S)
         /\ FlattenSeq([k \in 1 .. n + 1 |-> E[k]]) \in Seq(S)
         /\ FlattenSeq([k \in 1 .. n + 1 |-> E[k]])
              = FlattenSeq([k \in 1 .. n |-> E[k]]) \o E[n + 1]
  <1> DEFINE a == [k \in 1 .. n |-> E[k]]
             b == [k \in 1 .. n + 1 |-> E[k]]
             N == n + 1
  <1>1. N \in Nat \ {0} /\ N \in 1 .. N /\ E[N] \in Seq(S)
    OBVIOUS
  <1>2. /\ Lists(b, N, S) /\ Len(a) = n
        /\ \A k \in 1 .. n : a[k] = E[k] /\ b[k] = E[k] /\ k \in 1 .. N
        /\ b[N] = E[N]
    BY DEF Lists
  <1>3. PICK g : Flattening(b, N, S, g) /\ FlattenSeq(b) = g[N]
    <2> HIDE DEF b, N
    <2> QED  BY <1>1, <1>2, FlattenExists
  <1>4. /\ g \in [1 .. N -> Seq(S)]
        /\ \A i \in 1 .. N : g[i] = IF i = 1 THEN b[i] ELSE g[i - 1] \o b[i]
    BY <1>3 DEF Flattening
  <1>5. CASE n = 0
    <2>1. a = <<>> /\ Len(a) = 0
      BY <1>2, <1>5
    <2>2. FlattenSeq(a) = <<>>
      <3> HIDE DEF a
      <3> QED  BY <2>1 DEF FlattenSeq
    <2>3. N = 1 /\ g[N] = E[N]
      <3>1. N = 1
        BY <1>5
      <3> HIDE DEF a, b, N
      <3> QED  BY <3>1, <1>1, <1>2, <1>4
    <2>4. <<>> \o E[N] = E[N]
      <3> HIDE DEF a, b, N
      <3> QED  BY <1>1, ConcatEmptySeq
    <2>5. FlattenSeq(b) = E[N]
      BY <1>3, <2>3
    <2>6. FlattenSeq(a) \in Seq(S) /\ FlattenSeq(b) \in Seq(S)
      <3> HIDE DEF a, b, N
      <3> QED  BY <1>1, <2>2, <2>5
    <2> QED  BY <2>2, <2>4, <2>5, <2>6
  <1>6. CASE n # 0
    <2> DEFINE h == [i \in 1 .. n |-> g[i]]
    <2>1. n \in Nat \ {0} /\ n \in 1 .. n /\ N # 1 /\ N - 1 = n
      BY <1>6
    <2>2. h = [i \in 1 .. n |-> IF i = 1 THEN a[i] ELSE h[i - 1] \o a[i]]
      <3>1. ASSUME NEW i \in 1 .. n
            PROVE  h[i] = IF i = 1 THEN a[i] ELSE h[i - 1] \o a[i]
        <4>1. i \in 1 .. N /\ a[i] = b[i] /\ h[i] = g[i]
          BY <1>2
        <4>2. i # 1 => i - 1 \in 1 .. n /\ h[i - 1] = g[i - 1]
          OBVIOUS
        <4> HIDE DEF a, b, h, N
        <4> QED  BY <4>1, <4>2, <1>4
      <3> QED  BY <3>1
    <2>3. h[n] = g[n]
      BY <2>1
    <2>4. FlattenSeq(a) = h[n]
      <3> HIDE DEF a, b, h, N
      <3>1. n \in Nat \ {0} /\ Len(a) = n
        BY <1>2, <2>1
      <3>2. Solution(h, a, n)
        BY <2>2 DEF Solution
      <3> QED  BY <3>1, <3>2, FlattenSolution, Zenon
    <2>5. g[n] \in Seq(S) /\ g[N] \in Seq(S) /\ g[N] = g[n] \o E[N]
      <3>1. n \in 1 .. N
        BY <2>1
      <3> HIDE DEF a, b, h, N
      <3>2. g[N] = g[n] \o b[N]
        BY <1>1, <1>4, <2>1
      <3> QED  BY <3>1, <3>2, <1>1, <1>2, <1>4
    <2> HIDE DEF a, b, h, N
    <2>6. /\ FlattenSeq(a) \in Seq(S) /\ FlattenSeq(b) \in Seq(S)
          /\ FlattenSeq(b) = FlattenSeq(a) \o E[N]
      BY <1>3, <2>3, <2>4, <2>5
    <2> QED  BY <2>6 DEF a, b, N
  <1> QED  BY <1>5, <1>6

-----------------------------------------------------------------------------
(* Where the loop over the arguments goes next.                            *)
Skip(widths, i) == i + (IF widths[i] = 0 THEN 1 ELSE widths[i])

LEMMA StartsExist ==
  ASSUME NEW n \in Nat, NEW w \in [1 .. n -> 0 .. 2]
  PROVE  \E from : /\ DOMAIN from = 1 .. n + 2
                   /\ \A i \in 1 .. n + 2 :
                        from[i] = IF i > n THEN <<>> ELSE <<i>> \o from[Skip(w, i)]
  <1> DEFINE Good(k, h) == \A i \in k .. n + 2 :
               h[i] = IF i > n THEN <<>> ELSE <<i>> \o h[Skip(w, i)]
             S == {k \in 1 .. n + 2 : \E h : DOMAIN h = k .. n + 2 /\ Good(k, h)}
  <1>1. n + 2 \in S
    <2> DEFINE h == [i \in n + 2 .. n + 2 |-> <<>>]
    <2>1. Good(n + 2, h)
      OBVIOUS
    <2>2. DOMAIN h = n + 2 .. n + 2 /\ n + 2 \in 1 .. n + 2
      OBVIOUS
    <2> HIDE DEF Good, h
    <2> QED  BY <2>1, <2>2
  <1>2. ASSUME NEW k \in 1 .. n + 2, k + 1 <= n + 2, k + 1 \in S
        PROVE  k \in S
    <2>1. PICK h : DOMAIN h = k + 1 .. n + 2 /\ Good(k + 1, h)
      BY <1>2
    <2> DEFINE g == [i \in k .. n + 2 |->
                       IF i = k THEN (IF k > n THEN <<>> ELSE <<k>> \o h[Skip(w, k)])
                       ELSE h[i]]
    <2>2. ASSUME NEW i \in k .. n + 2
          PROVE  g[i] = IF i > n THEN <<>> ELSE <<i>> \o g[Skip(w, i)]
      <3>1. i <= n => Skip(w, i) \in k + 1 .. n + 2 /\ Skip(w, i) \in i + 1 .. n + 2
        <4>1. i <= n => w[i] \in 0 .. 2
          OBVIOUS
        <4> QED  BY <4>1 DEF Skip
      <3>2. i <= n => g[Skip(w, i)] = h[Skip(w, i)]
        BY <3>1
      <3>3. CASE i = k
        <4>1. g[k] = IF k > n THEN <<>> ELSE <<k>> \o h[Skip(w, k)]
          OBVIOUS
        <4>2. k \in Nat /\ n \in Nat
          OBVIOUS
        <4> HIDE DEF g, Good
        <4>3. CASE k > n
          BY <4>1, <4>3, <3>3
        <4>4. CASE ~(k > n)
          <5>1. g[Skip(w, k)] = h[Skip(w, k)]
            BY <4>2, <4>4, <3>2, <3>3
          <5> QED  BY <5>1, <4>1, <4>4, <3>3
        <4> QED  BY <4>3, <4>4
      <3>4. CASE i # k
        <4>1. i \in k + 1 .. n + 2 /\ g[i] = h[i]
          BY <3>4
        <4>2. h[i] = IF i > n THEN <<>> ELSE <<i>> \o h[Skip(w, i)]
          BY <4>1, <2>1
        <4> QED  BY <4>1, <4>2, <3>2
      <3> QED  BY <3>3, <3>4
    <2>3. Good(k, g) /\ DOMAIN g = k .. n + 2
      BY <2>2
    <2> HIDE DEF g, Good
    <2> QED  BY <2>3
  <1>3. \A k \in 1 .. n + 2 : k + 1 <= n + 2 /\ k + 1 .. n + 2 \subseteq S => k \in S
    BY <1>2
  <1> HIDE DEF S
  <1>4. n + 2 \in Nat /\ 1 \in 1 .. n + 2
    OBVIOUS
  <1>5. 1 \in S
    BY <1>1, <1>3, <1>4, Downward
  <1> QED  BY <1>5 DEF S

(* What Starts computes, one place at a time.                              *)
LEMMA StartsStep ==
  ASSUME NEW n \in Nat, NEW w \in [1 .. n -> 0 .. 2]
  PROVE  \A i \in 1 .. n + 2 :
           Starts(w, i) = IF i > n THEN <<>> ELSE <<i>> \o Starts(w, Skip(w, i))
  <1> DEFINE f == CHOOSE h : h = [i \in 1 .. n + 2 |->
                     IF i > n THEN <<>>
                     ELSE <<i>> \o h[i + (IF w[i] = 0 THEN 1 ELSE w[i])]]
  <1>1. Len(w) = n
    OBVIOUS
  <1>2. \A i : Starts(w, i) = f[i]
    BY <1>1 DEF Starts
  <1>3. f = [i \in 1 .. n + 2 |->
               IF i > n THEN <<>> ELSE <<i>> \o f[i + (IF w[i] = 0 THEN 1 ELSE w[i])]]
    <2>1. PICK from : /\ DOMAIN from = 1 .. n + 2
                      /\ \A i \in 1 .. n + 2 :
                        from[i] = IF i > n THEN <<>> ELSE <<i>> \o from[Skip(w, i)]
      BY StartsExist
    <2> DEFINE h == [i \in 1 .. n + 2 |-> from[i]]
    <2>2. \A i \in 1 .. n : Skip(w, i) \in 1 .. n + 2
      <3>1. \A i \in 1 .. n : w[i] \in 0 .. 2
        OBVIOUS
      <3> QED  BY <3>1 DEF Skip
    <2>3. h = [i \in 1 .. n + 2 |->
                 IF i > n THEN <<>> ELSE <<i>> \o h[i + (IF w[i] = 0 THEN 1 ELSE w[i])]]
      BY <2>1, <2>2 DEF Skip
    <2> HIDE DEF h
    <2> QED  BY <2>3
  <1> HIDE DEF f
  <1>4. \A i \in 1 .. n + 2 : f[i] = IF i > n THEN <<>> ELSE <<i>> \o f[Skip(w, i)]
    BY <1>3 DEF Skip
  <1> QED  BY <1>2, <1>4

(* The places are in order, begin with the first, follow each other as the *)
(* widths say, and end with the last argument.                             *)
InOrder(w, n, first, s) ==
    /\ s \in Seq(first .. n)
    /\ IF first > n THEN s = <<>>
       ELSE /\ s # <<>> /\ s[1] = first
            /\ \A k \in 1 .. Len(s) :
                 IF k = Len(s) THEN Skip(w, s[k]) > n ELSE s[k + 1] = Skip(w, s[k])

LEMMA StartsIs ==
  ASSUME NEW n \in Nat, NEW w \in [1 .. n -> 0 .. 2], NEW first \in 1 .. n + 1
  PROVE  InOrder(w, n, first, Starts(w, first))
  <1> DEFINE S == {i \in 1 .. n + 2 : InOrder(w, n, i, Starts(w, i))}
  <1>1. \A i \in 1 .. n + 2 :
           Starts(w, i) = IF i > n THEN <<>> ELSE <<i>> \o Starts(w, Skip(w, i))
    BY StartsStep
  <1>2. \A i \in 1 .. n + 2 : i > n => i \in S
    <2> SUFFICES ASSUME NEW i \in 1 .. n + 2, i > n
                 PROVE  InOrder(w, n, i, Starts(w, i))
      OBVIOUS
    <2>1. Starts(w, i) = <<>>
      BY <1>1
    <2>2. <<>> \in Seq(i .. n)
      OBVIOUS
    <2> QED  BY <2>1, <2>2 DEF InOrder
  <1>3. ASSUME NEW i \in 1 .. n + 2, i + 1 <= n + 2, i + 1 .. n + 2 \subseteq S
        PROVE  i \in S
    <2>1. CASE i > n
      BY <2>1, <1>2
    <2>2. CASE i <= n
      <3> DEFINE j == Skip(w, i)
                 r == Starts(w, j)
                 s == Starts(w, i)
      <3>1. j \in i + 1 .. n + 2
        <4>1. w[i] \in 0 .. 2
          BY <2>2
        <4> QED  BY <4>1, <2>2 DEF Skip
      <3>2. InOrder(w, n, j, r)
        BY <3>1, <1>3
      <3>3. s = <<i>> \o r
        BY <1>1, <2>2
      <3>4. j = Skip(w, i)
        OBVIOUS
      <3> HIDE DEF s, j, r
      <3>5. r \in Seq(j .. n)
        BY <3>2 DEF InOrder
      <3>6. r \in Seq(i .. n) /\ <<i>> \in Seq(i .. n)
        <4>1. j .. n \subseteq i .. n
          BY <3>1
        <4>2. r \in Seq(i .. n)
          BY <3>5, <4>1, SeqMonotonic
        <4> QED  BY <4>2, <2>2
      <3>7. /\ s \in Seq(i .. n) /\ Len(s) = Len(r) + 1 /\ s[1] = i
            /\ \A k \in 1 .. Len(r) : s[k + 1] = r[k]
        BY <3>3, <3>6
      <3>8. Len(r) \in Nat
        BY <3>6
      <3>9. CASE j > n
        <4>1. Len(r) = 0
          BY <3>2, <3>9 DEF InOrder
        <4>2. Len(s) = 1 /\ s # <<>> /\ s[1] = i
          <5>1. Len(s) = 1
            BY <4>1, <3>7
          <5> QED  BY <5>1, <3>7, EmptySeq
        <4>3. Skip(w, s[1]) > n
          BY <4>2, <3>4, <3>9
        <4>4. InOrder(w, n, i, s)
          BY <4>2, <4>3, <3>7, <2>2 DEF InOrder
        <4> QED  BY <4>4 DEF s
      <3>10. CASE j <= n
        <4>1. /\ r # <<>> /\ r[1] = j
              /\ \A k \in 1 .. Len(r) :
                   IF k = Len(r) THEN Skip(w, r[k]) > n ELSE r[k + 1] = Skip(w, r[k])
          <5>1. ~(j > n)
            BY <3>1, <3>10
          <5> QED  BY <5>1, <3>2 DEF InOrder
        <4>2. Len(r) # 0
          BY <4>1, <3>6
        <4>3. ASSUME NEW k \in 1 .. Len(s)
              PROVE  IF k = Len(s) THEN Skip(w, s[k]) > n ELSE s[k + 1] = Skip(w, s[k])
          <5>1. CASE k = 1
            <6>1. k # Len(s) /\ 1 \in 1 .. Len(r)
              BY <5>1, <4>2, <3>7, <3>8
            <6>2. s[1 + 1] = r[1]
              BY <6>1, <3>7
            <6>3. s[k + 1] = j /\ s[k] = i
              BY <6>2, <5>1, <4>1, <3>7
            <6> QED  BY <6>1, <6>3, <3>4
          <5>2. CASE k # 1
            <6> DEFINE q == k - 1
            <6>1. q \in 1 .. Len(r) /\ q + 1 = k /\ (k = Len(s) <=> q = Len(r))
              BY <5>2, <3>7, <3>8
            <6> HIDE DEF q
            <6>2. s[k] = r[q]
              BY <6>1, <3>7
            <6>3. CASE q = Len(r)
              BY <6>1, <6>2, <6>3, <4>1
            <6>4. CASE q # Len(r)
              <7>1. q + 1 \in 1 .. Len(r)
                BY <6>1, <6>4, <3>8
              <7>2. s[(q + 1) + 1] = r[q + 1]
                BY <7>1, <3>7
              <7>3. r[q + 1] = Skip(w, r[q])
                BY <6>1, <6>4, <4>1
              <7> QED  BY <7>2, <7>3, <6>1, <6>2, <6>4
            <6> QED  BY <6>3, <6>4
          <5> QED  BY <5>1, <5>2
        <4>4. s # <<>>
          BY <3>7, <3>8
        <4>5. InOrder(w, n, i, s)
          BY <4>3, <4>4, <3>7, <2>2 DEF InOrder
        <4> QED  BY <4>5 DEF s
      <3> QED  BY <3>1, <3>9, <3>10
    <2> QED  BY <2>1, <2>2
  <1>4. \A i \in 1 .. n + 2 : i + 1 <= n + 2 /\ i + 1 .. n + 2 \subseteq S => i \in S
    BY <1>3
  <1> HIDE DEF S
  <1>5. n + 2 \in Nat /\ first \in 1 .. n + 2 /\ n + 2 \in 1 .. n + 2 /\ n + 2 > n
    OBVIOUS
  <1>6. first \in S
    BY <1>2, <1>4, <1>5, Downward
  <1> QED  BY <1>6 DEF S

(* Each argument from the first on either is one of those places or is     *)
(* what a width of two at the place before it goes over.                   *)
LEMMA Covers ==
  ASSUME NEW n \in Nat, NEW w, NEW F \in 1 .. n, NEW s, InOrder(w, n, F, s),
         \A i \in Range(s) : w[i] \in {1, 2}
  PROVE  \A i \in F .. n : i \in Range(s) <=> ~(i - 1 \in Range(s) /\ w[i - 1] = 2)
  <1> DEFINE R == Range(s)
             T == {i \in 1 .. n : i < F \/ (i \in R <=> ~(i - 1 \in R /\ w[i - 1] = 2))}
  <1>1. /\ s \in Seq(F .. n) /\ s # <<>> /\ s[1] = F
        /\ \A k \in 1 .. Len(s) :
             IF k = Len(s) THEN Skip(w, s[k]) > n ELSE s[k + 1] = Skip(w, s[k])
    <2>1. ~(F > n)
      OBVIOUS
    <2> QED  BY <2>1 DEF InOrder
  <1>2. Len(s) \in Nat \ {0} /\ DOMAIN s = 1 .. Len(s)
    BY <1>1
  <1>3. ASSUME NEW k \in 1 .. Len(s)
        PROVE  s[k] \in F .. n /\ s[k] \in R /\ Skip(w, s[k]) = s[k] + w[s[k]]
    <2>1. s[k] \in F .. n
      BY <1>1, ElementOfSeq
    <2>2. s[k] \in R
      BY <1>2 DEF Range
    <2>3. w[s[k]] \in {1, 2}
      BY <2>2
    <2> QED  BY <2>1, <2>2, <2>3 DEF Skip
  <1>4. \A i \in R : i \in F .. n /\ \E k \in 1 .. Len(s) : s[k] = i
    <2>1. \A i \in R : \E k \in 1 .. Len(s) : s[k] = i
      BY <1>2 DEF Range
    <2> QED  BY <1>3, <2>1
  <1>5. \A i \in R : w[i] = 1 \/ w[i] = 2
    OBVIOUS
  <1>6. F \in R
    <2>1. 1 \in 1 .. Len(s)
      BY <1>2
    <2> HIDE DEF R
    <2> QED  BY <2>1, <1>1, <1>3
  <1> HIDE DEF R
  <1>7. ASSUME NEW i \in R, i + w[i] <= n
        PROVE  i + w[i] \in R
    <2>1. PICK k \in 1 .. Len(s) : s[k] = i
      BY <1>4
    <2>2. Skip(w, s[k]) = i + w[i] /\ i + w[i] \in Nat
      BY <2>1, <1>3, <1>5
    <2>3. k # Len(s)
      BY <2>2, <1>1, <1>7
    <2>4. k + 1 \in 1 .. Len(s)
      <3>1. Len(s) \in Nat
        BY <1>2
      <3> QED  BY <3>1, <2>3
    <2>5. s[k + 1] = Skip(w, s[k])
      BY <2>3, <1>1
    <2>6. s[k + 1] = i + w[i]
      BY <2>2, <2>5
    <2> QED  BY <2>4, <2>6, <1>3
  <1>8. ASSUME NEW i \in R, i # F
        PROVE  \E q \in R : q + w[q] = i
    <2>1. PICK k \in 1 .. Len(s) : s[k] = i
      BY <1>4
    <2>2. k # 1
      BY <2>1, <1>1, <1>8
    <2>3. k - 1 \in 1 .. Len(s) /\ (k - 1) + 1 = k /\ k - 1 # Len(s)
      BY <2>2, <1>2
    <2>4. s[k] = s[k - 1] + w[s[k - 1]] /\ s[k - 1] \in R
      BY <2>3, <1>1, <1>3
    <2> QED  BY <2>1, <2>4
  <1>9. 1 \in T
    <2>1. 0 \notin R
      BY <1>4
    <2>2. CASE F = 1
      BY <2>1, <2>2, <1>6
    <2>3. CASE F # 1
      BY <2>3
    <2> QED  BY <2>2, <2>3
  <1>10. ASSUME NEW p \in 1 .. n, p \in T, p + 1 <= n
         PROVE  p + 1 \in T
    <2> DEFINE i == p + 1
    <2>0. i \in 1 .. n /\ i - 1 = p /\ i \in Nat /\ p - 1 \in Nat /\ (p - 1) + 2 = i /\ p + 1 = i
      BY <1>10
    <2>1. SUFFICES ASSUME ~(i < F)
                   PROVE  i \in R <=> ~(p \in R /\ w[p] = 2)
      BY <2>0
    <2>2. CASE i = F
      <3>1. p \notin R
        BY <1>4, <2>2
      <3> QED  BY <3>1, <2>2, <1>6
    <2>3. CASE i # F
      <3>1. p \in R <=> ~(p - 1 \in R /\ w[p - 1] = 2)
        BY <2>1, <2>3, <1>10
      <3>2. p \in R /\ w[p] = 1 => i \in R
        BY <2>0, <1>7
      <3>3. p - 1 \in R /\ w[p - 1] = 2 => i \in R
        BY <2>0, <1>7
      <3>4. ASSUME p \in R, w[p] = 2, i \in R
            PROVE  FALSE
        <4>1. PICK q \in R : q + w[q] = i
          BY <1>8, <2>3, <3>4
        <4>2. q \in F .. n /\ (w[q] = 1 \/ w[q] = 2)
          BY <1>4, <1>5
        <4>3. q = p \/ q = p - 1
          BY <4>1, <4>2
        <4>4. q = p => w[q] = 1
          BY <3>4, <4>1
        <4>5. q = p - 1 => w[q] = 2
          BY <4>1, <4>2
        <4> HIDE DEF i, T
        <4> QED  BY <3>1, <3>4, <4>3, <4>4, <4>5
      <3> HIDE DEF i, T
      <3> QED  BY <3>1, <3>2, <3>3, <3>4, <1>5
    <2> QED  BY <2>2, <2>3
  <1>11. \A p \in 1 .. n : p \in T /\ p + 1 <= n => p + 1 \in T
    BY <1>10
  <1>12. 1 .. n \subseteq T
    <2> HIDE DEF T
    <2> QED  BY <1>9, <1>11, Upward
  <1>13. \A i \in F .. n : i \in 1 .. n /\ ~(i < F)
    OBVIOUS
  <1> QED  BY <1>12, <1>13 DEF R

-----------------------------------------------------------------------------
(* So many of a sequence's elements, from behind the b-th.                 *)
Piece(f, b, p) == [k \in 1 .. p |-> f[b + k]]

LEMMA PieceConcat ==
  ASSUME NEW f, NEW b \in Nat, NEW p \in Nat, NEW q \in Nat
  PROVE  Piece(f, b, p) \o Piece(f, b + p, q) = Piece(f, b, p + q)
  <1> DEFINE S == {f[b + k] : k \in 1 .. p + q}
             x == Piece(f, b, p)
             y == Piece(f, b + p, q)
             z == Piece(f, b, p + q)
  <1>1. x \in Seq(S) /\ Len(x) = p /\ \A k \in 1 .. p : x[k] = f[b + k]
    <2>1. \A k \in 1 .. p : k \in 1 .. p + q
      OBVIOUS
    <2>2. x = [k \in 1 .. p |-> f[b + k]] /\ \A k \in 1 .. p : f[b + k] \in S
      BY <2>1 DEF Piece
    <2> HIDE DEF S, x
    <2>3. x \in [1 .. p -> S]
      BY <2>2
    <2> QED  BY <2>2, <2>3
  <1>2. y \in Seq(S) /\ Len(y) = q /\ \A k \in 1 .. q : y[k] = f[(b + p) + k]
    <2>1. \A k \in 1 .. q : (b + p) + k = b + (p + k) /\ p + k \in 1 .. p + q
      OBVIOUS
    <2>2. \A k \in 1 .. q : f[(b + p) + k] \in S
      BY <2>1
    <2> HIDE DEF S
    <2>3. y = [k \in 1 .. q |-> f[(b + p) + k]]
      BY DEF Piece
    <2>4. y \in [1 .. q -> S]
      BY <2>2, <2>3
    <2> QED  BY <2>3, <2>4
  <1>3. z \in Seq(S) /\ Len(z) = p + q /\ \A k \in 1 .. p + q : z[k] = f[b + k]
    <2>1. z = [k \in 1 .. p + q |-> f[b + k]] /\ \A k \in 1 .. p + q : f[b + k] \in S
      BY DEF Piece
    <2>2. p + q \in Nat
      OBVIOUS
    <2> HIDE DEF S, z
    <2>3. z \in [1 .. p + q -> S]
      BY <2>1
    <2> QED  BY <2>1, <2>2, <2>3
  <1> HIDE DEF x, y, z, S
  <1> DEFINE c == x \o y
  <1>4. /\ c \in Seq(S) /\ Len(c) = p + q
        /\ \A k \in 1 .. p + q : c[k] = IF k <= p THEN x[k] ELSE y[k - p]
    <2>1. \A s \in Seq(S) : \A r \in Seq(S) :
            /\ s \o r \in Seq(S) /\ Len(s \o r) = Len(s) + Len(r)
            /\ \A k \in 1 .. Len(s) + Len(r) :
                 (s \o r)[k] = IF k <= Len(s) THEN s[k] ELSE r[k - Len(s)]
      BY ConcatProperties
    <2>2. /\ c \in Seq(S) /\ Len(c) = Len(x) + Len(y)
          /\ \A k \in 1 .. Len(x) + Len(y) : c[k] = IF k <= Len(x) THEN x[k] ELSE y[k - Len(x)]
      BY <1>1, <1>2, <2>1, Zenon
    <2> HIDE DEF c
    <2>3. Len(x) = p /\ Len(y) = q
      BY <1>1, <1>2
    <2> QED  BY <2>2, <2>3
  <1> HIDE DEF c
  <1>5. ASSUME NEW k \in 1 .. p + q
        PROVE  c[k] = z[k]
    <2>1. CASE k <= p
      <3>1. k \in 1 .. p
        BY <2>1
      <3> QED  BY <2>1, <3>1, <1>1, <1>3, <1>4
    <2>2. CASE ~(k <= p)
      <3>1. k - p \in 1 .. q /\ (b + p) + (k - p) = b + k
        BY <2>2
      <3>2. c[k] = y[k - p]
        BY <2>2, <1>4
      <3>3. y[k - p] = f[(b + p) + (k - p)]
        BY <3>1, <1>2
      <3> QED  BY <3>1, <3>2, <3>3, <1>3
    <2> QED  BY <2>1, <2>2
  <1>6. c = z
    BY <1>3, <1>4, <1>5, SeqEqual
  <1> QED  BY <1>6 DEF c, x, y, z

(* Pieces that follow each other, made one: the i-th ends e[i] behind b.   *)
Pieces(seqs, f, b, n, e) ==
    /\ Len(seqs) = n
    /\ e \in [0 .. n -> Nat] /\ e[0] = 0
    /\ \A i \in 1 .. n : /\ e[i - 1] <= e[i]
                         /\ seqs[i] = Piece(f, b + e[i - 1], e[i] - e[i - 1])

LEMMA FlattenPieces ==
  ASSUME NEW seqs, NEW f, NEW b \in Nat, NEW n \in Nat \ {0}, NEW e, Pieces(seqs, f, b, n, e)
  PROVE  FlattenSeq(seqs) = Piece(f, b, e[n])
  <1>0. /\ Len(seqs) = n
        /\ e \in [0 .. n -> Nat] /\ e[0] = 0
        /\ \A i \in 1 .. n : /\ e[i - 1] <= e[i]
                             /\ seqs[i] = Piece(f, b + e[i - 1], e[i] - e[i - 1])
    BY DEF Pieces
  <1> DEFINE g == [i \in 1 .. n |-> Piece(f, b, e[i])]
  <1>1. ASSUME NEW i \in 1 .. n
        PROVE  g[i] = IF i = 1 THEN seqs[i] ELSE g[i - 1] \o seqs[i]
    <2>1. i - 1 \in 0 .. n /\ e[i - 1] \in Nat /\ e[i] \in Nat /\ e[i - 1] <= e[i]
      BY <1>0
    <2>2. CASE i = 1
      <3>1. b + e[0] = b /\ e[1] - e[0] = e[1]
        BY <1>0, <2>1, <2>2
      <3> QED  BY <1>0, <3>1, <2>2
    <2>3. CASE i # 1
      <3> DEFINE p == e[i - 1]
                 q == e[i] - e[i - 1]
      <3>1. p \in Nat /\ q \in Nat /\ p + q = e[i]
        BY <2>1
      <3>2. seqs[i] = Piece(f, b + p, q)
        BY <1>0
      <3>3. i - 1 \in 1 .. n /\ g[i - 1] = Piece(f, b, p)
        BY <2>3
      <3> HIDE DEF p, q
      <3>4. Piece(f, b, p) \o Piece(f, b + p, q) = Piece(f, b, p + q)
        <4>1. \A pp, qq \in Nat : Piece(f, b, pp) \o Piece(f, b + pp, qq) = Piece(f, b, pp + qq)
          BY PieceConcat
        <4> QED  BY <4>1, <3>1, Zenon
      <3> QED  BY <3>1, <3>2, <3>3, <3>4, <2>3
    <2> QED  BY <2>2, <2>3
  <1>2. g = [i \in 1 .. n |-> IF i = 1 THEN seqs[i] ELSE g[i - 1] \o seqs[i]]
    BY <1>1
  <1>3. g[n] = Piece(f, b, e[n])
    OBVIOUS
  <1> HIDE DEF g
  <1>4. FlattenSeq(seqs) = g[n]
    <2>1. \A h : h = [i \in 1 .. n |-> IF i = 1 THEN seqs[i] ELSE h[i - 1] \o seqs[i]] =>
                   FlattenSeq(seqs) = h[n]
      BY <1>0, FlattenIs
    <2> QED  BY <2>1, <1>2, Zenon
  <1> QED  BY <1>3, <1>4

-----------------------------------------------------------------------------
LEMMA FirstTrueFirst ==
  ASSUME NEW pairs, NEW n \in Nat, DOMAIN pairs = 1 .. n, NEW j \in 1 .. n, pairs[j][1],
         \A i \in 1 .. n : i < j => ~pairs[i][1]
  PROVE  FirstTrue(pairs) = pairs[j][2]
  <1> DEFINE S == {i \in DOMAIN pairs : pairs[i][1]}
  <1>1. S \in SUBSET Nat /\ j \in S /\ \A i \in S : ~(i < j)
    OBVIOUS
  <1>2. FirstTrue(pairs) = pairs[Min(S)][2]
    BY DEF FirstTrue
  <1> HIDE DEF S
  <1>3. Min(S) \in S /\ Min(S) <= j
    BY <1>1, MinIs
  <1>4. Min(S) = j
    <2>1. Min(S) \in Nat /\ ~(Min(S) < j) /\ j \in Nat
      BY <1>1, <1>3
    <2> QED  BY <2>1, <1>3
  <1> QED  BY <1>2, <1>4

(* An argument that is named out is one, and all behind it are.            *)
LEMMA OutFormIs ==
  ASSUME sdk \in Sdks, NEW m \in Range(sdk.methods), NEW k \in DOMAIN m.args,
         OutNamed(m.args[k])
  PROVE  ArgForm(m, k) = "out"
  <1> DEFINE a == m.args[k]
             p1 == a.base = Handle
             p2 == IsCallback(a)
             p3 == IsClientData(a)
             p4 == sdk.oneUser /\ a.name = LocalUserId
             p5 == IsInputOnly(a.base)
             p6 == OutNamed(a)
             p7 == IsHandleArray(a) \/ (Sort[a.base] = "text" /\ a.ptr > 0)
             v5 == IF IsExpanded(a.base) THEN "expanded" ELSE "object"
             pairs == << <<p1, "self">>, <<p2, "callback">>, <<p3, "client">>,
                         <<p4, "user">>, <<p5, v5>>, <<p6, "out">>,
                         <<p7, "unsupported">>, <<TRUE, "value">> >>
  <1>1. ArgForm(m, k) = FirstTrue(pairs)
    BY DEF ArgForm
  <1>2. a \in Range(m.args)
    BY DEF Range
  <1>3. ~p1 /\ ~p2
    BY <1>2, ArgumentsAssumption
  <1>4. a.name # ClientData /\ a.name # LocalUserId
    <2>1. ClientData[1] = "client" /\ \A i \in 1 .. 2 : ClientData[i] \in {"client", "data"}
      <3>1. ClientData[1] = "client" /\ ClientData[2] = "data"
        BY DEF ClientData
      <3>2. \A i \in 1 .. 2 : i = 1 \/ i = 2
        OBVIOUS
      <3> QED  BY <3>1, <3>2
    <2>2. LocalUserId[1] = "local" /\ \A i \in 1 .. 2 : LocalUserId[i] \in {"local", "user"}
      <3>1. LocalUserId[1] = "local" /\ LocalUserId[2] = "user"
        BY DEF LocalUserId
      <3>2. \A i \in 1 .. 2 : i = 1 \/ i = 2
        OBVIOUS
      <3> QED  BY <3>1, <3>2
    <2>3. SubSeq(ClientData, 1, 2)[1] = "client"
      BY <2>1, SubSeqProperties
    <2>4. SubSeq(LocalUserId, 1, 2)[1] = "local"
      BY <2>2, SubSeqProperties
    <2>5. <<"in", "out">>[1] = "in" /\ <<"b", "out">>[1] = "b"
      OBVIOUS
    <2> QED  BY <2>1, <2>2, <2>3, <2>4, <2>5 DEF OutNamed
  <1>5. ~p3 /\ ~p4
    BY <1>4 DEF IsClientData
  <1>6. ~p5
    <2>1. a \in ArgsOf(sdk) /\ a \in Args
      BY <1>2 DEF Args, ArgsOf
    <2>2. a.base \in Structs => a.name[1] = "out"
      BY <2>1, UseAssumption DEF Structs
    <2>3. a.base \in Structs => ArgOut(a.base)
      BY <2>1, <2>2 DEF ArgOut
    <2> QED  BY <2>3 DEF IsInputOnly
  <1>7. p6
    OBVIOUS
  <1> HIDE DEF p1, p2, p3, p4, p5, p6, p7, v5
  <1>8. /\ DOMAIN pairs = 1 .. 8 /\ pairs[6][1] /\ pairs[6][2] = "out"
        /\ \A i \in 1 .. 8 : i < 6 => ~pairs[i][1]
    <2>1. /\ DOMAIN pairs = 1 .. 8 /\ pairs[6][2] = "out" /\ (pairs[6][1] <=> p6)
          /\ (pairs[1][1] <=> p1) /\ (pairs[2][1] <=> p2) /\ (pairs[3][1] <=> p3)
          /\ (pairs[4][1] <=> p4) /\ (pairs[5][1] <=> p5)
      OBVIOUS
    <2> HIDE DEF pairs
    <2>2. \A i \in 1 .. 8 : i < 6 => i = 1 \/ i = 2 \/ i = 3 \/ i = 4 \/ i = 5
      OBVIOUS
    <2> QED  BY <2>1, <2>2, <1>3, <1>5, <1>6, <1>7
  <1> HIDE DEF pairs
  <1>9. FirstTrue(pairs) = pairs[6][2]
    <2>1. 8 \in Nat /\ 6 \in 1 .. 8
      OBVIOUS
    <2>2. \A n \in Nat : DOMAIN pairs = 1 .. n =>
            \A j \in 1 .. n : pairs[j][1] /\ (\A i \in 1 .. n : i < j => ~pairs[i][1])
               => FirstTrue(pairs) = pairs[j][2]
      BY FirstTrueFirst
    <2> QED  BY <2>1, <2>2, <1>8, Zenon
  <1> QED  BY <1>1, <1>8, <1>9

LEMMA FromFirstOut ==
  ASSUME sdk \in Sdks, NEW m \in Range(sdk.methods)
  PROVE  /\ Len(m.args) \in Nat /\ DOMAIN m.args = 1 .. Len(m.args)
         /\ FirstOut(m) \in 1 .. Len(m.args) + 1
         /\ \A k \in DOMAIN m.args : OutNamed(m.args[k]) <=> FirstOut(m) <= k
         /\ \A k \in DOMAIN m.args : m.args[k] \in Range(m.args)
  <1> DEFINE L == Len(m.args)
             S == {k \in DOMAIN m.args : ArgForm(m, k) = "out"} \cup {L + 1}
  <1>1. m.args \in Seq(Range(m.args))
    BY SdkIs
  <1>2. L \in Nat /\ DOMAIN m.args = 1 .. L
    BY <1>1
  <1>3. FirstOut(m) \in 1 .. L + 1 /\ (FirstOut(m) <= L => OutNamed(m.args[FirstOut(m)]))
    BY <1>1, FirstOutIs
  <1>4. ASSUME NEW k \in DOMAIN m.args, OutNamed(m.args[k])
        PROVE  FirstOut(m) <= k
    <2>1. k \in S
      BY <1>4, OutFormIs
    <2>2. S \in SUBSET Nat
      BY <1>2
    <2>3. FirstOut(m) = Min(S)
      BY DEF FirstOut
    <2> HIDE DEF S
    <2> QED  BY <2>1, <2>2, <2>3, MinIs
  <1>5. ASSUME NEW k \in DOMAIN m.args, FirstOut(m) <= k
        PROVE  OutNamed(m.args[k])
    <2>1. \A i, n \in DOMAIN m.args : i < n /\ OutNamed(m.args[i]) => OutNamed(m.args[n])
      BY MethodsAssumption
    <2>2. FirstOut(m) \in DOMAIN m.args /\ OutNamed(m.args[FirstOut(m)])
      BY <1>2, <1>3, <1>5
    <2>3. CASE FirstOut(m) = k
      BY <2>2, <2>3
    <2>4. CASE FirstOut(m) # k
      <3>1. FirstOut(m) < k
        BY <2>4, <1>2, <1>3, <1>5
      <3> QED  BY <2>1, <2>2, <3>1
    <2> QED  BY <2>3, <2>4
  <1> QED  BY <1>2, <1>3, <1>4, <1>5 DEF Range

(* The elements from the F-th on, one by one.                             *)
LEMMA FlattenRest ==
  ASSUME NEW args, NEW L \in Nat, NEW F \in 1 .. L + 1, NEW seqs,
         seqs = [k \in 1 .. L |-> IF F <= k THEN <<args[k]>> ELSE <<>>]
  PROVE  FlattenSeq(seqs) = Piece(args, F - 1, L - F + 1)
  <1> DEFINE e == [i \in 0 .. L |-> IF i < F THEN 0 ELSE i - F + 1]
  <1>1. seqs = [k \in 1 .. L |-> IF F <= k THEN <<args[k]>> ELSE <<>>]
    OBVIOUS
  <1>5. Len(seqs) = L
    BY <1>1
  <1>6. CASE L = 0
    <2>1. F = 1 /\ L - F + 1 = 0
      BY <1>6
    <2>2. seqs = <<>> /\ FlattenSeq(seqs) = seqs
      BY <1>1, <1>5, <1>6 DEF FlattenSeq
    <2>3. Piece(args, F - 1, L - F + 1) = <<>>
      BY <2>1 DEF Piece
    <2> QED  BY <2>2, <2>3
  <1>7. CASE L # 0
    <2>1. e \in [0 .. L -> Nat] /\ e[0] = 0 /\ F - 1 \in Nat
      OBVIOUS
    <2>2. e[L] = L - F + 1
      OBVIOUS
    <2>3. ASSUME NEW i \in 1 .. L
          PROVE  e[i - 1] <= e[i] /\ seqs[i] = Piece(args, (F - 1) + e[i - 1], e[i] - e[i - 1])
      <3>1. CASE i < F
        <4>1. e[i - 1] = 0 /\ e[i] = 0 /\ e[i] - e[i - 1] = 0
          BY <3>1
        <4>2. seqs[i] = <<>>
          BY <3>1, <1>1
        <4>3. Piece(args, (F - 1) + e[i - 1], 0) = <<>>
          BY DEF Piece
        <4> HIDE DEF e
        <4> QED  BY <4>1, <4>2, <4>3
      <3>2. CASE ~(i < F)
        <4>1. e[i - 1] = i - F /\ e[i] = i - F + 1
          BY <3>2
        <4>2. e[i] - e[i - 1] = 1 /\ e[i - 1] <= e[i] /\ ((F - 1) + e[i - 1]) + 1 = i
          BY <4>1
        <4>3. seqs[i] = <<args[i]>>
          BY <3>2, <1>1
        <4> HIDE DEF e
        <4> DEFINE b == (F - 1) + e[i - 1]
        <4>4. Piece(args, b, 1) = <<args[b + 1]>>
          <5> HIDE DEF b
          <5>1. Piece(args, b, 1) = [j \in 1 .. 1 |-> args[b + j]]
            BY DEF Piece
          <5>2. <<args[b + 1]>> = [j \in 1 .. 1 |-> args[b + 1]]
            OBVIOUS
          <5> QED  BY <5>1, <5>2
        <4> QED  BY <4>2, <4>3, <4>4
      <3> QED  BY <3>1, <3>2
    <2> HIDE DEF e
    <2>4. L \in Nat \ {0}
      BY <1>7
    <2>5. FlattenSeq(seqs) = Piece(args, F - 1, e[L])
      <3>1. Pieces(seqs, args, F - 1, L, e)
        BY <2>1, <2>3, <1>5 DEF Pieces
      <3> QED  BY <2>1, <2>4, <3>1, FlattenPieces
    <2> QED  BY <2>2, <2>5
  <1> QED  BY <1>6, <1>7

(* The out arguments are what is left from the first on.                   *)
LEMMA OutArgsIs ==
  ASSUME sdk \in Sdks, NEW m \in Range(sdk.methods)
  PROVE  OutArgs(m) = Piece(m.args, FirstOut(m) - 1, Len(m.args) - FirstOut(m) + 1)
  <1> DEFINE L == Len(m.args)
             F == FirstOut(m)
             seqs == [k \in DOMAIN m.args |-> IF IsResult(m.args[k]) THEN <<m.args[k]>> ELSE <<>>]
  <1>1. /\ L \in Nat /\ DOMAIN m.args = 1 .. L /\ F \in 1 .. L + 1
        /\ \A k \in 1 .. L : OutNamed(m.args[k]) <=> F <= k
        /\ \A k \in 1 .. L : m.args[k] \in Range(m.args)
    BY FromFirstOut
  <1>2. \A k \in 1 .. L : IsResult(m.args[k]) <=> F <= k
    <2>1. \A a \in Range(m.args) : OutNamed(a) => IsResult(a)
      BY ArgumentsAssumption
    <2>2. \A a \in Range(m.args) : IsResult(a) => OutNamed(a)
      BY DEF IsResult
    <2> QED  BY <2>1, <2>2, <1>1
  <1>3. OutArgs(m) = FlattenSeq(seqs)
    BY DEF OutArgs
  <1>4. seqs = [k \in 1 .. L |-> IF F <= k THEN <<m.args[k]>> ELSE <<>>]
    BY <1>1, <1>2
  <1> HIDE DEF seqs, L, F
  <1>5. Len(seqs) = L
    BY <1>1, <1>4
  <1>6. FlattenSeq(seqs) = Piece(m.args, F - 1, L - F + 1)
    BY <1>1, <1>4, FlattenRest
  <1> QED  BY <1>3, <1>6 DEF L, F

-----------------------------------------------------------------------------
Names(m) == [k \in 1 .. Len(m.args) |-> m.args[k].name]

(* A result with its length passes both arguments it takes.                *)
Double(m, i) == IsText(m.args, i) \/ IsData(m.args, i)

LEMMA PassedForIs ==
  ASSUME sdk \in Sdks, NEW m \in Range(sdk.methods), NEW k \in 1 .. FirstOut(m) - 1
  PROVE  PassedFor(m, k) = m.args[k].name
  <1>1. k \in DOMAIN m.args /\ ~(FirstOut(m) <= k)
    BY FromFirstOut
  <1>2. m.args[k] \in Range(m.args) /\ ~OutNamed(m.args[k])
    BY <1>1, FromFirstOut
  <1>3. m.args[k].base \in Structs => EndsIn(m.args[k].name, {"option"})
    BY <1>2, ArgumentsAssumption DEF Structs
  <1>4. ArgForm(m, k) = "object" => m.args[k].base \in Structs
    BY FormIs DEF IsInputOnly
  <1>5. ArgForm(m, k) = "object" => IsOptions(m, k)
    BY <1>3, <1>4 DEF IsOptions
  <1> QED  BY <1>5 DEF PassedFor

LEMMA ResultWidthsAre ==
  ASSUME sdk \in Sdks, NEW m \in Range(sdk.methods)
  PROVE  ResultWidths(m) \in [1 .. Len(m.args) -> 0 .. 2]
  <1>1. Len(m.args) \in Nat /\ DOMAIN m.args = 1 .. Len(m.args)
    BY FromFirstOut
  <1>2. \A i : ResultWidth(m, i) = 0 \/ ResultWidth(m, i) = 1 \/ ResultWidth(m, i) = 2
    BY DEF ResultWidth
  <1>3. \A i \in DOMAIN m.args : (IF i < FirstOut(m) THEN 1 ELSE ResultWidth(m, i)) \in 0 .. 2
    BY <1>2
  <1> QED  BY <1>1, <1>3 DEF ResultWidths

(* A result that is supported: it goes over two arguments if it is passed  *)
(* with its length or is a bool, and over one otherwise.                   *)
LEMMA ResultIs ==
  ASSUME sdk \in Sdks, NEW m \in Range(sdk.methods),
         NEW i \in FirstOut(m) .. Len(m.args), ResultWidths(m)[i] # 0
  PROVE  /\ ResultWidths(m)[i] \in {1, 2}
         /\ ResultWidths(m)[i] = 2 <=> Double(m, i) \/ Sort[m.args[i].base] = "bool"
         /\ Double(m, i) => /\ i + 1 \in 1 .. Len(m.args)
                            /\ Sort[m.args[i].base] # "bool" /\ Sort[m.args[i + 1].base] # "bool"
         /\ PassedResult(m, i) = IF Double(m, i) THEN <<m.args[i].name, m.args[i + 1].name>>
                                 ELSE <<m.args[i].name>>
  <1> DEFINE L == Len(m.args)
  <1>1. L \in Nat /\ DOMAIN m.args = 1 .. L /\ FirstOut(m) \in 1 .. L + 1 /\ i \in 1 .. L
    BY FromFirstOut
  <1>2. ResultWidths(m)[i] = ResultWidth(m, i)
    BY <1>1 DEF ResultWidths
  <1>3. Double(m, i) => i < L /\ Sort[m.args[i].base] # "bool" /\ Sort[m.args[i + 1].base] # "bool"
    BY BasesAssumption DEF Double, IsText, IsData
  <1>4. ResultWidth(m, i) = IF Double(m, i) \/ Sort[m.args[i].base] = "bool" THEN 2 ELSE 1
    BY <1>2 DEF ResultWidth, Double
  <1>5. PassedResult(m, i) = IF Double(m, i) THEN <<m.args[i].name, m.args[i + 1].name>>
                             ELSE <<m.args[i].name>>
    BY DEF PassedResult, Double
  <1>6. i < L => i + 1 \in 1 .. L
    BY <1>1
  <1> QED  BY <1>2, <1>3, <1>4, <1>5, <1>6

-----------------------------------------------------------------------------
(* The elif chain of ResultForm: an object is made of the only result.     *)
LEMMA ObjectIsOne ==
  ASSUME NEW m, ResultForm(m) = "object"
  PROVE  Len(OutArgs(m)) = 1
  <1> DEFINE outs == OutArgs(m)
             One == Len(outs) = 1
             Two == Len(outs) = 2
             p1 == outs = <<>>
             p2 == m.returns = "void" /\ (One \/ (Two /\ (IsText(outs, 1) \/ IsData(outs, 1))))
             p3 == m.returns = "result" /\ One /\ ~IsHandleArray(outs[1])
                     /\ Sort[outs[1].base] \in {"handle", "struct"}
             p4 == m.returns = "result" /\ One /\ outs[1].base = "char"
             p5 == m.returns = "result" /\ Two /\ IsText(outs, 1)
             pairs == << <<p1, "none">>, <<p2, "returned">>, <<p3, "object">>,
                         <<p4, "returned">>, <<p5, "returned">>, <<TRUE, "packed">> >>
  <1>1. ResultForm(m) = FirstTrue(pairs)
    BY DEF ResultForm
  <1>2. p3 => Len(OutArgs(m)) = 1
    OBVIOUS
  <1> HIDE DEF p1, p2, p3, p4, p5
  <1>3. DOMAIN pairs = 1 .. 6 /\ pairs[6][1]
    OBVIOUS
  <1>4. PICK j \in 1 .. 6 : pairs[j][1] /\ FirstTrue(pairs) = pairs[j][2]
    <2> HIDE DEF pairs
    <2>1. 6 \in Nat \ {0}
      OBVIOUS
    <2>2. \A n \in Nat \ {0} : DOMAIN pairs = 1 .. n /\ pairs[n][1] =>
            \E j \in 1 .. n : pairs[j][1] /\ FirstTrue(pairs) = pairs[j][2]
      BY FirstTrueIs
    <2> QED  BY <2>1, <2>2, <1>3, Zenon
  <1>5. j = 1 \/ j = 2 \/ j = 3 \/ j = 4 \/ j = 5 \/ j = 6
    OBVIOUS
  <1>6. /\ j = 1 => pairs[j][2] = "none"
        /\ j = 2 => pairs[j][2] = "returned"
        /\ j = 3 => (pairs[j][1] <=> p3)
        /\ j = 4 => pairs[j][2] = "returned"
        /\ j = 5 => pairs[j][2] = "returned"
        /\ j = 6 => pairs[j][2] = "packed"
    OBVIOUS
  <1> HIDE DEF pairs
  <1> QED  BY <1>1, <1>2, <1>4, <1>5, <1>6

LEMMA ObjectIsLast ==
  ASSUME sdk \in Sdks, NEW m \in Range(sdk.methods), ResultForm(m) = "object"
  PROVE  FirstOut(m) = Len(m.args)
  <1> DEFINE L == Len(m.args)
             F == FirstOut(m)
  <1>1. L \in Nat /\ F \in 1 .. L + 1
    BY FromFirstOut
  <1>2. OutArgs(m) = Piece(m.args, F - 1, L - F + 1) /\ Len(OutArgs(m)) = 1
    BY OutArgsIs, ObjectIsOne
  <1> HIDE DEF L, F
  <1>3. L - F + 1 \in Nat
    BY <1>1
  <1>4. Len(Piece(m.args, F - 1, L - F + 1)) = L - F + 1
    BY <1>3 DEF Piece
  <1>5. F = L
    <2>1. L - F + 1 = 1
      BY <1>2, <1>4
    <2> QED  BY <2>1, <1>1
  <1> QED  BY <1>5 DEF L, F

LEMMA InputsPassed ==
  ASSUME sdk \in Sdks, NEW m \in Range(sdk.methods)
  PROVE  [k \in 1 .. FirstOut(m) - 1 |-> PassedFor(m, k)] = Piece(Names(m), 0, FirstOut(m) - 1)
  <1>1. Len(m.args) \in Nat /\ FirstOut(m) \in 1 .. Len(m.args) + 1
    BY FromFirstOut
  <1>2. ASSUME NEW k \in 1 .. FirstOut(m) - 1
        PROVE  PassedFor(m, k) = Names(m)[0 + k]
    <2>1. k \in 1 .. Len(m.args) /\ 0 + k = k
      BY <1>1
    <2> QED  BY <2>1, PassedForIs DEF Names
  <1> QED  BY <1>2 DEF Piece

(* With no result seen to, the inputs are passed.                          *)
LEMMA NonePassed ==
  ASSUME sdk \in Sdks, NEW m \in Range(sdk.methods)
  PROVE  PassedUpTo(m, 0) = Piece(Names(m), 0, FirstOut(m) - 1)
  <1> DEFINE ins == Piece(Names(m), 0, FirstOut(m) - 1)
             seqs == [n \in 1 .. 0 |-> PassedResult(m, ResultStarts(m)[n])]
  <1>1. PassedUpTo(m, 0) = ins \o FlattenSeq(seqs)
    BY InputsPassed DEF PassedUpTo
  <1>2. seqs = <<>> /\ Len(seqs) = 0
    OBVIOUS
  <1>3. FlattenSeq(seqs) = <<>>
    BY <1>2 DEF FlattenSeq
  <1>4. FirstOut(m) - 1 \in Nat
    BY FromFirstOut
  <1>5. Piece(Names(m), 0 + (FirstOut(m) - 1), 0) = <<>>
    BY DEF Piece
  <1> HIDE DEF seqs
  <1>6. ins \o <<>> = ins
    <2>1. \A p, q \in Nat : Piece(Names(m), 0, p) \o Piece(Names(m), 0 + p, q) = Piece(Names(m), 0, p + q)
      <3>1. 0 \in Nat
        OBVIOUS
      <3> QED  BY <3>1, PieceConcat, Zenon
    <2>2. ins \o <<>> = Piece(Names(m), 0, (FirstOut(m) - 1) + 0)
      BY <1>4, <1>5, <2>1
    <2>3. (FirstOut(m) - 1) + 0 = FirstOut(m) - 1
      BY <1>4
    <2> QED  BY <2>2, <2>3
  <1> QED  BY <1>1, <1>3, <1>6

-----------------------------------------------------------------------------
(* The names up to the n-th argument, one argument at a time.              *)
LEMMA NamesMore ==
  ASSUME sdk \in Sdks, NEW m \in Range(sdk.methods), NEW n \in 1 .. Len(m.args), NEW lost
  PROVE  /\ m.args[n].name \in Range(Names(m))
         /\ NamesUpTo(m, n - 1, lost) \in Seq(Range(Names(m)))
         /\ NamesUpTo(m, n, lost) \in Seq(Range(Names(m)))
         /\ NamesUpTo(m, n, lost)
              = NamesUpTo(m, n - 1, lost) \o (IF n \in lost THEN <<>> ELSE <<m.args[n].name>>)
  <1> DEFINE S == Range(Names(m))
             E == [k \in 1 .. Len(m.args) |-> IF k \in lost THEN <<>> ELSE <<m.args[k].name>>]
             q == n - 1
  <1>1. Len(m.args) \in Nat /\ q \in Nat /\ q + 1 = n /\ n \in 1 .. Len(m.args)
    BY FromFirstOut
  <1>2. \A k \in 1 .. Len(m.args) : m.args[k].name \in S
    BY DEF Names, Range
  <1>3. \A k \in 1 .. Len(m.args) : E[k] \in Seq(S)
    <2> HIDE DEF S
    <2> QED  BY <1>2
  <1>4. /\ NamesUpTo(m, q, lost) = FlattenSeq([k \in 1 .. q |-> E[k]])
        /\ NamesUpTo(m, q + 1, lost) = FlattenSeq([k \in 1 .. q + 1 |-> E[k]])
    <2>1. \A k \in 1 .. q : k \in 1 .. Len(m.args)
      BY <1>1
    <2>2. \A k \in 1 .. q + 1 : k \in 1 .. Len(m.args)
      BY <1>1
    <2>3. \A k \in 1 .. Len(m.args) : E[k] = IF k \in lost THEN <<>> ELSE <<m.args[k].name>>
      OBVIOUS
    <2> HIDE DEF E, q
    <2>4. [k \in 1 .. q |-> IF k \in lost THEN <<>> ELSE <<m.args[k].name>>] = [k \in 1 .. q |-> E[k]]
      BY <2>1, <2>3
    <2>5. [k \in 1 .. q + 1 |-> IF k \in lost THEN <<>> ELSE <<m.args[k].name>>]
            = [k \in 1 .. q + 1 |-> E[k]]
      BY <2>2, <2>3
    <2> QED  BY <2>4, <2>5 DEF NamesUpTo
  <1>5. E[n] = IF n \in lost THEN <<>> ELSE <<m.args[n].name>>
    OBVIOUS
  <1> HIDE DEF S, E, q
  <1>6. /\ FlattenSeq([k \in 1 .. q |-> E[k]]) \in Seq(S)
        /\ FlattenSeq([k \in 1 .. q + 1 |-> E[k]]) \in Seq(S)
        /\ FlattenSeq([k \in 1 .. q + 1 |-> E[k]]) = FlattenSeq([k \in 1 .. q |-> E[k]]) \o E[q + 1]
    <2>1. \A k \in 1 .. q + 1 : E[k] \in Seq(S)
      BY <1>1, <1>3
    <2> QED  BY <2>1, <1>1, FlattenMore
  <1>7. /\ NamesUpTo(m, q, lost) \in Seq(S) /\ NamesUpTo(m, q + 1, lost) \in Seq(S)
        /\ NamesUpTo(m, q + 1, lost) = NamesUpTo(m, q, lost) \o E[q + 1]
    BY <1>4, <1>6
  <1> QED  BY <1>1, <1>2, <1>5, <1>7 DEF S, q

(* With none of them lost, they are all there.                             *)
LEMMA NamesKept ==
  ASSUME sdk \in Sdks, NEW m \in Range(sdk.methods), NEW n \in 0 .. Len(m.args), NEW lost,
         \A k \in 1 .. n : k \notin lost
  PROVE  NamesUpTo(m, n, lost) = Piece(Names(m), 0, n)
  <1> DEFINE f == Names(m)
             seqs == [k \in 1 .. n |-> IF 1 <= k THEN <<f[k]>> ELSE <<>>]
  <1>1. n \in Nat /\ 1 \in 1 .. n + 1 /\ 1 - 1 = 0 /\ n - 1 + 1 = n
    OBVIOUS
  <1>2. NamesUpTo(m, n, lost) = FlattenSeq(seqs)
    <2>1. \A k \in 1 .. n : k \in 1 .. Len(m.args) /\ 1 <= k
      BY FromFirstOut
    <2>2. \A k \in 1 .. n : f[k] = m.args[k].name /\ 1 <= k
      BY <2>1 DEF Names
    <2> HIDE DEF f
    <2>3. [k \in 1 .. n |-> IF k \in lost THEN <<>> ELSE <<m.args[k].name>>] = seqs
      BY <2>2
    <2> QED  BY <2>3 DEF NamesUpTo
  <1>3. PICK F \in 1 .. n + 1 : F = 1
    BY <1>1
  <1>4. seqs = [k \in 1 .. n |-> IF F <= k THEN <<f[k]>> ELSE <<>>]
    BY <1>3
  <1>5. F - 1 = 0 /\ n - F + 1 = n
    BY <1>1, <1>3
  <1> HIDE DEF f, seqs
  <1>6. FlattenSeq(seqs) = Piece(f, F - 1, n - F + 1)
    BY <1>1, <1>4, FlattenRest
  <1> QED  BY <1>2, <1>5, <1>6 DEF f

-----------------------------------------------------------------------------
(* The arguments that are lost: those behind a bool the loop comes to.     *)
Lost(m) == {k \in Behind(m) : k - 1 \in Range(ResultStarts(m))}

Supported(m) ==
    /\ FirstOut(m) <= Len(m.args)
    /\ \A i \in Range(ResultStarts(m)) : ResultWidths(m)[i] # 0

LEMMA BehindIs ==
  ASSUME sdk \in Sdks, NEW m \in Range(sdk.methods)
  PROVE  \A k : k \in Behind(m) <=> /\ k \in FirstOut(m) + 1 .. Len(m.args)
                                    /\ Sort[m.args[k - 1].base] = "bool"
  <1> DEFINE L == Len(m.args)
             F == FirstOut(m)
  <1>1. /\ L \in Nat /\ DOMAIN m.args = 1 .. L /\ F \in 1 .. L + 1
        /\ \A k \in 1 .. L : OutNamed(m.args[k]) <=> F <= k
    BY FromFirstOut
  <1>2. \A k : k \in Behind(m) <=> /\ k \in 1 .. L /\ k > 1 /\ OutNamed(m.args[k - 1])
                                   /\ Sort[m.args[k - 1].base] = "bool"
    BY <1>1 DEF Behind
  <1> HIDE DEF L, F
  <1>3. \A k \in 1 .. L : k > 1 => k - 1 \in 1 .. L /\ (F <= k - 1 <=> k \in F + 1 .. L)
    BY <1>1
  <1>4. \A k : k \in F + 1 .. L => k \in 1 .. L /\ k > 1
    BY <1>1
  <1>5. \A k : k \in Behind(m) <=> k \in F + 1 .. L /\ Sort[m.args[k - 1].base] = "bool"
    BY <1>1, <1>2, <1>3, <1>4
  <1> QED  BY <1>5 DEF L, F

(* Where the loop comes to, as a set.                                      *)
LEMMA PlacesAre ==
  ASSUME sdk \in Sdks, NEW m \in Range(sdk.methods), Supported(m)
  PROVE  /\ FirstOut(m) \in 1 .. Len(m.args) /\ Len(m.args) \in Nat
         /\ InOrder(ResultWidths(m), Len(m.args), FirstOut(m), ResultStarts(m))
         /\ Range(ResultStarts(m)) \subseteq FirstOut(m) .. Len(m.args)
         /\ \A i \in FirstOut(m) .. Len(m.args) :
              i \in Range(ResultStarts(m)) <=>
                ~(i - 1 \in Range(ResultStarts(m)) /\ ResultWidths(m)[i - 1] = 2)
  <1> DEFINE L == Len(m.args)
             F == FirstOut(m)
             w == ResultWidths(m)
             s == ResultStarts(m)
  <1>1. L \in Nat /\ F \in 1 .. L /\ F \in 1 .. L + 1 /\ w \in [1 .. L -> 0 .. 2]
    BY FromFirstOut, ResultWidthsAre DEF Supported
  <1>2. InOrder(w, L, F, s)
    <2>1. s = Starts(w, F)
      BY DEF ResultStarts
    <2> HIDE DEF L, F, w, s
    <2> QED  BY <1>1, <2>1, StartsIs
  <1>3. \A i \in Range(s) : w[i] # 0
    BY DEF Supported
  <1> HIDE DEF L, F, w, s
  <1>4. s \in Seq(F .. L)
    BY <1>2 DEF InOrder
  <1>5. Range(s) \subseteq F .. L
    <2>1. DOMAIN s = 1 .. Len(s)
      BY <1>4
    <2>2. \A k \in 1 .. Len(s) : s[k] \in F .. L
      BY <1>4, ElementOfSeq
    <2> QED  BY <2>1, <2>2 DEF Range
  <1>6. \A i \in Range(s) : w[i] \in {1, 2}
    <2>1. \A i \in Range(s) : i \in 1 .. L
      BY <1>1, <1>5
    <2>2. \A i \in 1 .. L : w[i] \in 0 .. 2
      BY <1>1
    <2> QED  BY <2>1, <2>2, <1>3
  <1>7. \A i \in F .. L : i \in Range(s) <=> ~(i - 1 \in Range(s) /\ w[i - 1] = 2)
    BY <1>1, <1>2, <1>6, Covers
  <1> QED  BY <1>1, <1>2, <1>5, <1>7 DEF L, F, w, s

(* Behind a bool an argument is lost exactly if the bool was not.          *)
LEMMA LostIs ==
  ASSUME sdk \in Sdks, NEW m \in Range(sdk.methods), Supported(m)
  PROVE  \A k \in Behind(m) : k \in Lost(m) <=> k - 1 \notin Lost(m)
  <1> DEFINE L == Len(m.args)
             F == FirstOut(m)
             w == ResultWidths(m)
             R == Range(ResultStarts(m))
             Bool(k) == Sort[m.args[k].base] = "bool"
  <1>1. /\ F \in 1 .. L /\ L \in Nat /\ R \subseteq F .. L
        /\ \A i \in F .. L : i \in R <=> ~(i - 1 \in R /\ w[i - 1] = 2)
    BY PlacesAre
  <1>2. \A i \in R : /\ w[i] = 2 <=> Double(m, i) \/ Bool(i)
                     /\ Double(m, i) => ~Bool(i + 1)
    <2>1. \A i \in R : i \in F .. L /\ w[i] # 0
      BY <1>1 DEF Supported
    <2> QED  BY <2>1, ResultIs
  <1>3. \A k : k \in Behind(m) <=> k \in F + 1 .. L /\ Bool(k - 1)
    BY BehindIs
  <1>4. \A k : k \in Lost(m) <=> k \in Behind(m) /\ k - 1 \in R
    BY DEF Lost
  <1> HIDE DEF L, F, w, R, Bool
  <1> SUFFICES ASSUME NEW k \in Behind(m)
               PROVE  k \in Lost(m) <=> k - 1 \notin Lost(m)
    OBVIOUS
  <1>5. k \in F + 1 .. L /\ Bool(k - 1)
    BY <1>3
  <1>6. k - 1 \in F .. L /\ (k - 1) - 1 \in Int /\ ((k - 1) - 1) + 1 = k - 1
    BY <1>1, <1>5
  <1> DEFINE b == k - 1
             c == b - 1
  <1>7. /\ b \in R <=> ~(c \in R /\ w[c] = 2)
        /\ c \in R => (w[c] = 2 <=> Double(m, c) \/ Bool(c)) /\ (Double(m, c) => ~Bool(b))
    BY <1>1, <1>2, <1>6
  <1>8. Bool(b) /\ (k \in Lost(m) <=> b \in R) /\ (b \in Lost(m) <=> b \in Behind(m) /\ c \in R)
    BY <1>4, <1>5
  <1>9. b \in Behind(m) <=> b \in F + 1 .. L /\ Bool(c)
    BY <1>3
  <1>10. c \in R => b \in F + 1 .. L
    <2>1. c \in R => c \in F .. L
      BY <1>1
    <2> QED  BY <2>1, <1>1, <1>6
  <1> HIDE DEF b, c
  <1>11. k \in Lost(m) <=> b \notin Lost(m)
    BY <1>7, <1>8, <1>9, <1>10
  <1> QED  BY <1>11 DEF b

(* A result of the loop: what is passed for it are the names it goes over, *)
(* without those lost.                                                     *)
Reach(m, i) ==
    IF ResultWidths(m)[i] = 2 /\ i < Len(m.args) THEN i + 1 ELSE i

LEMMA Advance ==
  ASSUME sdk \in Sdks, NEW m \in Range(sdk.methods), Supported(m),
         NEW i \in Range(ResultStarts(m))
  PROVE  /\ PassedResult(m, i) \in Seq(Range(Names(m)))
         /\ NamesUpTo(m, i - 1, Lost(m)) \o PassedResult(m, i) = NamesUpTo(m, Reach(m, i), Lost(m))
  <1> DEFINE L == Len(m.args)
             F == FirstOut(m)
             w == ResultWidths(m)
             R == Range(ResultStarts(m))
             S == Range(Names(m))
             Bool(k) == Sort[m.args[k].base] = "bool"
             N(n) == NamesUpTo(m, n, Lost(m))
             x == m.args[i].name
             y == m.args[i + 1].name
  <1>1. /\ F \in 1 .. L /\ L \in Nat /\ i \in F .. L /\ i \in 1 .. L
        /\ (i - 1 \in R /\ w[i - 1] = 2) <=> i \notin R
    BY PlacesAre
  <1>2. /\ w[i] \in {1, 2} /\ (w[i] = 2 <=> Double(m, i) \/ Bool(i))
        /\ Double(m, i) => i + 1 \in 1 .. L /\ ~Bool(i) /\ ~Bool(i + 1)
        /\ PassedResult(m, i) = IF Double(m, i) THEN <<x, y>> ELSE <<x>>
    <2>1. w[i] # 0
      BY DEF Supported
    <2> QED  BY <1>1, <2>1, ResultIs
  <1>3. i - 1 \in R /\ Bool(i - 1) => w[i - 1] = 2
    <2>1. i - 1 \in R => i - 1 \in F .. L /\ w[i - 1] # 0
      BY PlacesAre DEF Supported
    <2> QED  BY <2>1, ResultIs
  <1>4. i \notin Lost(m)
    <2>1. i \in Lost(m) => i - 1 \in R /\ Bool(i - 1)
      BY BehindIs DEF Lost
    <2> QED  BY <2>1, <1>1, <1>3
  <1>5. i + 1 \in 1 .. L => (i + 1 \in Lost(m) <=> Bool(i))
    <2>1. i + 1 \in 1 .. L => i + 1 \in F + 1 .. L
      BY <1>1
    <2>2. (i + 1) - 1 = i
      BY <1>1
    <2> QED  BY <2>1, <2>2, BehindIs DEF Lost
  <1>6. x \in S /\ N(i - 1) \in Seq(S) /\ N(i) \in Seq(S) /\ N(i) = N(i - 1) \o <<x>>
    BY <1>1, <1>4, NamesMore
  <1>7. i + 1 \in 1 .. L => /\ y \in S
                            /\ N(i + 1) = N(i) \o (IF i + 1 \in Lost(m) THEN <<>> ELSE <<y>>)
    <2> SUFFICES ASSUME i + 1 \in 1 .. L
                 PROVE  y \in S /\ N(i + 1) = N(i) \o (IF i + 1 \in Lost(m) THEN <<>> ELSE <<y>>)
      OBVIOUS
    <2>1. (i + 1) - 1 = i
      BY <1>1
    <2>2. \A k \in 1 .. L : /\ m.args[k].name \in S
                           /\ N(k) = N(k - 1) \o (IF k \in Lost(m) THEN <<>> ELSE <<m.args[k].name>>)
      <3> TAKE k \in 1 .. L
      <3> QED  BY NamesMore
    <2> HIDE DEF L, S, N
    <2> QED  BY <2>1, <2>2
  <1>8. Reach(m, i) = IF w[i] = 2 /\ i < L THEN i + 1 ELSE i
    BY DEF Reach
  <1>9. i < L <=> i + 1 \in 1 .. L
    BY <1>1
  <1> HIDE DEF L, F, w, R, S, Bool, N, x, y
  <1>10. CASE Double(m, i)
    <2>1. Reach(m, i) = i + 1 /\ i + 1 \in 1 .. L /\ ~Bool(i) /\ PassedResult(m, i) = <<x, y>>
      BY <1>2, <1>8, <1>9, <1>10
    <2>2. y \in S /\ N(i + 1) = N(i) \o <<y>>
      BY <2>1, <1>5, <1>7
    <2>3. <<x>> \in Seq(S) /\ <<y>> \in Seq(S) /\ <<x, y>> \in Seq(S) /\ <<x>> \o <<y>> = <<x, y>>
      <3>1. x \in S /\ y \in S
        BY <1>6, <2>2
      <3>2. <<x>> \in Seq(S) /\ <<y>> \in Seq(S) /\ <<x, y>> \in Seq(S)
        BY <3>1
      <3>3. <<x>> \o <<y>> = <<x, y>>
        <4>1. /\ <<x>> \o <<y>> \in Seq(S) /\ Len(<<x>> \o <<y>>) = 2
              /\ (<<x>> \o <<y>>)[1] = x /\ (<<x>> \o <<y>>)[2] = y
          BY <3>2, ConcatProperties
        <4>2. \A k \in 1 .. 2 : k = 1 \/ k = 2
          OBVIOUS
        <4>3. Len(<<x, y>>) = 2 /\ <<x, y>>[1] = x /\ <<x, y>>[2] = y
          OBVIOUS
        <4> QED  BY <3>2, <4>1, <4>2, <4>3, SeqEqual
      <3> QED  BY <3>2, <3>3
    <2>4. N(i + 1) = N(i - 1) \o (<<x>> \o <<y>>)
      BY <1>6, <2>2, <2>3, ConcatAssociative
    <2> QED  BY <2>1, <2>3, <2>4 DEF N, S
  <1>11. CASE ~Double(m, i)
    <2>1. PassedResult(m, i) = <<x>> /\ <<x>> \in Seq(S)
      BY <1>2, <1>6, <1>11
    <2>2. CASE Bool(i) /\ i < L
      <3>1. Reach(m, i) = i + 1
        BY <1>2, <1>8, <2>2
      <3>2. N(i + 1) = N(i) \o <<>>
        BY <1>5, <1>7, <1>9, <2>2
      <3>3. N(i + 1) = N(i)
        BY <3>2, <1>6, ConcatEmptySeq
      <3> QED  BY <3>1, <3>3, <2>1, <1>6 DEF N, S
    <2>3. CASE ~(Bool(i) /\ i < L)
      <3>1. Reach(m, i) = i
        BY <1>2, <1>8, <1>11, <2>3
      <3> QED  BY <3>1, <2>1, <1>6 DEF N, S
    <2> QED  BY <2>2, <2>3
  <1> QED  BY <1>10, <1>11

(* What is passed once j results were seen to, one result at a time.       *)
LEMMA PassedMore ==
  ASSUME sdk \in Sdks, NEW m \in Range(sdk.methods), Supported(m),
         NEW j \in Nat, j < Len(ResultStarts(m))
  PROVE  PassedUpTo(m, j + 1) = PassedUpTo(m, j) \o PassedResult(m, ResultStarts(m)[j + 1])
  <1> DEFINE s == ResultStarts(m)
             S == Range(Names(m))
             E == [k \in 1 .. Len(s) |-> PassedResult(m, s[k])]
             ins == [k \in 1 .. FirstOut(m) - 1 |-> PassedFor(m, k)]
             A(n) == FlattenSeq([k \in 1 .. n |-> E[k]])
  <1>1. Len(s) \in Nat /\ DOMAIN s = 1 .. Len(s) /\ j + 1 \in 1 .. Len(s) /\ j \in Nat
    <2>1. s \in Seq(FirstOut(m) .. Len(m.args))
      BY PlacesAre DEF InOrder
    <2> HIDE DEF s
    <2>2. Len(s) \in Nat /\ DOMAIN s = 1 .. Len(s)
      BY <2>1
    <2> QED  BY <2>2 DEF s
  <1>2. \A k \in 1 .. Len(s) : E[k] = PassedResult(m, s[k]) /\ E[k] \in Seq(S)
    <2>1. \A k \in 1 .. Len(s) : s[k] \in Range(s)
      BY <1>1 DEF Range
    <2> QED  BY <2>1, Advance
  <1>3. ins \in Seq(S)
    <2>1. FirstOut(m) - 1 \in Nat /\ FirstOut(m) - 1 <= Len(m.args) /\ Len(m.args) \in Nat
      BY FromFirstOut
    <2>2. \A k \in 1 .. FirstOut(m) - 1 : 0 + k \in 1 .. Len(m.args) /\ Names(m)[0 + k] \in S
      BY <2>1 DEF Names, Range
    <2>3. ins = [k \in 1 .. FirstOut(m) - 1 |-> Names(m)[0 + k]]
      BY InputsPassed DEF Piece
    <2> HIDE DEF ins, S
    <2>4. ins \in [1 .. FirstOut(m) - 1 -> S]
      BY <2>2, <2>3
    <2> QED  BY <2>1, <2>4
  <1>4. PassedUpTo(m, j) = ins \o A(j) /\ PassedUpTo(m, j + 1) = ins \o A(j + 1)
    <2>1. (\A k \in 1 .. j : k \in 1 .. Len(s)) /\ (\A k \in 1 .. j + 1 : k \in 1 .. Len(s))
      BY <1>1
    <2> HIDE DEF E, s, ins
    <2>2. [n \in 1 .. j |-> PassedResult(m, s[n])] = [k \in 1 .. j |-> E[k]]
      BY <2>1, <1>2
    <2>3. [n \in 1 .. j + 1 |-> PassedResult(m, s[n])] = [k \in 1 .. j + 1 |-> E[k]]
      BY <2>1, <1>2
    <2> QED  BY <2>2, <2>3 DEF PassedUpTo, s, ins
  <1>5. A(j) \in Seq(S) /\ A(j + 1) = A(j) \o E[j + 1]
    <2>1. \A k \in 1 .. j + 1 : E[k] \in Seq(S)
      BY <1>1, <1>2
    <2> HIDE DEF E, S, s
    <2> QED  BY <2>1, FlattenMore
  <1>6. E[j + 1] \in Seq(S) /\ E[j + 1] = PassedResult(m, s[j + 1])
    BY <1>1, <1>2
  <1> HIDE DEF s, S, E, ins, A
  <1>7. (ins \o A(j)) \o E[j + 1] = ins \o (A(j) \o E[j + 1])
    <2>1. ins \in Seq(S) /\ A(j) \in Seq(S) /\ E[j + 1] \in Seq(S)
      BY <1>3, <1>5, <1>6, Zenon
    <2>2. \A u, v, z \in Seq(S) : (u \o v) \o z = u \o (v \o z)
      <3> TAKE u, v, z \in Seq(S)
      <3> QED  BY ConcatAssociative
    <2> QED  BY <2>1, <2>2, Zenon
  <1> QED  BY <1>4, <1>5, <1>6, <1>7 DEF s

(* How far the j-th result gets: to where the next one begins, or the end. *)
LEMMA ReachIs ==
  ASSUME sdk \in Sdks, NEW m \in Range(sdk.methods), Supported(m),
         NEW j \in 1 .. Len(ResultStarts(m))
  PROVE  LET s == ResultStarts(m) IN
         /\ s[j] \in Range(s) /\ s[j] \in 1 .. Len(m.args)
         /\ j = Len(s) => Reach(m, s[j]) = Len(m.args)
         /\ j # Len(s) => s[j + 1] - 1 = Reach(m, s[j])
  <1> DEFINE L == Len(m.args)
             w == ResultWidths(m)
             s == ResultStarts(m)
  <1>1. /\ FirstOut(m) \in 1 .. L /\ L \in Nat /\ InOrder(w, L, FirstOut(m), s)
        /\ Range(s) \subseteq FirstOut(m) .. L
    BY PlacesAre
  <1>2. /\ s \in Seq(FirstOut(m) .. L)
        /\ \A k \in 1 .. Len(s) :
             IF k = Len(s) THEN Skip(w, s[k]) > L ELSE s[k + 1] = Skip(w, s[k])
    <2>1. ~(FirstOut(m) > L)
      BY <1>1
    <2> HIDE DEF s, w, L
    <2> QED  BY <2>1, <1>1 DEF InOrder
  <1>0. j \in 1 .. Len(s)
    OBVIOUS
  <1>3. s[j] \in Range(s) /\ s[j] \in FirstOut(m) .. L /\ s[j] \in 1 .. L
    <2>1. DOMAIN s = 1 .. Len(s)
      <3> HIDE DEF s
      <3> QED  BY <1>2
    <2>2. s[j] \in Range(s)
      BY <2>1 DEF Range
    <2> HIDE DEF s, L
    <2> QED  BY <2>2, <1>1
  <1>4. w[s[j]] \in {1, 2}
    <2>1. w[s[j]] # 0
      BY <1>3 DEF Supported
    <2> HIDE DEF s
    <2> QED  BY <2>1, <1>3, ResultIs
  <1>5. Reach(m, s[j]) = IF w[s[j]] = 2 /\ s[j] < L THEN s[j] + 1 ELSE s[j]
    BY DEF Reach
  <1>6. Skip(w, s[j]) = s[j] + w[s[j]]
    BY <1>4 DEF Skip
  <1>7. j # Len(s) => s[j + 1] \in 1 .. L
    <2> HIDE DEF s, L
    <2>1. Len(s) \in Nat
      BY <1>2
    <2>3. j # Len(s) => j + 1 \in 1 .. Len(s)
      BY <2>1, <1>0
    <2>2. j # Len(s) => s[j + 1] \in FirstOut(m) .. L
      BY <2>3, <1>2, ElementOfSeq
    <2> QED  BY <2>2, <1>1
  <1> DEFINE i == s[j]
             v == w[s[j]]
             next == s[j + 1]
  <1>8. /\ i \in 1 .. L /\ v \in {1, 2} /\ L \in Nat
        /\ Reach(m, i) = IF v = 2 /\ i < L THEN i + 1 ELSE i
        /\ j = Len(s) => i + v > L
        /\ j # Len(s) => next = i + v /\ next \in 1 .. L
    BY <1>1, <1>2, <1>3, <1>4, <1>5, <1>6, <1>7
  <1> HIDE DEF i, v, next, L
  <1>9. j = Len(s) => Reach(m, i) = L
    BY <1>8
  <1>10. j # Len(s) => next - 1 = Reach(m, i)
    BY <1>8
  <1> QED  BY <1>3, <1>9, <1>10 DEF i, next, L

LEMMA PassedIs ==
  ASSUME sdk \in Sdks, NEW m \in Range(sdk.methods), Supported(m)
  PROVE  /\ Len(ResultStarts(m)) \in Nat \ {0}
         /\ \A j \in 1 .. Len(ResultStarts(m)) :
              PassedUpTo(m, j) = NamesUpTo(m, Reach(m, ResultStarts(m)[j]), Lost(m))
  <1> DEFINE s == ResultStarts(m)
             F == FirstOut(m)
             N(n) == NamesUpTo(m, n, Lost(m))
             T == {j \in 1 .. Len(s) : PassedUpTo(m, j) = N(Reach(m, s[j]))}
  <1>1. F \in 1 .. Len(m.args) /\ Len(m.args) \in Nat /\ s # <<>> /\ s[1] = F /\ Len(s) \in Nat \ {0}
    <2>1. /\ F \in 1 .. Len(m.args) /\ Len(m.args) \in Nat
          /\ InOrder(ResultWidths(m), Len(m.args), F, s)
      BY PlacesAre
    <2>2. ~(F > Len(m.args))
      BY <2>1
    <2> HIDE DEF s, F
    <2>3. s \in Seq(F .. Len(m.args)) /\ s # <<>> /\ s[1] = F
      BY <2>1, <2>2 DEF InOrder
    <2> QED  BY <2>1, <2>3
  <1>2. PassedUpTo(m, 0) = N(F - 1)
    <2>1. F - 1 \in 0 .. Len(m.args)
      BY <1>1
    <2>2. \A k \in 1 .. F - 1 : k \notin Lost(m)
      BY <1>1, BehindIs DEF Lost
    <2> QED  BY <2>1, <2>2, NamesKept, NonePassed
  <1>3. ASSUME NEW j \in Nat, j < Len(s), PassedUpTo(m, j) = N(s[j + 1] - 1)
        PROVE  PassedUpTo(m, j + 1) = N(Reach(m, s[j + 1]))
    <2>1. PassedUpTo(m, j + 1) = PassedUpTo(m, j) \o PassedResult(m, s[j + 1])
      BY <1>3, PassedMore
    <2>2. j + 1 \in 1 .. Len(s)
      <3> HIDE DEF s
      <3> QED  BY <1>1, <1>3
    <2>3. s[j + 1] \in Range(s)
      BY <2>2, ReachIs
    <2>4. N(s[j + 1] - 1) \o PassedResult(m, s[j + 1]) = N(Reach(m, s[j + 1]))
      BY <2>3, Advance
    <2> HIDE DEF N, s
    <2> QED  BY <1>3, <2>1, <2>4
  <1>4. 1 \in T
    <2>1. 0 \in Nat /\ 0 < Len(s) /\ 0 + 1 = 1 /\ 1 \in 1 .. Len(s) /\ s[0 + 1] - 1 = F - 1
      <3> HIDE DEF s
      <3> QED  BY <1>1
    <2> HIDE DEF N, s
    <2>2. PassedUpTo(m, 0 + 1) = N(Reach(m, s[0 + 1]))
      BY <1>2, <1>3, <2>1
    <2> QED  BY <2>1, <2>2
  <1>5. ASSUME NEW j \in 1 .. Len(s), j \in T, j + 1 <= Len(s)
        PROVE  j + 1 \in T
    <2>1. j \in Nat /\ j < Len(s) /\ j # Len(s) /\ j + 1 \in 1 .. Len(s)
      <3> HIDE DEF s
      <3> QED  BY <1>1, <1>5
    <2>2. s[j + 1] - 1 = Reach(m, s[j])
      BY <2>1, ReachIs
    <2>3. PassedUpTo(m, j) = N(s[j + 1] - 1)
      BY <1>5, <2>2
    <2> HIDE DEF N, s
    <2> QED  BY <2>1, <2>3, <1>3
  <1>6. \A j \in 1 .. Len(s) : j \in T /\ j + 1 <= Len(s) => j + 1 \in T
    BY <1>5
  <1>7. 1 .. Len(s) \subseteq T
    <2> HIDE DEF T, s
    <2> QED  BY <1>1, <1>4, <1>6, Upward
  <1> QED  BY <1>1, <1>7

(* What is passed for a method that is written: nothing is lost but what   *)
(* the property says, and the second call stops at the text's length.      *)
Keeps(m, lost) ==
    lost \in SUBSET Behind(m) /\ \A k \in Behind(m) : k \in lost <=> k - 1 \notin lost
Kept(m, args) == \E lost : Keeps(m, lost) /\ args = NamesUpTo(m, Len(m.args), lost)
KeptAgain(m, args) ==
    \E lost : Keeps(m, lost) /\ \E n \in 2 .. Len(m.args) :
       /\ IsText(m.args, n - 1) /\ m.returns = "result" /\ ~m.limit
       /\ args = NamesUpTo(m, n, lost)

(* A method with no out argument but the last one loses none.              *)
LEMMA KeptAll ==
  ASSUME sdk \in Sdks, NEW m \in Range(sdk.methods), Len(m.args) <= FirstOut(m), NEW args,
         args = Piece(Names(m), 0, Len(m.args))
  PROVE  Kept(m, args)
  <1>1. Behind(m) = {}
    <2>1. Len(m.args) \in Nat /\ FirstOut(m) \in Nat
      BY FromFirstOut
    <2>2. \A k : k \notin FirstOut(m) + 1 .. Len(m.args)
      BY <2>1
    <2> QED  BY <2>2, BehindIs
  <1>2. NamesUpTo(m, Len(m.args), {}) = args
    <2>1. Len(m.args) \in 0 .. Len(m.args)
      BY FromFirstOut
    <2> QED  BY <2>1, NamesKept
  <1>3. Keeps(m, {})
    BY <1>1 DEF Keeps
  <1> QED  BY <1>2, <1>3 DEF Kept

LEMMA ArgumentsKept ==
  ASSUME sdk \in Sdks, NEW m \in Range(sdk.methods), ~MethodFails(m)
  PROVE  /\ Kept(m, PassedArgs(m))
         /\ \A j \in Retries(m) : KeptAgain(m, PassedUpTo(m, j))
  <1> DEFINE L == Len(m.args)
             F == FirstOut(m)
             s == ResultStarts(m)
  <1>1. L \in Nat /\ F \in 1 .. L + 1
    BY FromFirstOut
  <1>2. CASE ResultForm(m) = "object"
    <2>1. F = L
      BY <1>2, ObjectIsLast
    <2>2. PassedArgs(m) = Append(Piece(Names(m), 0, F - 1), m.args[F].name)
      BY <1>2, NonePassed DEF PassedArgs
    <2>3. F - 1 \in Nat /\ F \in 1 .. L /\ (F - 1) + 1 = L
      BY <1>1, <2>1
    <2>4. Names(m)[F] = m.args[F].name
      BY <2>3 DEF Names
    <2>5. Retries(m) = {}
      BY <1>2 DEF Retries
    <2>6. Append(Piece(Names(m), 0, F - 1), Names(m)[F]) = Piece(Names(m), 0, L)
      <3> HIDE DEF L, F
      <3> DEFINE p == F - 1
                 f == Names(m)
                 S == {f[k] : k \in 1 .. p + 1}
                 a == Piece(f, 0, p)
                 b == Piece(f, 0, p + 1)
      <3>1. p \in Nat /\ p + 1 = L /\ p + 1 = F
        BY <2>3
      <3> HIDE DEF p, f
      <3>2. a = [k \in 1 .. p |-> f[k]] /\ b = [k \in 1 .. p + 1 |-> f[k]]
        BY <3>1 DEF Piece
      <3>3. a \in [1 .. p -> S] /\ b \in [1 .. p + 1 -> S] /\ f[p + 1] \in S
        BY <3>1, <3>2
      <3> HIDE DEF S, a, b
      <3>4. a \in Seq(S) /\ Len(a) = p /\ b \in Seq(S) /\ Len(b) = p + 1
        BY <3>1, <3>3
      <3>5. /\ Append(a, f[p + 1]) \in Seq(S) /\ Len(Append(a, f[p + 1])) = p + 1
            /\ \A k \in 1 .. p + 1 : Append(a, f[p + 1])[k] = b[k]
        BY <3>1, <3>2, <3>3, <3>4
      <3>6. Append(a, f[p + 1]) = b
        BY <3>4, <3>5, SeqEqual
      <3> QED  BY <3>1, <3>6 DEF a, b, f, p
    <2>7. PassedArgs(m) = Piece(Names(m), 0, Len(m.args)) /\ Len(m.args) <= FirstOut(m)
      BY <1>1, <2>1, <2>2, <2>4, <2>6
    <2> QED  BY <2>5, <2>7, KeptAll
  <1>3. CASE ResultForm(m) # "object" /\ F = L + 1
    <2>1. s = <<>>
      <3>1. InOrder(ResultWidths(m), L, F, s)
        BY <1>1, ResultWidthsAre, StartsIs DEF ResultStarts
      <3>2. F > L
        BY <1>1, <1>3
      <3> HIDE DEF L, F, s
      <3> QED  BY <3>1, <3>2 DEF InOrder
    <2>2. Len(s) = 0 /\ DOMAIN s = {}
      BY <2>1
    <2>3. Retries(m) = {}
      BY <2>2 DEF Retries
    <2>4. PassedArgs(m) = Piece(Names(m), 0, F - 1) /\ F - 1 = L
      BY <1>1, <1>3, <2>2, NonePassed DEF PassedArgs
    <2>5. PassedArgs(m) = Piece(Names(m), 0, Len(m.args)) /\ Len(m.args) <= FirstOut(m)
      BY <1>1, <1>3, <2>4
    <2> QED  BY <2>3, <2>5, KeptAll
  <1>4. CASE ResultForm(m) # "object" /\ F <= L
    <2>1. Supported(m)
      BY <1>4 DEF MethodFails, Supported
    <2>2. /\ Len(s) \in Nat \ {0}
          /\ \A j \in 1 .. Len(s) : PassedUpTo(m, j) = NamesUpTo(m, Reach(m, s[j]), Lost(m))
      BY <2>1, PassedIs
    <2>3. Keeps(m, Lost(m))
      BY <2>1, LostIs DEF Lost, Keeps
    <2>4. Kept(m, PassedArgs(m))
      <3>1. PassedArgs(m) = PassedUpTo(m, Len(s)) /\ Len(s) \in 1 .. Len(s)
        BY <1>4, <2>2 DEF PassedArgs
      <3>2. Reach(m, s[Len(s)]) = L
        BY <2>1, <3>1, ReachIs
      <3>3. PassedArgs(m) = NamesUpTo(m, L, Lost(m))
        BY <2>2, <3>1, <3>2
      <3> QED  BY <2>3, <3>3 DEF Kept
    <2>5. ASSUME NEW j \in Retries(m)
          PROVE  KeptAgain(m, PassedUpTo(m, j))
      <3>1. j \in DOMAIN s /\ IsText(m.args, s[j]) /\ m.returns = "result" /\ ~m.limit
        BY DEF Retries
      <3>2. j \in 1 .. Len(s)
        <4>1. s \in Seq(F .. L)
          BY <2>1, PlacesAre DEF InOrder
        <4> HIDE DEF s
        <4> QED  BY <4>1, <3>1
      <3>3. s[j] \in Range(s) /\ s[j] \in F .. L /\ s[j] \in 1 .. L /\ ResultWidths(m)[s[j]] # 0
        <4>1. s[j] \in Range(s) /\ s[j] \in 1 .. L
          BY <2>1, <3>2, ReachIs
        <4>2. s[j] \in F .. L
          BY <2>1, <4>1, PlacesAre
        <4> QED  BY <2>1, <4>1, <4>2 DEF Supported
      <3>4. ResultWidths(m)[s[j]] = 2 /\ s[j] < L
        BY <3>1, <3>3, ResultIs DEF Double, IsText
      <3>5. Reach(m, s[j]) = s[j] + 1
        BY <3>4 DEF Reach
      <3> DEFINE n == s[j] + 1
      <3>6. PassedUpTo(m, j) = NamesUpTo(m, n, Lost(m))
        BY <2>2, <3>2, <3>5
      <3>7. n \in 2 .. L /\ n - 1 = s[j]
        <4> HIDE DEF s, L
        <4> QED  BY <1>1, <3>3, <3>4
      <3>8. IsText(m.args, n - 1)
        BY <3>1, <3>7
      <3> HIDE DEF n, s
      <3> QED  BY <2>3, <3>1, <3>6, <3>7, <3>8 DEF KeptAgain
    <2> QED  BY <2>4, <2>5
  <1>5. F = L + 1 \/ F <= L
    <2> HIDE DEF F, L
    <2> QED  BY <1>1
  <1> QED  BY <1>2, <1>3, <1>4, <1>5

-----------------------------------------------------------------------------
(* The calls.                                                              *)
Passing == \A p \in passed : \E m \in Range(sdk.methods) :
             p.of = m.name /\ IF p.again THEN KeptAgain(m, p.args) ELSE Kept(m, p.args)

LEMMA PassingStep == Typed /\ Passing /\ [Next]_vars => Passing'
  <1> SUFFICES ASSUME Typed, Passing, [Next]_vars
               PROVE  Passing'
    OBVIOUS
  <1>1. CASE sdk' = sdk /\ passed' = passed
    BY <1>1 DEF Passing
  <1>2. CASE GenMethod /\ ~Fail
    <2> DEFINE m == sdk.methods[at]
    <2>1. sdk' = sdk /\ step = "methods"
      BY <1>2, GenMethodRest DEF GenMethod
    <2>2. m \in Range(sdk.methods) /\ sdk \in Sdks
      BY <2>1, SdkIs DEF Typed, Placed
    <2>3. \A p \in passed' : \/ p \in passed
                             \/ /\ p.of = m.name
                                /\ IF p.again THEN KeptAgain(m, p.args) ELSE Kept(m, p.args)
      <3>1. CASE IsWritten(m) /\ ~MethodFails(m) /\ WriteMethod(m)
        <4>1. /\ Kept(m, PassedArgs(m))
              /\ \A j \in Retries(m) : KeptAgain(m, PassedUpTo(m, j))
          <5> HIDE DEF m
          <5> QED  BY <2>2, <3>1, ArgumentsKept
        <4>2. passed' = passed
                \cup {[of |-> m.name, args |-> PassedArgs(m), again |-> FALSE]}
                \cup {[of |-> m.name, args |-> PassedUpTo(m, j), again |-> TRUE] : j \in Retries(m)}
          BY <3>1 DEF WriteMethod
        <4> HIDE DEF m
        <4> QED  BY <4>1, <4>2
      <3>2. CASE IsBuiltInNotify(m) /\ SetUpNotify(m)
        <4> DEFINE args == [k \in 1 .. 4 |-> m.args[k].name]
        <4>1. Len(m.args) = 4 /\ \A a \in Range(m.args) : ~OutNamed(a)
          <5> HIDE DEF m
          <5> QED  BY <2>2, <3>2, ArgumentsAssumption DEF IsBuiltInNotify, IsAddNotify
        <4>2. Len(m.args) <= FirstOut(m)
          <5> HIDE DEF m
          <5>1. /\ Len(m.args) \in Nat /\ DOMAIN m.args = 1 .. Len(m.args)
                /\ FirstOut(m) \in 1 .. Len(m.args) + 1
                /\ \A k \in DOMAIN m.args : OutNamed(m.args[k]) <=> FirstOut(m) <= k
                /\ \A k \in DOMAIN m.args : m.args[k] \in Range(m.args)
            BY <2>2, FromFirstOut
          <5>2. FirstOut(m) \notin 1 .. Len(m.args)
            BY <4>1, <5>1
          <5> QED  BY <5>1, <5>2
        <4>3. args = Piece(Names(m), 0, Len(m.args))
          <5> HIDE DEF m
          <5>1. \A k \in 1 .. 4 : 0 + k = k
            OBVIOUS
          <5> QED  BY <4>1, <5>1 DEF Piece, Names
        <4>4. Kept(m, args)
          <5> HIDE DEF m, args
          <5> QED  BY <2>2, <4>2, <4>3, KeptAll
        <4>5. passed' = passed \cup {[of |-> m.name, args |-> args, again |-> FALSE]}
          BY <3>2 DEF SetUpNotify
        <4> HIDE DEF m, args
        <4> QED  BY <4>4, <4>5
      <3>3. CASE passed' = passed
        BY <3>3
      <3> QED  BY <1>2, <3>1, <3>2, <3>3, GenMethodIs
    <2> HIDE DEF m
    <2>4. \A p \in passed' : \E n \in Range(sdk.methods) :
             p.of = n.name /\ IF p.again THEN KeptAgain(n, p.args) ELSE Kept(n, p.args)
      BY <2>2, <2>3 DEF Passing
    <2> QED  BY <2>1, <2>4 DEF Passing
  <1>3. \/ sdk' = sdk /\ passed' = passed
        \/ GenMethod /\ ~Fail
    BY DEF Next, Done, vars, output, Preparing, RequireByUse, RequireByOwner, Expand,
           GenPackedResult, GenStruct, GenSignals, Fail
  <1> QED  BY <1>1, <1>2, <1>3

LEMMA PassingArguments == Typed /\ Passing => ArgumentsPassed
  <1> SUFFICES ASSUME Typed, Passing, NEW p \in passed
               PROVE  LET m == CHOOSE n \in Range(sdk.methods) : n.name = p.of
                      IN IF p.again THEN KeptAgain(m, p.args) ELSE Kept(m, p.args)
    BY Zenon DEF ArgumentsPassed, KeptAgain, Kept, Keeps
  <1>1. PICK m \in Range(sdk.methods) :
           p.of = m.name /\ IF p.again THEN KeptAgain(m, p.args) ELSE Kept(m, p.args)
    BY DEF Passing
  <1>2. \A n \in Range(sdk.methods) : n.name = m.name => n = m
    BY ArgumentsAssumption DEF Typed
  <1>3. (CHOOSE n \in Range(sdk.methods) : n.name = p.of) = m
    BY <1>1, <1>2
  <1> QED  BY <1>1, <1>3

(* For every list of arguments, the loops that take it apart,              *)
(* _expand_input_struct and _make_packed_result, lose an argument only     *)
(* behind an out bool, and there always unless the bool was lost itself;   *)
(* and the second call _gen_str_retry_lines writes for a text that was too *)
(* long stops with the text's length, whatever results follow it.          *)
THEOREM ArgumentsPassedEver == Spec => []ArgumentsPassed
  <1>1. Init => Passing
    BY DEF Init, Passing
  <1>2. Typed /\ Passing /\ [Next]_vars => Passing'
    BY PassingStep
  <1>3. Typed /\ Passing => ArgumentsPassed
    BY PassingArguments
  <1> QED  BY <1>1, <1>2, <1>3, TypedEver, PTL DEF Spec

-----------------------------------------------------------------------------
(* The elif chain of ResultForm: nothing for no result.                    *)
LEMMA FormOfNone ==
  ASSUME NEW m, OutArgs(m) = <<>>
  PROVE  ResultForm(m) = "none"
  <1> DEFINE outs == OutArgs(m)
             One == Len(outs) = 1
             Two == Len(outs) = 2
             p1 == outs = <<>>
             p2 == m.returns = "void" /\ (One \/ (Two /\ (IsText(outs, 1) \/ IsData(outs, 1))))
             p3 == m.returns = "result" /\ One /\ ~IsHandleArray(outs[1])
                     /\ Sort[outs[1].base] \in {"handle", "struct"}
             p4 == m.returns = "result" /\ One /\ outs[1].base = "char"
             p5 == m.returns = "result" /\ Two /\ IsText(outs, 1)
             pairs == << <<p1, "none">>, <<p2, "returned">>, <<p3, "object">>,
                         <<p4, "returned">>, <<p5, "returned">>, <<TRUE, "packed">> >>
  <1>1. ResultForm(m) = FirstTrue(pairs)
    BY DEF ResultForm
  <1>2. p1
    OBVIOUS
  <1> HIDE DEF p1, p2, p3, p4, p5
  <1>3. DOMAIN pairs = 1 .. 6 /\ (pairs[1][1] <=> p1) /\ pairs[1][2] = "none"
    OBVIOUS
  <1> HIDE DEF pairs
  <1>4. \A n \in Nat : DOMAIN pairs = 1 .. n =>
          \A j \in 1 .. n : pairs[j][1] /\ (\A i \in 1 .. n : i < j => ~pairs[i][1])
             => FirstTrue(pairs) = pairs[j][2]
    BY FirstTrueFirst
  <1>5. 6 \in Nat /\ 1 \in 1 .. 6 /\ \A i \in 1 .. 6 : ~(i < 1)
    OBVIOUS
  <1>6. FirstTrue(pairs) = pairs[1][2]
    BY <1>2, <1>3, <1>4, <1>5, Zenon
  <1> QED  BY <1>1, <1>3, <1>6

(* The out arguments, by their places in the list.                         *)
LEMMA OutArgsAre ==
  ASSUME sdk \in Sdks, NEW m \in Range(sdk.methods)
  PROVE  /\ FirstOut(m) - 1 \in Nat /\ Len(m.args) - (FirstOut(m) - 1) \in Nat
         /\ DOMAIN OutArgs(m) = 1 .. Len(m.args) - (FirstOut(m) - 1)
         /\ Len(OutArgs(m)) = Len(m.args) - (FirstOut(m) - 1)
         /\ \A i \in DOMAIN OutArgs(m) : OutArgs(m)[i] = m.args[(FirstOut(m) - 1) + i]
  <1> DEFINE L == Len(m.args)
             d == FirstOut(m) - 1
             outs == OutArgs(m)
  <1>1. L \in Nat /\ FirstOut(m) \in 1 .. L + 1
    BY FromFirstOut
  <1>2. d \in Nat /\ L - d \in Nat /\ L - FirstOut(m) + 1 = L - d
    BY <1>1
  <1>3. outs = [k \in 1 .. L - d |-> m.args[d + k]]
    BY <1>2, OutArgsIs DEF Piece
  <1> HIDE DEF L, d, outs
  <1>4. DOMAIN outs = 1 .. L - d /\ Len(outs) = L - d /\ \A i \in DOMAIN outs : outs[i] = m.args[d + i]
    BY <1>2, <1>3
  <1> QED  BY <1>2, <1>4 DEF L, d, outs

LEMMA NoResult ==
  ASSUME sdk \in Sdks, NEW m \in Range(sdk.methods), \A a \in Range(m.args) : ~OutNamed(a)
  PROVE  ResultForm(m) = "none"
  <1>1. FirstOut(m) = Len(m.args) + 1
    <2>1. m.args \in Seq(Range(m.args)) /\ \A k \in DOMAIN m.args : m.args[k] \in Range(m.args)
      BY FromFirstOut, SdkIs
    <2> QED  BY <2>1, FromFirstOut
  <1>2. OutArgs(m) = <<>>
    <2>1. Len(m.args) \in Nat
      BY FromFirstOut
    <2>2. Len(m.args) - FirstOut(m) + 1 = 0
      BY <1>1, <2>1
    <2> QED  BY <2>2, OutArgsIs DEF Piece
  <1> QED  BY <1>2, FormOfNone

(* What one generator takes for a member, the other takes for a result.    *)
LEMMA WidthsAgree ==
  ASSUME sdk \in Sdks, NEW m \in Range(sdk.methods)
  PROVE  /\ Widths(OutArgs(m)) \in [1 .. Len(m.args) - (FirstOut(m) - 1) -> 0 .. 2]
         /\ \A i \in DOMAIN OutArgs(m) :
              /\ Widths(OutArgs(m))[i] # 0
              /\ ResultWidths(m)[(FirstOut(m) - 1) + i] # 0
              => ResultWidths(m)[(FirstOut(m) - 1) + i] = Widths(OutArgs(m))[i]
  <1> DEFINE L == Len(m.args)
             d == FirstOut(m) - 1
             outs == OutArgs(m)
  <1>1. /\ d \in Nat /\ L - d \in Nat /\ DOMAIN outs = 1 .. L - d /\ Len(outs) = L - d
        /\ \A i \in DOMAIN outs : outs[i] = m.args[d + i]
    BY OutArgsAre
  <1>2. L \in Nat /\ DOMAIN m.args = 1 .. L /\ FirstOut(m) = d + 1
    <2>1. L \in Nat /\ DOMAIN m.args = 1 .. L /\ FirstOut(m) \in 1 .. L + 1
      BY FromFirstOut
    <2> QED  BY <2>1
  <1> HIDE DEF L, d, outs
  <1>3. Widths(outs) \in [1 .. L - d -> 0 .. 2]
    <2>1. \A i : MemberWidth(outs, i) = 0 \/ MemberWidth(outs, i) = 1 \/ MemberWidth(outs, i) = 2
      BY DEF MemberWidth
    <2>2. \A i \in DOMAIN outs : MemberWidth(outs, i) \in 0 .. 2
      BY <2>1
    <2> QED  BY <2>2, <1>1 DEF Widths
  <1>4. ASSUME NEW i \in DOMAIN outs, Widths(outs)[i] # 0, ResultWidths(m)[d + i] # 0
        PROVE  ResultWidths(m)[d + i] = Widths(outs)[i]
    <2>1. i \in 1 .. L - d /\ d + i \in 1 .. L /\ ~(d + i < d + 1) /\ (i < L - d <=> d + i < L)
      BY <1>1, <1>2
    <2>2. ResultWidths(m)[d + i] = ResultWidth(m, d + i) /\ Widths(outs)[i] = MemberWidth(outs, i)
      BY <2>1, <1>2 DEF ResultWidths, Widths
    <2>3. outs[i] = m.args[d + i] /\ (i < Len(outs) <=> d + i < Len(m.args))
      BY <2>1, <1>1 DEF L
    <2>4. i < Len(outs) => outs[i + 1] = m.args[(d + i) + 1]
      <3>1. i < L - d => i + 1 \in DOMAIN outs /\ d + (i + 1) = (d + i) + 1
        BY <2>1, <1>1
      <3> QED  BY <3>1, <1>1
    <2>5. IsText(outs, i) <=> IsText(m.args, d + i)
      BY <2>3, <2>4 DEF IsText
    <2>6. IsData(outs, i) <=> IsData(m.args, d + i)
      BY <2>3, <2>4 DEF IsData
    <2>7. MemberWidth(outs, i) = IF \/ IsText(outs, i) \/ IsData(outs, i)
                                    \/ Sort[outs[i].base] = "bool" THEN 2 ELSE 1
      BY <1>4, <2>2 DEF MemberWidth
    <2>8. ResultWidth(m, d + i) = IF \/ IsText(m.args, d + i) \/ IsData(m.args, d + i)
                                     \/ Sort[m.args[d + i].base] = "bool" THEN 2 ELSE 1
      BY <1>4, <2>2 DEF ResultWidth
    <2> QED  BY <2>2, <2>3, <2>5, <2>6, <2>7, <2>8
  <1> QED  BY <1>3, <1>4 DEF L, d, outs

(* Two loops with the same widths come to the same places, the one so many *)
(* places behind the other.                                                *)
Parallel(w, v, L, d, s, r) ==
    /\ InOrder(w, L - d, 1, s) /\ InOrder(v, L, d + 1, r)
    /\ \A i \in 1 .. L - d :
         /\ i \in Range(s) => w[i] \in {1, 2}
         /\ i \in Range(s) /\ d + i \in Range(r) => v[d + i] = w[i]

LEMMA LoopsAgree ==
  ASSUME NEW L \in Nat, NEW d \in Nat, L - d \in Nat,
         NEW w, NEW v, NEW s, NEW r, Parallel(w, v, L, d, s, r)
  PROVE  Len(s) = Len(r) /\ \A k \in 1 .. Len(s) : r[k] = d + s[k]
  <1>0. /\ InOrder(w, L - d, 1, s) /\ InOrder(v, L, d + 1, r)
        /\ \A i \in 1 .. L - d : i \in Range(s) => w[i] \in {1, 2}
        /\ \A i \in 1 .. L - d : i \in Range(s) /\ d + i \in Range(r) => v[d + i] = w[i]
    BY DEF Parallel
  <1>1. s \in Seq(1 .. L - d) /\ r \in Seq(d + 1 .. L)
    BY <1>0 DEF InOrder
  <1>2. Len(s) \in Nat /\ Len(r) \in Nat
    BY <1>1
  <1>3. ASSUME NEW k \in 1 .. Len(s)
        PROVE  s[k] \in 1 .. L - d /\ s[k] \in Range(s) /\ w[s[k]] \in {1, 2}
    <2>1. s[k] \in 1 .. L - d
      BY <1>1, ElementOfSeq
    <2>2. s[k] \in Range(s)
      BY <1>1 DEF Range
    <2> QED  BY <2>1, <2>2, <1>0
  <1>4. ASSUME NEW k \in 1 .. Len(r)
        PROVE  r[k] \in d + 1 .. L /\ r[k] \in Range(r)
    <2>1. r[k] \in d + 1 .. L
      BY <1>1, ElementOfSeq
    <2>2. r[k] \in Range(r)
      BY <1>1 DEF Range
    <2> QED  BY <2>1, <2>2
  <1>5. CASE L - d = 0
    <2>1. 1 > L - d /\ d + 1 > L
      BY <1>5
    <2>2. s = <<>> /\ r = <<>>
      BY <2>1, <1>0 DEF InOrder
    <2> QED  BY <2>2
  <1>6. CASE L - d # 0
    <2>1. ~(1 > L - d) /\ ~(d + 1 > L)
      BY <1>6
    <2>2. /\ s # <<>> /\ s[1] = 1 /\ r # <<>> /\ r[1] = d + 1
          /\ \A k \in 1 .. Len(s) : IF k = Len(s) THEN Skip(w, s[k]) > L - d ELSE s[k + 1] = Skip(w, s[k])
          /\ \A k \in 1 .. Len(r) : IF k = Len(r) THEN Skip(v, r[k]) > L ELSE r[k + 1] = Skip(v, r[k])
      BY <2>1, <1>0 DEF InOrder
    <2>3. Len(s) # 0 /\ Len(r) # 0
      BY <2>2, <1>1
    <2> DEFINE T == {k \in 1 .. Len(s) : k <= Len(r) /\ r[k] = d + s[k]}
    <2>4. ASSUME NEW k \in T
          PROVE  /\ k \in 1 .. Len(s) /\ k \in 1 .. Len(r) /\ r[k] = d + s[k]
                 /\ s[k] \in Nat /\ w[s[k]] \in {1, 2}
                 /\ Skip(w, s[k]) = s[k] + w[s[k]] /\ Skip(v, r[k]) = r[k] + w[s[k]]
      <3>1. k \in 1 .. Len(s) /\ k \in 1 .. Len(r) /\ r[k] = d + s[k]
        BY <1>2
      <3>2. s[k] \in 1 .. L - d /\ s[k] \in Range(s) /\ w[s[k]] \in {1, 2} /\ r[k] \in Range(r)
        BY <3>1, <1>3, <1>4
      <3>3. v[r[k]] = w[s[k]]
        BY <3>1, <3>2, <1>0
      <3> HIDE DEF T
      <3> QED  BY <3>1, <3>2, <3>3 DEF Skip
    <2>5. 1 \in T
      BY <2>2, <2>3, <1>2
    <2>6. ASSUME NEW k \in 1 .. Len(s), k \in T, k + 1 <= Len(s)
          PROVE  k + 1 \in T
      <3>1. k + 1 \in 1 .. Len(s) /\ k # Len(s)
        BY <2>6, <1>2
      <3>2. s[k + 1] = s[k] + w[s[k]] /\ s[k + 1] \in 1 .. L - d
        BY <2>2, <2>4, <2>6, <3>1, <1>3
      <3>3. Skip(v, r[k]) = d + s[k + 1]
        <4>1. r[k] = d + s[k] /\ s[k] \in Nat /\ w[s[k]] \in {1, 2} /\ Skip(v, r[k]) = r[k] + w[s[k]]
          BY <2>4, <2>6
        <4> HIDE DEF T
        <4> QED  BY <4>1, <3>2
      <3>4. ~(d + s[k + 1] > L)
        BY <3>2
      <3>5. k # Len(r) /\ r[k + 1] = d + s[k + 1]
        BY <2>2, <2>4, <2>6, <3>3, <3>4
      <3>6. k + 1 <= Len(r)
        BY <3>5, <2>4, <2>6, <1>2
      <3> QED  BY <3>1, <3>5, <3>6
    <2>7. \A k \in 1 .. Len(s) : k \in T /\ k + 1 <= Len(s) => k + 1 \in T
      BY <2>6
    <2>8. 1 .. Len(s) \subseteq T
      <3> HIDE DEF T
      <3> QED  BY <2>5, <2>7, <1>2, Upward
    <2>9. Len(s) \in T
      <3> HIDE DEF T
      <3> QED  BY <2>3, <2>8, <1>2
    <2>10. Len(s) = Len(r)
      <3> SUFFICES ASSUME Len(s) # Len(r)
                   PROVE  FALSE
        OBVIOUS
      <3> DEFINE k == Len(s)
      <3>1. /\ k \in 1 .. Len(s) /\ k \in 1 .. Len(r) /\ r[k] = d + s[k]
            /\ s[k] \in Nat /\ w[s[k]] \in {1, 2}
            /\ Skip(w, s[k]) = s[k] + w[s[k]] /\ Skip(v, r[k]) = r[k] + w[s[k]]
        BY <2>4, <2>9
      <3>2. s[k] + w[s[k]] > L - d
        BY <3>1, <2>2
      <3>3. k + 1 \in 1 .. Len(r) /\ r[k + 1] = r[k] + w[s[k]]
        BY <3>1, <2>2, <1>2
      <3>4. r[k + 1] \in d + 1 .. L
        BY <3>3, <1>4
      <3>5. r[k + 1] <= L /\ r[k + 1] = d + (s[k] + w[s[k]])
        BY <3>1, <3>3, <3>4
      <3>6. s[k] + w[s[k]] \in Nat
        BY <3>1
      <3> HIDE DEF k, T
      <3> QED  BY <3>2, <3>5, <3>6
    <2> QED  BY <2>8, <2>10
  <1> QED  BY <1>5, <1>6

LEMMA MembersAgree ==
  ASSUME sdk \in Sdks, NEW m \in Range(sdk.methods),
         \A i \in Range(Starts(Widths(OutArgs(m)), 1)) : Widths(OutArgs(m))[i] # 0,
         \A i \in Range(ResultStarts(m)) : ResultWidths(m)[i] # 0
  PROVE  WrittenMembers(m) = Members(m)
  <1> DEFINE L == Len(m.args)
             d == FirstOut(m) - 1
             outs == OutArgs(m)
             w == Widths(outs)
             v == ResultWidths(m)
             s == Starts(w, 1)
             r == ResultStarts(m)
  <1>1. /\ d \in Nat /\ L - d \in Nat /\ DOMAIN outs = 1 .. L - d
        /\ \A i \in DOMAIN outs : outs[i] = m.args[d + i]
    BY OutArgsAre
  <1>2. /\ w \in [1 .. L - d -> 0 .. 2]
        /\ \A i \in DOMAIN outs : w[i] # 0 /\ v[d + i] # 0 => v[d + i] = w[i]
    BY WidthsAgree
  <1>3. /\ L \in Nat /\ FirstOut(m) = d + 1 /\ d + 1 \in 1 .. L + 1
        /\ v \in [1 .. L -> 0 .. 2]
    <2>1. L \in Nat /\ FirstOut(m) \in 1 .. L + 1
      BY FromFirstOut
    <2> QED  BY <2>1, ResultWidthsAre
  <1>4. InOrder(w, L - d, 1, s)
    <2> HIDE DEF w, L, d
    <2>1. 1 \in 1 .. (L - d) + 1
      BY <1>1
    <2> QED  BY <2>1, <1>1, <1>2, StartsIs
  <1>5. InOrder(v, L, d + 1, r)
    <2>1. r = Starts(v, d + 1)
      BY <1>3 DEF ResultStarts
    <2> HIDE DEF v, L, d, r
    <2> QED  BY <2>1, <1>3, StartsIs
  <1>6. (\A i \in Range(s) : w[i] # 0) /\ (\A i \in Range(r) : v[i] # 0)
    OBVIOUS
  <1>7. /\ Members(m) = [k \in DOMAIN s |-> outs[s[k]].name]
        /\ WrittenMembers(m) = [k \in DOMAIN r |-> m.args[r[k]].name]
    BY DEF Members, WrittenMembers
  <1> HIDE DEF L, d, outs, w, v, s, r
  <1>8. \A i \in 1 .. L - d : i \in Range(s) => w[i] \in {1, 2}
    <2>1. \A i \in 1 .. L - d : w[i] \in 0 .. 2
      BY <1>2
    <2> QED  BY <2>1, <1>6
  <1>9. \A i \in 1 .. L - d : i \in Range(s) /\ d + i \in Range(r) => v[d + i] = w[i]
    BY <1>1, <1>2, <1>6
  <1>10. Len(s) = Len(r) /\ \A k \in 1 .. Len(s) : r[k] = d + s[k]
    <2>1. Parallel(w, v, L, d, s, r)
      BY <1>4, <1>5, <1>8, <1>9 DEF Parallel
    <2> QED  BY <2>1, <1>1, <1>3, LoopsAgree
  <1>11. s \in Seq(1 .. L - d) /\ r \in Seq(d + 1 .. L)
    BY <1>4, <1>5 DEF InOrder
  <1>12. DOMAIN s = DOMAIN r /\ DOMAIN s = 1 .. Len(s)
    BY <1>10, <1>11
  <1>13. ASSUME NEW k \in 1 .. Len(s)
         PROVE  outs[s[k]] = m.args[r[k]]
    <2>1. s[k] \in 1 .. L - d
      BY <1>11, ElementOfSeq
    <2> QED  BY <2>1, <1>1, <1>10
  <1> QED  BY <1>7, <1>12, <1>13

-----------------------------------------------------------------------------
(* The packed results of the first n methods, as their classes are         *)
(* declared, and that each class could be written.                         *)
ClassOf(m) == [of |-> m.name, members |-> Members(m)]
PackedUpTo(M, n) == {ClassOf(M[k]) : k \in {j \in 1 .. n : HasPackedResult(M[j])}}
Buildable(m) == \A i \in Range(Starts(Widths(OutArgs(m)), 1)) : Widths(OutArgs(m))[i] # 0
BuildableUpTo(M, n) == \A k \in 1 .. n : HasPackedResult(M[k]) => Buildable(M[k])

(* What the methods put in them: all members after the call, and one of    *)
(* them after the call that is made again.                                 *)
WholeResults(W) == {[of |-> w.of, members |-> w.members] : w \in {v \in W : ~v.again}}
PartOf(w, m) == HasPackedResult(m) /\ w.of = m.name /\ \E x \in Range(Members(m)) : w.members = <<x>>
Parts(W, M) == \A w \in W : w.again => \E m \in Range(M) : PartOf(w, m)

Agreed ==
    /\ step \in {"use", "inherit", "expand"} => declared = {}
    /\ step = "results" =>
          /\ declared = PackedUpTo(sdk.methods, at - 1)
          /\ BuildableUpTo(sdk.methods, at - 1)
    /\ step \in {"structs", "methods", "signals", "done"} =>
          /\ declared = PackedUpTo(sdk.methods, Len(sdk.methods))
          /\ BuildableUpTo(sdk.methods, Len(sdk.methods))
    /\ step \in {"use", "inherit", "expand", "results", "structs"} => written = {}
    /\ Parts(written, sdk.methods)
    /\ step = "methods" => WholeResults(written) = PackedUpTo(sdk.methods, at - 1)
    /\ step \in {"signals", "done"} => WholeResults(written) = PackedUpTo(sdk.methods, Len(sdk.methods))

LEMMA PackedNone ==
  /\ \A M : PackedUpTo(M, 0) = {} /\ BuildableUpTo(M, 0) /\ Parts({}, M)
  /\ WholeResults({}) = {}
  <1>1. 1 .. 0 = {}
    OBVIOUS
  <1> QED  BY <1>1 DEF PackedUpTo, BuildableUpTo, Parts, WholeResults

LEMMA PackedOneMore ==
  ASSUME NEW M, NEW n \in Nat \ {0}
  PROVE  /\ HasPackedResult(M[n]) => PackedUpTo(M, n) = PackedUpTo(M, n - 1) \cup {ClassOf(M[n])}
         /\ ~HasPackedResult(M[n]) => PackedUpTo(M, n) = PackedUpTo(M, n - 1)
         /\ BuildableUpTo(M, n - 1) /\ (HasPackedResult(M[n]) => Buildable(M[n]))
              => BuildableUpTo(M, n)
  <1>1. \A k : k \in 1 .. n <=> k \in 1 .. n - 1 \/ k = n
    OBVIOUS
  <1>2. \A c : c \in PackedUpTo(M, n) <=>
               \E k \in 1 .. n : HasPackedResult(M[k]) /\ c = ClassOf(M[k])
    BY Zenon DEF PackedUpTo
  <1>3. \A c : c \in PackedUpTo(M, n - 1) <=>
               \E k \in 1 .. n - 1 : HasPackedResult(M[k]) /\ c = ClassOf(M[k])
    BY Zenon DEF PackedUpTo
  <1>4. \A c : c \in PackedUpTo(M, n) <=>
               c \in PackedUpTo(M, n - 1) \/ (HasPackedResult(M[n]) /\ c = ClassOf(M[n]))
    BY <1>1, <1>2, <1>3, Zenon
  <1>5. BuildableUpTo(M, n - 1) /\ (HasPackedResult(M[n]) => Buildable(M[n])) => BuildableUpTo(M, n)
    BY <1>1, Zenon DEF BuildableUpTo
  <1> QED  BY <1>4, <1>5

(* The two generators on one method: whether there is a packed result, and *)
(* what is put in it.                                                      *)
LEMMA WrittenAsDeclared ==
  ASSUME sdk \in Sdks, NEW m \in Range(sdk.methods),
         HasPackedResult(m) => Buildable(m),
         IsWritten(m), ~MethodFails(m), WriteMethod(m)
  PROVE  /\ WholeResults(written') = IF HasPackedResult(m) THEN WholeResults(written) \cup {ClassOf(m)}
                              ELSE WholeResults(written)
         /\ \A w \in written' : w.again => w \in written \/ PartOf(w, m)
  <1>1. HasPackedResult(m) <=> ResultForm(m) = "packed"
    BY DEF IsWritten, HasPackedResult
  <1>2. CASE ResultForm(m) # "packed"
    BY <1>1, <1>2 DEF WriteMethod
  <1>3. CASE ResultForm(m) = "packed"
    <2> DEFINE all == [of |-> m.name, members |-> WrittenMembers(m), again |-> FALSE]
               one(j) == [of |-> m.name, members |-> <<WrittenMembers(m)[j]>>, again |-> TRUE]
    <2>1. \A w : w \in written' <=> \/ w \in written
                                    \/ w = all
                                    \/ \E j \in Retries(m) : w = one(j)
      <3>1. written' = written \cup {all} \cup {one(j) : j \in Retries(m)}
        BY <1>3 DEF WriteMethod
      <3> HIDE DEF all, one
      <3> QED  BY <3>1, Zenon
    <2>2. \A i \in Range(Starts(Widths(OutArgs(m)), 1)) : Widths(OutArgs(m))[i] # 0
      BY <1>1, <1>3 DEF Buildable
    <2>3. \A i \in Range(ResultStarts(m)) : ResultWidths(m)[i] # 0
      <3>1. CASE FirstOut(m) <= Len(m.args)
        BY <1>3, <3>1 DEF MethodFails
      <3>2. CASE ~(FirstOut(m) <= Len(m.args))
        <4>1. Len(m.args) \in Nat /\ FirstOut(m) \in 1 .. Len(m.args) + 1
          BY FromFirstOut
        <4>2. InOrder(ResultWidths(m), Len(m.args), FirstOut(m), ResultStarts(m))
          BY <4>1, ResultWidthsAre, StartsIs DEF ResultStarts
        <4>3. ResultStarts(m) = <<>>
          BY <3>2, <4>1, <4>2 DEF InOrder
        <4> QED  BY <4>3 DEF Range
      <3> QED  BY <3>1, <3>2
    <2>4. WrittenMembers(m) = Members(m)
      BY <2>2, <2>3, MembersAgree
    <2>5. \A j \in Retries(m) : WrittenMembers(m)[j] \in Range(Members(m))
      <3>1. \A j \in Retries(m) : j \in DOMAIN WrittenMembers(m)
        BY DEF Retries, WrittenMembers
      <3> QED  BY <3>1, <2>4 DEF Range
    <2>6. \A j \in Retries(m) : PartOf(one(j), m) /\ one(j).again
      <3>1. HasPackedResult(m)
        BY <1>1, <1>3
      <3> QED  BY <2>5, <3>1 DEF PartOf
    <2>7. ~all.again /\ [of |-> all.of, members |-> all.members] = ClassOf(m)
      BY <2>4 DEF ClassOf
    <2> HIDE DEF all, one
    <2>8. \A c : c \in WholeResults(written') <=> c \in WholeResults(written) \/ c = ClassOf(m)
      <3>1. \A W, c : c \in WholeResults(W) <=> \E w \in W : ~w.again /\ c = [of |-> w.of, members |-> w.members]
        BY Zenon DEF WholeResults
      <3> SUFFICES ASSUME NEW c
                   PROVE  c \in WholeResults(written') <=> c \in WholeResults(written) \/ c = ClassOf(m)
        OBVIOUS
      <3>2. c \in WholeResults(written) => c \in WholeResults(written')
        <4>1. ASSUME NEW w \in written, ~w.again /\ c = [of |-> w.of, members |-> w.members]
              PROVE  c \in WholeResults(written')
          <5>1. w \in written'
            BY <2>1, Zenon
          <5> QED  BY <4>1, <5>1, <3>1, Zenon
        <4> QED  BY <4>1, <3>1, Zenon
      <3>3. c = ClassOf(m) => c \in WholeResults(written')
        <4>1. all \in written'
          BY <2>1, Zenon
        <4> QED  BY <4>1, <2>7, <3>1, Zenon
      <3>4. c \in WholeResults(written') => c \in WholeResults(written) \/ c = ClassOf(m)
        <4>1. ASSUME NEW w \in written', ~w.again /\ c = [of |-> w.of, members |-> w.members]
              PROVE  c \in WholeResults(written) \/ c = ClassOf(m)
          <5>1. CASE w \in written
            BY <4>1, <5>1, <3>1, Zenon
          <5>2. CASE w = all
            BY <4>1, <5>2, <2>7
          <5>3. CASE \E j \in Retries(m) : w = one(j)
            BY <4>1, <5>3, <2>6
          <5> QED  BY <2>1, <5>1, <5>2, <5>3, Zenon
        <4> QED  BY <4>1, <3>1, Zenon
      <3> QED  BY <3>2, <3>3, <3>4, Zenon
    <2>9. WholeResults(written') = WholeResults(written) \cup {ClassOf(m)}
      BY <2>8, Zenon
    <2>10. \A w \in written' : w.again => w \in written \/ PartOf(w, m)
      BY <2>1, <2>6, <2>7, Zenon
    <2> QED  BY <1>1, <1>3, <2>9, <2>10
  <1> QED  BY <1>2, <1>3

LEMMA NotWrittenNotDeclared ==
  ASSUME sdk \in Sdks, NEW m \in Range(sdk.methods), ~IsWritten(m)
  PROVE  ~HasPackedResult(m)
  <1>1. \/ m.name[1] \in {"AddNotify", "RemoveNotify"} \/ Last(m.name) = "interface"
        \/ Last(m.name) = "release" \/ m.deprecated
    BY DEF IsWritten, IsBuiltInNotify, IsAddNotify
  <1>2. CASE m.name[1] \in {"AddNotify", "RemoveNotify"} \/ Last(m.name) = "interface"
    <2>1. \A a \in Range(m.args) : ~OutNamed(a)
      BY <1>2, ArgumentsAssumption
    <2>2. ResultForm(m) = "none"
      BY <2>1, NoResult
    <2> QED  BY <2>2 DEF HasPackedResult
  <1> QED  BY <1>1, <1>2 DEF HasPackedResult

LEMMA AgreedResults ==
  ASSUME Typed, Agreed, GenPackedResult, ~Fail
  PROVE  Agreed'
  <1> DEFINE m == sdk.methods[at]
             L == Len(sdk.methods)
  <1>1. /\ step = "results" /\ Through(sdk.methods, "structs")
        /\ sdk' = sdk /\ written' = written
    BY DEF GenPackedResult
  <1>2. HasPackedResult(m) => Buildable(m)
    BY DEF GenPackedResult, Buildable
  <1>3. declared' = IF HasPackedResult(m) THEN declared \cup {ClassOf(m)} ELSE declared
    BY DEF GenPackedResult, ClassOf
  <1>4. L \in Nat \ {0} /\ at \in 1 .. L
    BY <1>1, SdkIs DEF Typed, Placed
  <1>5. /\ declared = PackedUpTo(sdk.methods, at - 1) /\ BuildableUpTo(sdk.methods, at - 1)
        /\ written = {} /\ Parts(written, sdk.methods)
    BY <1>1 DEF Agreed
  <1>6. at \in Nat \ {0}
    BY <1>4
  <1> HIDE DEF m, L
  <1>7. declared' = PackedUpTo(sdk.methods, at) /\ BuildableUpTo(sdk.methods, at)
    BY <1>2, <1>3, <1>5, <1>6, PackedOneMore DEF m
  <1>8. \/ step' = "results" /\ at' = at + 1
        \/ step' = "structs" /\ at = L
    BY <1>1, <1>4, ThroughIs DEF L
  <1>9. CASE step' = "results" /\ at' = at + 1
    <2>1. at' - 1 = at
      BY <1>6, <1>9
    <2> QED  BY <1>1, <1>5, <1>7, <1>9, <2>1 DEF Agreed
  <1>10. CASE step' = "structs" /\ at = L
    BY <1>1, <1>5, <1>7, <1>10 DEF Agreed, L
  <1> QED  BY <1>8, <1>9, <1>10

LEMMA AgreedMethods ==
  ASSUME Typed, Agreed, GenMethod, ~Fail
  PROVE  Agreed'
  <1> DEFINE m == sdk.methods[at]
             L == Len(sdk.methods)
  <1>1. step = "methods" /\ Through(sdk.methods, "signals") /\ sdk' = sdk /\ declared' = declared
    BY GenMethodRest DEF GenMethod
  <1>2. L \in Nat \ {0} /\ at \in 1 .. L /\ sdk \in Sdks /\ m \in Range(sdk.methods)
    BY <1>1, SdkIs DEF Typed, Placed
  <1>3. /\ declared = PackedUpTo(sdk.methods, L) /\ BuildableUpTo(sdk.methods, L)
        /\ WholeResults(written) = PackedUpTo(sdk.methods, at - 1) /\ Parts(written, sdk.methods)
    BY <1>1 DEF Agreed
  <1>4. HasPackedResult(m) => Buildable(m)
    BY <1>2, <1>3 DEF BuildableUpTo
  <1>5. \/ IsWritten(m) /\ ~MethodFails(m) /\ WriteMethod(m)
        \/ ~IsWritten(m) /\ written' = written
    BY DEF GenMethod, SetUpNotify
  <1> HIDE DEF m, L
  <1>6. /\ WholeResults(written') = IF HasPackedResult(m) THEN WholeResults(written) \cup {ClassOf(m)}
                             ELSE WholeResults(written)
        /\ \A w \in written' : w.again => w \in written \/ PartOf(w, m)
    <2>1. CASE IsWritten(m) /\ ~MethodFails(m) /\ WriteMethod(m)
      BY <1>2, <1>4, <2>1, WrittenAsDeclared
    <2>2. CASE ~IsWritten(m) /\ written' = written
      BY <1>2, <2>2, NotWrittenNotDeclared
    <2> QED  BY <1>5, <2>1, <2>2
  <1>7. at \in Nat \ {0}
    BY <1>2
  <1>8. WholeResults(written') = PackedUpTo(sdk.methods, at)
    BY <1>3, <1>6, <1>7, PackedOneMore DEF m
  <1>12. Parts(written', sdk.methods)
    BY <1>2, <1>3, <1>6 DEF Parts
  <1>9. \/ step' = "methods" /\ at' = at + 1
        \/ step' = "signals" /\ at = L
    BY <1>1, <1>2, ThroughIs DEF L
  <1>10. CASE step' = "methods" /\ at' = at + 1
    <2>1. at' - 1 = at
      BY <1>7, <1>10
    <2> QED  BY <1>1, <1>3, <1>8, <1>10, <1>12, <2>1 DEF Agreed, L
  <1>11. CASE step' = "signals" /\ at = L
    BY <1>1, <1>3, <1>8, <1>11, <1>12 DEF Agreed, L
  <1> QED  BY <1>9, <1>10, <1>11

LEMMA AgreedStep == Typed /\ Agreed /\ [Next]_vars => Agreed'
  <1> SUFFICES ASSUME Typed, Agreed, [Next]_vars
               PROVE  Agreed'
    OBVIOUS
  <1>1. CASE UNCHANGED vars
    BY <1>1 DEF vars, Agreed
  <1>2. CASE Fail
    BY <1>2 DEF Fail, output, Agreed
  <1>3. CASE Preparing
    <2>1. declared = {} /\ written = {}
      BY <1>3 DEF Preparing, RequireByUse, RequireByOwner, Expand, Agreed
    <2>2. UNCHANGED <<sdk, declared, written>>
      BY <1>3 DEF Preparing, RequireByUse, RequireByOwner, Expand, output
    <2>3. \/ step' \in {"inherit", "expand"}
          \/ step' = "results" /\ at' = 1
      BY <1>3 DEF Preparing, RequireByUse, RequireByOwner, Expand, Through
    <2>4. at' = 1 => at' - 1 = 0
      OBVIOUS
    <2> QED  BY <2>1, <2>2, <2>3, <2>4, PackedNone DEF Agreed
  <1>4. CASE GenPackedResult /\ ~Fail
    BY <1>4, AgreedResults
  <1>5. CASE GenStruct /\ ~Fail
    <2>1. step = "structs" /\ Through(sdk.structs, "methods") /\ UNCHANGED <<sdk, declared, written>>
      BY <1>5 DEF GenStruct
    <2>2. step' = "structs" \/ (step' = "methods" /\ at' = 1)
      BY <2>1 DEF Through
    <2>3. at' = 1 => at' - 1 = 0
      OBVIOUS
    <2>4. /\ written = {} /\ Parts(written, sdk.methods)
          /\ declared = PackedUpTo(sdk.methods, Len(sdk.methods))
          /\ BuildableUpTo(sdk.methods, Len(sdk.methods))
      BY <2>1 DEF Agreed
    <2> QED  BY <2>1, <2>2, <2>3, <2>4, PackedNone DEF Agreed
  <1>6. CASE GenMethod /\ ~Fail
    BY <1>6, AgreedMethods
  <1>7. CASE GenSignals
    BY <1>7 DEF GenSignals, Agreed
  <1> QED  BY <1>1, <1>2, <1>3, <1>4, <1>5, <1>6, <1>7 DEF Next, Done

LEMMA AgreedWritten == Typed /\ Agreed => ResultsWritten
  <1> SUFFICES ASSUME Typed, Agreed, step \in {"signals", "done"}
               PROVE  /\ WholeResults(written) = declared
                      /\ \A w \in written : w.again =>
                           \E d \in declared : w.of = d.of /\ \E n \in Range(d.members) : w.members = <<n>>
    BY DEF ResultsWritten, WholeResults
  <1>1. /\ declared = PackedUpTo(sdk.methods, Len(sdk.methods))
        /\ WholeResults(written) = PackedUpTo(sdk.methods, Len(sdk.methods))
        /\ Parts(written, sdk.methods)
    BY DEF Agreed
  <1>2. ASSUME NEW m \in Range(sdk.methods), HasPackedResult(m)
        PROVE  ClassOf(m) \in declared
    <2>1. DOMAIN sdk.methods = 1 .. Len(sdk.methods)
      BY SdkIs DEF Typed
    <2>2. PICK k \in 1 .. Len(sdk.methods) : sdk.methods[k] = m
      BY <2>1 DEF Range
    <2> QED  BY <1>1, <1>2, <2>2, Zenon DEF PackedUpTo
  <1>3. ASSUME NEW w \in written, w.again
        PROVE  \E d \in declared : w.of = d.of /\ \E n \in Range(d.members) : w.members = <<n>>
    <2>1. PICK m \in Range(sdk.methods) : PartOf(w, m)
      BY <1>1, <1>3 DEF Parts
    <2>2. ClassOf(m) \in declared /\ w.of = m.name /\ \E x \in Range(Members(m)) : w.members = <<x>>
      BY <1>2, <2>1 DEF PartOf
    <2>3. ClassOf(m).of = m.name /\ ClassOf(m).members = Members(m)
      BY DEF ClassOf
    <2> QED  BY <2>2, <2>3
  <1> QED  BY <1>1, <1>3

(* A packed result is filled in by its method just as its class declares   *)
(* it, for every list of arguments: PackedResultGenerator and              *)
(* _make_packed_result, which go through the out arguments separately,     *)
(* agree on which methods have one and on its members, and what is put in  *)
(* it after the call that is made again is one of those.                   *)
THEOREM ResultsWrittenEver == Spec => []ResultsWritten
  <1>1. Init => Agreed
    BY PackedNone DEF Init, TypesInit, Agreed
  <1>2. Typed /\ Agreed /\ [Next]_vars => Agreed'
    BY AgreedStep
  <1>3. Typed /\ Agreed => ResultsWritten
    BY AgreedWritten
  <1> QED  BY <1>1, <1>2, <1>3, TypedEver, PTL DEF Spec

-----------------------------------------------------------------------------
(* Elements of a concatenation, and of one of many sequences.              *)
LEMMA ConcatRange ==
  ASSUME NEW S, NEW s \in Seq(S), NEW t \in Seq(S)
  PROVE  \A x : x \in Range(s \o t) <=> x \in Range(s) \/ x \in Range(t)
  <1> DEFINE c == s \o t
  <1>1. /\ c \in Seq(S) /\ Len(c) = Len(s) + Len(t)
        /\ \A k \in 1 .. Len(s) + Len(t) : c[k] = IF k <= Len(s) THEN s[k] ELSE t[k - Len(s)]
    BY ConcatProperties
  <1>2. Len(s) \in Nat /\ Len(t) \in Nat
    OBVIOUS
  <1>3. DOMAIN c = 1 .. Len(s) + Len(t) /\ DOMAIN s = 1 .. Len(s) /\ DOMAIN t = 1 .. Len(t)
    BY <1>1
  <1> HIDE DEF c
  <1>4. ASSUME NEW k \in 1 .. Len(s)
        PROVE  c[k] = s[k] /\ k \in DOMAIN c
    BY <1>1, <1>2, <1>3
  <1>5. ASSUME NEW k \in 1 .. Len(t)
        PROVE  c[Len(s) + k] = t[k] /\ Len(s) + k \in DOMAIN c
    <2>1. Len(s) + k \in 1 .. Len(s) + Len(t) /\ ~(Len(s) + k <= Len(s)) /\ (Len(s) + k) - Len(s) = k
      BY <1>2
    <2> QED  BY <2>1, <1>1, <1>3
  <1>6. ASSUME NEW k \in DOMAIN c
        PROVE  c[k] \in Range(s) \/ c[k] \in Range(t)
    <2>1. CASE k <= Len(s)
      <3>1. k \in DOMAIN s /\ c[k] = s[k]
        BY <2>1, <1>1, <1>2, <1>3
      <3> QED  BY <3>1 DEF Range
    <2>2. CASE ~(k <= Len(s))
      <3>1. k - Len(s) \in DOMAIN t /\ c[k] = t[k - Len(s)]
        BY <2>2, <1>1, <1>2, <1>3
      <3> QED  BY <3>1 DEF Range
    <2> QED  BY <2>1, <2>2
  <1>7. ASSUME NEW x, x \in Range(s) \/ x \in Range(t)
        PROVE  x \in Range(c)
    <2>1. CASE x \in Range(s)
      <3>1. PICK k \in DOMAIN s : s[k] = x
        BY <2>1 DEF Range
      <3> QED  BY <3>1, <1>3, <1>4 DEF Range
    <2>2. CASE x \in Range(t)
      <3>1. PICK k \in DOMAIN t : t[k] = x
        BY <2>2 DEF Range
      <3>2. c[Len(s) + k] = x /\ Len(s) + k \in DOMAIN c
        BY <3>1, <1>3, <1>5
      <3> QED  BY <3>2 DEF Range
    <2> QED  BY <1>7, <2>1, <2>2
  <1>8. \A x \in Range(c) : x \in Range(s) \/ x \in Range(t)
    BY <1>6 DEF Range
  <1> QED  BY <1>7, <1>8 DEF c

LEMMA ConcatInjective ==
  ASSUME NEW S, NEW s \in Seq(S), NEW t \in Seq(S),
         IsInjective(s), IsInjective(t), \A x \in Range(s) : x \notin Range(t)
  PROVE  IsInjective(s \o t)
  <1> DEFINE c == s \o t
  <1>1. /\ c \in Seq(S) /\ Len(c) = Len(s) + Len(t)
        /\ \A k \in 1 .. Len(s) + Len(t) : c[k] = IF k <= Len(s) THEN s[k] ELSE t[k - Len(s)]
    BY ConcatProperties
  <1>2. Len(s) \in Nat /\ Len(t) \in Nat
    OBVIOUS
  <1>3. DOMAIN c = 1 .. Len(s) + Len(t) /\ DOMAIN s = 1 .. Len(s) /\ DOMAIN t = 1 .. Len(t)
    BY <1>1
  <1> HIDE DEF c
  <1>4. /\ \A a, b \in 1 .. Len(s) : s[a] = s[b] => a = b
        /\ \A a, b \in 1 .. Len(t) : t[a] = t[b] => a = b
    BY <1>3 DEF IsInjective
  <1>5. \A a \in 1 .. Len(s) : \A b \in 1 .. Len(t) : s[a] # t[b]
    BY <1>3 DEF Range
  <1>6. ASSUME NEW a \in 1 .. Len(s) + Len(t), NEW b \in 1 .. Len(s) + Len(t), c[a] = c[b]
        PROVE  a = b
    <2>1. CASE a <= Len(s) /\ b <= Len(s)
      BY <1>1, <1>2, <1>4, <1>6, <2>1
    <2>2. CASE a <= Len(s) /\ ~(b <= Len(s))
      <3>1. a \in 1 .. Len(s) /\ b - Len(s) \in 1 .. Len(t) /\ c[a] = s[a] /\ c[b] = t[b - Len(s)]
        BY <1>1, <1>2, <2>2
      <3> QED  BY <3>1, <1>5, <1>6
    <2>3. CASE ~(a <= Len(s)) /\ b <= Len(s)
      <3>1. b \in 1 .. Len(s) /\ a - Len(s) \in 1 .. Len(t) /\ c[b] = s[b] /\ c[a] = t[a - Len(s)]
        BY <1>1, <1>2, <2>3
      <3> QED  BY <3>1, <1>5, <1>6
    <2>4. CASE ~(a <= Len(s)) /\ ~(b <= Len(s))
      <3>1. /\ a - Len(s) \in 1 .. Len(t) /\ b - Len(s) \in 1 .. Len(t)
            /\ c[a] = t[a - Len(s)] /\ c[b] = t[b - Len(s)]
        BY <1>1, <1>2, <2>4
      <3>2. a - Len(s) = b - Len(s)
        BY <3>1, <1>4, <1>6
      <3> QED  BY <3>2, <1>2
    <2> QED  BY <2>1, <2>2, <2>3, <2>4
  <1> QED  BY <1>3, <1>6 DEF IsInjective, c

(* What is in the lists is in the list of all of them, and once if it is   *)
(* in one of them and there once.                                          *)
Apart(seqs, n) ==
    /\ \A i \in 1 .. n : IsInjective(seqs[i])
    /\ \A i, j \in 1 .. n : i # j => \A x \in Range(seqs[i]) : x \notin Range(seqs[j])

LEMMA FlattenAll ==
  ASSUME NEW seqs, NEW n \in Nat \ {0}, NEW S, Lists(seqs, n, S)
  PROVE  /\ \A x : x \in Range(FlattenSeq(seqs)) <=> \E i \in 1 .. n : x \in Range(seqs[i])
         /\ Apart(seqs, n) => IsInjective(FlattenSeq(seqs))
  <1>1. Len(seqs) = n /\ \A i \in 1 .. n : seqs[i] \in Seq(S)
    BY DEF Lists
  <1>2. PICK g : Flattening(seqs, n, S, g) /\ FlattenSeq(seqs) = g[n]
    BY FlattenExists
  <1>3. g \in [1 .. n -> Seq(S)] /\ \A i \in 1 .. n : g[i] = IF i = 1 THEN seqs[i] ELSE g[i - 1] \o seqs[i]
    BY <1>2 DEF Flattening
  <1> DEFINE T == {k \in 1 .. n :
                     /\ \A x : x \in Range(g[k]) <=> \E i \in 1 .. k : x \in Range(seqs[i])
                     /\ Apart(seqs, n) => IsInjective(g[k])}
  <1>4. 1 \in T
    <2>0. 1 \in 1 .. n
      OBVIOUS
    <2>1. 1 \in 1 .. n /\ g[1] = seqs[1]
      BY <2>0, <1>3, Zenon
    <2>4. \A i : i \in 1 .. 1 <=> i = 1
      OBVIOUS
    <2>2. Apart(seqs, n) => IsInjective(seqs[1])
      BY <2>1 DEF Apart
    <2>3. \A x : x \in Range(g[1]) <=> \E i \in 1 .. 1 : x \in Range(seqs[i])
      BY <2>1, <2>4, Zenon
    <2> QED  BY <2>1, <2>2, <2>3
  <1>5. ASSUME NEW k \in 1 .. n, k \in T, k + 1 <= n
        PROVE  k + 1 \in T
    <2>1. /\ k + 1 \in 1 .. n /\ k + 1 # 1 /\ (k + 1) - 1 = k
          /\ \A i : i \in 1 .. k + 1 <=> i \in 1 .. k \/ i = k + 1
      BY <1>5
    <2>2. g[k + 1] = g[k] \o seqs[k + 1] /\ g[k] \in Seq(S) /\ seqs[k + 1] \in Seq(S)
      BY <2>1, <1>1, <1>3
    <2>3. /\ \A x : x \in Range(g[k]) <=> \E i \in 1 .. k : x \in Range(seqs[i])
          /\ Apart(seqs, n) => IsInjective(g[k])
      BY <1>5
    <2> HIDE DEF T
    <2>4. \A x : x \in Range(g[k + 1]) <=> x \in Range(g[k]) \/ x \in Range(seqs[k + 1])
      BY <2>2, ConcatRange
    <2>5. \A x : x \in Range(g[k + 1]) <=> \E i \in 1 .. k + 1 : x \in Range(seqs[i])
      BY <2>1, <2>3, <2>4, Zenon
    <2>6. Apart(seqs, n) => IsInjective(g[k + 1])
      <3> SUFFICES ASSUME Apart(seqs, n)
                   PROVE  IsInjective(g[k + 1])
        OBVIOUS
      <3>1. IsInjective(g[k]) /\ IsInjective(seqs[k + 1])
        BY <2>1, <2>3 DEF Apart
      <3>2. \A i \in 1 .. k : i \in 1 .. n /\ i # k + 1
        BY <2>1
      <3>3. \A x \in Range(g[k]) : x \notin Range(seqs[k + 1])
        BY <2>1, <2>3, <3>2, Zenon DEF Apart
      <3> QED  BY <2>2, <3>1, <3>3, ConcatInjective
    <2> QED  BY <2>1, <2>5, <2>6 DEF T
  <1>6. \A k \in 1 .. n : k \in T /\ k + 1 <= n => k + 1 \in T
    BY <1>5
  <1>7. n \in T
    <2> HIDE DEF T
    <2>1. 1 .. n \subseteq T
      BY <1>4, <1>6, Upward
    <2> QED  BY <2>1
  <1> QED  BY <1>2, <1>7

-----------------------------------------------------------------------------
(* Names: the first words of similar ones, the last of a union's type.     *)
LEMMA SimilarFirst ==
  ASSUME NEW n, NEW m, n \in Seq(Range(n)) \ {<<>>}, m \in Seq(Range(m)) \ {<<>>}, Similar(n, m)
  PROVE  n[1] = m[1]
  <1>1. Len(n) \in Nat \ {0} /\ Len(m) \in Nat \ {0}
    BY EmptySeq
  <1>2. 1 \in 1 .. 2 /\ 1 <= Len(n) /\ 1 <= Len(m)
    BY <1>1
  <1> QED  BY <1>2 DEF Similar

LEMMA TypeNamed ==
  ASSUME NEW n, n \in Seq(Range(n)) \ {<<>>}
  PROVE  /\ ~CountNamed(n \o <<"type">>) /\ n \o <<"type">> # n
         /\ \A m : m \in Seq(Range(m)) \ {<<>>} /\ m \o <<"type">> = n \o <<"type">> => m = n
  <1> DEFINE t == n \o <<"type">>
             S == Range(n) \cup {"type"}
  <1>1. n \in Seq(S) /\ <<"type">> \in Seq(S)
    BY SeqMonotonic
  <1>2. Len(t) = Len(n) + 1 /\ t[Len(n) + 1] = "type" /\ Len(n) \in Nat
    <2>1. Len(<<"type">>) = 1 /\ <<"type">>[1] = "type" /\ Len(n) \in Nat
      BY <1>1
    <2>2. /\ Len(t) = Len(n) + Len(<<"type">>)
          /\ \A i \in 1 .. Len(n) + Len(<<"type">>) :
               t[i] = IF i <= Len(n) THEN n[i] ELSE <<"type">>[i - Len(n)]
      BY <1>1, ConcatProperties
    <2> HIDE DEF t, S
    <2>3. Len(n) + 1 \in 1 .. Len(n) + 1 /\ ~(Len(n) + 1 <= Len(n)) /\ (Len(n) + 1) - Len(n) = 1
      BY <2>1
    <2> QED  BY <2>1, <2>2, <2>3
  <1>3. ~CountNamed(t)
    <2> HIDE DEF t
    <2> QED  BY <1>2 DEF CountNamed, EndsIn
  <1>4. t # n
    <2> HIDE DEF t
    <2> QED  BY <1>2
  <1>5. ASSUME NEW m, m \in Seq(Range(m)) \ {<<>>}, m \o <<"type">> = n \o <<"type">>
        PROVE  m = n
    <2> DEFINE R == Range(n) \cup Range(m) \cup {"type"}
    <2>1. n \in Seq(R) /\ m \in Seq(R) /\ <<"type">> \in Seq(R)
      <3>1. Range(n) \subseteq R /\ Range(m) \subseteq R /\ {"type"} \subseteq R
        OBVIOUS
      <3>2. <<"type">> \in Seq({"type"}) /\ m \in Seq(Range(m)) /\ n \in Seq(Range(n))
        BY <1>5
      <3> HIDE DEF R
      <3> QED  BY <3>1, <3>2, SeqMonotonic
    <2>2. \A X : \A s, r, v \in Seq(X) : s \o v = r \o v => s = r
      BY ConcatSimplifications
    <2> QED  BY <2>1, <2>2, <1>5, Zenon
  <1> QED  BY <1>3, <1>4, <1>5

(* find_count_field: what it finds is named like a count, and its name     *)
(* begins as the array's does; a similar one comes before.                 *)
LEMMA CountFieldIs ==
  ASSUME NEW fs, NEW L \in Nat, DOMAIN fs = 1 .. L, NEW name, CountField(fs, name) # None
  PROVE  \E k \in DOMAIN fs :
           /\ CountField(fs, name) = fs[k].name
           /\ fs[k].name # name /\ CountNamed(fs[k].name)
           /\ Similar(fs[k].name, name) \/ fs[k].name[1] = name[1]
           /\ (\E j \in DOMAIN fs : fs[j].name # name /\ CountNamed(fs[j].name)
                                     /\ Similar(fs[j].name, name))
                => Similar(fs[k].name, name)
  <1> DEFINE counts == {k \in DOMAIN fs : fs[k].name # name /\ CountNamed(fs[k].name)}
             similar == {k \in counts : Similar(fs[k].name, name)}
             near == {k \in counts : fs[k].name[1] = name[1]}
  <1>1. CountField(fs, name) = IF similar # {} THEN fs[Min(similar)].name
                               ELSE IF Cardinality(near) = 1 THEN fs[Min(near)].name ELSE None
    BY DEF CountField
  <1>2. similar \in SUBSET Nat /\ near \in SUBSET Nat
    OBVIOUS
  <1>3. CASE similar # {}
    <2>1. Min(similar) \in similar
      <3> HIDE DEF similar
      <3> QED  BY <1>2, <1>3, MinIs
    <2> DEFINE k == Min(similar)
    <2>2. CountField(fs, name) = fs[k].name
      BY <1>1, <1>3
    <2> HIDE DEF k
    <2> QED  BY <2>1, <2>2 DEF k
  <1>4. CASE similar = {} /\ Cardinality(near) = 1
    <2>1. near # {}
      <3>1. Cardinality({}) = 0
        BY FS_EmptySet
      <3>2. Cardinality(near) = 1
        BY <1>4
      <3> HIDE DEF near, similar
      <3>3. near = {} => Cardinality(near) = 0
        BY <3>1, Zenon
      <3> QED  BY <3>2, <3>3
    <2>2. Min(near) \in near
      <3> HIDE DEF near
      <3> QED  BY <1>2, <2>1, MinIs
    <2> DEFINE k == Min(near)
    <2>3. CountField(fs, name) = fs[k].name
      BY <1>1, <1>4
    <2>4. ~\E j \in DOMAIN fs : fs[j].name # name /\ CountNamed(fs[j].name)
                                     /\ Similar(fs[j].name, name)
      BY <1>4
    <2> HIDE DEF k
    <2> QED  BY <2>2, <2>3, <2>4 DEF k
  <1>5. similar # {} \/ (similar = {} /\ Cardinality(near) = 1)
    <2> HIDE DEF similar, near
    <2> QED  BY <1>1
  <1> QED  BY <1>3, <1>4, <1>5

(* A struct's fields.                                                      *)
LEMMA FieldsAre ==
  ASSUME sdk \in Sdks, NEW s \in Structs
  PROVE  /\ Len(Fields(s)) \in Nat /\ DOMAIN Fields(s) = 1 .. Len(Fields(s))
         /\ \A k \in DOMAIN Fields(s) : Fields(s)[k] \in Range(Fields(s))
         /\ \A f \in Range(Fields(s)) : \E k \in DOMAIN Fields(s) : Fields(s)[k] = f
         /\ WellNamed(Fields(s))
         /\ \A f, g \in Range(Fields(s)) : f.name = g.name => f = g
         /\ \A f \in Range(Fields(s)) : f.ptr \in Nat
  <1>1. Fields(s) \in Seq(Range(Fields(s))) /\ WellNamed(Fields(s))
    BY StructIs, SdkAssumption, FieldsAssumption DEF Fields
  <1>2. \A f, g \in Range(Fields(s)) : f.name = g.name => f = g
    BY <1>1 DEF WellNamed, Range
  <1>3. \A f \in Range(Fields(s)) : f.ptr \in Nat
    BY StructIs
  <1>4. \A f \in Range(Fields(s)) : \E k \in DOMAIN Fields(s) : Fields(s)[k] = f
    BY DEF Range
  <1>5. Len(Fields(s)) \in Nat /\ DOMAIN Fields(s) = 1 .. Len(Fields(s))
    BY <1>1
  <1>6. \A k \in DOMAIN Fields(s) : Fields(s)[k] \in Range(Fields(s))
    BY DEF Range
  <1> QED  BY <1>1, <1>2, <1>3, <1>4, <1>5, <1>6

(* The count that is found for an array.                                   *)
LEMMA CountIs ==
  ASSUME sdk \in Sdks, NEW s \in Structs, None \notin Counts(s),
         NEW f \in Range(Fields(s)), Many(f, Fields(s))
  PROVE  \E g \in Range(Fields(s)) :
           /\ CountField(Fields(s), f.name) = g.name /\ g.name \in Counts(s)
           /\ g.name # f.name /\ CountNamed(g.name) /\ g.name[1] = f.name[1]
           /\ CountsLike(f, Fields(s)) # {} => g \in CountsLike(f, Fields(s))
           /\ ~Hidden(g) /\ g.ptr = 0 /\ Sort[g.base] = "int"
  <1> DEFINE fs == Fields(s)
  <1>1. /\ Len(fs) \in Nat /\ DOMAIN fs = 1 .. Len(fs) /\ WellNamed(fs)
        /\ \A k \in DOMAIN fs : fs[k] \in Range(fs)
        /\ \A h \in Range(fs) : \E k \in DOMAIN fs : fs[k] = h
    BY FieldsAre
  <1>2. CountField(fs, f.name) \in Counts(s)
    BY DEF Many, Counts, IsStructArray
  <1>3. CountField(fs, f.name) # None
    BY <1>2
  <1> HIDE DEF fs
  <1>4. PICK k \in DOMAIN fs :
           /\ CountField(fs, f.name) = fs[k].name
           /\ fs[k].name # f.name /\ CountNamed(fs[k].name)
           /\ Similar(fs[k].name, f.name) \/ fs[k].name[1] = f.name[1]
           /\ (\E j \in DOMAIN fs : fs[j].name # f.name /\ CountNamed(fs[j].name)
                                     /\ Similar(fs[j].name, f.name))
                => Similar(fs[k].name, f.name)
    BY <1>1, <1>3, CountFieldIs
  <1> DEFINE g == fs[k]
  <1>5. g \in Range(fs) /\ f \in Range(fs) /\ Many(f, fs)
    BY <1>1 DEF fs
  <1>6. /\ g.name \in Seq(Range(g.name)) \ {<<>>}
        /\ f.name \in Seq(Range(f.name)) \ {<<>>}
    BY <1>1, <1>5 DEF WellNamed
  <1>7. g.name[1] = f.name[1]
    BY <1>4, <1>6, SimilarFirst
  <1>8. ~Hidden(g) /\ g.ptr = 0 /\ Sort[g.base] = "int"
    BY <1>1, <1>4, <1>5, <1>7 DEF WellNamed
  <1>9. CountsLike(f, fs) # {} => g \in CountsLike(f, fs)
    <2> SUFFICES ASSUME NEW h \in CountsLike(f, fs)
                 PROVE  g \in CountsLike(f, fs)
      OBVIOUS
    <2>1. h \in Range(fs) /\ h.name # f.name /\ CountNamed(h.name) /\ Similar(h.name, f.name)
      BY DEF CountsLike
    <2>2. PICK j \in DOMAIN fs : fs[j] = h
      BY <2>1, <1>1
    <2>3. Similar(g.name, f.name)
      BY <1>4, <2>1, <2>2
    <2> QED  BY <1>4, <1>5, <2>3 DEF CountsLike
  <1> HIDE DEF g
  <1> QED  BY <1>2, <1>4, <1>5, <1>7, <1>8, <1>9 DEF fs, g

(* What is filled in for a field besides it: the count of an array, the    *)
(* type of a union.                                                        *)
Beside(f, s) ==
    IF Many(f, Fields(s)) THEN {CountField(Fields(s), f.name)}
    ELSE IF Sort[f.base] = "union" THEN {f.name \o <<"type">>} ELSE {}

Visible(s) == {g.name : g \in {h \in Range(Fields(s)) : ~Hidden(h)}}

LEMMA LiveFields ==
  ASSUME NEW s, NEW f \in Live(s)
  PROVE  f \in Range(Fields(s)) /\ ~Hidden(f) /\ f.name \in Visible(s)
         /\ f.name \notin Counts(s) /\ f.name \notin UnionTypes(s)
  BY Zenon DEF Live, CountAndTypeFields, Visible

(* What is beside a field is a field that is handled with it.              *)
LEMMA BesideIs ==
  ASSUME sdk \in Sdks, NEW s \in Structs, None \notin Counts(s),
         NEW f \in Range(Fields(s)), ~Hidden(f), NEW x \in Beside(f, s)
  PROVE  \E g \in Range(Fields(s)) :
           /\ g.name = x /\ x # f.name /\ x \in Counts(s) \cup UnionTypes(s)
           /\ ~Hidden(g) /\ g.ptr = 0 /\ Sort[g.base] # "union"
  <1>1. CASE Many(f, Fields(s))
    <2>1. x = CountField(Fields(s), f.name)
      BY <1>1 DEF Beside
    <2> QED  BY <2>1, <1>1, CountIs
  <1>2. CASE ~Many(f, Fields(s)) /\ Sort[f.base] = "union"
    <2>1. x = f.name \o <<"type">>
      BY <1>2 DEF Beside
    <2>2. WellNamed(Fields(s))
      BY FieldsAre
    <2>3. PICK g \in Range(Fields(s)) : /\ g.name = f.name \o <<"type">>
                                        /\ ~Hidden(g) /\ g.ptr = 0 /\ Sort[g.base] # "union"
      BY <1>2, <2>2 DEF WellNamed
    <2>4. x \in UnionTypes(s)
      BY <1>2, <2>1 DEF UnionTypes
    <2>5. x # f.name
      <3>1. f.name \in Seq(Range(f.name)) \ {<<>>}
        BY <2>2 DEF WellNamed
      <3> QED  BY <2>1, <3>1, TypeNamed
    <2> QED  BY <2>1, <2>3, <2>4, <2>5
  <1>3. Many(f, Fields(s)) \/ (~Many(f, Fields(s)) /\ Sort[f.base] = "union")
    BY DEF Beside
  <1> QED  BY <1>1, <1>2, <1>3

(* A field that is handled with another one is beside it.                  *)
LEMMA BesideOf ==
  ASSUME sdk \in Sdks, NEW s \in Structs, NEW x \in Counts(s) \cup UnionTypes(s)
  PROVE  \E f \in Range(Fields(s)) :
           /\ ~Hidden(f) /\ x \in Beside(f, s)
           /\ f.ptr > 0 \/ Sort[f.base] = "union"
  <1>1. CASE x \in Counts(s)
    <2>1. PICK f \in Range(Fields(s)) :
            ~Hidden(f) /\ (IsArray(f) \/ IsStructArray(f, s)) /\ x = CountField(Fields(s), f.name)
      BY <1>1, Zenon DEF Counts
    <2>2. Many(f, Fields(s)) /\ f.ptr > 0
      BY <2>1 DEF Many, IsStructArray, IsArray, StructArrayIn
    <2> QED  BY <2>1, <2>2 DEF Beside
  <1>2. CASE x \in UnionTypes(s)
    <2>1. PICK f \in Range(Fields(s)) : ~Hidden(f) /\ Sort[f.base] = "union" /\ x = f.name \o <<"type">>
      BY <1>2, Zenon DEF UnionTypes
    <2>2. f.ptr = 0
      BY <2>1, FieldsAre DEF WellNamed
    <2>3. ~Many(f, Fields(s))
      BY <2>2 DEF Many, IsArray, StructArrayIn
    <2> QED  BY <2>1, <2>3 DEF Beside
  <1> QED  BY <1>1, <1>2

(* Nothing is beside two fields.                                           *)
LEMMA BesideOne ==
  ASSUME sdk \in Sdks, NEW s \in Structs, None \notin Counts(s),
         NEW f \in Range(Fields(s)), ~Hidden(f), NEW g \in Range(Fields(s)), ~Hidden(g),
         NEW x \in Beside(f, s), x \in Beside(g, s)
  PROVE  f = g
  <1> DEFINE fs == Fields(s)
  <1>1. /\ WellNamed(fs) /\ \A h, i \in Range(fs) : h.name = i.name => h = i
    BY FieldsAre
  <1>2. /\ f.name \in Seq(Range(f.name)) \ {<<>>}
        /\ g.name \in Seq(Range(g.name)) \ {<<>>}
    BY <1>1 DEF WellNamed
  <1>3. ASSUME NEW h \in Range(fs), NEW y \in Beside(h, s)
        PROVE  \/ Many(h, fs) /\ y = CountField(fs, h.name)
               \/ ~Many(h, fs) /\ y = h.name \o <<"type">>
    BY <1>3 DEF Beside
  <1>4. ASSUME NEW h \in Range(fs), Many(h, fs), x = CountField(fs, h.name)
        PROVE  \E c \in Range(fs) :
                 /\ x = c.name /\ CountNamed(c.name) /\ c.name[1] = h.name[1]
                 /\ CountsLike(h, fs) # {} => c \in CountsLike(h, fs)
    BY <1>4, CountIs
  <1>5. CASE Many(f, fs) /\ x = CountField(fs, f.name) /\ Many(g, fs) /\ x = CountField(fs, g.name)
    <2>1. PICK c \in Range(fs) :
            /\ x = c.name /\ CountNamed(c.name) /\ c.name[1] = f.name[1]
            /\ CountsLike(f, fs) # {} => c \in CountsLike(f, fs)
      BY <1>4, <1>5
    <2>2. PICK d \in Range(fs) :
            /\ x = d.name /\ CountNamed(d.name) /\ d.name[1] = g.name[1]
            /\ CountsLike(g, fs) # {} => d \in CountsLike(g, fs)
      BY <1>4, <1>5
    <2> HIDE DEF fs
    <2>3. c = d /\ f.name[1] = g.name[1]
      BY <1>1, <2>1, <2>2
    <2>4. f \in Range(fs) /\ g \in Range(fs)
      BY DEF fs
    <2> SUFFICES ASSUME f.name # g.name
                 PROVE  FALSE
      BY <1>1, <2>4
    <2>5. /\ CountsLike(f, fs) # {} /\ CountsLike(g, fs) # {}
          /\ CountsLike(f, fs) \cap CountsLike(g, fs) = {}
      BY <1>1, <1>5, <2>3, <2>4 DEF WellNamed
    <2> QED  BY <2>1, <2>2, <2>3, <2>5
  <1>6. ASSUME NEW h \in Range(fs), Many(h, fs), x = CountField(fs, h.name)
        PROVE  CountNamed(x)
    BY <1>4, <1>6
  <1>7. CASE x = f.name \o <<"type">> /\ x = g.name \o <<"type">>
    BY <1>1, <1>2, <1>7, TypeNamed
  <1>8. x = f.name \o <<"type">> \/ x = g.name \o <<"type">> => ~CountNamed(x)
    BY <1>2, TypeNamed
  <1> HIDE DEF fs
  <1>9. f \in Range(fs) /\ g \in Range(fs)
    BY DEF fs
  <1> QED  BY <1>3, <1>5, <1>6, <1>7, <1>8, <1>9

(* A field that counts is handled on its own, or is beside one that is.    *)
LEMMA AllVisible ==
  ASSUME sdk \in Sdks, NEW s \in Structs, None \notin Counts(s), NEW x \in Visible(s)
  PROVE  \E f \in Live(s) : x = f.name \/ x \in Beside(f, s)
  <1>1. PICK h \in Range(Fields(s)) : ~Hidden(h) /\ x = h.name
    BY DEF Visible
  <1>2. ASSUME NEW g \in Range(Fields(s)), ~Hidden(g), g.name \notin Counts(s) \cup UnionTypes(s)
        PROVE  g \in Live(s)
    <2>1. ~\E f \in Range(Fields(s)) : Hidden(f) /\ f.name = g.name
      BY <1>2, FieldsAre
    <2> QED  BY <1>2, <2>1, Zenon DEF Live, CountAndTypeFields
  <1>3. CASE h.name \notin Counts(s) \cup UnionTypes(s)
    BY <1>1, <1>2, <1>3
  <1>4. CASE h.name \in Counts(s) \cup UnionTypes(s)
    <2>1. PICK f \in Range(Fields(s)) :
            /\ ~Hidden(f) /\ x \in Beside(f, s)
            /\ f.ptr > 0 \/ Sort[f.base] = "union"
      BY <1>1, <1>4, BesideOf
    <2>2. f.name \notin Counts(s) \cup UnionTypes(s)
      <3> SUFFICES ASSUME f.name \in Counts(s) \cup UnionTypes(s)
                   PROVE  FALSE
        OBVIOUS
      <3>1. PICK e \in Range(Fields(s)) : ~Hidden(e) /\ f.name \in Beside(e, s)
        BY BesideOf
      <3>2. PICK g \in Range(Fields(s)) : g.name = f.name /\ g.ptr = 0 /\ Sort[g.base] # "union"
        BY <3>1, BesideIs
      <3>3. g = f
        BY <3>2, FieldsAre
      <3> QED  BY <3>2, <3>3, <2>1
    <2> QED  BY <1>2, <2>1, <2>2
  <1> QED  BY <1>3, <1>4

-----------------------------------------------------------------------------
LEMMA PairIs ==
  ASSUME NEW a, NEW b, a # b, NEW S, a \in S, b \in S
  PROVE  IsInjective(<<a, b>>) /\ Range(<<a, b>>) = {a, b} /\ <<a, b>> \in Seq(S)
  <1>1. DOMAIN <<a, b>> = {1, 2} /\ <<a, b>>[1] = a /\ <<a, b>>[2] = b
    OBVIOUS
  <1>2. <<a, b>> \in Seq(S)
    OBVIOUS
  <1>3. Range(<<a, b>>) = {a, b}
    BY <1>1 DEF Range
  <1>4. IsInjective(<<a, b>>)
    BY <1>1 DEF IsInjective
  <1> QED  BY <1>2, <1>3, <1>4

LEMMA SingleIs ==
  ASSUME NEW a, NEW S, a \in S
  PROVE  IsInjective(<<a>>) /\ Range(<<a>>) = {a} /\ <<a>> \in Seq(S)
  <1>1. DOMAIN <<a>> = {1} /\ <<a>>[1] = a
    OBVIOUS
  <1>2. <<a>> \in Seq(S)
    OBVIOUS
  <1> QED  BY <1>1, <1>2 DEF Range, IsInjective

(* What the class assigns for a field, and what a method's code does that  *)
(* takes the fields as arguments, is the field and what is beside it.      *)
LEMMA AssignedIs ==
  ASSUME sdk \in Sdks, NEW s \in Structs, None \notin Counts(s), NEW f \in Live(s)
  PROVE  /\ Taken(f, s) = Assigned(f, s)
         /\ IsInjective(Assigned(f, s)) /\ Assigned(f, s) \in Seq(Visible(s))
         /\ \A x : x \in Range(Assigned(f, s)) <=> x = f.name \/ x \in Beside(f, s)
  <1>1. f \in Range(Fields(s)) /\ ~Hidden(f) /\ f.name \in Visible(s)
    BY LiveFields
  <1>2. /\ WellNamed(Fields(s)) /\ f.ptr \in Nat
    BY <1>1, FieldsAre
  <1>3. \A x \in Beside(f, s) : x \in Visible(s) /\ x # f.name
    <2> SUFFICES ASSUME NEW x \in Beside(f, s)
                 PROVE  x \in Visible(s) /\ x # f.name
      OBVIOUS
    <2>1. PICK g \in Range(Fields(s)) : g.name = x /\ x # f.name /\ ~Hidden(g)
      BY <1>1, BesideIs
    <2> QED  BY <2>1 DEF Visible
  <1>4. /\ f.name \in {ApiVersion, LocalUserId} => f.ptr = 0
        /\ Many(f, Fields(s)) => Sort[f.base] # "socket"
    BY <1>1, <1>2 DEF WellNamed
  <1>5. Many(f, Fields(s)) => f.ptr > 0
    BY DEF Many, IsArray, StructArrayIn
  <1>6. Many(f, Fields(s)) <=> IsArray(f) \/ IsStructArray(f, s)
    BY <1>1 DEF Many, IsStructArray
  <1>7. /\ Many(f, Fields(s)) => f.name # ApiVersion /\ ~UserFilledIn(f, s)
        /\ Many(f, Fields(s)) <=> ConvertsEach(f, s) \/ IsArray(f)
    BY <1>4, <1>5, <1>6 DEF UserFilledIn, ConvertsEach
  <1>8. CASE Many(f, Fields(s))
    <2> DEFINE c == CountField(Fields(s), f.name)
    <2>1. Assigned(f, s) = <<f.name, c>> /\ Taken(f, s) = <<f.name, c>>
      BY <1>7, <1>8 DEF Assigned, Taken
    <2>2. Beside(f, s) = {c}
      BY <1>8 DEF Beside
    <2> HIDE DEF c
    <2>3. c \in Visible(s) /\ c # f.name
      BY <1>3, <2>2
    <2> QED  BY <1>1, <2>1, <2>2, <2>3, PairIs
  <1>9. CASE ~Many(f, Fields(s)) /\ Sort[f.base] = "union"
    <2> DEFINE c == f.name \o <<"type">>
    <2>1. Assigned(f, s) = <<f.name, c>> /\ Taken(f, s) = <<f.name, c>>
      BY <1>7, <1>9 DEF Assigned, Taken
    <2>2. Beside(f, s) = {c}
      BY <1>9 DEF Beside
    <2> HIDE DEF c
    <2>3. c \in Visible(s) /\ c # f.name
      BY <1>3, <2>2
    <2> QED  BY <1>1, <2>1, <2>2, <2>3, PairIs
  <1>10. CASE ~Many(f, Fields(s)) /\ Sort[f.base] # "union"
    <2>1. Assigned(f, s) = <<f.name>> /\ Taken(f, s) = <<f.name>>
      BY <1>7, <1>10 DEF Assigned, Taken
    <2>2. Beside(f, s) = {}
      BY <1>10 DEF Beside
    <2> QED  BY <1>1, <2>1, <2>2, SingleIs
  <1> QED  BY <1>8, <1>9, <1>10

Complete(fields, s) == IsInjective(fields) /\ Range(fields) = Visible(s)

LEMMA AssignedAll ==
  ASSUME sdk \in Sdks, NEW s \in Structs, None \notin Counts(s)
  PROVE  Complete(AssignedFields(s), s) /\ TakenFields(s) = AssignedFields(s)
  <1> DEFINE fs == Fields(s)
             L == Len(fs)
             seqs == [k \in DOMAIN fs |-> IF fs[k] \in Live(s) THEN Assigned(fs[k], s) ELSE <<>>]
  <1>1. /\ L \in Nat /\ DOMAIN fs = 1 .. L
        /\ \A k \in DOMAIN fs : fs[k] \in Range(fs)
        /\ \A f \in Range(fs) : \E k \in DOMAIN fs : fs[k] = f
        /\ WellNamed(fs)
    BY FieldsAre
  <1>2. AssignedFields(s) = FlattenSeq(seqs)
    BY DEF AssignedFields
  <1>3. TakenFields(s) = AssignedFields(s)
    <2>1. TakenFields(s) =
            FlattenSeq([k \in DOMAIN fs |-> IF fs[k] \in Live(s) THEN Taken(fs[k], s) ELSE <<>>])
      BY DEF TakenFields
    <2>2. \A k \in DOMAIN fs : fs[k] \in Live(s) => Taken(fs[k], s) = Assigned(fs[k], s)
      BY AssignedIs
    <2>3. [k \in DOMAIN fs |-> IF fs[k] \in Live(s) THEN Taken(fs[k], s) ELSE <<>>] = seqs
      <3> HIDE DEF fs
      <3> QED  BY <2>2
    <2> QED  BY <1>2, <2>1, <2>3
  <1>4. ASSUME NEW k \in 1 .. L
        PROVE  /\ seqs[k] \in Seq(Visible(s)) /\ IsInjective(seqs[k])
               /\ \A x : x \in Range(seqs[k]) <=>
                    fs[k] \in Live(s) /\ (x = fs[k].name \/ x \in Beside(fs[k], s))
    <2>1. seqs[k] = IF fs[k] \in Live(s) THEN Assigned(fs[k], s) ELSE <<>>
      BY <1>1
    <2>2. CASE fs[k] \in Live(s)
      <3> HIDE DEF seqs, fs, L
      <3> QED  BY <2>1, <2>2, AssignedIs
    <2>3. CASE fs[k] \notin Live(s)
      <3>1. seqs[k] = <<>>
        BY <2>1, <2>3
      <3>2. <<>> \in Seq(Visible(s)) /\ DOMAIN <<>> = {}
        OBVIOUS
      <3> HIDE DEF seqs, fs, L
      <3>3. IsInjective(<<>>) /\ Range(<<>>) = {}
        BY <3>2 DEF IsInjective, Range
      <3> QED  BY <2>3, <3>1, <3>2, <3>3
    <2> QED  BY <2>2, <2>3
  <1>5. Len(seqs) = L
    BY <1>1
  <1>6. ASSUME NEW f \in Live(s), NEW g \in Live(s), f # g,
               NEW x, x = f.name \/ x \in Beside(f, s), x = g.name \/ x \in Beside(g, s)
        PROVE  FALSE
    <2>1. /\ f \in Range(Fields(s)) /\ ~Hidden(f) /\ f.name \notin Counts(s) /\ f.name \notin UnionTypes(s)
          /\ g \in Range(Fields(s)) /\ ~Hidden(g) /\ g.name \notin Counts(s) /\ g.name \notin UnionTypes(s)
      BY LiveFields
    <2>2. f.name # g.name
      BY <1>6, <2>1, FieldsAre
    <2>3. \A y \in Beside(f, s) : y \in Counts(s) \cup UnionTypes(s)
      BY <2>1, BesideIs
    <2>4. \A y \in Beside(g, s) : y \in Counts(s) \cup UnionTypes(s)
      BY <2>1, BesideIs
    <2>5. ~(x \in Beside(f, s) /\ x \in Beside(g, s))
      BY <1>6, <2>1, BesideOne
    <2> QED  BY <1>6, <2>1, <2>2, <2>3, <2>4, <2>5
  <1> HIDE DEF seqs, fs, L
  <1>7. CASE L = 0
    <2>1. AssignedFields(s) = seqs
      BY <1>2, <1>5, <1>7 DEF FlattenSeq
    <2>2. DOMAIN seqs = {} /\ DOMAIN fs = {}
      BY <1>1, <1>7 DEF seqs
    <2>3. Visible(s) = {}
      BY <2>2, <1>1 DEF Visible, fs
    <2> QED  BY <1>3, <2>1, <2>2, <2>3 DEF Complete, IsInjective, Range
  <1>8. CASE L # 0
    <2>1. Lists(seqs, L, Visible(s)) /\ L \in Nat \ {0}
      BY <1>1, <1>4, <1>5, <1>8 DEF Lists
    <2>2. /\ \A x : x \in Range(FlattenSeq(seqs)) <=> \E i \in 1 .. L : x \in Range(seqs[i])
          /\ Apart(seqs, L) => IsInjective(FlattenSeq(seqs))
      BY <2>1, FlattenAll
    <2>3. Apart(seqs, L)
      <3>1. ASSUME NEW i \in 1 .. L, NEW j \in 1 .. L, i # j, NEW x \in Range(seqs[i])
            PROVE  x \notin Range(seqs[j])
        <4>1. fs[i] # fs[j]
          BY <1>1, <3>1 DEF WellNamed
        <4> QED  BY <4>1, <3>1, <1>4, <1>6
      <3> QED  BY <3>1, <1>4 DEF Apart
    <2>4. ASSUME NEW x
          PROVE  x \in Range(FlattenSeq(seqs)) <=> x \in Visible(s)
      <3>1. ASSUME NEW i \in 1 .. L, x \in Range(seqs[i])
            PROVE  x \in Visible(s)
        <4>1. PICK k \in DOMAIN seqs[i] : x = seqs[i][k]
          BY <3>1 DEF Range
        <4>2. seqs[i] \in Seq(Visible(s))
          BY <1>4
        <4>3. k \in 1 .. Len(seqs[i])
          BY <4>1, <4>2
        <4> QED  BY <4>1, <4>2, <4>3, ElementOfSeq
      <3>2. ASSUME x \in Visible(s)
            PROVE  \E i \in 1 .. L : x \in Range(seqs[i])
        <4>1. PICK f \in Live(s) : x = f.name \/ x \in Beside(f, s)
          BY <3>2, AllVisible
        <4>2. f \in Range(fs)
          BY LiveFields DEF fs
        <4>3. PICK k \in 1 .. L : fs[k] = f
          BY <4>2, <1>1
        <4> QED  BY <4>1, <4>3, <1>4
      <3> QED  BY <2>2, <3>1, <3>2
    <2>5. Range(AssignedFields(s)) = Visible(s)
      BY <1>2, <2>4
    <2> QED  BY <1>2, <1>3, <2>2, <2>3, <2>5 DEF Complete
  <1> QED  BY <1>7, <1>8

(* A method that only has a version to fill in.                            *)
LEMMA VersionAlone ==
  ASSUME sdk \in Sdks, NEW m, IsBuiltInNotify(m)
  PROVE  m.args[2].base \in Structs /\ Complete(<<ApiVersion>>, m.args[2].base)
  <1> DEFINE s == m.args[2].base
             shown == {f \in Range(Fields(s)) : ~Hidden(f)}
  <1>1. /\ s \in Structs /\ Cardinality(shown) = 1
        /\ \E f \in Range(Fields(s)) : f.name = ApiVersion
    BY DEF IsBuiltInNotify
  <1>2. PICK f \in Range(Fields(s)) : f.name = ApiVersion
    BY <1>1
  <1>3. ~Hidden(f)
    BY <1>1, <1>2, FieldsAre DEF WellNamed
  <1>4. f \in shown
    BY <1>3
  <1>5. shown = {f}
    <2>1. IsFiniteSet(shown)
      <3>1. Fields(s) \in Seq(Range(Fields(s)))
        BY <1>1, StructIs, SdkAssumption DEF Fields
      <3>2. IsFiniteSet(Range(Fields(s)))
        <4>1. /\ Len(Fields(s)) \in Nat /\ DOMAIN Fields(s) = 1 .. Len(Fields(s))
          BY <1>1, FieldsAre
        <4> DEFINE g == Fields(s)
                   L == Len(g)
        <4>2. 1 \in Int /\ L \in Int
          BY <4>1
        <4> HIDE DEF L, g
        <4>3. IsFiniteSet(1 .. L)
          BY <4>2, FS_Interval
        <4>4. g \in [1 .. L -> Range(g)]
          BY <3>1, <4>1 DEF L, g
        <4>5. \A x \in Range(g) : \E k \in 1 .. L : g[k] = x
          BY <4>1 DEF Range, L, g
        <4>6. g \in Surjection(1 .. L, Range(g))
          BY <4>4, <4>5, Zenon DEF Surjection
        <4>7. IsFiniteSet(Range(g))
          BY <4>3, <4>6, FS_Surjection
        <4> QED  BY <4>7 DEF g
      <3>3. shown \subseteq Range(Fields(s))
        OBVIOUS
      <3> HIDE DEF shown
      <3> QED  BY <3>2, <3>3, FS_Subset
    <2> HIDE DEF shown
    <2>2. \E x : shown = {x}
      BY <2>1, <1>1, FS_Singleton
    <2> QED  BY <2>2, <1>4
  <1>6. Visible(s) = {ApiVersion}
    <2> HIDE DEF s
    <2> QED  BY <1>2, <1>5 DEF Visible
  <1>7. IsInjective(<<ApiVersion>>) /\ Range(<<ApiVersion>>) = {ApiVersion}
    <2>1. ApiVersion \in {ApiVersion}
      OBVIOUS
    <2> QED  BY <2>1, SingleIs
  <1> QED  BY <1>1, <1>6, <1>7 DEF Complete

Loaded == \A f \in fills : f.of \in Structs /\ Complete(f.fields, f.of)

LEMMA LoadedStep == Typed /\ Loaded /\ [Next]_vars => Loaded'
  <1> SUFFICES ASSUME Typed, Loaded, [Next]_vars
               PROVE  Loaded'
    OBVIOUS
  <1>1. CASE sdk' = sdk /\ fills' = fills
    BY <1>1 DEF Loaded, Complete, Visible, Fields, Struct, Structs
  <1>2. ASSUME sdk' = sdk, \A f \in fills' : f.of \in Structs /\ Complete(f.fields, f.of)
        PROVE  Loaded'
    BY <1>2 DEF Loaded, Complete, Visible, Fields, Struct, Structs
  <1>3. sdk \in Sdks
    BY DEF Typed
  <1>4. CASE GenStruct /\ ~Fail
    <2> DEFINE s == sdk.structs[at].name
    <2>1. step = "structs" /\ sdk' = sdk
      BY <1>4 DEF GenStruct
    <2>2. s \in Structs
      BY <2>1, SdkIs DEF Typed, Placed
    <2>3. HasClass(s) => None \notin Counts(s)
      BY <1>4 DEF GenStruct, ClassFails
    <2>4. \/ fills' = fills
          \/ HasClass(s) /\ fills' = fills \cup {[by |-> <<"class">>, of |-> s, fields |-> AssignedFields(s)]}
      BY <1>4 DEF GenStruct
    <2> HIDE DEF s
    <2>5. HasClass(s) => Complete(AssignedFields(s), s)
      BY <1>3, <2>2, <2>3, AssignedAll
    <2>6. \A f \in fills' : f.of \in Structs /\ Complete(f.fields, f.of)
      BY <2>2, <2>4, <2>5 DEF Loaded
    <2> QED  BY <1>2, <2>1, <2>6
  <1>5. CASE GenMethod /\ ~Fail
    <2> DEFINE m == sdk.methods[at]
    <2>1. sdk' = sdk
      BY <1>5, GenMethodRest
    <2>2. CASE IsWritten(m) /\ ~MethodFails(m) /\ WriteMethod(m)
      <3> HIDE DEF m
      <3>1. fills' = fills \cup {[by |-> m.name, of |-> s, fields |-> TakenFields(s)] : s \in ExpandedArgs(m)}
        BY <2>2 DEF WriteMethod
      <3>2. ASSUME NEW s \in ExpandedArgs(m)
            PROVE  s \in Structs /\ Complete(TakenFields(s), s)
        <4>1. s \in Structs
          <5>1. PICK k : ArgForm(m, k) = "expanded" /\ s = m.args[k].base
            BY DEF ExpandedArgs
          <5> QED  BY <5>1, FormIs DEF IsInputOnly
        <4>2. None \notin Counts(s)
          BY <2>2 DEF MethodFails, ExpandFails
        <4> QED  BY <1>3, <4>1, <4>2, AssignedAll
      <3>3. \A f \in fills' : f.of \in Structs /\ Complete(f.fields, f.of)
        BY <3>1, <3>2 DEF Loaded
      <3> QED  BY <1>2, <2>1, <3>3
    <2>3. CASE IsBuiltInNotify(m) /\ SetUpNotify(m)
      <3> HIDE DEF m
      <3>1. fills' = fills \cup {[by |-> m.name, of |-> m.args[2].base, fields |-> <<ApiVersion>>]}
        BY <2>3 DEF SetUpNotify
      <3>2. m.args[2].base \in Structs /\ Complete(<<ApiVersion>>, m.args[2].base)
        BY <1>3, <2>3, VersionAlone
      <3>3. \A f \in fills' : f.of \in Structs /\ Complete(f.fields, f.of)
        BY <3>1, <3>2 DEF Loaded
      <3> QED  BY <1>2, <2>1, <3>3
    <2>4. CASE fills' = fills
      BY <2>1, <2>4, <1>1
    <2> QED  BY <1>5, <2>2, <2>3, <2>4, GenMethodIs
  <1>6. \/ sdk' = sdk /\ fills' = fills
        \/ GenStruct /\ ~Fail
        \/ GenMethod /\ ~Fail
    BY DEF Next, Done, vars, output, Preparing, RequireByUse, RequireByOwner, Expand,
           GenPackedResult, GenSignals, Fail
  <1> QED  BY <1>1, <1>4, <1>5, <1>6

(* Every struct the written code fills in is filled in whole, and no field *)
(* of it twice, for every list of fields: the count of each array and the  *)
(* type of each union, which the generators leave out of the lists they go *)
(* through, are set together with the array or the union.                  *)
THEOREM FieldsFilledEver == Spec => []FieldsFilled
  <1>1. Init => Loaded
    BY DEF Init, Loaded
  <1>2. Typed /\ Loaded /\ [Next]_vars => Loaded'
    BY LoadedStep
  <1>3. Loaded => FieldsFilled
    BY DEF Loaded, Complete, Visible, FieldsFilled
  <1> QED  BY <1>1, <1>2, <1>3, TypedEver, PTL DEF Spec
===============================================================================

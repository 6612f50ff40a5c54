------------------------------- MODULE EOSTypes -------------------------------
(***************************************************************************)
(* The generator's questions about the SDK's types, utils/type.py: which   *)
(* field counts the elements of which, which conversions the class of a    *)
(* struct must have, and which structs get no class because their fields   *)
(* become arguments.  make_additional_method_requirements answers the last *)
(* two in three passes over the structs, in the order they were parsed.    *)
(*                                                                         *)
(* A type is [base, ptr]: the name left when const and the stars are taken *)
(* away, and the number of stars; Sort tells what the name stands for.  A  *)
(* string is the base "text" without a star; the union of account ids,     *)
(* which is no variant, is not of the sort "union".  A name is the         *)
(* sequence of its words, without the plural's ending.                     *)
(***************************************************************************)
EXTENDS Naturals, Sequences, FiniteSets, SequencesExt

CONSTANTS Sdks,     \* the parsed SDKs: structs, methods, callbacks, options
          Sort,     \* base -> what it is
          None

(* A struct is [name, fields, deprecated, kept, logins]: kept is one of    *)
(* those is_expanded_struct never takes apart; logins one of an interface  *)
(* that manages logins (need_ignore_local_user_id_struct is false).  A     *)
(* field is [name, base, ptr, deprecated], an argument [name, base, ptr].  *)

VARIABLES sdk,       \* what was parsed, and the options of the invocation
          step,      \* what the generator is about to do
          at,        \* how far it is in the list that step goes through
          needs,     \* struct2additional_method_requirements
          expanded   \* expanded_as_args_structs

typeVars == <<needs, expanded>>

(* An elif chain: the value of the first of the pairs whose condition holds. *)
FirstTrue(pairs) == pairs[Min({i \in DOMAIN pairs : pairs[i][1]})][2]

StructsOf(x) == {s.name : s \in Range(x.structs)}
ArgsOf(x) == UNION {Range(m.args) : m \in Range(x.methods)}

Structs == StructsOf(sdk)
Struct(n) == CHOOSE s \in Range(sdk.structs) : s.name = n
Fields(n) == Struct(n).fields
Args == ArgsOf(sdk)

ApiVersion == <<"api", "version">>
ClientData == <<"client", "data">>
LocalUserId == <<"local", "user", "id">>

OutNamed(a) ==
    \/ a.name[1] = "out"
    \/ Len(a.name) > 1 /\ SubSeq(a.name, 1, 2) \in {<<"in", "out">>, <<"b", "out">>}
IsClientData(f) == f.name = ClientData /\ Sort[f.base] = "void"
IsApiVersion(f) == f.name = ApiVersion /\ Sort[f.base] = "int"
Hidden(f) == f.deprecated \/ Sort[f.base] = "platform"

(* The local user is filled in, where the option says there is only one.   *)
UserFilledIn(f, s) == sdk.oneUser /\ f.name = LocalUserId /\ ~Struct(s).logins

-----------------------------------------------------------------------------
(* _is_similar_field_name                                                  *)
Similar(n, m) == \A i \in 1 .. 2 : i <= Len(n) /\ i <= Len(m) => n[i] = m[i]

EndsIn(n, words) == n[Len(n)] \in words
CountNamed(n) ==
    \/ EndsIn(n, {"count", "size", "length"})
    \/ /\ Len(n) > 1 /\ EndsIn(n, {"bytes"})
       /\ EndsIn(Front(n), {"size", "length"})

(* find_count_field: the first field that is named like a count and like   *)
(* the array, or else the only one whose first word is the array's; any    *)
(* other number of these fails an assertion.                               *)
FirstCount(fs, name) == \* variant
    LET counts == {k \in DOMAIN fs : CountNamed(fs[k].name)}
    IN IF counts = {} THEN None ELSE fs[Min(counts)].name

CountField(fs, name) ==
    LET counts == {k \in DOMAIN fs : fs[k].name # name /\ CountNamed(fs[k].name)}
        similar == {k \in counts : Similar(fs[k].name, name)}
        near == {k \in counts : fs[k].name[1] = name[1]}
    IN IF similar # {} THEN fs[Min(similar)].name
       ELSE IF Cardinality(near) = 1 THEN fs[Min(near)].name ELSE None

(* is_internal_struct_arr_field, for a field of the struct with the        *)
(* fields fs, and for one of struct s                                      *)
StructArrayIn(f, fs) ==
    /\ Sort[f.base] \in {"struct", "socket"}
    /\ f.ptr > 0
    /\ \E g \in Range(fs) :
          /\ g.name # f.name
          /\ EndsIn(g.name, {"count", "size", "length"})
          /\ Similar(g.name, f.name)
IsStructArray(f, s) == StructArrayIn(f, Fields(s))

(* is_arr_field                                                            *)
IsArray(f) ==
    /\ f.ptr > 0
    /\ Sort[f.base] \notin {"struct", "socket", "vector", "channel", "timeout",
                            "void", "platform", "setup"}
    /\ ~OutNamed(f)

(* An array of structs whose elements are converted one by one; a socket   *)
(* is taken for a single one by whoever converts it.                       *)
ConvertsEach(f, s) == IsStructArray(f, s) /\ Sort[f.base] # "socket"

(* find_count_and_variant_type_fields_in_struct: the fields that are not   *)
(* handled on their own.                                                   *)
Counts(s) ==
    {CountField(Fields(s), f.name) :
        f \in {g \in Range(Fields(s)) : ~Hidden(g) /\ (IsArray(g) \/ IsStructArray(g, s))}}
UnionTypes(s) ==
    {f.name \o <<"type">> : f \in {g \in Range(Fields(s)) : ~Hidden(g) /\ Sort[g.base] = "union"}}
CountAndTypeFields(s) ==
    {f.name : f \in {g \in Range(Fields(s)) : Hidden(g)}} \cup Counts(s) \cup UnionTypes(s)

-----------------------------------------------------------------------------
(* The four caches: how the methods and callbacks use a struct.            *)
ArgOut(s) == \E a \in Args : a.base = s /\ a.name[1] = "out"
InputPtr(s) == \E a \in Args : a.base = s /\ a.name[1] # "out" /\ a.ptr > 0
InputValue(s) == \E a \in Args : a.base = s /\ a.name[1] # "out" /\ a.ptr = 0
Input(s) == InputPtr(s) \/ InputValue(s)
CallbackArg(s) == \E c \in Range(sdk.callbacks) : c.arg = s
Output(s) == CallbackArg(s) \/ \E m \in Range(sdk.methods) : m.returns = s

(* _is_internal_struct and _is_internal_struct_of_arr: who has it inside.  *)
Owners(s) == {o \in Structs : \E f \in Range(Fields(o)) : f.base = s /\ ~IsStructArray(f, o)}
ArrayOwners(s) == {o \in Structs : \E f \in Range(Fields(o)) : f.base = s /\ IsStructArray(f, o)}

IsInputOnly(s) ==
    /\ s \in Structs
    /\ Owners(s) = {} /\ ArrayOwners(s) = {}
    /\ ~ArgOut(s) /\ ~Output(s)
    /\ \E a \in Args : a.base = s

IsCallbackOnly(s) == ArrayOwners(s) = {} /\ ~ArgOut(s) /\ ~Input(s) /\ CallbackArg(s)

-----------------------------------------------------------------------------
(* What the methods and callbacks themselves ask of a struct's class.      *)
Direct(s) ==
    UNION {IF InputPtr(s) THEN {"to", "set_to"} ELSE {},
           IF InputValue(s) THEN {"set_to"} ELSE {},
           IF Output(s) THEN {"set_from", "from"} ELSE {},
           IF ArgOut(s) THEN {"set_from"} ELSE {}}

(* What the structs that have it inside ask of it, as things stand.        *)
InheritedBySets(s) == \* variant
    (UNION {needs[o] \cap {"set_to", "set_from"} : o \in Owners(s)})
      \cup (IF \E o \in ArrayOwners(s) : Input(o) THEN {"set_to"} ELSE {})
      \cup (IF \E o \in ArrayOwners(s) : Output(o) \/ ArgOut(o)
              THEN {"set_from", "from"} ELSE {})

Inherited(s) ==
    (UNION {needs[o] \cap {"set_to", "to", "set_from"} : o \in Owners(s)})
      \cup (IF \E o \in ArrayOwners(s) : Input(o) THEN {"set_to"} ELSE {})
      \cup (IF \E o \in ArrayOwners(s) : Output(o) \/ ArgOut(o)
              THEN {"set_from", "from"} ELSE {})

FieldCount(s) ==
    Cardinality({k \in DOMAIN Fields(s) :
        LET f == Fields(s)[k]
        IN f.name \notin {ClientData, ApiVersion} /\ ~UserFilledIn(f, s)})

Expands(s) ==
    \/ sdk.inputLimit > 0 /\ FieldCount(s) <= sdk.inputLimit /\ IsInputOnly(s)
    \/ sdk.callbackLimit > 0 /\ FieldCount(s) <= sdk.callbackLimit /\ IsCallbackOnly(s)

(* is_expanded_struct                                                      *)
IsExpanded(s) == s \in expanded /\ ~Struct(s).kept

(* Through the list S, one element a step, then on to another step.        *)
ThroughPast(S, next) == \* variant
    /\ step' = IF at > Len(S) THEN next ELSE step
    /\ at' = IF at > Len(S) THEN 1 ELSE at + 1

Through(S, next) ==
    /\ step' = IF at >= Len(S) THEN next ELSE step
    /\ at' = IF at >= Len(S) THEN 1 ELSE at + 1

(* What a header's syntax gives: lists, a struct for a name, numbers.      *)
ASSUME SdkAssumption ==
    \A x \in Sdks :
        /\ x.structs \in Seq(Range(x.structs)) \ {<<>>}
        /\ x.methods \in Seq(Range(x.methods)) \ {<<>>}
        /\ x.inputLimit \in Nat /\ x.callbackLimit \in Nat
        /\ \A s \in Range(x.structs) :
              /\ s.fields \in Seq(Range(s.fields))
              /\ \A f \in Range(s.fields) :
                    f.ptr \in Nat /\ (Sort[f.base] = "struct" <=> f.base \in StructsOf(x))
        /\ \A m \in Range(x.methods) : m.args \in Seq(Range(m.args))
        /\ \A s, t \in Range(x.structs) : s.name = t.name => s = t

(* What the passes below rely on.  Structs are passed by pointer, out      *)
(* arguments that are structs by the name "out".  A struct that has one    *)
(* inside, and is itself inside another, is not in an array and is used    *)
(* like that one; elements of an array that are not passed by themselves   *)
(* need no place for the elements of another.                              *)
Holds(s, x) == \E f \in Range(s.fields) : f.base \in StructsOf(x)
PassedIn(x) == {a.base : a \in {b \in ArgsOf(x) : b.name[1] # "out"}}
GivenOut(x) == {a.base : a \in {b \in ArgsOf(x) : b.name[1] = "out"}}
                \cup {m.returns : m \in Range(x.methods)}
                \cup {c.arg : c \in Range(x.callbacks)}

ASSUME UseAssumption ==
    \A x \in Sdks :
        /\ \A a \in ArgsOf(x) : a.base \in StructsOf(x) =>
              a.ptr \in Nat \ {0} /\ (OutNamed(a) => a.name[1] = "out")
        /\ \A o, s \in Range(x.structs) : \A f \in Range(o.fields) :
              f.base = s.name =>
                IF StructArrayIn(f, o.fields)
                  THEN /\ ~Holds(s, x)
                       /\ \/ s.name \in PassedIn(x)
                          \/ \A g \in Range(s.fields) :
                                Sort[g.base] \in {"text", "handle"} => Hidden(g) \/ g.ptr = 0
                  ELSE Holds(s, x) => /\ o.name \in PassedIn(x) => s.name \in PassedIn(x)
                                      /\ o.name \in GivenOut(x) => s.name \in GivenOut(x)

TypesInit ==
    /\ sdk \in Sdks
    /\ step = "use" /\ at = 1
    /\ needs = [s \in Structs |-> {}]
    /\ expanded = {}

(* Passes one, two and three of make_additional_method_requirements.       *)
RequireByUse ==
    /\ step = "use"
    /\ needs' = [s \in Structs |-> Direct(s)]
    /\ step' = "inherit"
    /\ UNCHANGED <<sdk, at, expanded>>

RequireByOwner ==
    /\ step = "inherit"
    /\ LET s == sdk.structs[at].name IN needs' = [needs EXCEPT ![s] = @ \cup Inherited(s)]
    /\ Through(sdk.structs, "expand")
    /\ UNCHANGED <<sdk, expanded>>

Expand ==
    /\ step = "expand"
    /\ LET s == sdk.structs[at].name
       IN expanded' = IF Expands(s) THEN expanded \cup {s} ELSE expanded
    /\ Through(sdk.structs, "results")
    /\ UNCHANGED <<sdk, needs>>
===============================================================================

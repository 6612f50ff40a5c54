------------------------------ MODULE EOSEmission ------------------------------
(***************************************************************************)
(* What the generator writes, gen_files of interface_generator.py for one  *)
(* handle: the packed results, the structs' classes, the handle's methods  *)
(* and its signals.  Each of them is written by a generator of its own,    *)
(* which looks at the same types again and has to come to the same result; *)
(* nothing but the C++ compiler sees whether it does.  The text is reduced *)
(* to what one part of the output needs of another: the conversions it     *)
(* calls, the fields and arguments it fills in, the members of results,    *)
(* the signals.                                                            *)
(***************************************************************************)
EXTENDS EOSTypes

CONSTANT Handle       \* the handle the code is generated for

(* A method is [name, args, returns, deprecated, see, limit]: returns is a *)
(* base, see the method its documentation refers to for the removal of a   *)
(* notification or None, limit whether the SDK says how long the texts it  *)
(* writes may be.  A callback is [name, arg, returns, deprecated].         *)

VARIABLES calls,     \* conversions called: <<struct, conversion>>
          fills,     \* [by, of, fields]: the fields of an SDK struct, as set
          passed,    \* [of, args, again]: what a method's code passes to the
                     \* SDK, in its call or in the one it makes again
          declared,  \* [of, members] of the packed results
          written,   \* [of, members, again]: what the methods put in them
          emitted,   \* the signals the callbacks emit or the methods return
          wanted,    \* need_signal_callback_list
          bound,     \* the signals of the class
          removers   \* the methods called to end a notification

vars == <<sdk, step, at, typeVars, calls, fills, passed, declared, written,
          emitted, wanted, bound, removers>>

Init ==
    /\ TypesInit
    /\ calls = {} /\ fills = {} /\ passed = {} /\ declared = {}
    /\ written = {} /\ emitted = {} /\ wanted = {} /\ bound = {}
    /\ removers = {}

output == <<calls, fills, passed, declared, written, emitted, wanted, bound,
            removers>>

Preparing == (RequireByUse \/ RequireByOwner \/ Expand) /\ UNCHANGED output

Fail == step' = "failed" /\ UNCHANGED <<sdk, at, typeVars, output>>

IsCallback(a) == Sort[a.base] = "callback"
IsAddNotify(m) == m.name[1] = "AddNotify"

Callback(n) == CHOOSE c \in Range(sdk.callbacks) : c.name = n
IsHandleArray(a) == Sort[a.base] = "handle" /\ a.ptr >= (IF OutNamed(a) THEN 2 ELSE 1)

-----------------------------------------------------------------------------
(* Packed results: the out arguments become the members of a class, unless *)
(* there is only one result.                                               *)
IsResult(a) == OutNamed(a) /\ (a.ptr > 0 \/ a.base = "text")
OutArgs(m) ==
    FlattenSeq([k \in DOMAIN m.args |-> IF IsResult(m.args[k]) THEN <<m.args[k]>> ELSE <<>>])

IsText(outs, i) ==   \* a buffer and its length
    /\ outs[i].base = "char" /\ i < Len(outs)
    /\ Sort[outs[i + 1].base] = "int" /\ EndsIn(outs[i + 1].name, {"length"})
IsData(outs, i) ==
    outs[i].base = "void" /\ i < Len(outs) /\ Sort[outs[i + 1].base] = "int"

ResultForm(m) ==
    LET outs == OutArgs(m)
        One == Len(outs) = 1
        Two == Len(outs) = 2
    IN FirstTrue(<<
         <<outs = <<>>, "none">>,
         <<m.returns = "void" /\ (One \/ (Two /\ (IsText(outs, 1) \/ IsData(outs, 1)))),
           "returned">>,
         <<m.returns = "result" /\ One /\ ~IsHandleArray(outs[1])
             /\ Sort[outs[1].base] \in {"handle", "struct"}, "object">>,
         <<m.returns = "result" /\ One /\ outs[1].base = "char", "returned">>,
         <<m.returns = "result" /\ Two /\ IsText(outs, 1), "returned">>,
         <<TRUE, "packed">> >>)

(* How many of the out arguments make the member that begins at i; 0 when  *)
(* the generator gives up.                                                 *)
MemberWidth(outs, i) ==
    IF \/ IsHandleArray(outs[i])
       \/ Sort[outs[i].base] = "text"
       \/ outs[i].base = "void" /\ i = Len(outs)
      THEN 0
    ELSE IF IsText(outs, i) \/ IsData(outs, i) \/ Sort[outs[i].base] = "bool" THEN 2
    ELSE 1

(* The places the loop over the out arguments comes to, from first on.     *)
Starts(widths, first) ==
    LET from[i \in 1 .. Len(widths) + 2] ==
          IF i > Len(widths) THEN <<>>
          ELSE <<i>> \o from[i + (IF widths[i] = 0 THEN 1 ELSE widths[i])]
    IN from[first]

Widths(outs) == [i \in DOMAIN outs |-> MemberWidth(outs, i)]
Members(m) ==
    LET outs == OutArgs(m)
        starts == Starts(Widths(outs), 1)
    IN [k \in DOMAIN starts |-> outs[starts[k]].name]

HasPackedResult(m) == Last(m.name) # "release" /\ ~m.deprecated /\ ResultForm(m) = "packed"

GenPackedResult ==
    /\ step = "results"
    /\ LET m == sdk.methods[at]
           widths == Widths(OutArgs(m))
       IN IF HasPackedResult(m) /\ \E i \in Range(Starts(widths, 1)) : widths[i] = 0
            THEN Fail
          ELSE /\ declared' = IF HasPackedResult(m)
                    THEN declared \cup {[of |-> m.name, members |-> Members(m)]}
                    ELSE declared
               /\ Through(sdk.methods, "structs")
               /\ UNCHANGED <<sdk, typeVars, calls, fills, passed, written,
                              emitted, wanted, bound, removers>>

-----------------------------------------------------------------------------
(* The class of a struct.                                                  *)
HasClass(s) == ~IsExpanded(s) /\ ~Struct(s).deprecated

Live(s) == {f \in Range(Fields(s)) : f.name \notin CountAndTypeFields(s)}

(* Elements that are converted need a place to be kept in, which only      *)
(* structs with to_eos have: _shadow_<field>.                              *)
IsShadowed(f, s) ==
    ConvertsEach(f, s) \/ IsHandleArray(f) \/ (Sort[f.base] = "text" /\ f.ptr > 0)

(* set_to_eos: what it assigns for a field, and what it calls.             *)
Assigned(f, s) ==
    IF ~UserFilledIn(f, s) /\ (ConvertsEach(f, s) \/ IsArray(f))
      THEN <<f.name, CountField(Fields(s), f.name)>>
    ELSE IF Sort[f.base] = "union" THEN <<f.name, f.name \o <<"type">>>>
    ELSE <<f.name>>

AssignedFields(s) ==
    LET fs == Fields(s)
    IN FlattenSeq([k \in DOMAIN fs |-> IF fs[k] \in Live(s) THEN Assigned(fs[k], s) ELSE <<>>])

StructCalls(f, s) ==
    IF Sort[f.base] # "struct" THEN {}
    ELSE {<<f.base, IF f.ptr > 0 /\ ~ConvertsEach(f, s) THEN "to" ELSE "set_to">>}

SetToCalls(f, s) ==
    StructCalls(f, s) \cup (IF IsShadowed(f, s) THEN {<<s, "to">>} ELSE {})

(* set_from_eos                                                            *)
SetFromCalls(f, s) ==
    IF Sort[f.base] # "struct" THEN {}
    ELSE {<<f.base, IF ConvertsEach(f, s) THEN "from" ELSE "set_from">>}

ClassCalls(s) ==
    (UNION {IF "set_to" \in needs[s] THEN SetToCalls(f, s) ELSE {} : f \in Live(s)})
      \cup (UNION {IF "set_from" \in needs[s] THEN SetFromCalls(f, s) ELSE {} :
                     f \in Live(s)})
      \cup (IF "from" \in needs[s] THEN {<<s, "set_from">>} ELSE {})
      \cup (IF "to" \in needs[s] THEN {<<s, "set_to">>} ELSE {})

(* A count that is not found, client data or a callback to be set, and     *)
(* what is only ever set but is to be read stop the generator.  The        *)
(* callbacks of file transfers can be set: they are a sort of their own.   *)
ClassFails(s) ==
    \/ None \in Counts(s)
    \/ /\ "set_to" \in needs[s]
       /\ \E f \in Live(s) : IsClientData(f) \/ Sort[f.base] = "callback"
    \/ /\ "set_from" \in needs[s]
       /\ \E f \in Live(s) : Sort[f.base] \in {"timeout", "setup"}

GenStruct ==
    /\ step = "structs"
    /\ LET s == sdk.structs[at].name
       IN IF HasClass(s) /\ ClassFails(s) THEN Fail
          ELSE /\ calls' = IF HasClass(s) THEN calls \cup ClassCalls(s) ELSE calls
               /\ fills' = IF HasClass(s) /\ "set_to" \in needs[s]
                    THEN fills \cup {[by |-> <<"class">>, of |-> s,
                                      fields |-> AssignedFields(s)]}
                    ELSE fills
               /\ Through(sdk.structs, "methods")
               /\ UNCHANGED <<sdk, typeVars, passed, declared, written, emitted,
                              wanted, bound, removers>>

-----------------------------------------------------------------------------
(* Callbacks: the callable and the signal get the info's class, or the     *)
(* fields one by one if it is expanded.  An array's count is then named    *)
(* without the struct it is in.                                            *)
ExpandedFields(s) ==
    {f \in Live(s) :
        ~IsApiVersion(f) /\ ~IsClientData(f) /\ ~UserFilledIn(f, s)}

CallbackCalls(c) ==
    IF ~IsExpanded(c.arg) THEN {<<c.arg, "from">>}
    ELSE UNION {
       (IF Sort[f.base] = "struct" THEN {<<f.base, "from">>} ELSE {})
         \cup (IF ConvertsEach(f, c.arg) \/ IsHandleArray(f)
                 THEN {<<c.arg, "scope">>} ELSE {}) : f \in ExpandedFields(c.arg)}

(* The name of the signal is made from the method's, and there must be one *)
(* method only.                                                            *)
Users(c) == {m \in Range(sdk.methods) : \E a \in Range(m.args) : a.base = c.name}
CallbackFails(c) ==
    \/ c.arg \notin Structs \/ c.returns # "void"
    \/ Cardinality(Users(c)) # 1
    \/ IsExpanded(c.arg) /\ None \in Counts(c.arg)

-----------------------------------------------------------------------------
(* Methods.  _expand_input_struct: the fields of the options become        *)
(* arguments, and the code fills them in.                                  *)
Taken(f, s) ==
    IF f.name # ApiVersion /\ ~UserFilledIn(f, s)
         /\ (ConvertsEach(f, s) \/ IsArray(f))
      THEN <<f.name, CountField(Fields(s), f.name)>>
    ELSE IF Sort[f.base] = "union" THEN <<f.name, f.name \o <<"type">>>>
    ELSE <<f.name>>

TakenFields(s) ==
    LET fs == Fields(s)
    IN FlattenSeq([k \in DOMAIN fs |-> IF fs[k] \in Live(s) THEN Taken(fs[k], s) ELSE <<>>])

ExpandFails(s) ==
    \/ None \in Counts(s)
    \/ \E f \in Live(s) : IsClientData(f)

ArgForm(m, k) ==
    LET a == m.args[k] IN FirstTrue(<<
      <<a.base = Handle, "self">>,
      <<IsCallback(a), "callback">>,
      <<IsClientData(a), "client">>,
      <<sdk.oneUser /\ a.name = LocalUserId, "user">>,
      <<IsInputOnly(a.base), IF IsExpanded(a.base) THEN "expanded" ELSE "object">>,
      <<OutNamed(a), "out">>,
      <<IsHandleArray(a) \/ (Sort[a.base] = "text" /\ a.ptr > 0), "unsupported">>,
      <<TRUE, "value">> >>)

(* The first out argument ends the loop: it sees to all that follow.       *)
FirstOut(m) == Min({k \in DOMAIN m.args : ArgForm(m, k) = "out"} \cup {Len(m.args) + 1})

IsOptions(m, k) ==
    ArgForm(m, k) \in {"object", "expanded"} /\ EndsIn(m.args[k].name, {"option"})
LastOptions(m, k) ==
    LET J == {j \in 1 .. k : IsOptions(m, j)} IN IF J = {} THEN 0 ELSE Max(J)

(* What is passed for an argument: an object's struct is called what the   *)
(* last options were called.                                               *)
PassedFor(m, k) ==
    IF ArgForm(m, k) = "object" /\ ~IsOptions(m, k)
      THEN IF LastOptions(m, k) = 0 THEN <<>> ELSE m.args[LastOptions(m, k)].name
    ELSE m.args[k].name

(* _make_packed_result: how many arguments one result takes, 0 if it is    *)
(* not supported, and how many of them are passed.                         *)
DataSize(m, a) ==
    LET k == LastOptions(m, FirstOut(m) - 1) IN
    k # 0 /\ \E f \in Range(Fields(m.args[k].base)) :
                f.name \in {a.name \o <<"size", "bytes">>, <<"max", "data", "size", "bytes">>}

TextWidth(m, i) == IF IsText(m.args, i) THEN 2 ELSE 1 \* variant

ResultWidth(m, i) ==
    LET a == m.args[i]
        Plain == Sort[a.base] \in {"handle", "struct", "socket", "enum"}
    IN IF \/ IsHandleArray(a)
          \/ ~Plain /\ (IsArray(a) \/ Sort[a.base] = "vector")
          \/ ~Plain /\ a.ptr = 0 /\ a.base # "text"
          \/ a.base = "void" /\ i = Len(m.args)
          \/ IsData(m.args, i) /\ ~DataSize(m, a)
         THEN 0
       ELSE IF IsText(m.args, i) \/ IsData(m.args, i) \/ Sort[a.base] = "bool" THEN 2
       ELSE 1

ResultWidths(m) == [i \in DOMAIN m.args |-> IF i < FirstOut(m) THEN 1 ELSE ResultWidth(m, i)]
ResultStarts(m) == Starts(ResultWidths(m), FirstOut(m))

PassedAlone(m, i) == <<m.args[i].name>> \* variant

PassedResult(m, i) ==
    IF IsText(m.args, i) \/ IsData(m.args, i)
      THEN <<m.args[i].name, m.args[i + 1].name>> ELSE <<m.args[i].name>>

(* What is passed once j of the results were seen to.                      *)
PassedUpTo(m, j) ==
    [k \in 1 .. FirstOut(m) - 1 |-> PassedFor(m, k)]
      \o FlattenSeq([n \in 1 .. j |-> PassedResult(m, ResultStarts(m)[n])])

PassedArgs(m) ==
    IF ResultForm(m) = "object" THEN Append(PassedUpTo(m, 0), m.args[FirstOut(m)].name)
    ELSE PassedUpTo(m, Len(ResultStarts(m)))

WrittenMembers(m) ==
    [j \in DOMAIN ResultStarts(m) |-> m.args[ResultStarts(m)[j]].name]

(* _gen_str_retry_lines: a text that may be of any length is asked for     *)
(* again when it was too long, with the arguments there are so far; then   *)
(* it alone is put in the result.                                          *)
Retries(m) ==
    {j \in DOMAIN ResultStarts(m) :
        /\ m.returns = "result" /\ ~m.limit
        /\ ResultForm(m) # "object" /\ IsText(m.args, ResultStarts(m)[j])}

CallbackTypeOf(m) ==   \* _get_callback_type_of_method: only the last one
    IF m.args # <<>> /\ IsCallback(Last(m.args)) THEN Last(m.args).base ELSE None
CallbacksOf(m) == {Callback(m.args[k].base) : k \in {j \in DOMAIN m.args : IsCallback(m.args[j])}}

(* Options with nothing but a version: the handle sets the notification up *)
(* itself, for as long as it lives.                                        *)
IsBuiltInNotify(m) ==
    /\ IsAddNotify(m)
    /\ m.args[2].base \in Structs /\ EndsIn(m.args[2].name, {"option"})
    /\ LET shown == {f \in Range(Fields(m.args[2].base)) : ~Hidden(f)}
       IN Cardinality(shown) = 1
    /\ \E f \in Range(Fields(m.args[2].base)) : f.name = ApiVersion

IsWritten(m) ==
    /\ m.name[1] # "RemoveNotify" /\ Last(m.name) \notin {"release", "interface"}
    /\ ~m.deprecated
    /\ ~IsBuiltInNotify(m)

ExpandedArgs(m) ==
    {m.args[k].base : k \in {j \in 1 .. FirstOut(m) - 1 : ArgForm(m, j) = "expanded"}}
ObjectArgs(m) ==
    {m.args[k].base : k \in {j \in 1 .. FirstOut(m) - 1 : ArgForm(m, j) = "object"}}
OutStructs(m) ==
    {m.args[k].base : k \in {j \in FirstOut(m) .. Len(m.args) : m.args[j].base \in Structs}}

MethodFails(m) ==
    \/ \E k \in 1 .. FirstOut(m) - 1 :
          \/ ArgForm(m, k) = "unsupported"
          \/ ArgForm(m, k) = "client" /\ k = Len(m.args)
    \/ \E s \in ExpandedArgs(m) : ExpandFails(s)
    \/ \E c \in CallbacksOf(m) : CallbackFails(c)
    \/ CallbacksOf(m) # {} /\ m.returns = "void" /\ ResultForm(m) # "none"
    \/ ResultForm(m) = "returned" /\ m.returns # "void" /\ ~IsText(m.args, FirstOut(m))
    \/ /\ FirstOut(m) <= Len(m.args) /\ ResultForm(m) # "object"
       /\ \/ \E i \in Range(ResultStarts(m)) : ResultWidths(m)[i] = 0
          \/ ResultForm(m) # "packed" /\ Len(ResultStarts(m)) # 1

MethodCalls(m) ==
    {<<s, "to">> : s \in ObjectArgs(m)}
      \cup (UNION {UNION {StructCalls(f, s) : f \in Live(s)} : s \in ExpandedArgs(m)})
      \cup {<<s, "set_from">> : s \in OutStructs(m)}
      \cup (UNION {CallbackCalls(c) : c \in CallbacksOf(m)})

(* A callback of a notification object calls it, and emits no signal.      *)
SignalsOfAll(m) == {c.name : c \in CallbacksOf(m)} \* variant

Signals(m) ==
    IF IsAddNotify(m) THEN {} ELSE {c.name : c \in CallbacksOf(m)}

RemovalNamed(n) == [n EXCEPT ![1] = "RemoveNotify"]

WriteMethod(m) ==
    /\ passed' = passed
         \cup {[of |-> m.name, args |-> PassedArgs(m), again |-> FALSE]}
         \cup {[of |-> m.name, args |-> PassedUpTo(m, j), again |-> TRUE] : j \in Retries(m)}
    /\ written' = IF ResultForm(m) # "packed" THEN written
         ELSE written
           \cup {[of |-> m.name, members |-> WrittenMembers(m), again |-> FALSE]}
           \cup {[of |-> m.name, members |-> <<WrittenMembers(m)[j]>>, again |-> TRUE] :
                    j \in Retries(m)}
    /\ fills' = fills \cup {[by |-> m.name, of |-> s, fields |-> TakenFields(s)] :
                              s \in ExpandedArgs(m)}
    /\ calls' = calls \cup MethodCalls(m)
    /\ emitted' = emitted \cup Signals(m)
    /\ wanted' = IF IsAddNotify(m) THEN wanted ELSE wanted \cup ({CallbackTypeOf(m)} \ {None})
    /\ removers' = IF IsAddNotify(m) THEN removers \cup {RemovalNamed(m.name)} ELSE removers

(* _find_remove_notify_method                                              *)
RemovalOnly(m) == RemovalNamed(m.name) \* variant

RemoverOf(m) ==
    LET removal == RemovalNamed(m.name)
        Known(n) == \E r \in Range(sdk.methods) : r.name = n
    IN IF m.see # None THEN m.see
       ELSE IF ~Known(removal) /\ EndsIn(removal, {"v2", "v3"}) /\ Known(Front(removal))
         THEN Front(removal)
       ELSE removal

SetUpNotify(m) ==
    /\ passed' = passed \cup {[of |-> m.name, args |-> [k \in 1 .. 4 |-> m.args[k].name],
                               again |-> FALSE]}
    /\ fills' = fills \cup {[by |-> m.name, of |-> m.args[2].base, fields |-> <<ApiVersion>>]}
    /\ calls' = calls \cup UNION {CallbackCalls(c) : c \in CallbacksOf(m)}
    /\ emitted' = emitted \cup {c.name : c \in CallbacksOf(m)}
    /\ wanted' = wanted \cup {CallbackTypeOf(m)}
    /\ removers' = removers \cup {RemoverOf(m)}
    /\ UNCHANGED written

GenMethod ==
    /\ step = "methods"
    /\ LET m == sdk.methods[at]
           notify == IsBuiltInNotify(m) /\ ~m.deprecated
       IN IF \/ IsWritten(m) /\ MethodFails(m)
             \/ notify /\ (CallbackTypeOf(m) = None
                             \/ \E c \in CallbacksOf(m) : CallbackFails(c))
            THEN Fail
          ELSE /\ IF IsWritten(m) THEN WriteMethod(m)
                  ELSE IF notify THEN SetUpNotify(m)
                  ELSE UNCHANGED <<passed, written, fills, calls, emitted, wanted, removers>>
               /\ Through(sdk.methods, "signals")
               /\ UNCHANGED <<sdk, typeVars, declared, bound>>

(* The callbacks of the handle that one of its methods wants a signal for; *)
(* what the callback returns is looked at late if the info has a class.    *)
GenSignals ==
    /\ step = "signals"
    /\ bound' = {c.name : c \in {d \in Range(sdk.callbacks) :
                   /\ ~d.deprecated /\ d.name \in wanted
                   /\ d.returns = "void" \/ ~IsExpanded(d.arg)}}
    /\ step' = "done"
    /\ UNCHANGED <<sdk, at, typeVars, calls, fills, passed, declared, written,
                   emitted, wanted, removers>>

Done == step = "done" /\ UNCHANGED vars

Next == Preparing \/ GenPackedResult \/ GenStruct \/ GenMethod \/ GenSignals \/ Done

Spec == Init /\ [][Next]_vars

-----------------------------------------------------------------------------
(* What the generators rely on.  A callback is declared once, and is the   *)
(* last argument of the methods that take it.                              *)
ASSUME CallbacksAssumption ==
    \A x \in Sdks :
        /\ None \notin {c.name : c \in Range(x.callbacks)}
        /\ \A c, d \in Range(x.callbacks) : c.name = d.name => c = d
        /\ \A m \in Range(x.methods) : \A k \in DOMAIN m.args : IsCallback(m.args[k]) =>
              k = Len(m.args) /\ m.args[k].base \in {c.name : c \in Range(x.callbacks)}

(* Out arguments come last.  What is not deprecated uses nothing that is.  *)
ASSUME MethodsAssumption ==
    \A x \in Sdks :
        LET gone == {s.name : s \in {t \in Range(x.structs) : t.deprecated}}
            late == {c.name : c \in {d \in Range(x.callbacks) : d.deprecated}}
        IN /\ \A m \in Range(x.methods) :
                 /\ \A k, n \in DOMAIN m.args :
                       k < n /\ OutNamed(m.args[k]) => OutNamed(m.args[n])
                 /\ m.deprecated \/ \A a \in Range(m.args) : a.base \notin gone \cup late
           /\ \A c \in Range(x.callbacks) : c.deprecated \/ c.arg \notin gone
           /\ \A s \in Range(x.structs) :
                 s.deprecated \/ \A f \in Range(s.fields) : Hidden(f) \/ f.base \notin gone

(* A callback's info is not inside a struct, and one that has a struct or  *)
(* handles inside is not taken apart: it has too many fields, or is kept.  *)
ASSUME InfosAssumption ==
    \A x \in Sdks : \A c \in Range(x.callbacks) : \A s \in Range(x.structs) :
        /\ \A f \in Range(s.fields) : f.base # c.arg
        /\ \/ s.name # c.arg \/ s.kept
           \/ \A f \in Range(s.fields) :
                 Hidden(f) \/ (f.base \notin StructsOf(x) /\ ~IsHandleArray(f))
           \/ x.callbackLimit <
                 Cardinality({k \in DOMAIN s.fields :
                    /\ s.fields[k].name \notin {ClientData, ApiVersion}
                    /\ ~(x.oneUser /\ s.fields[k].name = LocalUserId /\ ~s.logins)})

(* A text's buffer and data are no bools.                                  *)
ASSUME BasesAssumption == Sort["char"] # "bool" /\ Sort["void"] # "bool"

(* An input that is a struct is called options; an out argument is none of *)
(* what is looked for before it, and points to where the result goes.      *)
ASSUME ArgumentsAssumption ==
    \A x \in Sdks : \A m \in Range(x.methods) :
        /\ \A n \in Range(x.methods) : n.name = m.name => n = m
        /\ IsAddNotify(m) => Len(m.args) = 4
        /\ m.name[1] \in {"AddNotify", "RemoveNotify"} \/ Last(m.name) = "interface" =>
              \A a \in Range(m.args) : ~OutNamed(a)
        /\ \A a \in Range(m.args) :
              IF OutNamed(a) THEN a.base # Handle /\ ~IsCallback(a) /\ IsResult(a)
              ELSE a.base \in StructsOf(x) => EndsIn(a.name, {"option"})

(* A struct's fields have names of their own.  What is looked for by name  *)
(* is what it looks like: the version and the user are no arrays, a union  *)
(* is a field by value and has its type beside it, and what is named like  *)
(* an array's count is a number.  Of two arrays whose names begin alike    *)
(* each has a count of its own.                                            *)
Many(f, fs) == ~Hidden(f) /\ (IsArray(f) \/ StructArrayIn(f, fs))
CountsLike(f, fs) ==
    {g \in Range(fs) : g.name # f.name /\ CountNamed(g.name) /\ Similar(g.name, f.name)}

WellNamed(fs) ==
    /\ \A j, k \in DOMAIN fs : fs[j].name = fs[k].name => j = k
    /\ \A f \in Range(fs) :
          /\ f.name \in Seq(Range(f.name)) \ {<<>>}
          /\ f.name = ApiVersion => ~Hidden(f)
          /\ f.name \in {ApiVersion, LocalUserId} \/ Sort[f.base] = "union" => f.ptr = 0
          /\ Sort[f.base] = "union" =>
                \E g \in Range(fs) : /\ g.name = f.name \o <<"type">>
                                     /\ ~Hidden(g) /\ g.ptr = 0 /\ Sort[g.base] # "union"
          /\ Many(f, fs) => Sort[f.base] # "socket"
    /\ \A f, g \in Range(fs) :
          Many(f, fs) /\ g.name # f.name /\ g.name[1] = f.name[1] =>
             /\ CountNamed(g.name) => ~Hidden(g) /\ g.ptr = 0 /\ Sort[g.base] = "int"
             /\ Many(g, fs) => /\ CountsLike(f, fs) # {} /\ CountsLike(g, fs) # {}
                               /\ CountsLike(f, fs) \cap CountsLike(g, fs) = {}

ASSUME FieldsAssumption == \A x \in Sdks : \A s \in Range(x.structs) : WellNamed(s.fields)

-----------------------------------------------------------------------------
(* The variables hold what they are for; requirements and expansion are    *)
(* settled before anything is written.                                     *)
TypeOK ==
    /\ step \in {"use", "inherit", "expand", "results", "structs", "methods",
                 "signals", "done", "failed"}
    /\ at \in 1 .. Max({Len(sdk.structs), Len(sdk.methods)})
    /\ needs \in [Structs -> SUBSET {"to", "set_to", "from", "set_from"}]
    /\ expanded \subseteq Structs
    /\ \A f \in fills : f.of \in Structs
    /\ emitted \cup wanted \cup bound \subseteq {c.name : c \in Range(sdk.callbacks)}

(* Every conversion the written code calls exists: the struct has a class, *)
(* and make_additional_method_requirements saw that the class needs it.    *)
CallsDeclared ==
    \A c \in calls : HasClass(c[1]) /\ c[2] \in needs[c[1]]

(* Wherever a struct of the SDK is filled in, by its class or by a method  *)
(* that takes its fields as arguments, every field that counts is set, and *)
(* set once: no array is left without its length, none gets another's.     *)
FieldsFilled ==
    \A f \in fills :
        /\ IsInjective(f.fields)
        /\ Range(f.fields) = {g.name : g \in {h \in Range(Fields(f.of)) : ~Hidden(h)}}

(* The arguments that follow an out bool, and the names up to the n-th     *)
(* argument without those lost.                                            *)
Behind(m) == {k \in DOMAIN m.args :
                 k > 1 /\ OutNamed(m.args[k - 1]) /\ Sort[m.args[k - 1].base] = "bool"}
NamesUpTo(m, n, lost) ==
    FlattenSeq([k \in 1 .. n |-> IF k \in lost THEN <<>> ELSE <<m.args[k].name>>])

(* A method's code passes an argument for each parameter, in their order,  *)
(* but for those behind an out bool: the loop over the results goes on two *)
(* places behind a bool, as if it had a length, so that the argument there *)
(* is lost, unless the bool was lost itself.  The call it makes again for  *)
(* a text that was too long stops with the text's length, and is complete  *)
(* only if no result follows.  Nothing else is lost, doubled or swapped.   *)
ArgumentsPassed ==
    \A p \in passed :
        LET m == CHOOSE n \in Range(sdk.methods) : n.name = p.of
        IN \E lost \in SUBSET Behind(m) :
             /\ \A k \in Behind(m) : k \in lost <=> k - 1 \notin lost
             /\ IF ~p.again THEN p.args = NamesUpTo(m, Len(m.args), lost)
                ELSE \E n \in 2 .. Len(m.args) :
                       /\ IsText(m.args, n - 1) /\ m.returns = "result" /\ ~m.limit
                       /\ p.args = NamesUpTo(m, n, lost)

(* A packed result is filled in by its method just as its class declares   *)
(* it: the two generators agree about when there is one and on its members.*)
(* After the call that is made again one of them alone is filled in.       *)
ResultsWritten ==
    step \in {"signals", "done"} =>
        /\ {[of |-> w.of, members |-> w.members] : w \in {v \in written : ~v.again}} = declared
        /\ \A w \in written : w.again =>
              \E d \in declared : w.of = d.of /\ \E n \in Range(d.members) : w.members = <<n>>

(* The signals the class declares are those its methods return and its     *)
(* callbacks emit.                                                         *)
SignalsBound == step = "done" => bound = emitted

(* The method that is to end a notification is one the SDK has.            *)
RemoversExist == removers \subseteq {m.name : m \in Range(sdk.methods)}
===============================================================================

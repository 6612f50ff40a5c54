------------------------------ MODULE MCEmission ------------------------------
(***************************************************************************)
(* Small SDKs, built from the shapes the EOS SDK's headers have: options   *)
(* that hold strings, arrays, unions, data or another struct; infos that   *)
(* do; out arguments of every kind; notifications with and without a       *)
(* filter.  Structs are listed with the inner one first, as in a header,   *)
(* and last; the options of the invocation have two values each.           *)
(***************************************************************************)
EXTENDS EOSEmission

F(name, base, ptr) == [name |-> name, base |-> base, ptr |-> ptr, deprecated |-> FALSE]
Gone(f) == [f EXCEPT !.deprecated = TRUE]
Api == F(ApiVersion, "int", 0)
User == F(LocalUserId, "Id", 0)
Data == F(ClientData, "void", 1)
Text(n) == F(n, "text", 0)
Number(n) == F(n, "int", 0)

OptionFields ==
    { <<>>,
      <<F(<<"id">>, "text", 1), Number(<<"id", "count">>)>>,
      <<F(<<"inner", "data">>, "Inner", 1)>>,
      <<F(<<"inner", "data">>, "Inner", 0), Text(<<"name">>)>>,
      <<F(<<"inner", "data">>, "Inner", 1), Number(<<"inner", "data", "count">>),
        F(<<"mode">>, "Mode", 0)>>,
      <<F(<<"value">>, "Union", 0), F(<<"value", "type">>, "Mode", 0), Text(<<"key">>)>>,
      <<F(<<"data">>, "data", 1), Number(<<"data", "length", "bytes">>),
        F(<<"member">>, "Id", 1), Number(<<"member", "count">>)>>,
      <<Number(<<"count">>), F(<<"item", "id">>, "item", 1), Number(<<"item", "count">>),
        F(<<"key", "name">>, "text", 1), Number(<<"key", "name", "count">>)>>,
      <<F(<<"user", "id">>, "Id", 1), Number(<<"user", "id", "count">>),
        F(<<"user", "name">>, "text", 1), Number(<<"user", "name", "count">>)>>,
      <<Gone(F(<<"old">>, "text", 1)), F(<<"system">>, "platform", 1),
        F(<<"timeout">>, "timeout", 1), F(<<"channel">>, "channel", 1)>>,
      <<F(<<"read", "callback">>, "OnRead", 0), F(<<"account", "id">>, "Account", 0),
        F(<<"reserved">>, "reserved", 1)>> }
InfoFields ==
    { <<>>,
      <<F(<<"inner", "data">>, "Inner", 1), Text(<<"name">>)>>,
      <<F(<<"inner">>, "Inner", 1), Number(<<"inner", "count">>)>>,
      <<F(<<"id">>, "text", 1), Number(<<"id", "count">>), F(<<"socket">>, "socket", 1)>> }
Outs ==
    { <<F(<<"out", "name">>, "char", 1), F(<<"in", "out", "name", "length">>, "int", 1)>>,
      <<F(<<"b", "out", "found">>, "bool", 1)>>,
      <<F(<<"out", "id">>, "Id", 1)>>,
      <<F(<<"out", "entry">>, "Entry", 2)>>,
      <<F(<<"out", "outer">>, "Outer", 2)>>,
      <<F(<<"out", "mode">>, "Mode", 1), F(<<"out", "number">>, "int", 1)>>,
      <<F(<<"out", "id">>, "Id", 1), F(<<"b", "out", "found">>, "bool", 1)>>,
      <<F(<<"b", "out", "found">>, "bool", 1), F(<<"b", "out", "open">>, "bool", 1),
        F(<<"out", "mode">>, "Mode", 1)>>,
      <<F(<<"b", "out", "found">>, "bool", 1), F(<<"out", "id">>, "Id", 1),
        F(<<"out", "name">>, "char", 1), F(<<"out", "length">>, "int", 1)>>,
      <<F(<<"out", "entry">>, "Entry", 2), F(<<"out", "name">>, "char", 1),
        F(<<"out", "length">>, "int", 1), F(<<"out", "socket">>, "socket", 1)>>,
      <<F(<<"out", "id">>, "Id", 1), F(<<"out", "data">>, "void", 1),
        F(<<"out", "bytes", "written">>, "int", 1)>> }

S(name, fields) ==
    [name |-> name, fields |-> fields, deprecated |-> FALSE, kept |-> FALSE, logins |-> FALSE]
Inner == S("Inner", <<Api, Text(<<"name">>), F(<<"mode">>, "Mode", 0)>>)
Others(options, info, logs) ==
    << S("Options", <<Api, User>> \o options),
       S("CopyOptions", <<Api, User, Number(<<"index">>), Number(<<"max", "data", "size", "bytes">>)>>),
       S("NotifyOptions", <<Api>>),
       S("FilterOptions", <<Api, F(<<"target">>, "Id", 0)>>),
       [S("Info", <<Number(<<"result">>), Data, User>> \o info) EXCEPT !.logins = logs],
       [S("KeptInfo", <<Data>>) EXCEPT !.kept = TRUE],
       S("Entry", <<Api, Text(<<"key">>), F(<<"inner">>, "Inner", 1)>>),
       S("Outer", <<Api, F(<<"entry">>, "Entry", 1)>>),
       [S("Old", <<Api, F(<<"inner">>, "Inner", 1)>>) EXCEPT !.deprecated = TRUE] >>

M(name, args, returns) ==
    [name |-> name, args |-> args, returns |-> returns, deprecated |-> FALSE,
     see |-> None, limit |-> TRUE]
Self == F(<<"handle">>, "Handle", 0)
Opt(s) == F(<<"option">>, s, 1)
Async(s, cb) == <<Self, Opt(s), Data, F(<<"delegate">>, cb, 0)>>
Methods(outs, limit) ==
    << M(<<"begin">>, Async("Options", "OnBegin"), "void"),
       [M(<<"get">>, <<Self, Opt("CopyOptions")>> \o outs, "result") EXCEPT !.limit = limit],
       M(<<"copy", "entry">>, <<Self, F(<<"out", "entry">>, "Entry", 2)>>, "result"),
       M(<<"find">>, <<F(<<"id">>, "Id", 0), Text(<<"name">>), F(<<"mode">>, "Mode", 0),
                       F(<<"out", "number">>, "int", 1)>>, "void"),
       M(<<"AddNotify", "changed", "v2">>, Async("NotifyOptions", "OnChanged"), "int"),
       M(<<"RemoveNotify", "changed">>, <<Self, Number(<<"in", "id">>)>>, "void"),
       M(<<"AddNotify", "filtered">>, Async("FilterOptions", "OnFiltered"), "int"),
       M(<<"RemoveNotify", "filtered">>, <<Self, Number(<<"in", "id">>)>>, "void"),
       [M(<<"former">>, Async("Old", "OnFormer"), "void") EXCEPT !.deprecated = TRUE],
       M(<<"release">>, <<Self>>, "void") >>

C(name, arg) == [name |-> name, arg |-> arg, returns |-> "void", deprecated |-> FALSE]
Callbacks ==
    << C("OnBegin", "Info"), C("OnChanged", "Info"), C("OnFiltered", "KeptInfo"), C("OnFormer", "Info") >>

Sdk(options, info, methods, first, one, input, logs) ==
    [structs |-> IF first THEN <<Inner>> \o Others(options, info, logs)
                 ELSE Others(options, info, logs) \o <<Inner>>,
     methods |-> methods, callbacks |-> Callbacks,
     oneUser |-> one, inputLimit |-> input, callbackLimit |-> 1]
AnOut == CHOOSE o \in Outs : TRUE
TheSdks ==
    {Sdk(o, i, Methods(AnOut, TRUE), first, one, input, FALSE) :
        o \in OptionFields, i \in InfoFields, first, one \in BOOLEAN, input \in {0, 3}}
    \cup
    {Sdk(<<>>, <<>>, Methods(o, limit), TRUE, one, input, logs) :
        o \in Outs, limit, one, logs \in BOOLEAN, input \in {0, 3}}

TheSort ==
    [s \in {"Inner", "Options", "CopyOptions", "NotifyOptions", "FilterOptions", "Info",
            "KeptInfo", "Entry", "Outer", "Old"} |-> "struct"]
 @@ [c \in {"OnBegin", "OnChanged", "OnFiltered", "OnFormer"} |-> "callback"]
 @@ "Handle" :> "handle" @@ "Id" :> "handle" @@ "int" :> "int" @@ "text" :> "text"
 @@ "item" :> "text" @@ "void" :> "void" @@ "char" :> "char" @@ "Mode" :> "enum"
 @@ "Union" :> "union" @@ "data" :> "data" @@ "bool" :> "bool" @@ "socket" :> "socket"
 @@ "OnRead" :> "transfer" @@ "Account" :> "account" @@ "reserved" :> "setup"
 @@ "platform" :> "platform" @@ "timeout" :> "timeout" @@ "channel" :> "channel"
===============================================================================

---------------------------- MODULE MCComponents ----------------------------
(* Components for TLC: which values are interchangeable, the constants that  *)
(* are more than names and numbers, and the inputs of the functions.         *)
EXTENDS Components, TLC

Interchangeable == Permutations(Ids) \cup Permutations(Conns)

\* Sets of names that kinds of clients give: one known, one not.
Zed == {"Zed"}
OneKind == {Zed}
Profiles == {Zed, {"Windsurf Editor"}}
Chained == {<<"recovery", "timeout", "auth">>, <<"timeout", "jsonrpc", "metrics">>,
            <<"logging", "auth", "jsonrpc">>, <<"metrics", "timeout">>}
Listed == {<<<<"tool", "t">>>>, <<<<"tool", "t">>, <<"prompt", "m">>>>}

-----------------------------------------------------------------------------
\* Inputs of the functions

SampleVersion(major, minor, patch) == [major |-> major, minor |-> minor, patch |-> patch]
V100 == SampleVersion(1, 0, 0)
V101 == SampleVersion(1, 0, 1)
V110 == SampleVersion(1, 1, 0)
V200 == SampleVersion(2, 0, 0)
Handlers == [v \in {V100, V101, V110, V200} |-> ToString(v)]
VersionParts == UNION {[1..n -> {Serving!Versions!BadPart, 0, 1, 2}] : n \in 0..3} \cup {<<1, 0, 0, 0>>}
SomeVersionSamples ==
    [config : [supported : {{V100}, {V100, V110}, {V101, V200}}, strict : BOOLEAN,
               headers : {TRUE}, strategy : {"header", "path"}, default : {V100},
               deprecated : {{V100}}],
     handlers : {[v \in vs |-> Handlers[v]] : vs \in SUBSET DOMAIN Handlers},
     default : {"default", Serving!Versions!NoHandler}, parts : VersionParts]

Bodies ==
    [readable : BOOLEAN, object : BOOLEAN, typed : BOOLEAN,
     fields : SUBSET {"id", "method", "result", "error"}, id : {7, NoNumber}]
SomeAnswerSamples ==
    [config : [cors : BOOLEAN, origins : {{}}, transformer : {"none", "json"}],
     q : [method : {"POST", "GET", "OPTIONS"}, type : {"", "text/json", "text/plain"}, body : Bodies],
     outcome : {0, Restarting!Answering!MethodNotFound, Restarting!Answering!Panicked}]

Keys == {<<"a", "lower">>, <<"a", "upper">>, <<"b", "lower">>}
Values ==
    {Serving!Params!Nil} \cup [kind : {"string", "map"}, size : {0, 3}, negative : {FALSE}]
        \cup [kind : {"int", "float"}, size : {0}, negative : BOOLEAN]
        \cup [kind : {"uint"}, size : {1}, negative : {FALSE}]
Sources == UNION {[ks -> Values] : ks \in SUBSET Keys}
StructField(name, kind) == [key |-> <<name, "lower">>, kind |-> kind]
Fields == {{StructField("a", k), StructField("b", l)} :
              k \in {"string", "uint", "map"}, l \in {"int", "string"}}
SomeParamsSamples ==
    [form : {"nil", "map", "bytes"}, source : Sources, fields : Fields,
     required : {{<<"a", "lower">>}, {<<"a", "lower">>, <<"b", "lower">>}}]

Texts == UNION {[1..n -> Serving!Codec!Characters] : n \in 0..2}
SomeCodecSamples ==
    [code : Serving!Codec!MinInt..MaxInt, message : Texts, data : {Serving!Codec!Absent, "x"}]

SampleUsers == [id : {"ann"}, roles : SUBSET {"admin"}, metadata : SUBSET {"team"}]
ServiceUser == [id |-> "service", roles |-> {}, metadata |-> {}]
AuthConfigs ==
    [secret : {"s1", "s2"}, issuer : {"", "me"}, audience : SUBSET {"a", "b"},
     methods : SUBSET Serving!Auth!AuthMethods, require : BOOLEAN, keys : {[k \in {"k"} |-> ServiceUser]}]
SomeAuthSamples ==
    [user : SampleUsers, issuer : {c \in AuthConfigs : c.methods = {"jwt"} /\ c.require},
     checker : {c \in AuthConfigs : c.issuer = "me"}, keyHeader : {"", "k", "j"}]
=============================================================================

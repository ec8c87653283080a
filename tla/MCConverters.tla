---------------------------- MODULE MCConverters ----------------------------
(* Every upstream stream of a few events, read by each converter;            *)
(* conversations of two messages: texts and images in every form, calls with *)
(* the same id and different names, results before, after and without a      *)
(* call; and tool schemas around every limit.                                *)
EXTENDS Converters

Text(t) == [type |-> "text", value |-> t]
Array(blocks) == [array |-> TRUE, blocks |-> blocks]
String(t) == [array |-> FALSE, blocks |-> <<Text(t)>>]

Message(role, said, calls, id) ==
  [role |-> role, content |-> said, calls |-> calls, callId |-> id]
\* The arguments of a write have an integer that a float64 does not hold.
ArgsOf(name) == IF name = "write" THEN "big" ELSE "args"
Call(id, name) == [id |-> id, name |-> name, args |-> ArgsOf(name)]
Said(calls) == Message("assistant", String("thought"), calls, "")
Answer(id) == Message("tool", String("found"), <<>>, id)

Asked == {Message("user", c, <<>>, "") : c \in
            {Array(<<Text("one"), Text(""), Text("two")>>),
             Array(<<Text("look"), [type |-> "image", value |-> "png"]>>),
             Array(<<[type |-> "image", value |-> "bmp"], Text("look")>>)}}
Called == {Said(<<Call("c1", "read")>>), Said(<<Call("c1", "write")>>),
           Message("assistant", String(""), <<Call("c1", "read"), Call("c2", "write")>>, "")}
Answered == {Answer("c1"), Answer("c2")}

MCChats == {<<a, b>> : a \in Called, b \in Answered}
           \cup {<<a, b>> : a \in Answered, b \in Called \cup Asked}
           \cup {<<Message("system", String("rules"), <<>>, ""), Said(<<>>)>>}

Use(id, name) == [type |-> "tool_use", id |-> id, name |-> name,
                  args |-> ArgsOf(name)]
Result(id) == [type |-> "tool_result", id |-> id, value |-> <<"found", "more">>]
Turn(role, said) == [role |-> role, content |-> said]

Uses == {Turn("assistant", c) : c \in
           {Array(<<Text("thought"), Use("c1", "read")>>),
            Array(<<Use("c1", "read"), Use("c2", "write")>>), String("thought")}}
Returned == {Turn("user", c) : c \in
               {Array(<<Result("c1")>>), Array(<<Text("and"), Result("c2"), Result("c1")>>),
                String("ask")}}

MCDialogs == [system : {"", "rules"}, messages : {<<a, b>> : a \in Uses, b \in Returned}
                                              \cup {<<b, a>> : a \in Uses, b \in Returned}]

MCStrings == {"", "c1", "c2", "read", "write", "args", "big", "rounded", "png", "bmp", "user", "system", "tool",
            "rules", "ask", "one", "two", "look", "thought", "found", "more", "and"}

MCReencoded == [s \in MCStrings |-> IF s = "big" THEN "rounded" ELSE s]

-----------------------------------------------------------------------------
(* Tool schemas: at most three properties, two of them preserved, and objects *)
(* in objects in the root.                                                   *)

MCTransformed == [n \in {"x y"} |-> "xy"]
MCSorted == <<"a", "b", "data", "x y", "xy">>
Plain(type, props, required) ==
  [type |-> type, props |-> props, required |-> required, items |-> "",
   constraints |-> {}, meta |-> {}]
Leaf(type) == [Plain(type, FALSE, <<>>) EXCEPT
                 !.items = "string", !.constraints = {"enum", "default"}, !.meta = {"own"}]
ListOf(type) == [Plain("array", FALSE, <<>>) EXCEPT
                   !.items = type, !.constraints = {"enum"}, !.meta = {"inner"}]
Object(required) == [Plain("object", TRUE, required) EXCEPT
                       !.constraints = {"enum"}, !.meta = {"own", "inner"}]
Root(required) == <<>> :> Object(required)

\* Every shape of a property, under a root that requires it.
Flat(a, b) == Root(<<"b", "a", "x y">>) @@ (<<"a">> :> a) @@ (<<"b">> :> b)
Flats == {Flat(Leaf("string"), Leaf("union")), Flat(Leaf(""), ListOf("integer")),
          Flat(Leaf("odd"), ListOf("")), Flat(Leaf("integer"), Plain("object", FALSE, <<"a">>))}

\* Names that collapse into one, at the root and below it.
Colliding == Root(<<"x y", "xy">>) @@ (<<"x y">> :> Leaf("integer"))
             @@ (<<"xy">> :> Leaf("string"))
Below(schema) == Root(<<"a">>) @@
  [p \in {<<"a">> \o q : q \in DOMAIN schema} |-> schema[Tail(p)]]

\* More properties than may be kept, and as many as may be.
Wide == Root(<<"b", "x y", "data", "a">>) @@
        [p \in {<<"a">>, <<"b">>, <<"x y">>, <<"xy">>} |-> Leaf("integer")]
WideData == Root(<<"b", "xy", "data">>) @@
            [p \in {<<"b">>, <<"data">>, <<"x y">>, <<"xy">>} |-> Leaf("integer")]
Full == Root(<<"b">>) @@ [p \in {<<"a">>, <<"b">>, <<"xy">>} |-> Leaf("integer")]

\* Objects in objects, one level more than is kept.
Deep(n) == [p \in {[i \in 1..l |-> "a"] : l \in 0..n} |->
              IF Len(p) = n THEN Leaf("integer") ELSE Object(<<"a">>)]

Schemas == Flats \cup {<<>>, <<>> :> Plain("object", FALSE, <<"a">>), Colliding,
                       Below(Colliding), Wide, WideData, Below(Wide), Full, Below(Full),
                       Deep(3), Deep(4)}

ATool(name, schema) == [name |-> name, schema |-> schema]
MCOpenAITools == {<<ATool("a", s)>> : s \in Schemas}
                 \cup {<<>>, <<ATool("x y", Full), ATool("b", Colliding)>>}
MCAnthropicTools == {<<ATool("x y", Wide), ATool("a", Deep(2))>>}

MCSymmetry == Permutations(Handlers) \cup Permutations(ConverterPool)
=============================================================================

---------------------------- MODULE ToolSchemas ----------------------------
(***************************************************************************)
(* The tool definitions of a request on their way upstream.  OpenAI tools  *)
(* are validated and simplified (internal/validate/tools.go) and the       *)
(* result is cached by ProcessTools (internal/process/processor.go);       *)
(* Anthropic tools only lose their $ fields (internal/convert/             *)
(* anthropic.go).                                                          *)
(*                                                                         *)
(* A schema is a function from paths to nodes: a path is the sequence of   *)
(* property names that leads to the node, <<>> is the root, and no path at *)
(* all is a nil schema.  Descriptions are left out.                        *)
(***************************************************************************)
EXTENDS Naturals, Sequences, FiniteSets, Lists

CONSTANTS Handlers,      \* the goroutines that serve requests
          OpenAITools,   \* the tool lists that OpenAI clients send
          AnthropicTools,
          Sorted,        \* every property name, in the order of sort.Strings
          Transformed,   \* transformParamName of the names that are not valid
          Types,         \* the types of JSON schemas
          Constraints,   \* the other fields of schemas, like enum and default
          Copied,        \* the constraints that copySimpleProperties knows
          MaxProps,      \* MaxPropertiesBeforeSimplification (15)
          MaxPreserved,  \* MaxPreservedPropertiesInSimplifiedSchema (5)
          MaxNesting,    \* MaxNestingDepth (5)
          Encodings,     \* the ways in which sonic may order the same maps
          CacheSize      \* bound: tool lists that stay in the cache

VARIABLES pc,           \* where each handler is
          tools,        \* the tool list each handler serves
          key,          \* toolsCacheKey of each handler
          definitions,  \* the tools each handler has converted
          cache         \* the cached conversions: a set of [key, tools]

vars == <<pc, tools, key, definitions, cache>>

Init == /\ pc = [h \in Handlers |-> "idle"]
        /\ tools = [h \in Handlers |-> <<>>]
        /\ key = [h \in Handlers |-> <<>>]
        /\ definitions = [h \in Handlers |-> <<>>]
        /\ cache = {}

-----------------------------------------------------------------------------
(* Schemas.  A node has a type ("" if it has none, "union" if it has       *)
(* anyOf, oneOf or allOf, "odd" if it is not an object of JSON), and says  *)
(* whether it has properties, which are required, the type of its items,   *)
(* its constraints, and which $ fields it has: "own", or "inner" ones in   *)
(* its items and alternatives.                                             *)

Node(type, props, required) ==
  [type |-> type, props |-> props, required |-> required, items |-> "",
   constraints |-> {}, meta |-> {}]

AString == Node("string", FALSE, <<>>)

Names(schema, path) == {n \in ToSet(Sorted) : Append(path, n) \in DOMAIN schema}
Parent(path) == Front(path)

\* What clients send.  Of the root, the code sees only the type.
Nodes ==
  [type : Types \cup {"", "union", "odd"}, props : BOOLEAN, required : Seq(ToSet(Sorted)),
   items : Types \cup {""}, constraints : SUBSET Constraints, meta : SUBSET {"own", "inner"}]

IsSchema(schema) ==
  /\ schema \in [DOMAIN schema -> Nodes] /\ DOMAIN schema \subseteq Seq(ToSet(Sorted))
  /\ schema # <<>> =>
       <<>> \in DOMAIN schema /\ schema[<<>>].type \notin {"union", "odd"}
  /\ \A p \in DOMAIN schema \ {<<>>} :
       Parent(p) \in DOMAIN schema /\ schema[Parent(p)].props

AreTools(list) ==
  /\ list \in Seq(ToSet(list))
  /\ \A t \in ToSet(list) :
       t = [name |-> t.name, schema |-> t.schema] /\ IsSchema(t.schema)

\* isValidParamName and transformParamName, which always gives a valid name.
Valid(name) == name \notin DOMAIN Transformed
Clean(name) == IF Valid(name) THEN name ELSE Transformed[name]
CleanPath(path) == [i \in DOMAIN path |-> Clean(path[i])]

\* Mutated form: every required name is copied.
ValidRequired_All(required, names) == [i \in DOMAIN required |-> Clean(required[i])]

\* validateRequiredFields: no names at all are null in the code.
ValidRequired(required, names) ==
  Where([i \in DOMAIN required |-> Clean(required[i])], LAMBDA n : n \in names)

-----------------------------------------------------------------------------
(* transformParameters.                                                    *)

Simplified(schema) == Cardinality(Names(schema, <<>>)) > MaxProps

\* simplifyComplexTool goes through the sorted names and stops.
Preserved(schema) ==
  LET sorted == Where(Sorted, LAMBDA n : n \in Names(schema, <<>>))
  IN IF Simplified(schema) THEN SubSeq(sorted, 1, MaxPreserved) ELSE sorted

\* Mutated form: the deepest level that may be nested is lost.
TooDeep_OneLevelLess(path) == Len(path) - 1 >= MaxNesting

\* A property of the root has depth 0.
TooDeep(path) == Len(path) - 1 > MaxNesting

\* transformObject keeps the properties of the object.
Opened(schema, path) ==
  \/ path = <<>>
  \/ /\ ~TooDeep(path)
     /\ schema[path].type = "object" /\ schema[path].props
     /\ Cardinality(Names(schema, path)) <= MaxProps

\* transformPropertySchema, copySimpleProperties and transformArray; at the
\* root, the type as it is.
Transform(schema, path) ==
  LET node == schema[path]
      kept == IF path = <<>> THEN ToSet(Preserved(schema)) ELSE Names(schema, path)
      names == {Clean(n) : n \in kept} \cup (IF path = <<>> /\ Simplified(schema)
                                             THEN {"data"} ELSE {})
      object == Node("object", TRUE, ValidRequired(node.required, names))
  IN CASE path = <<>> -> [object EXCEPT !.type = node.type, !.props = node.props]
       [] path # <<>> /\ Opened(schema, path) -> object
       [] path # <<>> /\ ~TooDeep(path) /\ node.type = "array" ->
            [Node("array", FALSE, <<>>) EXCEPT
               !.items = IF node.items = "" THEN "string" ELSE node.items]
       [] path # <<>> /\ ~TooDeep(path)
          /\ node.type \notin {"object", "array", "union", "odd", ""} ->
            [Node(node.type, FALSE, <<>>) EXCEPT !.constraints = node.constraints \cap Copied]
       [] path # <<>> /\ ~TooDeep(path) /\ node.type = "" ->
            [AString EXCEPT !.constraints = node.constraints \cap Copied]
       [] OTHER -> AString

\* Two properties that get the same name: what is written last is kept.
Rivals(p, q) == /\ p # <<>> /\ q # <<>> /\ Parent(p) = Parent(q)
                /\ Clean(Last(p)) = Clean(Last(q))

\* Go goes through a map in any order, so any of the rivals may come last;
\* simplifyComplexTool goes through its names in theirs.
LastWritten(schema) ==
  LET tried == {p \in DOMAIN schema : Len(p) = 1 => p[1] \in ToSet(Preserved(schema))}
      before(m, n) == SelectInSeq(Sorted, LAMBDA x : x = m)
                      < SelectInSeq(Sorted, LAMBDA x : x = n)
  IN {last \in SUBSET tried :
        /\ \A p \in tried : \E q \in last : q = p \/ Rivals(p, q)
        /\ \A p, q \in last : Rivals(p, q) => p = q
        /\ Simplified(schema) =>
             \A p \in last, q \in tried :
               Len(p) = 1 /\ Rivals(p, q) => ~before(p[1], q[1])}

TransformParameters(schema, last) ==
  LET kept == {p \in last : \A i \in 1..Len(p) :
                 SubSeq(p, 1, i) \in last /\ Opened(schema, SubSeq(p, 1, i - 1))}
      paths == {CleanPath(p) : p \in kept}
      data == IF Simplified(schema) THEN {<<"data">>} ELSE {}
  IN IF schema = <<>> THEN [root \in {<<>>} |-> Node("object", TRUE, <<>>)]
     ELSE [q \in paths \cup data |->
             IF q \in paths THEN Transform(schema, CHOOSE p \in kept : CleanPath(p) = q)
             ELSE AString]

\* ValidateAndTransformTools, for every order of the maps: tools without a
\* valid name are skipped.
ValidateAndTransformTools(list) ==
  LET named == Where(list, LAMBDA t : Valid(t.name))
      results(t) == {[name |-> t.name, schema |-> TransformParameters(t.schema, last)] :
                       last \in LastWritten(t.schema)}
  IN {s \in [DOMAIN named -> UNION {results(named[i]) : i \in DOMAIN named}] :
        \A i \in DOMAIN named : s[i] \in results(named[i])}

-----------------------------------------------------------------------------
(* ProcessTools.                                                           *)

\* Mutated form: only the names are hashed.
Key_NamesOnly(list, encoding) == <<[i \in DOMAIN list |-> list[i].name], encoding>>

\* GenerateToolsCacheKey hashes the JSON of each tool, whose map keys come in
\* any order.
Key(list, encoding) == <<list, encoding>>

ReceiveOpenAI(h) ==
  /\ pc[h] = "idle"
  /\ \E list \in OpenAITools, encoding \in Encodings :
       /\ tools' = [tools EXCEPT ![h] = list]
       /\ key' = [key EXCEPT ![h] = Key(list, encoding)]
       /\ pc' = [pc EXCEPT ![h] = IF list = <<>> THEN "send" ELSE "lookup"]
  /\ UNCHANGED <<definitions, cache>>

CacheHit(h) ==
  /\ pc[h] = "lookup"
  /\ \E entry \in cache : /\ entry.key = key[h]
                          /\ definitions' = [definitions EXCEPT ![h] = entry.tools]
  /\ pc' = [pc EXCEPT ![h] = "send"]
  /\ UNCHANGED <<tools, key, cache>>

Validate(h) ==
  /\ pc[h] = "lookup"
  /\ \A entry \in cache : entry.key # key[h]
  /\ \E validated \in ValidateAndTransformTools(tools[h]) :
       definitions' = [definitions EXCEPT ![h] = validated]
  /\ pc' = [pc EXCEPT ![h] = "store"]
  /\ UNCHANGED <<tools, key, cache>>

\* cache.Set, which replaces the entry of the key; others may be evicted.
Store(h) ==
  /\ pc[h] = "store"
  /\ \E kept \in SUBSET {e \in cache : e.key # key[h]} :
       /\ Cardinality(kept) < CacheSize
       /\ cache' = kept \cup {[key |-> key[h], tools |-> definitions[h]]}
  /\ pc' = [pc EXCEPT ![h] = "send"]
  /\ UNCHANGED <<tools, key, definitions>>

\* An entry expires or is evicted.
Drop == /\ \E entry \in cache : cache' = cache \ {entry}
        /\ UNCHANGED <<pc, tools, key, definitions>>

-----------------------------------------------------------------------------
(* The Anthropic handler.                                                  *)

\* stripUnsupportedSchemaFields goes down through properties only.
StripUnsupportedSchemaFields(schema) ==
  [p \in DOMAIN schema |-> [schema[p] EXCEPT !.meta = @ \ {"own"}]]

\* AnthropicToJetbrainsTools: no validation and no cache.
ReceiveAnthropic(h) ==
  /\ pc[h] = "idle"
  /\ \E list \in AnthropicTools :
       /\ tools' = [tools EXCEPT ![h] = list]
       /\ definitions' = [definitions EXCEPT ![h] =
            [i \in DOMAIN list |->
               [list[i] EXCEPT !.schema = StripUnsupportedSchemaFields(@)]]]
  /\ pc' = [pc EXCEPT ![h] = "send anthropic"]
  /\ UNCHANGED <<key, cache>>

\* buildToolsData or BuildPayloadDirect; the request goes on without us.
Send(h) == /\ pc[h] \in {"send", "send anthropic"}
           /\ pc' = [pc EXCEPT ![h] = "idle"]
           /\ tools' = [tools EXCEPT ![h] = <<>>]
           /\ key' = [key EXCEPT ![h] = <<>>]
           /\ definitions' = [definitions EXCEPT ![h] = <<>>]
           /\ UNCHANGED cache

Next == \/ \E h \in Handlers : \/ ReceiveOpenAI(h) \/ CacheHit(h) \/ Validate(h)
                               \/ Store(h) \/ ReceiveAnthropic(h) \/ Send(h)
        \/ Drop

Spec == Init /\ [][Next]_vars

-----------------------------------------------------------------------------
(* Properties.                                                             *)

\* What is sent for OpenAI tools is a schema upstream can use, whatever the
\* client sent: names are valid, every property has a parent that is open to
\* properties, only properties that are there are required, the numbers of
\* properties and levels are bounded, and no $ field is left; Anthropic
\* schemas lose every $ field that properties lead to (validate/tools.go:60,
\* convert/anthropic.go:120).
ToolsUsable == \A h \in Handlers : \A i \in DOMAIN definitions[h] :
  LET tool == definitions[h][i]
      schema == tool.schema
  IN /\ pc[h] = "send" =>
          /\ Valid(tool.name) /\ <<>> \in DOMAIN schema
          /\ \A p \in DOMAIN schema :
               /\ p # <<>> => Parent(p) \in DOMAIN schema /\ schema[Parent(p)].props
               /\ \A j \in DOMAIN p : Valid(p[j])
               /\ ToSet(schema[p].required) \subseteq Names(schema, p)
               /\ Cardinality(Names(schema, p)) <= MaxProps /\ Len(p) <= MaxNesting + 2
               /\ schema[p].type \notin {"union", "odd"} /\ schema[p].meta = {}
     /\ pc[h] = "send anthropic" => \A p \in DOMAIN schema : "own" \notin schema[p].meta

\* The property at path is one the code need not simplify: it and the objects
\* around it have a plain type, a name of their own, not too many neighbours
\* and not too many levels.
Simple(schema, path) == \A i \in 1..Len(path) :
  LET at == SubSeq(path, 1, i)
      node == schema[at]
  IN /\ i <= MaxNesting + 1 /\ Valid(path[i])
     /\ \A q \in DOMAIN schema : Rivals(at, q) => q = at
     /\ Cardinality(Names(schema, Parent(at))) <= MaxProps
     /\ node.type \in {"string", "integer", "array", "object"}
     /\ i < Len(path) => node.type = "object"
     /\ node.type = "object" => node.props /\ Cardinality(Names(schema, at)) <= MaxProps

\* Such properties are sent as they are, with their type, the type of their
\* items and, unless they are arrays or objects, their constraints, and are
\* still required if they were, up to the deepest level and the last property
\* that is allowed (tools.go:77, :159, :213), from the cache or not.
SimpleKept == \A h \in Handlers : pc[h] = "send" =>
  \A i \in DOMAIN definitions[h] : \E t \in ToSet(tools[h]) :
    /\ t.name = definitions[h][i].name
    /\ \A p \in DOMAIN t.schema \ {<<>>} : Simple(t.schema, p) =>
         LET sent == definitions[h][i].schema
             needed(schema) == Last(p) \in ToSet(schema[Parent(p)].required)
         IN /\ p \in DOMAIN sent /\ (needed(t.schema) => needed(sent))
            /\ sent[p].type = t.schema[p].type
            /\ t.schema[p].type = "array" => t.schema[p].items \in {"", sent[p].items}
            /\ t.schema[p].type \in {"array", "object"}
               \/ sent[p].constraints = t.schema[p].constraints \cap Copied

Collapsing(list) == \E t \in ToSet(list) : \E p, q \in DOMAIN t.schema : Rivals(p, q) /\ p # q
Shape(list) == [i \in DOMAIN list |-> DOMAIN list[i].schema]

\* The same tools are sent in the same form each time, whatever the order of
\* Go's maps and whatever the cache holds; where two names collapse into one,
\* which of the two is sent may change, but not the names at the root
\* (tools.go:109, processor.go:88).
SameForm == \A h, k \in Handlers :
  pc[h] = "send" /\ pc[k] = "send" /\ tools[h] = tools[k] =>
    /\ \A i \in DOMAIN definitions[h] :
         Names(definitions[h][i].schema, <<>>) = Names(definitions[k][i].schema, <<>>)
    /\ Collapsing(tools[h]) \/ definitions[h] = definitions[k]
=============================================================================

--------------------------- MODULE CallValidator ---------------------------
(***************************************************************************)
(* validateCallGraph (src/src/call-validator.ts).                          *)
(*                                                                         *)
(* A graph is a sequence of nodes.  The arguments of a node are an object  *)
(* whose fields are absent, a literal or a reference to the output of a    *)
(* node; references inside a literal are left out, and so is the rest of   *)
(* a node's shape.  Values and schemas are kept to two levels: an object   *)
(* or an array, and what is in it.  Every tool has an output schema, which *)
(* may be empty.  The last check, detectCycles, is in CallExecutor.        *)
(***************************************************************************)
EXTENDS Naturals, Sequences, SequencesExt

CONSTANTS Fields,  \* field names
          Json,    \* the JSON values: value -> [type, formats, items, fields]
          Tools    \* the tools: name -> [properties, required, closed, output, capability]

Values == DOMAIN Json

\* Formats are those that a string has; items are the elements of an array,
\* fields the content of an object.
ASSUME ValuesAssumption ==
    /\ "null" \in Values
    /\ \A v \in Values :
        /\ Json[v].items \subseteq Values
        /\ \A k \in DOMAIN Json[v].fields : Json[v].fields[k] \in Values

\* The input schema of a tool describes fields.
ASSUME ToolsAssumption ==
    \A t \in DOMAIN Tools : \A f \in DOMAIN Tools[t].properties : f \in Fields

-----------------------------------------------------------------------------
(* JsonSchema: [type, enum, format, items, properties, required, closed].  *)
(* No type is "any", no enum all values, no format "none"; items is a set  *)
(* of one schema or none.  The schemas of items and properties have only   *)
(* the first three.                                                        *)

matchesType(v, type) ==
    type \in {"any", Json[v].type} \/ (type = "number" /\ Json[v].type = "integer")

\* validateValue of a literal without the last two branches.
validateShallow(v, schema) ==
    IF ~matchesType(v, schema.type) THEN {"CFV101"}
    ELSE (IF v \in schema.enum THEN {} ELSE {"CFV103"})
         \cup (IF /\ Json[v].type = "string" /\ schema.format # "none"
                  /\ schema.format \notin Json[v].formats
               THEN {"CFV104"} ELSE {})

\* What is in a literal: the fields of an object, the elements of an array.
validateObject(fields, schema) ==
    (IF schema.required \subseteq DOMAIN fields THEN {} ELSE {"CFV102"})
    \cup (IF schema.closed /\ DOMAIN fields \ DOMAIN schema.properties # {} THEN {"CFV105"} ELSE {})
    \cup UNION {validateShallow(fields[k], schema.properties[k]) :
                    k \in DOMAIN fields \cap DOMAIN schema.properties}
validateArray(items, schema) ==
    UNION {validateShallow(v, s) : v \in items, s \in schema.items}

validateLiteral(v, schema) ==
    validateShallow(v, schema)
    \cup (IF schema.type = "object" /\ Json[v].type = "object"
          THEN validateObject(Json[v].fields, schema) ELSE {})
    \cup (IF schema.type = "array" /\ Json[v].type = "array"
          THEN validateArray(Json[v].items, schema) ELSE {})

matches(v, schema) == validateLiteral(v, schema) = {}

\* What compatible accepts before it compares anything.
Waived(source, target) ==
    "any" \in {source.type, target.type} \/ <<source.type, target.type>> = <<"integer", "number">>

\* Mutant: enums are not compared.
SameKindOnly(source, target) ==
    /\ source.type = target.type
    /\ target.format # "none" => source.format = target.format

SameKind(source, target) ==
    /\ source.type = target.type
    /\ source.enum \subseteq target.enum
    /\ target.format # "none" => source.format = target.format

compatibleShallow(source, target) == Waived(source, target) \/ SameKind(source, target)

compatibleItems(source, target) ==
    \A t \in target.items : \E s \in source.items : compatibleShallow(s, t)

\* Only required properties are compared.
compatibleProperties(source, target) ==
    /\ \A k \in target.required :
        /\ k \in source.required /\ k \in DOMAIN source.properties /\ k \in DOMAIN target.properties
        /\ compatibleShallow(source.properties[k], target.properties[k])
    /\ target.closed => source.closed /\ DOMAIN source.properties \subseteq DOMAIN target.properties

compatible(source, target) ==
    \/ Waived(source, target)
    \/ /\ SameKind(source, target)
       /\ target.type = "array" => compatibleItems(source, target)
       /\ target.type = "object" => compatibleProperties(source, target)

-----------------------------------------------------------------------------
(* Nodes and edges.                                                        *)

Shaped(graph) == {i \in DOMAIN graph : graph[i].shape}
Ids(graph) == {graph[i].id : i \in Shaped(graph)}
byId(graph, id) == graph[CHOOSE i \in Shaped(graph) :
                            /\ graph[i].id = id
                            /\ \A j \in Shaped(graph) : graph[j].id = id => i <= j]

References(n, fields) == {n.arguments[f].of : f \in {g \in fields : n.arguments[g].kind = "ref"}}

\* The fields of a node that validateValue descends into.
Described(n) == IF n.tool \in DOMAIN Tools THEN DOMAIN Tools[n.tool].properties ELSE {}

adjacency(graph) ==
    [id \in Ids(graph) |->
        Ids(graph) \cap UNION {graph[i].dependsOn \cup References(graph[i], Described(graph[i])) :
                                    i \in {j \in Shaped(graph) : graph[j].id = id}}]

-----------------------------------------------------------------------------
(* Diagnostics.                                                            *)

\* Diagnostics of one described field.
validateField(graph, a, schema) ==
    CASE a.kind = "absent" -> {}
      [] a.kind = "literal" -> validateLiteral(a.of, schema)
      [] a.kind = "ref" ->
            IF a.of \notin Ids(graph) THEN {"CFV004"}
            ELSE LET source == byId(graph, a.of).tool IN
                 IF source \in DOMAIN Tools /\ compatible(Tools[source].output, schema)
                 THEN {} ELSE {"CFV106"}

\* validateValue of the arguments of node n.
validateValue(graph, n) ==
    LET tool == Tools[n.tool]
        present == {f \in Fields : n.arguments[f].kind # "absent"} IN
    (IF tool.required \subseteq present THEN {} ELSE {"CFV102"})
    \cup (IF tool.closed /\ present \ DOMAIN tool.properties # {} THEN {"CFV105"} ELSE {})
    \cup UNION {validateField(graph, n.arguments[f], tool.properties[f]) : f \in DOMAIN tool.properties}

NodeErrors(graph, n) ==
    (IF n.dependsOn \subseteq Ids(graph) THEN {} ELSE {"CFV004"})
    \cup (IF n.tool \in DOMAIN Tools THEN validateValue(graph, n) ELSE {"CFV003"})

\* The errors of a graph that it does not take a walk to find.
validateCallGraph(graph) ==
    (IF Shaped(graph) = DOMAIN graph THEN {} ELSE {"CFV001"})
    \cup (IF \E i, j \in Shaped(graph) : i # j /\ graph[i].id = graph[j].id THEN {"CFV002"} ELSE {})
    \cup UNION {NodeErrors(graph, graph[i]) : i \in Shaped(graph)}
=============================================================================

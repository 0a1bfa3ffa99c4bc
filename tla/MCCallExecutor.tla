--------------------------- MODULE MCCallExecutor ---------------------------
(* Model-checking instance of CallExecutor. *)
EXTENDS CallExecutor

Scalar(type) == [type |-> type, formats |-> {}, items |-> {}, fields |-> [k \in {} |-> "null"]]
Object(fields) == [Scalar("object") EXCEPT !.fields = fields]
Array(items) == [Scalar("array") EXCEPT !.items = items]

JsonValues ==
    LET names == {"null", "1", "2", "1.5", "x", "uuid", "[1]", "[x]", "{}", "{a:1}", "{a:x}", "{a:1,b:x}"}
    IN [v \in names |->
        CASE v = "null" -> Scalar("null")
          [] v \in {"1", "2"} -> Scalar("integer")
          [] v = "1.5" -> Scalar("number")
          [] v = "x" -> Scalar("string")
          [] v = "uuid" -> [Scalar("string") EXCEPT !.formats = {"uuid"}]
          [] v = "[1]" -> Array({"1"})
          [] v = "[x]" -> Array({"x"})
          [] v = "{}" -> Object([k \in {} |-> "null"])
          [] v = "{a:1}" -> Object([a |-> "1"])
          [] v = "{a:x}" -> Object([a |-> "x"])
          [] v = "{a:1,b:x}" -> Object([a |-> "1", b |-> "x"])]

\* Schemas.
Inner(type) == [type |-> type, enum |-> Values, format |-> "none"]
OfType(type) ==
    [type |-> type, enum |-> Values, format |-> "none", items |-> {},
     properties |-> [k \in {} |-> Inner("any")], required |-> {}, closed |-> FALSE]
One(type) == [OfType(type) EXCEPT !.enum = {"1"}]
ObjectOf(properties, required, closed) ==
    [OfType("object") EXCEPT !.properties = properties, !.required = required, !.closed = closed]

\* "known" is described by the schemas, "extra" is not.
Tool(input, closed, output, capability) ==
    [properties |-> [f \in {"known"} |-> input], required |-> {}, closed |-> closed,
     output |-> output, capability |-> capability]
\* A tool with one schema for what it takes and what it answers with.
Same(schema) == Tool(schema, FALSE, schema, "read")

\* Tools for integers and numbers, and one that does not say what it answers
\* with, requires its argument and allows no other; then enums, formats, arrays
\* and objects whose field a is an integer, and is required or not.
ToolSet ==
    LET a == [a |-> Inner("integer")] IN
    [int |-> Tool(OfType("integer"), FALSE, One("integer"), "read"),
     num |-> Tool(OfType("number"), FALSE, OfType("number"), "write"),
     any |-> [Tool(OfType("any"), TRUE, OfType("any"), "read") EXCEPT !.required = {"known"}],
     integer |-> Same(OfType("integer")), one |-> Same(One("number")), listed |-> Same(One("any")),
     string |-> Same(OfType("string")), uuid |-> Same([OfType("string") EXCEPT !.format = "uuid"]),
     array |-> Same(OfType("array")),
     integers |-> Same([OfType("array") EXCEPT !.items = {Inner("integer")}]),
     numbers |-> Same([OfType("array") EXCEPT !.items = {Inner("number")}]),
     object |-> Same(OfType("object")), optional |-> Same(ObjectOf(a, {}, FALSE)),
     required |-> Same(ObjectOf(a, {"a"}, FALSE)), closed |-> Same(ObjectOf(a, {"a"}, TRUE))]

Absent == [kind |-> "absent", of |-> "none"]
Literal(v) == [kind |-> "literal", of |-> v]
Ref(id) == [kind |-> "ref", of |-> id]

ANode(id, tool, deps, known, extra) ==
    [shape |-> TRUE, id |-> id, tool |-> tool, dependsOn |-> deps,
     arguments |-> [f \in {"known", "extra"} |-> IF f = "known" THEN known ELSE extra]]

\* Every shape of three nodes with one dependency and one reference each.
Shapes ==
    LET ids == {"n1", "n2", "n3"}
        of(id) == {ANode(id, "int", deps, known, Absent) :
                        deps \in {{}} \cup {{d} : d \in ids},
                        known \in {Absent} \cup {Ref(d) : d \in ids}}
    IN {<<a, b, c>> : a \in of("n1"), b \in of("n2"), c \in of("n3")}

\* Two nodes, with all that can be wrong or hidden about the second.
Pairs ==
    {<<a, b>> :
        a \in {ANode("n1", tool, {}, Literal("1"), Absent) : tool \in {"int", "num", "any"}},
        b \in {ANode("n2", tool, {}, known, extra) :
                    tool \in {"int", "num", "any"},
                    known \in {Absent, Literal("1.5"), Ref("n1")},
                    extra \in {Absent, Ref("n1"), Ref("n2"), Ref("n9")}}}

\* Every literal for every tool, and one node that feeds another for every two tools.
Alone == {<<ANode("n1", tool, {}, Literal(v), Absent)>> : tool \in DOMAIN ToolSet, v \in Values}
Fed ==
    {<<ANode("n1", source, {}, IF source = "any" THEN Literal("1") ELSE Absent, Absent),
       ANode("n2", target, {}, Ref("n1"), Absent)>> :
        source \in DOMAIN ToolSet, target \in DOMAIN ToolSet}

\* Graphs that are refused for their shape, a duplicate, a tool or a dependency.
Refused ==
    LET a == ANode("n1", "int", {}, Absent, Absent) IN
    {<<a, [a EXCEPT !.shape = FALSE]>>, <<a, a>>, <<[a EXCEPT !.tool = "none"]>>,
     <<[a EXCEPT !.dependsOn = {"n9"}]>>, <<a, a, a, a>>}

GraphSet == Shapes \cup Pairs \cup Alone \cup Fed \cup Refused \cup {<<>>}

\* A pair that is recorded, edited and replayed, its nodes independent of each other
\* or one feeding the other; the latter is recorded twice.
Replayed(known) == <<ANode("n1", "int", {}, Literal("1"), Absent), ANode("n2", "num", {}, known, Absent)>>

\* The others are executed once.
CallBound ==
    [g \in GraphSet |-> IF g = Replayed(Ref("n1")) THEN 3 ELSE IF g = Replayed(Absent) THEN 2 ELSE 1]

\* Any value may be fed to a tool; elsewhere an integer, a number and a string will
\* do, and fewer in the larger graphs and in the longer histories.
AnswerBound ==
    [g \in GraphSet |-> IF g \in Fed THEN Values
                        ELSE IF g = Replayed(Ref("n1")) THEN {"1", "1.5"}
                        ELSE IF g \in Shapes THEN {"1", "x"} ELSE {"1", "1.5", "x"}]
=============================================================================

---------------------------- MODULE CallExecutor ----------------------------
(***************************************************************************)
(* executeCallGraph (src/src/call-executor.ts): a graph is validated,      *)
(* ordered and checked against the policy, then its tools run one after    *)
(* the other in a sandbox, recorded or replayed.                           *)
(*                                                                         *)
(* A sequence of executions of one graph; between two of them a tool may   *)
(* be edited (its version is its source).  A tool answers as it likes.     *)
(* Hashes do not collide, and a record is authentic if it was made with    *)
(* the replay key.                                                         *)
(***************************************************************************)
EXTENDS CallValidator

CONSTANTS Graphs,        \* the graphs that are executed
          Capabilities,
          MaxNodes,      \* policy.maxNodes
          MaxCalls,      \* bound: executions of each graph
          Answers        \* bound: what the tools of each graph may answer with

VARIABLES graph,
          version,   \* the version of every tool
          exec,      \* the execution in progress
          audit,     \* its audit trail
          ran,       \* what the sandbox answered: every run that was made
          records,   \* the replay records that were returned
          calls      \* executions begun

vars == <<graph, version, exec, audit, ran, records, calls>>

\* A graph is a sequence of nodes, each with an argument for every field.
ASSUME GraphsAssumption ==
    \A g \in Graphs :
        /\ g \in Seq(ToSet(g))
        /\ \A i \in DOMAIN g, f \in Fields :
            LET a == g[i].arguments[f] IN
            \/ a.kind = "absent" /\ a.of = "none"
            \/ a.kind = "literal" /\ a.of \in Values
            \/ a.kind = "ref"

ASSUME AnswersAssumption == \A g \in Graphs : Answers[g] \subseteq Values

Modes == {"disabled", "record", "replay"}
Decisions == {"validation_denied", "capability_denied", "attempted", "executed", "failed", "replayed"}

Nodes == {graph[i].id : i \in DOMAIN graph}
NodeOf(id) == byId(graph, id)
Capability(id) == Tools[NodeOf(id).tool].capability

\* An execution that has not come to a node.
\* exec.stack and exec.done belong to the walks over the graph; exec.sequence
\* counts the nodes, exec.outputs holds their outputs so far, exec.seen the
\* observed output, exec.made what will be recorded.
Fresh(at, mode, allowed, given) ==
    [at |-> at, mode |-> mode, allowed |-> allowed, given |-> given,
     stack |-> <<>>, done |-> <<>>, order |-> <<>>, sequence |-> 1,
     outputs |-> [id \in {} |-> "null"], seen |-> "null", made |-> {}]

-----------------------------------------------------------------------------
(* References.                                                             *)

\* collectReferences finds a reference in any field, described or not.
Dependencies ==
    [id \in Nodes |-> NodeOf(id).dependsOn \cup References(NodeOf(id), Fields)]

\* resolveReferences; a field is absent, a literal or an output.
Resolved(id, outputs) ==
    [f \in Fields |->
        LET a == NodeOf(id).arguments[f] IN IF a.kind = "ref" THEN outputs[a.of] ELSE a.of]

-----------------------------------------------------------------------------
(* An execution begins: the checks that come before any tool runs.         *)

Entry(decision, id) == [decision |-> decision, node |-> id]

\* The execution ends before any node, with an error.
Over(given) == exec' = Fresh("over", exec.mode, {}, given)

Begin(mode, allowed, given) ==
    /\ exec.at \in {"idle", "over"} /\ calls < MaxCalls[graph]
    /\ calls' = calls + 1
    /\ \/ /\ Len(graph) > MaxNodes \/ validateCallGraph(graph) # {}
          /\ exec' = Fresh("over", mode, {}, <<>>)
          /\ audit' = <<Entry("validation_denied", "none")>>
       \/ /\ ~(Len(graph) > MaxNodes \/ validateCallGraph(graph) # {})
          /\ exec' = Fresh("walk", mode, allowed, given)
          /\ audit' = <<>>
    /\ UNCHANGED <<graph, version, ran, records>>

-----------------------------------------------------------------------------
(* Two walks, depth first: detectCycles and topologicalOrder.  exec.stack  *)
(* holds the nodes whose call is running, exec.done those whose call has   *)
(* returned, in that order; calling one of these again does nothing and is *)
(* left out.  A set of successors is iterated in any order.                *)

Active == ToSet(exec.stack)
Done == ToSet(exec.done)

\* Whom the running loop may call next: over the graph, the first node that is
\* left; in the call of a node, a successor that is left.
Callees(successors) ==
    IF exec.stack = <<>>
    THEN {graph[i].id : i \in {j \in DOMAIN graph : /\ graph[j].id \notin Done
                                                   /\ \A k \in 1..(j - 1) : graph[k].id \in Done}}
    ELSE successors[Last(exec.stack)] \ Done

Enter(id) == exec' = [exec EXCEPT !.stack = Append(@, id)]

\* The loop of a call has come to its end.
Leave(successors) ==
    /\ exec.stack # <<>> /\ Callees(successors) = {}
    /\ exec' = [exec EXCEPT !.stack = Front(@), !.done = Append(@, Last(exec.stack))]
    /\ UNCHANGED audit

\* walk: an active node closes a cycle and the graph is not valid.
WalkInto ==
    /\ exec.at = "walk"
    /\ \E id \in Callees(adjacency(graph)) :
        \/ id \notin Active /\ Enter(id) /\ UNCHANGED audit
        \/ id \in Active /\ Over(<<>>) /\ audit' = <<Entry("validation_denied", "none")>>
    /\ UNCHANGED <<graph, version, ran, records, calls>>

WalkBack ==
    /\ exec.at = "walk" /\ Leave(adjacency(graph))
    /\ UNCHANGED <<graph, version, ran, records, calls>>

\* Mutant: cycles are looked for from the first node only.
WalkFromFirst ==
    /\ exec.at = "walk" /\ exec.stack = <<>> /\ exec.done # <<>>
    /\ exec' = [exec EXCEPT !.at = "visit", !.done = <<>>]
    /\ UNCHANGED <<graph, version, audit, ran, records, calls>>

\* The graph is valid; records are for replay only.
WalkEnds ==
    /\ exec.at = "walk" /\ exec.stack = <<>> /\ Callees(adjacency(graph)) = {}
    /\ IF exec.mode # "replay" /\ exec.given # <<>>
       THEN Over(exec.given)
       ELSE exec' = [exec EXCEPT !.at = "visit", !.done = <<>>]
    /\ UNCHANGED <<graph, version, audit, ran, records, calls>>

\* visit: a node that does not exist has no dependencies to read, and one that is
\* active calls itself until the stack overflows.
VisitInto ==
    /\ exec.at = "visit"
    /\ \E id \in Callees(Dependencies) :
        IF id \in Nodes \ Active THEN Enter(id) ELSE Over(exec.given)
    /\ UNCHANGED <<graph, version, audit, ran, records, calls>>

VisitBack ==
    /\ exec.at = "visit" /\ Leave(Dependencies)
    /\ UNCHANGED <<graph, version, ran, records, calls>>

\* Mutant: a capability is checked when its node is reached.
DeniedFirst(order, allowed) == {i \in DOMAIN order \cap {1} : Capability(order[i]) \notin allowed}

Denied(order, allowed) == {i \in DOMAIN order : Capability(order[i]) \notin allowed}

\* The order is complete: one record for each node, then the capabilities.
VisitEnds ==
    /\ exec.at = "visit" /\ exec.stack = <<>> /\ Callees(Dependencies) = {}
    /\ LET denied == Denied(exec.done, exec.allowed)
           short == exec.mode = "replay" /\ Len(exec.given) # Len(exec.done) IN
        \/ short /\ Over(exec.given) /\ UNCHANGED audit
        \/ /\ ~short /\ denied # {} /\ Over(<<>>)
           /\ audit' = <<Entry("capability_denied", exec.done[Min(denied)])>>
        \/ /\ ~short /\ denied = {} /\ UNCHANGED audit
           /\ exec' = [exec EXCEPT !.at = "node", !.order = exec.done, !.done = <<>>]
    /\ UNCHANGED <<graph, version, ran, records, calls>>

-----------------------------------------------------------------------------
(* A node.                                                                 *)

Current == exec.order[exec.sequence]
Input == Resolved(Current, exec.outputs)
CurrentTool == Tools[NodeOf(Current).tool]

\* The entry is in the trail before the sink takes it, or refuses it.
Audited(decision) == audit' = Append(audit, Entry(decision, Current))

Attempt ==
    /\ exec.at = "node" /\ exec.mode # "replay" /\ exec.sequence <= Len(exec.order)
    /\ Audited("attempted")
    /\ \E at \in {"sandbox", "failing"} : exec' = [exec EXCEPT !.at = at]
    /\ UNCHANGED <<graph, version, ran, records, calls>>

\* What a record says of a run, without its authentication.
Element(output) ==
    [sequence |-> exec.sequence, node |-> Current, input |-> Input,
     version |-> version[NodeOf(Current).tool], output |-> output]

\* The record of an element, authenticated with the replay key.
makeReplay(e) ==
    [sequence |-> e.sequence, node |-> e.node, input |-> e.input,
     version |-> e.version, output |-> e.output, authentic |-> TRUE]

\* spawnBounded ends with the tool's answer.
Sandbox(output) ==
    /\ exec.at = "sandbox"
    /\ ran' = ran \cup {Element(output)}
    /\ exec' = [exec EXCEPT !.at = "observed", !.seen = output]
    /\ UNCHANGED <<graph, version, audit, records, calls>>

\* Timeout, too much output, a bad exit, no sandbox on this platform.
SandboxFails ==
    /\ exec.at = "sandbox" /\ exec' = [exec EXCEPT !.at = "failing"]
    /\ UNCHANGED <<graph, version, audit, ran, records, calls>>

\* validateOutput and assertOutputSize.
ValidOutput(output) == matches(output, CurrentTool.output)

\* Mutant: a record is checked by its place alone.
VerifiedByPlace(r) == r.authentic /\ r.sequence = exec.sequence /\ r.node = Current
\* verifyReplay.
Verified(r) ==
    /\ r.authentic /\ r.sequence = exec.sequence /\ r.node = Current /\ r.input = Input
    /\ r.version = version[NodeOf(Current).tool]

\* The output is kept for the nodes that refer to it, and recorded.
Keep(output) ==
    exec' = [exec EXCEPT !.at = "node", !.seen = "null", !.sequence = @ + 1,
                !.outputs = [id \in DOMAIN @ \cup {Current} |->
                                IF id = Current THEN output ELSE @[id]],
                !.made = IF exec.mode = "record" THEN @ \cup {Element(output)} ELSE @]

Executed ==
    /\ exec.at = "observed"
    /\ \/ /\ ValidOutput(exec.seen)
          /\ Audited("executed")
          /\ Keep(exec.seen) \/ exec' = [exec EXCEPT !.at = "failing"]
       \/ /\ ~ValidOutput(exec.seen)
          /\ exec' = [exec EXCEPT !.at = "failing"] /\ UNCHANGED audit
    /\ UNCHANGED <<graph, version, ran, records, calls>>

Replay ==
    /\ exec.at = "node" /\ exec.mode = "replay" /\ exec.sequence <= Len(exec.order)
    /\ LET r == exec.given[exec.sequence] IN
        \/ /\ Verified(r) /\ ValidOutput(r.output)
           /\ Audited("replayed")
           /\ Keep(r.output) \/ exec' = [exec EXCEPT !.at = "failing"]
        \/ /\ ~(Verified(r) /\ ValidOutput(r.output))
           /\ exec' = [exec EXCEPT !.at = "failing"] /\ UNCHANGED audit
    /\ UNCHANGED <<graph, version, ran, records, calls>>

\* Mutant: the failure is thrown but not audited.
FailSilently ==
    /\ exec.at = "failing"
    /\ exec' = [exec EXCEPT !.at = "over"]
    /\ UNCHANGED <<graph, version, audit, ran, records, calls>>

\* The catch clause; the caller gets an error and no outputs.
Fail ==
    /\ exec.at = "failing"
    /\ Audited("failed") /\ exec' = [exec EXCEPT !.at = "over"]
    /\ UNCHANGED <<graph, version, ran, records, calls>>

Return ==
    /\ exec.at = "node" /\ exec.sequence > Len(exec.order)
    /\ exec' = [exec EXCEPT !.at = "over"]
    /\ records' = records \cup {makeReplay(e) : e \in exec.made}
    /\ UNCHANGED <<graph, version, audit, ran, calls>>

-----------------------------------------------------------------------------
\* A tool is edited between executions.
Edit(t) ==
    /\ exec.at = "over" /\ calls < MaxCalls[graph]
    /\ version[t] = 1 /\ \E id \in Nodes : NodeOf(id).tool = t
    /\ version' = [version EXCEPT ![t] = 2]
    /\ UNCHANGED <<graph, exec, audit, ran, records, calls>>

\* Any records, in any order; forged ones carry another output.
Forged == {[r EXCEPT !.authentic = FALSE, !.output = "null"] : r \in records}
Given(mode) ==
    IF mode = "replay" THEN [1..Len(graph) -> records \cup Forged] \cup {<<>>}
    ELSE {<<>>} \cup {<<r>> : r \in records}

Next ==
    \/ \E mode \in Modes, allowed \in SUBSET Capabilities :
        \E given \in Given(mode) : Begin(mode, allowed, given)
    \/ \E output \in Answers[graph] : Sandbox(output)
    \/ WalkInto \/ WalkBack \/ WalkEnds \/ VisitInto \/ VisitBack \/ VisitEnds
    \/ Attempt \/ SandboxFails \/ Executed \/ Replay \/ Fail \/ Return
    \/ \E t \in DOMAIN Tools : Edit(t)

Init ==
    /\ graph \in Graphs /\ version = [t \in DOMAIN Tools |-> 1]
    /\ exec = Fresh("idle", "disabled", {}, <<>>) /\ audit = <<>> /\ ran = {} /\ records = {} /\ calls = 0

Spec == Init /\ [][Next]_vars

\* What a record says of a run, and records.
Elements == [sequence: Nat, node: Nodes, input: [Fields -> Values \cup {"none"}],
             version: {1, 2}, output: Values]
Records == [sequence: Nat, node: Nodes, input: [Fields -> Values \cup {"none"}],
            version: {1, 2}, output: Values, authentic: BOOLEAN]
Phases == {"idle", "walk", "visit", "node", "sandbox", "observed", "failing", "over"}

Execution == [at: Phases, mode: Modes, allowed: SUBSET Capabilities, given: Seq(Records),
              stack: Seq(Nodes), done: Seq(Nodes), order: Seq(Nodes), sequence: Nat \ {0},
              outputs: UNION {[S -> Values] : S \in SUBSET Nodes}, seen: Values,
              made: SUBSET Elements]

TypeOK ==
    /\ graph \in Graphs /\ version \in [DOMAIN Tools -> {1, 2}] /\ calls \in Nat
    /\ exec \in Execution
    /\ audit \in Seq([decision: Decisions, node: Nodes \cup {"none"}])
    /\ ran \subseteq Elements /\ records \subseteq Records

-----------------------------------------------------------------------------
(* Properties.                                                             *)

\* What a node waits for, by its declared dependencies and its arguments.
Needs(n) == n.dependsOn \cup {n.arguments[f].of : f \in {g \in Fields : n.arguments[g].kind = "ref"}}

\* References in fields that the schema of the tool does not describe.
Hidden == UNION {References(graph[i], Fields \ Described(graph[i])) : i \in DOMAIN graph}

\* The order of an accepted graph has every node once, after all that it waits
\* for, and a graph is accepted or refused with an audit entry: only a reference
\* in a field that no schema describes, or the wrong number of records, can make
\* an execution end without one (or a graph without nodes, which returns nothing).
OrderIsTopological ==
    /\ exec.order # <<>> =>
        /\ Len(exec.order) = Len(graph) /\ ToSet(exec.order) = Nodes
        /\ \A i \in DOMAIN exec.order :
                Needs(NodeOf(exec.order[i])) \subseteq {exec.order[j] : j \in 1..(i - 1)}
    /\ exec.at = "over" /\ audit = <<>> =>
        graph = <<>> \/ Hidden # {} \/ Len(exec.given) # (IF exec.mode = "replay" THEN Len(graph) ELSE 0)

\* No tool runs and nothing is replayed unless every node of the graph has a
\* capability that the policy allows, the last node as well as the first.
AllAllowedBeforeAny ==
    (\E i \in DOMAIN audit : audit[i].decision \in {"attempted", "replayed"}) =>
        \A id \in Nodes : Capability(id) \in exec.allowed

\* The trail accounts for every output: a later node sees the output of a node
\* only if the trail says that it was executed or replayed and does not say that
\* it failed, and a tool runs only after its attempt is in the trail, also when
\* the audit sink refuses entries.
TrailMatchesOutputs ==
    LET Said(id, ds) == \E i \in DOMAIN audit : audit[i].node = id /\ audit[i].decision \in ds IN
    /\ \A id \in DOMAIN exec.outputs :
            Said(id, {"executed", "replayed"}) /\ ~Said(id, {"failed"})
    /\ \A i \in 1..(Len(audit) - 1) : audit[i].decision # "failed"
    /\ exec.at \in {"sandbox", "observed"} =>
            audit # <<>> /\ Last(audit) = Entry("attempted", Current)
    /\ exec.at = "over" /\ exec.order # <<>> =>
            DOMAIN exec.outputs = Nodes \/ \E id \in Nodes : Said(id, {"failed"})

\* What a comparison of types, enums and formats leaves open: the source does not
\* say its type, the target says no type but an enum or a format, or it lists the
\* numbers and gets an integer.
UncheckedShallow(source, target) ==
    \/ source.type = "any"
    \/ target.type = "any" /\ (target.enum # Values \/ target.format # "none")
    \/ source.type = "integer" /\ target.type = "number" /\ target.enum # Values

\* The optional properties of the target that the source may answer with and does
\* not describe well enough.
Uncompared(source, target) ==
    {k \in DOMAIN target.properties \ target.required :
        IF k \in DOMAIN source.properties
        THEN \/ ~compatibleShallow(source.properties[k], target.properties[k])
             \/ UncheckedShallow(source.properties[k], target.properties[k])
        ELSE ~source.closed}

Unchecked(source, target) ==
    \/ UncheckedShallow(source, target)
    \/ /\ target.type = "array"
       /\ \E s \in source.items, t \in target.items : UncheckedShallow(s, t)
    \/ /\ target.type = "object"
       /\ \/ Uncompared(source, target) # {}
          \/ \E k \in target.required : UncheckedShallow(source.properties[k], target.properties[k])

\* A tool is never run with an argument that its schema forbids, whatever the
\* tools before it answered: arguments are checked before any tool runs and not
\* again once references are resolved, so the comparison of schemas must be enough.
\* It is, but for what it does not look at: schemas without a type, integers for
\* listed numbers and optional properties.
InputsMatchSchemas ==
    \A e \in ran : \A f \in Described(NodeOf(e.node)) :
        LET a == NodeOf(e.node).arguments[f]
            schema == Tools[NodeOf(e.node).tool].properties[f] IN
        \/ a.kind = "absent"
        \/ a.kind = "ref" /\ Unchecked(Tools[NodeOf(a.of).tool].output, schema)
        \/ matches(e.input[f], schema)

\* A replayed output is what this version of the tool once answered to this very
\* input at this node, however the records of several recordings were mixed,
\* reordered or changed, and whatever was edited since.
ReplayIsAuthentic ==
    exec.mode = "replay" => \A id \in DOMAIN exec.outputs :
        \E e \in ran :
            /\ e.node = id /\ e.output = exec.outputs[id]
            /\ e.input = Resolved(id, exec.outputs)
            /\ exec.at # "over" => e.version = version[NodeOf(id).tool]
=============================================================================

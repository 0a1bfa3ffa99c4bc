------------------------- MODULE CallExecutorProofs -------------------------
(***************************************************************************)
(* Proofs about CallExecutor, for every set of graphs, tools, capabilities *)
(* and values of the policy.                                               *)
(*                                                                         *)
(* The nodes that the first walk has finished are numbered, and successors *)
(* have smaller numbers, so that a graph it accepts has a rank that falls  *)
(* along every edge the validator knows.  The second walk goes along the   *)
(* same edges if no reference is hidden: the rank falls along its stack,   *)
(* which therefore never meets itself.  What it finishes is an order of    *)
(* all nodes, so that every argument is there when a node is reached and   *)
(* does not change any more.                                               *)
(***************************************************************************)
EXTENDS CallExecutor, FiniteSetTheorems, SequenceTheorems, WellFoundedInduction, TLAPS

\* No element twice.
Once(s) == \A i, j \in DOMAIN s : s[i] = s[j] => i = j

\* The elements of s before the i-th.
Before(s, i) == {s[j] : j \in 1..(i - 1)}

\* The validator has no complaint, cycles aside.
Valid == validateCallGraph(graph) = {}

\* Ranks of the nodes of g that fall along every edge the validator knows.
Ranks(g) ==
    {r \in [{g[i].id : i \in DOMAIN g} -> Nat] :
        \A id \in {g[i].id : i \in DOMAIN g} : \A d \in adjacency(g)[id] : r[d] < r[id]}
Rank(g) == CHOOSE r \in Ranks(g) : TRUE

\* A walk: whoever is finished is not active, and follows all its successors.
Walked(successors, stack, done) ==
    /\ Once(stack) /\ Once(done) /\ ToSet(stack) \cap ToSet(done) = {}
    /\ \A i \in DOMAIN done : successors[done[i]] \subseteq Before(done, i)

\* The rank falls along a stack.
Falls(rank, stack) == \A i, j \in DOMAIN stack : i < j => rank[stack[j]] < rank[stack[i]]

\* The phases of the nodes; a graph whose nodes have been reached.
Running == {"node", "sandbox", "observed", "failing"}
Accepted == exec.at \in Running \/ exec.order # <<>>

\* What holds of the phases before.
Starting ==
    /\ exec.at \in {"walk", "visit"} => Valid /\ audit = <<>> /\ exec.order = <<>>
    /\ exec.at = "walk" => Walked(adjacency(graph), exec.stack, exec.done)
    /\ exec.at = "visit" =>
        /\ Ranks(graph) # {} /\ Walked(Dependencies, exec.stack, exec.done)
        /\ Hidden = {} => Falls(Rank(graph), exec.stack)
        /\ exec.mode # "replay" => exec.given = <<>>
    /\ ~Accepted =>
        /\ DOMAIN exec.outputs = {} /\ exec.sequence = 1 /\ exec.made = {}
        /\ \/ graph = <<>>
           \/ \A i \in DOMAIN audit : audit[i].decision \in {"validation_denied", "capability_denied"}
    /\ exec.at = "over" /\ audit = <<>> =>
        graph = <<>> \/ Hidden # {} \/ Len(exec.given) # (IF exec.mode = "replay" THEN Len(graph) ELSE 0)

\* The order, and the outputs of the nodes that come first in it.
OrderSound ==
    Accepted =>
        /\ Valid /\ Once(exec.order) /\ ToSet(exec.order) = Nodes
        /\ \A i \in DOMAIN exec.order : Dependencies[exec.order[i]] \subseteq Before(exec.order, i)
        /\ \A id \in Nodes : Capability(id) \in exec.allowed
        /\ exec.sequence <= Len(exec.order) + 1
        /\ DOMAIN exec.outputs = Before(exec.order, exec.sequence)
        /\ \A id \in DOMAIN exec.outputs :
                matches(exec.outputs[id], Tools[NodeOf(id).tool].output)

\* An entry of the trail.
Said(id, decisions) == \E i \in DOMAIN audit : audit[i].node = id /\ audit[i].decision \in decisions

\* The trail: only the last entry may be a failure, of the node the execution
\* stopped at.
TrailSound ==
    /\ \A id \in DOMAIN exec.outputs : Said(id, {"executed", "replayed"})
    /\ \A i \in DOMAIN audit : audit[i].decision = "failed" =>
            /\ i = Len(audit) /\ exec.at = "over"
            /\ exec.sequence <= Len(exec.order) /\ audit[i].node = Current
    /\ exec.at \in {"sandbox", "observed", "failing"} => exec.sequence <= Len(exec.order)
    /\ exec.at \in {"sandbox", "observed"} => audit # <<>> /\ Last(audit) = Entry("attempted", Current)
    /\ exec.at = "over" /\ exec.order # <<>> =>
            DOMAIN exec.outputs = Nodes \/ \E id \in Nodes : Said(id, {"failed"})

\* A record that carries a valid authentication was made from a run.
Genuine(r) == r.authentic => \E e \in ran : r = makeReplay(e)

\* Records, and what will be recorded, come from runs.
RecordsSound ==
    /\ \A r \in records : Genuine(r)
    /\ \A i \in DOMAIN exec.given : Genuine(exec.given[i])
    /\ exec.made \subseteq ran
    /\ exec.at \in {"sandbox", "observed"} => exec.mode # "replay"
    /\ exec.at = "observed" => Element(exec.seen) \in ran
    /\ exec.at \in Running /\ exec.mode = "replay" => Len(exec.given) = Len(exec.order)

\* The inductive invariant.
ExecutorInv ==
    /\ TypeOK /\ Starting /\ OrderSound /\ TrailSound /\ RecordsSound
    /\ InputsMatchSchemas /\ ReplayIsAuthentic

-----------------------------------------------------------------------------
(* Naturals and sequences.                                                 *)

\* A set of naturals that is not empty has a least element.
LEMMA LeastNatural ==
  ASSUME NEW T \in SUBSET Nat, T # {}
  PROVE  \E n \in T : \A m \in T : n <= m
<1>1. \E x \in T : \A y \in T : ~(<<y, x>> \in OpToRel(<, Nat))
  BY WFMin, NatLessThanWellFounded
<1>2. PICK x \in T : \A y \in T : ~(<<y, x>> \in OpToRel(<, Nat))
  BY <1>1
<1>3. \A y \in T : ~(y < x)
  BY <1>2 DEF OpToRel
<1> QED  BY <1>3

\* What Min chooses of a set of naturals.
LEMMA MinIsIn ==
  ASSUME NEW T \in SUBSET Nat, T # {}
  PROVE  Min(T) \in T
  BY LeastNatural DEF Min

\* Two sequences with the same elements, each once, are equally long.
LEMMA SameLength ==
  ASSUME NEW S, NEW s \in Seq(S), NEW u \in Seq(S), Once(s), Once(u), ToSet(s) = ToSet(u)
  PROVE  Len(s) = Len(u)
<1>1. ASSUME NEW w \in Seq(S), Once(w)
      PROVE  Cardinality(ToSet(w)) = Len(w)
  <2>1. DOMAIN w = 1..Len(w) /\ Len(w) \in Nat /\ w \in [1..Len(w) -> S]
    BY <1>1, LenProperties
  <2>2. w \in [1..Len(w) -> ToSet(w)]
    BY <2>1 DEF ToSet
  <2>3. w \in Injection(1..Len(w), ToSet(w))
    BY <1>1, <2>1, <2>2 DEF Injection, Once, IsInjective
  <2>4. w \in Surjection(1..Len(w), ToSet(w))
    BY <2>1, <2>2 DEF Surjection, ToSet
  <2>5. ExistsBijection(1..Len(w), ToSet(w))
    BY <2>3, <2>4 DEF ExistsBijection, Bijection
  <2>6. IsFiniteSet(1..Len(w)) /\ Cardinality(1..Len(w)) = Len(w)
    <3>1. ASSUME NEW n \in Nat
          PROVE  IsFiniteSet(1..n) /\ Cardinality(1..n) = n
      <4>1. 1 \in Int /\ n \in Int /\ (IF 1 > n THEN 0 ELSE n - 1 + 1) = n
        OBVIOUS
      <4> QED  BY <4>1, FS_Interval
    <3> QED  BY <2>1, <3>1
  <2> QED  BY <2>5, <2>6, FS_Bijection
<1> QED  BY <1>1

-----------------------------------------------------------------------------
(* The graph.                                                              *)

\* The parts of a state that the graph alone decides.
LEMMA GraphStays ==
  ASSUME graph' = graph
  PROVE  /\ Nodes' = Nodes /\ Hidden' = Hidden /\ Dependencies' = Dependencies /\ Valid' = Valid
         /\ Elements' = Elements /\ Records' = Records /\ Execution' = Execution
         /\ \A id : NodeOf(id)' = NodeOf(id) /\ Capability(id)' = Capability(id)
<1>1. Nodes' = Nodes /\ Hidden' = Hidden /\ Valid' = Valid
  BY DEF Nodes, Hidden, Valid
<1>2. \A id : NodeOf(id)' = NodeOf(id)
  BY DEF NodeOf
<1>3. \A id : Capability(id)' = Capability(id)
  BY <1>2 DEF Capability
<1>4. Dependencies' = Dependencies
  BY <1>1, <1>2 DEF Dependencies
<1>5. Elements' = Elements /\ Records' = Records
  BY <1>1 DEF Elements, Records
<1>6. Execution' = Execution
  BY <1>1, <1>5 DEF Execution
<1> QED  BY <1>1, <1>2, <1>3, <1>4, <1>5, <1>6

\* The graph of a state is a sequence.
LEMMA GraphTyped ==
  ASSUME TypeOK
  PROVE  /\ graph \in Seq(ToSet(graph)) /\ Len(graph) \in Nat /\ DOMAIN graph = 1..Len(graph)
         /\ graph \in Graphs
  BY GraphsAssumption DEF TypeOK

\* What no complaint means.
LEMMA ValidShape ==
  ASSUME TypeOK, Valid
  PROVE  /\ Shaped(graph) = DOMAIN graph /\ Ids(graph) = Nodes
         /\ \A i, j \in DOMAIN graph : graph[i].id = graph[j].id => i = j
         /\ \A i \in DOMAIN graph : NodeErrors(graph, graph[i]) = {}
<1>1. Shaped(graph) = DOMAIN graph
  BY DEF Valid, validateCallGraph
<1>2. \A i, j \in DOMAIN graph : graph[i].id = graph[j].id => i = j
  BY <1>1 DEF Valid, validateCallGraph
<1>3. ASSUME NEW i \in DOMAIN graph
      PROVE  NodeErrors(graph, graph[i]) = {}
  <2>1. UNION {NodeErrors(graph, graph[k]) : k \in DOMAIN graph} = {}
    BY <1>1 DEF Valid, validateCallGraph
  <2> QED  BY <2>1
<1> QED  BY <1>1, <1>2, <1>3 DEF Ids, Nodes

\* A node is found by its id.
LEMMA FoundById ==
  ASSUME TypeOK, Valid, NEW i \in DOMAIN graph
  PROVE  NodeOf(graph[i].id) = graph[i] /\ graph[i].id \in Nodes
<1>1. Shaped(graph) = DOMAIN graph /\ \A j \in DOMAIN graph : graph[j].id = graph[i].id => j = i
  BY ValidShape
<1>2. i <= i
  BY GraphTyped
<1> DEFINE P(k) == graph[k].id = graph[i].id /\ \A j \in Shaped(graph) : graph[j].id = graph[i].id => k <= j
<1>3. P(i)
  BY <1>1, <1>2
<1>4. \A k \in Shaped(graph) : P(k) => k = i
  BY <1>1
<1>5. (CHOOSE k \in Shaped(graph) : P(k)) = i
  BY <1>1, <1>3, <1>4
<1> QED  BY <1>5 DEF NodeOf, byId, Nodes

\* The id of a node is that of one element of the graph.
LEMMA NodeIsElement ==
  ASSUME TypeOK, Valid, NEW id \in Nodes
  PROVE  \E i \in DOMAIN graph : NodeOf(id) = graph[i] /\ graph[i].id = id
<1>1. PICK i \in DOMAIN graph : graph[i].id = id
  BY DEF Nodes
<1> QED  BY <1>1, FoundById

\* What the validator has checked of a node.
LEMMA ValidNode ==
  ASSUME TypeOK, Valid, NEW id \in Nodes
  PROVE  /\ NodeOf(id).tool \in DOMAIN Tools /\ NodeOf(id).dependsOn \subseteq Nodes
         /\ \A f \in Described(NodeOf(id)) :
                /\ f \in Fields /\ f \in DOMAIN Tools[NodeOf(id).tool].properties
                /\ LET a == NodeOf(id).arguments[f]
                       type == Tools[NodeOf(id).tool].properties[f] IN
                    /\ a.kind = "literal" => matches(a.of, type)
                    /\ a.kind = "ref" =>
                        a.of \in Nodes /\ compatible(Tools[NodeOf(a.of).tool].output, type)
<1>1. PICK i \in DOMAIN graph : NodeOf(id) = graph[i] /\ graph[i].id = id
  BY NodeIsElement
<1>2. NodeErrors(graph, NodeOf(id)) = {} /\ Ids(graph) = Nodes
  BY <1>1, ValidShape
<1>3. NodeOf(id).tool \in DOMAIN Tools /\ NodeOf(id).dependsOn \subseteq Nodes
  BY <1>2 DEF NodeErrors
<1>4. validateValue(graph, NodeOf(id)) = {}
  BY <1>2, <1>3 DEF NodeErrors
<1>5. ASSUME NEW f \in Described(NodeOf(id))
      PROVE  /\ f \in Fields /\ f \in DOMAIN Tools[NodeOf(id).tool].properties
             /\ validateField(graph, NodeOf(id).arguments[f], Tools[NodeOf(id).tool].properties[f]) = {}
  <2>1. f \in DOMAIN Tools[NodeOf(id).tool].properties
    BY <1>3 DEF Described
  <2>2. f \in Fields
    BY <1>3, <2>1, ToolsAssumption
  <2> QED  BY <1>4, <2>1, <2>2 DEF validateValue
<1>6. ASSUME NEW a, NEW type, validateField(graph, a, type) = {}
      PROVE  /\ a.kind = "literal" => matches(a.of, type)
             /\ a.kind = "ref" => a.of \in Nodes /\ compatible(Tools[NodeOf(a.of).tool].output, type)
  <2>1. CASE a.kind = "literal"
    BY <1>6, <2>1 DEF validateField, matches
  <2>2. CASE a.kind = "ref"
    BY <1>2, <1>6, <2>2 DEF validateField, NodeOf
  <2> QED  BY <2>1, <2>2
<1> QED  BY <1>3, <1>5, <1>6

\* The edges of the validator are between nodes, and they are all the
\* dependencies there are if no reference is hidden.
LEMMA KnownEdges ==
  ASSUME TypeOK, Valid
  PROVE  /\ adjacency(graph) \in [Nodes -> SUBSET Nodes]
         /\ Hidden = {} => \A id \in Nodes : Dependencies[id] \subseteq adjacency(graph)[id]
<1>1. Ids(graph) = Nodes /\ Shaped(graph) = DOMAIN graph
  BY ValidShape
<1>2. adjacency(graph) \in [Nodes -> SUBSET Nodes]
  BY <1>1 DEF adjacency
<1>3. ASSUME Hidden = {}, NEW id \in Nodes, NEW d \in Dependencies[id]
      PROVE  d \in adjacency(graph)[id]
  <2>1. PICK i \in DOMAIN graph : NodeOf(id) = graph[i] /\ graph[i].id = id
    BY NodeIsElement
  <2>2. adjacency(graph)[id] = Nodes \cap UNION {graph[k].dependsOn \cup References(graph[k], Described(graph[k])) :
                                                    k \in {j \in DOMAIN graph : graph[j].id = id}}
    BY <1>1 DEF adjacency
  <2>3. (graph[i].dependsOn \cup References(graph[i], Described(graph[i]))) \cap Nodes \subseteq adjacency(graph)[id]
    BY <2>1, <2>2
  <2>4. CASE d \in graph[i].dependsOn
    BY <2>1, <2>3, <2>4, ValidNode
  <2>5. CASE d \in References(graph[i], Fields)
    <3>1. PICK f \in Fields : graph[i].arguments[f].kind = "ref" /\ d = graph[i].arguments[f].of
      BY <2>5 DEF References
    <3>2. f \in Described(graph[i])
      <4>1. References(graph[i], Fields \ Described(graph[i])) = {}
        BY <1>3 DEF Hidden
      <4> QED  BY <3>1, <4>1 DEF References
    <3>3. d \in Nodes
      BY <2>1, <3>1, <3>2, ValidNode
    <3>4. d \in References(graph[i], Described(graph[i]))
      BY <3>1, <3>2 DEF References
    <3> QED  BY <2>3, <3>3, <3>4
  <2> QED  BY <1>3, <2>1, <2>4, <2>5 DEF Dependencies
<1> QED  BY <1>2, <1>3

-----------------------------------------------------------------------------
(* The walks.                                                              *)

\* What Append makes of a sequence.
LEMMA Appended ==
  ASSUME NEW S, NEW s \in Seq(S), NEW x \in S
  PROVE  /\ Append(s, x) \in Seq(S) /\ Len(Append(s, x)) = Len(s) + 1 /\ Len(s) \in Nat
         /\ DOMAIN s = 1..Len(s) /\ DOMAIN Append(s, x) = 1..(Len(s) + 1)
         /\ \A i \in 1..Len(s) : Append(s, x)[i] = s[i]
         /\ Append(s, x)[Len(s) + 1] = x /\ Append(s, x) # <<>> /\ Last(Append(s, x)) = x
         /\ ToSet(Append(s, x)) = ToSet(s) \cup {x}
<1>1. /\ Append(s, x) \in Seq(S) /\ Len(Append(s, x)) = Len(s) + 1 /\ Len(s) \in Nat
      /\ DOMAIN s = 1..Len(s) /\ DOMAIN Append(s, x) = 1..(Len(s) + 1)
      /\ \A i \in 1..Len(s) : Append(s, x)[i] = s[i]
      /\ Append(s, x)[Len(s) + 1] = x /\ Append(s, x) # <<>>
  BY AppendProperties, LenProperties
<1>2. ToSet(Append(s, x)) \subseteq ToSet(s) \cup {x}
  BY <1>1 DEF ToSet
<1>3. ToSet(s) \subseteq ToSet(Append(s, x)) /\ x \in ToSet(Append(s, x))
  BY <1>1 DEF ToSet
<1> QED  BY <1>1, <1>2, <1>3 DEF Last

\* What Front and Last make of a sequence.
LEMMA Shortened ==
  ASSUME NEW S, NEW s \in Seq(S), s # <<>>
  PROVE  /\ Front(s) \in Seq(S) /\ Len(s) \in Nat \ {0} /\ Len(Front(s)) = Len(s) - 1
         /\ DOMAIN s = 1..Len(s) /\ DOMAIN Front(s) = 1..(Len(s) - 1)
         /\ \A i \in 1..(Len(s) - 1) : Front(s)[i] = s[i]
         /\ Last(s) \in S /\ Last(s) \in ToSet(s) /\ Last(s) = s[Len(s)]
         /\ ToSet(Front(s)) \subseteq ToSet(s)
<1>1. Len(s) \in Nat \ {0} /\ DOMAIN s = 1..Len(s) /\ Len(s) \in 1..Len(s)
  BY LenProperties, EmptySeq
<1>2. /\ Front(s) \in Seq(S) /\ Len(Front(s)) = Len(s) - 1
      /\ \A i \in 1..(Len(s) - 1) : Front(s)[i] = s[i]
  BY <1>1, SubSeqProperties DEF Front
<1>3. DOMAIN Front(s) = 1..(Len(s) - 1)
  BY <1>2, LenProperties
<1>4. Last(s) = s[Len(s)] /\ s[Len(s)] \in S /\ s[Len(s)] \in ToSet(s)
  BY <1>1, ElementOfSeq DEF Last, ToSet
<1>5. ToSet(Front(s)) \subseteq ToSet(s)
  BY <1>1, <1>2, <1>3 DEF ToSet
<1> QED  BY <1>1, <1>2, <1>3, <1>4, <1>5

\* A call is entered.
LEMMA WalkedInto ==
  ASSUME NEW S, NEW successors, NEW stack \in Seq(S), NEW done \in Seq(S), NEW id \in S,
         Walked(successors, stack, done), id \notin ToSet(stack), id \notin ToSet(done)
  PROVE  Walked(successors, Append(stack, id), done)
<1> DEFINE new == Append(stack, id)
<1>1. /\ Len(stack) \in Nat /\ DOMAIN new = 1..(Len(stack) + 1) /\ DOMAIN stack = 1..Len(stack)
      /\ \A i \in 1..Len(stack) : new[i] = stack[i] /\ stack[i] # id
      /\ new[Len(stack) + 1] = id /\ ToSet(new) = ToSet(stack) \cup {id}
  BY Appended DEF ToSet
<1> HIDE DEF new
<1>2. Once(new)
  BY <1>1 DEF Once, Walked
<1>3. ToSet(new) \cap ToSet(done) = {}
  BY <1>1 DEF Walked
<1> QED  BY <1>2, <1>3 DEF Walked, new

\* A call returns.
LEMMA WalkedBack ==
  ASSUME NEW S, NEW successors, NEW stack \in Seq(S), NEW done \in Seq(S), stack # <<>>,
         Walked(successors, stack, done), successors[Last(stack)] \subseteq ToSet(done)
  PROVE  Walked(successors, Front(stack), Append(done, Last(stack)))
<1> DEFINE top == Last(stack)
           rest == Front(stack)
           new == Append(done, top)
<1>1. /\ Len(stack) \in Nat \ {0} /\ DOMAIN rest = 1..(Len(stack) - 1) /\ DOMAIN stack = 1..Len(stack)
      /\ \A i \in 1..(Len(stack) - 1) : rest[i] = stack[i]
      /\ ToSet(rest) \subseteq ToSet(stack) /\ top = stack[Len(stack)] /\ top \in S /\ top \in ToSet(stack)
  BY Shortened
<1>2. /\ Len(done) \in Nat /\ DOMAIN new = 1..(Len(done) + 1) /\ DOMAIN done = 1..Len(done)
      /\ \A i \in 1..Len(done) : new[i] = done[i]
      /\ new[Len(done) + 1] = top /\ ToSet(new) = ToSet(done) \cup {top}
  BY <1>1, Appended
<1> HIDE DEF top, rest, new
<1>3. Once(rest) /\ top \notin ToSet(rest)
  <2>1. \A i \in 1..(Len(stack) - 1) : stack[i] # top
    BY <1>1 DEF Once, Walked
  <2> QED  BY <1>1, <2>1 DEF Once, Walked, ToSet
<1>4. top \notin ToSet(done) /\ \A i \in 1..Len(done) : done[i] # top
  <2>1. top \notin ToSet(done)
    BY <1>1 DEF Walked
  <2> QED  BY <1>2, <2>1 DEF ToSet
<1>5. Once(new)
  BY <1>2, <1>4 DEF Once, Walked
<1>6. ToSet(rest) \cap ToSet(new) = {}
  BY <1>1, <1>2, <1>3 DEF Walked
<1>7. \A i \in 1..(Len(done) + 1) : Before(new, i) = Before(done, i)
  BY <1>2 DEF Before
<1>8. Before(done, Len(done) + 1) = ToSet(done)
  BY <1>2 DEF Before, ToSet
<1>9. ASSUME NEW i \in DOMAIN new
      PROVE  successors[new[i]] \subseteq Before(new, i)
  <2>1. CASE i = Len(done) + 1
    BY <1>2, <1>7, <1>8, <2>1 DEF top
  <2>2. CASE i \in 1..Len(done)
    BY <1>2, <1>7, <2>2 DEF Walked
  <2> QED  BY <1>2, <2>1, <2>2
<1> QED  BY <1>3, <1>5, <1>6, <1>9 DEF Walked, top, rest, new

\* A stack along which the rank falls does not meet itself.
LEMMA FallsInto ==
  ASSUME NEW S, NEW rank \in [S -> Nat], NEW stack \in Seq(S), NEW id \in S, Falls(rank, stack),
         stack # <<>> => rank[id] < rank[Last(stack)]
  PROVE  Falls(rank, Append(stack, id)) /\ id \notin ToSet(stack)
<1> DEFINE new == Append(stack, id)
<1>1. /\ Len(stack) \in Nat /\ DOMAIN new = 1..(Len(stack) + 1) /\ DOMAIN stack = 1..Len(stack)
      /\ \A i \in 1..Len(stack) : new[i] = stack[i] /\ stack[i] \in S
      /\ new[Len(stack) + 1] = id
  BY Appended, ElementOfSeq
<1> HIDE DEF new
<1>2. ASSUME NEW i \in 1..Len(stack)
      PROVE  rank[id] < rank[stack[i]]
  <2>1. stack # <<>> /\ Last(stack) = stack[Len(stack)] /\ Len(stack) \in DOMAIN stack
    BY <1>1 DEF Last
  <2>2. rank[id] \in Nat /\ rank[stack[i]] \in Nat /\ rank[stack[Len(stack)]] \in Nat
    BY <1>1, <2>1
  <2>3. i < Len(stack) => rank[stack[Len(stack)]] < rank[stack[i]]
    BY <1>1, <2>1 DEF Falls
  <2> QED  BY <1>1, <2>1, <2>2, <2>3
<1>3. Falls(rank, new)
  BY <1>1, <1>2 DEF Falls
<1>4. id \notin ToSet(stack)
  <2>1. rank[id] \in Nat
    OBVIOUS
  <2> QED  BY <1>1, <1>2, <2>1 DEF ToSet
<1> QED  BY <1>3, <1>4 DEF new

\* A shorter stack falls too.
LEMMA FallsBack ==
  ASSUME NEW S, NEW rank, NEW stack \in Seq(S), stack # <<>>, Falls(rank, stack)
  PROVE  Falls(rank, Front(stack))
<1>1. /\ Len(stack) \in Nat \ {0} /\ DOMAIN stack = 1..Len(stack)
      /\ DOMAIN Front(stack) = 1..(Len(stack) - 1)
      /\ \A i \in 1..(Len(stack) - 1) : Front(stack)[i] = stack[i]
  BY Shortened
<1>2. ASSUME NEW i \in 1..(Len(stack) - 1), NEW j \in 1..(Len(stack) - 1), i < j
      PROVE  rank[Front(stack)[j]] < rank[Front(stack)[i]]
  <2>1. i \in DOMAIN stack /\ j \in DOMAIN stack
    BY <1>1
  <2> QED  BY <1>1, <1>2, <2>1 DEF Falls
<1> QED  BY <1>1, <1>2 DEF Falls

\* Outside of any call nobody is left when the loop over the graph ends.
LEMMA AllDone ==
  ASSUME TypeOK, NEW successors, exec.stack = <<>>, Callees(successors) = {}
  PROVE  Done = Nodes
<1>1. exec.done \in Seq(Nodes)
  BY DEF TypeOK, Execution
<1>2. Done \subseteq Nodes
  BY <1>1, ElementOfSeq, LenProperties DEF Done, ToSet
<1>3. ASSUME NEW id \in Nodes, id \notin Done
      PROVE  FALSE
  <2> DEFINE left == {i \in DOMAIN graph : graph[i].id \notin Done}
  <2>1. left # {} /\ left \in SUBSET Nat
    BY <1>3, GraphTyped DEF Nodes
  <2>2. PICK i \in left : \A k \in left : i <= k
    BY <2>1, LeastNatural
  <2>3. \A k \in 1..(i - 1) : graph[k].id \in Done
    BY <2>2, GraphTyped
  <2>4. graph[i].id \in Callees(successors)
    BY <2>2, <2>3 DEF Callees
  <2> QED  BY <2>4
<1> QED  BY <1>2, <1>3

\* The order in which the first walk finished is a rank.
LEMMA WalkRanks ==
  ASSUME TypeOK, Valid, NEW done \in Seq(Nodes), ToSet(done) = Nodes,
         Walked(adjacency(graph), <<>>, done)
  PROVE  Ranks(graph) # {}
<1> DEFINE r == [id \in Nodes |-> CHOOSE i \in DOMAIN done : done[i] = id]
<1>1. DOMAIN done = 1..Len(done) /\ Len(done) \in Nat
  BY LenProperties
<1>2. ASSUME NEW id \in Nodes
      PROVE  r[id] \in DOMAIN done /\ done[r[id]] = id
  <2>1. \E i \in DOMAIN done : done[i] = id
    BY <1>2 DEF ToSet
  <2> QED  BY <2>1
<1>3. r \in [Nodes -> Nat]
  BY <1>1, <1>2
<1> HIDE DEF r
<1>4. ASSUME NEW id \in Nodes, NEW d \in adjacency(graph)[id]
      PROVE  r[d] < r[id]
  <2>1. d \in Before(done, r[id])
    <3>1. adjacency(graph)[done[r[id]]] \subseteq Before(done, r[id])
      BY <1>2 DEF Walked
    <3> QED  BY <1>2, <1>4, <3>1
  <2>2. PICK j \in 1..(r[id] - 1) : d = done[j]
    BY <2>1 DEF Before
  <2>3. j \in DOMAIN done /\ d \in Nodes /\ r[id] \in Nat /\ j \in Nat
    BY <1>1, <1>2, <1>4, <2>2, KnownEdges
  <2>4. r[d] = j
    BY <1>2, <2>2, <2>3 DEF Walked, Once
  <2> QED  BY <2>2, <2>3, <2>4
<1>5. r \in Ranks(graph)
  BY <1>3, <1>4 DEF Ranks, Nodes
<1> QED  BY <1>5

\* The rank that was chosen falls along every edge the validator knows.
LEMMA RankFalls ==
  ASSUME Ranks(graph) # {}
  PROVE  /\ Rank(graph) \in [Nodes -> Nat]
         /\ \A id \in Nodes : \A d \in adjacency(graph)[id] : Rank(graph)[d] < Rank(graph)[id]
<1>1. Rank(graph) \in Ranks(graph)
  BY DEF Rank
<1> QED  BY <1>1 DEF Ranks, Nodes

\* Without hidden references the second walk meets no missing and no active node.
LEMMA VisitMeetsNone ==
  ASSUME TypeOK, Starting, exec.at = "visit", Hidden = {}, NEW id \in Callees(Dependencies)
  PROVE  id \in Nodes \ Active /\ Falls(Rank(graph), Append(exec.stack, id))
<1>1. /\ exec.stack \in Seq(Nodes) /\ Valid /\ Ranks(graph) # {} /\ Falls(Rank(graph), exec.stack)
  BY DEF TypeOK, Execution, Starting
<1>2. /\ Rank(graph) \in [Nodes -> Nat]
      /\ \A n \in Nodes : \A d \in adjacency(graph)[n] : Rank(graph)[d] < Rank(graph)[n]
  BY <1>1, RankFalls
<1>3. CASE exec.stack = <<>>
  <2>1. id \in Nodes
    BY <1>3 DEF Callees, Nodes
  <2> QED  BY <1>1, <1>2, <1>3, <2>1, FallsInto DEF Active
<1>4. CASE exec.stack # <<>>
  <2>1. Last(exec.stack) \in Nodes
    BY <1>1, <1>4, Shortened
  <2>2. id \in Dependencies[Last(exec.stack)]
    BY <1>4 DEF Callees
  <2>3. id \in adjacency(graph)[Last(exec.stack)] /\ id \in Nodes
    BY <1>1, <2>1, <2>2, KnownEdges
  <2>4. Rank(graph)[id] < Rank(graph)[Last(exec.stack)]
    BY <1>2, <2>1, <2>3
  <2> QED  BY <1>1, <1>2, <2>3, <2>4, FallsInto DEF Active
<1> QED  BY <1>3, <1>4

-----------------------------------------------------------------------------
(* The steps before any node.                                              *)

\* An execution in phase a that has not come to a node.
IsFresh(x, a, m, g) ==
    /\ x \in Execution /\ x.at = a /\ x.mode = m /\ x.given = g
    /\ x.stack = <<>> /\ x.done = <<>> /\ x.order = <<>> /\ x.sequence = 1
    /\ DOMAIN x.outputs = {} /\ x.made = {}

\* Fresh makes one.
LEMMA FreshMoves ==
  ASSUME NEW a \in Phases, NEW m \in Modes, NEW p \in SUBSET Capabilities, NEW g \in Seq(Records)
  PROVE  IsFresh(Fresh(a, m, p, g), a, m, g)
<1> DEFINE none == [id \in {} |-> "null"]
           x == Fresh(a, m, p, g)
<1>1. none \in UNION {[S -> Values] : S \in SUBSET Nodes} /\ DOMAIN none = {}
  <2>1. none \in [{} -> Values] /\ {} \in SUBSET Nodes
    OBVIOUS
  <2> QED  BY <2>1
<1>2. /\ <<>> \in Seq(Nodes) /\ "null" \in Values /\ {} \in SUBSET Capabilities /\ {} \in SUBSET Elements
      /\ 1 \in Nat \ {0}
  BY EmptySeq, ValuesAssumption
<1>3. x = [at |-> a, mode |-> m, allowed |-> p, given |-> g,
           stack |-> <<>>, done |-> <<>>, order |-> <<>>, sequence |-> 1,
           outputs |-> none, seen |-> "null", made |-> {}]
  BY DEF Fresh
<1> HIDE DEF none, x
<1>4. /\ x.at = a /\ x.mode = m /\ x.allowed = p /\ x.given = g
      /\ x.stack = <<>> /\ x.done = <<>> /\ x.order = <<>> /\ x.sequence = 1
      /\ x.outputs = none /\ x.seen = "null" /\ x.made = {}
  BY <1>3
<1>5. x \in Execution
  BY <1>1, <1>2, <1>3 DEF Execution
<1> QED  BY <1>1, <1>4, <1>5 DEF IsFresh, x

\* As long as no node is reached, little can go wrong.
LEMMA Unaccepted ==
  ASSUME ExecutorInv, graph' = graph, ran' = ran, records' = records,
         exec'.at \notin Running, exec'.order = <<>>,
         DOMAIN exec'.outputs = {}, exec'.made = {},
         \A i \in DOMAIN exec'.given : Genuine(exec'.given[i]),
         \A i \in DOMAIN audit' : audit'[i].decision \in {"validation_denied", "capability_denied"}
  PROVE  (OrderSound /\ TrailSound /\ RecordsSound /\ InputsMatchSchemas /\ ReplayIsAuthentic)'
<1>1. exec'.at \notin {"node", "sandbox", "observed", "failing"}
  BY DEF Running
<1>2. OrderSound'
  BY DEF OrderSound, Accepted
<1>3. TrailSound'
  BY <1>1 DEF TrailSound
<1>4. RecordsSound'
  BY <1>1 DEF RecordsSound, ExecutorInv, Genuine, Running
<1>5. InputsMatchSchemas'
  BY DEF InputsMatchSchemas, ExecutorInv, NodeOf
<1>6. ReplayIsAuthentic'
  BY DEF ReplayIsAuthentic
<1> QED  BY <1>2, <1>3, <1>4, <1>5, <1>6

\* Records that are handed in are genuine or do not carry the authentication.
LEMMA GivenIsGenuine ==
  ASSUME ExecutorInv, NEW mode \in Modes, NEW given \in Given(mode)
  PROVE  given \in Seq(Records) /\ \A i \in DOMAIN given : Genuine(given[i])
<1>1. records \subseteq Records /\ \A r \in records : Genuine(r)
  BY DEF ExecutorInv, TypeOK, RecordsSound
<1>2. ASSUME NEW r \in Forged
      PROVE  r \in Records /\ Genuine(r)
  <2>1. PICK q \in records : r = [q EXCEPT !.authentic = FALSE, !.output = "null"]
    BY <1>2 DEF Forged
  <2>2. q \in Records
    BY <1>1, <2>1
  <2>3. r \in Records /\ r.authentic = FALSE
    BY <2>1, <2>2, ValuesAssumption DEF Records
  <2> QED  BY <2>3 DEF Genuine
<1>3. CASE given = <<>>
  BY <1>3, EmptySeq
<1>4. ASSUME NEW r \in records, given = <<r>>
      PROVE  given \in Seq(Records) /\ \A i \in DOMAIN given : Genuine(given[i])
  BY <1>1, <1>4
<1>5. CASE given \in [1..Len(graph) -> records \cup Forged]
  <2>1. Len(graph) \in Nat
    BY GraphTyped DEF ExecutorInv
  <2>2. \A i \in 1..Len(graph) : given[i] \in Records /\ Genuine(given[i])
    BY <1>1, <1>2, <1>5
  <2>3. given \in [1..Len(graph) -> Records] /\ DOMAIN given = 1..Len(graph)
    BY <1>5, <2>2
  <2> QED  BY <2>1, <2>2, <2>3, IsASeq
<1> QED  BY <1>3, <1>4, <1>5 DEF Given

\* The types, in a step that adds nothing to the runs and the records.
LEMMA TypesKept ==
  ASSUME TypeOK, graph' = graph, version' = version, ran' = ran, records' = records, calls' \in Nat,
         exec' \in Execution, audit' \in Seq([decision: Decisions, node: Nodes \cup {"none"}])
  PROVE  TypeOK'
<1>1. Nodes' = Nodes /\ Elements' = Elements /\ Records' = Records /\ Execution' = Execution
  BY GraphStays
<1> QED  BY <1>1 DEF TypeOK

\* Begin.
LEMMA BeginKeeps ==
  ASSUME ExecutorInv, NEW mode \in Modes, NEW allowed \in SUBSET Capabilities,
         NEW given \in Given(mode), Begin(mode, allowed, given)
  PROVE  ExecutorInv'
<1>1. TypeOK /\ calls' \in Nat /\ UNCHANGED <<graph, version, ran, records>>
  BY DEF ExecutorInv, TypeOK, Begin
<1>2. given \in Seq(Records) /\ \A i \in DOMAIN given : Genuine(given[i])
  BY GivenIsGenuine
<1>3. Running = {"node", "sandbox", "observed", "failing"} /\ {"over", "walk"} \subseteq Phases
  BY DEF Running, Phases
<1>4. CASE /\ exec' = Fresh("over", mode, {}, <<>>)
           /\ audit' = <<Entry("validation_denied", "none")>>
  <2>1. /\ exec' \in Execution /\ exec'.at = "over" /\ exec'.given = <<>> /\ exec'.order = <<>>
        /\ exec'.sequence = 1 /\ DOMAIN exec'.outputs = {} /\ exec'.made = {}
    <3>1. IsFresh(exec', "over", mode, <<>>)
      BY <1>3, <1>4, FreshMoves, EmptySeq
    <3> QED  BY <3>1 DEF IsFresh
  <2>2. /\ audit' \in Seq([decision: Decisions, node: Nodes \cup {"none"}]) /\ audit' # <<>>
        /\ \A i \in DOMAIN audit' : audit'[i].decision \in {"validation_denied", "capability_denied"}
    BY <1>4 DEF Entry, Decisions
  <2>3. TypeOK'
    BY <1>1, <2>1, <2>2, TypesKept
  <2>4. Starting'
    BY <2>1, <2>2 DEF Starting, Accepted
  <2>5. \A i \in DOMAIN exec'.given : Genuine(exec'.given[i])
    BY <2>1
  <2> QED  BY <1>1, <1>3, <2>1, <2>2, <2>3, <2>4, <2>5, Unaccepted DEF ExecutorInv
<1>5. CASE /\ exec' = Fresh("walk", mode, allowed, given)
           /\ audit' = <<>> /\ Valid
  <2>1. /\ exec' \in Execution /\ exec'.at = "walk" /\ exec'.given = given /\ exec'.order = <<>>
        /\ exec'.stack = <<>> /\ exec'.done = <<>>
        /\ exec'.sequence = 1 /\ DOMAIN exec'.outputs = {} /\ exec'.made = {}
    <3>1. IsFresh(exec', "walk", mode, given)
      BY <1>2, <1>3, <1>5, FreshMoves
    <3> QED  BY <3>1 DEF IsFresh
  <2>2. /\ audit' \in Seq([decision: Decisions, node: Nodes \cup {"none"}])
        /\ \A i \in DOMAIN audit' : audit'[i].decision \in {"validation_denied", "capability_denied"}
    BY <1>5
  <2>3. TypeOK'
    BY <1>1, <2>1, <2>2, TypesKept
  <2>4. Starting'
    <3>1. Valid'
      BY <1>1, <1>5, GraphStays
    <3>2. Walked(adjacency(graph), exec.stack, exec.done)'
      BY <2>1 DEF Walked, Once, ToSet
    <3> QED  BY <1>5, <2>1, <2>2, <3>1, <3>2 DEF Starting, Accepted
  <2> QED  BY <1>1, <1>2, <1>3, <2>1, <2>2, <2>3, <2>4, Unaccepted DEF ExecutorInv
<1> QED  BY <1>4, <1>5 DEF Begin, Valid

\* What holds while a walk is on.
LEMMA Walking ==
  ASSUME ExecutorInv, exec.at \in {"walk", "visit"}
  PROVE  /\ TypeOK /\ Starting /\ Valid /\ audit = <<>> /\ exec.order = <<>> /\ exec.made = {}
         /\ DOMAIN exec.outputs = {} /\ exec.sequence = 1 /\ exec.mode \in Modes
         /\ exec.stack \in Seq(Nodes) /\ exec.done \in Seq(Nodes) /\ exec.given \in Seq(Records)
         /\ \A i \in DOMAIN exec.given : Genuine(exec.given[i])
<1>1. exec.at \notin Running /\ exec.order = <<>>
  BY DEF ExecutorInv, Starting, Running
<1>2. ~Accepted
  BY <1>1 DEF Accepted
<1> QED  BY <1>1, <1>2 DEF ExecutorInv, Starting, TypeOK, Execution, RecordsSound

\* The execution ends before any node, with or without an entry.
LEMMA OverKeeps ==
  ASSUME ExecutorInv, exec.at \in {"walk", "visit"}, NEW given \in {<<>>, exec.given}, Over(given),
         UNCHANGED <<graph, version, ran, records, calls>>,
         \/ \E id \in Nodes \cup {"none"}, d \in {"validation_denied", "capability_denied"} :
                audit' = <<Entry(d, id)>>
         \/ audit' = <<>> /\ (Hidden # {} \/ Len(given) # (IF exec.mode = "replay" THEN Len(graph) ELSE 0))
  PROVE  ExecutorInv'
<1>1. /\ given \in Seq(Records) /\ \A i \in DOMAIN given : Genuine(given[i])
      /\ TypeOK /\ exec.mode \in Modes /\ calls' \in Nat
  BY Walking, EmptySeq DEF TypeOK
<1>2. Running = {"node", "sandbox", "observed", "failing"} /\ "over" \in Phases
  BY DEF Running, Phases
<1>3. /\ exec' \in Execution /\ exec'.at = "over" /\ exec'.given = given /\ exec'.order = <<>>
      /\ exec'.sequence = 1 /\ DOMAIN exec'.outputs = {} /\ exec'.made = {} /\ exec'.mode = exec.mode
  <2>1. IsFresh(exec', "over", exec.mode, given)
    BY <1>1, <1>2, FreshMoves DEF Over
  <2> QED  BY <2>1 DEF IsFresh
<1>4. /\ audit' \in Seq([decision: Decisions, node: Nodes \cup {"none"}])
      /\ \A i \in DOMAIN audit' : audit'[i].decision \in {"validation_denied", "capability_denied"}
      /\ audit' # <<>> \/ Hidden # {} \/ Len(given) # (IF exec.mode = "replay" THEN Len(graph) ELSE 0)
  <2>1. ASSUME NEW id \in Nodes \cup {"none"}, NEW d \in {"validation_denied", "capability_denied"},
               audit' = <<Entry(d, id)>>
        PROVE  /\ audit' \in Seq([decision: Decisions, node: Nodes \cup {"none"}]) /\ audit' # <<>>
               /\ \A i \in DOMAIN audit' : audit'[i].decision \in {"validation_denied", "capability_denied"}
    BY <2>1 DEF Entry, Decisions
  <2>2. CASE audit' = <<>>
    BY <2>2
  <2> QED  BY <2>1, <2>2
<1>5. TypeOK'
  BY <1>1, <1>3, <1>4, TypesKept
<1>6. Starting'
  <2>1. Hidden' = Hidden
    BY GraphStays
  <2> QED  BY <1>3, <1>4, <2>1 DEF Starting, Accepted
<1> QED  BY <1>1, <1>2, <1>3, <1>4, <1>5, <1>6, Unaccepted DEF ExecutorInv

\* A walk goes on.
LEMMA StillWalking ==
  ASSUME ExecutorInv, exec.at \in {"walk", "visit"},
         UNCHANGED <<graph, version, audit, ran, records, calls>>,
         exec' \in Execution, exec'.at \in {"walk", "visit"},
         exec'.given = exec.given, exec'.order = <<>>, exec'.sequence = 1, exec'.made = {},
         DOMAIN exec'.outputs = {},
         exec'.at = "walk" => Walked(adjacency(graph), exec'.stack, exec'.done),
         exec'.at = "visit" =>
            /\ Ranks(graph) # {} /\ Walked(Dependencies, exec'.stack, exec'.done)
            /\ Hidden = {} => Falls(Rank(graph), exec'.stack)
            /\ exec'.mode # "replay" => exec'.given = <<>>
  PROVE  ExecutorInv'
<1>1. /\ TypeOK /\ Valid /\ audit = <<>> /\ calls' \in Nat
      /\ \A i \in DOMAIN exec.given : Genuine(exec.given[i])
  BY Walking DEF TypeOK
<1>2. TypeOK'
  BY <1>1, TypesKept
<1>3. Hidden' = Hidden /\ Dependencies' = Dependencies /\ Valid' = Valid
  BY GraphStays
<1>4. exec'.at \notin Running /\ ~Accepted'
  BY DEF Running, Accepted
<1>5. Starting'
  BY <1>1, <1>3, <1>4 DEF Starting
<1>6. \A i \in DOMAIN audit' : audit'[i].decision \in {"validation_denied", "capability_denied"}
  BY <1>1
<1> QED  BY <1>1, <1>2, <1>4, <1>5, <1>6, Unaccepted DEF ExecutorInv

\* WalkInto.
LEMMA WalkIntoKeeps ==
  ASSUME ExecutorInv, WalkInto
  PROVE  ExecutorInv'
<1>1. exec.at = "walk" /\ UNCHANGED <<graph, version, ran, records, calls>>
  BY DEF WalkInto
<1>2. PICK id \in Callees(adjacency(graph)) :
        \/ id \notin Active /\ Enter(id) /\ UNCHANGED audit
        \/ id \in Active /\ Over(<<>>) /\ audit' = <<Entry("validation_denied", "none")>>
  BY DEF WalkInto
<1>3. CASE id \in Active /\ Over(<<>>) /\ audit' = <<Entry("validation_denied", "none")>>
  BY <1>1, <1>3, OverKeeps
<1>4. CASE id \notin Active /\ Enter(id) /\ UNCHANGED audit
  <2>1. /\ TypeOK /\ Valid /\ audit = <<>> /\ exec.order = <<>> /\ exec.sequence = 1 /\ exec.made = {}
        /\ DOMAIN exec.outputs = {} /\ exec.stack \in Seq(Nodes) /\ exec.done \in Seq(Nodes)
        /\ \A i \in DOMAIN exec.given : Genuine(exec.given[i])
        /\ Walked(adjacency(graph), exec.stack, exec.done)
    BY <1>1, Walking DEF Starting
  <2>2. id \in Nodes /\ id \notin Done
    <3>1. CASE exec.stack = <<>>
      BY <3>1 DEF Callees, Nodes
    <3>2. CASE exec.stack # <<>>
      <4>1. id \in adjacency(graph)[Last(exec.stack)] \ Done
        BY <3>2 DEF Callees
      <4> QED  BY <2>1, <3>2, <4>1, Shortened, KnownEdges
    <3> QED  BY <3>1, <3>2
  <2>3. Append(exec.stack, id) \in Seq(Nodes)
    BY <2>1, <2>2, Appended
  <2>4. /\ exec' \in Execution /\ exec'.at = "walk" /\ exec'.stack = Append(exec.stack, id)
        /\ exec'.done = exec.done /\ exec'.given = exec.given /\ exec'.order = <<>>
        /\ exec'.sequence = 1 /\ DOMAIN exec'.outputs = {} /\ exec'.made = {}
    BY <1>1, <1>4, <2>1, <2>3 DEF Enter, TypeOK, Execution
  <2>5. Walked(adjacency(graph), exec'.stack, exec'.done)
    BY <1>4, <2>1, <2>2, <2>4, WalkedInto DEF Active, Done
  <2> QED  BY <1>1, <1>4, <2>1, <2>4, <2>5, StillWalking
<1> QED  BY <1>2, <1>3, <1>4

\* WalkBack and VisitBack: the call on top of the stack returns.
LEMMA LeaveMoves ==
  ASSUME TypeOK, NEW successors, exec.stack # <<>>, Callees(successors) = {},
         Walked(successors, exec.stack, exec.done),
         exec' = [exec EXCEPT !.stack = Front(@), !.done = Append(@, Last(exec.stack))]
  PROVE  /\ exec' \in Execution /\ exec'.at = exec.at /\ exec'.mode = exec.mode
         /\ exec'.stack = Front(exec.stack) /\ exec'.given = exec.given /\ exec'.order = exec.order
         /\ exec'.sequence = exec.sequence /\ exec'.outputs = exec.outputs /\ exec'.made = exec.made
         /\ Walked(successors, exec'.stack, exec'.done)
<1>1. exec.stack \in Seq(Nodes) /\ exec.done \in Seq(Nodes)
  BY DEF TypeOK, Execution
<1>2. /\ Front(exec.stack) \in Seq(Nodes) /\ Last(exec.stack) \in Nodes
      /\ Append(exec.done, Last(exec.stack)) \in Seq(Nodes)
  BY <1>1, Shortened, Appended
<1>3. /\ exec' \in Execution /\ exec'.at = exec.at /\ exec'.mode = exec.mode
      /\ exec'.stack = Front(exec.stack) /\ exec'.given = exec.given /\ exec'.order = exec.order
      /\ exec'.sequence = exec.sequence /\ exec'.outputs = exec.outputs /\ exec'.made = exec.made
      /\ exec'.done = Append(exec.done, Last(exec.stack))
  BY <1>2 DEF TypeOK, Execution
<1>4. successors[Last(exec.stack)] \subseteq ToSet(exec.done)
  BY DEF Callees, Done
<1> QED  BY <1>1, <1>3, <1>4, WalkedBack

\* WalkBack.
LEMMA WalkBackKeeps ==
  ASSUME ExecutorInv, WalkBack
  PROVE  ExecutorInv'
<1>1. /\ exec.at = "walk" /\ UNCHANGED <<graph, version, audit, ran, records, calls>>
      /\ exec.stack # <<>> /\ Callees(adjacency(graph)) = {}
      /\ exec' = [exec EXCEPT !.stack = Front(@), !.done = Append(@, Last(exec.stack))]
  BY DEF WalkBack, Leave
<1>2. /\ TypeOK /\ exec.order = <<>> /\ exec.sequence = 1 /\ exec.made = {} /\ DOMAIN exec.outputs = {}
      /\ Walked(adjacency(graph), exec.stack, exec.done)
  BY <1>1, Walking DEF Starting
<1>3. /\ exec' \in Execution /\ exec'.at = "walk" /\ exec'.given = exec.given /\ exec'.order = <<>>
      /\ exec'.sequence = 1 /\ DOMAIN exec'.outputs = {} /\ exec'.made = {}
      /\ Walked(adjacency(graph), exec'.stack, exec'.done)
  BY <1>1, <1>2, LeaveMoves
<1> QED  BY <1>1, <1>3, StillWalking

\* VisitBack.
LEMMA VisitBackKeeps ==
  ASSUME ExecutorInv, VisitBack
  PROVE  ExecutorInv'
<1>1. /\ exec.at = "visit" /\ UNCHANGED <<graph, version, audit, ran, records, calls>>
      /\ exec.stack # <<>> /\ Callees(Dependencies) = {}
      /\ exec' = [exec EXCEPT !.stack = Front(@), !.done = Append(@, Last(exec.stack))]
  BY DEF VisitBack, Leave
<1>2. /\ TypeOK /\ exec.order = <<>> /\ exec.sequence = 1 /\ exec.made = {} /\ DOMAIN exec.outputs = {}
      /\ exec.stack \in Seq(Nodes) /\ Ranks(graph) # {} /\ Walked(Dependencies, exec.stack, exec.done)
      /\ Hidden = {} => Falls(Rank(graph), exec.stack)
      /\ exec.mode # "replay" => exec.given = <<>>
  BY <1>1, Walking DEF Starting
<1>3. /\ exec' \in Execution /\ exec'.at = "visit" /\ exec'.given = exec.given /\ exec'.order = <<>>
      /\ exec'.sequence = 1 /\ DOMAIN exec'.outputs = {} /\ exec'.made = {}
      /\ exec'.mode = exec.mode /\ exec'.stack = Front(exec.stack)
      /\ Walked(Dependencies, exec'.stack, exec'.done)
  BY <1>1, <1>2, LeaveMoves
<1>4. Hidden = {} => Falls(Rank(graph), exec'.stack)
  BY <1>1, <1>2, <1>3, FallsBack
<1> QED  BY <1>1, <1>2, <1>3, <1>4, StillWalking

\* WalkEnds: the graph has no cycle that the validator knows.
LEMMA WalkEndsKeeps ==
  ASSUME ExecutorInv, WalkEnds
  PROVE  ExecutorInv'
<1>1. /\ exec.at = "walk" /\ UNCHANGED <<graph, version, audit, ran, records, calls>>
      /\ exec.stack = <<>> /\ Callees(adjacency(graph)) = {}
  BY DEF WalkEnds
<1>2. /\ TypeOK /\ Valid /\ audit = <<>> /\ exec.order = <<>> /\ exec.sequence = 1 /\ exec.made = {}
      /\ DOMAIN exec.outputs = {} /\ exec.done \in Seq(Nodes) /\ exec.given \in Seq(Records)
      /\ Walked(adjacency(graph), exec.stack, exec.done)
  BY <1>1, Walking DEF Starting
<1>3. CASE exec.mode # "replay" /\ exec.given # <<>>
  <2>1. Over(exec.given)
    BY <1>3 DEF WalkEnds
  <2>2. Len(exec.given) # 0
    BY <1>2, <1>3, EmptySeq
  <2> QED  BY <1>1, <1>2, <1>3, <2>1, <2>2, OverKeeps
<1>4. CASE ~(exec.mode # "replay" /\ exec.given # <<>>)
  <2>1. exec' = [exec EXCEPT !.at = "visit", !.done = <<>>]
    BY <1>4 DEF WalkEnds
  <2>2. /\ exec' \in Execution /\ exec'.at = "visit" /\ exec'.given = exec.given /\ exec'.order = <<>>
        /\ exec'.sequence = 1 /\ DOMAIN exec'.outputs = {} /\ exec'.made = {}
        /\ exec'.stack = <<>> /\ exec'.done = <<>> /\ exec'.mode = exec.mode
    <3>1. <<>> \in Seq(Nodes) /\ "visit" \in Phases
      BY EmptySeq DEF Phases
    <3> QED  BY <1>1, <1>2, <2>1, <3>1 DEF TypeOK, Execution
  <2>3. Ranks(graph) # {}
    BY <1>1, <1>2, AllDone, WalkRanks DEF Done
  <2>4. Walked(Dependencies, exec'.stack, exec'.done) /\ Falls(Rank(graph), exec'.stack)
    BY <2>2 DEF Walked, Falls, Once, ToSet
  <2> QED  BY <1>1, <1>4, <2>2, <2>3, <2>4, StillWalking
<1> QED  BY <1>3, <1>4

\* VisitInto: only a hidden reference makes the second walk fail.
LEMMA VisitIntoKeeps ==
  ASSUME ExecutorInv, VisitInto
  PROVE  ExecutorInv'
<1>1. exec.at = "visit" /\ UNCHANGED <<graph, version, audit, ran, records, calls>>
  BY DEF VisitInto
<1>2. PICK id \in Callees(Dependencies) :
        IF id \in Nodes \ Active THEN Enter(id) ELSE Over(exec.given)
  BY DEF VisitInto
<1>3. /\ TypeOK /\ Starting /\ Valid /\ audit = <<>> /\ exec.order = <<>> /\ exec.sequence = 1
      /\ exec.made = {} /\ DOMAIN exec.outputs = {}
      /\ exec.stack \in Seq(Nodes) /\ exec.done \in Seq(Nodes)
      /\ Ranks(graph) # {} /\ Walked(Dependencies, exec.stack, exec.done)
      /\ exec.mode # "replay" => exec.given = <<>>
  BY <1>1, Walking DEF Starting
<1>4. Hidden = {} => id \in Nodes \ Active /\ Falls(Rank(graph), Append(exec.stack, id))
  BY <1>1, <1>3, VisitMeetsNone
<1>5. CASE id \notin Nodes \ Active
  <2>1. Over(exec.given) /\ audit' = <<>> /\ Hidden # {}
    BY <1>1, <1>2, <1>3, <1>4, <1>5
  <2> QED  BY <1>1, <2>1, OverKeeps
<1>6. CASE id \in Nodes \ Active
  <2>1. id \in Nodes /\ id \notin Active /\ id \notin Done /\ Enter(id)
    BY <1>2, <1>6 DEF Callees
  <2>2. Append(exec.stack, id) \in Seq(Nodes)
    BY <1>3, <2>1, Appended
  <2>3. /\ exec' \in Execution /\ exec'.at = "visit" /\ exec'.stack = Append(exec.stack, id)
        /\ exec'.done = exec.done /\ exec'.given = exec.given /\ exec'.order = <<>>
        /\ exec'.sequence = 1 /\ DOMAIN exec'.outputs = {} /\ exec'.made = {} /\ exec'.mode = exec.mode
    BY <1>1, <1>3, <2>1, <2>2 DEF Enter, TypeOK, Execution
  <2>4. Walked(Dependencies, exec'.stack, exec'.done)
    BY <1>3, <2>1, <2>3, WalkedInto DEF Active, Done
  <2>5. Hidden = {} => Falls(Rank(graph), exec'.stack)
    BY <1>4, <2>3
  <2> QED  BY <1>1, <1>3, <2>3, <2>4, <2>5, StillWalking
<1> QED  BY <1>5, <1>6

\* An order that has every node once is as long as the graph.
LEMMA OrderIsAsLong ==
  ASSUME TypeOK, Valid, NEW s \in Seq(Nodes), Once(s), ToSet(s) = Nodes
  PROVE  Len(s) = Len(graph)
<1> DEFINE ids == [i \in 1..Len(graph) |-> graph[i].id]
<1>1. Len(graph) \in Nat /\ DOMAIN graph = 1..Len(graph)
  BY GraphTyped
<1>2. ids \in Seq(Nodes) /\ Len(ids) = Len(graph) /\ DOMAIN ids = 1..Len(graph)
  <2>1. \A i \in 1..Len(graph) : graph[i].id \in Nodes
    BY <1>1 DEF Nodes
  <2> QED  BY <1>1, <2>1, IsASeq
<1>3. \A i \in 1..Len(graph) : ids[i] = graph[i].id
  OBVIOUS
<1> HIDE DEF ids
<1>4. Once(ids)
  BY <1>1, <1>2, <1>3, ValidShape DEF Once
<1>5. ToSet(ids) = Nodes
  BY <1>1, <1>2, <1>3 DEF ToSet, Nodes
<1> QED  BY <1>2, <1>4, <1>5, SameLength

\* VisitEnds: the order is complete.
LEMMA VisitEndsKeeps ==
  ASSUME ExecutorInv, VisitEnds
  PROVE  ExecutorInv'
<1> DEFINE denied == Denied(exec.done, exec.allowed)
           short == exec.mode = "replay" /\ Len(exec.given) # Len(exec.done)
<1>1. /\ exec.at = "visit" /\ UNCHANGED <<graph, version, ran, records, calls>>
      /\ exec.stack = <<>> /\ Callees(Dependencies) = {}
  BY DEF VisitEnds
<1>2. /\ TypeOK /\ Valid /\ audit = <<>> /\ exec.order = <<>> /\ exec.sequence = 1 /\ exec.made = {}
      /\ DOMAIN exec.outputs = {} /\ exec.done \in Seq(Nodes) /\ exec.given \in Seq(Records)
      /\ Walked(Dependencies, exec.stack, exec.done)
      /\ \A i \in DOMAIN exec.given : Genuine(exec.given[i])
  BY <1>1, Walking DEF Starting
<1>3. ToSet(exec.done) = Nodes /\ Once(exec.done) /\ DOMAIN exec.done = 1..Len(exec.done)
  BY <1>1, <1>2, AllDone, LenProperties DEF Done, Walked
<1>4. Len(exec.done) = Len(graph) /\ Len(graph) \in Nat
  BY <1>2, <1>3, OrderIsAsLong, GraphTyped
<1>5. CASE short /\ Over(exec.given) /\ UNCHANGED audit
  BY <1>1, <1>2, <1>4, <1>5, OverKeeps
<1>6. CASE /\ denied # {} /\ Over(<<>>)
           /\ audit' = <<Entry("capability_denied", exec.done[Min(denied)])>>
  <2>1. denied \in SUBSET Nat /\ denied \subseteq DOMAIN exec.done
    BY <1>3 DEF Denied
  <2>2. exec.done[Min(denied)] \in Nodes
    BY <1>2, <1>6, <2>1, MinIsIn, ElementOfSeq, <1>3
  <2> HIDE DEF denied
  <2> QED  BY <1>1, <1>6, <2>2, OverKeeps
<1>7. CASE /\ ~short /\ denied = {} /\ UNCHANGED audit
           /\ exec' = [exec EXCEPT !.at = "node", !.order = exec.done, !.done = <<>>]
  <2>1. /\ exec' \in Execution /\ exec'.at = "node" /\ exec'.given = exec.given
        /\ exec'.order = exec.done /\ exec'.allowed = exec.allowed /\ exec'.mode = exec.mode
        /\ exec'.sequence = 1 /\ DOMAIN exec'.outputs = {} /\ exec'.made = {}
    <3>1. <<>> \in Seq(Nodes) /\ "node" \in Phases
      BY EmptySeq DEF Phases
    <3> QED  BY <1>2, <1>7, <3>1 DEF TypeOK, Execution
  <2>2. TypeOK'
    BY <1>1, <1>2, <1>7, <2>1, TypesKept DEF TypeOK
  <2>3. /\ Nodes' = Nodes /\ Dependencies' = Dependencies /\ Valid' = Valid
        /\ \A id : NodeOf(id)' = NodeOf(id) /\ Capability(id)' = Capability(id)
    BY <1>1, GraphStays
  <2>4. Starting'
    BY <2>1 DEF Starting, Accepted, Running
  <2>5. OrderSound'
    <3>1. \A id \in Nodes : Capability(id) \in exec.allowed
      <4>1. \A i \in DOMAIN exec.done : Capability(exec.done[i]) \in exec.allowed
        BY <1>7 DEF Denied
      <4> QED  BY <1>3, <4>1 DEF ToSet
    <3>2. \A i \in DOMAIN exec.done : Dependencies[exec.done[i]] \subseteq Before(exec.done, i)
      BY <1>2 DEF Walked
    <3>3. Before(exec.done, 1) = {}
      BY DEF Before
    <3>4. 1 <= Len(exec.done) + 1
      BY <1>4
    <3> QED  BY <1>2, <1>3, <2>1, <2>3, <3>1, <3>2, <3>3, <3>4 DEF OrderSound
  <2>6. TrailSound'
    BY <1>2, <1>7, <2>1 DEF TrailSound
  <2>7. RecordsSound'
    <3>1. \A r \in records : Genuine(r)
      BY DEF ExecutorInv, RecordsSound
    <3> QED  BY <1>1, <1>2, <1>7, <2>1, <3>1 DEF RecordsSound, Genuine
  <2>8. InputsMatchSchemas'
    BY <1>1 DEF InputsMatchSchemas, ExecutorInv, NodeOf
  <2>9. ReplayIsAuthentic'
    BY <2>1 DEF ReplayIsAuthentic
  <2> QED  BY <2>2, <2>4, <2>5, <2>6, <2>7, <2>8, <2>9 DEF ExecutorInv
<1> QED  BY <1>5, <1>6, <1>7 DEF VisitEnds

-----------------------------------------------------------------------------
(* The nodes.                                                              *)

\* Outputs are values.
LEMMA OutputsTyped ==
  ASSUME TypeOK
  PROVE  /\ DOMAIN exec.outputs \subseteq Nodes
         /\ \A id \in DOMAIN exec.outputs : exec.outputs[id] \in Values
<1>1. PICK S \in SUBSET Nodes : exec.outputs \in [S -> Values]
  BY DEF TypeOK, Execution
<1> QED  BY <1>1

\* What a node needs comes before it, and before all that come later.
LEMMA NeedsAreThere ==
  ASSUME ExecutorInv, Accepted
  PROVE  /\ \A id \in DOMAIN exec.outputs : Dependencies[id] \subseteq DOMAIN exec.outputs
         /\ exec.sequence <= Len(exec.order) =>
                /\ Current \in Nodes /\ Current \notin DOMAIN exec.outputs
                /\ Dependencies[Current] \subseteq DOMAIN exec.outputs
                /\ DOMAIN exec.outputs \cup {Current} = Before(exec.order, exec.sequence + 1)
<1>1. /\ exec.order \in Seq(Nodes) /\ exec.sequence \in Nat \ {0}
      /\ DOMAIN exec.order = 1..Len(exec.order) /\ Len(exec.order) \in Nat
  BY LenProperties DEF ExecutorInv, TypeOK, Execution
<1>2. /\ Once(exec.order) /\ exec.sequence <= Len(exec.order) + 1
      /\ \A i \in DOMAIN exec.order : Dependencies[exec.order[i]] \subseteq Before(exec.order, i)
      /\ DOMAIN exec.outputs = Before(exec.order, exec.sequence)
  BY DEF ExecutorInv, OrderSound
<1>3. ASSUME NEW id \in DOMAIN exec.outputs
      PROVE  Dependencies[id] \subseteq DOMAIN exec.outputs
  <2>1. PICK j \in 1..(exec.sequence - 1) : id = exec.order[j]
    BY <1>2, <1>3 DEF Before
  <2>2. j \in DOMAIN exec.order
    BY <1>1, <1>2, <2>1
  <2>3. Before(exec.order, j) \subseteq Before(exec.order, exec.sequence)
    BY <1>1, <2>1 DEF Before
  <2> QED  BY <1>2, <2>1, <2>2, <2>3
<1>4. ASSUME exec.sequence <= Len(exec.order)
      PROVE  /\ Current \in Nodes /\ Current \notin DOMAIN exec.outputs
             /\ Dependencies[Current] \subseteq DOMAIN exec.outputs
             /\ DOMAIN exec.outputs \cup {Current} = Before(exec.order, exec.sequence + 1)
  <2>1. exec.sequence \in DOMAIN exec.order
    BY <1>1, <1>4
  <2>2. Current \in Nodes
    BY <1>1, <2>1, ElementOfSeq DEF Current
  <2>3. Current \notin Before(exec.order, exec.sequence)
    BY <1>1, <1>2, <2>1 DEF Current, Before, Once
  <2>4. Before(exec.order, exec.sequence + 1) = Before(exec.order, exec.sequence) \cup {exec.order[exec.sequence]}
    BY <1>1 DEF Before
  <2> QED  BY <1>2, <2>1, <2>2, <2>3, <2>4 DEF Current
<1> QED  BY <1>3, <1>4

\* The arguments of a node depend on the outputs of its dependencies only.
LEMMA ResolvedDependsOn ==
  ASSUME NEW id \in Nodes, NEW f, NEW g, \A d \in Dependencies[id] : f[d] = g[d]
  PROVE  Resolved(id, f) = Resolved(id, g)
<1>1. ASSUME NEW x \in Fields, NodeOf(id).arguments[x].kind = "ref"
      PROVE  NodeOf(id).arguments[x].of \in Dependencies[id]
  BY <1>1 DEF Dependencies, References
<1> QED  BY <1>1 DEF Resolved

\* The input of the node that is reached: values in its fields, or nothing.
LEMMA InputTyped ==
  ASSUME ExecutorInv, Accepted, exec.sequence <= Len(exec.order)
  PROVE  Input \in [Fields -> Values \cup {"none"}]
<1>1. TypeOK /\ Valid /\ Current \in Nodes /\ Dependencies[Current] \subseteq DOMAIN exec.outputs
  BY NeedsAreThere DEF ExecutorInv, OrderSound
<1>2. PICK i \in DOMAIN graph : NodeOf(Current) = graph[i]
  BY <1>1, NodeIsElement
<1>3. ASSUME NEW f \in Fields
      PROVE  Input[f] \in Values \cup {"none"}
  <2> DEFINE a == NodeOf(Current).arguments[f]
  <2>1. \/ a.kind = "absent" /\ a.of = "none"
        \/ a.kind = "literal" /\ a.of \in Values
        \/ a.kind = "ref"
    BY <1>1, <1>2, GraphsAssumption DEF TypeOK
  <2>2. Input[f] = IF a.kind = "ref" THEN exec.outputs[a.of] ELSE a.of
    BY DEF Input, Resolved
  <2>3. CASE a.kind = "ref"
    <3>1. a.of \in Dependencies[Current]
      BY <1>1, <2>3 DEF Dependencies, References
    <3> QED  BY <1>1, <2>2, <2>3, <3>1, OutputsTyped
  <2> QED  BY <2>1, <2>2, <2>3
<1> QED  BY <1>3 DEF Input, Resolved

\* A value that fits a schema fits one that compares well, at the inner level.
LEMMA ShallowFits ==
  ASSUME NEW v \in Values, NEW s, NEW t, validateShallow(v, s) = {},
         compatibleShallow(s, t), ~UncheckedShallow(s, t)
  PROVE  validateShallow(v, t) = {}
<1>1. /\ matchesType(v, s.type) /\ v \in s.enum
      /\ Json[v].type = "string" /\ s.format # "none" => s.format \in Json[v].formats
  BY DEF validateShallow
<1>2. /\ matchesType(v, t.type) /\ v \in t.enum
      /\ Json[v].type = "string" /\ t.format # "none" => t.format \in Json[v].formats
  <2>1. s.type # "any"
    BY DEF UncheckedShallow
  <2>2. CASE t.type = "any"
    BY <2>2 DEF UncheckedShallow, matchesType
  <2>3. CASE s.type = "integer" /\ t.type = "number"
    BY <1>1, <2>3 DEF UncheckedShallow, matchesType
  <2>4. CASE SameKind(s, t)
    BY <1>1, <2>4 DEF SameKind
  <2> QED  BY <2>1, <2>2, <2>3, <2>4 DEF compatibleShallow, Waived
<1> QED  BY <1>2 DEF validateShallow

\* The same for an object and for an array: what is in them fits as well.
LEMMA FieldsFit ==
  ASSUME NEW s, NEW t, NEW fields, \A k \in DOMAIN fields : fields[k] \in Values,
         validateObject(fields, s) = {}, compatibleProperties(s, t), Uncompared(s, t) = {},
         \A k \in t.required : ~UncheckedShallow(s.properties[k], t.properties[k])
  PROVE  validateObject(fields, t) = {}
<1>1. /\ s.required \subseteq DOMAIN fields
      /\ \A k \in DOMAIN fields \cap DOMAIN s.properties : validateShallow(fields[k], s.properties[k]) = {}
      /\ s.closed => DOMAIN fields \subseteq DOMAIN s.properties
  <2>1. s.required \subseteq DOMAIN fields
    BY DEF validateObject
  <2>2. UNION {validateShallow(fields[k], s.properties[k]) : k \in DOMAIN fields \cap DOMAIN s.properties} = {}
    BY DEF validateObject
  <2>3. \A k \in DOMAIN fields \cap DOMAIN s.properties : validateShallow(fields[k], s.properties[k]) = {}
    BY <2>2
  <2>4. s.closed => DOMAIN fields \subseteq DOMAIN s.properties
    <3> DEFINE extra == IF s.closed /\ DOMAIN fields \ DOMAIN s.properties # {} THEN {"CFV105"} ELSE {}
    <3>2. extra \subseteq validateObject(fields, s)
      BY DEF validateObject
    <3>3. ~(s.closed /\ DOMAIN fields \ DOMAIN s.properties # {})
      BY <3>2, Zenon
    <3> QED  BY <3>3
  <2> QED  BY <2>1, <2>3, <2>4
<1>2. t.required \subseteq DOMAIN fields
  BY <1>1 DEF compatibleProperties
<1>3. ASSUME NEW k \in DOMAIN fields \cap DOMAIN t.properties
      PROVE  validateShallow(fields[k], t.properties[k]) = {}
  <2>1. /\ k \in DOMAIN s.properties /\ compatibleShallow(s.properties[k], t.properties[k])
        /\ ~UncheckedShallow(s.properties[k], t.properties[k])
    <3>1. CASE k \in t.required
      BY <3>1 DEF compatibleProperties
    <3>2. CASE k \notin t.required
      <4>1. k \notin Uncompared(s, t) /\ k \in DOMAIN t.properties \ t.required
        BY <1>3, <3>2
      <4> QED  BY <1>1, <1>3, <4>1 DEF Uncompared
    <3> QED  BY <3>1, <3>2
  <2> QED  BY <1>1, <1>3, <2>1, ShallowFits
<1>4. t.closed => DOMAIN fields \subseteq DOMAIN t.properties
  BY <1>1 DEF compatibleProperties
<1> QED  BY <1>2, <1>3, <1>4 DEF validateObject

LEMMA ItemsFit ==
  ASSUME NEW s, NEW t, NEW items \in SUBSET Values, validateArray(items, s) = {}, compatibleItems(s, t),
         \A x \in s.items, y \in t.items : ~UncheckedShallow(x, y)
  PROVE  validateArray(items, t) = {}
<1>1. ASSUME NEW v \in items, NEW y \in t.items
      PROVE  validateShallow(v, y) = {}
  <2>1. PICK x \in s.items : compatibleShallow(x, y)
    BY DEF compatibleItems
  <2>2. validateShallow(v, x) = {}
    BY DEF validateArray
  <2> QED  BY <2>1, <2>2, ShallowFits
<1> QED  BY <1>1 DEF validateArray

\* What compatible promises: a value of the one schema is a value of the other.
LEMMA CompatibleFits ==
  ASSUME NEW v \in Values, NEW s, NEW t, matches(v, s), compatible(s, t), ~Unchecked(s, t)
  PROVE  matches(v, t)
<1>1. ~UncheckedShallow(s, t) /\ compatibleShallow(s, t) /\ validateShallow(v, s) = {}
  BY DEF Unchecked, compatible, compatibleShallow, matches, validateLiteral
<1>2. validateShallow(v, t) = {}
  BY <1>1, ShallowFits
<1>3. ASSUME t.type = "object", Json[v].type = "object"
      PROVE  validateObject(Json[v].fields, t) = {}
  <2>1. SameKind(s, t)
    BY <1>1, <1>3 DEF compatibleShallow, Waived, UncheckedShallow
  <2>2. s.type = "object" /\ compatibleProperties(s, t)
    BY <1>1, <1>3, <2>1 DEF compatible, SameKind, Waived, UncheckedShallow
  <2>3. validateObject(Json[v].fields, s) = {}
    BY <1>3, <2>2 DEF matches, validateLiteral
  <2>4. Uncompared(s, t) = {} /\ \A k \in t.required : ~UncheckedShallow(s.properties[k], t.properties[k])
    BY <1>3 DEF Unchecked
  <2>5. \A k \in DOMAIN Json[v].fields : Json[v].fields[k] \in Values
    BY ValuesAssumption
  <2> QED  BY <2>2, <2>3, <2>4, <2>5, FieldsFit
<1>4. ASSUME t.type = "array", Json[v].type = "array"
      PROVE  validateArray(Json[v].items, t) = {}
  <2>1. SameKind(s, t)
    BY <1>1, <1>4 DEF compatibleShallow, Waived, UncheckedShallow
  <2>2. s.type = "array" /\ compatibleItems(s, t)
    BY <1>1, <1>4, <2>1 DEF compatible, SameKind, Waived, UncheckedShallow
  <2>3. validateArray(Json[v].items, s) = {}
    BY <1>4, <2>2 DEF matches, validateLiteral
  <2>4. \A x \in s.items, y \in t.items : ~UncheckedShallow(x, y)
    BY <1>4 DEF Unchecked
  <2>5. Json[v].items \in SUBSET Values
    BY ValuesAssumption
  <2> QED  BY <2>2, <2>3, <2>4, <2>5, ItemsFit
<1> QED  BY <1>2, <1>3, <1>4 DEF matches, validateLiteral

\* It fits the schema of the tool, but for what the comparison does not look at.
LEMMA InputFits ==
  ASSUME ExecutorInv, Accepted, exec.sequence <= Len(exec.order), NEW f \in Described(NodeOf(Current))
  PROVE  LET a == NodeOf(Current).arguments[f]
             schema == Tools[NodeOf(Current).tool].properties[f] IN
         \/ a.kind = "absent"
         \/ a.kind = "ref" /\ Unchecked(Tools[NodeOf(a.of).tool].output, schema)
         \/ matches(Input[f], schema)
<1> DEFINE a == NodeOf(Current).arguments[f]
           type == Tools[NodeOf(Current).tool].properties[f]
<1>1. TypeOK /\ Valid /\ Current \in Nodes /\ Dependencies[Current] \subseteq DOMAIN exec.outputs
  BY NeedsAreThere DEF ExecutorInv, OrderSound
<1>2. /\ f \in Fields /\ NodeOf(Current).tool \in DOMAIN Tools
      /\ f \in DOMAIN Tools[NodeOf(Current).tool].properties
      /\ a.kind = "literal" => matches(a.of, type)
      /\ a.kind = "ref" => a.of \in Nodes /\ compatible(Tools[NodeOf(a.of).tool].output, type)
  BY <1>1, ValidNode
<1>3. PICK i \in DOMAIN graph : NodeOf(Current) = graph[i]
  BY <1>1, NodeIsElement
<1>4. a.kind \in {"absent", "literal", "ref"}
  BY <1>1, <1>2, <1>3, GraphsAssumption DEF TypeOK
<1>5. Input[f] = IF a.kind = "ref" THEN exec.outputs[a.of] ELSE a.of
  BY <1>2 DEF Input, Resolved
<1>6. CASE a.kind = "ref"
  <2> DEFINE v == exec.outputs[a.of]
             source == Tools[NodeOf(a.of).tool].output
  <2>1. a.of \in Dependencies[Current]
    BY <1>1, <1>2, <1>6 DEF Dependencies, References
  <2>2. matches(v, source) /\ compatible(source, type) /\ Input[f] = v
    BY <1>1, <1>2, <1>5, <1>6, <2>1 DEF ExecutorInv, OrderSound
  <2>3. Unchecked(source, type) \/ matches(v, type)
    <3>1. v \in Values
      BY <1>1, <2>1, OutputsTyped
    <3> QED  BY <2>2, <3>1, CompatibleFits
  <2> QED  BY <1>6, <2>2, <2>3
<1> QED  BY <1>2, <1>4, <1>5, <1>6

\* Entries.
Trail == Seq([decision: Decisions, node: Nodes \cup {"none"}])

\* An entry about the node that is reached, in a trail without a failure.
LEMMA EntryAdded ==
  ASSUME ExecutorInv, exec.at \in Running, exec.sequence <= Len(exec.order), NEW d \in Decisions
  PROVE  LET new == Append(audit, Entry(d, Current)) IN
         /\ new \in Trail /\ new # <<>> /\ Last(new) = Entry(d, Current) /\ Len(new) = Len(audit) + 1
         /\ Len(audit) \in Nat /\ DOMAIN audit = 1..Len(audit) /\ DOMAIN new = 1..(Len(audit) + 1)
         /\ \A i \in DOMAIN audit : new[i] = audit[i] /\ audit[i].decision # "failed"
         /\ new[Len(audit) + 1].decision = d /\ new[Len(audit) + 1].node = Current
<1>1. audit \in Trail /\ \A i \in DOMAIN audit : audit[i].decision # "failed"
  BY DEF ExecutorInv, TypeOK, TrailSound, Running, Trail
<1>2. Accepted /\ Current \in Nodes
  BY NeedsAreThere DEF Accepted
<1>3. Entry(d, Current) \in [decision: Decisions, node: Nodes \cup {"none"}]
  BY <1>2 DEF Entry
<1>4. Entry(d, Current).decision = d /\ Entry(d, Current).node = Current
  BY DEF Entry
<1> DEFINE x == Entry(d, Current)
           X == [decision: Decisions, node: Nodes \cup {"none"}]
<1>5. audit \in Seq(X) /\ x \in X
  BY <1>1, <1>3 DEF Trail
<1>6. Trail = Seq(X)
  BY DEF Trail
<1> HIDE DEF x, X
<1>7. /\ Append(audit, x) \in Seq(X) /\ Len(Append(audit, x)) = Len(audit) + 1 /\ Len(audit) \in Nat
      /\ DOMAIN audit = 1..Len(audit) /\ DOMAIN Append(audit, x) = 1..(Len(audit) + 1)
      /\ \A i \in 1..Len(audit) : Append(audit, x)[i] = audit[i]
      /\ Append(audit, x)[Len(audit) + 1] = x /\ Append(audit, x) # <<>> /\ Last(Append(audit, x)) = x
  BY <1>5, Appended
<1> QED  BY <1>1, <1>4, <1>6, <1>7 DEF x

\* What a record would say does not change with the phase.
LEMMA ElementStays ==
  ASSUME graph' = graph, version' = version, exec'.sequence = exec.sequence,
         exec'.order = exec.order, exec'.outputs = exec.outputs
  PROVE  Current' = Current /\ Input' = Input /\ \A o : Element(o)' = Element(o)
<1>1. Current' = Current
  BY DEF Current
<1>2. \A id : NodeOf(id)' = NodeOf(id)
  BY GraphStays
<1>3. Input' = Input
  BY <1>1, <1>2 DEF Input, Resolved
<1> QED  BY <1>1, <1>2, <1>3 DEF Element

\* A step at a node that keeps no output.
LEMMA NodeStep ==
  ASSUME ExecutorInv, exec.at \in Running, exec.sequence <= Len(exec.order),
         UNCHANGED <<graph, version, records, calls>>, exec' \in Execution,
         exec'.mode = exec.mode, exec'.allowed = exec.allowed, exec'.given = exec.given,
         exec'.order = exec.order, exec'.sequence = exec.sequence, exec'.outputs = exec.outputs,
         exec'.made = exec.made, exec'.at \in {"sandbox", "observed", "failing", "over"},
         ran \subseteq ran', ran' \subseteq Elements, InputsMatchSchemas',
         exec'.at \in {"sandbox", "observed"} =>
            exec.mode # "replay" /\ audit' # <<>> /\ Last(audit') = Entry("attempted", Current),
         exec'.at = "observed" => Element(exec'.seen) \in ran',
         \/ audit' = audit /\ exec'.at # "over"
         \/ \E d \in Decisions : /\ audit' = Append(audit, Entry(d, Current))
                                 /\ d = "failed" <=> exec'.at = "over"
  PROVE  ExecutorInv'
<1>1. /\ Nodes' = Nodes /\ Dependencies' = Dependencies /\ Valid' = Valid
      /\ Elements' = Elements /\ Records' = Records /\ Execution' = Execution
      /\ \A id : NodeOf(id)' = NodeOf(id) /\ Capability(id)' = Capability(id)
  BY GraphStays
<1>2. Current' = Current /\ Input' = Input /\ \A o : Element(o)' = Element(o)
  BY ElementStays
<1>3. Accepted /\ Current \in Nodes /\ exec.order # <<>> /\ Accepted'
  <2>1. exec.order \in Seq(Nodes) /\ exec.sequence \in Nat \ {0}
    BY DEF ExecutorInv, TypeOK, Execution
  <2>2. exec.order # <<>>
    BY <2>1, EmptySeq
  <2> QED  BY <2>2, NeedsAreThere DEF Accepted
<1>4. /\ audit' \in Trail /\ DOMAIN audit \subseteq DOMAIN audit'
      /\ \A i \in DOMAIN audit : audit'[i] = audit[i]
      /\ \A i \in DOMAIN audit' : audit'[i].decision = "failed" =>
            i = Len(audit') /\ exec'.at = "over" /\ audit'[i].node = Current
      /\ exec'.at = "over" =>
            \E i \in DOMAIN audit' : audit'[i].node = Current /\ audit'[i].decision = "failed"
  <2>1. CASE audit' = audit /\ exec'.at # "over"
    BY <2>1 DEF ExecutorInv, TypeOK, TrailSound, Running, Trail
  <2>2. ASSUME NEW d \in Decisions, audit' = Append(audit, Entry(d, Current)),
               d = "failed" <=> exec'.at = "over"
        PROVE  /\ audit' \in Trail /\ DOMAIN audit \subseteq DOMAIN audit'
               /\ \A i \in DOMAIN audit : audit'[i] = audit[i]
               /\ \A i \in DOMAIN audit' : audit'[i].decision = "failed" =>
                    i = Len(audit') /\ exec'.at = "over" /\ audit'[i].node = Current
               /\ exec'.at = "over" =>
                    \E i \in DOMAIN audit' : audit'[i].node = Current /\ audit'[i].decision = "failed"
    BY <2>2, EntryAdded
  <2> QED  BY <2>1, <2>2
<1>5. TypeOK'
  BY <1>1, <1>4 DEF ExecutorInv, TypeOK, Trail
<1>6. Starting'
  <2>1. exec'.at = "over" => audit' # <<>>
    BY <1>4
  <2> QED  BY <1>3, <2>1 DEF Starting
<1>7. OrderSound'
  BY <1>1, <1>3 DEF ExecutorInv, OrderSound
<1>8. TrailSound'
  <2>1. \A id \in DOMAIN exec'.outputs : Said(id, {"executed", "replayed"})'
    BY <1>4 DEF ExecutorInv, TrailSound, Said
  <2>2. exec'.at = "over" => \E id \in Nodes' : Said(id, {"failed"})'
    BY <1>1, <1>3, <1>4 DEF Said
  <2>3. exec'.at \in {"sandbox", "observed"} => audit' # <<>> /\ Last(audit') = Entry("attempted", Current)'
    BY <1>2 DEF Entry
  <2> QED  BY <1>2, <1>4, <2>1, <2>2, <2>3 DEF TrailSound
<1>9. RecordsSound'
  <2>1. /\ \A r \in records : Genuine(r)
        /\ \A i \in DOMAIN exec.given : Genuine(exec.given[i])
        /\ exec.made \subseteq ran
    BY DEF ExecutorInv, RecordsSound
  <2>2. /\ \A r \in records' : Genuine(r)'
        /\ \A i \in DOMAIN exec'.given : Genuine(exec.given[i])'
        /\ exec'.made \subseteq ran'
    BY <2>1 DEF Genuine
  <2>3. exec'.at \in {"sandbox", "observed"} => exec'.mode # "replay"
    OBVIOUS
  <2>4. exec'.at = "observed" => Element(exec.seen)' \in ran'
    BY <1>2
  <2>5. exec'.mode = "replay" => Len(exec'.given) = Len(exec'.order)
    BY DEF ExecutorInv, RecordsSound
  <2> QED  BY <2>2, <2>3, <2>4, <2>5 DEF RecordsSound
<1>10. ReplayIsAuthentic'
  <2>1. SUFFICES ASSUME exec'.mode = "replay", NEW id \in DOMAIN exec'.outputs
                 PROVE  \E e \in ran' : /\ e.node = id /\ e.output = exec'.outputs[id]
                                        /\ e.input = Resolved(id, exec.outputs)'
                                        /\ exec'.at # "over" => e.version = version'[NodeOf(id)'.tool]
    BY DEF ReplayIsAuthentic
  <2>2. PICK e \in ran : /\ e.node = id /\ e.output = exec.outputs[id]
                         /\ e.input = Resolved(id, exec.outputs)
                         /\ exec.at # "over" => e.version = version[NodeOf(id).tool]
    BY <2>1 DEF ExecutorInv, ReplayIsAuthentic
  <2>3. Resolved(id, exec.outputs)' = Resolved(id, exec.outputs)
    BY <1>1 DEF Resolved
  <2>4. exec.at # "over"
    BY DEF Running
  <2> QED  BY <1>1, <2>2, <2>3, <2>4
<1> QED  BY <1>5, <1>6, <1>7, <1>8, <1>9, <1>10 DEF ExecutorInv

\* No run, no new input.
LEMMA InputsStay ==
  ASSUME InputsMatchSchemas, graph' = graph, ran' = ran
  PROVE  InputsMatchSchemas'
  BY DEF InputsMatchSchemas, NodeOf

\* The node that is reached, and the types of its execution.
LEMMA AtNode ==
  ASSUME ExecutorInv, exec.at \in Running
  PROVE  /\ TypeOK /\ exec \in Execution /\ Accepted /\ Valid /\ InputsMatchSchemas /\ ran \subseteq Elements
         /\ exec.at # "node" => exec.sequence <= Len(exec.order)
         /\ {"sandbox", "observed", "failing", "over", "node"} \subseteq Phases
         /\ {"attempted", "executed", "replayed", "failed"} \subseteq Decisions
  BY DEF ExecutorInv, TypeOK, Accepted, OrderSound, TrailSound, Running, Phases, Decisions

\* Attempt.
LEMMA AttemptKeeps ==
  ASSUME ExecutorInv, Attempt
  PROVE  ExecutorInv'
<1>1. /\ exec.at \in Running /\ exec.mode # "replay" /\ exec.sequence <= Len(exec.order)
      /\ audit' = Append(audit, Entry("attempted", Current))
      /\ UNCHANGED <<graph, version, ran, records, calls>>
  BY DEF Attempt, Running, Audited
<1>2. exec \in Execution /\ InputsMatchSchemas /\ ran \subseteq Elements /\ "attempted" \in Decisions
  BY <1>1, AtNode
<1>3. PICK at \in {"sandbox", "failing"} : exec' = [exec EXCEPT !.at = at]
  BY DEF Attempt
<1>4. /\ exec' \in Execution /\ exec'.at = at
      /\ exec'.mode = exec.mode /\ exec'.allowed = exec.allowed /\ exec'.given = exec.given
      /\ exec'.order = exec.order /\ exec'.sequence = exec.sequence /\ exec'.outputs = exec.outputs
      /\ exec'.made = exec.made
  BY <1>2, <1>3 DEF Execution, Phases
<1>5. audit' # <<>> /\ Last(audit') = Entry("attempted", Current)
  BY <1>1, <1>2, EntryAdded
<1>6. InputsMatchSchemas'
  BY <1>1, <1>2, InputsStay
<1>7. \E d \in Decisions : /\ audit' = Append(audit, Entry(d, Current))
                           /\ d = "failed" <=> exec'.at = "over"
  BY <1>1, <1>2, <1>4
<1> QED  BY <1>1, <1>2, <1>4, <1>5, <1>6, <1>7, NodeStep

\* Sandbox: the tool has run with an input that fits.
LEMMA SandboxKeeps ==
  ASSUME ExecutorInv, NEW output \in Values, Sandbox(output)
  PROVE  ExecutorInv'
<1>1. /\ exec.at = "sandbox" /\ exec.at \in Running /\ ran' = ran \cup {Element(output)}
      /\ exec' = [exec EXCEPT !.at = "observed", !.seen = output]
      /\ UNCHANGED <<graph, version, audit, records, calls>>
  BY DEF Sandbox, Running
<1>2. /\ TypeOK /\ exec \in Execution /\ Accepted /\ Valid /\ InputsMatchSchemas /\ ran \subseteq Elements
      /\ exec.sequence <= Len(exec.order)
  BY <1>1, AtNode
<1>3. /\ exec' \in Execution /\ exec'.at = "observed" /\ exec'.seen = output
      /\ exec'.mode = exec.mode /\ exec'.allowed = exec.allowed /\ exec'.given = exec.given
      /\ exec'.order = exec.order /\ exec'.sequence = exec.sequence /\ exec'.outputs = exec.outputs
      /\ exec'.made = exec.made
  BY <1>1, <1>2 DEF Execution, Phases
<1>4. exec.mode # "replay" /\ audit # <<>> /\ Last(audit) = Entry("attempted", Current)
  BY <1>1 DEF ExecutorInv, RecordsSound, TrailSound
<1>5. Element(output) \in Elements
  <2>1. Current \in Nodes /\ Input \in [Fields -> Values \cup {"none"}] /\ exec.sequence \in Nat
    BY <1>2, NeedsAreThere, InputTyped DEF Execution
  <2>2. version[NodeOf(Current).tool] \in {1, 2}
    BY <1>2, <2>1, ValidNode DEF TypeOK
  <2> QED  BY <2>1, <2>2 DEF Element, Elements
<1>6. InputsMatchSchemas'
  <2>1. Element(output).node = Current /\ Element(output).input = Input
    BY DEF Element
  <2>2. ASSUME NEW e \in ran', NEW f \in Described(NodeOf(e.node))
        PROVE  LET a == NodeOf(e.node).arguments[f]
                   schema == Tools[NodeOf(e.node).tool].properties[f] IN
               \/ a.kind = "absent"
               \/ a.kind = "ref" /\ Unchecked(Tools[NodeOf(a.of).tool].output, schema)
               \/ matches(e.input[f], schema)
    <3>1. CASE e \in ran
      BY <1>2, <2>2, <3>1 DEF InputsMatchSchemas
    <3>2. CASE e = Element(output)
      <4>1. e.node = Current /\ e.input = Input /\ f \in Described(NodeOf(Current))
        BY <2>1, <2>2, <3>2
      <4>2. LET a == NodeOf(Current).arguments[f]
                schema == Tools[NodeOf(Current).tool].properties[f] IN
            \/ a.kind = "absent"
            \/ a.kind = "ref" /\ Unchecked(Tools[NodeOf(a.of).tool].output, schema)
            \/ matches(Input[f], schema)
        BY <1>2, <4>1, InputFits
      <4> QED  BY <4>1, <4>2
    <3> QED  BY <1>1, <2>2, <3>1, <3>2
  <2>3. \A id : NodeOf(id)' = NodeOf(id)
    BY <1>1, GraphStays
  <2> QED  BY <2>2, <2>3 DEF InputsMatchSchemas
<1>7. ran \subseteq ran' /\ ran' \subseteq Elements /\ Element(exec'.seen) \in ran'
  BY <1>1, <1>2, <1>3, <1>5
<1> QED  BY <1>1, <1>2, <1>3, <1>4, <1>6, <1>7, NodeStep

\* The execution of the node fails: of the sandbox, of a check or of the sink.
LEMMA FailingKeeps ==
  ASSUME ExecutorInv, exec.at \in Running, exec.sequence <= Len(exec.order),
         exec' = [exec EXCEPT !.at = "failing"], UNCHANGED <<graph, version, ran, records, calls>>,
         \/ audit' = audit
         \/ \E d \in {"executed", "replayed"} : audit' = Append(audit, Entry(d, Current))
  PROVE  ExecutorInv'
<1>1. /\ exec \in Execution /\ InputsMatchSchemas /\ ran \subseteq Elements
      /\ {"executed", "replayed"} \subseteq Decisions
  BY AtNode
<1>2. /\ exec' \in Execution /\ exec'.at = "failing"
      /\ exec'.mode = exec.mode /\ exec'.allowed = exec.allowed /\ exec'.given = exec.given
      /\ exec'.order = exec.order /\ exec'.sequence = exec.sequence /\ exec'.outputs = exec.outputs
      /\ exec'.made = exec.made
  BY <1>1 DEF Execution, Phases
<1>3. InputsMatchSchemas'
  BY <1>1, InputsStay
<1>4. \/ audit' = audit /\ exec'.at # "over"
      \/ \E d \in Decisions : /\ audit' = Append(audit, Entry(d, Current))
                              /\ d = "failed" <=> exec'.at = "over"
  BY <1>1, <1>2
<1> QED  BY <1>1, <1>2, <1>3, <1>4, NodeStep

\* Fail: the last entry of the trail says so.
LEMMA FailKeeps ==
  ASSUME ExecutorInv, Fail
  PROVE  ExecutorInv'
<1>1. /\ exec.at = "failing" /\ exec.at \in Running
      /\ exec' = [exec EXCEPT !.at = "over"] /\ audit' = Append(audit, Entry("failed", Current))
      /\ UNCHANGED <<graph, version, ran, records, calls>>
  BY DEF Fail, Running, Audited
<1>2. /\ exec \in Execution /\ InputsMatchSchemas /\ ran \subseteq Elements
      /\ "failed" \in Decisions /\ exec.sequence <= Len(exec.order)
  BY <1>1, AtNode
<1>3. /\ exec' \in Execution /\ exec'.at = "over"
      /\ exec'.mode = exec.mode /\ exec'.allowed = exec.allowed /\ exec'.given = exec.given
      /\ exec'.order = exec.order /\ exec'.sequence = exec.sequence /\ exec'.outputs = exec.outputs
      /\ exec'.made = exec.made
  BY <1>1, <1>2 DEF Execution, Phases
<1>4. InputsMatchSchemas'
  BY <1>1, <1>2, InputsStay
<1>5. \E d \in Decisions : /\ audit' = Append(audit, Entry(d, Current))
                           /\ d = "failed" <=> exec'.at = "over"
  BY <1>1, <1>2, <1>3
<1> QED  BY <1>1, <1>2, <1>3, <1>4, <1>5, NodeStep

\* The outputs with one more.
With(outputs, id, output) ==
    [n \in DOMAIN outputs \cup {id} |-> IF n = id THEN output ELSE outputs[n]]

\* What Keep does.
LEMMA KeepMoves ==
  ASSUME TypeOK, Current \in Nodes, NEW output \in Values, Keep(output),
         exec.mode = "record" => Element(output) \in Elements
  PROVE  /\ exec' \in Execution /\ exec'.at = "node" /\ exec'.sequence = exec.sequence + 1
         /\ exec'.mode = exec.mode /\ exec'.allowed = exec.allowed /\ exec'.given = exec.given
         /\ exec'.order = exec.order /\ exec'.outputs = With(exec.outputs, Current, output)
         /\ exec'.made \subseteq exec.made \cup {Element(output)}
         /\ exec.mode # "record" => exec'.made = exec.made
<1> DEFINE kept == With(exec.outputs, Current, output)
           made == IF exec.mode = "record" THEN exec.made \cup {Element(output)} ELSE exec.made
<1>1. exec' = [exec EXCEPT !.at = "node", !.seen = "null", !.sequence = exec.sequence + 1,
                  !.outputs = kept, !.made = made]
  BY DEF Keep, With
<1>2. kept \in UNION {[S -> Values] : S \in SUBSET Nodes}
  <2>1. DOMAIN exec.outputs \cup {Current} \in SUBSET Nodes
    BY OutputsTyped
  <2>2. kept \in [DOMAIN exec.outputs \cup {Current} -> Values]
    BY OutputsTyped DEF With
  <2> QED  BY <2>1, <2>2
<1>3. made \in SUBSET Elements /\ exec.sequence + 1 \in Nat \ {0} /\ "node" \in Phases /\ "null" \in Values
  BY ValuesAssumption DEF TypeOK, Execution, Phases
<1>4. made \subseteq exec.made \cup {Element(output)} /\ (exec.mode # "record" => made = exec.made)
  OBVIOUS
<1> HIDE DEF kept, made
<1>5. /\ exec' \in Execution /\ exec'.at = "node" /\ exec'.sequence = exec.sequence + 1
      /\ exec'.mode = exec.mode /\ exec'.allowed = exec.allowed /\ exec'.given = exec.given
      /\ exec'.order = exec.order /\ exec'.outputs = kept /\ exec'.made = made
  BY <1>1, <1>2, <1>3 DEF TypeOK, Execution
<1> QED  BY <1>4, <1>5 DEF kept

\* A step that keeps the output of a node, executed or replayed.
LEMMA KeepStep ==
  ASSUME ExecutorInv, exec.at \in Running, exec.sequence <= Len(exec.order),
         UNCHANGED <<graph, version, ran, records, calls>>,
         \E output \in Values, d \in {"executed", "replayed"} :
            /\ Keep(output) /\ audit' = Append(audit, Entry(d, Current)) /\ ValidOutput(output)
            /\ exec.mode = "record" => Element(output) \in ran
            /\ exec.mode = "replay" =>
                \E e \in ran : /\ e.node = Current /\ e.output = output /\ e.input = Input
                               /\ e.version = version[NodeOf(Current).tool]
  PROVE  ExecutorInv'
<1>1. PICK output \in Values, d \in {"executed", "replayed"} :
            /\ Keep(output) /\ audit' = Append(audit, Entry(d, Current)) /\ ValidOutput(output)
            /\ exec.mode = "record" => Element(output) \in ran
            /\ exec.mode = "replay" =>
                \E e \in ran : /\ e.node = Current /\ e.output = output /\ e.input = Input
                               /\ e.version = version[NodeOf(Current).tool]
  OBVIOUS
<1>2. /\ TypeOK /\ Accepted /\ Valid /\ InputsMatchSchemas /\ ran \subseteq Elements
      /\ {"executed", "replayed"} \subseteq Decisions
  BY AtNode
<1>3. /\ \A id \in DOMAIN exec.outputs : Dependencies[id] \subseteq DOMAIN exec.outputs
      /\ Current \in Nodes /\ Current \notin DOMAIN exec.outputs
      /\ Dependencies[Current] \subseteq DOMAIN exec.outputs
      /\ DOMAIN exec.outputs \cup {Current} = Before(exec.order, exec.sequence + 1)
      /\ DOMAIN exec.outputs \subseteq Nodes
  BY <1>2, NeedsAreThere, OutputsTyped
<1>4. /\ exec' \in Execution /\ exec'.at = "node" /\ exec'.sequence = exec.sequence + 1
      /\ exec'.mode = exec.mode /\ exec'.allowed = exec.allowed /\ exec'.given = exec.given
      /\ exec'.order = exec.order /\ exec'.outputs = With(exec.outputs, Current, output)
      /\ exec'.made \subseteq exec.made \cup {Element(output)}
      /\ exec.mode # "record" => exec'.made = exec.made
  BY <1>1, <1>2, <1>3, KeepMoves
<1>5. /\ DOMAIN exec'.outputs = DOMAIN exec.outputs \cup {Current} /\ exec'.outputs[Current] = output
      /\ \A id \in DOMAIN exec.outputs : exec'.outputs[id] = exec.outputs[id]
  BY <1>3, <1>4 DEF With
<1>6. /\ Nodes' = Nodes /\ Dependencies' = Dependencies /\ Valid' = Valid
      /\ \A id : NodeOf(id)' = NodeOf(id) /\ Capability(id)' = Capability(id)
  BY GraphStays
<1>7. /\ audit' \in Trail /\ DOMAIN audit \subseteq DOMAIN audit'
      /\ \A i \in DOMAIN audit : audit'[i] = audit[i]
      /\ \A i \in DOMAIN audit' : audit'[i].decision # "failed"
      /\ \E i \in DOMAIN audit' : audit'[i].node = Current /\ audit'[i].decision \in {"executed", "replayed"}
  BY <1>1, <1>2, EntryAdded
<1>8. TypeOK'
  BY <1>2, <1>4, <1>7, TypesKept DEF TypeOK, Trail
<1>9. Starting'
  BY <1>4 DEF Starting, Accepted, Running
<1>10. OrderSound'
  <2>1. /\ Valid /\ Once(exec.order) /\ ToSet(exec.order) = Nodes
        /\ \A i \in DOMAIN exec.order : Dependencies[exec.order[i]] \subseteq Before(exec.order, i)
        /\ \A id \in Nodes : Capability(id) \in exec.allowed
        /\ \A id \in DOMAIN exec.outputs :
                matches(exec.outputs[id], Tools[NodeOf(id).tool].output)
    BY <1>2 DEF ExecutorInv, OrderSound
  <2>2. exec'.sequence <= Len(exec'.order) + 1
    <3>1. exec.sequence \in Nat /\ Len(exec.order) \in Nat
      BY <1>2, LenProperties DEF TypeOK, Execution
    <3> QED  BY <1>4, <3>1
  <2>3. matches(output, Tools[NodeOf(Current).tool].output)
    BY <1>1 DEF ValidOutput, CurrentTool
  <2>4. \A id \in DOMAIN exec'.outputs :
            matches(exec'.outputs[id], Tools[NodeOf(id).tool].output)
    BY <1>5, <2>1, <2>3
  <2>5. DOMAIN exec'.outputs = Before(exec'.order, exec'.sequence)
    BY <1>3, <1>4, <1>5
  <2> QED  BY <1>4, <1>6, <2>1, <2>2, <2>4, <2>5 DEF OrderSound
<1>11. TrailSound'
  <2>1. \A id \in DOMAIN exec'.outputs : Said(id, {"executed", "replayed"})'
    BY <1>5, <1>7 DEF ExecutorInv, TrailSound, Said
  <2> QED  BY <1>4, <1>7, <2>1 DEF TrailSound
<1>12. RecordsSound'
  <2>1. /\ \A r \in records : Genuine(r)
        /\ \A i \in DOMAIN exec.given : Genuine(exec.given[i])
        /\ exec.made \subseteq ran
        /\ exec.mode = "replay" => Len(exec.given) = Len(exec.order)
    BY DEF ExecutorInv, RecordsSound
  <2>2. exec'.made \subseteq ran'
    BY <1>1, <1>4, <2>1
  <2> QED  BY <1>4, <2>1, <2>2 DEF RecordsSound, Genuine
<1>13. InputsMatchSchemas'
  BY <1>2, InputsStay
<1>14. ReplayIsAuthentic'
  <2>1. SUFFICES ASSUME exec.mode = "replay", NEW id \in DOMAIN exec'.outputs
                 PROVE  \E e \in ran : /\ e.node = id /\ e.output = exec'.outputs[id]
                                       /\ e.input = Resolved(id, exec'.outputs)
                                       /\ e.version = version[NodeOf(id).tool]
    <3>1. \A id : Resolved(id, exec.outputs)' = Resolved(id, exec'.outputs)
      BY <1>6 DEF Resolved
    <3> QED  BY <1>4, <1>6, <3>1 DEF ReplayIsAuthentic
  <2>2. id \in Nodes /\ Dependencies[id] \subseteq DOMAIN exec.outputs
    BY <1>3, <1>5
  <2>3. Resolved(id, exec'.outputs) = Resolved(id, exec.outputs)
    BY <1>5, <2>2, ResolvedDependsOn
  <2>4. CASE id = Current
    BY <1>1, <1>5, <2>1, <2>3, <2>4 DEF Input
  <2>5. CASE id \in DOMAIN exec.outputs
    <3>1. exec.at # "over"
      BY DEF Running
    <3> QED  BY <1>5, <2>1, <2>3, <2>5, <3>1 DEF ExecutorInv, ReplayIsAuthentic
  <2> QED  BY <1>5, <2>4, <2>5
<1> QED  BY <1>8, <1>9, <1>10, <1>11, <1>12, <1>13, <1>14 DEF ExecutorInv

\* Executed.
LEMMA ExecutedKeeps ==
  ASSUME ExecutorInv, Executed
  PROVE  ExecutorInv'
<1>1. /\ exec.at = "observed" /\ exec.at \in Running
      /\ UNCHANGED <<graph, version, ran, records, calls>>
  BY DEF Executed, Running
<1>2. /\ exec.sequence <= Len(exec.order) /\ exec.seen \in Values
      /\ exec.mode # "replay" /\ Element(exec.seen) \in ran
  BY <1>1, AtNode DEF ExecutorInv, RecordsSound, Execution
<1>3. CASE ValidOutput(exec.seen) /\ Audited("executed") /\ Keep(exec.seen)
  BY <1>1, <1>2, <1>3, KeepStep DEF Audited
<1>4. CASE ValidOutput(exec.seen) /\ Audited("executed") /\ exec' = [exec EXCEPT !.at = "failing"]
  BY <1>1, <1>2, <1>4, FailingKeeps DEF Audited
<1>5. CASE ~ValidOutput(exec.seen) /\ exec' = [exec EXCEPT !.at = "failing"] /\ UNCHANGED audit
  BY <1>1, <1>2, <1>5, FailingKeeps
<1> QED  BY <1>3, <1>4, <1>5 DEF Executed

\* Replay: a record that passes was made from a run of this node.
LEMMA ReplayKeeps ==
  ASSUME ExecutorInv, Replay
  PROVE  ExecutorInv'
<1> DEFINE r == exec.given[exec.sequence]
<1>1. /\ exec.at \in Running /\ exec.mode = "replay" /\ exec.sequence <= Len(exec.order)
      /\ UNCHANGED <<graph, version, ran, records, calls>>
  BY DEF Replay, Running
<1>2. r \in Records /\ Genuine(r)
  <2>1. exec.given \in Seq(Records) /\ exec.order \in Seq(Nodes) /\ exec.sequence \in Nat \ {0}
    BY DEF ExecutorInv, TypeOK, Execution
  <2>2. Len(exec.given) = Len(exec.order) /\ \A i \in DOMAIN exec.given : Genuine(exec.given[i])
    BY <1>1 DEF ExecutorInv, RecordsSound
  <2>3. exec.sequence \in 1..Len(exec.given) /\ DOMAIN exec.given = 1..Len(exec.given)
    BY <1>1, <2>1, <2>2, LenProperties
  <2> QED  BY <2>1, <2>2, <2>3, ElementOfSeq
<1>3. CASE Verified(r) /\ ValidOutput(r.output) /\ Audited("replayed") /\ Keep(r.output)
  <2>1. PICK e \in ran : r = makeReplay(e)
    BY <1>2, <1>3 DEF Verified, Genuine
  <2>2. e.node = r.node /\ e.input = r.input /\ e.version = r.version /\ e.output = r.output
    BY <2>1 DEF makeReplay
  <2>3. \E x \in ran : /\ x.node = Current /\ x.output = r.output /\ x.input = Input
                       /\ x.version = version[NodeOf(Current).tool]
    BY <1>3, <2>2 DEF Verified
  <2>4. r.output \in Values
    BY <1>2 DEF Records
  <2> HIDE DEF r
  <2> QED  BY <1>1, <1>3, <2>3, <2>4, KeepStep DEF Audited
<1>4. CASE Audited("replayed") /\ exec' = [exec EXCEPT !.at = "failing"]
  BY <1>1, <1>4, FailingKeeps DEF Audited
<1>5. CASE exec' = [exec EXCEPT !.at = "failing"] /\ UNCHANGED audit
  BY <1>1, <1>5, FailingKeeps
<1> QED  BY <1>3, <1>4, <1>5 DEF Replay

\* Return: every node has its output, and what is returned was run.
LEMMA ReturnKeeps ==
  ASSUME ExecutorInv, Return
  PROVE  ExecutorInv'
<1>1. /\ exec.at = "node" /\ exec.at \in Running /\ exec.sequence > Len(exec.order)
      /\ exec' = [exec EXCEPT !.at = "over"]
      /\ records' = records \cup {makeReplay(e) : e \in exec.made}
      /\ UNCHANGED <<graph, version, audit, ran, calls>>
  BY DEF Return, Running
<1>2. TypeOK /\ exec \in Execution /\ Accepted /\ Valid /\ InputsMatchSchemas /\ ran \subseteq Elements
  BY <1>1, AtNode
<1>3. /\ exec' \in Execution /\ exec'.at = "over"
      /\ exec'.mode = exec.mode /\ exec'.allowed = exec.allowed /\ exec'.given = exec.given
      /\ exec'.order = exec.order /\ exec'.sequence = exec.sequence /\ exec'.outputs = exec.outputs
      /\ exec'.made = exec.made
  BY <1>1, <1>2 DEF Execution, Phases
<1>4. /\ Nodes' = Nodes /\ Dependencies' = Dependencies /\ Valid' = Valid
      /\ Elements' = Elements /\ Records' = Records /\ Execution' = Execution
      /\ \A id : NodeOf(id)' = NodeOf(id) /\ Capability(id)' = Capability(id)
  BY <1>1, GraphStays
<1>5. /\ exec.order \in Seq(Nodes) /\ DOMAIN exec.order = 1..Len(exec.order) /\ Len(exec.order) \in Nat
      /\ Once(exec.order) /\ ToSet(exec.order) = Nodes
      /\ exec.sequence <= Len(exec.order) + 1 /\ DOMAIN exec.outputs = Before(exec.order, exec.sequence)
      /\ exec.sequence \in Nat
  BY <1>2, LenProperties DEF ExecutorInv, OrderSound, Execution
<1>6. exec.sequence = Len(exec.order) + 1 /\ DOMAIN exec.outputs = Nodes
  <2>1. exec.sequence = Len(exec.order) + 1
    BY <1>1, <1>5
  <2>2. Before(exec.order, Len(exec.order) + 1) = ToSet(exec.order)
    BY <1>5 DEF Before, ToSet
  <2> QED  BY <1>5, <2>1, <2>2
<1>7. Len(exec.order) = Len(graph) /\ graph \in Seq(ToSet(graph))
  BY <1>2, <1>5, OrderIsAsLong, GraphTyped
<1>8. /\ exec.made \subseteq ran /\ \A r \in records : Genuine(r)
      /\ \A i \in DOMAIN exec.given : Genuine(exec.given[i])
  BY DEF ExecutorInv, RecordsSound
<1>9. ASSUME NEW e \in exec.made
      PROVE  makeReplay(e) \in Records /\ Genuine(makeReplay(e))
  <2>1. e \in Elements /\ e \in ran
    BY <1>2, <1>8, <1>9
  <2> QED  BY <2>1 DEF makeReplay, Elements, Records, Genuine
<1>10. TypeOK'
  BY <1>1, <1>2, <1>3, <1>4, <1>9 DEF TypeOK
<1>11. Starting'
  <2>1. CASE exec.order = <<>>
    <3>1. graph = <<>> /\ Nodes = {}
      BY <1>7, <2>1, EmptySeq DEF Nodes
    <3>2. Elements = {}
      BY <3>1 DEF Elements
    <3>3. exec.made = {} /\ DOMAIN exec.outputs = {} /\ exec.sequence = 1
      BY <1>2, <1>6, <1>8, <2>1, <3>1, <3>2
    <3> QED  BY <1>1, <1>3, <3>1, <3>3 DEF Starting
  <2>2. CASE exec.order # <<>>
    <3>1. Nodes # {}
      BY <1>5, <2>2 DEF ToSet
    <3>2. audit # <<>>
      BY <1>6, <3>1 DEF ExecutorInv, TrailSound, Said
    <3> QED  BY <1>1, <1>3, <2>2, <3>2 DEF Starting, Accepted
  <2> QED  BY <2>1, <2>2
<1>12. OrderSound'
  BY <1>1, <1>2, <1>3, <1>4 DEF ExecutorInv, OrderSound
<1>13. TrailSound'
  <2>1. \A i \in DOMAIN audit : audit[i].decision # "failed"
    BY <1>1 DEF ExecutorInv, TrailSound
  <2>2. \A id \in DOMAIN exec.outputs : Said(id, {"executed", "replayed"})
    BY DEF ExecutorInv, TrailSound
  <2> QED  BY <1>1, <1>3, <1>4, <1>6, <2>1, <2>2 DEF TrailSound, Said
<1>14. RecordsSound'
  <2>1. \A r \in records' : Genuine(r)
    BY <1>1, <1>8, <1>9
  <2> QED  BY <1>1, <1>3, <1>8, <2>1 DEF RecordsSound, Genuine, Running
<1>15. InputsMatchSchemas'
  BY <1>1, <1>2, InputsStay
<1>16. ReplayIsAuthentic'
  <2>1. \A id : Resolved(id, exec.outputs)' = Resolved(id, exec.outputs)
    BY <1>3, <1>4 DEF Resolved
  <2> QED  BY <1>1, <1>3, <2>1 DEF ExecutorInv, ReplayIsAuthentic
<1> QED  BY <1>10, <1>11, <1>12, <1>13, <1>14, <1>15, <1>16 DEF ExecutorInv

\* Edit: what was replayed is over.
LEMMA EditKeeps ==
  ASSUME ExecutorInv, NEW t \in DOMAIN Tools, Edit(t)
  PROVE  ExecutorInv'
<1>1. /\ exec.at = "over" /\ version' = [version EXCEPT ![t] = 2]
      /\ UNCHANGED <<graph, exec, audit, ran, records, calls>>
  BY DEF Edit
<1>2. /\ Nodes' = Nodes /\ Dependencies' = Dependencies /\ Valid' = Valid /\ Hidden' = Hidden
      /\ Elements' = Elements /\ Records' = Records /\ Execution' = Execution
      /\ \A id : NodeOf(id)' = NodeOf(id) /\ Capability(id)' = Capability(id)
  BY <1>1, GraphStays
<1>3. TypeOK'
  BY <1>1, <1>2 DEF ExecutorInv, TypeOK
<1>4. Starting'
  BY <1>1, <1>2 DEF ExecutorInv, Starting, Accepted
<1>5. OrderSound'
  BY <1>1, <1>2 DEF ExecutorInv, OrderSound, Accepted
<1>6. TrailSound'
  BY <1>1, <1>2 DEF ExecutorInv, TrailSound, Said, Current
<1>7. RecordsSound'
  BY <1>1 DEF ExecutorInv, RecordsSound, Genuine, Running
<1>8. InputsMatchSchemas'
  BY <1>1, InputsStay DEF ExecutorInv
<1>9. ReplayIsAuthentic'
  <2>1. \A id : Resolved(id, exec.outputs)' = Resolved(id, exec.outputs)
    BY <1>1, <1>2 DEF Resolved
  <2> QED  BY <1>1, <2>1 DEF ExecutorInv, ReplayIsAuthentic
<1> QED  BY <1>3, <1>4, <1>5, <1>6, <1>7, <1>8, <1>9 DEF ExecutorInv

-----------------------------------------------------------------------------
(* The theorems.                                                           *)

\* The first state.
LEMMA InitIsSound == Init => ExecutorInv
<1> SUFFICES ASSUME Init
             PROVE  ExecutorInv
  OBVIOUS
<1>1. /\ graph \in Graphs /\ version = [t \in DOMAIN Tools |-> 1] /\ audit = <<>> /\ ran = {}
      /\ records = {} /\ calls = 0 /\ exec = Fresh("idle", "disabled", {}, <<>>)
  BY DEF Init
<1>2. IsFresh(exec, "idle", "disabled", <<>>)
  <2>1. "idle" \in Phases /\ "disabled" \in Modes /\ {} \in SUBSET Capabilities /\ <<>> \in Seq(Records)
    BY EmptySeq DEF Phases, Modes
  <2> QED  BY <1>1, <2>1, FreshMoves
<1>3. /\ exec \in Execution /\ exec.at = "idle" /\ exec.mode = "disabled" /\ exec.given = <<>>
      /\ exec.order = <<>> /\ exec.sequence = 1 /\ DOMAIN exec.outputs = {} /\ exec.made = {}
  BY <1>2 DEF IsFresh
<1>4. TypeOK
  BY <1>1, <1>3, EmptySeq DEF TypeOK
<1>5. ~Accepted
  BY <1>3 DEF Accepted, Running
<1>6. Starting
  BY <1>1, <1>3 DEF Starting
<1>7. OrderSound
  BY <1>5 DEF OrderSound
<1>8. TrailSound
  BY <1>1, <1>3 DEF TrailSound
<1>9. RecordsSound
  BY <1>1, <1>3 DEF RecordsSound, Running
<1>10. InputsMatchSchemas /\ ReplayIsAuthentic
  BY <1>1, <1>3 DEF InputsMatchSchemas, ReplayIsAuthentic
<1> QED  BY <1>4, <1>6, <1>7, <1>8, <1>9, <1>10 DEF ExecutorInv

\* A step that changes nothing.
LEMMA StutterKeeps ==
  ASSUME ExecutorInv, UNCHANGED vars
  PROVE  ExecutorInv'
<1>1. UNCHANGED <<graph, version, exec, audit, ran, records, calls>>
  BY DEF vars
<1>2. /\ Nodes' = Nodes /\ Dependencies' = Dependencies /\ Valid' = Valid /\ Hidden' = Hidden
      /\ Elements' = Elements /\ Records' = Records /\ Execution' = Execution
      /\ \A id : NodeOf(id)' = NodeOf(id) /\ Capability(id)' = Capability(id)
  BY <1>1, GraphStays
<1>3. /\ \A o : Element(o)' = Element(o)
      /\ \A id : Resolved(id, exec.outputs)' = Resolved(id, exec.outputs)
  BY <1>1, <1>2, ElementStays DEF Resolved
<1>4. TypeOK'
  BY <1>1, <1>2 DEF ExecutorInv, TypeOK
<1>5. Starting' /\ OrderSound'
  BY <1>1, <1>2 DEF ExecutorInv, Starting, OrderSound, Accepted
<1>6. TrailSound'
  BY <1>1, <1>2 DEF ExecutorInv, TrailSound, Said, Current
<1>7. RecordsSound'
  BY <1>1, <1>3 DEF ExecutorInv, RecordsSound, Genuine
<1>8. InputsMatchSchemas' /\ ReplayIsAuthentic'
  BY <1>1, <1>2, <1>3, InputsStay DEF ExecutorInv, ReplayIsAuthentic
<1> QED  BY <1>4, <1>5, <1>6, <1>7, <1>8 DEF ExecutorInv

\* Every step keeps the invariant.
LEMMA StepIsSound == ExecutorInv /\ [Next]_vars => ExecutorInv'
<1> SUFFICES ASSUME ExecutorInv, [Next]_vars
             PROVE  ExecutorInv'
  OBVIOUS
<1>1. ASSUME NEW mode \in Modes, NEW allowed \in SUBSET Capabilities, NEW given \in Given(mode),
             Begin(mode, allowed, given)
      PROVE  ExecutorInv'
  BY <1>1, BeginKeeps
<1>2. ASSUME NEW output \in Answers[graph], Sandbox(output)
      PROVE  ExecutorInv'
  <2>1. output \in Values
    BY AnswersAssumption DEF ExecutorInv, TypeOK
  <2> QED  BY <1>2, <2>1, SandboxKeeps
<1>3. ASSUME NEW t \in DOMAIN Tools, Edit(t)
      PROVE  ExecutorInv'
  BY <1>3, EditKeeps
<1>4. CASE WalkInto \/ WalkBack \/ WalkEnds
  BY <1>4, WalkIntoKeeps, WalkBackKeeps, WalkEndsKeeps
<1>5. CASE VisitInto \/ VisitBack \/ VisitEnds
  BY <1>5, VisitIntoKeeps, VisitBackKeeps, VisitEndsKeeps
<1>6. CASE Attempt \/ SandboxFails \/ Fail
  <2>1. CASE SandboxFails
    <3>1. /\ exec.at \in Running /\ exec.at # "node" /\ exec' = [exec EXCEPT !.at = "failing"]
          /\ UNCHANGED <<graph, version, ran, records, calls>> /\ audit' = audit
      BY <2>1 DEF SandboxFails, Running
    <3> QED  BY <3>1, AtNode, FailingKeeps
  <2> QED  BY <1>6, <2>1, AttemptKeeps, FailKeeps
<1>7. CASE Executed \/ Replay \/ Return
  BY <1>7, ExecutedKeeps, ReplayKeeps, ReturnKeeps
<1>8. CASE UNCHANGED vars
  BY <1>8, StutterKeeps
<1> QED  BY <1>1, <1>2, <1>3, <1>4, <1>5, <1>6, <1>7, <1>8 DEF Next

\* The inductive invariant holds in every state of every sequence of executions,
\* the types of the state (TypeOK) among it.
THEOREM ExecutorInvariant == Spec => []ExecutorInv
<1>1. Init => ExecutorInv
  BY InitIsSound
<1>2. ExecutorInv /\ [Next]_vars => ExecutorInv'
  BY StepIsSound
<1> QED  BY <1>1, <1>2, PTL DEF Spec

\* A graph that reaches its nodes is ordered as topologicalOrder should: every
\* node once, after all that it waits for; and no execution of a graph with nodes
\* ends without an audit entry unless a reference is hidden or records do not match.
THEOREM OrderIsRight == Spec => []OrderIsTopological
<1>1. ExecutorInv => OrderIsTopological
  <2> SUFFICES ASSUME ExecutorInv
               PROVE  OrderIsTopological
    OBVIOUS
  <2>1. ASSUME exec.order # <<>>
        PROVE  /\ Len(exec.order) = Len(graph) /\ ToSet(exec.order) = Nodes
               /\ \A i \in DOMAIN exec.order :
                        Needs(NodeOf(exec.order[i])) \subseteq {exec.order[j] : j \in 1..(i - 1)}
    <3>1. /\ TypeOK /\ Valid /\ exec.order \in Seq(Nodes) /\ Once(exec.order) /\ ToSet(exec.order) = Nodes
          /\ \A i \in DOMAIN exec.order : Dependencies[exec.order[i]] \subseteq Before(exec.order, i)
      BY <2>1 DEF ExecutorInv, TypeOK, Execution, OrderSound, Accepted
    <3>2. \A id \in Nodes : Dependencies[id] = Needs(NodeOf(id))
      BY DEF Dependencies, Needs, References
    <3>3. \A i \in DOMAIN exec.order : exec.order[i] \in Nodes
      BY <3>1, ElementOfSeq, LenProperties
    <3> QED  BY <3>1, <3>2, <3>3, OrderIsAsLong DEF Before
  <2>2. exec.at = "over" /\ audit = <<>> =>
            graph = <<>> \/ Hidden # {} \/ Len(exec.given) # (IF exec.mode = "replay" THEN Len(graph) ELSE 0)
    BY DEF ExecutorInv, Starting
  <2> QED  BY <2>1, <2>2 DEF OrderIsTopological
<1> QED  BY <1>1, ExecutorInvariant, PTL

\* The capability check of executeCallGraph covers the whole graph before the
\* first attempt or replay.
THEOREM CapabilitiesComeFirst == Spec => []AllAllowedBeforeAny
<1>1. ExecutorInv => AllAllowedBeforeAny
  <2> SUFFICES ASSUME ExecutorInv, NEW i \in DOMAIN audit,
                      audit[i].decision \in {"attempted", "replayed"}
               PROVE  \A id \in Nodes : Capability(id) \in exec.allowed
    BY DEF AllAllowedBeforeAny
  <2>1. CASE Accepted
    BY <2>1 DEF ExecutorInv, OrderSound
  <2>2. CASE ~Accepted
    <3>1. graph = <<>>
      BY <2>2 DEF ExecutorInv, Starting
    <3> QED  BY <3>1 DEF Nodes
  <2> QED  BY <2>1, <2>2
<1> QED  BY <1>1, ExecutorInvariant, PTL

\* The audit trail of executeCallGraph accounts for every output and every run,
\* and names the node an execution failed at.
THEOREM TrailIsRight == Spec => []TrailMatchesOutputs
<1>1. ExecutorInv => TrailMatchesOutputs
  <2> SUFFICES ASSUME ExecutorInv
               PROVE  TrailMatchesOutputs
    OBVIOUS
  <2>1. audit \in Seq([decision: Decisions, node: Nodes \cup {"none"}]) /\ DOMAIN audit = 1..Len(audit)
    BY LenProperties DEF ExecutorInv, TypeOK
  <2>2. ASSUME NEW i \in DOMAIN audit, audit[i].decision = "failed"
        PROVE  i = Len(audit) /\ audit[i].node \notin DOMAIN exec.outputs
    <3>1. i = Len(audit) /\ exec.sequence <= Len(exec.order) /\ audit[i].node = Current
      BY <2>2 DEF ExecutorInv, TrailSound
    <3>2. Accepted
      <4>1. exec.order \in Seq(Nodes) /\ exec.sequence \in Nat \ {0}
        BY DEF ExecutorInv, TypeOK, Execution
      <4> QED  BY <3>1, <4>1, EmptySeq DEF Accepted
    <3> QED  BY <3>1, <3>2, NeedsAreThere
  <2>3. \A i \in 1..(Len(audit) - 1) : audit[i].decision # "failed"
    <3>1. Len(audit) \in Nat
      BY <2>1, LenProperties
    <3> QED  BY <2>1, <2>2, <3>1
  <2>4. \A id \in DOMAIN exec.outputs : Said(id, {"executed", "replayed"}) /\ ~Said(id, {"failed"})
    BY <2>2 DEF ExecutorInv, TrailSound, Said
  <2> QED  BY <2>3, <2>4 DEF ExecutorInv, TrailSound, TrailMatchesOutputs, Said
<1> QED  BY <1>1, ExecutorInvariant, PTL

\* The arguments that the validator accepted still fit when their references are
\* resolved to what the tools answered.
THEOREM InputsAlwaysFit == Spec => []InputsMatchSchemas
<1>1. ExecutorInv => InputsMatchSchemas
  BY DEF ExecutorInv
<1> QED  BY <1>1, ExecutorInvariant, PTL

\* verifyReplay lets nothing pass that this version of the tool did not answer to
\* this input at this node.
THEOREM ReplayIsRight == Spec => []ReplayIsAuthentic
<1>1. ExecutorInv => ReplayIsAuthentic
  BY DEF ExecutorInv
<1> QED  BY <1>1, ExecutorInvariant, PTL
=============================================================================

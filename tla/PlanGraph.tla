------------------------------ MODULE PlanGraph ------------------------------
(* The authored plan a run starts from (engine/plan.py, engine/loader.py).    *)
(*                                                                            *)
(* Work holds every node that can do work: the plan's nodes and the ones a    *)
(* run can grow, its repair nodes and fan-out children.  Node gives each one  *)
(* the fields the engine decides with; payloads, prompts and paths are left   *)
(* out.  `outputs` says the node records artifacts, `qualified` that its      *)
(* declared output names are the names artifacts are recorded under.          *)
EXTENDS FailurePolicy, FiniteSets

CONSTANTS Work, Plan, Node, NoNode

Kinds == {"work", "bundle", "human", "fanout"}

NodeFields == [kind       : Kinds,
               needs      : SUBSET Plan,
               reads      : SUBSET Plan,
               binds      : SUBSET Plan,
               optional   : BOOLEAN,
               gated      : BOOLEAN,
               outputs    : BOOLEAN,
               qualified  : BOOLEAN,
               from       : Plan \cup {NoNode},
               shapes     : SUBSET (SUBSET Work),
               fix        : Work \cup {NoNode},
               onEscalate : Plan \cup {NoNode},
               policy     : Policies]

(* The nodes a run can give w at runtime: the children of any shape its       *)
(* source may describe, or the repair its on_fail inserts.                    *)
Owned(w) == (UNION Node[w].shapes) \cup ({Node[w].fix} \ {NoNode})

ASSUME PlanAssumption ==
    /\ Plan \subseteq Work
    /\ NoNode \notin Work
    /\ Node \in [Work -> NodeFields]
    \* Inserted ids carry their owner's (`impl:api`, `fix:tests`): nothing is
    \* owned twice, and nothing owned is an authored node.
    /\ \A w \in Work : Owned(w) \cap Plan = {}
    /\ \A v, w \in Work : v # w => Owned(v) \cap Owned(w) = {}
    \* on_fail names what it inserts.
    /\ \A w \in Work : Node[w].policy.repairs => Node[w].fix \in Work
    \* Only nodes that do work are repaired, only fan-outs have shapes.
    /\ \A w \in Work : Node[w].fix # NoNode => Node[w].kind \in {"work", "bundle"}
    /\ \A w \in Work : Node[w].shapes # {} => Node[w].kind = "fanout"
    \* Inserted nodes are agent work with no dependencies of their own.
    /\ \A w \in Work \ Plan : Node[w].kind = "work" /\ Node[w].needs = {}

(* dependency_graph: edges point from dependency to dependent.                *)
Dependents(D) == {e \in Plan : Node[e].needs \cap D # {}}

(* nx.descendants of the authored graph: the least set that holds what        *)
(* depends on w and what depends on anything in it; and nx.ancestors.         *)
Downstream ==
    [w \in Work |-> {d \in Plan : \A D \in SUBSET Plan :
                        Dependents({w} \cup D) \subseteq D => d \in D}]
ASSUME AcyclicAssumption == \A w \in Plan : w \notin Downstream[w]

Upstream == [w \in Work |-> {d \in Plan : w \in Downstream[d]}]

(* _inputs reads the artifacts of `needs` and of `inputs`.                    *)
Reads(w) == Node[w].needs \cup Node[w].reads
===============================================================================

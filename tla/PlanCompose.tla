------------------------------ MODULE PlanCompose -----------------------------
(* Loading a plan that `extends` others (engine/compose.py, engine/loader.py, *)
(* load_plan).  Deltas are applied to the raw base innermost first, each one  *)
(* insert, then override, then remove; the composed mapping is validated once *)
(* at the end, like an authored plan.  A failure anywhere refuses the plan.   *)
(*                                                                            *)
(*   stage     insert, override, removed; then accepted or refused            *)
(*   nodes     the raw nodes: `needs`, and the on_escalate target             *)
(*   restore   the node rollback.restore_from names                           *)
(*   anchors   the anchors this delta inserted after                          *)
(*   level     the deltas begun                                               *)
(* and history:                                                               *)
(*   base      the raw base                                                   *)
(*   splices   what was inserted after what, less the ids removed since      *)
(*   authored  an override wrote `needs`, or a placed node had some           *)
EXTENDS Naturals, Sequences, FiniteSetsExt, Functions

CONSTANTS Ids,        \* every id a plan may write
          NoNode,
          Bases,      \* the raw base mappings
          Insertions, \* what one anchor may be followed by
          Overriding, \* what an override may leave of a node
          Restores,   \* what a delta's rollback may restore from
          MaxLevels, MaxSplices, MaxOverrides

(* An inserted node is spliced unless it declares `needs` of its own.         *)
Inserted == [id : Ids, placed : BOOLEAN, needs : SUBSET Ids]

Mapping(D) == [D -> [needs : SUBSET Ids, target : Ids \cup {NoNode}]]

ASSUME ComposeAssumption ==
    /\ NoNode \notin Ids
    /\ \A b \in Bases : DOMAIN b \subseteq Ids /\ b \in Mapping(DOMAIN b)
    /\ \A added \in Insertions : added \in Seq(Inserted)
    /\ Overriding \subseteq [needs : SUBSET Ids, target : Ids \cup {NoNode}]
    /\ Restores \subseteq Ids
    /\ {MaxLevels, MaxSplices, MaxOverrides} \subseteq Nat

VARIABLES stage, nodes, restore, anchors, level, overrides, base, splices, authored

loadVars == <<stage, nodes, restore, anchors, level, overrides, base, splices, authored>>

(* The positions of the spliced nodes in an insertion, and the ids it brings. *)
Chain(added)  == {i \in DOMAIN added : ~added[i].placed}
IdsOf(added)  == {added[i].id : i \in DOMAIN added}
Linked(added) == {added[i].id : i \in Chain(added)}
Entry(needs)  == [needs |-> needs, target |-> NoNode]

(* A duplicate id, that _check_unique_ids refuses later.                      *)
Duplicates(nds, added) ==
    \/ IdsOf(added) \cap DOMAIN nds # {}
    \/ \E i, j \in DOMAIN added : i # j /\ added[i].id = added[j].id

-------------------------------------------------------------------------------
(* _splice, one anchor: anchor -> new 1 -> ... -> new n, and everything that  *)
(* needed the anchor needs new n.  Placed nodes keep their own needs.         *)
RewiredNothing(needs, anchor, last) == needs  \* mutant: inserted beside the anchor

Rewired(needs, anchor, last) ==
    IF anchor \in needs THEN (needs \ {anchor}) \cup {last} ELSE needs

(* `previous`, at position i of the insertion.                                *)
Previous(added, chain, anchor, i) ==
    LET before == {j \in chain : j < i}
    IN  IF before = {} THEN anchor ELSE added[Max(before)].id

SplicedAlong(nds, anchor, added, chain) ==
    LET At(id)  == CHOOSE i \in DOMAIN added : added[i].id = id
        New(i)  == IF i \in chain THEN {Previous(added, chain, anchor, i)} ELSE added[i].needs
        last    == Previous(added, chain, anchor, Len(added) + 1)
        Old(id) == IF id = anchor THEN nds[id].needs ELSE Rewired(nds[id].needs, anchor, last)
    IN  [id \in DOMAIN nds \cup IdsOf(added) |->
            IF id \in DOMAIN nds THEN [nds[id] EXCEPT !.needs = Old(id)] ELSE Entry(New(At(id)))]

SplicedPlaced(nds, anchor, added) ==  \* mutant: a placed node joins the chain
    SplicedAlong(nds, anchor, added, DOMAIN added)

SplicedThenRewired(nds, anchor, added) ==  \* mutant: the new nodes are rewired too
    LET chain == Chain(added)
        all   == SplicedAlong(nds, anchor, added, chain)
        last  == Previous(added, chain, anchor, Len(added) + 1)
    IN  [id \in DOMAIN all |->
            IF id = anchor THEN all[id] ELSE [all[id] EXCEPT !.needs = Rewired(@, anchor, last)]]

Spliced(nds, anchor, added) == SplicedAlong(nds, anchor, added, Chain(added))

(* What needs n: all of it is put behind the chain inserted after n.          *)
Dependents(nds, n) == {id \in DOMAIN nds : n \in nds[id].needs}

(* A CompositionError or a PlanError: load_plan raises.                       *)
Refuse == stage' = "refused"

InsertAfter(anchor, added) ==
    /\ stage = "insert" /\ anchor \notin anchors /\ Cardinality(splices) < MaxSplices
    /\ anchors' = anchors \cup {anchor}
    /\ IF anchor \notin DOMAIN nodes \/ Duplicates(nodes, added)
       THEN Refuse /\ UNCHANGED <<nodes, splices, authored>>
       ELSE /\ nodes' = Spliced(nodes, anchor, added)
            /\ splices' = splices \cup
                  {[anchor |-> anchor, chain |-> Linked(added),
                    placed |-> IdsOf(added) \ Linked(added),
                    before |-> Dependents(nodes, anchor) \ {anchor}]}
            /\ authored' = (authored \/ \E i \in DOMAIN added : added[i].placed /\ added[i].needs # {})
            /\ UNCHANGED stage
    /\ UNCHANGED <<restore, level, overrides, base>>

-------------------------------------------------------------------------------
(* _override replaces named fields of a node; `rollback` of the delta         *)
(* replaces the base's.                                                       *)
Override(id, entry) ==
    /\ stage \in {"insert", "override"} /\ overrides < MaxOverrides
    /\ overrides' = overrides + 1
    /\ IF id \notin DOMAIN nodes
       THEN Refuse /\ UNCHANGED <<nodes, authored>>
       ELSE /\ nodes' = [nodes EXCEPT ![id] = entry]
            /\ authored' = (authored \/ entry.needs # nodes[id].needs)
            /\ stage' = "override"
    /\ UNCHANGED <<restore, anchors, level, base, splices>>

Rollback(id) ==
    /\ stage = "insert" /\ anchors = {}
    /\ restore' = id
    /\ UNCHANGED <<stage, nodes, anchors, level, overrides, base, splices, authored>>

(* _remove, and what would be left needing a node that is not there.          *)
Orphans(remaining) ==
    {id \in DOMAIN remaining : ~(remaining[id].needs \subseteq DOMAIN remaining)}

DropNodes(removals) ==
    /\ stage \in {"insert", "override"}
    /\ LET remaining == Restrict(nodes, DOMAIN nodes \ removals)
       IN  IF ~(removals \subseteq DOMAIN nodes) \/ Orphans(remaining) # {}
           THEN Refuse /\ UNCHANGED <<nodes, splices>>
           ELSE /\ nodes' = remaining
                /\ stage' = "removed"
                /\ splices' = {[s EXCEPT !.before = @ \ removals, !.placed = @ \ removals] :
                                 s \in splices}
    /\ UNCHANGED <<restore, anchors, level, overrides, base, authored>>

(* _resolve: the result is the raw base of the delta that extends it.         *)
NextDelta ==
    /\ stage = "removed" /\ level < MaxLevels
    /\ level' = level + 1
    /\ stage' = "insert"
    /\ anchors' = {}
    /\ UNCHANGED <<nodes, restore, overrides, base, splices, authored>>

-------------------------------------------------------------------------------
(* The checks of load_plan on the composed mapping.                           *)

(* _check_acyclic: in every group of nodes one waits for none of them.        *)
Acyclic(nds) ==
    \A S \in SUBSET DOMAIN nds : S # {} => \E n \in S : nds[n].needs \cap S = {}

ReferencesResolve(nds) ==
    \A id \in DOMAIN nds : /\ nds[id].needs \subseteq DOMAIN nds
                           /\ nds[id].target \in DOMAIN nds \cup {NoNode}

RollbackResolves(nds) == restore \in DOMAIN nds \cup {NoNode}

Validate ==
    /\ stage = "removed"
    /\ stage' = IF ReferencesResolve(nodes) /\ Acyclic(nodes) /\ RollbackResolves(nodes)
                THEN "accepted" ELSE "refused"
    /\ UNCHANGED <<nodes, restore, anchors, level, overrides, base, splices, authored>>

Init ==
    /\ base \in Bases
    /\ nodes = base
    /\ stage = "insert"
    /\ level = 1
    /\ restore = NoNode
    /\ anchors = {} /\ overrides = 0 /\ splices = {} /\ authored = FALSE

Next ==
    \/ \E anchor \in Ids, added \in Insertions : InsertAfter(anchor, added)
    \/ \E id \in Ids, entry \in Overriding : Override(id, entry)
    \/ \E id \in Restores : Rollback(id)
    \/ \E removals \in SUBSET Ids : DropNodes(removals)
    \/ NextDelta
    \/ Validate

Spec == Init /\ [][Next]_loadVars

-------------------------------------------------------------------------------
(* Properties.                                                                *)

(* m is on every way by which d waits for n.                                  *)
Separates(nds, m, d, n) ==
    \E S \in SUBSET (DOMAIN nds \ {m, n}) :
        d \in S /\ \A x \in S : (nds[x].needs \cap DOMAIN nds) \ {m} \subseteq S

(* Until an override rewires it, an inserted chain stands between its anchor  *)
(* and everything that needed the anchor: none of those nodes reaches the     *)
(* anchor except through every node of the chain, whatever was spliced later, *)
(* at the same anchor by another delta included.  "baseline-capture would run *)
(* alongside the work it is supposed to precede" is what _splice rules out.   *)
ChainBetween ==
    overrides = 0 /\ stage # "refused" =>
        \A s \in splices : \A m \in s.chain, d \in s.before :
            Separates(nodes, m, d, s.anchor)

(* A placed node "has to hang off the graph", or "every run would wait for a  *)
(* question nobody raised": only a chain inserted after it ever waits for it. *)
NothingWaitsForPlaced ==
    ~authored =>
        \A s \in splices : \A p \in s.placed :
            \/ Dependents(nodes, p) = {}
            \/ \E t \in splices : t.chain # {} /\ (t.anchor = p \/ p \in t.chain)

(* Composing makes no cycle of its own: without a `needs` somebody wrote in a *)
(* delta, nodes wait for each other only if they did in the base.             *)
CycleNeedsAnAuthor == Acyclic(base) /\ ~authored => Acyclic(nodes)
===============================================================================

----------------------------- MODULE MCPlanCompose ----------------------------
(* A base of three nodes (a line, a diamond, and one that waits for itself),  *)
(* two deltas and two insertions: chains, placed nodes, and both mixed.       *)
EXTENDS PlanCompose, TLC

CONSTANTS a, b, c, m, n, p

Node(needs) == Entry(needs)
MCBases == {
    (a :> Node({}) @@ b :> Node({a}) @@ c :> [needs |-> {b}, target |-> a]),
    (a :> Node({}) @@ b :> Node({a}) @@ c :> Node({a, b})),
    (a :> Node({b}) @@ b :> Node({a}) @@ c :> Node({}))}

Spliced1(id)       == [id |-> id, placed |-> FALSE, needs |-> {}]
Placed(id, needs)  == [id |-> id, placed |-> TRUE, needs |-> needs]

MCInsertions == {
    <<>>, <<Spliced1(m)>>, <<Spliced1(n)>>, <<Spliced1(m), Spliced1(n)>>,
    <<Placed(p, {})>>, <<Spliced1(m), Placed(p, {})>>, <<Placed(p, {a}), Spliced1(n)>>}

MCOverriding == {Node({a}), Node({b, m}), Node({c}), [needs |-> {}, target |-> p]}
===============================================================================

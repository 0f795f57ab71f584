----------------------------- MODULE ComposeProofs -----------------------------
(* What composing a plan keeps, for any bases, deltas and number of them: the *)
(* order of an inserted chain, that nobody waits for a placed node, and that  *)
(* a cycle takes a `needs` somebody wrote.                                    *)
EXTENDS PlanCompose, WellFoundedInduction, TLAPS

(* The ids some delta may insert.                                             *)
Insertable == UNION {IdsOf(added) : added \in Insertions}

(* A base needs no node that only a delta brings.                             *)
BasesResolve ==
    \A b \in Bases : \A x \in DOMAIN b : b[x].needs \cap Insertable \subseteq DOMAIN b

(* Nor does a placed node.                                                    *)
PlacedResolve ==
    \A added \in Insertions : \A i \in DOMAIN added :
        added[i].placed => added[i].needs \cap Insertable = {}

-------------------------------------------------------------------------------
(* The greatest of some numbers below a bound.                                *)
LEMMA LeastNumber ==
    ASSUME NEW S \in SUBSET Nat, S # {}
    PROVE  \E l \in S : \A j \in S : l <= j
<1> DEFINE less == {q \in Nat \X Nat : q[1] < q[2]}
<1>1. IsWellFoundedOn(less, Nat)
  BY NatLessThanWellFounded DEF OpToRel
<1> HIDE DEF less
<1>2. PICK l \in S : \A j \in S : <<j, l>> \notin less
  BY <1>1, WFMin
<1>3. \A j \in S : ~(j < l)
  BY <1>2 DEF less
<1> QED
  BY <1>3

LEMMA GreatestBelow ==
    ASSUME NEW S \in SUBSET Nat, S # {}, NEW bound \in Nat, \A x \in S : x < bound
    PROVE  Max(S) \in S /\ \A x \in S : x <= Max(S)
<1> DEFINE above == {u \in Nat : \A x \in S : x <= u}
<1>1. above # {}
  <2>1. bound \in above
    OBVIOUS
  <2> QED
    BY <2>1
<1>2. PICK u \in above : \A j \in above : u <= j
  BY <1>1, LeastNumber
<1>3. u \in S
  <2> SUFFICES ASSUME u \notin S PROVE FALSE
    OBVIOUS
  <2>1. \A x \in S : x < u
    OBVIOUS
  <2>2. PICK x \in S : x \in Nat /\ x < u
    BY <2>1
  <2>3. u - 1 \in above
    BY <2>1, <2>2
  <2> QED
    BY <1>2, <2>3
<1>4. \E x \in S : \A y \in S : x >= y
  BY <1>3
<1>5. Max(S) \in S /\ \A y \in S : Max(S) >= y
  BY <1>4 DEF Max
<1> QED
  BY <1>5

-------------------------------------------------------------------------------
(* What _splice makes of a mapping.                                           *)

Before(added, anchor, i) == Previous(added, Chain(added), anchor, i)
Last(added, anchor)      == Before(added, anchor, Len(added) + 1)

(* `previous`: the spliced node before position i, and the anchor before all. *)
LEMMA PreviousIsBefore ==
    ASSUME NEW added \in Seq(Inserted), NEW anchor, NEW i \in Nat
    PROVE  \/ Before(added, anchor, i) = anchor /\ \A j \in Chain(added) : ~(j < i)
           \/ \E j \in Chain(added) :
                 /\ j < i /\ Before(added, anchor, i) = added[j].id
                 /\ \A k \in Chain(added) : k < i => k <= j
<1> DEFINE before == {j \in Chain(added) : j < i}
<1>1. before \in SUBSET Nat
  BY DEF Chain
<1>2. CASE before = {}
  BY <1>2 DEF Before, Previous
<1>3. CASE before # {}
  <2>1. Max(before) \in before /\ \A x \in before : x <= Max(before)
    BY <1>1, <1>3, GreatestBelow
  <2> QED
    BY <1>3, <2>1 DEF Before, Previous
<1> QED
  BY <1>2, <1>3

(* An insertion that is not refused.                                          *)
IsInsertion(nds, anchor, added) ==
    /\ DOMAIN nds \subseteq Ids /\ nds \in Mapping(DOMAIN nds)
    /\ anchor \in DOMAIN nds
    /\ added \in Insertions /\ added \in Seq(Inserted)
    /\ ~Duplicates(nds, added)

(* and its effect, node by node.                                             *)
IsSpliced(nds, anchor, added, new) ==
    /\ DOMAIN new = DOMAIN nds \cup IdsOf(added)
    /\ new = [x \in DOMAIN new |-> new[x]]
    /\ \A x \in DOMAIN nds :
          new[x] = [needs |-> new[x].needs, target |-> nds[x].target]
    /\ new[anchor].needs = nds[anchor].needs
    /\ \A x \in DOMAIN nds \ {anchor} :
          new[x].needs = Rewired(nds[x].needs, anchor, Last(added, anchor))
    /\ \A i \in DOMAIN added :
          new[added[i].id] = Entry(IF i \in Chain(added) THEN {Before(added, anchor, i)}
                                   ELSE added[i].needs)

LEMMA SplicedNodes ==
    ASSUME NEW nds, NEW anchor, NEW added, IsInsertion(nds, anchor, added),
           NEW new, new = Spliced(nds, anchor, added)
    PROVE  IsSpliced(nds, anchor, added, new)
<1> DEFINE At(id) == CHOOSE i \in DOMAIN added : added[i].id = id
           New(i) == IF i \in Chain(added) THEN {Before(added, anchor, i)} ELSE added[i].needs
           Old(id) == IF id = anchor THEN nds[id].needs
                      ELSE Rewired(nds[id].needs, anchor, Last(added, anchor))
           composed == [id \in DOMAIN nds \cup IdsOf(added) |->
                     IF id \in DOMAIN nds THEN [nds[id] EXCEPT !.needs = Old(id)] ELSE Entry(New(At(id)))]
<1>1. new = composed
  BY DEF Spliced, SplicedAlong, Before, Last
<1>2. \A i \in DOMAIN added : added[i].id \notin DOMAIN nds /\ added[i].id \in IdsOf(added)
  BY DEF IsInsertion, Duplicates, IdsOf
<1>3. \A i \in DOMAIN added : At(added[i].id) = i
  BY DEF IsInsertion, Duplicates
<1>4. \A i \in DOMAIN added : composed[added[i].id] = Entry(New(i))
  <2> TAKE i \in DOMAIN added
  <2>1. composed[added[i].id] = Entry(New(At(added[i].id)))
    BY <1>2
  <2>2. At(added[i].id) = i
    BY <1>3
  <2> HIDE DEF At, New
  <2> QED
    BY <2>1, <2>2
<1>5. \A x \in DOMAIN nds :
        /\ composed[x] = [nds[x] EXCEPT !.needs = Old(x)]
        /\ nds[x] \in [needs : SUBSET Ids, target : Ids \cup {NoNode}]
  BY DEF IsInsertion, Mapping
<1>6. \A x \in DOMAIN nds : /\ composed[x].needs = Old(x)
                            /\ composed[x] = [needs |-> composed[x].needs, target |-> nds[x].target]
  BY <1>5
<1>7. composed[anchor].needs = nds[anchor].needs
  BY <1>6 DEF IsInsertion
<1>8. DOMAIN composed = DOMAIN nds \cup IdsOf(added)
      /\ composed = [x \in DOMAIN composed |-> composed[x]]
  OBVIOUS
<1> HIDE DEF composed
<1> QED
  BY <1>1, <1>4, <1>6, <1>7, <1>8 DEF IsSpliced

(* What the nodes of an insertion need, and who needs them.                   *)
LEMMA SplicedTypes ==
    ASSUME NEW nds, NEW anchor, NEW added, IsInsertion(nds, anchor, added),
           NEW new, new = Spliced(nds, anchor, added)
    PROVE  DOMAIN new \subseteq Ids /\ new \in Mapping(DOMAIN new)
<1> IsSpliced(nds, anchor, added, new)
  BY SplicedNodes
<1>0. \A i \in DOMAIN added : i \in Nat /\ added[i].id \in Ids /\ added[i].needs \in SUBSET Ids
  <2>1. \A i \in DOMAIN added : i \in Nat /\ added[i] \in Inserted
    BY DEF IsInsertion
  <2> QED
    BY <2>1 DEF Inserted
<1>1. IdsOf(added) \subseteq Ids /\ anchor \in Ids
  BY <1>0 DEF IsInsertion, IdsOf
<1>2. DOMAIN new \subseteq Ids
  BY <1>1 DEF IsInsertion, IsSpliced
<1>3. \A i \in Nat : Before(added, anchor, i) \in Ids
  <2> TAKE i \in Nat
  <2>1. added \in Seq(Inserted)
    BY DEF IsInsertion
  <2>2. \A j \in Chain(added) : added[j].id \in Ids
    BY <1>0 DEF Chain
  <2> QED
    BY <1>1, <2>1, <2>2, PreviousIsBefore
<1>4. Last(added, anchor) \in Ids
  BY <1>3 DEF Last, IsInsertion
<1>5. ASSUME NEW x \in DOMAIN nds
      PROVE  new[x] \in [needs : SUBSET Ids, target : Ids \cup {NoNode}]
  <2>1. nds[x].needs \in SUBSET Ids /\ nds[x].target \in Ids \cup {NoNode}
    BY DEF IsInsertion, Mapping
  <2>2. new[x].needs \in {nds[x].needs, Rewired(nds[x].needs, anchor, Last(added, anchor))}
    BY DEF IsSpliced
  <2>3. new[x].needs \in SUBSET Ids
    BY <1>4, <2>1, <2>2 DEF Rewired
  <2>4. new[x] = [needs |-> new[x].needs, target |-> nds[x].target]
    BY DEF IsSpliced
  <2> QED
    BY <2>1, <2>3, <2>4
<1>6. ASSUME NEW i \in DOMAIN added
      PROVE  new[added[i].id] \in [needs : SUBSET Ids, target : Ids \cup {NoNode}]
  <2>1. added[i].needs \in SUBSET Ids /\ i \in Nat
    BY <1>0
  <2>2. new[added[i].id] = Entry(IF i \in Chain(added) THEN {Before(added, anchor, i)}
                                 ELSE added[i].needs)
    BY DEF IsSpliced
  <2> QED
    BY <1>3, <2>1, <2>2 DEF Entry
<1>7. DOMAIN new = DOMAIN nds \cup IdsOf(added) /\ new = [x \in DOMAIN new |-> new[x]]
  BY DEF IsSpliced
<1>8. new \in Mapping(DOMAIN new)
  BY <1>5, <1>6, <1>7 DEF IdsOf, Mapping
<1> QED
  BY <1>2, <1>8

(* A node needs in the composed mapping what it needed before, the end of the *)
(* chain in the place of the anchor, the node before it in the chain, or what *)
(* its author placed it behind.                                               *)
LEMMA SplicedNeeds ==
    ASSUME NEW nds, NEW anchor, NEW added, IsInsertion(nds, anchor, added),
           NEW new, new = Spliced(nds, anchor, added),
           NEW x \in DOMAIN new, NEW y \in new[x].needs
    PROVE  \/ /\ x \in DOMAIN nds /\ y \in nds[x].needs
              /\ x = anchor \/ y # anchor \/ Chain(added) = {}
           \/ /\ x \in DOMAIN nds \ {anchor} /\ anchor \in nds[x].needs
              /\ Chain(added) # {} /\ y = Last(added, anchor)
           \/ \E i \in Chain(added) : x = added[i].id /\ y = Before(added, anchor, i)
           \/ \E i \in DOMAIN added \ Chain(added) : x = added[i].id /\ y \in added[i].needs
<1> IsSpliced(nds, anchor, added, new)
  BY SplicedNodes
<1>1. added \in Seq(Inserted) /\ Chain(added) \subseteq DOMAIN added /\ Len(added) \in Nat
      /\ \A i \in DOMAIN added : i < Len(added) + 1
  BY DEF IsInsertion, Chain
<1>2. Chain(added) = {} => Last(added, anchor) = anchor
  BY <1>1, PreviousIsBefore DEF Last
<1>3. CASE x = anchor
  BY <1>3 DEF IsInsertion, IsSpliced
<1>4. CASE x \in DOMAIN nds \ {anchor}
  <2>1. new[x].needs = Rewired(nds[x].needs, anchor, Last(added, anchor))
    BY <1>4 DEF IsSpliced
  <2> QED
    BY <1>2, <1>4, <2>1 DEF Rewired
<1>5. CASE x \in IdsOf(added)
  <2>1. PICK i \in DOMAIN added : x = added[i].id
    BY <1>5 DEF IdsOf
  <2>2. new[x] = Entry(IF i \in Chain(added) THEN {Before(added, anchor, i)}
                       ELSE added[i].needs)
    BY <2>1 DEF IsSpliced
  <2>3. new[x].needs = IF i \in Chain(added) THEN {Before(added, anchor, i)} ELSE added[i].needs
    BY <2>2 DEF Entry
  <2> QED
    BY <2>1, <2>3
<1> QED
  BY <1>3, <1>4, <1>5 DEF IsSpliced

-------------------------------------------------------------------------------
(* What an insertion keeps of the order.                                      *)

(* What is needed and may still be inserted is there already.                 *)
Settled(nds) == \A x \in DOMAIN nds : nds[x].needs \cap Insertable \subseteq DOMAIN nds

(* The ids of an insertion are new, and of one position each.                 *)
LEMMA InsertedIds ==
    ASSUME NEW nds, NEW anchor, NEW added, IsInsertion(nds, anchor, added), Settled(nds)
    PROVE  /\ Chain(added) \subseteq DOMAIN added /\ DOMAIN added \subseteq Nat
           /\ \A i \in DOMAIN added :
                 /\ i < Len(added) + 1
                 /\ added[i].id \in Insertable \ DOMAIN nds
                 /\ \A x \in DOMAIN nds : added[i].id \notin nds[x].needs
           /\ \A i, j \in DOMAIN added : added[i].id = added[j].id => i = j
<1>1. DOMAIN added \subseteq Nat /\ \A i \in DOMAIN added : i < Len(added) + 1
  BY DEF IsInsertion
<1>2. \A i \in DOMAIN added : added[i].id \in IdsOf(added)
  BY DEF IdsOf
<1>3. IdsOf(added) \subseteq Insertable
  BY DEF IsInsertion, Insertable
<1>4. IdsOf(added) \cap DOMAIN nds = {}
      /\ \A i, j \in DOMAIN added : added[i].id = added[j].id => i = j
  BY DEF IsInsertion, Duplicates
<1>5. \A i \in DOMAIN added : added[i].id \in Insertable \ DOMAIN nds
  BY <1>2, <1>3, <1>4
<1> QED
  BY <1>1, <1>4, <1>5 DEF Chain, Settled

(* A cycle in the result is one in the mapping: a chain is entered from its   *)
(* anchor, and left to what needed the anchor.                                *)
LEMMA SpliceIsAcyclic ==
    ASSUME NEW nds, NEW anchor, NEW added, IsInsertion(nds, anchor, added), Settled(nds),
           \A i \in DOMAIN added \ Chain(added) : added[i].needs = {},
           NEW new, new = Spliced(nds, anchor, added), Acyclic(nds)
    PROVE  Acyclic(new)
<1> SUFFICES ASSUME NEW S \in SUBSET DOMAIN new, S # {}
             PROVE  \E n \in S : new[n].needs \cap S = {}
  BY DEF Acyclic
<1> DEFINE C == {i \in Chain(added) : added[i].id \in S}
           old == S \cap DOMAIN nds
<1>0. /\ anchor \in DOMAIN nds /\ added \in Seq(Inserted)
      /\ DOMAIN new = DOMAIN nds \cup IdsOf(added)
  <2>1. IsSpliced(nds, anchor, added, new)
    BY SplicedNodes
  <2> QED
    BY <2>1 DEF IsInsertion, IsSpliced
<1>1. CASE \E i \in DOMAIN added \ Chain(added) : added[i].id \in S
  <2>1. PICK i \in DOMAIN added \ Chain(added) : added[i].id \in S
    BY <1>1
  <2>2. \A y \in new[added[i].id].needs : FALSE
    BY <2>1, InsertedIds, SplicedNeeds
  <2> QED
    BY <2>1, <2>2
<1>2. CASE C # {} /\ anchor \notin S
  <2>1. PICK i \in C : \A j \in C : i <= j
    BY <1>2, InsertedIds, LeastNumber
  <2>2. \A y \in new[added[i].id].needs : y = Before(added, anchor, i)
    BY <2>1, InsertedIds, SplicedNeeds
  <2>3. Before(added, anchor, i) \notin S
    <3>1. i \in Nat /\ C \subseteq Nat
      BY InsertedIds
    <3> QED
      BY <1>0, <1>2, <2>1, <3>1, PreviousIsBefore
  <2> QED
    BY <2>1, <2>2, <2>3
<1>3. CASE (C = {} \/ anchor \in S) /\ \A i \in DOMAIN added \ Chain(added) : added[i].id \notin S
  <2>1. old # {}
    BY <1>0, <1>3 DEF IdsOf
  <2>2. PICK n \in old : nds[n].needs \cap old = {}
    BY <2>1 DEF Acyclic
  <2>3. ASSUME NEW y \in new[n].needs, y \in S PROVE FALSE
    <3>1. \A i \in DOMAIN added : added[i].id # n
      BY <2>2, InsertedIds
    <3>2. CASE y \in nds[n].needs
      BY <1>0, <1>3, <2>2, <2>3, <3>2, InsertedIds DEF IdsOf
    <3>3. CASE /\ n # anchor /\ anchor \in nds[n].needs /\ Chain(added) # {}
               /\ y = Last(added, anchor)
      <4>1. anchor \notin S
        BY <1>0, <2>2, <3>3
      <4>2. Last(added, anchor) # anchor
        BY <2>3, <3>3, <4>1
      <4>3. PICK j \in Chain(added) : Last(added, anchor) = added[j].id
        BY <1>0, <4>2, PreviousIsBefore DEF Last
      <4> QED
        BY <1>3, <2>3, <3>3, <4>1, <4>3
    <3> QED
      BY <2>2, <2>3, <3>1, <3>2, <3>3, InsertedIds, SplicedNeeds
  <2> QED
    BY <2>2, <2>3
<1> QED
  BY <1>1, <1>2, <1>3

LEMMA PreviousIsLinked ==
    ASSUME NEW added \in Seq(Inserted), NEW anchor, NEW i \in Nat
    PROVE  Before(added, anchor, i) \in {anchor} \cup Linked(added)
BY PreviousIsBefore DEF Linked

(* A node that was there gains no dependents unless a chain is inserted after *)
(* it, and nobody waits for a placed node that was just inserted.             *)
LEMMA OldDependents ==
    ASSUME NEW nds, NEW anchor, NEW added, IsInsertion(nds, anchor, added), Settled(nds),
           \A i \in DOMAIN added \ Chain(added) : added[i].needs = {},
           NEW new, new = Spliced(nds, anchor, added),
           NEW p \in DOMAIN nds, p = anchor => Chain(added) = {}
    PROVE  Dependents(new, p) \subseteq Dependents(nds, p)
<1>1. added \in Seq(Inserted) /\ Len(added) + 1 \in Nat
  BY DEF IsInsertion
<1>2. p \notin Linked(added) /\ \A j \in Chain(added) : j \in Nat
  BY InsertedIds DEF Linked
<1>3. ASSUME NEW i \in Nat, p = Before(added, anchor, i) PROVE p = anchor
  BY <1>1, <1>2, <1>3, PreviousIsLinked
<1>4. ASSUME NEW x \in DOMAIN new, p \in new[x].needs
      PROVE  x \in DOMAIN nds /\ p \in nds[x].needs
  BY <1>1, <1>2, <1>3, <1>4, SplicedNeeds DEF Last
<1> QED
  BY <1>4 DEF Dependents

LEMMA PlacedDependents ==
    ASSUME NEW nds, NEW anchor, NEW added, IsInsertion(nds, anchor, added), Settled(nds),
           \A i \in DOMAIN added \ Chain(added) : added[i].needs = {},
           NEW new, new = Spliced(nds, anchor, added),
           NEW p \in IdsOf(added) \ Linked(added)
    PROVE  Dependents(new, p) = {}
<1>1. anchor \in DOMAIN nds /\ added \in Seq(Inserted) /\ Len(added) + 1 \in Nat
  BY DEF IsInsertion
<1>2. PICK i \in DOMAIN added : p = added[i].id
  BY DEF IdsOf
<1>3. /\ p # anchor /\ \A x \in DOMAIN nds : p \notin nds[x].needs
      /\ \A j \in Chain(added) : j \in Nat
  BY <1>1, <1>2, InsertedIds
<1>4. ASSUME NEW j \in Nat, p = Before(added, anchor, j) PROVE FALSE
  BY <1>1, <1>3, <1>4, PreviousIsLinked
<1>5. ASSUME NEW x \in DOMAIN new, p \in new[x].needs PROVE FALSE
  BY <1>1, <1>3, <1>4, <1>5, SplicedNeeds DEF Last
<1> QED
  BY <1>5 DEF Dependents

(* x waits for n: every set of nodes that is closed under needs and holds x   *)
(* holds n.                                                                   *)
Closed(nds, T) == \A x \in T : nds[x].needs \cap DOMAIN nds \subseteq T

Reaches(nds, d, n) ==
    \A T \in SUBSET DOMAIN nds : d \in T /\ Closed(nds, T) => n \in T

(* Whoever waits for the end of a chain waits for all of it and its anchor.   *)
LEMMA ChainIsReached ==
    ASSUME NEW nds, NEW anchor, NEW added, IsInsertion(nds, anchor, added), Settled(nds),
           NEW new, new = Spliced(nds, anchor, added),
           NEW T \in SUBSET DOMAIN new, Closed(new, T),
           Chain(added) # {}, Last(added, anchor) \in T
    PROVE  anchor \in T /\ \A i \in Chain(added) : added[i].id \in T
<1> DEFINE U == {i \in Chain(added) : \A k \in Chain(added) : i <= k => added[k].id \in T}
<1>0. /\ anchor \in DOMAIN nds /\ added \in Seq(Inserted) /\ Len(added) + 1 \in Nat
      /\ IsSpliced(nds, anchor, added, new)
  BY SplicedNodes DEF IsInsertion
<1>1. PICK j \in Chain(added) : /\ Last(added, anchor) = added[j].id
                                /\ \A k \in Chain(added) : k <= j
  BY <1>0, PreviousIsBefore, InsertedIds DEF Last
<1>2. j \in U
  <2>1. \A k \in Chain(added) : j <= k => k = j
    BY <1>1, InsertedIds
  <2> QED
    BY <1>1, <2>1
<1>3. PICK u \in U : \A k \in U : u <= k
  BY <1>2, InsertedIds, LeastNumber
<1>4. /\ new[added[u].id].needs = {Before(added, anchor, u)}
      /\ added[u].id \in T /\ u \in Nat
  <2>1. new[added[u].id] = Entry({Before(added, anchor, u)}) /\ u \in Nat
    BY <1>0, <1>3, InsertedIds DEF IsSpliced
  <2> QED
    BY <1>3, <2>1, InsertedIds DEF Entry
<1>5. \A k \in DOMAIN added : added[k].id \in DOMAIN new
  BY <1>0 DEF IsSpliced, IdsOf
<1>6. CASE Before(added, anchor, u) = anchor /\ \A k \in Chain(added) : ~(k < u)
  <2>1. anchor \in T
    BY <1>0, <1>4, <1>6 DEF Closed, IsSpliced
  <2> QED
    BY <1>3, <1>6, <2>1, InsertedIds
<1>7. CASE \E k \in Chain(added) : /\ k < u /\ Before(added, anchor, u) = added[k].id
                                   /\ \A l \in Chain(added) : l < u => l <= k
  <2>1. PICK k \in Chain(added) : /\ k < u /\ Before(added, anchor, u) = added[k].id
                                  /\ \A l \in Chain(added) : l < u => l <= k
    BY <1>7
  <2>2. added[k].id \in T
    BY <1>4, <1>5, <2>1, InsertedIds DEF Closed
  <2>3. \A l \in Chain(added) : k <= l => l = k \/ u <= l
    BY <2>1, InsertedIds
  <2>4. k \in U
    BY <1>3, <2>1, <2>2, <2>3
  <2> QED
    BY <1>3, <2>1, <2>4, InsertedIds
<1> QED
  BY <1>0, <1>4, <1>6, <1>7, PreviousIsBefore

(* What waited for a node still does: it was rewired behind a chain that ends *)
(* behind the same anchor.                                                    *)
LEMMA SpliceReaches ==
    ASSUME NEW nds, NEW anchor, NEW added, IsInsertion(nds, anchor, added), Settled(nds),
           NEW new, new = Spliced(nds, anchor, added),
           NEW d \in DOMAIN nds, NEW n \in DOMAIN nds, Reaches(nds, d, n)
    PROVE  Reaches(new, d, n)
<1> SUFFICES ASSUME NEW T \in SUBSET DOMAIN new, d \in T, Closed(new, T)
             PROVE  n \in T
  BY DEF Reaches
<1> DEFINE old == T \cap DOMAIN nds
<1>0. /\ anchor \in DOMAIN nds /\ DOMAIN nds \subseteq DOMAIN new
      /\ IsSpliced(nds, anchor, added, new)
  <2>1. IsSpliced(nds, anchor, added, new)
    BY SplicedNodes
  <2> QED
    BY <2>1 DEF IsInsertion, IsSpliced
<1>1. ASSUME NEW x \in old, NEW y \in nds[x].needs \cap DOMAIN nds
      PROVE  y \in old
  <2>1. CASE x = anchor
    BY <1>0, <1>1, <2>1 DEF Closed, IsSpliced
  <2>2. CASE x # anchor
    <3>1. new[x].needs = Rewired(nds[x].needs, anchor, Last(added, anchor))
      BY <1>0, <2>2 DEF IsSpliced
    <3>2. CASE y # anchor
      BY <1>0, <1>1, <3>1, <3>2 DEF Closed, Rewired
    <3>3. CASE y = anchor
      <4>1. Last(added, anchor) \in new[x].needs
        BY <3>1, <3>3 DEF Rewired
      <4>2. CASE Last(added, anchor) = anchor
        BY <1>0, <3>3, <4>1, <4>2 DEF Closed
      <4>3. CASE Last(added, anchor) # anchor
        <5>1. PICK j \in Chain(added) : Last(added, anchor) = added[j].id
          <6>1. added \in Seq(Inserted) /\ Len(added) + 1 \in Nat
            BY DEF IsInsertion
          <6> QED
            BY <4>3, <6>1, PreviousIsBefore DEF Last
        <5>2. Last(added, anchor) \in DOMAIN new
          BY <1>0, <5>1, InsertedIds DEF IsSpliced, IdsOf
        <5>3. Last(added, anchor) \in T
          BY <4>1, <5>2 DEF Closed
        <5> QED
          BY <3>3, <5>1, <5>3, ChainIsReached
      <4> QED
        BY <4>2, <4>3
    <3> QED
      BY <3>2, <3>3
  <2> QED
    BY <2>1, <2>2
<1>2. Closed(nds, old) /\ d \in old /\ old \in SUBSET DOMAIN nds
  BY <1>1 DEF Closed
<1> QED
  BY <1>2 DEF Reaches

LEMMA SpliceIsReached ==
    ASSUME NEW nds, NEW anchor, NEW added, IsInsertion(nds, anchor, added), Settled(nds),
           NEW new, new = Spliced(nds, anchor, added), Chain(added) # {},
           NEW d \in Dependents(nds, anchor) \ {anchor}
    PROVE  /\ Reaches(new, d, anchor)
           /\ \A m \in Linked(added) : Reaches(new, d, m)
<1>0. IsSpliced(nds, anchor, added, new)
  BY SplicedNodes
<1>1. d \in DOMAIN nds \ {anchor} /\ anchor \in nds[d].needs
  BY DEF Dependents
<1>2. Last(added, anchor) \in new[d].needs
  BY <1>0, <1>1 DEF IsSpliced, Rewired
<1>3. Last(added, anchor) \in DOMAIN new
  <2>1. added \in Seq(Inserted) /\ Len(added) + 1 \in Nat
    BY DEF IsInsertion
  <2>2. \E j \in Chain(added) : Last(added, anchor) = added[j].id
    BY <2>1, InsertedIds, PreviousIsBefore DEF Last
  <2> QED
    BY <1>0, <2>2, InsertedIds DEF IsSpliced, IdsOf
<1>4. ASSUME NEW T \in SUBSET DOMAIN new, d \in T, Closed(new, T)
      PROVE  Last(added, anchor) \in T
  BY <1>2, <1>3, <1>4 DEF Closed
<1> QED
  BY <1>4, ChainIsReached DEF Reaches, Linked

(* A later splice at the anchor, in the chain or behind it grows the side of  *)
(* the dependents or that of the anchor, and opens no way around the chain.   *)
LEMMA SpliceSeparates ==
    ASSUME NEW nds, NEW anchor, NEW added, IsInsertion(nds, anchor, added), Settled(nds),
           NEW new, new = Spliced(nds, anchor, added),
           NEW m \in DOMAIN nds, NEW n \in DOMAIN nds, NEW d, Separates(nds, m, d, n)
    PROVE  Separates(new, m, d, n)
<1>1. PICK S \in SUBSET (DOMAIN nds \ {m, n}) :
        d \in S /\ \A x \in S : (nds[x].needs \cap DOMAIN nds) \ {m} \subseteq S
  BY DEF Separates
<1> DEFINE side == IF anchor \in S \cup {m} THEN S \cup Linked(added) ELSE S
<1>2. /\ anchor \in DOMAIN nds /\ added \in Seq(Inserted) /\ Len(added) + 1 \in Nat
      /\ DOMAIN new = DOMAIN nds \cup IdsOf(added)
  <2>1. IsSpliced(nds, anchor, added, new)
    BY SplicedNodes
  <2> QED
    BY <2>1 DEF IsInsertion, IsSpliced
<1>3. /\ Linked(added) \subseteq IdsOf(added)
      /\ \A i \in DOMAIN added : added[i].id \in Linked(added) <=> i \in Chain(added)
      /\ IdsOf(added) \cap DOMAIN nds = {}
  BY InsertedIds DEF Linked, IdsOf
<1>4. side \in SUBSET (DOMAIN new \ {m, n})
  BY <1>2, <1>3
<1>5. ASSUME NEW i \in Nat
      PROVE  Before(added, anchor, i) \in {anchor} \cup Linked(added)
  BY <1>2, PreviousIsLinked
<1>6. Last(added, anchor) \in {anchor} \cup Linked(added)
  BY <1>2, <1>5 DEF Last
<1>7. ASSUME NEW x \in side, NEW y \in new[x].needs, y \in DOMAIN new, y # m
      PROVE  y \in side
  <2>1. CASE x \in DOMAIN nds /\ y \in nds[x].needs
    <3>1. x \in S /\ y \in DOMAIN nds
      BY <1>2, <1>3, <1>7, <2>1, InsertedIds DEF IdsOf
    <3> QED
      BY <1>1, <1>7, <2>1, <3>1
  <2>2. CASE x \in DOMAIN nds /\ anchor \in nds[x].needs /\ y = Last(added, anchor)
    <3>1. x \in S
      BY <1>3, <2>2
    <3>2. anchor \in S \cup {m}
      BY <1>1, <1>2, <2>2, <3>1
    <3> QED
      BY <1>6, <1>7, <2>2, <3>2
  <2>3. CASE \E i \in Chain(added) : x = added[i].id /\ y = Before(added, anchor, i)
    <3>1. PICK i \in Chain(added) : x = added[i].id /\ y = Before(added, anchor, i)
      BY <2>3
    <3>2. x \notin DOMAIN nds /\ i \in Nat
      BY <3>1, InsertedIds
    <3>3. anchor \in S \cup {m}
      BY <3>2
    <3> QED
      BY <1>5, <1>7, <3>1, <3>2, <3>3
  <2>4. CASE \E i \in DOMAIN added \ Chain(added) : x = added[i].id
    BY <1>3, <2>4, InsertedIds
  <2> QED
    BY <1>4, <1>7, <2>1, <2>2, <2>3, <2>4, SplicedNeeds
<1>8. d \in side /\ \A x \in side : (new[x].needs \cap DOMAIN new) \ {m} \subseteq side
  BY <1>1, <1>7
<1> QED
  BY <1>4, <1>8 DEF Separates

LEMMA SpliceIsBetween ==
    ASSUME NEW nds, NEW anchor, NEW added, IsInsertion(nds, anchor, added), Settled(nds),
           NEW new, new = Spliced(nds, anchor, added),
           NEW m \in Linked(added), NEW d \in Dependents(nds, anchor) \ {anchor}
    PROVE  Separates(new, m, d, anchor)
<1>1. PICK i \in Chain(added) : m = added[i].id
  BY DEF Linked
<1> DEFINE behind == {k \in Chain(added) : i < k}
           side == (DOMAIN nds \ {anchor}) \cup {added[k].id : k \in behind}
<1>2. /\ anchor \in DOMAIN nds /\ added \in Seq(Inserted) /\ Len(added) + 1 \in Nat
      /\ DOMAIN new = DOMAIN nds \cup IdsOf(added)
  <2>1. IsSpliced(nds, anchor, added, new)
    BY SplicedNodes
  <2> QED
    BY <2>1 DEF IsInsertion, IsSpliced
<1>3. side \in SUBSET (DOMAIN new \ {m, anchor})
  <2>1. \A k \in behind : added[k].id \in IdsOf(added) /\ added[k].id # m /\ added[k].id # anchor
    BY <1>1, <1>2, InsertedIds DEF IdsOf
  <2>2. m \notin DOMAIN nds
    BY <1>1, InsertedIds
  <2> QED
    BY <1>2, <2>1, <2>2
<1>4. ASSUME NEW k \in Nat, i < k
      PROVE  Before(added, anchor, k) \in {m} \cup {added[l].id : l \in behind}
  <2>1. PICK l \in Chain(added) : /\ Before(added, anchor, k) = added[l].id
                                  /\ \A j \in Chain(added) : j < k => j <= l
    BY <1>2, <1>4, PreviousIsBefore
  <2>2. l = i \/ i < l
    BY <1>4, <2>1, InsertedIds
  <2> QED
    BY <1>1, <2>1, <2>2
<1>5. ASSUME NEW x \in side, NEW y \in new[x].needs, y \in DOMAIN new, y # m
      PROVE  y \in side
  <2>1. CASE x \in DOMAIN nds /\ y \in nds[x].needs /\ (x = anchor \/ y # anchor)
    <3>1. x # anchor
      BY <1>3
    <3> QED
      BY <1>2, <1>5, <2>1, <3>1, InsertedIds DEF IdsOf
  <2>2. CASE y = Last(added, anchor)
    BY <1>2, <1>4, <1>5, <2>2, InsertedIds DEF Last
  <2>3. CASE \E j \in Chain(added) : x = added[j].id /\ y = Before(added, anchor, j)
    <3>1. PICK j \in Chain(added) : x = added[j].id /\ y = Before(added, anchor, j)
      BY <2>3
    <3>2. j \in behind /\ j \in Nat
      BY <3>1, InsertedIds
    <3> QED
      BY <1>4, <1>5, <3>1, <3>2
  <2>4. CASE \E j \in DOMAIN added \ Chain(added) : x = added[j].id
    BY <2>4, InsertedIds
  <2> QED
    BY <1>1, <1>3, <1>5, <2>1, <2>2, <2>3, <2>4, SplicedNeeds
<1>6. d \in side /\ \A x \in side : (new[x].needs \cap DOMAIN new) \ {m} \subseteq side
  BY <1>5 DEF Dependents
<1> QED
  BY <1>3, <1>6 DEF Separates

(* Dropping nodes that nobody left behind needs.                              *)
LEMMA DropKeeps ==
    ASSUME NEW nds, NEW kept \in SUBSET DOMAIN nds,
           NEW rest, rest = Restrict(nds, kept),
           \A x \in kept : rest[x].needs \subseteq kept
    PROVE  /\ Acyclic(nds) => Acyclic(rest)
           /\ Settled(rest)
           /\ \A p : Dependents(rest, p) \subseteq Dependents(nds, p)
           /\ \A d \in kept : \A n : Reaches(nds, d, n) => n \in kept /\ Reaches(rest, d, n)
           /\ \A d \in kept : \A m, n : Separates(nds, m, d, n) => Separates(rest, m, d, n)
<1>1. DOMAIN rest = kept /\ \A x \in kept : rest[x] = nds[x] /\ nds[x].needs \subseteq kept
  BY DEF Restrict
<1>2. Acyclic(nds) => Acyclic(rest)
  BY <1>1 DEF Acyclic
<1>3. Settled(rest)
  BY <1>1 DEF Settled
<1>4. ASSUME NEW p PROVE Dependents(rest, p) \subseteq Dependents(nds, p)
  BY <1>1 DEF Dependents
<1>5. ASSUME NEW d \in kept, NEW n, Reaches(nds, d, n)
      PROVE  n \in kept /\ Reaches(rest, d, n)
  <2>1. ASSUME NEW T \in SUBSET kept, d \in T, Closed(rest, T) PROVE n \in T
    <3>1. Closed(nds, T) /\ T \in SUBSET DOMAIN nds
      BY <1>1, <2>1 DEF Closed
    <3> QED
      BY <1>5, <2>1, <3>1 DEF Reaches
  <2>2. Closed(rest, kept)
    BY <1>1 DEF Closed
  <2> QED
    BY <1>1, <2>1, <2>2 DEF Reaches
<1>6. ASSUME NEW d \in kept, NEW m, NEW n, Separates(nds, m, d, n)
      PROVE  Separates(rest, m, d, n)
  <2>1. PICK S \in SUBSET (DOMAIN nds \ {m, n}) :
          d \in S /\ \A x \in S : (nds[x].needs \cap DOMAIN nds) \ {m} \subseteq S
    BY <1>6 DEF Separates
  <2>2. /\ S \cap kept \in SUBSET (DOMAIN rest \ {m, n}) /\ d \in S \cap kept
        /\ \A x \in S \cap kept : (rest[x].needs \cap DOMAIN rest) \ {m} \subseteq S \cap kept
    BY <1>1, <2>1
  <2> QED
    BY <2>2 DEF Separates
<1> QED
  BY <1>2, <1>3, <1>4, <1>5, <1>6

-------------------------------------------------------------------------------
(* The steps of a composition, by what they do to the mapping.                *)

Splice == [anchor : Ids, chain : SUBSET Ids, placed : SUBSET Ids, before : SUBSET Ids]

LoadTypes ==
    /\ base \in Bases
    /\ DOMAIN nodes \subseteq Ids /\ nodes \in Mapping(DOMAIN nodes)
    /\ splices \subseteq Splice
    /\ authored \in BOOLEAN /\ overrides \in Nat

Leaves == /\ UNCHANGED <<nodes, base, splices, authored>>
          /\ overrides' \in Nat /\ (overrides' = 0 => overrides = 0)

NewSplice(anchor, added) ==
    [anchor |-> anchor, chain |-> Linked(added), placed |-> IdsOf(added) \ Linked(added),
     before |-> Dependents(nodes, anchor) \ {anchor}]

Inserts(anchor, added) ==
    /\ IsInsertion(nodes, anchor, added)
    /\ nodes' = Spliced(nodes, anchor, added)
    /\ splices' = splices \cup {NewSplice(anchor, added)}
    /\ authored' = (authored \/ \E i \in DOMAIN added : added[i].placed /\ added[i].needs # {})
    /\ UNCHANGED <<base, overrides>>

Overrides(id, entry) ==
    /\ id \in DOMAIN nodes /\ entry \in Overriding
    /\ nodes' = [nodes EXCEPT ![id] = entry]
    /\ authored' = (authored \/ entry.needs # nodes[id].needs)
    /\ overrides' = overrides + 1
    /\ UNCHANGED <<base, splices>>

Pruned(s, removals) == [s EXCEPT !.before = @ \ removals, !.placed = @ \ removals]

Drops(removals) ==
    /\ nodes' = Restrict(nodes, DOMAIN nodes \ removals)
    /\ \A x \in DOMAIN nodes \ removals : nodes'[x].needs \subseteq DOMAIN nodes \ removals
    /\ splices' = {Pruned(s, removals) : s \in splices}
    /\ UNCHANGED <<base, authored, overrides>>

LEMMA LoadStep ==
    ASSUME ComposeAssumption, LoadTypes, [Next]_loadVars
    PROVE  \/ Leaves
           \/ \E anchor, added : Inserts(anchor, added)
           \/ \E id, entry : Overrides(id, entry)
           \/ \E removals : Drops(removals)
<1>1. ASSUME NEW anchor \in Ids, NEW added \in Insertions, InsertAfter(anchor, added)
      PROVE  Leaves \/ Inserts(anchor, added)
  <2>1. added \in Seq(Inserted)
    BY DEF ComposeAssumption
  <2>2. CASE anchor \notin DOMAIN nodes \/ Duplicates(nodes, added)
    BY <1>1, <2>2 DEF InsertAfter, Leaves, LoadTypes
  <2>3. CASE anchor \in DOMAIN nodes /\ ~Duplicates(nodes, added)
    BY <1>1, <2>1, <2>3 DEF InsertAfter, Inserts, IsInsertion, NewSplice, LoadTypes
  <2> QED
    BY <2>2, <2>3
<1>2. ASSUME NEW id \in Ids, NEW entry \in Overriding, Override(id, entry)
      PROVE  Leaves \/ Overrides(id, entry)
  BY <1>2 DEF Override, Leaves, Overrides, LoadTypes
<1>3. ASSUME NEW removals \in SUBSET Ids, DropNodes(removals)
      PROVE  Leaves \/ Drops(removals)
  <2> DEFINE rest == Restrict(nodes, DOMAIN nodes \ removals)
  <2>1. CASE ~(removals \subseteq DOMAIN nodes) \/ Orphans(rest) # {}
    BY <1>3, <2>1 DEF DropNodes, Leaves, LoadTypes
  <2>2. CASE removals \subseteq DOMAIN nodes /\ Orphans(rest) = {}
    <3>1. DOMAIN rest = DOMAIN nodes \ removals
      BY DEF Restrict
    <3>2. /\ nodes' = rest /\ UNCHANGED <<base, authored, overrides>>
          /\ splices' = {Pruned(s, removals) : s \in splices}
      BY <1>3, <2>2 DEF DropNodes, Pruned
    <3>3. \A x \in DOMAIN nodes \ removals : rest[x].needs \subseteq DOMAIN rest
      BY <2>2, <3>1 DEF Orphans
    <3> HIDE DEF rest
    <3>4. \A x \in DOMAIN nodes \ removals : nodes'[x].needs \subseteq DOMAIN nodes \ removals
      BY <3>1, <3>2, <3>3
    <3> QED
      BY <3>2, <3>4 DEF Drops, rest
  <2> QED
    BY <2>1, <2>2
<1>4. ASSUME (\E id \in Restores : Rollback(id)) \/ NextDelta \/ Validate \/ UNCHANGED loadVars
      PROVE  Leaves
  BY <1>4 DEF Rollback, NextDelta, Validate, loadVars, Leaves, LoadTypes
<1> QED
  BY <1>1, <1>2, <1>3, <1>4 DEF Next

LEMMA InitLoads == ASSUME ComposeAssumption, Init PROVE LoadTypes
<1>1. base \in Bases /\ nodes = base /\ splices = {} /\ authored = FALSE /\ overrides = 0
  BY DEF Init
<1> QED
  BY <1>1 DEF ComposeAssumption, LoadTypes

LEMMA LoadTypesStep ==
    ASSUME ComposeAssumption, LoadTypes, [Next]_loadVars
    PROVE  LoadTypes'
<1>1. CASE Leaves
  BY <1>1 DEF Leaves, LoadTypes
<1>2. ASSUME NEW anchor, NEW added, Inserts(anchor, added) PROVE LoadTypes'
  <2>1. DOMAIN nodes' \subseteq Ids /\ nodes' \in Mapping(DOMAIN nodes')
    BY <1>2, SplicedTypes DEF Inserts
  <2>2. anchor \in Ids /\ IdsOf(added) \subseteq Ids /\ Dependents(nodes, anchor) \subseteq Ids
    <3>1. \A i \in DOMAIN added : added[i] \in Inserted
      BY <1>2 DEF Inserts, IsInsertion
    <3>2. \A i \in DOMAIN added : added[i].id \in Ids
      BY <3>1 DEF Inserted
    <3> QED
      BY <1>2, <3>2 DEF Inserts, IsInsertion, IdsOf, Dependents
  <2>3. Linked(added) \subseteq IdsOf(added)
    BY DEF Linked, IdsOf, Chain
  <2>4. NewSplice(anchor, added) \in Splice
    BY <2>2, <2>3 DEF NewSplice, Splice
  <2>5. authored' \in BOOLEAN
    BY <1>2 DEF Inserts, LoadTypes
  <2> QED
    BY <1>2, <2>1, <2>4, <2>5 DEF Inserts, LoadTypes
<1>3. ASSUME NEW id, NEW entry, Overrides(id, entry) PROVE LoadTypes'
  <2>1. entry \in [needs : SUBSET Ids, target : Ids \cup {NoNode}]
    BY <1>3 DEF Overrides, ComposeAssumption
  <2>2. nodes' \in Mapping(DOMAIN nodes) /\ DOMAIN nodes' = DOMAIN nodes
    BY <1>3, <2>1 DEF Overrides, LoadTypes, Mapping
  <2>3. authored' \in BOOLEAN /\ overrides' \in Nat
    BY <1>3 DEF Overrides, LoadTypes
  <2> QED
    BY <1>3, <2>2, <2>3 DEF Overrides, LoadTypes
<1>4. ASSUME NEW removals, Drops(removals) PROVE LoadTypes'
  <2>1. DOMAIN nodes' = DOMAIN nodes \ removals
        /\ nodes' \in Mapping(DOMAIN nodes \ removals)
    BY <1>4 DEF Drops, LoadTypes, Mapping, Restrict
  <2>2. \A s \in splices : Pruned(s, removals) \in Splice
    BY DEF LoadTypes, Splice, Pruned
  <2> QED
    BY <1>4, <2>1, <2>2 DEF Drops, LoadTypes
<1> QED
  BY <1>1, <1>2, <1>3, <1>4, LoadStep

-------------------------------------------------------------------------------
(* Nothing that may still be inserted is needed yet: while nobody wrote a     *)
(* `needs` in a delta, or only those of placed nodes that resolve.            *)
SettledWhenResolved ==
    ~authored \/ (overrides = 0 /\ PlacedResolve) => Settled(nodes)

LEMMA SpliceSettles ==
    ASSUME NEW nds, NEW anchor, NEW added, IsInsertion(nds, anchor, added), Settled(nds),
           \A i \in DOMAIN added \ Chain(added) : added[i].needs \cap Insertable = {},
           NEW new, new = Spliced(nds, anchor, added)
    PROVE  Settled(new)
<1>1. /\ anchor \in DOMAIN new /\ DOMAIN nds \subseteq DOMAIN new /\ Len(added) + 1 \in Nat
      /\ \A i \in Chain(added) : added[i].id \in DOMAIN new
      /\ added \in Seq(Inserted) /\ Chain(added) \subseteq Nat
  <2>1. IsSpliced(nds, anchor, added, new) /\ Chain(added) \subseteq DOMAIN added
    BY SplicedNodes, InsertedIds
  <2> QED
    BY <2>1 DEF IsInsertion, IsSpliced, IdsOf
<1>2. ASSUME NEW i \in Nat PROVE Before(added, anchor, i) \in DOMAIN new
  BY <1>1, PreviousIsBefore
<1>3. Last(added, anchor) \in DOMAIN new
  BY <1>1, <1>2 DEF Last
<1>4. ASSUME NEW x \in DOMAIN new, NEW y \in new[x].needs, y \in Insertable
      PROVE  y \in DOMAIN new
  <2>1. CASE x \in DOMAIN nds /\ y \in nds[x].needs
    BY <1>1, <1>4, <2>1 DEF Settled
  <2>2. CASE \E i \in DOMAIN added \ Chain(added) : x = added[i].id /\ y \in added[i].needs
    BY <1>4, <2>2
  <2> QED
    BY <1>1, <1>2, <1>3, <2>1, <2>2, SplicedNeeds
<1> QED
  BY <1>4 DEF Settled

(* The placed nodes of an insertion, by what the state says of their needs.   *)
LEMMA PlacedNeeds ==
    ASSUME LoadTypes, NEW anchor, NEW added, Inserts(anchor, added)
    PROVE  /\ ~authored' => \A i \in DOMAIN added \ Chain(added) : added[i].needs = {}
           /\ PlacedResolve =>
                 \A i \in DOMAIN added \ Chain(added) : added[i].needs \cap Insertable = {}
<1>1. \A i \in DOMAIN added : i \in Chain(added) \/ added[i].placed
  BY DEF Chain
<1> QED
  BY <1>1 DEF Inserts, IsInsertion, LoadTypes, PlacedResolve

LEMMA SettledStep ==
    ASSUME ComposeAssumption, LoadTypes, SettledWhenResolved, [Next]_loadVars
    PROVE  SettledWhenResolved'
<1> SUFFICES ASSUME ~authored' \/ (overrides' = 0 /\ PlacedResolve) PROVE Settled(nodes')
  BY DEF SettledWhenResolved, PlacedResolve, Settled, Insertable
<1>1. CASE Leaves
  BY <1>1 DEF Leaves, SettledWhenResolved
<1>2. ASSUME NEW anchor, NEW added, Inserts(anchor, added) PROVE Settled(nodes')
  <2>1. Settled(nodes)
    BY <1>2 DEF Inserts, SettledWhenResolved, LoadTypes
  <2>2. \A i \in DOMAIN added \ Chain(added) : added[i].needs \cap Insertable = {}
    BY <1>2, PlacedNeeds
  <2> QED
    BY <1>2, <2>1, <2>2, SpliceSettles DEF Inserts
<1>3. ASSUME NEW id, NEW entry, Overrides(id, entry) PROVE Settled(nodes')
  <2>0. overrides' # 0 /\ authored' = (authored \/ entry.needs # nodes[id].needs)
    BY <1>3 DEF Overrides, LoadTypes
  <2>1. ~authored' /\ ~authored /\ entry.needs = nodes[id].needs
    BY <2>0, Zenon
  <2>2. /\ DOMAIN nodes' = DOMAIN nodes
        /\ \A x \in DOMAIN nodes : nodes'[x].needs = nodes[x].needs
    BY <1>3, <2>1 DEF Overrides, LoadTypes, Mapping
  <2> QED
    BY <1>3, <2>1, <2>2 DEF Overrides, SettledWhenResolved, Settled, LoadTypes
<1>4. ASSUME NEW removals, Drops(removals) PROVE Settled(nodes')
  <2> DEFINE kept == DOMAIN nodes \ removals
  <2>1. /\ kept \in SUBSET DOMAIN nodes /\ nodes' = Restrict(nodes, kept)
        /\ \A x \in kept : nodes'[x].needs \subseteq kept
    BY <1>4 DEF Drops
  <2> HIDE DEF kept
  <2> QED
    BY <2>1, DropKeeps
<1> QED
  BY <1>1, <1>2, <1>3, <1>4, LoadStep

-------------------------------------------------------------------------------
(* An inserted chain stands between its anchor and what needed it.  What was  *)
(* put behind the chain also still waits for all of it and for the anchor, so *)
(* neither can be dropped, nor inserted anew somewhere else, before it.       *)
ChainHolds ==
    overrides = 0 /\ PlacedResolve =>
        \A s \in splices : \A d \in s.before :
            /\ d \in DOMAIN nodes
            /\ s.chain # {} => Reaches(nodes, d, s.anchor)
            /\ \A m \in s.chain : Reaches(nodes, d, m) /\ Separates(nodes, m, d, s.anchor)

LEMMA ReachedIsThere ==
    ASSUME NEW nds, NEW d \in DOMAIN nds, NEW n, Reaches(nds, d, n)
    PROVE  n \in DOMAIN nds
BY DEF Reaches, Closed

LEMMA ChainStep ==
    ASSUME ComposeAssumption, LoadTypes, SettledWhenResolved, ChainHolds, [Next]_loadVars
    PROVE  ChainHolds'
<1> SUFFICES ASSUME overrides' = 0, PlacedResolve,
                    NEW s \in splices', NEW d \in s.before
             PROVE  /\ d \in DOMAIN nodes'
                    /\ s.chain # {} => Reaches(nodes', d, s.anchor)
                    /\ \A m \in s.chain : /\ Reaches(nodes', d, m)
                                          /\ Separates(nodes', m, d, s.anchor)
  BY DEF ChainHolds, PlacedResolve, Insertable
<1>1. CASE Leaves
  BY <1>1 DEF Leaves, ChainHolds
<1>2. ASSUME NEW anchor, NEW added, Inserts(anchor, added)
      PROVE  /\ d \in DOMAIN nodes'
             /\ s.chain # {} => Reaches(nodes', d, s.anchor)
             /\ \A m \in s.chain : Reaches(nodes', d, m) /\ Separates(nodes', m, d, s.anchor)
  <2>1. Settled(nodes) /\ overrides = 0
    BY <1>2 DEF Inserts, SettledWhenResolved
  <2>2. /\ IsInsertion(nodes, anchor, added) /\ nodes' = Spliced(nodes, anchor, added)
        /\ DOMAIN nodes \subseteq DOMAIN nodes'
    <3>1. IsInsertion(nodes, anchor, added) /\ nodes' = Spliced(nodes, anchor, added)
      BY <1>2 DEF Inserts
    <3>2. IsSpliced(nodes, anchor, added, nodes')
      BY <3>1, SplicedNodes
    <3> QED
      BY <3>1, <3>2 DEF IsSpliced
  <2>3. CASE s \in splices
    <3>1. /\ d \in DOMAIN nodes
          /\ s.chain # {} => Reaches(nodes, d, s.anchor)
          /\ \A m \in s.chain : Reaches(nodes, d, m) /\ Separates(nodes, m, d, s.anchor)
      BY <2>1, <2>3 DEF ChainHolds
    <3>2. ASSUME NEW n, Reaches(nodes, d, n) PROVE n \in DOMAIN nodes /\ Reaches(nodes', d, n)
      BY <2>1, <2>2, <3>1, <3>2, ReachedIsThere, SpliceReaches
    <3>3. ASSUME NEW m \in s.chain PROVE Separates(nodes', m, d, s.anchor)
      <4>1. m \in DOMAIN nodes /\ s.anchor \in DOMAIN nodes
        BY <3>1, <3>2
      <4> QED
        BY <2>1, <2>2, <3>1, <4>1, SpliceSeparates
    <3> QED
      BY <2>2, <3>1, <3>2, <3>3
  <2>4. CASE s = NewSplice(anchor, added)
    <3>1. /\ s.anchor = anchor /\ s.chain = Linked(added)
          /\ d \in Dependents(nodes, anchor) \ {anchor}
      BY <2>4 DEF NewSplice
    <3>2. Linked(added) # {} => Chain(added) # {}
      BY DEF Linked
    <3>3. Linked(added) # {} =>
             Reaches(nodes', d, anchor) /\ \A m \in Linked(added) : Reaches(nodes', d, m)
      BY <2>1, <2>2, <3>1, <3>2, SpliceIsReached
    <3>4. \A m \in Linked(added) : Separates(nodes', m, d, anchor)
      BY <2>1, <2>2, <3>1, SpliceIsBetween
    <3> QED
      BY <2>2, <3>1, <3>3, <3>4 DEF Dependents
  <2> QED
    BY <1>2, <2>3, <2>4 DEF Inserts
<1>3. ASSUME NEW id, NEW entry, Overrides(id, entry) PROVE FALSE
  BY <1>3 DEF Overrides, LoadTypes
<1>4. ASSUME NEW removals, Drops(removals)
      PROVE  /\ d \in DOMAIN nodes'
             /\ s.chain # {} => Reaches(nodes', d, s.anchor)
             /\ \A m \in s.chain : Reaches(nodes', d, m) /\ Separates(nodes', m, d, s.anchor)
  <2> DEFINE kept == DOMAIN nodes \ removals
  <2>1. PICK t \in splices : s = Pruned(t, removals)
    BY <1>4 DEF Drops
  <2>2. s.anchor = t.anchor /\ s.chain = t.chain /\ d \in t.before /\ d \notin removals
    BY <2>1 DEF Pruned, LoadTypes, Splice
  <2>3. /\ d \in kept
        /\ t.chain # {} => Reaches(nodes, d, t.anchor)
        /\ \A m \in t.chain : Reaches(nodes, d, m) /\ Separates(nodes, m, d, t.anchor)
    BY <1>4, <2>2 DEF Drops, ChainHolds
  <2>4. /\ nodes' = Restrict(nodes, kept) /\ DOMAIN nodes' = kept
        /\ kept \in SUBSET DOMAIN nodes
        /\ \A x \in kept : nodes'[x].needs \subseteq kept
    BY <1>4 DEF Drops, Restrict
  <2> HIDE DEF kept
  <2>5. /\ \A n : Reaches(nodes, d, n) => Reaches(nodes', d, n)
        /\ \A m, n : Separates(nodes, m, d, n) => Separates(nodes', m, d, n)
    BY <2>3, <2>4, DropKeeps
  <2> QED
    BY <2>2, <2>3, <2>4, <2>5
<1> QED
  BY <1>1, <1>2, <1>3, <1>4, LoadStep

(* ChainBetween, for any bases, insertions and number of deltas: a chain that *)
(* _splice puts after an anchor stays between it and what needed it, whatever *)
(* later anchors and deltas insert and drop, until an override rewires a node.*)
(* No base and no placed node may name a node that only a delta brings.       *)
THEOREM ChainBetweenHolds ==
    ASSUME ComposeAssumption, BasesResolve, PlacedResolve PROVE Spec => []ChainBetween
<1> DEFINE Inv == LoadTypes /\ SettledWhenResolved /\ ChainHolds
<1>1. Init => Inv
  <2> SUFFICES ASSUME Init PROVE Inv
    OBVIOUS
  <2>1. LoadTypes
    BY InitLoads
  <2>2. Settled(nodes) /\ splices = {}
    BY DEF Init, BasesResolve, Settled
  <2> QED
    BY <2>1, <2>2 DEF SettledWhenResolved, ChainHolds
<1>2. Inv /\ [Next]_loadVars => Inv'
  BY LoadTypesStep, SettledStep, ChainStep
<1>3. Inv => ChainBetween
  BY DEF ChainHolds, ChainBetween
<1> QED
  BY <1>1, <1>2, <1>3, PTL DEF Spec

-------------------------------------------------------------------------------
(* CycleNeedsAnAuthor, for any bases, insertions and number of deltas: as     *)
(* long as no delta writes a `needs`, composing an acyclic base leaves it     *)
(* acyclic.  No base may name a node that only a delta brings.                *)
THEOREM CycleNeedsAnAuthorHolds ==
    ASSUME ComposeAssumption, BasesResolve PROVE Spec => []CycleNeedsAnAuthor
<1> DEFINE Inv == LoadTypes /\ SettledWhenResolved /\ CycleNeedsAnAuthor
<1>1. Init => Inv
  <2> SUFFICES ASSUME Init PROVE Inv
    OBVIOUS
  <2>1. LoadTypes /\ Settled(nodes) /\ nodes = base
    BY InitLoads DEF Init, BasesResolve, Settled
  <2> QED
    BY <2>1 DEF SettledWhenResolved, CycleNeedsAnAuthor
<1>2. ASSUME Inv, [Next]_loadVars PROVE CycleNeedsAnAuthor'
  <2> SUFFICES ASSUME Acyclic(base'), ~authored' PROVE Acyclic(nodes')
    BY DEF CycleNeedsAnAuthor, Acyclic
  <2>1. CASE Leaves
    BY <1>2, <2>1 DEF Leaves, CycleNeedsAnAuthor
  <2>2. ASSUME NEW anchor, NEW added, Inserts(anchor, added) PROVE Acyclic(nodes')
    <3>1. ~authored /\ Acyclic(base)
      BY <2>2, Zenon DEF Inserts
    <3>2. Settled(nodes) /\ Acyclic(nodes)
      BY <1>2, <3>1 DEF SettledWhenResolved, CycleNeedsAnAuthor
    <3>3. \A i \in DOMAIN added \ Chain(added) : added[i].needs = {}
      BY <1>2, <2>2, PlacedNeeds
    <3> QED
      BY <2>2, <3>2, <3>3, SpliceIsAcyclic DEF Inserts
  <2>3. ASSUME NEW id, NEW entry, Overrides(id, entry) PROVE Acyclic(nodes')
    <3>1. ~authored /\ entry.needs = nodes[id].needs /\ Acyclic(base)
      BY <2>3, Zenon DEF Overrides
    <3>2. /\ DOMAIN nodes' = DOMAIN nodes
          /\ \A x \in DOMAIN nodes : nodes'[x].needs = nodes[x].needs
      BY <1>2, <2>3, <3>1 DEF Overrides, LoadTypes, Mapping
    <3> QED
      BY <1>2, <3>1, <3>2 DEF CycleNeedsAnAuthor, Acyclic
  <2>4. ASSUME NEW removals, Drops(removals) PROVE Acyclic(nodes')
    <3> DEFINE kept == DOMAIN nodes \ removals
    <3>1. /\ kept \in SUBSET DOMAIN nodes /\ nodes' = Restrict(nodes, kept)
          /\ \A x \in kept : nodes'[x].needs \subseteq kept
          /\ Acyclic(nodes)
      BY <1>2, <2>4 DEF Drops, CycleNeedsAnAuthor
    <3> HIDE DEF kept
    <3> QED
      BY <3>1, DropKeeps
  <2> QED
    BY <1>2, <2>1, <2>2, <2>3, <2>4, LoadStep
<1>3. Inv /\ [Next]_loadVars => Inv'
  BY <1>2, LoadTypesStep, SettledStep
<1> QED
  BY <1>1, <1>3, PTL DEF Spec

-------------------------------------------------------------------------------
(* A placed node is there, and was inserted once: only a chain after it makes *)
(* anything wait for it.                                                      *)
Chained(p) == \E t \in splices : t.chain # {} /\ (t.anchor = p \/ p \in t.chain)

PlacedHolds ==
    ~authored =>
        \A s \in splices : \A p \in s.placed :
            p \in DOMAIN nodes /\ (Dependents(nodes, p) = {} \/ Chained(p))

LEMMA PlacedStep ==
    ASSUME ComposeAssumption, LoadTypes, SettledWhenResolved, PlacedHolds, [Next]_loadVars
    PROVE  PlacedHolds'
<1> SUFFICES ASSUME ~authored', NEW s \in splices', NEW p \in s.placed
             PROVE  p \in DOMAIN nodes' /\ (Dependents(nodes', p) = {} \/ Chained(p)')
  BY DEF PlacedHolds, Dependents
<1>1. CASE Leaves
  BY <1>1 DEF Leaves, PlacedHolds, Chained
<1>2. ASSUME NEW anchor, NEW added, Inserts(anchor, added)
      PROVE  p \in DOMAIN nodes' /\ (Dependents(nodes', p) = {} \/ Chained(p)')
  <2>1. ~authored
    BY <1>2, Zenon DEF Inserts
  <2>2. Settled(nodes)
    BY <2>1 DEF SettledWhenResolved
  <2>3. \A i \in DOMAIN added \ Chain(added) : added[i].needs = {}
    BY <1>2, PlacedNeeds
  <2>4. /\ IsInsertion(nodes, anchor, added) /\ nodes' = Spliced(nodes, anchor, added)
        /\ DOMAIN nodes' = DOMAIN nodes \cup IdsOf(added)
    <3>1. IsInsertion(nodes, anchor, added) /\ nodes' = Spliced(nodes, anchor, added)
      BY <1>2 DEF Inserts
    <3>2. IsSpliced(nodes, anchor, added, nodes')
      BY <3>1, SplicedNodes
    <3> QED
      BY <3>1, <3>2 DEF IsSpliced
  <2>6. CASE s \in splices
    <3>1. p \in DOMAIN nodes /\ (Dependents(nodes, p) = {} \/ Chained(p))
      BY <2>1, <2>6 DEF PlacedHolds
    <3>2. CASE Chained(p)
      BY <1>2, <2>4, <3>1, <3>2 DEF Chained, Inserts
    <3>3. CASE p = anchor /\ Chain(added) # {}
      <4>1. /\ NewSplice(anchor, added) \in splices' /\ NewSplice(anchor, added).anchor = p
            /\ NewSplice(anchor, added).chain = Linked(added)
        BY <1>2, <3>3 DEF Inserts, NewSplice
      <4>2. \A i \in Chain(added) : added[i].id \in Linked(added)
        BY DEF Linked
      <4> QED
        BY <2>4, <3>1, <3>3, <4>1, <4>2 DEF Chained
    <3>4. CASE Dependents(nodes, p) = {} /\ (p = anchor => Chain(added) = {})
      BY <2>2, <2>3, <2>4, <3>1, <3>4, OldDependents
    <3> QED
      BY <2>4, <3>1, <3>2, <3>3, <3>4
  <2>7. CASE s = NewSplice(anchor, added)
    <3>1. p \in IdsOf(added) \ Linked(added)
      BY <2>7 DEF NewSplice
    <3> QED
      BY <2>2, <2>3, <2>4, <3>1, PlacedDependents
  <2> QED
    BY <1>2, <2>6, <2>7 DEF Inserts
<1>3. ASSUME NEW id, NEW entry, Overrides(id, entry)
      PROVE  p \in DOMAIN nodes' /\ (Dependents(nodes', p) = {} \/ Chained(p)')
  <2>1. ~authored /\ entry.needs = nodes[id].needs
    BY <1>3, Zenon DEF Overrides
  <2>2. /\ DOMAIN nodes' = DOMAIN nodes /\ splices' = splices
        /\ \A x \in DOMAIN nodes : nodes'[x].needs = nodes[x].needs
    BY <1>3, <2>1 DEF Overrides, LoadTypes, Mapping
  <2> QED
    BY <2>1, <2>2 DEF PlacedHolds, Dependents, Chained
<1>4. ASSUME NEW removals, Drops(removals)
      PROVE  p \in DOMAIN nodes' /\ (Dependents(nodes', p) = {} \/ Chained(p)')
  <2> DEFINE kept == DOMAIN nodes \ removals
  <2>1. PICK t \in splices : s = Pruned(t, removals)
    BY <1>4 DEF Drops
  <2>2. p \in t.placed /\ p \notin removals /\ ~authored
    BY <1>4, <2>1 DEF Pruned, LoadTypes, Splice, Drops
  <2>3. p \in kept /\ (Dependents(nodes, p) = {} \/ Chained(p))
    BY <2>2 DEF PlacedHolds
  <2>4. Chained(p) => Chained(p)'
    <3>1. \A u \in splices : /\ Pruned(u, removals) \in splices'
                             /\ Pruned(u, removals).anchor = u.anchor
                             /\ Pruned(u, removals).chain = u.chain
      BY <1>4 DEF Drops, Pruned, LoadTypes, Splice
    <3> QED
      BY <3>1 DEF Chained
  <2>5. /\ nodes' = Restrict(nodes, kept) /\ DOMAIN nodes' = kept
        /\ kept \in SUBSET DOMAIN nodes
        /\ \A x \in kept : nodes'[x].needs \subseteq kept
    BY <1>4 DEF Drops, Restrict
  <2> HIDE DEF kept
  <2>6. Dependents(nodes', p) \subseteq Dependents(nodes, p)
    BY <2>5, DropKeeps
  <2> QED
    BY <2>3, <2>4, <2>5, <2>6
<1> QED
  BY <1>1, <1>2, <1>3, <1>4, LoadStep

(* NothingWaitsForPlaced, for any bases, insertions and number of deltas: no  *)
(* splice or drop makes a node wait for one that was placed, except behind a  *)
(* chain inserted after it.  No base may name a node that only a delta brings.*)
THEOREM NothingWaitsForPlacedHolds ==
    ASSUME ComposeAssumption, BasesResolve PROVE Spec => []NothingWaitsForPlaced
<1> DEFINE Inv == LoadTypes /\ SettledWhenResolved /\ PlacedHolds
<1>1. Init => Inv
  <2> SUFFICES ASSUME Init PROVE Inv
    OBVIOUS
  <2>1. LoadTypes /\ Settled(nodes) /\ splices = {}
    BY InitLoads DEF Init, BasesResolve, Settled
  <2> QED
    BY <2>1 DEF SettledWhenResolved, PlacedHolds
<1>2. Inv /\ [Next]_loadVars => Inv'
  BY LoadTypesStep, SettledStep, PlacedStep
<1>3. Inv => NothingWaitsForPlaced
  BY DEF PlacedHolds, NothingWaitsForPlaced, Chained
<1> QED
  BY <1>1, <1>2, <1>3, PTL DEF Spec
===============================================================================

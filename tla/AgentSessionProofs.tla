--------------------------- MODULE AgentSessionProofs --------------------------
(* What holds of a wave of sessions for any number of sessions, files, names  *)
(* of files, scopes, threads and attempts.                                    *)
EXTENDS AgentSession, TLAPS

(* A permission is used only while its session is open.                       *)
AskedWhileOpen == \A s \in Sessions : at[s] # "open" => asked[s] = NoPath

(* A guard remembers what it allowed before it is done.                       *)
GuardRemembers ==
    \A s \in Sessions \ shadowed :
        at[s] \in {"listening", "open", "collecting", "returned"} =>
            /\ \A p \in changed[s] : \E n \in written[s] : p = Denotes[n]
            /\ asked[s] # NoPath => Relativise(asked[s]) \in written[s]

Disjoint == \A s, t \in Sessions : s # t => Scope(s) \cap Scope(t) = {}

(* The name that was judged is in the scope.  A changed file is, and is the   *)
(* session's own, unless a session wrote it under another name than was judged.*)
ScopesKept ==
    shadowed = {} =>
        /\ \A s \in Sessions : asked[s] # NoPath => Permits(s, Relativise(asked[s]))
        /\ \A s \in Sessions : changed[s] \subseteq Scope(s) \cup misnamed
        /\ \A p \in Paths \ misnamed : tree[p] \in Sessions => p \in Scope(tree[p])
        /\ Disjoint => \A s \in Sessions : \A p \in changed[s] \ misnamed : tree[p] = s

(* Who listens alone hears itself.                                            *)
HearsItself ==
    \A s \in Sessions \ beside :
        /\ at[s] \in {"listening", "open"} => Listening = {s} /\ sink = s
        /\ at[s] = "open" /\ s \in shadowed => heard[s] # {}
        /\ at[s] \in {"collecting", "returned"} => s \notin shadowed

SessionInv == TypeOK /\ AskedWhileOpen /\ GuardRemembers /\ ScopesKept /\ HearsItself

-------------------------------------------------------------------------------
(* The name a guard judges denotes the file the call writes; and when it is   *)
(* that file's own, what was permitted is in the scope.                       *)
LEMMA JudgedName ==
    ASSUME SessionAssumption, NEW n \in Names
    PROVE  /\ Denotes[n] \in Paths /\ Relativise(n) \in Names
           /\ Denotes[Relativise(n)] = Denotes[n]
           /\ \A s \in Sessions : Permits(s, Relativise(n)) /\ Relativise(n) = Denotes[n]
                                  => Denotes[n] \in Scope(s)
BY DEF SessionAssumption, Relativise, Permits, Scope

(* The scopes are kept while no file changes.                                 *)
LEMMA ScopesStand ==
    ASSUME ScopesKept, UNCHANGED <<treeVars, shadowed>>,
           \A t \in Sessions : asked'[t] \in {asked[t], NoPath}
    PROVE  ScopesKept'
BY DEF ScopesKept, Disjoint, Scope, Permits, Relativise, treeVars

(* A write under a judged name keeps the scopes.                              *)
LEMMA ChangesInScope ==
    ASSUME SessionAssumption, TypeOK, ScopesKept, NEW s \in Sessions, NEW n \in Names,
           Changes(s, n), shadowed' = shadowed, shadowed = {} => Permits(s, Relativise(n)),
           asked' = [asked EXCEPT ![s] = NoPath]
    PROVE  ScopesKept'
<1> SUFFICES ASSUME shadowed = {} PROVE ScopesKept'
  BY DEF ScopesKept
<1>1. PICK p \in Paths : p = Denotes[n]
  BY JudgedName
<1>2. /\ tree' = [tree EXCEPT ![p] = s] /\ changed' = [changed EXCEPT ![s] = @ \cup {p}]
      /\ misnamed' = IF Relativise(n) = p THEN misnamed ELSE misnamed \cup {p}
  BY <1>1 DEF Changes
<1>3. misnamed \subseteq misnamed' /\ (p \in Scope(s) \/ p \in misnamed')
  BY <1>1, <1>2, JudgedName
<1>4. \A t \in Sessions : asked'[t] # NoPath => Permits(t, Relativise(asked'[t]))
  BY DEF TypeOK, ScopesKept
<1>5. \A t \in Sessions : changed'[t] \subseteq Scope(t) \cup misnamed'
  BY <1>2, <1>3 DEF TypeOK, ScopesKept
<1>6. \A q \in Paths \ misnamed' : tree'[q] \in Sessions => q \in Scope(tree'[q])
  BY <1>2, <1>3 DEF TypeOK, ScopesKept
<1>7. ASSUME Disjoint, NEW t \in Sessions, NEW q \in changed'[t] \ misnamed'
      PROVE  tree'[q] = t
  <2>1. CASE q = p
    <3>1. tree'[q] = s /\ q \in Scope(s) /\ q \in Scope(t)
      BY <1>2, <1>3, <1>5, <1>7, <2>1 DEF TypeOK
    <3> QED
      BY <1>7, <3>1 DEF Disjoint
  <2>2. CASE q # p
    BY <1>2, <1>3, <1>7, <2>2 DEF TypeOK, ScopesKept
  <2> QED
    BY <2>1, <2>2
<1>8. (Disjoint' <=> Disjoint) /\ \A t : Scope(t)' = Scope(t)
  BY DEF Disjoint, Scope
<1>9. \A t \in Sessions : \A m : Permits(t, Relativise(m))' <=> Permits(t, Relativise(m))
  BY DEF Permits, Relativise
<1> QED
  BY <1>4, <1>5, <1>6, <1>7, <1>8, <1>9 DEF ScopesKept

LEMMA InitInv == ASSUME SessionAssumption, Init PROVE SessionInv
<1>1. TypeOK
  BY DEF SessionAssumption, Init, TypeOK, Places, Retries
<1>2. AskedWhileOpen /\ GuardRemembers
  BY DEF Init, AskedWhileOpen, GuardRemembers
<1>3. ScopesKept
  BY DEF SessionAssumption, Init, ScopesKept
<1>4. HearsItself
  BY DEF Init, HearsItself
<1> QED
  BY <1>1, <1>2, <1>3, <1>4 DEF SessionInv

LEMMA StepInv == ASSUME SessionAssumption, SessionInv, NEW s \in Sessions, Step(s)
                 PROVE  SessionInv'
<1> USE SessionAssumption DEF SessionAssumption
<1>1. CASE Begin(s)
  <2>1. TypeOK'
    BY <1>1 DEF SessionInv, TypeOK, Places, Retries, Begin, Transition, Fresh, warnVars, Listening
  <2>2. AskedWhileOpen' /\ GuardRemembers'
    BY <1>1 DEF SessionInv, TypeOK, AskedWhileOpen, GuardRemembers, Begin, Transition, Fresh
  <2>3. ScopesKept'
    BY <1>1 DEF SessionInv, TypeOK, ScopesKept, Disjoint, Begin, Transition
  <2>4. HearsItself'
    BY <1>1 DEF SessionInv, TypeOK, HearsItself, Begin, Transition, warnVars, Listening
  <2> QED
    BY <2>1, <2>2, <2>3, <2>4 DEF SessionInv
<1>2. CASE Open(s)
  <2>1. TypeOK'
    BY <1>2 DEF SessionInv, TypeOK, Places, Retries, Open, Transition, Heard, guardVars, treeVars
  <2>2. AskedWhileOpen' /\ GuardRemembers'
    BY <1>2 DEF SessionInv, TypeOK, AskedWhileOpen, GuardRemembers, Relativise, Open, Transition,
                guardVars, treeVars
  <2>3. ScopesKept'
    BY <1>2, ScopesStand DEF SessionInv, Open
  <2>4. HearsItself'
    <3>1. Listening' = Listening /\ sink' = sink /\ beside' = beside /\ shadowed' = shadowed
      BY <1>2 DEF SessionInv, TypeOK, Open, Transition, Listening
    <3>2. s \notin beside => sink = s
      BY <1>2 DEF SessionInv, HearsItself, Open, Transition
    <3>3. s \in shadowed /\ s \notin beside => heard'[s] # {}
      BY <1>2, <3>2 DEF SessionInv, TypeOK, Open, Heard
    <3>4. \A t \in Sessions : heard[t] # {} => heard'[t] # {}
      BY <1>2 DEF SessionInv, TypeOK, Open, Heard
    <3>5. \A t \in Sessions \ {s} : at'[t] = at[t]
      BY <1>2 DEF SessionInv, TypeOK, Open, Transition
    <3>6. at[s] = "listening" /\ at'[s] = "open"
      BY <1>2 DEF SessionInv, TypeOK, Open, Transition
    <3> QED
      BY <3>1, <3>2, <3>3, <3>4, <3>5, <3>6 DEF SessionInv, HearsItself
  <2> QED
    BY <2>1, <2>2, <2>3, <2>4 DEF SessionInv
<1>3. CASE \E n \in Names : Ask(s, n)
  <2> PICK n \in Names : Ask(s, n)
    BY <1>3
  <2>1. TypeOK'
    BY SMTT(30), JudgedName DEF SessionInv, TypeOK, Retries, Ask, warnVars, treeVars
  <2>2. AskedWhileOpen' /\ GuardRemembers'
    BY DEF SessionInv, TypeOK, AskedWhileOpen, GuardRemembers, Relativise, Ask, treeVars
  <2>3. ScopesKept'
    BY DEF SessionInv, TypeOK, ScopesKept, Disjoint, Scope, Ask, Permits, Relativise, treeVars
  <2>4. HearsItself'
    BY DEF SessionInv, HearsItself, Ask, warnVars, Listening
  <2> QED
    BY <2>1, <2>2, <2>3, <2>4 DEF SessionInv
<1>4. CASE Write(s)
  <2>1. TypeOK'
    BY <1>4 DEF SessionInv, TypeOK, Retries, Write, Changes, guardVars, warnVars, treeVars
  <2>2. AskedWhileOpen' /\ GuardRemembers'
    BY <1>4, JudgedName DEF SessionInv, TypeOK, AskedWhileOpen, GuardRemembers, Write, Changes,
                guardVars, treeVars, Relativise
  <2>3. ScopesKept'
    <3>1. CASE UNCHANGED treeVars
      BY <1>4, <3>1, ScopesStand DEF SessionInv, TypeOK, Write
    <3>2. CASE Changes(s, asked[s])
      BY <1>4, <3>2, ChangesInScope DEF SessionInv, TypeOK, ScopesKept, Write
    <3> QED
      BY <1>4, <3>1, <3>2 DEF Write
  <2>4. HearsItself'
    BY <1>4 DEF SessionInv, HearsItself, Write, warnVars, Listening
  <2> QED
    BY <2>1, <2>2, <2>3, <2>4 DEF SessionInv
<1>5. CASE \E p \in Paths : WriteUnasked(s, p)
  <2> PICK p \in Paths : WriteUnasked(s, p)
    BY <1>5
  <2>1. TypeOK'
    BY DEF SessionInv, TypeOK, Retries, WriteUnasked, Changes, guardVars, warnVars
  <2>2. AskedWhileOpen' /\ GuardRemembers'
    BY DEF SessionInv, TypeOK, AskedWhileOpen, GuardRemembers, WriteUnasked, Changes, guardVars
  <2>3. ScopesKept'
    BY DEF SessionInv, ScopesKept, WriteUnasked
  <2>4. HearsItself'
    BY DEF SessionInv, HearsItself, WriteUnasked, warnVars, Listening
  <2> QED
    BY <2>1, <2>2, <2>3, <2>4 DEF SessionInv
<1>6. CASE Finish(s)
  <2>1. TypeOK'
    BY <1>6 DEF SessionInv, TypeOK, Places, Retries, Finish, Transition, Unlisten, guardVars,
                treeVars
  <2>2. AskedWhileOpen' /\ GuardRemembers'
    BY <1>6 DEF SessionInv, TypeOK, AskedWhileOpen, GuardRemembers, Relativise, Finish, Transition,
                guardVars, treeVars
  <2>3. ScopesKept'
    BY <1>6, ScopesStand DEF SessionInv, Finish
  <2>4. HearsItself'
    BY <1>6 DEF SessionInv, TypeOK, HearsItself, Finish, Transition, Unlisten, Listening
  <2> QED
    BY <2>1, <2>2, <2>3, <2>4 DEF SessionInv
<1>7. CASE GiveUp(s)
  <2>1. TypeOK'
    BY <1>7 DEF SessionInv, TypeOK, Places, Retries, GiveUp, Transition, Changes, Unlisten, guardVars,
                treeVars
  <2>2. AskedWhileOpen' /\ GuardRemembers'
    BY <1>7 DEF SessionInv, TypeOK, AskedWhileOpen, GuardRemembers, Relativise, GiveUp, Transition,
                Changes, guardVars, treeVars
  <2>3. ScopesKept'
    <3>1. CASE UNCHANGED treeVars
      BY <1>7, <3>1, ScopesStand DEF SessionInv, TypeOK, GiveUp
    <3>2. CASE asked[s] # NoPath /\ Changes(s, asked[s])
      BY <1>7, <3>2, ChangesInScope DEF SessionInv, TypeOK, ScopesKept, GiveUp
    <3> QED
      BY <1>7, <3>1, <3>2 DEF GiveUp
  <2>4. HearsItself'
    BY <1>7 DEF SessionInv, TypeOK, HearsItself, GiveUp, Transition, Unlisten, Listening
  <2> QED
    BY <2>1, <2>2, <2>3, <2>4 DEF SessionInv
<1>8. CASE Collect(s)
  <2>1. TypeOK'
    BY <1>8 DEF SessionInv, TypeOK, Places, Retries, Collect, guardVars, warnVars, treeVars
  <2>2. AskedWhileOpen' /\ GuardRemembers'
    BY <1>8 DEF SessionInv, TypeOK, AskedWhileOpen, GuardRemembers, Relativise, Collect, guardVars,
                treeVars
  <2>3. ScopesKept'
    BY <1>8, ScopesStand DEF SessionInv, Collect
  <2>4. HearsItself'
    BY <1>8 DEF SessionInv, TypeOK, HearsItself, Collect, warnVars, Listening
  <2> QED
    BY <2>1, <2>2, <2>3, <2>4 DEF SessionInv
<1> QED
  BY <1>1, <1>2, <1>3, <1>4, <1>5, <1>6, <1>7, <1>8 DEF Step

LEMMA RecordInv == ASSUME SessionAssumption, SessionInv, Record PROVE SessionInv'
<1>1. TypeOK'
  BY DEF SessionInv, TypeOK, Places, Retries, Record, guardVars, warnVars, treeVars
<1>2. AskedWhileOpen' /\ GuardRemembers'
  BY DEF SessionInv, TypeOK, AskedWhileOpen, GuardRemembers, Relativise, Record, guardVars, treeVars
<1>3. ScopesKept'
  BY ScopesStand DEF SessionInv, Record
<1>4. HearsItself'
  BY DEF SessionInv, TypeOK, HearsItself, Record, warnVars, Listening
<1> QED
  BY <1>1, <1>2, <1>3, <1>4 DEF SessionInv

(* The invariant the theorems below rest on: guards remember, scopes are      *)
(* kept, and who listens alone hears itself.                                  *)
THEOREM SessionInvHolds == ASSUME SessionAssumption PROVE Spec => []SessionInv
<1>1. Init => SessionInv
  BY InitInv
<1>2. SessionInv /\ [Next]_vars => SessionInv'
  <2> SUFFICES ASSUME SessionInv, [Next]_vars PROVE SessionInv'
    OBVIOUS
  <2>1. CASE \E s \in Sessions : Step(s)
    BY <2>1, StepInv
  <2>2. CASE Record
    BY <2>2, RecordInv
  <2>3. CASE UNCHANGED vars
    <3>1. ScopesKept'
      BY <2>3, ScopesStand DEF SessionInv, vars
    <3> QED
      BY <2>3, <3>1 DEF SessionInv, TypeOK, Retries, AskedWhileOpen, GuardRemembers, Relativise,
                        HearsItself, Listening, vars, guardVars, warnVars, treeVars
  <2> QED
    BY <2>1, <2>2, <2>3 DEF Next
<1> QED
  BY <1>1, <1>2, PTL DEF Spec

(* Every variable keeps its type, and no node is begun more often than its    *)
(* budget allows (codeagent.py, run; policy/failure.py).                      *)
THEOREM SessionTypesHold == ASSUME SessionAssumption PROVE Spec => []TypeOK
<1>1. SessionInv => TypeOK
  BY DEF SessionInv
<1> QED
  BY <1>1, SessionInvHolds, PTL

(* The changeset of a session whose guard was asked names everything the      *)
(* session changed (ScopeGuard.decide, CodeAgentWorker._changeset).           *)
THEOREM ManifestCoversChangesHolds == ASSUME SessionAssumption PROVE Spec => []ManifestCoversChanges
<1>1. SessionInv => ManifestCoversChanges
  BY DEF SessionInv, GuardRemembers, ManifestCoversChanges
<1> QED
  BY <1>1, SessionInvHolds, PTL

(* With disjoint scopes and no guard skipped, what a session changed stays as *)
(* it left it, and nothing outside the scopes changes (WorkScope.permits).    *)
THEOREM OwnWorkStandsHolds == ASSUME SessionAssumption PROVE Spec => []OwnWorkStands
<1>1. SessionInv => OwnWorkStands
  BY DEF SessionInv, ScopesKept, Disjoint, OwnWorkStands
<1> QED
  BY <1>1, SessionInvHolds, PTL

(* A session that listened alone is trusted only if its guard was asked       *)
(* (_refuse_if_guard_was_shadowed).                                           *)
THEOREM AloneIsGuardedHolds == ASSUME SessionAssumption PROVE Spec => []AloneIsGuarded
<1>1. SessionInv => AloneIsGuarded
  BY DEF SessionInv, TypeOK, HearsItself, AloneIsGuarded, SessionAssumption
<1> QED
  BY <1>1, SessionInvHolds, PTL
===============================================================================

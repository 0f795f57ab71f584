------------------------------ MODULE AgentSession -----------------------------
(* A wave of scoped agent sessions, each on a thread of the pool              *)
(* (workers/codeagent.py, workers/base.py, Scheduler._execute).  A session    *)
(* writes to one shared tree; its guard decides every write it is asked       *)
(* about, by the name the call gives the file, and remembers that name.  The  *)
(* SDK may skip the guard, says so with a warning, and a session that hears   *)
(* it is not trusted.                                                         *)
(*                                                                            *)
(*   at[s]        where session s is                                          *)
(*   attempts[s]  the attempts of its node begun                              *)
(*   written[s], denied[s]   the names its ScopeGuard remembers               *)
(*   asked[s]     the name it was allowed to write and has not written yet    *)
(*   shadowed     the sessions whose guard the SDK skips, all through         *)
(*   sink         who hears a warning: a session's list, or stderr            *)
(*   saved[s]     what catch_warnings of s puts back                          *)
(*   heard[s]     the sessions whose warning is in the list of s              *)
(*   tree[p]      who wrote p last                                            *)
(*   manifests    the changesets recorded: session, attempt, written, denied  *)
(* and history:                                                               *)
(*   changed[s]   the files the attempt changed in the tree                   *)
(*   refused[s]   what its node was refused, over all its attempts            *)
(*   beside       the sessions that listened while another one did            *)
(*   misnamed     the files written under a name judged for another file      *)
EXTENDS Naturals, FiniteSets

CONSTANTS Sessions, NoPath,
          Paths,            \* files, each by its resolved name
          Names,            \* what a call may name
          Denotes,          \* the file a name denotes
          Absolute,         \* the absolute names that resolve into the tree
          Allowed, Frozen,  \* the names write_scope and freeze_paths match
          Outputs,          \* the files of output_files
          Present,          \* what is in the tree before the wave
          Shadowing,        \* sessions the SDK may leave unguarded
          Workers,          \* threads of the pool
          MaxAttempts, MaxAsks

ASSUME SessionAssumption ==
    /\ Paths \subseteq Names /\ Absolute \subseteq Names /\ NoPath \notin Names
    /\ Denotes \in [Names -> Paths] /\ \A p \in Paths : Denotes[p] = p
    /\ Allowed \in [Sessions -> SUBSET Names] /\ Frozen \in [Sessions -> SUBSET Names]
    /\ Outputs \in [Sessions -> SUBSET Paths]
    /\ Present \subseteq Paths /\ Shadowing \subseteq Sessions
    /\ {"stderr", "before", "absent"} \cap Sessions = {}
    /\ Workers \in Nat \ {0} /\ MaxAttempts \in Nat \ {0} /\ MaxAsks \in Nat

VARIABLES at, attempts, written, denied, asked, shadowed, sink, saved, heard,
          tree, manifests, changed, refused, beside, misnamed

guardVars == <<written, denied, refused>>
warnVars  == <<sink, saved, heard, beside>>
treeVars  == <<tree, changed, misnamed>>
vars == <<at, attempts, guardVars, asked, shadowed, warnVars, treeVars, manifests>>

Places == {"queued", "listening", "open", "collecting", "returned", "error", "raised", "recorded"}

Transition(s, from, to) == at[s] = from /\ at' = [at EXCEPT ![s] = to]

(* Inside `with warnings.catch_warnings`.                                     *)
Listening == {s \in Sessions : at[s] \in {"listening", "open"}}

Busy == {s \in Sessions : at[s] \in {"listening", "open", "collecting"}}

(* ScopeGuard.relativise: an absolute name of what is in the tree is resolved *)
(* to the file's own, any other name is judged as it is written.              *)
Relativise(n) == IF n \in Absolute THEN Denotes[n] ELSE n

PermitsAllowed(s, name) == name \in Allowed[s]  \* mutant: the frozen paths are not consulted

(* WorkScope.permits: frozen wins.                                            *)
Permits(s, name) == name \notin Frozen[s] /\ name \in Allowed[s]

FreshForAll(remembered, s) == [t \in Sessions |-> {}]  \* mutant: one guard per worker

(* Each session has a guard of its own.                                       *)
Fresh(remembered, s) == [remembered EXCEPT ![s] = {}]

-------------------------------------------------------------------------------
(* CodeAgentWorker.run up to the session: a node without a scope is refused.  *)
Begin(s) ==
    /\ Cardinality(Busy) < Workers
    /\ Transition(s, "queued", IF Allowed[s] = {} THEN "error" ELSE "listening")
    /\ attempts' = [attempts EXCEPT ![s] = @ + 1]
    /\ written' = Fresh(written, s) /\ denied' = Fresh(denied, s)
    /\ changed' = [changed EXCEPT ![s] = {}]
    /\ IF Allowed[s] = {} THEN UNCHANGED warnVars
       ELSE /\ saved' = [saved EXCEPT ![s] = sink]
            /\ sink' = s
            /\ heard' = [heard EXCEPT ![s] = {}]
            /\ beside' = IF Listening = {} THEN beside \ {s} ELSE beside \cup Listening \cup {s}
    /\ UNCHANGED <<asked, shadowed, tree, misnamed, manifests, refused>>

HearNothing(s) == heard  \* mutant: the warning stays on stderr

(* A warning is appended to whatever list the process installed last.         *)
Heard(s) == IF sink \in Sessions THEN [heard EXCEPT ![sink] = @ \cup {s}] ELSE heard

(* The SDK opens the session, and warns when it will not ask the guard.       *)
Open(s) ==
    /\ Transition(s, "listening", "open")
    /\ heard' = IF s \in shadowed THEN Heard(s) ELSE heard
    /\ UNCHANGED <<attempts, guardVars, asked, shadowed, sink, saved, beside, treeVars,
                   manifests>>

(* can_use_tool: ScopeGuard.decide for a write tool.                          *)
Ask(s, n) ==
    LET name == Relativise(n)
    IN  /\ at[s] = "open" /\ s \notin shadowed /\ asked[s] = NoPath
        /\ Cardinality(written[s]) + Cardinality(denied[s]) < MaxAsks
        /\ IF Permits(s, name)
           THEN /\ written' = [written EXCEPT ![s] = @ \cup {name}]
                /\ asked' = [asked EXCEPT ![s] = n]
                /\ UNCHANGED <<denied, refused>>
           ELSE /\ denied' = [denied EXCEPT ![s] = @ \cup {name}]
                /\ refused' = [refused EXCEPT ![s] = @ \cup {name}]
                /\ UNCHANGED <<written, asked>>
        /\ UNCHANGED <<at, attempts, shadowed, warnVars, treeVars, manifests>>

(* The file system follows the name, whatever name the guard judged.          *)
Changes(s, n) ==
    LET p == Denotes[n]
    IN  /\ tree' = [tree EXCEPT ![p] = s]
        /\ changed' = [changed EXCEPT ![s] = @ \cup {p}]
        /\ misnamed' = IF Relativise(n) = p THEN misnamed ELSE misnamed \cup {p}

(* The tool does what it was allowed to, or fails: an edit that matches nothing. *)
Write(s) ==
    /\ at[s] = "open" /\ asked[s] # NoPath
    /\ Changes(s, asked[s]) \/ UNCHANGED treeVars
    /\ asked' = [asked EXCEPT ![s] = NoPath]
    /\ UNCHANGED <<at, attempts, guardVars, shadowed, warnVars, manifests>>

WriteUnasked(s, p) ==
    /\ at[s] = "open" /\ s \in shadowed /\ Cardinality(changed[s]) < MaxAsks
    /\ Changes(s, p)
    /\ UNCHANGED <<at, attempts, guardVars, asked, shadowed, warnVars, manifests>>

-------------------------------------------------------------------------------
(* Leaving catch_warnings puts back what it found, whatever is there now.     *)
Unlisten(s) == sink' = saved[s] /\ UNCHANGED <<saved, heard, beside>>

(* The result arrived: _refuse_if_guard_was_shadowed.                         *)
Finish(s) ==
    /\ asked[s] = NoPath
    /\ Transition(s, "open", IF heard[s] # {} THEN "error" ELSE "collecting")
    /\ Unlisten(s)
    /\ UNCHANGED <<attempts, guardVars, asked, shadowed, treeVars, manifests>>

GiveUpBetweenWrites(s) ==  \* mutant: the time a permission takes is not counted
    /\ asked[s] = NoPath
    /\ Transition(s, "open", "error")
    /\ Unlisten(s)
    /\ UNCHANGED <<attempts, guardVars, asked, shadowed, treeVars, manifests>>

(* The time is up, or the SDK fails: a WorkerError.  A write that was allowed *)
(* may have been done.                                                        *)
GiveUp(s) ==
    /\ Transition(s, "open", "error")
    /\ (asked[s] # NoPath /\ Changes(s, asked[s])) \/ UNCHANGED treeVars
    /\ asked' = [asked EXCEPT ![s] = NoPath]
    /\ Unlisten(s)
    /\ UNCHANGED <<attempts, guardVars, shadowed, manifests>>

(* _declared: each output file is there, can be read, and fits its schema.    *)
Collect(s) ==
    /\ at[s] = "collecting"
    /\ IF \E p \in Outputs[s] : tree[p] = "absent"
       THEN at' = [at EXCEPT ![s] = "error"]
       ELSE \E to \in {"returned"} \cup (IF Outputs[s] = {} THEN {} ELSE {"error", "raised"}) :
                at' = [at EXCEPT ![s] = to]
    /\ UNCHANGED <<attempts, guardVars, asked, shadowed, warnVars, treeVars, manifests>>

Retries(s) == attempts[s] < MaxAttempts

(* The whole wave ran: _execute returns its outcomes, and each is recorded.   *)
(* An error re-enters while its node has attempts left.  An exception that is *)
(* no WorkerError goes through pool.map, and nothing is recorded.             *)
Record ==
    /\ \A s \in Sessions : at[s] \in {"returned", "error", "recorded"}
    /\ \E s \in Sessions : at[s] # "recorded"
    /\ at' = [s \in Sessions |->
                IF at[s] = "error" /\ Retries(s) THEN "queued" ELSE "recorded"]
    /\ manifests' = manifests \cup
          {[node |-> s, written |-> written[s], denied |-> denied[s]] :
              s \in {t \in Sessions : at[t] = "returned"}}
    /\ UNCHANGED <<attempts, guardVars, asked, shadowed, warnVars, treeVars>>

Init ==
    /\ at = [s \in Sessions |-> "queued"]
    /\ attempts = [s \in Sessions |-> 0]
    /\ written = [s \in Sessions |-> {}]
    /\ denied = [s \in Sessions |-> {}] /\ refused = [s \in Sessions |-> {}]
    /\ changed = [s \in Sessions |-> {}] /\ heard = [s \in Sessions |-> {}]
    /\ asked = [s \in Sessions |-> NoPath]
    /\ shadowed \in SUBSET Shadowing /\ beside = {} /\ misnamed = {} /\ manifests = {}
    /\ sink = "stderr" /\ saved = [s \in Sessions |-> "stderr"]
    /\ tree = [p \in Paths |-> IF p \in Present THEN "before" ELSE "absent"]

Step(s) ==
    \/ Begin(s)
    \/ Open(s)
    \/ \E n \in Names : Ask(s, n)
    \/ Write(s)
    \/ \E p \in Paths : WriteUnasked(s, p)
    \/ Finish(s)
    \/ GiveUp(s)
    \/ Collect(s)

Next == (\E s \in Sessions : Step(s)) \/ Record

(* A thread runs on, asyncio.wait_for ends a session that does not end itself.*)
Spec == Init /\ [][Next]_vars /\ WF_vars(Record)
          /\ \A s \in Sessions : WF_vars(Begin(s) \/ Open(s) \/ GiveUp(s) \/ Collect(s))

-------------------------------------------------------------------------------
(* Properties.                                                                *)

TypeOK ==
    /\ at \in [Sessions -> Places] /\ attempts \in [Sessions -> 0 .. MaxAttempts]
    /\ \A s \in Sessions : at[s] = "queued" => Retries(s)
    /\ written \in [Sessions -> SUBSET Names] /\ denied \in [Sessions -> SUBSET Names]
    /\ refused \in [Sessions -> SUBSET Names] /\ changed \in [Sessions -> SUBSET Paths]
    /\ asked \in [Sessions -> Names \cup {NoPath}]
    /\ shadowed \subseteq Shadowing /\ beside \subseteq Sessions /\ misnamed \subseteq Paths
    /\ sink \in Sessions \cup {"stderr"} /\ saved \in [Sessions -> Sessions \cup {"stderr"}]
    /\ heard \in [Sessions -> SUBSET Sessions]
    /\ tree \in [Paths -> Sessions \cup {"before", "absent"}]
    /\ manifests \subseteq [node : Sessions, written : SUBSET Names, denied : SUBSET Names]

(* The changeset of a session that went through its guard names everything it *)
(* changed, though other sessions run, fail and start over beside it.         *)
ManifestCoversChanges ==
    \A s \in Sessions \ shadowed :
        at[s] \in {"open", "collecting", "returned"} =>
            changed[s] \subseteq {Denotes[n] : n \in written[s]}

(* The files a session may write by their own names.                          *)
Scope(s) == (Allowed[s] \ Frozen[s]) \cap Paths

(* Module-scoped writes make parallel writes safe, of files that are named as *)
(* the guard names them: when no two scopes meet and no guard was skipped,    *)
(* what a session changed stays as it left it until the wave is recorded, and *)
(* no file outside the scopes is changed at all, unless some session wrote it *)
(* under a name judged for another file.  StaysInScope below is without that. *)
OwnWorkStands ==
    /\ shadowed = {}
    /\ \A s, t \in Sessions : s # t => Scope(s) \cap Scope(t) = {}
    => /\ \A s \in Sessions : \A p \in changed[s] \ misnamed : tree[p] = s
       /\ \A p \in Paths \ misnamed : tree[p] \in Sessions => p \in Scope(tree[p])

(* A session that was alone while it listened is trusted only if its guard    *)
(* decided its writes.                                                        *)
AloneIsGuarded ==
    \A s \in shadowed : at[s] \in {"collecting", "returned"} => s \in beside

(* Every wave is recorded, or the process dies of an exception.               *)
WaveEnds == <>(\/ \A s \in Sessions : at[s] = "recorded"
               \/ \E s \in Sessions : at[s] = "raised")

-------------------------------------------------------------------------------
(* Claims of the repository's text that the code does not keep.               *)

(* "refusing to trust this session": no session is trusted whose guard was    *)
(* skipped.                                                                   *)
TrustedIsGuarded == \A s \in shadowed : at[s] \notin {"collecting", "returned"}

(* "`impl:api` cannot write `impl:storage`'s directory because the runtime    *)
(* refuses": a file a guarded session changed is in its scope.                *)
StaysInScope ==
    shadowed = {} => \A p \in Paths : tree[p] \in Sessions => p \in Scope(tree[p])

(* "declares output ... which the session did not write": what a session      *)
(* declares, it wrote.                                                        *)
DeclaredIsWritten == \A s \in Sessions : at[s] = "returned" => Outputs[s] \subseteq changed[s]

(* "a denial is both refused and recorded": once the wave is recorded, every  *)
(* refusal is in a changeset.                                                 *)
DenialsReachTheRecord ==
    (\A s \in Sessions : at[s] = "recorded") =>
        \A s \in Sessions : \A p \in refused[s] :
            \E m \in manifests : m.node = s /\ p \in m.denied

(* "Every outcome of the wave is recorded": no work stays in the target       *)
(* without an attempt and a changeset behind it.                              *)
WorkIsRecorded ==
    (\A s \in Sessions : at[s] \in {"returned", "error", "raised"}) =>
        ~ \E s, t \in Sessions : at[s] = "raised" /\ at[t] = "returned" /\ changed[t] # {}
===============================================================================

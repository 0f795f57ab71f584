------------------------------ MODULE DriverHold ------------------------------
(* Who drives a run (cli/main.py: run, _advance, _holding, _held_by, stop).   *)
(*                                                                            *)
(* Drivers are processes that resume the run, or Starter, the `run` command   *)
(* that created it.  They share the database, with its one write lock, and    *)
(* the run's pid file.                                                        *)
(*                                                                            *)
(*   status    runs.status as committed                                       *)
(*   left      the waves of work the run has left                             *)
(*   writer    the process in a write transaction                             *)
(*   hold      the pid in held-by.pid                                         *)
(*   pc        where each driver is                                           *)
(*   seen      the status each driver's session holds; a session reads it     *)
(*             once, and commits do not expire it (state/store.py)            *)
(*   stopping  an operator's `stop` is between its kill and its commit        *)
(*   deaths    how many drivers died, up to MaxDeaths                         *)
(*   resumes   how many resumes were started, up to MaxResumes                *)
EXTENDS Naturals, FiniteSets

CONSTANTS Drivers, Starter, None, Found, MaxWaves, MaxDeaths, MaxResumes

Statuses == {"RUNNING", "BLOCKED", "STOPPED", "COMPLETED"}

ASSUME HoldAssumption ==
    /\ None \notin Drivers
    /\ Starter \in Drivers \cup {None}
    /\ Found \subseteq Statuses
    /\ {MaxWaves, MaxDeaths, MaxResumes} \subseteq Nat

VARIABLES status, left, writer, hold, pc, seen, stopping, deaths, resumes

vars == <<status, left, writer, hold, pc, seen, stopping, deaths, resumes>>

(* A driver goes from "none" through "flush", "check", "claim", "head",       *)
(* "loop", "wave" and "close".  One that died, or is not started, is no       *)
(* process at all: signal 0 does not reach it.                                *)
Alive(p) == p \in Drivers /\ pc[p] \notin {"none", "dead"}

Goto(p, step) == pc' = [pc EXCEPT ![p] = step]

(* A transaction of its own, and the end of one: SQLite has one writer.       *)
CanWrite(p) == writer \in {None, p}

(* `run` creates the run and advances it, with no hold taken.                 *)
Init ==
    /\ status \in IF Starter = None THEN Found ELSE {"RUNNING"}
    /\ left \in 0 .. MaxWaves
    /\ writer = None
    /\ hold = None
    /\ pc = [p \in Drivers |-> IF p = Starter THEN "head" ELSE "none"]
    /\ seen = [p \in Drivers |-> "RUNNING"]
    /\ stopping = FALSE
    /\ deaths = 0
    /\ resumes = 0

-------------------------------------------------------------------------------
(* _advance up to its claim: the status is read, a run that rests is set      *)
(* RUNNING (which takes the write lock until the head of advance commits),    *)
(* and only then is the pid file looked at.                                   *)
Start(p) ==
    /\ pc[p] = "none" /\ p # Starter
    /\ resumes < MaxResumes /\ resumes' = resumes + 1
    /\ seen' = [seen EXCEPT ![p] = status]
    /\ Goto(p, "flush")
    /\ UNCHANGED <<status, left, writer, hold, stopping, deaths>>

FlushLater(p) ==  \* mutant: the new status is not written before the check
    /\ pc[p] = "flush"
    /\ seen' = [seen EXCEPT ![p] = "RUNNING"]
    /\ Goto(p, "check")
    /\ UNCHANGED <<status, left, writer, hold, stopping, deaths, resumes>>

Flush(p) ==
    /\ pc[p] = "flush"
    /\ IF seen[p] = "RUNNING" THEN UNCHANGED writer
       ELSE writer = None /\ writer' = p
    /\ seen' = [seen EXCEPT ![p] = "RUNNING"]
    /\ Goto(p, "check")
    /\ UNCHANGED <<status, left, hold, stopping, deaths, resumes>>

HeldByAnyPid == hold  \* mutant: nobody asks whether the process is there

(* _held_by: the pid of the file, if it is there and the process is.          *)
HeldBy == IF Alive(hold) THEN hold ELSE None

Check(p) ==
    /\ pc[p] = "check" /\ HeldBy = None
    /\ Goto(p, "claim")
    /\ UNCHANGED <<status, left, writer, hold, seen, stopping, deaths, resumes>>

RefuseHolding(p) ==  \* mutant: the transaction is not rolled back
    /\ pc[p] = "check" /\ HeldBy # None
    /\ Goto(p, "none")
    /\ UNCHANGED <<status, left, writer, hold, seen, stopping, deaths, resumes>>

(* The exit rolls the transaction back.                                       *)
Refuse(p) ==
    /\ pc[p] = "check" /\ HeldBy # None
    /\ Goto(p, "none")
    /\ writer' = IF writer = p THEN None ELSE writer
    /\ UNCHANGED <<status, left, hold, seen, stopping, deaths, resumes>>

Claim(p) ==
    /\ pc[p] = "claim"
    /\ hold' = p
    /\ Goto(p, "head")
    /\ UNCHANGED <<status, left, writer, seen, stopping, deaths, resumes>>

(* The head of advance commits.                                               *)
Head(p) ==
    /\ pc[p] = "head" /\ CanWrite(p)
    /\ status' = IF writer = p THEN seen[p] ELSE status
    /\ writer' = None
    /\ Goto(p, "loop")
    /\ UNCHANGED <<left, hold, seen, stopping, deaths, resumes>>

-------------------------------------------------------------------------------
Dispatch(p) ==
    /\ pc[p] = "loop" /\ CanWrite(p)
    /\ seen[p] = "RUNNING" /\ left > 0
    /\ Goto(p, "wave")
    /\ UNCHANGED <<status, left, writer, hold, seen, stopping, deaths, resumes>>

(* The wave is committed, and may have blocked the run.                       *)
Record(p) ==
    /\ pc[p] = "wave" /\ CanWrite(p)
    /\ left' = IF left = 0 THEN 0 ELSE left - 1
    /\ \/ UNCHANGED <<status, seen>>
       \/ status' = "BLOCKED" /\ seen' = [seen EXCEPT ![p] = "BLOCKED"]
    /\ Goto(p, "loop")
    /\ UNCHANGED <<writer, hold, stopping, deaths, resumes>>

(* _settle writes the status of a run that has nothing left; the pid file,    *)
(* whoever wrote it, is removed before the session commits.                   *)
Settle(p) ==
    /\ pc[p] = "loop" /\ CanWrite(p)
    /\ seen[p] # "RUNNING" \/ left = 0
    /\ writer' = IF seen[p] = "RUNNING" THEN p ELSE writer
    /\ seen' = [seen EXCEPT ![p] = IF @ = "RUNNING" THEN "COMPLETED" ELSE @]
    /\ hold' = IF p = Starter THEN hold ELSE None
    /\ Goto(p, "close")
    /\ UNCHANGED <<status, left, stopping, deaths, resumes>>

Close(p) ==
    /\ pc[p] = "close"
    /\ status' = IF writer = p THEN seen[p] ELSE status
    /\ writer' = IF writer = p THEN None ELSE writer
    /\ Goto(p, IF p = Starter THEN "dead" ELSE "none")
    /\ UNCHANGED <<left, hold, seen, stopping, deaths, resumes>>

-------------------------------------------------------------------------------
(* A driver is killed: its transaction is gone, its pid file stays.           *)
Die(p) ==
    /\ Alive(p) /\ deaths < MaxDeaths
    /\ Goto(p, "dead")
    /\ writer' = IF writer = p THEN None ELSE writer
    /\ deaths' = deaths + 1
    /\ UNCHANGED <<status, left, hold, seen, stopping, resumes>>

(* stop --force kills the holder and removes the file, then the run is marked *)
(* STOPPED; without --force, or with nobody holding, it is marked right away. *)
Kill ==
    /\ ~stopping /\ HeldBy # None /\ deaths < MaxDeaths
    /\ Goto(HeldBy, "dead")
    /\ writer' = IF writer = HeldBy THEN None ELSE writer
    /\ hold' = None
    /\ stopping' = TRUE
    /\ deaths' = deaths + 1
    /\ UNCHANGED <<status, left, seen, resumes>>

Stop ==
    /\ writer = None
    /\ status' = "STOPPED"
    /\ stopping' = FALSE
    /\ UNCHANGED <<left, writer, hold, pc, seen, deaths, resumes>>

-------------------------------------------------------------------------------
Driver(p) ==
    \/ Flush(p) \/ Check(p) \/ Refuse(p) \/ Claim(p) \/ Head(p)
    \/ Dispatch(p) \/ Record(p) \/ Settle(p) \/ Close(p)

Next ==
    \/ \E p \in Drivers : Driver(p) \/ Start(p) \/ Die(p)
    \/ Kill
    \/ Stop

(* A live process runs; nobody has to resume or stop the run.                 *)
Spec == Init /\ [][Next]_vars /\ \A p \in Drivers : WF_vars(Driver(p))

-------------------------------------------------------------------------------
(* "Claim a run for this process": the work of a run is never dispatched by   *)
(* two processes at once, which would do it twice in one target.              *)
OneDriver == \A p, q \in Drivers : pc[p] = "wave" /\ pc[q] = "wave" => p = q

(* A resume is refused only while another process really drives the run: a    *)
(* pid file left behind by a death, a kill or an exit locks nobody out.       *)
RefusedWhileDriven ==
    [][\A p \in Drivers : Refuse(p) =>
          \E q \in Drivers \ {p} : pc[q] \in {"head", "loop", "wave"}]_vars

(* A driver that was started comes to an end, whatever the others do: nobody  *)
(* waits for ever on the lock or on the pid file.                             *)
DriverEnds == \A p \in Drivers : Alive(p) ~> ~Alive(p)

(* "The run is marked stopped, so nothing further starts".                    *)
NothingStartsAfterStop ==
    [][status = "STOPPED" => \A p \in Drivers : pc[p] # "wave" => pc'[p] # "wave"]_vars
===============================================================================

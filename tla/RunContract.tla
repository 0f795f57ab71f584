------------------------------ MODULE RunContract ------------------------------
(* What a run promises of the nodes its author wrote, whatever becomes of     *)
(* attempts, policies, waves, rows and processes: when a node may start, who  *)
(* may finish, undo or waive it, and what a question holds up.                *)
(*                                                                            *)
(*   driven     a process drives the run; people give commands when none does *)
(*   stage[w]   open (still to be done), running, asked (a person is waited   *)
(*              for), done, or skipped (waived, or not needed so far)         *)
(*   questions  the checkpoints with an open question                         *)
CONSTANTS Work,         \* all that may run, what is inserted at runtime too
          Plan,         \* what the author wrote
          Checkpoints,
          Optional,
          Needs,        \* what a node waits for
          After,        \* what waits for a node, directly or not
          Raises,       \* the optional work a node may bring in when it is done
          Rederives     \* the nodes a new result of which undoes what is after

VARIABLES driven, stage, questions

vars == <<driven, stage, questions>>

Running    == {w \in Plan : stage[w] = "running"}
Settled(w) == stage[w] \in {"done", "skipped"}

Moved(st, S, from, to) == [w \in Plan |-> IF w \in S /\ st[w] \in from THEN to ELSE st[w]]

Init ==
    /\ driven = TRUE
    /\ stage = [w \in Plan |-> IF w \in Optional THEN "skipped" ELSE "open"]
    /\ questions = {}

-------------------------------------------------------------------------------
(* The process that drives.                                                   *)
Driving == driven /\ driven' = TRUE

(* It takes the run over, and asks again what was approved of old versions.   *)
TakeOver(R) ==
    /\ ~driven /\ driven' = TRUE
    /\ stage' = Moved(stage, R, {"done"}, "open")
    /\ questions' = questions \cup R

(* Nothing starts before all it needs is settled, or beside older work.       *)
Start(S) ==
    /\ Driving /\ Running = {}
    /\ \A w \in S : stage[w] = "open" /\ \A d \in Needs[w] : Settled(d)
    /\ stage' = Moved(stage, S, {"open"}, "running")
    /\ UNCHANGED questions

(* A checkpoint is put to a person: no process decides it.                    *)
Put(h) ==
    /\ Driving /\ h \in Checkpoints /\ stage[h] = "running"
    /\ stage' = [stage EXCEPT ![h] = "asked"]
    /\ questions' = questions \cup {h}

(* Only what runs has a result.  It may bring in optional work, all of it or  *)
(* none, and undo what is done.                                               *)
Result(w, to, raised, undone) ==
    /\ Driving /\ w \notin Checkpoints /\ (w \in Plan => stage[w] = "running")
    /\ stage' = Moved(Moved(Moved(stage, undone, {"done"}, "open"), {w}, {"running"}, to),
                      raised, {"skipped"}, "open")

Judged(w, undone) ==
    \/ Result(w, "open", {}, undone)
    \/ \E raised \in {{}, Raises[w]} : Result(w, "done", raised, undone)

Record(w)   == Judged(w, {}) /\ UNCHANGED questions
Rederive(w) == \E R \in SUBSET Checkpoints :
                  w \in Rederives /\ Judged(w, After[w] \cup R) /\ questions' = questions \cup R

(* The process ends, in whatever way: what ran is still to be done, and what  *)
(* is done stays done.                                                        *)
Leave ==
    /\ driven /\ driven' = FALSE
    /\ stage' = Moved(stage, Plan, {"running"}, "open")
    /\ UNCHANGED questions

-------------------------------------------------------------------------------
(* The person at the console.                                                 *)
Commanding == ~driven /\ driven' = FALSE

(* A question is answered once; of two, one is left.                          *)
Decide(h) ==
    /\ Commanding /\ h \in questions
    /\ \E to \in {"done", "open"} : stage' = [stage EXCEPT ![h] = to]
    /\ questions' \in {questions, questions \ {h}}

Waive(w) ==
    /\ Commanding /\ w \in Plan \ Checkpoints /\ stage[w] = "open"
    /\ stage' = [stage EXCEPT ![w] = "skipped"]
    /\ UNCHANGED questions

(* Nothing built on a result outlives it, nor a question about it.            *)
Withdraw(n) ==
    /\ Commanding /\ n \in Plan
    /\ stage' = [Moved(stage, After[n], {"done", "asked"}, "open") EXCEPT ![n] = "open"]
    /\ questions' \subseteq questions \ {h \in After[n] : stage[h] \in {"done", "asked"}}
    /\ questions \ After[n] \subseteq questions'

(* What did not pass is judged again, without its work.                       *)
Rejudge(w) ==
    /\ Commanding /\ w \notin Checkpoints /\ (w \in Plan => stage[w] = "open")
    /\ \E raised \in {{}, Raises[w]} :
          stage' = Moved(Moved(stage, {w}, {"open"}, "done"), raised, {"skipped"}, "open")
    /\ UNCHANGED questions

Next ==
    \/ \E R \in SUBSET Checkpoints : TakeOver(R)
    \/ \E S \in SUBSET Plan : Start(S)
    \/ \E h \in Plan : Put(h) \/ Decide(h)
    \/ \E w \in Work : Record(w) \/ Rederive(w) \/ Rejudge(w)
    \/ Leave
    \/ \E w \in Plan : Waive(w) \/ Withdraw(w)

Spec == Init /\ [][Next]_vars
===============================================================================

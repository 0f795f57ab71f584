------------------------------ MODULE HoldProofs -------------------------------
(* What the pid file and the write lock guarantee: whom a resume is refused   *)
(* for, however many processes there are, and that two resumes of a run at    *)
(* rest never drive it together.                                              *)
EXTENDS DriverHold, TLAPS

Steps == {"none", "flush", "check", "claim", "head", "loop", "wave", "close", "dead"}

HoldTypes ==
    /\ status \in Statuses
    /\ hold \in Drivers \cup {None}
    /\ writer \in Drivers \cup {None}
    /\ pc \in [Drivers -> Steps]
    /\ seen \in [Drivers -> Statuses]
    /\ resumes \in Nat

LEMMA InitTypes == ASSUME HoldAssumption, Init PROVE HoldTypes
BY DEF HoldAssumption, Init, HoldTypes, Steps, Statuses

(* The steps of the drivers, and what each does to its driver alone.          *)
LEMMA TypesStep == ASSUME HoldAssumption, HoldTypes, [Next]_vars PROVE HoldTypes'
<1>1. ASSUME NEW p \in Drivers, Start(p) \/ Die(p) PROVE HoldTypes'
  BY <1>1 DEF HoldTypes, Start, Die, Goto, Steps
<1>2. ASSUME NEW p \in Drivers, Flush(p) \/ Check(p) \/ Refuse(p) \/ Claim(p) \/ Head(p)
      PROVE  HoldTypes'
  BY <1>2 DEF HoldTypes, Flush, Check, Refuse, Claim, Head, Goto, Steps, Statuses
<1>3. ASSUME NEW p \in Drivers, Dispatch(p) \/ Record(p) \/ Settle(p) \/ Close(p)
      PROVE  HoldTypes'
  BY <1>3 DEF HoldTypes, Dispatch, Record, Settle, Close, Goto, Steps, Statuses
<1>4. CASE Kill \/ Stop
  BY <1>4 DEF HoldTypes, Kill, Stop, HeldBy, Goto, Steps, Statuses
<1>5. CASE UNCHANGED vars
  BY <1>5 DEF vars, HoldTypes
<1> QED
  BY <1>1, <1>2, <1>3, <1>4, <1>5 DEF Next, Driver

-------------------------------------------------------------------------------
(* The pid file names nobody, or a resume that claimed the run and drives it, *)
(* or one that died.  The creator of the run never claims.                    *)
HoldNamesDriver ==
    /\ hold \in Drivers => hold # Starter /\ pc[hold] \in {"head", "loop", "wave", "dead"}
    /\ Starter \in Drivers => pc[Starter] \in {"head", "loop", "wave", "close", "dead"}

LEMMA InitNames == ASSUME HoldAssumption, Init PROVE HoldNamesDriver
BY DEF HoldAssumption, Init, HoldNamesDriver

LEMMA NamesStep ==
    ASSUME HoldAssumption, HoldTypes, HoldNamesDriver, [Next]_vars PROVE HoldNamesDriver'
<1>1. ASSUME NEW p \in Drivers, Start(p) \/ Die(p) PROVE HoldNamesDriver'
  BY <1>1 DEF HoldTypes, HoldNamesDriver, Start, Die, Goto
<1>2. ASSUME NEW p \in Drivers, Flush(p) \/ Check(p) \/ Refuse(p) \/ Claim(p) \/ Head(p)
      PROVE  HoldNamesDriver'
  BY <1>2 DEF HoldTypes, HoldNamesDriver, Flush, Check, Refuse, Claim, Head, Goto
<1>3. ASSUME NEW p \in Drivers, Dispatch(p) \/ Record(p) \/ Settle(p) \/ Close(p)
      PROVE  HoldNamesDriver'
  BY <1>3 DEF HoldAssumption, HoldTypes, HoldNamesDriver, Dispatch, Record, Settle, Close, Goto
<1>4. CASE Kill
  BY <1>4 DEF HoldAssumption, HoldTypes, HoldNamesDriver, Kill, HeldBy, Goto
<1>5. CASE Stop \/ UNCHANGED vars
  BY <1>5 DEF vars, Stop, HoldNamesDriver
<1> QED
  BY <1>1, <1>2, <1>3, <1>4, <1>5 DEF Next, Driver

(* A resume is refused only while another process really drives the run, for  *)
(* any number of processes, resumes and deaths, and beside `run` itself.      *)
THEOREM RefusedWhileDrivenHolds == Spec => RefusedWhileDriven
<1> DEFINE Inv == HoldTypes /\ HoldNamesDriver
<1>1. Init => Inv
  BY HoldAssumption, InitTypes, InitNames
<1>2. Inv /\ [Next]_vars => Inv'
  BY HoldAssumption, TypesStep, NamesStep
<1>3. ASSUME Inv, NEW p \in Drivers, Refuse(p)
      PROVE  \E q \in Drivers \ {p} : pc[q] \in {"head", "loop", "wave"}
  <2>1. Alive(hold) /\ pc[p] = "check"
    BY <1>3 DEF Refuse, HeldBy
  <2>2. hold \in Drivers \ {p} /\ pc[hold] \in {"head", "loop", "wave"}
    BY <1>3, <2>1 DEF Alive, HoldNamesDriver
  <2> QED
    BY <2>2
<1>4. Inv => [\A p \in Drivers : Refuse(p) =>
                 \E q \in Drivers \ {p} : pc[q] \in {"head", "loop", "wave"}]_vars
  BY <1>3
<1> HIDE DEF Inv
<1> QED
  BY <1>1, <1>2, <1>4, PTL DEF Spec, RefusedWhileDriven

-------------------------------------------------------------------------------
(* Two resumes of a run at rest.  The check of the pid file and its writing   *)
(* are two steps; what separates them is the write lock, which a resume takes *)
(* when it finds the run at rest and keeps until the head of advance.  A      *)
(* resume that finds the run RUNNING takes no lock: it must be the last, with *)
(* every other one past its head or gone.                                     *)
Entering == {"flush", "check", "claim", "head"}
Holding  == {"head", "loop", "wave"}
Past     == Holding \cup {"claim"}

Last(p) == resumes = 2 /\ \A q \in Drivers \ {p} : pc[q] \notin Entering

OnePast == \A p, q \in Drivers : pc[p] \in Past /\ pc[q] \in Past => p = q

HeldWhileDriven == \A p \in Drivers : pc[p] \in Holding => hold = p

LockedOrLast ==
    \A p \in Drivers :
        /\ pc[p] = "flush" /\ seen[p] = "RUNNING" => Last(p)
        /\ pc[p] \in {"check", "claim"} /\ writer # p => Last(p)

(* Before the second resume: who was started is alone, and a run that is      *)
(* RUNNING is past its head.                                                  *)
FirstAlone ==
    /\ resumes <= 2
    /\ resumes = 0 => status # "RUNNING" /\ \A p \in Drivers : pc[p] = "none"
    /\ resumes = 1 => \A p, q \in Drivers : pc[p] # "none" /\ pc[q] # "none" => p = q
    /\ resumes = 1 /\ status = "RUNNING" => \A p \in Drivers : pc[p] \notin Entering
    /\ \A p \in Drivers : pc[p] = "close" => seen[p] # "RUNNING"

DriverInv == OnePast /\ HeldWhileDriven /\ LockedOrLast /\ FirstAlone

(* A run at rest that nobody started here, resumed twice at most: a third     *)
(* resume may find the RUNNING that the first left in the database.           *)
TwoResumes == Starter = None /\ "RUNNING" \notin Found /\ MaxResumes <= 2

LEMMA InitDriver == ASSUME HoldAssumption, TwoResumes, Init PROVE DriverInv
BY DEF HoldAssumption, TwoResumes, Init, DriverInv, OnePast, HeldWhileDriven, LockedOrLast,
       FirstAlone, Past, Holding

(* No two are past the check: of two that passed it one would hold the lock   *)
(* the other took, or be the last.                                            *)
LEMMA OnePastStep ==
    ASSUME HoldAssumption, TwoResumes, HoldTypes, DriverInv, [Next]_vars PROVE OnePast'
<1> USE DEF HoldTypes, DriverInv, OnePast, Goto, Past, Holding
<1>1. ASSUME NEW p \in Drivers, Check(p) PROVE OnePast'
  BY <1>1 DEF Check, HeldBy, Alive, HeldWhileDriven, LockedOrLast, Last, Entering
<1>2. ASSUME NEW p \in Drivers, Start(p) \/ Flush(p) \/ Refuse(p) \/ Claim(p) \/ Head(p)
      PROVE  OnePast'
  BY <1>2 DEF Start, Flush, Refuse, Claim, Head
<1>3. ASSUME NEW p \in Drivers, Dispatch(p) \/ Record(p) \/ Settle(p) \/ Close(p) \/ Die(p)
      PROVE  OnePast'
  BY <1>3 DEF Dispatch, Record, Settle, Close, Die
<1>4. CASE Kill
  BY <1>4 DEF Kill, HeldBy, Alive
<1>5. CASE Stop \/ UNCHANGED vars
  BY <1>5 DEF Stop, vars
<1> QED
  BY <1>1, <1>2, <1>3, <1>4, <1>5 DEF Next, Driver

LEMMA HeldStep ==
    ASSUME HoldAssumption, TwoResumes, HoldTypes, DriverInv, [Next]_vars PROVE HeldWhileDriven'
<1> USE DEF HoldAssumption, HoldTypes, DriverInv, HeldWhileDriven, Goto, Holding
<1>1. ASSUME NEW p \in Drivers, Start(p) \/ Flush(p) \/ Check(p) \/ Refuse(p) \/ Head(p)
      PROVE  HeldWhileDriven'
  BY <1>1 DEF Start, Flush, Check, Refuse, Head
<1>2. ASSUME NEW p \in Drivers, Claim(p) \/ Settle(p) PROVE HeldWhileDriven'
  BY <1>2 DEF Claim, Settle, OnePast, Past
<1>3. ASSUME NEW p \in Drivers, Dispatch(p) \/ Record(p) \/ Close(p) \/ Die(p)
      PROVE  HeldWhileDriven'
  BY <1>3 DEF Dispatch, Record, Close, Die
<1>4. CASE Kill
  BY <1>4 DEF Kill, HeldBy, Alive
<1>5. CASE Stop \/ UNCHANGED vars
  BY <1>5 DEF Stop, vars
<1> QED
  BY <1>1, <1>2, <1>3, <1>4, <1>5 DEF Next, Driver

LEMMA LockedStep ==
    ASSUME HoldAssumption, TwoResumes, HoldTypes, DriverInv, [Next]_vars PROVE LockedOrLast'
<1> USE DEF HoldAssumption, HoldTypes, DriverInv, LockedOrLast, Last, Goto, Entering
<1>1. ASSUME NEW p \in Drivers, Start(p) PROVE LockedOrLast'
  BY <1>1 DEF Start, FirstAlone, TwoResumes
<1>2. ASSUME NEW p \in Drivers, Flush(p) \/ Check(p) \/ Refuse(p) \/ Claim(p) \/ Head(p)
      PROVE  LockedOrLast'
  BY <1>2 DEF Flush, Check, Refuse, Claim, Head, CanWrite
<1>3. ASSUME NEW p \in Drivers, Dispatch(p) \/ Record(p) \/ Settle(p) \/ Close(p) \/ Die(p)
      PROVE  LockedOrLast'
  BY <1>3 DEF Dispatch, Record, Settle, Close, Die, CanWrite
<1>4. CASE Kill
  BY <1>4 DEF Kill, HeldBy, Alive
<1>5. CASE Stop \/ UNCHANGED vars
  BY <1>5 DEF Stop, vars
<1> QED
  BY <1>1, <1>2, <1>3, <1>4, <1>5 DEF Next, Driver

LEMMA FirstStep ==
    ASSUME HoldAssumption, TwoResumes, HoldTypes, DriverInv, [Next]_vars PROVE FirstAlone'
<1> USE DEF HoldAssumption, HoldTypes, DriverInv, FirstAlone, Goto, Entering
<1>1. ASSUME NEW p \in Drivers, Start(p) PROVE FirstAlone'
  BY <1>1 DEF Start, TwoResumes
<1>2. ASSUME NEW p \in Drivers, Flush(p) \/ Check(p) \/ Refuse(p) \/ Claim(p) \/ Head(p)
      PROVE  FirstAlone'
  BY <1>2 DEF Flush, Check, Refuse, Claim, Head
<1>3. ASSUME NEW p \in Drivers, Dispatch(p) \/ Record(p) \/ Settle(p) \/ Close(p) \/ Die(p)
      PROVE  FirstAlone'
  BY <1>3 DEF Dispatch, Record, Settle, Close, Die, Alive
<1>4. CASE Kill
  BY <1>4 DEF Kill, HeldBy, Alive
<1>5. CASE Stop \/ UNCHANGED vars
  BY <1>5 DEF Stop, vars
<1> QED
  BY <1>1, <1>2, <1>3, <1>4, <1>5 DEF Next, Driver

(* Of the processes that resume a run at rest, however many there are to do   *)
(* it and whoever dies or is killed, at most one dispatches its work, through *)
(* the first two resumes of the run.                                          *)
THEOREM OneDriverHolds == ASSUME TwoResumes PROVE Spec => []OneDriver
<1> DEFINE Inv == HoldTypes /\ DriverInv
<1>1. Init => Inv
  BY HoldAssumption, InitTypes, InitDriver
<1>2. Inv /\ [Next]_vars => Inv'
  BY HoldAssumption, TypesStep, OnePastStep, HeldStep, LockedStep, FirstStep DEF DriverInv
<1>3. Inv => OneDriver
  BY DEF DriverInv, OnePast, Past, Holding, OneDriver
<1> HIDE DEF Inv
<1> QED
  BY <1>1, <1>2, <1>3, PTL DEF Spec
===============================================================================

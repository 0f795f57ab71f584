------------------------------- MODULE Shortener -------------------------------
(* The URL shortener the orchestrator builds (target/shortener): the routes   *)
(* of main, each on a thread of the server, over the links table and the      *)
(* click recorder.  Every request is one thread; a click is named by the      *)
(* redirect that made it.  The server lets the requests it has begun finish   *)
(* before it stops the lifespan.                                              *)
(*                                                                            *)
(*   kind[r]   the route of request r                                         *)
(*   phase[r]  where request r is                                             *)
(*   code[r]   the code it names, or was given                                *)
(*   tries[r]  the codes it has minted                                        *)
(*   reply[r]  the status it was answered with                                *)
(*   answer[r] the clicks each SELECT of an analytics answer found            *)
(*   owner[k]  the creation whose row code k holds, from before, or none      *)
(*   deleted   the rows with a deleted_at                                     *)
(*   expired   the rows whose expires_at has passed                           *)
(* and history:                                                               *)
(*   late      the redirects begun after their link was gone for all to know  *)
EXTENDS ClickRecorder, ClickSummary

CONSTANTS Requests, Codes, NoOne, Before,
          Loads,         \* the routes the requests may take together
          MintAttempts,  \* _MINT_ATTEMPTS
          Columns,       \* the columns an analytics answer breaks down by
          Window         \* the window it asks about

ASSUME ShortenerAssumption ==
    /\ Loads \subseteq [Requests -> {"create", "redirect", "delete", "read", "analytics"}]
    /\ Clicks \subseteq Requests
    /\ \A load \in Loads : {r \in Requests : load[r] = "redirect"} \subseteq Clicks
    /\ NoOne \notin Requests /\ Before \notin Requests /\ NoOne # Before
    /\ NoOne \notin Codes
    /\ MintAttempts \in Nat \ {0}
    /\ AtOf \in [Clicks -> Int]
    /\ Window \in [start : Int, end : Int, width : Nat \ {0}] /\ Served(Window)
    /\ Columns \in Seq(DOMAIN ValueOf)
    /\ Limit \in Nat \ {0}

VARIABLES kind, phase, code, tries, reply, answer, owner, deleted, expired, late

linkVars    == <<owner, deleted, expired>>
requestVars == <<kind, phase, code, tries, reply, answer>>
vars        == <<recorderVars, linkVars, requestVars, late>>

Phases == {"idle", "minting", "fetching", "acting", "done"}

InFlight == {r \in Requests : phase[r] \in {"minting", "fetching", "acting"}}

Routed(route) == {r \in Requests : kind[r] = route}

Answer(r, status) ==
    /\ phase' = [phase EXCEPT ![r] = "done"]
    /\ reply' = [reply EXCEPT ![r] = status]

Enter(r, to) == phase' = [phase EXCEPT ![r] = to] /\ UNCHANGED reply

(* The codes whose retirement was answered, and those that have run out.      *)
Gone == {code[q] : q \in {q \in Routed("delete") : reply[q] = "204"}} \cup expired

-------------------------------------------------------------------------------
(* A request of a code, or of a new one.  One that is refused for its budget, *)
(* its URL or its window (429, 400) changes nothing and is not begun.         *)
Begin(r, k) ==
    /\ life = "serving" /\ phase[r] = "idle"
    /\ IF kind[r] = "create"
       THEN Enter(r, "minting") /\ k = NoOne
       ELSE Enter(r, "fetching") /\ k # NoOne
    /\ code' = [code EXCEPT ![r] = k]
    /\ late' = IF kind[r] = "redirect" /\ k \in Gone THEN late \cup {r} ELSE late
    /\ UNCHANGED <<recorderVars, linkVars, kind, tries, answer>>

InsertAnyway(r, k) ==  \* mutant: the code is not the primary key
    owner' = [owner EXCEPT ![k] = r] /\ Answer(r, "201")

(* insert_link: the primary key rejects a code that was ever issued.          *)
Insert(r, k) ==
    IF owner[k] = NoOne
    THEN owner' = [owner EXCEPT ![k] = r] /\ Answer(r, "201")
    ELSE /\ IF tries[r] + 1 = MintAttempts THEN Answer(r, "5xx") ELSE Enter(r, "minting")
         /\ UNCHANGED owner

(* One round of the loop of create_link.                                      *)
Mint(r, k) ==
    /\ phase[r] = "minting"
    /\ Insert(r, k)
    /\ tries' = [tries EXCEPT ![r] = @ + 1]
    /\ code' = [code EXCEPT ![r] = k]
    /\ UNCHANGED <<recorderVars, deleted, expired, kind, answer, late>>

(* The row fetch_link returns, deleted and expired ones included.             *)
Issued(k) == owner[k] # NoOne

(* What the caller of fetch_link refuses: a code that was never issued,       *)
(* and for a redirect one that is deleted or expired.                         *)
Fetch(r) ==
    /\ phase[r] = "fetching"
    /\ CASE ~Issued(code[r]) -> Answer(r, "404")
         [] Issued(code[r]) /\ kind[r] = "redirect" /\ code[r] \in deleted \cup expired ->
              Answer(r, "410")
         [] OTHER -> Enter(r, "acting")
    /\ UNCHANGED <<recorderVars, linkVars, kind, code, tries, answer, late>>

(* The redirect: whatever becomes of its click, it is answered with 301.      *)
Redirect(r) ==
    /\ phase[r] = "acting" /\ kind[r] = "redirect"
    /\ RecordClick(r)
    /\ Answer(r, "301")
    /\ UNCHANGED <<linkVars, kind, code, tries, answer, late>>

MarkUncommitted(k) == UNCHANGED deleted  \* mutant: the transaction is not committed

MarkDeleted(k) == deleted' = deleted \cup {k}

Delete(r) ==
    /\ phase[r] = "acting" /\ kind[r] = "delete"
    /\ MarkDeleted(code[r])
    /\ Answer(r, "204")
    /\ UNCHANGED <<recorderVars, owner, expired, kind, code, tries, answer, late>>

ClicksOf(k) == {c \in Stored : code[c] = k}

(* total_clicks: one SELECT.                                                  *)
ReadLink(r) ==
    /\ phase[r] = "acting" /\ kind[r] = "read"
    /\ answer' = [answer EXCEPT ![r] = <<ClicksOf(code[r])>>]
    /\ Answer(r, "200")
    /\ UNCHANGED <<recorderVars, linkVars, kind, code, tries, late>>

(* summarize_clicks: a SELECT for the series and one for each breakdown; no   *)
(* SELECT begins a transaction of the datastore.                              *)
Select(r) ==
    /\ phase[r] = "acting" /\ kind[r] = "analytics"
    /\ answer' = [answer EXCEPT ![r] = Append(@, InWindow(ClicksOf(code[r]), Window))]
    /\ IF Len(answer[r]) = Len(Columns) THEN Answer(r, "200") ELSE Enter(r, "acting")
    /\ UNCHANGED <<recorderVars, linkVars, kind, code, tries, late>>

(* A datastore operation fails: StorageError.  Recording a click is none.     *)
StorageFails(r) ==
    /\ r \in InFlight
    /\ ~ (phase[r] = "acting" /\ kind[r] = "redirect")
    /\ Answer(r, "5xx")
    /\ UNCHANGED <<recorderVars, linkVars, kind, code, tries, answer, late>>

(* expires_at of a row passes.                                                *)
Expire(k) ==
    /\ Issued(k) /\ k \notin expired
    /\ expired' = expired \cup {k}
    /\ UNCHANGED <<recorderVars, owner, deleted, requestVars, late>>

-------------------------------------------------------------------------------
untouched == <<linkVars, requestVars, late>>

Start(d) == StartRecorder(d) /\ UNCHANGED untouched

Shutdown == InFlight = {} /\ StopRecorder /\ UNCHANGED untouched

Recorder ==
    \/ \E d \in Drains : DrainStep(d)
    \/ PutSentinel
    \/ Joined

(* The requests of a dead process are never answered; a new process may start *)
(* on the same datastore.                                                     *)
ProcessDies ==
    /\ ProcessEnds
    /\ phase' = [r \in Requests |-> IF r \in InFlight THEN "done" ELSE phase[r]]
    /\ reply' = [r \in Requests |-> IF r \in InFlight THEN "5xx" ELSE reply[r]]
    /\ UNCHANGED <<linkVars, kind, code, tries, answer, late>>

Init ==
    /\ RecorderInit
    /\ owner \in [Codes -> {NoOne, Before}]
    /\ deleted = {} /\ expired = {}
    /\ kind \in Loads
    /\ phase = [r \in Requests |-> "idle"] /\ code = [r \in Requests |-> NoOne]
    /\ tries = [r \in Requests |-> 0] /\ reply = [r \in Requests |-> "none"]
    /\ answer = [r \in Requests |-> <<>>]
    /\ late = {}

Handle(r) ==
    \/ \E k \in Codes : Mint(r, k)
    \/ Fetch(r)
    \/ Redirect(r)
    \/ Delete(r)
    \/ ReadLink(r)
    \/ Select(r)
    \/ StorageFails(r)

Next ==
    \/ \E r \in Requests : (\E k \in Codes \cup {NoOne} : Begin(r, k)) \/ Handle(r)
    \/ \E k \in Codes : Expire(k)
    \/ \E d \in Drains : Start(d)
    \/ Shutdown
    \/ Recorder /\ UNCHANGED untouched
    \/ ProcessDies

(* Only the threads of the recorder must run on.                              *)
Spec == Init /\ [][Next]_vars /\ RecorderFairness

-------------------------------------------------------------------------------
(* Properties.                                                                *)

(* An answered redirect is a click with one fate: kept in one row, refused by *)
(* the full queue, refused by the datastore, or gone with the process, over   *)
(* any overlap of the drains of two lifespans.                                *)
RecordsEachClickOnce == Log!Spec

(* A clean stop leaves no click behind: once a lifespan is down, with its     *)
(* thread joined in time, nothing waits in the queue or in a batch.           *)
StopDrains == life = "down" /\ ~overdue => Waiting = {}

(* stop_recorder puts its sentinel without a timeout, and yet it returns: a   *)
(* full queue has a drain.                                                    *)
StopReturns == life = "putting" ~> life # "putting"

(* Every accepted click is settled, late joins or not.                        *)
ClicksSettle == Log!Settles

(* A redirect begun once the link was retired for all to know, or had         *)
(* expired, is refused; the recorder has no part in it.                       *)
GoneStaysGone == \A r \in late : reply[r] # "301"

(* A code names one link for ever: retired, expired or restarted over, it is  *)
(* never issued again.                                                        *)
OneLinkPerCode == [][\A k \in Codes : owner[k] # NoOne => owner'[k] = owner[k]]_vars

(* An analytics answer accounts for every click its SELECT found, in no more  *)
(* rows than the limit and one.                                               *)
AnswersAccount ==
    \A r \in Routed("analytics") : reply[r] = "200" =>
        /\ Total(Series(answer[r][1], Window)) = Cardinality(answer[r][1])
        /\ \A i \in 1 .. Len(Columns) :
              LET rowsOf == Breakdown(answer[r][i + 1], Columns[i])
              IN  Counted(rowsOf) = Cardinality(answer[r][i + 1]) /\ Len(rowsOf) <= Limit + 1

-------------------------------------------------------------------------------
(* Claims of the repository's text that the code does not keep.               *)

(* "The total, the series and the breakdowns all cover that window and no     *)
(* more": the parts of one answer account for the same clicks.                *)
PartsAgree ==
    \A r \in Routed("analytics") : reply[r] = "200" =>
        \A i \in 1 .. Len(Columns) :
            Counted(Breakdown(answer[r][i + 1], Columns[i])) = Total(Series(answer[r][1], Window))

(* "It travels behind every click already queued, so the worker persists all  *)
(* of them before it returns": a thread that was joined in time leaves        *)
(* nothing behind.                                                            *)
JoinedIsDrained ==
    [][life = "joining" /\ life' = "down" /\ at[leaving] = "ended" => Waiting = {}]_vars
===============================================================================

----------------------------- MODULE UploadPage -----------------------------
(***************************************************************************)
(* The fund or the bank upload page of a user against the upload API: the  *)
(* list of batches, the polling that keeps it up to date, and, for fund    *)
(* files, the dialog in which new entities are approved or rejected.       *)
(*                                                                         *)
(* Everything the page does crosses awaits: polling loops that overlap,    *)
(* answers that arrive late or not at all, lists read before a batch was   *)
(* created, and a dialog that other loops open, switch and close.  The     *)
(* server is FundUpload, or BankUpload with the newer pipeline, seen       *)
(* through GET status: what a file's rows are worth is decided by          *)
(* FileRules.                                                              *)
(***************************************************************************)
EXTENDS FileRules, FiniteSets, TLC

CONSTANTS
    Batch,          \* batches that may be uploaded
    Loop,           \* polling loops that may overlap
    Scenes,         \* what may meet: [page, files, loops, does, zone, text]
    Row,            \* rows that are compared with the one of the scene
    MaxAttempts,    \* attempts of a job
    MaxClicks,      \* decisions, cancels, rollbacks and reviews the user asks for
    MaxLost         \* requests that fail in the network

\* What the user asks for, what other clients do, what goes wrong, whether the page's
\* first fetchBatches is still to come, and whether a poll may meet every busy status:
\* without "linger" a batch is only seen PROCESSING.
Deed == {"approve", "reject", "review", "view", "cancel", "rollback", "upload elsewhere",
         "approve elsewhere", "rollback elsewhere", "fail", "lose",
         "mount", "linger"}

ASSUME PageAssumption ==
    /\ \A s \in Scenes :
           /\ s.page \in {"fund", "bank"}
           /\ DOMAIN s.files \subseteq Batch /\ s.loops \subseteq Loop /\ s.does \subseteq Deed
           /\ s.zone \in -12..14
           /\ s.text.shares \in Seq(0..100) /\ Len(s.text.shares) <= 4 /\ s.text.total \in Int
           /\ SumOf(s.text.shares) = 100
    /\ IsFiniteSet(Batch) /\ "none" \notin Batch
    /\ MaxAttempts \in Nat \ {0} /\ MaxClicks \in Nat /\ MaxLost \in Nat

\* Years are written with two digits in the short forms, else with four; account and goal
\* numbers have two parts, as GoalTransactionCodeGenerator has it.
ASSUME TextAssumption ==
    /\ \A s \in Scenes : IsDateText(s.text.row.date)
    /\ \A r \in Row \union {s.text.row : s \in Scenes} :
           /\ r.account \in Seq(STRING) /\ Len(r.account) = 2
           /\ r.goal \in Seq(STRING) /\ Len(r.goal) = 2
           /\ r.txn \in Seq(STRING) /\ r.txn # <<>> /\ r.source \in STRING

VARIABLES
    scene,      \* the page, the rows of each batch's file, the loops that may overlap, what may happen, the
                \* server's offset from UTC in hours, and a transaction as it is written in
                \* a fund and in a bank file
    server,     \* upload_batches and the batch's job
    list,       \* batches: the list on screen, newest first
    loops,      \* async callbacks of setInterval that have not returned
    reviews,    \* handleShowApprovalModal and handleViewValidation calls in flight
    dialog,     \* showApprovalDialog, approvalBatchId and newEntitiesData; and what both
                \* dialogs show, selectedBatchSummary, with showValidationDialog
    shown,      \* shownApprovalDialogs
    upload,     \* the batch whose upload response is in flight
    fetches,    \* fetchBatches calls in flight, by what started them
    decision,   \* the approve or reject in flight, and what was on screen at the click
    change,     \* the cancel or rollback in flight
    clicks, lost

serverVars == <<scene, server>>
dialogVars == <<reviews, dialog, shown>>
requestVars == <<upload, fetches, decision, change>>
vars == <<serverVars, list, loops, dialogVars, requestVars, clicks, lost>>

Busy == {"PARSING", "VALIDATING", "PROCESSING"}
Unfinished == Busy \union {"QUEUED", "WAITING_FOR_APPROVAL"}
Gone == {"absent", "deleted"}
Status == Unfinished \union Gone \union {"COMPLETED", "FAILED", "CANCELED"}
May(deed) == deed \in scene.does
JobPc == {"start", "parse", "validate", "check", "resume", "none"}

OnBankPage == scene.page = "bank"

NoBatch == "none"
NoFiles == <<>>
Entry == [batch : Batch, status : Status]
Captured == [batch : Batch, waiting : BOOLEAN]
Closed == [open |-> FALSE, batch |-> NoBatch, entities |-> NoBatch, summary |-> NoBatch,
           details |-> FALSE]
Idle == [todo |-> <<>>, pc |-> "idle", answer |-> "none"]
NoDecision == [pc |-> "none", batch |-> NoBatch, seen |-> NoBatch]
NoFetch == [pc |-> "none", answer |-> <<>>]
Sent == [pc |-> "sent", answer |-> <<>>]
NoChange == [pc |-> "none", batch |-> NoBatch, kind |-> "none"]

Live(b) == server[b].status \notin Gone
\* One dialog or the other covers the page.
Covered == dialog.open \/ (dialog.details /\ dialog.summary # NoBatch)

Init ==
    /\ scene \in Scenes
    /\ server = [b \in Batch |-> [status |-> "absent", job |-> "none", tries |-> 0]]
    /\ list = <<>>
    /\ loops = [l \in Loop |-> Idle]
    /\ reviews = {} /\ dialog = Closed /\ shown = {}
    /\ upload = NoBatch
    /\ fetches = [by \in {"page", "decision"} |->
                     IF by = "page" /\ May("mount") THEN Sent ELSE NoFetch]
    /\ decision = NoDecision /\ change = NoChange
    /\ clicks = 0 /\ lost = 0

-----------------------------------------------------------------------------
(* The server *)

Page == <<list, loops, dialogVars, requestVars, clicks, lost>>
Put(b, status, job) ==
    server' = [server EXCEPT ![b].status = status, ![b].job = job]

\* Attempts of a failed job are repeated; a resume job leaves FAILED until it is done.
FailJob(b) ==
    LET again == server[b].tries + 1 < MaxAttempts
        from == IF server[b].job = "resume" THEN "resume" ELSE "start"
    IN  server' = [server EXCEPT ![b] = [status |-> "FAILED", tries |-> @.tries + 1,
                                         job |-> IF again THEN from ELSE "none"]]

Created(b) == Put(b, "QUEUED", "start")
CreateElsewhere(b) ==
    May("upload elsewhere") /\ b \in DOMAIN scene.files /\ server[b].status = "absent" /\ Created(b)

Judged(b) == IF OnBankPage THEN BankVerdict(scene.files[b], scene.zone)
             ELSE Verdict(scene.files[b], scene.zone)
Empty(b) == Judged(b) = "empty"
Rejected(b) == Judged(b) \in {"empty", "rejected"}
Unstorable(b) == Judged(b) = "unstorable"
Pause(b) == ~OnBankPage /\ Put(b, "WAITING_FOR_APPROVAL", "none")
Post(b) == IF Unstorable(b) THEN FailJob(b) ELSE Put(b, "COMPLETED", "none")
Work(b) ==
    CASE server[b].job = "start" -> IF May("linger") THEN Put(b, "PARSING", "parse")
                                    ELSE Put(b, "PROCESSING", "check")
      [] server[b].job = "parse" -> IF Empty(b) THEN FailJob(b)
                                    ELSE Put(b, "VALIDATING", "validate")
      [] server[b].job = "validate" -> Put(b, "PROCESSING", "check")
      [] server[b].job = "check" -> IF Rejected(b) THEN FailJob(b)
                                    ELSE Pause(b) \/ Post(b)
      [] server[b].job = "resume" -> Post(b)

WorkerStep(b) == Live(b) /\ server[b].job # "none" /\ Work(b) /\ UNCHANGED <<scene, Page>>
\* The database fails or the worker dies.
WorkerFails(b) ==
    May("fail") /\ Live(b) /\ server[b].job # "none" /\ FailJob(b) /\ UNCHANGED <<scene, Page>>

Decidable(b) == server[b].status = "WAITING_FOR_APPROVAL"
Decided(b, kind) ==
    server' = [server EXCEPT ![b] = IF kind = "approve"
        THEN [status |-> "PROCESSING", job |-> "resume", tries |-> 0]
        ELSE [@ EXCEPT !.status = "FAILED"]]
Cancelable(b) == Live(b)
\* A job that a worker holds goes on.
Canceled(b) == Put(b, "CANCELED", server[b].job)
\* The bank's cancel takes the job out of the queue; one that runs cannot be taken out,
\* and the request fails after the batch is marked.
Working(b) == server[b].job \in {"parse", "validate", "check"}
BankCanceled(b) == Put(b, "CANCELED", IF Working(b) THEN server[b].job ELSE "none")
\* ... and the bank's rollback looks at the job alone.
CanRollback(b) ==
    Live(b) /\ IF OnBankPage THEN ~Working(b) ELSE server[b].status \notin Busy
RolledBack(b) == Put(b, "deleted", "none")

OtherClients(b) ==
    /\ \/ CreateElsewhere(b)
       \/ May("approve elsewhere") /\ Decidable(b) /\ Decided(b, "approve")
       \/ May("rollback elsewhere") /\ CanRollback(b) /\ RolledBack(b)
    /\ UNCHANGED <<scene, Page>>

-----------------------------------------------------------------------------
(* Requests that may get lost *)

Loses == May("lose") /\ lost < MaxLost /\ lost' = lost + 1
Clicks(kind) == May(kind) /\ clicks < MaxClicks /\ clicks' = clicks + 1

\* handleFiles: the server creates the batch, the response is in flight.  The upload
\* area is disabled meanwhile.
UploadFile(b) ==
    /\ b \in DOMAIN scene.files /\ upload = NoBatch /\ ~Covered /\ server[b].status = "absent"
    /\ Created(b)
    /\ upload' = b
    /\ UNCHANGED <<scene, list, loops, dialogVars, fetches, decision, change, clicks, lost>>

UploadAnswered ==
    /\ upload # NoBatch
    /\ \/ list' = <<[batch |-> upload, status |-> "QUEUED"]>> \o list /\ UNCHANGED lost
       \/ Loses /\ UNCHANGED list
    /\ upload' = NoBatch
    /\ UNCHANGED <<serverVars, loops, dialogVars, fetches, decision, change, clicks>>

\* The database's order is newest first; here some fixed order of the batches.
Batches == SetToSeq({b \in Batch : Live(b)})
Listing == [i \in DOMAIN Batches |->
               [batch |-> Batches[i], status |-> server[Batches[i]].status]]

\* fetchBatches: the server reads the list.
FetchRead(by) ==
    /\ fetches[by].pc = "sent"
    /\ fetches' = [fetches EXCEPT ![by] = [pc |-> "read", answer |-> Listing]]
    /\ UNCHANGED <<serverVars, list, loops, dialogVars, upload, decision, change, clicks, lost>>

\* The list is replaced by what was read.
FetchAnswered(by) ==
    /\ fetches[by].pc = "read"
    /\ \/ list' = fetches[by].answer /\ UNCHANGED lost
       \/ Loses /\ UNCHANGED list
    /\ fetches' = [fetches EXCEPT ![by] = NoFetch]
    /\ decision' = IF by = "decision" THEN NoDecision ELSE decision
    /\ UNCHANGED <<serverVars, loops, dialogVars, upload, change, clicks>>

-----------------------------------------------------------------------------
(* Polling *)

BankPolled == Busy \union {"QUEUED"}
\* Mutant: the fund page polls as the bank page does, which knows no approval.
PolledOnBankPage == BankPolled
Polled == IF OnBankPage THEN BankPolled ELSE Busy \union {"QUEUED", "WAITING_FOR_APPROVAL"}
ActiveAt == {i \in DOMAIN list : list[i].status \in Polled}
Capture(i) == [batch |-> list[i].batch, waiting |-> list[i].status = "WAITING_FOR_APPROVAL"]
\* The entries to poll in the order of the list, which there is one of.
Active ==
    LET places == 1 .. Cardinality(ActiveAt)
        inOrder == {at \in [places -> ActiveAt] : \A i, j \in places : i < j => at[i] < at[j]}
    IN  {[i \in places |-> Capture(at[i])] : at \in inOrder}

LoopAt(l, pc) == loops[l].pc = pc
NextBatch(loop) == LET rest == Tail(loop.todo)
                   IN  [todo |-> rest, pc |-> IF rest = <<>> THEN "idle" ELSE "ask",
                        answer |-> "none"]

\* The interval fires with the list as it was when the effect last ran.
Tick(l) ==
    /\ l \in scene.loops /\ LoopAt(l, "idle") /\ ActiveAt # {}
    /\ \E active \in Active :
          loops' = [loops EXCEPT ![l] = [todo |-> active, pc |-> "ask", answer |-> "none"]]
    /\ UNCHANGED <<serverVars, list, dialogVars, requestVars, clicks, lost>>

\* getBatchStatus: a deleted batch is a 404.
AskStatus(l) ==
    /\ LoopAt(l, "ask")
    /\ \E answer \in {server[loops[l].todo[1].batch].status, "lost"} :
           /\ IF answer = "lost" THEN Loses ELSE UNCHANGED lost
           /\ loops' = [loops EXCEPT ![l].pc = "answered", ![l].answer = answer]
    /\ UNCHANGED <<serverVars, list, dialogVars, requestVars, clicks>>

\* Mutant: a batch that is not in the list is added.
SetStatusOrAdd(b, status) ==
    list' = [i \in DOMAIN list |-> IF list[i].batch = b THEN [list[i] EXCEPT !.status = status]
                                   ELSE list[i]]
            \o <<[batch |-> b, status |-> status]>>
SetStatus(b, status) ==
    list' = [i \in DOMAIN list |-> IF list[i].batch = b THEN [list[i] EXCEPT !.status = status]
                                   ELSE list[i]]

\* The dialog opens for a batch that was not waiting when the list was captured.
Opens(loop) ==
    /\ loop.answer = "WAITING_FOR_APPROVAL"
    /\ ~loop.todo[1].waiting
    /\ loop.todo[1].batch \notin shown

ReceiveStatus(l) ==
    /\ LoopAt(l, "answered")
    /\ LET loop == loops[l] IN
       CASE Opens(loop) -> /\ loops' = [loops EXCEPT ![l].pc = "askEntities"]
                           /\ UNCHANGED list
         [] loop.answer \in Gone \union {"lost"} -> /\ loops' = [loops EXCEPT ![l] = NextBatch(loop)]
                                                    /\ UNCHANGED list
         [] OTHER -> /\ SetStatus(loop.todo[1].batch, loop.answer)
                     /\ loops' = [loops EXCEPT ![l] = NextBatch(loop)]
    /\ UNCHANGED <<serverVars, dialogVars, requestVars, clicks, lost>>

\* handleShowApprovalModal: GET summary answers for every batch, GET new-entities only for
\* one that waits.  The answer in flight is "ok" or "error".
EntitiesOf(b) == IF Decidable(b) THEN "ok" ELSE "error"

\* Mutant: approvalBatchId is set before the entities are there.
AnnounceEarly(b) == dialog' = [dialog EXCEPT !.batch = b]
Announce(b) == UNCHANGED dialog

AskEntities(l) ==
    /\ LoopAt(l, "askEntities")
    /\ LET b == loops[l].todo[1].batch IN
       /\ loops' = [loops EXCEPT ![l].pc = "entities", ![l].answer = EntitiesOf(b)]
       /\ Announce(b)
    /\ UNCHANGED <<serverVars, list, reviews, shown, requestVars, clicks, lost>>

ShowDialog(b, answer) ==
    dialog' = IF answer = "ok"
              THEN [dialog EXCEPT !.open = TRUE, !.batch = b, !.entities = b, !.summary = b]
              ELSE dialog

ReceiveEntities(l) ==
    /\ LoopAt(l, "entities")
    /\ LET b == loops[l].todo[1].batch IN
       /\ ShowDialog(b, loops[l].answer)
       /\ shown' = shown \union {b}
       /\ SetStatus(b, "WAITING_FOR_APPROVAL")
    /\ loops' = [loops EXCEPT ![l] = NextBatch(loops[l])]
    /\ UNCHANGED <<serverVars, reviews, requestVars, clicks, lost>>

-----------------------------------------------------------------------------
(* The user.  The dialog covers the rest of the page. *)

ListedAs(b, S) == \E i \in DOMAIN list : list[i].batch = b /\ list[i].status \in S

Review(b) ==
    /\ Clicks("review") /\ ~Covered /\ ListedAs(b, {"WAITING_FOR_APPROVAL"})
    /\ reviews' = reviews \union {[batch |-> b, answer |-> EntitiesOf(b)]}
    /\ Announce(b)
    /\ UNCHANGED <<serverVars, list, loops, shown, requestVars, lost>>

\* handleViewValidation, which any dialog may have opened before its answer is there.
ViewDetails(b) ==
    /\ Clicks("view") /\ ~Covered /\ ListedAs(b, {"COMPLETED", "FAILED"})
    /\ reviews' = reviews \union {[batch |-> b, answer |-> IF Live(b) THEN "details" ELSE "error"]}
    /\ UNCHANGED <<serverVars, list, loops, dialog, shown, requestVars, lost>>

ShowDetails(b) == dialog' = [dialog EXCEPT !.summary = b, !.details = TRUE]

ReviewAnswered(r) ==
    /\ IF r.answer = "details" THEN ShowDetails(r.batch) ELSE ShowDialog(r.batch, r.answer)
    /\ reviews' = reviews \ {r}
    /\ UNCHANGED <<serverVars, list, loops, shown, requestVars, clicks, lost>>

\* The approval dialog lies above the details.
CloseDetails ==
    /\ Covered /\ ~dialog.open
    /\ dialog' = [dialog EXCEPT !.details = FALSE]
    /\ UNCHANGED <<serverVars, list, loops, reviews, shown, requestVars, clicks, lost>>

\* The buttons are disabled until handleApprove has returned.
Decide(kind) ==
    /\ Clicks(kind) /\ dialog.open /\ decision.pc = "none"
    /\ decision' = [pc |-> kind, batch |-> dialog.batch, seen |-> dialog.entities]
    /\ UNCHANGED <<serverVars, list, loops, dialogVars, upload, fetches, change, lost>>

DecisionTaken ==
    /\ decision.pc \in {"approve", "reject"}
    /\ IF Decidable(decision.batch)
       THEN Decided(decision.batch, decision.pc) /\ decision' = [decision EXCEPT !.pc = "ok"]
       ELSE UNCHANGED server /\ decision' = [decision EXCEPT !.pc = "error"]
    /\ UNCHANGED <<scene, list, loops, dialogVars, upload, fetches, change, clicks, lost>>

\* Whatever dialog is open by now is closed; of the details only what they show goes.
DecisionAnswered ==
    /\ \/ /\ decision.pc = "ok"
          /\ dialog' = [Closed EXCEPT !.details = dialog.details]
          /\ fetches' = [fetches EXCEPT !["decision"] = Sent]
          /\ decision' = [decision EXCEPT !.pc = "fetch"]
          /\ UNCHANGED lost
       \/ /\ \/ decision.pc = "error" /\ UNCHANGED lost
             \/ decision.pc = "ok" /\ Loses
          /\ decision' = NoDecision
          /\ UNCHANGED <<dialog, fetches>>
    /\ UNCHANGED <<serverVars, list, loops, reviews, shown, upload, change, clicks>>

\* What has a Cancel button.
BankCancels == Busy \union {"QUEUED"}
Cancels == IF OnBankPage THEN BankCancels ELSE {"WAITING_FOR_APPROVAL"}
AskChange(b, kind) ==
    /\ Clicks(kind) /\ ~Covered /\ change.pc = "none"
    /\ ListedAs(b, IF kind = "cancel" THEN Cancels ELSE {"COMPLETED", "FAILED"})
    /\ change' = [pc |-> "sent", batch |-> b, kind |-> kind]
    /\ UNCHANGED <<serverVars, list, loops, dialogVars, upload, fetches, decision, lost>>

ChangeTaken ==
    /\ change.pc = "sent"
    /\ LET b == change.batch IN
       \/ /\ change.kind = "cancel" /\ Cancelable(b) /\ ~OnBankPage /\ Canceled(b)
          /\ change' = [change EXCEPT !.pc = "ok"]
       \/ /\ change.kind = "cancel" /\ Cancelable(b) /\ OnBankPage /\ BankCanceled(b)
          /\ change' = IF Working(b) THEN NoChange ELSE [change EXCEPT !.pc = "ok"]
       \/ /\ change.kind = "rollback" /\ CanRollback(b) /\ RolledBack(b)
          /\ change' = [change EXCEPT !.pc = "ok"]
    /\ UNCHANGED <<scene, list, loops, dialogVars, upload, fetches, decision, clicks, lost>>

ChangeRefused ==
    /\ change.pc = "sent"
    /\ ~(IF change.kind = "cancel" THEN Cancelable(change.batch) ELSE CanRollback(change.batch))
    /\ change' = NoChange
    /\ UNCHANGED <<serverVars, list, loops, dialogVars, upload, fetches, decision, clicks, lost>>

ChangeAnswered ==
    /\ change.pc = "ok" /\ fetches["page"].pc = "none"
    /\ fetches' = [fetches EXCEPT !["page"] = Sent]
    /\ change' = NoChange
    /\ UNCHANGED <<serverVars, list, loops, dialogVars, upload, decision, clicks, lost>>

-----------------------------------------------------------------------------

FetchStep(by) == FetchRead(by) \/ FetchAnswered(by)
LoopStep(l) == AskStatus(l) \/ ReceiveStatus(l) \/ AskEntities(l) \/ ReceiveEntities(l)

Next ==
    \/ \E b \in Batch : WorkerStep(b) \/ WorkerFails(b) \/ OtherClients(b) \/ UploadFile(b)
    \/ UploadAnswered
    \/ \E by \in DOMAIN fetches : FetchStep(by)
    \/ \E l \in Loop : Tick(l) \/ LoopStep(l)
    \/ \E b \in Batch : Review(b) \/ ViewDetails(b)
    \/ CloseDetails
    \/ \E r \in reviews : ReviewAnswered(r)
    \/ \E kind \in {"approve", "reject"} : Decide(kind)
    \/ DecisionTaken \/ DecisionAnswered
    \/ \E b \in Batch, kind \in {"cancel", "rollback"} : AskChange(b, kind)
    \/ ChangeTaken \/ ChangeRefused \/ ChangeAnswered

Spec == Init /\ [][Next]_vars

\* The browser fires its interval and runs its callbacks, and every request the page
\* has sent is answered or fails; nothing is assumed of workers, users or other clients.
FairSpec ==
    /\ Spec
    /\ WF_vars(UploadAnswered)
    /\ \A by \in {"page", "decision"} : WF_vars(FetchStep(by))
    /\ \A l \in Loop : WF_vars(Tick(l) \/ LoopStep(l))

-----------------------------------------------------------------------------

\* Well typed: polling never makes the list longer, so that a batch is on it twice at
\* most, once from a list read and once from its upload response; a decision is in
\* flight exactly while the buttons are disabled and its list is fetched.
TypeOK ==
    /\ server \in [Batch -> [status : Status, job : JobPc, tries : 0..MaxAttempts]]
    /\ list \in Seq(Entry) /\ Len(list) <= 2 * Cardinality(Batch)
    /\ \A l \in Loop : /\ loops[l].todo \in Seq(Captured)
                       /\ loops[l].todo = <<>> <=> loops[l].pc = "idle"
    /\ shown \subseteq Batch /\ reviews \subseteq [batch : Batch, answer : {"ok", "error", "details"}]
    /\ upload \in Batch \union {NoBatch}
    /\ decision.pc = "fetch" <=> fetches["decision"].pc # "none"
    /\ dialog.open => dialog.batch \in Batch /\ dialog.summary \in Batch
    /\ clicks \in 0..MaxClicks /\ lost \in 0..MaxLost

\* DateUtils.parseDate and BankCSVParser.parseDate read one valid date, written as
\* YYYY-MM-DD, DD/MM/YYYY, DD/MM/YY or DD-Mon-YY, less than a day apart, at the same
\* instant when the server runs in UTC; the bank's day, and east of Greenwich the day in
\* the goal transaction code, is the one that was written.  Of DD-MM-YYYY and DD-MM-YY,
\* which new Date reads month first, this holds where day and month are the same number.
DatesAgree ==
    LET date == scene.text.row.date
    IN  /\ scene.files = NoFiles /\ IsDay(date)
        /\ date.form \in Dashed => date.day = date.month
        => SameDate(date, scene.zone)

\* One transaction is taken alike by both files.  However the bank file names its fund
\* columns, BankCSVParser.parseFundDistribution finds amounts of the same size, and
\* BankTransactionValidator warns of no mismatch, as long as no amount is small enough
\* to look like a percentage.  What FundTransactionValidator lets through and the
\* database stores, BankTransactionValidator lets through with the same amount, unless
\* it has no transaction id, is zero, carries a pound, euro or yen sign, which only
\* NumberUtils strips, or lies in the future, where the fund file warns (of DD-MM-YYYY and
\* DD-MM-YY it may have read another day).
FilesTakeAlike ==
    scene.files = NoFiles =>
    LET shares == scene.text.shares
        total == scene.text.total
    IN  /\ total # 0 /\ ~LikePercentages(shares, AmountsDue(shares, total)) => SameSplits(shares, total)
        /\ TakenAlike(scene.text.row, scene.zone)

\* Rows share a goal transaction code only if they are of one local day, account, goal,
\* transaction id and source, whatever dashes the ids contain: the groups that
\* GoalTransactionValidator checks and the matching relies on mix nothing else.  The
\* counts it stores call those groups complete of whose number of rows it does not warn.
CodesSeparate ==
    scene.files = NoFiles => \A r \in Row :
        LET s == scene.text.row
            zone == scene.zone
            read == Parsed({r, s}, zone)
            groups == CodeGroups(read, zone)
        IN  /\ NoDate \notin {FundDate(r.date, zone), FundDate(s.date, zone)} => OwnGroup(r, s, zone)
            /\ GroupStatistics(read, zone).incomplete =
                 Cardinality({g \in groups : "GOAL_TRANSACTION_COMPLETE_FUND_SET" \in GroupWarnings(g)})

\* An approve or reject request of the page is always about the batch whose new
\* entities were on screen at the click, although polling loops, reviews and earlier
\* decisions open, switch and close the one dialog (FundUpload.tsx handleApprove).  The
\* file name and the warnings above those entities are of another batch only where the
\* answer of a View Details opened that batch's own dialog below.
ApprovedWhatWasShown ==
    /\ decision.seen = decision.batch
    /\ dialog.open /\ dialog.summary # dialog.entities => dialog.details

\* Once a batch is completed or canceled for good, the page does not show it as
\* unfinished for ever: the polling outlives late answers, lost requests and lists read
\* too early (the polling effects of FundUpload.tsx and BankUpload.tsx).
PageCatchesUp ==
    \A b \in Batch :
        (server[b].status \in {"COMPLETED", "CANCELED"} /\ ListedAs(b, Unfinished))
            ~> (server[b].status \notin {"COMPLETED", "CANCELED"} \/ ~ListedAs(b, Unfinished))
=============================================================================

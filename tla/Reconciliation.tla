--------------------------- MODULE Reconciliation ---------------------------
(***************************************************************************)
(* Reconciling bank rows with fund rows: what the routes under             *)
(* /api/goal-comparison, /api/variance-resolution and                      *)
(* /api/bank-upload/reconciliation read and write, request by request and  *)
(* statement by statement.  No route holds a lock or a transaction over    *)
(* several statements but linkReversal.                                    *)
(*                                                                         *)
(* Rows come and go with uploads and rollbacks (FundUpload, BankUpload);   *)
(* here that is the environment.                                           *)
(***************************************************************************)
EXTENDS SmartMatching

CONSTANTS
    BankTxn,        \* bank rows, records of SmartMatching
    FundRow,        \* fund rows
    Opening,        \* what may be stored at the start, which rows an upload may store
                    \* later, and which bank rows came by way of the older service
    Leaving,        \* rows a rollback may delete
    Window,         \* date ranges users look at
    Selection,      \* bank rows and codes users select together
    InText,         \* <<s, c>>: the text of code s occurs within that of code c
    Tag,            \* review tags users give
    Decision,       \* statuses users ask for
    Request,        \* requests, each used once
    Ops,            \* what each request may ask for
    RunLimit,       \* rows one run of runReconciliation takes
    NULL            \* no value

Code == {f.code : f \in FundRow}
Goal == {r.goal : r \in BankTxn \union FundRow}

ASSUME RowAssumption ==
    /\ Opening \subseteq [rows : SUBSET (BankTxn \union FundRow),
                          later : SUBSET (BankTxn \union FundRow), older : SUBSET BankTxn]
    /\ Leaving \subseteq BankTxn \union FundRow
    /\ IsFiniteSet(BankTxn) /\ IsFiniteSet(FundRow)  \* tables
    /\ \A r \in BankTxn \union FundRow :
          r.amount \in Int /\ r.day \in Int /\ r.reversal \in BOOLEAN
    /\ \A b, c \in BankTxn : b.txn = c.txn => b.reversal = c.reversal
    /\ \A b \in BankTxn : \A k \in FundCode : b.funds[k] \in Int
    /\ InText \subseteq Code \X Code
    /\ \A c \in Code : <<c, c>> \in InText
    \* the code holds the date, the goal and the transactionId of its rows
    /\ \A f, h \in FundRow : f.code = h.code =>
          f.goal = h.goal /\ f.day = h.day /\ f.txn = h.txn

ASSUME UserAssumption ==
    /\ Selection \subseteq [banks : SUBSET BankTxn, codes : SUBSET Code]
    /\ RunLimit \in Nat \ {0}
    /\ NULL \notin Request

VARIABLES
    bank,       \* bank_goal_transactions
    fund,       \* fund_transactions
    tasks,      \* the requests and where each is
    alone       \* history: the request no other step has interleaved with

vars == <<bank, fund, tasks, alone>>

-----------------------------------------------------------------------------
(* Values *)

\* matchedGoalTransactionCode: one goal code, several after the kind of match, or
\* those of a manual match after the time it was made, for which the request stands.
NoMatch == [kind |-> "none", by |-> NULL, codes |-> {}]
GoalMatch(codes) ==
    [kind |-> IF Cardinality(codes) = 1 THEN "goal" ELSE "several",
     by |-> NULL, codes |-> codes]
ManualMatch(q, codes) == [kind |-> "manual", by |-> q, codes |-> codes]
Match == [kind : {"none", "goal", "several", "manual"}, by : Request \union {NULL},
          codes : SUBSET Code]

\* What the routes that set statuses let through.
ValidStatuses == {"PENDING", "MATCHED", "VARIANCE_DETECTED", "AUTO_APPROVED",
                  "MANUAL_REVIEW", "APPROVED", "REJECTED", "MISSING_IN_FUND"}

\* "pair" is the row that reviewNotes names after "Reversal pair with: ".
BankRow == [at : {"absent", "stored", "gone"}, match : Match,
            status : ValidStatuses,
            tag : Tag \union {"REVERSAL_NETTED", NULL},
            pair : BankTxn \union {NULL}, resolved : BOOLEAN]
NewBankRow == [at |-> "absent", match |-> NoMatch, status |-> "PENDING", tag |-> NULL,
               pair |-> NULL, resolved |-> FALSE]
FundState == [at : {"absent", "stored", "gone"}, tag : Tag \union {NULL},
              resolved : BOOLEAN]
NewFundRow == [at |-> "absent", tag |-> NULL, resolved |-> FALSE]

Op == {"match", "unmatch", "review", "bulk", "status", "link", "unlink",
       "drilldown", "detect", "run"}
Idle == [op |-> NULL, pc |-> "idle", banks |-> {}, codes |-> {}, stamps |-> {},
         seen |-> [b \in {} |-> NoMatch], goals |-> {}, found |-> {}, todo |-> {},
         left |-> {}, tag |-> NULL, verdict |-> NULL,
         window |-> NULL, goal |-> NULL, partner |-> NULL, more |-> FALSE]
\* What a request leaves behind is kept only as far as the properties look at it.
Finished(task) ==
    [Idle EXCEPT !.op = task.op, !.pc = "ok", !.stamps = task.stamps,
                 !.codes = IF task.op = "unmatch" THEN task.codes ELSE {},
                 !.found = task.found, !.more = task.more]

StoredBank == {b \in BankTxn : bank[b].at = "stored"}
StoredFund == {f \in FundRow : fund[f].at = "stored"}
RowsOf(codes) == {f \in StoredFund : f.code \in codes}
Settled(row) == [row EXCEPT !.match = NoMatch, !.status = "PENDING"]

Whereabouts(r, o) ==
    IF r \in o.rows THEN "stored" ELSE IF r \in o.later THEN "absent" ELSE "gone"
\* The older service stores a row with its verdict, and the code of the first of the
\* fund rows it read.
FirstCodes(same) == IF same = {} THEN {NoMatch} ELSE {GoalMatch({f.code}) : f \in same}
Judged(verdict, match) ==
    [NewBankRow EXCEPT !.at = "stored", !.status = verdict, !.match = match]
Stored(b, o) ==
    LET read == o.rows \intersect FundRow
    IN  IF b \notin o.rows \intersect o.older
        THEN {[NewBankRow EXCEPT !.at = Whereabouts(b, o)]}
        ELSE {Judged(v, c) : v \in OlderVerdicts(b, read), c \in FirstCodes(SameKey(b, read))}

Init ==
    /\ \E o \in Opening :
         /\ bank \in {row \in [BankTxn -> UNION {Stored(b, o) : b \in BankTxn}] :
                        \A b \in BankTxn : row[b] \in Stored(b, o)}
         /\ fund = [f \in FundRow |-> [NewFundRow EXCEPT !.at = Whereabouts(f, o)]]
    /\ tasks = [q \in Request |-> Idle]
    /\ alone = NULL

-----------------------------------------------------------------------------
(* Steps of requests *)

\* A request comes in; from then on it is alone until another step is taken.
Receive(q, op, task) ==
    /\ tasks[q].pc = "idle"
    /\ op \in Ops[q]
    /\ tasks' = [tasks EXCEPT ![q] = [task EXCEPT !.op = op]]
    /\ alone' = q
At(q, op, pc) == tasks[q].op = op /\ tasks[q].pc = pc
Proceed(q, task) ==
    /\ tasks' = [tasks EXCEPT ![q] = task]
    /\ alone' = IF alone = q THEN q ELSE NULL
Goto(q, pc) == Proceed(q, [tasks[q] EXCEPT !.pc = pc])
Finish(q) == Proceed(q, Finished(tasks[q]))

\* updateMany touches the rows that are there; update throws when the row is not.
UpdateBank(B, Change(_)) ==
    bank' = [b \in BankTxn |->
               IF b \in B \intersect StoredBank THEN Change(bank[b]) ELSE bank[b]]
UpdateFund(F, Change(_)) ==
    fund' = [f \in FundRow |-> IF f \in F THEN Change(fund[f]) ELSE fund[f]]
TagBank(B, tag, pair) ==
    UpdateBank(B, LAMBDA row : [row EXCEPT !.tag = tag, !.pair = pair])
TagFund(codes, tag) == UpdateFund(RowsOf(codes), LAMBDA row : [row EXCEPT !.tag = tag])

-----------------------------------------------------------------------------
(* createManualMatch: existence and totals are checked, then written; that  *)
(* a row is matched already is not looked at.                              *)

CheckTotals(q, B, codes) ==
    /\ B # {} /\ codes # {}
    /\ B \subseteq StoredBank
    /\ codes \subseteq {f.code : f \in StoredFund}
    /\ ManualTotalsAgree(Total(B), Total(RowsOf(codes)))
    /\ Receive(q, "match", [Idle EXCEPT !.pc = "write", !.banks = B, !.codes = codes])
    /\ UNCHANGED <<bank, fund>>

WriteMatch(q) ==
    /\ At(q, "match", "write")
    /\ UpdateBank(tasks[q].banks, LAMBDA row :
           [row EXCEPT !.match = ManualMatch(q, tasks[q].codes), !.status = "MATCHED"])
    /\ Finish(q)
    /\ UNCHANGED fund

-----------------------------------------------------------------------------
(* removeManualMatch: three kinds of updateMany, one after another *)

BeginUnmatch(q, B, codes) ==
    /\ B # {} \/ codes # {}
    /\ Receive(q, "unmatch",
               [Idle EXCEPT !.pc = "ids", !.banks = B, !.codes = codes,
                            !.stamps = {bank[b].match.by : b \in StoredBank} \ {NULL}])
    /\ UNCHANGED <<bank, fund>>

UnmatchIds(q) ==
    /\ At(q, "unmatch", "ids")
    /\ UpdateBank(tasks[q].banks, Settled)
    /\ IF tasks[q].codes = {} THEN Finish(q) ELSE Goto(q, "exact")
    /\ UNCHANGED fund

UnmatchExact(q) ==
    /\ At(q, "unmatch", "exact")
    /\ UpdateBank({b \in BankTxn : \E c \in tasks[q].codes :
                      bank[b].match = GoalMatch({c})}, Settled)
    /\ Proceed(q, [tasks[q] EXCEPT !.pc = "contains", !.left = tasks[q].codes])
    /\ UNCHANGED fund

\* Mutant: the codes of a manual match are compared with the text as a whole.
UnmatchWhole(q, c) ==
    /\ At(q, "unmatch", "contains") /\ c \in tasks[q].left
    /\ UpdateBank({b \in BankTxn : bank[b].match.kind = "manual" /\
                                    bank[b].match.codes = {c}}, Settled)
    /\ IF tasks[q].left = {c} THEN Finish(q)
       ELSE Proceed(q, [tasks[q] EXCEPT !.left = @ \ {c}])
    /\ UNCHANGED fund

\* Whatever manual match has the code somewhere in its text.
UnmatchContains(q, c) ==
    /\ At(q, "unmatch", "contains") /\ c \in tasks[q].left
    /\ UpdateBank({b \in BankTxn : bank[b].match.kind = "manual" /\
                      \E d \in bank[b].match.codes : <<c, d>> \in InText}, Settled)
    /\ IF tasks[q].left = {c} THEN Finish(q)
       ELSE Proceed(q, [tasks[q] EXCEPT !.left = @ \ {c}])
    /\ UNCHANGED fund

-----------------------------------------------------------------------------
(* Reviews and statuses set by users *)

\* Mutant: the notes of an earlier review stay.
ReviewBankOnly(q, b, tag) ==
    /\ b \in StoredBank
    /\ UpdateBank({b}, LAMBDA row : [row EXCEPT !.tag = tag])
    /\ Receive(q, "review", Finished(Idle))
    /\ UNCHANGED fund

\* The notes are written with the tag, so a pair is forgotten.
ReviewBank(q, b, tag) ==
    /\ b \in StoredBank
    /\ TagBank({b}, tag, NULL)
    /\ Receive(q, "review", Finished(Idle))
    /\ UNCHANGED fund

\* All rows of the code that are there, whatever their type.
ReviewGoal(q, c, tag) ==
    /\ RowsOf({c}) # {}
    /\ TagFund({c}, tag)
    /\ Receive(q, "review", Finished(Idle))
    /\ UNCHANGED bank

\* bulkReview: bank rows, then goal transactions, in statements of their own.
BulkReviewBank(q, B, codes, tag) ==
    /\ TagBank(B, tag, NULL)
    /\ Receive(q, "bulk", [Idle EXCEPT !.pc = "goal", !.codes = codes, !.tag = tag])
    /\ UNCHANGED fund
BulkReviewGoal(q) ==
    /\ At(q, "bulk", "goal")
    /\ TagFund(tasks[q].codes, tasks[q].tag)
    /\ Finish(q)
    /\ UNCHANGED bank

\* PATCH status; the bulk route does so row by row.
SetStatus(q, b, status) ==
    /\ status \in ValidStatuses
    /\ b \in StoredBank
    /\ UpdateBank({b}, LAMBDA row : [row EXCEPT !.status = status])
    /\ Receive(q, "status", Finished(Idle))
    /\ UNCHANGED fund

-----------------------------------------------------------------------------
(* Reversal pairs *)

\* One $transaction, after checks on what never changes; review tags are not checked.
LinkReversal(q, b, c) ==
    /\ {b, c} \subseteq StoredBank
    /\ CanNet(b, c)
    /\ bank' = [bank EXCEPT ![b].tag = "REVERSAL_NETTED", ![b].pair = c,
                            ![c].tag = "REVERSAL_NETTED", ![c].pair = b]
    /\ Receive(q, "link", Finished(Idle))
    /\ UNCHANGED fund

BeginUnlink(q, b) ==
    /\ b \in StoredBank
    /\ bank[b].tag = "REVERSAL_NETTED"
    /\ Receive(q, "unlink", [Idle EXCEPT !.pc = "first", !.banks = {b},
                                         !.partner = bank[b].pair])
    /\ UNCHANGED <<bank, fund>>

\* The row found first, and its partner if it is tagged; an update of a row that is
\* gone ends the request.
UnlinkFirst(q) ==
    /\ At(q, "unlink", "first")
    /\ TagBank(tasks[q].banks, NULL, NULL)
    /\ IF tasks[q].banks \subseteq StoredBank /\ tasks[q].partner # NULL
       THEN Goto(q, "partner") ELSE Finish(q)
    /\ UNCHANGED fund
FindPartner(q) ==
    /\ At(q, "unlink", "partner")
    /\ LET c == tasks[q].partner IN
       IF c \in StoredBank /\ bank[c].tag = "REVERSAL_NETTED"
       THEN Goto(q, "second") ELSE Finish(q)
    /\ UNCHANGED <<bank, fund>>
UnlinkSecond(q) ==
    /\ At(q, "unlink", "second")
    /\ TagBank({tasks[q].partner}, NULL, NULL)
    /\ Finish(q)
    /\ UNCHANGED fund

-----------------------------------------------------------------------------
(* getGoalTransactions: reading a goal stores the matches it found *)

\* Rows of reversals are not matched.
Matchable(R) == {r \in R : ~r.reversal}
BankRowsIn(window, goal) == {b \in Matchable(StoredBank) : b.goal = goal /\ In(window, b)}
FundRowsIn(window, goal) == {f \in Matchable(StoredFund) : f.goal = goal /\ In(window, f)}

ReadBankRows(q, window, goal) ==
    /\ LET rows == BankRowsIn(window, goal) IN
       Receive(q, "drilldown",
               [Idle EXCEPT !.pc = "goals", !.window = window, !.goal = goal,
                            !.banks = rows, !.seen = [b \in rows |-> bank[b].match]])
    /\ UNCHANGED <<bank, fund>>

\* Mutant: manual matches are stored again with the others.
AllMatches(found) == found
\* What is stored of the matches found.
ToPersist(found) == {m \in found : m.kind # "MANUAL"}

MatchRows(q) ==
    /\ At(q, "drilldown", "goals")
    /\ LET G == GoalTxns(FundRowsIn(tasks[q].window, tasks[q].goal)) IN
       \E bs \in LatestFirst(tasks[q].banks), gs \in LatestFirst(G) :
          LET found == DrilldownMatches([banks |-> bs, goals |-> gs, match |-> tasks[q].seen]) IN
          Proceed(q, [tasks[q] EXCEPT !.pc = "persist", !.goals = G, !.found = found,
                                      !.todo = ToPersist(found)])
    /\ UNCHANGED <<bank, fund>>

PersistMatch(q, m) ==
    /\ At(q, "drilldown", "persist") /\ m \in tasks[q].todo
    /\ UpdateBank(m.banks, LAMBDA row :
           [row EXCEPT !.match = GoalMatch({g.code : g \in m.goals})])
    /\ Proceed(q, [tasks[q] EXCEPT !.todo = @ \ {m}])
    /\ UNCHANGED fund

EndDrilldown(q) ==
    /\ At(q, "drilldown", "persist") /\ tasks[q].todo = {}
    /\ Finish(q)
    /\ UNCHANGED <<bank, fund>>

-----------------------------------------------------------------------------
(* detectResolvedVariances *)

\* Rows of a tag are looked up against all rows of the other side, matched or not.
\* A goal transaction adds up the rows that carry the tag and are not resolved.
ResolvedBank ==
    LET goals == GoalTxns(StoredFund) IN
    {b \in StoredBank : ~bank[b].resolved /\
        \/ bank[b].tag = "MISSING_IN_GOAL" /\ Counterpart(b, goals)
        \/ bank[b].tag = "TIMING_DIFFERENCE" /\ InTime(b, goals)}
ResolvedGoals ==
    LET open(tag) == GoalTxns({f \in StoredFund : ~fund[f].resolved /\ fund[f].tag = tag})
    IN  {g.code : g \in {h \in open("MISSING_IN_BANK") : Counterpart(h, StoredBank)}
                           \union {h \in open("TIMING_DIFFERENCE") : InTime(h, StoredBank)}}

Detect(q) ==
    /\ Receive(q, "detect", [Idle EXCEPT !.pc = "bank", !.banks = ResolvedBank,
                                         !.codes = ResolvedGoals])
    /\ UNCHANGED <<bank, fund>>

\* An update of a row that is gone throws, and what is left is not marked.
MarkBank(q, b) ==
    /\ At(q, "detect", "bank") /\ b \in tasks[q].banks
    /\ UpdateBank({b}, LAMBDA row : [row EXCEPT !.resolved = TRUE])
    /\ IF b \in StoredBank
       THEN Proceed(q, [tasks[q] EXCEPT !.banks = @ \ {b}])
       ELSE Finish(q)
    /\ UNCHANGED fund

\* Mutant: only the rows that carry the tag of a missing bank row are marked.
MarkGoalTagged(q, c) ==
    /\ At(q, "detect", "bank") /\ tasks[q].banks = {} /\ c \in tasks[q].codes
    /\ UpdateFund({f \in RowsOf({c}) : fund[f].tag = "MISSING_IN_BANK"},
                  LAMBDA row : [row EXCEPT !.resolved = TRUE])
    /\ Proceed(q, [tasks[q] EXCEPT !.codes = @ \ {c}])
    /\ UNCHANGED bank

\* All rows of the code, whatever tag they carry by then.
MarkGoal(q, c) ==
    /\ At(q, "detect", "bank") /\ tasks[q].banks = {} /\ c \in tasks[q].codes
    /\ UpdateFund(RowsOf({c}), LAMBDA row : [row EXCEPT !.resolved = TRUE])
    /\ Proceed(q, [tasks[q] EXCEPT !.codes = @ \ {c}])
    /\ UNCHANGED bank

EndDetect(q) ==
    /\ At(q, "detect", "bank") /\ tasks[q].banks = {} /\ tasks[q].codes = {}
    /\ Finish(q)
    /\ UNCHANGED <<bank, fund>>

-----------------------------------------------------------------------------
(* runReconciliation: the oldest pending rows, read once, then one by one *)

Pending == {b \in StoredBank : bank[b].status = "PENDING"}
Oldest(B) ==
    {T \in SUBSET B : /\ Cardinality(T) = Smaller(Cardinality(B), RunLimit)
                      /\ \A b \in T : \A c \in B \ T : b.day <= c.day}

StartRun(q) ==
    /\ \E taken \in Oldest(Pending) :
          Receive(q, "run", [Idle EXCEPT !.pc = "judge", !.banks = taken,
                                         !.more = Cardinality(Pending) > RunLimit])
    /\ UNCHANGED <<bank, fund>>

\* The fund rows of one bank row are read; the verdict is written afterwards.
JudgeRow(q, b) ==
    /\ At(q, "run", "judge") /\ b \in tasks[q].banks
    /\ LET same == SameKey(b, StoredFund) IN
       \E verdict \in Verdicts(b, StoredFund) :
       \E c \in {f.code : f \in same} \union {NULL} :
          /\ c = NULL <=> same = {}
          /\ Proceed(q, [tasks[q] EXCEPT !.pc = "write",
                             !.verdict = [row |-> b, status |-> verdict, code |-> c]])
    /\ UNCHANGED <<bank, fund>>

\* Mutant: a row with no fund rows is left for the next run.
WriteFound(q) ==
    /\ At(q, "run", "write")
    /\ LET v == tasks[q].verdict IN
       /\ UpdateBank({v.row}, LAMBDA row :
             IF v.code = NULL THEN row
             ELSE [row EXCEPT !.status = v.status, !.match = GoalMatch({v.code})])
       /\ Proceed(q, [tasks[q] EXCEPT !.pc = "judge", !.banks = @ \ {v.row},
                                      !.verdict = NULL])
    /\ UNCHANGED fund

\* Whatever the row holds by then; one that is gone is reported and passed over.
WriteVerdict(q) ==
    /\ At(q, "run", "write")
    /\ LET v == tasks[q].verdict IN
       /\ UpdateBank({v.row}, LAMBDA row :
             [row EXCEPT !.status = v.status,
                         !.match = IF v.code = NULL THEN @ ELSE GoalMatch({v.code})])
       /\ Proceed(q, [tasks[q] EXCEPT !.pc = "judge", !.banks = @ \ {v.row},
                                      !.verdict = NULL])
    /\ UNCHANGED fund

EndRun(q) ==
    /\ At(q, "run", "judge") /\ tasks[q].banks = {}
    /\ Finish(q)
    /\ UNCHANGED <<bank, fund>>

-----------------------------------------------------------------------------
(* Uploads and rollbacks *)

Uploaded(r) ==
    /\ \/ /\ r \in BankTxn /\ bank[r].at = "absent"
          /\ bank' = [bank EXCEPT ![r].at = "stored"]
          /\ UNCHANGED fund
       \/ /\ r \in FundRow /\ fund[r].at = "absent"
          /\ fund' = [fund EXCEPT ![r].at = "stored"]
          /\ UNCHANGED bank
    /\ alone' = NULL
    /\ UNCHANGED tasks

RolledBack(r) ==
    /\ r \in Leaving
    /\ \/ /\ r \in StoredBank
          /\ bank' = [bank EXCEPT ![r] = [NewBankRow EXCEPT !.at = "gone"]]
          /\ UNCHANGED fund
       \/ /\ r \in StoredFund
          /\ fund' = [fund EXCEPT ![r] = [NewFundRow EXCEPT !.at = "gone"]]
          /\ UNCHANGED bank
    /\ alone' = NULL
    /\ UNCHANGED tasks

-----------------------------------------------------------------------------
UserRequest(q) == tasks[q].pc = "idle" /\
    \/ \E s \in Selection :
          CheckTotals(q, s.banks, s.codes) \/ BeginUnmatch(q, s.banks, s.codes)
    \/ \E s \in Selection, t \in Tag : BulkReviewBank(q, s.banks, s.codes, t)
    \/ \E b \in BankTxn, t \in Tag : ReviewBank(q, b, t)
    \/ \E c \in Code, t \in Tag : ReviewGoal(q, c, t)
    \/ \E b \in BankTxn, s \in Decision : SetStatus(q, b, s)
    \/ \E b, c \in BankTxn : LinkReversal(q, b, c)
    \/ \E b \in BankTxn : BeginUnlink(q, b)
    \/ \E w \in Window, g \in Goal : ReadBankRows(q, w, g)
    \/ Detect(q) \/ StartRun(q)

RequestStep(q) ==
    \/ WriteMatch(q)
    \/ UnmatchIds(q) \/ UnmatchExact(q) \/ \E c \in Code : UnmatchContains(q, c)
    \/ BulkReviewGoal(q)
    \/ UnlinkFirst(q) \/ FindPartner(q) \/ UnlinkSecond(q)
    \/ MatchRows(q) \/ EndDrilldown(q) \/ \E m \in tasks[q].todo : PersistMatch(q, m)
    \/ EndDetect(q) \/ \E b \in BankTxn : MarkBank(q, b)
    \/ \E c \in Code : MarkGoal(q, c)
    \/ EndRun(q) \/ WriteVerdict(q) \/ \E b \in BankTxn : JudgeRow(q, b)

Next ==
    \/ \E q \in Request : UserRequest(q) \/ RequestStep(q)
    \/ \E r \in BankTxn \union FundRow : Uploaded(r)
    \/ \E r \in Leaving : RolledBack(r)

Spec == Init /\ [][Next]_vars

-----------------------------------------------------------------------------
(* Properties *)

\* Every column and every request holds a value the code can give it; a row names a
\* partner only while it is tagged as netted.
TypeOK ==
    /\ bank \in [BankTxn -> BankRow]
    /\ \A b \in BankTxn : bank[b].pair # NULL => bank[b].tag = "REVERSAL_NETTED"
    /\ fund \in [FundRow -> FundState]
    /\ \A q \in Request :
         /\ tasks[q].op \in Op \union {NULL}
         /\ tasks[q].banks \subseteq BankTxn
         /\ tasks[q].codes \subseteq Code
         /\ tasks[q].stamps \subseteq Request
    /\ alone \in Request \union {NULL}

Drilldowns == {q \in Request : tasks[q].op = "drilldown"}
Matched == {q \in Drilldowns : tasks[q].pc = "persist"}

\* In one answer no bank row and no goal transaction belongs to two matches, and the
\* two sides of a match the code found agree within the tolerance.
MatchedOnce == \A q \in Matched : \A m \in tasks[q].found :
    /\ \A n \in tasks[q].found \ {m} : m.banks \intersect n.banks = {}
                                        /\ m.goals \intersect n.goals = {}
    /\ m.kind # "MANUAL" =>
          \/ Agrees(Total(m.banks), Total(m.goals), Total(m.goals))
          \/ Agrees(Total(m.banks), Total(m.goals), Total(m.banks))

\* A drilldown changes a manual match it has read only if none of its goal transactions
\* is in the date range, or another manual match claims them.
ManualMatchKept == \A q \in Matched : \A m \in tasks[q].todo : \A b \in m.banks :
    tasks[q].seen[b].kind = "manual" =>
        \A g \in tasks[q].goals : g.code \in tasks[q].seen[b].codes =>
            \E n \in tasks[q].found : n.kind = "MANUAL" /\ g \in n.goals /\ b \notin n.banks

\* Once the removal of a match is answered, no manual match that was there when it
\* came in names one of its goal codes, whatever other requests wrote meanwhile.
RemovalHolds == \A q \in Request : tasks[q].op = "unmatch" /\ tasks[q].pc = "ok" =>
    \A b \in StoredBank : bank[b].match.kind = "manual" /\ bank[b].match.by \in tasks[q].stamps
        => bank[b].match.codes \intersect tasks[q].codes = {}

\* A detection that nothing came between leaves nothing for a second one to find.
DetectionIsComplete == \A q \in Request :
    tasks[q].op = "detect" /\ tasks[q].pc = "ok" /\ alone = q =>
        ResolvedBank = {} /\ ResolvedGoals = {}

\* A run that reports no more pending rows, and that nothing came between, has decided
\* every row.
RunDecidesAll == \A q \in Request :
    tasks[q].op = "run" /\ tasks[q].pc = "ok" /\ alone = q /\ ~tasks[q].more => Pending = {}
=============================================================================

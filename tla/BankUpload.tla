----------------------------- MODULE BankUpload -----------------------------
(***************************************************************************)
(* Bank uploads: the routes, the queue "bank-reconciliation" and the two   *)
(* worker programs that both consume it, over the tables of bank batches   *)
(* and bank rows.                                                          *)
(*                                                                         *)
(* "fund-worker" (npm run worker) stores a file in one $transaction or     *)
(* rejects it.  "bank-worker" (npm run worker:bank) stores what it can,    *)
(* row by row.  The older route /api/bank-reconciliation/upload stores     *)
(* rows in the request itself, with no job.                                *)
(*                                                                         *)
(* The fund side is the environment: it takes the steps of FundLedger,     *)
(* which FundUpload implements.                                            *)
(***************************************************************************)
EXTENDS Naturals, FiniteSets

CONSTANTS
    Batch,          \* bank upload batches, one per uploaded file
    Row,            \* rows of all the files, one per batch and row number
    Goal,           \* goal numbers
    BatchOf,        \* the file a row is in
    GoalOf,         \* the goal a row is on
    Unreadable,     \* rows the parser of each worker program skips
    Malformed,      \* rows that break a critical rule no lookup decides
    Direct,         \* files uploaded over the older route
    Workers,        \* the worker programs that run
    Request,        \* requests that undo an upload, each used once
    Ops,            \* the operations each request may ask for
    Faults,         \* the faults that may happen: "api", "db", "worker"
    MaxAttempts,    \* attempts of a job (3 in the code)
    MaxStalled,     \* stalls BullMQ forgives a job (1, its default)
    CrashLimit,     \* bound: worker crashes considered per job
    NULL,           \* no value
    FundFile, FundRow, TxnId, FundFileOf, FundIdOf, FundGoalOf, Opening

ASSUME BankFileAssumption ==
    /\ BatchOf \in [Row -> Batch]
    /\ GoalOf \in [Row -> Goal]
    /\ Unreadable \in [{"fund-worker", "bank-worker"} -> SUBSET Row]
    /\ Malformed \subseteq Row
    /\ Direct \subseteq Batch
    /\ Opening \subseteq Goal
    /\ FundGoalOf \in [FundRow -> Goal]

ASSUME BankBoundAssumption ==
    /\ Workers \subseteq {"fund-worker", "bank-worker"}
    /\ Ops \in [Request -> SUBSET {"cancel", "rollback"}]
    /\ Faults \subseteq {"api", "db", "worker"}
    /\ MaxAttempts \in Nat \ {0}
    /\ MaxStalled \in Nat
    /\ CrashLimit \in Nat
    /\ NULL \notin Batch

VARIABLES
    batches,    \* bank_upload_batches: the processing status of each
    rows,       \* bank_goal_transactions: the stored rows
    jobs,       \* the job of each batch and the worker that runs it
    direct,     \* uploads over the older route in progress
    requests,   \* cancels and rollbacks in progress
    uploading,  \* batches whose upload handler has not enqueued the job yet
    byRow,      \* history: batches a row by row pipeline has worked on
    posted,     \* fund rows in the ledger
    registered  \* goals the registry holds

fundVars == <<posted, registered>>
vars == <<batches, rows, jobs, direct, requests, uploading, byRow, fundVars>>

-----------------------------------------------------------------------------
(* Values *)

Busy == {"PARSING", "VALIDATING", "PROCESSING"}
Gone == {"absent", "deleted"}      \* not created yet, rolled back
Status == Busy \union Gone \union {"QUEUED", "COMPLETED", "FAILED", "CANCELED"}

Place == {"start", "parse", "lookup", "record", "reject", "save", "rows",
          "final", "return", "error", "rethrow"}
Job == [state : {"none", "waiting", "active", "failed"},
        attempts : 0 .. MaxAttempts, stalls : 0 .. CrashLimit,
        pc : Place, worker : Workers \union {NULL}, todo : SUBSET Row]
NoJob == [state |-> "none", attempts |-> 0, stalls |-> 0, pc |-> "start",
          worker |-> NULL, todo |-> {}]
NewJob == [NoJob EXCEPT !.state = "waiting"]

DirectUpload == [pc : {"idle", "parse", "rows", "ok", "failed"},
                 todo : SUBSET Row]

RequestPc == {"idle", "mark", "dequeue", "purge", "remove", "ok", "failed"}
\* "queued" notes whether the job was in the queue when the request came in.
RequestRow == [pc : RequestPc, op : {"cancel", "rollback", NULL},
               batch : Batch \union {NULL}, queued : BOOLEAN]

RowsOf(b) == {r \in Row : BatchOf[r] = b}
StoredOf(b) == rows \intersect RowsOf(b)
Live(b) == batches[b] \notin Gone
Banked == {GoalOf[r] : r \in rows}

Ledger == INSTANCE FundLedger WITH
    File <- FundFile, Row <- FundRow, FileOf <- FundFileOf, IdOf <- FundIdOf,
    GoalOf <- FundGoalOf, banked <- Banked

\* Rows whose account and goal the lookups find.  An account has its goals for
\* as long as it exists, so the goal decides.
Found(R) == {r \in R : GoalOf[r] \in registered}
ParsedBy(w, b) == RowsOf(b) \ Unreadable[w]

\* Critical errors of BankTransactionValidator: rules on the row, and lookups.
Critical(R) == (R \intersect Malformed) \union (R \ Found(R))

-----------------------------------------------------------------------------
Init ==
    /\ batches = [b \in Batch |-> "absent"]
    /\ rows = {}
    /\ jobs = [b \in Batch |-> NoJob]
    /\ direct = [b \in Batch |-> [pc |-> "idle", todo |-> {}]]
    /\ requests = [q \in Request |->
                     [pc |-> "idle", op |-> NULL, batch |-> NULL, queued |-> FALSE]]
    /\ uploading = {}
    /\ byRow = {}
    /\ posted = {}
    /\ registered = Opening

-----------------------------------------------------------------------------
(* POST /api/bank-upload/upload *)

UploadCreate(b) ==
    /\ b \notin Direct
    /\ batches[b] = "absent"
    /\ RowsOf(b) # {}                  \* validateFileStructure: a data row
    /\ batches' = [batches EXCEPT ![b] = "QUEUED"]
    /\ uploading' = uploading \union {b}
    /\ UNCHANGED <<rows, jobs, direct, requests, byRow, fundVars>>

UploadEnqueue(b) ==
    /\ b \in uploading
    /\ uploading' = uploading \ {b}
    /\ jobs' = [jobs EXCEPT ![b] = NewJob]
    /\ UNCHANGED <<batches, rows, direct, requests, byRow, fundVars>>

UploadAborts(b) ==
    /\ "api" \in Faults
    /\ b \in uploading
    /\ uploading' = uploading \ {b}
    /\ UNCHANGED <<batches, rows, jobs, direct, requests, byRow, fundVars>>


-----------------------------------------------------------------------------
(* The queue, and the worker that holds a job's lock *)

At(b, pc) == jobs[b].state = "active" /\ jobs[b].pc = pc
Running(b, w, pc) == At(b, pc) /\ jobs[b].worker = w
Goto(b, pc) == jobs' = [jobs EXCEPT ![b].pc = pc]
Release(b, state) ==
    [jobs[b] EXCEPT !.state = state, !.pc = "start", !.worker = NULL, !.todo = {}]

\* Either program may get the job: the queue and the job's name are the same.
TakeJob(b, w) ==
    /\ jobs[b].state = "waiting"
    /\ jobs' = [jobs EXCEPT ![b].state = "active", ![b].worker = w]
    /\ UNCHANGED <<batches, rows, direct, requests, uploading, byRow, fundVars>>

CompleteJob(b) ==
    /\ At(b, "return")
    /\ jobs' = [jobs EXCEPT ![b] = NoJob]           \* removeOnComplete
    /\ UNCHANGED <<batches, rows, direct, requests, uploading, byRow, fundVars>>

\* Mutants: one attempt too many; attempts that are not counted.
FailAttemptLate(b) ==
    /\ At(b, "rethrow")
    /\ LET used == jobs[b].attempts + 1 IN
       jobs' = [jobs EXCEPT ![b] =
                  [Release(b, IF used <= MaxAttempts THEN "waiting" ELSE "failed")
                   EXCEPT !.attempts = used]]
    /\ UNCHANGED <<batches, rows, direct, requests, uploading, byRow, fundVars>>
FailAttemptUncounted(b) ==
    /\ At(b, "rethrow")
    /\ jobs' = [jobs EXCEPT ![b] = Release(b, "waiting")]
    /\ UNCHANGED <<batches, rows, direct, requests, uploading, byRow, fundVars>>

FailAttempt(b) ==
    /\ At(b, "rethrow")
    /\ LET used == jobs[b].attempts + 1 IN
       jobs' = [jobs EXCEPT ![b] =
                  [Release(b, IF used < MaxAttempts THEN "waiting" ELSE "failed")
                   EXCEPT !.attempts = used]]
    /\ UNCHANGED <<batches, rows, direct, requests, uploading, byRow, fundVars>>

WorkerCrash(b) ==
    /\ "worker" \in Faults
    /\ jobs[b].state = "active"
    /\ jobs[b].stalls < CrashLimit
    /\ jobs' = [jobs EXCEPT ![b] =
                  [Release(b, IF jobs[b].stalls < MaxStalled THEN "waiting" ELSE "failed")
                   EXCEPT !.stalls = @ + 1]]
    /\ UNCHANGED <<batches, rows, direct, requests, uploading, byRow, fundVars>>

\* A call to the database throws: to the catch block, or out of it.  Storing one
\* row of many has a handler of its own, which drops the row.
DbFault(b) ==
    /\ "db" \in Faults
    /\ \/ /\ \E pc \in {"start", "parse", "lookup", "record", "reject", "save", "final"} :
                At(b, pc)
          /\ Goto(b, "error")
       \/ At(b, "error") /\ Goto(b, "rethrow")
       \/ /\ At(b, "rows")
          /\ \E r \in jobs[b].todo : jobs' = [jobs EXCEPT ![b].todo = @ \ {r}]
    /\ UNCHANGED <<batches, rows, direct, requests, uploading, byRow, fundVars>>

-----------------------------------------------------------------------------
(* Steps of BankFileProcessor.processFile and                              *)
(* BankReconciliationService.processUpload that are alike                  *)

\* prisma.bankUploadBatch.update: throws when the row is gone.
UpdateBatch(b, status, next) ==
    IF Live(b)
    THEN batches' = [batches EXCEPT ![b] = status] /\ Goto(b, next)
    ELSE UNCHANGED batches /\ Goto(b, "error")

StartJob(b) ==
    /\ At(b, "start")
    /\ UpdateBatch(b, "PARSING", "parse")
    /\ UNCHANGED <<rows, direct, requests, uploading, byRow, fundVars>>

\* Only processFile refuses a file it could read nothing of.
ParseFile(b) ==
    /\ At(b, "parse")
    /\ IF Running(b, "fund-worker", "parse") /\ ParsedBy("fund-worker", b) = {}
       THEN UNCHANGED batches /\ Goto(b, "error")
       ELSE UpdateBatch(b, "VALIDATING", "lookup")
    /\ UNCHANGED <<rows, direct, requests, uploading, byRow, fundVars>>

MarkCompleted(b) ==
    /\ At(b, "final")
    /\ UpdateBatch(b, "COMPLETED", "return")
    /\ UNCHANGED <<rows, direct, requests, uploading, byRow, fundVars>>

\* The catch block; its own update throws when the row is gone.
RecordError(b) ==
    /\ At(b, "error")
    /\ IF Live(b)
       THEN batches' = [batches EXCEPT ![b] = "FAILED"]
       ELSE UNCHANGED batches
    /\ Goto(b, "rethrow")
    /\ UNCHANGED <<rows, direct, requests, uploading, byRow, fundVars>>

-----------------------------------------------------------------------------
(* "fund-worker": validateBatch looks all goals up; what is saved, or not, is *)
(* decided then.                                                           *)

ValidateFile(b) ==
    /\ Running(b, "fund-worker", "lookup")
    /\ LET parsed == ParsedBy("fund-worker", b) IN
       jobs' = [jobs EXCEPT ![b].todo = parsed \ Critical(parsed), ![b].pc = "record"]
    /\ UNCHANGED <<batches, rows, direct, requests, uploading, byRow, fundVars>>

RecordValidation(b) ==
    /\ Running(b, "fund-worker", "record")
    /\ UpdateBatch(b, "PROCESSING",
                   IF jobs[b].todo = ParsedBy("fund-worker", b) THEN "save" ELSE "reject")
    /\ UNCHANGED <<rows, direct, requests, uploading, byRow, fundVars>>

RejectFile(b) ==
    /\ At(b, "reject")
    /\ UpdateBatch(b, "FAILED", "error")
    /\ UNCHANGED <<rows, direct, requests, uploading, byRow, fundVars>>

\* Mutant: rows whose goal is gone are passed over, as the other pipeline does.
SaveFound(b) ==
    /\ Running(b, "fund-worker", "save")
    /\ IF Live(b)
       THEN rows' = rows \union Found(jobs[b].todo) /\ Goto(b, "final")
       ELSE UNCHANGED rows /\ Goto(b, "error")
    /\ UNCHANGED <<batches, direct, requests, uploading, byRow, fundVars>>

\* Mutant: chunks are inserted without the enclosing $transaction.
SaveChunks(b) ==
    /\ Running(b, "fund-worker", "save")
    /\ IF Live(b) /\ Found(jobs[b].todo) = jobs[b].todo
       THEN \E part \in SUBSET jobs[b].todo :
              /\ rows' = rows \union part
              /\ Goto(b, IF part = jobs[b].todo THEN "final" ELSE "error")
       ELSE UNCHANGED rows /\ Goto(b, "error")
    /\ UNCHANGED <<batches, direct, requests, uploading, byRow, fundVars>>

\* One $transaction that looks every row up again; rows of this batch that are
\* stored already are skipped.
SaveTransactions(b) ==
    /\ Running(b, "fund-worker", "save")
    /\ IF Live(b) /\ Found(jobs[b].todo) = jobs[b].todo
       THEN rows' = rows \union jobs[b].todo /\ Goto(b, "final")
       ELSE UNCHANGED rows /\ Goto(b, "error")
    /\ UNCHANGED <<batches, direct, requests, uploading, byRow, fundVars>>

-----------------------------------------------------------------------------
(* "bank-worker": rows that cannot be looked up are left out, then each row *)
(* is matched and stored on its own.                                       *)

ResolveRows(b) ==
    /\ Running(b, "bank-worker", "lookup")
    /\ LET parsed == ParsedBy("bank-worker", b) IN
       IF Live(b) \/ Found(parsed) = parsed        \* errors are saved on the batch
       THEN jobs' = [jobs EXCEPT ![b].todo = Found(parsed), ![b].pc = "record"]
       ELSE Goto(b, "error")
    /\ UNCHANGED <<batches, rows, direct, requests, uploading, byRow, fundVars>>

BeginRows(b) ==
    /\ Running(b, "bank-worker", "record")
    /\ UpdateBatch(b, "PROCESSING", "rows")
    /\ byRow' = byRow \union {b}
    /\ UNCHANGED <<rows, direct, requests, uploading, fundVars>>

\* Mutant: bank rows refer to their goal by number, with no foreign key.
CreatableAnyway(r) == Live(BatchOf[r]) /\ r \notin rows

\* create: fails for a row stored before, and when the batch or the goal is gone.
Creatable(r) == Live(BatchOf[r]) /\ GoalOf[r] \in registered /\ r \notin rows
Create(r) == rows' = IF Creatable(r) THEN rows \union {r} ELSE rows

MatchAndStore(b, r) ==
    /\ Running(b, "bank-worker", "rows")
    /\ r \in jobs[b].todo
    /\ Create(r)
    /\ jobs' = [jobs EXCEPT ![b].todo = @ \ {r}]
    /\ UNCHANGED <<batches, direct, requests, uploading, byRow, fundVars>>

EndRows(b) ==
    /\ Running(b, "bank-worker", "rows")
    /\ jobs[b].todo = {}
    /\ Goto(b, "final")
    /\ UNCHANGED <<batches, rows, direct, requests, uploading, byRow, fundVars>>

-----------------------------------------------------------------------------
(* POST /api/bank-reconciliation/upload: uploadBankTransactions.  Nothing   *)
(* marks the batch when the request fails.                                 *)

DirectAt(b, pc) == direct[b].pc = pc
DirectGoto(b, pc) == direct' = [direct EXCEPT ![b].pc = pc]

DirectCreate(b) ==
    /\ b \in Direct
    /\ batches[b] = "absent"
    /\ batches' = [batches EXCEPT ![b] = "PARSING"]
    /\ DirectGoto(b, "parse")
    /\ UNCHANGED <<rows, jobs, requests, uploading, byRow, fundVars>>

DirectParse(b) ==
    /\ DirectAt(b, "parse")
    /\ IF Live(b)
       THEN /\ batches' = [batches EXCEPT ![b] = "VALIDATING"]
            /\ direct' = [direct EXCEPT ![b] = [pc |-> "rows",
                                                todo |-> ParsedBy("bank-worker", b)]]
       ELSE UNCHANGED batches /\ DirectGoto(b, "failed")
    /\ byRow' = byRow \union {b}
    /\ UNCHANGED <<rows, jobs, requests, uploading, fundVars>>

\* A row whose goal is missing, or whose create fails, is passed over.
DirectStore(b, r) ==
    /\ DirectAt(b, "rows")
    /\ r \in direct[b].todo
    /\ \/ Create(r)
       \/ "db" \in Faults /\ UNCHANGED rows
    /\ direct' = [direct EXCEPT ![b].todo = @ \ {r}]
    /\ UNCHANGED <<batches, jobs, requests, uploading, byRow, fundVars>>

DirectComplete(b) ==
    /\ DirectAt(b, "rows") /\ direct[b].todo = {}
    /\ IF Live(b)
       THEN batches' = [batches EXCEPT ![b] = "COMPLETED"] /\ DirectGoto(b, "ok")
       ELSE UNCHANGED batches /\ DirectGoto(b, "failed")
    /\ UNCHANGED <<rows, jobs, requests, uploading, byRow, fundVars>>

DirectAborts(b) ==
    /\ "api" \in Faults
    /\ direct[b].pc \in {"parse", "rows"}
    /\ direct' = [direct EXCEPT ![b] = [pc |-> "failed", todo |-> {}]]
    /\ UNCHANGED <<batches, rows, jobs, requests, uploading, byRow, fundVars>>

-----------------------------------------------------------------------------
(* Requests: POST cancel and DELETE rollback.  Neither looks at the status. *)

RequestAt(q, pc) == requests[q].pc = pc
Proceed(q, pc) == requests' = [requests EXCEPT ![q].pc = pc]

Receive(q, op, b, pc) ==
    /\ RequestAt(q, "idle")
    /\ op \in Ops[q]
    /\ Live(b)
    /\ requests' = [requests EXCEPT ![q] =
                      [pc |-> pc, op |-> op, batch |-> b,
                       queued |-> jobs[b].state # "none"]]
    /\ UNCHANGED <<batches, rows, jobs, direct, uploading, byRow, fundVars>>

BeginCancel(q, b) == Receive(q, "cancel", b, "mark")
BeginRollback(q, b) == Receive(q, "rollback", b, "dequeue")

MarkCanceled(q) ==
    /\ RequestAt(q, "mark")
    /\ LET b == requests[q].batch IN
       IF Live(b)
       THEN batches' = [batches EXCEPT ![b] = "CANCELED"] /\ Proceed(q, "dequeue")
       ELSE UNCHANGED batches /\ Proceed(q, "failed")
    /\ UNCHANGED <<rows, jobs, direct, uploading, byRow, fundVars>>

\* Mutant: the job is looked up only, and a running one does not end the request.
DequeueAny(q) ==
    /\ RequestAt(q, "dequeue")
    /\ LET b == requests[q].batch IN
       jobs' = IF jobs[b].state = "active" THEN jobs ELSE [jobs EXCEPT ![b] = NoJob]
    /\ Proceed(q, "purge")
    /\ UNCHANGED <<batches, rows, direct, uploading, byRow, fundVars>>

\* getJob and remove: removing a job a worker holds throws, and the request ends.
Dequeue(q) ==
    /\ RequestAt(q, "dequeue")
    /\ LET b == requests[q].batch IN
       IF jobs[b].state = "active"
       THEN UNCHANGED jobs /\ Proceed(q, "failed")
       ELSE jobs' = [jobs EXCEPT ![b] = NoJob] /\ Proceed(q, "purge")
    /\ UNCHANGED <<batches, rows, direct, uploading, byRow, fundVars>>

Purge(q) ==
    /\ RequestAt(q, "purge")
    /\ rows' = rows \ RowsOf(requests[q].batch)
    /\ Proceed(q, IF requests[q].op = "cancel" THEN "ok" ELSE "remove")
    /\ UNCHANGED <<batches, jobs, direct, uploading, byRow, fundVars>>

\* Mutant: the rows' foreign key does not restrict the delete.
RemoveUnrestricted(q) ==
    /\ RequestAt(q, "remove")
    /\ LET b == requests[q].batch IN
       IF Live(b)
       THEN batches' = [batches EXCEPT ![b] = "deleted"] /\ Proceed(q, "ok")
       ELSE UNCHANGED batches /\ Proceed(q, "failed")
    /\ UNCHANGED <<rows, jobs, direct, uploading, byRow, fundVars>>

\* A statement of its own: it fails when rows were stored after the purge.
RemoveBatch(q) ==
    /\ RequestAt(q, "remove")
    /\ LET b == requests[q].batch IN
       IF Live(b) /\ StoredOf(b) = {}
       THEN batches' = [batches EXCEPT ![b] = "deleted"] /\ Proceed(q, "ok")
       ELSE UNCHANGED batches /\ Proceed(q, "failed")
    /\ UNCHANGED <<rows, jobs, direct, uploading, byRow, fundVars>>

RequestAborts(q) ==
    /\ "api" \in Faults
    /\ requests[q].pc \notin {"idle", "ok", "failed"}
    /\ Proceed(q, "failed")
    /\ UNCHANGED <<batches, rows, jobs, direct, uploading, byRow, fundVars>>

-----------------------------------------------------------------------------
(* Fund uploads, approvals and rollbacks, as FundLedger has them *)

FundStep ==
    /\ UNCHANGED <<batches, rows, jobs, direct, requests, uploading, byRow>>
    /\ \/ \E f \in FundFile : Ledger!Post(f) \/ Ledger!Withdraw(f)
       \/ \E g \in Goal : Ledger!Register(g)

-----------------------------------------------------------------------------
WorkerStep(b) ==
    \/ \E w \in Workers : TakeJob(b, w)
    \/ CompleteJob(b) \/ FailAttempt(b)
    \/ StartJob(b) \/ ParseFile(b) \/ MarkCompleted(b) \/ RecordError(b)
    \/ ValidateFile(b) \/ RecordValidation(b) \/ RejectFile(b) \/ SaveTransactions(b)
    \/ ResolveRows(b) \/ BeginRows(b) \/ EndRows(b)
    \/ \E r \in Row : MatchAndStore(b, r)

DirectStep(b) ==
    \/ DirectParse(b) \/ DirectComplete(b)
    \/ \E r \in Row : DirectStore(b, r)

RequestStep(q) == MarkCanceled(q) \/ Dequeue(q) \/ Purge(q) \/ RemoveBatch(q)

Next ==
    \/ \E b \in Batch : UploadCreate(b) \/ UploadEnqueue(b) \/ UploadAborts(b)
    \/ \E b \in Batch : WorkerStep(b) \/ WorkerCrash(b) \/ DbFault(b)
    \/ \E b \in Batch : DirectCreate(b) \/ DirectStep(b) \/ DirectAborts(b)
    \/ \E q \in Request : \E b \in Batch : BeginCancel(q, b) \/ BeginRollback(q, b)
    \/ \E q \in Request : RequestStep(q) \/ RequestAborts(q)
    \/ FundStep

Spec == Init /\ [][Next]_vars

\* Only the workers owe a step: they take jobs that wait and go on with jobs they
\* hold.  Users, requests, the fund side and faults owe nothing.
Fairness == \A b \in Batch : WF_vars(WorkerStep(b))

FairSpec == Spec /\ Fairness

-----------------------------------------------------------------------------
(* Properties *)

\* Every variable holds a value the tables, the queue and the handlers can hold.
TypeOK ==
    /\ batches \in [Batch -> Status]
    /\ rows \subseteq Row
    /\ jobs \in [Batch -> Job]
    /\ direct \in [Batch -> DirectUpload]
    /\ requests \in [Request -> RequestRow]
    /\ uploading \subseteq Batch
    /\ byRow \subseteq Batch
    /\ posted \subseteq FundRow
    /\ registered \subseteq Goal

\* No bank row outlives its batch or its goal, although rollback deletes rows and
\* batch in separate statements under workers that store more, and fund rollbacks
\* close goals between a lookup and an insert.
ForeignKeys == \A r \in rows : Live(BatchOf[r]) /\ GoalOf[r] \in registered

\* saveTransactions stores a file whole or not at all, through faults, retries,
\* crashes, cancels and rollbacks; the row by row pipelines promise nothing.
AllOrNothing == \A b \in Batch \ byRow :
    StoredOf(b) \in {{}, ParsedBy("fund-worker", b)}

Undone(b) == \E q \in Request : requests[q].batch = b

\* COMPLETED written by processFile means that every row of the file is stored, until
\* somebody undoes the upload: goals closed between validation and save must
\* fail the file and not drop its rows.
CompletedIsWhole == \A b \in Batch \ byRow :
    batches[b] = "COMPLETED" /\ ~Undone(b) => StoredOf(b) = ParsedBy("fund-worker", b)

\* A cancel that is answered "Batch canceled successfully" and came when the job
\* was in the queue leaves no row behind and none comes later: either the job was
\* removed before it ran, or it had ended before the rows were deleted.
CancelHolds == \A q \in Request :
    requests[q].pc = "ok" /\ requests[q].op = "cancel" /\ requests[q].queued
        => StoredOf(requests[q].batch) = {}

\* Seen from the fund tables, bank uploads do what FundLedger lets them do: they
\* come on registered goals and hold those goals open until they leave.
ImplementsLedger == Ledger!Spec

\* Whichever worker takes it, a job is not retried forever: it completes, is
\* removed or fails for good.
JobsFinish == \A b \in Batch :
    jobs[b].state \in {"waiting", "active"} ~> jobs[b].state \notin {"waiting", "active"}
=============================================================================

----------------------------- MODULE FundUpload -----------------------------
(***************************************************************************)
(* The fund upload pipeline: an Express API, a BullMQ queue in Redis, its  *)
(* workers and the PostgreSQL tables they share.                           *)
(*                                                                         *)
(* Every action is one call that commits on its own: one statement or one  *)
(* $transaction on the database, one operation on the queue, or the reads  *)
(* a handler bases its next call on.  What runs between two such calls is  *)
(* local to a worker or to a request and is part of the action before it.  *)
(*                                                                         *)
(* Files are abstracted to sets of rows; a row is known by the file        *)
(* (batch) it comes from, its fundTransactionId and its goal number.       *)
(***************************************************************************)
EXTENDS Naturals, FiniteSets

CONSTANTS
    Batch,          \* ids of upload batches, one per uploaded file
    Row,            \* rows of all the files
    TxnId,          \* values of the fundTransactionId column
    Goal, Account, Client,      \* goal numbers, account numbers, client names
    BatchOf,        \* the file a row is in
    IdOf,           \* the fundTransactionId of a row
    GoalOf,         \* the goal a row is posted to
    AccountOf,      \* the account of a goal
    ClientOf,       \* the client of an account
    Unreadable,     \* rows the parser skips with a warning
    Invalid,        \* rows that fail a CRITICAL row rule
    BadGroup,       \* files with a CRITICAL goal group error
    KnownGoal,      \* goals registered before the first upload
    BankGoal,       \* goals bank uploads may post to
    Copy,           \* numbers of the rows of the clients table with one name
    FirstCopy,      \* the number of the first of them
    Request,        \* HTTP requests to the batch routes, each used once
    Ops,            \* the operations each request may ask for
    Faults,         \* the faults that may happen: "api", "db", "worker"
    MaxAttempts,    \* attempts of a job (3 in the code)
    MaxStalled,     \* stalls BullMQ forgives a job (1, its default)
    CrashLimit,     \* bound: worker crashes considered per job
    NULL            \* no value

Kind == {"process", "resume"}
Operation == {"approve", "reject", "cancel", "rollback"}
JobId == Batch \X Kind
ClientRow == Client \X Copy

ASSUME FileAssumption ==
    /\ BatchOf \in [Row -> Batch]
    /\ IdOf \in [Row -> TxnId]
    /\ GoalOf \in [Row -> Goal]
    /\ AccountOf \in [Goal -> Account]
    /\ ClientOf \in [Account -> Client]
    /\ Unreadable \subseteq Row
    /\ Invalid \subseteq Row
    /\ BadGroup \subseteq Batch

ASSUME EntityAssumption ==
    /\ KnownGoal \subseteq Goal
    /\ BankGoal \subseteq Goal
    /\ FirstCopy \in Copy
    /\ NULL \notin ClientRow

ASSUME BoundAssumption ==
    /\ Ops \in [Request -> SUBSET Operation]
    /\ Faults \subseteq {"api", "db", "worker"}
    /\ MaxAttempts \in Nat \ {0}
    /\ MaxStalled \in Nat
    /\ CrashLimit \in Nat

VARIABLES
    batches,    \* upload_batches: status, approval and new entities report
    clients,    \* clients: the rows, as pairs of a name and a number
    accounts,   \* accounts: the client row of each account number, or NULL
    goals,      \* goals: the registered goal numbers
    bankGoals,  \* goals some row of bank_goal_transactions refers to
    txns,       \* fund_transactions: the client row of each stored row, or NULL
    audited,    \* batches with rows in invalid_fund_transactions
    viewStale,  \* TRUE when fund_transactions changed since the last refresh
    jobs,       \* the queue's jobs and the worker that runs each
    requests,   \* requests in progress
    uploading   \* batches whose upload handler has not enqueued the job yet

entityVars == <<clients, accounts, goals>>
ledgerVars == <<txns, viewStale>>
vars == <<batches, entityVars, bankGoals, ledgerVars, audited,
          jobs, requests, uploading>>

-----------------------------------------------------------------------------
(* Values *)

Busy == {"PARSING", "VALIDATING", "PROCESSING"}
Gone == {"absent", "deleted"}      \* not created yet, rolled back
Status == Busy \union Gone \union
    {"QUEUED", "WAITING_FOR_APPROVAL", "COMPLETED", "FAILED", "CANCELED"}

Report == [clients : SUBSET Client, accounts : SUBSET Account, goals : SUBSET Goal]
NoEntities == [clients |-> {}, accounts |-> {}, goals |-> {}]

BatchRow == [status : Status,
             approval : {"none", "PENDING", "APPROVED", "REJECTED"},
             report : Report]

JobState == {"none", "waiting", "active", "completed", "failed"}
JobPc == {"start", "parse", "validate", "saveInvalid", "rejectRows",
          "rejectGroups", "detect", "pause", "create", "save", "final",
          "refresh", "return", "error", "rethrow"}
Job == [state : JobState, attempts : 0 .. MaxAttempts, stalls : 0 .. CrashLimit,
        pc : JobPc, todo : Report]
NoJob == [state |-> "none", attempts |-> 0, stalls |-> 0, pc |-> "start",
          todo |-> NoEntities]
NewJob == [NoJob EXCEPT !.state = "waiting"]

RequestPc == {"idle", "decide", "enqueue", "mark", "dequeue", "purge",
              "dequeueProcess", "dequeueResume", "recheck", "commit",
              "refresh", "ok", "failed"}
Answered == {"ok", "failed"}
RequestRow == [pc : RequestPc, op : Operation \union {NULL}, batch : Batch \union {NULL}]

-----------------------------------------------------------------------------
(* Files, and what they need of the database *)

RowsOf(b) == {r \in Row : BatchOf[r] = b}
ParsedRows(b) == RowsOf(b) \ Unreadable
InvalidRows(b) == ParsedRows(b) \intersect Invalid

GoalsOf(b) == {GoalOf[r] : r \in ParsedRows(b)}
AccountsOf(b) == {AccountOf[g] : g \in GoalsOf(b)}
ClientsOf(b) == {ClientOf[a] : a \in AccountsOf(b)}

ClientNames == {k[1] : k \in clients}
OpenAccounts == {a \in Account : accounts[a] # NULL}
Stored == {r \in Row : txns[r] # NULL}
StoredOf(b) == Stored \intersect RowsOf(b)

Live(b) == batches[b].status \notin Gone

\* detectNewEntities: what the file names and the tables do not hold.
NewEntities(b) == [clients  |-> ClientsOf(b) \ ClientNames,
                   accounts |-> AccountsOf(b) \ OpenAccounts,
                   goals    |-> GoalsOf(b) \ goals]

Resolvable(b) ==
    /\ ClientsOf(b) \subseteq ClientNames
    /\ AccountsOf(b) \subseteq OpenAccounts
    /\ GoalsOf(b) \subseteq goals

\* Mutants of Fresh: the unique index is (uploadBatchId, rowNumber), as the comment
\* beside createMany has it; or the goal transaction is what may not repeat.
FreshByRow(b) == ParsedRows(b) \ Stored
FreshByGoal(b) == {r \in ParsedRows(b) : \A s \in Stored : GoalOf[s] # GoalOf[r]}

\* Mutant of Insertable: chunks are inserted without the enclosing $transaction.
InsertableChunks(b) == SUBSET {r \in ParsedRows(b) : \A s \in Stored : IdOf[s] # IdOf[r]}

\* Rows createMany would not skip, and what it inserts of them: the unique
\* index on fundTransactionId lets one row in per id.
Fresh(b) == {r \in ParsedRows(b) : \A s \in Stored : IdOf[s] # IdOf[r]}
Insertable(b) ==
    {new \in SUBSET Fresh(b) :
        /\ \A r, s \in new : IdOf[r] = IdOf[s] => r = s
        /\ \A r \in Fresh(b) : \E s \in new : IdOf[s] = IdOf[r]}

-----------------------------------------------------------------------------
Init ==
    /\ batches = [b \in Batch |-> [status |-> "absent", approval |-> "none",
                                   report |-> NoEntities]]
    /\ goals = KnownGoal
    /\ accounts = [a \in Account |->
                     IF a \in {AccountOf[g] : g \in KnownGoal}
                     THEN <<ClientOf[a], FirstCopy>> ELSE NULL]
    /\ clients = {<<ClientOf[AccountOf[g]], FirstCopy>> : g \in KnownGoal}
    /\ bankGoals = {}
    /\ txns = [r \in Row |-> NULL]
    /\ audited = {}
    /\ viewStale = FALSE
    /\ jobs = [j \in JobId |-> NoJob]
    /\ requests = [q \in Request |-> [pc |-> "idle", op |-> NULL, batch |-> NULL]]
    /\ uploading = {}

-----------------------------------------------------------------------------
(* POST /upload: create the batch, then enqueue its job under the batch id. *)

UploadCreate(b) ==
    /\ batches[b].status = "absent"
    /\ RowsOf(b) # {}                  \* validateFile: at least one data row
    /\ batches' = [batches EXCEPT ![b].status = "QUEUED"]
    /\ uploading' = uploading \union {b}
    /\ UNCHANGED <<entityVars, bankGoals, ledgerVars, audited, jobs, requests>>

UploadEnqueue(b) ==
    /\ b \in uploading
    /\ uploading' = uploading \ {b}
    /\ jobs' = [jobs EXCEPT ![<<b, "process">>] = NewJob]
    /\ UNCHANGED <<batches, entityVars, bankGoals, ledgerVars, audited, requests>>

UploadAborts(b) ==
    /\ "api" \in Faults
    /\ b \in uploading
    /\ uploading' = uploading \ {b}
    /\ UNCHANGED <<batches, entityVars, bankGoals, ledgerVars, audited, jobs, requests>>

-----------------------------------------------------------------------------
(* The queue and the worker that holds a job's lock. *)

At(j, pc) == jobs[j].state = "active" /\ jobs[j].pc = pc
Goto(j, pc) == jobs' = [jobs EXCEPT ![j].pc = pc]

\* A job that leaves its worker starts from the beginning if it runs again.
Release(j, state) == [jobs[j] EXCEPT !.state = state, !.pc = "start", !.todo = NoEntities]

TakeJob(j) ==
    /\ jobs[j].state = "waiting"
    /\ jobs' = [jobs EXCEPT ![j].state = "active"]
    /\ UNCHANGED <<batches, entityVars, bankGoals, ledgerVars, audited, requests, uploading>>

\* removeOnComplete is TRUE for process jobs only; a finished resume job keeps its id.
CompleteJob(j) ==
    /\ At(j, "return")
    /\ jobs' = [jobs EXCEPT ![j] = IF j[2] = "process" THEN NoJob
                                   ELSE Release(j, "completed")]
    /\ UNCHANGED <<batches, entityVars, bankGoals, ledgerVars, audited, requests, uploading>>

\* Mutants of FailAttempt: one attempt too many; attempts that are not counted.
FailAttemptLate(j) ==
    /\ At(j, "rethrow")
    /\ LET used == jobs[j].attempts + 1 IN
       jobs' = [jobs EXCEPT ![j] =
                  [Release(j, IF used <= MaxAttempts THEN "waiting" ELSE "failed")
                   EXCEPT !.attempts = used]]
    /\ UNCHANGED <<batches, entityVars, bankGoals, ledgerVars, audited, requests, uploading>>
FailAttemptUncounted(j) ==
    /\ At(j, "rethrow")
    /\ jobs' = [jobs EXCEPT ![j] = Release(j, "waiting")]
    /\ UNCHANGED <<batches, entityVars, bankGoals, ledgerVars, audited, requests, uploading>>

FailAttempt(j) ==
    /\ At(j, "rethrow")
    /\ LET used == jobs[j].attempts + 1 IN
       jobs' = [jobs EXCEPT ![j] =
                  [Release(j, IF used < MaxAttempts THEN "waiting" ELSE "failed")
                   EXCEPT !.attempts = used]]
    /\ UNCHANGED <<batches, entityVars, bankGoals, ledgerVars, audited, requests, uploading>>

\* Mutant: no stall is forgiven.
WorkerCrashUnforgiven(j) ==
    /\ "worker" \in Faults
    /\ jobs[j].state = "active"
    /\ jobs[j].stalls < CrashLimit
    /\ jobs' = [jobs EXCEPT ![j] = [Release(j, "failed") EXCEPT !.stalls = @ + 1]]
    /\ UNCHANGED <<batches, entityVars, bankGoals, ledgerVars, audited, requests, uploading>>

\* The worker dies with the job: no handler runs.  The stalled check gives the
\* job back, or fails it once it has stalled more often than is forgiven.
WorkerCrash(j) ==
    /\ "worker" \in Faults
    /\ jobs[j].state = "active"
    /\ jobs[j].stalls < CrashLimit
    /\ jobs' = [jobs EXCEPT ![j] =
                  [Release(j, IF jobs[j].stalls < MaxStalled THEN "waiting" ELSE "failed")
                   EXCEPT !.stalls = @ + 1]]
    /\ UNCHANGED <<batches, entityVars, bankGoals, ledgerVars, audited, requests, uploading>>

\* A call to the database throws: to the catch block, or out of it.
Throwing == {"start", "parse", "validate", "saveInvalid", "rejectRows",
             "rejectGroups", "detect", "pause", "create", "save", "final"}

DbFault(j) ==
    /\ "db" \in Faults
    /\ \/ \E pc \in Throwing : At(j, pc) /\ Goto(j, "error")
       \/ At(j, "error") /\ Goto(j, "rethrow")
    /\ UNCHANGED <<batches, entityVars, bankGoals, ledgerVars, audited, requests, uploading>>

-----------------------------------------------------------------------------
(* FundFileProcessor.processFile and resumeProcessing, call by call. *)

\* prisma.uploadBatch.update: throws when the row is gone.
UpdateBatch(j, status, next) ==
    IF Live(j[1])
    THEN batches' = [batches EXCEPT ![j[1]].status = status] /\ Goto(j, next)
    ELSE UNCHANGED batches /\ Goto(j, "error")

StartProcess(j) ==
    /\ At(j, "start") /\ j[2] = "process"
    /\ UpdateBatch(j, "PARSING", "parse")
    /\ UNCHANGED <<entityVars, bankGoals, ledgerVars, audited, requests, uploading>>

ParseFile(j) ==
    /\ At(j, "parse")
    /\ IF ParsedRows(j[1]) = {}
       THEN UNCHANGED batches /\ Goto(j, "error")
       ELSE UpdateBatch(j, "VALIDATING", "validate")
    /\ UNCHANGED <<entityVars, bankGoals, ledgerVars, audited, requests, uploading>>

\* Mutant: the goal groups are validated and their errors are not acted on.
AfterRowValidation(b) == IF InvalidRows(b) # {} THEN "saveInvalid" ELSE "detect"

AfterValidation(b) ==
    CASE InvalidRows(b) # {} -> "saveInvalid"
      [] InvalidRows(b) = {} /\ b \in BadGroup -> "rejectGroups"
      [] OTHER -> "detect"

ValidateFile(j) ==
    /\ At(j, "validate")
    /\ UpdateBatch(j, "PROCESSING", AfterValidation(j[1]))
    /\ UNCHANGED <<entityVars, bankGoals, ledgerVars, audited, requests, uploading>>

SaveInvalid(j) ==
    /\ At(j, "saveInvalid")
    /\ IF Live(j[1])
       THEN audited' = audited \union {j[1]} /\ Goto(j, "rejectRows")
       ELSE UNCHANGED audited /\ Goto(j, "error")
    /\ UNCHANGED <<batches, entityVars, bankGoals, ledgerVars, requests, uploading>>

RejectRows(j) ==
    /\ At(j, "rejectRows")
    /\ UpdateBatch(j, "FAILED", "error")
    /\ UNCHANGED <<entityVars, bankGoals, ledgerVars, audited, requests, uploading>>

\* Looks the batch up first; the error that follows is not written over it.
RejectGroups(j) ==
    /\ At(j, "rejectGroups")
    /\ IF Live(j[1])
       THEN batches' = [batches EXCEPT ![j[1]].status = "FAILED"]
       ELSE UNCHANGED batches
    /\ Goto(j, "rethrow")
    /\ UNCHANGED <<entityVars, bankGoals, ledgerVars, audited, requests, uploading>>

\* Reads the entity tables; the report is held until Pause writes it.
DetectEntities(j) ==
    /\ At(j, "detect")
    /\ LET new == NewEntities(j[1]) IN
       jobs' = [jobs EXCEPT ![j].todo = new,
                            ![j].pc = IF new = NoEntities THEN "save" ELSE "pause"]
    /\ UNCHANGED <<batches, entityVars, bankGoals, ledgerVars, audited, requests, uploading>>

Pause(j) ==
    /\ At(j, "pause")
    /\ IF Live(j[1])
       THEN /\ batches' = [batches EXCEPT ![j[1]] =
                             [status |-> "WAITING_FOR_APPROVAL", approval |-> "PENDING",
                              report |-> jobs[j].todo]]
            /\ Goto(j, "return")
       ELSE UNCHANGED batches /\ Goto(j, "error")
    /\ UNCHANGED <<entityVars, bankGoals, ledgerVars, audited, requests, uploading>>

MayResume(b) == Live(b) /\ batches[b].approval = "APPROVED"

\* Once the entities are there the file is parsed and validated again, with the outcome
\* it had before: only warnings depend on the day.
AfterCreate(left) == IF left = NoEntities THEN "save" ELSE "create"

StartResume(j) ==
    /\ At(j, "start") /\ j[2] = "resume"
    /\ IF MayResume(j[1])
       THEN LET report == batches[j[1]].report IN
            jobs' = [jobs EXCEPT ![j].todo = report, ![j].pc = AfterCreate(report)]
       ELSE Goto(j, "error")
    /\ UNCHANGED <<batches, entityVars, bankGoals, ledgerVars, audited, requests, uploading>>

-----------------------------------------------------------------------------
(* EntityCreator.createApprovedEntities: clients, then accounts, then goals. *)

Remaining(j) == jobs[j].todo
Created(j, left) ==
    jobs' = [jobs EXCEPT ![j].todo = left, ![j].pc = AfterCreate(left)]

\* clientName is not unique: create never finds the name taken.
Unused(c) == {k \in {c} \X Copy : k \notin clients}

CreateClient(j, c) ==
    /\ At(j, "create")
    /\ c \in Remaining(j).clients
    /\ Unused(c) # {}                  \* bound: Copy
    /\ clients' = clients \union {CHOOSE k \in Unused(c) : TRUE}
    /\ Created(j, [Remaining(j) EXCEPT !.clients = @ \ {c}])
    /\ UNCHANGED <<batches, accounts, goals, bankGoals, ledgerVars, audited,
                   requests, uploading>>

\* findFirst may return any client of that name; accountNumber is unique.
CreateAccount(j, a) ==
    /\ At(j, "create")
    /\ Remaining(j).clients = {}
    /\ a \in Remaining(j).accounts
    /\ LET owners == {k \in clients : k[1] = ClientOf[a]} IN
       IF accounts[a] = NULL /\ owners # {}
       THEN \E k \in owners : accounts' = [accounts EXCEPT ![a] = k]
       ELSE UNCHANGED accounts
    /\ Created(j, [Remaining(j) EXCEPT !.accounts = @ \ {a}])
    /\ UNCHANGED <<batches, clients, goals, bankGoals, ledgerVars, audited,
                   requests, uploading>>

CreateGoal(j, g) ==
    /\ At(j, "create")
    /\ Remaining(j).clients = {} /\ Remaining(j).accounts = {}
    /\ g \in Remaining(j).goals
    /\ goals' = IF AccountOf[g] \in OpenAccounts THEN goals \union {g} ELSE goals
    /\ Created(j, [Remaining(j) EXCEPT !.goals = @ \ {g}])
    /\ UNCHANGED <<batches, clients, accounts, bankGoals, ledgerVars, audited,
                   requests, uploading>>

-----------------------------------------------------------------------------
(* finalizeProcessing *)

\* One $transaction: all the rows createMany does not skip, or none.  The row
\* gets the client that clientName resolves to, which is any of that name.
SaveTransactions(j) ==
    /\ At(j, "save")
    /\ LET b == j[1] IN
       IF Live(b) /\ Resolvable(b)
       THEN \E new \in Insertable(b), resolve \in [ClientsOf(b) -> Copy] :
              /\ \A c \in ClientsOf(b) : <<c, resolve[c]>> \in clients
              /\ txns' = [r \in Row |->
                            LET c == ClientOf[AccountOf[GoalOf[r]]] IN
                            IF r \in new THEN <<c, resolve[c]>> ELSE txns[r]]
              /\ viewStale' = (viewStale \/ new # {})
              /\ Goto(j, "final")
       ELSE UNCHANGED ledgerVars /\ Goto(j, "error")
    /\ UNCHANGED <<batches, entityVars, bankGoals, audited, requests, uploading>>

MarkCompleted(j) ==
    /\ At(j, "final")
    /\ UpdateBatch(j, "COMPLETED", "refresh")
    /\ UNCHANGED <<entityVars, bankGoals, ledgerVars, audited, requests, uploading>>

\* A view that fails to refresh is logged and stays as it was.
Refreshed == IF "db" \in Faults THEN {FALSE, viewStale} ELSE {FALSE}

RefreshViews(j) ==
    /\ At(j, "refresh")
    /\ viewStale' \in Refreshed
    /\ Goto(j, "return")
    /\ UNCHANGED <<batches, entityVars, bankGoals, txns, audited, requests, uploading>>

\* The catch block; its own update throws when the row is gone.
RecordError(j) ==
    /\ At(j, "error")
    /\ IF Live(j[1])
       THEN batches' = [batches EXCEPT ![j[1]].status = "FAILED"]
       ELSE UNCHANGED batches
    /\ Goto(j, "rethrow")
    /\ UNCHANGED <<entityVars, bankGoals, ledgerVars, audited, requests, uploading>>

-----------------------------------------------------------------------------
(* Requests: POST approve-entities, POST cancel, DELETE rollback *)

RequestAt(q, pc) == requests[q].pc = pc
Proceed(q, pc) == requests' = [requests EXCEPT ![q].pc = pc]

Receive(q, op, b, pc) ==
    /\ RequestAt(q, "idle")
    /\ op \in Ops[q]
    /\ requests' = [requests EXCEPT ![q] = [pc |-> pc, op |-> op, batch |-> b]]
    /\ UNCHANGED <<batches, entityVars, bankGoals, ledgerVars, audited, jobs, uploading>>

\* The status is read here and not again before Decide writes it.
BeginDecision(q, b) ==
    /\ batches[b].status = "WAITING_FOR_APPROVAL"
    /\ \E op \in {"approve", "reject"} : Receive(q, op, b, "decide")

\* Mutant: an approval leaves the status for the resume job to set.
DecideUnstarted(q) ==
    /\ RequestAt(q, "decide")
    /\ LET b == requests[q].batch
           approved == requests[q].op = "approve" IN
       IF Live(b)
       THEN /\ batches' = [batches EXCEPT
                 ![b].approval = IF approved THEN "APPROVED" ELSE "REJECTED",
                 ![b].status = IF approved THEN @ ELSE "FAILED"]
            /\ Proceed(q, IF approved THEN "enqueue" ELSE "ok")
       ELSE UNCHANGED batches /\ Proceed(q, "failed")
    /\ UNCHANGED <<entityVars, bankGoals, ledgerVars, audited, jobs, uploading>>

Decide(q) ==
    /\ RequestAt(q, "decide")
    /\ LET b == requests[q].batch
           approved == requests[q].op = "approve" IN
       IF Live(b)
       THEN /\ batches' = [batches EXCEPT
                 ![b].approval = IF approved THEN "APPROVED" ELSE "REJECTED",
                 ![b].status = IF approved THEN "PROCESSING" ELSE "FAILED"]
            /\ Proceed(q, IF approved THEN "enqueue" ELSE "ok")
       ELSE UNCHANGED batches /\ Proceed(q, "failed")
    /\ UNCHANGED <<entityVars, bankGoals, ledgerVars, audited, jobs, uploading>>

\* The queue ignores a job whose id it still holds.
EnqueueResume(q) ==
    /\ RequestAt(q, "enqueue")
    /\ LET j == <<requests[q].batch, "resume">> IN
       IF jobs[j].state = "none" THEN jobs' = [jobs EXCEPT ![j] = NewJob]
                                 ELSE UNCHANGED jobs
    /\ Proceed(q, "ok")
    /\ UNCHANGED <<batches, entityVars, bankGoals, ledgerVars, audited, uploading>>

BeginCancel(q, b) == Live(b) /\ Receive(q, "cancel", b, "mark")

MarkCanceled(q) ==
    /\ RequestAt(q, "mark")
    /\ LET b == requests[q].batch IN
       IF Live(b)
       THEN batches' = [batches EXCEPT ![b].status = "CANCELED"] /\ Proceed(q, "dequeue")
       ELSE UNCHANGED batches /\ Proceed(q, "failed")
    /\ UNCHANGED <<entityVars, bankGoals, ledgerVars, audited, jobs, uploading>>

\* Mutant: a job is removed although a worker holds it.
DequeueHeld(q, kind, next) ==
    /\ jobs' = [jobs EXCEPT ![<<requests[q].batch, kind>>] = NoJob]
    /\ Proceed(q, next)
    /\ UNCHANGED <<batches, entityVars, bankGoals, ledgerVars, audited, uploading>>

\* getJob and remove: removing a job a worker holds throws, and the request ends.
Dequeue(q, kind, next) ==
    /\ LET j == <<requests[q].batch, kind>> IN
       IF jobs[j].state = "active"
       THEN UNCHANGED jobs /\ Proceed(q, "failed")
       ELSE jobs' = [jobs EXCEPT ![j] = NoJob] /\ Proceed(q, next)
    /\ UNCHANGED <<batches, entityVars, bankGoals, ledgerVars, audited, uploading>>

DequeueCanceled(q) == RequestAt(q, "dequeue") /\ Dequeue(q, "process", "purge")

PurgeCanceled(q) ==
    /\ RequestAt(q, "purge")
    /\ LET b == requests[q].batch IN
       /\ txns' = [r \in Row |-> IF BatchOf[r] = b THEN NULL ELSE txns[r]]
       /\ viewStale' = (viewStale \/ StoredOf(b) # {})
       /\ audited' = audited \ {b}
    /\ Proceed(q, "ok")
    /\ UNCHANGED <<batches, entityVars, bankGoals, jobs, uploading>>

CanRollback(b) == Live(b) /\ batches[b].status \notin Busy

BeginRollback(q, b) == CanRollback(b) /\ Receive(q, "rollback", b, "dequeueProcess")

DequeueProcess(q) ==
    RequestAt(q, "dequeueProcess") /\ Dequeue(q, "process", "dequeueResume")

DequeueResume(q) ==
    RequestAt(q, "dequeueResume") /\ Dequeue(q, "resume", "recheck")

RecheckRollback(q) ==
    /\ RequestAt(q, "recheck")
    /\ Proceed(q, IF CanRollback(requests[q].batch) THEN "commit" ELSE "failed")
    /\ UNCHANGED <<batches, entityVars, bankGoals, ledgerVars, audited, jobs, uploading>>

\* Mutants: the rows of other batches, the bank rows or the goals left on the
\* account are not counted.
GoalsWithoutOtherRows(b) == {GoalOf[r] : r \in StoredOf(b)} \ bankGoals
GoalsWithoutBank(b) ==
    {GoalOf[r] : r \in StoredOf(b)} \ {GoalOf[r] : r \in Stored \ RowsOf(b)}
AccountsWithRows(b) == {AccountOf[GoalOf[r]] : r \in StoredOf(b)}

\* What rollbackBatch deletes with b's rows: what no other row, bank row, goal
\* or account needs any more.
OrphanGoals(b) ==
    {GoalOf[r] : r \in StoredOf(b)}
        \ ({GoalOf[r] : r \in Stored \ RowsOf(b)} \union bankGoals)
OrphanAccounts(b) ==
    {AccountOf[GoalOf[r]] : r \in StoredOf(b)}
        \ {AccountOf[g] : g \in goals \ OrphanGoals(b)}
OrphanClients(b) ==
    {txns[r] : r \in StoredOf(b)}
        \ {accounts[a] : a \in OpenAccounts \ OrphanAccounts(b)}

\* onDelete: Restrict on the foreign keys of fund_transactions.
Restricted(b) == \E r \in Stored \ RowsOf(b) :
    \/ GoalOf[r] \in OrphanGoals(b)
    \/ AccountOf[GoalOf[r]] \in OrphanAccounts(b)
    \/ txns[r] \in OrphanClients(b)

RemoveBatch(b) ==
    /\ clients' = clients \ OrphanClients(b)
    /\ accounts' = [a \in Account |->
                      IF a \in OrphanAccounts(b) THEN NULL ELSE accounts[a]]
    /\ goals' = goals \ OrphanGoals(b)
    /\ txns' = [r \in Row |-> IF BatchOf[r] = b THEN NULL ELSE txns[r]]
    /\ viewStale' = (viewStale \/ StoredOf(b) # {})
    /\ audited' = audited \ {b}
    /\ batches' = [batches EXCEPT ![b] = [status |-> "deleted", approval |-> "none",
                                          report |-> NoEntities]]

\* One $transaction; it does not read the status again.
CommitRollback(q) ==
    /\ RequestAt(q, "commit")
    /\ LET b == requests[q].batch IN
       IF Live(b) /\ ~Restricted(b)
       THEN RemoveBatch(b) /\ Proceed(q, "refresh")
       ELSE /\ Proceed(q, "failed")
            /\ UNCHANGED <<batches, entityVars, ledgerVars, audited>>
    /\ UNCHANGED <<bankGoals, jobs, uploading>>

RefreshAfterRollback(q) ==
    /\ RequestAt(q, "refresh")
    /\ viewStale' \in Refreshed
    /\ Proceed(q, "ok")
    /\ UNCHANGED <<batches, entityVars, bankGoals, txns, audited, jobs, uploading>>

\* The API process dies, or a call it waits for throws.
RequestAborts(q) ==
    /\ "api" \in Faults
    /\ requests[q].pc \notin {"idle"} \union Answered
    /\ Proceed(q, "failed")
    /\ UNCHANGED <<batches, entityVars, bankGoals, ledgerVars, audited, jobs, uploading>>

-----------------------------------------------------------------------------
(* Bank uploads, as the fund tables see them *)

BankPost(g) ==
    /\ g \in (BankGoal \intersect goals) \ bankGoals
    /\ bankGoals' = bankGoals \union {g}
    /\ UNCHANGED <<batches, entityVars, ledgerVars, audited, jobs, requests, uploading>>

BankWithdraw(g) ==
    /\ g \in bankGoals
    /\ bankGoals' = bankGoals \ {g}
    /\ UNCHANGED <<batches, entityVars, ledgerVars, audited, jobs, requests, uploading>>

-----------------------------------------------------------------------------
WorkerStep(j) ==
    \/ TakeJob(j) \/ CompleteJob(j) \/ FailAttempt(j)
    \/ StartProcess(j) \/ ParseFile(j) \/ ValidateFile(j)
    \/ SaveInvalid(j) \/ RejectRows(j) \/ RejectGroups(j)
    \/ DetectEntities(j) \/ Pause(j) \/ StartResume(j)
    \/ \E c \in Client : CreateClient(j, c)
    \/ \E a \in Account : CreateAccount(j, a)
    \/ \E g \in Goal : CreateGoal(j, g)
    \/ SaveTransactions(j) \/ MarkCompleted(j) \/ RefreshViews(j)
    \/ RecordError(j)

RequestStep(q) ==
    \/ Decide(q) \/ EnqueueResume(q)
    \/ MarkCanceled(q) \/ DequeueCanceled(q) \/ PurgeCanceled(q)
    \/ DequeueProcess(q) \/ DequeueResume(q) \/ RecheckRollback(q)
    \/ CommitRollback(q) \/ RefreshAfterRollback(q)

BeginRequest(q, b) == BeginDecision(q, b) \/ BeginCancel(q, b) \/ BeginRollback(q, b)

Next ==
    \/ \E b \in Batch : UploadCreate(b) \/ UploadEnqueue(b) \/ UploadAborts(b)
    \/ \E j \in JobId : WorkerStep(j) \/ WorkerCrash(j) \/ DbFault(j)
    \/ \E q \in Request, b \in Batch : BeginRequest(q, b)
    \/ \E q \in Request : RequestStep(q) \/ RequestAborts(q)
    \/ \E g \in Goal : BankPost(g) \/ BankWithdraw(g)

Spec == Init /\ [][Next]_vars

\* The API and the workers take the next step of what they have begun.  Users,
\* bank uploads and faults owe nothing.
Fairness ==
    /\ \A b \in Batch : WF_vars(UploadEnqueue(b))
    /\ \A j \in JobId : WF_vars(WorkerStep(j))
    /\ \A q \in Request : WF_vars(RequestStep(q))

FairSpec == Spec /\ Fairness

-----------------------------------------------------------------------------
(* Properties *)

\* Every variable holds a value the tables, the queue and the handlers can hold.
TypeOK ==
    /\ batches \in [Batch -> BatchRow]
    /\ clients \subseteq ClientRow
    /\ accounts \in [Account -> ClientRow \union {NULL}]
    /\ goals \subseteq Goal
    /\ bankGoals \subseteq Goal
    /\ txns \in [Row -> ClientRow \union {NULL}]
    /\ audited \subseteq Batch
    /\ viewStale \in BOOLEAN
    /\ jobs \in [JobId -> Job]
    /\ requests \in [Request -> RequestRow]
    /\ uploading \subseteq Batch

RowsResolve == \A r \in Stored :
    /\ Live(BatchOf[r])
    /\ GoalOf[r] \in goals
    /\ txns[r] \in clients
GoalsResolve == \A g \in goals : AccountOf[g] \in OpenAccounts
AccountsResolve == \A a \in OpenAccounts : accounts[a] \in clients
BankResolves == bankGoals \subseteq goals

\* Every reference in the tables has its target, whatever uploads, approvals,
\* rollbacks, cancels and bank uploads overlap: saveTransactions resolves what
\* it inserts, and rollbackBatch deletes only what nothing else needs.
ForeignKeys == RowsResolve /\ GoalsResolve /\ AccountsResolve /\ BankResolves

\* rollbackBatch's own counts are enough for goals and accounts: it never asks
\* the database to delete a goal or an account another upload's row is on.
SweepSparesSharedEntities == \A b \in Batch : \A r \in Stored \ RowsOf(b) :
    /\ GoalOf[r] \notin OrphanGoals(b)
    /\ AccountOf[GoalOf[r]] \notin OrphanAccounts(b)

\* No fundTransactionId is stored twice, however often a job is retried or run
\* again after a crash, and whatever other files hold.
SingleCopy == \A r, s \in Stored : IdOf[r] = IdOf[s] => r = s

\* Readers see whole files come and go: the pipeline implements FundLedger.
Ledger == INSTANCE FundLedger WITH
    File <- Batch, FileOf <- BatchOf, Opening <- KnownGoal,
    posted <- Stored, registered <- goals, banked <- bankGoals
ImplementsLedger == Ledger!Spec

\* A file with an invalid row or a broken goal group never reaches the ledger and
\* never waits for approval, although resumeProcessing does not check the goal
\* groups again.
InvalidFilesStayOut == \A b \in Batch :
    InvalidRows(b) # {} \/ b \in BadGroup =>
        /\ StoredOf(b) = {}
        /\ batches[b].status \notin {"WAITING_FOR_APPROVAL", "COMPLETED"}

\* The rows of a file are stored together or not at all (for files that share no
\* fundTransactionId), through faults in the middle of any handler.
AllOrNothing == \A b \in Batch :
    StoredOf(b) \in {{}, ParsedRows(b)}

\* A batch marked COMPLETED has every row of its file stored.
CompletedIsWhole == \A b \in Batch :
    batches[b].status = "COMPLETED" => StoredOf(b) = ParsedRows(b)

\* A batch that asks for approval has posted nothing yet: decisions, retries and
\* undoing requests that overlap never leave rows behind the question.
WaitingMeansUnposted == \A b \in Batch :
    batches[b].status = "WAITING_FOR_APPROVAL" => StoredOf(b) = {}

Unsettled(b) == batches[b].status \in {"QUEUED"} \union Busy

\* An accepted upload does not stay queued or in progress: it is settled by its
\* worker or by the request that overtakes it.
UploadSettles == \A b \in Batch : Unsettled(b) ~> ~Unsettled(b)

\* What may leave a batch unfinished: an approval that overlaps with another one or with
\* a rollback, and a job that goes back to its queue, where a request removes it.
About(b) == {q \in Request : ~RequestAt(q, "idle") /\ requests[q].batch = b}
Contended(b) ==
    \/ \E p, q \in About(b) : /\ p # q /\ requests[p].op = "approve"
                             /\ requests[q].op \in {"approve", "rollback"}
    \/ "worker" \in Faults /\ \E q \in About(b) : requests[q].op \in {"cancel", "rollback"}

\* A worker has the batch or will take it, or a request is about to see to it: an approval
\* queues the resume job, a rollback that has taken a new file off the queue removes it.
InHand(b) ==
    \/ \E kind \in Kind : /\ jobs[<<b, kind>>].state \in {"waiting", "active"}
                         /\ jobs[<<b, kind>>].pc \notin {"refresh", "return", "rethrow"}
    \/ \E q \in About(b) : RequestAt(q, "enqueue")
    \/ /\ batches[b].status = "QUEUED"
       /\ \/ b \in uploading
          \/ \E q \in About(b) : requests[q].pc \in {"dequeueResume", "recheck", "commit"}

\* An upload that is queued is in somebody's hands, whatever decisions, cancels and
\* rollbacks overlap with its jobs, and so is one in progress, unless they contend for it:
\* no batch stays in a state that only a job or a request would end, with neither left.
WorkIsInHand == \A b \in Batch : Unsettled(b) =>
    InHand(b) \/ (batches[b].status \in Busy /\ Contended(b))

\* A queued job is not retried forever: it completes, is removed or fails for good.
JobsFinish == \A j \in JobId :
    jobs[j].state \in {"waiting", "active"} ~> jobs[j].state \notin {"waiting", "active"}

-----------------------------------------------------------------------------
(* What the repository says of itself, and the pipeline does not keep *)

\* "Entities approved. Processing resumed." (fundUploadRoutes.ts:255): processing
\* of an approved batch goes on, and ends.
ApprovalResumes == \A q \in Request, b \in Batch :
    (requests[q] = [pc |-> "ok", op |-> "approve", batch |-> b])
        ~> batches[b].status # "PROCESSING"

\* "Skip if already exists (race condition)" (EntityCreator.ts:39): approving the
\* same name twice leaves one client of that name.
ClientsAreUnique == \A k, m \in clients : k[1] = m[1] => k = m

\* "Cannot delete batches that are currently PARSING, VALIDATING, or PROCESSING"
\* (ROLLBACK_FEATURE.md:70).
RollbackWaits == [][\A b \in Batch :
    batches[b].status \in Busy => batches'[b].status # "deleted"]_vars
=============================================================================

-------------------------- MODULE FundUpload_proofs --------------------------
(***************************************************************************)
(* Theorems about FundUpload, for any files, entities, requests and bounds *)
(* that satisfy its assumptions.                                           *)
(***************************************************************************)
EXTENDS FundUpload, TLAPS

\* A job in the queue or with a worker has an attempt left to lose.
AttemptLeft == \A j \in JobId :
    jobs[j].state \in {"waiting", "active"} => jobs[j].attempts < MaxAttempts

\* A request that has begun is about a batch.
Addressed == \A q \in Request : requests[q].pc # "idle" => requests[q].batch \in Batch

TypeInv == TypeOK /\ AttemptLeft /\ Addressed

JobsOK == jobs \in [JobId -> Job] /\ AttemptLeft
RequestsOK == requests \in [Request -> RequestRow] /\ Addressed

-----------------------------------------------------------------------------
(* What the helpers of the actions do to the types *)

LEMMA JobParts == \A j \in JobId : j[1] \in Batch /\ j[2] \in Kind
BY DEF JobId

LEMMA NoJobType == /\ NoJob \in Job /\ NoJob.state = "none"
                   /\ NewJob \in Job /\ NewJob.attempts < MaxAttempts
BY BoundAssumption DEF NoJob, NewJob, Job, JobState, JobPc, Report, NoEntities

LEMMA GotoType ==
    ASSUME JobsOK, NEW j \in JobId, NEW pc \in JobPc, Goto(j, pc)
    PROVE  JobsOK'
BY DEF JobsOK, AttemptLeft, Goto, Job

LEMMA ReleaseType ==
    ASSUME JobsOK, NEW j \in JobId, NEW state \in JobState
    PROVE  /\ Release(j, state) \in Job
           /\ Release(j, state).state = state
           /\ Release(j, state).attempts = jobs[j].attempts
           /\ Release(j, state).stalls = jobs[j].stalls
BY DEF JobsOK, Release, Job, JobPc, NoEntities, Report

\* An enqueued job is typed and has its attempts before it.
LEMMA EnqueueType ==
    ASSUME JobsOK, NEW j, jobs' = [jobs EXCEPT ![j] = NewJob]
    PROVE  JobsOK'
BY NoJobType DEF JobsOK, AttemptLeft

\* Replacing one job by another that has an attempt left keeps the jobs typed.
LEMMA ReplaceType ==
    ASSUME JobsOK, NEW j, NEW job \in Job,
           job.state \in {"waiting", "active"} => job.attempts < MaxAttempts,
           jobs' = [jobs EXCEPT ![j] = job]
    PROVE  JobsOK'
BY DEF JobsOK, AttemptLeft

LEMMA UpdateBatchType ==
    ASSUME TypeOK, JobsOK, NEW j \in JobId, NEW status \in Status, NEW next \in JobPc,
           UpdateBatch(j, status, next)
    PROVE  batches' \in [Batch -> BatchRow] /\ JobsOK'
<1>1. "error" \in JobPc
  BY DEF JobPc
<1>2. JobsOK'
  BY <1>1, GotoType DEF UpdateBatch
<1>3. batches' \in [Batch -> BatchRow]
  BY DEF UpdateBatch, TypeOK, BatchRow
<1> QED BY <1>2, <1>3

LEMMA StatusType ==
    ASSUME TypeOK, NEW b, NEW status \in Status,
           batches' = [batches EXCEPT ![b].status = status]
    PROVE  batches' \in [Batch -> BatchRow]
BY DEF TypeOK, BatchRow

LEMMA DecisionType ==
    ASSUME TypeOK, NEW b, NEW status \in Status, NEW approval \in {"APPROVED", "REJECTED"},
           batches' = [batches EXCEPT ![b].approval = approval, ![b].status = status]
    PROVE  batches' \in [Batch -> BatchRow]
BY DEF TypeOK, BatchRow

LEMMA ProceedType ==
    ASSUME RequestsOK, NEW q \in Request, requests[q].pc # "idle",
           NEW pc \in RequestPc, Proceed(q, pc)
    PROVE  RequestsOK'
BY DEF RequestsOK, Addressed, Proceed, RequestRow

LEMMA DequeueType ==
    ASSUME JobsOK, RequestsOK, NEW q \in Request, requests[q].pc # "idle",
           NEW kind \in Kind, NEW next \in RequestPc, Dequeue(q, kind, next)
    PROVE  JobsOK' /\ RequestsOK'
<1>1. "failed" \in RequestPc
  BY DEF RequestPc
<1>2. RequestsOK'
  BY <1>1, ProceedType DEF Dequeue
<1>3. JobsOK'
  BY NoJobType, ReplaceType DEF Dequeue, JobsOK, AttemptLeft
<1> QED BY <1>2, <1>3

LEMMA FileTypes ==
    /\ \A r \in Row : /\ BatchOf[r] \in Batch
                      /\ GoalOf[r] \in Goal
                      /\ AccountOf[GoalOf[r]] \in Account
                      /\ ClientOf[AccountOf[GoalOf[r]]] \in Client
    /\ \A b \in Batch : RowsOf(b) \subseteq Row /\ ParsedRows(b) \subseteq Row
BY FileAssumption DEF RowsOf, ParsedRows

LEMMA NewEntitiesType == \A b \in Batch : NewEntities(b) \in Report
<1> SUFFICES ASSUME NEW b \in Batch
             PROVE  NewEntities(b) \in Report
  OBVIOUS
<1>1. GoalsOf(b) \subseteq Goal
  BY FileTypes DEF GoalsOf
<1>2. AccountsOf(b) \subseteq Account
  BY <1>1, FileAssumption DEF AccountsOf
<1>3. ClientsOf(b) \subseteq Client
  BY <1>2, FileAssumption DEF ClientsOf
<1> QED BY <1>1, <1>2, <1>3 DEF NewEntities, Report

LEMMA AfterValidationType == \A b \in Batch : AfterValidation(b) \in JobPc
BY DEF AfterValidation, JobPc

-----------------------------------------------------------------------------
LEMMA InitType == Init => TypeInv
<1> SUFFICES ASSUME Init PROVE TypeInv
  OBVIOUS
<1>1. batches \in [Batch -> BatchRow]
  BY DEF Init, BatchRow, Status, Gone, Report, NoEntities
<1>2. clients \subseteq ClientRow /\ accounts \in [Account -> ClientRow \union {NULL}]
  <2>1. \A a \in Account : <<ClientOf[a], FirstCopy>> \in ClientRow
    BY FileAssumption, EntityAssumption DEF ClientRow
  <2>2. \A g \in KnownGoal : AccountOf[g] \in Account
    BY FileAssumption, EntityAssumption
  <2> QED BY <2>1, <2>2 DEF Init
<1>3. goals \subseteq Goal /\ bankGoals \subseteq Goal
  BY EntityAssumption DEF Init
<1>4. txns \in [Row -> ClientRow \union {NULL}] /\ audited \subseteq Batch
      /\ viewStale \in BOOLEAN /\ uploading \subseteq Batch
  BY DEF Init
<1>5. jobs \in [JobId -> Job] /\ AttemptLeft
  BY NoJobType DEF Init, AttemptLeft
<1>6. requests \in [Request -> RequestRow] /\ Addressed
  BY DEF Init, Addressed, RequestRow, RequestPc
<1> QED BY <1>1, <1>2, <1>3, <1>4, <1>5, <1>6 DEF TypeInv, TypeOK

\* Jobs: taking, finishing and losing them, and the handlers' steps.
LEMMA WorkerType ==
    ASSUME TypeInv, NEW j \in JobId, WorkerStep(j) \/ WorkerCrash(j) \/ DbFault(j)
    PROVE  TypeInv'
<1> USE JobParts
<1>0. TypeOK /\ JobsOK /\ RequestsOK /\ jobs[j] \in Job
  BY DEF TypeInv, TypeOK, JobsOK, RequestsOK
<1>a. JobPc = {"start", "parse", "validate", "saveInvalid", "rejectRows",
               "rejectGroups", "detect", "pause", "create", "save", "final",
               "refresh", "return", "error", "rethrow"}
  BY DEF JobPc
<1>b. Status = {"PARSING", "VALIDATING", "PROCESSING", "absent", "deleted", "QUEUED",
                "WAITING_FOR_APPROVAL", "COMPLETED", "FAILED", "CANCELED"}
  BY DEF Status, Busy, Gone
<1>c. ASSUME UNCHANGED <<requests, clients, accounts, goals, bankGoals, txns, viewStale,
                         audited, uploading>>,
             batches' \in [Batch -> BatchRow], JobsOK'
      PROVE  TypeInv'
  BY <1>0, <1>c DEF TypeInv, TypeOK, JobsOK, RequestsOK, Addressed
<1>d. ASSUME UNCHANGED <<batches, requests, clients, accounts, goals, bankGoals, txns,
                         viewStale, audited, uploading>>, JobsOK'
      PROVE  TypeInv'
  BY <1>0, <1>c, <1>d DEF TypeOK
<1>1. CASE TakeJob(j)
  <2>1. JobsOK'
    BY <1>0, <1>1 DEF TakeJob, JobsOK, AttemptLeft, Job, JobState
  <2> QED BY <1>1, <2>1, <1>d DEF TakeJob, entityVars, ledgerVars
<1>2. CASE CompleteJob(j)
  <2>1. JobsOK'
    BY <1>0, <1>2, NoJobType, ReleaseType, ReplaceType DEF CompleteJob, JobState
  <2> QED BY <1>2, <2>1, <1>d DEF CompleteJob, entityVars, ledgerVars
<1>3. CASE FailAttempt(j)
  <2> DEFINE used == jobs[j].attempts + 1
             state == IF used < MaxAttempts THEN "waiting" ELSE "failed"
             left == [Release(j, state) EXCEPT !.attempts = used]
  <2>1. used \in 0 .. MaxAttempts
    BY <1>0, <1>3, BoundAssumption DEF FailAttempt, At, JobsOK, AttemptLeft, Job
  <2>2. Release(j, state) \in Job /\ Release(j, state).state = state
    BY <1>0, ReleaseType DEF JobState
  <2>3. left \in Job /\ left.state = state /\ left.attempts = used
    BY <2>1, <2>2 DEF Job
  <2>4. JobsOK'
    <3>1. jobs' = [jobs EXCEPT ![j] = left]
      BY <1>3 DEF FailAttempt
    <3>2. left.state \in {"waiting", "active"} => left.attempts < MaxAttempts
      BY <2>3
    <3> HIDE DEF left
    <3> QED BY <1>0, <3>1, <3>2, <2>3, ReplaceType
  <2> QED BY <1>3, <2>4, <1>d DEF FailAttempt, entityVars, ledgerVars
<1>4. CASE WorkerCrash(j)
  <2> DEFINE state == IF jobs[j].stalls < MaxStalled THEN "waiting" ELSE "failed"
             left == [Release(j, state) EXCEPT !.stalls = @ + 1]
  <2>1. jobs[j].stalls + 1 \in 0 .. CrashLimit /\ jobs[j].attempts < MaxAttempts
    BY <1>0, <1>4, BoundAssumption DEF WorkerCrash, JobsOK, AttemptLeft, Job
  <2>2. /\ Release(j, state) \in Job
        /\ Release(j, state).attempts = jobs[j].attempts
        /\ Release(j, state).stalls = jobs[j].stalls
    BY <1>0, ReleaseType DEF JobState
  <2>3. left \in Job /\ left.attempts = jobs[j].attempts
    BY <2>1, <2>2 DEF Job
  <2>4. JobsOK'
    <3>1. jobs' = [jobs EXCEPT ![j] = left]
      BY <1>4 DEF WorkerCrash
    <3> HIDE DEF left
    <3> QED BY <1>0, <3>1, <2>1, <2>3, ReplaceType
  <2> QED BY <1>4, <2>4, <1>d DEF WorkerCrash, entityVars, ledgerVars
<1>5. CASE DbFault(j)
  <2>1. JobsOK'
    BY <1>0, <1>5, <1>a, GotoType DEF DbFault
  <2> QED BY <1>5, <2>1, <1>d DEF DbFault, entityVars, ledgerVars
<1>6. CASE StartProcess(j)
  BY <1>6, <1>0, <1>a, <1>b, <1>c, UpdateBatchType DEF StartProcess, entityVars, ledgerVars
<1>7. CASE ParseFile(j)
  <2>1. CASE ParsedRows(j[1]) = {}
    <3>1. JobsOK'
      BY <1>0, <1>7, <2>1, <1>a, GotoType DEF ParseFile
    <3> QED BY <1>7, <2>1, <3>1, <1>d DEF ParseFile, entityVars, ledgerVars
  <2>2. CASE ParsedRows(j[1]) # {}
    BY <1>7, <2>2, <1>0, <1>a, <1>b, <1>c, UpdateBatchType
       DEF ParseFile, entityVars, ledgerVars
  <2> QED BY <2>1, <2>2
<1>8. CASE ValidateFile(j)
  BY <1>8, <1>0, <1>b, <1>c, UpdateBatchType, AfterValidationType
     DEF ValidateFile, entityVars, ledgerVars
<1>9. CASE SaveInvalid(j)
  <2>1. JobsOK'
    BY <1>0, <1>9, <1>a, GotoType DEF SaveInvalid
  <2>2. audited' \subseteq Batch
    BY <1>0, <1>9 DEF SaveInvalid, TypeOK
  <2> QED BY <1>0, <1>9, <2>1, <2>2
      DEF SaveInvalid, entityVars, ledgerVars, TypeInv, TypeOK, JobsOK, RequestsOK, Addressed
<1>10. CASE RejectRows(j)
  BY <1>10, <1>0, <1>a, <1>b, <1>c, UpdateBatchType DEF RejectRows, entityVars, ledgerVars
<1>11. CASE RejectGroups(j)
  <2>1. JobsOK'
    BY <1>0, <1>11, <1>a, GotoType DEF RejectGroups
  <2>2. batches' \in [Batch -> BatchRow]
    BY <1>0, <1>11, <1>b, StatusType DEF RejectGroups, TypeOK
  <2> QED BY <1>11, <2>1, <2>2, <1>c DEF RejectGroups, entityVars, ledgerVars

<1>12. CASE DetectEntities(j)
  <2>1. JobsOK'
    BY <1>0, <1>12, NewEntitiesType DEF DetectEntities, JobsOK, AttemptLeft, Job, JobPc
  <2> QED BY <1>12, <2>1, <1>d DEF DetectEntities, entityVars, ledgerVars
<1>13. CASE Pause(j)
  <2>1. JobsOK'
    BY <1>0, <1>13, <1>a, GotoType DEF Pause
  <2>2. batches' \in [Batch -> BatchRow]
    BY <1>0, <1>13, <1>b DEF Pause, TypeOK, BatchRow, Job
  <2> QED BY <1>13, <2>1, <2>2, <1>c DEF Pause, entityVars, ledgerVars
<1>14. CASE StartResume(j)
  <2>1. JobsOK'
    <3>1. batches[j[1]].report \in Report
      BY <1>0 DEF TypeOK, BatchRow
    <3>2. CASE MayResume(j[1])
      BY <1>0, <1>14, <3>1, <3>2 DEF StartResume, JobsOK, AttemptLeft, Job, JobPc, AfterCreate
    <3>3. CASE ~MayResume(j[1])
      BY <1>0, <1>14, <3>3, <1>a, GotoType DEF StartResume
    <3> QED BY <3>2, <3>3
  <2> QED BY <1>14, <2>1, <1>d DEF StartResume, entityVars, ledgerVars
<1>e. ASSUME NEW left \in Report, Created(j, left)
      PROVE  JobsOK'
  BY <1>0, <1>e DEF Created, JobsOK, AttemptLeft, Job, JobPc, AfterCreate
<1>15. ASSUME NEW c \in Client, CreateClient(j, c)
       PROVE  TypeInv'
  <2>1. [Remaining(j) EXCEPT !.clients = @ \ {c}] \in Report
    BY <1>0 DEF Remaining, Job, Report
  <2>2. JobsOK'
    BY <1>15, <1>e, <2>1 DEF CreateClient
  <2>3. clients' \subseteq ClientRow
    BY <1>0, <1>15 DEF CreateClient, Unused, TypeOK, ClientRow
  <2> QED BY <1>0, <1>15, <2>2, <2>3
      DEF CreateClient, ledgerVars, TypeInv, TypeOK, JobsOK, RequestsOK, Addressed
<1>16. ASSUME NEW a \in Account, CreateAccount(j, a)
       PROVE  TypeInv'
  <2>1. [Remaining(j) EXCEPT !.accounts = @ \ {a}] \in Report
    BY <1>0 DEF Remaining, Job, Report
  <2>2. JobsOK'
    BY <1>16, <1>e, <2>1 DEF CreateAccount
  <2>3. accounts' \in [Account -> ClientRow \union {NULL}]
    BY <1>0, <1>16 DEF CreateAccount, TypeOK
  <2> QED BY <1>0, <1>16, <2>2, <2>3
      DEF CreateAccount, ledgerVars, TypeInv, TypeOK, JobsOK, RequestsOK, Addressed
<1>17. ASSUME NEW g \in Goal, CreateGoal(j, g)
       PROVE  TypeInv'
  <2>1. [Remaining(j) EXCEPT !.goals = @ \ {g}] \in Report
    BY <1>0 DEF Remaining, Job, Report
  <2>2. JobsOK'
    BY <1>17, <1>e, <2>1 DEF CreateGoal
  <2>3. goals' \subseteq Goal
    BY <1>0, <1>17 DEF CreateGoal, TypeOK
  <2> QED BY <1>0, <1>17, <2>2, <2>3
      DEF CreateGoal, ledgerVars, TypeInv, TypeOK, JobsOK, RequestsOK, Addressed
<1>18. CASE SaveTransactions(j)
  <2>1. JobsOK'
    BY <1>0, <1>18, <1>a, GotoType DEF SaveTransactions
  <2>2. txns' \in [Row -> ClientRow \union {NULL}] /\ viewStale' \in BOOLEAN
    <3>1. CASE Live(j[1]) /\ Resolvable(j[1])
      <4>1. PICK new \in Insertable(j[1]), resolve \in [ClientsOf(j[1]) -> Copy] :
              /\ \A c \in ClientsOf(j[1]) : <<c, resolve[c]>> \in clients
              /\ txns' = [r \in Row |->
                            LET c == ClientOf[AccountOf[GoalOf[r]]] IN
                            IF r \in new THEN <<c, resolve[c]>> ELSE txns[r]]
              /\ viewStale' = (viewStale \/ new # {})
        BY <1>18, <3>1 DEF SaveTransactions
      <4>2. \A r \in new : ClientOf[AccountOf[GoalOf[r]]] \in ClientsOf(j[1])
        BY <4>1 DEF Insertable, Fresh, ClientsOf, AccountsOf, GoalsOf
      <4>3. \A r \in new : <<ClientOf[AccountOf[GoalOf[r]]],
                             resolve[ClientOf[AccountOf[GoalOf[r]]]]>> \in ClientRow
        BY <1>0, <4>1, <4>2 DEF TypeOK
      <4> QED BY <1>0, <4>1, <4>3 DEF TypeOK
    <3>2. CASE ~(Live(j[1]) /\ Resolvable(j[1]))
      BY <1>0, <1>18, <3>2 DEF SaveTransactions, ledgerVars, TypeOK
    <3> QED BY <3>1, <3>2
  <2> QED BY <1>0, <1>18, <2>1, <2>2
      DEF SaveTransactions, entityVars, TypeInv, TypeOK, JobsOK, RequestsOK, Addressed
<1>19. CASE MarkCompleted(j)
  BY <1>19, <1>0, <1>a, <1>b, <1>c, UpdateBatchType DEF MarkCompleted, entityVars, ledgerVars
<1>20. CASE RefreshViews(j)
  <2>1. JobsOK'
    BY <1>0, <1>20, <1>a, GotoType DEF RefreshViews
  <2>2. viewStale' \in BOOLEAN
    BY <1>0, <1>20 DEF RefreshViews, Refreshed, TypeOK
  <2> QED BY <1>0, <1>20, <2>1, <2>2
      DEF RefreshViews, entityVars, TypeInv, TypeOK, JobsOK, RequestsOK, Addressed
<1>21. CASE RecordError(j)
  <2>1. JobsOK'
    BY <1>0, <1>21, <1>a, GotoType DEF RecordError
  <2>2. batches' \in [Batch -> BatchRow]
    BY <1>0, <1>21, <1>b, StatusType DEF RecordError, TypeOK
  <2> QED BY <1>21, <2>1, <2>2, <1>c DEF RecordError, entityVars, ledgerVars
<1> QED BY <1>1, <1>2, <1>3, <1>4, <1>5, <1>6, <1>7, <1>8, <1>9, <1>10, <1>11, <1>12,
           <1>13, <1>14, <1>15, <1>16, <1>17, <1>18, <1>19, <1>20, <1>21 DEF WorkerStep

\* Requests: beginning them, and the steps that follow.
LEMMA RequestType ==
    ASSUME TypeInv, NEW q \in Request,
           (\E b \in Batch : BeginRequest(q, b)) \/ RequestStep(q) \/ RequestAborts(q)
    PROVE  TypeInv'
<1>0. TypeOK /\ JobsOK /\ RequestsOK
  BY DEF TypeInv, TypeOK, JobsOK, RequestsOK
<1>a. RequestPc = {"idle", "decide", "enqueue", "mark", "dequeue", "purge",
                   "dequeueProcess", "dequeueResume", "recheck", "commit",
                   "refresh", "ok", "failed"}
  BY DEF RequestPc
<1>b. ASSUME UNCHANGED <<clients, accounts, goals, bankGoals, txns, viewStale, audited,
                         uploading>>,
             batches' \in [Batch -> BatchRow], JobsOK', RequestsOK'
      PROVE  TypeInv'
  BY <1>0, <1>b DEF TypeInv, TypeOK, JobsOK, RequestsOK, Addressed
<1>c. UNCHANGED batches => batches' \in [Batch -> BatchRow]
  BY <1>0 DEF TypeOK
<1>d. UNCHANGED jobs => JobsOK'
  BY <1>0 DEF JobsOK, AttemptLeft
<1>1. ASSUME NEW b \in Batch, NEW op \in Operation, NEW pc \in RequestPc, Receive(q, op, b, pc)
      PROVE  TypeInv'
  <2>1. RequestsOK'
    BY <1>0, <1>1 DEF Receive, RequestsOK, Addressed, RequestRow
  <2> QED BY <1>1, <2>1, <1>b, <1>c, <1>d DEF Receive, entityVars, ledgerVars
<1>2. ASSUME NEW b \in Batch, BeginRequest(q, b)
      PROVE  TypeInv'
  BY <1>1, <1>2, <1>a
     DEF BeginRequest, BeginDecision, BeginCancel, BeginRollback, Operation
<1>3. CASE Decide(q)
  <2> DEFINE b == requests[q].batch
             approval == IF requests[q].op = "approve" THEN "APPROVED" ELSE "REJECTED"
             status == IF requests[q].op = "approve" THEN "PROCESSING" ELSE "FAILED"
  <2>1. RequestsOK'
    BY <1>0, <1>3, <1>a, ProceedType DEF Decide, RequestAt
  <2>2. batches' \in [Batch -> BatchRow]
    <3>1. CASE Live(b)
      <4>1. batches' = [batches EXCEPT ![b].approval = approval, ![b].status = status]
        BY <1>3, <3>1 DEF Decide
      <4>2. approval \in {"APPROVED", "REJECTED"} /\ status \in Status
        BY DEF Status, Busy
      <4> HIDE DEF approval, status
      <4> QED BY <1>0, <4>1, <4>2, DecisionType
    <3> QED BY <1>3, <3>1, <1>c DEF Decide
  <2> QED BY <1>3, <2>1, <2>2, <1>b, <1>d DEF Decide, entityVars, ledgerVars
<1>4. CASE EnqueueResume(q)
  <2>1. RequestsOK'
    BY <1>0, <1>4, <1>a, ProceedType DEF EnqueueResume, RequestAt
  <2>2. JobsOK'
    <3>1. \/ UNCHANGED jobs
          \/ jobs' = [jobs EXCEPT ![<<requests[q].batch, "resume">>] = NewJob]
      BY <1>4 DEF EnqueueResume
    <3> QED BY <1>0, <1>d, <3>1, EnqueueType
  <2> QED BY <1>4, <2>1, <2>2, <1>b, <1>c DEF EnqueueResume, entityVars, ledgerVars
<1>5. CASE MarkCanceled(q)
  <2>1. RequestsOK'
    BY <1>0, <1>5, <1>a, ProceedType DEF MarkCanceled, RequestAt
  <2>2. batches' \in [Batch -> BatchRow]
    BY <1>0, <1>5, <1>c, StatusType DEF MarkCanceled, Status
  <2> QED BY <1>5, <2>1, <2>2, <1>b, <1>d DEF MarkCanceled, entityVars, ledgerVars
<1>6. CASE DequeueCanceled(q) \/ DequeueProcess(q) \/ DequeueResume(q)
  <2>1. PICK kind \in Kind, next \in RequestPc :
           requests[q].pc # "idle" /\ Dequeue(q, kind, next)
    BY <1>6, <1>a DEF DequeueCanceled, DequeueProcess, DequeueResume, RequestAt, Kind
  <2>2. JobsOK' /\ RequestsOK'
    BY <1>0, <2>1, DequeueType
  <2> QED BY <2>1, <2>2, <1>b, <1>c DEF Dequeue, entityVars, ledgerVars
<1>7. CASE PurgeCanceled(q)
  <2>1. RequestsOK'
    BY <1>0, <1>7, <1>a, ProceedType DEF PurgeCanceled, RequestAt
  <2>2. /\ txns' \in [Row -> ClientRow \union {NULL}]
        /\ viewStale' \in BOOLEAN
        /\ audited' \subseteq Batch
    BY <1>0, <1>7 DEF PurgeCanceled, TypeOK
  <2> QED BY <1>0, <1>7, <2>1, <2>2, <1>d
      DEF PurgeCanceled, entityVars, TypeInv, TypeOK, JobsOK, RequestsOK
<1>8. CASE RecheckRollback(q)
  <2>1. RequestsOK'
    BY <1>0, <1>8, <1>a, ProceedType DEF RecheckRollback, RequestAt
  <2> QED BY <1>8, <2>1, <1>b, <1>c, <1>d DEF RecheckRollback, entityVars, ledgerVars
<1>9. CASE CommitRollback(q)
  <2> DEFINE b == requests[q].batch
  <2>1. RequestsOK'
    BY <1>0, <1>9, <1>a, ProceedType DEF CommitRollback, RequestAt
  <2>2. CASE RemoveBatch(b)
    <3>1. batches' \in [Batch -> BatchRow]
      <4>1. [status |-> "deleted", approval |-> "none", report |-> NoEntities] \in BatchRow
        BY DEF BatchRow, Status, Gone, Report, NoEntities
      <4> QED BY <1>0, <2>2, <4>1 DEF RemoveBatch, TypeOK
    <3>2. /\ clients' \subseteq ClientRow
          /\ accounts' \in [Account -> ClientRow \union {NULL}]
          /\ goals' \subseteq Goal
          /\ txns' \in [Row -> ClientRow \union {NULL}]
          /\ viewStale' \in BOOLEAN
          /\ audited' \subseteq Batch
      BY <1>0, <2>2 DEF RemoveBatch, TypeOK
    <3> QED BY <1>0, <1>9, <2>1, <3>1, <3>2, <1>d
        DEF CommitRollback, TypeInv, TypeOK, JobsOK, RequestsOK
  <2>3. CASE UNCHANGED <<batches, entityVars, ledgerVars, audited>>
    BY <1>9, <2>1, <2>3, <1>b, <1>c, <1>d DEF CommitRollback, entityVars, ledgerVars
  <2> QED BY <1>9, <2>2, <2>3 DEF CommitRollback
<1>10. CASE RefreshAfterRollback(q)
  <2>1. RequestsOK'
    BY <1>0, <1>10, <1>a, ProceedType DEF RefreshAfterRollback, RequestAt
  <2>2. viewStale' \in BOOLEAN
    BY <1>0, <1>10 DEF RefreshAfterRollback, Refreshed, TypeOK
  <2> QED BY <1>0, <1>10, <2>1, <2>2, <1>d
      DEF RefreshAfterRollback, entityVars, TypeInv, TypeOK, JobsOK, RequestsOK
<1>11. CASE RequestAborts(q)
  <2>1. RequestsOK'
    BY <1>0, <1>11, <1>a, ProceedType DEF RequestAborts
  <2> QED BY <1>11, <2>1, <1>b, <1>c, <1>d DEF RequestAborts, entityVars, ledgerVars
<1> QED BY <1>2, <1>3, <1>4, <1>5, <1>6, <1>7, <1>8, <1>9, <1>10, <1>11 DEF RequestStep

LEMMA NextType == TypeInv /\ [Next]_vars => TypeInv'
<1> SUFFICES ASSUME TypeInv, [Next]_vars PROVE TypeInv'
  OBVIOUS
<1>0. TypeOK /\ JobsOK /\ RequestsOK
  BY DEF TypeInv, TypeOK, JobsOK, RequestsOK
<1>1. ASSUME NEW b \in Batch, UploadCreate(b)
      PROVE  TypeInv'
  <2>1. batches' \in [Batch -> BatchRow]
    BY <1>0, <1>1, StatusType DEF UploadCreate, Status
  <2> QED BY <1>0, <1>1, <2>1
      DEF UploadCreate, entityVars, ledgerVars, TypeInv, TypeOK, AttemptLeft, Addressed
<1>2. ASSUME NEW b \in Batch, UploadEnqueue(b)
      PROVE  TypeInv'
  <2>1. JobsOK'
    BY <1>0, <1>2, EnqueueType DEF UploadEnqueue
  <2> QED BY <1>0, <1>2, <2>1
      DEF UploadEnqueue, entityVars, ledgerVars, TypeInv, TypeOK, JobsOK, Addressed
<1>3. ASSUME NEW b \in Batch, UploadAborts(b)
      PROVE  TypeInv'
  BY <1>3 DEF UploadAborts, entityVars, ledgerVars, TypeInv, TypeOK, AttemptLeft, Addressed
<1>4. ASSUME NEW g \in Goal, BankPost(g) \/ BankWithdraw(g)
      PROVE  TypeInv'
  BY <1>4 DEF BankPost, BankWithdraw, entityVars, ledgerVars, TypeInv, TypeOK,
              AttemptLeft, Addressed
<1>5. CASE UNCHANGED vars
  BY <1>5 DEF vars, entityVars, ledgerVars, TypeInv, TypeOK, AttemptLeft, Addressed
<1> QED BY <1>1, <1>2, <1>3, <1>4, <1>5, WorkerType, RequestType DEF Next

\* The tables, the queue and the requests keep their types, and the queue never
\* holds a job whose attempts are used up (fund-worker.ts, queue.ts).
THEOREM TypeCorrect == Spec => []TypeOK
<1>1. Spec => []TypeInv
  BY InitType, NextType, PTL DEF Spec
<1>2. TypeInv => TypeOK
  BY DEF TypeInv
<1> QED BY <1>1, <1>2, PTL

-----------------------------------------------------------------------------
(* What the steps keep true of the tables: references resolve, no id is stored *)
(* twice, and readers of the ledger see what FundLedger promises.             *)

\* A step that leaves the tables of entities and rows alone, and every batch row.
TablesKept ==
    /\ UNCHANGED <<clients, accounts, goals, bankGoals, txns>>
    /\ \A b \in Batch : Live(b) => Live(b)'

\* A commit that goes through, and a save that does.
Removal(q) ==
    /\ requests[q].batch \in Batch
    /\ Live(requests[q].batch) /\ ~Restricted(requests[q].batch)
    /\ RemoveBatch(requests[q].batch)
    /\ UNCHANGED bankGoals

Saving(b, new, resolve) ==
    /\ Live(b) /\ Resolvable(b)
    /\ \A c \in ClientsOf(b) : <<c, resolve[c]>> \in clients
    /\ txns' = [r \in Row |->
                  LET c == ClientOf[AccountOf[GoalOf[r]]] IN
                  IF r \in new THEN <<c, resolve[c]>> ELSE txns[r]]
    /\ UNCHANGED <<batches, clients, accounts, goals, bankGoals>>

Creation(j) ==
    \/ \E c \in Client : CreateClient(j, c)
    \/ \E a \in Account : CreateAccount(j, a)
    \/ \E g \in Goal : CreateGoal(j, g)

-----------------------------------------------------------------------------
LEMMA LiveKept ==
    ASSUME TypeOK, NEW b, NEW status \in Status, status \notin Gone,
           batches' = [batches EXCEPT ![b].status = status]
    PROVE  \A d \in Batch : Live(d) => Live(d)'
BY DEF TypeOK, BatchRow, Live

LEMMA StatusValues ==
    /\ Gone = {"absent", "deleted"}
    /\ Status = {"PARSING", "VALIDATING", "PROCESSING", "absent", "deleted", "QUEUED",
                 "WAITING_FOR_APPROVAL", "COMPLETED", "FAILED", "CANCELED"}
BY DEF Status, Busy, Gone

LEMMA UpdateBatchKeeps ==
    ASSUME TypeOK, NEW j, NEW status \in Status, status \notin Gone, NEW next,
           UpdateBatch(j, status, next)
    PROVE  \A d \in Batch : Live(d) => Live(d)'
<1>1. UNCHANGED batches => \A d \in Batch : Live(d) => Live(d)'
  BY DEF Live
<1> QED BY <1>1, LiveKept DEF UpdateBatch

\* The worker's steps: a save, the creation of an entity, or no change to the tables.
LEMMA WorkerCases ==
    ASSUME TypeInv, NEW j \in JobId, WorkerStep(j) \/ WorkerCrash(j) \/ DbFault(j)
    PROVE  \/ TablesKept
           \/ Creation(j)
           \/ \E new \in Insertable(j[1]), resolve \in [ClientsOf(j[1]) -> Copy] :
                 Saving(j[1], new, resolve)
<1> USE StatusValues
<1>0. TypeOK
  BY DEF TypeInv
<1>a. UNCHANGED batches => \A d \in Batch : Live(d) => Live(d)'
  BY DEF Live
<1>1. CASE \/ TakeJob(j) \/ CompleteJob(j) \/ FailAttempt(j) \/ WorkerCrash(j) \/ DbFault(j)
           \/ DetectEntities(j) \/ StartResume(j) \/ RefreshViews(j) \/ SaveInvalid(j)
  <2>1. UNCHANGED <<batches, entityVars, bankGoals, txns>>
    BY <1>1 DEF TakeJob, CompleteJob, FailAttempt, WorkerCrash, DbFault, DetectEntities,
                StartResume, RefreshViews, SaveInvalid, ledgerVars
  <2> QED BY <2>1, <1>a DEF TablesKept, entityVars
<1>2. CASE StartProcess(j) \/ ParseFile(j) \/ ValidateFile(j) \/ RejectRows(j) \/ MarkCompleted(j)
  <2>1. UNCHANGED <<entityVars, bankGoals, txns>>
    BY <1>2 DEF StartProcess, ParseFile, ValidateFile, RejectRows, MarkCompleted, ledgerVars
  <2>2. \A d \in Batch : Live(d) => Live(d)'
    BY <1>0, <1>2, <1>a, UpdateBatchKeeps
       DEF StartProcess, ParseFile, ValidateFile, RejectRows, MarkCompleted
  <2> QED BY <2>1, <2>2 DEF TablesKept, entityVars
<1>3. CASE RejectGroups(j) \/ RecordError(j)
  <2>1. UNCHANGED <<entityVars, bankGoals, txns>>
    BY <1>3 DEF RejectGroups, RecordError, ledgerVars
  <2>2. \/ UNCHANGED batches
        \/ batches' = [batches EXCEPT ![j[1]].status = "FAILED"]
    BY <1>3 DEF RejectGroups, RecordError
  <2> QED BY <1>0, <1>a, <2>1, <2>2, LiveKept DEF TablesKept, entityVars
<1>4. CASE Pause(j)
  <2>1. UNCHANGED <<entityVars, bankGoals, txns>>
    BY <1>4 DEF Pause, ledgerVars
  <2>2. \A d \in Batch : Live(d) => Live(d)'
    BY <1>0, <1>4 DEF Pause, Live, TypeOK
  <2> QED BY <2>1, <2>2 DEF TablesKept, entityVars
<1>5. CASE SaveTransactions(j)
  <2>1. CASE Live(j[1]) /\ Resolvable(j[1])
    BY <1>5, <2>1 DEF SaveTransactions, Saving, entityVars
  <2>2. CASE ~(Live(j[1]) /\ Resolvable(j[1]))
    BY <1>5, <2>2, <1>a DEF SaveTransactions, TablesKept, entityVars, ledgerVars
  <2> QED BY <2>1, <2>2
<1> QED BY <1>1, <1>2, <1>3, <1>4, <1>5 DEF WorkerStep, Creation

\* The steps of requests: a purge, a removal, or no change to the tables.
LEMMA RequestCases ==
    ASSUME TypeInv, NEW q \in Request,
           (\E b \in Batch : BeginRequest(q, b)) \/ RequestStep(q) \/ RequestAborts(q)
    PROVE  TablesKept \/ PurgeCanceled(q) \/ Removal(q)
<1> USE StatusValues
<1>0. TypeOK
  BY DEF TypeInv
<1>a. UNCHANGED batches => \A d \in Batch : Live(d) => Live(d)'
  BY DEF Live
<1>1. CASE \/ \E b \in Batch : BeginRequest(q, b)
           \/ EnqueueResume(q) \/ DequeueCanceled(q) \/ DequeueProcess(q) \/ DequeueResume(q)
           \/ RecheckRollback(q) \/ RefreshAfterRollback(q) \/ RequestAborts(q)
  <2>1. UNCHANGED <<batches, entityVars, bankGoals, txns>>
    BY <1>1 DEF BeginRequest, BeginDecision, BeginCancel, BeginRollback, Receive,
                EnqueueResume, DequeueCanceled, DequeueProcess, DequeueResume, Dequeue,
                RecheckRollback, RefreshAfterRollback, RequestAborts, ledgerVars
  <2> QED BY <2>1, <1>a DEF TablesKept, entityVars
<1>2. CASE Decide(q) \/ MarkCanceled(q)
  <2>1. UNCHANGED <<entityVars, bankGoals, txns>>
    BY <1>2 DEF Decide, MarkCanceled, ledgerVars
  <2>2. \A d \in Batch : Live(d) => Live(d)'
    BY <1>0, <1>2 DEF Decide, MarkCanceled, Live, TypeOK, BatchRow
  <2> QED BY <2>1, <2>2 DEF TablesKept, entityVars
<1>3. CASE CommitRollback(q)
  <2>1. requests[q].batch \in Batch
    BY <1>3 DEF TypeInv, Addressed, CommitRollback, RequestAt
  <2>2. CASE Live(requests[q].batch) /\ ~Restricted(requests[q].batch)
    BY <1>3, <2>1, <2>2 DEF CommitRollback, Removal
  <2>3. CASE ~(Live(requests[q].batch) /\ ~Restricted(requests[q].batch))
    BY <1>3, <2>3, <1>a DEF CommitRollback, TablesKept, entityVars, ledgerVars
  <2> QED BY <2>2, <2>3
<1> QED BY <1>1, <1>2, <1>3 DEF RequestStep

LEMMA StepCases ==
    ASSUME TypeInv, [Next]_vars
    PROVE  \/ TablesKept
           \/ \E j \in JobId : Creation(j)
           \/ \E b \in Batch : \E new \in Insertable(b), resolve \in [ClientsOf(b) -> Copy] :
                 Saving(b, new, resolve)
           \/ \E q \in Request : PurgeCanceled(q) \/ Removal(q)
           \/ \E g \in Goal : BankPost(g) \/ BankWithdraw(g)
<1>a. UNCHANGED batches => \A d \in Batch : Live(d) => Live(d)'
  BY DEF Live
<1>1. ASSUME NEW b \in Batch, UploadCreate(b)
      PROVE  TablesKept
  BY <1>1, StatusValues
     DEF UploadCreate, TablesKept, entityVars, ledgerVars, TypeInv, TypeOK, BatchRow, Live
<1>2. ASSUME NEW b \in Batch, UploadEnqueue(b) \/ UploadAborts(b)
      PROVE  TablesKept
  BY <1>2, <1>a DEF UploadEnqueue, UploadAborts, TablesKept, entityVars, ledgerVars
<1>3. CASE UNCHANGED vars
  BY <1>3, <1>a DEF vars, TablesKept, entityVars, ledgerVars
<1> QED BY <1>1, <1>2, <1>3, WorkerCases, RequestCases, JobParts DEF Next

-----------------------------------------------------------------------------
(* References *)

LEMMA InitReferences == Init => ForeignKeys
<1> SUFFICES ASSUME Init PROVE ForeignKeys
  OBVIOUS
<1>1. Stored = {}
  BY DEF Init, Stored
<1>2. \A g \in KnownGoal : /\ AccountOf[g] \in Account
                           /\ ClientOf[AccountOf[g]] \in Client
  BY FileAssumption, EntityAssumption
<1>3. \A g \in KnownGoal : <<ClientOf[AccountOf[g]], FirstCopy>> \in ClientRow
  BY <1>2, EntityAssumption DEF ClientRow
<1>4. GoalsResolve
  BY <1>2, <1>3, EntityAssumption DEF Init, GoalsResolve, OpenAccounts
<1>5. AccountsResolve
  BY DEF Init, AccountsResolve, OpenAccounts
<1> QED BY <1>1, <1>4, <1>5 DEF Init, ForeignKeys, RowsResolve, BankResolves

LEMMA StepReferences == TypeInv /\ ForeignKeys /\ [Next]_vars => ForeignKeys'
<1> SUFFICES ASSUME TypeInv, ForeignKeys, [Next]_vars PROVE ForeignKeys'
  OBVIOUS
<1> USE DEF ForeignKeys
<1>0. TypeOK /\ NULL \notin ClientRow
  BY EntityAssumption DEF TypeInv
<1>1. CASE TablesKept
  BY <1>1, FileTypes DEF TablesKept, RowsResolve, GoalsResolve, AccountsResolve, BankResolves,
                         Stored, OpenAccounts
<1>2. ASSUME NEW j \in JobId, Creation(j)
      PROVE  ForeignKeys'
  <2>1. UNCHANGED <<batches, bankGoals, txns>>
    BY <1>2 DEF Creation, CreateClient, CreateAccount, CreateGoal, ledgerVars
  <2>2. clients \subseteq clients' /\ goals \subseteq goals'
    BY <1>2 DEF Creation, CreateClient, CreateAccount, CreateGoal
  <2>3. \A a \in Account : accounts[a] # NULL => accounts'[a] = accounts[a]
    BY <1>0, <1>2 DEF Creation, CreateClient, CreateAccount, CreateGoal, TypeOK
  <2>4. \A a \in Account : accounts[a] = NULL /\ accounts'[a] # NULL => accounts'[a] \in clients
    BY <1>0, <1>2 DEF Creation, CreateClient, CreateAccount, CreateGoal, TypeOK
  <2>5. \A g \in goals' \ goals : AccountOf[g] \in OpenAccounts
    BY <1>2 DEF Creation, CreateClient, CreateAccount, CreateGoal
  <2>6. OpenAccounts \subseteq OpenAccounts'
    BY <2>3 DEF OpenAccounts
  <2>7. RowsResolve'
    BY <2>1, <2>2 DEF RowsResolve, Stored, Live
  <2>8. GoalsResolve'
    BY <2>5, <2>6 DEF GoalsResolve
  <2>9. AccountsResolve'
    BY <2>2, <2>3, <2>4 DEF AccountsResolve, OpenAccounts
  <2>10. BankResolves'
    BY <2>1, <2>2 DEF BankResolves
  <2> QED BY <2>7, <2>8, <2>9, <2>10
<1>3. ASSUME NEW b \in Batch, NEW new \in Insertable(b), NEW resolve \in [ClientsOf(b) -> Copy],
             Saving(b, new, resolve)
      PROVE  ForeignKeys'
  <2>1. \A r \in new : /\ r \in Row /\ BatchOf[r] = b
                       /\ GoalOf[r] \in GoalsOf(b)
                       /\ ClientOf[AccountOf[GoalOf[r]]] \in ClientsOf(b)
    BY DEF Insertable, Fresh, ParsedRows, RowsOf, GoalsOf, AccountsOf, ClientsOf
  <2>2. \A r \in new : Live(BatchOf[r]) /\ GoalOf[r] \in goals /\ txns'[r] \in clients
    BY <1>3, <2>1 DEF Saving, Resolvable
  <2>3. \A r \in Row \ new : txns'[r] = txns[r]
    BY <1>3 DEF Saving
  <2>4. RowsResolve'
    BY <1>3, <2>2, <2>3 DEF RowsResolve, Saving, Stored, Live
  <2> QED BY <1>3, <2>4 DEF Saving, GoalsResolve, AccountsResolve, BankResolves, OpenAccounts
<1>4. ASSUME NEW q \in Request, PurgeCanceled(q)
      PROVE  ForeignKeys'
  <2>1. UNCHANGED <<batches, clients, accounts, goals, bankGoals>>
    BY <1>4 DEF PurgeCanceled, entityVars
  <2>2. \A r \in Row : txns'[r] # NULL => txns'[r] = txns[r]
    BY <1>4 DEF PurgeCanceled
  <2> QED BY <2>1, <2>2 DEF RowsResolve, GoalsResolve, AccountsResolve, BankResolves,
                            Stored, OpenAccounts, Live
<1>5. ASSUME NEW q \in Request, Removal(q)
      PROVE  ForeignKeys'
  <2> DEFINE b == requests[q].batch
  <2> b \in Batch
    BY <1>5 DEF Removal
  <2>1. \A r \in Row : txns'[r] # NULL => r \in Stored \ RowsOf(b) /\ txns'[r] = txns[r]
    BY <1>5 DEF Removal, RemoveBatch, Stored, RowsOf
  <2>2. \A r \in Stored \ RowsOf(b) :
          /\ GoalOf[r] \notin OrphanGoals(b) /\ txns[r] \notin OrphanClients(b)
          /\ BatchOf[r] # b
    BY <1>5 DEF Removal, Restricted, Stored, RowsOf
  <2>3. /\ clients' = clients \ OrphanClients(b)
        /\ goals' = goals \ OrphanGoals(b)
        /\ \A a \in Account :
             accounts'[a] = IF a \in OrphanAccounts(b) THEN NULL ELSE accounts[a]
        /\ \A d \in Batch \ {b} : batches'[d] = batches[d]
        /\ bankGoals' = bankGoals
    BY <1>0, <1>5 DEF Removal, RemoveBatch, TypeOK
  <2> HIDE DEF b
  <2>4. RowsResolve'
    <3>1. \A r \in Stored' : r \in Stored \ RowsOf(b) /\ txns'[r] = txns[r]
      BY <2>1 DEF Stored
    <3>2. \A r \in Stored' : BatchOf[r] \in Batch \ {b}
      BY <2>2, <3>1, FileTypes DEF Stored
    <3> QED BY <2>2, <2>3, <3>1, <3>2 DEF RowsResolve, Live
  <2>5. GoalsResolve'
    <3>1. \A g \in goals' : AccountOf[g] \notin OrphanAccounts(b)
      BY <2>3 DEF OrphanAccounts
    <3>2. \A g \in goals' : AccountOf[g] \in Account /\ accounts[AccountOf[g]] # NULL
      BY <2>3 DEF GoalsResolve, OpenAccounts
    <3> QED BY <2>3, <3>1, <3>2 DEF GoalsResolve, OpenAccounts
  <2>6. AccountsResolve'
    <3>1. \A a \in OpenAccounts' : a \in OpenAccounts \ OrphanAccounts(b)
                                   /\ accounts'[a] = accounts[a]
      BY <2>3 DEF OpenAccounts
    <3>2. \A a \in OpenAccounts' : accounts'[a] \notin OrphanClients(b)
      BY <3>1 DEF OrphanClients
    <3> QED BY <2>3, <3>1, <3>2 DEF AccountsResolve
  <2>7. BankResolves'
    BY <2>3 DEF BankResolves, OrphanGoals
  <2> QED BY <2>4, <2>5, <2>6, <2>7
<1>6. ASSUME NEW g \in Goal, BankPost(g) \/ BankWithdraw(g)
      PROVE  ForeignKeys'
  BY <1>6 DEF BankPost, BankWithdraw, entityVars, ledgerVars, RowsResolve, GoalsResolve,
              AccountsResolve, BankResolves, Stored, OpenAccounts, Live
<1> QED BY <1>1, <1>2, <1>3, <1>4, <1>5, <1>6, StepCases

\* Every reference in the tables resolves, whatever overlaps: what saveTransactions
\* looks up and what rollbackBatch counts is enough (FundTransactionRepository.ts,
\* BatchRollbackService.ts).
THEOREM ReferencesResolve == Spec => []ForeignKeys
<1>1. Init => TypeInv /\ ForeignKeys
  BY InitType, InitReferences
<1>2. TypeInv /\ ForeignKeys /\ [Next]_vars => TypeInv' /\ ForeignKeys'
  BY NextType, StepReferences
<1> QED BY <1>1, <1>2, PTL DEF Spec

\* A rollback never asks the database to delete a goal or an account that another
\* upload's rows are on: rollbackBatch's counts suffice, the foreign keys that
\* would refuse it are not needed for these two tables.
THEOREM SweepIsSafe == Spec => []SweepSparesSharedEntities
<1>1. TypeInv /\ ForeignKeys => SweepSparesSharedEntities
  <2> SUFFICES ASSUME ForeignKeys, NEW b \in Batch, NEW r \in Stored \ RowsOf(b)
               PROVE  /\ GoalOf[r] \notin OrphanGoals(b)
                      /\ AccountOf[GoalOf[r]] \notin OrphanAccounts(b)
    BY DEF SweepSparesSharedEntities
  <2>1. GoalOf[r] \notin OrphanGoals(b)
    BY DEF OrphanGoals
  <2>2. GoalOf[r] \in goals \ OrphanGoals(b)
    BY <2>1 DEF ForeignKeys, RowsResolve
  <2> QED BY <2>1, <2>2 DEF OrphanAccounts
<1>2. Init => TypeInv /\ ForeignKeys
  BY InitType, InitReferences
<1>3. TypeInv /\ ForeignKeys /\ [Next]_vars => TypeInv' /\ ForeignKeys'
  BY NextType, StepReferences
<1> QED BY <1>1, <1>2, <1>3, PTL DEF Spec

-----------------------------------------------------------------------------
(* One row per fundTransactionId *)

\* What a save adds: rows of one live file, on registered goals, each under an id
\* that neither the tables nor another of the added rows hold.
LEMMA SavingAdds ==
    ASSUME TypeOK, NEW b \in Batch, NEW new \in Insertable(b),
           NEW resolve \in [ClientsOf(b) -> Copy], Saving(b, new, resolve)
    PROVE  /\ new \subseteq RowsOf(b)
           /\ \A r \in new : GoalOf[r] \in goals
           /\ \A r \in new, s \in new \union Stored : IdOf[r] = IdOf[s] => r = s
           /\ Stored' = Stored \union new
<1>1. new \subseteq ParsedRows(b)
  BY DEF Insertable, Fresh
<1>2. \A r \in new : ClientOf[AccountOf[GoalOf[r]]] \in ClientsOf(b) /\ GoalOf[r] \in GoalsOf(b)
  BY <1>1 DEF ClientsOf, AccountsOf, GoalsOf
<1>3. \A r \in new : GoalOf[r] \in goals
  BY <1>2 DEF Saving, Resolvable
<1>4. \A r \in new, s \in new \union Stored : IdOf[r] = IdOf[s] => r = s
  BY DEF Insertable, Fresh
<1>5. \A r \in Row : txns'[r] # NULL <=> txns[r] # NULL \/ r \in new
  <2>1. \A r \in new : txns'[r] \in clients
    BY <1>1, <1>2 DEF Saving, ParsedRows, RowsOf
  <2>2. \A r \in new : txns'[r] # NULL
    BY <2>1, EntityAssumption DEF TypeOK
  <2>3. \A r \in Row \ new : txns'[r] = txns[r]
    BY DEF Saving
  <2> QED BY <2>2, <2>3
<1>6. Stored' = Stored \union new
  BY <1>1, <1>5 DEF Stored, ParsedRows, RowsOf
<1> QED BY <1>1, <1>3, <1>4, <1>6 DEF ParsedRows

\* What a purge or a removal takes away: the rows of its file.
LEMMA RowsLeave ==
    ASSUME NEW b, txns' = [r \in Row |-> IF BatchOf[r] = b THEN NULL ELSE txns[r]]
    PROVE  Stored' = Stored \ RowsOf(b)
BY DEF Stored, RowsOf

LEMMA UndoingLeavesRows ==
    ASSUME NEW q \in Request, PurgeCanceled(q) \/ Removal(q)
    PROVE  Stored' \subseteq Stored
<1>1. txns' = [r \in Row |-> IF BatchOf[r] = requests[q].batch THEN NULL ELSE txns[r]]
  BY DEF PurgeCanceled, Removal, RemoveBatch
<1> QED BY <1>1, RowsLeave

LEMMA CreationKeepsRows ==
    ASSUME NEW j, Creation(j)
    PROVE  UNCHANGED <<bankGoals, txns>> /\ Stored' = Stored
BY DEF Creation, CreateClient, CreateAccount, CreateGoal, ledgerVars, Stored

\* No fundTransactionId is stored twice, however often files are retried or
\* overlap: one $transaction resolves against the unique index and inserts
\* (saveTransactions, FundTransactionRepository.ts).
THEOREM IdsStoredOnce == Spec => []SingleCopy
<1>1. Init => TypeInv /\ SingleCopy
  BY InitType DEF Init, SingleCopy, Stored
<1>2. TypeInv /\ SingleCopy /\ [Next]_vars => TypeInv' /\ SingleCopy'
  <2> SUFFICES ASSUME TypeInv, SingleCopy, [Next]_vars PROVE SingleCopy'
    BY NextType
  <2>0. TypeOK
    BY DEF TypeInv
  <2>1. CASE Stored' \subseteq Stored
    BY <2>1 DEF SingleCopy
  <2>2. TablesKept => Stored' = Stored
    BY DEF TablesKept, Stored
  <2>3. ASSUME NEW b \in Batch, NEW new \in Insertable(b),
               NEW resolve \in [ClientsOf(b) -> Copy], Saving(b, new, resolve)
        PROVE  SingleCopy'
    BY <2>0, <2>3, SavingAdds DEF SingleCopy
  <2>4. ASSUME NEW q \in Request, PurgeCanceled(q) \/ Removal(q)
        PROVE  Stored' \subseteq Stored
    BY <2>4, UndoingLeavesRows
  <2>5. ASSUME NEW g \in Goal, BankPost(g) \/ BankWithdraw(g)
        PROVE  Stored' = Stored
    BY <2>5 DEF BankPost, BankWithdraw, ledgerVars, Stored
  <2> QED BY <2>1, <2>2, <2>3, <2>4, <2>5, CreationKeepsRows, StepCases
<1> QED BY <1>1, <1>2, PTL DEF Spec

-----------------------------------------------------------------------------
(* The pipeline implements FundLedger *)

LEMMA InitLedger == Init => Ledger!Init
BY DEF Init, Ledger!Init, Stored

LEMMA StepLedger == TypeInv /\ ForeignKeys /\ [Next]_vars => [Ledger!Next]_(Ledger!ledger)
<1> SUFFICES ASSUME TypeInv, ForeignKeys, [Next]_vars
             PROVE  Ledger!Next \/ UNCHANGED Ledger!ledger
  OBVIOUS
<1>0. TypeOK
  BY DEF TypeInv
<1>a. \A b : RowsOf(b) = Ledger!RowsIn(b)
  BY DEF RowsOf, Ledger!RowsIn
<1>1. CASE TablesKept
  BY <1>1 DEF TablesKept, Stored, Ledger!ledger
<1>2. ASSUME NEW j \in JobId, Creation(j)
      PROVE  Ledger!Next \/ UNCHANGED Ledger!ledger
  <2>1. UNCHANGED bankGoals /\ Stored' = Stored
    BY <1>2, CreationKeepsRows
  <2>2. UNCHANGED goals \/ \E g \in Goal : goals' = goals \union {g}
    BY <1>2 DEF Creation, CreateClient, CreateAccount, CreateGoal
  <2> QED BY <2>1, <2>2 DEF Ledger!Next, Ledger!Register, Ledger!ledger
<1>3. ASSUME NEW b \in Batch, NEW new \in Insertable(b),
             NEW resolve \in [ClientsOf(b) -> Copy], Saving(b, new, resolve)
      PROVE  Ledger!Post(b)
  BY <1>0, <1>3, <1>a, SavingAdds DEF Ledger!Post, Saving
<1>4. ASSUME NEW q \in Request, PurgeCanceled(q)
      PROVE  Ledger!Withdraw(requests[q].batch) /\ requests[q].batch \in Batch
  <2>1. Stored' = Stored \ RowsOf(requests[q].batch) /\ UNCHANGED <<goals, bankGoals>>
    BY <1>4, RowsLeave DEF PurgeCanceled, entityVars
  <2>2. requests[q].batch \in Batch
    BY <1>4 DEF PurgeCanceled, RequestAt, TypeInv, Addressed
  <2>3. \E closed \in SUBSET goals : closed = {} /\ goals' = goals \ closed
    BY <2>1
  <2> QED BY <1>a, <2>1, <2>2, <2>3 DEF Ledger!Withdraw
<1>5. ASSUME NEW q \in Request, Removal(q)
      PROVE  Ledger!Withdraw(requests[q].batch) /\ requests[q].batch \in Batch
  <2> DEFINE b == requests[q].batch
             closed == OrphanGoals(b) \intersect goals
  <2>1. /\ b \in Batch
        /\ Stored' = Stored \ RowsOf(b)
        /\ goals' = goals \ closed
        /\ UNCHANGED bankGoals
    BY <1>5, RowsLeave DEF Removal, RemoveBatch
  <2>2. /\ \A r \in Stored' : GoalOf[r] \notin closed
        /\ closed \intersect bankGoals = {}
        /\ closed \subseteq {GoalOf[r] : r \in Stored \intersect RowsOf(b)}
        /\ closed \subseteq goals
    BY <2>1 DEF OrphanGoals, StoredOf
  <2> HIDE DEF closed
  <2> QED BY <1>a, <2>1, <2>2 DEF Ledger!Withdraw
<1>6. ASSUME NEW g \in Goal, BankPost(g) \/ BankWithdraw(g)
      PROVE  Ledger!Next \/ UNCHANGED Ledger!ledger
  <2>1. UNCHANGED goals /\ Stored' = Stored
    BY <1>6 DEF BankPost, BankWithdraw, entityVars, ledgerVars, Stored
  <2>2. \/ g \in goals /\ bankGoals' = bankGoals \union {g}
        \/ g \in bankGoals /\ bankGoals' = bankGoals \ {g}
    BY <1>6 DEF BankPost, BankWithdraw
  <2>3. g \in goals
    BY <2>2 DEF ForeignKeys, BankResolves
  <2>4. {g} \in SUBSET goals
    BY <2>3
  <2>5. Ledger!Bank
    BY <2>1, <2>2, <2>4 DEF Ledger!Bank
  <2> QED BY <2>5 DEF Ledger!Next
<1> QED BY <1>1, <1>2, <1>3, <1>4, <1>5, <1>6, StepCases DEF Ledger!Next

\* Readers of the ledger see whole files come and go, on registered goals that no
\* step closes under a posted or a bank row: every step of the pipeline is a step
\* of FundLedger, or one its readers do not see.
THEOREM PipelineImplementsLedger == Spec => ImplementsLedger
<1>1. Init => TypeInv /\ ForeignKeys /\ Ledger!Init
  BY InitType, InitReferences, InitLedger
<1>2. TypeInv /\ ForeignKeys /\ [Next]_vars =>
        TypeInv' /\ ForeignKeys' /\ [Ledger!Next]_(Ledger!ledger)
  BY NextType, StepReferences, StepLedger
<1> QED BY <1>1, <1>2, PTL DEF Spec, ImplementsLedger, Ledger!Spec
=============================================================================

-------------------------- MODULE BankUpload_proofs --------------------------
(***************************************************************************)
(* Theorems about BankUpload, for any files, goals, requests, worker       *)
(* programs, faults and bounds that satisfy its assumptions.               *)
(***************************************************************************)
EXTENDS BankUpload, TLAPS

\* A job in the queue or with a worker has an attempt left to lose, and what a
\* worker has still to store is of the job's file.
JobSound(b) ==
    /\ jobs[b].state \in {"waiting", "active"} => jobs[b].attempts < MaxAttempts
    /\ jobs[b].state # "active" => jobs[b].pc = "start"
    /\ jobs[b].todo \subseteq RowsOf(b)
JobsSound == \A b \in Batch : JobSound(b)

\* A request is about a batch from its beginning on.
Addressed == \A q \in Request : requests[q].pc # "idle" <=> requests[q].batch \in Batch

DirectSound == \A b \in Batch : direct[b].todo \subseteq RowsOf(b)

TypeInv == TypeOK /\ JobsSound /\ Addressed /\ DirectSound

JobsOK == jobs \in [Batch -> Job] /\ JobsSound
RequestsOK == requests \in [Request -> RequestRow] /\ Addressed
DirectOK == direct \in [Batch -> DirectUpload] /\ DirectSound

-----------------------------------------------------------------------------
(* What the helpers of the actions do to the types *)

LEMMA FileTypes ==
    /\ \A r \in Row : BatchOf[r] \in Batch /\ GoalOf[r] \in Goal
    /\ \A b \in Batch : RowsOf(b) \subseteq Row
    /\ \A w, b : ParsedBy(w, b) \subseteq RowsOf(b)
    /\ \A R : Found(R) \subseteq R
BY BankFileAssumption DEF RowsOf, ParsedBy, Found

LEMMA NoJobType == /\ NoJob \in Job /\ NoJob.state = "none"
                   /\ NoJob.pc = "start" /\ NoJob.todo = {}
                   /\ NewJob \in Job /\ NewJob.attempts < MaxAttempts
                   /\ NewJob.state = "waiting" /\ NewJob.pc = "start" /\ NewJob.todo = {}
BY BankBoundAssumption DEF NoJob, NewJob, Job, Place

\* Replacing one job by another that is sound keeps the jobs so.
LEMMA ReplaceType ==
    ASSUME JobsOK, NEW b \in Batch, NEW job \in Job,
           job.state \in {"waiting", "active"} => job.attempts < MaxAttempts,
           job.state # "active" => job.pc = "start",
           job.todo \subseteq RowsOf(b),
           jobs' = [jobs EXCEPT ![b] = job]
    PROVE  JobsOK'
BY DEF JobsOK, JobsSound, JobSound, RowsOf

\* A worker goes on with its job.
LEMMA GotoType ==
    ASSUME JobsOK, NEW b \in Batch, jobs[b].state = "active", NEW pc \in Place, Goto(b, pc)
    PROVE  JobsOK'
BY DEF JobsOK, JobsSound, JobSound, Goto, Job, RowsOf

LEMMA TodoType ==
    ASSUME JobsOK, NEW b \in Batch, jobs[b].state = "active", NEW pc \in Place,
           NEW todo \in SUBSET RowsOf(b),
           jobs' = [jobs EXCEPT ![b].todo = todo, ![b].pc = pc]
    PROVE  JobsOK'
<1> DEFINE job == [jobs[b] EXCEPT !.todo = todo, !.pc = pc]
<1>1. jobs' = [jobs EXCEPT ![b] = job]
  OBVIOUS
<1>2. todo \in SUBSET Row
  BY FileTypes
<1>3. /\ job \in Job /\ job.state = "active" /\ job.todo = todo
      /\ job.attempts = jobs[b].attempts
  BY <1>2 DEF JobsOK, Job
<1>4. jobs[b].attempts < MaxAttempts
  BY DEF JobsOK, JobsSound, JobSound
<1> HIDE DEF job
<1> QED BY <1>1, <1>3, <1>4, ReplaceType

LEMMA ReleaseType ==
    ASSUME JobsOK, NEW b \in Batch, NEW state \in {"waiting", "failed"}
    PROVE  /\ Release(b, state) \in Job
           /\ Release(b, state).state = state
           /\ Release(b, state).pc = "start"
           /\ Release(b, state).todo = {}
           /\ Release(b, state).attempts = jobs[b].attempts
           /\ Release(b, state).stalls = jobs[b].stalls
BY DEF JobsOK, Release, Job, Place

LEMMA StatusType ==
    ASSUME TypeOK, NEW b, NEW status \in Status, batches' = [batches EXCEPT ![b] = status]
    PROVE  batches' \in [Batch -> Status]
BY DEF TypeOK

LEMMA UpdateBatchType ==
    ASSUME TypeOK, JobsOK, NEW b \in Batch, jobs[b].state = "active",
           NEW status \in Status, NEW next \in Place, UpdateBatch(b, status, next)
    PROVE  batches' \in [Batch -> Status] /\ JobsOK'
<1>1. "error" \in Place
  BY DEF Place
<1>2. JobsOK'
  BY <1>1, GotoType DEF UpdateBatch
<1>3. batches' \in [Batch -> Status]
  BY StatusType DEF UpdateBatch, TypeOK
<1> QED BY <1>2, <1>3

LEMMA ProceedType ==
    ASSUME RequestsOK, NEW q \in Request, requests[q].pc # "idle",
           NEW pc \in RequestPc \ {"idle"}, Proceed(q, pc)
    PROVE  RequestsOK'
BY DEF RequestsOK, Addressed, Proceed, RequestRow

-----------------------------------------------------------------------------
(* Initial states *)

LEMMA InitType == Init => TypeInv
<1> SUFFICES ASSUME Init PROVE TypeInv
  OBVIOUS
<1>1. batches \in [Batch -> Status] /\ direct \in [Batch -> DirectUpload]
  BY DEF Init, Status, Gone, DirectUpload
<1>2. JobsOK
  BY NoJobType DEF Init, JobsOK, JobsSound, JobSound
<1>3. RequestsOK
  BY BankBoundAssumption DEF Init, RequestsOK, Addressed, RequestRow, RequestPc
<1>4. rows \subseteq Row /\ posted \subseteq FundRow /\ registered \subseteq Goal
  BY BankFileAssumption DEF Init
<1> QED BY <1>1, <1>2, <1>3, <1>4
    DEF Init, TypeInv, TypeOK, JobsOK, RequestsOK, DirectSound

-----------------------------------------------------------------------------
(* Steps *)

LEMMA KeepTypes ==
    ASSUME TypeInv, batches' \in [Batch -> Status], rows' \subseteq Row,
           JobsOK', DirectOK', RequestsOK',
           uploading' \subseteq Batch, byRow' \subseteq Batch,
           posted' \subseteq FundRow, registered' \subseteq Goal
    PROVE  TypeInv'
BY DEF TypeInv, TypeOK, JobsOK, DirectOK, RequestsOK

LEMMA Kept == 
    ASSUME TypeInv
    PROVE  /\ UNCHANGED jobs => JobsOK'
           /\ UNCHANGED direct => DirectOK'
           /\ UNCHANGED requests => RequestsOK'
BY DEF TypeInv, TypeOK, JobsOK, JobsSound, JobSound, DirectOK, DirectSound,
       RequestsOK, Addressed

LEMMA UploadType ==
    ASSUME TypeInv, NEW b \in Batch, UploadCreate(b) \/ UploadEnqueue(b) \/ UploadAborts(b)
    PROVE  TypeInv'
<1>1. CASE UploadCreate(b)
  <2>1. batches' \in [Batch -> Status]
    BY <1>1, StatusType DEF UploadCreate, TypeInv, Status
  <2> QED BY <1>1, <2>1, Kept, KeepTypes DEF UploadCreate, fundVars, TypeInv, TypeOK
<1>2. CASE UploadEnqueue(b)
  <2>1. JobsOK'
    BY <1>2, NoJobType, ReplaceType DEF UploadEnqueue, TypeInv, TypeOK, JobsOK
  <2> QED BY <1>2, <2>1, Kept, KeepTypes DEF UploadEnqueue, fundVars, TypeInv, TypeOK
<1>3. CASE UploadAborts(b)
  BY <1>3, Kept, KeepTypes DEF UploadAborts, fundVars, TypeInv, TypeOK
<1> QED BY <1>1, <1>2, <1>3

\* A job that leaves its worker, completed, failed, stalled or removed.
LEMMA LeaveType ==
    ASSUME TypeInv, NEW b \in Batch,
           \/ CompleteJob(b) \/ FailAttempt(b) \/ WorkerCrash(b)
           \/ \E w \in Workers : TakeJob(b, w)
    PROVE  JobsOK'
<1>0. JobsOK /\ jobs[b] \in Job /\ JobSound(b)
  BY DEF TypeInv, TypeOK, JobsOK, JobsSound
<1>1. CASE CompleteJob(b)
  BY <1>0, <1>1, NoJobType, ReplaceType DEF CompleteJob
<1>2. CASE FailAttempt(b)
  <2> DEFINE used == jobs[b].attempts + 1
             state == IF used < MaxAttempts THEN "waiting" ELSE "failed"
             job == [Release(b, state) EXCEPT !.attempts = used]
  <2>1. used \in 0 .. MaxAttempts
    BY <1>0, <1>2, BankBoundAssumption DEF FailAttempt, At, Job, JobSound
  <2>2. /\ Release(b, state) \in Job /\ Release(b, state).state = state
        /\ Release(b, state).pc = "start" /\ Release(b, state).todo = {}
    BY <1>0, ReleaseType
  <2>3. /\ job \in Job /\ job.state = state /\ job.pc = "start" /\ job.todo = {}
        /\ job.attempts = used
    BY <2>1, <2>2 DEF Job
  <2>4. jobs' = [jobs EXCEPT ![b] = job]
    BY <1>2 DEF FailAttempt
  <2>5. job.state \in {"waiting", "active"} => job.attempts < MaxAttempts
    BY <2>3
  <2> HIDE DEF job
  <2> QED BY <1>0, <2>3, <2>4, <2>5, ReplaceType
<1>3. CASE WorkerCrash(b)
  <2> DEFINE state == IF jobs[b].stalls < MaxStalled THEN "waiting" ELSE "failed"
             job == [Release(b, state) EXCEPT !.stalls = @ + 1]
  <2>1. /\ Release(b, state) \in Job /\ Release(b, state).state = state
        /\ Release(b, state).pc = "start" /\ Release(b, state).todo = {}
        /\ Release(b, state).attempts = jobs[b].attempts
        /\ Release(b, state).stalls = jobs[b].stalls
    BY <1>0, ReleaseType
  <2>2. jobs[b].stalls + 1 \in 0 .. CrashLimit
    BY <1>0, <1>3, BankBoundAssumption DEF WorkerCrash, Job
  <2>3. /\ job \in Job /\ job.state = state /\ job.pc = "start" /\ job.todo = {}
        /\ job.attempts = jobs[b].attempts
    BY <2>1, <2>2 DEF Job
  <2>4. jobs' = [jobs EXCEPT ![b] = job]
    BY <1>3 DEF WorkerCrash
  <2>5. jobs[b].attempts < MaxAttempts
    BY <1>0, <1>3 DEF WorkerCrash, JobSound
  <2> HIDE DEF job
  <2> QED BY <1>0, <2>3, <2>4, <2>5, ReplaceType
<1>4. ASSUME NEW w \in Workers, TakeJob(b, w)
      PROVE  JobsOK'
  <2> DEFINE job == [jobs[b] EXCEPT !.state = "active", !.worker = w]
  <2>1. /\ job \in Job /\ job.state = "active" /\ job.pc = jobs[b].pc
        /\ job.todo = jobs[b].todo /\ job.attempts = jobs[b].attempts
    BY <1>0 DEF Job
  <2>2. jobs' = [jobs EXCEPT ![b] = job]
    BY <1>4 DEF TakeJob
  <2>3. jobs[b].attempts < MaxAttempts /\ jobs[b].todo \subseteq RowsOf(b)
    BY <1>0, <1>4 DEF TakeJob, JobSound
  <2> HIDE DEF job
  <2> QED BY <1>0, <2>1, <2>2, <2>3, ReplaceType
<1> QED BY <1>1, <1>2, <1>3, <1>4

\* What a worker does with the tables and the job it holds.
LEMMA WorkType ==
    ASSUME TypeInv, NEW b \in Batch,
           \/ StartJob(b) \/ ParseFile(b) \/ MarkCompleted(b) \/ RecordError(b)
           \/ ValidateFile(b) \/ RecordValidation(b) \/ RejectFile(b) \/ SaveTransactions(b)
           \/ ResolveRows(b) \/ BeginRows(b) \/ EndRows(b) \/ DbFault(b)
           \/ \E r \in Row : MatchAndStore(b, r)
    PROVE  JobsOK' /\ batches' \in [Batch -> Status] /\ rows' \subseteq Row
<1>0. /\ TypeOK /\ JobsOK /\ JobSound(b)
      /\ batches \in [Batch -> Status] /\ rows \subseteq Row
  BY DEF TypeInv, TypeOK, JobsOK, JobsSound
<1>p. {"start", "parse", "lookup", "record", "reject", "save", "rows",
       "final", "return", "error", "rethrow"} \subseteq Place
  BY DEF Place
<1>s. Busy \union {"COMPLETED", "FAILED"} \subseteq Status
  BY DEF Status
<1>1. CASE StartJob(b)
  BY <1>0, <1>1, <1>p, <1>s, UpdateBatchType DEF StartJob, At, Busy
<1>2. CASE ParseFile(b)
  BY <1>0, <1>2, <1>p, <1>s, UpdateBatchType, GotoType DEF ParseFile, At, Busy
<1>3. CASE MarkCompleted(b)
  BY <1>0, <1>3, <1>p, <1>s, UpdateBatchType DEF MarkCompleted, At
<1>4. CASE RecordError(b)
  BY <1>0, <1>4, <1>p, <1>s, StatusType, GotoType DEF RecordError, At
<1>5. CASE ValidateFile(b)
  <2>1. ParsedBy("fund-worker", b) \ Critical(ParsedBy("fund-worker", b))
           \in SUBSET RowsOf(b)
    BY FileTypes
  <2> QED BY <1>0, <1>5, <1>p, <2>1, TodoType DEF ValidateFile, Running, At
<1>6. CASE RecordValidation(b)
  BY <1>0, <1>6, <1>p, <1>s, UpdateBatchType DEF RecordValidation, Running, At, Busy
<1>7. CASE RejectFile(b)
  BY <1>0, <1>7, <1>p, <1>s, UpdateBatchType DEF RejectFile, At
<1>8. CASE SaveTransactions(b)
  <2>0. \E pc \in {"final", "error"} : Goto(b, pc)
    BY <1>8 DEF SaveTransactions
  <2>1. JobsOK'
    <3>1. jobs[b].state = "active" /\ {"final", "error"} \subseteq Place
      BY <1>8, <1>p DEF SaveTransactions, Running, At
    <3> QED BY <1>0, <2>0, <3>1, GotoType
  <2>2. jobs[b].todo \subseteq Row
    BY <1>0, FileTypes DEF JobSound
  <2> QED BY <1>0, <1>8, <2>1, <2>2 DEF SaveTransactions
<1>9. CASE ResolveRows(b)
  <2>1. Found(ParsedBy("bank-worker", b)) \in SUBSET RowsOf(b)
    BY FileTypes
  <2>2. jobs[b].state = "active" /\ "error" \in Place /\ "record" \in Place /\ JobsOK
    BY <1>0, <1>9, <1>p DEF ResolveRows, Running, At
  <2>3. ASSUME Goto(b, "error") PROVE JobsOK'
    BY <2>2, <2>3, GotoType
  <2>4. ASSUME jobs' = [jobs EXCEPT ![b].todo = Found(ParsedBy("bank-worker", b)), ![b].pc = "record"]
        PROVE  JobsOK'
    BY <2>1, <2>2, <2>4, TodoType
  <2>5. JobsOK'
    BY <1>9, <2>3, <2>4 DEF ResolveRows
  <2> QED BY <1>0, <1>9, <2>5 DEF ResolveRows
<1>10. CASE BeginRows(b)
  BY <1>0, <1>10, <1>p, <1>s, UpdateBatchType DEF BeginRows, Running, At, Busy
<1>11. CASE EndRows(b)
  BY <1>0, <1>11, <1>p, GotoType DEF EndRows, Running, At
<1>12. ASSUME NEW r \in Row, jobs' = [jobs EXCEPT ![b].todo = @ \ {r}],
              jobs[b].state = "active"
       PROVE  JobsOK'
  <2> DEFINE todo == jobs[b].todo \ {r}
  <2>1. jobs[b].pc \in Place /\ todo \in SUBSET RowsOf(b)
    BY <1>0 DEF JobsOK, Job, JobSound
  <2>2. jobs' = [jobs EXCEPT ![b].todo = todo, ![b].pc = jobs[b].pc]
    BY <1>0, <1>12 DEF JobsOK, Job
  <2> HIDE DEF todo
  <2> QED BY <1>0, <1>12, <2>1, <2>2, TodoType
<1>13. CASE DbFault(b)
  <2>1. jobs[b].todo \subseteq Row
    BY <1>0, FileTypes DEF JobSound
  <2>2. JobsOK'
    BY <1>0, <1>12, <1>13, <1>p, <2>1, GotoType DEF DbFault, At
  <2> QED BY <1>0, <1>13, <2>2 DEF DbFault
<1>14. ASSUME NEW r \in Row, MatchAndStore(b, r)
       PROVE  JobsOK' /\ batches' \in [Batch -> Status] /\ rows' \subseteq Row
  <2>1. JobsOK'
    BY <1>12, <1>14 DEF MatchAndStore, Running, At
  <2> QED BY <1>0, <1>14, <2>1 DEF MatchAndStore, Create
<1>15. ASSUME ValidateFile(b) \/ EndRows(b)
       PROVE  batches' \in [Batch -> Status] /\ rows' \subseteq Row
  BY <1>0, <1>15 DEF ValidateFile, EndRows
<1>16. ASSUME \/ StartJob(b) \/ ParseFile(b) \/ MarkCompleted(b) \/ RecordError(b)
              \/ RecordValidation(b) \/ RejectFile(b) \/ BeginRows(b)
       PROVE  rows' \subseteq Row
  BY <1>0, <1>16 DEF StartJob, ParseFile, MarkCompleted, RecordError, RecordValidation,
                     RejectFile, BeginRows
<1> QED BY <1>0, <1>1, <1>2, <1>3, <1>4, <1>5, <1>6, <1>7, <1>8, <1>9, <1>10, <1>11,
           <1>13, <1>14, <1>15, <1>16

LEMMA WorkerType ==
    ASSUME TypeInv, NEW b \in Batch, WorkerStep(b) \/ WorkerCrash(b) \/ DbFault(b)
    PROVE  TypeInv'
<1>1. UNCHANGED <<direct, requests, uploading, fundVars>> /\ byRow' \subseteq Batch
  BY DEF TypeInv, TypeOK, WorkerStep, WorkerCrash, DbFault, TakeJob, CompleteJob, FailAttempt,
         StartJob, ParseFile, MarkCompleted, RecordError, ValidateFile, RecordValidation,
         RejectFile, SaveTransactions, ResolveRows, BeginRows, EndRows, MatchAndStore
<1>2. JobsOK' /\ batches' \in [Batch -> Status] /\ rows' \subseteq Row
  <2>1. CASE \/ CompleteJob(b) \/ FailAttempt(b) \/ WorkerCrash(b)
             \/ \E w \in Workers : TakeJob(b, w)
    <3>1. UNCHANGED <<batches, rows>>
      BY <2>1 DEF CompleteJob, FailAttempt, WorkerCrash, TakeJob
    <3> QED BY <2>1, <3>1, LeaveType DEF TypeInv, TypeOK
  <2> QED BY <2>1, WorkType DEF WorkerStep
<1> QED BY <1>1, <1>2, Kept, KeepTypes DEF fundVars, TypeInv, TypeOK

LEMMA DirectType ==
    ASSUME TypeInv, NEW b \in Batch, DirectCreate(b) \/ DirectStep(b) \/ DirectAborts(b)
    PROVE  TypeInv'
<1>0. TypeOK /\ DirectOK
  BY DEF TypeInv, TypeOK, DirectOK
<1>1. UNCHANGED <<jobs, requests, uploading, fundVars>> /\ byRow' \subseteq Batch
  BY <1>0 DEF DirectCreate, DirectStep, DirectAborts, DirectParse, DirectStore,
              DirectComplete, TypeOK
<1>2. ASSUME NEW pc \in {"parse", "ok", "failed"}, DirectGoto(b, pc)
      PROVE  DirectOK'
  BY <1>0, <1>2 DEF DirectGoto, DirectOK, DirectSound, DirectUpload, RowsOf
<1>3. batches' \in [Batch -> Status]
  <2>1. {"PARSING", "VALIDATING", "COMPLETED"} \subseteq Status
    BY DEF Status, Busy
  <2> QED BY <1>0, <2>1, StatusType
          DEF DirectCreate, DirectStep, DirectAborts, DirectParse, DirectStore,
              DirectComplete, TypeOK
<1>4. rows' \subseteq Row
  BY <1>0 DEF DirectCreate, DirectStep, DirectAborts, DirectParse, DirectStore, Create,
              DirectComplete, TypeOK
<1>5. DirectOK'
  <2>1. CASE DirectCreate(b)
    BY <1>2, <2>1 DEF DirectCreate
  <2>2. CASE DirectParse(b)
    <3>1. CASE DirectGoto(b, "failed")
      BY <1>2, <3>1
    <3>2. CASE direct' = [direct EXCEPT ![b] = [pc |-> "rows",
                                                todo |-> ParsedBy("bank-worker", b)]]
      <4>1. ParsedBy("bank-worker", b) \subseteq RowsOf(b) /\ RowsOf(b) \subseteq Row
        BY FileTypes
      <4> QED BY <1>0, <3>2, <4>1 DEF DirectOK, DirectSound, DirectUpload, RowsOf
    <3> QED BY <2>2, <3>1, <3>2 DEF DirectParse
  <2>3. ASSUME NEW r \in Row, DirectStore(b, r)
        PROVE  DirectOK'
    BY <1>0, <2>3 DEF DirectStore, DirectOK, DirectSound, DirectUpload, RowsOf
  <2>4. CASE DirectComplete(b)
    BY <1>2, <2>4 DEF DirectComplete
  <2>5. CASE DirectAborts(b)
    BY <1>0, <2>5 DEF DirectAborts, DirectOK, DirectSound, DirectUpload, RowsOf
  <2> QED BY <2>1, <2>2, <2>3, <2>4, <2>5 DEF DirectStep
<1> QED BY <1>0, <1>1, <1>3, <1>4, <1>5, Kept, KeepTypes DEF fundVars, TypeOK

LEMMA RequestType ==
    ASSUME TypeInv, NEW q \in Request,
           \/ \E b \in Batch : BeginCancel(q, b) \/ BeginRollback(q, b)
           \/ RequestStep(q) \/ RequestAborts(q)
    PROVE  TypeInv'
<1> DEFINE b == requests[q].batch
<1>0. TypeOK /\ RequestsOK /\ JobsOK
  BY DEF TypeInv, TypeOK, RequestsOK, JobsOK
<1>p. {"mark", "dequeue", "purge", "remove", "ok", "failed"} \subseteq RequestPc \ {"idle"}
  BY DEF RequestPc
<1>1. ASSUME NEW c \in Batch, BeginCancel(q, c) \/ BeginRollback(q, c)
      PROVE  TypeInv'
  <2>1. PICK op \in {"cancel", "rollback"}, pc \in {"mark", "dequeue"} : Receive(q, op, c, pc)
    BY <1>1 DEF BeginCancel, BeginRollback
  <2> DEFINE row == [pc |-> pc, op |-> op, batch |-> c, queued |-> jobs[c].state # "none"]
  <2>2. row \in RequestRow /\ row.pc # "idle" /\ row.batch \in Batch
    BY DEF RequestRow, RequestPc
  <2>3. requests' = [requests EXCEPT ![q] = row]
    BY <2>1 DEF Receive
  <2> HIDE DEF row
  <2>4. RequestsOK'
    BY <1>0, <2>2, <2>3 DEF RequestsOK, Addressed
  <2> QED BY <1>0, <2>1, <2>4, Kept, KeepTypes DEF Receive, fundVars, TypeOK
<1>2. CASE MarkCanceled(q)
  <2>1. "CANCELED" \in Status
    BY DEF Status
  <2>2. batches' \in [Batch -> Status]
    BY <1>0, <1>2, <2>1, StatusType DEF MarkCanceled, TypeOK
  <2>3. RequestsOK'
    BY <1>0, <1>2, <1>p, ProceedType DEF MarkCanceled, RequestAt
  <2> QED BY <1>0, <1>2, <2>2, <2>3, Kept, KeepTypes DEF MarkCanceled, fundVars, TypeOK
<1>3. CASE Dequeue(q)
  <2>1. RequestsOK'
    BY <1>0, <1>3, <1>p, ProceedType DEF Dequeue, RequestAt
  <2>2. b \in Batch
    BY <1>0, <1>3 DEF Dequeue, RequestAt, RequestsOK, Addressed
  <2>3. JobsOK'
    <3>1. CASE UNCHANGED jobs
      BY <3>1, Kept
    <3>2. CASE jobs' = [jobs EXCEPT ![b] = NoJob]
      BY <1>0, <2>2, <3>2, NoJobType, ReplaceType
    <3> QED BY <1>3, <3>1, <3>2 DEF Dequeue
  <2> QED BY <1>0, <1>3, <2>1, <2>3, Kept, KeepTypes DEF Dequeue, fundVars, TypeOK
<1>4. CASE Purge(q)
  <2>1. RequestsOK'
    BY <1>0, <1>4, <1>p, ProceedType DEF Purge, RequestAt
  <2> QED BY <1>0, <1>4, <2>1, Kept, KeepTypes DEF Purge, fundVars, TypeOK
<1>5. CASE RemoveBatch(q)
  <2>1. "deleted" \in Status
    BY DEF Status, Gone
  <2>2. batches' \in [Batch -> Status]
    BY <1>0, <1>5, <2>1, StatusType DEF RemoveBatch, TypeOK
  <2>3. RequestsOK'
    BY <1>0, <1>5, <1>p, ProceedType DEF RemoveBatch, RequestAt
  <2> QED BY <1>0, <1>5, <2>2, <2>3, Kept, KeepTypes DEF RemoveBatch, fundVars, TypeOK
<1>6. CASE RequestAborts(q)
  <2>1. RequestsOK'
    BY <1>0, <1>6, <1>p, ProceedType DEF RequestAborts
  <2> QED BY <1>0, <1>6, <2>1, Kept, KeepTypes DEF RequestAborts, fundVars, TypeOK
<1> QED BY <1>1, <1>2, <1>3, <1>4, <1>5, <1>6 DEF RequestStep

LEMMA NextType == TypeInv /\ [Next]_vars => TypeInv'
<1> SUFFICES ASSUME TypeInv, [Next]_vars PROVE TypeInv'
  OBVIOUS
<1>1. CASE FundStep
  <2>1. posted' \subseteq FundRow
    BY <1>1 DEF FundStep, Ledger!Post, Ledger!Withdraw, Ledger!Register, Ledger!RowsIn,
                TypeInv, TypeOK
  <2>2. registered' \subseteq Goal
    BY <1>1 DEF FundStep, Ledger!Post, Ledger!Withdraw, Ledger!Register, TypeInv, TypeOK
  <2> QED BY <1>1, <2>1, <2>2, Kept, KeepTypes DEF FundStep, TypeInv, TypeOK
<1>2. CASE UNCHANGED vars
  BY <1>2, Kept, KeepTypes DEF vars, fundVars, TypeInv, TypeOK
<1> QED BY <1>1, <1>2, UploadType, WorkerType, DirectType, RequestType DEF Next

\* The tables, the queue, the handlers and the requests of the bank uploads hold only
\* what their types allow; a job never loses more attempts than it has (config/queue.ts).
THEOREM TypeCorrect == Spec => []TypeOK
<1>1. Spec => []TypeInv
  BY InitType, NextType, PTL DEF Spec
<1>2. TypeInv => TypeOK
  BY DEF TypeInv
<1> QED BY <1>1, <1>2, PTL

-----------------------------------------------------------------------------
(* What the steps keep true of the tables: references resolve, and readers of the *)
(* ledger see what FundLedger promises.                                         *)

\* The steps that touch bank rows: a save, one row stored, or the rows of a batch purged.
RowsOnly == UNCHANGED <<batches, fundVars>>
Stores(new) ==
    /\ rows' = rows \union new
    /\ RowsOnly
    /\ new \subseteq Row
    /\ \A r \in new : Live(BatchOf[r]) /\ GoalOf[r] \in registered
Deletes == rows' \subseteq rows /\ RowsOnly

LEMMA CreateStores ==
    ASSUME NEW r \in Row, Create(r), RowsOnly
    PROVE  \E new : Stores(new)
<1>1. CASE Creatable(r)
  <2>1. Stores({r})
    BY <1>1 DEF Create, Creatable, Stores
  <2> QED BY <2>1
<1>2. CASE ~Creatable(r)
  <2>1. Stores({})
    BY <1>2 DEF Create, Stores
  <2> QED BY <2>1
<1> QED BY <1>1, <1>2

LEMMA RowChanges ==
    ASSUME TypeInv, Next
    PROVE  \/ UNCHANGED rows
           \/ \E new : Stores(new)
           \/ Deletes
<1>1. ASSUME NEW b \in Batch, SaveTransactions(b)
      PROVE  \/ UNCHANGED rows
             \/ \E new : Stores(new)
  <2>1. CASE UNCHANGED rows
    BY <2>1
  <2>2. CASE Live(b) /\ Found(jobs[b].todo) = jobs[b].todo
    <3>1. jobs[b].todo \subseteq RowsOf(b)
      BY DEF TypeInv, JobsSound, JobSound
    <3>2. \A r \in jobs[b].todo : r \in Row /\ BatchOf[r] = b /\ GoalOf[r] \in registered
      BY <2>2, <3>1 DEF RowsOf, Found
    <3>3. Stores(jobs[b].todo)
      BY <1>1, <2>2, <3>2 DEF SaveTransactions, Stores, RowsOnly
    <3> QED BY <3>3
  <2> QED BY <1>1, <2>1, <2>2 DEF SaveTransactions
<1>2. ASSUME NEW b \in Batch, NEW r \in Row, MatchAndStore(b, r)
      PROVE  \E new : Stores(new)
  BY <1>2, CreateStores DEF MatchAndStore, RowsOnly
<1>3. ASSUME NEW b \in Batch, NEW r \in Row, DirectStore(b, r)
      PROVE  \/ UNCHANGED rows
             \/ \E new : Stores(new)
  BY <1>3, CreateStores DEF DirectStore, RowsOnly
<1>4. ASSUME NEW q \in Request, Purge(q)
      PROVE  Deletes
  BY <1>4 DEF Purge, Deletes, RowsOnly
<1>5. ASSUME NEW b \in Batch,
             \/ UploadCreate(b) \/ UploadEnqueue(b) \/ UploadAborts(b)
             \/ DirectCreate(b) \/ DirectParse(b) \/ DirectComplete(b) \/ DirectAborts(b)
             \/ WorkerCrash(b) \/ DbFault(b)
      PROVE  UNCHANGED rows
  BY <1>5 DEF UploadCreate, UploadEnqueue, UploadAborts, DirectCreate, DirectParse,
              DirectComplete, DirectAborts, WorkerCrash, DbFault
<1>6. ASSUME NEW b \in Batch, WorkerStep(b), ~SaveTransactions(b),
             ~\E r \in Row : MatchAndStore(b, r)
      PROVE  UNCHANGED rows
  BY <1>6 DEF WorkerStep, TakeJob, CompleteJob, FailAttempt, StartJob, ParseFile,
              MarkCompleted, RecordError, ValidateFile, RecordValidation, RejectFile,
              ResolveRows, BeginRows, EndRows
<1>7. ASSUME NEW q \in Request, ~Purge(q),
             \/ \E b \in Batch : BeginCancel(q, b) \/ BeginRollback(q, b)
             \/ RequestStep(q) \/ RequestAborts(q)
      PROVE  UNCHANGED rows
  BY <1>7 DEF BeginCancel, BeginRollback, Receive, RequestStep, MarkCanceled, Dequeue,
              RemoveBatch, RequestAborts
<1>8. FundStep => UNCHANGED rows
  BY DEF FundStep
<1> QED BY <1>1, <1>2, <1>3, <1>4, <1>5, <1>6, <1>7, <1>8 DEF Next, DirectStep

-----------------------------------------------------------------------------
(* References *)

\* No step but the last of a rollback takes a batch away.
LEMMA BatchesStay ==
    ASSUME TypeInv, Next, NEW c \in Batch, Live(c), ~Live(c)'
    PROVE  StoredOf(c) = {} /\ UNCHANGED rows
<1>0. batches \in [Batch -> Status]
  BY DEF TypeInv, TypeOK
<1>1. ASSUME NEW b, NEW status \in Status \ Gone, batches' = [batches EXCEPT ![b] = status]
      PROVE  FALSE
  BY <1>0, <1>1 DEF Live
<1>2. ASSUME UNCHANGED batches
      PROVE  FALSE
  BY <1>2 DEF Live
<1>s. Busy \union {"QUEUED", "COMPLETED", "FAILED", "CANCELED"} \subseteq Status \ Gone
  BY DEF Status, Busy, Gone
<1>3. ASSUME NEW q \in Request, RemoveBatch(q)
      PROVE  StoredOf(c) = {} /\ UNCHANGED rows
  <2>1. UNCHANGED rows
    BY <1>3 DEF RemoveBatch
  <2>2. requests[q].batch = c
    BY <1>0, <1>2, <1>3 DEF RemoveBatch, Live
  <2> QED BY <1>2, <1>3, <2>1, <2>2 DEF RemoveBatch
<1>4. ASSUME NEW b \in Batch,
             \/ UploadCreate(b) \/ UploadEnqueue(b) \/ UploadAborts(b)
             \/ DirectCreate(b) \/ DirectStep(b) \/ DirectAborts(b)
      PROVE  FALSE
  BY <1>1, <1>2, <1>4, <1>s
     DEF UploadCreate, UploadEnqueue, UploadAborts, DirectCreate, DirectStep, DirectParse,
         DirectStore, DirectComplete, DirectAborts, Busy
<1>5. ASSUME NEW b \in Batch,
             \/ WorkerCrash(b) \/ DbFault(b) \/ \E w \in Workers : TakeJob(b, w)
             \/ CompleteJob(b) \/ FailAttempt(b) \/ ValidateFile(b) \/ SaveTransactions(b)
             \/ ResolveRows(b) \/ EndRows(b) \/ \E r \in Row : MatchAndStore(b, r)
      PROVE  FALSE
  BY <1>2, <1>5 DEF WorkerCrash, DbFault, TakeJob, CompleteJob, FailAttempt, ValidateFile,
                    SaveTransactions, ResolveRows, EndRows, MatchAndStore
<1>6. ASSUME NEW b \in Batch,
             \/ StartJob(b) \/ ParseFile(b) \/ MarkCompleted(b) \/ RecordError(b)
             \/ RecordValidation(b) \/ RejectFile(b) \/ BeginRows(b)
      PROVE  FALSE
  BY <1>1, <1>2, <1>6, <1>s
     DEF StartJob, ParseFile, MarkCompleted, RecordError, RecordValidation, RejectFile,
         BeginRows, UpdateBatch, Busy
<1>7. ASSUME NEW q \in Request,
             \/ \E b \in Batch : BeginCancel(q, b) \/ BeginRollback(q, b)
             \/ MarkCanceled(q) \/ Dequeue(q) \/ Purge(q) \/ RequestAborts(q)
      PROVE  FALSE
  BY <1>1, <1>2, <1>7, <1>s
     DEF BeginCancel, BeginRollback, Receive, MarkCanceled, Dequeue, Purge, RequestAborts
<1>8. FundStep => FALSE
  BY <1>2 DEF FundStep
<1> QED BY <1>3, <1>4, <1>5, <1>6, <1>7, <1>8 DEF Next, WorkerStep, RequestStep

\* Only fund rollbacks close goals, and none that a bank row is on.
LEMMA GoalsStay ==
    ASSUME TypeInv, Next, NEW g \in registered, g \notin registered'
    PROVE  g \notin Banked /\ UNCHANGED rows
<1>1. CASE FundStep
  <2>1. UNCHANGED rows
    BY <1>1 DEF FundStep
  <2>2. PICK f \in FundFile : Ledger!Withdraw(f)
    BY <1>1 DEF FundStep, Ledger!Post, Ledger!Register
  <2> QED BY <2>1, <2>2 DEF Ledger!Withdraw
<1>2. CASE ~FundStep
  <2>1. UNCHANGED fundVars
    BY <1>2 DEF Next, UploadCreate, UploadEnqueue, UploadAborts, DirectCreate, DirectStep,
            DirectParse, DirectStore, DirectComplete, DirectAborts, WorkerStep, WorkerCrash,
            DbFault, TakeJob, CompleteJob, FailAttempt, StartJob, ParseFile, MarkCompleted,
            RecordError, ValidateFile, RecordValidation, RejectFile, SaveTransactions,
            ResolveRows, BeginRows, EndRows, MatchAndStore, BeginCancel, BeginRollback,
            Receive, RequestStep, MarkCanceled, Dequeue, Purge, RemoveBatch, RequestAborts
  <2> QED BY <2>1 DEF fundVars
<1> QED BY <1>1, <1>2

LEMMA NextReferences == TypeInv /\ ForeignKeys /\ [Next]_vars => ForeignKeys'
<1> SUFFICES ASSUME TypeInv, ForeignKeys, [Next]_vars,
                    NEW r \in rows'
             PROVE  Live(BatchOf[r])' /\ GoalOf[r] \in registered'
  BY DEF ForeignKeys
<1>1. CASE UNCHANGED vars
  BY <1>1 DEF vars, fundVars, ForeignKeys, Live
<1>2. CASE Next
  <2>1. CASE r \notin rows
    <3>1. PICK new : Stores(new)
      BY <1>2, <2>1, RowChanges DEF Deletes
    <3> QED BY <2>1, <3>1 DEF Stores, RowsOnly, fundVars, Live
  <2>2. CASE r \in rows
    <3>0. r \in Row /\ BatchOf[r] \in Batch
      BY <2>2, FileTypes DEF TypeInv, TypeOK
    <3>1. Live(BatchOf[r])'
      <4>1. SUFFICES ASSUME ~Live(BatchOf[r])' PROVE FALSE
        OBVIOUS
      <4>2. StoredOf(BatchOf[r]) = {}
        BY <1>2, <2>2, <3>0, <4>1, BatchesStay DEF ForeignKeys
      <4> QED BY <2>2, <3>0, <4>2 DEF StoredOf, RowsOf
    <3>2. GoalOf[r] \in registered'
      BY <1>2, <2>2, GoalsStay DEF ForeignKeys, Banked
    <3> QED BY <3>1, <3>2
  <2> QED BY <2>1, <2>2
<1> QED BY <1>1, <1>2

\* No bank row outlives its batch or its goal: rollback deletes rows and batch in
\* statements of their own while workers store more, and fund rollbacks close goals
\* between a lookup and an insert (bankUploadRoutes.ts, BankTransactionRepository.ts).
THEOREM ReferencesResolve == Spec => []ForeignKeys
<1>1. Init => ForeignKeys
  BY DEF Init, ForeignKeys
<1>2. Spec => [](TypeInv /\ ForeignKeys)
  BY <1>1, InitType, NextType, NextReferences, PTL DEF Spec
<1> QED BY <1>2, PTL

-----------------------------------------------------------------------------
(* Bank uploads implement FundLedger *)

LEMMA BankedStores ==
    ASSUME NEW new, Stores(new)
    PROVE  Ledger!Bank
<1> DEFINE on == {GoalOf[r] : r \in new}
<1>1. on \in SUBSET registered
  BY DEF Stores
<1>2. Banked' = Banked \union on
  BY DEF Stores, Banked
<1> HIDE DEF on
<1> QED BY <1>1, <1>2 DEF Ledger!Bank, Stores, RowsOnly, fundVars

LEMMA BankedDeletes ==
    ASSUME ForeignKeys, Deletes
    PROVE  Ledger!Bank
<1> DEFINE on == Banked \ Banked'
<1>1. Banked \subseteq registered /\ Banked' \subseteq Banked
  BY DEF Deletes, Banked, ForeignKeys
<1>2. on \in SUBSET registered /\ Banked' = Banked \ on
  BY <1>1
<1> HIDE DEF on
<1> QED BY <1>2 DEF Ledger!Bank, Deletes, RowsOnly, fundVars

LEMMA StepImplements ==
    ASSUME TypeInv, ForeignKeys, [Next]_vars
    PROVE  [Ledger!Next]_(Ledger!ledger)
<1>1. CASE UNCHANGED vars
  BY <1>1 DEF vars, fundVars, Ledger!ledger, Banked
<1>2. CASE FundStep
  BY <1>2 DEF FundStep, Ledger!Next
<1>3. CASE Next /\ ~FundStep
  <2>1. UNCHANGED fundVars
    BY <1>3 DEF Next, UploadCreate, UploadEnqueue, UploadAborts, DirectCreate, DirectStep,
            DirectParse, DirectStore, DirectComplete, DirectAborts, WorkerStep, WorkerCrash,
            DbFault, TakeJob, CompleteJob, FailAttempt, StartJob, ParseFile, MarkCompleted,
            RecordError, ValidateFile, RecordValidation, RejectFile, SaveTransactions,
            ResolveRows, BeginRows, EndRows, MatchAndStore, BeginCancel, BeginRollback,
            Receive, RequestStep, MarkCanceled, Dequeue, Purge, RemoveBatch, RequestAborts
  <2>2. CASE UNCHANGED rows
    BY <2>1, <2>2 DEF fundVars, Ledger!ledger, Banked
  <2>3. CASE \E new : Stores(new)
    BY <2>3, BankedStores DEF Ledger!Next
  <2>4. CASE Deletes
    BY <2>4, BankedDeletes DEF Ledger!Next
  <2> QED BY <1>3, <2>2, <2>3, <2>4, RowChanges
<1> QED BY <1>1, <1>2, <1>3

\* Every step of the bank uploads is, for the fund tables, a step FundLedger lets bank
\* uploads take or none at all: they come on registered goals and hold those open.
THEOREM BankImplementsLedger == Spec => ImplementsLedger
<1>1. Init => Ledger!Init
  BY DEF Init, Ledger!Init, Banked
<1>2. Spec => [](TypeInv /\ ForeignKeys)
  BY InitType, NextType, ReferencesResolve, PTL DEF Spec
<1>3. TypeInv /\ ForeignKeys /\ [Next]_vars => [Ledger!Next]_(Ledger!ledger)
  BY StepImplements
<1> QED BY <1>1, <1>2, <1>3, PTL DEF Spec, ImplementsLedger, Ledger!Spec

-----------------------------------------------------------------------------
(* Whole files: saveTransactions stores a file whole or not at all, and a   *)
(* cancel of a file whose job was in the queue holds.                       *)

\* A file comes to "save" with all its rows, and whatever stores rows one by one has
\* noted the file in byRow.
SavesWhole == \A b \in Batch :
    At(b, "save") => b \in byRow \/ jobs[b].todo = ParsedBy("fund-worker", b)
RowsNoted == \A b \in Batch : At(b, "rows") \/ direct[b].pc = "rows" => b \in byRow
PlanInv == SavesWhole /\ RowsNoted

-----------------------------------------------------------------------------
(* What changes a job, an older upload, and the rows of a batch *)

\* How a job comes to, or stays at, the places where rows are stored or have been.
LEMMA JobChanges ==
    ASSUME TypeInv, Next, NEW b \in Batch, jobs'[b] # jobs[b],
           jobs'[b].state = "active", jobs'[b].pc \in {"save", "rows", "final"}
    PROVE  \/ RecordValidation(b) /\ jobs'[b].todo = ParsedBy("fund-worker", b)
           \/ BeginRows(b)
           \/ SaveTransactions(b) /\ Live(b) /\ Found(jobs[b].todo) = jobs[b].todo
           \/ At(b, "rows")
<1>0. /\ jobs \in [Batch -> Job] /\ JobSound(b)
  BY DEF TypeInv, TypeOK, JobsSound
<1> SUFFICES ASSUME ~At(b, "rows")
             PROVE  \/ RecordValidation(b) /\ jobs'[b].todo = ParsedBy("fund-worker", b)
                    \/ BeginRows(b)
                    \/ SaveTransactions(b) /\ Live(b) /\ Found(jobs[b].todo) = jobs[b].todo
  OBVIOUS
<1>1. ASSUME NEW c \in Batch, NEW job, jobs' = [jobs EXCEPT ![c] = job]
      PROVE  c = b /\ jobs'[b] = job
  BY <1>0, <1>1
<1>2. ASSUME NEW c \in Batch, NEW pc, Goto(c, pc)
      PROVE  c = b /\ jobs'[b].pc = pc /\ jobs'[b].todo = jobs[b].todo
  BY <1>0, <1>2 DEF Goto, Job
<1>3. ASSUME NEW c \in Batch, NEW status, NEW next \in Place, UpdateBatch(c, status, next)
      PROVE  c = b /\ jobs'[b].pc \in {next, "error"} /\ jobs'[b].todo = jobs[b].todo
  BY <1>2, <1>3 DEF UpdateBatch
<1>4. UNCHANGED jobs => FALSE
  OBVIOUS
<1>5. ASSUME NEW c \in Batch, UploadEnqueue(c) \/ CompleteJob(c)
      PROVE  FALSE
  BY <1>1, <1>5, NoJobType DEF UploadEnqueue, CompleteJob
<1>6. ASSUME NEW c \in Batch, FailAttempt(c) \/ WorkerCrash(c)
      PROVE  FALSE
  <2>1. JobsOK
    BY <1>0 DEF TypeInv, JobsOK
  <2>2. ASSUME FailAttempt(c)
        PROVE  jobs'[c].state # "active"
    <3> DEFINE used == jobs[c].attempts + 1
               state == IF used < MaxAttempts THEN "waiting" ELSE "failed"
               job == [Release(c, state) EXCEPT !.attempts = used]
    <3>1. Release(c, state) \in Job /\ Release(c, state).state = state
      BY <2>1, ReleaseType
    <3>2. job.state = state
      BY <3>1 DEF Job
    <3>3. jobs' = [jobs EXCEPT ![c] = job]
      BY <2>2 DEF FailAttempt
    <3> HIDE DEF job
    <3> QED BY <1>0, <3>2, <3>3
  <2>3. ASSUME WorkerCrash(c)
        PROVE  jobs'[c].state # "active"
    <3> DEFINE state == IF jobs[c].stalls < MaxStalled THEN "waiting" ELSE "failed"
               job == [Release(c, state) EXCEPT !.stalls = @ + 1]
    <3>1. Release(c, state) \in Job /\ Release(c, state).state = state
      BY <2>1, ReleaseType
    <3>2. job.state = state
      BY <3>1 DEF Job
    <3>3. jobs' = [jobs EXCEPT ![c] = job]
      BY <2>3 DEF WorkerCrash
    <3> HIDE DEF job
    <3> QED BY <1>0, <3>2, <3>3
  <2>4. jobs' = [jobs EXCEPT ![c] = jobs'[c]]
    BY <1>0, <1>6 DEF FailAttempt, WorkerCrash
  <2> QED BY <1>1, <1>6, <2>2, <2>3, <2>4
<1>7. ASSUME NEW c \in Batch, NEW w \in Workers, TakeJob(c, w)
      PROVE  FALSE
  BY <1>0, <1>7 DEF TakeJob, Job, JobSound
<1>8. ASSUME NEW c \in Batch,
             \/ StartJob(c) \/ ParseFile(c) \/ MarkCompleted(c) \/ RecordError(c)
             \/ RejectFile(c)
      PROVE  FALSE
  BY <1>2, <1>3, <1>8 DEF StartJob, ParseFile, MarkCompleted, RecordError, RejectFile, Place
<1>9. ASSUME NEW c \in Batch, RecordValidation(c)
      PROVE  RecordValidation(b) /\ jobs'[b].todo = ParsedBy("fund-worker", b)
  BY <1>3, <1>9 DEF RecordValidation, Place
<1>10. ASSUME NEW c \in Batch, ValidateFile(c) \/ ResolveRows(c)
       PROVE  FALSE
  BY <1>0, <1>2, <1>10 DEF ValidateFile, ResolveRows, Job
<1>11. ASSUME NEW c \in Batch, SaveTransactions(c)
       PROVE  SaveTransactions(b) /\ Live(b) /\ Found(jobs[b].todo) = jobs[b].todo
  BY <1>2, <1>11 DEF SaveTransactions
<1>12. ASSUME NEW c \in Batch, BeginRows(c)
       PROVE  BeginRows(b)
  BY <1>3, <1>12 DEF BeginRows, Place
<1>13. ASSUME NEW c \in Batch, EndRows(c) \/ \E r \in Row : MatchAndStore(c, r)
       PROVE  FALSE
  BY <1>0, <1>13 DEF EndRows, MatchAndStore, Running, At, Goto
<1>14. ASSUME NEW c \in Batch, DbFault(c)
       PROVE  FALSE
  <2>1. CASE \E pc \in {"error", "rethrow"} : Goto(c, pc)
    BY <1>2, <2>1
  <2>2. CASE At(c, "rows") /\ \E r \in jobs[c].todo : jobs' = [jobs EXCEPT ![c].todo = @ \ {r}]
    BY <1>0, <2>2 DEF At
  <2> QED BY <1>14, <2>1, <2>2 DEF DbFault
<1>15. ASSUME NEW q \in Request, Dequeue(q)
       PROVE  FALSE
  BY <1>0, <1>15, NoJobType DEF Dequeue
<1>16. ASSUME NEW c \in Batch,
              \/ UploadCreate(c) \/ UploadAborts(c)
              \/ DirectCreate(c) \/ DirectStep(c) \/ DirectAborts(c)
       PROVE  FALSE
  BY <1>4, <1>16 DEF UploadCreate, UploadAborts, DirectCreate, DirectStep, DirectAborts,
                     DirectParse, DirectStore, DirectComplete
<1>17. ASSUME NEW q \in Request,
              \/ \E c \in Batch : BeginCancel(q, c) \/ BeginRollback(q, c)
              \/ MarkCanceled(q) \/ Purge(q) \/ RemoveBatch(q) \/ RequestAborts(q)
       PROVE  FALSE
  BY <1>4, <1>17 DEF BeginCancel, BeginRollback, Receive, MarkCanceled, Purge, RemoveBatch,
                     RequestAborts
<1>18. FundStep => FALSE
  BY <1>4 DEF FundStep
<1> QED BY <1>5, <1>6, <1>7, <1>8, <1>9, <1>10, <1>11, <1>12, <1>13, <1>14, <1>15, <1>16,
           <1>17, <1>18 DEF Next, WorkerStep, RequestStep

\* An older upload reaches its rows by DirectParse only, and is there for its own files.
LEMMA DirectChanges ==
    ASSUME TypeInv, Next, NEW b \in Batch, direct'[b] # direct[b]
    PROVE  \/ DirectCreate(b) \/ DirectParse(b)
           \/ direct[b].pc = "rows" /\ direct'[b].pc = "rows"
           \/ direct[b].pc \in {"parse", "rows"} /\ direct'[b].pc \in {"ok", "failed"}
<1>0. direct \in [Batch -> DirectUpload]
  BY DEF TypeInv, TypeOK
<1>1. ASSUME NEW c \in Batch, c # b,
             DirectCreate(c) \/ DirectStep(c) \/ DirectAborts(c)
      PROVE  FALSE
  BY <1>0, <1>1 DEF DirectCreate, DirectStep, DirectAborts, DirectParse, DirectStore,
                    DirectComplete, DirectGoto
<1>2. ASSUME NEW r \in Row, DirectStore(b, r)
      PROVE  direct[b].pc = "rows" /\ direct'[b].pc = "rows"
  BY <1>0, <1>2 DEF DirectStore, DirectAt, DirectUpload
<1>3. ASSUME DirectComplete(b) \/ DirectAborts(b)
      PROVE  direct[b].pc \in {"parse", "rows"} /\ direct'[b].pc \in {"ok", "failed"}
  BY <1>0, <1>3 DEF DirectComplete, DirectAborts, DirectAt, DirectGoto, DirectUpload
<1>4. ASSUME UNCHANGED direct
      PROVE  FALSE
  BY <1>4
<1> QED BY <1>1, <1>2, <1>3, <1>4
    DEF Next, UploadCreate, UploadEnqueue, UploadAborts, DirectStep, WorkerStep, WorkerCrash,
        DbFault, TakeJob, CompleteJob, FailAttempt, StartJob, ParseFile, MarkCompleted,
        RecordError, ValidateFile, RecordValidation, RejectFile, SaveTransactions,
        ResolveRows, BeginRows, EndRows, MatchAndStore, BeginCancel, BeginRollback, Receive,
        RequestStep, MarkCanceled, Dequeue, Purge, RemoveBatch, RequestAborts, FundStep

\* Rows of a batch come by its own job or its own older upload, and go by a purge of it.
LEMMA StoredChanges ==
    ASSUME TypeInv, Next, NEW b \in Batch, StoredOf(b)' # StoredOf(b)
    PROVE  \/ /\ Running(b, "fund-worker", "save")
              /\ Live(b) /\ Found(jobs[b].todo) = jobs[b].todo
              /\ StoredOf(b)' = StoredOf(b) \union jobs[b].todo
           \/ At(b, "rows") \/ direct[b].pc = "rows"
           \/ \E q \in Request : /\ Purge(q) /\ requests[q].batch = b
                                 /\ StoredOf(b)' = {}
<1>0. /\ \A c \in Batch : jobs[c].todo \subseteq RowsOf(c) /\ direct[c].todo \subseteq RowsOf(c)
      /\ UNCHANGED rows => FALSE
  BY DEF TypeInv, JobsSound, JobSound, DirectSound, StoredOf, RowsOf
<1>1. ASSUME NEW c \in Batch, SaveTransactions(c)
      PROVE  /\ Running(b, "fund-worker", "save")
             /\ Live(b) /\ Found(jobs[b].todo) = jobs[b].todo
             /\ StoredOf(b)' = StoredOf(b) \union jobs[b].todo
  <2>1. /\ Running(c, "fund-worker", "save") /\ Live(c)
        /\ Found(jobs[c].todo) = jobs[c].todo /\ rows' = rows \union jobs[c].todo
    BY <1>0, <1>1 DEF SaveTransactions
  <2>2. c = b
    BY <1>0, <2>1 DEF StoredOf, RowsOf
  <2> QED BY <1>0, <2>1, <2>2 DEF StoredOf, RowsOf
<1>2. ASSUME NEW c \in Batch, NEW r \in Row, MatchAndStore(c, r)
      PROVE  At(b, "rows")
  <2>1. c = b
    BY <1>0, <1>2 DEF MatchAndStore, Create, StoredOf, RowsOf
  <2> QED BY <1>2, <2>1 DEF MatchAndStore, Running
<1>3. ASSUME NEW c \in Batch, NEW r \in Row, DirectStore(c, r)
      PROVE  direct[b].pc = "rows"
  <2>1. c = b
    BY <1>0, <1>3 DEF DirectStore, Create, StoredOf, RowsOf
  <2> QED BY <1>3, <2>1 DEF DirectStore, DirectAt
<1>4. ASSUME NEW q \in Request, Purge(q)
      PROVE  requests[q].batch = b /\ StoredOf(b)' = {}
  <2>1. requests[q].batch \in Batch
    BY <1>4 DEF Purge, RequestAt, TypeInv, Addressed
  <2> QED BY <1>4, <2>1 DEF Purge, StoredOf, RowsOf
<1> QED BY <1>0, <1>1, <1>2, <1>3, <1>4
    DEF Next, UploadCreate, UploadEnqueue, UploadAborts, DirectCreate, DirectStep, DirectParse,
        DirectComplete, DirectAborts, WorkerStep, WorkerCrash, DbFault, TakeJob, CompleteJob,
        FailAttempt, StartJob, ParseFile, MarkCompleted, RecordError, ValidateFile,
        RecordValidation, RejectFile, ResolveRows, BeginRows, EndRows, BeginCancel,
        BeginRollback, Receive, RequestStep, MarkCanceled, Dequeue, RemoveBatch,
        RequestAborts, FundStep

-----------------------------------------------------------------------------
(* A file is stored whole or not at all *)

LEMMA NotedStays == ASSUME Next PROVE byRow \subseteq byRow'
BY DEF Next, UploadCreate, UploadEnqueue, UploadAborts, DirectCreate, DirectStep, DirectParse,
       DirectStore, DirectComplete, DirectAborts, WorkerStep, WorkerCrash, DbFault, TakeJob,
       CompleteJob, FailAttempt, StartJob, ParseFile, MarkCompleted, RecordError,
       ValidateFile, RecordValidation, RejectFile, SaveTransactions, ResolveRows, BeginRows,
       EndRows, MatchAndStore, BeginCancel, BeginRollback, Receive, RequestStep,
       MarkCanceled, Dequeue, Purge, RemoveBatch, RequestAborts, FundStep

\* Where a worker's call takes the job.
LEMMA Places ==
    ASSUME TypeInv, NEW b \in Batch
    PROVE  /\ RecordValidation(b) => jobs'[b].pc \in {"save", "reject", "error"}
           /\ SaveTransactions(b) /\ Live(b) /\ Found(jobs[b].todo) = jobs[b].todo
                 => /\ jobs'[b].pc = "final"
                    /\ rows' = rows \union jobs[b].todo
<1>1. ASSUME NEW pc, Goto(b, pc)
      PROVE  jobs'[b].pc = pc
  BY <1>1 DEF Goto, TypeInv, TypeOK, Job
<1>2. RecordValidation(b) => jobs'[b].pc \in {"save", "reject", "error"}
  BY <1>1 DEF RecordValidation, UpdateBatch
<1>3. SaveTransactions(b) /\ Live(b) /\ Found(jobs[b].todo) = jobs[b].todo
         => jobs'[b].pc = "final" /\ rows' = rows \union jobs[b].todo
  BY <1>1 DEF SaveTransactions
<1> QED BY <1>2, <1>3

LEMMA NextPlan == TypeInv /\ PlanInv /\ [Next]_vars => PlanInv'
<1> SUFFICES ASSUME TypeInv, PlanInv, [Next]_vars, NEW b \in Batch
             PROVE  /\ At(b, "save")' => b \in byRow'
                                         \/ jobs'[b].todo = ParsedBy("fund-worker", b)
                    /\ At(b, "rows")' => b \in byRow'
                    /\ direct'[b].pc = "rows" => b \in byRow'
  BY DEF PlanInv, SavesWhole, RowsNoted, ParsedBy, RowsOf
<1>1. CASE UNCHANGED vars
  BY <1>1 DEF vars, PlanInv, SavesWhole, RowsNoted, At
<1>2. CASE Next
  <2>0. byRow \subseteq byRow'
    BY <1>2, NotedStays
  <2>1. BeginRows(b) => b \in byRow'
    BY DEF BeginRows
  <2>2. At(b, "rows") => b \in byRow'
    BY <2>0 DEF PlanInv, RowsNoted
  <2>3. At(b, "save")' => b \in byRow' \/ jobs'[b].todo = ParsedBy("fund-worker", b)
    <3>1. CASE jobs'[b] = jobs[b]
      BY <2>0, <3>1 DEF At, PlanInv, SavesWhole
    <3>2. CASE jobs'[b] # jobs[b]
      BY <1>2, <2>1, <2>2, <3>2, JobChanges, Places DEF At
    <3> QED BY <3>1, <3>2
  <2>4. At(b, "rows")' => b \in byRow'
    <3>1. CASE jobs'[b] = jobs[b]
      BY <2>0, <3>1 DEF At, PlanInv, RowsNoted
    <3>2. CASE jobs'[b] # jobs[b]
      BY <1>2, <2>1, <2>2, <3>2, JobChanges, Places DEF At
    <3> QED BY <3>1, <3>2
  <2>5. direct'[b].pc = "rows" => b \in byRow'
    <3>1. CASE direct'[b] = direct[b] \/ direct[b].pc = "rows"
      BY <2>0, <3>1 DEF PlanInv, RowsNoted
    <3>2. DirectCreate(b) => direct'[b].pc = "parse"
      BY DEF DirectCreate, DirectGoto, TypeInv, TypeOK, DirectUpload
    <3>3. DirectParse(b) => b \in byRow'
      BY DEF DirectParse
    <3> QED BY <1>2, <3>1, <3>2, <3>3, DirectChanges
  <2> QED BY <2>3, <2>4, <2>5
<1> QED BY <1>1, <1>2

\* What a step leaves of a batch no row by row pipeline has worked on.
LEMMA StoredWhole ==
    ASSUME TypeInv, PlanInv, AllOrNothing, Next, NEW b \in Batch, b \notin byRow'
    PROVE  \/ StoredOf(b)' = StoredOf(b)
           \/ StoredOf(b)' = ParsedBy("fund-worker", b)
           \/ StoredOf(b)' = {} /\ Undone(b)
<1>1. b \notin byRow
  BY NotedStays
<1>2. ~At(b, "rows") /\ direct[b].pc # "rows"
  BY <1>1 DEF PlanInv, RowsNoted
<1>3. At(b, "save") => jobs[b].todo = ParsedBy("fund-worker", b)
  BY <1>1 DEF PlanInv, SavesWhole
<1>4. StoredOf(b) \union ParsedBy("fund-worker", b) = ParsedBy("fund-worker", b)
  BY <1>1 DEF AllOrNothing
<1> QED BY <1>2, <1>3, <1>4, StoredChanges DEF Running, Undone

LEMMA NextWhole == TypeInv /\ PlanInv /\ AllOrNothing /\ [Next]_vars => AllOrNothing'
<1> SUFFICES ASSUME TypeInv, PlanInv, AllOrNothing, [Next]_vars,
                    NEW b \in Batch, b \notin byRow'
             PROVE  StoredOf(b)' \in {{}, ParsedBy("fund-worker", b)}
  BY DEF AllOrNothing, ParsedBy, RowsOf
<1>1. CASE UNCHANGED vars
  BY <1>1 DEF vars, AllOrNothing, StoredOf, RowsOf
<1>2. CASE Next
  <2>1. b \notin byRow
    BY <1>2, NotedStays
  <2> QED BY <1>2, <2>1, StoredWhole DEF AllOrNothing
<1> QED BY <1>1, <1>2

WholeInv == TypeInv /\ PlanInv /\ AllOrNothing

LEMMA InitWhole == Init => WholeInv
<1> SUFFICES ASSUME Init PROVE WholeInv
  OBVIOUS
<1>1. PlanInv
  BY NoJobType DEF Init, PlanInv, SavesWhole, RowsNoted, At
<1>2. AllOrNothing
  BY DEF Init, AllOrNothing, StoredOf
<1> QED BY <1>1, <1>2, InitType DEF WholeInv

\* saveTransactions stores a file whole or not at all, through faults, retries, crashes,
\* cancels and rollbacks (BankTransactionRepository.ts), because a file with any row
\* that fails validation is never saved.
THEOREM FilesAreWhole == Spec => []AllOrNothing
<1>1. WholeInv /\ [Next]_vars => WholeInv'
  BY NextType, NextPlan, NextWhole DEF WholeInv
<1>2. Spec => []WholeInv
  BY <1>1, InitWhole, PTL DEF Spec
<1>3. WholeInv => AllOrNothing
  BY DEF WholeInv
<1> QED BY <1>2, <1>3, PTL

-----------------------------------------------------------------------------
(* COMPLETED means whole, until somebody undoes the upload *)

\* A file is whole from its save on, and not only once it is marked.
FinalWhole == \A b \in Batch \ byRow :
    (At(b, "final") \/ batches[b] = "COMPLETED") /\ ~Undone(b)
        => StoredOf(b) = ParsedBy("fund-worker", b)

LEMMA UndoneStays ==
    ASSUME TypeInv, Next, NEW b \in Batch, Undone(b)
    PROVE  Undone(b)'
<1>0. PICK q \in Request : requests[q].batch = b
  BY DEF Undone
<1>1. requests \in [Request -> RequestRow] /\ requests[q].pc # "idle"
  BY <1>0 DEF TypeInv, TypeOK, Addressed
<1>2. ASSUME NEW p \in Request, NEW pc, Proceed(p, pc)
      PROVE  requests'[q].batch = b
  BY <1>0, <1>1, <1>2 DEF Proceed, RequestRow
<1>3. ASSUME NEW p \in Request, RequestStep(p) \/ RequestAborts(p)
      PROVE  requests'[q].batch = b
  BY <1>2, <1>3 DEF RequestStep, MarkCanceled, Dequeue, Purge, RemoveBatch, RequestAborts
<1>4. ASSUME NEW p \in Request, NEW c \in Batch, BeginCancel(p, c) \/ BeginRollback(p, c)
      PROVE  requests'[q].batch = b
  BY <1>0, <1>1, <1>4 DEF BeginCancel, BeginRollback, Receive, RequestAt
<1>5. UNCHANGED requests => requests'[q].batch = b
  BY <1>0
<1> QED BY <1>3, <1>4, <1>5
    DEF Undone, Next, UploadCreate, UploadEnqueue, UploadAborts, DirectCreate, DirectStep,
        DirectParse, DirectStore, DirectComplete, DirectAborts, WorkerStep, WorkerCrash,
        DbFault, TakeJob, CompleteJob, FailAttempt, StartJob, ParseFile, MarkCompleted,
        RecordError, ValidateFile, RecordValidation, RejectFile, SaveTransactions,
        ResolveRows, BeginRows, EndRows, MatchAndStore, FundStep

LEMMA CompletedFrom ==
    ASSUME TypeInv, Next, NEW b \in Batch, batches[b] # "COMPLETED",
           batches'[b] = "COMPLETED"
    PROVE  At(b, "final") \/ direct[b].pc = "rows"
<1>0. batches \in [Batch -> Status]
  BY DEF TypeInv, TypeOK
<1>1. ASSUME NEW c, NEW status, batches' = [batches EXCEPT ![c] = status]
      PROVE  c = b /\ status = "COMPLETED"
  BY <1>0, <1>1
<1>2. UNCHANGED batches => FALSE
  OBVIOUS
<1>3. ASSUME NEW c \in Batch, NEW status, NEW next, UpdateBatch(c, status, next)
      PROVE  c = b /\ status = "COMPLETED"
  BY <1>1, <1>2, <1>3 DEF UpdateBatch
<1>4. ASSUME NEW c \in Batch, MarkCompleted(c)
      PROVE  At(b, "final")
  BY <1>3, <1>4 DEF MarkCompleted
<1>5. ASSUME NEW c \in Batch, DirectComplete(c)
      PROVE  direct[b].pc = "rows"
  BY <1>1, <1>2, <1>5 DEF DirectComplete, DirectAt
<1>6. ASSUME NEW c \in Batch,
             \/ StartJob(c) \/ ParseFile(c) \/ RecordError(c) \/ RecordValidation(c)
             \/ RejectFile(c) \/ BeginRows(c)
             \/ UploadCreate(c) \/ DirectCreate(c) \/ DirectParse(c)
      PROVE  FALSE
  BY <1>1, <1>2, <1>3, <1>6
     DEF StartJob, ParseFile, RecordError, RecordValidation, RejectFile, BeginRows,
         UploadCreate, DirectCreate, DirectParse
<1>7. ASSUME NEW q \in Request, MarkCanceled(q) \/ RemoveBatch(q)
      PROVE  FALSE
  BY <1>1, <1>2, <1>7 DEF MarkCanceled, RemoveBatch
<1> QED BY <1>2, <1>4, <1>5, <1>6, <1>7
    DEF Next, UploadEnqueue, UploadAborts, DirectStep, DirectStore, DirectAborts, WorkerStep,
        WorkerCrash, DbFault, TakeJob, CompleteJob, FailAttempt, ValidateFile,
        SaveTransactions, ResolveRows, EndRows, MatchAndStore, BeginCancel, BeginRollback,
        Receive, RequestStep, Dequeue, Purge, RequestAborts, FundStep

LEMMA NextFinal == WholeInv /\ FinalWhole /\ [Next]_vars => FinalWhole'
<1> SUFFICES ASSUME TypeInv, PlanInv, AllOrNothing, FinalWhole, [Next]_vars,
                    NEW b \in Batch, b \notin byRow', ~Undone(b)',
                    At(b, "final")' \/ batches'[b] = "COMPLETED"
             PROVE  StoredOf(b)' = ParsedBy("fund-worker", b)
  BY DEF WholeInv, FinalWhole, ParsedBy, RowsOf
<1>1. CASE UNCHANGED vars
  BY <1>1 DEF vars, FinalWhole, StoredOf, RowsOf, At, Undone
<1>2. CASE Next
  <2>1. b \notin byRow /\ ~Undone(b)
    BY <1>2, NotedStays, UndoneStays
  <2>2. ~At(b, "rows") /\ direct[b].pc # "rows"
    BY <2>1 DEF PlanInv, RowsNoted
  <2>3. CASE At(b, "final") \/ batches[b] = "COMPLETED"
    BY <1>2, <2>1, <2>3, StoredWhole DEF FinalWhole
  <2>4. CASE ~At(b, "final") /\ batches[b] # "COMPLETED"
    <3>1. At(b, "final")' /\ jobs'[b] # jobs[b]
      BY <1>2, <2>2, <2>4, CompletedFrom DEF At
    <3>2. ~BeginRows(b)
      BY DEF BeginRows
    <3>3. SaveTransactions(b) /\ Live(b) /\ Found(jobs[b].todo) = jobs[b].todo
      BY <1>2, <2>2, <3>1, <3>2, JobChanges, Places DEF At
    <3>4. rows' = rows \union jobs[b].todo
      BY <3>3, Places
    <3>5. jobs[b].todo = ParsedBy("fund-worker", b)
      BY <2>1, <3>3 DEF SaveTransactions, Running, PlanInv, SavesWhole
    <3>6. StoredOf(b) \subseteq ParsedBy("fund-worker", b)
      BY <2>1 DEF AllOrNothing
    <3>7. ParsedBy("fund-worker", b) \subseteq RowsOf(b)
      BY FileTypes
    <3> QED BY <3>4, <3>5, <3>6, <3>7 DEF StoredOf, RowsOf
  <2> QED BY <2>3, <2>4
<1> QED BY <1>1, <1>2

\* COMPLETED written by processFile means every row of the file is stored until somebody
\* undoes the upload: a goal closed between validation and save fails the file and
\* does not drop its rows (BankFileProcessor.ts, BankTransactionRepository.ts).
THEOREM CompletedFilesAreWhole == Spec => []CompletedIsWhole
<1>1. Init => FinalWhole
  BY NoJobType DEF Init, FinalWhole, At
<1>2. WholeInv /\ [Next]_vars => WholeInv'
  BY NextType, NextPlan, NextWhole DEF WholeInv
<1>3. Spec => [](WholeInv /\ FinalWhole)
  BY <1>1, <1>2, InitWhole, NextFinal, PTL DEF Spec
<1>4. FinalWhole => CompletedIsWhole
  BY DEF FinalWhole, CompletedIsWhole
<1> QED BY <1>3, <1>4, PTL

-----------------------------------------------------------------------------
(* A cancel holds when the job was in the queue *)

\* A batch has a job, or is about to get one, only after it was created over the queue,
\* and it gets one once.
QueuedOnce == \A b \in Batch :
    /\ b \in uploading => b \notin Direct /\ batches[b] # "absent"
    /\ jobs[b].state # "none" => b \notin Direct /\ b \notin uploading /\ batches[b] # "absent"
    /\ direct[b].pc # "idle" => b \in Direct

\* So a request that found the job has a batch that gets no other, and once it has
\* removed the job there is none.
Removed(q) ==
    LET b == requests[q].batch IN
    /\ b \in Batch
    /\ b \notin Direct /\ b \notin uploading /\ batches[b] # "absent"
    /\ requests[q].pc \in {"purge", "remove", "ok"} => jobs[b].state = "none"
    /\ requests[q].pc = "remove" => requests[q].op # "cancel"
    /\ requests[q].pc = "ok" /\ requests[q].op = "cancel" => StoredOf(b) = {}
RemovalsHold == \A q \in Request : requests[q].queued => Removed(q)

CancelInv == QueuedOnce /\ RemovalsHold

LEMMA NeverAbsentAgain ==
    ASSUME TypeInv, Next, NEW b \in Batch, batches'[b] = "absent"
    PROVE  batches[b] = "absent"
<1>0. batches \in [Batch -> Status]
  BY DEF TypeInv, TypeOK
<1>1. ASSUME NEW c, NEW status, status # "absent", batches' = [batches EXCEPT ![c] = status]
      PROVE  batches[b] = "absent"
  BY <1>0, <1>1
<1>2. UNCHANGED batches => batches[b] = "absent"
  OBVIOUS
<1>3. ASSUME NEW c \in Batch, NEW status, status # "absent", NEW next,
             UpdateBatch(c, status, next)
      PROVE  batches[b] = "absent"
  BY <1>1, <1>2, <1>3 DEF UpdateBatch
<1>4. ASSUME NEW c \in Batch,
             \/ StartJob(c) \/ ParseFile(c) \/ MarkCompleted(c) \/ RecordError(c)
             \/ RecordValidation(c) \/ RejectFile(c) \/ BeginRows(c)
             \/ UploadCreate(c) \/ DirectCreate(c) \/ DirectParse(c) \/ DirectComplete(c)
      PROVE  batches[b] = "absent"
  BY <1>1, <1>2, <1>3, <1>4
     DEF StartJob, ParseFile, MarkCompleted, RecordError, RecordValidation, RejectFile,
         BeginRows, UploadCreate, DirectCreate, DirectParse, DirectComplete
<1>5. ASSUME NEW q \in Request, MarkCanceled(q) \/ RemoveBatch(q)
      PROVE  batches[b] = "absent"
  BY <1>1, <1>2, <1>5 DEF MarkCanceled, RemoveBatch
<1> QED BY <1>2, <1>4, <1>5
    DEF Next, UploadEnqueue, UploadAborts, DirectStep, DirectStore, DirectAborts, WorkerStep,
        WorkerCrash, DbFault, TakeJob, CompleteJob, FailAttempt, ValidateFile,
        SaveTransactions, ResolveRows, EndRows, MatchAndStore, BeginCancel, BeginRollback,
        Receive, RequestStep, Dequeue, Purge, RequestAborts, FundStep

LEMMA UploadingFrom ==
    ASSUME TypeInv, Next, NEW b \in Batch, b \in uploading'
    PROVE  b \in uploading \/ UploadCreate(b)
<1>1. ASSUME NEW c \in Batch, UploadCreate(c) \/ UploadEnqueue(c) \/ UploadAborts(c)
      PROVE  b \in uploading \/ UploadCreate(b)
  BY <1>1 DEF UploadCreate, UploadEnqueue, UploadAborts
<1>2. UNCHANGED uploading => b \in uploading
  OBVIOUS
<1> QED BY <1>1, <1>2
    DEF Next, DirectCreate, DirectStep, DirectParse, DirectStore, DirectComplete,
        DirectAborts, WorkerStep, WorkerCrash, DbFault, TakeJob, CompleteJob, FailAttempt,
        StartJob, ParseFile, MarkCompleted, RecordError, ValidateFile, RecordValidation,
        RejectFile, SaveTransactions, ResolveRows, BeginRows, EndRows, MatchAndStore,
        BeginCancel, BeginRollback, Receive, RequestStep, MarkCanceled, Dequeue, Purge,
        RemoveBatch, RequestAborts, FundStep

LEMMA JobFrom ==
    ASSUME TypeInv, Next, NEW b \in Batch, jobs[b].state = "none", jobs'[b].state # "none"
    PROVE  UploadEnqueue(b)
<1>0. jobs \in [Batch -> Job]
  BY DEF TypeInv, TypeOK
<1>1. ASSUME NEW c \in Batch, c # b, NEW job, jobs' = [jobs EXCEPT ![c] = job]
      PROVE  FALSE
  BY <1>0, <1>1
<1>2. ASSUME NEW pc, Goto(b, pc)
      PROVE  FALSE
  BY <1>0, <1>2 DEF Goto, Job
<1>3. UNCHANGED jobs => FALSE
  OBVIOUS
<1>4. ASSUME NEW c \in Batch, UploadEnqueue(c)
      PROVE  UploadEnqueue(b)
  BY <1>1, <1>4 DEF UploadEnqueue
<1>5. ASSUME NEW c \in Batch, WorkerStep(c) \/ WorkerCrash(c) \/ DbFault(c)
      PROVE  jobs[c].state \in {"waiting", "active"} /\ c # b
  BY <1>5 DEF WorkerStep, WorkerCrash, DbFault, TakeJob, CompleteJob, FailAttempt, StartJob,
              ParseFile, MarkCompleted, RecordError, ValidateFile, RecordValidation,
              RejectFile, SaveTransactions, ResolveRows, BeginRows, EndRows, MatchAndStore,
              Running, At
<1>6. ASSUME NEW c \in Batch, WorkerStep(c) \/ WorkerCrash(c) \/ DbFault(c)
      PROVE  \/ UNCHANGED jobs
             \/ \E job : jobs' = [jobs EXCEPT ![c] = job]
  BY <1>6 DEF WorkerStep, WorkerCrash, DbFault, TakeJob, CompleteJob, FailAttempt, StartJob,
              ParseFile, MarkCompleted, RecordError, ValidateFile, RecordValidation,
              RejectFile, SaveTransactions, ResolveRows, BeginRows, EndRows, MatchAndStore,
              UpdateBatch, Goto
<1>7. ASSUME NEW q \in Request, Dequeue(q)
      PROVE  FALSE
  BY <1>0, <1>3, <1>7, NoJobType DEF Dequeue
<1> QED BY <1>1, <1>3, <1>4, <1>5, <1>6, <1>7
    DEF Next, UploadCreate, UploadAborts, DirectCreate, DirectStep, DirectParse, DirectStore,
        DirectComplete, DirectAborts, BeginCancel, BeginRollback, Receive, RequestStep,
        MarkCanceled, Purge, RemoveBatch, RequestAborts, FundStep

LEMMA NextQueued == TypeInv /\ QueuedOnce /\ [Next]_vars => QueuedOnce'
<1> SUFFICES ASSUME TypeInv, QueuedOnce, [Next]_vars, NEW b \in Batch
             PROVE  /\ b \in uploading' => b \notin Direct /\ batches'[b] # "absent"
                    /\ jobs'[b].state # "none" =>
                          b \notin Direct /\ b \notin uploading' /\ batches'[b] # "absent"
                    /\ direct'[b].pc # "idle" => b \in Direct
  BY DEF QueuedOnce
<1>1. CASE UNCHANGED vars
  BY <1>1 DEF vars, QueuedOnce
<1>2. CASE Next
  <2>1. b \in uploading' => b \notin Direct /\ batches'[b] # "absent"
    <3>1. UploadCreate(b) => b \notin Direct /\ batches'[b] # "absent"
      BY DEF UploadCreate, TypeInv, TypeOK
    <3> QED BY <1>2, <3>1, UploadingFrom, NeverAbsentAgain DEF QueuedOnce
  <2>2. ASSUME jobs'[b].state # "none"
        PROVE  b \notin Direct /\ b \notin uploading' /\ batches'[b] # "absent"
    <3>1. CASE jobs[b].state = "none"
      BY <1>2, <2>2, <3>1, JobFrom DEF UploadEnqueue, QueuedOnce
    <3>2. CASE jobs[b].state # "none"
      <4>1. ~UploadCreate(b)
        BY <3>2 DEF UploadCreate, QueuedOnce
      <4> QED BY <1>2, <3>2, <4>1, UploadingFrom, NeverAbsentAgain DEF QueuedOnce
    <3> QED BY <3>1, <3>2
  <2>3. direct'[b].pc # "idle" => b \in Direct
    <3>1. DirectParse(b) => direct[b].pc # "idle"
      BY DEF DirectParse, DirectAt
    <3>2. DirectCreate(b) => b \in Direct
      BY DEF DirectCreate
    <3> QED BY <1>2, <3>1, <3>2, DirectChanges DEF QueuedOnce
  <2> QED BY <2>1, <2>2, <2>3
<1> QED BY <1>1, <1>2

\* How a request goes on: only Dequeue leads to the purge, and only the purge ends a
\* cancel well.
GoesOn(q) ==
    LET b == requests[q].batch IN
    \/ requests'[q].pc \in {"dequeue", "failed"}
    \/ requests'[q].pc = "purge" /\ jobs'[b].state = "none"
    \/ /\ requests[q].pc = "purge" /\ StoredOf(b)' = {}
       /\ requests'[q].pc = IF requests[q].op = "cancel" THEN "ok" ELSE "remove"
    \/ requests[q].pc = "remove" /\ requests'[q].pc = "ok"

LEMMA RequestChanges ==
    ASSUME TypeInv, Next, NEW q \in Request, requests'[q] # requests[q],
           ~\E b \in Batch : BeginCancel(q, b) \/ BeginRollback(q, b)
    PROVE  /\ requests'[q] = [requests[q] EXCEPT !.pc = requests'[q].pc]
           /\ GoesOn(q)
<1> DEFINE b == requests[q].batch
<1>0. /\ requests \in [Request -> RequestRow]
      /\ requests[q].pc # "idle" => b \in Batch
      /\ jobs \in [Batch -> Job]
  BY DEF TypeInv, TypeOK, Addressed
<1>1. ASSUME NEW p \in Request, NEW pc, Proceed(p, pc)
      PROVE  /\ p = q /\ requests'[q].pc = pc
             /\ requests'[q] = [requests[q] EXCEPT !.pc = requests'[q].pc]
  BY <1>0, <1>1 DEF Proceed, RequestRow
<1>2. UNCHANGED requests => FALSE
  OBVIOUS
<1>3. ASSUME NEW p \in Request, NEW c \in Batch, BeginCancel(p, c) \/ BeginRollback(p, c)
      PROVE  FALSE
  BY <1>0, <1>3 DEF BeginCancel, BeginRollback, Receive
<1>4. ASSUME NEW p \in Request, RequestStep(p) \/ RequestAborts(p)
      PROVE  p = q /\ requests'[q] = [requests[q] EXCEPT !.pc = requests'[q].pc]
  BY <1>1, <1>4 DEF RequestStep, MarkCanceled, Dequeue, Purge, RemoveBatch, RequestAborts
<1>5. CASE MarkCanceled(q) \/ RequestAborts(q)
  BY <1>1, <1>4, <1>5 DEF MarkCanceled, RequestAborts, GoesOn, RequestStep
<1>6. CASE Dequeue(q)
  <2>1. b \in Batch
    BY <1>0, <1>6 DEF Dequeue, RequestAt
  <2>2. jobs' = [jobs EXCEPT ![b] = NoJob] => jobs'[b].state = "none"
    BY <1>0, <2>1, NoJobType
  <2> QED BY <1>1, <1>4, <1>6, <2>2 DEF Dequeue, GoesOn, RequestStep
<1>7. CASE Purge(q)
  <2>1. StoredOf(b)' = {}
    BY <1>0, <1>4, <1>7 DEF Purge, StoredOf, RowsOf, RequestStep, RequestRow
  <2> QED BY <1>1, <1>4, <1>7, <2>1 DEF Purge, GoesOn, RequestAt, RequestStep
<1>8. CASE RemoveBatch(q)
  BY <1>1, <1>4, <1>8 DEF RemoveBatch, GoesOn, RequestAt, RequestStep
<1>9. \/ UNCHANGED requests
      \/ \E p \in Request : \/ \E c \in Batch : BeginCancel(p, c) \/ BeginRollback(p, c)
                            \/ RequestStep(p) \/ RequestAborts(p)
  BY DEF Next, UploadCreate, UploadEnqueue, UploadAborts, DirectCreate, DirectStep,
         DirectParse, DirectStore, DirectComplete, DirectAborts, WorkerStep, WorkerCrash,
         DbFault, TakeJob, CompleteJob, FailAttempt, StartJob, ParseFile, MarkCompleted,
         RecordError, ValidateFile, RecordValidation, RejectFile, SaveTransactions,
         ResolveRows, BeginRows, EndRows, MatchAndStore, FundStep
<1> QED BY <1>2, <1>3, <1>4, <1>5, <1>6, <1>7, <1>8, <1>9 DEF RequestStep

LEMMA NextRemovals ==
    TypeInv /\ PlanInv /\ CancelInv /\ [Next]_vars => RemovalsHold'
<1> SUFFICES ASSUME TypeInv, PlanInv, QueuedOnce, RemovalsHold, [Next]_vars,
                    NEW q \in Request, requests'[q].queued
             PROVE  Removed(q)'
  BY DEF CancelInv, RemovalsHold
<1>0. requests \in [Request -> RequestRow]
  BY DEF TypeInv, TypeOK
<1>1. CASE UNCHANGED vars
  BY <1>1 DEF vars, RemovalsHold, Removed, StoredOf, RowsOf
<1>2. CASE Next /\ \E c \in Batch : BeginCancel(q, c) \/ BeginRollback(q, c)
  <2>1. PICK c \in Batch : BeginCancel(q, c) \/ BeginRollback(q, c)
    BY <1>2
  <2>2. PICK op \in {"cancel", "rollback"}, pc \in {"mark", "dequeue"} : Receive(q, op, c, pc)
    BY <2>1 DEF BeginCancel, BeginRollback
  <2> DEFINE row == [pc |-> pc, op |-> op, batch |-> c, queued |-> jobs[c].state # "none"]
  <2>3. requests'[q] = row
    BY <1>0, <2>2 DEF Receive
  <2>4. row.batch = c /\ row.pc = pc /\ (row.queued => jobs[c].state # "none")
    OBVIOUS
  <2> HIDE DEF row
  <2>5. jobs[c].state # "none"
    BY <2>3, <2>4
  <2> QED BY <2>2, <2>3, <2>4, <2>5 DEF Receive, Removed, QueuedOnce
<1>3. CASE Next /\ ~\E c \in Batch : BeginCancel(q, c) \/ BeginRollback(q, c)
  <2>1. /\ requests'[q] = [requests[q] EXCEPT !.pc = requests'[q].pc]
        /\ requests'[q] # requests[q] => GoesOn(q)
    BY <1>0, <1>3, RequestChanges DEF RequestRow
  <2>2. /\ requests'[q].batch = requests[q].batch /\ requests'[q].op = requests[q].op
        /\ requests[q].queued
    BY <1>0, <2>1 DEF RequestRow
  <2>3. Removed(q)
    BY <2>2 DEF RemovalsHold
  <2>b. PICK b \in Batch : b = requests[q].batch
    BY <2>3 DEF Removed
  <2>4. b \notin Direct /\ b \notin uploading' /\ batches'[b] # "absent"
    <3>1. ~UploadCreate(b)
      BY <2>3, <2>b DEF UploadCreate, Removed
    <3> QED BY <1>3, <2>3, <2>b, <3>1, UploadingFrom, NeverAbsentAgain DEF Removed
  <2>5. jobs[b].state = "none" => jobs'[b].state = "none"
    BY <1>3, <2>3, <2>b, JobFrom DEF UploadEnqueue, Removed
  <2>6. jobs[b].state = "none" /\ StoredOf(b) = {} => StoredOf(b)' = {}
    <3>1. direct[b].pc # "rows"
      BY <2>3, <2>b DEF Removed, QueuedOnce
    <3> QED BY <1>3, <2>3, <3>1, StoredChanges DEF Running, At
  <2>7. CASE requests'[q] = requests[q]
    BY <2>2, <2>3, <2>b, <2>4, <2>5, <2>6, <2>7 DEF Removed, StoredOf, RowsOf
  <2>8. CASE requests'[q] # requests[q]
    BY <2>1, <2>2, <2>3, <2>b, <2>4, <2>5, <2>6, <2>8 DEF Removed, GoesOn, StoredOf, RowsOf
  <2> QED BY <2>7, <2>8
<1> QED BY <1>1, <1>2, <1>3

\* A cancel that is answered well and came when the job was in the queue leaves no row
\* behind and none comes later (bankUploadRoutes.ts): the job is gone before the rows
\* are deleted, a running one ends the request, and no batch gets a second job.
THEOREM CancelsHold == Spec => []CancelHolds
<1>1. Init => CancelInv
  BY NoJobType DEF Init, CancelInv, QueuedOnce, RemovalsHold
<1>2. WholeInv /\ [Next]_vars => WholeInv'
  BY NextType, NextPlan, NextWhole DEF WholeInv
<1>3. WholeInv /\ CancelInv /\ [Next]_vars => CancelInv'
  BY NextQueued, NextRemovals DEF WholeInv, CancelInv
<1>4. Spec => [](WholeInv /\ CancelInv)
  BY <1>1, <1>2, <1>3, InitWhole, PTL DEF Spec
<1>5. CancelInv => CancelHolds
  BY DEF CancelInv, RemovalsHold, Removed, CancelHolds
<1> QED BY <1>4, <1>5, PTL
=============================================================================

--------------------------- MODULE FundFiles_proofs ---------------------------
(***************************************************************************)
(* The files of fund uploads: refused files stay out of the ledger, the    *)
(* others are stored whole or not at all, a batch that waits for approval  *)
(* has stored nothing, and one in progress is in somebody's hands.         *)
(***************************************************************************)
EXTENDS FundUpload_proofs

Refused(b) == InvalidRows(b) # {} \/ b \in BadGroup

\* The steps a handler reaches only after validation has passed.
Accepting == {"detect", "pause", "create", "save", "final"}

\* A refused file is held where no step can accept it: no handler is past its
\* validation, nothing waits for a decision and nobody is deciding.
Barred(b) ==
    /\ StoredOf(b) = {}
    /\ batches[b].status \notin {"WAITING_FOR_APPROVAL", "COMPLETED"}
    /\ batches[b].approval # "APPROVED"
    /\ \A j \in JobId : j[1] = b => jobs[j].pc \notin Accepting
    /\ \A q \in Request : requests[q].batch = b => requests[q].pc \notin {"decide", "enqueue"}

AllBarred == \A b \in Batch : Refused(b) => Barred(b)

LEMMA PcValues ==
    /\ Accepting = {"detect", "pause", "create", "save", "final"}
    /\ NoJob.pc = "start" /\ NewJob.pc = "start"
    /\ \A j \in JobId : \A state : jobs[j] \in Job => Release(j, state).pc = "start"
BY DEF Accepting, NoJob, NewJob, Release, Job

\* What a worker's step changes is its job, its batch and the rows of its file.
LEMMA WorkerScope ==
    ASSUME TypeInv, NEW j \in JobId, WorkerStep(j) \/ WorkerCrash(j) \/ DbFault(j)
    PROVE  /\ \A i \in JobId \ {j} : jobs'[i] = jobs[i]
           /\ \A d \in Batch \ {j[1]} : batches'[d] = batches[d]
           /\ UNCHANGED requests
<1>0. TypeOK
  BY DEF TypeInv
<1>1. CASE \/ TakeJob(j) \/ CompleteJob(j) \/ FailAttempt(j) \/ WorkerCrash(j) \/ DbFault(j)
           \/ DetectEntities(j) \/ StartResume(j) \/ RefreshViews(j) \/ SaveInvalid(j)
  BY <1>0, <1>1 DEF TakeJob, CompleteJob, FailAttempt, WorkerCrash, DbFault, DetectEntities,
                    StartResume, RefreshViews, SaveInvalid, Goto, TypeOK
<1>2. CASE StartProcess(j) \/ ParseFile(j) \/ ValidateFile(j) \/ RejectRows(j) \/ MarkCompleted(j)
  BY <1>0, <1>2 DEF StartProcess, ParseFile, ValidateFile, RejectRows, MarkCompleted,
                    UpdateBatch, Goto, TypeOK
<1>3. CASE RejectGroups(j) \/ RecordError(j) \/ Pause(j) \/ SaveTransactions(j)
  BY <1>0, <1>3 DEF RejectGroups, RecordError, Pause, SaveTransactions, Goto, TypeOK
<1>4. CASE Creation(j)
  BY <1>0, <1>4 DEF Creation, CreateClient, CreateAccount, CreateGoal, Created, TypeOK
<1> QED BY <1>1, <1>2, <1>3, <1>4 DEF WorkerStep, Creation

\* A worker never carries a refused file past validation.
LEMMA WorkerBarred ==
    ASSUME TypeInv, AllBarred, NEW j \in JobId,
           WorkerStep(j) \/ WorkerCrash(j) \/ DbFault(j)
    PROVE  AllBarred'
<1> USE JobParts, PcValues
<1>0. TypeOK /\ jobs[j] \in Job /\ jobs'[j] \in Job /\ j[1] \in Batch
  BY NextType, WorkerType DEF TypeInv, TypeOK
<1> SUFFICES ASSUME NEW b \in Batch, Refused(b) PROVE Barred(b)'
  BY DEF AllBarred, Refused
<1>1. Barred(b)
  BY DEF AllBarred
<1>2. StoredOf(b)' = {}
  <2>1. CASE SaveTransactions(j)
    <3>1. j[1] # b
      BY <1>1, <2>1 DEF Barred, SaveTransactions, At
    <3>2. CASE Live(j[1]) /\ Resolvable(j[1])
      <4>1. PICK new \in Insertable(j[1]), resolve \in [ClientsOf(j[1]) -> Copy] :
              Saving(j[1], new, resolve)
        BY <2>1, <3>2 DEF SaveTransactions, Saving, entityVars
      <4>2. new \subseteq RowsOf(j[1]) /\ Stored' = Stored \union new
        BY <1>0, <4>1, SavingAdds
      <4> QED BY <1>1, <3>1, <4>2 DEF Barred, StoredOf, RowsOf
    <3>3. CASE ~(Live(j[1]) /\ Resolvable(j[1]))
      BY <1>1, <2>1, <3>3 DEF SaveTransactions, ledgerVars, Barred, StoredOf, Stored
    <3> QED BY <3>2, <3>3
  <2>2. CASE ~SaveTransactions(j)
    <3>1. UNCHANGED txns
      BY <2>2 DEF WorkerStep, TakeJob, CompleteJob, FailAttempt, WorkerCrash, DbFault,
         DetectEntities, StartResume, RefreshViews, SaveInvalid, StartProcess, ParseFile,
         ValidateFile, RejectRows, MarkCompleted, RejectGroups, RecordError, Pause,
         CreateClient, CreateAccount, CreateGoal, ledgerVars
    <3> QED BY <1>1, <3>1 DEF Barred, StoredOf, Stored
  <2> QED BY <2>1, <2>2
<1>3. CASE j[1] # b
  BY <1>1, <1>2, <1>3, WorkerScope DEF Barred
<1>4. CASE j[1] = b
  <2>1. jobs[j].pc \notin Accepting
    BY <1>1, <1>4 DEF Barred
  <2>2. jobs'[j].pc \notin Accepting
    <3>1. CASE \/ TakeJob(j) \/ CompleteJob(j) \/ FailAttempt(j) \/ WorkerCrash(j)
      <4>1. CASE TakeJob(j)
        BY <1>0, <2>1, <4>1 DEF TakeJob, TypeOK, Job
      <4>2. CASE CompleteJob(j)
        BY <1>0, <4>2 DEF CompleteJob, TypeOK
      <4>3. ASSUME NEW state, NEW used,
                   jobs'[j] = [Release(j, state) EXCEPT !.attempts = used]
            PROVE  jobs'[j].pc = "start"
        BY <1>0, <4>3 DEF Release, Job
      <4>4. ASSUME NEW state, NEW used,
                   jobs'[j] = [Release(j, state) EXCEPT !.stalls = used]
            PROVE  jobs'[j].pc = "start"
        BY <1>0, <4>4 DEF Release, Job
      <4>5. CASE FailAttempt(j)
        BY <1>0, <4>3, <4>5 DEF FailAttempt, TypeOK
      <4>6. CASE WorkerCrash(j)
        BY <1>0, <4>4, <4>6 DEF WorkerCrash, TypeOK
      <4> QED BY <3>1, <4>1, <4>2, <4>5, <4>6
    <3>2. CASE DbFault(j) \/ RefreshViews(j) \/ SaveInvalid(j) \/ RejectGroups(j) \/ RecordError(j)
      BY <1>0, <2>1, <3>2 DEF DbFault, RefreshViews, SaveInvalid, RejectGroups, RecordError,
                              Goto, TypeOK, Job
    <3>3. CASE StartProcess(j) \/ ParseFile(j) \/ RejectRows(j)
      BY <1>0, <2>1, <3>3 DEF StartProcess, ParseFile, RejectRows, UpdateBatch, Goto, TypeOK, Job
    <3>4. CASE ValidateFile(j)
      <4>1. AfterValidation(j[1]) \in {"saveInvalid", "rejectGroups"}
        BY <1>4 DEF AfterValidation, Refused
      <4> QED BY <1>0, <3>4, <4>1 DEF ValidateFile, UpdateBatch, Goto, TypeOK, Job
    <3>5. CASE StartResume(j)
      <4>1. ~MayResume(b)
        BY <1>1 DEF MayResume, Barred
      <4> QED BY <1>0, <1>4, <3>5, <4>1 DEF StartResume, Goto, TypeOK, Job
    <3>6. ~(\/ DetectEntities(j) \/ Pause(j) \/ SaveTransactions(j) \/ MarkCompleted(j)
            \/ Creation(j))
      BY <2>1 DEF DetectEntities, Pause, SaveTransactions, MarkCompleted, Creation,
                  CreateClient, CreateAccount, CreateGoal, At
    <3> QED BY <3>1, <3>2, <3>3, <3>4, <3>5, <3>6 DEF WorkerStep, Creation
  <2>3. /\ batches'[b].status \notin {"WAITING_FOR_APPROVAL", "COMPLETED"}
        /\ batches'[b].approval # "APPROVED"
    <3>1. ~(Pause(j) \/ MarkCompleted(j))
      BY <2>1 DEF Pause, MarkCompleted, At
    <3>2. \/ UNCHANGED batches
          \/ \E status \in Status \ {"WAITING_FOR_APPROVAL", "COMPLETED"} :
                batches' = [batches EXCEPT ![j[1]].status = status]
      BY <3>1, StatusValues
         DEF WorkerStep, TakeJob, CompleteJob, FailAttempt, WorkerCrash, DbFault,
         DetectEntities, StartResume, RefreshViews, SaveInvalid, StartProcess, ParseFile,
         ValidateFile, RejectRows, RejectGroups, RecordError, UpdateBatch, SaveTransactions,
         CreateClient, CreateAccount, CreateGoal
    <3> QED BY <1>0, <1>1, <1>4, <3>2 DEF Barred, TypeOK, BatchRow
  <2> QED BY <1>1, <1>2, <1>4, <2>2, <2>3, WorkerScope DEF Barred
<1> QED BY <1>3, <1>4

\* No request accepts a refused file, and none brings it to a decision.
LEMMA RequestBarred ==
    ASSUME TypeInv, AllBarred, NEW q \in Request,
           (\E b \in Batch : BeginRequest(q, b)) \/ RequestStep(q) \/ RequestAborts(q)
    PROVE  AllBarred'
<1> USE PcValues
<1>0. TypeOK
  BY DEF TypeInv
<1> SUFFICES ASSUME NEW b \in Batch, Refused(b) PROVE Barred(b)'
  BY DEF AllBarred, Refused
<1>1. Barred(b)
  BY DEF AllBarred
<1>2. \A p \in Request \ {q} : requests'[p] = requests[p]
  BY <1>0 DEF BeginRequest, BeginDecision, BeginCancel, BeginRollback, Receive, RequestStep,
     RequestAborts, Decide, EnqueueResume, MarkCanceled, DequeueCanceled, DequeueProcess,
     DequeueResume, Dequeue, PurgeCanceled, RecheckRollback, CommitRollback,
     RefreshAfterRollback, Proceed, TypeOK
<1>3. requests'[q].batch = b => requests'[q].pc \notin {"decide", "enqueue"}
  <2>1. ASSUME NEW d \in Batch, BeginRequest(q, d)
        PROVE  requests'[q].batch = b => requests'[q].pc \notin {"decide", "enqueue"}
    BY <1>0, <1>1, <2>1
       DEF BeginRequest, BeginDecision, BeginCancel, BeginRollback, Receive, Barred, TypeOK
  <2>2. ASSUME NEW pc \in RequestPc, Proceed(q, pc)
        PROVE  requests'[q].batch = requests[q].batch /\ requests'[q].pc = pc
    BY <1>0, <2>2 DEF Proceed, TypeOK, RequestRow
  <2>3. CASE Decide(q)
    BY <1>0, <1>1, <2>2, <2>3 DEF Decide, Barred, RequestAt, RequestPc
  <2>4. CASE \/ EnqueueResume(q) \/ MarkCanceled(q) \/ DequeueCanceled(q)
             \/ DequeueProcess(q) \/ DequeueResume(q)
    BY <2>2, <2>4 DEF EnqueueResume, MarkCanceled, DequeueCanceled, DequeueProcess,
                      DequeueResume, Dequeue, RequestPc
  <2>5. CASE \/ PurgeCanceled(q) \/ RecheckRollback(q) \/ CommitRollback(q)
             \/ RefreshAfterRollback(q) \/ RequestAborts(q)
    BY <2>2, <2>5 DEF PurgeCanceled, RecheckRollback, CommitRollback,
                      RefreshAfterRollback, RequestAborts, RequestPc
  <2> QED BY <2>1, <2>3, <2>4, <2>5 DEF RequestStep
<1>4. StoredOf(b)' = {}
  <2>1. TablesKept => Stored' = Stored
    BY DEF TablesKept, Stored
  <2>2. PurgeCanceled(q) \/ Removal(q) => Stored' \subseteq Stored
    BY UndoingLeavesRows
  <2> QED BY <1>1, <2>1, <2>2, RequestCases DEF Barred, StoredOf, RowsOf
<1>5. \A j \in JobId : j[1] = b => jobs'[j].pc \notin Accepting
  <2>1. \/ UNCHANGED jobs
        \/ \E i \in Batch \X Kind : jobs' = [jobs EXCEPT ![i] = NewJob]
        \/ \E i \in Batch \X Kind : jobs' = [jobs EXCEPT ![i] = NoJob]
    <3>1. requests[q].pc # "idle" => requests[q].batch \in Batch
      BY DEF TypeInv, Addressed
    <3>2. CASE EnqueueResume(q)
      BY <3>1, <3>2 DEF EnqueueResume, RequestAt, Kind
    <3>3. CASE DequeueCanceled(q) \/ DequeueProcess(q) \/ DequeueResume(q)
      BY <3>1, <3>3 DEF DequeueCanceled, DequeueProcess, DequeueResume, Dequeue,
                        RequestAt, Kind
    <3> QED BY <3>2, <3>3
        DEF BeginRequest, BeginDecision, BeginCancel, BeginRollback, Receive, RequestStep,
            RequestAborts, Decide, MarkCanceled, PurgeCanceled, RecheckRollback,
            CommitRollback, RefreshAfterRollback
  <2> QED BY <1>0, <1>1, <2>1 DEF Barred, TypeOK
<1>6. /\ batches'[b].status \notin {"WAITING_FOR_APPROVAL", "COMPLETED"}
      /\ batches'[b].approval # "APPROVED"
  <2>1. CASE Decide(q)
    <3>1. requests[q].batch # b
      BY <1>1, <2>1 DEF Decide, RequestAt, Barred
    <3> QED BY <1>0, <1>1, <2>1, <3>1 DEF Decide, Barred, TypeOK
  <2>2. CASE MarkCanceled(q)
    BY <1>0, <1>1, <2>2 DEF MarkCanceled, Barred, TypeOK, BatchRow
  <2>3. CASE CommitRollback(q)
    BY <1>0, <1>1, <2>3 DEF CommitRollback, RemoveBatch, Barred, TypeOK
  <2>4. CASE ~(Decide(q) \/ MarkCanceled(q) \/ CommitRollback(q))
    BY <1>1, <2>4
       DEF BeginRequest, BeginDecision, BeginCancel, BeginRollback, Receive, RequestStep,
           RequestAborts, EnqueueResume, DequeueCanceled, DequeueProcess, DequeueResume,
           Dequeue, PurgeCanceled, RecheckRollback, RefreshAfterRollback, Barred
  <2> QED BY <2>1, <2>2, <2>3, <2>4
<1> QED BY <1>1, <1>2, <1>3, <1>4, <1>5, <1>6 DEF Barred

\* A file with an invalid row or a broken goal group never posts a row and never
\* waits for approval, though resumeProcessing does not validate the groups again
\* (FundFileProcessor.ts).
THEOREM InvalidNeverPosted == Spec => []InvalidFilesStayOut
<1>1. Init => TypeInv /\ AllBarred
  <2>1. Init => AllBarred
    BY PcValues, NoJobType DEF Init, AllBarred, Barred, StoredOf, Stored
  <2> QED BY <2>1, InitType
<1>2. TypeInv /\ AllBarred /\ [Next]_vars => TypeInv' /\ AllBarred'
  <2> SUFFICES ASSUME TypeInv, AllBarred, [Next]_vars PROVE AllBarred'
    BY NextType
  <2>0. TypeOK
    BY DEF TypeInv
  <2>1. ASSUME NEW b \in Batch, UploadCreate(b) \/ UploadEnqueue(b) \/ UploadAborts(b)
        PROVE  AllBarred'
    <3>1. UNCHANGED <<txns, requests>>
      BY <2>1 DEF UploadCreate, UploadEnqueue, UploadAborts, ledgerVars
    <3>2. \A j \in JobId : jobs'[j].pc \in {jobs[j].pc, "start"}
      BY <2>0, <2>1, PcValues DEF UploadCreate, UploadEnqueue, UploadAborts, TypeOK
    <3>3. \A d \in Batch : /\ batches'[d].status \in {batches[d].status, "QUEUED"}
                           /\ batches'[d].approval = batches[d].approval
      BY <2>0, <2>1 DEF UploadCreate, UploadEnqueue, UploadAborts, TypeOK, BatchRow
    <3> QED BY <3>1, <3>2, <3>3, PcValues
        DEF AllBarred, Refused, Barred, StoredOf, Stored
  <2>2. CASE UNCHANGED vars \/ \E g \in Goal : BankPost(g) \/ BankWithdraw(g)
    BY <2>2 DEF BankPost, BankWithdraw, vars, entityVars, ledgerVars, AllBarred, Refused,
                Barred, StoredOf, Stored
  <2> QED BY <2>1, <2>2, WorkerBarred, RequestBarred DEF Next
<1>3. AllBarred => InvalidFilesStayOut
  BY DEF AllBarred, Refused, Barred, InvalidFilesStayOut
<1> QED BY <1>1, <1>2, <1>3, PTL DEF Spec

-----------------------------------------------------------------------------
(* Files are stored whole or not at all, and COMPLETED means whole: for files that *)
(* share no fundTransactionId, and the second where nobody cancels.               *)

DistinctIds == \A r, s \in Row : IdOf[r] = IdOf[s] => r = s
NobodyCancels == \A q \in Request : "cancel" \notin Ops[q]

\* A save that goes through completes the file: what createMany skips is there already.
LEMMA SavingCompletes ==
    ASSUME TypeOK, DistinctIds, NEW b \in Batch, StoredOf(b) \in {{}, ParsedRows(b)},
           NEW new \in Insertable(b), NEW resolve \in [ClientsOf(b) -> Copy],
           Saving(b, new, resolve)
    PROVE  /\ StoredOf(b)' = ParsedRows(b)
           /\ \A d \in Batch \ {b} : StoredOf(d)' = StoredOf(d)
<1>1. /\ new \subseteq RowsOf(b) /\ Stored' = Stored \union new
      /\ Stored \subseteq Row /\ ParsedRows(b) \subseteq RowsOf(b) /\ RowsOf(b) \subseteq Row
  BY SavingAdds DEF Stored, ParsedRows, RowsOf
<1>2. new \subseteq ParsedRows(b)
  BY DEF Insertable, Fresh
<1>3. ParsedRows(b) \subseteq Stored \union new
  <2> SUFFICES ASSUME NEW r \in ParsedRows(b), r \notin Stored
               PROVE  r \in new
    OBVIOUS
  <2>1. r \in Fresh(b)
    BY <1>1 DEF Fresh, DistinctIds
  <2>2. PICK s \in new : IdOf[s] = IdOf[r]
    BY <2>1 DEF Insertable
  <2> QED BY <1>1, <2>2 DEF DistinctIds
<1>4. StoredOf(b)' = ParsedRows(b)
  BY <1>1, <1>2, <1>3 DEF StoredOf, RowsOf, ParsedRows
<1>5. \A d \in Batch \ {b} : StoredOf(d)' = StoredOf(d)
  BY <1>1 DEF StoredOf, RowsOf
<1> QED BY <1>4, <1>5

\* What a step does to the rows of one file.
LEMMA StoredChanges ==
    ASSUME TypeInv, [Next]_vars, DistinctIds, AllOrNothing, NEW b \in Batch
    PROVE  \/ StoredOf(b)' = StoredOf(b)
           \/ StoredOf(b)' = ParsedRows(b)
           \/ /\ StoredOf(b)' = {}
              /\ \E q \in Request : (PurgeCanceled(q) \/ Removal(q)) /\ requests[q].batch = b
<1>0. TypeOK /\ StoredOf(b) \in {{}, ParsedRows(b)}
  BY DEF TypeInv, AllOrNothing
<1>1. UNCHANGED txns => StoredOf(b)' = StoredOf(b)
  BY DEF StoredOf, Stored, RowsOf
<1>2. ASSUME NEW d \in Batch, NEW new \in Insertable(d),
             NEW resolve \in [ClientsOf(d) -> Copy], Saving(d, new, resolve)
      PROVE  StoredOf(b)' \in {StoredOf(b), ParsedRows(b)}
  <2>1. StoredOf(d) \in {{}, ParsedRows(d)}
    BY DEF AllOrNothing
  <2> QED BY <1>0, <1>2, <2>1, SavingCompletes
<1>3. ASSUME NEW q \in Request, PurgeCanceled(q) \/ Removal(q)
      PROVE  \/ StoredOf(b)' = StoredOf(b)
             \/ StoredOf(b)' = {} /\ requests[q].batch = b
  <2>1. txns' = [r \in Row |-> IF BatchOf[r] = requests[q].batch THEN NULL ELSE txns[r]]
    BY <1>3 DEF PurgeCanceled, Removal, RemoveBatch
  <2>2. Stored' = Stored \ RowsOf(requests[q].batch)
    BY <2>1, RowsLeave
  <2> QED BY <2>2 DEF StoredOf, RowsOf
<1>4. ASSUME NEW g \in Goal, BankPost(g) \/ BankWithdraw(g)
      PROVE  UNCHANGED txns
  BY <1>4 DEF BankPost, BankWithdraw, ledgerVars
<1> QED BY <1>1, <1>2, <1>3, <1>4, StepCases, CreationKeepsRows DEF TablesKept

LEMMA NextWhole ==
    ASSUME TypeInv, [Next]_vars, DistinctIds, AllOrNothing
    PROVE  AllOrNothing'
<1> SUFFICES ASSUME NEW b \in Batch PROVE StoredOf(b)' \in {{}, ParsedRows(b)}
  BY DEF AllOrNothing, ParsedRows, RowsOf
<1> QED BY StoredChanges DEF AllOrNothing

LEMMA InitWhole == Init => TypeInv /\ AllOrNothing
<1>1. Init => AllOrNothing
  BY DEF Init, AllOrNothing, StoredOf, Stored
<1> QED BY <1>1, InitType

\* The rows of a file are stored together or not at all, through faults in the middle
\* of any handler, retries, crashes, cancels and rollbacks (saveTransactions,
\* FundTransactionRepository.ts), for files that share no fundTransactionId.
THEOREM FilesAreWhole == ASSUME DistinctIds PROVE Spec => []AllOrNothing
<1>1. TypeInv /\ AllOrNothing /\ [Next]_vars => TypeInv' /\ AllOrNothing'
  BY NextType, NextWhole
<1> QED BY <1>1, InitWhole, PTL DEF Spec

-----------------------------------------------------------------------------
(* COMPLETED means whole *)

\* No request is on the way of a cancel.
NoCancel == \A q \in Request : requests[q].pc \notin {"mark", "dequeue", "purge"}

\* A file is whole from its save on, and not only once it is marked.
FinalWhole ==
    /\ \A j \in JobId : jobs[j].pc = "final" =>
          batches[j[1]].status = "deleted" \/ StoredOf(j[1]) = ParsedRows(j[1])
    /\ CompletedIsWhole

CompleteInv == TypeInv /\ AllOrNothing /\ NoCancel /\ FinalWhole

LEMMA NextNoCancel ==
    ASSUME TypeInv, NoCancel, NobodyCancels, [Next]_vars
    PROVE  NoCancel'
<1>0. requests \in [Request -> RequestRow]
  BY DEF TypeInv, TypeOK
<1>1. UNCHANGED requests => NoCancel'
  BY DEF NoCancel
<1>2. ASSUME NEW q \in Request, NEW pc, pc \notin {"mark", "dequeue", "purge"}, Proceed(q, pc)
      PROVE  NoCancel'
  BY <1>0, <1>2 DEF Proceed, NoCancel, RequestRow
<1>3. ASSUME NEW q \in Request, RequestStep(q) \/ RequestAborts(q)
      PROVE  NoCancel'
  <2>1. ~(MarkCanceled(q) \/ DequeueCanceled(q) \/ PurgeCanceled(q))
    BY DEF NoCancel, MarkCanceled, DequeueCanceled, PurgeCanceled, RequestAt
  <2> QED BY <1>2, <1>3, <2>1
      DEF RequestStep, RequestAborts, Decide, EnqueueResume, DequeueProcess, DequeueResume,
          Dequeue, RecheckRollback, CommitRollback, RefreshAfterRollback
<1>4. ASSUME NEW q \in Request, NEW b \in Batch, BeginRequest(q, b)
      PROVE  NoCancel'
  <2>1. ~BeginCancel(q, b)
    BY DEF BeginCancel, Receive, NobodyCancels
  <2>2. ASSUME NEW op, NEW pc \in {"decide", "dequeueProcess"}, Receive(q, op, b, pc)
        PROVE  NoCancel'
    BY <1>0, <2>2 DEF Receive, NoCancel
  <2> QED BY <1>4, <2>1, <2>2 DEF BeginRequest, BeginDecision, BeginRollback
<1>5. ASSUME NEW j \in JobId, WorkerStep(j) \/ WorkerCrash(j) \/ DbFault(j)
      PROVE  UNCHANGED requests
  BY <1>5 DEF WorkerStep, TakeJob, CompleteJob, FailAttempt, WorkerCrash, DbFault,
     DetectEntities, StartResume, RefreshViews, SaveInvalid, StartProcess, ParseFile,
     ValidateFile, RejectRows, MarkCompleted, RejectGroups, RecordError, Pause,
     SaveTransactions, CreateClient, CreateAccount, CreateGoal
<1> QED BY <1>1, <1>3, <1>4, <1>5
    DEF Next, UploadCreate, UploadEnqueue, UploadAborts, BankPost, BankWithdraw, vars

LEMMA ReleaseStarts ==
    ASSUME TypeInv, NEW i \in JobId, NEW state
    PROVE  Release(i, state).pc = "start"
BY DEF TypeInv, TypeOK, Release, Job

\* A job comes to "final" by a save that went through.
LEMMA FinalFrom ==
    ASSUME TypeInv, Next, NEW j \in JobId, jobs'[j].pc = "final", jobs[j].pc # "final"
    PROVE  \E new \in Insertable(j[1]), resolve \in [ClientsOf(j[1]) -> Copy] :
              Saving(j[1], new, resolve)
<1>0. jobs \in [JobId -> Job]
  BY DEF TypeInv, TypeOK
<1>1. ASSUME NEW i \in JobId, NEW pc, Goto(i, pc)
      PROVE  i = j /\ pc = "final"
  BY <1>0, <1>1 DEF Goto, Job
<1>2. ASSUME NEW i, NEW job, jobs' = [jobs EXCEPT ![i] = job], job.pc = "start"
      PROVE  FALSE
  BY <1>0, <1>2
<1>3. ASSUME NEW i \in JobId, NEW status, NEW next, next # "final",
             UpdateBatch(i, status, next)
      PROVE  FALSE
  BY <1>1, <1>3 DEF UpdateBatch
<1>4. ASSUME NEW i \in JobId, NEW left, Created(i, left)
      PROVE  FALSE
  BY <1>0, <1>4 DEF Created, AfterCreate, Job
<1>5. NoJob.pc = "start" /\ NewJob.pc = "start"
  BY DEF NoJob, NewJob
<1>6. ASSUME NEW i \in JobId, CompleteJob(i) \/ FailAttempt(i) \/ WorkerCrash(i)
      PROVE  FALSE
  <2>1. CASE CompleteJob(i)
    BY <1>2, <1>5, <2>1, ReleaseStarts DEF CompleteJob
  <2>2. CASE FailAttempt(i)
    <3> DEFINE state == IF jobs[i].attempts + 1 < MaxAttempts THEN "waiting" ELSE "failed"
               left == [Release(i, state) EXCEPT !.attempts = jobs[i].attempts + 1]
    <3>1. jobs' = [jobs EXCEPT ![i] = left]
      BY <2>2 DEF FailAttempt
    <3>2. left.pc = Release(i, state).pc
      BY DEF Release
    <3> HIDE DEF left
    <3> QED BY <1>2, <3>1, <3>2, ReleaseStarts
  <2>3. CASE WorkerCrash(i)
    <3> DEFINE state == IF jobs[i].stalls < MaxStalled THEN "waiting" ELSE "failed"
               left == [Release(i, state) EXCEPT !.stalls = @ + 1]
    <3>1. jobs' = [jobs EXCEPT ![i] = left]
      BY <2>3 DEF WorkerCrash
    <3>2. left.pc = Release(i, state).pc
      BY DEF Release
    <3> HIDE DEF left
    <3> QED BY <1>2, <3>1, <3>2, ReleaseStarts
  <2> QED BY <1>6, <2>1, <2>2, <2>3
<1>7. ASSUME NEW i \in JobId, TakeJob(i)
      PROVE  FALSE
  BY <1>0, <1>7 DEF TakeJob, Job
<1>8. ASSUME NEW i \in JobId, DetectEntities(i) \/ StartResume(i)
      PROVE  FALSE
  BY <1>0, <1>1, <1>8 DEF DetectEntities, StartResume, AfterCreate, Job
<1>9. ASSUME NEW i \in JobId,
             \/ DbFault(i) \/ SaveInvalid(i) \/ RejectGroups(i) \/ Pause(i)
             \/ RefreshViews(i) \/ RecordError(i)
      PROVE  FALSE
  BY <1>1, <1>9 DEF DbFault, SaveInvalid, RejectGroups, Pause, RefreshViews, RecordError
<1>10. ASSUME NEW i \in JobId,
              \/ StartProcess(i) \/ ParseFile(i) \/ ValidateFile(i)
              \/ RejectRows(i) \/ MarkCompleted(i)
       PROVE  FALSE
  <2>1. AfterValidation(i[1]) # "final"
    BY DEF AfterValidation
  <2> QED BY <1>1, <1>3, <1>10, <2>1
      DEF StartProcess, ParseFile, ValidateFile, RejectRows, MarkCompleted
<1>11. ASSUME NEW i \in JobId, Creation(i)
       PROVE  FALSE
  BY <1>4, <1>11 DEF Creation, CreateClient, CreateAccount, CreateGoal
<1>12. ASSUME NEW b \in Batch, UploadCreate(b) \/ UploadEnqueue(b) \/ UploadAborts(b)
       PROVE  FALSE
  BY <1>2, <1>5, <1>12 DEF UploadCreate, UploadEnqueue, UploadAborts
<1>13. ASSUME NEW q \in Request, RequestStep(q) \/ RequestAborts(q)
       PROVE  FALSE
  <2>1. jobs' # jobs
    OBVIOUS
  <2> QED BY <1>2, <1>5, <1>13, <2>1
      DEF RequestStep, RequestAborts, Decide, EnqueueResume, MarkCanceled, DequeueCanceled,
          PurgeCanceled, DequeueProcess, DequeueResume, Dequeue, RecheckRollback,
          CommitRollback, RefreshAfterRollback
<1>14. ASSUME NEW q \in Request, NEW b \in Batch, BeginRequest(q, b)
       PROVE  FALSE
  BY <1>14 DEF BeginRequest, BeginDecision, BeginCancel, BeginRollback, Receive
<1>15. ASSUME NEW g \in Goal, BankPost(g) \/ BankWithdraw(g)
       PROVE  FALSE
  BY <1>15 DEF BankPost, BankWithdraw
<1>16. PICK i \in JobId : SaveTransactions(i)
  BY <1>6, <1>7, <1>8, <1>9, <1>10, <1>11, <1>12, <1>13, <1>14, <1>15
     DEF Next, WorkerStep, Creation
<1>17. i = j /\ Live(i[1]) /\ Resolvable(i[1])
  BY <1>1, <1>16 DEF SaveTransactions
<1> QED BY <1>16, <1>17 DEF SaveTransactions, Saving, entityVars

\* How the status of one batch changes, for the two statuses that count here.
LEMMA StatusFrom ==
    ASSUME TypeInv, Next, NEW b \in Batch
    PROVE  /\ batches'[b].status = "COMPLETED" /\ batches[b].status # "COMPLETED" =>
                 /\ Live(b) /\ UNCHANGED txns
                 /\ \E j \in JobId : j[1] = b /\ jobs[j].pc = "final"
           /\ batches[b].status = "deleted" => batches'[b].status = "deleted"
<1> DEFINE Kept == /\ batches'[b].status = "COMPLETED" => batches[b].status = "COMPLETED"
                   /\ batches[b].status = "deleted" => batches'[b].status = "deleted"
<1> USE StatusValues
<1>0. batches \in [Batch -> BatchRow]
  BY DEF TypeInv, TypeOK
<1>1. UNCHANGED batches => Kept
  OBVIOUS
<1>2. ASSUME NEW d \in Batch, NEW status, status # "COMPLETED", batches[d].status # "deleted",
             batches' = [batches EXCEPT ![d].status = status]
      PROVE  Kept
  BY <1>0, <1>2 DEF BatchRow
<1>3. ASSUME NEW j \in JobId, NEW status, status # "COMPLETED", NEW next,
             UpdateBatch(j, status, next)
      PROVE  Kept
  BY <1>1, <1>2, <1>3, JobParts DEF UpdateBatch, Live
<1>4. ASSUME NEW j \in JobId, MarkCompleted(j)
      PROVE  \/ Kept
             \/ Live(b) /\ UNCHANGED txns /\ j[1] = b /\ jobs[j].pc = "final"
  BY <1>0, <1>1, <1>4, JobParts DEF MarkCompleted, UpdateBatch, Live, At, BatchRow, ledgerVars
<1>5. ASSUME NEW j \in JobId,
             StartProcess(j) \/ ParseFile(j) \/ ValidateFile(j) \/ RejectRows(j)
      PROVE  Kept
  BY <1>1, <1>3, <1>5 DEF StartProcess, ParseFile, ValidateFile, RejectRows
<1>6. ASSUME NEW j \in JobId, RejectGroups(j) \/ RecordError(j)
      PROVE  Kept
  BY <1>1, <1>2, <1>6, JobParts DEF RejectGroups, RecordError, Live
<1>7. ASSUME NEW j \in JobId, Pause(j)
      PROVE  Kept
  BY <1>0, <1>1, <1>7, JobParts DEF Pause, Live
<1>8. ASSUME NEW j \in JobId,
             \/ TakeJob(j) \/ CompleteJob(j) \/ FailAttempt(j) \/ WorkerCrash(j) \/ DbFault(j)
             \/ DetectEntities(j) \/ StartResume(j) \/ RefreshViews(j) \/ SaveInvalid(j)
             \/ SaveTransactions(j) \/ Creation(j)
      PROVE  Kept
  BY <1>1, <1>8
     DEF TakeJob, CompleteJob, FailAttempt, WorkerCrash, DbFault, DetectEntities, StartResume,
         RefreshViews, SaveInvalid, SaveTransactions, Creation, CreateClient, CreateAccount,
         CreateGoal
<1>9. ASSUME NEW d \in Batch, UploadCreate(d) \/ UploadEnqueue(d) \/ UploadAborts(d)
      PROVE  Kept
  BY <1>1, <1>2, <1>9 DEF UploadCreate, UploadEnqueue, UploadAborts
<1>10. ASSUME NEW q \in Request, MarkCanceled(q)
       PROVE  Kept
  BY <1>0, <1>1, <1>10 DEF MarkCanceled, Live, BatchRow
<1>11. ASSUME NEW q \in Request, Decide(q)
       PROVE  Kept
  BY <1>0, <1>1, <1>11 DEF Decide, Live, BatchRow
<1>12. ASSUME NEW q \in Request, CommitRollback(q)
       PROVE  Kept
  BY <1>0, <1>1, <1>12 DEF CommitRollback, RemoveBatch
<1>13. ASSUME NEW q \in Request,
              \/ \E d \in Batch : BeginRequest(q, d)
              \/ RequestAborts(q) \/ EnqueueResume(q) \/ DequeueCanceled(q) \/ PurgeCanceled(q)
              \/ DequeueProcess(q) \/ DequeueResume(q) \/ RecheckRollback(q)
              \/ RefreshAfterRollback(q)
       PROVE  Kept
  BY <1>1, <1>13
     DEF BeginRequest, BeginDecision, BeginCancel, BeginRollback, Receive, RequestAborts,
         EnqueueResume, DequeueCanceled, PurgeCanceled, DequeueProcess, DequeueResume, Dequeue,
         RecheckRollback, RefreshAfterRollback
<1>14. ASSUME NEW g \in Goal, BankPost(g) \/ BankWithdraw(g)
       PROVE  Kept
  BY <1>1, <1>14 DEF BankPost, BankWithdraw
<1>15. Kept \/ \E j \in JobId : Live(b) /\ UNCHANGED txns /\ j[1] = b /\ jobs[j].pc = "final"
  <2> HIDE DEF Kept
  <2> QED BY <1>4, <1>5, <1>6, <1>7, <1>8, <1>9, <1>10, <1>11, <1>12, <1>13, <1>14
      DEF Next, WorkerStep, RequestStep, Creation
<1> QED BY <1>15 DEF Live

\* Only a removal takes the rows of a whole file, and the batch goes with them.
LEMMA WholeStays ==
    ASSUME TypeInv, DistinctIds, AllOrNothing, NoCancel, Next, NEW b \in Batch,
           batches[b].status = "deleted" \/ StoredOf(b) = ParsedRows(b)
    PROVE  batches'[b].status = "deleted" \/ StoredOf(b)' = ParsedRows(b)
<1>1. CASE batches[b].status = "deleted"
  BY <1>1, StatusFrom
<1>2. ASSUME NEW q \in Request, requests[q].batch = b, PurgeCanceled(q) \/ Removal(q)
      PROVE  batches'[b].status = "deleted"
  <2>1. ~PurgeCanceled(q)
    BY DEF NoCancel, PurgeCanceled, RequestAt
  <2> QED BY <1>2, <2>1 DEF Removal, RemoveBatch, TypeInv, TypeOK
<1> QED BY <1>1, <1>2, StoredChanges

LEMMA NextFinal ==
    ASSUME CompleteInv, DistinctIds, [Next]_vars
    PROVE  FinalWhole'
<1> USE DEF CompleteInv
<1>1. CASE UNCHANGED vars
  BY <1>1 DEF vars, ledgerVars, FinalWhole, CompletedIsWhole, StoredOf, Stored, RowsOf, ParsedRows
<1>2. CASE Next
  <2>1. ASSUME NEW b \in Batch,
               batches[b].status = "deleted" \/ StoredOf(b) = ParsedRows(b)
        PROVE  batches'[b].status = "deleted" \/ StoredOf(b)' = ParsedRows(b)
    BY <1>2, <2>1, WholeStays
  <2>2. ASSUME NEW j \in JobId, jobs'[j].pc = "final"
        PROVE  batches'[j[1]].status = "deleted" \/ StoredOf(j[1])' = ParsedRows(j[1])
    <3>1. CASE jobs[j].pc = "final"
      BY <2>1, <3>1, JobParts DEF FinalWhole
    <3>2. CASE jobs[j].pc # "final"
      <4>1. PICK new \in Insertable(j[1]), resolve \in [ClientsOf(j[1]) -> Copy] :
               Saving(j[1], new, resolve)
        BY <1>2, <2>2, <3>2, FinalFrom
      <4>2. TypeOK /\ j[1] \in Batch /\ StoredOf(j[1]) \in {{}, ParsedRows(j[1])}
        BY JobParts DEF TypeInv, AllOrNothing
      <4> QED BY <4>1, <4>2, SavingCompletes
    <3> QED BY <3>1, <3>2
  <2>3. ASSUME NEW b \in Batch, batches'[b].status = "COMPLETED"
        PROVE  StoredOf(b)' = ParsedRows(b)
    <3>1. CASE batches[b].status = "COMPLETED"
      BY <2>1, <2>3, <3>1 DEF FinalWhole, CompletedIsWhole
    <3>2. CASE batches[b].status # "COMPLETED"
      BY <1>2, <2>1, <2>3, <3>2, StatusFrom DEF FinalWhole, Live, Gone
    <3> QED BY <3>1, <3>2
  <2> QED BY <2>2, <2>3 DEF FinalWhole, CompletedIsWhole, ParsedRows, RowsOf
<1> QED BY <1>1, <1>2

LEMMA InitComplete == Init => CompleteInv
<1>1. Init => NoCancel
  BY DEF Init, NoCancel
<1>2. Init => FinalWhole
  BY JobParts DEF Init, FinalWhole, CompletedIsWhole, NoJob
<1> QED BY <1>1, <1>2, InitWhole DEF CompleteInv

\* COMPLETED means that every row of the file is stored, whatever faults, retries, crashes,
\* decisions and rollbacks overlap, for files that share no fundTransactionId and where
\* nobody cancels: cancel leaves the resume job, whose worker may be past its save when
\* the rows are deleted, and marks the file COMPLETED (fundUploadRoutes.ts, FundFileProcessor.ts).
THEOREM CompletedFilesAreWhole ==
    ASSUME DistinctIds, NobodyCancels PROVE Spec => []CompletedIsWhole
<1>1. CompleteInv /\ [Next]_vars => CompleteInv'
  BY NextType, NextWhole, NextNoCancel, NextFinal DEF CompleteInv
<1>2. CompleteInv => CompletedIsWhole
  BY DEF CompleteInv, FinalWhole
<1> QED BY <1>1, <1>2, InitComplete, PTL DEF Spec

-----------------------------------------------------------------------------
(* A batch that waits for approval has stored nothing *)

\* The steps that only a first pass over the file takes, up to the question.
Checks == {"parse", "validate", "detect", "pause"}

\* The process job may still come to the question.
Running(b) ==
    /\ jobs[<<b, "process">>].state \in {"waiting", "active"}
    /\ jobs[<<b, "process">>].pc # "return"
Unasked(b) == b \in uploading \/ batches[b].status = "absent" \/ Running(b)

AtRest == \A j \in JobId : jobs[j].state # "active" => jobs[j].pc = "start"

\* Nobody decides before the question is asked, and once it is asked nothing
\* stores a row until it is answered.
Asked(b) ==
    /\ jobs[<<b, "resume">>].pc \notin Checks
    /\ b \in uploading \/ batches[b].status = "absent" =>
          jobs[<<b, "process">>].state = "none"
    /\ batches[b].status = "absent" => b \notin uploading
    /\ Unasked(b) =>
          /\ batches[b].status # "WAITING_FOR_APPROVAL"
          /\ jobs[<<b, "resume">>].state = "none"
          /\ \A q \in Request :
                requests[q].batch = b => requests[q].pc \notin {"decide", "enqueue"}
    /\ At(<<b, "process">>, "pause") => StoredOf(b) = {}
    /\ batches[b].status = "WAITING_FOR_APPROVAL" =>
          /\ StoredOf(b) = {}
          /\ jobs[<<b, "resume">>].state = "none"
          /\ \A q \in Request : requests[q].batch = b => requests[q].pc # "enqueue"

AskedOnce == AtRest /\ \A b \in Batch : Asked(b)

\* How one step moves a job, where no worker dies.
JobMove(j) ==
    \/ jobs'[j] \in {jobs[j], NoJob}
    \/ jobs'[j] = NewJob /\ j[2] = "process" /\ j[1] \in uploading /\ j[1] \notin uploading'
    \/ /\ jobs'[j] = NewJob /\ j[2] = "resume"
       /\ \E q \in Request : RequestAt(q, "enqueue") /\ requests[q].batch = j[1]
    \/ jobs[j].state = "waiting" /\ jobs'[j] = [jobs[j] EXCEPT !.state = "active"]
    \/ /\ jobs[j].state = "active" /\ jobs'[j].pc = "start"
       /\ jobs[j].pc = "rethrow" \/ j[2] = "resume"
    \/ /\ jobs[j].state = "active" /\ jobs'[j].state = "active" /\ jobs[j].pc # "return"
       /\ jobs'[j].pc \in Checks => j[2] = "process" \/ jobs[j].pc \in Checks
       /\ jobs'[j].pc = "pause" => NewEntities(j[1]) # NoEntities

LEMMA JobMoves ==
    ASSUME TypeInv, Next, "worker" \notin Faults, NEW j \in JobId
    PROVE  JobMove(j)
<1>0. jobs \in [JobId -> Job]
  BY DEF TypeInv, TypeOK
<1>1. UNCHANGED jobs => JobMove(j)
  BY DEF JobMove
<1>2. ASSUME NEW i \in JobId, NEW job, jobs' = [jobs EXCEPT ![i] = job], i # j
      PROVE  JobMove(j)
  BY <1>0, <1>2 DEF JobMove
<1>3. ASSUME NEW i \in JobId, NEW pc, Goto(i, pc), At(i, jobs[i].pc), jobs[i].pc # "return",
             pc \notin Checks \/ i[2] = "process" \/ jobs[i].pc \in Checks,
             pc # "pause"
      PROVE  JobMove(j)
  BY <1>0, <1>3 DEF Goto, At, JobMove, Job
<1>4. ASSUME NEW i \in JobId, NEW status, NEW next, UpdateBatch(i, status, next),
             At(i, jobs[i].pc), jobs[i].pc # "return",
             next \notin Checks \/ i[2] = "process" \/ jobs[i].pc \in Checks,
             next # "pause"
      PROVE  JobMove(j)
  BY <1>3, <1>4 DEF UpdateBatch, Checks
<1>5. ASSUME NEW i \in JobId, TakeJob(i)
      PROVE  JobMove(j)
  BY <1>0, <1>5 DEF TakeJob, JobMove, Job
<1>6. ASSUME NEW i \in JobId, CompleteJob(i)
      PROVE  JobMove(j)
  <2>1. CASE i[2] = "process"
    BY <1>0, <1>6, <2>1 DEF CompleteJob, JobMove
  <2>2. CASE i[2] # "process"
    <3>1. i[2] = "resume" /\ Release(i, "completed").pc = "start"
      BY <2>2, JobParts, ReleaseStarts DEF Kind
    <3> QED BY <1>0, <1>6, <2>2, <3>1 DEF CompleteJob, At, JobMove
  <2> QED BY <2>1, <2>2
<1>7. ASSUME NEW i \in JobId, FailAttempt(i)
      PROVE  JobMove(j)
  <2> DEFINE state == IF jobs[i].attempts + 1 < MaxAttempts THEN "waiting" ELSE "failed"
             left == [Release(i, state) EXCEPT !.attempts = jobs[i].attempts + 1]
  <2>1. jobs' = [jobs EXCEPT ![i] = left]
    BY <1>7 DEF FailAttempt
  <2>2. left.pc = "start"
    BY ReleaseStarts DEF Release
  <2>3. jobs[i].state = "active" /\ jobs[i].pc = "rethrow"
    BY <1>7 DEF FailAttempt, At
  <2> HIDE DEF left
  <2> QED BY <1>0, <2>1, <2>2, <2>3 DEF JobMove
<1>8. ASSUME NEW i \in JobId, DetectEntities(i)
      PROVE  JobMove(j)
  <2>1. CASE i = j
    BY <1>0, <1>8, <2>1 DEF DetectEntities, At, JobMove, Checks, Job
  <2>2. CASE i # j
    BY <1>0, <1>8, <2>2 DEF DetectEntities, JobMove
  <2> QED BY <2>1, <2>2
<1>9. ASSUME NEW i \in JobId, StartResume(i)
      PROVE  JobMove(j)
  <2>1. CASE i = j
    BY <1>0, <1>8, <1>9, <2>1 DEF StartResume, Goto, AfterCreate, At, JobMove, Checks, Job
  <2>2. CASE i # j
    BY <1>0, <1>9, <2>2 DEF StartResume, Goto, JobMove
  <2> QED BY <2>1, <2>2
<1>10. ASSUME NEW i \in JobId,
              \/ DbFault(i) \/ SaveInvalid(i) \/ RejectGroups(i)
              \/ RecordError(i) \/ RefreshViews(i) \/ SaveTransactions(i) \/ Pause(i)
       PROVE  JobMove(j)
  BY <1>3, <1>10
     DEF DbFault, SaveInvalid, RejectGroups, RecordError, RefreshViews, SaveTransactions,
         Pause, Throwing, At, Checks
<1>11. ASSUME NEW i \in JobId,
              \/ StartProcess(i) \/ ParseFile(i) \/ ValidateFile(i)
              \/ RejectRows(i) \/ MarkCompleted(i)
       PROVE  JobMove(j)
  <2>1. AfterValidation(i[1]) # "pause"
    BY DEF AfterValidation
  <2>2. CASE StartProcess(i)
    BY <1>4, <2>2 DEF StartProcess, At, Checks
  <2>3. CASE ParseFile(i)
    BY <1>3, <1>4, <2>3 DEF ParseFile, At, Checks
  <2>4. CASE ValidateFile(i)
    BY <1>4, <2>1, <2>4 DEF ValidateFile, At, Checks
  <2>5. CASE RejectRows(i) \/ MarkCompleted(i)
    BY <1>4, <2>5 DEF RejectRows, MarkCompleted, At, Checks
  <2> QED BY <1>11, <2>2, <2>3, <2>4, <2>5
<1>12. ASSUME NEW i \in JobId, Creation(i)
       PROVE  JobMove(j)
  <2>1. ASSUME NEW left, Created(i, left), At(i, "create")
        PROVE  JobMove(j)
    <3>1. CASE i = j
      BY <1>0, <2>1, <3>1 DEF Created, AfterCreate, At, JobMove, Checks, Job
    <3>2. CASE i # j
      BY <1>0, <2>1, <3>2 DEF Created, JobMove
    <3> QED BY <3>1, <3>2
  <2> QED BY <1>12, <2>1 DEF Creation, CreateClient, CreateAccount, CreateGoal
<1>13. ASSUME NEW b \in Batch, UploadCreate(b) \/ UploadEnqueue(b) \/ UploadAborts(b)
       PROVE  JobMove(j)
  BY <1>0, <1>1, <1>13 DEF UploadCreate, UploadEnqueue, UploadAborts, JobMove
<1>14. ASSUME NEW q \in Request, RequestStep(q) \/ RequestAborts(q)
       PROVE  JobMove(j)
  <2>1. CASE EnqueueResume(q)
    BY <1>0, <1>1, <2>1 DEF EnqueueResume, RequestAt, JobMove
  <2>2. CASE DequeueCanceled(q) \/ DequeueProcess(q) \/ DequeueResume(q)
    BY <1>0, <1>1, <2>2 DEF DequeueCanceled, DequeueProcess, DequeueResume, Dequeue, JobMove
  <2> QED BY <1>1, <1>14, <2>1, <2>2
      DEF RequestStep, RequestAborts, Decide, MarkCanceled, PurgeCanceled, RecheckRollback,
          CommitRollback, RefreshAfterRollback
<1>15. ASSUME NEW q \in Request, NEW b \in Batch, BeginRequest(q, b)
       PROVE  UNCHANGED jobs
  BY <1>15 DEF BeginRequest, BeginDecision, BeginCancel, BeginRollback, Receive
<1>16. ASSUME NEW g \in Goal, BankPost(g) \/ BankWithdraw(g)
       PROVE  UNCHANGED jobs
  BY <1>16 DEF BankPost, BankWithdraw
<1>17. ASSUME NEW i \in JobId, WorkerCrash(i)
       PROVE  FALSE
  BY <1>17 DEF WorkerCrash
<1> QED BY <1>1, <1>5, <1>6, <1>7, <1>8, <1>9, <1>10, <1>11, <1>12, <1>13, <1>14, <1>15,
           <1>16, <1>17 DEF Next, WorkerStep, Creation

\* A batch is never absent again, and it waits for approval from its pause on.
LEMMA WaitingFrom ==
    ASSUME TypeInv, Next, NEW b \in Batch
    PROVE  /\ batches'[b].status = "absent" => batches[b].status = "absent"
           /\ b \in uploading' =>
                 b \in uploading \/ (batches[b].status = "absent" /\ batches'[b].status # "absent")
           /\ batches'[b].status = "WAITING_FOR_APPROVAL" =>
                 \/ batches[b].status = "WAITING_FOR_APPROVAL"
                 \/ \E j \in JobId : j[1] = b /\ Pause(j) /\ Live(b)
<1> DEFINE Stays ==
      /\ batches'[b].status = "absent" => batches[b].status = "absent"
      /\ batches'[b].status = "WAITING_FOR_APPROVAL" => batches[b].status = "WAITING_FOR_APPROVAL"
      Kept == Stays /\ (b \in uploading' => b \in uploading)
<1> USE StatusValues
<1>0. batches \in [Batch -> BatchRow]
  BY DEF TypeInv, TypeOK
<1>1. UNCHANGED batches => Stays
  OBVIOUS
<1>2. ASSUME NEW d, NEW status, status \notin {"absent", "WAITING_FOR_APPROVAL"},
             batches' = [batches EXCEPT ![d].status = status]
      PROVE  Stays
  BY <1>0, <1>2 DEF BatchRow
<1>3. ASSUME NEW j \in JobId, NEW status, status \notin {"absent", "WAITING_FOR_APPROVAL"},
             NEW next, UpdateBatch(j, status, next)
      PROVE  Stays
  BY <1>1, <1>2, <1>3 DEF UpdateBatch
<1>4. ASSUME NEW j \in JobId,
             \/ StartProcess(j) \/ ParseFile(j) \/ ValidateFile(j)
             \/ RejectRows(j) \/ MarkCompleted(j)
      PROVE  Kept
  BY <1>1, <1>3, <1>4 DEF StartProcess, ParseFile, ValidateFile, RejectRows, MarkCompleted
<1>5. ASSUME NEW j \in JobId, RejectGroups(j) \/ RecordError(j)
      PROVE  Kept
  BY <1>0, <1>1, <1>5, JobParts DEF RejectGroups, RecordError, BatchRow
<1>6. ASSUME NEW j \in JobId, Pause(j)
      PROVE  \/ Kept
             \/ j[1] = b /\ Live(b) /\ batches'[b].status # "absent" /\ UNCHANGED uploading
  <2>1. CASE j[1] = b /\ Live(b)
    BY <1>0, <1>6, <2>1 DEF Pause
  <2>2. CASE ~(j[1] = b /\ Live(b))
    <3>1. batches'[b] = batches[b] /\ UNCHANGED uploading
      BY <1>0, <1>6, <2>2, JobParts DEF Pause
    <3> QED BY <3>1
  <2> QED BY <2>1, <2>2
<1>7. ASSUME NEW j \in JobId,
             \/ TakeJob(j) \/ CompleteJob(j) \/ FailAttempt(j) \/ WorkerCrash(j) \/ DbFault(j)
             \/ DetectEntities(j) \/ StartResume(j) \/ RefreshViews(j) \/ SaveInvalid(j)
             \/ SaveTransactions(j) \/ Creation(j)
      PROVE  Kept
  BY <1>1, <1>7
     DEF TakeJob, CompleteJob, FailAttempt, WorkerCrash, DbFault, DetectEntities, StartResume,
         RefreshViews, SaveInvalid, SaveTransactions, Creation, CreateClient, CreateAccount,
         CreateGoal
<1>8. ASSUME NEW d \in Batch, UploadEnqueue(d) \/ UploadAborts(d)
      PROVE  Kept
  BY <1>1, <1>8 DEF UploadEnqueue, UploadAborts
<1>9. ASSUME NEW d \in Batch, UploadCreate(d)
      PROVE  \/ Kept
             \/ Stays /\ batches[b].status = "absent" /\ batches'[b].status # "absent"
  BY <1>0, <1>2, <1>9 DEF UploadCreate, BatchRow
<1>10. ASSUME NEW q \in Request, Decide(q)
       PROVE  Kept
  BY <1>0, <1>1, <1>10 DEF Decide, BatchRow
<1>11. ASSUME NEW q \in Request, MarkCanceled(q)
       PROVE  Kept
  BY <1>0, <1>1, <1>11 DEF MarkCanceled, BatchRow
<1>12. ASSUME NEW q \in Request, CommitRollback(q)
       PROVE  Kept
  BY <1>0, <1>1, <1>12 DEF CommitRollback, RemoveBatch
<1>13. ASSUME NEW q \in Request,
              \/ \E d \in Batch : BeginRequest(q, d)
              \/ RequestAborts(q) \/ EnqueueResume(q) \/ DequeueCanceled(q) \/ PurgeCanceled(q)
              \/ DequeueProcess(q) \/ DequeueResume(q) \/ RecheckRollback(q)
              \/ RefreshAfterRollback(q)
       PROVE  Kept
  BY <1>1, <1>13
     DEF BeginRequest, BeginDecision, BeginCancel, BeginRollback, Receive, RequestAborts,
         EnqueueResume, DequeueCanceled, PurgeCanceled, DequeueProcess, DequeueResume, Dequeue,
         RecheckRollback, RefreshAfterRollback
<1>14. ASSUME NEW g \in Goal, BankPost(g) \/ BankWithdraw(g)
       PROVE  Kept
  BY <1>1, <1>14 DEF BankPost, BankWithdraw
<1>15. \/ Kept
       \/ \E j \in JobId : /\ j[1] = b /\ Pause(j) /\ Live(b)
                           /\ batches'[b].status # "absent" /\ UNCHANGED uploading
       \/ Stays /\ batches[b].status = "absent" /\ batches'[b].status # "absent"
  <2> HIDE DEF Kept, Stays
  <2> QED BY <1>4, <1>5, <1>6, <1>7, <1>8, <1>9, <1>10, <1>11, <1>12, <1>13, <1>14
      DEF Next, WorkerStep, RequestStep, Creation
<1>16. CASE Kept
  BY <1>16
<1>17. CASE \E j \in JobId : /\ j[1] = b /\ Pause(j) /\ Live(b)
                             /\ batches'[b].status # "absent" /\ UNCHANGED uploading
  BY <1>17
<1>18. CASE Stays /\ batches[b].status = "absent" /\ batches'[b].status # "absent"
  BY <1>18
<1> QED BY <1>15, <1>16, <1>17, <1>18

\* A request decides what it read as waiting; what it approved waits no more.
LEMMA DecidesFrom ==
    ASSUME TypeInv, Next, NEW q \in Request, NEW b \in Batch, requests'[q].batch = b
    PROVE  /\ requests'[q].pc \in {"decide", "enqueue"} =>
                 \/ batches[b].status = "WAITING_FOR_APPROVAL"
                 \/ requests[q].batch = b /\ requests[q].pc \in {"decide", "enqueue"}
           /\ requests'[q].pc = "enqueue" =>
                 \/ batches'[b].status # "WAITING_FOR_APPROVAL"
                 \/ requests[q].batch = b /\ requests[q].pc = "enqueue"
<1> DEFINE Same == requests[q].batch = b /\ requests'[q].pc = requests[q].pc
           Other == requests'[q].pc \notin {"decide", "enqueue"}
<1>0. TypeOK
  BY DEF TypeInv
<1>1. UNCHANGED requests => Same
  OBVIOUS
<1>2. ASSUME NEW p \in Request, NEW pc, pc \notin {"decide", "enqueue"}, Proceed(p, pc)
      PROVE  Same \/ Other
  BY <1>0, <1>2 DEF Proceed, TypeOK, RequestRow
<1>3. ASSUME NEW p \in Request, NEW d \in Batch, BeginCancel(p, d) \/ BeginRollback(p, d)
      PROVE  Same \/ Other
  BY <1>0, <1>3 DEF BeginCancel, BeginRollback, Receive, TypeOK
<1>4. ASSUME NEW p \in Request, NEW d \in Batch, BeginDecision(p, d)
      PROVE  \/ Same
             \/ requests'[q].pc = "decide" /\ batches[b].status = "WAITING_FOR_APPROVAL"
  <2>1. CASE p = q
    <3>1. requests'[q].batch = d /\ requests'[q].pc = "decide"
      BY <1>0, <1>4, <2>1 DEF BeginDecision, Receive, TypeOK
    <3> QED BY <1>4, <3>1 DEF BeginDecision
  <2>2. CASE p # q
    BY <1>0, <1>4, <2>2 DEF BeginDecision, Receive, TypeOK
  <2> QED BY <2>1, <2>2
<1>5. ASSUME NEW p \in Request, Decide(p)
      PROVE  \/ Same \/ Other
             \/ /\ requests[q].batch = b /\ requests[q].pc = "decide"
                /\ batches'[b].status # "WAITING_FOR_APPROVAL"
  <2>1. CASE p # q
    BY <1>0, <1>5, <2>1 DEF Decide, Proceed, TypeOK
  <2>2. CASE p = q
    <3>1. requests[q].batch = b /\ requests[q].pc = "decide"
      BY <1>0, <1>5, <2>2 DEF Decide, RequestAt, Proceed, TypeOK, RequestRow
    <3>2. CASE Live(b)
      <4>1. batches'[b].status \in {"PROCESSING", "FAILED"}
        BY <1>0, <1>5, <2>2, <3>1, <3>2 DEF Decide, TypeOK, BatchRow
      <4> QED BY <3>1, <4>1
    <3>3. CASE ~Live(b)
      BY <1>0, <1>2, <1>5, <2>2, <3>1, <3>3 DEF Decide
    <3> QED BY <3>2, <3>3
  <2> QED BY <2>1, <2>2
<1>6. ASSUME NEW p \in Request,
             \/ EnqueueResume(p) \/ MarkCanceled(p) \/ DequeueCanceled(p)
             \/ DequeueProcess(p) \/ DequeueResume(p) \/ PurgeCanceled(p) \/ RecheckRollback(p)
             \/ CommitRollback(p) \/ RefreshAfterRollback(p) \/ RequestAborts(p)
      PROVE  Same \/ Other
  BY <1>2, <1>6
     DEF EnqueueResume, MarkCanceled, DequeueCanceled, DequeueProcess, DequeueResume, Dequeue,
         PurgeCanceled, RecheckRollback, CommitRollback, RefreshAfterRollback, RequestAborts
<1>7. ASSUME NEW j \in JobId, WorkerStep(j) \/ WorkerCrash(j) \/ DbFault(j)
      PROVE  Same
  BY <1>1, <1>7, WorkerScope
<1>8. ASSUME NEW d \in Batch, UploadCreate(d) \/ UploadEnqueue(d) \/ UploadAborts(d)
      PROVE  Same
  BY <1>1, <1>8 DEF UploadCreate, UploadEnqueue, UploadAborts
<1>9. ASSUME NEW g \in Goal, BankPost(g) \/ BankWithdraw(g)
      PROVE  Same
  BY <1>1, <1>9 DEF BankPost, BankWithdraw
<1>10. \/ Same \/ Other
       \/ requests'[q].pc = "decide" /\ batches[b].status = "WAITING_FOR_APPROVAL"
       \/ /\ requests[q].batch = b /\ requests[q].pc = "decide"
          /\ batches'[b].status # "WAITING_FOR_APPROVAL"
  <2> HIDE DEF Same, Other
  <2> QED BY <1>3, <1>4, <1>5, <1>6, <1>7, <1>8, <1>9 DEF Next, RequestStep, BeginRequest
<1> QED BY <1>10

\* The first rows of a file come from the save of a job of the file.
LEMMA RowsFrom ==
    ASSUME TypeInv, Next, NEW b \in Batch, StoredOf(b) = {}, StoredOf(b)' # {}
    PROVE  \E j \in JobId : j[1] = b /\ SaveTransactions(j)
<1>0. TypeOK
  BY DEF TypeInv
<1>1. ~UNCHANGED txns
  BY DEF StoredOf, Stored, RowsOf
<1>2. ASSUME NEW q \in Request, RequestStep(q) \/ RequestAborts(q)
      PROVE  FALSE
  <2>1. PurgeCanceled(q) \/ CommitRollback(q)
    BY <1>1, <1>2
       DEF RequestStep, RequestAborts, Decide, EnqueueResume, MarkCanceled, DequeueCanceled,
           DequeueProcess, DequeueResume, Dequeue, RecheckRollback, RefreshAfterRollback,
           ledgerVars
  <2>2. txns' = [r \in Row |-> IF BatchOf[r] = requests[q].batch THEN NULL ELSE txns[r]]
    BY <1>1, <2>1 DEF PurgeCanceled, CommitRollback, RemoveBatch, ledgerVars
  <2>3. Stored' = Stored \ RowsOf(requests[q].batch)
    BY <2>2, RowsLeave
  <2> QED BY <2>3 DEF StoredOf, RowsOf
<1>3. PICK j \in JobId : SaveTransactions(j)
  BY <1>1, <1>2
     DEF Next, WorkerStep, TakeJob, CompleteJob, FailAttempt, WorkerCrash, DbFault,
         DetectEntities, StartResume, RefreshViews, SaveInvalid, StartProcess, ParseFile,
         ValidateFile, RejectRows, MarkCompleted, RejectGroups, RecordError, Pause,
         CreateClient, CreateAccount, CreateGoal, UploadCreate, UploadEnqueue, UploadAborts,
         BeginRequest, BeginDecision, BeginCancel, BeginRollback, Receive, BankPost,
         BankWithdraw, ledgerVars
<1>4. PICK new \in Insertable(j[1]), resolve \in [ClientsOf(j[1]) -> Copy] :
         Saving(j[1], new, resolve)
  BY <1>1, <1>3 DEF SaveTransactions, Saving, entityVars, ledgerVars
<1>5. new \subseteq RowsOf(j[1]) /\ Stored' = Stored \union new
  BY <1>0, <1>4, SavingAdds, JobParts
<1> QED BY <1>3, <1>5 DEF StoredOf, RowsOf

\* An account belongs to a client of the name its files give it.
OwnersNamed == \A a \in OpenAccounts : accounts[a][1] = ClientOf[a]

LEMMA NextOwners ==
    ASSUME TypeInv, OwnersNamed, [Next]_vars
    PROVE  OwnersNamed'
<1>0. accounts \in [Account -> ClientRow \union {NULL}]
  BY DEF TypeInv, TypeOK
<1>1. UNCHANGED accounts => OwnersNamed'
  BY DEF OwnersNamed, OpenAccounts
<1>2. ASSUME NEW j, NEW a \in Account, CreateAccount(j, a)
      PROVE  OwnersNamed'
  BY <1>0, <1>1, <1>2 DEF CreateAccount, OwnersNamed, OpenAccounts
<1>3. ASSUME NEW j, Creation(j)
      PROVE  OwnersNamed'
  BY <1>1, <1>2, <1>3 DEF Creation, CreateClient, CreateGoal
<1>4. ASSUME NEW q \in Request, PurgeCanceled(q) \/ Removal(q)
      PROVE  OwnersNamed'
  <2>1. CASE PurgeCanceled(q)
    BY <1>1, <2>1 DEF PurgeCanceled, entityVars
  <2>2. CASE Removal(q)
    BY <1>0, <2>2 DEF Removal, RemoveBatch, OwnersNamed, OpenAccounts
  <2> QED BY <1>4, <2>1, <2>2
<1> QED BY <1>1, <1>3, <1>4, StepCases
    DEF TablesKept, Saving, BankPost, BankWithdraw, entityVars

\* A file that is stored names nothing the tables do not hold.
LEMMA StoredNamesKnown ==
    ASSUME ForeignKeys, OwnersNamed, NEW b \in Batch, StoredOf(b) = ParsedRows(b)
    PROVE  NewEntities(b) = NoEntities
<1> USE DEF ForeignKeys
<1>1. GoalsOf(b) \subseteq goals
  BY DEF GoalsOf, StoredOf, RowsResolve
<1>2. AccountsOf(b) \subseteq OpenAccounts
  BY <1>1 DEF AccountsOf, GoalsResolve
<1>3. ClientsOf(b) \subseteq ClientNames
  BY <1>2 DEF ClientsOf, ClientNames, AccountsResolve, OwnersNamed
<1> QED BY <1>1, <1>2, <1>3 DEF NewEntities, NoEntities

LEMMA NextAtRest ==
    ASSUME TypeInv, AtRest, \A j \in JobId : JobMove(j)
    PROVE  AtRest'
<1> SUFFICES ASSUME NEW j \in JobId, jobs'[j].state # "active" PROVE jobs'[j].pc = "start"
  BY DEF AtRest
<1>1. NoJob.pc = "start" /\ NewJob.pc = "start"
  BY DEF NoJob, NewJob
<1> QED BY <1>1 DEF AtRest, JobMove, TypeInv, TypeOK, Job

\* The process job only ever moves on from where its file is unasked.
LEMMA UnaskedFrom ==
    ASSUME TypeInv, AtRest, Next, "worker" \notin Faults, NEW b \in Batch, Unasked(b)'
    PROVE  Unasked(b)
<1> DEFINE j == <<b, "process">>
<1>0. j \in JobId /\ jobs[j] \in Job /\ j[1] = b /\ j[2] = "process"
  BY DEF JobId, Kind, TypeInv, TypeOK
<1>1. CASE b \in uploading' \/ batches'[b].status = "absent"
  BY <1>1, WaitingFrom DEF Unasked
<1>2. CASE Running(b)'
  <2>1. JobMove(j)
    BY <1>0, JobMoves
  <2>2. NoJob.state = "none"
    BY DEF NoJob
  <2>3. jobs'[j].state \in {"waiting", "active"} /\ jobs'[j].pc # "return"
    BY <1>2 DEF Running
  <2>4. \/ b \in uploading
        \/ jobs[j].state \in {"waiting", "active"} /\ jobs[j].pc # "return"
    BY <1>0, <2>1, <2>2, <2>3 DEF JobMove, AtRest, Job
  <2> QED BY <2>4 DEF Unasked, Running
<1> QED BY <1>1, <1>2 DEF Unasked

\* A batch comes to wait from a question nobody has answered yet.
LEMMA PausedWhole ==
    ASSUME TypeInv, NEW b \in Batch, Asked(b), NEW j \in JobId, j[1] = b, Pause(j), Live(b)
    PROVE  /\ j = <<b, "process">> /\ Unasked(b)
           /\ StoredOf(b)' = {}
           /\ jobs' = [jobs EXCEPT ![j].pc = "return"]
           /\ UNCHANGED <<requests, uploading>>
<1>1. j = <<b, "process">> \/ j = <<b, "resume">>
  BY DEF JobId, Kind
<1>2. jobs[j].state = "active" /\ jobs[j].pc = "pause"
  BY DEF Pause, At
<1>3. j = <<b, "process">>
  BY <1>1, <1>2 DEF Asked, Checks
<1>4. Unasked(b) /\ StoredOf(b) = {}
  BY <1>2, <1>3 DEF Asked, Unasked, Running, At
<1>5. StoredOf(b)' = {}
  BY <1>4 DEF Pause, ledgerVars, StoredOf, Stored, RowsOf
<1> QED BY <1>3, <1>4, <1>5 DEF Pause, Goto

LEMMA NextAsked ==
    ASSUME TypeInv, ForeignKeys, OwnersNamed, DistinctIds, AllOrNothing, AskedOnce, Next,
           "worker" \notin Faults, NEW b \in Batch
    PROVE  Asked(b)'
<1> DEFINE p == <<b, "process">>
           r == <<b, "resume">>
<1>0. /\ p \in JobId /\ jobs[p] \in Job /\ p[1] = b /\ p[2] = "process"
      /\ r \in JobId /\ jobs[r] \in Job /\ r[1] = b /\ r[2] = "resume"
      /\ AtRest /\ Asked(b)
  BY DEF JobId, Kind, TypeInv, TypeOK, AskedOnce
<1>1. JobMove(p) /\ JobMove(r)
  BY <1>0, JobMoves
<1>2. /\ NoJob.pc = "start" /\ NoJob.state = "none"
      /\ NewJob.pc = "start" /\ NewJob.state = "waiting"
  BY DEF NoJob, NewJob
<1>3. jobs'[r].pc \notin Checks
  BY <1>0, <1>1, <1>2 DEF Asked, JobMove, Checks, Job
<1>4. b \in uploading' \/ batches'[b].status = "absent" => jobs'[p].state = "none"
  BY <1>0, <1>1, <1>2, WaitingFrom DEF Asked, JobMove
<1>5. batches'[b].status = "absent" => b \notin uploading'
  BY <1>0, WaitingFrom DEF Asked
<1>6. ASSUME \A q \in Request : requests[q].batch = b => requests[q].pc # "enqueue",
             jobs[r].state = "none"
      PROVE  jobs'[r].state = "none"
  BY <1>0, <1>1, <1>2, <1>6 DEF JobMove, RequestAt
<1>7. ASSUME Unasked(b)'
      PROVE  /\ batches'[b].status # "WAITING_FOR_APPROVAL"
             /\ jobs'[r].state = "none"
             /\ \A q \in Request :
                   requests'[q].batch = b => requests'[q].pc \notin {"decide", "enqueue"}
  <2>1. Unasked(b)
    BY <1>0, <1>7, UnaskedFrom
  <2>2. batches'[b].status # "WAITING_FOR_APPROVAL"
    <3> SUFFICES ASSUME batches'[b].status = "WAITING_FOR_APPROVAL" PROVE FALSE
      OBVIOUS
    <3>1. PICK j \in JobId : j[1] = b /\ Pause(j) /\ Live(b)
      BY <1>0, <2>1, WaitingFrom DEF Asked
    <3>a. j = p /\ jobs' = [jobs EXCEPT ![j].pc = "return"] /\ UNCHANGED uploading
      BY <1>0, <3>1, PausedWhole
    <3>b. jobs \in [JobId -> Job]
      BY DEF TypeInv, TypeOK
    <3>2. jobs'[p].pc = "return" /\ j = p /\ UNCHANGED uploading
      BY <1>0, <3>a, <3>b DEF Job
    <3>3. jobs[p].state = "active"
      BY <3>1, <3>2 DEF Pause, At
    <3>4. b \notin uploading /\ batches'[b].status # "absent"
      BY <1>0, <3>3 DEF Asked
    <3> QED BY <1>7, <3>2, <3>4 DEF Unasked, Running
  <2>3. jobs'[r].state = "none"
    BY <1>0, <1>6, <2>1 DEF Asked
  <2> QED BY <1>0, <2>1, <2>2, <2>3, DecidesFrom DEF Asked
<1>8. ASSUME StoredOf(b) = {}, StoredOf(b)' # {}
      PROVE  \/ Unasked(b) /\ UNCHANGED batches /\ jobs'[p].pc # "pause"
             \/ jobs[r].state # "none"
  <2>1. PICK j \in JobId : j[1] = b /\ SaveTransactions(j)
    BY <1>8, RowsFrom
  <2>2. jobs[j].state = "active" /\ jobs[j].pc = "save" /\ UNCHANGED batches
        /\ jobs'[j].pc \in {"final", "error"}
    BY <2>1 DEF SaveTransactions, At, Goto, TypeInv, TypeOK, Job
  <2>3. j = p \/ j = r
    BY <2>1 DEF JobId, Kind
  <2> QED BY <2>2, <2>3 DEF Unasked, Running
<1>9. At(p, "pause")' => StoredOf(b)' = {}
  <2> SUFFICES ASSUME jobs'[p].state = "active", jobs'[p].pc = "pause", StoredOf(b)' # {}
               PROVE  FALSE
    BY DEF At
  <2>1. Unasked(b)
    BY <1>0, UnaskedFrom DEF Unasked, Running
  <2>2. StoredOf(b) # {}
    BY <1>0, <1>8, <2>1 DEF Asked
  <2>3. StoredOf(b) = ParsedRows(b)
    BY <2>2 DEF AllOrNothing
  <2>4. NewEntities(b) = NoEntities
    BY <2>3, StoredNamesKnown
  <2>5. ~At(p, "pause")
    BY <1>0, <2>2 DEF Asked
  <2> QED BY <1>0, <1>1, <1>2, <2>4, <2>5 DEF JobMove, AtRest, At, Job
<1>10. ASSUME batches'[b].status = "WAITING_FOR_APPROVAL"
       PROVE  /\ StoredOf(b)' = {}
              /\ jobs'[r].state = "none"
              /\ \A q \in Request : requests'[q].batch = b => requests'[q].pc # "enqueue"
  <2>1. CASE batches[b].status = "WAITING_FOR_APPROVAL"
    <3>1. StoredOf(b)' = {}
      BY <1>0, <1>8, <2>1 DEF Asked
    <3>2. jobs'[r].state = "none"
      BY <1>0, <1>6, <2>1 DEF Asked
    <3> QED BY <1>0, <1>10, <2>1, <3>1, <3>2, DecidesFrom DEF Asked
  <2>2. CASE batches[b].status # "WAITING_FOR_APPROVAL"
    <3>1. PICK j \in JobId : j[1] = b /\ Pause(j) /\ Live(b)
      BY <1>10, <2>2, WaitingFrom
    <3>2. /\ j = p /\ Unasked(b) /\ StoredOf(b)' = {} /\ UNCHANGED requests
          /\ jobs' = [jobs EXCEPT ![j].pc = "return"]
      BY <1>0, <3>1, PausedWhole
    <3>3. jobs'[r].state = "none"
      BY <1>0, <3>2 DEF Asked, TypeInv, TypeOK
    <3> QED BY <1>0, <3>2, <3>3 DEF Asked
  <2> QED BY <2>1, <2>2
<1>11. Asked(b)' <=>
       /\ jobs'[r].pc \notin Checks
       /\ b \in uploading' \/ batches'[b].status = "absent" => jobs'[p].state = "none"
       /\ batches'[b].status = "absent" => b \notin uploading'
       /\ Unasked(b)' =>
             /\ batches'[b].status # "WAITING_FOR_APPROVAL"
             /\ jobs'[r].state = "none"
             /\ \A q \in Request :
                   requests'[q].batch = b => requests'[q].pc \notin {"decide", "enqueue"}
       /\ At(p, "pause")' => StoredOf(b)' = {}
       /\ batches'[b].status = "WAITING_FOR_APPROVAL" =>
             /\ StoredOf(b)' = {}
             /\ jobs'[r].state = "none"
             /\ \A q \in Request : requests'[q].batch = b => requests'[q].pc # "enqueue"
  BY DEF Asked, Checks
<1> QED BY <1>3, <1>4, <1>5, <1>7, <1>9, <1>10, <1>11

\* No row of a file is stored while its batch waits for approval (FundFileProcessor.ts,
\* approve-entities in fundUploadRoutes.ts), for files that share no fundTransactionId
\* and where no worker dies.  Both are needed: createMany stores an id another file holds
\* not again, so a file may be stored in part and asked about anew, and a worker that dies
\* after its pause asks again while the resume job stores the rows.
THEOREM WaitingBatchesAreUnposted ==
    ASSUME DistinctIds, "worker" \notin Faults PROVE Spec => []WaitingMeansUnposted
<1> DEFINE Inv == TypeInv /\ ForeignKeys /\ OwnersNamed /\ AllOrNothing /\ AskedOnce
<1>1. Init => Inv
  <2>1. Init => OwnersNamed
    BY EntityAssumption DEF Init, OwnersNamed, OpenAccounts
  <2>2. Init => AskedOnce
    <3> SUFFICES ASSUME Init PROVE AskedOnce
      OBVIOUS
    <3>1. \A j \in JobId : jobs[j].state = "none" /\ jobs[j].pc = "start"
      BY DEF Init, NoJob
    <3>2. \A b \in Batch : <<b, "process">> \in JobId /\ <<b, "resume">> \in JobId
      BY DEF JobId, Kind
    <3> QED BY <3>1, <3>2
        DEF Init, AskedOnce, AtRest, Asked, Unasked, Running, Checks, At
  <2> QED BY <2>1, <2>2, InitReferences, InitWhole
<1>2. Inv /\ [Next]_vars => Inv'
  <2> SUFFICES ASSUME Inv, [Next]_vars PROVE AskedOnce'
    BY NextType, StepReferences, NextOwners, NextWhole
  <2>1. CASE Next
    BY <2>1, JobMoves, NextAtRest, NextAsked DEF AskedOnce
  <2>2. CASE UNCHANGED vars
    BY <2>2 DEF vars, ledgerVars, AskedOnce, AtRest, Asked, Unasked, Running, At,
                StoredOf, Stored, RowsOf
  <2> QED BY <2>1, <2>2
<1>3. Inv => WaitingMeansUnposted
  BY DEF AskedOnce, Asked, WaitingMeansUnposted
<1> QED BY <1>1, <1>2, <1>3, PTL DEF Spec
-----------------------------------------------------------------------------
(* An upload that is not settled is in somebody's hands, where neither the API nor the *)
(* database fails and no job stalls more often than is forgiven.                       *)

\* The steps of a job that still have to settle the batch.
Settling == JobPc \ {"refresh", "return", "rethrow"}
\* The steps of a rollback that has taken the process job off the queue.
Undoing == {"dequeueResume", "recheck", "commit"}

JobOf(b, kind) == jobs[<<b, kind>>]

\* Who has a batch in progress; a process job goes back to the queue by a crash only.
Taken(b) ==
    \/ JobOf(b, "process").state = "active" /\ JobOf(b, "process").pc \in Settling
    \/ JobOf(b, "process").state = "waiting" /\ "worker" \in Faults
    \/ JobOf(b, "resume").state \in {"waiting", "active"} /\ JobOf(b, "resume").pc \in Settling
    \/ \E q \in About(b) : requests[q].pc = "enqueue"

\* Nobody has begun with a queued batch, and it is on its way to a worker or out.
Untaken(b) ==
    /\ JobOf(b, "process").pc = "start" /\ JobOf(b, "resume").state = "none"
    /\ StoredOf(b) = {}
    /\ \/ b \in uploading \/ JobOf(b, "process").state \in {"waiting", "active"}
       \/ \E q \in About(b) : requests[q].pc \in Undoing

Unknown(b) ==
    /\ JobOf(b, "process").state = "none" /\ JobOf(b, "resume").state = "none"
    /\ b \notin uploading /\ About(b) = {} /\ StoredOf(b) = {}

Held(b) ==
    /\ batches[b].status = "absent" => Unknown(b)
    /\ batches[b].status = "QUEUED" => Untaken(b)
    /\ batches[b].status \in Busy => Taken(b) \/ Contended(b)
    /\ b \in uploading => JobOf(b, "process").state = "none"
    /\ JobOf(b, "resume").state # "none" =>
          \E q \in About(b) : requests[q].op = "approve" /\ requests[q].pc = "ok"
    /\ batches[b].status = "QUEUED" =>
          \A q \in About(b) : requests[q].pc \notin {"decide", "enqueue", "dequeue", "purge"}

\* What a request does is what it was asked for.
OpsFit == \A q \in Request :
    /\ requests[q].pc = "enqueue" => requests[q].op = "approve"
    /\ requests[q].pc \in {"mark", "dequeue", "purge"} => requests[q].op = "cancel"
    /\ requests[q].pc \in {"dequeueProcess"} \union Undoing => requests[q].op = "rollback"

Reliable == Faults \intersect {"api", "db"} = {} /\ CrashLimit <= MaxStalled
HandsInv == TypeInv /\ AtRest /\ OpsFit /\ \A b \in Batch : Held(b)

LEMMA TwoJobs ==
    ASSUME NEW b \in Batch
    PROVE  /\ <<b, "process">> \in JobId /\ <<b, "resume">> \in JobId
           /\ \A j \in JobId : j[1] = b => j \in {<<b, "process">>, <<b, "resume">>}
BY DEF JobId, Kind

LEMMA Values ==
    /\ Busy = {"PARSING", "VALIDATING", "PROCESSING"} /\ Gone = {"absent", "deleted"}
    /\ Settling = {"start", "parse", "validate", "saveInvalid", "rejectRows", "rejectGroups",
                   "detect", "pause", "create", "save", "final", "error"}
    /\ Undoing = {"dequeueResume", "recheck", "commit"}
    /\ NoJob.state = "none" /\ NoJob.pc = "start"
    /\ NewJob.state = "waiting" /\ NewJob.pc = "start"
BY DEF Busy, Gone, Settling, JobPc, Undoing, NoJob, NewJob

\* Who contends for a batch goes on doing so.
LEMMA ContentionStays ==
    ASSUME NEW b, Contended(b),
           \A q \in About(b) : q \in About(b)' /\ requests'[q].op = requests[q].op
    PROVE  Contended(b)'
BY DEF Contended

\* A step that leaves a batch, its jobs and its rows alone leaves it in hand.
LEMMA HeldElsewhere ==
    ASSUME NEW b \in Batch, Held(b), batches'[b].status = batches[b].status,
           JobOf(b, "process")' = JobOf(b, "process"), JobOf(b, "resume")' = JobOf(b, "resume"),
           StoredOf(b)' = StoredOf(b), b \in uploading' <=> b \in uploading,
           About(b)' = About(b), \A q \in About(b) : requests'[q] = requests[q]
    PROVE  Held(b)'
<1>1. Contended(b) => Contended(b)'
  BY ContentionStays
<1> QED BY <1>1 DEF Held, Taken, Untaken, Unknown
-----------------------------------------------------------------------------
\* How a worker's step moves its job, where the database answers and crashes are forgiven:
\* it takes the job, lets it go, dies, or goes on, and as long as the batch is in progress
\* it does not go past the steps that settle it.
Runs(j) ==
    /\ jobs[j].state = "active" /\ jobs'[j].state = "active"
    /\ batches'[j[1]].status = "absent" => batches[j[1]].status = "absent"
    /\ batches'[j[1]].status = "QUEUED" =>
          batches[j[1]].status = "QUEUED" /\ ~(jobs[j].pc = "start" /\ j[2] = "process")
    /\ batches'[j[1]].status \in Busy =>
          \/ jobs'[j].pc \in Settling
          \/ jobs[j].pc = "refresh" /\ batches'[j[1]].status = batches[j[1]].status

JobGoes(j) ==
    \/ /\ jobs[j].state = "waiting" /\ jobs'[j].state = "active" /\ jobs'[j].pc = jobs[j].pc
       /\ UNCHANGED <<batches, txns>>
    \/ /\ jobs[j].state = "active" /\ jobs[j].pc \in {"return", "rethrow"}
       /\ jobs'[j].state # "active" /\ jobs'[j].pc = "start" /\ UNCHANGED <<batches, txns>>
    \/ /\ "worker" \in Faults /\ jobs[j].state = "active"
       /\ jobs'[j].state = "waiting" /\ jobs'[j].pc = "start" /\ UNCHANGED <<batches, txns>>
    \/ Runs(j)

LEMMA WorkerGoes ==
    ASSUME TypeInv, Reliable, NEW j \in JobId, WorkerStep(j) \/ WorkerCrash(j)
    PROVE  JobGoes(j)
<1> USE StatusValues, Values, JobParts
<1>0. /\ jobs \in [JobId -> Job] /\ batches \in [Batch -> BatchRow] /\ j[1] \in Batch
      /\ jobs[j] \in Job
  BY DEF TypeInv, TypeOK
<1>1. ASSUME NEW pc, Goto(j, pc)
      PROVE  jobs'[j].state = jobs[j].state /\ jobs'[j].pc = pc
  BY <1>0, <1>1 DEF Goto, Job
<1>2. ASSUME NEW pc \in Settling, Goto(j, pc), UNCHANGED batches, jobs[j].state = "active",
             ~(jobs[j].pc = "start" /\ j[2] = "process")
      PROVE  Runs(j)
  BY <1>1, <1>2 DEF Runs
<1>3. ASSUME NEW status \in Status \ {"absent", "QUEUED"},
             batches' = [batches EXCEPT ![j[1]].status = status], NEW pc, Goto(j, pc),
             status \in Busy => pc \in Settling, jobs[j].state = "active"
      PROVE  Runs(j)
  <2>1. batches'[j[1]].status = status
    BY <1>0, <1>3 DEF BatchRow
  <2> QED BY <1>1, <1>3, <2>1 DEF Runs
<1>4. ASSUME ~Live(j[1]), UNCHANGED batches, NEW pc, Goto(j, pc), jobs[j].state = "active"
      PROVE  Runs(j)
  BY <1>1, <1>4 DEF Runs, Live
<1>5. ASSUME NEW status \in Status \ {"absent", "QUEUED"}, NEW pc, UpdateBatch(j, status, pc),
             status \in Busy => pc \in Settling, jobs[j].state = "active"
      PROVE  Runs(j)
  BY <1>3, <1>4, <1>5 DEF UpdateBatch
<1>6. CASE TakeJob(j)
  BY <1>0, <1>6 DEF TakeJob, JobGoes, Job, ledgerVars
<1>7. CASE CompleteJob(j)
  <2>1. Release(j, "completed").state = "completed" /\ Release(j, "completed").pc = "start"
    BY <1>0 DEF Release, Job
  <2>2. jobs'[j] \in {NoJob, Release(j, "completed")}
    BY <1>0, <1>7 DEF CompleteJob
  <2>3. jobs'[j].state # "active" /\ jobs'[j].pc = "start"
    BY <2>1, <2>2
  <2> QED BY <1>7, <2>3 DEF CompleteJob, JobGoes, At, ledgerVars
<1>8. CASE FailAttempt(j)
  <2> DEFINE state == IF jobs[j].attempts + 1 < MaxAttempts THEN "waiting" ELSE "failed"
             left == [Release(j, state) EXCEPT !.attempts = jobs[j].attempts + 1]
  <2>1. jobs'[j] = left
    BY <1>0, <1>8 DEF FailAttempt
  <2>2. left.pc = "start" /\ left.state \in {"waiting", "failed"}
    BY <1>0 DEF Release, Job
  <2> HIDE DEF left
  <2> QED BY <1>8, <2>1, <2>2 DEF FailAttempt, JobGoes, At, ledgerVars
<1>9. CASE WorkerCrash(j)
  <2> DEFINE left == [Release(j, "waiting") EXCEPT !.stalls = @ + 1]
  <2>1. jobs[j].stalls < MaxStalled
    BY <1>0, <1>9, BoundAssumption DEF WorkerCrash, Reliable, Job
  <2>2. jobs'[j] = left
    BY <1>0, <1>9, <2>1 DEF WorkerCrash
  <2>3. left.pc = "start" /\ left.state = "waiting"
    BY <1>0 DEF Release, Job
  <2> HIDE DEF left
  <2> QED BY <1>9, <2>2, <2>3 DEF WorkerCrash, JobGoes, ledgerVars
<1>10. CASE StartProcess(j) \/ ParseFile(j) \/ ValidateFile(j) \/ RejectRows(j)
  <2>1. AfterValidation(j[1]) \in Settling
    BY DEF AfterValidation
  <2>2. CASE StartProcess(j)
    BY <1>5, <2>2 DEF StartProcess, At, JobGoes
  <2>3. CASE ParseFile(j)
    BY <1>2, <1>5, <2>3 DEF ParseFile, At, JobGoes
  <2>4. CASE ValidateFile(j)
    BY <1>5, <2>1, <2>4 DEF ValidateFile, At, JobGoes
  <2>5. CASE RejectRows(j)
    BY <1>5, <2>5 DEF RejectRows, At, JobGoes
  <2> QED BY <1>10, <2>2, <2>3, <2>4, <2>5
<1>11. CASE SaveInvalid(j) \/ SaveTransactions(j)
  BY <1>2, <1>11 DEF SaveInvalid, SaveTransactions, At, JobGoes
<1>12. CASE RejectGroups(j) \/ RecordError(j)
  BY <1>3, <1>4, <1>12 DEF RejectGroups, RecordError, At, JobGoes
<1>13. CASE DetectEntities(j)
  <2>1. jobs'[j].state = "active" /\ jobs'[j].pc \in Settling /\ jobs[j].pc = "detect"
    BY <1>0, <1>13 DEF DetectEntities, At, Job
  <2> QED BY <1>13, <2>1 DEF DetectEntities, At, JobGoes, Runs
<1>14. CASE Pause(j)
  <2>1. CASE Live(j[1])
    <3>1. batches'[j[1]].status = "WAITING_FOR_APPROVAL"
      BY <1>0, <1>14, <2>1 DEF Pause
    <3> QED BY <1>1, <1>14, <2>1, <3>1 DEF Pause, At, JobGoes, Runs
  <2>2. CASE ~Live(j[1])
    BY <1>4, <1>14, <2>2 DEF Pause, At, JobGoes
  <2> QED BY <2>1, <2>2
<1>15. CASE StartResume(j)
  <2>1. j[2] # "process" /\ jobs'[j].state = "active" /\ jobs'[j].pc \in Settling
    BY <1>0, <1>1, <1>15 DEF StartResume, At, AfterCreate, Job
  <2> QED BY <1>15, <2>1 DEF StartResume, At, JobGoes, Runs
<1>16. CASE Creation(j)
  <2>1. ASSUME NEW left, Created(j, left), At(j, "create"), UNCHANGED batches
        PROVE  JobGoes(j)
    <3>1. jobs'[j].state = "active" /\ jobs'[j].pc \in Settling /\ jobs[j].pc = "create"
      BY <1>0, <2>1 DEF Created, AfterCreate, At, Job
    <3> QED BY <2>1, <3>1 DEF JobGoes, At, Runs
  <2> QED BY <1>16, <2>1 DEF Creation, CreateClient, CreateAccount, CreateGoal
<1>17. CASE MarkCompleted(j)
  BY <1>5, <1>17 DEF MarkCompleted, At, JobGoes
<1>18. CASE RefreshViews(j)
  BY <1>1, <1>18 DEF RefreshViews, At, JobGoes, Runs
<1> QED BY <1>6, <1>7, <1>8, <1>9, <1>10, <1>11, <1>12, <1>13, <1>14, <1>15, <1>16, <1>17,
           <1>18 DEF WorkerStep, Creation

\* A worker stores rows of its own file only.
LEMMA OwnRows ==
    ASSUME TypeInv, NEW j \in JobId, WorkerStep(j) \/ WorkerCrash(j)
    PROVE  UNCHANGED uploading /\ \A d \in Batch \ {j[1]} : StoredOf(d)' = StoredOf(d)
<1>1. UNCHANGED uploading
  BY DEF WorkerStep, TakeJob, CompleteJob, FailAttempt, WorkerCrash, DetectEntities, StartResume,
     RefreshViews, SaveInvalid, StartProcess, ParseFile, ValidateFile, RejectRows,
     MarkCompleted, RejectGroups, RecordError, Pause, SaveTransactions, CreateClient,
     CreateAccount, CreateGoal
<1>2. UNCHANGED txns => \A d \in Batch : StoredOf(d)' = StoredOf(d)
  BY DEF StoredOf, Stored, RowsOf
<1>3. ASSUME NEW new \in Insertable(j[1]), NEW resolve \in [ClientsOf(j[1]) -> Copy],
             Saving(j[1], new, resolve)
      PROVE  \A d \in Batch \ {j[1]} : StoredOf(d)' = StoredOf(d)
  <2>1. new \subseteq RowsOf(j[1]) /\ Stored' = Stored \union new
    BY <1>3, SavingAdds, JobParts DEF TypeInv
  <2> QED BY <2>1 DEF StoredOf, RowsOf
<1> QED BY <1>1, <1>2, <1>3, WorkerCases, CreationKeepsRows DEF TablesKept

LEMMA WorkerHolds ==
    ASSUME HandsInv, Reliable, NEW j \in JobId, WorkerStep(j) \/ WorkerCrash(j)
    PROVE  AtRest' /\ \A b \in Batch : Held(b)'
<1> USE Values, StatusValues
<1>0. /\ JobGoes(j) /\ j[1] \in Batch /\ AtRest /\ UNCHANGED <<requests, uploading>>
      /\ \A i \in JobId \ {j} : jobs'[i] = jobs[i]
  BY WorkerGoes, WorkerScope, OwnRows, JobParts DEF HandsInv
<1>1. AtRest'
  BY <1>0 DEF AtRest, JobGoes, Runs
<1>2. ASSUME NEW b \in Batch \ {j[1]}
      PROVE  Held(b)'
  <2>1. batches'[b] = batches[b] /\ StoredOf(b)' = StoredOf(b) /\ Held(b)
    BY WorkerScope, OwnRows DEF HandsInv
  <2>2. JobOf(b, "process")' = JobOf(b, "process") /\ JobOf(b, "resume")' = JobOf(b, "resume")
    BY <1>0, TwoJobs DEF JobOf
  <2>3. About(b)' = About(b)
    BY <1>0 DEF About, RequestAt
  <2> QED BY <1>0, <2>1, <2>2, <2>3, HeldElsewhere
<1>3. ASSUME NEW b \in Batch, j[1] = b
      PROVE  Held(b)'
  <2> DEFINE status == batches[b].status
  <2>0. /\ Held(b) /\ About(b)' = About(b) /\ UNCHANGED <<requests, uploading>>
        /\ Contended(b) => Contended(b)'
    BY <1>0 DEF HandsInv, About, RequestAt, Contended
  <2>1. \/ j = <<b, "process">> /\ JobOf(b, "resume")' = JobOf(b, "resume")
        \/ j = <<b, "resume">> /\ JobOf(b, "process")' = JobOf(b, "process")
    BY <1>0, <1>3, TwoJobs DEF JobOf
  <2>2. jobs[j].state \in {"waiting", "active"}
    BY <1>0 DEF JobGoes, Runs
  <2>3. status # "absent"
    BY <2>0, <2>1, <2>2 DEF Held, Unknown, JobOf
  <2>4. status = "QUEUED" => j = <<b, "process">> /\ jobs[j].pc = "start"
    BY <2>0, <2>1, <2>2 DEF Held, Untaken, JobOf
  <2>5. batches'[b].status # "absent"
    BY <1>0, <1>3, <2>3 DEF JobGoes, Runs
  <2>6. b \in uploading' => JobOf(b, "process")'.state = "none"
    BY <2>0, <2>1, <2>2 DEF Held, JobOf
  <2>7. JobOf(b, "resume")'.state # "none" =>
           \E q \in About(b)' : requests'[q].op = "approve" /\ requests'[q].pc = "ok"
    BY <2>0, <2>1, <2>2 DEF Held, JobOf
  <2>8. ASSUME batches'[b].status = "QUEUED"
        PROVE  Untaken(b)' /\ status = "QUEUED"
    <3>1. status = "QUEUED" /\ j = <<b, "process">> /\ ~Runs(j)
      BY <1>0, <1>3, <2>4, <2>8 DEF JobGoes, Runs
    <3>2. UNCHANGED txns /\ jobs'[j].state \in {"waiting", "active"} /\ jobs'[j].pc = "start"
      BY <1>0, <2>4, <3>1 DEF JobGoes
    <3>3. StoredOf(b)' = StoredOf(b)
      BY <3>2 DEF StoredOf, Stored, RowsOf
    <3> QED BY <2>0, <2>1, <3>1, <3>2, <3>3 DEF Held, Untaken, JobOf
  <2>9. ASSUME batches'[b].status \in Busy, ~Contended(b)'
        PROVE  Taken(b)'
    <3>1. CASE Runs(j)
      <4>1. CASE jobs'[j].pc \in Settling
        BY <2>1, <3>1, <4>1 DEF Runs, Taken, JobOf
      <4>2. CASE jobs[j].pc = "refresh" /\ batches'[b].status = status
        <5>1. Taken(b)
          BY <2>0, <2>9, <4>2 DEF Held
        <5>2. jobs[j].pc \notin Settling /\ jobs[j].state = "active"
          BY <3>1, <4>2 DEF Runs
        <5> QED BY <2>0, <2>1, <5>1, <5>2 DEF Taken, JobOf
      <4> QED BY <1>3, <2>9, <3>1, <4>1, <4>2 DEF Runs
    <3>2. CASE ~Runs(j)
      <4>1. Taken(b) /\ status = batches'[b].status
        BY <1>0, <2>0, <2>9, <3>2 DEF Held, JobGoes
      <4>2. jobs[j].state = "waiting" => jobs[j].pc = "start"
        BY <1>0 DEF AtRest
      <4> QED BY <1>0, <2>0, <2>1, <3>2, <4>1, <4>2 DEF JobGoes, Taken, JobOf
    <3> QED BY <3>1, <3>2
  <2> HIDE DEF status
  <2> QED BY <2>0, <2>5, <2>6, <2>7, <2>8, <2>9 DEF Held, status
<1> QED BY <1>1, <1>2, <1>3
-----------------------------------------------------------------------------
\* A request goes on with its batch.
Moves(q, pc) ==
    /\ \A p \in Request \ {q} : requests'[p] = requests[p]
    /\ requests'[q].pc = pc /\ requests'[q].op = requests[q].op
    /\ requests'[q].batch = requests[q].batch

LEMMA RequestMoves ==
    ASSUME TypeInv, NEW q \in Request, requests[q].pc # "idle", NEW pc, pc # "idle", Proceed(q, pc)
    PROVE  /\ Moves(q, pc) /\ requests[q].batch \in Batch /\ q \in About(requests[q].batch)
           /\ \A b \in Batch : /\ About(b)' = About(b)
                               /\ Contended(b) => Contended(b)'
<1>1. Moves(q, pc)
  BY DEF Proceed, Moves, TypeInv, TypeOK, RequestRow
<1>2. requests[q].batch \in Batch
  BY DEF TypeInv, Addressed
<1>3. \A b \in Batch : About(b)' = About(b)
  BY <1>1 DEF Moves, About, RequestAt
<1>4. \A p \in Request : requests'[p].op = requests[p].op
  BY <1>1 DEF Moves
<1>5. \A b \in Batch : \A p \in About(b) : p \in About(b)' /\ requests'[p].op = requests[p].op
  BY <1>3, <1>4 DEF About
<1>6. \A b \in Batch : Contended(b) => Contended(b)'
  BY <1>5, ContentionStays
<1> QED BY <1>1, <1>2, <1>3, <1>6 DEF About, RequestAt

\* The other batches are where they were.
LEMMA OthersHeld ==
    ASSUME HandsInv, NEW q \in Request, requests[q].pc # "idle", NEW pc, pc # "idle",
           Proceed(q, pc), UNCHANGED uploading,
           \A d \in Batch \ {requests[q].batch} :
              /\ batches'[d].status = batches[d].status /\ StoredOf(d)' = StoredOf(d)
              /\ JobOf(d, "process")' = JobOf(d, "process")
              /\ JobOf(d, "resume")' = JobOf(d, "resume")
    PROVE  \A d \in Batch \ {requests[q].batch} : Held(d)'
<1> SUFFICES ASSUME NEW d \in Batch \ {requests[q].batch} PROVE Held(d)'
  OBVIOUS
<1>1. /\ Moves(q, pc) /\ About(d)' = About(d)
  BY RequestMoves DEF HandsInv
<1>2. \A p \in About(d) : requests'[p] = requests[p]
  BY <1>1 DEF Moves, About
<1> QED BY <1>1, <1>2, HeldElsewhere DEF HandsInv

\* Steps of a request that leave the jobs and the rows alone.
LEMMA JobsKept ==
    ASSUME UNCHANGED jobs, UNCHANGED txns, NEW b
    PROVE  /\ JobOf(b, "process")' = JobOf(b, "process") /\ JobOf(b, "resume")' = JobOf(b, "resume")
           /\ StoredOf(b)' = StoredOf(b)
BY DEF JobOf, StoredOf, Stored, RowsOf

\* A decision sets the batch in progress only to queue its resume job next.
LEMMA DecideHolds ==
    ASSUME HandsInv, NEW q \in Request, NEW b \in Batch, requests[q].batch = b, Decide(q)
    PROVE  \A d \in Batch : Held(d)'
<1> USE Values, StatusValues
<1>0. batches \in [Batch -> BatchRow] /\ TypeInv
  BY DEF HandsInv, TypeInv, TypeOK
<1>1. PICK pc \in {"enqueue", "ok", "failed"} : Proceed(q, pc)
  BY DEF Decide
<1>2. requests[q].pc = "decide" /\ UNCHANGED <<jobs, txns, uploading>>
  BY DEF Decide, RequestAt, ledgerVars
<1>3. /\ Moves(q, pc) /\ b \in Batch /\ q \in About(b)
      /\ About(b)' = About(b) /\ (Contended(b) => Contended(b)')
  BY <1>0, <1>1, <1>2, RequestMoves
<1>4. Held(b)
  BY <1>3 DEF HandsInv
<1>5. batches[b].status \notin {"absent", "QUEUED"}
  BY <1>2, <1>3, <1>4 DEF Held, Unknown
<1>6. \/ batches'[b].status = "PROCESSING" /\ pc = "enqueue"
      \/ batches'[b].status \in {"FAILED", "deleted"}
  <2>1. CASE Live(b)
    <3>1. CASE requests[q].op = "approve"
      <4>1. Proceed(q, "enqueue") /\ batches'[b].status = "PROCESSING"
        BY <1>0, <1>3, <2>1, <3>1 DEF Decide, BatchRow
      <4>2. pc = "enqueue"
        BY <1>0, <1>1, <1>2, <4>1 DEF Proceed, TypeInv, TypeOK, RequestRow
      <4> QED BY <4>1, <4>2
    <3>2. CASE requests[q].op # "approve"
      BY <1>0, <1>3, <2>1, <3>2 DEF Decide, BatchRow
    <3> QED BY <3>1, <3>2
  <2>2. CASE ~Live(b)
    <3>1. batches' = batches
      BY <2>2 DEF Decide
    <3> QED BY <1>5, <2>2, <3>1 DEF Live
  <2> QED BY <2>1, <2>2
<1>7. JobOf(b, "resume")' = JobOf(b, "resume") /\ JobOf(b, "process")' = JobOf(b, "process")
  BY <1>2, JobsKept
<1>8. Held(b)'
  <2>1. \A p \in About(b) : requests[p].pc = "ok" => requests'[p] = requests[p]
    BY <1>2, <1>3 DEF Moves, About
  <2>2. batches'[b].status \in Busy => Taken(b)'
    BY <1>3, <1>6 DEF Taken, Moves
  <2> QED BY <1>2, <1>3, <1>4, <1>6, <1>7, <2>1, <2>2 DEF Held
<1>9. \A d \in Batch \ {b} : Held(d)'
  <2>1. \A d \in Batch \ {b} : batches'[d].status = batches[d].status
    BY <1>0 DEF Decide
  <2> QED BY <1>1, <1>2, <2>1, JobsKept, OthersHeld
<1> QED BY <1>8, <1>9

\* The resume job is queued, or was before: then for another approval.
LEMMA EnqueueHolds ==
    ASSUME HandsInv, NEW q \in Request, NEW b \in Batch, requests[q].batch = b, EnqueueResume(q)
    PROVE  \A d \in Batch : Held(d)'
<1> USE Values, StatusValues
<1>0. TypeInv /\ jobs \in [JobId -> Job] /\ Proceed(q, "ok")
  BY DEF HandsInv, TypeInv, TypeOK, EnqueueResume
<1>2. requests[q].pc = "enqueue" /\ UNCHANGED <<batches, txns, uploading>>
  BY DEF EnqueueResume, RequestAt, ledgerVars
<1>3. /\ Moves(q, "ok") /\ b \in Batch /\ q \in About(b)
      /\ About(b)' = About(b) /\ (Contended(b) => Contended(b)')
  BY <1>0, <1>2, RequestMoves
<1>4. Held(b) /\ requests[q].op = "approve"
  BY <1>2, <1>3 DEF HandsInv, OpsFit
<1>5. batches[b].status \notin {"absent", "QUEUED"}
  BY <1>2, <1>3, <1>4 DEF Held, Unknown
<1>6. /\ JobOf(b, "process")' = JobOf(b, "process")
      /\ \/ JobOf(b, "resume").state = "none" /\ JobOf(b, "resume")' = NewJob
         \/ JobOf(b, "resume").state # "none" /\ JobOf(b, "resume")' = JobOf(b, "resume")
      /\ \A d \in Batch \ {b} : /\ JobOf(d, "process")' = JobOf(d, "process")
                                /\ JobOf(d, "resume")' = JobOf(d, "resume")
  <2>1. IF jobs[<<b, "resume">>].state = "none" THEN jobs' = [jobs EXCEPT ![<<b, "resume">>] = NewJob]
                                                ELSE UNCHANGED jobs
    BY DEF EnqueueResume
  <2> QED BY <1>0, <1>3, <2>1, TwoJobs DEF JobOf
<1>7. JobOf(b, "resume").state # "none" => Contended(b)
  <2> SUFFICES ASSUME JobOf(b, "resume").state # "none" PROVE Contended(b)
    OBVIOUS
  <2>1. PICK p \in About(b) : requests[p].op = "approve" /\ requests[p].pc = "ok"
    BY <1>4 DEF Held
  <2>2. p # q
    BY <1>2, <2>1
  <2> QED BY <1>3, <1>4, <2>1, <2>2 DEF Contended
<1>8. Held(b)'
  <2>1. Taken(b)' \/ Contended(b)'
    BY <1>3, <1>6, <1>7 DEF Taken
  <2>2. requests'[q].op = "approve" /\ requests'[q].pc = "ok" /\ q \in About(b)'
    BY <1>3, <1>4 DEF Moves
  <2> QED BY <1>2, <1>4, <1>5, <1>6, <2>1, <2>2 DEF Held
<1>9. \A d \in Batch \ {b} : Held(d)'
  <2>1. \A d \in Batch : StoredOf(d)' = StoredOf(d)
    BY <1>2 DEF StoredOf, Stored, RowsOf
  <2> QED BY <1>0, <1>2, <1>6, <2>1, OthersHeld
<1> QED BY <1>8, <1>9

\* A cancel settles the batch before it takes the job and the rows.
LEMMA PurgeHolds ==
    ASSUME HandsInv, NEW q \in Request, NEW b \in Batch, requests[q].batch = b,
           MarkCanceled(q) \/ PurgeCanceled(q)
    PROVE  \A d \in Batch : Held(d)'
<1> USE Values, StatusValues
<1>0. batches \in [Batch -> BatchRow] /\ TypeInv
  BY DEF HandsInv, TypeInv, TypeOK
<1>1. PICK pc \in {"dequeue", "ok", "failed"} : Proceed(q, pc)
  BY DEF MarkCanceled, PurgeCanceled
<1>2. requests[q].pc \in {"mark", "purge"} /\ UNCHANGED <<jobs, uploading>>
  BY DEF MarkCanceled, PurgeCanceled, RequestAt
<1>3. /\ Moves(q, pc) /\ q \in About(b)
      /\ About(b)' = About(b) /\ (Contended(b) => Contended(b)')
  BY <1>0, <1>1, <1>2, RequestMoves
<1>4. Held(b)
  BY DEF HandsInv
<1>5. batches[b].status # "absent" /\ batches'[b].status \notin {"absent", "QUEUED"}
  <2>1. batches[b].status # "absent"
    BY <1>3, <1>4 DEF Held, Unknown
  <2>2. CASE MarkCanceled(q) /\ Live(b)
    <3>1. batches'[b].status = "CANCELED"
      BY <1>0, <2>2 DEF MarkCanceled, BatchRow
    <3> QED BY <2>1, <3>1
  <2>3. CASE MarkCanceled(q) /\ ~Live(b)
    BY <2>1, <2>3 DEF MarkCanceled, Live
  <2>4. CASE PurgeCanceled(q)
    <3>1. batches' = batches /\ requests[q].pc = "purge"
      BY <2>4 DEF PurgeCanceled, RequestAt
    <3> QED BY <1>3, <1>4, <2>1, <3>1 DEF Held
  <2> QED BY <2>1, <2>2, <2>3, <2>4
<1>6. batches'[b].status \in Busy => batches[b].status = batches'[b].status
  <2>1. CASE MarkCanceled(q) /\ Live(b)
    BY <1>0, <2>1 DEF MarkCanceled, BatchRow
  <2>2. CASE MarkCanceled(q) /\ ~Live(b)
    BY <2>2 DEF MarkCanceled
  <2>3. CASE PurgeCanceled(q)
    BY <2>3 DEF PurgeCanceled
  <2> QED BY <2>1, <2>2, <2>3
<1>7. \A d \in Batch : /\ JobOf(d, "process")' = JobOf(d, "process")
                       /\ JobOf(d, "resume")' = JobOf(d, "resume")
  BY <1>2 DEF JobOf
<1>8. Held(b)'
  <2>1. \A p \in About(b) : requests[p].pc \in {"ok", "enqueue"} => requests'[p] = requests[p]
    BY <1>2, <1>3 DEF Moves, About
  <2>2. Taken(b) => Taken(b)'
    BY <1>3, <1>7, <2>1 DEF Taken
  <2> QED BY <1>2, <1>3, <1>4, <1>5, <1>6, <1>7, <2>1, <2>2 DEF Held
<1>9. \A d \in Batch \ {b} : Held(d)'
  <2>1. \A d \in Batch \ {b} : batches'[d].status = batches[d].status
    BY <1>0 DEF MarkCanceled, PurgeCanceled
  <2>2. \A d \in Batch \ {b} : StoredOf(d)' = StoredOf(d)
    <3>1. UNCHANGED txns \/ txns' = [r \in Row |-> IF BatchOf[r] = b THEN NULL ELSE txns[r]]
      BY DEF MarkCanceled, PurgeCanceled, ledgerVars
    <3>2. Stored' = Stored \/ Stored' = Stored \ RowsOf(b)
      BY <3>1, RowsLeave DEF Stored
    <3> QED BY <3>2 DEF StoredOf, RowsOf
  <2> QED BY <1>1, <1>2, <1>7, <2>1, <2>2, OthersHeld
<1> QED BY <1>8, <1>9

\* A job is removed from the queue, unless a worker holds it: then the request ends.
LEMMA DequeueMoves ==
    ASSUME TypeInv, NEW q \in Request, NEW b \in Batch, requests[q].batch = b,
           NEW kind \in Kind, NEW next, Dequeue(q, kind, next)
    PROVE  /\ UNCHANGED <<batches, txns, uploading>>
           /\ \A d \in Batch : StoredOf(d)' = StoredOf(d)
           /\ \A d \in Batch \ {b} : /\ JobOf(d, "process")' = JobOf(d, "process")
                                     /\ JobOf(d, "resume")' = JobOf(d, "resume")
           /\ \A other \in Kind \ {kind} : JobOf(b, other)' = JobOf(b, other)
           /\ \/ /\ JobOf(b, kind).state = "active" /\ JobOf(b, kind)' = JobOf(b, kind)
                 /\ Proceed(q, "failed")
              \/ /\ JobOf(b, kind).state # "active" /\ JobOf(b, kind)' = NoJob
                 /\ Proceed(q, next)
<1>1. UNCHANGED <<batches, txns, uploading>>
  BY DEF Dequeue, ledgerVars
<1>2. \A d \in Batch : StoredOf(d)' = StoredOf(d)
  BY <1>1 DEF StoredOf, Stored, RowsOf
<1>3. jobs \in [JobId -> Job] /\ <<b, kind>> \in JobId
  BY DEF TypeInv, TypeOK, JobId
<1>4. IF jobs[<<b, kind>>].state = "active"
      THEN UNCHANGED jobs /\ Proceed(q, "failed")
      ELSE jobs' = [jobs EXCEPT ![<<b, kind>>] = NoJob] /\ Proceed(q, next)
  BY DEF Dequeue
<1>5. \A d \in Batch, other \in Kind : <<d, other>> \in JobId
  BY DEF JobId
<1>6. \A d \in Batch, other \in Kind :
         d # b \/ other # kind => jobs'[<<d, other>>] = jobs[<<d, other>>]
  BY <1>3, <1>4, <1>5
<1> QED BY <1>1, <1>2, <1>3, <1>4, <1>6 DEF JobOf, Kind

\* A cancel or a rollback that removes the process job of a batch in progress has found it
\* back in the queue after a crash; a queued batch stays with the rollback.
LEMMA DequeueProcessHolds ==
    ASSUME HandsInv, NEW q \in Request, NEW b \in Batch, requests[q].batch = b,
           DequeueCanceled(q) \/ DequeueProcess(q)
    PROVE  \A d \in Batch : Held(d)'
<1> USE Values, StatusValues
<1>0. TypeInv /\ "process" \in Kind /\ "resume" \in Kind
  BY DEF HandsInv, Kind
<1>1. \/ requests[q].pc = "dequeue" /\ Dequeue(q, "process", "purge")
      \/ requests[q].pc = "dequeueProcess" /\ Dequeue(q, "process", "dequeueResume")
  BY DEF DequeueCanceled, DequeueProcess, RequestAt
<1>2. /\ UNCHANGED <<batches, uploading>> /\ StoredOf(b)' = StoredOf(b)
      /\ JobOf(b, "resume")' = JobOf(b, "resume")
  BY <1>0, <1>1, DequeueMoves
<1>3. PICK pc \in {"purge", "dequeueResume", "failed"} :
         /\ Proceed(q, pc) /\ (requests[q].pc = "dequeueProcess" => pc # "purge")
         /\ \/ JobOf(b, "process").state = "active" /\ JobOf(b, "process")' = JobOf(b, "process")
            \/ /\ JobOf(b, "process").state # "active" /\ JobOf(b, "process")' = NoJob
               /\ requests[q].pc = "dequeueProcess" => pc = "dequeueResume"
  BY <1>0, <1>1, DequeueMoves
<1>4. /\ Moves(q, pc) /\ q \in About(b)
      /\ About(b)' = About(b) /\ (Contended(b) => Contended(b)')
  BY <1>0, <1>1, <1>3, RequestMoves
<1>5. Held(b) /\ requests[q].op \in {"cancel", "rollback"}
  BY <1>1 DEF HandsInv, OpsFit
<1>6. batches[b].status # "absent"
  BY <1>4, <1>5 DEF Held, Unknown
<1>7. ASSUME batches[b].status = "QUEUED"
      PROVE  Untaken(b)'
  <2>1. Untaken(b) /\ requests[q].pc = "dequeueProcess"
    BY <1>1, <1>4, <1>5, <1>7 DEF Held
  <2>2. \A p \in About(b) : requests[p].pc \in Undoing => requests'[p] = requests[p]
    BY <1>4, <2>1 DEF Moves, About
  <2>3. CASE JobOf(b, "process").state = "active" /\ JobOf(b, "process")' = JobOf(b, "process")
    BY <1>2, <1>4, <2>1, <2>2, <2>3 DEF Untaken
  <2>4. CASE JobOf(b, "process")' = NoJob /\ pc = "dequeueResume"
    BY <1>2, <1>4, <2>1, <2>4 DEF Untaken, Moves
  <2> QED BY <1>3, <2>1, <2>3, <2>4
<1>8. ASSUME batches[b].status \in Busy, ~Contended(b)
      PROVE  Taken(b)'
  <2>1. Taken(b)
    BY <1>5, <1>8 DEF Held
  <2>2. \A p \in About(b) : requests[p].pc = "enqueue" => requests'[p] = requests[p]
    BY <1>1, <1>4 DEF Moves, About
  <2>3. "worker" \notin Faults
    BY <1>4, <1>5, <1>8 DEF Contended
  <2> QED BY <1>2, <1>3, <1>4, <2>1, <2>2, <2>3 DEF Taken
<1>9. Held(b)'
  <2>1. \A p \in About(b) : requests[p].pc = "ok" => requests'[p] = requests[p]
    BY <1>1, <1>4 DEF Moves, About
  <2>2. b \in uploading' => JobOf(b, "process")'.state = "none"
    BY <1>2, <1>3, <1>5 DEF Held
  <2>3. JobOf(b, "resume")'.state # "none" =>
           \E p \in About(b)' : requests'[p].op = "approve" /\ requests'[p].pc = "ok"
    BY <1>2, <1>4, <1>5, <2>1 DEF Held
  <2>4. batches[b].status = "QUEUED" =>
           \A p \in About(b)' : requests'[p].pc \notin {"decide", "enqueue", "dequeue", "purge"}
    <3>1. batches[b].status = "QUEUED" => requests[q].pc = "dequeueProcess"
      BY <1>1, <1>4, <1>5 DEF Held
    <3> QED BY <1>3, <1>4, <1>5, <3>1 DEF Held, Moves, About
  <2> QED BY <1>2, <1>4, <1>6, <1>7, <1>8, <2>2, <2>3, <2>4 DEF Held
<1>10. \A d \in Batch \ {b} : Held(d)'
  <2>1. \A d \in Batch \ {b} :
           /\ batches'[d].status = batches[d].status /\ StoredOf(d)' = StoredOf(d)
           /\ JobOf(d, "process")' = JobOf(d, "process")
           /\ JobOf(d, "resume")' = JobOf(d, "resume")
    BY <1>0, <1>1, <1>2, DequeueMoves
  <2> QED BY <1>1, <1>2, <1>3, <2>1, OthersHeld
<1> QED BY <1>9, <1>10

\* A rollback that removes a resume job contends with the approval that queued it.
LEMMA DequeueResumeHolds ==
    ASSUME HandsInv, NEW q \in Request, NEW b \in Batch, requests[q].batch = b,
           DequeueResume(q)
    PROVE  \A d \in Batch : Held(d)'
<1> USE Values, StatusValues
<1>0. TypeInv /\ "process" \in Kind /\ "resume" \in Kind
  BY DEF HandsInv, Kind
<1>1. requests[q].pc = "dequeueResume" /\ Dequeue(q, "resume", "recheck")
  BY DEF DequeueResume, RequestAt
<1>2. /\ UNCHANGED <<batches, uploading>> /\ StoredOf(b)' = StoredOf(b)
      /\ JobOf(b, "process")' = JobOf(b, "process")
  BY <1>0, <1>1, DequeueMoves
<1>3. PICK pc \in {"recheck", "failed"} :
         /\ Proceed(q, pc)
         /\ \/ JobOf(b, "resume").state = "active" /\ JobOf(b, "resume")' = JobOf(b, "resume")
            \/ /\ JobOf(b, "resume").state # "active" /\ JobOf(b, "resume")' = NoJob
               /\ pc = "recheck"
  BY <1>0, <1>1, DequeueMoves
<1>4. /\ Moves(q, pc) /\ q \in About(b)
      /\ About(b)' = About(b) /\ (Contended(b) => Contended(b)')
  BY <1>0, <1>1, <1>3, RequestMoves
<1>5. Held(b) /\ requests[q].op = "rollback"
  BY <1>1 DEF HandsInv, OpsFit
<1>6. batches[b].status # "absent"
  BY <1>4, <1>5 DEF Held, Unknown
<1>7. ASSUME batches[b].status = "QUEUED"
      PROVE  Untaken(b)'
  <2>1. Untaken(b)
    BY <1>5, <1>7 DEF Held
  <2>2. pc = "recheck" /\ JobOf(b, "resume")' = NoJob
    BY <1>3, <2>1 DEF Untaken
  <2>3. q \in About(b)' /\ requests'[q].pc \in Undoing
    BY <1>4, <2>2 DEF Moves
  <2> QED BY <1>2, <2>1, <2>2, <2>3 DEF Untaken
<1>8. ASSUME JobOf(b, "resume").state # "none"
      PROVE  Contended(b)
  <2>1. PICK p \in About(b) : requests[p].op = "approve" /\ requests[p].pc = "ok"
    BY <1>5, <1>8 DEF Held
  <2>2. p # q
    BY <1>1, <2>1
  <2> QED BY <1>4, <1>5, <2>1, <2>2 DEF Contended
<1>9. ASSUME batches[b].status \in Busy, ~Contended(b)
      PROVE  Taken(b)'
  <2>1. Taken(b) /\ JobOf(b, "resume").state = "none"
    BY <1>5, <1>8, <1>9 DEF Held
  <2>2. \A p \in About(b) : requests[p].pc = "enqueue" => requests'[p] = requests[p]
    BY <1>1, <1>4 DEF Moves, About
  <2> QED BY <1>2, <1>4, <2>1, <2>2 DEF Taken
<1>10. Held(b)'
  <2>1. \A p \in About(b) : requests[p].pc = "ok" => requests'[p] = requests[p]
    BY <1>1, <1>4 DEF Moves, About
  <2>2. JobOf(b, "resume")'.state # "none" =>
           \E p \in About(b)' : requests'[p].op = "approve" /\ requests'[p].pc = "ok"
    BY <1>3, <1>4, <1>5, <2>1 DEF Held
  <2>3. batches[b].status = "QUEUED" =>
           \A p \in About(b)' : requests'[p].pc \notin {"decide", "enqueue", "dequeue", "purge"}
    BY <1>4, <1>5 DEF Held, Moves, About
  <2> QED BY <1>2, <1>4, <1>5, <1>6, <1>7, <1>9, <2>2, <2>3 DEF Held
<1>11. \A d \in Batch \ {b} : Held(d)'
  <2>1. \A d \in Batch \ {b} :
           /\ batches'[d].status = batches[d].status /\ StoredOf(d)' = StoredOf(d)
           /\ JobOf(d, "process")' = JobOf(d, "process")
           /\ JobOf(d, "resume")' = JobOf(d, "resume")
    BY <1>0, <1>1, <1>2, DequeueMoves
  <2> QED BY <1>1, <1>2, <1>3, <2>1, OthersHeld
<1> QED BY <1>10, <1>11

\* A batch that has stored nothing is removed without asking anything of the tables.
LEMMA NothingRestricts ==
    ASSUME NEW b \in Batch, StoredOf(b) = {}
    PROVE  ~Restricted(b)
BY DEF Restricted, OrphanGoals, OrphanAccounts, OrphanClients

\* The rest of a rollback: it gives up a batch in progress, never a queued one.
LEMMA RollbackHolds ==
    ASSUME HandsInv, NEW q \in Request, NEW b \in Batch, requests[q].batch = b,
           RecheckRollback(q) \/ CommitRollback(q) \/ RefreshAfterRollback(q)
    PROVE  \A d \in Batch : Held(d)'
<1> USE Values, StatusValues
<1>0. batches \in [Batch -> BatchRow] /\ TypeInv
  BY DEF HandsInv, TypeInv, TypeOK
<1>1. PICK pc \in {"commit", "refresh", "ok", "failed"} : Proceed(q, pc)
  BY DEF RecheckRollback, CommitRollback, RefreshAfterRollback
<1>2. requests[q].pc \in {"recheck", "commit", "refresh"} /\ UNCHANGED <<jobs, uploading>>
  BY DEF RecheckRollback, CommitRollback, RefreshAfterRollback, RequestAt
<1>3. /\ Moves(q, pc) /\ q \in About(b)
      /\ About(b)' = About(b) /\ (Contended(b) => Contended(b)')
  BY <1>0, <1>1, <1>2, RequestMoves
<1>4. Held(b)
  BY DEF HandsInv
<1>5. batches[b].status # "absent"
  BY <1>3, <1>4 DEF Held, Unknown
<1>6. \A d \in Batch : /\ JobOf(d, "process")' = JobOf(d, "process")
                       /\ JobOf(d, "resume")' = JobOf(d, "resume")
  BY <1>2 DEF JobOf
<1>7. \/ UNCHANGED <<batches, txns>>
      \/ /\ batches' = [batches EXCEPT ![b] = [status |-> "deleted", approval |-> "none",
                                               report |-> NoEntities]]
         /\ Stored' = Stored \ RowsOf(b)
  <2>1. CASE CommitRollback(q)
    BY <2>1, RowsLeave DEF CommitRollback, RemoveBatch, ledgerVars
  <2>2. CASE RecheckRollback(q) \/ RefreshAfterRollback(q)
    BY <2>2 DEF RecheckRollback, RefreshAfterRollback, ledgerVars
  <2> QED BY <2>1, <2>2
<1>8. \A d \in Batch \ {b} : batches'[d].status = batches[d].status /\ StoredOf(d)' = StoredOf(d)
  BY <1>0, <1>7 DEF StoredOf, Stored, RowsOf
<1>9. \/ batches'[b].status = "deleted"
      \/ batches'[b].status = batches[b].status /\ StoredOf(b)' = StoredOf(b)
  BY <1>0, <1>7 DEF StoredOf, Stored, RowsOf
<1>10. ASSUME batches[b].status = "QUEUED", batches'[b].status = "QUEUED"
       PROVE  Untaken(b)'
  <2>1. Untaken(b) /\ Live(b) /\ CanRollback(b)
    BY <1>4, <1>10 DEF Held, Live, CanRollback
  <2>2. ~CommitRollback(q)
    <3> SUFFICES ASSUME CommitRollback(q) PROVE FALSE
      OBVIOUS
    <3>1. ~Restricted(b)
      BY <2>1, NothingRestricts DEF Untaken
    <3>2. batches'[b].status = "deleted"
      BY <1>0, <2>1, <3>1 DEF CommitRollback, RemoveBatch
    <3> QED BY <1>10, <3>2
  <2>3. requests[q].pc \in Undoing => requests'[q].pc \in Undoing
    <3>1. CASE RecheckRollback(q)
      <4>1. Proceed(q, "commit")
        BY <2>1, <3>1 DEF RecheckRollback
      <4>2. Moves(q, "commit")
        BY <1>0, <1>2, <4>1, RequestMoves
      <4> QED BY <4>2 DEF Moves
    <3>2. CASE RefreshAfterRollback(q)
      BY <3>2 DEF RefreshAfterRollback, RequestAt
    <3> QED BY <2>2, <3>1, <3>2
  <2>4. \A p \in About(b) : requests[p].pc \in Undoing => requests'[p].pc \in Undoing
    BY <1>3, <2>3 DEF Moves, About
  <2> QED BY <1>2, <1>3, <1>6, <1>9, <1>10, <2>1, <2>4 DEF Untaken
<1>11. Held(b)'
  <2>1. \A p \in About(b) : requests[p].pc \in {"ok", "enqueue"} => requests'[p] = requests[p]
    BY <1>2, <1>3 DEF Moves, About
  <2>2. Taken(b) => Taken(b)'
    BY <1>3, <1>6, <2>1 DEF Taken
  <2>3. batches[b].status = "QUEUED" =>
           \A p \in About(b)' : requests'[p].pc \notin {"decide", "enqueue", "dequeue", "purge"}
    BY <1>3, <1>4 DEF Held, Moves, About
  <2> QED BY <1>2, <1>3, <1>4, <1>5, <1>6, <1>9, <1>10, <2>1, <2>2, <2>3 DEF Held
<1>12. \A d \in Batch \ {b} : Held(d)'
  BY <1>1, <1>2, <1>6, <1>8, OthersHeld
<1> QED BY <1>11, <1>12

\* A request that begins takes nothing out of anybody's hands.
LEMMA BeginHolds ==
    ASSUME HandsInv, NEW q \in Request, NEW b \in Batch, BeginRequest(q, b)
    PROVE  \A d \in Batch : Held(d)'
<1> USE Values, StatusValues
<1>0. TypeInv
  BY DEF HandsInv
<1>1. PICK op \in Operation, pc \in {"decide", "mark", "dequeueProcess"} :
         Receive(q, op, b, pc) /\ (pc = "decide" => batches[b].status = "WAITING_FOR_APPROVAL")
  BY DEF BeginRequest, BeginDecision, BeginCancel, BeginRollback, Operation
<1>2. /\ requests[q].pc = "idle" /\ UNCHANGED <<batches, jobs, txns, uploading>>
      /\ \A p \in Request \ {q} : requests'[p] = requests[p]
      /\ requests'[q] = [pc |-> pc, op |-> op, batch |-> b]
  BY <1>0, <1>1 DEF Receive, RequestAt, ledgerVars, TypeInv, TypeOK
<1>3. \A d \in Batch \ {b} : About(d)' = About(d)
  BY <1>2 DEF About, RequestAt
<1>4. About(b)' = About(b) \union {q} /\ q \notin About(b)
  BY <1>2 DEF About, RequestAt
<1>5. \A d \in Batch : \A p \in About(d) : requests'[p] = requests[p] /\ p \in About(d)'
  BY <1>2, <1>3, <1>4 DEF About, RequestAt
<1>6. \A d \in Batch : /\ JobOf(d, "process")' = JobOf(d, "process")
                       /\ JobOf(d, "resume")' = JobOf(d, "resume")
                       /\ StoredOf(d)' = StoredOf(d)
  BY <1>2 DEF JobOf, StoredOf, Stored, RowsOf
<1>7. \A d \in Batch \ {b} : Held(d)'
  BY <1>2, <1>3, <1>5, <1>6, HeldElsewhere DEF HandsInv
<1>8. Held(b)'
  <2>1. Held(b) /\ (Contended(b) => Contended(b)')
    BY <1>5, ContentionStays DEF HandsInv
  <2>2. batches[b].status # "absent"
    BY <1>1 DEF BeginRequest, BeginDecision, BeginCancel, BeginRollback, CanRollback, Live
  <2>3. Taken(b) => Taken(b)'
    BY <1>5, <1>6 DEF Taken
  <2>4. Untaken(b) => Untaken(b)'
    BY <1>2, <1>5, <1>6 DEF Untaken
  <2>5. batches[b].status = "QUEUED" =>
           \A p \in About(b)' : requests'[p].pc \notin {"decide", "enqueue", "dequeue", "purge"}
    BY <1>1, <1>2, <1>4, <1>5, <2>1 DEF Held
  <2>6. JobOf(b, "resume").state # "none" =>
           \E p \in About(b)' : requests'[p].op = "approve" /\ requests'[p].pc = "ok"
    BY <1>5, <2>1 DEF Held
  <2> QED BY <1>2, <1>6, <2>1, <2>2, <2>3, <2>4, <2>5, <2>6 DEF Held
<1> QED BY <1>7, <1>8

\* An upload hands its batch to the queue.
LEMMA UploadHolds ==
    ASSUME HandsInv, NEW b \in Batch, UploadCreate(b) \/ UploadEnqueue(b)
    PROVE  AtRest' /\ \A d \in Batch : Held(d)'
<1> USE Values, StatusValues
<1>0. batches \in [Batch -> BatchRow] /\ jobs \in [JobId -> Job] /\ AtRest /\ Held(b)
  BY DEF HandsInv, TypeInv, TypeOK
<1>1. /\ UNCHANGED <<requests, txns>>
      /\ \A d \in Batch : /\ About(d)' = About(d) /\ StoredOf(d)' = StoredOf(d)
                          /\ Contended(d) => Contended(d)'
  BY DEF UploadCreate, UploadEnqueue, ledgerVars, About, RequestAt, StoredOf, Stored, RowsOf,
         Contended
<1>2. /\ JobOf(b, "resume")' = JobOf(b, "resume")
      /\ \A d \in Batch \ {b} : /\ JobOf(d, "process")' = JobOf(d, "process")
                                /\ JobOf(d, "resume")' = JobOf(d, "resume")
  BY <1>0, TwoJobs DEF UploadCreate, UploadEnqueue, JobOf
<1>3. \A d \in Batch \ {b} : Held(d)'
  <2>1. \A d \in Batch \ {b} :
           /\ batches'[d].status = batches[d].status
           /\ d \in uploading' <=> d \in uploading
    BY <1>0 DEF UploadCreate, UploadEnqueue
  <2> QED BY <1>1, <1>2, <2>1, HeldElsewhere DEF HandsInv
<1>4. CASE UploadCreate(b)
  <2>1. batches'[b].status = "QUEUED" /\ Unknown(b) /\ b \in uploading' /\ UNCHANGED jobs
    BY <1>0, <1>4 DEF UploadCreate, Held, BatchRow
  <2>2. JobOf(b, "process")' = JobOf(b, "process") /\ JobOf(b, "process").pc = "start"
    BY <1>0, <2>1, TwoJobs DEF JobOf, Unknown, AtRest
  <2>3. Held(b)'
    BY <1>1, <1>2, <2>1, <2>2 DEF Held, Untaken, Unknown
  <2> QED BY <1>0, <1>3, <2>1, <2>3 DEF AtRest
<1>5. CASE UploadEnqueue(b)
  <2>1. /\ b \in uploading /\ b \notin uploading' /\ UNCHANGED batches
        /\ jobs' = [jobs EXCEPT ![<<b, "process">>] = NewJob]
    BY <1>5 DEF UploadEnqueue
  <2>2. JobOf(b, "process")' = NewJob /\ JobOf(b, "process").state = "none"
    BY <1>0, <2>1, TwoJobs DEF JobOf, Held
  <2>3. batches[b].status # "absent"
    BY <1>0, <2>1 DEF Held, Unknown
  <2>4. Untaken(b) => Untaken(b)'
    BY <1>1, <1>2, <2>2 DEF Untaken
  <2>5. Taken(b) => Taken(b)'
    BY <1>1, <1>2, <2>2 DEF Taken
  <2>6. Held(b)'
    BY <1>0, <1>1, <1>2, <2>1, <2>3, <2>4, <2>5 DEF Held
  <2> QED BY <1>0, <1>3, <2>1, <2>6 DEF AtRest
<1> QED BY <1>4, <1>5

LEMMA NextOpsFit ==
    ASSUME TypeInv, OpsFit, Next
    PROVE  OpsFit'
<1> USE Values
<1>0. TypeInv
  OBVIOUS
<1>1. UNCHANGED requests => OpsFit'
  BY DEF OpsFit
<1>2. ASSUME NEW q \in Request, NEW pc, Proceed(q, pc), requests[q].pc # "idle", pc # "idle",
             pc = "enqueue" => requests[q].op = "approve",
             pc \in {"mark", "dequeue", "purge"} => requests[q].op = "cancel",
             pc \in {"dequeueProcess"} \union Undoing => requests[q].op = "rollback"
      PROVE  OpsFit'
  <2>1. Moves(q, pc)
    BY <1>0, <1>2, RequestMoves
  <2> QED BY <1>2, <2>1 DEF Moves, OpsFit
<1>3. ASSUME NEW q \in Request, RequestStep(q) \/ RequestAborts(q)
      PROVE  OpsFit'
  <2>1. CASE Decide(q)
    BY <1>2, <2>1 DEF Decide, RequestAt
  <2>2. CASE EnqueueResume(q) \/ PurgeCanceled(q) \/ RefreshAfterRollback(q) \/ RequestAborts(q)
    BY <1>2, <2>2 DEF EnqueueResume, PurgeCanceled, RefreshAfterRollback, RequestAborts, RequestAt
  <2>3. CASE MarkCanceled(q)
    BY <1>2, <2>3 DEF MarkCanceled, RequestAt, OpsFit
  <2>4. CASE DequeueCanceled(q)
    BY <1>2, <2>4 DEF DequeueCanceled, Dequeue, RequestAt, OpsFit
  <2>5. CASE DequeueProcess(q) \/ DequeueResume(q)
    BY <1>2, <2>5 DEF DequeueProcess, DequeueResume, Dequeue, RequestAt, OpsFit
  <2>6. CASE RecheckRollback(q) \/ CommitRollback(q)
    BY <1>2, <2>6 DEF RecheckRollback, CommitRollback, RequestAt, OpsFit
  <2> QED BY <1>3, <2>1, <2>2, <2>3, <2>4, <2>5, <2>6 DEF RequestStep
<1>4. ASSUME NEW q \in Request, NEW b \in Batch, BeginRequest(q, b)
      PROVE  OpsFit'
  <2>1. ASSUME NEW op, NEW pc, Receive(q, op, b, pc), pc # "enqueue",
               pc = "mark" => op = "cancel", pc = "dequeueProcess" => op = "rollback",
               pc \in {"decide", "mark", "dequeueProcess"}
        PROVE  OpsFit'
    <3>1. /\ \A p \in Request \ {q} : requests'[p] = requests[p]
          /\ requests'[q].pc = pc /\ requests'[q].op = op
      BY <2>1 DEF Receive, TypeInv, TypeOK
    <3> QED BY <2>1, <3>1 DEF OpsFit
  <2> QED BY <1>4, <2>1 DEF BeginRequest, BeginDecision, BeginCancel, BeginRollback
<1>5. ASSUME NEW j \in JobId, WorkerStep(j) \/ WorkerCrash(j) \/ DbFault(j)
      PROVE  UNCHANGED requests
  BY <1>5, WorkerScope
<1> QED BY <1>1, <1>3, <1>4, <1>5
    DEF Next, UploadCreate, UploadEnqueue, UploadAborts, BankPost, BankWithdraw

LEMMA NextHands ==
    ASSUME HandsInv, Reliable, [Next]_vars
    PROVE  HandsInv'
<1> SUFFICES AtRest' /\ OpsFit' /\ \A b \in Batch : Held(b)'
  BY NextType DEF HandsInv
<1>1. ASSUME UNCHANGED <<batches, jobs, requests, uploading, txns>>
      PROVE  AtRest' /\ OpsFit' /\ \A b \in Batch : Held(b)'
  BY <1>1 DEF HandsInv, AtRest, OpsFit, Held, Taken, Untaken, Unknown, JobOf, About, RequestAt,
              Contended, StoredOf, Stored, RowsOf
<1>2. ASSUME Next PROVE OpsFit'
  BY <1>2, NextOpsFit DEF HandsInv
<1>3. ASSUME NEW q \in Request, RequestStep(q)
      PROVE  AtRest' /\ \A b \in Batch : Held(b)'
  <2>1. PICK b \in Batch : requests[q].batch = b
    <3>1. requests[q].pc # "idle"
      BY <1>3 DEF RequestStep, RequestAt, Decide, EnqueueResume, MarkCanceled, DequeueCanceled,
         PurgeCanceled, DequeueProcess, DequeueResume, RecheckRollback, CommitRollback,
         RefreshAfterRollback
    <3> QED BY <3>1 DEF HandsInv, TypeInv, Addressed
  <2>2. AtRest'
    <3>1. AtRest /\ jobs \in [JobId -> Job]
      BY DEF HandsInv, TypeInv, TypeOK
    <3>2. UNCHANGED jobs \/ \E j \in JobId, job \in {NoJob, NewJob} : jobs' = [jobs EXCEPT ![j] = job]
      <4>1. <<b, "process">> \in JobId /\ <<b, "resume">> \in JobId
        BY TwoJobs
      <4> QED BY <1>3, <2>1, <4>1
          DEF RequestStep, Decide, EnqueueResume, MarkCanceled, DequeueCanceled, PurgeCanceled,
              DequeueProcess, DequeueResume, Dequeue, RecheckRollback, CommitRollback,
              RefreshAfterRollback
    <3> QED BY <3>1, <3>2, Values DEF AtRest
  <2> QED BY <1>3, <2>1, <2>2, DecideHolds, EnqueueHolds, PurgeHolds, DequeueProcessHolds,
             DequeueResumeHolds, RollbackHolds DEF RequestStep
<1>4. ASSUME NEW q \in Request, NEW b \in Batch, BeginRequest(q, b)
      PROVE  AtRest' /\ \A d \in Batch : Held(d)'
  <2>1. UNCHANGED jobs
    BY <1>4 DEF BeginRequest, BeginDecision, BeginCancel, BeginRollback, Receive
  <2> QED BY <1>4, <2>1, BeginHolds DEF HandsInv, AtRest
<1>5. ASSUME NEW b \in Batch, UploadCreate(b) \/ UploadEnqueue(b) \/ UploadAborts(b)
      PROVE  AtRest' /\ \A d \in Batch : Held(d)'
  BY <1>5, UploadHolds DEF UploadAborts, Reliable
<1>6. ASSUME NEW j \in JobId, WorkerStep(j) \/ WorkerCrash(j) \/ DbFault(j)
      PROVE  AtRest' /\ \A d \in Batch : Held(d)'
  BY <1>6, WorkerHolds DEF DbFault, Reliable
<1>7. ASSUME NEW q \in Request, RequestAborts(q)
      PROVE  FALSE
  BY <1>7 DEF RequestAborts, Reliable
<1>8. ASSUME NEW g \in Goal, BankPost(g) \/ BankWithdraw(g)
      PROVE  UNCHANGED <<batches, jobs, requests, uploading, txns>>
  BY <1>8 DEF BankPost, BankWithdraw, ledgerVars
<1>9. UNCHANGED vars => UNCHANGED <<batches, jobs, requests, uploading, txns>>
  BY DEF vars, ledgerVars
<1> QED BY <1>1, <1>2, <1>3, <1>4, <1>5, <1>6, <1>7, <1>8, <1>9 DEF Next

LEMMA InitHands == Init => HandsInv
<1> SUFFICES ASSUME Init PROVE HandsInv
  OBVIOUS
<1>1. \A j \in JobId : jobs[j] = NoJob
  BY DEF Init
<1>2. \A q \in Request : requests[q].pc = "idle"
  BY DEF Init
<1>3. \A b \in Batch : Unknown(b)
  BY <1>1, <1>2, TwoJobs, Values DEF Init, Unknown, JobOf, About, RequestAt, StoredOf, Stored
<1>4. \A b \in Batch : Held(b)
  BY <1>3, Values DEF Init, Held, Unknown
<1> QED BY <1>1, <1>2, <1>4, InitType, Values DEF HandsInv, AtRest, OpsFit

\* An upload that is queued or in progress is in somebody's hands, whatever decisions,
\* cancels and rollbacks overlap with its jobs and their crashes. Excepted is one in
\* progress for which an approval overlaps with another one or with a rollback, or which a
\* cancel or a rollback meets where workers crash (POST approve-entities, POST cancel,
\* DELETE rollback of fundUploadRoutes.ts; FundUploadWorker.ts).
THEOREM WorkStaysInHand == ASSUME Reliable PROVE Spec => []WorkIsInHand
<1>1. HandsInv /\ [Next]_vars => HandsInv'
  BY NextHands
<1>2. HandsInv => WorkIsInHand
  <2> SUFFICES ASSUME HandsInv, NEW b \in Batch, Unsettled(b)
               PROVE  InHand(b) \/ (batches[b].status \in Busy /\ Contended(b))
    BY DEF WorkIsInHand
  <2>1. Held(b) /\ AtRest /\ <<b, "process">> \in JobId /\ <<b, "resume">> \in JobId
    BY TwoJobs DEF HandsInv
  <2>2. CASE batches[b].status = "QUEUED"
    <3>1. Untaken(b) /\ b \in Batch /\ "process" \in Kind
      BY <2>1, <2>2 DEF Held, Kind
    <3> QED BY <2>2, <3>1 DEF Untaken, InHand, JobOf, Undoing
  <2>3. CASE batches[b].status \in Busy /\ ~Contended(b)
    <3>1. Taken(b) /\ "process" \in Kind /\ "resume" \in Kind
      BY <2>1, <2>3 DEF Held, Kind
    <3>2. \A kind \in Kind : JobOf(b, kind).state = "waiting" => JobOf(b, kind).pc = "start"
      BY <2>1 DEF AtRest, JobOf, Kind
    <3> QED BY <3>1, <3>2, Values DEF Taken, InHand, JobOf, RequestAt
  <2> QED BY <2>2, <2>3 DEF Unsettled
<1> QED BY <1>1, <1>2, InitHands, PTL DEF Spec
=============================================================================

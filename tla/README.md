# Verification of the Xeno fund upload and reconciliation system

TLA+ models of the backend under `src/src` (an Express API, BullMQ queues in
Redis, workers, and PostgreSQL through Prisma) and of the upload pages under
`src/frontend`, the TLC runs that check them, and theorems about them that TLAPS
proves.

## The system

A fund upload is a file of fund transactions. The API stores it, creates a row in
`upload_batches` and adds a job to the queue; a worker parses and validates the
file, and either stores its rows in `fund_transactions` or, when the file names
clients, accounts or goals nobody has registered, stops and asks for approval. An
approval adds a second job, which creates the entities and stores the rows. A user
may cancel a batch or roll it back. Bank statements take a parallel path into
`bank_goal_transactions`. Bank and fund rows are then matched, goal by goal, and
what does not match is reviewed, netted or resolved. Reports value the fund rows at
the uploaded prices.

The parts share state only through the database, the queue and a cache. No handler
holds a lock across two calls, so what one call decides may be stale when the next
one is made. That is where the hard behaviour of this code lies.

### Inventory

| Component (src/src unless said) | State it keeps | Operations | What makes it correct |
|---|---|---|---|
| Fund upload API, `routes/fundUploadRoutes.ts` | requests in progress | upload, approve or reject, cancel, rollback | a decision, a cancel and a rollback do what the response says |
| Fund processor and worker, `FundFileProcessor.ts`, `fund-worker.ts`, `config/queue.ts` | queue jobs, attempts, stalls | process, resume, retry, re-run after a crash | invalid files post nothing; re-runs store nothing twice; every job ends |
| `UploadBatchManager.ts` | status, approval, new entities report | one update per step | the status says what the tables hold |
| `FundTransactionRepository.ts` | fund rows, audit rows | save all, delete by batch | all rows or none; one row per `fundTransactionId`; every reference resolves |
| `EntityDetector.ts`, `EntityCreator.ts` | clients, accounts, goals | detect, create | an entity is created once |
| `BatchRollbackService.ts` | none of its own | check, sweep, refresh | deletes what nothing else needs and nothing more |
| Fund and bank parsers, validators, `GoalTransactionCodeGenerator.ts`, `dateUtils.ts` | none | read cells, judge rows and groups, group by code | one transaction is read alike from both files; only rows of one transaction share a code |
| Bank upload, `services/bank-upload`, `bankUploadRoutes.ts`, `bank-worker.ts`, `services/bank-reconciliation` | bank batches, bank rows, the queue of two worker programs | upload, process, cancel, rollback, upload within the request | rows never dangle; files are stored whole; a cancel holds |
| `SmartMatcher.ts`, `goalComparisonRoutes.ts` | match codes, review tags, reversal pairs | drilldown, manual match and its removal, review, link, summaries | one match per row; manual matches survive; pages agree |
| `VarianceResolutionService.ts` | resolution marks | detect, report, statistics | what is resolved is reported, what cancels out is found |
| `runReconciliation`, status routes | reconciliation status | run, set status, list and compare | a run decides every row |
| `MaterializedViewService.ts` | two views, one refresh at a time | refresh both or one | the views follow the tables |
| `FundPriceService.ts`, `CacheService.ts` | prices, cached prices | upload, delete, read, invalidate | readers see new prices, at the latest after the time to live |
| `UnitRegistryService.ts`, `DashboardService.ts`, `FundTransactionService.ts`, `GoalTransactionService.ts` | none | queries that make up a report | the parts of a report, and the reports, agree |
| `frontend/.../FundUpload.tsx`, `BankUpload.tsx` | list, dialog, polling loops, requests in flight | poll, list, review, decide, cancel, roll back | the page shows what the server holds and decides on what it shows |
| Other pages, application shell, scripts | | markup, wiring, repair by hand | not modelled |

The hazards of this code, each at its line, are in `PROJECT.json` under
`hazards`, with the properties that cover them.

## Modules

| Module | What it is |
|---|---|
| `FundUpload` | the fund upload pipeline: API, queue, workers, tables |
| `FundLedger` | the abstract specification: rows posted, goals registered, goals banked |
| `BankUpload` | the bank pipelines, two worker programs and the older route |
| `SmartMatching` | the matching rules as operators; no state |
| `Reconciliation` | the requests that match, review, net and resolve rows; extends `SmartMatching` |
| `ComparisonViews` | the pages over those tables; extends `Reconciliation`, writes nothing |
| `Reports` | prices, their cache, the materialized views and the reports |
| `FileRules` | what parsers and validators make of a file; no state |
| `UploadPage` | the fund or bank upload page against the API; extends `FileRules` |
| `MC...` | the instance of each for TLC |
| `FundUpload_proofs` | types, references, the sweep, single copies, the refinement |
| `FundFiles_proofs` | fund files: invalid ones stay out, good ones are whole, waiting ones unposted, unfinished ones in hand |
| `FundLedger_proofs` | consistency of the abstract ledger |
| `BankUpload_proofs` | types, references, whole files, cancels that hold, the refinement |
| `Reconciliation_proofs` | types, what the matching passes find and leave, runs, detections and removals, the pages against each other |
| `Reports_proofs` | types, the cache, the views, and what reports add up to |
| `Sums` | induction over numbers and finite sets, and lemmas about sums, for `Reports_proofs` and `Reconciliation_proofs` |
| `UploadPage_proofs` | types, dates and rows of both file kinds, transaction codes, decisions |

The modules meet in `FundLedger`: `FundUpload` implements it, `BankUpload` takes its
steps as the fund side and implements its bank side. `Reconciliation` and `Reports`
have uploads and rollbacks as their environment, reduced to rows and batches that
come and go. `UploadPage` has them as the server's statuses.

### FundUpload


An action is one call that commits on its own: a statement or a `$transaction`
on the database, an operation on the queue, or the reads on which the handler
bases its next call. The place a worker has reached in `processFile` or
`resumeProcessing` is `jobs[j].pc`, and that of a request is `requests[q].pc`.

| Code | Model |
|---|---|
| `upload_batches` row | `batches[b]`; `absent` before the upload, `deleted` after a rollback |
| `clients` rows | pairs of a name and a number, because `clientName` is not unique |
| `accounts`, `goals` | `accounts[a]` is the client row of an account; `goals` is a set |
| `fund_transactions` | `txns[r]`, the client row of a stored row, or NULL; its account and goal follow from the row |
| `bank_goal_transactions` | `bankGoals`, the goals some bank row is on |
| queue | `jobs[<<batch, kind>>]`: state, attempts, stalls, and the worker's place |
| `processFile` | `StartProcess`, `ParseFile`, `ValidateFile`, `SaveInvalid`, `RejectRows`, `RejectGroups`, `DetectEntities`, `Pause` |
| `resumeProcessing` | `StartResume`, `CreateClient`, `CreateAccount`, `CreateGoal` |
| `finalizeProcessing` | `SaveTransactions`, `MarkCompleted`, `RefreshViews` |
| the catch blocks | `RecordError`, then `FailAttempt` |
| BullMQ | `TakeJob`, `CompleteJob`, `FailAttempt`, `WorkerCrash` |
| approve or reject | `BeginDecision`, `Decide`, `EnqueueResume` |
| cancel | `BeginCancel`, `MarkCanceled`, `DequeueCanceled`, `PurgeCanceled` |
| rollback | `BeginRollback`, `DequeueProcess`, `DequeueResume`, `RecheckRollback`, `CommitRollback`, `RefreshAfterRollback` |
| bank uploads | `BankPost`, `BankWithdraw` |

Faults are chosen by the constant `Faults`: `"db"` lets any database call of a
worker throw (the update in the catch block too), `"api"` ends a request or an
upload between two calls, `"worker"` kills a worker with its job.

Abstractions:

- Parsers and validators appear as their verdicts: `Unreadable` rows, which the
  parser skips with a warning, `Invalid` rows and files with a `BadGroup`.
  `validationStatus`, counters and sums are left out.
- `detectNewEntities` reads the three tables in one step. So does `saveBatch`
  before it inserts, in the same transaction: a rollback that deletes what it
  has read makes the insert fail on its foreign key, which is the model's step
  after the rollback; a save that comes first makes the delete fail on `Restrict`
  or see the row.
- Looking up the parent of an entity and creating it are one step. The account of
  a goal and the client of an account are the same in all rows.
- A job that resumes parses and validates its file again; the file does not
  change, so this is part of the save. Groups are not checked again, in the code
  and in the model.
- The two deletes of a cancel are one step. `audited` is a set of batches although
  retries store audit rows again.
- A finished resume job is kept in the queue for good. The code keeps the last 100
  for a day, and more during that time cannot make a property hold.
- Concurrency limits and delays of the queue are left out: they remove
  interleavings. A worker that goes on after losing its lock is not modelled.
- The scripts that repair stuck batches are run by hand and not modelled.

### FundLedger

Readers of the ledger care about rows, goals and bank rows, and not about batch
states, jobs or requests. `FundLedger` says what may happen to those: rows of one
file are posted in one step, to registered goals, under ids nobody has posted;
rows leave with all the rows of their file, and goals may leave with them when no
row and no bank row is on them. `ImplementsLedger` maps `posted` to the stored
rows, `registered` to `goals` and `banked` to `bankGoals`.

### BankUpload

| Code | Model |
|---|---|
| `bank_upload_batches`, `bank_goal_transactions` | `batches[b]`, `rows` |
| queue `bank-reconciliation` | `jobs[b]`, with the worker program that took it |
| `BankFileProcessor.processFile` (fund-worker) | `StartProcess`, `ParseFile`, `ValidateFile`, `RejectFile`, `SaveTransactions`, and the final status |
| `BankReconciliationService.processUpload` (bank-worker) | `BeginRows`, `MatchAndStore`, `EndRows` |
| `/api/bank-reconciliation/upload` | `DirectCreate`, `DirectParse`, `DirectStore`, `DirectComplete` |
| cancel, rollback | `BeginCancel`, `MarkCanceled`, `Dequeue`, `Purge`; `BeginRollback`, `RemoveBatch` |
| the fund side | `FundStep`: a step of `FundLedger` |

Both worker programs consume one queue (`config/queue.ts`), and each does with a job
what its own code says: one stores a file in a transaction or rejects it, the other
stores what it can row by row. `byRow` remembers which batches the latter has
touched, because only the others are promised to be whole. Left out or reduced:

- One progress update per hundred rows is folded into the step that begins the rows,
  and the lookups of a row are read in one step. A goal that is closed and opened
  again between lookup and create counts as the same goal.
- `CancelHolds` speaks of cancels that came when the job was in the queue. A cancel
  between the creation of the batch and of its job does not hold, and a running job
  overwrites CANCELED.
- The older parser reads fund columns only under headers ending in `_pct` or `_amt`.
  A file in the newer template that the bank-worker takes may give no rows and
  COMPLETED. The two parsers differ by the constant `Unreadable`.
- The batch number of the older route is the count of today's batches plus one and
  collides after a rollback. The upload then fails and changes nothing.

### SmartMatching and Reconciliation

`SmartMatching` holds the rules: tolerances, the combination search with its greedy
start, the four passes of a drilldown in their order, the shorter list of passes of
`getVarianceTransactions`, the verdicts of `runReconciliation` and of the older
matcher, and the two rules by which a variance counts as resolved. Amounts are
multiplied by a hundred where a tolerance is a percentage.

A pass takes the rows of a list in turn (`Turns`) and adds what one turn finds
(`Finds`) to what has been found: `Pass` is the function of the position in the list.
A list is one of the orders the query leaves open (`LatestFirst`), and rows are
matched by what they are, so a row that is found is not open any more (`OpenBanks`,
`OpenGoals`). The combination search is stated over sets: the greedy loop ends with
the one set in which a row is taken exactly if it fits in with those taken before it
(`TakenGreedily`), and the bit masks, which run upwards, with the subset of the ten
largest rows (`TenLargest`) whose mask is the least (`SubsetHits`).

`Reconciliation` has the columns these requests write (`bank`, `fund`) and the
requests (`tasks`), which go statement by statement:

| Request | Model |
|---|---|
| drilldown of a goal | `ReadBankRows`, `MatchRows`, `PersistMatch` once per match, `EndDrilldown` |
| manual match | `CheckTotals`, `WriteMatch` |
| its removal | `BeginUnmatch`, `UnmatchIds`, `UnmatchExact`, `UnmatchContains` per code |
| review of a row, a code, a selection | `ReviewBank`, `ReviewGoal`, `BulkReviewBank`, `BulkReviewGoal` |
| reversal pairs | `LinkReversal` (a transaction), `BeginUnlink`, `UnlinkFirst`, `FindPartner`, `UnlinkSecond` |
| status by a user | `SetStatus`, for the statuses the route takes (`ValidStatuses`) of those users ask for (`Decision`); the bulk form is the same row by row |
| variance detection | `Detect`, `MarkBank` and `MarkGoal` per row and code, `EndDetect` |
| `runReconciliation` | `StartRun`, `JudgeRow`, `WriteVerdict` per row, `EndRun` |
| uploads and rollbacks | `Uploaded`, `RolledBack` |

`alone` remembers which request nothing has interleaved with, for the properties
that promise something of a request on its own (`DetectionIsComplete`,
`RunDecidesAll`). Removal by `contains` takes whatever code has the given text
in it; `InText` says which.

Rows of transfer reversals and rate changes carry the field `reversal`, which stands
for the tests on `transactionId` and `source`: the drilldown and the lists leave them
out (`Matchable`), detections, runs, manual matches and the other pages do not.

### ComparisonViews

The goal list, the fund and account lists, the page of one goal, the list of
unmatched transactions, the resolved report and statistics, the transactions page
and its comparison, and the candidates offered for a reversal are functions of the
tables. `ReviewViewsAgree` relates them to each other in every reachable state; the
code computes each in SQL or TypeScript of its own. Its parts say:

- `ProgressAgrees`: the goal list and the goal's page agree on what is left to review.
- `MissingAgrees`: what the comparison calls missing is an open variance of its goal,
  unless it is a reversal, which the comparison shows and the goal's page does not.
- `FiltersAgree`: how the comparison under a filter relates to the one without.
- `ListsAgree`: the goal, fund and account lists sum to the same, which is the
  transactions page less the reversals.
- `PagesAgree`: the comparison's figures are sums of one page (`ComparisonFigures`), so
  those of all pages together are the transactions page's amount. Groups come latest
  first, and the query leaves the order of groups of one day open: `Pagings` are the
  ways to cut them into pages of `PageLimit`, and the property holds for each. A client
  that asks for two pages may get them from two orders; then it does not.
- `ResolvedAgrees`: the unmatched list, the report and the statistics agree on what is
  resolved. The report groups reversals with the rows of their code and shows the largest
  tag of them all, so its tag may be that of a reversal (`ReversalTags`).

Each page is taken as one read. The comparison of what is missing in the bank is a
query of its own (`MissingInBank`); the figures of its pages are not modelled.

### Reports

| Code | Model |
|---|---|
| `fund_transactions` by batch, `fund_prices` | `stored`, `prices` |
| `goal_transactions_view`, `account_unit_balances` | `views`: the batches each was computed from |
| imports, rollbacks, cancels, manual refresh | `ChangeBatch`, `RefreshGoals`, `RefreshBalances`, `RefreshAll` |
| price upload and delete | `BeginUpload`, `FindPrice`, `WritePrice`, `EndUpload`; `DeletePrice`, `EndDelete` |
| `FUND_PRICES_LATEST` in Redis | `cache`; `FillCache`, `DropCache`, `Expire` |
| registry, registry as of a day | `BeginRegistry` ... `SummariseRegistry`; `BeginAsOf`, `QueryAsOf` |
| dashboard | `BeginDashboard`, `TotalAUM`, `Categories` |
| fund list, goal list, one goal transaction | `CountFunds` ... `ByFund`; `ListGoals`, `TotalGoals`; `BeginGoal`, `RowsOfGoal` |

A refresh is two steps, the statement that takes the lock with its snapshot and its
end, so two refreshes wait for each other. `missed`, `tainted` and `steady` are
history: a view a cancel or a failed refresh left behind, a cache a race or a fault
left behind, and readers since whose question nothing has changed. A price that is
deleted and inserted again between lookup and update counts as the same row.

`Today` is the day of a registry as of a date; rows and prices of later days are stored
and counted, because the validator only warns of a future date. `AsOfAgrees` says what
the two registries then differ by. The fund list's figures (`Flows`) are deposits,
everything else, and the first less the second; withdrawals are stored as negative
amounts, so the net adds what was withdrawn. `ByFund` computes the net of the four
named funds, and `AnswersAddUp` says that it comes to the same.

### FileRules and UploadPage

`FileRules` reads a row as the parsers do: a date is a form (`iso`, `slash4`, ...)
with three numbers and its reading is an hour on the time line, which depends on the
server's zone for some forms; a number is a form with a value. It judges rows and
groups, builds the goal transaction code and splits bank amounts between funds, for
the fund and for the bank pipeline. `Verdict` and `BankVerdict` are what the whole
file comes to. Dates have the forms YYYY-MM-DD, DD/MM/YYYY, DD-MM-YYYY, DD/MM/YY,
DD-MM-YY and DD-Mon-YY; amounts are plain, blank, words, negative in three ways, or
carry a pound, euro or yen sign.

`UploadPage` is the browser. `scene` chooses the page, the files, the number of
polling loops that may overlap and what may happen, so that each run of the page
meets a bounded set of hazards. `Tick`, `AskStatus` and the steps that follow are one
callback of `setInterval`, which goes on after its effect has been cleared;
`FetchStep` is `fetchBatches`, whose answer replaces the list with what was read
when the server took it; `Review`, `Decide`, `AskChange` and their answers are the
handlers of the dialog and the list. The approval dialog and that of View Details
(`ViewDetails`, `ShowDetails`, `CloseDetails`) share one summary, the file name and the
warnings they show: `dialog.summary` is the batch it is of, `dialog.entities` that of
the new entities. On the bank page no batch waits for an
approval, and a cancel of a running job marks it CANCELED, fails to remove the job,
answers with an error, and the job goes on.

## Runs

| Run | Properties | What it shows | States |
|---|---|---|---|
| `shared_entities` | `ForeignKeys`, `SweepSparesSharedEntities`, `CompletedIsWhole`, `WorkIsInHand` | two files on one goal, two approvals, a rollback, bank rows on the goal; an unfinished upload has a job or a request that will end it | 492,364 |
| `retries` | `TypeOK`, `AllOrNothing`, `WaitingMeansUnposted` | one file, three attempts, API and database faults, a decision and a cancel or rollback | 77,896 |
| `bad_files` | `InvalidFilesStayOut` | an invalid row and a broken group, all faults | 373,819 |
| `overlapping_ids` | `ImplementsLedger` | two files that share an id, an unreadable row, database faults and crashes | 574,730 |
| `settles` | `UploadSettles`, `JobsFinish` | liveness with crashing workers, a good file and an invalid one | 111,870 |
| `bank_uploads` | `TypeOK`, `ForeignKeys`, `AllOrNothing`, `CompletedIsWhole`, `CancelHolds`, `ImplementsLedger`, `JobsFinish` | a file over the queue, one over the older route, both worker programs, all faults, an undo, goals that open and close | 788,722 |
| `matching` | `TypeOK`, `MatchedOnce`, `NothingLeftToMatch`, `ManualMatchKept`, `RemovalHolds`, `SummaryKnowsMatches`, `ReviewViewsAgree`, `DetectionIsComplete`, `RunDecidesAll` | three requests of nine kinds over six sets of rows, two with reversals, with uploads and rollbacks; the pages in every state | 311,074 |
| `reports` | `TypeOK`, `CacheFollowsPrices`, `ViewsFollowUploads`, `AnswersAddUp`, `DashboardAgrees`, `AsOfAgrees`, `StaleCacheHeals` | batches, refreshes, price files in both forms and six reports, deposits and a withdrawal, rows and prices of tomorrow, with failing Redis, database and processes | 493,387 |
| `upload_page` | `TypeOK`, `DatesAgree`, `FilesTakeAlike`, `CodesSeparate`, `ApprovedWhatWasShown`, `PageCatchesUp` | the pages with overlapping loops, lost requests, a second dialog and other clients; the file rules over some thousand rows | 407,377 |
| `rollback_waits` | `RollbackWaits` | violated: see below | |
| `clients_are_unique` | `ClientsAreUnique` | violated: see below | |
| `approval_resumes` | `ApprovalResumes` | violated: see below | |

### Bounds

- Fund uploads: two files, of two rows and one. Sharing a goal or an id takes two
  files, and a partial save takes two rows. The references of a row reach only its
  own goal, account and client, so a third file repeats what the second does. The
  proofs drop the bound. One account and one client; each client name may have as
  many rows (`Copy`) as attempts can create in the run.
- Requests are used once each: two or three in the fund runs, one undo in the bank
  run, three in the matching run. A check-then-act needs one other request to go
  wrong, and the runs let requests and workers overlap at every call.
- `MaxAttempts` is 3 in `retries`, as in the code, and 1 or 2 elsewhere. `CrashLimit`
  bounds crashes per job to 1, so a job is stalled and forgiven once; `MaxStalled`
  is BullMQ's default.
- Matching: the rows are chosen so that each pass has something to match and
  something to mistake: two deposits that make up one goal transaction while greed
  takes a third, amounts within tolerance of each other, a split of one bank row over
  two codes, a code whose text is within another's, a withdrawal that nets a
  deposit, a row of another goal and a second row of the same goal under one
  transaction id, a bank reversal of the same day as a deposit, a fund reversal under
  the code of a goal transaction, a status MATCHED that a user sets. `RunLimit` 2 (2,000
  in the code) lets a run end with more rows pending, and `PageLimit` 2 (50 in the code)
  makes the comparison more than one page. Two windows of days, one of
  which cuts off the day of most rows.
- Reports: two accounts of which one sits at the threshold, two batches, a day
  before and one after the day asked for, pages of two lines (`Limit`), and four `Crews`, the processes that may meet.
- Pages: two batches, at most two overlapping loops, two clicks, one lost request,
  two attempts. The file rules are compared over dates around the end of a year, a
  leap day and three time zones, and over amounts in eight forms, one changed field at a time.

Deadlock is not checked: when all requests are answered and all jobs are done the
system rests.

### Fairness

- Fund uploads: `FairSpec` says that the API and the workers take the next step of
  what they have begun: the worker's process keeps running its jobs, and an Express
  handler that awaits a call goes on when it returns. Nothing is assumed of users,
  bank uploads or faults. `WorkerStep(j)` is fair per job; with fewer jobs than the
  five a worker runs at a time none waits for another.
  `UploadSettles` is checked under worker crashes only, because the code does not
  give more: an API process that dies after creating the batch leaves it QUEUED; a
  database that is down during the last attempt leaves it in progress; a cancel of a
  batch whose worker has crashed removes the job and may be overwritten or leave the
  batch as it was. Those are in the list of hazards.
  `WorkIsInHand` is the safety half of `UploadSettles`, and proved: whatever overlaps,
  an unfinished upload has a job or a request left that will see to it, but for the
  overlaps it names, so all that fairness adds is that jobs and requests move.
- Bank uploads: only the workers owe steps, and only `JobsFinish` is claimed.
- Reports: Redis drops keys in time (`Expire`); nothing else.
- Pages: the browser fires its intervals and runs its callbacks, and each request is
  answered or fails. The effect that owns the interval restarts when the list
  changes; a list changes only with an answer, answers to one callback are finite,
  and a poll that changes nothing leaves the interval alone, so it does fire.

## What the repository says and the code does not do


Three runs end in a violation, each of a sentence of the repository:

- `RollbackWaits`. "Cannot delete batches that are currently PARSING, VALIDATING,
  or PROCESSING" (`ROLLBACK_FEATURE.md:70`). The status is checked twice, before
  the transaction and not in it; an approval in between puts the batch back to
  PROCESSING and the rollback deletes it.
- `ClientsAreUnique`. "Skip if already exists (race condition)"
  (`EntityCreator.ts:39`). No constraint makes the database report that it does.
- `ApprovalResumes`. "Entities approved. Processing resumed."
  (`fundUploadRoutes.ts:255`). A second approval that checked the status in time
  and writes late puts a completed batch back to PROCESSING; its job is ignored.

Other consequences of the same gaps, which the model shows when asked and no run
repeats:

- Cancel does not remove the resume job and cannot stop a running one: the worker
  overwrites CANCELED with COMPLETED and stores rows after the response
  "Batch canceled successfully". Cancel does not refresh the views either.
- A batch FAILED on its last call (after the rows were stored) holds rows, while
  `ROLLBACK_FEATURE.md:88-90` says a failed batch holds none.
- A worker that crashes after pausing a batch, before its job is marked complete,
  leaves a job that runs again beside the approved one. It may detect the new
  entities before they are created and write WAITING_FOR_APPROVAL after the rows
  are posted. `WaitingMeansUnposted` is therefore checked without worker crashes.
- With two clients of one name, rows and accounts may point at different ones. A
  rollback then finds no account on its row's client, tries to delete it, and
  fails on `Restrict` while other files use it.
- The parser skips unreadable rows with a warning, so a COMPLETED batch need not
  hold every row of its file, although invalid rows fail the whole batch
  (`FundFileProcessor.ts:70-71`). `CompletedIsWhole` speaks of the rows read.

Of the bank pipeline, the matching and the views, met while modelling them:

- Opening a drilldown overwrites a manual match whose goal transactions lie outside
  the range of dates; `ManualMatchKept` says what remains true. Automatic matches
  are never cleared and may claim one goal code twice across ranges.
- `getVarianceTransactions` "Uses the SAME smart matching logic as Goal Comparison
  drilldown" (`SmartMatcher.ts:1445`) but leaves out the pass that matches one bank row with several goal transactions,
  takes only goals whose totals differ by more than 1000, and sorts the other way.
  The list of unmatched rows and the drilldown may therefore disagree.
- A single near amount blocks a combination. The tolerance of a combination of goal
  transactions is that of the bank amount.
- `varianceResolved` is not cleared by a new review. Detection may resolve two bank
  rows against one goal transaction; a row deleted meanwhile makes the marking stop
  half way, and the request fail. `getResolutionStats` counts codes in total and
  rows as resolved, so pending may be negative.
- `runReconciliation` and the older matcher store a goal code with
  VARIANCE_DETECTED, and the comparison takes a stored code for a match: the row is
  shown MATCHED. A run also overwrites the status a manual match has given, and rows
  that fail stay the oldest and can keep a bounded run from the later ones.
- Summary and comparison do not take the magnitude of a negative base, so a large
  withdrawal has the least tolerance there and one percent in a run. Account
  statuses apply the tolerance to the sums of an account, and may disagree with its
  goals. A code is REVIEWED in the list of variances once any of its rows is
  tagged, while the goal's page still counts its untagged rows.
- Filtering the comparison once more "ensures consistency between what user filters
  for and what's displayed" (`bankUploadRoutes.ts:980-981`). But rows are filtered
  before they are grouped: a group of several rows falls apart under a filter, and
  MISSING_IN_FUND and VARIANCE_DETECTED leave out rows whose stored status is MATCHED,
  by a user or from a fund file rolled back since, though the page without a filter
  shows them as missing. `FiltersAgree` is what remains.
- Re-linking or unlinking against another request leaves half a reversal pair.
- `scheduleNightlyRefresh` (`MaterializedViewService.ts:241`) is never called. After
  a cancel the views stay behind until the next upload, rollback or manual refresh.
- `invalidateRelatedCaches` deletes a key nobody sets. Cached prices may be stale for
  up to an hour after a race, a failed delete or a crash (`StaleCacheHeals`).
- `getGoalTransactions` filters on a column the view does not have;
  `/goal-transactions/stats` and `/api/bank-upload/transactions/export`
  (`bankUploadRoutes.ts:445`) are shadowed by routes with a parameter.
- "Keep raw value, validator will catch invalid" (`FundCSVParser.ts:129`): the
  validator only warns of an unknown type, and the insert fails after the approval.
- Fund dates are read month first, or in local or universal time, depending on their
  form; bank dates always in universal time. East of Greenwich a fund row of today
  in one form is warned of as a future one, and one written `25-01-2025` is dropped.
- The two dash forms `DD-MM-YYYY` and `DD-MM-YY` are read day first by the bank parser
  and month first by `new Date`: `05-06-25` is 5 June there and 6 May in a fund file.
- The fund parser drops `(-5)`, the bank parser reads -5. It strips pound, euro and yen
  signs, the bank parser only the dollar's, and so drops such a row. The bank file is
  refused for zero amounts, missing ids and future dates, which the fund file accepts.
- The net cash flow of the fund list subtracts withdrawals that are stored as negative
  amounts, and so adds them (`FundTransactionService.ts:281-287`).
- The registry of today counts rows and prices of later days, the registry as of today
  does not.
- The summary in an approval dialog may be of another batch: View Details of that batch,
  answered late, replaces it (`FundUpload.tsx:351`).
- The report of resolved variances groups reversals with the goal transaction whose code
  they carry, the list of unmatched transactions leaves them out; a line that one shows
  without a tag the other shows with the reversal's.
- Groups of one day have no order in the comparison, so a group may be on two of its
  pages or on none; a filter is applied to the page after it is cut, and the totals
  above it are those of the page (`bankUploadRoutes.ts:851, 980-1003`).
- Rows the parser cannot read are dropped although "no partial uploads allowed"
  (`FundFileProcessor.ts:193`). Critical price rules never fire, since the parser
  drops such rows.
- A page shows FAILED while the job is retried, and then no longer polls it; it asks
  for ever after a batch that was rolled back elsewhere.

## Proofs

All theorems hold for every value of the constants that satisfies the assumptions of
the module, which TLC evaluates in the runs: rows name batches, accounts, funds and
days there are (`FileAssumption`, `EntityAssumption`, `DataAssumption`, those of
`BankUpload`), `MaxAttempts` is positive (`BoundAssumption`), NULL is no request
(`UserAssumption`), the tables at the start hold ordered prices (`PriceAssumption`),
texts are made of the parts a parser tells apart (`TextAssumption`), there are
finitely many batches and rows, and an amount is split between four funds at most,
as many as there are (`PageAssumption` of
`UploadPage`, `DataAssumption`), pages hold at least one line (`PageAssumption` of
`ComparisonViews`), tables are finite, with
numbered days and whole amounts, in total and per fund (`RowAssumption`). Units and
amounts are integers that stand for decimals of a fixed number of places. Theorems
that need more say so in their statement.

| Theorem | Property | Argument |
|---|---|---|
| `FundUpload_proofs!TypeCorrect` | `TypeOK` | `TypeInv`: one lemma per kind of step; attempts stay in range because a job is active only while it has attempts left |
| `FundUpload_proofs!ReferencesResolve` | `ForeignKeys` | inductive with `TypeInv`: a save adds rows whose targets exist, a rollback removes goals, accounts and clients together with what refers to them, and creation only adds |
| `SweepIsSafe` | `SweepSparesSharedEntities` | from `ForeignKeys`: an account whose goals are all swept has no row left on it |
| `IdsStoredOnce` | | `SingleCopy`, which the ledger's steps promise too: only `SaveTransactions` adds rows, and under ids not stored |
| `PipelineImplementsLedger` | `ImplementsLedger` | initial states map to initial states; each action is a step of the ledger or changes none of its variables; needs `ForeignKeys` for goals with bank rows |
| `InvalidNeverPosted` | `InvalidFilesStayOut` | the invariant adds where the jobs of a bad file can be: never at detect, pause, create or save, and its batch is never approved |
| `FundFiles_proofs!FilesAreWhole` | `AllOrNothing` | for files that share no fundTransactionId: what `createMany` skips of a file is then its own, so a save completes the file; only a removal or a purge takes rows, and all of them |
| `FundFiles_proofs!CompletedFilesAreWhole` | `CompletedIsWhole` | as before, and where no request may cancel: `FinalWhole`, a file is whole from its save on, because a job comes to `final` only by a save that went through (`FinalFrom`), a deleted batch stays deleted, and COMPLETED is written at `final` only (`StatusFrom`). Both assumptions are needed: a cancel removes the process job and not the resume job, which may mark a file COMPLETED whose rows are deleted, and files that share an id store it once |
| `WaitingBatchesAreUnposted` | `WaitingMeansUnposted` | `AskedOnce` relates the two jobs of a batch: until its approval is asked for only the process job moves and nothing is stored, and while it waits there is no resume job and no decision on the way to enqueue one. Assumes distinct ids and no worker crash, and both are needed: a worker that dies after its pause asks again while the resume job stores the rows, and a file that shares an id is asked about again when it is stored in part |
| `WorkStaysInHand` | `WorkIsInHand` | `HandsInv`: a queued batch is being uploaded, has a waiting job, or is with a rollback that took its job and will delete it, since nothing is stored; a batch in progress has a job at one of the steps that settle it (`Settling`), or an approval about to queue its resume job; a process job goes back to its queue by a crash only, and a resume job exists only after an approval. Assumes `Reliable`: neither the API nor the database fails, and no job crashes more often than BullMQ forgives. Batches in progress for which an approval overlaps with another one or with a rollback, or which a cancel or a rollback meets where workers crash (`Contended`), are excepted, and each exception is needed: TLC finds the rest violated without it |
| `BankUpload_proofs!TypeCorrect` | `TypeOK` of the bank uploads | `TypeInv`: a job waits or runs only with attempts left, rows still to do are rows of the job's file, and a request is busy exactly while it has a batch |
| `BankUpload_proofs!ReferencesResolve` | `ForeignKeys` of the bank uploads | inductive with `TypeInv`: every step stores rows of a live batch on open goals, deletes rows, or leaves them (`StepCases`); a batch row goes with its rows, and a goal closes only when no bank row is on it |
| `BankImplementsLedger` | `ImplementsLedger` of the bank uploads | a step that changes the goals with bank rows opens or closes them as the ledger allows, and the fund side's steps are the ledger's own; needs `ForeignKeys` |
| `BankUpload_proofs!FilesAreWhole` | `AllOrNothing` of the bank uploads | `PlanInv`: what a worker has at `save` is the whole parsed file, and batches saved row by row are noted in `byRow` |
| `BankUpload_proofs!CompletedFilesAreWhole` | `CompletedIsWhole` of the bank uploads | `FinalWhole` as on the fund side, until a request undoes the upload (`UndoneStays`) |
| `CancelsHold` | `CancelHolds` | `CancelInv`: a batch is uploaded and queued once (`QueuedOnce`), so once a request has removed the job nothing saves its rows (`RemovalsHold`) |
| `Reconciliation_proofs!TypeCorrect` | `TypeOK` of the requests | `TypeInv`: every change of a row is one of a few (`RowsMove`) and keeps it typed (`RowTyped`), and every request holds what its operation lets it hold |
| `AnswersMatchOnce` | `MatchedOnce` | `Fits` holds before and after each turn of each pass: matches are apart, of rows read, and their sides agree (`PassFits`); `DrillInv` says a drilldown's matches are those of rows it has read |
| `ManualMatchesKept` | `ManualMatchKept` | from `DrillInv`: once a row has had its turn of the first pass it is in a match, or none of its codes is open (`ManualTried`), and as matches are apart a row of a match that is to be stored is in no manual one |
| `SummariesKnowMatches` | `SummaryKnowsMatches` | `KnownInv`: while nothing comes between, what was read is still so, and the bank rows of each match that is stored, or made by a user, name its goal transactions (`Named`) |
| `NothingIsLeft` | `NothingLeftToMatch` | what a turn tries stays tried as the open rows shrink (`TryingLasts`); after the third pass no pair is left (`AmountTurn`), after the fourth no bank rows of one day (`SplitTurn`): the greedy prefix may be a single row, but then the third pass would have paired it. Assumes `FewADay`, no more than ten bank rows of a goal share day and type, because the code searches the subsets of ten rows only |
| `ViewsAgree` | `ReviewViewsAgree` | page by page. The sums: each list partitions the rows of the window that are not reversals, by goal or by account, the comparison all rows by group, and its pages the groups (`PagesAddUp`); sums over the parts add up (`EntriesAddUp`, from `Sums`), for any page limit and any order of groups of one day. The progress: open groups of code and tag are the unreviewed codes, one to one (`OpenAreUnreviewed`). What is resolved needs an invariant, `CodesTagged`: tags and resolutions reach all stored rows of a code, so two tags of one code are the same, and a tagged row that is not resolved came after the resolved ones, which carry its tag; without it the report might show a line under another tag than the list, as it does for a code with reversals, whose tag is the exception |
| `RunsDecide` | `RunDecidesAll` | `RunInv`: while nothing comes between, what is pending is what the run has still to judge, unless it has left rows for the next run; a verdict is never PENDING (`VerdictDecides`) |
| `DetectionsComplete` | `DetectionIsComplete` | `DetectInv`: what a second detection would find, this one has still to mark; marking one bank row or one code takes it and nothing else from what there is to find (`BankMarked`, `GoalMarked`) |
| `Reconciliation_proofs!RemovalsHold` | `RemovalHolds` | every manual match carries the stamp of a request that has written it (`MatchesWritten`, `StampsWritten`); a removal is done only when no row it is about carries a stamp it knew of (`CodesCleared`), and no request writes twice |
| `Reports_proofs!TypeCorrect` | `TypeOK` of the reports | `TypeInv` adds what a line of a price file is from the parser to the write, and that a looked-up line is of a fund with prices |
| `CacheIsDropped` | `CacheFollowsPrices` | a request that changes prices owes the drop and goes on owing it (`WriterOwes`) |
| `ViewsCatchUp` | `ViewsFollowUploads` | `FollowInv`: one process at most holds a view, with a snapshot of the stored batches unless somebody has yet to refresh, or the view is noted as missed |
| `ListsAddUp` | `AnswersAddUp` | `ToldInv`: a reader since whose question nothing has changed has been told what the tables hold, part by part (`Told`); the rest is `Sums`: a page of everything adds up to the total (`PageAddsUp`), deposits and the rest partition the rows, whatever their signs, and funds do too, provided that each is one of the four the code names |
| `DashboardMatches` | `DashboardAgrees` | from `ToldInv`: the threshold in SQL selects the accounts the registry selects, and categories partition the accounts (`CategoriesAddUp`) |
| `AsOfMatches` | `AsOfAgrees` | from `ToldInv`: by holder or by account, the accounts' values add up to that of all rows (`WholeWorth`), accounts without rows are worth nothing, and the rows of later days, which only the view has, are the difference |
| `UploadPage_proofs!TypeCorrect` | `TypeOK` of the pages | `PageInv`: no answer is for a batch that was never uploaded, lists grow only by uploads, and loops hold positions their list had |
| `DatesReadAlike` | `DatesAgree` | by the forms of a date: both parsers come to one day number, within the hours of one day; of DD-MM-YYYY and DD-MM-YY, where month first and day first differ, only for a day and a month of one number |
| `FilesReadAlike` | `FilesTakeAlike` | rows by the verdicts on them: what the fund file takes the bank file takes too, for the same amount, unless it carries a currency sign only one of them strips, and a date in the future is flagged by both, unless it is in a dash form, which the fund parser leaves to `new Date` (`RowsRead`). Splits by the size of a part (`SplitsAlike`): a part above 100 is never taken for a percentage, a percentage found back from it is low by less than one, and as each of four parts loses less than one to rounding, percentages add up to more than 95 and amounts to within one fiftieth |
| `CodesAreApart` | `CodesSeparate` | a code splits into its parts in one way although transaction ids hold the separator: day, account and goal come first and have a fixed number of segments, the source comes last and has one (`FourSplit`, `OneSuffix`) |
| `DecidesWhatWasShown` | `ApprovedWhatWasShown` | `DecisionInv`: the dialog's batch and its entities change together, and its summary with them but for the answer of a View Details, which opens the other dialog |
| `LedgerConsistent` | `FundLedger!Consistent` | inductive as it stands |

The sums of the reports are those of the community modules, which take the members
of a set in an order of their own. `Sums` proves by induction, carried by a set of
the subsets for which the claim holds, that the order makes no difference, and from
that how a sum splits into parts and follows a change of names.

Model-checked only:

- liveness (`UploadSettles`, `JobsFinish`, `StaleCacheHeals`, `PageCatchesUp`), which
  is out of the prover's reach.

Every invariant the runs check is also stated by a theorem.

## Not modelled

Some ten thousand lines are markup of the frontend, exports, Excel readers and
scripts. In particular:

- The other pages, whose requests are among those the models let users make.
  `GoalComparison.tsx` also races with itself: a late drilldown of one goal is shown
  under the next, tags added while saving are lost, a bulk save keeps the notes of
  the first tag only, selections outlive filters and paging. It is listed as a hazard
  no property covers.
- Searches, paging but for the comparison's and the first pages of reports, exports,
  formatting and wording. The exports
  repeat the queries of the pages; that of the transactions filters on the stored
  status and ignores stored codes (`Export`).
- The Excel readers give the text rules the same cells as text; numeric cells do not
  reach them (`raw: false`), and a date cell arrives as month/day/year and is swapped
  or dropped.
- Null transaction ids and sources of fund rows, possible before 2025 only: the filters
  `source: { not: ... }` of the drilldown (`SmartMatcher.ts:797`) drop such rows, the
  summary keeps them. The figures of the comparison's pages of what is missing in the bank.
- Dates as YYYY/MM/DD, Mon-DD-YYYY, DD-Mon-YYYY, with one digit for a day or a month, or
  as serial numbers of Excel.
- Warnings about the format of account and goal numbers and of names; `parse`,
  `validate` and `validateFundDistribution` of the code generator, and
  `getGoalTransactionsComputed`, which have no caller.
- The dialog with all uploads, alerts, and the details dialog of the bank page.
- The application shell (wiring, configuration, logging, file storage) and the
  maintenance scripts, run by hand on a stopped system.

## Plan

Liveness apart, no property of the runs waits for a proof.

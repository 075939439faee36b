------------------------ MODULE Reconciliation_proofs ------------------------
(***************************************************************************)
(* What requests about bank and fund rows may rely on, for any number of   *)
(* rows, codes, users and requests: proofs about Reconciliation and what   *)
(* ComparisonViews shows of it.                                            *)
(***************************************************************************)
EXTENDS ComparisonViews, Sums

\* The columns and the parts of a request are always those they started with.
Shaped ==
    /\ bank = [b \in BankTxn |-> bank[b]]
    /\ \A b \in BankTxn : DOMAIN bank[b] = DOMAIN NewBankRow
    /\ fund = [f \in FundRow |-> fund[f]]
    /\ \A f \in FundRow : DOMAIN fund[f] = DOMAIN NewFundRow
    /\ tasks = [q \in Request |-> tasks[q]]
    /\ \A q \in Request : DOMAIN tasks[q] = DOMAIN Idle

\* A step of request p leaves the other requests as they are; it goes on with p's
\* operation, or starts one, and is p's alone only if the last step was p's too.
Acted(p) ==
    /\ \A q \in Request \ {p} : tasks'[q] = tasks[q]
    /\ alone' \in {p, NULL}
    /\ \/ tasks[p].pc = "idle"
       \/ tasks[p].pc # "idle" /\ tasks'[p].op = tasks[p].op /\ (alone' = p => alone = p)

\* What a table row may hold at the start (Init).
Fresh(b, o, row) == row = [NewBankRow EXCEPT !.at = Whereabouts(b, o)]
FromOlder(row) ==
    \E v, c : row = Judged(v, c) /\ (c = NoMatch \/ \E d : c = GoalMatch({d}))
LEMMA StoredRows ==
    ASSUME NEW b, NEW o, NEW row \in Stored(b, o)
    PROVE  Fresh(b, o, row) \/ FromOlder(row)
<1>1. CASE b \notin o.rows \intersect o.older
    BY <1>1 DEF Stored, Fresh
<1>2. CASE b \in o.rows \intersect o.older
    <2> DEFINE read == o.rows \intersect FundRow
    <2>1. PICK v \in OlderVerdicts(b, read), c \in FirstCodes(SameKey(b, read)) : row = Judged(v, c)
        BY <1>2 DEF Stored
    <2>2. c = NoMatch \/ \E d : c = GoalMatch({d})
        BY <2>1 DEF FirstCodes
    <2> QED BY <2>1, <2>2 DEF FromOlder
<1> QED BY <1>1, <1>2

\* The rows of both tables start with their columns (Init).
LEMMA InitShaped == Init => Shaped
<1> SUFFICES ASSUME Init PROVE Shaped
    OBVIOUS
<1>1. PICK o \in Opening :
        /\ bank \in {row \in [BankTxn -> UNION {Stored(b, o) : b \in BankTxn}] :
                       \A b \in BankTxn : row[b] \in Stored(b, o)}
        /\ fund = [f \in FundRow |-> [NewFundRow EXCEPT !.at = Whereabouts(f, o)]]
    BY DEF Init
<1>2. bank = [b \in BankTxn |-> bank[b]] /\ \A b \in BankTxn : bank[b] \in Stored(b, o)
    BY <1>1
<1>3. ASSUME NEW b \in BankTxn PROVE DOMAIN bank[b] = DOMAIN NewBankRow
    <2>1. Fresh(b, o, bank[b]) \/ FromOlder(bank[b])
        BY <1>2, StoredRows
    <2> QED BY <2>1 DEF Fresh, FromOlder, Judged, NewBankRow
<1>4. ASSUME NEW f \in FundRow PROVE DOMAIN fund[f] = DOMAIN NewFundRow
    BY <1>1 DEF NewFundRow
<1>5. fund = [f \in FundRow |-> fund[f]]
    BY <1>1
<1>6. tasks = [q \in Request |-> tasks[q]] /\ \A q \in Request : DOMAIN tasks[q] = DOMAIN Idle
    BY DEF Init
<1> QED BY <1>2, <1>3, <1>4, <1>5, <1>6 DEF Shaped

\* A request that comes in, whatever it does to the tables (UserRequest).
LEMMA ReceiveActs ==
    ASSUME Shaped, NEW p \in Request, NEW op, NEW task, DOMAIN task = DOMAIN Idle,
           Receive(p, op, task)
    PROVE  /\ tasks' = [q \in Request |-> tasks'[q]]
           /\ \A q \in Request : DOMAIN tasks'[q] = DOMAIN Idle
           /\ tasks'[p] = [task EXCEPT !.op = op]
           /\ tasks'[p].op = op /\ tasks'[p].stamps = task.stamps
           /\ alone' = p /\ tasks[p].pc = "idle" /\ Acted(p)
BY DEF Shaped, Receive, Acted, Idle

\* A step within a request (RequestStep).
LEMMA ProceedActs ==
    ASSUME Shaped, NEW p \in Request, NEW task, DOMAIN task = DOMAIN Idle,
           tasks[p].pc # "idle", task.op = tasks[p].op, Proceed(p, task)
    PROVE  /\ tasks' = [q \in Request |-> tasks'[q]]
           /\ \A q \in Request : DOMAIN tasks'[q] = DOMAIN Idle
           /\ tasks'[p] = task /\ Acted(p)
BY UserAssumption DEF Shaped, Proceed, Acted, Idle

\* What the statements of a request make of the tables keeps their columns.
TablesShaped ==
    /\ bank = [b \in BankTxn |-> bank[b]]
    /\ \A b \in BankTxn : DOMAIN bank[b] = DOMAIN NewBankRow
    /\ fund = [f \in FundRow |-> fund[f]]
    /\ \A f \in FundRow : DOMAIN fund[f] = DOMAIN NewFundRow

\* The manual matches there are, by the requests that wrote them (BeginUnmatch).
Stamps == {bank[b].match.by : b \in StoredBank} \ {NULL}

\* A request that comes in is alone, and the columns stay (UserRequest).
LEMMA UserActs ==
    ASSUME Shaped, NEW p \in Request, UserRequest(p)
    PROVE  /\ Shaped' /\ Acted(p) /\ alone' = p /\ tasks[p].pc = "idle"
           /\ tasks'[p].stamps \subseteq Stamps
<1> DEFINE Came == \E op, task : /\ DOMAIN task = DOMAIN Idle /\ task.stamps \subseteq Stamps
                                 /\ Receive(p, op, task)
           Kept == TablesShaped'
<1>1. ASSUME NEW s \in Selection, CheckTotals(p, s.banks, s.codes) PROVE Came /\ Kept
    BY <1>1 DEF CheckTotals, Idle, TablesShaped, Shaped
<1>2. ASSUME NEW s \in Selection, BeginUnmatch(p, s.banks, s.codes) PROVE Came /\ Kept
    BY <1>2 DEF BeginUnmatch, Stamps, Idle, TablesShaped, Shaped
<1>3. ASSUME NEW s \in Selection, NEW t \in Tag, BulkReviewBank(p, s.banks, s.codes, t)
      PROVE  Came /\ Kept
    <2>1. Came
        BY <1>3 DEF BulkReviewBank, Idle
    <2> QED BY <1>3, <2>1 DEF BulkReviewBank, TagBank, UpdateBank, TablesShaped, Shaped, NewBankRow
<1>4. ASSUME NEW b \in BankTxn, NEW t \in Tag, ReviewBank(p, b, t) PROVE Came /\ Kept
    <2>1. Came
        BY <1>4 DEF ReviewBank, Finished, Idle
    <2> QED BY <1>4, <2>1 DEF ReviewBank, TagBank, UpdateBank, TablesShaped, Shaped, NewBankRow
<1>5. ASSUME NEW c \in Code, NEW t \in Tag, ReviewGoal(p, c, t) PROVE Came /\ Kept
    <2>1. Came
        BY <1>5 DEF ReviewGoal, Finished, Idle
    <2> QED BY <1>5, <2>1 DEF ReviewGoal, TagFund, UpdateFund, TablesShaped, Shaped, NewFundRow
<1>6. ASSUME NEW b \in BankTxn, NEW s \in Decision, SetStatus(p, b, s) PROVE Came /\ Kept
    <2>1. Came
        BY <1>6 DEF SetStatus, Finished, Idle
    <2> QED BY <1>6, <2>1 DEF SetStatus, UpdateBank, TablesShaped, Shaped, NewBankRow
<1>7. ASSUME NEW b \in BankTxn, NEW c \in BankTxn, LinkReversal(p, b, c) PROVE Came /\ Kept
    <2>1. Came
        BY <1>7 DEF LinkReversal, Finished, Idle
    <2> QED BY <1>7, <2>1 DEF LinkReversal, TablesShaped, Shaped, NewBankRow
<1>8. ASSUME NEW b \in BankTxn, BeginUnlink(p, b) PROVE Came /\ Kept
    BY <1>8 DEF BeginUnlink, Idle, TablesShaped, Shaped
<1>9. ASSUME NEW w \in Window, NEW g \in Goal, ReadBankRows(p, w, g) PROVE Came /\ Kept
    BY <1>9 DEF ReadBankRows, Idle, TablesShaped, Shaped
<1>10. ASSUME Detect(p) PROVE Came /\ Kept
    BY <1>10 DEF Detect, Idle, TablesShaped, Shaped
<1>11. ASSUME StartRun(p) PROVE Came /\ Kept
    BY <1>11 DEF StartRun, Idle, TablesShaped, Shaped
<1>12. Came /\ Kept
    BY <1>1, <1>2, <1>3, <1>4, <1>5, <1>6, <1>7, <1>8, <1>9, <1>10, <1>11 DEF UserRequest
<1>13. PICK op, task : /\ DOMAIN task = DOMAIN Idle /\ task.stamps \subseteq Stamps
                       /\ Receive(p, op, task)
    BY <1>12
<1> QED BY <1>12, <1>13, ReceiveActs DEF Shaped, TablesShaped

\* A step within a request (RequestStep).
LEMMA StepActs ==
    ASSUME Shaped, NEW p \in Request, RequestStep(p)
    PROVE  /\ Shaped' /\ Acted(p)
           /\ tasks[p].pc # "idle" /\ tasks'[p].op = tasks[p].op
           /\ tasks'[p].stamps = tasks[p].stamps
<1> DEFINE Went == \E task : /\ DOMAIN task = DOMAIN Idle /\ tasks[p].pc # "idle"
                             /\ task.op = tasks[p].op /\ task.stamps = tasks[p].stamps
                             /\ Proceed(p, task)
           Kept == TablesShaped'
<1>0. /\ DOMAIN tasks[p] = DOMAIN Idle
      /\ \A pc : DOMAIN [tasks[p] EXCEPT !.pc = pc] = DOMAIN Idle
                   /\ [tasks[p] EXCEPT !.pc = pc].op = tasks[p].op
                   /\ [tasks[p] EXCEPT !.pc = pc].stamps = tasks[p].stamps
      /\ DOMAIN Finished(tasks[p]) = DOMAIN Idle /\ Finished(tasks[p]).op = tasks[p].op
      /\ Finished(tasks[p]).stamps = tasks[p].stamps
    BY DEF Shaped, Finished, Idle
<1>1. ASSUME WriteMatch(p) PROVE Went /\ Kept
    <2>1. Went
        BY <1>0, <1>1 DEF WriteMatch, At, Finish
    <2> QED BY <1>1, <2>1 DEF WriteMatch, UpdateBank, TablesShaped, Shaped, NewBankRow
<1>2. ASSUME UnmatchIds(p) PROVE Went /\ Kept
    <2>1. Went
        BY <1>0, <1>2 DEF UnmatchIds, At, Finish, Goto
    <2> QED BY <1>2, <2>1 DEF UnmatchIds, UpdateBank, Settled, TablesShaped, Shaped, NewBankRow
<1>3. ASSUME UnmatchExact(p) PROVE Went /\ Kept
    <2>1. Went
        BY <1>0, <1>3 DEF UnmatchExact, At, Idle
    <2> QED BY <1>3, <2>1 DEF UnmatchExact, UpdateBank, Settled, TablesShaped, Shaped, NewBankRow
<1>4. ASSUME NEW c \in Code, UnmatchContains(p, c) PROVE Went /\ Kept
    <2>1. Went
        BY <1>0, <1>4 DEF UnmatchContains, At, Idle, Finish
    <2> QED BY <1>4, <2>1 DEF UnmatchContains, UpdateBank, Settled, TablesShaped, Shaped, NewBankRow
<1>5. ASSUME BulkReviewGoal(p) PROVE Went /\ Kept
    <2>1. Went
        BY <1>0, <1>5 DEF BulkReviewGoal, At, Finish
    <2> QED BY <1>5, <2>1 DEF BulkReviewGoal, TagFund, UpdateFund, TablesShaped, Shaped, NewFundRow
<1>6. ASSUME UnlinkFirst(p) PROVE Went /\ Kept
    <2>1. Went
        BY <1>0, <1>6 DEF UnlinkFirst, At, Finish, Goto
    <2> QED BY <1>6, <2>1 DEF UnlinkFirst, TagBank, UpdateBank, TablesShaped, Shaped, NewBankRow
<1>7. ASSUME FindPartner(p) PROVE Went /\ Kept
    <2>1. Went
        BY <1>0, <1>7 DEF FindPartner, At, Finish, Goto
    <2> QED BY <1>7, <2>1 DEF FindPartner, TablesShaped, Shaped
<1>8. ASSUME UnlinkSecond(p) PROVE Went /\ Kept
    <2>1. Went
        BY <1>0, <1>8 DEF UnlinkSecond, At, Finish
    <2> QED BY <1>8, <2>1 DEF UnlinkSecond, TagBank, UpdateBank, TablesShaped, Shaped, NewBankRow
<1>9. ASSUME MatchRows(p) PROVE Went /\ Kept
    <2>1. Went
        BY <1>0, <1>9 DEF MatchRows, At, Idle
    <2> QED BY <1>9, <2>1 DEF MatchRows, TablesShaped, Shaped
<1>10. ASSUME EndDrilldown(p) PROVE Went /\ Kept
    BY <1>0, <1>10 DEF EndDrilldown, At, Finish, TablesShaped, Shaped
<1>11. ASSUME NEW m \in tasks[p].todo, PersistMatch(p, m) PROVE Went /\ Kept
    <2>1. Went
        BY <1>0, <1>11 DEF PersistMatch, At, Idle
    <2> QED BY <1>11, <2>1 DEF PersistMatch, UpdateBank, TablesShaped, Shaped, NewBankRow
<1>12. ASSUME EndDetect(p) PROVE Went /\ Kept
    BY <1>0, <1>12 DEF EndDetect, At, Finish, TablesShaped, Shaped
<1>13. ASSUME NEW b \in BankTxn, MarkBank(p, b) PROVE Went /\ Kept
    <2>1. Went
        BY <1>0, <1>13 DEF MarkBank, At, Idle, Finish
    <2> QED BY <1>13, <2>1 DEF MarkBank, UpdateBank, TablesShaped, Shaped, NewBankRow
<1>14. ASSUME NEW c \in Code, MarkGoal(p, c) PROVE Went /\ Kept
    <2>1. Went
        BY <1>0, <1>14 DEF MarkGoal, At, Idle
    <2> QED BY <1>14, <2>1 DEF MarkGoal, UpdateFund, TablesShaped, Shaped, NewFundRow
<1>15. ASSUME EndRun(p) PROVE Went /\ Kept
    BY <1>0, <1>15 DEF EndRun, At, Finish, TablesShaped, Shaped
<1>16. ASSUME WriteVerdict(p) PROVE Went /\ Kept
    <2>1. Went
        BY <1>0, <1>16 DEF WriteVerdict, At, Idle
    <2> QED BY <1>16, <2>1 DEF WriteVerdict, UpdateBank, TablesShaped, Shaped, NewBankRow
<1>17. ASSUME NEW b \in BankTxn, JudgeRow(p, b) PROVE Went /\ Kept
    <2>1. Went
        BY <1>0, <1>17 DEF JudgeRow, At, Idle
    <2> QED BY <1>17, <2>1 DEF JudgeRow, TablesShaped, Shaped
<1>18. Went /\ Kept
    BY <1>1, <1>2, <1>3, <1>4, <1>5, <1>6, <1>7, <1>8, <1>9, <1>10, <1>11, <1>12, <1>13, <1>14,
       <1>15, <1>16, <1>17 DEF RequestStep
<1>19. PICK task : /\ DOMAIN task = DOMAIN Idle /\ tasks[p].pc # "idle"
                   /\ task.op = tasks[p].op /\ task.stamps = tasks[p].stamps
                   /\ Proceed(p, task)
    BY <1>18
<1> QED BY <1>18, <1>19, ProceedActs DEF Shaped, TablesShaped

\* Uploads and rollbacks end the time any request was alone (the environment).
LEMMA RowsMove ==
    ASSUME Shaped, NEW r, Uploaded(r) \/ RolledBack(r)
    PROVE  Shaped' /\ alone' = NULL /\ tasks' = tasks
<1>1. CASE Uploaded(r)
    BY <1>1 DEF Uploaded, Shaped, NewBankRow, NewFundRow
<1>2. CASE RolledBack(r)
    BY <1>2 DEF RolledBack, Shaped, StoredBank, StoredFund, NewBankRow, NewFundRow
<1> QED BY <1>1, <1>2

LEMMA NextShaped == Shaped /\ [Next]_vars => Shaped'
<1> SUFFICES ASSUME Shaped, [Next]_vars PROVE Shaped'
    OBVIOUS
<1>1. CASE UNCHANGED vars
    BY <1>1 DEF vars, Shaped
<1> QED BY <1>1, UserActs, StepActs, RowsMove DEF Next

\* Which steps a request of one operation takes; one that is answered takes none
\* (RequestStep).
LEMMA OpSteps ==
    ASSUME NEW p \in Request, RequestStep(p)
    PROVE  /\ tasks[p].pc # "ok"
           /\ tasks[p].op = "run" =>
                EndRun(p) \/ WriteVerdict(p) \/ \E b \in BankTxn : JudgeRow(p, b)
           /\ tasks[p].op = "detect" =>
                \/ EndDetect(p) \/ \E b \in BankTxn : MarkBank(p, b)
                \/ \E c \in Code : MarkGoal(p, c)
           /\ tasks[p].op = "unmatch" =>
                \/ UnmatchIds(p) \/ UnmatchExact(p)
                \/ \E c \in Code : UnmatchContains(p, c)
           /\ tasks[p].op = "drilldown" =>
                MatchRows(p) \/ EndDrilldown(p) \/ \E m \in tasks[p].todo : PersistMatch(p, m)
BY DEF RequestStep, At, WriteMatch, UnmatchIds, UnmatchExact, UnmatchContains, BulkReviewGoal,
       UnlinkFirst, FindPartner, UnlinkSecond, MatchRows, EndDrilldown, PersistMatch, EndDetect,
       MarkBank, MarkGoal, EndRun, WriteVerdict, JudgeRow

\* How a request of one operation comes in (UserRequest).
LEMMA OpBegins ==
    ASSUME Shaped, NEW p \in Request, UserRequest(p)
    PROVE  /\ tasks'[p].op = "run" => StartRun(p)
           /\ tasks'[p].op = "detect" => Detect(p)
           /\ tasks'[p].op = "unmatch" =>
                \E s \in Selection : BeginUnmatch(p, s.banks, s.codes)
           /\ tasks'[p].op = "match" =>
                \E s \in Selection : CheckTotals(p, s.banks, s.codes)
           /\ tasks'[p].op = "drilldown" =>
                \E w \in Window, g \in Goal : ReadBankRows(p, w, g)
<1> DEFINE Came(op) == \E task : DOMAIN task = DOMAIN Idle /\ Receive(p, op, task)
<1>1. ASSUME NEW op, Came(op) PROVE tasks'[p].op = op
    BY <1>1, ReceiveActs
<1>2. ASSUME NEW s \in Selection, CheckTotals(p, s.banks, s.codes) PROVE Came("match")
    BY <1>2 DEF CheckTotals, Idle
<1>3. ASSUME NEW s \in Selection, BeginUnmatch(p, s.banks, s.codes) PROVE Came("unmatch")
    BY <1>3 DEF BeginUnmatch, Idle
<1>4. ASSUME NEW s \in Selection, NEW t \in Tag, BulkReviewBank(p, s.banks, s.codes, t)
      PROVE  Came("bulk")
    BY <1>4 DEF BulkReviewBank, Idle
<1>5. ASSUME NEW b \in BankTxn, NEW t \in Tag, ReviewBank(p, b, t) PROVE Came("review")
    BY <1>5 DEF ReviewBank, Finished, Idle
<1>6. ASSUME NEW c \in Code, NEW t \in Tag, ReviewGoal(p, c, t) PROVE Came("review")
    BY <1>6 DEF ReviewGoal, Finished, Idle
<1>7. ASSUME NEW b \in BankTxn, NEW s \in Decision, SetStatus(p, b, s) PROVE Came("status")
    BY <1>7 DEF SetStatus, Finished, Idle
<1>8. ASSUME NEW b \in BankTxn, NEW c \in BankTxn, LinkReversal(p, b, c) PROVE Came("link")
    BY <1>8 DEF LinkReversal, Finished, Idle
<1>9. ASSUME NEW b \in BankTxn, BeginUnlink(p, b) PROVE Came("unlink")
    BY <1>9 DEF BeginUnlink, Idle
<1>10. ASSUME NEW w \in Window, NEW g \in Goal, ReadBankRows(p, w, g) PROVE Came("drilldown")
    BY <1>10 DEF ReadBankRows, Idle
<1>11. ASSUME Detect(p) PROVE Came("detect")
    BY <1>11 DEF Detect, Idle
<1>12. ASSUME StartRun(p) PROVE Came("run")
    BY <1>12 DEF StartRun, Idle
<1> HIDE DEF Came
<1> QED BY <1>1, <1>2, <1>3, <1>4, <1>5, <1>6, <1>7, <1>8, <1>9, <1>10, <1>11, <1>12 DEF UserRequest

-----------------------------------------------------------------------------
(* A run decides all it took *)

\* While nothing comes between, a run that will report no more has taken every row that
\* is pending and has not passed it over; no verdict is "PENDING".
RunInv == \A q \in Request : tasks[q].op = "run" =>
    /\ tasks[q].pc = "write" => tasks[q].verdict.status # "PENDING"
    /\ alone = q /\ ~tasks[q].more =>
         /\ tasks[q].pc \in {"judge", "write"} => Pending \subseteq tasks[q].banks
         /\ tasks[q].pc = "ok" => Pending = {}

\* With no more rows than a run takes, it takes them all (findMany's take).
LEMMA OldestAreAll ==
    ASSUME NEW B, IsFiniteSet(B), Cardinality(B) <= RunLimit, NEW T \in Oldest(B)
    PROVE  T = B
<1>1. T \in SUBSET B /\ Cardinality(T) = Smaller(Cardinality(B), RunLimit)
    BY DEF Oldest
<1>2. Cardinality(B) \in Nat /\ RunLimit \in Nat
    BY FS_CardinalityType, UserAssumption
<1>3. Cardinality(T) = Cardinality(B)
    BY <1>1, <1>2 DEF Smaller
<1> QED BY <1>1, <1>3, FS_Subset

LEMMA VerdictDecides ==
    ASSUME NEW b, NEW F, NEW v \in Verdicts(b, F) PROVE v # "PENDING"
<1> DEFINE same == SameKey(b, F)
<1>1. CASE same = {}
    BY <1>1 DEF Verdicts
<1>2. CASE same # {} /\ ~Agrees(b.amount, Total(same), Total(same))
    BY <1>2 DEF Verdicts
<1>3. CASE same # {} /\ Agrees(b.amount, Total(same), Total(same))
    <2> DEFINE off(row) == \E k \in FundCode :
                   Gap(b, row, k) > MinTolerance
                     /\ 100 * Gap(b, row, k) > Larger(Held(row, k), 1)
    <2>1. v \in {IF off(row) THEN "AUTO_APPROVED" ELSE "MATCHED" : row \in LastRead(same)}
        BY <1>3 DEF Verdicts
    <2> HIDE DEF off
    <2> QED BY <2>1
<1> QED BY <1>1, <1>2, <1>3

LEMMA NextRunInv == Shaped /\ RunInv /\ [Next]_vars => RunInv'
<1> SUFFICES ASSUME Shaped, RunInv, [Next]_vars PROVE RunInv'
    OBVIOUS
<1> DEFINE Decided(q) == tasks[q].op = "run" =>
               /\ tasks[q].pc = "write" => tasks[q].verdict.status # "PENDING"
               /\ alone = q /\ ~tasks[q].more =>
                    /\ tasks[q].pc \in {"judge", "write"} => Pending \subseteq tasks[q].banks
                    /\ tasks[q].pc = "ok" => Pending = {}
<1>1. ASSUME NEW q \in Request, tasks'[q] = tasks[q], alone' # q PROVE Decided(q)'
    BY <1>1 DEF RunInv
<1>2. ASSUME NEW p \in Request, UserRequest(p) PROVE Decided(p)'
    <2> SUFFICES ASSUME tasks'[p].op = "run" PROVE Decided(p)'
        OBVIOUS
    <2>1. StartRun(p)
        BY <1>2, OpBegins
    <2>2. PICK taken \in Oldest(Pending) :
            Receive(p, "run", [Idle EXCEPT !.pc = "judge", !.banks = taken,
                                           !.more = Cardinality(Pending) > RunLimit])
        BY <2>1 DEF StartRun
    <2>3. /\ tasks'[p].pc = "judge" /\ tasks'[p].banks = taken
          /\ tasks'[p].more <=> Cardinality(Pending) > RunLimit
        <3> DEFINE task == [Idle EXCEPT !.pc = "judge", !.banks = taken,
                                        !.more = Cardinality(Pending) > RunLimit]
        <3>1. tasks'[p] = [task EXCEPT !.op = "run"]
            BY <2>2, ReceiveActs DEF Idle
        <3> QED BY <3>1 DEF Idle
    <2>4. IsFiniteSet(Pending)
        BY RowAssumption, FS_Subset DEF Pending, StoredBank
    <2>5. ~tasks'[p].more => taken = Pending
        BY <2>3, <2>4, OldestAreAll, FS_CardinalityType, UserAssumption
    <2>6. Pending' = Pending
        BY <2>1 DEF StartRun, Pending, StoredBank
    <2> QED BY <2>3, <2>5, <2>6
<1>3. ASSUME NEW p \in Request, RequestStep(p) PROVE Decided(p)'
    <2> SUFFICES ASSUME tasks'[p].op = "run" PROVE Decided(p)'
        OBVIOUS
    <2>0. tasks[p].op = "run" /\ (alone' = p => alone = p) /\ Decided(p)
          /\ DOMAIN tasks[p] = DOMAIN Idle
        BY <1>3, StepActs DEF Acted, RunInv, Shaped
    <2>1. CASE EndRun(p)
        <3>1. tasks'[p] = Finished(tasks[p]) /\ bank' = bank /\ tasks[p].banks = {}
              /\ tasks[p].pc = "judge"
            BY <2>1 DEF EndRun, Finish, Proceed, At, Shaped
        <3>2. tasks'[p].pc = "ok" /\ tasks'[p].more = tasks[p].more
            BY <3>1 DEF Finished, Idle
        <3>3. Pending' = Pending
            BY <3>1 DEF Pending, StoredBank
        <3> QED BY <2>0, <3>1, <3>2, <3>3
    <2>2. CASE WriteVerdict(p)
        <3> DEFINE v == tasks[p].verdict
        <3>1. /\ tasks'[p].pc = "judge" /\ tasks'[p].banks = tasks[p].banks \ {v.row}
              /\ tasks'[p].more = tasks[p].more /\ tasks[p].pc = "write"
            BY <2>0, <2>2 DEF WriteVerdict, Proceed, At, Shaped, Idle
        <3>2. ASSUME NEW b \in Pending' PROVE b \in Pending \ {v.row}
            <4>1. b \in BankTxn /\ bank'[b].at = "stored" /\ bank'[b].status = "PENDING"
                BY DEF Pending, StoredBank
            <4>2. CASE b \in {v.row} \intersect StoredBank
                <5>1. bank'[b].status = v.status
                    BY <2>2, <4>1, <4>2 DEF WriteVerdict, UpdateBank, Shaped, NewBankRow
                <5> QED BY <4>1, <5>1, <3>1, <2>0
            <4>3. CASE b \notin {v.row} \intersect StoredBank
                <5>1. bank'[b] = bank[b]
                    BY <2>2, <4>1, <4>3 DEF WriteVerdict, UpdateBank
                <5> QED BY <4>1, <4>3, <5>1 DEF Pending, StoredBank
            <4> QED BY <4>2, <4>3
        <3> QED BY <2>0, <3>1, <3>2
    <2>3. ASSUME NEW b \in BankTxn, JudgeRow(p, b) PROVE Decided(p)'
        <3>1. PICK verdict \in Verdicts(b, StoredFund) : \E c :
                Proceed(p, [tasks[p] EXCEPT !.pc = "write",
                               !.verdict = [row |-> b, status |-> verdict, code |-> c]])
            BY <2>3 DEF JudgeRow
        <3>2. PICK c : Proceed(p, [tasks[p] EXCEPT !.pc = "write",
                               !.verdict = [row |-> b, status |-> verdict, code |-> c]])
            BY <3>1
        <3>3. /\ tasks'[p].pc = "write" /\ tasks'[p].banks = tasks[p].banks
              /\ tasks'[p].more = tasks[p].more /\ tasks'[p].verdict.status = verdict
              /\ tasks[p].pc = "judge" /\ bank' = bank
            BY <2>0, <2>3, <3>2 DEF Proceed, JudgeRow, At, Shaped, Idle
        <3>4. Pending' = Pending
            BY <3>3 DEF Pending, StoredBank
        <3> QED BY <2>0, <3>3, <3>4, VerdictDecides
    <2> QED BY <1>3, <2>0, <2>1, <2>2, <2>3, OpSteps
<1>4. ASSUME NEW p \in Request, UserRequest(p) \/ RequestStep(p) PROVE RunInv'
    <2>1. Acted(p)
        BY <1>4, UserActs, StepActs
    <2>2. \A q \in Request \ {p} : tasks'[q] = tasks[q] /\ alone' # q
        BY <2>1, UserAssumption DEF Acted
    <2>3. \A q \in Request : Decided(q)'
        BY <1>1, <1>2, <1>3, <1>4, <2>2
    <2> QED BY <2>3 DEF RunInv
<1>5. ASSUME NEW r, Uploaded(r) \/ RolledBack(r) PROVE RunInv'
    <2>1. \A q \in Request : tasks'[q] = tasks[q] /\ alone' # q
        BY <1>5, RowsMove, UserAssumption
    <2>2. \A q \in Request : Decided(q)'
        BY <1>1, <2>1
    <2> QED BY <2>2 DEF RunInv
<1>6. CASE UNCHANGED vars
    BY <1>6 DEF vars, RunInv, Pending, StoredBank
<1> QED BY <1>4, <1>5, <1>6 DEF Next

\* Whatever the rows, the limit and the requests: a run of runReconciliation that reports
\* no more pending rows, and that nothing came between, has decided every one.
THEOREM RunsDecide == Spec => []RunDecidesAll
<1>1. Init => RunInv
    BY DEF Init, RunInv, Idle
<1>2. RunInv => RunDecidesAll
    BY DEF RunInv, RunDecidesAll
<1> QED BY <1>1, <1>2, InitShaped, NextShaped, NextRunInv, PTL DEF Spec

-----------------------------------------------------------------------------
(* A detection finds all there is to find *)

\* While nothing comes between, a detection has yet to mark every bank row and every
\* goal transaction that a second one would find, and its bank rows are there.
DetectInv == \A q \in Request : tasks[q].op = "detect" /\ alone = q =>
    /\ tasks[q].pc = "bank" => /\ tasks[q].banks \subseteq StoredBank
                               /\ ResolvedBank \subseteq tasks[q].banks
                               /\ ResolvedGoals \subseteq tasks[q].codes
    /\ tasks[q].pc = "ok" => ResolvedBank = {} /\ ResolvedGoals = {}

\* Goal transactions of other codes do not notice that the rows of one are left out.
LEMMA OtherGoalTxns ==
    ASSUME NEW F, NEW G, NEW c, \A f : f \in G <=> f \in F /\ f.code # c
    PROVE  \A g : g \in GoalTxns(G) <=> g \in GoalTxns(F) /\ g.code # c
<1>1. ASSUME NEW k, NEW type, k # c PROVE GoalTxn(k, type, G) = GoalTxn(k, type, F)
    <2>1. {f \in G : f.code = k /\ f.type = type} = {f \in F : f.code = k /\ f.type = type}
        BY <1>1
    <2> QED BY <2>1 DEF GoalTxn
<1>2. \A k, type, H : GoalTxn(k, type, H).code = k
    BY DEF GoalTxn
<1>3. ASSUME NEW g \in GoalTxns(G) PROVE g \in GoalTxns(F) /\ g.code # c
    <2>1. PICK f \in G : g = GoalTxn(f.code, f.type, G)
        BY DEF GoalTxns
    <2>2. f \in F /\ f.code # c /\ g = GoalTxn(f.code, f.type, F)
        BY <1>1, <2>1
    <2> QED BY <1>2, <2>2 DEF GoalTxns
<1>4. ASSUME NEW g \in GoalTxns(F), g.code # c PROVE g \in GoalTxns(G)
    <2>1. PICK f \in F : g = GoalTxn(f.code, f.type, F)
        BY DEF GoalTxns
    <2>2. f \in G /\ g = GoalTxn(f.code, f.type, G)
        BY <1>1, <1>2, <1>4, <2>1
    <2> QED BY <2>2 DEF GoalTxns
<1> QED BY <1>3, <1>4

\* Marking a bank row takes it, and nothing else, from what there is to find (MarkBank).
LEMMA BankMarked ==
    ASSUME Shaped, NEW p \in Request, NEW b \in StoredBank, MarkBank(p, b)
    PROVE  /\ StoredBank' = StoredBank
           /\ ResolvedBank' \subseteq ResolvedBank \ {b}
           /\ ResolvedGoals' = ResolvedGoals
<1>1. /\ fund' = fund
      /\ bank' = [r \in BankTxn |-> IF r \in {b} \intersect StoredBank
                                    THEN [bank[r] EXCEPT !.resolved = TRUE] ELSE bank[r]]
    BY DEF MarkBank, UpdateBank
<1>2. \A r \in BankTxn : /\ bank'[r].at = bank[r].at /\ bank'[r].tag = bank[r].tag
                         /\ r # b => bank'[r].resolved = bank[r].resolved
    BY <1>1 DEF Shaped, NewBankRow
<1>3. bank'[b].resolved
    BY <1>1 DEF Shaped, NewBankRow, StoredBank
<1>4. StoredBank' = StoredBank /\ StoredFund' = StoredFund
    BY <1>1, <1>2 DEF StoredBank, StoredFund
<1>5. ResolvedGoals' = ResolvedGoals
    BY <1>1, <1>4 DEF ResolvedGoals
<1>6. ASSUME NEW r \in ResolvedBank' PROVE r \in ResolvedBank /\ r # b
    <2> DEFINE goals == GoalTxns(StoredFund)
    <2>1. goals' = goals
        BY <1>4
    <2>2. /\ r \in StoredBank' /\ ~bank'[r].resolved
          /\ \/ bank'[r].tag = "MISSING_IN_GOAL" /\ Counterpart(r, goals)
             \/ bank'[r].tag = "TIMING_DIFFERENCE" /\ InTime(r, goals)
        BY <2>1 DEF ResolvedBank
    <2>3. r \in StoredBank /\ r \in BankTxn /\ r # b
        BY <1>3, <1>4, <2>2 DEF StoredBank
    <2> HIDE DEF goals
    <2>4. /\ ~bank[r].resolved
          /\ \/ bank[r].tag = "MISSING_IN_GOAL" /\ Counterpart(r, goals)
             \/ bank[r].tag = "TIMING_DIFFERENCE" /\ InTime(r, goals)
        BY <1>2, <2>2, <2>3
    <2> QED BY <2>3, <2>4 DEF ResolvedBank, goals
<1> QED BY <1>4, <1>5, <1>6

\* Marking a code takes it, and nothing else, from what there is to find (MarkGoal).
LEMMA GoalMarked ==
    ASSUME Shaped, NEW p \in Request, NEW c \in Code, MarkGoal(p, c)
    PROVE  /\ StoredBank' = StoredBank
           /\ ResolvedBank' = ResolvedBank
           /\ ResolvedGoals' \subseteq ResolvedGoals \ {c}
<1>1. /\ bank' = bank
      /\ fund' = [f \in FundRow |-> IF f \in RowsOf({c})
                                    THEN [fund[f] EXCEPT !.resolved = TRUE] ELSE fund[f]]
    BY DEF MarkGoal, UpdateFund
<1>2. \A f \in FundRow : /\ fund'[f].at = fund[f].at /\ fund'[f].tag = fund[f].tag
                         /\ f \notin RowsOf({c}) => fund'[f].resolved = fund[f].resolved
                         /\ f \in RowsOf({c}) => fund'[f].resolved
    BY <1>1 DEF Shaped, NewFundRow
<1>3. StoredBank' = StoredBank /\ StoredFund' = StoredFund
    BY <1>1, <1>2 DEF StoredBank, StoredFund
<1>4. ResolvedBank' = ResolvedBank
    BY <1>1, <1>3 DEF ResolvedBank
<1> DEFINE Open(tag) == {f \in StoredFund : ~fund[f].resolved /\ fund[f].tag = tag}
<1>5. ASSUME NEW tag PROVE GoalTxns(Open(tag)') = {g \in GoalTxns(Open(tag)) : g.code # c}
    <2>1. Open(tag)' \subseteq {f \in Open(tag) : f.code # c}
        <3> SUFFICES ASSUME NEW f \in Open(tag)' PROVE f \in Open(tag) /\ f.code # c
            OBVIOUS
        <3>1. f \in StoredFund /\ f \in FundRow /\ ~fund'[f].resolved /\ fund'[f].tag = tag
            BY <1>3 DEF StoredFund
        <3>2. f \notin RowsOf({c})
            BY <1>2, <3>1
        <3> QED BY <1>2, <3>1, <3>2 DEF RowsOf
    <2>2. \A f \in Open(tag) : f.code # c => f \in Open(tag)'
        <3> SUFFICES ASSUME NEW f \in Open(tag), f.code # c PROVE f \in Open(tag)'
            OBVIOUS
        <3>1. f \in FundRow /\ f \notin RowsOf({c}) /\ f \in StoredFund'
            BY <1>3 DEF StoredFund, RowsOf
        <3> QED BY <1>2, <3>1
    <2>3. PICK F, G : F = Open(tag) /\ G = Open(tag)'
        OBVIOUS
    <2>4. \A f : f \in G <=> f \in F /\ f.code # c
        BY <2>1, <2>2, <2>3
    <2>5. \A g : g \in GoalTxns(G) <=> g \in GoalTxns(F) /\ g.code # c
        BY <2>4, OtherGoalTxns
    <2> QED BY <2>3, <2>5
<1>6. ASSUME NEW k \in ResolvedGoals' PROVE k \in ResolvedGoals /\ k # c
    <2>1. PICK g : /\ k = g.code
                   /\ \/ g \in GoalTxns(Open("MISSING_IN_BANK")') /\ Counterpart(g, StoredBank')
                      \/ g \in GoalTxns(Open("TIMING_DIFFERENCE")') /\ InTime(g, StoredBank')
        BY DEF ResolvedGoals
    <2>2. \/ g \in GoalTxns(Open("MISSING_IN_BANK")) /\ Counterpart(g, StoredBank) /\ g.code # c
          \/ g \in GoalTxns(Open("TIMING_DIFFERENCE")) /\ InTime(g, StoredBank) /\ g.code # c
        BY <1>3, <1>5, <2>1
    <2> QED BY <2>1, <2>2 DEF ResolvedGoals
<1> QED BY <1>3, <1>4, <1>6

LEMMA NextDetectInv == Shaped /\ DetectInv /\ [Next]_vars => DetectInv'
<1> SUFFICES ASSUME Shaped, DetectInv, [Next]_vars PROVE DetectInv'
    OBVIOUS
<1> DEFINE Found(q) == tasks[q].op = "detect" /\ alone = q =>
               /\ tasks[q].pc = "bank" => /\ tasks[q].banks \subseteq StoredBank
                                          /\ ResolvedBank \subseteq tasks[q].banks
                                          /\ ResolvedGoals \subseteq tasks[q].codes
               /\ tasks[q].pc = "ok" => ResolvedBank = {} /\ ResolvedGoals = {}
<1>0. ASSUME bank' = bank, fund' = fund
      PROVE  StoredBank' = StoredBank /\ ResolvedBank' = ResolvedBank
             /\ ResolvedGoals' = ResolvedGoals
    BY <1>0 DEF StoredBank, StoredFund, ResolvedBank, ResolvedGoals
<1>1. ASSUME NEW p \in Request, UserRequest(p) PROVE Found(p)'
    <2> SUFFICES ASSUME tasks'[p].op = "detect" PROVE Found(p)'
        OBVIOUS
    <2>1. Detect(p)
        BY <1>1, OpBegins
    <2>2. /\ tasks'[p].pc = "bank" /\ tasks'[p].banks = ResolvedBank
          /\ tasks'[p].codes = ResolvedGoals
        <3> DEFINE task == [Idle EXCEPT !.pc = "bank", !.banks = ResolvedBank,
                                        !.codes = ResolvedGoals]
        <3>1. tasks'[p] = [task EXCEPT !.op = "detect"]
            BY <2>1, ReceiveActs DEF Detect, Idle
        <3> QED BY <3>1 DEF Idle
    <2>3. ResolvedBank \subseteq StoredBank
        BY DEF ResolvedBank
    <2> QED BY <1>0, <2>1, <2>2, <2>3 DEF Detect
<1>2. ASSUME NEW p \in Request, RequestStep(p) PROVE Found(p)'
    <2> SUFFICES ASSUME tasks'[p].op = "detect", alone' = p PROVE Found(p)'
        OBVIOUS
    <2>0. /\ tasks[p].op = "detect" /\ alone = p /\ Found(p)
          /\ DOMAIN tasks[p] = DOMAIN Idle
        BY <1>2, StepActs DEF Acted, DetectInv, Shaped
    <2>1. CASE EndDetect(p)
        <3>1. tasks[p].pc = "bank" /\ tasks[p].banks = {} /\ tasks[p].codes = {}
              /\ tasks'[p].pc = "ok" /\ bank' = bank /\ fund' = fund
            BY <2>1 DEF EndDetect, Finish, Proceed, At, Shaped, Finished, Idle
        <3> QED BY <1>0, <2>0, <3>1
    <2>2. ASSUME NEW b \in BankTxn, MarkBank(p, b) PROVE Found(p)'
        <3>1. tasks[p].pc = "bank" /\ b \in tasks[p].banks /\ b \in StoredBank
            BY <2>0, <2>2 DEF MarkBank, At
        <3>2. tasks'[p].pc = "bank" /\ tasks'[p].banks = tasks[p].banks \ {b}
              /\ tasks'[p].codes = tasks[p].codes
            BY <2>0, <2>2, <3>1 DEF MarkBank, Proceed, Shaped, Idle
        <3> QED BY <2>0, <2>2, <3>1, <3>2, BankMarked
    <2>3. ASSUME NEW c \in Code, MarkGoal(p, c) PROVE Found(p)'
        <3>1. /\ tasks[p].pc = "bank" /\ tasks[p].banks = {} /\ tasks'[p].pc = "bank"
              /\ tasks'[p].banks = {} /\ tasks'[p].codes = tasks[p].codes \ {c}
            BY <2>0, <2>3 DEF MarkGoal, At, Proceed, Shaped, Idle
        <3> QED BY <2>0, <2>3, <3>1, GoalMarked
    <2> QED BY <1>2, <2>0, <2>1, <2>2, <2>3, OpSteps
<1>3. ASSUME NEW q \in Request, alone' # q PROVE Found(q)'
    BY <1>3
<1>4. ASSUME NEW p \in Request, UserRequest(p) \/ RequestStep(p) PROVE DetectInv'
    <2>1. \A q \in Request \ {p} : alone' # q
        BY <1>4, UserActs, StepActs, UserAssumption DEF Acted
    <2>2. \A q \in Request : Found(q)'
        BY <1>1, <1>2, <1>3, <1>4, <2>1
    <2> QED BY <2>2 DEF DetectInv
<1>5. ASSUME NEW r, Uploaded(r) \/ RolledBack(r) PROVE DetectInv'
    <2>1. \A q \in Request : alone' # q
        BY <1>5, RowsMove, UserAssumption
    <2>2. \A q \in Request : Found(q)'
        BY <1>3, <2>1
    <2> QED BY <2>2 DEF DetectInv
<1>6. CASE UNCHANGED vars
    BY <1>0, <1>6 DEF vars, DetectInv
<1> QED BY <1>4, <1>5, <1>6 DEF Next

\* Whatever the rows, tags and requests: a detection of detectResolvedVariances that
\* nothing came between leaves nothing for a second one to find, although it marks all
\* rows of a code for some of them and looks goal transactions up by tag.
THEOREM DetectionsComplete == Spec => []DetectionIsComplete
<1>1. Init => DetectInv
    BY DEF Init, DetectInv, Idle
<1>2. DetectInv => DetectionIsComplete
    BY DEF DetectInv, DetectionIsComplete
<1> QED BY <1>1, <1>2, InitShaped, NextShaped, NextDetectInv, PTL DEF Spec

-----------------------------------------------------------------------------
(* A removal holds *)

\* Request p has written its manual match, so that it writes none later.
Written(p) == p \in Request /\ tasks[p].op = "match" /\ tasks[p].pc = "ok"

\* A row that is not there is not matched, and the match of one that is names no request
\* that could write it again.
MatchesWritten == \A b \in BankTxn :
    /\ bank[b].at # "stored" => bank[b].match = NoMatch
    /\ bank[b].match.by # NULL => Written(bank[b].match.by)
    /\ bank[b].match.kind = "manual" => bank[b].match.by # NULL

\* What a removal found when it came in can only become less.
StampsWritten == \A q \in Request : \A p \in tasks[q].stamps : Written(p)

\* Bank row b holds no manual match that was there when q came in and names one of the codes.
Cleared(q, b, codes) ==
    bank[b].match.kind = "manual" /\ bank[b].match.by \in tasks[q].stamps
        => bank[b].match.codes \intersect codes = {}

\* Code after code, a removal leaves no row that names it.
CodesCleared == \A q \in Request : tasks[q].op = "unmatch" =>
    /\ tasks[q].pc = "contains" =>
         \A b \in BankTxn : Cleared(q, b, tasks[q].codes \ tasks[q].left)
    /\ tasks[q].pc = "ok" => \A b \in BankTxn : Cleared(q, b, tasks[q].codes)

\* A bank row keeps its match, or as a stored row gets one that no request stands for, or
\* the manual match of p.
Rematched(b) == bank'[b].match.by = NULL /\ bank'[b].match.kind # "manual"
MatchMoved(p, b) ==
    /\ bank'[b].at = bank[b].at
    /\ \/ bank'[b].match = bank[b].match
       \/ bank[b].at = "stored" /\ Rematched(b)
       \/ /\ bank[b].at = "stored" /\ WriteMatch(p)
          /\ bank'[b].match.kind = "manual" /\ bank'[b].match.by = p

LEMMA PlainMatches ==
    /\ NoMatch.by = NULL /\ NoMatch.kind # "manual"
    /\ \A codes : GoalMatch(codes).by = NULL /\ GoalMatch(codes).kind # "manual"
BY DEF NoMatch, GoalMatch

\* No request touches a match as it comes in (UserRequest).
LEMMA UserMatches ==
    ASSUME Shaped, NEW p \in Request, UserRequest(p), NEW b \in BankTxn
    PROVE  bank'[b].at = bank[b].at /\ bank'[b].match = bank[b].match
<1> DEFINE Kept == bank'[b].at = bank[b].at /\ bank'[b].match = bank[b].match
<1>1. ASSUME NEW s \in Selection, NEW t \in Tag, BulkReviewBank(p, s.banks, s.codes, t) PROVE Kept
    BY <1>1 DEF BulkReviewBank, TagBank, UpdateBank, Shaped, NewBankRow
<1>2. ASSUME NEW c \in BankTxn, NEW t \in Tag, ReviewBank(p, c, t) PROVE Kept
    BY <1>2 DEF ReviewBank, TagBank, UpdateBank, Shaped, NewBankRow
<1>3. ASSUME NEW c \in BankTxn, NEW s \in Decision, SetStatus(p, c, s) PROVE Kept
    BY <1>3 DEF SetStatus, UpdateBank, Shaped, NewBankRow
<1>4. ASSUME NEW c \in BankTxn, NEW d \in BankTxn, LinkReversal(p, c, d) PROVE Kept
    BY <1>4 DEF LinkReversal, Shaped, NewBankRow
<1>5. ASSUME NEW s \in Selection, CheckTotals(p, s.banks, s.codes) \/ BeginUnmatch(p, s.banks, s.codes)
      PROVE  Kept
    BY <1>5 DEF CheckTotals, BeginUnmatch
<1>6. ASSUME NEW c \in Code, NEW t \in Tag, ReviewGoal(p, c, t) PROVE Kept
    BY <1>6 DEF ReviewGoal
<1>7. ASSUME NEW c \in BankTxn, BeginUnlink(p, c) PROVE Kept
    BY <1>7 DEF BeginUnlink
<1>8. ASSUME NEW w \in Window, NEW g \in Goal, ReadBankRows(p, w, g) PROVE Kept
    BY <1>8 DEF ReadBankRows
<1>9. ASSUME Detect(p) \/ StartRun(p) PROVE Kept
    BY <1>9 DEF Detect, StartRun
<1> QED BY <1>1, <1>2, <1>3, <1>4, <1>5, <1>6, <1>7, <1>8, <1>9 DEF UserRequest

\* What the statements of a request do to a match (RequestStep).
LEMMA StepMatches ==
    ASSUME Shaped, NEW p \in Request, RequestStep(p), NEW b \in BankTxn
    PROVE  MatchMoved(p, b)
<1>1. CASE WriteMatch(p)
    BY <1>1 DEF WriteMatch, UpdateBank, StoredBank, Shaped, NewBankRow, ManualMatch, MatchMoved
<1>2. CASE UnmatchIds(p)
    BY <1>2, PlainMatches
       DEF UnmatchIds, UpdateBank, Settled, StoredBank, Shaped, NewBankRow, MatchMoved, Rematched
<1>3. CASE UnmatchExact(p)
    BY <1>3, PlainMatches
       DEF UnmatchExact, UpdateBank, Settled, StoredBank, Shaped, NewBankRow, MatchMoved, Rematched
<1>4. ASSUME NEW c \in Code, UnmatchContains(p, c) PROVE MatchMoved(p, b)
    BY <1>4, PlainMatches
       DEF UnmatchContains, UpdateBank, Settled, StoredBank, Shaped, NewBankRow, MatchMoved,
           Rematched
<1>5. CASE UnlinkFirst(p)
    BY <1>5 DEF UnlinkFirst, TagBank, UpdateBank, Shaped, NewBankRow, MatchMoved
<1>6. CASE UnlinkSecond(p)
    BY <1>6 DEF UnlinkSecond, TagBank, UpdateBank, Shaped, NewBankRow, MatchMoved
<1>7. ASSUME NEW m \in tasks[p].todo, PersistMatch(p, m) PROVE MatchMoved(p, b)
    BY <1>7, PlainMatches
       DEF PersistMatch, UpdateBank, StoredBank, Shaped, NewBankRow, MatchMoved, Rematched
<1>8. ASSUME NEW c \in BankTxn, MarkBank(p, c) PROVE MatchMoved(p, b)
    BY <1>8 DEF MarkBank, UpdateBank, Shaped, NewBankRow, MatchMoved
<1>9. CASE WriteVerdict(p)
    <2> DEFINE v == tasks[p].verdict
    <2>1. bank'[b] = IF b \in {v.row} \intersect StoredBank
                     THEN [bank[b] EXCEPT !.status = v.status,
                              !.match = IF v.code = NULL THEN @ ELSE GoalMatch({v.code})]
                     ELSE bank[b]
        BY <1>9 DEF WriteVerdict, UpdateBank
    <2> QED BY <2>1, PlainMatches DEF StoredBank, Shaped, NewBankRow, MatchMoved, Rematched
<1>10. ASSUME bank' = bank PROVE MatchMoved(p, b)
    BY <1>10 DEF MatchMoved
<1> QED BY <1>1, <1>2, <1>3, <1>4, <1>5, <1>6, <1>7, <1>8, <1>9, <1>10
        DEF RequestStep, BulkReviewGoal, FindPartner, MatchRows, EndDrilldown, EndDetect, MarkGoal,
            EndRun, JudgeRow

\* A request that is answered stays so, whoever acts (UserRequest, RequestStep).
LEMMA WrittenStays ==
    ASSUME Shaped, NEW p \in Request, UserRequest(p) \/ RequestStep(p),
           NEW r, Written(r)
    PROVE  Written(r)' /\ r # p
<1>1. r # p
    BY UserActs, OpSteps DEF Written
<1> QED BY <1>1, UserActs, StepActs DEF Written, Acted

LEMMA RowsMatches ==
    ASSUME Shaped, NEW r, Uploaded(r) \/ RolledBack(r), NEW b \in BankTxn
    PROVE  \/ bank'[b].match = bank[b].match /\ (bank'[b].at = bank[b].at \/ bank'[b].at = "stored")
           \/ bank'[b].match = NoMatch
<1>1. bank = [c \in BankTxn |-> bank[c]] /\ DOMAIN bank[b] = DOMAIN NewBankRow
    BY DEF Shaped
<1>2. DOMAIN NewBankRow = {"at", "match", "status", "tag", "pair", "resolved"}
    BY DEF NewBankRow
<1>3. CASE bank' = [bank EXCEPT ![r].at = "stored"]
    BY <1>1, <1>2, <1>3
<1>4. CASE bank' = [bank EXCEPT ![r] = [NewBankRow EXCEPT !.at = "gone"]]
    <2>1. [NewBankRow EXCEPT !.at = "gone"].match = NoMatch
        BY DEF NewBankRow
    <2> QED BY <1>1, <1>4, <2>1
<1>5. CASE UNCHANGED bank
    BY <1>5
<1> QED BY <1>3, <1>4, <1>5 DEF Uploaded, RolledBack

LEMMA NextMatchesWritten == Shaped /\ MatchesWritten /\ [Next]_vars => MatchesWritten'
<1> SUFFICES ASSUME Shaped, MatchesWritten, [Next]_vars PROVE MatchesWritten'
    OBVIOUS
<1> DEFINE Good(b) == /\ bank[b].at # "stored" => bank[b].match = NoMatch
                      /\ bank[b].match.by # NULL => Written(bank[b].match.by)
                      /\ bank[b].match.kind = "manual" => bank[b].match.by # NULL
<1>0. \A b \in BankTxn : Good(b)
    BY DEF MatchesWritten
<1>1. ASSUME NEW p \in Request, UserRequest(p), NEW b \in BankTxn PROVE Good(b)'
    <2>1. bank'[b].at = bank[b].at /\ bank'[b].match = bank[b].match
        BY <1>1, UserMatches
    <2>2. PICK r : r = bank[b].match.by
        OBVIOUS
    <2>3. r # NULL => Written(r)'
        BY <1>0, <1>1, <2>2, WrittenStays
    <2> QED BY <1>0, <2>1, <2>2, <2>3
<1>2. ASSUME NEW p \in Request, RequestStep(p), NEW b \in BankTxn PROVE Good(b)'
    <2>1. CASE bank'[b].at = bank[b].at /\ bank'[b].match = bank[b].match
        <3>1. PICK r : r = bank[b].match.by
            OBVIOUS
        <3>2. r # NULL => Written(r)'
            BY <1>0, <1>2, <3>1, WrittenStays
        <3> QED BY <1>0, <2>1, <3>1, <3>2
    <2>2. CASE bank'[b].at = bank[b].at /\ bank[b].at = "stored" /\ Rematched(b)
        BY <2>2 DEF Rematched
    <2>3. CASE /\ bank'[b].at = bank[b].at /\ bank[b].at = "stored" /\ WriteMatch(p)
               /\ bank'[b].match.kind = "manual" /\ bank'[b].match.by = p
        <3>a. tasks' = [tasks EXCEPT ![p] = Finished(tasks[p])] /\ tasks[p].op = "match"
            BY <2>3 DEF WriteMatch, Finish, Proceed, At
        <3>b. p \in DOMAIN tasks
            BY DEF Shaped
        <3>c. Finished(tasks[p]).op = tasks[p].op /\ Finished(tasks[p]).pc = "ok"
            BY DEF Finished, Idle
        <3>1. tasks'[p].op = "match" /\ tasks'[p].pc = "ok"
            BY <3>a, <3>b, <3>c
        <3> QED BY <2>3, <3>1, UserAssumption DEF Written
    <2> QED BY <1>2, <2>1, <2>2, <2>3, StepMatches DEF MatchMoved
<1>3. ASSUME NEW r, Uploaded(r) \/ RolledBack(r), NEW b \in BankTxn PROVE Good(b)'
    <2>1. tasks' = tasks
        BY <1>3, RowsMove
    <2>2. \/ bank'[b].match = bank[b].match /\ (bank'[b].at = bank[b].at \/ bank'[b].at = "stored")
          \/ bank'[b].match = NoMatch
        BY <1>3, RowsMatches
    <2> QED BY <1>0, <2>1, <2>2, PlainMatches DEF Written
<1>4. CASE UNCHANGED vars
    BY <1>4 DEF vars, MatchesWritten, Written
<1> HIDE DEF Good
<1>5. CASE Next
    <2>1. \A b \in BankTxn : Good(b)'
        BY <1>1, <1>2, <1>3, <1>5 DEF Next
    <2> QED BY <2>1 DEF MatchesWritten, Good
<1> QED BY <1>4, <1>5

LEMMA NextStampsWritten ==
    Shaped /\ MatchesWritten /\ StampsWritten /\ [Next]_vars => StampsWritten'
<1> SUFFICES ASSUME Shaped, MatchesWritten, StampsWritten, [Next]_vars PROVE StampsWritten'
    OBVIOUS
<1>1. ASSUME NEW p \in Request, UserRequest(p) \/ RequestStep(p),
             NEW q \in Request, NEW r \in tasks'[q].stamps
      PROVE  Written(r)'
    <2>1. ASSUME r \in tasks[q].stamps PROVE Written(r)'
        BY <1>1, <2>1, WrittenStays DEF StampsWritten
    <2>2. ASSUME r \in Stamps PROVE Written(r)'
        <3>1. Written(r)
            BY <2>2 DEF Stamps, MatchesWritten, StoredBank
        <3> QED BY <1>1, <3>1, WrittenStays
    <2> QED BY <1>1, <2>1, <2>2, UserActs, StepActs DEF Acted
<1>2. ASSUME tasks' = tasks PROVE StampsWritten'
    BY <1>2 DEF StampsWritten, Written
<1> QED BY <1>1, <1>2, RowsMove DEF Next, StampsWritten, vars

\* A step after which the request is still as it was clears no less (all actions).
LEMMA ClearedStays ==
    ASSUME Shaped, StampsWritten, [Next]_vars, NEW q \in Request, tasks'[q].stamps = tasks[q].stamps,
           NEW b \in BankTxn, NEW codes, Cleared(q, b, codes)
    PROVE  Cleared(q, b, codes)'
<1>1. ASSUME bank'[b].match = bank[b].match \/ Rematched(b) PROVE Cleared(q, b, codes)'
    BY <1>1 DEF Cleared, Rematched
<1>2. ASSUME NEW p \in Request, RequestStep(p) PROVE Cleared(q, b, codes)'
    <2>1. CASE WriteMatch(p) /\ bank'[b].match.by = p
        <3>1. p \notin tasks[q].stamps
            BY <1>2, WrittenStays DEF StampsWritten
        <3> QED BY <2>1, <3>1 DEF Cleared
    <2> QED BY <1>1, <1>2, <2>1, StepMatches DEF MatchMoved
<1>3. ASSUME NEW p \in Request, UserRequest(p) PROVE Cleared(q, b, codes)'
    BY <1>1, <1>3, UserMatches
<1>4. ASSUME NEW r, Uploaded(r) \/ RolledBack(r) PROVE Cleared(q, b, codes)'
    <2>1. bank'[b].match = bank[b].match \/ bank'[b].match = NoMatch
        BY <1>4, RowsMatches
    <2> QED BY <1>1, <2>1, PlainMatches DEF Rematched
<1>5. CASE UNCHANGED vars
    BY <1>1, <1>5 DEF vars
<1> QED BY <1>2, <1>3, <1>4, <1>5 DEF Next

LEMMA NextCodesCleared ==
    Shaped /\ MatchesWritten /\ StampsWritten /\ CodesCleared /\ [Next]_vars => CodesCleared'
<1> SUFFICES ASSUME Shaped, MatchesWritten, StampsWritten, CodesCleared, [Next]_vars
             PROVE  CodesCleared'
    OBVIOUS
<1> DEFINE Good(q) == tasks[q].op = "unmatch" =>
               /\ tasks[q].pc = "contains" =>
                    \A b \in BankTxn : Cleared(q, b, tasks[q].codes \ tasks[q].left)
               /\ tasks[q].pc = "ok" => \A b \in BankTxn : Cleared(q, b, tasks[q].codes)
<1>0. \A q \in Request : Good(q)
    BY DEF CodesCleared
\* Steps of others
<1>1. ASSUME NEW q \in Request, tasks'[q] = tasks[q] PROVE Good(q)'
    <2>1. \A b \in BankTxn : \A codes : Cleared(q, b, codes) => Cleared(q, b, codes)'
        BY <1>1, ClearedStays
    <2>2. PICK codes : codes = tasks[q].codes \ tasks[q].left
        OBVIOUS
    <2>3. PICK all : all = tasks[q].codes
        OBVIOUS
    <2>4. /\ \A b \in BankTxn : Cleared(q, b, codes) => Cleared(q, b, codes)'
          /\ \A b \in BankTxn : Cleared(q, b, all) => Cleared(q, b, all)'
        BY <2>1
    <2> QED BY <1>0, <1>1, <2>2, <2>3, <2>4
\* Steps of the request
<1>2. ASSUME NEW p \in Request, UserRequest(p) PROVE Good(p)'
    <2> SUFFICES ASSUME tasks'[p].op = "unmatch" PROVE tasks'[p].pc = "ids"
        OBVIOUS
    <2>1. PICK s \in Selection : BeginUnmatch(p, s.banks, s.codes)
        BY <1>2, OpBegins
    <2> DEFINE task == [Idle EXCEPT !.pc = "ids", !.banks = s.banks, !.codes = s.codes,
                            !.stamps = {bank[b].match.by : b \in StoredBank} \ {NULL}]
    <2>2. tasks'[p] = [task EXCEPT !.op = "unmatch"]
        BY <2>1, ReceiveActs DEF BeginUnmatch, Idle
    <2> QED BY <2>2 DEF Idle
<1>3. ASSUME NEW p \in Request, RequestStep(p) PROVE Good(p)'
    <2> SUFFICES ASSUME tasks'[p].op = "unmatch" PROVE Good(p)'
        OBVIOUS
    <2>0. /\ tasks[p].op = "unmatch" /\ tasks'[p].stamps = tasks[p].stamps /\ Good(p)
          /\ DOMAIN tasks[p] = DOMAIN Idle
        BY <1>0, <1>3, StepActs DEF Shaped
    <2>1. CASE UnmatchIds(p)
        <3>1. CASE tasks[p].codes = {}
            <4>1. tasks'[p] = Finished(tasks[p])
                BY <2>1, <3>1 DEF UnmatchIds, Finish, Proceed, Shaped
            <4>2. tasks'[p].pc = "ok" /\ tasks'[p].codes = {}
                BY <2>0, <3>1, <4>1 DEF Finished, Idle
            <4> QED BY <4>2 DEF Cleared
        <3>2. CASE tasks[p].codes # {}
            <4>1. tasks'[p].pc = "exact"
                BY <2>0, <2>1, <3>2 DEF UnmatchIds, Goto, Proceed, Shaped, Idle
            <4> QED BY <4>1
        <3> QED BY <3>1, <3>2
    <2>2. CASE UnmatchExact(p)
        <3>1. tasks'[p].pc = "contains" /\ tasks'[p].codes \ tasks'[p].left = {}
            BY <2>0, <2>2 DEF UnmatchExact, Proceed, Shaped, Idle
        <3> QED BY <3>1 DEF Cleared
    <2>3. ASSUME NEW c \in Code, UnmatchContains(p, c) PROVE Good(p)'
        <3> DEFINE gone == tasks[p].codes \ tasks[p].left
        <3>1. tasks[p].pc = "contains" /\ c \in tasks[p].left
              /\ \A b \in BankTxn : Cleared(p, b, gone)
            BY <2>0, <2>3 DEF UnmatchContains, At
        \* what is left of the manual matches does not name c
        <3>2. ASSUME NEW b \in BankTxn, bank'[b].match.kind = "manual"
              PROVE  bank'[b].match = bank[b].match /\ c \notin bank[b].match.codes
            <4>1. \/ bank'[b].match = NoMatch
                  \/ /\ bank'[b] = bank[b]
                     /\ ~(/\ b \in StoredBank /\ bank[b].match.kind = "manual"
                          /\ \E d \in bank[b].match.codes : <<c, d>> \in InText)
                BY <2>3 DEF UnmatchContains, UpdateBank, Settled, Shaped, NewBankRow
            <4>2. /\ bank'[b] = bank[b] /\ bank[b].match.kind = "manual"
                  /\ ~(/\ b \in StoredBank
                       /\ \E d \in bank[b].match.codes : <<c, d>> \in InText)
                BY <3>2, <4>1, PlainMatches
            <4>3. b \in StoredBank
                BY <4>2, PlainMatches DEF MatchesWritten, StoredBank
            <4> QED BY <4>2, <4>3, RowAssumption
        <3>3. PICK rest : rest = tasks[p].left \ {c}
            OBVIOUS
        <3>4. ASSUME NEW codes, codes \subseteq gone \union {c}, NEW b \in BankTxn
              PROVE  Cleared(p, b, codes)'
            BY <2>0, <3>1, <3>2, <3>4 DEF Cleared
        <3>5. CASE tasks[p].left = {c}
            <4>1. tasks'[p] = Finished(tasks[p])
                BY <2>3, <3>5 DEF UnmatchContains, Finish, Proceed, Shaped
            <4>2. tasks'[p].pc = "ok" /\ tasks'[p].codes = tasks[p].codes
                BY <2>0, <4>1 DEF Finished, Idle
            <4>3. PICK codes : codes = tasks[p].codes
                OBVIOUS
            <4>4. \A b \in BankTxn : Cleared(p, b, codes)'
                BY <3>4, <3>5, <4>3
            <4> QED BY <4>2, <4>3, <4>4
        <3>6. CASE tasks[p].left # {c}
            <4>1. /\ tasks'[p].pc = "contains" /\ tasks'[p].codes = tasks[p].codes
                  /\ tasks'[p].left = rest
                BY <2>0, <2>3, <3>1, <3>3, <3>6 DEF UnmatchContains, Proceed, Shaped, Idle
            <4>2. PICK codes : codes = tasks[p].codes \ rest
                OBVIOUS
            <4>3. \A b \in BankTxn : Cleared(p, b, codes)'
                BY <3>3, <3>4, <4>2
            <4> QED BY <4>1, <4>2, <4>3
        <3> QED BY <3>5, <3>6
    <2> QED BY <1>3, <2>0, <2>1, <2>2, <2>3, OpSteps
<1>4. ASSUME NEW p \in Request, UserRequest(p) \/ RequestStep(p) PROVE CodesCleared'
    <2>1. \A q \in Request \ {p} : tasks'[q] = tasks[q]
        BY <1>4, UserActs, StepActs DEF Acted
    <2>2. \A q \in Request : Good(q)'
        BY <1>1, <1>2, <1>3, <1>4, <2>1
    <2> QED BY <2>2 DEF CodesCleared
<1>5. ASSUME tasks' = tasks PROVE CodesCleared'
    <2>1. \A q \in Request : Good(q)'
        BY <1>1, <1>5
    <2> QED BY <2>1 DEF CodesCleared
<1> QED BY <1>4, <1>5, RowsMove DEF Next, vars

LEMMA InitMatchesWritten == Init => MatchesWritten
<1> SUFFICES ASSUME Init PROVE MatchesWritten
    OBVIOUS
<1>1. PICK o \in Opening : \A b \in BankTxn : bank[b] \in Stored(b, o)
    BY DEF Init
<1>2. ASSUME NEW b \in BankTxn
      PROVE  /\ bank[b].at # "stored" => bank[b].match = NoMatch
             /\ bank[b].match.by = NULL /\ bank[b].match.kind # "manual"
    <2>1. CASE Fresh(b, o, bank[b])
        BY <2>1, PlainMatches DEF Fresh, NewBankRow
    <2>2. CASE FromOlder(bank[b])
        <3>1. PICK v, c : bank[b] = Judged(v, c) /\ (c = NoMatch \/ \E d : c = GoalMatch({d}))
            BY <2>2 DEF FromOlder
        <3>2. bank[b].at = "stored" /\ bank[b].match = c
            BY <3>1 DEF Judged, NewBankRow
        <3>3. c.by = NULL /\ c.kind # "manual"
            BY <3>1, PlainMatches
        <3> QED BY <3>2, <3>3
    <2>3. bank[b] \in Stored(b, o)
        BY <1>1
    <2> QED BY <2>1, <2>2, <2>3, StoredRows
<1> QED BY <1>2 DEF MatchesWritten

\* Whatever the rows, codes and requests, and however the text of one code lies within
\* another: once removeManualMatch has answered, no manual match that was there when it
\* came in names one of its goal codes, whatever other requests wrote meanwhile.
THEOREM RemovalsHold == Spec => []RemovalHolds
<1>1. Init => StampsWritten /\ CodesCleared
    BY DEF Init, StampsWritten, CodesCleared, Idle
<1>2. CodesCleared => RemovalHolds
    BY DEF CodesCleared, RemovalHolds, Cleared, StoredBank
<1> QED BY <1>1, <1>2, InitShaped, InitMatchesWritten, NextShaped, NextMatchesWritten,
           NextStampsWritten, NextCodesCleared, PTL DEF Spec

-----------------------------------------------------------------------------
(* Totals *)

LEMMA TotalType ==
    ASSUME NEW R, IsFiniteSet(R), \A r \in R : r.amount \in Int
    PROVE  Total(R) \in Int
<1> DEFINE f == [r \in R |-> r.amount]
<1>1. Numbers(R, f)
    BY DEF Numbers
<1>2. Total(R) = Over(R, f)
    <2>1. [x \in R |-> f[x]] = [r \in R |-> r.amount]
        OBVIOUS
    <2> QED BY <2>1 DEF Total, Over
<1> QED BY <1>1, <1>2, OverType

LEMMA TotalOfOne == ASSUME NEW r, r.amount \in Int PROVE Total({r}) = r.amount
<1> DEFINE f == [x \in {r} |-> x.amount]
<1>1. f[r] = r.amount
    OBVIOUS
<1>2. Total({r}) = Over({r}, f)
    <2>1. [x \in {r} |-> f[x]] = [x \in {r} |-> x.amount]
        OBVIOUS
    <2> QED BY <2>1 DEF Total, Over
<1> HIDE DEF f
<1> QED BY <1>1, <1>2, OverSingle

-----------------------------------------------------------------------------
(* A pass takes its turns one after another *)

\* The states of a pass: after[i] is what has been found after i turns.
After(pass, found, read, n, after) ==
    /\ after[0] = found
    /\ \A i \in 1..n : after[i] = after[i - 1] \union
                          Finds(pass, after[i - 1], Turns(pass, read)[i], read)

LEMMA PassRuns ==
    ASSUME NEW pass, NEW found, NEW read, Len(Turns(pass, read)) \in Nat
    PROVE  \E after : /\ After(pass, found, read, Len(Turns(pass, read)), after)
                      /\ Pass(pass, found, read) = after[Len(Turns(pass, read))]
<1> DEFINE turns == Turns(pass, read)
           Next1(f, i) == f[i - 1] \union Finds(pass, f[i - 1], turns[i], read)
           Is(f, n) == f = [i \in 0..n |-> IF i = 0 THEN found ELSE Next1(f, i)]
           S == {n \in Nat : \E f : Is(f, n)}
<1> HIDE DEF Next1
<1>1. 0 \in S
    <2> DEFINE f == [i \in 0..0 |-> found]
    <2>1. Is(f, 0)
        OBVIOUS
    <2> QED BY <2>1
<1>2. ASSUME NEW n \in Nat, n \in S PROVE n + 1 \in S
    <2>1. PICK f : Is(f, n)
        BY <1>2
    <2>2. PICK new : new = [i \in 0..(n + 1) |-> IF i = 0 THEN found ELSE Next1(f, i)]
        OBVIOUS
    <2>3. ASSUME NEW i \in 0..(n + 1), i # 0 PROVE Next1(new, i) = Next1(f, i)
        <3>1. i - 1 \in 0..n /\ i - 1 \in 0..(n + 1)
            BY <2>3
        <3>2. f[i - 1] = IF i - 1 = 0 THEN found ELSE Next1(f, i - 1)
            BY <2>1, <3>1
        <3>3. new[i - 1] = f[i - 1]
            BY <2>2, <3>1, <3>2
        <3> QED BY <3>3 DEF Next1
    <2>4. Is(new, n + 1)
        BY <2>2, <2>3
    <2> QED BY <2>4
<1>3. Nat \subseteq S
    <2> HIDE DEF S
    <2> QED BY <1>1, <1>2, Induction
<1>4. PICK f : Is(f, Len(turns))
    BY <1>3
<1> DEFINE chosen == CHOOSE g : Is(g, Len(turns))
<1>5. Is(chosen, Len(turns))
    BY <1>4
<1>6. Pass(pass, found, read) = chosen[Len(turns)]
    BY DEF Pass, Next1
<1>7. PICK after : after = chosen
    OBVIOUS
<1> HIDE DEF chosen
<1>8. After(pass, found, read, Len(turns), after)
    <2>1. Is(after, Len(turns))
        BY <1>5, <1>7
    <2>2. Len(turns) \in Nat
        OBVIOUS
    <2> HIDE DEF turns
    <2>3. \A i \in 0..Len(turns) : after[i] = IF i = 0 THEN found ELSE Next1(after, i)
        BY <2>1
    <2>4. \A i \in 1..Len(turns) : i \in 0..Len(turns) /\ i # 0
        BY <2>2
    <2>5. after[0] = found
        BY <2>2, <2>3
    <2> QED BY <2>3, <2>4, <2>5 DEF After, Next1, turns
<1> QED BY <1>6, <1>7, <1>8

-----------------------------------------------------------------------------
(* What a pass finds in one turn *)

\* Rows are listed once each.
Listed(s) ==
    /\ Len(s) \in Nat /\ DOMAIN s = 1..Len(s)
    /\ \A i, j \in DOMAIN s : s[i] = s[j] => i = j
\* The rows a drilldown works on.
Readable(read) ==
    /\ Listed(read.banks) /\ Listed(read.goals)
    /\ IsFiniteSet(ToSet(read.banks)) /\ IsFiniteSet(ToSet(read.goals))
    /\ \A r \in ToSet(read.banks) \union ToSet(read.goals) : r.amount \in Int /\ r.day \in Int

\* The two sides of a match agree, unless a user has made it.
SidesAgree(m) == m.kind # "MANUAL" =>
    \/ Agrees(Total(m.banks), Total(m.goals), Total(m.goals))
    \/ Agrees(Total(m.banks), Total(m.goals), Total(m.banks))
\* ... and then the match columns of its bank rows name its goal transactions.
AsMade(m, read) == m.kind = "MANUAL" =>
    \A b \in m.banks : read.match[b].kind = "manual" /\
        \A g \in m.goals : g.code \in read.match[b].codes
\* A match of rows that are open.
Sound(m, found, read) ==
    /\ m.banks \subseteq OpenBanks(found, read)
    /\ m.goals \subseteq OpenGoals(found, read)
    /\ m.banks # {} /\ m.goals # {}
    /\ SidesAgree(m) /\ AsMade(m, read)

LEMMA NearAgrees ==
    ASSUME NEW x \in Int, NEW y \in Int, NEW base \in Int, Near(x, y, base)
    PROVE  Agrees(x, y, base) /\ Agrees(y, x, base)
BY DEF Near, Agrees, Allowed, Larger, Magnitude, MinTolerance

LEMMA OneIsFirst ==
    ASSUME NEW s, Listed(s), NEW R, NEW x \in FirstOf(s, R), NEW y \in FirstOf(s, R)
    PROVE  x = y
<1> SUFFICES ASSUME x # y PROVE FALSE
    OBVIOUS
<1>1. Earlier(s, x, y) /\ Earlier(s, y, x)
    BY DEF FirstOf
<1>2. PICK i \in DOMAIN s, j \in DOMAIN s : i < j /\ s[i] = x /\ s[j] = y
    BY <1>1 DEF Earlier
<1>3. PICK k \in DOMAIN s, l \in DOMAIN s : k < l /\ s[k] = y /\ s[l] = x
    BY <1>1 DEF Earlier
<1>4. i = l /\ j = k
    BY <1>2, <1>3 DEF Listed
<1> QED BY <1>2, <1>3, <1>4 DEF Listed

LEMMA CombinationNear ==
    ASSUME NEW s, NEW R, NEW target, NEW base
    PROVE  LET C == CombinationSum(s, R, target, base)
           IN  C = {} \/ (C \subseteq R /\ Near(Total(C), target, base))
<1> DEFINE greedy == GreedyHits(s, R, target, base)
           subsets == SubsetHits(s, R, target, base)
           hits == IF greedy # {} THEN greedy ELSE subsets
<1>1. \A T \in greedy : T \subseteq R /\ Near(Total(T), target, base)
    BY DEF GreedyHits, Hits
<1>2. \A T \in subsets : T \subseteq R /\ Near(Total(T), target, base)
    BY DEF SubsetHits, Hits, TenLargest
<1>3. \A T \in hits : T \subseteq R /\ Near(Total(T), target, base)
    BY <1>1, <1>2
<1>4. CombinationSum(s, R, target, base) = OneOf(hits)
    BY DEF CombinationSum, Either
<1> HIDE DEF hits
<1>5. OneOf(hits) = {} \/ OneOf(hits) \in hits
    BY DEF OneOf
<1> QED BY <1>3, <1>4, <1>5

LEMMA PairSound ==
    ASSUME NEW found, NEW read, Readable(read), NEW kind, kind # "MANUAL",
           NEW b \in OpenBanks(found, read), NEW g \in OpenGoals(found, read),
           Near(b.amount, g.amount, g.amount)
    PROVE  Sound(MatchFound({b}, {g}, kind), found, read)
<1>1. b.amount \in Int /\ g.amount \in Int
    BY DEF Readable, OpenBanks, OpenGoals
<1>2. Total({b}) = b.amount /\ Total({g}) = g.amount
    BY <1>1, TotalOfOne
<1>3. Agrees(b.amount, g.amount, g.amount)
    BY <1>1, NearAgrees
<1> QED BY <1>2, <1>3 DEF Sound, SidesAgree, AsMade, MatchFound

LEMMA SplitBankSound ==
    ASSUME NEW found, NEW read, Readable(read), NEW g \in OpenGoals(found, read),
           NEW m \in SplitBankFinds(found, g, read)
    PROVE  Sound(m, found, read)
<1> DEFINE open == {b \in OpenBanks(found, read) : SameDay(b, g)}
           B == CombinationSum(read.banks, open, g.amount, g.amount)
<1>1. Cardinality(B) > 1 /\ m = MatchFound(B, {g}, "SPLIT_BANK_TO_FUND")
    BY DEF SplitBankFinds, Several
<1>2. B # {}
    BY <1>1, FS_EmptySet
<1>3. B \subseteq open /\ Near(Total(B), g.amount, g.amount)
    BY <1>2, CombinationNear
<1> HIDE DEF B
<1>4. B \subseteq ToSet(read.banks) /\ B \subseteq OpenBanks(found, read)
    BY <1>3 DEF OpenBanks
<1>5. IsFiniteSet(B) /\ \A r \in B : r.amount \in Int
    BY <1>4, FS_Subset DEF Readable
<1>6. g.amount \in Int
    BY DEF Readable, OpenGoals
<1>7. Total(B) \in Int /\ Total({g}) = g.amount
    BY <1>5, <1>6, TotalType, TotalOfOne
<1>8. Agrees(Total(B), Total({g}), Total({g}))
    BY <1>3, <1>6, <1>7, NearAgrees
<1> QED BY <1>1, <1>2, <1>4, <1>8 DEF Sound, SidesAgree, AsMade, MatchFound

LEMMA SplitGoalSound ==
    ASSUME NEW found, NEW read, Readable(read), NEW b \in OpenBanks(found, read),
           NEW m \in SplitGoalFinds(found, b, read)
    PROVE  Sound(m, found, read)
<1> DEFINE open == {g \in OpenGoals(found, read) : SameDay(g, b)}
           G == CombinationSum(read.goals, open, b.amount, b.amount)
<1>1. Cardinality(G) > 1 /\ m = MatchFound({b}, G, "SPLIT_FUND_TO_BANK")
    BY DEF SplitGoalFinds, Several
<1>2. G # {}
    BY <1>1, FS_EmptySet
<1>3. G \subseteq open /\ Near(Total(G), b.amount, b.amount)
    BY <1>2, CombinationNear
<1> HIDE DEF G
<1>4. G \subseteq ToSet(read.goals) /\ G \subseteq OpenGoals(found, read)
    BY <1>3 DEF OpenGoals
<1>5. IsFiniteSet(G) /\ \A r \in G : r.amount \in Int
    BY <1>4, FS_Subset DEF Readable
<1>6. b.amount \in Int
    BY DEF Readable, OpenBanks
<1>7. Total(G) \in Int /\ Total({b}) = b.amount
    BY <1>5, <1>6, TotalType, TotalOfOne
<1>8. Agrees(Total({b}), Total(G), Total({b}))
    BY <1>3, <1>6, <1>7, NearAgrees
<1> QED BY <1>1, <1>2, <1>4, <1>8 DEF Sound, SidesAgree, AsMade, MatchFound

\* What pairs a row with the first goal transaction of some finds one match at most.
PairsFirst(F, b, R, read, kind) == \A n \in F : \E g \in FirstOf(read.goals, R) :
    n = MatchFound({b}, {g}, kind) /\ Near(b.amount, g.amount, g.amount)
LEMMA FirstPairSound ==
    ASSUME NEW found, NEW read, Readable(read), NEW kind, kind # "MANUAL",
           NEW b \in OpenBanks(found, read),
           NEW R, R \subseteq OpenGoals(found, read), NEW F, PairsFirst(F, b, R, read, kind),
           NEW m \in F
    PROVE  Sound(m, found, read) /\ \A n \in F : n = m
<1> USE DEF PairsFirst
<1>1. PICK g \in FirstOf(read.goals, R) :
        m = MatchFound({b}, {g}, kind) /\ Near(b.amount, g.amount, g.amount)
    OBVIOUS
<1>2. g \in OpenGoals(found, read)
    BY DEF FirstOf
<1>3. Sound(m, found, read)
    BY <1>1, <1>2, PairSound
<1>4. ASSUME NEW n \in F PROVE n = m
    <2>1. PICK h \in FirstOf(read.goals, R) : n = MatchFound({b}, {h}, kind)
        OBVIOUS
    <2>2. Listed(read.goals)
        BY DEF Readable
    <2>3. g = h
        BY <2>2, OneIsFirst
    <2> QED BY <1>1, <2>1, <2>3
<1> QED BY <1>3, <1>4

\* A turn finds one match at most, of rows that are open.
LEMMA FindsSound ==
    ASSUME NEW found, NEW read, Readable(read), NEW pass, NEW x,
           NEW m \in Finds(pass, found, x, read)
    PROVE  Sound(m, found, read) /\ \A n \in Finds(pass, found, x, read) : n = m
<1> DEFINE open == x \in OpenBanks(found, read)
           Result(F) == m \in F => Sound(m, found, read) /\ \A n \in F : n = m
<1>1. open => Result(ManualFinds(found, x, read))
    <2> DEFINE G == {g \in OpenGoals(found, read) : g.code \in read.match[x].codes}
               B == {c \in OpenBanks(found, read) : read.match[c] = read.match[x]}
    <2>1. open /\ G # {} /\ read.match[x].kind = "manual" => Sound(MatchFound(B, G, "MANUAL"), found, read)
        BY DEF Sound, SidesAgree, AsMade, MatchFound
    <2>2. \A n \in ManualFinds(found, x, read) :
            n = MatchFound(B, G, "MANUAL") /\ G # {} /\ read.match[x].kind = "manual"
        BY DEF ManualFinds
    <2> QED BY <2>1, <2>2
<1>2. open => Result(ExactFinds(found, x, read))
    <2>1. SameTxn(found, x, read) \subseteq OpenGoals(found, read)
        BY DEF SameTxn
    <2>2. PairsFirst(ExactFinds(found, x, read), x, SameTxn(found, x, read), read, "EXACT")
        BY DEF ExactFinds, PairsFirst
    <2> QED BY <2>1, <2>2, FirstPairSound
<1>3. open => Result(AnyExactFinds(found, x, read))
    <2> DEFINE G == {h \in SameTxn(found, x, read) : Near(x.amount, h.amount, h.amount)}
    <2>1. G \subseteq OpenGoals(found, read)
        BY DEF SameTxn
    <2>2. PairsFirst(AnyExactFinds(found, x, read), x, G, read, "EXACT")
        BY DEF AnyExactFinds, FirstOf, PairsFirst
    <2> HIDE DEF G
    <2> QED BY <2>1, <2>2, FirstPairSound
<1>4. open => Result(AmountFinds(found, x, read))
    <2> DEFINE G == {h \in OpenGoals(found, read) : InDateWindow(x, h)}
    <2>1. G \subseteq OpenGoals(found, read)
        OBVIOUS
    <2>2. PairsFirst(AmountFinds(found, x, read), x, G, read, "AMOUNT")
        BY DEF AmountFinds, FirstOf, InDateWindow, PairsFirst
    <2> HIDE DEF G
    <2> QED BY <2>1, <2>2, FirstPairSound
<1>5. x \in OpenGoals(found, read) => Result(SplitBankFinds(found, x, read))
    <2>1. \A n, k \in SplitBankFinds(found, x, read) : n = k
        BY DEF SplitBankFinds, Several
    <2> QED BY <2>1, SplitBankSound
<1>6. open => Result(SplitGoalFinds(found, x, read))
    <2>1. \A n, k \in SplitGoalFinds(found, x, read) : n = k
        BY DEF SplitGoalFinds, Several
    <2> QED BY <2>1, SplitGoalSound
<1>7. Finds(pass, found, x, read) # {}
    OBVIOUS
<1> DEFINE F == Finds(pass, found, x, read)
<1>8. \/ open /\ \/ F = ManualFinds(found, x, read) \/ F = ExactFinds(found, x, read)
                 \/ F = AnyExactFinds(found, x, read) \/ F = AmountFinds(found, x, read)
                 \/ F = SplitGoalFinds(found, x, read)
      \/ x \in OpenGoals(found, read) /\ F = SplitBankFinds(found, x, read)
    BY <1>7 DEF Finds
<1>9. m \in F
    OBVIOUS
<1> HIDE DEF F, open
<1>10. Result(F)
    BY <1>1, <1>2, <1>3, <1>4, <1>5, <1>6, <1>8
<1> QED BY <1>9, <1>10 DEF F

-----------------------------------------------------------------------------
(* What all passes together find *)

\* No row belongs to two matches.
Apart(found) == \A m, n \in found : m # n =>
    m.banks \intersect n.banks = {} /\ m.goals \intersect n.goals = {}
Fits(found, read) ==
    /\ \A m \in found : /\ m.banks \subseteq ToSet(read.banks)
                        /\ m.goals \subseteq ToSet(read.goals)
                        /\ m.banks # {} /\ m.goals # {}
                        /\ SidesAgree(m) /\ AsMade(m, read)
    /\ Apart(found)

LEMMA TurnFits ==
    ASSUME NEW found, NEW read, Readable(read), Fits(found, read), NEW pass, NEW x
    PROVE  Fits(found \union Finds(pass, found, x, read), read)
<1> DEFINE F == Finds(pass, found, x, read)
<1>1. ASSUME NEW m \in F PROVE Sound(m, found, read) /\ \A n \in F : n = m
    BY <1>1, FindsSound
<1> HIDE DEF F
<1>2. \A m \in F : /\ m.banks \subseteq ToSet(read.banks) /\ m.goals \subseteq ToSet(read.goals)
                   /\ m.banks # {} /\ m.goals # {}
                   /\ SidesAgree(m) /\ AsMade(m, read)
    BY <1>1 DEF Sound, OpenBanks, OpenGoals
<1>3. \A m \in F, n \in found :
        m.banks \intersect n.banks = {} /\ m.goals \intersect n.goals = {}
    BY <1>1 DEF Sound, OpenBanks, OpenGoals, BanksOf, GoalsOf
<1>4. Apart(found \union F)
    BY <1>1, <1>3 DEF Fits, Apart
<1> QED BY <1>2, <1>4 DEF Fits, F

LEMMA PassFits ==
    ASSUME NEW found, NEW read, Readable(read), Fits(found, read), NEW pass
    PROVE  Fits(Pass(pass, found, read), read) /\ found \subseteq Pass(pass, found, read)
<1> DEFINE turns == Turns(pass, read)
<1>1. Len(turns) \in Nat
    BY DEF Turns, Readable, Listed
<1>2. PICK after : /\ After(pass, found, read, Len(turns), after)
                   /\ Pass(pass, found, read) = after[Len(turns)]
    BY <1>1, PassRuns
<1> DEFINE S == {i \in Nat : i <= Len(turns) => Fits(after[i], read) /\ found \subseteq after[i]}
<1> HIDE DEF turns
<1>3. 0 \in S
    BY <1>2 DEF After
<1>4. ASSUME NEW i \in Nat, i \in S PROVE i + 1 \in S
    <2> SUFFICES ASSUME i + 1 <= Len(turns)
                 PROVE  Fits(after[i + 1], read) /\ found \subseteq after[i + 1]
        OBVIOUS
    <2>1. Fits(after[i], read) /\ found \subseteq after[i]
        BY <1>1, <1>4
    <2>2. i + 1 \in 1..Len(turns) /\ i + 1 - 1 = i
        BY <1>1
    <2>3. after[i + 1] = after[i] \union Finds(pass, after[i], Turns(pass, read)[i + 1], read)
        BY <1>2, <2>2 DEF After
    <2> QED BY <2>1, <2>3, TurnFits
<1>5. Nat \subseteq S
    <2> HIDE DEF S
    <2> QED BY <1>3, <1>4, Induction
<1> QED BY <1>1, <1>2, <1>5

\* After the manual pass: whatever row has a manual match is in one, or nothing that was
\* read is left to it.
ManualTried(b, found, read) == read.match[b].kind = "manual" =>
    \/ \E n \in found : n.kind = "MANUAL" /\ b \in n.banks
    \/ \A g \in ToSet(read.goals) : g.code \in read.match[b].codes =>
          \E n \in found : n.kind = "MANUAL" /\ g \in n.goals

LEMMA ManualTurn ==
    ASSUME NEW found, NEW read, \A m \in found : m.kind = "MANUAL", NEW b \in ToSet(read.banks)
    PROVE  LET more == found \union Finds("manual", found, b, read)
           IN  ManualTried(b, more, read) /\ \A m \in more : m.kind = "MANUAL"
<1> DEFINE F == Finds("manual", found, b, read)
<1>1. CASE b \notin OpenBanks(found, read)
    <2>1. F = {}
        BY <1>1 DEF Finds
    <2>2. \E n \in found : b \in n.banks
        BY <1>1 DEF OpenBanks, BanksOf
    <2> QED BY <2>1, <2>2 DEF ManualTried
<1>2. CASE b \in OpenBanks(found, read)
    <2> DEFINE G == {g \in OpenGoals(found, read) : g.code \in read.match[b].codes}
               B == {c \in OpenBanks(found, read) : read.match[c] = read.match[b]}
    <2>1. F = ManualFinds(found, b, read)
        BY <1>2 DEF Finds
    <2>2. CASE read.match[b].kind = "manual" /\ G # {}
        <3>1. F = {MatchFound(B, G, "MANUAL")}
            BY <2>1, <2>2 DEF ManualFinds
        <3>2. b \in B
            BY <1>2
        <3> HIDE DEF B, G, F
        <3>3. PICK m : m = MatchFound(B, G, "MANUAL")
            OBVIOUS
        <3>4. F = {m} /\ m.kind = "MANUAL" /\ b \in m.banks
            BY <3>1, <3>2, <3>3 DEF MatchFound
        <3>5. ManualTried(b, found \union F, read)
            BY <3>4 DEF ManualTried
        <3>6. \A n \in found \union F : n.kind = "MANUAL"
            BY <3>4
        <3> QED BY <3>5, <3>6 DEF F
    <2>3. CASE ~(read.match[b].kind = "manual" /\ G # {})
        <3>1. F = {}
            BY <2>1, <2>3 DEF ManualFinds
        <3>2. read.match[b].kind = "manual" =>
                \A g \in ToSet(read.goals) : g.code \in read.match[b].codes =>
                   \E n \in found : g \in n.goals
            BY <2>3 DEF OpenGoals, GoalsOf
        <3> QED BY <3>1, <3>2 DEF ManualTried
    <2> QED BY <2>2, <2>3
<1> QED BY <1>1, <1>2

LEMMA TriedStays ==
    ASSUME NEW b, NEW found, NEW read, ManualTried(b, found, read), NEW more, found \subseteq more
    PROVE  ManualTried(b, more, read)
BY DEF ManualTried

LEMMA ManualPassTries ==
    ASSUME NEW read, Readable(read)
    PROVE  \A b \in ToSet(read.banks) : ManualTried(b, Pass("manual", {}, read), read)
<1> DEFINE turns == read.banks
<1>1. Len(turns) \in Nat /\ DOMAIN turns = 1..Len(turns) /\ Turns("manual", read) = turns
    BY DEF Turns, Readable, Listed
<1>2. PICK after : /\ After("manual", {}, read, Len(turns), after)
                   /\ Pass("manual", {}, read) = after[Len(turns)]
    BY <1>1, PassRuns
<1> DEFINE Tried(i) == \A j \in 1..i : ManualTried(turns[j], after[i], read)
           S == {i \in Nat : i <= Len(turns) => Tried(i) /\ \A m \in after[i] : m.kind = "MANUAL"}
<1>3. 0 \in S
    BY <1>2 DEF After
<1>4. ASSUME NEW i \in Nat, i \in S PROVE i + 1 \in S
    <2> SUFFICES ASSUME i + 1 <= Len(turns)
                 PROVE  Tried(i + 1) /\ \A m \in after[i + 1] : m.kind = "MANUAL"
        OBVIOUS
    <2>1. Tried(i) /\ \A m \in after[i] : m.kind = "MANUAL"
        BY <1>1, <1>4
    <2>2. i + 1 \in 1..Len(turns) /\ i + 1 - 1 = i
        BY <1>1
    <2>3. after[i + 1] = after[i] \union Finds("manual", after[i], turns[i + 1], read)
        BY <1>1, <1>2, <2>2 DEF After
    <2>4. turns[i + 1] \in ToSet(read.banks)
        BY <1>1, <2>2 DEF ToSet
    <2>5. ManualTried(turns[i + 1], after[i + 1], read) /\ \A m \in after[i + 1] : m.kind = "MANUAL"
        BY <2>1, <2>3, <2>4, ManualTurn
    <2>6. ASSUME NEW j \in 1..(i + 1) PROVE ManualTried(turns[j], after[i + 1], read)
        <3>1. CASE j = i + 1
            BY <2>5, <3>1
        <3>2. CASE j # i + 1
            <4>1. j \in 1..i
                BY <3>2
            <4> QED BY <2>1, <2>3, <4>1, TriedStays
        <3> QED BY <3>1, <3>2
    <2> QED BY <2>5, <2>6
<1>5. Nat \subseteq S
    <2> HIDE DEF S
    <2> QED BY <1>3, <1>4, Induction
<1>6. Tried(Len(turns))
    BY <1>1, <1>5
<1> QED BY <1>1, <1>2, <1>6 DEF ToSet

\* What a drilldown finds in the rows it has read (getGoalTransactions).
LEMMA DrilldownFits ==
    ASSUME NEW read, Readable(read)
    PROVE  /\ Fits(DrilldownMatches(read), read)
           /\ \A b \in ToSet(read.banks) : ManualTried(b, DrilldownMatches(read), read)
<1> DEFINE manual == Pass("manual", {}, read)
           exact == Pass("exact", manual, read)
           amount == Pass("amount", exact, read)
           split == Pass("split bank", amount, read)
           all == Pass("split goal", split, read)
<1>1. Fits({}, read)
    BY DEF Fits, Apart
<1>2. Fits(manual, read)
    BY <1>1, PassFits
<1>3. Fits(exact, read) /\ manual \subseteq exact
    BY <1>2, PassFits
<1>4. Fits(amount, read) /\ exact \subseteq amount
    BY <1>3, PassFits
<1>5. Fits(split, read) /\ amount \subseteq split
    BY <1>4, PassFits
<1>6. Fits(all, read) /\ split \subseteq all
    BY <1>5, PassFits
<1>7. manual \subseteq all
    BY <1>3, <1>4, <1>5, <1>6
<1>8. \A b \in ToSet(read.banks) : ManualTried(b, all, read)
    BY <1>7, ManualPassTries, TriedStays
<1> QED BY <1>6, <1>8 DEF DrilldownMatches

-----------------------------------------------------------------------------
(* Drilldowns *)

\* A list of some rows in an order has each of them once.
LEMMA ListsAll ==
    ASSUME NEW R, IsFiniteSet(R), NEW s \in LatestFirst(R)
    PROVE  Listed(s) /\ ToSet(s) = R
<1> DEFINE n == Cardinality(R)
<1>1. n \in Nat
    BY FS_CardinalityType
<1>2. s \in [1..n -> R] /\ \A i, j \in 1..n : i # j => s[i] # s[j]
    BY DEF LatestFirst, SetToSeqs
<1>3. Len(s) = n /\ DOMAIN s = 1..n
    BY <1>1, <1>2
<1>4. s \in Injection(1..n, R)
    BY <1>2 DEF Injection, IsInjective
<1>5. IsFiniteSet(1..n) /\ Cardinality(1..n) = n
    BY <1>1, FS_Interval
<1>6. s \in Surjection(1..n, R)
    BY <1>4, <1>5, FS_Injection
<1>7. ToSet(s) = R
    BY <1>3, <1>6 DEF ToSet, Surjection
<1> QED BY <1>1, <1>2, <1>3, <1>7 DEF Listed

\* Goal transactions are made of the fund rows they are grouped from (goalTxnByCode).
LEMMA GoalTxnsMade ==
    ASSUME NEW F, F \subseteq FundRow
    PROVE  /\ IsFiniteSet(GoalTxns(F))
           /\ \A g \in GoalTxns(F) : /\ g.amount \in Int /\ g.day \in Int
                                     /\ \E f \in F : g.code = f.code
                                     /\ \E f \in F : g.goal = f.goal
<1>1. IsFiniteSet(F)
    BY RowAssumption, FS_Subset
<1>2. IsFiniteSet(GoalTxns(F))
    <2> DEFINE made == [f \in F |-> GoalTxn(f.code, f.type, F)]
    <2>1. IsFiniteSet({made[f] : f \in F})
        BY <1>1, ImageFinite
    <2>2. GoalTxns(F) = {made[f] : f \in F}
        BY DEF GoalTxns
    <2> QED BY <2>1, <2>2
<1>3. ASSUME NEW f \in F
      PROVE  LET g == GoalTxn(f.code, f.type, F)
             IN  /\ g.amount \in Int /\ g.day \in Int /\ g.code = f.code
                 /\ \E h \in F : g.goal = h.goal
    <2> DEFINE group == {h \in F : h.code = f.code /\ h.type = f.type}
               first == CHOOSE h \in group : TRUE
    <2>1. f \in group
        OBVIOUS
    <2>2. first \in F /\ first.day \in Int
        BY <2>1, RowAssumption
    <2>3. IsFiniteSet(group) /\ \A h \in group : h.amount \in Int
        BY <1>1, RowAssumption, FS_Subset
    <2> HIDE DEF group
    <2>4. Total(group) \in Int
        BY <2>3, TotalType
    <2> QED BY <2>2, <2>4 DEF GoalTxn, group
<1> QED BY <1>2, <1>3 DEF GoalTxns

\* What a drilldown that stores its matches has read, and where it is.
Worked(task, read) ==
    /\ Readable(read)
    /\ read.match = task.seen
    /\ ToSet(read.banks) = DOMAIN task.seen
    /\ ToSet(read.goals) = task.goals
    /\ \A b \in ToSet(read.banks) : b \in BankTxn /\ b.goal = task.goal
    /\ \A g \in ToSet(read.goals) : g.code \in Code /\ g.goal = task.goal
    /\ task.found = DrilldownMatches(read)
    /\ task.todo \subseteq ToPersist(task.found)
DrillInv == \A q \in Request : tasks[q].op = "drilldown" =>
    /\ tasks[q].pc = "goals" =>
          /\ tasks[q].banks = DOMAIN tasks[q].seen
          /\ \A b \in tasks[q].banks : b \in BankTxn /\ b.goal = tasks[q].goal
    /\ tasks[q].pc = "persist" => \E read : Worked(tasks[q], read)

\* Where the request of a drilldown is after each of its steps (getGoalTransactions).
LEMMA DrillBegins ==
    ASSUME Shaped, NEW p \in Request, NEW w, NEW g, ReadBankRows(p, w, g)
    PROVE  LET rows == BankRowsIn(w, g) IN
           /\ tasks'[p].pc = "goals" /\ tasks'[p].banks = rows /\ tasks'[p].goal = g
           /\ tasks'[p].window = w
           /\ tasks'[p].seen = [b \in rows |-> bank[b].match]
           /\ UNCHANGED <<bank, fund>>
<1> DEFINE rows == BankRowsIn(w, g)
           task == [Idle EXCEPT !.pc = "goals", !.window = w, !.goal = g,
                                !.banks = rows, !.seen = [b \in rows |-> bank[b].match]]
<1>1. Receive(p, "drilldown", task) /\ UNCHANGED <<bank, fund>>
    BY DEF ReadBankRows
<1>2. DOMAIN task = DOMAIN Idle
    BY DEF Idle
<1>3. tasks'[p] = [task EXCEPT !.op = "drilldown"]
    BY <1>1, <1>2, ReceiveActs
<1> QED BY <1>1, <1>3 DEF Idle

LEMMA DrillReads ==
    ASSUME Shaped, DrillInv, NEW p \in Request, MatchRows(p)
    PROVE  /\ tasks'[p].pc = "persist" /\ tasks'[p].seen = tasks[p].seen
           /\ tasks'[p].goal = tasks[p].goal
           /\ tasks'[p].todo = ToPersist(tasks'[p].found)
           /\ \E read : Worked(tasks'[p], read)
           /\ UNCHANGED <<bank, fund>>
<1> DEFINE F == FundRowsIn(tasks[p].window, tasks[p].goal)
           G == GoalTxns(F)
<1>1. tasks[p].op = "drilldown" /\ tasks[p].pc = "goals" /\ UNCHANGED <<bank, fund>>
    BY DEF MatchRows, At
<1>2. PICK bs \in LatestFirst(tasks[p].banks), gs \in LatestFirst(G) :
        LET found == DrilldownMatches([banks |-> bs, goals |-> gs, match |-> tasks[p].seen])
        IN  Proceed(p, [tasks[p] EXCEPT !.pc = "persist", !.goals = G, !.found = found,
                                        !.todo = ToPersist(found)])
    BY DEF MatchRows
<1> DEFINE read == [banks |-> bs, goals |-> gs, match |-> tasks[p].seen]
<1>3. /\ tasks'[p].pc = "persist" /\ tasks'[p].seen = tasks[p].seen
      /\ tasks'[p].goal = tasks[p].goal /\ tasks'[p].goals = G
      /\ tasks'[p].found = DrilldownMatches(read)
      /\ tasks'[p].todo = ToPersist(DrilldownMatches(read))
    BY <1>2 DEF Proceed, Shaped, Idle
<1>4. /\ tasks[p].banks = DOMAIN tasks[p].seen
      /\ \A b \in tasks[p].banks : b \in BankTxn /\ b.goal = tasks[p].goal
    BY <1>1 DEF DrillInv
<1>5. F \subseteq FundRow /\ \A f \in F : f.goal = tasks[p].goal
    BY DEF Matchable, FundRowsIn, StoredFund
<1> HIDE DEF F, G
<1>6. /\ IsFiniteSet(G)
      /\ \A g \in G : g.amount \in Int /\ g.day \in Int
      /\ \A g \in G : g.code \in Code /\ g.goal = tasks[p].goal
    BY <1>5, GoalTxnsMade DEF G, Code
<1>7. IsFiniteSet(tasks[p].banks) /\ \A b \in tasks[p].banks : b.amount \in Int /\ b.day \in Int
    BY <1>4, RowAssumption, FS_Subset
<1>8. Listed(bs) /\ ToSet(bs) = tasks[p].banks /\ Listed(gs) /\ ToSet(gs) = G
    BY <1>6, <1>7, ListsAll
<1>9. read.banks = bs /\ read.goals = gs /\ read.match = tasks[p].seen
    OBVIOUS
<1> HIDE DEF read
<1>10. Readable(read)
    BY <1>6, <1>7, <1>8, <1>9 DEF Readable
<1>11. Worked(tasks'[p], read)
    BY <1>3, <1>4, <1>6, <1>8, <1>9, <1>10 DEF Worked
<1> QED BY <1>1, <1>3, <1>11

LEMMA DrillPersists ==
    ASSUME Shaped, NEW p \in Request, NEW m \in tasks[p].todo, PersistMatch(p, m)
    PROVE  /\ tasks[p].pc = "persist" /\ tasks'[p].pc = "persist"
           /\ tasks'[p].todo = tasks[p].todo \ {m}
           /\ tasks'[p].seen = tasks[p].seen /\ tasks'[p].goals = tasks[p].goals
           /\ tasks'[p].goal = tasks[p].goal /\ tasks'[p].found = tasks[p].found
           /\ \A read : Worked(tasks[p], read) => Worked(tasks'[p], read)
<1>1. /\ tasks[p].pc = "persist" /\ tasks'[p].pc = "persist"
      /\ tasks'[p].todo = tasks[p].todo \ {m}
      /\ tasks'[p].seen = tasks[p].seen /\ tasks'[p].goals = tasks[p].goals
      /\ tasks'[p].goal = tasks[p].goal /\ tasks'[p].found = tasks[p].found
    BY DEF PersistMatch, Proceed, At, Shaped, Idle
<1> QED BY <1>1 DEF Worked

LEMMA DrillEnds ==
    ASSUME Shaped, NEW p \in Request, EndDrilldown(p)
    PROVE  /\ tasks[p].pc = "persist" /\ tasks[p].todo = {} /\ tasks'[p].pc = "ok"
           /\ tasks'[p].found = tasks[p].found /\ UNCHANGED <<bank, fund>>
BY DEF EndDrilldown, Finish, Finished, Proceed, At, Shaped, Idle

LEMMA NextDrillInv == Shaped /\ DrillInv /\ [Next]_vars => DrillInv'
<1> SUFFICES ASSUME Shaped, DrillInv, [Next]_vars PROVE DrillInv'
    OBVIOUS
<1> DEFINE Holds(q) == tasks[q].op = "drilldown" =>
               /\ tasks[q].pc = "goals" =>
                     /\ tasks[q].banks = DOMAIN tasks[q].seen
                     /\ \A b \in tasks[q].banks : b \in BankTxn /\ b.goal = tasks[q].goal
               /\ tasks[q].pc = "persist" => \E read : Worked(tasks[q], read)
<1>1. ASSUME NEW q \in Request, tasks'[q] = tasks[q] PROVE Holds(q)'
    BY <1>1 DEF DrillInv
<1>2. ASSUME NEW p \in Request, UserRequest(p) PROVE Holds(p)'
    <2> SUFFICES ASSUME tasks'[p].op = "drilldown" PROVE Holds(p)'
        OBVIOUS
    <2>1. PICK w \in Window, g \in Goal : ReadBankRows(p, w, g)
        BY <1>2, OpBegins
    <2>2. \A b \in BankRowsIn(w, g) : b \in BankTxn /\ b.goal = g
        BY DEF Matchable, BankRowsIn, StoredBank
    <2>3. /\ tasks'[p].pc = "goals" /\ tasks'[p].banks = BankRowsIn(w, g) /\ tasks'[p].goal = g
          /\ tasks'[p].seen = [b \in BankRowsIn(w, g) |-> bank[b].match]
        BY <2>1, DrillBegins
    <2> QED BY <2>2, <2>3
<1>3. ASSUME NEW p \in Request, RequestStep(p) PROVE Holds(p)'
    <2> SUFFICES ASSUME tasks'[p].op = "drilldown" PROVE Holds(p)'
        OBVIOUS
    <2>1. tasks[p].op = "drilldown" /\ Holds(p)
        BY <1>3, StepActs DEF DrillInv
    <2>2. CASE MatchRows(p)
        BY <2>2, DrillReads
    <2>3. CASE EndDrilldown(p)
        BY <2>3, DrillEnds
    <2>4. ASSUME NEW m \in tasks[p].todo, PersistMatch(p, m) PROVE Holds(p)'
        BY <2>1, <2>4, DrillPersists
    <2> QED BY <1>3, <2>1, <2>2, <2>3, <2>4, OpSteps
<1>4. ASSUME NEW p \in Request, UserRequest(p) \/ RequestStep(p) PROVE DrillInv'
    <2>1. \A q \in Request \ {p} : tasks'[q] = tasks[q]
        BY <1>4, UserActs, StepActs DEF Acted
    <2>2. \A q \in Request : Holds(q)'
        BY <1>1, <1>2, <1>3, <1>4, <2>1
    <2> QED BY <2>2 DEF DrillInv
<1>5. ASSUME tasks' = tasks PROVE DrillInv'
    <2>1. \A q \in Request : Holds(q)'
        BY <1>1, <1>5
    <2> QED BY <2>1 DEF DrillInv
<1> QED BY <1>4, <1>5, RowsMove DEF Next, vars

LEMMA InitDrillInv == Init => DrillInv
BY DEF Init, DrillInv, Idle

\* Whatever the rows and the order they are read in, in one answer of getGoalTransactions
\* no row belongs to two matches, and the sides of each match agree.
THEOREM AnswersMatchOnce == Spec => []MatchedOnce
<1>1. DrillInv => MatchedOnce
    <2> SUFFICES ASSUME DrillInv, NEW q \in Matched, NEW m \in tasks[q].found
                 PROVE  /\ \A n \in tasks[q].found \ {m} : m.banks \intersect n.banks = {}
                                        /\ m.goals \intersect n.goals = {}
                        /\ SidesAgree(m)
        BY DEF MatchedOnce, SidesAgree
    <2>1. PICK read : Worked(tasks[q], read)
        BY DEF DrillInv, Matched, Drilldowns
    <2>2. Fits(tasks[q].found, read)
        BY <2>1, DrilldownFits DEF Worked
    <2> QED BY <2>2 DEF Fits, Apart
<1> QED BY <1>1, InitShaped, NextShaped, InitDrillInv, NextDrillInv, PTL DEF Spec

\* A drilldown never changes a manual match that it could have shown.
THEOREM ManualMatchesKept == Spec => []ManualMatchKept
<1>1. DrillInv => ManualMatchKept
    <2> SUFFICES ASSUME DrillInv, NEW q \in Matched, NEW m \in tasks[q].todo, NEW b \in m.banks,
                        tasks[q].seen[b].kind = "manual",
                        NEW g \in tasks[q].goals, g.code \in tasks[q].seen[b].codes
                 PROVE  \E n \in tasks[q].found : n.kind = "MANUAL" /\ g \in n.goals /\ b \notin n.banks
        BY DEF ManualMatchKept
    <2>1. PICK read : Worked(tasks[q], read)
        BY DEF DrillInv, Matched, Drilldowns
    <2>2. /\ Fits(tasks[q].found, read)
          /\ \A c \in ToSet(read.banks) : ManualTried(c, tasks[q].found, read)
        BY <2>1, DrilldownFits DEF Worked
    <2>3. m \in tasks[q].found /\ m.kind # "MANUAL"
        BY <2>1 DEF Worked, ToPersist
    <2>4. b \in ToSet(read.banks)
        BY <2>2, <2>3 DEF Fits
    <2>5. \A n \in tasks[q].found : n.kind = "MANUAL" => b \notin n.banks
        BY <2>2, <2>3 DEF Fits, Apart
    <2>6. ManualTried(b, tasks[q].found, read) /\ read.match = tasks[q].seen
          /\ ToSet(read.goals) = tasks[q].goals
        BY <2>1, <2>2, <2>4 DEF Worked
    <2> QED BY <2>5, <2>6 DEF ManualTried
<1> QED BY <1>1, InitShaped, NextShaped, InitDrillInv, NextDrillInv, PTL DEF Spec

\* While nothing comes between, what a drilldown has read is still so, and a bank row of a
\* match that is stored, or made by a user, names its goal transactions.
Named(m) == \A b \in m.banks : \A g \in m.goals : g.code \in bank[b].match.codes
OfOneGoal(m) ==
    /\ m.banks # {} /\ m.goals # {}
    /\ \A b \in m.banks : b \in StoredBank /\ \A g \in m.goals : g.goal = b.goal
KnownInv == \A q \in Request : tasks[q].op = "drilldown" /\ alone = q =>
    /\ tasks[q].pc = "goals" => \A b \in DOMAIN tasks[q].seen :
          b \in StoredBank /\ tasks[q].seen[b] = bank[b].match
    /\ tasks[q].pc \in {"persist", "ok"} => \A m \in tasks[q].found : OfOneGoal(m)
    /\ tasks[q].pc = "persist" => \A m \in tasks[q].found \ tasks[q].todo : Named(m)
    /\ tasks[q].pc = "ok" => \A m \in tasks[q].found : Named(m)

\* A match that is stored is named by its rows; those of other matches stay as they are
\* (matchedGoalTransactionCode).
LEMMA PersistNames ==
    ASSUME Shaped, DrillInv, NEW p \in Request, NEW m \in tasks[p].todo, PersistMatch(p, m),
           tasks[p].op = "drilldown", \A n \in tasks[p].found : OfOneGoal(n),
           \A n \in tasks[p].found \ tasks[p].todo : Named(n)
    PROVE  /\ \A n \in tasks[p].found : OfOneGoal(n)'
           /\ \A n \in tasks[p].found \ (tasks[p].todo \ {m}) : Named(n)'
<1>1. PICK read : Worked(tasks[p], read)
    BY DrillPersists DEF DrillInv
<1>2. Apart(tasks[p].found) /\ m \in tasks[p].found
    BY <1>1, DrilldownFits DEF Worked, Fits, ToPersist
<1>3. bank' = [b \in BankTxn |->
                 IF b \in m.banks \intersect StoredBank
                 THEN [bank[b] EXCEPT !.match = GoalMatch({g.code : g \in m.goals})]
                 ELSE bank[b]]
    BY DEF PersistMatch, UpdateBank
<1>4. ASSUME NEW b \in StoredBank PROVE b \in StoredBank'
    BY <1>3, <1>4 DEF StoredBank, Shaped, NewBankRow
<1>5. \A n \in tasks[p].found : OfOneGoal(n)'
    BY <1>4 DEF OfOneGoal
<1>6. Named(m)'
    <2> SUFFICES ASSUME NEW b \in m.banks, NEW g \in m.goals PROVE g.code \in bank'[b].match.codes
        BY DEF Named
    <2>1. b \in StoredBank /\ b \in BankTxn
        BY <1>2 DEF OfOneGoal, StoredBank
    <2>2. bank'[b].match = GoalMatch({h.code : h \in m.goals})
        BY <1>3, <2>1 DEF Shaped, NewBankRow
    <2> QED BY <2>2 DEF GoalMatch
<1>7. ASSUME NEW n \in tasks[p].found \ tasks[p].todo PROVE Named(n)'
    <2>1. n # m /\ \A b \in n.banks : b \notin m.banks /\ b \in BankTxn
        BY <1>2, <1>7 DEF Apart, OfOneGoal, StoredBank
    <2>2. \A b \in n.banks : bank'[b] = bank[b]
        BY <1>3, <2>1
    <2>3. Named(n)
        OBVIOUS
    <2> QED BY <2>2, <2>3 DEF Named
<1> QED BY <1>5, <1>6, <1>7

LEMMA NextKnownInv == Shaped /\ DrillInv /\ KnownInv /\ [Next]_vars => KnownInv'
<1> SUFFICES ASSUME Shaped, DrillInv, KnownInv, [Next]_vars PROVE KnownInv'
    OBVIOUS
<1> DEFINE Known(q) == tasks[q].op = "drilldown" /\ alone = q =>
      /\ tasks[q].pc = "goals" => \A b \in DOMAIN tasks[q].seen :
            b \in StoredBank /\ tasks[q].seen[b] = bank[b].match
      /\ tasks[q].pc \in {"persist", "ok"} => \A m \in tasks[q].found : OfOneGoal(m)
      /\ tasks[q].pc = "persist" => \A m \in tasks[q].found \ tasks[q].todo : Named(m)
      /\ tasks[q].pc = "ok" => \A m \in tasks[q].found : Named(m)
<1>1. ASSUME NEW q \in Request, alone' # q PROVE Known(q)'
    BY <1>1
<1>2. ASSUME NEW p \in Request, UserRequest(p) PROVE Known(p)'
    <2> SUFFICES ASSUME tasks'[p].op = "drilldown" PROVE Known(p)'
        OBVIOUS
    <2>1. PICK w \in Window, g \in Goal : ReadBankRows(p, w, g)
        BY <1>2, OpBegins
    <2>2. /\ tasks'[p].pc = "goals" /\ bank' = bank
          /\ tasks'[p].seen = [b \in BankRowsIn(w, g) |-> bank[b].match]
        BY <2>1, DrillBegins
    <2>3. \A b \in BankRowsIn(w, g) : b \in StoredBank /\ b \in StoredBank'
        BY <2>2 DEF Matchable, BankRowsIn, StoredBank
    <2> QED BY <2>2, <2>3
<1>3. ASSUME NEW p \in Request, RequestStep(p) PROVE Known(p)'
    <2> SUFFICES ASSUME tasks'[p].op = "drilldown", alone' = p PROVE Known(p)'
        OBVIOUS
    <2>1. tasks[p].op = "drilldown" /\ Known(p) /\ alone = p
        BY <1>3, StepActs DEF KnownInv, Acted
    <2>2. CASE MatchRows(p)
        <3>1. /\ tasks'[p].pc = "persist" /\ tasks'[p].seen = tasks[p].seen
              /\ tasks'[p].todo = ToPersist(tasks'[p].found) /\ bank' = bank
            BY <2>2, DrillReads
        <3>2. PICK read : Worked(tasks'[p], read)
            BY <2>2, DrillReads
        <3>3. \A b \in DOMAIN tasks[p].seen : b \in StoredBank /\ tasks[p].seen[b] = bank[b].match
            BY <2>1, <2>2 DEF MatchRows, At
        <3>4. Fits(tasks'[p].found, read)
            BY <3>2, DrilldownFits DEF Worked
        <3>5. ASSUME NEW m \in tasks'[p].found PROVE OfOneGoal(m)'
            <4>1. /\ m.banks \subseteq DOMAIN tasks[p].seen /\ m.goals \subseteq ToSet(read.goals)
                  /\ m.banks # {} /\ m.goals # {}
                BY <3>1, <3>2, <3>4 DEF Fits, Worked
            <4>2. \A b \in m.banks : b \in StoredBank' /\ b.goal = tasks'[p].goal
                BY <3>1, <3>2, <3>3, <4>1 DEF Worked, StoredBank
            <4>3. \A g \in m.goals : g.goal = tasks'[p].goal
                BY <3>2, <4>1 DEF Worked
            <4> QED BY <4>1, <4>2, <4>3 DEF OfOneGoal
        <3>6. ASSUME NEW m \in tasks'[p].found \ tasks'[p].todo PROVE Named(m)'
            <4>1. m.kind = "MANUAL"
                BY <3>1, <3>6 DEF ToPersist
            <4>2. AsMade(m, read) /\ m.banks \subseteq DOMAIN tasks[p].seen
                BY <3>1, <3>2, <3>4, <3>6 DEF Fits, Worked
            <4>3. read.match = tasks[p].seen
                BY <3>1, <3>2 DEF Worked
            <4> QED BY <3>1, <3>3, <4>1, <4>2, <4>3 DEF AsMade, Named
        <3> QED BY <3>1, <3>5, <3>6
    <2>3. CASE EndDrilldown(p)
        <3>1. /\ tasks[p].pc = "persist" /\ tasks[p].todo = {} /\ tasks'[p].pc = "ok"
              /\ tasks'[p].found = tasks[p].found /\ bank' = bank
            BY <2>3, DrillEnds
        <3>2. \A m \in tasks[p].found : OfOneGoal(m) /\ Named(m)
            BY <2>1, <3>1
        <3>3. \A m \in tasks[p].found : OfOneGoal(m)' /\ Named(m)'
            BY <3>1, <3>2 DEF OfOneGoal, Named, StoredBank
        <3> QED BY <3>1, <3>3
    <2>4. ASSUME NEW m \in tasks[p].todo, PersistMatch(p, m) PROVE Known(p)'
        <3>1. /\ tasks[p].pc = "persist" /\ tasks'[p].pc = "persist"
              /\ tasks'[p].todo = tasks[p].todo \ {m} /\ tasks'[p].found = tasks[p].found
            BY <2>4, DrillPersists
        <3>2. /\ \A n \in tasks[p].found : OfOneGoal(n)
              /\ \A n \in tasks[p].found \ tasks[p].todo : Named(n)
            BY <2>1, <3>1
        <3>3. /\ \A n \in tasks[p].found : OfOneGoal(n)'
              /\ \A n \in tasks[p].found \ (tasks[p].todo \ {m}) : Named(n)'
            BY <2>1, <2>4, <3>2, PersistNames
        <3> QED BY <3>1, <3>3
    <2> QED BY <1>3, <2>1, <2>2, <2>3, <2>4, OpSteps
<1>4. ASSUME NEW p \in Request, UserRequest(p) \/ RequestStep(p) PROVE KnownInv'
    <2>1. \A q \in Request \ {p} : alone' # q
        BY <1>4, UserActs, StepActs, UserAssumption DEF Acted
    <2>2. \A q \in Request : Known(q)'
        BY <1>1, <1>2, <1>3, <1>4, <2>1
    <2> QED BY <2>2 DEF KnownInv
<1>5. ASSUME alone' = NULL PROVE KnownInv'
    <2>1. \A q \in Request : Known(q)'
        BY <1>1, <1>5, UserAssumption
    <2> QED BY <2>1 DEF KnownInv
<1>6. CASE UNCHANGED vars
    BY <1>6 DEF vars, KnownInv, OfOneGoal, Named, StoredBank
<1> QED BY <1>4, <1>5, <1>6, RowsMove DEF Next

\* What is matched of the rows a page has is shown as matched under every filter
\* (getTransactionComparison).
LEMMA MatchIsShown ==
    ASSUME NEW b \in StoredBank, bank[b].match # NoMatch, NEW w,
           NEW group \in Comparison(w, "ALL"), b \in group
    PROVE  ShownStatus(group) = "MATCHED" /\ b \in UNION Comparison(w, "MATCHED")
<1>1. ShownStatus(group) = "MATCHED"
    BY DEF ShownStatus
<1>2. b \in Preselected(w, "MATCHED")
    <2>1. b \in Preselected(w, "ALL")
        BY DEF Comparison, Passing, Groups
    <2>2. In(w, b)
        BY <2>1 DEF Preselected
    <2> QED BY <2>2 DEF Preselected
<1> DEFINE its == {c \in Preselected(w, "MATCHED") : c.goal = b.goal /\ c.txn = b.txn}
<1>3. b \in its /\ its \in Groups(Preselected(w, "MATCHED"))
    BY <1>2 DEF Groups
<1>4. ShownStatus(its) = "MATCHED"
    BY <1>3 DEF ShownStatus
<1> HIDE DEF its
<1>5. its \in Comparison(w, "MATCHED")
    BY <1>3, <1>4 DEF Comparison, Passing
<1> QED BY <1>1, <1>3, <1>5

\* What a drilldown has matched counts as reviewed in the goal's summary, and is matched
\* in the comparison of transactions, unless another request has come between.
THEOREM SummariesKnowMatches == Spec => []SummaryKnowsMatches
<1>1. Init => KnownInv
    BY DEF Init, KnownInv, Idle
<1>2. KnownInv => SummaryKnowsMatches
    <2> SUFFICES ASSUME KnownInv, NEW q \in Drilldowns, tasks[q].pc = "ok", alone = q,
                        NEW m \in tasks[q].found
                 PROVE  /\ \A g \in m.goals : Referenced(g.code, g.goal)
                        /\ \A b \in m.banks :
                             /\ ReviewedBank(b)
                             /\ \A w \in Window : \A group \in Comparison(w, "ALL") : b \in group =>
                                  ShownStatus(group) = "MATCHED" /\ b \in UNION Comparison(w, "MATCHED")
        BY DEF SummaryKnowsMatches
    <2>1. OfOneGoal(m) /\ Named(m)
        BY DEF KnownInv, Drilldowns
    <2>2. ASSUME NEW g \in m.goals PROVE Referenced(g.code, g.goal)
        BY <2>1 DEF OfOneGoal, Named, Referenced
    <2>3. ASSUME NEW b \in m.banks PROVE b \in StoredBank /\ bank[b].match # NoMatch
        BY <2>1 DEF OfOneGoal, Named, NoMatch
    <2> QED BY <2>2, <2>3, MatchIsShown DEF ReviewedBank
<1> QED BY <1>1, <1>2, InitShaped, NextShaped, InitDrillInv, NextDrillInv, NextKnownInv, PTL DEF Spec

-----------------------------------------------------------------------------
(* Types *)

RowTyped(row) == row \in BankRow /\ (row.pair # NULL => row.tag = "REVERSAL_NETTED")
RowsTyped ==
    /\ bank = [b \in BankTxn |-> bank[b]] /\ \A b \in BankTxn : RowTyped(bank[b])
    /\ fund = [f \in FundRow |-> fund[f]] /\ \A f \in FundRow : fund[f] \in FundState
TaskTyped(task) ==
    /\ task.op \in Op \union {NULL} /\ task.banks \subseteq BankTxn
    /\ task.codes \subseteq Code /\ task.stamps \subseteq Request
    /\ ((task.op = "bulk" /\ task.pc = "goal") => task.tag \in Tag)
    /\ (task.op = "run" /\ task.pc = "write") =>
          task.verdict.status \in ValidStatuses /\ task.verdict.code \in Code \union {NULL}
    /\ task.op = "unlink" => task.partner \in BankTxn \union {NULL}
TypeInv ==
    /\ RowsTyped /\ \A q \in Request : TaskTyped(tasks[q])
    /\ alone \in Request \union {NULL}

LEMMA MatchTypes ==
    /\ NoMatch \in Match
    /\ \A codes \in SUBSET Code : GoalMatch(codes) \in Match
    /\ \A q \in Request, codes \in SUBSET Code : ManualMatch(q, codes) \in Match
BY DEF NoMatch, GoalMatch, ManualMatch, Match

\* Every way a bank row is written gives each column a value it can have.
LEMMA RowEdits ==
    ASSUME NEW row, RowTyped(row)
    PROVE  /\ \A m \in Match : RowTyped([row EXCEPT !.match = m])
           /\ \A s \in ValidStatuses : RowTyped([row EXCEPT !.status = s])
           /\ \A m \in Match, s \in ValidStatuses :
                RowTyped([row EXCEPT !.match = m, !.status = s])
                  /\ RowTyped([row EXCEPT !.status = s, !.match = m])
           /\ \A t \in Tag \union {NULL} : RowTyped([row EXCEPT !.tag = t, !.pair = NULL])
           /\ \A c \in BankTxn : RowTyped([row EXCEPT !.tag = "REVERSAL_NETTED", !.pair = c])
           /\ RowTyped([row EXCEPT !.resolved = TRUE]) /\ RowTyped([row EXCEPT !.at = "stored"])
           /\ RowTyped(Settled(row))
<1> USE DEF RowTyped, BankRow
<1>1. \A m \in Match : RowTyped([row EXCEPT !.match = m])
    OBVIOUS
<1>2. \A s \in ValidStatuses : RowTyped([row EXCEPT !.status = s])
    OBVIOUS
<1>3. \A m \in Match, s \in ValidStatuses :
                RowTyped([row EXCEPT !.match = m, !.status = s])
                  /\ RowTyped([row EXCEPT !.status = s, !.match = m])
    OBVIOUS
<1>4. \A t \in Tag \union {NULL} : RowTyped([row EXCEPT !.tag = t, !.pair = NULL])
    OBVIOUS
<1>5. \A c \in BankTxn : RowTyped([row EXCEPT !.tag = "REVERSAL_NETTED", !.pair = c])
    OBVIOUS
<1>6. RowTyped([row EXCEPT !.resolved = TRUE]) /\ RowTyped([row EXCEPT !.at = "stored"])
    OBVIOUS
<1>7. RowTyped(Settled(row))
    BY MatchTypes DEF Settled, ValidStatuses
<1> HIDE DEF RowTyped, BankRow
<1> QED BY <1>1, <1>2, <1>3, <1>4, <1>5, <1>6, <1>7

LEMMA FundEdits ==
    ASSUME NEW row \in FundState
    PROVE  /\ \A t \in Tag : [row EXCEPT !.tag = t] \in FundState
           /\ [row EXCEPT !.resolved = TRUE] \in FundState
           /\ [row EXCEPT !.at = "stored"] \in FundState
BY DEF FundState

LEMMA NewRowsTyped ==
    ASSUME NEW at \in {"absent", "stored", "gone"}
    PROVE  /\ RowTyped([NewBankRow EXCEPT !.at = at])
           /\ [NewFundRow EXCEPT !.at = at] \in FundState
<1>1. [NewFundRow EXCEPT !.at = at] \in FundState
    BY DEF NewFundRow, FundState
<1> QED BY <1>1, MatchTypes DEF RowTyped, BankRow, NewBankRow, ValidStatuses

\* What runReconciliation and the older service decide is a status (ReconciliationStatus).
LEMMA VerdictsValid ==
    ASSUME NEW b, NEW F
    PROVE  Verdicts(b, F) \subseteq ValidStatuses /\ OlderVerdicts(b, F) \subseteq ValidStatuses
<1>1. \A variances : OlderStatus(variances) \in ValidStatuses
    BY DEF OlderStatus, ValidStatuses
<1>2. OlderVerdicts(b, F) \subseteq ValidStatuses
    BY <1>1 DEF OlderVerdicts, ValidStatuses
<1>3. ASSUME NEW v \in Verdicts(b, F) PROVE v \in ValidStatuses
    <2> DEFINE same == SameKey(b, F)
               off(row) == \E k \in FundCode :
                   Gap(b, row, k) > MinTolerance
                     /\ 100 * Gap(b, row, k) > Larger(Held(row, k), 1)
    <2>1. \/ v \in {"MISSING_IN_FUND", "VARIANCE_DETECTED"}
          \/ v \in {IF off(row) THEN "AUTO_APPROVED" ELSE "MATCHED" : row \in LastRead(same)}
        BY DEF Verdicts
    <2> HIDE DEF off
    <2> QED BY <2>1 DEF ValidStatuses
<1> QED BY <1>2, <1>3

LEMMA InitTyped == Init => TypeInv
<1> SUFFICES ASSUME Init PROVE TypeInv
    OBVIOUS
<1>1. PICK o \in Opening :
        /\ bank \in {row \in [BankTxn -> UNION {Stored(b, o) : b \in BankTxn}] :
                       \A b \in BankTxn : row[b] \in Stored(b, o)}
        /\ fund = [f \in FundRow |-> [NewFundRow EXCEPT !.at = Whereabouts(f, o)]]
    BY DEF Init
<1>2. \A r : Whereabouts(r, o) \in {"absent", "stored", "gone"}
    BY DEF Whereabouts
<1>3. ASSUME NEW b \in BankTxn PROVE RowTyped(bank[b])
    <2> DEFINE read == o.rows \intersect FundRow
    <2>1. bank[b] \in Stored(b, o)
        BY <1>1
    <2>2. CASE b \notin o.rows \intersect o.older
        BY <1>2, <2>1, <2>2, NewRowsTyped DEF Stored
    <2>3. CASE b \in o.rows \intersect o.older
        <3>1. PICK v \in OlderVerdicts(b, read), c \in FirstCodes(SameKey(b, read)) :
                bank[b] = Judged(v, c)
            <4>1. Stored(b, o) = {Judged(v, c) : v \in OlderVerdicts(b, read),
                                                 c \in FirstCodes(SameKey(b, read))}
                BY <2>3 DEF Stored
            <4> QED BY <2>1, <4>1
        <3>2. v \in ValidStatuses
            BY <3>1, VerdictsValid
        <3>3. c \in Match
            <4>1. \A f \in SameKey(b, read) : {f.code} \in SUBSET Code
                BY DEF SameKey, Code
            <4> QED BY <4>1, MatchTypes DEF FirstCodes
        <3>4. RowTyped([NewBankRow EXCEPT !.at = "stored"])
            BY NewRowsTyped
        <3>5. PICK row : row = [NewBankRow EXCEPT !.at = "stored"]
            OBVIOUS
        <3>6. bank[b] = [row EXCEPT !.status = v, !.match = c]
            BY <3>1, <3>5 DEF Judged, NewBankRow
        <3>7. RowTyped([row EXCEPT !.status = v, !.match = c])
            BY <3>2, <3>3, <3>4, <3>5, RowEdits
        <3> QED BY <3>6, <3>7
    <2> QED BY <2>2, <2>3
<1>4. \A f \in FundRow : fund[f] \in FundState
    BY <1>1, <1>2, NewRowsTyped
<1>5. bank = [b \in BankTxn |-> bank[b]] /\ fund = [f \in FundRow |-> fund[f]]
    BY <1>1
<1>6. \A q \in Request : TaskTyped(tasks[q])
    BY DEF Init, TaskTyped, Idle
<1> QED BY <1>3, <1>4, <1>5, <1>6 DEF Init, TypeInv, RowsTyped

\* A request that comes in (UserRequest).
Arrives(p, op, task) ==
    /\ op \in Op /\ DOMAIN task = DOMAIN Idle /\ Receive(p, op, task)
    /\ task.banks \subseteq BankTxn /\ task.codes \subseteq Code
    /\ (op = "bulk") => task.tag \in Tag
    /\ (op = "run") => task.pc # "write"
    /\ (op = "unlink") => task.partner \in BankTxn \union {NULL}
LEMMA UserTyped ==
    ASSUME Shaped, TypeInv, NEW p \in Request, UserRequest(p)
    PROVE  TaskTyped(tasks'[p]) /\ RowsTyped'
<1> DEFINE Came == \E op, task : Arrives(p, op, task)
           Kept == RowsTyped'
<1>0. \A s \in Selection : s.banks \subseteq BankTxn /\ s.codes \subseteq Code
    BY UserAssumption
<1>1. ASSUME NEW s \in Selection, CheckTotals(p, s.banks, s.codes) PROVE Came /\ Kept
    <2>1. Came
        <3>1. PICK task : task = [Idle EXCEPT !.pc = "write", !.banks = s.banks, !.codes = s.codes]
            OBVIOUS
        <3>2. Arrives(p, "match", task)
            BY <1>0, <1>1, <3>1 DEF Arrives, CheckTotals, Idle, Op
        <3> QED BY <3>2
    <2> QED BY <1>1, <2>1 DEF CheckTotals, TypeInv, RowsTyped
<1>2. ASSUME NEW s \in Selection, BeginUnmatch(p, s.banks, s.codes) PROVE Came /\ Kept
    <2>1. Came
        <3>1. PICK task : task = [Idle EXCEPT !.pc = "ids", !.banks = s.banks, !.codes = s.codes,
                                    !.stamps = {bank[b].match.by : b \in StoredBank} \ {NULL}]
            OBVIOUS
        <3>2. Arrives(p, "unmatch", task)
            BY <1>0, <1>2, <3>1 DEF Arrives, BeginUnmatch, Idle, Op
        <3> QED BY <3>2
    <2> QED BY <1>2, <2>1 DEF BeginUnmatch, TypeInv, RowsTyped
<1>3. ASSUME NEW s \in Selection, NEW t \in Tag, BulkReviewBank(p, s.banks, s.codes, t)
      PROVE  Came /\ Kept
    <2>1. Came
        <3>1. PICK task : task = [Idle EXCEPT !.pc = "goal", !.codes = s.codes, !.tag = t]
            OBVIOUS
        <3>2. Arrives(p, "bulk", task)
            BY <1>0, <1>3, <3>1 DEF Arrives, BulkReviewBank, Idle, Op
        <3> QED BY <3>2
    <2>2. Kept
        BY <1>3, RowEdits DEF BulkReviewBank, TagBank, UpdateBank, TypeInv, RowsTyped
    <2> QED BY <2>1, <2>2
<1>4. ASSUME NEW b \in BankTxn, NEW t \in Tag, ReviewBank(p, b, t) PROVE Came /\ Kept
    <2>1. Came
        <3>1. PICK task : task = Finished(Idle)
            OBVIOUS
        <3>2. Arrives(p, "review", task)
            BY <1>4, <3>1 DEF Arrives, ReviewBank, Finished, Idle, Op
        <3> QED BY <3>2
    <2>2. Kept
        BY <1>4, RowEdits DEF ReviewBank, TagBank, UpdateBank, TypeInv, RowsTyped
    <2> QED BY <2>1, <2>2
<1>5. ASSUME NEW c \in Code, NEW t \in Tag, ReviewGoal(p, c, t) PROVE Came /\ Kept
    <2>1. Came
        <3>1. PICK task : task = Finished(Idle)
            OBVIOUS
        <3>2. Arrives(p, "review", task)
            BY <1>5, <3>1 DEF Arrives, ReviewGoal, Finished, Idle, Op
        <3> QED BY <3>2
    <2>2. Kept
        BY <1>5, FundEdits DEF ReviewGoal, TagFund, UpdateFund, TypeInv, RowsTyped
    <2> QED BY <2>1, <2>2
<1>6. ASSUME NEW b \in BankTxn, NEW s \in Decision, SetStatus(p, b, s) PROVE Came /\ Kept
    <2>1. Came
        <3>1. PICK task : task = Finished(Idle)
            OBVIOUS
        <3>2. Arrives(p, "status", task)
            BY <1>6, <3>1 DEF Arrives, SetStatus, Finished, Idle, Op
        <3> QED BY <3>2
    <2>2. Kept
        BY <1>6, RowEdits DEF SetStatus, UpdateBank, TypeInv, RowsTyped
    <2> QED BY <2>1, <2>2
<1>7. ASSUME NEW b \in BankTxn, NEW c \in BankTxn, LinkReversal(p, b, c) PROVE Came /\ Kept
    <2>1. Came
        <3>1. PICK task : task = Finished(Idle)
            OBVIOUS
        <3>2. Arrives(p, "link", task)
            BY <1>7, <3>1 DEF Arrives, LinkReversal, Finished, Idle, Op
        <3> QED BY <3>2
    <2>2. b # c
        BY <1>7 DEF LinkReversal, CanNet
    <2>3. /\ bank' = [d \in BankTxn |-> bank'[d]]
          /\ bank'[b] = [bank[b] EXCEPT !.tag = "REVERSAL_NETTED", !.pair = c]
          /\ bank'[c] = [bank[c] EXCEPT !.tag = "REVERSAL_NETTED", !.pair = b]
          /\ \A d \in BankTxn \ {b, c} : bank'[d] = bank[d]
        BY <1>7, <2>2 DEF LinkReversal, TypeInv, RowsTyped
    <2>4. RowTyped(bank[b]) /\ RowTyped(bank[c]) /\ \A d \in BankTxn : RowTyped(bank[d])
        BY DEF TypeInv, RowsTyped
    <2>6. RowTyped(bank'[b]) /\ RowTyped(bank'[c])
        <3>1. ASSUME NEW row, RowTyped(row), NEW d \in BankTxn
              PROVE  RowTyped([row EXCEPT !.tag = "REVERSAL_NETTED", !.pair = d])
            BY <3>1, RowEdits
        <3>2. PICK one, other : one = bank[b] /\ other = bank[c]
            OBVIOUS
        <3>3. /\ RowTyped([one EXCEPT !.tag = "REVERSAL_NETTED", !.pair = c])
              /\ RowTyped([other EXCEPT !.tag = "REVERSAL_NETTED", !.pair = b])
            BY <2>4, <3>1, <3>2
        <3> QED BY <2>3, <3>2, <3>3
    <2>7. \A d \in BankTxn : RowTyped(bank'[d])
        BY <2>3, <2>4, <2>6
    <2>5. fund' = fund
        BY <1>7 DEF LinkReversal
    <2> QED BY <2>1, <2>3, <2>7, <2>5 DEF TypeInv, RowsTyped
<1>8. ASSUME NEW b \in BankTxn, BeginUnlink(p, b) PROVE Came /\ Kept
    <2>1. bank[b].pair \in BankTxn \union {NULL}
        <3>1. RowTyped(bank[b])
            BY DEF TypeInv, RowsTyped
        <3> QED BY <3>1 DEF RowTyped, BankRow
    <2>2. Came
        <3>1. PICK task : task = [Idle EXCEPT !.pc = "first", !.banks = {b}, !.partner = bank[b].pair]
            OBVIOUS
        <3>2. Arrives(p, "unlink", task)
            BY <1>8, <2>1, <3>1 DEF Arrives, BeginUnlink, Idle, Op
        <3> QED BY <3>2
    <2> QED BY <1>8, <2>2 DEF BeginUnlink, TypeInv, RowsTyped
<1>9. ASSUME NEW w \in Window, NEW g \in Goal, ReadBankRows(p, w, g) PROVE Came /\ Kept
    <2>1. BankRowsIn(w, g) \subseteq BankTxn
        BY DEF Matchable, BankRowsIn, StoredBank
    <2>2. Came
        <3>1. PICK task : task = [Idle EXCEPT !.pc = "goals", !.window = w, !.goal = g,
                                    !.banks = BankRowsIn(w, g),
                                    !.seen = [b \in BankRowsIn(w, g) |-> bank[b].match]]
            OBVIOUS
        <3>2. Arrives(p, "drilldown", task)
            BY <1>9, <2>1, <3>1 DEF Arrives, ReadBankRows, Idle, Op
        <3> QED BY <3>2
    <2> QED BY <1>9, <2>2 DEF ReadBankRows, TypeInv, RowsTyped
<1>10. ASSUME Detect(p) PROVE Came /\ Kept
    <2>1. ResolvedBank \subseteq BankTxn
        BY DEF ResolvedBank, StoredBank
    <2>2. ResolvedGoals \subseteq Code
        <3> DEFINE open(tag) == {f \in StoredFund : ~fund[f].resolved /\ fund[f].tag = tag}
        <3>1. \A tag : open(tag) \subseteq FundRow
            BY DEF StoredFund
        <3>2. \A tag : \A g \in GoalTxns(open(tag)) : g.code \in Code
            BY <3>1, GoalTxnsMade DEF Code
        <3> QED BY <3>2 DEF ResolvedGoals
    <2>3. Came
        <3>1. PICK task : task = [Idle EXCEPT !.pc = "bank", !.banks = ResolvedBank, !.codes = ResolvedGoals]
            OBVIOUS
        <3>2. Arrives(p, "detect", task)
            BY <1>10, <2>1, <2>2, <3>1 DEF Arrives, Detect, Idle, Op
        <3> QED BY <3>2
    <2> QED BY <1>10, <2>3 DEF Detect, TypeInv, RowsTyped
<1>11. ASSUME StartRun(p) PROVE Came /\ Kept
    <2>1. \A taken \in Oldest(Pending) : taken \subseteq BankTxn
        BY DEF Oldest, Pending, StoredBank
    <2>2. Came
        <3>1. PICK taken \in Oldest(Pending) :
                Receive(p, "run", [Idle EXCEPT !.pc = "judge", !.banks = taken,
                                               !.more = Cardinality(Pending) > RunLimit])
            BY <1>11 DEF StartRun
        <3>2. PICK task : task = [Idle EXCEPT !.pc = "judge", !.banks = taken,
                                              !.more = Cardinality(Pending) > RunLimit]
            OBVIOUS
        <3>3. Arrives(p, "run", task)
            BY <2>1, <3>1, <3>2 DEF Arrives, Idle, Op
        <3> QED BY <3>3
    <2> QED BY <1>11, <2>2 DEF StartRun, TypeInv, RowsTyped
<1>12. Came /\ Kept
    BY <1>1, <1>2, <1>3, <1>4, <1>5, <1>6, <1>7, <1>8, <1>9, <1>10, <1>11 DEF UserRequest
<1>13. PICK op, task : Arrives(p, op, task)
    BY <1>12
<1>14. tasks'[p] = [task EXCEPT !.op = op] /\ tasks'[p].stamps = task.stamps
    BY <1>13, ReceiveActs DEF Arrives
<1>15. tasks'[p].stamps \subseteq Request
    <2>1. tasks'[p].stamps \subseteq Stamps
        BY UserActs
    <2>2. Stamps \subseteq Request
        BY DEF Stamps, StoredBank, TypeInv, RowsTyped, RowTyped, BankRow, Match
    <2> QED BY <2>1, <2>2
<1>16. TaskTyped(tasks'[p])
    <2>1. /\ op \in Op /\ DOMAIN task = DOMAIN Idle
          /\ task.banks \subseteq BankTxn /\ task.codes \subseteq Code
          /\ (op = "bulk") => task.tag \in Tag
          /\ (op = "run") => task.pc # "write"
          /\ (op = "unlink") => task.partner \in BankTxn \union {NULL}
        BY <1>13 DEF Arrives
    <2>2. /\ tasks'[p].op = op /\ tasks'[p].banks = task.banks /\ tasks'[p].codes = task.codes
          /\ tasks'[p].tag = task.tag /\ tasks'[p].pc = task.pc
          /\ tasks'[p].partner = task.partner
        BY <1>14, <2>1 DEF Idle
    <2> QED BY <1>15, <2>1, <2>2 DEF TaskTyped
<1> QED BY <1>12, <1>16

\* A step within a request (RequestStep).
Leads(p, task) ==
    /\ DOMAIN task = DOMAIN Idle /\ tasks[p].pc # "idle" /\ task.op = tasks[p].op
    /\ Proceed(p, task) /\ TaskTyped(task)
LEMMA StepTyped ==
    ASSUME Shaped, DrillInv, TypeInv, NEW p \in Request, RequestStep(p)
    PROVE  TaskTyped(tasks'[p]) /\ RowsTyped'
<1> DEFINE Led == \E task : Leads(p, task)
           Kept == RowsTyped'
<1>0. /\ DOMAIN tasks[p] = DOMAIN Idle /\ TaskTyped(tasks[p]) /\ RowsTyped
      /\ \A b \in BankTxn : RowTyped(bank[b])
    BY DEF Shaped, TypeInv, RowsTyped
<1>01. ASSUME Finish(p), tasks[p].pc # "idle" PROVE Led
    <2>1. PICK task : task = Finished(tasks[p])
        OBVIOUS
    <2>2. Leads(p, task)
        BY <1>0, <1>01, <2>1 DEF Leads, Finish, Finished, Idle, TaskTyped
    <2> QED BY <2>2
<1>02. ASSUME NEW pc, Goto(p, pc), tasks[p].pc # "idle", pc \notin {"goal", "write"} PROVE Led
    <2>1. PICK task : task = [tasks[p] EXCEPT !.pc = pc]
        OBVIOUS
    <2>2. Leads(p, task)
        BY <1>0, <1>02, <2>1 DEF Leads, Goto, Idle, TaskTyped
    <2> QED BY <2>2
<1>03. ASSUME bank' = bank, fund' = fund PROVE Kept
    BY <1>0, <1>03 DEF RowsTyped
<1>1. ASSUME WriteMatch(p) PROVE Led /\ Kept
    <2>1. PICK m : m = ManualMatch(p, tasks[p].codes)
        OBVIOUS
    <2>2. m \in Match
        BY <1>0, <2>1, MatchTypes DEF TaskTyped
    <2>3. Kept
        BY <1>0, <1>1, <2>1, <2>2, RowEdits DEF WriteMatch, UpdateBank, RowsTyped, ValidStatuses
    <2> QED BY <1>01, <1>1, <2>3 DEF WriteMatch, At
<1>2. ASSUME UnmatchIds(p) PROVE Led /\ Kept
    <2>1. Led
        BY <1>01, <1>02, <1>2 DEF UnmatchIds, At
    <2>2. Kept
        BY <1>0, <1>2, RowEdits DEF UnmatchIds, UpdateBank, RowsTyped
    <2> QED BY <2>1, <2>2
<1>3. ASSUME UnmatchExact(p) PROVE Led /\ Kept
    <2>1. PICK task : task = [tasks[p] EXCEPT !.pc = "contains", !.left = tasks[p].codes]
        OBVIOUS
    <2>2. Leads(p, task)
        BY <1>0, <1>3, <2>1 DEF UnmatchExact, At, Leads, Idle, TaskTyped
    <2>3. Kept
        BY <1>0, <1>3, RowEdits DEF UnmatchExact, UpdateBank, RowsTyped
    <2> QED BY <2>2, <2>3
<1>4. ASSUME NEW c \in Code, UnmatchContains(p, c) PROVE Led /\ Kept
    <2>1. Led
        <3>1. PICK task : task = [tasks[p] EXCEPT !.left = @ \ {c}]
            OBVIOUS
        <3>2. ASSUME Proceed(p, task) PROVE Leads(p, task)
            BY <1>0, <1>4, <3>1, <3>2 DEF UnmatchContains, At, Leads, Idle, TaskTyped
        <3>3. Finish(p) \/ Proceed(p, task)
            BY <1>4, <3>1 DEF UnmatchContains
        <3> QED BY <1>01, <1>4, <3>2, <3>3 DEF UnmatchContains, At
    <2>2. Kept
        BY <1>0, <1>4, RowEdits DEF UnmatchContains, UpdateBank, RowsTyped
    <2> QED BY <2>1, <2>2
<1>5. ASSUME BulkReviewGoal(p) PROVE Led /\ Kept
    <2>1. tasks[p].tag \in Tag
        BY <1>0, <1>5 DEF BulkReviewGoal, At, TaskTyped
    <2>2. Kept
        BY <1>0, <1>5, <2>1, FundEdits DEF BulkReviewGoal, TagFund, UpdateFund, RowsTyped
    <2> QED BY <1>01, <1>5, <2>2 DEF BulkReviewGoal, At
<1>6. ASSUME UnlinkFirst(p) PROVE Led /\ Kept
    <2>1. Led
        BY <1>01, <1>02, <1>6 DEF UnlinkFirst, At
    <2>2. Kept
        BY <1>0, <1>6, RowEdits DEF UnlinkFirst, TagBank, UpdateBank, RowsTyped
    <2> QED BY <2>1, <2>2
<1>7. ASSUME FindPartner(p) PROVE Led /\ Kept
    BY <1>01, <1>02, <1>03, <1>7 DEF FindPartner, At
<1>8. ASSUME UnlinkSecond(p) PROVE Led /\ Kept
    <2>1. Kept
        BY <1>0, <1>8, RowEdits DEF UnlinkSecond, TagBank, UpdateBank, RowsTyped
    <2> QED BY <1>01, <1>8, <2>1 DEF UnlinkSecond, At
<1>9. ASSUME MatchRows(p) PROVE Led /\ Kept
    <2>1. PICK found, G : Proceed(p, [tasks[p] EXCEPT !.pc = "persist", !.goals = G,
                                        !.found = found, !.todo = ToPersist(found)])
        BY <1>9 DEF MatchRows
    <2>2. PICK task : task = [tasks[p] EXCEPT !.pc = "persist", !.goals = G,
                                              !.found = found, !.todo = ToPersist(found)]
        OBVIOUS
    <2>3. Leads(p, task)
        BY <1>0, <1>9, <2>1, <2>2 DEF MatchRows, At, Leads, Idle, TaskTyped
    <2> QED BY <1>03, <1>9, <2>3 DEF MatchRows
<1>10. ASSUME EndDrilldown(p) PROVE Led /\ Kept
    BY <1>01, <1>03, <1>10 DEF EndDrilldown, At
<1>11. ASSUME NEW m \in tasks[p].todo, PersistMatch(p, m) PROVE Led /\ Kept
    <2>1. PICK read : Worked(tasks[p], read)
        BY <1>11 DEF DrillInv, PersistMatch, At
    <2>2. m \in tasks[p].found /\ Fits(tasks[p].found, read)
        BY <2>1, DrilldownFits DEF Worked, ToPersist
    <2>3. {g.code : g \in m.goals} \in SUBSET Code
        BY <2>1, <2>2 DEF Fits, Worked
    <2>4. PICK match : match = GoalMatch({g.code : g \in m.goals})
        OBVIOUS
    <2>5. match \in Match
        BY <2>3, <2>4, MatchTypes
    <2>6. Kept
        BY <1>0, <1>11, <2>4, <2>5, RowEdits DEF PersistMatch, UpdateBank, RowsTyped
    <2>7. PICK task : task = [tasks[p] EXCEPT !.todo = @ \ {m}]
        OBVIOUS
    <2>8. Leads(p, task)
        BY <1>0, <1>11, <2>7 DEF PersistMatch, At, Leads, Idle, TaskTyped
    <2> QED BY <2>6, <2>8
<1>12. ASSUME EndDetect(p) PROVE Led /\ Kept
    BY <1>01, <1>03, <1>12 DEF EndDetect, At
<1>13. ASSUME NEW b \in BankTxn, MarkBank(p, b) PROVE Led /\ Kept
    <2>1. Led
        <3>1. PICK task : task = [tasks[p] EXCEPT !.banks = @ \ {b}]
            OBVIOUS
        <3>2. ASSUME Proceed(p, task) PROVE Leads(p, task)
            BY <1>0, <1>13, <3>1, <3>2 DEF MarkBank, At, Leads, Idle, TaskTyped
        <3>3. Finish(p) \/ Proceed(p, task)
            BY <1>13, <3>1 DEF MarkBank
        <3> QED BY <1>01, <1>13, <3>2, <3>3 DEF MarkBank, At
    <2>2. Kept
        BY <1>0, <1>13, RowEdits DEF MarkBank, UpdateBank, RowsTyped
    <2> QED BY <2>1, <2>2
<1>14. ASSUME NEW c \in Code, MarkGoal(p, c) PROVE Led /\ Kept
    <2>1. PICK task : task = [tasks[p] EXCEPT !.codes = @ \ {c}]
        OBVIOUS
    <2>2. Leads(p, task)
        BY <1>0, <1>14, <2>1 DEF MarkGoal, At, Leads, Idle, TaskTyped
    <2>3. Kept
        BY <1>0, <1>14, FundEdits DEF MarkGoal, UpdateFund, RowsTyped
    <2> QED BY <2>2, <2>3
<1>15. ASSUME EndRun(p) PROVE Led /\ Kept
    BY <1>01, <1>03, <1>15 DEF EndRun, At
<1>16. ASSUME WriteVerdict(p) PROVE Led /\ Kept
    <2> DEFINE v == tasks[p].verdict
    <2>1. v.status \in ValidStatuses /\ v.code \in Code \union {NULL}
        BY <1>0, <1>16 DEF WriteVerdict, At, TaskTyped
    <2>2. ASSUME NEW row, RowTyped(row)
          PROVE  RowTyped([row EXCEPT !.status = v.status,
                              !.match = IF v.code = NULL THEN @ ELSE GoalMatch({v.code})])
        <3>1. PICK m : m = IF v.code = NULL THEN row.match ELSE GoalMatch({v.code})
            OBVIOUS
        <3>2. row.match \in Match
            BY <2>2 DEF RowTyped, BankRow
        <3>3. m \in Match
            <4>1. v.code # NULL => {v.code} \in SUBSET Code
                BY <2>1
            <4> QED BY <3>1, <3>2, <4>1, MatchTypes
        <3>4. RowTyped([row EXCEPT !.status = v.status, !.match = m])
            BY <2>1, <2>2, <3>3, RowEdits
        <3> QED BY <3>1, <3>4
    <2>3. Kept
        BY <1>0, <1>16, <2>2 DEF WriteVerdict, UpdateBank, RowsTyped
    <2>4. PICK task : task = [tasks[p] EXCEPT !.pc = "judge", !.banks = @ \ {v.row},
                                              !.verdict = NULL]
        OBVIOUS
    <2>5. Leads(p, task)
        BY <1>0, <1>16, <2>4 DEF WriteVerdict, At, Leads, Idle, TaskTyped
    <2> QED BY <2>3, <2>5
<1>17. ASSUME NEW b \in BankTxn, JudgeRow(p, b) PROVE Led /\ Kept
    <2> DEFINE same == SameKey(b, StoredFund)
    <2>1. PICK v \in Verdicts(b, StoredFund), c \in {f.code : f \in same} \union {NULL} :
            Proceed(p, [tasks[p] EXCEPT !.pc = "write",
                             !.verdict = [row |-> b, status |-> v, code |-> c]])
        BY <1>17 DEF JudgeRow
    <2>2. v \in ValidStatuses
        BY VerdictsValid
    <2>3. c \in Code \union {NULL}
        BY DEF SameKey, StoredFund, Code
    <2>4. PICK task : task = [tasks[p] EXCEPT !.pc = "write",
                             !.verdict = [row |-> b, status |-> v, code |-> c]]
        OBVIOUS
    <2>5. Leads(p, task)
        BY <1>0, <1>17, <2>1, <2>2, <2>3, <2>4 DEF JudgeRow, At, Leads, Idle, TaskTyped
    <2> QED BY <1>03, <1>17, <2>5 DEF JudgeRow
<1>18. Led /\ Kept
    BY <1>1, <1>2, <1>3, <1>4, <1>5, <1>6, <1>7, <1>8, <1>9, <1>10, <1>11, <1>12, <1>13, <1>14,
       <1>15, <1>16, <1>17 DEF RequestStep
<1>19. PICK task : Leads(p, task)
    BY <1>18
<1>20. tasks'[p] = task /\ TaskTyped(task)
    BY <1>19, ProceedActs DEF Leads
<1> QED BY <1>18, <1>20

LEMMA NextTypeInv == Shaped /\ DrillInv /\ TypeInv /\ [Next]_vars => TypeInv'
<1> SUFFICES ASSUME Shaped, DrillInv, TypeInv, [Next]_vars PROVE TypeInv'
    OBVIOUS
<1>1. ASSUME NEW p \in Request, UserRequest(p) \/ RequestStep(p) PROVE TypeInv'
    <2>1. /\ \A q \in Request \ {p} : tasks'[q] = tasks[q]
          /\ alone' \in Request \union {NULL}
        BY <1>1, UserActs, StepActs DEF Acted
    <2>2. TaskTyped(tasks'[p]) /\ RowsTyped'
        BY <1>1, UserTyped, StepTyped
    <2>3. \A q \in Request : TaskTyped(tasks'[q])
        BY <2>1, <2>2 DEF TypeInv
    <2> QED BY <2>1, <2>2, <2>3 DEF TypeInv
<1>2. ASSUME NEW r, Uploaded(r) \/ RolledBack(r) PROVE TypeInv'
    <2>1. /\ bank = [b \in BankTxn |-> bank[b]] /\ \A b \in BankTxn : RowTyped(bank[b])
          /\ fund = [f \in FundRow |-> fund[f]] /\ \A f \in FundRow : fund[f] \in FundState
        BY DEF TypeInv, RowsTyped
    <2>2. ASSUME NEW row, RowTyped(row), r \in BankTxn, bank' = [bank EXCEPT ![r] = row],
                 fund' = fund
          PROVE  RowsTyped'
        <3>1. \A b \in BankTxn : RowTyped(bank'[b])
            BY <2>1, <2>2
        <3>2. bank' = [b \in BankTxn |-> bank'[b]]
            BY <2>1, <2>2
        <3> QED BY <2>1, <2>2, <3>1, <3>2 DEF RowsTyped
    <2>3. ASSUME NEW row \in FundState, r \in FundRow, fund' = [fund EXCEPT ![r] = row],
                 bank' = bank
          PROVE  RowsTyped'
        <3>1. \A f \in FundRow : fund'[f] \in FundState
            BY <2>1, <2>3
        <3>2. fund' = [f \in FundRow |-> fund'[f]]
            BY <2>1, <2>3
        <3> QED BY <2>1, <2>3, <3>1, <3>2 DEF RowsTyped
    <2>4. ASSUME Uploaded(r) PROVE RowsTyped'
        <3>1. CASE r \in BankTxn /\ bank' = [bank EXCEPT ![r].at = "stored"] /\ fund' = fund
            <4>1. PICK row : row = [bank[r] EXCEPT !.at = "stored"]
                OBVIOUS
            <4>2. PICK was : was = bank[r]
                OBVIOUS
            <4>3. RowTyped([was EXCEPT !.at = "stored"])
                BY <2>1, <3>1, <4>2, RowEdits
            <4> QED BY <2>2, <3>1, <4>1, <4>2, <4>3
        <3>2. CASE r \in FundRow /\ fund' = [fund EXCEPT ![r].at = "stored"] /\ bank' = bank
            <4>1. PICK row : row = [fund[r] EXCEPT !.at = "stored"]
                OBVIOUS
            <4>2. row \in FundState
                BY <2>1, <3>2, <4>1, FundEdits
            <4> QED BY <2>3, <3>2, <4>1, <4>2
        <3> QED BY <2>4, <3>1, <3>2 DEF Uploaded
    <2>5. ASSUME RolledBack(r) PROVE RowsTyped'
        <3>1. PICK gone, lost : /\ gone = [NewBankRow EXCEPT !.at = "gone"]
                                /\ lost = [NewFundRow EXCEPT !.at = "gone"]
            OBVIOUS
        <3>2. RowTyped(gone) /\ lost \in FundState
            BY <3>1, NewRowsTyped
        <3>3. \/ r \in BankTxn /\ bank' = [bank EXCEPT ![r] = gone] /\ fund' = fund
              \/ r \in FundRow /\ fund' = [fund EXCEPT ![r] = lost] /\ bank' = bank
            BY <2>5, <3>1 DEF RolledBack, StoredBank, StoredFund
        <3> QED BY <2>2, <2>3, <3>2, <3>3
    <2> QED BY <1>2, <2>4, <2>5, RowsMove DEF TypeInv
<1>3. CASE UNCHANGED vars
    BY <1>3 DEF vars, TypeInv, RowsTyped
<1> QED BY <1>1, <1>2, <1>3 DEF Next

\* Whatever requests are under way, every column and every request holds a value the code
\* can give it, and a row names a partner only while it is tagged as netted.
THEOREM TypeCorrect == Spec => []TypeOK
<1>1. TypeInv => TypeOK
    BY DEF TypeInv, TypeOK, RowsTyped, RowTyped, TaskTyped
<1> QED BY <1>1, InitShaped, NextShaped, InitDrillInv, NextDrillInv, InitTyped, NextTypeInv, PTL DEF Spec

-----------------------------------------------------------------------------
(* Nothing that could be matched is left *)

\* The place of a row of a list, among the rows sorted by amount.
LEMMA PlaceType ==
    ASSUME NEW s, Listed(s), NEW R, IsFiniteSet(R), \A r \in R : r.amount \in Int, NEW x \in R
    PROVE  Place(s, R, x) \in Nat /\ Place(s, R, x) < Cardinality(R)
<1> DEFINE before == {y \in R : Before(s, y, x)}
<1>1. x \notin before
    <2>1. ~Earlier(s, x, x)
        BY DEF Earlier, Listed
    <2>2. ~(x.amount > x.amount)
        <3>1. \A n \in Int : ~(n > n)
            OBVIOUS
        <3> QED BY <3>1
    <2> QED BY <2>1, <2>2 DEF Before
<1>2. IsFiniteSet(R \ {x}) /\ Cardinality(R \ {x}) = Cardinality(R) - 1 /\ Cardinality(R) \in Nat
    BY FS_RemoveElement, FS_CardinalityType
<1>3. before \subseteq R \ {x}
    BY <1>1
<1> HIDE DEF before
<1>4. Cardinality(before) \in Nat /\ Cardinality(before) <= Cardinality(R \ {x})
    BY <1>2, <1>3, FS_Subset, FS_CardinalityType
<1>5. Place(s, R, x) = Cardinality(before)
    BY DEF Place, before
<1> QED BY <1>2, <1>4, <1>5

LEMMA MaskType ==
    ASSUME NEW s, Listed(s), NEW R, IsFiniteSet(R), \A r \in R : r.amount \in Int,
           NEW T \in SUBSET TenLargest(s, R)
    PROVE  Mask(s, R, T) \in Nat
<1> DEFINE L == TenLargest(s, R)
           f == [x \in L |-> Bit[Place(s, R, x) + 1]]
<1>1. \A x \in L : f[x] \in Nat
    <2> SUFFICES ASSUME NEW x \in L PROVE Bit[Place(s, R, x) + 1] \in Nat
        OBVIOUS
    <2>1. Place(s, R, x) \in 0..9
        BY PlaceType DEF TenLargest
    <2>2. \A n \in 0..9 : Bit[n + 1] \in Nat
        BY DEF Bit
    <2> QED BY <2>1, <2>2
<1>2. IsFiniteSet(L)
    BY FS_Subset DEF TenLargest
<1>3. Mask(s, R, T) = Over(T, f)
    <2>1. [x \in T |-> f[x]] = [x \in T |-> Bit[Place(s, R, x) + 1]]
        OBVIOUS
    <2> QED BY <2>1 DEF Mask, Over
<1> HIDE DEF f, L
<1> DEFINE F == {U \in SUBSET L : Over(U, f) \in Nat}
<1>4. {} \in F
    BY OverEmpty
<1>5. ASSUME NEW U \in SUBSET L, NEW x \in L \ U, U \in F PROVE U \union {x} \in F
    <2>1. Numbers(U \union {x}, f)
        <3>1. IsFiniteSet(U \union {x})
            BY <1>2, FS_Subset
        <3> QED BY <1>1, <3>1 DEF Numbers
    <2>2. Over(U \union {x}, f) = f[x] + Over(U, f)
        BY <2>1, OverAdd
    <2> QED BY <1>1, <1>5, <2>2
<1>6. T \in F
    <2> HIDE DEF F
    <2>1. \A U \in SUBSET L : U \in F
        BY <1>2, <1>4, <1>5, SetInduction
    <2> QED BY <2>1 DEF L
<1> QED BY <1>3, <1>6

\* Of ten rows at most whatever subset makes up the target, findCombinationSum finds one.
LEMMA CombinationFinds ==
    ASSUME NEW s, Listed(s), NEW R, IsFiniteSet(R), Cardinality(R) <= 10,
           \A r \in R : r.amount \in Int, NEW target, NEW base,
           NEW T \in SUBSET R, Cardinality(T) > 1, Near(Total(T), target, base)
    PROVE  CombinationSum(s, R, target, base) # {}
<1> DEFINE greedy == GreedyHits(s, R, target, base)
           subsets == SubsetHits(s, R, target, base)
           hits == {U \in SUBSET TenLargest(s, R) :
                      Cardinality(U) > 1 /\ Hits(U, target, base)}
           masks == {Mask(s, R, U) : U \in hits}
<1>1. TenLargest(s, R) = R
    <2>1. ASSUME NEW x \in R PROVE Place(s, R, x) < 10
        <3>1. Cardinality(R) \in Nat
            BY FS_CardinalityType
        <3> QED BY <3>1, PlaceType
    <2> QED BY <2>1 DEF TenLargest
<1>2. T \in hits
    <2>1. T # {}
        BY FS_EmptySet
    <2> QED BY <1>1, <2>1 DEF Hits
<1>3. \A U \in hits : Mask(s, R, U) \in Nat
    BY MaskType
<1>4. subsets # {}
    <2> HIDE DEF hits
    <2>1. masks \subseteq Nat /\ masks # {}
        BY <1>2, <1>3
    <2>2. PICK n \in masks : \A m \in masks : n <= m
        BY <2>1, LeastNat
    <2>3. PICK U \in hits : Mask(s, R, U) = n
        BY <2>2
    <2>4. \A V \in hits : Mask(s, R, U) <= Mask(s, R, V)
        BY <2>2, <2>3
    <2> QED BY <2>4 DEF SubsetHits, hits
<1>5. \A U \in greedy \union subsets : U # {}
    BY DEF GreedyHits, SubsetHits, Hits
<1> HIDE DEF greedy, subsets
<1>6. PICK found : found = IF greedy # {} THEN greedy ELSE subsets
    OBVIOUS
<1>7. OneOf(found) \in found
    BY <1>4, <1>6 DEF OneOf
<1> QED BY <1>5, <1>6, <1>7 DEF CombinationSum, Either, greedy, subsets

\* One row of some on a list comes first.
LEMMA FirstExists ==
    ASSUME NEW s, Listed(s), NEW R, R \subseteq ToSet(s), R # {}
    PROVE  FirstOf(s, R) # {}
<1> DEFINE places == {i \in DOMAIN s : s[i] \in R}
<1>1. places \subseteq Nat /\ places # {}
    BY DEF ToSet, Listed
<1>2. PICK i \in places : \A j \in places : i <= j
    BY <1>1, LeastNat
<1>3. ASSUME NEW y \in R \ {s[i]} PROVE Earlier(s, s[i], y)
    <2>1. PICK j \in DOMAIN s : s[j] = y
        BY DEF ToSet
    <2>2. j \in places /\ j # i
        BY <1>3, <2>1
    <2> QED BY <1>1, <1>2, <2>1, <2>2 DEF Earlier
<1> QED BY <1>2, <1>3 DEF FirstOf

\* What has been tried: a bank row that is open has no goal transaction to be paired with,
\* and an open goal transaction no rows of its day that make it up.
Paired(b, found, read) == b \in OpenBanks(found, read) =>
    \A g \in OpenGoals(found, read) : ~InDateWindow(b, g)
Summed(g, found, read) == g \in OpenGoals(found, read) =>
    \A R \in SUBSET {b \in OpenBanks(found, read) : SameDay(b, g)} :
        Cardinality(R) > 1 => ~Near(Total(R), g.amount, g.amount)
AllPaired(found, read) == \A b \in ToSet(read.banks) : Paired(b, found, read)
Tried(pass, x, found, read) ==
    IF pass = "amount" THEN Paired(x, found, read) ELSE Summed(x, found, read)
Ready(pass, found, read) ==
    pass = "amount" \/ (pass = "split bank" /\ AllPaired(found, read))
\* No goal transaction has more than ten bank rows of its day and type.
FewRows(read) == \A g \in ToSet(read.goals) :
    Cardinality({b \in ToSet(read.banks) : SameDay(b, g)}) <= 10

LEMMA OpenShrinks ==
    ASSUME NEW found, NEW more, found \subseteq more, NEW read
    PROVE  /\ OpenBanks(more, read) \subseteq OpenBanks(found, read)
           /\ OpenGoals(more, read) \subseteq OpenGoals(found, read)
BY DEF OpenBanks, OpenGoals, BanksOf, GoalsOf

LEMMA TryingLasts ==
    ASSUME NEW found, NEW more, found \subseteq more, NEW read
    PROVE  /\ \A x : Paired(x, found, read) => Paired(x, more, read)
           /\ \A x : Summed(x, found, read) => Summed(x, more, read)
<1>1. ASSUME NEW x, Paired(x, found, read) PROVE Paired(x, more, read)
    BY <1>1, OpenShrinks DEF Paired
<1>2. ASSUME NEW x, Summed(x, found, read) PROVE Summed(x, more, read)
    <2>1. {b \in OpenBanks(more, read) : SameDay(b, x)}
             \subseteq {b \in OpenBanks(found, read) : SameDay(b, x)}
        BY OpenShrinks
    <2> QED BY <1>2, <2>1, OpenShrinks DEF Summed
<1> QED BY <1>1, <1>2

LEMMA AmountTurn ==
    ASSUME NEW found, NEW read, Readable(read), NEW b
    PROVE  Paired(b, found \union Finds("amount", found, b, read), read)
<1> DEFINE G == {g \in OpenGoals(found, read) : InDateWindow(b, g)}
           more == found \union Finds("amount", found, b, read)
<1>1. CASE G = {}
    <2>1. Paired(b, found, read)
        BY <1>1 DEF Paired
    <2> QED BY <2>1, TryingLasts
<1>2. CASE b \notin OpenBanks(found, read)
    <2>1. Paired(b, found, read)
        BY <1>2 DEF Paired
    <2> QED BY <2>1, TryingLasts
<1>3. CASE G # {} /\ b \in OpenBanks(found, read)
    <2>1. G \subseteq ToSet(read.goals) /\ Listed(read.goals)
        BY DEF OpenGoals, Readable
    <2>2. PICK g : g \in FirstOf(read.goals, G)
        <3> HIDE DEF G
        <3> QED BY <1>3, <2>1, FirstExists
    <2>3. MatchFound({b}, {g}, "AMOUNT") \in Finds("amount", found, b, read)
        BY <1>3, <2>2 DEF Finds, AmountFinds
    <2>4. b \in BanksOf(more)
        <3>1. PICK m : m = MatchFound({b}, {g}, "AMOUNT")
            OBVIOUS
        <3>2. m \in more /\ b \in m.banks
            BY <2>3, <3>1 DEF MatchFound
        <3> HIDE DEF more
        <3> QED BY <3>2 DEF BanksOf
    <2> QED BY <2>4 DEF Paired, OpenBanks
<1> QED BY <1>1, <1>2, <1>3

LEMMA SplitTurn ==
    ASSUME NEW found, NEW read, Readable(read), FewRows(read), AllPaired(found, read), NEW g
    PROVE  Summed(g, found \union Finds("split bank", found, g, read), read)
<1> DEFINE open == {b \in OpenBanks(found, read) : SameDay(b, g)}
           more == found \union Finds("split bank", found, g, read)
           B == CombinationSum(read.banks, open, g.amount, g.amount)
<1>1. CASE Summed(g, found, read)
    BY <1>1, TryingLasts
<1>2. CASE ~Summed(g, found, read)
    <2>1. PICK R \in SUBSET open :
            Cardinality(R) > 1 /\ Near(Total(R), g.amount, g.amount)
        BY <1>2 DEF Summed
    <2>2. g \in OpenGoals(found, read) /\ g \in ToSet(read.goals) /\ g.amount \in Int
        BY <1>2 DEF Summed, OpenGoals, Readable
    <2>3. /\ open \subseteq {b \in ToSet(read.banks) : SameDay(b, g)}
          /\ open \subseteq OpenBanks(found, read) /\ open \subseteq ToSet(read.banks)
          /\ \A b \in open : SameDay(b, g)
        BY DEF OpenBanks
    <2> HIDE DEF open
    <2>4. IsFiniteSet({b \in ToSet(read.banks) : SameDay(b, g)})
        BY FS_Subset DEF Readable
    <2>5. IsFiniteSet(open) /\ Cardinality(open) <= 10
        <3>1. Cardinality({b \in ToSet(read.banks) : SameDay(b, g)}) <= 10
            BY <2>2 DEF FewRows
        <3> QED BY <2>3, <2>4, <3>1, FS_Subset, FS_CardinalityType
    <2>6. B # {}
        <3>1. \A r \in open : r.amount \in Int
            BY <2>3 DEF Readable
        <3> QED BY <2>1, <2>5, <3>1, CombinationFinds DEF Readable
    <2>7. B \subseteq open /\ Near(Total(B), g.amount, g.amount)
        BY <2>6, CombinationNear
    <2> HIDE DEF B
    <2>8. IsFiniteSet(B) /\ Cardinality(B) \in Nat /\ Cardinality(B) # 0
        BY <2>5, <2>6, <2>7, FS_Subset, FS_CardinalityType, FS_EmptySet
    <2>9. Cardinality(B) # 1
        <3> SUFFICES ASSUME Cardinality(B) = 1 PROVE FALSE
            OBVIOUS
        <3>1. PICK b : B = {b}
            BY <2>8, FS_Singleton
        <3>2. b \in OpenBanks(found, read) /\ SameDay(b, g) /\ b \in ToSet(read.banks)
            BY <2>3, <2>7, <3>1
        <3>3. b.amount \in Int
            BY <3>2 DEF Readable
        <3>4. Near(b.amount, g.amount, g.amount)
            BY <2>7, <3>1, <3>3, TotalOfOne
        <3>5. ~InDateWindow(b, g)
            BY <2>2, <3>2 DEF AllPaired, Paired
        <3>6. b.type = g.type /\ DaysApart(b, g) <= DateWindow
            <4>1. b.type = g.type /\ b.day = g.day /\ b.day \in Int
                BY <3>2 DEF SameDay, Readable
            <4>2. b.day - g.day = 0
                BY <4>1
            <4> QED BY <4>1, <4>2 DEF DaysApart, Magnitude, DateWindow
        <3> QED BY <3>4, <3>5, <3>6 DEF InDateWindow
    <2>10. Cardinality(B) > 1
        BY <2>8, <2>9
    <2>11. MatchFound(B, {g}, "SPLIT_BANK_TO_FUND") \in Finds("split bank", found, g, read)
        BY <2>2, <2>10 DEF Finds, SplitBankFinds, Several, B, open
    <2>12. g \in GoalsOf(more)
        <3>1. PICK m : m = MatchFound(B, {g}, "SPLIT_BANK_TO_FUND")
            OBVIOUS
        <3>2. m \in more /\ g \in m.goals
            BY <2>11, <3>1 DEF MatchFound
        <3> HIDE DEF more
        <3> QED BY <3>2 DEF GoalsOf
    <2> QED BY <2>12 DEF Summed, OpenGoals
<1> QED BY <1>1, <1>2

\* A pass that is ready tries every row it takes a turn for.
LEMMA PassTries ==
    ASSUME NEW read, Readable(read), FewRows(read), NEW pass, NEW found,
           Ready(pass, found, read)
    PROVE  \A x \in ToSet(Turns(pass, read)) : Tried(pass, x, Pass(pass, found, read), read)
<1> DEFINE turns == Turns(pass, read)
<1>1. Len(turns) \in Nat /\ DOMAIN turns = 1..Len(turns)
    BY DEF Turns, Readable, Listed
<1>2. PICK after : /\ After(pass, found, read, Len(turns), after)
                   /\ Pass(pass, found, read) = after[Len(turns)]
    BY <1>1, PassRuns
<1> DEFINE Done(i) == \A j \in 1..i : Tried(pass, turns[j], after[i], read)
           S == {i \in Nat : i <= Len(turns) => Done(i) /\ Ready(pass, after[i], read)}
<1>3. 0 \in S
    BY <1>2 DEF After
<1>4. ASSUME NEW i \in Nat, i \in S PROVE i + 1 \in S
    <2> SUFFICES ASSUME i + 1 <= Len(turns) PROVE Done(i + 1) /\ Ready(pass, after[i + 1], read)
        OBVIOUS
    <2>1. Done(i) /\ Ready(pass, after[i], read)
        BY <1>1, <1>4
    <2>2. i + 1 \in 1..Len(turns) /\ i + 1 - 1 = i
        BY <1>1
    <2>3. after[i + 1] = after[i] \union Finds(pass, after[i], turns[i + 1], read)
        BY <1>2, <2>2 DEF After
    <2>4. Tried(pass, turns[i + 1], after[i + 1], read)
        BY <2>1, <2>3, AmountTurn, SplitTurn DEF Ready, Tried
    <2>5. ASSUME NEW x, Tried(pass, x, after[i], read) PROVE Tried(pass, x, after[i + 1], read)
        BY <2>3, <2>5, TryingLasts DEF Tried
    <2>6. ASSUME NEW j \in 1..(i + 1) PROVE Tried(pass, turns[j], after[i + 1], read)
        <3>1. j = i + 1 \/ j \in 1..i
            OBVIOUS
        <3> QED BY <2>1, <2>4, <2>5, <3>1
    <2>7. Ready(pass, after[i + 1], read)
        BY <2>1, <2>3, TryingLasts DEF Ready, AllPaired
    <2> QED BY <2>6, <2>7
<1>5. Nat \subseteq S
    <2> HIDE DEF S
    <2> QED BY <1>3, <1>4, Induction
<1>6. Done(Len(turns))
    BY <1>1, <1>5
<1> QED BY <1>1, <1>2, <1>6 DEF ToSet

\* What getGoalTransactions and getVarianceTransactions leave over.
LEMMA LeftAreApart ==
    ASSUME NEW read, Readable(read), FewRows(read), NEW exact, Fits(exact, read), NEW more,
           Pass("split bank", Pass("amount", exact, read), read) \subseteq more
    PROVE  NoneLeft(OpenBanks(more, read), OpenGoals(more, read))
<1> DEFINE amount == Pass("amount", exact, read)
           split == Pass("split bank", amount, read)
<1>0. Fits(amount, read)
    BY PassFits
<1>1. AllPaired(amount, read)
    <2>1. \A x \in ToSet(read.banks) : Tried("amount", x, amount, read)
        BY PassTries DEF Ready, Turns
    <2> QED BY <2>1 DEF Tried, AllPaired
<1> HIDE DEF amount
<1>2. \A g \in ToSet(read.goals) : Summed(g, split, read)
    <2>1. Ready("split bank", amount, read)
        BY <1>1 DEF Ready
    <2>2. \A x \in ToSet(Turns("split bank", read)) : Tried("split bank", x, split, read)
        BY <2>1, PassTries
    <2> QED BY <2>2 DEF Tried, Turns
<1>3. amount \subseteq split
    BY <1>0, PassFits
<1>4. split \subseteq more
    BY DEF amount
<1> HIDE DEF split
<1>5. /\ \A b \in ToSet(read.banks) : Paired(b, more, read)
      /\ \A g \in ToSet(read.goals) : Summed(g, more, read)
    BY <1>1, <1>2, <1>3, <1>4, TryingLasts DEF AllPaired
<1>6. ASSUME NEW g \in OpenGoals(more, read)
      PROVE  /\ \A b \in OpenBanks(more, read) :
                  b.type = g.type /\ DaysApart(b, g) <= DateWindow => ~Near(b.amount, g.amount, g.amount)
             /\ \A R \in SUBSET {b \in OpenBanks(more, read) : SameDay(b, g)} :
                  Cardinality(R) > 1 => ~Near(Total(R), g.amount, g.amount)
    <2>1. ASSUME NEW b \in OpenBanks(more, read) PROVE ~InDateWindow(b, g)
        BY <1>5, <2>1 DEF Paired, OpenBanks
    <2>2. Summed(g, more, read)
        BY <1>5 DEF OpenGoals
    <2> QED BY <2>1, <2>2 DEF InDateWindow, Summed
<1> QED BY <1>6 DEF NoneLeft

LEMMA DrilldownLeaves ==
    ASSUME NEW read, Readable(read), FewRows(read)
    PROVE  LET found == DrilldownMatches(read)
           IN  NoneLeft(OpenBanks(found, read), OpenGoals(found, read))
<1> DEFINE manual == Pass("manual", {}, read)
           exact == Pass("exact", manual, read)
           split == Pass("split bank", Pass("amount", exact, read), read)
           found == Pass("split goal", split, read)
<1>1. Fits({}, read)
    BY DEF Fits, Apart
<1>2. Fits(exact, read)
    BY <1>1, PassFits
<1>3. split \subseteq found
    BY <1>2, PassFits
<1>4. DrilldownMatches(read) = found
    BY DEF DrilldownMatches
<1> HIDE DEF exact, found
<1> QED BY <1>2, <1>3, <1>4, LeftAreApart

LEMMA VarianceLeaves ==
    ASSUME NEW read, Readable(read), FewRows(read)
    PROVE  LET found == VarianceMatches(read)
           IN  NoneLeft(OpenBanks(found, read), OpenGoals(found, read))
<1> DEFINE manual == Pass("manual", {}, read)
           exact == Pass("any exact", manual, read)
           split == Pass("split bank", Pass("amount", exact, read), read)
<1>1. Fits({}, read)
    BY DEF Fits, Apart
<1>2. Fits(exact, read)
    BY <1>1, PassFits
<1>3. VarianceMatches(read) = split /\ split \subseteq split
    BY DEF VarianceMatches
<1> HIDE DEF exact
<1> QED BY <1>2, <1>3, LeftAreApart

\* A list read backwards has the same rows.
LEMMA ListsReverse ==
    ASSUME NEW s, Listed(s)
    PROVE  Listed(Reverse(s)) /\ ToSet(Reverse(s)) = ToSet(s)
<1> DEFINE n == Len(s)
           t == [i \in 1..n |-> s[(n - i) + 1]]
<1>1. n \in Nat /\ DOMAIN s = 1..n /\ Reverse(s) = t
    BY DEF Listed, Reverse
<1> HIDE DEF n
<1>2. Len(t) = n /\ DOMAIN t = 1..n
    BY <1>1
<1>3. \A i \in 1..n : (n - i) + 1 \in 1..n /\ (n - ((n - i) + 1)) + 1 = i
    BY <1>1
<1>4. ASSUME NEW i \in 1..n, NEW j \in 1..n, t[i] = t[j] PROVE i = j
    <2>1. s[(n - i) + 1] = s[(n - j) + 1]
        BY <1>4
    <2>2. (n - i) + 1 = (n - j) + 1
        BY <1>1, <1>3, <2>1 DEF Listed
    <2> QED BY <1>1, <2>2
<1>5. ASSUME NEW i \in 1..n PROVE s[i] = t[(n - i) + 1] /\ t[i] = s[(n - i) + 1]
    BY <1>1, <1>3
<1> HIDE DEF t
<1>6. ToSet(t) = ToSet(s)
    <2>1. \A x : x \in ToSet(s) <=> \E i \in 1..n : s[i] = x
        BY <1>1 DEF ToSet
    <2>2. \A x : x \in ToSet(t) <=> \E i \in 1..n : t[i] = x
        BY <1>2 DEF ToSet
    <2> QED BY <1>3, <1>5, <2>1, <2>2
<1> QED BY <1>1, <1>2, <1>4, <1>6 DEF Listed

\* The answers of getVarianceTransactions, each for an order the rows were read in.
ReversedLists(R) == {Reverse(s) : s \in LatestFirst(R)}
ReadIn(bs, gs, match) == [banks |-> bs, goals |-> gs, match |-> match]
LeftOf(found, B, G) == [bank |-> B \ BanksOf(found), goal |-> G \ GoalsOf(found)]
MatchesOf(B, G, match) == {VarianceMatches(ReadIn(bs, gs, match)) :
                              bs \in ReversedLists(B), gs \in ReversedLists(G)}
UnmatchedIn(B, G, match) == {LeftOf(found, B, G) : found \in MatchesOf(B, G, match)}

LEMMA AnswersUnmatched ==
    ASSUME NEW window, NEW goal, NEW B, B = BankRowsIn(window, goal)
    PROVE  VarianceAnswers(window, goal) =
             UnmatchedIn(B, GoalTxns(FundRowsIn(window, goal)), [b \in B |-> bank[b].match])
BY DEF VarianceAnswers, UnmatchedIn, MatchesOf, LeftOf, ReadIn, ReversedLists

LEMMA OneUnmatched ==
    ASSUME NEW B, NEW G, NEW match, NEW left \in UnmatchedIn(B, G, match)
    PROVE  \E bs \in LatestFirst(B), gs \in LatestFirst(G) :
             left = LeftOf(VarianceMatches(ReadIn(Reverse(bs), Reverse(gs), match)), B, G)
<1>1. PICK found \in MatchesOf(B, G, match) : left = LeftOf(found, B, G)
    BY DEF UnmatchedIn
<1>2. PICK rb \in ReversedLists(B), rg \in ReversedLists(G) :
        found = VarianceMatches(ReadIn(rb, rg, match))
    BY DEF MatchesOf
<1>3. PICK bs \in LatestFirst(B) : rb = Reverse(bs)
    BY <1>2 DEF ReversedLists
<1>4. PICK gs \in LatestFirst(G) : rg = Reverse(gs)
    BY <1>2 DEF ReversedLists
<1> QED BY <1>1, <1>2, <1>3, <1>4

\* findCombinationSum looks at all subsets of ten rows only: no more bank rows of a goal
\* share their day and type.
FewADay == \A c \in BankTxn :
    Cardinality({b \in BankTxn : b.goal = c.goal /\ SameDay(b, c)}) <= 10

LEMMA FewAreRead ==
    ASSUME FewADay, NEW read, NEW goal,
           \A b \in ToSet(read.banks) : b \in BankTxn /\ b.goal = goal
    PROVE  FewRows(read)
<1> SUFFICES ASSUME NEW g
             PROVE  Cardinality({b \in ToSet(read.banks) : SameDay(b, g)}) <= 10
    BY DEF FewRows
<1> DEFINE same == {b \in ToSet(read.banks) : SameDay(b, g)}
<1>1. CASE same = {}
    BY <1>1, FS_EmptySet
<1>2. CASE same # {}
    <2>1. PICK c \in same : TRUE
        BY <1>2
    <2> DEFINE all == {b \in BankTxn : b.goal = c.goal /\ SameDay(b, c)}
    <2>2. same \subseteq all /\ c \in BankTxn
        BY <2>1 DEF SameDay
    <2>3. Cardinality(all) <= 10
        BY <2>2 DEF FewADay
    <2>4. IsFiniteSet(all)
        BY RowAssumption, FS_Subset
    <2> HIDE DEF same, all
    <2> QED BY <2>2, <2>3, <2>4, FS_Subset, FS_CardinalityType DEF same
<1> QED BY <1>1, <1>2

\* Nothing that could be matched is left over by a drilldown, nor by the list of unmatched
\* transactions, in whatever order the rows were read (getGoalTransactions,
\* getVarianceTransactions).
THEOREM NothingIsLeft == ASSUME FewADay PROVE Spec => []NothingLeftToMatch
<1>1. DrillInv => NothingLeftToMatch
    <2> SUFFICES ASSUME DrillInv, NEW q \in Matched
                 PROVE  /\ NoneLeft(DOMAIN tasks[q].seen \ BanksOf(tasks[q].found),
                                    tasks[q].goals \ GoalsOf(tasks[q].found))
                        /\ \A left \in VarianceAnswers(tasks[q].window, tasks[q].goal) :
                              NoneLeft(left.bank, left.goal)
        BY DEF NothingLeftToMatch
    <2>1. NoneLeft(DOMAIN tasks[q].seen \ BanksOf(tasks[q].found),
                   tasks[q].goals \ GoalsOf(tasks[q].found))
        <3>1. PICK read : Worked(tasks[q], read)
            BY DEF DrillInv, Matched, Drilldowns
        <3>2. FewRows(read) /\ Readable(read)
            BY <3>1, FewAreRead DEF Worked
        <3>3. NoneLeft(OpenBanks(tasks[q].found, read), OpenGoals(tasks[q].found, read))
            BY <3>1, <3>2, DrilldownLeaves DEF Worked
        <3> QED BY <3>1, <3>3 DEF Worked, OpenBanks, OpenGoals
    <2>2. ASSUME NEW window, NEW goal, NEW left \in VarianceAnswers(window, goal)
          PROVE  NoneLeft(left.bank, left.goal)
        <3> DEFINE B == BankRowsIn(window, goal)
                   F == FundRowsIn(window, goal)
                   G == GoalTxns(F)
                   match == [b \in B |-> bank[b].match]
        <3>1. PICK bs \in LatestFirst(B), gs \in LatestFirst(G) :
                left = LeftOf(VarianceMatches(ReadIn(Reverse(bs), Reverse(gs), match)), B, G)
            <4>1. left \in UnmatchedIn(B, G, match)
                BY <2>2, AnswersUnmatched
            <4> QED BY <4>1, OneUnmatched
        <3>2. /\ \A b \in B : b \in BankTxn /\ b.goal = goal
              /\ F \subseteq FundRow
            BY DEF Matchable, BankRowsIn, FundRowsIn, StoredBank, StoredFund
        <3>3. IsFiniteSet(B) /\ \A b \in B : b.amount \in Int /\ b.day \in Int
            BY <3>2, RowAssumption, FS_Subset
        <3> HIDE DEF F
        <3>4. IsFiniteSet(G) /\ \A g \in G : g.amount \in Int /\ g.day \in Int
            BY <3>2, GoalTxnsMade
        <3> HIDE DEF B, G, match
        <3>5. PICK read : read = ReadIn(Reverse(bs), Reverse(gs), match)
            OBVIOUS
        <3>6. /\ Listed(bs) /\ ToSet(bs) = B
              /\ Listed(gs) /\ ToSet(gs) = G
            BY <3>3, <3>4, ListsAll
        <3>7. /\ Listed(read.banks) /\ ToSet(read.banks) = B
              /\ Listed(read.goals) /\ ToSet(read.goals) = G
            BY <3>5, <3>6, ListsReverse DEF ReadIn
        <3>8. Readable(read)
            BY <3>3, <3>4, <3>7 DEF Readable
        <3>9. FewRows(read)
            BY <3>2, <3>7, FewAreRead
        <3>10. PICK found : found = VarianceMatches(read)
            OBVIOUS
        <3>11. NoneLeft(OpenBanks(found, read), OpenGoals(found, read))
            BY <3>8, <3>9, <3>10, VarianceLeaves
        <3>12. left.bank = B \ BanksOf(found) /\ left.goal = G \ GoalsOf(found)
            BY <3>1, <3>5, <3>10 DEF LeftOf
        <3> QED BY <3>7, <3>11, <3>12 DEF OpenBanks, OpenGoals
    <2> QED BY <2>1, <2>2
<1> QED BY <1>1, InitShaped, NextShaped, InitDrillInv, NextDrillInv, PTL DEF Spec

-----------------------------------------------------------------------------
(* The pages agree *)

\* Sets that are paired off have as many members.
LEMMA SameSize ==
    ASSUME NEW A, IsFiniteSet(A), NEW B, NEW f, DOMAIN f = A,
           f = [x \in A |-> f[x]], \A x, y \in A : f[x] = f[y] => x = y,
           \A y : y \in B <=> \E x \in A : f[x] = y
    PROVE  IsFiniteSet(B) /\ Cardinality(B) = Cardinality(A)
<1>1. f \in Bijection(A, B)
    BY DEF Bijection, Injection, Surjection, IsInjective
<1> QED BY <1>1, FS_Bijection DEF ExistsBijection

\* A part and the rest.
LEMMA PartSize ==
    ASSUME NEW A, IsFiniteSet(A), NEW S \in SUBSET A
    PROVE  /\ IsFiniteSet(S) /\ IsFiniteSet(A \ S)
           /\ Cardinality(S) \in Nat /\ Cardinality(A \ S) \in Nat
           /\ Cardinality(A) = Cardinality(S) + Cardinality(A \ S)
           /\ Cardinality(S) = 0 <=> S = {}
           /\ Cardinality(A \ S) = 0 <=> A \ S = {}
<1>1. IsFiniteSet(S) /\ IsFiniteSet(A \ S)
    BY FS_Subset
<1>2. S \union (A \ S) = A /\ S \intersect (A \ S) = {}
    OBVIOUS
<1>3. Cardinality(S \union (A \ S)) =
        Cardinality(S) + Cardinality(A \ S) - Cardinality(S \intersect (A \ S))
    BY <1>1, FS_Union
<1>4. Cardinality(S) \in Nat /\ Cardinality(A \ S) \in Nat
    BY <1>1, FS_CardinalityType
<1>5. Cardinality({}) = 0
    BY FS_EmptySet
<1>6. Cardinality(A) = Cardinality(S) + Cardinality(A \ S)
    <2>1. /\ Cardinality(S \union (A \ S)) = Cardinality(A)
          /\ Cardinality(S \intersect (A \ S)) = 0
        BY <1>2, <1>5
    <2> QED BY <1>3, <1>4, <2>1
<1> QED BY <1>1, <1>4, <1>6, FS_EmptySet

\* Rows of a table are finitely many.
LEMMA TablesFinite ==
    /\ \A S \in SUBSET BankTxn : IsFiniteSet(S)
    /\ \A S \in SUBSET FundRow : IsFiniteSet(S)
BY RowAssumption, FS_Subset

\* What the pages read are rows of the tables (BankRowsIn, VarianceBank and the like).
LEMMA ViewRows ==
    ASSUME NEW w, NEW g
    PROVE  /\ BankRowsIn(w, g) \in SUBSET BankTxn /\ FundRowsIn(w, g) \in SUBSET FundRow
           /\ VarianceBank(w, g) \in SUBSET BankRowsIn(w, g)
           /\ VarianceFund(w, g) \in SUBSET FundRowsIn(w, g)
BY DEF Matchable, BankRowsIn, FundRowsIn, StoredBank, StoredFund, VarianceBank, VarianceFund

\* The groups of a goal's page: code and tag.
TagGroups(F) == {<<f.code, fund[f].tag>> : f \in F}
OpenGroups(F, goal) == {x \in TagGroups(F) : x[2] = NULL /\ ~Referenced(x[1], goal)}

\* The goal's page counts an open group for each code the goal list counts as
\* unreviewed, and has other groups if and only if some code is reviewed.
LEMMA OpenAreUnreviewed ==
    ASSUME NEW w, NEW goal, NEW F, F = VarianceFund(w, goal)
    PROVE  /\ Cardinality(OpenGroups(F, goal)) = Cardinality(UnreviewedCodes(F))
           /\ Cardinality(TagGroups(F)) \in Nat /\ Cardinality(OpenGroups(F, goal)) \in Nat
           /\ Cardinality(ReviewedCodes(F)) \in Nat
           /\ Cardinality(TagGroups(F)) >= Cardinality(OpenGroups(F, goal))
           /\ Cardinality(TagGroups(F)) = Cardinality(OpenGroups(F, goal)) <=>
                Cardinality(ReviewedCodes(F)) = 0
<1> DEFINE A == UnreviewedCodes(F)
           R == ReviewedCodes(F)
           group == [f \in F |-> <<f.code, fund[f].tag>>]
           code == [f \in F |-> f.code]
           f0 == [c \in A |-> <<c, NULL>>]
<1>1. IsFiniteSet(F) /\ \A f \in F : f.goal = goal
    BY ViewRows, TablesFinite, FS_Subset DEF VarianceFund, Matchable, FundRowsIn
<1>2. IsFiniteSet(TagGroups(F)) /\ IsFiniteSet(Codes(F))
    <2>1. TagGroups(F) = {group[f] : f \in F}
        BY DEF TagGroups
    <2>2. Codes(F) = {code[f] : f \in F}
        BY DEF Codes
    <2> HIDE DEF group, code
    <2> QED BY <1>1, <2>1, <2>2, ImageFinite
<1>3. IsFiniteSet(A) /\ IsFiniteSet(R)
    BY <1>2, FS_Subset DEF UnreviewedCodes, ReviewedCodes, Codes
<1>4. \A y : y \in OpenGroups(F, goal) <=> \E c \in A : f0[c] = y
    <2>1. ASSUME NEW y \in OpenGroups(F, goal) PROVE \E c \in A : f0[c] = y
        <3>1. PICK f \in F : y = <<f.code, fund[f].tag>>
            BY DEF OpenGroups, TagGroups
        <3>2. fund[f].tag = NULL /\ ~Referenced(f.code, f.goal)
            BY <1>1, <3>1 DEF OpenGroups
        <3>3. f.code \in A
            BY <3>2 DEF UnreviewedCodes, Codes
        <3> QED BY <3>1, <3>2, <3>3
    <2>2. ASSUME NEW c \in A PROVE <<c, NULL>> \in OpenGroups(F, goal)
        <3>1. PICK f \in F : fund[f].tag = NULL /\ ~Referenced(f.code, f.goal) /\ f.code = c
            BY DEF UnreviewedCodes, Codes
        <3> QED BY <1>1, <3>1 DEF OpenGroups, TagGroups
    <2> QED BY <2>1, <2>2
<1>5. \A c, d \in A : f0[c] = f0[d] => c = d
    OBVIOUS
<1>6. Cardinality(OpenGroups(F, goal)) = Cardinality(A)
    <2>1. DOMAIN f0 = A /\ f0 = [c \in A |-> f0[c]]
        OBVIOUS
    <2> HIDE DEF f0, A
    <2> QED BY <1>3, <1>4, <1>5, <2>1, SameSize
<1>7. TagGroups(F) \ OpenGroups(F, goal) = {} <=> R = {}
    <2>1. ASSUME NEW y \in TagGroups(F) \ OpenGroups(F, goal) PROVE R # {}
        <3>1. PICK f \in F : y = <<f.code, fund[f].tag>>
            BY DEF TagGroups
        <3>2. fund[f].tag # NULL \/ Referenced(f.code, f.goal)
            BY <1>1, <3>1 DEF OpenGroups
        <3> QED BY <3>2 DEF ReviewedCodes, Codes
    <2>2. ASSUME NEW c \in R PROVE TagGroups(F) \ OpenGroups(F, goal) # {}
        <3>1. PICK f \in F : fund[f].tag # NULL \/ Referenced(f.code, f.goal)
            BY DEF ReviewedCodes, Codes
        <3>2. PICK y : y = <<f.code, fund[f].tag>>
            OBVIOUS
        <3>3. y \in TagGroups(F) /\ y[1] = f.code /\ y[2] = fund[f].tag
            BY <3>2 DEF TagGroups
        <3> QED BY <1>1, <3>1, <3>3 DEF OpenGroups
    <2> QED BY <2>1, <2>2
<1>8. OpenGroups(F, goal) \in SUBSET TagGroups(F)
    BY DEF OpenGroups
<1>9. Cardinality(R) \in Nat /\ (Cardinality(R) = 0 <=> R = {})
    BY <1>3, FS_CardinalityType, FS_EmptySet
<1> HIDE DEF A, R
<1>10. PICK n, m, k : /\ n = Cardinality(TagGroups(F)) /\ m = Cardinality(OpenGroups(F, goal))
                      /\ k = Cardinality(TagGroups(F) \ OpenGroups(F, goal))
    OBVIOUS
<1>11. n = m + k /\ m \in Nat /\ k \in Nat /\ (k = 0 <=> TagGroups(F) \ OpenGroups(F, goal) = {})
    BY <1>2, <1>8, <1>10, PartSize
<1>12. n \in Nat /\ n >= m /\ (n = m <=> k = 0)
    BY <1>11
<1> QED BY <1>6, <1>7, <1>9, <1>10, <1>11, <1>12 DEF A, R

\* Both pages put p open and some other lines into the same state.
LEMMA SameProgress ==
    ASSUME NEW p \in Nat, NEW r \in Nat, NEW t \in Nat, t >= p, t = p <=> r = 0
    PROVE  LET review == ReviewProgress("VARIANCE", p, r)
               status == IF t = 0 THEN "NO_VARIANCES" ELSE IF p = 0 THEN "FULLY_REVIEWED"
                         ELSE IF p < t THEN "PARTIALLY_REVIEWED" ELSE "PENDING"
           IN  /\ review = "REVIEWED" <=> status = "FULLY_REVIEWED"
               /\ review = "PARTIALLY_REVIEWED" <=> status = "PARTIALLY_REVIEWED"
               /\ review \in {"UNREVIEWED", "PARTIALLY_REVIEWED"} <=>
                    status \in {"PENDING", "PARTIALLY_REVIEWED"}
<1>1. (p + r = 0 <=> p = 0 /\ r = 0) /\ (p < t <=> r # 0) /\ (t = 0 <=> p = 0 /\ r = 0)
      /\ (r > 0 <=> r # 0)
    OBVIOUS
<1> QED BY <1>1 DEF ReviewProgress

\* The goal list and the goal's page agree (getGoalSummary, getGoalReviewStatus).
LEMMA ProgressHolds == ASSUME NEW w PROVE ProgressAgrees(w)
<1> SUFFICES ASSUME NEW g
             PROVE  LET e == GoalEntry(w, g)
                        page == StatusPage(w, e.goal)
                    IN  /\ e.pending = page.pending
                        /\ e.status = "VARIANCE" =>
                             /\ Passes(e, "REVIEWED") <=> page.status = "FULLY_REVIEWED"
                             /\ Passes(e, "PARTIAL") <=> page.status = "PARTIALLY_REVIEWED"
                             /\ Passes(e, "UNREVIEWED") <=>
                                  page.status \in {"PENDING", "PARTIALLY_REVIEWED"}
    BY DEF ProgressAgrees, GoalList
<1> DEFINE B == VarianceBank(w, g)
           F == VarianceFund(w, g)
           unread == {b \in B : ~ReviewedBank(b)}
           done == {b \in B : ReviewedBank(b)}
<1>1. PICK e, page : e = GoalEntry(w, g) /\ page = StatusPage(w, g)
    OBVIOUS
<1>2. PICK p1, r1, p2, r2, t2 :
        /\ p1 = Cardinality(unread) /\ r1 = Cardinality(done)
        /\ p2 = Cardinality(UnreviewedCodes(F)) /\ r2 = Cardinality(ReviewedCodes(F))
        /\ t2 = Cardinality(TagGroups(F))
    OBVIOUS
<1>3. /\ p1 \in Nat /\ r1 \in Nat /\ Cardinality(B) = p1 + r1
    <2>1. IsFiniteSet(B)
        BY ViewRows, TablesFinite, FS_Subset
    <2>2. unread \in SUBSET B /\ B \ unread = done
        OBVIOUS
    <2> HIDE DEF B, unread, done
    <2> QED BY <1>2, <2>1, <2>2, PartSize
<1>4. /\ p2 = Cardinality(OpenGroups(F, g)) /\ p2 \in Nat /\ r2 \in Nat /\ t2 \in Nat
      /\ t2 >= p2 /\ (t2 = p2 <=> r2 = 0)
    BY <1>2, OpenAreUnreviewed
<1>5. /\ e.goal = g /\ e.pending = p1 + p2 /\ e.reviewed = r1 + r2
      /\ e.review = ReviewProgress(e.status, p1 + p2, r1 + r2)
    BY <1>1, <1>2 DEF GoalEntry
<1>6. OpenGroups(F, g) = {x \in {<<f.code, fund[f].tag>> : f \in F} :
                            x[2] = NULL /\ ~Referenced(x[1], g)}
    BY DEF OpenGroups, TagGroups
<1>7. /\ page.total = p1 + r1 + t2 /\ page.pending = p1 + p2
      /\ page.status = IF page.total = 0 THEN "NO_VARIANCES"
                       ELSE IF page.pending = 0 THEN "FULLY_REVIEWED"
                       ELSE IF page.pending < page.total THEN "PARTIALLY_REVIEWED" ELSE "PENDING"
    BY <1>1, <1>2, <1>3, <1>4, <1>6 DEF StatusPage, TagGroups
<1>8. PICK p, r, t : p = p1 + p2 /\ r = r1 + r2 /\ t = p1 + r1 + t2
    OBVIOUS
<1>9. p \in Nat /\ r \in Nat /\ t \in Nat /\ t >= p /\ (t = p <=> r = 0)
    BY <1>3, <1>4, <1>8
<1>10. e.status = "VARIANCE" =>
          /\ e.review = "REVIEWED" <=> page.status = "FULLY_REVIEWED"
          /\ e.review = "PARTIALLY_REVIEWED" <=> page.status = "PARTIALLY_REVIEWED"
          /\ e.review \in {"UNREVIEWED", "PARTIALLY_REVIEWED"} <=>
               page.status \in {"PENDING", "PARTIALLY_REVIEWED"}
    BY <1>5, <1>7, <1>8, <1>9, SameProgress
<1>11. /\ Passes(e, "REVIEWED") <=> e.review = "REVIEWED"
       /\ Passes(e, "PARTIAL") <=> e.review = "PARTIALLY_REVIEWED"
       /\ Passes(e, "UNREVIEWED") <=> e.review \in {"UNREVIEWED", "PARTIALLY_REVIEWED"}
    BY DEF Passes
<1> QED BY <1>1, <1>5, <1>7, <1>10, <1>11

\* What is missing on a side is an open variance, if it is no reversal (the comparison,
\* getGoalSummary).
LEMMA MissingHolds == ASSUME NEW w PROVE MissingAgrees(w)
<1>1. ASSUME NEW group \in Comparison(w, "MISSING_IN_FUND"), NEW b \in group
      PROVE  /\ bank[b].match = NoMatch
             /\ b \in VarianceBank(w, b.goal) <=> ~b.reversal
    <2>1. /\ group \in Groups(Preselected(w, "MISSING_IN_FUND"))
          /\ ShownStatus(group) = "MISSING_IN_FUND"
        BY <1>1 DEF Comparison, Passing
    <2>2. b \in StoredBank /\ In(w, b) /\ bank[b].match = NoMatch
        BY <1>1, <2>1 DEF Groups, Preselected
    <2>3. SameIds(group) = {}
        BY <2>1 DEF ShownStatus, AmountStatus
    <2>4. SameKey(b, StoredFund) = {}
        BY <1>1, <2>3 DEF SameIds
    <2>5. b \in VarianceBank(w, b.goal) <=> ~b.reversal
        BY <2>2, <2>4 DEF VarianceBank, Matchable, BankRowsIn, FundRowsIn, SameId, SameKey
    <2> QED BY <2>2, <2>5
<1>2. ASSUME NEW group \in MissingInBank(w), NEW f \in group
      PROVE  f \in VarianceFund(w, f.goal) <=> ~f.reversal
    <2>1. /\ \A h \in group : h \in StoredFund /\ In(w, h)
          /\ ~\E h \in group : \E b \in StoredBank : h.goal = b.goal /\ h.txn = b.txn
        BY <1>2 DEF MissingInBank
    <2> QED BY <1>2, <2>1 DEF VarianceFund, Matchable, FundRowsIn, BankRowsIn, SameId
<1> QED BY <1>1, <1>2 DEF MissingAgrees

\* A reversal that is offered passes the checks of linkReversal (findReversalCandidates).
LEMMA CandidatesLink ==
    ASSUME NEW w, NEW b \in StoredBank, NEW c \in ReversalCandidates(b, w)
    PROVE  CanNet(b, c)
<1>1. b.amount \in Int
    BY RowAssumption DEF StoredBank
<1>2. c.goal = b.goal /\ c.amount = -b.amount /\ b.type # c.type
    BY DEF ReversalCandidates
<1> QED BY <1>1, <1>2 DEF CanNet

\* The group of a row under a filter.
GroupOf(w, filter, b) ==
    {c \in Preselected(w, filter) : c.goal = b.goal /\ c.txn = b.txn}

\* Groups are those of their rows.
LEMMA GroupsAre ==
    ASSUME NEW w, NEW filter
    PROVE  \A group : group \in Groups(Preselected(w, filter)) <=>
             \E b \in Preselected(w, filter) : group = GroupOf(w, filter, b)
BY DEF Groups, GroupOf

\* The comparison under its filters (GET /api/bank-upload/comparison).
LEMMA FiltersHold == ASSUME NEW w PROVE FiltersAgree(w)
<1> DEFINE Missing == "MISSING_IN_FUND"
<1>1. ASSUME NEW group \in Comparison(w, "ALL"), ShownStatus(group) = Missing,
             NEW rows, rows = {b \in group : bank[b].status # "MATCHED"}, rows # {}
      PROVE  rows \in Comparison(w, Missing)
    <2>1. group \in Groups(Preselected(w, "ALL"))
        BY DEF Comparison, Passing
    <2>2. PICK b \in Preselected(w, "ALL") : group = GroupOf(w, "ALL", b)
        BY <2>1, GroupsAre
    <2>3. (\A c \in group : bank[c].match = NoMatch) /\ SameIds(group) = {}
        BY <1>1 DEF ShownStatus, AmountStatus
    <2>4. PICK r : r \in rows
        BY <1>1
    <2>5. r.goal = b.goal /\ r.txn = b.txn /\ r \in Preselected(w, "ALL") /\ bank[r].match = NoMatch
          /\ bank[r].status # "MATCHED"
        BY <1>1, <2>2, <2>3, <2>4 DEF GroupOf
    <2>6. \A c : c \in Preselected(w, Missing) <=>
            c \in Preselected(w, "ALL") /\ bank[c].match = NoMatch /\ bank[c].status # "MATCHED"
        BY DEF Preselected
    <2>7. rows = GroupOf(w, Missing, r)
        BY <1>1, <2>2, <2>3, <2>5, <2>6 DEF GroupOf
    <2>8. rows \in Groups(Preselected(w, Missing))
        BY <2>5, <2>6, <2>7, GroupsAre
    <2>9. SameIds(rows) = {} /\ \A c \in rows : bank[c].match = NoMatch
        BY <1>1, <2>3 DEF SameIds
    <2>10. ShownStatus(rows) = Missing
        BY <2>9 DEF ShownStatus, AmountStatus
    <2> QED BY <2>8, <2>10 DEF Comparison, Passing
<1>2. ASSUME NEW group \in Comparison(w, "MATCHED"), NEW b \in group, bank[b].match # NoMatch
      PROVE  \E whole \in Comparison(w, "ALL") :
               group \subseteq whole /\ ShownStatus(whole) = "MATCHED"
    <2>1. group \in Groups(Preselected(w, "MATCHED"))
        BY DEF Comparison, Passing
    <2>2. PICK c \in Preselected(w, "MATCHED") : group = GroupOf(w, "MATCHED", c)
        BY <2>1, GroupsAre
    <2>3. Preselected(w, "MATCHED") \subseteq Preselected(w, "ALL")
        BY DEF Preselected
    <2>4. PICK whole : whole = GroupOf(w, "ALL", c)
        OBVIOUS
    <2>5. group \subseteq whole /\ b \in whole
        BY <2>2, <2>3, <2>4 DEF GroupOf
    <2>6. ShownStatus(whole) = "MATCHED"
        BY <1>2, <2>5 DEF ShownStatus
    <2>7. whole \in Comparison(w, "ALL")
        BY <2>2, <2>3, <2>4, GroupsAre DEF Comparison, Passing
    <2> QED BY <2>5, <2>6, <2>7
<1> QED BY <1>1, <1>2 DEF FiltersAgree

-----------------------------------------------------------------------------
(* Sums of the pages *)

\* The bank rows of a window, those that are matched and those of reversals.
BanksIn(w) == {b \in StoredBank : In(w, b)}
KeptIn(w) == {b \in BanksIn(w) : ~b.reversal}
ReversalsIn(w) == {b \in StoredBank : In(w, b) /\ b.reversal}

BankAmount == [b \in BankTxn |-> b.amount]
FundAmount == [f \in FundRow |-> f.amount]
Share(k) == [b \in BankTxn |-> b.funds[k]]

\* Totals as sums of one column.
LEMMA SumsAreOver ==
    /\ \A R \in SUBSET BankTxn : Numbers(R, BankAmount) /\ Total(R) = Over(R, BankAmount)
    /\ \A R \in SUBSET FundRow : Numbers(R, FundAmount) /\ Total(R) = Over(R, FundAmount)
    /\ \A k \in FundCode : \A R \in SUBSET BankTxn :
         Numbers(R, Share(k)) /\ InFund(k, R) = Over(R, Share(k))
<1>1. ASSUME NEW R \in SUBSET BankTxn
      PROVE  Numbers(R, BankAmount) /\ Total(R) = Over(R, BankAmount)
    <2>1. [r \in R |-> r.amount] = [r \in R |-> BankAmount[r]]
        BY DEF BankAmount
    <2>2. Numbers(R, BankAmount)
        BY TablesFinite, RowAssumption DEF Numbers, BankAmount
    <2> QED BY <2>1, <2>2 DEF Total, Over
<1>2. ASSUME NEW R \in SUBSET FundRow
      PROVE  Numbers(R, FundAmount) /\ Total(R) = Over(R, FundAmount)
    <2>1. [r \in R |-> r.amount] = [r \in R |-> FundAmount[r]]
        BY DEF FundAmount
    <2>2. Numbers(R, FundAmount)
        BY TablesFinite, RowAssumption DEF Numbers, FundAmount
    <2> QED BY <2>1, <2>2 DEF Total, Over
<1>3. ASSUME NEW k \in FundCode, NEW R \in SUBSET BankTxn
      PROVE  Numbers(R, Share(k)) /\ InFund(k, R) = Over(R, Share(k))
    <2>1. [b \in R |-> b.funds[k]] = [b \in R |-> Share(k)[b]]
        BY DEF Share
    <2>2. Numbers(R, Share(k))
        BY TablesFinite, RowAssumption DEF Numbers, Share
    <2> QED BY <2>1, <2>2 DEF InFund, Over
<1> QED BY <1>1, <1>2, <1>3

\* Each key has an entry of its own, which carries the sum of its part.
Image(entry, K) == {entry[x] : x \in K}
Distinct(entry, K) == \A x, y \in K : entry[x] = entry[y] => x = y
Carried(v, entry, K, part, f) == \A x \in K : v[entry[x]] = Over(part[x], f)

\* Entries that are told apart and carry the sums of the parts add up to the whole.
LEMMA EntriesAddUp ==
    ASSUME NEW R, NEW f, Numbers(R, f), NEW K, IsFiniteSet(K), NEW p, \A x \in R : p[x] \in K,
           NEW part, Partition(part, R, K, p), NEW entry, Distinct(entry, K),
           NEW v, Carried(v, entry, K, part, f)
    PROVE  Over(Image(entry, K), v) = Over(R, f)
<1> DEFINE sum == [x \in K |-> Over(part[x], f)]
<1>1. \A x \in K : sum[x] = Over(part[x], f)
    OBVIOUS
<1>2. Numbers(K, sum)
    <2> SUFFICES ASSUME NEW x \in K PROVE Over(part[x], f) \in Int
        BY DEF Numbers
    <2>1. part[x] \subseteq R
        BY DEF Partition
    <2>2. Numbers(part[x], f)
        BY <2>1, FS_Subset DEF Numbers
    <2> QED BY <2>2, OverType
<1> HIDE DEF sum
<1>3. Over(K, sum) = Over(R, f)
    BY <1>1, OverParts
<1>4. \A x \in K : v[entry[x]] = sum[x]
    BY <1>1 DEF Carried
<1>5. Over({entry[x] : x \in K}, v) = Over(K, sum)
    <2>1. \A x, y \in K : entry[x] = entry[y] => x = y
        BY DEF Distinct
    <2>2. PICK E : E = {entry[x] : x \in K}
        OBVIOUS
    <2>3. Over(E, v) = Over(K, sum)
        BY <1>2, <1>4, <2>1, <2>2, OverImage
    <2> QED BY <2>2, <2>3
<1> QED BY <1>3, <1>5 DEF Image

\* Active goals are those of the rows of the window that are matched, and finitely many.
LEMMA ActiveGoals ==
    ASSUME NEW w
    PROVE  /\ IsFiniteSet(Active(w)) /\ Active(w) \subseteq Goal
           /\ \A b \in KeptIn(w) : b \in BankTxn /\ b.goal \in Active(w)
<1> DEFINE rows == {x \in Matchable(StoredBank \union StoredFund) : In(w, x)}
           goal == [r \in rows |-> r.goal]
<1>1. IsFiniteSet(rows)
    <2>1. IsFiniteSet(BankTxn \union FundRow)
        BY RowAssumption, FS_Union
    <2>2. rows \subseteq BankTxn \union FundRow
        BY DEF Matchable, StoredBank, StoredFund
    <2> HIDE DEF rows
    <2> QED BY <2>1, <2>2, FS_Subset
<1>2. Active(w) = {goal[r] : r \in rows}
    BY DEF Active
<1>3. IsFiniteSet(Active(w))
    <2> HIDE DEF goal, rows
    <2> QED BY <1>1, <1>2, ImageFinite
<1>4. \A b \in KeptIn(w) : b \in rows /\ b \in BankTxn
    BY DEF KeptIn, BanksIn, Matchable, StoredBank
<1>5. Active(w) \subseteq Goal
    BY DEF Active, Goal, Matchable, StoredBank, StoredFund
<1> QED BY <1>3, <1>4, <1>5 DEF Active

\* The goal list: its entries add up to the rows of each type.
LEMMA GoalsAddUp ==
    ASSUME NEW w, NEW type \in Type
    PROVE  GoalTotals(w, "ALL").bank[type] = Total(OfType(KeptIn(w), type))
<1> DEFINE R == OfType(KeptIn(w), type)
           K == Active(w)
           p == [b \in R |-> b.goal]
           part == [g \in K |-> OfType(BankRowsIn(w, g), type)]
           entry == [g \in K |-> GoalEntry(w, g)]
           v == [e \in GoalList(w, "ALL") |-> e.line.bank[type]]
<1>1. R \in SUBSET BankTxn
    BY ActiveGoals DEF OfType
<1>2. Numbers(R, BankAmount) /\ Total(R) = Over(R, BankAmount)
    BY <1>1, SumsAreOver
<1>3. \A b \in R : p[b] \in K
    BY ActiveGoals DEF OfType
<1>4. Partition(part, R, K, p)
    BY DEF Partition, OfType, KeptIn, BanksIn, Matchable, BankRowsIn
<1>5. \A g \in K : entry[g].goal = g /\ entry[g].line = TypeLine(w, g)
    BY DEF GoalEntry
<1>6. Image(entry, K) = GoalList(w, "ALL")
    BY DEF Image, GoalList, Passes
<1>7. Carried(v, entry, K, part, BankAmount)
    <2> SUFFICES ASSUME NEW g \in K PROVE v[entry[g]] = Over(part[g], BankAmount)
        BY DEF Carried
    <2>1. entry[g] \in GoalList(w, "ALL")
        BY <1>6 DEF Image
    <2>2. v[entry[g]] = entry[g].line.bank[type]
        BY <2>1
    <2>3. TypeLine(w, g).bank[type] = Total(OfType(BankRowsIn(w, g), type))
        BY DEF TypeLine
    <2>4. part[g] \in SUBSET BankTxn
        BY ViewRows DEF OfType
    <2>5. Total(part[g]) = Over(part[g], BankAmount)
        <3> HIDE DEF part
        <3> QED BY <2>4, SumsAreOver
    <2> QED BY <1>5, <2>2, <2>3, <2>5
<1>8. Distinct(entry, K)
    BY <1>5 DEF Distinct
<1>9. GoalTotals(w, "ALL").bank[type] = Over(GoalList(w, "ALL"), v)
    <2>1. [e \in GoalList(w, "ALL") |-> e.line.bank[type]] = [e \in GoalList(w, "ALL") |-> v[e]]
        OBVIOUS
    <2> QED BY <2>1 DEF GoalTotals, AddUp, Over
<1>10. IsFiniteSet(K)
    BY ActiveGoals
<1> HIDE DEF R, K, p, part, entry, v
<1>11. Over(Image(entry, K), v) = Over(R, BankAmount)
    BY <1>2, <1>3, <1>4, <1>7, <1>8, <1>10, EntriesAddUp
<1> QED BY <1>2, <1>6, <1>9, <1>11 DEF R

\* The fund list.
LEMMA FundEntries ==
    ASSUME NEW w
    PROVE  /\ FundList(w, "ALL") = {FundEntry(w, g) : g \in Active(w)}
           /\ IsFiniteSet(FundList(w, "ALL"))
           /\ \A e \in FundList(w, "ALL") : \A k \in FundCode :
                e.line.bank[k] \in Int /\ e.line.goal[k] \in Int
           /\ \A e \in FundList(w, "ALL") : e.goal \in Active(w)
<1> DEFINE entry == [g \in Active(w) |-> FundEntry(w, g)]
<1>1. FundList(w, "ALL") = {FundEntry(w, g) : g \in Active(w)}
    BY DEF FundList
<1>2. IsFiniteSet(FundList(w, "ALL"))
    <2>1. FundList(w, "ALL") = {entry[g] : g \in Active(w)}
        BY <1>1
    <2> HIDE DEF entry
    <2> QED BY <2>1, ActiveGoals, ImageFinite
<1>3. ASSUME NEW g, NEW k \in FundCode
      PROVE  FundLine(w, g).bank[k] \in Int /\ FundLine(w, g).goal[k] \in Int
    <2> DEFINE F == {f \in FundRowsIn(w, g) : f.fund = k}
    <2>1. BankRowsIn(w, g) \in SUBSET BankTxn /\ F \in SUBSET FundRow
        BY ViewRows
    <2>2. FundLine(w, g).bank[k] = InFund(k, BankRowsIn(w, g)) /\ FundLine(w, g).goal[k] = Total(F)
        BY DEF FundLine
    <2> HIDE DEF F
    <2> QED BY <2>1, <2>2, SumsAreOver, OverType
<1>4. \A g : FundEntry(w, g).goal = g /\ FundEntry(w, g).line = FundLine(w, g)
    BY DEF FundEntry
<1>5. ASSUME NEW e \in FundList(w, "ALL")
      PROVE  /\ e.goal \in Active(w)
             /\ \A k \in FundCode : e.line.bank[k] \in Int /\ e.line.goal[k] \in Int
    <2>1. PICK g \in Active(w) : e = FundEntry(w, g)
        BY <1>1
    <2> QED BY <1>3, <1>4, <2>1
<1> QED BY <1>1, <1>2, <1>5

\* Its entries add up to the rows of each fund.
LEMMA FundsAddUp ==
    ASSUME NEW w, NEW k \in FundCode
    PROVE  FundTotals(w, "ALL").bank[k] = InFund(k, KeptIn(w))
<1> DEFINE R == KeptIn(w)
           K == Active(w)
           L == FundList(w, "ALL")
           p == [b \in R |-> b.goal]
           part == [g \in K |-> BankRowsIn(w, g)]
           entry == [g \in K |-> FundEntry(w, g)]
           v == [e \in L |-> e.line.bank[k]]
<1>1. R \in SUBSET BankTxn
    BY ActiveGoals
<1>2. Numbers(R, Share(k)) /\ InFund(k, R) = Over(R, Share(k))
    <2> HIDE DEF R
    <2> QED BY <1>1, SumsAreOver
<1>3. \A b \in R : p[b] \in K
    BY ActiveGoals
<1>4. Partition(part, R, K, p)
    BY DEF Partition, KeptIn, BanksIn, Matchable, BankRowsIn
<1>5. \A g \in K : entry[g].goal = g /\ entry[g].line = FundLine(w, g)
    BY DEF FundEntry
<1>6. Image(entry, K) = L
    BY FundEntries DEF Image
<1>7. Carried(v, entry, K, part, Share(k))
    <2> SUFFICES ASSUME NEW g \in K PROVE v[entry[g]] = Over(part[g], Share(k))
        BY DEF Carried
    <2>1. entry[g] \in L
        BY <1>6 DEF Image
    <2>2. v[entry[g]] = entry[g].line.bank[k]
        BY <2>1
    <2>3. FundLine(w, g).bank[k] = InFund(k, part[g])
        BY DEF FundLine
    <2>4. part[g] \in SUBSET BankTxn
        BY ViewRows
    <2>5. InFund(k, part[g]) = Over(part[g], Share(k))
        <3> HIDE DEF part
        <3> QED BY <2>4, SumsAreOver
    <2> QED BY <1>5, <2>2, <2>3, <2>5
<1>8. Distinct(entry, K)
    BY <1>5 DEF Distinct
<1>9. FundTotals(w, "ALL").bank[k] = Over(L, v)
    <2>1. [e \in L |-> e.line.bank[k]] = [e \in L |-> v[e]]
        OBVIOUS
    <2> QED BY <2>1 DEF FundTotals, AddUp, Over
<1>10. IsFiniteSet(K)
    BY ActiveGoals
<1> HIDE DEF R, K, L, p, part, entry, v
<1>11. Over(Image(entry, K), v) = Over(R, Share(k))
    BY <1>2, <1>3, <1>4, <1>7, <1>8, <1>10, EntriesAddUp
<1> QED BY <1>2, <1>6, <1>9, <1>11 DEF R

\* The account list: its entries add up to those of the fund list, side by side.
Accounts(w) == {AccountOf[g] : g \in Active(w)}
GoalsUnder(w, a) == {e \in FundList(w, "ALL") : AccountOf[e.goal] = a}
AccountCarries(v, w, f) ==
    \A a \in Accounts(w) : v[AccountEntry(w, a)] = Over(GoalsUnder(w, a), f)

LEMMA AccountsAddUp ==
    ASSUME NEW w, NEW f, Numbers(FundList(w, "ALL"), f), NEW v, AccountCarries(v, w, f)
    PROVE  Over(AccountList(w, "ALL"), v) = Over(FundList(w, "ALL"), f)
<1> DEFINE R == FundList(w, "ALL")
           K == Accounts(w)
           p == [e \in R |-> AccountOf[e.goal]]
           part == [a \in K |-> GoalsUnder(w, a)]
           entry == [a \in K |-> AccountEntry(w, a)]
<1>1. \A e \in R : p[e] \in K
    BY FundEntries DEF Accounts
<1>2. IsFiniteSet(K)
    <2> DEFINE account == [g \in Active(w) |-> AccountOf[g]]
    <2>1. K = {account[g] : g \in Active(w)}
        BY DEF Accounts
    <2> HIDE DEF account, K
    <2> QED BY <2>1, ActiveGoals, ImageFinite
<1>3. Partition(part, R, K, p)
    BY DEF Partition, GoalsUnder
<1>4. Distinct(entry, K)
    <2>1. \A a \in K : entry[a].account = a
        BY DEF AccountEntry
    <2> QED BY <2>1 DEF Distinct
<1>5. Carried(v, entry, K, part, f)
    BY DEF Carried, AccountCarries
<1>6. Image(entry, K) = AccountList(w, "ALL")
    <2>1. ASSUME NEW e PROVE e \in AccountList(w, "ALL") <=> \E g \in Active(w) :
                                   e = AccountEntry(w, AccountOf[g])
        BY DEF AccountList
    <2>2. ASSUME NEW e PROVE e \in Image(entry, K) <=> \E g \in Active(w) :
                                   e = AccountEntry(w, AccountOf[g])
        BY DEF Image, Accounts
    <2> QED BY <2>1, <2>2
<1> HIDE DEF R, K, p, part, entry
<1>7. Numbers(R, f)
    BY DEF R
<1>8. Over(Image(entry, K), v) = Over(R, f)
    BY <1>1, <1>2, <1>3, <1>4, <1>5, <1>7, EntriesAddUp
<1> QED BY <1>6, <1>8 DEF R

\* Both sides of the account list add up to those of the fund list.
LEMMA AccountSides ==
    ASSUME NEW w, NEW k \in FundCode
    PROVE  /\ AccountTotals(w, "ALL").bank[k] = FundTotals(w, "ALL").bank[k]
           /\ AccountTotals(w, "ALL").goal[k] = FundTotals(w, "ALL").goal[k]
<1> DEFINE L == FundList(w, "ALL")
           M == AccountList(w, "ALL")
           fb == [e \in L |-> e.line.bank[k]]
           fg == [e \in L |-> e.line.goal[k]]
           vb == [e \in M |-> e.line.bank[k]]
           vg == [e \in M |-> e.line.goal[k]]
<1>1. Numbers(L, fb) /\ Numbers(L, fg)
    BY FundEntries DEF Numbers
<1>2. ASSUME NEW a \in Accounts(w)
      PROVE  /\ vb[AccountEntry(w, a)] = Over(GoalsUnder(w, a), fb)
             /\ vg[AccountEntry(w, a)] = Over(GoalsUnder(w, a), fg)
    <2> DEFINE U == GoalsUnder(w, a)
               e == AccountEntry(w, a)
    <2>1. e \in M
        BY DEF AccountList, Accounts
    <2>2. vb[e] = e.line.bank[k] /\ vg[e] = e.line.goal[k]
        BY <2>1
    <2>3. e.line = AddUp(U, FundCode)
        BY DEF AccountEntry, GoalsUnder
    <2>4. [x \in U |-> x.line.bank[k]] = [x \in U |-> fb[x]]
          /\ [x \in U |-> x.line.goal[k]] = [x \in U |-> fg[x]]
        BY DEF GoalsUnder
    <2>5. AddUp(U, FundCode).bank[k] = Over(U, fb) /\ AddUp(U, FundCode).goal[k] = Over(U, fg)
        BY <2>4 DEF AddUp, Over
    <2> QED BY <2>2, <2>3, <2>5
<1>3. AccountCarries(vb, w, fb) /\ AccountCarries(vg, w, fg)
    BY <1>2 DEF AccountCarries
<1>4. /\ FundTotals(w, "ALL").bank[k] = Over(L, fb) /\ FundTotals(w, "ALL").goal[k] = Over(L, fg)
      /\ AccountTotals(w, "ALL").bank[k] = Over(M, vb)
      /\ AccountTotals(w, "ALL").goal[k] = Over(M, vg)
    <2>1. /\ [e \in L |-> e.line.bank[k]] = [e \in L |-> fb[e]]
          /\ [e \in L |-> e.line.goal[k]] = [e \in L |-> fg[e]]
          /\ [e \in M |-> e.line.bank[k]] = [e \in M |-> vb[e]]
          /\ [e \in M |-> e.line.goal[k]] = [e \in M |-> vg[e]]
        OBVIOUS
    <2> QED BY <2>1 DEF FundTotals, AccountTotals, AddUp, Over
<1> HIDE DEF fb, fg, vb, vg
<1>5. Over(M, vb) = Over(L, fb) /\ Over(M, vg) = Over(L, fg)
    BY <1>1, <1>3, AccountsAddUp
<1> QED BY <1>4, <1>5

\* The comparison: each row is in one group.
LEMMA ComparedRows ==
    ASSUME NEW w
    PROVE  /\ Preselected(w, "ALL") = BanksIn(w)
           /\ BanksIn(w) \in SUBSET BankTxn
           /\ IsFiniteSet(Groups(BanksIn(w)))
<1>1. Preselected(w, "ALL") = BanksIn(w)
    BY DEF Preselected, BanksIn
<1>2. BanksIn(w) \in SUBSET BankTxn
    BY DEF BanksIn, StoredBank
<1>3. IsFiniteSet(BanksIn(w))
    BY <1>2, TablesFinite
<1>4. IsFiniteSet(Groups(BanksIn(w)))
    <2> DEFINE its == [b \in BanksIn(w) |-> {c \in BanksIn(w) : c.goal = b.goal /\ c.txn = b.txn}]
    <2>1. Groups(BanksIn(w)) = {its[b] : b \in BanksIn(w)}
        BY DEF Groups
    <2> HIDE DEF its
    <2> QED BY <1>3, <2>1, ImageFinite
<1> QED BY <1>1, <1>2, <1>4

GroupTotal(G) == [group \in G |-> Total(group)]

\* The groups of the comparison add up to the rows of the window.
LEMMA GroupsAddUp ==
    ASSUME NEW w, NEW K, K = Groups(BanksIn(w))
    PROVE  /\ Numbers(K, GroupTotal(K))
           /\ Over(K, GroupTotal(K)) = Total(BanksIn(w))
<1> DEFINE R == BanksIn(w)
           p == [b \in R |-> {c \in R : c.goal = b.goal /\ c.txn = b.txn}]
           part == [group \in K |-> group]
           sum == GroupTotal(K)
<1>1. R \in SUBSET BankTxn
    BY ComparedRows
<1>2. Numbers(R, BankAmount) /\ Total(R) = Over(R, BankAmount)
    <2> HIDE DEF R
    <2> QED BY <1>1, SumsAreOver
<1>3. K = {p[b] : b \in R}
    BY DEF Groups
<1>4. \A b \in R : p[b] \in K
    BY <1>3
<1>5. Partition(part, R, K, p)
    <2> SUFFICES ASSUME NEW group \in K, NEW x PROVE x \in group <=> x \in R /\ p[x] = group
        BY DEF Partition
    <2>1. PICK b \in R : group = {c \in R : c.goal = b.goal /\ c.txn = b.txn}
        BY <1>3
    <2>2. ASSUME x \in group PROVE p[x] = group
        BY <2>1, <2>2
    <2>3. ASSUME x \in R PROVE x \in p[x]
        BY <2>3
    <2> QED BY <2>1, <2>2, <2>3
<1>6. \A group \in K : sum[group] = Over(part[group], BankAmount) /\ sum[group] \in Int
    <2> SUFFICES ASSUME NEW group \in K
                 PROVE  Total(group) = Over(group, BankAmount) /\ Over(group, BankAmount) \in Int
        BY DEF GroupTotal
    <2>1. group \in SUBSET BankTxn
        BY <1>1, <1>3
    <2> QED BY <2>1, SumsAreOver, OverType
<1>7. IsFiniteSet(K)
    BY ComparedRows
<1> HIDE DEF R, p, part, sum
<1>8. Over(K, sum) = Over(R, BankAmount)
    BY <1>2, <1>4, <1>5, <1>6, <1>7, OverParts
<1>9. Numbers(K, sum)
    BY <1>6, <1>7 DEF Numbers
<1> QED BY <1>2, <1>8, <1>9 DEF R, sum

\* Every group of a page is counted under one of three statuses (ComparisonFigures).
LEMMA GroupsAreCounted ==
    ASSUME NEW page, NEW k, IsFiniteSet(OnPage(page, k))
    PROVE  LET figures == ComparisonFigures(page, k, "ALL")
           IN  figures.matched + figures.variance + figures.missing = Cardinality(OnPage(page, k))
<1> DEFINE K == OnPage(page, k)
           With(status) == {group \in K : ShownStatus(group) = status}
           rest == K \ With("MATCHED")
<1>1. IsFiniteSet(K)
    OBVIOUS
<1>2. \A group : ShownStatus(group) \in {"MATCHED", "VARIANCE_DETECTED", "MISSING_IN_FUND"}
    BY DEF ShownStatus, AmountStatus
<1>3. /\ With("MATCHED") \in SUBSET K /\ rest \in SUBSET K
      /\ With("VARIANCE_DETECTED") \in SUBSET rest
      /\ rest \ With("VARIANCE_DETECTED") = With("MISSING_IN_FUND")
    BY <1>2
<1>4. /\ ComparisonFigures(page, k, "ALL").matched = Cardinality(With("MATCHED"))
      /\ ComparisonFigures(page, k, "ALL").variance = Cardinality(With("VARIANCE_DETECTED"))
      /\ ComparisonFigures(page, k, "ALL").missing = Cardinality(With("MISSING_IN_FUND"))
    <2>1. Passing(K, "ALL") = K
        BY DEF Passing
    <2> HIDE DEF K
    <2>2. Passing(OnPage(page, k), "ALL") = K
        BY <2>1 DEF K
    <2> QED BY <2>2 DEF ComparisonFigures
<1> HIDE DEF K, With
<1>5. /\ Cardinality(K) = Cardinality(With("MATCHED")) + Cardinality(rest)
      /\ IsFiniteSet(rest) /\ Cardinality(With("MATCHED")) \in Nat
    BY <1>1, <1>3, PartSize
<1> HIDE DEF rest
<1>6. /\ Cardinality(rest) = Cardinality(With("VARIANCE_DETECTED")) + Cardinality(With("MISSING_IN_FUND"))
      /\ Cardinality(With("VARIANCE_DETECTED")) \in Nat /\ Cardinality(With("MISSING_IN_FUND")) \in Nat
    BY <1>3, <1>5, PartSize
<1>7. Cardinality(K) = Cardinality(With("MATCHED")) + Cardinality(With("VARIANCE_DETECTED"))
                       + Cardinality(With("MISSING_IN_FUND"))
    BY <1>5, <1>6
<1> QED BY <1>4, <1>7 DEF K

\* The groups of the comparison, parted in any way into pages.
LEMMA PagesAddUp ==
    ASSUME NEW w, NEW K, K = Groups(BanksIn(w)), NEW pages, IsFiniteSet(pages),
           NEW paging, DOMAIN paging = K, \A group \in K : paging[group] \in pages
    PROVE  LET figures == [k \in pages |-> ComparisonFigures(paging, k, "ALL")]
           IN  /\ SumFunction([k \in pages |-> figures[k].bank]) = Total(BanksIn(w))
               /\ \A k \in pages : figures[k].matched + figures[k].variance
                                   + figures[k].missing = Cardinality(OnPage(paging, k))
<1> DEFINE figures == [k \in pages |-> ComparisonFigures(paging, k, "ALL")]
           part == [k \in pages |-> OnPage(paging, k)]
           sum == [k \in pages |-> figures[k].bank]
<1>1. IsFiniteSet(K)
    BY ComparedRows
<1>2. Partition(part, K, pages, paging)
    BY DEF Partition, OnPage
<1>3. \A k \in pages : sum[k] = Over(part[k], GroupTotal(K))
    <2> SUFFICES ASSUME NEW k \in pages
                 PROVE  ComparisonFigures(paging, k, "ALL").bank = Over(OnPage(paging, k), GroupTotal(K))
        OBVIOUS
    <2>1. Passing(OnPage(paging, k), "ALL") = OnPage(paging, k)
        BY DEF Passing
    <2>2. [group \in OnPage(paging, k) |-> Total(group)] =
            [group \in OnPage(paging, k) |-> GroupTotal(K)[group]]
        BY DEF OnPage, GroupTotal
    <2> QED BY <2>1, <2>2 DEF ComparisonFigures, Over
<1>4. Numbers(K, GroupTotal(K)) /\ Over(K, GroupTotal(K)) = Total(BanksIn(w))
    BY GroupsAddUp
<1>5. Over(pages, sum) = SumFunction([k \in pages |-> figures[k].bank])
    <2>1. PICK v : v = sum
        OBVIOUS
    <2>2. v = [k \in pages |-> v[k]]
        BY <2>1
    <2>3. Over(pages, v) = SumFunction(v)
        BY <2>2 DEF Over
    <2> QED BY <2>1, <2>3
<1>6. Over(pages, sum) = Over(K, GroupTotal(K))
    <2>1. PICK f : f = GroupTotal(K)
        OBVIOUS
    <2>2. Numbers(K, f) /\ \A k \in pages : sum[k] = Over(part[k], f)
        BY <1>3, <1>4, <2>1
    <2> HIDE DEF part, sum, figures
    <2> QED BY <1>2, <2>1, <2>2, OverParts
<1>7. \A k \in pages : figures[k].matched + figures[k].variance + figures[k].missing
                        = Cardinality(OnPage(paging, k))
    <2> SUFFICES ASSUME NEW k \in pages
                 PROVE  LET its == ComparisonFigures(paging, k, "ALL")
                        IN  its.matched + its.variance + its.missing = Cardinality(OnPage(paging, k))
        OBVIOUS
    <2>1. OnPage(paging, k) \in SUBSET K
        BY DEF OnPage
    <2>2. IsFiniteSet(OnPage(paging, k))
        BY <1>1, <2>1, FS_Subset
    <2> QED BY <2>2, GroupsAreCounted
<1> QED BY <1>4, <1>5, <1>6, <1>7

\* So does any paging of the comparison, however ties are broken.
LEMMA PagesHold == ASSUME NEW w PROVE PagesAgree(w)
<1>1. PICK K : K = Groups(Preselected(w, "ALL"))
    OBVIOUS
<1>2. K = Groups(BanksIn(w)) /\ IsFiniteSet(K)
    BY <1>1, ComparedRows
<1>3. PICK pages : pages = 1..TotalPages(K)
    OBVIOUS
<1>4. IsFiniteSet(pages)
    <2>1. Cardinality(K) \in Nat
        BY <1>2, FS_CardinalityType
    <2>2. TotalPages(K) \in Int
        BY <2>1, PageAssumption DEF TotalPages
    <2> QED BY <1>3, <2>2, FS_Interval
<1>5. ASSUME NEW paging \in Pagings(K)
      PROVE  LET figures == [k \in pages |-> ComparisonFigures(paging, k, "ALL")]
             IN  /\ SumFunction([k \in pages |-> figures[k].bank]) = Total(BanksIn(w))
                 /\ \A k \in pages : figures[k].matched + figures[k].variance
                                     + figures[k].missing = Cardinality(OnPage(paging, k))
    <2>1. DOMAIN paging = K /\ \A group \in K : paging[group] \in pages
        BY <1>3 DEF Pagings
    <2> QED BY <1>2, <1>4, <2>1, PagesAddUp
<1>6. TransactionsPage(w).amount = Total(BanksIn(w))
    BY DEF TransactionsPage, BanksIn
<1> QED BY <1>1, <1>3, <1>5, <1>6 DEF PagesAgree

\* A column of the rows of a window adds up over those that are matched and the reversals.
LEMMA ColumnSplits ==
    ASSUME NEW A, NEW B, NEW C, NEW f, Numbers(C, f), A \union B = C, A \intersect B = {}
    PROVE  Over(C, f) = Over(A, f) + Over(B, f)
<1>1. Numbers(A, f) /\ Numbers(B, f)
    BY FS_Subset DEF Numbers
<1> QED BY <1>1, OverUnion

\* The rows of a window, by type and by fund.
LEMMA WindowSplits ==
    ASSUME NEW w
    PROVE  /\ \A type \in Type : Total(OfType(BanksIn(w), type)) =
                Total(OfType(KeptIn(w), type)) + Total(OfType(ReversalsIn(w), type))
           /\ \A k \in FundCode :
                InFund(k, BanksIn(w)) = InFund(k, KeptIn(w)) + InFund(k, ReversalsIn(w))
<1>1. /\ BanksIn(w) \in SUBSET BankTxn /\ KeptIn(w) \in SUBSET BankTxn
      /\ ReversalsIn(w) \in SUBSET BankTxn
      /\ KeptIn(w) \union ReversalsIn(w) = BanksIn(w) /\ KeptIn(w) \intersect ReversalsIn(w) = {}
    BY DEF BanksIn, KeptIn, ReversalsIn, StoredBank
<1>2. ASSUME NEW type \in Type
      PROVE  Total(OfType(BanksIn(w), type)) =
               Total(OfType(KeptIn(w), type)) + Total(OfType(ReversalsIn(w), type))
    <2>1. PICK A, B, C : /\ A = OfType(KeptIn(w), type) /\ B = OfType(ReversalsIn(w), type)
                         /\ C = OfType(BanksIn(w), type)
        OBVIOUS
    <2>2. /\ A \in SUBSET BankTxn /\ B \in SUBSET BankTxn /\ C \in SUBSET BankTxn
          /\ A \union B = C /\ A \intersect B = {}
        BY <1>1, <2>1 DEF OfType
    <2> QED BY <2>1, <2>2, SumsAreOver, ColumnSplits
<1>3. ASSUME NEW k \in FundCode
      PROVE  InFund(k, BanksIn(w)) = InFund(k, KeptIn(w)) + InFund(k, ReversalsIn(w))
    BY <1>1, SumsAreOver, ColumnSplits
<1> QED BY <1>2, <1>3

\* The lists and the transactions page add up to the same but for the reversals.
LEMMA SumsHold == ASSUME NEW w PROVE ListsAgree(w)
<1>1. /\ TransactionsPage(w).deposits = Total(OfType(BanksIn(w), "DEPOSIT"))
      /\ TransactionsPage(w).withdrawals = Magnitude(Total(OfType(BanksIn(w), "WITHDRAWAL")))
      /\ \A k \in FundCode : TransactionsPage(w).funds[k] = InFund(k, BanksIn(w))
    BY DEF TransactionsPage, BanksIn
<1>2. /\ GoalTotals(w, "ALL").bank["DEPOSIT"] = Total(OfType(KeptIn(w), "DEPOSIT"))
      /\ GoalTotals(w, "ALL").bank["WITHDRAWAL"] = Total(OfType(KeptIn(w), "WITHDRAWAL"))
      /\ \A k \in FundCode : FundTotals(w, "ALL").bank[k] = InFund(k, KeptIn(w))
    BY GoalsAddUp, FundsAddUp DEF Type
<1>3. /\ TransactionsPage(w).deposits =
           GoalTotals(w, "ALL").bank["DEPOSIT"] + Total(OfType(ReversalsIn(w), "DEPOSIT"))
      /\ TransactionsPage(w).withdrawals = Magnitude(
           GoalTotals(w, "ALL").bank["WITHDRAWAL"] + Total(OfType(ReversalsIn(w), "WITHDRAWAL")))
      /\ \A k \in FundCode : TransactionsPage(w).funds[k] =
           FundTotals(w, "ALL").bank[k] + InFund(k, ReversalsIn(w))
    BY <1>1, <1>2, WindowSplits DEF Type
<1>4. AccountTotals(w, "ALL") = FundTotals(w, "ALL")
    <2>1. ASSUME NEW L
          PROVE  \E b, g : AddUp(L, FundCode) = [bank |-> [k \in FundCode |-> b[k]],
                                                 goal |-> [k \in FundCode |-> g[k]]]
        <3>1. PICK b, g : /\ b = [k \in FundCode |-> SumFunction([e \in L |-> e.line.bank[k]])]
                          /\ g = [k \in FundCode |-> SumFunction([e \in L |-> e.line.goal[k]])]
            OBVIOUS
        <3>2. AddUp(L, FundCode) = [bank |-> b, goal |-> g]
            BY <3>1 DEF AddUp
        <3>3. b = [k \in FundCode |-> b[k]] /\ g = [k \in FundCode |-> g[k]]
            BY <3>1
        <3> QED BY <3>2, <3>3
    <2>2. PICK b1, g1 : AccountTotals(w, "ALL") = [bank |-> [k \in FundCode |-> b1[k]],
                                                   goal |-> [k \in FundCode |-> g1[k]]]
        BY <2>1 DEF AccountTotals
    <2>3. PICK b2, g2 : FundTotals(w, "ALL") = [bank |-> [k \in FundCode |-> b2[k]],
                                                goal |-> [k \in FundCode |-> g2[k]]]
        BY <2>1 DEF FundTotals
    <2>4. \A k \in FundCode : b1[k] = b2[k] /\ g1[k] = g2[k]
        <3> TAKE k \in FundCode
        <3>1. /\ AccountTotals(w, "ALL").bank[k] = b1[k] /\ AccountTotals(w, "ALL").goal[k] = g1[k]
              /\ FundTotals(w, "ALL").bank[k] = b2[k] /\ FundTotals(w, "ALL").goal[k] = g2[k]
            BY <2>2, <2>3
        <3> QED BY <3>1, AccountSides
    <2>5. [k \in FundCode |-> b1[k]] = [k \in FundCode |-> b2[k]]
          /\ [k \in FundCode |-> g1[k]] = [k \in FundCode |-> g2[k]]
        BY <2>4
    <2> QED BY <2>2, <2>3, <2>5
<1> QED BY <1>3, <1>4 DEF ListsAgree, ReversalsIn

-----------------------------------------------------------------------------
(* What is resolved *)

\* Tags and resolutions reach all rows of a goal code that are stored at the time, so
\* rows of one code differ only by when they came: two tags are the same tag, and a row
\* that is tagged but not resolved came after all that are resolved, which are tagged
\* with it.
CodesTagged ==
    /\ \A f \in FundRow : fund[f].at # "stored" => fund[f].tag = NULL /\ ~fund[f].resolved
    /\ \A f, h \in FundRow : f.code = h.code =>
         /\ fund[f].tag = NULL \/ fund[h].tag = NULL \/ fund[f].tag = fund[h].tag
         /\ fund[f].tag # NULL /\ ~fund[f].resolved /\ fund[h].resolved => fund[h].tag # NULL

\* What a step does to the fund rows: TagFund, MarkGoal, Uploaded, RolledBack.
Tagging == \E codes, tag : \A f \in FundRow :
    fund'[f] = IF f \in RowsOf(codes) THEN [fund[f] EXCEPT !.tag = tag] ELSE fund[f]
Resolving == \E codes : \A f \in FundRow :
    fund'[f] = IF f \in RowsOf(codes) THEN [fund[f] EXCEPT !.resolved = TRUE] ELSE fund[f]
Coming == \E r \in FundRow : fund' = [fund EXCEPT ![r].at = "stored"] /\ fund[r].at = "absent"
Going == \E r \in FundRow : fund' = [fund EXCEPT ![r] = [NewFundRow EXCEPT !.at = "gone"]]

\* No other statement writes a fund row (UserRequest, RequestStep, the environment).
LEMMA FundSteps == [Next]_vars => fund' = fund \/ Tagging \/ Resolving \/ Coming \/ Going
<1> SUFFICES ASSUME [Next]_vars PROVE fund' = fund \/ Tagging \/ Resolving \/ Coming \/ Going
    OBVIOUS
<1>1. CASE UNCHANGED vars
    BY <1>1 DEF vars
<1>2. ASSUME NEW codes, NEW tag, TagFund(codes, tag) PROVE Tagging
    BY <1>2 DEF TagFund, UpdateFund, Tagging
<1>3. ASSUME NEW p \in Request, UserRequest(p) PROVE fund' = fund \/ Tagging
    <2>1. ASSUME NEW c \in Code, NEW t \in Tag, ReviewGoal(p, c, t) PROVE Tagging
        BY <1>2, <2>1 DEF ReviewGoal
    <2> QED BY <1>3, <2>1 DEF UserRequest, CheckTotals, BeginUnmatch, BulkReviewBank, ReviewBank,
                  SetStatus, LinkReversal, BeginUnlink, ReadBankRows, Detect, StartRun
<1>4. ASSUME NEW p \in Request, RequestStep(p) PROVE fund' = fund \/ Tagging \/ Resolving
    <2>1. ASSUME BulkReviewGoal(p) PROVE Tagging
        BY <1>2, <2>1 DEF BulkReviewGoal
    <2>2. ASSUME NEW c \in Code, MarkGoal(p, c) PROVE Resolving
        BY <2>2 DEF MarkGoal, UpdateFund, Resolving
    <2> QED BY <1>4, <2>1, <2>2 DEF RequestStep, WriteMatch, UnmatchIds, UnmatchExact, UnmatchContains,
                  UnlinkFirst, FindPartner, UnlinkSecond, MatchRows, EndDrilldown, PersistMatch,
                  EndDetect, MarkBank, EndRun, WriteVerdict, JudgeRow
<1>5. ASSUME NEW r, Uploaded(r) \/ RolledBack(r) PROVE fund' = fund \/ Coming \/ Going
    BY <1>5 DEF Uploaded, RolledBack, Coming, Going, StoredFund
<1> QED BY <1>1, <1>3, <1>4, <1>5 DEF Next

\* At the start nothing is tagged or resolved (Init).
LEMMA InitCodesTagged == Init => CodesTagged
BY DEF Init, CodesTagged, NewFundRow

\* No step sets rows of one code apart (TagFund, MarkGoal, Uploaded, RolledBack).
LEMMA NextCodesTagged == Shaped /\ CodesTagged /\ [Next]_vars => CodesTagged'
<1> SUFFICES ASSUME Shaped, CodesTagged, [Next]_vars PROVE CodesTagged'
    OBVIOUS
<1>0. fund = [f \in FundRow |-> fund[f]] /\ \A f \in FundRow : DOMAIN fund[f] = DOMAIN NewFundRow
    BY DEF Shaped
<1>1. CASE fund' = fund
    BY <1>1 DEF CodesTagged
<1>2. CASE Tagging
    <2>1. PICK codes, tag : \A f \in FundRow :
            fund'[f] = IF f \in RowsOf(codes) THEN [fund[f] EXCEPT !.tag = tag] ELSE fund[f]
        BY <1>2 DEF Tagging
    <2>2. \A f \in FundRow : fund'[f].at = fund[f].at /\ fund'[f].resolved = fund[f].resolved
        BY <1>0, <2>1 DEF NewFundRow
    <2>3. \A f \in FundRow : fund'[f].tag = IF f \in RowsOf(codes) THEN tag ELSE fund[f].tag
        BY <1>0, <2>1 DEF NewFundRow
    <2>4. \A f \in FundRow : f \in RowsOf(codes) <=> fund[f].at = "stored" /\ f.code \in codes
        BY DEF RowsOf, StoredFund
    <2> QED BY <2>2, <2>3, <2>4 DEF CodesTagged
<1>3. CASE Resolving
    <2>1. PICK codes : \A f \in FundRow :
            fund'[f] = IF f \in RowsOf(codes) THEN [fund[f] EXCEPT !.resolved = TRUE] ELSE fund[f]
        BY <1>3 DEF Resolving
    <2>2. \A f \in FundRow : fund'[f].at = fund[f].at /\ fund'[f].tag = fund[f].tag
        BY <1>0, <2>1 DEF NewFundRow
    <2>3. \A f \in FundRow : IF f \in RowsOf(codes) THEN fund'[f].resolved
                             ELSE fund'[f] = fund[f]
        BY <1>0, <2>1 DEF NewFundRow
    <2>4. \A f \in FundRow : f \in RowsOf(codes) <=> fund[f].at = "stored" /\ f.code \in codes
        BY DEF RowsOf, StoredFund
    <2>5. ASSUME NEW f \in FundRow, NEW h \in FundRow, f.code = h.code,
                 fund'[f].tag # NULL, ~fund'[f].resolved, fund'[h].resolved
          PROVE  fund'[h].tag # NULL
        <3>1. fund[f].at = "stored" /\ f \notin RowsOf(codes)
            BY <2>2, <2>3, <2>5 DEF CodesTagged
        <3>2. h \notin RowsOf(codes)
            BY <2>4, <2>5, <3>1
        <3> QED BY <2>3, <2>5, <3>1, <3>2 DEF CodesTagged
    <2>6. ASSUME NEW f \in FundRow, fund'[f].at # "stored"
          PROVE  fund'[f].tag = NULL /\ ~fund'[f].resolved
        BY <2>2, <2>3, <2>4, <2>6 DEF CodesTagged
    <2> QED BY <2>2, <2>5, <2>6 DEF CodesTagged
<1>4. CASE Coming
    <2>1. PICK r \in FundRow : fund' = [fund EXCEPT ![r].at = "stored"] /\ fund[r].at = "absent"
        BY <1>4 DEF Coming
    <2>2. \A f \in FundRow : /\ fund'[f].tag = fund[f].tag /\ fund'[f].resolved = fund[f].resolved
                             /\ fund'[f].at = IF f = r THEN "stored" ELSE fund[f].at
        BY <1>0, <2>1 DEF NewFundRow
    <2> QED BY <2>2 DEF CodesTagged
<1>5. CASE Going
    <2>1. PICK r \in FundRow : fund' = [fund EXCEPT ![r] = [NewFundRow EXCEPT !.at = "gone"]]
        BY <1>5 DEF Going
    <2>2. /\ fund'[r].tag = NULL /\ fund'[r].resolved = FALSE
          /\ \A f \in FundRow \ {r} : fund'[f] = fund[f]
        BY <1>0, <2>1 DEF NewFundRow
    <2> QED BY <2>2 DEF CodesTagged
<1> QED BY <1>1, <1>2, <1>3, <1>4, <1>5, FundSteps

-----------------------------------------------------------------------------
\* A set of values has no more members than what they are values of.
LEMMA ImageSize ==
    ASSUME NEW A, IsFiniteSet(A), NEW g, NEW Y, \A y \in Y : \E x \in A : g[x] = y
    PROVE  IsFiniteSet(Y) /\ Cardinality(Y) \in Nat /\ Cardinality(A) \in Nat
           /\ Cardinality(Y) <= Cardinality(A)
<1> DEFINE X == {x \in A : g[x] \in Y}
           f == [x \in X |-> g[x]]
<1>1. IsFiniteSet(X) /\ Cardinality(X) <= Cardinality(A) /\ Cardinality(X) \in Nat
      /\ Cardinality(A) \in Nat
    BY FS_Subset, FS_CardinalityType
<1>2. f \in Surjection(X, Y)
    BY DEF Surjection
<1>3. IsFiniteSet(Y) /\ Cardinality(Y) <= Cardinality(X)
    BY <1>1, <1>2, FS_Surjection DEF ExistsSurjection
<1>4. Cardinality(Y) \in Nat
    BY <1>3, FS_CardinalityType
<1> QED BY <1>1, <1>3, <1>4

\* Two sets together have no more members than both.
LEMMA UnionSize ==
    ASSUME NEW A, NEW B, IsFiniteSet(A), IsFiniteSet(B)
    PROVE  /\ IsFiniteSet(A \union B) /\ Cardinality(A \union B) \in Nat
           /\ Cardinality(A \union B) <= Cardinality(A) + Cardinality(B)
<1>1. /\ IsFiniteSet(A \union B)
      /\ Cardinality(A \union B) = Cardinality(A) + Cardinality(B) - Cardinality(A \intersect B)
    BY FS_Union
<1>2. Cardinality(A) \in Nat /\ Cardinality(B) \in Nat
    BY FS_CardinalityType
<1>3. IsFiniteSet(A \intersect B)
    BY FS_Subset
<1>4. Cardinality(A \intersect B) \in Nat
    BY <1>3, FS_CardinalityType
<1>5. PICK n, m, k, u : /\ n = Cardinality(A) /\ m = Cardinality(B)
                        /\ k = Cardinality(A \intersect B) /\ u = Cardinality(A \union B)
    OBVIOUS
<1>6. n \in Nat /\ m \in Nat /\ k \in Nat /\ u = n + m - k
    BY <1>1, <1>2, <1>4, <1>5
<1>7. u \in Nat
    BY <1>1, <1>5, FS_CardinalityType
<1>8. u <= n + m
    BY <1>6, <1>7
<1> QED BY <1>1, <1>5, <1>7, <1>8

\* What the list of unmatched transactions leaves is of the rows it reads.
LEMMA LeftAreRows ==
    ASSUME NEW w, NEW goal, NEW o \in VarianceAnswers(w, goal)
    PROVE  /\ o.bank \subseteq BankRowsIn(w, goal)
           /\ \A g \in o.goal : \E f \in FundRowsIn(w, goal) : g.code = f.code /\ g.type = f.type
<1> DEFINE B == BankRowsIn(w, goal)
           G == GoalTxns(FundRowsIn(w, goal))
<1>1. o \in UnmatchedIn(B, G, [b \in B |-> bank[b].match])
    BY AnswersUnmatched
<1> HIDE DEF B, G
<1>2. PICK found : o = LeftOf(found, B, G)
    BY <1>1 DEF UnmatchedIn
<1>3. o.bank \subseteq B /\ o.goal \subseteq G
    BY <1>2 DEF LeftOf
<1>4. \A g \in G : \E f \in FundRowsIn(w, goal) : g.code = f.code /\ g.type = f.type
    <2> SUFFICES ASSUME NEW g \in G
                 PROVE  \E f \in FundRowsIn(w, goal) : g.code = f.code /\ g.type = f.type
        OBVIOUS
    <2>1. PICK f \in FundRowsIn(w, goal) : g = GoalTxn(f.code, f.type, FundRowsIn(w, goal))
        BY DEF G, GoalTxns
    <2>2. g.code = f.code /\ g.type = f.type
        BY <2>1 DEF GoalTxn
    <2> QED BY <2>2
<1> QED BY <1>3, <1>4 DEF B

\* A tag that is shown for several rows is one of them, and TagsOf is never empty.
LEMMA TagsShown ==
    ASSUME NEW H, NEW h \in H
    PROVE  /\ \A tag : tag \in TagsOf(H) => \E x \in H : fund[x].tag = tag
           /\ \A x \in H : fund[x].tag # NULL => fund[x].tag \in TagsOf(H)
           /\ (\A x \in H : fund[x].tag = NULL) => TagsOf(H) = {NULL}
BY DEF TagsOf

ResolvedRows(w) == {f \in StoredFund : fund[f].resolved /\ In(w, f)}
AlikeIn(f, R) == {h \in R : h.code = f.code /\ h.type = f.type}

\* The lines of getResolvedVariancesReport.
LEMMA ReportLines ==
    ASSUME NEW w
    PROVE  \A line : line \in ResolvedReport(w) <=>
             \/ \E b \in StoredBank : bank[b].resolved /\ In(w, b) /\ line = BankLine(b)
             \/ \E f \in ResolvedRows(w) :
                  line \in GoalLines(AlikeIn(f, ResolvedRows(w)), {TRUE})
BY DEF ResolvedReport, ResolvedRows, AlikeIn

\* A line of a goal transaction, and the lines of one that is left over.
LEMMA LineIn ==
    ASSUME NEW F, NEW Resolved, NEW line
    PROVE  line \in GoalLines(F, Resolved) <=>
             \E f \in F, t \in TagsOf(F), r \in Resolved :
               line = [source |-> "GOAL", id |-> <<f.code, f.type>>, tag |-> t, resolved |-> r]
BY DEF GoalLines

LeftIn(w) == UNION {VarianceAnswers(w, g) : g \in SuspectGoals(w)}
RowsLike(w, g) == {f \in FundRowsIn(w, g.goal) : f.code = g.code /\ f.type = g.type}
LinesOf(w, g) == GoalLines(RowsLike(w, g), {fund[f].resolved : f \in RowsLike(w, g)})

\* The report has the line, perhaps with the tag of a reversal.
Reported(w, line) == \E shown \in ResolvedReport(w) :
    /\ shown.source = line.source /\ shown.id = line.id
    /\ shown.tag \in {line.tag} \union ReversalTags(line)

\* What the list shows as resolved is on the report.
LEMMA ResolvedAreReported ==
    ASSUME TypeOK, CodesTagged, NEW w, NEW line \in VarianceLines(w), line.resolved
    PROVE  Reported(w, line)
<1>1. PICK goal : \E o \in VarianceAnswers(w, goal) :
        (\E b \in o.bank : line = BankLine(b)) \/ \E g \in o.goal : line \in LinesOf(w, g)
    <2>1. \/ line \in {BankLine(b) : b \in UNION {o.bank : o \in LeftIn(w)}}
          \/ line \in UNION {LinesOf(w, g) : g \in UNION {o.goal : o \in LeftIn(w)}}
        BY DEF VarianceLines, LeftIn, LinesOf, RowsLike
    <2>2. \E o \in LeftIn(w) :
            (\E b \in o.bank : line = BankLine(b)) \/ \E g \in o.goal : line \in LinesOf(w, g)
        BY <2>1
    <2>3. \A o \in LeftIn(w) : \E goal : o \in VarianceAnswers(w, goal)
        BY DEF LeftIn
    <2> QED BY <2>2, <2>3
<1>2. PICK o \in VarianceAnswers(w, goal) :
        (\E b \in o.bank : line = BankLine(b)) \/ \E g \in o.goal : line \in LinesOf(w, g)
    BY <1>1
<1>3. ASSUME NEW b \in o.bank, line = BankLine(b) PROVE Reported(w, line)
    <2>1. b \in BankRowsIn(w, goal)
        BY LeftAreRows
    <2>2. b \in StoredBank /\ In(w, b) /\ bank[b].resolved
        BY <1>3, <2>1 DEF Matchable, BankRowsIn, BankLine
    <2>3. line \in ResolvedReport(w)
        BY <1>3, <2>2, ReportLines
    <2> QED BY <2>3 DEF Reported
<1>4. ASSUME NEW g \in o.goal, NEW F, F = RowsLike(w, g),
             line \in GoalLines(F, {fund[f].resolved : f \in F})
      PROVE  Reported(w, line)
    <2>1. PICK x \in F, tag \in TagsOf(F), h \in F :
            line = [source |-> "GOAL", id |-> <<x.code, x.type>>, tag |-> tag,
                    resolved |-> fund[h].resolved]
        BY <1>4 DEF GoalLines
    <2>2. fund[h].resolved /\ line = [source |-> "GOAL", id |-> <<x.code, x.type>>, tag |-> tag,
                                      resolved |-> fund[h].resolved]
        BY <2>1
    <2>3. PICK H : H = AlikeIn(h, ResolvedRows(w))
        OBVIOUS
    <2>4. \A f \in F : f \in FundRow /\ f \in StoredFund /\ In(w, f) /\ f.code = g.code /\ f.type = g.type
        BY <1>4 DEF RowsLike, Matchable, FundRowsIn, StoredFund
    <2>5. h \in H /\ h \in ResolvedRows(w)
        BY <2>2, <2>3, <2>4 DEF AlikeIn, ResolvedRows
    <2>6. line.source = "GOAL" /\ line.id = <<h.code, h.type>> /\ line.tag = tag
        BY <2>2, <2>4
    <2>7. ASSUME NEW y \in H, y \notin F PROVE fund[y].tag \in ReversalTags(line)
        <3>1. y \in FundRow /\ y \in StoredFund /\ In(w, y) /\ y.code = h.code /\ y.type = h.type
            BY <2>3, <2>7 DEF AlikeIn, ResolvedRows, StoredFund
        <3>2. y.goal = g.goal
            <4>1. y.goal = h.goal
                BY <2>4, <3>1, RowAssumption
            <4> QED BY <1>4, <4>1 DEF RowsLike, Matchable, FundRowsIn
        <3>3. y.code = g.code /\ y.type = g.type
            BY <2>4, <3>1
        <3>4. y.reversal
            BY <1>4, <2>7, <3>1, <3>2, <3>3 DEF RowsLike, Matchable, FundRowsIn
        <3> QED BY <2>6, <3>1, <3>4 DEF ReversalTags
    <2>8. PICK shown \in TagsOf(H) : shown \in {line.tag} \union ReversalTags(line)
        <3>1. CASE \A f \in F : fund[f].tag = NULL
            <4>1. tag = NULL
                BY <3>1 DEF TagsOf
            <4>2. CASE \A y \in H : fund[y].tag = NULL
                <5>1. NULL \in TagsOf(H)
                    BY <4>2 DEF TagsOf
                <5> QED BY <2>6, <4>1, <5>1
            <4>3. ASSUME NEW y \in H, fund[y].tag # NULL
                  PROVE  \E t \in TagsOf(H) : t \in {line.tag} \union ReversalTags(line)
                <5>1. y \notin F
                    BY <3>1, <4>3
                <5>2. fund[y].tag \in TagsOf(H)
                    BY <4>3, TagsShown
                <5> QED BY <2>7, <5>1, <5>2
            <4> QED BY <4>2, <4>3
        <3>2. ASSUME NEW f \in F, fund[f].tag # NULL PROVE tag \in TagsOf(H)
            <4>1. PICK t \in F : fund[t].tag = tag
                BY <3>2, TagsShown
            <4>2. tag # NULL
                BY <3>2 DEF TagsOf
            <4>3. t.code = h.code /\ t \in FundRow /\ h \in FundRow
                BY <2>4
            <4>4. CASE fund[t].resolved
                <5>1. t \in H
                    BY <2>3, <2>4, <4>4 DEF AlikeIn, ResolvedRows
                <5> QED BY <4>1, <4>2, <5>1, TagsShown
            <4>5. CASE ~fund[t].resolved
                <5>1. fund[h].tag = tag
                    BY <2>2, <4>1, <4>2, <4>3, <4>5 DEF CodesTagged
                <5> QED BY <2>5, <4>2, <5>1, TagsShown
            <4> QED BY <4>4, <4>5
        <3> QED BY <2>6, <3>1, <3>2
    <2>9. PICK entry : entry = [source |-> "GOAL", id |-> <<h.code, h.type>>, tag |-> shown,
                                resolved |-> TRUE]
        OBVIOUS
    <2>10. entry \in GoalLines(H, {TRUE})
        <3>1. \E f \in H, t \in TagsOf(H), yes \in {TRUE} :
                entry = [source |-> "GOAL", id |-> <<f.code, f.type>>, tag |-> t, resolved |-> yes]
            BY <2>5, <2>8, <2>9
        <3> QED BY <3>1, LineIn
    <2>11. entry \in ResolvedReport(w)
        BY <2>3, <2>5, <2>10, ReportLines
    <2>12. entry.source = "GOAL" /\ entry.id = <<h.code, h.type>> /\ entry.tag = shown
        BY <2>9
    <2> QED BY <2>6, <2>8, <2>11, <2>12 DEF Reported
<1> QED BY <1>2, <1>3, <1>4 DEF LinesOf

\* The report shows no more lines of a tag than the statistics count as resolved.
TaggedBank(tag) == {b \in StoredBank : bank[b].tag = tag}
TaggedFund(tag) == {f \in StoredFund : fund[f].tag = tag}

LEMMA ReportIsCounted ==
    ASSUME TypeOK, NEW w, NEW tag
    PROVE  Cardinality({line \in ResolvedReport(w) : line.tag = tag}) <= Statistics(tag).resolved
<1> DEFINE A == {b \in TaggedBank(tag) : bank[b].resolved}
           F == {f \in TaggedFund(tag) : fund[f].resolved}
           lines == {line \in ResolvedReport(w) : line.tag = tag}
           bankLine == [b \in A |-> BankLine(b)]
           goalLine == [f \in F |-> [source |-> "GOAL", id |-> <<f.code, f.type>>, tag |-> tag,
                                     resolved |-> TRUE]]
           Y == {line \in lines : \E b \in A : bankLine[b] = line}
           Z == {line \in lines : \E f \in F : goalLine[f] = line}
<1>1. IsFiniteSet(A) /\ IsFiniteSet(F)
    <2>1. A \in SUBSET BankTxn /\ F \in SUBSET FundRow
        BY DEF TaggedBank, TaggedFund, StoredBank, StoredFund
    <2> HIDE DEF A, F
    <2> QED BY <2>1, TablesFinite
<1>2. \A line \in lines : line \in Y \union Z
    <2> SUFFICES ASSUME NEW line \in ResolvedReport(w), line.tag = tag
                 PROVE  (\E b \in A : bankLine[b] = line) \/ (\E f \in F : goalLine[f] = line)
        OBVIOUS
    <2>1. ASSUME NEW b \in StoredBank, bank[b].resolved, line = BankLine(b)
          PROVE  \E c \in A : bankLine[c] = line
        <3>1. bank[b].tag = tag
            BY <2>1 DEF BankLine
        <3>2. b \in A
            BY <2>1, <3>1 DEF TaggedBank
        <3> QED BY <2>1, <3>2
    <2>2. ASSUME NEW f \in ResolvedRows(w), NEW H, H = AlikeIn(f, ResolvedRows(w)),
                 line \in GoalLines(H, {TRUE})
          PROVE  \E h \in F : goalLine[h] = line
        <3>1. PICK x \in H, t \in TagsOf(H) :
                line = [source |-> "GOAL", id |-> <<x.code, x.type>>, tag |-> t, resolved |-> TRUE]
            BY <2>2 DEF GoalLines
        <3>2. t = tag
            BY <3>1
        <3>3. PICK h \in H : fund[h].tag = tag
            BY <3>1, <3>2, TagsShown
        <3>4. /\ h \in StoredFund /\ fund[h].resolved
              /\ h.code = x.code /\ h.type = x.type
            BY <2>2 DEF AlikeIn, ResolvedRows
        <3>5. h \in F
            BY <3>3, <3>4 DEF TaggedFund
        <3> QED BY <3>1, <3>2, <3>4, <3>5
    <2> QED BY <2>1, <2>2, ReportLines
<1>3. (\A y \in Y : \E b \in A : bankLine[b] = y) /\ (\A z \in Z : \E f \in F : goalLine[f] = z)
    OBVIOUS
<1>4. Y \union Z = lines
    BY <1>2
<1>5. Statistics(tag).resolved = Cardinality(A) + Cardinality(F)
    BY DEF Statistics, TaggedBank, TaggedFund
<1> HIDE DEF A, F, lines, bankLine, goalLine, Y, Z
<1>6. IsFiniteSet(Y) /\ Cardinality(Y) \in Nat /\ Cardinality(A) \in Nat
      /\ Cardinality(Y) <= Cardinality(A)
    BY <1>1, <1>3, ImageSize
<1>7. IsFiniteSet(Z) /\ Cardinality(Z) \in Nat /\ Cardinality(F) \in Nat
      /\ Cardinality(Z) <= Cardinality(F)
    BY <1>1, <1>3, ImageSize
<1>8. Cardinality(Y \union Z) \in Nat /\ Cardinality(Y \union Z) <= Cardinality(Y) + Cardinality(Z)
    BY <1>6, <1>7, UnionSize
<1>9. Cardinality(Y \union Z) <= Cardinality(A) + Cardinality(F)
    BY <1>6, <1>7, <1>8
<1> QED BY <1>4, <1>5, <1>9 DEF lines

\* The statistics count at most what is open as pending.
LEMMA PendingIsOpen ==
    ASSUME NEW tag
    PROVE  Statistics(tag).pending <=
             Cardinality({b \in StoredBank : bank[b].tag = tag /\ ~bank[b].resolved})
             + Cardinality(Codes({f \in StoredFund : fund[f].tag = tag /\ ~fund[f].resolved}))
<1> DEFINE T == TaggedBank(tag)
           A == {b \in T : bank[b].resolved}
           R == TaggedFund(tag)
           F == {f \in R : fund[f].resolved}
           code == [f \in R |-> f.code]
<1>1. IsFiniteSet(T) /\ IsFiniteSet(R)
    <2>1. T \in SUBSET BankTxn /\ R \in SUBSET FundRow
        BY DEF TaggedBank, TaggedFund, StoredBank, StoredFund
    <2> HIDE DEF T, R
    <2> QED BY <2>1, TablesFinite
<1>2. A \in SUBSET T /\ F \in SUBSET R
    OBVIOUS
<1>3. /\ {b \in StoredBank : bank[b].tag = tag /\ ~bank[b].resolved} = T \ A
      /\ {f \in StoredFund : fund[f].tag = tag /\ ~fund[f].resolved} = R \ F
    BY DEF TaggedBank, TaggedFund
<1>4. Statistics(tag).pending =
        (Cardinality(T) + Cardinality(Codes(R))) - (Cardinality(A) + Cardinality(F))
    BY DEF Statistics, TaggedBank, TaggedFund
<1>5. /\ \A c \in Codes(F) : \E f \in F : code[f] = c
      /\ \A c \in Codes(R \ F) : \E f \in R \ F : code[f] = c
      /\ Codes(R) = Codes(F) \union Codes(R \ F)
    BY DEF Codes
<1> HIDE DEF T, A, R, F, code
<1>6. /\ Cardinality(T) = Cardinality(A) + Cardinality(T \ A)
      /\ Cardinality(A) \in Nat /\ Cardinality(T \ A) \in Nat
    BY <1>1, <1>2, PartSize
<1>7. IsFiniteSet(F) /\ IsFiniteSet(R \ F)
    BY <1>1, <1>2, PartSize
<1>8. /\ IsFiniteSet(Codes(F)) /\ Cardinality(Codes(F)) \in Nat /\ Cardinality(F) \in Nat
      /\ Cardinality(Codes(F)) <= Cardinality(F)
    BY <1>5, <1>7, ImageSize
<1>9. IsFiniteSet(Codes(R \ F)) /\ Cardinality(Codes(R \ F)) \in Nat
    BY <1>5, <1>7, ImageSize
<1>10. /\ Cardinality(Codes(R)) \in Nat
       /\ Cardinality(Codes(R)) <= Cardinality(Codes(F)) + Cardinality(Codes(R \ F))
    BY <1>5, <1>8, <1>9, UnionSize
<1>11. Statistics(tag).pending <= Cardinality(T \ A) + Cardinality(Codes(R \ F))
    BY <1>4, <1>6, <1>8, <1>9, <1>10
<1> QED BY <1>3, <1>11

\* The list, the report and the statistics agree on what is resolved.
LEMMA ResolvedHolds == ASSUME TypeOK, CodesTagged, NEW w PROVE ResolvedAgrees(w)
<1>1. ASSUME NEW line \in VarianceLines(w), Shows(line, "ALL", "ALL", "RESOLVED")
      PROVE  Reported(w, line)
    <2>1. line.resolved
        BY <1>1 DEF Shows
    <2> QED BY <2>1, ResolvedAreReported
<1> QED BY <1>1, ReportIsCounted, PendingIsOpen DEF ResolvedAgrees, Reported

\* The review pages, the lists, the comparison, the report and the statistics agree with
\* each other at all times (SmartMatcher, VarianceResolutionService,
\* BankTransactionRepository and the route of the comparison read the same tables, each in
\* its own way).
THEOREM ViewsAgree == Spec => []ReviewViewsAgree
<1>1. TypeOK /\ CodesTagged => ReviewViewsAgree
    BY ProgressHolds, MissingHolds, FiltersHold, SumsHold, PagesHold, ResolvedHolds, CandidatesLink
       DEF ReviewViewsAgree
<1>2. Spec => [](Shaped /\ CodesTagged)
    BY InitShaped, NextShaped, InitCodesTagged, NextCodesTagged, PTL DEF Spec
<1> QED BY <1>1, <1>2, TypeCorrect, PTL
=============================================================================

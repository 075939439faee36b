--------------------------- MODULE SmartMatching ---------------------------
(***************************************************************************)
(* The matching rules of SmartMatcher, VarianceResolutionService and       *)
(* runReconciliation, as functions of the rows they read.                  *)
(*                                                                         *)
(* A bank row is a record [id, goal, type, txn, day, amount, funds,        *)
(* reversal], a fund row [id, goal, code, type, txn, day, fund, amount,    *)
(* reversal].  "funds" gives the bank amount of every fund.  Amounts are   *)
(* in UGX, days are numbered.  "reversal" says that the transactionId of a *)
(* bank row, or the source of a fund row, is that of a transfer reversal   *)
(* or a rate change.                                                       *)
(***************************************************************************)
EXTENDS Integers, Sequences, FiniteSetsExt, SequencesExt

MinTolerance == 1000        \* AMOUNT_TOLERANCE_MIN
DateWindow == 30            \* DATE_WINDOW_DAYS
TimingTolerance == 3        \* TIMING_TOLERANCE_DAYS
FundCode == {"XUMMF", "XUBF", "XUDEF", "XUREF"}

Magnitude(x) == IF x < 0 THEN -x ELSE x
Larger(x, y) == IF x < y THEN y ELSE x
Smaller(x, y) == IF x < y THEN x ELSE y

\* A hundred times the tolerance max(base * 1%, least).  Callers that do not take
\* the magnitude of a negative base are left with the least.
Allowed(base, least) == Larger(base, 100 * least)
Near(x, y, base) == 100 * Magnitude(x - y) <= Allowed(base, MinTolerance)
Agrees(x, y, base) == Near(x, y, Magnitude(base))

Total(R) == SumFunction([r \in R |-> r.amount])
DaysApart(x, y) == Magnitude(x.day - y.day)
In(window, r) == r.day \in window.from .. window.to

-----------------------------------------------------------------------------
(* Goal transactions: fund rows grouped by code and type *)

GoalTxn(code, type, F) ==
    LET group == {f \in F : f.code = code /\ f.type = type}
        first == CHOOSE f \in group : TRUE       \* the code fixes day and id
    IN  [code |-> code, type |-> type, goal |-> first.goal, txn |-> first.txn,
         day |-> first.day, amount |-> Total(group), rows |-> group]
GoalTxns(F) == {GoalTxn(f.code, f.type, F) : f \in F}

\* Rows come ordered by date, latest first; rows of one day in any order.
LatestFirst(R) ==
    {s \in SetToSeqs(R) : \A i, j \in DOMAIN s : i < j => s[i].day >= s[j].day}

-----------------------------------------------------------------------------
(* findCombinationSum, over rows R of a list s *)

Earlier(s, x, y) == \E i, j \in DOMAIN s : i < j /\ s[i] = x /\ s[j] = y
\* The list sorted by amount, the largest first; the sort is stable.
Before(s, x, y) == x.amount > y.amount \/ (x.amount = y.amount /\ Earlier(s, x, y))

Hits(T, target, base) == T # {} /\ Near(Total(T), target, base)
\* The greedy loop ends with T: a row is taken if it fits in with those taken before it,
\* until they hit.
TakenGreedily(s, R, T, target, base) == \A x \in R :
    LET before == {y \in T : Before(s, y, x)}
    IN  x \in T <=> /\ ~Hits(before, target, base)
                    /\ 100 * (Total(before) + x.amount - target) <= Allowed(base, MinTolerance)
GreedyHits(s, R, target, base) ==
    {T \in SUBSET R : TakenGreedily(s, R, T, target, base) /\ Hits(T, target, base)}

\* The first subset, in the order of the bit masks, of two or more of the ten largest.
Place(s, R, x) == Cardinality({y \in R : Before(s, y, x)})
TenLargest(s, R) == {x \in R : Place(s, R, x) < 10}
Bit == <<1, 2, 4, 8, 16, 32, 64, 128, 256, 512>>
Mask(s, R, T) == SumFunction([x \in T |-> Bit[Place(s, R, x) + 1]])
SubsetHits(s, R, target, base) ==
    LET hits == {T \in SUBSET TenLargest(s, R) : Cardinality(T) > 1 /\ Hits(T, target, base)}
    IN  {T \in hits : \A U \in hits : Mask(s, R, T) <= Mask(s, R, U)}

\* The greedy prefix goes before any subset.
Either(A, B) == IF A # {} THEN A ELSE B
OneOf(sets) == IF sets = {} THEN {} ELSE CHOOSE T \in sets : TRUE

\* Mutant: the subset search is left out.
CombinationGreedy(s, R, target, base) == OneOf(GreedyHits(s, R, target, base))

\* The greedy prefix if it hits, which may be one row; else a subset, if there is one.
CombinationSum(s, R, target, base) ==
    OneOf(Either(GreedyHits(s, R, target, base), SubsetHits(s, R, target, base)))

-----------------------------------------------------------------------------
(* The passes of getGoalTransactions.  "read" is what was read: bank rows   *)
(* and goal transactions in order, and the match columns of the bank rows.  *)
(* found is what has been matched so far.                                   *)

MatchFound(B, G, kind) == [banks |-> B, goals |-> G, kind |-> kind]
BanksOf(found) == UNION {m.banks : m \in found}
GoalsOf(found) == UNION {m.goals : m \in found}
OpenBanks(found, read) == ToSet(read.banks) \ BanksOf(found)
OpenGoals(found, read) == ToSet(read.goals) \ GoalsOf(found)
FirstOf(s, R) == {x \in R : \A y \in R \ {x} : Earlier(s, x, y)}

\* Rows under one manual code, with those of its goal transactions that were read.
ManualFinds(found, b, read) ==
    LET G == {g \in OpenGoals(found, read) : g.code \in read.match[b].codes}
        B == {c \in OpenBanks(found, read) : read.match[c] = read.match[b]}
    IN  IF read.match[b].kind = "manual" /\ G # {} THEN {MatchFound(B, G, "MANUAL")} ELSE {}

\* The same transactionId: only the first candidate's amount is looked at.
SameTxn(found, b, read) ==
    {g \in OpenGoals(found, read) : g.txn = b.txn /\ g.type = b.type}
ExactFinds(found, b, read) ==
    {MatchFound({b}, {g}, "EXACT") :
        g \in {h \in FirstOf(read.goals, SameTxn(found, b, read)) :
                 Near(b.amount, h.amount, h.amount)}}
\* ... or that of all of them.
AnyExactFinds(found, b, read) ==
    {MatchFound({b}, {g}, "EXACT") :
        g \in FirstOf(read.goals, {h \in SameTxn(found, b, read) :
                                     Near(b.amount, h.amount, h.amount)})}

InDateWindow(b, g) ==
    g.type = b.type /\ DaysApart(b, g) <= DateWindow /\ Near(b.amount, g.amount, g.amount)

\* Mutant: goal transactions that are matched already are tried again.
AmountFindsAgain(found, b, read) ==
    {MatchFound({b}, {g}, "AMOUNT") :
        g \in FirstOf(read.goals, {h \in ToSet(read.goals) : InDateWindow(b, h)})}

AmountFinds(found, b, read) ==
    {MatchFound({b}, {g}, "AMOUNT") :
        g \in FirstOf(read.goals, {h \in OpenGoals(found, read) : InDateWindow(b, h)})}

\* A pass over splits takes no single row.
Several(R) == IF Cardinality(R) > 1 THEN {R} ELSE {}
SameDay(x, y) == x.day = y.day /\ x.type = y.type

\* Several bank rows of one day make up a goal transaction.
SplitBankFinds(found, g, read) ==
    {MatchFound(B, {g}, "SPLIT_BANK_TO_FUND") :
        B \in Several(CombinationSum(read.banks, {b \in OpenBanks(found, read) : SameDay(b, g)},
                                     g.amount, g.amount))}

\* Several goal transactions of one day make up a bank row.
SplitGoalFinds(found, b, read) ==
    {MatchFound({b}, G, "SPLIT_FUND_TO_BANK") :
        G \in Several(CombinationSum(read.goals, {g \in OpenGoals(found, read) : SameDay(g, b)},
                                     b.amount, b.amount))}

\* What a pass finds for one bank row, or one goal transaction, that is not matched yet.
Finds(pass, found, x, read) ==
    CASE pass = "manual" /\ x \in OpenBanks(found, read) -> ManualFinds(found, x, read)
      [] pass = "exact" /\ x \in OpenBanks(found, read) -> ExactFinds(found, x, read)
      [] pass = "any exact" /\ x \in OpenBanks(found, read) -> AnyExactFinds(found, x, read)
      [] pass = "amount" /\ x \in OpenBanks(found, read) -> AmountFinds(found, x, read)
      [] pass = "split bank" /\ x \in OpenGoals(found, read) -> SplitBankFinds(found, x, read)
      [] pass = "split goal" /\ x \in OpenBanks(found, read) -> SplitGoalFinds(found, x, read)
      [] OTHER -> {}

Turns(pass, read) == IF pass = "split bank" THEN read.goals ELSE read.banks
Pass(pass, found, read) ==
    LET turns == Turns(pass, read)
        after[i \in 0..Len(turns)] ==
            IF i = 0 THEN found
            ELSE LET before == after[i - 1]
                 IN  before \union Finds(pass, before, turns[i], read)
    IN  after[Len(turns)]

\* getGoalTransactions
DrilldownMatches(read) ==
    LET manual == Pass("manual", {}, read)
        exact == Pass("exact", manual, read)
        amount == Pass("amount", exact, read)
        split == Pass("split bank", amount, read)
    IN  Pass("split goal", split, read)

\* getVarianceTransactions: every candidate's amount is looked at in the second
\* pass, and no bank row is made up of several goal transactions.
VarianceMatches(read) ==
    LET manual == Pass("manual", {}, read)
        exact == Pass("any exact", manual, read)
        amount == Pass("amount", exact, read)
    IN  Pass("split bank", amount, read)

-----------------------------------------------------------------------------
(* Other rules on amounts and dates *)

\* createManualMatch: 1% of the bank total, or one shilling.
ManualTotalsAgree(bankTotal, goalTotal) ==
    100 * Magnitude(bankTotal - goalTotal) <= Allowed(bankTotal, 1)

\* linkReversal: one goal, opposite types, amounts that cancel out.
CanNet(b, c) == b.goal = c.goal /\ b.type # c.type /\ b.amount + c.amount = 0

\* What runReconciliation and matchTransaction look a bank row up by.
SameKey(b, F) == {f \in F : f.goal = b.goal /\ f.txn = b.txn}
\* Of several rows of one fund both see the last they read.
LastRead(same) ==
    LET funds == {f.fund : f \in same}
    IN  {row \in [funds -> same] : \A k \in funds : row[k].fund = k}
Held(row, k) == IF k \in DOMAIN row THEN row[k].amount ELSE 0
Gap(b, row, k) == Magnitude(b.funds[k] - Held(row, k))

\* runReconciliation: the verdict on a bank row.
Verdicts(b, F) ==
    LET same == SameKey(b, F)
        off(row) == \E k \in FundCode :
            Gap(b, row, k) > MinTolerance
                /\ 100 * Gap(b, row, k) > Larger(Held(row, k), 1)
    IN  IF same = {} THEN {"MISSING_IN_FUND"}
        ELSE IF ~Agrees(b.amount, Total(same), Total(same)) THEN {"VARIANCE_DETECTED"}
        ELSE {IF off(row) THEN "AUTO_APPROVED" ELSE "MATCHED" : row \in LastRead(same)}

-----------------------------------------------------------------------------
(* BankReconciliationMatcher, the rules of the older service *)

OlderWindow == 4            \* dateDays
Severity(gap) ==
    CASE gap < 1000 -> "LOW"
      [] gap \in 1000..9999 -> "MEDIUM"
      [] gap \in 10000..49999 -> "HIGH"
      [] gap >= 50000 -> "CRITICAL"

\* detectVariances, when the totals agree: the date against the first fund row read,
\* and every fund that has fund rows.
OlderVariances(b, first, row) ==
    LET days == DaysApart(b, first)
        off == {k \in FundCode :
                  Held(row, k) # 0 /\ 100 * Gap(b, row, k) > Magnitude(Held(row, k))}
    IN  {[of |-> "date", severity |-> IF d <= OlderWindow THEN "LOW" ELSE "MEDIUM",
          approved |-> d <= OlderWindow] : d \in {days} \ {0}}
        \union
        {[of |-> k, severity |-> Severity(Gap(b, row, k)),
          approved |-> /\ Severity(Gap(b, row, k)) = "LOW"
                       /\ 50 * Gap(b, row, k) <= Magnitude(Held(row, k))] : k \in off}

\* determineStatus
OlderStatus(variances) ==
    CASE variances = {} -> "MATCHED"
      [] variances # {} /\ \A v \in variances :
            v.approved /\ v.severity \notin {"HIGH", "CRITICAL"} -> "AUTO_APPROVED"
      [] OTHER -> "MANUAL_REVIEW"

\* matchTransaction
OlderVerdicts(b, F) ==
    LET same == SameKey(b, F)
    IN  IF same = {} THEN {"MISSING_IN_FUND"}
        ELSE IF ~Agrees(b.amount, Total(same), Total(same)) THEN {"VARIANCE_DETECTED"}
        ELSE {OlderStatus(OlderVariances(b, first, row)) :
                first \in same, row \in LastRead(same)}

\* findMatchingGoalTransaction, findMatchingBankTransaction: the same id, or any row of
\* that type in the date window, with an amount that agrees.
Counterpart(x, others) == \E y \in others :
    /\ y.goal = x.goal /\ y.type = x.type
    /\ y.txn = x.txn \/ DaysApart(x, y) <= DateWindow
    /\ Agrees(x.amount, y.amount, x.amount)
\* find*WithinTimingTolerance
InTime(x, others) == \E y \in others :
    /\ y.goal = x.goal /\ y.type = x.type /\ y.txn = x.txn
    /\ DaysApart(x, y) <= TimingTolerance
    /\ Agrees(x.amount, y.amount, x.amount)
=============================================================================

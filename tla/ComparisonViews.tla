--------------------------- MODULE ComparisonViews ---------------------------
(***************************************************************************)
(* What the pages of the reconciliation show, as functions of the tables   *)
(* Reconciliation keeps: the goal, fund and account lists, the review      *)
(* status of a goal, the list of unmatched transactions, the transactions  *)
(* page, its comparison with the fund rows, and candidates for reversals.  *)
(* Nothing here writes.  Searches and wording are left out, and so is      *)
(* paging where the sums shown are those of all pages.                     *)
(***************************************************************************)
EXTENDS Reconciliation

CONSTANTS
    AccountOf,      \* the account of each goal
    PageLimit       \* groups on a page of the comparison

ASSUME AccountAssumption == DOMAIN AccountOf = Goal
ASSUME PageAssumption == PageLimit \in Nat \ {0}

Type == {"DEPOSIT", "WITHDRAWAL"}
OfType(R, type) == {r \in R : r.type = type}
\* The sums of the two sides of each entry of R, per type or per fund.
AddUp(R, K) ==
    [bank |-> [k \in K |-> SumFunction([e \in R |-> e.line.bank[k]])],
     goal |-> [k \in K |-> SumFunction([e \in R |-> e.line.goal[k]])]]
\* The sum of the bank rows in a fund.
InFund(k, B) == SumFunction([b \in B |-> b.funds[k]])
Active(window) ==
    {r.goal : r \in {x \in Matchable(StoredBank \union StoredFund) : In(window, x)}}

-----------------------------------------------------------------------------
(* Rows that no row of the other side has the transactionId of, and what of *)
(* them counts as reviewed                                                  *)

SameId(b, f) == f.goal = b.goal /\ f.txn = b.txn /\ f.type = b.type
VarianceBank(window, goal) ==
    LET F == FundRowsIn(window, goal)
    IN  {b \in BankRowsIn(window, goal) : ~\E f \in F : SameId(b, f)}
VarianceFund(window, goal) ==
    LET B == BankRowsIn(window, goal)
    IN  {f \in FundRowsIn(window, goal) : ~\E b \in B : SameId(b, f)}

\* Mutant: a list of codes is not taken apart.
ReferencedAlone(c, goal) == \E b \in StoredBank :
    b.goal = goal /\ bank[b].match = GoalMatch({c})
\* A bank row's match names the code, alone or in a list.
Referenced(c, goal) == \E b \in StoredBank : b.goal = goal /\ c \in bank[b].match.codes

ReviewedBank(b) == bank[b].tag # NULL \/ bank[b].match # NoMatch
Codes(F) == {f.code : f \in F}

\* Mutant: a code with any tagged row counts as reviewed.
UntaggedCodes(F) ==
    Codes({f \in F : ~Referenced(f.code, f.goal)}) \ Codes({f \in F : fund[f].tag # NULL})
\* getGoalSummary: distinct codes, so that one with tagged and untagged rows is both.
UnreviewedCodes(F) == Codes({f \in F : fund[f].tag = NULL /\ ~Referenced(f.code, f.goal)})
ReviewedCodes(F) == Codes({f \in F : fund[f].tag # NULL \/ Referenced(f.code, f.goal)})

-----------------------------------------------------------------------------
(* getGoalSummary, getGoalReviewStatus *)

TypeLine(window, goal) ==
    LET B == BankRowsIn(window, goal)
        F == FundRowsIn(window, goal)
    IN  [bank |-> [type \in Type |-> Total(OfType(B, type))],
         goal |-> [type \in Type |-> Total(OfType(F, type))]]
GoalStatus(line) ==
    IF \E type \in Type : ~Near(line.bank[type], line.goal[type], line.goal[type])
    THEN "VARIANCE" ELSE "MATCHED"

ReviewProgress(status, pending, reviewed) ==
    IF status = "MATCHED" \/ pending + reviewed = 0 THEN "NOT_APPLICABLE"
    ELSE IF pending = 0 THEN "REVIEWED"
    ELSE IF reviewed > 0 THEN "PARTIALLY_REVIEWED" ELSE "UNREVIEWED"

GoalEntry(window, goal) ==
    LET B == VarianceBank(window, goal)
        F == VarianceFund(window, goal)
        line == TypeLine(window, goal)
        status == GoalStatus(line)
        pending == Cardinality({b \in B : ~ReviewedBank(b)}) + Cardinality(UnreviewedCodes(F))
        reviewed == Cardinality({b \in B : ReviewedBank(b)}) + Cardinality(ReviewedCodes(F))
    IN  [goal |-> goal, line |-> line, status |-> status, pending |-> pending, reviewed |-> reviewed,
         review |-> ReviewProgress(status, pending, reviewed)]

Passes(e, filter) ==
    CASE filter = "ALL" -> TRUE
      [] filter \in {"MATCHED", "VARIANCE"} -> e.status = filter
      [] filter = "REVIEWED" -> e.review = "REVIEWED"
      [] filter = "UNREVIEWED" -> e.review \in {"UNREVIEWED", "PARTIALLY_REVIEWED"}
      [] filter = "PARTIAL" -> e.review = "PARTIALLY_REVIEWED"
GoalList(window, filter) ==
    {e \in {GoalEntry(window, g) : g \in Active(window)} : Passes(e, filter)}
\* The sums shown above the list are those of its pages together.
GoalTotals(window, filter) ==
    AddUp(GoalList(window, filter), Type)

\* The goal's own page counts groups of one code and one tag.
StatusPage(window, goal) ==
    LET B == VarianceBank(window, goal)
        groups == {<<f.code, fund[f].tag>> : f \in VarianceFund(window, goal)}
        open == {g \in groups : g[2] = NULL /\ ~Referenced(g[1], goal)}
        total == Cardinality(B) + Cardinality(groups)
        pending == Cardinality({b \in B : ~ReviewedBank(b)}) + Cardinality(open)
    IN  [total |-> total, pending |-> pending,
         status |-> IF total = 0 THEN "NO_VARIANCES"
                    ELSE IF pending = 0 THEN "FULLY_REVIEWED"
                    ELSE IF pending < total THEN "PARTIALLY_REVIEWED" ELSE "PENDING"]

-----------------------------------------------------------------------------
(* getFundSummary, getAccountFundSummary: per fund, deposits and withdrawals *)
(* together                                                                  *)

FundLine(window, goal) ==
    LET B == BankRowsIn(window, goal)
        F == FundRowsIn(window, goal)
    IN  [bank |-> [k \in FundCode |-> InFund(k, B)],
         goal |-> [k \in FundCode |-> Total({f \in F : f.fund = k})]]
LineStatus(line) ==
    IF \E k \in FundCode : ~Agrees(line.bank[k], line.goal[k], line.goal[k])
    THEN "VARIANCE" ELSE "MATCHED"
FundEntry(window, goal) ==
    LET line == FundLine(window, goal)
    IN  [goal |-> goal, line |-> line, status |-> LineStatus(line)]
FundList(window, filter) ==
    {e \in {FundEntry(window, g) : g \in Active(window)} : filter \in {"ALL", e.status}}
FundTotals(window, filter) ==
    AddUp(FundList(window, filter), FundCode)

\* The tolerance is applied to the account's sums; its goals are counted one by one.
AccountEntry(window, account) ==
    LET goals == {e \in FundList(window, "ALL") : AccountOf[e.goal] = account}
        off == {e \in goals : e.status = "VARIANCE"}
        line == AddUp(goals, FundCode)
    IN  [account |-> account, line |-> line, status |-> LineStatus(line),
         matched |-> Cardinality(goals \ off), variance |-> Cardinality(off)]
AccountList(window, filter) ==
    {e \in {AccountEntry(window, AccountOf[g]) : g \in Active(window)} :
        filter \in {"ALL", e.status}}
AccountTotals(window, filter) ==
    AddUp(AccountList(window, filter), FundCode)

-----------------------------------------------------------------------------
(* getVarianceTransactions *)

\* Goals whose totals differ by more than the least tolerance, or with one side only.
SuspectGoals(window) == {g \in Active(window) :
    LET B == BankRowsIn(window, g)
        F == FundRowsIn(window, g)
    IN  \/ B = {} \/ F = {}
        \/ \E type \in Type :
              Magnitude(Total(OfType(B, type)) - Total(OfType(F, type))) > MinTolerance}

\* The leftovers of one goal, for each order of its rows, earliest first.
VarianceAnswers(window, goal) ==
    LET B == BankRowsIn(window, goal)
        G == GoalTxns(FundRowsIn(window, goal))
        Reversed(R) == {Reverse(s) : s \in LatestFirst(R)}
        match == [b \in B |-> bank[b].match]
        answers == {VarianceMatches([banks |-> bs, goals |-> gs, match |-> match]) :
                       bs \in Reversed(B), gs \in Reversed(G)}
    IN  {[bank |-> B \ BanksOf(found), goal |-> G \ GoalsOf(found)] : found \in answers}

-----------------------------------------------------------------------------
(* The lines of getVarianceTransactions and their filters,                  *)
(* getResolvedVariancesReport and getResolutionStats                        *)

BankLine(b) == [source |-> "BANK", id |-> <<b.id, b.type>>, tag |-> bank[b].tag,
                resolved |-> bank[b].resolved]
\* Rows of one goal transaction show a tag that one of them has.
TagsOf(F) == LET tags == {fund[f].tag : f \in F} \ {NULL}
             IN  IF tags = {} THEN {NULL} ELSE tags
GoalLines(F, Resolved) ==
    {[source |-> "GOAL", id |-> <<f.code, f.type>>, tag |-> tag, resolved |-> r] :
        f \in F, tag \in TagsOf(F), r \in Resolved}

\* Whether it is resolved is that of the row read first.
VarianceLines(window) ==
    LET left == UNION {VarianceAnswers(window, g) : g \in SuspectGoals(window)}
        rows(g) == {f \in FundRowsIn(window, g.goal) : f.code = g.code /\ f.type = g.type}
    IN  {BankLine(b) : b \in UNION {o.bank : o \in left}}
        \union UNION {GoalLines(rows(g), {fund[f].resolved : f \in rows(g)}) :
                        g \in UNION {o.goal : o \in left}}
Shows(line, source, review, resolution) ==
    /\ source \in {"ALL", line.source}
    /\ review \in {"ALL", IF line.tag = NULL THEN "PENDING" ELSE "REVIEWED"}
    /\ resolution \in {"ALL", IF line.resolved THEN "RESOLVED" ELSE "PENDING"}

ResolvedReport(window) ==
    LET rows == {f \in StoredFund : fund[f].resolved /\ In(window, f)}
    IN  {BankLine(b) : b \in {c \in StoredBank : bank[c].resolved /\ In(window, c)}}
        \union UNION {GoalLines({h \in rows : h.code = f.code /\ h.type = f.type}, {TRUE}) :
                        f \in rows}

\* Codes are counted as tagged, but rows as resolved.
Statistics(tag) ==
    LET tagged == {b \in StoredBank : bank[b].tag = tag}
        rows == {f \in StoredFund : fund[f].tag = tag}
        total == Cardinality(tagged) + Cardinality(Codes(rows))
        resolved == Cardinality({b \in tagged : bank[b].resolved})
                    + Cardinality({f \in rows : fund[f].resolved})
    IN  [total |-> total, resolved |-> resolved, pending |-> total - resolved]

-----------------------------------------------------------------------------
(* The transactions page, and the comparison of bank rows with fund rows of *)
(* the same goal and transactionId, of any type and date                    *)

\* getAllTransactions, with the sums over all pages.
TransactionsPage(window) ==
    LET rows == {b \in StoredBank : In(window, b)}
    IN  [count |-> Cardinality(rows), amount |-> Total(rows),
         funds |-> [k \in FundCode |-> InFund(k, rows)],
         deposits |-> Total(OfType(rows, "DEPOSIT")),
         withdrawals |-> Magnitude(Total(OfType(rows, "WITHDRAWAL")))]

\* The filter is applied to rows before they are grouped.
Preselected(window, filter) == {b \in StoredBank : In(window, b) /\
    CASE filter = "ALL" -> TRUE
      [] filter = "MATCHED" -> bank[b].match # NoMatch \/ bank[b].status = "MATCHED"
      [] filter \in {"VARIANCE_DETECTED", "MISSING_IN_FUND"} ->
            bank[b].match = NoMatch /\ bank[b].status # "MATCHED"
      [] OTHER -> bank[b].status = filter}
Groups(R) == {{c \in R : c.goal = b.goal /\ c.txn = b.txn} : b \in R}

SameIds(group) == UNION {SameKey(b, StoredFund) : b \in group}
AmountStatus(group) ==
    LET same == SameIds(group)
    IN  IF same = {} THEN "MISSING_IN_FUND"
        ELSE IF Near(Total(group), Total(same), Total(same)) THEN "MATCHED"
        ELSE "VARIANCE_DETECTED"
\* A match that any row of the group has counts as one of the group.
ShownStatus(group) ==
    IF \E b \in group : bank[b].match # NoMatch THEN "MATCHED" ELSE AmountStatus(group)

\* The page of each of the groups G: the latest groups first, those of one day in any
\* order, and every page but the last full.
TotalPages(G) == (Cardinality(G) + PageLimit - 1) \div PageLimit
FirstDay(group) == Min({r.day : r \in group})
Pagings(G) == {page \in [G -> 1..TotalPages(G)] : \A g \in G :
    /\ Cardinality({h \in G : page[h] < page[g]}) = PageLimit * (page[g] - 1)
    /\ Cardinality({h \in G : page[h] = page[g]}) <= PageLimit
    /\ \A h \in G : FirstDay(h) > FirstDay(g) => page[h] <= page[g]}
OnPage(page, k) == {g \in DOMAIN page : page[g] = k}

\* ... and to the groups of a page once more, which may leave a page empty.
Passing(G, filter) == {group \in G : filter \in {"ALL", ShownStatus(group)}}
Comparison(window, filter) == Passing(Groups(Preselected(window, filter)), filter)

\* The figures above the list: sums and counts of the groups that page k shows.
ComparisonFigures(page, k, filter) ==
    LET shown == Passing(OnPage(page, k), filter)
        count(status) == Cardinality({group \in shown : ShownStatus(group) = status})
    IN  [bank |-> SumFunction([group \in shown |-> Total(group)]),
         fund |-> SumFunction([group \in shown |-> Total(SameIds(group))]),
         matched |-> count("MATCHED"), variance |-> count("VARIANCE_DETECTED"),
         missing |-> count("MISSING_IN_FUND")]

\* The pages of this filter are read apart; they start from the fund rows.
MissingInBank(window) ==
    LET rows == {f \in StoredFund : In(window, f)}
    IN  {group \in {{h \in rows : h.goal = f.goal /\ h.txn = f.txn} : f \in rows} :
           ~\E f \in group : \E b \in StoredBank : f.goal = b.goal /\ f.txn = b.txn}

\* The export filters by the stored status and looks at no match.
Export(window, filter) ==
    LET rows == {b \in StoredBank : In(window, b) /\ filter \in {"ALL", bank[b].status}}
    IN  {[group |-> group, status |-> AmountStatus(group)] : group \in Groups(rows)}

\* findReversalCandidates
ReversalCandidates(b, window) == {c \in StoredBank \ {b} :
    /\ c.goal = b.goal /\ c.amount = -b.amount
    /\ c.type = IF b.type = "DEPOSIT" THEN "WITHDRAWAL" ELSE "DEPOSIT"
    /\ bank[c].match = NoMatch /\ bank[c].tag # "REVERSAL_NETTED"
    /\ ~c.reversal /\ In(window, c)}

-----------------------------------------------------------------------------
(* Properties *)

\* Nothing that could be matched is left over, in whatever order the rows were read:
\* no bank row and goal transaction of one type that agree and lie within the date
\* window, and no rows of one day that make up a goal transaction.  So it is for a
\* drilldown and, for the same goal, for the list of unmatched transactions.
NoneLeft(B, G) == \A g \in G :
    /\ \A b \in B :
          b.type = g.type /\ DaysApart(b, g) <= DateWindow => ~Near(b.amount, g.amount, g.amount)
    /\ \A R \in SUBSET {b \in B : SameDay(b, g)} :
          Cardinality(R) > 1 => ~Near(Total(R), g.amount, g.amount)
NothingLeftToMatch == \A q \in Matched :
    /\ NoneLeft(DOMAIN tasks[q].seen \ BanksOf(tasks[q].found),
                tasks[q].goals \ GoalsOf(tasks[q].found))
    /\ alone = q => \A left \in VarianceAnswers(tasks[q].window, tasks[q].goal) :
          NoneLeft(left.bank, left.goal)

\* What a drilldown matched counts as reviewed in the summary of the goal, and is shown
\* as matched by the comparison of transactions under every filter, unless another
\* request has come between.
SummaryKnowsMatches == \A q \in Drilldowns : tasks[q].pc = "ok" /\ alone = q =>
    \A m \in tasks[q].found :
        /\ \A g \in m.goals : Referenced(g.code, g.goal)
        /\ \A b \in m.banks :
             /\ ReviewedBank(b)
             /\ \A w \in Window : \A group \in Comparison(w, "ALL") : b \in group =>
                  ShownStatus(group) = "MATCHED" /\ b \in UNION Comparison(w, "MATCHED")

\* The goal list and the goal's own page agree on what is left to review, in numbers
\* and in progress, also when rows of one goal transaction carry different tags.
ProgressAgrees(w) == \A e \in GoalList(w, "ALL") :
    LET page == StatusPage(w, e.goal) IN
    /\ e.pending = page.pending
    /\ e.status = "VARIANCE" =>
         /\ Passes(e, "REVIEWED") <=> page.status = "FULLY_REVIEWED"
         /\ Passes(e, "PARTIAL") <=> page.status = "PARTIALLY_REVIEWED"
         /\ Passes(e, "UNREVIEWED") <=> page.status \in {"PENDING", "PARTIALLY_REVIEWED"}

\* Whatever the comparison calls missing on a side is an open variance of its goal, but
\* for rows of reversals, which the comparison shows and the goal's own page does not.
MissingAgrees(w) ==
    /\ \A group \in Comparison(w, "MISSING_IN_FUND") : \A b \in group :
         /\ bank[b].match = NoMatch
         /\ b \in VarianceBank(w, b.goal) <=> ~b.reversal
    /\ \A group \in MissingInBank(w) : \A f \in group :
         f \in VarianceFund(w, f.goal) <=> ~f.reversal

\* A group is shown as missing under the filter too, but for rows whose stored status is
\* MATCHED; one with a match under the filter is part of one that is shown as matched.
FiltersAgree(w) ==
    LET all == Comparison(w, "ALL") IN
    /\ \A group \in all : ShownStatus(group) = "MISSING_IN_FUND" =>
         LET rows == {b \in group : bank[b].status # "MATCHED"}
         IN  rows # {} => rows \in Comparison(w, "MISSING_IN_FUND")
    /\ \A group \in Comparison(w, "MATCHED") : (\E b \in group : bank[b].match # NoMatch) =>
         \E whole \in all : group \subseteq whole /\ ShownStatus(whole) = "MATCHED"

\* The sums of the goal, fund and account lists are those of the transactions page less
\* the rows of reversals.
ListsAgree(w) ==
    LET page == TransactionsPage(w)
        types == GoalTotals(w, "ALL")
        funds == FundTotals(w, "ALL")
        reversals == {b \in StoredBank : In(w, b) /\ b.reversal}
        left(type) == Total(OfType(reversals, type))
    IN  /\ page.deposits = types.bank["DEPOSIT"] + left("DEPOSIT")
        /\ page.withdrawals = Magnitude(types.bank["WITHDRAWAL"] + left("WITHDRAWAL"))
        /\ \A k \in FundCode : page.funds[k] = funds.bank[k] + InFund(k, reversals)
        /\ AccountTotals(w, "ALL") = funds

\* The figures of the comparison's pages add up to the amount of the transactions page, if
\* groups of one day keep their order from page to page; a page counts each of its groups
\* under one status.
PagesAgree(w) == \A paging \in Pagings(Groups(Preselected(w, "ALL"))) :
    LET pages == 1..TotalPages(Groups(Preselected(w, "ALL")))
        figures == [k \in pages |-> ComparisonFigures(paging, k, "ALL")]
    IN  /\ SumFunction([k \in pages |-> figures[k].bank]) = TransactionsPage(w).amount
        /\ \A k \in pages : figures[k].matched + figures[k].variance + figures[k].missing
                              = Cardinality(OnPage(paging, k))

\* The tags of the reversals among the rows of a line.
ReversalTags(line) ==
    {fund[f].tag : f \in {h \in StoredFund : h.reversal /\ <<h.code, h.type>> = line.id}}
\* What the list of unmatched transactions shows as resolved is on the report of the
\* period with the same tag, or that of a reversal, which the report takes for a row of
\* the goal transaction; the statistics count at least the lines of the report as
\* resolved, and no more as pending than rows and codes with a row that is not resolved.
ResolvedAgrees(w) ==
    /\ \A line \in VarianceLines(w) : Shows(line, "ALL", "ALL", "RESOLVED") =>
         \E shown \in ResolvedReport(w) :
            /\ shown.source = line.source /\ shown.id = line.id
            /\ shown.tag \in {line.tag} \union ReversalTags(line)
    /\ \A tag \in Tag :
         /\ Cardinality({line \in ResolvedReport(w) : line.tag = tag}) <= Statistics(tag).resolved
         /\ Statistics(tag).pending <=
              Cardinality({b \in StoredBank : bank[b].tag = tag /\ ~bank[b].resolved})
              + Cardinality(Codes({f \in StoredFund : fund[f].tag = tag /\ ~fund[f].resolved}))
AnyResolved == (\E b \in BankTxn : bank[b].resolved) \/ (\E f \in FundRow : fund[f].resolved)

\* The pages agree with each other on progress, on what is missing, on sums (but for the
\* reversals that the matching leaves out) and on what is resolved, and a reversal that is
\* offered can be linked.
ReviewViewsAgree ==
    /\ \A w \in Window :
         /\ ProgressAgrees(w) /\ MissingAgrees(w) /\ FiltersAgree(w)
         /\ ListsAgree(w) /\ PagesAgree(w)
         /\ AnyResolved => ResolvedAgrees(w)
         /\ \A b \in StoredBank : \A c \in ReversalCandidates(b, w) : CanNet(b, c)
=============================================================================

------------------------------ MODULE Reports ------------------------------
(***************************************************************************)
(* What users are shown of the stored transactions: fund prices and their  *)
(* Redis cache, the two materialized views, the unit registry, the         *)
(* dashboard and the lists of fund and goal transactions.  Every report is *)
(* put together from several statements, each of which reads the database  *)
(* at its own time.                                                        *)
(*                                                                         *)
(* Transactions come and go batch by batch.  A batch comes in a worker     *)
(* that refreshes the views afterwards, a rollback deletes it in the API   *)
(* and does the same, a cancel deletes it and does not.                    *)
(***************************************************************************)
EXTENDS Integers, Sequences, FiniteSetsExt, SequencesExt

CONSTANTS
    Batch,          \* upload batches
    Row,            \* fund transactions: [id, batch, account, holder, code, type, fund,
                    \* day, units, amount]; the holder is the account of the row's goal,
                    \* units and amount of a withdrawal are negative
    Opening,        \* batches stored at the start
    Fund,           \* fund codes
    Day,            \* days of prices and transactions
    Today,          \* the day of the registry as of a date; files may hold later ones
    FirstPrice,     \* prices stored at the start
    Kind,           \* [account -> [type, category]]
    FileFund,       \* fund codes price files name
    File,           \* price files
    Change,         \* what processes do to batches: [kind, batch]
    Refresher,      \* processes that change batches or refresh views, each used once
    Writer,         \* requests that change prices, each used once
    Deletes,        \* prices users delete: <<fund, day>>
    Reader,         \* users who look at reports, over and over
    Ask,            \* reports each of them asks for
    Crew,           \* the processes and users that may meet: sets of the three kinds
    Limit,          \* rows of a page
    Faults,         \* what may fail: "redis", "db", "crash"
    NULL            \* no value

Account == DOMAIN Kind
Threshold == 5000

ASSUME DataAssumption ==
    /\ Day \subseteq Int /\ IsFiniteSet(Day) /\ Today \in Day
    /\ Opening \subseteq Batch
    /\ IsFiniteSet(Row) /\ IsFiniteSet(Fund) /\ IsFiniteSet(Account)      \* tables
    /\ \A r \in Row : /\ r.batch \in Batch /\ {r.account, r.holder} \subseteq Account
                      /\ r.fund \in Fund /\ r.day \in Day
                      /\ r.units \in Int /\ r.amount \in Int
    /\ \A r, s \in Row : r.id = s.id => r = s                         \* the primary key
    /\ Deletes \subseteq Fund \X Day
    /\ Limit \in Nat \ {0}
    /\ Crew \subseteq SUBSET (Refresher \union Writer \union Reader)
    /\ Faults \subseteq {"redis", "db", "crash"}

ASSUME ChangeAssumption ==
    Change \subseteq [kind : {"import", "rollback", "cancel", "refresh"}, batch : Batch]

VARIABLES
    stored,     \* batches whose rows are in fund_transactions
    prices,     \* fund_prices: mid, bid and offer by fund and day
    cache,      \* fund:prices:latest in Redis, with whether it expires
    views,      \* the batches each materialized view was computed from
    refreshes,  \* the processes that change batches and refresh views
    writers,    \* the requests that change prices
    readers,    \* the reports asked for
    missed,     \* history: a view was left behind
    tainted,    \* history: the cache was left behind
    steady      \* history: readers since whose question no table or view has changed

vars == <<stored, prices, cache, views, refreshes, writers, readers, missed, tainted,
          steady>>
database == <<stored, prices, views>>

-----------------------------------------------------------------------------
(* Rows, prices and values *)

RowsOf(B) == {r \in Row : r.batch \in B}
Sum(R, Value(_)) == SumFunction([r \in R |-> Value(r)])
Value(R, mid) ==
    Sum(Fund, LAMBDA f : Sum({r \in R : r.fund = f}, LAMBDA r : r.units) * mid[f])
\* What the view adds up goes by the account a row names, what the registry of a past
\* day adds up by the account of the row's goal.
ByAccount(R, mid) == [a \in Account |-> Value({r \in R : r.account = a}, mid)]
ByHolder(R, mid) == [a \in Account |-> Value({r \in R : r.holder = a}, mid)]

Price == [bid : Nat, mid : Nat, offer : Nat]
Ordered(p) == p.bid <= p.mid /\ p.mid <= p.offer

\* The mid price of the latest of some days; 0 for a fund without a price.
MidOf(Days) == [f \in Fund |->
    LET days == {d \in Days : prices[f][d] # NULL}
    IN  IF days = {} THEN 0 ELSE prices[f][Max(days)].mid]
\* Future prices count.
Latest == MidOf(Day)
\* Mutant: prices of the day itself are left out.
PricesBefore(day) == MidOf({d \in Day : d < day})
\* getLatestPrices(asOfDate)
PricesAsOf(day) == MidOf({d \in Day : d <= day})

\* The accounts of a registry answer: all, or those worth the threshold.
Funded(value) == value >= Threshold
Shown(A, worth, funded) == {a \in A : funded => Funded(worth[a])}
Total(A, worth) == Sum(A, LAMBDA a : worth[a])

\* Mutant: an account worth just the threshold is left out.
WorthMore(value) == value > Threshold
\* The dashboard's WHERE clause.
Worth(value) == value >= Threshold

CategoryOf(a) ==
    CASE Kind[a].type = "PERSONAL" /\ Kind[a].category = "GENERAL" -> "Personal"
      [] Kind[a].type = "POOLED" /\ Kind[a].category = "GENERAL" -> "Corporate"
      [] Kind[a].category = "INVESTMENT_CLUBS" -> "Investment Clubs"
      [] Kind[a].category = "RETIREMENTS_BENEFIT_SCHEME" -> "Retirement Benefits Schemes"
      [] Kind[a].category = "SACCO" -> "SACCO"
      [] OTHER -> "Other"

-----------------------------------------------------------------------------
(* FundPriceParser *)

\* Three tabs of prices by fund and day, 0 where a cell is empty: what has a bid price
\* and all three prices in order.
FromTabs(tabs) ==
    LET line(c) == [fund |-> c[1], day |-> c[2], bid |-> tabs.bid[c],
                    mid |-> tabs.mid[c], offer |-> tabs.offer[c]]
    IN  {line(c) : c \in {d \in DOMAIN tabs.bid : /\ tabs.bid[d] > 0
                                                  /\ tabs.mid[d] > 0 /\ tabs.offer[d] > 0
                                                  /\ Ordered(line(d))}}
\* Rows of one price each: what is complete and in order, in the order of the file.
Kept(rows) == {i \in DOMAIN rows : rows[i].complete /\ Ordered(rows[i])}
FromRows(rows) ==
    LET places == 1 .. Cardinality(Kept(rows))
        inOrder == {at \in [places -> Kept(rows)] :
                       \A k, m \in places : k < m => at[k] < at[m]}
    IN  {[k \in places |-> rows[at[k]]] : at \in inOrder}
Parsed(file) ==
    IF file.form = "tabs" THEN SetToSeqs(FromTabs(file.tabs)) ELSE FromRows(file.rows)

\* A line of a price file.
PriceLine == [fund : FileFund, day : Day, bid : Nat, mid : Nat, offer : Nat]
SheetRow == [fund : FileFund, day : Day, bid : Nat, mid : Nat, offer : Nat,
             complete : BOOLEAN]

ASSUME PriceAssumption ==
    /\ FirstPrice \in [Fund -> [Day -> Price \union {NULL}]]
    /\ \A file \in File :
          IF file.form = "tabs"
          THEN \E Cell \in SUBSET (FileFund \X Day) :
                  /\ IsFiniteSet(Cell)
                  /\ file.tabs \in [{"bid", "mid", "offer"} -> [Cell -> Nat]]
          ELSE file.rows \in Seq(SheetRow)

-----------------------------------------------------------------------------
(* Processes *)

NoCache == [value |-> NULL, expires |-> FALSE]
NewRefresh == [change |-> NULL, pc |-> "idle", snapshot |-> {}]
NewWriter == [pc |-> "idle", lines |-> <<>>, found |-> FALSE,
              inserted |-> 0, updated |-> 0, failed |-> 0]
NewReader == [report |-> NULL, pc |-> "idle", funded |-> FALSE, mid |-> NULL,
              count |-> 0, page |-> {}, sum |-> 0, all |-> 0, flows |-> NULL]

Init ==
    /\ stored = Opening
    /\ prices = FirstPrice
    /\ cache = NoCache
    /\ views = [goals |-> Opening, balances |-> Opening]
    /\ \E crew \in Crew :
          /\ refreshes = [r \in Refresher |-> IF r \in crew THEN NewRefresh
                                              ELSE [NewRefresh EXCEPT !.pc = "done"]]
          /\ writers = [u \in Writer |-> IF u \in crew THEN NewWriter
                                         ELSE [NewWriter EXCEPT !.pc = "done"]]
          /\ readers = [q \in Reader |-> IF q \in crew THEN NewReader
                                         ELSE [NewReader EXCEPT !.pc = "away"]]
    /\ missed = {} /\ tainted = FALSE /\ steady = {}

Refresh(r, change) == refreshes' = [refreshes EXCEPT ![r] = change]
Writing(u, change) == writers' = [writers EXCEPT ![u] = change]
Reading(q, change) == readers' = [readers EXCEPT ![q] = change]
InRefresh(r, pc) == refreshes[r].pc = pc
InWriter(u, pc) == writers[u].pc = pc
InReader(q, report, pc) == readers[q].report = report /\ readers[q].pc = pc

-----------------------------------------------------------------------------
(* Batches and views: FundFileProcessor, BatchRollbackService, cancel, and  *)
(* POST /unit-registry/refresh                                             *)

ChangeBatch(r, c) ==
    /\ InRefresh(r, "idle") /\ c \in Change
    /\ CASE c.kind = "import" -> c.batch \notin stored /\ stored' = stored \union {c.batch}
         [] c.kind \in {"rollback", "cancel"} -> c.batch \in stored /\ stored' = stored \ {c.batch}
         [] c.kind = "refresh" -> stored' = stored
    /\ Refresh(r, [NewRefresh EXCEPT !.change = c, !.pc =
           CASE c.kind = "cancel" -> "done"
             [] c.kind = "refresh" -> "balances"
             [] OTHER -> "goals"])
    /\ missed' = IF c.kind = "cancel" THEN {"goals", "balances"} ELSE missed
    /\ steady' = IF c.kind = "refresh" THEN steady ELSE {}
    /\ UNCHANGED <<prices, cache, views, writers, readers, tainted>>

\* REFRESH MATERIALIZED VIEW CONCURRENTLY: one at a time for each view, from one
\* snapshot, while readers see what was there before.
BeginRefresh(r, view, next) ==
    /\ InRefresh(r, view)
    /\ \A s \in Refresher : ~InRefresh(s, next)
    /\ Refresh(r, [refreshes[r] EXCEPT !.pc = next, !.snapshot = stored])
    /\ UNCHANGED <<stored, prices, cache, views, writers, readers, missed, tainted, steady>>
EndRefresh(r, view, pc, next) ==
    /\ InRefresh(r, pc)
    /\ views' = [views EXCEPT ![view] = refreshes[r].snapshot]
    /\ missed' = IF refreshes[r].snapshot = stored THEN missed \ {view} ELSE missed
    /\ Refresh(r, [refreshes[r] EXCEPT !.pc = next, !.snapshot = {}])
    /\ steady' = {}
    /\ UNCHANGED <<stored, prices, cache, writers, readers, tainted>>
\* A refresh that fails is noted, and the next view has its turn.
FailRefresh(r, view, pc, next) ==
    /\ "db" \in Faults
    /\ InRefresh(r, pc)
    /\ missed' = missed \union {view}
    /\ Refresh(r, [refreshes[r] EXCEPT !.pc = next, !.snapshot = {}])
    /\ UNCHANGED <<stored, prices, cache, views, writers, readers, tainted, steady>>

RefreshGoals(r) ==
    \/ BeginRefresh(r, "goals", "goals held")
    \/ EndRefresh(r, "goals", "goals held", "balances")
    \/ FailRefresh(r, "goals", "goals held", "balances")
RefreshBalances(r) ==
    \/ BeginRefresh(r, "balances", "balances held")
    \/ EndRefresh(r, "balances", "balances held", "done")
    \/ FailRefresh(r, "balances", "balances held", "done")

\* Mutant: refreshAllViews forgets the second view.
RefreshOne(r) ==
    \/ BeginRefresh(r, "goals", "goals held")
    \/ EndRefresh(r, "goals", "goals held", "done")
    \/ FailRefresh(r, "goals", "goals held", "done")
RefreshAll(r) == RefreshGoals(r)

\* The process dies with the refresh not done.
RefreshCrash(r) ==
    /\ "crash" \in Faults
    /\ refreshes[r].pc \notin {"idle", "done"}
    /\ missed' = missed \union {"goals", "balances"}
    /\ Refresh(r, [refreshes[r] EXCEPT !.pc = "done", !.snapshot = {}])
    /\ UNCHANGED <<stored, prices, cache, views, writers, readers, tainted, steady>>

-----------------------------------------------------------------------------
(* Prices: uploadPrices line by line, deletePrice *)

BeginUpload(u, file) ==
    /\ InWriter(u, "idle")
    /\ \E lines \in Parsed(file) :
          /\ lines # <<>>           \* the parser throws when nothing is left
          /\ Writing(u, [NewWriter EXCEPT !.pc = "line", !.lines = lines])
    /\ UNCHANGED <<database, cache, refreshes, readers, missed, tainted, steady>>

Line(u) == Head(writers[u].lines)
\* Mutant: what was found for a line is still there for the next.
RestKept(u) == [writers[u] EXCEPT !.lines = Tail(@), !.pc = "line"]
Rest(u) == [writers[u] EXCEPT !.lines = Tail(@), !.pc = "line", !.found = FALSE]
RefuseLine(u) ==
    /\ InWriter(u, "line") /\ writers[u].lines # <<>>
    /\ ~(Line(u).fund \in Fund /\ Ordered(Line(u)))
    /\ Writing(u, [Rest(u) EXCEPT !.failed = @ + 1])
    /\ UNCHANGED <<database, cache, refreshes, readers, missed, tainted, steady>>
FindPrice(u) ==
    /\ InWriter(u, "line") /\ writers[u].lines # <<>>
    /\ Line(u).fund \in Fund /\ Ordered(Line(u))
    /\ Writing(u, [writers[u] EXCEPT !.pc = "write",
                       !.found = prices[Line(u).fund][Line(u).day] # NULL])
    /\ UNCHANGED <<database, cache, refreshes, readers, missed, tainted, steady>>

WritePrice(u) ==
    /\ InWriter(u, "write")
    /\ LET p == Line(u) IN
       /\ writers[u].found = (prices[p.fund][p.day] # NULL)
       /\ prices' = [prices EXCEPT ![p.fund][p.day] =
                        [bid |-> p.bid, mid |-> p.mid, offer |-> p.offer]]
    /\ Writing(u, IF writers[u].found THEN [Rest(u) EXCEPT !.updated = @ + 1]
                                      ELSE [Rest(u) EXCEPT !.inserted = @ + 1])
    /\ steady' = {}
    /\ UNCHANGED <<stored, views, cache, refreshes, readers, missed, tainted>>
\* A row that has gone, or come, since it was looked up fails the line; so does the
\* database.
FailLine(u) ==
    /\ InWriter(u, "write")
    /\ \/ writers[u].found # (prices[Line(u).fund][Line(u).day] # NULL)
       \/ "db" \in Faults
    /\ Writing(u, [Rest(u) EXCEPT !.failed = @ + 1])
    /\ UNCHANGED <<database, cache, refreshes, readers, missed, tainted, steady>>

\* CacheService.delete reports success or failure and throws neither.
DropCache ==
    \/ cache' = NoCache /\ tainted' = FALSE
    \/ "redis" \in Faults /\ tainted' = TRUE /\ UNCHANGED cache

\* Mutant: prices that were only corrected leave the cache alone.
EndUploadInserted(u) ==
    /\ InWriter(u, "line") /\ writers[u].lines = <<>>
    /\ IF writers[u].inserted > 0 THEN DropCache ELSE UNCHANGED <<cache, tainted>>
    /\ Writing(u, [writers[u] EXCEPT !.pc = "done"])
    /\ UNCHANGED <<database, refreshes, readers, missed, steady>>
EndUpload(u) ==
    /\ InWriter(u, "line") /\ writers[u].lines = <<>>
    /\ IF writers[u].inserted > 0 \/ writers[u].updated > 0
       THEN DropCache ELSE UNCHANGED <<cache, tainted>>
    /\ Writing(u, [writers[u] EXCEPT !.pc = "done"])
    /\ UNCHANGED <<database, refreshes, readers, missed, steady>>

DeletePrice(u, f, d) ==
    /\ InWriter(u, "idle")
    /\ <<f, d>> \in Deletes /\ prices[f][d] # NULL
    /\ prices' = [prices EXCEPT ![f][d] = NULL]
    /\ Writing(u, [NewWriter EXCEPT !.pc = "drop"])
    /\ steady' = {}
    /\ UNCHANGED <<stored, views, cache, refreshes, readers, missed, tainted>>
EndDelete(u) ==
    /\ InWriter(u, "drop")
    /\ DropCache
    /\ Writing(u, [writers[u] EXCEPT !.pc = "done"])
    /\ UNCHANGED <<database, refreshes, readers, missed, steady>>

\* The API dies between a change of prices and the cache.
WriterCrash(u) ==
    /\ "crash" \in Faults
    /\ writers[u].pc \notin {"idle", "done"}
    /\ tainted' = TRUE
    /\ Writing(u, [writers[u] EXCEPT !.pc = "done", !.lines = <<>>, !.found = FALSE])
    /\ UNCHANGED <<database, cache, refreshes, readers, missed, steady>>

\* Redis drops a key when its time to live is over.
Expire ==
    /\ cache.expires
    /\ cache' = NoCache /\ tainted' = FALSE
    /\ UNCHANGED <<database, refreshes, writers, readers, missed, steady>>

-----------------------------------------------------------------------------
(* Unit registry *)

Ask1(q, report, reader) ==
    /\ readers[q].pc = "idle" /\ report \in Ask[q]
    /\ Reading(q, [reader EXCEPT !.report = report])
    /\ steady' = steady \union {q}
    /\ UNCHANGED <<database, cache, refreshes, writers, missed, tainted>>
Step(q, reader) ==
    /\ Reading(q, reader)
    /\ UNCHANGED <<database, cache, refreshes, writers, missed, tainted, steady>>

\* A cache that cannot be read is a cache without the key.
BeginRegistry(q, funded) ==
    \/ /\ cache.value # NULL
       /\ Ask1(q, "registry", [NewReader EXCEPT !.pc = "count", !.funded = funded,
                                                !.mid = cache.value])
    \/ /\ cache.value = NULL \/ "redis" \in Faults
       /\ Ask1(q, "registry", [NewReader EXCEPT !.pc = "prices", !.funded = funded])
QueryPrices(q) ==
    /\ InReader(q, "registry", "prices")
    /\ Step(q, [readers[q] EXCEPT !.pc = "fill", !.mid = Latest])

\* Mutant: the key is stored without its time to live.
FillForever(q) ==
    /\ InReader(q, "registry", "fill")
    /\ \/ /\ cache' = [value |-> readers[q].mid, expires |-> FALSE]
          /\ tainted' = (readers[q].mid # Latest)
       \/ "redis" \in Faults /\ UNCHANGED <<cache, tainted>>
    /\ Reading(q, [readers[q] EXCEPT !.pc = "count"])
    /\ UNCHANGED <<database, refreshes, writers, missed, steady>>
FillCache(q) ==
    /\ InReader(q, "registry", "fill")
    /\ \/ /\ cache' = [value |-> readers[q].mid, expires |-> TRUE]
          /\ tainted' = (readers[q].mid # Latest)
       \/ "redis" \in Faults /\ UNCHANGED <<cache, tainted>>
    /\ Reading(q, [readers[q] EXCEPT !.pc = "count"])
    /\ UNCHANGED <<database, refreshes, writers, missed, steady>>

Worths(q) == ByAccount(RowsOf(views.balances), readers[q].mid)
RegistryAccounts(q) == Shown(Account, Worths(q), readers[q].funded)
CountRegistry(q) ==
    /\ InReader(q, "registry", "count")
    /\ Step(q, [readers[q] EXCEPT !.pc = "page", !.count = Cardinality(RegistryAccounts(q))])
\* The first page; each row holds the account and its value.
Page(S, pages) == {P \in SUBSET S : Cardinality(P) = IF Cardinality(S) < pages
                                                     THEN Cardinality(S) ELSE pages}
PageRegistry(q) ==
    /\ InReader(q, "registry", "page")
    /\ \E P \in Page(RegistryAccounts(q), Limit) :
          Step(q, [readers[q] EXCEPT !.pc = "sum", !.page = {<<a, Worths(q)[a]>> : a \in P}])
SummariseRegistry(q) ==
    /\ InReader(q, "registry", "sum")
    /\ Step(q, [readers[q] EXCEPT !.pc = "done", !.sum = Total(RegistryAccounts(q), Worths(q))])

\* getUnitRegistryAsOfDate: prices, then one query over the transactions, of
\* accounts that have any; everything else is computed from its result.
BeginAsOf(q, funded) ==
    Ask1(q, "as of", [NewReader EXCEPT !.pc = "rows", !.funded = funded,
                                       !.mid = PricesAsOf(Today)])
QueryAsOf(q) ==
    /\ InReader(q, "as of", "rows")
    /\ LET R == {r \in RowsOf(stored) : r.day <= Today}
           worth == ByHolder(R, readers[q].mid)
           A == Shown({r.holder : r \in R}, worth, readers[q].funded)
       IN \E P \in Page(A, Limit) :
          Step(q, [readers[q] EXCEPT !.pc = "done", !.count = Cardinality(A),
                      !.page = {<<a, worth[a]>> : a \in P}, !.sum = Total(A, worth)])

-----------------------------------------------------------------------------
(* Dashboard: prices are not cached *)

BeginDashboard(q) ==
    Ask1(q, "dashboard", [NewReader EXCEPT !.pc = "total", !.mid = Latest])
TotalAUM(q) ==
    /\ InReader(q, "dashboard", "total")
    /\ LET A == {a \in Account : Worth(Worths(q)[a])}
       IN  Step(q, [readers[q] EXCEPT !.pc = "categories", !.count = Cardinality(A),
                                      !.sum = Total(A, Worths(q))])
\* Every account is in a category, funded or not.
Categories(q) ==
    /\ InReader(q, "dashboard", "categories")
    /\ LET aum(c) == Total({a \in Account : CategoryOf(a) = c}, Worths(q))
           C == {CategoryOf(a) : a \in Account}
       IN  Step(q, [readers[q] EXCEPT !.pc = "done",
                       !.page = {<<c, aum(c)>> : c \in C}, !.all = Sum(C, aum)])

-----------------------------------------------------------------------------
(* Fund transactions and goal transactions *)

BeginFunds(q) == Ask1(q, "funds", [NewReader EXCEPT !.pc = "count"])
CountFunds(q) ==
    /\ InReader(q, "funds", "count")
    /\ Step(q, [readers[q] EXCEPT !.pc = "page", !.count = Cardinality(RowsOf(stored))])
PageFunds(q) ==
    /\ InReader(q, "funds", "page")
    /\ \E P \in Page(RowsOf(stored), Limit) :
          Step(q, [readers[q] EXCEPT !.pc = "sum",
                      !.page = {[id |-> r.id, type |-> r.type, amount |-> r.amount] : r \in P}])
\* calculateSummary groups by type, then by fund and type: everything that is no deposit
\* counts as withdrawn, and is subtracted although it is negative as it is.
Deposited(R) == Sum({r \in R : r.type = "DEPOSIT"}, LAMBDA r : r.amount)
Withdrawn(R) == Sum({r \in R : r.type # "DEPOSIT"}, LAMBDA r : r.amount)
Flows(R) == [deposits |-> Deposited(R), withdrawals |-> Withdrawn(R),
             net |-> Deposited(R) - Withdrawn(R)]
SummariseFunds(q) ==
    /\ InReader(q, "funds", "sum")
    /\ Step(q, [readers[q] EXCEPT !.pc = "by fund", !.flows = Flows(RowsOf(stored))])
\* Mutant: withdrawals of a fund are added.
NetAdded(R) == Deposited(R) + Withdrawn(R)
NetOf(R) == Flows(R).net
Summarised == {"XUMMF", "XUBF", "XUDEF", "XUREF"}
ByFund(q) ==
    /\ InReader(q, "funds", "by fund")
    /\ LET net(f) == NetOf({r \in RowsOf(stored) : r.fund = f})
       IN  Step(q, [readers[q] EXCEPT !.pc = "done", !.all = Sum(Fund \intersect Summarised, net)])

\* The list and its totals are read at the same time, in whichever order.
GoalRows == {r.code : r \in RowsOf(views.goals)}
GoalAmount(c) == Sum({r \in RowsOf(views.goals) : r.code = c}, LAMBDA r : r.amount)
BeginGoals(q, first) ==
    /\ first \in {"list", "totals"}
    /\ Ask1(q, "goals", [NewReader EXCEPT !.pc = first])
ListGoals(q, next) ==
    /\ InReader(q, "goals", IF next = "done" THEN "list last" ELSE "list")
    /\ \E P \in Page(GoalRows, Limit) :
          Step(q, [readers[q] EXCEPT !.pc = next, !.page = {<<c, GoalAmount(c)>> : c \in P}])
TotalGoals(q, next) ==
    /\ InReader(q, "goals", IF next = "done" THEN "totals last" ELSE "totals")
    /\ Step(q, [readers[q] EXCEPT !.pc = next, !.count = Cardinality(GoalRows),
                                  !.sum = Sum(GoalRows, GoalAmount)])

\* One goal transaction and its fund rows are asked for one after the other: the first
\* comes from the view, and is not found if the view does not have it, the second from
\* the table.
BeginGoal(q) ==
    \E c \in GoalRows :
        Ask1(q, "goal", [NewReader EXCEPT !.pc = "rows", !.count = 1,
                                          !.page = {<<c, GoalAmount(c)>>}])
RowsOfGoal(q) ==
    /\ InReader(q, "goal", "rows")
    /\ LET codes == {line[1] : line \in readers[q].page}
       IN  Step(q, [readers[q] EXCEPT !.pc = "done",
                        !.sum = Sum({r \in RowsOf(stored) : r.code \in codes},
                                    LAMBDA r : r.amount)])

\* The user has seen the answer.
Close(q) ==
    /\ readers[q].pc = "done"
    /\ Reading(q, NewReader)
    /\ steady' = steady \ {q}
    /\ UNCHANGED <<database, cache, refreshes, writers, missed, tainted>>

-----------------------------------------------------------------------------
RefreshStep(r) == RefreshAll(r) \/ RefreshBalances(r)
WriterStep(u) ==
    RefuseLine(u) \/ FindPrice(u) \/ WritePrice(u) \/ FailLine(u) \/ EndUpload(u) \/ EndDelete(u)
ReaderStep(q) ==
    \/ QueryPrices(q) \/ FillCache(q)
    \/ CountRegistry(q) \/ PageRegistry(q) \/ SummariseRegistry(q)
    \/ QueryAsOf(q) \/ TotalAUM(q) \/ Categories(q)
    \/ CountFunds(q) \/ PageFunds(q) \/ SummariseFunds(q) \/ ByFund(q)
    \/ ListGoals(q, "totals last") \/ ListGoals(q, "done")
    \/ TotalGoals(q, "list last") \/ TotalGoals(q, "done")
    \/ RowsOfGoal(q)
    \/ Close(q)

Next ==
    \/ \E r \in Refresher : \/ \E c \in Change : ChangeBatch(r, c)
                            \/ RefreshStep(r) \/ RefreshCrash(r)
    \/ \E u \in Writer : \/ \E file \in File : BeginUpload(u, file)
                         \/ \E f \in Fund, d \in Day : DeletePrice(u, f, d)
                         \/ WriterStep(u) \/ WriterCrash(u)
    \/ Expire
    \/ \E q \in Reader : \/ \E funded \in BOOLEAN : \/ BeginRegistry(q, funded)
                                                    \/ BeginAsOf(q, funded)
                         \/ BeginDashboard(q) \/ BeginFunds(q) \/ BeginGoal(q)
                         \/ \E first \in {"list", "totals"} : BeginGoals(q, first)
                         \/ ReaderStep(q)

Spec == Init /\ [][Next]_vars
\* Redis drops keys in time.
FairSpec == Spec /\ WF_vars(Expire)

-----------------------------------------------------------------------------
(* Properties *)

Counts == [inserted : Nat, updated : Nat, failed : Nat]
TypeOK ==
    /\ stored \subseteq Batch
    /\ \A f \in Fund : \A d \in Day : prices[f][d] # NULL => prices[f][d] \in Price
    /\ \A v \in DOMAIN views : views[v] \subseteq Batch
    /\ \A r \in Refresher : refreshes[r].snapshot \subseteq Batch
    /\ \A u \in Writer :
          /\ writers[u].pc \in {"idle", "line", "write", "drop", "done"}
          /\ writers[u].found => writers[u].pc = "write"
          /\ [inserted |-> writers[u].inserted, updated |-> writers[u].updated,
              failed |-> writers[u].failed] \in Counts
    /\ missed \subseteq DOMAIN views /\ tainted \in BOOLEAN /\ steady \subseteq Reader

\* A cached price that is not the stored one is about to be dropped by the request that
\* changed it, unless it was cached from a query older than the change, Redis failed or
\* the API died (FundPriceService's invalidatePricesCache after every change).
CacheFollowsPrices ==
    cache.value \notin {NULL, Latest} /\ ~tainted =>
        \E u \in Writer : /\ writers[u].pc \in {"line", "write", "drop"}
                         /\ \/ writers[u].pc = "drop"
                            \/ writers[u].inserted + writers[u].updated > 0

\* However a stale price came into the cache, it does not stay: prices change finitely
\* often here, and from some time on what is cached is what is stored (the time to live
\* of FUND_PRICES_LATEST).
StaleCacheHeals == <>[](cache.value \in {NULL, Latest})

\* A view of which no refresh failed, and that no cancel left behind, shows exactly the
\* stored batches once the imports and rollbacks that change them have refreshed it
\* (refreshAllViews at the end of processFile and of rollbackBatch).
Pending(view) ==
    {r \in Refresher : \/ refreshes[r].pc = "goals" \/ InRefresh(r, "goals held")
                       \/ view = "balances" /\ refreshes[r].pc \in {view, "balances held"}}
ViewsFollowUploads ==
    \A v \in DOMAIN views : Pending(v) = {} /\ v \notin missed => views[v] = stored

Seen(q, report) == q \in steady /\ InReader(q, report, "done")

\* A list, its count and its totals come from separate statements: where nothing has
\* changed meanwhile the page is full or the count is its length, and a page of
\* everything adds up to the totals (getUnitRegistry, getGoalTransactions and
\* getAggregates) or, line by line, to the deposits, withdrawals and net cash flow, which
\* is also that of the funds together (getFundTransactions and calculateSummary).  A goal
\* transaction of a view that is up to date is worth what its fund rows are.
PageFits(answer) == Cardinality(answer.page) = Min({answer.count, Limit})
AddsUp(answer) ==
    /\ PageFits(answer)
    /\ answer.count <= Limit => answer.sum = Sum(answer.page, LAMBDA line : line[2])
FlowsAddUp(answer) ==
    /\ PageFits(answer)
    /\ answer.count <= Limit => answer.flows = Flows(answer.page)
    /\ Fund \subseteq Summarised => answer.all = answer.flows.net
AnswersAddUp ==
    \A q \in Reader :
        /\ \A report \in {"registry", "as of", "goals"} : Seen(q, report) => AddsUp(readers[q])
        /\ Seen(q, "funds") => FlowsAddUp(readers[q])
        /\ Seen(q, "goal") /\ views.goals = stored => AddsUp(readers[q])

\* The dashboard and the registry that were opened on the same data at the same prices
\* agree: total AUM and funded accounts are those of the funded registry, and the
\* categories together are the whole registry (DashboardService repeats the registry's
\* formula and threshold in SQL of its own).
DashboardAgrees ==
    \A p \in Reader : \A q \in Reader :
        Seen(p, "dashboard") /\ Seen(q, "registry") /\ readers[p].mid = readers[q].mid =>
            IF readers[q].funded
            THEN /\ readers[p].sum = readers[q].sum
                 /\ readers[p].count = readers[q].count
            ELSE readers[p].all = readers[q].sum

\* The registry as of a day, computed from the transactions and prices up to it, agrees
\* with the registry computed from a view that is up to date and at the prices of that
\* day, apart from rows dated later, which FundTransactionValidator only warns of and the
\* view counts: in total always, and for the funded accounts if no row is dated later and
\* every goal is of the account its rows name (getUnitRegistryAsOfDate against
\* getUnitRegistry).
Later(R) == {r \in R : r.day > Today}
PastPrices == MidOf({d \in Day : d <= Today})
AsOfAgrees ==
    \A p \in Reader : \A q \in Reader :
        /\ Seen(p, "as of") /\ Seen(q, "registry")
        /\ readers[p].funded = readers[q].funded
        /\ views.balances = stored /\ readers[q].mid = PastPrices
        /\ readers[p].funded => /\ Later(RowsOf(stored)) = {}
                               /\ \A r \in RowsOf(stored) : r.account = r.holder
        => readers[q].sum = readers[p].sum + Value(Later(RowsOf(stored)), PastPrices)
=============================================================================

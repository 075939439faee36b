---------------------------- MODULE Reports_proofs ----------------------------
(***************************************************************************)
(* Theorems about Reports, for any rows, prices, price files, processes,   *)
(* readers and faults: the prices cache and the materialized views follow  *)
(* the tables, and reports of the same data add up and agree.              *)
(***************************************************************************)
EXTENDS Reports, Sums

RefreshPc == {"idle", "goals", "goals held", "balances", "balances held", "done"}
RefreshRow == [change : Change \union {NULL}, pc : RefreshPc, snapshot : SUBSET Batch]
WriterPc == {"idle", "line", "write", "drop", "done"}
FileLine == PriceLine \union SheetRow
WriterRow == [pc : WriterPc, lines : Seq(FileLine), found : BOOLEAN,
              inserted : Nat, updated : Nat, failed : Nat]

\* A line that is looked up is of a fund that has prices, and of prices in order.
LineAt(u) ==
    writers[u].pc = "write" =>
        writers[u].lines # <<>> /\ Line(u).fund \in Fund /\ Ordered(Line(u))
FoundAt(u) == writers[u].found => writers[u].pc = "write"

TypeInv ==
    /\ stored \subseteq Batch
    /\ prices \in [Fund -> [Day -> Price \union {NULL}]]
    /\ views \in [{"goals", "balances"} -> SUBSET Batch]
    /\ refreshes \in [Refresher -> RefreshRow]
    /\ writers \in [Writer -> WriterRow]
    /\ \A u \in Writer : LineAt(u) /\ FoundAt(u)
    /\ missed \subseteq {"goals", "balances"}
    /\ tainted \in BOOLEAN
    /\ steady \subseteq Reader

-----------------------------------------------------------------------------
(* What each kind of step leaves alone *)

ReaderBegins(q) ==
    \/ \E funded \in BOOLEAN : BeginRegistry(q, funded) \/ BeginAsOf(q, funded)
    \/ BeginDashboard(q) \/ BeginFunds(q) \/ BeginGoal(q)
    \/ \E first \in {"list", "totals"} : BeginGoals(q, first)

WriterMoves(u) ==
    \/ \E file \in File : BeginUpload(u, file)
    \/ \E f \in Fund, d \in Day : DeletePrice(u, f, d)
    \/ WriterStep(u) \/ WriterCrash(u)

RefresherMoves(r) ==
    (\E c \in Change : ChangeBatch(r, c)) \/ RefreshStep(r) \/ RefreshCrash(r)

\* Readers change what they read and remember, and the cache only when they fill it.
LEMMA ReaderScope ==
    ASSUME NEW q \in Reader, ReaderBegins(q) \/ ReaderStep(q)
    PROVE  /\ UNCHANGED <<database, refreshes, writers, missed>>
           /\ FillCache(q) \/ UNCHANGED <<cache, tainted>>
           /\ steady' \subseteq steady \union {q}
<1>1. ASSUME NEW report, NEW reader, Ask1(q, report, reader)
      PROVE  /\ UNCHANGED <<database, refreshes, writers, missed, cache, tainted>>
             /\ steady' = steady \union {q}
  BY <1>1 DEF Ask1
<1>2. ASSUME NEW reader, Step(q, reader)
      PROVE  UNCHANGED <<database, refreshes, writers, missed, cache, tainted, steady>>
  BY <1>2 DEF Step
<1>3. CASE ReaderBegins(q)
  BY <1>1, <1>3
     DEF ReaderBegins, BeginRegistry, BeginAsOf, BeginDashboard, BeginFunds, BeginGoal,
         BeginGoals
<1>4. CASE FillCache(q)
  BY <1>4 DEF FillCache
<1>5. CASE Close(q)
  BY <1>5 DEF Close
<1>6. CASE \/ QueryPrices(q) \/ CountRegistry(q) \/ SummariseRegistry(q)
           \/ TotalAUM(q) \/ Categories(q) \/ CountFunds(q) \/ SummariseFunds(q)
           \/ ByFund(q) \/ TotalGoals(q, "list last") \/ TotalGoals(q, "done")
           \/ RowsOfGoal(q)
  BY <1>2, <1>6
     DEF QueryPrices, CountRegistry, SummariseRegistry, TotalAUM, Categories, CountFunds,
         SummariseFunds, ByFund, TotalGoals, RowsOfGoal
<1>7. CASE \/ PageRegistry(q) \/ QueryAsOf(q) \/ PageFunds(q)
           \/ ListGoals(q, "totals last") \/ ListGoals(q, "done")
  BY <1>2, <1>7 DEF PageRegistry, QueryAsOf, PageFunds, ListGoals
<1> QED BY <1>3, <1>4, <1>5, <1>6, <1>7 DEF ReaderStep

LEMMA WriterScope ==
    ASSUME NEW u \in Writer, WriterMoves(u)
    PROVE  /\ UNCHANGED <<stored, views, refreshes, readers, missed>>
           /\ steady' \in {steady, {}}
BY DEF WriterMoves, BeginUpload, DeletePrice, WriterStep, RefuseLine, FindPrice, WritePrice,
       FailLine, EndUpload, EndDelete, WriterCrash, database

LEMMA RefresherScope ==
    ASSUME NEW r \in Refresher, RefresherMoves(r)
    PROVE  /\ UNCHANGED <<prices, cache, writers, readers, tainted>>
           /\ steady' \in {steady, {}}
BY DEF RefresherMoves, ChangeBatch, RefreshStep, RefreshAll, RefreshGoals, RefreshBalances,
       BeginRefresh, EndRefresh, FailRefresh, RefreshCrash

LEMMA StepCases ==
    ASSUME [Next]_vars
    PROVE  \/ \E r \in Refresher : RefresherMoves(r)
           \/ \E u \in Writer : WriterMoves(u)
           \/ Expire
           \/ \E q \in Reader : ReaderBegins(q) \/ ReaderStep(q)
           \/ UNCHANGED vars
BY DEF Next, RefresherMoves, WriterMoves, ReaderBegins

-----------------------------------------------------------------------------
(* Types *)

LEMMA NoLines == <<>> \in Seq(FileLine)
OBVIOUS

LEMMA EnumerationType ==
    ASSUME NEW S, IsFiniteSet(S), NEW lines \in SetToSeqs(S)
    PROVE  lines \in Seq(S)
<1>1. Cardinality(S) \in Nat
  BY FS_CardinalityType
<1>2. lines \in [1 .. Cardinality(S) -> S]
  BY DEF SetToSeqs
<1> QED BY <1>1, <1>2

LEMMA TabsType ==
    ASSUME NEW Cell \in SUBSET (FileFund \X Day), IsFiniteSet(Cell),
           NEW tabs \in [{"bid", "mid", "offer"} -> [Cell -> Nat]]
    PROVE  FromTabs(tabs) \subseteq PriceLine /\ IsFiniteSet(FromTabs(tabs))
<1> DEFINE line(c) == [fund |-> c[1], day |-> c[2], bid |-> tabs.bid[c],
                       mid |-> tabs.mid[c], offer |-> tabs.offer[c]]
           Full == {d \in DOMAIN tabs.bid : /\ tabs.bid[d] > 0
                                            /\ tabs.mid[d] > 0 /\ tabs.offer[d] > 0
                                            /\ Ordered(line(d))}
<1>1. FromTabs(tabs) = {line(c) : c \in Full}
  BY DEF FromTabs
<1>2. Full \subseteq Cell
  OBVIOUS
<1>3. \A c \in Cell : line(c) \in PriceLine
  BY DEF PriceLine
<1>4. IsFiniteSet(Full)
  BY <1>2, FS_Subset
<1> HIDE DEF line, Full
<1>5. DEFINE f == [c \in Full |-> line(c)]
<1>6. f \in Surjection(Full, {line(c) : c \in Full})
  BY Zenon DEF Surjection
<1>7. IsFiniteSet({line(c) : c \in Full})
  BY <1>4, <1>6, FS_Surjection
<1> QED BY <1>1, <1>2, <1>3, <1>7

LEMMA SheetType ==
    ASSUME NEW rows \in Seq(SheetRow), NEW lines \in FromRows(rows)
    PROVE  lines \in Seq(SheetRow)
<1>1. Kept(rows) \subseteq 1 .. Len(rows) /\ Len(rows) \in Nat
  BY DEF Kept
<1>2. Cardinality(Kept(rows)) \in Nat
  <2>1. IsFiniteSet(1 .. Len(rows))
    BY <1>1, FS_Interval
  <2> QED BY <1>1, <2>1, FS_Subset, FS_CardinalityType
<1>3. PICK at \in [1 .. Cardinality(Kept(rows)) -> Kept(rows)] :
         lines = [k \in 1 .. Cardinality(Kept(rows)) |-> rows[at[k]]]
  BY DEF FromRows
<1>4. \A k \in 1 .. Cardinality(Kept(rows)) : rows[at[k]] \in SheetRow
  BY <1>1
<1> QED BY <1>2, <1>3, <1>4

LEMMA ParsedType ==
    ASSUME NEW file \in File, NEW lines \in Parsed(file)
    PROVE  lines \in Seq(FileLine)
<1>1. CASE file.form = "tabs"
  <2>1. PICK Cell \in SUBSET (FileFund \X Day) :
           IsFiniteSet(Cell) /\ file.tabs \in [{"bid", "mid", "offer"} -> [Cell -> Nat]]
    BY <1>1, PriceAssumption
  <2>2. FromTabs(file.tabs) \subseteq FileLine /\ IsFiniteSet(FromTabs(file.tabs))
    BY <2>1, TabsType DEF FileLine
  <2>3. lines \in Seq(FromTabs(file.tabs))
    BY <1>1, <2>2, EnumerationType DEF Parsed
  <2> QED BY <2>2, <2>3
<1>2. CASE file.form # "tabs"
  <2>1. file.rows \in Seq(SheetRow)
    BY <1>2, PriceAssumption
  <2>2. lines \in Seq(SheetRow)
    BY <1>2, <2>1, SheetType DEF Parsed
  <2> QED BY <2>2 DEF FileLine
<1> QED BY <1>1, <1>2

LEMMA InitType == Init => TypeInv
<1> SUFFICES ASSUME Init PROVE TypeInv
  OBVIOUS
<1>1. stored \subseteq Batch /\ prices \in [Fund -> [Day -> Price \union {NULL}]]
  BY DataAssumption, PriceAssumption DEF Init
<1>2. views \in [{"goals", "balances"} -> SUBSET Batch]
  BY DataAssumption DEF Init
<1>0. PICK crew \in Crew :
        /\ refreshes = [r \in Refresher |-> IF r \in crew THEN NewRefresh
                                            ELSE [NewRefresh EXCEPT !.pc = "done"]]
        /\ writers = [u \in Writer |-> IF u \in crew THEN NewWriter
                                       ELSE [NewWriter EXCEPT !.pc = "done"]]
  BY DEF Init
<1>3. refreshes \in [Refresher -> RefreshRow]
  <2>1. NewRefresh \in RefreshRow /\ [NewRefresh EXCEPT !.pc = "done"] \in RefreshRow
    BY DEF NewRefresh, RefreshRow, RefreshPc
  <2> QED BY <1>0, <2>1
<1>4. \A u \in Writer : writers[u] = NewWriter \/ writers[u] = [NewWriter EXCEPT !.pc = "done"]
  BY <1>0
<1>5. writers \in [Writer -> WriterRow]
  <2>1. NewWriter \in WriterRow /\ [NewWriter EXCEPT !.pc = "done"] \in WriterRow
    BY NoLines DEF NewWriter, WriterRow, WriterPc
  <2> QED BY <1>0, <2>1
<1>6. \A u \in Writer : LineAt(u) /\ FoundAt(u)
  BY <1>4 DEF NewWriter, LineAt, FoundAt
<1> QED BY <1>1, <1>2, <1>3, <1>5, <1>6 DEF Init, TypeInv

LEMMA RefresherType ==
    ASSUME TypeInv, NEW r \in Refresher, RefresherMoves(r)
    PROVE  TypeInv'
<1>1. UNCHANGED <<prices, writers, tainted>> /\ steady' \subseteq Reader
  BY RefresherScope DEF TypeInv
<1>2. \A u \in Writer : LineAt(u)' /\ FoundAt(u)'
  BY <1>1 DEF TypeInv, LineAt, FoundAt, Line
<1> SUFFICES /\ stored' \subseteq Batch /\ missed' \subseteq {"goals", "balances"}
             /\ views' \in [{"goals", "balances"} -> SUBSET Batch]
             /\ refreshes' \in [Refresher -> RefreshRow]
  BY <1>1, <1>2 DEF TypeInv
<1> USE DEF TypeInv
<1>3. ASSUME NEW change \in RefreshRow, Refresh(r, change)
      PROVE  refreshes' \in [Refresher -> RefreshRow]
  BY <1>3 DEF Refresh
<1>4. ASSUME NEW pc \in RefreshPc, NEW snapshot \in SUBSET Batch
      PROVE  [refreshes[r] EXCEPT !.pc = pc, !.snapshot = snapshot] \in RefreshRow
  BY <1>4 DEF RefreshRow
<1>5. ASSUME NEW c \in Change, ChangeBatch(r, c)
      PROVE  /\ stored' \subseteq Batch /\ missed' \subseteq {"goals", "balances"}
             /\ UNCHANGED views /\ refreshes' \in [Refresher -> RefreshRow]
  <2>1. c.kind \in {"import", "rollback", "cancel", "refresh"} /\ c.batch \in Batch
    BY ChangeAssumption
  <2>2. stored' \subseteq Batch
    BY <1>5, <2>1 DEF ChangeBatch
  <2>3. ASSUME NEW pc \in RefreshPc
        PROVE  [NewRefresh EXCEPT !.change = c, !.pc = pc] \in RefreshRow
    BY <2>3 DEF NewRefresh, RefreshRow
  <2>4. refreshes' \in [Refresher -> RefreshRow]
    <3> DEFINE pc == CASE c.kind = "cancel" -> "done"
                       [] c.kind = "refresh" -> "balances"
                       [] OTHER -> "goals"
    <3>1. pc \in RefreshPc
      BY DEF RefreshPc
    <3>2. Refresh(r, [NewRefresh EXCEPT !.change = c, !.pc = pc])
      BY <1>5 DEF ChangeBatch
    <3> HIDE DEF pc
    <3> QED BY <1>3, <2>3, <3>1, <3>2
  <2> QED BY <1>5, <2>2, <2>4 DEF ChangeBatch
<1>6. ASSUME NEW view \in {"goals", "balances"}, NEW pc \in RefreshPc, NEW next \in RefreshPc,
             \/ BeginRefresh(r, view, pc)
             \/ EndRefresh(r, view, pc, next)
             \/ FailRefresh(r, view, pc, next)
      PROVE  /\ stored' \subseteq Batch /\ missed' \subseteq {"goals", "balances"}
             /\ views' \in [{"goals", "balances"} -> SUBSET Batch]
             /\ refreshes' \in [Refresher -> RefreshRow]
  <2>1. UNCHANGED stored /\ missed' \subseteq {"goals", "balances"}
    BY <1>6 DEF BeginRefresh, EndRefresh, FailRefresh
  <2>2. views' \in [{"goals", "balances"} -> SUBSET Batch]
    BY <1>6 DEF BeginRefresh, EndRefresh, FailRefresh, RefreshRow
  <2>3. refreshes' \in [Refresher -> RefreshRow]
    BY <1>3, <1>4, <1>6 DEF BeginRefresh, EndRefresh, FailRefresh
  <2> QED BY <2>1, <2>2, <2>3
<1>7. CASE RefreshCrash(r)
  BY <1>3, <1>4, <1>7 DEF RefreshCrash, RefreshPc
<1>8. CASE RefreshStep(r)
  BY <1>6, <1>8
     DEF RefreshStep, RefreshAll, RefreshGoals, RefreshBalances, RefreshPc
<1> QED BY <1>5, <1>7, <1>8 DEF RefresherMoves

LEMMA RestType ==
    ASSUME TypeInv, NEW u \in Writer, writers[u].lines # <<>>
    PROVE  /\ Rest(u) \in WriterRow /\ Rest(u).pc = "line" /\ ~Rest(u).found
           /\ Line(u) \in FileLine
           /\ [Rest(u) EXCEPT !.failed = @ + 1] \in WriterRow
           /\ [Rest(u) EXCEPT !.updated = @ + 1] \in WriterRow
           /\ [Rest(u) EXCEPT !.inserted = @ + 1] \in WriterRow
<1>1. writers[u] \in WriterRow
  BY DEF TypeInv
<1>2. Tail(writers[u].lines) \in Seq(FileLine) /\ Line(u) \in FileLine
  BY <1>1 DEF WriterRow, Line
<1>3. Rest(u) \in WriterRow /\ Rest(u).pc = "line" /\ ~Rest(u).found
  BY <1>1, <1>2 DEF WriterRow, WriterPc, Rest
<1> QED BY <1>2, <1>3 DEF WriterRow

\* What one writer does to its own record; the others are as they were.
LEMMA WritingType ==
    ASSUME TypeInv, NEW u \in Writer, NEW change \in WriterRow, Writing(u, change),
           change.pc # "write", ~change.found
    PROVE  /\ writers' \in [Writer -> WriterRow]
           /\ \A w \in Writer : LineAt(w)' /\ FoundAt(w)'
           /\ writers'[u] = change
           /\ \A w \in Writer \ {u} : writers'[w] = writers[w]
BY DEF TypeInv, Writing, LineAt, FoundAt, Line

LEMMA WriterType ==
    ASSUME TypeInv, NEW u \in Writer, WriterMoves(u)
    PROVE  TypeInv'
<1>1. UNCHANGED <<stored, views, refreshes, missed>> /\ steady' \subseteq Reader
  BY WriterScope DEF TypeInv
<1>2. writers[u] \in WriterRow
  BY DEF TypeInv
<1> SUFFICES /\ prices' \in [Fund -> [Day -> Price \union {NULL}]]
             /\ writers' \in [Writer -> WriterRow]
             /\ \A w \in Writer : LineAt(w)' /\ FoundAt(w)'
             /\ tainted' \in BOOLEAN
  BY <1>1 DEF TypeInv
<1> DEFINE Typed == /\ writers' \in [Writer -> WriterRow]
                    /\ \A w \in Writer : LineAt(w)' /\ FoundAt(w)'
<1>3. ASSUME NEW file \in File, BeginUpload(u, file)
      PROVE  Typed /\ UNCHANGED <<prices, tainted>>
  <2>1. PICK lines \in Parsed(file) :
           Writing(u, [NewWriter EXCEPT !.pc = "line", !.lines = lines])
    BY <1>3 DEF BeginUpload
  <2>2. [NewWriter EXCEPT !.pc = "line", !.lines = lines] \in WriterRow
    BY ParsedType DEF NewWriter, WriterRow, WriterPc
  <2>3. Typed
    BY <2>1, <2>2, WritingType DEF NewWriter
  <2> QED BY <1>3, <2>3 DEF BeginUpload, database
<1>4. ASSUME NEW f \in Fund, NEW d \in Day, DeletePrice(u, f, d)
      PROVE  Typed /\ UNCHANGED tainted /\ prices' \in [Fund -> [Day -> Price \union {NULL}]]
  <2>1. [NewWriter EXCEPT !.pc = "drop"] \in WriterRow
    BY NoLines DEF NewWriter, WriterRow, WriterPc
  <2>2. Typed
    BY <1>4, <2>1, WritingType DEF DeletePrice, NewWriter
  <2>3. prices' \in [Fund -> [Day -> Price \union {NULL}]]
    BY <1>4 DEF DeletePrice, TypeInv
  <2> QED BY <1>4, <2>2, <2>3 DEF DeletePrice
<1>5. CASE RefuseLine(u)
  <2>1. Typed
    BY <1>5, RestType, WritingType DEF RefuseLine, WriterRow
  <2> QED BY <1>5, <2>1 DEF RefuseLine, database, TypeInv
<1>6. CASE FindPrice(u)
  <2>1. [writers[u] EXCEPT !.pc = "write",
                           !.found = prices[Line(u).fund][Line(u).day] # NULL] \in WriterRow
    BY <1>2 DEF WriterRow, WriterPc
  <2>2. Typed
    BY <1>6, <2>1 DEF FindPrice, Writing, LineAt, FoundAt, Line, TypeInv, WriterRow
  <2> QED BY <1>6, <2>2 DEF FindPrice, database, TypeInv
<1>7. CASE WritePrice(u)
  <2>1. writers[u].lines # <<>> /\ Line(u).fund \in Fund
    BY <1>7 DEF WritePrice, InWriter, TypeInv, LineAt
  <2>2. Line(u) \in FileLine
    BY <2>1, RestType
  <2>3. /\ Line(u).day \in Day
        /\ [bid |-> Line(u).bid, mid |-> Line(u).mid, offer |-> Line(u).offer] \in Price
    BY <2>2 DEF FileLine, PriceLine, SheetRow, Price
  <2>4. prices' \in [Fund -> [Day -> Price \union {NULL}]]
    BY <1>7, <2>1, <2>3 DEF WritePrice, TypeInv
  <2>5. Typed
    BY <1>7, <2>1, RestType, WritingType DEF WritePrice, WriterRow
  <2> QED BY <1>7, <2>4, <2>5 DEF WritePrice, TypeInv
<1>8. CASE FailLine(u)
  <2>1. writers[u].lines # <<>>
    BY <1>8 DEF FailLine, InWriter, TypeInv, LineAt
  <2>2. Typed
    BY <1>8, <2>1, RestType, WritingType DEF FailLine, WriterRow
  <2> QED BY <1>8, <2>2 DEF FailLine, database, TypeInv
<1>9. CASE EndUpload(u) \/ EndDelete(u)
  <2>1. [writers[u] EXCEPT !.pc = "done"] \in WriterRow
    BY <1>2 DEF WriterRow, WriterPc
  <2>2. ~writers[u].found
    BY <1>9 DEF EndUpload, EndDelete, InWriter, TypeInv, FoundAt
  <2>3. Typed
    BY <1>2, <1>9, <2>1, <2>2, WritingType DEF EndUpload, EndDelete, WriterRow
  <2> QED BY <1>9, <2>3 DEF EndUpload, EndDelete, DropCache, database, TypeInv
<1>10. CASE WriterCrash(u)
  <2>1. [writers[u] EXCEPT !.pc = "done", !.lines = <<>>, !.found = FALSE] \in WriterRow
    BY <1>2, NoLines DEF WriterRow, WriterPc
  <2>2. Typed
    BY <1>2, <1>10, <2>1, WritingType DEF WriterCrash, WriterRow
  <2> QED BY <1>10, <2>2 DEF WriterCrash, database, TypeInv
<1> QED BY <1>3, <1>4, <1>5, <1>6, <1>7, <1>8, <1>9, <1>10 DEF WriterMoves, WriterStep, TypeInv

LEMMA NextType == TypeInv /\ [Next]_vars => TypeInv'
<1> SUFFICES ASSUME TypeInv, [Next]_vars PROVE TypeInv'
  OBVIOUS
<1>1. ASSUME NEW q \in Reader, ReaderBegins(q) \/ ReaderStep(q)
      PROVE  TypeInv'
  <2>1. UNCHANGED <<stored, prices, views, refreshes, writers, missed>>
    BY <1>1, ReaderScope DEF database
  <2>2. tainted' \in BOOLEAN
    BY <1>1, ReaderScope DEF FillCache, TypeInv
  <2>3. steady' \subseteq Reader
    BY <1>1, ReaderScope DEF TypeInv
  <2> QED BY <2>1, <2>2, <2>3 DEF TypeInv, LineAt, FoundAt, Line
<1>2. CASE Expire
  BY <1>2 DEF Expire, database, TypeInv, LineAt, FoundAt, Line
<1>3. CASE UNCHANGED vars
  BY <1>3 DEF vars, TypeInv, LineAt, FoundAt, Line
<1> QED BY <1>1, <1>2, <1>3, StepCases, RefresherType, WriterType

\* Every state is well typed: a stored price is three natural numbers of a fund and a day, a
\* line is looked up before it is written, and the counts of an upload count up
\* (uploadPrices in FundPriceService.ts, FundPriceParser.ts, refreshAllViews).
THEOREM TypeCorrect == Spec => []TypeOK
<1>1. TypeInv => TypeOK
  BY DEF TypeInv, TypeOK, Counts, RefreshRow, WriterRow, WriterPc, FoundAt
<1> QED BY <1>1, InitType, NextType, PTL DEF Spec

-----------------------------------------------------------------------------
(* The cache follows the prices *)

\* A request that changed prices and has the cache still to drop.
Owes(u) == /\ writers[u].pc \in {"line", "write", "drop"}
           /\ \/ writers[u].pc = "drop"
              \/ writers[u].inserted + writers[u].updated > 0

LEMMA LatestKept ==
    ASSUME UNCHANGED prices
    PROVE  Latest' = Latest /\ PastPrices' = PastPrices
BY DEF Latest, PastPrices, MidOf

\* A request that changes prices owes the cache its drop, and goes on owing it.
LEMMA WriterOwes ==
    ASSUME TypeInv, NEW u \in Writer, WriterMoves(u)
    PROVE  /\ \A w \in Writer \ {u} : Owes(w) => Owes(w)'
           /\ \/ DropCache
              \/ UNCHANGED cache /\ tainted'
              \/ /\ UNCHANGED <<cache, tainted>>
                 /\ Owes(u)' \/ (UNCHANGED prices /\ ~Owes(u))
<1>0. writers \in [Writer -> WriterRow] /\ LineAt(u) /\ FoundAt(u)
  BY DEF TypeInv
<1>1. ASSUME NEW change, Writing(u, change)
      PROVE  writers'[u] = change /\ \A w \in Writer \ {u} : Owes(w) => Owes(w)'
  BY <1>0, <1>1 DEF Writing, Owes
<1>2. ASSUME NEW file \in File, BeginUpload(u, file)
      PROVE  /\ \A w \in Writer \ {u} : Owes(w) => Owes(w)'
             /\ ~Owes(u) /\ UNCHANGED <<prices, cache, tainted>>
  BY <1>1, <1>2 DEF BeginUpload, InWriter, Owes, database
<1>3. ASSUME NEW f \in Fund, NEW d \in Day, DeletePrice(u, f, d)
      PROVE  /\ \A w \in Writer \ {u} : Owes(w) => Owes(w)'
             /\ Owes(u)' /\ UNCHANGED <<cache, tainted>>
  BY <1>1, <1>3 DEF DeletePrice, Owes, NewWriter
<1>4. ASSUME RefuseLine(u) \/ FailLine(u)
      PROVE  /\ \A w \in Writer \ {u} : Owes(w) => Owes(w)'
             /\ UNCHANGED <<prices, cache, tainted>> /\ (Owes(u) => Owes(u)')
  <2>1. Writing(u, [Rest(u) EXCEPT !.failed = @ + 1])
    BY <1>4 DEF RefuseLine, FailLine
  <2>2. /\ writers'[u].pc = "line" /\ writers'[u].inserted = writers[u].inserted
        /\ writers'[u].updated = writers[u].updated
    BY <1>0, <2>1 DEF Writing, Rest, WriterRow
  <2>3. writers[u].pc # "drop"
    BY <1>4 DEF RefuseLine, FailLine, InWriter
  <2> QED BY <1>1, <1>4, <2>1, <2>2, <2>3 DEF RefuseLine, FailLine, database, Owes
<1>5. ASSUME FindPrice(u)
      PROVE  /\ \A w \in Writer \ {u} : Owes(w) => Owes(w)'
             /\ UNCHANGED <<prices, cache, tainted>> /\ (Owes(u) => Owes(u)')
  <2>1. /\ writers'[u].pc = "write" /\ writers'[u].inserted = writers[u].inserted
        /\ writers'[u].updated = writers[u].updated /\ writers[u].pc = "line"
    BY <1>0, <1>5 DEF FindPrice, InWriter, Writing, WriterRow
  <2> QED BY <1>1, <1>5, <2>1 DEF FindPrice, database, Owes
<1>6. ASSUME WritePrice(u)
      PROVE  /\ \A w \in Writer \ {u} : Owes(w) => Owes(w)'
             /\ Owes(u)' /\ UNCHANGED <<cache, tainted>>
  <2>1. writers'[u].pc = "line" /\ writers'[u].inserted + writers'[u].updated > 0
    BY <1>0, <1>6 DEF WritePrice, Writing, Rest, WriterRow
  <2> QED BY <1>1, <1>6, <2>1 DEF WritePrice, Owes
<1>7. ASSUME EndUpload(u)
      PROVE  /\ \A w \in Writer \ {u} : Owes(w) => Owes(w)'
             /\ \/ DropCache
                \/ UNCHANGED <<prices, cache, tainted>> /\ ~Owes(u)
  BY <1>0, <1>1, <1>7 DEF EndUpload, InWriter, database, Owes, WriterRow
<1>8. ASSUME EndDelete(u)
      PROVE  (\A w \in Writer \ {u} : Owes(w) => Owes(w)') /\ DropCache
  BY <1>1, <1>8 DEF EndDelete
<1>9. ASSUME WriterCrash(u)
      PROVE  (\A w \in Writer \ {u} : Owes(w) => Owes(w)') /\ UNCHANGED cache /\ tainted'
  BY <1>1, <1>9 DEF WriterCrash
<1> QED BY <1>2, <1>3, <1>4, <1>5, <1>6, <1>7, <1>8, <1>9 DEF WriterMoves, WriterStep

\* A price that is cached and not the stored one is about to be dropped by the request that
\* changed it, whatever readers fill the cache, price files and deletions interleave with,
\* unless Redis failed, the API died or an older query filled it (FundPriceService.ts,
\* CacheService.ts).
THEOREM CacheIsDropped == Spec => []CacheFollowsPrices
<1>1. Init => TypeInv /\ CacheFollowsPrices
  <2>1. Init => CacheFollowsPrices
    BY DEF Init, NoCache, CacheFollowsPrices
  <2> QED BY <2>1, InitType
<1>2. TypeInv /\ CacheFollowsPrices /\ [Next]_vars => TypeInv' /\ CacheFollowsPrices'
  <2> SUFFICES ASSUME TypeInv, CacheFollowsPrices, [Next]_vars
               PROVE  CacheFollowsPrices'
    BY NextType
  <2>0. /\ CacheFollowsPrices <=>
             (cache.value \notin {NULL, Latest} /\ ~tainted => \E u \in Writer : Owes(u))
        /\ CacheFollowsPrices' <=>
             (cache'.value \notin {NULL, Latest'} /\ ~tainted' => \E u \in Writer : Owes(u)')
    BY DEF CacheFollowsPrices, Owes
  <2>1. ASSUME DropCache
        PROVE  cache'.value = NULL \/ tainted'
    BY <2>1 DEF DropCache, NoCache
  <2>2. ASSUME UNCHANGED <<prices, writers, cache, tainted>>
        PROVE  CacheFollowsPrices'
    BY <2>0, <2>2, LatestKept DEF Owes
  <2>3. ASSUME NEW u \in Writer, WriterMoves(u)
        PROVE  CacheFollowsPrices'
    BY <2>0, <2>1, <2>3, WriterOwes, LatestKept
  <2>4. CASE Expire
    BY <2>0, <2>4 DEF Expire, NoCache
  <2>5. ASSUME NEW q \in Reader, FillCache(q)
        PROVE  CacheFollowsPrices'
    <3>1. UNCHANGED <<prices, writers>>
      BY <2>5 DEF FillCache, database
    <3>2. CASE UNCHANGED <<cache, tainted>>
      BY <2>2, <3>1, <3>2
    <3>3. CASE cache' = [value |-> readers[q].mid, expires |-> TRUE]
               /\ tainted' = (readers[q].mid # Latest)
      BY <2>0, <3>1, <3>3, LatestKept
    <3> QED BY <2>5, <3>2, <3>3 DEF FillCache
  <2>6. ASSUME NEW q \in Reader, ReaderBegins(q) \/ ReaderStep(q)
        PROVE  CacheFollowsPrices'
    BY <2>2, <2>5, <2>6, ReaderScope DEF database
  <2>7. ASSUME NEW r \in Refresher, RefresherMoves(r)
        PROVE  CacheFollowsPrices'
    BY <2>2, <2>7, RefresherScope
  <2>8. CASE UNCHANGED vars
    BY <2>2, <2>8 DEF vars
  <2> QED BY <2>3, <2>4, <2>6, <2>7, <2>8, StepCases
<1> QED BY <1>1, <1>2, PTL DEF Spec

-----------------------------------------------------------------------------
(* The views follow the tables *)

\* A process that will leave a view showing what is stored now.
WillRefresh(r, v) ==
    \/ refreshes[r].pc = "goals"
    \/ v = "goals" /\ refreshes[r].pc = "goals held" /\ refreshes[r].snapshot = stored
    \/ v = "balances" /\ \/ refreshes[r].pc \in {"goals held", "balances"}
                         \/ /\ refreshes[r].pc = "balances held"
                            /\ refreshes[r].snapshot = stored

Held(v) == IF v = "goals" THEN "goals held" ELSE "balances held"

\* A view is computed by one process at a time, and one that is out of date, or is about
\* to be, has somebody to refresh it after that.
HeldOnce(v) == \A r, s \in Refresher :
    refreshes[r].pc = Held(v) /\ refreshes[s].pc = Held(v) => r = s
Behind(v) ==
    \/ views[v] # stored
    \/ \E r \in Refresher : refreshes[r].pc = Held(v) /\ refreshes[r].snapshot # stored
Cared(v) == v \notin missed /\ Behind(v) => \E r \in Refresher : WillRefresh(r, v)

FollowInv == \A v \in {"goals", "balances"} : HeldOnce(v) /\ Cared(v)

LEMMA ChangeFollows ==
    ASSUME TypeInv, FollowInv, NEW r \in Refresher, NEW c \in Change, ChangeBatch(r, c)
    PROVE  FollowInv'
<1>0. c.kind \in {"import", "rollback", "cancel", "refresh"}
  BY ChangeAssumption
<1>1. /\ refreshes'[r].pc = IF c.kind = "cancel" THEN "done"
                           ELSE IF c.kind = "refresh" THEN "balances" ELSE "goals"
      /\ \A s \in Refresher \ {r} : refreshes'[s] = refreshes[s]
  BY <1>0 DEF ChangeBatch, Refresh, NewRefresh, TypeInv
<1>2. refreshes[r].pc = "idle" /\ UNCHANGED views
  BY DEF ChangeBatch, InRefresh
<1> SUFFICES ASSUME NEW v \in {"goals", "balances"} PROVE HeldOnce(v)' /\ Cared(v)'
  BY DEF FollowInv
<1>3. HeldOnce(v)'
  BY <1>1 DEF FollowInv, HeldOnce, Held
<1>4. CASE c.kind = "cancel"
  BY <1>3, <1>4 DEF ChangeBatch, Cared
<1>5. CASE c.kind \in {"import", "rollback"}
  BY <1>1, <1>3, <1>5 DEF Cared, WillRefresh
<1>6. CASE c.kind = "refresh"
  <2>1. UNCHANGED <<stored, missed>>
    BY <1>6 DEF ChangeBatch
  <2>2. Behind(v)' => Behind(v)
    BY <1>1, <1>2, <1>6, <2>1 DEF Behind, Held
  <2>3. ASSUME NEW s \in Refresher, WillRefresh(s, v)
        PROVE  WillRefresh(s, v)'
    BY <1>1, <1>2, <2>1, <2>3 DEF WillRefresh
  <2> QED BY <1>3, <2>1, <2>2, <2>3 DEF FollowInv, Cared
<1> QED BY <1>0, <1>3, <1>4, <1>5, <1>6

\* The places of a process around the computation of one view.
Places(view, pc, next) ==
    \/ view = "goals" /\ pc = "goals held" /\ next = "balances"
    \/ view = "balances" /\ pc = "balances held" /\ next = "done"

LEMMA BeginFollows ==
    ASSUME TypeInv, FollowInv, NEW r \in Refresher, NEW view, NEW pc, NEW next,
           Places(view, pc, next), BeginRefresh(r, view, pc)
    PROVE  FollowInv'
<1>1. /\ refreshes[r].pc = view /\ refreshes'[r].pc = pc /\ refreshes'[r].snapshot = stored
      /\ \A s \in Refresher \ {r} : refreshes'[s] = refreshes[s]
      /\ \A s \in Refresher : refreshes[s].pc # pc
      /\ UNCHANGED <<stored, views, missed>>
  BY DEF BeginRefresh, InRefresh, Refresh, TypeInv, RefreshRow
<1> SUFFICES ASSUME NEW v \in {"goals", "balances"} PROVE HeldOnce(v)' /\ Cared(v)'
  BY DEF FollowInv
<1>2. HeldOnce(v)'
  BY <1>1 DEF FollowInv, HeldOnce, Held, Places
<1>3. Behind(v)' => Behind(v)
  BY <1>1 DEF Behind
<1>4. ASSUME NEW s \in Refresher, WillRefresh(s, v)
      PROVE  WillRefresh(s, v)'
  BY <1>1, <1>4 DEF WillRefresh, Places
<1> QED BY <1>1, <1>2, <1>3, <1>4 DEF FollowInv, Cared

LEMMA EndFollows ==
    ASSUME TypeInv, FollowInv, NEW r \in Refresher, NEW view, NEW pc, NEW next,
           Places(view, pc, next),
           EndRefresh(r, view, pc, next) \/ FailRefresh(r, view, pc, next)
    PROVE  FollowInv'
<1>1. /\ refreshes[r].pc = pc /\ refreshes'[r].pc = next /\ UNCHANGED stored
      /\ \A s \in Refresher \ {r} : refreshes'[s] = refreshes[s]
      /\ view \in {"goals", "balances"}
      /\ \A v \in {"goals", "balances"} \ {view} : views'[v] = views[v]
      /\ \A v \in {"goals", "balances"} \ {view} : v \in missed => v \in missed'
  <2>1. view \in {"goals", "balances"}
    BY DEF Places
  <2>2. CASE EndRefresh(r, view, pc, next)
    BY <2>1, <2>2 DEF EndRefresh, InRefresh, Refresh, TypeInv, RefreshRow
  <2>3. CASE FailRefresh(r, view, pc, next)
    BY <2>1, <2>3 DEF FailRefresh, InRefresh, Refresh, TypeInv, RefreshRow
  <2> QED BY <2>2, <2>3
<1> SUFFICES ASSUME NEW v \in {"goals", "balances"} PROVE HeldOnce(v)' /\ Cared(v)'
  BY DEF FollowInv
<1>2. HeldOnce(v)'
  <2>1. HeldOnce(v)
    BY DEF FollowInv
  <2>2. ASSUME NEW s \in Refresher, refreshes'[s].pc = Held(v) PROVE refreshes[s].pc = Held(v)
    BY <1>1, <2>2 DEF Held, Places
  <2> QED BY <2>1, <2>2 DEF HeldOnce
<1>3. ASSUME NEW s \in Refresher, WillRefresh(s, v), s # r \/ v # view
      PROVE  WillRefresh(s, v)'
  BY <1>1, <1>3 DEF WillRefresh, Places
<1>4. CASE v # view
  <2>1. Behind(v)' => Behind(v)
    BY <1>1, <1>4 DEF Behind, Held, Places
  <2> QED BY <1>1, <1>2, <1>3, <1>4, <2>1 DEF FollowInv, Cared
<1>5. CASE v = view /\ FailRefresh(r, view, pc, next)
  BY <1>2, <1>5 DEF FailRefresh, Cared
<1>6. CASE v = view /\ EndRefresh(r, view, pc, next)
  <2>1. views'[v] = refreshes[r].snapshot
    BY <1>1, <1>6 DEF EndRefresh, TypeInv
  <2>2. \A s \in Refresher : refreshes'[s].pc # Held(v)
    BY <1>1, <1>6 DEF FollowInv, HeldOnce, Held, Places
  <2>3. CASE refreshes[r].snapshot = stored
    BY <1>1, <1>2, <2>1, <2>2, <2>3 DEF Cared, Behind, Held
  <2>4. CASE refreshes[r].snapshot # stored
    <3>1. Behind(v) /\ missed' = missed
      BY <1>1, <1>6, <2>4 DEF Behind, Held, Places, EndRefresh
    <3>2. ~WillRefresh(r, v)
      BY <1>1, <1>6, <2>4 DEF WillRefresh, Places
    <3> QED BY <1>2, <1>3, <3>1, <3>2 DEF FollowInv, Cared
  <2> QED BY <2>3, <2>4
<1> QED BY <1>4, <1>5, <1>6

\* A view that no refresh failed for and no cancel left behind shows exactly the stored
\* batches once nobody is on the way to refresh it, whatever imports, rollbacks and
\* refreshes overlap, each computing a view from a snapshot of its own
\* (refreshAllViews after processFile and after rollbackBatch).
THEOREM ViewsCatchUp == Spec => []ViewsFollowUploads
<1>1. Init => TypeInv /\ FollowInv
  <2>1. ASSUME Init, NEW r \in Refresher
        PROVE  refreshes[r].pc \in {"idle", "done"}
    BY <2>1 DEF Init, NewRefresh
  <2>2. ASSUME Init, NEW v \in {"goals", "balances"}
        PROVE  HeldOnce(v) /\ Cared(v)
    <3>1. views[v] = stored
      BY <2>2 DEF Init
    <3>2. \A r \in Refresher : refreshes[r].pc # Held(v)
      BY <2>1, <2>2 DEF Held
    <3> QED BY <3>1, <3>2 DEF HeldOnce, Cared, Behind
  <2> QED BY <2>2, InitType DEF FollowInv
<1>2. TypeInv /\ FollowInv /\ [Next]_vars => TypeInv' /\ FollowInv'
  <2> SUFFICES ASSUME TypeInv, FollowInv, [Next]_vars PROVE FollowInv'
    BY NextType
  <2>1. ASSUME UNCHANGED <<stored, views, refreshes, missed>>
        PROVE  FollowInv'
    BY <2>1 DEF FollowInv, HeldOnce, Cared, Behind, WillRefresh
  <2>2. ASSUME NEW r \in Refresher, RefreshStep(r)
        PROVE  FollowInv'
    <3>1. Places("goals", "goals held", "balances") /\ Places("balances", "balances held", "done")
      BY DEF Places
    <3> QED BY <2>2, <3>1, BeginFollows, EndFollows
        DEF RefreshStep, RefreshAll, RefreshGoals, RefreshBalances
  <2>3. ASSUME NEW r \in Refresher, RefreshCrash(r)
        PROVE  FollowInv'
    <3>1. \A s \in Refresher : refreshes'[s].pc \in {refreshes[s].pc, "done"}
      BY <2>3 DEF RefreshCrash, Refresh, TypeInv, RefreshRow
    <3> QED BY <2>3, <3>1 DEF RefreshCrash, FollowInv, HeldOnce, Held, Cared
  <2>4. ASSUME NEW u \in Writer, WriterMoves(u)
        PROVE  FollowInv'
    BY <2>1, <2>4, WriterScope
  <2>5. ASSUME NEW q \in Reader, ReaderBegins(q) \/ ReaderStep(q)
        PROVE  FollowInv'
    BY <2>1, <2>5, ReaderScope DEF database
  <2>6. CASE Expire \/ UNCHANGED vars
    BY <2>1, <2>6 DEF Expire, vars, database
  <2> QED BY <2>2, <2>3, <2>4, <2>5, <2>6, ChangeFollows, StepCases DEF RefresherMoves
<1>3. TypeInv /\ FollowInv => ViewsFollowUploads
  <2> SUFFICES ASSUME TypeInv, FollowInv, NEW v \in {"goals", "balances"},
                      Pending(v) = {}, v \notin missed
               PROVE  views[v] = stored
    BY DEF TypeInv, ViewsFollowUploads
  <2>1. \A r \in Refresher : ~WillRefresh(r, v)
    BY DEF WillRefresh, Pending, InRefresh
  <2> QED BY <2>1 DEF FollowInv, Cared, Behind
<1> QED BY <1>1, <1>2, <1>3, PTL DEF Spec

-----------------------------------------------------------------------------
(* Values and sums *)

Mid == [Fund -> Nat]
Units == [r \in Row |-> r.units]
Amounts == [r \in Row |-> r.amount]

LEMMA Tables ==
    ASSUME NEW R \in SUBSET Row
    PROVE  Numbers(R, Units) /\ Numbers(R, Amounts)
BY FS_Subset, DataAssumption DEF Numbers, Units, Amounts

LEMMA SumUnits ==
    ASSUME NEW R \in SUBSET Row
    PROVE  /\ Sum(R, LAMBDA r : r.units) = Over(R, Units)
           /\ Sum(R, LAMBDA r : r.units) \in Int
<1>1. [r \in R |-> r.units] = [r \in R |-> Units[r]]
  BY DEF Units
<1> QED BY <1>1, Tables, OverType DEF Sum, Over

LEMMA SumAmounts ==
    ASSUME NEW R \in SUBSET Row
    PROVE  /\ Sum(R, LAMBDA r : r.amount) = Over(R, Amounts)
           /\ Sum(R, LAMBDA r : r.amount) \in Int
<1>1. [r \in R |-> r.amount] = [r \in R |-> Amounts[r]]
  BY DEF Amounts
<1> QED BY <1>1, Tables, OverType DEF Sum, Over

\* What the rows of each fund are worth.
InFund(R, f) == {r \in R : r.fund = f}
FundWorths(R, mid) == [f \in Fund |-> Over(InFund(R, f), Units) * mid[f]]

LEMMA ValueIsSum ==
    ASSUME NEW R \in SUBSET Row, NEW mid \in Mid
    PROVE  /\ Value(R, mid) = Over(Fund, FundWorths(R, mid))
           /\ Numbers(Fund, FundWorths(R, mid)) /\ Value(R, mid) \in Int
<1>1. ASSUME NEW f \in Fund
      PROVE  /\ Sum({r \in R : r.fund = f}, LAMBDA r : r.units) = Over(InFund(R, f), Units)
             /\ Over(InFund(R, f), Units) \in Int
  <2>1. InFund(R, f) \in SUBSET Row
    BY DEF InFund
  <2> QED BY <2>1, SumUnits DEF InFund
<1>2. Numbers(Fund, FundWorths(R, mid))
  <2>1. ASSUME NEW f \in Fund PROVE FundWorths(R, mid)[f] \in Int
    <3>1. mid[f] \in Int /\ \A x, y \in Int : x * y \in Int
      BY DEF Mid
    <3> QED BY <1>1, <3>1 DEF FundWorths
  <2> QED BY <2>1, DataAssumption DEF Numbers
<1>3. [f \in Fund |-> Sum({r \in R : r.fund = f}, LAMBDA r : r.units) * mid[f]]
         = [f \in Fund |-> FundWorths(R, mid)[f]]
  BY <1>1 DEF FundWorths
<1>4. Value(R, mid) = Over(Fund, FundWorths(R, mid))
  BY <1>3 DEF Value, Sum, Over
<1> QED BY <1>2, <1>4, OverType

LEMMA ValueEmpty == ASSUME NEW mid \in Mid PROVE Value({}, mid) = 0
<1>1. ASSUME NEW f \in Fund PROVE FundWorths({}, mid)[f] = 0
  <2>1. InFund({}, f) = {} /\ mid[f] \in Nat
    BY DEF InFund, Mid
  <2> QED BY <2>1, OverEmpty DEF FundWorths
<1> QED BY <1>1, OverZero, ValueIsSum, DataAssumption

LEMMA ValueUnion ==
    ASSUME NEW R \in SUBSET Row, NEW S \in SUBSET Row, R \intersect S = {}, NEW mid \in Mid
    PROVE  Value(R \union S, mid) = Value(R, mid) + Value(S, mid)
<1>1. ASSUME NEW f \in Fund
      PROVE  FundWorths(R \union S, mid)[f] = FundWorths(R, mid)[f] + FundWorths(S, mid)[f]
  <2>1. /\ InFund(R \union S, f) = InFund(R, f) \union InFund(S, f)
        /\ InFund(R, f) \intersect InFund(S, f) = {}
        /\ InFund(R, f) \in SUBSET Row /\ InFund(S, f) \in SUBSET Row
    BY DEF InFund
  <2>2. Over(InFund(R \union S, f), Units) = Over(InFund(R, f), Units) + Over(InFund(S, f), Units)
    BY <2>1, Tables, OverUnion
  <2>3. /\ Over(InFund(R, f), Units) \in Int /\ Over(InFund(S, f), Units) \in Int
        /\ mid[f] \in Nat
    BY <2>1, Tables, OverType DEF Mid
  <2>4. \A x, y \in Int : \A z \in Nat : (x + y) * z = x * z + y * z
    OBVIOUS
  <2> QED BY <2>2, <2>3, <2>4 DEF FundWorths
<1>2. R \union S \in SUBSET Row
  OBVIOUS
<1>3. Over(Fund, FundWorths(R \union S, mid)) = Over(Fund, FundWorths(R, mid)) + Over(Fund, FundWorths(S, mid))
  <2>1. Numbers(Fund, FundWorths(R, mid)) /\ Numbers(Fund, FundWorths(S, mid))
    BY ValueIsSum
  <2> HIDE DEF FundWorths
  <2> QED BY <1>1, <2>1, OverPlus
<1> QED BY <1>2, <1>3, ValueIsSum

\* The accounts' values add up to the value of all rows, whichever account a row counts for.
LEMMA ValueParts ==
    ASSUME NEW R \in SUBSET Row, NEW mid \in Mid, NEW p, \A r \in R : p[r] \in Account,
           NEW part, Partition(part, R, Account, p),
           NEW worth, \A a \in Account : worth[a] = Value(part[a], mid)
    PROVE  Numbers(Account, worth) /\ Over(Account, worth) = Value(R, mid)
<1>0. IsFiniteSet(Account) /\ \A a \in Account : part[a] \in SUBSET Row
  BY DataAssumption DEF Partition
<1>1. ASSUME NEW a \in Account PROVE worth[a] \in Int
  BY <1>0, ValueIsSum
<1>2. \A s \in SUBSET Account : Numbers(s, worth)
  BY <1>0, <1>1, FS_Subset DEF Numbers
<1> DEFINE In(s) == {r \in R : p[r] \in s}
           F == {s \in SUBSET Account : Over(s, worth) = Value(In(s), mid)}
<1>3. {} \in F
  <2>1. In({}) = {}
    OBVIOUS
  <2> QED BY <2>1, OverEmpty, ValueEmpty
<1>4. ASSUME NEW s \in SUBSET Account, NEW a \in Account \ s, s \in F PROVE s \union {a} \in F
  <2> DEFINE Part == part[a]
  <2>1. /\ In(s \union {a}) = In(s) \union Part /\ In(s) \intersect Part = {}
        /\ In(s) \in SUBSET Row /\ Part \in SUBSET Row
    BY DEF Partition
  <2>2. Value(In(s) \union Part, mid) = Value(In(s), mid) + Value(Part, mid)
    <3> HIDE DEF In, Part, F
    <3> QED BY <2>1, ValueUnion
  <2>3. Over(s \union {a}, worth) = worth[a] + Over(s, worth)
    <3>1. a \notin s /\ Numbers(s \union {a}, worth)
      BY <1>2
    <3> HIDE DEF In, Part, F
    <3> QED BY <3>1, OverAdd
  <2>4. worth[a] = Value(Part, mid) /\ worth[a] \in Int
    BY <1>1
  <2>5. Over(s, worth) = Value(In(s), mid) /\ Over(s, worth) \in Int
    BY <1>2, <1>4, OverType
  <2>6. Over(s \union {a}, worth) = Value(In(s) \union Part, mid)
    <3> HIDE DEF In, Part, F
    <3> QED BY <2>2, <2>3, <2>4, <2>5
  <2> QED BY <2>1, <2>6
<1> HIDE DEF F
<1>5. \A s \in SUBSET Account : s \in F
  BY <1>0, <1>3, <1>4, SetInduction
<1>6. In(Account) = R
  OBVIOUS
<1> QED BY <1>2, <1>5, <1>6 DEF F

\* A total that is given as a set of lines: the lines add up to it and are as many.
LEMMA PageAddsUp ==
    ASSUME NEW S, NEW key, \A a, b \in S : key[a] = key[b] => a = b,
           NEW worth, Numbers(S, worth), NEW P \in Page(S, Limit),
           NEW page, \A l : l \in page <=> \E a \in P : l = <<key[a], worth[a]>>
    PROVE  /\ Cardinality(page) = Min({Cardinality(S), Limit})
           /\ Cardinality(S) <= Limit => Sum(page, LAMBDA line : line[2]) = Over(S, worth)
<1>0. IsFiniteSet(S) /\ P \in SUBSET S /\ Limit \in Nat /\ Cardinality(S) \in Nat
  BY FS_CardinalityType, DataAssumption DEF Numbers, Page
<1>1. IsFiniteSet(P)
  BY <1>0, FS_Subset
<1>i. page = {<<key[a], worth[a]>> : a \in P}
  OBVIOUS
<1> DEFINE line == [a \in P |-> <<key[a], worth[a]>>]
<1>2. line \in Bijection(P, page)
  BY <1>0, <1>i DEF Bijection, Injection, Surjection, IsInjective
<1>3. Cardinality(page) = Cardinality(P)
  BY <1>1, <1>2, FS_Bijection DEF ExistsBijection
<1>4. Cardinality(P) = Min({Cardinality(S), Limit})
  BY <1>0 DEF Page, Min
<1>5. ASSUME Cardinality(S) <= Limit PROVE Sum(page, LAMBDA l : l[2]) = Over(S, worth)
  <2>1. Cardinality(P) = Cardinality(S)
    BY <1>0, <1>5 DEF Page
  <2>2. P = S
    BY <1>0, <2>1, FS_Subset
  <2> DEFINE second == [l \in page |-> l[2]]
  <2>3. Over(page, second) = Over(S, worth)
    <3>1. page = {line[a] : a \in S} /\ \A a \in S : second[line[a]] = worth[a]
      BY <1>i, <2>2
    <3>2. \A a, b \in S : line[a] = line[b] => a = b
      BY <2>2
    <3> HIDE DEF line, second
    <3> QED BY <3>1, <3>2, OverImage
  <2>4. [l \in page |-> l[2]] = [l \in page |-> second[l]]
    OBVIOUS
  <2> QED BY <2>3, <2>4 DEF Sum, Over
<1> QED BY <1>3, <1>4, <1>5


-----------------------------------------------------------------------------
(* What a reader has been told so far, as a function of what the tables hold: *)
(* true of the readers since whose question nothing has changed              *)

Lines(S, worth) == {{<<a, worth[a]>> : a \in P} : P \in Page(S, Limit)}

RegistryTold(B, r) ==
    LET worth == ByAccount(RowsOf(B), r.mid)
        A == Shown(Account, worth, r.funded)
    IN  /\ r.pc \in {"page", "sum", "done"} => r.count = Cardinality(A)
        /\ r.pc \in {"sum", "done"} => r.page \in Lines(A, worth)
        /\ r.pc = "done" => r.sum = Total(A, worth)

Past(B) == {r \in RowsOf(B) : r.day <= Today}
AsOfTold(B, past, r) ==
    LET worth == ByHolder(Past(B), r.mid)
        A == Shown({x.holder : x \in Past(B)}, worth, r.funded)
    IN  /\ r.pc \in {"rows", "done"} => r.mid = past
        /\ r.pc = "done" => /\ r.count = Cardinality(A)
                            /\ r.page \in Lines(A, worth)
                            /\ r.sum = Total(A, worth)

InCategory(c) == {a \in Account : CategoryOf(a) = c}
ByCategory(worth) ==
    Sum({CategoryOf(a) : a \in Account}, LAMBDA c : Total(InCategory(c), worth))
DashboardTold(B, r) ==
    LET worth == ByAccount(RowsOf(B), r.mid)
        A == Shown(Account, worth, TRUE)
    IN  /\ r.pc \in {"categories", "done"} => r.count = Cardinality(A) /\ r.sum = Total(A, worth)
        /\ r.pc = "done" => r.all = ByCategory(worth)

LineOf(x) == [id |-> x.id, type |-> x.type, amount |-> x.amount]
FundNets(B) == Sum(Fund \intersect Summarised, LAMBDA f : NetOf({x \in RowsOf(B) : x.fund = f}))
FundsTold(B, r) ==
    /\ r.pc \in {"page", "sum", "by fund", "done"} => r.count = Cardinality(RowsOf(B))
    /\ r.pc \in {"sum", "by fund", "done"} =>
          \E P \in Page(RowsOf(B), Limit) : r.page = {LineOf(x) : x \in P}
    /\ r.pc \in {"by fund", "done"} => r.flows = Flows(RowsOf(B))
    /\ r.pc = "done" => r.all = FundNets(B)

Codes(B) == {r.code : r \in RowsOf(B)}
Amount(B, c) == Sum({r \in RowsOf(B) : r.code = c}, LAMBDA r : r.amount)
AmountIn(B) == [c \in Codes(B) |-> Amount(B, c)]
GoalsTold(B, r) ==
    /\ r.pc \in {"totals last", "done"} => r.page \in Lines(Codes(B), AmountIn(B))
    /\ r.pc \in {"list last", "done"} => /\ r.count = Cardinality(Codes(B))
                                         /\ r.sum = Sum(Codes(B), LAMBDA c : Amount(B, c))
GoalTold(B, A, r) ==
    /\ r.pc \in {"rows", "done"} =>
          r.count = 1 /\ \E c \in Codes(A) : r.page = {<<c, Amount(A, c)>>}
    /\ r.pc = "done" =>
          r.sum = Sum({x \in RowsOf(B) : x.code \in {line[1] : line \in r.page}},
                      LAMBDA x : x.amount)

Told(B, V, past, r) ==
    /\ r.report = "registry" => RegistryTold(V.balances, r)
    /\ r.report = "as of" => AsOfTold(B, past, r)
    /\ r.report = "dashboard" => DashboardTold(V.balances, r)
    /\ r.report = "funds" => FundsTold(B, r)
    /\ r.report = "goals" => GoalsTold(V.goals, r)
    /\ r.report = "goal" => GoalTold(B, V.goals, r)

\* The prices a reader computes with are prices.
Priced(r) ==
    \/ r.report = "registry" /\ r.pc \in {"fill", "count", "page", "sum", "done"}
    \/ r.report = "as of" /\ r.pc \in {"rows", "done"}
    \/ r.report = "dashboard" /\ r.pc \in {"total", "categories", "done"}

ReaderShape ==
    /\ readers = [q \in Reader |-> readers[q]]
    /\ \A q \in Reader : DOMAIN readers[q] = DOMAIN NewReader
PricedInv ==
    /\ cache.value # NULL => cache.value \in Mid
    /\ \A q \in Reader : Priced(readers[q]) => readers[q].mid \in Mid
ToldInv ==
    /\ ReaderShape /\ PricedInv
    /\ \A q \in steady : Told(stored, views, PastPrices, readers[q])

LEMMA GreatestDay ==
    ASSUME NEW D \in SUBSET Day, D # {}
    PROVE  Max(D) \in D /\ \A d \in D : d <= Max(D)
<1>0. Day \subseteq Int /\ IsFiniteSet(Day)
  BY DataAssumption
<1> DEFINE F == {s \in SUBSET Day : s # {} => \E d \in s : \A e \in s : d >= e}
<1>1. {} \in F
  OBVIOUS
<1>2. ASSUME NEW s \in SUBSET Day, NEW d \in Day \ s, s \in F PROVE s \union {d} \in F
  <2>1. CASE s = {}
    BY <1>0, <2>1
  <2>2. CASE s # {}
    <3>1. PICK m \in s : \A e \in s : m >= e
      BY <1>2, <2>2
    <3>2. CASE m >= d
      BY <1>0, <3>1, <3>2
    <3>3. CASE ~(m >= d)
      <4>1. \A e \in s \union {d} : d >= e
        BY <1>0, <3>1, <3>3
      <4> QED BY <4>1
    <3> QED BY <3>2, <3>3
  <2> QED BY <2>1, <2>2
<1> HIDE DEF F
<1>3. \A s \in SUBSET Day : s \in F
  BY <1>0, <1>1, <1>2, SetInduction
<1>4. \E d \in D : \A e \in D : d >= e
  BY <1>3 DEF F
<1>5. Max(D) \in D /\ \A d \in D : Max(D) >= d
  BY <1>4 DEF Max
<1> QED BY <1>0, <1>5

LEMMA MidOfIsMid == ASSUME TypeInv, NEW D \in SUBSET Day PROVE MidOf(D) \in Mid
<1> SUFFICES ASSUME NEW f \in Fund PROVE MidOf(D)[f] \in Nat
  BY DEF MidOf, Mid
<1> DEFINE days == {d \in D : prices[f][d] # NULL}
<1>1. MidOf(D)[f] = IF days = {} THEN 0 ELSE prices[f][Max(days)].mid
  BY DEF MidOf
<1>2. ASSUME days # {} PROVE prices[f][Max(days)].mid \in Nat
  <2>1. Max(days) \in days
    BY <1>2, GreatestDay
  <2>2. prices[f][Max(days)] \in Price
    BY <2>1 DEF TypeInv
  <2> QED BY <2>2 DEF Price
<1> QED BY <1>1, <1>2

LEMMA LatestIsMid == ASSUME TypeInv PROVE Latest \in Mid /\ PastPrices \in Mid
BY MidOfIsMid DEF Latest, PastPrices

-----------------------------------------------------------------------------
(* Steps of readers *)

\* Nothing has been told yet.
LEMMA Untold ==
    ASSUME NEW B, NEW V, NEW past, NEW r,
           \/ r.report = "registry" /\ r.pc \in {"prices", "fill", "count"}
           \/ r.report = "as of" /\ r.pc = "rows" /\ r.mid = past
           \/ r.report = "dashboard" /\ r.pc = "total"
           \/ r.report = "funds" /\ r.pc = "count"
           \/ r.report = "goals" /\ r.pc \in {"list", "totals"}
    PROVE  Told(B, V, past, r)
BY DEF Told, RegistryTold, AsOfTold, DashboardTold, FundsTold, GoalsTold

\* What a question leaves in the record of its reader.
LEMMA Asked ==
    ASSUME ReaderShape, NEW q \in Reader, NEW report, NEW reader,
           DOMAIN reader = DOMAIN NewReader, Ask1(q, report, reader)
    PROVE  /\ readers' = [readers EXCEPT ![q] = readers'[q]]
           /\ DOMAIN readers'[q] = DOMAIN NewReader
           /\ readers'[q].report = report
           /\ \A name \in DOMAIN NewReader \ {"report"} : readers'[q][name] = reader[name]
<1> DEFINE asked == [reader EXCEPT !.report = report]
<1>1. readers' = [readers EXCEPT ![q] = asked]
  BY DEF Ask1, Reading
<1>2. "report" \in DOMAIN reader
  BY DEF NewReader
<1>3. /\ DOMAIN asked = DOMAIN NewReader /\ asked.report = report
      /\ \A name \in DOMAIN NewReader \ {"report"} : asked[name] = reader[name]
  BY <1>2
<1> HIDE DEF asked
<1>4. readers'[q] = asked
  BY <1>1 DEF ReaderShape
<1> QED BY <1>1, <1>3, <1>4

LEMMA BeginsTold ==
    ASSUME TypeInv, ToldInv, NEW q \in Reader, ReaderBegins(q)
    PROVE  /\ readers' = [readers EXCEPT ![q] = readers'[q]]
           /\ DOMAIN readers'[q] = DOMAIN NewReader
           /\ Told(stored, views, PastPrices, readers'[q])
           /\ Priced(readers'[q]) => readers'[q].mid \in Mid
<1> DEFINE Begun(report, reader) ==
              /\ readers' = [readers EXCEPT ![q] = readers'[q]]
              /\ DOMAIN readers'[q] = DOMAIN NewReader
              /\ readers'[q].report = report /\ readers'[q].pc = reader.pc
              /\ readers'[q].mid = reader.mid /\ readers'[q].count = reader.count
              /\ readers'[q].page = reader.page
<1>1. ASSUME NEW report, NEW reader, DOMAIN reader = DOMAIN NewReader, Ask1(q, report, reader)
      PROVE  Begun(report, reader)
  <2>1. ReaderShape
    BY DEF ToldInv
  <2>2. {"pc", "mid", "count", "page"} \subseteq DOMAIN NewReader \ {"report"}
    BY DEF NewReader
  <2> QED BY <1>1, <2>1, <2>2, Asked
<1>2. Latest \in Mid /\ PastPrices \in Mid
  BY LatestIsMid
<1>3. ASSUME NEW funded \in BOOLEAN, BeginRegistry(q, funded)
      PROVE  \E reader : /\ Begun("registry", reader)
                         /\ \/ reader.pc = "prices"
                            \/ (reader.pc = "count" /\ reader.mid \in Mid)
  <2> DEFINE known == [NewReader EXCEPT !.pc = "count", !.funded = funded, !.mid = cache.value]
             unknown == [NewReader EXCEPT !.pc = "prices", !.funded = funded]
  <2>1. /\ DOMAIN known = DOMAIN NewReader /\ known.pc = "count" /\ known.mid = cache.value
        /\ DOMAIN unknown = DOMAIN NewReader /\ unknown.pc = "prices"
    BY DEF NewReader
  <2>2. \/ (cache.value # NULL /\ Ask1(q, "registry", known))
        \/ Ask1(q, "registry", unknown)
    BY <1>3 DEF BeginRegistry
  <2>3. cache.value # NULL => cache.value \in Mid
    BY DEF ToldInv, PricedInv
  <2> HIDE DEF known, unknown, Begun
  <2>4. CASE cache.value # NULL /\ Ask1(q, "registry", known)
    <3>1. Begun("registry", known)
      BY <1>1, <2>1, <2>4
    <3> QED BY <2>1, <2>3, <2>4, <3>1
  <2>5. CASE Ask1(q, "registry", unknown)
    <3>1. Begun("registry", unknown)
      BY <1>1, <2>1, <2>5
    <3> QED BY <2>1, <3>1
  <2> QED BY <2>2, <2>4, <2>5
<1>4. CASE \E funded \in BOOLEAN : BeginRegistry(q, funded)
  <2>1. PICK reader : /\ Begun("registry", reader)
                      /\ \/ reader.pc = "prices"
                         \/ (reader.pc = "count" /\ reader.mid \in Mid)
    BY <1>3, <1>4
  <2> QED BY <2>1, Untold DEF Priced
<1>5. CASE \E funded \in BOOLEAN : BeginAsOf(q, funded)
  <2>1. PICK funded \in BOOLEAN : BeginAsOf(q, funded)
    BY <1>5
  <2> DEFINE reader == [NewReader EXCEPT !.pc = "rows", !.funded = funded, !.mid = PastPrices]
  <2>2. DOMAIN reader = DOMAIN NewReader /\ reader.pc = "rows" /\ reader.mid = PastPrices
    BY DEF NewReader
  <2>3. Ask1(q, "as of", reader)
    BY <2>1 DEF BeginAsOf, PricesAsOf, PastPrices
  <2> HIDE DEF reader
  <2>4. Begun("as of", reader)
    BY <1>1, <2>2, <2>3
  <2> QED BY <1>2, <2>2, <2>4, Untold DEF Priced
<1>6. CASE BeginDashboard(q)
  <2> DEFINE reader == [NewReader EXCEPT !.pc = "total", !.mid = Latest]
  <2>2. DOMAIN reader = DOMAIN NewReader /\ reader.pc = "total" /\ reader.mid = Latest
    BY DEF NewReader
  <2>3. Ask1(q, "dashboard", reader)
    BY <1>6 DEF BeginDashboard
  <2> HIDE DEF reader
  <2>4. Begun("dashboard", reader)
    BY <1>1, <2>2, <2>3
  <2> QED BY <1>2, <2>2, <2>4, Untold DEF Priced
<1>7. CASE BeginFunds(q)
  <2> DEFINE reader == [NewReader EXCEPT !.pc = "count"]
  <2>2. DOMAIN reader = DOMAIN NewReader /\ reader.pc = "count"
    BY DEF NewReader
  <2>3. Ask1(q, "funds", reader)
    BY <1>7 DEF BeginFunds
  <2> HIDE DEF reader
  <2>4. Begun("funds", reader)
    BY <1>1, <2>2, <2>3
  <2> QED BY <2>2, <2>4, Untold DEF Priced
<1>8. CASE \E first \in {"list", "totals"} : BeginGoals(q, first)
  <2>1. PICK first \in {"list", "totals"} : BeginGoals(q, first)
    BY <1>8
  <2> DEFINE reader == [NewReader EXCEPT !.pc = first]
  <2>2. DOMAIN reader = DOMAIN NewReader /\ reader.pc = first
    BY DEF NewReader
  <2>3. Ask1(q, "goals", reader)
    BY <2>1 DEF BeginGoals
  <2> HIDE DEF reader
  <2>4. Begun("goals", reader)
    BY <1>1, <2>2, <2>3
  <2> QED BY <2>2, <2>4, Untold DEF Priced
<1>9. CASE BeginGoal(q)
  <2>1. PICK c \in GoalRows :
           Ask1(q, "goal", [NewReader EXCEPT !.pc = "rows", !.count = 1,
                                             !.page = {<<c, GoalAmount(c)>>}])
    BY <1>9 DEF BeginGoal
  <2> DEFINE reader == [NewReader EXCEPT !.pc = "rows", !.count = 1,
                                         !.page = {<<c, GoalAmount(c)>>}]
  <2>2. /\ DOMAIN reader = DOMAIN NewReader /\ reader.pc = "rows" /\ reader.count = 1
        /\ reader.page = {<<c, GoalAmount(c)>>}
    BY DEF NewReader
  <2>3. Ask1(q, "goal", reader)
    BY <2>1
  <2> HIDE DEF reader
  <2>4. Begun("goal", reader)
    BY <1>1, <2>2, <2>3
  <2>5. c \in Codes(views.goals) /\ GoalAmount(c) = Amount(views.goals, c)
    BY DEF GoalRows, GoalAmount, Codes, Amount
  <2>6. GoalTold(stored, views.goals, readers'[q])
    BY <2>2, <2>4, <2>5 DEF GoalTold
  <2> QED BY <2>2, <2>4, <2>6 DEF Told, Priced
<1> QED BY <1>4, <1>5, <1>6, <1>7, <1>8, <1>9 DEF ReaderBegins


LEMMA Stepped ==
    ASSUME ReaderShape, NEW q \in Reader, NEW reader, DOMAIN reader = DOMAIN NewReader,
           Reading(q, reader)
    PROVE  /\ readers' = [readers EXCEPT ![q] = readers'[q]]
           /\ readers'[q] = reader
BY DEF Reading, ReaderShape

\* What is known of a reader after a step: it has been told what the tables hold if it had
\* been before.
TellsOn(q) ==
    /\ readers' = [readers EXCEPT ![q] = readers'[q]]
    /\ DOMAIN readers'[q] = DOMAIN NewReader
    /\ Told(stored, views, PastPrices, readers[q]) => Told(stored, views, PastPrices, readers'[q])
    /\ Priced(readers'[q]) => readers'[q].mid \in Mid

LEMMA RegistryStepsTold ==
    ASSUME TypeInv, ToldInv, NEW q \in Reader,
           \/ QueryPrices(q) \/ FillCache(q) \/ CountRegistry(q) \/ PageRegistry(q)
           \/ SummariseRegistry(q)
    PROVE  TellsOn(q)
<1> DEFINE r == readers[q]
<1>0. ReaderShape /\ DOMAIN r = DOMAIN NewReader /\ (Priced(r) => r.mid \in Mid)
  BY DEF ToldInv, ReaderShape, PricedInv
<1>1. DOMAIN NewReader = {"report", "pc", "funded", "mid", "count", "page", "sum", "all",
                          "flows"}
  BY DEF NewReader
<1>2. ASSUME NEW reader, DOMAIN reader = DOMAIN NewReader, Reading(q, reader),
             r.report = "registry", reader.report = "registry",
             RegistryTold(views.balances, r) => RegistryTold(views.balances, reader),
             Priced(reader) => reader.mid \in Mid
      PROVE  TellsOn(q)
  <2>1. readers'[q] = reader /\ readers' = [readers EXCEPT ![q] = readers'[q]]
    BY <1>0, <1>2, Stepped
  <2>2. Told(stored, views, PastPrices, r) => Told(stored, views, PastPrices, reader)
    BY <1>2 DEF Told
  <2> QED BY <1>2, <2>1, <2>2 DEF TellsOn
<1>3. CASE QueryPrices(q)
  <2> DEFINE reader == [r EXCEPT !.pc = "fill", !.mid = Latest]
  <2>1. /\ DOMAIN reader = DOMAIN NewReader /\ reader.pc = "fill" /\ reader.mid = Latest
        /\ reader.report = r.report
    BY <1>0, <1>1
  <2>2. Reading(q, reader) /\ r.report = "registry"
    BY <1>3 DEF QueryPrices, Step, InReader
  <2> HIDE DEF reader, r
  <2>3. RegistryTold(views.balances, reader)
    BY <2>1 DEF RegistryTold
  <2> QED BY <1>2, <2>1, <2>2, <2>3, LatestIsMid
<1>4. CASE FillCache(q)
  <2> DEFINE reader == [r EXCEPT !.pc = "count"]
  <2>1. /\ DOMAIN reader = DOMAIN NewReader /\ reader.pc = "count" /\ reader.mid = r.mid
        /\ reader.report = r.report
    BY <1>0, <1>1
  <2>2. Reading(q, reader) /\ r.report = "registry" /\ r.pc = "fill"
    BY <1>4 DEF FillCache, InReader
  <2> HIDE DEF reader, r
  <2>3. RegistryTold(views.balances, reader)
    BY <2>1 DEF RegistryTold
  <2> QED BY <1>0, <1>2, <2>1, <2>2, <2>3 DEF Priced
<1>5. CASE CountRegistry(q)
  <2> DEFINE A == Shown(Account, ByAccount(RowsOf(views.balances), r.mid), r.funded)
             reader == [r EXCEPT !.pc = "page", !.count = Cardinality(A)]
  <2>1. /\ DOMAIN reader = DOMAIN NewReader /\ reader.pc = "page" /\ reader.mid = r.mid
        /\ reader.report = r.report /\ reader.funded = r.funded
        /\ reader.count = Cardinality(A)
    BY <1>0, <1>1
  <2>2. Reading(q, reader) /\ r.report = "registry" /\ r.pc = "count"
    BY <1>5 DEF CountRegistry, Step, InReader, RegistryAccounts, Worths
  <2> HIDE DEF reader
  <2>3. RegistryTold(views.balances, reader)
    BY <2>1 DEF RegistryTold
  <2> QED BY <1>0, <1>2, <2>1, <2>2, <2>3 DEF Priced
<1>6. CASE PageRegistry(q)
  <2> DEFINE worth == ByAccount(RowsOf(views.balances), r.mid)
             A == Shown(Account, worth, r.funded)
  <2>0. PICK P \in Page(A, Limit) :
           Step(q, [r EXCEPT !.pc = "sum", !.page = {<<a, worth[a]>> : a \in P}])
    BY <1>6 DEF PageRegistry, RegistryAccounts, Worths
  <2> DEFINE reader == [r EXCEPT !.pc = "sum", !.page = {<<a, worth[a]>> : a \in P}]
  <2>1. /\ DOMAIN reader = DOMAIN NewReader /\ reader.pc = "sum" /\ reader.mid = r.mid
        /\ reader.report = r.report /\ reader.funded = r.funded /\ reader.count = r.count
        /\ reader.page = {<<a, worth[a]>> : a \in P}
    BY <1>0, <1>1
  <2>2. Reading(q, reader) /\ r.report = "registry" /\ r.pc = "page"
    BY <1>6, <2>0 DEF PageRegistry, Step, InReader
  <2>4. reader.page \in Lines(A, worth)
    BY <2>1 DEF Lines
  <2> HIDE DEF reader, r
  <2>3. RegistryTold(views.balances, r) => RegistryTold(views.balances, reader)
    BY <2>1, <2>2, <2>4 DEF RegistryTold
  <2> QED BY <1>0, <1>2, <2>1, <2>2, <2>3 DEF Priced
<1>7. CASE SummariseRegistry(q)
  <2> DEFINE worth == ByAccount(RowsOf(views.balances), r.mid)
             A == Shown(Account, worth, r.funded)
             reader == [r EXCEPT !.pc = "done", !.sum = Total(A, worth)]
  <2>1. /\ DOMAIN reader = DOMAIN NewReader /\ reader.pc = "done" /\ reader.mid = r.mid
        /\ reader.report = r.report /\ reader.funded = r.funded /\ reader.count = r.count
        /\ reader.page = r.page /\ reader.sum = Total(A, worth)
    BY <1>0, <1>1
  <2>2. Reading(q, reader) /\ r.report = "registry" /\ r.pc = "sum"
    BY <1>7 DEF SummariseRegistry, Step, InReader, RegistryAccounts, Worths
  <2> HIDE DEF reader, r
  <2>3. RegistryTold(views.balances, r) => RegistryTold(views.balances, reader)
    BY <2>1, <2>2 DEF RegistryTold
  <2> QED BY <1>0, <1>2, <2>1, <2>2, <2>3 DEF Priced
<1> QED BY <1>3, <1>4, <1>5, <1>6, <1>7


LEMMA TotalStepsTold ==
    ASSUME TypeInv, ToldInv, NEW q \in Reader, QueryAsOf(q) \/ TotalAUM(q) \/ Categories(q)
    PROVE  TellsOn(q)
<1> DEFINE r == readers[q]
<1>0. ReaderShape /\ DOMAIN r = DOMAIN NewReader /\ (Priced(r) => r.mid \in Mid)
  BY DEF ToldInv, ReaderShape, PricedInv
<1>1. DOMAIN NewReader = {"report", "pc", "funded", "mid", "count", "page", "sum", "all",
                          "flows"}
  BY DEF NewReader
<1>2. ASSUME NEW reader, DOMAIN reader = DOMAIN NewReader, Reading(q, reader),
             Told(stored, views, PastPrices, r) => Told(stored, views, PastPrices, reader),
             Priced(reader) => reader.mid \in Mid
      PROVE  TellsOn(q)
  BY <1>0, <1>2, Stepped DEF TellsOn
<1>3. CASE QueryAsOf(q)
  <2> DEFINE worth == ByHolder(Past(stored), r.mid)
             A == Shown({x.holder : x \in Past(stored)}, worth, r.funded)
  <2>0. PICK P \in Page(A, Limit) :
           Step(q, [r EXCEPT !.pc = "done", !.count = Cardinality(A),
                             !.page = {<<a, worth[a]>> : a \in P}, !.sum = Total(A, worth)])
    BY <1>3 DEF QueryAsOf, Past
  <2> DEFINE reader == [r EXCEPT !.pc = "done", !.count = Cardinality(A),
                                 !.page = {<<a, worth[a]>> : a \in P}, !.sum = Total(A, worth)]
  <2>1. /\ DOMAIN reader = DOMAIN NewReader /\ reader.pc = "done" /\ reader.mid = r.mid
        /\ reader.report = r.report /\ reader.funded = r.funded
        /\ reader.count = Cardinality(A) /\ reader.sum = Total(A, worth)
        /\ reader.page = {<<a, worth[a]>> : a \in P}
    BY <1>0, <1>1
  <2>2. Reading(q, reader) /\ r.report = "as of" /\ r.pc = "rows"
    BY <1>3, <2>0 DEF QueryAsOf, Step, InReader
  <2>3. reader.page \in Lines(A, worth)
    BY <2>1 DEF Lines
  <2> HIDE DEF reader, r
  <2>4. AsOfTold(stored, PastPrices, r) => AsOfTold(stored, PastPrices, reader)
    BY <2>1, <2>2, <2>3 DEF AsOfTold
  <2>5. Told(stored, views, PastPrices, r) => Told(stored, views, PastPrices, reader)
    BY <2>1, <2>2, <2>4 DEF Told
  <2> QED BY <1>0, <1>2, <2>1, <2>2, <2>5 DEF Priced
<1>4. CASE TotalAUM(q)
  <2> DEFINE worth == ByAccount(RowsOf(views.balances), r.mid)
             A == Shown(Account, worth, TRUE)
             reader == [r EXCEPT !.pc = "categories", !.count = Cardinality(A),
                                 !.sum = Total(A, worth)]
  <2>1. /\ DOMAIN reader = DOMAIN NewReader /\ reader.pc = "categories" /\ reader.mid = r.mid
        /\ reader.report = r.report /\ reader.count = Cardinality(A)
        /\ reader.sum = Total(A, worth)
    BY <1>0, <1>1
  <2>2. {a \in Account : Worth(Worths(q)[a])} = A
    BY DEF Worth, Worths, Shown, Funded
  <2>3. Reading(q, reader) /\ r.report = "dashboard" /\ r.pc = "total"
    BY <1>4, <2>2, Zenon DEF TotalAUM, Step, InReader, Worths
  <2> HIDE DEF reader, r
  <2>4. DashboardTold(views.balances, reader)
    BY <2>1 DEF DashboardTold
  <2>5. Told(stored, views, PastPrices, reader)
    BY <2>1, <2>3, <2>4 DEF Told
  <2> QED BY <1>0, <1>2, <2>1, <2>3, <2>5 DEF Priced
<1>5. CASE Categories(q)
  <2> DEFINE worth == ByAccount(RowsOf(views.balances), r.mid)
             lines == {<<c, Total(InCategory(c), worth)>> : c \in {CategoryOf(a) : a \in Account}}
             all == ByCategory(worth)
             reader == [r EXCEPT !.pc = "done", !.page = lines, !.all = all]
  <2>1. /\ DOMAIN reader = DOMAIN NewReader /\ reader.pc = "done" /\ reader.mid = r.mid
        /\ reader.report = r.report /\ reader.count = r.count /\ reader.sum = r.sum
        /\ reader.all = all
    BY <1>0, <1>1
  <2>3. Reading(q, reader) /\ r.report = "dashboard" /\ r.pc = "categories"
    BY <1>5 DEF Categories, Step, InReader, Worths, InCategory, ByCategory, Sum
  <2> HIDE DEF reader, r
  <2>4. DashboardTold(views.balances, r) => DashboardTold(views.balances, reader)
    BY <2>1, <2>3 DEF DashboardTold
  <2>5. Told(stored, views, PastPrices, r) => Told(stored, views, PastPrices, reader)
    BY <2>1, <2>3, <2>4 DEF Told
  <2> QED BY <1>0, <1>2, <2>1, <2>3, <2>5 DEF Priced
<1> QED BY <1>3, <1>4, <1>5

LEMMA FundStepsTold ==
    ASSUME ToldInv, NEW q \in Reader,
           CountFunds(q) \/ PageFunds(q) \/ SummariseFunds(q) \/ ByFund(q)
    PROVE  TellsOn(q)
<1> DEFINE r == readers[q]
<1>0. ReaderShape /\ DOMAIN r = DOMAIN NewReader
  BY DEF ToldInv, ReaderShape
<1>1. DOMAIN NewReader = {"report", "pc", "funded", "mid", "count", "page", "sum", "all",
                          "flows"}
  BY DEF NewReader
<1>2. ASSUME NEW reader, DOMAIN reader = DOMAIN NewReader, Reading(q, reader),
             r.report = "funds", reader.report = r.report,
             FundsTold(stored, r) => FundsTold(stored, reader)
      PROVE  TellsOn(q)
  <2>1. readers'[q] = reader /\ readers' = [readers EXCEPT ![q] = readers'[q]]
    BY <1>0, <1>2, Stepped
  <2>2. Told(stored, views, PastPrices, r) => Told(stored, views, PastPrices, reader)
    BY <1>2 DEF Told
  <2> QED BY <1>2, <2>1, <2>2 DEF TellsOn, Priced
<1>3. CASE CountFunds(q)
  <2> DEFINE reader == [r EXCEPT !.pc = "page", !.count = Cardinality(RowsOf(stored))]
  <2>1. /\ DOMAIN reader = DOMAIN NewReader /\ reader.pc = "page" /\ reader.report = r.report
        /\ reader.count = Cardinality(RowsOf(stored))
    BY <1>0, <1>1
  <2>2. Reading(q, reader) /\ r.report = "funds"
    BY <1>3 DEF CountFunds, Step, InReader
  <2> HIDE DEF reader, r
  <2>3. FundsTold(stored, reader)
    BY <2>1 DEF FundsTold
  <2> QED BY <1>2, <2>1, <2>2, <2>3
<1>4. CASE PageFunds(q)
  <2>0. PICK P \in Page(RowsOf(stored), Limit) :
           Step(q, [r EXCEPT !.pc = "sum", !.page = {LineOf(x) : x \in P}])
    BY <1>4 DEF PageFunds, LineOf
  <2> DEFINE reader == [r EXCEPT !.pc = "sum", !.page = {LineOf(x) : x \in P}]
  <2>1. /\ DOMAIN reader = DOMAIN NewReader /\ reader.pc = "sum" /\ reader.report = r.report
        /\ reader.count = r.count /\ reader.page = {LineOf(x) : x \in P}
    BY <1>0, <1>1
  <2>2. Reading(q, reader) /\ r.report = "funds" /\ r.pc = "page"
    BY <1>4, <2>0 DEF PageFunds, Step, InReader
  <2> HIDE DEF reader, r
  <2>3. FundsTold(stored, r) => FundsTold(stored, reader)
    BY <2>1, <2>2 DEF FundsTold
  <2> QED BY <1>2, <2>1, <2>2, <2>3
<1>5. CASE SummariseFunds(q)
  <2> DEFINE flows == Flows(RowsOf(stored))
             reader == [r EXCEPT !.pc = "by fund", !.flows = flows]
  <2>1. /\ DOMAIN reader = DOMAIN NewReader /\ reader.pc = "by fund"
        /\ reader.report = r.report /\ reader.count = r.count /\ reader.page = r.page
        /\ reader.flows = flows
    BY <1>0, <1>1
  <2>2. Reading(q, reader) /\ r.report = "funds" /\ r.pc = "sum"
    BY <1>5 DEF SummariseFunds, Step, InReader
  <2> HIDE DEF reader, r
  <2>3. FundsTold(stored, r) => FundsTold(stored, reader)
    BY <2>1, <2>2 DEF FundsTold
  <2> QED BY <1>2, <2>1, <2>2, <2>3
<1>6. CASE ByFund(q)
  <2> DEFINE all == FundNets(stored)
             reader == [r EXCEPT !.pc = "done", !.all = all]
  <2>1. /\ DOMAIN reader = DOMAIN NewReader /\ reader.pc = "done"
        /\ reader.report = r.report /\ reader.count = r.count /\ reader.page = r.page
        /\ reader.flows = r.flows /\ reader.all = all
    BY <1>0, <1>1
  <2>2. Reading(q, reader) /\ r.report = "funds" /\ r.pc = "by fund"
    BY <1>6 DEF ByFund, Step, InReader, Sum, FundNets
  <2> HIDE DEF reader, r
  <2>3. FundsTold(stored, r) => FundsTold(stored, reader)
    BY <2>1, <2>2 DEF FundsTold
  <2> QED BY <1>2, <2>1, <2>2, <2>3
<1> QED BY <1>3, <1>4, <1>5, <1>6

\* The lines the list shows are those of the codes' amounts.
LEMMA GoalLines ==
    ASSUME NEW P \in Page(GoalRows, Limit)
    PROVE  {<<c, GoalAmount(c)>> : c \in P} \in Lines(Codes(views.goals), AmountIn(views.goals))
<1>1. GoalRows = Codes(views.goals) /\ P \subseteq GoalRows
  BY DEF GoalRows, Codes, Page
<1>2. \A c \in P : GoalAmount(c) = AmountIn(views.goals)[c]
  BY <1>1 DEF GoalAmount, AmountIn, Amount
<1>3. {<<c, GoalAmount(c)>> : c \in P} = {<<c, AmountIn(views.goals)[c]>> : c \in P}
  BY <1>2
<1> QED BY <1>1, <1>3 DEF Lines

LEMMA GoalStepsTold ==
    ASSUME ToldInv, NEW q \in Reader,
           \/ ListGoals(q, "totals last") \/ ListGoals(q, "done")
           \/ TotalGoals(q, "list last") \/ TotalGoals(q, "done")
           \/ RowsOfGoal(q)
    PROVE  TellsOn(q)
<1> DEFINE r == readers[q]
<1>0. ReaderShape /\ DOMAIN r = DOMAIN NewReader
  BY DEF ToldInv, ReaderShape
<1>1. DOMAIN NewReader = {"report", "pc", "funded", "mid", "count", "page", "sum", "all",
                          "flows"}
  BY DEF NewReader
<1>2. ASSUME NEW reader, DOMAIN reader = DOMAIN NewReader, Reading(q, reader),
             r.report \in {"goals", "goal"}, reader.report = r.report,
             Told(stored, views, PastPrices, r) => Told(stored, views, PastPrices, reader)
      PROVE  TellsOn(q)
  <2>1. readers'[q] = reader /\ readers' = [readers EXCEPT ![q] = readers'[q]]
    BY <1>0, <1>2, Stepped
  <2> QED BY <1>2, <2>1 DEF TellsOn, Priced
<1>3. ASSUME NEW next \in {"totals last", "done"}, ListGoals(q, next)
      PROVE  TellsOn(q)
  <2>0. PICK P \in Page(GoalRows, Limit) :
           Step(q, [r EXCEPT !.pc = next, !.page = {<<c, GoalAmount(c)>> : c \in P}])
    BY <1>3 DEF ListGoals
  <2> DEFINE page == {<<c, GoalAmount(c)>> : c \in P}
             reader == [r EXCEPT !.pc = next, !.page = page]
  <2>1. /\ DOMAIN reader = DOMAIN NewReader /\ reader.pc = next /\ reader.report = r.report
        /\ reader.count = r.count /\ reader.sum = r.sum /\ reader.page = page
    BY <1>0, <1>1
  <2>2. /\ Reading(q, reader) /\ r.report = "goals"
        /\ r.pc = IF next = "done" THEN "list last" ELSE "list"
    BY <1>3, <2>0 DEF ListGoals, Step, InReader
  <2>3. page \in Lines(Codes(views.goals), AmountIn(views.goals))
    BY GoalLines
  <2> HIDE DEF reader, r, page
  <2>4. GoalsTold(views.goals, r) => GoalsTold(views.goals, reader)
    BY <1>3, <2>1, <2>2, <2>3 DEF GoalsTold
  <2>5. Told(stored, views, PastPrices, r) => Told(stored, views, PastPrices, reader)
    BY <2>1, <2>2, <2>4 DEF Told
  <2> QED BY <1>2, <2>1, <2>2, <2>5
<1>4. ASSUME NEW next \in {"list last", "done"}, TotalGoals(q, next)
      PROVE  TellsOn(q)
  <2> DEFINE sum == Sum(Codes(views.goals), LAMBDA c : Amount(views.goals, c))
             reader == [r EXCEPT !.pc = next, !.count = Cardinality(Codes(views.goals)),
                                 !.sum = sum]
  <2>0. GoalRows = Codes(views.goals) /\ Sum(GoalRows, GoalAmount) = sum
    BY DEF GoalRows, GoalAmount, Codes, Amount, Sum
  <2>1. /\ DOMAIN reader = DOMAIN NewReader /\ reader.pc = next /\ reader.report = r.report
        /\ reader.page = r.page /\ reader.sum = sum
        /\ reader.count = Cardinality(Codes(views.goals))
    BY <1>0, <1>1
  <2> HIDE DEF sum
  <2>2. /\ Reading(q, reader) /\ r.report = "goals"
        /\ r.pc = IF next = "done" THEN "totals last" ELSE "totals"
    BY <1>4, <2>0 DEF TotalGoals, Step, InReader
  <2> HIDE DEF reader, r
  <2>4. GoalsTold(views.goals, r) => GoalsTold(views.goals, reader)
    BY <1>4, <2>1, <2>2 DEF GoalsTold, sum
  <2>5. Told(stored, views, PastPrices, r) => Told(stored, views, PastPrices, reader)
    BY <2>1, <2>2, <2>4 DEF Told
  <2> QED BY <1>2, <2>1, <2>2, <2>5
<1>5. CASE RowsOfGoal(q)
  <2> DEFINE sum == Sum({x \in RowsOf(stored) : x.code \in {line[1] : line \in r.page}},
                        LAMBDA x : x.amount)
             reader == [r EXCEPT !.pc = "done", !.sum = sum]
  <2>1. /\ DOMAIN reader = DOMAIN NewReader /\ reader.pc = "done" /\ reader.report = r.report
        /\ reader.page = r.page /\ reader.sum = sum /\ reader.count = r.count
    BY <1>0, <1>1
  <2>2. Reading(q, reader) /\ r.report = "goal" /\ r.pc = "rows"
    BY <1>5 DEF RowsOfGoal, Step, InReader, Sum
  <2> HIDE DEF reader, r
  <2>4. GoalTold(stored, views.goals, r) => GoalTold(stored, views.goals, reader)
    BY <2>1, <2>2 DEF GoalTold
  <2>5. Told(stored, views, PastPrices, r) => Told(stored, views, PastPrices, reader)
    BY <2>1, <2>2, <2>4 DEF Told
  <2> QED BY <1>2, <2>1, <2>2, <2>5
<1> QED BY <1>3, <1>4, <1>5


-----------------------------------------------------------------------------
(* The others drop what they change from steady *)

LEMMA OthersKeepTold ==
    ASSUME UNCHANGED readers, PricedInv',
           ToldInv, steady' \subseteq steady,
           steady' = {} \/ UNCHANGED <<stored, views, prices>>
    PROVE  ToldInv'
<1>1. CASE steady' = {}
  BY <1>1 DEF ToldInv, ReaderShape
<1>2. CASE UNCHANGED <<stored, views, prices>>
  <2>1. PastPrices' = PastPrices
    BY <1>2, LatestKept
  <2>2. ReaderShape'
    BY DEF ToldInv, ReaderShape
  <2>3. \A p \in steady' : Told(stored', views', PastPrices', readers'[p])
    BY <1>2, <2>1 DEF ToldInv
  <2> QED BY <2>2, <2>3 DEF ToldInv
<1> QED BY <1>1, <1>2

LEMMA ReaderStepsTold ==
    ASSUME TypeInv, ToldInv, NEW q \in Reader, ReaderStep(q)
    PROVE  \/ TellsOn(q) /\ steady' \subseteq steady
           \/ /\ Reading(q, NewReader) /\ steady' = steady \ {q}
<1>1. CASE \/ QueryPrices(q) \/ CountRegistry(q) \/ PageRegistry(q) \/ SummariseRegistry(q)
  <2>1. UNCHANGED steady
    BY <1>1 DEF QueryPrices, CountRegistry, PageRegistry, SummariseRegistry, Step
  <2> QED BY <1>1, <2>1, RegistryStepsTold
<1>2. CASE FillCache(q)
  <2>1. UNCHANGED steady
    BY <1>2 DEF FillCache
  <2> QED BY <1>2, <2>1, RegistryStepsTold
<1>3. CASE QueryAsOf(q) \/ TotalAUM(q) \/ Categories(q)
  <2>1. UNCHANGED steady
    BY <1>3 DEF QueryAsOf, TotalAUM, Categories, Step
  <2> QED BY <1>3, <2>1, TotalStepsTold
<1>4. CASE CountFunds(q) \/ PageFunds(q) \/ SummariseFunds(q) \/ ByFund(q)
  <2>1. UNCHANGED steady
    BY <1>4 DEF CountFunds, PageFunds, SummariseFunds, ByFund, Step
  <2> QED BY <1>4, <2>1, FundStepsTold
<1>5. CASE \/ ListGoals(q, "totals last") \/ ListGoals(q, "done")
           \/ TotalGoals(q, "list last") \/ TotalGoals(q, "done") \/ RowsOfGoal(q)
  <2>1. UNCHANGED steady
    BY <1>5 DEF ListGoals, TotalGoals, RowsOfGoal, Step
  <2> QED BY <1>5, <2>1, GoalStepsTold
<1>6. CASE Close(q)
  BY <1>6 DEF Close
<1> QED BY <1>1, <1>2, <1>3, <1>4, <1>5, <1>6 DEF ReaderStep

\* One reader has changed, and knows what holds of the unchanged tables if it had been told
\* so far.
LEMMA OneReaderTold ==
    ASSUME TypeInv, ToldInv, UNCHANGED <<stored, views, prices>>, NEW q \in Reader,
           cache'.value # NULL => cache'.value \in Mid,
           readers' = [readers EXCEPT ![q] = readers'[q]],
           DOMAIN readers'[q] = DOMAIN NewReader,
           Priced(readers'[q]) => readers'[q].mid \in Mid,
           steady' \subseteq steady \union {q},
           q \in steady' => Told(stored, views, PastPrices, readers'[q])
    PROVE  ToldInv'
<1>1. PastPrices' = PastPrices
  BY LatestKept
<1>2. \A p \in Reader \ {q} : readers'[p] = readers[p]
  BY DEF ToldInv, ReaderShape
<1>3. ReaderShape'
  BY <1>2 DEF ToldInv, ReaderShape
<1>4. PricedInv'
  BY <1>2 DEF ToldInv, PricedInv
<1>5. \A p \in steady' : Told(stored', views', PastPrices', readers'[p])
  <2>1. \A p \in steady' : Told(stored, views, PastPrices, readers'[p])
    BY <1>2 DEF ToldInv, TypeInv
  <2> QED BY <1>1, <2>1
<1> QED BY <1>1, <1>3, <1>4, <1>5 DEF ToldInv


LEMMA ToldBegins == Init => ToldInv
<1> SUFFICES ASSUME Init PROVE ToldInv
  OBVIOUS
<1>1. PICK crew \in Crew :
         readers = [q \in Reader |-> IF q \in crew THEN NewReader
                                     ELSE [NewReader EXCEPT !.pc = "away"]]
  BY DEF Init
<1>2. ASSUME NEW q \in Reader
      PROVE  DOMAIN readers[q] = DOMAIN NewReader /\ readers[q].pc \in {"idle", "away"}
  BY <1>1 DEF NewReader
<1>3. ReaderShape
  BY <1>1, <1>2 DEF ReaderShape
<1>4. cache.value = NULL /\ steady = {}
  BY DEF Init, NoCache
<1> QED BY <1>2, <1>3, <1>4 DEF ToldInv, PricedInv, Priced

LEMMA ToldGoesOn == TypeInv /\ ToldInv /\ [Next]_vars => ToldInv'
<1> SUFFICES ASSUME TypeInv, ToldInv, [Next]_vars PROVE ToldInv'
  OBVIOUS
<1>1. ASSUME NEW r \in Refresher, RefresherMoves(r)
      PROVE  ToldInv'
  <2>1. UNCHANGED <<prices, cache, readers>> /\ steady' \subseteq steady
    <3>1. UNCHANGED <<prices, cache>> /\ steady' \in {steady, {}}
      BY <1>1, RefresherScope
    <3>2. UNCHANGED readers
      BY <1>1 DEF RefresherMoves, ChangeBatch, RefreshStep, RefreshAll, RefreshGoals,
                  RefreshBalances, BeginRefresh, EndRefresh, FailRefresh, RefreshCrash
    <3> QED BY <3>1, <3>2
  <2>2. steady' = {} \/ UNCHANGED <<stored, views>>
    BY <1>1 DEF RefresherMoves, ChangeBatch, RefreshStep, RefreshAll, RefreshGoals,
                RefreshBalances, BeginRefresh, EndRefresh, FailRefresh, RefreshCrash
  <2>3. PricedInv'
    BY <2>1 DEF ToldInv, PricedInv
  <2> QED BY <2>1, <2>2, <2>3, OthersKeepTold
<1>2. ASSUME NEW u \in Writer, WriterMoves(u)
      PROVE  ToldInv'
  <2>1. UNCHANGED <<stored, views, readers>> /\ steady' \subseteq steady
    BY <1>2, WriterScope
  <2>2. steady' = {} \/ UNCHANGED prices
    BY <1>2 DEF WriterMoves, WriterStep, BeginUpload, DeletePrice, RefuseLine, FindPrice,
                WritePrice, FailLine, EndUpload, EndDelete, WriterCrash, database
  <2>3. cache' = NoCache \/ UNCHANGED cache
    BY <1>2 DEF WriterMoves, WriterStep, BeginUpload, DeletePrice, RefuseLine, FindPrice,
                WritePrice, FailLine, EndUpload, EndDelete, WriterCrash, DropCache
  <2>4. PricedInv'
    BY <2>1, <2>3 DEF ToldInv, PricedInv, NoCache
  <2> QED BY <2>1, <2>2, <2>4, OthersKeepTold
<1>3. CASE Expire
  <2>1. PricedInv'
    BY <1>3 DEF Expire, NoCache, ToldInv, PricedInv
  <2> QED BY <1>3, <2>1, OthersKeepTold DEF Expire, database
<1>4. ASSUME NEW q \in Reader, ReaderBegins(q)
      PROVE  ToldInv'
  <2>1. /\ UNCHANGED <<stored, views, prices, cache>>
        /\ steady' \subseteq steady \union {q}
    <3>1. ~FillCache(q) \/ UNCHANGED cache
      BY <1>4 DEF ReaderBegins, BeginRegistry, BeginAsOf, BeginDashboard, BeginFunds,
                  BeginGoal, BeginGoals, Ask1
    <3> QED BY <1>4, <3>1, ReaderScope DEF database
  <2>2. cache'.value # NULL => cache'.value \in Mid
    BY <2>1 DEF ToldInv, PricedInv
  <2> QED BY <1>4, <2>1, <2>2, BeginsTold, OneReaderTold
<1>5. ASSUME NEW q \in Reader, ReaderStep(q)
      PROVE  ToldInv'
  <2>1. UNCHANGED <<stored, views, prices>>
    BY <1>5, ReaderScope DEF database
  <2>2. cache'.value # NULL => cache'.value \in Mid
    <3>1. CASE UNCHANGED cache
      BY <3>1 DEF ToldInv, PricedInv
    <3>2. CASE cache'.value = readers[q].mid /\ readers[q].mid \in Mid
      BY <3>2
    <3>3. ASSUME FillCache(q)
          PROVE  \/ UNCHANGED cache
                 \/ cache'.value = readers[q].mid /\ readers[q].mid \in Mid
      <4>1. Priced(readers[q])
        BY <3>3 DEF FillCache, InReader, Priced
      <4>2. readers[q].mid \in Mid
        BY <4>1 DEF ToldInv, PricedInv
      <4>3. cache' = [value |-> readers[q].mid, expires |-> TRUE] \/ UNCHANGED cache
        BY <3>3 DEF FillCache
      <4> QED BY <4>2, <4>3
    <3> QED BY <1>5, <3>1, <3>2, <3>3, ReaderScope
  <2>3. CASE TellsOn(q) /\ steady' \subseteq steady
    <3>1. q \in steady' => Told(stored, views, PastPrices, readers'[q])
      BY <2>3 DEF TellsOn, ToldInv
    <3> QED BY <2>1, <2>2, <2>3, <3>1, OneReaderTold DEF TellsOn
  <2>4. CASE Reading(q, NewReader) /\ steady' = steady \ {q}
    <3>1. readers' = [readers EXCEPT ![q] = readers'[q]] /\ readers'[q] = NewReader
      BY <2>4, Stepped DEF ToldInv
    <3>2. ~Priced(NewReader)
      BY DEF Priced, NewReader
    <3> QED BY <2>1, <2>2, <2>4, <3>1, <3>2, OneReaderTold
  <2> QED BY <1>5, <2>3, <2>4, ReaderStepsTold
<1>6. CASE UNCHANGED vars
  <2>1. UNCHANGED <<stored, views, prices, cache, readers, steady>>
    BY <1>6 DEF vars
  <2>2. PricedInv'
    BY <2>1 DEF ToldInv, PricedInv
  <2> QED BY <2>1, <2>2, OthersKeepTold
<1> QED BY <1>1, <1>2, <1>3, <1>4, <1>5, <1>6, StepCases


-----------------------------------------------------------------------------
(* What has been told adds up *)

LEMMA AccountWorths ==
    ASSUME NEW R \in SUBSET Row, NEW mid \in Mid
    PROVE  Numbers(Account, ByAccount(R, mid)) /\ Numbers(Account, ByHolder(R, mid))
<1>1. ASSUME NEW a \in Account
      PROVE  ByAccount(R, mid)[a] \in Int /\ ByHolder(R, mid)[a] \in Int
  <2>1. {r \in R : r.account = a} \in SUBSET Row /\ {r \in R : r.holder = a} \in SUBSET Row
    OBVIOUS
  <2> QED BY <2>1, ValueIsSum DEF ByAccount, ByHolder
<1> QED BY <1>1, DataAssumption DEF Numbers

LEMMA SomeNumbers ==
    ASSUME NEW A, NEW S \in SUBSET A, NEW worth, Numbers(A, worth)
    PROVE  Numbers(S, worth)
BY FS_Subset DEF Numbers

LEMMA TotalIsOver == ASSUME NEW A, NEW worth PROVE Total(A, worth) = Over(A, worth)
BY DEF Total, Sum, Over

LEMMA LinesAddUp ==
    ASSUME NEW S, NEW worth, Numbers(S, worth), NEW page \in Lines(S, worth)
    PROVE  /\ Cardinality(page) = Min({Cardinality(S), Limit})
           /\ Cardinality(S) <= Limit =>
                 Sum(page, LAMBDA line : line[2]) = Over(S, worth)
<1> DEFINE key == [a \in S |-> a]
<1>1. PICK P \in Page(S, Limit) : page = {<<a, worth[a]>> : a \in P}
  BY DEF Lines
<1>2. P \subseteq S
  BY DEF Page
<1>3. (\A l : l \in page <=> \E a \in P : l = <<key[a], worth[a]>>) /\ \A a, b \in S : key[a] = key[b] => a = b
  BY <1>1, <1>2
<1> HIDE DEF key
<1> QED BY <1>3, PageAddsUp

LEMMA RegistryAddsUp ==
    ASSUME NEW B, NEW r, r.mid \in Mid, r.pc = "done", RegistryTold(B, r),
           r.report = "registry"
    PROVE  AddsUp(r)
<1> DEFINE worth == ByAccount(RowsOf(B), r.mid)
           A == Shown(Account, worth, r.funded)
<1>1. RowsOf(B) \in SUBSET Row /\ A \in SUBSET Account
  BY DEF RowsOf, Shown
<1>2. Numbers(A, worth)
  BY <1>1, AccountWorths, SomeNumbers
<1>3. r.count = Cardinality(A) /\ r.page \in Lines(A, worth) /\ r.sum = Total(A, worth)
  BY DEF RegistryTold
<1> HIDE DEF worth, A
<1> QED BY <1>2, <1>3, LinesAddUp, TotalIsOver DEF AddsUp, PageFits

LEMMA AsOfAddsUp ==
    ASSUME NEW B, NEW past, NEW r, r.mid \in Mid, r.pc = "done", AsOfTold(B, past, r),
           r.report = "as of"
    PROVE  AddsUp(r)
<1> DEFINE worth == ByHolder(Past(B), r.mid)
           A == Shown({x.holder : x \in Past(B)}, worth, r.funded)
<1>1. Past(B) \in SUBSET Row
  BY DEF Past, RowsOf
<1>2. A \in SUBSET Account
  <2>1. \A x \in Past(B) : x.holder \in Account
    BY <1>1, DataAssumption
  <2> QED BY <2>1 DEF Shown
<1>3. Numbers(A, worth)
  <2>1. Numbers(Account, worth)
    BY <1>1, AccountWorths
  <2> HIDE DEF worth, A
  <2> QED BY <1>2, <2>1, SomeNumbers
<1>4. r.count = Cardinality(A) /\ r.page \in Lines(A, worth) /\ r.sum = Total(A, worth)
  BY DEF AsOfTold
<1> HIDE DEF worth, A
<1> QED BY <1>3, <1>4, LinesAddUp, TotalIsOver DEF AddsUp, PageFits

\* The lines of some rows: as many, with the same types and amounts.
LEMMA LinesOfRows ==
    ASSUME NEW S \in SUBSET Row
    PROVE  /\ \A x, y \in S : LineOf(x) = LineOf(y) => x = y
           /\ Cardinality({LineOf(x) : x \in S}) = Cardinality(S)
           /\ Sum({LineOf(x) : x \in S}, LAMBDA l : l.amount) = Over(S, Amounts)
<1> DEFINE line == [x \in S |-> LineOf(x)]
           page == {LineOf(x) : x \in S}
           amount == [l \in page |-> l.amount]
<1>1. \A x, y \in S : LineOf(x) = LineOf(y) => x = y
  <2>1. \A x, y \in S : LineOf(x) = LineOf(y) => x.id = y.id
    BY DEF LineOf
  <2> QED BY <2>1, DataAssumption
<1>2. \A x, y \in S : line[x] = line[y] => x = y
  BY <1>1
<1>3. page = {line[x] : x \in S} /\ \A x \in S : amount[line[x]] = Amounts[x]
  BY DEF LineOf, Amounts
<1>4. IsFiniteSet(S) /\ Numbers(S, Amounts)
  BY Tables DEF Numbers
<1>5. line \in Bijection(S, page)
  BY <1>2 DEF Bijection, Injection, Surjection, IsInjective
<1>6. [l \in page |-> l.amount] = [l \in page |-> amount[l]]
  OBVIOUS
<1>7. Sum(page, LAMBDA l : l.amount) = Over(page, amount)
  BY <1>6 DEF Sum, Over
<1> HIDE DEF line, page, amount
<1>8. Cardinality(page) = Cardinality(S)
  BY <1>4, <1>5, FS_Bijection DEF ExistsBijection
<1>9. Over(page, amount) = Over(S, Amounts)
  BY <1>2, <1>3, <1>4, OverImage
<1> QED BY <1>1, <1>7, <1>8, <1>9 DEF page

\* What the rows count: a deposit as it is, everything else the other way round.
Signed == [r \in Row |-> IF r.type = "DEPOSIT" THEN r.amount ELSE -r.amount]
DepositsIn(R) == {r \in R : r.type = "DEPOSIT"}
OthersIn(R) == {r \in R : r.type # "DEPOSIT"}

LEMMA SignedNumbers == ASSUME NEW R \in SUBSET Row PROVE Numbers(R, Signed)
BY FS_Subset, DataAssumption DEF Numbers, Signed

LEMMA FlowsOfRows ==
    ASSUME NEW R \in SUBSET Row
    PROVE  /\ Deposited(R) = Over(DepositsIn(R), Amounts)
           /\ Withdrawn(R) = Over(OthersIn(R), Amounts)
           /\ Flows(R).net = Over(R, Signed)
<1> DEFINE D == DepositsIn(R)
           W == OthersIn(R)
<1>0. D \in SUBSET Row /\ W \in SUBSET Row /\ D \union W = R /\ D \intersect W = {}
  BY DEF DepositsIn, OthersIn
<1>1. Deposited(R) = Over(D, Amounts) /\ Withdrawn(R) = Over(W, Amounts)
  BY <1>0, SumAmounts DEF Deposited, Withdrawn, DepositsIn, OthersIn
<1>2. (\A x \in D : Signed[x] = Amounts[x]) /\ \A x \in W : Signed[x] = -Amounts[x]
  BY <1>0 DEF DepositsIn, OthersIn, Signed, Amounts
<1>3. \A x \in W : Amounts[x] \in Int
  BY <1>0, DataAssumption DEF Amounts
<1> HIDE DEF D, W
<1>4. Numbers(D, Amounts) /\ Numbers(W, Amounts) /\ Numbers(D, Signed) /\ Numbers(W, Signed)
  BY <1>0, Tables, SignedNumbers
<1>5. Over(D, Signed) = Over(D, Amounts)
  <2> DEFINE same == [x \in D |-> x]
  <2>1. {same[x] : x \in D} = D /\ \A x \in D : Signed[same[x]] = Amounts[x]
    BY <1>2
  <2>2. \A x, y \in D : same[x] = same[y] => x = y
    OBVIOUS
  <2> HIDE DEF same
  <2>3. Over({same[x] : x \in D}, Signed) = Over(D, Amounts)
    BY <1>4, <2>1, <2>2, OverImage
  <2> QED BY <2>1, <2>3
<1>6. Over(W, Signed) = -Over(W, Amounts)
  <2> DEFINE nothing == [x \in W |-> 0]
  <2>1. \A x \in W : nothing[x] = Signed[x] + Amounts[x]
    BY <1>2, <1>3
  <2>2. \A x \in W : nothing[x] = 0
    OBVIOUS
  <2> HIDE DEF nothing
  <2>3. Over(W, nothing) = Over(W, Signed) + Over(W, Amounts)
    BY <1>4, <2>1, OverPlus
  <2>4. Over(W, nothing) = 0
    BY <1>4, <2>2, OverZero DEF Numbers
  <2>5. Over(W, Signed) \in Int /\ Over(W, Amounts) \in Int
    BY <1>4, OverType
  <2> QED BY <2>3, <2>4, <2>5
<1>7. Over(R, Signed) = Over(D, Signed) + Over(W, Signed)
  BY <1>0, <1>4, OverUnion
<1>8. Over(D, Amounts) \in Int /\ Over(W, Amounts) \in Int
  BY <1>4, OverType
<1>9. Over(R, Signed) = Over(D, Amounts) - Over(W, Amounts)
  BY <1>5, <1>6, <1>7, <1>8
<1> QED BY <1>1, <1>9 DEF Flows, D, W

\* A page of all rows has the flows of the rows.
LEMMA FlowsOfLines ==
    ASSUME NEW R \in SUBSET Row
    PROVE  Flows({LineOf(x) : x \in R}) = Flows(R)
<1> DEFINE page == {LineOf(x) : x \in R}
<1>1. {l \in page : l.type = "DEPOSIT"} = {LineOf(x) : x \in DepositsIn(R)}
  BY DEF LineOf, DepositsIn
<1>2. {l \in page : l.type # "DEPOSIT"} = {LineOf(x) : x \in OthersIn(R)}
  BY DEF LineOf, OthersIn
<1>3. DepositsIn(R) \in SUBSET Row /\ OthersIn(R) \in SUBSET Row
  BY DEF DepositsIn, OthersIn
<1>4. /\ Sum({LineOf(x) : x \in DepositsIn(R)}, LAMBDA l : l.amount) = Over(DepositsIn(R), Amounts)
      /\ Sum({LineOf(x) : x \in OthersIn(R)}, LAMBDA l : l.amount) = Over(OthersIn(R), Amounts)
  BY <1>3, LinesOfRows
<1>5. Deposited(page) = Over(DepositsIn(R), Amounts)
  BY <1>1, <1>4 DEF Deposited
<1>6. Withdrawn(page) = Over(OthersIn(R), Amounts)
  BY <1>2, <1>4 DEF Withdrawn
<1> HIDE DEF page
<1>7. Deposited(page) = Deposited(R) /\ Withdrawn(page) = Withdrawn(R)
  BY <1>5, <1>6, FlowsOfRows
<1> QED BY <1>7 DEF Flows, page

LEMMA FundsAddUp ==
    ASSUME NEW B, NEW r, r.pc = "done", FundsTold(B, r), r.report = "funds"
    PROVE  FlowsAddUp(r)
<1> DEFINE R == RowsOf(B)
           fund == [x \in R |-> x.fund]
           Of == [f \in Fund |-> {x \in R : fund[x] = f}]
           net == [f \in Fund |-> Over(Of[f], Signed)]
<1>1. R \in SUBSET Row
  BY DEF RowsOf
<1>2. Numbers(R, Signed) /\ IsFiniteSet(R)
  BY <1>1, SignedNumbers DEF Numbers
<1>3. PICK P \in Page(R, Limit) : r.page = {LineOf(x) : x \in P}
  BY DEF FundsTold
<1>4. P \in SUBSET R /\ P \in SUBSET Row
  BY <1>1 DEF Page
<1>5. Cardinality(R) \in Nat /\ Limit \in Nat
  BY <1>2, FS_CardinalityType, DataAssumption
<1>6. r.count = Cardinality(R) /\ r.flows = Flows(R)
  BY DEF FundsTold
<1>7. PageFits(r)
  <2>1. Cardinality(r.page) = Cardinality(P)
    BY <1>3, <1>4, LinesOfRows
  <2>2. Cardinality(P) = Min({Cardinality(R), Limit})
    BY <1>5 DEF Page, Min
  <2> QED BY <1>6, <2>1, <2>2 DEF PageFits
<1>8. ASSUME r.count <= Limit PROVE r.flows = Flows(r.page)
  <2>1. Cardinality(P) = Cardinality(R)
    BY <1>5, <1>6, <1>8 DEF Page
  <2>2. P = R
    BY <1>2, <1>4, <2>1, FS_Subset
  <2> QED BY <1>1, <1>3, <1>6, <2>2, FlowsOfLines
<1>9. ASSUME Fund \subseteq Summarised PROVE r.all = Over(Fund, net)
  <2>1. ASSUME NEW f \in Fund
        PROVE  NetOf({x \in R : x.fund = f}) = net[f]
    <3>1. {x \in R : x.fund = f} = Of[f]
      OBVIOUS
    <3>2. {x \in R : x.fund = f} \in SUBSET Row
      BY <1>1
    <3> HIDE DEF R
    <3>3. NetOf({x \in R : x.fund = f}) = Over({x \in R : x.fund = f}, Signed)
      BY <3>2, FlowsOfRows DEF NetOf
    <3> QED BY <3>1, <3>3
  <2>2. Fund \intersect Summarised = Fund
    BY <1>9
  <2>3. r.all = Sum(Fund, LAMBDA f : NetOf({x \in R : x.fund = f}))
    BY <2>2 DEF FundsTold, FundNets
  <2>4. [f \in Fund |-> NetOf({x \in R : x.fund = f})] = [f \in Fund |-> net[f]]
    BY <2>1
  <2> HIDE DEF net, R
  <2> QED BY <2>3, <2>4 DEF Sum, Over
<1>10. Over(Fund, net) = Over(R, Signed)
  <2>1. \A x \in R : fund[x] \in Fund
    BY <1>1, DataAssumption
  <2>2. \A f \in Fund : net[f] = Over(Of[f], Signed)
    OBVIOUS
  <2>3. IsFiniteSet(Fund)
    BY DataAssumption
  <2>4. Partition(Of, R, Fund, fund)
    BY DEF Partition
  <2> HIDE DEF net, R, fund, Of
  <2> QED BY <1>2, <2>1, <2>2, <2>3, <2>4, OverParts
<1> HIDE DEF R, fund, net, Of
<1>11. Fund \subseteq Summarised => r.all = r.flows.net
  BY <1>1, <1>6, <1>9, <1>10, FlowsOfRows
<1> QED BY <1>7, <1>8, <1>11 DEF FlowsAddUp

LEMMA CodeAmounts ==
    ASSUME NEW B
    PROVE  /\ Numbers(Codes(B), AmountIn(B))
           /\ Sum(Codes(B), LAMBDA c : Amount(B, c)) = Over(Codes(B), AmountIn(B))
<1>1. RowsOf(B) \in SUBSET Row /\ IsFiniteSet(RowsOf(B))
  BY FS_Subset, DataAssumption DEF RowsOf
<1>2. IsFiniteSet(Codes(B))
  <2> DEFINE code == [r \in RowsOf(B) |-> r.code]
  <2>1. Codes(B) = {code[r] : r \in RowsOf(B)}
    BY DEF Codes
  <2> HIDE DEF code
  <2> QED BY <1>1, <2>1, ImageFinite
<1>3. \A c \in Codes(B) : Amount(B, c) \in Int
  <2> TAKE c \in Codes(B)
  <2>1. {r \in RowsOf(B) : r.code = c} \in SUBSET Row
    BY <1>1
  <2> QED BY <2>1, SumAmounts DEF Amount
<1>4. [c \in Codes(B) |-> Amount(B, c)] = [c \in Codes(B) |-> AmountIn(B)[c]]
  BY DEF AmountIn
<1> QED BY <1>2, <1>3, <1>4 DEF Numbers, AmountIn, Sum, Over

LEMMA GoalsAddUp ==
    ASSUME NEW B, NEW r, r.pc = "done", GoalsTold(B, r), r.report = "goals"
    PROVE  AddsUp(r)
<1>1. /\ r.page \in Lines(Codes(B), AmountIn(B)) /\ r.count = Cardinality(Codes(B))
      /\ r.sum = Over(Codes(B), AmountIn(B))
  BY CodeAmounts DEF GoalsTold
<1>2. Numbers(Codes(B), AmountIn(B))
  BY CodeAmounts
<1> QED BY <1>1, <1>2, LinesAddUp DEF AddsUp, PageFits

LEMMA GoalAddsUp ==
    ASSUME NEW B, NEW r, r.pc = "done", GoalTold(B, B, r), r.report = "goal"
    PROVE  AddsUp(r)
<1>1. PICK c \in Codes(B) : r.page = {<<c, Amount(B, c)>>}
  BY DEF GoalTold
<1>2. {line[1] : line \in r.page} = {c}
  BY <1>1
<1>3. {x \in RowsOf(B) : x.code \in {line[1] : line \in r.page}} = {x \in RowsOf(B) : x.code = c}
  BY <1>2
<1>4. r.count = 1
        /\ r.sum = Sum({x \in RowsOf(B) : x.code \in {line[1] : line \in r.page}},
                       LAMBDA x : x.amount)
  BY DEF GoalTold
<1>5. r.sum = Amount(B, c)
  BY <1>3, <1>4 DEF Amount
<1>6. Amount(B, c) \in Int
  <2>1. {x \in RowsOf(B) : x.code = c} \in SUBSET Row
    BY DEF RowsOf
  <2> QED BY <2>1, SumAmounts DEF Amount
<1>7. Sum(r.page, LAMBDA line : line[2]) = Amount(B, c)
  <2> DEFINE line == <<c, Amount(B, c)>>
             second == [l \in {line} |-> l[2]]
  <2>1. second[line] = Amount(B, c)
    OBVIOUS
  <2>2. [l \in {line} |-> l[2]] = [l \in {line} |-> second[l]]
    OBVIOUS
  <2>3. Sum({line}, LAMBDA l : l[2]) = Over({line}, second)
    BY <2>2 DEF Sum, Over
  <2> HIDE DEF line, second
  <2>4. Over({line}, second) = second[line]
    BY <1>6, <2>1, OverSingle
  <2> QED BY <1>1, <2>1, <2>3, <2>4 DEF line
<1>8. Cardinality(r.page) = 1 /\ Min({1, Limit}) = 1
  <2>1. Limit \in Nat \ {0} /\ 1 \in {1, Limit} /\ \A n \in {1, Limit} : 1 <= n
    BY DataAssumption
  <2>2. Min({1, Limit}) = 1
    BY <2>1 DEF Min
  <2> QED BY <1>1, <2>2, FS_Singleton
<1> QED BY <1>4, <1>5, <1>7, <1>8 DEF AddsUp, PageFits

\* Where nothing has changed since the question, a list is complete up to its limit, its
\* count is the number of what is listed, and a list of everything adds up to the totals
\* that were asked for separately, the fund list to its deposits and withdrawals; the net
\* flows of the funds add up to that of all where each fund is one of the four that are
\* summarised, and one goal's rows to what the view has of it (getUnitRegistry, getUnitRegistryAsOfDate, the
\* lists of fundTransactionRoutes.ts and goalTransactionRoutes.ts).
THEOREM ListsAddUp == Spec => []AnswersAddUp
<1>1. TypeInv /\ ToldInv => AnswersAddUp
  <2> SUFFICES ASSUME TypeInv, ToldInv, NEW q \in Reader
               PROVE  /\ \A report \in {"registry", "as of", "goals"} :
                            Seen(q, report) => AddsUp(readers[q])
                      /\ Seen(q, "funds") => FlowsAddUp(readers[q])
                      /\ Seen(q, "goal") /\ views.goals = stored => AddsUp(readers[q])
    BY DEF AnswersAddUp
  <2> DEFINE r == readers[q]
  <2>1. ASSUME NEW report, Seen(q, report)
        PROVE  Told(stored, views, PastPrices, r) /\ r.report = report /\ r.pc = "done"
    BY <2>1 DEF Seen, InReader, ToldInv
  <2>2. ASSUME NEW report \in {"registry", "as of"}, Seen(q, report)
        PROVE  r.mid \in Mid
    BY <2>1, <2>2 DEF ToldInv, PricedInv, Priced
  <2> HIDE DEF r
  <2>3. Seen(q, "registry") => AddsUp(r)
    BY <2>1, <2>2, RegistryAddsUp DEF Told
  <2>4. Seen(q, "as of") => AddsUp(r)
    BY <2>1, <2>2, AsOfAddsUp DEF Told
  <2>5. Seen(q, "funds") => FlowsAddUp(r)
    BY <2>1, FundsAddUp DEF Told
  <2>6. Seen(q, "goals") => AddsUp(r)
    BY <2>1, GoalsAddUp DEF Told
  <2>7. Seen(q, "goal") /\ views.goals = stored => AddsUp(r)
    BY <2>1, GoalAddsUp DEF Told
  <2> QED BY <2>3, <2>4, <2>5, <2>6, <2>7 DEF r
<1> QED BY <1>1, InitType, NextType, ToldBegins, ToldGoesOn, PTL DEF Spec


-----------------------------------------------------------------------------
(* Two reports of the same data *)

LEMMA CategoriesAddUp ==
    ASSUME NEW worth, Numbers(Account, worth)
    PROVE  ByCategory(worth) = Over(Account, worth)
<1> DEFINE category == [a \in Account |-> CategoryOf(a)]
           C == {CategoryOf(a) : a \in Account}
           part == [c \in C |-> InCategory(c)]
           aum == [c \in C |-> Over(part[c], worth)]
<1>1. C = {category[a] : a \in Account}
  OBVIOUS
<1>2. IsFiniteSet({category[a] : a \in Account})
  <2>1. IsFiniteSet(Account)
    BY DEF Numbers
  <2> HIDE DEF category
  <2> QED BY <2>1, ImageFinite
<1>3. Partition(part, Account, C, category)
  BY DEF Partition, InCategory
<1>4. [c \in C |-> Total(InCategory(c), worth)] = [c \in C |-> aum[c]]
  BY TotalIsOver
<1>5. ByCategory(worth) = Over(C, aum)
  <2> HIDE DEF aum
  <2> QED BY <1>4 DEF ByCategory, Sum, Over
<1>6. (\A a \in Account : category[a] \in C) /\ (\A c \in C : aum[c] = Over(part[c], worth))
  OBVIOUS
<1>7. IsFiniteSet(C)
  BY <1>1, <1>2
<1> HIDE DEF category, C, part, aum
<1> QED BY <1>3, <1>5, <1>6, <1>7, OverParts

\* The dashboard's total and its funded accounts are those of the funded registry, and its
\* categories together are the whole registry, when both were opened on the same data at
\* the same prices (DashboardService's own SQL against getUnitRegistry).
THEOREM DashboardMatches == Spec => []DashboardAgrees
<1>1. TypeInv /\ ToldInv => DashboardAgrees
  <2> SUFFICES ASSUME TypeInv, ToldInv, NEW p \in Reader, NEW q \in Reader,
                      Seen(p, "dashboard"), Seen(q, "registry"),
                      readers[p].mid = readers[q].mid
               PROVE  IF readers[q].funded
                      THEN /\ readers[p].sum = readers[q].sum
                           /\ readers[p].count = readers[q].count
                      ELSE readers[p].all = readers[q].sum
    BY DEF DashboardAgrees
  <2> DEFINE r == readers[p]
             s == readers[q]
             worth == ByAccount(RowsOf(views.balances), s.mid)
  <2>1. DashboardTold(views.balances, r) /\ r.pc = "done"
    BY DEF Seen, InReader, ToldInv, Told
  <2>2. RegistryTold(views.balances, s) /\ s.pc = "done" /\ s.report = "registry"
    BY DEF Seen, InReader, ToldInv, Told
  <2>3. s.mid \in Mid
    BY <2>2 DEF ToldInv, PricedInv, Priced
  <2>4. RowsOf(views.balances) \in SUBSET Row
    BY DEF RowsOf
  <2>5. Numbers(Account, worth)
    BY <2>3, <2>4, AccountWorths
  <2>6. r.mid = s.mid
    OBVIOUS
  <2> HIDE DEF r, s
  <2>7. /\ r.count = Cardinality(Shown(Account, worth, TRUE))
        /\ r.sum = Total(Shown(Account, worth, TRUE), worth)
        /\ r.all = ByCategory(worth)
    BY <2>1, <2>6 DEF DashboardTold
  <2>8. /\ s.count = Cardinality(Shown(Account, worth, s.funded))
        /\ s.sum = Total(Shown(Account, worth, s.funded), worth)
    BY <2>2 DEF RegistryTold
  <2> HIDE DEF worth
  <2>9. CASE s.funded
    <3>1. Shown(Account, worth, s.funded) = Shown(Account, worth, TRUE)
      BY <2>9 DEF Shown
    <3> QED BY <2>7, <2>8, <2>9, <3>1 DEF r, s
  <2>10. CASE ~s.funded
    <3>1. Shown(Account, worth, s.funded) = Account
      BY <2>10 DEF Shown
    <3> QED BY <2>5, <2>7, <2>8, <2>10, <3>1, CategoriesAddUp, TotalIsOver DEF r, s
  <2> QED BY <2>9, <2>10
<1> QED BY <1>1, InitType, NextType, ToldBegins, ToldGoesOn, PTL DEF Spec

\* Every row is dated up to the day or later.
LEMMA PastAndLater ==
    ASSUME NEW B
    PROVE  /\ Past(B) \in SUBSET Row /\ Later(RowsOf(B)) \in SUBSET Row
           /\ Past(B) \intersect Later(RowsOf(B)) = {}
           /\ Past(B) \union Later(RowsOf(B)) = RowsOf(B)
<1>1. Day \subseteq Int /\ Today \in Int /\ \A r \in Row : r.day \in Int
  BY DataAssumption
<1>2. \A r \in Row : (r.day <= Today) <=> ~(r.day > Today)
  BY <1>1
<1> QED BY <1>2 DEF Past, Later, RowsOf

LEMMA TotalStays ==
    ASSUME NEW worth, Numbers(Account, worth), NEW funded
    PROVE  Total(Shown(Account, worth, funded), worth) + 0
              = Total(Shown(Account, worth, funded), worth)
<1> DEFINE A == Shown(Account, worth, funded)
<1>1. A \in SUBSET Account
  BY DEF Shown
<1> HIDE DEF A
<1>2. Total(A, worth) \in Int
  BY <1>1, SomeNumbers, OverType, TotalIsOver
<1> QED BY <1>2 DEF A

LEMMA NothingIsLittle == ~Funded(0)
BY DEF Funded, Threshold

\* An account without rows is worth nothing.
LEMMA NoRowsNoWorth ==
    ASSUME NEW R \in SUBSET Row, NEW mid \in Mid,
           NEW a \in Account \ {r.holder : r \in R}
    PROVE  ByHolder(R, mid)[a] = 0
<1>1. {r \in R : r.holder = a} = {}
  OBVIOUS
<1>2. ByHolder(R, mid)[a] = Value({r \in R : r.holder = a}, mid)
  BY DEF ByHolder
<1> QED BY <1>1, <1>2, ValueEmpty

\* All accounts together are worth what all rows are.
LEMMA WholeWorth ==
    ASSUME NEW R \in SUBSET Row, NEW mid \in Mid
    PROVE  /\ Over(Account, ByAccount(R, mid)) = Value(R, mid)
           /\ Over(Account, ByHolder(R, mid)) = Value(R, mid)
<1>0. \A r \in R : r.account \in Account /\ r.holder \in Account
  BY DataAssumption
<1>1. Over(Account, ByAccount(R, mid)) = Value(R, mid)
  <2> DEFINE p == [r \in R |-> r.account]
             part == [a \in Account |-> {r \in R : r.account = a}]
             worth == ByAccount(R, mid)
  <2>1. Partition(part, R, Account, p)
    BY DEF Partition
  <2>2. (\A r \in R : p[r] \in Account) /\ (\A a \in Account : worth[a] = Value(part[a], mid))
    BY <1>0 DEF ByAccount
  <2> HIDE DEF p, part, worth
  <2>3. Over(Account, worth) = Value(R, mid)
    BY <2>1, <2>2, ValueParts
  <2> QED BY <2>3 DEF worth
<1>2. Over(Account, ByHolder(R, mid)) = Value(R, mid)
  <2> DEFINE p == [r \in R |-> r.holder]
             part == [a \in Account |-> {r \in R : r.holder = a}]
             worth == ByHolder(R, mid)
  <2>1. Partition(part, R, Account, p)
    BY DEF Partition
  <2>2. (\A r \in R : p[r] \in Account) /\ (\A a \in Account : worth[a] = Value(part[a], mid))
    BY <1>0 DEF ByHolder
  <2> HIDE DEF p, part, worth
  <2>3. Over(Account, worth) = Value(R, mid)
    BY <2>1, <2>2, ValueParts
  <2> QED BY <2>3 DEF worth
<1> QED BY <1>1, <1>2

\* The registry as of a day adds up to what the registry adds up to that was computed from
\* an up-to-date view at the prices of that day, less what is dated later; with the
\* threshold so, where nothing is dated later and the goals of funded accounts are of the
\* accounts their rows name (getUnitRegistryAsOfDate against getUnitRegistry).
THEOREM AsOfMatches == Spec => []AsOfAgrees
<1>1. TypeInv /\ ToldInv => AsOfAgrees
  <2> DEFINE R == RowsOf(stored)
             L == Later(R)
  <2> SUFFICES ASSUME TypeInv, ToldInv, NEW p \in Reader, NEW q \in Reader,
                      Seen(p, "as of"), Seen(q, "registry"),
                      readers[p].funded = readers[q].funded,
                      views.balances = stored, readers[q].mid = PastPrices,
                      readers[p].funded => L = {} /\ \A x \in R : x.account = x.holder
               PROVE  readers[q].sum = readers[p].sum + Value(L, PastPrices)
    BY DEF AsOfAgrees
  <2> DEFINE T == Past(stored)
             H == {x.holder : x \in T}
             held == ByHolder(T, PastPrices)
             named == ByAccount(R, PastPrices)
             r == readers[p]
             s == readers[q]
  <2>1. AsOfTold(stored, PastPrices, r) /\ r.pc = "done"
    BY DEF Seen, InReader, ToldInv, Told
  <2>2. RegistryTold(stored, s) /\ s.pc = "done"
    BY DEF Seen, InReader, ToldInv, Told
  <2>3. PastPrices \in Mid /\ R \in SUBSET Row
    BY LatestIsMid DEF RowsOf
  <2>0. /\ T \in SUBSET Row /\ L \in SUBSET Row
        /\ T \intersect L = {} /\ T \union L = R
    BY PastAndLater
  <2>4. r.sum = Total(Shown(H, held, r.funded), held)
    BY <2>1 DEF AsOfTold
  <2>5. s.sum = Total(Shown(Account, named, r.funded), named)
    BY <2>2 DEF RegistryTold
  <2>6. H \subseteq Account
    BY <2>0, DataAssumption
  <2>7. \A a \in Account \ H : held[a] = 0
    BY <2>0, <2>3, NoRowsNoWorth
  <2>8. Numbers(Account, held) /\ Numbers(Account, named)
    BY <2>0, <2>3, AccountWorths
  <2>9. CASE r.funded
    <3>0. L = {} /\ T = R /\ \A x \in R : x.account = x.holder
      BY <2>0, <2>9
    <3>1. held = named
      <4>1. \A a \in Account : {x \in R : x.account = a} = {x \in T : x.holder = a}
        <5> HIDE DEF R, T, L
        <5> QED BY <3>0
      <4> HIDE DEF R, T, L
      <4>2. \A a \in Account : Value({x \in R : x.account = a}, PastPrices)
                                  = Value({x \in T : x.holder = a}, PastPrices)
        BY <4>1, Zenon
      <4> QED BY <4>2, Zenon DEF ByAccount, ByHolder
    <3> HIDE DEF R, T, L, H, held, named, r, s
    <3>2. Shown(H, held, r.funded) = Shown(Account, held, r.funded)
      <4>1. ASSUME NEW a \in Account, Funded(held[a]) PROVE a \in H
        BY <2>7, <4>1, NothingIsLittle
      <4> QED BY <2>6, <2>9, <4>1 DEF Shown
    <3>3. s.sum = r.sum
      BY <2>4, <2>5, <3>1, <3>2
    <3>4. Value(L, PastPrices) = 0
      BY <2>3, <3>0, ValueEmpty
    <3>5. Total(Shown(Account, held, r.funded), held) + 0
             = Total(Shown(Account, held, r.funded), held)
      BY <2>8, TotalStays
    <3>6. s.sum = r.sum + Value(L, PastPrices)
      BY <2>4, <3>2, <3>3, <3>4, <3>5, Zenon
    <3> QED BY <3>6, Zenon DEF r, s
  <2>10. CASE ~r.funded
    <3> HIDE DEF R, T, L, H, held, named, r, s
    <3>1. Shown(H, held, r.funded) = H /\ Shown(Account, named, r.funded) = Account
      BY <2>10 DEF Shown
    <3>2. Over(Account, held) = Over(H, held)
      BY <2>6, <2>7, <2>8, OverOutside
    <3>3. Over(Account, held) = Value(T, PastPrices)
      BY <2>0, <2>3, WholeWorth DEF held
    <3>4. Over(Account, named) = Value(R, PastPrices)
      BY <2>3, WholeWorth DEF named
    <3>5. Value(R, PastPrices) = Value(T, PastPrices) + Value(L, PastPrices)
      BY <2>0, <2>3, ValueUnion
    <3> QED BY <2>4, <2>5, <3>1, <3>2, <3>3, <3>4, <3>5, TotalIsOver DEF r, s
  <2> QED BY <2>9, <2>10
<1> QED BY <1>1, InitType, NextType, ToldBegins, ToldGoesOn, PTL DEF Spec
=============================================================================

----------------------------- MODULE FileRules -----------------------------
(***************************************************************************)
(* How the rows of fund and bank files are read and judged: dates, the     *)
(* columns of a fund split, the goal transaction code, and which rows and  *)
(* groups keep a file out.                                                 *)
(*                                                                         *)
(* A text is what its separators make of it: a date is its form and its    *)
(* numbers, an account, goal or transaction id the parts between dashes, a *)
(* number its sign and its value.  Instants are hours since the epoch in   *)
(* UTC; zone is what the server's local time is ahead.                     *)
(***************************************************************************)
EXTENDS Integers, FiniteSets, Sequences, SequencesExt

CONSTANTS
    NoDate,         \* a date that cannot be read
    NoNumber,       \* a number that cannot be read
    Now             \* the instant at which files are judged

ASSUME ClockAssumption == Now \in Nat

\* YYYY-MM-DD, DD/MM/YYYY, DD-MM-YYYY, DD/MM/YY, DD-MM-YY and DD-Mon-YY, with two digits
\* for days and months and a month that has a name.
Dashed == {"dash4", "dash2"}
IsDateText(t) ==
    /\ t.day \in 0..99 /\ t.month \in IF t.form = "dmy" THEN 1..12 ELSE 0..99
    /\ t.form \in {"iso", "slash4", "slash2", "dmy"} \union Dashed
    /\ t.year \in Nat /\ t.year < 10000
    /\ t.form \in {"slash2", "dash2", "dmy"} <=> t.year < 100

-----------------------------------------------------------------------------
(* Calendar: the JavaScript Date constructor, which carries over *)

MonthStart == <<0, 31, 59, 90, 120, 151, 181, 212, 243, 273, 304, 334>>
Leap(y) == y % 4 = 0 /\ (y % 100 # 0 \/ y % 400 = 0)
DayNumber(year, month, day) ==
    LET y == year + (month - 1) \div 12
        m == ((month - 1) % 12) + 1
        past == y - 1
    IN  365 * y + past \div 4 - past \div 100 + past \div 400 + MonthStart[m]
        + (IF Leap(y) /\ m > 2 THEN 1 ELSE 0) + day

Midnight(t, year, zone) == 24 * DayNumber(year, t.month, t.day) - zone
DayOf(hour) == hour \div 24
LocalDay(hour, zone) == DayOf(hour + zone)

FullYear(y) == IF y >= 100 THEN y ELSE IF y < 50 THEN 2000 + y ELSE 1900 + y
InRange(month, day) == month \in 1..12 /\ day \in 1..31

Magnitude(n) == IF n < 0 THEN -n ELSE n
Flag(condition, code) == IF condition THEN {code} ELSE {}
TransactionTypes == {"DEPOSIT", "WITHDRAWAL", "REDEMPTION", "SWITCH", "DIVIDEND", "TRANSFER"}
FundCodes == {"XUMMF", "XUBF", "XUDEF", "XUREF"}

-----------------------------------------------------------------------------
(* Fund files *)

\* parseFloat reads neither a blank nor a sign behind a sign; a pound, euro or yen sign
\* is stripped.
FundNumber(t) ==
    CASE t.form \in {"blank", "word", "minus in parentheses"} -> NoNumber
      [] t.form \in {"minus", "parentheses"} -> -t.value
      [] OTHER -> t.value

MonthFirst(t, zone) == 24 * DayNumber(FullYear(t.year), t.day, t.month) - zone
YearFirst(t, zone) == 24 * DayNumber(FullYear(t.day), t.month, t.year) - zone

\* Mutant: the American order is tried first.
FundDateMonthFirst(t, zone) ==
    CASE t.form = "iso" -> IF InRange(t.month, t.day) THEN Midnight(t, t.year, 0) ELSE NoDate
      [] t.form = "slash4" -> MonthFirst(t, zone)
      [] OTHER -> Midnight(t, FullYear(t.year), zone)

\* What new Date reads comes first: ISO dates in UTC, DD-MM-YYYY and DD-MM-YY month
\* first, and what begins with no day of a month year first.  All other forms are local,
\* and days and months beyond the end carry over.
FundDate(t, zone) ==
    CASE t.form = "iso" -> IF InRange(t.month, t.day) THEN Midnight(t, t.year, 0) ELSE NoDate
      [] t.form \in Dashed /\ t.day \in 1..31 ->
            IF InRange(t.day, t.month) THEN MonthFirst(t, zone) ELSE NoDate
      [] t.form \in Dashed /\ t.day \notin 1..31 ->
            IF InRange(t.month, t.year) THEN YearFirst(t, zone) ELSE NoDate
      [] t.form = "dmy" /\ t.day \notin 1..31 /\ t.year \in 1..31 -> YearFirst(t, zone)
      [] OTHER -> Midnight(t, FullYear(t.year), zone)

\* Mutant: the short form as soon as one of the two is missing.
CodeShort(r, zone) ==
    <<LocalDay(FundDate(r.date, zone), zone)>> \o r.account \o r.goal
    \o (IF r.txn = <<"">> \/ r.source = "" THEN <<>> ELSE r.txn \o <<r.source>>)

Code(r, zone) ==
    <<LocalDay(FundDate(r.date, zone), zone)>> \o r.account \o r.goal
    \o (IF r.txn = <<"">> /\ r.source = "" THEN <<>> ELSE r.txn \o <<r.source>>)

KnownSources == {"BANK", "Transfer_Reversal", "RT_Adjustment", "AIRTEL_APP", "AIRTEL_WEB",
                 "AIRTEL_MONEY", "MTN_USSD", "MTN_APP", "MTN_WEB", "MTN_MOMO"}
StoredSource(r) == IF r.source \in KnownSources THEN r.source ELSE "null"

\* Rows that fail here are dropped with a log line.
Readable(r, zone) ==
    /\ r.id # "" /\ FundDate(r.date, zone) # NoDate
    /\ NoNumber \notin {FundNumber(r.amount), r.units, r.bid, r.mid, r.offer}
Parsed(rows, zone) == {r \in rows : Readable(r, zone)}

SourcesRequiredFrom == 24 * DayNumber(2025, 1, 1)
Unsourced(r, zone) ==
    /\ FundDate(r.date, zone) >= SourcesRequiredFrom
    /\ r.txn = <<"">> \/ StoredSource(r) = "null"
\* Never so of a row that is readable.
Unpriced(r) == \/ r.type = "DEPOSIT" /\ r.offer = NoNumber
               \/ r.type = "WITHDRAWAL" /\ r.bid = NoNumber
Critical(r, zone) ==
    r.client = "" \/ r.fund = "" \/ <<"">> \in {r.account, r.goal} \/ Unsourced(r, zone)
        \/ Unpriced(r)

\* What is only warned of: the date against local midnight and the time of day ...
DateWarnings(r, zone) ==
    LET date == FundDate(r.date, zone)
    IN  Flag(date > 24 * LocalDay(Now, zone) - zone, "DATE_NOT_FUTURE")
        \union Flag(date > Now \/ date < Now - 87660, "DATE_WITHIN_RANGE")
\* ... figures that do not fit together ...
FigureWarnings(r) ==
    LET amount == FundNumber(r.amount)
    IN  Flag(amount <= 0 /\ r.type # "WITHDRAWAL", "AMOUNT_POSITIVE")
        \union Flag(Magnitude(amount) > 1000000000, "AMOUNT_EXCEEDS_MAXIMUM")
        \union Flag(r.units <= 0 /\ r.type # "WITHDRAWAL", "UNITS_POSITIVE")
        \union Flag(r.type = "DEPOSIT" /\ amount # 0 /\ r.offer # 0
                   /\ 100 * Magnitude(r.units * r.offer - amount) > Magnitude(r.offer),
                   "UNITS_CALCULATION_VALID")
        \union Flag(r.type = "WITHDRAWAL" /\ amount # 0 /\ r.bid # 0
                   /\ amount # r.units * r.bid, "WITHDRAWAL_CALCULATION_VALID")
PriceWarnings(r) ==
    Flag(\E price \in {r.bid, r.mid, r.offer} : price <= 0, "PRICES_POSITIVE")
    \union Flag(0 \notin {r.bid, r.mid, r.offer} /\ (r.bid > r.mid \/ r.mid > r.offer),
               "PRICE_RELATIONSHIP_VALID")
\* ... and values that the database may not know.
ValueWarnings(r) ==
    Flag(r.fund \notin FundCodes, "FUND_CODE_VALID")
    \union Flag(r.type \notin TransactionTypes, "INVALID_TRANSACTION_TYPE")
FundWarnings(r, zone) ==
    DateWarnings(r, zone) \union FigureWarnings(r) \union PriceWarnings(r) \union ValueWarnings(r)

\* The column takes these values only: createMany throws on another.
Storable(r) == r.type \in TransactionTypes

\* What the rows of one code must have in common.
Shared(r, zone) ==
    <<r.client, DayOf(FundDate(r.date, zone)), r.account, r.goal, r.txn, StoredSource(r)>>
BrokenGroup(rows, zone) == \E r, s \in rows :
    Code(r, zone) = Code(s, zone) /\ Shared(r, zone) # Shared(s, zone)

\* Warned of and not refused: groups that are not one row of each fund.
CodeGroups(rows, zone) == {{s \in rows : Code(s, zone) = Code(r, zone)} : r \in rows}
GroupWarnings(group) ==
    Flag(Cardinality(group) # 4, "GOAL_TRANSACTION_COMPLETE_FUND_SET")
    \union Flag(~FundCodes \subseteq {r.fund : r \in group}, "MISSING_EXPECTED_FUNDS")
    \union Flag(\E r \in group : FundNumber(r.amount) = 0, "GOAL_TRANSACTION_ZERO_AMOUNTS")
\* The counts stored with the batch.
GroupStatistics(rows, zone) ==
    LET groups == CodeGroups(rows, zone)
        complete == {g \in groups : Cardinality(g) = 4}
    IN  [total |-> Cardinality(groups), complete |-> Cardinality(complete),
         incomplete |-> Cardinality(groups \ complete)]

\* A file that cannot be stored has been through approval by the time this is seen.
Verdict(rows, zone) ==
    LET parsed == Parsed(rows, zone)
        refused == (\E r \in parsed : Critical(r, zone)) \/ BrokenGroup(parsed, zone)
    IN  CASE parsed = {} -> "empty"
          [] parsed # {} /\ refused -> "rejected"
          [] ~refused /\ \E r \in parsed : ~Storable(r) -> "unstorable"
          [] OTHER -> "accepted"

-----------------------------------------------------------------------------
(* Bank files *)

BankDate(t) ==
    IF InRange(t.month, t.day) THEN Midnight(t, FullYear(t.year), 0) ELSE NoDate

\* A blank cell arrives as undefined; one minus is as good as two, and of the currency
\* signs only the dollar's is stripped.
BankNumber(t) ==
    CASE t.form \in {"blank", "word", "foreign sign"} -> NoNumber
      [] t.form \in {"minus", "parentheses", "minus in parentheses"} -> -t.value
      [] OTHER -> t.value

BankReadable(r) == BankDate(r.date) # NoDate /\ BankNumber(r.amount) # NoNumber
EndOfToday(zone) == 24 * (LocalDay(Now, zone) + 1) - zone
FutureBank(r, zone) == BankDate(r.date) >= EndOfToday(zone)
BankCritical(r, zone) ==
    \/ r.client = "" \/ <<"">> \in {r.account, r.goal, r.txn}
    \/ r.type \notin TransactionTypes
    \/ BankNumber(r.amount) = 0
    \/ FutureBank(r, zone)

\* processFile refuses a file with a critical error in any row it could read; that an
\* account or goal is unknown is left to BankUpload.
BankVerdict(rows, zone) ==
    LET parsed == {r \in rows : BankReadable(r)}
    IN  CASE parsed = {} -> "empty"
          [] \E r \in parsed : BankCritical(r, zone) -> "rejected"
          [] OTHER -> "accepted"

\* The columns of a fund whose names carry a mark, and where the smallest value is.
Marked(columns, mark) == {i \in DOMAIN columns : columns[i].mark = mark}
Least(columns, S) == CHOOSE i \in S : \A j \in S : columns[i].value <= columns[j].value

\* Mutant: unmarked columns are amounts only.
NeverPercentage(value) == FALSE
\* Of unmarked columns the smallest value is the percentage if it may be one.
MayBePercentage(value) == value \in 0..100

\* Of several columns with the same mark the last one counts.
Split(columns, total) ==
    LET plain == Marked(columns, "none")
        pct == Marked(columns, "pct")
        amt == Marked(columns, "amt")
        guess == pct = {} /\ plain # {} /\ MayBePercentage(columns[Least(columns, plain)].value)
        left == IF guess THEN plain \ {Least(columns, plain)} ELSE plain
        percent == IF pct # {} THEN columns[Max(pct)].value
                   ELSE IF guess THEN columns[Least(columns, plain)].value ELSE 0
        amount == IF amt # {} THEN columns[Max(amt)].value
                  ELSE IF left # {} THEN columns[Least(columns, left)].value ELSE 0
        filled == IF percent > 0 /\ amount = 0 THEN (percent * Magnitude(total)) \div 100
                  ELSE amount
    IN  [amount |-> filled,
         percent |-> IF filled > 0 /\ percent = 0 /\ total # 0
                     THEN (filled * 100) \div Magnitude(total) ELSE percent]

SumOf(s) == SumFunction(s)
PercentageMismatch(splits) ==
    LET sum == SumOf([i \in DOMAIN splits |-> splits[i].percent])
    IN  sum \in 1..400 /\ Magnitude(sum - 100) > 5
AmountMismatch(splits, total) ==
    LET sum == SumOf([i \in DOMAIN splits |-> Magnitude(splits[i].amount)])
    IN  sum > 0 /\ total # 0 /\ 50 * Magnitude(sum - Magnitude(total)) > Magnitude(total)

-----------------------------------------------------------------------------
(* What the readings must have in common *)

IsDay(t) == /\ t.month \in 1..12 /\ t.day >= 1
            /\ DayNumber(FullYear(t.year), t.month, t.day)
                 < DayNumber(FullYear(t.year), t.month + 1, 1)
Written(t) == DayNumber(FullYear(t.year), t.month, t.day)

SameDate(t, zone) ==
    LET fund == FundDate(t, zone)
        bank == BankDate(t)
    IN  /\ DayOf(bank) = Written(t)
        /\ Magnitude(fund - bank) < 24
        /\ zone = 0 => fund = bank
        /\ zone >= 0 => LocalDay(fund, zone) = Written(t)

Plain(v) == [mark |-> "none", value |-> v]
Percent(v) == [mark |-> "pct", value |-> v]
Amount(v) == [mark |-> "amt", value |-> v]
Conventions(p, a) ==
    <<<<Percent(p), Amount(a)>>, <<Percent(p), Plain(a)>>, <<Plain(p), Plain(a)>>,
      <<Plain(a), Plain(p)>>, <<Percent(p)>>, <<Amount(a)>>, <<Plain(p)>>, <<Plain(a)>>>>

\* Rounded toward zero.
AmountsDue(shares, total) ==
    [i \in DOMAIN shares |->
        LET due == (shares[i] * Magnitude(total)) \div 100 IN IF total < 0 THEN -due ELSE due]
LikePercentages(shares, amounts) ==
    \E i \in DOMAIN shares : shares[i] # 0 /\ Magnitude(amounts[i]) <= 100
SameSplits(shares, total) ==
    LET due == AmountsDue(shares, total)
    IN  \A k \in 1..8 :
            LET splits == [i \in DOMAIN due |-> Split(Conventions(shares[i], due[i])[k], total)]
            IN  /\ \A i \in DOMAIN due : Magnitude(splits[i].amount) = Magnitude(due[i])
                /\ ~PercentageMismatch(splits) /\ ~AmountMismatch(splits, total)

FundTakes(r, zone) == Readable(r, zone) /\ ~Critical(r, zone) /\ Storable(r)
BankTakes(r, zone) == BankReadable(r) /\ ~BankCritical(r, zone)
TakenAlike(r, zone) ==
    /\ FundTakes(r, zone) /\ r.amount.form # "foreign sign" =>
           FundNumber(r.amount) = BankNumber(r.amount)
    /\ Readable(r, zone) /\ BankDate(r.date) # NoDate =>
           IF FutureBank(r, zone)
           THEN r.date.form \notin Dashed => "DATE_NOT_FUTURE" \in FundWarnings(r, zone)
           ELSE r.txn # <<"">> /\ FundNumber(r.amount) # 0 /\ r.amount.form # "foreign sign" =>
                    (FundTakes(r, zone) => BankTakes(r, zone))
    /\ Readable(r, zone) /\ ~Storable(r) => "INVALID_TRANSACTION_TYPE" \in FundWarnings(r, zone)

OwnGroup(r, s, zone) ==
    Code(r, zone) = Code(s, zone) =>
        /\ <<r.account, r.goal, r.txn, r.source>> = <<s.account, s.goal, s.txn, s.source>>
        /\ LocalDay(FundDate(r.date, zone), zone) = LocalDay(FundDate(s.date, zone), zone)
=============================================================================

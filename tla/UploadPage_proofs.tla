-------------------------- MODULE UploadPage_proofs --------------------------
(***************************************************************************)
(* What users of the upload pages and the readers of their files may rely  *)
(* on, for any number of batches, polling loops and rows: proofs about     *)
(* UploadPage and FileRules.                                               *)
(***************************************************************************)
EXTENDS UploadPage, Sums, SequenceTheorems, FiniteSetTheorems, TLAPS

-----------------------------------------------------------------------------
(* Dates *)

\* The calendar has whole days (DayNumber).
LEMMA MonthStarts ==
    ASSUME NEW m \in 1..12 PROVE MonthStart[m] \in 0..334
BY DEF MonthStart

LEMMA DayNumberType ==
    ASSUME NEW year \in Nat, NEW month \in Nat, NEW day \in Nat
    PROVE  DayNumber(year, month, day) \in Int
<1> DEFINE y == year + (month - 1) \div 12
           m == ((month - 1) % 12) + 1
<1>1. y \in Int /\ m \in 1..12
    OBVIOUS
<1>2. MonthStart[m] \in Int
    BY <1>1, MonthStarts
<1> QED BY <1>1, <1>2 DEF DayNumber

\* A day that comes before the first of the next month is the 31st at most.
LEMMA DaysOfMonth ==
    ASSUME NEW year \in Nat, NEW month \in 1..12, NEW day \in Nat,
           DayNumber(year, month, day) < DayNumber(year, month + 1, 1)
    PROVE  day <= 31
<1>1. CASE month < 12
    <2> DEFINE past == year - 1
               before == 365 * year + past \div 4 - past \div 100 + past \div 400
               leap(m) == IF Leap(year) /\ m > 2 THEN 1 ELSE 0
    <2>1. ASSUME NEW m \in 1..12, NEW d \in Nat
          PROVE  DayNumber(year, m, d) = before + MonthStart[m] + leap(m) + d
        <3>1. (m - 1) \div 12 = 0 /\ ((m - 1) % 12) + 1 = m /\ year + 0 = year
            OBVIOUS
        <3> QED BY <3>1 DEF DayNumber
    <2>2. /\ MonthStart[month] \in Int /\ MonthStart[month + 1] \in Int
          /\ MonthStart[month + 1] + leap(month + 1) <= MonthStart[month] + leap(month) + 31
        BY <1>1 DEF MonthStart
    <2>3. before \in Int /\ leap(month) \in Int /\ leap(month + 1) \in Int
        OBVIOUS
    <2>4. /\ DayNumber(year, month, day) = before + MonthStart[month] + leap(month) + day
          /\ DayNumber(year, month + 1, 1) = before + MonthStart[month + 1] + leap(month + 1) + 1
        BY <1>1, <2>1
    <2> HIDE DEF before, leap
    <2> QED BY <2>2, <2>3, <2>4
<1>2. CASE month = 12
    BY <1>2, SMTT(30) DEF DayNumber, MonthStart, Leap
<1> QED BY <1>1, <1>2

\* The hours of a day (Date.getTime).
LEMMA HoursOfDay ==
    ASSUME NEW day \in Int, NEW hour \in 0..23
    PROVE  (24 * day + hour) \div 24 = day
OBVIOUS

LEMMA FullYears ==
    ASSUME NEW y \in Nat PROVE FullYear(y) \in Nat /\ (y >= 100 => FullYear(y) = y)
BY DEF FullYear

\* How a date in range is read, unless new Date takes the day for the month.
LEMMA Readings ==
    ASSUME NEW t, IsDateText(t), InRange(t.month, t.day), t.form \in Dashed => t.day = t.month,
           NEW zone \in -12..14
    PROVE  /\ Written(t) \in Int /\ BankDate(t) = 24 * Written(t)
           /\ FundDate(t, zone) = IF t.form = "iso" THEN 24 * Written(t) ELSE 24 * Written(t) - zone
<1> DEFINE w == Written(t)
<1>0. t.day \in Nat /\ t.month \in Nat /\ t.year \in Nat
    BY DEF IsDateText
<1>1. t.day \in Nat /\ t.month \in Nat /\ t.year \in Nat /\ FullYear(t.year) \in Nat
    BY <1>0, FullYears
<1>2. w \in Int
    BY <1>1, DayNumberType DEF Written
<1>3. BankDate(t) = 24 * w
    BY <1>2 DEF BankDate, Midnight, Written
<1>4. CASE t.form = "iso"
    <2>1. FullYear(t.year) = t.year
        <3>1. t.year >= 100
            BY <1>4 DEF IsDateText
        <3> QED BY <1>0, <3>1, FullYears
    <2>2. FundDate(t, zone) = Midnight(t, t.year, 0)
        BY <1>4 DEF FundDate, Dashed
    <2> QED BY <1>2, <1>3, <1>4, <2>1, <2>2 DEF Midnight, Written
<1>5. CASE t.form # "iso"
    <2>1. t.day \in 1..31 /\ (t.form \in Dashed => InRange(t.day, t.month))
        BY <1>0 DEF InRange
    <2>2. FundDate(t, zone) = IF t.form \in Dashed THEN MonthFirst(t, zone)
                              ELSE Midnight(t, FullYear(t.year), zone)
        BY <1>5, <2>1 DEF FundDate, Dashed
    <2>3. FundDate(t, zone) = Midnight(t, FullYear(t.year), zone)
        BY <2>2 DEF MonthFirst, Midnight
    <2> QED BY <1>2, <1>3, <1>5, <2>3 DEF Midnight, Written
<1> QED BY <1>4, <1>5

\* A valid date is read as that day, unless new Date takes the day for the month.
LEMMA DatesRead ==
    ASSUME NEW t, IsDateText(t), IsDay(t), t.form \in Dashed => t.day = t.month,
           NEW zone \in -12..14
    PROVE  SameDate(t, zone)
<1> DEFINE w == Written(t)
<1>1. InRange(t.month, t.day)
    <2>1. t.day \in Nat /\ t.month \in Nat /\ t.year \in Nat
        BY DEF IsDateText
    <2>2. FullYear(t.year) \in Nat
        BY <2>1, FullYears
    <2> QED BY <2>1, <2>2, DaysOfMonth DEF IsDay, InRange
<1>2. w \in Int
    BY <1>1, Readings
<1>4. BankDate(t) = 24 * w
    BY <1>1, Readings
<1>5. FundDate(t, zone) = IF t.form = "iso" THEN 24 * w ELSE 24 * w - zone
    BY <1>1, Readings
<1> HIDE DEF w
<1>6. DayOf(24 * w) = w
    BY <1>2, HoursOfDay DEF DayOf
<1>7. Magnitude(FundDate(t, zone) - 24 * w) < 24
    BY <1>2, <1>5 DEF Magnitude
<1>8. zone >= 0 => LocalDay(FundDate(t, zone), zone) = w
    <2> SUFFICES ASSUME zone >= 0 PROVE DayOf(FundDate(t, zone) + zone) = w
        BY DEF LocalDay
    <2>1. CASE t.form = "iso"
        BY <1>2, <1>5, <2>1, HoursOfDay DEF DayOf
    <2>2. CASE t.form # "iso"
        <3>1. FundDate(t, zone) + zone = 24 * w
            BY <1>2, <1>5, <2>2
        <3> QED BY <1>6, <3>1
    <2> QED BY <2>1, <2>2
<1>9. zone = 0 => FundDate(t, zone) = 24 * w
    BY <1>2, <1>5
<1> QED BY <1>4, <1>6, <1>7, <1>8, <1>9 DEF SameDate, w

\* What fund files let through and the database stores, bank files let through with the
\* same amount; what they refuse for its date the fund file warns of.
LEMMA RowsRead ==
    ASSUME NEW r, IsDateText(r.date), NEW zone \in -12..14
    PROVE  TakenAlike(r, zone)
<1>1. FundTakes(r, zone) /\ r.amount.form # "foreign sign" =>
          FundNumber(r.amount) = BankNumber(r.amount) /\ BankNumber(r.amount) # NoNumber
    BY DEF FundTakes, Readable, FundNumber, BankNumber
<1>2. ASSUME BankDate(r.date) # NoDate, FutureBank(r, zone), r.date.form \notin Dashed
      PROVE  "DATE_NOT_FUTURE" \in FundWarnings(r, zone)
    <2> DEFINE w == Written(r.date)
               today == LocalDay(Now, zone)
    <2>1. InRange(r.date.month, r.date.day)
        BY <1>2 DEF BankDate
    <2>2. /\ w \in Int /\ BankDate(r.date) = 24 * w
          /\ FundDate(r.date, zone) = IF r.date.form = "iso" THEN 24 * w ELSE 24 * w - zone
        BY <1>2, <2>1, Readings
    <2>3. today \in Int
        BY ClockAssumption DEF LocalDay, DayOf
    <2>4. 24 * w >= 24 * (today + 1) - zone
        BY <1>2, <2>2 DEF FutureBank, EndOfToday
    <2> HIDE DEF w, today
    <2>5. FundDate(r.date, zone) > 24 * today - zone
        BY <2>2, <2>3, <2>4
    <2>6. "DATE_NOT_FUTURE" \in DateWarnings(r, zone)
        BY <2>5 DEF DateWarnings, Flag, today
    <2> QED BY <2>6 DEF FundWarnings
<1>3. ASSUME BankDate(r.date) # NoDate, ~FutureBank(r, zone), r.txn # <<"">>,
             FundNumber(r.amount) # 0, r.amount.form # "foreign sign", FundTakes(r, zone)
      PROVE  BankTakes(r, zone)
    <2>1. BankReadable(r)
        BY <1>1, <1>3 DEF BankReadable
    <2>2. ~BankCritical(r, zone)
        BY <1>1, <1>3 DEF BankCritical, FundTakes, Critical, Storable
    <2> QED BY <2>1, <2>2 DEF BankTakes
<1>4. ~Storable(r) => "INVALID_TRANSACTION_TYPE" \in FundWarnings(r, zone)
    BY DEF Storable, FundWarnings, ValueWarnings, Flag
<1> QED BY <1>1, <1>2, <1>3, <1>4 DEF TakenAlike

-----------------------------------------------------------------------------
(* Fund splits *)

\* What a fund with share p is due of a total, where no amount looks like a percentage.
Due(p, total, a) ==
    /\ p \in 0..100 /\ total \in Int \ {0} /\ a \in Int
    /\ Magnitude(a) = (p * Magnitude(total)) \div 100
    /\ IF total > 0 THEN a >= 0 ELSE a <= 0
    /\ IF p = 0 THEN a = 0 ELSE Magnitude(a) > 100

LEMMA HundredthParts ==
    ASSUME NEW n \in Nat PROVE n \div 100 \in Nat /\ 100 * (n \div 100) <= n /\ n <= 100 * (n \div 100) + 99
OBVIOUS

LEMMA ProductOfNats == ASSUME NEW m \in Nat, NEW n \in Nat PROVE m * n \in Nat
OBVIOUS

LEMMA AmountIsDue ==
    ASSUME NEW shares \in Seq(0..100), NEW total \in Int \ {0},
           ~LikePercentages(shares, AmountsDue(shares, total)), NEW i \in DOMAIN shares
    PROVE  Due(shares[i], total, AmountsDue(shares, total)[i])
<1> DEFINE p == shares[i]
           part == (p * Magnitude(total)) \div 100
           a == AmountsDue(shares, total)[i]
<1>0. shares[i] \in 0..100
  BY LenProperties, ElementOfSeq
<1>1. p \in 0..100 /\ Magnitude(total) \in Nat
  BY <1>0 DEF Magnitude
<1>2. p * Magnitude(total) \in Nat
  <2> HIDE DEF p
  <2> QED BY <1>1, ProductOfNats
<1>3. part \in Nat
  BY <1>2, HundredthParts
<1>4. a = IF total < 0 THEN -part ELSE part
  BY DEF AmountsDue
<1>5. p = 0 => part = 0
  BY <1>1
<1>6. p # 0 => Magnitude(a) > 100
  BY <1>3, <1>4 DEF LikePercentages, Magnitude
<1>7. Magnitude(a) = part
  BY <1>3, <1>4 DEF Magnitude
<1> HIDE DEF p, a, part
<1>8. Due(p, total, a)
  BY <1>1, <1>3, <1>4, <1>5, <1>6, <1>7 DEF Due, part
<1> QED BY <1>8 DEF p, a

-----------------------------------------------------------------------------
LEMMA OneColumn ==
    ASSUME NEW c PROVE \A mark : Marked(<<c>>, mark) = IF c.mark = mark THEN {1} ELSE {}
BY DEF Marked

LEMMA TwoColumns ==
    ASSUME NEW c, NEW d
    PROVE  \A mark : Marked(<<c, d>>, mark) =
               (IF c.mark = mark THEN {1} ELSE {}) \union (IF d.mark = mark THEN {2} ELSE {})
<1> SUFFICES ASSUME NEW mark
             PROVE  Marked(<<c, d>>, mark) =
                      (IF c.mark = mark THEN {1} ELSE {}) \union (IF d.mark = mark THEN {2} ELSE {})
  OBVIOUS
<1>1. DOMAIN <<c, d>> = {1, 2} /\ <<c, d>>[1] = c /\ <<c, d>>[2] = d
  OBVIOUS
<1> QED BY <1>1 DEF Marked

LEMMA OneOf ==
    ASSUME NEW columns, NEW i \in Int, columns[i].value \in Int
    PROVE  Least(columns, {i}) = i
BY DEF Least

LEMMA LastOfOne == ASSUME NEW i \in Int PROVE Max({i}) = i
BY DEF Max

LEMMA LeastOfTwo ==
    ASSUME NEW c, NEW d, c.value \in Int, d.value \in Int
    PROVE  LET l == Least(<<c, d>>, {1, 2}) IN
           /\ l \in {1, 2}
           /\ c.value < d.value => l = 1
           /\ d.value < c.value => l = 2
<1> DEFINE cs == <<c, d>>
<1>1. cs[1] = c /\ cs[2] = d
  OBVIOUS
<1> HIDE DEF cs
<1>2. \E i \in {1, 2} : \A j \in {1, 2} : cs[i].value <= cs[j].value
  BY <1>1
<1>3. /\ Least(cs, {1, 2}) \in {1, 2}
      /\ \A j \in {1, 2} : cs[Least(cs, {1, 2})].value <= cs[j].value
  BY <1>2 DEF Least
<1>4. /\ c.value < d.value => Least(cs, {1, 2}) # 2
      /\ d.value < c.value => Least(cs, {1, 2}) # 1
  BY <1>1, <1>3
<1> QED BY <1>3, <1>4 DEF cs

-----------------------------------------------------------------------------
\* The percentage found where the columns are written as in convention k.
Seen(k, p, total, a) ==
    IF total < 0 THEN (IF k \in {3, 4, 6, 8} THEN 0 ELSE p)
    ELSE IF k \in {6, 8} THEN (a * 100) \div Magnitude(total) ELSE p

Finds(k, p, total, a) ==
    LET split == Split(Conventions(p, a)[k], total)
    IN  Magnitude(split.amount) = Magnitude(a) /\ split.percent = Seen(k, p, total, a)

\* The columns in the end: an amount and a percentage, either may be missing.
Filled(percent, amount, total) ==
    LET filled == IF percent > 0 /\ amount = 0 THEN (percent * Magnitude(total)) \div 100
                  ELSE amount
    IN  [amount |-> filled,
         percent |-> IF filled > 0 /\ percent = 0 /\ total # 0
                     THEN (filled * 100) \div Magnitude(total) ELSE percent]

LEMMA FilledDue ==
    ASSUME NEW p, NEW total, NEW a, Due(p, total, a)
    PROVE  /\ Filled(p, a, total) = [amount |-> a, percent |-> p]
           /\ Filled(p, 0, total) = [amount |-> Magnitude(a), percent |-> p]
           /\ Filled(0, a, total) = [amount |-> a, percent |-> IF total < 0 THEN 0 ELSE (a * 100) \div Magnitude(total)]
<1>1. /\ p \in 0..100 /\ total \in Int \ {0} /\ a \in Int
      /\ Magnitude(a) = (p * Magnitude(total)) \div 100
      /\ IF total > 0 THEN a >= 0 ELSE a <= 0
      /\ IF p = 0 THEN a = 0 ELSE Magnitude(a) > 100
  BY DEF Due
<1>2. Filled(p, a, total) = [amount |-> a, percent |-> p]
  BY <1>1 DEF Filled, Magnitude
<1>3. Filled(p, 0, total) = [amount |-> Magnitude(a), percent |-> p]
  BY <1>1 DEF Filled, Magnitude
<1>4. a = 0 => (a * 100) \div Magnitude(total) = 0
  BY <1>1 DEF Magnitude
<1>5. Filled(0, a, total) = [amount |-> a, percent |-> IF total < 0 THEN 0 ELSE (a * 100) \div Magnitude(total)]
  BY <1>1, <1>4 DEF Filled
<1> QED BY <1>2, <1>3, <1>5

LEMMA FindsDue ==
    ASSUME NEW p, NEW total, NEW a, Due(p, total, a), NEW k \in 1..8
    PROVE  Finds(k, p, total, a)
<1> DEFINE columns == Conventions(p, a)[k]
           split == Split(columns, total)
<1>1. /\ p \in 0..100 /\ total \in Int \ {0} /\ a \in Int
      /\ IF total > 0 THEN a >= 0 ELSE a <= 0
      /\ IF p = 0 THEN a = 0 ELSE Magnitude(a) > 100
  BY DEF Due
<1>2. Magnitude(Magnitude(a)) = Magnitude(a)
  BY <1>1 DEF Magnitude
<1>3. a = 0 => (a * 100) \div Magnitude(total) = 0
  BY <1>1 DEF Magnitude
<1>4. Percent(p).value = p /\ Plain(p).value = p /\ Plain(a).value = a /\ Amount(a).value = a
  BY DEF Percent, Plain, Amount
<1>5. Max({1}) = 1 /\ Max({2}) = 2
  BY LastOfOne
<1>6. /\ Filled(p, a, total) = [amount |-> a, percent |-> p]
      /\ Filled(p, 0, total) = [amount |-> Magnitude(a), percent |-> p]
      /\ Filled(0, a, total) =
           [amount |-> a, percent |-> IF total < 0 THEN 0 ELSE (a * 100) \div Magnitude(total)]
  BY FilledDue
<1>7. CASE k = 1
  <2>1. columns = <<Percent(p), Amount(a)>> /\ columns[1].value = p /\ columns[2].value = a
    BY <1>4, <1>7 DEF Conventions
  <2>2. Marked(columns, "none") = {} /\ Marked(columns, "pct") = {1} /\ Marked(columns, "amt") = {2}
    BY <2>1, TwoColumns DEF Percent, Amount
  <2>3. split = Filled(p, a, total)
    <3> HIDE DEF columns
    <3> QED BY <1>4, <1>5, <2>1, <2>2 DEF Split, Filled
  <2> QED BY <1>7, <2>3, <1>6 DEF Finds, Seen
<1>8. CASE k = 2
  <2>1. columns = <<Percent(p), Plain(a)>> /\ columns[1].value = p /\ columns[2].value = a
    BY <1>4, <1>8 DEF Conventions
  <2>2. Marked(columns, "none") = {2} /\ Marked(columns, "pct") = {1} /\ Marked(columns, "amt") = {}
    BY <2>1, TwoColumns DEF Percent, Plain
  <2>3. Least(columns, {2}) = 2
    BY <1>1, <2>1, OneOf
  <2>4. split = Filled(p, a, total)
    <3> HIDE DEF columns
    <3> QED BY <1>4, <1>5, <2>1, <2>2, <2>3 DEF Split, Filled
  <2> QED BY <1>8, <2>4, <1>6 DEF Finds, Seen
<1>9. CASE k \in {3, 4}
  <2> DEFINE l == Least(columns, {1, 2})
             o == IF l = 1 THEN 2 ELSE 1
             P == IF k = 3 THEN 1 ELSE 2
             A == IF k = 3 THEN 2 ELSE 1
  <2>1. columns = IF k = 3 THEN <<Plain(p), Plain(a)>> ELSE <<Plain(a), Plain(p)>>
    BY <1>9 DEF Conventions
  <2>2. Marked(columns, "none") = {1, 2} /\ Marked(columns, "pct") = {} /\ Marked(columns, "amt") = {}
    BY <2>1, TwoColumns DEF Plain
  <2>3. columns[P].value = p /\ columns[A].value = a
    BY <1>4, <2>1
  <2>4. /\ l \in {1, 2}
        /\ p < a => l = P
        /\ a < p => l = A
    BY <1>1, <1>4, <2>1, LeastOfTwo
  <2>5. {1, 2} \ {l} = {o} /\ Least(columns, {o}) = o
    <3>1. {1, 2} \ {l} = {o} /\ o \in Int
      BY <2>4
    <3>2. columns[o].value \in Int
      BY <1>1, <2>3, <2>4
    <3> HIDE DEF o, columns
    <3> QED BY <3>1, <3>2, OneOf
  <2>6. CASE p = 0 \/ total > 0
    <3>1. columns[l].value = p /\ columns[o].value = a
      BY <1>1, <2>3, <2>4, <2>6 DEF Magnitude
    <3>2. MayBePercentage(columns[l].value)
      BY <1>1, <3>1 DEF MayBePercentage
    <3> HIDE DEF l, o, columns
    <3>3. /\ columns[Least(columns, {1, 2})].value = p
          /\ {1, 2} \ {Least(columns, {1, 2})} = {o} /\ Least(columns, {o}) = o
          /\ {1, 2} # {} /\ {o} # {}
      BY <2>5, <3>1 DEF l
    <3>4. Split(columns, total) = Filled(p, a, total)
      BY <2>2, <3>1, <3>2, <3>3 DEF Split, Filled, l
    <3> QED BY <1>1, <1>9, <2>6, <3>4, <1>6 DEF Finds, Seen, columns
  <2>7. CASE p # 0 /\ total < 0
    <3>1. a < 0 /\ columns[l].value = a
      BY <1>1, <2>3, <2>4, <2>7 DEF Magnitude
    <3>2. ~MayBePercentage(columns[l].value)
      BY <1>1, <3>1 DEF MayBePercentage
    <3> HIDE DEF l, o, columns
    <3>3. Split(columns, total) = Filled(0, a, total)
      BY <2>2, <3>1, <3>2 DEF Split, Filled, l
    <3> QED BY <1>1, <1>9, <2>7, <3>3, <1>6 DEF Finds, Seen, columns
  <2> QED BY <1>1, <2>6, <2>7
<1>10. CASE k = 5
  <2>1. columns = <<Percent(p)>> /\ columns[1].value = p
    BY <1>4, <1>10 DEF Conventions
  <2>2. Marked(columns, "none") = {} /\ Marked(columns, "pct") = {1} /\ Marked(columns, "amt") = {}
    BY <2>1, OneColumn DEF Percent
  <2>3. split = Filled(p, 0, total)
    <3> HIDE DEF columns
    <3> QED BY <1>4, <1>5, <2>1, <2>2 DEF Split, Filled
  <2> QED BY <1>2, <1>10, <2>3, <1>6 DEF Finds, Seen
<1>11. CASE k = 6
  <2>1. columns = <<Amount(a)>> /\ columns[1].value = a
    BY <1>4, <1>11 DEF Conventions
  <2>2. Marked(columns, "none") = {} /\ Marked(columns, "pct") = {} /\ Marked(columns, "amt") = {1}
    BY <2>1, OneColumn DEF Amount
  <2>3. split = Filled(0, a, total)
    <3> HIDE DEF columns
    <3> QED BY <1>4, <1>5, <2>1, <2>2 DEF Split, Filled
  <2> QED BY <1>11, <2>3, <1>6 DEF Finds, Seen
<1>12. CASE k = 7
  <2>1. columns = <<Plain(p)>> /\ columns[1].value = p
    BY <1>4, <1>12 DEF Conventions
  <2>2. Marked(columns, "none") = {1} /\ Marked(columns, "pct") = {} /\ Marked(columns, "amt") = {}
    BY <2>1, OneColumn DEF Plain
  <2>3. Least(columns, {1}) = 1 /\ MayBePercentage(p)
    BY <1>1, <2>1, OneOf DEF MayBePercentage
  <2>4. split = Filled(p, 0, total)
    <3> HIDE DEF columns
    <3> QED BY <2>1, <2>2, <2>3 DEF Split, Filled
  <2> QED BY <1>2, <1>12, <2>4, <1>6 DEF Finds, Seen
<1>13. CASE k = 8
  <2>1. columns = <<Plain(a)>> /\ columns[1].value = a
    BY <1>4, <1>13 DEF Conventions
  <2>2. Marked(columns, "none") = {1} /\ Marked(columns, "pct") = {} /\ Marked(columns, "amt") = {}
    BY <2>1, OneColumn DEF Plain
  <2>3. Least(columns, {1}) = 1 /\ (MayBePercentage(a) => a = 0)
    BY <1>1, <2>1, OneOf DEF MayBePercentage, Magnitude
  <2>4. split = Filled(0, a, total)
    <3> HIDE DEF columns
    <3> QED BY <2>1, <2>2, <2>3 DEF Split, Filled
  <2> QED BY <1>13, <2>4, <1>6 DEF Finds, Seen
<1> QED BY <1>7, <1>8, <1>9, <1>10, <1>11, <1>12, <1>13

\* The members of a sequence of four at most, and zeros.
Padded(f, n) == [i \in 1..4 |-> IF i <= n THEN f[i] ELSE 0]
FourOf(p) == p[1] + p[2] + p[3] + p[4]

LEMMA OneMore ==
    ASSUME NEW k \in Nat, NEW f, \A i \in 1..(k + 1) : f[i] \in Int
    PROVE  Over(1..(k + 1), f) = f[k + 1] + Over(1..k, f)
<1>1. 1..(k + 1) = 1..k \union {k + 1} /\ k + 1 \notin 1..k
  OBVIOUS
<1>2. IsFiniteSet(1..(k + 1))
  BY FS_Interval
<1>3. Numbers(1..k \union {k + 1}, f)
  BY <1>1, <1>2 DEF Numbers
<1>4. Over(1..k \union {k + 1}, f) = f[k + 1] + Over(1..k, f)
  BY <1>1, <1>3, OverAdd
<1> QED BY <1>1, <1>4

LEMMA SumOfFour ==
    ASSUME NEW n \in Nat, n <= 4, NEW f \in [1..n -> Int]
    PROVE  SumOf(f) = FourOf(Padded(f, n))
<1>0. \A i \in 1..n : f[i] \in Int
  OBVIOUS
<1>1. SumOf(f) = Over(1..n, f)
  BY Zenon DEF SumOf, Over
<1>2. ASSUME NEW k \in 0..3, k + 1 <= n
      PROVE  Over(1..(k + 1), f) = f[k + 1] + Over(1..k, f) /\ f[k + 1] \in Int
  BY <1>0, <1>2, OneMore
<1>3. 1..0 = {}
  OBVIOUS
<1>4. Over(1..0, f) = 0
  BY <1>3, OverEmpty
<1>5. n >= 1 => f[1] \in Int /\ Over(1..1, f) = f[1]
  <2>1. n >= 1 => Over(1..(0 + 1), f) = f[0 + 1] + Over(1..0, f) /\ f[0 + 1] \in Int
    BY <1>2
  <2> QED BY <1>4, <2>1
<1>6. n >= 2 => f[2] \in Int /\ Over(1..2, f) = f[1] + f[2]
  <2>1. n >= 2 => Over(1..(1 + 1), f) = f[1 + 1] + Over(1..1, f) /\ f[1 + 1] \in Int
    BY <1>2
  <2> QED BY <1>5, <2>1
<1>7. n >= 3 => f[3] \in Int /\ Over(1..3, f) = f[1] + f[2] + f[3]
  <2>1. n >= 3 => Over(1..(2 + 1), f) = f[2 + 1] + Over(1..2, f) /\ f[2 + 1] \in Int
    BY <1>2
  <2> QED BY <1>5, <1>6, <2>1
<1>8. n >= 4 => f[4] \in Int /\ Over(1..4, f) = f[1] + f[2] + f[3] + f[4]
  <2>1. n >= 4 => Over(1..(3 + 1), f) = f[3 + 1] + Over(1..3, f) /\ f[3 + 1] \in Int
    BY <1>2
  <2> QED BY <1>5, <1>6, <1>7, <2>1
<1>9. CASE n = 0
  BY <1>1, <1>4, <1>9 DEF FourOf, Padded
<1>10. CASE n = 1
  BY <1>1, <1>5, <1>10 DEF FourOf, Padded
<1>11. CASE n = 2
  BY <1>1, <1>6, <1>11 DEF FourOf, Padded
<1>12. CASE n = 3
  BY <1>1, <1>7, <1>12 DEF FourOf, Padded
<1>13. CASE n = 4
  BY <1>1, <1>8, <1>13 DEF FourOf, Padded
<1> QED BY <1>9, <1>10, <1>11, <1>12, <1>13

-----------------------------------------------------------------------------
HundredthOf(q, m) == q \in Nat /\ m \in Nat /\ 100 * m <= q /\ q <= 100 * m + 99
                /\ (q # 0 => m > 100)

LEMMA PartsAddUp ==
    ASSUME NEW total \in Nat \ {0}, 
           NEW q1, NEW q2, NEW q3, NEW q4, q1 + q2 + q3 + q4 = 100 * total,
           NEW m1, NEW m2, NEW m3, NEW m4,
           HundredthOf(q1, m1), HundredthOf(q2, m2), HundredthOf(q3, m3), HundredthOf(q4, m4)
    PROVE  LET sum == m1 + m2 + m3 + m4 IN
           /\ sum \in Nat /\ sum <= total /\ 50 * (total - sum) <= total
           /\ sum = total \/ (total > 200 /\ total - sum <= 3)
BY DEF HundredthOf

LEMMA QuotientOf ==
    ASSUME NEW total \in Nat \ {0}, NEW n \in Nat
    PROVE  n \div total \in Nat /\ (n \div total) * total <= n /\ n < (n \div total) * total + total
OBVIOUS

LEMMA PercentsAddUp ==
    ASSUME NEW total \in Nat \ {0}, NEW c1 \in Nat, NEW c2 \in Nat, NEW c3 \in Nat, NEW c4 \in Nat, NEW sum \in Nat,
           100 * sum < (c1 + c2 + c3 + c4) * total + 4 * total,
           (c1 + c2 + c3 + c4) * total <= 100 * sum,
           sum <= total, sum = total \/ (total > 200 /\ total - sum <= 3)
    PROVE  c1 + c2 + c3 + c4 \in 95..100
<1> DEFINE c == c1 + c2 + c3 + c4
<1>1. c \in Nat
  OBVIOUS
<1> HIDE DEF c
<1>2. c <= 100
  <2>1. c > 100 => c * total >= 101 * total
    BY <1>1
  <2> QED BY <1>1, <2>1 DEF c
<1>3. c >= 95
  <2>1. c <= 94 => c * total <= 94 * total
    BY <1>1
  <2> QED BY <1>1, <2>1 DEF c
<1> QED BY <1>1, <1>2, <1>3 DEF c

LEMMA Distributes ==
    ASSUME NEW a \in Int, NEW b \in Int, NEW c \in Int, NEW d \in Int, NEW t \in Int
    PROVE  (a + b + c + d) * t = a * t + b * t + c * t + d * t
OBVIOUS

\* Every size is its fund's share; the sizes add up to nearly all of the total; every
\* percentage is taken from its size.
AllDue(n, shares, total, sizes) ==
    \A i \in 1..n : /\ sizes[i] = (shares[i] * total) \div 100
                    /\ shares[i] # 0 => sizes[i] > 100
NearlyAll(sum, total) ==
    /\ sum \in Nat /\ sum <= total /\ 50 * (total - sum) <= total
    /\ sum = total \/ (total > 200 /\ total - sum <= 3)
AllShares(n, sizes, total, percents) ==
    \A i \in 1..n : percents[i] = (sizes[i] * 100) \div total
RoundedDown(t, n, total) == t <= n /\ n < t + total

LEMMA Widened == ASSUME NEW D, NEW S, NEW T, S \subseteq T, NEW f \in [D -> S] PROVE f \in [D -> T]
OBVIOUS

\* The sizes of the amounts are within two percent of the total.
LEMMA NoAmountMismatch ==
    ASSUME NEW n \in Nat, n <= 4, NEW total \in Nat \ {0}, NEW shares \in [1..n -> Nat],
           NEW sizes \in [1..n -> Nat], SumOf(shares) = 100,
           AllDue(n, shares, total, sizes)
    PROVE  NearlyAll(SumOf(sizes), total)
<1> DEFINE p == Padded(shares, n)
           m == Padded(sizes, n)
<1>1. ASSUME NEW i \in 1..4 PROVE p[i] \in Nat /\ HundredthOf(p[i] * total, m[i])
  <2>1. CASE i > n
    BY <2>1 DEF Padded, HundredthOf
  <2>2. CASE i <= n
    <3>1. PICK q : q = shares[i] * total
      OBVIOUS
    <3>2. i \in 1..n /\ shares[i] \in Nat
      BY <2>2
    <3>3. q \in Nat
      BY <3>1, <3>2, ProductOfNats
    <3>4. q # 0 => shares[i] # 0
      BY <3>1
    <3>5. sizes[i] = q \div 100 /\ (shares[i] # 0 => sizes[i] > 100)
      BY <3>1, <3>2 DEF AllDue
    <3>6. HundredthOf(q, sizes[i])
      BY <3>3, <3>4, <3>5, HundredthParts DEF HundredthOf
    <3>7. p[i] = shares[i] /\ m[i] = sizes[i]
      BY <2>2 DEF Padded
    <3> QED BY <3>1, <3>2, <3>6, <3>7
  <2> QED BY <2>1, <2>2
<1>2. shares \in [1..n -> Int] /\ sizes \in [1..n -> Int]
  OBVIOUS
<1>3. PICK p1, p2, p3, p4, m1, m2, m3, m4 :
          /\ p1 = p[1] /\ p2 = p[2] /\ p3 = p[3] /\ p4 = p[4]
          /\ m1 = m[1] /\ m2 = m[2] /\ m3 = m[3] /\ m4 = m[4]
  OBVIOUS
<1>4. p1 + p2 + p3 + p4 = 100 /\ SumOf(sizes) = m1 + m2 + m3 + m4
  BY <1>2, <1>3, SumOfFour DEF FourOf
<1> HIDE DEF p, m
<1>5. /\ p1 \in Int /\ p2 \in Int /\ p3 \in Int /\ p4 \in Int
      /\ HundredthOf(p1 * total, m1) /\ HundredthOf(p2 * total, m2)
      /\ HundredthOf(p3 * total, m3) /\ HundredthOf(p4 * total, m4)
  BY <1>1, <1>3
<1>6. p1 * total + p2 * total + p3 * total + p4 * total = 100 * total
  BY <1>4, <1>5, Distributes
<1>7. PICK q1, q2, q3, q4 :
          q1 = p1 * total /\ q2 = p2 * total /\ q3 = p3 * total /\ q4 = p4 * total
  OBVIOUS
<1>8. /\ HundredthOf(q1, m1) /\ HundredthOf(q2, m2) /\ HundredthOf(q3, m3) /\ HundredthOf(q4, m4)
      /\ q1 + q2 + q3 + q4 = 100 * total
  BY <1>5, <1>6, <1>7, Zenon
<1> QED BY <1>4, <1>8, PartsAddUp DEF NearlyAll

\* The percentages taken from those amounts add up to nearly a hundred.
LEMMA NoPercentageMismatch ==
    ASSUME NEW n \in Nat, n <= 4, NEW total \in Nat \ {0}, NEW sizes \in [1..n -> Nat],
           NEW percents \in [1..n -> Int],
           NearlyAll(SumOf(sizes), total), AllShares(n, sizes, total, percents)
    PROVE  SumOf(percents) \in 95..100
<1> DEFINE c == Padded(percents, n)
           m == Padded(sizes, n)
<1>1. ASSUME NEW i \in 1..4
      PROVE  c[i] \in Nat /\ m[i] \in Nat /\ RoundedDown(c[i] * total, m[i] * 100, total)
  <2>1. CASE i > n
    BY <2>1 DEF Padded, RoundedDown
  <2>2. CASE i <= n
    <3>1. i \in 1..n /\ sizes[i] \in Nat /\ percents[i] = (sizes[i] * 100) \div total
      BY <2>2 DEF AllShares
    <3>2. sizes[i] * 100 \in Nat
      <4>1. sizes[i] \in Nat
        BY <3>1
      <4> QED BY <4>1, ProductOfNats
    <3>3. percents[i] \in Nat /\ RoundedDown(percents[i] * total, sizes[i] * 100, total)
      BY <3>1, <3>2, QuotientOf DEF RoundedDown
    <3>4. c[i] = percents[i] /\ m[i] = sizes[i]
      BY <2>2 DEF Padded
    <3> QED BY <3>1, <3>3, <3>4
  <2> QED BY <2>1, <2>2
<1>2. sizes \in [1..n -> Int]
  OBVIOUS
<1>3. PICK c1, c2, c3, c4, m1, m2, m3, m4 :
          /\ c1 = c[1] /\ c2 = c[2] /\ c3 = c[3] /\ c4 = c[4]
          /\ m1 = m[1] /\ m2 = m[2] /\ m3 = m[3] /\ m4 = m[4]
  OBVIOUS
<1>4. SumOf(percents) = c1 + c2 + c3 + c4 /\ SumOf(sizes) = m1 + m2 + m3 + m4
  BY <1>2, <1>3, SumOfFour DEF FourOf
<1> HIDE DEF c, m
<1>5. c1 \in Nat /\ c2 \in Nat /\ c3 \in Nat /\ c4 \in Nat
  BY <1>1, <1>3
<1>6. m1 \in Nat /\ m2 \in Nat /\ m3 \in Nat /\ m4 \in Nat
  BY <1>1, <1>3
<1>7. PICK t1, t2, t3, t4 :
          t1 = c1 * total /\ t2 = c2 * total /\ t3 = c3 * total /\ t4 = c4 * total
  OBVIOUS
<1>8. /\ RoundedDown(t1, m1 * 100, total) /\ RoundedDown(t2, m2 * 100, total)
      /\ RoundedDown(t3, m3 * 100, total) /\ RoundedDown(t4, m4 * 100, total)
  BY <1>1, <1>3, <1>7
<1>9. (c1 + c2 + c3 + c4) * total = t1 + t2 + t3 + t4
  BY <1>5, <1>7, Distributes
<1>10. t1 \in Nat /\ t2 \in Nat /\ t3 \in Nat /\ t4 \in Nat
  BY <1>5, <1>7, ProductOfNats
<1>11. /\ 100 * SumOf(sizes) < t1 + t2 + t3 + t4 + 4 * total
       /\ t1 + t2 + t3 + t4 <= 100 * SumOf(sizes)
  BY <1>4, <1>6, <1>8, <1>10 DEF RoundedDown
<1>12. /\ 100 * SumOf(sizes) < (c1 + c2 + c3 + c4) * total + 4 * total
       /\ (c1 + c2 + c3 + c4) * total <= 100 * SumOf(sizes)
  BY <1>9, <1>11, Zenon
<1>13. c1 + c2 + c3 + c4 \in 95..100
  BY <1>5, <1>12, PercentsAddUp, Zenon DEF NearlyAll
<1> QED BY <1>4, <1>13

\* However a fund's columns are named, its part is found, and the sums of the parts are
\* within the tolerances of BankTransactionValidator: a part above 100 is no percentage,
\* and each of up to four parts loses less than one to rounding.
LEMMA SplitsAlike ==
    ASSUME NEW shares \in Seq(0..100), Len(shares) <= 4, SumOf(shares) = 100,
           NEW total \in Int \ {0}, ~LikePercentages(shares, AmountsDue(shares, total))
    PROVE  SameSplits(shares, total)
<1> DEFINE due == AmountsDue(shares, total)
           n == Len(shares)
<1>1. n \in Nat /\ n <= 4 /\ shares \in [1..n -> Nat] /\ DOMAIN shares = 1..n /\ DOMAIN due = 1..n
  <2>1. shares \in [1..n -> 0..100] /\ DOMAIN shares = 1..n /\ n \in Nat
    BY LenProperties
  <2>2. n <= 4 /\ 0..100 \subseteq Nat
    BY DEF n
  <2>3. shares \in [1..n -> Nat]
    BY <2>1, <2>2, Widened
  <2> QED BY <2>1, <2>2, <2>3 DEF AmountsDue
<1>2. \A i \in 1..n : Due(shares[i], total, due[i])
  BY <1>1, AmountIsDue
<1>3. Magnitude(total) \in Nat \ {0}
  BY DEF Magnitude
<1> HIDE DEF due, n
<1> SUFFICES ASSUME NEW k \in 1..8
             PROVE  LET splits == [i \in DOMAIN due |-> Split(Conventions(shares[i], due[i])[k], total)]
                    IN  /\ \A i \in DOMAIN due : Magnitude(splits[i].amount) = Magnitude(due[i])
                        /\ ~PercentageMismatch(splits) /\ ~AmountMismatch(splits, total)
  BY DEF SameSplits, due
<1> DEFINE splits == [i \in DOMAIN due |-> Split(Conventions(shares[i], due[i])[k], total)]
           percents == [i \in DOMAIN splits |-> splits[i].percent]
           sizes == [i \in DOMAIN splits |-> Magnitude(splits[i].amount)]
<1>4. ASSUME NEW i \in 1..n
      PROVE  /\ Magnitude(splits[i].amount) = Magnitude(due[i])
             /\ splits[i].percent = Seen(k, shares[i], total, due[i])
  <2>1. Finds(k, shares[i], total, due[i])
    BY <1>2, FindsDue
  <2>2. splits[i] = Split(Conventions(shares[i], due[i])[k], total)
    BY <1>1
  <2> QED BY <2>1, <2>2 DEF Finds
<1>5. DOMAIN sizes = 1..n /\ DOMAIN percents = 1..n
  BY <1>1
<1>6. ASSUME NEW i \in 1..n
      PROVE  /\ sizes[i] = Magnitude(due[i]) /\ sizes[i] \in Nat
             /\ sizes[i] = (shares[i] * Magnitude(total)) \div 100
             /\ shares[i] # 0 => sizes[i] > 100
             /\ percents[i] = Seen(k, shares[i], total, due[i])
  <2>1. sizes[i] = Magnitude(due[i]) /\ percents[i] = Seen(k, shares[i], total, due[i])
    BY <1>1, <1>4
  <2> HIDE DEF sizes, percents
  <2>2. Due(shares[i], total, due[i])
    BY <1>2
  <2>3. Magnitude(due[i]) \in Nat /\ (shares[i] = 0 \/ Magnitude(due[i]) > 100)
    BY <2>2 DEF Due, Magnitude
  <2>4. Magnitude(due[i]) = (shares[i] * Magnitude(total)) \div 100
    BY <2>2 DEF Due
  <2> QED BY <2>1, <2>3, <2>4
<1>7. sizes \in [1..n -> Nat]
  BY <1>5, <1>6
<1>9. PercentageMismatch(splits) <=> (SumOf(percents) \in 1..400 /\ Magnitude(SumOf(percents) - 100) > 5)
  BY DEF PercentageMismatch
<1>10. AmountMismatch(splits, total) <=>
          (SumOf(sizes) > 0 /\ total # 0
           /\ 50 * Magnitude(SumOf(sizes) - Magnitude(total)) > Magnitude(total))
  BY DEF AmountMismatch
<1>11. \A i \in DOMAIN due : Magnitude(splits[i].amount) = Magnitude(due[i])
  BY <1>1, <1>4
<1> HIDE DEF splits, percents, sizes
<1>12. NearlyAll(SumOf(sizes), Magnitude(total))
  <2>1. AllDue(n, shares, Magnitude(total), sizes)
    BY <1>6 DEF AllDue
  <2> QED BY <1>1, <1>3, <1>7, <2>1, NoAmountMismatch, Zenon
<1>13. ~AmountMismatch(splits, total)
  BY <1>3, <1>10, <1>12 DEF Magnitude, NearlyAll
<1>14. ~PercentageMismatch(splits)
  <2>1. CASE total < 0 /\ k \in {3, 4, 6, 8}
    <3>1. \A i \in 1..n : percents[i] = 0
      BY <1>6, <2>1 DEF Seen
    <3>2. percents \in [1..n -> Int]
      BY <1>5, <3>1 DEF percents
    <3>3. SumOf(percents) = 0
      <4>1. SumOf(percents) = FourOf(Padded(percents, n))
        BY <1>1, <3>2, SumOfFour
      <4>2. \A i \in 1..4 : Padded(percents, n)[i] = 0
        BY <1>1, <3>1 DEF Padded
      <4> QED BY <4>1, <4>2 DEF FourOf
    <3> QED BY <1>9, <3>3
  <2>2. CASE total > 0 /\ k \in {6, 8}
    <3>1. AllShares(n, sizes, Magnitude(total), percents)
      <4> SUFFICES ASSUME NEW i \in 1..n PROVE percents[i] = (sizes[i] * 100) \div Magnitude(total)
        BY DEF AllShares
      <4>1. percents[i] = (due[i] * 100) \div Magnitude(total)
        BY <1>6, <2>2 DEF Seen
      <4>2. due[i] = sizes[i]
        BY <1>2, <1>6, <2>2 DEF Due, Magnitude
      <4> QED BY <4>1, <4>2
    <3>2. percents \in [1..n -> Int]
      <4> SUFFICES ASSUME NEW i \in 1..n PROVE percents[i] \in Int
        BY <1>5 DEF percents
      <4>1. sizes[i] * 100 \in Nat
        BY <1>6
      <4> QED BY <1>3, <3>1, <4>1, QuotientOf DEF AllShares
    <3>3. SumOf(percents) \in 95..100
      BY <1>1, <1>3, <1>7, <1>12, <3>1, <3>2, NoPercentageMismatch, Zenon
    <3> QED BY <1>9, <3>3 DEF Magnitude
  <2>3. CASE ~(total < 0 /\ k \in {3, 4, 6, 8}) /\ ~(total > 0 /\ k \in {6, 8})
    <3>1. \A i \in 1..n : percents[i] = shares[i]
      BY <1>6, <2>3 DEF Seen
    <3>2. percents = shares
      BY <1>1, <1>5, <3>1 DEF percents
    <3>3. SumOf(percents) = 100
      BY <3>2
    <3> QED BY <1>9, <3>3 DEF Magnitude
  <2> QED BY <2>1, <2>2, <2>3
<1> QED BY <1>11, <1>13, <1>14 DEF splits

-----------------------------------------------------------------------------
(* Goal transaction codes *)

LEMMA ConcatSplits ==
    ASSUME NEW S, NEW s \in Seq(S), NEW t \in Seq(S), NEW u \in Seq(S), NEW v \in Seq(S),
           Len(s) = Len(t), s \o u = t \o v
    PROVE  s = t /\ u = v
<1>1. Len(s) \in Nat /\ Len(u) \in Nat
    BY LenProperties
<1>2. ASSUME NEW i \in 1 .. Len(s) PROVE s[i] = t[i]
    <2>1. i \in 1 .. Len(s) + Len(u) /\ i <= Len(s)
        BY <1>1
    <2>2. (s \o u)[i] = s[i]
        BY <2>1, ConcatProperties
    <2>3. Len(v) \in Nat /\ i \in 1 .. Len(t) + Len(v)
        BY <1>1, LenProperties
    <2>4. (t \o v)[i] = t[i]
        BY <2>1, <2>3, ConcatProperties
    <2> QED BY <2>2, <2>4
<1>3. s = t
    BY <1>2, SeqEqual
<1> QED BY <1>3, ConcatSimplifications

\* The same of a concatenation under a name.
Two(s, t) == s \o t

LEMMA TwoSplits ==
    ASSUME NEW S, NEW s \in Seq(S), NEW t \in Seq(S), NEW u \in Seq(S), NEW v \in Seq(S),
           Len(s) = Len(t), Two(s, u) = Two(t, v)
    PROVE  s = t /\ u = v
<1>1. s \o u = t \o v
    BY DEF Two
<1> QED BY <1>1, ConcatSplits

LEMMA TwoType ==
    ASSUME NEW S, NEW s \in Seq(S), NEW t \in Seq(S)
    PROVE  Two(s, t) \in Seq(S) /\ Len(Two(s, t)) = Len(s) + Len(t)
BY ConcatProperties DEF Two

\* Concatenations of as many sequences of the same lengths.
Equal3(a, b, c, k, l, m) ==
    Len(a) = Len(k) /\ Len(b) = Len(l) /\ Two(Two(a, b), c) = Two(Two(k, l), m)
Equal4(a, b, c, d, k, l, m, n) ==
    /\ Len(a) = Len(k) /\ Len(b) = Len(l) /\ Len(c) = Len(m)
    /\ Two(Two(Two(a, b), c), d) = Two(Two(Two(k, l), m), n)

LEMMA ThreeSplit ==
    ASSUME NEW S, NEW a \in Seq(S), NEW b \in Seq(S), NEW c \in Seq(S),
           NEW k \in Seq(S), NEW l \in Seq(S), NEW m \in Seq(S), Equal3(a, b, c, k, l, m)
    PROVE  a = k /\ b = l /\ c = m
<1>1. Two(a, b) \in Seq(S) /\ Len(Two(a, b)) = Len(a) + Len(b)
    BY TwoType
<1>2. Two(k, l) \in Seq(S) /\ Len(Two(k, l)) = Len(k) + Len(l)
    BY TwoType
<1>3. Two(a, b) = Two(k, l) /\ c = m
    BY <1>1, <1>2, TwoSplits DEF Equal3
<1> QED BY <1>3, TwoSplits DEF Equal3

LEMMA FourSplit ==
    ASSUME NEW S, NEW a \in Seq(S), NEW b \in Seq(S), NEW c \in Seq(S), NEW d \in Seq(S),
           NEW k \in Seq(S), NEW l \in Seq(S), NEW m \in Seq(S), NEW n \in Seq(S),
           Equal4(a, b, c, d, k, l, m, n)
    PROVE  a = k /\ b = l /\ c = m /\ d = n
<1>1. Two(a, b) \in Seq(S) /\ Len(Two(a, b)) = Len(a) + Len(b)
    BY TwoType
<1>2. Two(k, l) \in Seq(S) /\ Len(Two(k, l)) = Len(k) + Len(l)
    BY TwoType
<1>3. Equal3(Two(a, b), c, d, Two(k, l), m, n)
    BY <1>1, <1>2 DEF Equal3, Equal4
<1>4. Two(a, b) = Two(k, l) /\ c = m /\ d = n
    BY <1>1, <1>2, <1>3, ThreeSplit
<1> QED BY <1>4, TwoSplits DEF Equal4

\* The parts of a row that its code is made of.
Identified(r) ==
    /\ r.account \in Seq(STRING) /\ Len(r.account) = 2
    /\ r.goal \in Seq(STRING) /\ Len(r.goal) = 2
    /\ r.txn \in Seq(STRING) /\ r.txn # <<>> /\ r.source \in STRING

\* What follows date, account and goal in a code, if anything does.
Suffix(r) == IF r.txn = <<"">> /\ r.source = "" THEN <<>> ELSE r.txn \o <<r.source>>

LEMMA OneSuffix ==
    ASSUME NEW r, Identified(r), NEW s, Identified(s), Suffix(r) = Suffix(s)
    PROVE  r.txn = s.txn /\ r.source = s.source
<1> DEFINE Short(q) == q.txn = <<"">> /\ q.source = ""
<1>1. ASSUME NEW q, Identified(q)
      PROVE  /\ <<q.source>> \in Seq(STRING) /\ Len(<<q.source>>) = 1
             /\ q.txn \in Seq(STRING) /\ Len(q.txn) \in Nat
             /\ Len(q.txn \o <<q.source>>) = Len(q.txn) + 1
    <2>1. q.txn \in Seq(STRING) /\ q.source \in STRING
        BY <1>1 DEF Identified
    <2>2. <<q.source>> \in Seq(STRING) /\ Len(<<q.source>>) = 1
        BY <2>1
    <2> QED BY <2>1, <2>2, ConcatProperties, LenProperties
<1>2. Len(<<>>) = 0
    BY EmptySeq
<1>3. CASE Short(r) /\ Short(s)
    BY <1>3
<1>4. CASE Short(r) /\ ~Short(s)
    <2>1. <<>> = s.txn \o <<s.source>>
        BY <1>4 DEF Suffix
    <2>2. Len(s.txn) \in Nat /\ Len(s.txn \o <<s.source>>) = Len(s.txn) + 1
        BY <1>1
    <2>3. 0 = Len(s.txn) + 1
        BY <1>2, <2>1, <2>2
    <2> QED BY <2>2, <2>3
<1>5. CASE ~Short(r) /\ Short(s)
    <2>1. <<>> = r.txn \o <<r.source>>
        BY <1>5 DEF Suffix
    <2>2. Len(r.txn) \in Nat /\ Len(r.txn \o <<r.source>>) = Len(r.txn) + 1
        BY <1>1
    <2>3. 0 = Len(r.txn) + 1
        BY <1>2, <2>1, <2>2
    <2> QED BY <2>2, <2>3
<1>6. CASE ~Short(r) /\ ~Short(s)
    <2>1. r.txn \o <<r.source>> = s.txn \o <<s.source>>
        BY <1>6 DEF Suffix
    <2>a. /\ r.txn \in Seq(STRING) /\ <<r.source>> \in Seq(STRING)
          /\ Len(r.txn) \in Nat /\ Len(r.txn \o <<r.source>>) = Len(r.txn) + 1
        BY <1>1
    <2>b. /\ s.txn \in Seq(STRING) /\ <<s.source>> \in Seq(STRING)
          /\ Len(s.txn) \in Nat /\ Len(s.txn \o <<s.source>>) = Len(s.txn) + 1
        BY <1>1
    <2>2. Len(r.txn) = Len(s.txn)
        BY <2>1, <2>a, <2>b
    <2>3. r.txn = s.txn /\ <<r.source>> = <<s.source>>
        BY <2>1, <2>2, <2>a, <2>b, ConcatSplits
    <2> QED BY <2>3
<1> QED BY <1>3, <1>4, <1>5, <1>6

\* A code tells day, account, goal, transaction id and source, although ids hold the dashes
\* that part them (GoalTransactionCodeGenerator.generate).
LEMMA CodesTell ==
    ASSUME NEW r, Identified(r), NEW s, Identified(s), NEW zone
    PROVE  OwnGroup(r, s, zone)
<1> SUFFICES ASSUME Code(r, zone) = Code(s, zone)
             PROVE  /\ <<r.account, r.goal, r.txn, r.source>> = <<s.account, s.goal, s.txn, s.source>>
                    /\ LocalDay(FundDate(r.date, zone), zone) = LocalDay(FundDate(s.date, zone), zone)
    BY DEF OwnGroup
<1> DEFINE Day(q) == LocalDay(FundDate(q.date, zone), zone)
           S == STRING \union {Day(r), Day(s)}
           Parts(q) == /\ <<Day(q)>> \in Seq(S) /\ Len(<<Day(q)>>) = 1
                       /\ q.account \in Seq(S) /\ Len(q.account) = 2
                       /\ q.goal \in Seq(S) /\ Len(q.goal) = 2
                       /\ Suffix(q) \in Seq(S)
<1>1. ASSUME NEW q, Identified(q), Day(q) \in S PROVE Parts(q)
    <2>1. \A x \in Seq(STRING) : x \in Seq(S)
        BY SeqMonotonic
    <2>2. q.source \in S
        BY <1>1 DEF Identified
    <2> HIDE DEF S, Day
    <2>3. <<Day(q)>> \in Seq(S) /\ Len(<<Day(q)>>) = 1
        BY <1>1
    <2>4. <<q.source>> \in Seq(S)
        BY <2>2
    <2>5. q.txn \in Seq(S)
        BY <1>1, <2>1 DEF Identified
    <2>6. Suffix(q) \in Seq(S)
        BY <2>4, <2>5, ConcatProperties, EmptySeq DEF Suffix
    <2> QED BY <1>1, <2>1, <2>3, <2>6 DEF Identified
<1>2. Parts(r) /\ Parts(s)
    BY <1>1
<1>3. <<Day(r)>> \o r.account \o r.goal \o Suffix(r) = <<Day(s)>> \o s.account \o s.goal \o Suffix(s)
    BY DEF Code, Suffix
<1> HIDE DEF S, Day
<1>4. /\ <<Day(r)>> = <<Day(s)>> /\ r.account = s.account /\ r.goal = s.goal
      /\ Suffix(r) = Suffix(s)
    <2>1. Equal4(<<Day(r)>>, r.account, r.goal, Suffix(r),
                 <<Day(s)>>, s.account, s.goal, Suffix(s))
        BY <1>2, <1>3 DEF Equal4, Two
    <2> QED BY <1>2, <2>1, FourSplit
<1>5. Day(r) = Day(s)
    BY <1>4
<1>6. r.txn = s.txn /\ r.source = s.source
    BY <1>4, OneSuffix
<1> QED BY <1>4, <1>5, <1>6 DEF Day

\* The groups counted as incomplete are those of whose number of rows it is warned
\* (GoalTransactionValidator.getStatistics).
LEMMA IncompleteAreWarnedOf ==
    ASSUME NEW rows, NEW zone
    PROVE  GroupStatistics(rows, zone).incomplete =
             Cardinality({g \in CodeGroups(rows, zone) :
                            "GOAL_TRANSACTION_COMPLETE_FUND_SET" \in GroupWarnings(g)})
<1> DEFINE groups == CodeGroups(rows, zone)
           warned == {g \in groups : "GOAL_TRANSACTION_COMPLETE_FUND_SET" \in GroupWarnings(g)}
<1>1. ASSUME NEW g
      PROVE  "GOAL_TRANSACTION_COMPLETE_FUND_SET" \in GroupWarnings(g) <=> Cardinality(g) # 4
    BY DEF GroupWarnings, Flag
<1> HIDE DEF groups
<1>2. groups \ {g \in groups : Cardinality(g) = 4} = warned
    BY <1>1
<1> QED BY <1>2 DEF GroupStatistics, groups

-----------------------------------------------------------------------------
(* The page shows one scene *)

LEMMA SceneStays == Next => UNCHANGED scene
<1> USE DEF serverVars, Page, dialogVars, requestVars
<1> SUFFICES ASSUME Next PROVE scene' = scene
    OBVIOUS
<1>1. ASSUME NEW b \in Batch, WorkerStep(b) \/ WorkerFails(b) \/ OtherClients(b) \/ UploadFile(b)
      PROVE  scene' = scene
    BY <1>1 DEF WorkerStep, WorkerFails, OtherClients, UploadFile
<1>2. CASE UploadAnswered
    BY <1>2 DEF UploadAnswered
<1>3. ASSUME NEW by, FetchStep(by) PROVE scene' = scene
    BY <1>3 DEF FetchStep, FetchRead, FetchAnswered
<1>4. ASSUME NEW l \in Loop, Tick(l) \/ LoopStep(l) PROVE scene' = scene
    BY <1>4 DEF Tick, LoopStep, AskStatus, ReceiveStatus, AskEntities, ReceiveEntities
<1>5. ASSUME NEW b, Review(b) \/ ViewDetails(b) PROVE scene' = scene
    BY <1>5 DEF Review, ViewDetails
<1>6. ASSUME NEW r, ReviewAnswered(r) PROVE scene' = scene
    BY <1>6 DEF ReviewAnswered
<1>7. ASSUME NEW kind, Decide(kind) PROVE scene' = scene
    BY <1>7 DEF Decide
<1>8. CASE CloseDetails \/ DecisionTaken \/ DecisionAnswered
    BY <1>8 DEF CloseDetails, DecisionTaken, DecisionAnswered
<1>9. ASSUME NEW b, NEW kind, AskChange(b, kind) PROVE scene' = scene
    BY <1>9 DEF AskChange
<1>10. CASE ChangeTaken \/ ChangeRefused \/ ChangeAnswered
    BY <1>10 DEF ChangeTaken, ChangeRefused, ChangeAnswered
<1> QED BY <1>1, <1>2, <1>3, <1>4, <1>5, <1>6, <1>7, <1>8, <1>9, <1>10 DEF Next

LEMMA OneScene == Spec => [](scene \in Scenes)
<1>1. Init => scene \in Scenes
    BY DEF Init
<1>2. scene \in Scenes /\ [Next]_vars => (scene \in Scenes)'
    BY SceneStays DEF vars, serverVars
<1> QED BY <1>1, <1>2, PTL DEF Spec

\* Fund and bank files give a valid date the same day, for every date, server offset and
\* form of IsDateText, except where DD-MM-YYYY and DD-MM-YY have a day and a month that
\* new Date takes for each other (DateUtils.parseDate, BankCSVParser.parseDate).
THEOREM DatesReadAlike == Spec => []DatesAgree
<1>1. scene \in Scenes => DatesAgree
    <2> DEFINE date == scene.text.row.date
    <2> SUFFICES ASSUME scene \in Scenes, IsDay(date), date.form \in Dashed => date.day = date.month
                 PROVE  SameDate(date, scene.zone)
        BY DEF DatesAgree
    <2>1. IsDateText(scene.text.row.date) /\ scene.zone \in -12..14
        BY PageAssumption, TextAssumption
    <2> QED BY <2>1, DatesRead
<1> QED BY <1>1, OneScene, PTL

\* A transaction is taken alike by both files, whatever its columns hold and however
\* the bank file names its fund columns: the amounts found are of the same size and no
\* mismatch is warned of, apart from the exceptions FilesTakeAlike names (BankCSVParser.parseFundDistribution, BankTransactionValidator,
\* FundTransactionValidator).
THEOREM FilesReadAlike == Spec => []FilesTakeAlike
<1>1. scene \in Scenes => FilesTakeAlike
    <2> SUFFICES ASSUME scene \in Scenes PROVE FilesTakeAlike
        OBVIOUS
    <2> DEFINE shares == scene.text.shares
               total == scene.text.total
    <2>1. shares \in Seq(0..100) /\ Len(shares) <= 4 /\ SumOf(shares) = 100 /\ total \in Int
        BY PageAssumption
    <2>2. TakenAlike(scene.text.row, scene.zone)
        BY PageAssumption, TextAssumption, RowsRead
    <2> HIDE DEF shares, total
    <2>3. total # 0 /\ ~LikePercentages(shares, AmountsDue(shares, total)) => SameSplits(shares, total)
        BY <2>1, SplitsAlike
    <2> QED BY <2>2, <2>3 DEF FilesTakeAlike, shares, total
<1> QED BY <1>1, OneScene, PTL

\* Rows that share a goal transaction code share day, account, goal, transaction id and
\* source, whatever ids they have; the counts agree with the warnings
\* (GoalTransactionCodeGenerator, GoalTransactionValidator).
THEOREM CodesAreApart == Spec => []CodesSeparate
<1>1. scene \in Scenes => CodesSeparate
    <2> SUFFICES ASSUME scene \in Scenes, NEW r \in Row
                 PROVE  LET s == scene.text.row
                            zone == scene.zone
                            read == Parsed({r, s}, zone)
                            groups == CodeGroups(read, zone)
                        IN  /\ OwnGroup(r, s, zone)
                            /\ GroupStatistics(read, zone).incomplete =
                                 Cardinality({g \in groups :
                                    "GOAL_TRANSACTION_COMPLETE_FUND_SET" \in GroupWarnings(g)})
        BY DEF CodesSeparate
    <2>1. Identified(r) /\ Identified(scene.text.row)
        BY TextAssumption DEF Identified
    <2>2. OwnGroup(r, scene.text.row, scene.zone)
        BY <2>1, CodesTell
    <2> QED BY <2>2, IncompleteAreWarnedOf
<1> QED BY <1>1, OneScene, PTL

-----------------------------------------------------------------------------
(* The dialog *)

\* The dialog never shows the entities of one batch and decides another; only an answer
\* that shows a batch's details changes the summary alone.
DialogIsOne == dialog.batch = dialog.entities

DecisionInv ==
    /\ DialogIsOne /\ DOMAIN dialog = DOMAIN Closed
    /\ ApprovedWhatWasShown /\ DOMAIN decision = DOMAIN NoDecision

LEMMA ShownTogether ==
    ASSUME DecisionInv, NEW b, NEW answer, ShowDialog(b, answer), UNCHANGED decision
    PROVE  DecisionInv'
BY DEF DecisionInv, DialogIsOne, ShowDialog, ApprovedWhatWasShown, Closed

LEMMA DecisionStays == DecisionInv /\ UNCHANGED <<dialog, decision>> => DecisionInv'
BY DEF DecisionInv, DialogIsOne, ApprovedWhatWasShown

LEMMA DecisionSteps == DecisionInv /\ Next => DecisionInv'
<1> SUFFICES ASSUME DecisionInv, Next PROVE DecisionInv'
    OBVIOUS
<1> USE DEF dialogVars, requestVars, Page
<1>1. ASSUME NEW b \in Batch, WorkerStep(b) \/ WorkerFails(b) \/ OtherClients(b) \/ UploadFile(b)
      PROVE  DecisionInv'
    BY <1>1, DecisionStays DEF WorkerStep, WorkerFails, OtherClients, UploadFile
<1>2. CASE UploadAnswered
    BY <1>2, DecisionStays DEF UploadAnswered
<1>3. ASSUME NEW by, FetchRead(by) PROVE DecisionInv'
    BY <1>3, DecisionStays DEF FetchRead
<1>4. ASSUME NEW by, FetchAnswered(by) PROVE DecisionInv'
    <2>1. dialog' = dialog /\ (decision' = NoDecision \/ decision' = decision)
        BY <1>4 DEF FetchAnswered
    <2>2. CASE decision' = NoDecision
        BY <2>1, <2>2 DEF DecisionInv, DialogIsOne, ApprovedWhatWasShown, NoDecision
    <2> QED BY <2>1, <2>2, DecisionStays
<1>5. ASSUME NEW l \in Loop, Tick(l) \/ AskStatus(l) \/ ReceiveStatus(l) \/ AskEntities(l)
      PROVE  DecisionInv'
    BY <1>5, DecisionStays DEF Tick, AskStatus, ReceiveStatus, AskEntities, Announce
<1>6. ASSUME NEW l \in Loop, ReceiveEntities(l) PROVE DecisionInv'
    BY <1>6, ShownTogether DEF ReceiveEntities
<1>7. ASSUME NEW b, Review(b) \/ ViewDetails(b) PROVE DecisionInv'
    BY <1>7, DecisionStays DEF Review, ViewDetails, Announce
<1>8. ASSUME NEW r, ReviewAnswered(r) PROVE DecisionInv'
    <2>1. UNCHANGED decision
        BY <1>8 DEF ReviewAnswered
    <2>2. CASE ShowDetails(r.batch)
        BY <2>1, <2>2 DEF ShowDetails, DecisionInv, DialogIsOne, ApprovedWhatWasShown, Closed
    <2> QED BY <1>8, <2>1, <2>2, ShownTogether DEF ReviewAnswered
<1>14. ASSUME CloseDetails PROVE DecisionInv'
    BY <1>14 DEF CloseDetails, DecisionInv, DialogIsOne, ApprovedWhatWasShown, Closed
<1>9. ASSUME NEW kind, Decide(kind) PROVE DecisionInv'
    BY <1>9 DEF Decide, DecisionInv, DialogIsOne, ApprovedWhatWasShown, NoDecision
<1>10. ASSUME DecisionTaken PROVE DecisionInv'
    <2>1. dialog' = dialog /\ \E pc \in {"ok", "error"} : decision' = [decision EXCEPT !.pc = pc]
        BY <1>10 DEF DecisionTaken
    <2> QED BY <2>1 DEF DecisionInv, DialogIsOne, ApprovedWhatWasShown, NoDecision
<1>11. ASSUME DecisionAnswered PROVE DecisionInv'
    <2>1. dialog' = [Closed EXCEPT !.details = dialog.details] \/ dialog' = dialog
        BY <1>11 DEF DecisionAnswered
    <2>2. decision' = [decision EXCEPT !.pc = "fetch"] \/ decision' = NoDecision
        BY <1>11 DEF DecisionAnswered
    <2>3. DialogIsOne' /\ DOMAIN dialog' = DOMAIN Closed
        BY <2>1 DEF DecisionInv, DialogIsOne, Closed
    <2>4. (decision.seen = decision.batch)' /\ DOMAIN decision' = DOMAIN NoDecision
        BY <2>2 DEF DecisionInv, ApprovedWhatWasShown, NoDecision
    <2>5. (dialog.open /\ dialog.summary # dialog.entities => dialog.details)'
        BY <2>1 DEF DecisionInv, ApprovedWhatWasShown, Closed
    <2> QED BY <2>3, <2>4, <2>5 DEF DecisionInv, ApprovedWhatWasShown
<1>12. ASSUME NEW b, NEW kind, AskChange(b, kind) PROVE DecisionInv'
    BY <1>12, DecisionStays DEF AskChange
<1>13. CASE ChangeTaken \/ ChangeRefused \/ ChangeAnswered
    BY <1>13, DecisionStays DEF ChangeTaken, ChangeRefused, ChangeAnswered
<1> QED BY <1>1, <1>2, <1>3, <1>4, <1>5, <1>6, <1>7, <1>8, <1>9, <1>10, <1>11, <1>12, <1>13, <1>14
        DEF Next, FetchStep, LoopStep

\* What the page asks to approve or reject is what it showed (FundUpload.tsx handleApprove).
THEOREM DecidesWhatWasShown == Spec => []ApprovedWhatWasShown
<1>1. Init => DecisionInv
    BY DEF Init, DecisionInv, DialogIsOne, ApprovedWhatWasShown, Closed, NoDecision
<1>2. DecisionInv /\ [Next]_vars => DecisionInv'
    BY DecisionSteps, DecisionStays DEF vars, dialogVars, requestVars
<1>3. DecisionInv => ApprovedWhatWasShown
    BY DEF DecisionInv
<1> QED BY <1>1, <1>2, <1>3, PTL DEF Spec

-----------------------------------------------------------------------------
(* Well typed: batches on the server *)

Present == {b \in Batch : server[b].status # "absent"}

\* An attempt is left to a batch that has a job.
ServerInv ==
    /\ server \in [Batch -> [status : Status, job : JobPc, tries : 0..MaxAttempts]]
    /\ \A b \in Batch : /\ server[b].job # "none" => server[b].tries < MaxAttempts
                        /\ server[b].status = "absent" => server[b].tries = 0

\* The server is still well typed and has forgotten no batch.
ServerGoesOn == ServerInv' /\ Present \subseteq Present'

LEMMA ServerStays == ASSUME ServerInv, UNCHANGED server PROVE ServerGoesOn
BY DEF ServerInv, ServerGoesOn, Present

\* One batch moves to another place.
LEMMA OneMoves ==
    ASSUME ServerInv, NEW b \in Batch,
           NEW e \in [status : Status \ {"absent"}, job : JobPc, tries : 0..MaxAttempts],
           e.job # "none" => e.tries < MaxAttempts, server' = [server EXCEPT ![b] = e]
    PROVE  ServerGoesOn
<1>1. ASSUME NEW c \in Batch PROVE server'[c] = IF c = b THEN e ELSE server[c]
    BY DEF ServerInv
<1>2. ServerInv'
    <2>1. server' \in [Batch -> [status : Status, job : JobPc, tries : 0..MaxAttempts]]
        BY DEF ServerInv
    <2> QED BY <1>1, <2>1 DEF ServerInv
<1>3. Present \subseteq Present'
    BY <1>1 DEF Present
<1> QED BY <1>2, <1>3 DEF ServerGoesOn

LEMMA EntryOf ==
    ASSUME ServerInv, NEW b \in Batch
    PROVE  /\ server[b] \in [status : Status, job : JobPc, tries : 0..MaxAttempts]
           /\ server[b].job # "none" => server[b].tries < MaxAttempts
           /\ server[b].status = "absent" => server[b].tries = 0
BY DEF ServerInv

LEMMA PutMoves ==
    ASSUME ServerInv, NEW b \in Batch, NEW status \in Status \ {"absent"}, NEW job \in JobPc,
           \/ job = "none"
           \/ server[b].job # "none"
           \/ server[b].status = "absent",
           Put(b, status, job)
    PROVE  ServerGoesOn
<1> DEFINE e == [server[b] EXCEPT !.status = status, !.job = job]
<1>1. server' = [server EXCEPT ![b] = e]
    BY DEF Put, ServerInv
<1>2. /\ server[b] \in [status : Status, job : JobPc, tries : 0..MaxAttempts]
      /\ server[b].job # "none" => server[b].tries < MaxAttempts
      /\ server[b].status = "absent" => server[b].tries = 0
    BY EntryOf
<1>3. e \in [status : Status \ {"absent"}, job : JobPc, tries : 0..MaxAttempts]
    BY <1>2
<1>4. e.job = job /\ e.tries = server[b].tries
    BY <1>2
<1>5. e.job # "none" => e.tries < MaxAttempts
    BY <1>2, <1>4, PageAssumption
<1> HIDE DEF e
<1> QED BY <1>1, <1>3, <1>5, OneMoves

LEMMA FailMoves ==
    ASSUME ServerInv, NEW b \in Batch, server[b].job # "none", FailJob(b)
    PROVE  ServerGoesOn
<1> DEFINE again == server[b].tries + 1 < MaxAttempts
           from == IF server[b].job = "resume" THEN "resume" ELSE "start"
           e == [status |-> "FAILED", tries |-> server[b].tries + 1,
                 job |-> IF again THEN from ELSE "none"]
<1>1. server[b].tries \in 0..MaxAttempts /\ server[b].tries < MaxAttempts
    BY EntryOf
<1>2. server' = [server EXCEPT ![b] = e]
    BY DEF FailJob, ServerInv
<1>3. /\ e \in [status : Status \ {"absent"}, job : JobPc, tries : 0..MaxAttempts]
      /\ e.job # "none" => e.tries < MaxAttempts
    BY <1>1, PageAssumption DEF Status, Unfinished, Gone, JobPc
<1> HIDE DEF e
<1> QED BY <1>2, <1>3, OneMoves

LEMMA DecidedMoves ==
    ASSUME ServerInv, NEW b \in Batch, NEW kind, Decided(b, kind), Decidable(b)
    PROVE  ServerGoesOn
<1>1. CASE kind = "approve"
    <2> DEFINE e == [status |-> "PROCESSING", job |-> "resume", tries |-> 0]
    <2>1. server' = [server EXCEPT ![b] = e]
        BY <1>1 DEF Decided
    <2>2. /\ e \in [status : Status \ {"absent"}, job : JobPc, tries : 0..MaxAttempts]
          /\ e.job # "none" => e.tries < MaxAttempts
        BY PageAssumption DEF Status, Unfinished, Busy, Gone, JobPc
    <2> HIDE DEF e
    <2> QED BY <2>1, <2>2, OneMoves
<1>2. CASE kind # "approve"
    <2> DEFINE e == [server[b] EXCEPT !.status = "FAILED"]
    <2>1. server' = [server EXCEPT ![b] = e]
        BY <1>2 DEF Decided, ServerInv
    <2>2. /\ server[b] \in [status : Status, job : JobPc, tries : 0..MaxAttempts]
          /\ server[b].job # "none" => server[b].tries < MaxAttempts
        BY EntryOf
    <2>3. /\ e \in [status : Status \ {"absent"}, job : JobPc, tries : 0..MaxAttempts]
          /\ e.job # "none" => e.tries < MaxAttempts
        BY <2>2 DEF Status, Unfinished, Gone
    <2> HIDE DEF e
    <2> QED BY <2>1, <2>3, OneMoves
<1> QED BY <1>1, <1>2

LEMMA WorkMoves ==
    ASSUME ServerInv, NEW b \in Batch, server[b].job # "none", Work(b)
    PROVE  ServerGoesOn
<1> USE DEF Status, Unfinished, Busy, Gone, JobPc
<1>1. server[b].job \in JobPc
    BY EntryOf
<1>2. ASSUME Post(b) PROVE ServerGoesOn
    BY <1>2, FailMoves, PutMoves DEF Post
<1>3. ASSUME Pause(b) PROVE ServerGoesOn
    BY <1>3, PutMoves DEF Pause
<1>4. CASE server[b].job = "start"
    BY <1>4, PutMoves DEF Work
<1>5. CASE server[b].job \in {"parse", "validate"}
    BY <1>5, PutMoves, FailMoves DEF Work
<1>6. CASE server[b].job = "check"
    BY <1>2, <1>3, <1>6, FailMoves DEF Work
<1>7. CASE server[b].job = "resume"
    BY <1>2, <1>7 DEF Work
<1> QED BY <1>1, <1>4, <1>5, <1>6, <1>7

\* Requests are about batches.
RequestInv ==
    /\ DOMAIN decision = DOMAIN NoDecision /\ DOMAIN change = DOMAIN NoChange
    /\ decision.pc # "none" => decision.batch \in Batch
    /\ change.pc # "none" => change.batch \in Batch

LEMMA ServerSteps == ServerInv /\ RequestInv /\ Next => ServerGoesOn
<1> SUFFICES ASSUME ServerInv, RequestInv, Next PROVE ServerGoesOn
    OBVIOUS
<1> USE DEF Page, serverVars
<1>1. ASSUME NEW b \in Batch, WorkerStep(b) PROVE ServerGoesOn
    BY <1>1, WorkMoves DEF WorkerStep
<1>2. ASSUME NEW b \in Batch, WorkerFails(b) PROVE ServerGoesOn
    BY <1>2, FailMoves DEF WorkerFails
<1>3. ASSUME NEW b \in Batch, Created(b), server[b].status = "absent" PROVE ServerGoesOn
    BY <1>3, PutMoves DEF Created, Status, Unfinished, Gone, JobPc
<1>4. ASSUME NEW b \in Batch, RolledBack(b) PROVE ServerGoesOn
    BY <1>4, PutMoves DEF RolledBack, Status, Gone, JobPc
<1>5. ASSUME NEW b \in Batch, OtherClients(b) PROVE ServerGoesOn
    BY <1>3, <1>4, <1>5, DecidedMoves DEF OtherClients, CreateElsewhere
<1>6. ASSUME NEW b \in Batch, UploadFile(b) PROVE ServerGoesOn
    BY <1>3, <1>6 DEF UploadFile
<1>7. ASSUME DecisionTaken PROVE ServerGoesOn
    <2>1. decision.batch \in Batch
        BY <1>7 DEF RequestInv, DecisionTaken
    <2> QED BY <1>7, <2>1, DecidedMoves, ServerStays DEF DecisionTaken
<1>8. ASSUME ChangeTaken PROVE ServerGoesOn
    <2>1. change.batch \in Batch
        BY <1>8 DEF RequestInv, ChangeTaken
    <2>2. ASSUME NEW b \in Batch, Canceled(b) \/ BankCanceled(b) PROVE ServerGoesOn
        <3>1. server[b].job \in JobPc
            BY EntryOf
        <3> QED BY <2>2, <3>1, PutMoves DEF Canceled, BankCanceled, Status, Gone, JobPc
    <2> QED BY <1>4, <1>8, <2>1, <2>2 DEF ChangeTaken
<1>9. ASSUME UNCHANGED server PROVE ServerGoesOn
    BY <1>9, ServerStays
<1>10. CASE UploadAnswered
    BY <1>9, <1>10 DEF UploadAnswered
<1>11. ASSUME NEW by, FetchStep(by) PROVE ServerGoesOn
    BY <1>9, <1>11 DEF FetchStep, FetchRead, FetchAnswered
<1>12. ASSUME NEW l \in Loop, Tick(l) \/ LoopStep(l) PROVE ServerGoesOn
    BY <1>9, <1>12 DEF Tick, LoopStep, AskStatus, ReceiveStatus, AskEntities, ReceiveEntities
<1>13. ASSUME NEW b, Review(b) \/ ViewDetails(b) PROVE ServerGoesOn
    BY <1>9, <1>13 DEF Review, ViewDetails
<1>14. ASSUME NEW r, ReviewAnswered(r) \/ CloseDetails PROVE ServerGoesOn
    BY <1>9, <1>14 DEF ReviewAnswered, CloseDetails
<1>15. ASSUME NEW kind, Decide(kind) PROVE ServerGoesOn
    BY <1>9, <1>15 DEF Decide
<1>16. ASSUME NEW b, NEW kind, AskChange(b, kind) PROVE ServerGoesOn
    BY <1>9, <1>16 DEF AskChange
<1>17. CASE DecisionAnswered \/ ChangeRefused \/ ChangeAnswered
    BY <1>9, <1>17 DEF DecisionAnswered, ChangeRefused, ChangeAnswered
<1> QED BY <1>1, <1>2, <1>5, <1>6, <1>7, <1>8, <1>10, <1>11, <1>12, <1>13, <1>14, <1>15,
           <1>16, <1>17 DEF Next

-----------------------------------------------------------------------------
(* Well typed: lists and what is captured of them *)

\* The enumeration of a finite set.
LEMMA SetToSeqType ==
    ASSUME NEW A, IsFiniteSet(A)
    PROVE  SetToSeq(A) \in [1 .. Cardinality(A) -> A]
<1>1. ExistsBijection(1 .. Cardinality(A), A)
    BY FS_CardinalityType
<1>2. PICK f \in [1 .. Cardinality(A) -> A] : IsInjective(f)
    BY <1>1 DEF ExistsBijection, Bijection, Injection
<1> QED BY <1>2 DEF SetToSeq

LEMMA ListingType ==
    ASSUME ServerInv
    PROVE  Listing \in Seq(Entry) /\ Len(Listing) <= Cardinality(Batch)
<1> DEFINE live == {b \in Batch : Live(b)}
           n == Cardinality(live)
<1>1. IsFiniteSet(live) /\ n <= Cardinality(Batch) /\ n \in Nat
    BY PageAssumption, FS_Subset, FS_CardinalityType
<1>2. Batches \in [1..n -> live]
    BY <1>1, SetToSeqType DEF Batches
<1> HIDE DEF n
<1>3. ASSUME NEW i \in 1..n
      PROVE  [batch |-> Batches[i], status |-> server[Batches[i]].status] \in Entry
    <2>1. Batches[i] \in Batch
        BY <1>2
    <2>2. server[Batches[i]].status \in Status
        BY <2>1, EntryOf
    <2> QED BY <2>1, <2>2 DEF Entry
<1>4. DOMAIN Batches = 1..n
    BY <1>2
<1>5. Listing \in [1..n -> Entry]
    BY <1>3, <1>4 DEF Listing
<1>6. Listing \in Seq(Entry) /\ Len(Listing) = n
    BY <1>1, <1>5, IsASeq, LenProperties
<1> QED BY <1>1, <1>6

\* Adding up: Len(list) and the response in flight against the batches there are.
InFlight == IF upload = NoBatch THEN 0 ELSE 1

\* An upload adds an entry to the list when it is answered, and nothing else does.
ListInv ==
    /\ upload \in Present \union {NoBatch}
    /\ list \in Seq(Entry)
    /\ Len(list) + InFlight <= Cardinality(Batch) + Cardinality(Present)

FetchInv ==
    /\ DOMAIN fetches = {"page", "decision"}
    /\ \A by \in DOMAIN fetches : /\ DOMAIN fetches[by] = DOMAIN NoFetch
                                  /\ fetches[by].answer \in Seq(Entry)
                                  /\ Len(fetches[by].answer) <= Cardinality(Batch)
    /\ decision.pc = "fetch" <=> fetches["decision"].pc # "none"

LoopsInv ==
    /\ DOMAIN loops = Loop
    /\ \A l \in Loop : /\ DOMAIN loops[l] = DOMAIN Idle
                       /\ loops[l].todo \in Seq(Captured)
                       /\ loops[l].todo = <<>> <=> loops[l].pc = "idle"
                       /\ loops[l].pc = "answered" => loops[l].answer \in Status \union {"lost"}

DialogInv ==
    /\ shown \subseteq Batch /\ reviews \subseteq [batch : Batch, answer : {"ok", "error", "details"}]
    /\ DOMAIN dialog = DOMAIN Closed
    /\ dialog.open => dialog.batch \in Batch /\ dialog.summary \in Batch

CountInv == clicks \in 0..MaxClicks /\ lost \in 0..MaxLost

LEMMA PresentIsFinite ==
    /\ IsFiniteSet(Present) /\ Cardinality(Present) \in Nat /\ Cardinality(Batch) \in Nat
    /\ Cardinality(Present) <= Cardinality(Batch)
<1>1. Present \subseteq Batch
    BY DEF Present
<1> QED BY <1>1, PageAssumption, FS_Subset, FS_CardinalityType

LEMMA PresentGrows ==
    ASSUME ServerGoesOn
    PROVE  Cardinality(Present) <= Cardinality(Present') /\ Cardinality(Present') \in Nat
<1>1. Present' \subseteq Batch /\ Present \subseteq Present'
    BY DEF ServerGoesOn, Present
<1>2. IsFiniteSet(Present')
    BY <1>1, PageAssumption, FS_Subset
<1> QED BY <1>1, <1>2, FS_Subset, FS_CardinalityType

\* A list of no more entries, while no upload begins or ends.
LEMMA NoLonger ==
    ASSUME ListInv, ServerGoesOn, UNCHANGED upload, list' \in Seq(Entry), Len(list') <= Len(list)
    PROVE  ListInv'
<1>1. upload \in Present' \union {NoBatch}
    BY DEF ListInv, ServerGoesOn
<1>2. Len(list) \in Nat /\ Len(list') \in Nat /\ InFlight' = InFlight /\ InFlight \in Nat
    BY LenProperties DEF ListInv, InFlight
<1> QED BY <1>1, <1>2, PresentGrows, PresentIsFinite DEF ListInv

\* A list that was read, whatever upload is in flight.
LEMMA AsRead ==
    ASSUME ListInv, ServerGoesOn, UNCHANGED upload, list' \in Seq(Entry),
           Len(list') <= Cardinality(Batch)
    PROVE  ListInv'
<1>1. upload \in Present' \union {NoBatch}
    BY DEF ListInv, ServerGoesOn
<1>2. Len(list') \in Nat /\ InFlight' = InFlight
    BY LenProperties DEF InFlight
<1>3. InFlight <= Cardinality(Present)
    <2>1. CASE upload = NoBatch
        BY <2>1, PresentIsFinite DEF InFlight
    <2>2. CASE upload # NoBatch
        <3>1. Present # {}
            BY <2>2 DEF ListInv
        <3>2. Cardinality(Present) # 0
            BY <3>1, PresentIsFinite, FS_EmptySet
        <3> QED BY <3>2, PresentIsFinite DEF InFlight
    <2> QED BY <2>1, <2>2
<1>4. InFlight \in Nat
    BY DEF InFlight
<1> QED BY <1>1, <1>2, <1>3, <1>4, PresentGrows, PresentIsFinite DEF ListInv

LEMMA StatusSet ==
    ASSUME list \in Seq(Entry), NEW b, NEW status \in Status, SetStatus(b, status)
    PROVE  list' \in Seq(Entry) /\ Len(list') = Len(list)
<1> DEFINE n == Len(list)
<1>1. n \in Nat /\ DOMAIN list = 1..n
    BY LenProperties
<1> HIDE DEF n
<1>2. ASSUME NEW i \in 1..n
      PROVE  (IF list[i].batch = b THEN [list[i] EXCEPT !.status = status] ELSE list[i]) \in Entry
    <2>1. list[i] \in Entry
        BY <1>1, ElementOfSeq DEF n
    <2> QED BY <2>1 DEF Entry
<1>3. list' \in [1..n -> Entry]
    BY <1>1, <1>2 DEF SetStatus
<1> QED BY <1>1, <1>3, IsASeq, LenProperties DEF n

\* What the interval captures, in the order of the list.
LEMMA ActiveType ==
    ASSUME list \in Seq(Entry), NEW active \in Active, ActiveAt # {}
    PROVE  active \in Seq(Captured) /\ active # <<>>
<1> DEFINE n == Cardinality(ActiveAt)
<1>1. ActiveAt \subseteq 1 .. Len(list) /\ IsFiniteSet(ActiveAt)
    <2>1. DOMAIN list = 1 .. Len(list) /\ Len(list) \in Nat
        BY LenProperties
    <2>2. ActiveAt \subseteq 1 .. Len(list)
        BY <2>1 DEF ActiveAt
    <2>3. IsFiniteSet(1 .. Len(list))
        BY <2>1, FS_Interval
    <2> QED BY <2>2, <2>3, FS_Subset
<1>2. n \in Nat /\ n # 0
    BY <1>1, FS_CardinalityType, FS_EmptySet
<1>3. PICK at \in [1..n -> ActiveAt] : active = [i \in 1..n |-> Capture(at[i])]
    BY DEF Active
<1> HIDE DEF n
<1>4. ASSUME NEW i \in 1..n PROVE Capture(at[i]) \in Captured
    <2>1. at[i] \in 1 .. Len(list)
        BY <1>1, <1>3
    <2>2. list[at[i]] \in Entry
        BY <2>1, ElementOfSeq
    <2> QED BY <2>2 DEF Capture, Captured, Entry
<1>5. active \in [1..n -> Captured]
    BY <1>3, <1>4
<1>6. active \in Seq(Captured) /\ Len(active) = n
    BY <1>2, <1>5, IsASeq, LenProperties
<1> QED BY <1>2, <1>6, EmptySeq

-----------------------------------------------------------------------------
(* Well typed: the page *)

\* What an iteration of a polling loop asks for.
LEMMA Asked ==
    ASSUME LoopsInv, NEW l \in Loop, loops[l].pc # "idle"
    PROVE  /\ loops[l].todo[1] \in Captured /\ loops[l].todo[1].batch \in Batch
           /\ Tail(loops[l].todo) \in Seq(Captured)
<1>1. loops[l].todo \in Seq(Captured) /\ loops[l].todo # <<>>
    BY DEF LoopsInv
<1>2. Head(loops[l].todo) = loops[l].todo[1]
    BY <1>1
<1>3. loops[l].todo[1] \in Captured /\ Tail(loops[l].todo) \in Seq(Captured)
    BY <1>1, <1>2, HeadTailProperties
<1> QED BY <1>3 DEF Captured

\* A loop at its place: what it has to ask, how far it is, and what it was told.
LoopOk(loop) ==
    /\ DOMAIN loop = DOMAIN Idle
    /\ loop.todo \in Seq(Captured)
    /\ loop.todo = <<>> <=> loop.pc = "idle"
    /\ loop.pc = "answered" => loop.answer \in Status \union {"lost"}

LEMMA OneLoopMoves ==
    ASSUME LoopsInv, NEW l \in Loop, NEW loop, LoopOk(loop), loops' = [loops EXCEPT ![l] = loop]
    PROVE  LoopsInv'
BY DEF LoopsInv, LoopOk

LEMMA LoopIsOk == ASSUME LoopsInv, NEW l \in Loop PROVE LoopOk(loops[l])
BY DEF LoopsInv, LoopOk

LEMMA NextIsOk ==
    ASSUME LoopsInv, NEW l \in Loop, loops[l].pc # "idle"
    PROVE  LoopOk(NextBatch(loops[l]))
BY Asked DEF LoopOk, NextBatch, Idle

LEMMA LoopStays == LoopsInv /\ UNCHANGED loops => LoopsInv'
BY DEF LoopsInv

LEMMA LoopSteps == LoopsInv /\ ServerInv /\ list \in Seq(Entry) /\ Next => LoopsInv'
<1> SUFFICES ASSUME LoopsInv, ServerInv, list \in Seq(Entry), Next PROVE LoopsInv'
    OBVIOUS
<1> USE DEF Page, serverVars, dialogVars, requestVars
<1>1. ASSUME NEW l \in Loop, Tick(l) PROVE LoopsInv'
    <2>1. PICK active \in Active :
              loops' = [loops EXCEPT ![l] = [todo |-> active, pc |-> "ask", answer |-> "none"]]
        BY <1>1 DEF Tick
    <2>2. active \in Seq(Captured) /\ active # <<>>
        BY <1>1, ActiveType DEF Tick
    <2>3. LoopOk([todo |-> active, pc |-> "ask", answer |-> "none"])
        BY <2>2 DEF LoopOk, Idle
    <2> QED BY <2>1, <2>3, OneLoopMoves
<1>2. ASSUME NEW l \in Loop, NEW pc \in {"answered", "askEntities", "entities"}, NEW answer,
             loops[l].pc # "idle", pc = "answered" => answer \in Status \union {"lost"},
             loops' = [loops EXCEPT ![l].pc = pc, ![l].answer = answer]
      PROVE  LoopsInv'
    <2> DEFINE loop == [loops[l] EXCEPT !.pc = pc, !.answer = answer]
    <2>1. LoopOk(loops[l])
        BY LoopIsOk
    <2>2. LoopOk(loop)
        BY <1>2, <2>1 DEF LoopOk, Idle
    <2>3. loops' = [loops EXCEPT ![l] = loop]
        BY <1>2 DEF LoopsInv
    <2> HIDE DEF loop
    <2> QED BY <2>2, <2>3, OneLoopMoves
<1>3. ASSUME NEW l \in Loop, AskStatus(l) PROVE LoopsInv'
    <2>1. PICK answer \in {server[loops[l].todo[1].batch].status, "lost"} :
              loops' = [loops EXCEPT ![l].pc = "answered", ![l].answer = answer]
        BY <1>3 DEF AskStatus
    <2>2. loops[l].pc # "idle"
        BY <1>3 DEF AskStatus, LoopAt
    <2>3. answer \in Status \union {"lost"}
        BY <2>2, Asked, EntryOf
    <2> QED BY <1>2, <2>1, <2>2, <2>3
<1>4. ASSUME NEW l \in Loop, ReceiveStatus(l) PROVE LoopsInv'
    <2>1. loops[l].pc = "answered"
        BY <1>4 DEF ReceiveStatus, LoopAt
    <2>2. CASE loops' = [loops EXCEPT ![l] = NextBatch(loops[l])]
        BY <2>1, <2>2, NextIsOk, OneLoopMoves
    <2>3. CASE loops' = [loops EXCEPT ![l].pc = "askEntities"]
        <3> DEFINE loop == [loops[l] EXCEPT !.pc = "askEntities"]
        <3>1. LoopOk(loops[l])
            BY LoopIsOk
        <3>2. LoopOk(loop)
            BY <2>1, <3>1 DEF LoopOk, Idle
        <3>3. loops' = [loops EXCEPT ![l] = loop]
            BY <2>3 DEF LoopsInv
        <3> HIDE DEF loop
        <3> QED BY <3>2, <3>3, OneLoopMoves
    <2> QED BY <1>4, <2>2, <2>3 DEF ReceiveStatus
<1>5. ASSUME NEW l \in Loop, AskEntities(l) PROVE LoopsInv'
    BY <1>2, <1>5 DEF AskEntities, LoopAt
<1>6. ASSUME NEW l \in Loop, ReceiveEntities(l) PROVE LoopsInv'
    BY <1>6, NextIsOk, OneLoopMoves DEF ReceiveEntities, LoopAt
<1>7. ASSUME NEW b \in Batch, WorkerStep(b) \/ WorkerFails(b) \/ OtherClients(b) \/ UploadFile(b)
      PROVE  LoopsInv'
    BY <1>7, LoopStays DEF WorkerStep, WorkerFails, OtherClients, UploadFile
<1>8. ASSUME NEW by, FetchStep(by) PROVE LoopsInv'
    BY <1>8, LoopStays DEF FetchStep, FetchRead, FetchAnswered
<1>9. CASE UploadAnswered \/ CloseDetails \/ \E b \in Batch : Review(b) \/ ViewDetails(b)
    BY <1>9, LoopStays DEF UploadAnswered, CloseDetails, Review, ViewDetails
<1>10. CASE (\E r \in reviews : ReviewAnswered(r)) \/ \E kind \in {"approve", "reject"} : Decide(kind)
    BY <1>10, LoopStays DEF ReviewAnswered, Decide
<1>11. CASE DecisionTaken \/ DecisionAnswered
    BY <1>11, LoopStays DEF DecisionTaken, DecisionAnswered
<1>12. CASE \E b \in Batch, kind \in {"cancel", "rollback"} : AskChange(b, kind)
    BY <1>12, LoopStays DEF AskChange
<1>13. CASE ChangeTaken \/ ChangeRefused \/ ChangeAnswered
    BY <1>13, LoopStays DEF ChangeTaken, ChangeRefused, ChangeAnswered
<1> QED BY <1>1, <1>3, <1>4, <1>5, <1>6, <1>7, <1>8, <1>9, <1>10, <1>11, <1>12, <1>13
        DEF Next, LoopStep

LEMMA DialogStays == DialogInv /\ UNCHANGED <<shown, reviews, dialog>> => DialogInv'
BY DEF DialogInv

LEMMA DialogShows ==
    ASSUME DialogInv, NEW b \in Batch, NEW answer, ShowDialog(b, answer),
           shown' \subseteq Batch,
           reviews' \subseteq [batch : Batch, answer : {"ok", "error", "details"}]
    PROVE  DialogInv'
BY DEF DialogInv, ShowDialog, Closed

LEMMA DialogSteps == DialogInv /\ LoopsInv /\ Next => DialogInv'
<1> SUFFICES ASSUME DialogInv, LoopsInv, Next PROVE DialogInv'
    OBVIOUS
<1> USE DEF Page, serverVars, dialogVars, requestVars
<1>1. ASSUME NEW l \in Loop, ReceiveEntities(l) PROVE DialogInv'
    <2>1. loops[l].todo[1].batch \in Batch
        BY <1>1, Asked DEF ReceiveEntities, LoopAt
    <2> QED BY <1>1, <2>1, DialogShows DEF ReceiveEntities, DialogInv
<1>2. ASSUME NEW b \in Batch, Review(b) \/ ViewDetails(b) PROVE DialogInv'
    <2>1. EntitiesOf(b) \in {"ok", "error"}
        BY DEF EntitiesOf
    <2>2. PICK answer \in {"ok", "error", "details"} :
              reviews' = reviews \union {[batch |-> b, answer |-> answer]}
        BY <1>2, <2>1 DEF Review, ViewDetails
    <2> QED BY <1>2, <2>2 DEF Review, ViewDetails, DialogInv, Announce
<1>3. ASSUME NEW r \in reviews, ReviewAnswered(r) PROVE DialogInv'
    <2>1. r.batch \in Batch
        BY DEF DialogInv
    <2>2. CASE ShowDetails(r.batch)
        BY <1>3, <2>1, <2>2 DEF ShowDetails, ReviewAnswered, DialogInv, Closed
    <2> QED BY <1>3, <2>1, <2>2, DialogShows DEF ReviewAnswered, DialogInv
<1>4. ASSUME DecisionAnswered PROVE DialogInv'
    <2>1. dialog' = [Closed EXCEPT !.details = dialog.details] \/ dialog' = dialog
        BY <1>4 DEF DecisionAnswered
    <2> QED BY <1>4, <2>1 DEF DecisionAnswered, DialogInv, Closed
<1>5. ASSUME NEW b \in Batch, WorkerStep(b) \/ WorkerFails(b) \/ OtherClients(b) \/ UploadFile(b)
      PROVE  DialogInv'
    BY <1>5, DialogStays DEF WorkerStep, WorkerFails, OtherClients, UploadFile
<1>6. ASSUME NEW by, FetchStep(by) PROVE DialogInv'
    BY <1>6, DialogStays DEF FetchStep, FetchRead, FetchAnswered
<1>7. ASSUME NEW l \in Loop, Tick(l) \/ AskStatus(l) \/ ReceiveStatus(l) \/ AskEntities(l)
      PROVE  DialogInv'
    BY <1>7, DialogStays DEF Tick, AskStatus, ReceiveStatus, AskEntities, Announce
<1>8. CASE UploadAnswered \/ \E kind \in {"approve", "reject"} : Decide(kind)
    BY <1>8, DialogStays DEF UploadAnswered, Decide
<1>9. CASE DecisionTaken \/ \E b \in Batch, kind \in {"cancel", "rollback"} : AskChange(b, kind)
    BY <1>9, DialogStays DEF DecisionTaken, AskChange
<1>10. CASE ChangeTaken \/ ChangeRefused \/ ChangeAnswered
    BY <1>10, DialogStays DEF ChangeTaken, ChangeRefused, ChangeAnswered
<1>11. CASE CloseDetails
    BY <1>11 DEF CloseDetails, DialogInv, Closed
<1> QED BY <1>1, <1>2, <1>3, <1>4, <1>5, <1>6, <1>7, <1>8, <1>9, <1>10, <1>11
        DEF Next, FetchStep, LoopStep

-----------------------------------------------------------------------------
(* Well typed: requests *)

LEMMA RequestsStay == RequestInv /\ UNCHANGED <<decision, change>> => RequestInv'
BY DEF RequestInv

LEMMA RequestSteps == RequestInv /\ DialogInv /\ Next => RequestInv'
<1> SUFFICES ASSUME RequestInv, DialogInv, Next PROVE RequestInv'
    OBVIOUS
<1> USE DEF Page, serverVars, dialogVars, requestVars
<1>1. ASSUME NEW kind, Decide(kind) PROVE RequestInv'
    BY <1>1 DEF Decide, RequestInv, DialogInv, NoDecision
<1>2. ASSUME DecisionTaken PROVE RequestInv'
    <2>1. change' = change /\ \E pc \in {"ok", "error"} : decision' = [decision EXCEPT !.pc = pc]
        BY <1>2 DEF DecisionTaken
    <2>2. decision.pc # "none"
        BY <1>2 DEF DecisionTaken
    <2> QED BY <2>1, <2>2 DEF RequestInv, NoDecision
<1>3. ASSUME DecisionAnswered PROVE RequestInv'
    <2>1. /\ change' = change
          /\ \/ decision' = NoDecision
             \/ decision.pc = "ok" /\ decision' = [decision EXCEPT !.pc = "fetch"]
        BY <1>3 DEF DecisionAnswered
    <2> QED BY <2>1 DEF RequestInv, NoDecision
<1>4. ASSUME NEW by, FetchStep(by) PROVE RequestInv'
    <2>1. change' = change /\ (decision' = decision \/ decision' = NoDecision)
        BY <1>4 DEF FetchStep, FetchRead, FetchAnswered
    <2> QED BY <2>1 DEF RequestInv, NoDecision
<1>5. ASSUME NEW b \in Batch, NEW kind, AskChange(b, kind) PROVE RequestInv'
    BY <1>5 DEF AskChange, RequestInv, NoChange
<1>6. CASE ChangeTaken
    <2>1. decision' = decision /\ (change' = NoChange \/ change' = [change EXCEPT !.pc = "ok"])
        BY <1>6 DEF ChangeTaken
    <2>2. change.pc # "none"
        BY <1>6 DEF ChangeTaken
    <2> QED BY <2>1, <2>2 DEF RequestInv, NoChange
<1>7. CASE ChangeRefused \/ ChangeAnswered
    BY <1>7 DEF ChangeRefused, ChangeAnswered, RequestInv, NoChange
<1>8. ASSUME NEW b \in Batch, WorkerStep(b) \/ WorkerFails(b) \/ OtherClients(b) \/ UploadFile(b)
      PROVE  RequestInv'
    BY <1>8, RequestsStay DEF WorkerStep, WorkerFails, OtherClients, UploadFile
<1>9. ASSUME NEW l \in Loop, Tick(l) \/ LoopStep(l) PROVE RequestInv'
    BY <1>9, RequestsStay DEF Tick, LoopStep, AskStatus, ReceiveStatus, AskEntities, ReceiveEntities
<1>10. CASE \/ UploadAnswered \/ CloseDetails
            \/ \E b \in Batch : Review(b) \/ ViewDetails(b)
            \/ \E r \in reviews : ReviewAnswered(r)
    BY <1>10, RequestsStay DEF UploadAnswered, CloseDetails, Review, ViewDetails, ReviewAnswered
<1> QED BY <1>1, <1>2, <1>3, <1>4, <1>5, <1>6, <1>7, <1>8, <1>9, <1>10 DEF Next

LEMMA FetchStays ==
    FetchInv /\ UNCHANGED fetches /\ (decision'.pc = "fetch" <=> decision.pc = "fetch") => FetchInv'
BY DEF FetchInv

FetchOk(f) ==
    /\ DOMAIN f = DOMAIN NoFetch
    /\ f.answer \in Seq(Entry) /\ Len(f.answer) <= Cardinality(Batch)

LEMMA OneFetchMoves ==
    ASSUME FetchInv, NEW by \in DOMAIN fetches, NEW f, FetchOk(f),
           fetches' = [fetches EXCEPT ![by] = f],
           decision'.pc = "fetch" <=> fetches'["decision"].pc # "none"
    PROVE  FetchInv'
BY DEF FetchInv, FetchOk

LEMMA NewFetchOk == FetchOk(Sent) /\ FetchOk(NoFetch)
<1>1. <<>> \in Seq(Entry) /\ Len(<<>>) = 0 /\ 0 <= Cardinality(Batch)
    BY EmptySeq, PresentIsFinite
<1> QED BY <1>1 DEF FetchOk, Sent, NoFetch

LEMMA FetchSteps == FetchInv /\ ServerInv /\ RequestInv /\ Next => FetchInv'
<1> SUFFICES ASSUME FetchInv, ServerInv, RequestInv, Next PROVE FetchInv'
    OBVIOUS
<1> USE DEF Page, serverVars, dialogVars, requestVars
<1>1. ASSUME NEW by \in DOMAIN fetches, FetchRead(by) PROVE FetchInv'
    <2> DEFINE f == [pc |-> "read", answer |-> Listing]
    <2>1. fetches' = [fetches EXCEPT ![by] = f] /\ decision' = decision /\ fetches[by].pc = "sent"
        BY <1>1 DEF FetchRead
    <2>2. FetchOk(f)
        BY ListingType DEF FetchOk, NoFetch
    <2>3. f.pc # "none"
        OBVIOUS
    <2> HIDE DEF f
    <2>4. decision'.pc = "fetch" <=> fetches'["decision"].pc # "none"
        BY <2>1, <2>3 DEF FetchInv
    <2> QED BY <2>1, <2>2, <2>4, OneFetchMoves
<1>2. ASSUME NEW by \in DOMAIN fetches, FetchAnswered(by) PROVE FetchInv'
    <2>1. fetches' = [fetches EXCEPT ![by] = NoFetch]
        BY <1>2 DEF FetchAnswered
    <2>2. decision'.pc = "fetch" <=> fetches'["decision"].pc # "none"
        <3>1. CASE by = "decision"
            BY <1>2, <2>1, <3>1 DEF FetchAnswered, NoFetch, NoDecision, FetchInv
        <3>2. CASE by # "decision"
            BY <1>2, <2>1, <3>2 DEF FetchAnswered, FetchInv
        <3> QED BY <3>1, <3>2
    <2> QED BY <2>1, <2>2, NewFetchOk, OneFetchMoves
<1>3. ASSUME DecisionAnswered PROVE FetchInv'
    <2>1. CASE fetches' = fetches /\ decision' = NoDecision /\ decision.pc \in {"ok", "error"}
        BY <2>1, FetchStays DEF NoDecision
    <2>2. CASE fetches' = [fetches EXCEPT !["decision"] = Sent] /\ decision' = [decision EXCEPT !.pc = "fetch"]
        <3>1. decision'.pc = "fetch" /\ fetches'["decision"].pc # "none"
            BY <2>2 DEF FetchInv, RequestInv, NoDecision, Sent
        <3>2. "decision" \in DOMAIN fetches
            BY DEF FetchInv
        <3> QED BY <2>2, <3>1, <3>2, NewFetchOk, OneFetchMoves
    <2> QED BY <1>3, <2>1, <2>2 DEF DecisionAnswered
<1>4. ASSUME DecisionTaken PROVE FetchInv'
    <2>1. fetches' = fetches /\ \E pc \in {"ok", "error"} : decision' = [decision EXCEPT !.pc = pc]
        BY <1>4 DEF DecisionTaken
    <2>2. decision.pc # "fetch" /\ decision'.pc # "fetch"
        BY <1>4, <2>1 DEF DecisionTaken, RequestInv, NoDecision
    <2> QED BY <2>1, <2>2, FetchStays
<1>5. ASSUME NEW kind \in {"approve", "reject"}, Decide(kind) PROVE FetchInv'
    BY <1>5, FetchStays DEF Decide
<1>6. ASSUME ChangeAnswered PROVE FetchInv'
    <2>1. fetches' = [fetches EXCEPT !["page"] = Sent] /\ decision' = decision
        BY <1>6 DEF ChangeAnswered
    <2>2. "page" \in DOMAIN fetches
        BY DEF FetchInv
    <2>3. decision'.pc = "fetch" <=> fetches'["decision"].pc # "none"
        BY <2>1 DEF FetchInv
    <2> QED BY <2>1, <2>2, <2>3, NewFetchOk, OneFetchMoves
<1>7. ASSUME NEW b \in Batch, WorkerStep(b) \/ WorkerFails(b) \/ OtherClients(b) \/ UploadFile(b)
      PROVE  FetchInv'
    BY <1>7, FetchStays DEF WorkerStep, WorkerFails, OtherClients, UploadFile
<1>8. ASSUME NEW l \in Loop, Tick(l) \/ LoopStep(l) PROVE FetchInv'
    BY <1>8, FetchStays DEF Tick, LoopStep, AskStatus, ReceiveStatus, AskEntities, ReceiveEntities
<1>9. CASE \/ UploadAnswered \/ CloseDetails
           \/ \E b \in Batch : Review(b) \/ ViewDetails(b)
           \/ \E r \in reviews : ReviewAnswered(r)
    BY <1>9, FetchStays DEF UploadAnswered, CloseDetails, Review, ViewDetails, ReviewAnswered
<1>10. CASE ChangeTaken \/ ChangeRefused \/ \E b \in Batch, kind \in {"cancel", "rollback"} : AskChange(b, kind)
    BY <1>10, FetchStays DEF ChangeTaken, ChangeRefused, AskChange
<1> QED BY <1>1, <1>2, <1>3, <1>4, <1>5, <1>6, <1>7, <1>8, <1>9, <1>10 DEF Next, FetchStep

LEMMA ListSteps ==
    ASSUME ListInv, ServerInv, FetchInv, LoopsInv, ServerGoesOn, Next
    PROVE  ListInv'
<1> USE DEF Page, serverVars, dialogVars, requestVars
<1>0. list \in Seq(Entry) /\ Len(list) \in Nat
    BY LenProperties DEF ListInv
<1>1. ASSUME UNCHANGED <<list, upload>> PROVE ListInv'
    BY <1>0, <1>1, NoLonger
<1>2. ASSUME NEW b \in Batch, UploadFile(b) PROVE ListInv'
    <2>1. Present' = Present \union {b} /\ b \notin Present
        <3>1. server[b].status = "absent" /\ server' = [server EXCEPT ![b].status = "QUEUED", ![b].job = "start"]
            BY <1>2 DEF UploadFile, Created, Put
        <3>2. server'[b].status = "QUEUED" /\ \A c \in Batch \ {b} : server'[c] = server[c]
            BY <3>1 DEF ServerInv
        <3> QED BY <3>1, <3>2 DEF Present
    <2>2. Cardinality(Present') = Cardinality(Present) + 1
        BY <2>1, PresentIsFinite, FS_AddElement
    <2>3. list' = list /\ upload = NoBatch /\ upload' = b
        BY <1>2 DEF UploadFile
    <2>4. InFlight = 0 /\ InFlight' = 1
        BY <2>3, PageAssumption DEF InFlight, NoBatch
    <2> QED BY <1>0, <2>1, <2>2, <2>3, <2>4, PresentIsFinite DEF ListInv
<1>3. ASSUME UploadAnswered PROVE ListInv'
    <2>1. Present' = Present /\ upload' = NoBatch
        BY <1>3 DEF UploadAnswered, Present
    <2>2. InFlight = 1 /\ InFlight' = 0
        BY <1>3, <2>1 DEF InFlight, UploadAnswered
    <2>3. list' \in Seq(Entry) /\ Len(list') <= Len(list) + 1
        <3>1. CASE list' = list
            BY <1>0, <3>1
        <3>2. CASE list' = <<[batch |-> upload, status |-> "QUEUED"]>> \o list
            <4>1. [batch |-> upload, status |-> "QUEUED"] \in Entry
                BY <1>3 DEF UploadAnswered, ListInv, Present, Entry, Status, Unfinished
            <4>2. /\ <<[batch |-> upload, status |-> "QUEUED"]>> \in Seq(Entry)
                  /\ Len(<<[batch |-> upload, status |-> "QUEUED"]>>) = 1
                BY <4>1
            <4> QED BY <1>0, <3>2, <4>2, ConcatProperties
        <3> QED BY <1>3, <3>1, <3>2 DEF UploadAnswered
    <2>4. Len(list') \in Nat
        BY <2>3, LenProperties
    <2> QED BY <1>0, <2>1, <2>2, <2>3, <2>4, PresentIsFinite DEF ListInv
<1>4. ASSUME NEW by \in DOMAIN fetches, FetchStep(by) PROVE ListInv'
    <2>1. upload' = upload /\ (list' = list \/ list' = fetches[by].answer)
        BY <1>4 DEF FetchStep, FetchRead, FetchAnswered
    <2>2. fetches[by].answer \in Seq(Entry) /\ Len(fetches[by].answer) <= Cardinality(Batch)
        BY DEF FetchInv
    <2> QED BY <1>1, <2>1, <2>2, AsRead
<1>5. ASSUME NEW b, NEW status \in Status, SetStatus(b, status), UNCHANGED upload PROVE ListInv'
    BY <1>0, <1>5, StatusSet, NoLonger
<1>6. ASSUME NEW l \in Loop, ReceiveStatus(l) PROVE ListInv'
    <2>1. loops[l].answer \in Status \union {"lost"}
        BY <1>6 DEF ReceiveStatus, LoopAt, LoopsInv
    <2> QED BY <1>1, <1>5, <1>6, <2>1 DEF ReceiveStatus
<1>7. ASSUME NEW l \in Loop, ReceiveEntities(l) PROVE ListInv'
    BY <1>5, <1>7 DEF ReceiveEntities, Status, Unfinished
<1>8. ASSUME NEW l \in Loop, Tick(l) \/ AskStatus(l) \/ AskEntities(l) PROVE ListInv'
    BY <1>1, <1>8 DEF Tick, AskStatus, AskEntities
<1>9. ASSUME NEW b \in Batch, WorkerStep(b) \/ WorkerFails(b) \/ OtherClients(b) PROVE ListInv'
    BY <1>1, <1>9 DEF WorkerStep, WorkerFails, OtherClients
<1>10. CASE \/ CloseDetails
            \/ \E b \in Batch : Review(b) \/ ViewDetails(b)
            \/ \E r \in reviews : ReviewAnswered(r)
    BY <1>1, <1>10 DEF CloseDetails, Review, ViewDetails, ReviewAnswered
<1>11. CASE DecisionTaken \/ DecisionAnswered \/ \E kind \in {"approve", "reject"} : Decide(kind)
    BY <1>1, <1>11 DEF DecisionTaken, DecisionAnswered, Decide
<1>12. CASE ChangeTaken \/ ChangeRefused \/ ChangeAnswered
    BY <1>1, <1>12 DEF ChangeTaken, ChangeRefused, ChangeAnswered
<1>13. CASE \E b \in Batch, kind \in {"cancel", "rollback"} : AskChange(b, kind)
    BY <1>1, <1>13 DEF AskChange
<1> QED BY <1>2, <1>3, <1>4, <1>6, <1>7, <1>8, <1>9, <1>10, <1>11, <1>12, <1>13 DEF Next, LoopStep

LEMMA CountSteps == CountInv /\ Next => CountInv'
<1> SUFFICES ASSUME CountInv, Next PROVE CountInv'
    OBVIOUS
<1> USE PageAssumption DEF Page, serverVars, dialogVars, requestVars, CountInv, Loses, Clicks
<1>1. ASSUME NEW b \in Batch, WorkerStep(b) \/ WorkerFails(b) \/ OtherClients(b) \/ UploadFile(b)
      PROVE  CountInv'
    <2>1. CASE WorkerStep(b) \/ WorkerFails(b)
        BY <2>1 DEF WorkerStep, WorkerFails
    <2>2. CASE OtherClients(b)
        BY <2>2 DEF OtherClients
    <2>3. CASE UploadFile(b)
        BY <2>3 DEF UploadFile
    <2> QED BY <1>1, <2>1, <2>2, <2>3
<1>2. CASE UploadAnswered
    BY <1>2 DEF UploadAnswered
<1>3. ASSUME NEW by, FetchStep(by) PROVE CountInv'
    BY <1>3 DEF FetchStep, FetchRead, FetchAnswered
<1>4. ASSUME NEW l \in Loop, AskStatus(l) PROVE CountInv'
    BY <1>4 DEF AskStatus
<1>5. ASSUME NEW l \in Loop, Tick(l) \/ ReceiveStatus(l) \/ AskEntities(l) \/ ReceiveEntities(l)
      PROVE  CountInv'
    BY <1>5 DEF Tick, ReceiveStatus, AskEntities, ReceiveEntities
<1>6. ASSUME NEW b, Review(b) \/ ViewDetails(b) PROVE CountInv'
    BY <1>6 DEF Review, ViewDetails
<1>7. ASSUME NEW r, ReviewAnswered(r) \/ CloseDetails PROVE CountInv'
    BY <1>7 DEF ReviewAnswered, CloseDetails
<1>8. ASSUME NEW kind, Decide(kind) PROVE CountInv'
    BY <1>8 DEF Decide
<1>9. CASE DecisionTaken \/ DecisionAnswered
    BY <1>9 DEF DecisionTaken, DecisionAnswered
<1>10. ASSUME NEW b, NEW kind, AskChange(b, kind) PROVE CountInv'
    BY <1>10 DEF AskChange
<1>11. CASE ChangeTaken \/ ChangeRefused \/ ChangeAnswered
    BY <1>11 DEF ChangeTaken, ChangeRefused, ChangeAnswered
<1> QED BY <1>1, <1>2, <1>3, <1>4, <1>5, <1>6, <1>7, <1>8, <1>9, <1>10, <1>11 DEF Next, LoopStep

PageInv ==
    /\ ServerInv /\ ListInv /\ FetchInv /\ LoopsInv /\ DialogInv /\ RequestInv /\ CountInv

LEMMA PageInvInit == Init => PageInv
<1> SUFFICES ASSUME Init PROVE PageInv
    OBVIOUS
<1>1. ServerInv
    BY PageAssumption DEF Init, ServerInv, Status, Gone, JobPc
<1>2. ListInv
    <2>1. list = <<>> /\ upload = NoBatch
        BY DEF Init
    <2>2. list \in Seq(Entry) /\ Len(list) = 0 /\ InFlight = 0
        BY <2>1, EmptySeq DEF InFlight
    <2> QED BY <2>1, <2>2, PresentIsFinite DEF ListInv
<1>3. FetchInv
    <2>1. DOMAIN fetches = {"page", "decision"} /\ fetches["decision"] = NoFetch
        BY DEF Init
    <2>2. fetches["page"] \in {Sent, NoFetch}
        BY DEF Init
    <2>3. decision.pc = "none"
        BY DEF Init, NoDecision
    <2>4. NoFetch.pc = "none"
        BY DEF NoFetch
    <2> QED BY <2>1, <2>2, <2>3, <2>4, NewFetchOk DEF FetchInv, FetchOk
<1>4. LoopsInv
    BY EmptySeq DEF Init, LoopsInv, Idle
<1>5. DialogInv /\ RequestInv /\ CountInv
    BY PageAssumption DEF Init, DialogInv, RequestInv, CountInv, Closed, NoDecision, NoChange
<1> QED BY <1>1, <1>2, <1>3, <1>4, <1>5 DEF PageInv

LEMMA PageInvStep == PageInv /\ [Next]_vars => PageInv'
<1> SUFFICES ASSUME PageInv, [Next]_vars PROVE PageInv'
    OBVIOUS
<1>1. CASE Next
    <2>1. list \in Seq(Entry)
        BY DEF PageInv, ListInv
    <2>2. ServerGoesOn
        BY <1>1, ServerSteps DEF PageInv
    <2>3. ServerInv'
        BY <2>2 DEF ServerGoesOn
    <2> QED BY <1>1, <2>1, <2>2, <2>3, ListSteps, FetchSteps, LoopSteps, DialogSteps, RequestSteps,
               CountSteps DEF PageInv
<1>2. CASE UNCHANGED vars
    <2>1. UNCHANGED <<server, list, loops, reviews, dialog, shown, upload, fetches, decision,
                      change, clicks, lost>>
        BY <1>2 DEF vars, serverVars, dialogVars, requestVars
    <2>2. ServerInv' /\ ServerGoesOn
        BY <2>1, ServerStays DEF PageInv, ServerGoesOn
    <2>3. ListInv'
        BY <2>1 DEF PageInv, ListInv, Present, InFlight
    <2> QED BY <2>1, <2>2, <2>3, FetchStays, LoopStays, DialogStays, RequestsStay
            DEF PageInv, CountInv
<1> QED BY <1>1, <1>2

\* The page's state is well typed, and the list never outgrows twice the batches there are.
THEOREM TypeCorrect == Spec => []TypeOK
<1>1. PageInv => TypeOK
    <2> SUFFICES ASSUME PageInv PROVE TypeOK
        OBVIOUS
    <2>1. Len(list) \in Nat /\ InFlight \in Nat
        BY LenProperties DEF PageInv, ListInv, InFlight
    <2>2. Len(list) <= 2 * Cardinality(Batch)
        BY <2>1, PresentIsFinite DEF PageInv, ListInv
    <2>3. upload \in Batch \union {NoBatch}
        BY DEF PageInv, ListInv, Present
    <2> QED BY <2>2, <2>3 DEF TypeOK, PageInv, ServerInv, ListInv, FetchInv, LoopsInv, DialogInv, CountInv
<1> QED BY <1>1, PageInvInit, PageInvStep, PTL DEF Spec
=============================================================================

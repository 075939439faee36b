--------------------------- MODULE MCUploadPage ---------------------------
(* The instance of UploadPage and FileRules for TLC: some files, and the texts over *)
(* which the rules are compared.                                                   *)
EXTENDS UploadPage

CONSTANTS b1, b2, l1, l2

D(form, day, month, year) == [form |-> form, day |-> day, month |-> month, year |-> year]
\* Around the end of a year, a leap day, a date that is none, and one month first.
DateTexts ==
    {D(form, n[1], n[2], n[3]) : form \in {"iso", "slash4", "dash4"},
         n \in {<<31, 12, 2024>>, <<1, 1, 2025>>, <<29, 2, 2024>>, <<1, 25, 2025>>}}
    \union {D(form, n[1], n[2], n[3]) : form \in {"slash2", "dash2", "dmy"},
         n \in {<<31, 12, 24>>, <<1, 2, 25>>, <<3, 3, 25>>, <<31, 12, 99>>}}

Zone == {-5, 0, 3}
N(form, value) == [form |-> form, value |-> value]
\* A deposit of ten units at 5000.
Figures == [type |-> "DEPOSIT", amount |-> N("plain", 50000), units |-> 10,
            bid |-> 4900, mid |-> 4950, offer |-> 5000]
Names == [id |-> "i1", client |-> "c", fund |-> "XUMMF"]
SomeRows ==
    {Names @@ Figures @@ r : r \in
        [date : DateTexts, account : {<<"701", "5">>, <<"701", "6">>},
         goal : {<<"701", "5a">>, <<"701", "T1">>}, txn : {<<"">>, <<"T1">>, <<"T1", "BANK">>},
         source : {"", "BANK", "CASH"}]}
\* Around the end of a year, written twice.
ComparedRows ==
    {r \in SomeRows : r.date \in {D("iso", 31, 12, 2024), D("iso", 1, 1, 2025), D("dmy", 31, 12, 24)}}
\* Noon of 10 June 2025, the days around it, and days that fund files take for each other.
Noon == 24 * DayNumber(2025, 6, 10) + 12
Days == {D(form, day, 6, IF form = "iso" THEN 2025 ELSE 25) :
            form \in {"iso", "dmy"}, day \in {9, 10, 11, 12}}
        \union {D("dash4", 5, 12, 2025), D("dash4", 12, 5, 2025), D("dash2", 12, 6, 25)}
ARow == Names @@ Figures @@
    [date |-> D("iso", 5, 6, 2025), account |-> <<"701", "5">>, goal |-> <<"701", "5a">>,
     txn |-> <<"T1">>, source |-> "BANK"]
Amounts == {N("blank", 0), N("word", 0), N("plain", 0)}
           \union {N(form, 49000) : form \in {"plain", "minus", "parentheses",
                                             "minus in parentheses", "foreign sign"}}
\* Rows that differ in what the rules look at.
JudgedRows ==
    {[ARow EXCEPT !.date = day, !.txn = txn] : day \in Days, txn \in {<<"">>, <<"T1">>}}
    \union {[ARow EXCEPT !.type = type, !.amount = amount, !.units = units] :
               type \in {"DEPOSIT", "WITHDRAWAL", "REDEMPTION", "REFUND"},
               amount \in Amounts, units \in {-10, 10, NoNumber}}
    \union {[ARow EXCEPT !.bid = bid, !.offer = offer, !.fund = fund] :
               bid \in {0, 4900, NoNumber}, offer \in {4900, 5000}, fund \in {"XUMMF", "XUXX", ""}}
SomeShares == {<<100, 0, 0, 0>>, <<50, 50, 0, 0>>, <<40, 30, 20, 10>>, <<25, 25, 25, 25>>}
SomeTotals == {0, 90, 2000, -2000, 50000}
T(row, shares, total) == [row |-> row, shares |-> shares, total |-> total]
Texts == {T(r, <<100>>, 0) : r \in SomeRows \union JudgedRows}
         \union {T(ARow, shares, total) : shares \in SomeShares, total \in SomeTotals}

R(id, date, source) == [ARow EXCEPT !.id = id, !.date = date, !.source = source]
OneRow == b1 :> {R("i1", D("iso", 5, 6, 2025), "BANK")}
\* One day in two forms ...
TwoForms == b2 :> {R("i2", D("slash4", 5, 6, 2025), "BANK"), R("i3", D("dmy", 5, 6, 25), "BANK")}
\* ... which are two days to the group check of a server east of Greenwich.
TwoDays == b1 :> {R("i4", D("iso", 5, 6, 2025), "BANK"), R("i5", D("dmy", 5, 6, 25), "BANK")}
Unreadable == b1 :> {R("i6", D("dash4", 25, 1, 2025), "BANK")}
\* Of the day after.
Future == b1 :> {R("i7", D("iso", 11, 6, 2025), "BANK")}
UnknownType == b1 :> {[ARow EXCEPT !.type = "REFUND"]}

S(files, polling, does) ==
    [page |-> "fund", files |-> files, loops |-> polling, does |-> does, zone |-> 3, text |-> T(ARow, <<100>>, 0)]
PageScenes ==
    {S(OneRow, {l1, l2}, {"approve", "fail"}),
     S(OneRow @@ TwoForms, {l1}, {"approve", "reject", "review"}),
     S(OneRow, {l1}, {"mount", "linger", "lose", "approve", "cancel", "upload elsewhere",
                      "approve elsewhere", "rollback elsewhere"}),
     S(TwoDays, {l1}, Deed), S(Unreadable, {l1}, {"mount", "linger"}),
     S(UnknownType, {l1}, {"approve", "rollback"}),
     S(OneRow @@ TwoForms, {l1}, {"approve", "view"})}
BankScenes ==
    {[s EXCEPT !.page = "bank"] : s \in
        {S(OneRow, {l1}, {"mount", "linger", "fail", "lose", "cancel", "rollback"}),
         S(OneRow, {l1, l2}, {"mount", "cancel", "upload elsewhere", "rollback elsewhere"}),
         S(Future, {l1}, {"linger", "rollback"}), S(Unreadable, {l1}, {"linger", "cancel"})}}
\* Nothing is uploaded: one transaction is written.
TextScenes == {[S(NoFiles, {}, {}) EXCEPT !.zone = zone, !.text = text] : zone \in Zone, text \in Texts}
SomeScenes == PageScenes \union BankScenes \union TextScenes
=============================================================================

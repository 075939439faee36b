-------------------------- MODULE MCReconciliation --------------------------
(* The instance for TLC: rows of one goal and of another of its account, and users. *)
EXTENDS ComparisonViews

CONSTANTS q1, q2, q3

B(id, type, txn, day, amount, funds) ==
    [id |-> id, goal |-> "G1", type |-> type, txn |-> txn, day |-> day,
     amount |-> amount, funds |-> funds, reversal |-> FALSE]
F(id, code, type, txn, day, fundCode, amount) ==
    [id |-> id, goal |-> "G1", code |-> code, type |-> type, txn |-> txn, day |-> day,
     fund |-> fundCode, amount |-> amount, reversal |-> FALSE]
In2(x, y) == [k \in FundCode |->
    CASE k = "XUMMF" -> x [] k = "XUBF" -> y [] OTHER -> 0]
In1(x) == In2(x, 0)

\* Three deposits of one day, of which the two smaller make up one goal transaction
\* and greed would take the largest; the smaller two are within the tolerance of each
\* other; a withdrawal cancels the second.
big == B("big", "DEPOSIT", "T1", 10, 200000, In1(200000))
mid == B("mid", "DEPOSIT", "T2", 10, 150000, In2(100000, 50000))
low == B("low", "DEPOSIT", "T2", 10, 149000, In1(149000))
back == B("back", "WITHDRAWAL", "T4", 12, -150000, In2(-100000, -50000))
\* A reversal of the day of "mid", on the same page of the comparison or on the next.
undo == [B("undo", "WITHDRAWAL", "Transfer_Reversal", 10, -200000, In1(-200000))
         EXCEPT !.reversal = TRUE]
Banks == {big, mid, low, back, undo}

\* "old" is a code without transactionId, whose text begins the code "new".
sum == F("sum", "new", "DEPOSIT", "T9", 10, "XUMMF", 299000)
prior == F("prior", "old", "DEPOSIT", "T2", 11, "XUMMF", 100000)
share == F("share", "old", "DEPOSIT", "T2", 11, "XUBF", 50000)
half == F("half", "h1", "DEPOSIT", "T7", 10, "XUMMF", 120000)
rest == F("rest", "h2", "DEPOSIT", "T8", 10, "XUMMF", 80000)
\* A deposit of another goal under the transactionId of "mid".
other == [F("other", "g2", "DEPOSIT", "T2", 10, "XUMMF", 150000) EXCEPT !.goal = "G2"]
\* A reversal under the code and the transactionId of "prior", which a detection finds.
swap == [F("swap", "old", "DEPOSIT", "T2", 11, "XUMMF", 149000) EXCEPT !.reversal = TRUE]
Funds == {sum, prior, share, half, rest, other, swap}

Scene(rows, later, older) == [rows |-> rows, later |-> later, older |-> older]
Scenes == {Scene({big, mid, low, sum}, {}, {}), Scene({big, half, rest, share, other}, {}, {}),
           Scene({mid, back, undo, prior}, {}, {mid}), Scene({low, prior}, {share}, {}),
           Scene({low, prior, share}, {mid}, {}), Scene({low, swap}, {prior}, {})}
LeavingRows == {back, rest}
Text == {<<"old", "old">>, <<"new", "new">>, <<"h1", "h1">>, <<"h2", "h2">>,
         <<"g2", "g2">>, <<"old", "new">>}
Accounts == [g \in {"G1", "G2"} |-> "A"]
All == [from |-> 1, to |-> 31]
Later == [from |-> 11, to |-> 31]

Select(B1, codes) == [banks |-> B1, codes |-> codes]
Selections ==
    {Select({mid, low}, {"new"}), Select({mid}, {"old"}),
     Select({big}, {"h1", "h2"}), Select({}, {"h1"})}
Windows == {All, Later}

Users == q1 :> {"match", "status", "link", "run"}
           @@ q2 :> {"unmatch", "unlink", "review", "bulk"}
           @@ q3 :> {"drilldown", "detect"}
=============================================================================

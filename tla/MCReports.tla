----------------------------- MODULE MCReports -----------------------------
(* The instance of Reports for TLC: two accounts, two batches and one price upload. *)
EXTENDS Reports

CONSTANTS b1, b2, r1, r2, u1, u2, q1, q2

T(id, batch, account, holder, code, fund, day, units, amount) ==
    [id |-> id, batch |-> batch, account |-> account, holder |-> holder, code |-> code,
     type |-> IF amount < 0 THEN "WITHDRAWAL" ELSE "DEPOSIT",
     fund |-> fund, day |-> day, units |-> units, amount |-> amount]
\* At 500 the first account is worth just the threshold; the last row is dated
\* tomorrow, and its goal belongs to an account that it does not name.
Rows == {T("r1", b1, "a1", "a1", "c1", "XUMMF", 2, 8, 80),
         T("r2", b1, "a1", "a1", "c1", "XUBF", 2, 2, 20),
         T("r3", b1, "a2", "a2", "c2", "XUMMF", 2, -1, -10),
         T("r4", b2, "a1", "a2", "c3", "XUMMF", 3, 5, 50)}
Kinds == "a1" :> [type |-> "PERSONAL", category |-> "GENERAL"]
         @@ "a2" :> [type |-> "JOINT", category |-> "SACCO"]

P(mid) == [bid |-> mid - 1, mid |-> mid, offer |-> mid + 1]
First == [f \in {"XUMMF", "XUBF"} |-> 1 :> P(500) @@ 2 :> NULL @@ 3 :> NULL]
L(fundCode, day, bid, mid, offer, complete) ==
    [fund |-> fundCode, day |-> day, bid |-> bid, mid |-> mid, offer |-> offer,
     complete |-> complete]
Cells == {<<"XUMMF", 1>>, <<"XUBF", 2>>}
Tabs == [bid |-> <<"XUMMF", 1>> :> 400 @@ <<"XUBF", 2>> :> 0,
         mid |-> [c \in Cells |-> 410], offer |-> [c \in Cells |-> 420]]
Sheet == <<L("XUMMF", 2, 510, 500, 520, TRUE), L("none", 2, 1, 2, 3, TRUE),
           L("XUBF", 2, 499, 600, 601, TRUE), L("XUMMF", 2, 0, 0, 0, FALSE),
           L("XUMMF", 3, 449, 450, 451, TRUE)>>
Files == {[form |-> "tabs", tabs |-> Tabs], [form |-> "rows", rows |-> Sheet]}

Changes == {[kind |-> "import", batch |-> b2], [kind |-> "rollback", batch |-> b1],
            [kind |-> "cancel", batch |-> b2], [kind |-> "refresh", batch |-> b1]}
Deleted == {<<"XUMMF", 1>>}
Crews == {{r1, q1, q2}, {u1, q1, q2}, {r1, r2, q2}, {u1, u2, q1}}
Asks == q1 :> {"registry", "funds", "goal"} @@ q2 :> {"as of", "dashboard", "goals"}
=============================================================================

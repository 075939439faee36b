---------------------------- MODULE MCBankUpload ----------------------------
(* The instance of BankUpload for TLC: files, goals and requests. *)
EXTENDS BankUpload, TLC

CONSTANTS b1, b2, r1, r2, r3, g1, g2, q1, q2, f1, x1, i1

\* r1 and r2 come over the queue, r3 over the older route.  g2 is a goal of a fund
\* file and opens and closes with it.
Files == r1 :> b1 @@ r2 :> b1 @@ r3 :> b2
Goals == r1 :> g1 @@ r2 :> g2 @@ r3 :> g2
BothRead == [w \in {"fund-worker", "bank-worker"} |-> {}]
Undo == q1 :> {"cancel", "rollback"} @@ q2 :> {"cancel", "rollback"}
UndoOnce == q1 :> {"cancel", "rollback"}

FundFiles == x1 :> f1
FundIds == x1 :> i1
FundGoals == x1 :> g2
=============================================================================

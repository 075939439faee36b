---------------------------- MODULE MCFundUpload ----------------------------
(* Instances of FundUpload for TLC: files, entities, and what requests ask. *)
EXTENDS FundUpload, TLC

CONSTANTS b1, b2, r1, r2, r3, i1, i2, i3, g1, g2, a1, c1, q1, q2, q3

\* Two files: r1 and r2 are the rows of the first, r3 the row of the second.
TwoFiles == r1 :> b1 @@ r2 :> b1 @@ r3 :> b2
DistinctIds == r1 :> i1 @@ r2 :> i2 @@ r3 :> i3
SharedId == r1 :> i1 @@ r2 :> i2 @@ r3 :> i1

\* Both files post to g1, the first also to g2.
SharedGoal == r1 :> g1 @@ r2 :> g2 @@ r3 :> g1
\* The first file posts to g1, the second to g2.
OwnGoals == r1 :> g1 @@ r2 :> g1 @@ r3 :> g2

OneFile == r1 :> b1 @@ r2 :> b1
OneFileIds == r1 :> i1 @@ r2 :> i2
OneFileGoals == r1 :> g1 @@ r2 :> g2

\* One row each.
TwoSmallFiles == r1 :> b1 @@ r2 :> b2

OneAccount == g1 :> a1 @@ g2 :> a1
OneClient == a1 :> c1

\* What the requests may ask for.
ApproveTwiceAndRollback ==
    q1 :> {"approve"} @@ q2 :> {"approve"} @@ q3 :> {"rollback"}
ApproveTwice == q1 :> {"approve"} @@ q2 :> {"approve"}
ApproveAndRollback == q1 :> {"approve"} @@ q2 :> {"rollback"}
DecideOnce == q1 :> {"approve", "reject"}
DecideAndUndo == q1 :> {"approve", "reject"} @@ q2 :> {"cancel", "rollback"}
Undo == q1 :> {"cancel", "rollback"}
=============================================================================

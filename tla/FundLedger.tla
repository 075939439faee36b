----------------------------- MODULE FundLedger -----------------------------
(***************************************************************************)
(* What the fund upload pipeline promises to the readers of the ledger,    *)
(* with no batch states, queue, workers or requests: which fund rows are   *)
(* posted, which goals are registered, which goals bank rows refer to.     *)
(***************************************************************************)
CONSTANTS
    File,       \* uploaded files
    Row,        \* their rows
    Goal,       \* goal numbers
    TxnId,      \* values of the fundTransactionId column
    FileOf,     \* the file of a row
    IdOf,       \* the fundTransactionId of a row
    GoalOf,     \* the goal of a row
    Opening     \* goals registered at the start

VARIABLES
    posted,     \* the rows in the ledger
    registered, \* the goals the registry holds
    banked      \* the goals bank rows refer to

ledger == <<posted, registered, banked>>

RowsIn(f) == {r \in Row : FileOf[r] = f}

Init ==
    /\ posted = {}
    /\ registered = Opening
    /\ banked = {}

\* Rows of one file are posted in one step, to registered goals, under ids the
\* ledger does not hold.
Post(f) == \E new \in SUBSET RowsIn(f) :
    /\ \A r \in new : GoalOf[r] \in registered
    /\ \A r \in new, s \in new \union posted : IdOf[r] = IdOf[s] => r = s
    /\ posted' = posted \union new
    /\ UNCHANGED <<registered, banked>>

\* Rows leave with all the rows of their file.  Goals may leave with them, once
\* no posted row and no bank row is on them.
Withdraw(f) == \E closed \in SUBSET registered :
    /\ posted' = posted \ RowsIn(f)
    /\ \A r \in posted' : GoalOf[r] \notin closed
    /\ closed \intersect banked = {}
    /\ closed \subseteq {GoalOf[r] : r \in posted \intersect RowsIn(f)}
    /\ registered' = registered \ closed
    /\ UNCHANGED banked

Register(g) ==
    /\ registered' = registered \union {g}
    /\ UNCHANGED <<posted, banked>>

\* Bank rows come on registered goals, those of a file together, and leave.
Bank == \E on \in SUBSET registered :
    /\ banked' \in {banked \union on, banked \ on}
    /\ UNCHANGED <<posted, registered>>

Next ==
    \/ \E f \in File : Post(f) \/ Withdraw(f)
    \/ \E g \in Goal : Register(g)
    \/ Bank

Spec == Init /\ [][Next]_ledger

-----------------------------------------------------------------------------
\* Posted and bank rows are on registered goals, and no id is posted twice.
Consistent ==
    /\ \A r \in posted : GoalOf[r] \in registered
    /\ banked \subseteq registered
    /\ \A r, s \in posted : IdOf[r] = IdOf[s] => r = s
=============================================================================

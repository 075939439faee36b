-------------------------- MODULE FundLedger_proofs --------------------------
(* The abstract ledger is consistent, for every set of files and ids. *)
EXTENDS FundLedger, TLAPS

LEMMA InitConsistent == Init => Consistent
BY DEF Init, Consistent

\* Consistent is inductive: Post adds rows of registered goals under new ids, and
\* Withdraw closes only goals nothing is left on.
LEMMA StepConsistent == Consistent /\ [Next]_ledger => Consistent'
<1> SUFFICES ASSUME Consistent, [Next]_ledger PROVE Consistent'
    OBVIOUS
<1> USE DEF Consistent
<1>1. ASSUME NEW f \in File, Post(f) PROVE Consistent'
  <2>1. PICK new \in SUBSET RowsIn(f) :
          /\ \A r \in new : GoalOf[r] \in registered
          /\ \A r \in new, s \in new \union posted : IdOf[r] = IdOf[s] => r = s
          /\ posted' = posted \union new
          /\ UNCHANGED <<registered, banked>>
    BY <1>1 DEF Post
  <2>2. \A r, s \in posted' : IdOf[r] = IdOf[s] => r = s
    BY <2>1
  <2> QED BY <2>1, <2>2
<1>2. ASSUME NEW f \in File, Withdraw(f) PROVE Consistent'
    BY <1>2 DEF Withdraw
<1>3. ASSUME NEW g \in Goal, Register(g) PROVE Consistent'
    BY <1>3 DEF Register
<1>4. CASE Bank
    BY <1>4 DEF Bank
<1>5. CASE UNCHANGED ledger
    BY <1>5 DEF ledger
<1> QED BY <1>1, <1>2, <1>3, <1>4, <1>5 DEF Next

\* Whatever is posted, withdrawn, registered and banked, the ledger holds rows of
\* registered goals only and no id twice.  With PipelineImplementsLedger it is what
\* saveTransactions and rollbackBatch together keep true of the fund tables.
THEOREM LedgerConsistent == Spec => []Consistent
BY InitConsistent, StepConsistent, PTL DEF Spec
==============================================================================

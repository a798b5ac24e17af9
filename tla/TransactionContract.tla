------------------------ MODULE TransactionContract ------------------------
(***************************************************************************)
(* What createTransactionContext promises (src/transaction.ts, README      *)
(* "Transaction"): a context stands for one database transaction.  It is   *)
(* opened at most once, its work is kept if and only if it is committed,   *)
(* and nothing happens after its end.                                      *)
(***************************************************************************)
CONSTANT Ctx

VARIABLES
  fate,   \* "none" before the first use, "open", "committed", "rolledback"
  dirty,  \* has work that the database has not kept yet
  kept    \* has work that the database has kept

contractVars == <<fate, dirty, kept>>

ContractTypeOK ==
  /\ fate \in [Ctx -> {"none", "open", "committed", "rolledback"}]
  /\ dirty \in [Ctx -> BOOLEAN]
  /\ kept \in [Ctx -> BOOLEAN]

Init ==
  /\ fate = [c \in Ctx |-> "none"]
  /\ dirty = [c \in Ctx |-> FALSE]
  /\ kept = [c \in Ctx |-> FALSE]

Open(c) ==
  /\ fate[c] = "none"
  /\ fate' = [fate EXCEPT ![c] = "open"]
  /\ UNCHANGED <<dirty, kept>>

Work(c) ==
  /\ fate[c] = "open"
  /\ dirty' = [dirty EXCEPT ![c] = TRUE]
  /\ UNCHANGED <<fate, kept>>

Finish(c, f) ==
  /\ fate[c] = "open"
  /\ fate' = [fate EXCEPT ![c] = f]
  /\ kept' = [kept EXCEPT ![c] = f = "committed" /\ dirty[c]]
  /\ dirty' = [dirty EXCEPT ![c] = FALSE]

Next ==
  \E c \in Ctx :
    Open(c) \/ Work(c) \/ \E f \in {"committed", "rolledback"} : Finish(c, f)

Spec == Init /\ [][Next]_contractVars
============================================================================

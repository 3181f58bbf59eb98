---- MODULE TokenLedger ----
(***************************************************************************)
(* What each store of the token budget promises the drafts that reserve    *)
(* from it: a reservation takes its whole estimate or nothing, nothing is  *)
(* given back, and no reservation takes more than the store has left.      *)
(***************************************************************************)
EXTENDS Integers

CONSTANTS BudgetTotal,   \* "total": what the store may lend in all
          Sizes          \* the estimates a reservation may ask for

VARIABLE used            \* "used": what has been reserved so far

remaining == BudgetTotal - used

reserve_budget(estimated_tokens) ==
    estimated_tokens <= remaining /\ used' = used + estimated_tokens

Unspent == used = 0

Reservation == \E estimated_tokens \in Sizes : reserve_budget(estimated_tokens)

LedgerSpec == Unspent /\ [][Reservation]_used
====

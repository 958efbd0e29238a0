------------------------------- MODULE MCBilling -------------------------------
(***************************************************************************)
(* One tenant over a few days that stand for its first months: a month of  *)
(* two days, the archive after two days without a payment.  One day of     *)
(* grace in Billing_books, where a late tenant is first MOROSO and then    *)
(* suspended; none in the two other runs.                                  *)
(***************************************************************************)
EXTENDS Billing, TLC

Symmetric == Permutations(Uploads)
=============================================================================

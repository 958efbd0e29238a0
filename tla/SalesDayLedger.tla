---------------------------- MODULE SalesDayLedger ----------------------------
(***************************************************************************)
(* A sales day implements the ledger: the committed tables are its         *)
(* entries, and every step of a request is one entry or none.              *)
(***************************************************************************)
EXTENDS SalesDay

\* A committed sale as an entry: the command of its request, its stored total
\* and its state.
TicketOf(v) ==
  IF venta[v] = "none" THEN None
  ELSE [draw |-> cmd[v].shift, items |-> cmd[v].items,
        total |-> totales[v], voided |-> venta[v] = "ANULADA"]

PrizeOf(v) == IF pago[v] = None THEN None ELSE pago[v].miles

\* None is not an entry.
ASSUME TicketAssumption ==
  None \notin [draw : Shifts, items : Baskets, total : Nat, voided : BOOLEAN]

Ledger ==
  INSTANCE SaleLedger WITH
    Tickets <- SaleIds,
    Draws   <- Shifts,
    Winners <- Numbers,
    Items   <- Baskets,
    Nothing <- None,
    ticket  <- [v \in SaleIds |-> TicketOf(v)],
    winner  <- resultado,
    prize   <- [v \in SaleIds |-> PrizeOf(v)]

\* However the requests of a day interleave, fail and are retried, whoever reads
\* the committed tables sees whole tickets with the totals of their rows, one result
\* per draw, and payments of exactly what a ticket won: the promise of one transaction per request.
ImplementsLedger == Ledger!Spec
=============================================================================

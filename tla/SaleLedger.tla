------------------------------ MODULE SaleLedger ------------------------------
(***************************************************************************)
(* What the sales, results and prizes of a day amount to for those who     *)
(* only see committed data: a ledger whose entries appear whole, one at a  *)
(* time, and are never rewritten except for the voiding of a ticket.       *)
(*                                                                         *)
(* There are no requests, locks or transactions here.                      *)
(***************************************************************************)
EXTENDS Naturals, FiniteSetsExt

CONSTANTS
  Tickets,        \* the tickets that may be sold
  Draws,          \* the draws they may be sold in
  Winners,        \* the numbers that may win
  Items,          \* what a ticket may consist of
  Nothing         \* an entry that is not there

VARIABLES
  ticket,         \* what was sold: draw, items, total, and whether it was voided
  winner,         \* the winning number of a draw
  prize           \* the amount paid for a ticket

ledger == <<ticket, winner, prize>>

Staked(items, n) ==
  LET rows == {i \in DOMAIN items : items[i].number = n}
  IN  MapThenSumSet(LAMBDA i : items[i].miles, rows)

Miles(items) == MapThenSumSet(LAMBDA i : items[i].miles, DOMAIN items)

Init ==
  /\ ticket = [k \in Tickets |-> Nothing]
  /\ winner = [d \in Draws |-> Nothing]
  /\ prize  = [k \in Tickets |-> Nothing]

\* The total is written with the ticket and stays what it was.
Sell(k, d, items) ==
  /\ ticket[k] = Nothing
  /\ ticket' = [ticket EXCEPT ![k] = [draw |-> d, items |-> items,
                                     total |-> Miles(items), voided |-> FALSE]]
  /\ UNCHANGED <<winner, prize>>

\* Mutant: a voided ticket is worth nothing.
VoidClearsTotal(k) ==
  /\ ticket[k] # Nothing
  /\ ticket' = [ticket EXCEPT ![k] = [draw |-> @.draw, items |-> @.items,
                                     total |-> 0, voided |-> TRUE]]
  /\ UNCHANGED <<winner, prize>>

Void(k) ==
  /\ ticket[k] # Nothing
  /\ ticket' = [ticket EXCEPT ![k] = [draw |-> @.draw, items |-> @.items,
                                     total |-> @.total, voided |-> TRUE]]
  /\ UNCHANGED <<winner, prize>>

Draw(d, n) ==
  /\ winner[d] = Nothing
  /\ winner' = [winner EXCEPT ![d] = n]
  /\ UNCHANGED <<ticket, prize>>

\* A ticket voided in the meantime may still be paid: nothing stops the commit.
Pay(k) ==
  /\ ticket[k] # Nothing
  /\ prize[k] = Nothing
  /\ LET won == winner[ticket[k].draw]
     IN  /\ won # Nothing
         /\ Staked(ticket[k].items, won) > 0
         /\ prize' = [prize EXCEPT ![k] = Staked(ticket[k].items, won)]
  /\ UNCHANGED <<ticket, winner>>

Next ==
  \/ \E k \in Tickets, d \in Draws, items \in Items : Sell(k, d, items)
  \/ \E k \in Tickets : Void(k) \/ Pay(k)
  \/ \E d \in Draws, n \in Winners : Draw(d, n)

Spec == Init /\ [][Next]_ledger
=============================================================================

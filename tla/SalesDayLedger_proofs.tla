------------------------ MODULE SalesDayLedger_proofs ------------------------
(***************************************************************************)
(* The sales day implements the ledger: its commits are the entries, and   *)
(* every other step leaves the ledger as it is.                            *)
(***************************************************************************)
EXTENDS SalesDayLedger, SalesDayLimits_proofs

LEMMA InitIsEmpty == Init => Ledger!Init
BY DEF Init, SaleInit, PrizeInit, TicketOf, PrizeOf, Ledger!Init

\* What a ticket has on a number is what the ledger pays for it.
LEMMA StakedIsAmount ==
  ASSUME NEW items, NEW n
  PROVE  Ledger!Staked(items, n) = AmountOf(items, n)
BY DEF Ledger!Staked, Ledger!MapThenSumSet, Ledger!MapThenFoldSet,
       AmountOf, MapThenSumSet, MapThenFoldSet

\* Which locks of the ledger's tables a commit of each kind can hold.
LEMMA RowsOfKind ==
  ASSUME RequestInv, NEW r \in Requests
  PROVE  /\ \A v \in SaleIds :
              SaleRow(v) \in held[r] => Kind[r] = "voidSale" /\ v = cmd[r].sale
         /\ \A t \in Shifts :
              ResultKey(t) \in held[r] => Kind[r] = "createResult" /\ t = cmd[r].shift
         /\ \A v \in SaleIds :
              PaymentKey(v) \in held[r] => Kind[r] = "payPrize" /\ v = cmd[r].sale
         /\ r \in SaleIds <=> Kind[r] = "createSale"
BY DEF RequestInv, LocksFit, Fit, SaleIds, RequestsOf

(***************************************************************************)
(* The stored totals                                                       *)
(***************************************************************************)
\* The total of a committed sale is the sum of the rows it was recorded with.
TotalsOK ==
  \A v \in SaleIds : venta[v] # "none" =>
    totales[v] = Ledger!Miles(cmd[v].items) /\ totales[v] \in Nat

LEMMA ItemsAreSum ==
  ASSUME NEW items
  PROVE  Ledger!Miles(items) = Miles(items, DOMAIN items)
BY DEF Ledger!Miles, Ledger!MapThenSumSet, Ledger!MapThenFoldSet,
       Miles, MapThenSumSet, MapThenFoldSet

LEMMA MilesType ==
  ASSUME NEW items \in Baskets
  PROVE  Ledger!Miles(items) \in Nat
<1> DEFINE rows == DOMAIN items
           f    == [i \in rows |-> items[i].miles]
<1>1. IsFiniteSet(rows) /\ \A i \in rows : f[i] \in Nat
  <2>1. /\ rows = 1..Len(items) /\ Len(items) \in Nat
        /\ \A i \in rows : items[i] \in [number : Numbers, miles : Nat]
    BY BasketItems
  <2>2. QED  BY <2>1, FS_Interval
<1>2. Ledger!Miles(items) = SumOf(f, rows)
  BY <1>1, ItemsAreSum, MilesIsSum
<1> HIDE DEF rows, f
<1>3. rows \in SUBSET rows
  OBVIOUS
<1>4. QED  BY <1>1, <1>2, <1>3, SumSubset

\* The trigger has summed every row when the sale is answered.
LEMMA TotalOfSale ==
  ASSUME RequestInv, SalesWithinBasket, NEW r \in SaleIds, phase[r] = "acked"
  PROVE  DetailTotal(r) = Ledger!Miles(cmd[r].items) /\ DetailTotal(r) \in Nat
<1>1. 1..done[r] = DOMAIN cmd[r].items
  BY RowsOfSale
<1>2. DetailTotal(r) = Miles(cmd[r].items, 1..done[r])
  BY DEF DetailTotal, Miles
<1>3. cmd[r].items \in Baskets
  BY SaleCommandType DEF RequestInv
<1>4. QED  BY <1>1, <1>2, <1>3, ItemsAreSum, MilesType

LEMMA TotalsKept ==
  ASSUME RequestInv, PrizeInv, SalesWithinBasket, TotalsOK, [Next]_vars
  PROVE  TotalsOK'
<1>1. ASSUME NEW v \in SaleIds, venta'[v] # "none",
             venta[v] # "none", totales'[v] = totales[v]
      PROVE  totales'[v] = Ledger!Miles(cmd'[v].items) /\ totales'[v] \in Nat
  <2>1. cmd'[v] = cmd[v]
    BY <1>1, SalesStay DEF PrizeInv
  <2>2. QED  BY <1>1, <2>1 DEF TotalsOK
<1>2. CASE UNCHANGED tables
  BY <1>1, <1>2 DEF tables, saleVars, TotalsOK
<1>3. ASSUME NEW r \in Requests, Commit(r), NEW v \in SaleIds, venta'[v] # "none"
      PROVE  totales'[v] = Ledger!Miles(cmd'[v].items) /\ totales'[v] \in Nat
  <2>1. phase[r] = "acked" /\ cmd' = cmd /\ SaleCommit(r)
    BY <1>3 DEF Commit, EndCommitted
  <2>2. CASE v = r
    BY <1>3, <2>1, <2>2, TotalOfSale DEF SaleCommit
  <2>3. CASE v # r
    <3>1. totales'[v] = totales[v]
      BY <2>1, <2>3 DEF SaleCommit
    <3>2. venta[v] # "none"
      BY <1>3, <2>1, <2>3, RowsOfKind DEF SaleCommit, PrizeInv, VoidsPending, RequestsOf
    <3>3. QED  BY <1>1, <1>3, <3>1, <3>2
  <2>4. QED  BY <2>2, <2>3
<1>4. QED  BY <1>2, <1>3, TablesWritten DEF TotalsOK

(***************************************************************************)
(* Steps                                                                   *)
(***************************************************************************)
\* A step that writes no table leaves the entries alone: the commands of the
\* committed sales stay what they are.
LEMMA QuietStep ==
  ASSUME RequestInv, PrizeInv, [Next]_vars, UNCHANGED tables
  PROVE  UNCHANGED Ledger!ledger
<1>1. ASSUME NEW v \in SaleIds
      PROVE  TicketOf(v)' = TicketOf(v) /\ PrizeOf(v)' = PrizeOf(v)
  <2>1. venta' = venta /\ totales' = totales /\ pago' = pago
    BY DEF tables, saleVars, prizeVars
  <2>2. venta[v] # "none" => cmd'[v] = cmd[v]
    BY SalesStay DEF PrizeInv
  <2>3. QED
    BY <2>1, <2>2 DEF TicketOf, PrizeOf
<1>2. resultado' = resultado
  BY DEF tables, prizeVars
<1>3. QED
  BY <1>1, <1>2 DEF Ledger!ledger

\* What a commit writes, seen from the ledger.
LEMMA CommitWrites ==
  ASSUME NEW r \in Requests, Commit(r)
  PROVE  /\ phase[r] = "acked" /\ cmd' = cmd
         /\ \A v \in SaleIds : venta'[v] = IF v = r THEN "ACTIVA"
                                           ELSE IF SaleRow(v) \in held[r] THEN "ANULADA"
                                           ELSE venta[v]
         /\ \A v \in SaleIds : totales'[v] = IF v = r THEN DetailTotal(v) ELSE totales[v]
         /\ \A v \in SaleIds : PaymentKey(v) \notin held[r] => pago'[v] = pago[v]
         /\ resultado' = [t \in Shifts |->
                            IF ResultKey(t) \in held[r] THEN cmd[r].number ELSE resultado[t]]
BY DEF Commit, EndCommitted, SaleCommit, PrizeCommit

LEMMA SaleIsSell ==
  ASSUME RequestInv, PrizeInv, SalesWithinBasket,
         NEW r \in Requests, Commit(r), Kind[r] = "createSale"
  PROVE  Ledger!Sell(r, cmd[r].shift, cmd[r].items)
         /\ cmd[r].shift \in Shifts /\ cmd[r].items \in Baskets /\ r \in SaleIds
<1>1. /\ phase[r] = "acked" /\ cmd' = cmd /\ r \in SaleIds
      /\ \A v \in SaleIds : venta'[v] = IF v = r THEN "ACTIVA" ELSE venta[v]
      /\ \A v \in SaleIds : totales'[v] = IF v = r THEN DetailTotal(v) ELSE totales[v]
      /\ \A v \in SaleIds : pago'[v] = pago[v]
      /\ \A t \in Shifts : ResultKey(t) \notin held[r]
  BY RowsOfKind, CommitWrites
<1>2. venta[r] = "none"
  BY <1>1 DEF PrizeInv, SalesCommitted
<1>3. resultado' = resultado
  BY <1>1, CommitWrites DEF RequestInv, Typed
<1>4. cmd[r] \in SaleCommands
  BY <1>1 DEF RequestInv, Typed, CommandsOf
<1>5. /\ TicketOf(r) = None
      /\ TicketOf(r)' = [draw |-> cmd[r].shift, items |-> cmd[r].items,
                         total |-> Ledger!Miles(cmd[r].items), voided |-> FALSE]
      /\ \A v \in SaleIds \ {r} : TicketOf(v)' = TicketOf(v)
      /\ \A v \in SaleIds : PrizeOf(v)' = PrizeOf(v)
  BY <1>1, <1>2, TotalOfSale DEF TicketOf, PrizeOf
<1>6. QED
  BY <1>1, <1>3, <1>4, <1>5 DEF Ledger!Sell, SaleCommands

LEMMA VoidIsVoid ==
  ASSUME RequestInv, PrizeInv, TotalsOK, NEW r \in Requests, Commit(r), Kind[r] = "voidSale"
  PROVE  UNCHANGED Ledger!ledger \/ \E v \in SaleIds : Ledger!Void(v)
<1>1. /\ phase[r] = "acked" /\ cmd' = cmd
      /\ \A v \in SaleIds : venta'[v] = IF SaleRow(v) \in held[r] THEN "ANULADA" ELSE venta[v]
      /\ \A v \in SaleIds : totales'[v] = totales[v]
      /\ \A v \in SaleIds : pago'[v] = pago[v]
      /\ \A t \in Shifts : ResultKey(t) \notin held[r]
      /\ \A v \in SaleIds : SaleRow(v) \in held[r] => v = cmd[r].sale
  BY RowsOfKind, CommitWrites
<1>2. resultado' = resultado
  BY <1>1, CommitWrites DEF RequestInv, Typed
<1>3. \A v \in SaleIds : PrizeOf(v)' = PrizeOf(v)
  BY <1>1 DEF PrizeOf
<1>4. \A v \in SaleIds : SaleRow(v) \notin held[r] => TicketOf(v)' = TicketOf(v)
  BY <1>1 DEF TicketOf
<1>5. CASE \E v \in SaleIds : SaleRow(v) \in held[r]
  <2>1. PICK v \in SaleIds : SaleRow(v) \in held[r]
    BY <1>5
  <2>2. v = cmd[r].sale /\ venta[v] # "none"
    BY <1>1, <2>1, RowsOfKind DEF PrizeInv, VoidsPending, RequestsOf
  <2>3. TicketOf(v) =
          [draw |-> cmd[v].shift, items |-> cmd[v].items,
           total |-> totales[v], voided |-> venta[v] = "ANULADA"]
    BY <2>2 DEF TicketOf
  <2>4. TicketOf(v)' = [draw |-> TicketOf(v).draw, items |-> TicketOf(v).items,
                       total |-> TicketOf(v).total, voided |-> TRUE]
    <3>1. venta'[v] = "ANULADA"
      BY <1>1, <2>1
    <3>2. TicketOf(v)' = [draw |-> cmd[v].shift, items |-> cmd[v].items,
                         total |-> totales[v], voided |-> TRUE]
      BY <1>1, <3>1 DEF TicketOf
    <3>3. /\ TicketOf(v).draw = cmd[v].shift /\ TicketOf(v).items = cmd[v].items
          /\ TicketOf(v).total = totales[v]
      BY <2>3
    <3>4. QED
      BY <3>2, <3>3
  <2>5. TicketOf(v) # None
    <3>1. v \in Requests /\ Kind[v] = "createSale" /\ phase[v] = "committed"
      BY <2>2 DEF SaleIds, RequestsOf, PrizeInv, SalesCommitted
    <3>2. cmd[v] \in SaleCommands
      BY <3>1 DEF RequestInv, Typed, CommandsOf
    <3>3. TicketOf(v) \in [draw : Shifts, items : Baskets, total : Nat, voided : BOOLEAN]
      BY <2>2, <2>3, <3>2 DEF SaleCommands, TotalsOK
    <3>4. QED
      BY <3>3, TicketAssumption
  <2>6. \A w \in SaleIds \ {v} : TicketOf(w)' = TicketOf(w)
    BY <1>1, <1>4, <2>2
  <2>7. Ledger!Void(v)
    BY <1>2, <1>3, <2>4, <2>5, <2>6 DEF Ledger!Void
  <2>8. QED
    BY <2>7
<1>6. CASE \A v \in SaleIds : SaleRow(v) \notin held[r]
  BY <1>2, <1>3, <1>4, <1>6 DEF Ledger!ledger
<1>7. QED
  BY <1>5, <1>6

LEMMA ResultIsDraw ==
  ASSUME RequestInv, PrizeInv, NEW r \in Requests, Commit(r), Kind[r] = "createResult"
  PROVE  UNCHANGED Ledger!ledger \/ \E t \in Shifts, n \in Numbers : Ledger!Draw(t, n)
<1>1. /\ phase[r] = "acked" /\ cmd' = cmd
      /\ \A v \in SaleIds : /\ venta'[v] = venta[v] /\ pago'[v] = pago[v]
                            /\ totales'[v] = totales[v]
      /\ \A t \in Shifts : ResultKey(t) \in held[r] => t = cmd[r].shift
  BY RowsOfKind, CommitWrites
<1>2. \A v \in SaleIds : TicketOf(v)' = TicketOf(v) /\ PrizeOf(v)' = PrizeOf(v)
  BY <1>1 DEF TicketOf, PrizeOf
<1>3. cmd[r] \in ResultCommands
  BY <1>1 DEF RequestInv, Typed, CommandsOf
<1>4. ResultKey(cmd[r].shift) \in held[r] /\ resultado[cmd[r].shift] = None
  BY <1>1 DEF PrizeInv, ResultsPending, RequestsOf
<1>5. resultado' = [resultado EXCEPT ![cmd[r].shift] = cmd[r].number]
  BY <1>1, <1>3, <1>4, CommitWrites DEF RequestInv, Typed, ResultCommands
<1>6. Ledger!Draw(cmd[r].shift, cmd[r].number)
  BY <1>2, <1>4, <1>5 DEF Ledger!Draw
<1>7. QED
  BY <1>3, <1>6 DEF ResultCommands

\* What is paid is what the committed ticket has on the committed number.
LEMMA PaymentIsPay ==
  ASSUME RequestInv, PrizeInv, TotalsOK, NEW r \in Requests, Commit(r), Kind[r] = "payPrize"
  PROVE  UNCHANGED Ledger!ledger \/ \E v \in SaleIds : Ledger!Pay(v)
<1>0. PICK v, t : v = cmd[r].sale /\ t = cmd[r].result
  OBVIOUS
<1>1. /\ phase[r] = "acked" /\ cmd' = cmd
      /\ \A w \in SaleIds : venta'[w] = venta[w] /\ totales'[w] = totales[w]
      /\ \A w \in SaleIds \ {v} : pago'[w] = pago[w]
      /\ \A u \in Shifts : ResultKey(u) \notin held[r]
  BY <1>0, RowsOfKind, CommitWrites
<1>2. resultado' = resultado
  BY <1>1, CommitWrites DEF RequestInv, Typed
<1>3. v \in SaleIds /\ PaymentKey(v) \in held[r]
  BY <1>0, <1>1, PaymentCommandType DEF RequestInv, PrizeInv, PaymentsPending, RequestsOf
<1>4. /\ t \in Shifts /\ Won(v, t) /\ pago[v] = None
      /\ pago'[v] = [by |-> r, result |-> t, miles |-> WinningAmount(v, t)]
      /\ pago'[v] \in Payments
  BY <1>0, <1>3, PaymentCommitted
<1>5. /\ \A w \in SaleIds : TicketOf(w)' = TicketOf(w)
      /\ \A w \in SaleIds \ {v} : PrizeOf(w)' = PrizeOf(w)
  BY <1>1 DEF TicketOf, PrizeOf
<1>6. PrizeOf(v) = None /\ PrizeOf(v)' = WinningAmount(v, t)
  <2>1. pago'[v] # None /\ pago'[v].miles = WinningAmount(v, t)
    BY <1>4, PrizeAssumption
  <2>2. QED
    BY <1>1, <1>4, <2>1 DEF PrizeOf
<1>7. /\ TicketOf(v) \in [draw : Shifts, items : Baskets, total : Nat, voided : BOOLEAN]
      /\ TicketOf(v).draw = t /\ TicketOf(v).items = cmd[v].items
  <2>1. v \in Requests /\ Kind[v] = "createSale" /\ phase[v] = "committed"
    BY <1>3, <1>4 DEF SaleIds, RequestsOf, PrizeInv, SalesCommitted, Won
  <2>2. cmd[v] \in SaleCommands /\ cmd[v].shift = t
    BY <1>4, <2>1 DEF RequestInv, Typed, CommandsOf, Won
  <2>3. TicketOf(v) = [draw |-> t, items |-> cmd[v].items,
                     total |-> totales[v], voided |-> venta[v] = "ANULADA"]
    BY <1>4, <2>2 DEF TicketOf, Won
  <2>4. QED
    <3>1. totales[v] \in Nat
      BY <1>3, <1>4 DEF TotalsOK, Won
    <3>2. QED
      BY <1>4, <2>2, <2>3, <3>1 DEF SaleCommands
<1>8. TicketOf(v) # None
  BY <1>7, TicketAssumption
<1>9. WinningAmount(v, t) = Ledger!Staked(TicketOf(v).items, resultado[t])
  BY <1>7, StakedIsAmount DEF WinningAmount
<1>10. resultado[t] # None /\ WinningAmount(v, t) > 0
  BY <1>4 DEF Won
<1>11. Ledger!Pay(v)
  <2>1. [w \in SaleIds |-> PrizeOf(w)]' =
          [[w \in SaleIds |-> PrizeOf(w)] EXCEPT ![v] = WinningAmount(v, t)]
    BY <1>3, <1>5, <1>6
  <2>2. [w \in SaleIds |-> TicketOf(w)]' = [w \in SaleIds |-> TicketOf(w)]
    BY <1>5
  <2>3. QED
    BY <1>2, <1>3, <1>6, <1>7, <1>8, <1>9, <1>10, <2>1, <2>2 DEF Ledger!Pay
<1>12. QED
  BY <1>3, <1>11

\* The other requests write none of the ledger's tables.
LEMMA OtherCommits ==
  ASSUME RequestInv, NEW r \in Requests, Commit(r),
         Kind[r] \notin {"createSale", "voidSale", "createResult", "payPrize"}
  PROVE  UNCHANGED Ledger!ledger
<1>1. /\ cmd' = cmd
      /\ \A v \in SaleIds : /\ venta'[v] = venta[v] /\ pago'[v] = pago[v]
                            /\ totales'[v] = totales[v]
      /\ \A t \in Shifts : ResultKey(t) \notin held[r]
  BY RowsOfKind, CommitWrites
<1>2. resultado' = resultado
  BY <1>1, CommitWrites DEF RequestInv, Typed
<1>3. \A v \in SaleIds : TicketOf(v)' = TicketOf(v) /\ PrizeOf(v)' = PrizeOf(v)
  BY <1>1 DEF TicketOf, PrizeOf
<1>4. QED
  BY <1>2, <1>3 DEF Ledger!ledger

\* Whoever reads only committed data sees a ledger: whole tickets with the total
\* that trg_ventas_total stored for them, one result per draw, and payments of
\* exactly what a ticket won, however many requests run, wait, fail or deadlock
\* behind it.
THEOREM SalesDayImplementsLedger == Spec => ImplementsLedger
<1>1. ASSUME RequestInv, PrizeInv, BlockInv, TotalsOK, [Next]_vars
      PROVE  [Ledger!Next]_(Ledger!ledger)
  <2>1. CASE UNCHANGED tables
    BY <1>1, <2>1, QuietStep
  <2>2. ASSUME NEW r \in Requests, Commit(r)
        PROVE  [Ledger!Next]_(Ledger!ledger)
    BY <1>1, <2>2, SaleIsSell, VoidIsVoid, ResultIsDraw, PaymentIsPay, OtherCommits
    DEF Ledger!Next, BlockInv
  <2>3. QED
    BY <1>1, <2>1, <2>2, TablesWritten
<1>2. Init => TotalsOK
  BY DEF Init, SaleInit, TotalsOK
<1>3. RequestInv /\ PrizeInv /\ BlockInv /\ TotalsOK /\ [Next]_vars => TotalsOK'
  BY TotalsKept DEF BlockInv
<1>4. QED
  BY <1>1, <1>2, <1>3, InitIsEmpty, RequestsSound, PrizesSound, BlocksSound, PTL
  DEF Spec, ImplementsLedger, Ledger!Spec
=============================================================================

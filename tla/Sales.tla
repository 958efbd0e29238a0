-------------------------------- MODULE Sales --------------------------------
(***************************************************************************)
(* Sales (tables ventas and venta_detalle): a ticket of one seller in one  *)
(* shift with one detail row per number, sold as a whole and voided as a   *)
(* whole.  A sale is named by the request that creates it.                 *)
(*                                                                         *)
(* Creating a sale checks the shift, inserts the ventas row and then its   *)
(* detail rows one by one.  Each detail row fires trg_detalle_validar: it  *)
(* takes the advisory lock of the shift and number, refuses a blocked      *)
(* number, and refuses an amount that the applicable limit does not leave. *)
(* Nothing is visible to other transactions before the commit.             *)
(***************************************************************************)
EXTENDS BlockedNumbers, NumberLimits, FiniteSetsExt

CONSTANTS
  Baskets,         \* item lists as normalizeItems leaves them: one item per number
  InitialSellers   \* sellers with a vendedores row at the start; an administrator
                   \* gets his with his first sale

VARIABLES
  venta,           \* committed ventas.estado, or "none"
  totales,         \* committed ventas.total_miles
  anuladaPor,      \* committed ventas.anulada_por: the voiding request, or None
  vendedores       \* sellers with a committed vendedores row

saleVars == <<venta, totales, anuladaPor, vendedores>>

SaleIds == RequestsOf("createSale")

SaleCommands == [shift : Shifts, seller : Sellers, items : Baskets]
VoidCommands == [sale : SaleIds]

AdvisoryLock(t, n) == <<"candado", t, n>>
SaleRow(v) == <<"venta", v>>
SellerKey(seller) == <<"vendedor", seller>>

SaleInit ==
  /\ venta = [v \in SaleIds |-> "none"]
  /\ totales = [v \in SaleIds |-> 0]
  /\ anuladaPor = [v \in SaleIds |-> None]
  /\ vendedores = InitialSellers

(***************************************************************************)
(* Amounts                                                                 *)
(***************************************************************************)
AmountOf(items, n) ==
  LET rows == {i \in DOMAIN items : items[i].number = n}
  IN  MapThenSumSet(LAMBDA i : items[i].miles, rows)

SaleDate(v) == DateOf[cmd[v].shift]

LimitFor(v, n) ==
  ApplicableLimit(TenantOf[ConfigOf[cmd[v].shift]], cmd[v].seller, n,
                  ConfigOf[cmd[v].shift], SaleDate(v))

\* Active sales of the date whose detail of the number falls under the limit.
SalesUnder(limit, n, date) ==
  {v \in SaleIds : venta[v] = "ACTIVA" /\ SaleDate(v) = date /\ LimitFor(v, n) = limit}

Accumulated(limit, n, date) ==
  MapThenSumSet(LAMBDA v : AmountOf(cmd[v].items, n), SalesUnder(limit, n, date))

ASSUME SellerAssumption == InitialSellers \subseteq Sellers

\* ArrayNotEmpty and the item's DTO; normalizeItems leaves one item per number.
ASSUME BasketAssumption ==
  /\ Baskets \subseteq Seq([number : Numbers, miles : Nat]) \ {<<>>}
  /\ \A items \in Baskets : \A i, j \in DOMAIN items :
       items[i].number = items[j].number => i = j

\* turnos has one row per (fecha, config_id), of a configuration of a tenant.
ASSUME ShiftAssumption ==
  /\ \A t \in Shifts : DateOf[t] \in Dates /\ ConfigOf[t] \in Configs /\ TenantOf[ConfigOf[t]] \in Tenants
  /\ \A t, u \in Shifts : DateOf[t] = DateOf[u] /\ ConfigOf[t] = ConfigOf[u] => t = u

(***************************************************************************)
(* Create a sale                                                           *)
(***************************************************************************)
\* resolveSellerId: the upsert of a missing seller row takes its key.
SellerLock(v) ==
  IF cmd[v].seller \in vendedores THEN {} ELSE {SellerKey(cmd[v].seller)}

\* assertShiftCanReceiveSales: a plain read of turnos.estado.
CreateSaleCheck(v) ==
  /\ phase[v] = "reading"
  /\ Available(v, SellerLock(v))
  /\ IF estado[cmd[v].shift] = "ABIERTO"
       THEN Write(v, SellerLock(v), "writing") /\ UNCHANGED done
       ELSE Rollback(v)
  /\ UNCHANGED saleVars

NextItem(v) == cmd[v].items[done[v] + 1]

\* Mutant: the lock is keyed by the ticket, not by the shift.
TicketLock(v) == AdvisoryLock(v, NextItem(v).number)

DetailLock(v) == AdvisoryLock(cmd[v].shift, NextItem(v).number)

\* Mutant: a blocked number is looked for by date only.
DateBlocksOnly(v) ==
  LET n     == NextItem(v).number
      limit == LimitFor(v, n)
  IN  /\ Rows(n, DateScope(cmd[v].shift)) = {}
      /\ limit # None =>
           Accumulated(limit, n, SaleDate(v)) + NextItem(v).miles <= limites[limit].miles

\* trg_detalle_validar
DetailAccepted(v) ==
  LET n     == NextItem(v).number
      limit == LimitFor(v, n)
  IN  /\ ~IsBlocked(n, cmd[v].shift)
      /\ limit # None =>
           Accumulated(limit, n, SaleDate(v)) + NextItem(v).miles <= limites[limit].miles

CreateSaleDetail(v) ==
  /\ phase[v] = "writing"
  /\ Available(v, {DetailLock(v)})
  /\ IF DetailAccepted(v)
       THEN /\ Write(v, {DetailLock(v)},
                     IF done[v] + 1 = Len(cmd[v].items) THEN "responding" ELSE "writing")
            /\ done' = [done EXCEPT ![v] = @ + 1]
       ELSE Rollback(v)
  /\ UNCHANGED saleVars

(***************************************************************************)
(* Void a sale                                                             *)
(***************************************************************************)
\* findById and the checks of VoidSaleUseCase, made on what was read.
VoidSaleCheck(a) ==
  /\ phase[a] = "reading"
  /\ LET v == cmd[a].sale
     IN  IF venta[v] = "ACTIVA" /\ estado[cmd[v].shift] = "ABIERTO"
           THEN MoveTo(a, "writing") /\ UNCHANGED done
           ELSE Rollback(a)
  /\ UNCHANGED saleVars

\* UPDATE ventas ... WHERE id = ...: only the id is matched.
VoidSaleUpdate(a) ==
  /\ phase[a] = "writing"
  /\ Available(a, {SaleRow(cmd[a].sale)})
  /\ Write(a, {SaleRow(cmd[a].sale)}, "responding")
  /\ UNCHANGED done
  /\ UNCHANGED saleVars

\* trg_ventas_total: after each detail row the total of the sale is the sum of
\* the rows that are in.  Nothing else writes it, not even the void.
DetailTotal(v) == MapThenSumSet(LAMBDA i : cmd[v].items[i].miles, 1..done[v])

\* Mutant: the voided sale is recorded where its voider belongs.
VoiderSwapped(r) ==
  /\ venta' = [v \in SaleIds |->
                 IF v = r THEN "ACTIVA"
                 ELSE IF SaleRow(v) \in held[r] THEN "ANULADA"
                 ELSE venta[v]]
  /\ totales' = [v \in SaleIds |-> IF v = r THEN DetailTotal(v) ELSE totales[v]]
  /\ anuladaPor' = [v \in SaleIds |-> IF SaleRow(v) \in held[r] THEN v ELSE anuladaPor[v]]
  /\ vendedores' = vendedores \cup {s \in Sellers : SellerKey(s) \in held[r]}

SaleCommit(r) ==
  /\ venta' = [v \in SaleIds |->
                 IF v = r THEN "ACTIVA"
                 ELSE IF SaleRow(v) \in held[r] THEN "ANULADA"
                 ELSE venta[v]]
  /\ totales' = [v \in SaleIds |-> IF v = r THEN DetailTotal(v) ELSE totales[v]]
  /\ anuladaPor' = [v \in SaleIds |-> IF SaleRow(v) \in held[r] THEN r ELSE anuladaPor[v]]
  /\ vendedores' = vendedores \cup {s \in Sellers : SellerKey(s) \in held[r]}

SaleStep(r) ==
  \/ Kind[r] = "createSale" /\ ( \/ Receive(r, SaleCommands, "reading") /\ UNCHANGED saleVars
                                 \/ CreateSaleCheck(r)
                                 \/ CreateSaleDetail(r) )
  \/ Kind[r] = "voidSale"   /\ ( \/ Receive(r, VoidCommands, "reading") /\ UNCHANGED saleVars
                                 \/ VoidSaleCheck(r)
                                 \/ VoidSaleUpdate(r) )

SaleWanted(r) ==
  IF phase[r] # "writing" THEN {}
  ELSE IF Kind[r] = "createSale" THEN {DetailLock(r)}
  ELSE {SaleRow(cmd[r].sale)}
=============================================================================

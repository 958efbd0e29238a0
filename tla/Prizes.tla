-------------------------------- MODULE Prizes --------------------------------
(***************************************************************************)
(* Results (table resultados, one per shift) and prize payments (table     *)
(* pagos_premios, keyed by the sale).                                      *)
(***************************************************************************)
EXTENDS Sales

VARIABLES
  resultado,       \* committed resultados.numero_ganador of a shift, or None
  pago             \* committed pagos_premios row of a sale, or None

prizeVars == <<resultado, pago>>

ResultCommands  == [shift : Shifts, number : Numbers]
PaymentCommands == [result : Shifts, sale : SaleIds]   \* a result is named by its shift

Payments == [by : RequestsOf("payPrize"), result : Shifts, miles : Nat]

ASSUME PrizeAssumption == None \notin Numbers /\ None \notin Payments

PrizeInit ==
  /\ resultado = [t \in Shifts |-> None]
  /\ pago = [v \in SaleIds |-> None]

ResultKey(t)  == <<"resultado", t>>     \* resultados_turno_id_key
PaymentKey(v) == <<"pago", v>>          \* pagos_premios_pkey

(***************************************************************************)
(* Register a result: the shift must be read CERRADO.                      *)
(***************************************************************************)
CreateResultCheck(r) ==
  /\ phase[r] = "reading"
  /\ IF estado[cmd[r].shift] = "CERRADO"
       THEN MoveTo(r, "writing") /\ UNCHANGED done
       ELSE Rollback(r)
  /\ UNCHANGED prizeVars

\* Mutant: an upsert by shift.
CreateResultUpsert(r) ==
  /\ phase[r] = "writing"
  /\ Available(r, {ResultKey(cmd[r].shift)})
  /\ Write(r, {ResultKey(cmd[r].shift)}, "responding") /\ UNCHANGED done
  /\ UNCHANGED prizeVars

CreateResultInsert(r) ==
  /\ phase[r] = "writing"
  /\ Available(r, {ResultKey(cmd[r].shift)})
  /\ IF resultado[cmd[r].shift] = None
       THEN Write(r, {ResultKey(cmd[r].shift)}, "responding") /\ UNCHANGED done
       ELSE Rollback(r)
  /\ UNCHANGED prizeVars

(***************************************************************************)
(* Pay a prize                                                             *)
(***************************************************************************)
\* Mutant: everything on the ticket is paid, whatever its numbers.
WholeTicket(v, t) == MapThenSumSet(LAMBDA i : cmd[v].items[i].miles, DOMAIN cmd[v].items)

WinningAmount(v, t) == AmountOf(cmd[v].items, resultado[t])

\* Mutant: the sale may be of another shift than the result.
PayableAnyShift(p) ==
  LET v == cmd[p].sale
      t == cmd[p].result
  IN  /\ resultado[t] # None
      /\ venta[v] = "ACTIVA"
      /\ pago[v] = None
      /\ WinningAmount(v, t) > 0

Payable(p) ==
  LET v == cmd[p].sale
      t == cmd[p].result
  IN  /\ resultado[t] # None
      /\ venta[v] = "ACTIVA"
      /\ pago[v] = None
      /\ cmd[v].shift = t
      /\ WinningAmount(v, t) > 0

PayPrizeCheck(p) ==
  /\ phase[p] = "reading"
  /\ IF Payable(p)
       THEN MoveTo(p, "writing") /\ UNCHANGED done
       ELSE Rollback(p)
  /\ UNCHANGED prizeVars

\* Mutant: an upsert by sale.
PayPrizeUpsert(p) ==
  /\ phase[p] = "writing"
  /\ Available(p, {PaymentKey(cmd[p].sale)})
  /\ Write(p, {PaymentKey(cmd[p].sale)}, "responding") /\ UNCHANGED done
  /\ UNCHANGED prizeVars

PayPrizeInsert(p) ==
  /\ phase[p] = "writing"
  /\ Available(p, {PaymentKey(cmd[p].sale)})
  /\ IF pago[cmd[p].sale] = None
       THEN Write(p, {PaymentKey(cmd[p].sale)}, "responding") /\ UNCHANGED done
       ELSE Rollback(p)
  /\ UNCHANGED prizeVars

PrizeCommit(r) ==
  /\ resultado' = [t \in Shifts |->
                     IF ResultKey(t) \in held[r] THEN cmd[r].number ELSE resultado[t]]
  /\ pago' = [v \in SaleIds |->
                IF PaymentKey(v) \in held[r]
                  THEN [by     |-> r,
                        result |-> cmd[r].result,
                        miles  |-> WinningAmount(v, cmd[r].result)]
                  ELSE pago[v]]

PrizeStep(r) ==
  \/ Kind[r] = "createResult" /\ ( \/ Receive(r, ResultCommands, "reading") /\ UNCHANGED prizeVars
                                   \/ CreateResultCheck(r)
                                   \/ CreateResultInsert(r) )
  \/ Kind[r] = "payPrize"     /\ ( \/ Receive(r, PaymentCommands, "reading") /\ UNCHANGED prizeVars
                                   \/ PayPrizeCheck(r)
                                   \/ PayPrizeInsert(r) )

PrizeWanted(r) ==
  IF phase[r] # "writing" THEN {}
  ELSE IF Kind[r] = "createResult" THEN {ResultKey(cmd[r].shift)}
  ELSE {PaymentKey(cmd[r].sale)}
=============================================================================

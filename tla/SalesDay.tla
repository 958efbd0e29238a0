------------------------------- MODULE SalesDay -------------------------------
(***************************************************************************)
(* A sales day: the draw shifts, number rules, sales, results and prize    *)
(* payments of the system, worked on by concurrent requests.               *)
(***************************************************************************)
EXTENDS Prizes

vars == <<txVars, estado, limites, bloqueos, saleVars, prizeVars>>

Kinds == {"openShifts", "moveShift", "createLimits", "editLimit", "blockNumbers",
          "unblockNumber", "createSale", "voidSale", "createResult", "payPrize"}

Init ==
  /\ TxInit
  /\ ShiftInit
  /\ LimitInit
  /\ BlockInit
  /\ SaleInit
  /\ PrizeInit

\* What a request's next statement locks, for the deadlock detector.
Wanted ==
  [r \in Requests |->
     CASE Kind[r] \in {"openShifts", "moveShift"}       -> ShiftWanted(r)
       [] Kind[r] \in {"createLimits", "editLimit"}     -> LimitWanted(r)
       [] Kind[r] \in {"blockNumbers", "unblockNumber"} -> BlockWanted(r)
       [] Kind[r] \in {"createSale", "voidSale"}        -> SaleWanted(r)
       [] OTHER                                         -> PrizeWanted(r)]

tables == <<estado, limites, bloqueos, saleVars, prizeVars>>

\* COMMIT: everything the transaction wrote becomes visible at once.
Commit(r) ==
  /\ EndCommitted(r)
  /\ ShiftCommit(r)
  /\ LimitCommit(r)
  /\ BlockCommit(r)
  /\ SaleCommit(r)
  /\ PrizeCommit(r)

Handle(r) ==
  \/ ShiftStep(r) /\ UNCHANGED <<limites, bloqueos, saleVars, prizeVars>>
  \/ LimitStep(r) /\ UNCHANGED <<estado, bloqueos, saleVars, prizeVars>>
  \/ BlockStep(r) /\ UNCHANGED <<limites, saleVars, prizeVars>>
  \/ SaleStep(r)  /\ UNCHANGED <<estado, limites, bloqueos, prizeVars>>
  \/ PrizeStep(r) /\ UNCHANGED <<estado, limites, bloqueos, saleVars>>

Finish(r) ==
  \/ Respond(r) /\ UNCHANGED tables
  \/ Commit(r)

Fault(r) ==
  \/ Lose(r) /\ UNCHANGED tables
  \/ DeadlockVictim(r, Wanted) /\ UNCHANGED tables

\* The day is over when every request has been dealt with.
AllFinished ==
  /\ \A r \in Requests : phase[r] \in Finished
  /\ UNCHANGED vars

Next ==
  \/ \E r \in Requests : Handle(r) \/ Finish(r) \/ Fault(r)
  \/ AllFinished

Spec == Init /\ [][Next]_vars

\* Node and PostgreSQL keep running: a statement that can proceed does, an
\* answered request commits, a deadlock is detected after deadlock_timeout.
\* Faults are not forced, and neither is the arrival of a request.
Proceed(r) ==
  \/ phase[r] # "idle" /\ Handle(r)
  \/ Finish(r)
  \/ DeadlockVictim(r, Wanted) /\ UNCHANGED tables

FairSpec == Spec /\ \A r \in Requests : WF_vars(Proceed(r))

(***************************************************************************)
(* Properties                                                              *)
(***************************************************************************)
CommandsOf(kind) ==
  CASE kind = "openShifts"    -> OpenCommands
    [] kind = "moveShift"     -> MoveCommands
    [] kind = "createLimits"  -> LimitCommands
    [] kind = "editLimit"     -> EditCommands
    [] kind = "blockNumbers"  -> BlockCommands
    [] kind = "unblockNumber" -> UnblockCommands
    [] kind = "createSale"    -> SaleCommands
    [] kind = "voidSale"      -> VoidCommands
    [] kind = "createResult"  -> ResultCommands
    [] kind = "payPrize"      -> PaymentCommands

\* Every received command is of its handler, and every column has its type.
Typed ==
  /\ phase \in [Requests -> Phases]
  /\ \A r \in Requests :
       IF phase[r] = "idle" THEN cmd[r] = None ELSE cmd[r] \in CommandsOf(Kind[r])
  /\ DOMAIN cmd = Requests
  /\ done \in [Requests -> Nat]
  /\ DOMAIN held = Requests
  /\ estado \in [Shifts -> Estados \cup {"none"}]
  /\ limites \in [LimitIds -> LimitRows \cup {None}]
  /\ DOMAIN bloqueos = BlockIds
  /\ venta \in [SaleIds -> {"none", "ACTIVA", "ANULADA"}] /\ DOMAIN totales = SaleIds
  /\ vendedores \subseteq Sellers
  /\ anuladaPor \in [SaleIds -> RequestsOf("voidSale") \cup {None}]
  /\ resultado \in [Shifts -> Numbers \cup {None}]

\* Every variable has its type.  A payment has an amount because the checks of
\* its request found the winning number in a committed sale.
TypeOK == Typed /\ pago \in [SaleIds -> Payments \cup {None}]

\* Part of RequestInv: resources are held by live transactions, one at a time.
LocksExclusive ==
  /\ \A r \in Requests : held[r] # {} => Live(r)
  /\ \A r, q \in Requests : r # q => held[r] \cap held[q] = {}

\* Active sales never exceed a limit of one draw configuration, as long as the
\* limits are not edited.  A date has one shift of a configuration, so all the
\* sales under such a limit take the same advisory lock before they sum.
DrawLimitsRespected ==
  \A n \in Numbers, id \in LimitIds, t \in Shifts :
    (limites[id] # None /\ limites[id].config # None) =>
      Accumulated(id, n, DateOf[t]) <= limites[id].miles

\* A payment is of a committed sale of the result's shift, for exactly what the
\* sale has on the winning number, whatever commits between the payment's
\* checks and its own commit.
PaymentsAreWinnings ==
  \A v \in SaleIds : pago[v] # None =>
    /\ venta[v] # "none"
    /\ pago[v].result = cmd[v].shift
    /\ resultado[cmd[v].shift] # None
    /\ pago[v].miles = WinningAmount(v, cmd[v].shift)
    /\ pago[v].miles > 0

\* Of several payments of one sale, the one recorded is the only one whose
\* transaction commits: a cashier told "paid" owns the payment.
PaidOnce ==
  \A p \in RequestsOf("payPrize") :
    phase[p] = "committed" => pago[cmd[p].sale] # None /\ pago[cmd[p].sale].by = p

\* Of several results of one shift only one commits, and nothing replaces it.
ResultsFinal ==
  [][\A t \in Shifts : resultado[t] # None => resultado'[t] = resultado[t]]_vars

\* Opening or auto-generating shifts, however late it commits, leaves the shifts
\* that exist as they are: only a block, reopen or close changes a shift.
OpeningOnlyAdds ==
  [][\A r \in RequestsOf("openShifts"), t \in Shifts :
       (phase[r] = "acked" /\ phase'[r] = "committed" /\ estado[t] # "none")
         => estado'[t] = estado[t]]_vars

\* For any sale at most one limit of each breadth is in force, so the limit that
\* fn_limite_numero_aplicable picks does not depend on the order of the rows.
OneLimitApplies ==
  \A tenant \in Tenants, seller \in Sellers, n \in Numbers, config \in Configs, d \in Dates :
    \A a, b \in InForce(tenant, seller, n, config, d) :
      Breadth(limites[a]) = Breadth(limites[b]) => a = b

\* The block keeps the number from the shift.
Blocks(id, n, t) ==
  /\ bloqueos[id] # None
  /\ bloqueos[id].number = n
  /\ bloqueos[id].scope \in {OfShift(t), DateScope(t)}

\* A sale request that arrives while a block is there never sells the number that
\* it keeps from its shift, for as long as the block stands: a block that was
\* committed is seen by every later detail row, whatever commits in between.
BlocksHold ==
  \A v \in SaleIds, id \in BlockIds :
    [](bloqueos[id] # None /\ phase[v] = "idle" =>
         [](venta[v] = "ACTIVA" =>
              \A n \in Numbers :
                 Blocks(id, n, cmd[v].shift) => AmountOf(cmd[v].items, n) = 0))

\* Every request that arrives is answered, and its transaction ends.
RequestsEnd == \A r \in Requests : (phase[r] # "idle") ~> (phase[r] \in Finished)

(***************************************************************************)
(* The inductive invariant behind the safety properties of the requests    *)
(* and of the prizes: which locks a request holds, and what an answered    *)
(* request that has not committed yet can rely on.                         *)
(***************************************************************************)
\* A lock on a row, or on the key of a row, is held by a request that writes it.
Fit(r, locks) ==
  /\ \A t \in Shifts : ShiftRow(t) \in locks =>
       Kind[r] = "openShifts" \/ (Kind[r] = "moveShift" /\ cmd[r].shift = t)
  /\ \A id \in LimitIds : LimitRowLock(id) \in locks =>
       Kind[r] = "editLimit" /\ cmd[r].limit = id /\ limites[id] # None
  /\ \A id \in BlockIds : BlockRowLock(id) \in locks =>
       Kind[r] = "unblockNumber" /\ cmd[r].block = id
  /\ \A v \in SaleIds : SaleRow(v) \in locks => Kind[r] = "voidSale" /\ cmd[r].sale = v
  /\ \A t \in Shifts : ResultKey(t) \in locks => Kind[r] = "createResult" /\ cmd[r].shift = t
  /\ \A v \in SaleIds : PaymentKey(v) \in locks => Kind[r] = "payPrize" /\ cmd[r].sale = v

LocksFit == \A r \in Requests : Fit(r, held[r])

\* A shift that a request has inserted and not committed is not there for anyone.
OpeningsPending ==
  \A r \in RequestsOf("openShifts"), t \in Shifts :
    ShiftRow(t) \in held[r] => estado[t] = "none"

\* The loop of createMany stays within the numbers of its command.
LimitsWithinCommand ==
  \A r \in RequestsOf("createLimits") :
    /\ phase[r] = "idle" => done[r] = 0
    /\ phase[r] # "idle" => done[r] <= Len(cmd[r].numbers)
    /\ phase[r] = "writing" => done[r] < Len(cmd[r].numbers)

RequestInv == Typed /\ LocksExclusive /\ LocksFit /\ LimitsWithinCommand

SalesCommitted == \A v \in SaleIds : venta[v] # "none" => phase[v] = "committed"

\* An inserted result keeps every other result of its shift waiting.
ResultsPending ==
  \A r \in RequestsOf("createResult") :
    phase[r] \in {"responding", "acked"} =>
      ResultKey(cmd[r].shift) \in held[r] /\ resultado[cmd[r].shift] = None

\* A void that was checked is of a committed sale.
VoidsPending ==
  \A a \in RequestsOf("voidSale") :
    phase[a] \in {"writing", "responding", "acked"} => venta[cmd[a].sale] # "none"

Won(v, t) ==
  /\ venta[v] # "none"
  /\ cmd[v].shift = t
  /\ resultado[t] # None
  /\ WinningAmount(v, t) > 0

\* What the payment checked still holds when it writes, and an inserted payment
\* keeps every other payment of its sale waiting.
PaymentsPending ==
  \A p \in RequestsOf("payPrize") :
    /\ phase[p] \in {"writing", "responding", "acked"} => Won(cmd[p].sale, cmd[p].result)
    /\ phase[p] \in {"responding", "acked"} =>
         PaymentKey(cmd[p].sale) \in held[p] /\ pago[cmd[p].sale] = None

PrizeInv ==
  /\ pago \in [SaleIds -> Payments \cup {None}]
  /\ SalesCommitted
  /\ VoidsPending
  /\ ResultsPending
  /\ PaymentsPending
  /\ PaymentsAreWinnings
  /\ PaidOnce

(***************************************************************************)
(* The inductive invariant behind OneLimitApplies: the rows that are there *)
(* and the rows that open transactions will add never share a key.         *)
(***************************************************************************)
LimitsCompatible ==
  \A a, b \in LimitIds :
    a # b /\ limites[a] # None /\ limites[b] # None => Compatible(limites[a], limites[b])

\* The row may replace limit id: no other transaction can write a key of it.
Reserved(r, id, row) ==
  /\ LimitKeys(row) \subseteq held[r]
  /\ \A other \in LimitIds \ {id} : limites[other] # None => Compatible(row, limites[other])

LimitsInserted ==
  \A r \in RequestsOf("createLimits") :
    phase[r] \in {"writing", "responding", "acked"} =>
      \A i \in 1..done[r] : Reserved(r, <<r, i>>, OrderedRow(r, i))

LimitsEdited ==
  \A r \in RequestsOf("editLimit") :
    phase[r] \in {"responding", "acked"} =>
      /\ LimitRowLock(cmd[r].limit) \in held[r]
      /\ Reserved(r, cmd[r].limit, NewRow(r))

\* A row that a request creates is not there before its commit.
LimitsCreated ==
  \A r \in RequestsOf("createLimits"), i \in 1..MaxOrder :
    limites[<<r, i>>] # None => phase[r] = "committed"

LimitInv == LimitsCompatible /\ LimitsInserted /\ LimitsEdited /\ LimitsCreated

(***************************************************************************)
(* The inductive invariant behind DrawLimitsRespected: a detail row that   *)
(* was accepted under the limit of a draw fits until its sale commits.     *)
(***************************************************************************)
OfDraw(id) == limites[id] # None /\ limites[id].config # None

\* Nobody creates, edits or expires a limit of a draw configuration.
DrawLimitsStay ==
  [][\A id \in LimitIds : OfDraw(id) \/ OfDraw(id)' => limites'[id] = limites[id]]_vars

\* A sale answers when every item of its basket has been accepted.
SalesWithinBasket ==
  \A v \in SaleIds :
    /\ phase[v] \in {"idle", "reading"} => done[v] = 0
    /\ phase[v] = "writing" => done[v] < Len(cmd[v].items)
    /\ phase[v] \in {"responding", "acked", "committed"} => done[v] = Len(cmd[v].items)

\* The advisory lock of an accepted row is kept, and under it nobody else sells.
DetailsPending ==
  \A v \in SaleIds : phase[v] \in {"writing", "responding", "acked"} =>
    \A i \in 1..done[v] :
      LET item == cmd[v].items[i]
      IN  /\ AdvisoryLock(cmd[v].shift, item.number) \in held[v]
          /\ \A id \in LimitIds : OfDraw(id) /\ LimitFor(v, item.number) = id =>
               Accumulated(id, item.number, SaleDate(v)) + item.miles <= limites[id].miles

DrawLimitInv == SalesWithinBasket /\ DetailsPending /\ DrawLimitsRespected

(***************************************************************************)
(* The inductive invariant behind BlocksHold: a row that a request creates *)
(* is not there before its commit, so that no commit writes over a block.  *)
(***************************************************************************)
BlockCommitted(id) == id \in DOMAIN InitialBlocks \/ phase[id[1]] = "committed"

BlockRows == \A id \in BlockIds : bloqueos[id] # None => BlockCommitted(id)

BlockInv == SalesWithinBasket /\ BlockRows

\* The block is old, and the sale has no accepted row of the number it keeps.
Shut(v, id) ==
  /\ BlockCommitted(id)
  /\ \A i \in 1..done[v] : ~Blocks(id, cmd[v].items[i].number, cmd[v].shift)
=============================================================================

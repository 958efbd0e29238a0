--------------------------- MODULE SalesDay_proofs ---------------------------
(***************************************************************************)
(* Proofs about a sales day, for any number of requests of every kind.     *)
(***************************************************************************)
EXTENDS SalesDay, NumberSets, SequenceTheorems, TLAPS

(***************************************************************************)
(* The shapes of a step, as far as the request's transaction goes          *)
(***************************************************************************)
Advances(r) ==
  /\ phase[r] = "reading"
  /\ \E p \in Running : MoveTo(r, p)
  /\ \/ UNCHANGED done
     \/ Kind[r] = "openShifts" /\ done' = [done EXCEPT ![r] = @ + 1]

Aborts(r) == phase[r] \in Running /\ Rollback(r)

Writes(r) ==
  /\ phase[r] \in Running
  /\ \E p \in Running : \E locks : Available(r, locks) /\ Write(r, locks, p)
  /\ \/ UNCHANGED done
     \/ done' = [done EXCEPT ![r] = @ + 1]

Arrives(r) == \E p \in {"reading", "writing"} : Receive(r, CommandsOf(Kind[r]), p)

\* A handler's step before the commit is one of four, and writes no table.
LEMMA HandleShape ==
  ASSUME NEW r \in Requests, Handle(r)
  PROVE  /\ UNCHANGED tables
         /\ Arrives(r) \/ Advances(r) \/ Aborts(r) \/ Writes(r)
<1> USE DEF tables, Running
<1>1. CASE ShiftStep(r) /\ UNCHANGED <<limites, bloqueos, saleVars, prizeVars>>
  <2>1. CASE Kind[r] = "openShifts" /\ Receive(r, OpenCommands, "reading") /\ UNCHANGED estado
    BY <1>1, <2>1 DEF Arrives, CommandsOf
  <2>2. CASE Kind[r] = "openShifts" /\ OpenShiftsRead(r)
    BY <1>1, <2>2 DEF OpenShiftsRead, Advances, MoveTo
  <2>3. CASE OpenShiftsInsert(r)
    BY <1>1, <2>3 DEF OpenShiftsInsert, Writes, Aborts
  <2>4. CASE Kind[r] = "moveShift" /\ Receive(r, MoveCommands, "reading") /\ UNCHANGED estado
    BY <1>1, <2>4 DEF Arrives, CommandsOf
  <2>5. CASE MoveShiftRead(r)
    BY <1>1, <2>5 DEF MoveShiftRead, Advances, Aborts
  <2>6. CASE MoveShiftUpdate(r)
    BY <1>1, <2>6 DEF MoveShiftUpdate, Writes
  <2>7. QED
    BY <1>1, <2>1, <2>2, <2>3, <2>4, <2>5, <2>6 DEF ShiftStep
<1>2. CASE LimitStep(r) /\ UNCHANGED <<estado, bloqueos, saleVars, prizeVars>>
  <2>1. CASE Kind[r] = "createLimits" /\ Receive(r, LimitCommands, "writing") /\ UNCHANGED limites
    BY <1>2, <2>1 DEF Arrives, CommandsOf
  <2>2. CASE CreateLimitsInsert(r)
    BY <1>2, <2>2 DEF CreateLimitsInsert, Writes, Aborts
  <2>3. CASE Kind[r] = "editLimit" /\ Receive(r, EditCommands, "writing") /\ UNCHANGED limites
    BY <1>2, <2>3 DEF Arrives, CommandsOf
  <2>4. CASE EditLimitUpdate(r)
    BY <1>2, <2>4 DEF EditLimitUpdate, Writes, Aborts
  <2>5. QED
    BY <1>2, <2>1, <2>2, <2>3, <2>4 DEF LimitStep
<1>3. CASE BlockStep(r) /\ UNCHANGED <<limites, saleVars, prizeVars>>
  <2>1. CASE Kind[r] = "blockNumbers" /\ Receive(r, BlockCommands, "writing")
               /\ UNCHANGED <<estado, bloqueos>>
    BY <1>3, <2>1 DEF Arrives, CommandsOf
  <2>2. CASE BlockNumbersInsert(r)
    BY <1>3, <2>2 DEF BlockNumbersInsert, Writes, Aborts
  <2>3. CASE Kind[r] = "unblockNumber" /\ Receive(r, UnblockCommands, "writing")
               /\ UNCHANGED <<estado, bloqueos>>
    BY <1>3, <2>3 DEF Arrives, CommandsOf
  <2>4. CASE UnblockNumberDelete(r)
    BY <1>3, <2>4 DEF UnblockNumberDelete, Writes, Aborts
  <2>5. QED
    BY <1>3, <2>1, <2>2, <2>3, <2>4 DEF BlockStep
<1>4. CASE SaleStep(r) /\ UNCHANGED <<estado, limites, bloqueos, prizeVars>>
  <2>1. CASE Kind[r] = "createSale" /\ Receive(r, SaleCommands, "reading") /\ UNCHANGED saleVars
    BY <1>4, <2>1 DEF Arrives, CommandsOf
  <2>2. CASE CreateSaleCheck(r)
    BY <1>4, <2>2 DEF CreateSaleCheck, Writes, Aborts
  <2>3. CASE CreateSaleDetail(r)
    BY <1>4, <2>3 DEF CreateSaleDetail, Writes, Aborts
  <2>4. CASE Kind[r] = "voidSale" /\ Receive(r, VoidCommands, "reading") /\ UNCHANGED saleVars
    BY <1>4, <2>4 DEF Arrives, CommandsOf
  <2>5. CASE VoidSaleCheck(r)
    BY <1>4, <2>5 DEF VoidSaleCheck, Advances, Aborts
  <2>6. CASE VoidSaleUpdate(r)
    BY <1>4, <2>6 DEF VoidSaleUpdate, Writes
  <2>7. QED
    BY <1>4, <2>1, <2>2, <2>3, <2>4, <2>5, <2>6 DEF SaleStep
<1>5. CASE PrizeStep(r) /\ UNCHANGED <<estado, limites, bloqueos, saleVars>>
  <2>1. CASE Kind[r] = "createResult" /\ Receive(r, ResultCommands, "reading")
               /\ UNCHANGED prizeVars
    BY <1>5, <2>1 DEF Arrives, CommandsOf
  <2>2. CASE CreateResultCheck(r)
    BY <1>5, <2>2 DEF CreateResultCheck, Advances, Aborts
  <2>3. CASE CreateResultInsert(r)
    BY <1>5, <2>3 DEF CreateResultInsert, Writes, Aborts
  <2>4. CASE Kind[r] = "payPrize" /\ Receive(r, PaymentCommands, "reading")
               /\ UNCHANGED prizeVars
    BY <1>5, <2>4 DEF Arrives, CommandsOf
  <2>5. CASE PayPrizeCheck(r)
    BY <1>5, <2>5 DEF PayPrizeCheck, Advances, Aborts
  <2>6. CASE PayPrizeInsert(r)
    BY <1>5, <2>6 DEF PayPrizeInsert, Writes, Aborts
  <2>7. QED
    BY <1>5, <2>1, <2>2, <2>3, <2>4, <2>5, <2>6 DEF PrizeStep
<1>6. QED
  BY <1>1, <1>2, <1>3, <1>4, <1>5 DEF Handle

\* A step of the system: a handler's, the answer, the commit, a fault, or none.
LEMMA StepShape ==
  ASSUME [Next]_vars
  PROVE  \/ UNCHANGED vars
         \/ \E r \in Requests :
              \/ Handle(r)
              \/ Respond(r) /\ UNCHANGED tables
              \/ Commit(r)
              \/ Lose(r) /\ UNCHANGED tables
              \/ Aborts(r) /\ UNCHANGED tables
<1>1. CASE UNCHANGED vars
  BY <1>1
<1>2. CASE AllFinished
  BY <1>2 DEF AllFinished
<1>3. ASSUME NEW r \in Requests, Handle(r) \/ Finish(r) \/ Fault(r)
      PROVE  \/ Handle(r)
             \/ Respond(r) /\ UNCHANGED tables
             \/ Commit(r)
             \/ Lose(r) /\ UNCHANGED tables
             \/ Aborts(r) /\ UNCHANGED tables
  <2>1. ASSUME DeadlockVictim(r, Wanted)
        PROVE  Aborts(r)
    BY <2>1 DEF DeadlockVictim, Aborts, Running
  <2>2. QED
    BY <1>3, <2>1 DEF Finish, Fault
<1>4. QED
  BY <1>1, <1>2, <1>3 DEF Next

(***************************************************************************)
(* Locks                                                                   *)
(***************************************************************************)
LEMMA LocksExclusiveKept ==
  ASSUME Typed, LocksExclusive, [Next]_vars
  PROVE  LocksExclusive'
<1> USE DEF Live, Running, Phases, Finished
<1>1. phase \in [Requests -> Phases] /\ DOMAIN held = Requests
  BY DEF Typed
<1>2. CASE UNCHANGED vars
  BY <1>2 DEF vars, txVars, LocksExclusive
<1>3. ASSUME NEW r \in Requests, phase'[r] \in Running \cup {"acked"},
             phase' = [phase EXCEPT ![r] = phase'[r]], held' = held
      PROVE  LocksExclusive'
  BY <1>1, <1>3 DEF LocksExclusive
<1>4. ASSUME NEW r \in Requests,
             phase' = [phase EXCEPT ![r] = phase'[r]], held' = [held EXCEPT ![r] = {}]
      PROVE  LocksExclusive'
  BY <1>1, <1>4 DEF LocksExclusive
<1>5. ASSUME NEW r \in Requests, Writes(r)
      PROVE  LocksExclusive'
  <2>0. PICK p \in Running : \E locks : Available(r, locks) /\ Write(r, locks, p)
    BY <1>5 DEF Writes
  <2>1. PICK locks : Available(r, locks) /\ Write(r, locks, p)
    BY <2>0
  <2>2. \A q \in Requests : held'[q] # {} => Live(q)'
    BY <1>1, <2>1 DEF Write, LocksExclusive
  <2>3. \A q \in Requests \ {r} : held[q] \cap (held[r] \cup locks) = {}
    BY <2>1 DEF Available, LocksExclusive
  <2>4. \A q, w \in Requests : q # w => held'[q] \cap held'[w] = {}
    BY <1>1, <2>1, <2>3 DEF Write, LocksExclusive
  <2>5. QED
    BY <2>2, <2>4 DEF LocksExclusive
<1>6. ASSUME NEW r \in Requests, Handle(r)
      PROVE  LocksExclusive'
  <2>1. CASE Arrives(r)
    BY <1>1, <1>3, <2>1 DEF Arrives, Receive
  <2>2. CASE Advances(r)
    BY <1>1, <1>3, <2>2 DEF Advances, MoveTo
  <2>3. CASE Aborts(r)
    BY <1>1, <1>4, <2>3 DEF Aborts, Rollback
  <2>4. QED
    BY <1>5, <1>6, <2>1, <2>2, <2>3, HandleShape
<1>7. ASSUME NEW r \in Requests, Respond(r)
      PROVE  LocksExclusive'
  BY <1>1, <1>3, <1>7 DEF Respond, MoveTo
<1>8. ASSUME NEW r \in Requests, Commit(r) \/ Lose(r) \/ Aborts(r)
      PROVE  LocksExclusive'
  BY <1>1, <1>4, <1>8 DEF Commit, EndCommitted, Lose, Aborts, Rollback
<1>9. QED
  BY <1>2, <1>6, <1>7, <1>8, StepShape

(***************************************************************************)
(* Types                                                                   *)
(***************************************************************************)
\* An edit leaves a limit a limit.
LEMMA EditedRowType ==
  ASSUME NEW row \in LimitRows, NEW change \in LimitEdits
  PROVE  EditedRow(row, change) \in LimitRows
<1>1. DOMAIN row = {"tenant", "seller", "config", "number", "miles", "from", "until"}
  BY DEF LimitRows
<1>2. \A column \in DOMAIN row :
        EditedRow(row, change)[column] =
          IF column \in DOMAIN change THEN change[column] ELSE row[column]
  BY DEF EditedRow
<1>3. /\ "tenant" \notin DOMAIN change
      /\ "seller" \in DOMAIN change => change["seller"] \in Sellers \cup {None}
      /\ "config" \in DOMAIN change => change["config"] \in Configs \cup {None}
      /\ "number" \in DOMAIN change => change["number"] \in Numbers
      /\ "miles"  \in DOMAIN change => change["miles"] \in Nat
      /\ "from"   \in DOMAIN change => change["from"] \in Dates
      /\ "until"  \in DOMAIN change => change["until"] \in Dates \cup {None}
  BY LimitAssumption
<1>4. EditedRow(row, change) =
        [tenant |-> EditedRow(row, change)["tenant"],
         seller |-> EditedRow(row, change)["seller"],
         config |-> EditedRow(row, change)["config"],
         number |-> EditedRow(row, change)["number"],
         miles  |-> EditedRow(row, change)["miles"],
         from   |-> EditedRow(row, change)["from"],
         until  |-> EditedRow(row, change)["until"]]
  BY <1>1 DEF EditedRow
<1>5. /\ row["tenant"] \in Tenants
      /\ row["seller"] \in Sellers \cup {None}
      /\ row["config"] \in Configs \cup {None}
      /\ row["number"] \in Numbers
      /\ row["miles"] \in Nat
      /\ row["from"] \in Dates
      /\ row["until"] \in Dates \cup {None}
  BY DEF LimitRows
<1>6. /\ EditedRow(row, change)["tenant"] \in Tenants
      /\ EditedRow(row, change)["seller"] \in Sellers \cup {None}
      /\ EditedRow(row, change)["config"] \in Configs \cup {None}
      /\ EditedRow(row, change)["number"] \in Numbers
      /\ EditedRow(row, change)["miles"] \in Nat
      /\ EditedRow(row, change)["from"] \in Dates
      /\ EditedRow(row, change)["until"] \in Dates \cup {None}
  BY <1>1, <1>2, <1>3, <1>5
<1>7. QED
  BY <1>4, <1>6 DEF LimitRows

\* A row that createMany inserts is a limit.
LEMMA OrderedRowType ==
  ASSUME NEW r \in Requests, cmd[r] \in LimitOrders,
         NEW i \in 1..Len(cmd[r].numbers)
  PROVE  OrderedRow(r, i) \in LimitRows
BY LimitAssumption DEF OrderedRow, LimitRows

\* What the commit of a limit request writes are limits, and no limit disappears.
LEMMA LimitCommitType ==
  ASSUME RequestInv, NEW r \in Requests, Commit(r)
  PROVE  /\ limites' \in [LimitIds -> LimitRows \cup {None}]
         /\ \A id \in LimitIds : limites[id] # None => limites'[id] # None
<1>1. phase[r] = "acked" /\ LimitCommit(r)
  BY DEF Commit, EndCommitted
<1>2. cmd[r] \in CommandsOf(Kind[r]) /\ limites \in [LimitIds -> LimitRows \cup {None}]
  BY <1>1 DEF RequestInv, Typed
<1>3. ASSUME NEW id \in LimitIds, Kind[r] = "createLimits", id \in {r} \X (1..done[r])
      PROVE  OrderedRow(r, id[2]) \in LimitRows
  <2>1. cmd[r] \in LimitOrders
    BY <1>2, <1>3 DEF CommandsOf, LimitCommands
  <2>2. done[r] \in Nat /\ done[r] <= Len(cmd[r].numbers) /\ id[2] \in 1..done[r]
    BY <1>1, <1>3 DEF RequestInv, Typed, LimitsWithinCommand, RequestsOf
  <2>3. Len(cmd[r].numbers) \in Nat
    BY <2>1, LimitAssumption
  <2>4. QED
    BY <2>1, <2>2, <2>3, OrderedRowType
<1>4. ASSUME NEW id \in LimitIds, LimitRowLock(id) \in held[r]
      PROVE  NewRow(r) \in LimitRows
  <2>1. Kind[r] = "editLimit" /\ cmd[r].limit = id /\ limites[id] # None
    BY <1>4 DEF RequestInv, LocksFit, Fit
  <2>2. cmd[r].change \in LimitEdits
    BY <1>2, <2>1 DEF CommandsOf, EditCommands
  <2>3. QED
    BY <1>2, <2>1, <2>2, EditedRowType DEF NewRow
<1>5. None \notin LimitRows
  BY LimitAssumption
<1>6. QED
  BY <1>1, <1>2, <1>3, <1>4, <1>5 DEF LimitCommit

\* What the other commits write has the type of its column.
LEMMA OtherCommitTypes ==
  ASSUME RequestInv, NEW r \in Requests, Commit(r)
  PROVE  /\ estado' \in [Shifts -> Estados \cup {"none"}]
         /\ DOMAIN bloqueos' = BlockIds
         /\ venta' \in [SaleIds -> {"none", "ACTIVA", "ANULADA"}] /\ DOMAIN totales' = SaleIds
         /\ anuladaPor' \in [SaleIds -> RequestsOf("voidSale") \cup {None}]
         /\ vendedores' \subseteq Sellers
         /\ resultado' \in [Shifts -> Numbers \cup {None}]
<1>1. /\ phase[r] = "acked"
      /\ ShiftCommit(r)
      /\ BlockCommit(r)
      /\ SaleCommit(r)
      /\ PrizeCommit(r)
  BY DEF Commit, EndCommitted
<1>2. cmd[r] \in CommandsOf(Kind[r])
  BY <1>1 DEF RequestInv, Typed
<1>3. estado' \in [Shifts -> Estados \cup {"none"}]
  <2>1. ASSUME NEW t \in Shifts, ShiftRow(t) \in held[r], Kind[r] # "openShifts"
        PROVE  cmd[r].to \in Estados
    BY <1>2, <2>1 DEF RequestInv, LocksFit, Fit, CommandsOf, MoveCommands
  <2>2. estado \in [Shifts -> Estados \cup {"none"}]
    BY DEF RequestInv, Typed
  <2>3. QED
    BY <1>1, <2>1, <2>2 DEF ShiftCommit, Estados
<1>4. DOMAIN bloqueos' = BlockIds
  BY <1>1 DEF BlockCommit
<1>5. venta' \in [SaleIds -> {"none", "ACTIVA", "ANULADA"}] /\ DOMAIN totales' = SaleIds
  BY <1>1 DEF SaleCommit, RequestInv, Typed
<1>6. anuladaPor' \in [SaleIds -> RequestsOf("voidSale") \cup {None}]
  <2>1. ASSUME NEW v \in SaleIds, SaleRow(v) \in held[r]
        PROVE  r \in RequestsOf("voidSale")
    BY <2>1 DEF RequestInv, LocksFit, Fit, RequestsOf
  <2>2. QED
    BY <1>1, <2>1 DEF SaleCommit, RequestInv, Typed
<1>7. resultado' \in [Shifts -> Numbers \cup {None}]
  <2>1. ASSUME NEW t \in Shifts, ResultKey(t) \in held[r]
        PROVE  cmd[r].number \in Numbers
    BY <1>2, <2>1 DEF RequestInv, LocksFit, Fit, CommandsOf, ResultCommands
  <2>2. QED
    BY <1>1, <2>1 DEF PrizeCommit, RequestInv, Typed
<1>8. vendedores' \subseteq Sellers
  BY <1>1 DEF SaleCommit, RequestInv, Typed
<1>9. QED
  BY <1>3, <1>4, <1>5, <1>6, <1>7, <1>8

LEMMA TypedKept ==
  ASSUME RequestInv, [Next]_vars
  PROVE  Typed'
<1> USE DEF Running, Phases, Finished
<1>1. Typed
  BY DEF RequestInv
<1>2. CASE UNCHANGED vars
  BY <1>1, <1>2 DEF vars, txVars, saleVars, prizeVars, Typed
<1>3. ASSUME NEW r \in Requests, UNCHANGED tables, DOMAIN held' = Requests,
             phase[r] # "idle", NEW p \in Phases \ {"idle"},
             phase' = [phase EXCEPT ![r] = p], cmd' = cmd,
             done' = done \/ done' = [done EXCEPT ![r] = @ + 1]
      PROVE  Typed'
  <2>1. \A q \in Requests : phase'[q] = "idle" <=> phase[q] = "idle"
    BY <1>1, <1>3 DEF Typed
  <2>2. \A q \in Requests :
          IF phase'[q] = "idle" THEN cmd'[q] = None ELSE cmd'[q] \in CommandsOf(Kind[q])
    BY <1>1, <1>3, <2>1 DEF Typed
  <2>3. done' \in [Requests -> Nat]
    BY <1>1, <1>3 DEF Typed
  <2>4. phase' \in [Requests -> Phases]
    BY <1>1, <1>3 DEF Typed
  <2>5. QED
    BY <1>1, <1>3, <2>2, <2>3, <2>4 DEF Typed, tables, saleVars, prizeVars
<1>4. ASSUME NEW r \in Requests, Arrives(r), UNCHANGED tables
      PROVE  Typed'
  <2>1. PICK p \in {"reading", "writing"}, c \in CommandsOf(Kind[r]) :
          /\ phase[r] = "idle"
          /\ phase' = [phase EXCEPT ![r] = p]
          /\ cmd' = [cmd EXCEPT ![r] = c]
          /\ UNCHANGED <<done, held>>
    BY <1>4 DEF Arrives, Receive
  <2>2. \A q \in Requests :
          IF phase'[q] = "idle" THEN cmd'[q] = None ELSE cmd'[q] \in CommandsOf(Kind[q])
    BY <1>1, <2>1 DEF Typed
  <2>3. phase' \in [Requests -> Phases] /\ DOMAIN cmd' = Requests
    BY <1>1, <2>1 DEF Typed
  <2>4. QED
    BY <1>1, <1>4, <2>1, <2>2, <2>3 DEF Typed, tables, saleVars, prizeVars
<1>5. ASSUME NEW r \in Requests, Handle(r)
      PROVE  Typed'
  <2>1. UNCHANGED tables
    BY <1>5, HandleShape
  <2>2. CASE Arrives(r)
    BY <1>4, <2>1, <2>2
  <2>3. CASE Advances(r)
    BY <1>1, <1>3, <2>1, <2>3 DEF Advances, MoveTo, Typed
  <2>4. CASE Aborts(r)
    BY <1>1, <1>3, <2>1, <2>4 DEF Aborts, Rollback, Typed
  <2>5. CASE Writes(r)
    BY <1>1, <1>3, <2>1, <2>5 DEF Writes, Write, Typed
  <2>6. QED
    BY <1>5, <2>2, <2>3, <2>4, <2>5, HandleShape
<1>6. ASSUME NEW r \in Requests, Respond(r), UNCHANGED tables
      PROVE  Typed'
  BY <1>1, <1>3, <1>6 DEF Respond, MoveTo, Typed
<1>7. ASSUME NEW r \in Requests, Lose(r) \/ Aborts(r), UNCHANGED tables
      PROVE  Typed'
  BY <1>1, <1>3, <1>7 DEF Lose, Aborts, Rollback, Typed
<1>8. ASSUME NEW r \in Requests, Commit(r)
      PROVE  Typed'
  <2>1. /\ phase[r] = "acked"
        /\ phase' = [phase EXCEPT ![r] = "committed"]
        /\ held' = [held EXCEPT ![r] = {}]
        /\ UNCHANGED <<cmd, done>>
    BY <1>8 DEF Commit, EndCommitted
  <2>2. phase' \in [Requests -> Phases] /\ DOMAIN held' = Requests
    BY <1>1, <2>1 DEF Typed
  <2>3. \A q \in Requests :
          IF phase'[q] = "idle" THEN cmd'[q] = None ELSE cmd'[q] \in CommandsOf(Kind[q])
    BY <1>1, <2>1 DEF Typed
  <2>4. QED
    BY <1>1, <1>8, <2>1, <2>2, <2>3, LimitCommitType, OtherCommitTypes DEF Typed
<1>9. QED
  BY <1>2, <1>5, <1>6, <1>7, <1>8, StepShape

(***************************************************************************)
(* Which locks a request holds                                             *)
(***************************************************************************)
\* Resources of different tables have different tags.
LEMMA Tags ==
  /\ \A t : ShiftRow(t)[1] = "turno" /\ ResultKey(t)[1] = "resultado"
  /\ \A v : SaleRow(v)[1] = "venta" /\ PaymentKey(v)[1] = "pago"
  /\ \A id : LimitRowLock(id)[1] = "filaLimite" /\ BlockRowLock(id)[1] = "filaBloqueo"
  /\ \A row : BlockKey(row)[1] = "bloqueo"
  /\ \A t, n : AdvisoryLock(t, n)[1] = "candado"
  /\ \A s : SellerKey(s)[1] = "vendedor"
  /\ \A row : \A key \in LimitKeys(row) : key[1] \in {"limite", "abierto"}
BY DEF ShiftRow, ResultKey, SaleRow, PaymentKey, LimitRowLock, BlockRowLock, BlockKey,
       AdvisoryLock, SellerKey, LimitKeys, OverlapKeys, OpenEndedKeys

LEMMA FitUnion ==
  ASSUME NEW r, NEW a, NEW b, Fit(r, a), Fit(r, b)
  PROVE  Fit(r, a \cup b)
BY DEF Fit

\* Whatever a handler's step locks, fits.
LEMMA WritesFit ==
  ASSUME Typed, NEW r \in Requests, Handle(r), ~Arrives(r)
  PROVE  \/ held' = held
         \/ held' = [held EXCEPT ![r] = {}]
         \/ \E locks : held' = [held EXCEPT ![r] = @ \cup locks] /\ Fit(r, locks)
<1>1. CASE ShiftStep(r)
  <2>1. Kind[r] = "openShifts" => Fit(r, {ShiftRow(NextToOpen(r))})
    BY Tags DEF Fit
  <2>2. Kind[r] = "moveShift" => Fit(r, {ShiftRow(cmd[r].shift)})
    <3>1. \A t : ShiftRow(t) = ShiftRow(cmd[r].shift) => t = cmd[r].shift
      BY DEF ShiftRow
    <3>2. QED
      BY <3>1, Tags DEF Fit
  <2>3. QED
    BY <1>1, <2>1, <2>2
    DEF ShiftStep, Arrives, CommandsOf, OpenShiftsRead, OpenShiftsInsert, MoveShiftRead,
        MoveShiftUpdate, Receive, MoveTo, Rollback, Write
<1>2. CASE LimitStep(r)
  <2>1. Fit(r, LimitKeys(NextLimitRow(r)))
    BY Tags DEF Fit
  <2>2. Kind[r] = "editLimit" /\ limites[cmd[r].limit] # None => Fit(r, EditLocks(r))
    <3>1. \A id : LimitRowLock(id) = LimitRowLock(cmd[r].limit) => id = cmd[r].limit
      BY DEF LimitRowLock
    <3>2. \A key \in EditLocks(r) :
            key = LimitRowLock(cmd[r].limit) \/ key[1] \in {"limite", "abierto"}
      BY Tags DEF EditLocks
    <3>3. QED
      BY <3>1, <3>2, Tags DEF Fit
  <2>3. QED
    BY <1>2, <2>1, <2>2
    DEF LimitStep, CreateLimitsInsert, EditLimitUpdate, Receive, Rollback, Write
<1>3. CASE BlockStep(r)
  <2>1. Fit(r, {BlockKey(NextBlock(r))})
    BY Tags DEF Fit
  <2>2. Kind[r] = "unblockNumber" => Fit(r, UnblockLocks(r))
    <3>1. \A id : BlockRowLock(id) = BlockRowLock(cmd[r].block) => id = cmd[r].block
      BY DEF BlockRowLock
    <3>2. \A key \in UnblockLocks(r) : key = BlockRowLock(cmd[r].block) \/ key[1] = "bloqueo"
      BY Tags DEF UnblockLocks
    <3>3. QED
      BY <3>1, <3>2, Tags DEF Fit
  <2>3. QED
    BY <1>3, <2>1, <2>2
    DEF BlockStep, BlockNumbersInsert, UnblockNumberDelete, Receive, Rollback, Write
<1>4. CASE SaleStep(r)
  <2>1. Fit(r, {DetailLock(r)}) /\ Fit(r, SellerLock(r))
    BY Tags DEF Fit, DetailLock, SellerLock
  <2>2. Kind[r] = "voidSale" => Fit(r, {SaleRow(cmd[r].sale)})
    <3>1. \A v : SaleRow(v) = SaleRow(cmd[r].sale) => v = cmd[r].sale
      BY DEF SaleRow
    <3>2. QED
      BY <3>1, Tags DEF Fit
  <2>3. QED
    BY <1>4, <2>1, <2>2
    DEF SaleStep, CreateSaleCheck, CreateSaleDetail, VoidSaleCheck, VoidSaleUpdate,
        Receive, MoveTo, Rollback, Write
<1>5. CASE PrizeStep(r)
  <2>1. Kind[r] = "createResult" => Fit(r, {ResultKey(cmd[r].shift)})
    <3>1. \A t : ResultKey(t) = ResultKey(cmd[r].shift) => t = cmd[r].shift
      BY DEF ResultKey
    <3>2. QED
      BY <3>1, Tags DEF Fit
  <2>2. Kind[r] = "payPrize" => Fit(r, {PaymentKey(cmd[r].sale)})
    <3>1. \A v : PaymentKey(v) = PaymentKey(cmd[r].sale) => v = cmd[r].sale
      BY DEF PaymentKey
    <3>2. QED
      BY <3>1, Tags DEF Fit
  <2>3. QED
    BY <1>5, <2>1, <2>2
    DEF PrizeStep, CreateResultCheck, CreateResultInsert, PayPrizeCheck, PayPrizeInsert,
        Receive, MoveTo, Rollback, Write
<1>6. QED
  BY <1>1, <1>2, <1>3, <1>4, <1>5 DEF Handle

LEMMA LocksFitKept ==
  ASSUME RequestInv, [Next]_vars
  PROVE  LocksFit'
<1>1. Typed /\ LocksFit
  BY DEF RequestInv
<1>2. DOMAIN held = Requests /\ DOMAIN cmd = Requests /\ DOMAIN phase = Requests
  BY <1>1 DEF Typed
<1>3. \A q \in Requests : phase[q] = "idle" => held[q] = {}
  BY DEF RequestInv, LocksExclusive, Live, Running
<1>4. CASE UNCHANGED vars
  BY <1>1, <1>4 DEF vars, txVars, LocksFit, Fit
<1>5. ASSUME NEW r \in Requests, UNCHANGED <<cmd, limites>>,
             \/ held' = held
             \/ held' = [held EXCEPT ![r] = {}]
             \/ \E locks : held' = [held EXCEPT ![r] = @ \cup locks] /\ Fit(r, locks)
      PROVE  LocksFit'
  <2>1. \A q \in Requests : Fit(q, held'[q])
    <3>1. CASE held' = held \/ held' = [held EXCEPT ![r] = {}]
      BY <1>1, <1>2, <3>1 DEF LocksFit, Fit
    <3>2. CASE \E locks : held' = [held EXCEPT ![r] = @ \cup locks] /\ Fit(r, locks)
      BY <1>1, <1>2, <3>2, FitUnion DEF LocksFit
    <3>3. QED
      BY <1>5, <3>1, <3>2
  <2>2. QED
    BY <1>5, <2>1 DEF LocksFit, Fit
<1>6. ASSUME NEW r \in Requests, Handle(r)
      PROVE  LocksFit'
  <2>1. UNCHANGED limites
    BY <1>6, HandleShape DEF tables
  <2>2. CASE Arrives(r)
    <3>1. PICK c : /\ phase[r] = "idle" /\ held' = held /\ cmd' = [cmd EXCEPT ![r] = c]
      BY <2>2 DEF Arrives, Receive
    <3>2. held'[r] = {}
      BY <1>3, <3>1
    <3>3. \A q \in Requests \ {r} : cmd'[q] = cmd[q] /\ held'[q] = held[q]
      BY <1>2, <3>1
    <3>4. QED
      BY <1>1, <2>1, <3>2, <3>3 DEF LocksFit, Fit
  <2>3. CASE ~Arrives(r)
    <3>1. UNCHANGED cmd
      BY <1>6, <2>3, HandleShape DEF Advances, Aborts, Writes, MoveTo, Rollback, Write
    <3>2. QED
      BY <1>1, <1>5, <1>6, <2>1, <2>3, <3>1, WritesFit
  <2>4. QED
    BY <2>2, <2>3
<1>7. ASSUME NEW r \in Requests, Respond(r), UNCHANGED tables
      PROVE  LocksFit'
  BY <1>5, <1>7 DEF Respond, MoveTo, tables
<1>8. ASSUME NEW r \in Requests, Lose(r) \/ Aborts(r), UNCHANGED tables
      PROVE  LocksFit'
  BY <1>5, <1>8 DEF Lose, Aborts, Rollback, tables
<1>9. ASSUME NEW r \in Requests, Commit(r)
      PROVE  LocksFit'
  <2>1. cmd' = cmd /\ held' = [held EXCEPT ![r] = {}]
    BY <1>9 DEF Commit, EndCommitted
  <2>2. \A id \in LimitIds : limites[id] # None => limites'[id] # None
    BY <1>9, LimitCommitType
  <2>3. \A q \in Requests : held'[q] \subseteq held[q]
    BY <1>2, <2>1
  <2>4. QED
    BY <1>1, <2>1, <2>2, <2>3 DEF LocksFit, Fit
<1>10. QED
  BY <1>4, <1>6, <1>7, <1>8, <1>9, StepShape

\* Only the INSERT of a limit counts for a request that creates limits.
LEMMA LimitsCounted ==
  ASSUME Typed, NEW r \in RequestsOf("createLimits"), Handle(r), LimitsWithinCommand
  PROVE  /\ phase'[r] # "idle"
         /\ done'[r] <= Len(cmd'[r].numbers)
         /\ phase'[r] = "writing" => done'[r] < Len(cmd'[r].numbers)
<1>1. r \in Requests /\ Kind[r] = "createLimits"
  BY DEF RequestsOf
<1>2. LimitStep(r)
  BY <1>1 DEF Handle, ShiftStep, BlockStep, SaleStep, PrizeStep
<1>3. /\ DOMAIN phase = Requests /\ DOMAIN cmd = Requests
      /\ done \in [Requests -> Nat]
  BY DEF Typed
<1>4. CASE Receive(r, LimitCommands, "writing")
  <2>1. PICK c \in LimitOrders : cmd' = [cmd EXCEPT ![r] = c]
    BY <1>4 DEF Receive, LimitCommands
  <2>2. Len(c.numbers) \in Nat /\ Len(c.numbers) > 0
    BY LimitAssumption
  <2>3. done'[r] = 0 /\ phase'[r] = "writing" /\ cmd'[r] = c
    BY <1>1, <1>3, <1>4, <2>1 DEF Receive, LimitsWithinCommand
  <2>4. QED
    BY <2>2, <2>3
<1>5. CASE CreateLimitsInsert(r)
  <2>1. cmd[r] \in LimitOrders /\ done[r] < Len(cmd[r].numbers)
    BY <1>1, <1>5 DEF CreateLimitsInsert, Typed, CommandsOf, LimitCommands, LimitsWithinCommand
  <2>2. Len(cmd[r].numbers) \in Nat /\ cmd' = cmd
    BY <1>5, <2>1, LimitAssumption DEF CreateLimitsInsert, Write, Rollback
  <2>3. CASE Rollback(r)
    BY <1>1, <1>3, <2>1, <2>2, <2>3 DEF Rollback
  <2>4. CASE /\ Write(r, LimitKeys(NextLimitRow(r)),
                      IF done[r] + 1 = Len(cmd[r].numbers) THEN "responding" ELSE "writing")
             /\ done' = [done EXCEPT ![r] = @ + 1]
    BY <1>1, <1>3, <2>1, <2>2, <2>4 DEF Write
  <2>5. QED
    BY <1>5, <2>3, <2>4 DEF CreateLimitsInsert
<1>6. QED
  BY <1>1, <1>2, <1>4, <1>5 DEF LimitStep

LEMMA LimitsWithinCommandKept ==
  ASSUME RequestInv, [Next]_vars
  PROVE  LimitsWithinCommand'
<1>1. Typed /\ LimitsWithinCommand
  BY DEF RequestInv
<1>2. DOMAIN phase = Requests /\ DOMAIN cmd = Requests /\ done \in [Requests -> Nat]
  BY <1>1 DEF Typed
<1>3. CASE UNCHANGED vars
  BY <1>1, <1>3 DEF vars, txVars, LimitsWithinCommand
<1>4. ASSUME NEW r \in Requests, Handle(r)
      PROVE  LimitsWithinCommand'
  <2>1. \A q \in Requests \ {r} :
          phase'[q] = phase[q] /\ cmd'[q] = cmd[q] /\ done'[q] = done[q]
    BY <1>2, <1>4, HandleShape
    DEF Arrives, Advances, Aborts, Writes, Receive, MoveTo, Rollback, Write
  <2>2. \A q \in RequestsOf("createLimits") \ {r} :
          /\ phase'[q] = "idle" => done'[q] = 0
          /\ phase'[q] # "idle" => done'[q] <= Len(cmd'[q].numbers)
          /\ phase'[q] = "writing" => done'[q] < Len(cmd'[q].numbers)
    BY <1>1, <2>1 DEF LimitsWithinCommand, RequestsOf
  <2>3. QED
    BY <1>1, <1>4, <2>2, LimitsCounted DEF LimitsWithinCommand
<1>5. ASSUME NEW r \in Requests, Respond(r) \/ Commit(r) \/ Lose(r) \/ Aborts(r)
      PROVE  LimitsWithinCommand'
  <2>1. /\ cmd' = cmd /\ done' = done
        /\ phase[r] # "idle"
        /\ \E p \in {"acked", "committed", "lost", "rolledback"} :
             phase' = [phase EXCEPT ![r] = p]
    BY <1>5 DEF Respond, Commit, EndCommitted, Lose, Aborts, Rollback, MoveTo, Running
  <2>2. QED
    BY <1>1, <1>2, <2>1 DEF LimitsWithinCommand, RequestsOf
<1>6. QED
  BY <1>3, <1>4, <1>5, StepShape

LEMMA RequestInvInit == Init => RequestInv
<1> SUFFICES ASSUME Init
             PROVE  RequestInv
  OBVIOUS
<1> USE DEF Init, TxInit, ShiftInit, LimitInit, BlockInit, SaleInit, PrizeInit
<1>1. Typed
  <2>1. limites \in [LimitIds -> LimitRows \cup {None}]
    BY LimitAssumption
  <2>2. estado \in [Shifts -> Estados \cup {"none"}]
    BY DEF Estados
  <2>3. phase \in [Requests -> Phases] /\ done \in [Requests -> Nat]
    BY DEF Phases
  <2>4. QED
    BY <2>1, <2>2, <2>3, SellerAssumption DEF Typed
<1>2. LocksExclusive
  BY DEF LocksExclusive
<1>3. LocksFit
  BY DEF LocksFit, Fit
<1>4. LimitsWithinCommand
  BY DEF LimitsWithinCommand, RequestsOf
<1>5. QED
  BY <1>1, <1>2, <1>3, <1>4 DEF RequestInv

\* RequestInv is an inductive invariant.
THEOREM RequestsSound == Spec => []RequestInv
<1>1. RequestInv /\ [Next]_vars => RequestInv'
  BY TypedKept, LocksExclusiveKept, LocksFitKept, LimitsWithinCommandKept DEF RequestInv
<1>2. QED
  BY RequestInvInit, <1>1, PTL DEF Spec

(***************************************************************************)
(* Results and prizes                                                      *)
(***************************************************************************)
\* A step of one request leaves the others' transactions alone.
LEMMA OthersUntouched ==
  ASSUME Typed, NEW r \in Requests, NEW q \in Requests \ {r},
         Handle(r) \/ Respond(r) \/ Commit(r) \/ Lose(r) \/ Aborts(r)
  PROVE  phase'[q] = phase[q] /\ cmd'[q] = cmd[q] /\ held'[q] = held[q]
<1>1. DOMAIN phase = Requests /\ DOMAIN cmd = Requests /\ DOMAIN held = Requests
  BY DEF Typed
<1>2. CASE Handle(r)
  BY <1>1, <1>2, HandleShape
  DEF Arrives, Advances, Aborts, Writes, Receive, MoveTo, Rollback, Write
<1>3. CASE Respond(r) \/ Commit(r) \/ Lose(r) \/ Aborts(r)
  BY <1>1, <1>3 DEF Respond, MoveTo, Commit, EndCommitted, Lose, Aborts, Rollback
<1>4. QED
  BY <1>2, <1>3

\* What has committed is settled.
LEMMA CommittedStays ==
  ASSUME Typed, NEW q \in Requests, phase[q] = "committed", [Next]_vars
  PROVE  phase'[q] = "committed" /\ cmd'[q] = cmd[q]
<1>1. ASSUME NEW r \in Requests,
             Handle(r) \/ Respond(r) \/ Commit(r) \/ Lose(r) \/ Aborts(r)
      PROVE  phase'[q] = "committed" /\ cmd'[q] = cmd[q]
  <2>1. r # q
    BY <1>1, HandleShape
    DEF Arrives, Advances, Aborts, Writes, Receive, Respond, Commit, EndCommitted, Lose, Running
  <2>2. QED
    BY <1>1, <2>1, OthersUntouched
<1>2. QED
  BY <1>1, StepShape DEF vars, txVars

\* Only a request that has been answered and commits writes a table.
LEMMA TablesWritten ==
  ASSUME [Next]_vars
  PROVE  UNCHANGED tables \/ \E r \in Requests : Commit(r)
BY StepShape, HandleShape DEF tables, vars

LEMMA OpeningStep ==
  ASSUME Typed, OpeningsPending, NEW q \in RequestsOf("openShifts"), Handle(q),
         NEW t \in Shifts, ShiftRow(t) \in held'[q]
  PROVE  estado'[t] = "none"
<1>1. q \in Requests /\ Kind[q] = "openShifts" /\ DOMAIN held = Requests
  BY DEF RequestsOf, Typed
<1>2. ShiftStep(q) /\ estado' = estado
  BY <1>1, HandleShape DEF Handle, LimitStep, BlockStep, SaleStep, PrizeStep, tables
<1>3. CASE ShiftRow(t) \in held[q]
  BY <1>2, <1>3 DEF OpeningsPending
<1>4. CASE ShiftRow(t) \notin held[q]
  <2>1. OpenShiftsInsert(q) /\ held' = [held EXCEPT ![q] = @ \cup {ShiftRow(NextToOpen(q))}]
    BY <1>1, <1>2, <1>4
    DEF ShiftStep, OpenShiftsRead, OpenShiftsInsert, Receive, MoveTo, Rollback, Write
  <2>2. estado[NextToOpen(q)] = "none"
    BY <1>1, <1>4, <2>1 DEF OpenShiftsInsert, Rollback
  <2>3. ShiftRow(t) = ShiftRow(NextToOpen(q))
    BY <1>1, <1>4, <2>1
  <2>4. QED
    BY <1>2, <2>2, <2>3 DEF ShiftRow
<1>5. QED
  BY <1>3, <1>4

LEMMA OpeningsPendingKept ==
  ASSUME RequestInv, OpeningsPending, [Next]_vars
  PROVE  OpeningsPending'
<1>1. Typed /\ LocksExclusive /\ DOMAIN held = Requests
  BY DEF RequestInv, Typed
<1>2. SUFFICES ASSUME NEW q \in RequestsOf("openShifts"), NEW t \in Shifts,
                      ShiftRow(t) \in held'[q]
               PROVE  estado'[t] = "none"
  BY DEF OpeningsPending
<1>3. q \in Requests
  BY DEF RequestsOf
<1>4. CASE UNCHANGED vars
  BY <1>2, <1>4 DEF vars, txVars, OpeningsPending
<1>5. ASSUME NEW r \in Requests \ {q},
             Handle(r) \/ Respond(r) \/ Commit(r) \/ Lose(r) \/ Aborts(r),
             UNCHANGED tables \/ Commit(r)
      PROVE  estado'[t] = "none"
  <2>1. ShiftRow(t) \in held[q] /\ estado[t] = "none"
    BY <1>1, <1>2, <1>3, <1>5, OthersUntouched DEF OpeningsPending
  <2>2. ShiftRow(t) \notin held[r]
    BY <1>1, <1>3, <2>1 DEF LocksExclusive
  <2>3. QED
    BY <1>5, <2>1, <2>2 DEF tables, Commit, ShiftCommit
<1>6. CASE Handle(q)
  BY <1>1, <1>2, <1>6, OpeningStep
<1>7. CASE Respond(q) /\ UNCHANGED tables
  BY <1>2, <1>7 DEF Respond, MoveTo, tables, OpeningsPending
<1>8. ASSUME Commit(q) \/ Lose(q) \/ Aborts(q)
      PROVE  FALSE
  BY <1>1, <1>2, <1>3, <1>8 DEF Commit, EndCommitted, Lose, Aborts, Rollback
<1>9. QED
  BY <1>4, <1>5, <1>6, <1>7, <1>8, StepShape, HandleShape

\* The unique key (fecha, config_id) makes opening safe: whatever was committed
\* before an open or auto-generate request commits, it changes no shift.
THEOREM OpeningChangesNothing == Spec => OpeningOnlyAdds
<1> DEFINE Act == \A r \in RequestsOf("openShifts"), t \in Shifts :
             (phase[r] = "acked" /\ phase'[r] = "committed" /\ estado[t] # "none")
               => estado'[t] = estado[t]
<1>1. Init => OpeningsPending
  BY DEF Init, TxInit, OpeningsPending, RequestsOf
<1>2. RequestInv /\ OpeningsPending /\ [Next]_vars => OpeningsPending'
  BY OpeningsPendingKept
<1>3. ASSUME RequestInv, OpeningsPending, [Next]_vars
      PROVE  [Act]_vars
  <2>1. CASE UNCHANGED tables
    BY <2>1 DEF tables
  <2>2. ASSUME NEW r \in Requests, Commit(r)
        PROVE  Act
    <3>1. SUFFICES ASSUME NEW q \in RequestsOf("openShifts"), NEW t \in Shifts,
                          phase[q] = "acked", phase'[q] = "committed", estado[t] # "none"
                   PROVE  estado'[t] = estado[t]
      OBVIOUS
    <3>2. q = r
      BY <1>3, <2>2, <3>1 DEF Commit, EndCommitted, RequestInv, Typed, RequestsOf
    <3>3. ShiftRow(t) \notin held[r]
      BY <1>3, <3>1, <3>2 DEF OpeningsPending
    <3>4. QED
      BY <2>2, <3>3 DEF Commit, ShiftCommit
  <2>3. QED
    BY <1>3, <2>1, <2>2, TablesWritten
<1>4. QED
  BY <1>1, <1>2, <1>3, RequestsSound, PTL DEF Spec, OpeningOnlyAdds

LEMMA ResultsStay ==
  ASSUME RequestInv, ResultsPending, [Next]_vars, NEW t \in Shifts, resultado[t] # None
  PROVE  resultado'[t] = resultado[t]
<1>1. CASE UNCHANGED tables
  BY <1>1 DEF tables, prizeVars
<1>2. ASSUME NEW r \in Requests, Commit(r)
      PROVE  resultado'[t] = resultado[t]
  <2>1. phase[r] = "acked" /\ PrizeCommit(r)
    BY <1>2 DEF Commit, EndCommitted
  <2>2. ResultKey(t) \notin held[r]
    <3>1. SUFFICES ASSUME ResultKey(t) \in held[r]
                   PROVE  FALSE
      OBVIOUS
    <3>2. Kind[r] = "createResult" /\ cmd[r].shift = t
      BY <3>1 DEF RequestInv, LocksFit, Fit
    <3>3. QED
      BY <2>1, <3>2 DEF ResultsPending, RequestsOf
  <2>3. QED
    BY <2>1, <2>2 DEF PrizeCommit
<1>3. QED
  BY <1>1, <1>2, TablesWritten

LEMMA SalesStay ==
  ASSUME RequestInv, SalesCommitted, [Next]_vars, NEW v \in SaleIds, venta[v] # "none"
  PROVE  venta'[v] # "none" /\ cmd'[v] = cmd[v] /\ phase'[v] = "committed"
<1>1. v \in Requests /\ phase[v] = "committed" /\ Typed
  BY DEF SalesCommitted, SaleIds, RequestsOf, RequestInv
<1>2. venta'[v] # "none"
  <2>1. CASE UNCHANGED tables
    BY <2>1 DEF tables, saleVars
  <2>2. ASSUME NEW r \in Requests, Commit(r)
        PROVE  venta'[v] # "none"
    BY <2>2 DEF Commit, SaleCommit
  <2>3. QED
    BY <2>1, <2>2, TablesWritten
<1>3. ASSUME NEW r \in Requests,
             Handle(r) \/ Respond(r) \/ Commit(r) \/ Lose(r) \/ Aborts(r)
      PROVE  cmd'[v] = cmd[v] /\ phase'[v] = "committed"
  <2>1. r # v
    BY <1>1, <1>3, HandleShape
    DEF Arrives, Advances, Aborts, Writes, Receive, Respond, Commit, EndCommitted, Lose, Running
  <2>2. QED
    BY <1>1, <1>3, <2>1, OthersUntouched
<1>4. QED
  BY <1>1, <1>2, <1>3, StepShape DEF vars, txVars

\* A won prize stays won.
LEMMA WonStays ==
  ASSUME RequestInv, SalesCommitted, ResultsPending, [Next]_vars,
         NEW v \in SaleIds, NEW t \in Shifts, Won(v, t)
  PROVE  /\ venta'[v] # "none"
         /\ cmd'[v].shift = t
         /\ resultado'[t] # None
         /\ AmountOf(cmd'[v].items, resultado'[t]) > 0
         /\ AmountOf(cmd'[v].items, resultado'[t]) = WinningAmount(v, t)
BY SalesStay, ResultsStay DEF Won, WinningAmount

LEMMA SalesCommittedKept ==
  ASSUME RequestInv, SalesCommitted, VoidsPending, [Next]_vars
  PROVE  SalesCommitted'
<1>1. SUFFICES ASSUME NEW v \in SaleIds, venta[v] = "none", venta'[v] # "none"
               PROVE  phase'[v] = "committed"
  BY SalesStay DEF SalesCommitted
<1>2. PICK r \in Requests : Commit(r)
  BY <1>1, TablesWritten DEF tables, saleVars
<1>3. phase[r] = "acked" /\ SaleCommit(r) /\ phase' = [phase EXCEPT ![r] = "committed"]
  BY <1>2 DEF Commit, EndCommitted
<1>4. SaleRow(v) \notin held[r]
  <2>1. SUFFICES ASSUME SaleRow(v) \in held[r]
                 PROVE  FALSE
    OBVIOUS
  <2>2. Kind[r] = "voidSale" /\ cmd[r].sale = v
    BY <2>1 DEF RequestInv, LocksFit, Fit
  <2>3. QED
    BY <1>1, <1>3, <2>2 DEF VoidsPending, RequestsOf
<1>5. v = r
  BY <1>1, <1>3, <1>4 DEF SaleCommit
<1>6. QED
  BY <1>3, <1>5 DEF RequestInv, Typed

\* The phases a request of the given kind can step to.
LEMMA VoidStep ==
  ASSUME Typed, VoidsPending, NEW a \in RequestsOf("voidSale"), Handle(a),
         phase'[a] \in {"writing", "responding", "acked"}
  PROVE  venta[cmd'[a].sale] # "none"
<1>1. a \in Requests /\ Kind[a] = "voidSale" /\ DOMAIN phase = Requests
  BY DEF RequestsOf, Typed
<1>2. SaleStep(a)
  BY <1>1 DEF Handle, ShiftStep, LimitStep, BlockStep, PrizeStep
<1>3. CASE Receive(a, VoidCommands, "reading")
  BY <1>1, <1>3 DEF Receive
<1>4. CASE VoidSaleCheck(a)
  BY <1>1, <1>4 DEF VoidSaleCheck, MoveTo, Rollback
<1>5. CASE VoidSaleUpdate(a)
  BY <1>1, <1>5 DEF VoidSaleUpdate, Write, VoidsPending
<1>6. QED
  BY <1>1, <1>2, <1>3, <1>4, <1>5 DEF SaleStep

LEMMA VoidsPendingKept ==
  ASSUME RequestInv, SalesCommitted, VoidsPending, [Next]_vars
  PROVE  VoidsPending'
<1>1. Typed /\ DOMAIN phase = Requests
  BY DEF RequestInv, Typed
<1>2. SUFFICES ASSUME NEW a \in RequestsOf("voidSale"),
                      phase'[a] \in {"writing", "responding", "acked"}
               PROVE  venta'[cmd'[a].sale] # "none"
  BY DEF VoidsPending
<1>3. a \in Requests /\ Kind[a] = "voidSale"
  BY DEF RequestsOf
<1>4. venta[cmd'[a].sale] # "none"
  <2>1. CASE UNCHANGED vars
    BY <1>2, <2>1 DEF vars, txVars, VoidsPending
  <2>2. ASSUME NEW r \in Requests \ {a},
               Handle(r) \/ Respond(r) \/ Commit(r) \/ Lose(r) \/ Aborts(r)
        PROVE  venta[cmd'[a].sale] # "none"
    BY <1>1, <1>2, <1>3, <2>2, OthersUntouched DEF VoidsPending
  <2>3. CASE Handle(a)
    BY <1>1, <1>2, <2>3, VoidStep
  <2>4. CASE Respond(a)
    BY <1>1, <1>2, <1>3, <2>4 DEF Respond, MoveTo, VoidsPending
  <2>5. ASSUME Commit(a) \/ Lose(a) \/ Aborts(a)
        PROVE  FALSE
    BY <1>1, <1>2, <1>3, <2>5 DEF Commit, EndCommitted, Lose, Aborts, Rollback
  <2>6. QED
    BY <2>1, <2>2, <2>3, <2>4, <2>5, StepShape
<1>5. cmd'[a].sale \in SaleIds
  <2>1. Typed'
    BY TypedKept
  <2>2. cmd'[a] \in CommandsOf(Kind[a])
    BY <1>2, <1>3, <2>1 DEF Typed
  <2>3. QED
    BY <1>3, <2>2 DEF CommandsOf, VoidCommands
<1>6. QED
  BY <1>4, <1>5, SalesStay

LEMMA ResultStep ==
  ASSUME Typed, NEW r \in RequestsOf("createResult"), Handle(r),
         phase'[r] \in {"responding", "acked"}
  PROVE  ResultKey(cmd'[r].shift) \in held'[r] /\ resultado'[cmd'[r].shift] = None
<1>1. /\ r \in Requests /\ Kind[r] = "createResult"
      /\ DOMAIN phase = Requests /\ DOMAIN held = Requests
  BY DEF RequestsOf, Typed
<1>2. PrizeStep(r)
  BY <1>1 DEF Handle, ShiftStep, LimitStep, BlockStep, SaleStep
<1>3. CASE Receive(r, ResultCommands, "reading")
  BY <1>1, <1>3 DEF Receive
<1>4. CASE CreateResultCheck(r)
  BY <1>1, <1>4 DEF CreateResultCheck, MoveTo, Rollback
<1>5. CASE CreateResultInsert(r)
  BY <1>1, <1>5 DEF CreateResultInsert, Write, Rollback, prizeVars
<1>6. QED
  BY <1>1, <1>2, <1>3, <1>4, <1>5 DEF PrizeStep

LEMMA ResultsPendingKept ==
  ASSUME RequestInv, ResultsPending, [Next]_vars
  PROVE  ResultsPending'
<1>1. Typed /\ LocksExclusive /\ DOMAIN phase = Requests
  BY DEF RequestInv, Typed
<1>2. SUFFICES ASSUME NEW q \in RequestsOf("createResult"),
                      phase'[q] \in {"responding", "acked"}
               PROVE  ResultKey(cmd'[q].shift) \in held'[q] /\ resultado'[cmd'[q].shift] = None
  BY DEF ResultsPending
<1>3. q \in Requests /\ Kind[q] = "createResult"
  BY DEF RequestsOf
<1>4. CASE UNCHANGED vars
  BY <1>2, <1>4 DEF vars, txVars, prizeVars, ResultsPending
<1>5. ASSUME NEW r \in Requests \ {q},
             Handle(r) \/ Respond(r) \/ Commit(r) \/ Lose(r) \/ Aborts(r),
             UNCHANGED tables \/ Commit(r)
      PROVE  ResultKey(cmd'[q].shift) \in held'[q] /\ resultado'[cmd'[q].shift] = None
  <2>1. /\ ResultKey(cmd[q].shift) \in held[q] /\ resultado[cmd[q].shift] = None
        /\ cmd'[q] = cmd[q] /\ held'[q] = held[q]
    BY <1>1, <1>2, <1>3, <1>5, OthersUntouched DEF ResultsPending
  <2>2. CASE UNCHANGED tables
    BY <2>1, <2>2 DEF tables, prizeVars
  <2>3. CASE Commit(r)
    <3>1. ResultKey(cmd[q].shift) \notin held[r]
      BY <1>1, <1>3, <2>1 DEF LocksExclusive
    <3>2. cmd[q].shift \in Shifts
      BY <1>1, <1>3, <2>1, <1>2, <1>5, OthersUntouched
      DEF Typed, CommandsOf, ResultCommands
    <3>3. QED
      BY <2>1, <2>3, <3>1, <3>2 DEF Commit, PrizeCommit
  <2>4. QED
    BY <1>5, <2>2, <2>3
<1>6. CASE Handle(q)
  BY <1>1, <1>2, <1>6, ResultStep
<1>7. CASE Respond(q) /\ UNCHANGED tables
  BY <1>1, <1>2, <1>3, <1>7 DEF Respond, MoveTo, tables, prizeVars, ResultsPending
<1>8. ASSUME Commit(q) \/ Lose(q) \/ Aborts(q)
      PROVE  FALSE
  BY <1>1, <1>2, <1>3, <1>8 DEF Commit, EndCommitted, Lose, Aborts, Rollback
<1>9. QED
  BY <1>4, <1>5, <1>6, <1>7, <1>8, StepShape, HandleShape

LEMMA PaymentStep ==
  ASSUME Typed, PaymentsPending, NEW p \in RequestsOf("payPrize"), Handle(p),
         phase'[p] \in {"writing", "responding", "acked"}
  PROVE  /\ Won(cmd'[p].sale, cmd'[p].result)
         /\ phase'[p] # "writing" =>
              PaymentKey(cmd'[p].sale) \in held'[p] /\ pago'[cmd'[p].sale] = None
<1>1. /\ p \in Requests /\ Kind[p] = "payPrize"
      /\ DOMAIN phase = Requests /\ DOMAIN held = Requests
  BY DEF RequestsOf, Typed
<1>2. PrizeStep(p)
  BY <1>1 DEF Handle, ShiftStep, LimitStep, BlockStep, SaleStep
<1>3. CASE Receive(p, PaymentCommands, "reading")
  BY <1>1, <1>3 DEF Receive
<1>4. CASE PayPrizeCheck(p)
  <2>1. Payable(p) /\ cmd' = cmd /\ phase'[p] = "writing"
    BY <1>1, <1>4 DEF PayPrizeCheck, MoveTo, Rollback
  <2>2. QED
    BY <2>1 DEF Payable, Won
<1>5. CASE PayPrizeInsert(p)
  BY <1>1, <1>5 DEF PayPrizeInsert, Write, Rollback, prizeVars, PaymentsPending
<1>6. QED
  BY <1>1, <1>2, <1>3, <1>4, <1>5 DEF PrizeStep

\* The command of a payment names a sale and a shift.
LEMMA PaymentCommandType ==
  ASSUME Typed, NEW p \in RequestsOf("payPrize"), phase[p] # "idle"
  PROVE  cmd[p].sale \in SaleIds /\ cmd[p].result \in Shifts
BY DEF Typed, CommandsOf, PaymentCommands, RequestsOf

LEMMA PaymentsPendingKept ==
  ASSUME RequestInv, PrizeInv, [Next]_vars
  PROVE  PaymentsPending'
<1>1. /\ Typed /\ LocksExclusive /\ DOMAIN phase = Requests
      /\ SalesCommitted /\ ResultsPending /\ PaymentsPending
  BY DEF RequestInv, Typed, PrizeInv
<1>2. SUFFICES ASSUME NEW p \in RequestsOf("payPrize"),
                      phase'[p] \in {"writing", "responding", "acked"}
               PROVE  /\ Won(cmd[p].sale, cmd[p].result)'
                      /\ phase'[p] # "writing" =>
                           PaymentKey(cmd'[p].sale) \in held'[p] /\ pago'[cmd'[p].sale] = None
  BY DEF PaymentsPending
<1>3. p \in Requests /\ Kind[p] = "payPrize"
  BY DEF RequestsOf
<1>4. /\ Won(cmd'[p].sale, cmd'[p].result)
      /\ phase'[p] # "writing" =>
           PaymentKey(cmd'[p].sale) \in held'[p] /\ pago'[cmd'[p].sale] = None
  <2>1. CASE UNCHANGED vars
    BY <1>1, <1>2, <2>1 DEF vars, txVars, prizeVars, PaymentsPending
  <2>2. ASSUME NEW r \in Requests \ {p},
               Handle(r) \/ Respond(r) \/ Commit(r) \/ Lose(r) \/ Aborts(r),
               UNCHANGED tables \/ Commit(r)
        PROVE  /\ Won(cmd'[p].sale, cmd'[p].result)
               /\ phase'[p] # "writing" =>
                    PaymentKey(cmd'[p].sale) \in held'[p] /\ pago'[cmd'[p].sale] = None
    <3>1. phase'[p] = phase[p] /\ cmd'[p] = cmd[p] /\ held'[p] = held[p]
      BY <1>1, <1>3, <2>2, OthersUntouched
    <3>2. /\ Won(cmd[p].sale, cmd[p].result)
          /\ phase[p] # "writing" =>
               PaymentKey(cmd[p].sale) \in held[p] /\ pago[cmd[p].sale] = None
      BY <1>1, <1>2, <3>1 DEF PaymentsPending
    <3>3. CASE UNCHANGED tables
      BY <3>1, <3>2, <3>3 DEF tables, prizeVars
    <3>4. ASSUME Commit(r), phase[p] # "writing"
          PROVE  pago'[cmd[p].sale] = None
      <4>1. PaymentKey(cmd[p].sale) \notin held[r]
        BY <1>1, <1>3, <3>2, <3>4 DEF LocksExclusive
      <4>2. cmd[p].sale \in SaleIds
        BY <1>1, <1>2, <3>1, PaymentCommandType
      <4>3. QED
        BY <3>2, <3>4, <4>1, <4>2 DEF Commit, PrizeCommit
    <3>5. QED
      BY <2>2, <3>1, <3>2, <3>3, <3>4
  <2>3. CASE Handle(p)
    BY <1>1, <1>2, <2>3, PaymentStep
  <2>4. CASE Respond(p) /\ UNCHANGED tables
    BY <1>1, <1>2, <1>3, <2>4 DEF Respond, MoveTo, tables, prizeVars, PaymentsPending
  <2>5. ASSUME Commit(p) \/ Lose(p) \/ Aborts(p)
        PROVE  FALSE
    BY <1>1, <1>2, <1>3, <2>5 DEF Commit, EndCommitted, Lose, Aborts, Rollback
  <2>6. QED
    BY <2>1, <2>2, <2>3, <2>4, <2>5, StepShape, HandleShape
<1>5. cmd'[p].sale \in SaleIds /\ cmd'[p].result \in Shifts
  <2>1. Typed'
    BY TypedKept
  <2>2. cmd'[p] \in CommandsOf(Kind[p])
    BY <1>2, <1>3, <2>1 DEF Typed
  <2>3. QED
    BY <1>3, <2>2 DEF CommandsOf, PaymentCommands
<1>6. cmd'[cmd'[p].sale] = cmd[cmd'[p].sale]
  BY <1>1, <1>4, <1>5, SalesStay DEF Won
<1>7. Won(cmd[p].sale, cmd[p].result)'
  BY <1>1, <1>4, <1>5, WonStays DEF Won, WinningAmount
<1>8. QED
  BY <1>4, <1>7

(***************************************************************************)
(* What a basket has of a number                                           *)
(***************************************************************************)
Miles(items, rows) == MapThenSumSet(LAMBDA i : items[i].miles, rows)

LEMMA MilesIsSum ==
  ASSUME NEW items, NEW rows, IsFiniteSet(rows)
  PROVE  Miles(items, rows) = SumOf([i \in rows |-> items[i].miles], rows)
<1> DEFINE f == [i \in rows |-> items[i].miles]
           Fold(h) == h = [s \in SUBSET rows |->
             IF s = {} THEN 0 ELSE LET i == CHOOSE i \in s : TRUE IN items[i].miles + h[s \ {i}]]
           iter == CHOOSE h : Fold(h)
<1>1. \A s \in SUBSET rows : s # {} =>
        LET i == CHOOSE i \in s : TRUE IN f[i] = items[i].miles
  OBVIOUS
<1>2. \A h : Fold(h) <=> IsSum(h, f, rows)
  <2> HIDE DEF f
  <2>1. QED  BY <1>1 DEF IsSum
<1>3. \E h : IsSum(h, f, rows)
  <2> HIDE DEF f
  <2>1. QED  BY SumExists
<1>4. Miles(items, rows) = iter[rows]
  BY DEF Miles, MapThenSumSet, MapThenFoldSet
<1> HIDE DEF Fold
<1>5. Fold(iter)
  BY <1>2, <1>3
<1> HIDE DEF iter
<1>6. IsSum(iter, f, rows)
  <2> HIDE DEF f
  <2>1. QED  BY <1>2, <1>5
<1>7. SumOf(f, rows) = iter[rows]
  <2> HIDE DEF f
  <2>1. QED  BY <1>6, SumIs
<1>8. QED  BY <1>4, <1>7

LEMMA BasketItems ==
  ASSUME NEW items \in Baskets
  PROVE  /\ DOMAIN items = 1..Len(items) /\ Len(items) \in Nat \ {0}
         /\ \A i \in DOMAIN items : items[i] \in [number : Numbers, miles : Nat]
<1>1. items \in Seq([number : Numbers, miles : Nat]) /\ items # <<>>
  BY BasketAssumption
<1>2. QED  BY <1>1, ElementOfSeq, LenProperties, EmptySeq

\* A basket has one item of a number, and a miles for it.
LEMMA AmountOfItem ==
  ASSUME NEW items \in Baskets, NEW i \in DOMAIN items
  PROVE  AmountOf(items, items[i].number) = items[i].miles /\ items[i].miles \in Nat
<1>1. items[i] \in [number : Numbers, miles : Nat]
  BY BasketItems
<1>2. {j \in DOMAIN items : items[j].number = items[i].number} = {i}
  BY BasketAssumption
<1>3. AmountOf(items, items[i].number) = Miles(items, {i})
  <2>1. AmountOf(items, items[i].number)
          = Miles(items, {j \in DOMAIN items : items[j].number = items[i].number})
    BY DEF AmountOf, Miles
  <2>2. QED  BY <1>2, <2>1
<1> DEFINE f == [j \in {i} |-> items[j].miles]
<1>4. IsFiniteSet({i}) /\ IsFiniteSet({})
  BY FS_Singleton, FS_EmptySet
<1>5. f[i] = items[i].miles /\ f[i] \in Nat
  BY <1>1
<1>6. Miles(items, {i}) = SumOf(f, {i})
  BY <1>4, MilesIsSum
<1> HIDE DEF f
<1>7. SumOf(f, {} \cup {i}) = SumOf(f, {}) + f[i]
  BY <1>4, <1>5, SumAdd
<1>8. SumOf(f, {}) = 0 /\ {} \cup {i} = {i}
  BY SumOfEmpty
<1>9. QED  BY <1>3, <1>5, <1>6, <1>7, <1>8

LEMMA AmountOfOthers ==
  ASSUME NEW items, NEW n, \A i \in DOMAIN items : items[i].number # n
  PROVE  AmountOf(items, n) = 0
<1>1. {i \in DOMAIN items : items[i].number = n} = {}
  OBVIOUS
<1>2. AmountOf(items, n) = Miles(items, {})
  BY <1>1 DEF AmountOf, Miles
<1>3. Miles(items, {}) = SumOf([i \in {} |-> items[i].miles], {})
  BY FS_EmptySet, MilesIsSum
<1>4. QED  BY <1>2, <1>3, SumOfEmpty

LEMMA AmountType ==
  ASSUME NEW items \in Baskets, NEW n
  PROVE  AmountOf(items, n) \in Nat
<1>1. CASE \E i \in DOMAIN items : items[i].number = n
  BY <1>1, AmountOfItem
<1>2. CASE \A i \in DOMAIN items : items[i].number # n
  BY <1>2, AmountOfOthers
<1>3. QED  BY <1>1, <1>2

\* What a commit adds to pagos_premios: the payment of the committing request,
\* for a prize that is won.
LEMMA PaymentCommitted ==
  ASSUME RequestInv, PrizeInv, NEW r \in Requests, Commit(r), NEW v \in SaleIds,
         PaymentKey(v) \in held[r]
  PROVE  /\ r \in RequestsOf("payPrize") /\ phase[r] = "acked" /\ cmd[r].sale = v
         /\ cmd[r].result \in Shifts /\ Won(v, cmd[r].result) /\ pago[v] = None
         /\ pago'[v] = [by |-> r, result |-> cmd[r].result,
                        miles |-> WinningAmount(v, cmd[r].result)]
         /\ pago'[v] \in Payments
<1>1. phase[r] = "acked" /\ PrizeCommit(r)
  BY DEF Commit, EndCommitted
<1>2. r \in RequestsOf("payPrize") /\ cmd[r].sale = v
  BY DEF RequestInv, LocksFit, Fit, RequestsOf
<1>3. cmd[r].result \in Shifts
  BY <1>1, <1>2, PaymentCommandType DEF RequestInv
<1>4. Won(v, cmd[r].result) /\ pago[v] = None
  BY <1>1, <1>2 DEF PrizeInv, PaymentsPending
<1>5. pago'[v] = [by |-> r, result |-> cmd[r].result, miles |-> WinningAmount(v, cmd[r].result)]
  BY <1>1 DEF PrizeCommit
<1>6. WinningAmount(v, cmd[r].result) \in Nat
  <2>1. v \in Requests /\ Kind[v] = "createSale" /\ phase[v] = "committed"
    BY <1>4 DEF SaleIds, RequestsOf, PrizeInv, SalesCommitted, Won
  <2>2. cmd[v].items \in Baskets
    BY <2>1 DEF RequestInv, Typed, CommandsOf, SaleCommands
  <2>3. QED
    BY <2>2, AmountType DEF WinningAmount
<1>7. QED
  BY <1>1, <1>2, <1>3, <1>4, <1>5, <1>6 DEF Payments

LEMMA PaymentTypeKept ==
  ASSUME RequestInv, PrizeInv, [Next]_vars
  PROVE  pago' \in [SaleIds -> Payments \cup {None}]
<1>1. pago \in [SaleIds -> Payments \cup {None}]
  BY DEF PrizeInv
<1>2. CASE UNCHANGED tables
  BY <1>1, <1>2 DEF tables, prizeVars
<1>3. ASSUME NEW r \in Requests, Commit(r)
      PROVE  pago' \in [SaleIds -> Payments \cup {None}]
  <2>1. PrizeCommit(r)
    BY <1>3 DEF Commit
  <2>2. \A v \in SaleIds : pago'[v] \in Payments \cup {None}
    <3>1. TAKE v \in SaleIds
    <3>2. CASE PaymentKey(v) \in held[r]
      BY <1>3, <3>2, PaymentCommitted
    <3>3. CASE PaymentKey(v) \notin held[r]
      BY <1>1, <2>1, <3>3 DEF PrizeCommit
    <3>4. QED
      BY <3>2, <3>3
  <2>3. QED
    BY <2>1, <2>2 DEF PrizeCommit
<1>4. QED
  BY <1>2, <1>3, TablesWritten

LEMMA PaymentsAreWinningsKept ==
  ASSUME RequestInv, PrizeInv, [Next]_vars
  PROVE  PaymentsAreWinnings'
<1>1. SalesCommitted /\ ResultsPending /\ PaymentsAreWinnings
      /\ pago \in [SaleIds -> Payments \cup {None}]
  BY DEF PrizeInv
<1>2. ASSUME NEW v \in SaleIds, pago'[v] # None
      PROVE  /\ Won(v, pago'[v].result)
             /\ pago'[v].result \in Shifts
             /\ pago'[v].miles = WinningAmount(v, pago'[v].result)
  <2>1. CASE pago'[v] = pago[v]
    <3>1. pago[v] # None /\ pago[v] \in Payments
      BY <1>1, <1>2, <2>1
    <3>2. pago[v].result \in Shifts
      BY <3>1 DEF Payments
    <3>3. QED
      BY <1>1, <2>1, <3>1, <3>2 DEF PaymentsAreWinnings, Won
  <2>2. ASSUME NEW r \in Requests, Commit(r), PaymentKey(v) \in held[r]
        PROVE  /\ Won(v, pago'[v].result)
               /\ pago'[v].result \in Shifts
               /\ pago'[v].miles = WinningAmount(v, pago'[v].result)
    <3>1. /\ cmd[r].result \in Shifts /\ Won(v, cmd[r].result)
          /\ pago'[v] = [by |-> r, result |-> cmd[r].result,
                         miles |-> WinningAmount(v, cmd[r].result)]
      BY <2>2, PaymentCommitted
    <3>2. QED
      BY <3>1
  <2>3. ASSUME NEW r \in Requests, Commit(r), PaymentKey(v) \notin held[r]
        PROVE  pago'[v] = pago[v]
    BY <2>3 DEF Commit, PrizeCommit
  <2>4. QED
    BY <2>1, <2>2, <2>3, TablesWritten DEF tables, prizeVars
<1>3. ASSUME NEW v \in SaleIds, pago'[v] # None
      PROVE  /\ venta'[v] # "none"
             /\ pago'[v].result = cmd'[v].shift
             /\ resultado'[cmd'[v].shift] # None
             /\ pago'[v].miles = AmountOf(cmd'[v].items, resultado'[cmd'[v].shift])
             /\ pago'[v].miles > 0
  BY <1>1, <1>2, <1>3, WonStays
<1>4. QED
  BY <1>3 DEF PaymentsAreWinnings, WinningAmount

LEMMA PaidOnceKept ==
  ASSUME RequestInv, PrizeInv, [Next]_vars
  PROVE  PaidOnce'
<1>1. /\ Typed /\ LocksExclusive /\ DOMAIN phase = Requests
      /\ PaymentsPending /\ PaidOnce /\ None \notin Payments
  BY PrizeAssumption DEF RequestInv, Typed, PrizeInv
<1>2. SUFFICES ASSUME NEW p \in RequestsOf("payPrize"), phase'[p] = "committed"
               PROVE  pago'[cmd'[p].sale] # None /\ pago'[cmd'[p].sale].by = p
  BY DEF PaidOnce
<1>3. p \in Requests
  BY DEF RequestsOf
<1>4. CASE phase[p] = "committed"
  <2>1. pago[cmd[p].sale] # None /\ pago[cmd[p].sale].by = p /\ cmd[p].sale \in SaleIds
    BY <1>1, <1>4, PaymentCommandType DEF PaidOnce
  <2>2. cmd'[p] = cmd[p]
    <3>1. ASSUME NEW r \in Requests,
                 Handle(r) \/ Respond(r) \/ Commit(r) \/ Lose(r) \/ Aborts(r)
          PROVE  cmd'[p] = cmd[p]
      <4>1. r # p
        BY <1>4, <3>1, HandleShape
        DEF Arrives, Advances, Aborts, Writes, Receive, Respond, Commit, EndCommitted,
            Lose, Running
      <4>2. QED
        BY <1>1, <1>3, <3>1, <4>1, OthersUntouched
    <3>2. QED
      BY <3>1, StepShape DEF vars, txVars
  <2>3. pago'[cmd[p].sale] = pago[cmd[p].sale]
    <3>1. CASE UNCHANGED tables
      BY <3>1 DEF tables, prizeVars
    <3>2. ASSUME NEW r \in Requests, Commit(r)
          PROVE  pago'[cmd[p].sale] = pago[cmd[p].sale]
      <4>1. PaymentKey(cmd[p].sale) \notin held[r]
        BY <2>1, <3>2, PaymentCommitted
      <4>2. QED
        BY <2>1, <3>2, <4>1 DEF Commit, PrizeCommit
    <3>3. QED
      BY <3>1, <3>2, TablesWritten
  <2>4. QED
    BY <2>1, <2>2, <2>3
<1>5. CASE phase[p] # "committed"
  <2>1. Commit(p)
    <3>1. ASSUME NEW r \in Requests \ {p},
                 Handle(r) \/ Respond(r) \/ Commit(r) \/ Lose(r) \/ Aborts(r)
          PROVE  FALSE
      BY <1>1, <1>2, <1>3, <1>5, <3>1, OthersUntouched
    <3>2. ASSUME Handle(p)
          PROVE  FALSE
      BY <1>1, <1>2, <1>3, <1>5, <3>2, HandleShape
      DEF Arrives, Advances, Aborts, Writes, Receive, MoveTo, Rollback, Write, Running
    <3>3. ASSUME Respond(p) \/ Lose(p) \/ Aborts(p)
          PROVE  FALSE
      BY <1>1, <1>2, <1>3, <1>5, <3>3 DEF Respond, MoveTo, Lose, Aborts, Rollback
    <3>4. QED
      BY <1>2, <1>3, <1>5, <3>1, <3>2, <3>3, StepShape DEF vars, txVars
  <2>2. phase[p] = "acked" /\ cmd' = cmd
    BY <2>1 DEF Commit, EndCommitted
  <2>3. PaymentKey(cmd[p].sale) \in held[p] /\ cmd[p].sale \in SaleIds
    BY <1>1, <2>2, PaymentCommandType DEF PaymentsPending
  <2>4. /\ pago'[cmd[p].sale] \in Payments
        /\ pago'[cmd[p].sale].by = p
    <3>1. /\ pago'[cmd[p].sale] \in Payments
          /\ pago'[cmd[p].sale] = [by |-> p, result |-> cmd[p].result,
                                   miles |-> WinningAmount(cmd[p].sale, cmd[p].result)]
      BY <1>3, <2>1, <2>3, PaymentCommitted
    <3>2. QED
      BY <3>1
  <2>5. QED
    BY <1>1, <2>2, <2>4
<1>6. QED
  BY <1>4, <1>5

LEMMA PrizeInvInit == Init => PrizeInv
BY DEF Init, TxInit, SaleInit, PrizeInit, PrizeInv, SalesCommitted, VoidsPending,
       ResultsPending, PaymentsPending, PaymentsAreWinnings, PaidOnce, RequestsOf

\* PrizeInv is inductive relative to RequestInv.
THEOREM PrizesSound == Spec => []PrizeInv
<1>1. RequestInv /\ PrizeInv /\ [Next]_vars => PrizeInv'
  BY PaymentTypeKept, SalesCommittedKept, VoidsPendingKept, ResultsPendingKept,
     PaymentsPendingKept, PaymentsAreWinningsKept, PaidOnceKept DEF PrizeInv
<1>2. QED
  BY RequestsSound, PrizeInvInit, <1>1, PTL DEF Spec

\* Every variable keeps its type in every reachable state, for every instance.
THEOREM TypesCorrect == Spec => []TypeOK
<1>1. RequestInv /\ PrizeInv => TypeOK
  BY DEF RequestInv, PrizeInv, TypeOK
<1>2. QED
  BY <1>1, RequestsSound, PrizesSound, PTL

\* pagos_premios only ever holds winnings: what pay() checked before it inserted
\* cannot be undone by any request that commits in between.
THEOREM OnlyWinningsPaid == Spec => []PaymentsAreWinnings
<1>1. PrizeInv => PaymentsAreWinnings
  BY DEF PrizeInv
<1>2. QED
  BY <1>1, PrizesSound, PTL

\* Two cashiers never both commit a payment of one sale.
THEOREM EachSalePaidOnce == Spec => []PaidOnce
<1>1. PrizeInv => PaidOnce
  BY DEF PrizeInv
<1>2. QED
  BY <1>1, PrizesSound, PTL

\* A committed result is final, whoever else was registering one.
THEOREM ResultsAreFinal == Spec => ResultsFinal
<1>1. RequestInv /\ PrizeInv /\ [Next]_vars =>
        [\A t \in Shifts : resultado[t] # None => resultado'[t] = resultado[t]]_vars
  BY ResultsStay DEF PrizeInv
<1>2. QED
  BY <1>1, RequestsSound, PrizesSound, PTL DEF Spec, ResultsFinal
=============================================================================

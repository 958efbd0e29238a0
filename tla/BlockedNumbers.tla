---------------------------- MODULE BlockedNumbers ----------------------------
(***************************************************************************)
(* Blocked numbers (table numeros_bloqueados): a number that may not be    *)
(* sold, for a whole date or for one shift.                                *)
(***************************************************************************)
EXTENDS DrawShifts

CONSTANTS
  BlockOrders,     \* commands of POST /blocked-numbers: [scope, numbers]
  InitialBlocks    \* rows when the behaviour starts, by id

VARIABLE bloqueos  \* committed numeros_bloqueados rows, by id

\* numeros_bloqueados_alcance_chk: a shift or a date of a tenant, never both.
OfShift(t) == <<"turno", t>>
OfDate(tenant, d) == <<"fecha", tenant, d>>
DateScope(t) == OfDate(TenantOf[ConfigOf[t]], DateOf[t])

MaxBlocks == 2     \* bound: numbers per block request
NewBlockIds == RequestsOf("blockNumbers") \X (1..MaxBlocks)
BlockIds == DOMAIN InitialBlocks \cup NewBlockIds

\* Ids are uuids that the database draws: a new one is nobody's.
ASSUME BlockAssumption == \A id \in DOMAIN InitialBlocks : id \notin Requests \X Nat

BlockInit ==
  bloqueos = [id \in BlockIds |->
                IF id \in DOMAIN InitialBlocks THEN InitialBlocks[id] ELSE None]

BlockKey(row)    == <<"bloqueo", row.scope, row.number>>
BlockRowLock(id) == <<"filaBloqueo", id>>

Rows(number, scope) ==
  {id \in BlockIds : bloqueos[id] # None
                     /\ bloqueos[id].number = number /\ bloqueos[id].scope = scope}

\* What trg_detalle_validar looks for before it accepts a detail row.
IsBlocked(number, t) ==
  Rows(number, OfShift(t)) \cup Rows(number, DateScope(t)) # {}

(***************************************************************************)
(* createMany: one INSERT per number; a shift scope needs the shift row    *)
(* (P2003) and the scope must not hold the number yet (P2002).             *)
(***************************************************************************)
BlockCommands == BlockOrders

NextBlock(r) == [scope |-> cmd[r].scope, number |-> cmd[r].numbers[done[r] + 1]]

ScopeExists(scope) == \A t \in Shifts : scope = OfShift(t) => estado[t] # "none"

BlockNumbersInsert(r) ==
  /\ phase[r] = "writing"
  /\ Available(r, {BlockKey(NextBlock(r))})
  /\ IF Rows(NextBlock(r).number, cmd[r].scope) # {} \/ ~ScopeExists(cmd[r].scope)
       THEN Rollback(r)
       ELSE /\ Write(r, {BlockKey(NextBlock(r))},
                     IF done[r] + 1 = Len(cmd[r].numbers) THEN "responding" ELSE "writing")
            /\ done' = [done EXCEPT ![r] = @ + 1]
  /\ UNCHANGED <<estado, bloqueos>>

(***************************************************************************)
(* delete: one DELETE by id; it frees the key only when it commits.        *)
(***************************************************************************)
UnblockCommands == [block : BlockIds]

UnblockLocks(r) ==
  {BlockRowLock(cmd[r].block)} \cup
    (IF bloqueos[cmd[r].block] = None THEN {} ELSE {BlockKey(bloqueos[cmd[r].block])})

UnblockNumberDelete(r) ==
  /\ phase[r] = "writing"
  /\ Available(r, UnblockLocks(r))
  /\ IF bloqueos[cmd[r].block] = None
       THEN Rollback(r)
       ELSE Write(r, UnblockLocks(r), "responding") /\ UNCHANGED done
  /\ UNCHANGED <<estado, bloqueos>>

BlockCommit(r) ==
  bloqueos' = [id \in BlockIds |->
    IF Kind[r] = "blockNumbers" /\ id \in {r} \X (1..done[r])
      THEN [scope |-> cmd[r].scope, number |-> cmd[r].numbers[id[2]]]
    ELSE IF BlockRowLock(id) \in held[r] THEN None
    ELSE bloqueos[id]]

BlockStep(r) ==
  \/ Kind[r] = "blockNumbers"
       /\ ( \/ Receive(r, BlockCommands, "writing") /\ UNCHANGED <<estado, bloqueos>>
            \/ BlockNumbersInsert(r) )
  \/ Kind[r] = "unblockNumber"
       /\ ( \/ Receive(r, UnblockCommands, "writing") /\ UNCHANGED <<estado, bloqueos>>
            \/ UnblockNumberDelete(r) )

BlockWanted(r) ==
  IF phase[r] # "writing" THEN {}
  ELSE IF Kind[r] = "blockNumbers" THEN {BlockKey(NextBlock(r))}
  ELSE UnblockLocks(r)
=============================================================================

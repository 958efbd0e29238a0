------------------------------ MODULE DrawShifts ------------------------------
(***************************************************************************)
(* Draw shifts (table turnos): at most one row per (fecha, config_id).     *)
(*                                                                         *)
(* A shift identifier stands for its (date, configuration) pair, so        *)
(* estado[t] = "none" means that the pair has no row yet.  Four handlers   *)
(* write the table: open / auto-generate insert the missing rows, close,   *)
(* block and reopen read the row without locking it and then UPDATE it by  *)
(* id, whatever its state has become in between.                           *)
(***************************************************************************)
EXTENDS RequestTransaction

CONSTANTS
  Shifts,        \* (fecha, config) pairs
  DateOf,        \* the date of a shift
  ConfigOf,      \* the draw configuration of a shift
  TenantOf,      \* the tenant of a draw configuration
  OpenLists,     \* the lists of shifts an open or auto-generate request covers
  StartsOpen     \* the shifts that exist, ABIERTO, when the behaviour starts

VARIABLE estado  \* committed turnos.estado, or "none"

Estados == {"ABIERTO", "BLOQUEO", "CERRADO"}

ASSUME OpenListsAssumption == OpenLists \subseteq Seq(Shifts)

ShiftRow(t) == <<"turno", t>>

OpenCommands == {[shifts |-> ts] : ts \in OpenLists}
MoveCommands == [shift : Shifts, to : Estados]

ShiftInit == estado = [t \in Shifts |-> IF t \in StartsOpen THEN "ABIERTO" ELSE "none"]

(***************************************************************************)
(* openShift (one shift) and autoGenerateShifts (every operable            *)
(* configuration of the date, by time): skip the shifts that exist, insert *)
(* the others.                                                             *)
(***************************************************************************)
NextToOpen(r) == cmd[r].shifts[done[r] + 1]

AllOpened(r) == done[r] = Len(cmd[r].shifts)

OpenShiftsRead(r) ==
  /\ phase[r] = "reading"
  /\ IF AllOpened(r)
       THEN MoveTo(r, "responding") /\ UNCHANGED done
       ELSE IF estado[NextToOpen(r)] = "none"
              THEN MoveTo(r, "writing") /\ UNCHANGED done
              ELSE MoveTo(r, "reading") /\ done' = [done EXCEPT ![r] = @ + 1]
  /\ UNCHANGED estado

\* Mutant: an upsert that sets the state of the row it finds.
OpenShiftsUpsert(r) ==
  /\ phase[r] = "writing"
  /\ Available(r, {ShiftRow(NextToOpen(r))})
  /\ Write(r, {ShiftRow(NextToOpen(r))}, "reading")
  /\ done' = [done EXCEPT ![r] = @ + 1]
  /\ UNCHANGED estado

\* turnos.create: waits for an uncommitted row with the same key, then fails
\* with P2002 if that row is committed.
OpenShiftsInsert(r) ==
  /\ phase[r] = "writing"
  /\ Available(r, {ShiftRow(NextToOpen(r))})
  /\ IF estado[NextToOpen(r)] = "none"
       THEN /\ Write(r, {ShiftRow(NextToOpen(r))}, "reading")
            /\ done' = [done EXCEPT ![r] = @ + 1]
       ELSE Rollback(r)
  /\ UNCHANGED estado

(***************************************************************************)
(* closeShift and transitionShift (block, reopen).                         *)
(***************************************************************************)
Admits(to, from) ==
  IF to = "CERRADO" THEN from # "none" ELSE from \in {"ABIERTO", "BLOQUEO"}

MoveShiftRead(r) ==
  /\ phase[r] = "reading"
  /\ LET from == estado[cmd[r].shift]
         to   == cmd[r].to
     IN  IF ~Admits(to, from)
           THEN Rollback(r)
           ELSE /\ MoveTo(r, IF from = to THEN "responding" ELSE "writing")
                /\ UNCHANGED done
  /\ UNCHANGED estado

\* UPDATE turnos SET estado = ... WHERE id = ...: waits for the row lock and
\* does not look at the state again.
MoveShiftUpdate(r) ==
  /\ phase[r] = "writing"
  /\ Available(r, {ShiftRow(cmd[r].shift)})
  /\ Write(r, {ShiftRow(cmd[r].shift)}, "responding")
  /\ UNCHANGED <<done, estado>>

\* The rows a transaction wrote are the ones it holds.
ShiftCommit(r) ==
  estado' = [t \in Shifts |->
               IF ShiftRow(t) \notin held[r] THEN estado[t]
               ELSE IF Kind[r] = "openShifts" THEN "ABIERTO"
               ELSE cmd[r].to]

ShiftStep(r) ==
  \/ Kind[r] = "openShifts" /\ ( \/ Receive(r, OpenCommands, "reading") /\ UNCHANGED estado
                                 \/ OpenShiftsRead(r)
                                 \/ OpenShiftsInsert(r) )
  \/ Kind[r] = "moveShift"  /\ ( \/ Receive(r, MoveCommands, "reading") /\ UNCHANGED estado
                                 \/ MoveShiftRead(r)
                                 \/ MoveShiftUpdate(r) )

ShiftWanted(r) ==
  IF phase[r] # "writing" THEN {}
  ELSE IF Kind[r] = "openShifts" THEN {ShiftRow(NextToOpen(r))}
  ELSE {ShiftRow(cmd[r].shift)}
=============================================================================

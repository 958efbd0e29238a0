------------------------ MODULE SalesDayLimits_proofs ------------------------
(***************************************************************************)
(* Number rules: what the limits and the blocks of numbers promise to the  *)
(* sales, whatever is created, edited, deleted and sold at once.           *)
(*                                                                         *)
(* At most one limit of each breadth is in force for a sale: rows that are *)
(* there, and rows that open transactions will add, share no key.          *)
(* A limit of one draw is never oversold: a detail row that was accepted   *)
(* under it fits until its sale commits.  A blocked number is not sold:    *)
(* every detail row accepted after the block was of another number.        *)
(***************************************************************************)
EXTENDS SalesDay_proofs

LEMMA LimitInvInit == Init => LimitInv
<1> SUFFICES ASSUME Init
             PROVE  LimitInv
  OBVIOUS
<1>1. limites = [id \in LimitIds |->
                   IF id \in DOMAIN InitialLimits THEN InitialLimits[id] ELSE None]
  BY DEF Init, LimitInit
<1>2. \A r \in Requests : phase[r] = "idle"
  BY DEF Init, TxInit
<1>3. LimitsCompatible
  BY <1>1, LimitAssumption DEF LimitsCompatible
<1>4. LimitsInserted /\ LimitsEdited
  BY <1>2 DEF LimitsInserted, LimitsEdited, RequestsOf
<1>5. LimitsCreated
  BY <1>1, LimitAssumption DEF LimitsCreated, NewLimitIds, LimitIds
<1>6. QED
  BY <1>3, <1>4, <1>5 DEF LimitInv

\* The rows of one order are of different numbers.
LEMMA OrderCompatible ==
  ASSUME NEW r, cmd[r] \in LimitOrders,
         NEW i \in 1..Len(cmd[r].numbers), NEW j \in 1..Len(cmd[r].numbers), i # j
  PROVE  Compatible(OrderedRow(r, i), OrderedRow(r, j))
<1>1. cmd[r].numbers \in Seq(Numbers)
  BY LimitAssumption
<1>2. cmd[r].numbers[i] # cmd[r].numbers[j]
  BY <1>1, LimitAssumption
<1>3. OrderedRow(r, i).number # OrderedRow(r, j).number
  BY <1>2 DEF OrderedRow
<1>4. \A row : \A key \in OverlapKeys(row) : key[1] = "limite" /\ key[5] = row.number
  BY DEF OverlapKeys
<1>5. \A row : \A key \in OpenEndedKeys(row) : key[1] = "abierto" /\ key[4] = row.number
  BY DEF OpenEndedKeys
<1>6. QED
  BY <1>3, <1>4, <1>5 DEF Compatible, LimitKeys

\* Every row of a limit request that has answered, and that its commit will add.
LEMMA LoopWithinOrder ==
  ASSUME RequestInv, NEW r \in RequestsOf("createLimits"), phase[r] # "idle"
  PROVE  /\ cmd[r] \in LimitOrders
         /\ \A i \in 1..done[r] : i \in 1..Len(cmd[r].numbers) /\ i \in 1..MaxOrder
         /\ done[r] \in Nat
<1>1. r \in Requests /\ Kind[r] = "createLimits"
  BY DEF RequestsOf
<1>2. cmd[r] \in LimitOrders
  BY <1>1 DEF RequestInv, Typed, CommandsOf, LimitCommands
<1>3. PICK n \in 1..MaxOrder : Len(cmd[r].numbers) = n
  BY <1>2, LimitAssumption
<1>4. done[r] \in Nat /\ done[r] <= Len(cmd[r].numbers)
  BY <1>1 DEF RequestInv, Typed, LimitsWithinCommand
<1>5. n \in Nat /\ n <= MaxOrder /\ MaxOrder \in Nat
  BY <1>3 DEF MaxOrder
<1>6. \A i \in 1..done[r] : i \in 1..Len(cmd[r].numbers) /\ i \in 1..MaxOrder
  BY <1>3, <1>4, <1>5
<1>7. QED
  BY <1>2, <1>4, <1>6

\* A commit puts in the table rows that were reserved for the request, and only
\* over rows of its own; two of them are compatible.
LEMMA CommittedRows ==
  ASSUME RequestInv, LimitInv, NEW q \in Requests, Commit(q)
  PROVE  \A id \in LimitIds :
           \/ limites'[id] = limites[id]
           \/ /\ Reserved(q, id, limites'[id])
              /\ \/ LimitRowLock(id) \in held[q]
                 \/ Kind[q] = "createLimits" /\ id \in {q} \X (1..done[q])
<1>1. phase[q] = "acked" /\ LimitCommit(q)
  BY DEF Commit, EndCommitted
<1>2. TAKE id \in LimitIds
<1>3. CASE Kind[q] = "createLimits" /\ id \in {q} \X (1..done[q])
  <2>1. id = <<q, id[2]>> /\ id[2] \in 1..done[q]
    BY <1>3
  <2>2. limites'[id] = OrderedRow(q, id[2])
    BY <1>1, <1>3 DEF LimitCommit
  <2>3. Reserved(q, <<q, id[2]>>, OrderedRow(q, id[2]))
    BY <1>1, <1>3, <2>1 DEF LimitInv, LimitsInserted, RequestsOf
  <2>4. QED
    BY <1>3, <2>1, <2>2, <2>3
<1>4. CASE /\ ~(Kind[q] = "createLimits" /\ id \in {q} \X (1..done[q]))
           /\ LimitRowLock(id) \in held[q]
  <2>1. Kind[q] = "editLimit" /\ cmd[q].limit = id
    BY <1>4 DEF RequestInv, LocksFit, Fit
  <2>2. Reserved(q, id, NewRow(q))
    BY <1>1, <2>1 DEF LimitInv, LimitsEdited, RequestsOf
  <2>3. limites'[id] = NewRow(q)
    BY <1>1, <1>4 DEF LimitCommit
  <2>4. QED
    BY <1>4, <2>2, <2>3
<1>5. CASE /\ ~(Kind[q] = "createLimits" /\ id \in {q} \X (1..done[q]))
           /\ LimitRowLock(id) \notin held[q]
  BY <1>1, <1>5 DEF LimitCommit
<1>6. QED
  BY <1>3, <1>4, <1>5

LEMMA CompatibleAfterCommit ==
  ASSUME RequestInv, LimitInv, NEW q \in Requests, Commit(q)
  PROVE  LimitsCompatible'
<1>1. SUFFICES ASSUME NEW a \in LimitIds, NEW b \in LimitIds,
                      a # b, limites'[a] # None, limites'[b] # None
               PROVE  Compatible(limites'[a], limites'[b])
  BY DEF LimitsCompatible, Compatible, LimitKeys, OverlapKeys, OpenEndedKeys, Covers
<1>2. CASE limites'[a] = limites[a] /\ limites'[b] = limites[b]
  BY <1>1, <1>2 DEF LimitInv, LimitsCompatible
<1>3. CASE limites'[a] = limites[a] /\ limites'[b] # limites[b]
  BY <1>1, <1>3, CommittedRows DEF Reserved, Compatible
<1>4. CASE limites'[a] # limites[a] /\ limites'[b] = limites[b]
  BY <1>1, <1>4, CommittedRows DEF Reserved
<1>5. CASE limites'[a] # limites[a] /\ limites'[b] # limites[b]
  <2>1. phase[q] = "acked" /\ LimitCommit(q)
    BY DEF Commit, EndCommitted
  <2>2. /\ LimitRowLock(a) \in held[q] \/ (Kind[q] = "createLimits" /\ a \in {q} \X (1..done[q]))
        /\ LimitRowLock(b) \in held[q] \/ (Kind[q] = "createLimits" /\ b \in {q} \X (1..done[q]))
    BY <1>5, CommittedRows
  <2>3. \A id \in LimitIds :
          LimitRowLock(id) \in held[q] => Kind[q] = "editLimit" /\ id = cmd[q].limit
    BY DEF RequestInv, LocksFit, Fit
  <2>4. Kind[q] = "createLimits" /\ a \in {q} \X (1..done[q]) /\ b \in {q} \X (1..done[q])
    BY <1>1, <2>2, <2>3
  <2>5. /\ limites'[a] = OrderedRow(q, a[2]) /\ limites'[b] = OrderedRow(q, b[2])
        /\ a[2] \in 1..done[q] /\ b[2] \in 1..done[q] /\ a[2] # b[2]
    BY <1>1, <2>1, <2>4 DEF LimitCommit
  <2>6. QED
    BY <2>1, <2>4, <2>5, LoopWithinOrder, OrderCompatible DEF RequestsOf
<1>6. QED
  BY <1>2, <1>3, <1>4, <1>5

\* What a live request reserved stays reserved when another one commits, as long
\* as the row it replaces is its own.
LEMMA ReservedStays ==
  ASSUME RequestInv, LimitInv, NEW q \in Requests, Commit(q), NEW r \in Requests \ {q},
         NEW id \in LimitIds \cup {<<r, i>> : i \in Nat}, NEW row, Reserved(r, id, row)
  PROVE  /\ LimitKeys(row) \subseteq held'[r]
         /\ \A other \in LimitIds \ {id} :
              limites'[other] # None => Compatible(row, limites'[other])
<1>1. LimitKeys(row) \subseteq held'[r]
  BY OthersUntouched DEF Reserved, RequestInv
<1>2. LimitKeys(row) \cap held[q] = {}
  BY DEF Reserved, RequestInv, LocksExclusive
<1>3. ASSUME NEW other \in LimitIds \ {id}, limites'[other] # None
      PROVE  Compatible(row, limites'[other])
  <2>1. CASE limites'[other] = limites[other]
    BY <1>3, <2>1 DEF Reserved
  <2>2. CASE limites'[other] # limites[other]
    <3>1. LimitKeys(limites'[other]) \subseteq held[q]
      BY <2>2, CommittedRows DEF Reserved
    <3>2. QED
      BY <1>2, <3>1 DEF Compatible
  <2>3. QED
    BY <2>1, <2>2
<1>4. QED
  BY <1>1, <1>3

\* A row that createMany inserts is reserved from then on.
LEMMA InsertReserves ==
  ASSUME RequestInv, LimitInv, NEW r \in RequestsOf("createLimits"), Handle(r),
         phase'[r] \in {"writing", "responding", "acked"}, NEW i \in 1..done'[r]
  PROVE  Reserved(r, <<r, i>>, OrderedRow(r, i))'
<1>1. /\ r \in Requests /\ Kind[r] = "createLimits" /\ DOMAIN phase = Requests
      /\ DOMAIN held = Requests /\ done \in [Requests -> Nat]
  BY DEF RequestsOf, RequestInv, Typed
<1>2. LimitStep(r) /\ limites' = limites
  BY <1>1, HandleShape DEF Handle, ShiftStep, BlockStep, SaleStep, PrizeStep, tables
<1>3. CASE Receive(r, LimitCommands, "writing")
  BY <1>1, <1>3 DEF Receive, RequestInv, LimitsWithinCommand
<1>4. CASE CreateLimitsInsert(r)
  <2>1. /\ phase[r] = "writing" /\ cmd' = cmd
        /\ done' = [done EXCEPT ![r] = @ + 1]
        /\ held' = [held EXCEPT ![r] = @ \cup LimitKeys(NextLimitRow(r))]
        /\ ~Clashes(<<r, done[r] + 1>>, NextLimitRow(r))
    BY <1>1, <1>4 DEF CreateLimitsInsert, Rollback, Write
  <2>2. i \in 1..(done[r] + 1) /\ held[r] \subseteq held'[r]
    BY <1>1, <2>1
  <2>3. Reserved(r, <<r, i>>, OrderedRow(r, i)) \/ i = done[r] + 1
    BY <1>1, <2>1, <2>2 DEF LimitInv, LimitsInserted
  <2>4. /\ LimitKeys(OrderedRow(r, i)) \subseteq held'[r]
        /\ \A other \in LimitIds \ {<<r, i>>} :
             limites[other] # None => Compatible(OrderedRow(r, i), limites[other])
    BY <1>1, <2>1, <2>2, <2>3 DEF Reserved, Clashes, NextLimitRow
  <2>5. QED
    BY <1>2, <2>1, <2>4
    DEF Reserved, OrderedRow, Compatible, LimitKeys, OverlapKeys, OpenEndedKeys, Covers
<1>5. QED
  BY <1>1, <1>2, <1>3, <1>4 DEF LimitStep

LEMMA DoneUntouched ==
  ASSUME Typed, NEW r \in Requests, NEW q \in Requests \ {r},
         Handle(r) \/ Respond(r) \/ Commit(r) \/ Lose(r) \/ Aborts(r)
  PROVE  done'[q] = done[q]
<1>1. done \in [Requests -> Nat]
  BY DEF Typed
<1>2. CASE Handle(r)
  BY <1>1, <1>2, HandleShape
  DEF Arrives, Advances, Aborts, Writes, Receive, MoveTo, Rollback, Write
<1>3. CASE Respond(r) \/ Commit(r) \/ Lose(r) \/ Aborts(r)
  BY <1>1, <1>3 DEF Respond, MoveTo, Commit, EndCommitted, Lose, Aborts, Rollback
<1>4. QED
  BY <1>2, <1>3

LEMMA LimitsInsertedKept ==
  ASSUME RequestInv, LimitInv, [Next]_vars
  PROVE  LimitsInserted'
<1> USE DEF Reserved, OrderedRow, Compatible, LimitKeys, OverlapKeys, OpenEndedKeys, Covers
<1>1. Typed /\ DOMAIN phase = Requests /\ DOMAIN held = Requests
  BY DEF RequestInv, Typed
<1>2. SUFFICES ASSUME NEW r \in RequestsOf("createLimits"),
                      phase'[r] \in {"writing", "responding", "acked"},
                      NEW i \in 1..done'[r]
               PROVE  Reserved(r, <<r, i>>, OrderedRow(r, i))'
  BY DEF LimitsInserted
<1>3. r \in Requests
  BY DEF RequestsOf
<1>4. CASE UNCHANGED vars
  BY <1>2, <1>4 DEF vars, txVars, LimitInv, LimitsInserted
<1>5. ASSUME NEW q \in Requests \ {r},
             Handle(q) \/ Respond(q) \/ Commit(q) \/ Lose(q) \/ Aborts(q),
             UNCHANGED tables \/ Commit(q)
      PROVE  Reserved(r, <<r, i>>, OrderedRow(r, i))'
  <2>1. /\ phase'[r] = phase[r] /\ cmd'[r] = cmd[r] /\ held'[r] = held[r]
        /\ done'[r] = done[r]
    BY <1>1, <1>3, <1>5, OthersUntouched, DoneUntouched
  <2>2. Reserved(r, <<r, i>>, OrderedRow(r, i))
    BY <1>2, <2>1 DEF LimitInv, LimitsInserted
  <2>3. CASE UNCHANGED tables
    BY <2>1, <2>2, <2>3 DEF tables
  <2>4. CASE Commit(q)
    <3>1. PICK row : row = OrderedRow(r, i)
      OBVIOUS
    <3>2. OrderedRow(r, i)' = row
      BY <2>1, <3>1
    <3>3. i \in Nat
      BY <1>1, <2>1 DEF Typed
    <3>4. /\ LimitKeys(row) \subseteq held'[r]
          /\ \A other \in LimitIds \ {<<r, i>>} :
               limites'[other] # None => Compatible(row, limites'[other])
      <4> HIDE DEF Reserved, OrderedRow, Compatible, LimitKeys, OverlapKeys, OpenEndedKeys, Covers
      <4>1. Reserved(r, <<r, i>>, row)
        BY <2>2, <3>1
      <4>2. QED
        BY <1>3, <2>4, <3>3, <4>1, ReservedStays
    <3>5. QED
      BY <3>2, <3>4
  <2>5. QED
    BY <1>5, <2>3, <2>4
<1>6. CASE Handle(r)
  BY <1>2, <1>6, InsertReserves
<1>7. CASE Respond(r) /\ UNCHANGED tables
  BY <1>2, <1>7 DEF Respond, MoveTo, tables, LimitInv, LimitsInserted
<1>8. ASSUME Commit(r) \/ Lose(r) \/ Aborts(r)
      PROVE  FALSE
  BY <1>1, <1>2, <1>3, <1>8 DEF Commit, EndCommitted, Lose, Aborts, Rollback
<1>9. QED
  <2> HIDE DEF Reserved, OrderedRow, Compatible, LimitKeys, OverlapKeys, OpenEndedKeys, Covers
  <2>1. QED
    BY <1>3, <1>4, <1>5, <1>6, <1>7, <1>8, StepShape, HandleShape

LEMMA LimitsCreatedKept ==
  ASSUME RequestInv, LimitInv, [Next]_vars
  PROVE  LimitsCreated'
<1>1. Typed /\ phase \in [Requests -> Phases] /\ LimitsCreated
  BY DEF RequestInv, Typed, LimitInv
<1>2. SUFFICES ASSUME NEW r \in RequestsOf("createLimits"), NEW i \in 1..MaxOrder,
                      limites'[<<r, i>>] # None
               PROVE  phase'[r] = "committed"
  BY DEF LimitsCreated
<1>3. r \in Requests /\ <<r, i>> \in LimitIds
  BY DEF RequestsOf, LimitIds, NewLimitIds
<1>4. CASE phase[r] = "committed"
  <2>1. ASSUME NEW q \in Requests,
               Handle(q) \/ Respond(q) \/ Commit(q) \/ Lose(q) \/ Aborts(q)
        PROVE  phase'[r] = "committed"
    <3>1. q # r
      BY <1>4, <2>1, HandleShape
      DEF Arrives, Advances, Aborts, Writes, Receive, Respond, Commit, EndCommitted, Lose, Running
    <3>2. QED
      BY <1>1, <1>3, <1>4, <2>1, <3>1, OthersUntouched
  <2>2. QED
    BY <1>4, <2>1, StepShape DEF vars, txVars
<1>5. CASE limites[<<r, i>>] = None
  <2>1. PICK q \in Requests : Commit(q)
    BY <1>2, <1>5, TablesWritten DEF tables
  <2>2. LimitRowLock(<<r, i>>) \notin held[q]
    BY <1>3, <1>5 DEF RequestInv, LocksFit, Fit
  <2>3. <<r, i>> \in {q} \X (1..done[q])
    BY <1>2, <1>3, <1>5, <2>1, <2>2, CommittedRows
  <2>4. QED
    BY <1>1, <2>1, <2>3 DEF Commit, EndCommitted
<1>6. QED
  BY <1>1, <1>4, <1>5 DEF LimitsCreated

\* The limit of a checked edit is not touched by anybody else's commit.
LEMMA EditedRowStays ==
  ASSUME RequestInv, LimitInv, NEW q \in Requests, Commit(q),
         NEW r \in RequestsOf("editLimit"), r # q, phase[r] \in {"responding", "acked"}
  PROVE  limites'[cmd[r].limit] = limites[cmd[r].limit]
<1>1. r \in Requests /\ Kind[r] = "editLimit" /\ LimitRowLock(cmd[r].limit) \in held[r]
  BY DEF RequestsOf, LimitInv, LimitsEdited
<1>2. cmd[r].limit \in LimitIds
  BY <1>1 DEF RequestInv, Typed, CommandsOf, EditCommands
<1>3. LimitRowLock(cmd[r].limit) \notin held[q]
  BY <1>1 DEF RequestInv, LocksExclusive
<1>4. ASSUME Kind[q] = "createLimits", cmd[r].limit \in {q} \X (1..done[q])
      PROVE  FALSE
  <2>1. phase[q] = "acked" /\ q \in RequestsOf("createLimits")
    BY <1>4 DEF Commit, EndCommitted, RequestsOf
  <2>2. PICK i \in 1..done[q] : cmd[r].limit = <<q, i>>
    BY <1>4
  <2>3. i \in 1..MaxOrder
    BY <2>1, <2>2, LoopWithinOrder
  <2>4. limites[<<q, i>>] # None
    BY <1>1, <1>2, <2>2 DEF RequestInv, LocksFit, Fit
  <2>5. QED
    BY <2>1, <2>3, <2>4 DEF LimitInv, LimitsCreated
<1>5. QED
  BY <1>2, <1>3, <1>4, CommittedRows

\* An UPDATE that succeeds holds the row, the keys it leaves and the keys it takes.
LEMMA EditReserves ==
  ASSUME RequestInv, LimitInv, NEW r \in RequestsOf("editLimit"), Handle(r),
         phase'[r] \in {"responding", "acked"}
  PROVE  /\ cmd' = cmd /\ limites' = limites
         /\ LimitRowLock(cmd[r].limit) \in held'[r]
         /\ LimitKeys(NewRow(r)) \subseteq held'[r]
         /\ \A other \in LimitIds \ {cmd[r].limit} :
              limites[other] # None => Compatible(NewRow(r), limites[other])
<1>1. /\ r \in Requests /\ Kind[r] = "editLimit"
      /\ DOMAIN phase = Requests /\ DOMAIN held = Requests
  BY DEF RequestsOf, RequestInv, Typed
<1>2. LimitStep(r) /\ limites' = limites
  BY <1>1, HandleShape DEF Handle, ShiftStep, BlockStep, SaleStep, PrizeStep, tables
<1>3. EditLimitUpdate(r)
  BY <1>1, <1>2 DEF LimitStep, Receive
<1>4. /\ cmd' = cmd /\ limites[cmd[r].limit] # None
      /\ held' = [held EXCEPT ![r] = @ \cup EditLocks(r)]
      /\ ~Clashes(cmd[r].limit, NewRow(r))
  BY <1>1, <1>3 DEF EditLimitUpdate, Rollback, Write
<1>5. QED
  BY <1>1, <1>2, <1>4 DEF EditLocks, Clashes

LEMMA LimitsEditedKept ==
  ASSUME RequestInv, LimitInv, [Next]_vars
  PROVE  LimitsEdited'
<1>1. Typed /\ DOMAIN phase = Requests /\ DOMAIN held = Requests
  BY DEF RequestInv, Typed
<1>2. SUFFICES ASSUME NEW r \in RequestsOf("editLimit"), phase'[r] \in {"responding", "acked"}
               PROVE  /\ LimitRowLock(cmd[r].limit)' \in held'[r]
                      /\ Reserved(r, cmd[r].limit, NewRow(r))'
  BY DEF LimitsEdited
<1>3. r \in Requests
  BY DEF RequestsOf
<1>4. SUFFICES ASSUME NEW id, NEW row, id = cmd[r].limit, row = NewRow(r)
               PROVE  /\ cmd'[r] = cmd[r] /\ limites'[id] = limites[id]
                      /\ LimitRowLock(id) \in held'[r]
                      /\ LimitKeys(row) \subseteq held'[r]
                      /\ \A other \in LimitIds \ {id} :
                           limites'[other] # None => Compatible(row, limites'[other])
  <2>1. PICK id, row : id = cmd[r].limit /\ row = NewRow(r)
    OBVIOUS
  <2>2. cmd'[r].limit = id /\ NewRow(r)' = row
    BY <1>4, <2>1 DEF NewRow, EditedRow
  <2>3. /\ LimitRowLock(id) \in held'[r] /\ LimitKeys(row) \subseteq held'[r]
        /\ \A other \in LimitIds \ {id} :
             limites'[other] # None => Compatible(row, limites'[other])
    BY <1>4, <2>1
  <2>4. QED
    BY <2>2, <2>3
    DEF Reserved, Compatible, LimitKeys, OverlapKeys, OpenEndedKeys, Covers, LimitRowLock
<1>5. ASSUME phase[r] \in {"responding", "acked"}
      PROVE  LimitRowLock(id) \in held[r] /\ Reserved(r, id, row)
  BY <1>4, <1>5 DEF LimitInv, LimitsEdited
<1>6. CASE UNCHANGED vars
  BY <1>2, <1>5, <1>6 DEF vars, txVars, Reserved
<1>7. ASSUME NEW q \in Requests \ {r},
             Handle(q) \/ Respond(q) \/ Commit(q) \/ Lose(q) \/ Aborts(q),
             UNCHANGED tables \/ Commit(q)
      PROVE  /\ cmd'[r] = cmd[r] /\ limites'[id] = limites[id]
             /\ LimitRowLock(id) \in held'[r]
             /\ LimitKeys(row) \subseteq held'[r]
             /\ \A other \in LimitIds \ {id} :
                  limites'[other] # None => Compatible(row, limites'[other])
  <2>1. phase'[r] = phase[r] /\ cmd'[r] = cmd[r] /\ held'[r] = held[r]
    BY <1>1, <1>3, <1>7, OthersUntouched
  <2>2. LimitRowLock(id) \in held[r] /\ Reserved(r, id, row)
    BY <1>2, <1>5, <2>1
  <2>3. CASE UNCHANGED tables
    BY <2>1, <2>2, <2>3 DEF tables, Reserved
  <2>4. CASE Commit(q)
    <3>1. limites'[id] = limites[id]
      BY <1>2, <1>4, <2>1, <2>4, EditedRowStays
    <3>2. id \in LimitIds
      BY <1>1, <1>2, <1>3, <1>4, <2>1 DEF Typed, RequestsOf, CommandsOf, EditCommands
    <3>3. QED
      BY <1>3, <2>1, <2>2, <2>4, <3>1, <3>2, ReservedStays
  <2>5. QED
    BY <1>7, <2>3, <2>4
<1>8. CASE Handle(r)
  BY <1>2, <1>4, <1>8, EditReserves
<1>9. CASE Respond(r) /\ UNCHANGED tables
  BY <1>1, <1>3, <1>5, <1>9 DEF Respond, MoveTo, tables, Reserved
<1>10. ASSUME Commit(r) \/ Lose(r) \/ Aborts(r)
       PROVE  FALSE
  BY <1>1, <1>2, <1>3, <1>10 DEF Commit, EndCommitted, Lose, Aborts, Rollback
<1>11. QED
  BY <1>3, <1>6, <1>7, <1>8, <1>9, <1>10, StepShape, HandleShape

LEMMA LimitsCompatibleKept ==
  ASSUME RequestInv, LimitInv, [Next]_vars
  PROVE  LimitsCompatible'
<1>1. CASE UNCHANGED tables
  BY <1>1 DEF tables, LimitInv, LimitsCompatible, Compatible, LimitKeys, OverlapKeys,
              OpenEndedKeys, Covers
<1>2. QED
  BY <1>1, CompatibleAfterCommit, TablesWritten

\* Two limits of one breadth in force for one sale would share the day of the sale.
LEMMA OneOfEachBreadth ==
  ASSUME LimitsCompatible, RequestInv
  PROVE  OneLimitApplies
<1>1. SUFFICES ASSUME NEW tenant \in Tenants, NEW seller \in Sellers, NEW n \in Numbers,
                      NEW config \in Configs, NEW d \in Dates,
                      NEW a \in InForce(tenant, seller, n, config, d),
                      NEW b \in InForce(tenant, seller, n, config, d),
                      Breadth(limites[a]) = Breadth(limites[b]), a # b
               PROVE  FALSE
  BY DEF OneLimitApplies
<1>2. limites[a].config = limites[b].config /\ limites[a].seller = limites[b].seller
  <2>1. /\ limites[a].config = None <=> limites[b].config = None
        /\ limites[a].seller = None <=> limites[b].seller = None
    BY <1>1 DEF Breadth
  <2>2. QED
    BY <2>1 DEF InForce
<1>3. /\ <<"limite", tenant, limites[a].seller, limites[a].config, n, d>> \in LimitKeys(limites[a])
      /\ <<"limite", tenant, limites[b].seller, limites[b].config, n, d>> \in LimitKeys(limites[b])
  BY DEF InForce, LimitKeys, OverlapKeys
<1>4. QED
  BY <1>1, <1>2, <1>3 DEF LimitsCompatible, Compatible, InForce

\* LimitInv is inductive relative to RequestInv.
THEOREM LimitsSound == Spec => []LimitInv
<1>1. RequestInv /\ LimitInv /\ [Next]_vars => LimitInv'
  BY LimitsCompatibleKept, LimitsInsertedKept, LimitsEditedKept, LimitsCreatedKept DEF LimitInv
<1>2. QED
  BY LimitInvInit, <1>1, RequestsSound, PTL DEF Spec

\* Whatever limits are created and edited at once, the limit that applies to a
\* detail row is determined: fn_limite_numero_aplicable has no tie to break.
THEOREM LimitsAreUnambiguous == Spec => []OneLimitApplies
<1>1. RequestInv /\ LimitInv => OneLimitApplies
  BY OneOfEachBreadth DEF LimitInv
<1>2. QED
  BY <1>1, RequestsSound, LimitsSound, PTL

(***************************************************************************)
(* What a set of sales has of a number                                     *)
(***************************************************************************)
\* What the sales S have of a number, when their commands are c.
Total(c, n, S) == MapThenSumSet(LAMBDA v : AmountOf(c[v].items, n), S)
Amounts(c, n, S) == [v \in S |-> AmountOf(c[v].items, n)]

LEMMA TotalIsSum ==
  ASSUME NEW c, NEW n, NEW S, IsFiniteSet(S)
  PROVE  Total(c, n, S) = SumOf(Amounts(c, n, S), S)
<1> DEFINE f == Amounts(c, n, S)
           Fold(h) == h = [s \in SUBSET S |->
             IF s = {} THEN 0
             ELSE LET v == CHOOSE v \in s : TRUE IN AmountOf(c[v].items, n) + h[s \ {v}]]
           iter == CHOOSE h : Fold(h)
<1>1. \A s \in SUBSET S : s # {} =>
        LET v == CHOOSE v \in s : TRUE IN f[v] = AmountOf(c[v].items, n)
  BY DEF Amounts
<1>2. \A h : Fold(h) <=> IsSum(h, f, S)
  <2> HIDE DEF f
  <2>1. QED  BY <1>1 DEF IsSum
<1>3. \E h : IsSum(h, f, S)
  <2> HIDE DEF f
  <2>1. QED  BY SumExists
<1>4. Total(c, n, S) = iter[S]
  BY DEF Total, MapThenSumSet, MapThenFoldSet
<1> HIDE DEF Fold
<1>5. Fold(iter)
  BY <1>2, <1>3
<1> HIDE DEF iter
<1>6. IsSum(iter, f, S)
  <2> HIDE DEF f
  <2>1. QED  BY <1>2, <1>5
<1>7. SumOf(f, S) = iter[S]
  <2> HIDE DEF f
  <2>1. QED  BY <1>6, SumIs
<1>8. QED  BY <1>4, <1>7

LEMMA TotalSubset ==
  ASSUME NEW c, NEW n, NEW S, IsFiniteSet(S), \A v \in S : AmountOf(c[v].items, n) \in Nat,
         NEW T \in SUBSET S
  PROVE  Total(c, n, S) \in Nat /\ Total(c, n, T) \in Nat /\ Total(c, n, T) <= Total(c, n, S)
<1> DEFINE f == Amounts(c, n, S)
<1>1. IsFiniteSet(T) /\ \A v \in S : f[v] \in Nat
  BY FS_Subset DEF Amounts
<1>2. \A v \in T : Amounts(c, n, T)[v] = f[v]
  BY DEF Amounts
<1> HIDE DEF f
<1>3. SumOf(Amounts(c, n, T), T) = SumOf(f, T)
  BY <1>1, <1>2, SumSame
<1>4. SumOf(f, T) \in Nat /\ SumOf(f, S) \in Nat /\ SumOf(f, T) <= SumOf(f, S)
  BY <1>1, SumSubset
<1>5. Total(c, n, S) = SumOf(f, S) /\ Total(c, n, T) = SumOf(f, T)
  BY <1>1, <1>3, TotalIsSum DEF f
<1>6. QED  BY <1>4, <1>5

LEMMA TotalAdd ==
  ASSUME NEW c, NEW n, NEW S, IsFiniteSet(S), NEW x, x \notin S,
         \A v \in S \cup {x} : AmountOf(c[v].items, n) \in Nat
  PROVE  Total(c, n, S \cup {x}) = Total(c, n, S) + AmountOf(c[x].items, n)
<1> DEFINE T == S \cup {x}
           f == Amounts(c, n, T)
<1>1. IsFiniteSet(T) /\ (\A v \in T : f[v] \in Int) /\ f[x] = AmountOf(c[x].items, n)
  BY FS_AddElement DEF Amounts
<1>2. \A v \in S : Amounts(c, n, S)[v] = f[v]
  BY DEF Amounts
<1> HIDE DEF f
<1>3. SumOf(Amounts(c, n, S), S) = SumOf(f, S)
  BY <1>2, SumSame
<1>4. SumOf(f, T) = SumOf(f, S) + f[x]
  BY <1>1, SumAdd
<1>5. Total(c, n, T) = SumOf(f, T) /\ Total(c, n, S) = SumOf(f, S)
  BY <1>1, <1>3, TotalIsSum DEF f
<1>6. QED  BY <1>1, <1>4, <1>5

LEMMA AccumulatedIsTotal ==
  ASSUME NEW id, NEW n, NEW d
  PROVE  Accumulated(id, n, d) = Total(cmd, n, SalesUnder(id, n, d))
BY DEF Accumulated, Total

LEMMA AccumulatedIsTotalPrimed ==
  ASSUME NEW id, NEW n, NEW d
  PROVE  Accumulated(id, n, d)' = Total(cmd', n, SalesUnder(id, n, d)')
BY DEF Accumulated, Total, MapThenSumSet, MapThenFoldSet

(***************************************************************************)
(* The limit of a sale                                                     *)
(***************************************************************************)
LEMMA Narrowest ==
  ASSUME NEW C, C # {}, NEW f, \A x \in C : f[x] \in {0, 1, 2, 3}
  PROVE  \E x \in C : \A y \in C : f[x] <= f[y]
<1>1. CASE \E x \in C : f[x] = 0
  BY <1>1
<1>2. CASE (\E x \in C : f[x] = 1) /\ (\A x \in C : f[x] # 0)
  BY <1>2
<1>3. CASE (\E x \in C : f[x] = 2) /\ (\A x \in C : f[x] \notin {0, 1})
  BY <1>3
<1>4. CASE \A x \in C : f[x] \notin {0, 1, 2}
  BY <1>4
<1>5. QED  BY <1>1, <1>2, <1>3, <1>4

LEMMA BreadthType ==
  ASSUME NEW row
  PROVE  /\ Breadth(row) \in {0, 1, 2, 3}
         /\ row.config = None => Breadth(row) >= 2
         /\ row.config # None => Breadth(row) <= 1
BY DEF Breadth

\* The narrowest limit in force is the one that applies: there is only one.
LEMMA NarrowestApplies ==
  ASSUME OneLimitApplies,
         NEW tenant \in Tenants, NEW seller \in Sellers, NEW n \in Numbers,
         NEW config \in Configs, NEW d \in Dates,
         NEW id \in InForce(tenant, seller, n, config, d),
         \A other \in InForce(tenant, seller, n, config, d) :
           Breadth(limites[id]) <= Breadth(limites[other])
  PROVE  ApplicableLimit(tenant, seller, n, config, d) = id
<1> DEFINE C == InForce(tenant, seller, n, config, d)
           best == CHOOSE x \in C : \A y \in C : Breadth(limites[x]) <= Breadth(limites[y])
<1>1. best \in C /\ \A y \in C : Breadth(limites[best]) <= Breadth(limites[y])
  OBVIOUS
<1>2. ApplicableLimit(tenant, seller, n, config, d) = best
  BY DEF ApplicableLimit
<1> HIDE DEF best
<1>3. Breadth(limites[best]) = Breadth(limites[id])
  BY <1>1, BreadthType
<1>4. QED  BY <1>1, <1>2, <1>3 DEF OneLimitApplies

\* Conversely, the one that applies in a state is the narrowest there.
LEMMA AppliedIsNarrowest ==
  ASSUME NEW C, C # {}, NEW f, \A x \in C : f[x] \in {0, 1, 2, 3}, NEW id,
         id = CHOOSE x \in C : \A y \in C : f[x] <= f[y]
  PROVE  id \in C /\ \A y \in C : f[id] <= f[y]
BY Narrowest

LEMMA SaleCommandType ==
  ASSUME Typed, NEW v \in SaleIds, phase[v] # "idle"
  PROVE  /\ v \in Requests /\ Kind[v] = "createSale" /\ cmd[v] \in SaleCommands
         /\ cmd[v].shift \in Shifts /\ cmd[v].seller \in Sellers /\ cmd[v].items \in Baskets
         /\ DateOf[cmd[v].shift] \in Dates /\ ConfigOf[cmd[v].shift] \in Configs
         /\ TenantOf[ConfigOf[cmd[v].shift]] \in Tenants
<1>1. v \in Requests /\ Kind[v] = "createSale"
  BY DEF SaleIds, RequestsOf
<1>2. cmd[v] \in SaleCommands
  BY <1>1 DEF Typed, CommandsOf
<1>3. QED  BY <1>1, <1>2, ShiftAssumption DEF SaleCommands

\* A row under the limit of a draw is of a shift of that draw.
LEMMA LimitOfShift ==
  ASSUME NEW v, NEW n, NEW id \in LimitIds, OfDraw(id), LimitFor(v, n) = id
  PROVE  limites[id].config = ConfigOf[cmd[v].shift]
<1> DEFINE C == InForce(TenantOf[ConfigOf[cmd[v].shift]], cmd[v].seller, n,
                        ConfigOf[cmd[v].shift], SaleDate(v))
           f == [x \in C |-> Breadth(limites[x])]
<1>1. id # None
  BY LimitAssumption
<1>2. C # {} /\ id = CHOOSE x \in C : \A y \in C : f[x] <= f[y]
  BY <1>1 DEF LimitFor, ApplicableLimit
<1>3. \A x \in C : f[x] \in {0, 1, 2, 3}
  BY BreadthType
<1>4. id \in C
  <2> HIDE DEF f, C
  <2>1. QED  BY <1>2, <1>3, AppliedIsNarrowest
<1>5. QED  BY <1>4 DEF InForce, OfDraw


\* As long as the limits of draws stay, the sales under one of them do.
LEMMA ApplicableStays ==
  ASSUME OneLimitApplies,
         NEW tenant \in Tenants, NEW seller \in Sellers, NEW n \in Numbers,
         NEW config \in Configs, NEW d \in Dates, NEW id \in LimitIds,
         \A x \in LimitIds : OfDraw(x) \/ OfDraw(x)' => limites'[x] = limites[x],
         OfDraw(id)', ApplicableLimit(tenant, seller, n, config, d)' = id
  PROVE  ApplicableLimit(tenant, seller, n, config, d) = id
<1> DEFINE C == InForce(tenant, seller, n, config, d)
           D == InForce(tenant, seller, n, config, d)'
           f == [x \in D |-> Breadth(limites'[x])]
<1>1. id # None
  BY LimitAssumption
<1>2. D # {} /\ id = CHOOSE x \in D : \A y \in D : f[x] <= f[y]
  BY <1>1 DEF ApplicableLimit, Breadth
<1>3. \A x \in D : f[x] \in {0, 1, 2, 3}
  BY BreadthType
<1>4. id \in D /\ \A y \in D : f[id] <= f[y]
  <2> HIDE DEF f, D
  <2>1. QED  BY <1>2, <1>3, AppliedIsNarrowest
<1>5. limites'[id] = limites[id] /\ OfDraw(id)
  BY DEF OfDraw
<1>6. id \in C
  BY <1>4, <1>5 DEF InForce, Covers
<1>7. ASSUME NEW y \in C PROVE Breadth(limites[id]) <= Breadth(limites[y])
  <2>1. CASE OfDraw(y)
    <3>1. limites'[y] = limites[y]
      BY <2>1 DEF InForce
    <3>2. y \in D
      BY <3>1 DEF InForce, Covers
    <3>3. QED  BY <1>4, <1>5, <3>1, <3>2
  <2>2. CASE ~OfDraw(y)
    <3>1. limites[y].config = None /\ limites[id].config # None
      BY <1>5, <2>2 DEF OfDraw, InForce
    <3>2. Breadth(limites[y]) >= 2 /\ Breadth(limites[id]) <= 1
      BY <3>1, BreadthType
    <3>3. Breadth(limites[y]) \in {0, 1, 2, 3} /\ Breadth(limites[id]) \in {0, 1, 2, 3}
      BY BreadthType
    <3>4. QED  BY <3>2, <3>3
  <2>3. QED  BY <2>1, <2>2
<1>8. QED
  <2> HIDE DEF f, D
  <2>1. QED  BY <1>6, <1>7, NarrowestApplies

LEMMA LimitForStays ==
  ASSUME RequestInv, OneLimitApplies,
         NEW v \in SaleIds, phase[v] # "idle", cmd'[v] = cmd[v],
         NEW n \in Numbers, NEW id \in LimitIds,
         \A x \in LimitIds : OfDraw(x) \/ OfDraw(x)' => limites'[x] = limites[x],
         OfDraw(id)', LimitFor(v, n)' = id
  PROVE  LimitFor(v, n) = id /\ OfDraw(id) /\ limites'[id] = limites[id]
<1>1. PICK shift, tenant, seller, config, d :
        /\ shift = cmd[v].shift /\ config = ConfigOf[shift] /\ tenant = TenantOf[config]
        /\ seller = cmd[v].seller /\ d = DateOf[shift]
  OBVIOUS
<1>2. tenant \in Tenants /\ seller \in Sellers /\ config \in Configs /\ d \in Dates
  BY <1>1, SaleCommandType DEF RequestInv
<1>3. LimitFor(v, n) = ApplicableLimit(tenant, seller, n, config, d)
  BY <1>1 DEF LimitFor, SaleDate
<1>4. LimitFor(v, n)' = ApplicableLimit(tenant, seller, n, config, d)'
  BY <1>1 DEF LimitFor, SaleDate
<1>5. ApplicableLimit(tenant, seller, n, config, d) = id
  BY <1>2, <1>4, ApplicableStays
<1>6. OfDraw(id) /\ limites'[id] = limites[id]
  BY DEF OfDraw
<1>7. QED  BY <1>3, <1>5, <1>6

(***************************************************************************)
(* What has been sold under a limit                                        *)
(***************************************************************************)
Active == {v \in SaleIds : venta[v] = "ACTIVA"}
FiniteSales == IsFiniteSet(Active)

LEMMA FiniteSalesKept ==
  ASSUME FiniteSales, [Next]_vars
  PROVE  FiniteSales'
<1>1. CASE UNCHANGED tables
  BY <1>1 DEF tables, saleVars, FiniteSales, Active
<1>2. ASSUME NEW r \in Requests, Commit(r) PROVE FiniteSales'
  <2>1. Active' \subseteq Active \cup {r}
    BY <1>2 DEF Commit, SaleCommit, Active
  <2>2. IsFiniteSet(Active \cup {r})
    BY FS_AddElement DEF FiniteSales
  <2>3. QED  BY <2>1, <2>2, FS_Subset DEF FiniteSales
<1>3. QED  BY <1>1, <1>2, TablesWritten

LEMMA UnderType ==
  ASSUME RequestInv, SalesCommitted, FiniteSales, NEW id, NEW n, NEW d
  PROVE  /\ IsFiniteSet(SalesUnder(id, n, d))
         /\ \A v \in SalesUnder(id, n, d) : v \in SaleIds /\ AmountOf(cmd[v].items, n) \in Nat
         /\ Accumulated(id, n, d) \in Nat
<1> DEFINE S == SalesUnder(id, n, d)
           f == Amounts(cmd, n, S)
<1>1. IsFiniteSet(S)
  <2>1. S \subseteq Active
    BY DEF SalesUnder, Active
  <2>2. QED  BY <2>1, FS_Subset DEF FiniteSales
<1>2. \A v \in S : v \in SaleIds /\ AmountOf(cmd[v].items, n) \in Nat
  <2>1. TAKE v \in S
  <2>2. v \in SaleIds /\ phase[v] = "committed"
    BY DEF SalesUnder, SalesCommitted
  <2>3. cmd[v].items \in Baskets
    BY <2>2, SaleCommandType DEF RequestInv
  <2>4. QED  BY <2>2, <2>3, AmountType
<1>3. \A v \in S : f[v] \in Nat
  BY <1>2 DEF Amounts
<1>4. Accumulated(id, n, d) = SumOf(f, S)
  BY <1>1, AccumulatedIsTotal, TotalIsSum
<1> HIDE DEF f, S
<1>5. SumOf(f, S) \in Nat
  BY <1>1, <1>3, SumSubset
<1>6. QED  BY <1>1, <1>2, <1>4, <1>5 DEF S

\* Only a commit changes what has been sold under a limit.
LEMMA AccumulatedStays ==
  ASSUME RequestInv, SalesCommitted, FiniteSales, [Next]_vars, UNCHANGED tables,
         NEW id, NEW n, NEW d
  PROVE  Accumulated(id, n, d)' = Accumulated(id, n, d)
<1> DEFINE S == SalesUnder(id, n, d)
<1>1. \A v \in Active : cmd'[v] = cmd[v]
  BY SalesStay DEF Active
<1>2. SalesUnder(id, n, d)' = S
  <2>1. \A v \in Active : LimitFor(v, n)' = LimitFor(v, n) /\ SaleDate(v)' = SaleDate(v)
    <3>1. TAKE v \in Active
    <3>2. PICK shift, tenant, seller, config, date :
            /\ shift = cmd[v].shift /\ config = ConfigOf[shift] /\ tenant = TenantOf[config]
            /\ seller = cmd[v].seller /\ date = DateOf[shift]
      OBVIOUS
    <3>3. /\ LimitFor(v, n) = ApplicableLimit(tenant, seller, n, config, date)
          /\ LimitFor(v, n)' = ApplicableLimit(tenant, seller, n, config, date)'
          /\ SaleDate(v)' = SaleDate(v)
      BY <1>1, <3>2 DEF LimitFor, SaleDate
    <3>4. ApplicableLimit(tenant, seller, n, config, date)'
            = ApplicableLimit(tenant, seller, n, config, date)
      BY DEF tables, ApplicableLimit, InForce, Breadth, Covers
    <3>5. QED  BY <3>3, <3>4
  <2>2. Active' = Active
    BY DEF tables, saleVars, Active
  <2>3. /\ S = {v \in Active : SaleDate(v) = d /\ LimitFor(v, n) = id}
        /\ SalesUnder(id, n, d)' = {v \in Active' : SaleDate(v)' = d /\ LimitFor(v, n)' = id}
    BY DEF SalesUnder, Active
  <2>4. QED  BY <2>1, <2>2, <2>3
<1>3. S \subseteq Active /\ IsFiniteSet(S)
  BY UnderType DEF SalesUnder, Active
<1> HIDE DEF S
<1>4. Amounts(cmd', n, S) = Amounts(cmd, n, S)
  BY <1>1, <1>3 DEF Amounts
<1>5. Total(cmd', n, S) = Total(cmd, n, S)
  BY <1>3, <1>4, TotalIsSum
<1>6. QED  BY <1>2, <1>5, AccumulatedIsTotal, AccumulatedIsTotalPrimed DEF S

DrawLimitsKept == \A x \in LimitIds : OfDraw(x) \/ OfDraw(x)' => limites'[x] = limites[x]

\* A commit adds to what has been sold under a draw's limit at most what the
\* committed sale has of the number.
LEMMA AccumulatedGrows ==
  ASSUME RequestInv, SalesCommitted, FiniteSales, OneLimitApplies, DrawLimitsKept,
         NEW r \in Requests, Commit(r),
         NEW id \in LimitIds, OfDraw(id)', NEW n \in Numbers, NEW d
  PROVE  /\ Accumulated(id, n, d)' \in Nat
         /\ \/ Accumulated(id, n, d)' <= Accumulated(id, n, d)
            \/ /\ r \in SaleIds /\ SaleDate(r) = d /\ LimitFor(r, n) = id
               /\ Accumulated(id, n, d)' <= Accumulated(id, n, d) + AmountOf(cmd[r].items, n)
<1> DEFINE S == SalesUnder(id, n, d)
           T == SalesUnder(id, n, d)'
<1>1. cmd' = cmd /\ phase[r] = "acked" /\ SaleCommit(r)
  BY DEF Commit, EndCommitted
<1>2. \A v \in T : v \in SaleIds /\ (v = r \/ venta[v] = "ACTIVA") /\ phase[v] # "idle"
  BY <1>1 DEF SalesUnder, SaleCommit, SalesCommitted
<1>3. \A v \in T : SaleDate(v) = d /\ LimitFor(v, n) = id
  <2>1. TAKE v \in T
  <2>2. SaleDate(v) = d /\ LimitFor(v, n)' = id
    BY <1>1 DEF SalesUnder, SaleDate
  <2>3. QED  BY <1>1, <1>2, <2>2, LimitForStays DEF DrawLimitsKept
<1>4. T \subseteq S \cup {r}
  BY <1>2, <1>3 DEF SalesUnder
<1>5. /\ IsFiniteSet(S) /\ \A v \in S : AmountOf(cmd[v].items, n) \in Nat
      /\ Accumulated(id, n, d) = Total(cmd, n, S) /\ Accumulated(id, n, d)' = Total(cmd, n, T)
  BY <1>1, UnderType, AccumulatedIsTotal, AccumulatedIsTotalPrimed
<1>6. CASE r \notin T
  <2>1. T \in SUBSET S
    BY <1>4, <1>6
  <2> HIDE DEF S, T
  <2>2. QED  BY <1>5, <2>1, TotalSubset
<1>7. CASE r \in T
  <2>1. r \in SaleIds /\ SaleDate(r) = d /\ LimitFor(r, n) = id
    BY <1>2, <1>3, <1>7
  <2>2. r \notin S
    BY <1>1, <2>1 DEF SalesUnder, SalesCommitted
  <2>3. AmountOf(cmd[r].items, n) \in Nat
    BY <1>1, <2>1, SaleCommandType, AmountType DEF RequestInv
  <2> HIDE DEF S, T
  <2>4. IsFiniteSet(S \cup {r}) /\ \A v \in S \cup {r} : AmountOf(cmd[v].items, n) \in Nat
    BY <1>5, <2>3, FS_AddElement
  <2>5. Total(cmd, n, S \cup {r}) = Total(cmd, n, S) + AmountOf(cmd[r].items, n)
    BY <1>5, <2>2, <2>4, TotalAdd
  <2>6. Total(cmd, n, T) \in Nat /\ Total(cmd, n, T) <= Total(cmd, n, S \cup {r})
    BY <1>4, <2>4, TotalSubset
  <2>7. QED  BY <1>5, <2>1, <2>5, <2>6
<1>8. QED  BY <1>6, <1>7

(***************************************************************************)
(* The loop of a sale                                                      *)
(***************************************************************************)
\* One more row is accepted, or the sale has none yet.
LEMMA SaleTurn ==
  ASSUME Typed, SalesWithinBasket, NEW v \in SaleIds, Handle(v),
         phase'[v] \notin {"rolledback"}
  PROVE  /\ Kind[v] = "createSale" /\ v \in Requests
         /\ \/ phase'[v] = "reading" /\ done'[v] = 0
            \/ phase'[v] = "writing" /\ done'[v] = 0 /\ cmd'[v] = cmd[v] /\ phase[v] = "reading"
            \/ /\ phase[v] = "writing" /\ cmd'[v] = cmd[v] /\ done'[v] = done[v] + 1
               /\ phase'[v] = IF done[v] + 1 = Len(cmd[v].items) THEN "responding" ELSE "writing"
               /\ held'[v] = held[v] \cup {DetailLock(v)}
               /\ DetailAccepted(v)
<1>1. /\ v \in Requests /\ Kind[v] = "createSale"
      /\ phase \in [Requests -> Phases] /\ DOMAIN held = Requests /\ DOMAIN cmd = Requests
      /\ done \in [Requests -> Nat]
  BY DEF SaleIds, RequestsOf, Typed
<1>2. SaleStep(v)
  BY <1>1 DEF Handle, ShiftStep, LimitStep, BlockStep, PrizeStep
<1>3. CASE Receive(v, SaleCommands, "reading")
  BY <1>1, <1>3 DEF Receive, SalesWithinBasket
<1>4. CASE CreateSaleCheck(v)
  BY <1>1, <1>4 DEF CreateSaleCheck, Write, Rollback, SalesWithinBasket
<1>5. CASE CreateSaleDetail(v)
  BY <1>1, <1>5 DEF CreateSaleDetail, Write, Rollback
<1>6. QED  BY <1>1, <1>2, <1>3, <1>4, <1>5 DEF SaleStep

LEMMA SalesWithinBasketKept ==
  ASSUME RequestInv, SalesWithinBasket, [Next]_vars
  PROVE  SalesWithinBasket'
<1>1. Typed /\ phase \in [Requests -> Phases] /\ done \in [Requests -> Nat]
  BY DEF RequestInv, Typed
<1>2. SUFFICES ASSUME NEW v \in SaleIds
      PROVE  /\ phase'[v] \in {"idle", "reading"} => done'[v] = 0
             /\ phase'[v] = "writing" => done'[v] < Len(cmd'[v].items)
             /\ phase'[v] \in {"responding", "acked", "committed"} => done'[v] = Len(cmd'[v].items)
  BY DEF SalesWithinBasket
<1>3. v \in Requests /\ done[v] \in Nat
  BY <1>1 DEF SaleIds, RequestsOf
<1>4. CASE UNCHANGED vars
  BY <1>4 DEF vars, txVars, SalesWithinBasket
<1>5. ASSUME NEW r \in Requests \ {v}, Handle(r) \/ Respond(r) \/ Commit(r) \/ Lose(r) \/ Aborts(r)
      PROVE  phase'[v] = phase[v] /\ cmd'[v] = cmd[v] /\ done'[v] = done[v]
  BY <1>1, <1>3, <1>5, OthersUntouched, DoneUntouched
<1>6. CASE Handle(v)
  <2>1. CASE phase'[v] = "rolledback"
    BY <2>1
  <2>2. CASE phase'[v] # "rolledback" /\ phase[v] \in {"reading", "writing"}
    <3>1. cmd[v].items \in Baskets
      BY <1>1, <2>2, SaleCommandType
    <3>2. Len(cmd[v].items) \in Nat \ {0}
      BY <3>1, BasketItems
    <3>3. phase[v] = "writing" => done[v] < Len(cmd[v].items)
      BY DEF SalesWithinBasket
    <3>4. QED  BY <1>1, <1>3, <1>6, <2>2, <3>2, <3>3, SaleTurn
  <2>3. CASE phase'[v] # "rolledback" /\ phase[v] \notin {"reading", "writing"}
    BY <1>1, <1>6, <2>3, SaleTurn
  <2>4. QED  BY <2>1, <2>2, <2>3
<1>7. CASE Respond(v) \/ Commit(v) \/ Lose(v) \/ Aborts(v)
  BY <1>1, <1>3, <1>7
  DEF Respond, MoveTo, Commit, EndCommitted, Lose, Aborts, Rollback, Running, SalesWithinBasket
<1>8. QED  BY <1>3, <1>4, <1>5, <1>6, <1>7, StepShape DEF SalesWithinBasket

\* What DetailsPending says of one row.
Fits(v, i) ==
  /\ AdvisoryLock(cmd[v].shift, cmd[v].items[i].number) \in held[v]
  /\ \A id \in LimitIds : OfDraw(id) /\ LimitFor(v, cmd[v].items[i].number) = id =>
       Accumulated(id, cmd[v].items[i].number, SaleDate(v)) + cmd[v].items[i].miles
         <= limites[id].miles

\* What it takes for a row to fit after a step that leaves its command alone.
LEMMA FitsAfter ==
  ASSUME RequestInv, OneLimitApplies, DrawLimitsKept,
         NEW v \in SaleIds, phase[v] # "idle", cmd'[v] = cmd[v], NEW i \in DOMAIN cmd[v].items,
         NEW n, n = cmd[v].items[i].number, NEW m, m = cmd[v].items[i].miles,
         NEW d, d = SaleDate(v),
         AdvisoryLock(cmd[v].shift, n) \in held'[v],
         \A id \in LimitIds : OfDraw(id) /\ OfDraw(id)' /\ LimitFor(v, n) = id =>
           Accumulated(id, n, d)' + m <= limites[id].miles
  PROVE  Fits(v, i)'
<1>1. n \in Numbers
  BY SaleCommandType, BasketItems DEF RequestInv
<1>2. SaleDate(v)' = d
  BY DEF SaleDate
<1>3. ASSUME NEW id \in LimitIds, OfDraw(id)', LimitFor(v, n)' = id
      PROVE  Accumulated(id, n, d)' + m <= limites'[id].miles
  <2>1. LimitFor(v, n) = id /\ OfDraw(id) /\ limites'[id] = limites[id]
    BY <1>1, <1>3, LimitForStays DEF DrawLimitsKept
  <2>2. QED  BY <1>3, <2>1
<1>4. QED  BY <1>2, <1>3 DEF Fits, AdvisoryLock

LEMMA LimitMiles ==
  ASSUME RequestInv, NEW id \in LimitIds, limites[id] # None
  PROVE  limites[id].miles \in Nat
<1>1. limites[id] \in LimitRows
  BY DEF RequestInv, Typed
<1>2. QED  BY <1>1 DEF LimitRows

\* The rows of an open sale, as the invariants have them.
LEMMA RowsOfSale ==
  ASSUME RequestInv, SalesWithinBasket, NEW v \in SaleIds,
         phase[v] \in {"writing", "responding", "acked"}
  PROVE  /\ \A i \in 1..done[v] : i \in DOMAIN cmd[v].items
         /\ phase[v] = "writing" =>
              done[v] + 1 \in DOMAIN cmd[v].items /\ done[v] \in Nat
         /\ phase[v] # "writing" => 1..done[v] = DOMAIN cmd[v].items
<1>1. /\ cmd[v].items \in Baskets /\ v \in Requests
      /\ done \in [Requests -> Nat]
  BY SaleCommandType DEF RequestInv, Typed
<1>2. /\ DOMAIN cmd[v].items = 1..Len(cmd[v].items) /\ Len(cmd[v].items) \in Nat
      /\ done[v] \in Nat
  BY <1>1, BasketItems
<1>3. /\ phase[v] = "writing" => done[v] < Len(cmd[v].items)
      /\ phase[v] # "writing" => done[v] = Len(cmd[v].items)
  BY DEF SalesWithinBasket
<1>4. QED  BY <1>2, <1>3

\* Another sale's commit adds nothing under a row's limit: of the row's number it
\* would have needed the advisory lock that this sale holds.
LEMMA CommitAddsNothing ==
  ASSUME RequestInv, SalesCommitted, FiniteSales, OneLimitApplies, DrawLimitsKept,
         SalesWithinBasket, DetailsPending,
         NEW v \in SaleIds, phase[v] \in {"writing", "responding", "acked"},
         NEW n \in Numbers, AdvisoryLock(cmd[v].shift, n) \in held[v],
         NEW id \in LimitIds, OfDraw(id), OfDraw(id)', LimitFor(v, n) = id,
         NEW d, d = SaleDate(v),
         NEW r \in Requests \ {v}, Commit(r)
  PROVE  Accumulated(id, n, d)' \in Nat /\ Accumulated(id, n, d)' <= Accumulated(id, n, d)
<1>1. SUFFICES ASSUME /\ r \in SaleIds /\ SaleDate(r) = d /\ LimitFor(r, n) = id
                      /\ Accumulated(id, n, d)' <= Accumulated(id, n, d) + AmountOf(cmd[r].items, n)
               PROVE  Accumulated(id, n, d)' <= Accumulated(id, n, d)
  BY AccumulatedGrows
<1>2. phase[r] = "acked"
  BY DEF Commit, EndCommitted
<1>3. ASSUME NEW j \in DOMAIN cmd[r].items, cmd[r].items[j].number = n
      PROVE  FALSE
  <2>1. j \in 1..done[r]
    BY <1>1, <1>2, RowsOfSale
  <2>2. AdvisoryLock(cmd[r].shift, n) \in held[r]
    BY <1>1, <1>2, <1>3, <2>1 DEF DetailsPending
  <2>3. ConfigOf[cmd[r].shift] = ConfigOf[cmd[v].shift]
    BY <1>1, LimitOfShift
  <2>4. /\ cmd[r].shift \in Shifts /\ cmd[v].shift \in Shifts
        /\ DateOf[cmd[r].shift] = DateOf[cmd[v].shift]
    BY <1>1, <1>2, SaleCommandType DEF RequestInv, SaleDate
  <2>5. cmd[r].shift = cmd[v].shift
    BY <2>3, <2>4, ShiftAssumption
  <2>6. v \in Requests /\ r \in Requests /\ v # r
    BY DEF SaleIds, RequestsOf
  <2>7. QED  BY <2>2, <2>5, <2>6 DEF RequestInv, LocksExclusive
<1>4. AmountOf(cmd[r].items, n) = 0
  BY <1>3, AmountOfOthers
<1>5. Accumulated(id, n, d) \in Nat
  BY UnderType
<1>6. QED  BY <1>1, <1>4, <1>5

LEMMA DetailsPendingKept ==
  ASSUME RequestInv, SalesCommitted, FiniteSales, OneLimitApplies, DrawLimitsKept,
         SalesWithinBasket, DetailsPending, [Next]_vars
  PROVE  DetailsPending'
<1>1. Typed /\ phase \in [Requests -> Phases] /\ DOMAIN held = Requests /\ done \in [Requests -> Nat]
  BY DEF RequestInv, Typed
<1>2. SUFFICES ASSUME NEW v \in SaleIds, phase'[v] \in {"writing", "responding", "acked"},
                      NEW i \in 1..done'[v]
               PROVE  Fits(v, i)'
  BY DEF DetailsPending, Fits
<1>3. v \in Requests
  BY DEF SaleIds, RequestsOf
<1>4. ASSUME UNCHANGED tables, cmd'[v] = cmd[v], held[v] \subseteq held'[v],
             phase[v] \in {"writing", "responding", "acked"}, i \in 1..done[v]
      PROVE  Fits(v, i)'
  <2>1. i \in DOMAIN cmd[v].items
    BY <1>4, RowsOfSale
  <2>2. Fits(v, i)
    BY <1>4 DEF DetailsPending, Fits
  <2>3. \A id, n, d : Accumulated(id, n, d)' = Accumulated(id, n, d)
    BY <1>4, AccumulatedStays
  <2>4. QED  BY <1>4, <2>1, <2>2, <2>3, FitsAfter DEF Fits
<1>5. CASE UNCHANGED vars
  <2>1. UNCHANGED tables
    BY <1>5 DEF vars, tables
  <2>2. QED  BY <1>2, <1>4, <1>5, <2>1 DEF vars, txVars
<1>6. ASSUME NEW r \in Requests \ {v},
             Handle(r) \/ Respond(r) \/ Commit(r) \/ Lose(r) \/ Aborts(r),
             UNCHANGED tables \/ Commit(r)
      PROVE  Fits(v, i)'
  <2>1. /\ phase'[v] = phase[v] /\ cmd'[v] = cmd[v] /\ held'[v] = held[v]
        /\ done'[v] = done[v]
    BY <1>1, <1>3, <1>6, OthersUntouched, DoneUntouched
  <2>2. CASE UNCHANGED tables
    BY <1>2, <1>4, <2>1, <2>2
  <2>3. CASE Commit(r)
    <3>1. i \in DOMAIN cmd[v].items
      BY <1>2, <2>1, RowsOfSale
    <3>2. Fits(v, i)
      BY <1>2, <2>1 DEF DetailsPending, Fits
    <3>3. PICK n, m, d : n = cmd[v].items[i].number /\ m = cmd[v].items[i].miles /\ d = SaleDate(v)
      OBVIOUS
    <3>4. n \in Numbers /\ m \in Nat
      BY <1>2, <2>1, <3>1, <3>3, SaleCommandType, BasketItems DEF RequestInv
    <3>5. ASSUME NEW id \in LimitIds, OfDraw(id), OfDraw(id)', LimitFor(v, n) = id
          PROVE  Accumulated(id, n, d)' + m <= limites[id].miles
      <4>1. Accumulated(id, n, d)' \in Nat /\ Accumulated(id, n, d)' <= Accumulated(id, n, d)
        BY <1>2, <2>1, <2>3, <3>2, <3>3, <3>4, <3>5, CommitAddsNothing DEF Fits
      <4>2. Accumulated(id, n, d) + m <= limites[id].miles
        BY <3>2, <3>3, <3>5 DEF Fits
      <4>3. Accumulated(id, n, d) \in Nat /\ limites[id].miles \in Nat
        BY <3>5, UnderType, LimitMiles DEF OfDraw
      <4>4. QED  BY <3>4, <4>1, <4>2, <4>3
    <3>6. QED  BY <1>2, <2>1, <3>1, <3>2, <3>3, <3>5, FitsAfter DEF Fits
  <2>4. QED  BY <1>6, <2>2, <2>3
<1>7. CASE Handle(v)
  <2>1. UNCHANGED tables
    BY <1>3, <1>7, HandleShape
  <2>2. CASE done'[v] = 0
    BY <1>2, <2>2
  <2>3. CASE done'[v] # 0
    <3>1. /\ phase[v] = "writing" /\ cmd'[v] = cmd[v] /\ done'[v] = done[v] + 1
          /\ held'[v] = held[v] \cup {DetailLock(v)} /\ DetailAccepted(v)
      BY <1>1, <1>2, <1>7, <2>3, SaleTurn
    <3>2. CASE i \in 1..done[v]
      BY <1>4, <2>1, <3>1, <3>2
    <3>3. CASE i = done[v] + 1
      <4>1. i \in DOMAIN cmd[v].items
        BY <3>1, <3>3, RowsOfSale
      <4>2. PICK n, m, d : n = cmd[v].items[i].number /\ m = cmd[v].items[i].miles /\ d = SaleDate(v)
        OBVIOUS
      <4>3. AdvisoryLock(cmd[v].shift, n) \in held'[v]
        BY <3>1, <3>3, <4>2 DEF DetailLock, NextItem
      <4>4. ASSUME NEW id \in LimitIds, LimitFor(v, n) = id
            PROVE  Accumulated(id, n, d)' + m <= limites[id].miles
        <5>1. id # None
          BY LimitAssumption
        <5>2. Accumulated(id, n, d) + m <= limites[id].miles
          BY <3>1, <3>3, <4>2, <4>4, <5>1 DEF DetailAccepted, NextItem
        <5>3. QED  BY <2>1, <5>2, AccumulatedStays
      <4>5. QED  BY <3>1, <4>1, <4>2, <4>3, <4>4, FitsAfter
    <3>4. done[v] \in Nat
      BY <1>1, <1>3
    <3>5. QED  BY <1>2, <3>1, <3>2, <3>3, <3>4
  <2>4. QED  BY <2>2, <2>3
<1>8. CASE Respond(v) /\ UNCHANGED tables
  BY <1>1, <1>2, <1>3, <1>4, <1>8 DEF Respond, MoveTo
<1>9. ASSUME Commit(v) \/ Lose(v) \/ Aborts(v)
      PROVE  FALSE
  BY <1>1, <1>2, <1>3, <1>9 DEF Commit, EndCommitted, Lose, Aborts, Rollback
<1>10. QED  BY <1>3, <1>5, <1>6, <1>7, <1>8, <1>9, StepShape, HandleShape

LEMMA DrawLimitsRespectedKept ==
  ASSUME RequestInv, SalesCommitted, FiniteSales, OneLimitApplies, DrawLimitsKept,
         DrawLimitInv, [Next]_vars
  PROVE  DrawLimitsRespected'
<1>1. DrawLimitsRespected /\ DetailsPending /\ SalesWithinBasket
  BY DEF DrawLimitInv
<1>2. SUFFICES ASSUME NEW n \in Numbers, NEW id \in LimitIds, NEW t \in Shifts,
                      NEW d, d = DateOf[t], OfDraw(id)'
               PROVE  Accumulated(id, n, d)' <= limites'[id].miles
  BY DEF DrawLimitsRespected, OfDraw
<1>3. OfDraw(id) /\ limites'[id] = limites[id]
  BY <1>2 DEF DrawLimitsKept, OfDraw
<1>4. Accumulated(id, n, d) <= limites[id].miles
  BY <1>1, <1>2, <1>3 DEF DrawLimitsRespected, OfDraw
<1>5. Accumulated(id, n, d) \in Nat /\ limites[id].miles \in Nat
  BY <1>3, UnderType, LimitMiles DEF OfDraw
<1>6. CASE UNCHANGED tables
  BY <1>3, <1>4, <1>6, AccumulatedStays
<1>7. ASSUME NEW r \in Requests, Commit(r)
      PROVE  Accumulated(id, n, d)' <= limites[id].miles
  <2>1. /\ Accumulated(id, n, d)' \in Nat
        /\ \/ Accumulated(id, n, d)' <= Accumulated(id, n, d)
           \/ /\ r \in SaleIds /\ SaleDate(r) = d /\ LimitFor(r, n) = id
              /\ Accumulated(id, n, d)' <= Accumulated(id, n, d) + AmountOf(cmd[r].items, n)
    BY <1>2, <1>7, AccumulatedGrows
  <2>2. CASE Accumulated(id, n, d)' <= Accumulated(id, n, d)
    BY <1>4, <1>5, <2>1, <2>2
  <2>3. CASE /\ r \in SaleIds /\ SaleDate(r) = d /\ LimitFor(r, n) = id
             /\ Accumulated(id, n, d)' <= Accumulated(id, n, d) + AmountOf(cmd[r].items, n)
    <3>1. phase[r] = "acked"
      BY <1>7 DEF Commit, EndCommitted
    <3>2. CASE \E i \in DOMAIN cmd[r].items : cmd[r].items[i].number = n
      <4>1. PICK i \in DOMAIN cmd[r].items : cmd[r].items[i].number = n
        BY <3>2
      <4>2. i \in 1..done[r]
        BY <1>1, <2>3, <3>1, <4>1, RowsOfSale
      <4>3. Accumulated(id, n, d) + cmd[r].items[i].miles <= limites[id].miles
        BY <1>1, <1>3, <2>3, <3>1, <4>1, <4>2 DEF DetailsPending
      <4>4. AmountOf(cmd[r].items, n) = cmd[r].items[i].miles /\ cmd[r].items[i].miles \in Nat
        BY <2>3, <3>1, <4>1, SaleCommandType, AmountOfItem DEF RequestInv
      <4>5. QED  BY <1>5, <2>1, <2>3, <4>3, <4>4
    <3>3. CASE ~ \E i \in DOMAIN cmd[r].items : cmd[r].items[i].number = n
      <4>1. AmountOf(cmd[r].items, n) = 0
        BY <3>3, AmountOfOthers
      <4>2. QED  BY <1>4, <1>5, <2>1, <2>3, <4>1
    <3>4. QED  BY <3>2, <3>3
  <2>4. QED  BY <2>1, <2>2, <2>3
<1>8. QED  BY <1>3, <1>6, <1>7, TablesWritten

LEMMA DrawLimitInvInit == Init => DrawLimitInv /\ FiniteSales
<1> SUFFICES ASSUME Init
             PROVE  DrawLimitInv /\ FiniteSales
  OBVIOUS
<1>1. /\ \A r \in Requests : phase[r] = "idle" /\ done[r] = 0
      /\ \A v \in SaleIds : venta[v] = "none"
  BY DEF Init, TxInit, SaleInit
<1>2. SalesWithinBasket /\ DetailsPending
  BY <1>1 DEF SalesWithinBasket, DetailsPending, SaleIds, RequestsOf
<1>3. Active = {} /\ IsFiniteSet({})
  BY <1>1, FS_EmptySet DEF Active
<1>4. DrawLimitsRespected
  <2>1. SUFFICES ASSUME NEW n \in Numbers, NEW id \in LimitIds, NEW t \in Shifts,
                        limites[id] # None
                 PROVE  Accumulated(id, n, DateOf[t]) <= limites[id].miles
    BY DEF DrawLimitsRespected
  <2>2. SalesUnder(id, n, DateOf[t]) = {}
    BY <1>1 DEF SalesUnder
  <2>3. Accumulated(id, n, DateOf[t]) = Total(cmd, n, {})
    BY <2>2, AccumulatedIsTotal
  <2>4. Accumulated(id, n, DateOf[t]) = 0
    BY <1>3, <2>3, TotalIsSum, SumOfEmpty
  <2>5. limites[id].miles \in Nat
    BY <2>1, RequestInvInit, LimitMiles
  <2>6. QED  BY <2>4, <2>5
<1>5. QED  BY <1>2, <1>3, <1>4 DEF DrawLimitInv, FiniteSales

\* A limit of one draw is never oversold, however many sellers sell its numbers
\* at once, as long as nobody changes the limits of draws: the rows of two open
\* sales under one limit wait for each other at the advisory lock of their shift
\* and number, and a row that was accepted still fits when its sale commits.
THEOREM DrawLimitsHold == Spec /\ DrawLimitsStay => []DrawLimitsRespected
<1>1. /\ RequestInv /\ PrizeInv /\ OneLimitApplies /\ FiniteSales /\ DrawLimitInv
      /\ [Next]_vars /\ [DrawLimitsKept]_vars
      => FiniteSales' /\ DrawLimitInv'
  <2> SUFFICES ASSUME RequestInv, PrizeInv, OneLimitApplies, FiniteSales, DrawLimitInv,
                      [Next]_vars, [DrawLimitsKept]_vars
               PROVE  FiniteSales' /\ DrawLimitInv'
    OBVIOUS
  <2>1. SalesCommitted /\ SalesWithinBasket /\ DetailsPending
    BY DEF PrizeInv, DrawLimitInv
  <2>2. DrawLimitsKept
    BY DEF vars, DrawLimitsKept
  <2>3. FiniteSales' /\ SalesWithinBasket'
    BY <2>1, FiniteSalesKept, SalesWithinBasketKept
  <2>4. DetailsPending' /\ DrawLimitsRespected'
    BY <2>1, <2>2, DetailsPendingKept, DrawLimitsRespectedKept
  <2>5. QED  BY <2>3, <2>4 DEF DrawLimitInv
<1>2. DrawLimitInv => DrawLimitsRespected
  BY DEF DrawLimitInv
<1>3. [\A id \in LimitIds : OfDraw(id) \/ OfDraw(id)' => limites'[id] = limites[id]]_vars
        => [DrawLimitsKept]_vars
  BY DEF DrawLimitsKept
<1>4. QED
  BY DrawLimitInvInit, <1>1, <1>2, <1>3, RequestsSound, PrizesSound, LimitsAreUnambiguous, PTL
  DEF Spec, DrawLimitsStay

\* What an instance needs for the limits of draws to stay: nobody edits limits,
\* and the limits that are created are of no draw configuration.
DrawLimitsFixed ==
  /\ RequestsOf("editLimit") = {}
  /\ \A order \in LimitOrders : order.config = None

LEMMA FixedLimitsStay ==
  ASSUME DrawLimitsFixed, RequestInv, LimitInv, [Next]_vars
  PROVE  DrawLimitsKept
<1>1. CASE UNCHANGED tables
  BY <1>1 DEF tables, DrawLimitsKept
<1>2. ASSUME NEW q \in Requests, Commit(q)
      PROVE  DrawLimitsKept
  <2>1. SUFFICES ASSUME NEW id \in LimitIds, limites'[id] # limites[id]
                 PROVE  ~OfDraw(id) /\ ~OfDraw(id)'
    BY DEF DrawLimitsKept
  <2>2. phase[q] = "acked" /\ LimitCommit(q)
    BY <1>2 DEF Commit, EndCommitted
  <2>3. LimitRowLock(id) \notin held[q]
    BY DEF RequestInv, LocksFit, Fit, DrawLimitsFixed, RequestsOf
  <2>4. Kind[q] = "createLimits" /\ id \in {q} \X (1..done[q])
    BY <1>2, <2>1, <2>3, CommittedRows
  <2>5. PICK i \in 1..done[q] : id = <<q, i>>
    BY <2>4
  <2>6. q \in RequestsOf("createLimits")
    BY <2>4 DEF RequestsOf
  <2>7. cmd[q] \in LimitOrders /\ i \in 1..MaxOrder
    BY <2>2, <2>5, <2>6, LoopWithinOrder
  <2>8. limites[id] = None
    BY <2>2, <2>5, <2>6, <2>7 DEF LimitInv, LimitsCreated
  <2>9. limites'[id].config = None
    BY <2>2, <2>4, <2>7 DEF LimitCommit, OrderedRow, DrawLimitsFixed
  <2>10. QED
    BY <2>8, <2>9 DEF OfDraw
<1>3. QED
  BY <1>1, <1>2, TablesWritten

\* In such an instance a limit of one draw is never oversold.
THEOREM FixedDrawLimitsHold ==
  ASSUME DrawLimitsFixed
  PROVE  Spec => []DrawLimitsRespected
<1>1. RequestInv /\ LimitInv /\ [Next]_vars
        => [\A id \in LimitIds : OfDraw(id) \/ OfDraw(id)' => limites'[id] = limites[id]]_vars
  BY DrawLimitsFixed, FixedLimitsStay DEF DrawLimitsKept
<1>2. QED
  BY <1>1, DrawLimitsHold, RequestsSound, LimitsSound, PTL DEF Spec, DrawLimitsStay

(***************************************************************************)
(* Blocked numbers                                                         *)
(***************************************************************************)
\* The id of a row that is not there at the start names its request.
LEMMA NewBlockId ==
  ASSUME NEW id \in BlockIds, id \notin DOMAIN InitialBlocks
  PROVE  id[1] \in RequestsOf("blockNumbers") /\ id[1] \in Requests
BY DEF BlockIds, NewBlockIds, RequestsOf

LEMMA BlockRowsKept ==
  ASSUME RequestInv, BlockRows, [Next]_vars
  PROVE  BlockRows'
<1>1. Typed /\ phase \in [Requests -> Phases] /\ done \in [Requests -> Nat]
  BY DEF RequestInv, Typed
<1>2. SUFFICES ASSUME NEW id \in BlockIds, bloqueos'[id] # None, id \notin DOMAIN InitialBlocks
               PROVE  phase'[id[1]] = "committed"
  BY DEF BlockRows, BlockCommitted
<1>3. CASE bloqueos[id] # None
  BY <1>1, <1>2, <1>3, NewBlockId, CommittedStays DEF BlockRows, BlockCommitted
<1>4. CASE bloqueos[id] = None
  <2>1. PICK r \in Requests : Commit(r)
    BY <1>2, <1>4, TablesWritten DEF tables
  <2>2. phase'[r] = "committed" /\ BlockCommit(r)
    BY <1>1, <2>1 DEF Commit, EndCommitted
  <2>3. id \in {r} \X (1..done[r])
    BY <1>2, <1>4, <2>2 DEF BlockCommit
  <2>4. QED
    BY <2>2, <2>3
<1>5. QED
  BY <1>3, <1>4

\* A block whose request has committed is not written again: it may only go.
LEMMA BlockOnlyGoes ==
  ASSUME RequestInv, [Next]_vars, NEW id \in BlockIds, BlockCommitted(id)
  PROVE  BlockCommitted(id)' /\ (bloqueos'[id] # None => bloqueos'[id] = bloqueos[id])
<1>1. Typed /\ phase \in [Requests -> Phases] /\ done \in [Requests -> Nat]
  BY DEF RequestInv, Typed
<1>2. BlockCommitted(id)'
  BY <1>1, NewBlockId, CommittedStays DEF BlockCommitted
<1>3. ASSUME bloqueos'[id] # bloqueos[id]
      PROVE  bloqueos'[id] = None
  <2>1. PICK r \in Requests : Commit(r)
    BY <1>3, TablesWritten DEF tables
  <2>2. phase[r] = "acked" /\ BlockCommit(r)
    BY <2>1 DEF Commit, EndCommitted
  <2>3. ~(id \in {r} \X (1..done[r]))
    <3>1. SUFFICES ASSUME id \in {r} \X (1..done[r])
                   PROVE  FALSE
      OBVIOUS
    <3>2. id \in Requests \X Nat /\ id[1] = r
      BY <1>1, <3>1
    <3>3. id \notin DOMAIN InitialBlocks
      BY <3>2, BlockAssumption
    <3>4. QED
      BY <2>2, <3>2, <3>3 DEF BlockCommitted
  <2>4. QED
    BY <1>3, <2>2, <2>3 DEF BlockCommit
<1>4. QED
  BY <1>2, <1>3

\* A row of a sale is accepted when no block keeps its number.
LEMMA AcceptedIsFree ==
  ASSUME NEW v \in SaleIds, DetailAccepted(v), NEW id \in BlockIds
  PROVE  ~Blocks(id, cmd[v].items[done[v] + 1].number, cmd[v].shift)
BY DEF DetailAccepted, NextItem, IsBlocked, Rows, Blocks

LEMMA ShutStays ==
  ASSUME RequestInv, BlockInv, [Next]_vars, NEW v \in SaleIds, NEW id \in BlockIds, Shut(v, id)
  PROVE  Shut(v, id)'
<1>1. /\ Typed /\ phase \in [Requests -> Phases] /\ done \in [Requests -> Nat]
      /\ BlockCommitted(id)
      /\ \A i \in 1..done[v] : ~Blocks(id, cmd[v].items[i].number, cmd[v].shift)
  BY DEF RequestInv, Typed, Shut
<1>2. v \in Requests /\ done[v] \in Nat
  BY <1>1 DEF SaleIds, RequestsOf
<1>3. ASSUME NEW n, NEW t, Blocks(id, n, t)'
      PROVE  Blocks(id, n, t)
  BY <1>1, <1>3, BlockOnlyGoes DEF Blocks
<1>4. SUFFICES \A i \in 1..done'[v] : ~Blocks(id, cmd'[v].items[i].number, cmd'[v].shift)
  BY <1>1, <1>3, BlockOnlyGoes DEF Shut
<1>5. CASE done'[v] = done[v] /\ cmd'[v] = cmd[v]
  BY <1>1, <1>5
<1>6. CASE UNCHANGED vars
  BY <1>5, <1>6 DEF vars, txVars
<1>7. ASSUME NEW r \in Requests \ {v},
             Handle(r) \/ Respond(r) \/ Commit(r) \/ Lose(r) \/ Aborts(r)
      PROVE  done'[v] = done[v] /\ cmd'[v] = cmd[v]
  BY <1>1, <1>2, <1>7, OthersUntouched, DoneUntouched
<1>8. CASE Handle(v)
  <2>1. CASE phase'[v] = "rolledback"
    <3>1. done'[v] = done[v] /\ cmd'[v] = cmd[v]
      BY <1>1, <1>2, <1>8, <2>1, HandleShape
      DEF Arrives, Advances, Aborts, Writes, Running, Receive, MoveTo, Rollback, Write
    <3>2. QED
      BY <1>5, <3>1
  <2>2. CASE phase'[v] # "rolledback" /\ done'[v] = 0
    BY <2>2
  <2>3. CASE phase'[v] # "rolledback" /\ done'[v] # 0
    <3>1. cmd'[v] = cmd[v] /\ done'[v] = done[v] + 1 /\ DetailAccepted(v)
      BY <1>1, <1>8, <2>3, SaleTurn DEF BlockInv
    <3>2. ~Blocks(id, cmd[v].items[done[v] + 1].number, cmd[v].shift)
      BY <3>1, AcceptedIsFree
    <3>3. \A i \in 1..done'[v] : i \in 1..done[v] \/ i = done[v] + 1
      BY <1>2, <3>1
    <3>4. QED
      BY <1>1, <3>1, <3>2, <3>3
  <2>4. QED
    BY <2>1, <2>2, <2>3
<1>9. CASE Respond(v) \/ Commit(v) \/ Lose(v) \/ Aborts(v)
  BY <1>5, <1>9 DEF Respond, MoveTo, Commit, EndCommitted, Lose, Aborts, Rollback
<1>10. QED
  BY <1>5, <1>6, <1>7, <1>8, <1>9, StepShape

\* A sale that is there has the rows it accepted and no others.
LEMMA ShutSellsNone ==
  ASSUME RequestInv, PrizeInv, BlockInv, NEW v \in SaleIds, NEW id \in BlockIds, Shut(v, id),
         venta[v] = "ACTIVA", NEW n \in Numbers, Blocks(id, n, cmd[v].shift)
  PROVE  AmountOf(cmd[v].items, n) = 0
<1>1. \A i \in 1..done[v] : cmd[v].items[i].number # n
  BY DEF Shut
<1>2. phase[v] = "committed"
  BY DEF PrizeInv, SalesCommitted
<1>3. cmd[v].items \in Baskets /\ done[v] = Len(cmd[v].items)
  BY <1>2, SaleCommandType DEF RequestInv, BlockInv, SalesWithinBasket
<1>4. \A i \in DOMAIN cmd[v].items : cmd[v].items[i].number # n
  BY <1>1, <1>3, BasketItems
<1>5. QED
  BY <1>4, AmountOfOthers

LEMMA BlockInvInit == Init => BlockInv
<1> SUFFICES ASSUME Init
             PROVE  BlockInv
  OBVIOUS
<1>1. /\ \A r \in Requests : phase[r] = "idle" /\ done[r] = 0
      /\ bloqueos = [id \in BlockIds |->
                       IF id \in DOMAIN InitialBlocks THEN InitialBlocks[id] ELSE None]
  BY DEF Init, TxInit, BlockInit
<1>2. SalesWithinBasket
  BY <1>1 DEF SalesWithinBasket, SaleIds, RequestsOf
<1>3. BlockRows
  BY <1>1 DEF BlockRows, BlockCommitted
<1>4. QED
  BY <1>2, <1>3 DEF BlockInv

\* BlockInv is inductive relative to RequestInv.
THEOREM BlocksSound == Spec => []BlockInv
<1>1. RequestInv /\ BlockInv /\ [Next]_vars => BlockInv'
  BY SalesWithinBasketKept, BlockRowsKept DEF BlockInv
<1>2. QED
  BY BlockInvInit, <1>1, RequestsSound, PTL DEF Spec

\* A sale that arrives while a block is there never sells what the block keeps,
\* as long as the block stands, whatever is blocked, unblocked and sold at the
\* same time: the trigger of every later detail row sees the block.
THEOREM BlocksAreKept == Spec => BlocksHold
<1>1. ASSUME NEW v \in SaleIds, NEW id \in BlockIds
      PROVE  Spec => [](bloqueos[id] # None /\ phase[v] = "idle" =>
               [](venta[v] = "ACTIVA" =>
                    \A n \in Numbers :
                       Blocks(id, n, cmd[v].shift) => AmountOf(cmd[v].items, n) = 0))
  <2>1. BlockInv /\ bloqueos[id] # None /\ phase[v] = "idle" => Shut(v, id)
    BY DEF BlockInv, BlockRows, SalesWithinBasket, Shut
  <2>2. RequestInv /\ BlockInv /\ Shut(v, id) /\ [Next]_vars => Shut(v, id)'
    BY ShutStays
  <2>3. RequestInv /\ PrizeInv /\ BlockInv /\ Shut(v, id) =>
          (venta[v] = "ACTIVA" =>
             \A n \in Numbers : Blocks(id, n, cmd[v].shift) => AmountOf(cmd[v].items, n) = 0)
    BY ShutSellsNone
  <2>4. QED
    BY <2>1, <2>2, <2>3, RequestsSound, PrizesSound, BlocksSound, PTL DEF Spec
<1>2. QED
  BY <1>1 DEF BlocksHold
=============================================================================

----------------------------- MODULE NumberLimits -----------------------------
(***************************************************************************)
(* Number limits (table limites_numero): how much may be sold of a number, *)
(* for one seller or all (seller = None), one draw configuration or all    *)
(* (config = None), between two dates (until = None: open ended).          *)
(*                                                                         *)
(* The exclusion constraint ex_limites_numero_no_overlap and the partial   *)
(* unique index uq_limites_numero_activo_scope are modelled by the keys a  *)
(* row occupies: an INSERT or UPDATE waits for an uncommitted row with a   *)
(* common key and fails if a committed one has it.                         *)
(***************************************************************************)
EXTENDS RequestTransaction

CONSTANTS
  Tenants, Sellers, Configs, Numbers,
  Dates,           \* a finite calendar
  InitialLimits,   \* the rows of the table when the behaviour starts, by id
  LimitOrders,     \* commands of POST /number-limits
  LimitEdits       \* column changes of PATCH /number-limits/:id and its expiry

VARIABLE limites   \* committed limites_numero rows, by id

LimitRows ==
  [tenant : Tenants, seller : Sellers \cup {None}, config : Configs \cup {None},
   number : Numbers, miles : Nat, from : Dates, until : Dates \cup {None}]

\* Rows created by a request are named by the request and their position in it.
MaxOrder == 3      \* bound: numbers per create request
NewLimitIds == RequestsOf("createLimits") \X (1..MaxOrder)
LimitIds == DOMAIN InitialLimits \cup NewLimitIds

(***************************************************************************)
(* The constraints of the table                                            *)
(***************************************************************************)
\* limites_vigencia_chk
ValidRange(row) == row.until = None \/ row.from <= row.until

Covers(row, day) == row.from <= day /\ (row.until = None \/ day <= row.until)

OverlapKeys(row) ==
  {<<"limite", row.tenant, row.seller, row.config, row.number, day>> :
     day \in {d \in Dates : Covers(row, d)}}

\* uq_limites_numero_activo_scope predates the tenants: tenant_id is not in it.
OpenEndedKeys(row) ==
  IF row.until = None THEN {<<"abierto", row.seller, row.config, row.number>>} ELSE {}

\* Mutant: the exclusion constraint is dropped and never added again.
UniqueIndexOnly(row) == OpenEndedKeys(row)

LimitKeys(row) == OverlapKeys(row) \cup OpenEndedKeys(row)

Compatible(row, other) == LimitKeys(row) \cap LimitKeys(other) = {}

\* The rows at the start satisfy the constraints, and the commands are what the
\* DTOs and use cases of the two endpoints let through.
ASSUME LimitAssumption ==
  /\ None \notin LimitRows /\ None \notin LimitIds
  /\ \A id \in DOMAIN InitialLimits : InitialLimits[id] \in LimitRows
  /\ \A a, b \in DOMAIN InitialLimits : a # b => Compatible(InitialLimits[a], InitialLimits[b])
  /\ DOMAIN InitialLimits \cap NewLimitIds = {}
  /\ LimitOrders \subseteq
       [tenant : Tenants, seller : Sellers \cup {None}, config : Configs \cup {None},
        numbers : Seq(Numbers), miles : Nat, from : Dates, until : Dates \cup {None}]
  /\ \A order \in LimitOrders :
       /\ Len(order.numbers) \in 1..MaxOrder
       /\ \A i, j \in DOMAIN order.numbers : order.numbers[i] = order.numbers[j] => i = j
       /\ ValidRange(order)
  /\ \A change \in LimitEdits :
       /\ "tenant" \notin DOMAIN change
       /\ "seller" \in DOMAIN change => change["seller"] \in Sellers \cup {None}
       /\ "config" \in DOMAIN change => change["config"] \in Configs \cup {None}
       /\ "number" \in DOMAIN change => change["number"] \in Numbers
       /\ "miles"  \in DOMAIN change => change["miles"] \in Nat
       /\ "from"   \in DOMAIN change => change["from"] \in Dates
       /\ "until"  \in DOMAIN change => change["until"] \in Dates \cup {None}

LimitInit ==
  limites = [id \in LimitIds |->
               IF id \in DOMAIN InitialLimits THEN InitialLimits[id] ELSE None]

Clashes(id, row) ==
  \E other \in LimitIds \ {id} :
    limites[other] # None /\ ~Compatible(row, limites[other])

(***************************************************************************)
(* createMany: one INSERT per number.                                      *)
(***************************************************************************)
LimitCommands == LimitOrders

OrderedRow(r, i) ==
  [tenant |-> cmd[r].tenant, seller |-> cmd[r].seller, config |-> cmd[r].config,
   number |-> cmd[r].numbers[i], miles |-> cmd[r].miles,
   from |-> cmd[r].from, until |-> cmd[r].until]

NextLimitRow(r) == OrderedRow(r, done[r] + 1)

CreateLimitsInsert(r) ==
  /\ phase[r] = "writing"
  /\ Available(r, LimitKeys(NextLimitRow(r)))
  /\ IF Clashes(<<r, done[r] + 1>>, NextLimitRow(r))
       THEN Rollback(r)
       ELSE /\ Write(r, LimitKeys(NextLimitRow(r)),
                     IF done[r] + 1 = Len(cmd[r].numbers) THEN "responding" ELSE "writing")
            /\ done' = [done EXCEPT ![r] = @ + 1]
  /\ UNCHANGED limites

(***************************************************************************)
(* update and expire: one UPDATE by id of the columns the command gives.   *)
(***************************************************************************)
EditCommands == [limit : LimitIds, change : LimitEdits]

LimitRowLock(id) == <<"filaLimite", id>>

EditedRow(row, change) ==
  [column \in DOMAIN row |-> IF column \in DOMAIN change THEN change[column] ELSE row[column]]

NewRow(r) == EditedRow(limites[cmd[r].limit], cmd[r].change)

EditLocks(r) ==
  {LimitRowLock(cmd[r].limit)} \cup
    (IF limites[cmd[r].limit] = None THEN {}
     ELSE LimitKeys(limites[cmd[r].limit]) \cup LimitKeys(NewRow(r)))

EditLimitUpdate(r) ==
  /\ phase[r] = "writing"
  /\ Available(r, EditLocks(r))
  /\ IF \/ limites[cmd[r].limit] = None
        \/ ~ValidRange(NewRow(r))
        \/ Clashes(cmd[r].limit, NewRow(r))
       THEN Rollback(r)
       ELSE Write(r, EditLocks(r), "responding") /\ UNCHANGED done
  /\ UNCHANGED limites

LimitCommit(r) ==
  limites' = [id \in LimitIds |->
    IF Kind[r] = "createLimits" /\ id \in {r} \X (1..done[r])
      THEN OrderedRow(r, id[2])
    ELSE IF LimitRowLock(id) \in held[r] THEN NewRow(r)
    ELSE limites[id]]

LimitStep(r) ==
  \/ Kind[r] = "createLimits" /\ ( \/ Receive(r, LimitCommands, "writing") /\ UNCHANGED limites
                                   \/ CreateLimitsInsert(r) )
  \/ Kind[r] = "editLimit"    /\ ( \/ Receive(r, EditCommands, "writing") /\ UNCHANGED limites
                                   \/ EditLimitUpdate(r) )

LimitWanted(r) ==
  IF phase[r] # "writing" THEN {}
  ELSE IF Kind[r] = "createLimits" THEN LimitKeys(NextLimitRow(r))
  ELSE EditLocks(r)

(***************************************************************************)
(* fn_limite_numero_aplicable: of the rows in force for the seller, number,*)
(* configuration and date, the one of the narrowest scope, configuration   *)
(* before seller; None when the number is not limited.                     *)
(***************************************************************************)
InForce(tenant, seller, number, config, date) ==
  {id \in LimitIds :
     /\ limites[id] # None
     /\ limites[id].tenant = tenant
     /\ limites[id].number = number
     /\ limites[id].seller \in {seller, None}
     /\ limites[id].config \in {config, None}
     /\ Covers(limites[id], date)}

Breadth(row) ==
  (IF row.config = None THEN 2 ELSE 0) + (IF row.seller = None THEN 1 ELSE 0)

ApplicableLimit(tenant, seller, number, config, date) ==
  LET candidates == InForce(tenant, seller, number, config, date)
  IN  IF candidates = {} THEN None
      ELSE CHOOSE id \in candidates :
             \A other \in candidates : Breadth(limites[id]) <= Breadth(limites[other])
=============================================================================

---- MODULE DrawCatalogue ----
(***************************************************************************)
(* Draw configurations (sorteos_config), the shifts they open and what     *)
(* hangs from them.  Other requests are seen as they are once committed:   *)
(* a sale, a void, a result and a payment are entries of the SaleLedger,   *)
(* refused when the row they refer to is gone.                             *)
(*                                                                         *)
(* Opening shifts reads the configurations first and inserts afterwards.   *)
(* A hard delete is eight statements of one transaction: each takes its    *)
(* own snapshot, the rows it removes stay visible to everybody else until  *)
(* the commit, and who needs one of them waits.                            *)
(***************************************************************************)
EXTENDS TenantRequests, Integers, Sequences

CONSTANTS Tickets, Draws, Winners, Items, Nothing,    \* of the ledger
          Erased,       \* what is left of a configuration deleted for good
          Configs,      \* ids of configurations
          Dates,
          Tuesdays,     \* the dates that are Tuesdays
          NewConfigs,   \* columns a create may ask for
          Patches,      \* columns an update may set
          Templates     \* configurations that exist, with their columns, at the start

ASSUME DrawsAssumption == Draws \subseteq Dates \X Configs

VARIABLES ticket, winner, prize,
          sorteos,      \* sorteos_config: Nothing, Erased or a row
          turnos,       \* shifts that exist, as (date, configuration)
          bloqueos,     \* shifts with blocked numbers
          limites       \* configurations with number limits

ledger == <<ticket, winner, prize>>
Ledger == INSTANCE SaleLedger

catalogueVars == <<sorteos, turnos, bloqueos, limites>>

Exists(c) == sorteos[c] \notin {Nothing, Erased}
ConfigOf(d) == d[2]
DrawsOf(c) == {d \in Draws : ConfigOf(d) = c}
TicketsOf(c) == {k \in Tickets : ticket[k] # Nothing /\ ticket[k].draw \in DrawsOf(c)}

----------------------------------------------------------------------------
(* Columns: codigo, auto, unica (the only date, or Nothing), martes,       *)
(* activo, baja.                                                           *)

\* Mutant: the date of an update is left to the DTO, which only looks at create.
Unchecked(row) == row.auto \in BOOLEAN

\* CHECK ck_sorteos_config_auto_generation: recurrent, or for one date.
Consistent(row) == row.auto <=> row.unica = Nothing

\* The types of the columns; a code is one of those that are asked for.
Codes == {Templates[c].codigo : c \in DOMAIN Templates} \cup {new.codigo : new \in NewConfigs}
         \cup {patch.codigo : patch \in {p \in Patches : "codigo" \in DOMAIN p}}
ConfigRows == [codigo : Codes, auto : BOOLEAN, unica : Dates \cup {Nothing},
               martes : BOOLEAN, activo : BOOLEAN, baja : BOOLEAN]

\* What is asked for has the types the DTOs validate; the configurations that
\* exist at the start are rows the table accepted.
ASSUME ColumnsAssumption ==
    /\ NewConfigs \subseteq ConfigRows
    /\ \A patch \in Patches : \E row \in ConfigRows :
          DOMAIN patch \subseteq DOMAIN row /\ \A column \in DOMAIN patch : patch[column] = row[column]
    /\ \A c \in DOMAIN Templates :
          /\ Templates[c] \in ConfigRows /\ Consistent(Templates[c])
          /\ \A other \in DOMAIN Templates \ {c} : Templates[other].codigo # Templates[c].codigo

\* A row that is not there is told from every row.
ASSUME NothingAssumption ==
    /\ Nothing \notin ConfigRows /\ Erased \notin ConfigRows
    /\ Nothing \notin [draw : Draws, items : Items, total : Nat, voided : BOOLEAN]

\* Mutant: only the configurations in use keep their code.
CodeUnused(c, codigo) ==
    \A other \in Configs \ {c} :
        Exists(other) /\ sorteos[other].activo => sorteos[other].codigo # codigo

\* UNIQUE (tenant_id, codigo): a removed configuration keeps its code.
CodeFree(c, codigo) ==
    \A other \in Configs \ {c} : Exists(other) => sorteos[other].codigo # codigo

\* The rows the generation of a date selects.
Selected(row, fecha) ==
    /\ row.activo /\ ~row.baja
    /\ (row.auto /\ row.unica = Nothing) \/ (~row.auto /\ row.unica = fecha)

Operable(row, fecha) ==
    /\ row.activo /\ ~row.baja
    /\ row.auto \/ row.unica # Nothing
    /\ ~row.auto /\ row.unica # Nothing => row.unica = fecha
    /\ row.martes => fecha \in Tuesdays

\* What the list of configurations shows.
ListedConfigurations(activo) ==
    {c \in Configs : Exists(c) /\ ~sorteos[c].baja /\ sorteos[c].activo \in activo}

\* The columns of a PATCH: autogeneration clears the date unless it is switched
\* off with one; a date by itself only counts when it does not switch it on.
Patched(row, patch) ==
    LET given == DOMAIN patch
        auto  == "auto" \in given /\ patch.auto
    IN  [column \in DOMAIN row |->
           CASE column = "unica" -> IF auto THEN Nothing
                                    ELSE IF "unica" \in given THEN patch.unica
                                    ELSE row.unica
             [] column \in given \ {"unica"} -> patch[column]
             [] OTHER -> row[column]]

----------------------------------------------------------------------------
(* A row a hard delete has removed and not committed.                      *)

Deleting(h) == handlers[h].op = "borrar"
Doomed(kind, x) == \E h \in Handlers : Deleting(h) /\ <<kind, x>> \in handlers[h].rows

\* FOREIGN KEY: the parent is there, and nobody is removing it.
ShiftKept(d) == d \in turnos /\ ~Doomed("turno", d)
ConfigKept(c) == Exists(c) /\ ~Doomed("sorteo", c)

OnlyCatalogue == UNCHANGED <<turnos, bloqueos, limites, ledger, handlers>>

CreateConfiguration(c) ==
    /\ sorteos[c] = Nothing
    /\ \E new \in NewConfigs :
          LET row == [new EXCEPT !.baja = FALSE]
          IN  /\ Consistent(row) /\ CodeFree(c, row.codigo)
              /\ sorteos' = [sorteos EXCEPT ![c] = row]
    /\ OnlyCatalogue

UpdateConfiguration(c) ==
    /\ ConfigKept(c)
    /\ \E patch \in Patches :
          LET row == Patched(sorteos[c], patch)
          IN  /\ Consistent(row) /\ CodeFree(c, row.codigo)
              /\ sorteos' = [sorteos EXCEPT ![c] = row]
    /\ OnlyCatalogue

SoftDelete(c) ==
    /\ ConfigKept(c)
    /\ sorteos' = [sorteos EXCEPT ![c].activo = FALSE, ![c].baja = TRUE]
    /\ OnlyCatalogue

----------------------------------------------------------------------------
(* Shifts.                                                                 *)

\* POST shifts: the configuration, by id.
OpenShift(h) ==
    /\ Free(h)
    /\ \E c \in Configs, fecha \in Dates :
          /\ <<fecha, c>> \in Draws
          /\ Exists(c) /\ Operable(sorteos[c], fecha)
          /\ <<fecha, c>> \notin turnos
          /\ Serve(h, [op |-> "abrir", draws |-> {<<fecha, c>>}])
    /\ UNCHANGED <<sorteos, turnos, bloqueos, limites, ledger>>

\* POST shifts/auto-generate, and every list of the shifts of a date.
AutoGenerate(h) ==
    /\ Free(h)
    /\ \E fecha \in Dates :
          LET missing == {d \in Draws \ turnos :
                             /\ d[1] = fecha /\ Exists(ConfigOf(d))
                             /\ Selected(sorteos[ConfigOf(d)], fecha)
                             /\ Operable(sorteos[ConfigOf(d)], fecha)}
          IN  missing # {} /\ Serve(h, [op |-> "abrir", draws |-> missing])
    /\ UNCHANGED <<sorteos, turnos, bloqueos, limites, ledger>>

\* The inserts and the commit: a shift somebody else has created meanwhile, or
\* a configuration that is gone, fails the request with all its shifts.
InsertShifts(h) ==
    /\ handlers[h].op = "abrir"
    /\ \A d \in handlers[h].draws : ~Doomed("sorteo", ConfigOf(d)) /\ ~Doomed("turno", d)
    /\ turnos' = IF \A d \in handlers[h].draws : Exists(ConfigOf(d)) /\ d \notin turnos
                 THEN turnos \cup handlers[h].draws ELSE turnos
    /\ Answer(h)
    /\ UNCHANGED <<sorteos, bloqueos, limites, ledger>>

AddRule ==
    /\ \/ \E d \in Draws : ShiftKept(d) /\ bloqueos' = bloqueos \cup {d} /\ UNCHANGED limites
       \/ \E c \in Configs : ConfigKept(c) /\ limites' = limites \cup {c} /\ UNCHANGED bloqueos
    /\ UNCHANGED <<sorteos, turnos, ledger, handlers>>

----------------------------------------------------------------------------
(* The committed effect of the other components.                           *)

\* Mutant: the foreign key of a sale does not wait for a delete.
SellUnguarded(k) == \E d \in turnos, items \in Items : Ledger!Sell(k, d, items)

SellTicket(k) == \E d \in turnos, items \in Items : ShiftKept(d) /\ Ledger!Sell(k, d, items)

Trade ==
    /\ \/ \E k \in Tickets : SellTicket(k)
       \/ \E k \in Tickets : ~Doomed("venta", k) /\ (Ledger!Void(k) \/ Ledger!Pay(k))
       \/ \E d \in turnos, n \in Winners : ShiftKept(d) /\ Ledger!Draw(d, n)
    /\ UNCHANGED <<sorteos, turnos, bloqueos, limites, handlers>>

----------------------------------------------------------------------------
(* Hard delete.                                                            *)

Statements == <<"pago", "venta", "resultado", "bloqueo", "turno", "limite", "sorteo">>

RowsOf(kind, c) ==
    CASE kind = "pago"      -> {k \in TicketsOf(c) : prize[k] # Nothing}
      [] kind = "venta"     -> TicketsOf(c)
      [] kind = "resultado" -> {d \in DrawsOf(c) : winner[d] # Nothing}
      [] kind = "bloqueo"   -> DrawsOf(c) \cap bloqueos
      [] kind = "turno"     -> DrawsOf(c) \cap turnos
      [] kind = "limite"    -> {c} \cap limites
      [] kind = "sorteo"    -> {x \in {c} : Exists(x)}

\* The impact is counted again, and a configuration that is gone is a 404.
HardDelete(h) ==
    /\ Free(h)
    /\ \E c \in Configs :
          Exists(c) /\ Serve(h, [op |-> "borrar", config |-> c, done |-> 0, rows |-> {}])
    /\ UNCHANGED <<sorteos, turnos, bloqueos, limites, ledger>>

\* NO ACTION: the sales of a shift and the shifts of a configuration must have
\* been removed by this transaction; the last statement wants its row.
StillReferred(h, kind) ==
    LET rows == handlers[h].rows
        c    == handlers[h].config
    IN  \/ kind = "turno" /\ \E k \in TicketsOf(c) : <<"venta", k>> \notin rows
        \/ kind = "sorteo" /\ ~Exists(c)
        \/ kind = "sorteo" /\ \E d \in DrawsOf(c) \cap turnos : <<"turno", d>> \notin rows

DeleteRows(h) ==
    /\ Deleting(h) /\ handlers[h].done < Len(Statements)
    /\ LET r    == handlers[h]
           kind == Statements[r.done + 1]
           found == RowsOf(kind, r.config)
       IN  /\ \A x \in found : ~Doomed(kind, x)
           /\ IF StillReferred(h, kind) THEN Answer(h)
              ELSE Serve(h, [r EXCEPT !.done = @ + 1,
                                      !.rows = @ \cup {<<kind, x>> : x \in found}])
    /\ UNCHANGED <<sorteos, turnos, bloqueos, limites, ledger>>

\* COMMIT: the rows go, and with each the rows that cascade from it.
CommitDelete(h) ==
    /\ Deleting(h) /\ handlers[h].done = Len(Statements)
    /\ LET Gone(kind) == {x \in Configs \cup Draws \cup Tickets : <<kind, x>> \in handlers[h].rows}
       IN  /\ sorteos' = [c \in Configs |-> IF c \in Gone("sorteo") THEN Erased ELSE sorteos[c]]
           /\ turnos' = turnos \ Gone("turno")
           /\ bloqueos' = bloqueos \ (Gone("bloqueo") \cup Gone("turno"))
           /\ limites' = limites \ (Gone("limite") \cup Gone("sorteo"))
           /\ ticket' = [k \in Tickets |-> IF k \in Gone("venta") THEN Nothing ELSE ticket[k]]
           /\ prize' = [k \in Tickets |-> IF k \in Gone("venta") \cup Gone("pago")
                                          THEN Nothing ELSE prize[k]]
           /\ winner' = [d \in Draws |-> IF d \in Gone("resultado") \cup Gone("turno")
                                         THEN Nothing ELSE winner[d]]
    /\ Answer(h)

CatalogueInit ==
    /\ Ledger!Init
    /\ sorteos = [c \in Configs |-> IF c \in DOMAIN Templates THEN Templates[c] ELSE Nothing]
    /\ turnos = {} /\ bloqueos = {} /\ limites = {}
    /\ handlers = [h \in Handlers |-> Idle]
====

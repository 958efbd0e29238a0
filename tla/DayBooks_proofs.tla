---------------------------- MODULE DayBooks_proofs ----------------------------
(***************************************************************************)
(* Theorems of DayBooks, for any configurations, patches, shifts, tickets  *)
(* and requests, without the restrictions under which TLC checks them.     *)
(*                                                                         *)
(* A hard delete collects rows statement by statement and removes them at  *)
(* its commit.  What makes it safe is not that it sees everything at once: *)
(* it is that its last statements fail when a row still refers to what     *)
(* they remove, and that whoever refers to a removed row waits.  Branches  *)
(* says just that, and NothingOrphaned follows from it.                    *)
(*                                                                         *)
(* A report adds up because each of its figures is a sum over the rows of  *)
(* what one row contributes, however torn the reads are that gave the row; *)
(* the sums of sellers, days, draws and numbers are that sum in parts.     *)
(* What may not be torn is how a payment relates to its ticket and result: *)
(* Funds says it of the tables, and Deletes why a deletion keeps it.       *)
(***************************************************************************)
EXTENDS DayBooks, NumberSets, TLAPS

(***************************************************************************)
(* Requests                                                                *)
(***************************************************************************)
Kinds == {"pago", "venta", "resultado", "bloqueo", "turno", "limite", "sorteo"}
Things == Configs \cup Draws \cup Tickets

Opening == [op : {"abrir"}, draws : SUBSET Draws]
Deletion == [op : {"borrar"}, config : Configs, done : 0..7, rows : SUBSET (Kinds \X Things)]

RequestsOK ==
  /\ DOMAIN handlers = Handlers
  /\ \A h \in Handlers :
       /\ handlers[h].op = "abrir" => handlers[h] \in Opening
       /\ Deleting(h) => handlers[h] \in Deletion
       /\ handlers[h].op \in {"informe", "lista"} => "op" \in DOMAIN handlers[h]

\* A request that is served is replaced, the others go on.
LEMMA Served ==
  ASSUME DOMAIN handlers = Handlers, NEW h \in Handlers, NEW r, Serve(h, r)
  PROVE  /\ DOMAIN handlers' = Handlers /\ handlers'[h] = r
         /\ \A k \in Handlers \ {h} : handlers'[k] = handlers[k]
BY DEF Serve

\* The rows of a deletion after one more of its statements.
Extended(r, kind, found) == [r EXCEPT !.done = @ + 1, !.rows = @ \cup {<<kind, x>> : x \in found}]

LEMMA ExtendedDeletion ==
  ASSUME NEW r \in Deletion, r.done < 7, NEW kind \in Kinds, NEW found \in SUBSET Things
  PROVE  /\ Extended(r, kind, found) \in Deletion
         /\ Extended(r, kind, found).rows = r.rows \cup {<<kind, x>> : x \in found}
<1> DEFINE new == r.rows \cup {<<kind, x>> : x \in found}
<1>1. new \in SUBSET (Kinds \X Things) /\ r.done + 1 \in 0..7
  BY DEF Deletion
<1>2. Extended(r, kind, found) = [r EXCEPT !.done = r.done + 1, !.rows = new]
  BY DEF Extended
<1> HIDE DEF new
<1>3. [r EXCEPT !.done = r.done + 1, !.rows = new] \in Deletion
      /\ [r EXCEPT !.done = r.done + 1, !.rows = new].rows = new
  BY <1>1 DEF Deletion
<1>4. QED  BY <1>2, <1>3 DEF new

LEMMA RowsAreThings ==
  ASSUME NEW kind \in Kinds, NEW c \in Configs PROVE RowsOf(kind, c) \in SUBSET Things
BY DEF RowsOf, Kinds, Things, TicketsOf, DrawsOf

LEMMA StatementKinds ==
  ASSUME NEW n \in 0..6 PROVE Statements[n + 1] \in Kinds
BY DEF Statements, Kinds

\* What a deletion does at a statement: it fails, or it adds the rows it finds.
LEMMA DeleteEffect ==
  ASSUME RequestsOK, NEW h \in Handlers, DeleteRows(h)
  PROVE  /\ handlers[h] \in Deletion
         /\ \/ handlers'[h] = Idle
            \/ \E kind \in Kinds :
                 /\ ~StillReferred(h, kind)
                 /\ handlers'[h] \in Deletion
                 /\ handlers'[h].rows = handlers[h].rows
                      \cup {<<kind, x>> : x \in RowsOf(kind, handlers[h].config)}
         /\ \A k \in Handlers \ {h} : handlers'[k] = handlers[k]
         /\ DOMAIN handlers' = Handlers
         /\ UNCHANGED <<sorteos, turnos, bloqueos, limites, ledger>>
<1>1. handlers[h] \in Deletion
  BY DEF DeleteRows, RequestsOK
<1>2. handlers[h].done \in 0..6
  BY <1>1 DEF DeleteRows, Deletion, Statements
<1> DEFINE kind == Statements[handlers[h].done + 1]
           found == RowsOf(kind, handlers[h].config)
<1>3. kind \in Kinds
  BY <1>2, StatementKinds
<1>4. found \in SUBSET Things
  BY <1>1, <1>3, RowsAreThings DEF Deletion
<1>5. \/ Answer(h)
      \/ ~StillReferred(h, kind) /\ Serve(h, Extended(handlers[h], kind, found))
  BY DEF DeleteRows, Extended
<1>6. UNCHANGED <<sorteos, turnos, bloqueos, limites, ledger>>
  BY DEF DeleteRows
<1> HIDE DEF kind
<1>7. /\ Extended(handlers[h], kind, found) \in Deletion
      /\ Extended(handlers[h], kind, found).rows = handlers[h].rows \cup {<<kind, x>> : x \in found}
  BY <1>1, <1>2, <1>3, <1>4, ExtendedDeletion
<1>8. CASE Answer(h)
  BY <1>1, <1>6, <1>8, Served DEF Answer, RequestsOK
<1>9. CASE ~StillReferred(h, kind) /\ Serve(h, Extended(handlers[h], kind, found))
  BY <1>1, <1>3, <1>6, <1>7, <1>9, Served DEF RequestsOK
<1>10. QED  BY <1>5, <1>8, <1>9

\* A request after a step: as it was, answered, or of one of the kinds there are.
RequestsTurn ==
  /\ DOMAIN handlers' = Handlers
  /\ \A k \in Handlers :
       \/ handlers'[k] = handlers[k] \/ handlers'[k] = Idle
       \/ handlers'[k] \in Opening \/ handlers'[k] \in Deletion
       \/ handlers'[k].op \in {"informe", "lista"} /\ "op" \in DOMAIN handlers'[k]

LEMMA TurnOne ==
  ASSUME RequestsOK, NEW h \in Handlers, NEW r, Serve(h, r),
         r = Idle \/ r \in Opening \/ r \in Deletion \/ (r.op \in {"informe", "lista"} /\ "op" \in DOMAIN r)
  PROVE  RequestsTurn
BY Served DEF RequestsTurn, RequestsOK

LEMMA TurnAnswer == ASSUME RequestsOK, NEW h \in Handlers, Answer(h) PROVE RequestsTurn
BY TurnOne DEF Answer

LEMMA TurnNone == ASSUME RequestsOK, UNCHANGED handlers PROVE RequestsTurn
BY DEF RequestsTurn, RequestsOK

\* What may be opened: by hand, or by generating a date.
LEMMA OpenEffect ==
  ASSUME RequestsOK, NEW h \in Handlers, OpenShift(h) \/ AutoGenerate(h)
  PROVE  /\ RequestsTurn /\ UNCHANGED <<catalogueVars, ledger>>
         /\ \A k \in Handlers \ {h} : handlers'[k] = handlers[k]
         /\ handlers'[h].op = "abrir"
<1>1. PICK draws \in SUBSET Draws : Serve(h, [op |-> "abrir", draws |-> draws])
  <2>1. CASE OpenShift(h)
    <3>1. PICK c \in Configs, fecha \in Dates :
            /\ <<fecha, c>> \in Draws
            /\ Serve(h, [op |-> "abrir", draws |-> {<<fecha, c>>}])
      BY <2>1 DEF OpenShift
    <3>2. {<<fecha, c>>} \in SUBSET Draws
      BY <3>1
    <3>3. QED  BY <3>1, <3>2
  <2>2. CASE AutoGenerate(h)
    BY <2>2 DEF AutoGenerate
  <2>3. QED  BY <2>1, <2>2
<1> DEFINE r == [op |-> "abrir", draws |-> draws]
<1>2. r \in Opening /\ r.draws = draws /\ r.op = "abrir"
  BY DEF Opening
<1>3. Serve(h, r)
  BY <1>1
<1> HIDE DEF r
<1>4. handlers'[h] = r /\ \A k \in Handlers \ {h} : handlers'[k] = handlers[k]
  BY <1>3, Served DEF RequestsOK
<1>5. UNCHANGED <<catalogueVars, ledger>>
  BY DEF OpenShift, AutoGenerate, catalogueVars
<1>6. QED  BY <1>2, <1>3, <1>4, <1>5, TurnOne

LEMMA ReportEffect ==
  ASSUME RequestsOK, NEW h \in Handlers, Report(h)
  PROVE  /\ RequestsTurn /\ UNCHANGED <<catalogueVars, ledger>>
         /\ \A k \in Handlers \ {h} : handlers'[k] = handlers[k]
         /\ handlers'[h].op \in {"informe", "libre"}
<1>1. UNCHANGED <<catalogueVars, ledger>>
  BY DEF Report, ReadSales, ReadRelated, AnswerReport
<1>2. \E r : Serve(h, r) /\ (r = Idle \/ (r.op = "informe" /\ "op" \in DOMAIN r))
  <2>1. CASE ReadSales(h)
    <3>1. PICK query, filas :
            Serve(h, [op |-> "informe", paso |-> "ventas", query |-> query, filas |-> filas])
      BY <2>1 DEF ReadSales
    <3>2. QED  BY <3>1
  <2>2. CASE ReadRelated(h)
    <3>1. PICK paso, filas : Serve(h, [handlers[h] EXCEPT !.paso = paso, !.filas = filas])
      BY <2>2 DEF ReadRelated
    <3>2. handlers[h].op = "informe" /\ "op" \in DOMAIN handlers[h]
      BY <2>2 DEF ReadRelated, RequestsOK
    <3> DEFINE r == [handlers[h] EXCEPT !.paso = paso, !.filas = filas]
    <3>3. DOMAIN r = DOMAIN handlers[h] /\ r.op = "informe"
      BY <3>2
    <3>4. QED  BY <3>1, <3>2, <3>3
  <2>3. CASE AnswerReport(h)
    BY <2>3 DEF AnswerReport, Answer
  <2>4. QED  BY <2>1, <2>2, <2>3 DEF Report
<1>3. PICK r : Serve(h, r) /\ (r = Idle \/ (r.op = "informe" /\ "op" \in DOMAIN r))
  BY <1>2
<1>4. handlers'[h] = r /\ \A k \in Handlers \ {h} : handlers'[k] = handlers[k]
  BY <1>3, Served DEF RequestsOK
<1>5. r.op \in {"informe", "libre"}
  BY <1>3 DEF Idle
<1>6. QED  BY <1>1, <1>3, <1>4, <1>5, TurnOne

LEMMA ListEffect ==
  ASSUME RequestsOK, NEW h \in Handlers, List(h)
  PROVE  /\ RequestsTurn /\ UNCHANGED <<catalogueVars, ledger>>
         /\ \A k \in Handlers \ {h} : handlers'[k] = handlers[k]
         /\ handlers'[h].op \in {"lista", "libre"}
<1>1. UNCHANGED <<catalogueVars, ledger>>
  BY DEF List, StartList, ListPage, CountRows, NextPage, EndList
<1>2. PICK r : Serve(h, r) /\ (r = Idle \/ (r.op = "lista" /\ "op" \in DOMAIN r))
  <2>1. CASE StartList(h)
    <3>1. PICK listing \in Listings :
            LET S == Listed(listing.estado)
            IN  Serve(h, [op |-> "lista", listado |-> listing, paso |-> "pagina", pagina |-> 1,
                          total |-> 0, lista |-> S, faltan |-> S, perdidas |-> 0])
      BY <2>1 DEF StartList
    <3>2. QED  BY <3>1
  <2>2. CASE ListPage(h) \/ CountRows(h) \/ NextPage(h)
    <3>1. handlers[h].op = "lista" /\ "op" \in DOMAIN handlers[h]
      BY <2>2 DEF ListPage, CountRows, NextPage, Lists, RequestsOK
    <3>2. \A S : DOMAIN Seen(handlers[h], S) = DOMAIN handlers[h] /\ Seen(handlers[h], S).op = "lista"
      BY <3>1 DEF Seen
    <3>3. CASE ListPage(h)
      <4>1. PICK S, rest : Serve(h, [Seen(handlers[h], S) EXCEPT !.paso = "cuenta", !.faltan = rest])
        BY <3>3 DEF ListPage
      <4> DEFINE r == [Seen(handlers[h], S) EXCEPT !.paso = "cuenta", !.faltan = rest]
      <4>2. DOMAIN r = DOMAIN Seen(handlers[h], S) /\ r.op = "lista"
        BY <3>2
      <4>3. QED  BY <3>1, <3>2, <4>1, <4>2
    <3>4. CASE CountRows(h)
      <4>1. PICK S, n : Serve(h, [Seen(handlers[h], S) EXCEPT !.paso = "leida", !.total = n])
        BY <3>4 DEF CountRows
      <4> DEFINE r == [Seen(handlers[h], S) EXCEPT !.paso = "leida", !.total = n]
      <4>2. DOMAIN r = DOMAIN Seen(handlers[h], S) /\ r.op = "lista"
        BY <3>2
      <4>3. QED  BY <3>1, <3>2, <4>1, <4>2
    <3>5. CASE NextPage(h)
      <4> DEFINE r == [handlers[h] EXCEPT !.paso = "pagina", !.pagina = @ + 1]
      <4>1. DOMAIN r = DOMAIN handlers[h] /\ r.op = "lista" /\ Serve(h, r)
        BY <3>1, <3>5 DEF NextPage
      <4>2. QED  BY <3>1, <4>1
    <3>6. QED  BY <2>2, <3>3, <3>4, <3>5
  <2>3. CASE EndList(h)
    BY <2>3 DEF EndList, Answer
  <2>4. QED  BY <2>1, <2>2, <2>3 DEF List
<1>3. handlers'[h] = r /\ \A k \in Handlers \ {h} : handlers'[k] = handlers[k]
  BY <1>2, Served DEF RequestsOK
<1>4. r.op \in {"lista", "libre"}
  BY <1>2 DEF Idle
<1>5. QED  BY <1>1, <1>2, <1>3, <1>4, TurnOne

LEMMA HardDeleteEffect ==
  ASSUME RequestsOK, NEW h \in Handlers, HardDelete(h)
  PROVE  /\ RequestsTurn /\ UNCHANGED <<catalogueVars, ledger>>
         /\ \A k \in Handlers \ {h} : handlers'[k] = handlers[k]
         /\ handlers'[h].op = "borrar" /\ handlers'[h].rows = {} /\ handlers'[h].done = 0
<1>1. PICK c \in Configs : Serve(h, [op |-> "borrar", config |-> c, done |-> 0, rows |-> {}])
  BY DEF HardDelete
<1> DEFINE r == [op |-> "borrar", config |-> c, done |-> 0, rows |-> {}]
<1>2. r \in Deletion /\ r.rows = {} /\ r.op = "borrar" /\ r.done = 0
  BY DEF Deletion
<1>3. Serve(h, r)
  BY <1>1
<1> HIDE DEF r
<1>4. handlers'[h] = r /\ \A k \in Handlers \ {h} : handlers'[k] = handlers[k]
  BY <1>3, Served DEF RequestsOK
<1>5. UNCHANGED <<catalogueVars, ledger>>
  BY DEF HardDelete, catalogueVars
<1>6. QED  BY <1>2, <1>3, <1>4, <1>5, TurnOne

LEMMA RequestsStep ==
  ASSUME RequestsOK, [Next]_booksVars PROVE RequestsTurn /\ RequestsOK'
<1>1. RequestsTurn
  <2>1. ASSUME NEW h \in Handlers, Catalogue(h) PROVE RequestsTurn
    <3>1. CASE InsertShifts(h) \/ CommitDelete(h)
      BY <3>1, TurnAnswer DEF InsertShifts, CommitDelete
    <3>2. CASE DeleteRows(h)
      BY <3>2, DeleteEffect DEF RequestsTurn
    <3>3. QED  BY <2>1, <3>1, <3>2, OpenEffect, HardDeleteEffect DEF Catalogue
  <2>2. CASE Configure \/ AddRule \/ Trade
    BY <2>2, TurnNone
    DEF Configure, CreateConfiguration, UpdateConfiguration, SoftDelete, OnlyCatalogue, AddRule, Trade
  <2>3. CASE CreateCut \/ UNCHANGED booksVars
    BY <2>3, TurnNone DEF CreateCut, booksVars
  <2>4. QED  BY <2>1, <2>2, <2>3, ReportEffect, ListEffect DEF Next
<1>2. RequestsOK'
  BY <1>1 DEF RequestsOK, RequestsTurn, Deleting, Opening, Deletion, Idle
<1>3. QED  BY <1>1, <1>2

LEMMA RequestsHold == Spec => []RequestsOK
<1>1. Init => RequestsOK
  BY DEF Init, CatalogueInit, RequestsOK, Deleting, Idle
<1>2. QED  BY <1>1, RequestsStep, PTL DEF Spec

(***************************************************************************)
(* Configurations                                                          *)
(***************************************************************************)
ConfigsOK ==
  /\ sorteos \in [Configs -> ConfigRows \cup {Nothing, Erased}]
  /\ \A c \in Configs : Exists(c) => Consistent(sorteos[c])
  /\ \A c, other \in Configs :
       c # other /\ Exists(c) /\ Exists(other) => sorteos[c].codigo # sorteos[other].codigo

\* An update leaves a row of the same columns, of their types.
LEMMA PatchedRow ==
  ASSUME NEW row \in ConfigRows, NEW patch \in Patches PROVE Patched(row, patch) \in ConfigRows
<1>1. PICK asked \in ConfigRows :
        DOMAIN patch \subseteq DOMAIN asked /\ \A column \in DOMAIN patch : patch[column] = asked[column]
  BY ColumnsAssumption
<1> DEFINE given == DOMAIN patch
           auto == "auto" \in given /\ patch.auto
           new == [column \in DOMAIN row |->
                     CASE column = "unica" -> IF auto THEN Nothing
                                              ELSE IF "unica" \in given THEN patch.unica ELSE row.unica
                       [] column \in given \ {"unica"} -> patch[column]
                       [] OTHER -> row[column]]
           Columns == {"codigo", "auto", "unica", "martes", "activo", "baja"}
<1>2. DOMAIN row = Columns /\ given \subseteq Columns
  BY <1>1 DEF ConfigRows
<1>3. /\ row["codigo"] \in Codes /\ row["unica"] \in Dates \cup {Nothing}
      /\ \A column \in {"auto", "martes", "activo", "baja"} : row[column] \in BOOLEAN
  BY DEF ConfigRows
<1>4. /\ "codigo" \in given => patch["codigo"] \in Codes
      /\ "unica" \in given => patch["unica"] \in Dates \cup {Nothing}
      /\ \A column \in {"auto", "martes", "activo", "baja"} : column \in given => patch[column] \in BOOLEAN
  BY <1>1 DEF ConfigRows
<1> HIDE DEF auto, given
<1>5. /\ new["codigo"] \in Codes /\ new["unica"] \in Dates \cup {Nothing}
      /\ new["auto"] \in BOOLEAN /\ new["martes"] \in BOOLEAN /\ new["activo"] \in BOOLEAN
      /\ new["baja"] \in BOOLEAN
  BY <1>2, <1>3, <1>4
<1>6. DOMAIN new = Columns /\ new = [column \in Columns |-> new[column]]
  BY <1>2
<1> HIDE DEF new
<1>7. new \in ConfigRows
  BY <1>5, <1>6 DEF ConfigRows
<1>8. Patched(row, patch) = new
  BY DEF Patched, new, auto, given
<1>9. QED  BY <1>7, <1>8

\* A row written at c that the table accepts: typed, consistent, of a free code.
LEMMA ConfigWritten ==
  ASSUME ConfigsOK, NEW c \in Configs, NEW row \in ConfigRows, Consistent(row), CodeFree(c, row.codigo),
         sorteos' = [sorteos EXCEPT ![c] = row]
  PROVE  /\ ConfigsOK' /\ sorteos'[c] = row /\ Exists(c)'
         /\ \A other \in Configs \ {c} : sorteos'[other] = sorteos[other]
<1>1. /\ sorteos'[c] = row /\ \A other \in Configs \ {c} : sorteos'[other] = sorteos[other]
      /\ sorteos' \in [Configs -> ConfigRows \cup {Nothing, Erased}]
  BY DEF ConfigsOK
<1>2. row # Nothing /\ row # Erased
  BY NothingAssumption
<1>3. \A other \in Configs \ {c} : Exists(other)' => Exists(other) /\ sorteos[other].codigo # row.codigo
  BY <1>1 DEF Exists, CodeFree
<1>4. QED  BY <1>1, <1>2, <1>3 DEF ConfigsOK, Exists

LEMMA ConfigureEffect ==
  ASSUME ConfigsOK, Configure
  PROVE  ConfigsOK' /\ \A c \in Configs : Exists(c) => Exists(c)'
<1>1. ASSUME NEW c \in Configs, CreateConfiguration(c) PROVE ConfigsOK' /\ \A x \in Configs : Exists(x) => Exists(x)'
  <2>1. PICK new \in NewConfigs :
          LET row == [new EXCEPT !.baja = FALSE]
          IN  Consistent(row) /\ CodeFree(c, row.codigo) /\ sorteos' = [sorteos EXCEPT ![c] = row]
    BY <1>1 DEF CreateConfiguration
  <2> DEFINE row == [new EXCEPT !.baja = FALSE]
  <2>2. row \in ConfigRows
    <3>1. new \in ConfigRows
      BY ColumnsAssumption
    <3>2. QED  BY <3>1 DEF ConfigRows
  <2>3. Consistent(row) /\ CodeFree(c, row.codigo) /\ sorteos' = [sorteos EXCEPT ![c] = row]
    BY <2>1
  <2> HIDE DEF row
  <2>4. QED  BY <2>2, <2>3, ConfigWritten DEF Exists
<1>2. ASSUME NEW c \in Configs, UpdateConfiguration(c) PROVE ConfigsOK' /\ \A x \in Configs : Exists(x) => Exists(x)'
  <2>1. PICK patch \in Patches :
          LET row == Patched(sorteos[c], patch)
          IN  Consistent(row) /\ CodeFree(c, row.codigo) /\ sorteos' = [sorteos EXCEPT ![c] = row]
    BY <1>2 DEF UpdateConfiguration
  <2>2. sorteos[c] \in ConfigRows
    BY <1>2 DEF UpdateConfiguration, ConfigKept, Exists, ConfigsOK
  <2> DEFINE row == Patched(sorteos[c], patch)
  <2>3. row \in ConfigRows
    BY <2>2, PatchedRow
  <2>4. Consistent(row) /\ CodeFree(c, row.codigo) /\ sorteos' = [sorteos EXCEPT ![c] = row]
    BY <2>1
  <2> HIDE DEF row
  <2>5. QED  BY <2>3, <2>4, ConfigWritten DEF Exists
<1>3. ASSUME NEW c \in Configs, SoftDelete(c) PROVE ConfigsOK' /\ \A x \in Configs : Exists(x) => Exists(x)'
  <2> DEFINE half == [sorteos[c] EXCEPT !.activo = FALSE]
             row == [half EXCEPT !.baja = TRUE]
  <2>1. sorteos[c] \in ConfigRows /\ Exists(c)
    BY <1>3 DEF SoftDelete, ConfigKept, Exists, ConfigsOK
  <2>2. /\ half \in ConfigRows /\ half.codigo = sorteos[c].codigo
        /\ half.auto = sorteos[c].auto /\ half.unica = sorteos[c].unica
    BY <2>1 DEF ConfigRows
  <2> HIDE DEF half
  <2>3. /\ row \in ConfigRows /\ row.codigo = half.codigo /\ row.auto = half.auto /\ row.unica = half.unica
    BY <2>2 DEF ConfigRows
  <2>4. sorteos' = [sorteos EXCEPT ![c] = row]
    BY <1>3, <2>1 DEF SoftDelete, half, ConfigsOK
  <2> HIDE DEF row
  <2>5. Consistent(row) /\ CodeFree(c, row.codigo)
    BY <2>1, <2>2, <2>3 DEF Consistent, CodeFree, ConfigsOK
  <2>6. QED  BY <2>3, <2>4, <2>5, ConfigWritten DEF Exists
<1>4. QED  BY <1>1, <1>2, <1>3 DEF Configure

\* Every other step leaves the configurations, or erases some of them.
LEMMA ConfigsErased ==
  ASSUME ConfigsOK, NEW S, sorteos' = [c \in Configs |-> IF c \in S THEN Erased ELSE sorteos[c]]
  PROVE  /\ ConfigsOK'
         /\ \A c \in Configs : Exists(c)' <=> Exists(c) /\ c \notin S
<1>1. \A c \in Configs : sorteos'[c] = IF c \in S THEN Erased ELSE sorteos[c]
  OBVIOUS
<1>2. sorteos' \in [Configs -> ConfigRows \cup {Nothing, Erased}]
  BY DEF ConfigsOK
<1>3. \A c \in Configs : Exists(c)' <=> Exists(c) /\ c \notin S
  BY <1>1 DEF Exists
<1>4. \A c \in Configs : Exists(c)' => sorteos'[c] = sorteos[c]
  BY <1>1, <1>3
<1>5. QED  BY <1>2, <1>3, <1>4 DEF ConfigsOK

\* The rows of a kind that a committing deletion removes.
Removed(h, kind) == {x \in Configs \cup Draws \cup Tickets : <<kind, x>> \in handlers[h].rows}

LEMMA CommitEffect ==
  ASSUME NEW h \in Handlers, CommitDelete(h)
  PROVE  /\ Deleting(h) /\ Answer(h)
         /\ sorteos' = [c \in Configs |-> IF c \in Removed(h, "sorteo") THEN Erased ELSE sorteos[c]]
         /\ turnos' = turnos \ Removed(h, "turno")
         /\ bloqueos' = bloqueos \ (Removed(h, "bloqueo") \cup Removed(h, "turno"))
         /\ limites' = limites \ (Removed(h, "limite") \cup Removed(h, "sorteo"))
         /\ ticket' = [k \in Tickets |-> IF k \in Removed(h, "venta") THEN Nothing ELSE ticket[k]]
         /\ prize' = [k \in Tickets |-> IF k \in Removed(h, "venta") \cup Removed(h, "pago")
                                        THEN Nothing ELSE prize[k]]
         /\ winner' = [d \in Draws |-> IF d \in Removed(h, "resultado") \cup Removed(h, "turno")
                                       THEN Nothing ELSE winner[d]]
BY DEF CommitDelete, Removed

\* A step that is neither an edit nor a commit of a deletion.
LEMMA OtherSteps ==
  ASSUME [Next]_booksVars
  PROVE  Configure \/ UNCHANGED sorteos \/ \E h \in Handlers : CommitDelete(h)
BY DEF Next, Catalogue, Report, OpenShift, AutoGenerate, InsertShifts, HardDelete, DeleteRows, AddRule,
       Trade, CreateCut, ReadSales, ReadRelated, AnswerReport, List, StartList, ListPage, CountRows,
       NextPage, EndList, catalogueVars, booksVars

LEMMA ConfigsHold == Spec => []ConfigsOK
<1>1. ASSUME Init PROVE ConfigsOK
  <2>1. \A c \in Configs : sorteos[c] = IF c \in DOMAIN Templates THEN Templates[c] ELSE Nothing
    BY <1>1 DEF Init, CatalogueInit
  <2>2. sorteos \in [Configs -> ConfigRows \cup {Nothing, Erased}]
    BY <1>1, ColumnsAssumption DEF Init, CatalogueInit
  <2>3. \A c \in Configs : Exists(c) => c \in DOMAIN Templates /\ sorteos[c] = Templates[c]
    BY <2>1 DEF Exists
  <2>4. QED  BY <2>2, <2>3, ColumnsAssumption DEF ConfigsOK
<1>2. ASSUME ConfigsOK, [Next]_booksVars PROVE ConfigsOK'
  <2>1. ASSUME NEW h \in Handlers, CommitDelete(h) PROVE ConfigsOK'
    BY <1>2, <2>1, CommitEffect, ConfigsErased
  <2>2. CASE UNCHANGED sorteos
    BY <1>2, <2>2 DEF ConfigsOK, Exists
  <2>3. QED  BY <1>2, <2>1, <2>2, OtherSteps, ConfigureEffect
<1>3. QED  BY <1>1, <1>2, PTL DEF Spec

\* Generating a date and opening by hand agree on which configurations have a
\* shift on it, after any sequence of creates, edits and removals.
THEOREM GenerationAgrees == Spec => []GenerationMatchesOpening
<1>1. ConfigsOK => GenerationMatchesOpening
  BY DEF ConfigsOK, GenerationMatchesOpening, Consistent, Operable, Selected, ListedConfigurations
<1>2. QED  BY <1>1, ConfigsHold, PTL

(***************************************************************************)
(* Rows of a configuration                                                 *)
(***************************************************************************)
TicketRows == [draw : Draws, items : Items, total : Nat, voided : BOOLEAN]

\* What some rows of a ticket add up to.
RowMiles(items, rows) == MapThenSumSet(LAMBDA i : items[i].miles, rows)

LEMMA RowMilesAreSum ==
  ASSUME NEW items, NEW S \in SUBSET DOMAIN items, IsFiniteSet(S)
  PROVE  RowMiles(items, S) = SumOf([i \in DOMAIN items |-> items[i].miles], S)
<1> DEFINE f == [i \in DOMAIN items |-> items[i].miles]
           Fold(h) == h = [s \in SUBSET S |->
             IF s = {} THEN 0 ELSE LET i == CHOOSE i \in s : TRUE IN items[i].miles + h[s \ {i}]]
           iter == CHOOSE h : Fold(h)
<1>1. \A s \in SUBSET S : s # {} =>
        LET i == CHOOSE i \in s : TRUE IN f[i] = items[i].miles
  OBVIOUS
<1>2. \A h : Fold(h) <=> IsSum(h, f, S)
  <2> HIDE DEF f
  <2>1. QED  BY <1>1 DEF IsSum
<1>3. \E h : IsSum(h, f, S)
  <2> HIDE DEF f
  <2>1. QED  BY SumExists
<1>4. RowMiles(items, S) = iter[S]
  BY DEF RowMiles, MapThenSumSet, MapThenFoldSet
<1> HIDE DEF Fold
<1>5. Fold(iter)
  BY <1>2, <1>3
<1> HIDE DEF iter
<1>6. IsSum(iter, f, S)
  <2> HIDE DEF f
  <2>1. QED  BY <1>2, <1>5
<1>7. SumOf(f, S) = iter[S]
  <2> HIDE DEF f
  <2>1. QED  BY <1>6, SumIs
<1>8. QED  BY <1>4, <1>7

LEMMA TicketItems ==
  ASSUME NEW items \in Items
  PROVE  /\ DOMAIN items = 1..Len(items) /\ Len(items) \in Nat /\ IsFiniteSet(DOMAIN items)
         /\ \A i \in DOMAIN items : items[i].miles \in Nat /\ items[i].number \in Winners
<1> DEFINE Item == [number : Winners, miles : Nat]
<1>1. items \in Seq(Item)
  BY ItemsAssumption
<1>2. DOMAIN items = 1..Len(items) /\ Len(items) \in Nat
  BY <1>1
<1>3. \A i \in DOMAIN items : items[i] \in Item
  <2> HIDE DEF Item
  <2>1. QED  BY <1>1, <1>2
<1>4. IsFiniteSet(1..Len(items))
  BY <1>2, FS_Interval
<1>5. QED  BY <1>2, <1>3, <1>4

\* The total of a ticket is the sum over its rows.
LEMMA TicketMiles ==
  ASSUME NEW items \in Items
  PROVE  /\ Ledger!Miles(items) = SumOf([i \in DOMAIN items |-> items[i].miles], DOMAIN items)
         /\ Ledger!Miles(items) \in Nat
<1> DEFINE rows == DOMAIN items
           f    == [i \in rows |-> items[i].miles]
<1>1. IsFiniteSet(rows) /\ rows \in SUBSET rows /\ \A i \in rows : f[i] \in Nat
  BY TicketItems
<1>2. Ledger!Miles(items) = RowMiles(items, rows)
  BY DEF Ledger!Miles, Ledger!MapThenSumSet, Ledger!MapThenFoldSet,
         RowMiles, MapThenSumSet, MapThenFoldSet
<1>3. RowMiles(items, rows) = SumOf(f, rows)
  BY <1>1, RowMilesAreSum
<1>4. SumOf(f, rows) \in Nat
  <2> HIDE DEF rows, f
  <2>1. QED  BY <1>1, SumSubset
<1>5. QED  BY <1>2, <1>3, <1>4

TablesOK ==
  /\ turnos \subseteq Draws /\ bloqueos \subseteq Draws /\ limites \subseteq Configs
  /\ ticket \in [Tickets -> TicketRows \cup {Nothing}]
  /\ \A k \in Tickets : ticket[k] # Nothing => ticket[k].total = Ledger!Miles(ticket[k].items)
  /\ DOMAIN winner = Draws /\ DOMAIN prize = Tickets
  /\ \A cut \in cortes : cut.from <= cut.until

\* What a committed sale, void, result or payment changes.
LEMMA TradeEffect ==
  ASSUME TablesOK, Trade, UNCHANGED cortes
  PROVE  /\ TablesOK'
         /\ UNCHANGED <<sorteos, turnos, bloqueos, limites, handlers>>
         /\ \A k \in Tickets : ticket[k] # Nothing => ticket'[k] # Nothing /\ ticket'[k].draw = ticket[k].draw
         /\ \A k \in Tickets : ticket[k] = Nothing /\ ticket'[k] # Nothing =>
              ticket'[k].draw \in turnos /\ ShiftKept(ticket'[k].draw)
         /\ \A k \in Tickets : prize'[k] # Nothing => prize[k] # Nothing \/ ticket[k] # Nothing
         /\ \A d \in Draws : winner'[d] # Nothing => winner[d] # Nothing \/ d \in turnos
<1>0. UNCHANGED <<sorteos, turnos, bloqueos, limites, handlers>>
  BY DEF Trade
<1> DEFINE Goal ==
         /\ ticket' \in [Tickets -> TicketRows \cup {Nothing}]
         /\ \A k \in Tickets : ticket'[k] # Nothing => ticket'[k].total = Ledger!Miles(ticket'[k].items)
         /\ DOMAIN winner' = Draws /\ DOMAIN prize' = Tickets
         /\ \A k \in Tickets : ticket[k] # Nothing => ticket'[k] # Nothing /\ ticket'[k].draw = ticket[k].draw
         /\ \A k \in Tickets : ticket[k] = Nothing /\ ticket'[k] # Nothing =>
              ticket'[k].draw \in turnos /\ ShiftKept(ticket'[k].draw)
         /\ \A k \in Tickets : prize'[k] # Nothing => prize[k] # Nothing \/ ticket[k] # Nothing
         /\ \A d \in Draws : winner'[d] # Nothing => winner[d] # Nothing \/ d \in turnos
<1>1. ASSUME NEW k \in Tickets, SellTicket(k) PROVE Goal
  <2>1. PICK d \in turnos, items \in Items : ShiftKept(d) /\ Ledger!Sell(k, d, items)
    BY <1>1 DEF SellTicket
  <2> DEFINE sold == [draw |-> d, items |-> items, total |-> Ledger!Miles(items), voided |-> FALSE]
  <2>2. sold \in TicketRows /\ sold.draw = d /\ sold.total = Ledger!Miles(sold.items)
    BY TicketMiles DEF TicketRows, TablesOK
  <2>3. /\ ticket[k] = Nothing /\ ticket' = [ticket EXCEPT ![k] = sold] /\ UNCHANGED <<winner, prize>>
    BY <2>1 DEF Ledger!Sell
  <2> HIDE DEF sold
  <2>4. QED  BY <2>1, <2>2, <2>3 DEF TablesOK
<1>2. ASSUME NEW k \in Tickets, Ledger!Void(k) PROVE Goal
  <2> DEFINE void == [draw |-> ticket[k].draw, items |-> ticket[k].items,
                      total |-> ticket[k].total, voided |-> TRUE]
  <2>1. ticket[k] # Nothing /\ ticket' = [ticket EXCEPT ![k] = void] /\ UNCHANGED <<winner, prize>>
    BY <1>2 DEF Ledger!Void, TablesOK
  <2>2. ticket[k] \in TicketRows /\ ticket[k].total = Ledger!Miles(ticket[k].items)
    BY <2>1 DEF TablesOK
  <2>3. /\ void \in TicketRows /\ void.draw = ticket[k].draw
        /\ void.total = Ledger!Miles(void.items)
    BY <2>2 DEF TicketRows
  <2>4. void # Nothing
    BY <2>3, NothingAssumption DEF TicketRows
  <2> HIDE DEF void
  <2>5. QED  BY <2>1, <2>3, <2>4 DEF TablesOK
<1>3. ASSUME NEW k \in Tickets, Ledger!Pay(k) PROVE Goal
  BY <1>3 DEF Ledger!Pay, TablesOK
<1>4. ASSUME NEW d \in turnos, NEW n \in Winners, Ledger!Draw(d, n) PROVE Goal
  BY <1>4 DEF Ledger!Draw, TablesOK
<1> HIDE DEF Goal
<1>5. Goal
  BY <1>1, <1>2, <1>3, <1>4 DEF Trade
<1>6. QED  BY <1>0, <1>5 DEF Goal, TablesOK

\* A deletion under way holds the sales of every shift it holds, and every shift
\* of the configuration it holds: it can remove them all, whoever else works.
Branches ==
  \A h \in Handlers : Deleting(h) =>
    /\ \A k \in Tickets :
         ticket[k] # Nothing /\ <<"turno", ticket[k].draw>> \in handlers[h].rows
           => <<"venta", k>> \in handlers[h].rows
    /\ \A d \in turnos :
         <<"sorteo", ConfigOf(d)>> \in handlers[h].rows => <<"turno", d>> \in handlers[h].rows

Whole == TablesOK /\ Branches /\ NothingOrphaned

LEMMA DrawConfigs == ASSUME NEW d \in Draws PROVE ConfigOf(d) \in Configs
BY DrawsAssumption DEF ConfigOf

\* A step that only changes configurations that stay, and requests that hold no
\* more rows than before.
LEMMA WholeSame ==
  ASSUME Whole, UNCHANGED <<ledger, turnos, bloqueos, limites, cortes>>,
         \A c \in Configs : Exists(c) => Exists(c)',
         \A h \in Handlers : Deleting(h)' => handlers'[h] = handlers[h] \/ handlers'[h].rows = {}
  PROVE  Whole'
<1>1. TablesOK'
  BY DEF Whole, TablesOK, ledger
<1>2. Branches'
  BY DEF Whole, Branches, Deleting, ledger
<1>3. NothingOrphaned'
  BY DrawConfigs DEF Whole, NothingOrphaned, TablesOK, ledger
<1>4. QED  BY <1>1, <1>2, <1>3 DEF Whole

LEMMA WholeConfigured ==
  ASSUME ConfigsOK, Whole, Configure, UNCHANGED cortes PROVE Whole'
<1>1. UNCHANGED <<turnos, bloqueos, limites, ledger, handlers>>
  BY DEF Configure, CreateConfiguration, UpdateConfiguration, SoftDelete, OnlyCatalogue
<1>2. QED  BY <1>1, ConfigureEffect, WholeSame DEF Deleting

LEMMA WholeRuled == ASSUME Whole, AddRule, UNCHANGED cortes PROVE Whole'
<1>1. /\ UNCHANGED <<sorteos, turnos, ledger, handlers>>
      /\ \/ \E d \in turnos : bloqueos' = bloqueos \cup {d} /\ UNCHANGED limites
         \/ \E c \in Configs : Exists(c) /\ limites' = limites \cup {c} /\ UNCHANGED bloqueos
  BY DEF AddRule, ShiftKept, ConfigKept
<1>2. TablesOK'
  BY <1>1 DEF Whole, TablesOK, ledger
<1>3. Branches'
  BY <1>1 DEF Whole, Branches, Deleting, ledger
<1>4. NothingOrphaned'
  BY <1>1 DEF Whole, NothingOrphaned, Exists, ledger
<1>5. QED  BY <1>2, <1>3, <1>4 DEF Whole

\* A ticket is sold only in a shift that no deletion holds.
LEMMA WholeTraded == ASSUME Whole, Trade, UNCHANGED cortes PROVE Whole'
<1>0. TablesOK /\ Branches /\ NothingOrphaned
  BY DEF Whole
<1>1. /\ TablesOK' /\ UNCHANGED <<sorteos, turnos, bloqueos, limites, handlers>>
      /\ \A k \in Tickets : ticket[k] # Nothing => ticket'[k] # Nothing /\ ticket'[k].draw = ticket[k].draw
      /\ \A k \in Tickets : ticket[k] = Nothing /\ ticket'[k] # Nothing =>
           ticket'[k].draw \in turnos /\ ShiftKept(ticket'[k].draw)
      /\ \A k \in Tickets : prize'[k] # Nothing => prize[k] # Nothing \/ ticket[k] # Nothing
      /\ \A d \in Draws : winner'[d] # Nothing => winner[d] # Nothing \/ d \in turnos
  BY <1>0, TradeEffect
<1>2. Branches'
  <2>1. SUFFICES ASSUME NEW h \in Handlers, Deleting(h), NEW k \in Tickets, ticket'[k] # Nothing,
                        <<"turno", ticket'[k].draw>> \in handlers[h].rows
                 PROVE  <<"venta", k>> \in handlers[h].rows
    BY <1>0, <1>1 DEF Branches, Deleting
  <2>2. ticket[k] # Nothing
    BY <1>1, <2>1 DEF ShiftKept, Doomed
  <2>3. QED  BY <1>0, <1>1, <2>1, <2>2 DEF Branches
<1>3. NothingOrphaned'
  BY <1>0, <1>1 DEF NothingOrphaned, Exists
<1>4. QED  BY <1>1, <1>2, <1>3 DEF Whole

\* A shift is inserted only of a configuration that no deletion holds.
LEMMA WholeInserted ==
  ASSUME RequestsOK, Whole, NEW h \in Handlers, InsertShifts(h), UNCHANGED cortes PROVE Whole'
<1>0. TablesOK /\ Branches /\ NothingOrphaned
  BY DEF Whole
<1> DEFINE draws == handlers[h].draws
<1>1. draws \subseteq Draws
  BY DEF InsertShifts, RequestsOK, Opening
<1>2. /\ UNCHANGED <<sorteos, bloqueos, limites, ledger>>
      /\ \A k \in Handlers : Deleting(k)' => handlers'[k] = handlers[k]
  BY Served DEF InsertShifts, Answer, RequestsOK, Deleting, Idle
<1>3. \/ turnos' = turnos
      \/ turnos' = turnos \cup draws /\ \A d \in draws : Exists(ConfigOf(d)) /\ ~Doomed("sorteo", ConfigOf(d))
  BY DEF InsertShifts
<1> HIDE DEF draws
<1>4. TablesOK'
  BY <1>0, <1>1, <1>2, <1>3 DEF TablesOK, ledger
<1>5. Branches'
  BY <1>0, <1>2, <1>3 DEF Branches, Deleting, Doomed, ledger
<1>6. NothingOrphaned'
  BY <1>0, <1>2, <1>3 DEF NothingOrphaned, Exists, ledger
<1>7. QED  BY <1>4, <1>5, <1>6 DEF Whole

\* The statements that remove shifts and the configuration fail when a sale, or
\* a shift, still refers to what they remove.
LEMMA WholeDeleting ==
  ASSUME RequestsOK, Whole, NEW h \in Handlers, DeleteRows(h), UNCHANGED cortes PROVE Whole'
<1>0. TablesOK /\ Branches /\ NothingOrphaned
  BY DEF Whole
<1>1. /\ UNCHANGED <<sorteos, turnos, bloqueos, limites, ledger>>
      /\ \A k \in Handlers \ {h} : handlers'[k] = handlers[k]
      /\ handlers[h] \in Deletion
  BY DeleteEffect
<1>2. CASE handlers'[h] = Idle
  <2>1. \A k \in Handlers : Deleting(k)' => handlers'[k] = handlers[k]
    BY <1>1, <1>2 DEF Deleting, Idle
  <2>2. QED  BY <1>1, <2>1, WholeSame DEF Exists
<1>3. ASSUME NEW kind \in Kinds, ~StillReferred(h, kind),
             handlers'[h].rows = handlers[h].rows
               \cup {<<kind, x>> : x \in RowsOf(kind, handlers[h].config)}
      PROVE  Whole'
  <2> DEFINE c == handlers[h].config
             rows == handlers[h].rows
             found == RowsOf(kind, c)
  <2>0. Deleting(h) /\ handlers'[h].rows = rows \cup {<<kind, x>> : x \in found}
    BY <1>1, <1>3 DEF Deleting, Deletion
  <2>1. ASSUME NEW k \in Tickets, ticket[k] # Nothing, <<"turno", ticket[k].draw>> \in handlers'[h].rows
        PROVE  <<"venta", k>> \in handlers'[h].rows
    <3>1. CASE <<"turno", ticket[k].draw>> \in rows
      BY <1>0, <2>0, <2>1, <3>1 DEF Branches
    <3>2. CASE <<"turno", ticket[k].draw>> \notin rows
      <4>1. kind = "turno" /\ ticket[k].draw \in found
        BY <2>0, <2>1, <3>2
      <4>2. ticket[k].draw \in DrawsOf(c)
        BY <4>1 DEF RowsOf
      <4>3. k \in TicketsOf(c)
        BY <2>1, <4>2 DEF TicketsOf
      <4>4. <<"venta", k>> \in rows
        BY <1>3, <4>1, <4>3 DEF StillReferred
      <4>5. QED  BY <2>0, <4>4
    <3>3. QED  BY <3>1, <3>2
  <2>2. ASSUME NEW d \in turnos, <<"sorteo", ConfigOf(d)>> \in handlers'[h].rows
        PROVE  <<"turno", d>> \in handlers'[h].rows
    <3>1. CASE <<"sorteo", ConfigOf(d)>> \in rows
      BY <1>0, <2>0, <3>1 DEF Branches
    <3>2. CASE <<"sorteo", ConfigOf(d)>> \notin rows
      <4>1. kind = "sorteo" /\ ConfigOf(d) \in found
        BY <2>0, <2>2, <3>2
      <4>2. ConfigOf(d) = c
        BY <4>1 DEF RowsOf
      <4>3. d \in DrawsOf(c) \cap turnos
        BY <1>0, <4>2 DEF DrawsOf, TablesOK
      <4>4. <<"turno", d>> \in rows
        BY <1>3, <4>1, <4>3 DEF StillReferred
      <4>5. QED  BY <2>0, <4>4
    <3>3. QED  BY <3>1, <3>2
  <2>3. Branches'
    <3>1. ASSUME NEW g \in Handlers, Deleting(g)', g # h PROVE Deleting(g) /\ handlers'[g] = handlers[g]
      BY <1>1, <3>1 DEF Deleting
    <3> HIDE DEF c, rows, found
    <3>2. QED  BY <1>0, <1>1, <2>1, <2>2, <3>1 DEF Branches, ledger
  <2>4. TablesOK'
    BY <1>0, <1>1 DEF TablesOK, ledger
  <2>5. NothingOrphaned'
    BY <1>0, <1>1 DEF NothingOrphaned, Exists, ledger
  <2>6. QED  BY <2>3, <2>4, <2>5 DEF Whole
<1>4. QED  BY <1>2, <1>3, DeleteEffect

\* A commit removes with each row the rows that referred to it.
LEMMA WholeCommitted ==
  ASSUME ConfigsOK, RequestsOK, Whole, NEW h \in Handlers, CommitDelete(h), UNCHANGED cortes PROVE Whole'
<1>0. TablesOK /\ Branches /\ NothingOrphaned /\ Deleting(h)
  BY CommitEffect DEF Whole
<1> DEFINE gone(kind) == Removed(h, kind)
<1>1. /\ turnos' = turnos \ gone("turno")
      /\ bloqueos' = bloqueos \ (gone("bloqueo") \cup gone("turno"))
      /\ limites' = limites \ (gone("limite") \cup gone("sorteo"))
      /\ \A k \in Tickets : ticket'[k] = IF k \in gone("venta") THEN Nothing ELSE ticket[k]
      /\ \A k \in Tickets : prize'[k] = IF k \in gone("venta") \cup gone("pago") THEN Nothing ELSE prize[k]
      /\ \A d \in Draws : winner'[d] = IF d \in gone("resultado") \cup gone("turno") THEN Nothing ELSE winner[d]
      /\ ticket' \in [Tickets -> TicketRows \cup {Nothing}]
      /\ DOMAIN winner' = Draws /\ DOMAIN prize' = Tickets
  BY <1>0, CommitEffect DEF TablesOK
<1>2. \A c \in Configs : Exists(c)' <=> Exists(c) /\ c \notin gone("sorteo")
  BY CommitEffect, ConfigsErased
<1>3. \A g \in Handlers : Deleting(g)' => handlers'[g] = handlers[g] /\ Deleting(g)
  BY CommitEffect, Served DEF Answer, RequestsOK, Deleting, Idle
<1>4. \A k \in Tickets : ticket[k] # Nothing /\ ticket[k].draw \in gone("turno") => k \in gone("venta")
  BY <1>0 DEF Branches, Removed
<1>5. \A d \in turnos : ConfigOf(d) \in gone("sorteo") => d \in gone("turno")
  BY <1>0 DEF Branches, Removed, TablesOK
<1> HIDE DEF gone
<1>6. TablesOK'
  BY <1>0, <1>1 DEF TablesOK
<1>7. Branches'
  <2>1. \A k \in Tickets : ticket'[k] # Nothing => ticket'[k] = ticket[k]
    BY <1>1
  <2>2. turnos' \subseteq turnos
    BY <1>1
  <2>3. QED  BY <1>0, <1>3, <2>1, <2>2 DEF Branches
<1>8. NothingOrphaned'
  <2>1. \A k \in Tickets : ticket'[k] # Nothing => ticket'[k].draw \in turnos'
    BY <1>0, <1>1, <1>4 DEF NothingOrphaned
  <2>2. \A k \in Tickets : prize'[k] # Nothing => ticket'[k] # Nothing
    BY <1>0, <1>1 DEF NothingOrphaned
  <2>3. \A d \in Draws : winner'[d] # Nothing => d \in turnos'
    BY <1>0, <1>1 DEF NothingOrphaned
  <2>4. bloqueos' \subseteq turnos'
    BY <1>0, <1>1 DEF NothingOrphaned
  <2>5. \A d \in turnos' : Exists(ConfigOf(d))'
    BY <1>0, <1>1, <1>2, <1>5, DrawConfigs DEF NothingOrphaned, TablesOK
  <2>6. \A c \in limites' : Exists(c)'
    BY <1>0, <1>1, <1>2 DEF NothingOrphaned, TablesOK
  <2>7. QED  BY <2>1, <2>2, <2>3, <2>4, <2>5, <2>6 DEF NothingOrphaned
<1>9. QED  BY <1>6, <1>7, <1>8 DEF Whole

LEMMA WholeStep == ASSUME ConfigsOK, RequestsOK, Whole, [Next]_booksVars PROVE Whole'
<1>1. ASSUME NEW h \in Handlers, OpenShift(h) \/ AutoGenerate(h), UNCHANGED cortes PROVE Whole'
  <2>1. /\ UNCHANGED <<catalogueVars, ledger>> /\ handlers'[h].op = "abrir"
        /\ \A k \in Handlers \ {h} : handlers'[k] = handlers[k]
    BY <1>1, OpenEffect
  <2>2. QED  BY <1>1, <2>1, WholeSame DEF Deleting, catalogueVars, Exists
<1>2. ASSUME NEW h \in Handlers, Report(h), UNCHANGED cortes PROVE Whole'
  <2>1. /\ UNCHANGED <<catalogueVars, ledger>> /\ handlers'[h].op \in {"informe", "libre"}
        /\ \A k \in Handlers \ {h} : handlers'[k] = handlers[k]
    BY <1>2, ReportEffect
  <2>2. QED  BY <1>2, <2>1, WholeSame DEF Deleting, catalogueVars, Exists
<1>3. ASSUME NEW h \in Handlers, HardDelete(h), UNCHANGED cortes PROVE Whole'
  <2>1. /\ UNCHANGED <<catalogueVars, ledger>> /\ handlers'[h].rows = {}
        /\ \A k \in Handlers \ {h} : handlers'[k] = handlers[k]
    BY <1>3, HardDeleteEffect
  <2>2. QED  BY <1>3, <2>1, WholeSame DEF Deleting, catalogueVars, Exists
<1>4. CASE CreateCut
  <2>1. TablesOK' /\ UNCHANGED <<catalogueVars, ledger, handlers>>
    BY <1>4 DEF CreateCut, Whole, TablesOK, catalogueVars, ledger
  <2>2. QED  BY <2>1 DEF Whole, Branches, NothingOrphaned, Deleting, Exists, catalogueVars, ledger
<1>5. CASE UNCHANGED booksVars
  BY <1>5, WholeSame DEF booksVars, ledger, Exists
<1>6. ASSUME NEW h \in Handlers, List(h), UNCHANGED cortes PROVE Whole'
  <2>1. /\ UNCHANGED <<catalogueVars, ledger>> /\ handlers'[h].op \in {"lista", "libre"}
        /\ \A k \in Handlers \ {h} : handlers'[k] = handlers[k]
    BY <1>6, ListEffect
  <2>2. QED  BY <1>6, <2>1, WholeSame DEF Deleting, catalogueVars, Exists
<1>7. QED
  BY <1>1, <1>2, <1>3, <1>4, <1>5, <1>6, WholeConfigured, WholeRuled, WholeTraded, WholeInserted,
     WholeDeleting, WholeCommitted
  DEF Next, Catalogue

LEMMA WholeHolds == Spec => []Whole
<1>1. Init => Whole
  <2>1. Init => TablesOK
    BY DEF Init, CatalogueInit, Ledger!Init, TablesOK
  <2>2. Init => Branches
    BY DEF Init, CatalogueInit, Branches, Deleting, Idle
  <2>3. Init => NothingOrphaned
    BY DEF Init, CatalogueInit, Ledger!Init, NothingOrphaned
  <2>4. QED  BY <2>1, <2>2, <2>3 DEF Whole
<1>2. QED  BY <1>1, WholeStep, ConfigsHold, RequestsHold, PTL DEF Spec

\* However a hard delete interleaves with sales, results, payments, rules and
\* the opening of shifts, and with other hard deletes, no committed row loses
\* the row it belongs to.
THEOREM NothingIsOrphaned == Spec => []NothingOrphaned
BY WholeHolds, PTL DEF Whole

\* Configurations keep the columns the table's CHECK and its unique code allow,
\* shifts and rules keep their keys, and a cash cut its period.
THEOREM BooksKeepTheirTypes == Spec => []TypeOK
<1>1. ConfigsOK /\ Whole => TypeOK
  BY DEF ConfigsOK, Whole, TablesOK, TypeOK, ConfigRows, Exists
<1>2. QED  BY <1>1, ConfigsHold, WholeHolds, PTL

----------------------------------------------------------------------------
(***************************************************************************)
(* Totals                                                                  *)
(***************************************************************************)
\* A total is a sum, and a function that is equal on its domain has the same.
LEMMA TotalIsSum ==
  ASSUME NEW h, NEW S, DOMAIN h = S, IsFiniteSet(S), NEW f, \A x \in S : h[x] = f[x]
  PROVE  Total(h) = SumOf(f, S)
<1>1. Total(h) = SumOf(h, S)
  BY DEF Total, SumOf
<1>2. SumOf(h, S) = SumOf(f, S)
  BY SumSame
<1>3. QED  BY <1>1, <1>2

\* The rows a report works on, as far as its figures depend on them.
IsSale(x) ==
  /\ x.state \in {"ACTIVA", "ANULADA"} /\ x.total \in Nat /\ x.paid \in Nat
  /\ IsFiniteSet(DOMAIN x.items) /\ \A i \in DOMAIN x.items : x.items[i].miles \in Nat

AreSales(S) == IsFiniteSet(S) /\ \A x \in S : IsSale(x)

LEMMA SomeSales == ASSUME NEW S, AreSales(S), NEW T \in SUBSET S PROVE AreSales(T)
BY FS_Subset DEF AreSales

LEMMA AmountIsSum ==
  ASSUME NEW x, IsSale(x), NEW n
  PROVE  /\ IsFiniteSet(ItemsOf(x, n))
         /\ Amount(x, n) = SumOf([i \in DOMAIN x.items |-> x.items[i].miles], ItemsOf(x, n))
         /\ Amount(x, n) \in Nat
<1> DEFINE miles == [i \in DOMAIN x.items |-> x.items[i].miles]
<1>1. ItemsOf(x, n) \in SUBSET DOMAIN x.items /\ IsFiniteSet(ItemsOf(x, n))
  BY FS_Subset DEF ItemsOf, IsSale
<1>2. \A i \in DOMAIN x.items : miles[i] \in Nat
  BY DEF IsSale
<1>3. Amount(x, n) = SumOf(miles, ItemsOf(x, n))
  <2>1. \A i \in ItemsOf(x, n) : [j \in ItemsOf(x, n) |-> x.items[j].miles][i] = miles[i]
    BY <1>1
  <2> HIDE DEF miles
  <2>2. QED  BY <1>1, <2>1, TotalIsSum DEF Amount
<1> HIDE DEF miles
<1>4. SumOf(miles, ItemsOf(x, n)) \in Nat
  BY <1>1, <1>2, SumSubset
<1>5. QED  BY <1>1, <1>3, <1>4 DEF miles

LEMMA PrizeIsNat == ASSUME NEW x, IsSale(x) PROVE WinningPrize(x) \in Nat
BY AmountIsSum DEF WinningPrize

\* What one sale adds to a report.
Figures(x) ==
  LET active == x.state = "ACTIVA"
      won == WinningPrize(x)
      net == IF active THEN x.total ELSE 0
  IN  [sales |-> 1, active |-> IF active THEN 1 ELSE 0, voided |-> IF active THEN 0 ELSE 1,
       gross |-> x.total, lost |-> IF active THEN 0 ELSE x.total, net |-> net,
       winning |-> won, paid |-> x.paid, pending |-> NotBelowZero(won - x.paid),
       balance |-> net - x.paid]

Additive == {"sales", "active", "voided", "gross", "lost", "net", "winning", "paid", "balance"}
Figure(S, field) == [x \in S |-> Figures(x)[field]]

LEMMA ReportFields ==
  ASSUME NEW S
  PROVE  DOMAIN SumSales(S) = Additive \cup {"pending"}
BY DEF SumSales, Additive

LEMMA FiguresAreInts ==
  ASSUME NEW x, IsSale(x), NEW field \in Additive \cup {"pending"}
  PROVE  Figures(x)[field] \in Int
<1>1. WinningPrize(x) \in Nat /\ x.total \in Nat /\ x.paid \in Nat
  BY PrizeIsNat DEF IsSale
<1>2. QED  BY <1>1 DEF Figures, Additive, NotBelowZero

\* The parts of a set of sales that are active or voided.
LEMMA SoldIsSum ==
  ASSUME NEW S, AreSales(S)
  PROVE  /\ Sold(S) = SumOf(Figure(S, "gross"), S)
         /\ Sold(Active(S)) = SumOf(Figure(S, "net"), S)
         /\ Sold(Voided(S)) = SumOf(Figure(S, "lost"), S)
         /\ Paid(S) = SumOf(Figure(S, "paid"), S)
         /\ Total([x \in S |-> WinningPrize(x)]) = SumOf(Figure(S, "winning"), S)
<1> DEFINE gross == Figure(S, "gross")
           net == Figure(S, "net")
           lost == Figure(S, "lost")
           paid == Figure(S, "paid")
           won == Figure(S, "winning")
<1>1. /\ Active(S) = S \cap Active(S) /\ Voided(S) = S \cap Voided(S)
      /\ IsFiniteSet(S) /\ IsFiniteSet(Active(S)) /\ IsFiniteSet(Voided(S))
  BY FS_Subset DEF Active, Voided, AreSales
<1>2. \A x \in S : /\ gross[x] = x.total /\ gross[x] \in Int /\ paid[x] = x.paid
                   /\ net[x] = (IF x \in Active(S) THEN gross[x] ELSE 0)
                   /\ lost[x] = (IF x \in Voided(S) THEN gross[x] ELSE 0)
                   /\ won[x] = WinningPrize(x)
  BY DEF Figure, Figures, Active, Voided, AreSales, IsSale
<1> HIDE DEF gross, net, lost, paid, won
<1>3. Sold(S) = SumOf(gross, S) /\ Paid(S) = SumOf(paid, S)
  BY <1>1, <1>2, TotalIsSum DEF Sold, Paid
<1>4. Sold(Active(S)) = SumOf(gross, Active(S)) /\ Sold(Voided(S)) = SumOf(gross, Voided(S))
  BY <1>1, <1>2, TotalIsSum DEF Sold
<1>5. SumOf(net, S) = SumOf(gross, Active(S)) /\ SumOf(lost, S) = SumOf(gross, Voided(S))
  BY <1>1, <1>2, SumOnly
<1>6. Total([x \in S |-> WinningPrize(x)]) = SumOf(won, S)
  BY <1>1, <1>2, TotalIsSum
<1>7. QED  BY <1>3, <1>4, <1>5, <1>6 DEF gross, net, lost, paid, won

LEMMA SalesAreCounted ==
  ASSUME NEW S, AreSales(S)
  PROVE  /\ Cardinality(S) = SumOf(Figure(S, "sales"), S)
         /\ Cardinality(Active(S)) = SumOf(Figure(S, "active"), S)
         /\ Cardinality(Voided(S)) = SumOf(Figure(S, "voided"), S)
<1> DEFINE one == Figure(S, "sales")
           active == Figure(S, "active")
           voided == Figure(S, "voided")
<1>1. /\ Active(S) = S \cap Active(S) /\ Voided(S) = S \cap Voided(S)
      /\ IsFiniteSet(S) /\ IsFiniteSet(Active(S)) /\ IsFiniteSet(Voided(S))
  BY FS_Subset DEF Active, Voided, AreSales
<1>2. \A x \in S : /\ one[x] = 1 /\ one[x] \in Int
                   /\ active[x] = (IF x \in Active(S) THEN one[x] ELSE 0)
                   /\ voided[x] = (IF x \in Voided(S) THEN one[x] ELSE 0)
  BY DEF Figure, Figures, Active, Voided, AreSales, IsSale
<1> HIDE DEF one, active, voided
<1>3. /\ SumOf(one, S) = Cardinality(S) /\ SumOf(one, Active(S)) = Cardinality(Active(S))
      /\ SumOf(one, Voided(S)) = Cardinality(Voided(S))
  <2>1. (\A x \in Active(S) : one[x] = 1) /\ (\A x \in Voided(S) : one[x] = 1)
    BY <1>1, <1>2
  <2>2. QED  BY <1>1, <1>2, <2>1, SumCount
<1>4. SumOf(active, S) = SumOf(one, Active(S)) /\ SumOf(voided, S) = SumOf(one, Voided(S))
  BY <1>1, <1>2, SumOnly
<1>5. QED  BY <1>3, <1>4 DEF one, active, voided

\* A report of sales is the sum of what each of them adds; only what is pending
\* is not.
LEMMA ReportIsSum ==
  ASSUME NEW S, AreSales(S), NEW field \in Additive
  PROVE  SumSales(S)[field] = SumOf(Figure(S, field), S)
<1>1. CASE field = "balance"
  <2>1. SumSales(S).balance = Sold(Active(S)) - Paid(S)
    BY DEF SumSales
  <2> DEFINE net == Figure(S, "net")
             paid == Figure(S, "paid")
             balance == Figure(S, "balance")
  <2>2. \A x \in S : balance[x] \in Int /\ paid[x] \in Int /\ net[x] = balance[x] + paid[x]
    BY DEF Figure, Figures, AreSales, IsSale
  <2>3. IsFiniteSet(S) /\ Sold(Active(S)) = SumOf(net, S) /\ Paid(S) = SumOf(paid, S)
    BY SoldIsSum DEF AreSales
  <2> HIDE DEF net, paid, balance
  <2>4. SumOf(net, S) = SumOf(balance, S) + SumOf(paid, S)
    BY <2>2, <2>3, SumPlus
  <2>5. PICK n \in Int : SumOf(balance, S) = n
    BY <2>2, <2>3, SumInt
  <2>6. PICK m \in Int : SumOf(paid, S) = m
    BY <2>2, <2>3, SumInt
  <2>7. SumSales(S).balance = (n + m) - m
    BY <2>1, <2>3, <2>4, <2>5, <2>6
  <2>8. SumSales(S).balance = SumOf(balance, S)
    BY <2>5, <2>6, <2>7
  <2>9. QED  BY <1>1, <2>8 DEF balance
<1>2. CASE field \in {"sales", "active", "voided"}
  BY <1>2, SalesAreCounted DEF SumSales
<1>3. CASE field \in {"gross", "lost", "net", "winning", "paid"}
  BY <1>3, SoldIsSum DEF SumSales
<1>4. QED  BY <1>1, <1>2, <1>3 DEF Additive

LEMMA OneSale ==
  ASSUME NEW x, IsSale(x), NEW field \in Additive \cup {"pending"}
  PROVE  SumSales({x})[field] = Figures(x)[field]
<1>1. AreSales({x})
  BY FS_Singleton DEF AreSales
<1>2. ASSUME NEW f \in Additive PROVE SumSales({x})[f] = Figures(x)[f]
  <2> DEFINE g == Figure({x}, f)
  <2>1. SumSales({x})[f] = SumOf(g, {x})
    BY <1>1, ReportIsSum
  <2>2. g[x] = Figures(x)[f] /\ g[x] \in Int
    BY FiguresAreInts DEF Figure
  <2> HIDE DEF g
  <2>3. SumOf(g, {x}) = g[x] + SumOf(g, {x} \ {x}) /\ {x} \ {x} = {}
    <3>1. \A y \in {x} : g[y] \in Int
      BY <2>2
    <3>2. QED  BY <1>1, <3>1, SumTake DEF AreSales
  <2>4. SumOf(g, {}) = 0
    BY SumOfEmpty
  <2>5. SumOf(g, {x}) = g[x]
    <3>1. PICK n \in Int : g[x] = n
      BY <2>2
    <3>2. SumOf(g, {x}) = n + 0
      BY <2>3, <2>4, <3>1
    <3>3. QED  BY <3>1, <3>2
  <2>6. QED  BY <2>1, <2>2, <2>5
<1>3. SumSales({x}).pending = NotBelowZero(SumSales({x}).winning - SumSales({x}).paid)
  BY DEF SumSales
<1>4. SumSales({x}).winning = WinningPrize(x) /\ SumSales({x}).paid = x.paid
  BY <1>2 DEF Additive, Figures
<1>5. SumSales({x}).pending = Figures(x).pending
  BY <1>3, <1>4 DEF Figures
<1>6. QED  BY <1>2, <1>5

\* The sales of the sellers, and of the days, are the sales.
LEMMA BySeller ==
  ASSUME NEW S, IsFiniteSet(S), NEW f, \A x \in S : f[x] \in Int,
         NEW parts, \A s \in SellersOf(S) : parts[s] = SumOf(f, SalesOf(S, s))
  PROVE  IsFiniteSet(SellersOf(S)) /\ SumOf(f, S) = SumOf(parts, SellersOf(S))
<1> DEFINE key == [x \in S |-> x.seller]
           sellers == {key[x] : x \in S}
           of == [s \in sellers |-> SalesOf(S, s)]
<1>1. IsFiniteSet(sellers)
  BY FiniteImage
<1>2. SellersOf(S) = sellers
  BY DEF SellersOf
<1>3. \A s \in sellers : of[s] \subseteq S /\ \A x \in S : x \in of[s] <=> key[x] = s
  BY DEF SalesOf
<1>4. \A x \in S : f[x] \in Int /\ key[x] \in sellers
  OBVIOUS
<1>5. \A s \in sellers : parts[s] = SumOf(f, of[s])
  BY <1>2
<1> HIDE DEF key, sellers, of
<1>6. SumOf(f, S) = SumOf(parts, sellers)
  BY <1>1, <1>3, <1>4, <1>5, SumParts
<1>7. QED  BY <1>1, <1>2, <1>6

LEMMA FigureSame ==
  ASSUME NEW S, NEW T \in SUBSET S, NEW field
  PROVE  \A x \in T : Figure(T, field)[x] = Figure(S, field)[x]
BY DEF Figure

LEMMA PartOfReport ==
  ASSUME NEW S, AreSales(S), NEW T \in SUBSET S, NEW field \in Additive
  PROVE  SumSales(T)[field] = SumOf(Figure(S, field), T)
<1>1. AreSales(T) /\ IsFiniteSet(T)
  BY SomeSales DEF AreSales
<1>2. SumSales(T)[field] = SumOf(Figure(T, field), T)
  BY <1>1, ReportIsSum
<1>3. SumOf(Figure(T, field), T) = SumOf(Figure(S, field), T)
  BY <1>1, FigureSame, SumSame
<1>4. QED  BY <1>2, <1>3

LEMMA FigureTypes ==
  ASSUME NEW S, AreSales(S), NEW field \in Additive \cup {"pending"}
  PROVE  \A x \in S : Figure(S, field)[x] \in Int /\ Figure(S, field)[x] = Figures(x)[field]
BY FiguresAreInts DEF Figure, AreSales

LEMMA CutIsReport ==
  ASSUME NEW S, AreSales(S), NEW field \in CutFields
  PROVE  CutTotals(S)[field] = SumSales(S)[field]
<1> DEFINE f == Figure(S, field)
           cuts == [s \in SellersOf(S) |-> CutSeller(S, s)[field]]
<1>1. field \in Additive /\ IsFiniteSet(S)
  BY DEF CutFields, Additive, AreSales
<1>2. \A s \in SellersOf(S) : cuts[s] = SumOf(f, SalesOf(S, s))
  <2>1. ASSUME NEW s \in SellersOf(S) PROVE CutSeller(S, s)[field] = SumSales(SalesOf(S, s))[field]
    BY DEF CutSeller, SumSales, CutFields
  <2>2. \A s : SalesOf(S, s) \in SUBSET S
    BY DEF SalesOf
  <2>3. QED  BY <1>1, <2>1, <2>2, PartOfReport
<1>3. CutTotals(S)[field] = Total(cuts)
  BY DEF CutTotals
<1>4. DOMAIN cuts = SellersOf(S)
  OBVIOUS
<1>5. \A x \in S : f[x] \in Int
  BY <1>1, FigureTypes
<1>6. SumSales(S)[field] = SumOf(f, S)
  BY <1>1, ReportIsSum
<1> HIDE DEF f, cuts
<1>7. IsFiniteSet(SellersOf(S)) /\ SumOf(f, S) = SumOf(cuts, SellersOf(S))
  BY <1>1, <1>2, <1>5, BySeller
<1>8. Total(cuts) = SumOf(cuts, SellersOf(S))
  BY <1>4, <1>7, TotalIsSum
<1>9. QED  BY <1>3, <1>6, <1>7, <1>8

LEMMA SellersReport ==
  ASSUME NEW S, AreSales(S), NEW field \in Additive \cup {"pending"}
  PROVE  Total([s \in SellersOf(S) |-> SellerReport(S, s)[field]]) = SumOf(Figure(S, field), S)
<1> DEFINE f == Figure(S, field)
           reports == [s \in SellersOf(S) |-> SellerReport(S, s)[field]]
<1>1. IsFiniteSet(S) /\ \A s : SalesOf(S, s) \in SUBSET S /\ IsFiniteSet(SalesOf(S, s))
  BY FS_Subset DEF AreSales, SalesOf
<1>2. \A x \in S : f[x] \in Int /\ f[x] = Figures(x)[field] /\ IsSale(x)
  BY FigureTypes DEF AreSales
<1>3. ASSUME NEW s \in SellersOf(S) PROVE SellerReport(S, s)[field] = SumOf(f, SalesOf(S, s))
  <2> DEFINE each == [x \in SalesOf(S, s) |-> SumSales({x})[field]]
  <2>1. SellerReport(S, s)[field] = Total(each)
    BY ReportFields DEF SellerReport
  <2>2. \A x \in SalesOf(S, s) : each[x] = f[x]
    BY <1>1, <1>2, OneSale
  <2>3. DOMAIN each = SalesOf(S, s)
    OBVIOUS
  <2> HIDE DEF f, each
  <2>4. QED  BY <1>1, <2>1, <2>2, <2>3, TotalIsSum
<1>4. \A s \in SellersOf(S) : reports[s] = SumOf(f, SalesOf(S, s))
  BY <1>3
<1>5. DOMAIN reports = SellersOf(S)
  OBVIOUS
<1> HIDE DEF f, reports
<1>6. IsFiniteSet(SellersOf(S)) /\ SumOf(f, S) = SumOf(reports, SellersOf(S))
  BY <1>1, <1>2, <1>4, BySeller
<1>7. Total(reports) = SumOf(reports, SellersOf(S))
  BY <1>5, <1>6, TotalIsSum
<1>8. QED  BY <1>6, <1>7 DEF f, reports

\* What is pending of each sale is at least what is pending of them all, since
\* one sale's payment settles no other's prize.
LEMMA PendingIsLess ==
  ASSUME NEW S, AreSales(S)
  PROVE  SumOf(Figure(S, "pending"), S) >= SumSales(S).pending
<1> DEFINE pending == Figure(S, "pending")
           won == Figure(S, "winning")
           paid == Figure(S, "paid")
           both == [x \in S |-> pending[x] + paid[x]]
<1>1. IsFiniteSet(S) /\ \A x \in S : /\ pending[x] \in Nat /\ won[x] \in Nat /\ paid[x] \in Nat
                                     /\ pending[x] \in Int /\ won[x] \in Int /\ paid[x] \in Int
                                     /\ won[x] <= pending[x] + paid[x]
  <2>1. ASSUME NEW x \in S PROVE /\ WinningPrize(x) \in Nat /\ x.paid \in Nat
                                 /\ pending[x] = NotBelowZero(WinningPrize(x) - x.paid)
                                 /\ won[x] = WinningPrize(x) /\ paid[x] = x.paid
    BY PrizeIsNat DEF AreSales, IsSale, Figure, Figures
  <2> HIDE DEF pending, won, paid
  <2>2. ASSUME NEW x \in S PROVE pending[x] \in Nat /\ won[x] <= pending[x] + paid[x]
    BY <2>1 DEF NotBelowZero
  <2>3. QED  BY <2>1, <2>2 DEF AreSales
<1>2. SumSales(S).pending = NotBelowZero(SumSales(S).winning - SumSales(S).paid)
  BY DEF SumSales
<1>3. SumSales(S).winning = SumOf(won, S) /\ SumSales(S).paid = SumOf(paid, S)
  BY ReportIsSum DEF Additive
<1> HIDE DEF pending, won, paid
<1>4. \A x \in S : /\ both[x] \in Int /\ won[x] \in Int /\ won[x] <= both[x]
                   /\ both[x] = pending[x] + paid[x]
  BY <1>1
<1> HIDE DEF both
<1>5. SumOf(both, S) = SumOf(pending, S) + SumOf(paid, S)
  BY <1>1, <1>4, SumPlus
<1>6. SumOf(won, S) <= SumOf(both, S)
  BY <1>1, <1>4, SumLess
<1>7. SumOf(pending, S) \in Nat /\ SumOf(won, S) \in Nat /\ SumOf(paid, S) \in Nat
  BY <1>1, SumSubset
<1>8. PICK p \in Nat, w \in Nat, q \in Nat :
        SumOf(pending, S) = p /\ SumOf(won, S) = w /\ SumOf(paid, S) = q
  BY <1>7
<1>9. w <= p + q
  BY <1>5, <1>6, <1>8
<1>10. SumSales(S).pending = NotBelowZero(w - q)
  BY <1>2, <1>3, <1>8
<1>11. p >= NotBelowZero(w - q)
  BY <1>9 DEF NotBelowZero
<1>12. QED  BY <1>8, <1>10, <1>11 DEF pending

LEMMA DaysAreNet ==
  ASSUME NEW S, AreSales(S)
  PROVE  Total([d \in DatesOf(S) |-> DayKpi(S, d).net]) = SumSales(S).net
<1> DEFINE f == Figure(S, "net")
           key == [x \in S |-> x.date]
           dates == {key[x] : x \in S}
           of == [d \in dates |-> {x \in S : x.date = d}]
           nets == [d \in DatesOf(S) |-> DayKpi(S, d).net]
<1>1. IsFiniteSet(S) /\ IsFiniteSet(dates) /\ DatesOf(S) = dates
  BY FiniteImage DEF AreSales, DatesOf
<1>2. \A d \in dates : of[d] \subseteq S /\ \A x \in S : x \in of[d] <=> key[x] = d
  OBVIOUS
<1>3. \A x \in S : f[x] \in Int /\ key[x] \in dates
  BY FigureTypes DEF Additive
<1>4. \A d \in dates : nets[d] = SumOf(f, of[d])
  <2>1. ASSUME NEW d \in dates PROVE nets[d] = SumSales(of[d]).net
    BY <1>1 DEF DayKpi, SumSales
  <2> HIDE DEF f, key, of, nets
  <2>2. ASSUME NEW d \in dates PROVE SumSales(of[d]).net = SumOf(f, of[d])
    BY <1>2, PartOfReport DEF Additive, f
  <2>3. QED  BY <2>1, <2>2
<1>5. SumSales(S).net = SumOf(f, S)
  BY ReportIsSum DEF Additive
<1>6. DOMAIN nets = dates
  BY <1>1
<1> HIDE DEF f, key, dates, of, nets
<1>7. SumOf(f, S) = SumOf(nets, dates)
  BY <1>1, <1>2, <1>3, <1>4, SumParts
<1>8. Total(nets) = SumOf(nets, dates)
  BY <1>1, <1>6, TotalIsSum
<1>9. QED  BY <1>5, <1>7, <1>8 DEF nets

LEMMA GrossIsNetAndLost ==
  ASSUME NEW S, AreSales(S)
  PROVE  SumSales(S).gross = SumSales(S).net + SumSales(S).lost
<1> DEFINE gross == Figure(S, "gross")
           net == Figure(S, "net")
           lost == Figure(S, "lost")
<1>1. IsFiniteSet(S) /\ \A x \in S : net[x] \in Int /\ lost[x] \in Int /\ gross[x] = net[x] + lost[x]
  BY DEF AreSales, IsSale, Figure, Figures
<1>2. /\ SumSales(S).gross = SumOf(gross, S) /\ SumSales(S).net = SumOf(net, S)
      /\ SumSales(S).lost = SumOf(lost, S)
  BY ReportIsSum DEF Additive
<1> HIDE DEF gross, net, lost
<1>3. QED  BY <1>1, <1>2, SumPlus

(***************************************************************************)
(* What the tables say of money                                            *)
(***************************************************************************)
Bought == {k \in Tickets : ticket[k] # Nothing}
Drawn == {d \in Draws : winner[d] # Nothing}

\* At any time finitely many tickets are sold and shifts drawn, and a payment is
\* of what its ticket has won.
Funds ==
  /\ IsFiniteSet(Bought) /\ IsFiniteSet(Drawn)
  /\ \A d \in Drawn : winner[d] \in Winners
  /\ \A k \in Tickets : prize[k] # Nothing =>
       /\ ticket[k] # Nothing /\ ticket[k].draw \in Drawn
       /\ prize[k] = Ledger!Staked(ticket[k].items, winner[ticket[k].draw])
       /\ prize[k] > 0

\* A deletion finds the results of its own configuration, and it ends with that.
Deletes ==
  \A h \in Handlers : Deleting(h) =>
    /\ \A d \in Draws : <<"resultado", d>> \in handlers[h].rows => ConfigOf(d) = handlers[h].config
    /\ handlers[h].done = 7 => <<"sorteo", handlers[h].config>> \in handlers[h].rows

Settled == Funds /\ Deletes

LEMMA SettledSame ==
  ASSUME Settled, UNCHANGED ledger,
         \A h \in Handlers : Deleting(h)' =>
           \/ handlers'[h] = handlers[h]
           \/ handlers'[h].rows = {} /\ handlers'[h].done = 0
  PROVE  Settled'
<1>1. Funds'
  BY DEF Settled, Funds, Bought, Drawn, ledger
<1>2. Deletes'
  BY DEF Settled, Deletes, Deleting
<1>3. QED  BY <1>1, <1>2 DEF Settled

LEMMA SettledTraded ==
  ASSUME TablesOK, NothingOrphaned, Settled, Trade, UNCHANGED cortes PROVE Settled'
<1>0. Funds /\ Deletes /\ UNCHANGED handlers
  BY DEF Settled, Trade
<1>1. Deletes'
  BY <1>0 DEF Deletes, Deleting
<1>2. ASSUME NEW k \in Tickets, SellTicket(k) PROVE Funds'
  <2>1. PICK d \in turnos, items \in Items : Ledger!Sell(k, d, items)
    BY <1>2 DEF SellTicket
  <2> DEFINE sold == [draw |-> d, items |-> items, total |-> Ledger!Miles(items), voided |-> FALSE]
  <2>2. ticket[k] = Nothing /\ ticket' = [ticket EXCEPT ![k] = sold] /\ UNCHANGED <<winner, prize>>
    BY <2>1 DEF Ledger!Sell
  <2> HIDE DEF sold
  <2>3. Bought' \subseteq Bought \cup {k} /\ Drawn' = Drawn
    BY <2>2 DEF Bought, Drawn, TablesOK
  <2>4. IsFiniteSet(Bought')
    <3>1. IsFiniteSet(Bought \cup {k})
      BY <1>0, FS_AddElement DEF Funds
    <3>2. QED  BY <2>3, <3>1, FS_Subset
  <2>5. \A j \in Tickets : prize[j] # Nothing => ticket'[j] = ticket[j]
    BY <1>0, <2>2 DEF Funds, TablesOK
  <2>6. QED  BY <1>0, <2>2, <2>3, <2>4, <2>5 DEF Funds
<1>3. ASSUME NEW k \in Tickets, Ledger!Void(k) PROVE Funds'
  <2> DEFINE void == [draw |-> ticket[k].draw, items |-> ticket[k].items,
                      total |-> ticket[k].total, voided |-> TRUE]
  <2>1. /\ ticket[k] # Nothing /\ ticket' = [ticket EXCEPT ![k] = void] /\ UNCHANGED <<winner, prize>>
        /\ void.draw = ticket[k].draw /\ void.items = ticket[k].items
    BY <1>3 DEF Ledger!Void, TablesOK
  <2>2. void \in TicketRows
    BY <2>1 DEF TablesOK, TicketRows
  <2>3. void # Nothing
    BY <2>2, NothingAssumption DEF TicketRows
  <2> HIDE DEF void
  <2>4. Bought' = Bought /\ Drawn' = Drawn
    BY <2>1, <2>3 DEF Bought, Drawn, TablesOK
  <2>5. \A j \in Tickets : prize[j] # Nothing => /\ ticket'[j] # Nothing
                                                 /\ ticket'[j].draw = ticket[j].draw
                                                 /\ ticket'[j].items = ticket[j].items
    BY <1>0, <2>1, <2>3 DEF Funds, TablesOK
  <2>6. QED  BY <1>0, <2>1, <2>4, <2>5 DEF Funds
<1>4. ASSUME NEW k \in Tickets, Ledger!Pay(k) PROVE Funds'
  <2>1. /\ ticket[k] # Nothing /\ winner[ticket[k].draw] # Nothing
        /\ Ledger!Staked(ticket[k].items, winner[ticket[k].draw]) > 0
        /\ prize' = [prize EXCEPT ![k] = Ledger!Staked(ticket[k].items, winner[ticket[k].draw])]
        /\ UNCHANGED <<ticket, winner>>
    BY <1>4 DEF Ledger!Pay
  <2>2. ticket[k].draw \in Drawn
    BY <2>1 DEF TablesOK, TicketRows, Drawn
  <2>3. Bought' = Bought /\ Drawn' = Drawn
    BY <2>1 DEF Bought, Drawn
  <2>4. QED  BY <1>0, <2>1, <2>2, <2>3 DEF Funds, TablesOK
<1>5. ASSUME NEW d \in turnos, NEW n \in Winners, Ledger!Draw(d, n) PROVE Funds'
  <2>1. winner[d] = Nothing /\ winner' = [winner EXCEPT ![d] = n] /\ UNCHANGED <<ticket, prize>>
    BY <1>5 DEF Ledger!Draw
  <2>2. Bought' = Bought /\ Drawn \subseteq Drawn' \cup {d} /\ Drawn' \subseteq Drawn \cup {d}
        /\ d \notin Drawn /\ Drawn \subseteq Drawn'
    BY <2>1 DEF Bought, Drawn, TablesOK
  <2>3. IsFiniteSet(Drawn')
    <3>1. IsFiniteSet(Drawn \cup {d})
      BY <1>0, FS_AddElement DEF Funds
    <3>2. QED  BY <2>2, <3>1, FS_Subset
  <2>4. \A e \in Drawn' : winner'[e] = (IF e = d THEN n ELSE winner[e])
    BY <2>1 DEF Drawn, TablesOK
  <2>5. \A e \in Drawn' : winner'[e] \in Winners
    BY <1>0, <2>2, <2>4 DEF Funds
  <2>6. \A e \in Drawn : winner'[e] = winner[e] /\ e \in Drawn'
    BY <2>2, <2>4
  <2>7. QED  BY <1>0, <2>1, <2>2, <2>3, <2>5, <2>6 DEF Funds
<1>6. Funds'
  BY <1>2, <1>3, <1>4, <1>5 DEF Trade
<1>7. QED  BY <1>1, <1>6 DEF Settled

LEMMA SettledDeleting ==
  ASSUME RequestsOK, Settled, NEW h \in Handlers, DeleteRows(h) PROVE Settled'
<1>0. Funds /\ Deletes
  BY DEF Settled
<1>1. Funds'
  BY <1>0, DeleteEffect DEF Funds, Bought, Drawn, ledger
<1> DEFINE r == handlers[h]
           kind == Statements[r.done + 1]
           found == RowsOf(kind, r.config)
           next == [r EXCEPT !.done = @ + 1, !.rows = @ \cup {<<kind, x>> : x \in found}]
<1>2. /\ handlers[h] \in Deletion /\ r.done \in 0..6 /\ Deleting(h)
      /\ \A g \in Handlers \ {h} : handlers'[g] = handlers[g]
      /\ handlers'[h] = Idle \/ (handlers'[h] = next /\ ~StillReferred(h, kind))
  <2>1. handlers[h] \in Deletion /\ Deleting(h)
    BY DEF DeleteRows, RequestsOK
  <2>2. r.done \in 0..6
    BY <2>1 DEF DeleteRows, Deletion, Statements
  <2>3. (StillReferred(h, kind) /\ Serve(h, Idle)) \/ (~StillReferred(h, kind) /\ Serve(h, next))
    BY DEF DeleteRows, Answer
  <2> HIDE DEF r, kind, found, next
  <2>4. QED  BY <2>1, <2>2, <2>3, Served DEF RequestsOK
<1>3. CASE handlers'[h] = Idle
  <2>1. \A g \in Handlers : Deleting(g)' => handlers'[g] = handlers[g] /\ Deleting(g)
    BY <1>2, <1>3 DEF Deleting, Idle
  <2>2. Deletes'
    BY <1>0, <2>1 DEF Deletes
  <2>3. QED  BY <1>1, <2>2 DEF Settled
<1>4. CASE handlers'[h] = next /\ ~StillReferred(h, kind)
  <2>1. /\ handlers'[h].config = r.config /\ handlers'[h].done = r.done + 1
        /\ handlers'[h].rows = r.rows \cup {<<kind, x>> : x \in found}
    BY <1>2, <1>4 DEF Deletion
  <2> HIDE DEF next
  <2>2. ASSUME NEW d \in Draws, <<"resultado", d>> \in handlers'[h].rows
        PROVE  ConfigOf(d) = r.config
    <3>1. CASE <<"resultado", d>> \in r.rows
      BY <1>0, <1>2, <3>1 DEF Deletes
    <3>2. CASE <<"resultado", d>> \notin r.rows
      <4>1. kind = "resultado" /\ d \in found
        BY <2>1, <2>2, <3>2
      <4>2. QED  BY <4>1 DEF RowsOf, DrawsOf
    <3>3. QED  BY <3>1, <3>2
  <2>3. ASSUME handlers'[h].done = 7 PROVE <<"sorteo", r.config>> \in handlers'[h].rows
    <3>1. kind = "sorteo"
      BY <1>2, <2>1, <2>3 DEF Statements
    <3>2. Exists(r.config)
      BY <1>4, <3>1 DEF StillReferred
    <3>3. r.config \in found
      BY <3>1, <3>2 DEF RowsOf
    <3>4. QED  BY <2>1, <3>1, <3>3
  <2>4. \A g \in Handlers \ {h} : Deleting(g)' => handlers'[g] = handlers[g] /\ Deleting(g)
    BY <1>2 DEF Deleting
  <2> HIDE DEF r, kind, found
  <2>5. Deletes'
    BY <1>0, <2>1, <2>2, <2>3, <2>4 DEF Deletes
  <2>6. QED  BY <1>1, <2>5 DEF Settled
<1>5. QED  BY <1>2, <1>3, <1>4

\* What a commit leaves of the money: a shift that loses its result, or goes
\* itself, has no ticket left.
LEMMA SettledCommitted ==
  ASSUME RequestsOK, Whole, Settled, NEW h \in Handlers, CommitDelete(h) PROVE Settled'
<1>0. Funds /\ Deletes /\ TablesOK /\ Branches /\ NothingOrphaned /\ Deleting(h) /\ handlers[h].done = 7
  BY DEF Settled, Whole, CommitDelete, Statements
<1> DEFINE gone(kind) == Removed(h, kind)
<1>1. /\ \A k \in Tickets : ticket'[k] = IF k \in gone("venta") THEN Nothing ELSE ticket[k]
      /\ \A k \in Tickets : prize'[k] = IF k \in gone("venta") \cup gone("pago") THEN Nothing ELSE prize[k]
      /\ \A d \in Draws : winner'[d] = IF d \in gone("resultado") \cup gone("turno") THEN Nothing ELSE winner[d]
  BY CommitEffect
<1>2. ASSUME NEW k \in Tickets, ticket[k] # Nothing, ticket[k].draw \in gone("turno") PROVE k \in gone("venta")
  BY <1>0, <1>2 DEF Branches, Removed
<1>3. ASSUME NEW k \in Tickets, ticket[k] # Nothing, ticket[k].draw \in gone("resultado")
      PROVE  k \in gone("venta")
  <2> DEFINE d == ticket[k].draw
  <2>1. d \in Draws /\ d \in turnos /\ <<"resultado", d>> \in handlers[h].rows
    BY <1>0, <1>3 DEF NothingOrphaned, TablesOK, Removed
  <2>2. <<"sorteo", ConfigOf(d)>> \in handlers[h].rows
    BY <1>0, <2>1 DEF Deletes
  <2>3. <<"turno", d>> \in handlers[h].rows
    BY <1>0, <2>1, <2>2 DEF Branches
  <2>4. d \in gone("turno")
    BY <2>1, <2>3 DEF Removed
  <2>5. QED  BY <1>2, <1>3, <2>4
<1> HIDE DEF gone
<1>4. Bought' \subseteq Bought /\ Drawn' \subseteq Drawn
  BY <1>1 DEF Bought, Drawn
<1>5. \A d \in Drawn' : winner'[d] = winner[d]
  BY <1>1 DEF Drawn
<1>6. ASSUME NEW k \in Tickets, prize'[k] # Nothing
      PROVE  /\ prize'[k] = prize[k] /\ ticket'[k] = ticket[k] /\ ticket[k] # Nothing
             /\ ticket[k].draw \in Drawn /\ winner'[ticket[k].draw] = winner[ticket[k].draw]
             /\ ticket[k].draw \in Drawn'
  <2>1. prize'[k] = prize[k] /\ ticket'[k] = ticket[k] /\ k \notin gone("venta") /\ prize[k] # Nothing
    BY <1>1, <1>6
  <2>2. ticket[k] # Nothing /\ ticket[k].draw \in Drawn
    BY <1>0, <2>1 DEF Funds
  <2>3. ticket[k].draw \notin gone("resultado") \cup gone("turno")
    BY <1>2, <1>3, <2>1, <2>2
  <2>4. QED  BY <1>1, <2>1, <2>2, <2>3 DEF Drawn
<1>7. Funds'
  <2>1. IsFiniteSet(Bought') /\ IsFiniteSet(Drawn')
    BY <1>0, <1>4, FS_Subset DEF Funds
  <2>2. \A d \in Drawn' : winner'[d] \in Winners
    BY <1>0, <1>4, <1>5 DEF Funds
  <2>3. ASSUME NEW k \in Tickets, prize'[k] # Nothing
        PROVE  /\ ticket'[k] # Nothing /\ ticket'[k].draw \in Drawn'
               /\ prize'[k] = Ledger!Staked(ticket'[k].items, winner'[ticket'[k].draw]) /\ prize'[k] > 0
    BY <1>0, <1>6, <2>3 DEF Funds
  <2>4. QED  BY <2>1, <2>2, <2>3 DEF Funds
<1>8. Deletes'
  <2>1. \A g \in Handlers : Deleting(g)' => handlers'[g] = handlers[g] /\ Deleting(g)
    BY CommitEffect, Served DEF Answer, RequestsOK, Deleting, Idle
  <2>2. QED  BY <1>0, <2>1 DEF Deletes
<1>9. QED  BY <1>7, <1>8 DEF Settled

LEMMA SettledInit == Init => Settled
<1>1. Init => Funds
  <2>1. Init => Bought = {} /\ Drawn = {}
    BY DEF Init, CatalogueInit, Ledger!Init, Bought, Drawn
  <2>2. Init => \A k \in Tickets : prize[k] = Nothing
    BY DEF Init, CatalogueInit, Ledger!Init
  <2>3. QED  BY <2>1, <2>2, FS_EmptySet DEF Funds
<1>2. Init => Deletes
  BY DEF Init, CatalogueInit, Deletes, Deleting, Idle
<1>3. QED  BY <1>1, <1>2 DEF Settled

LEMMA SettledStep == ASSUME RequestsOK, Whole, Settled, [Next]_booksVars PROVE Settled'
<1>1. ASSUME NEW h \in Handlers, OpenShift(h) \/ AutoGenerate(h) \/ Report(h) \/ List(h) \/ HardDelete(h)
      PROVE  Settled'
  <2>1. /\ UNCHANGED ledger /\ \A k \in Handlers \ {h} : handlers'[k] = handlers[k]
        /\ \/ handlers'[h].op \in {"abrir", "informe", "lista", "libre"}
           \/ handlers'[h].rows = {} /\ handlers'[h].done = 0
    BY <1>1, OpenEffect, ReportEffect, ListEffect, HardDeleteEffect
  <2>2. QED  BY <2>1, SettledSame DEF Deleting
<1>2. ASSUME NEW h \in Handlers, InsertShifts(h) PROVE Settled'
  <2>1. UNCHANGED ledger /\ \A k \in Handlers : Deleting(k)' => handlers'[k] = handlers[k]
    BY <1>2, Served DEF InsertShifts, Answer, RequestsOK, Deleting, Idle
  <2>2. QED  BY <2>1, SettledSame
<1>3. CASE Configure \/ AddRule \/ CreateCut \/ UNCHANGED booksVars
  <2>1. UNCHANGED <<ledger, handlers>>
    BY <1>3 DEF Configure, CreateConfiguration, UpdateConfiguration, SoftDelete, OnlyCatalogue,
                AddRule, CreateCut, booksVars, ledger
  <2>2. QED  BY <2>1, SettledSame
<1>4. CASE Trade /\ UNCHANGED cortes
  BY <1>4, SettledTraded DEF Whole
<1>5. QED
  BY <1>1, <1>2, <1>3, <1>4, SettledDeleting, SettledCommitted DEF Next, Catalogue

\* However hard deletes overlap sales, results and payments, every payment is of
\* what its ticket has won on a shift whose result is still there.
THEOREM MoneySettled == Spec => []Settled
BY SettledInit, SettledStep, WholeHolds, RequestsHold, PTL DEF Spec

----------------------------------------------------------------------------
(* The rows of a report                                                    *)

LEMMA StakedIsSum ==
  ASSUME NEW items, NEW n, IsFiniteSet({i \in DOMAIN items : items[i].number = n})
  PROVE  Ledger!Staked(items, n)
           = SumOf([i \in DOMAIN items |-> items[i].miles], {i \in DOMAIN items : items[i].number = n})
<1> DEFINE S == {i \in DOMAIN items : items[i].number = n}
<1>1. Ledger!Staked(items, n) = RowMiles(items, S)
  BY DEF Ledger!Staked, Ledger!MapThenSumSet, Ledger!MapThenFoldSet,
         RowMiles, MapThenSumSet, MapThenFoldSet
<1>2. QED  BY <1>1, RowMilesAreSum

\* A payment is of the amount that the reports count as won.
LEMMA StakedIsAmount ==
  ASSUME NEW x, IsSale(x), NEW n
  PROVE  Ledger!Staked(x.items, n) = Amount(x, n)
<1>1. IsFiniteSet(ItemsOf(x, n)) /\ ItemsOf(x, n) = {i \in DOMAIN x.items : x.items[i].number = n}
  BY AmountIsSum DEF ItemsOf
<1>2. PICK items : items = x.items
  OBVIOUS
<1>3. Ledger!Staked(items, n) = SumOf([i \in DOMAIN items |-> items[i].miles], ItemsOf(x, n))
  BY <1>1, <1>2, StakedIsSum
<1>4. Amount(x, n) = SumOf([i \in DOMAIN items |-> items[i].miles], ItemsOf(x, n))
  BY <1>2, AmountIsSum
<1>5. QED  BY <1>2, <1>3, <1>4

LEMMA PrizesAreNats ==
  ASSUME TablesOK, Funds, NEW k \in Tickets, prize[k] # Nothing PROVE prize[k] \in Nat
<1> DEFINE x == [items |-> ticket[k].items, state |-> "ACTIVA", total |-> 0, paid |-> 0]
           n == winner[ticket[k].draw]
<1>1. ticket[k].items \in Items /\ prize[k] = Ledger!Staked(x.items, n)
  BY DEF TablesOK, TicketRows, Funds
<1>2. IsSale(x)
  BY <1>1, TicketItems DEF IsSale
<1> HIDE DEF x, n
<1>3. Amount(x, n) \in Nat
  BY <1>2, AmountIsSum
<1>4. QED  BY <1>1, <1>2, <1>3, StakedIsAmount

RowFields == {"id", "seller", "state", "draw", "date", "config", "total", "items", "won", "paid"}
IsRow(x) == IsSale(x) /\ DOMAIN x = RowFields /\ x.id \in Tickets

LEMMA ReadRow ==
  ASSUME TablesOK, NEW k \in Bought
  PROVE  IsRow(SaleRow(k)) /\ SaleRow(k).id = k
<1>1. k \in Tickets /\ ticket[k].total \in Nat
  BY DEF Bought, TablesOK, TicketRows
<1>2. DOMAIN SaleRow(k).items = {} /\ IsFiniteSet({})
  BY FS_EmptySet DEF SaleRow
<1>3. DOMAIN SaleRow(k) = RowFields /\ SaleRow(k).id = k /\ SaleRow(k).paid = 0
      /\ SaleRow(k).state \in {"ACTIVA", "ANULADA"} /\ SaleRow(k).total = ticket[k].total
  BY DEF SaleRow, RowFields
<1>4. QED  BY <1>1, <1>2, <1>3 DEF IsRow, IsSale

\* The statement that reads the sales finds finitely many.
LEMMA SalesRead ==
  ASSUME TablesOK, Funds
  PROVE  /\ IsFiniteSet(SaleRows) /\ SaleRows = {SaleRow(k) : k \in Bought}
         /\ \A x \in SaleRows : IsRow(x)
<1> DEFINE row == [k \in Bought |-> SaleRow(k)]
<1>1. IsFiniteSet({row[k] : k \in Bought})
  BY FiniteImage DEF Funds
<1>2. SaleRows = {SaleRow(k) : k \in Bought}
  BY DEF SaleRows, Bought
<1>3. {SaleRow(k) : k \in Bought} = {row[k] : k \in Bought}
  OBVIOUS
<1> HIDE DEF row
<1>4. QED  BY <1>1, <1>2, <1>3, ReadRow

LEMMA RelatedRow ==
  ASSUME TablesOK, Funds, NEW x, IsRow(x)
  PROVE  IsRow(WithShift(x)) /\ IsRow(WithItems(x)) /\ IsRow(WithPayment(x))
<1>1. IsRow(WithShift(x))
  BY DEF IsRow, IsSale, WithShift, RowFields
<1>2. IsRow(WithItems(x))
  <2> DEFINE items == IF Kept(x) THEN ticket[x.id].items ELSE <<>>
  <2>1. IsFiniteSet(DOMAIN items) /\ \A i \in DOMAIN items : items[i].miles \in Nat
    <3>1. CASE Kept(x)
      <4>1. items \in Items
        BY <3>1 DEF Kept, TablesOK, TicketRows, IsRow
      <4>2. QED  BY <4>1, TicketItems
    <3>2. CASE ~Kept(x)
      BY <3>2, FS_EmptySet
    <3>3. QED  BY <3>1, <3>2
  <2>2. WithItems(x) = [x EXCEPT !.items = items]
    BY DEF WithItems
  <2> HIDE DEF items
  <2>3. QED  BY <2>1, <2>2 DEF IsRow, IsSale, RowFields
<1>3. IsRow(WithPayment(x))
  <2> DEFINE paid == IF Kept(x) /\ prize[x.id] # Nothing THEN prize[x.id] ELSE 0
  <2>1. paid \in Nat
    BY PrizesAreNats DEF IsRow
  <2>2. WithPayment(x) = [x EXCEPT !.paid = paid]
    BY DEF WithPayment
  <2> HIDE DEF paid
  <2>3. QED  BY <2>1, <2>2 DEF IsRow, IsSale, RowFields
<1>4. QED  BY <1>1, <1>2, <1>3

\* A report in progress has read finitely many rows, of the right types.
AreRows(S) == IsFiniteSet(S) /\ \A x \in S : IsRow(x)

ReportsOK ==
  \A h \in Handlers : handlers[h].op = "informe" =>
    DOMAIN handlers[h] = {"op", "paso", "query", "filas"} /\ AreRows(handlers[h].filas)

LEMMA ReadIsReport ==
  ASSUME RequestsOK, TablesOK, Funds, NEW h \in Handlers, ReadSales(h)
  PROVE  handlers'[h].op = "informe" => /\ DOMAIN handlers'[h] = {"op", "paso", "query", "filas"}
                                        /\ AreRows(handlers'[h].filas)
<1>1. PICK query \in Asked :
        Serve(h, [op |-> "informe", paso |-> "ventas", query |-> query,
                  filas |-> {x \in SaleRows : Matches(x, query)}])
  BY DEF ReadSales
<1> DEFINE filas == {x \in SaleRows : Matches(x, query)}
<1>5. AreRows(filas)
  <2>1. IsFiniteSet(filas)
    BY SalesRead, FS_Subset
  <2>2. QED  BY <2>1, SalesRead DEF AreRows
<1>6. handlers'[h] = [op |-> "informe", paso |-> "ventas", query |-> query, filas |-> filas]
  BY <1>1, Served DEF RequestsOK
<1> HIDE DEF filas
<1>7. QED  BY <1>5, <1>6

LEMMA RelatedIsReport ==
  ASSUME RequestsOK, ReportsOK, TablesOK, Funds, NEW h \in Handlers, ReadRelated(h)
  PROVE  /\ DOMAIN handlers'[h] = {"op", "paso", "query", "filas"}
         /\ AreRows(handlers'[h].filas)
<1> DEFINE old == handlers[h].filas
<1>1. DOMAIN handlers[h] = {"op", "paso", "query", "filas"} /\ IsFiniteSet(old) /\ \A x \in old : IsRow(x)
  BY DEF ReadRelated, ReportsOK, AreRows
<1>2. \E next, with : /\ Serve(h, [handlers[h] EXCEPT !.paso = next, !.filas = {with[x] : x \in old}])
                      /\ \A x \in old : IsRow(with[x])
  <2>1. ASSUME NEW next, Serve(h, [handlers[h] EXCEPT !.paso = next, !.filas = {WithShift(x) : x \in old}])
        PROVE  \E with : /\ Serve(h, [handlers[h] EXCEPT !.paso = next, !.filas = {with[x] : x \in old}])
                         /\ \A x \in old : IsRow(with[x])
    <3> DEFINE with == [x \in old |-> WithShift(x)]
    <3>1. {with[x] : x \in old} = {WithShift(x) : x \in old} /\ \A x \in old : IsRow(with[x])
      BY <1>1, RelatedRow
    <3> HIDE DEF with
    <3>2. QED  BY <2>1, <3>1
  <2>2. ASSUME NEW next, Serve(h, [handlers[h] EXCEPT !.paso = next, !.filas = {WithItems(x) : x \in old}])
        PROVE  \E with : /\ Serve(h, [handlers[h] EXCEPT !.paso = next, !.filas = {with[x] : x \in old}])
                         /\ \A x \in old : IsRow(with[x])
    <3> DEFINE with == [x \in old |-> WithItems(x)]
    <3>1. {with[x] : x \in old} = {WithItems(x) : x \in old} /\ \A x \in old : IsRow(with[x])
      BY <1>1, RelatedRow
    <3> HIDE DEF with
    <3>2. QED  BY <2>2, <3>1
  <2>3. ASSUME NEW next, Serve(h, [handlers[h] EXCEPT !.paso = next, !.filas = {WithPayment(x) : x \in old}])
        PROVE  \E with : /\ Serve(h, [handlers[h] EXCEPT !.paso = next, !.filas = {with[x] : x \in old}])
                         /\ \A x \in old : IsRow(with[x])
    <3> DEFINE with == [x \in old |-> WithPayment(x)]
    <3>1. {with[x] : x \in old} = {WithPayment(x) : x \in old} /\ \A x \in old : IsRow(with[x])
      BY <1>1, RelatedRow
    <3> HIDE DEF with
    <3>2. QED  BY <2>3, <3>1
  <2>4. QED  BY <2>1, <2>2, <2>3 DEF ReadRelated
<1>3. PICK next, with : /\ Serve(h, [handlers[h] EXCEPT !.paso = next, !.filas = {with[x] : x \in old}])
                        /\ \A x \in old : IsRow(with[x])
  BY <1>2
<1> DEFINE new == {with[x] : x \in old}
<1>4. IsFiniteSet(new)
  <2> HIDE DEF old
  <2>1. QED  BY <1>1, FiniteImage
<1>5. \A x \in new : IsRow(x)
  BY <1>3
<1>6. handlers'[h] = [handlers[h] EXCEPT !.paso = next, !.filas = new]
  BY <1>3, Served DEF RequestsOK
<1> HIDE DEF new, old
<1>7. QED  BY <1>1, <1>4, <1>5, <1>6 DEF AreRows

LEMMA ReportsStep == ASSUME RequestsOK, Whole, Settled, ReportsOK, [Next]_booksVars PROVE ReportsOK'
<1>0. TablesOK /\ Funds
  BY DEF Whole, Settled
<1>1. ASSUME NEW h \in Handlers, Report(h) PROVE ReportsOK'
  <2>1. \A k \in Handlers \ {h} : handlers'[k] = handlers[k]
    BY <1>1, ReportEffect
  <2>2. CASE AnswerReport(h)
    <3>1. handlers'[h].op # "informe"
      BY <2>2, Served DEF AnswerReport, Answer, Idle, RequestsOK
    <3>2. QED  BY <2>1, <3>1 DEF ReportsOK, AreRows
  <2>3. CASE ReadSales(h) \/ ReadRelated(h)
    BY <1>0, <2>1, <2>3, ReadIsReport, RelatedIsReport DEF ReportsOK, AreRows
  <2>4. QED  BY <1>1, <2>2, <2>3 DEF Report
<1>2. ASSUME \A h \in Handlers : handlers'[h].op = "informe" => handlers'[h] = handlers[h]
      PROVE  ReportsOK'
  BY <1>2 DEF ReportsOK, AreRows, IsRow
<1>3. ASSUME NEW h \in Handlers, Catalogue(h)
      PROVE  \A k \in Handlers : handlers'[k].op = "informe" => handlers'[k] = handlers[k]
  <2>1. CASE OpenShift(h) \/ AutoGenerate(h) \/ HardDelete(h)
    BY <2>1, OpenEffect, HardDeleteEffect
  <2>2. CASE InsertShifts(h) \/ CommitDelete(h)
    BY <2>2, Served DEF InsertShifts, CommitDelete, Answer, Idle, RequestsOK
  <2>3. CASE DeleteRows(h)
    BY <2>3, DeleteEffect DEF Deletion, Idle
  <2>4. QED  BY <1>3, <2>1, <2>2, <2>3 DEF Catalogue
<1>4. CASE Configure \/ AddRule \/ Trade \/ CreateCut \/ UNCHANGED booksVars
  BY <1>2, <1>4
  DEF Configure, CreateConfiguration, UpdateConfiguration, SoftDelete, OnlyCatalogue, AddRule, Trade,
      CreateCut, booksVars
<1>5. ASSUME NEW h \in Handlers, List(h) PROVE ReportsOK'
  <2>1. \A k \in Handlers : handlers'[k].op = "informe" => handlers'[k] = handlers[k]
    BY <1>5, ListEffect
  <2>2. QED  BY <1>2, <2>1
<1>6. QED  BY <1>1, <1>2, <1>3, <1>4, <1>5 DEF Next

LEMMA ReportsHold == Spec => []ReportsOK
<1>1. Init => ReportsOK
  BY DEF Init, CatalogueInit, ReportsOK, Idle
<1>2. QED  BY <1>1, ReportsStep, WholeHolds, MoneySettled, RequestsHold, PTL DEF Spec

LEMMA ReadyRows ==
  ASSUME ReportsOK, NEW h \in Handlers, Ready(h) PROVE AreSales(handlers[h].filas)
BY DEF ReportsOK, Ready, AreRows, AreSales, IsRow

\* A report adds up, however torn its reads: sellers and days to the overview,
\* and what the sellers call pending is never less than what the overview does.
THEOREM ReportsAddUp == Spec => []SellersAddUp
<1>1. ReportsOK => SellersAddUp
  <2>1. SUFFICES ASSUME ReportsOK, NEW h \in Handlers, Ready(h)
                 PROVE  LET S == handlers[h].filas
                            all == SumSales(S)
                            OfSellers(field) == Total([s \in SellersOf(S) |-> SellerReport(S, s)[field]])
                        IN  /\ \A field \in DOMAIN all \ {"pending"} : OfSellers(field) = all[field]
                            /\ OfSellers("pending") >= all.pending
                            /\ Total([d \in DatesOf(S) |-> DayKpi(S, d).net]) = all.net
                            /\ all.gross = all.net + all.lost
    BY DEF SellersAddUp
  <2>2. PICK S : S = handlers[h].filas
    OBVIOUS
  <2>3. AreSales(S)
    BY <2>1, <2>2, ReadyRows
  <2>4. \A field \in DOMAIN SumSales(S) \ {"pending"} :
          Total([s \in SellersOf(S) |-> SellerReport(S, s)[field]]) = SumSales(S)[field]
    <3>1. \A field \in DOMAIN SumSales(S) \ {"pending"} : field \in Additive
      BY ReportFields
    <3>2. QED  BY <2>3, <3>1, SellersReport, ReportIsSum
  <2>5. Total([s \in SellersOf(S) |-> SellerReport(S, s)["pending"]]) >= SumSales(S).pending
    BY <2>3, SellersReport, PendingIsLess
  <2>6. QED  BY <2>2, <2>3, <2>4, <2>5, DaysAreNet, GrossIsNetAndLost
<1>2. QED  BY <1>1, ReportsHold, PTL

\* A cash cut over a period and the overview of the same period agree, for any
\* sales and sellers, whatever moved while the cut was read.
THEOREM CutsAgree == Spec => []CutAgreesWithOverview
<1>1. ReportsOK => CutAgreesWithOverview
  BY ReadyRows, CutIsReport DEF CutAgreesWithOverview
<1>2. QED  BY <1>1, ReportsHold, PTL

(***************************************************************************)
(* The matrix                                                              *)
(***************************************************************************)
\* A sale with its details.
IsTicket(x) ==
  /\ IsSale(x) /\ x.items \in Items
  /\ x.total = SumOf([i \in DOMAIN x.items |-> x.items[i].miles], DOMAIN x.items)

AreTickets(S) == IsFiniteSet(S) /\ \A x \in S : IsTicket(x)

LEMMA TicketsAreSales == ASSUME NEW S, AreTickets(S) PROVE AreSales(S)
BY DEF AreTickets, AreSales, IsTicket

LEMMA SomeTickets == ASSUME NEW S, AreTickets(S), NEW T \in SUBSET S PROVE AreTickets(T)
BY FS_Subset DEF AreTickets

\* The items of a ticket are those of each number.
LEMMA NumbersOfTicket ==
  ASSUME NEW x, IsTicket(x), NEW amounts, NEW counts,
         \A n \in Winners : amounts[n] = Amount(x, n) /\ counts[n] = Cardinality(ItemsOf(x, n))
  PROVE  SumOf(amounts, Winners) = x.total /\ SumOf(counts, Winners) = Len(x.items)
<1> DEFINE I == DOMAIN x.items
           key == [i \in I |-> x.items[i].number]
           miles == [i \in I |-> x.items[i].miles]
           one == [i \in I |-> 1]
           of == [n \in Winners |-> ItemsOf(x, n)]
<1>1. I = 1..Len(x.items) /\ Len(x.items) \in Nat /\ IsFiniteSet(I)
      /\ \A i \in I : miles[i] \in Int /\ key[i] \in Winners
  BY TicketItems DEF IsTicket
<1>2. \A n \in Winners : of[n] \subseteq I /\ \A i \in I : i \in of[n] <=> key[i] = n
  BY DEF ItemsOf
<1>3. \A n \in Winners : of[n] = ItemsOf(x, n) /\ IsFiniteSet(of[n])
  BY AmountIsSum DEF IsTicket
<1>4. \A n \in Winners : amounts[n] = SumOf(miles, of[n])
  BY AmountIsSum DEF IsTicket
<1>5. \A i \in I : one[i] = 1 /\ one[i] \in Int
  OBVIOUS
<1>6. x.total = SumOf(miles, I)
  BY DEF IsTicket
<1>7. Cardinality(I) = Len(x.items)
  BY <1>1, FS_Interval
<1> HIDE DEF I, key, miles, one, of
<1>8. \A n \in Winners : counts[n] = SumOf(one, of[n])
  <2>1. \A n \in Winners : \A i \in of[n] : one[i] = 1
    BY <1>2, <1>5
  <2>2. QED  BY <1>3, <2>1, SumCount
<1>9. IsFiniteSet(Winners)
  BY ItemsAssumption
<1>10. SumOf(miles, I) = SumOf(amounts, Winners)
  <2>1. IsFiniteSet(I) /\ \A i \in I : miles[i] \in Int /\ key[i] \in Winners
    BY <1>1
  <2>2. QED  BY <1>2, <1>4, <1>9, <2>1, SumParts
<1>11. SumOf(one, I) = SumOf(counts, Winners)
  <2>1. \A i \in I : one[i] \in Int /\ key[i] \in Winners
    BY <1>1, <1>5
  <2>2. IsFiniteSet(I)
    BY <1>1
  <2>3. QED  BY <1>2, <1>8, <1>9, <2>1, <2>2, SumParts
<1>12. SumOf(one, I) = Cardinality(I)
  BY <1>1, <1>5, SumCount
<1>13. QED  BY <1>6, <1>7, <1>10, <1>11, <1>12

LEMMA NoItems ==
  ASSUME NEW x, IsSale(x), NEW n, ItemsOf(x, n) = {}
  PROVE  Amount(x, n) = 0 /\ Cardinality(ItemsOf(x, n)) = 0
BY AmountIsSum, SumOfEmpty, FS_EmptySet

LEMMA CountTypes ==
  ASSUME NEW x, IsSale(x), NEW n PROVE Amount(x, n) \in Int /\ Cardinality(ItemsOf(x, n)) \in Int
<1>1. Cardinality(ItemsOf(x, n)) \in Nat
  BY AmountIsSum, FS_CardinalityType
<1>2. Amount(x, n) \in Nat
  BY AmountIsSum
<1>3. QED  BY <1>1, <1>2

LEMMA CellIsSum ==
  ASSUME NEW S, AreTickets(S), NEW n, NEW amounts, NEW counts,
         \A x \in S : amounts[x] = Amount(x, n) /\ counts[x] = Cardinality(ItemsOf(x, n))
  PROVE  /\ MatrixCell(S, n).amount = SumOf(amounts, S)
         /\ MatrixCell(S, n).items = SumOf(counts, S)
<1> DEFINE with == {x \in S : ItemsOf(x, n) # {}}
           someAmounts == [x \in with |-> Amount(x, n)]
           someCounts == [x \in with |-> Cardinality(ItemsOf(x, n))]
<1>1. IsFiniteSet(S) /\ with \in SUBSET S /\ IsFiniteSet(with)
  BY FS_Subset DEF AreTickets
<1>2. MatrixCell(S, n).amount = Total(someAmounts) /\ MatrixCell(S, n).items = Total(someCounts)
  BY DEF MatrixCell
<1>3. \A x \in S : IsSale(x)
  BY DEF AreTickets, IsTicket
<1>4. \A x \in S : amounts[x] \in Int /\ counts[x] \in Int
  BY <1>3, CountTypes
<1>5. \A x \in S : /\ amounts[x] = (IF x \in with THEN amounts[x] ELSE 0)
                   /\ counts[x] = (IF x \in with THEN counts[x] ELSE 0)
  BY <1>3, NoItems
<1>6. /\ DOMAIN someAmounts = with /\ \A x \in with : someAmounts[x] = amounts[x]
      /\ DOMAIN someCounts = with /\ \A x \in with : someCounts[x] = counts[x]
  OBVIOUS
<1> HIDE DEF with, someAmounts, someCounts
<1>7. Total(someAmounts) = SumOf(amounts, with) /\ Total(someCounts) = SumOf(counts, with)
  BY <1>1, <1>6, TotalIsSum
<1>8. SumOf(amounts, S) = SumOf(amounts, with) /\ SumOf(counts, S) = SumOf(counts, with)
  BY <1>1, <1>4, <1>5, SumOnly
<1>9. QED  BY <1>2, <1>7, <1>8

\* Number by number the matrix has what the tickets have.
LEMMA MatrixIsSum ==
  ASSUME NEW S, AreTickets(S), NEW totals, NEW lengths,
         \A x \in S : totals[x] = x.total /\ lengths[x] = Len(x.items)
  PROVE  /\ MatrixSummary(S, Winners).total = SumOf(totals, S)
         /\ MatrixSummary(S, Winners).items = SumOf(lengths, S)
<1> DEFINE amounts == [x \in S |-> [n \in Winners |-> Amount(x, n)]]
           counts == [x \in S |-> [n \in Winners |-> Cardinality(ItemsOf(x, n))]]
           money == [n \in Winners |-> MatrixCell(S, n).amount]
           items == [n \in Winners |-> MatrixCell(S, n).items]
<1>1. IsFiniteSet(S) /\ IsFiniteSet(Winners) /\ \A x \in S : IsTicket(x) /\ IsSale(x)
  BY ItemsAssumption DEF AreTickets, IsTicket
<1>2. \A x \in S, n \in Winners : /\ amounts[x][n] = Amount(x, n) /\ amounts[x][n] \in Int
                                  /\ counts[x][n] = Cardinality(ItemsOf(x, n)) /\ counts[x][n] \in Int
  BY <1>1, CountTypes
<1>3. DOMAIN money = Winners /\ DOMAIN items = Winners
      /\ \A n \in Winners : money[n] = MatrixCell(S, n).amount /\ items[n] = MatrixCell(S, n).items
  OBVIOUS
<1>4. MatrixSummary(S, Winners).total = Total(money) /\ MatrixSummary(S, Winners).items = Total(items)
  BY DEF MatrixSummary
<1> HIDE DEF amounts, counts, money, items
<1>5. \A x \in S : totals[x] = SumOf(amounts[x], Winners) /\ lengths[x] = SumOf(counts[x], Winners)
  <2>1. ASSUME NEW x \in S PROVE totals[x] = SumOf(amounts[x], Winners) /\ lengths[x] = SumOf(counts[x], Winners)
    <3>1. PICK a, c : a = amounts[x] /\ c = counts[x]
      OBVIOUS
    <3>2. \A n \in Winners : a[n] = Amount(x, n) /\ c[n] = Cardinality(ItemsOf(x, n))
      BY <1>2, <3>1
    <3>3. SumOf(a, Winners) = x.total /\ SumOf(c, Winners) = Len(x.items)
      BY <1>1, <3>2, NumbersOfTicket
    <3>4. QED  BY <3>1, <3>3
  <2>2. QED  BY <2>1
<1> DEFINE amountsOf == [n \in Winners |-> [x \in S |-> Amount(x, n)]]
           countsOf == [n \in Winners |-> [x \in S |-> Cardinality(ItemsOf(x, n))]]
<1>6. \A x \in S, n \in Winners : amountsOf[n][x] = amounts[x][n] /\ countsOf[n][x] = counts[x][n]
  BY <1>2
<1> HIDE DEF amountsOf, countsOf
<1>7. \A n \in Winners : money[n] = SumOf(amountsOf[n], S) /\ items[n] = SumOf(countsOf[n], S)
  <2>1. ASSUME NEW n \in Winners
        PROVE  money[n] = SumOf(amountsOf[n], S) /\ items[n] = SumOf(countsOf[n], S)
    <3>1. PICK a, c : a = amountsOf[n] /\ c = countsOf[n]
      OBVIOUS
    <3>2. \A x \in S : a[x] = Amount(x, n) /\ c[x] = Cardinality(ItemsOf(x, n))
      BY <1>2, <1>6, <3>1
    <3>3. MatrixCell(S, n).amount = SumOf(a, S) /\ MatrixCell(S, n).items = SumOf(c, S)
      BY <3>2, CellIsSum
    <3>4. QED  BY <1>3, <3>1, <3>3
  <2>2. QED  BY <2>1
<1>8. SumOf(totals, S) = SumOf(money, Winners)
  <2>1. IsFiniteSet(S) /\ IsFiniteSet(Winners)
    BY <1>1
  <2>2. Transposed(amounts, amountsOf, S, Winners)
    BY <1>2, <1>6 DEF Transposed
  <2>3. RowSums(totals, amounts, S, Winners) /\ RowSums(money, amountsOf, Winners, S)
    BY <1>5, <1>7 DEF RowSums
  <2>4. QED  BY <2>1, <2>2, <2>3, SumSwap
<1>9. SumOf(lengths, S) = SumOf(items, Winners)
  <2>1. IsFiniteSet(S) /\ IsFiniteSet(Winners)
    BY <1>1
  <2>2. Transposed(counts, countsOf, S, Winners)
    BY <1>2, <1>6 DEF Transposed
  <2>3. RowSums(lengths, counts, S, Winners) /\ RowSums(items, countsOf, Winners, S)
    BY <1>5, <1>7 DEF RowSums
  <2>4. QED  BY <2>1, <2>2, <2>3, SumSwap
<1>10. Total(money) = SumOf(money, Winners) /\ Total(items) = SumOf(items, Winners)
  BY <1>1, <1>3, TotalIsSum
<1>11. QED  BY <1>4, <1>8, <1>9, <1>10

LEMMA MatrixAgrees ==
  ASSUME NEW S, AreTickets(S)
  PROVE  LET active == MatrixSummary(OfState(S, "ACTIVA"), Winners)
             all == SumSales(S)
         IN  /\ active.total = all.net
             /\ active.items = NumbersSold(S)
             /\ MatrixSummary(OfState(S, "TODAS"), Winners).total = all.gross
             /\ \A n \in NumbersOf(S) : NumberKpi(S, n).net = MatrixCell(Active(S), n).amount
             /\ \A n \in Winners, state \in {"ACTIVA", "ANULADA", "TODAS"} :
                  MatrixCell(OfState(S, state), n).sales = Cardinality(ListedSales(S, state, n))
<1>1. OfState(S, "ACTIVA") = Active(S) /\ OfState(S, "TODAS") = S /\ Active(S) \in SUBSET S
  BY DEF OfState, Active
<1>2. AreTickets(Active(S)) /\ IsFiniteSet(Active(S)) /\ IsFiniteSet(S)
  BY <1>1, SomeTickets DEF AreTickets
<1>3. \A T \in SUBSET S : AreTickets(T) => MatrixSummary(T, Winners).total = Sold(T)
                                           /\ MatrixSummary(T, Winners).items = Total([x \in T |-> Len(x.items)])
  <2>1. ASSUME NEW T \in SUBSET S, AreTickets(T)
        PROVE  /\ MatrixSummary(T, Winners).total = Sold(T)
               /\ MatrixSummary(T, Winners).items = Total([x \in T |-> Len(x.items)])
    <3> DEFINE totals == [x \in T |-> x.total]
               lengths == [x \in T |-> Len(x.items)]
    <3>1. /\ DOMAIN totals = T /\ DOMAIN lengths = T
      OBVIOUS
    <3>0. \A x \in T : totals[x] = x.total /\ lengths[x] = Len(x.items)
      OBVIOUS
    <3>2. Sold(T) = Total(totals)
      BY DEF Sold
    <3> HIDE DEF totals, lengths
    <3>3. Total(totals) = SumOf(totals, T) /\ Total(lengths) = SumOf(lengths, T)
      BY <2>1, <3>1, TotalIsSum DEF AreTickets
    <3>4. /\ MatrixSummary(T, Winners).total = SumOf(totals, T)
          /\ MatrixSummary(T, Winners).items = SumOf(lengths, T)
      BY <2>1, <3>0, MatrixIsSum
    <3>5. QED  BY <3>2, <3>3, <3>4 DEF lengths
  <2>2. QED  BY <2>1
<1>4. SumSales(S).net = Sold(Active(S)) /\ SumSales(S).gross = Sold(S)
  BY DEF SumSales
<1>5. \A n : NumberKpi(S, n).net = MatrixCell(Active(S), n).amount
  BY DEF NumberKpi, MatrixCell
<1>6. \A n, state : MatrixCell(OfState(S, state), n).sales = Cardinality(ListedSales(S, state, n))
  BY DEF MatrixCell, ListedSales
<1>7. QED  BY <1>1, <1>2, <1>3, <1>4, <1>5, <1>6 DEF NumbersSold

\* The rows as one statement sees them.
FullRow(k) == WithPayment(WithItems(WithShift(SaleRow(k))))

LEMMA RowsAtRest ==
  ASSUME TablesOK, NothingOrphaned, Funds
  PROVE  /\ IsFiniteSet(AllRows)
         /\ AllRows = {FullRow(k) : k \in Bought}
         /\ \A x \in AllRows : IsRow(x) /\ x.id \in Bought
<1> DEFINE row == [k \in Bought |-> FullRow(k)]
<1>1. AllRows = {FullRow(k) : k \in Bought}
  BY DEF AllRows, FullRow, Bought
<1>2. IsFiniteSet({row[k] : k \in Bought})
  BY FiniteImage DEF Funds
<1>3. ASSUME NEW k \in Bought PROVE IsRow(FullRow(k)) /\ FullRow(k).id = k
  <2>1. IsRow(SaleRow(k)) /\ SaleRow(k).id = k
    BY ReadRow
  <2>2. IsRow(WithShift(SaleRow(k))) /\ WithShift(SaleRow(k)).id = k
    BY <2>1, RelatedRow DEF WithShift, IsRow, RowFields
  <2>3. IsRow(WithItems(WithShift(SaleRow(k)))) /\ WithItems(WithShift(SaleRow(k))).id = k
    BY <2>2, RelatedRow DEF WithItems, IsRow, RowFields
  <2>4. QED  BY <2>3, RelatedRow DEF WithPayment, FullRow, IsRow, RowFields
<1>4. {row[k] : k \in Bought} = {FullRow(k) : k \in Bought}
  OBVIOUS
<1> HIDE DEF row
<1>5. QED  BY <1>1, <1>2, <1>3, <1>4

LEMMA FullRowOf ==
  ASSUME TablesOK, NothingOrphaned, Funds, NEW k \in Bought
  PROVE  LET x == FullRow(k) IN
         /\ x.id = k /\ x.draw = ticket[k].draw /\ x.items = ticket[k].items
         /\ x.state = IF ticket[k].voided THEN "ANULADA" ELSE "ACTIVA"
         /\ x.total = SaleRow(k).total
         /\ x.won = IF winner[x.draw] = Nothing THEN NoNumber ELSE winner[x.draw]
         /\ x.paid = IF prize[k] # Nothing THEN prize[k] ELSE 0
<1> DEFINE a == SaleRow(k)
           b == WithShift(a)
           c == WithItems(b)
           d == WithPayment(c)
<1>0. ticket[k] # Nothing /\ ticket[k].draw \in turnos
  BY DEF NothingOrphaned, Bought
<1>1. DOMAIN a = RowFields /\ a.id = k /\ a.draw = ticket[k].draw /\ a.paid = 0
      /\ a.state = IF ticket[k].voided THEN "ANULADA" ELSE "ACTIVA"
  BY DEF SaleRow, RowFields
<1>2. a.total = SaleRow(k).total
  OBVIOUS
<1> HIDE DEF a
<1>3. /\ DOMAIN b = RowFields /\ b.id = k /\ b.draw = a.draw /\ b.state = a.state /\ b.total = a.total
      /\ b.paid = 0 /\ b.won = IF winner[a.draw] = Nothing THEN NoNumber ELSE winner[a.draw]
  BY <1>0, <1>1 DEF WithShift, RowFields
<1> HIDE DEF b
<1>4. /\ DOMAIN c = RowFields /\ c.id = k /\ c.draw = a.draw /\ c.state = a.state /\ c.total = a.total
      /\ c.paid = 0 /\ c.won = b.won /\ c.items = ticket[k].items
  BY <1>0, <1>1, <1>3 DEF WithItems, Kept, RowFields
<1> HIDE DEF c
<1>5. /\ d.id = k /\ d.draw = a.draw /\ d.state = a.state /\ d.total = a.total
      /\ d.won = b.won /\ d.items = ticket[k].items
      /\ d.paid = IF prize[k] # Nothing THEN prize[k] ELSE 0
  BY <1>0, <1>1, <1>4 DEF WithPayment, Kept, RowFields
<1>6. FullRow(k) = d
  BY DEF FullRow, a, b, c
<1> HIDE DEF d
<1>7. QED  BY <1>1, <1>2, <1>3, <1>5, <1>6

LEMMA TicketsAtRest ==
  ASSUME TablesOK, NothingOrphaned, Funds PROVE AreTickets(AllRows)
<1>1. IsFiniteSet(AllRows) /\ AllRows = {FullRow(k) : k \in Bought} /\ \A x \in AllRows : IsSale(x)
  BY RowsAtRest DEF IsRow
<1>2. ASSUME NEW k \in Bought PROVE IsTicket(FullRow(k))
  <2> DEFINE x == FullRow(k)
  <2>1. x.items = ticket[k].items /\ x.total = SaleRow(k).total /\ IsSale(x)
    BY <1>1, FullRowOf
  <2>2. ticket[k].items \in Items /\ ticket[k].total = Ledger!Miles(ticket[k].items)
    BY DEF TablesOK, TicketRows, Bought
  <2>3. SaleRow(k).total = ticket[k].total
    BY DEF SaleRow
  <2> HIDE DEF x
  <2>4. x.total = SumOf([i \in DOMAIN x.items |-> x.items[i].miles], DOMAIN x.items)
    BY <2>1, <2>2, <2>3, TicketMiles
  <2>5. QED  BY <2>1, <2>2, <2>4 DEF IsTicket, x
<1>3. QED  BY <1>1, <1>2 DEF AreTickets

\* The matrix of any query, a sum of details, equals the net and the gross sales of
\* the reports, sums of stored totals, and the numbers of the analytics.  What it
\* rests on is TablesOK: no sale, void, payment or hard delete parts a stored total
\* from the details of its ticket.
THEOREM MatrixIsRight == Spec => []MatrixReconciles
<1>1. Whole /\ Settled => MatrixReconciles
  <2>1. SUFFICES ASSUME Whole, Settled, NEW query \in Queries
                 PROVE  LET S == {x \in AllRows : Matches(x, query)}
                            active == MatrixSummary(OfState(S, "ACTIVA"), Winners)
                            all == SumSales(S)
                        IN  /\ active.total = all.net
                            /\ active.items = NumbersSold(S)
                            /\ MatrixSummary(OfState(S, "TODAS"), Winners).total = all.gross
                            /\ \A n \in NumbersOf(S) : NumberKpi(S, n).net = MatrixCell(Active(S), n).amount
                            /\ \A n \in Winners, state \in {"ACTIVA", "ANULADA", "TODAS"} :
                                 MatrixCell(OfState(S, state), n).sales = Cardinality(ListedSales(S, state, n))
    BY DEF MatrixReconciles
  <2>2. PICK S : S = {x \in AllRows : Matches(x, query)}
    OBVIOUS
  <2>3. S \in SUBSET AllRows /\ AreTickets(AllRows)
    BY <2>1, <2>2, TicketsAtRest DEF Whole, Settled
  <2>4. AreTickets(S)
    BY <2>3, SomeTickets
  <2>5. QED  BY <2>2, <2>4, MatrixAgrees
<1>2. QED  BY <1>1, WholeHolds, MoneySettled, PTL

(***************************************************************************)
(* What is pending                                                         *)
(***************************************************************************)
\* The winners and the payments of a shift are those of the overview of its sales.
LEMMA ResultIsReport ==
  ASSUME NEW S, AreSales(S), NEW n, n # NoNumber, \A x \in S : x.won = n
  PROVE  LET summary == WinnerSummary(S, n) IN
         /\ summary.prize = SumOf(Figure(S, "winning"), S)
         /\ summary.paid = SumOf(Figure(S, "paid"), S)
         /\ summary.prize \in Nat /\ summary.paid \in Nat
<1> DEFINE won == Figure(S, "winning")
           paid == Figure(S, "paid")
           W == WinningSales(S, n, BOOLEAN)
           L == ListedPayments(S)
           prizes == [x \in W |-> Amount(x, n)]
           payments == [x \in L |-> x.paid]
<1>1. IsFiniteSet(S) /\ W \in SUBSET S /\ L \in SUBSET S /\ IsFiniteSet(W) /\ IsFiniteSet(L)
      /\ DOMAIN prizes = W /\ DOMAIN payments = L
  BY FS_Subset DEF AreSales, WinningSales, ListedSales, OfState, ListedPayments
<1>2. \A x \in S : x \in W <=> (x.state = "ACTIVA" /\ ItemsOf(x, n) # {})
  BY DEF WinningSales, ListedSales, OfState
<1>3. \A x \in S : /\ won[x] = (IF x.state = "ACTIVA" THEN Amount(x, n) ELSE 0) /\ won[x] \in Nat
                   /\ paid[x] = x.paid /\ paid[x] \in Nat
  BY PrizeIsNat DEF Figure, Figures, WinningPrize, AreSales, IsSale
<1>4. \A x \in S : /\ won[x] = (IF x \in W THEN won[x] ELSE 0)
                   /\ paid[x] = (IF x \in L THEN paid[x] ELSE 0)
                   /\ won[x] \in Int /\ paid[x] \in Int
  <2>1. \A x \in S : IsSale(x)
    BY DEF AreSales
  <2>2. \A x \in S : x \notin W => won[x] = 0
    BY <1>2, <1>3, <2>1, NoItems
  <2>3. \A x \in S : x \notin L => paid[x] = 0
    BY <1>3 DEF ListedPayments
  <2>4. QED  BY <1>3, <2>2, <2>3
<1>5. (\A x \in W : prizes[x] = won[x]) /\ (\A x \in L : payments[x] = paid[x])
  BY <1>1, <1>2, <1>3
<1>6. WinnerSummary(S, n).prize = Total(prizes) /\ WinnerSummary(S, n).paid = Total(payments)
  BY DEF WinnerSummary, Paid
<1> HIDE DEF won, paid, W, L, prizes, payments
<1>7. Total(prizes) = SumOf(won, W) /\ Total(payments) = SumOf(paid, L)
  BY <1>1, <1>5, TotalIsSum
<1>8. SumOf(won, S) = SumOf(won, W) /\ SumOf(paid, S) = SumOf(paid, L)
  BY <1>1, <1>4, SumOnly
<1>9. SumOf(won, S) \in Nat /\ SumOf(paid, S) \in Nat
  BY <1>1, <1>3, SumSubset
<1>10. QED  BY <1>6, <1>7, <1>8, <1>9 DEF won, paid

LEMMA PaidOrNot == ASSUME NEW p \in Nat PROVE (p > 0) \in BOOLEAN /\ ((p > 0) \in {FALSE} <=> ~(p > 0))
<1>1. CASE p > 0
  <2>1. (p > 0) = TRUE
    BY <1>1, Zenon
  <2>2. QED  BY <1>1, <2>1
<1>2. CASE ~(p > 0)
  <2>1. (p > 0) = FALSE
    BY <1>2, SMT
  <2>2. QED  BY <1>2, <2>1
<1>3. QED  BY <1>1, <1>2

\* Where every payment is of what an active sale has won, what is pending is
\* what the unpaid winners have won.
LEMMA PendingIsUnpaid ==
  ASSUME NEW S, AreSales(S), NEW n, n # NoNumber, \A x \in S : x.won = n,
         \A x \in S : x.paid > 0 => x.state = "ACTIVA" /\ x.paid = Amount(x, n)
  PROVE  LET summary == WinnerSummary(S, n)
             unpaid == WinningSales(S, n, {FALSE})
         IN  /\ summary.pending \in Nat /\ summary.prize = summary.pending + summary.paid
             /\ summary.pending = Total([x \in unpaid |-> Amount(x, n)])
             /\ summary.pendingSales = Cardinality(unpaid)
<1> DEFINE won == Figure(S, "winning")
           paid == Figure(S, "paid")
           W == WinningSales(S, n, BOOLEAN)
           L == ListedPayments(S)
           U == WinningSales(S, n, {FALSE})
           prizes == [x \in U |-> Amount(x, n)]
<1>0. \A x \in S : IsSale(x) /\ x.paid \in Nat
  BY DEF AreSales, IsSale
<1>1. \A x \in S : /\ won[x] = (IF x.state = "ACTIVA" THEN Amount(x, n) ELSE 0) /\ won[x] \in Nat
                   /\ paid[x] = x.paid /\ paid[x] \in Int
  BY <1>0, PrizeIsNat DEF Figure, Figures, WinningPrize
<1>2. \A x \in S : /\ x \in W <=> (x.state = "ACTIVA" /\ ItemsOf(x, n) # {})
                   /\ x \in L <=> x.paid > 0
                   /\ x \in U <=> (x \in W /\ x \notin L)
  <2>1. \A x \in S : \A b \in SUBSET BOOLEAN :
          x \in WinningSales(S, n, b) <=> (x.state = "ACTIVA" /\ ItemsOf(x, n) # {} /\ (x.paid > 0) \in b)
    BY DEF WinningSales, ListedSales, OfState
  <2>2. \A x \in S : (x.paid > 0) \in BOOLEAN /\ ((x.paid > 0) \in {FALSE} <=> ~(x.paid > 0))
    BY <1>0, PaidOrNot
  <2>3. \A x \in S : x \in L <=> x.paid > 0
    BY DEF ListedPayments
  <2>4. \A x \in S : /\ x \in W <=> (x.state = "ACTIVA" /\ ItemsOf(x, n) # {})
                     /\ x \in U <=> (x.state = "ACTIVA" /\ ItemsOf(x, n) # {} /\ ~(x.paid > 0))
    BY <2>1, <2>2
  <2> HIDE DEF W, L, U
  <2>5. QED  BY <2>3, <2>4
<1>3. IsFiniteSet(S) /\ W \subseteq S /\ L \subseteq S /\ U \subseteq S /\ DOMAIN prizes = U
  BY DEF AreSales, WinningSales, ListedSales, OfState, ListedPayments
<1>4. \A x \in L : x \in W /\ won[x] = paid[x]
  BY <1>0, <1>1, <1>2, <1>3, NoItems
<1>5. \A x \in U : prizes[x] = won[x]
  BY <1>1, <1>2, <1>3
<1>6. WinnerSummary(S, n).pending = NotBelowZero(WinnerSummary(S, n).prize - WinnerSummary(S, n).paid)
      /\ WinnerSummary(S, n).pendingSales = NotBelowZero(Cardinality(W) - Cardinality(L))
  BY DEF WinnerSummary
<1>7. WinnerSummary(S, n).prize = SumOf(won, S) /\ WinnerSummary(S, n).paid = SumOf(paid, S)
  BY ResultIsReport
<1>00. \A x \in S \ W : won[x] = 0
  BY <1>0, <1>1, <1>2, NoItems
<1> HIDE DEF won, paid, W, L, U, prizes
<1>8. U = W \ L /\ L \in SUBSET W /\ W \in SUBSET S /\ L \in SUBSET S
  BY <1>2, <1>3, <1>4
<1>9. IsFiniteSet(W) /\ IsFiniteSet(L) /\ IsFiniteSet(U)
  BY <1>3, FS_Subset
<1>10. \A x \in S : won[x] = (IF x \in W THEN won[x] ELSE 0) /\ paid[x] = (IF x \in L THEN paid[x] ELSE 0)
                    /\ won[x] \in Int /\ paid[x] \in Int
  BY <1>0, <1>00, <1>1, <1>2
<1>11. SumOf(won, S) = SumOf(won, W) /\ SumOf(paid, S) = SumOf(paid, L)
  BY <1>3, <1>8, <1>10, SumOnly
<1>12. SumOf(won, W) = SumOf(won, L) + SumOf(won, U)
  <2>1. \A x \in W : won[x] \in Int
    BY <1>8, <1>10
  <2>2. QED  BY <1>8, <1>9, <2>1, SumSplit
<1>13. SumOf(won, L) = SumOf(paid, L)
  BY <1>4, <1>9, SumSame
<1>14. SumOf(won, L) \in Nat /\ SumOf(won, U) \in Nat
  BY <1>1, <1>3, <1>9, SumSubset
<1>15. PICK p \in Nat, u \in Nat : SumOf(won, L) = p /\ SumOf(won, U) = u
  BY <1>14
<1>16. WinnerSummary(S, n).prize = p + u /\ WinnerSummary(S, n).paid = p
  BY <1>7, <1>11, <1>12, <1>13, <1>15
<1>17. WinnerSummary(S, n).pending = u
  BY <1>6, <1>15, <1>16 DEF NotBelowZero
<1>18. Total(prizes) = SumOf(won, U)
  BY <1>3, <1>5, <1>9, TotalIsSum
<1>19. WinnerSummary(S, n).pendingSales = Cardinality(U)
  <2>1. W \cap L = L
    BY <1>8
  <2>2. Cardinality(W \ L) = Cardinality(W) - Cardinality(W \cap L)
    BY <1>9, FS_Difference
  <2>3. Cardinality(U) = Cardinality(W) - Cardinality(L)
    BY <1>8, <2>1, <2>2
  <2>4. Cardinality(U) \in Nat
    BY <1>9, FS_CardinalityType
  <2>5. QED  BY <1>6, <2>3, <2>4 DEF NotBelowZero
<1>20. QED  BY <1>15, <1>16, <1>17, <1>18, <1>19 DEF U, prizes

\* What a ticket of a shift without a result adds to nothing, may be counted
\* shift by shift.
LEMMA ByDraw ==
  ASSUME NEW S, IsFiniteSet(S), NEW D, IsFiniteSet(D), NEW f,
         \A x \in S : f[x] \in Int, \A x \in S : x.draw \notin D => f[x] = 0,
         NEW parts, \A d \in D : parts[d] = SumOf(f, {x \in S : x.draw = d})
  PROVE  SumOf(f, S) = SumOf(parts, D)
<1> DEFINE T == {x \in S : x.draw \in D}
           key == [x \in S |-> x.draw]
           of == [d \in D |-> {x \in S : x.draw = d}]
<1>1. T \in SUBSET S /\ IsFiniteSet(T)
  BY FS_Subset
<1>2. \A x \in S : f[x] = (IF x \in T THEN f[x] ELSE 0) /\ f[x] \in Int
  OBVIOUS
<1>3. \A x \in T : f[x] \in Int /\ key[x] \in D
  OBVIOUS
<1>4. \A d \in D : of[d] \subseteq T /\ \A x \in T : x \in of[d] <=> key[x] = d
  OBVIOUS
<1>5. \A d \in D : parts[d] = SumOf(f, of[d])
  OBVIOUS
<1> HIDE DEF T, key, of
<1>6. SumOf(f, S) = SumOf(f, T)
  BY <1>1, <1>2, SumOnly
<1>7. SumOf(f, T) = SumOf(parts, D)
  BY <1>1, <1>3, <1>4, <1>5, SumParts
<1>8. QED  BY <1>6, <1>7

\* A ticket of a drawn shift may have been paid, with what it has won.
LEMMA PaidRows ==
  ASSUME TablesOK, NothingOrphaned, Funds, NEW x \in AllRows
  PROVE  /\ x.draw \in Drawn => /\ x.won = winner[x.draw] /\ x.won # NoNumber
                                /\ x.paid > 0 => x.paid = Amount(x, winner[x.draw])
         /\ x.draw \notin Drawn => x.won = NoNumber /\ x.paid = 0
<1>1. PICK k \in Bought : x = FullRow(k)
  BY RowsAtRest
<1>2. IsSale(x)
  BY RowsAtRest DEF IsRow
<1>3. /\ x.draw = ticket[k].draw /\ x.items = ticket[k].items
      /\ x.won = IF winner[x.draw] = Nothing THEN NoNumber ELSE winner[x.draw]
      /\ x.paid = IF prize[k] # Nothing THEN prize[k] ELSE 0
  BY <1>1, FullRowOf
<1>4. x.draw \in Draws /\ k \in Tickets
  BY <1>3 DEF Bought, TablesOK, TicketRows
<1>5. prize[k] # Nothing => x.draw \in Drawn /\ prize[k] = Ledger!Staked(x.items, winner[x.draw])
  BY <1>3, <1>4 DEF Funds
<1>6. \A d \in Drawn : winner[d] \in Winners /\ winner[d] # NoNumber
  BY ItemsAssumption DEF Funds
<1>7. prize[k] # Nothing => prize[k] = Amount(x, winner[x.draw])
  BY <1>2, <1>5, StakedIsAmount
<1>8. QED  BY <1>3, <1>4, <1>5, <1>6, <1>7 DEF Drawn
LEMMA FigureSum ==
  ASSUME NEW S, NEW T \in SUBSET S, IsFiniteSet(T), NEW field
  PROVE  SumOf(Figure(T, field), T) = SumOf(Figure(S, field), T)
<1>1. \A x \in T : Figure(T, field)[x] = Figure(S, field)[x]
  BY FigureSame
<1>2. QED  BY <1>1, SumSame

LEMMA OutstandingAtRest ==
  ASSUME TablesOK, NothingOrphaned, Funds
  PROVE  LET rows == AllRows
             OfDraw(d) == {x \in rows : x.draw = d}
             summary == [d \in Drawn |-> WinnerSummary(OfDraw(d), winner[d])]
             Unpaid(d) == WinningSales(OfDraw(d), winner[d], {FALSE})
             day == SumSales(rows)
         IN  /\ day.winning = Total([d \in Drawn |-> summary[d].prize])
             /\ day.paid = Total([d \in Drawn |-> summary[d].paid])
             /\ (\A x \in ListedPayments(rows) : x.state = "ACTIVA") =>
                   /\ day.pending = Total([d \in Drawn |-> summary[d].pending])
                   /\ \A d \in Drawn :
                         /\ summary[d].pendingSales = Cardinality(Unpaid(d))
                         /\ summary[d].pending = Total([x \in Unpaid(d) |-> Amount(x, winner[d])])
<1>1. PICK rows : rows = AllRows
  OBVIOUS
<1> DEFINE OfDraw(d) == {x \in rows : x.draw = d}
           summary == [d \in Drawn |-> WinnerSummary(OfDraw(d), winner[d])]
           Unpaid(d) == WinningSales(OfDraw(d), winner[d], {FALSE})
           won == Figure(rows, "winning")
           paid == Figure(rows, "paid")
           prizes == [d \in Drawn |-> summary[d].prize]
           payments == [d \in Drawn |-> summary[d].paid]
           pending == [d \in Drawn |-> summary[d].pending]
<1>2. AreSales(rows) /\ IsFiniteSet(rows)
  BY <1>1, TicketsAtRest, TicketsAreSales DEF AreSales
<1>3. \A x \in rows : /\ x.draw \in Drawn => /\ x.won = winner[x.draw] /\ x.won # NoNumber
                                             /\ x.paid > 0 => x.paid = Amount(x, winner[x.draw])
                      /\ x.draw \notin Drawn => x.won = NoNumber /\ x.paid = 0
  BY <1>1, PaidRows
<1>4. \A d \in Drawn : /\ AreSales(OfDraw(d)) /\ winner[d] # NoNumber /\ OfDraw(d) \in SUBSET rows
                       /\ \A x \in OfDraw(d) : x.won = winner[d]
  <2>1. ASSUME NEW d \in Drawn PROVE AreSales(OfDraw(d)) /\ OfDraw(d) \in SUBSET rows
    BY <1>2, SomeSales
  <2>2. \A d \in Drawn : winner[d] # NoNumber
    BY ItemsAssumption DEF Funds
  <2>3. QED  BY <1>3, <2>1, <2>2
<1>5. \A x \in rows : /\ won[x] \in Int /\ paid[x] \in Int
                      /\ x.draw \notin Drawn => won[x] = 0 /\ paid[x] = 0
  <2>1. \A x \in rows : won[x] = WinningPrize(x) /\ paid[x] = x.paid
    BY DEF Figure, Figures
  <2>2. \A x \in rows : WinningPrize(x) \in Nat /\ x.paid \in Nat
    BY <1>2, PrizeIsNat DEF AreSales, IsSale
  <2>3. \A x \in rows : x.draw \notin Drawn => WinningPrize(x) = 0
    BY <1>3 DEF WinningPrize
  <2>4. QED  BY <1>3, <2>1, <2>2, <2>3
<1>6. ASSUME NEW d \in Drawn
      PROVE  /\ prizes[d] = SumOf(won, OfDraw(d)) /\ payments[d] = SumOf(paid, OfDraw(d))
             /\ prizes[d] \in Nat /\ payments[d] \in Nat
  <2> DEFINE S == OfDraw(d)
  <2>1. IsFiniteSet(S)
    BY <1>4 DEF AreSales
  <2>2. /\ prizes[d] = SumOf(Figure(S, "winning"), S) /\ payments[d] = SumOf(Figure(S, "paid"), S)
        /\ prizes[d] \in Nat /\ payments[d] \in Nat
    BY <1>4, ResultIsReport
  <2>3. SumOf(Figure(S, "winning"), S) = SumOf(won, S) /\ SumOf(Figure(S, "paid"), S) = SumOf(paid, S)
    BY <1>4, <2>1, FigureSum
  <2>4. QED  BY <2>2, <2>3
<1>7. IsFiniteSet(Drawn) /\ DOMAIN prizes = Drawn /\ DOMAIN payments = Drawn /\ DOMAIN pending = Drawn
  BY DEF Funds
<1>8. SumSales(rows).winning = SumOf(won, rows) /\ SumSales(rows).paid = SumOf(paid, rows)
      /\ SumSales(rows).pending = NotBelowZero(SumSales(rows).winning - SumSales(rows).paid)
  <2>1. SumSales(rows).winning = SumOf(won, rows) /\ SumSales(rows).paid = SumOf(paid, rows)
    BY <1>2, ReportIsSum DEF Additive
  <2>2. QED  BY <2>1 DEF SumSales
<1>9. SumOf(won, rows) = SumOf(prizes, Drawn) /\ SumOf(paid, rows) = SumOf(payments, Drawn)
  <2>1. \A d \in Drawn : prizes[d] = SumOf(won, {x \in rows : x.draw = d})
    BY <1>6
  <2>2. \A d \in Drawn : payments[d] = SumOf(paid, {x \in rows : x.draw = d})
    BY <1>6
  <2> HIDE DEF won, paid, prizes, payments
  <2>3. (\A x \in rows : won[x] \in Int) /\ (\A x \in rows : x.draw \notin Drawn => won[x] = 0)
    BY <1>5
  <2>4. SumOf(won, rows) = SumOf(prizes, Drawn)
    BY <1>2, <1>7, <2>1, <2>3, ByDraw
  <2>5. (\A x \in rows : paid[x] \in Int) /\ (\A x \in rows : x.draw \notin Drawn => paid[x] = 0)
    BY <1>5
  <2>6. SumOf(paid, rows) = SumOf(payments, Drawn)
    BY <1>2, <1>7, <2>2, <2>5, ByDraw
  <2>7. QED  BY <2>4, <2>6
<1>10. Total(prizes) = SumOf(prizes, Drawn) /\ Total(payments) = SumOf(payments, Drawn)
       /\ Total(pending) = SumOf(pending, Drawn)
  <2> HIDE DEF prizes, payments, pending
  <2>1. QED  BY <1>7, TotalIsSum
<1>11. ASSUME \A x \in ListedPayments(rows) : x.state = "ACTIVA"
       PROVE  /\ SumSales(rows).pending = Total(pending)
              /\ \A d \in Drawn :
                   /\ summary[d].pendingSales = Cardinality(Unpaid(d))
                   /\ summary[d].pending = Total([x \in Unpaid(d) |-> Amount(x, winner[d])])
  <2>1. ASSUME NEW d \in Drawn
        PROVE  /\ summary[d].pending \in Nat /\ summary[d].prize = summary[d].pending + summary[d].paid
               /\ summary[d].pending = Total([x \in Unpaid(d) |-> Amount(x, winner[d])])
               /\ summary[d].pendingSales = Cardinality(Unpaid(d))
    <3> DEFINE S == OfDraw(d)
    <3>1. \A x \in S : x.paid > 0 => x.state = "ACTIVA" /\ x.paid = Amount(x, winner[d])
      BY <1>3, <1>11 DEF ListedPayments
    <3>2. summary[d] = WinnerSummary(S, winner[d])
      OBVIOUS
    <3>3. AreSales(S) /\ winner[d] # NoNumber /\ \A x \in S : x.won = winner[d]
      BY <1>4
    <3> HIDE DEF S, summary
    <3>4. /\ summary[d].pending \in Nat /\ summary[d].prize = summary[d].pending + summary[d].paid
          /\ summary[d].pending = Total([x \in WinningSales(S, winner[d], {FALSE}) |-> Amount(x, winner[d])])
          /\ summary[d].pendingSales = Cardinality(WinningSales(S, winner[d], {FALSE}))
      BY <3>1, <3>2, <3>3, PendingIsUnpaid
    <3>5. QED  BY <3>4 DEF S
  <2>2. \A d \in Drawn : /\ pending[d] \in Nat /\ pending[d] \in Int /\ payments[d] \in Int
                         /\ prizes[d] = pending[d] + payments[d]
    <3>1. ASSUME NEW d \in Drawn
          PROVE  pending[d] = summary[d].pending /\ prizes[d] = summary[d].prize /\ payments[d] = summary[d].paid
      OBVIOUS
    <3>2. \A d \in Drawn : payments[d] \in Nat
      BY <1>6
    <3>3. \A d \in Drawn : summary[d].pending \in Nat
                           /\ summary[d].prize = summary[d].pending + summary[d].paid
      BY <2>1
    <3> HIDE DEF pending, prizes, payments, summary, Unpaid
    <3>4. ASSUME NEW d \in Drawn
          PROVE  pending[d] \in Nat /\ payments[d] \in Nat /\ prizes[d] = pending[d] + payments[d]
      BY <3>1, <3>2, <3>3
    <3>5. QED  BY <3>4
  <2> HIDE DEF pending, prizes, payments, won, paid
  <2>3. SumOf(prizes, Drawn) = SumOf(pending, Drawn) + SumOf(payments, Drawn)
    BY <1>7, <2>2, SumPlus
  <2>4. PICK p \in Nat : SumOf(pending, Drawn) = p
    BY <1>7, <2>2, SumSubset
  <2>5. PICK q \in Nat : SumOf(payments, Drawn) = q
    BY <1>6, <1>7, SumSubset
  <2>6. SumSales(rows).pending = NotBelowZero((p + q) - q)
    BY <1>8, <1>9, <2>3, <2>4, <2>5
  <2>7. SumSales(rows).pending = p
    BY <2>6 DEF NotBelowZero
  <2>8. QED  BY <1>10, <2>1, <2>4, <2>7
<1>12. SumSales(rows).winning = Total(prizes) /\ SumSales(rows).paid = Total(payments)
  BY <1>8, <1>9, <1>10
<1>13. QED  BY <1>1, <1>11, <1>12

\* The winners and payments listed with each result add up to the overview of
\* the day, and what both call pending is what is still to be paid, ticket by
\* ticket, as long as no paid ticket has been voided.
THEOREM PendingIsRight == Spec => []PendingIsOutstanding
<1>1. Whole /\ Settled => PendingIsOutstanding
  <2>1. SUFFICES ASSUME Whole, Settled PROVE PendingIsOutstanding
    OBVIOUS
  <2>2. Drawn = {d \in turnos : winner[d] # Nothing}
    BY <2>1 DEF Whole, TablesOK, NothingOrphaned, Drawn
  <2>3. TablesOK /\ NothingOrphaned /\ Funds
    BY <2>1 DEF Whole, Settled
  <2>4. QED  BY <2>2, <2>3, OutstandingAtRest DEF PendingIsOutstanding
<1>2. QED  BY <1>1, WholeHolds, MoneySettled, PTL

(***************************************************************************)
(* Lists                                                                   *)
(***************************************************************************)
\* A list as one statement finds it: no two of its rows are of one ticket.
IsListing(S) ==
  /\ IsFiniteSet(S) /\ \A x \in S : x[1] \in Tickets
  /\ \A x, y \in S : x[1] = y[1] => x = y

Rank(S, x) == Cardinality(Before(S, x))

\* A row has a place, before the end, which it shares with no other.
LEMMA RankType ==
  ASSUME NEW S, IsListing(S), NEW x
  PROVE  /\ IsFiniteSet(Before(S, x)) /\ Before(S, x) \in SUBSET S /\ Rank(S, x) \in Nat
         /\ x \in S => Rank(S, x) < Cardinality(S)
<1>1. Before(S, x) \in SUBSET S /\ IsFiniteSet(S)
  BY DEF Before, IsListing
<1>2. IsFiniteSet(Before(S, x)) /\ Rank(S, x) <= Cardinality(S)
      /\ (Cardinality(S) = Rank(S, x) => S = Before(S, x))
  BY <1>1, FS_Subset DEF Rank
<1>3. Rank(S, x) \in Nat /\ Cardinality(S) \in Nat
  BY <1>1, <1>2, FS_CardinalityType DEF Rank
<1>4. x \in S => x \notin Before(S, x)
  <2>1. x \in S => CreatedAt[x[1]] \in Nat
    BY ListingsAssumption DEF IsListing
  <2>2. QED  BY <2>1 DEF Before
<1>5. QED  BY <1>1, <1>2, <1>3, <1>4

LEMMA RankApart ==
  ASSUME NEW S, IsListing(S), NEW x \in S, NEW y \in S, Rank(S, x) = Rank(S, y)
  PROVE  x = y
<1>1. ASSUME NEW a \in S, NEW b \in S, CreatedAt[a[1]] > CreatedAt[b[1]]
      PROVE  Rank(S, a) # Rank(S, b)
  <2>1. \A c \in S : CreatedAt[c[1]] \in Nat
    BY ListingsAssumption DEF IsListing
  <2>2. Before(S, a) \in SUBSET Before(S, b)
    BY <1>1, <2>1 DEF Before
  <2>3. a \in Before(S, b) /\ a \notin Before(S, a)
    BY <1>1, <2>1 DEF Before
  <2>4. IsFiniteSet(Before(S, b))
    BY RankType
  <2>5. QED  BY <2>2, <2>3, <2>4, FS_Subset DEF Rank
<1>2. CreatedAt[x[1]] \in Nat /\ CreatedAt[y[1]] \in Nat
  BY ListingsAssumption DEF IsListing
<1>3. CreatedAt[x[1]] = CreatedAt[y[1]]
  BY <1>1, <1>2
<1>4. QED  BY <1>3, ListingsAssumption DEF IsListing

\* A row comes forward by no more places than rows have left the list.
LEMMA RankDrops ==
  ASSUME NEW S, NEW T, IsListing(S), IsListing(T), NEW x
  PROVE  Rank(S, x) <= Rank(T, x) + Cardinality(S \ T) /\ Cardinality(S \ T) \in Nat
<1> DEFINE lost == S \ T
<1>1. IsFiniteSet(lost) /\ Cardinality(lost) \in Nat
  BY FS_Difference, FS_CardinalityType DEF IsListing
<1>2. Before(S, x) \in SUBSET (Before(T, x) \cup lost)
  BY DEF Before
<1>3. /\ IsFiniteSet(Before(T, x)) /\ Rank(T, x) \in Nat /\ Rank(S, x) \in Nat
  BY RankType
<1> HIDE DEF lost
<1>4. /\ IsFiniteSet(Before(T, x) \cup lost)
      /\ Cardinality(Before(T, x) \cup lost)
           = Rank(T, x) + Cardinality(lost) - Cardinality(Before(T, x) \cap lost)
  BY <1>1, <1>3, FS_Union DEF Rank
<1>5. Cardinality(Before(T, x) \cap lost) \in Nat
  BY <1>1, FS_Intersection, FS_CardinalityType
<1>6. Rank(S, x) <= Cardinality(Before(T, x) \cup lost)
  BY <1>2, <1>4, FS_Subset DEF Rank
<1>7. Rank(S, x) <= Rank(T, x) + Cardinality(lost)
  BY <1>1, <1>3, <1>4, <1>5, <1>6
<1>8. QED  BY <1>1, <1>7 DEF lost

\* Of the rows that wait, those that a step moves onto places already read are
\* no more than the rows that leave the list with it.
LEMMA Shift ==
  ASSUME NEW S, NEW T, IsListing(S), IsListing(T), NEW F \in SUBSET S, NEW a \in Int
  PROVE  Cardinality({x \in F \cap T : Rank(T, x) < a})
           <= Cardinality({x \in F : Rank(S, x) < a}) + Cardinality(S \ T)
<1> DEFINE old   == {x \in F : Rank(S, x) < a}
           new   == {x \in F \cap T : Rank(T, x) < a}
           moved == {x \in F \cap T : Rank(T, x) < a /\ ~(Rank(S, x) < a)}
           d     == Cardinality(S \ T)
           place == [x \in moved |-> Rank(T, x)]
<1>1. d \in Nat
  BY RankDrops
<1>2. IsFiniteSet(old) /\ IsFiniteSet(moved) /\ IsFiniteSet(new)
  <2>1. old \in SUBSET S /\ moved \in SUBSET S /\ new \in SUBSET S
    OBVIOUS
  <2>2. QED  BY <2>1, FS_Subset DEF IsListing
<1>3. new \in SUBSET (old \cup moved)
  OBVIOUS
<1>4. ASSUME NEW x \in moved PROVE Rank(T, x) \in (a - d) .. (a - 1)
  <2>1. Rank(T, x) < a /\ ~(Rank(S, x) < a)
    OBVIOUS
  <2>2. Rank(S, x) \in Nat /\ Rank(T, x) \in Nat /\ Rank(S, x) <= Rank(T, x) + d
    BY RankType, RankDrops
  <2> HIDE DEF d, moved
  <2>3. QED  BY <1>1, <2>1, <2>2
<1>5. \A x, y \in moved : place[x] = place[y] => x = y
  <2>1. \A x \in moved : x \in T /\ place[x] = Rank(T, x)
    OBVIOUS
  <2> HIDE DEF moved, place
  <2>2. QED  BY <2>1, RankApart
<1>6. place \in [moved -> (a - d) .. (a - 1)]
  BY <1>4
<1> HIDE DEF old, new, moved, d, place
<1>7. IsFiniteSet((a - d) .. (a - 1)) /\ Cardinality((a - d) .. (a - 1)) = d
  BY <1>1, FS_Interval
<1>8. Cardinality(moved) \in Nat /\ Cardinality(old) \in Nat /\ Cardinality(new) \in Nat
  BY <1>2, FS_CardinalityType
<1>9. Cardinality(moved) <= d
  <2>1. SUFFICES ASSUME d < Cardinality(moved) PROVE FALSE
    BY <1>1, <1>8
  <2>2. \E x, y \in moved : x # y /\ place[x] = place[y]
    BY <1>2, <1>6, <1>7, <2>1, FS_PigeonHole
  <2>3. QED  BY <1>5, <2>2
<1>10. /\ Cardinality(old \cup moved) = Cardinality(old) + Cardinality(moved) - Cardinality(old \cap moved)
       /\ IsFiniteSet(old \cup moved)
  BY <1>2, FS_Union
<1>11. Cardinality(old \cap moved) \in Nat
  BY <1>2, FS_Intersection, FS_CardinalityType
<1>12. Cardinality(new) <= Cardinality(old \cup moved)
  BY <1>3, <1>10, FS_Subset
<1>13. Cardinality(new) <= Cardinality(old) + d
  BY <1>1, <1>8, <1>9, <1>10, <1>11, <1>12
<1>14. QED  BY <1>13 DEF old, new, d

LEMMA TimesLess ==
  ASSUME NEW a \in Int, NEW b \in Int, NEW k \in Nat \ {0}
  PROVE  a * k \in Int /\ (a <= b => a * k <= b * k) /\ (a * k < b * k => a < b)
         /\ (a - 1) * k = a * k - k
OBVIOUS

LEMMA Quotient ==
  ASSUME NEW n \in Nat, NEW k \in Nat \ {0}
  PROVE  (n \div k) \in Nat /\ (n \div k) * k <= n /\ n < (n \div k) * k + k
OBVIOUS

\* The places up to the last page are all there are.
LEMMA LastPage ==
  ASSUME NEW n \in Nat, NEW k \in Nat \ {0}, NEW p \in Nat, ~(p < TotalPages(n, k))
  PROVE  n <= p * k
<1> DEFINE m == TotalPages(n, k)
<1>1. m \in Nat /\ n + k - 1 < m * k + k
  <2>1. n + k - 1 \in Nat
    OBVIOUS
  <2>2. m = (n + k - 1) \div k
    BY DEF TotalPages
  <2> HIDE DEF m
  <2>3. QED  BY <2>1, <2>2, Quotient
<1> HIDE DEF m
<1>2. m <= p /\ m \in Int /\ p \in Int
  BY <1>1 DEF m
<1>3. m * k <= p * k /\ m * k \in Int /\ p * k \in Int
  BY <1>2, TimesLess
<1>4. QED  BY <1>1, <1>3

\* What a list statement finds.
LEMMA ListedIsListing ==
  ASSUME TablesOK, Funds, NEW estado PROVE IsListing(Listed(estado))
<1> DEFINE S == Listed(estado)
           row == [k \in Bought |-> <<k, ticket[k].draw>>]
<1>1. \A k \in Bought : /\ SaleRow(k).id = k /\ SaleRow(k).draw = ticket[k].draw
                         /\ row[k][1] = k /\ k \in Tickets
  BY DEF SaleRow, Bought
<1>2. OfState(SaleRows, estado) \subseteq {SaleRow(k) : k \in Bought}
  BY SalesRead DEF OfState
<1>3. S \in SUBSET {row[k] : k \in Bought}
  <2>1. ASSUME NEW x \in OfState(SaleRows, estado)
        PROVE  <<x.id, x.draw>> \in {row[k] : k \in Bought}
    BY <1>1, <1>2
  <2>2. QED  BY <2>1 DEF Listed
<1> HIDE DEF row, S
<1>4. IsFiniteSet({row[k] : k \in Bought})
  BY FiniteImage DEF Funds
<1>5. IsFiniteSet(S)
  BY <1>3, <1>4, FS_Subset
<1>6. QED  BY <1>1, <1>3, <1>5 DEF IsListing, S

\* The places on the pages read so far, and the rows that wait among them.
Passed(r) == (IF r.paso = "pagina" THEN r.pagina - 1 ELSE r.pagina) * r.listado.limite
Skipped(r) == {x \in r.faltan : Rank(r.lista, x) < Passed(r)}

ListFields == {"op", "listado", "paso", "pagina", "total", "lista", "faltan", "perdidas"}

IsList(r) ==
  /\ DOMAIN r = ListFields /\ r.listado \in Listings
  /\ r.pagina \in Nat \ {0} /\ r.perdidas \in Nat
  /\ IsListing(r.lista) /\ r.faltan \in SUBSET r.lista

\* A row that waits on a place already read is paid for by one that left.
Accounted(r) ==
  /\ Cardinality(Skipped(r)) <= r.perdidas
  /\ r.paso = "leida" => r.total = Cardinality(r.lista)

ListsOK ==
  \A h \in Handlers : handlers[h].op = "lista" => IsList(handlers[h]) /\ Accounted(handlers[h])

LEMMA PassedType ==
  ASSUME NEW r, IsList(r)
  PROVE  /\ r.listado.limite \in Nat \ {0} /\ r.pagina \in Nat
         /\ Passed(r) \in Int
         /\ Passed(r) = IF r.paso = "pagina" THEN (r.pagina - 1) * r.listado.limite
                        ELSE r.pagina * r.listado.limite
<1>1. r.listado.limite \in Nat \ {0} /\ r.pagina \in Nat \ {0}
  BY ListingsAssumption DEF IsList
<1>2. (r.pagina - 1) * r.listado.limite \in Int /\ r.pagina * r.listado.limite \in Int
  BY <1>1, TimesLess
<1>3. QED  BY <1>1, <1>2 DEF Passed

\* The list seen again, before anything of it is put on a page.
LEMMA SeenAgain ==
  ASSUME NEW r, IsList(r), Accounted(r), NEW S, IsListing(S)
  PROVE  LET new == Seen(r, S) IN
         /\ DOMAIN new = ListFields /\ new.op = r.op /\ new.listado = r.listado
         /\ new.paso = r.paso /\ new.pagina = r.pagina
         /\ new.lista = S /\ new.faltan = r.faltan \cap S /\ new.perdidas \in Nat
         /\ Cardinality({x \in r.faltan \cap S : Rank(S, x) < Passed(r)}) <= new.perdidas
<1> DEFINE lost == Cardinality(r.lista \ S)
           a == Passed(r)
           wait == {x \in r.faltan \cap S : Rank(S, x) < a}
<1>1. IsListing(r.lista) /\ r.faltan \in SUBSET r.lista /\ r.perdidas \in Nat
  BY DEF IsList
<1>2. a \in Int
  BY PassedType
<1> HIDE DEF a
<1>3. Cardinality(wait) <= Cardinality({x \in r.faltan : Rank(r.lista, x) < a}) + lost
  BY <1>1, <1>2, Shift
<1>4. Cardinality({x \in r.faltan : Rank(r.lista, x) < a}) <= r.perdidas
  BY DEF Accounted, Skipped, a
<1>5. lost \in Nat
  BY <1>1, RankDrops
<1>6. Cardinality(wait) \in Nat /\ Cardinality({x \in r.faltan : Rank(r.lista, x) < a}) \in Nat
  <2>1. wait \in SUBSET r.lista /\ {x \in r.faltan : Rank(r.lista, x) < a} \in SUBSET r.lista
    BY <1>1
  <2>2. IsFiniteSet(r.lista)
    BY <1>1 DEF IsListing
  <2> HIDE DEF wait
  <2>3. QED  BY <2>1, <2>2, FS_Subset, FS_CardinalityType
<1> HIDE DEF lost, wait
<1>7. Cardinality(wait) <= r.perdidas + lost /\ r.perdidas + lost \in Nat
  BY <1>1, <1>3, <1>4, <1>5, <1>6
<1>8. /\ DOMAIN Seen(r, S) = ListFields /\ Seen(r, S).op = r.op /\ Seen(r, S).listado = r.listado
      /\ Seen(r, S).paso = r.paso /\ Seen(r, S).pagina = r.pagina
      /\ Seen(r, S).lista = S /\ Seen(r, S).faltan = r.faltan \cap S
      /\ Seen(r, S).perdidas = r.perdidas + lost
  BY DEF Seen, IsList, ListFields, lost
<1>9. QED  BY <1>7, <1>8 DEF wait, a

LEMMA StartAccounts ==
  ASSUME NEW listing \in Listings, NEW S, IsListing(S), NEW r,
         r = [op |-> "lista", listado |-> listing, paso |-> "pagina", pagina |-> 1,
              total |-> 0, lista |-> S, faltan |-> S, perdidas |-> 0]
  PROVE  IsList(r) /\ Accounted(r)
<1>1. /\ DOMAIN r = ListFields /\ r.listado = listing /\ r.paso = "pagina" /\ r.pagina = 1
      /\ r.lista = S /\ r.faltan = S /\ r.perdidas = 0
  BY DEF ListFields
<1>2. IsList(r)
  BY <1>1 DEF IsList
<1>3. Passed(r) = 0
  <2>1. r.listado.limite \in Int
    BY <1>2, PassedType
  <2>2. QED  BY <1>1, <2>1 DEF Passed
<1>4. \A x \in S : Rank(S, x) \in Nat
  BY RankType
<1>5. Skipped(r) = {}
  BY <1>1, <1>3, <1>4 DEF Skipped
<1>6. QED  BY <1>1, <1>2, <1>5, FS_EmptySet DEF Accounted

LEMMA PageAccounts ==
  ASSUME NEW r, IsList(r), Accounted(r), r.paso = "pagina", r.op = "lista", NEW S, IsListing(S), NEW new,
         new = [Seen(r, S) EXCEPT !.paso = "cuenta",
                                  !.faltan = @ \ PageOf(S, r.pagina, r.listado.limite)]
  PROVE  IsList(new) /\ Accounted(new)
<1> DEFINE page == PageOf(S, r.pagina, r.listado.limite)
           seen == Seen(r, S)
           rest == (r.faltan \cap S) \ page
<1>1. /\ DOMAIN seen = ListFields /\ seen.listado = r.listado /\ seen.pagina = r.pagina
      /\ seen.lista = S /\ seen.faltan = r.faltan \cap S /\ seen.perdidas \in Nat
      /\ Cardinality({x \in r.faltan \cap S : Rank(S, x) < Passed(r)}) <= seen.perdidas
  BY SeenAgain
<1> HIDE DEF seen
<1>2. /\ DOMAIN new = ListFields /\ new.listado = r.listado /\ new.pagina = r.pagina
      /\ new.lista = S /\ new.faltan = rest /\ new.perdidas = seen.perdidas /\ new.paso = "cuenta"
  <2>1. new = [seen EXCEPT !.paso = "cuenta", !.faltan = @ \ page]
    BY DEF seen
  <2> HIDE DEF page
  <2>2. QED  BY <1>1, <2>1 DEF ListFields
<1>3. IsList(new)
  BY <1>1, <1>2 DEF IsList
<1> DEFINE k == r.listado.limite
           low == (r.pagina - 1) * k
           high == r.pagina * k
<1>4. Passed(r) = low /\ Passed(new) = high /\ low \in Int /\ high \in Int
  BY <1>2, <1>3, PassedType
<1>5. Skipped(new) \in SUBSET {x \in r.faltan \cap S : Rank(S, x) < low}
  <2>1. SUFFICES ASSUME NEW x \in rest, Rank(S, x) < high PROVE Rank(S, x) < low
    BY <1>2, <1>4 DEF Skipped
  <2>2. x \in S /\ ~(Rank(S, x) \in low .. high - 1)
    BY DEF PageOf, Rank
  <2>3. Rank(S, x) \in Nat
    BY RankType
  <2> HIDE DEF low, high, rest
  <2>4. QED  BY <1>4, <2>1, <2>2, <2>3
<1> DEFINE wait == {x \in r.faltan \cap S : Rank(S, x) < low}
<1>6. IsFiniteSet(wait)
  <2>1. wait \in SUBSET S
    OBVIOUS
  <2>2. QED  BY <2>1, FS_Subset DEF IsListing
<1>7. Cardinality(wait) <= seen.perdidas
  BY <1>1, <1>4
<1> HIDE DEF wait
<1>8. Cardinality(Skipped(new)) <= Cardinality(wait) /\ Cardinality(wait) \in Nat
      /\ Cardinality(Skipped(new)) \in Nat
  BY <1>5, <1>6, FS_Subset, FS_CardinalityType DEF wait
<1>9. Cardinality(Skipped(new)) <= new.perdidas
  BY <1>1, <1>2, <1>7, <1>8
<1>10. QED  BY <1>2, <1>3, <1>9 DEF Accounted

LEMMA CountAccounts ==
  ASSUME NEW r, IsList(r), Accounted(r), r.paso = "cuenta", NEW S, IsListing(S), NEW new,
         new = [Seen(r, S) EXCEPT !.paso = "leida", !.total = Cardinality(S)]
  PROVE  IsList(new) /\ Accounted(new)
<1> DEFINE seen == Seen(r, S)
<1>1. /\ DOMAIN seen = ListFields /\ seen.listado = r.listado /\ seen.pagina = r.pagina
      /\ seen.lista = S /\ seen.faltan = r.faltan \cap S /\ seen.perdidas \in Nat
      /\ Cardinality({x \in r.faltan \cap S : Rank(S, x) < Passed(r)}) <= seen.perdidas
  BY SeenAgain
<1>2. new = [seen EXCEPT !.paso = "leida", !.total = Cardinality(S)]
  OBVIOUS
<1> HIDE DEF seen
<1>3. /\ DOMAIN new = ListFields /\ new.listado = r.listado /\ new.pagina = r.pagina
      /\ new.lista = S /\ new.faltan = r.faltan \cap S /\ new.perdidas = seen.perdidas
      /\ new.paso = "leida" /\ new.total = Cardinality(S)
  BY <1>1, <1>2 DEF ListFields
<1>4. IsList(new)
  BY <1>1, <1>3 DEF IsList
<1>5. Passed(new) = Passed(r)
  BY <1>3 DEF Passed
<1>6. QED  BY <1>1, <1>3, <1>4, <1>5 DEF Accounted, Skipped

LEMMA NextAccounts ==
  ASSUME NEW r, IsList(r), Accounted(r), r.paso = "leida", NEW new,
         new = [r EXCEPT !.paso = "pagina", !.pagina = @ + 1]
  PROVE  IsList(new) /\ Accounted(new)
<1>1. /\ DOMAIN new = ListFields /\ new.listado = r.listado /\ new.pagina = r.pagina + 1
      /\ new.lista = r.lista /\ new.faltan = r.faltan /\ new.perdidas = r.perdidas
      /\ new.paso = "pagina"
  BY DEF ListFields, IsList
<1>2. r.pagina \in Nat
  BY DEF IsList
<1>3. IsList(new)
  BY <1>1, <1>2 DEF IsList
<1>4. Passed(new) = Passed(r)
  <2>1. (r.pagina + 1) - 1 = r.pagina
    BY <1>2
  <2>2. QED  BY <1>1, <2>1 DEF Passed
<1>5. QED  BY <1>1, <1>3, <1>4 DEF Accounted, Skipped

LEMMA ListTurn ==
  ASSUME RequestsOK, TablesOK, Funds, ListsOK, NEW h \in Handlers, List(h)
  PROVE  handlers'[h].op = "lista" => IsList(handlers'[h]) /\ Accounted(handlers'[h])
<1> DEFINE r == handlers[h]
<1>1. \A estado : IsListing(Listed(estado))
  BY ListedIsListing
<1>2. ASSUME NEW new, Serve(h, new) PROVE handlers'[h] = new
  BY <1>2, Served DEF RequestsOK
<1>3. r.op = "lista" => IsList(r) /\ Accounted(r)
  BY DEF ListsOK
<1>4. CASE StartList(h)
  <2>1. PICK listing \in Listings :
          LET S == Listed(listing.estado)
          IN  Serve(h, [op |-> "lista", listado |-> listing, paso |-> "pagina", pagina |-> 1,
                        total |-> 0, lista |-> S, faltan |-> S, perdidas |-> 0])
    BY <1>4 DEF StartList
  <2>2. QED  BY <1>1, <1>2, <2>1, StartAccounts
<1>5. CASE ListPage(h)
  <2>1. PICK S : /\ S = Listed(r.listado.estado) /\ r.op = "lista" /\ r.paso = "pagina"
                 /\ Serve(h, [Seen(r, S) EXCEPT !.paso = "cuenta",
                                                !.faltan = @ \ PageOf(S, r.pagina, r.listado.limite)])
    BY <1>5 DEF ListPage, Lists
  <2> HIDE DEF r
  <2>2. QED  BY <1>1, <1>2, <1>3, <2>1, PageAccounts
<1>6. CASE CountRows(h)
  <2>1. PICK S : /\ S = Listed(r.listado.estado) /\ r.op = "lista" /\ r.paso = "cuenta"
                 /\ Serve(h, [Seen(r, S) EXCEPT !.paso = "leida", !.total = Cardinality(S)])
    BY <1>6 DEF CountRows, Lists
  <2> HIDE DEF r
  <2>2. QED  BY <1>1, <1>2, <1>3, <2>1, CountAccounts
<1>7. CASE NextPage(h)
  <2>1. /\ r.op = "lista" /\ r.paso = "leida"
        /\ Serve(h, [r EXCEPT !.paso = "pagina", !.pagina = @ + 1])
    BY <1>7 DEF NextPage, Lists
  <2> HIDE DEF r
  <2>2. QED  BY <1>2, <1>3, <2>1, NextAccounts
<1>8. CASE EndList(h)
  <2>1. handlers'[h] = Idle
    BY <1>2, <1>8 DEF EndList, Answer
  <2>2. QED  BY <2>1 DEF Idle
<1>9. QED  BY <1>4, <1>5, <1>6, <1>7, <1>8 DEF List

LEMMA ListsStep == ASSUME RequestsOK, Whole, Settled, ListsOK, [Next]_booksVars PROVE ListsOK'
<1>0. TablesOK /\ Funds
  BY DEF Whole, Settled
<1>1. SUFFICES ASSUME NEW k \in Handlers, handlers'[k].op = "lista"
               PROVE  IsList(handlers'[k]) /\ Accounted(handlers'[k])
  BY DEF ListsOK, IsList, Accounted, IsListing, Skipped, Passed, Rank, Before
<1>2. CASE handlers'[k] = handlers[k]
  BY <1>1, <1>2 DEF ListsOK
<1>3. ASSUME NEW h \in Handlers, List(h) PROVE IsList(handlers'[k]) /\ Accounted(handlers'[k])
  <2>1. k # h => handlers'[k] = handlers[k]
    BY <1>3, ListEffect
  <2>2. QED  BY <1>0, <1>1, <1>2, <1>3, <2>1, ListTurn
<1>4. ASSUME NEW h \in Handlers, Report(h) PROVE handlers'[k] = handlers[k]
  BY <1>1, <1>4, ReportEffect
<1>5. ASSUME NEW h \in Handlers, Catalogue(h) PROVE handlers'[k] = handlers[k]
  <2>1. CASE OpenShift(h) \/ AutoGenerate(h) \/ HardDelete(h)
    BY <1>1, <2>1, OpenEffect, HardDeleteEffect
  <2>2. CASE InsertShifts(h) \/ CommitDelete(h)
    BY <1>1, <2>2, Served DEF InsertShifts, CommitDelete, Answer, Idle, RequestsOK
  <2>3. CASE DeleteRows(h)
    BY <1>1, <2>3, DeleteEffect DEF Deletion, Idle
  <2>4. QED  BY <1>5, <2>1, <2>2, <2>3 DEF Catalogue
<1>6. CASE Configure \/ AddRule \/ Trade \/ CreateCut \/ UNCHANGED booksVars
  BY <1>2, <1>6
  DEF Configure, CreateConfiguration, UpdateConfiguration, SoftDelete, OnlyCatalogue, AddRule, Trade,
      CreateCut, booksVars
<1>7. QED  BY <1>2, <1>3, <1>4, <1>5, <1>6 DEF Next

\* Whoever follows the pages of a list to the one that says it is the last has seen
\* every row that was there all along, but for no more rows than have left the list
\* meanwhile: for any number of sales, any size of page, and pages and counts torn
\* by any sales, voids and deletions.
THEOREM ListsAreComplete == Spec => []ListsSkipOnlyForLost
<1>1. ASSUME ListsOK PROVE ListsSkipOnlyForLost
  <2>1. SUFFICES ASSUME NEW h \in Handlers, Lists(h, "leida"), ~HasNext(handlers[h])
                 PROVE  Cardinality(handlers[h].faltan) <= handlers[h].perdidas
    BY DEF ListsSkipOnlyForLost
  <2>2. PICK r : r = handlers[h]
    OBVIOUS
  <2>3. IsList(r) /\ Accounted(r) /\ r.paso = "leida" /\ ~HasNext(r)
    BY <1>1, <2>1, <2>2 DEF Lists, ListsOK
  <2>4. /\ r.listado.limite \in Nat \ {0} /\ r.pagina \in Nat
        /\ Passed(r) = r.pagina * r.listado.limite /\ Passed(r) \in Int
    BY <2>3, PassedType
  <2>5. r.total = Cardinality(r.lista) /\ r.total \in Nat
    BY <2>3, FS_CardinalityType DEF Accounted, IsList, IsListing
  <2>6. r.total <= Passed(r)
    BY <2>3, <2>4, <2>5, LastPage DEF HasNext
  <2>7. ASSUME NEW x \in r.faltan PROVE Rank(r.lista, x) < Passed(r)
    <3>1. x \in r.lista /\ IsListing(r.lista)
      BY <2>3 DEF IsList
    <3>2. Rank(r.lista, x) \in Nat /\ Rank(r.lista, x) < Cardinality(r.lista)
      BY <3>1, RankType
    <3>3. QED  BY <2>4, <2>5, <2>6, <3>2
  <2>8. Skipped(r) = r.faltan
    BY <2>7 DEF Skipped
  <2>9. QED  BY <2>2, <2>3, <2>8 DEF Accounted
<1>2. Init => ListsOK
  BY DEF Init, CatalogueInit, ListsOK, Idle
<1>3. QED  BY <1>1, <1>2, ListsStep, WholeHolds, MoneySettled, RequestsHold, PTL DEF Spec
=============================================================================

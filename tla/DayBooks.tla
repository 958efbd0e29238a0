---- MODULE DayBooks ----
(***************************************************************************)
(* The catalogue of draws, the committed sales of its shifts, and the      *)
(* reports that are read from them while they change.                      *)
(***************************************************************************)
EXTENDS DrawCatalogue, Reports

CONSTANTS SellerOf,     \* the seller of a ticket
          SoldOn,       \* the date a ticket is sold on
          Queries,      \* what a report may be asked for, and by whom
          Periods,      \* the periods a cash cut may be asked for
          CreatedAt,    \* the moment a ticket is created, which is not that of its commit
          Listings      \* lists of sales: the state filtered, the rows of a page

ASSUME SoldOnAssumption == SoldOn \in [Tickets -> Dates]

\* A ticket is a list of numbers, each for an amount; the numbers that are sold
\* are those that may win, finitely many.
ASSUME ItemsAssumption ==
    /\ Items \subseteq Seq([number : Winners, miles : Nat])
    /\ IsFiniteSet(Winners) /\ NoNumber \notin Winners

\* Lists are ordered by creado_en, and by id where that ties: one order of all.
ASSUME ListingsAssumption ==
    /\ CreatedAt \in [Tickets -> Nat]
    /\ \A k, other \in Tickets : CreatedAt[k] = CreatedAt[other] => k = other
    /\ Listings \subseteq [estado : {"ACTIVA", "ANULADA", "TODAS"}, limite : Nat \ {0}]

VARIABLE cortes     \* cash cuts: each is a period, its totals are read when asked for

booksVars == <<ticket, winner, prize, sorteos, turnos, bloqueos, limites, handlers, cortes>>

----------------------------------------------------------------------------
(* A report, cash cut or matrix reads the sales with their related rows:    *)
(* findMany with include sends one statement for the sales and one for     *)
(* each relation, and READ COMMITTED gives each its own snapshot.          *)

\* total is the column trg_ventas_total keeps, not a sum made by the reader.
SaleRow(k) ==
    [id |-> k, seller |-> SellerOf[k],
     state |-> IF ticket[k].voided THEN "ANULADA" ELSE "ACTIVA",
     draw |-> ticket[k].draw, date |-> ticket[k].draw[1], config |-> ConfigOf(ticket[k].draw),
     total |-> ticket[k].total,
     items |-> <<>>, won |-> NoNumber, paid |-> 0]

SaleRows == {SaleRow(k) : k \in {k \in Tickets : ticket[k] # Nothing}}

\* Dates the wrong way round are refused; a cut asks for all of its period.
Asked ==
    {Scoped(query) : query \in {q \in Queries : q.from <= q.until}} \cup
    {[actor |-> NoNumber, from |-> cut.from, until |-> cut.until,
      seller |-> NoNumber, config |-> NoNumber] : cut \in cortes}

\* The sales whose shift matches the query.
ReadSales(h) ==
    /\ Free(h)
    /\ \E query \in Asked :
          Serve(h, [op |-> "informe", paso |-> "ventas", query |-> query,
                    filas |-> {x \in SaleRows : Matches(x, query)}])
    /\ UNCHANGED <<catalogueVars, ledger>>

\* turnos with its resultados: a shift that is gone leaves the sale with the
\* day it was created and no winner.
WithShift(x) ==
    IF x.draw \in turnos
    THEN [x EXCEPT !.won = IF winner[x.draw] = Nothing THEN NoNumber ELSE winner[x.draw]]
    ELSE [x EXCEPT !.date = SoldOn[x.id]]

\* The draw of a deleted ticket never comes back.
Kept(x) == ticket[x.id] # Nothing /\ ticket[x.id].draw = x.draw

\* Mutant: details are read of the sales that are still active.
WithItemsIfActive(x) ==
    [x EXCEPT !.items = IF Kept(x) /\ ~ticket[x.id].voided THEN ticket[x.id].items ELSE <<>>]

WithItems(x) == [x EXCEPT !.items = IF Kept(x) THEN ticket[x.id].items ELSE <<>>]

WithPayment(x) == [x EXCEPT !.paid = IF Kept(x) /\ prize[x.id] # Nothing THEN prize[x.id] ELSE 0]

ReadRelated(h) ==
    LET r == handlers[h]
        Relate(next, With(_)) ==
            Serve(h, [r EXCEPT !.paso = next, !.filas = {With(x) : x \in r.filas}])
    IN  /\ r.op = "informe"
        /\ \/ r.paso = "ventas" /\ Relate("turnos", WithShift)
           \/ r.paso = "turnos" /\ Relate("detalle", WithItems)
           \/ r.paso = "detalle" /\ Relate("listo", WithPayment)
        /\ UNCHANGED <<catalogueVars, ledger>>

AnswerReport(h) ==
    /\ handlers[h].op = "informe" /\ handlers[h].paso = "listo"
    /\ Answer(h)
    /\ UNCHANGED <<catalogueVars, ledger>>

\* The rows of a report about to be answered.
Ready(h) == handlers[h].op = "informe" /\ handlers[h].paso = "listo"

----------------------------------------------------------------------------
(* A reader follows the pages of the list of sales.  Each page is a request *)
(* of two statements, the rows and then their number, each with a snapshot *)
(* of its own: what is sold, voided and deleted in between moves the rows.  *)
(* lista is the list as the last statement found it; faltan are its rows    *)
(* that have been there all along and on no page yet, perdidas counts the   *)
(* rows that have left it.                                                  *)

Listed(estado) == {<<x.id, x.draw>> : x \in OfState(SaleRows, estado)}

\* Newest first.
Before(S, x) == {y \in S : CreatedAt[y[1]] > CreatedAt[x[1]]}
PageOf(S, page, limit) ==
    {x \in S : Cardinality(Before(S, x)) \in (page - 1) * limit .. page * limit - 1}

Lists(h, paso) == handlers[h].op = "lista" /\ handlers[h].paso = paso
HasNext(r) == r.pagina < TotalPages(r.total, r.listado.limite)
Seen(r, S) == [r EXCEPT !.lista = S, !.faltan = @ \cap S,
                        !.perdidas = @ + Cardinality(r.lista \ S)]

StartList(h) ==
    /\ Free(h)
    /\ \E listing \in Listings :
          LET S == Listed(listing.estado)
          IN  Serve(h, [op |-> "lista", listado |-> listing, paso |-> "pagina", pagina |-> 1,
                        total |-> 0, lista |-> S, faltan |-> S, perdidas |-> 0])
    /\ UNCHANGED <<catalogueVars, ledger>>

\* findMany with skip and take.
ListPage(h) ==
    /\ Lists(h, "pagina")
    /\ LET r == handlers[h]
           S == Listed(r.listado.estado)
       IN  Serve(h, [Seen(r, S) EXCEPT !.paso = "cuenta",
                                       !.faltan = @ \ PageOf(S, r.pagina, r.listado.limite)])
    /\ UNCHANGED <<catalogueVars, ledger>>

\* Mutant: the rows are counted for the first page only.
CountOnce(h) ==
    /\ Lists(h, "cuenta")
    /\ LET r == handlers[h]
           S == Listed(r.listado.estado)
       IN  Serve(h, [Seen(r, S) EXCEPT !.paso = "leida",
                                       !.total = IF r.pagina = 1 THEN Cardinality(S) ELSE @])
    /\ UNCHANGED <<catalogueVars, ledger>>

CountRows(h) ==
    /\ Lists(h, "cuenta")
    /\ LET r == handlers[h]
           S == Listed(r.listado.estado)
       IN  Serve(h, [Seen(r, S) EXCEPT !.paso = "leida", !.total = Cardinality(S)])
    /\ UNCHANGED <<catalogueVars, ledger>>

NextPage(h) ==
    /\ Lists(h, "leida") /\ HasNext(handlers[h])
    /\ Serve(h, [handlers[h] EXCEPT !.paso = "pagina", !.pagina = @ + 1])
    /\ UNCHANGED <<catalogueVars, ledger>>

EndList(h) ==
    /\ Lists(h, "leida") /\ ~HasNext(handlers[h])
    /\ Answer(h)
    /\ UNCHANGED <<catalogueVars, ledger>>

----------------------------------------------------------------------------

CreateCut ==
    /\ \E period \in Periods : period.from <= period.until /\ cortes' = cortes \cup {period}
    /\ UNCHANGED <<catalogueVars, ledger, handlers>>

Init == CatalogueInit /\ cortes = {}

Report(h) == ReadSales(h) \/ ReadRelated(h) \/ AnswerReport(h)

List(h) == StartList(h) \/ ListPage(h) \/ CountRows(h) \/ NextPage(h) \/ EndList(h)

Catalogue(h) ==
    OpenShift(h) \/ AutoGenerate(h) \/ InsertShifts(h)
        \/ HardDelete(h) \/ DeleteRows(h) \/ CommitDelete(h)

Configure == \E c \in Configs : CreateConfiguration(c) \/ UpdateConfiguration(c) \/ SoftDelete(c)

Next ==
    \/ (Configure \/ AddRule \/ Trade) /\ UNCHANGED cortes
    \/ (\E h \in Handlers : Catalogue(h) \/ Report(h) \/ List(h)) /\ UNCHANGED cortes
    \/ CreateCut

Spec == Init /\ [][Next]_booksVars

----------------------------------------------------------------------------
\* Columns of the configurations, and what the CHECK of the table says of them.
TypeOK ==
    /\ \A c \in Configs : Exists(c) =>
          /\ sorteos[c].auto \in BOOLEAN /\ sorteos[c].activo \in BOOLEAN
          /\ sorteos[c].martes \in BOOLEAN /\ sorteos[c].baja \in BOOLEAN
          /\ sorteos[c].unica \in Dates \cup {Nothing}
          /\ \A other \in Configs \ {c} :
                Exists(other) => sorteos[other].codigo # sorteos[c].codigo
    /\ turnos \subseteq Draws /\ bloqueos \subseteq Draws /\ limites \subseteq Configs
    /\ \A cut \in cortes : cut.from <= cut.until

\* However a hard delete interleaves with sales, results, payments, rules and
\* the opening of shifts, no committed row is left without the row it belongs
\* to: it removes the whole branch, or fails and removes nothing.
NothingOrphaned ==
    /\ \A k \in Tickets : ticket[k] # Nothing => ticket[k].draw \in turnos
    /\ \A k \in Tickets : prize[k] # Nothing => ticket[k] # Nothing
    /\ \A d \in Draws : winner[d] # Nothing => d \in turnos
    /\ bloqueos \subseteq turnos
    /\ \A d \in turnos : Exists(ConfigOf(d))
    /\ \A c \in limites : Exists(c)

\* Generating a date selects exactly the configurations that may be opened by
\* hand on it (but for the Tuesdays, which only Operable looks at), and the list
\* of active configurations shows all of them.
GenerationMatchesOpening ==
    \A c \in Configs, fecha \in Dates : Exists(c) =>
        LET row == sorteos[c]
        IN  /\ Operable(row, fecha) => Selected(row, fecha) /\ c \in ListedConfigurations({TRUE})
            /\ Selected(row, fecha) /\ (row.martes => fecha \in Tuesdays) => Operable(row, fecha)

\* A report adds up, however torn the reads behind it are: the sellers' figures
\* to the overview, the days' and the numbers' to its net sales.  Prizes pending
\* of the sellers are never less than those of the overview.
SellersAddUp ==
    \A h \in Handlers : Ready(h) =>
        LET S == handlers[h].filas
            all == SumSales(S)
            OfSellers(field) == Total([s \in SellersOf(S) |-> SellerReport(S, s)[field]])
        IN  /\ \A field \in DOMAIN all \ {"pending"} : OfSellers(field) = all[field]
            /\ OfSellers("pending") >= all.pending
            /\ Total([d \in DatesOf(S) |-> DayKpi(S, d).net]) = all.net
            /\ all.gross = all.net + all.lost

\* The numbers of a report are never more than its net sales, and fall short of
\* them by no more than the tickets that were deleted while it was read: what is
\* voided between the statement that reads the totals and the one that reads the
\* details does not show in one and not in the other.
NumbersAddUp ==
    \A h \in Handlers : Ready(h) =>
        LET S == handlers[h].filas
            numbers == Total([n \in NumbersOf(S) |-> NumberKpi(S, n).net])
            gone == {x \in Active(S) : ~Kept(x)}
        IN  numbers <= SumSales(S).net /\ SumSales(S).net <= numbers + Sold(gone)

\* A cash cut over a period and the overview of the same period agree.
CutAgreesWithOverview ==
    \A h \in Handlers : Ready(h) =>
        LET S == handlers[h].filas
            cut == CutTotals(S)
            all == SumSales(S)
        IN  \A field \in CutFields : cut[field] = all[field]

\* What a request has read, or deleted and not committed, does not show in the
\* tables: they are looked at between requests, as one statement sees them.
AtRest == \A h \in Handlers : Free(h)

AllRows ==
    {WithPayment(WithItems(WithShift(SaleRow(k)))) : k \in {k \in Tickets : ticket[k] # Nothing}}

\* The matrix, which sums the details, equals the net sales of the reports, which
\* sum the stored totals, and the numbers of the analytics; voided sales add
\* nothing to it, and with them it equals the gross sales.
MatrixReconciles ==
    LET rows == AllRows IN
    AtRest => \A query \in Queries :
        LET S == {x \in rows : Matches(x, query)}
            active == MatrixSummary(OfState(S, "ACTIVA"), Winners)
            all == SumSales(S)
        IN  /\ active.total = all.net
            /\ active.items = NumbersSold(S)
            /\ MatrixSummary(OfState(S, "TODAS"), Winners).total = all.gross
            /\ \A n \in NumbersOf(S) : NumberKpi(S, n).net = MatrixCell(Active(S), n).amount
            /\ \A n \in Winners, state \in {"ACTIVA", "ANULADA", "TODAS"} :
                  MatrixCell(OfState(S, state), n).sales = Cardinality(ListedSales(S, state, n))

\* The winners and the payments listed with each result add up to the overview
\* of the day; and what overview and results call pending is what is still to be
\* paid, ticket by ticket, as long as no paid ticket has been voided.
PendingIsOutstanding ==
    LET rows == AllRows
        Drawn == {d \in turnos : winner[d] # Nothing}
        OfDraw(d) == {x \in rows : x.draw = d}
        summary == [d \in Drawn |-> WinnerSummary(OfDraw(d), winner[d])]
        Unpaid(d) == WinningSales(OfDraw(d), winner[d], {FALSE})
        day == SumSales(rows)
    IN  AtRest =>
          /\ day.winning = Total([d \in Drawn |-> summary[d].prize])
          /\ day.paid = Total([d \in Drawn |-> summary[d].paid])
          /\ (\A x \in ListedPayments(rows) : x.state = "ACTIVA") =>
                /\ day.pending = Total([d \in Drawn |-> summary[d].pending])
                /\ \A d \in Drawn :
                      /\ summary[d].pendingSales = Cardinality(Unpaid(d))
                      /\ summary[d].pending = Total([x \in Unpaid(d) |-> Amount(x, winner[d])])

\* However the pages of a list and the counts with them are torn by what is sold,
\* voided and deleted meanwhile, the page that says there is no next one leaves out
\* no more rows that were there from the first page on than have left the list:
\* a list that loses nothing skips nothing.
ListsSkipOnlyForLost ==
    \A h \in Handlers : Lists(h, "leida") /\ ~HasNext(handlers[h])
        => Cardinality(handlers[h].faltan) <= handlers[h].perdidas
====

---- MODULE MCDayBooks ----
(***************************************************************************)
(* Two configurations, a Tuesday and a Wednesday, three tickets of two     *)
(* sellers.  A behaviour either edits the configurations and opens their   *)
(* shifts with one ticket at most, or trades on shifts that are open; the  *)
(* third ticket is sold while a list is followed.                          *)
(***************************************************************************)
EXTENDS DayBooks, TLC

CONSTANTS Daily, Special, K1, K2, K3

MCConfigs == {Daily, Special}
MCDraws == {<<1, Daily>>, <<2, Daily>>}
Row(codigo, auto, unica, martes) ==
    [codigo |-> codigo, auto |-> auto, unica |-> unica, martes |-> martes,
     activo |-> TRUE, baja |-> FALSE]
MCTemplates == Daily :> Row("diaria", TRUE, Nothing, FALSE)
MCNewConfigs == {Row("especial", FALSE, 1, TRUE), Row("diaria", TRUE, Nothing, FALSE),
                 Row("especial", TRUE, 2, FALSE)}
MCPatches == {[auto |-> TRUE], [auto |-> FALSE], [auto |-> FALSE, unica |-> 2], [unica |-> 1],
              [activo |-> TRUE], [activo |-> FALSE], [codigo |-> "diaria"]}

Item(n, m) == [number |-> n, miles |-> m]
MCItems == {<<Item(1, 1), Item(2, 2)>>}
MCSellerOf == (K1 :> "ana") @@ (K2 :> "beto") @@ (K3 :> "ana")
MCSoldOn == (K1 :> 1) @@ (K2 :> 1) @@ (K3 :> 1)
MCCreatedAt == (K1 :> 2) @@ (K2 :> 1) @@ (K3 :> 3)
MCListings == {[estado |-> "ACTIVA", limite |-> 1], [estado |-> "TODAS", limite |-> 2]}
Query(actor, from, until, seller, config) ==
    [actor |-> actor, from |-> from, until |-> until, seller |-> seller, config |-> config]
MCQueries == {Query("ana", 1, 1, NoNumber, Daily), Query(NoNumber, 2, 1, NoNumber, NoNumber)}
MCPeriods == {[from |-> 1, until |-> 2], [from |-> 2, until |-> 1]}

Edited == sorteos[Daily] \notin {MCTemplates[Daily], Erased} \/ sorteos[Special] # Nothing
Ruled == bloqueos # {} \/ limites # {}
Traded == \E k \in Tickets : ticket[k] # Nothing
Busy(op) == \E h \in Handlers : handlers[h].op = op
Alone(h) == \A g \in Handlers \ {h} : Free(g)

\* One writer of the catalogue at a time, beside a report.
OneWriter(h) == \A g \in Handlers \ {h} : handlers[g].op \in {"libre", "informe"}
\* A report of one seller is not read beside a hard delete.
Filtered == \E h \in Handlers : handlers[h].op = "informe" /\ handlers[h].query.seller # NoNumber
Apart == ~(Filtered /\ Busy("borrar"))
BothSold == ticket[K1] # Nothing /\ ticket[K2] # Nothing

Cut == cortes # {}

MCOpen ==
    \/ ~Cut /\ ~Traded /\ ~Ruled /\ (\E h \in Handlers : Alone(h)) /\ ~Busy("informe") /\ Configure
    \/ ~Cut /\ ~Edited /\ ~Busy("informe") /\ ~BothSold /\ AddRule
          /\ bloqueos' \subseteq {<<1, Daily>>} /\ limites' \subseteq {Daily}
    \/ ~Edited /\ Trade /\ (Ruled \/ Busy("abrir") \/ ~Cut => ~BothSold')
          /\ (ticket'[K1] # Nothing => ticket'[K1].draw = <<1, Daily>>)
          /\ (ticket'[K2] # Nothing => ticket'[K1] # Nothing)
    \/ \E h \in Handlers : (Edited \/ Traded => OneWriter(h)) /\ Catalogue(h) /\ Apart'
    \/ \E h \in Handlers : ~Edited /\ ~Ruled /\ ~Busy("abrir") /\ (Busy("informe") => ~Free(h))
                             /\ (BothSold \/ ~Free(h)) /\ Report(h) /\ Apart'

\* Beside a list tickets are sold and voided.
MCList ==
    /\ ~Edited /\ ~Ruled /\ ~Cut /\ turnos = {<<1, Daily>>} /\ winner[<<1, Daily>>] = Nothing
    /\ \/ \E h \in Handlers : Alone(h) /\ List(h)
       \/ Busy("lista") /\ Trade /\ winner' = winner

\* The cut of the day is created before its first shift, or not at all.
MCNext ==
    \/ ~Busy("lista") /\ MCOpen /\ ticket'[K3] = Nothing /\ UNCHANGED cortes
    \/ MCList /\ UNCHANGED cortes
    \/ ~Edited /\ ~Ruled /\ turnos = {} /\ AtRest /\ sorteos[Daily] # Erased /\ CreateCut

MCSpec == Init /\ [][MCNext]_booksVars

BooksSymmetry == Permutations(Handlers)
====

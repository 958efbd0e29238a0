---------------------------- MODULE SalesDayClaims ----------------------------
(***************************************************************************)
(* What the documentation and the comments of the repository say of a      *)
(* sales day, stated literally.  The code does not ensure these formulas:  *)
(* TLC refutes each one with a .cfg of its own, described in the README.   *)
(***************************************************************************)
EXTENDS SalesDay

\* docs/domain-concepts.md: "La suma activa no supera el limite aplicable"; the
\* trigger's comment: the lock closes the race that could exceed a limit.
\* Two shifts of a date take different locks under a limit of every draw.
EveryLimitRespected ==
  \A n \in Numbers, id \in LimitIds, t \in Shifts :
    limites[id] # None => Accumulated(id, n, DateOf[t]) <= limites[id].miles

\* A closed shift is terminal: transitionShift refuses to leave CERRADO.  It
\* refuses on what it read, and updates by id.
ClosedStaysClosed ==
  [][\A t \in Shifts : estado[t] = "CERRADO" => estado'[t] = "CERRADO"]_vars

\* docs/domain-concepts.md: before a sale is confirmed its shift accepts sales,
\* and a result belongs to a closed shift: no sale appears after the result.
NoSaleAfterResult ==
  [][\A v \in SaleIds :
       (venta[v] = "none" /\ venta'[v] = "ACTIVA") => resultado[cmd[v].shift] = None]_vars

\* "Only active winning sales can be paid": a paid sale is active.
PaidSalesActive ==
  \A v \in SaleIds : pago[v] # None => venta[v] = "ACTIVA"

\* docs/domain-concepts.md: use cases publish events only after persisting with
\* success.  An answered sale has published its event.
EventsAfterPersist ==
  \A v \in SaleIds : Answered(v) => venta[v] # "none"

\* "Replace global natural-key uniqueness with tenant-scoped uniqueness": a limit
\* is refused only when the same tenant already has a limit it collides with.
\* uq_limites_numero_activo_scope, which has no tenant_id, is still there.
RefusedByOwnLimits ==
  [][\A r \in RequestsOf("createLimits") :
       (phase[r] = "writing" /\ phase'[r] = "rolledback") =>
          \E id \in LimitIds : limites[id] # None /\ limites[id].tenant = cmd[r].tenant]_vars
=============================================================================

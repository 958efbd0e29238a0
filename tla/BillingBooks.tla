----------------------------- MODULE BillingBooks -----------------------------
(***************************************************************************)
(* What the SQL functions of the billing control plane do to the books of  *)
(* one tenant: its state, its onboarding, its subscription, its invoices   *)
(* and the ledger of payments.  Each operator is one function, from the    *)
(* books it finds under its locks to the books it leaves.  Times are days. *)
(***************************************************************************)
EXTENDS Naturals, Sequences

CONSTANTS
  Month,          \* length of a paid period
  RenewalDays,    \* billing_settings.renewal_issue_days
  GraceDays,      \* billing_settings.grace_days
  PauseDays,      \* billing_settings.review_pause_hours
  ReissueDays,    \* billing_settings.late_reissue_days
  OnboardingDays, \* life of a pending onboarding
  ArchiveDays,    \* billing_settings.pending_archive_days
  DueDays,        \* term of the first invoice
  None            \* no period yet

ASSUME DaysAssumption ==
  /\ {Month, DueDays} \subseteq Nat \ {0}
  /\ {RenewalDays, GraceDays, PauseDays, ReissueDays, OnboardingDays, ArchiveDays} \subseteq Nat
ASSUME NoDayAssumption == None \notin Nat

InvoiceStates == {"ABIERTA", "PAGADA", "ANULADA"}
Open(b, i) == b.invoices[i].state = "ABIERTA"

\* start_paid_signup: the tenant exists before it pays.
Provisioned ==
  [tenant |-> "PENDIENTE_PAGO", archived |-> FALSE, onboarding |-> "PENDIENTE",
   sub |-> "INCOMPLETA", ends |-> None, bound |-> FALSE, invoices |-> <<>>, payments |-> {}]

\* The normal context: every module of the tenant.
Operational(b) == b.tenant \in {"ACTIVO", "MOROSO"} /\ ~b.archived

\* The billing context: owners and billing members, also while suspended.
PortalOpen(b) == b.tenant # "CANCELADO" /\ ~b.archived

(***************************************************************************)
(* Invoices                                                                *)
(***************************************************************************)
\* The document of a period; one that is not annulled is returned, not repeated.
InvoiceOf(b, starts) ==
  {i \in DOMAIN b.invoices : b.invoices[i].starts = starts /\ b.invoices[i].state # "ANULADA"}

CreateInvoice(b, starts, due, reason) ==
  IF InvoiceOf(b, starts) # {} THEN b
  ELSE [b EXCEPT !.invoices = Append(@,
         [state |-> "ABIERTA", starts |-> starts, due |-> due, grace |-> due + GraceDays,
          pause |-> 0, reason |-> reason])]

\* ensure_initial_bank_invoice
EnsureInitial(b, now) ==
  IF \E i \in DOMAIN b.invoices : b.invoices[i].state # "ANULADA" THEN b
  ELSE CreateInvoice(b, now, now + DueDays, "INITIAL")

(***************************************************************************)
(* Payments                                                                *)
(***************************************************************************)
\* Mutant: the ledger is unique by reference only.
ReferenceUnused(b, i, ref) ==
  [invoice |-> i, ref |-> ref] \in b.payments \/ \A p \in b.payments : p.ref # ref

\* The INSERT meets no unique key of the ledger, or the very same payment.
Payable(b, i, ref) ==
  [invoice |-> i, ref |-> ref] \in b.payments \/ \A p \in b.payments : p.ref # ref /\ p.invoice # i

PeriodStart(b, i, at) ==
  IF b.ends # None /\ b.ends > at /\ b.sub \in {"ACTIVA", "MOROSA"} THEN b.ends
  ELSE IF b.invoices[i].reason = "RENEWAL" /\ b.invoices[i].starts + ReissueDays >= at
    THEN b.invoices[i].starts
  ELSE at

\* confirm_subscription_payment: ledger, invoice, subscription, tenant, onboarding.
Confirm(b, i, ref, at) ==
  IF [invoice |-> i, ref |-> ref] \in b.payments THEN b
  ELSE [b EXCEPT !.payments = @ \cup {[invoice |-> i, ref |-> ref]},
                 !.invoices[i].state = "PAGADA", !.invoices[i].pause = 0,
                 !.sub = "ACTIVA", !.ends = PeriodStart(b, i, at) + Month,
                 !.tenant = IF b.archived THEN @ ELSE "ACTIVO",
                 !.onboarding = IF @ = "PENDIENTE" THEN "COMPLETADA" ELSE @]

(***************************************************************************)
(* run_billing_cycle, one step after the other                             *)
(***************************************************************************)
\* Mutant: the cycle before migration 20260813181500, which looked at the
\* subscription only.
RenewAnySubscription(b, now) ==
  b.sub = "ACTIVA" /\ b.ends # None /\ b.ends <= now + RenewalDays /\ InvoiceOf(b, b.ends) = {}

RenewalDue(b, now) ==
  /\ b.sub = "ACTIVA" /\ b.tenant = "ACTIVO" /\ ~b.archived
  /\ b.ends # None /\ b.ends <= now + RenewalDays
  /\ InvoiceOf(b, b.ends) = {}

IssueRenewal(b, now) ==
  IF RenewalDue(b, now) THEN CreateInvoice(b, b.ends, b.ends, "RENEWAL") ELSE b

InGrace(b, now) ==
  \E i \in DOMAIN b.invoices :
    Open(b, i) /\ b.invoices[i].due < now /\ b.invoices[i].grace >= now

MarkLate(b, now) ==
  IF InGrace(b, now) /\ b.tenant \in {"ACTIVO", "MOROSO"} /\ ~b.archived
    THEN [b EXCEPT !.tenant = "MOROSO", !.sub = IF @ = "ACTIVA" THEN "MOROSA" ELSE @]
    ELSE b

PastGrace(b, i, now) ==
  Open(b, i) /\ b.invoices[i].grace < now /\ b.invoices[i].pause <= now

SuspendLate(b, now) ==
  IF /\ \E i \in DOMAIN b.invoices : PastGrace(b, i, now)
     /\ b.tenant \in {"ACTIVO", "MOROSO", "SUSPENDIDO"} /\ ~b.archived
    THEN [b EXCEPT !.tenant = "SUSPENDIDO",
                   !.sub = IF @ \in {"ACTIVA", "MOROSA"} THEN "PAUSADA" ELSE @]
    ELSE b

\* Open invoices that have become too old and that nobody is reviewing.
Stale(b, now, reviewed) ==
  {i \in DOMAIN b.invoices :
     Open(b, i) /\ b.invoices[i].due + ReissueDays < now /\ b.invoices[i].pause <= now
       /\ i \notin reviewed}

ReissueStale(b, now, reviewed) ==
  IF Stale(b, now, reviewed) # {} /\ b.tenant \in {"ACTIVO", "MOROSO", "SUSPENDIDO"} /\ ~b.archived
    THEN CreateInvoice(
           [b EXCEPT !.invoices = [i \in DOMAIN @ |->
              IF i \in Stale(b, now, reviewed)
                THEN [@[i] EXCEPT !.state = "ANULADA", !.pause = 0] ELSE @[i]]],
           now, now, "REACTIVATION")
    ELSE b

ExpireOnboarding(b, now) ==
  IF b.onboarding = "PENDIENTE" /\ OnboardingDays < now /\ ~b.archived
    THEN [b EXCEPT !.onboarding = "EXPIRADA"] ELSE b

SuspendExpired(b) ==
  IF b.tenant = "PENDIENTE_PAGO" /\ b.onboarding = "EXPIRADA" /\ ~b.archived
    THEN [b EXCEPT !.tenant = "SUSPENDIDO"] ELSE b

ArchiveUnpaid(b, now) ==
  IF b.tenant \in {"PENDIENTE_PAGO", "SUSPENDIDO"} /\ ArchiveDays < now /\ ~b.archived /\ b.payments = {}
    THEN [b EXCEPT !.tenant = "CANCELADO", !.archived = TRUE] ELSE b

Cycle(b, now, reviewed) ==
  ArchiveUnpaid(SuspendExpired(ExpireOnboarding(ReissueStale(SuspendLate(
    MarkLate(IssueRenewal(b, now), now), now), now, reviewed), now)), now)
=============================================================================

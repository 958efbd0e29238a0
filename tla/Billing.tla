-------------------------------- MODULE Billing --------------------------------
(***************************************************************************)
(* SaaS billing of one tenant: portal requests, the reviewer of AlphaBy,   *)
(* PayPal and its webhook, and the daily cycle, on common books.           *)
(*                                                                         *)
(* A SQL function locks the rows it decides on and reads them again, so it *)
(* is one step.  What lies outside a transaction is a step of its own: the *)
(* object storage, the call to PayPal and the answer of PayPal that a      *)
(* webhook reads before it processes an event.                             *)
(***************************************************************************)
EXTENDS BillingBooks, FiniteSets

CONSTANTS
  References,     \* bank references a reviewer may confirm
  Uploads,        \* evidence uploads of a behaviour
  MaxAge,         \* age in days at which a transfer can no longer be declared
  MaxEvents,      \* bound: webhook events PayPal sends
  MaxSubmissions, \* bound: declared transfers
  MaxInvoices,    \* bound: invoices
  Horizon         \* bound: last day

ASSUME BoundsAssumption == {MaxEvents, Horizon} \subseteq Nat

VARIABLES
  day,
  books,          \* what BillingBooks describes
  submissions,    \* declared transfers: invoice, state, day of the transfer
  uploads,        \* each upload: its submission and phase
  paypal,         \* the PayPal subscription: status, start and next billing
  events,         \* the types of the events PayPal has sent, by event id
  reading,        \* the status a delivery of an event has read, or None
  processed,      \* billing_events that are processed
  lastRun         \* billing_runs: the last day on which the cycle has run

vars == <<day, books, submissions, uploads, paypal, events, reading, processed, lastRun>>

EventIds == 1..MaxEvents

Init ==
  /\ day = 0
  /\ books = Provisioned
  /\ submissions = <<>>
  /\ uploads = [u \in Uploads |-> [submission |-> 0, phase |-> "none"]]
  /\ paypal = [status |-> "NONE", start |-> 0, next |-> 0]
  /\ events = <<>>
  /\ reading = [e \in EventIds |-> None]
  /\ processed = {}
  /\ lastRun = None

(***************************************************************************)
(* The portal                                                              *)
(***************************************************************************)
EnsureInitialInvoice ==
  /\ PortalOpen(books) /\ books.sub # "CANCELADA"
  /\ Len(books.invoices) < MaxInvoices
  /\ books' = EnsureInitial(books, day)
  /\ UNCHANGED <<day, submissions, uploads, paypal, events, reading, processed, lastRun>>

\* createSubscription and getSubscription of BillingProviderService.
CreateSubscription == [paypal EXCEPT !.status = "APPROVAL_PENDING"]
GetSubscription == paypal

\* bind_portal_paypal_signup: an onboarding that is pending, a subscription that
\* has never been paid.
Bind(b) == IF b.sub = "INCOMPLETA" THEN [b EXCEPT !.bound = TRUE] ELSE b

\* ensureInitialInvoice, the call to PayPal, and the binding of what it returns;
\* without a pending onboarding that is still in time, the PayPal subscription is
\* cancelled again.
StartPaypalCheckout ==
  /\ PortalOpen(books) /\ books.sub # "CANCELADA"
  /\ paypal.status = "NONE"
  /\ Len(books.invoices) < MaxInvoices
  /\ IF books.onboarding = "PENDIENTE" /\ day < OnboardingDays
       THEN /\ books' = Bind(EnsureInitial(books, day))
            /\ paypal' = CreateSubscription
       ELSE UNCHANGED <<books, paypal>>
  /\ UNCHANGED <<day, submissions, uploads, events, reading, processed, lastRun>>

LiveSubmission(i) ==
  \E n \in DOMAIN submissions :
    submissions[n].invoice = i /\ submissions[n].state \in {"PENDIENTE_EVIDENCIA", "EN_REVISION", "APROBADA"}

\* The days a transfer may be dated: in the past, and not too far back.
TransferDates == {d \in 0..day : d + MaxAge >= day}

CreateTransferSubmission ==
  /\ PortalOpen(books)
  /\ Len(submissions) < MaxSubmissions
  /\ \E i \in DOMAIN books.invoices, sent \in TransferDates :
       /\ Open(books, i)
       /\ ~LiveSubmission(i)
       /\ submissions' = Append(submissions, [invoice |-> i, state |-> "PENDIENTE_EVIDENCIA", sent |-> sent])
  /\ UNCHANGED <<day, books, uploads, paypal, events, reading, processed, lastRun>>

\* uploadEvidence, up to the object in the storage: nothing is looked up but the
\* tenant, and the path is new with every upload.
StoreObject(u) ==
  /\ PortalOpen(books)
  /\ uploads[u].phase = "none"
  /\ \E n \in DOMAIN submissions :
       uploads' = [uploads EXCEPT ![u] = [submission |-> n, phase |-> "stored"]]
  /\ UNCHANGED <<day, books, submissions, paypal, events, reading, processed, lastRun>>

\* register_payment_evidence on the books: the invoice is open again, paused when
\* the transfer was made in time.
Reopen(b, n) ==
  LET i == submissions[n].invoice
  IN  [b EXCEPT !.invoices[i].state = "ABIERTA",
                !.invoices[i].pause = IF submissions[n].sent <= b.invoices[i].grace
                                        THEN day + PauseDays ELSE 0]

RegisterEvidence(u) ==
  LET n == uploads[u].submission IN
  /\ uploads[u].phase = "stored"
  /\ PortalOpen(books)
  /\ submissions[n].state = "PENDIENTE_EVIDENCIA"
  /\ submissions' = [submissions EXCEPT ![n].state = "EN_REVISION"]
  /\ books' = Reopen(books, n)
  /\ uploads' = [uploads EXCEPT ![u].phase = "registered"]
  /\ UNCHANGED <<day, paypal, events, reading, processed, lastRun>>

\* Mutant: one object per submission, so that a refused upload removes the object
\* of the accepted one.
RemoveSharedObject(u) ==
  LET n == uploads[u].submission IN
  /\ uploads[u].phase = "stored"
  /\ submissions[n].state # "PENDIENTE_EVIDENCIA"
  /\ uploads' = [v \in Uploads |-> IF uploads[v].submission = n
                                     THEN [uploads[v] EXCEPT !.phase = "refused"] ELSE uploads[v]]
  /\ UNCHANGED <<day, books, submissions, paypal, events, reading, processed, lastRun>>

\* The registration is refused; the object is removed, unless that fails as well.
RefuseEvidence(u) ==
  LET n == uploads[u].submission IN
  /\ uploads[u].phase = "stored"
  /\ submissions[n].state # "PENDIENTE_EVIDENCIA" \/ ~PortalOpen(books)
  /\ uploads' = [uploads EXCEPT ![u].phase = "refused"]
  /\ UNCHANGED <<day, books, submissions, paypal, events, reading, processed, lastRun>>

(***************************************************************************)
(* The reviewer                                                            *)
(***************************************************************************)
Reviewable(n) ==
  /\ submissions[n].state = "EN_REVISION"
  /\ books.invoices[submissions[n].invoice].state # "PAGADA"

\* Mutant: a reference that is taken is skipped by ON CONFLICT and nobody asks.
ApproveUnchecked(n, ref) ==
  LET i == submissions[n].invoice IN
  /\ Reviewable(n)
  /\ books' = IF Payable(books, i, ref) THEN Confirm(books, i, ref, day) ELSE books
  /\ submissions' = [submissions EXCEPT ![n].state = "APROBADA"]
  /\ UNCHANGED <<day, uploads, paypal, events, reading, processed, lastRun>>

Approve(n, ref) ==
  LET i == submissions[n].invoice IN
  /\ Reviewable(n)
  /\ Payable(books, i, ref)
  /\ books' = Confirm(books, i, ref, day)
  /\ submissions' = [submissions EXCEPT ![n].state = "APROBADA"]
  /\ UNCHANGED <<day, uploads, paypal, events, reading, processed, lastRun>>

Reject(n) ==
  LET i == submissions[n].invoice IN
  /\ Reviewable(n)
  /\ books' = [books EXCEPT !.invoices[i].state = "ABIERTA", !.invoices[i].pause = 0]
  /\ submissions' = [submissions EXCEPT ![n].state = "RECHAZADA"]
  /\ UNCHANGED <<day, uploads, paypal, events, reading, processed, lastRun>>

ReviewTransfer == \E n \in DOMAIN submissions : Reject(n) \/ \E ref \in References : Approve(n, ref)

(***************************************************************************)
(* PayPal and its webhook                                                  *)
(***************************************************************************)
Send(type) == Len(events) < MaxEvents /\ events' = Append(events, type)

\* The customer approves; PayPal charges, or fails to; the subscription is
\* suspended or cancelled.
PaypalMoves ==
  /\ \/ /\ paypal.status = "APPROVAL_PENDING"
        /\ paypal' = [status |-> "ACTIVE", start |-> day, next |-> day]
        /\ Send("SUBSCRIPTION")
     \/ /\ paypal.status = "ACTIVE" /\ paypal.next <= day
        /\ paypal' = [paypal EXCEPT !.next = @ + Month]
        /\ Send("SALE.COMPLETED")
     \/ /\ paypal.status = "ACTIVE" /\ paypal.next <= day
        /\ UNCHANGED paypal
        /\ Send("SALE.DENIED")
     \/ /\ paypal.status = "ACTIVE"
        /\ \E s \in {"SUSPENDED", "CANCELLED"} : paypal' = [paypal EXCEPT !.status = s]
        /\ Send("SUBSCRIPTION")
  /\ UNCHANGED <<day, books, submissions, uploads, reading, processed, lastRun>>

\* mapEventStatus: the type of a sale decides, otherwise the status just read.
EventStatus(type, status) ==
  CASE type = "SALE.COMPLETED" -> "ACTIVA"
    [] type = "SALE.DENIED"    -> "MOROSA"
    [] OTHER -> CASE status = "ACTIVE"    -> "ACTIVA"
                  [] status = "SUSPENDED" -> "PAUSADA"
                  [] status = "CANCELLED" -> "CANCELADA"
                  [] OTHER                -> "INCOMPLETA"

\* verifyWebhook lets through what PayPal has sent.
VerifyWebhook(e) == e \in DOMAIN events

\* An event is delivered, for the first time or again, and PayPal is asked for the
\* state of the subscription.
ReceiveEvent(e) ==
  /\ VerifyWebhook(e)
  /\ reading[e] = None
  /\ reading' = [reading EXCEPT ![e] = GetSubscription]
  /\ UNCHANGED <<day, books, submissions, uploads, paypal, events, processed, lastRun>>

\* The latest open invoice, or else the document of the provider's period.
WithInvoice(b, start) ==
  IF \E i \in DOMAIN b.invoices : Open(b, i) THEN b ELSE CreateInvoice(b, start, day, "PROVIDER")

InvoiceToPay(b, start) ==
  LET open == {i \in DOMAIN b.invoices : Open(b, i)}
  IN  IF open # {} THEN CHOOSE i \in open : \A j \in open : j <= i
      ELSE CHOOSE i \in InvoiceOf(b, start) : TRUE

\* An event that activates needs a payable invoice; any other sets the states.
Acceptable(b, e, status) ==
  /\ b.bound
  /\ status = "ACTIVA" =>
       LET w == WithInvoice(b, reading[e].start) IN Payable(w, InvoiceToPay(w, reading[e].start), e)

Applied(b, e, status) ==
  IF status = "ACTIVA"
    THEN LET w == WithInvoice(b, reading[e].start)
         IN  Confirm(w, InvoiceToPay(w, reading[e].start), e, reading[e].start)
    ELSE [b EXCEPT !.sub = status,
                   !.ends = IF reading[e].status \in {"ACTIVE", "SUSPENDED"} THEN reading[e].next ELSE @,
                   !.tenant = CASE status = "MOROSA"    -> "MOROSO"
                                [] status = "PAUSADA"   -> "SUSPENDIDO"
                                [] status = "CANCELADA" -> "CANCELADO"
                                [] OTHER -> @]

\* process_subscription_event.  An event that is already processed is accepted
\* again without effect; a failure leaves no trace, and PayPal delivers again.
ProcessEvent(e) ==
  LET status == EventStatus(events[e], reading[e].status) IN
  /\ reading[e] # None
  /\ IF e \notin processed /\ Acceptable(books, e, status)
       THEN /\ books' = Applied(books, e, status)
            /\ processed' = processed \cup {e}
            /\ Len(books'.invoices) <= MaxInvoices
       ELSE UNCHANGED <<books, processed>>
  /\ reading' = [reading EXCEPT ![e] = None]
  /\ UNCHANGED <<day, submissions, uploads, paypal, events, lastRun>>

(***************************************************************************)
(* The daily cycle                                                         *)
(***************************************************************************)
Reviewed == {submissions[n].invoice : n \in {m \in DOMAIN submissions : submissions[m].state = "EN_REVISION"}}

\* Mutant: the run key is the date in UTC, already tomorrow's in the evening.
RunTomorrowsKey ==
  /\ lastRun # day + 1
  /\ lastRun' = day + 1
  /\ books' = Cycle(books, day, Reviewed)
  /\ Len(books'.invoices) <= MaxInvoices
  /\ UNCHANGED <<day, submissions, uploads, paypal, events, reading, processed>>

\* The advisory lock and the run key of the day let it run once; a day on which
\* the worker does not call is skipped.
RunBillingCycle ==
  /\ lastRun # day
  /\ lastRun' = day
  /\ books' = Cycle(books, day, Reviewed)
  /\ Len(books'.invoices) <= MaxInvoices
  /\ UNCHANGED <<day, submissions, uploads, paypal, events, reading, processed>>

NextDay ==
  /\ day < Horizon
  /\ day' = day + 1
  /\ UNCHANGED <<books, submissions, uploads, paypal, events, reading, processed, lastRun>>

Next ==
  \/ EnsureInitialInvoice \/ StartPaypalCheckout \/ CreateTransferSubmission
  \/ \E u \in Uploads : StoreObject(u) \/ RegisterEvidence(u) \/ RefuseEvidence(u)
  \/ ReviewTransfer \/ PaypalMoves
  \/ \E e \in EventIds : ReceiveEvent(e) \/ ProcessEvent(e)
  \/ RunBillingCycle \/ NextDay

Spec == Init /\ [][Next]_vars

(***************************************************************************)
(* Properties                                                              *)
(***************************************************************************)
Invoice ==
  [state : InvoiceStates, starts : Nat, due : Nat, grace : Nat, pause : Nat,
   reason : {"INITIAL", "RENEWAL", "REACTIVATION", "PROVIDER"}]

TypeOK ==
  /\ day \in 0..Horizon
  /\ books.tenant \in {"PENDIENTE_PAGO", "ACTIVO", "MOROSO", "SUSPENDIDO", "CANCELADO"}
  /\ books.archived \in BOOLEAN /\ books.bound \in BOOLEAN
  /\ books.onboarding \in {"PENDIENTE", "COMPLETADA", "EXPIRADA"}
  /\ books.sub \in {"INCOMPLETA", "ACTIVA", "MOROSA", "PAUSADA", "CANCELADA"}
  /\ books.ends \in Nat \cup {None}
  /\ books.invoices \in Seq(Invoice)
  /\ books.payments \subseteq [invoice : DOMAIN books.invoices, ref : References \cup EventIds]
  /\ submissions \in Seq([invoice : DOMAIN books.invoices, sent : Nat,
                          state : {"PENDIENTE_EVIDENCIA", "EN_REVISION", "APROBADA", "RECHAZADA"}])
  /\ \A u \in Uploads : uploads[u].phase \in {"none", "stored", "registered", "refused"}
  /\ processed \subseteq DOMAIN events /\ lastRun \in 0..day \cup {None}

\* The ledger is one to one: a bank transfer or a provider's event pays one
\* invoice, and no invoice is paid twice, through whichever channels.
LedgerExact ==
  \A p, q \in books.payments : (p.invoice = q.invoice \/ p.ref = q.ref) => p = q

\* A transfer that was approved has its invoice in the ledger, even when the
\* reference that was typed in is already there.
ApprovedArePaid ==
  \A n \in DOMAIN submissions :
    submissions[n].state = "APROBADA" => \E p \in books.payments : p.invoice = submissions[n].invoice

\* A submission that reached the reviewer keeps its evidence: no other upload,
\* accepted or refused, takes the object away.
EvidenceKept ==
  \A n \in DOMAIN submissions :
    submissions[n].state # "PENDIENTE_EVIDENCIA" =>
      \E u \in Uploads : uploads[u] = [submission |-> n, phase |-> "registered"]

\* A tenant that is cancelled, by the provider or by the archive, is issued no
\* renewal and no reactivation.
NoRenewalForTheGone ==
  [][\A i \in DOMAIN books'.invoices \ DOMAIN books.invoices :
       books'.invoices[i].reason \in {"RENEWAL", "REACTIVATION"} =>
         books.tenant # "CANCELADO" /\ ~books.archived]_vars

(***************************************************************************)
(* What the documentation claims                                           *)
(***************************************************************************)
\* docs/architecture/saas-billing-bank-transfers.md:17: before the first payment
\* every operational module stays locked.
NoServiceBeforePayment == Operational(books) => books.payments # {}

\* docs/tenant-provisioning-runbook.md:68: a confirmed payment marks its invoice
\* as paid.
PaidInvoicesStayPaid == \A p \in books.payments : books.invoices[p.invoice].state = "PAGADA"
=============================================================================

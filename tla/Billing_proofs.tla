----------------------------- MODULE Billing_proofs -----------------------------
(***************************************************************************)
(* Theorems of Billing, for any number of references, uploads, events,     *)
(* submissions and invoices, and any lengths of the periods.               *)
(*                                                                         *)
(* The books are one record, so the lemmas say of each SQL function what   *)
(* kind of record it leaves and what it keeps of the one it found; the     *)
(* invariants then need only that documents and payments are added.        *)
(***************************************************************************)
EXTENDS Billing, NumberSets, SequenceTheorems, TLAPS

(***************************************************************************)
(* The kinds of the records                                                *)
(***************************************************************************)
TenantStates == {"PENDIENTE_PAGO", "ACTIVO", "MOROSO", "SUSPENDIDO", "CANCELADO"}
SubStates == {"INCOMPLETA", "ACTIVA", "MOROSA", "PAUSADA", "CANCELADA"}
Paid == [invoice : Nat, ref : References \cup EventIds]

Books ==
  [tenant : TenantStates, archived : BOOLEAN, onboarding : {"PENDIENTE", "COMPLETADA", "EXPIRADA"},
   sub : SubStates, ends : Nat \cup {None}, bound : BOOLEAN, invoices : Seq(Invoice),
   payments : SUBSET Paid]

Submission ==
  [invoice : Nat, sent : Nat, state : {"PENDIENTE_EVIDENCIA", "EN_REVISION", "APROBADA", "RECHAZADA"}]

Upload == [submission : Nat, phase : {"none", "stored", "registered", "refused"}]

Subscription ==
  [status : {"NONE", "APPROVAL_PENDING", "ACTIVE", "SUSPENDED", "CANCELLED"}, start : Nat, next : Nat]

EventTypes == {"SUBSCRIPTION", "SALE.COMPLETED", "SALE.DENIED"}

\* Every payment is of a document that exists.
PaymentsOfInvoices(b) == \A p \in b.payments : p.invoice \in DOMAIN b.invoices

\* Nothing of b is lost in c: documents are added, payments too.
Continues(b, c) ==
  /\ DOMAIN b.invoices \subseteq DOMAIN c.invoices
  /\ b.payments \subseteq c.payments

WellFormed(b) == b \in Books /\ PaymentsOfInvoices(b)

\* The books after a function that pays nothing.
Keeps(b, c) == WellFormed(c) /\ Continues(b, c) /\ c.payments = b.payments

Reasons == {"INITIAL", "RENEWAL", "REACTIVATION", "PROVIDER"}

(***************************************************************************)
(* The types of all variables, with what their reads count on: a stored    *)
(* object is of a submission, a delivery that has read a status is of an   *)
(* event that was sent.                                                    *)
(***************************************************************************)
Shape ==
  /\ day \in 0..Horizon
  /\ books \in Books /\ PaymentsOfInvoices(books)
  /\ submissions \in Seq(Submission)
  /\ \A n \in DOMAIN submissions : submissions[n].invoice \in DOMAIN books.invoices
  /\ uploads \in [Uploads -> Upload]
  /\ \A u \in Uploads : uploads[u].phase = "stored" => uploads[u].submission \in DOMAIN submissions
  /\ paypal \in Subscription
  /\ events \in Seq(EventTypes)
  /\ reading \in [EventIds -> Subscription \cup {None}]
  /\ \A e \in EventIds : reading[e] # None => e \in DOMAIN events
  /\ processed \subseteq DOMAIN events
  /\ lastRun \in 0..day \cup {None}

(***************************************************************************)
(* Invoices                                                                *)
(***************************************************************************)
\* A new document leaves books that continue the old ones, and only with the
\* reason it was made for.
LEMMA CreateInvoiceKeeps ==
  ASSUME NEW b, WellFormed(b), NEW starts \in Nat, NEW due \in Nat, NEW reason \in Reasons,
         NEW c, c = CreateInvoice(b, starts, due, reason)
  PROVE  /\ Keeps(b, c)
         /\ \A i \in DOMAIN c.invoices \ DOMAIN b.invoices : c.invoices[i].reason = reason
         /\ InvoiceOf(b, starts) = {} =>
              \E i \in DOMAIN c.invoices : c.invoices[i].state = "ABIERTA"
<1> DEFINE new == [state |-> "ABIERTA", starts |-> starts, due |-> due, grace |-> due + GraceDays,
                   pause |-> 0, reason |-> reason]
           invs == Append(b.invoices, new)
<1>1. GraceDays \in Nat
  BY DaysAssumption
<1>2. new \in Invoice
  BY <1>1 DEF Reasons, Invoice, InvoiceStates
<1>3. b.invoices \in Seq(Invoice)
  BY DEF WellFormed, Books
<1>4. /\ invs \in Seq(Invoice) /\ Len(invs) = Len(b.invoices) + 1
      /\ invs[Len(b.invoices) + 1] = new
  BY <1>2, <1>3, AppendProperties
<1>5. /\ DOMAIN invs = 1..Len(b.invoices) + 1 /\ DOMAIN b.invoices = 1..Len(b.invoices)
      /\ Len(b.invoices) \in Nat
  BY <1>3, <1>4, LenProperties
<1>6. CASE InvoiceOf(b, starts) # {}
  <2>1. c = b
    BY <1>6 DEF CreateInvoice
  <2>2. QED  BY <2>1, <1>6 DEF Keeps, Continues
<1>7. CASE InvoiceOf(b, starts) = {}
  <2>1. c = [b EXCEPT !.invoices = invs]
    BY <1>7 DEF CreateInvoice
  <2> HIDE DEF invs, new
  <2>2. c \in Books /\ c.invoices = invs /\ c.payments = b.payments
    BY <2>1, <1>4 DEF WellFormed, Books
  <2>3. Keeps(b, c)
    BY <2>2, <1>5 DEF Keeps, WellFormed, PaymentsOfInvoices, Continues
  <2>4. \A i \in DOMAIN c.invoices \ DOMAIN b.invoices : i = Len(b.invoices) + 1
    BY <2>2, <1>5
  <2>5. new.reason = reason /\ new.state = "ABIERTA"
    BY DEF new
  <2>6. \A i \in DOMAIN c.invoices \ DOMAIN b.invoices : c.invoices[i].reason = reason
    BY <2>2, <2>4, <2>5, <1>4
  <2>7. \E i \in DOMAIN c.invoices : c.invoices[i].state = "ABIERTA"
    <3>1. Len(b.invoices) + 1 \in DOMAIN c.invoices
      BY <2>2, <1>5
    <3>2. QED  BY <3>1, <2>2, <2>5, <1>4
  <2>8. QED  BY <1>7, <2>3, <2>6, <2>7
<1>8. QED  BY <1>6, <1>7

(***************************************************************************)
(* The functions that only edit what is there                              *)
(***************************************************************************)
LEMMA KeepsItself == ASSUME NEW b, WellFormed(b) PROVE Keeps(b, b)
BY DEF Keeps, Continues

LEMMA KeepsOnward ==
  ASSUME NEW a, NEW b, NEW c, Keeps(a, b), Keeps(b, c) PROVE Keeps(a, c)
BY DEF Keeps, Continues

Edited(s, i, st, p) == [s EXCEPT ![i].state = st, ![i].pause = p]

\* Setting the state and the pause of one invoice keeps what it was made for.
LEMMA EditInvoice ==
  ASSUME NEW s \in Seq(Invoice), NEW i \in DOMAIN s, NEW st \in InvoiceStates, NEW p \in Nat
  PROVE  /\ Edited(s, i, st, p) \in Seq(Invoice) /\ DOMAIN Edited(s, i, st, p) = DOMAIN s
         /\ \A j \in DOMAIN s : Edited(s, i, st, p)[j].reason = s[j].reason
<1>1. s[i] \in Invoice /\ i \in 1..Len(s)
  BY ElementOfSeq, LenProperties
<1> DEFINE x == [s[i] EXCEPT !.state = st, !.pause = p]
<1>2. x \in Invoice /\ x.reason = s[i].reason
  BY <1>1 DEF Invoice
<1>3. Edited(s, i, st, p) = [s EXCEPT ![i] = x]
  BY <1>1 DEF Edited
<1> HIDE DEF x
<1>4. [s EXCEPT ![i] = x] \in Seq(Invoice) /\ DOMAIN [s EXCEPT ![i] = x] = DOMAIN s
  BY <1>1, <1>2, ExceptSeq
<1>5. \A j \in DOMAIN s : [s EXCEPT ![i] = x][j].reason = s[j].reason
  BY <1>2
<1>6. QED  BY <1>3, <1>4, <1>5

\* Books of which only the states and invoices of the same number have changed.
LEMMA SameDocuments ==
  ASSUME NEW b, WellFormed(b), NEW s \in Seq(Invoice), DOMAIN s = DOMAIN b.invoices,
         NEW tenant \in TenantStates, NEW sub \in SubStates, NEW ends \in Nat \cup {None},
         NEW archived \in BOOLEAN, NEW bound \in BOOLEAN,
         NEW onboarding \in {"PENDIENTE", "COMPLETADA", "EXPIRADA"}
  PROVE  Keeps(b, [b EXCEPT !.invoices = s, !.tenant = tenant, !.sub = sub, !.ends = ends,
                            !.archived = archived, !.bound = bound, !.onboarding = onboarding])
BY DEF Keeps, Continues, WellFormed, Books, PaymentsOfInvoices

LEMMA BindKeeps == ASSUME NEW b, WellFormed(b) PROVE Keeps(b, Bind(b))
BY KeepsItself DEF Bind, Keeps, Continues, WellFormed, Books, PaymentsOfInvoices

LEMMA MarkLateKeeps == ASSUME NEW b, WellFormed(b), NEW now PROVE Keeps(b, MarkLate(b, now))
BY DEF MarkLate, Keeps, Continues, WellFormed, Books, PaymentsOfInvoices, TenantStates, SubStates

LEMMA SuspendLateKeeps == ASSUME NEW b, WellFormed(b), NEW now PROVE Keeps(b, SuspendLate(b, now))
BY DEF SuspendLate, Keeps, Continues, WellFormed, Books, PaymentsOfInvoices, TenantStates, SubStates

LEMMA ExpireOnboardingKeeps ==
  ASSUME NEW b, WellFormed(b), NEW now PROVE Keeps(b, ExpireOnboarding(b, now))
BY DEF ExpireOnboarding, Keeps, Continues, WellFormed, Books, PaymentsOfInvoices

LEMMA SuspendExpiredKeeps == ASSUME NEW b, WellFormed(b) PROVE Keeps(b, SuspendExpired(b))
BY DEF SuspendExpired, Keeps, Continues, WellFormed, Books, PaymentsOfInvoices, TenantStates

LEMMA ArchiveUnpaidKeeps ==
  ASSUME NEW b, WellFormed(b), NEW now PROVE Keeps(b, ArchiveUnpaid(b, now))
BY DEF ArchiveUnpaid, Keeps, Continues, WellFormed, Books, PaymentsOfInvoices, TenantStates

LEMMA EnsureInitialKeeps ==
  ASSUME NEW b, WellFormed(b), NEW now \in Nat PROVE Keeps(b, EnsureInitial(b, now))
<1>1. now + DueDays \in Nat
  BY DaysAssumption
<1>2. Keeps(b, CreateInvoice(b, now, now + DueDays, "INITIAL"))
  BY <1>1, CreateInvoiceKeeps DEF Reasons
<1>3. QED  BY <1>2, KeepsItself DEF EnsureInitial

LEMMA WithInvoiceKeeps ==
  ASSUME NEW b, WellFormed(b), NEW start \in Nat, day \in Nat PROVE Keeps(b, WithInvoice(b, start))
<1>1. Keeps(b, CreateInvoice(b, start, day, "PROVIDER"))
  BY CreateInvoiceKeeps DEF Reasons
<1>2. QED  BY <1>1, KeepsItself DEF WithInvoice

LEMMA IssueRenewalKeeps ==
  ASSUME NEW b, WellFormed(b), NEW now PROVE Keeps(b, IssueRenewal(b, now))
<1>1. CASE RenewalDue(b, now)
  <2>1. b.ends \in Nat
    BY <1>1 DEF RenewalDue, WellFormed, Books
  <2>2. Keeps(b, CreateInvoice(b, b.ends, b.ends, "RENEWAL"))
    BY <2>1, CreateInvoiceKeeps DEF Reasons
  <2>3. QED  BY <1>1, <2>2 DEF IssueRenewal
<1>2. CASE ~RenewalDue(b, now)
  BY <1>2, KeepsItself DEF IssueRenewal
<1>3. QED  BY <1>1, <1>2

LEMMA ReissueStaleKeeps ==
  ASSUME NEW b, WellFormed(b), NEW now \in Nat, NEW reviewed
  PROVE  Keeps(b, ReissueStale(b, now, reviewed))
<1> DEFINE stale == Stale(b, now, reviewed)
           annulled == [i \in DOMAIN b.invoices |->
             IF i \in stale THEN [b.invoices[i] EXCEPT !.state = "ANULADA", !.pause = 0]
             ELSE b.invoices[i]]
           c == [b EXCEPT !.invoices = annulled]
<1>1. b.invoices \in Seq(Invoice)
  BY DEF WellFormed, Books
<1>2. annulled \in Seq(Invoice) /\ DOMAIN annulled = DOMAIN b.invoices
  <2>1. \A i \in DOMAIN b.invoices : b.invoices[i] \in Invoice
    BY <1>1, ElementOfSeq, LenProperties
  <2>2. \A x \in Invoice : [x EXCEPT !.state = "ANULADA", !.pause = 0] \in Invoice
    BY DEF Invoice, InvoiceStates
  <2>3. DOMAIN b.invoices = 1..Len(b.invoices) /\ Len(b.invoices) \in Nat
    BY <1>1, LenProperties
  <2>4. annulled \in [1..Len(b.invoices) -> Invoice] /\ DOMAIN annulled = DOMAIN b.invoices
    BY <2>1, <2>2, <2>3
  <2> HIDE DEF annulled
  <2>5. QED  BY <2>3, <2>4, SeqDef
<1>3. Keeps(b, c)
  <2> HIDE DEF annulled
  <2>1. QED  BY <1>2 DEF Keeps, Continues, WellFormed, Books, PaymentsOfInvoices
<1>4. Keeps(c, CreateInvoice(c, now, now, "REACTIVATION"))
  <2> HIDE DEF c
  <2>1. WellFormed(c) /\ "REACTIVATION" \in Reasons
    BY <1>3 DEF Keeps, Reasons
  <2>2. QED  BY <2>1, CreateInvoiceKeeps
<1>5. Keeps(b, CreateInvoice(c, now, now, "REACTIVATION"))
  BY <1>3, <1>4, KeepsOnward
<1>6. ReissueStale(b, now, reviewed) = b
        \/ ReissueStale(b, now, reviewed) = CreateInvoice(c, now, now, "REACTIVATION")
  BY DEF ReissueStale
<1>7. QED  BY <1>5, <1>6, KeepsItself

\* The daily cycle pays nothing and loses no document.
LEMMA CycleKeeps ==
  ASSUME NEW b, WellFormed(b), NEW now \in Nat, NEW reviewed
  PROVE  Keeps(b, Cycle(b, now, reviewed))
<1> DEFINE b1 == IssueRenewal(b, now)
           b2 == MarkLate(b1, now)
           b3 == SuspendLate(b2, now)
           b4 == ReissueStale(b3, now, reviewed)
           b5 == ExpireOnboarding(b4, now)
           b6 == SuspendExpired(b5)
<1>0. \A x, y : Keeps(x, y) => WellFormed(y)
  BY DEF Keeps
<1>1. Keeps(b, b1)
  BY IssueRenewalKeeps
<1> HIDE DEF b1
<1>2. Keeps(b, b2)
  BY <1>0, <1>1, MarkLateKeeps, KeepsOnward
<1> HIDE DEF b2
<1>3. Keeps(b, b3)
  BY <1>0, <1>2, SuspendLateKeeps, KeepsOnward
<1> HIDE DEF b3
<1>4. Keeps(b, b4)
  BY <1>0, <1>3, ReissueStaleKeeps, KeepsOnward
<1> HIDE DEF b4
<1>5. Keeps(b, b5)
  BY <1>0, <1>4, ExpireOnboardingKeeps, KeepsOnward
<1> HIDE DEF b5
<1>6. Keeps(b, b6)
  BY <1>0, <1>5, SuspendExpiredKeeps, KeepsOnward
<1> HIDE DEF b6
<1>7. Keeps(b, ArchiveUnpaid(b6, now))
  BY <1>0, <1>6, ArchiveUnpaidKeeps, KeepsOnward
<1>8. QED  BY <1>7 DEF Cycle, b1, b2, b3, b4, b5, b6

\* A tenant that is cancelled or archived.
Gone(b) == b.tenant = "CANCELADO" \/ b.archived

\* The cycle makes no document for a tenant that is gone.
LEMMA GoneGetNothing ==
  ASSUME NEW b, WellFormed(b), Gone(b), NEW now, NEW reviewed
  PROVE  (Cycle(b, now, reviewed)).invoices = b.invoices
<1>1. IssueRenewal(b, now) = b
  BY DEF IssueRenewal, RenewalDue, Gone, WellFormed, Books
<1>2. MarkLate(b, now) = b
  BY DEF MarkLate, Gone, WellFormed, Books
<1>3. SuspendLate(b, now) = b
  BY DEF SuspendLate, Gone, WellFormed, Books
<1>4. ReissueStale(b, now, reviewed) = b
  BY DEF ReissueStale, Gone, WellFormed, Books
<1>5. Cycle(b, now, reviewed) = ArchiveUnpaid(SuspendExpired(ExpireOnboarding(b, now)), now)
  BY <1>1, <1>2, <1>3, <1>4 DEF Cycle
<1> DEFINE x == ExpireOnboarding(b, now)
           y == SuspendExpired(x)
<1>6. WellFormed(x) /\ x.invoices = b.invoices
  BY ExpireOnboardingKeeps DEF ExpireOnboarding, Keeps, WellFormed, Books
<1> HIDE DEF x
<1>7. WellFormed(y) /\ y.invoices = x.invoices
  BY <1>6, SuspendExpiredKeeps DEF SuspendExpired, Keeps, WellFormed, Books
<1> HIDE DEF y
<1>8. (ArchiveUnpaid(y, now)).invoices = y.invoices
  BY <1>7 DEF ArchiveUnpaid, WellFormed, Books
<1>9. QED  BY <1>5, <1>6, <1>7, <1>8 DEF x, y

(***************************************************************************)
(* Paying                                                                  *)
(***************************************************************************)
\* What an event pays for is a document of the books it finds.
LEMMA InvoiceToPayExists ==
  ASSUME NEW b, WellFormed(b), NEW start \in Nat, day \in Nat, NEW w, w = WithInvoice(b, start)
  PROVE  InvoiceToPay(w, start) \in DOMAIN w.invoices
<1> DEFINE open == {i \in DOMAIN w.invoices : Open(w, i)}
<1>1. w.invoices \in Seq(Invoice)
  BY WithInvoiceKeeps DEF Keeps, WellFormed, Books
<1>2. open \subseteq 1..Len(w.invoices) /\ Len(w.invoices) \in Nat
  BY <1>1, LenProperties
<1>3. CASE open # {}
  <2>1. \E i \in open : \A j \in open : j <= i
    BY <1>2, <1>3, Latest
  <2>2. InvoiceToPay(w, start) = CHOOSE i \in open : \A j \in open : j <= i
    BY <1>3 DEF InvoiceToPay
  <2>3. InvoiceToPay(w, start) \in open
    BY <2>1, <2>2
  <2>4. QED  BY <2>3
<1>4. CASE open = {}
  <2>1. ~(\E i \in DOMAIN b.invoices : Open(b, i))
    BY <1>4 DEF WithInvoice
  <2>2. w = CreateInvoice(b, start, day, "PROVIDER")
    BY <2>1 DEF WithInvoice
  <2>3. InvoiceOf(b, start) # {}
    BY <2>2, <1>4, CreateInvoiceKeeps DEF Reasons, Open
  <2>4. w = b
    BY <2>2, <2>3 DEF CreateInvoice
  <2>5. InvoiceToPay(w, start) = CHOOSE i \in InvoiceOf(w, start) : TRUE
    BY <1>4 DEF InvoiceToPay
  <2>6. InvoiceToPay(w, start) \in InvoiceOf(w, start)
    BY <2>3, <2>4, <2>5
  <2>7. QED  BY <2>6 DEF InvoiceOf
<1>5. QED  BY <1>3, <1>4

LEMMA PeriodStartType ==
  ASSUME NEW b, WellFormed(b), NEW i \in DOMAIN b.invoices, NEW at \in Nat
  PROVE  PeriodStart(b, i, at) \in Nat
<1>1. b.invoices[i] \in Invoice
  BY ElementOfSeq, LenProperties DEF WellFormed, Books
<1>2. b.invoices[i].starts \in Nat /\ b.ends \in Nat \cup {None}
  BY <1>1 DEF Invoice, WellFormed, Books
<1>3. QED  BY <1>2 DEF PeriodStart

\* A payment adds itself to the ledger and leaves every document in place.
LEMMA ConfirmBooks ==
  ASSUME NEW b, WellFormed(b), NEW i \in DOMAIN b.invoices, NEW ref \in References \cup EventIds,
         NEW at \in Nat, NEW c, c = Confirm(b, i, ref, at)
  PROVE  /\ WellFormed(c) /\ Continues(b, c) /\ DOMAIN c.invoices = DOMAIN b.invoices
         /\ c.payments = b.payments \cup {[invoice |-> i, ref |-> ref]}
         /\ \A j \in DOMAIN c.invoices : c.invoices[j].reason = b.invoices[j].reason
<1> DEFINE new == [invoice |-> i, ref |-> ref]
           invs == Edited(b.invoices, i, "PAGADA", 0)
           starts == PeriodStart(b, i, at)
<1>1. starts + Month \in Nat
  BY PeriodStartType, DaysAssumption
<1>2. /\ invs \in Seq(Invoice) /\ DOMAIN invs = DOMAIN b.invoices
      /\ \A j \in DOMAIN b.invoices : invs[j].reason = b.invoices[j].reason
  <2>1. b.invoices \in Seq(Invoice) /\ "PAGADA" \in InvoiceStates /\ 0 \in Nat
    BY DEF WellFormed, Books, InvoiceStates
  <2>2. QED  BY <2>1, EditInvoice
<1>3. new \in Paid
  BY LenProperties DEF Paid, WellFormed, Books
<1>4. CASE new \in b.payments
  <2>1. c = b
    BY <1>4 DEF Confirm
  <2>2. QED  BY <1>4, <2>1 DEF Continues
<1>5. CASE new \notin b.payments
  <2> DEFINE b1 == [b EXCEPT !.payments = @ \cup {new}]
             b2 == [b1 EXCEPT !.invoices[i].state = "PAGADA"]
             b3 == [b2 EXCEPT !.invoices[i].pause = 0]
             tenant == IF b.archived THEN b3.tenant ELSE "ACTIVO"
             onboarding == IF b3.onboarding = "PENDIENTE" THEN "COMPLETADA" ELSE b3.onboarding
  <2>1. c = [b3 EXCEPT !.sub = "ACTIVA", !.ends = starts + Month, !.tenant = tenant,
                       !.onboarding = onboarding]
    BY <1>5 DEF Confirm
  <2>2. b3 \in Books /\ b3.invoices = invs /\ b3.payments = b.payments \cup {new}
    <3>1. b1 \in Books /\ b1.invoices = b.invoices /\ b1.payments = b.payments \cup {new}
      BY <1>3 DEF WellFormed, Books
    <3> HIDE DEF b1
    <3>2. b2 = [b1 EXCEPT !.invoices = [b.invoices EXCEPT ![i].state = "PAGADA"]]
      BY <3>1 DEF Books
    <3> HIDE DEF b2
    <3>3. b3 = [b2 EXCEPT !.invoices = [b2.invoices EXCEPT ![i].pause = 0]]
      BY <3>1, <3>2 DEF Books
    <3>4. b2.invoices = [b.invoices EXCEPT ![i].state = "PAGADA"]
      BY <3>1, <3>2 DEF Books
    <3>5. [b2.invoices EXCEPT ![i].pause = 0] = invs
      BY <3>4 DEF Edited
    <3>6. b3 = [b1 EXCEPT !.invoices = invs]
      BY <3>1, <3>2, <3>3, <3>5 DEF Books
    <3> HIDE DEF invs, b3
    <3>7. QED  BY <3>1, <3>6, <1>2 DEF Books
  <2> HIDE DEF new, invs, starts, b1, b2, b3
  <2>3. tenant \in TenantStates /\ onboarding \in {"PENDIENTE", "COMPLETADA", "EXPIRADA"}
    BY <2>2 DEF Books, TenantStates
  <2> HIDE DEF tenant, onboarding
  <2>4. c \in Books /\ c.invoices = invs /\ c.payments = b.payments \cup {new}
    BY <2>1, <2>2, <2>3, <1>1 DEF Books, SubStates
  <2>5. new.invoice = i
    BY DEF new
  <2>6. PaymentsOfInvoices(c)
    BY <2>4, <2>5, <1>2 DEF WellFormed, PaymentsOfInvoices
  <2>7. QED  BY <2>4, <2>6, <1>2 DEF WellFormed, Continues, new
<1>6. QED  BY <1>4, <1>5

(***************************************************************************)
(* What one step does to the books                                         *)
(***************************************************************************)
\* At most one payment is added, under an unused reference and of an invoice
\* that nobody has paid.
Pays(b, c) ==
  \/ c.payments = b.payments
  \/ \E i, ref : Payable(b, i, ref) /\ c.payments = b.payments \cup {[invoice |-> i, ref |-> ref]}

\* Only a tenant that is not gone is issued a renewal or a reactivation.
Issues(b, c) ==
  \A i \in DOMAIN c.invoices \ DOMAIN b.invoices :
    c.invoices[i].reason \in {"RENEWAL", "REACTIVATION"} => ~Gone(b)

Moves(b, c) == WellFormed(c) /\ Continues(b, c) /\ Pays(b, c) /\ Issues(b, c)

LEMMA MovesByKeeping ==
  ASSUME NEW b, NEW c, Keeps(b, c), Issues(b, c) PROVE Moves(b, c)
BY DEF Keeps, Moves, Pays

LEMMA MovesInPlace ==
  ASSUME NEW b, NEW c, Keeps(b, c), DOMAIN c.invoices = DOMAIN b.invoices PROVE Moves(b, c)
BY MovesByKeeping DEF Issues

LEMMA EnsureInitialMoves ==
  ASSUME NEW b, WellFormed(b), NEW now \in Nat, NEW c, c = EnsureInitial(b, now)
  PROVE  Keeps(b, c) /\ Issues(b, c)
<1>1. Keeps(b, c)
  BY EnsureInitialKeeps
<1>2. CASE c = b
  BY <1>1, <1>2 DEF Issues
<1>3. CASE c # b
  <2>1. c = CreateInvoice(b, now, now + DueDays, "INITIAL") /\ now + DueDays \in Nat
    BY <1>3, DaysAssumption DEF EnsureInitial
  <2>2. \A i \in DOMAIN c.invoices \ DOMAIN b.invoices : c.invoices[i].reason = "INITIAL"
    BY <2>1, CreateInvoiceKeeps DEF Reasons
  <2>3. QED  BY <1>1, <2>2 DEF Issues
<1>4. QED  BY <1>2, <1>3

LEMMA WithInvoiceMoves ==
  ASSUME NEW b, WellFormed(b), NEW start \in Nat, day \in Nat, NEW c, c = WithInvoice(b, start)
  PROVE  Keeps(b, c) /\ Issues(b, c)
<1>1. Keeps(b, c)
  BY WithInvoiceKeeps
<1>2. CASE c = b
  BY <1>1, <1>2 DEF Issues
<1>3. CASE c # b
  <2>1. c = CreateInvoice(b, start, day, "PROVIDER")
    BY <1>3 DEF WithInvoice
  <2>2. \A i \in DOMAIN c.invoices \ DOMAIN b.invoices : c.invoices[i].reason = "PROVIDER"
    BY <2>1, CreateInvoiceKeeps DEF Reasons
  <2>3. QED  BY <1>1, <2>2 DEF Issues
<1>4. QED  BY <1>2, <1>3

LEMMA CycleMoves ==
  ASSUME NEW b, WellFormed(b), NEW now \in Nat, NEW reviewed
  PROVE  Moves(b, Cycle(b, now, reviewed))
<1>1. Keeps(b, Cycle(b, now, reviewed))
  BY CycleKeeps
<1>2. CASE Gone(b)
  BY <1>1, <1>2, GoneGetNothing, MovesInPlace
<1>3. CASE ~Gone(b)
  BY <1>1, <1>3, MovesByKeeping DEF Issues
<1>4. QED  BY <1>2, <1>3

LEMMA ConfirmMoves ==
  ASSUME NEW b, WellFormed(b), NEW i \in DOMAIN b.invoices, NEW ref \in References \cup EventIds,
         NEW at \in Nat, Payable(b, i, ref)
  PROVE  Moves(b, Confirm(b, i, ref, at))
<1>1. PICK c : c = Confirm(b, i, ref, at)
  OBVIOUS
<1>2. /\ WellFormed(c) /\ Continues(b, c) /\ DOMAIN c.invoices = DOMAIN b.invoices
      /\ c.payments = b.payments \cup {[invoice |-> i, ref |-> ref]}
  BY <1>1, ConfirmBooks
<1>3. Pays(b, c) /\ Issues(b, c)
  BY <1>2 DEF Pays, Issues
<1>4. QED  BY <1>1, <1>2, <1>3 DEF Moves

\* The edit of one invoice by the reviewer or by the evidence.
LEMMA EditMoves ==
  ASSUME NEW b, WellFormed(b), NEW i \in DOMAIN b.invoices, NEW p \in Nat
  PROVE  Moves(b, [b EXCEPT !.invoices[i].state = "ABIERTA", !.invoices[i].pause = p])
<1> DEFINE b1 == [b EXCEPT !.invoices[i].state = "ABIERTA"]
           invs == Edited(b.invoices, i, "ABIERTA", p)
           c == [b EXCEPT !.invoices = invs]
<1>1. invs \in Seq(Invoice) /\ DOMAIN invs = DOMAIN b.invoices
  <2>1. b.invoices \in Seq(Invoice) /\ "ABIERTA" \in InvoiceStates
    BY DEF WellFormed, Books, InvoiceStates
  <2>2. QED  BY <2>1, EditInvoice
<1>2. b1 = [b EXCEPT !.invoices = [b.invoices EXCEPT ![i].state = "ABIERTA"]]
  BY DEF WellFormed, Books
<1>3. b1.invoices = [b.invoices EXCEPT ![i].state = "ABIERTA"]
  BY <1>2 DEF WellFormed, Books
<1>4. [b1 EXCEPT !.invoices[i].pause = p] = c
  <2>1. [b1 EXCEPT !.invoices[i].pause = p] = [b1 EXCEPT !.invoices = [b1.invoices EXCEPT ![i].pause = p]]
    BY <1>2 DEF WellFormed, Books
  <2>2. [b1.invoices EXCEPT ![i].pause = p] = invs
    BY <1>3 DEF Edited
  <2> HIDE DEF b1, invs
  <2>3. QED  BY <1>2, <2>1, <2>2 DEF WellFormed, Books
<1>5. Keeps(b, c) /\ DOMAIN c.invoices = DOMAIN b.invoices
  <2> HIDE DEF invs
  <2>1. QED  BY <1>1 DEF Keeps, Continues, WellFormed, Books, PaymentsOfInvoices
<1>6. Moves(b, c)
  BY <1>5, MovesInPlace
<1>7. QED  BY <1>4, <1>6

LEMMA EventStatusType ==
  ASSUME NEW type, NEW status
  PROVE  EventStatus(type, status) \in SubStates
BY DEF EventStatus, SubStates

\* An event that is applied pays an invoice or sets the states.
LEMMA AppliedMoves ==
  ASSUME NEW b, WellFormed(b), NEW e \in EventIds, reading[e] \in Subscription, day \in Nat,
         NEW status \in SubStates, Acceptable(b, e, status)
  PROVE  Moves(b, Applied(b, e, status))
<1>0. reading[e].start \in Nat /\ reading[e].next \in Nat
  BY DEF Subscription
<1>1. CASE status = "ACTIVA"
  <2>1. PICK w : w = WithInvoice(b, reading[e].start)
    OBVIOUS
  <2>2. PICK i : i = InvoiceToPay(w, reading[e].start)
    OBVIOUS
  <2>3. Keeps(b, w) /\ Issues(b, w) /\ i \in DOMAIN w.invoices /\ Payable(w, i, e)
    BY <1>0, <1>1, <2>1, <2>2, WithInvoiceMoves, InvoiceToPayExists DEF Acceptable
  <2>4. PICK c : c = Confirm(w, i, e, reading[e].start)
    OBVIOUS
  <2>5. /\ WellFormed(c) /\ Continues(w, c) /\ DOMAIN c.invoices = DOMAIN w.invoices
        /\ c.payments = w.payments \cup {[invoice |-> i, ref |-> e]}
        /\ \A j \in DOMAIN c.invoices : c.invoices[j].reason = w.invoices[j].reason
    BY <1>0, <2>3, <2>4, ConfirmBooks DEF Keeps
  <2>6. Pays(b, c)
    BY <2>3, <2>5 DEF Pays, Payable, Keeps
  <2>7. Continues(b, c) /\ Issues(b, c)
    BY <2>3, <2>5 DEF Continues, Keeps, Issues
  <2>8. Applied(b, e, status) = c
    BY <1>1, <2>1, <2>2, <2>4 DEF Applied
  <2>9. QED  BY <2>5, <2>6, <2>7, <2>8 DEF Moves
<1>2. CASE status # "ACTIVA"
  <2> DEFINE ends == IF reading[e].status \in {"ACTIVE", "SUSPENDED"} THEN reading[e].next ELSE b.ends
             tenant == CASE status = "MOROSA"    -> "MOROSO"
                         [] status = "PAUSADA"   -> "SUSPENDIDO"
                         [] status = "CANCELADA" -> "CANCELADO"
                         [] OTHER -> b.tenant
             c == [b EXCEPT !.sub = status, !.ends = ends, !.tenant = tenant]
  <2>1. Applied(b, e, status) = c
    BY <1>2 DEF Applied
  <2>2. ends \in Nat \cup {None} /\ tenant \in TenantStates
    BY <1>0 DEF WellFormed, Books, TenantStates
  <2> HIDE DEF ends, tenant
  <2>3. Keeps(b, c) /\ c.invoices = b.invoices
    BY <2>2 DEF Keeps, Continues, WellFormed, Books, PaymentsOfInvoices
  <2>4. QED  BY <2>1, <2>3, MovesInPlace
<1>3. QED  BY <1>1, <1>2

(***************************************************************************)
(* Every step moves the books forward                                      *)
(***************************************************************************)
LEMMA PortalMoves ==
  ASSUME Shape, EnsureInitialInvoice \/ StartPaypalCheckout PROVE Moves(books, books')
<1>1. WellFormed(books) /\ day \in Nat
  BY BoundsAssumption DEF Shape, WellFormed
<1>2. CASE books' = books
  BY <1>1, <1>2, KeepsItself, MovesInPlace
<1>3. PICK c : c = EnsureInitial(books, day)
  OBVIOUS
<1>4. Keeps(books, c) /\ Issues(books, c)
  BY <1>1, <1>3, EnsureInitialMoves
<1>5. CASE books' = c
  BY <1>4, <1>5, MovesByKeeping
<1>6. CASE books' = Bind(c)
  <2>1. Keeps(c, books') /\ books'.invoices = c.invoices
    BY <1>4, <1>6, BindKeeps DEF Keeps, Bind, WellFormed, Books
  <2>2. Issues(books, books')
    BY <1>4, <2>1 DEF Issues
  <2>3. QED  BY <1>4, <2>1, <2>2, KeepsOnward, MovesByKeeping
<1>7. QED  BY <1>2, <1>3, <1>5, <1>6 DEF EnsureInitialInvoice, StartPaypalCheckout

LEMMA RegisterEvidenceMoves ==
  ASSUME Shape, NEW u \in Uploads, RegisterEvidence(u) PROVE Moves(books, books')
<1> DEFINE i == submissions[uploads[u].submission].invoice
           p == IF submissions[uploads[u].submission].sent <= books.invoices[i].grace
                  THEN day + PauseDays ELSE 0
<1>1. WellFormed(books) /\ i \in DOMAIN books.invoices
  BY DEF Shape, WellFormed, RegisterEvidence
<1>2. p \in Nat
  BY BoundsAssumption, DaysAssumption DEF Shape
<1>3. books' = [books EXCEPT !.invoices[i].state = "ABIERTA", !.invoices[i].pause = p]
  BY DEF RegisterEvidence, Reopen
<1> HIDE DEF i, p
<1>4. QED  BY <1>1, <1>2, <1>3, EditMoves

LEMMA RejectMoves ==
  ASSUME Shape, NEW n \in DOMAIN submissions, Reject(n) PROVE Moves(books, books')
<1>1. WellFormed(books) /\ submissions[n].invoice \in DOMAIN books.invoices
  BY DEF Shape, WellFormed
<1>2. QED  BY <1>1, EditMoves DEF Reject

LEMMA ApproveMoves ==
  ASSUME Shape, NEW n \in DOMAIN submissions, NEW ref \in References, Approve(n, ref)
  PROVE  Moves(books, books')
<1>1. WellFormed(books) /\ submissions[n].invoice \in DOMAIN books.invoices /\ day \in Nat
  BY BoundsAssumption DEF Shape, WellFormed
<1>2. QED  BY <1>1, ConfirmMoves DEF Approve

LEMMA ProcessEventMoves ==
  ASSUME Shape, NEW e \in EventIds, ProcessEvent(e) PROVE Moves(books, books')
<1> DEFINE status == EventStatus(events[e], reading[e].status)
<1>1. WellFormed(books) /\ day \in Nat /\ reading[e] \in Subscription
  BY BoundsAssumption DEF Shape, WellFormed, ProcessEvent
<1>2. status \in SubStates
  BY EventStatusType
<1>3. CASE books' = books
  BY <1>1, <1>3, KeepsItself, MovesInPlace
<1>4. CASE Acceptable(books, e, status) /\ books' = Applied(books, e, status)
  BY <1>1, <1>2, <1>4, AppliedMoves
<1>5. QED  BY <1>3, <1>4 DEF ProcessEvent

\* Whoever writes the books adds to them: no document is lost, no payment is
\* lost, at most one is added, and it is of an unpaid invoice.
LEMMA BooksMove == ASSUME Shape, [Next]_vars PROVE Moves(books, books')
<1>1. WellFormed(books) /\ day \in Nat
  BY BoundsAssumption DEF Shape, WellFormed
<1>2. CASE UNCHANGED books
  BY <1>1, <1>2, KeepsItself, MovesInPlace
<1>3. CASE EnsureInitialInvoice \/ StartPaypalCheckout
  BY <1>3, PortalMoves
<1>4. CASE \E u \in Uploads : StoreObject(u) \/ RegisterEvidence(u) \/ RefuseEvidence(u)
  BY <1>2, <1>4, RegisterEvidenceMoves DEF StoreObject, RefuseEvidence
<1>5. CASE ReviewTransfer
  BY <1>5, RejectMoves, ApproveMoves DEF ReviewTransfer
<1>6. CASE \E e \in EventIds : ReceiveEvent(e) \/ ProcessEvent(e)
  BY <1>2, <1>6, ProcessEventMoves DEF ReceiveEvent
<1>7. CASE RunBillingCycle
  BY <1>1, <1>7, CycleMoves DEF RunBillingCycle
<1>8. CASE CreateTransferSubmission \/ PaypalMoves \/ NextDay \/ UNCHANGED vars
  BY <1>2, <1>8 DEF CreateTransferSubmission, PaypalMoves, NextDay, vars
<1>9. QED  BY <1>3, <1>4, <1>5, <1>6, <1>7, <1>8 DEF Next

(***************************************************************************)
(* Types                                                                   *)
(***************************************************************************)
LEMMA ShapeInit == Init => Shape
<1> SUFFICES ASSUME Init PROVE Shape
  OBVIOUS
<1> USE DEF Init
<1>1. day \in 0..Horizon
  BY BoundsAssumption
<1>2. books \in Books /\ PaymentsOfInvoices(books)
  BY EmptySeq DEF Provisioned, Books, TenantStates, SubStates, PaymentsOfInvoices
<1>3. submissions \in Seq(Submission) /\ DOMAIN submissions = {} /\ events \in Seq(EventTypes)
  BY EmptySeq, LenProperties
<1>4. uploads \in [Uploads -> Upload] /\ \A u \in Uploads : uploads[u].phase # "stored"
  BY DEF Upload
<1>5. paypal \in Subscription
  BY DEF Subscription
<1>6. QED  BY <1>1, <1>2, <1>3, <1>4, <1>5 DEF Shape

\* What the books refer to stays when the books move.
LEMMA ShapeOfBooks ==
  ASSUME Shape, [Next]_vars
  PROVE  /\ books' \in Books /\ PaymentsOfInvoices(books')
         /\ \A n \in DOMAIN submissions : submissions[n].invoice \in DOMAIN books'.invoices
<1>1. WellFormed(books') /\ Continues(books, books')
  BY BooksMove DEF Moves
<1>2. QED  BY <1>1 DEF Shape, WellFormed, Continues

\* Most steps touch neither submissions nor uploads, or neither PayPal nor events.
Transfers == <<submissions, uploads>>
Provider == <<paypal, events, reading, processed>>

LEMMA ShapeOfTransfers ==
  ASSUME Shape, [Next]_vars
  PROVE  /\ submissions' \in Seq(Submission)
         /\ \A n \in DOMAIN submissions' : submissions'[n].invoice \in DOMAIN books'.invoices
         /\ uploads' \in [Uploads -> Upload]
         /\ \A u \in Uploads : uploads'[u].phase = "stored" => uploads'[u].submission \in DOMAIN submissions'
<1> DEFINE Goal ==
         /\ submissions' \in Seq(Submission)
         /\ \A n \in DOMAIN submissions' : submissions'[n].invoice \in DOMAIN books'.invoices
         /\ uploads' \in [Uploads -> Upload]
         /\ \A u \in Uploads : uploads'[u].phase = "stored" => uploads'[u].submission \in DOMAIN submissions'
<1>1. /\ submissions \in Seq(Submission) /\ DOMAIN submissions = 1..Len(submissions)
      /\ Len(submissions) \in Nat
      /\ \A n \in DOMAIN submissions : submissions[n] \in Submission
      /\ \A n \in DOMAIN submissions : submissions[n].invoice \in DOMAIN books'.invoices
      /\ \A n \in DOMAIN submissions : submissions[n].invoice \in DOMAIN books.invoices
      /\ uploads \in [Uploads -> Upload]
      /\ \A u \in Uploads : uploads[u].phase = "stored" => uploads[u].submission \in DOMAIN submissions
  BY ShapeOfBooks, ElementOfSeq, LenProperties DEF Shape
<1>2. CASE UNCHANGED Transfers
  BY <1>1, <1>2 DEF Transfers
<1>3. ASSUME NEW n \in DOMAIN submissions, NEW st \in {"EN_REVISION", "APROBADA", "RECHAZADA"},
             submissions' = [submissions EXCEPT ![n].state = st]
      PROVE  /\ submissions' \in Seq(Submission) /\ DOMAIN submissions' = DOMAIN submissions
             /\ \A m \in DOMAIN submissions : submissions'[m].invoice = submissions[m].invoice
  <2> DEFINE x == [submissions[n] EXCEPT !.state = st]
  <2>1. x \in Submission /\ x.invoice = submissions[n].invoice
    BY <1>1, <1>3 DEF Submission
  <2>2. submissions' = [submissions EXCEPT ![n] = x]
    BY <1>3
  <2> HIDE DEF x
  <2>3. submissions' \in Seq(Submission) /\ DOMAIN submissions' = DOMAIN submissions
    BY <1>1, <2>1, <2>2, ExceptSeq
  <2>4. QED  BY <1>1, <2>1, <2>2, <2>3
<1>4. ASSUME CreateTransferSubmission PROVE Goal
  <2>1. PICK i \in DOMAIN books.invoices, sent \in TransferDates :
          submissions' = Append(submissions, [invoice |-> i, state |-> "PENDIENTE_EVIDENCIA", sent |-> sent])
    BY <1>4 DEF CreateTransferSubmission
  <2> DEFINE new == [invoice |-> i, state |-> "PENDIENTE_EVIDENCIA", sent |-> sent]
  <2>2. i \in Nat /\ sent \in Nat
    BY BoundsAssumption, LenProperties DEF Shape, Books, TransferDates
  <2>3. new \in Submission /\ new.invoice = i
    BY <2>2 DEF Submission
  <2> HIDE DEF new
  <2>4. submissions' = Append(submissions, new) /\ UNCHANGED <<books, uploads>>
    BY <1>4, <2>1 DEF CreateTransferSubmission, new
  <2>5. /\ submissions' \in Seq(Submission) /\ Len(submissions') = Len(submissions) + 1
        /\ \A n \in 1..Len(submissions) : submissions'[n] = submissions[n]
        /\ submissions'[Len(submissions) + 1] = new
    BY <1>1, <2>3, <2>4, AppendProperties
  <2>6. DOMAIN submissions' = 1..Len(submissions) + 1
    BY <1>1, <2>5, LenProperties
  <2>7. \A n \in DOMAIN submissions' : submissions'[n].invoice \in DOMAIN books'.invoices
    BY <1>1, <2>3, <2>4, <2>5, <2>6
  <2>8. QED  BY <1>1, <2>4, <2>5, <2>6, <2>7
<1>5. ASSUME NEW u \in Uploads, StoreObject(u) PROVE Goal
  <2>1. PICK n \in DOMAIN submissions : uploads' = [uploads EXCEPT ![u] = [submission |-> n, phase |-> "stored"]]
    BY <1>5 DEF StoreObject
  <2>2. n \in Nat /\ UNCHANGED submissions
    BY <1>1, <1>5 DEF StoreObject
  <2>3. uploads' \in [Uploads -> Upload]
    BY <1>1, <2>1, <2>2 DEF Upload
  <2>4. \A v \in Uploads : uploads'[v].phase = "stored" => uploads'[v].submission \in DOMAIN submissions
    BY <1>1, <2>1
  <2>5. QED  BY <1>1, <2>2, <2>3, <2>4
<1>6. ASSUME NEW u \in Uploads, NEW phase \in {"registered", "refused"},
             uploads' = [uploads EXCEPT ![u].phase = phase]
      PROVE  /\ uploads' \in [Uploads -> Upload]
             /\ \A v \in Uploads : uploads'[v].phase = "stored" => uploads'[v].submission \in DOMAIN submissions
  BY <1>1, <1>6 DEF Upload
<1>7. ASSUME NEW u \in Uploads, RegisterEvidence(u) PROVE Goal
  <2>1. uploads[u].submission \in DOMAIN submissions
    BY <1>1, <1>7 DEF RegisterEvidence
  <2>2. QED  BY <1>1, <1>3, <1>6, <1>7, <2>1 DEF RegisterEvidence
<1>8. ASSUME NEW u \in Uploads, RefuseEvidence(u) PROVE Goal
  BY <1>1, <1>6, <1>8 DEF RefuseEvidence
<1>9. ASSUME ReviewTransfer PROVE Goal
  <2>1. PICK n \in DOMAIN submissions, st \in {"APROBADA", "RECHAZADA"} :
          submissions' = [submissions EXCEPT ![n].state = st] /\ UNCHANGED uploads
    BY <1>9 DEF ReviewTransfer, Approve, Reject
  <2>2. QED  BY <1>1, <1>3, <2>1
<1>10. QED
  BY <1>2, <1>4, <1>5, <1>7, <1>8, <1>9
  DEF Next, vars, Transfers, EnsureInitialInvoice, StartPaypalCheckout, PaypalMoves, ReceiveEvent,
      ProcessEvent, RunBillingCycle, NextDay

LEMMA ShapeOfProvider ==
  ASSUME Shape, [Next]_vars
  PROVE  /\ paypal' \in Subscription /\ events' \in Seq(EventTypes)
         /\ reading' \in [EventIds -> Subscription \cup {None}]
         /\ \A e \in EventIds : reading'[e] # None => e \in DOMAIN events'
         /\ processed' \subseteq DOMAIN events'
<1> DEFINE Goal ==
         /\ paypal' \in Subscription /\ events' \in Seq(EventTypes)
         /\ reading' \in [EventIds -> Subscription \cup {None}]
         /\ \A e \in EventIds : reading'[e] # None => e \in DOMAIN events'
         /\ processed' \subseteq DOMAIN events'
<1>1. /\ paypal \in Subscription /\ events \in Seq(EventTypes)
      /\ reading \in [EventIds -> Subscription \cup {None}]
      /\ \A e \in EventIds : reading[e] # None => e \in DOMAIN events
      /\ processed \subseteq DOMAIN events /\ day \in Nat
  BY BoundsAssumption DEF Shape
<1>2. CASE UNCHANGED Provider
  BY <1>1, <1>2 DEF Provider
<1>3. ASSUME StartPaypalCheckout PROVE Goal
  BY <1>1, <1>3 DEF StartPaypalCheckout, CreateSubscription, Subscription
<1>4. ASSUME PaypalMoves PROVE Goal
  <2>1. PICK type \in EventTypes : events' = Append(events, type)
    BY <1>4 DEF PaypalMoves, Send, EventTypes
  <2>2. events' \in Seq(EventTypes) /\ DOMAIN events \subseteq DOMAIN events'
    BY <1>1, <2>1, AppendProperties, LenProperties
  <2>3. paypal' \in Subscription
    BY <1>1, <1>4, DaysAssumption DEF PaypalMoves, Subscription
  <2>4. QED  BY <1>1, <1>4, <2>2, <2>3 DEF PaypalMoves
<1>5. ASSUME NEW e \in EventIds, ReceiveEvent(e) PROVE Goal
  BY <1>1, <1>5 DEF ReceiveEvent, VerifyWebhook, GetSubscription
<1>6. ASSUME NEW e \in EventIds, ProcessEvent(e) PROVE Goal
  <2>1. e \in DOMAIN events
    BY <1>1, <1>6 DEF ProcessEvent
  <2>2. processed' \subseteq DOMAIN events
    BY <1>1, <1>6, <2>1 DEF ProcessEvent
  <2>3. reading' = [reading EXCEPT ![e] = None] /\ UNCHANGED <<paypal, events>>
    BY <1>6 DEF ProcessEvent
  <2>4. QED  BY <1>1, <2>2, <2>3
<1>7. QED
  BY <1>2, <1>3, <1>4, <1>5, <1>6
  DEF Next, vars, Provider, EnsureInitialInvoice, CreateTransferSubmission, StoreObject,
      RegisterEvidence, RefuseEvidence, ReviewTransfer, Approve, Reject, RunBillingCycle, NextDay

LEMMA ShapeStep == Shape /\ [Next]_vars => Shape'
<1> SUFFICES ASSUME Shape, [Next]_vars PROVE Shape'
  OBVIOUS
<1>1. day' \in 0..Horizon /\ lastRun' \in 0..day' \cup {None}
  <2>1. day \in 0..Horizon /\ lastRun \in 0..day \cup {None} /\ Horizon \in Nat
    BY BoundsAssumption DEF Shape
  <2>2. CASE UNCHANGED <<day, lastRun>>
    BY <2>1, <2>2
  <2>3. CASE RunBillingCycle
    BY <2>1, <2>3 DEF RunBillingCycle
  <2>4. CASE NextDay
    BY <2>1, <2>4 DEF NextDay
  <2>5. QED
    BY <2>2, <2>3, <2>4
    DEF Next, vars, EnsureInitialInvoice, StartPaypalCheckout, CreateTransferSubmission, StoreObject,
        RegisterEvidence, RefuseEvidence, ReviewTransfer, Approve, Reject, PaypalMoves, ReceiveEvent,
        ProcessEvent
<1>2. QED  BY <1>1, ShapeOfBooks, ShapeOfTransfers, ShapeOfProvider DEF Shape

\* The invariant the theorems about billing rest on: records of their kinds,
\* and every reference from one to another is to something that exists.
THEOREM ShapeHolds == Spec => []Shape
BY ShapeInit, ShapeStep, PTL DEF Spec

LEMMA ShapeTypes == Shape => TypeOK
<1> SUFFICES ASSUME Shape PROVE TypeOK
  OBVIOUS
<1>1. books.payments \subseteq [invoice : DOMAIN books.invoices, ref : References \cup EventIds]
  BY DEF Shape, Books, Paid, PaymentsOfInvoices
<1>2. submissions \in Seq([invoice : DOMAIN books.invoices, sent : Nat,
        state : {"PENDIENTE_EVIDENCIA", "EN_REVISION", "APROBADA", "RECHAZADA"}])
  <2> DEFINE Kind == [invoice : DOMAIN books.invoices, sent : Nat,
        state : {"PENDIENTE_EVIDENCIA", "EN_REVISION", "APROBADA", "RECHAZADA"}]
  <2>1. Len(submissions) \in Nat /\ submissions \in [1..Len(submissions) -> Submission]
    BY LenProperties DEF Shape
  <2>2. \A n \in 1..Len(submissions) : submissions[n] \in Kind
    BY <2>1 DEF Shape, Submission
  <2>3. submissions \in [1..Len(submissions) -> Kind]
    BY <2>1, <2>2
  <2> HIDE DEF Kind
  <2>4. submissions \in Seq(Kind)
    BY <2>1, <2>3, SeqDef
  <2>5. QED  BY <2>4 DEF Kind
<1>3. /\ books.tenant \in TenantStates /\ books.archived \in BOOLEAN /\ books.bound \in BOOLEAN
      /\ books.onboarding \in {"PENDIENTE", "COMPLETADA", "EXPIRADA"} /\ books.sub \in SubStates
      /\ books.ends \in Nat \cup {None} /\ books.invoices \in Seq(Invoice)
  BY DEF Shape, Books
<1>4. \A u \in Uploads : uploads[u].phase \in {"none", "stored", "registered", "refused"}
  BY DEF Shape, Upload
<1>5. QED  BY <1>1, <1>2, <1>3, <1>4 DEF Shape, TypeOK, TenantStates, SubStates

\* Every variable keeps its type: no payment and no declared transfer is of a
\* document that does not exist.
THEOREM TypesHold == Spec => []TypeOK
BY ShapeHolds, ShapeTypes, PTL

(***************************************************************************)
(* The ledger                                                              *)
(***************************************************************************)
\* However events, reviews and cycles interleave, a reference pays one invoice
\* and an invoice is paid once.
THEOREM LedgerIsExact == Spec => []LedgerExact
<1>1. Init => LedgerExact
  BY DEF Init, Provisioned, LedgerExact
<1>2. Shape /\ LedgerExact /\ [Next]_vars => LedgerExact'
  <2> SUFFICES ASSUME Shape, LedgerExact, [Next]_vars PROVE LedgerExact'
    OBVIOUS
  <2>1. Pays(books, books')
    BY BooksMove DEF Moves
  <2>2. CASE books'.payments = books.payments
    BY <2>2 DEF LedgerExact
  <2>3. ASSUME NEW i, NEW ref, Payable(books, i, ref),
               books'.payments = books.payments \cup {[invoice |-> i, ref |-> ref]}
        PROVE  LedgerExact'
    <3> DEFINE new == [invoice |-> i, ref |-> ref]
    <3>1. new.invoice = i /\ new.ref = ref
      OBVIOUS
    <3>2. new \in books.payments \/ \A p \in books.payments : p.ref # new.ref /\ p.invoice # new.invoice
      BY <2>3, <3>1 DEF Payable
    <3> HIDE DEF new
    <3>3. books'.payments = books.payments \cup {new}
      BY <2>3 DEF new
    <3>4. QED  BY <3>2, <3>3 DEF LedgerExact
  <2>4. QED  BY <2>1, <2>2, <2>3 DEF Pays
<1>3. QED  BY <1>1, <1>2, ShapeHolds, PTL DEF Spec

\* The reviewer's approval is never of an invoice that the ledger does not have:
\* the payment is inserted with it, and none is ever removed.
THEOREM ApprovalsArePaid == Spec => []ApprovedArePaid
<1>1. Init => ApprovedArePaid
  BY DEF Init, ApprovedArePaid
<1>2. Shape /\ ApprovedArePaid /\ [Next]_vars => ApprovedArePaid'
  <2> SUFFICES ASSUME Shape, ApprovedArePaid, [Next]_vars PROVE ApprovedArePaid'
    OBVIOUS
  <2>1. books.payments \subseteq books'.payments
    BY BooksMove DEF Moves, Continues
  <2>2. /\ DOMAIN submissions = 1..Len(submissions) /\ Len(submissions) \in Nat
        /\ submissions \in [1..Len(submissions) -> Submission]
    BY LenProperties DEF Shape
  <2>3. CASE UNCHANGED submissions
    BY <2>1, <2>3 DEF ApprovedArePaid
  <2>4. CASE CreateTransferSubmission
    <3>1. PICK i \in DOMAIN books.invoices, sent \in TransferDates :
            submissions' = Append(submissions, [invoice |-> i, state |-> "PENDIENTE_EVIDENCIA", sent |-> sent])
      BY <2>4 DEF CreateTransferSubmission
    <3>2. /\ DOMAIN submissions' = 1..Len(submissions) + 1
          /\ \A n \in DOMAIN submissions : submissions'[n] = submissions[n]
          /\ submissions'[Len(submissions) + 1].state = "PENDIENTE_EVIDENCIA"
      <4> DEFINE new == [invoice |-> i, state |-> "PENDIENTE_EVIDENCIA", sent |-> sent]
      <4>1. new.state = "PENDIENTE_EVIDENCIA"
        OBVIOUS
      <4>2. submissions' = Append(submissions, new)
        BY <3>1
      <4> HIDE DEF new
      <4>3. QED  BY <2>2, <4>1, <4>2
    <3>3. QED  BY <2>1, <2>2, <3>2 DEF ApprovedArePaid
  <2>5. ASSUME NEW u \in Uploads, RegisterEvidence(u) PROVE ApprovedArePaid'
    BY <2>1, <2>2, <2>5 DEF RegisterEvidence, ApprovedArePaid, Submission
  <2>6. ASSUME NEW n \in DOMAIN submissions, Reject(n) PROVE ApprovedArePaid'
    BY <2>1, <2>2, <2>6 DEF Reject, ApprovedArePaid, Submission
  <2>7. ASSUME NEW n \in DOMAIN submissions, NEW ref \in References, Approve(n, ref)
        PROVE  ApprovedArePaid'
    <3>1. \E p \in books'.payments : p.invoice = submissions[n].invoice
      <4> DEFINE i == submissions[n].invoice
                 new == [invoice |-> i, ref |-> ref]
      <4>1. WellFormed(books) /\ i \in DOMAIN books.invoices /\ day \in Nat
        BY BoundsAssumption DEF Shape, WellFormed
      <4>2. books' = Confirm(books, i, ref, day)
        BY <2>7 DEF Approve
      <4>3. new \in books'.payments
        BY <4>1, <4>2, ConfirmBooks
      <4>4. QED  BY <4>3
    <3>2. QED  BY <2>1, <2>2, <2>7, <3>1 DEF Approve, ApprovedArePaid, Submission
  <2>8. QED
    BY <2>3, <2>4, <2>5, <2>6, <2>7
    DEF Next, vars, EnsureInitialInvoice, StartPaypalCheckout, StoreObject, RefuseEvidence,
        ReviewTransfer, PaypalMoves, ReceiveEvent, ProcessEvent, RunBillingCycle, NextDay
<1>3. QED  BY <1>1, <1>2, ShapeHolds, PTL DEF Spec

(***************************************************************************)
(* The evidence                                                            *)
(***************************************************************************)
\* The object of an accepted registration stays, whatever becomes of the other
\* uploads of the same submission.
THEOREM EvidenceIsKept == Spec => []EvidenceKept
<1>1. Init => EvidenceKept
  BY DEF Init, EvidenceKept
<1>2. Shape /\ EvidenceKept /\ [Next]_vars => EvidenceKept'
  <2> SUFFICES ASSUME Shape, EvidenceKept, [Next]_vars PROVE EvidenceKept'
    OBVIOUS
  <2>1. /\ DOMAIN submissions = 1..Len(submissions) /\ Len(submissions) \in Nat
        /\ submissions \in [1..Len(submissions) -> Submission]
        /\ uploads \in [Uploads -> Upload]
    BY LenProperties DEF Shape
  <2> DEFINE Registered(u, n) == uploads[u] = [submission |-> n, phase |-> "registered"]
  <2>2. \A u \in Uploads, n \in DOMAIN submissions : Registered(u, n) => uploads[u].phase = "registered"
    OBVIOUS
  <2>3. CASE UNCHANGED <<submissions, uploads>>
    BY <2>3 DEF EvidenceKept
  <2>4. CASE CreateTransferSubmission
    <3>1. PICK i \in DOMAIN books.invoices, sent \in TransferDates :
            submissions' = Append(submissions, [invoice |-> i, state |-> "PENDIENTE_EVIDENCIA", sent |-> sent])
      BY <2>4 DEF CreateTransferSubmission
    <3> DEFINE new == [invoice |-> i, state |-> "PENDIENTE_EVIDENCIA", sent |-> sent]
    <3>2. new.state = "PENDIENTE_EVIDENCIA" /\ submissions' = Append(submissions, new)
      BY <3>1
    <3> HIDE DEF new
    <3>3. /\ DOMAIN submissions' = 1..Len(submissions) + 1
          /\ \A n \in DOMAIN submissions : submissions'[n] = submissions[n]
          /\ submissions'[Len(submissions) + 1].state = "PENDIENTE_EVIDENCIA"
      BY <2>1, <3>2
    <3>4. UNCHANGED uploads
      BY <2>4 DEF CreateTransferSubmission
    <3>5. \A n \in DOMAIN submissions' :
            submissions'[n].state # "PENDIENTE_EVIDENCIA" =>
              n \in DOMAIN submissions /\ submissions[n].state # "PENDIENTE_EVIDENCIA"
      BY <2>1, <3>3
    <3>6. QED  BY <3>4, <3>5 DEF EvidenceKept
  <2>5. ASSUME NEW u \in Uploads, StoreObject(u) PROVE EvidenceKept'
    <3>1. uploads[u].phase = "none" /\ UNCHANGED submissions
          /\ \A v \in Uploads \ {u} : uploads'[v] = uploads[v]
      BY <2>1, <2>5 DEF StoreObject
    <3>2. QED  BY <2>2, <3>1 DEF EvidenceKept
  <2>6. ASSUME NEW u \in Uploads, RefuseEvidence(u) PROVE EvidenceKept'
    <3>1. uploads[u].phase = "stored" /\ UNCHANGED submissions
          /\ \A v \in Uploads \ {u} : uploads'[v] = uploads[v]
      BY <2>1, <2>6 DEF RefuseEvidence
    <3>2. QED  BY <2>2, <3>1 DEF EvidenceKept
  <2>7. ASSUME NEW u \in Uploads, RegisterEvidence(u) PROVE EvidenceKept'
    <3> DEFINE n == uploads[u].submission
    <3>1. uploads'[u] = [submission |-> n, phase |-> "registered"]
      BY <2>1, <2>7 DEF RegisterEvidence, Upload
    <3>2. uploads[u].phase = "stored" /\ \A v \in Uploads \ {u} : uploads'[v] = uploads[v]
      BY <2>1, <2>7 DEF RegisterEvidence
    <3>3. /\ DOMAIN submissions' = DOMAIN submissions
          /\ \A m \in DOMAIN submissions \ {n} : submissions'[m] = submissions[m]
      BY <2>7 DEF RegisterEvidence
    <3>4. ASSUME NEW m \in DOMAIN submissions', submissions'[m].state # "PENDIENTE_EVIDENCIA"
          PROVE  \E v \in Uploads : uploads'[v] = [submission |-> m, phase |-> "registered"]
      <4>1. CASE m = n
        BY <3>1, <4>1
      <4>2. CASE m # n
        <5>1. PICK v \in Uploads : uploads[v] = [submission |-> m, phase |-> "registered"]
          BY <3>3, <3>4, <4>2 DEF EvidenceKept
        <5>2. v # u
          BY <3>2, <5>1
        <5>3. QED  BY <3>2, <5>1, <5>2
      <4>3. QED  BY <4>1, <4>2
    <3>5. QED  BY <3>4 DEF EvidenceKept
  <2>8. ASSUME ReviewTransfer PROVE EvidenceKept'
    <3>1. PICK n \in DOMAIN submissions :
            /\ submissions[n].state = "EN_REVISION" /\ UNCHANGED uploads
            /\ DOMAIN submissions' = DOMAIN submissions
            /\ \A m \in DOMAIN submissions \ {n} : submissions'[m] = submissions[m]
      BY <2>8 DEF ReviewTransfer, Reviewable, Approve, Reject
    <3>2. QED  BY <3>1 DEF EvidenceKept
  <2>9. QED
    BY <2>3, <2>4, <2>5, <2>6, <2>7, <2>8
    DEF Next, vars, EnsureInitialInvoice, StartPaypalCheckout, PaypalMoves, ReceiveEvent,
        ProcessEvent, RunBillingCycle, NextDay
<1>3. QED  BY <1>1, <1>2, ShapeHolds, PTL DEF Spec

(***************************************************************************)
(* What no step does                                                       *)
(***************************************************************************)
\* No step issues a renewal or a reactivation to a tenant that is cancelled or
\* archived: neither the cycle nor a webhook that comes late.
THEOREM GoneAreNotRenewed == Spec => NoRenewalForTheGone
<1>1. Shape /\ [Next]_vars =>
        [\A i \in DOMAIN books'.invoices \ DOMAIN books.invoices :
           books'.invoices[i].reason \in {"RENEWAL", "REACTIVATION"} =>
             books.tenant # "CANCELADO" /\ ~books.archived]_vars
  BY BooksMove DEF Moves, Issues, Gone
<1>2. QED  BY <1>1, ShapeHolds, PTL DEF Spec, NoRenewalForTheGone

\* No step loses a document or a payment, whoever writes the books.
THEOREM BooksOnlyGrow == Spec => [][Continues(books, books')]_vars
<1>1. Shape /\ [Next]_vars => [Continues(books, books')]_vars
  BY BooksMove DEF Moves
<1>2. QED  BY <1>1, ShapeHolds, PTL DEF Spec
=============================================================================

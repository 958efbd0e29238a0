------------------------- MODULE Notifications_proofs -------------------------
(***************************************************************************)
(* Proofs about Notifications, for any number of requests, users and       *)
(* connections: that a refused request leaves nothing behind, that a       *)
(* deduplication key has one row, that an inbox is its owner's, and that   *)
(* the request's transaction keeps the promise of AtomicRequest.           *)
(*                                                                         *)
(* NoteInv is the inductive invariant: LifeInv ties what has become of a   *)
(* transaction to how far Node is with the request, the other conjuncts    *)
(* tie the rows a transaction holds to what is stored.                     *)
(***************************************************************************)
EXTENDS Notifications, TLAPS

\* The domains of the variables.
Domains ==
  /\ call \in [Requests -> Calls \cup {None}]
  /\ stage \in [Requests -> Stages]
  /\ outcome \in [Requests -> {None, "ok", "error"}]
  /\ response \in [Requests -> {"pending", "finished", "closed"}]
  /\ tx \in [Requests -> TxStates]
  /\ written \in [Requests -> Nat]
  /\ durable \in [Requests -> Nat]
  /\ deferred \in [Requests -> {"no", "registered", "due", "done"}]
  /\ auditTx \in [Requests -> {0, 1}] /\ audits \in [Requests -> Nat]
  /\ joining \subseteq Listeners
  /\ projection \in [Requests -> {"none", "started", "drafted", "waiting", "inserted", "done"}]
  /\ drafts \in [Requests -> SUBSET Keys] /\ pending \in [Requests -> SUBSET Keys]
  /\ marks \in [Requests -> SUBSET Keys]
  /\ bandeja \in [Keys -> {"none", "unread", "read"}]
  /\ inserted \in [Keys -> Nat] /\ emitted \in [Keys -> Nat]

\* How far Node is bounds what may have become of the transaction.
StageOf(r) ==
  /\ stage[r] = "idle" => call[r] = None /\ written[r] = 0
  /\ stage[r] # "idle" => call[r] \in Calls /\ written[r] <= call[r].writes
  /\ stage[r] \in {"idle", "queued", "unserved"} => tx[r] = "none" /\ response[r] # "finished"
  /\ stage[r] \in {"audit", "answered"} /\ outcome[r] = "ok" => written[r] = call[r].writes
  /\ response[r] = "finished" => stage[r] = "answered"

\* What a transaction leaves when it ends.
EndOf(r) ==
  /\ tx[r] = "committed" => /\ response[r] # "pending"
                            /\ response[r] = "finished" => outcome[r] = "ok"
                            /\ durable[r] = written[r]
  /\ tx[r] # "committed" => durable[r] = 0

\* The audit rows: the row of the transaction or the row of the task.
AuditOf(r) ==
  /\ deferred[r] \in {"due", "done"} => tx[r] = "rolledback"
  /\ tx[r] # "committed" /\ deferred[r] # "done" => audits[r] = 0
  /\ audits[r] <= 1

LifeInv == Domains /\ \A r \in Requests : StageOf(r) /\ EndOf(r) /\ AuditOf(r)

\* A request that has not arrived satisfies it.
LEMMA LifeInit == Init => LifeInv
BY NoneAssumption
DEF Init, LifecycleInit, NotificationInit, LifeInv, Domains, StageOf, EndOf, AuditOf,
    Stages, TxStates, Keys

\* Every step of a request keeps it true of every request; what the projector has
\* done is left open, so that the lemma serves steps that change it as well.
LEMMA LifeStep ==
  ASSUME LifeInv, NEW r \in Requests,
         \/ Arrive(r) \/ Close(r) \/ Expire(r)
         \/ Connect(r) \/ Unserved(r) \/ RefuseInGuard(r) \/ WriteStatement(r)
         \/ RefuseInHandler(r) \/ FailStatement(r) \/ FinishHandler(r)
         \/ RecordAudit(r) \/ Finish(r)
         \/ Commit(r) \/ CommitInVain(r) \/ RollBack(r)
         \/ RunAfterRollback(r) \/ LoseAfterRollback(r)
  PROVE  /\ call' \in [Requests -> Calls \cup {None}]
         /\ stage' \in [Requests -> Stages]
         /\ outcome' \in [Requests -> {None, "ok", "error"}]
         /\ response' \in [Requests -> {"pending", "finished", "closed"}]
         /\ tx' \in [Requests -> TxStates]
         /\ written' \in [Requests -> Nat]
         /\ durable' \in [Requests -> Nat]
         /\ deferred' \in [Requests -> {"no", "registered", "due", "done"}]
         /\ auditTx' \in [Requests -> {0, 1}] /\ audits' \in [Requests -> Nat]
         /\ joining' \subseteq Listeners
         /\ \A q \in Requests : StageOf(q)' /\ EndOf(q)' /\ AuditOf(q)'
<1> USE DEF LifeInv, Domains, Stages, TxStates, StageOf, EndOf, AuditOf
<1>1. CASE Arrive(r)
  BY <1>1, CallsAssumption, NoneAssumption DEF Arrive
<1>2. CASE Close(r)
  BY <1>2 DEF Close
<1>3. CASE Expire(r)
  BY <1>3 DEF Expire, Holding
<1>4. CASE Connect(r) \/ Unserved(r)
  BY <1>4 DEF Connect, Unserved
<1>5. CASE RefuseInGuard(r)
  BY <1>5 DEF RefuseInGuard
<1>6. CASE WriteStatement(r)
  BY <1>6, CallsAssumption DEF WriteStatement, Usable
<1>7. CASE RefuseInHandler(r) \/ FailStatement(r) \/ FinishHandler(r)
  BY <1>7 DEF RefuseInHandler, FailStatement, FinishHandler, EndHandler, Usable
<1>8. CASE RecordAudit(r)
  BY <1>8 DEF RecordAudit, Usable
<1>9. CASE Finish(r)
  BY <1>9 DEF Finish
<1>10. CASE Commit(r)
  BY <1>10 DEF Commit, Completed, Usable, StatusCode
<1>11. CASE CommitInVain(r)
  BY <1>11 DEF CommitInVain, Completed
<1>12. CASE RollBack(r)
  BY <1>12 DEF RollBack, Completed
<1>13. CASE RunAfterRollback(r)
  BY <1>13 DEF RunAfterRollback
<1>14. CASE LoseAfterRollback(r)
  BY <1>14 DEF LoseAfterRollback
<1>15. QED
  BY <1>1, <1>2, <1>3, <1>4, <1>5, <1>6, <1>7, <1>8, <1>9, <1>10, <1>11, <1>12, <1>13, <1>14

\* What no step of the lifecycle takes back.
LifeFrame ==
  \A q \in Requests :
    /\ call[q] # None => call'[q] = call[q]
    /\ stage[q] \in {"audit", "answered"} =>
         stage'[q] \in {"audit", "answered"} /\ outcome'[q] = outcome[q]
    /\ stage'[q] \in {"idle", "queued", "unserved"} =>
         stage[q] \in {"idle", "queued", "unserved"}
    /\ tx'[q] = "open" => tx[q] = "open" \/ stage[q] = "queued"
    /\ tx[q] = "committed" => tx'[q] = "committed" /\ durable'[q] = durable[q]

\* Every step of a request respects that frame.
LEMMA LifeKeeps ==
  ASSUME LifeInv, NEW r \in Requests,
         \/ Arrive(r) \/ Close(r) \/ Expire(r)
         \/ Connect(r) \/ Unserved(r) \/ RefuseInGuard(r) \/ WriteStatement(r)
         \/ RefuseInHandler(r) \/ FailStatement(r) \/ FinishHandler(r)
         \/ RecordAudit(r) \/ Finish(r)
         \/ Commit(r) \/ CommitInVain(r) \/ RollBack(r)
         \/ RunAfterRollback(r) \/ LoseAfterRollback(r)
  PROVE  LifeFrame
<1> USE DEF LifeInv, Domains, Stages, TxStates, StageOf, LifeFrame
<1>1. CASE Arrive(r)
  BY <1>1 DEF Arrive
<1>2. CASE Close(r) \/ Expire(r)
  BY <1>2 DEF Close, Expire, Holding
<1>3. CASE Connect(r) \/ Unserved(r) \/ RefuseInGuard(r)
  BY <1>3 DEF Connect, Unserved, RefuseInGuard
<1>4. CASE WriteStatement(r)
  BY <1>4 DEF WriteStatement
<1>5. CASE RefuseInHandler(r) \/ FailStatement(r) \/ FinishHandler(r)
  BY <1>5 DEF RefuseInHandler, FailStatement, FinishHandler, EndHandler, Usable
<1>6. CASE RecordAudit(r) \/ Finish(r)
  BY <1>6 DEF RecordAudit, Finish
<1>7. CASE Commit(r) \/ CommitInVain(r) \/ RollBack(r)
  BY <1>7 DEF Commit, CommitInVain, RollBack, Completed, Usable
<1>8. CASE RunAfterRollback(r) \/ LoseAfterRollback(r)
  BY <1>8 DEF RunAfterRollback, LoseAfterRollback
<1>9. QED
  BY <1>1, <1>2, <1>3, <1>4, <1>5, <1>6, <1>7, <1>8

(***************************************************************************)
(* The projector and the inbox                                             *)
(***************************************************************************)
\* A projector runs for a request that its handler has finished, and writes
\* about that request or about nothing in particular.
ProjectionOf(r) ==
  /\ projection[r] # "none" =>
       stage[r] \in {"audit", "answered"} /\ outcome[r] = "ok" /\ Publishes(r)
  /\ projection[r] \in {"none", "started", "drafted", "waiting"} => pending[r] = {}
  /\ pending[r] \subseteq drafts[r]
  /\ \A k \in drafts[r] : k.about \in Requests => k.about = r

\* An inbox request holds rows of its own actor.
MarksOf(r) ==
  marks[r] # {} => /\ stage[r] \notin {"idle", "queued", "unserved"}
                   /\ \A k \in marks[r] : k.to = call[r].actor

\* What is stored about a request is there with all of the request.
StoredInv ==
  \A k \in Keys : bandeja[k] # "none" /\ k.about \in Requests =>
    tx[k.about] = "committed" /\ durable[k.about] = call[k.about].writes

\* What an open transaction adds is not stored yet, what it has locked is, and
\* no other open transaction touches either.
PendingOf(r) ==
  tx[r] = "open" =>
    /\ \A k \in pending[r] : bandeja[k] = "none"
    /\ \A k \in marks[r] : bandeja[k] # "none"
    /\ \A q \in Requests \ {r} :
         tx[q] = "open" => (pending[r] \cup marks[r]) \cap (pending[q] \cup marks[q]) = {}

RowsInv == \A k \in Keys : inserted[k] <= 1 /\ (bandeja[k] = "none" => inserted[k] = 0)

NoteInv ==
  /\ LifeInv
  /\ \A r \in Requests : ProjectionOf(r) /\ MarksOf(r) /\ PendingOf(r)
  /\ StoredInv /\ RowsInv

\* Nothing is stored, drafted or locked before the first request.
LEMMA NoteInit == Init => NoteInv
<1> SUFFICES ASSUME Init PROVE NoteInv
  OBVIOUS
<1>1. LifeInv
  BY LifeInit
<1>2. QED
  BY <1>1 DEF Init, LifecycleInit, NotificationInit, NoteInv, ProjectionOf, MarksOf, PendingOf,
              StoredInv, RowsInv

\* A step that leaves the notifications alone.
LEMMA QuietNotes ==
  ASSUME NoteInv, LifeInv', LifeFrame, UNCHANGED notificationVars
  PROVE  NoteInv'
<1> USE DEF notificationVars
<1>1. ASSUME NEW r \in Requests
      PROVE  ProjectionOf(r)' /\ MarksOf(r)' /\ PendingOf(r)'
  <2>1. ProjectionOf(r)'
    BY NoneAssumption DEF NoteInv, ProjectionOf, LifeFrame, LifeInv, StageOf, Publishes
  <2>2. MarksOf(r)'
    BY NoneAssumption DEF NoteInv, MarksOf, LifeFrame, LifeInv, StageOf
  <2>3. PendingOf(r)'
    BY DEF NoteInv, PendingOf, ProjectionOf, MarksOf, LifeFrame
  <2>4. QED
    BY <2>1, <2>2, <2>3
<1>2. StoredInv'
  BY NoneAssumption DEF NoteInv, StoredInv, LifeFrame, LifeInv, StageOf, Keys
<1>3. RowsInv'
  BY DEF NoteInv, RowsInv
<1>4. QED
  BY <1>1, <1>2, <1>3 DEF NoteInv

\* Wherever a step leaves the lifecycle alone, the lifecycle's invariant stays.
LEMMA LifeStays ==
  ASSUME NoteInv, UNCHANGED lifecycleVars,
         projection' \in [Requests -> {"none", "started", "drafted", "waiting", "inserted", "done"}],
         drafts' \in [Requests -> SUBSET Keys], pending' \in [Requests -> SUBSET Keys],
         marks' \in [Requests -> SUBSET Keys],
         bandeja' \in [Keys -> {"none", "unread", "read"}],
         inserted' \in [Keys -> Nat], emitted' \in [Keys -> Nat]
  PROVE  LifeInv'
BY DEF NoteInv, LifeInv, Domains, StageOf, EndOf, AuditOf, lifecycleVars

\* What a request drafts is about itself, or about nothing in particular.
LEMMA DraftsAbout ==
  ASSUME LifeInv, NEW r \in Requests, call[r] \in Calls, Publishes(r)
  PROVE  /\ Drafts(r) \in SUBSET Keys
         /\ \A k \in Drafts(r) : k.about \in Requests => k.about = r
<1>1. \A about \in {"milestone", "winner", r}, users \in SUBSET Users :
        /\ Notify(about, users) \in SUBSET Keys
        /\ \A k \in Notify(about, users) : k.about = about /\ (about = r \/ about \notin Requests)
  BY AboutAssumption DEF Notify, Keys
<1>2. SellersWithSales \in SUBSET Users
  BY SellersAssumption DEF SellersWithSales, Asks, Users, LifeInv, Domains
<1>3. call[r] # None
  BY NoneAssumption
<1>4. CASE call[r].kind = "sale"
  <2>1. Drafts(r) \in {{}, Notify("milestone", {call[r].seller} \cup Admins)}
    BY <1>3, <1>4 DEF Drafts, Asks
  <2>2. {call[r].seller} \cup Admins \in SUBSET Users
    BY <1>4, SellersAssumption DEF Users
  <2>3. QED
    BY <1>1, <2>1, <2>2
<1>5. CASE call[r].kind = "result"
  <2>1. Drafts(r) = Notify(r, Sellers) \cup Notify("winner", SellersWithSales)
    BY <1>3, <1>5 DEF Drafts, Asks
  <2>2. QED
    BY <1>1, <1>2, <2>1 DEF Users
<1>6. CASE call[r].kind = "news"
  <2>1. Drafts(r) = Notify(r, Sellers)
    BY <1>3, <1>6 DEF Drafts, Asks
  <2>2. QED
    BY <1>1, <2>1 DEF Users
<1>7. QED
  BY <1>4, <1>5, <1>6 DEF Publishes

\* Each statement of the projector, and its failing, keeps the invariant.
LEMMA ProjectKeeps ==
  ASSUME NoteInv, NEW r \in Requests, Project(r)
  PROVE  NoteInv'
<1> USE DEF lifecycleVars
<1>1. UNCHANGED lifecycleVars
  BY DEF Project
<1>2. call[r] \in Calls \/ projection[r] = "none"
  BY DEF NoteInv, ProjectionOf, LifeInv, StageOf
<1>3. CASE ProjectorFails(r)
  <2>1. LifeInv'
    BY <1>1, <1>3, LifeStays DEF ProjectorFails, NoteInv, LifeInv, Domains
  <2>2. QED
    BY <1>1, <1>3, <2>1
    DEF ProjectorFails, NoteInv, ProjectionOf, MarksOf, PendingOf, StoredInv, RowsInv,
        Publishes, LifeInv, Domains
<1>4. CASE ProjectDrafts(r)
  <2>1. /\ Drafts(r) \in SUBSET Keys
        /\ \A k \in Drafts(r) : k.about \in Requests => k.about = r
    BY <1>2, <1>4, DraftsAbout DEF ProjectDrafts, NoteInv, ProjectionOf
  <2>2. LifeInv'
    BY <1>1, <1>4, <2>1, LifeStays DEF ProjectDrafts, NoteInv, LifeInv, Domains
  <2>3. \A q \in Requests : ProjectionOf(q)'
    BY <1>1, <1>4, <2>1 DEF ProjectDrafts, NoteInv, ProjectionOf, Publishes, LifeInv, Domains
  <2>4. \A q \in Requests : MarksOf(q)' /\ PendingOf(q)'
    BY <1>1, <1>4 DEF ProjectDrafts, NoteInv, MarksOf, PendingOf
  <2>5. StoredInv' /\ RowsInv'
    BY <1>1, <1>4 DEF ProjectDrafts, NoteInv, StoredInv, RowsInv
  <2>6. QED
    BY <2>2, <2>3, <2>4, <2>5 DEF NoteInv
<1>5. CASE ProjectWait(r)
  <2>1. LifeInv'
    BY <1>1, <1>5, LifeStays DEF ProjectWait, NoteInv, LifeInv, Domains
  <2>2. QED
    BY <1>1, <1>5, <2>1
    DEF ProjectWait, NoteInv, ProjectionOf, MarksOf, PendingOf, StoredInv, RowsInv,
        Publishes, LifeInv, Domains
<1>6. CASE ProjectInsert(r)
  <2>1. LifeInv'
    BY <1>1, <1>6, LifeStays DEF ProjectInsert, NoteInv, LifeInv, Domains
  <2>2. \A q \in Requests : ProjectionOf(q)' /\ MarksOf(q)'
    BY <1>1, <1>6 DEF ProjectInsert, NoteInv, ProjectionOf, MarksOf, Publishes, LifeInv, Domains
  <2>3. \A q \in Requests : PendingOf(q)'
    BY <1>1, <1>6 DEF ProjectInsert, NoteInv, PendingOf, LifeInv, Domains, Contended, Usable
  <2>4. StoredInv' /\ RowsInv'
    BY <1>1, <1>6 DEF ProjectInsert, NoteInv, StoredInv, RowsInv
  <2>5. QED
    BY <2>1, <2>2, <2>3, <2>4 DEF NoteInv
<1>7. CASE ProjectEmit(r)
  <2>1. LifeInv'
    BY <1>1, <1>7, LifeStays DEF ProjectEmit, NoteInv, LifeInv, Domains
  <2>2. QED
    BY <1>1, <1>7, <2>1
    DEF ProjectEmit, NoteInv, ProjectionOf, MarksOf, PendingOf, StoredInv, RowsInv,
        Publishes, LifeInv, Domains
<1>8. QED
  BY <1>3, <1>4, <1>5, <1>6, <1>7 DEF Project

\* An inbox statement locks rows of its actor that nobody else has a hand on.
LEMMA InboxKeeps ==
  ASSUME NoteInv, NEW r \in Requests, InboxStatement(r)
  PROVE  NoteInv'
<1>1. WriteStatement(r)
  BY DEF InboxStatement
<1>2. LifeFrame
  BY <1>1, LifeKeeps DEF NoteInv
<1>3. PICK rows \in Selected(r) : /\ rows \cap Contended(r) = {}
                                  /\ marks' = [marks EXCEPT ![r] = rows]
  BY DEF InboxStatement
<1>4. rows \in SUBSET Keys /\ \A k \in rows : k.to = call[r].actor /\ bandeja[k] # "none"
  <2>1. CASE Asks(r, "readAll")
    <3>1. Selected(r) = {{k \in Keys : k.to = call[r].actor /\ bandeja[k] = "unread"}}
      BY <2>1 DEF Selected
    <3>2. QED
      BY <1>3, <3>1
  <2>2. CASE ~Asks(r, "readAll")
    <3>1. Selected(r) = {{k} : k \in {k \in Keys : k.to = call[r].actor /\ bandeja[k] # "none"}}
      BY <2>2 DEF Selected
    <3>2. QED
      BY <1>3, <3>1
  <2>3. QED
    BY <2>1, <2>2
<1>5. /\ UNCHANGED <<projection, drafts, pending, bandeja, inserted, emitted>>
      /\ UNCHANGED <<call, outcome, response, tx, durable, stage>>
  BY <1>1 DEF InboxStatement, WriteStatement
<1>6. LifeInv'
  <2>1. marks' \in [Requests -> SUBSET Keys]
    BY <1>3, <1>4 DEF NoteInv, LifeInv, Domains
  <2>2. QED
    BY <1>1, <1>5, <2>1, LifeStep DEF NoteInv, LifeInv, Domains
<1>7. ASSUME NEW q \in Requests PROVE ProjectionOf(q)' /\ MarksOf(q)'
  <2>1. ProjectionOf(q)'
    BY <1>5 DEF NoteInv, ProjectionOf, Publishes
  <2>2. MarksOf(q)'
    BY <1>1, <1>3, <1>4, <1>5 DEF NoteInv, MarksOf, WriteStatement, LifeInv, Domains
  <2>3. QED
    BY <2>1, <2>2
<1>8. ASSUME NEW q \in Requests PROVE PendingOf(q)'
  <2>1. marks'[r] = rows /\ \A p \in Requests \ {r} : marks'[p] = marks[p]
    BY <1>3 DEF NoteInv, LifeInv, Domains
  <2>2. \A p \in Requests \ {r} : tx[p] = "open" => rows \cap (pending[p] \cup marks[p]) = {}
    BY <1>3 DEF Contended, Usable
  <2>3. tx[r] = "open"
    BY <1>1 DEF WriteStatement, Usable
  <2>4. CASE q = r
    BY <1>4, <1>5, <2>1, <2>2, <2>4 DEF NoteInv, PendingOf
  <2>5. CASE q # r
    BY <1>5, <2>1, <2>2, <2>3, <2>5 DEF NoteInv, PendingOf
  <2>6. QED
    BY <2>4, <2>5
<1>9. StoredInv' /\ RowsInv'
  BY <1>5 DEF NoteInv, StoredInv, RowsInv
<1>10. QED
  BY <1>6, <1>7, <1>8, <1>9 DEF NoteInv

\* The projector starts when the handler has written everything.
LEMMA FinishHandlerKeeps ==
  ASSUME NoteInv, NEW r \in Requests, FinishHandler(r), Start(r),
         UNCHANGED <<drafts, pending, marks, bandeja, inserted, emitted>>
  PROVE  NoteInv'
<1>1. LifeFrame
  BY LifeKeeps DEF NoteInv
<1>2. LifeInv'
  BY LifeStep DEF NoteInv, LifeInv, Domains, Start
<1>3. /\ stage[r] = "handler" /\ stage' = [stage EXCEPT ![r] = "audit"]
      /\ outcome' = [outcome EXCEPT ![r] = "ok"]
      /\ UNCHANGED <<call, tx, durable>>
  BY DEF FinishHandler, EndHandler
<1>4. ASSUME NEW q \in Requests
      PROVE  ProjectionOf(q)' /\ MarksOf(q)' /\ PendingOf(q)'
  <2>1. ProjectionOf(q)'
    BY <1>3 DEF NoteInv, ProjectionOf, Start, Publishes, LifeInv, Domains
  <2>2. MarksOf(q)'
    BY <1>3 DEF NoteInv, MarksOf, LifeInv, Domains
  <2>3. PendingOf(q)'
    BY <1>3 DEF NoteInv, PendingOf
  <2>4. QED
    BY <2>1, <2>2, <2>3
<1>5. StoredInv' /\ RowsInv'
  BY <1>3 DEF NoteInv, StoredInv, RowsInv
<1>6. QED
  BY <1>2, <1>4, <1>5 DEF NoteInv

\* A commit stores the added rows and applies what the inbox request marked.
LEMMA CommitKeeps ==
  ASSUME NoteInv, NEW r \in Requests, Commit(r), CommitNotifications(r)
  PROVE  NoteInv'
<1>1. LifeFrame
  BY LifeKeeps DEF NoteInv
<1>2. LifeInv'
  BY LifeStep DEF NoteInv, LifeInv, Domains, CommitNotifications
<1>3. /\ tx[r] = "open" /\ tx' = [tx EXCEPT ![r] = "committed"]
      /\ durable' = [durable EXCEPT ![r] = written[r]]
      /\ UNCHANGED <<call, stage, outcome, written>>
      /\ UNCHANGED <<projection, drafts, pending, marks, emitted>>
  BY DEF Commit, Usable, CommitNotifications
<1>4. ASSUME NEW q \in Requests
      PROVE  ProjectionOf(q)' /\ MarksOf(q)' /\ PendingOf(q)'
  <2>1. ProjectionOf(q)' /\ MarksOf(q)'
    BY <1>3 DEF NoteInv, ProjectionOf, MarksOf, Publishes
  <2>2. ASSUME tx'[q] = "open" PROVE q # r /\ tx[q] = "open"
    BY <1>3, <2>2 DEF NoteInv, LifeInv, Domains
  <2>3. ASSUME tx'[q] = "open", NEW k \in pending[q] \cup marks[q]
        PROVE  bandeja'[k] = bandeja[k]
    <3>1. k \in Keys
      BY DEF NoteInv, LifeInv, Domains
    <3>2. k \notin pending[r] /\ k \notin marks[r]
      BY <1>3, <2>2, <2>3 DEF NoteInv, PendingOf
    <3>3. QED
      BY <3>1, <3>2 DEF CommitNotifications
  <2>4. PendingOf(q)'
    <3>1. \A p \in Requests : tx'[p] = "open" => tx[p] = "open"
      BY <1>3 DEF NoteInv, LifeInv, Domains
    <3>2. QED
      BY <1>3, <2>2, <2>3, <3>1 DEF NoteInv, PendingOf
  <2>5. QED
    BY <2>1, <2>4
<1>5. StoredInv'
  <2> SUFFICES ASSUME NEW k \in Keys, bandeja'[k] # "none", k.about \in Requests
               PROVE  tx'[k.about] = "committed" /\ durable'[k.about] = call[k.about].writes
    BY <1>3 DEF StoredInv
  <2>1. CASE k \in pending[r]
    <3>1. k.about = r /\ stage[r] \in {"audit", "answered"} /\ outcome[r] = "ok"
      BY <2>1 DEF NoteInv, ProjectionOf
    <3>2. written[r] = call[r].writes
      BY <3>1 DEF NoteInv, LifeInv, StageOf
    <3>3. QED
      BY <1>3, <3>1, <3>2 DEF NoteInv, LifeInv, Domains
  <2>2. CASE k \notin pending[r]
    <3>1. bandeja[k] # "none"
      <4>1. ASSUME k \in marks[r], bandeja[k] = "none" PROVE FALSE
        BY <1>3, <4>1 DEF NoteInv, PendingOf
      <4>2. QED
        BY <2>2, <4>1 DEF CommitNotifications
    <3>2. tx[k.about] = "committed" /\ durable[k.about] = call[k.about].writes
      BY <3>1 DEF NoteInv, StoredInv
    <3>3. QED
      BY <1>1, <3>2 DEF LifeFrame
  <2>3. QED
    BY <2>1, <2>2
<1>6. RowsInv'
  <2> SUFFICES ASSUME NEW k \in Keys
               PROVE  inserted'[k] <= 1 /\ (bandeja'[k] = "none" => inserted'[k] = 0)
    BY DEF RowsInv
  <2>1. inserted[k] \in Nat /\ inserted[k] <= 1 /\ (bandeja[k] = "none" => inserted[k] = 0)
    BY DEF NoteInv, RowsInv, LifeInv, Domains
  <2>2. CASE k \in pending[r]
    <3>1. bandeja[k] = "none"
      BY <1>3, <2>2 DEF NoteInv, PendingOf
    <3>2. bandeja'[k] = "unread" /\ inserted'[k] = inserted[k] + 1
      BY <2>2 DEF CommitNotifications
    <3>3. QED
      BY <2>1, <3>1, <3>2
  <2>3. CASE k \notin pending[r]
    BY <2>1, <2>3 DEF CommitNotifications
  <2>4. QED
    BY <2>2, <2>3
<1>7. QED
  BY <1>2, <1>4, <1>5, <1>6 DEF NoteInv

(***************************************************************************)
(* Every step                                                              *)
(***************************************************************************)
\* NoteInv is inductive.
LEMMA NextKeeps == NoteInv /\ [Next]_vars => NoteInv'
<1> SUFFICES ASSUME NoteInv, [Next]_vars PROVE NoteInv'
  OBVIOUS
<1>1. ASSUME UNCHANGED vars PROVE NoteInv'
  BY <1>1
  DEF vars, lifecycleVars, notificationVars, NoteInv, LifeInv, Domains, StageOf, EndOf, AuditOf,
      ProjectionOf, MarksOf, PendingOf, StoredInv, RowsInv, Publishes
<1>2. ASSUME NEW r \in Requests,
             \/ Arrive(r) \/ Close(r) \/ Expire(r)
             \/ Connect(r) \/ Unserved(r) \/ RefuseInGuard(r) \/ WriteStatement(r)
             \/ RefuseInHandler(r) \/ FailStatement(r)
             \/ RecordAudit(r) \/ Finish(r)
             \/ CommitInVain(r) \/ RollBack(r)
             \/ RunAfterRollback(r) \/ LoseAfterRollback(r),
             UNCHANGED notificationVars
      PROVE  NoteInv'
  <2>1. LifeFrame
    BY <1>2, LifeKeeps DEF NoteInv
  <2>2. LifeInv'
    BY <1>2, LifeStep DEF NoteInv, LifeInv, Domains, notificationVars
  <2>3. QED
    BY <1>2, <2>1, <2>2, QuietNotes
<1>3. ASSUME NEW r \in Requests, Environment(r) PROVE NoteInv'
  BY <1>2, <1>3 DEF Environment
<1>4. ASSUME NEW r \in Requests, Handle(r) PROVE NoteInv'
  BY <1>2, <1>4, InboxKeeps, FinishHandlerKeeps DEF Handle
<1>5. ASSUME NEW r \in Requests, End(r) PROVE NoteInv'
  BY <1>2, <1>5, CommitKeeps DEF End
<1>6. ASSUME NEW r \in Requests, AfterRollback(r) PROVE NoteInv'
  BY <1>2, <1>6 DEF AfterRollback
<1>7. ASSUME NEW u \in Listeners, Realtime(u) PROVE NoteInv'
  <2>1. UNCHANGED <<requestVars, notificationVars>>
    BY <1>7 DEF Realtime
  <2>2. joining' \subseteq Listeners
    BY <1>7 DEF Realtime, Handshake, HandshakeEnds, NoteInv, LifeInv, Domains
  <2>3. LifeInv'
    BY <2>1, <2>2
    DEF NoteInv, LifeInv, Domains, StageOf, EndOf, AuditOf, requestVars, notificationVars
  <2>4. LifeFrame
    BY <2>1 DEF LifeFrame, requestVars
  <2>5. QED
    BY <2>1, <2>3, <2>4, QuietNotes
<1>8. QED
  BY <1>1, <1>3, <1>4, <1>5, <1>6, <1>7, ProjectKeeps DEF Next, Proceed

\* The inductive invariant holds in every reachable state.
THEOREM NotesInductive == Spec => []NoteInv
BY NoteInit, NextKeeps, PTL DEF Spec

(***************************************************************************)
(* The properties                                                          *)
(***************************************************************************)
\* The variables stay in their domains, and no handler of a request executes more
\* statements than its command has.
THEOREM TypesHold == Spec => []TypeOK
<1>1. NoteInv => TypeOK
  <2> SUFFICES ASSUME NoteInv PROVE TypeOK
    OBVIOUS
  <2>1. \A r \in Requests : written[r] <= (IF call[r] = None THEN 0 ELSE call[r].writes)
    BY NoneAssumption DEF NoteInv, LifeInv, Domains, StageOf
  <2>2. QED
    BY <2>1 DEF NoteInv, LifeInv, Domains, TypeOK
<1>2. QED
  BY <1>1, NotesInductive, PTL

\* A request that was answered with an error has stored nothing, and nobody has a
\* notification about it: the status was set before the response ended, so the
\* middleware rolls back handler and projector together.
THEOREM RefusalsStoreNothing == Spec => []RefusalsLeaveNothing
<1>1. NoteInv => RefusalsLeaveNothing
  <2> SUFFICES ASSUME NoteInv, NEW r \in Requests,
                      response[r] = "finished", outcome[r] = "error"
               PROVE  durable[r] = 0 /\ \A u \in Users : bandeja[[about |-> r, to |-> u]] = "none"
    BY DEF RefusalsLeaveNothing
  <2>1. tx[r] # "committed" /\ durable[r] = 0
    BY DEF NoteInv, LifeInv, EndOf
  <2>2. \A u \in Users : [about |-> r, to |-> u] \in Keys /\ [about |-> r, to |-> u].about = r
    BY DEF Keys
  <2>3. QED
    BY <2>1, <2>2 DEF NoteInv, StoredInv
<1>2. QED
  BY <1>1, NotesInductive, PTL

\* The audit row is written in the transaction or by the task after its rollback,
\* never by both, in whatever order answer, commit and task come.
THEOREM AuditedOnce == Spec => []AuditedAtMostOnce
<1>1. NoteInv => AuditedAtMostOnce
  BY DEF NoteInv, LifeInv, AuditOf, AuditedAtMostOnce
<1>2. QED
  BY <1>1, NotesInductive, PTL

\* INSERT ... ON CONFLICT DO NOTHING waits for every transaction that has the key
\* in hand, so a key is never stored twice, however many projectors draft it.
THEOREM KeysHaveOneRow == Spec => []OneRowPerKey
<1>1. NoteInv => OneRowPerKey
  BY DEF NoteInv, RowsInv, OneRowPerKey
<1>2. QED
  BY <1>1, NotesInductive, PTL

\* A notification about the event of a request is stored only with everything that
\* request wrote, although the projector runs next to its answer and its commit.
THEOREM OnlyConfirmedEvents == Spec => []NotificationsOfConfirmed
<1>1. NoteInv => NotificationsOfConfirmed
  <2> SUFFICES ASSUME NoteInv, NEW r \in Requests, NEW u \in Users,
                      bandeja[[about |-> r, to |-> u]] # "none"
               PROVE  tx[r] = "committed" /\ durable[r] = call[r].writes
    BY DEF NotificationsOfConfirmed
  <2>1. [about |-> r, to |-> u] \in Keys /\ [about |-> r, to |-> u].about = r
    BY DEF Keys
  <2>2. QED
    BY <2>1 DEF NoteInv, StoredInv
<1>2. QED
  BY <1>1, NotesInductive, PTL

\* A notification stops being unread only by the commit of a request of its owner.
THEOREM InboxesArePrivate == Spec => InboxIsPrivate
<1>1. ASSUME NoteInv, [Next]_vars, NEW k \in Keys, bandeja[k] = "unread", bandeja'[k] # "unread"
      PROVE  \E r \in Requests : tx[r] = "open" /\ tx'[r] = "committed" /\ call[r].actor = k.to
  <2>1. PICK r \in Requests : Commit(r) /\ CommitNotifications(r)
    <3>1. bandeja' # bandeja
      BY <1>1
    <3>2. ~ UNCHANGED notificationVars
      BY <3>1 DEF notificationVars
    <3>3. ~ UNCHANGED vars
      BY <3>2 DEF vars
    <3>4. ASSUME NEW r \in Requests, Environment(r) \/ Proceed(r)
          PROVE  Commit(r) /\ CommitNotifications(r)
      <4>1. ~Project(r)
        BY <3>1
        DEF Project, ProjectorFails, ProjectDrafts, ProjectWait, ProjectInsert, ProjectEmit
      <4>2. ~Handle(r)
        BY <3>1, <3>2 DEF Handle, InboxStatement
      <4>3. QED
        BY <3>2, <3>4, <4>1, <4>2 DEF Environment, Proceed, End, AfterRollback
    <3>5. \A u \in Listeners : ~Realtime(u)
      BY <3>2 DEF Realtime
    <3>6. QED
      BY <1>1, <3>3, <3>4, <3>5 DEF Next
  <2>2. k \in marks[r]
    BY <1>1, <2>1 DEF CommitNotifications
  <2>3. tx[r] = "open" /\ tx'[r] = "committed"
    BY <1>1, <2>1 DEF Commit, Usable, NoteInv, LifeInv, Domains
  <2>4. QED
    BY <1>1, <2>2, <2>3 DEF NoteInv, MarksOf
<1>2. NoteInv /\ [Next]_vars =>
        [\A k \in Keys : bandeja[k] = "unread" /\ bandeja'[k] # "unread" =>
           \E r \in Requests : tx[r] = "open" /\ tx'[r] = "committed" /\ call[r].actor = k.to]_vars
  BY <1>1
<1>3. QED
  BY <1>2, NotesInductive, PTL DEF Spec, InboxIsPrivate

(***************************************************************************)
(* The promise to a client that stays                                      *)
(***************************************************************************)
\* A client that stays never closes its connection first.
Stays == \A r \in Patient : response[r] # "closed"

ToldTo(r) ==
  IF stage[r] = "unserved" THEN "refused"
  ELSE IF response[r] = "pending" THEN "nothing"
  ELSE IF outcome[r] = "ok" THEN "done" ELSE "refused"

StoredOf(r) ==
  IF durable[r] = 0 THEN "nothing"
  ELSE IF durable[r] = call[r].writes THEN "all" ELSE "part"

\* What one step may do to the promise made to r.
Kept(r) ==
  \/ ToldTo(r)' = ToldTo(r) /\ StoredOf(r)' = StoredOf(r)
  \/ ToldTo(r) = "nothing" /\ ToldTo(r)' = "done" /\ StoredOf(r)' = StoredOf(r)
  \/ /\ ToldTo(r) = "nothing" /\ StoredOf(r) = "nothing"
     /\ ToldTo(r)' = "refused" /\ StoredOf(r)' = StoredOf(r)
  \/ /\ ToldTo(r) # "refused" /\ StoredOf(r) = "nothing"
     /\ StoredOf(r)' = "all" /\ ToldTo(r)' = ToldTo(r)

\* Every step in a request's life keeps the promise to its client and leaves the
\* others alone.
LEMMA RequestKeepsPromise ==
  ASSUME LifeInv, Stays, NEW r \in Requests,
         \/ Arrive(r) \/ Close(r) \/ Expire(r)
         \/ Connect(r) \/ Unserved(r) \/ RefuseInGuard(r) \/ WriteStatement(r)
         \/ RefuseInHandler(r) \/ FailStatement(r) \/ FinishHandler(r)
         \/ RecordAudit(r) \/ Finish(r)
         \/ Commit(r) \/ CommitInVain(r) \/ RollBack(r)
         \/ RunAfterRollback(r) \/ LoseAfterRollback(r)
  PROVE  /\ Stays'
         /\ \A q \in Requests \ {r} : ToldTo(q)' = ToldTo(q) /\ StoredOf(q)' = StoredOf(q)
         /\ r \in Patient => Kept(r)
<1> USE DEF LifeInv, Domains, Stages, TxStates, StageOf, EndOf, Stays, Patient,
            ToldTo, StoredOf, Kept
<1>1. CASE Arrive(r)
  BY <1>1 DEF Arrive
<1>2. CASE Close(r)
  BY <1>2 DEF Close
<1>3. CASE Expire(r)
  BY <1>3 DEF Expire, Holding
<1>4. CASE Connect(r)
  BY <1>4 DEF Connect
<1>5. CASE Unserved(r)
  BY <1>5 DEF Unserved
<1>6. CASE RefuseInGuard(r) \/ WriteStatement(r)
  BY <1>6 DEF RefuseInGuard, WriteStatement
<1>7. CASE RefuseInHandler(r) \/ FailStatement(r) \/ FinishHandler(r)
  BY <1>7 DEF RefuseInHandler, FailStatement, FinishHandler, EndHandler, Usable
<1>8. CASE RecordAudit(r)
  BY <1>8 DEF RecordAudit
<1>9. CASE Finish(r)
  BY <1>9 DEF Finish
<1>10. CASE Commit(r)
  BY <1>10 DEF Commit, Completed, Usable, StatusCode
<1>11. CASE CommitInVain(r) \/ RollBack(r)
  BY <1>11 DEF CommitInVain, RollBack, Completed, Usable
<1>12. CASE RunAfterRollback(r) \/ LoseAfterRollback(r)
  BY <1>12 DEF RunAfterRollback, LoseAfterRollback
<1>13. QED
  BY <1>1, <1>2, <1>3, <1>4, <1>5, <1>6, <1>7, <1>8, <1>9, <1>10, <1>11, <1>12

\* Every step of the system is a step of AtomicRequest or changes nothing of it.
LEMMA NextKeepsPromise ==
  ASSUME NoteInv, Stays, [Next]_vars
  PROVE  Stays' /\ [Promise!Next]_(Promise!vars)
<1>1. CASE UNCHANGED lifecycleVars \/ UNCHANGED requestVars
  BY <1>1 DEF lifecycleVars, requestVars, Stays, Promise!vars
<1>2. ASSUME NEW r \in Requests,
             \/ Arrive(r) \/ Close(r) \/ Expire(r)
             \/ Connect(r) \/ Unserved(r) \/ RefuseInGuard(r) \/ WriteStatement(r)
             \/ RefuseInHandler(r) \/ FailStatement(r) \/ FinishHandler(r)
             \/ RecordAudit(r) \/ Finish(r)
             \/ Commit(r) \/ CommitInVain(r) \/ RollBack(r)
             \/ RunAfterRollback(r) \/ LoseAfterRollback(r)
      PROVE  Stays' /\ [Promise!Next]_(Promise!vars)
  <2>1. /\ Stays'
        /\ \A q \in Requests \ {r} : ToldTo(q)' = ToldTo(q) /\ StoredOf(q)' = StoredOf(q)
        /\ r \in Patient => Kept(r)
    BY <1>2, RequestKeepsPromise DEF NoteInv
  <2> DEFINE told == [q \in Patient |-> ToldTo(q)]
             stored == [q \in Patient |-> StoredOf(q)]
  <2>2. CASE r \notin Patient
    <3>1. told' = told /\ stored' = stored
      BY <2>1, <2>2 DEF Patient
    <3>2. QED
      BY <2>1, <3>1 DEF Promise!vars, ToldTo, StoredOf
  <2>3. CASE r \in Patient
    <3>1. /\ told' = [told EXCEPT ![r] = ToldTo(r)']
          /\ stored' = [stored EXCEPT ![r] = StoredOf(r)']
          /\ told[r] = ToldTo(r) /\ stored[r] = StoredOf(r)
      BY <2>1, <2>3 DEF Patient
    <3>2. \/ told' = told /\ stored' = stored
          \/ told[r] = "nothing" /\ told' = [told EXCEPT ![r] = "done"] /\ stored' = stored
          \/ /\ told[r] = "nothing" /\ stored[r] = "nothing"
             /\ told' = [told EXCEPT ![r] = "refused"] /\ stored' = stored
          \/ /\ told[r] # "refused" /\ stored[r] = "nothing"
             /\ stored' = [stored EXCEPT ![r] = "all"] /\ told' = told
      <4>1. [told EXCEPT ![r] = told[r]] = told /\ [stored EXCEPT ![r] = stored[r]] = stored
        OBVIOUS
      <4> HIDE DEF told, stored
      <4>2. QED
        BY <2>1, <2>3, <3>1, <4>1 DEF Kept
    <3>3. QED
      BY <2>1, <2>3, <3>2
      DEF Promise!vars, Promise!Next, Promise!Accept, Promise!Refuse, Promise!Store,
          ToldTo, StoredOf
  <2>4. QED
    BY <2>2, <2>3
<1>3. QED
  BY <1>1, <1>2
  DEF Next, Environment, Proceed, Handle, InboxStatement, Project, End, AfterRollback, Realtime, vars

\* The request's transaction implements AtomicRequest for every client that stays
\* for its answer: stored whole or not at all, and never when told of a failure.
THEOREM PromiseIsKept == Spec => KeepsPromise
<1>1. Init => Stays /\ Promise!Init
  BY DEF Init, LifecycleInit, Stays, Promise!Init, Patient
<1>2. NoteInv /\ Stays /\ [Next]_vars => Stays' /\ [Promise!Next]_(Promise!vars)
  BY NextKeepsPromise
<1>3. QED
  BY <1>1, <1>2, NotesInductive, PTL DEF Spec, KeepsPromise, Promise!Spec
===============================================================================

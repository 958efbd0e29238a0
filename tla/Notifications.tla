----------------------------- MODULE Notifications -----------------------------
(***************************************************************************)
(* Requests that publish events, the projector that turns an event into    *)
(* stored notifications, and the inbox of each user.                       *)
(*                                                                         *)
(* SocketIoEventPublisher starts the projector and does not await it.  Its *)
(* statements run on the request's transaction, next to the interceptors,  *)
(* the answer and the commit, under the row policies of the request's      *)
(* actor: it inserts for everybody and reads back only what is the actor's.*)
(***************************************************************************)
EXTENDS RequestLifecycle

CONSTANTS
  Sellers, Admins,     \* users with an active membership
  Milestone            \* thresholdSalesCount of parameter notifications.sales_milestone

ASSUME UsersAssumption == Sellers \cap Admins = {}
ASSUME MilestoneAssumption == Milestone \in Nat \ {0}
ASSUME SellersAssumption ==
  \A c \in Calls : c.kind = "sale" => c.seller \in Sellers \cup Admins
ASSUME AboutAssumption == {"milestone", "winner"} \cap Requests = {}

VARIABLES
  projection,   \* how far the projector is with the event of a request
  drafts,       \* the deduplication keys it has drafted
  pending,      \* the keys its INSERT added, until the transaction ends
  marks,        \* notifications that an inbox request has locked to read or delete
  bandeja,      \* committed notifications: none, unread, read
  inserted,     \* rows ever committed for a key and not deleted since
  emitted       \* times notifications.created went to the owner's room for a key

notificationVars == <<projection, drafts, pending, marks, bandeja, inserted, emitted>>
vars == <<lifecycleVars, notificationVars>>

Users == Sellers \cup Admins

\* dedup_key: milestone and winner keys are the same for every event about them;
\* any other notification carries the id of its event.
Keys == [about : {"milestone", "winner"} \cup Requests, to : Users]

NotificationInit ==
  /\ projection = [r \in Requests |-> "none"]
  /\ drafts     = [r \in Requests |-> {}]
  /\ pending    = [r \in Requests |-> {}]
  /\ marks      = [r \in Requests |-> {}]
  /\ bandeja    = [k \in Keys |-> "none"]
  /\ inserted   = [k \in Keys |-> 0]
  /\ emitted    = [k \in Keys |-> 0]

Asks(r, kind) == call[r] # None /\ call[r].kind = kind
Publishes(r) == call[r].kind \in {"sale", "result", "news"}
Inbox(r) == call[r] # None /\ call[r].kind \in {"readAll", "read", "delete"}

(***************************************************************************)
(* The projector                                                           *)
(***************************************************************************)
\* Active sales of the request's seller that its transaction sees.
SalesSeen(r) ==
  {q \in Requests : Asks(q, "sale") /\ call[q].seller = call[r].seller /\ (durable[q] > 0 \/ q = r)}

SellersWithSales == {call[q].seller : q \in {p \in Requests : Asks(p, "sale") /\ durable[p] > 0}}

Notify(about, users) == [about : {about}, to : users]

\* buildDrafts.
Drafts(r) ==
  CASE Asks(r, "sale") ->
         IF Cardinality(SalesSeen(r)) >= Milestone
           THEN Notify("milestone", {call[r].seller} \cup Admins) ELSE {}
    [] Asks(r, "result") -> Notify(r, Sellers) \cup Notify("winner", SellersWithSales)
    [] Asks(r, "news")   -> Notify(r, Sellers)

Start(r) == projection' = [projection EXCEPT ![r] = IF Publishes(r) THEN "started" ELSE @]

\* On a transaction that has ended every statement of the projector fails; the
\* publisher logs it and nobody is told.
ProjectorFails(r) ==
  /\ projection[r] \in {"started", "drafted", "inserted"}
  /\ ~Usable(r)
  /\ projection' = [projection EXCEPT ![r] = "done"]
  /\ UNCHANGED <<drafts, pending, marks, bandeja, inserted, emitted>>

ProjectDrafts(r) ==
  /\ projection[r] = "started"
  /\ Usable(r)
  /\ drafts' = [drafts EXCEPT ![r] = Drafts(r)]
  /\ projection' = [projection EXCEPT ![r] = IF Drafts(r) = {} THEN "done" ELSE "drafted"]
  /\ UNCHANGED <<pending, marks, bandeja, inserted, emitted>>

\* Keys another open transaction has inserted, or rows it is deleting.
Contended(r) ==
  UNION {pending[q] \cup marks[q] : q \in {p \in Requests \ {r} : Usable(p)}}

\* INSERT ... ON CONFLICT DO NOTHING waits for whoever may still add the key.
ProjectWait(r) ==
  /\ projection[r] = "drafted"
  /\ Usable(r)
  /\ drafts[r] \cap Contended(r) # {}
  /\ projection' = [projection EXCEPT ![r] = "waiting"]
  /\ UNCHANGED <<drafts, pending, marks, bandeja, inserted, emitted>>

\* Mutant: the keys are checked with a SELECT, uncommitted rows are not seen.
InsertUnseen(r) ==
  /\ projection[r] \in {"drafted", "waiting"}
  /\ Usable(r)
  /\ pending' = [pending EXCEPT ![r] = {k \in drafts[r] : bandeja[k] = "none"}]
  /\ projection' = [projection EXCEPT ![r] = "inserted"]
  /\ UNCHANGED <<drafts, marks, bandeja, inserted, emitted>>

ProjectInsert(r) ==
  /\ projection[r] \in {"drafted", "waiting"}
  /\ Usable(r)
  /\ drafts[r] \cap Contended(r) = {}
  /\ pending' = [pending EXCEPT ![r] = {k \in drafts[r] : bandeja[k] = "none"}]
  /\ projection' = [projection EXCEPT ![r] = "inserted"]
  /\ UNCHANGED <<drafts, marks, bandeja, inserted, emitted>>

\* findMany by key sees, under the policy notifications_read_own, the actor's own
\* rows, new or old; each is emitted to its owner.
ReadBack(r) ==
  {k \in drafts[r] : k.to = call[r].actor /\ (k \in pending[r] \/ bandeja[k] # "none")}

ProjectEmit(r) ==
  /\ projection[r] = "inserted"
  /\ Usable(r)
  /\ emitted' = [k \in Keys |-> IF k \in ReadBack(r) THEN emitted[k] + 1 ELSE emitted[k]]
  /\ projection' = [projection EXCEPT ![r] = "done"]
  /\ UNCHANGED <<drafts, pending, marks, bandeja, inserted>>

Project(r) ==
  /\ ProjectorFails(r) \/ ProjectDrafts(r) \/ ProjectWait(r) \/ ProjectInsert(r) \/ ProjectEmit(r)
  /\ UNCHANGED lifecycleVars

(***************************************************************************)
(* The inbox                                                               *)
(***************************************************************************)
\* Mutant: the statement lacks its condition on usuario_id.
SelectedOfAnyone(r) ==
  CASE Asks(r, "readAll") -> {{k \in Keys : bandeja[k] = "unread"}}
    [] OTHER              -> {{k} : k \in {k \in Keys : bandeja[k] # "none"}}

\* The rows an inbox statement of the actor selects: all unread ones, or one.
Selected(r) ==
  CASE Asks(r, "readAll") -> {{k \in Keys : k.to = call[r].actor /\ bandeja[k] = "unread"}}
    [] OTHER              -> {{k} : k \in {k \in Keys : k.to = call[r].actor /\ bandeja[k] # "none"}}

\* UPDATE or DELETE ... WHERE usuario_id = the actor; it waits for row locks.
InboxStatement(r) ==
  /\ Inbox(r)
  /\ WriteStatement(r)
  /\ \E rows \in Selected(r) :
       /\ rows \cap Contended(r) = {}
       /\ marks' = [marks EXCEPT ![r] = rows]
  /\ UNCHANGED <<projection, drafts, pending, bandeja, inserted, emitted>>

(***************************************************************************)
(* The request, with what its commit makes of the notifications            *)
(***************************************************************************)
\* No statement of the projector is in flight on the connection.
Idle(r) == projection[r] # "waiting"

\* What the rows become when r commits.
CommitNotifications(r) ==
  /\ bandeja' = [k \in Keys |->
       IF k \in pending[r] THEN "unread"
       ELSE IF k \in marks[r] THEN (IF Asks(r, "delete") THEN "none" ELSE "read")
       ELSE bandeja[k]]
  /\ inserted' = [k \in Keys |->
       IF k \in pending[r] THEN inserted[k] + 1
       ELSE IF k \in marks[r] /\ Asks(r, "delete") THEN 0
       ELSE inserted[k]]
  /\ UNCHANGED <<projection, drafts, pending, marks, emitted>>

Handle(r) ==
  \/ /\ \/ Connect(r) \/ Unserved(r) \/ RefuseInGuard(r)
        \/ WriteStatement(r) /\ ~Inbox(r)
        \/ RefuseInHandler(r) \/ FailStatement(r) \/ RecordAudit(r) \/ Finish(r)
     /\ UNCHANGED notificationVars
  \/ InboxStatement(r)
  \/ /\ FinishHandler(r)
     /\ Start(r)
     /\ UNCHANGED <<drafts, pending, marks, bandeja, inserted, emitted>>

End(r) ==
  /\ Idle(r)
  /\ \/ Commit(r) /\ CommitNotifications(r)
     \/ (CommitInVain(r) \/ RollBack(r)) /\ UNCHANGED notificationVars

AfterRollback(r) == (RunAfterRollback(r) \/ LoseAfterRollback(r)) /\ UNCHANGED notificationVars

Environment(r) ==
  /\ Arrive(r) \/ Close(r) \/ (Idle(r) /\ Expire(r))
  /\ UNCHANGED notificationVars

requestVars == <<call, stage, outcome, response, tx, written, durable, deferred, auditTx, audits>>

Realtime(u) ==
  /\ Handshake(u) \/ HandshakeEnds(u)
  /\ UNCHANGED <<requestVars, notificationVars>>

Settled == \A r \in Requests : Over(r) /\ projection[r] \in {"none", "done"}

Init == LifecycleInit /\ NotificationInit

Proceed(r) == Handle(r) \/ Project(r) \/ End(r) \/ AfterRollback(r)

Next ==
  \/ \E r \in Requests : Environment(r) \/ Proceed(r)
  \/ \E u \in Listeners : Realtime(u)
  \/ Settled /\ UNCHANGED vars

Spec == Init /\ [][Next]_vars

\* Node's event loop, PostgreSQL and the timers go on as long as any request has
\* a step to take; clients and sockets need not do anything.
FairSpec == Spec /\ WF_vars(\E r \in Requests : Proceed(r))

(***************************************************************************)
(* Properties                                                              *)
(***************************************************************************)
TypeOK ==
  /\ call \in [Requests -> Calls \cup {None}]
  /\ stage \in [Requests -> Stages]
  /\ outcome \in [Requests -> {None, "ok", "error"}]
  /\ response \in [Requests -> {"pending", "finished", "closed"}]
  /\ tx \in [Requests -> TxStates]
  /\ written \in [Requests -> Nat]
  /\ \A r \in Requests : written[r] <= (IF call[r] = None THEN 0 ELSE call[r].writes)
  /\ durable \in [Requests -> Nat]
  /\ deferred \in [Requests -> {"no", "registered", "due", "done"}]
  /\ auditTx \in [Requests -> {0, 1}] /\ audits \in [Requests -> Nat]
  /\ joining \subseteq Listeners
  /\ projection \in [Requests -> {"none", "started", "drafted", "waiting", "inserted", "done"}]
  /\ drafts \in [Requests -> SUBSET Keys] /\ pending \in [Requests -> SUBSET Keys]
  /\ marks \in [Requests -> SUBSET Keys]
  /\ bandeja \in [Keys -> {"none", "unread", "read"}]
  /\ inserted \in [Keys -> Nat] /\ emitted \in [Keys -> Nat]

\* Whoever was sent an error can repeat the request: nothing of it is stored, not
\* even what its handler or its projector had written.
RefusalsLeaveNothing ==
  \A r \in Requests :
    (response[r] = "finished" /\ outcome[r] = "error") =>
      durable[r] = 0 /\ \A u \in Users : bandeja[[about |-> r, to |-> u]] = "none"

\* The audit row of a request is written in its transaction or after its
\* rollback, never both.
AuditedAtMostOnce == \A r \in Requests : audits[r] <= 1

\* "Cada fila usa una clave de deduplicacion": whatever commits in whatever
\* order, a key has one row.
OneRowPerKey == \A k \in Keys : inserted[k] <= 1

\* Notifications are of confirmed events only: a stored notification about the
\* event of a request is there together with everything the request wrote.
NotificationsOfConfirmed ==
  \A r \in Requests, u \in Users :
    bandeja[[about |-> r, to |-> u]] # "none" => tx[r] = "committed" /\ durable[r] = call[r].writes

\* A notification is marked as read, or deleted, by its owner only.
InboxIsPrivate ==
  [][\A k \in Keys : bandeja[k] = "unread" /\ bandeja'[k] # "unread" =>
       \E r \in Requests : tx[r] = "open" /\ tx'[r] = "committed" /\ call[r].actor = k.to]_vars

\* Whatever fails, a request that was given a connection gives it back, and is
\* followed by its audit tasks: the pool never runs dry for good.
ConnectionsReturn == \A r \in Requests : (stage[r] # "idle") ~> Over(r)

\* A client that stays for its answer has its request stored whole or not at
\* all, and not at all when it was told of a failure.
Patient == Requests \ Impatient

Promise == INSTANCE AtomicRequest WITH
  Clients <- Patient,
  told <- [r \in Patient |->
             IF stage[r] = "unserved" THEN "refused"
             ELSE IF response[r] = "pending" THEN "nothing"
             ELSE IF outcome[r] = "ok" THEN "done" ELSE "refused"],
  stored <- [r \in Patient |->
             IF durable[r] = 0 THEN "nothing"
             ELSE IF durable[r] = call[r].writes THEN "all" ELSE "part"]

KeepsPromise == Promise!Spec

(***************************************************************************)
(* What documentation and tests claim                                      *)
(***************************************************************************)
\* docs/domain-concepts.md:60: when an item fails no partial sale is left.
NoPartialSale ==
  \A r \in Requests : Asks(r, "sale") => durable[r] \in {0, call[r].writes}

\* scripts/realtime-smoke.ts:335: the seller hears of the notification that an
\* administrator's request has stored for her.
RecipientsHear ==
  \A r \in Requests, u \in Users :
    (projection[r] = "done" /\ bandeja[[about |-> r, to |-> u]] # "none") =>
      emitted[[about |-> r, to |-> u]] > 0
=============================================================================

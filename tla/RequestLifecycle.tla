--------------------------- MODULE RequestLifecycle ---------------------------
(***************************************************************************)
(* The life of one authenticated HTTP request, closer than in              *)
(* RequestTransaction: the pool of connections, the guard, the handler's   *)
(* statements, the audit interceptor, the answer, the two events of a      *)
(* response ('finish' and 'close') that end its transaction, and the tasks *)
(* that run after a rollback.                                              *)
(*                                                                         *)
(* Node and PostgreSQL are two parties: `stage` is how far Node is with    *)
(* the request, `tx` what has become of its transaction.  Neither waits    *)
(* for the other when a client hangs up or a transaction expires.          *)
(***************************************************************************)
EXTENDS Naturals, FiniteSets

CONSTANTS
  Requests,    \* the authenticated requests of a behaviour
  Calls,       \* what a request may ask: records with at least writes and audited
  PoolSize,    \* DATABASE_POOL_MAX
  Impatient,   \* bound: the requests whose client may hang up before the answer
  Slow,        \* bound: the requests whose transaction may outlive its 30 s
  Listeners,   \* bound: the users who open a realtime socket
  None         \* no call yet, no outcome yet

ASSUME PoolAssumption == PoolSize \in Nat \ {0}
ASSUME CallsAssumption == \A c \in Calls : c.writes \in Nat /\ c.audited \in BOOLEAN
ASSUME NoneAssumption == None \notin Calls /\ None \notin {"ok", "error"}

VARIABLES
  call,        \* the request's route and command
  stage,       \* where Node is with the request
  outcome,     \* what its handler came to: ok or error
  response,    \* the event that resolved `completed`: finished, closed, or pending
  tx,          \* the request's transaction in PostgreSQL
  written,     \* statements of the handler that the transaction has executed
  durable,     \* statements of the handler that are committed
  deferred,    \* the audit registered a task for after a rollback
  auditTx,     \* the transaction holds an audit row
  audits,      \* committed audit rows of the request
  joining      \* the users whose realtime handshake is under way

lifecycleVars ==
  <<call, stage, outcome, response, tx, written, durable, deferred, auditTx, audits, joining>>

Stages == {"idle", "queued", "handler", "audit", "answered", "unserved"}
TxStates == {"none", "open", "aborted", "expired", "committed", "rolledback"}

LifecycleInit ==
  /\ call     = [r \in Requests |-> None]
  /\ stage    = [r \in Requests |-> "idle"]
  /\ outcome  = [r \in Requests |-> None]
  /\ response = [r \in Requests |-> "pending"]
  /\ tx       = [r \in Requests |-> "none"]
  /\ written  = [r \in Requests |-> 0]
  /\ durable  = [r \in Requests |-> 0]
  /\ deferred = [r \in Requests |-> "no"]
  /\ auditTx  = [r \in Requests |-> 0]
  /\ audits   = [r \in Requests |-> 0]
  /\ joining  = {}

\* An open or aborted transaction, and the handshake of a socket, each occupy a
\* connection of the pool.
Holding(r) == tx[r] \in {"open", "aborted"}
Free ==
  PoolSize - Cardinality({r \in Requests : Holding(r)})
           - Cardinality(joining)

\* A statement of r can still succeed.
Usable(r) == tx[r] = "open"

\* response.statusCode, which is 200 until somebody sets it.
StatusCode(r) == IF stage[r] = "answered" THEN outcome[r] ELSE "ok"

(***************************************************************************)
(* Arrival, connection, guard                                              *)
(***************************************************************************)
Arrive(r) ==
  /\ stage[r] = "idle"
  /\ stage' = [stage EXCEPT ![r] = "queued"]
  /\ \E c \in Calls : call' = [call EXCEPT ![r] = c]
  /\ UNCHANGED <<outcome, response, tx, written, durable, deferred, auditTx, audits, joining>>

\* BEGIN, SET LOCAL ROLE, next(): the guard's reads are the handler's first.
Connect(r) ==
  /\ stage[r] = "queued"
  /\ Free > 0
  /\ stage' = [stage EXCEPT ![r] = "handler"]
  /\ tx' = [tx EXCEPT ![r] = "open"]
  /\ UNCHANGED <<call, outcome, response, written, durable, deferred, auditTx, audits, joining>>

\* maxWait is over: the request fails before any handler has seen it.
Unserved(r) ==
  /\ stage[r] = "queued"
  /\ Free = 0
  /\ stage' = [stage EXCEPT ![r] = "unserved"]
  /\ UNCHANGED <<call, outcome, response, tx, written, durable, deferred, auditTx, audits, joining>>

\* The guards find no membership, module or permission, or no transaction any
\* more; the interceptors, and so the audit, never run.
RefuseInGuard(r) ==
  /\ stage[r] = "handler"
  /\ written[r] = 0
  /\ stage' = [stage EXCEPT ![r] = "answered"]
  /\ outcome' = [outcome EXCEPT ![r] = "error"]
  /\ UNCHANGED <<call, response, tx, written, durable, deferred, auditTx, audits, joining>>

(***************************************************************************)
(* Handler                                                                 *)
(***************************************************************************)
\* Mutant: the loop over the items runs one too far.
WriteBeyond(r) ==
  /\ stage[r] = "handler"
  /\ Usable(r)
  /\ written[r] <= call[r].writes
  /\ written' = [written EXCEPT ![r] = @ + 1]
  /\ UNCHANGED <<call, stage, outcome, response, tx, durable, deferred, auditTx, audits, joining>>

WriteStatement(r) ==
  /\ stage[r] = "handler"
  /\ Usable(r)
  /\ written[r] < call[r].writes
  /\ written' = [written EXCEPT ![r] = @ + 1]
  /\ UNCHANGED <<call, stage, outcome, response, tx, durable, deferred, auditTx, audits, joining>>

\* The handler ends; the audit interceptor sees how.
EndHandler(r, result) ==
  /\ stage[r] = "handler"
  /\ stage' = [stage EXCEPT ![r] = "audit"]
  /\ outcome' = [outcome EXCEPT ![r] = result]
  /\ UNCHANGED <<call, response, written, durable, deferred, auditTx, audits, joining>>

\* A use case answers with a failure; the transaction is still sound.
RefuseInHandler(r) == EndHandler(r, "error") /\ UNCHANGED tx

\* A statement fails: a constraint or a trigger aborts the transaction, or the
\* transaction has already ended under the handler.
FailStatement(r) ==
  /\ EndHandler(r, "error")
  /\ tx' = [tx EXCEPT ![r] = IF Usable(r) THEN "aborted" ELSE @]

\* Mutant: the use case does not await its last statement.
FinishUnawaited(r) == EndHandler(r, "ok") /\ UNCHANGED tx

\* Its last statement is done: the use case publishes its event and returns.
FinishHandler(r) ==
  /\ EndHandler(r, "ok")
  /\ written[r] = call[r].writes
  /\ UNCHANGED tx

(***************************************************************************)
(* Audit and answer                                                        *)
(***************************************************************************)
\* RecordAuditEventUseCase inside the request: a row in the transaction, and a
\* task that writes it again should the transaction be rolled back.  When the
\* INSERT fails, nothing is registered and only a warning is logged.  Then, with
\* no other event in between, the status is set and the body sent.
RecordAudit(r) ==
  /\ stage[r] = "audit"
  /\ stage' = [stage EXCEPT ![r] = "answered"]
  /\ IF call[r].audited /\ Usable(r)
       THEN /\ auditTx'  = [auditTx EXCEPT ![r] = 1]
            /\ deferred' = [deferred EXCEPT ![r] = "registered"]
       ELSE UNCHANGED <<auditTx, deferred>>
  /\ UNCHANGED <<call, outcome, response, tx, written, durable, audits, joining>>

\* Event 'finish': the whole answer was handed to the socket.
Finish(r) ==
  /\ stage[r] = "answered"
  /\ response[r] = "pending"
  /\ response' = [response EXCEPT ![r] = "finished"]
  /\ UNCHANGED <<call, stage, outcome, tx, written, durable, deferred, auditTx, audits, joining>>

\* Event 'close' without 'finish': the client hung up, whatever Node is doing.
Close(r) ==
  /\ r \in Impatient
  /\ stage[r] \notin {"idle", "unserved"}
  /\ response[r] = "pending"
  /\ response' = [response EXCEPT ![r] = "closed"]
  /\ UNCHANGED <<call, stage, outcome, tx, written, durable, deferred, auditTx, audits, joining>>

(***************************************************************************)
(* The end of the transaction                                              *)
(***************************************************************************)
\* timeout: 30000 - the transaction is rolled back under the handler.
Expire(r) ==
  /\ r \in Slow
  /\ Holding(r)
  /\ tx' = [tx EXCEPT ![r] = "expired"]
  /\ UNCHANGED <<call, stage, outcome, response, written, durable, deferred, auditTx, audits, joining>>

\* Mutant: only 'finish' is listened to.
FinishedOnly(r) == response[r] = "finished" /\ tx[r] \in {"open", "aborted", "expired"}

\* `completed` has resolved and the callback goes on with the status it finds.
Completed(r) == response[r] # "pending" /\ tx[r] \in {"open", "aborted", "expired"}

\* Mutant: only an internal error rolls back, a refusal commits.
CommitRefusals(r) ==
  /\ Completed(r)
  /\ Usable(r)
  /\ tx' = [tx EXCEPT ![r] = "committed"]
  /\ durable' = [durable EXCEPT ![r] = written[r]]
  /\ audits' = [audits EXCEPT ![r] = @ + auditTx[r]]
  /\ UNCHANGED <<call, stage, outcome, response, written, deferred, auditTx, joining>>

\* Status < 400 and nothing failed in the database.
Commit(r) ==
  /\ Completed(r)
  /\ Usable(r)
  /\ StatusCode(r) = "ok"
  /\ tx' = [tx EXCEPT ![r] = "committed"]
  /\ durable' = [durable EXCEPT ![r] = written[r]]
  /\ audits' = [audits EXCEPT ![r] = @ + auditTx[r]]
  /\ UNCHANGED <<call, stage, outcome, response, written, deferred, auditTx, joining>>

\* Status < 400, but the COMMIT finds an aborted or expired transaction.
CommitInVain(r) ==
  /\ Completed(r)
  /\ ~Usable(r)
  /\ StatusCode(r) = "ok"
  /\ tx' = [tx EXCEPT ![r] = "rolledback"]
  /\ UNCHANGED <<call, stage, outcome, response, written, durable, deferred, auditTx, audits, joining>>

\* Status >= 400: RequestRollback carries the registered tasks out.
RollBack(r) ==
  /\ Completed(r)
  /\ StatusCode(r) = "error"
  /\ tx' = [tx EXCEPT ![r] = "rolledback"]
  /\ deferred' = [deferred EXCEPT ![r] = IF @ = "registered" THEN "due" ELSE @]
  /\ UNCHANGED <<call, stage, outcome, response, written, durable, auditTx, audits, joining>>

\* Mutant: the tasks run when the answer is an error, rolled back or not.
RunRegisteredTask(r) ==
  /\ deferred[r] = "registered"
  /\ Free > 0
  /\ deferred' = [deferred EXCEPT ![r] = "done"]
  /\ audits' = [audits EXCEPT ![r] = @ + 1]
  /\ UNCHANGED <<call, stage, outcome, response, tx, written, durable, auditTx, joining>>

\* runInIndependentTenantTransaction, on a connection of its own.
RunAfterRollback(r) ==
  /\ deferred[r] = "due"
  /\ Free > 0
  /\ deferred' = [deferred EXCEPT ![r] = "done"]
  /\ audits' = [audits EXCEPT ![r] = @ + 1]
  /\ UNCHANGED <<call, stage, outcome, response, tx, written, durable, auditTx, joining>>

\* No connection within maxWait: the task's error is logged, the row is lost.
LoseAfterRollback(r) ==
  /\ deferred[r] = "due"
  /\ Free = 0
  /\ deferred' = [deferred EXCEPT ![r] = "done"]
  /\ UNCHANGED <<call, stage, outcome, response, tx, written, durable, auditTx, audits, joining>>

(***************************************************************************)
(* RealtimeGateway: a handshake resolves the identity in a transaction of  *)
(* its own before the socket joins the rooms of its user                   *)
(***************************************************************************)
Handshake(u) ==
  /\ u \notin joining
  /\ Free > 0
  /\ joining' = joining \cup {u}

\* The socket joins its rooms and is ready, or its token is refused.
HandshakeEnds(u) ==
  /\ u \in joining
  /\ joining' = joining \ {u}

\* Nothing is left to do for r.
Over(r) ==
  \/ stage[r] = "unserved"
  \/ stage[r] = "answered" /\ tx[r] \in {"committed", "rolledback"} /\ deferred[r] # "due"
=============================================================================

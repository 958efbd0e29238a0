------------------------- MODULE RequestTransaction -------------------------
(***************************************************************************)
(* One HTTP request is one database transaction.                           *)
(*                                                                         *)
(* TenantTransactionMiddleware opens an interactive READ COMMITTED         *)
(* transaction before the handler runs, waits for the response to finish   *)
(* and only then commits (status < 400) or rolls back (status >= 400).     *)
(* The answer therefore leaves the server BEFORE the commit.               *)
(*                                                                         *)
(* Every lock a statement takes - an advisory lock, the row lock of an     *)
(* UPDATE, the key of an uncommitted INSERT into a unique index - is kept  *)
(* until the transaction ends, so one table of held resources stands for   *)
(* all three.  The components (DrawShifts, NumberRules, Sales, Prizes)     *)
(* EXTEND this module and supply the handlers' steps.                      *)
(***************************************************************************)
EXTENDS Naturals, Sequences

CONSTANTS
  Requests,      \* the requests of a behaviour; each is received at most once
  Kind,          \* which handler the router gives each request to
  Fallible,      \* bound: the requests whose transaction may time out or be lost
  None           \* a null column, an absent row, a command not yet received

VARIABLES
  phase,         \* where the request and its transaction are
  cmd,           \* the validated command of the request
  done,          \* items of the command already handled by its loop
  held           \* resources the transaction holds until it ends

txVars == <<phase, cmd, done, held>>

Running  == {"reading", "writing", "responding"}
Finished == {"committed", "rolledback", "lost"}
Phases   == {"idle"} \cup Running \cup {"acked"} \cup Finished

RequestsOf(kind) == {r \in Requests : Kind[r] = kind}

\* The transaction is open in the database.
Live(r) == phase[r] \in Running \cup {"acked"}

\* The client has its 2xx answer, and the use case has published its event.
Answered(r) == phase[r] \in {"acked", "committed", "lost"}

TxInit ==
  /\ phase = [r \in Requests |-> "idle"]
  /\ cmd   = [r \in Requests |-> None]
  /\ done  = [r \in Requests |-> 0]
  /\ held  = [r \in Requests |-> {}]

(***************************************************************************)
(* Steps of a request, for the handlers to be written with                 *)
(***************************************************************************)

\* runInRequestTransaction: BEGIN, SET LOCAL ROLE, then the handler starts with
\* its checks ("reading") or, when it has none, with its first write.
Receive(r, commands, first) ==
  /\ phase[r] = "idle"
  /\ phase' = [phase EXCEPT ![r] = first]
  /\ \E c \in commands : cmd' = [cmd EXCEPT ![r] = c]
  /\ UNCHANGED <<done, held>>

MoveTo(r, next) ==
  /\ phase' = [phase EXCEPT ![r] = next]
  /\ UNCHANGED <<cmd, held>>

\* Mutant: the locks belong to the session and outlive the transaction.
RollbackKeepsLocks(r) ==
  /\ phase' = [phase EXCEPT ![r] = "rolledback"]
  /\ UNCHANGED <<cmd, done, held>>

\* An error: the response is >= 400 and the transaction is rolled back.
Rollback(r) ==
  /\ phase' = [phase EXCEPT ![r] = "rolledback"]
  /\ held'  = [held EXCEPT ![r] = {}]
  /\ UNCHANGED <<cmd, done>>

\* Nobody else holds any of these resources.
Available(r, resources) ==
  \A other \in Requests \ {r} : held[other] \cap resources = {}

\* A statement that takes its locks and succeeds.
Write(r, resources, next) ==
  /\ phase' = [phase EXCEPT ![r] = next]
  /\ held'  = [held EXCEPT ![r] = @ \cup resources]
  /\ UNCHANGED cmd

\* The use case publishes its event, the interceptors write the 2xx answer.
Respond(r) ==
  /\ phase[r] = "responding"
  /\ MoveTo(r, "acked")
  /\ UNCHANGED done

\* The 'finish' event of the response lets the transaction callback return.
EndCommitted(r) ==
  /\ phase[r] = "acked"
  /\ phase' = [phase EXCEPT ![r] = "committed"]
  /\ held'  = [held EXCEPT ![r] = {}]
  /\ UNCHANGED <<cmd, done>>

\* The 30 s limit of the interactive transaction, or its connection, is lost:
\* before the answer the handler fails; after it nobody is told.
Lose(r) ==
  /\ r \in Fallible
  /\ \/ phase[r] \in Running /\ phase' = [phase EXCEPT ![r] = "rolledback"]
     \/ phase[r] = "acked"   /\ phase' = [phase EXCEPT ![r] = "lost"]
  /\ held' = [held EXCEPT ![r] = {}]
  /\ UNCHANGED <<cmd, done>>

(***************************************************************************)
(* PostgreSQL's deadlock detector aborts one transaction of a cycle of     *)
(* waiting transactions.  wanted[r] is what r's next statement locks.      *)
(***************************************************************************)
Waits(r, other, wanted) ==
  other # r /\ held[other] \cap wanted[r] # {}

DeadlockVictim(r, wanted) ==
  /\ \E cycle \in SUBSET {q \in Requests : phase[q] = "writing"} :
       /\ r \in cycle
       /\ \A q \in cycle : \E p \in cycle : Waits(q, p, wanted)
       /\ \A q \in cycle : \E p \in cycle : Waits(p, q, wanted)
  /\ Rollback(r)
=============================================================================

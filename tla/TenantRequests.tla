---- MODULE TenantRequests ----
(***************************************************************************)
(* The requests a component serves for one tenant at a time.               *)
(* A request in flight is a record: the operation, the step it has reached *)
(* and what it has read.                                                   *)
(***************************************************************************)
CONSTANT Handlers       \* requests served at a time
VARIABLE handlers       \* what each of them is doing

Idle == [op |-> "libre"]
Free(h) == handlers[h] = Idle
Serve(h, request) == handlers' = [handlers EXCEPT ![h] = request]
Answer(h) == Serve(h, Idle)
====

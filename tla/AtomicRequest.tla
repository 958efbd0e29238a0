----------------------------- MODULE AtomicRequest -----------------------------
(***************************************************************************)
(* What a client that stays for its answer may rely on: its request is     *)
(* stored whole or not at all, and never when it was told that it failed.  *)
(* It may be told "done" for what is never stored: the answer comes before *)
(* the commit.                                                             *)
(***************************************************************************)
CONSTANT Clients

VARIABLES
  told,      \* what the client has been told: nothing, done, refused
  stored     \* what of its request is stored: nothing, all

Init ==
  /\ told   = [c \in Clients |-> "nothing"]
  /\ stored = [c \in Clients |-> "nothing"]

Accept(c) ==
  /\ told[c] = "nothing"
  /\ told' = [told EXCEPT ![c] = "done"]
  /\ UNCHANGED stored

Refuse(c) ==
  /\ told[c] = "nothing"
  /\ stored[c] = "nothing"
  /\ told' = [told EXCEPT ![c] = "refused"]
  /\ UNCHANGED stored

Store(c) ==
  /\ told[c] # "refused"
  /\ stored[c] = "nothing"
  /\ stored' = [stored EXCEPT ![c] = "all"]
  /\ UNCHANGED told

Next == \E c \in Clients : Accept(c) \/ Refuse(c) \/ Store(c)

vars == <<told, stored>>

Spec == Init /\ [][Next]_vars
=============================================================================

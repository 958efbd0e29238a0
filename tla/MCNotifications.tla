---------------------------- MODULE MCNotifications ----------------------------
(***************************************************************************)
(* Three requests of a seller and an administrator on a pool of two        *)
(* connections.                                                            *)
(***************************************************************************)
EXTENDS Notifications, TLC

Sale(seller) == [kind |-> "sale", actor |-> seller, seller |-> seller, writes |-> 2, audited |-> TRUE]
Ask(kind, actor) == [kind |-> kind, actor |-> actor, writes |-> 1, audited |-> TRUE]

DayCalls == {Sale("ana"), Ask("result", "admin"), Ask("readAll", "ana"),
             Ask("read", "ana"), Ask("delete", "ana")}
SaleCalls == {Sale("ana")}
NewsCalls == {Ask("news", "admin")}
=============================================================================

---- MODULE MCTenantUsers ----
(***************************************************************************)
(* One seller, two addresses, two administrators; what is written by one   *)
(* family of requests is not read by the others, so a behaviour may keep   *)
(* to one of the three.                                                    *)
(***************************************************************************)
EXTENDS TenantUsers, TLC

MCModules == {"ROLES", "PARAMETROS", "VENTAS"}
ReadUpdate == {"read", "update"}
Matrix(r, p, v) == [m \in MCModules |-> CASE m = "ROLES" -> r [] m = "PARAMETROS" -> p
                                          [] m = "VENTAS" -> v]
MCMatrices == {Matrix(ReadUpdate, ReadUpdate, {}), Matrix({"read"}, {}, {}),
               Matrix({}, {}, {"create"}), Matrix({"create", "update"}, {}, {"read"}),
               Matrix({}, ReadUpdate, {})}

OpsOf(family) ==
    CASE family = "sellers" -> {"invitar", "reenviar", "confirmar", "baja", "borrar"}
      [] family = "passwords" -> {"clave"}
      [] family = "roles" -> {"matriz", "asignar"}

Written(family) ==
    CASE family = "sellers" -> codigos # <<>>
      [] family = "passwords" -> sesiones # {} \/ generados > 0
      [] family = "roles" -> escrituras > 0 \/ roles # {"ADMIN", "VENDEDOR"}
                             \/ \E m \in Administrators : rol[m] # "ADMIN"

Busy(family) == Written(family) \/ \E h \in Handlers : handlers[h].op \in OpsOf(family)

MCNext ==
    \/ ~Busy("passwords") /\ ~Busy("roles") /\ SellerNext /\ OnlySellers
    \/ ~Busy("sellers") /\ ~Busy("roles") /\ CredentialNext /\ OnlyCredentials
    \/ ~Busy("sellers") /\ ~Busy("passwords") /\ AccessNext /\ OnlyAccess

MCSpec == Init /\ [][MCNext]_vars

\* Requests, addresses and administrators are interchangeable.
UserSymmetry == Permutations(Handlers) \cup Permutations(Emails) \cup Permutations(Members)
====

---- MODULE TenantUsers ----
(***************************************************************************)
(* The people of one tenant: how they get in (SellerAccess), how they sign *)
(* in (Credentials) and what they may do (AccessControl), served by the    *)
(* same requests.  The tenant starts with its administrators signed up and *)
(* nobody invited.                                                         *)
(***************************************************************************)
EXTENDS SellerAccess, Credentials, AccessControl

CONSTANT Administrators     \* members that hold ADMIN when the tenant opens

vars == <<sellerVars, credentialVars, accessVars>>

\* What the seed gives the two roles: ADMIN everything, sellers their own work.
FullMatrix == [modulo \in Modules |-> Actions]
SellerMatrix == [modulo \in Modules |-> IF modulo = "VENTAS" THEN Actions ELSE {}]
Seeded == RowsFor("ADMIN", FullMatrix, 0) \cup RowsFor("VENDEDOR", SellerMatrix, 0)

Init ==
    /\ handlers = [h \in Handlers |-> Idle]
    /\ usuarios = [p \in Persons |-> [existe |-> FALSE, activo |-> FALSE, auth |-> Nobody]]
    /\ membresias = [p \in Persons |-> "NINGUNA"]
    /\ vendedores = [p \in Persons |-> [existe |-> FALSE, activo |-> FALSE, eliminado |-> FALSE]]
    /\ codigos = <<>>
    /\ cuentas = {} /\ creadas = 0 /\ ventas = {}
    /\ clave = [a \in Accounts |-> 1]
    /\ sesiones = {} /\ correo = {}
    /\ otp = [a \in Accounts |-> 0]
    /\ generados = 0
    /\ cerrado = [a \in Accounts |-> 0]
    /\ roles = {"ADMIN", "VENDEDOR"}
    /\ permisos = Seeded
    /\ rol = [m \in Members |-> IF m \in Administrators THEN "ADMIN" ELSE "VENDEDOR"]
    /\ escrituras = 0

OnlySellers == UNCHANGED <<clave, sesiones, otp, generados, correo, cerrado,
                           roles, permisos, rol, escrituras>>
OnlyCredentials == UNCHANGED <<tenantRows, cuentas, creadas, ventas,
                               roles, permisos, rol, escrituras>>
OnlyAccess == UNCHANGED <<tenantRows, cuentas, creadas, ventas,
                          clave, sesiones, otp, generados, correo, cerrado>>

Next ==
    \/ SellerNext /\ OnlySellers
    \/ CredentialNext /\ OnlyCredentials
    \/ AccessNext /\ OnlyAccess

Spec == Init /\ [][Next]_vars

----------------------------------------------------------------------------
(* The domains of the rows: code and membership states as the database's    *)
(* enumerations have them, links to accounts that were created.             *)
TypeOK ==
    /\ \A p \in Persons :
          /\ membresias[p] \in {"NINGUNA", "INVITADO", "ACTIVO", "SUSPENDIDO", "REVOCADO"}
          /\ usuarios[p] \in [existe : BOOLEAN, activo : BOOLEAN,
                              auth : {Nobody} \cup 1 .. creadas]
          /\ vendedores[p] \in [existe : BOOLEAN, activo : BOOLEAN, eliminado : BOOLEAN]
          /\ usuarios[p].activo => usuarios[p].existe /\ usuarios[p].auth # Nobody
    /\ \A c \in DOMAIN codigos :
          codigos[c] \in [usuario : Persons, email : Emails, estado : CodeStates,
                          vencido : BOOLEAN]
    /\ \A a \in cuentas : a.id \in 1 .. creadas /\ a.email \in Emails
    /\ ventas \subseteq Persons
    /\ clave \in [Accounts -> 1 .. MaxPasswords]
    /\ sesiones \subseteq [cuenta : Accounts, clave : 1 .. MaxPasswords]
    /\ rol \in [Members -> roles]
    /\ \A row \in permisos : row.rol \in roles /\ row.acciones # {}
====

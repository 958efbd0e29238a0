---- MODULE SellerAccess ----
(***************************************************************************)
(* Seller onboarding of one tenant: invitations, access codes, activation  *)
(* and removal.  The profile, the membership and the seller row live in    *)
(* PostgreSQL; the account that signs in lives in Supabase Auth, outside   *)
(* every transaction.  A confirmation therefore creates the account first, *)
(* writes the rows after, and deletes the account if the rows fail; the    *)
(* process may stop, or the deletion fail, in between.                     *)
(*                                                                         *)
(* A command is split where another request can come between its reads and *)
(* its writes.  The writes of one transaction are one step: they are       *)
(* conditional UPDATEs, which re-evaluate their condition on the committed *)
(* row.  What an UPDATE of many rows cannot see is a row inserted after    *)
(* its snapshot; `vistos` is that snapshot.                                *)
(***************************************************************************)
EXTENDS TenantRequests, Naturals, Sequences, FiniteSets

CONSTANTS Persons,       \* usernames an administrator may invite
          Emails,        \* addresses an invitation may be sent to
          Nobody,        \* the link of a profile that has no account
          MaxCodes,      \* bound: access codes ever issued
          MaxAccounts    \* bound: accounts ever created in Supabase Auth

ASSUME NobodyAssumption == Nobody \notin Nat

VARIABLES usuarios,      \* profile of each username: existe, activo, auth
          membresias,    \* membresias_tenant.estado, "NINGUNA" before any row
          vendedores,    \* seller row of each username
          codigos,       \* codigos_acceso_vendedor, in order of creation
          cuentas,       \* accounts in Supabase Auth
          creadas,       \* accounts ever created, which numbers the next one
          ventas         \* usernames that have sales on file

tenantRows == <<usuarios, membresias, vendedores, codigos>>
sellerVars == <<usuarios, membresias, vendedores, codigos, cuentas, creadas, ventas, handlers>>

CodeStates == {"PENDIENTE", "USADO", "REVOCADO", "BORRADO"}
Pending(c) == codigos[c].estado = "PENDIENTE"
Unexpired(c) == Pending(c) /\ ~codigos[c].vencido
\* The pending codes of a person, or sent to one of the addresses.
PendingOf(p, emails) ==
    {c \in DOMAIN codigos : Pending(c) /\ (codigos[c].usuario = p \/ codigos[c].email \in emails)}

Registered(email) == \E a \in cuentas : a.email = email

\* The status the invitations list filters by, and shows.
EffectiveStatus(c) ==
    IF Pending(c) /\ codigos[c].vencido THEN "EXPIRADO" ELSE codigos[c].estado

ListedInvitations(status) ==
    {c \in DOMAIN codigos : codigos[c].estado # "BORRADO" /\ EffectiveStatus(c) \in status}

\* A directory that filters by the profile, which no removal clears.
ListedProfiles(active) == {p \in Persons : vendedores[p].existe /\ usuarios[p].activo \in active}

\* The directory of sellers filters by the flags of the seller and the profile,
\* and shows a seller as active by the seller's flag and the membership.
FlaggedActive(p) == vendedores[p].activo /\ usuarios[p].activo
ListedSellers(active) == {p \in Persons : vendedores[p].existe /\ FlaggedActive(p) \in active}
ShownActive(p) == vendedores[p].activo /\ membresias[p] = "ACTIVO"

\* The rows whose context set_seller_invitation_context establishes.
InvitationContext(c) ==
    LET p == codigos[c].usuario
    IN  /\ Unexpired(c)
        /\ membresias[p] = "INVITADO"
        /\ vendedores[p].existe /\ ~vendedores[p].eliminado

\* UPDATE ... SET estado = REVOCADO over a snapshot: a row another transaction
\* has consumed or revoked meanwhile no longer satisfies the condition.
Revoked(seen) ==
    [c \in DOMAIN codigos |->
        IF c \in seen /\ Pending(c) THEN [codigos[c] EXCEPT !.estado = "REVOCADO"]
                                    ELSE codigos[c]]

NewCode(p, email) ==
    [usuario |-> p, email |-> email, estado |-> "PENDIENTE", vencido |-> FALSE]

\* A membership row an invitation has upserted is locked until it commits.
Locked(p) == \E h \in Handlers :
    handlers[h].op = "invitar" /\ handlers[h].paso = "escribe" /\ handlers[h].usuario = p

----------------------------------------------------------------------------
(* Invitations.                                                            *)

\* The first reads of createInvitation: an active membership, or a membership
\* that is not a seller's, is refused here and not looked at again.
CreateInvitation(h) ==
    /\ Free(h)
    /\ \E p \in Persons, email \in Emails :
          /\ membresias[p] # "ACTIVO"
          /\ membresias[p] # "NINGUNA" => vendedores[p].existe
          /\ Serve(h, [op |-> "invitar", paso |-> "lee", usuario |-> p, email |-> email,
                       nuevo |-> ~usuarios[p].existe, vistos |-> {}])
    /\ UNCHANGED <<tenantRows, cuentas, creadas, ventas>>

\* The unique username and the seller id found first: a profile another request
\* created meanwhile, or a seller row it deleted, is an error.
StillAsRead(r) ==
    IF r.nuevo THEN ~usuarios[r.usuario].existe ELSE vendedores[r.usuario].existe

\* The upsert takes the membership row; the revocation then takes its snapshot.
UpsertMembership(h) ==
    LET r == handlers[h]
    IN  /\ r.op = "invitar" /\ r.paso = "lee"
        /\ ~Locked(r.usuario)
        /\ IF StillAsRead(r)
           THEN Serve(h, [r EXCEPT !.paso = "escribe",
                          !.vistos = PendingOf(r.usuario, {r.email})])
           ELSE Answer(h)
        /\ UNCHANGED <<tenantRows, cuentas, creadas, ventas>>

\* The rest of the transaction, the e-mail and the commit.
IssueInvitation(h) ==
    LET r == handlers[h] IN
    /\ r.op = "invitar" /\ r.paso = "escribe"
    /\ Len(codigos) < MaxCodes
    /\ usuarios' = [usuarios EXCEPT ![r.usuario].existe = TRUE]
    /\ membresias' = [membresias EXCEPT ![r.usuario] = "INVITADO"]
    /\ vendedores' = [vendedores EXCEPT ![r.usuario].existe = TRUE,
                                        ![r.usuario].activo = FALSE]
    /\ codigos' = Append(Revoked(r.vistos), NewCode(r.usuario, r.email))
    /\ Answer(h)
    /\ UNCHANGED <<cuentas, creadas, ventas>>

\* A resend reads the latest code of the address and refuses an active seller;
\* its revocation takes the snapshot at the same point.
ResendAccessCode(h) ==
    /\ Free(h)
    /\ \E email \in Emails :
          LET sent == {c \in DOMAIN codigos :
                          codigos[c].email = email /\ codigos[c].estado # "BORRADO"}
          IN  /\ sent # {}
              /\ LET p == codigos[CHOOSE c \in sent : \A d \in sent : d <= c].usuario
                 IN  /\ ~usuarios[p].activo /\ ~vendedores[p].activo
                     /\ Serve(h, [op |-> "reenviar", usuario |-> p, email |-> email,
                                  vistos |-> PendingOf(p, {email})])
    /\ UNCHANGED <<tenantRows, cuentas, creadas, ventas>>

\* The foreign key of the new code refuses a seller deleted meanwhile.
IssueCode(h) ==
    LET r == handlers[h] IN
    /\ r.op = "reenviar"
    /\ Len(codigos) < MaxCodes
    /\ codigos' = IF vendedores[r.usuario].existe
                  THEN Append(Revoked(r.vistos), NewCode(r.usuario, r.email)) ELSE codigos
    /\ Answer(h)
    /\ UNCHANGED <<usuarios, membresias, vendedores, cuentas, creadas, ventas>>

\* The e-mail is not sent, or a statement fails: the answer is an error, and the
\* transaction of an invitation or a resend is rolled back.
InvitationFails(h) ==
    /\ handlers[h].op \in {"invitar", "reenviar"}
    /\ Answer(h)
    /\ UNCHANGED <<tenantRows, cuentas, creadas, ventas>>

RevokeInvitation(c) ==
    /\ c \in DOMAIN codigos /\ Unexpired(c)
    /\ codigos' = Revoked({c})
    /\ UNCHANGED <<usuarios, membresias, vendedores, cuentas, creadas, ventas, handlers>>

Expire(c) ==
    /\ c \in DOMAIN codigos /\ Unexpired(c)
    /\ codigos' = [codigos EXCEPT ![c].vencido = TRUE]
    /\ UNCHANGED <<usuarios, membresias, vendedores, cuentas, creadas, ventas, handlers>>

----------------------------------------------------------------------------
(* Confirmation: find, create the account, find again, consume.            *)

FindPendingAccessCode(h) ==
    /\ Free(h)
    /\ \E c \in DOMAIN codigos :
          /\ InvitationContext(c)
          /\ Serve(h, [op |-> "confirmar", paso |-> "encontrado", codigo |-> c, cuenta |-> Nobody])
    /\ UNCHANGED <<tenantRows, cuentas, creadas, ventas>>

Confirming(h, step) == handlers[h].op = "confirmar" /\ handlers[h].paso = step
GoTo(h, step) == Serve(h, [handlers[h] EXCEPT !.paso = step])

NewAccount(h, email) ==
    /\ creadas < MaxAccounts
    /\ creadas' = creadas + 1
    /\ cuentas' = cuentas \cup {[id |-> creadas + 1, email |-> email]}
    /\ Serve(h, [handlers[h] EXCEPT !.paso = "cuenta", !.cuenta = creadas + 1])

\* A confirmation that, the address being taken, goes on with the account it finds.
AdoptAuthUser(h) ==
    LET email == codigos[handlers[h].codigo].email IN
    /\ Confirming(h, "encontrado")
    /\ IF Registered(email)
       THEN /\ \E a \in cuentas :
                  /\ a.email = email
                  /\ Serve(h, [handlers[h] EXCEPT !.paso = "cuenta", !.cuenta = a.id])
            /\ UNCHANGED <<cuentas, creadas>>
       ELSE NewAccount(h, email)
    /\ UNCHANGED <<tenantRows, ventas>>

\* Supabase Auth holds one account per address; a second one is refused, and
\* with it the confirmation.
CreateAuthUser(h) ==
    LET email == codigos[handlers[h].codigo].email IN
    /\ Confirming(h, "encontrado")
    /\ IF Registered(email)
       THEN Answer(h) /\ UNCHANGED <<cuentas, creadas>>
       ELSE NewAccount(h, email)
    /\ UNCHANGED <<tenantRows, ventas>>

FindAgain(h) ==
    /\ Confirming(h, "cuenta")
    /\ GoTo(h, IF InvitationContext(handlers[h].codigo) THEN "consume" ELSE "compensa")
    /\ UNCHANGED <<tenantRows, cuentas, creadas, ventas>>

\* What the transaction of a consumed code writes.
Activate(h) ==
    LET c == handlers[h].codigo
        p == codigos[c].usuario
    IN  /\ codigos' = [codigos EXCEPT ![c].estado = "USADO"]
        /\ usuarios' = [usuarios EXCEPT ![p].activo = TRUE, ![p].auth = handlers[h].cuenta]
        /\ vendedores' = [vendedores EXCEPT ![p].activo = TRUE]
        /\ membresias' = [membresias EXCEPT ![p] = "ACTIVO"]
        /\ Answer(h)

\* What a transaction would write that did not ask again whether the code is pending.
ConsumeAsFound(h) ==
    /\ Confirming(h, "consume")
    /\ ~Locked(codigos[handlers[h].codigo].usuario)
    /\ codigos[handlers[h].codigo].estado # "BORRADO"
    /\ Activate(h)
    /\ UNCHANGED <<cuentas, creadas, ventas>>

ConsumeAccessCode(h) ==
    /\ Confirming(h, "consume")
    /\ ~Locked(codigos[handlers[h].codigo].usuario)
    /\ IF Unexpired(handlers[h].codigo)
       THEN Activate(h)
       ELSE GoTo(h, "compensa") /\ UNCHANGED tenantRows
    /\ UNCHANGED <<cuentas, creadas, ventas>>

\* A statement fails: a deadlock with an invitation of the same seller, a timeout.
StatementFails(h) ==
    /\ Confirming(h, "consume")
    /\ GoTo(h, "compensa")
    /\ UNCHANGED <<tenantRows, cuentas, creadas, ventas>>

\* safeDeleteAuthUser: best effort, its own failure is swallowed.
SafeDeleteAuthUser(h) ==
    /\ Confirming(h, "compensa")
    /\ \/ cuentas' = {a \in cuentas : a.id # handlers[h].cuenta}
       \/ UNCHANGED cuentas
    /\ Answer(h)
    /\ UNCHANGED <<tenantRows, creadas, ventas>>

\* The process stops: its transactions roll back and nothing is compensated.
Crash ==
    /\ \E h \in Handlers : ~Free(h)
    /\ handlers' = [h \in Handlers |-> Idle]
    /\ UNCHANGED <<tenantRows, cuentas, creadas, ventas>>

----------------------------------------------------------------------------
(* Removal.                                                                *)

DeletionTarget(h, mode) ==
    /\ Free(h)
    /\ \E p \in Persons :
          /\ vendedores[p].existe
          /\ mode = "borrar" => p \notin ventas
          /\ Serve(h, [op |-> mode, usuario |-> p,
                       vistos |-> PendingOf(p, {})])
    /\ UNCHANGED <<tenantRows, cuentas, creadas, ventas>>

\* codes, seller, membership, in this order.
SoftDeleteSeller(h) ==
    LET r == handlers[h] IN
    /\ r.op = "baja" /\ ~Locked(r.usuario)
    /\ IF vendedores[r.usuario].existe
       THEN /\ codigos' = Revoked(r.vistos)
            /\ vendedores' = [vendedores EXCEPT ![r.usuario].activo = FALSE,
                                                ![r.usuario].eliminado = TRUE]
            /\ membresias' = [membresias EXCEPT ![r.usuario] = "SUSPENDIDO"]
       ELSE UNCHANGED <<codigos, vendedores, membresias>>
    /\ Answer(h)
    /\ UNCHANGED <<usuarios, cuentas, creadas, ventas>>

\* A schema that leaves sales to the query that looked for them.
NoForeignKey(p) == FALSE

\* The foreign key of ventas refuses to let the seller row of a sale go.
ReferencedBySales(p) == p \in ventas

HardDeleteSeller(h) ==
    LET r == handlers[h] IN
    /\ r.op = "borrar" /\ ~Locked(r.usuario)
    /\ IF vendedores[r.usuario].existe /\ ~ReferencedBySales(r.usuario)
       THEN /\ codigos' = [c \in DOMAIN codigos |->
                              IF codigos[c].usuario = r.usuario
                              THEN [codigos[c] EXCEPT !.estado = "BORRADO"] ELSE codigos[c]]
            /\ vendedores' = [vendedores EXCEPT ![r.usuario] =
                                 [existe |-> FALSE, activo |-> FALSE, eliminado |-> FALSE]]
            /\ membresias' = [membresias EXCEPT ![r.usuario] = "REVOCADO"]
       ELSE UNCHANGED <<codigos, vendedores, membresias>>
    /\ Answer(h)
    /\ UNCHANGED <<usuarios, cuentas, creadas, ventas>>

\* The seller sells (module Sales): an active seller of an active membership.
RecordSale(p) ==
    /\ p \notin ventas
    /\ membresias[p] = "ACTIVO" /\ vendedores[p].activo /\ vendedores[p].existe
    /\ ventas' = ventas \cup {p}
    /\ UNCHANGED <<tenantRows, cuentas, creadas, handlers>>

SellerNext ==
    \/ \E h \in Handlers :
          \/ CreateInvitation(h) \/ UpsertMembership(h) \/ IssueInvitation(h)
          \/ ResendAccessCode(h) \/ IssueCode(h) \/ InvitationFails(h)
          \/ FindPendingAccessCode(h) \/ CreateAuthUser(h) \/ FindAgain(h)
          \/ ConsumeAccessCode(h) \/ StatementFails(h) \/ SafeDeleteAuthUser(h)
          \/ \E mode \in {"baja", "borrar"} : DeletionTarget(h, mode)
          \/ SoftDeleteSeller(h) \/ HardDeleteSeller(h)
    \/ \E c \in 1 .. MaxCodes : RevokeInvitation(c) \/ Expire(c)
    \/ \E p \in Persons : RecordSale(p)
    \/ Crash

----------------------------------------------------------------------------
(* A profile that is active is linked to an account that exists: the        *)
(* clean-up of a failed confirmation (confirm-seller-access-code, 108-114)  *)
(* never deletes the account of a confirmation that succeeded.              *)
LinkedAccountExists ==
    \A p \in Persons : usuarios[p].activo => \E a \in cuentas : a.id = usuarios[p].auth

(* Once an administrator has revoked a code, by hand, by a resend, by a new *)
(* invitation or by removing the seller, no confirmation that had already   *)
(* found it can still consume it.                                           *)
RevocationIsFinal ==
    [][\A c \in DOMAIN codigos :
          codigos[c].estado \in {"REVOCADO", "BORRADO"} => codigos'[c].estado # "USADO"]_codigos

(* A hard deletion that found no sales does not take the seller row of a    *)
(* sale that was recorded while it ran.                                     *)
SalesKeepTheirSeller == \A p \in ventas : vendedores[p].existe

(* The directory filtered by "active" lists exactly the sellers it shows as *)
(* active, through invitations, activations and removals that overlap: the  *)
(* flags of the seller, of the profile and of the membership move together. *)
DirectoryAgrees ==
    ListedSellers({TRUE}) = {p \in Persons : vendedores[p].existe /\ ShownActive(p)}

(* docs/api.md:299: a soft deletion is a reversible removal.  A code sent   *)
(* to an invited person, and listed as pending, can therefore be confirmed. *)
InvitationUsable ==
    \A c \in ListedInvitations({"PENDIENTE"}) :
        membresias[codigos[c].usuario] = "INVITADO" => InvitationContext(c)
====

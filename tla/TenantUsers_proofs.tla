--------------------------- MODULE TenantUsers_proofs ---------------------------
(***************************************************************************)
(* Theorems of TenantUsers, for any number of requests, persons, accounts, *)
(* members, codes, matrices and passwords, with the three families of      *)
(* requests interleaved without restriction.                               *)
(*                                                                         *)
(* A family writes its own variables and serves its own operations, so     *)
(* every invariant is of one family and says nothing of the requests of    *)
(* the others; lemma Frames is what a step of another family leaves alone. *)
(***************************************************************************)
EXTENDS TenantUsers, NumberSets, SequenceTheorems

(***************************************************************************)
(* The requests of each family                                             *)
(***************************************************************************)
AllRoles == {"ADMIN", "VENDEDOR"} \cup RoleNames
Row == [rol : AllRoles, modulo : Modules, acciones : SUBSET Actions, autor : Nat]
Code == [usuario : Persons, email : Emails, estado : CodeStates, vencido : BOOLEAN]

Inviting == [op : {"invitar"}, paso : {"lee", "escribe"}, usuario : Persons, email : Emails,
             nuevo : BOOLEAN, vistos : SUBSET Nat]
Resending == [op : {"reenviar"}, usuario : Persons, email : Emails, vistos : SUBSET Nat]
Confirmation == [op : {"confirmar"}, paso : {"encontrado", "cuenta", "consume", "compensa"},
                 codigo : Nat, cuenta : Nat \cup {Nobody}]
Removing == [op : {"baja", "borrar"}, usuario : Persons, vistos : SUBSET Nat]
SellerRequest == Inviting \cup Resending \cup Confirmation \cup Removing

ResetRequest == [op : {"clave"}, paso : {"verifica", "actualiza", "cierra"}, cuenta : Accounts,
                 codigo : Nat, metodo : {"codigo", "enlace", "admin"}, clave : Nat]

Replacing == [op : {"matriz"}, rol : AllRoles, matriz : Matrices, vistos : SUBSET Row]
Assigning == [op : {"asignar"}, miembro : Members, rol : AllRoles]
AccessRequest == Replacing \cup Assigning

Request == {Idle} \cup SellerRequest \cup ResetRequest \cup AccessRequest

SellerOps == {"invitar", "reenviar", "confirmar", "baja", "borrar"}
AccessOps == {"matriz", "asignar"}

\* Which family a request belongs to is told by its operation.
LEMMA Families ==
  ASSUME NEW r \in Request
  PROVE  /\ r.op \in {"libre", "clave"} \cup SellerOps \cup AccessOps
         /\ r.op = "invitar" => r \in Inviting
         /\ r.op = "reenviar" => r \in Resending
         /\ r.op = "confirmar" => r \in Confirmation
         /\ r.op \in {"baja", "borrar"} => r \in Removing
         /\ r.op = "clave" => r \in ResetRequest
         /\ r.op = "matriz" => r \in Replacing
         /\ r.op = "asignar" => r \in Assigning
BY DEF Request, Idle, SellerRequest, Inviting, Resending, Confirmation, Removing, ResetRequest,
       AccessRequest, Replacing, Assigning, SellerOps, AccessOps

LEMMA ServeEffect ==
  ASSUME handlers \in [Handlers -> Request], NEW h \in Handlers, NEW r \in Request, Serve(h, r)
  PROVE  /\ handlers' \in [Handlers -> Request] /\ handlers'[h] = r
         /\ \A k \in Handlers \ {h} : handlers'[k] = handlers[k]
BY DEF Serve

LEMMA AnswerEffect ==
  ASSUME handlers \in [Handlers -> Request], NEW h \in Handlers, Answer(h)
  PROVE  /\ handlers' \in [Handlers -> Request] /\ handlers'[h] = Idle
         /\ \A k \in Handlers \ {h} : handlers'[k] = handlers[k]
BY DEF Answer, Serve, Request

\* The requests after a step of one family.
Serves(ops) ==
  /\ handlers' \in [Handlers -> Request]
  /\ \A k \in Handlers : handlers'[k] = handlers[k] \/ handlers'[k] = Idle \/ handlers'[k].op \in ops

LEMMA ServesOne ==
  ASSUME handlers \in [Handlers -> Request], NEW ops, NEW h \in Handlers, NEW r \in Request,
         Serve(h, r), r = Idle \/ r.op \in ops
  PROVE  Serves(ops)
BY ServeEffect DEF Serves

LEMMA ServesNone ==
  ASSUME handlers \in [Handlers -> Request], NEW ops, UNCHANGED handlers PROVE Serves(ops)
BY DEF Serves

LEMMA ServesAnswer ==
  ASSUME handlers \in [Handlers -> Request], NEW ops, NEW h \in Handlers, Answer(h) PROVE Serves(ops)
BY AnswerEffect DEF Serves

(***************************************************************************)
(* Types                                                                   *)
(***************************************************************************)
SellerTypes ==
  /\ usuarios \in [Persons -> [existe : BOOLEAN, activo : BOOLEAN, auth : {Nobody} \cup Nat]]
  /\ membresias \in [Persons -> {"NINGUNA", "INVITADO", "ACTIVO", "SUSPENDIDO", "REVOCADO"}]
  /\ vendedores \in [Persons -> [existe : BOOLEAN, activo : BOOLEAN, eliminado : BOOLEAN]]
  /\ codigos \in Seq(Code)
  /\ creadas \in Nat
  /\ cuentas \subseteq [id : 1..creadas, email : Emails]
  /\ ventas \subseteq Persons
  /\ \A h \in Handlers : handlers[h].op = "confirmar" => handlers[h].codigo \in DOMAIN codigos

CredentialTypes ==
  /\ clave \in [Accounts -> 1..MaxPasswords]
  /\ sesiones \subseteq [cuenta : Accounts, clave : 1..MaxPasswords]
  /\ otp \in [Accounts -> Nat] /\ generados \in Nat
  /\ correo \subseteq [cuenta : Accounts, codigo : Nat]
  /\ cerrado \in [Accounts -> Nat]

AccessTypes ==
  /\ roles \subseteq AllRoles /\ "ADMIN" \in roles
  /\ permisos \subseteq Row /\ \A row \in permisos : row.rol \in roles /\ row.acciones # {}
  /\ rol \in [Members -> roles]
  /\ escrituras \in Nat
  /\ \A h \in Handlers : handlers[h].op \in AccessOps => handlers[h].rol \in roles

Typed ==
  /\ handlers \in [Handlers -> Request]
  /\ SellerTypes /\ CredentialTypes /\ AccessTypes

(***************************************************************************)
(* Signing in: what a step of Credentials does                             *)
(***************************************************************************)
LEMMA CredentialServes == ASSUME Typed, CredentialNext PROVE Serves({"clave"})
<1> USE DEF Typed
<1>1. ASSUME NEW a \in Accounts, Login(a) \/ RequestPasswordReset(a) PROVE Serves({"clave"})
  BY <1>1, ServesNone DEF Login, RequestPasswordReset
<1>2. ASSUME NEW s \in sesiones, Logout(s) PROVE Serves({"clave"})
  BY <1>2, ServesNone DEF Logout
<1>3. ASSUME NEW h \in Handlers, NEW r \in ResetRequest, Serve(h, r) PROVE Serves({"clave"})
  BY <1>3, ServesOne DEF Request, ResetRequest
<1>4. ASSUME NEW a \in Accounts, NEW c \in Nat, NEW m \in {"codigo", "enlace", "admin"}
      PROVE  Reset(a, c, m) \in ResetRequest
  BY DEF Reset, ResetRequest
<1>5. ASSUME NEW h \in Handlers, ConfirmPasswordReset(h) \/ ConfirmPasswordResetLink(h)
      PROVE  Serves({"clave"})
  BY <1>3, <1>4, <1>5 DEF ConfirmPasswordReset, ConfirmPasswordResetLink, CredentialTypes
<1>6. ASSUME NEW h \in Handlers, AdminResetPassword(h) PROVE Serves({"clave"})
  BY <1>3, <1>4, <1>6 DEF AdminResetPassword, CredentialTypes
<1>7. ASSUME NEW h \in Handlers, handlers[h].op = "clave"
      PROVE  /\ handlers[h] \in ResetRequest
             /\ [handlers[h] EXCEPT !.paso = "actualiza"] \in ResetRequest
             /\ \A n \in Nat : [handlers[h] EXCEPT !.paso = "cierra", !.clave = n] \in ResetRequest
  <2>1. handlers[h] \in ResetRequest
    BY <1>7, Families
  <2>2. QED  BY <2>1 DEF ResetRequest
<1>8. ASSUME NEW h \in Handlers, VerifyOtp(h) PROVE Serves({"clave"})
  BY <1>3, <1>7, <1>8, ServesAnswer DEF VerifyOtp, Resetting, ResetStep
<1>9. ASSUME NEW h \in Handlers, UpdatePassword(h) PROVE Serves({"clave"})
  <2>1. handlers[h].op = "clave" /\ handlers[h] \in ResetRequest
    BY <1>7, <1>9 DEF UpdatePassword, Resetting
  <2>2. handlers[h].cuenta \in Accounts
    BY <2>1 DEF ResetRequest
  <2>3. clave[handlers[h].cuenta] + 1 \in Nat
    BY <2>2, PasswordsAssumption DEF CredentialTypes
  <2>4. QED  BY <1>3, <1>7, <1>9, <2>1, <2>3, ServesAnswer DEF UpdatePassword
<1>10. ASSUME NEW h \in Handlers, CloseSessions(h) PROVE Serves({"clave"})
  BY <1>10, ServesAnswer DEF CloseSessions
<1>11. QED  BY <1>1, <1>2, <1>5, <1>6, <1>8, <1>9, <1>10 DEF CredentialNext

LEMMA CredentialTypesStep == ASSUME Typed, CredentialNext PROVE CredentialTypes'
<1> USE DEF Typed, CredentialTypes
<1>0. \A h \in Handlers, s \in {"verifica", "actualiza", "cierra"} :
        Resetting(h, s) => handlers[h] \in ResetRequest
  BY Families DEF Resetting
<1>1. ASSUME NEW a \in Accounts, Login(a) PROVE CredentialTypes'
  BY <1>1 DEF Login, SessionOf
<1>2. ASSUME NEW a \in Accounts, RequestPasswordReset(a) PROVE CredentialTypes'
  BY <1>2 DEF RequestPasswordReset, Generate
<1>3. ASSUME NEW s \in sesiones, Logout(s) PROVE CredentialTypes'
  BY <1>3 DEF Logout
<1>4. ASSUME NEW h \in Handlers, ConfirmPasswordReset(h) \/ ConfirmPasswordResetLink(h)
      PROVE  CredentialTypes'
  BY <1>4 DEF ConfirmPasswordReset, ConfirmPasswordResetLink
<1>5. ASSUME NEW h \in Handlers, AdminResetPassword(h) PROVE CredentialTypes'
  BY <1>5 DEF AdminResetPassword, Generate
<1>6. ASSUME NEW h \in Handlers, VerifyOtp(h) PROVE CredentialTypes'
  <2>1. handlers[h].cuenta \in Accounts
    BY <1>0, <1>6 DEF VerifyOtp, ResetRequest
  <2>2. QED  BY <1>6, <2>1 DEF VerifyOtp, SessionOf
<1>7. ASSUME NEW h \in Handlers, UpdatePassword(h) PROVE CredentialTypes'
  <2>1. handlers[h].cuenta \in Accounts
    BY <1>0, <1>7 DEF UpdatePassword, ResetRequest
  <2>2. QED  BY <1>7, <2>1, PasswordsAssumption DEF UpdatePassword
<1>8. ASSUME NEW h \in Handlers, CloseSessions(h) PROVE CredentialTypes'
  <2>1. handlers[h].cuenta \in Accounts /\ handlers[h].clave \in Nat
    BY <1>0, <1>8 DEF CloseSessions, ResetRequest
  <2>2. QED  BY <1>8, <2>1 DEF CloseSessions
<1>9. QED  BY <1>1, <1>2, <1>3, <1>4, <1>5, <1>6, <1>7, <1>8 DEF CredentialNext

(***************************************************************************)
(* Roles: what a step of AccessControl does                                *)
(***************************************************************************)
LEMMA RowsForTyped ==
  ASSUME NEW r \in AllRoles, NEW matrix \in [Modules -> SUBSET Actions], NEW n \in Nat
  PROVE  /\ RowsFor(r, matrix, n) \subseteq Row
         /\ \A row \in RowsFor(r, matrix, n) : row.rol = r /\ row.acciones # {}
BY DEF RowsFor, Row

LEMMA AccessServes == ASSUME Typed, AccessNext PROVE Serves(AccessOps)
<1> USE DEF Typed
<1>1. ASSUME NEW m \in Members, NEW r \in RoleNames, CreateRole(m, r) PROVE Serves(AccessOps)
  BY <1>1, ServesNone DEF CreateRole
<1>2. ASSUME NEW h \in Handlers, ReplaceRolePermissions(h) PROVE Serves(AccessOps)
  <2>1. PICK r \in roles, matrix \in Matrices :
          Serve(h, [op |-> "matriz", rol |-> r, matriz |-> matrix, vistos |-> RowsOf(r)])
    BY <1>2 DEF ReplaceRolePermissions
  <2>2. [op |-> "matriz", rol |-> r, matriz |-> matrix, vistos |-> RowsOf(r)] \in Replacing
    BY DEF Replacing, RowsOf, AccessTypes
  <2>3. QED  BY <2>1, <2>2, ServesOne DEF Request, AccessRequest, AccessOps
<1>3. ASSUME NEW h \in Handlers, AssignUserRole(h) PROVE Serves(AccessOps)
  <2>1. PICK target \in Members, r \in roles :
          Serve(h, [op |-> "asignar", miembro |-> target, rol |-> r])
    BY <1>3 DEF AssignUserRole
  <2>2. [op |-> "asignar", miembro |-> target, rol |-> r] \in Assigning
    BY DEF Assigning, AccessTypes
  <2>3. QED  BY <2>1, <2>2, ServesOne DEF Request, AccessRequest, AccessOps
<1>4. ASSUME NEW h \in Handlers, WriteMatrix(h) \/ WriteAssignment(h) PROVE Serves(AccessOps)
  BY <1>4, ServesAnswer DEF WriteMatrix, WriteAssignment
<1>5. QED  BY <1>1, <1>2, <1>3, <1>4 DEF AccessNext

LEMMA AccessTypesStep == ASSUME Typed, AccessNext PROVE AccessTypes'
<1> USE DEF Typed, AccessTypes
<1>1. ASSUME NEW m \in Members, NEW r \in RoleNames, CreateRole(m, r) PROVE AccessTypes'
  BY <1>1 DEF CreateRole, AllRoles
<1>2. ASSUME NEW h \in Handlers, NEW r \in roles, NEW x \in Request, Serve(h, x), x.rol = r,
             UNCHANGED <<roles, permisos, rol, escrituras>>
      PROVE  AccessTypes'
  BY <1>2, ServeEffect
<1>3. ASSUME NEW h \in Handlers, ReplaceRolePermissions(h) PROVE AccessTypes'
  <2>1. PICK r \in roles, matrix \in Matrices :
          Serve(h, [op |-> "matriz", rol |-> r, matriz |-> matrix, vistos |-> RowsOf(r)])
    BY <1>3 DEF ReplaceRolePermissions
  <2> DEFINE x == [op |-> "matriz", rol |-> r, matriz |-> matrix, vistos |-> RowsOf(r)]
  <2>2. x \in Replacing /\ x.rol = r
    BY DEF Replacing, RowsOf
  <2>3. Serve(h, x) /\ x \in Request
    BY <2>1, <2>2 DEF Request, AccessRequest
  <2> HIDE DEF x
  <2>4. QED  BY <1>2, <1>3, <2>2, <2>3 DEF ReplaceRolePermissions
<1>4. ASSUME NEW h \in Handlers, AssignUserRole(h) PROVE AccessTypes'
  <2>1. PICK target \in Members, r \in roles :
          Serve(h, [op |-> "asignar", miembro |-> target, rol |-> r])
    BY <1>4 DEF AssignUserRole
  <2> DEFINE x == [op |-> "asignar", miembro |-> target, rol |-> r]
  <2>2. x \in Assigning /\ x.rol = r
    BY DEF Assigning
  <2>3. Serve(h, x) /\ x \in Request
    BY <2>1, <2>2 DEF Request, AccessRequest
  <2> HIDE DEF x
  <2>4. QED  BY <1>2, <1>4, <2>2, <2>3 DEF AssignUserRole
<1>5. ASSUME NEW h \in Handlers, Answer(h)
      PROVE  \A k \in Handlers : handlers'[k].op \in AccessOps => handlers'[k] = handlers[k]
  BY <1>5, AnswerEffect DEF Idle, AccessOps
<1>6. ASSUME NEW h \in Handlers, WriteMatrix(h) PROVE AccessTypes'
  <2>1. handlers[h] \in Replacing /\ handlers[h].rol \in roles
    BY <1>6, Families DEF WriteMatrix, AccessOps
  <2> DEFINE q == handlers[h]
             rows == RowsFor(q.rol, q.matriz, escrituras + 1)
  <2>2. q.matriz \in [Modules -> SUBSET Actions] /\ q.rol \in AllRoles
    BY <2>1, MatricesAssumption DEF Replacing, Actions
  <2>3. rows \subseteq Row /\ \A row \in rows : row.rol = q.rol /\ row.acciones # {}
    BY <2>2, RowsForTyped
  <2>4. permisos' \subseteq permisos \cup rows
    BY <1>6 DEF WriteMatrix
  <2> HIDE DEF rows
  <2>5. permisos' \subseteq Row /\ \A row \in permisos' : row.rol \in roles /\ row.acciones # {}
    BY <2>1, <2>3, <2>4
  <2>6. UNCHANGED <<roles, rol>> /\ escrituras' \in Nat /\ Answer(h)
    BY <1>6 DEF WriteMatrix
  <2>7. QED  BY <1>5, <2>5, <2>6
<1>7. ASSUME NEW h \in Handlers, WriteAssignment(h) PROVE AccessTypes'
  <2>1. handlers[h] \in Assigning /\ handlers[h].rol \in roles
    BY <1>7, Families DEF WriteAssignment, AccessOps
  <2>2. rol' \in [Members -> roles]
    BY <1>7, <2>1 DEF WriteAssignment, Assigning
  <2>3. UNCHANGED <<roles, permisos, escrituras>> /\ Answer(h)
    BY <1>7 DEF WriteAssignment
  <2>4. QED  BY <1>5, <2>2, <2>3
<1>8. QED  BY <1>1, <1>3, <1>4, <1>6, <1>7 DEF AccessNext

(***************************************************************************)
(* Codes                                                                   *)
(***************************************************************************)
LEMMA CodesOf ==
  ASSUME Typed
  PROVE  /\ DOMAIN codigos = 1..Len(codigos) /\ Len(codigos) \in Nat
         /\ \A c \in DOMAIN codigos : codigos[c] \in Code /\ c \in Nat
         /\ \A p, emails : PendingOf(p, emails) \in SUBSET Nat
<1>1. codigos \in Seq(Code)
  BY DEF Typed, SellerTypes
<1>2. DOMAIN codigos = 1..Len(codigos) /\ Len(codigos) \in Nat
  BY <1>1, LenProperties
<1>3. QED  BY <1>1, <1>2, ElementOfSeq DEF PendingOf

\* The same codes as before, or changed ones with the same owners, none of which
\* is used after it was revoked or deleted.
Follow(t) ==
  /\ t \in Seq(Code)
  /\ DOMAIN codigos \subseteq DOMAIN t
  /\ \A c \in DOMAIN codigos :
       /\ t[c].usuario = codigos[c].usuario
       /\ codigos[c].estado \in {"REVOCADO", "BORRADO"} => t[c].estado # "USADO"

LEMMA FollowSame == ASSUME Typed PROVE Follow(codigos)
BY DEF Follow, Typed, SellerTypes

\* A sequence of codes over the same numbers.
LEMMA FollowInPlace ==
  ASSUME Typed, NEW t \in [DOMAIN codigos -> Code],
         \A c \in DOMAIN codigos :
           /\ t[c].usuario = codigos[c].usuario
           /\ codigos[c].estado \in {"REVOCADO", "BORRADO"} => t[c].estado # "USADO"
  PROVE  Follow(t) /\ DOMAIN t = DOMAIN codigos
<1>1. t \in Seq(Code)
  BY CodesOf, SeqDef
<1>2. QED  BY <1>1 DEF Follow

LEMMA FollowRevoked == ASSUME Typed, NEW seen PROVE Follow(Revoked(seen)) /\ DOMAIN Revoked(seen) = DOMAIN codigos
<1>1. Revoked(seen) \in [DOMAIN codigos -> Code]
  BY CodesOf DEF Revoked, Code, CodeStates
<1>2. \A c \in DOMAIN codigos :
        /\ Revoked(seen)[c].usuario = codigos[c].usuario
        /\ codigos[c].estado \in {"REVOCADO", "BORRADO"} => Revoked(seen)[c].estado # "USADO"
  BY CodesOf DEF Revoked, Code
<1>3. QED  BY <1>1, <1>2, FollowInPlace

LEMMA FollowIssued ==
  ASSUME Typed, NEW seen, NEW p \in Persons, NEW email \in Emails
  PROVE  /\ Follow(Append(Revoked(seen), NewCode(p, email)))
         /\ \A c \in DOMAIN Append(Revoked(seen), NewCode(p, email)) \ DOMAIN codigos :
              Append(Revoked(seen), NewCode(p, email))[c].usuario = p
<1> DEFINE s == Revoked(seen)
           t == Append(s, NewCode(p, email))
<1>1. NewCode(p, email) \in Code /\ NewCode(p, email).usuario = p
  BY DEF NewCode, Code, CodeStates
<1>2. s \in Seq(Code) /\ DOMAIN s = DOMAIN codigos /\ Follow(s)
  BY FollowRevoked DEF Follow
<1> HIDE DEF s
<1>3. /\ t \in Seq(Code) /\ Len(t) = Len(s) + 1 /\ t[Len(s) + 1] = NewCode(p, email)
      /\ \A c \in 1..Len(s) : t[c] = s[c]
  BY <1>1, <1>2, AppendProperties
<1>4. DOMAIN t = 1..Len(s) + 1 /\ DOMAIN s = 1..Len(s) /\ Len(s) \in Nat
  BY <1>2, <1>3, LenProperties
<1> HIDE DEF t
<1>5. Follow(t)
  BY <1>2, <1>3, <1>4 DEF Follow
<1>6. \A c \in DOMAIN t \ DOMAIN codigos : t[c].usuario = p
  BY <1>1, <1>2, <1>3, <1>4
<1>7. QED  BY <1>5, <1>6 DEF s, t

LEMMA FollowDeleted ==
  ASSUME Typed, NEW p
  PROVE  LET t == [c \in DOMAIN codigos |-> IF codigos[c].usuario = p
                     THEN [codigos[c] EXCEPT !.estado = "BORRADO"] ELSE codigos[c]]
         IN  Follow(t) /\ DOMAIN t = DOMAIN codigos
<1> DEFINE t == [c \in DOMAIN codigos |-> IF codigos[c].usuario = p
                   THEN [codigos[c] EXCEPT !.estado = "BORRADO"] ELSE codigos[c]]
<1>1. t \in [DOMAIN codigos -> Code]
  BY CodesOf DEF Code, CodeStates
<1>2. \A c \in DOMAIN codigos :
        /\ t[c].usuario = codigos[c].usuario
        /\ codigos[c].estado \in {"REVOCADO", "BORRADO"} => t[c].estado # "USADO"
  BY CodesOf DEF Code
<1> HIDE DEF t
<1>3. Follow(t) /\ DOMAIN t = DOMAIN codigos
  BY <1>1, <1>2, FollowInPlace
<1>4. QED  BY <1>3 DEF t

LEMMA FollowExpired ==
  ASSUME Typed, NEW d \in DOMAIN codigos
  PROVE  /\ Follow([codigos EXCEPT ![d].vencido = TRUE])
         /\ DOMAIN [codigos EXCEPT ![d].vencido = TRUE] = DOMAIN codigos
<1> DEFINE t == [codigos EXCEPT ![d].vencido = TRUE]
<1>0. codigos \in [DOMAIN codigos -> Code]
  BY LenProperties DEF Typed, SellerTypes
<1>1. t \in [DOMAIN codigos -> Code]
  BY <1>0 DEF Code
<1>2. \A c \in DOMAIN codigos : t[c].usuario = codigos[c].usuario /\ t[c].estado = codigos[c].estado
  BY <1>0 DEF Code
<1> HIDE DEF t
<1>3. Follow(t) /\ DOMAIN t = DOMAIN codigos
  BY <1>1, <1>2, FollowInPlace
<1>4. QED  BY <1>3 DEF t

LEMMA FollowUsed ==
  ASSUME Typed, NEW d \in DOMAIN codigos, Unexpired(d)
  PROVE  /\ Follow([codigos EXCEPT ![d].estado = "USADO"])
         /\ DOMAIN [codigos EXCEPT ![d].estado = "USADO"] = DOMAIN codigos
<1> DEFINE t == [codigos EXCEPT ![d].estado = "USADO"]
<1>0. codigos \in [DOMAIN codigos -> Code]
  BY LenProperties DEF Typed, SellerTypes
<1>1. t \in [DOMAIN codigos -> Code]
  BY <1>0 DEF Code, CodeStates
<1>2. \A c \in DOMAIN codigos :
        /\ t[c].usuario = codigos[c].usuario
        /\ codigos[c].estado \in {"REVOCADO", "BORRADO"} => t[c].estado # "USADO"
  BY <1>0 DEF Code, Unexpired, Pending
<1> HIDE DEF t
<1>3. Follow(t) /\ DOMAIN t = DOMAIN codigos
  BY <1>1, <1>2, FollowInPlace
<1>4. QED  BY <1>3 DEF t

\* The latest code sent to an address is one of them.
LEMMA LatestCode ==
  ASSUME Typed, NEW S \in SUBSET DOMAIN codigos, S # {}
  PROVE  (CHOOSE c \in S : \A d \in S : d <= c) \in S
<1>1. S \in SUBSET (1..Len(codigos)) /\ Len(codigos) \in Nat
  BY CodesOf
<1>2. \E c \in S : \A d \in S : d <= c
  BY <1>1, Latest
<1>3. QED  BY <1>2

(***************************************************************************)
(* Sellers: what a step of SellerAccess does                               *)
(***************************************************************************)
\* A confirmation goes on: what it may have become after its step.
LEMMA ConfirmationGoesOn ==
  ASSUME Typed, NEW h \in Handlers, handlers[h].op = "confirmar"
  PROVE  /\ handlers[h] \in Confirmation /\ handlers[h].codigo \in DOMAIN codigos
         /\ \A s \in {"consume", "compensa"} :
              /\ [handlers[h] EXCEPT !.paso = s] \in Confirmation
              /\ [handlers[h] EXCEPT !.paso = s].codigo = handlers[h].codigo
              /\ [handlers[h] EXCEPT !.paso = s].cuenta = handlers[h].cuenta
         /\ \A n \in Nat :
              /\ [handlers[h] EXCEPT !.paso = "cuenta", !.cuenta = n] \in Confirmation
              /\ [handlers[h] EXCEPT !.paso = "cuenta", !.cuenta = n].codigo = handlers[h].codigo
              /\ [handlers[h] EXCEPT !.paso = "cuenta", !.cuenta = n].cuenta = n
              /\ [handlers[h] EXCEPT !.paso = "cuenta", !.cuenta = n].paso = "cuenta"
<1>1. handlers[h] \in Confirmation
  BY Families DEF Typed
<1>2. QED  BY <1>1 DEF Confirmation, Typed, SellerTypes

\* A confirmation that holds an account: the one it created for its person.
Holding(h) == handlers[h].op = "confirmar" /\ handlers[h].paso # "encontrado"

\* The requests after a seller step: a resend is of a person who has a code, a
\* confirmation is of a code on file and keeps the account it holds.
SellerTurn ==
  /\ Serves(SellerOps)
  /\ \A k \in Handlers :
       /\ handlers'[k].op = "reenviar" =>
            \/ handlers'[k] = handlers[k]
            \/ \E c \in DOMAIN codigos : handlers'[k].usuario = codigos[c].usuario
       /\ handlers'[k].op = "confirmar" =>
            /\ handlers'[k].codigo \in DOMAIN codigos
            /\ \/ handlers'[k].paso = "encontrado"
               \/ Holding(k) /\ handlers'[k].cuenta = handlers[k].cuenta
               \/ creadas' = creadas + 1

\* A request that is left as it was, or is answered.
LEMMA TurnSame ==
  ASSUME Typed, handlers' \in [Handlers -> Request],
         \A k \in Handlers : handlers'[k] = handlers[k] \/ handlers'[k] = Idle
  PROVE  SellerTurn
BY DEF SellerTurn, Serves, Typed, SellerTypes, Idle, Holding

LEMMA TurnNone == ASSUME Typed, UNCHANGED handlers PROVE SellerTurn
BY TurnSame DEF Typed

LEMMA TurnAnswer == ASSUME Typed, NEW h \in Handlers, Answer(h) PROVE SellerTurn
BY TurnSame, AnswerEffect DEF Typed

\* A request a seller step starts or moves on with.
LEMMA TurnServe ==
  ASSUME Typed, NEW h \in Handlers, NEW r \in SellerRequest, Serve(h, r),
         r.op = "reenviar" => \E c \in DOMAIN codigos : r.usuario = codigos[c].usuario,
         r.op = "confirmar" =>
           /\ r.codigo \in DOMAIN codigos
           /\ \/ r.paso = "encontrado"
              \/ Holding(h) /\ r.cuenta = handlers[h].cuenta
              \/ creadas' = creadas + 1
  PROVE  SellerTurn /\ handlers'[h] = r
<1>1. r \in Request /\ r.op \in SellerOps
  BY DEF Request, SellerRequest, SellerOps, Inviting, Resending, Confirmation, Removing
<1>2. /\ handlers'[h] = r
      /\ \A k \in Handlers \ {h} : handlers'[k] = handlers[k]
  BY <1>1, ServeEffect DEF Typed
<1>3. Serves(SellerOps)
  BY <1>1, ServesOne DEF Typed
<1>4. \A k \in Handlers : handlers[k].op = "confirmar" => handlers[k].codigo \in DOMAIN codigos
  BY DEF Typed, SellerTypes
<1>5. QED  BY <1>2, <1>3, <1>4 DEF SellerTurn, Holding

LEMMA CreateInvitationServes ==
  ASSUME Typed, NEW h \in Handlers, CreateInvitation(h) PROVE SellerTurn
<1>1. PICK p \in Persons, email \in Emails :
        Serve(h, [op |-> "invitar", paso |-> "lee", usuario |-> p, email |-> email,
                  nuevo |-> ~usuarios[p].existe, vistos |-> {}])
  BY DEF CreateInvitation
<1> DEFINE r == [op |-> "invitar", paso |-> "lee", usuario |-> p, email |-> email,
                 nuevo |-> ~usuarios[p].existe, vistos |-> {}]
<1>2. r \in SellerRequest
  BY DEF SellerRequest, Inviting
<1>3. QED  BY <1>1, <1>2, TurnServe

LEMMA UpsertMembershipServes ==
  ASSUME Typed, NEW h \in Handlers, UpsertMembership(h) PROVE SellerTurn
<1>1. handlers[h] \in Inviting
  BY Families DEF Typed, UpsertMembership
<1> DEFINE r == [handlers[h] EXCEPT !.paso = "escribe",
                   !.vistos = PendingOf(handlers[h].usuario, {handlers[h].email})]
<1>2. r \in SellerRequest /\ r.op = "invitar"
  BY <1>1, CodesOf DEF SellerRequest, Inviting
<1>3. Serve(h, r) \/ Answer(h)
  BY DEF UpsertMembership
<1> HIDE DEF r
<1>4. QED  BY <1>2, <1>3, TurnServe, TurnAnswer

LEMMA ResendServes ==
  ASSUME Typed, NEW h \in Handlers, ResendAccessCode(h)
  PROVE  /\ SellerTurn
         /\ \E c \in DOMAIN codigos :
              handlers'[h].op = "reenviar" /\ handlers'[h].usuario = codigos[c].usuario
<1>1. PICK email \in Emails :
        LET sent == {c \in DOMAIN codigos : codigos[c].email = email /\ codigos[c].estado # "BORRADO"}
            p == codigos[CHOOSE c \in sent : \A d \in sent : d <= c].usuario
        IN  sent # {} /\ Serve(h, [op |-> "reenviar", usuario |-> p, email |-> email,
                                   vistos |-> PendingOf(p, {email})])
  BY DEF ResendAccessCode
<1> DEFINE sent == {c \in DOMAIN codigos : codigos[c].email = email /\ codigos[c].estado # "BORRADO"}
           latest == CHOOSE c \in sent : \A d \in sent : d <= c
           p == codigos[latest].usuario
           r == [op |-> "reenviar", usuario |-> p, email |-> email, vistos |-> PendingOf(p, {email})]
<1>2. latest \in sent /\ sent \subseteq DOMAIN codigos
  BY <1>1, LatestCode
<1>3. Serve(h, r)
  BY <1>1
<1> HIDE DEF sent, latest
<1>4. p \in Persons
  BY <1>2, CodesOf DEF Code
<1>5. r \in SellerRequest /\ r.op = "reenviar" /\ r.usuario = p
  BY <1>4, CodesOf DEF SellerRequest, Resending
<1>6. handlers'[h] = r
  BY <1>3, <1>5, ServeEffect DEF Typed, Request
<1>7. QED  BY <1>2, <1>3, <1>5, <1>6, TurnServe

LEMMA FindServes ==
  ASSUME Typed, NEW h \in Handlers, FindPendingAccessCode(h)
  PROVE  /\ SellerTurn /\ handlers'[h] \in Confirmation
         /\ handlers'[h].paso = "encontrado" /\ handlers'[h].codigo \in DOMAIN codigos
<1>1. PICK c \in DOMAIN codigos :
        Serve(h, [op |-> "confirmar", paso |-> "encontrado", codigo |-> c, cuenta |-> Nobody])
  BY DEF FindPendingAccessCode
<1> DEFINE r == [op |-> "confirmar", paso |-> "encontrado", codigo |-> c, cuenta |-> Nobody]
<1>2. r \in Confirmation
  BY CodesOf DEF Confirmation
<1>3. handlers'[h] = r
  BY <1>1, <1>2, ServeEffect DEF Typed, Request, SellerRequest
<1>4. QED  BY <1>1, <1>2, <1>3, TurnServe DEF SellerRequest

LEMMA RemovalServes ==
  ASSUME Typed, NEW h \in Handlers, NEW mode \in {"baja", "borrar"}, DeletionTarget(h, mode)
  PROVE  SellerTurn /\ handlers'[h] \in Removing
<1>1. PICK p \in Persons : Serve(h, [op |-> mode, usuario |-> p, vistos |-> PendingOf(p, {})])
  BY DEF DeletionTarget
<1> DEFINE r == [op |-> mode, usuario |-> p, vistos |-> PendingOf(p, {})]
<1>2. r \in Removing
  BY CodesOf DEF Removing
<1>3. handlers'[h] = r
  BY <1>1, <1>2, ServeEffect DEF Typed, Request, SellerRequest
<1>4. QED  BY <1>1, <1>2, <1>3, TurnServe DEF SellerRequest

\* The new account has the next number, which nobody holds yet.
LEMMA AccountServes ==
  ASSUME Typed, NEW h \in Handlers, NewAccount(h, codigos[handlers[h].codigo].email),
         handlers[h].op = "confirmar"
  PROVE  /\ SellerTurn /\ handlers'[h] \in Confirmation
         /\ handlers'[h].paso = "cuenta" /\ handlers'[h].cuenta = creadas + 1
         /\ handlers'[h].codigo = handlers[h].codigo
<1> DEFINE r == [handlers[h] EXCEPT !.paso = "cuenta", !.cuenta = creadas + 1]
<1>1. creadas + 1 \in Nat
  BY DEF Typed, SellerTypes
<1>2. /\ r \in Confirmation /\ r.cuenta = creadas + 1 /\ r.codigo = handlers[h].codigo
  BY <1>1, ConfirmationGoesOn
<1>3. r.paso = "cuenta"
  BY <1>1, ConfirmationGoesOn
<1>4. Serve(h, r)
  BY DEF NewAccount
<1> HIDE DEF r
<1>5. handlers'[h] = r
  BY <1>2, <1>4, ServeEffect DEF Typed, Request, SellerRequest
<1>6. r.op = "confirmar" /\ r.codigo \in DOMAIN codigos /\ creadas' = creadas + 1
  BY <1>2, ConfirmationGoesOn DEF Confirmation, NewAccount
<1>7. QED  BY <1>2, <1>3, <1>4, <1>5, <1>6, TurnServe DEF SellerRequest

LEMMA GoToServes ==
  ASSUME Typed, NEW h \in Handlers, NEW s \in {"consume", "compensa"}, GoTo(h, s), Holding(h)
  PROVE  /\ SellerTurn /\ handlers'[h] \in Confirmation /\ handlers'[h].paso = s
         /\ handlers'[h].cuenta = handlers[h].cuenta /\ handlers'[h].codigo = handlers[h].codigo
<1> DEFINE r == [handlers[h] EXCEPT !.paso = s]
<1>1. /\ r \in Confirmation /\ r.cuenta = handlers[h].cuenta /\ r.codigo = handlers[h].codigo
      /\ handlers[h] \in Confirmation /\ handlers[h].codigo \in DOMAIN codigos
  BY ConfirmationGoesOn DEF Holding
<1>2. r.paso = s
  BY <1>1 DEF Confirmation
<1>3. Serve(h, r)
  BY DEF GoTo
<1> HIDE DEF r
<1>4. handlers'[h] = r
  BY <1>1, <1>3, ServeEffect DEF Typed, Request, SellerRequest
<1>5. r.op = "confirmar" /\ r.codigo \in DOMAIN codigos
  BY <1>1 DEF Confirmation
<1>6. QED  BY <1>1, <1>2, <1>3, <1>4, <1>5, TurnServe DEF SellerRequest

LEMMA SellerTurns == ASSUME Typed, SellerNext PROVE SellerTurn
<1>1. ASSUME NEW h \in Handlers,
             IssueInvitation(h) \/ IssueCode(h) \/ InvitationFails(h) \/ SafeDeleteAuthUser(h)
               \/ SoftDeleteSeller(h) \/ HardDeleteSeller(h)
      PROVE  SellerTurn
  <2>1. Answer(h)
    BY <1>1 DEF IssueInvitation, IssueCode, InvitationFails, SafeDeleteAuthUser, SoftDeleteSeller,
                HardDeleteSeller
  <2>2. QED  BY <2>1, TurnAnswer
<1>2. ASSUME NEW h \in Handlers, CreateAuthUser(h) PROVE SellerTurn
  BY <1>2, AccountServes, TurnAnswer DEF CreateAuthUser, Confirming
<1>3. ASSUME NEW h \in Handlers, FindAgain(h) \/ StatementFails(h) PROVE SellerTurn
  BY <1>3, GoToServes DEF FindAgain, StatementFails, Confirming, Holding
<1>4. ASSUME NEW h \in Handlers, ConsumeAccessCode(h) PROVE SellerTurn
  BY <1>4, GoToServes, TurnAnswer DEF ConsumeAccessCode, Activate, Confirming, Holding
<1>5. ASSUME NEW c \in 1..MaxCodes, RevokeInvitation(c) \/ Expire(c) PROVE SellerTurn
  BY <1>5, TurnNone DEF RevokeInvitation, Expire
<1>6. ASSUME NEW p \in Persons, RecordSale(p) PROVE SellerTurn
  BY <1>6, TurnNone DEF RecordSale
<1>7. ASSUME Crash PROVE SellerTurn
  BY <1>7, TurnSame DEF Crash, Request
<1>8. QED
  BY <1>1, <1>2, <1>3, <1>4, <1>5, <1>6, <1>7, CreateInvitationServes, UpsertMembershipServes,
     ResendServes, FindServes, RemovalServes
  DEF SellerNext

\* Whatever a seller step does to the codes, their owners stay and what was
\* revoked is not used.
LEMMA CodesFollow ==
  ASSUME Typed, SellerNext
  PROVE  /\ Follow(codigos')
         /\ \A c \in DOMAIN codigos' \ DOMAIN codigos : \E h \in Handlers :
              handlers[h].op \in {"invitar", "reenviar"} /\ codigos'[c].usuario = handlers[h].usuario
              /\ (handlers[h].op = "invitar" => usuarios'[handlers[h].usuario].existe)
<1> DEFINE Goal ==
         /\ Follow(codigos')
         /\ \A c \in DOMAIN codigos' \ DOMAIN codigos : \E h \in Handlers :
              handlers[h].op \in {"invitar", "reenviar"} /\ codigos'[c].usuario = handlers[h].usuario
              /\ (handlers[h].op = "invitar" => usuarios'[handlers[h].usuario].existe)
<1>1. CASE UNCHANGED codigos
  BY <1>1, FollowSame
<1>2. ASSUME NEW h \in Handlers, IssueInvitation(h) PROVE Goal
  <2> DEFINE r == handlers[h]
  <2>1. r \in Inviting
    BY <1>2, Families DEF Typed, IssueInvitation
  <2>2. r.usuario \in Persons /\ r.email \in Emails /\ r.op = "invitar"
    BY <2>1 DEF Inviting
  <2>3. codigos' = Append(Revoked(r.vistos), NewCode(r.usuario, r.email))
    BY <1>2 DEF IssueInvitation
  <2>4. usuarios'[r.usuario].existe
    BY <1>2, <2>2 DEF IssueInvitation, Typed, SellerTypes
  <2>5. QED  BY <2>2, <2>3, <2>4, FollowIssued
<1>3. ASSUME NEW h \in Handlers, IssueCode(h) PROVE Goal
  <2> DEFINE r == handlers[h]
  <2>1. r \in Resending
    BY <1>3, Families DEF Typed, IssueCode
  <2>2. r.usuario \in Persons /\ r.email \in Emails /\ r.op = "reenviar"
    BY <2>1 DEF Resending
  <2>3. codigos' = codigos \/ codigos' = Append(Revoked(r.vistos), NewCode(r.usuario, r.email))
    BY <1>3 DEF IssueCode
  <2>4. CASE codigos' = Append(Revoked(r.vistos), NewCode(r.usuario, r.email))
    BY <2>2, <2>4, FollowIssued
  <2>5. QED  BY <1>1, <2>3, <2>4
<1>4. ASSUME NEW h \in Handlers, ConsumeAccessCode(h) PROVE Goal
  <2>1. handlers[h].codigo \in DOMAIN codigos
    BY <1>4, ConfirmationGoesOn DEF ConsumeAccessCode, Confirming
  <2>2. codigos' = codigos
        \/ (/\ Unexpired(handlers[h].codigo)
            /\ codigos' = [codigos EXCEPT ![handlers[h].codigo].estado = "USADO"])
    <3>1. CASE Unexpired(handlers[h].codigo)
      BY <1>4, <3>1 DEF ConsumeAccessCode, Activate
    <3>2. CASE ~Unexpired(handlers[h].codigo)
      BY <1>4, <3>2 DEF ConsumeAccessCode, tenantRows
    <3>3. QED  BY <3>1, <3>2
  <2>3. QED  BY <1>1, <2>1, <2>2, FollowUsed
<1>5. ASSUME NEW h \in Handlers, SoftDeleteSeller(h) PROVE Goal
  <2>1. codigos' = codigos \/ codigos' = Revoked(handlers[h].vistos)
    BY <1>5 DEF SoftDeleteSeller
  <2>2. QED  BY <1>1, <2>1, FollowRevoked
<1>6. ASSUME NEW h \in Handlers, HardDeleteSeller(h) PROVE Goal
  <2>1. codigos' = codigos
        \/ codigos' = [c \in DOMAIN codigos |-> IF codigos[c].usuario = handlers[h].usuario
                         THEN [codigos[c] EXCEPT !.estado = "BORRADO"] ELSE codigos[c]]
    BY <1>6 DEF HardDeleteSeller
  <2> DEFINE t == [c \in DOMAIN codigos |-> IF codigos[c].usuario = handlers[h].usuario
                    THEN [codigos[c] EXCEPT !.estado = "BORRADO"] ELSE codigos[c]]
  <2>2. Follow(t) /\ DOMAIN t = DOMAIN codigos
    BY FollowDeleted
  <2>3. codigos' = codigos \/ codigos' = t
    BY <2>1
  <2> HIDE DEF t
  <2>4. QED  BY <1>1, <2>2, <2>3
<1>7. ASSUME NEW c \in 1..MaxCodes, RevokeInvitation(c) PROVE Goal
  BY <1>7, FollowRevoked DEF RevokeInvitation
<1>8. ASSUME NEW c \in 1..MaxCodes, Expire(c) PROVE Goal
  BY <1>8, FollowExpired DEF Expire
<1>9. QED
  BY <1>1, <1>2, <1>3, <1>4, <1>5, <1>6, <1>7, <1>8
  DEF SellerNext, tenantRows, CreateInvitation, UpsertMembership, ResendAccessCode, InvitationFails,
      FindPendingAccessCode, CreateAuthUser, FindAgain, StatementFails, SafeDeleteAuthUser,
      DeletionTarget, RecordSale, Crash

Flags == [existe : BOOLEAN, activo : BOOLEAN, eliminado : BOOLEAN]

\* The rows of sellers after an invitation of p and after a soft deletion of p.
Invited(f, p) == [f EXCEPT ![p].existe = TRUE, ![p].activo = FALSE]
SoftDeleted(f, p) == [f EXCEPT ![p].activo = FALSE, ![p].eliminado = TRUE]

LEMMA InvitedFlags ==
  ASSUME NEW f \in [Persons -> Flags], NEW p \in Persons
  PROVE  /\ Invited(f, p) \in [Persons -> Flags]
         /\ Invited(f, p)[p].existe /\ ~Invited(f, p)[p].activo
         /\ \A q \in Persons \ {p} : Invited(f, p)[q] = f[q]
<1> DEFINE g == [f EXCEPT ![p].existe = TRUE]
<1>1. /\ g \in [Persons -> Flags] /\ g[p].existe
      /\ \A q \in Persons \ {p} : g[q] = f[q]
  BY DEF Flags
<1> HIDE DEF g
<1> DEFINE r == [g[p] EXCEPT !.activo = FALSE]
<1>2. Invited(f, p) = [g EXCEPT ![p] = r]
  BY <1>1 DEF Invited, g
<1>3. g[p] \in Flags /\ r \in Flags /\ r.existe = g[p].existe /\ ~r.activo
  BY <1>1 DEF Flags
<1> HIDE DEF r
<1>4. Invited(f, p) \in [Persons -> Flags] /\ Invited(f, p)[p] = r
  BY <1>1, <1>2, <1>3
<1>5. \A q \in Persons \ {p} : Invited(f, p)[q] = f[q]
  BY <1>1, <1>2
<1>6. QED  BY <1>1, <1>3, <1>4, <1>5

LEMMA SoftDeletedFlags ==
  ASSUME NEW f \in [Persons -> Flags], NEW p \in Persons
  PROVE  /\ SoftDeleted(f, p) \in [Persons -> Flags]
         /\ SoftDeleted(f, p)[p].existe = f[p].existe /\ ~SoftDeleted(f, p)[p].activo
         /\ \A q \in Persons \ {p} : SoftDeleted(f, p)[q] = f[q]
<1> DEFINE g == [f EXCEPT ![p].activo = FALSE]
<1>1. /\ g \in [Persons -> Flags] /\ g[p].existe = f[p].existe /\ ~g[p].activo
      /\ \A q \in Persons \ {p} : g[q] = f[q]
  BY DEF Flags
<1> HIDE DEF g
<1> DEFINE r == [g[p] EXCEPT !.eliminado = TRUE]
<1>2. SoftDeleted(f, p) = [g EXCEPT ![p] = r]
  BY <1>1 DEF SoftDeleted, g
<1>3. g[p] \in Flags /\ r \in Flags /\ r.existe = g[p].existe /\ r.activo = g[p].activo
  BY <1>1 DEF Flags
<1> HIDE DEF r
<1>4. SoftDeleted(f, p) \in [Persons -> Flags] /\ SoftDeleted(f, p)[p] = r
  BY <1>1, <1>2, <1>3
<1>5. \A q \in Persons \ {p} : SoftDeleted(f, p)[q] = f[q]
  BY <1>1, <1>2
<1>6. QED  BY <1>1, <1>3, <1>4, <1>5

Profile == [existe : BOOLEAN, activo : BOOLEAN, auth : {Nobody} \cup Nat]

\* Linking the account of a confirmation to the profile of its person.
Linked(f, p, n) == [f EXCEPT ![p].activo = TRUE, ![p].auth = n]

LEMMA LinkedProfile ==
  ASSUME NEW f \in [Persons -> Profile], NEW p \in Persons, NEW n \in {Nobody} \cup Nat
  PROVE  /\ Linked(f, p, n) \in [Persons -> Profile]
         /\ Linked(f, p, n)[p].existe = f[p].existe
         /\ Linked(f, p, n)[p].activo /\ Linked(f, p, n)[p].auth = n
         /\ \A q \in Persons \ {p} : Linked(f, p, n)[q] = f[q]
<1> DEFINE g == [f EXCEPT ![p].activo = TRUE]
<1>1. /\ g \in [Persons -> Profile] /\ g[p].existe = f[p].existe /\ g[p].activo
      /\ \A q \in Persons \ {p} : g[q] = f[q]
  BY DEF Profile
<1>2. Linked(f, p, n) = [g EXCEPT ![p].auth = n]
  BY DEF Linked
<1> HIDE DEF g
<1>3. QED  BY <1>1, <1>2 DEF Profile

LEMMA SellerTypesStep == ASSUME Typed, SellerNext PROVE SellerTypes'
<1>0. SellerTypes
  BY DEF Typed
<1> DEFINE Rows ==
         /\ usuarios \in [Persons -> [existe : BOOLEAN, activo : BOOLEAN, auth : {Nobody} \cup Nat]]
         /\ membresias \in [Persons -> {"NINGUNA", "INVITADO", "ACTIVO", "SUSPENDIDO", "REVOCADO"}]
         /\ vendedores \in [Persons -> [existe : BOOLEAN, activo : BOOLEAN, eliminado : BOOLEAN]]
         Accts == creadas \in Nat /\ cuentas \subseteq [id : 1..creadas, email : Emails]
         Sold == ventas \subseteq Persons
<1>1. Rows /\ Accts /\ Sold
  BY <1>0 DEF SellerTypes
<1>2. ASSUME NEW h \in Handlers, IssueInvitation(h) PROVE (Rows /\ Accts /\ Sold)'
  <2>1. handlers[h] \in Inviting
    BY <1>2, Families DEF Typed, IssueInvitation
  <2>2. handlers[h].usuario \in Persons
    BY <2>1 DEF Inviting
  <2>3. vendedores' = Invited(vendedores, handlers[h].usuario)
    BY <1>2 DEF IssueInvitation, Invited
  <2>4. /\ usuarios' = [usuarios EXCEPT ![handlers[h].usuario].existe = TRUE]
        /\ membresias' = [membresias EXCEPT ![handlers[h].usuario] = "INVITADO"]
        /\ UNCHANGED <<cuentas, creadas, ventas>>
    BY <1>2 DEF IssueInvitation
  <2>5. vendedores' \in [Persons -> Flags]
    BY <1>1, <2>2, <2>3, InvitedFlags DEF Flags
  <2>6. usuarios' \in [Persons -> [existe : BOOLEAN, activo : BOOLEAN, auth : {Nobody} \cup Nat]]
    BY <1>1, <2>2, <2>4
  <2>7. QED  BY <1>1, <2>2, <2>4, <2>5, <2>6 DEF Flags
<1>3. ASSUME NEW h \in Handlers, CreateAuthUser(h) PROVE (Rows /\ Accts /\ Sold)'
  <2> DEFINE email == codigos[handlers[h].codigo].email
  <2>1. email \in Emails
    BY <1>3, ConfirmationGoesOn, CodesOf DEF CreateAuthUser, Confirming, Code
  <2>2. \/ UNCHANGED <<creadas, cuentas>>
        \/ creadas' = creadas + 1 /\ cuentas' = cuentas \cup {[id |-> creadas + 1, email |-> email]}
    BY <1>3 DEF CreateAuthUser, NewAccount
  <2>3. UNCHANGED <<tenantRows, ventas>>
    BY <1>3 DEF CreateAuthUser
  <2> HIDE DEF email
  <2>4. QED  BY <1>1, <2>1, <2>2, <2>3 DEF tenantRows
<1>4. ASSUME NEW h \in Handlers, ConsumeAccessCode(h) PROVE (Rows /\ Accts /\ Sold)'
  <2>1. UNCHANGED <<cuentas, creadas, ventas>>
    BY <1>4 DEF ConsumeAccessCode
  <2>2. CASE Unexpired(handlers[h].codigo)
    <3>1. /\ codigos[handlers[h].codigo].usuario \in Persons
          /\ handlers[h].cuenta \in {Nobody} \cup Nat
      BY <1>4, ConfirmationGoesOn, CodesOf DEF ConsumeAccessCode, Confirming, Code, Confirmation
    <3>2. LET p == codigos[handlers[h].codigo].usuario
          IN  /\ usuarios' = Linked(usuarios, p, handlers[h].cuenta)
              /\ vendedores' = [vendedores EXCEPT ![p].activo = TRUE]
              /\ membresias' = [membresias EXCEPT ![p] = "ACTIVO"]
      BY <1>4, <2>2 DEF ConsumeAccessCode, Activate, Linked
    <3>3. usuarios' \in [Persons -> Profile]
      BY <1>1, <3>1, <3>2, LinkedProfile DEF Profile
    <3>4. /\ vendedores' \in [Persons -> Flags]
          /\ membresias' \in [Persons ->
               {"NINGUNA", "INVITADO", "ACTIVO", "SUSPENDIDO", "REVOCADO"}]
      BY <1>1, <3>1, <3>2 DEF Flags
    <3>5. QED  BY <1>1, <2>1, <3>3, <3>4 DEF Profile, Flags
  <2>3. CASE ~Unexpired(handlers[h].codigo)
    BY <1>1, <1>4, <2>3 DEF ConsumeAccessCode, tenantRows
  <2>4. QED  BY <2>2, <2>3
<1>5. ASSUME NEW h \in Handlers, SafeDeleteAuthUser(h) PROVE (Rows /\ Accts /\ Sold)'
  BY <1>1, <1>5 DEF SafeDeleteAuthUser, tenantRows
<1>6. ASSUME NEW h \in Handlers, SoftDeleteSeller(h) \/ HardDeleteSeller(h)
      PROVE  (Rows /\ Accts /\ Sold)'
  <2>1. handlers[h].usuario \in Persons
    BY <1>6, Families DEF Typed, SoftDeleteSeller, HardDeleteSeller, Removing
  <2>2. UNCHANGED <<usuarios, cuentas, creadas, ventas>>
    BY <1>6 DEF SoftDeleteSeller, HardDeleteSeller
  <2>3. \/ UNCHANGED membresias
        \/ membresias' = [membresias EXCEPT ![handlers[h].usuario] = "SUSPENDIDO"]
        \/ membresias' = [membresias EXCEPT ![handlers[h].usuario] = "REVOCADO"]
    BY <1>6 DEF SoftDeleteSeller, HardDeleteSeller
  <2>4. \/ UNCHANGED vendedores
        \/ vendedores' = SoftDeleted(vendedores, handlers[h].usuario)
        \/ vendedores' = [vendedores EXCEPT ![handlers[h].usuario] =
                            [existe |-> FALSE, activo |-> FALSE, eliminado |-> FALSE]]
    <3>1. CASE SoftDeleteSeller(h)
      BY <3>1 DEF SoftDeleteSeller, SoftDeleted
    <3>2. CASE HardDeleteSeller(h)
      BY <3>2 DEF HardDeleteSeller
    <3>3. QED  BY <1>6, <3>1, <3>2
  <2>5. vendedores' \in [Persons -> Flags]
    <3>1. vendedores \in [Persons -> Flags]
      BY <1>1 DEF Flags
    <3>2. CASE vendedores' = SoftDeleted(vendedores, handlers[h].usuario)
      BY <2>1, <3>1, <3>2, SoftDeletedFlags
    <3>3. CASE vendedores' = [vendedores EXCEPT ![handlers[h].usuario] =
                              [existe |-> FALSE, activo |-> FALSE, eliminado |-> FALSE]]
      BY <2>1, <3>1, <3>3 DEF Flags
    <3>4. QED  BY <2>4, <3>1, <3>2, <3>3
  <2>6. QED  BY <1>1, <2>1, <2>2, <2>3, <2>5 DEF Flags
<1>7. ASSUME NEW p \in Persons, RecordSale(p) PROVE (Rows /\ Accts /\ Sold)'
  BY <1>1, <1>7 DEF RecordSale, tenantRows
<1>8. ASSUME UNCHANGED <<usuarios, membresias, vendedores, cuentas, creadas, ventas>>
      PROVE  (Rows /\ Accts /\ Sold)'
  BY <1>1, <1>8
<1> HIDE DEF Rows, Accts, Sold
<1>9. (Rows /\ Accts /\ Sold)'
  BY <1>2, <1>3, <1>4, <1>5, <1>6, <1>7, <1>8
  DEF SellerNext, tenantRows, CreateInvitation, UpsertMembership, ResendAccessCode, IssueCode,
      InvitationFails, FindPendingAccessCode, FindAgain, StatementFails, DeletionTarget,
      RevokeInvitation, Expire, Crash
<1>10. Follow(codigos') /\ SellerTurn
  BY CodesFollow, SellerTurns
<1>11. codigos' \in Seq(Code) /\ DOMAIN codigos \subseteq DOMAIN codigos'
  BY <1>10 DEF Follow
<1>12. \A h \in Handlers : handlers'[h].op = "confirmar" => handlers'[h].codigo \in DOMAIN codigos'
  BY <1>10, <1>11 DEF SellerTurn
<1>13. QED  BY <1>9, <1>11, <1>12 DEF SellerTypes, Rows, Accts, Sold

(***************************************************************************)
(* The three families together                                             *)
(***************************************************************************)
\* A step of one family leaves the requests of the others as they are.
LEMMA Frames ==
  ASSUME NEW ops, Serves(ops), NEW h \in Handlers, handlers'[h].op \notin ops \cup {"libre"}
  PROVE  handlers'[h] = handlers[h]
BY DEF Serves, Idle

LEMMA TypedInit == ASSUME Init PROVE Typed
<1>1. handlers \in [Handlers -> Request] /\ \A h \in Handlers : handlers[h].op = "libre"
  BY DEF Init, Request, Idle
<1>2. SellerTypes
  <2>1. codigos \in Seq(Code)
    BY EmptySeq DEF Init
  <2>2. QED  BY <1>1, <2>1 DEF Init, SellerTypes
<1>3. CredentialTypes
  BY PasswordsAssumption DEF Init, CredentialTypes
<1>4. AccessTypes
  <2>1. FullMatrix \in [Modules -> SUBSET Actions] /\ SellerMatrix \in [Modules -> SUBSET Actions]
    BY DEF FullMatrix, SellerMatrix
  <2>2. /\ Seeded \subseteq Row
        /\ \A row \in Seeded : row.rol \in {"ADMIN", "VENDEDOR"} /\ row.acciones # {}
    BY <2>1, RowsForTyped DEF Seeded, AllRoles
  <2>3. QED  BY <1>1, <2>2 DEF Init, AccessTypes, AllRoles, AccessOps
<1>5. QED  BY <1>1, <1>2, <1>3, <1>4 DEF Typed

LEMMA TypedStep == ASSUME Typed, [Next]_vars PROVE Typed'
<1>1. CASE SellerNext /\ OnlySellers
  <2>1. SellerTypes' /\ Serves(SellerOps)
    BY <1>1, SellerTypesStep, SellerTurns DEF SellerTurn
  <2>2. CredentialTypes'
    BY <1>1 DEF OnlySellers, Typed, CredentialTypes
  <2>3. \A h \in Handlers : handlers'[h].op \in AccessOps => handlers'[h] = handlers[h]
    BY <2>1, Frames DEF AccessOps, SellerOps
  <2>4. AccessTypes'
    BY <1>1, <2>3 DEF OnlySellers, Typed, AccessTypes
  <2>5. QED  BY <2>1, <2>2, <2>4 DEF Typed, Serves
<1>2. CASE CredentialNext /\ OnlyCredentials
  <2>1. CredentialTypes' /\ Serves({"clave"})
    BY <1>2, CredentialTypesStep, CredentialServes
  <2>2. \A h \in Handlers : handlers'[h].op \in AccessOps \cup {"confirmar"} => handlers'[h] = handlers[h]
    BY <2>1, Frames DEF AccessOps
  <2>3. AccessTypes'
    BY <1>2, <2>2 DEF OnlyCredentials, Typed, AccessTypes
  <2>4. SellerTypes'
    BY <1>2, <2>2 DEF OnlyCredentials, tenantRows, Typed, SellerTypes
  <2>5. QED  BY <2>1, <2>3, <2>4 DEF Typed, Serves
<1>3. CASE AccessNext /\ OnlyAccess
  <2>1. AccessTypes' /\ Serves(AccessOps)
    BY <1>3, AccessTypesStep, AccessServes
  <2>2. \A h \in Handlers : handlers'[h].op = "confirmar" => handlers'[h] = handlers[h]
    BY <2>1, Frames DEF AccessOps
  <2>3. CredentialTypes'
    BY <1>3 DEF OnlyAccess, Typed, CredentialTypes
  <2>4. SellerTypes'
    BY <1>3, <2>2 DEF OnlyAccess, tenantRows, Typed, SellerTypes
  <2>5. QED  BY <2>1, <2>3, <2>4 DEF Typed, Serves
<1>4. CASE UNCHANGED vars
  BY <1>4 DEF vars, sellerVars, credentialVars, accessVars, Typed, SellerTypes, CredentialTypes,
              AccessTypes
<1>5. QED  BY <1>1, <1>2, <1>3, <1>4 DEF Next

\* Every row, code, account, session and request keeps its kind, through any
\* interleaving of the three families of requests: the invariant the theorems
\* below start from.
THEOREM TypedHolds == Spec => []Typed
<1>1. Init => Typed
  BY TypedInit
<1>2. Typed /\ [Next]_vars => Typed'
  BY TypedStep
<1>3. QED  BY <1>1, <1>2, PTL DEF Spec

(***************************************************************************)
(* A revoked code stays unusable                                           *)
(***************************************************************************)
\* Once a code is revoked or deleted, by whatever request, no confirmation that
\* had already found it consumes it, for any number of requests and codes.
THEOREM RevokedIsFinal == Spec => RevocationIsFinal
<1>1. ASSUME Typed, [Next]_vars
      PROVE  \A c \in DOMAIN codigos :
               codigos[c].estado \in {"REVOCADO", "BORRADO"} => codigos'[c].estado # "USADO"
  <2>1. CASE SellerNext
    BY <1>1, <2>1, CodesFollow DEF Follow
  <2>2. CASE UNCHANGED codigos
    BY <2>2
  <2>3. QED
    BY <1>1, <2>1, <2>2
    DEF Next, OnlyCredentials, OnlyAccess, tenantRows, vars, sellerVars
<1>2. QED  BY <1>1, TypedHolds, PTL DEF Spec, RevocationIsFinal

(***************************************************************************)
(* Flags of a seller, and sales                                            *)
(***************************************************************************)
\* The seller's flag is on only while the profile's is and the membership is
\* active; the row of a seller with sales is on file.
FlagsTogether ==
  \A p \in Persons :
    /\ vendedores[p].activo => usuarios[p].activo /\ membresias[p] = "ACTIVO"
    /\ p \in ventas => vendedores[p].existe

LEMMA FlagsTogetherStep == ASSUME Typed, FlagsTogether, SellerNext PROVE FlagsTogether'
<1>0. /\ usuarios \in [Persons -> Profile] /\ vendedores \in [Persons -> Flags]
      /\ membresias \in [Persons -> {"NINGUNA", "INVITADO", "ACTIVO", "SUSPENDIDO", "REVOCADO"}]
  BY DEF Typed, SellerTypes, Flags, Profile
<1>1. ASSUME NEW h \in Handlers, IssueInvitation(h) PROVE FlagsTogether'
  <2> DEFINE p == handlers[h].usuario
  <2>1. handlers[h] \in Inviting
    BY <1>1, Families DEF Typed, IssueInvitation
  <2>2. p \in Persons
    BY <2>1 DEF Inviting
  <2>3. vendedores' = Invited(vendedores, p)
    BY <1>1 DEF IssueInvitation, Invited
  <2>4. /\ usuarios' = [usuarios EXCEPT ![p].existe = TRUE]
        /\ membresias' = [membresias EXCEPT ![p] = "INVITADO"]
        /\ ventas' = ventas
    BY <1>1 DEF IssueInvitation
  <2> HIDE DEF p
  <2>5. /\ vendedores'[p].existe /\ ~vendedores'[p].activo
        /\ \A q \in Persons \ {p} : vendedores'[q] = vendedores[q]
    BY <1>0, <2>2, <2>3, InvitedFlags
  <2>6. \A q \in Persons \ {p} : usuarios'[q] = usuarios[q] /\ membresias'[q] = membresias[q]
    BY <1>0, <2>2, <2>4 DEF Profile
  <2>7. QED  BY <2>4, <2>5, <2>6 DEF FlagsTogether
<1>2. ASSUME NEW h \in Handlers, Confirming(h, "consume"), Activate(h), UNCHANGED ventas
      PROVE  FlagsTogether'
  <2> DEFINE p == codigos[handlers[h].codigo].usuario
             n == handlers[h].cuenta
  <2>1. p \in Persons /\ n \in {Nobody} \cup Nat
    BY <1>2, ConfirmationGoesOn, CodesOf DEF Confirming, Code, Confirmation
  <2>2. /\ usuarios' = Linked(usuarios, p, n)
        /\ vendedores' = [vendedores EXCEPT ![p].activo = TRUE]
        /\ membresias' = [membresias EXCEPT ![p] = "ACTIVO"]
    BY <1>2 DEF Activate, Linked
  <2> HIDE DEF p, n
  <2>3. /\ usuarios'[p].activo
        /\ \A q \in Persons \ {p} : usuarios'[q] = usuarios[q]
    BY <1>0, <2>1, <2>2, LinkedProfile
  <2>4. /\ membresias'[p] = "ACTIVO" /\ vendedores'[p].existe = vendedores[p].existe
        /\ \A q \in Persons \ {p} : vendedores'[q] = vendedores[q] /\ membresias'[q] = membresias[q]
    BY <1>0, <2>1, <2>2 DEF Flags
  <2>5. QED  BY <1>2, <2>3, <2>4 DEF FlagsTogether
<1>3. ASSUME NEW h \in Handlers, SoftDeleteSeller(h) PROVE FlagsTogether'
  <2> DEFINE p == handlers[h].usuario
  <2>1. p \in Persons
    BY <1>3, Families DEF Typed, SoftDeleteSeller, Removing
  <2>2. CASE vendedores[p].existe
    <3>1. /\ vendedores' = SoftDeleted(vendedores, p)
          /\ membresias' = [membresias EXCEPT ![p] = "SUSPENDIDO"]
          /\ UNCHANGED <<usuarios, ventas>>
      BY <1>3, <2>2 DEF SoftDeleteSeller, SoftDeleted
    <3> HIDE DEF p
    <3>2. /\ ~vendedores'[p].activo /\ vendedores'[p].existe = vendedores[p].existe
          /\ \A q \in Persons \ {p} : vendedores'[q] = vendedores[q]
      BY <1>0, <2>1, <3>1, SoftDeletedFlags
    <3>3. \A q \in Persons \ {p} : membresias'[q] = membresias[q]
      BY <1>0, <2>1, <3>1
    <3>4. QED  BY <3>1, <3>2, <3>3 DEF FlagsTogether
  <2>3. CASE ~vendedores[p].existe
    BY <1>3, <2>3 DEF SoftDeleteSeller, FlagsTogether
  <2>4. QED  BY <2>2, <2>3
<1>4. ASSUME NEW h \in Handlers, HardDeleteSeller(h) PROVE FlagsTogether'
  <2> DEFINE p == handlers[h].usuario
  <2>1. p \in Persons
    BY <1>4, Families DEF Typed, HardDeleteSeller, Removing
  <2>2. CASE vendedores[p].existe /\ p \notin ventas
    <3>1. /\ vendedores' = [vendedores EXCEPT ![p] = [existe |-> FALSE, activo |-> FALSE, eliminado |-> FALSE]]
          /\ membresias' = [membresias EXCEPT ![p] = "REVOCADO"]
          /\ UNCHANGED <<usuarios, ventas>>
      BY <1>4, <2>2 DEF HardDeleteSeller, ReferencedBySales
    <3> HIDE DEF p
    <3>2. QED  BY <1>0, <2>1, <2>2, <3>1 DEF FlagsTogether
  <2>3. CASE ~(vendedores[p].existe /\ p \notin ventas)
    BY <1>4, <2>3 DEF HardDeleteSeller, ReferencedBySales, FlagsTogether
  <2>4. QED  BY <2>2, <2>3
<1>5. ASSUME NEW p \in Persons, RecordSale(p) PROVE FlagsTogether'
  BY <1>5 DEF RecordSale, FlagsTogether, tenantRows
<1>6. ASSUME UNCHANGED <<usuarios, membresias, vendedores, ventas>> PROVE FlagsTogether'
  BY <1>6 DEF FlagsTogether
<1>7. ASSUME NEW h \in Handlers, ConsumeAccessCode(h) PROVE FlagsTogether'
  BY <1>2, <1>6, <1>7 DEF ConsumeAccessCode, tenantRows
<1>8. QED
  BY <1>1, <1>3, <1>4, <1>5, <1>6, <1>7
  DEF SellerNext, tenantRows, CreateInvitation, UpsertMembership, ResendAccessCode, IssueCode,
      InvitationFails, FindPendingAccessCode, CreateAuthUser, FindAgain, StatementFails,
      SafeDeleteAuthUser, DeletionTarget, RevokeInvitation, Expire, Crash

LEMMA FlagsTogetherHolds == Spec => []FlagsTogether
<1>1. Init => FlagsTogether
  BY DEF Init, FlagsTogether
<1>2. ASSUME Typed, FlagsTogether, [Next]_vars PROVE FlagsTogether'
  <2>1. CASE UNCHANGED <<usuarios, membresias, vendedores, ventas>>
    BY <1>2, <2>1 DEF FlagsTogether
  <2>2. QED
    BY <1>2, <2>1, FlagsTogetherStep
    DEF Next, OnlyCredentials, OnlyAccess, tenantRows, vars, sellerVars
<1>3. QED  BY <1>1, <1>2, TypedHolds, PTL DEF Spec

\* The seller directory filtered by "active" lists exactly the sellers it shows
\* as active, whatever invitations, activations and removals overlap.
THEOREM DirectoryIsRight == Spec => []DirectoryAgrees
<1>1. FlagsTogether => DirectoryAgrees
  BY DEF FlagsTogether, DirectoryAgrees, ListedSellers, FlaggedActive, ShownActive
<1>2. QED  BY <1>1, FlagsTogetherHolds, PTL

\* A seller with sales on file keeps its row: no hard deletion, however it
\* overlaps the first sale, takes it.
THEOREM SellersOfSalesStay == Spec => []SalesKeepTheirSeller
<1>1. Typed /\ FlagsTogether => SalesKeepTheirSeller
  BY DEF FlagsTogether, SalesKeepTheirSeller, Typed, SellerTypes
<1>2. QED  BY <1>1, TypedHolds, FlagsTogetherHolds, PTL

(***************************************************************************)
(* Profiles and their accounts                                             *)
(***************************************************************************)
\* An active profile, the owner of a code and the addressee of a resend exist.
ProfilesExist ==
  /\ \A p \in Persons : usuarios[p].activo => usuarios[p].existe
  /\ \A c \in DOMAIN codigos : usuarios[codigos[c].usuario].existe
  /\ \A h \in Handlers : handlers[h].op = "reenviar" => usuarios[handlers[h].usuario].existe

\* An active profile has its account.  The account a confirmation created exists
\* until the confirmation ends, belongs to no active profile and to no other
\* confirmation: the clean-up of this one can then delete nobody else's.
AccountsKept ==
  /\ \A p \in Persons :
       IF usuarios[p].activo THEN \E a \in cuentas : a.id = usuarios[p].auth
                             ELSE usuarios[p].auth = Nobody
  /\ \A h \in Handlers : Holding(h) =>
       /\ \E a \in cuentas : a.id = handlers[h].cuenta
       /\ \A p \in Persons : usuarios[p].activo => usuarios[p].auth # handlers[h].cuenta
       /\ \A k \in Handlers \ {h} : Holding(k) => handlers[k].cuenta # handlers[h].cuenta

\* What a seller step does to the profiles.
LEMMA ProfilesAfter ==
  ASSUME Typed, ProfilesExist, SellerNext
  PROVE  /\ \A p \in Persons : usuarios[p].existe => usuarios'[p].existe
         /\ \A p \in Persons : usuarios'[p].activo => usuarios'[p].existe
<1>0. usuarios \in [Persons -> Profile]
  BY DEF Typed, SellerTypes, Profile
<1> DEFINE Goal == \A p \in Persons : /\ usuarios[p].existe => usuarios'[p].existe
                                      /\ usuarios'[p].activo => usuarios'[p].existe
<1>1. ASSUME UNCHANGED usuarios PROVE Goal
  BY <1>1 DEF ProfilesExist
<1>2. ASSUME NEW h \in Handlers, IssueInvitation(h) PROVE Goal
  <2>1. handlers[h] \in Inviting
    BY <1>2, Families DEF Typed, IssueInvitation
  <2>2. handlers[h].usuario \in Persons /\ usuarios' = [usuarios EXCEPT ![handlers[h].usuario].existe = TRUE]
    BY <1>2, <2>1 DEF IssueInvitation, Inviting
  <2>3. QED  BY <1>0, <2>2 DEF ProfilesExist, Profile
<1>3. ASSUME NEW h \in Handlers, ConsumeAccessCode(h) PROVE Goal
  <2> DEFINE p == codigos[handlers[h].codigo].usuario
             n == handlers[h].cuenta
  <2>1. p \in Persons /\ n \in {Nobody} \cup Nat /\ usuarios[p].existe
    BY <1>3, ConfirmationGoesOn, CodesOf DEF ConsumeAccessCode, Confirming, Code, Confirmation, ProfilesExist
  <2>2. usuarios' = usuarios \/ usuarios' = Linked(usuarios, p, n)
    <3>1. CASE Unexpired(handlers[h].codigo)
      BY <1>3, <3>1 DEF ConsumeAccessCode, Activate, Linked
    <3>2. CASE ~Unexpired(handlers[h].codigo)
      BY <1>3, <3>2 DEF ConsumeAccessCode, tenantRows
    <3>3. QED  BY <3>1, <3>2
  <2> HIDE DEF p, n
  <2>3. CASE usuarios' = Linked(usuarios, p, n)
    <3>1. /\ usuarios'[p].existe
          /\ \A q \in Persons \ {p} : usuarios'[q] = usuarios[q]
      BY <1>0, <2>1, <2>3, LinkedProfile
    <3>2. QED  BY <3>1 DEF ProfilesExist
  <2>4. QED  BY <1>1, <2>2, <2>3
<1>4. Goal
  BY <1>1, <1>2, <1>3
  DEF SellerNext, tenantRows, CreateInvitation, UpsertMembership, ResendAccessCode, IssueCode,
      InvitationFails, FindPendingAccessCode, CreateAuthUser, FindAgain, StatementFails,
      SafeDeleteAuthUser, DeletionTarget, RevokeInvitation, Expire, Crash, SoftDeleteSeller,
      HardDeleteSeller, RecordSale
<1>5. QED  BY <1>4

LEMMA ProfilesStep == ASSUME Typed, ProfilesExist, SellerNext PROVE ProfilesExist'
<1>1. /\ \A p \in Persons : usuarios[p].existe => usuarios'[p].existe
      /\ \A p \in Persons : usuarios'[p].activo => usuarios'[p].existe
  BY ProfilesAfter
<1>2. \A h \in Handlers : handlers[h].op \in {"invitar", "reenviar"} => handlers[h].usuario \in Persons
  BY Families DEF Typed, Inviting, Resending
<1>3. \A c \in DOMAIN codigos : codigos[c].usuario \in Persons
  BY CodesOf DEF Code
<1>4. \A c \in DOMAIN codigos' : usuarios'[codigos'[c].usuario].existe
  <2>1. TAKE c \in DOMAIN codigos'
  <2>2. CASE c \in DOMAIN codigos
    BY <1>1, <1>3, <2>2, CodesFollow DEF Follow, ProfilesExist
  <2>3. CASE c \notin DOMAIN codigos
    <3>1. PICK h \in Handlers :
            /\ handlers[h].op \in {"invitar", "reenviar"} /\ codigos'[c].usuario = handlers[h].usuario
            /\ handlers[h].op = "invitar" => usuarios'[handlers[h].usuario].existe
      BY <2>3, CodesFollow
    <3>2. QED  BY <1>1, <1>2, <3>1 DEF ProfilesExist
  <2>4. QED  BY <2>2, <2>3
<1>5. \A h \in Handlers : handlers'[h].op = "reenviar" => usuarios'[handlers'[h].usuario].existe
  BY <1>1, <1>2, <1>3, SellerTurns DEF SellerTurn, ProfilesExist
<1>6. QED  BY <1>1, <1>4, <1>5 DEF ProfilesExist

\* A step that creates no account leaves to the confirmations the accounts they hold.
LEMMA HoldingAfter ==
  ASSUME Typed, SellerNext, creadas' = creadas
  PROVE  \A k \in Handlers : Holding(k)' => Holding(k) /\ handlers'[k].cuenta = handlers[k].cuenta
<1>1. creadas' # creadas + 1
  BY DEF Typed, SellerTypes
<1>2. QED  BY <1>1, SellerTurns DEF SellerTurn, Holding

\* Profiles may appear; what links them to accounts, and the accounts, stay.
LEMMA AccountsSame ==
  ASSUME Typed, AccountsKept, UNCHANGED cuentas,
         \A k \in Handlers : Holding(k)' => Holding(k) /\ handlers'[k].cuenta = handlers[k].cuenta,
         \A p \in Persons : usuarios'[p].activo = usuarios[p].activo /\ usuarios'[p].auth = usuarios[p].auth
  PROVE  AccountsKept'
BY DEF AccountsKept

\* The new account has a number nobody is linked to, and one confirmation holds it.
LEMMA AccountsCreated ==
  ASSUME Typed, AccountsKept, NEW h \in Handlers, CreateAuthUser(h) PROVE AccountsKept'
<1> DEFINE email == codigos[handlers[h].codigo].email
<1>0. UNCHANGED usuarios /\ handlers[h].op = "confirmar"
  BY DEF CreateAuthUser, tenantRows, Confirming
<1>1. CASE Registered(email)
  <2>1. Answer(h) /\ UNCHANGED <<cuentas, creadas>>
    BY <1>1 DEF CreateAuthUser
  <2>2. \A k \in Handlers : Holding(k)' => Holding(k) /\ handlers'[k].cuenta = handlers[k].cuenta
    BY <2>1, AnswerEffect DEF Typed, Holding, Idle
  <2>3. QED  BY <1>0, <2>1, <2>2, AccountsSame
<1>2. CASE ~Registered(email)
  <2>1. NewAccount(h, email)
    BY <1>2 DEF CreateAuthUser
  <2> DEFINE new == [id |-> creadas + 1, email |-> email]
  <2>2. cuentas' = cuentas \cup {new} /\ new.id = creadas + 1
    BY <2>1 DEF NewAccount
  <2>3. /\ handlers'[h].cuenta = creadas + 1 /\ handlers'[h] \in Confirmation
    BY <1>0, <2>1, AccountServes
  <2>4. \A k \in Handlers \ {h} : handlers'[k] = handlers[k]
    <3> DEFINE r == [handlers[h] EXCEPT !.paso = "cuenta", !.cuenta = creadas + 1]
    <3>1. creadas + 1 \in Nat
      BY DEF Typed, SellerTypes
    <3>2. r \in Confirmation
      BY <1>0, <3>1, ConfirmationGoesOn
    <3>3. Serve(h, r)
      BY <2>1 DEF NewAccount
    <3> HIDE DEF r
    <3>4. QED  BY <3>2, <3>3, ServeEffect DEF Typed, Request, SellerRequest
  <2> HIDE DEF new, email
  <2>5. \A a \in cuentas : a.id # creadas + 1
    BY DEF Typed, SellerTypes
  <2>6. \A p \in Persons : usuarios[p].activo => usuarios[p].auth # creadas + 1
    BY <2>5 DEF AccountsKept
  <2>7. \A k \in Handlers : Holding(k) => handlers[k].cuenta # creadas + 1
    BY <2>5 DEF AccountsKept
  <2>8. \A k \in Handlers \ {h} : Holding(k)' => Holding(k) /\ handlers'[k].cuenta = handlers[k].cuenta
    BY <2>4 DEF Holding
  <2>9. \A p \in Persons : IF usuarios'[p].activo THEN \E a \in cuentas' : a.id = usuarios'[p].auth
                                                  ELSE usuarios'[p].auth = Nobody
    BY <1>0, <2>2 DEF AccountsKept
  <2>10. \A k \in Handlers : Holding(k)' =>
           /\ \E a \in cuentas' : a.id = handlers'[k].cuenta
           /\ \A p \in Persons : usuarios'[p].activo => usuarios'[p].auth # handlers'[k].cuenta
           /\ \A j \in Handlers \ {k} : Holding(j)' => handlers'[j].cuenta # handlers'[k].cuenta
    <3>1. ASSUME NEW k \in Handlers, Holding(k)'
          PROVE  \E a \in cuentas' : a.id = handlers'[k].cuenta
      BY <2>2, <2>3, <2>8, <3>1 DEF AccountsKept
    <3>2. ASSUME NEW k \in Handlers, Holding(k)', NEW p \in Persons, usuarios'[p].activo
          PROVE  usuarios'[p].auth # handlers'[k].cuenta
      BY <1>0, <2>3, <2>6, <2>8, <3>2 DEF AccountsKept
    <3>3. ASSUME NEW k \in Handlers, Holding(k)', NEW j \in Handlers \ {k}, Holding(j)'
          PROVE  handlers'[j].cuenta # handlers'[k].cuenta
      BY <2>3, <2>7, <2>8, <3>3 DEF AccountsKept
    <3>4. QED  BY <3>1, <3>2, <3>3
  <2>11. QED  BY <2>9, <2>10 DEF AccountsKept
<1>3. QED  BY <1>1, <1>2

\* A confirmation that succeeds passes the account it holds to its profile.
LEMMA AccountsLinked ==
  ASSUME Typed, AccountsKept, NEW h \in Handlers, Confirming(h, "consume"), Activate(h),
         UNCHANGED <<cuentas, creadas>>
  PROVE  AccountsKept'
<1> DEFINE p == codigos[handlers[h].codigo].usuario
           n == handlers[h].cuenta
<1>0. usuarios \in [Persons -> Profile]
  BY DEF Typed, SellerTypes, Profile
<1>1. p \in Persons /\ n \in {Nobody} \cup Nat /\ Holding(h)
  BY ConfirmationGoesOn, CodesOf DEF Confirming, Code, Confirmation, Holding
<1>2. usuarios' = Linked(usuarios, p, n) /\ Answer(h)
  BY DEF Activate, Linked
<1>3. /\ \E a \in cuentas : a.id = n
      /\ \A k \in Handlers \ {h} : Holding(k) => handlers[k].cuenta # n
  BY <1>1 DEF AccountsKept
<1>4. \A k \in Handlers : Holding(k)' => k # h /\ Holding(k) /\ handlers'[k].cuenta = handlers[k].cuenta
  BY <1>2, AnswerEffect DEF Typed, Holding, Idle
<1> HIDE DEF p, n
<1>5. /\ usuarios'[p].activo /\ usuarios'[p].auth = n
      /\ \A q \in Persons \ {p} : usuarios'[q] = usuarios[q]
  BY <1>0, <1>1, <1>2, LinkedProfile
<1>6. ASSUME NEW q \in Persons
      PROVE  IF usuarios'[q].activo THEN \E a \in cuentas' : a.id = usuarios'[q].auth
                                    ELSE usuarios'[q].auth = Nobody
  BY <1>3, <1>5 DEF AccountsKept
<1>7. ASSUME NEW k \in Handlers, Holding(k)', NEW q \in Persons, usuarios'[q].activo
      PROVE  usuarios'[q].auth # handlers'[k].cuenta
  BY <1>3, <1>4, <1>5, <1>7 DEF AccountsKept
<1>8. ASSUME NEW k \in Handlers, Holding(k)'
      PROVE  /\ \E a \in cuentas' : a.id = handlers'[k].cuenta
             /\ \A j \in Handlers \ {k} : Holding(j)' => handlers'[j].cuenta # handlers'[k].cuenta
  BY <1>4, <1>8 DEF AccountsKept
<1>9. QED  BY <1>6, <1>7, <1>8 DEF AccountsKept

\* The clean-up of a confirmation deletes no account but its own.
LEMMA AccountsCleaned ==
  ASSUME Typed, AccountsKept, NEW h \in Handlers, SafeDeleteAuthUser(h) PROVE AccountsKept'
<1>1. /\ cuentas' = {a \in cuentas : a.id # handlers[h].cuenta} \/ cuentas' = cuentas
      /\ UNCHANGED usuarios /\ Answer(h) /\ Holding(h)
  BY DEF SafeDeleteAuthUser, tenantRows, Confirming, Holding
<1>2. \A k \in Handlers : Holding(k)' => k # h /\ Holding(k) /\ handlers'[k].cuenta = handlers[k].cuenta
  BY <1>1, AnswerEffect DEF Typed, Holding, Idle
<1>3. QED  BY <1>1, <1>2 DEF AccountsKept

LEMMA AccountsStep == ASSUME Typed, AccountsKept, SellerNext PROVE AccountsKept'
<1>1. ASSUME NEW h \in Handlers, ConsumeAccessCode(h) PROVE AccountsKept'
  <2>1. CASE Unexpired(handlers[h].codigo)
    BY <1>1, <2>1, AccountsLinked DEF ConsumeAccessCode
  <2>2. CASE ~Unexpired(handlers[h].codigo)
    BY <1>1, <2>2, AccountsSame, HoldingAfter DEF ConsumeAccessCode, tenantRows
  <2>3. QED  BY <2>1, <2>2
<1>2. ASSUME NEW h \in Handlers, IssueInvitation(h) PROVE AccountsKept'
  <2>1. UNCHANGED <<cuentas, creadas>> /\ usuarios' = [usuarios EXCEPT ![handlers[h].usuario].existe = TRUE]
    BY <1>2 DEF IssueInvitation
  <2>2. \A p \in Persons : usuarios'[p].activo = usuarios[p].activo /\ usuarios'[p].auth = usuarios[p].auth
    BY <2>1 DEF Typed, SellerTypes
  <2>3. QED  BY <2>1, <2>2, AccountsSame, HoldingAfter
<1>3. ASSUME UNCHANGED <<usuarios, cuentas, creadas>> PROVE AccountsKept'
  BY <1>3, AccountsSame, HoldingAfter
<1>4. QED
  BY <1>1, <1>2, <1>3, AccountsCreated, AccountsCleaned
  DEF SellerNext, tenantRows, CreateInvitation, UpsertMembership, ResendAccessCode, IssueCode,
      InvitationFails, FindPendingAccessCode, FindAgain, StatementFails, DeletionTarget,
      RevokeInvitation, Expire, Crash, SoftDeleteSeller, HardDeleteSeller, RecordSale

LEMMA LinksHold == Spec => [](ProfilesExist /\ AccountsKept)
<1> DEFINE Links == ProfilesExist /\ AccountsKept
<1>1. Init => Links
  BY DEF Init, ProfilesExist, AccountsKept, Holding, Idle
<1>2. ASSUME Typed, Links, [Next]_vars PROVE Links'
  <2>1. CASE SellerNext
    BY <1>2, <2>1, ProfilesStep, AccountsStep
  <2>2. ASSUME UNCHANGED <<usuarios, codigos, cuentas>>,
               \A h \in Handlers : handlers'[h].op \in {"reenviar", "confirmar"} => handlers'[h] = handlers[h]
        PROVE  Links'
    <3>1. ProfilesExist'
      BY <1>2, <2>2 DEF ProfilesExist
    <3>2. AccountsKept'
      BY <1>2, <2>2, AccountsSame DEF Holding
    <3>3. QED  BY <3>1, <3>2
  <2>3. CASE CredentialNext /\ OnlyCredentials
    BY <1>2, <2>2, <2>3, CredentialServes, Frames DEF OnlyCredentials, tenantRows
  <2>4. CASE AccessNext /\ OnlyAccess
    BY <1>2, <2>2, <2>4, AccessServes, Frames DEF OnlyAccess, AccessOps, tenantRows
  <2>5. CASE UNCHANGED vars
    BY <2>2, <2>5 DEF vars, sellerVars, tenantRows
  <2>6. QED  BY <1>2, <2>1, <2>3, <2>4, <2>5 DEF Next
<1>3. QED  BY <1>1, <1>2, TypedHolds, PTL DEF Spec

\* A profile that is active is linked to an account that exists: whatever
\* confirmations, revocations and removals overlap, and wherever the process
\* stops, the clean-up of a failed confirmation deletes no account in use.
THEOREM ActiveProfilesHaveAccounts == Spec => []LinkedAccountExists
<1>1. AccountsKept => LinkedAccountExists
  BY DEF AccountsKept, LinkedAccountExists
<1>2. QED  BY <1>1, LinksHold, PTL

(***************************************************************************)
(* Resets and sessions                                                     *)
(***************************************************************************)
\* No session is older than the last reset answered 200, which left a password
\* the account has had, and so does any reset about to close the sessions.
Closing ==
  /\ \A a \in Accounts : cerrado[a] <= clave[a]
  /\ \A s \in sesiones : cerrado[s.cuenta] <= s.clave
  /\ \A h \in Handlers : Resetting(h, "cierra") => handlers[h].clave <= clave[handlers[h].cuenta]

LEMMA Resets ==
  ASSUME Typed, NEW h \in Handlers, NEW s, Resetting(h, s)
  PROVE  handlers[h] \in ResetRequest /\ handlers[h].cuenta \in Accounts /\ handlers[h].clave \in Nat
<1>1. handlers[h] \in ResetRequest
  BY Families DEF Typed, Resetting
<1>2. QED  BY <1>1 DEF ResetRequest

\* A step that changes no password and starts no closing of sessions.
LEMMA ClosingSame ==
  ASSUME Typed, Closing, UNCHANGED <<clave, cerrado>>,
         \A k \in Handlers : Resetting(k, "cierra")' => handlers'[k] = handlers[k],
         \A s \in sesiones' : s \in sesiones \/ \E a \in Accounts : s = SessionOf(a)
  PROVE  Closing'
<1>1. \A k \in Handlers : Resetting(k, "cierra")' => Resetting(k, "cierra")
  BY DEF Resetting
<1>2. \A k \in Handlers : Resetting(k, "cierra")' => handlers'[k].clave <= clave'[handlers'[k].cuenta]
  BY <1>1 DEF Closing
<1>3. \A s \in sesiones' : cerrado'[s.cuenta] <= s.clave
  BY DEF Closing, SessionOf
<1>4. QED  BY <1>2, <1>3 DEF Closing

\* Starting a reset, or verifying its credential.
LEMMA NotClosing ==
  ASSUME Typed, NEW h \in Handlers, NEW r \in ResetRequest, Serve(h, r), r.paso # "cierra"
  PROVE  \A k \in Handlers : Resetting(k, "cierra")' => handlers'[k] = handlers[k]
<1>1. r \in Request
  BY DEF Request
<1>2. QED  BY <1>1, ServeEffect DEF Typed, Resetting

LEMMA NotClosingAnswer ==
  ASSUME Typed, NEW h \in Handlers, Answer(h)
  PROVE  \A k \in Handlers : Resetting(k, "cierra")' => k # h /\ handlers'[k] = handlers[k]
BY AnswerEffect DEF Typed, Resetting, Idle

LEMMA ClosingStep == ASSUME Typed, Closing, CredentialNext PROVE Closing'
<1>0. /\ clave \in [Accounts -> Nat] /\ cerrado \in [Accounts -> Nat]
      /\ \A s \in sesiones : s.cuenta \in Accounts /\ s.clave \in Nat
  BY PasswordsAssumption DEF Typed, CredentialTypes
<1>1. ASSUME NEW a \in Accounts, Login(a) \/ RequestPasswordReset(a) PROVE Closing'
  BY <1>1, ClosingSame DEF Login, RequestPasswordReset
<1>2. ASSUME NEW s \in sesiones, Logout(s) PROVE Closing'
  BY <1>2, ClosingSame DEF Logout
<1>3. ASSUME NEW a \in Accounts, NEW c \in Nat, NEW m \in {"codigo", "enlace", "admin"}
      PROVE  Reset(a, c, m) \in ResetRequest /\ Reset(a, c, m).paso # "cierra"
  BY DEF Reset, ResetRequest
<1>4. ASSUME NEW h \in Handlers, ConfirmPasswordReset(h) \/ ConfirmPasswordResetLink(h) PROVE Closing'
  <2>1. PICK mail \in correo, m \in {"codigo", "enlace"} : Serve(h, Reset(mail.cuenta, mail.codigo, m))
    BY <1>4 DEF ConfirmPasswordReset, ConfirmPasswordResetLink
  <2>2. mail.cuenta \in Accounts /\ mail.codigo \in Nat
    BY DEF Typed, CredentialTypes
  <2>3. UNCHANGED <<clave, cerrado, sesiones>>
    BY <1>4 DEF ConfirmPasswordReset, ConfirmPasswordResetLink
  <2>4. QED  BY <1>3, <2>1, <2>2, <2>3, NotClosing, ClosingSame
<1>5. ASSUME NEW h \in Handlers, AdminResetPassword(h) PROVE Closing'
  <2>1. PICK a \in Accounts : Serve(h, Reset(a, generados + 1, "admin"))
    BY <1>5 DEF AdminResetPassword
  <2>2. generados + 1 \in Nat
    BY DEF Typed, CredentialTypes
  <2>3. UNCHANGED <<clave, cerrado, sesiones>>
    BY <1>5 DEF AdminResetPassword
  <2>4. QED  BY <1>3, <2>1, <2>2, <2>3, NotClosing, ClosingSame
<1>6. ASSUME NEW h \in Handlers, VerifyOtp(h) PROVE Closing'
  <2>1. handlers[h] \in ResetRequest /\ handlers[h].cuenta \in Accounts
    BY <1>6, Resets DEF VerifyOtp
  <2> DEFINE r == [handlers[h] EXCEPT !.paso = "actualiza"]
  <2>2. r \in ResetRequest /\ r.paso # "cierra"
    BY <2>1 DEF ResetRequest
  <2>3. Serve(h, r) \/ Answer(h)
    BY <1>6 DEF VerifyOtp, ResetStep
  <2> HIDE DEF r
  <2>4. \A k \in Handlers : Resetting(k, "cierra")' => handlers'[k] = handlers[k]
    BY <2>2, <2>3, NotClosing, NotClosingAnswer
  <2>5. UNCHANGED <<clave, cerrado>> /\ sesiones' \subseteq sesiones \cup {SessionOf(handlers[h].cuenta)}
    BY <1>6 DEF VerifyOtp
  <2>6. QED  BY <2>1, <2>4, <2>5, ClosingSame
<1>7. ASSUME NEW h \in Handlers, UpdatePassword(h) PROVE Closing'
  <2> DEFINE a == handlers[h].cuenta
             r == [handlers[h] EXCEPT !.paso = "cierra", !.clave = clave[a] + 1]
  <2>1. handlers[h] \in ResetRequest /\ a \in Accounts
    BY <1>7, Resets DEF UpdatePassword
  <2>2. UNCHANGED <<sesiones, cerrado>>
    BY <1>7 DEF UpdatePassword
  <2>3. CASE Serve(h, r) /\ clave' = [clave EXCEPT ![a] = @ + 1]
    <3>1. clave[a] + 1 \in Nat
      BY <1>0, <2>1
    <3>2. r \in ResetRequest /\ r.cuenta = a /\ r.clave = clave[a] + 1
      BY <2>1, <3>1 DEF ResetRequest
    <3> HIDE DEF a, r
    <3>3. handlers'[h] = r /\ \A k \in Handlers \ {h} : handlers'[k] = handlers[k]
      BY <2>3, <3>2, ServeEffect DEF Typed, Request
    <3>4. /\ clave' \in [Accounts -> Nat] /\ clave'[a] = clave[a] + 1
          /\ \A b \in Accounts : clave[b] <= clave'[b]
      BY <1>0, <2>1, <2>3
    <3>5. \A b \in Accounts : cerrado[b] <= clave'[b]
      BY <1>0, <3>4 DEF Closing
    <3>6. ASSUME NEW k \in Handlers, Resetting(k, "cierra")'
          PROVE  handlers'[k].clave <= clave'[handlers'[k].cuenta]
      <4>1. CASE k = h
        BY <1>0, <2>1, <3>2, <3>3, <3>4, <4>1
      <4>2. CASE k # h
        <5>1. handlers'[k] = handlers[k] /\ Resetting(k, "cierra")
          BY <3>3, <3>6, <4>2 DEF Resetting
        <5>2. /\ handlers[k].cuenta \in Accounts /\ handlers[k].clave \in Nat
              /\ handlers[k].clave <= clave[handlers[k].cuenta]
          BY <5>1, Resets DEF Closing
        <5>3. QED  BY <1>0, <3>4, <5>1, <5>2
      <4>3. QED  BY <4>1, <4>2
    <3>7. QED  BY <2>2, <3>5, <3>6 DEF Closing
  <2>4. CASE Answer(h) /\ UNCHANGED clave
    BY <2>2, <2>4, NotClosingAnswer, ClosingSame
  <2>5. QED  BY <1>7, <2>3, <2>4 DEF UpdatePassword
<1>8. ASSUME NEW h \in Handlers, CloseSessions(h) PROVE Closing'
  <2> DEFINE a == handlers[h].cuenta
  <2>1. a \in Accounts /\ handlers[h].clave \in Nat /\ handlers[h].clave <= clave[a]
    BY <1>8, Resets DEF CloseSessions, Closing
  <2>2. UNCHANGED clave /\ Answer(h)
    BY <1>8 DEF CloseSessions
  <2>3. \A k \in Handlers : Resetting(k, "cierra")' => handlers'[k] = handlers[k]
    BY <2>2, NotClosingAnswer
  <2>4. CASE UNCHANGED <<sesiones, cerrado>>
    BY <2>2, <2>3, <2>4, ClosingSame
  <2>5. CASE /\ sesiones' = {s \in sesiones : s.cuenta # a}
             /\ cerrado' = [cerrado EXCEPT ![a] = IF @ < handlers[h].clave THEN handlers[h].clave ELSE @]
    <3>1. \A k \in Handlers : Resetting(k, "cierra")' => handlers'[k].clave <= clave'[handlers'[k].cuenta]
      BY <2>2, <2>3 DEF Closing, Resetting
    <3> HIDE DEF a
    <3>2. \A b \in Accounts \ {a} : cerrado'[b] = cerrado[b]
      BY <1>0, <2>5
    <3>3. cerrado'[a] <= clave[a]
      BY <1>0, <2>1, <2>5 DEF Closing
    <3>4. \A s \in sesiones' : s \in sesiones /\ s.cuenta \in Accounts \ {a}
      BY <1>0, <2>5
    <3>5. QED  BY <2>2, <3>1, <3>2, <3>3, <3>4 DEF Closing
  <2>6. QED  BY <1>8, <2>4, <2>5 DEF CloseSessions
<1>9. QED  BY <1>1, <1>2, <1>4, <1>5, <1>6, <1>7, <1>8 DEF CredentialNext

LEMMA ClosingHolds == Spec => []Closing
<1>1. Init => Closing
  BY DEF Init, Closing, Resetting, Idle
<1>2. ASSUME Typed, Closing, [Next]_vars PROVE Closing'
  <2>1. CASE CredentialNext
    BY <1>2, <2>1, ClosingStep
  <2>2. ASSUME UNCHANGED <<clave, cerrado, sesiones>>,
               \A h \in Handlers : handlers'[h].op = "clave" => handlers'[h] = handlers[h]
        PROVE  Closing'
    BY <1>2, <2>2, ClosingSame DEF Resetting
  <2>3. CASE SellerNext /\ OnlySellers
    BY <1>2, <2>2, <2>3, SellerTurns, Frames DEF SellerTurn, OnlySellers, SellerOps
  <2>4. CASE AccessNext /\ OnlyAccess
    BY <1>2, <2>2, <2>4, AccessServes, Frames DEF OnlyAccess, AccessOps
  <2>5. CASE UNCHANGED vars
    BY <2>2, <2>5 DEF vars, sellerVars, credentialVars
  <2>6. QED  BY <1>2, <2>1, <2>3, <2>4, <2>5 DEF Next
<1>3. QED  BY <1>1, <1>2, TypedHolds, PTL DEF Spec

\* After a reset answered 200 no session opened with an earlier password is
\* live, however many resets and logins run at once.
THEOREM ResetsCloseSessions == Spec => []ResetClosesOldSessions
<1>1. Typed /\ Closing => ResetClosesOldSessions
  BY PasswordsAssumption DEF Closing, ResetClosesOldSessions, Typed, CredentialTypes
<1>2. QED  BY <1>1, TypedHolds, ClosingHolds, PTL

(***************************************************************************)
(* The matrix of ADMIN                                                     *)
(***************************************************************************)
ManagementActions == {"read", "update"}

\* A replacement under way deletes rows of its own role only, and one of ADMIN
\* was checked to keep the management of roles and parameters.
Managing ==
  /\ \A modulo \in Managed, action \in ManagementActions : Permits("ADMIN", modulo, action)
  /\ \A h \in Handlers : handlers[h].op = "matriz" =>
       /\ \A row \in handlers[h].vistos : row.rol = handlers[h].rol
       /\ handlers[h].rol = "ADMIN" => AdminRetainsManagement(handlers[h].matriz)

LEMMA ManagingSame ==
  ASSUME Managing, UNCHANGED permisos,
         \A k \in Handlers : handlers'[k].op = "matriz" => handlers'[k] = handlers[k]
  PROVE  Managing'
BY DEF Managing, Permits, RowsOf

\* The rows a replacement inserts for ADMIN permit what ADMIN must keep.
LEMMA RowsManage ==
  ASSUME NEW matrix, AdminRetainsManagement(matrix), NEW n,
         NEW modulo \in Managed, NEW action \in ManagementActions
  PROVE  \E row \in RowsFor("ADMIN", matrix, n) :
           row.rol = "ADMIN" /\ row.modulo = modulo /\ action \in row.acciones
<1> DEFINE row == [rol |-> "ADMIN", modulo |-> modulo, acciones |-> matrix[modulo], autor |-> n]
<1>1. action \in matrix[modulo] /\ modulo \in Modules
  BY DEF AdminRetainsManagement, ManagementActions, Managed
<1>2. row \in RowsFor("ADMIN", matrix, n)
  BY <1>1 DEF RowsFor
<1>3. QED  BY <1>1, <1>2

LEMMA ManagingStep == ASSUME Typed, Managing, AccessNext PROVE Managing'
<1>1. ASSUME NEW m \in Members, NEW r \in RoleNames, CreateRole(m, r) PROVE Managing'
  BY <1>1, ManagingSame DEF CreateRole
<1>2. ASSUME NEW h \in Handlers, ReplaceRolePermissions(h) PROVE Managing'
  <2>1. PICK r \in roles, matrix \in Matrices :
          /\ r = "ADMIN" => AdminRetainsManagement(matrix)
          /\ Serve(h, [op |-> "matriz", rol |-> r, matriz |-> matrix, vistos |-> RowsOf(r)])
    BY <1>2 DEF ReplaceRolePermissions
  <2> DEFINE x == [op |-> "matriz", rol |-> r, matriz |-> matrix, vistos |-> RowsOf(r)]
  <2>2. x \in Replacing
    BY DEF Replacing, RowsOf, Typed, AccessTypes
  <2>3. handlers'[h] = x /\ \A k \in Handlers \ {h} : handlers'[k] = handlers[k]
    BY <2>1, <2>2, ServeEffect DEF Typed, Request, AccessRequest
  <2>4. x.rol = r /\ x.matriz = matrix /\ \A row \in x.vistos : row.rol = r
    BY DEF RowsOf
  <2>5. permisos' = permisos
    BY <1>2 DEF ReplaceRolePermissions
  <2> HIDE DEF x
  <2>6. ASSUME NEW k \in Handlers, handlers'[k].op = "matriz"
        PROVE  /\ \A row \in handlers'[k].vistos : row.rol = handlers'[k].rol
               /\ handlers'[k].rol = "ADMIN" => AdminRetainsManagement(handlers'[k].matriz)
    BY <2>1, <2>3, <2>4, <2>6 DEF Managing
  <2>7. \A modulo \in Managed, action \in ManagementActions : Permits("ADMIN", modulo, action)'
    BY <2>5 DEF Managing, Permits, RowsOf
  <2>8. QED  BY <2>6, <2>7 DEF Managing, AdminRetainsManagement
<1>3. ASSUME NEW h \in Handlers, WriteMatrix(h) PROVE Managing'
  <2> DEFINE q == handlers[h]
             rows == RowsFor(q.rol, q.matriz, escrituras + 1)
  <2>1. /\ permisos' = permisos \/ permisos' = (permisos \ q.vistos) \cup rows
        /\ Answer(h) /\ q.op = "matriz"
    BY <1>3 DEF WriteMatrix
  <2>2. \A k \in Handlers : handlers'[k].op = "matriz" => handlers'[k] = handlers[k]
    BY <2>1, AnswerEffect DEF Typed, Idle
  <2>3. CASE permisos' = permisos
    BY <2>2, <2>3, ManagingSame
  <2>4. CASE permisos' = (permisos \ q.vistos) \cup rows
    <3>1. ASSUME NEW modulo \in Managed, NEW action \in ManagementActions
          PROVE  Permits("ADMIN", modulo, action)'
      <4>1. CASE q.rol = "ADMIN"
        <5>1. \E row \in rows : row.rol = "ADMIN" /\ row.modulo = modulo /\ action \in row.acciones
          BY <2>1, <4>1, RowsManage DEF Managing
        <5> HIDE DEF rows, q
        <5>2. QED  BY <2>4, <5>1 DEF Permits, RowsOf
      <4>2. CASE q.rol # "ADMIN"
        <5>1. \A row \in q.vistos : row.rol # "ADMIN"
          BY <2>1, <4>2 DEF Managing
        <5>2. Permits("ADMIN", modulo, action)
          BY DEF Managing
        <5> HIDE DEF rows, q
        <5>3. QED  BY <2>4, <5>1, <5>2 DEF Permits, RowsOf
      <4>3. QED  BY <4>1, <4>2
    <3>2. QED  BY <2>2, <3>1 DEF Managing
  <2>5. QED  BY <2>1, <2>3, <2>4
<1>4. ASSUME NEW h \in Handlers, AssignUserRole(h) PROVE Managing'
  <2>1. PICK target \in Members, r \in roles :
          Serve(h, [op |-> "asignar", miembro |-> target, rol |-> r])
    BY <1>4 DEF AssignUserRole
  <2> DEFINE x == [op |-> "asignar", miembro |-> target, rol |-> r]
  <2>2. x \in Request /\ x.op # "matriz"
    BY DEF Request, AccessRequest, Assigning, Typed, AccessTypes
  <2>3. Serve(h, x) /\ permisos' = permisos
    BY <1>4, <2>1 DEF AssignUserRole
  <2> HIDE DEF x
  <2>4. QED  BY <2>2, <2>3, ServeEffect, ManagingSame DEF Typed
<1>5. ASSUME NEW h \in Handlers, WriteAssignment(h) PROVE Managing'
  BY <1>5, AnswerEffect, ManagingSame DEF WriteAssignment, Typed, Idle
<1>6. QED  BY <1>1, <1>2, <1>3, <1>4, <1>5 DEF AccessNext

LEMMA SeedManages == ASSUME permisos = Seeded PROVE \A modulo \in Managed, action \in ManagementActions : Permits("ADMIN", modulo, action)
<1>1. AdminRetainsManagement(FullMatrix)
  BY DEF AdminRetainsManagement, FullMatrix, Managed, Actions
<1>2. TAKE modulo \in Managed, action \in ManagementActions
<1>3. PICK row \in RowsFor("ADMIN", FullMatrix, 0) :
        row.rol = "ADMIN" /\ row.modulo = modulo /\ action \in row.acciones
  BY <1>1, RowsManage
<1>4. row \in RowsOf("ADMIN")
  BY <1>3 DEF RowsOf, Seeded
<1>5. QED  BY <1>3, <1>4 DEF Permits

LEMMA ManagingHolds == Spec => []Managing
<1>1. Init => Managing
  BY SeedManages DEF Init, Managing, Idle
<1>2. ASSUME Typed, Managing, [Next]_vars PROVE Managing'
  <2>1. CASE AccessNext
    BY <1>2, <2>1, ManagingStep
  <2>2. CASE SellerNext /\ OnlySellers
    BY <1>2, <2>2, ManagingSame, SellerTurns, Frames DEF SellerTurn, OnlySellers, SellerOps
  <2>3. CASE CredentialNext /\ OnlyCredentials
    BY <1>2, <2>3, ManagingSame, CredentialServes, Frames DEF OnlyCredentials
  <2>4. CASE UNCHANGED vars
    BY <1>2, <2>4, ManagingSame DEF vars, sellerVars, accessVars
  <2>5. QED  BY <1>2, <2>1, <2>2, <2>3, <2>4 DEF Next
<1>3. QED  BY <1>1, <1>2, TypedHolds, PTL DEF Spec

\* ADMIN reads and updates roles and parameters after any replacements of
\* matrices, its own and other roles', that overlap.
THEOREM AdminKeepsManaging == Spec => []AdminManages
<1>1. ASSUME Managing, NEW modulo \in Managed, NEW action \in {"read", "update"}
      PROVE  Permits("ADMIN", modulo, action) /\ action \in MatrixOf("ADMIN")[modulo]
  <2>1. Permits("ADMIN", modulo, action)
    BY <1>1 DEF Managing, ManagementActions
  <2>2. PICK row \in RowsOf("ADMIN") : row.modulo = modulo /\ action \in row.acciones
    BY <2>1 DEF Permits
  <2>3. action \in UNION {x.acciones : x \in {y \in RowsOf("ADMIN") : y.modulo = modulo}}
    BY <2>2
  <2>4. modulo \in Modules
    BY DEF Managed
  <2>5. QED  BY <2>1, <2>3, <2>4 DEF MatrixOf
<1>2. Managing => AdminManages
  BY <1>1 DEF AdminManages
<1>3. QED  BY <1>2, ManagingHolds, PTL

\* The rows of every family keep the domains the database's enumerations and
\* foreign keys give them.
THEOREM RowsKeepTheirTypes == Spec => []TypeOK
<1>1. ASSUME Typed, ProfilesExist, AccountsKept PROVE TypeOK
  <2>1. ASSUME NEW p \in Persons
        PROVE  /\ membresias[p] \in {"NINGUNA", "INVITADO", "ACTIVO", "SUSPENDIDO", "REVOCADO"}
               /\ usuarios[p] \in [existe : BOOLEAN, activo : BOOLEAN, auth : {Nobody} \cup 1 .. creadas]
               /\ vendedores[p] \in [existe : BOOLEAN, activo : BOOLEAN, eliminado : BOOLEAN]
               /\ usuarios[p].activo => usuarios[p].existe /\ usuarios[p].auth # Nobody
    <3>1. \A a \in cuentas : a.id \in 1..creadas
      BY <1>1 DEF Typed, SellerTypes
    <3>2. \A n \in 1..creadas : n # Nobody
      BY NobodyAssumption, <1>1 DEF Typed, SellerTypes
    <3>3. /\ usuarios[p].auth \in {Nobody} \cup 1..creadas
          /\ usuarios[p].activo => usuarios[p].existe /\ usuarios[p].auth # Nobody
      BY <1>1, <3>1, <3>2 DEF ProfilesExist, AccountsKept
    <3>4. usuarios[p] \in Profile
      BY <1>1 DEF Typed, SellerTypes, Profile
    <3>5. usuarios[p] \in [existe : BOOLEAN, activo : BOOLEAN, auth : {Nobody} \cup 1 .. creadas]
      BY <3>3, <3>4 DEF Profile
    <3>6. QED  BY <1>1, <3>3, <3>5 DEF Typed, SellerTypes
  <2>2. \A c \in DOMAIN codigos :
          codigos[c] \in [usuario : Persons, email : Emails, estado : CodeStates, vencido : BOOLEAN]
    BY <1>1, CodesOf DEF Code
  <2>3. \A a \in cuentas : a.id \in 1 .. creadas /\ a.email \in Emails
    BY <1>1 DEF Typed, SellerTypes
  <2>4. QED  BY <1>1, <2>1, <2>2, <2>3 DEF TypeOK, Typed, SellerTypes, CredentialTypes, AccessTypes
<1>2. QED  BY <1>1, TypedHolds, LinksHold, PTL
=============================================================================

---- MODULE AccessControl ----
(***************************************************************************)
(* Roles, their permission matrix and the members that hold them, in one   *)
(* tenant.  A request is authorised by the guards once, from the role its  *)
(* actor holds when the request starts, and acts later.  Replacing a       *)
(* matrix deletes the rows of the role and inserts the rows asked for: the *)
(* DELETE removes the rows of its snapshot, the INSERT meets the primary   *)
(* key (rol_id, modulo_id).                                                *)
(***************************************************************************)
EXTENDS TenantRequests, Naturals, FiniteSets

CONSTANTS Members,      \* memberships of the tenant
          RoleNames,    \* roles an administrator may create
          Modules,      \* module codes of the catalogue
          Matrices,     \* matrices asked for: the actions of each module named
          MaxWrites     \* bound: matrices ever written

ASSUME MatricesAssumption == Matrices \subseteq [Modules -> SUBSET {"read", "create", "update"}]

VARIABLES roles,        \* roles that exist
          permisos,     \* permisos_por_rol: role, module, actions, writer
          rol,          \* membresias_tenant.rol_id
          escrituras    \* matrices written, which numbers the next writer

accessVars == <<roles, permisos, rol, escrituras, handlers>>

Actions == {"read", "create", "update"}
Managed == {"ROLES", "PARAMETROS"} \cap Modules

RowsOf(r) == {row \in permisos : row.rol = r}

\* Effective permissions: the modules and the keys the guards compare.
ModulesOf(r) == {row.modulo : row \in RowsOf(r)}
Permits(r, modulo, action) ==
    \E row \in RowsOf(r) : row.modulo = modulo /\ action \in row.acciones

\* The matrix of a role as the API shows it: every module of the catalogue.
MatrixOf(r) ==
    [modulo \in Modules |-> UNION {row.acciones : row \in {x \in RowsOf(r) : x.modulo = modulo}}]

\* RequireModules(ROLES) and Permissions(roles.update) of the controller.
Authorised(m, action) == "ROLES" \in ModulesOf(rol[m]) /\ Permits(rol[m], "ROLES", action)

\* The check of a matrix meant for ADMIN.
AdminRetainsManagement(matrix) ==
    \A modulo \in Managed : {"read", "update"} \subseteq matrix[modulo]

\* Every module of the matrix, with permissions or without.
RowsForAll(r, matrix, n) ==
    {[rol |-> r, modulo |-> modulo, acciones |-> matrix[modulo], autor |-> n] :
        modulo \in Modules}

\* Rows without any permission are not inserted.
RowsFor(r, matrix, n) ==
    {[rol |-> r, modulo |-> modulo, acciones |-> matrix[modulo], autor |-> n] :
        modulo \in {k \in Modules : matrix[k] # {}}}

----------------------------------------------------------------------------
CreateRole(m, r) ==
    /\ Authorised(m, "create")
    /\ r \notin roles
    /\ roles' = roles \cup {r}
    /\ UNCHANGED <<permisos, rol, escrituras, handlers>>

\* A replacement that trusts the interface to keep ADMIN's management rows.
ReplaceUnchecked(h) ==
    /\ Free(h)
    /\ \E m \in Members, r \in roles, matrix \in Matrices :
          /\ Authorised(m, "update")
          /\ Serve(h, [op |-> "matriz", rol |-> r, matriz |-> matrix, vistos |-> RowsOf(r)])
    /\ UNCHANGED <<roles, permisos, rol, escrituras>>

\* Guards, reads and the ADMIN check; the DELETE takes its snapshot.
ReplaceRolePermissions(h) ==
    /\ Free(h)
    /\ \E m \in Members, r \in roles, matrix \in Matrices :
          /\ Authorised(m, "update")
          /\ r = "ADMIN" => AdminRetainsManagement(matrix)
          /\ Serve(h, [op |-> "matriz", rol |-> r, matriz |-> matrix, vistos |-> RowsOf(r)])
    /\ UNCHANGED <<roles, permisos, rol, escrituras>>

\* DELETE and INSERT.  A row written since the snapshot is not deleted: with the
\* same module it is a duplicate key and the request fails, otherwise it stays.
WriteMatrix(h) ==
    LET q == handlers[h]
        kept == permisos \ q.vistos
        rows == RowsFor(q.rol, q.matriz, escrituras + 1)
        clash == \E a \in kept, b \in rows : a.rol = b.rol /\ a.modulo = b.modulo
    IN  /\ q.op = "matriz"
        /\ escrituras < MaxWrites
        /\ escrituras' = escrituras + 1
        /\ permisos' = IF clash THEN permisos ELSE kept \cup rows
        /\ Answer(h)
        /\ UNCHANGED <<roles, rol>>

\* An administrator may not take ADMIN from himself; the check is of the request,
\* not of the rows.
AssignUserRole(h) ==
    /\ Free(h)
    /\ \E actor, target \in Members, r \in roles :
          /\ Authorised(actor, "update")
          /\ actor = target => r = "ADMIN"
          /\ Serve(h, [op |-> "asignar", miembro |-> target, rol |-> r])
    /\ UNCHANGED <<roles, permisos, rol, escrituras>>

WriteAssignment(h) ==
    LET q == handlers[h]
    IN  /\ q.op = "asignar"
        /\ rol' = [rol EXCEPT ![q.miembro] = q.rol]
        /\ Answer(h)
        /\ UNCHANGED <<roles, permisos, escrituras>>

AccessNext ==
    \/ \E m \in Members, r \in RoleNames : CreateRole(m, r)
    \/ \E h \in Handlers :
          \/ ReplaceRolePermissions(h) \/ WriteMatrix(h)
          \/ AssignUserRole(h) \/ WriteAssignment(h)

----------------------------------------------------------------------------
(* docs/api.md:520: ADMIN keeps reading and updating ROLES and PARAMETROS,  *)
(* through replacements of its matrix that overlap: one that deletes the    *)
(* other's snapshot and inserts beside it collides on the primary key.      *)
AdminManages ==
    \A modulo \in Managed, action \in {"read", "update"} :
        /\ Permits("ADMIN", modulo, action)
        /\ action \in MatrixOf("ADMIN")[modulo]

(* docs/api.md:510: the complete matrix of a role is replaced atomically.   *)
(* A matrix is therefore one that some request asked for, never rows of two.*)
OneMatrix == \A r \in roles : \A a, b \in RowsOf(r) : a.autor = b.autor
====

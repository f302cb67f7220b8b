--------------------------- MODULE Organizations ---------------------------
(***************************************************************************)
(* The organizations, the schemas made for them and their secret keys,     *)
(* under concurrent requests: creating, deleting and listing               *)
(* organizations, rotating, revealing and presenting keys, and the calls   *)
(* that put a user or a group into an organization's schema.               *)
(*                                                                         *)
(* An organization is a row of public.organizations; its namespace names a *)
(* Postgres schema that holds its users and groups.  Deleting the row      *)
(* deletes the users and groups that refer to it and leaves the schema.    *)
(*                                                                         *)
(* The row inserted by request r, the key drawn by r and the user inserted *)
(* by r are each named r: ids come from sequences and keys are random.     *)
(***************************************************************************)
EXTENDS Sequences, FiniteSets

CONSTANTS
    Req,        \* the requests
    Name,       \* names of organizations
    Namespace,  \* namespaces
    Malformed,  \* those with a character that create_organization refuses
    Schema,     \* Postgres schemas
    SchemaOf,   \* the schema of each namespace: an identifier is cut at 63 bytes
    Public,     \* DEFAULT_NAMESPACE
    Default,    \* DEFAULT_ORGANIZATION_ID
    Seeds,      \* ids of the organizations and users there are at the start
    Founded,    \* the organizations at the start
    Settled,    \* the users at the start
    Ops,        \* what a request may ask for
    None        \* an unused field

OrgId == Req \cup Seeds
UserId == Req \cup Seeds
Group == {"admin", "users"}
Organization == [id : OrgId, name : Name, ns : Namespace, key : OrgId]
UserRow == [id : UserId, schema : Schema, org : OrgId]
GroupRow == [schema : Schema, org : OrgId, name : Group]
Shown == [org : OrgId, key : OrgId]

Kind == {"create", "delete", "rotate", "reveal", "list", "verify", "register", "user", "group"}

\* by is the user whose token a request bears and ns the namespace it claims;
\* without by, a request comes from a global superadmin or the command line.
Op == [kind : Kind, by : UserId \cup {None}, name : Name \cup {None},
       ns : Namespace \cup {None}, org : OrgId \cup {None}, key : OrgId \cup {None}]

ASSUME OrganizationsAssumption ==
    /\ Malformed \subseteq Namespace /\ Public \in Namespace \ Malformed
    /\ SchemaOf \in [Namespace -> Schema]
    /\ \A n \in Namespace : SchemaOf[n] = SchemaOf[Public] => n = Public
    /\ Default \in Seeds /\ Seeds \cap Req = {} /\ None \notin OrgId
    /\ None \notin Namespace /\ None \notin Name
    /\ Founded \subseteq [id : Seeds, name : Name, ns : Namespace \ Malformed, key : Seeds]
    /\ Settled \subseteq [id : Seeds, schema : Schema, org : Seeds]
    /\ \A o, p \in Founded : o # p => /\ o.id # p.id /\ o.name # p.name /\ o.key # p.key
                                      /\ SchemaOf[o.ns] # SchemaOf[p.ns]
    /\ \A u \in Settled : \E o \in Founded : u.org = o.id /\ u.schema = SchemaOf[o.ns]

ASSUME OrganizationOpsAssumption ==
    /\ Ops \subseteq Op /\ None \notin Ops
    /\ \A o \in Ops :
          /\ o.kind = "create" => o.name \in Name /\ o.ns \in Namespace
          /\ o.kind \in {"delete", "user", "group"} => o.org \in OrgId
          /\ o.kind = "rotate" /\ o.by = None => o.org \in OrgId \/ o.ns \in Namespace
          /\ o.kind \in {"reveal", "register"} \/ o.by # None => o.ns \in Namespace
          /\ o.kind = "reveal" => o.by \in UserId
          /\ o.by # None => o.kind \in {"reveal", "rotate", "list"}
          /\ o.kind = "verify" => o.key \in OrgId

VARIABLES
    orgs,       \* the organizations rows
    keyed,      \* the schemas whose groups have the constraint groups_name_org_key
    users,      \* the users rows of all schemas
    groups,     \* the groups rows of all schemas
    op,         \* what each request asks for
    pc,         \* the next transaction of each request, or its answer
    owner,      \* the organization_id a request goes on with
    space,      \* the namespace a request goes on with
    todo,       \* the group names create_organization has yet to see to
    shown,      \* the keys in the answer of each request
    inforce,    \* history: the keys in force since each request arrived
    removed,    \* history: the organizations deleted
    earlier     \* history: the requests answered before each one arrived

vars == <<orgs, keyed, users, groups, op, pc, owner, space, todo, shown, inforce, removed, earlier>>
tables == <<orgs, keyed, users, groups, inforce, removed>>
locals == <<op, owner, space, todo, shown, earlier>>

Answered == {"ok", "err"}
PC == {"idle", "name", "insert", "seek", "seed", "drop", "self", "owner", "lookup",
       "rotate", "list", "key", "bind", "resolve", "user"} \cup Answered

-----------------------------------------------------------------------------

Goto(r, label) == pc' = [pc EXCEPT ![r] = label]
Keys(rows) == {[org |-> o.id, key |-> o.key] : o \in rows}
Under(r) == pc[r] \notin Answered \cup {"idle"}
SetOrgs(rows) ==
    /\ orgs' = rows
    /\ inforce' = [r \in Req |-> IF Under(r) THEN inforce[r] \cup Keys(rows) ELSE inforce[r]]

\* The public schema is there from the first migration, a tenant's from the
\* creation that gave its groups their constraint.
Schemas == keyed \cup {SchemaOf[Public]}

FirstLabel(o) ==
    CASE o.kind = "create" -> "name"
      [] o.kind = "delete" -> "drop"
      [] o.kind = "verify" -> "key"
      [] o.kind = "register" -> "bind"
      [] o.kind \in {"user", "group"} -> "resolve"
      [] o.by # None -> "self"
      [] o.by = None /\ o.kind = "list" -> "list"
      [] o.by = None /\ o.kind = "rotate" /\ o.org # None -> "rotate"
      [] OTHER -> "lookup"

Arrive(r) ==
    /\ pc[r] = "idle"
    /\ \E o \in Ops :
          /\ op' = [op EXCEPT ![r] = o]
          /\ owner' = [owner EXCEPT ![r] = o.org]
          /\ space' = [space EXCEPT ![r] = o.ns]
          /\ Goto(r, FirstLabel(o))
    /\ inforce' = [inforce EXCEPT ![r] = Keys(orgs)]
    /\ earlier' = [earlier EXCEPT ![r] = {q \in Req : pc[q] \in Answered}]
    /\ UNCHANGED <<orgs, keyed, users, groups, removed, todo, shown>>

\* The request is dropped, or the database fails it; what it committed stays.
Fail(r) ==
    /\ Under(r)
    /\ Goto(r, "err")
    /\ UNCHANGED <<tables, locals>>

-----------------------------------------------------------------------------
(* OrganizationService::create_organization. *)

\* find_by_name, then the check on the characters of the namespace.
FindByName(r) ==
    /\ pc[r] = "name"
    /\ Goto(r, IF \/ \E o \in orgs : o.name = op[r].name
                  \/ op[r].ns \in Malformed
               THEN "err" ELSE "insert")
    /\ UNCHANGED <<tables, locals>>

DefaultGroups == <<"admin", "users">>
NewRow(r) == [id |-> r, name |-> op[r].name, ns |-> op[r].ns, key |-> r]
Conflict(r) == \E o \in orgs : o.name = op[r].name \/ o.ns = op[r].ns

\* Mutation: the constraint is added only where it is missing, so that nothing
\* aborts the transaction.
InsertIntoAnySchema(r) ==
    /\ pc[r] = "insert"
    /\ \/ /\ Conflict(r)
          /\ Goto(r, "err")
          /\ UNCHANGED <<tables, owner, todo, shown>>
       \/ /\ ~Conflict(r)
          /\ SetOrgs(orgs \cup {NewRow(r)})
          /\ keyed' = keyed \cup {SchemaOf[op[r].ns]}
          /\ owner' = [owner EXCEPT ![r] = r]
          /\ todo' = [todo EXCEPT ![r] = DefaultGroups]
          /\ shown' = [shown EXCEPT ![r] = Keys({NewRow(r)})]
          /\ Goto(r, "seek")
          /\ UNCHANGED <<users, groups, removed>>
    /\ UNCHANGED <<op, space, earlier>>

\* Mutation: the organization is answered without seeing to its groups.
InsertAndAnswer(r) ==
    /\ pc[r] = "insert"
    /\ \/ /\ Conflict(r)
          /\ Goto(r, "err")
          /\ UNCHANGED <<tables, shown>>
       \/ /\ ~Conflict(r)
          /\ LET S == SchemaOf[op[r].ns] IN
             IF S \in keyed THEN UNCHANGED <<orgs, keyed, inforce>>
             ELSE SetOrgs(orgs \cup {NewRow(r)}) /\ keyed' = keyed \cup {S}
          /\ shown' = [shown EXCEPT ![r] = Keys({NewRow(r)})]
          /\ Goto(r, "ok")
          /\ UNCHANGED <<users, groups, removed>>
    /\ UNCHANGED <<op, owner, space, todo, earlier>>

\* insert_organization: one transaction inserts the row, makes the schema if
\* there is none, makes the tables that are missing and adds the constraint.
\* In a schema that has the constraint already the last statement fails; the
\* code drops the error, but Postgres has aborted the transaction, and its
\* COMMIT, which reports no error, rolls everything back.
InsertOrganization(r) ==
    /\ pc[r] = "insert"
    /\ \/ /\ Conflict(r)
          /\ Goto(r, "err")
          /\ UNCHANGED <<tables, owner, todo, shown>>
       \/ /\ ~Conflict(r)
          /\ LET S == SchemaOf[op[r].ns] IN
             IF S \in keyed THEN UNCHANGED <<orgs, keyed, inforce>>
             ELSE SetOrgs(orgs \cup {NewRow(r)}) /\ keyed' = keyed \cup {S}
          /\ owner' = [owner EXCEPT ![r] = r]
          /\ todo' = [todo EXCEPT ![r] = DefaultGroups]
          /\ shown' = [shown EXCEPT ![r] = Keys({NewRow(r)})]
          /\ Goto(r, "seek")
          /\ UNCHANGED <<users, groups, removed>>
    /\ UNCHANGED <<op, space, earlier>>

Exists(id) == \E o \in orgs : o.id = id
Wanted(r) == [schema |-> SchemaOf[space[r]], org |-> owner[r], name |-> Head(todo[r])]

\* find_by_name of the group: create_organization passes over a group that is
\* there, GroupService::create_group refuses it.
FindGroup(r) ==
    /\ pc[r] = "seek"
    /\ \/ /\ Wanted(r) \notin groups
          /\ Goto(r, "seed")
          /\ UNCHANGED todo
       \/ /\ Wanted(r) \in groups /\ op[r].kind = "create"
          /\ todo' = [todo EXCEPT ![r] = Tail(@)]
          /\ Goto(r, IF Len(todo[r]) = 1 THEN "ok" ELSE "seek")
       \/ /\ Wanted(r) \in groups /\ op[r].kind = "group"
          /\ Goto(r, "err")
          /\ UNCHANGED todo
    /\ UNCHANGED <<tables, op, owner, space, shown, earlier>>

\* insert_group: the row refers to an organization, and its name and
\* organization are unique.
InsertGroup(r) ==
    LET allowed == Exists(owner[r]) /\ Wanted(r) \notin groups IN
    /\ pc[r] = "seed"
    /\ groups' = IF allowed THEN groups \cup {Wanted(r)} ELSE groups
    /\ todo' = [todo EXCEPT ![r] = IF allowed THEN Tail(@) ELSE @]
    /\ Goto(r, IF ~allowed THEN "err" ELSE IF Len(todo[r]) = 1 THEN "ok" ELSE "seek")
    /\ UNCHANGED <<orgs, keyed, users, inforce, removed, op, owner, space, shown, earlier>>

\* delete_organization: no error if there is none.
DeleteOrganization(r) ==
    /\ pc[r] = "drop"
    /\ SetOrgs({o \in orgs : o.id # op[r].org})
    /\ removed' = removed \cup {o.id : o \in {p \in orgs : p.id = op[r].org}}
    /\ users' = {u \in users : u.org # op[r].org}
    /\ groups' = {g \in groups : g.org # op[r].org}
    /\ Goto(r, "ok")
    /\ UNCHANGED <<keyed, locals>>

-----------------------------------------------------------------------------
(* The keys: get_org_key, rotate_org_key and list_organizations for the    *)
(* administrators of a tenant, and their unrestricted forms.               *)

\* find_by_id of the caller: its organization is taken from its row.
FindCaller(r) ==
    /\ pc[r] = "self"
    /\ \/ \E u \in users :
             /\ u.id = op[r].by /\ u.schema = SchemaOf[op[r].ns]
             /\ owner' = [owner EXCEPT ![r] = u.org]
             /\ Goto(r, "owner")
       \/ /\ \A u \in users : u.id # op[r].by \/ u.schema # SchemaOf[op[r].ns]
          /\ Goto(r, "err")
          /\ UNCHANGED owner
    /\ UNCHANGED <<tables, op, space, todo, shown, earlier>>

AfterOwner == [reveal |-> "ok", rotate |-> "rotate", list |-> "list"]

\* Mutation: the organization's namespace is not compared with the caller's.
FindAnyOwner(r) ==
    /\ pc[r] = "owner"
    /\ \/ \E o \in orgs :
             /\ o.id = owner[r]
             /\ shown' = IF op[r].kind = "reveal" THEN [shown EXCEPT ![r] = Keys({o})] ELSE shown
             /\ Goto(r, AfterOwner[op[r].kind])
       \/ /\ ~Exists(owner[r])
          /\ Goto(r, "err")
          /\ UNCHANGED shown
    /\ UNCHANGED <<tables, op, owner, space, todo, earlier>>

\* get_organization_by_id, and the comparison with the caller's namespace.
FindOwner(r) ==
    /\ pc[r] = "owner"
    /\ \/ \E o \in orgs :
             /\ o.id = owner[r] /\ o.ns = op[r].ns
             /\ shown' = IF op[r].kind = "reveal" THEN [shown EXCEPT ![r] = Keys({o})] ELSE shown
             /\ Goto(r, AfterOwner[op[r].kind])
       \/ /\ \A o \in orgs : o.id # owner[r] \/ o.ns # op[r].ns
          /\ Goto(r, "err")
          /\ UNCHANGED shown
    /\ UNCHANGED <<tables, op, owner, space, todo, earlier>>

\* The command line lists the organizations and takes the one of the namespace.
FindByNamespace(r) ==
    /\ pc[r] = "lookup"
    /\ \/ \E o \in orgs :
             /\ o.ns = op[r].ns
             /\ owner' = [owner EXCEPT ![r] = o.id]
             /\ Goto(r, "rotate")
       \/ /\ \A o \in orgs : o.ns # op[r].ns
          /\ Goto(r, "err")
          /\ UNCHANGED owner
    /\ UNCHANGED <<tables, op, space, todo, shown, earlier>>

\* list_organizations; the caller who is not a global superadmin sees those of
\* its namespace.
ListOrganizations(r) ==
    /\ pc[r] = "list"
    /\ shown' = [shown EXCEPT ![r] = Keys({o \in orgs : op[r].by # None => o.ns = op[r].ns})]
    /\ Goto(r, "ok")
    /\ UNCHANGED <<tables, op, owner, space, todo, earlier>>

\* Mutation: the new key is answered and not written.
RotateNothing(r) ==
    /\ pc[r] = "rotate"
    /\ shown' = [shown EXCEPT ![r] = {[org |-> owner[r], key |-> r]}]
    /\ Goto(r, "ok")
    /\ UNCHANGED <<tables, op, owner, space, todo, earlier>>

\* rotate_secret_key: the UPDATE of a row that is gone is no error.
RotateSecretKey(r) ==
    /\ pc[r] = "rotate"
    /\ SetOrgs({IF o.id = owner[r] THEN [o EXCEPT !.key = r] ELSE o : o \in orgs})
    /\ shown' = [shown EXCEPT ![r] = {[org |-> owner[r], key |-> r]}]
    /\ Goto(r, "ok")
    /\ UNCHANGED <<keyed, users, groups, removed, op, owner, space, todo, earlier>>

\* Mutation: a key that once was an organization's goes on opening.
MatchesForEver(r, o) == o.key = op[r].key \/ o.id = op[r].key

Matches(r, o) == o.key = op[r].key

\* require_org_key_or_superadmin, find_by_secret_key: the answer says whose key
\* it is.
VerifyKey(r) ==
    /\ pc[r] = "key"
    /\ \/ \E o \in orgs :
             /\ Matches(r, o)
             /\ shown' = [shown EXCEPT ![r] = {[org |-> o.id, key |-> op[r].key]}]
             /\ owner' = [owner EXCEPT ![r] = o.id]
             /\ Goto(r, "ok")
       \/ /\ \A o \in orgs : ~Matches(r, o)
          /\ Goto(r, "err")
          /\ UNCHANGED <<owner, shown>>
    /\ UNCHANGED <<tables, op, space, todo, earlier>>

-----------------------------------------------------------------------------
(* Who puts rows into a schema: register, and the administrative calls     *)
(* that name an organization.                                              *)

\* UserService::register: an organization named by the caller is compared with
\* the organization of the namespace, if the namespace has one.
BindOrganization(r) ==
    LET here == {o \in orgs : o.ns = op[r].ns} IN
    /\ pc[r] = "bind"
    /\ \/ /\ op[r].org # None /\ \A o \in here : o.id = op[r].org
          /\ Goto(r, "user")
          /\ UNCHANGED owner
       \/ /\ op[r].org = None /\ op[r].ns = Public
          /\ owner' = [owner EXCEPT ![r] = Default]
          /\ Goto(r, "user")
       \/ /\ op[r].org = None /\ op[r].ns # Public
          /\ \E o \in here : owner' = [owner EXCEPT ![r] = o.id]
          /\ Goto(r, "user")
       \/ /\ \/ op[r].org # None /\ \E o \in here : o.id # op[r].org
             \/ op[r].org = None /\ op[r].ns # Public /\ here = {}
          /\ Goto(r, "err")
          /\ UNCHANGED owner
    /\ UNCHANGED <<tables, op, space, todo, shown, earlier>>

\* get_org_namespace_safe for a global superadmin: the namespace of the
\* organization is looked up, and the rest happens in its schema.
ResolveNamespace(r) ==
    /\ pc[r] = "resolve"
    /\ \/ \E o \in orgs :
             /\ o.id = op[r].org
             /\ space' = [space EXCEPT ![r] = o.ns]
             /\ todo' = [todo EXCEPT ![r] = IF op[r].kind = "group" THEN <<"admin">> ELSE @]
             /\ Goto(r, IF op[r].kind = "group" THEN "seek" ELSE "user")
       \/ /\ ~Exists(op[r].org)
          /\ Goto(r, "err")
          /\ UNCHANGED <<space, todo>>
    /\ UNCHANGED <<tables, op, owner, shown, earlier>>

\* Mutation: users.organization_id refers to nothing.
InsertUserUnbound(r) ==
    LET schema == SchemaOf[space[r]] IN
    /\ pc[r] = "user"
    /\ users' = IF schema \in Schemas
                THEN users \cup {[id |-> r, schema |-> schema, org |-> owner[r]]} ELSE users
    /\ Goto(r, IF schema \in Schemas THEN "ok" ELSE "err")
    /\ UNCHANGED <<orgs, keyed, groups, inforce, removed, locals>>

\* The insertion of create_user (Accounts has the rest of it): the schema must
\* have its tables, and the organization its row.
InsertUser(r) ==
    LET schema == SchemaOf[space[r]]
        allowed == schema \in Schemas /\ Exists(owner[r])
    IN  /\ pc[r] = "user"
        /\ users' = IF allowed THEN users \cup {[id |-> r, schema |-> schema, org |-> owner[r]]}
                    ELSE users
        /\ Goto(r, IF allowed THEN "ok" ELSE "err")
        /\ UNCHANGED <<orgs, keyed, groups, inforce, removed, locals>>

-----------------------------------------------------------------------------

Init ==
    /\ orgs = Founded
    /\ keyed = {SchemaOf[o.ns] : o \in Founded} \ {SchemaOf[Public]}
    /\ users = Settled
    /\ groups = {}
    /\ op = [r \in Req |-> None]
    /\ pc = [r \in Req |-> "idle"]
    /\ owner = [r \in Req |-> None]
    /\ space = [r \in Req |-> None]
    /\ todo = [r \in Req |-> <<>>]
    /\ shown = [r \in Req |-> {}]
    /\ inforce = [r \in Req |-> {}]
    /\ removed = {}
    /\ earlier = [r \in Req |-> {}]

Step(r) ==
    \/ FindByName(r) \/ InsertOrganization(r) \/ FindGroup(r) \/ InsertGroup(r)
    \/ DeleteOrganization(r) \/ FindCaller(r) \/ FindOwner(r) \/ FindByNamespace(r)
    \/ ListOrganizations(r) \/ RotateSecretKey(r) \/ VerifyKey(r)
    \/ BindOrganization(r) \/ ResolveNamespace(r) \/ InsertUser(r)

Quiescent == (\A r \in Req : pc[r] \in Answered) /\ UNCHANGED vars

Next == (\E r \in Req : Arrive(r) \/ Step(r) \/ Fail(r)) \/ Quiescent

Spec == Init /\ [][Next]_vars

-----------------------------------------------------------------------------
(* Properties. *)

\* Every variable keeps its type, and rows refer to organizations that exist.
TypeOK ==
    /\ orgs \subseteq Organization /\ keyed \subseteq Schema /\ users \subseteq UserRow
    /\ groups \subseteq GroupRow /\ op \in [Req -> Ops \cup {None}] /\ pc \in [Req -> PC]
    /\ owner \in [Req -> OrgId \cup {None}] /\ space \in [Req -> Namespace \cup {None}]
    /\ todo \in [Req -> Seq(Group)] /\ shown \in [Req -> SUBSET Shown]
    /\ inforce \in [Req -> SUBSET Shown] /\ removed \subseteq OrgId
    /\ earlier \in [Req -> SUBSET Req]
    /\ \A row \in users \cup groups : Exists(row.org)

\* No two organizations share a schema, even if their namespaces differ only
\* beyond what Postgres keeps of an identifier.
SchemasAreNotShared ==
    \A o, p \in orgs : SchemaOf[o.ns] = SchemaOf[p.ns] => o = p

\* A creation is answered with success only if the organization came to be with
\* both its groups, and it is still so unless it was deleted.
CreatedMeansCreated ==
    \A r \in Req :
        /\ pc[r] = "ok" /\ op[r].kind = "create" /\ r \notin removed
        => /\ Exists(r)
           /\ \A g \in Group : [schema |-> SchemaOf[op[r].ns], org |-> r, name |-> g] \in groups

\* A key is revealed, or rotated, only for the organization of the namespace
\* that the caller's token claims, wherever the caller's row points.
KeysStayInTheirNamespace ==
    \A r \in Req : pc[r] = "ok" /\ op[r].by # None =>
        \A s \in shown[r], o \in orgs : o.id = s.org => o.ns = op[r].ns

\* The key that a call reveals, lists or accepts was that organization's key at
\* some instant after the call arrived: a key whose replacement, or whose
\* organization's deletion, was already answered is neither shown nor accepted.
OldKeysOpenNothing ==
    \A r \in Req : pc[r] = "ok" /\ op[r].kind \in {"reveal", "list", "verify"} =>
        shown[r] \subseteq inforce[r]

\* When every other rotation of an organization was answered before this one
\* arrived, and so was the creation of the organization if the caller named it
\* (naming one that is not there yet is no error), the key this one handed out is
\* the organization's key.
LastRotationIsInForce ==
    \A r \in Req, o \in orgs :
        /\ pc[r] = "ok" /\ op[r].kind = "rotate" /\ owner[r] = o.id
        /\ op[r].org \in Req => op[r].org \in earlier[r]
        /\ \A q \in Req \ {r} :
              pc[q] # "idle" /\ op[q].kind = "rotate" => q \in earlier[r]
        => o.key = r
=============================================================================

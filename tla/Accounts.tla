------------------------------ MODULE Accounts ------------------------------
(***************************************************************************)
(* The accounts of one namespace (one Postgres schema: users, groups and   *)
(* user_groups) under concurrent requests: public registration and the     *)
(* administrative create, assign, remove, delete and create-group calls.   *)
(*                                                                         *)
(* Every repository method is a transaction of its own, and a service      *)
(* function is a sequence of them with an await in between.  A request is  *)
(* therefore a small state machine, one action per transaction, and the    *)
(* requests interleave freely between their transactions.                  *)
(*                                                                         *)
(* Row identities.  The user row inserted by request r is named r: the     *)
(* BIGSERIAL sequence gives each insertion an id of its own and never      *)
(* reuses one.  A group row is named by its name: (name, organization_id)  *)
(* is unique and no operation deletes or renames a single group.           *)
(***************************************************************************)
EXTENDS Naturals, Sequences

CONSTANTS
    Req,        \* the requests
    Email,      \* email addresses
    Username,   \* usernames
    GroupName,  \* group names, as sent by a caller or stored in a row
    Fold,       \* SQL LOWER on email addresses
    Trim,       \* str::trim on group names
    Canon,      \* trim and lower-case: what eq_ignore_ascii_case compares
    Ops,        \* what a request may ask for
    Seeds,      \* the group rows a namespace may start with
    Global,     \* TRUE in the namespace "public", FALSE in a tenant
    None        \* no administrator row (SQL NULL)

SUPERADMIN_GROUP == "superadmin"
ADMIN_GROUP == "admin"
USERS_GROUP == "users"
PRIVILEGED_GROUPS == {SUPERADMIN_GROUP, ADMIN_GROUP}

Kind == {"register", "create", "assign", "remove", "delete", "newgroup"}

Op == [kind : Kind, email : Email, username : Username,
       groups : Seq(GroupName), target : Req \cup {None}]

ASSUME NamesAssumption ==
    /\ {SUPERADMIN_GROUP, ADMIN_GROUP, USERS_GROUP} \subseteq GroupName
    /\ Fold \in [Email -> Email]
    /\ Trim \in [GroupName -> GroupName]
    /\ Canon \in [GroupName -> GroupName]
    /\ \A g \in GroupName : Canon[Trim[g]] = Canon[g]
    /\ \A g \in {SUPERADMIN_GROUP, ADMIN_GROUP, USERS_GROUP} :
          Trim[g] = g /\ Canon[g] = g

ASSUME OpsAssumption ==
    /\ Ops \subseteq Op
    /\ \A o \in Ops : o.kind \in {"assign", "remove", "newgroup"} => Len(o.groups) = 1
    /\ \A o \in Ops : o.kind = "register" => Len(o.groups) <= 1
    /\ \A o \in Ops : o.kind \in {"assign", "remove", "delete"} => o.target \in Req

ASSUME NamespaceAssumption ==
    /\ Seeds \subseteq SUBSET GroupName
    /\ Global \in BOOLEAN
    /\ None \notin Req

VARIABLES
    users,      \* the user rows
    groups,     \* the names of the group rows
    members,    \* the user_groups rows; via, the inserting request, is history
    op,         \* what each request asks for
    pc,         \* the next transaction of each request, or its answer
    actor,      \* the administrator behind a request, or None
    want,       \* the group names create_user was called with
    k,          \* loop index of the request over want
    boot,       \* the registration counted no users
    names,      \* the group names returned (and put in the token)
    made,       \* history: rows ever inserted
    empowered,  \* history: users ever in a privileged group, who may hold a token
    before,     \* history: the users present when the request arrived
    withdrawn   \* history: <<user, group>> pairs an administrator removed

vars == <<users, groups, members, op, pc, actor, want, k, boot, names,
          made, empowered, before, withdrawn>>
tables == <<users, groups, members>>
locals == <<want, k, boot, names>>
history == <<made, empowered, before, withdrawn>>

Answered == {"ok", "taken", "err"}
Loop == {"resolve", "heal", "link"}
PC == {"idle", "count", "email", "username", "insert", "names", "group",
       "assign", "unlink", "erase", "groupname", "newgroup"} \cup Loop \cup Answered

-----------------------------------------------------------------------------
(* What the tables say. *)

GroupsOf(u) == {m.group : m \in {n \in members : n.user = u}}
HasRow(u, g) == \E m \in members : m.user = u /\ m.group = g

\* Mutation: the comparison forgets the case and the spaces around the name.
IsPrivilegedVerbatim(g) == g \in PRIVILEGED_GROUPS

IsPrivileged(g) == Canon[g] \in PRIVILEGED_GROUPS

\* Mutation: the name check of a tenant compares the name verbatim.
IsReservedVerbatim(g) == ~Global /\ g = SUPERADMIN_GROUP

IsReserved(g) == ~Global /\ Canon[g] = SUPERADMIN_GROUP

\* find_by_email compares LOWER(email) in every namespace; the unique index is
\* on lower(email) in public and on the column itself in a tenant schema.
SameMailbox(r, u) == Fold[op[r].email] = Fold[op[u].email]
EmailKeyClash(r, u) ==
    IF Global THEN SameMailbox(r, u) ELSE op[r].email = op[u].email

\* Mutation: the unique index on usernames is missing.
KeyClashOnEmail(r, u) == EmailKeyClash(r, u)

KeyClash(r, u) == EmailKeyClash(r, u) \/ op[r].username = op[u].username

Goto(r, label) == pc' = [pc EXCEPT ![r] = label]

\* Mutation: the loop starts over instead of ending.
AdvanceForever(r, label) ==
    /\ k' = [k EXCEPT ![r] = IF k[r] < Len(want[r]) THEN k[r] + 1 ELSE 1]
    /\ Goto(r, IF pc[r] = "link" THEN "link" ELSE "resolve")

\* Mutation: the loop bound is off by one.
AdvancePastEnd(r, label) ==
    \/ /\ k[r] <= Len(want[r])
       /\ k' = [k EXCEPT ![r] = k[r] + 1]
       /\ Goto(r, IF pc[r] = "link" THEN "link" ELSE "resolve")
    \/ /\ k[r] > Len(want[r])
       /\ k' = [k EXCEPT ![r] = 1]
       /\ Goto(r, label)

\* Mutation: the loop ends one name early.
AdvanceEarly(r, label) ==
    /\ k' = [k EXCEPT ![r] = IF k[r] + 1 < Len(want[r]) THEN k[r] + 1 ELSE 1]
    /\ Goto(r, IF k[r] + 1 >= Len(want[r]) THEN label
               ELSE IF pc[r] = "link" THEN "link" ELSE "resolve")

\* The loop of request r moves to its next name, or leaves for label.
Advance(r, label) ==
    \/ /\ k[r] < Len(want[r])
       /\ k' = [k EXCEPT ![r] = k[r] + 1]
       /\ Goto(r, IF pc[r] = "link" THEN "link" ELSE "resolve")
    \/ /\ k[r] = Len(want[r])
       /\ k' = [k EXCEPT ![r] = 1]
       /\ Goto(r, label)

Current(r) == Trim[want[r][k[r]]]

-----------------------------------------------------------------------------
(* Requests arrive.  An administrator acts under a token that names a      *)
(* member of a privileged group, possibly a former one: the token outlives *)
(* the membership and even the user row.  None is a global superadmin      *)
(* acting on a tenant, or the command line; create_superadmin there is a   *)
(* registration followed by such an assignment.                            *)

FirstLabel == [register |-> "count", create |-> "email", assign |-> "group",
               remove |-> "unlink", delete |-> "erase", newgroup |-> "groupname"]

ArriveRegister(r) ==
    /\ pc[r] = "idle" /\ op[r].kind = "register"
    /\ Goto(r, "count")
    /\ want' = [want EXCEPT ![r] = op[r].groups]
    /\ before' = [before EXCEPT ![r] = users]
    /\ UNCHANGED <<tables, op, actor, k, boot, names, made, empowered, withdrawn>>

DeletesItself(r, a) == ~Global /\ op[r].kind = "delete" /\ op[r].target = a

ArriveAdmin(r, a) ==
    /\ pc[r] = "idle" /\ op[r].kind # "register"
    /\ a \in empowered \cup {None}
    /\ Goto(r, IF DeletesItself(r, a) THEN "err" ELSE FirstLabel[op[r].kind])
    /\ actor' = [actor EXCEPT ![r] = a]
    /\ want' = [want EXCEPT ![r] = op[r].groups]
    /\ before' = [before EXCEPT ![r] = users]
    /\ UNCHANGED <<tables, op, k, boot, names, made, empowered, withdrawn>>

(* A request is dropped, its input fails validation, or the database fails *)
(* it: whatever it has committed stays.                                    *)
Fail(r) ==
    /\ pc[r] \notin Answered \cup {"idle"}
    /\ Goto(r, "err")
    /\ UNCHANGED <<tables, op, actor, locals, history>>

-----------------------------------------------------------------------------
(* UserService::register, then UserService::create_user. *)

BootstrapGroups == <<IF Global THEN SUPERADMIN_GROUP ELSE ADMIN_GROUP, USERS_GROUP>>

\* Mutation: the boundary of the user count is off by one.
CountUsersOffByOne(r) ==
    /\ pc[r] = "count" /\ want[r] = <<>>
    /\ \A u, v \in users : u = v
    /\ Goto(r, "email")
    /\ want' = [want EXCEPT ![r] = BootstrapGroups]
    /\ boot' = [boot EXCEPT ![r] = TRUE]
    /\ UNCHANGED <<tables, op, actor, k, names, history>>

CountUsers(r) ==
    /\ pc[r] = "count"
    /\ \/ /\ want[r] # <<>> /\ IsPrivileged(want[r][1])
          /\ Goto(r, "err")
          /\ UNCHANGED <<want, boot>>
       \/ /\ want[r] # <<>> /\ ~IsPrivileged(want[r][1])
          /\ Goto(r, "email")
          /\ UNCHANGED <<want, boot>>
       \/ /\ want[r] = <<>> /\ users = {}
          /\ Goto(r, "email")
          /\ want' = [want EXCEPT ![r] = BootstrapGroups]
          /\ boot' = [boot EXCEPT ![r] = TRUE]
       \/ /\ want[r] = <<>> /\ users # {}
          /\ Goto(r, "email")
          /\ UNCHANGED <<want, boot>>
    /\ UNCHANGED <<tables, op, actor, k, names, history>>

FindByEmail(r) ==
    /\ pc[r] = "email"
    /\ Goto(r, IF \E u \in users : SameMailbox(r, u) THEN "taken" ELSE "username")
    /\ UNCHANGED <<tables, op, actor, locals, history>>

\* The reserved-name check and the default group of resolve_group_ids need no
\* transaction: they run before the next one.
FindByUsername(r) ==
    /\ pc[r] = "username"
    /\ \/ /\ \E u \in users : op[u].username = op[r].username
          /\ Goto(r, "taken")
          /\ UNCHANGED <<want, k>>
       \/ /\ \A u \in users : op[u].username # op[r].username
          /\ \E i \in 1..Len(want[r]) : IsReserved(want[r][i])
          /\ Goto(r, "err")
          /\ UNCHANGED <<want, k>>
       \/ /\ \A u \in users : op[u].username # op[r].username
          /\ \A i \in 1..Len(want[r]) : ~IsReserved(want[r][i])
          /\ Goto(r, "resolve")
          /\ want' = [want EXCEPT ![r] = IF want[r] = <<>> THEN <<USERS_GROUP>> ELSE want[r]]
          /\ k' = [k EXCEPT ![r] = 1]
    /\ UNCHANGED <<tables, op, actor, boot, names, history>>

ResolveGroup(r) ==
    /\ pc[r] = "resolve"
    /\ \/ /\ Current(r) \in groups
          /\ Advance(r, "insert")
       \/ /\ Current(r) \in {USERS_GROUP, ADMIN_GROUP} \ groups
          /\ Goto(r, "heal")
          /\ UNCHANGED k
       \/ /\ Current(r) \notin groups \cup {USERS_GROUP, ADMIN_GROUP}
          /\ Goto(r, "err")
          /\ UNCHANGED k
    /\ UNCHANGED <<tables, op, actor, want, boot, names, history>>

\* insert_group of a missing standard group; a concurrent insertion makes the
\* unique index refuse this one, and the request fails.
HealGroup(r) ==
    /\ pc[r] = "heal"
    /\ \/ /\ Current(r) \notin groups
          /\ groups' = groups \cup {Current(r)}
          /\ Advance(r, "insert")
       \/ /\ Current(r) \in groups
          /\ Goto(r, "err")
          /\ UNCHANGED <<groups, k>>
    /\ UNCHANGED <<users, members, op, actor, want, boot, names, history>>

\* Mutation: the loser of a race for an email or username is told it succeeded.
InsertUserIgnoringConflict(r) ==
    /\ pc[r] = "insert"
    /\ users' = IF \E u \in users : KeyClash(r, u) THEN users ELSE users \cup {r}
    /\ made' = made \cup (users' \ users)
    /\ Goto(r, "names")
    /\ UNCHANGED <<groups, members, op, actor, locals, empowered, before, withdrawn>>

\* The unique indexes decide a race; the loser gets the database's duplicate-key
\* error as its answer.
InsertUser(r) ==
    /\ pc[r] = "insert"
    /\ \/ /\ \A u \in users : ~KeyClash(r, u)
          /\ users' = users \cup {r}
          /\ made' = made \cup {r}
          /\ Goto(r, "link")
       \/ /\ \E u \in users : KeyClash(r, u)
          /\ Goto(r, "taken")
          /\ UNCHANGED <<users, made>>
    /\ UNCHANGED <<groups, members, op, actor, locals, empowered, before, withdrawn>>

\* INSERT INTO user_groups ... ON CONFLICT DO NOTHING, under its foreign keys.
MayInsertRow(u, g, by) ==
    HasRow(u, g) \/ (u \in users /\ g \in groups /\ by \in users \cup {None})

InsertRow(u, g, by, via) ==
    /\ members' = IF HasRow(u, g) THEN members
                  ELSE members \cup {[user |-> u, group |-> g, by |-> by, via |-> via]}
    /\ empowered' = empowered \cup IF g \in PRIVILEGED_GROUPS THEN {u} ELSE {}

AssignNewUser(r) ==
    /\ pc[r] = "link"
    /\ \/ /\ MayInsertRow(r, Current(r), actor[r])
          /\ InsertRow(r, Current(r), actor[r], r)
          /\ Advance(r, "names")
       \/ /\ ~MayInsertRow(r, Current(r), actor[r])
          /\ Goto(r, "err")
          /\ UNCHANGED <<members, empowered, k>>
    /\ UNCHANGED <<users, groups, op, actor, want, boot, names, made, before, withdrawn>>

ReadGroupNames(r) ==
    /\ pc[r] = "names"
    /\ names' = [names EXCEPT ![r] = GroupsOf(r)]
    /\ Goto(r, "ok")
    /\ UNCHANGED <<tables, op, actor, want, k, boot, history>>

-----------------------------------------------------------------------------
(* The administrative calls on groups and users. *)

\* The group row a call names, by id: here by the name that identifies it.
NamedGroup(r) == op[r].groups[1]

FindGroup(r) ==
    /\ pc[r] = "group"
    /\ Goto(r, IF NamedGroup(r) \in groups /\ ~IsReserved(NamedGroup(r))
               THEN "assign" ELSE "err")
    /\ UNCHANGED <<tables, op, actor, locals, history>>

AssignUser(r) ==
    /\ pc[r] = "assign"
    /\ \/ /\ MayInsertRow(op[r].target, NamedGroup(r), actor[r])
          /\ InsertRow(op[r].target, NamedGroup(r), actor[r], r)
          /\ Goto(r, "ok")
       \/ /\ ~MayInsertRow(op[r].target, NamedGroup(r), actor[r])
          /\ Goto(r, "err")
          /\ UNCHANGED <<members, empowered>>
    /\ UNCHANGED <<users, groups, op, actor, locals, made, before, withdrawn>>

RemoveUser(r) ==
    /\ pc[r] = "unlink"
    /\ members' = {m \in members : ~(m.user = op[r].target /\ m.group = NamedGroup(r))}
    /\ withdrawn' = withdrawn \cup {<<op[r].target, NamedGroup(r)>>}
    /\ Goto(r, "ok")
    /\ UNCHANGED <<users, groups, op, actor, locals, made, empowered, before>>

\* user_groups.user_id cascades; user_groups.assigned_by does not: a user who
\* granted a membership that another user still has cannot be deleted.
Granted(u) == {m \in members : m.by = u /\ m.user # u}

\* Mutation: assigned_by is left without a foreign key.
DeleteUserUnchecked(r) ==
    /\ pc[r] = "erase"
    /\ users' = users \ {op[r].target}
    /\ members' = {m \in members : m.user # op[r].target}
    /\ Goto(r, "ok")
    /\ UNCHANGED <<groups, op, actor, locals, history>>

\* Mutation: assigned_by cascades as user_id does.
DeleteUserCascading(r) ==
    /\ pc[r] = "erase"
    /\ users' = users \ {op[r].target}
    /\ members' = {m \in members : op[r].target \notin {m.user, m.by}}
    /\ Goto(r, "ok")
    /\ UNCHANGED <<groups, op, actor, locals, history>>

DeleteUser(r) ==
    /\ pc[r] = "erase"
    /\ \/ /\ op[r].target \in users /\ Granted(op[r].target) = {}
          /\ users' = users \ {op[r].target}
          /\ members' = {m \in members : m.user # op[r].target}
          /\ Goto(r, "ok")
       \/ /\ op[r].target \notin users \/ Granted(op[r].target) # {}
          /\ Goto(r, "err")
          /\ UNCHANGED <<users, members>>
    /\ UNCHANGED <<groups, op, actor, locals, history>>

FindGroupName(r) ==
    /\ pc[r] = "groupname"
    /\ Goto(r, IF NamedGroup(r) \in groups \/ IsReserved(NamedGroup(r))
               THEN "err" ELSE "newgroup")
    /\ UNCHANGED <<tables, op, actor, locals, history>>

InsertGroup(r) ==
    /\ pc[r] = "newgroup"
    /\ Goto(r, IF NamedGroup(r) \in groups THEN "err" ELSE "ok")
    /\ groups' = groups \cup {NamedGroup(r)}
    /\ UNCHANGED <<users, members, op, actor, locals, history>>

-----------------------------------------------------------------------------

Init ==
    /\ users = {} /\ members = {}
    /\ groups \in Seeds
    /\ op \in [Req -> Ops]
    /\ pc = [r \in Req |-> "idle"]
    /\ actor = [r \in Req |-> None]
    /\ want = [r \in Req |-> <<>>]
    /\ k = [r \in Req |-> 1]
    /\ boot = [r \in Req |-> FALSE]
    /\ names = [r \in Req |-> {}]
    /\ made = {} /\ empowered = {} /\ withdrawn = {}
    /\ before = [r \in Req |-> {}]

CreateStep(r) ==
    \/ CountUsers(r) \/ FindByEmail(r) \/ FindByUsername(r) \/ ResolveGroup(r)
    \/ HealGroup(r) \/ InsertUser(r) \/ AssignNewUser(r) \/ ReadGroupNames(r)

AdminStep(r) ==
    \/ FindGroup(r) \/ AssignUser(r) \/ RemoveUser(r) \/ DeleteUser(r)
    \/ FindGroupName(r) \/ InsertGroup(r)

Arrive(r) == ArriveRegister(r) \/ \E a \in Req \cup {None} : ArriveAdmin(r, a)

\* Every request has been answered.
Quiescent == (\A r \in Req : pc[r] \in Answered) /\ UNCHANGED vars

Next ==
    \/ \E r \in Req : Arrive(r) \/ CreateStep(r) \/ AdminStep(r) \/ Fail(r)
    \/ Quiescent

Spec == Init /\ [][Next]_vars

\* The runtime polls a request it has accepted until it is answered.
FairSpec == Spec /\ \A r \in Req : WF_vars(CreateStep(r) \/ AdminStep(r))

-----------------------------------------------------------------------------
(* Properties. *)

Membership == [user : Req, group : GroupName, by : Req \cup {None}, via : Req]

\* Every variable keeps its type, and a loop index stays inside the sequence it
\* walks (resolve_group_ids, assign_user_to_groups).
TypeOK ==
    /\ users \subseteq Req /\ groups \subseteq GroupName /\ members \subseteq Membership
    /\ op \in [Req -> Ops] /\ pc \in [Req -> PC]
    /\ actor \in [Req -> Req \cup {None}]
    /\ want \in [Req -> Seq(GroupName)] /\ k \in [Req -> Nat]
    /\ boot \in [Req -> BOOLEAN] /\ names \in [Req -> SUBSET GroupName]
    /\ made \subseteq Req /\ empowered \subseteq Req
    /\ before \in [Req -> SUBSET Req] /\ withdrawn \subseteq Req \X GroupName
    /\ \A r \in Req : pc[r] \in Loop \cup {"insert"} => k[r] \in 1..Len(want[r])

\* No two user rows share a username or an email key, although every creation
\* checks for them in transactions that precede its INSERT (create_user).
UniqueIdentities ==
    \A u, v \in users : u # v =>
        /\ op[u].username # op[v].username /\ op[u].email # op[v].email
        /\ Global => Fold[op[u].email] # Fold[op[v].email]

\* Administrative authority is never self-service: each membership of a
\* privileged group was bootstrapped by a registration that counted no users,
\* or was inserted for an administrator (or the command line) by create_user
\* or assign_user_to_group.
PrivilegeProvenance ==
    \A m \in members : m.group \in PRIVILEGED_GROUPS =>
        \/ m.via = m.user /\ boot[m.user]
        \/ op[m.via].kind \in {"create", "assign"} /\ m.by \in empowered \cup {None}

\* In a tenant nobody is ever a member of a group that reads as superadmin,
\* through registration, user creation, group creation or assignment, even
\* though the tenant-sync migration may have seeded such a group row.
ReservedStaysGlobal ==
    ~Global => \A m \in members : Canon[m.group] # SUPERADMIN_GROUP

\* A registration is bootstrapped only if every user present when it arrived
\* has been deleted: whoever comes after a surviving user joins users.
BootstrapMeansEmpty == \A r \in Req : boot[r] => before[r] \cap users = {}

\* An answer of success is the whole truth: the new user has, and its answer
\* (hence its first token) names, every group the creation asked for, unless
\* an administrator withdrew it meanwhile.
CreatedInFull ==
    \A r \in users : pc[r] = "ok" => \A i \in 1..Len(want[r]) :
        \/ Trim[want[r][i]] \in GroupsOf(r) \cap names[r]
        \/ <<r, Trim[want[r][i]]>> \in withdrawn

\* A user_groups row never outlives its user or the administrator it names,
\* and its group exists, whatever is deleted while requests are under way.
ReferentialIntegrity ==
    \A m \in members : m.user \in users /\ m.group \in groups /\ m.by \in users \cup {None}

\* Deleting a user never takes a membership from anybody else: a row goes only
\* with its own user or by remove_user_from_group.
OnlyRevocationWithdraws ==
    [][\A m \in members : \/ m \in members'
                          \/ m.user \notin users'
                          \/ <<m.user, m.group>> \in withdrawn']_vars

\* Every request that arrives is answered, whatever the others do.
EveryRequestAnswered ==
    \A r \in Req : pc[r] # "idle" ~> pc[r] \in Answered

-----------------------------------------------------------------------------
(* The namespace implements an atomic account directory: the checks and the *)
(* INSERT of create_user take effect together, at the INSERT.               *)

Creates(r) == op[r].kind \in {"register", "create"}

DirectoryAnswer(r) ==
    IF ~Creates(r) THEN "pending"
    ELSE IF pc[r] = "ok" THEN "ok"
    ELSE IF pc[r] = "taken" THEN "taken"
    ELSE IF pc[r] = "err" THEN "failed"
    ELSE "pending"

Directory == INSTANCE AccountDirectory WITH
    live <- users, created <- made,
    email <- [r \in Req |-> op[r].email],
    username <- [r \in Req |-> op[r].username],
    answer <- [r \in Req |-> DirectoryAnswer(r)]

\* Every behaviour of the requests is one of the directory: an account exists
\* exactly once, a refusal as taken had a reason when it was given, and a
\* creation answered ok did insert its account.
ImplementsDirectory == Directory!Spec
=============================================================================

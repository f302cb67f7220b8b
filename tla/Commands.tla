------------------------------ MODULE Commands ------------------------------
(***************************************************************************)
(* The administrator's commands (bin/cli.rs), each a process of its own    *)
(* that works directly on the database, one transaction after the other,   *)
(* beside the server: users are renamed and deleted, and their             *)
(* organization is dissolved, while a command is under way.                *)
(*                                                                         *)
(* A command names users and groups; it looks the names up once and acts   *)
(* on what it found.  Its exit is what it prints: success, or an error.    *)
(***************************************************************************)
EXTENDS Naturals, FiniteSets

CONSTANTS
    Req,        \* the commands and requests; the user made by r is named r
    Seeds,      \* the users there are at the start
    Email, Username,
    Group,      \* names of groups
    Canon,      \* each name of a group without outer spaces, in lower case
    MaxClock,   \* bound on the clock, in seconds
    Starts,     \* the namespaces there may be at the start, with their rows
    Ops,        \* what a command or request may ask for
    None        \* an unused field

UserId == Req \cup Seeds
Row == [email : Email, username : Username]
Member == UserId \X Group

\* The claims of the session token that recover_user stores as a reset token.
Claims == [sub : UserId, email : Email \cup Username, username : Email \cup Username,
           groups : SUBSET Group, iat : 0..MaxClock]

Command == {"register", "superadmin", "recover", "password", "newgroup", "groups",
            "assign", "remove"}
\* The commands that know no namespace but DEFAULT_NAMESPACE.
PublicOnly == {"superadmin", "recover", "password"}

Kind == Command \cup {"rename", "erase", "dissolve"}
Op == [kind : Kind, user : UserId \cup {None}, email : Email \cup {None},
       username : Username \cup {None}, group : Group \cup {None}]

ASSUME CommandsAssumption ==
    /\ Canon \in [Group -> STRING] /\ {"superadmin", "admin", "users"} \subseteq Group
    /\ MaxClock \in Nat /\ Seeds \cap Req = {}
    /\ None \notin Email /\ None \notin Username /\ None \notin Group /\ None \notin UserId
    /\ \A s \in Starts :
          /\ s.public \in BOOLEAN /\ DOMAIN s.users \subseteq Seeds
          /\ s.users \in [DOMAIN s.users -> Row]
          /\ \A u, v \in DOMAIN s.users : u # v => /\ s.users[u].email # s.users[v].email
                                                 /\ s.users[u].username # s.users[v].username
          /\ s.groups \subseteq Group /\ s.members \subseteq (DOMAIN s.users) \X s.groups
          /\ ~s.public => \A m \in s.members : Canon[m[2]] # "superadmin"

ASSUME CommandOpsAssumption ==
    /\ Ops \subseteq Op /\ None \notin Ops
    /\ \A o \in Ops :
          /\ o.kind \in {"register", "superadmin", "rename"} => o.email # None /\ o.username # None
          /\ o.kind \in {"recover", "assign", "remove"} => o.username # None
          /\ o.kind = "password" => o.email # None
          /\ o.kind \in {"newgroup", "assign", "remove"} => o.group # None
          /\ o.kind = "superadmin" => o.group = "superadmin"
          /\ o.kind \in {"rename", "erase"} => o.user # None

VARIABLES
    public,     \* whether the namespace is DEFAULT_NAMESPACE: it is never another
    alive,      \* whether the organization of the namespace has its row
    live,       \* the users that have a row
    row,        \* the last row of each user
    groups,     \* the names of the group rows
    members,    \* the user_groups rows
    password,   \* the command that last set each user's password
    tokens,     \* the reset tokens stored by recover_user
    clock,      \* the time in seconds
    op,         \* what each command asks for
    pc,         \* the next transaction of each command, or its exit
    who,        \* the user a command goes on with
    copy,       \* that user's row as the command read it
    boot,       \* the registration counted no users
    names,      \* the group names recover_user read
    bore,       \* history: the users that bore the name since the command began
    earlier     \* history: the commands that ended before each one began

vars == <<public, alive, live, row, groups, members, password, tokens, clock,
          op, pc, who, copy, boot, names, bore, earlier>>
tables == <<alive, live, row, groups, members, password, tokens>>
locals == <<op, who, copy, boot, names, earlier>>

Ended == {"ok", "err", "gone"}
PC == {"idle", "count", "insert", "join", "user", "group", "check", "assign", "remove",
       "names", "issue", "settings", "write", "orgs", "seek", "new", "list",
       "rename", "erase", "dissolve"} \cup Ended

-----------------------------------------------------------------------------

Goto(r, label) == pc' = [pc EXCEPT ![r] = label] /\ UNCHANGED public
Under(r) == pc[r] \notin Ended \cup {"idle"}

\* Of these users, the ones whom a command's name fits: password goes by email.
Bearers(o, users, rows) ==
    {u \in users : IF o.kind = "password" THEN rows[u].email = o.email
                   ELSE rows[u].username = o.username}

\* A transaction that changes the users is an instant of the commands under way.
Renamed(users, rows) ==
    /\ live' = users /\ row' = rows
    /\ bore' = [r \in Req |-> IF Under(r) THEN bore[r] \cup Bearers(op[r], users, rows)
                             ELSE bore[r]]

ReadOnly == UNCHANGED <<tables, clock, bore>>

FirstLabel(o) ==
    CASE o.kind \in {"register", "superadmin"} -> "count"
      [] o.kind \in {"recover", "password", "assign", "remove"} -> "user"
      [] o.kind \in {"newgroup", "groups"} -> "orgs"
      [] OTHER -> o.kind

Begin(r) ==
    /\ pc[r] = "idle"
    /\ \E o \in Ops :
          /\ o.kind \in PublicOnly => public
          /\ op' = [op EXCEPT ![r] = o]
          /\ bore' = [bore EXCEPT ![r] = Bearers(o, live, row)]
          /\ Goto(r, FirstLabel(o))
    /\ earlier' = [earlier EXCEPT ![r] = {q \in Req : pc[q] \in Ended}]
    /\ UNCHANGED <<tables, clock, who, copy, boot, names>>

\* The command is killed, or the database fails it; what it committed stays.
Fail(r) ==
    /\ Under(r)
    /\ Goto(r, "gone")
    /\ ReadOnly /\ UNCHANGED locals

Tick ==
    /\ clock < MaxClock
    /\ clock' = clock + 1
    /\ UNCHANGED <<public, tables, pc, locals, bore>>

-----------------------------------------------------------------------------
(* register and create_superadmin (Accounts has register in full). *)

Count(r) ==
    /\ pc[r] = "count"
    /\ boot' = [boot EXCEPT ![r] = live = {}]
    /\ Goto(r, "insert")
    /\ ReadOnly /\ UNCHANGED <<op, who, copy, names, earlier>>

Taken(o, u) == \E v \in live \ {u} : row[v].email = o.email \/ row[v].username = o.username

DefaultGroups(r) ==
    IF boot[r] THEN {IF public THEN "superadmin" ELSE "admin", "users"} ELSE {"users"}

\* resolve_group_ids creates a missing "users" or "admin", and refuses any other.
Resolved(r) == DefaultGroups(r) \subseteq groups \cup {"users", "admin"}

InsertUser(r) ==
    LET fields == [email |-> op[r].email, username |-> op[r].username] IN
    /\ pc[r] = "insert"
    /\ \/ /\ alive /\ Resolved(r) /\ ~Taken(op[r], r)
          /\ Goto(r, "join")
          /\ Renamed(live \cup {r}, [row EXCEPT ![r] = fields])
          /\ who' = [who EXCEPT ![r] = r]
       \/ /\ ~alive \/ ~Resolved(r) \/ Taken(op[r], r)
          /\ Goto(r, "err")
          /\ UNCHANGED <<live, row, who, bore>>
    /\ UNCHANGED <<alive, groups, members, password, tokens, clock,
                   op, copy, boot, names, earlier>>

\* The groups that register gives: created where missing, and assigned to a user
\* that must still be there.
JoinDefault(r) ==
    LET allowed == alive /\ who[r] \in live
    IN  /\ pc[r] = "join"
        /\ IF allowed
           THEN /\ groups' = groups \cup DefaultGroups(r)
                /\ members' = members \cup ({who[r]} \X DefaultGroups(r))
           ELSE UNCHANGED <<groups, members>>
        /\ Goto(r, IF ~allowed THEN "err" ELSE IF op[r].kind = "superadmin" THEN "group" ELSE "ok")
        /\ UNCHANGED <<alive, live, row, password, tokens, clock, bore, locals>>

-----------------------------------------------------------------------------
(* assign_user_to_group and remove_user_from_group. *)

AfterUser == [assign |-> "group", remove |-> "group", recover |-> "names", password |-> "write"]

\* Mutation: whoever is found first is taken for the user.
FindSomeUser(r) ==
    /\ pc[r] = "user"
    /\ \/ \E u \in live :
             /\ who' = [who EXCEPT ![r] = u] /\ copy' = [copy EXCEPT ![r] = row[u]]
             /\ Goto(r, AfterUser[op[r].kind])
       \/ /\ live = {}
          /\ Goto(r, "err")
          /\ UNCHANGED <<who, copy>>
    /\ ReadOnly /\ UNCHANGED <<op, boot, names, earlier>>

\* find_by_username, or find_by_email.
FindUser(r) ==
    /\ pc[r] = "user"
    /\ \/ \E u \in Bearers(op[r], live, row) :
             /\ who' = [who EXCEPT ![r] = u] /\ copy' = [copy EXCEPT ![r] = row[u]]
             /\ Goto(r, AfterUser[op[r].kind])
       \/ /\ Bearers(op[r], live, row) = {}
          /\ Goto(r, "err")
          /\ UNCHANGED <<who, copy>>
    /\ ReadOnly /\ UNCHANGED <<op, boot, names, earlier>>

\* get_group_by_name in the user's organization.
FindGroup(r) ==
    /\ pc[r] = "group"
    /\ Goto(r, IF op[r].group \notin groups THEN "err"
               ELSE IF op[r].kind = "remove" THEN "remove" ELSE "check")
    /\ ReadOnly /\ UNCHANGED locals

IsReserved(g) == ~public /\ Canon[g] = "superadmin"

\* GroupService::assign_user_to_group: find_by_id, and the reserved name.
CheckGroup(r) ==
    /\ pc[r] = "check"
    /\ Goto(r, IF op[r].group \in groups /\ ~IsReserved(op[r].group) THEN "assign" ELSE "err")
    /\ ReadOnly /\ UNCHANGED locals

\* Mutation: the transaction of the insertion is never committed.
AssignUncommitted(r) ==
    LET allowed == who[r] \in live /\ op[r].group \in groups IN
    /\ pc[r] = "assign"
    /\ Goto(r, IF allowed THEN "ok" ELSE "err")
    /\ UNCHANGED <<alive, live, row, groups, members, password, tokens, clock, bore, locals>>

\* Mutation: user_groups refers to nothing.
AssignUnbound(r) ==
    /\ pc[r] = "assign"
    /\ members' = members \cup {<<who[r], op[r].group>>}
    /\ Goto(r, "ok")
    /\ UNCHANGED <<alive, live, row, groups, password, tokens, clock, bore, locals>>

\* The INSERT ... ON CONFLICT DO NOTHING: the user and the group must be there.
AssignGroup(r) ==
    LET allowed == who[r] \in live /\ op[r].group \in groups IN
    /\ pc[r] = "assign"
    /\ members' = IF allowed THEN members \cup {<<who[r], op[r].group>>} ELSE members
    /\ Goto(r, IF allowed THEN "ok" ELSE "err")
    /\ UNCHANGED <<alive, live, row, groups, password, tokens, clock, bore, locals>>

\* The DELETE: no error if there is nothing to remove.
RemoveGroup(r) ==
    /\ pc[r] = "remove"
    /\ members' = members \ {<<who[r], op[r].group>>}
    /\ Goto(r, "ok")
    /\ UNCHANGED <<alive, live, row, groups, password, tokens, clock, bore, locals>>

-----------------------------------------------------------------------------
(* recover_user and set_user_password. *)

ReadNames(r) ==
    /\ pc[r] = "names"
    /\ names' = [names EXCEPT ![r] = {m[2] : m \in {n \in members : n[1] = who[r]}}]
    /\ Goto(r, "issue")
    /\ ReadOnly /\ UNCHANGED <<op, who, copy, boot, earlier>>

\* generate_token takes the email before the username; recover_user hands it the
\* username first.
ClaimsOf(r) == [sub |-> who[r], email |-> copy[r].username, username |-> copy[r].email,
                groups |-> names[r], iat |-> clock]
Token(r) == [by |-> r, user |-> who[r], claims |-> ClaimsOf(r)]

\* Mutation: a token that is there already is passed over in silence.
IssueUnlessThere(r) ==
    LET new == \A t \in tokens : t.claims # ClaimsOf(r) IN
    /\ pc[r] = "issue"
    /\ tokens' = IF who[r] \in live /\ new THEN tokens \cup {Token(r)} ELSE tokens
    /\ Goto(r, IF who[r] \in live THEN "settings" ELSE "err")
    /\ UNCHANGED <<alive, live, row, groups, members, password, clock, bore, locals>>

\* create_reset_token: the user must be there and the token be new, which a
\* second one for the same user and groups within a second is not.
IssueToken(r) ==
    LET allowed == who[r] \in live /\ \A t \in tokens : t.claims # ClaimsOf(r) IN
    /\ pc[r] = "issue"
    /\ tokens' = IF allowed THEN tokens \cup {Token(r)} ELSE tokens
    /\ Goto(r, IF allowed THEN "settings" ELSE "err")
    /\ UNCHANGED <<alive, live, row, groups, members, password, clock, bore, locals>>

\* get_all_settings, for the link that is printed.
ReadSettings(r) ==
    /\ pc[r] = "settings"
    /\ Goto(r, "ok")
    /\ ReadOnly /\ UNCHANGED locals

\* Mutation: the password of the first user is set.
SetSomePassword(r) ==
    /\ pc[r] = "write"
    /\ password' = [u \in UserId |-> IF u \in live /\ u # who[r] THEN r ELSE password[u]]
    /\ Goto(r, "ok")
    /\ UNCHANGED <<alive, live, row, groups, members, tokens, clock, bore, locals>>

\* update_password: a user that is gone by now is no error.
SetPassword(r) ==
    /\ pc[r] = "write"
    /\ password' = IF who[r] \in live THEN [password EXCEPT ![who[r]] = r] ELSE password
    /\ Goto(r, "ok")
    /\ UNCHANGED <<alive, live, row, groups, members, tokens, clock, bore, locals>>

-----------------------------------------------------------------------------
(* create_group and list_groups. *)

\* list_organizations, and the one of the namespace.
FindOrganization(r) ==
    /\ pc[r] = "orgs"
    /\ Goto(r, IF ~alive THEN "err" ELSE IF op[r].kind = "newgroup" THEN "seek" ELSE "list")
    /\ ReadOnly /\ UNCHANGED locals

\* GroupService::create_group: the reserved name, then find_by_name.
SeekGroup(r) ==
    /\ pc[r] = "seek"
    /\ Goto(r, IF IsReserved(op[r].group) \/ op[r].group \in groups THEN "err" ELSE "new")
    /\ ReadOnly /\ UNCHANGED locals

\* insert_group: the name is unique and the organization there.
InsertGroup(r) ==
    LET allowed == alive /\ op[r].group \notin groups IN
    /\ pc[r] = "new"
    /\ groups' = IF allowed THEN groups \cup {op[r].group} ELSE groups
    /\ Goto(r, IF allowed THEN "ok" ELSE "err")
    /\ UNCHANGED <<alive, live, row, members, password, tokens, clock, bore, locals>>

ListGroups(r) ==
    /\ pc[r] = "list"
    /\ names' = [names EXCEPT ![r] = groups]
    /\ Goto(r, "ok")
    /\ ReadOnly /\ UNCHANGED <<op, who, copy, boot, earlier>>

-----------------------------------------------------------------------------
(* What the server does meanwhile (Profiles and Organizations have it). *)

Rename(r) ==
    LET u == op[r].user
        allowed == u \in live /\ ~Taken(op[r], u)
        fields == [email |-> op[r].email, username |-> op[r].username]
    IN  /\ pc[r] = "rename"
        /\ \/ allowed /\ Renamed(live, [row EXCEPT ![u] = fields]) /\ Goto(r, "ok")
           \/ ~allowed /\ Goto(r, "err") /\ UNCHANGED <<live, row, bore>>
        /\ UNCHANGED <<alive, groups, members, password, tokens, clock, locals>>

EraseUser(r) ==
    LET u == op[r].user IN
    /\ pc[r] = "erase"
    /\ members' = {m \in members : m[1] # u}
    /\ tokens' = {t \in tokens : t.user # u}
    /\ Goto(r, IF u \in live THEN "ok" ELSE "err")
    /\ Renamed(live \ {u}, row)
    /\ UNCHANGED <<alive, groups, password, clock, locals>>

Dissolve(r) ==
    /\ pc[r] = "dissolve"
    /\ alive' = FALSE
    /\ groups' = {} /\ members' = {} /\ tokens' = {}
    /\ Goto(r, "ok")
    /\ Renamed({}, row)
    /\ UNCHANGED <<password, clock, locals>>

-----------------------------------------------------------------------------

Init ==
    /\ alive = TRUE
    /\ \E s \in Starts :
          /\ public = s.public
          /\ live = DOMAIN s.users
          /\ row = [u \in UserId |-> IF u \in DOMAIN s.users THEN s.users[u] ELSE None]
          /\ groups = s.groups /\ members = s.members
    /\ password = [u \in UserId |-> None]
    /\ tokens = {}
    /\ clock = 0
    /\ op = [r \in Req |-> None]
    /\ pc = [r \in Req |-> "idle"]
    /\ who = [r \in Req |-> None]
    /\ copy = [r \in Req |-> None]
    /\ boot = [r \in Req |-> FALSE]
    /\ names = [r \in Req |-> {}]
    /\ bore = [r \in Req |-> {}]
    /\ earlier = [r \in Req |-> {}]

Step(r) ==
    \/ Count(r) \/ InsertUser(r) \/ JoinDefault(r)
    \/ FindUser(r) \/ FindGroup(r) \/ CheckGroup(r) \/ AssignGroup(r) \/ RemoveGroup(r)
    \/ ReadNames(r) \/ IssueToken(r) \/ ReadSettings(r) \/ SetPassword(r)
    \/ FindOrganization(r) \/ SeekGroup(r) \/ InsertGroup(r) \/ ListGroups(r)
    \/ Rename(r) \/ EraseUser(r) \/ Dissolve(r)

Quiescent == (\A r \in Req : pc[r] \in Ended) /\ UNCHANGED vars

Next == (\E r \in Req : Begin(r) \/ Step(r) \/ Fail(r)) \/ Tick \/ Quiescent

Spec == Init /\ [][Next]_vars

-----------------------------------------------------------------------------
(* Properties. *)

\* Every variable keeps its type, and rows refer to rows that exist.
TypeOK ==
    /\ public \in BOOLEAN /\ alive \in BOOLEAN /\ live \subseteq UserId
    /\ row \in [UserId -> Row \cup {None}]
    /\ groups \subseteq Group /\ members \subseteq Member
    /\ password \in [UserId -> Req \cup {None}]
    /\ tokens \subseteq [by : Req, user : UserId, claims : Claims] /\ clock \in 0..MaxClock
    /\ op \in [Req -> Ops \cup {None}] /\ pc \in [Req -> PC]
    /\ who \in [Req -> UserId \cup {None}] /\ copy \in [Req -> Row \cup {None}]
    /\ boot \in [Req -> BOOLEAN] /\ names \in [Req -> SUBSET Group]
    /\ bore \in [Req -> SUBSET UserId] /\ earlier \in [Req -> SUBSET Req]
    /\ \A m \in members : m[1] \in live /\ m[2] \in groups
    /\ \A t \in tokens : t.user \in live

\* q may have taken user u out of group g, or put it in.
Withdraws(q, u, g) ==
    \/ op[q].kind = "remove" /\ op[q].group = g
    \/ op[q].kind = "erase" /\ op[q].user = u
    \/ op[q].kind = "dissolve"
Grants(q, g) ==
    \/ op[q].kind = "assign" /\ op[q].group = g
    \/ op[q].kind \in {"register", "superadmin"}

\* The command that creates a superadmin, or assigns a group, reports success
\* only if the user, who bore the name since the command began, is in the group;
\* and a removal only if the user is not, as far as no other call changed it.
MembershipIsAsReported ==
    \A r \in Req : pc[r] = "ok" =>
        /\ op[r].kind \in {"assign", "superadmin"} =>
              /\ who[r] \in bore[r]
              /\ \/ <<who[r], op[r].group>> \in members
                 \/ \E q \in Req : pc[q] # "idle" /\ Withdraws(q, who[r], op[r].group)
        /\ op[r].kind = "remove" =>
              /\ who[r] \in bore[r]
              /\ \/ <<who[r], op[r].group>> \notin members
                 \/ \E q \in Req \ earlier[r] : pc[q] # "idle" /\ Grants(q, op[r].group)

\* A recovery that reports its link stored that link's token, for the user who
\* bore the name, and no other recovery's link carries the same token.
LinksAreStored ==
    /\ \A r \in Req : pc[r] = "ok" /\ op[r].kind = "recover" =>
          \/ who[r] \in bore[r] /\ \E t \in tokens : t.by = r /\ t.user = who[r]
          \/ who[r] \notin live
    /\ \A t, s \in tokens : t.claims = s.claims => t = s

\* A password reported as set is the password of a user who bore the email since
\* the command began, unless another command set one meanwhile or afterwards.
PasswordIsTheNamedUsers ==
    \A r \in Req : pc[r] = "ok" /\ op[r].kind = "password" =>
        /\ who[r] \in bore[r]
        /\ \/ password[who[r]] = r \/ who[r] \notin live
           \/ \E q \in Req \ ({r} \cup earlier[r]) : pc[q] # "idle" /\ op[q].kind = "password"
        /\ \A u \in UserId \ {who[r]} : password[u] # r
=============================================================================

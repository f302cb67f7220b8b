------------------------------ MODULE Sessions ------------------------------
(***************************************************************************)
(* Session tokens and the gates they open, against a database that other   *)
(* requests change: logging in, refreshing, asking who one is, and the     *)
(* administrative calls that a bearer token authorises.                    *)
(*                                                                         *)
(* A token is signed, carries its claims, and is never stored: the server  *)
(* believes it until it expires.  So a membership that is taken away keeps *)
(* opening gates for a while, and the question is for how long.  A token   *)
(* is named after the request it was minted for.  Time is a counter of     *)
(* units of which a token lives Lifetime; it stops at MaxTime.             *)
(*                                                                         *)
(* A user is a row of the schema of a namespace, so its number means       *)
(* nothing without the namespace.  One action is one database transaction, *)
(* or one middleware, which only looks at the token and the clock.         *)
(***************************************************************************)
EXTENDS Naturals, FiniteSets

CONSTANTS
    Req,        \* the requests
    Namespace,  \* the namespaces of the organizations
    Public,     \* DEFAULT_NAMESPACE
    Id,         \* user_id, a number drawn by each schema for itself
    Lifetime,   \* TOKEN_TTL_HOURS
    MaxTime,    \* the bound of the clock
    Enrolled,   \* the memberships at the start
    Ops,        \* what a request may ask for
    None        \* an unused field

Group == {"superadmin", "admin", "users"}
User == [ns : Namespace, id : Id]
Member == [user : User, group : Group, by : Id \cup {None}]
AdminKind == {"assign", "remove", "erase", "drop"}
Kind == {"login", "refresh", "me", "page", "console"} \cup AdminKind

\* A request logs in as user, or bears a token, or (an AdminKind without a
\* token) is a command at the server's console.  The other fields say what an
\* AdminKind acts on.
Op == [kind : Kind, user : User \cup {None}, token : Req \cup {None},
       org : Namespace \cup {None}, id : Id \cup {None}, group : Group \cup {None}]

ASSUME SessionsAssumption ==
    /\ Public \in Namespace /\ Lifetime \in Nat /\ MaxTime \in Nat
    /\ None \notin Namespace /\ None \notin Id /\ None \notin User
    /\ None \notin Req /\ None \notin Nat
    /\ Enrolled \subseteq Member /\ \A m \in Enrolled : m.by = None

ASSUME SessionOpsAssumption ==
    /\ Ops \subseteq Op /\ None \notin Ops
    /\ \A o \in Ops :
          /\ o.kind = "login" => o.user \in User /\ o.token = None
          /\ o.kind \in {"refresh", "me", "page", "console", "drop"} => o.token \in Req
          /\ o.kind \in AdminKind => o.org \in Namespace
          /\ o.kind \in {"assign", "remove", "erase"} => o.id \in Id
          /\ o.kind \in {"assign", "remove"} => o.group \in Group

VARIABLES
    clock,      \* the time
    orgs,       \* the namespaces whose organization exists
    live,       \* the users rows
    members,    \* the user_groups rows
    op,         \* what each request asks for
    pc,         \* the next step of each request, or its answer
    who,        \* sub and namespace: the user a login names or a token carries
    groups,     \* the group names read, then claimed or answered
    minted,     \* iat of the token minted for each request
    held,       \* history: the group sets who[r] has had since r arrived
    lost        \* history: when a user last lost a group

database == <<orgs, live, members>>
vars == <<clock, orgs, live, members, op, pc, who, groups, minted, held, lost>>

Answered == {"ok", "err", "login"}
PC == {"idle", "gate", "find", "groups", "sign", "org", "act"} \cup Answered
Time == 0..MaxTime

-----------------------------------------------------------------------------

Goto(r, label) == pc' = [pc EXCEPT ![r] = label]
GroupsOf(u, rows) == {m.group : m \in {n \in rows : n.user = u}}
Target(r) == [ns |-> op[r].org, id |-> op[r].id]

\* AuthenticatedUser.groups of a request: what the token it bears claims.
Claimed(r) == groups[op[r].token]

\* Mutation: a token is good for one more unit.
LenientlyVerified(r) ==
    LET t == op[r].token IN minted[t] # None /\ clock < minted[t] + Lifetime + 1

\* verify_token: signed by this server, and the clock has not reached exp.
Verified(r) ==
    LET t == op[r].token IN minted[t] # None /\ clock < minted[t] + Lifetime

\* Mutation: the name of the group is enough, in whatever namespace.
NamedSuperadmin(r) == "superadmin" \in Claimed(r)

IsGlobalSuperadmin(r) == who[r].ns = Public /\ "superadmin" \in Claimed(r)

MayAdminister(r) == Claimed(r) \cap {"superadmin", "admin"} # {}

\* A minting request holds groups it has read and not yet signed.
Signing(u) == \E r \in Req : pc[r] = "sign" /\ who[r] = u

\* The database and the histories that follow it.
Commit(users, rows) ==
    LET Has(u, g) == g \in GroupsOf(u, members)
        Keeps(u, g) == g \in GroupsOf(u, rows) IN
    /\ live' = users
    /\ members' = rows
    /\ held' = [r \in Req |-> IF pc[r] \notin Answered \cup {"idle"} /\ who[r] \in users
                              THEN held[r] \cup {GroupsOf(who[r], rows)} ELSE held[r]]
    /\ lost' = [u \in User |-> [g \in Group |->
                  IF Keeps(u, g) \/ (Has(u, g) /\ Signing(u)) THEN None
                  ELSE IF Has(u, g) THEN clock ELSE lost[u][g]]]

\* The answer to a token or a user that is no good: a page redirects to /login.
Refusal(o) == IF o.kind = "page" THEN "login" ELSE "err"

FirstLabel(o) ==
    CASE o.kind \in {"login", "page"} -> "find"
      [] o.kind \in AdminKind /\ o.token = None -> "act"
      [] OTHER -> "gate"

Arrive(r) ==
    /\ pc[r] = "idle"
    /\ \E o \in Ops :
          LET u == IF o.token = None THEN o.user ELSE who[o.token] IN
          /\ op' = [op EXCEPT ![r] = o]
          /\ who' = [who EXCEPT ![r] = u]
          /\ Goto(r, IF o.token # None /\ minted[o.token] = None THEN Refusal(o) ELSE FirstLabel(o))
          /\ held' = [held EXCEPT ![r] = IF u \in live THEN {GroupsOf(u, members)} ELSE {}]
    /\ UNCHANGED <<clock, database, groups, minted, lost>>

\* The request is dropped, or the database fails it.
Fail(r) ==
    /\ pc[r] \notin Answered \cup {"idle"}
    /\ Goto(r, "err")
    /\ UNCHANGED <<clock, database, op, who, groups, minted, held, lost>>

Tick ==
    /\ clock < MaxTime
    /\ clock' = clock + 1
    /\ UNCHANGED <<database, op, pc, who, groups, minted, held, lost>>

-----------------------------------------------------------------------------
(* The middlewares.  Every call that bears a token passes require_auth;    *)
(* the administrative ones pass require_superadmin too, whose check their  *)
(* handlers repeat before a check of their own.                            *)

\* require_superadmin, then delete_organization's validate_global_superadmin_access
\* or delete_user's "Cannot delete yourself".
Admits(r) ==
    /\ op[r].kind \in AdminKind \cup {"console"} => MayAdminister(r)
    /\ op[r].kind = "drop" => IsGlobalSuperadmin(r)
    /\ op[r].kind = "erase" /\ who[r].ns # Public => who[r].id # op[r].id

AfterGate == [refresh |-> "find", me |-> "find", console |-> "ok", assign |-> "org", remove |-> "org",
              erase |-> "org", drop |-> "act"]

Gate(r) ==
    /\ pc[r] = "gate"
    /\ Goto(r, IF Verified(r) /\ Admits(r) THEN AfterGate[op[r].kind] ELSE "err")
    /\ UNCHANGED <<clock, database, op, who, groups, minted, held, lost>>

\* Mutation: a plain administrator of the public namespace may go anywhere.
PublicMayEnter(r) ==
    /\ op[r].org \in orgs
    /\ who[r].ns = op[r].org \/ who[r].ns = Public

\* get_org_namespace_safe.
MayEnter(r) ==
    /\ op[r].org \in orgs
    /\ who[r].ns = op[r].org \/ IsGlobalSuperadmin(r)

ResolveNamespace(r) ==
    /\ pc[r] = "org"
    /\ Goto(r, IF MayEnter(r) THEN "act" ELSE "err")
    /\ UNCHANGED <<clock, database, op, who, groups, minted, held, lost>>

-----------------------------------------------------------------------------
(* UserService::login, refresh_token_for_user and get_user_by_token: the   *)
(* row of the user is read, then its groups, then a token may be signed.   *)

\* find_by_email or find_by_username; the password given is good (Credentials
\* tells the others).
FindForLogin(r) ==
    /\ pc[r] = "find" /\ op[r].kind = "login"
    /\ Goto(r, IF who[r] \in live THEN "groups" ELSE "err")
    /\ UNCHANGED <<clock, database, op, who, groups, minted, held, lost>>

\* Mutation: refresh_token of JwtService, which copies the claims it is given.
RefreshFromClaims(r) ==
    /\ pc[r] = "find" /\ op[r].kind = "refresh"
    /\ groups' = [groups EXCEPT ![r] = Claimed(r)]
    /\ Goto(r, "sign")
    /\ UNCHANGED <<clock, database, op, who, minted, held, lost>>

\* Mutation: the row of the user is not looked for.
RefreshAnyone(r) ==
    /\ pc[r] = "find" /\ op[r].kind = "refresh"
    /\ Goto(r, "groups")
    /\ UNCHANGED <<clock, database, op, who, groups, minted, held, lost>>

\* refresh_token_for_user: find_by_id.
FindForRefresh(r) ==
    /\ pc[r] = "find" /\ op[r].kind = "refresh"
    /\ Goto(r, IF who[r] \in live THEN "groups" ELSE "err")
    /\ UNCHANGED <<clock, database, op, who, groups, minted, held, lost>>

\* get_user_by_token verifies the token itself: the second time for /api/me,
\* the only time for the dashboard and the profile page, whose routes have no
\* middleware.
FindByToken(r) ==
    /\ pc[r] = "find" /\ op[r].kind \in {"me", "page"}
    /\ Goto(r, IF Verified(r) /\ who[r] \in live THEN "groups" ELSE Refusal(op[r]))
    /\ UNCHANGED <<clock, database, op, who, groups, minted, held, lost>>

\* get_user_groups, one statement.
ReadGroups(r) ==
    /\ pc[r] = "groups"
    /\ groups' = [groups EXCEPT ![r] = GroupsOf(who[r], members)]
    /\ Goto(r, IF op[r].kind \in {"login", "refresh"} THEN "sign" ELSE "ok")
    /\ UNCHANGED <<clock, database, op, who, minted, held, lost>>

\* generate_token.
Sign(r) ==
    /\ pc[r] = "sign"
    /\ minted' = [minted EXCEPT ![r] = clock]
    /\ Goto(r, "ok")
    /\ UNCHANGED <<clock, database, op, who, groups, held, lost>>

-----------------------------------------------------------------------------
(* What an administrator does, each in one statement of the database.      *)

\* Mutation: the administrator's number is recorded whatever the namespace.
AdminNumber(r) == IF op[r].token # None THEN who[r].id ELSE None

\* assigned_by: the administrator, if it is a user of the same schema.
AssignedBy(r) == IF op[r].token # None /\ who[r].ns = op[r].org THEN who[r].id ELSE None

\* A row refers to a user, a group and an assigner that exist.  The group is
\* found first: superadmin is granted in the public namespace only, and the
\* groups go with their organization.  A membership already there is kept.
Assign(r) ==
    LET row == [user |-> Target(r), group |-> op[r].group, by |-> AssignedBy(r)]
        allowed == /\ op[r].org \in orgs /\ Target(r) \in live
                   /\ op[r].group = "superadmin" => op[r].org = Public
                   /\ row.by # None => [ns |-> op[r].org, id |-> row.by] \in live
    IN  /\ pc[r] = "act" /\ op[r].kind = "assign"
        /\ Goto(r, IF allowed THEN "ok" ELSE "err")
        /\ IF allowed /\ op[r].group \notin GroupsOf(Target(r), members)
           THEN Commit(live, members \cup {row})
           ELSE UNCHANGED <<live, members, held, lost>>
        /\ UNCHANGED <<clock, orgs, op, who, groups, minted>>

Remove(r) ==
    /\ pc[r] = "act" /\ op[r].kind = "remove"
    /\ Goto(r, "ok")
    /\ Commit(live, {m \in members : m.user # Target(r) \/ m.group # op[r].group})
    /\ UNCHANGED <<clock, orgs, op, who, groups, minted>>

\* Mutation: user_groups does not cascade.
EraseOnlyUser(r) ==
    LET u == Target(r)
        allowed == u \in live
    IN  /\ pc[r] = "act" /\ op[r].kind = "erase"
        /\ Goto(r, IF allowed THEN "ok" ELSE "err")
        /\ IF allowed THEN Commit(live \ {u}, members) ELSE UNCHANGED <<live, members, held, lost>>
        /\ UNCHANGED <<clock, orgs, op, who, groups, minted>>

\* delete_user: the memberships go with the user, unless a membership of
\* someone else names it as the assigner.
Erase(r) ==
    LET u == Target(r)
        rest == {m \in members : m.user # u}
        allowed == u \in live /\ \A m \in rest : m.user.ns = u.ns => m.by # u.id
    IN  /\ pc[r] = "act" /\ op[r].kind = "erase"
        /\ Goto(r, IF allowed THEN "ok" ELSE "err")
        /\ IF allowed THEN Commit(live \ {u}, rest) ELSE UNCHANGED <<live, members, held, lost>>
        /\ UNCHANGED <<clock, orgs, op, who, groups, minted>>

\* delete_organization: its users and groups go with it.
Drop(r) ==
    /\ pc[r] = "act" /\ op[r].kind = "drop"
    /\ Goto(r, "ok")
    /\ orgs' = orgs \ {op[r].org}
    /\ Commit({u \in live : u.ns # op[r].org}, {m \in members : m.user.ns # op[r].org})
    /\ UNCHANGED <<clock, op, who, groups, minted>>

-----------------------------------------------------------------------------

Init ==
    /\ clock = 0
    /\ orgs = Namespace
    /\ live = {m.user : m \in Enrolled}
    /\ members = Enrolled
    /\ op = [r \in Req |-> None]
    /\ pc = [r \in Req |-> "idle"]
    /\ who = [r \in Req |-> None]
    /\ groups = [r \in Req |-> {}]
    /\ minted = [r \in Req |-> None]
    /\ held = [r \in Req |-> {}]
    /\ lost = [u \in User |-> [g \in Group |-> None]]

Step(r) ==
    \/ Gate(r) \/ ResolveNamespace(r) \/ FindForLogin(r) \/ FindForRefresh(r)
    \/ FindByToken(r) \/ ReadGroups(r) \/ Sign(r)
    \/ Assign(r) \/ Remove(r) \/ Erase(r) \/ Drop(r)

Quiescent == (\A r \in Req : pc[r] \in Answered) /\ UNCHANGED vars

Next ==
    \/ \E r \in Req : Arrive(r) \/ Step(r) \/ Fail(r)
    \/ Tick
    \/ Quiescent

Spec == Init /\ [][Next]_vars

-----------------------------------------------------------------------------
(* Properties. *)

\* Every variable keeps its type, and rows refer to rows that exist.
TypeOK ==
    /\ clock \in Time /\ orgs \subseteq Namespace /\ live \subseteq User
    /\ members \subseteq Member /\ \A m \in members : m.user \in live /\ m.user.ns \in orgs
    /\ op \in [Req -> Op \cup {None}] /\ pc \in [Req -> PC]
    /\ who \in [Req -> User \cup {None}] /\ groups \in [Req -> SUBSET Group]
    /\ minted \in [Req -> Time \cup {None}] /\ held \in [Req -> SUBSET SUBSET Group]
    /\ lost \in [User -> [Group -> Time \cup {None}]]
    /\ \A r \in Req : pc[r] # "idle" => op[r] # None

\* The groups a token claims, or a page shows, are those its user had at one
\* instant after the request arrived, or none if the user was deleted since: a
\* refresh brings nothing over from the token it replaces, and a user whose
\* deletion was answered gets neither token nor page.
ClaimsWereHeld ==
    \A r \in Req :
        pc[r] = "ok" /\ op[r].kind \in {"login", "refresh", "me", "page"} =>
            held[r] # {} /\ groups[r] \in held[r] \cup {{}}

\* A request that passes the administrative gate does so with a group its user
\* has, or lost less than a token's lifetime ago, however often the token was
\* refreshed in between.  Only a token that was being signed when the group was
\* lost is not counted.
RevocationTakesEffect ==
    [][\A r \in Req :
         pc[r] = "gate" /\ pc'[r] \in {"org", "act", "ok"} =>
             \E g \in {"superadmin", "admin"} :
                 g \in Claimed(r) /\ (lost[who[r]][g] # None => clock < lost[who[r]][g] + Lifetime)
      ]_vars

\* A request acts in the namespace of its own user; in another one only if the
\* user was a superadmin of the public namespace while its token was minted.
Confinement ==
    \A r \in Req :
        pc[r] = "act" /\ op[r].token # None =>
            \/ who[r].ns = op[r].org
            \/ /\ who[r].ns = Public
               /\ \E s \in held[op[r].token] : "superadmin" \in s

\* The assigner named by a membership is the administrator who made it, and not
\* a user of the tenant that happens to have the same number.
AssignerIsNamedRightly ==
    \A m \in members : m.by # None =>
        \E r \in Req :
            /\ op[r] # None /\ pc[r] = "ok"
            /\ op[r].kind = "assign" /\ Target(r) = m.user /\ op[r].group = m.group
            /\ who[r] = [ns |-> m.user.ns, id |-> m.by]
=============================================================================

------------------------------ MODULE Policies ------------------------------
(***************************************************************************)
(* The policies of one namespace and the checks made against them, under   *)
(* concurrent requests: PolicyService, the reads of UserService and        *)
(* GroupService it relies on, and the two endpoints that check a           *)
(* permission.                                                             *)
(*                                                                         *)
(* A policy reaches a user directly, through user_policies, or through a   *)
(* group, through group_policies and user_groups.  Only the schema public  *)
(* has user_policies and group_policies; a tenant's script makes neither.  *)
(*                                                                         *)
(* Texts of resources are sequences of segments, the last of which may be  *)
(* a star.  The policy created by request r is named r.                    *)
(***************************************************************************)
EXTENDS Naturals, Sequences, FiniteSets

CONSTANTS
    Req,        \* the requests
    User, Group,
    Org,        \* ids of organizations
    Here,       \* the organization whose namespace this is
    Name,       \* names of policies
    Resource,   \* texts of resources, in policies and in checks
    Action,     \* texts of actions, in policies and in checks
    Enrolled,   \* the users there are at the start
    Seeds,      \* ids of the policies there are at the start
    Seeded,     \* those policies
    Linked,     \* the rows of the join tables at the start, where there are such tables
    Ops,        \* what a request may ask for
    None        \* an unused field

Effect == {"ALLOW", "DENY"}
PolicyId == Req \cup Seeds
UserRow == [id : User, org : Org]
Policy == [id : PolicyId, name : Name, resource : Resource, action : Action, effect : Effect]
Link == ({"user_policies"} \X User \X PolicyId) \cup ({"group_policies"} \X Group \X PolicyId)
        \cup ({"user_groups"} \X User \X Group)

Kind == {"create", "list", "name", "id", "group", "grant", "revoke", "check", "erase", "dissolve"}

\* A check comes with an organization's key, or from a global superadmin,
\* either at the external endpoint or at the console's.
Caller == {"key", "superadmin", "console"}

Op == [kind : Kind, by : Caller \cup {None}, user : User \cup {None}, group : Group \cup {None},
       policy : PolicyId \cup {None}, name : Name \cup {None}, resource : Resource \cup {None},
       action : Action \cup {None}, effect : Effect \cup {None}, link : Link \cup {None}]

ASSUME PoliciesAssumption ==
    /\ Here \in Org /\ Seeds \cap Req = {}
    /\ \A t \in Resource : t \in Seq(STRING)
    /\ Enrolled \subseteq UserRow /\ \A u, v \in Enrolled : u.id = v.id => u = v
    /\ Seeded \subseteq Policy /\ IsFiniteSet(Seeded) /\ IsFiniteSet(Req)
    /\ \A p \in Seeded : p.id \in Seeds
    /\ \A p, q \in Seeded : p.id = q.id \/ p.name = q.name => p = q
    /\ Linked \subseteq Link
    /\ \A l \in Linked : /\ l[1] = "user_groups" \/ \E p \in Seeded : p.id = l[3]
                         /\ l[1] = "group_policies" \/ \E u \in Enrolled : u.id = l[2]

ASSUME PolicyOpsAssumption ==
    /\ Ops \subseteq Op /\ None \notin Ops
    /\ \A o \in Ops :
          /\ o.kind = "create" => o.name # None /\ o.effect # None
          /\ o.kind \in {"create", "check"} => o.resource # None /\ o.action # None
          /\ o.kind = "check" => o.by # None /\ o.user # None
          /\ o.kind \in {"grant", "revoke"} => o.link # None
          /\ o.kind = "name" => o.name # None
          /\ o.kind = "id" => o.policy # None
          /\ o.kind = "group" => o.group # None
          /\ o.kind = "erase" => o.user # None

VARIABLES
    public,     \* whether the namespace is DEFAULT_NAMESPACE: it is never another
    alive,      \* whether the organization of the namespace has its row
    users, groups, policies,    \* their rows
    links,      \* the rows of the three join tables
    op,         \* what each request asks for
    pc,         \* the next transaction of each request, or its answer
    shown,      \* the policies in the answer of each request
    held,       \* history: the verdicts that held since each check arrived
    earlier     \* history: the requests answered before each one arrived

vars == <<public, alive, users, groups, policies, links, op, pc, shown, held, earlier>>
tables == <<alive, users, groups, policies, links>>

Answered == {"ok", "allowed", "denied", "missing", "err", "failed", "gone"}
PC == {"idle", "resolve", "name", "insert", "list", "target", "link", "unlink",
       "policies", "subject", "gather", "erase", "dissolve"} \cup Answered

-----------------------------------------------------------------------------
(* PolicyService::evaluate_permission. *)

\* Either text is the pattern itself, or the pattern ends with a star and the
\* text starts with what comes before it.
ResourceMatches(pattern, text) ==
    \/ pattern = text
    \/ /\ pattern # <<>> /\ pattern[Len(pattern)] = "*"
       /\ Len(text) >= Len(pattern) - 1
       /\ \A i \in 1..(Len(pattern) - 1) : text[i] = pattern[i]

\* An action is a star or the very text: it has no prefixes.
MatchesPolicy(p, resource, action) ==
    /\ ResourceMatches(p.resource, resource)
    /\ p.action = "*" \/ p.action = action

\* Mutation: the last policy that matches decides.
LastMatchDecides(rows, resource, action) ==
    \E i \in DOMAIN rows :
        /\ MatchesPolicy(rows[i], resource, action) /\ rows[i].effect = "ALLOW"
        /\ \A j \in DOMAIN rows : j > i => ~MatchesPolicy(rows[j], resource, action)

\* The loop over the rows raises one flag for each effect it meets.
EvaluatePermission(rows, resource, action) ==
    LET met(effect) == \E i \in DOMAIN rows :
                          MatchesPolicy(rows[i], resource, action) /\ rows[i].effect = effect
    IN  met("ALLOW") /\ ~met("DENY")

-----------------------------------------------------------------------------

HasTable(table) == public \/ table = "user_groups"

\* get_user_all_policies: one statement reads both roads.
Reaches(p, user) ==
    \/ <<"user_policies", user, p.id>> \in links
    \/ \E g \in groups : /\ <<"group_policies", g, p.id>> \in links
                         /\ <<"user_groups", user, g>> \in links
AllPolicies(user) == {p \in policies : Reaches(p, user)}

\* No statement but two orders its rows.
Listings(rows) ==
    {s \in [1..Cardinality(rows) -> rows] : \A p \in rows : \E i \in DOMAIN s : s[i] = p}

\* What documentation and tests say the answer to a check is, at one instant:
\* a DENY that reaches the user wins over every ALLOW, and a key speaks for the
\* users of its organization only.
Matched(o, effect) ==
    \E p \in AllPolicies(o.user) : p.effect = effect /\ MatchesPolicy(p, o.resource, o.action)
Own(user) == [id |-> user, org |-> Here] \in users
Verdict(o) ==
    /\ o.by = "key" => Own(o.user)
    /\ Matched(o, "ALLOW") /\ ~Matched(o, "DENY")

Goto(r, label) == pc' = [pc EXCEPT ![r] = label] /\ UNCHANGED public
Under(r) == pc[r] \notin Answered \cup {"idle"}

\* Every transaction that writes is an instant of the checks under way.
Committed ==
    /\ UNCHANGED <<op, shown, earlier>>
    /\ held' = [r \in Req |-> IF Under(r) /\ op[r].kind = "check"
                              THEN held[r] \cup {Verdict(op[r])'} ELSE held[r]]

ReadOnly == UNCHANGED <<tables, op, held, earlier>>

FirstLabel(o) ==
    CASE o.kind \in {"create", "list"} -> "resolve"
      [] o.kind = "name" -> "name"
      [] o.kind \in {"id", "group", "grant"} -> "target"
      [] o.kind = "revoke" -> "unlink"
      [] o.kind = "check" -> IF o.by = "console" THEN "gather" ELSE "subject"
      [] OTHER -> o.kind

Arrive(r) ==
    /\ pc[r] = "idle"
    /\ \E o \in Ops :
          /\ o.kind = "check" /\ o.by # "key" => public
          /\ op' = [op EXCEPT ![r] = o]
          /\ held' = [held EXCEPT ![r] = IF o.kind = "check" THEN {Verdict(o)} ELSE {}]
          /\ Goto(r, FirstLabel(o))
    /\ earlier' = [earlier EXCEPT ![r] = {q \in Req : pc[q] \in Answered}]
    /\ UNCHANGED <<tables, shown>>

\* The request is dropped, or the database fails it; what it committed stays.
Fail(r) ==
    /\ Under(r)
    /\ Goto(r, "gone")
    /\ UNCHANGED shown /\ ReadOnly

-----------------------------------------------------------------------------
(* Policies and the rows that link them. *)

\* get_org_namespace_safe, for callers of this namespace.
ResolveOrganization(r) ==
    /\ pc[r] = "resolve"
    /\ Goto(r, IF ~alive THEN "err" ELSE IF op[r].kind = "create" THEN "name" ELSE "list")
    /\ UNCHANGED shown /\ ReadOnly

Named(name) == {p \in policies : p.name = name}

\* find_by_name, for get_policy_by_name and for create_policy, which then
\* refuses empty texts.
FindByName(r) ==
    LET found == Named(op[r].name) IN
    /\ pc[r] = "name"
    /\ \/ /\ op[r].kind = "name"
          /\ shown' = [shown EXCEPT ![r] = found]
          /\ Goto(r, IF found = {} THEN "missing" ELSE "ok")
       \/ /\ op[r].kind = "create"
          /\ Goto(r, IF found # {} \/ op[r].resource = <<>> \/ op[r].action = ""
                     THEN "err" ELSE "insert")
          /\ UNCHANGED shown
    /\ ReadOnly

NewPolicy(r) == [id |-> r, name |-> op[r].name, resource |-> op[r].resource,
                 action |-> op[r].action, effect |-> op[r].effect]

\* Mutation: names have no unique index.
InsertUnchecked(r) ==
    /\ pc[r] = "insert"
    /\ policies' = IF alive THEN policies \cup {NewPolicy(r)} ELSE policies
    /\ Goto(r, IF alive THEN "ok" ELSE "err")
    /\ UNCHANGED <<alive, users, groups, links>> /\ Committed

\* insert_policy: the name is unique, the organization has its row.
InsertPolicy(r) ==
    LET allowed == alive /\ Named(op[r].name) = {} IN
    /\ pc[r] = "insert"
    /\ policies' = IF allowed THEN policies \cup {NewPolicy(r)} ELSE policies
    /\ Goto(r, IF allowed THEN "ok" ELSE "err")
    /\ UNCHANGED <<alive, users, groups, links>> /\ Committed

\* list_policies of the organization.
ListPolicies(r) ==
    /\ pc[r] = "list"
    /\ shown' = [shown EXCEPT ![r] = policies]
    /\ Goto(r, "ok")
    /\ ReadOnly

HasPolicy(id) == \E p \in policies : p.id = id

\* What find_by_id looks for before a link is made: the policy, or the group
\* that a user is to join.
TargetExists(l) == IF l[1] = "user_groups" THEN l[3] \in groups ELSE HasPolicy(l[3])

FindTarget(r) ==
    /\ pc[r] = "target"
    /\ \/ /\ op[r].kind = "grant"
          /\ Goto(r, IF TargetExists(op[r].link) THEN "link" ELSE "err")
          /\ UNCHANGED shown
       \/ /\ op[r].kind = "id"
          /\ shown' = [shown EXCEPT ![r] = {p \in policies : p.id = op[r].policy}]
          /\ Goto(r, IF HasPolicy(op[r].policy) THEN "ok" ELSE "missing")
       \/ /\ op[r].kind = "group"
          /\ Goto(r, IF op[r].group \in groups THEN "policies" ELSE "missing")
          /\ UNCHANGED shown
    /\ ReadOnly

\* get_group_with_policies reads the policies in a second transaction.
GroupPolicies(r) ==
    /\ pc[r] = "policies"
    /\ \/ /\ HasTable("group_policies")
          /\ shown' = [shown EXCEPT ![r] =
                {p \in policies : <<"group_policies", op[r].group, p.id>> \in links}]
          /\ Goto(r, "ok")
       \/ /\ ~HasTable("group_policies")
          /\ Goto(r, "failed")
          /\ UNCHANGED shown
    /\ ReadOnly

\* Both ends of a row of a join table exist.
Bound(l) ==
    /\ IF l[1] = "group_policies" THEN l[2] \in groups ELSE \E u \in users : u.id = l[2]
    /\ TargetExists(l)

\* Mutation: a user or a group that has a policy gets no second one.
InsertFirstLink(r) ==
    LET l == op[r].link
        allowed == HasTable(l[1]) /\ Bound(l) /\ ~\E k \in links : k[1] = l[1] /\ k[2] = l[2]
    IN  /\ pc[r] = "link"
        /\ links' = IF allowed THEN links \cup {l} ELSE links
        /\ Goto(r, IF HasTable(l[1]) /\ Bound(l) THEN "ok" ELSE "err")
        /\ UNCHANGED <<alive, users, groups, policies>> /\ Committed

\* Mutation: user_groups, user_policies and group_policies refer to nothing.
InsertUnboundLink(r) ==
    LET l == op[r].link IN
    /\ pc[r] = "link"
    /\ links' = IF HasTable(l[1]) THEN links \cup {l} ELSE links
    /\ Goto(r, IF HasTable(l[1]) THEN "ok" ELSE "err")
    /\ UNCHANGED <<alive, users, groups, policies>> /\ Committed

\* The INSERT ... ON CONFLICT DO NOTHING of an assignment.
InsertLink(r) ==
    LET l == op[r].link
        allowed == HasTable(l[1]) /\ Bound(l)
    IN  /\ pc[r] = "link"
        /\ links' = IF allowed THEN links \cup {l} ELSE links
        /\ Goto(r, IF allowed THEN "ok" ELSE "err")
        /\ UNCHANGED <<alive, users, groups, policies>> /\ Committed

\* The DELETE of a removal: no error if there is nothing to remove.
DeleteLink(r) ==
    /\ pc[r] = "unlink"
    /\ links' = links \ {op[r].link}
    /\ Goto(r, IF HasTable(op[r].link[1]) THEN "ok" ELSE "err")
    /\ UNCHANGED <<alive, users, groups, policies>> /\ Committed

\* delete_user: the rows that refer to the user go with it.
EraseUser(r) ==
    /\ pc[r] = "erase"
    /\ users' = {u \in users : u.id # op[r].user}
    /\ links' = {l \in links : l[1] = "group_policies" \/ l[2] # op[r].user}
    /\ Goto(r, "ok")
    /\ UNCHANGED <<alive, groups, policies>> /\ Committed

\* delete_organization: all that refers to the organization goes with it.
Dissolve(r) ==
    /\ pc[r] = "dissolve"
    /\ alive' = FALSE
    /\ users' = {u \in users : u.org # Here}
    /\ groups' = {} /\ policies' = {} /\ links' = {}
    /\ Goto(r, "ok")
    /\ Committed

-----------------------------------------------------------------------------
(* check_permission, at the external endpoint and at the console's. *)

\* Mutation: a key speaks for every user of the schema.
AnyUserMayBeEvaluated(user) == \E u \in users : u.id = user

\* org_caller_may_evaluate.
OrgCallerMayEvaluate(user) == Own(user)

\* find_by_id of the subject: an organization is told "not allowed" of any user
\* that is not its own, a superadmin that there is no such user.
FindSubject(r) ==
    /\ pc[r] = "subject"
    /\ \/ /\ op[r].by = "key"
          /\ Goto(r, IF OrgCallerMayEvaluate(op[r].user) THEN "gather" ELSE "denied")
       \/ /\ op[r].by # "key"
          /\ Goto(r, IF \E u \in users : u.id = op[r].user THEN "gather" ELSE "missing")
    /\ UNCHANGED shown /\ ReadOnly

\* get_user_all_policies, which fails where a table is missing, and
\* evaluate_permission over the rows in whatever order they come.
Gather(r) ==
    /\ pc[r] = "gather"
    /\ \/ /\ HasTable("user_policies")
          /\ \E rows \in Listings(AllPolicies(op[r].user)) :
                Goto(r, IF EvaluatePermission(rows, op[r].resource, op[r].action)
                        THEN "allowed" ELSE "denied")
       \/ /\ ~HasTable("user_policies")
          /\ Goto(r, "failed")
    /\ UNCHANGED shown /\ ReadOnly

-----------------------------------------------------------------------------

Init ==
    /\ public \in BOOLEAN
    /\ alive = TRUE
    /\ users = Enrolled /\ groups = Group /\ policies = Seeded
    /\ links = {l \in Linked : HasTable(l[1])}
    /\ op = [r \in Req |-> None]
    /\ pc = [r \in Req |-> "idle"]
    /\ shown = [r \in Req |-> {}]
    /\ held = [r \in Req |-> {}]
    /\ earlier = [r \in Req |-> {}]

Step(r) ==
    \/ ResolveOrganization(r) \/ FindByName(r) \/ InsertPolicy(r) \/ ListPolicies(r)
    \/ FindTarget(r) \/ GroupPolicies(r) \/ InsertLink(r) \/ DeleteLink(r)
    \/ EraseUser(r) \/ Dissolve(r) \/ FindSubject(r) \/ Gather(r)

Quiescent == (\A r \in Req : pc[r] \in Answered) /\ UNCHANGED vars

Next == (\E r \in Req : Arrive(r) \/ Step(r) \/ Fail(r)) \/ Quiescent

Spec == Init /\ [][Next]_vars

-----------------------------------------------------------------------------
(* Properties. *)

\* Every variable keeps its type, and rows of join tables refer to rows.
TypeOK ==
    /\ public \in BOOLEAN /\ alive \in BOOLEAN /\ users \subseteq UserRow /\ groups \subseteq Group
    /\ policies \subseteq Policy /\ links \subseteq Link
    /\ op \in [Req -> Ops \cup {None}] /\ pc \in [Req -> PC]
    /\ shown \in [Req -> SUBSET Policy] /\ held \in [Req -> SUBSET BOOLEAN]
    /\ earlier \in [Req -> SUBSET Req]
    /\ \A l \in links : Bound(l)

\* What a check answers was right at some instant since it arrived, though the
\* subject and its policies are read at two: the policies reaching the user then
\* allowed it, none denied it, and the key's organization was the user's.
ChecksWereRight ==
    \A r \in Req : op[r] # None /\ op[r].kind = "check" =>
        /\ pc[r] = "allowed" => TRUE \in held[r]
        /\ pc[r] = "denied" => FALSE \in held[r]

\* The requests that could undo a link.
Undoes(q, l) ==
    \/ op[q].kind = "revoke" /\ op[q].link = l
    \/ op[q].kind = "erase" /\ l[1] = "user_policies" /\ op[q].user = l[2]
    \/ op[q].kind = "dissolve"

\* A DENY given to a user, once the assignment is answered with success, refuses
\* every check that arrives later, until a request arrives that undoes it.
DeniesHold ==
    \A r, q \in Req :
        /\ q \in earlier[r] /\ pc[q] = "ok" /\ op[q].kind = "grant" /\ op[r].kind = "check"
        /\ op[q].link[1] = "user_policies" /\ op[q].link[2] = op[r].user
        /\ ~\E s \in Req : pc[s] # "idle" /\ Undoes(s, op[q].link)
        /\ \E p \in policies : /\ p.id = op[q].link[3] /\ p.effect = "DENY"
                               /\ MatchesPolicy(p, op[r].resource, op[r].action)
        => pc[r] # "allowed"

\* Names of policies stay unique through racing creations, and every creation
\* answered with success is listed, unless its organization is dissolved.
CreatedPoliciesAreListed ==
    /\ \A p, q \in policies : p.name = q.name => p = q
    /\ \A r, q \in Req :
          /\ pc[r] = "ok" /\ op[r].kind = "list" /\ alive
          /\ q \in earlier[r] /\ pc[q] = "ok" /\ op[q].kind = "create"
          => NewPolicy(q) \in shown[r]

\* An organization's key cannot tell by the answer whether a user exists, is
\* another organization's, or merely has no permission.
DenialsLookAlike ==
    \A r, q \in Req :
        /\ op[r] # None /\ op[r].kind = "check" /\ op[r].by = "key"
        /\ op[q] # None /\ op[q].kind = "check" /\ op[q].by = "key"
        /\ pc[r] \in Answered \ {"allowed", "gone"} /\ pc[q] \in Answered \ {"allowed", "gone"}
        => pc[r] = pc[q]
=============================================================================

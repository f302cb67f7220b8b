--------------------------- MODULE AccountsProofs ---------------------------
(* Proofs about Accounts for any number of requests and any names. *)
EXTENDS Accounts, TLAPS

\* Facts about the request forms and the group names used below.
LEMMA OpFacts ==
    ASSUME op \in [Req -> Ops], NEW r \in Req
    PROVE  /\ op[r].kind \in Kind /\ op[r].email \in Email /\ op[r].username \in Username
           /\ op[r].groups \in Seq(GroupName)
           /\ op[r].kind \in {"assign", "remove", "delete"} => op[r].target \in Req
           /\ op[r].kind \in {"assign", "remove", "newgroup"} => NamedGroup(r) \in GroupName
<1>1. op[r] \in Ops /\ op[r] \in Op
  BY OpsAssumption
<1>2. op[r].groups \in Seq(GroupName)
  BY <1>1 DEF Op
<1>3. op[r].kind \in {"assign", "remove", "newgroup"} => NamedGroup(r) \in GroupName
  BY <1>1, <1>2, OpsAssumption DEF NamedGroup
<1> QED
  BY <1>1, <1>2, <1>3, OpsAssumption DEF Op

LEMMA BootstrapGroupsType == BootstrapGroups \in Seq(GroupName)
BY NamesAssumption DEF BootstrapGroups, SUPERADMIN_GROUP, ADMIN_GROUP, USERS_GROUP

-----------------------------------------------------------------------------
(* The path of a request through its transactions is fixed by its kind. *)

CreatePath == {"email", "username", "resolve", "heal", "insert", "link", "names"}

PathOK ==
    \A r \in Req :
        /\ pc[r] = "count" => op[r].kind = "register"
        /\ pc[r] \in CreatePath => Creates(r)
        /\ pc[r] \in {"group", "assign"} => op[r].kind = "assign"
        /\ pc[r] = "unlink" => op[r].kind = "remove"
        /\ pc[r] = "erase" => op[r].kind = "delete"
        /\ pc[r] \in {"groupname", "newgroup"} => op[r].kind = "newgroup"

LEMMA LabelFacts ==
    /\ {"insert", "names", "ok", "err", "taken"} \subseteq PC \ Loop
    /\ Loop = {"resolve", "heal", "link"}
    /\ Answered = {"ok", "taken", "err"}
BY DEF PC, Loop, Answered

-----------------------------------------------------------------------------
(* Type correctness. *)

LEMMA InsertRowType ==
    ASSUME members \subseteq Membership, empowered \subseteq Req,
           NEW u \in Req, NEW g \in GroupName, NEW by \in Req \cup {None}, NEW via \in Req,
           InsertRow(u, g, by, via)
    PROVE  members' \subseteq Membership /\ empowered' \subseteq Req
BY DEF InsertRow, Membership

\* The loop of a request stays inside the sequence it walks.
LEMMA AdvanceType ==
    ASSUME TypeOK, NEW r \in Req, pc[r] \in Loop, NEW label \in PC, label \notin Loop,
           Advance(r, label)
    PROVE  /\ pc' \in [Req -> PC] /\ k' \in [Req -> Nat]
           /\ \A q \in Req : pc'[q] \in Loop \cup {"insert"} => k'[q] \in 1..Len(want[q])
<1> DEFINE next == IF pc[r] = "link" THEN "link" ELSE "resolve"
<1>1. next \in PC /\ next \in Loop
  BY DEF PC, Loop
<1>2. /\ pc \in [Req -> PC] /\ k \in [Req -> Nat] /\ Len(want[r]) \in Nat
      /\ k[r] \in 1..Len(want[r])
      /\ \A q \in Req : pc[q] \in Loop \cup {"insert"} => k[q] \in 1..Len(want[q])
  BY DEF TypeOK
<1> HIDE DEF next
<1>3. CASE k[r] < Len(want[r]) /\ k' = [k EXCEPT ![r] = k[r] + 1]
           /\ pc' = [pc EXCEPT ![r] = next]
  BY <1>1, <1>2, <1>3
<1>4. CASE k' = [k EXCEPT ![r] = 1] /\ pc' = [pc EXCEPT ![r] = label]
  BY <1>2, <1>4
<1> QED
  BY <1>3, <1>4 DEF Advance, Goto, next

\* The group a loop step names, trimmed, is a group name.
LEMMA CurrentType ==
    ASSUME TypeOK, NEW r \in Req, pc[r] \in Loop
    PROVE  Current(r) \in GroupName
<1>1. want[r] \in Seq(GroupName) /\ k[r] \in 1..Len(want[r])
  BY DEF TypeOK
<1> QED
  BY <1>1, NamesAssumption DEF Current

LEMMA TypeInit == Init => TypeOK
BY NamespaceAssumption DEF Init, TypeOK, PC, Loop, Answered

LEMMA TypeArrive ==
    ASSUME TypeOK, NEW r \in Req, Arrive(r)
    PROVE  TypeOK'
<1>1. CASE ArriveRegister(r)
  BY <1>1, OpFacts DEF ArriveRegister, TypeOK, Goto, PC, Loop, Answered, tables
<1>2. ASSUME NEW a \in Req \cup {None}, ArriveAdmin(r, a)
      PROVE  TypeOK'
  <2>1. (IF DeletesItself(r, a) THEN "err" ELSE FirstLabel[op[r].kind])
            \in PC \ (Loop \cup {"insert"})
    BY <1>2, OpFacts DEF ArriveAdmin, FirstLabel, TypeOK, Kind, PC, Loop, Answered
  <2> QED
    BY <1>2, <2>1, OpFacts DEF ArriveAdmin, TypeOK, Goto, tables
<1> QED
  BY <1>1, <1>2 DEF Arrive

LEMMA TypeCreateStep ==
    ASSUME TypeOK, NEW r \in Req, CreateStep(r)
    PROVE  TypeOK'
<1> USE DEF Goto, tables, locals, history
<1>1. CASE CountUsers(r)
  <2>1. CASE Goto(r, "err") /\ UNCHANGED <<want, boot>>
    BY <1>1, <2>1 DEF CountUsers, TypeOK, PC, Loop, Answered
  <2>2. CASE Goto(r, "email") /\ UNCHANGED <<want, boot>>
    BY <1>1, <2>2 DEF CountUsers, TypeOK, PC, Loop, Answered
  <2>3. CASE Goto(r, "email") /\ want' = [want EXCEPT ![r] = BootstrapGroups]
             /\ boot' = [boot EXCEPT ![r] = TRUE]
    BY <1>1, <2>3, BootstrapGroupsType DEF CountUsers, TypeOK, PC, Loop, Answered
  <2> QED
    BY <1>1, <2>1, <2>2, <2>3 DEF CountUsers
<1>2. CASE FindByEmail(r)
  BY <1>2 DEF FindByEmail, TypeOK, PC, Loop, Answered
<1>3. CASE FindByUsername(r)
  <2>1. CASE Goto(r, "resolve") /\ k' = [k EXCEPT ![r] = 1]
             /\ want' = [want EXCEPT ![r] = IF want[r] = <<>> THEN <<USERS_GROUP>> ELSE want[r]]
    <3>1. /\ (IF want[r] = <<>> THEN <<USERS_GROUP>> ELSE want[r]) \in Seq(GroupName)
          /\ 1 \in 1..Len(IF want[r] = <<>> THEN <<USERS_GROUP>> ELSE want[r])
      BY NamesAssumption DEF TypeOK
    <3> QED
      BY <1>3, <2>1, <3>1 DEF FindByUsername, TypeOK, PC, Loop, Answered
  <2>2. CASE Goto(r, "taken") /\ UNCHANGED <<want, k>>
    BY <1>3, <2>2 DEF FindByUsername, TypeOK, PC, Loop, Answered
  <2>3. CASE Goto(r, "err") /\ UNCHANGED <<want, k>>
    BY <1>3, <2>3 DEF FindByUsername, TypeOK, PC, Loop, Answered
  <2> QED
    BY <1>3, <2>1, <2>2, <2>3 DEF FindByUsername
<1>4. CASE ResolveGroup(r)
  <2>1. CASE Advance(r, "insert")
    BY <1>4, <2>1, AdvanceType, LabelFacts DEF ResolveGroup, TypeOK
  <2>2. CASE Goto(r, "heal") /\ UNCHANGED k
    BY <1>4, <2>2 DEF ResolveGroup, TypeOK, PC, Loop, Answered
  <2>3. CASE Goto(r, "err") /\ UNCHANGED k
    BY <1>4, <2>3 DEF ResolveGroup, TypeOK, PC, Loop, Answered
  <2> QED
    BY <1>4, <2>1, <2>2, <2>3 DEF ResolveGroup
<1>5. CASE HealGroup(r)
  <2>1. CASE groups' = groups \cup {Current(r)} /\ Advance(r, "insert")
    BY <1>5, <2>1, AdvanceType, CurrentType, LabelFacts DEF HealGroup, TypeOK
  <2>2. CASE Goto(r, "err") /\ UNCHANGED <<groups, k>>
    BY <1>5, <2>2 DEF HealGroup, TypeOK, PC, Loop, Answered
  <2> QED
    BY <1>5, <2>1, <2>2 DEF HealGroup
<1>6. CASE InsertUser(r)
  BY <1>6 DEF InsertUser, TypeOK, PC, Loop, Answered
<1>7. CASE AssignNewUser(r)
  <2>1. CASE InsertRow(r, Current(r), actor[r], r) /\ Advance(r, "names")
    <3>1. members' \subseteq Membership /\ empowered' \subseteq Req
      BY <1>7, <2>1, CurrentType, LabelFacts, InsertRowType DEF AssignNewUser, TypeOK
    <3> QED
      BY <1>7, <2>1, <3>1, AdvanceType, LabelFacts DEF AssignNewUser, TypeOK
  <2>2. CASE Goto(r, "err") /\ UNCHANGED <<members, empowered, k>>
    BY <1>7, <2>2 DEF AssignNewUser, TypeOK, PC, Loop, Answered
  <2> QED
    BY <1>7, <2>1, <2>2 DEF AssignNewUser
<1>8. CASE ReadGroupNames(r)
  <2>1. GroupsOf(r) \in SUBSET GroupName
    BY DEF GroupsOf, TypeOK, Membership
  <2> QED
    BY <1>8, <2>1 DEF ReadGroupNames, TypeOK, PC, Loop, Answered
<1> QED
  BY <1>1, <1>2, <1>3, <1>4, <1>5, <1>6, <1>7, <1>8 DEF CreateStep

LEMMA TypeAdminStep ==
    ASSUME TypeOK, PathOK, NEW r \in Req, AdminStep(r)
    PROVE  TypeOK'
<1> USE DEF Goto, tables, locals, history
<1>1. CASE FindGroup(r)
  BY <1>1 DEF FindGroup, TypeOK, PC, Loop, Answered
<1>2. CASE AssignUser(r)
  <2>1. CASE InsertRow(op[r].target, NamedGroup(r), actor[r], r) /\ Goto(r, "ok")
    <3>1. op[r].target \in Req /\ NamedGroup(r) \in GroupName
      BY <1>2, OpFacts DEF AssignUser, TypeOK, PathOK
    <3>2. members' \subseteq Membership /\ empowered' \subseteq Req
      BY <2>1, <3>1, InsertRowType DEF TypeOK
    <3> QED
      BY <1>2, <2>1, <3>2 DEF AssignUser, TypeOK, PC, Loop, Answered
  <2>2. CASE Goto(r, "err") /\ UNCHANGED <<members, empowered>>
    BY <1>2, <2>2 DEF AssignUser, TypeOK, PC, Loop, Answered
  <2> QED
    BY <1>2, <2>1, <2>2 DEF AssignUser
<1>3. CASE RemoveUser(r)
  <2>1. <<op[r].target, NamedGroup(r)>> \in Req \X GroupName
    BY <1>3, OpFacts DEF RemoveUser, TypeOK, PathOK
  <2> QED
    BY <1>3, <2>1 DEF RemoveUser, TypeOK, PC, Loop, Answered
<1>4. CASE DeleteUser(r)
  BY <1>4 DEF DeleteUser, TypeOK, PC, Loop, Answered
<1>5. CASE FindGroupName(r)
  BY <1>5 DEF FindGroupName, TypeOK, PC, Loop, Answered
<1>6. CASE InsertGroup(r)
  <2>1. NamedGroup(r) \in GroupName
    BY <1>6, OpFacts DEF InsertGroup, TypeOK, PathOK
  <2> QED
    BY <1>6, <2>1 DEF InsertGroup, TypeOK, PC, Loop, Answered
<1> QED
  BY <1>1, <1>2, <1>3, <1>4, <1>5, <1>6 DEF AdminStep

LEMMA TypeNext ==
    ASSUME TypeOK, PathOK, [Next]_vars
    PROVE  TypeOK'
<1>1. CASE UNCHANGED vars
  BY <1>1 DEF vars, TypeOK, PC, Loop, Answered, Membership
<1>2. ASSUME NEW r \in Req, Fail(r)
      PROVE  TypeOK'
  BY <1>2 DEF Fail, TypeOK, Goto, PC, Loop, Answered, tables, locals, history
<1> QED
  BY <1>1, <1>2, TypeArrive, TypeCreateStep, TypeAdminStep DEF Next, Quiescent

-----------------------------------------------------------------------------
(* Requests keep to the path of their kind. *)

LEMMA AdvancePath ==
    ASSUME TypeOK, NEW r \in Req, NEW label, Advance(r, label)
    PROVE  pc' = [pc EXCEPT ![r] = pc'[r]] /\ pc'[r] \in {"link", "resolve", label}
BY DEF Advance, Goto, TypeOK

LEMMA PathNext ==
    ASSUME TypeOK, PathOK, [Next]_vars
    PROVE  PathOK'
<1> USE DEF Goto, CreatePath, Creates
<1>1. CASE UNCHANGED vars
  BY <1>1 DEF vars, PathOK
<1> SUFFICES ASSUME NEW r \in Req, Arrive(r) \/ CreateStep(r) \/ AdminStep(r) \/ Fail(r)
             PROVE  PathOK'
  BY <1>1 DEF Next, Quiescent
<1>2. op' = op
  BY DEF Arrive, ArriveRegister, ArriveAdmin, Fail, CreateStep, AdminStep, CountUsers,
     FindByEmail, FindByUsername, ResolveGroup, HealGroup, InsertUser, AssignNewUser,
     ReadGroupNames, FindGroup, AssignUser, RemoveUser, DeleteUser, FindGroupName, InsertGroup
<1>3. ASSUME NEW q \in Req, q # r
      PROVE  pc'[q] = pc[q]
  BY <1>3, AdvancePath DEF Arrive, ArriveRegister, ArriveAdmin, Fail, CreateStep, AdminStep,
     CountUsers, FindByEmail, FindByUsername, ResolveGroup, HealGroup, InsertUser,
     AssignNewUser, ReadGroupNames, FindGroup, AssignUser, RemoveUser, DeleteUser,
     FindGroupName, InsertGroup, TypeOK
<1>4. /\ pc'[r] = "count" => op[r].kind = "register"
      /\ pc'[r] \in CreatePath => Creates(r)
      /\ pc'[r] \in {"group", "assign"} => op[r].kind = "assign"
      /\ pc'[r] = "unlink" => op[r].kind = "remove"
      /\ pc'[r] = "erase" => op[r].kind = "delete"
      /\ pc'[r] \in {"groupname", "newgroup"} => op[r].kind = "newgroup"
  <2>1. CASE Arrive(r)
    BY <2>1, OpFacts DEF Arrive, ArriveRegister, ArriveAdmin, FirstLabel, Kind, TypeOK
  <2>2. CASE CreateStep(r)
    BY <2>2, AdvancePath DEF CreateStep, CountUsers, FindByEmail, FindByUsername, ResolveGroup,
       HealGroup, InsertUser, AssignNewUser, ReadGroupNames, PathOK, TypeOK
  <2>3. CASE AdminStep(r)
    BY <2>3 DEF AdminStep, FindGroup, AssignUser, RemoveUser, DeleteUser, FindGroupName,
       InsertGroup, PathOK, TypeOK
  <2>4. CASE Fail(r)
    BY <2>4 DEF Fail, TypeOK
  <2> QED
    BY <2>1, <2>2, <2>3, <2>4
<1> QED
  BY <1>2, <1>3, <1>4 DEF PathOK

\* Every variable keeps its type in every namespace, under any number of
\* concurrent requests, and no loop index leaves its sequence.
THEOREM TypeCorrect == Spec => []TypeOK
<1>1. Init => TypeOK /\ PathOK
  BY TypeInit DEF Init, PathOK, CreatePath
<1>2. TypeOK /\ PathOK /\ [Next]_vars => (TypeOK /\ PathOK)'
  BY TypeNext, PathNext
<1> QED
  BY <1>1, <1>2, PTL DEF Spec

-----------------------------------------------------------------------------
(* Which steps write which table, and nothing rewrites a request. *)

LEMMA UsersFrame ==
    ASSUME [Next]_vars
    PROVE  /\ op' = op
           /\ \/ UNCHANGED <<users, made>>
              \/ \E r \in Req : InsertUser(r)
              \/ \E r \in Req : DeleteUser(r)
BY DEF Next, Quiescent, vars, tables, locals, history, Arrive, ArriveRegister, ArriveAdmin, Fail,
   CreateStep, AdminStep, CountUsers, FindByEmail, FindByUsername, ResolveGroup, HealGroup,
   InsertUser, AssignNewUser, ReadGroupNames, FindGroup, AssignUser, RemoveUser, DeleteUser,
   FindGroupName, InsertGroup

LEMMA MembersFrame ==
    ASSUME [Next]_vars
    PROVE  \/ UNCHANGED members
           \/ \E r \in Req : AssignNewUser(r) \/ AssignUser(r) \/ RemoveUser(r) \/ DeleteUser(r)
BY DEF Next, Quiescent, vars, tables, locals, history, Arrive, ArriveRegister, ArriveAdmin, Fail,
   CreateStep, AdminStep, CountUsers, FindByEmail, FindByUsername, ResolveGroup, HealGroup,
   InsertUser, AssignNewUser, ReadGroupNames, FindGroup, AssignUser, RemoveUser, DeleteUser,
   FindGroupName, InsertGroup

\* The rows a grant adds: at most the one it names.
LEMMA InsertRowAdds ==
    ASSUME NEW u, NEW g, NEW by, NEW via, InsertRow(u, g, by, via), NEW m \in members', m \notin members
    PROVE  m = [user |-> u, group |-> g, by |-> by, via |-> via] /\ ~HasRow(u, g)
BY DEF InsertRow

\* Group rows are only ever added, and memberships are kept by everything but
\* a removal or a deletion.
LEMMA GroupsGrow ==
    ASSUME [Next]_vars
    PROVE  groups \subseteq groups'
BY DEF Next, Quiescent, vars, tables, locals, history, Arrive, ArriveRegister, ArriveAdmin, Fail,
   CreateStep, AdminStep, CountUsers, FindByEmail, FindByUsername, ResolveGroup, HealGroup,
   InsertUser, AssignNewUser, ReadGroupNames, FindGroup, AssignUser, RemoveUser, DeleteUser,
   FindGroupName, InsertGroup

-----------------------------------------------------------------------------
(* Identities. *)

LEMMA UniqueNext ==
    ASSUME TypeOK, UniqueIdentities, [Next]_vars
    PROVE  UniqueIdentities'
<1> USE DEF KeyClash, EmailKeyClash, SameMailbox
<1>1. CASE UNCHANGED users
  BY <1>1, UsersFrame DEF UniqueIdentities
<1>2. ASSUME NEW r \in Req, InsertUser(r)
      PROVE  UniqueIdentities'
  BY <1>2, UsersFrame DEF InsertUser, UniqueIdentities
<1>3. ASSUME NEW r \in Req, DeleteUser(r)
      PROVE  UniqueIdentities'
  BY <1>3, UsersFrame DEF DeleteUser, UniqueIdentities
<1> QED
  BY <1>1, <1>2, <1>3, UsersFrame

\* However many creations race between their checks and their INSERT, no two
\* user rows of a namespace ever share a username or an email key.
THEOREM IdentitiesUnique == Spec => []UniqueIdentities
<1>1. Init => TypeOK /\ PathOK /\ UniqueIdentities
  BY TypeInit DEF Init, PathOK, CreatePath, UniqueIdentities
<1>2. TypeOK /\ PathOK /\ UniqueIdentities /\ [Next]_vars
        => (TypeOK /\ PathOK /\ UniqueIdentities)'
  BY TypeNext, PathNext, UniqueNext
<1> QED
  BY <1>1, <1>2, PTL DEF Spec

-----------------------------------------------------------------------------
(* Memberships. *)

LEMMA IntegrityNext ==
    ASSUME TypeOK, PathOK, ReferentialIntegrity, [Next]_vars
    PROVE  ReferentialIntegrity'
<1>1. CASE UNCHANGED <<users, members>>
  BY <1>1, GroupsGrow DEF ReferentialIntegrity
<1>2. ASSUME NEW r \in Req, AssignNewUser(r)
      PROVE  ReferentialIntegrity'
  <2>1. CASE MayInsertRow(r, Current(r), actor[r]) /\ InsertRow(r, Current(r), actor[r], r)
    BY <1>2, <2>1, InsertRowAdds DEF AssignNewUser, MayInsertRow, ReferentialIntegrity
  <2> QED
    BY <1>2, <2>1 DEF AssignNewUser, ReferentialIntegrity
<1>3. ASSUME NEW r \in Req, AssignUser(r)
      PROVE  ReferentialIntegrity'
  <2>1. CASE /\ MayInsertRow(op[r].target, NamedGroup(r), actor[r])
             /\ InsertRow(op[r].target, NamedGroup(r), actor[r], r)
    BY <1>3, <2>1, InsertRowAdds DEF AssignUser, MayInsertRow, ReferentialIntegrity
  <2> QED
    BY <1>3, <2>1 DEF AssignUser, ReferentialIntegrity
<1>4. ASSUME NEW r \in Req, RemoveUser(r)
      PROVE  ReferentialIntegrity'
  BY <1>4 DEF RemoveUser, ReferentialIntegrity
<1>5. ASSUME NEW r \in Req, DeleteUser(r)
      PROVE  ReferentialIntegrity'
  BY <1>5, OpFacts, NamespaceAssumption
     DEF DeleteUser, Granted, ReferentialIntegrity, TypeOK, PathOK
<1>6. ASSUME NEW r \in Req, InsertUser(r)
      PROVE  ReferentialIntegrity'
  BY <1>6 DEF InsertUser, ReferentialIntegrity
<1> QED
  BY <1>1, <1>2, <1>3, <1>4, <1>5, <1>6, UsersFrame, MembersFrame

\* No interleaving of creations, grants, removals and deletions leaves a
\* membership of a user, group or grantor that is gone.
THEOREM MembershipsRefer == Spec => []ReferentialIntegrity
<1>1. Init => TypeOK /\ PathOK /\ ReferentialIntegrity
  BY TypeInit DEF Init, PathOK, CreatePath, ReferentialIntegrity
<1>2. TypeOK /\ PathOK /\ ReferentialIntegrity /\ [Next]_vars
        => (TypeOK /\ PathOK /\ ReferentialIntegrity)'
  BY TypeNext, PathNext, IntegrityNext
<1> QED
  BY <1>1, <1>2, PTL DEF Spec

LEMMA MembersStay ==
    ASSUME [Next]_vars, NEW m \in members
    PROVE  m \in members' \/ m.user \notin users' \/ <<m.user, m.group>> \in withdrawn'
<1>1. CASE UNCHANGED members
  BY <1>1
<1>2. ASSUME NEW r \in Req, AssignNewUser(r) \/ AssignUser(r)
      PROVE  m \in members'
  BY <1>2 DEF AssignNewUser, AssignUser, InsertRow
<1>3. ASSUME NEW r \in Req, RemoveUser(r)
      PROVE  m \in members' \/ <<m.user, m.group>> \in withdrawn'
  BY <1>3 DEF RemoveUser
<1>4. ASSUME NEW r \in Req, DeleteUser(r)
      PROVE  m \in members' \/ m.user \notin users'
  BY <1>4 DEF DeleteUser
<1> QED
  BY <1>1, <1>2, <1>3, <1>4, MembersFrame

\* A membership goes only with its own user or by an explicit removal.
THEOREM OnlyRevocation == Spec => OnlyRevocationWithdraws
<1>1. [Next]_vars => [\A m \in members : \/ m \in members'
                                         \/ m.user \notin users'
                                         \/ <<m.user, m.group>> \in withdrawn']_vars
  BY MembersStay
<1> QED
  BY <1>1, PTL DEF Spec, OnlyRevocationWithdraws

-----------------------------------------------------------------------------
(* A request inserts its row once, and only late on its path. *)

MadeOK ==
    /\ users \subseteq made
    /\ \A r \in Req : before[r] \subseteq made
    /\ \A r \in made : Creates(r) /\ pc[r] \in {"link", "names", "ok", "err"}

LEMMA LabelStep ==
    ASSUME TypeOK, PathOK, [Next]_vars, NEW r \in Req, pc[r] \in {"link", "names", "ok", "err"},
           Creates(r)
    PROVE  pc'[r] \in {"link", "names", "ok", "err"}
<1> SUFFICES ASSUME NEW q \in Req, Arrive(q) \/ CreateStep(q) \/ AdminStep(q) \/ Fail(q), pc'[r] # pc[r]
             PROVE  pc'[r] \in {"link", "names", "ok", "err"}
  BY DEF Next, Quiescent, vars
<1>1. pc' = [pc EXCEPT ![q] = pc'[q]]
  BY AdvancePath DEF Arrive, ArriveRegister, ArriveAdmin, Fail, CreateStep, AdminStep,
     CountUsers, FindByEmail, FindByUsername, ResolveGroup, HealGroup, InsertUser,
     AssignNewUser, ReadGroupNames, FindGroup, AssignUser, RemoveUser, DeleteUser,
     FindGroupName, InsertGroup, TypeOK, Goto
<1>2. q = r
  BY <1>1 DEF TypeOK
<1>3. AssignNewUser(r) \/ ReadGroupNames(r) \/ Fail(r)
  BY <1>2 DEF Arrive, ArriveRegister, ArriveAdmin, Fail, CreateStep, AdminStep,
     CountUsers, FindByEmail, FindByUsername, ResolveGroup, HealGroup, InsertUser,
     AssignNewUser, ReadGroupNames, FindGroup, AssignUser, RemoveUser, DeleteUser,
     FindGroupName, InsertGroup
<1>4. CASE AssignNewUser(r)
  BY <1>4 DEF AssignNewUser, Advance, Goto, TypeOK
<1>5. CASE ReadGroupNames(r) \/ Fail(r)
  BY <1>5 DEF ReadGroupNames, Fail, Goto, TypeOK
<1> QED
  BY <1>3, <1>4, <1>5

\* before[r] is set when r arrives, to the users of that moment.
LEMMA BeforeFrame ==
    ASSUME TypeOK, [Next]_vars
    PROVE  \A r \in Req : before'[r] = before[r] \/ (pc[r] = "idle" /\ before'[r] = users)
<1>1. ASSUME NEW q \in Req, Arrive(q)
      PROVE  \A r \in Req : before'[r] = before[r] \/ (pc[r] = "idle" /\ before'[r] = users)
  BY <1>1 DEF Arrive, ArriveRegister, ArriveAdmin, TypeOK
<1>2. (\A q \in Req : ~Arrive(q)) => before' = before
  BY DEF Next, Quiescent, vars, tables, locals, history, Fail,
     CreateStep, AdminStep, CountUsers, FindByEmail, FindByUsername, ResolveGroup, HealGroup,
     InsertUser, AssignNewUser, ReadGroupNames, FindGroup, AssignUser, RemoveUser, DeleteUser,
     FindGroupName, InsertGroup
<1> QED
  BY <1>1, <1>2

LEMMA MadeNext ==
    ASSUME TypeOK, PathOK, MadeOK, [Next]_vars
    PROVE  MadeOK'
<1>1. \A r \in made : Creates(r)' /\ pc'[r] \in {"link", "names", "ok", "err"}
  BY LabelStep, UsersFrame DEF MadeOK, Creates, TypeOK
<1>2. CASE UNCHANGED <<users, made>>
  BY <1>1, <1>2, BeforeFrame DEF MadeOK
<1>3. ASSUME NEW r \in Req, InsertUser(r)
      PROVE  MadeOK'
  <2>1. Creates(r)' /\ (r \in made' => r \in made \/ pc'[r] = "link")
    BY <1>3, UsersFrame DEF InsertUser, PathOK, CreatePath, Creates, Goto, TypeOK
  <2> QED
    BY <1>1, <1>3, <2>1, BeforeFrame DEF InsertUser, MadeOK
<1>4. ASSUME NEW r \in Req, DeleteUser(r)
      PROVE  MadeOK'
  BY <1>1, <1>4, BeforeFrame DEF DeleteUser, MadeOK, history
<1> QED
  BY <1>2, <1>3, <1>4, UsersFrame

-----------------------------------------------------------------------------
(* The bootstrap. *)

BootOK == \A r \in Req : boot[r] => pc[r] # "idle"

LEMMA BootNext ==
    ASSUME TypeOK, PathOK, MadeOK, BootOK, BootstrapMeansEmpty, [Next]_vars
    PROVE  (BootOK /\ BootstrapMeansEmpty)'
<1>1. \A r \in Req : pc[r] # "idle" => pc'[r] # "idle"
  <2> SUFFICES ASSUME NEW r \in Req, Arrive(r) \/ CreateStep(r) \/ AdminStep(r) \/ Fail(r)
               PROVE  pc' = [pc EXCEPT ![r] = pc'[r]] /\ pc'[r] # "idle"
    BY DEF Next, Quiescent, vars, TypeOK
  <2>1. CASE Arrive(r)
    BY <2>1, OpFacts DEF Arrive, ArriveRegister, ArriveAdmin, FirstLabel, Kind, Goto, TypeOK
  <2>2. CASE CreateStep(r)
    BY <2>2, AdvancePath DEF CreateStep, CountUsers, FindByEmail, FindByUsername, ResolveGroup,
       HealGroup, InsertUser, AssignNewUser, ReadGroupNames, Goto, TypeOK
  <2>3. CASE AdminStep(r) \/ Fail(r)
    BY <2>3 DEF Fail, AdminStep, FindGroup, AssignUser, RemoveUser, DeleteUser, FindGroupName,
       InsertGroup, Goto, TypeOK
  <2> QED
    BY <2>1, <2>2, <2>3
<1>2. \A r \in Req : boot'[r] = boot[r] \/ (pc[r] = "count" /\ users = {} /\ UNCHANGED users)
  BY DEF Next, Quiescent, vars, tables, locals, history, Arrive, ArriveRegister, ArriveAdmin,
     Fail, CreateStep, AdminStep, CountUsers, FindByEmail, FindByUsername, ResolveGroup,
     HealGroup, InsertUser, AssignNewUser, ReadGroupNames, FindGroup, AssignUser, RemoveUser,
     DeleteUser, FindGroupName, InsertGroup, TypeOK
<1>3. BootOK'
  BY <1>1, <1>2 DEF BootOK
<1>4. \A u \in users' \ users : u \notin made
  BY UsersFrame DEF InsertUser, DeleteUser, MadeOK
<1>5. BootstrapMeansEmpty'
  BY <1>2, <1>4, BeforeFrame DEF BootOK, BootstrapMeansEmpty, MadeOK
<1> QED
  BY <1>3, <1>5

\* A registration counts as the first of its namespace only if every user who
\* was there when it arrived has been deleted.
THEOREM BootstrapIsFirst == Spec => []BootstrapMeansEmpty
<1>1. Init => TypeOK /\ PathOK /\ MadeOK /\ BootOK /\ BootstrapMeansEmpty
  BY TypeInit DEF Init, PathOK, CreatePath, MadeOK, BootOK, BootstrapMeansEmpty
<1>2. TypeOK /\ PathOK /\ MadeOK /\ BootOK /\ BootstrapMeansEmpty /\ [Next]_vars
        => (TypeOK /\ PathOK /\ MadeOK /\ BootOK /\ BootstrapMeansEmpty)'
  BY TypeNext, PathNext, MadeNext, BootNext
<1> QED
  BY <1>1, <1>2, PTL DEF Spec

-----------------------------------------------------------------------------
(* Grants. *)

\* A step is one request's, and leaves the local state of the others alone.
LEMMA OneRequestSteps ==
    ASSUME TypeOK, [Next]_vars
    PROVE  \/ UNCHANGED vars
           \/ \E r \in Req :
                 /\ Arrive(r) \/ CreateStep(r) \/ AdminStep(r) \/ Fail(r)
                 /\ \A q \in Req \ {r} :
                       /\ pc'[q] = pc[q] /\ want'[q] = want[q] /\ k'[q] = k[q]
                       /\ boot'[q] = boot[q] /\ names'[q] = names[q] /\ actor'[q] = actor[q]
<1> SUFFICES ASSUME NEW r \in Req, Arrive(r) \/ CreateStep(r) \/ AdminStep(r) \/ Fail(r),
                    NEW q \in Req \ {r}
             PROVE  /\ pc'[q] = pc[q] /\ want'[q] = want[q] /\ k'[q] = k[q]
                    /\ boot'[q] = boot[q] /\ names'[q] = names[q] /\ actor'[q] = actor[q]
  BY DEF Next, Quiescent
<1> QED
  BY DEF tables, locals, history, Advance, Goto, Arrive, ArriveRegister, ArriveAdmin, Fail,
     CreateStep, AdminStep, CountUsers, FindByEmail, FindByUsername, ResolveGroup, HealGroup,
     InsertUser, AssignNewUser, ReadGroupNames, FindGroup, AssignUser, RemoveUser, DeleteUser,
     FindGroupName, InsertGroup, TypeOK

\* No reserved name is past the check of resolve_group_ids or assign_user_to_group.
ReservedOK ==
    \A r \in Req :
        /\ pc[r] \in {"resolve", "heal", "insert", "link"} =>
              \A i \in 1..Len(want[r]) : ~IsReserved(want[r][i])
        /\ pc[r] = "assign" => ~IsReserved(NamedGroup(r))

LEMMA UsersNotReserved == ~IsReserved(USERS_GROUP) /\ ~IsPrivileged(USERS_GROUP)
BY NamesAssumption DEF IsReserved, IsPrivileged, PRIVILEGED_GROUPS, USERS_GROUP, ADMIN_GROUP,
   SUPERADMIN_GROUP

LEMMA ReservedNext ==
    ASSUME TypeOK, PathOK, ReservedOK, [Next]_vars
    PROVE  ReservedOK'
<1>1. CASE UNCHANGED vars
  BY <1>1 DEF vars, ReservedOK, IsReserved, NamedGroup
<1> SUFFICES ASSUME NEW r \in Req, Arrive(r) \/ CreateStep(r) \/ AdminStep(r) \/ Fail(r),
                    \A q \in Req \ {r} : pc'[q] = pc[q] /\ want'[q] = want[q]
             PROVE  ReservedOK'
  BY <1>1, OneRequestSteps
<1>2. \A q \in Req \ {r} :
        /\ pc'[q] \in {"resolve", "heal", "insert", "link"} =>
              \A i \in 1..Len(want'[q]) : ~IsReserved(want'[q][i])
        /\ pc'[q] = "assign" => ~IsReserved(NamedGroup(q)')
  BY UsersFrame DEF ReservedOK, NamedGroup
<1>3. /\ pc'[r] \in {"resolve", "heal", "insert", "link"} =>
            \A i \in 1..Len(want'[r]) : ~IsReserved(want'[r][i])
      /\ pc'[r] = "assign" => ~IsReserved(NamedGroup(r)')
  <2>1. CASE Arrive(r) \/ Fail(r)
    BY <2>1, OpFacts DEF Arrive, ArriveRegister, ArriveAdmin, FirstLabel, Kind, Fail, Goto, TypeOK
  <2>2. CASE FindByUsername(r)
    <3>1. CASE /\ \A i \in 1..Len(want[r]) : ~IsReserved(want[r][i])
               /\ want' = [want EXCEPT ![r] = IF want[r] = <<>> THEN <<USERS_GROUP>> ELSE want[r]]
               /\ Goto(r, "resolve")
      <4>1. CASE want[r] = <<>>
        BY <3>1, <4>1, UsersNotReserved DEF Goto, TypeOK
      <4>2. CASE want[r] # <<>>
        BY <3>1, <4>2 DEF Goto, TypeOK
      <4> QED
        BY <4>1, <4>2
    <3>2. CASE Goto(r, "taken") \/ Goto(r, "err")
      BY <3>2 DEF Goto, TypeOK
    <3> QED
      BY <2>2, <3>1, <3>2 DEF FindByUsername
  <2>3. CASE ResolveGroup(r) \/ HealGroup(r) \/ AssignNewUser(r) \/ InsertUser(r)
    <3>0. want' = want
      BY <2>3 DEF ResolveGroup, HealGroup, AssignNewUser, InsertUser, locals
    <3>1. pc'[r] # "assign"
      <4>1. CASE ResolveGroup(r)
        BY <4>1 DEF ResolveGroup, Advance, Goto, TypeOK
      <4>2. CASE HealGroup(r)
        BY <4>2 DEF HealGroup, Advance, Goto, TypeOK
      <4>3. CASE AssignNewUser(r)
        BY <4>3 DEF AssignNewUser, Advance, Goto, TypeOK
      <4>4. CASE InsertUser(r)
        BY <4>4 DEF InsertUser, Goto, TypeOK
      <4> QED
        BY <2>3, <4>1, <4>2, <4>3, <4>4
    <3>2. \A i \in 1..Len(want[r]) : ~IsReserved(want[r][i])
      BY <2>3 DEF ReservedOK, ResolveGroup, HealGroup, AssignNewUser, InsertUser
    <3> QED
      BY <3>0, <3>1, <3>2
  <2>4. CASE CountUsers(r) \/ FindByEmail(r) \/ ReadGroupNames(r)
    BY <2>4 DEF CountUsers, FindByEmail, ReadGroupNames, Goto, TypeOK
  <2>5. CASE AdminStep(r)
    BY <2>5, UsersFrame DEF AdminStep, FindGroup, AssignUser, RemoveUser, DeleteUser,
       FindGroupName, InsertGroup, NamedGroup, Goto, TypeOK
  <2> QED
    BY <2>1, <2>2, <2>3, <2>4, <2>5 DEF CreateStep
<1> QED
  BY <1>2, <1>3 DEF ReservedOK, IsReserved

LEMMA ReservedGroupsNext ==
    ASSUME TypeOK, PathOK, ReservedOK, ReservedStaysGlobal, [Next]_vars
    PROVE  ReservedStaysGlobal'
<1>1. ASSUME NEW r \in Req, AssignNewUser(r)
      PROVE  ReservedStaysGlobal'
  <2>1. ~IsReserved(Current(r))
    <3>1. want[r] \in Seq(GroupName) /\ k[r] \in 1..Len(want[r])
      BY <1>1 DEF AssignNewUser, TypeOK, Loop
    <3>2. ~IsReserved(want[r][k[r]])
      BY <1>1, <3>1 DEF ReservedOK, AssignNewUser
    <3> QED
      BY <3>1, <3>2, NamesAssumption DEF IsReserved, Current
  <2>2. \A m \in members' \ members : m.group = Current(r)
    BY <1>1, InsertRowAdds DEF AssignNewUser
  <2> QED
    BY <2>1, <2>2 DEF ReservedStaysGlobal, IsReserved
<1>2. ASSUME NEW r \in Req, AssignUser(r)
      PROVE  ReservedStaysGlobal'
  <2>1. ~IsReserved(NamedGroup(r))
    BY <1>2 DEF ReservedOK, AssignUser
  <2>2. \A m \in members' \ members : m.group = NamedGroup(r)
    BY <1>2, InsertRowAdds DEF AssignUser
  <2> QED
    BY <2>1, <2>2 DEF ReservedStaysGlobal, IsReserved
<1>3. CASE members' \subseteq members
  BY <1>3 DEF ReservedStaysGlobal, IsReserved
<1> QED
  BY <1>1, <1>2, <1>3, MembersFrame DEF RemoveUser, DeleteUser

\* In a tenant no account is ever a member of a group that reads as
\* superadmin, whatever group rows the schema was seeded with.
THEOREM SuperadminStaysGlobal == Spec => []ReservedStaysGlobal
<1>1. Init => TypeOK /\ PathOK /\ ReservedOK /\ ReservedStaysGlobal
  BY TypeInit DEF Init, PathOK, CreatePath, ReservedOK, ReservedStaysGlobal
<1>2. TypeOK /\ PathOK /\ ReservedOK /\ ReservedStaysGlobal /\ [Next]_vars
        => (TypeOK /\ PathOK /\ ReservedOK /\ ReservedStaysGlobal)'
  BY TypeNext, PathNext, ReservedNext, ReservedGroupsNext
<1> QED
  BY <1>1, <1>2, PTL DEF Spec

\* A registration that was not bootstrapped asks for no privileged group, and an
\* administrator was one at some time.
GrantOK ==
    \A r \in Req :
        /\ actor[r] \in empowered \cup {None}
        /\ pc[r] = "count" => Len(want[r]) <= 1
        /\ pc[r] \in CreatePath /\ op[r].kind = "register" =>
              boot[r] \/ \A i \in 1..Len(want[r]) : ~IsPrivileged(want[r][i])

\* Who was empowered or bootstrapped remains so.
LEMMA HistoryGrows ==
    ASSUME TypeOK, [Next]_vars
    PROVE  empowered \subseteq empowered' /\ \A r \in Req : boot[r] => boot'[r]
<1>1. empowered \subseteq empowered'
  BY DEF InsertRow, Next, Quiescent, vars, tables, locals, history, Arrive, ArriveRegister,
     ArriveAdmin, Fail, CreateStep, AdminStep, CountUsers, FindByEmail, FindByUsername,
     ResolveGroup, HealGroup, InsertUser, AssignNewUser, ReadGroupNames, FindGroup, AssignUser,
     RemoveUser, DeleteUser, FindGroupName, InsertGroup
<1>2. \A r \in Req : boot[r] => boot'[r]
  BY DEF Next, Quiescent, vars, tables, locals, history, Arrive, ArriveRegister,
     ArriveAdmin, Fail, CreateStep, AdminStep, CountUsers, FindByEmail, FindByUsername,
     ResolveGroup, HealGroup, InsertUser, AssignNewUser, ReadGroupNames, FindGroup, AssignUser,
     RemoveUser, DeleteUser, FindGroupName, InsertGroup, TypeOK
<1> QED
  BY <1>1, <1>2

LEMMA GrantNext ==
    ASSUME TypeOK, PathOK, GrantOK, [Next]_vars
    PROVE  GrantOK'
<1>1. CASE UNCHANGED vars
  BY <1>1 DEF vars, GrantOK, IsPrivileged
<1> SUFFICES ASSUME NEW r \in Req, Arrive(r) \/ CreateStep(r) \/ AdminStep(r) \/ Fail(r),
                    \A q \in Req \ {r} : /\ pc'[q] = pc[q] /\ want'[q] = want[q]
                                           /\ boot'[q] = boot[q] /\ actor'[q] = actor[q]
             PROVE  GrantOK'
  BY <1>1, OneRequestSteps
<1>2. \A q \in Req \ {r} :
        /\ actor'[q] \in empowered' \cup {None}
        /\ pc'[q] = "count" => Len(want'[q]) <= 1
        /\ pc'[q] \in CreatePath /\ op'[q].kind = "register" =>
              boot'[q] \/ \A i \in 1..Len(want'[q]) : ~IsPrivileged(want'[q][i])
  BY UsersFrame, HistoryGrows DEF GrantOK
<1>3. actor'[r] \in empowered' \cup {None}
  <2>1. actor'[r] = actor[r] \/ actor'[r] \in empowered \cup {None}
    BY DEF tables, locals, history, Arrive, ArriveRegister, ArriveAdmin, Fail, CreateStep,
       AdminStep, CountUsers, FindByEmail, FindByUsername, ResolveGroup, HealGroup, InsertUser,
       AssignNewUser, ReadGroupNames, FindGroup, AssignUser, RemoveUser, DeleteUser,
       FindGroupName, InsertGroup, TypeOK
  <2> QED
    BY <2>1, HistoryGrows DEF GrantOK
<1>4. pc'[r] = "count" => Len(want'[r]) <= 1
  <2>1. CASE ArriveRegister(r)
    BY <2>1, OpsAssumption DEF ArriveRegister, TypeOK
  <2>2. CASE ~ArriveRegister(r)
    <3>1. pc'[r] # "count"
      <4>1. CASE Arrive(r) \/ Fail(r) \/ AdminStep(r)
        BY <2>2, <4>1, OpFacts DEF Arrive, ArriveAdmin, FirstLabel, Kind, Fail, AdminStep,
           FindGroup, AssignUser, RemoveUser, DeleteUser, FindGroupName, InsertGroup, Goto, TypeOK
      <4>2. CASE CreateStep(r)
        BY <4>2 DEF CreateStep, CountUsers, FindByEmail, FindByUsername, ResolveGroup, HealGroup,
           InsertUser, AssignNewUser, ReadGroupNames, Advance, Goto, TypeOK
      <4> QED
        BY <4>1, <4>2
    <3> QED
      BY <3>1
  <2> QED
    BY <2>1, <2>2
<1>5. ASSUME pc'[r] \in CreatePath, op'[r].kind = "register"
      PROVE  boot'[r] \/ \A i \in 1..Len(want'[r]) : ~IsPrivileged(want'[r][i])
  <2>1. op[r].kind = "register"
    BY <1>5, UsersFrame
  <2>2. CreateStep(r)
    BY <1>5, <2>1 DEF Arrive, ArriveRegister, ArriveAdmin, Fail, AdminStep, FindGroup, AssignUser,
       RemoveUser, DeleteUser, FindGroupName, InsertGroup, CreatePath, Goto, TypeOK
  <2>3. CASE CountUsers(r)
    <3>1. CASE boot' = [boot EXCEPT ![r] = TRUE]
      BY <3>1 DEF TypeOK
    <3>2. CASE want' = want /\ want[r] = <<>>
      BY <3>2
    <3>3. CASE want' = want /\ want[r] # <<>> /\ ~IsPrivileged(want[r][1])
      <4>1. want[r] \in Seq(GroupName) /\ Len(want[r]) <= 1
        BY <2>3 DEF CountUsers, GrantOK, TypeOK
      <4> QED
        BY <3>3, <4>1
    <3>4. CASE Goto(r, "err")
      BY <1>5, <3>4 DEF Goto, CreatePath, TypeOK
    <3> QED
      BY <2>3, <3>1, <3>2, <3>3, <3>4 DEF CountUsers
  <2>4. CASE FindByUsername(r) /\ want' # want
    <3>1. want'[r] = <<USERS_GROUP>>
      BY <2>4 DEF FindByUsername, TypeOK
    <3> QED
      BY <3>1, UsersNotReserved
  <2>5. CASE want' = want /\ pc[r] \in CreatePath
    BY <2>1, <2>5, HistoryGrows DEF GrantOK
  <2> QED
    BY <2>2, <2>3, <2>4, <2>5 DEF CreateStep, CreatePath, FindByEmail, FindByUsername, ResolveGroup,
       HealGroup, InsertUser, AssignNewUser, ReadGroupNames, locals
<1> QED
  BY <1>2, <1>3, <1>4, <1>5 DEF GrantOK, IsPrivileged

LEMMA ProvenanceNext ==
    ASSUME TypeOK, PathOK, GrantOK, PrivilegeProvenance, [Next]_vars
    PROVE  PrivilegeProvenance'
<1> DEFINE Justified(m) ==
        \/ m.via = m.user /\ boot[m.user]
        \/ op[m.via].kind \in {"create", "assign"} /\ m.by \in empowered \cup {None}
<1>1. ASSUME NEW m \in members', m \in members, m.group \in PRIVILEGED_GROUPS
      PROVE  Justified(m)'
  BY <1>1, UsersFrame, HistoryGrows DEF PrivilegeProvenance, TypeOK, Membership
<1>2. ASSUME NEW r \in Req, AssignNewUser(r), NEW m \in members', m \notin members,
             m.group \in PRIVILEGED_GROUPS
      PROVE  Justified(m)'
  <2>1. m = [user |-> r, group |-> Current(r), by |-> actor[r], via |-> r]
    BY <1>2, InsertRowAdds DEF AssignNewUser
  <2>2. op' = op /\ boot' = boot /\ pc[r] \in CreatePath /\ pc[r] \in Loop
    BY <1>2 DEF AssignNewUser, CreatePath, Loop
  <2>3. CASE op[r].kind = "create"
    BY <2>1, <2>2, <2>3, HistoryGrows DEF GrantOK
  <2>4. CASE op[r].kind = "register"
    <3>1. want[r] \in Seq(GroupName) /\ k[r] \in 1..Len(want[r])
      BY <2>2 DEF TypeOK
    <3>2. IsPrivileged(want[r][k[r]])
      BY <1>2, <2>1, <3>1, NamesAssumption
         DEF IsPrivileged, Current, PRIVILEGED_GROUPS, SUPERADMIN_GROUP, ADMIN_GROUP
    <3>3. boot[r]
      BY <2>2, <2>4, <3>1, <3>2 DEF GrantOK
    <3> QED
      BY <2>1, <2>2, <3>3
  <2> QED
    BY <2>2, <2>3, <2>4 DEF PathOK, Creates
<1>3. ASSUME NEW r \in Req, AssignUser(r), NEW m \in members', m \notin members
      PROVE  Justified(m)'
  <2>1. m.by = actor[r] /\ m.via = r
    BY <1>3, InsertRowAdds DEF AssignUser
  <2> QED
    BY <1>3, <2>1, HistoryGrows, UsersFrame DEF AssignUser, PathOK, GrantOK
<1>4. members' \subseteq members \/ \E r \in Req : AssignNewUser(r) \/ AssignUser(r)
  BY MembersFrame DEF RemoveUser, DeleteUser
<1> QED
  BY <1>1, <1>2, <1>3, <1>4 DEF PrivilegeProvenance

\* No account reaches a privileged group by its own request, other than the
\* registration that counted an empty namespace: every other such membership
\* was inserted on behalf of an administrator.
THEOREM PrivilegeIsGranted == Spec => []PrivilegeProvenance
<1>1. Init => TypeOK /\ PathOK /\ GrantOK /\ PrivilegeProvenance
  BY TypeInit DEF Init, PathOK, CreatePath, GrantOK, PrivilegeProvenance
<1>2. TypeOK /\ PathOK /\ GrantOK /\ PrivilegeProvenance /\ [Next]_vars
        => (TypeOK /\ PathOK /\ GrantOK /\ PrivilegeProvenance)'
  BY TypeNext, PathNext, GrantNext, ProvenanceNext
<1> QED
  BY <1>1, <1>2, PTL DEF Spec

-----------------------------------------------------------------------------
(* Complete creations. *)

\* Name i of a creation is a membership of its user, or was withdrawn.
Linked(r, i) ==
    Trim[want[r][i]] \in GroupsOf(r) \/ <<r, Trim[want[r][i]]>> \in withdrawn

\* The linking loop has done the names below its index.
LinkedOK ==
    /\ \A r \in Req : pc[r] = "insert" => k[r] = 1
    /\ \A r \in users :
         /\ pc[r] = "link" => \A i \in 1..(k[r] - 1) : Linked(r, i)
         /\ pc[r] = "names" => \A i \in 1..Len(want[r]) : Linked(r, i)

LEMMA WithdrawnGrows ==
    ASSUME [Next]_vars
    PROVE  withdrawn \subseteq withdrawn'
BY DEF Next, Quiescent, vars, tables, locals, history, Arrive, ArriveRegister,
     ArriveAdmin, Fail, CreateStep, AdminStep, CountUsers, FindByEmail, FindByUsername,
     ResolveGroup, HealGroup, InsertUser, AssignNewUser, ReadGroupNames, FindGroup, AssignUser,
     RemoveUser, DeleteUser, FindGroupName, InsertGroup

\* A membership a surviving user had is still there, or was withdrawn.
LEMMA LinksStay ==
    ASSUME [Next]_vars, NEW r \in users', NEW g, g \in GroupsOf(r) \/ <<r, g>> \in withdrawn
    PROVE  g \in GroupsOf(r)' \/ <<r, g>> \in withdrawn'
<1>1. ASSUME NEW m \in members, m.user = r, m.group = g
      PROVE  m \in members' \/ <<r, g>> \in withdrawn'
  BY <1>1, MembersStay
<1> QED
  BY <1>1, WithdrawnGrows DEF GroupsOf

LEMMA LinkedIndexNext ==
    ASSUME TypeOK, LinkedOK, [Next]_vars, NEW r \in Req, pc'[r] = "insert"
    PROVE  k'[r] = 1
<1>1. CASE pc'[r] = pc[r] /\ k'[r] = k[r]
  BY <1>1 DEF LinkedOK
<1>2. CASE Arrive(r) \/ AdminStep(r) \/ Fail(r)
  BY <1>2, OpFacts DEF Arrive, ArriveRegister, ArriveAdmin, FirstLabel, Kind, Fail, AdminStep,
     FindGroup, AssignUser, RemoveUser, DeleteUser, FindGroupName, InsertGroup, Goto, TypeOK
<1>3. CASE CreateStep(r)
  BY <1>3 DEF CreateStep, CountUsers, FindByEmail, FindByUsername, ResolveGroup, HealGroup,
     InsertUser, AssignNewUser, ReadGroupNames, Advance, Goto, TypeOK
<1> QED
  BY <1>1, <1>2, <1>3, OneRequestSteps DEF vars

\* What a creation that has inserted its row may do next.
LEMMA InsertedSteps ==
    ASSUME TypeOK, MadeOK, [Next]_vars, NEW r \in made
    PROVE  \/ pc'[r] = pc[r] /\ want'[r] = want[r] /\ k'[r] = k[r] /\ names'[r] = names[r]
           \/ AssignNewUser(r) \/ ReadGroupNames(r) \/ Fail(r)
<1>1. r \in Req /\ pc[r] \in {"link", "names", "ok", "err"}
  BY DEF TypeOK, MadeOK
<1>2. CASE Arrive(r) \/ CreateStep(r) \/ AdminStep(r) \/ Fail(r)
  BY <1>1, <1>2 DEF Arrive, ArriveRegister, ArriveAdmin, Fail, AdminStep, FindGroup, AssignUser,
     RemoveUser, DeleteUser, FindGroupName, InsertGroup, CreateStep, CountUsers, FindByEmail,
     FindByUsername, ResolveGroup, HealGroup, InsertUser, AssignNewUser, ReadGroupNames
<1> QED
  BY <1>1, <1>2, OneRequestSteps DEF vars

LEMMA CreatedNext ==
    ASSUME TypeOK, PathOK, MadeOK, LinkedOK, CreatedInFull, [Next]_vars
    PROVE  (LinkedOK /\ CreatedInFull)'
<1>1. ASSUME NEW r \in users'
      PROVE  /\ pc'[r] = "link" => \A i \in 1..(k'[r] - 1) : Linked(r, i)'
             /\ pc'[r] = "names" => \A i \in 1..Len(want'[r]) : Linked(r, i)'
             /\ pc'[r] = "ok" => \A i \in 1..Len(want'[r]) :
                   \/ Trim[want'[r][i]] \in GroupsOf(r)' \cap names'[r]
                   \/ <<r, Trim[want'[r][i]]>> \in withdrawn'
  <2>1. CASE r \notin users
    <3>1. r \in Req /\ InsertUser(r)
      BY <2>1, UsersFrame DEF InsertUser, DeleteUser
    <3>2. r \in Req /\ pc[r] = "insert" /\ Goto(r, "link") /\ k' = k
      BY <2>1, <3>1 DEF InsertUser, TypeOK, locals
    <3>3. pc'[r] = "link" /\ k'[r] = 1
      BY <3>2 DEF LinkedOK, TypeOK, Goto
    <3> QED
      BY <3>3
  <2>2. CASE r \in users
    <3>0. r \in made /\ r \in Req /\ want[r] \in Seq(GroupName) /\ k[r] \in Nat
      BY <2>2 DEF MadeOK, TypeOK
    <3>1. CASE pc'[r] = pc[r] /\ want'[r] = want[r] /\ k'[r] = k[r] /\ names'[r] = names[r]
      <4>1. ASSUME pc[r] = "ok", NEW i \in 1..Len(want[r])
            PROVE  \/ Trim[want[r][i]] \in GroupsOf(r)' \cap names[r]
                   \/ <<r, Trim[want[r][i]]>> \in withdrawn'
        <5> DEFINE g == Trim[want[r][i]]
        <5>1. g \in GroupsOf(r) \cap names[r] \/ <<r, g>> \in withdrawn
          BY <2>2, <4>1 DEF CreatedInFull
        <5> HIDE DEF g
        <5>2. g \in GroupsOf(r)' \/ <<r, g>> \in withdrawn'
          BY <5>1, LinksStay
        <5>3. <<r, g>> \in withdrawn => <<r, g>> \in withdrawn'
          BY WithdrawnGrows
        <5> QED
          BY <5>1, <5>2, <5>3 DEF g
      <4>2. \A i : Linked(r, i) => Linked(r, i)'
        BY <3>1, LinksStay DEF Linked
      <4> QED
        BY <2>2, <3>1, <4>1, <4>2 DEF LinkedOK
    <3>2. CASE AssignNewUser(r)
      <4>1. want' = want /\ pc[r] = "link" /\ k[r] \in 1..Len(want[r])
        BY <3>2 DEF AssignNewUser, TypeOK, Loop
      <4>2. \A i \in 1..(k[r] - 1) : Linked(r, i)'
        BY <2>2, <4>1, LinksStay DEF LinkedOK, Linked
      <4>3. CASE InsertRow(r, Current(r), actor[r], r) /\ Advance(r, "names")
        <5>1. ASSUME NEW i, i = k[r]
              PROVE  Linked(r, i)'
          <6> DEFINE g == Current(r)
          <6> HIDE DEF g
          <6>1. \E m \in members' : m.user = r /\ m.group = g
            <7>1. CASE HasRow(r, g)
              <8>1. members' = members
                BY <4>3, <7>1 DEF InsertRow, g
              <8> QED
                BY <7>1, <8>1 DEF HasRow
            <7>2. CASE ~HasRow(r, g)
              <8>1. [user |-> r, group |-> g, by |-> actor[r], via |-> r] \in members'
                BY <4>3, <7>2 DEF InsertRow, g
              <8> QED
                BY <8>1
            <7> QED
              BY <7>1, <7>2
          <6>2. g \in GroupsOf(r)'
            BY <6>1 DEF GroupsOf
          <6>3. Trim[want'[r][i]] = g
            BY <4>1, <5>1 DEF Current, g
          <6> QED
            BY <6>2, <6>3 DEF Linked
        <5>2. \/ pc'[r] = "link" /\ k'[r] = k[r] + 1
              \/ pc'[r] = "names" /\ k[r] = Len(want[r])
          BY <3>0, <4>1, <4>3 DEF Advance, Goto, TypeOK
        <5> HIDE DEF Linked
        <5> QED
          BY <3>0, <4>1, <4>2, <5>1, <5>2
      <4>4. CASE Goto(r, "err")
        BY <3>0, <4>4 DEF Goto, TypeOK
      <4> QED
        BY <3>2, <4>3, <4>4 DEF AssignNewUser
    <3>3. CASE ReadGroupNames(r)
      <4>1. /\ pc'[r] = "ok" /\ want' = want /\ names'[r] = GroupsOf(r)
            /\ GroupsOf(r)' = GroupsOf(r) /\ withdrawn' = withdrawn
            /\ \A i \in 1..Len(want[r]) : Linked(r, i)
        BY <2>2, <3>0, <3>3 DEF ReadGroupNames, LinkedOK, TypeOK, Goto, tables, history, GroupsOf
      <4> QED
        BY <4>1 DEF Linked
    <3>4. CASE Fail(r)
      BY <3>0, <3>4 DEF Fail, Goto, TypeOK
    <3> QED
      BY <3>0, <3>1, <3>2, <3>3, <3>4, InsertedSteps
  <2> QED
    BY <2>1, <2>2
<1>2. \A r \in Req : pc'[r] = "insert" => k'[r] = 1
  BY LinkedIndexNext
<1> QED
  BY <1>1, <1>2 DEF LinkedOK, CreatedInFull, Linked

\* A creation answered with success has given its user, and named in its answer,
\* every group it asked for that nobody has withdrawn.
THEOREM CreationsComplete == Spec => []CreatedInFull
<1>1. Init => TypeOK /\ PathOK /\ MadeOK /\ LinkedOK /\ CreatedInFull
  BY TypeInit DEF Init, PathOK, CreatePath, MadeOK, LinkedOK, CreatedInFull
<1>2. TypeOK /\ PathOK /\ MadeOK /\ LinkedOK /\ CreatedInFull /\ [Next]_vars
        => (TypeOK /\ PathOK /\ MadeOK /\ LinkedOK /\ CreatedInFull)'
  BY TypeNext, PathNext, MadeNext, CreatedNext
<1> QED
  BY <1>1, <1>2, PTL DEF Spec

-----------------------------------------------------------------------------
(* The requests implement the atomic account directory. *)

\* A creation past its INSERT has made its row.
InsertedOK == \A r \in Req : pc[r] \in {"link", "names"} => r \in made

LEMMA InsertedNext ==
    ASSUME TypeOK, InsertedOK, [Next]_vars
    PROVE  InsertedOK'
<1> SUFFICES ASSUME NEW r \in Req, pc'[r] \in {"link", "names"}
             PROVE  r \in made'
  BY DEF InsertedOK
<1>1. made \subseteq made'
  BY UsersFrame DEF InsertUser, DeleteUser, history
<1>2. CASE pc'[r] = pc[r]
  BY <1>1, <1>2 DEF InsertedOK
<1>3. CASE Arrive(r) \/ AdminStep(r) \/ Fail(r)
  BY <1>3, OpFacts DEF Arrive, ArriveRegister, ArriveAdmin, FirstLabel, Kind, Fail, AdminStep,
     FindGroup, AssignUser, RemoveUser, DeleteUser, FindGroupName, InsertGroup, Goto, TypeOK
<1>4. CASE CreateStep(r) /\ pc[r] \notin {"link", "names"}
  BY <1>4 DEF CreateStep, CountUsers, FindByEmail, FindByUsername, ResolveGroup, HealGroup,
     InsertUser, AssignNewUser, ReadGroupNames, Advance, Goto, TypeOK
<1> QED
  BY <1>1, <1>2, <1>3, <1>4, OneRequestSteps DEF vars, InsertedOK

\* A step answers at most its own request.
LEMMA OthersAnswers ==
    ASSUME TypeOK, [Next]_vars, NEW r \in Req, pc'[r] # pc[r], NEW q \in Req, q # r
    PROVE  DirectoryAnswer(q)' = DirectoryAnswer(q)
<1>1. pc'[q] = pc[q]
  BY OneRequestSteps DEF vars
<1> QED
  BY <1>1, UsersFrame DEF DirectoryAnswer, Creates

LEMMA DirectoryInit == Init => Directory!Init
<1> SUFFICES ASSUME Init
             PROVE  Directory!Init
  OBVIOUS
<1>1. \A r \in Req : op[r].email \in Email /\ op[r].username \in Username
  BY OpFacts DEF Init
<1>2. \A r \in Req : DirectoryAnswer(r) = "pending"
  BY DEF Init, DirectoryAnswer
<1> QED
  BY <1>1, <1>2 DEF Directory!Init, Init

\* What the directory sees of a step that answers request r with a.
LEMMA ReplyStep ==
    ASSUME TypeOK, [Next]_vars, NEW r \in Req, pc'[r] # pc[r], NEW a, DirectoryAnswer(r)' = a
    PROVE  Directory!Reply(r, a)
BY OthersAnswers DEF Directory!Reply

LEMMA SameAnswers ==
    ASSUME TypeOK, [Next]_vars, NEW r \in Req, pc'[r] # pc[r], DirectoryAnswer(r)' = DirectoryAnswer(r)
    PROVE  /\ [q \in Req |-> DirectoryAnswer(q)]' = [q \in Req |-> DirectoryAnswer(q)]
           /\ [q \in Req |-> op[q].email]' = [q \in Req |-> op[q].email]
           /\ [q \in Req |-> op[q].username]' = [q \in Req |-> op[q].username]
BY OthersAnswers, UsersFrame

LEMMA DirectoryNext ==
    ASSUME TypeOK, PathOK, MadeOK, InsertedOK, [Next]_vars
    PROVE  [Directory!Next]_(Directory!vars)
<1>0. op' = op
  BY UsersFrame
<1>1. CASE UNCHANGED vars
  BY <1>1 DEF vars, Directory!vars, DirectoryAnswer, Creates
<1> SUFFICES ASSUME NEW r \in Req, Arrive(r) \/ CreateStep(r) \/ AdminStep(r) \/ Fail(r)
             PROVE  [Directory!Next]_(Directory!vars)
  BY <1>1, OneRequestSteps
<1>2. CASE UNCHANGED <<users, made>> /\ pc' = pc
  BY <1>0, <1>2 DEF Directory!vars, DirectoryAnswer, Creates
<1>3. CASE UNCHANGED <<users, made>> /\ pc'[r] # pc[r] /\ DirectoryAnswer(r)' = DirectoryAnswer(r)
  BY <1>3, SameAnswers DEF Directory!vars
<1>4. CASE /\ UNCHANGED <<users, made>> /\ pc'[r] # pc[r] /\ Creates(r)
           /\ pc'[r] = "err" /\ pc[r] \notin Answered
  <2>1. DirectoryAnswer(r) = "pending" /\ DirectoryAnswer(r)' = "failed"
    BY <1>0, <1>4 DEF DirectoryAnswer, Creates, Answered
  <2>2. Directory!GiveUp(r)
    BY <1>0, <1>4, <2>1, ReplyStep DEF Directory!GiveUp
  <2> QED
    BY <2>2 DEF Directory!Next
<1>5. CASE InsertUser(r) /\ pc'[r] = "link"
  <2>1. Creates(r) /\ DirectoryAnswer(r) = "pending" /\ DirectoryAnswer(r)' = "pending"
    BY <1>0, <1>5 DEF InsertUser, PathOK, CreatePath, DirectoryAnswer, Creates
  <2>2. r \notin made /\ users' = users \cup {r} /\ made' = made \cup {r}
    BY <1>5 DEF InsertUser, MadeOK, Goto, TypeOK
  <2>3. \A u \in users : ~Directory!Clash(r, u)
    BY <1>5, <2>2 DEF InsertUser, TypeOK, Goto, KeyClash, EmailKeyClash, SameMailbox,
       Directory!Clash, Directory!Alike
  <2>4. Directory!Create(r)
    BY <1>5, <2>1, <2>2, <2>3, SameAnswers DEF InsertUser, Directory!Create
  <2> QED
    BY <2>4 DEF Directory!Next
<1>6. CASE UNCHANGED <<users, made>> /\ pc'[r] = "taken" /\ CreateStep(r)
  <2>1. Creates(r) /\ r \notin made /\ pc[r] \notin Answered /\ pc'[r] # pc[r]
    BY <1>6 DEF CreateStep, FindByEmail, FindByUsername, InsertUser, CountUsers, ResolveGroup,
       HealGroup, AssignNewUser, ReadGroupNames, Advance, Goto, PathOK, CreatePath, MadeOK,
       Answered, TypeOK
  <2>2. DirectoryAnswer(r) = "pending" /\ DirectoryAnswer(r)' = "taken"
    BY <1>0, <1>6, <2>1 DEF DirectoryAnswer, Creates, Answered
  <2>3. \E u \in users : Directory!Alike(r, u)
    <3>1. \E u \in users : SameMailbox(r, u) \/ op[u].username = op[r].username
      BY <1>6 DEF CreateStep, FindByEmail, FindByUsername, InsertUser, CountUsers, ResolveGroup,
         HealGroup, AssignNewUser, ReadGroupNames, Advance, Goto, TypeOK, KeyClash,
         EmailKeyClash, SameMailbox
    <3> QED
      BY <3>1 DEF Directory!Alike, SameMailbox, TypeOK
  <2>4. Directory!Refuse(r)
    BY <1>0, <1>6, <2>1, <2>2, <2>3, ReplyStep DEF Directory!Refuse
  <2> QED
    BY <2>4 DEF Directory!Next
<1>7. CASE ReadGroupNames(r)
  <2>1. /\ Creates(r) /\ r \in made /\ pc[r] = "names" /\ pc'[r] = "ok"
        /\ UNCHANGED <<users, made>>
    BY <1>7 DEF ReadGroupNames, PathOK, CreatePath, InsertedOK, Goto, TypeOK, tables, history
  <2>2. DirectoryAnswer(r) = "pending" /\ DirectoryAnswer(r)' = "ok"
    BY <1>0, <2>1 DEF DirectoryAnswer, Creates
  <2>3. Directory!Confirm(r)
    BY <1>0, <2>1, <2>2, ReplyStep DEF Directory!Confirm
  <2> QED
    BY <2>3 DEF Directory!Next
<1>8. CASE DeleteUser(r) /\ users' # users
  <2>1. /\ op[r].target \in users /\ users' = users \ {op[r].target} /\ made' = made
        /\ pc'[r] # pc[r] /\ ~Creates(r)
    BY <1>8 DEF DeleteUser, PathOK, Creates, Goto, TypeOK, history
  <2>2. DirectoryAnswer(r)' = DirectoryAnswer(r)
    BY <1>0, <2>1 DEF DirectoryAnswer, Creates
  <2>3. Directory!Erase(op[r].target)
    BY <2>1, <2>2, SameAnswers DEF Directory!Erase
  <2> QED
    BY <2>1, <2>3 DEF Directory!Next, TypeOK
<1>9. CASE Arrive(r)
  <2>1. UNCHANGED <<users, made>> /\ pc'[r] # pc[r]
    BY <1>9, OpFacts DEF Arrive, ArriveRegister, ArriveAdmin, FirstLabel, Kind, Goto, TypeOK, tables
  <2>2. DirectoryAnswer(r)' = DirectoryAnswer(r)
    BY <1>0, <1>9, OpFacts DEF Arrive, ArriveRegister, ArriveAdmin, FirstLabel, Kind, Goto, TypeOK,
       DirectoryAnswer, Creates, DeletesItself
  <2> QED
    BY <1>3, <2>1, <2>2
<1>10. CASE AdminStep(r) /\ users' = users
  <2>1. UNCHANGED made /\ pc'[r] # pc[r] /\ ~Creates(r)
    BY <1>10 DEF AdminStep, FindGroup, AssignUser, RemoveUser, DeleteUser, FindGroupName,
       InsertGroup, Goto, TypeOK, history, PathOK, Creates
  <2> QED
    BY <1>0, <1>3, <1>10, <2>1 DEF DirectoryAnswer, Creates
<1>11. CASE Fail(r)
  <2>1. UNCHANGED <<users, made>> /\ pc'[r] = "err" /\ pc[r] \notin Answered /\ pc'[r] # pc[r]
    BY <1>11 DEF Fail, Goto, TypeOK, tables, history, Answered
  <2>2. CASE ~Creates(r)
    BY <1>0, <1>3, <2>1, <2>2 DEF DirectoryAnswer, Creates
  <2> QED
    BY <1>4, <2>1, <2>2
<1>12. CASE CreateStep(r) /\ ~ReadGroupNames(r) /\ UNCHANGED <<users, made>> /\ pc'[r] # "taken"
  <2>1. Creates(r) /\ pc[r] \notin Answered /\ (pc'[r] \notin Answered \/ pc'[r] = "err")
    BY <1>12 DEF CreateStep, FindByEmail, FindByUsername, InsertUser, CountUsers, ResolveGroup,
       HealGroup, AssignNewUser, Advance, Goto, PathOK, CreatePath, Creates, Answered, TypeOK
  <2>2. CASE pc'[r] = "err"
    BY <1>4, <1>12, <2>1, <2>2 DEF Answered
  <2>3. CASE pc'[r] \notin Answered
    <3>1. DirectoryAnswer(r)' = DirectoryAnswer(r)
      BY <1>0, <2>1, <2>3 DEF DirectoryAnswer, Creates, Answered
    <3>2. CASE pc'[r] = pc[r]
      <4>1. pc' = pc
        BY <1>12, <3>2 DEF CreateStep, FindByEmail, FindByUsername, InsertUser, CountUsers,
           ResolveGroup, HealGroup, AssignNewUser, Advance, Goto, TypeOK
      <4> QED
        BY <1>2, <1>12, <4>1
    <3> QED
      BY <1>3, <1>12, <3>1, <3>2
  <2> QED
    BY <2>1, <2>2, <2>3
<1>13. CASE InsertUser(r) /\ ~UNCHANGED <<users, made>>
  BY <1>5, <1>13 DEF InsertUser, Goto, TypeOK
<1>14. CASE CreateStep(r) /\ ~InsertUser(r)
  <2>1. UNCHANGED <<users, made>>
    BY <1>14 DEF CreateStep, FindByEmail, FindByUsername, CountUsers, ResolveGroup, HealGroup,
       AssignNewUser, ReadGroupNames, tables, history
  <2> QED
    BY <1>6, <1>7, <1>12, <1>14, <2>1
<1> QED
  BY <1>6, <1>8, <1>9, <1>10, <1>11, <1>12, <1>13, <1>14
     DEF AdminStep, FindGroup, AssignUser, RemoveUser, FindGroupName, InsertGroup, tables,
         CreateStep, InsertUser, ReadGroupNames

\* Every behaviour of the concurrent requests, under any interleaving and any
\* failures, is a behaviour of the atomic account directory.
THEOREM RequestsImplementDirectory == Spec => ImplementsDirectory
<1>1. Init => TypeOK /\ PathOK /\ MadeOK /\ InsertedOK
  BY TypeInit DEF Init, PathOK, CreatePath, MadeOK, InsertedOK
<1>2. TypeOK /\ PathOK /\ MadeOK /\ InsertedOK /\ [Next]_vars
        => (TypeOK /\ PathOK /\ MadeOK /\ InsertedOK)'
  BY TypeNext, PathNext, MadeNext, InsertedNext
<1>3. TypeOK /\ PathOK /\ MadeOK /\ InsertedOK /\ [Next]_vars => [Directory!Next]_(Directory!vars)
  BY DirectoryNext
<1> QED
  BY <1>1, <1>2, <1>3, DirectoryInit, PTL DEF Spec, ImplementsDirectory, Directory!Spec

=============================================================================

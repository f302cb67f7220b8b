--------------------------- MODULE CommandsProofs ---------------------------
(* Proofs about Commands for any commands, users, groups and clock.        *)
EXTENDS Commands, TLAPS

-----------------------------------------------------------------------------
(* What a label says of its command.                                       *)

KindOK(r) ==
    /\ pc[r] = "idle" <=> op[r] = None
    /\ pc[r] \in {"count", "insert", "join"} => op[r].kind \in {"register", "superadmin"}
    /\ pc[r] = "user" => op[r].kind \in {"recover", "password", "assign", "remove"}
    /\ pc[r] = "group" => op[r].kind \in {"superadmin", "assign", "remove"}
    /\ pc[r] \in {"check", "assign"} => op[r].kind \in {"superadmin", "assign"}
    /\ pc[r] = "remove" => op[r].kind = "remove"
    /\ pc[r] \in {"names", "issue", "settings"} => op[r].kind = "recover"
    /\ pc[r] = "write" => op[r].kind = "password"
    /\ pc[r] = "orgs" => op[r].kind \in {"newgroup", "groups"}
    /\ pc[r] \in {"seek", "new"} => op[r].kind = "newgroup"
    /\ pc[r] = "list" => op[r].kind = "groups"
    /\ pc[r] \in {"rename", "erase", "dissolve"} => op[r].kind = pc[r]

\* The labels of a command that goes on with a user.
Onward == {"join", "group", "check", "assign", "remove", "names", "issue", "settings", "write"}

FoundOK(r) ==
    /\ pc[r] \in Onward => who[r] \in UserId
    /\ pc[r] \in {"names", "issue"} => copy[r] \in Row

PathOK == \A r \in Req : KindOK(r) /\ FoundOK(r)

RowsOK == \A u \in live : row[u] \in Row

\* The commands that ended before another began have ended.
EarlierOK == \A r, q \in Req : q \in earlier[r] => pc[q] \in Ended

IInv0 == TypeOK /\ PathOK /\ RowsOK /\ EarlierOK

LEMMA OpFacts ==
    ASSUME TypeOK, NEW r \in Req, op[r] # None
    PROVE  /\ op[r] \in Ops /\ op[r].kind \in Kind
           /\ op[r].kind \in {"register", "superadmin", "rename"} =>
                 [email |-> op[r].email, username |-> op[r].username] \in Row
           /\ op[r].kind \in {"newgroup", "assign", "remove", "superadmin"} => op[r].group \in Group
           /\ op[r].kind \in {"rename", "erase"} => op[r].user \in UserId
<1>1. op[r] \in Ops /\ op[r] \in Op
  BY CommandOpsAssumption DEF TypeOK
<1>2. op[r].kind = "superadmin" => op[r].group \in Group
  BY <1>1, CommandOpsAssumption, CommandsAssumption
<1> QED
  BY <1>1, <1>2, CommandOpsAssumption DEF Op, Row

-----------------------------------------------------------------------------
(* What a step does.                                                       *)

Acts(r) == Step(r) \/ Fail(r)

LEMMA BeginFrame ==
    ASSUME TypeOK, NEW r \in Req, Begin(r)
    PROVE  /\ UNCHANGED <<public, tables, clock, who, copy, boot, names>> /\ pc[r] = "idle"
           /\ op' \in [Req -> Ops \cup {None}] /\ pc' \in [Req -> PC]
           /\ op'[r] \in Ops /\ op'[r] \in Op /\ pc'[r] = FirstLabel(op'[r])
           /\ pc'[r] \in {"count", "user", "orgs", "rename", "erase", "dissolve"}
           /\ \A q \in Req \ {r} : op'[q] = op[q] /\ pc'[q] = pc[q] /\ earlier'[q] = earlier[q]
                                   /\ bore'[q] = bore[q]
           /\ earlier' \in [Req -> SUBSET Req] /\ earlier'[r] = {q \in Req : pc[q] \in Ended}
           /\ bore' \in [Req -> SUBSET UserId] /\ bore'[r] = Bearers(op'[r], live, row)
<1>1. PICK o \in Ops : /\ op' = [op EXCEPT ![r] = o] /\ pc' = [pc EXCEPT ![r] = FirstLabel(o)]
                       /\ bore' = [bore EXCEPT ![r] = Bearers(o, live, row)]
  BY DEF Begin, Goto
<1>2. o \in Op /\ o.kind \in Kind
  BY CommandOpsAssumption DEF Op
<1>3. FirstLabel(o) \in {"count", "user", "orgs", "rename", "erase", "dissolve"}
  BY <1>2 DEF FirstLabel, Kind, Command
<1>4. FirstLabel(o) \in PC
  BY <1>3 DEF PC
<1>5. Bearers(o, live, row) \in SUBSET UserId
  BY DEF Bearers, TypeOK
<1>6. op' \in [Req -> Ops \cup {None}] /\ pc' \in [Req -> PC] /\ bore' \in [Req -> SUBSET UserId]
  BY <1>1, <1>4, <1>5 DEF TypeOK
<1>7. op'[r] = o /\ pc'[r] = FirstLabel(o) /\ bore'[r] = Bearers(o, live, row)
  BY <1>1 DEF TypeOK
<1>8. \A q \in Req \ {r} : op'[q] = op[q] /\ pc'[q] = pc[q] /\ bore'[q] = bore[q]
  BY <1>1 DEF TypeOK
<1>9. UNCHANGED <<public, tables, clock, who, copy, boot, names>> /\ pc[r] = "idle"
      /\ earlier' = [earlier EXCEPT ![r] = {q \in Req : pc[q] \in Ended}]
  BY DEF Begin, Goto
<1>10. /\ earlier' \in [Req -> SUBSET Req] /\ earlier'[r] = {q \in Req : pc[q] \in Ended}
       /\ \A q \in Req \ {r} : earlier'[q] = earlier[q]
  BY <1>9 DEF TypeOK
<1> QED
  BY <1>2, <1>3, <1>6, <1>7, <1>8, <1>9, <1>10

LEMMA AfterUserFacts ==
    ASSUME NEW kind \in {"recover", "password", "assign", "remove"}
    PROVE  /\ AfterUser[kind] \in {"group", "names", "write"}
           /\ AfterUser[kind] = "group" => kind \in {"assign", "remove"}
           /\ AfterUser[kind] = "names" => kind = "recover"
           /\ AfterUser[kind] = "write" => kind = "password"
BY DEF AfterUser

LEMMA StepFrame ==
    ASSUME TypeOK, PathOK, NEW r \in Req, Acts(r)
    PROVE  /\ UNCHANGED <<public, op, earlier, clock>> /\ Under(r) /\ op[r] # None
           /\ pc' \in [Req -> PC] /\ pc'[r] # "idle"
           /\ \A q \in Req \ {r} : pc'[q] = pc[q]
<1> USE DEF Acts, Step
<1>1. UNCHANGED <<public, op, earlier, clock>>
  <2>1. CASE Count(r) \/ InsertUser(r) \/ JoinDefault(r) \/ FindUser(r) \/ FindGroup(r) \/ CheckGroup(r)
             \/ AssignGroup(r) \/ RemoveGroup(r) \/ ReadNames(r) \/ IssueToken(r)
    BY <2>1 DEF Count, InsertUser, JoinDefault, FindUser, FindGroup, CheckGroup, AssignGroup,
                RemoveGroup, ReadNames, IssueToken, Goto, ReadOnly, locals
  <2>2. CASE ReadSettings(r) \/ SetPassword(r) \/ FindOrganization(r) \/ SeekGroup(r) \/ InsertGroup(r)
             \/ ListGroups(r) \/ Rename(r) \/ EraseUser(r) \/ Dissolve(r) \/ Fail(r)
    BY <2>2 DEF ReadSettings, SetPassword, FindOrganization, SeekGroup, InsertGroup, ListGroups,
                Rename, EraseUser, Dissolve, Fail, Goto, ReadOnly, locals
  <2> QED
    BY <2>1, <2>2
<1>2. Under(r)
  BY DEF Count, InsertUser, JoinDefault, FindUser, FindGroup, CheckGroup, AssignGroup,
         RemoveGroup, ReadNames, IssueToken, ReadSettings, SetPassword, FindOrganization, SeekGroup,
         InsertGroup, ListGroups, Rename, EraseUser, Dissolve, Fail, Under, Ended
<1>3. op[r] # None
  BY <1>2 DEF PathOK, KindOK, Under
<1>4. PICK label \in PC \ {"idle"} : pc' = [pc EXCEPT ![r] = label]
  <2>1. CASE FindUser(r)
    <3>1. CASE Goto(r, AfterUser[op[r].kind])
      <4>1. AfterUser[op[r].kind] \in {"group", "names", "write"}
        BY <2>1, AfterUserFacts DEF FindUser, PathOK, KindOK
      <4> HIDE DEF Step
      <4> QED
        BY <3>1, <4>1 DEF Goto, PC
    <3>2. CASE Goto(r, "err")
      BY <3>2 DEF Goto, PC, Ended
    <3> QED
      BY <2>1, <3>1, <3>2 DEF FindUser
  <2>2. CASE Count(r) \/ InsertUser(r) \/ JoinDefault(r) \/ FindGroup(r) \/ CheckGroup(r)
             \/ AssignGroup(r) \/ RemoveGroup(r) \/ ReadNames(r) \/ IssueToken(r)
    BY <2>2 DEF Count, InsertUser, JoinDefault, FindGroup, CheckGroup, AssignGroup,
                RemoveGroup, ReadNames, IssueToken, Goto, PC, Ended
  <2>3. CASE ReadSettings(r) \/ SetPassword(r) \/ FindOrganization(r) \/ SeekGroup(r) \/ InsertGroup(r)
             \/ ListGroups(r) \/ Rename(r) \/ EraseUser(r) \/ Dissolve(r) \/ Fail(r)
    BY <2>3 DEF ReadSettings, SetPassword, FindOrganization, SeekGroup, InsertGroup, ListGroups,
                Rename, EraseUser, Dissolve, Fail, Goto, PC, Ended
  <2> QED
    BY <2>1, <2>2, <2>3
<1>5. pc' \in [Req -> PC] /\ pc'[r] # "idle" /\ \A q \in Req \ {r} : pc'[q] = pc[q]
  BY <1>4 DEF TypeOK
<1> QED
  BY <1>1, <1>2, <1>3, <1>5

\* A row that a registration or renaming writes.
Fields(r) == [email |-> op[r].email, username |-> op[r].username]

\* The users after a step: as before, or one registered, renamed or deleted.
LEMMA UsersStep ==
    ASSUME TypeOK, PathOK, NEW r \in Req, Acts(r)
    PROVE  \/ UNCHANGED <<live, row, bore>>
           \/ /\ pc[r] = "insert" /\ pc'[r] = "join" /\ Fields(r) \in Row
              /\ Renamed(live \cup {r}, [row EXCEPT ![r] = Fields(r)])
           \/ /\ pc[r] = "rename" /\ op[r].user \in live /\ Fields(r) \in Row
              /\ Renamed(live, [row EXCEPT ![op[r].user] = Fields(r)])
           \/ /\ pc[r] = "erase" /\ Renamed(live \ {op[r].user}, row)
           \/ /\ pc[r] = "dissolve" /\ Renamed({}, row)
<1>0. op[r] # None
  BY StepFrame
<1>1. CASE InsertUser(r)
  <2>1. pc[r] = "insert" /\ Fields(r) \in Row
    BY <1>0, <1>1, OpFacts DEF InsertUser, Fields, PathOK, KindOK
  <2>2. CASE UNCHANGED <<live, row, bore>>
    BY <2>2
  <2>3. CASE pc' = [pc EXCEPT ![r] = "join"] /\ Renamed(live \cup {r}, [row EXCEPT ![r] = Fields(r)])
    BY <2>1, <2>3 DEF TypeOK
  <2> QED
    BY <1>1, <2>2, <2>3 DEF InsertUser, Goto, Fields
<1>2. CASE Rename(r)
  <2>1. pc[r] = "rename" /\ Fields(r) \in Row
    BY <1>0, <1>2, OpFacts DEF Rename, Fields, PathOK, KindOK
  <2> QED
    BY <1>2, <2>1 DEF Rename, Fields
<1>3. CASE EraseUser(r) \/ Dissolve(r)
  BY <1>3 DEF EraseUser, Dissolve
<1>4. CASE Count(r) \/ JoinDefault(r) \/ FindUser(r) \/ FindGroup(r) \/ CheckGroup(r)
           \/ AssignGroup(r) \/ RemoveGroup(r) \/ ReadNames(r) \/ IssueToken(r)
  BY <1>4 DEF Count, JoinDefault, FindUser, FindGroup, CheckGroup, AssignGroup, RemoveGroup,
              ReadNames, IssueToken, ReadOnly, tables
<1>5. CASE ReadSettings(r) \/ SetPassword(r) \/ FindOrganization(r) \/ SeekGroup(r) \/ InsertGroup(r)
           \/ ListGroups(r) \/ Fail(r)
  BY <1>5 DEF ReadSettings, SetPassword, FindOrganization, SeekGroup, InsertGroup, ListGroups,
              Fail, ReadOnly, tables
<1> QED
  BY <1>1, <1>2, <1>3, <1>4, <1>5 DEF Acts, Step

\* What the properties use of it.
LEMMA UsersFacts ==
    ASSUME IInv0, NEW r \in Req, Acts(r)
    PROVE  /\ live' \subseteq UserId /\ row' \in [UserId -> Row \cup {None}]
           /\ \A u \in live' : row'[u] \in Row
           /\ live' \subseteq live \cup {r}
           /\ r \in live' => r \in live \/ (pc[r] = "insert" /\ pc'[r] = "join")
           /\ bore' \in [Req -> SUBSET UserId]
           /\ \A q \in Req : bore[q] \subseteq bore'[q] /\ (~Under(q) => bore'[q] = bore[q])
           /\ \A q \in Req : Under(q) /\ Bearers(op[q], live, row) \subseteq bore[q] =>
                 Bearers(op[q], live', row') \subseteq bore'[q]
<1> USE DEF IInv0
<1>0. r \in UserId
  BY DEF UserId
<1>1. CASE UNCHANGED <<live, row, bore>>
  BY <1>1 DEF TypeOK, RowsOK
<1>2. ASSUME Renamed(live', row'), live' \subseteq UserId
      PROVE  /\ bore' \in [Req -> SUBSET UserId]
             /\ \A q \in Req : bore[q] \subseteq bore'[q] /\ (~Under(q) => bore'[q] = bore[q])
             /\ \A q \in Req : Under(q) => Bearers(op[q], live', row') \subseteq bore'[q]
  <2>1. \A q \in Req : Bearers(op[q], live', row') \in SUBSET UserId /\ bore[q] \in SUBSET UserId
    BY <1>2 DEF Bearers, TypeOK
  <2>2. bore' = [q \in Req |-> IF Under(q) THEN bore[q] \cup Bearers(op[q], live', row') ELSE bore[q]]
    BY <1>2 DEF Renamed
  <2> QED
    BY <2>1, <2>2
<1>3. ASSUME Fields(r) \in Row, pc[r] = "insert", pc'[r] = "join",
             Renamed(live \cup {r}, [row EXCEPT ![r] = Fields(r)])
      PROVE  /\ Renamed(live', row') /\ live' \subseteq UserId /\ row' \in [UserId -> Row \cup {None}]
             /\ \A u \in live' : row'[u] \in Row
             /\ live' \subseteq live \cup {r}
  BY <1>0, <1>3 DEF Renamed, TypeOK, RowsOK
<1>4. ASSUME Fields(r) \in Row, op[r].user \in live, Renamed(live, [row EXCEPT ![op[r].user] = Fields(r)])
      PROVE  /\ Renamed(live', row') /\ live' = live /\ row' \in [UserId -> Row \cup {None}]
             /\ \A u \in live' : row'[u] \in Row
  BY <1>4 DEF Renamed, TypeOK, RowsOK
<1>5. ASSUME Renamed(live \ {op[r].user}, row) \/ Renamed({}, row)
      PROVE  /\ Renamed(live', row') /\ live' \subseteq live /\ row' = row
             /\ \A u \in live' : row'[u] \in Row
  BY <1>5 DEF Renamed, RowsOK
<1>6. CASE pc[r] = "insert" /\ pc'[r] = "join" /\ Fields(r) \in Row
           /\ Renamed(live \cup {r}, [row EXCEPT ![r] = Fields(r)])
  BY <1>2, <1>3, <1>6
<1>7. CASE op[r].user \in live /\ Fields(r) \in Row
           /\ Renamed(live, [row EXCEPT ![op[r].user] = Fields(r)])
  BY <1>2, <1>4, <1>7 DEF TypeOK
<1>8. CASE Renamed(live \ {op[r].user}, row) \/ Renamed({}, row)
  BY <1>2, <1>5, <1>8 DEF TypeOK
<1> QED
  BY <1>1, <1>6, <1>7, <1>8, UsersStep

\* The group rows and memberships after a step.
LEMMA MembersStep ==
    ASSUME IInv0, NEW r \in Req, Acts(r)
    PROVE  \/ UNCHANGED <<groups, members>> /\ live \subseteq live' /\ (pc[r] = "assign" => pc'[r] # "ok")
              /\ pc[r] # "remove"
           \/ /\ pc[r] = "remove" /\ UNCHANGED <<groups, live>>
              /\ \/ members' = members \ {<<who[r], op[r].group>>}
                 \/ members' = members /\ pc'[r] = "gone"
           \/ /\ pc[r] = "new" /\ UNCHANGED <<members, live>> /\ op[r].group \in Group
              /\ groups' = groups \cup {op[r].group}
           \/ /\ pc[r] = "assign" /\ pc'[r] = "ok" /\ UNCHANGED <<groups, live>>
              /\ who[r] \in live /\ op[r].group \in groups
              /\ members' = members \cup {<<who[r], op[r].group>>}
           \/ /\ pc[r] = "join" /\ live' = live /\ who[r] \in live
              /\ groups' = groups \cup DefaultGroups(r)
              /\ members' = members \cup ({who[r]} \X DefaultGroups(r))
           \/ /\ pc[r] = "erase" /\ live' = live \ {op[r].user} /\ groups' = groups
              /\ members' = {m \in members : m[1] # op[r].user}
           \/ pc[r] = "dissolve" /\ live' = {} /\ groups' = {} /\ members' = {}
<1> USE DEF IInv0
<1>0. op[r] # None
  BY StepFrame
<1>1. CASE JoinDefault(r)
  BY <1>1 DEF JoinDefault
<1>2. CASE AssignGroup(r)
  <2>1. pc'[r] = IF who[r] \in live /\ op[r].group \in groups THEN "ok" ELSE "err"
    BY <1>2 DEF AssignGroup, Goto, TypeOK
  <2> QED
    BY <1>2, <2>1 DEF AssignGroup
<1>3. CASE RemoveGroup(r)
  BY <1>3 DEF RemoveGroup
<1>4. CASE EraseUser(r) \/ Dissolve(r)
  BY <1>4 DEF EraseUser, Dissolve, Renamed
<1>5. CASE InsertGroup(r)
  <2>1. op[r].group \in Group
    BY <1>0, <1>5, OpFacts DEF InsertGroup, PathOK, KindOK
  <2> QED
    BY <1>5, <2>1 DEF InsertGroup
<1>6. CASE Fail(r)
  <2>1. pc'[r] = "gone"
    BY <1>6 DEF Fail, Goto, TypeOK
  <2> QED
    BY <1>6, <2>1 DEF Fail, ReadOnly, tables
<1>7. CASE Count(r) \/ InsertUser(r) \/ FindUser(r) \/ FindGroup(r) \/ CheckGroup(r) \/ Rename(r)
           \/ ReadNames(r) \/ IssueToken(r) \/ ReadSettings(r) \/ SetPassword(r)
           \/ FindOrganization(r) \/ SeekGroup(r) \/ ListGroups(r)
  BY <1>7 DEF Count, InsertUser, FindUser, FindGroup, CheckGroup, Rename, ReadNames, IssueToken,
              ReadSettings, SetPassword, FindOrganization, SeekGroup, ListGroups,
              Renamed, ReadOnly, tables
<1> QED
  BY <1>1, <1>2, <1>3, <1>4, <1>5, <1>6, <1>7 DEF Acts, Step

\* The rows of user_groups refer to rows that exist.
LEMMA MembersFacts ==
    ASSUME IInv0, NEW r \in Req, Acts(r)
    PROVE  /\ groups' \subseteq Group /\ members' \subseteq Member
           /\ \A m \in members' : m[1] \in live' /\ m[2] \in groups'
<1> USE DEF IInv0
<1>1. groups \subseteq Group /\ members \subseteq Member /\ live \subseteq UserId
      /\ \A m \in members : m[1] \in live /\ m[2] \in groups
  BY DEF TypeOK
<1>2. DefaultGroups(r) \subseteq Group
  BY CommandsAssumption DEF DefaultGroups
<1>3. ASSUME NEW u \in live, NEW G \in SUBSET Group, live' = live, groups' = groups \cup G,
             members' = members \cup ({u} \X G)
      PROVE  groups' \subseteq Group /\ members' \subseteq Member
             /\ \A m \in members' : m[1] \in live' /\ m[2] \in groups'
  BY <1>1, <1>3 DEF Member
<1>4. CASE /\ pc[r] = "assign" /\ UNCHANGED <<groups, live>>
           /\ who[r] \in live /\ op[r].group \in groups
           /\ members' = members \cup {<<who[r], op[r].group>>}
  <2>1. members' = members \cup ({who[r]} \X {op[r].group}) /\ groups' = groups \cup {op[r].group}
    BY <1>4
  <2> QED
    BY <1>1, <1>3, <1>4, <2>1
<1>5. CASE /\ pc[r] = "join" /\ live' = live /\ who[r] \in live
           /\ groups' = groups \cup DefaultGroups(r)
           /\ members' = members \cup ({who[r]} \X DefaultGroups(r))
  BY <1>2, <1>3, <1>5
<1> QED
  BY <1>1, <1>4, <1>5, MembersStep

\* The reset tokens and passwords after a step.
LEMMA TokensStep ==
    ASSUME IInv0, NEW r \in Req, Acts(r)
    PROVE  \/ tokens' = tokens /\ live \subseteq live' /\ ~(pc[r] = "issue" /\ pc'[r] = "settings")
           \/ /\ pc[r] = "issue" /\ pc'[r] = "settings" /\ live' = live
              /\ who[r] \in live /\ \A t \in tokens : t.claims # ClaimsOf(r)
              /\ tokens' = tokens \cup {Token(r)}
           \/ /\ pc[r] = "erase" /\ live' = live \ {op[r].user}
              /\ tokens' = {t \in tokens : t.user # op[r].user}
           \/ pc[r] = "dissolve" /\ live' = {} /\ tokens' = {}
<1> USE DEF IInv0
<1>1. CASE IssueToken(r)
  <2>1. pc'[r] = IF who[r] \in live /\ \A t \in tokens : t.claims # ClaimsOf(r)
                 THEN "settings" ELSE "err"
    BY <1>1 DEF IssueToken, Goto, TypeOK
  <2> QED
    BY <1>1, <2>1 DEF IssueToken
<1>2. CASE EraseUser(r) \/ Dissolve(r)
  BY <1>2 DEF EraseUser, Dissolve, Renamed
<1>3. CASE Fail(r)
  <2>1. pc'[r] = "gone"
    BY <1>3 DEF Fail, Goto, TypeOK
  <2> QED
    BY <1>3, <2>1 DEF Fail, ReadOnly, tables
<1>4. CASE Count(r) \/ InsertUser(r) \/ FindUser(r) \/ FindGroup(r) \/ CheckGroup(r) \/ Rename(r)
           \/ ReadNames(r) \/ ReadSettings(r) \/ SetPassword(r)
           \/ FindOrganization(r) \/ SeekGroup(r) \/ ListGroups(r)
  BY <1>4 DEF Count, InsertUser, FindUser, FindGroup, CheckGroup, Rename, ReadNames,
              ReadSettings, SetPassword, FindOrganization, SeekGroup, ListGroups,
              Renamed, ReadOnly, tables
<1>5. CASE JoinDefault(r) \/ AssignGroup(r) \/ RemoveGroup(r) \/ InsertGroup(r)
  BY <1>5 DEF JoinDefault, AssignGroup, RemoveGroup, InsertGroup
<1> QED
  BY <1>1, <1>2, <1>3, <1>4, <1>5 DEF Acts, Step

LEMMA TokensFacts ==
    ASSUME IInv0, NEW r \in Req, Acts(r)
    PROVE  /\ tokens' \subseteq [by : Req, user : UserId, claims : Claims]
           /\ \A t \in tokens' : t.user \in live'
<1> USE DEF IInv0
<1>1. tokens \subseteq [by : Req, user : UserId, claims : Claims] /\ \A t \in tokens : t.user \in live
  BY DEF TypeOK
<1>2. ASSUME pc[r] = "issue", who[r] \in live
      PROVE  Token(r) \in [by : Req, user : UserId, claims : Claims] /\ Token(r).user \in live
  <2>1. copy[r] \in Row /\ who[r] \in UserId /\ names[r] \in SUBSET Group /\ clock \in 0..MaxClock
    BY <1>2 DEF PathOK, FoundOK, Onward, TypeOK
  <2>2. ClaimsOf(r) \in Claims
    BY <2>1 DEF ClaimsOf, Claims, Row
  <2> QED
    BY <1>2, <2>1, <2>2 DEF Token
<1> QED
  BY <1>1, <1>2, TokensStep

LEMMA PasswordStep ==
    ASSUME IInv0, NEW r \in Req, Acts(r)
    PROVE  /\ password' \in [UserId -> Req \cup {None}]
           /\ \/ password' = password /\ (pc[r] = "write" /\ pc'[r] = "ok" => who[r] \notin live)
              \/ /\ pc[r] = "write" /\ pc'[r] = "ok" /\ who[r] \in live /\ live' = live
                 /\ password' = [password EXCEPT ![who[r]] = r]
<1> USE DEF IInv0
<1>0. password \in [UserId -> Req \cup {None}] /\ live \subseteq UserId
  BY DEF TypeOK
<1>1. CASE SetPassword(r)
  <2>1. pc[r] = "write" /\ pc'[r] = "ok" /\ live' = live
    BY <1>1 DEF SetPassword, Goto, TypeOK
  <2> QED
    BY <1>0, <1>1, <2>1 DEF SetPassword
<1>2. CASE Fail(r)
  <2>1. pc'[r] = "gone"
    BY <1>2 DEF Fail, Goto, TypeOK
  <2> QED
    BY <1>0, <1>2, <2>1 DEF Fail, ReadOnly, tables
<1>3. CASE Count(r) \/ FindUser(r) \/ FindGroup(r) \/ CheckGroup(r) \/ ReadNames(r) \/ ReadSettings(r)
           \/ FindOrganization(r) \/ SeekGroup(r) \/ ListGroups(r)
  BY <1>0, <1>3 DEF Count, FindUser, FindGroup, CheckGroup, ReadNames, ReadSettings,
              FindOrganization, SeekGroup, ListGroups, ReadOnly, tables
<1>4. CASE InsertUser(r) \/ Rename(r) \/ JoinDefault(r) \/ AssignGroup(r) \/ RemoveGroup(r)
           \/ InsertGroup(r) \/ IssueToken(r) \/ EraseUser(r) \/ Dissolve(r)
  BY <1>0, <1>4 DEF InsertUser, Rename, JoinDefault, AssignGroup, RemoveGroup, InsertGroup,
              IssueToken, EraseUser, Dissolve
<1> QED
  BY <1>1, <1>2, <1>3, <1>4 DEF Acts, Step

\* What a command remembers after a step: the user it made or found, and no other
\* step forgets it.
LEMMA LocalsStep ==
    ASSUME IInv0, NEW r \in Req, Acts(r)
    PROVE  /\ who' \in [Req -> UserId \cup {None}] /\ copy' \in [Req -> Row \cup {None}]
           /\ boot' \in [Req -> BOOLEAN] /\ names' \in [Req -> SUBSET Group] /\ alive' \in BOOLEAN
           /\ \A q \in Req \ {r} : who'[q] = who[q] /\ copy'[q] = copy[q]
           /\ pc[r] \notin {"insert", "user"} => who'[r] = who[r] /\ copy'[r] = copy[r]
           /\ pc[r] = "insert" /\ pc'[r] \notin {"err", "gone"} => pc'[r] = "join" /\ who'[r] = r
           /\ pc[r] = "user" /\ pc'[r] \notin {"err", "gone"} =>
                 /\ who'[r] \in Bearers(op[r], live, row) /\ copy'[r] = row[who'[r]]
                 /\ pc'[r] = AfterUser[op[r].kind]
<1> USE DEF IInv0
<1>0. /\ who \in [Req -> UserId \cup {None}] /\ copy \in [Req -> Row \cup {None}]
      /\ boot \in [Req -> BOOLEAN] /\ names \in [Req -> SUBSET Group] /\ alive \in BOOLEAN
      /\ pc \in [Req -> PC] /\ r \in UserId
  BY DEF TypeOK, UserId
<1>1. CASE FindUser(r)
  <2>1. UNCHANGED <<boot, names, alive>> /\ pc[r] = "user"
    BY <1>1 DEF FindUser, ReadOnly, tables
  <2>2. CASE \E u \in Bearers(op[r], live, row) :
             /\ who' = [who EXCEPT ![r] = u] /\ copy' = [copy EXCEPT ![r] = row[u]]
             /\ Goto(r, AfterUser[op[r].kind])
    <3>1. PICK u \in Bearers(op[r], live, row) :
             /\ who' = [who EXCEPT ![r] = u] /\ copy' = [copy EXCEPT ![r] = row[u]]
             /\ Goto(r, AfterUser[op[r].kind])
      BY <2>2
    <3>2. u \in UserId /\ row[u] \in Row
      BY DEF Bearers, TypeOK, RowsOK
    <3>3. who'[r] = u /\ copy'[r] = row[u] /\ pc'[r] = AfterUser[op[r].kind]
      BY <1>0, <3>1 DEF Goto
    <3>4. /\ who' \in [Req -> UserId \cup {None}] /\ copy' \in [Req -> Row \cup {None}]
          /\ \A q \in Req \ {r} : who'[q] = who[q] /\ copy'[q] = copy[q]
      BY <1>0, <3>1, <3>2
    <3> QED
      BY <1>0, <2>1, <3>1, <3>3, <3>4
  <2>3. CASE Goto(r, "err") /\ UNCHANGED <<who, copy>>
    BY <1>0, <2>1, <2>3 DEF Goto
  <2> QED
    BY <1>1, <2>2, <2>3 DEF FindUser
<1>2. CASE InsertUser(r)
  <2>1. UNCHANGED <<boot, names, alive, copy>> /\ pc[r] = "insert"
    BY <1>2 DEF InsertUser
  <2>2. \/ pc' = [pc EXCEPT ![r] = "join"] /\ who' = [who EXCEPT ![r] = r]
        \/ pc' = [pc EXCEPT ![r] = "err"] /\ who' = who
    BY <1>2 DEF InsertUser, Goto
  <2> QED
    BY <1>0, <2>1, <2>2
<1>3. CASE Fail(r)
  <2>1. pc'[r] = "gone"
    BY <1>3 DEF Fail, Goto, TypeOK
  <2> QED
    BY <1>0, <1>3, <2>1 DEF Fail, ReadOnly, tables, locals
<1>4. CASE Count(r)
  <2>1. boot' = [boot EXCEPT ![r] = live = {}] /\ UNCHANGED <<who, copy, names, alive>> /\ pc[r] = "count"
    BY <1>4 DEF Count, ReadOnly, tables
  <2>2. boot' \in [Req -> BOOLEAN]
    BY <1>0, <2>1
  <2> QED
    BY <1>0, <2>1, <2>2
<1>5. CASE ReadNames(r) \/ ListGroups(r)
  <2>1. {m[2] : m \in {n \in members : n[1] = who[r]}} \in SUBSET Group /\ groups \in SUBSET Group
    BY DEF TypeOK, Member
  <2>2. PICK s \in SUBSET Group : names' = [names EXCEPT ![r] = s]
    BY <1>5, <2>1 DEF ReadNames, ListGroups
  <2>3. names' \in [Req -> SUBSET Group]
    BY <1>0, <2>2
  <2>4. UNCHANGED <<who, copy, boot, alive>> /\ pc[r] \notin {"insert", "user"}
    BY <1>5 DEF ReadNames, ListGroups, ReadOnly, tables
  <2> QED
    BY <1>0, <2>3, <2>4
<1>6. CASE FindGroup(r) \/ CheckGroup(r) \/ ReadSettings(r) \/ FindOrganization(r) \/ SeekGroup(r)
  BY <1>0, <1>6 DEF FindGroup, CheckGroup, ReadSettings, FindOrganization, SeekGroup,
                    ReadOnly, tables, locals
<1>7. CASE JoinDefault(r) \/ AssignGroup(r) \/ RemoveGroup(r) \/ InsertGroup(r) \/ IssueToken(r)
           \/ SetPassword(r) \/ Rename(r) \/ EraseUser(r) \/ Dissolve(r)
  BY <1>0, <1>7 DEF JoinDefault, AssignGroup, RemoveGroup, InsertGroup, IssueToken, SetPassword,
                    Rename, EraseUser, Dissolve, locals
<1> QED
  BY <1>1, <1>2, <1>3, <1>4, <1>5, <1>6, <1>7 DEF Acts, Step

\* The next label of a command, or its exit.
LEMMA LabelStep ==
    ASSUME IInv0, NEW r \in Req, Acts(r)
    PROVE  \/ pc'[r] \in {"err", "gone"}
           \/ pc[r] = "count" /\ pc'[r] = "insert"
           \/ pc[r] = "insert" /\ pc'[r] = "join"
           \/ pc[r] = "join" /\ pc'[r] = "group" /\ op[r].kind = "superadmin"
           \/ pc[r] = "join" /\ pc'[r] = "ok" /\ op[r].kind # "superadmin"
           \/ pc[r] = "user" /\ pc'[r] = AfterUser[op[r].kind]
           \/ pc[r] = "group" /\ pc'[r] = "remove" /\ op[r].kind = "remove"
           \/ pc[r] = "group" /\ pc'[r] = "check" /\ op[r].kind # "remove"
           \/ pc[r] = "check" /\ pc'[r] = "assign"
           \/ pc[r] = "names" /\ pc'[r] = "issue"
           \/ pc[r] = "issue" /\ pc'[r] = "settings"
           \/ pc[r] = "orgs" /\ pc'[r] = "seek" /\ op[r].kind = "newgroup"
           \/ pc[r] = "orgs" /\ pc'[r] = "list" /\ op[r].kind # "newgroup"
           \/ pc[r] = "seek" /\ pc'[r] = "new"
           \/ /\ pc'[r] = "ok"
              /\ pc[r] \in {"assign", "remove", "settings", "write", "new", "list", "rename",
                            "erase", "dissolve"}
<1> USE DEF IInv0
<1>0. pc \in [Req -> PC]
  BY DEF TypeOK
<1>1. CASE FindUser(r)
  BY <1>0, <1>1 DEF FindUser, Goto
<1>2. CASE Count(r) \/ InsertUser(r) \/ JoinDefault(r)
  BY <1>0, <1>2 DEF Count, InsertUser, JoinDefault, Goto
<1>3. CASE FindGroup(r) \/ CheckGroup(r) \/ AssignGroup(r) \/ RemoveGroup(r)
  BY <1>0, <1>3 DEF FindGroup, CheckGroup, AssignGroup, RemoveGroup, Goto
<1>4. CASE ReadNames(r) \/ IssueToken(r) \/ ReadSettings(r) \/ SetPassword(r)
  BY <1>0, <1>4 DEF ReadNames, IssueToken, ReadSettings, SetPassword, Goto
<1>5. CASE FindOrganization(r) \/ SeekGroup(r) \/ InsertGroup(r) \/ ListGroups(r)
  BY <1>0, <1>5 DEF FindOrganization, SeekGroup, InsertGroup, ListGroups, Goto
<1>6. CASE Rename(r) \/ EraseUser(r) \/ Dissolve(r) \/ Fail(r)
  BY <1>0, <1>6 DEF Rename, EraseUser, Dissolve, Fail, Goto
<1> QED
  BY <1>1, <1>2, <1>3, <1>4, <1>5, <1>6 DEF Acts, Step

\* A registration that goes on has put its user in the table.
LEMMA JoinStep ==
    ASSUME IInv0, NEW r \in Req, Acts(r), pc'[r] = "join"
    PROVE  Renamed(live \cup {r}, [row EXCEPT ![r] = Fields(r)])
<1> USE DEF IInv0
<1>1. pc \in [Req -> PC] /\ pc[r] \in PC
  BY DEF TypeOK
<1>2. pc[r] # "user"
  <2>1. pc[r] = "user" => op[r].kind \in {"recover", "password", "assign", "remove"}
    BY DEF PathOK, KindOK
  <2> QED
    BY <2>1, LabelStep, AfterUserFacts
<1>3. pc[r] = "insert"
  BY <1>2, LabelStep
<1>4. InsertUser(r)
  BY <1>1, <1>3 DEF Acts, Step, Fail, Goto, Count, JoinDefault, FindUser, FindGroup,
     CheckGroup, AssignGroup, RemoveGroup, ReadNames, IssueToken, ReadSettings,
     SetPassword, FindOrganization, SeekGroup, InsertGroup, ListGroups, Rename, EraseUser, Dissolve
<1> QED
  BY <1>1, <1>4 DEF InsertUser, Goto, Fields

-----------------------------------------------------------------------------
(* Types.                                                                  *)

LEMMA TypeNext == ASSUME IInv0, [Next]_vars PROVE TypeOK'
<1> USE DEF IInv0
<1>1. ASSUME NEW r \in Req, Begin(r) PROVE TypeOK'
  BY <1>1, BeginFrame DEF TypeOK, tables
<1>2. ASSUME NEW r \in Req, Acts(r) PROVE TypeOK'
  <2>1. UNCHANGED <<public, op, earlier, clock>> /\ pc' \in [Req -> PC]
    BY <1>2, StepFrame
  <2>2. /\ live' \subseteq UserId /\ row' \in [UserId -> Row \cup {None}]
        /\ bore' \in [Req -> SUBSET UserId]
    BY <1>2, UsersFacts
  <2>3. /\ groups' \subseteq Group /\ members' \subseteq Member
        /\ \A m \in members' : m[1] \in live' /\ m[2] \in groups'
    BY <1>2, MembersFacts
  <2>4. /\ tokens' \subseteq [by : Req, user : UserId, claims : Claims]
        /\ \A t \in tokens' : t.user \in live'
    BY <1>2, TokensFacts
  <2>5. password' \in [UserId -> Req \cup {None}]
    BY <1>2, PasswordStep
  <2>6. /\ who' \in [Req -> UserId \cup {None}] /\ copy' \in [Req -> Row \cup {None}]
        /\ boot' \in [Req -> BOOLEAN] /\ names' \in [Req -> SUBSET Group] /\ alive' \in BOOLEAN
    BY <1>2, LocalsStep
  <2> QED
    BY <2>1, <2>2, <2>3, <2>4, <2>5, <2>6 DEF TypeOK
<1>3. Tick => TypeOK'
  BY CommandsAssumption DEF Tick, TypeOK, tables, locals
<1>4. UNCHANGED vars => TypeOK'
  BY DEF vars, TypeOK
<1> QED
  BY <1>1, <1>2, <1>3, <1>4 DEF Next, Quiescent, Acts

LEMMA PathNext == ASSUME IInv0, [Next]_vars PROVE PathOK'
<1> USE DEF IInv0
<1>0. ASSUME NEW q \in Req, UNCHANGED <<pc[q], op[q], who[q], copy[q]>> PROVE (KindOK(q) /\ FoundOK(q))'
  BY <1>0 DEF PathOK, KindOK, FoundOK
<1>1. ASSUME NEW r \in Req, Begin(r) PROVE PathOK'
  <2>1. /\ UNCHANGED <<who, copy>> /\ op'[r] # None /\ op'[r].kind \in Kind
        /\ pc'[r] = FirstLabel(op'[r])
        /\ pc'[r] \in {"count", "user", "orgs", "rename", "erase", "dissolve"}
        /\ \A q \in Req \ {r} : op'[q] = op[q] /\ pc'[q] = pc[q]
    BY <1>1, BeginFrame, CommandOpsAssumption DEF Op
  <2>2. KindOK(r)'
    BY <2>1 DEF KindOK, FirstLabel, Kind, Command
  <2>3. FoundOK(r)'
    BY <2>1 DEF FoundOK, Onward
  <2> QED
    BY <1>0, <2>1, <2>2, <2>3 DEF PathOK
<1>2. ASSUME NEW r \in Req, Acts(r) PROVE PathOK'
  <2>1. op' = op /\ op[r] # None /\ pc'[r] # "idle" /\ \A q \in Req \ {r} : pc'[q] = pc[q]
    BY <1>2, StepFrame
  <2>2. \A q \in Req \ {r} : who'[q] = who[q] /\ copy'[q] = copy[q]
    BY <1>2, LocalsStep
  <2>3. pc[r] = "user" => op[r].kind \in {"recover", "password", "assign", "remove"}
    BY DEF PathOK, KindOK
  <2>4. KindOK(r)'
    BY <1>2, <2>1, <2>3, LabelStep, AfterUserFacts DEF KindOK, PathOK
  <2>5. FoundOK(r)'
    <3>1. CASE pc[r] = "insert"
      BY <1>2, <3>1, LabelStep, LocalsStep DEF FoundOK, Onward, UserId
    <3>2. CASE pc[r] = "user" /\ pc'[r] \notin {"err", "gone"}
      BY <1>2, <3>2, LocalsStep DEF FoundOK, Bearers, TypeOK, RowsOK
    <3>3. CASE pc[r] \notin {"insert", "user"}
      <4>1. who'[r] = who[r] /\ copy'[r] = copy[r]
        BY <1>2, <3>3, LocalsStep
      <4>2. pc'[r] \in Onward => pc[r] \in Onward
        BY <1>2, <3>3, LabelStep DEF Onward
      <4>3. pc'[r] \in {"names", "issue"} => pc[r] = "names"
        BY <1>2, <3>3, LabelStep
      <4> QED
        BY <4>1, <4>2, <4>3 DEF FoundOK, PathOK
    <3> QED
      BY <3>1, <3>2, <3>3 DEF FoundOK, Onward
  <2> QED
    BY <1>0, <2>1, <2>2, <2>4, <2>5 DEF PathOK
<1>3. Tick => PathOK'
  BY DEF Tick, locals, PathOK, KindOK, FoundOK
<1>4. UNCHANGED vars => PathOK'
  BY DEF vars, PathOK, KindOK, FoundOK
<1> QED
  BY <1>1, <1>2, <1>3, <1>4 DEF Next, Quiescent, Acts

LEMMA RowsNext == ASSUME IInv0, [Next]_vars PROVE RowsOK'
<1> USE DEF IInv0
<1>1. ASSUME NEW r \in Req, Begin(r) PROVE RowsOK'
  BY <1>1, BeginFrame DEF RowsOK, tables
<1>2. ASSUME NEW r \in Req, Acts(r) PROVE RowsOK'
  BY <1>2, UsersFacts DEF RowsOK
<1>3. Tick \/ UNCHANGED vars => RowsOK'
  BY DEF Tick, tables, vars, RowsOK
<1> QED
  BY <1>1, <1>2, <1>3 DEF Next, Quiescent, Acts

LEMMA EarlierNext == ASSUME IInv0, [Next]_vars PROVE EarlierOK'
<1> USE DEF IInv0
<1>1. ASSUME NEW r \in Req, Begin(r) PROVE EarlierOK'
  <2>1. \A q \in Req : pc[q] \in Ended => pc'[q] \in Ended
    BY <1>1, BeginFrame DEF Ended
  <2>2. \A p, q \in Req : q \in earlier'[p] => q \in earlier[p] \/ pc[q] \in Ended
    BY <1>1, BeginFrame
  <2> QED
    BY <2>1, <2>2 DEF EarlierOK
<1>2. ASSUME NEW r \in Req, Acts(r) PROVE EarlierOK'
  BY <1>2, StepFrame DEF EarlierOK, Under
<1>3. Tick \/ UNCHANGED vars => EarlierOK'
  BY DEF Tick, locals, vars, EarlierOK
<1> QED
  BY <1>1, <1>2, <1>3 DEF Next, Quiescent, Acts

LEMMA IInv0Init == Init => IInv0
<1> SUFFICES ASSUME Init PROVE IInv0
  OBVIOUS
<1>1. PICK s \in Starts :
          /\ public = s.public
          /\ live = DOMAIN s.users
          /\ row = [u \in UserId |-> IF u \in DOMAIN s.users THEN s.users[u] ELSE None]
          /\ groups = s.groups /\ members = s.members
  BY DEF Init
<1>2. /\ s.public \in BOOLEAN /\ live \subseteq UserId
      /\ s.users \in [DOMAIN s.users -> Row] /\ s.groups \subseteq Group
      /\ s.members \subseteq (DOMAIN s.users) \X s.groups
  BY <1>1, CommandsAssumption DEF UserId
<1>3. row \in [UserId -> Row \cup {None}] /\ RowsOK
  BY <1>1, <1>2 DEF RowsOK
<1>4. members \subseteq Member /\ \A m \in members : m[1] \in live /\ m[2] \in groups
  BY <1>1, <1>2 DEF Member
<1>5. TypeOK
  BY <1>1, <1>2, <1>3, <1>4, CommandsAssumption DEF Init, TypeOK, PC
<1>6. PathOK /\ EarlierOK
  BY DEF Init, PathOK, KindOK, FoundOK, Onward, EarlierOK
<1> QED
  BY <1>3, <1>5, <1>6 DEF IInv0

LEMMA IInv0Next == IInv0 /\ [Next]_vars => IInv0'
BY TypeNext, PathNext, RowsNext, EarlierNext DEF IInv0

\* Every variable keeps its type, and memberships and reset tokens refer to users
\* and groups that have their rows, whenever those were read.
THEOREM TypeCorrect == Spec => []TypeOK
<1>1. IInv0 => TypeOK
  BY DEF IInv0
<1> QED
  BY IInv0Init, IInv0Next, <1>1, PTL DEF Spec

-----------------------------------------------------------------------------
(* Whom a command goes on with.                                            *)

\* The commands that go on with a user.
Personal == {"register", "superadmin", "recover", "password", "assign", "remove"}

\* Whoever bears the name while the command is under way is remembered, and the
\* command goes on with one who bore it.
HeardOK == \A r \in Req : Under(r) => Bearers(op[r], live, row) \subseteq bore[r]

BoreOK ==
    \A r \in Req : pc[r] \in Onward \cup {"ok"} /\ op[r].kind \in Personal => who[r] \in bore[r]

BoreInv == IInv0 /\ HeardOK /\ BoreOK

LEMMA HeardNext == ASSUME BoreInv, [Next]_vars PROVE HeardOK'
<1> USE DEF BoreInv, IInv0
<1>1. ASSUME NEW r \in Req, Begin(r) PROVE HeardOK'
  <2>1. /\ UNCHANGED <<live, row>> /\ bore'[r] = Bearers(op'[r], live, row)
        /\ \A q \in Req \ {r} : op'[q] = op[q] /\ pc'[q] = pc[q] /\ bore'[q] = bore[q]
    BY <1>1, BeginFrame DEF tables
  <2>2. \A q \in Req : Bearers(op[q], live, row)' = Bearers(op'[q], live, row)
    BY <2>1 DEF Bearers
  <2> QED
    BY <2>1, <2>2 DEF HeardOK, Under
<1>2. ASSUME NEW r \in Req, Acts(r) PROVE HeardOK'
  <2>1. op' = op /\ Under(r) /\ \A q \in Req \ {r} : pc'[q] = pc[q]
    BY <1>2, StepFrame
  <2>2. \A q \in Req : Under(q) => Bearers(op[q], live', row') \subseteq bore'[q]
    BY <1>2, UsersFacts DEF HeardOK
  <2>3. \A q \in Req : Bearers(op[q], live, row)' = Bearers(op[q], live', row')
    BY <2>1 DEF Bearers
  <2> QED
    BY <2>1, <2>2, <2>3 DEF HeardOK, Under
<1>3. Tick \/ UNCHANGED vars => HeardOK'
  BY DEF Tick, tables, locals, vars, HeardOK, Under, Bearers
<1> QED
  BY <1>1, <1>2, <1>3 DEF Next, Quiescent, Acts

LEMMA BoreNext == ASSUME BoreInv, [Next]_vars PROVE BoreOK'
<1> USE DEF BoreInv, IInv0
<1>1. ASSUME NEW r \in Req, Begin(r) PROVE BoreOK'
  <2>1. /\ UNCHANGED who /\ pc'[r] \notin Onward \cup {"ok"}
        /\ \A q \in Req \ {r} : op'[q] = op[q] /\ pc'[q] = pc[q] /\ bore'[q] = bore[q]
    BY <1>1, BeginFrame DEF Onward
  <2> QED
    BY <2>1 DEF BoreOK
<1>2. ASSUME NEW r \in Req, Acts(r) PROVE BoreOK'
  <2>1. op' = op /\ op[r] # None /\ Under(r) /\ \A q \in Req \ {r} : pc'[q] = pc[q]
    BY <1>2, StepFrame
  <2>2. \A q \in Req : bore[q] \subseteq bore'[q]
    BY <1>2, UsersFacts
  <2>3. \A q \in Req \ {r} : who'[q] = who[q]
    BY <1>2, LocalsStep
  <2>4. pc'[r] \in Onward \cup {"ok"} /\ op[r].kind \in Personal => who'[r] \in bore'[r]
    <3>1. SUFFICES ASSUME pc'[r] \in Onward \cup {"ok"}, op[r].kind \in Personal
                   PROVE  who'[r] \in bore'[r]
      OBVIOUS
    <3>2. pc'[r] \notin {"err", "gone"}
      BY <3>1 DEF Onward
    <3>3. CASE pc[r] = "insert"
      <4>1. pc'[r] = "join" /\ who'[r] = r /\ op[r].kind # "password"
        BY <1>2, <3>2, <3>3, LocalsStep DEF PathOK, KindOK
      <4>2. live' = live \cup {r} /\ row'[r] = Fields(r)
        BY <1>2, <4>1, JoinStep DEF TypeOK, UserId, Renamed
      <4>3. r \in Bearers(op[r], live', row')
        BY <4>1, <4>2 DEF Bearers, Fields
      <4> QED
        BY <1>2, <2>1, <4>1, <4>3, UsersFacts DEF HeardOK
    <3>4. CASE pc[r] = "user"
      BY <1>2, <2>1, <2>2, <3>2, <3>4, LocalsStep DEF HeardOK
    <3>5. CASE pc[r] \notin {"insert", "user"}
      <4>1. who'[r] = who[r]
        BY <1>2, <3>5, LocalsStep
      <4>2. pc[r] \in Onward
        BY <1>2, <3>1, <3>5, LabelStep DEF Onward, Personal, PathOK, KindOK
      <4> QED
        BY <2>2, <3>1, <4>1, <4>2 DEF BoreOK
    <3> QED
      BY <3>3, <3>4, <3>5
  <2> QED
    BY <2>1, <2>2, <2>3, <2>4 DEF BoreOK
<1>3. Tick \/ UNCHANGED vars => BoreOK'
  BY DEF Tick, locals, vars, BoreOK
<1> QED
  BY <1>1, <1>2, <1>3 DEF Next, Quiescent, Acts

LEMMA BoreInit == Init => BoreInv
BY IInv0Init DEF BoreInv, HeardOK, BoreOK, Init, Under, Onward

LEMMA BoreInvNext == BoreInv /\ [Next]_vars => BoreInv'
BY IInv0Next, HeardNext, BoreNext DEF BoreInv

-----------------------------------------------------------------------------
(* Memberships are as the commands report them.                            *)

AssignedOK ==
    \A r \in Req : pc[r] = "ok" /\ op[r].kind \in {"assign", "superadmin"} =>
        \/ <<who[r], op[r].group>> \in members
        \/ \E q \in Req : pc[q] # "idle" /\ Withdraws(q, who[r], op[r].group)

RemovedOK ==
    \A r \in Req : pc[r] = "ok" /\ op[r].kind = "remove" =>
        \/ <<who[r], op[r].group>> \notin members
        \/ \E q \in Req \ earlier[r] : pc[q] # "idle" /\ Grants(q, op[r].group)

MemberInv == BoreInv /\ AssignedOK /\ RemovedOK

LEMMA AssignedNext == ASSUME MemberInv, [Next]_vars PROVE AssignedOK'
<1> USE DEF MemberInv, BoreInv, IInv0
<1>1. ASSUME NEW p \in Req, Begin(p) PROVE AssignedOK'
  <2>1. /\ UNCHANGED <<members, who>> /\ pc'[p] # "ok" /\ pc[p] = "idle"
        /\ \A q \in Req \ {p} : op'[q] = op[q] /\ pc'[q] = pc[q]
    BY <1>1, BeginFrame DEF tables
  <2>2. \A q \in Req : \A u, g : pc[q] # "idle" /\ Withdraws(q, u, g) =>
                               pc'[q] # "idle" /\ Withdraws(q, u, g)'
    BY <2>1 DEF Withdraws
  <2> QED
    BY <2>1, <2>2 DEF AssignedOK
<1>2. ASSUME NEW p \in Req, Acts(p) PROVE AssignedOK'
  <2>1. /\ op' = op /\ op[p] # None /\ pc'[p] # "idle" /\ \A q \in Req \ {p} : pc'[q] = pc[q]
    BY <1>2, StepFrame
  <2>2. SUFFICES ASSUME NEW r \in Req, pc'[r] = "ok", op[r].kind \in {"assign", "superadmin"},
                        <<who'[r], op[r].group>> \notin members'
                 PROVE  \E q \in Req : pc'[q] # "idle" /\ Withdraws(q, who'[r], op[r].group)
    BY <2>1 DEF AssignedOK, Withdraws
  <2>3. CASE r = p
    <3>1. pc[p] = "assign"
      BY <1>2, <2>2, <2>3, LabelStep, AfterUserFacts DEF PathOK, KindOK
    <3>2. members' = members \cup {<<who[p], op[p].group>>} /\ who'[p] = who[p]
      BY <1>2, <2>2, <2>3, <3>1, MembersStep, LocalsStep
    <3> QED
      BY <2>2, <2>3, <3>2
  <2>4. CASE r # p
    <3>1. pc[r] = "ok" /\ who'[r] = who[r]
      BY <1>2, <2>1, <2>2, <2>4, LocalsStep
    <3>2. CASE <<who[r], op[r].group>> \notin members
      <4>1. PICK q \in Req : pc[q] # "idle" /\ Withdraws(q, who[r], op[r].group)
        BY <2>2, <3>1, <3>2 DEF AssignedOK
      <4> QED
        BY <2>1, <3>1, <4>1
    <3>3. CASE <<who[r], op[r].group>> \in members
      <4>1. \/ pc[p] = "remove" /\ <<who[r], op[r].group>> = <<who[p], op[p].group>>
            \/ pc[p] = "erase" /\ op[p].user = who[r]
            \/ pc[p] = "dissolve"
        BY <1>2, <2>2, <3>1, <3>3, MembersStep
      <4>2. Withdraws(p, who[r], op[r].group)
        BY <4>1 DEF Withdraws, PathOK, KindOK
      <4> QED
        BY <2>1, <3>1, <4>2
    <3> QED
      BY <3>2, <3>3
  <2> QED
    BY <2>3, <2>4
<1>3. Tick \/ UNCHANGED vars => AssignedOK'
  BY DEF Tick, tables, locals, vars, AssignedOK, Withdraws
<1> QED
  BY <1>1, <1>2, <1>3 DEF Next, Quiescent, Acts

LEMMA RemovedNext == ASSUME MemberInv, [Next]_vars PROVE RemovedOK'
<1> USE DEF MemberInv, BoreInv, IInv0
<1>1. ASSUME NEW p \in Req, Begin(p) PROVE RemovedOK'
  <2>1. /\ UNCHANGED <<members, who>> /\ pc'[p] # "ok" /\ pc[p] = "idle"
        /\ \A q \in Req \ {p} : op'[q] = op[q] /\ pc'[q] = pc[q] /\ earlier'[q] = earlier[q]
    BY <1>1, BeginFrame DEF tables
  <2>2. \A q \in Req : \A g : pc[q] # "idle" /\ Grants(q, g) => pc'[q] # "idle" /\ Grants(q, g)'
    BY <2>1 DEF Grants
  <2> QED
    BY <2>1, <2>2 DEF RemovedOK
<1>2. ASSUME NEW p \in Req, Acts(p) PROVE RemovedOK'
  <2>1. /\ UNCHANGED <<op, earlier>> /\ op[p] # None /\ pc'[p] # "idle" /\ Under(p)
        /\ \A q \in Req \ {p} : pc'[q] = pc[q]
    BY <1>2, StepFrame
  <2>2. SUFFICES ASSUME NEW r \in Req, pc'[r] = "ok", op[r].kind = "remove",
                        <<who'[r], op[r].group>> \in members'
                 PROVE  \E q \in Req \ earlier[r] : pc'[q] # "idle" /\ Grants(q, op[r].group)
    BY <2>1 DEF RemovedOK, Grants
  <2>3. CASE r = p
    <3>1. pc[p] = "remove"
      BY <1>2, <2>2, <2>3, LabelStep, AfterUserFacts DEF PathOK, KindOK
    <3>2. members' = members \ {<<who[p], op[p].group>>} /\ who'[p] = who[p]
      BY <1>2, <2>2, <2>3, <3>1, MembersStep, LocalsStep
    <3> QED
      BY <2>2, <2>3, <3>2
  <2>4. CASE r # p
    <3>1. pc[r] = "ok" /\ who'[r] = who[r]
      BY <1>2, <2>1, <2>2, <2>4, LocalsStep
    <3>2. CASE <<who[r], op[r].group>> \in members
      <4>1. PICK q \in Req \ earlier[r] : pc[q] # "idle" /\ Grants(q, op[r].group)
        BY <2>2, <3>1, <3>2 DEF RemovedOK
      <4> QED
        BY <2>1, <4>1
    <3>3. CASE <<who[r], op[r].group>> \notin members
      <4>1. \/ pc[p] = "assign" /\ op[r].group = op[p].group
            \/ pc[p] = "join"
        BY <1>2, <2>2, <3>1, <3>3, MembersStep
      <4>2. Grants(p, op[r].group)
        BY <4>1 DEF Grants, PathOK, KindOK
      <4>3. p \notin earlier[r]
        BY <2>1 DEF EarlierOK, Under
      <4> QED
        BY <2>1, <4>2, <4>3
    <3> QED
      BY <3>2, <3>3
  <2> QED
    BY <2>3, <2>4
<1>3. Tick \/ UNCHANGED vars => RemovedOK'
  BY DEF Tick, tables, locals, vars, RemovedOK, Grants
<1> QED
  BY <1>1, <1>2, <1>3 DEF Next, Quiescent, Acts

\* A command that reports a membership, or its removal, speaks of a user who bore
\* the name it was given, and of what is in the table, as far as no other call
\* changed it.
THEOREM ReportsAreTrue == Spec => []MembershipIsAsReported
<1>1. Init => MemberInv
  BY BoreInit DEF MemberInv, AssignedOK, RemovedOK, Init
<1>2. MemberInv /\ [Next]_vars => MemberInv'
  BY BoreInvNext, AssignedNext, RemovedNext DEF MemberInv
<1>3. MemberInv => MembershipIsAsReported
  BY DEF MemberInv, BoreInv, BoreOK, Personal, AssignedOK, RemovedOK, MembershipIsAsReported
<1> QED
  BY <1>1, <1>2, <1>3, PTL DEF Spec

-----------------------------------------------------------------------------
(* A user who is gone does not come back.                                  *)

Fresh == {"idle", "count", "insert"}

\* No user lives, or is gone on with, whose registration has yet to insert it.
LivesOK ==
    /\ \A u \in live : u \in Req => pc[u] \notin Fresh
    /\ \A r \in Req : pc[r] \in Onward \cup {"ok"} /\ op[r].kind \in {"recover", "password"}
                      /\ who[r] \in Req => pc[who[r]] \notin Fresh

LifeInv == BoreInv /\ LivesOK

\* Nobody is made before the step that makes it.
LEMMA ReturnStep ==
    ASSUME LifeInv, NEW r \in Req, Acts(r), NEW u \in live' \ live
    PROVE  u = r /\ pc[u] = "insert"
BY UsersFacts DEF LifeInv, BoreInv

LEMMA LivesNext == ASSUME LifeInv, [Next]_vars PROVE LivesOK'
<1> USE DEF LifeInv, BoreInv, IInv0
<1>1. ASSUME NEW r \in Req, Begin(r) PROVE LivesOK'
  <2>1. /\ UNCHANGED <<live, who>> /\ pc'[r] \notin Onward \cup {"ok"} /\ pc[r] = "idle"
        /\ \A q \in Req \ {r} : op'[q] = op[q] /\ pc'[q] = pc[q]
    BY <1>1, BeginFrame DEF tables, Onward
  <2> QED
    BY <2>1 DEF LivesOK, Fresh
<1>2. ASSUME NEW r \in Req, Acts(r) PROVE LivesOK'
  <2>1. op' = op /\ op[r] # None /\ \A q \in Req \ {r} : pc'[q] = pc[q]
    BY <1>2, StepFrame
  <2>2. \A q \in Req \ {r} : who'[q] = who[q]
    BY <1>2, LocalsStep
  <2>3. pc'[r] \in Fresh => pc[r] \in Fresh
    <3>1. pc[r] = "user" => op[r].kind \in {"recover", "password", "assign", "remove"}
      BY DEF PathOK, KindOK
    <3> QED
      BY <1>2, <3>1, LabelStep, AfterUserFacts DEF Fresh
  <2>4. r \in live' => r \in live \/ pc'[r] = "join"
    BY <1>2, UsersFacts
  <2>5. live' \subseteq live \cup {r}
    BY <1>2, UsersFacts
  <2>6. \A u \in live' : u \in Req => pc'[u] \notin Fresh
    BY <2>1, <2>3, <2>4, <2>5 DEF LivesOK, Fresh
  <2>7. pc'[r] \in Onward \cup {"ok"} /\ op[r].kind \in {"recover", "password"} /\ who'[r] \in Req =>
            pc[who'[r]] \notin Fresh
    <3>1. SUFFICES ASSUME pc'[r] \in Onward \cup {"ok"}, op[r].kind \in {"recover", "password"},
                          who'[r] \in Req
                   PROVE  pc[who'[r]] \notin Fresh
      OBVIOUS
    <3>2. pc'[r] \notin {"err", "gone"}
      BY <3>1 DEF Onward
    <3>3. CASE pc[r] = "user"
      BY <1>2, <3>1, <3>2, <3>3, LocalsStep DEF Bearers, LivesOK
    <3>4. CASE pc[r] # "user"
      <4>1. pc[r] \in Onward /\ pc[r] # "insert"
        BY <1>2, <3>1, <3>4, LabelStep DEF Onward, PathOK, KindOK
      <4>2. who'[r] = who[r]
        BY <1>2, <3>4, <4>1, LocalsStep
      <4> QED
        BY <3>1, <4>1, <4>2 DEF LivesOK
    <3> QED
      BY <3>3, <3>4
  <2>8. \A q \in Req : pc[q] \notin Fresh => pc'[q] \notin Fresh
    BY <2>1, <2>3
  <2> QED
    BY <2>1, <2>2, <2>6, <2>7, <2>8 DEF LivesOK
<1>3. Tick \/ UNCHANGED vars => LivesOK'
  BY DEF Tick, tables, locals, vars, LivesOK
<1> QED
  BY <1>1, <1>2, <1>3 DEF Next, Quiescent, Acts

LEMMA LifeInit == Init => LifeInv
<1> SUFFICES ASSUME Init PROVE LifeInv
  OBVIOUS
<1>1. live \cap Req = {}
  BY CommandsAssumption DEF Init
<1> QED
  BY <1>1, BoreInit DEF LifeInv, LivesOK, Init, Onward

LEMMA LifeNext == LifeInv /\ [Next]_vars => LifeInv'
BY BoreInvNext, LivesNext DEF LifeInv

-----------------------------------------------------------------------------
(* Reset links.                                                            *)

\* From the issue on, the token of the link is stored, or its user is gone.
StoredOK ==
    \A r \in Req : pc[r] \in {"settings", "ok"} /\ op[r].kind = "recover" =>
        \/ \E t \in tokens : t.by = r /\ t.user = who[r]
        \/ who[r] \notin live

OwnTokens == \A t, s \in tokens : t.claims = s.claims => t = s

LinkInv == LifeInv /\ StoredOK /\ OwnTokens

LEMMA StoredNext == ASSUME LinkInv, [Next]_vars PROVE StoredOK'
<1> USE DEF LinkInv, LifeInv, BoreInv, IInv0
<1>1. ASSUME NEW p \in Req, Begin(p) PROVE StoredOK'
  <2>1. /\ UNCHANGED <<tokens, live, who>> /\ pc'[p] \notin {"settings", "ok"}
        /\ \A q \in Req \ {p} : op'[q] = op[q] /\ pc'[q] = pc[q]
    BY <1>1, BeginFrame DEF tables
  <2> QED
    BY <2>1 DEF StoredOK
<1>2. ASSUME NEW p \in Req, Acts(p) PROVE StoredOK'
  <2>1. /\ op' = op /\ op[p] # None /\ \A q \in Req \ {p} : pc'[q] = pc[q]
    BY <1>2, StepFrame
  <2>2. SUFFICES ASSUME NEW r \in Req, pc'[r] \in {"settings", "ok"}, op[r].kind = "recover",
                        who'[r] \in live'
                 PROVE  \E t \in tokens' : t.by = r /\ t.user = who'[r]
    BY <2>1 DEF StoredOK
  <2>3. CASE r = p /\ pc[p] = "issue"
    <3>1. pc'[p] = "settings" /\ who'[p] = who[p]
      BY <1>2, <2>2, <2>3, LabelStep, LocalsStep
    <3>2. Token(p) \in tokens'
      BY <1>2, <2>3, <3>1, TokensStep
    <3> QED
      BY <2>3, <3>1, <3>2 DEF Token
  <2>4. CASE ~(r = p /\ pc[p] = "issue")
    <3>1. pc[r] \in {"settings", "ok"} /\ who'[r] = who[r]
      BY <1>2, <2>1, <2>2, <2>4, LabelStep, LocalsStep, AfterUserFacts DEF PathOK, KindOK
    <3>2. who[r] \in live
      <4>1. SUFFICES ASSUME who[r] \notin live PROVE FALSE
        OBVIOUS
      <4>2. who[r] = p /\ pc[p] = "insert"
        BY <1>2, <2>2, <3>1, <4>1, ReturnStep
      <4> QED
        BY <2>2, <3>1, <4>2 DEF LivesOK, Fresh, Onward
    <3>3. PICK t \in tokens : t.by = r /\ t.user = who[r]
      BY <2>2, <3>1, <3>2 DEF StoredOK
    <3>4. t \in tokens'
      BY <1>2, <2>2, <3>1, <3>3, TokensStep
    <3> QED
      BY <3>1, <3>3, <3>4
  <2> QED
    BY <2>3, <2>4
<1>3. Tick \/ UNCHANGED vars => StoredOK'
  BY DEF Tick, tables, locals, vars, StoredOK
<1> QED
  BY <1>1, <1>2, <1>3 DEF Next, Quiescent, Acts

LEMMA OwnNext == ASSUME LinkInv, [Next]_vars PROVE OwnTokens'
<1> USE DEF LinkInv, LifeInv, BoreInv, IInv0
<1>1. ASSUME NEW p \in Req, Begin(p) PROVE OwnTokens'
  BY <1>1, BeginFrame DEF tables, OwnTokens
<1>2. ASSUME NEW p \in Req, Acts(p) PROVE OwnTokens'
  <2>1. Token(p).claims = ClaimsOf(p)
    BY DEF Token
  <2> QED
    BY <1>2, <2>1, TokensStep DEF OwnTokens
<1>3. Tick \/ UNCHANGED vars => OwnTokens'
  BY DEF Tick, tables, vars, OwnTokens
<1> QED
  BY <1>1, <1>2, <1>3 DEF Next, Quiescent, Acts

\* A recovery that reports its link stored that link's token for the user who bore
\* the name, and no two links carry one token: of two recoveries that read the
\* same user and groups within a second, one fails.
THEOREM LinksWork == Spec => []LinksAreStored
<1>1. Init => LinkInv
  BY LifeInit DEF LinkInv, StoredOK, OwnTokens, Init
<1>2. LinkInv /\ [Next]_vars => LinkInv'
  BY LifeNext, StoredNext, OwnNext DEF LinkInv
<1>3. LinkInv => LinksAreStored
  BY DEF LinkInv, LifeInv, BoreInv, BoreOK, Personal, StoredOK, OwnTokens, LinksAreStored
<1> QED
  BY <1>1, <1>2, <1>3, PTL DEF Spec

-----------------------------------------------------------------------------
(* Passwords.                                                              *)

\* A password is of a command that has ended, and of the user it went on with.
SetOK ==
    \A u \in UserId, r \in Req : password[u] = r =>
        pc[r] = "ok" /\ op[r].kind = "password" /\ who[r] = u

\* It stays until another command that was not over before.
KeptOK ==
    \A r \in Req : pc[r] = "ok" /\ op[r].kind = "password" =>
        \/ password[who[r]] = r \/ who[r] \notin live
        \/ \E q \in Req \ ({r} \cup earlier[r]) : pc[q] # "idle" /\ op[q].kind = "password"

PasswordInv == LifeInv /\ SetOK /\ KeptOK

LEMMA SetNext == ASSUME PasswordInv, [Next]_vars PROVE SetOK'
<1> USE DEF PasswordInv, LifeInv, BoreInv, IInv0
<1>1. ASSUME NEW p \in Req, Begin(p) PROVE SetOK'
  <2>1. /\ UNCHANGED <<password, who>> /\ pc[p] = "idle"
        /\ \A q \in Req \ {p} : op'[q] = op[q] /\ pc'[q] = pc[q]
    BY <1>1, BeginFrame DEF tables
  <2> QED
    BY <2>1 DEF SetOK
<1>2. ASSUME NEW p \in Req, Acts(p) PROVE SetOK'
  <2>1. /\ op' = op /\ op[p] # None /\ Under(p) /\ \A q \in Req \ {p} : pc'[q] = pc[q] /\ who'[q] = who[q]
    BY <1>2, StepFrame, LocalsStep
  <2>2. SUFFICES ASSUME NEW u \in UserId, NEW r \in Req, password'[u] = r
                 PROVE  pc'[r] = "ok" /\ op[r].kind = "password" /\ who'[r] = u
    BY <2>1 DEF SetOK
  <2>3. CASE password[u] = r
    BY <2>1, <2>3 DEF SetOK, Under, Ended
  <2>4. CASE password[u] # r
    <3>1. /\ pc[p] = "write" /\ pc'[p] = "ok" /\ password' = [password EXCEPT ![who[p]] = p]
      BY <1>2, <2>2, <2>4, PasswordStep
    <3>2. u = who[p] /\ r = p
      BY <2>2, <2>4, <3>1 DEF TypeOK
    <3> QED
      BY <1>2, <3>1, <3>2, LocalsStep DEF PathOK, KindOK
  <2> QED
    BY <2>3, <2>4
<1>3. Tick \/ UNCHANGED vars => SetOK'
  BY DEF Tick, tables, locals, vars, SetOK
<1> QED
  BY <1>1, <1>2, <1>3 DEF Next, Quiescent, Acts

LEMMA KeptNext == ASSUME PasswordInv, [Next]_vars PROVE KeptOK'
<1> USE DEF PasswordInv, LifeInv, BoreInv, IInv0
<1>1. ASSUME NEW p \in Req, Begin(p) PROVE KeptOK'
  <2>1. /\ UNCHANGED <<password, live, who>> /\ pc'[p] # "ok" /\ pc[p] = "idle"
        /\ \A q \in Req \ {p} : op'[q] = op[q] /\ pc'[q] = pc[q] /\ earlier'[q] = earlier[q]
    BY <1>1, BeginFrame DEF tables
  <2> QED
    BY <2>1 DEF KeptOK
<1>2. ASSUME NEW p \in Req, Acts(p) PROVE KeptOK'
  <2>1. /\ UNCHANGED <<op, earlier>> /\ op[p] # None /\ Under(p) /\ pc'[p] # "idle"
        /\ \A q \in Req \ {p} : pc'[q] = pc[q] /\ who'[q] = who[q]
    BY <1>2, StepFrame, LocalsStep
  <2>2. SUFFICES ASSUME NEW r \in Req, pc'[r] = "ok", op[r].kind = "password",
                        who'[r] \in live', password'[who'[r]] # r
                 PROVE  \E q \in Req \ ({r} \cup earlier[r]) : pc'[q] # "idle" /\ op[q].kind = "password"
    BY <2>1 DEF KeptOK
  <2>3. CASE r = p
    <3>1. pc[p] = "write"
      BY <1>2, <2>2, <2>3, LabelStep, AfterUserFacts DEF PathOK, KindOK
    <3>2. who'[p] = who[p] /\ who[p] \in UserId
      BY <1>2, <3>1, LocalsStep DEF PathOK, FoundOK, Onward
    <3>3. who[p] \in live
      <4>1. SUFFICES ASSUME who[p] \notin live PROVE FALSE
        OBVIOUS
      <4>2. pc[p] = "insert"
        BY <1>2, <2>2, <2>3, <3>2, <4>1, ReturnStep
      <4> QED
        BY <3>1, <4>2
    <3>4. password' = [password EXCEPT ![who[p]] = p]
      BY <1>2, <2>2, <2>3, <3>1, <3>3, PasswordStep
    <3> QED
      BY <2>2, <2>3, <3>2, <3>4 DEF TypeOK
  <2>4. CASE r # p
    <3>1. pc[r] = "ok" /\ who'[r] = who[r]
      BY <2>1, <2>2, <2>4
    <3>2. who[r] \in live
      <4>1. SUFFICES ASSUME who[r] \notin live PROVE FALSE
        OBVIOUS
      <4>2. who[r] = p /\ pc[p] = "insert"
        BY <1>2, <2>2, <3>1, <4>1, ReturnStep
      <4> QED
        BY <2>2, <3>1, <4>2 DEF LivesOK, Fresh
    <3>3. CASE password[who[r]] # r
      <4>1. PICK q \in Req \ ({r} \cup earlier[r]) : pc[q] # "idle" /\ op[q].kind = "password"
        BY <2>2, <3>1, <3>2, <3>3 DEF KeptOK
      <4> QED
        BY <2>1, <4>1
    <3>4. CASE password[who[r]] = r
      <4>1. pc[p] = "write"
        BY <1>2, <2>2, <3>1, <3>4, PasswordStep
      <4>2. op[p].kind = "password" /\ p \notin earlier[r]
        BY <2>1, <4>1 DEF PathOK, KindOK, EarlierOK, Under
      <4> QED
        BY <2>1, <2>4, <4>2
    <3> QED
      BY <3>3, <3>4
  <2> QED
    BY <2>3, <2>4
<1>3. Tick \/ UNCHANGED vars => KeptOK'
  BY DEF Tick, tables, locals, vars, KeptOK
<1> QED
  BY <1>1, <1>2, <1>3 DEF Next, Quiescent, Acts

\* A password reported as set is that of a user who bore the email, and of nobody
\* else, until another command that was not over before sets one.
THEOREM PasswordsAreTheirs == Spec => []PasswordIsTheNamedUsers
<1>1. Init => PasswordInv
  <2> SUFFICES ASSUME Init PROVE PasswordInv
    OBVIOUS
  <2>1. \A u \in UserId : password[u] \notin Req
    BY CommandsAssumption DEF Init, UserId
  <2> QED
    BY <2>1, LifeInit DEF PasswordInv, SetOK, KeptOK, Init
<1>2. PasswordInv /\ [Next]_vars => PasswordInv'
  BY LifeNext, SetNext, KeptNext DEF PasswordInv
<1>3. PasswordInv => PasswordIsTheNamedUsers
  BY DEF PasswordInv, LifeInv, BoreInv, BoreOK, Personal, SetOK, KeptOK, PasswordIsTheNamedUsers
<1> QED
  BY <1>1, <1>2, <1>3, PTL DEF Spec
=============================================================================

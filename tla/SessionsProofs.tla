--------------------------- MODULE SessionsProofs ---------------------------
(* Proofs about Sessions for any number of requests, namespaces and users, *)
(* any lifetime of a token and any bound of the clock.                     *)
EXTENDS Sessions, TLAPS

-----------------------------------------------------------------------------
(* What the label of a request says of its kind, its user and its token.   *)

\* Every request under way was asked for by the constants' operations.
OpsOK == \A r \in Req : op[r] \in Ops \cup {None}

PathOK ==
    \A r \in Req :
        /\ pc[r] = "idle" => minted[r] = None
        /\ pc[r] = "gate" => op[r].kind \in AdminKind \cup {"refresh", "me", "console"}
                             /\ op[r].token # None
        /\ pc[r] = "find" => op[r].kind \in {"login", "refresh", "me", "page"}
        /\ pc[r] = "groups" => op[r].kind \in {"login", "refresh", "me", "page"}
        /\ pc[r] = "sign" => op[r].kind \in {"login", "refresh"}
        /\ pc[r] = "org" => op[r].kind \in {"assign", "remove", "erase"} /\ op[r].token # None
        /\ pc[r] = "act" => op[r].kind \in AdminKind
        /\ minted[r] # None => pc[r] = "ok" /\ op[r].kind \in {"login", "refresh"}

\* A request past its arrival acts for a user, and one that bears a token for the
\* user the token was minted for.
BearerOK ==
    \A r \in Req :
        /\ pc[r] \in {"gate", "find", "groups", "sign", "org"} => who[r] \in User
        /\ pc[r] = "act" /\ op[r].token # None => who[r] \in User
        /\ minted[r] # None => who[r] \in User
        /\ pc[r] \in {"gate", "find", "groups", "sign", "org", "act", "ok"} /\ op[r].token # None =>
              minted[op[r].token] # None /\ who[r] = who[op[r].token]

LEMMA OpFacts ==
    ASSUME OpsOK, NEW r \in Req, op[r] # None
    PROVE  /\ op[r] \in Ops /\ op[r] \in Op /\ op[r].kind \in Kind
           /\ op[r].kind = "login" => op[r].user \in User /\ op[r].token = None
           /\ op[r].kind \in {"refresh", "me", "page", "console", "drop"} => op[r].token \in Req
           /\ op[r].token \in Req \cup {None}
           /\ op[r].kind \in AdminKind => op[r].org \in Namespace
           /\ op[r].kind \in {"assign", "remove", "erase"} => op[r].id \in Id
           /\ op[r].kind \in {"assign", "remove"} => op[r].group \in Group
BY SessionOpsAssumption DEF OpsOK, Op

-----------------------------------------------------------------------------
(* Type correctness. *)

LEMMA CommitType ==
    ASSUME TypeOK, NEW users \in SUBSET User, NEW rows \in SUBSET Member, Commit(users, rows)
    PROVE  /\ live' \subseteq User /\ members' \subseteq Member
           /\ held' \in [Req -> SUBSET SUBSET Group]
           /\ lost' \in [User -> [Group -> Time \cup {None}]]
<1>1. \A u : GroupsOf(u, rows) \subseteq Group
  BY DEF GroupsOf, Member
<1>2. held' \in [Req -> SUBSET SUBSET Group]
  <2>1. \A r \in Req : held[r] \cup {GroupsOf(who[r], rows)} \in SUBSET SUBSET Group
    BY <1>1 DEF TypeOK
  <2> QED
    BY <2>1 DEF Commit, TypeOK
<1>3. lost' \in [User -> [Group -> Time \cup {None}]]
  BY DEF Commit, TypeOK
<1> QED
  BY <1>2, <1>3 DEF Commit

LEMMA TypeInit == Init => TypeOK
BY SessionsAssumption DEF Init, TypeOK, PC, Answered, Time, Member, User

\* The steps that only read the database.
LEMMA TypeRead ==
    ASSUME TypeOK, OpsOK, PathOK, NEW r \in Req,
           Gate(r) \/ ResolveNamespace(r) \/ FindForLogin(r) \/ FindForRefresh(r)
           \/ FindByToken(r) \/ ReadGroups(r) \/ Sign(r) \/ Fail(r)
    PROVE  TypeOK'
<1> USE DEF Goto, database
<1>1. CASE Gate(r)
  <2>1. op[r] # None /\ op[r].kind \in AdminKind \cup {"refresh", "me", "console"}
    BY <1>1 DEF Gate, TypeOK, PathOK
  <2>2. AfterGate[op[r].kind] \in PC \ {"idle"}
    BY <2>1 DEF AfterGate, AdminKind, PC, Answered
  <2> QED
    BY <1>1, <2>1, <2>2 DEF Gate, TypeOK, PC, Answered
<1>2. CASE ResolveNamespace(r)
  BY <1>2 DEF ResolveNamespace, TypeOK, PC, Answered
<1>3. CASE FindForLogin(r)
  BY <1>3 DEF FindForLogin, TypeOK, PC, Answered
<1>4. CASE FindForRefresh(r)
  BY <1>4 DEF FindForRefresh, TypeOK, PC, Answered
<1>5. CASE FindByToken(r)
  BY <1>5 DEF FindByToken, TypeOK, PC, Answered, Refusal
<1>6. CASE ReadGroups(r)
  <2>1. GroupsOf(who[r], members) \in SUBSET Group
    BY DEF GroupsOf, Member, TypeOK
  <2> QED
    BY <1>6, <2>1 DEF ReadGroups, TypeOK, PC, Answered
<1>7. CASE Sign(r)
  BY <1>7 DEF Sign, TypeOK, PC, Answered
<1>8. CASE Fail(r)
  BY <1>8 DEF Fail, TypeOK, PC, Answered
<1> QED
  BY <1>1, <1>2, <1>3, <1>4, <1>5, <1>6, <1>7, <1>8

LEMMA TypeArrive ==
    ASSUME TypeOK, NEW r \in Req, Arrive(r)
    PROVE  TypeOK'
<1> PICK o \in Ops :
        LET u == IF o.token = None THEN o.user ELSE who[o.token] IN
        /\ op' = [op EXCEPT ![r] = o]
        /\ who' = [who EXCEPT ![r] = u]
        /\ Goto(r, IF o.token # None /\ minted[o.token] = None THEN Refusal(o) ELSE FirstLabel(o))
        /\ held' = [held EXCEPT ![r] = IF u \in live THEN {GroupsOf(u, members)} ELSE {}]
  BY DEF Arrive
<1> DEFINE u == IF o.token = None THEN o.user ELSE who[o.token]
<1>1. o \in Op
  BY SessionOpsAssumption
<1>2. u \in User \cup {None}
  BY <1>1 DEF TypeOK, Op
<1>3. Refusal(o) \in PC \ {"idle"} /\ FirstLabel(o) \in PC \ {"idle"}
  BY DEF Refusal, FirstLabel, PC, Answered
<1>4. GroupsOf(u, members) \in SUBSET Group
  BY DEF GroupsOf, Member, TypeOK
<1>5. op' \in [Req -> Op \cup {None}] /\ who' \in [Req -> User \cup {None}] /\ pc' \in [Req -> PC]
  BY <1>1, <1>2, <1>3 DEF TypeOK, Goto
<1>6. held' \in [Req -> SUBSET SUBSET Group]
  BY <1>4 DEF TypeOK
<1>7. \A q \in Req : pc'[q] # "idle" => op'[q] # None
  <2>1. o # None
    BY SessionOpsAssumption
  <2> QED
    BY <2>1 DEF TypeOK, Goto
<1> QED
  BY <1>5, <1>6, <1>7 DEF Arrive, TypeOK, database

\* The steps that write the database: rows go on referring to rows that exist.
LEMMA TypeWrite ==
    ASSUME TypeOK, OpsOK, PathOK, BearerOK, NEW r \in Req,
           Assign(r) \/ Remove(r) \/ Erase(r) \/ Drop(r)
    PROVE  TypeOK'
<1>1. /\ op[r] # None /\ pc[r] = "act"
      /\ pc' \in [Req -> PC] /\ \A q \in Req : pc'[q] # "idle" => op[q] # None
      /\ UNCHANGED <<clock, op, who, groups, minted>>
  BY DEF TypeOK, Assign, Remove, Erase, Drop, Goto, PC, Answered
<1>2. op[r].kind # "drop" /\ op[r].kind \in AdminKind => Target(r) \in User
  BY <1>1, OpFacts DEF Target, User, AdminKind
<1>3. CASE Assign(r)
  <2> DEFINE row == [user |-> Target(r), group |-> op[r].group, by |-> AssignedBy(r)]
  <2>1. CASE live' = live /\ members' = members /\ held' = held /\ lost' = lost
    BY <1>1, <1>3, <2>1 DEF Assign, TypeOK
  <2>2. CASE /\ Commit(live, members \cup {row})
             /\ op[r].org \in orgs /\ Target(r) \in live
    <3>1. AssignedBy(r) \in Id \cup {None}
      BY <1>1 DEF AssignedBy, BearerOK, User
    <3>2. row \in Member /\ row.user \in live /\ row.user.ns \in orgs
      BY <1>1, <1>2, <1>3, <2>2, <3>1, OpFacts DEF Assign, Member, Target, TypeOK, AdminKind
    <3> HIDE DEF row
    <3>3. members \cup {row} \in SUBSET Member /\ live \in SUBSET User
      BY <3>2 DEF TypeOK
    <3>4. held' \in [Req -> SUBSET SUBSET Group] /\ lost' \in [User -> [Group -> Time \cup {None}]]
      BY <2>2, <3>3, CommitType
    <3>5. members' = members \cup {row} /\ live' = live
      BY <2>2 DEF Commit
    <3> QED
      BY <1>1, <1>3, <3>2, <3>3, <3>4, <3>5 DEF Assign, TypeOK
  <2> QED
    BY <1>3, <2>1, <2>2 DEF Assign
<1>4. CASE Remove(r)
  <2> DEFINE rows == {m \in members : m.user # Target(r) \/ m.group # op[r].group}
  <2>1. rows \in SUBSET Member /\ live \in SUBSET User
    BY DEF TypeOK
  <2>2. Commit(live, rows)
    BY <1>4 DEF Remove
  <2>3. held' \in [Req -> SUBSET SUBSET Group] /\ lost' \in [User -> [Group -> Time \cup {None}]]
    BY <2>1, <2>2, CommitType
  <2>4. members' = rows /\ live' = live /\ orgs' = orgs
    BY <1>4, <2>2 DEF Remove, Commit
  <2> QED
    BY <1>1, <2>3, <2>4 DEF TypeOK
<1>5. CASE Erase(r)
  <2> DEFINE rest == {m \in members : m.user # Target(r)}
  <2>1. CASE live' = live /\ members' = members /\ held' = held /\ lost' = lost
    BY <1>1, <1>5, <2>1 DEF Erase, TypeOK
  <2>2. CASE Commit(live \ {Target(r)}, rest)
    <3>1. rest \in SUBSET Member /\ live \ {Target(r)} \in SUBSET User
      BY DEF TypeOK
    <3>2. held' \in [Req -> SUBSET SUBSET Group] /\ lost' \in [User -> [Group -> Time \cup {None}]]
      BY <2>2, <3>1, CommitType
    <3>3. members' = rest /\ live' = live \ {Target(r)} /\ orgs' = orgs
      BY <1>5, <2>2 DEF Erase, Commit
    <3> QED
      BY <1>1, <3>2, <3>3 DEF TypeOK
  <2> QED
    BY <1>5, <2>1, <2>2 DEF Erase
<1>6. CASE Drop(r)
  <2> DEFINE rows == {m \in members : m.user.ns # op[r].org}
             left == {u \in live : u.ns # op[r].org}
  <2>1. rows \in SUBSET Member /\ left \in SUBSET User
    BY DEF TypeOK
  <2>2. Commit(left, rows)
    BY <1>6 DEF Drop
  <2>3. held' \in [Req -> SUBSET SUBSET Group] /\ lost' \in [User -> [Group -> Time \cup {None}]]
    BY <2>1, <2>2, CommitType
  <2>4. members' = rows /\ live' = left /\ orgs' = orgs \ {op[r].org}
    BY <1>6, <2>2 DEF Drop, Commit
  <2> QED
    BY <1>1, <2>3, <2>4 DEF TypeOK
<1> QED
  BY <1>3, <1>4, <1>5, <1>6

LEMMA TypeTick == TypeOK /\ Tick => TypeOK'
BY SessionsAssumption DEF Tick, TypeOK, Time, database

-----------------------------------------------------------------------------
(* The path of a request.                                                  *)

IInv0 == TypeOK /\ OpsOK /\ PathOK /\ BearerOK

\* What a step of r leaves alone of the other requests, and of its own form.
LEMMA StepFrame ==
    ASSUME TypeOK, PathOK, NEW r \in Req, Step(r) \/ Fail(r)
    PROVE  /\ op' = op /\ who' = who
           /\ \A q \in Req \ {r} : pc'[q] = pc[q] /\ minted'[q] = minted[q] /\ groups'[q] = groups[q]
           /\ pc[r] \notin Answered \cup {"idle"} /\ pc'[r] # "idle"
           /\ clock' = clock
<1> USE DEF Goto, TypeOK, Answered
<1>1. CASE Gate(r)
  BY <1>1 DEF Gate, AfterGate, AdminKind, PathOK
<1>2. CASE ResolveNamespace(r) \/ FindForLogin(r) \/ FindForRefresh(r) \/ FindByToken(r)
  BY <1>2 DEF ResolveNamespace, FindForLogin, FindForRefresh, FindByToken, Refusal
<1>3. CASE ReadGroups(r) \/ Sign(r) \/ Fail(r)
  BY <1>3 DEF ReadGroups, Sign, Fail
<1>4. CASE Assign(r) \/ Remove(r) \/ Erase(r) \/ Drop(r)
  BY <1>4 DEF Assign, Remove, Erase, Drop
<1> QED
  BY <1>1, <1>2, <1>3, <1>4 DEF Step

LEMMA PathStep ==
    ASSUME IInv0, NEW r \in Req, Step(r) \/ Fail(r)
    PROVE  OpsOK' /\ PathOK'
<1> USE DEF Goto, IInv0
<1>1. OpsOK'
  BY StepFrame DEF OpsOK
<1>2. op[r] # None /\ minted[r] = None
  BY StepFrame DEF TypeOK, PathOK, Answered
<1>3. ASSUME NEW q \in Req, q # r
      PROVE  /\ pc'[q] = pc[q] /\ minted'[q] = minted[q] /\ op'[q] = op[q]
  BY <1>3, StepFrame
<1>4. /\ minted'[r] # None => pc'[r] = "ok" /\ op[r].kind \in {"login", "refresh"}
      /\ pc'[r] \in {"find"} => op[r].kind \in {"login", "refresh", "me", "page"}
      /\ pc'[r] = "groups" => op[r].kind \in {"login", "refresh", "me", "page"}
      /\ pc'[r] = "sign" => op[r].kind \in {"login", "refresh"}
      /\ pc'[r] = "org" => op[r].kind \in {"assign", "remove", "erase"} /\ op[r].token # None
      /\ pc'[r] = "act" => op[r].kind \in AdminKind
      /\ pc'[r] # "gate"
  <2>1. CASE Gate(r)
    <3>1. op[r].kind \in AdminKind \cup {"refresh", "me", "console"} /\ op[r].token # None
      BY <2>1 DEF Gate, PathOK
    <3> QED
      BY <1>2, <2>1, <3>1 DEF Gate, AfterGate, AdminKind, TypeOK
  <2>2. CASE ResolveNamespace(r) \/ FindForLogin(r) \/ FindForRefresh(r) \/ FindByToken(r)
    BY <1>2, <2>2 DEF ResolveNamespace, FindForLogin, FindForRefresh, FindByToken, Refusal, PathOK,
                      AdminKind, TypeOK
  <2>3. CASE ReadGroups(r) \/ Sign(r) \/ Fail(r)
    BY <1>2, <2>3 DEF ReadGroups, Sign, Fail, PathOK, TypeOK
  <2>4. CASE Assign(r) \/ Remove(r) \/ Erase(r) \/ Drop(r)
    BY <1>2, <2>4 DEF Assign, Remove, Erase, Drop, TypeOK
  <2> QED
    BY <2>1, <2>2, <2>3, <2>4 DEF Step
<1>5. PathOK'
  BY <1>3, <1>4, StepFrame DEF PathOK
<1> QED
  BY <1>1, <1>5

LEMMA BearerStep ==
    ASSUME IInv0, NEW r \in Req, Step(r) \/ Fail(r)
    PROVE  BearerOK'
<1> USE DEF Goto, IInv0
<1>1. op[r] # None /\ minted[r] = None /\ pc[r] # "idle"
  BY StepFrame DEF TypeOK, PathOK, Answered
<1>2. \A q \in Req : minted[q] # None => minted'[q] # None
  BY <1>1, StepFrame
<1>3. \A q \in Req \ {r} : pc'[q] = pc[q] /\ minted'[q] = minted[q]
  BY StepFrame
<1>4. pc'[r] \in {"gate", "find", "groups", "sign", "org", "act", "ok"} =>
          pc[r] \in {"gate", "find", "groups", "sign", "org", "act"}
  BY <1>1, StepFrame DEF TypeOK, PC, Answered
<1>5. pc'[r] \in {"gate", "find", "groups", "sign", "org"} =>
          pc[r] \in {"gate", "find", "groups", "sign", "org"}
  <2>1. CASE Gate(r) \/ ResolveNamespace(r) \/ FindForLogin(r) \/ FindForRefresh(r)
             \/ FindByToken(r) \/ ReadGroups(r) \/ Sign(r)
    BY <2>1 DEF Gate, ResolveNamespace, FindForLogin, FindForRefresh, FindByToken, ReadGroups, Sign
  <2>2. CASE Assign(r) \/ Remove(r) \/ Erase(r) \/ Drop(r) \/ Fail(r)
    BY <2>2 DEF Assign, Remove, Erase, Drop, Fail, TypeOK
  <2> QED
    BY <2>1, <2>2 DEF Step
<1>6. minted'[r] # None => pc[r] = "sign"
  BY <1>1 DEF Step, Gate, ResolveNamespace, FindForLogin, FindForRefresh, FindByToken, ReadGroups,
              Sign, Assign, Remove, Erase, Drop, Fail
<1>7. pc'[r] = "act" /\ op[r].token # None => pc[r] \in {"gate", "org"}
  <2>1. CASE Gate(r) \/ ResolveNamespace(r)
    BY <2>1 DEF Gate, ResolveNamespace
  <2>2. CASE FindForLogin(r) \/ FindForRefresh(r) \/ FindByToken(r) \/ ReadGroups(r) \/ Sign(r)
    BY <2>2 DEF FindForLogin, FindForRefresh, FindByToken, ReadGroups, Sign, Refusal, TypeOK
  <2>3. CASE Assign(r) \/ Remove(r) \/ Erase(r) \/ Drop(r) \/ Fail(r)
    BY <2>3 DEF Assign, Remove, Erase, Drop, Fail, TypeOK
  <2> QED
    BY <2>1, <2>2, <2>3 DEF Step
<1>8. \A q \in Req : pc[q] # "idle" => op[q].token \in Req \cup {None}
  BY OpFacts DEF TypeOK
<1>9. op' = op /\ who' = who
  BY StepFrame
<1>10. \A q \in Req : pc'[q] \in {"gate", "find", "groups", "sign", "org"} => who'[q] \in User
  BY <1>3, <1>5, <1>9 DEF BearerOK
<1>11. \A q \in Req : pc'[q] = "act" /\ op'[q].token # None => who'[q] \in User
  BY <1>3, <1>7, <1>9 DEF BearerOK
<1>12. \A q \in Req : minted'[q] # None => who'[q] \in User
  BY <1>3, <1>6, <1>9 DEF BearerOK
<1>13. ASSUME NEW q \in Req, op'[q].token # None,
              pc'[q] \in {"gate", "find", "groups", "sign", "org", "act", "ok"}
       PROVE  minted'[op'[q].token] # None /\ who'[q] = who'[op'[q].token]
  <2>1. pc[q] \in {"gate", "find", "groups", "sign", "org", "act", "ok"}
    BY <1>3, <1>4, <1>13
  <2>2. op[q].token \in Req
    BY <1>8, <1>9, <1>13, <2>1
  <2> QED
    BY <1>2, <1>9, <1>13, <2>1, <2>2 DEF BearerOK
<1> QED
  BY <1>10, <1>11, <1>12, <1>13 DEF BearerOK

\* What an arrival does, with the operation o that it brings.
LEMMA ArriveFacts ==
    ASSUME IInv0, NEW r \in Req, Arrive(r)
    PROVE  \E o \in Ops :
              LET u == IF o.token = None THEN o.user ELSE who[o.token] IN
              /\ o \in Op /\ o # None /\ pc[r] = "idle" /\ minted[r] = None
              /\ op' = [op EXCEPT ![r] = o] /\ who' = [who EXCEPT ![r] = u]
              /\ pc' \in [Req -> PC] /\ \A q \in Req \ {r} : pc'[q] = pc[q]
              /\ held' = [held EXCEPT ![r] = IF u \in live THEN {GroupsOf(u, members)} ELSE {}]
              /\ \/ o.token # None /\ minted[o.token] = None /\ pc'[r] \in {"err", "login"}
                 \/ o.token = None /\ o.kind = "login" /\ pc'[r] = "find" /\ u \in User
                 \/ o.token = None /\ o.kind \in AdminKind /\ pc'[r] = "act"
                 \/ /\ o.token \in Req /\ minted[o.token] # None /\ o.token # r
                    /\ \/ o.kind = "page" /\ pc'[r] = "find"
                       \/ o.kind \in AdminKind \cup {"refresh", "me", "console"} /\ pc'[r] = "gate"
<1> PICK o \in Ops :
        LET u == IF o.token = None THEN o.user ELSE who[o.token] IN
        /\ op' = [op EXCEPT ![r] = o]
        /\ who' = [who EXCEPT ![r] = u]
        /\ Goto(r, IF o.token # None /\ minted[o.token] = None THEN Refusal(o) ELSE FirstLabel(o))
        /\ held' = [held EXCEPT ![r] = IF u \in live THEN {GroupsOf(u, members)} ELSE {}]
  BY DEF Arrive
<1>1. /\ o \in Op /\ o # None /\ o.kind \in Kind /\ o.token \in Req \cup {None}
      /\ o.kind = "login" => o.token = None /\ o.user \in User
      /\ o.kind \in {"refresh", "me", "page", "console", "drop"} => o.token # None
  BY SessionOpsAssumption, SessionsAssumption DEF Op
<1>2. pc[r] = "idle" /\ minted[r] = None
  BY DEF Arrive, IInv0, PathOK
<1>3. CASE o.token # None /\ minted[o.token] = None
  BY <1>1, <1>2, <1>3, TypeArrive DEF IInv0, TypeOK, Goto, Refusal
<1>4. CASE o.token = None
  <2>1. \/ o.kind = "login" /\ FirstLabel(o) = "find"
        \/ o.kind \in AdminKind /\ FirstLabel(o) = "act"
    BY <1>1, <1>4 DEF FirstLabel, Kind, AdminKind
  <2> QED
    BY <1>1, <1>2, <1>4, <2>1, TypeArrive DEF IInv0, TypeOK, Goto
<1>5. CASE o.token # None /\ minted[o.token] # None
  <2>1. \/ o.kind = "page" /\ FirstLabel(o) = "find"
        \/ o.kind \in AdminKind \cup {"refresh", "me", "console"} /\ FirstLabel(o) = "gate"
    BY <1>1, <1>5 DEF FirstLabel, Kind, AdminKind
  <2> QED
    BY <1>1, <1>2, <1>5, <2>1, TypeArrive DEF IInv0, TypeOK, Goto
<1> QED
  BY <1>3, <1>4, <1>5

LEMMA PathArrive ==
    ASSUME IInv0, NEW r \in Req, Arrive(r)
    PROVE  OpsOK' /\ PathOK' /\ BearerOK'
<1> PICK o \in Ops :
      LET u == IF o.token = None THEN o.user ELSE who[o.token] IN
      /\ o \in Op /\ o # None /\ pc[r] = "idle" /\ minted[r] = None
      /\ op' = [op EXCEPT ![r] = o] /\ who' = [who EXCEPT ![r] = u]
      /\ pc' \in [Req -> PC] /\ \A q \in Req \ {r} : pc'[q] = pc[q]
      /\ \/ o.token # None /\ minted[o.token] = None /\ pc'[r] \in {"err", "login"}
         \/ o.token = None /\ o.kind = "login" /\ pc'[r] = "find" /\ u \in User
         \/ o.token = None /\ o.kind \in AdminKind /\ pc'[r] = "act"
         \/ /\ o.token \in Req /\ minted[o.token] # None /\ o.token # r
            /\ \/ o.kind = "page" /\ pc'[r] = "find"
               \/ o.kind \in AdminKind \cup {"refresh", "me", "console"} /\ pc'[r] = "gate"
  BY ArriveFacts
<1> DEFINE u == IF o.token = None THEN o.user ELSE who[o.token]
<1>0. minted' = minted
  BY DEF Arrive
<1>1. op'[r] = o /\ who'[r] = u /\ \A q \in Req \ {r} : op'[q] = op[q] /\ who'[q] = who[q]
  BY DEF IInv0, TypeOK
<1>2. OpsOK'
  BY <1>1 DEF IInv0, OpsOK
<1>3. PathOK'
  BY <1>0, <1>1, SessionsAssumption DEF IInv0, PathOK
<1>4. BearerOK'
  <2>1. ASSUME NEW q \in Req, op'[q].token # None,
               pc'[q] \in {"gate", "find", "groups", "sign", "org", "act", "ok"}
        PROVE  minted'[op'[q].token] # None /\ who'[q] = who'[op'[q].token]
    <3>1. CASE q = r
      BY <1>0, <1>1, <2>1, <3>1
    <3>2. CASE q # r
      <4>1. minted[op[q].token] # None /\ who[q] = who[op[q].token]
        BY <1>1, <2>1, <3>2 DEF IInv0, BearerOK
      <4>2. op[q].token \in Req
        BY <1>1, <2>1, <3>2, OpFacts DEF IInv0, TypeOK
      <4>3. op[q].token # r
        BY <4>1
      <4> QED
        BY <1>0, <1>1, <3>2, <4>1, <4>2, <4>3
    <3> QED
      BY <3>1, <3>2
  <2>2. pc'[r] \in {"gate", "find"} => u \in User
    BY SessionsAssumption DEF IInv0, BearerOK
  <2>3. \A q \in Req :
           /\ pc'[q] \in {"gate", "find", "groups", "sign", "org"} => who'[q] \in User
           /\ pc'[q] = "act" /\ op'[q].token # None => who'[q] \in User
           /\ minted'[q] # None => who'[q] \in User
    BY <1>0, <1>1, <2>2 DEF IInv0, BearerOK
  <2> QED
    BY <2>1, <2>3 DEF BearerOK
<1> QED
  BY <1>2, <1>3, <1>4

LEMMA IInv0Init == Init => IInv0
<1> SUFFICES ASSUME Init PROVE IInv0
  OBVIOUS
<1>1. TypeOK
  BY TypeInit
<1>2. OpsOK /\ PathOK /\ BearerOK
  BY DEF Init, OpsOK, PathOK, BearerOK
<1> QED
  BY <1>1, <1>2 DEF IInv0

LEMMA IInv0Next == IInv0 /\ [Next]_vars => IInv0'
<1> SUFFICES ASSUME IInv0, [Next]_vars PROVE IInv0'
  OBVIOUS
<1>1. ASSUME NEW r \in Req, Arrive(r) PROVE IInv0'
  BY <1>1, TypeArrive, PathArrive DEF IInv0
<1>2. ASSUME NEW r \in Req, Step(r) \/ Fail(r) PROVE IInv0'
  <2>1. TypeOK'
    BY <1>2, TypeRead, TypeWrite DEF IInv0, Step
  <2> QED
    BY <1>2, <2>1, PathStep, BearerStep DEF IInv0
<1>3. CASE Tick
  BY <1>3, TypeTick DEF IInv0, Tick, OpsOK, PathOK, BearerOK, database
<1>4. CASE UNCHANGED vars
  BY <1>4 DEF IInv0, vars, TypeOK, OpsOK, PathOK, BearerOK, GroupsOf
<1> QED
  BY <1>1, <1>2, <1>3, <1>4 DEF Next, Quiescent

\* Every variable keeps its type, and the rows of user_groups refer to users and
\* organizations that exist, whatever is deleted while requests are under way.
THEOREM TypeCorrect == Spec => []TypeOK
<1>1. IInv0 => TypeOK
  BY DEF IInv0
<1> QED
  BY <1>1, IInv0Init, IInv0Next, PTL DEF Spec

-----------------------------------------------------------------------------
(* What a commit does to the histories.                                    *)

InFlight(r) == pc[r] \notin Answered \cup {"idle"}

\* Whatever its user has now is among what it has had since it arrived.
HeldOK == \A r \in Req : InFlight(r) /\ who[r] \in live => GroupsOf(who[r], members) \in held[r]

\* The groups read are groups held, or none if the user was gone by then.
ReadOK ==
    \A r \in Req :
        /\ pc[r] = "groups" => held[r] # {}
        /\ pc[r] = "sign" \/ (pc[r] = "ok" /\ op[r].kind \in {"login", "refresh", "me", "page"}) =>
              held[r] # {} /\ groups[r] \in held[r] \cup {{}}

\* A group that a user has is not lost, nor is one about to be signed, and a
\* token that claims a lost group was minted before the loss.
LostOK ==
    /\ \A u \in User, g \in Group : g \in GroupsOf(u, members) => lost[u][g] = None
    /\ \A r \in Req, g \in Group : pc[r] = "sign" /\ g \in groups[r] => lost[who[r]][g] = None
    /\ \A r \in Req : minted[r] # None => minted[r] <= clock
    /\ \A r \in Req, g \in Group :
          minted[r] # None /\ g \in groups[r] /\ lost[who[r]][g] # None => minted[r] <= lost[who[r]][g]

HistoryOK == HeldOK /\ ReadOK /\ LostOK

LEMMA CommitHeld ==
    ASSUME TypeOK, NEW users, NEW rows, Commit(users, rows), NEW r \in Req
    PROVE  /\ held[r] \subseteq held'[r]
           /\ InFlight(r) /\ who[r] \in users => GroupsOf(who[r], rows) \in held'[r]
BY DEF TypeOK, Commit, InFlight

LEMMA CommitLost ==
    ASSUME TypeOK, NEW users, NEW rows, Commit(users, rows), NEW u \in User, NEW g \in Group
    PROVE  /\ g \in GroupsOf(u, rows) => lost'[u][g] = None
           /\ g \in GroupsOf(u, members) /\ Signing(u) => lost'[u][g] = None
           /\ lost'[u][g] \in {None, clock, lost[u][g]}
           /\ g \notin GroupsOf(u, members) => lost'[u][g] \in {None, lost[u][g]}
BY DEF Commit

\* A step commits, or it leaves the database and the histories alone.
LEMMA StepEffect ==
    ASSUME IInv0, NEW r \in Req, Step(r) \/ Fail(r)
    PROVE  \/ UNCHANGED <<live, members, held, lost>>
           \/ /\ pc[r] = "act" /\ pc'[r] \in {"ok", "err"} /\ UNCHANGED <<groups, minted>>
              /\ Commit(live', members')
<1> USE DEF Goto, database, IInv0, TypeOK
<1>1. CASE Gate(r) \/ ResolveNamespace(r) \/ FindForLogin(r) \/ FindForRefresh(r)
           \/ FindByToken(r) \/ ReadGroups(r) \/ Sign(r) \/ Fail(r)
  BY <1>1 DEF Gate, ResolveNamespace, FindForLogin, FindForRefresh, FindByToken, ReadGroups, Sign, Fail
<1>2. CASE Assign(r)
  <2> DEFINE row == [user |-> Target(r), group |-> op[r].group, by |-> AssignedBy(r)]
  <2>1. CASE UNCHANGED <<live, members, held, lost>>
    BY <2>1
  <2>2. CASE Commit(live, members \cup {row})
    <3>1. live' = live /\ members' = members \cup {row}
      BY <2>2 DEF Commit
    <3> QED
      BY <1>2, <2>2, <3>1 DEF Assign
  <2> QED
    BY <1>2, <2>1, <2>2 DEF Assign
<1>3. CASE Remove(r)
  <2> DEFINE rows == {m \in members : m.user # Target(r) \/ m.group # op[r].group}
  <2>1. Commit(live, rows) /\ live' = live /\ members' = rows
    BY <1>3 DEF Remove, Commit
  <2> QED
    BY <1>3, <2>1 DEF Remove
<1>4. CASE Erase(r)
  <2> DEFINE rest == {m \in members : m.user # Target(r)}
  <2>1. CASE UNCHANGED <<live, members, held, lost>>
    BY <2>1
  <2>2. CASE Commit(live \ {Target(r)}, rest)
    <3>1. live' = live \ {Target(r)} /\ members' = rest
      BY <2>2 DEF Commit
    <3> QED
      BY <1>4, <2>2, <3>1 DEF Erase
  <2> QED
    BY <1>4, <2>1, <2>2 DEF Erase
<1>5. CASE Drop(r)
  <2> DEFINE rows == {m \in members : m.user.ns # op[r].org}
             left == {u \in live : u.ns # op[r].org}
  <2>1. Commit(left, rows) /\ live' = left /\ members' = rows
    BY <1>5 DEF Drop, Commit
  <2> QED
    BY <1>5, <2>1 DEF Drop
<1> QED
  BY <1>1, <1>2, <1>3, <1>4, <1>5 DEF Step

LEMMA HistoryInit == Init => HistoryOK
BY DEF Init, HistoryOK, HeldOK, ReadOK, LostOK, InFlight, Answered

LEMMA HistoryArrive ==
    ASSUME IInv0, HistoryOK, NEW r \in Req, Arrive(r)
    PROVE  HistoryOK'
<1> PICK o \in Ops :
      LET u == IF o.token = None THEN o.user ELSE who[o.token] IN
      /\ pc[r] = "idle" /\ minted[r] = None
      /\ op' = [op EXCEPT ![r] = o] /\ who' = [who EXCEPT ![r] = u]
      /\ \A q \in Req \ {r} : pc'[q] = pc[q]
      /\ held' = [held EXCEPT ![r] = IF u \in live THEN {GroupsOf(u, members)} ELSE {}]
      /\ pc'[r] \in {"err", "login", "find", "act", "gate"}
  BY ArriveFacts
<1> DEFINE u == IF o.token = None THEN o.user ELSE who[o.token]
<1>1. /\ op'[r] = o /\ who'[r] = u
      /\ \A q \in Req \ {r} : op'[q] = op[q] /\ who'[q] = who[q] /\ held'[q] = held[q]
      /\ u \in live => held'[r] = {GroupsOf(u, members)}
  BY DEF IInv0, TypeOK
<1>2. UNCHANGED <<clock, live, members, groups, minted, lost>>
  BY DEF Arrive, database
<1> HIDE DEF u
<1>3. HeldOK'
  <2>2. ASSUME NEW q \in Req, InFlight(q)', who'[q] \in live
        PROVE  GroupsOf(who'[q], members) \in held'[q]
    <3>1. CASE q = r
      BY <1>1, <2>2, <3>1
    <3>2. CASE q # r
      BY <1>1, <2>2, <3>2 DEF HistoryOK, HeldOK, InFlight
    <3> QED
      BY <3>1, <3>2
  <2>3. \A q \in Req : GroupsOf(who[q], members)' = GroupsOf(who'[q], members)
    BY <1>2 DEF GroupsOf
  <2> QED
    BY <1>2, <2>2, <2>3 DEF HeldOK
<1>4. ReadOK'
  BY <1>1, <1>2 DEF HistoryOK, ReadOK
<1>5. LostOK'
  BY <1>1, <1>2 DEF HistoryOK, LostOK, GroupsOf
<1> QED
  BY <1>3, <1>4, <1>5 DEF HistoryOK

\* A step that commits nothing.
LEMMA HistoryRead ==
    ASSUME IInv0, HistoryOK, NEW r \in Req, Step(r) \/ Fail(r), UNCHANGED <<live, members, held, lost>>
    PROVE  HistoryOK'
<1>1. /\ op' = op /\ who' = who /\ clock' = clock /\ InFlight(r) /\ pc'[r] # "idle" /\ minted[r] = None
      /\ \A q \in Req \ {r} : pc'[q] = pc[q] /\ minted'[q] = minted[q] /\ groups'[q] = groups[q]
  BY StepFrame DEF IInv0, InFlight, PathOK, Answered
<1>2. HeldOK'
  BY <1>1 DEF HistoryOK, HeldOK, InFlight, GroupsOf
<1>3. pc'[r] = "groups" => held[r] # {}
  <2>1. pc'[r] = "groups" => who[r] \in live
    BY <1>1 DEF Step, Gate, AfterGate, ResolveNamespace, FindForLogin, FindForRefresh, FindByToken,
                ReadGroups, Sign, Assign, Remove, Erase, Drop, Fail, Goto, Refusal, IInv0, TypeOK,
                PathOK, AdminKind
  <2> QED
    BY <1>1, <2>1 DEF HistoryOK, HeldOK
<1>4. ASSUME pc'[r] = "sign" \/ (pc'[r] = "ok" /\ op[r].kind \in {"login", "refresh", "me", "page"})
      PROVE  held[r] # {} /\ groups'[r] \in held[r] \cup {{}}
  <2>1. \/ pc[r] = "sign" /\ groups'[r] = groups[r]
        \/ pc[r] = "groups" /\ groups'[r] = GroupsOf(who[r], members)
    BY <1>1, <1>4 DEF Step, Gate, AfterGate, ResolveNamespace, FindForLogin, FindForRefresh,
                FindByToken, ReadGroups, Sign, Assign, Remove, Erase, Drop, Fail, Goto, Refusal,
                IInv0, TypeOK, PathOK, AdminKind
  <2>2. CASE pc[r] = "sign" /\ groups'[r] = groups[r]
    BY <2>2 DEF HistoryOK, ReadOK
  <2>3. CASE pc[r] = "groups" /\ groups'[r] = GroupsOf(who[r], members)
    <3>1. who[r] \notin live => GroupsOf(who[r], members) = {}
      BY DEF IInv0, TypeOK, GroupsOf
    <3> QED
      BY <1>1, <2>3, <3>1 DEF HistoryOK, HeldOK, ReadOK
  <2> QED
    BY <2>1, <2>2, <2>3
<1>5. ReadOK'
  BY <1>1, <1>3, <1>4 DEF HistoryOK, ReadOK
<1>6. ASSUME NEW g \in Group, pc'[r] = "sign", g \in groups'[r]
      PROVE  lost[who[r]][g] = None
  <2>1. pc[r] = "groups" /\ groups'[r] = GroupsOf(who[r], members)
    BY <1>1, <1>6 DEF Step, Gate, AfterGate, ResolveNamespace, FindForLogin, FindForRefresh,
                FindByToken, ReadGroups, Sign, Assign, Remove, Erase, Drop, Fail, Goto, Refusal,
                IInv0, TypeOK, PathOK, AdminKind
  <2>2. who[r] \in User
    BY <2>1 DEF IInv0, BearerOK
  <2> QED
    BY <1>6, <2>1, <2>2 DEF HistoryOK, LostOK
<1>7. ASSUME NEW g \in Group, minted'[r] # None, g \in groups'[r]
      PROVE  lost[who[r]][g] = None
  <2>1. pc[r] = "sign" /\ groups'[r] = groups[r]
    BY <1>1, <1>7 DEF Step, Gate, ResolveNamespace, FindForLogin, FindForRefresh,
                FindByToken, ReadGroups, Sign, Assign, Remove, Erase, Drop, Fail
  <2> QED
    BY <1>7, <2>1 DEF HistoryOK, LostOK
<1>8. clock \in Nat /\ (minted'[r] # None => minted'[r] = clock)
  <2>1. clock \in Nat
    BY SessionsAssumption DEF IInv0, TypeOK, Time
  <2>2. minted'[r] # None => minted'[r] = clock
    BY <1>1 DEF Step, Gate, ResolveNamespace, FindForLogin, FindForRefresh, FindByToken, ReadGroups,
                Sign, Assign, Remove, Erase, Drop, Fail, IInv0, TypeOK
  <2> QED
    BY <2>1, <2>2
<1>9. LostOK'
  BY <1>1, <1>6, <1>7, <1>8 DEF HistoryOK, LostOK, GroupsOf
<1> QED
  BY <1>2, <1>5, <1>9 DEF HistoryOK

\* A step that commits.
LEMMA HistoryWrite ==
    ASSUME IInv0, HistoryOK, NEW r \in Req, Step(r) \/ Fail(r),
           pc[r] = "act", pc'[r] \in {"ok", "err"}, UNCHANGED <<groups, minted>>, Commit(live', members')
    PROVE  HistoryOK'
<1>1. /\ op' = op /\ who' = who /\ clock' = clock
      /\ \A q \in Req \ {r} : pc'[q] = pc[q]
  BY StepFrame DEF IInv0
<1>2. op[r] # None /\ op[r].kind \in AdminKind
  BY DEF IInv0, TypeOK, PathOK
<1>3. \A q \in Req : held[q] \subseteq held'[q]
  BY CommitHeld DEF IInv0
<1>4. HeldOK'
  <2>1. \A q \in Req : InFlight(q)' => InFlight(q)
    BY <1>1 DEF InFlight, Answered
  <2>2. \A q \in Req : InFlight(q) /\ who[q] \in live' => GroupsOf(who[q], members') \in held'[q]
    BY CommitHeld DEF IInv0
  <2>3. \A q \in Req : GroupsOf(who[q], members)' = GroupsOf(who[q], members')
    BY <1>1 DEF GroupsOf
  <2> QED
    BY <1>1, <2>1, <2>2, <2>3 DEF HeldOK
<1>5. ReadOK'
  BY <1>1, <1>2, <1>3 DEF HistoryOK, ReadOK, AdminKind
<1>6. \A u \in User, g \in Group : g \in GroupsOf(u, members)' => lost'[u][g] = None
  <2>1. \A u \in User, g \in Group : g \in GroupsOf(u, members') => lost'[u][g] = None
    BY CommitLost DEF IInv0
  <2> QED
    BY <2>1 DEF GroupsOf
<1>7. ASSUME NEW q \in Req, NEW g \in Group, pc'[q] = "sign", g \in groups'[q]
      PROVE  lost'[who'[q]][g] = None
  <2>1. pc[q] = "sign" /\ who[q] \in User /\ g \in groups[q] /\ Signing(who[q])
    BY <1>1, <1>7 DEF IInv0, BearerOK, Signing
  <2>2. lost[who[q]][g] = None
    BY <2>1 DEF HistoryOK, LostOK
  <2> QED
    BY <1>1, <2>1, <2>2, CommitLost DEF IInv0
<1>8. ASSUME NEW q \in Req, NEW g \in Group, minted'[q] # None, g \in groups'[q],
             lost'[who'[q]][g] # None
      PROVE  minted'[q] <= lost'[who'[q]][g]
  <2>1. /\ minted[q] # None /\ g \in groups[q] /\ who[q] \in User
        /\ minted[q] <= clock
    BY <1>8 DEF IInv0, BearerOK, HistoryOK, LostOK
  <2>2. lost'[who[q]][g] \in {None, clock, lost[who[q]][g]}
    BY <2>1, CommitLost DEF IInv0
  <2>3. CASE lost'[who[q]][g] = lost[who[q]][g]
    BY <1>1, <1>8, <2>1, <2>3 DEF HistoryOK, LostOK
  <2>4. CASE lost'[who[q]][g] = clock
    BY <1>1, <2>1, <2>4
  <2> QED
    BY <1>1, <1>8, <2>2, <2>3, <2>4
<1> QED
  BY <1>1, <1>4, <1>5, <1>6, <1>7, <1>8 DEF HistoryOK, LostOK

LEMMA HistoryTick ==
    ASSUME IInv0, HistoryOK, Tick
    PROVE  HistoryOK'
<1>1. UNCHANGED <<live, members, op, pc, who, groups, minted, held, lost>>
  BY DEF Tick, database
<1>2. HeldOK' /\ ReadOK'
  BY <1>1 DEF HistoryOK, HeldOK, ReadOK, InFlight, GroupsOf
<1>3. \A r \in Req : minted'[r] # None => minted'[r] <= clock'
  <2>1. clock \in Nat /\ clock' = clock + 1
    BY SessionsAssumption DEF Tick, IInv0, TypeOK, Time
  <2>2. \A r \in Req : minted[r] # None => minted[r] \in Nat
    BY SessionsAssumption DEF IInv0, TypeOK, Time
  <2> QED
    BY <1>1, <2>1, <2>2 DEF HistoryOK, LostOK
<1>4. LostOK'
  BY <1>1, <1>3 DEF HistoryOK, LostOK, GroupsOf
<1> QED
  BY <1>2, <1>4 DEF HistoryOK

LEMMA HistoryNext == IInv0 /\ HistoryOK /\ [Next]_vars => HistoryOK'
<1> SUFFICES ASSUME IInv0, HistoryOK, [Next]_vars PROVE HistoryOK'
  OBVIOUS
<1>1. ASSUME NEW r \in Req, Arrive(r) PROVE HistoryOK'
  BY <1>1, HistoryArrive
<1>2. ASSUME NEW r \in Req, Step(r) \/ Fail(r) PROVE HistoryOK'
  BY <1>2, StepEffect, HistoryRead, HistoryWrite
<1>3. CASE Tick
  BY <1>3, HistoryTick
<1>4. CASE UNCHANGED vars
  BY <1>4 DEF vars, HistoryOK, HeldOK, ReadOK, LostOK, InFlight, GroupsOf
<1> QED
  BY <1>1, <1>2, <1>3, <1>4 DEF Next, Quiescent

\* The groups that a token claims or a page shows are groups its user had while
\* the request ran: the claims of the token it came with play no part.
THEOREM ClaimsAreTrue == Spec => []ClaimsWereHeld
<1>1. HistoryOK => ClaimsWereHeld
  BY DEF HistoryOK, ReadOK, ClaimsWereHeld
<1> QED
  BY <1>1, IInv0Init, IInv0Next, HistoryInit, HistoryNext, PTL DEF Spec

-----------------------------------------------------------------------------
(* The gates.                                                              *)

\* What a token claims was held by its user while it was minted.
LEMMA ClaimedWasHeld ==
    ASSUME IInv0, HistoryOK, NEW r \in Req, op[r] # None, op[r].token # None,
           pc[r] \in {"gate", "org", "act"}, NEW g \in Claimed(r)
    PROVE  \E s \in held[op[r].token] : g \in s
<1> DEFINE t == op[r].token
<1>1. t \in Req /\ minted[t] # None
  BY OpFacts DEF IInv0, BearerOK
<1>2. pc[t] = "ok" /\ op[t].kind \in {"login", "refresh"}
  BY <1>1 DEF IInv0, PathOK
<1>3. groups[t] \in held[t] \cup {{}}
  BY <1>1, <1>2 DEF HistoryOK, ReadOK
<1> QED
  BY <1>3 DEF Claimed

LEMMA ConfinedNext ==
    ASSUME IInv0, HistoryOK, Confinement, [Next]_vars
    PROVE  Confinement'
<1> DEFINE Confined(r) ==
      pc[r] = "act" /\ op[r].token # None =>
            \/ who[r].ns = op[r].org
            \/ /\ who[r].ns = Public
               /\ \E s \in held[op[r].token] : "superadmin" \in s
<1>1. ASSUME NEW r \in Req, NEW q \in Req, Arrive(r) PROVE Confined(q)'
  <2> PICK o \in Ops :
        /\ op' = [op EXCEPT ![r] = o]
        /\ minted[r] = None
        /\ pc'[r] = "act" => o.token = None
        /\ \A p \in Req \ {r} : pc'[p] = pc[p] /\ who'[p] = who[p] /\ held'[p] = held[p]
    <3> PICK o \in Ops :
          LET u == IF o.token = None THEN o.user ELSE who[o.token] IN
          /\ o \in Op /\ o # None /\ pc[r] = "idle" /\ minted[r] = None
          /\ op' = [op EXCEPT ![r] = o] /\ who' = [who EXCEPT ![r] = u]
          /\ pc' \in [Req -> PC] /\ \A p \in Req \ {r} : pc'[p] = pc[p]
          /\ held' = [held EXCEPT ![r] = IF u \in live THEN {GroupsOf(u, members)} ELSE {}]
          /\ \/ o.token # None /\ minted[o.token] = None /\ pc'[r] \in {"err", "login"}
             \/ o.token = None /\ o.kind = "login" /\ pc'[r] = "find" /\ u \in User
             \/ o.token = None /\ o.kind \in AdminKind /\ pc'[r] = "act"
             \/ /\ o.token \in Req /\ minted[o.token] # None /\ o.token # r
                /\ \/ o.kind = "page" /\ pc'[r] = "find"
                   \/ o.kind \in AdminKind \cup {"refresh", "me", "console"} /\ pc'[r] = "gate"
      BY <1>1, ArriveFacts
    <3> QED
      BY DEF IInv0, TypeOK
  <2>1. CASE q = r
    BY <2>1 DEF IInv0, TypeOK
  <2>2. CASE q # r /\ pc[q] = "act" /\ op[q].token # None
    <3>1. op'[q] = op[q] /\ op[q].token \in Req
      BY <2>2, OpFacts DEF IInv0, TypeOK
    <3>2. op[q].token # r
      BY <2>2 DEF IInv0, BearerOK
    <3> QED
      BY <2>2, <3>1, <3>2 DEF Confinement
  <2>3. CASE q # r /\ ~(pc[q] = "act" /\ op[q].token # None)
    BY <2>3 DEF IInv0, TypeOK
  <2> QED
    BY <2>1, <2>2, <2>3
<1>2. ASSUME NEW r \in Req, NEW q \in Req, Step(r) \/ Fail(r), pc'[q] = "act", op'[q].token # None
      PROVE  \/ who'[q].ns = op'[q].org
             \/ /\ who'[q].ns = Public
                /\ \E s \in held'[op'[q].token] : "superadmin" \in s
  <2>1. op' = op /\ who' = who /\ (q # r => pc'[q] = pc[q]) /\ InFlight(r)
    BY <1>2, StepFrame DEF IInv0, InFlight
  <2>2. op[q] # None /\ pc[q] \in {"gate", "org", "act"}
    BY <1>2, <2>1 DEF IInv0, TypeOK, InFlight, Answered, Step, Gate, ResolveNamespace, FindForLogin,
                      FindForRefresh, FindByToken, ReadGroups, Sign, Assign, Remove, Erase, Drop, Fail,
                      Goto, Refusal
  <2>3. op[q].token \in Req
    BY <1>2, <2>1, <2>2, OpFacts DEF IInv0
  <2>4. held[op[q].token] \subseteq held'[op[q].token]
    BY <1>2, <2>3, StepEffect, CommitHeld DEF IInv0
  <2>5. \/ who[q].ns = op[q].org
        \/ who[q].ns = Public /\ \E s \in held[op[q].token] : "superadmin" \in s
    <3>1. CASE pc[q] = "act"
      BY <1>2, <2>1, <3>1 DEF Confinement
    <3>2. CASE pc[q] # "act"
      <4>1. q = r /\ (Gate(r) \/ ResolveNamespace(r))
        BY <1>2, <2>1, <2>2, <3>2 DEF Step, FindForLogin, FindForRefresh, FindByToken, ReadGroups, Sign,
                                      Assign, Remove, Erase, Drop, Fail, Goto, IInv0, TypeOK
      <4>2. \/ who[q].ns = op[q].org
            \/ IsGlobalSuperadmin(q)
        <5>1. CASE Gate(r)
          <6>1. op[q].kind = "drop"
            BY <1>2, <2>2, <4>1, <5>1 DEF Gate, Goto, AfterGate, IInv0, TypeOK, PathOK, AdminKind
          <6> QED
            BY <1>2, <4>1, <5>1, <6>1 DEF Gate, Goto, Admits, IInv0, TypeOK
        <5>2. CASE ResolveNamespace(r)
          BY <1>2, <4>1, <5>2 DEF ResolveNamespace, Goto, MayEnter, IInv0, TypeOK
        <5> QED
          BY <4>1, <5>1, <5>2
      <4> QED
        BY <1>2, <2>1, <2>2, <4>2, ClaimedWasHeld DEF IsGlobalSuperadmin
    <3> QED
      BY <3>1, <3>2
  <2> QED
    BY <2>1, <2>4, <2>5
<1>3. CASE Tick \/ UNCHANGED vars
  BY <1>3 DEF Tick, vars, database, Confinement
<1>4. (\A q \in Req : Confined(q)') => Confinement'
  BY DEF Confinement
<1> QED
  BY <1>1, <1>2, <1>3, <1>4 DEF Next, Quiescent

\* A request acts in the namespace of its user, or its user was a superadmin of
\* the public namespace: no token of a tenant acts outside the tenant.
THEOREM TokensAreConfined == Spec => []Confinement
<1>1. Init => Confinement
  BY DEF Init, Confinement
<1> QED
  BY <1>1, IInv0Init, IInv0Next, HistoryInit, HistoryNext, ConfinedNext, PTL DEF Spec

\* The assignment that made a membership with the assigner named.
Made(r, m) ==
    /\ op[r] # None /\ pc[r] = "ok"
    /\ op[r].kind = "assign" /\ Target(r) = m.user /\ op[r].group = m.group
    /\ who[r] = [ns |-> m.user.ns, id |-> m.by]

\* Answered requests keep what they did.
LEMMA MadeStays ==
    ASSUME IInv0, [Next]_vars, NEW r \in Req, NEW m, Made(r, m)
    PROVE  Made(r, m)'
<1>1. pc[r] = "ok" /\ op[r] # None
  BY DEF Made
<1>2. UNCHANGED <<pc[r], op[r], who[r]>>
  <2>1. ASSUME NEW q \in Req, Arrive(q) PROVE UNCHANGED <<pc[r], op[r], who[r]>>
    <3>1. q # r
      BY <1>1, <2>1 DEF Arrive
    <3> QED
      BY <2>1, <3>1 DEF Arrive, Goto, IInv0, TypeOK
  <2>2. ASSUME NEW q \in Req, Step(q) \/ Fail(q) PROVE UNCHANGED <<pc[r], op[r], who[r]>>
    BY <1>1, <2>2, StepFrame DEF IInv0, Answered
  <2>3. CASE Tick \/ UNCHANGED vars
    BY <2>3 DEF Tick, vars
  <2> QED
    BY <2>1, <2>2, <2>3 DEF Next, Quiescent
<1> QED
  BY <1>2 DEF Made, Target

\* A membership is there already, or it is the one that an assignment adds.
LEMMA NewMembers ==
    ASSUME IInv0, [Next]_vars, NEW m \in members', m \notin members
    PROVE  \E r \in Req : Assign(r) /\ pc'[r] = "ok" /\ op' = op /\ who' = who
                          /\ m = [user |-> Target(r), group |-> op[r].group, by |-> AssignedBy(r)]
<1>1. ASSUME NEW r \in Req, Step(r)
      PROVE  Assign(r) /\ pc'[r] = "ok" /\ op' = op /\ who' = who
             /\ m = [user |-> Target(r), group |-> op[r].group, by |-> AssignedBy(r)]
  <2>1. CASE Assign(r)
    BY <2>1 DEF Assign, Commit, Goto, IInv0, TypeOK
  <2>2. CASE Remove(r) \/ Erase(r) \/ Drop(r)
    BY <2>2 DEF Remove, Erase, Drop, Commit
  <2>3. CASE ~(Assign(r) \/ Remove(r) \/ Erase(r) \/ Drop(r))
    BY <1>1, <2>3 DEF Step, Gate, ResolveNamespace, FindForLogin, FindForRefresh, FindByToken,
                      ReadGroups, Sign, database
  <2> QED
    BY <2>1, <2>2, <2>3
<1>2. ASSUME NEW r \in Req, Arrive(r) \/ Fail(r) PROVE FALSE
  BY <1>2 DEF Arrive, Fail, database
<1>3. CASE Tick \/ UNCHANGED vars
  BY <1>3 DEF Tick, vars, database
<1> QED
  BY <1>1, <1>2, <1>3 DEF Next, Quiescent

LEMMA AssignerNext ==
    ASSUME IInv0, AssignerIsNamedRightly, [Next]_vars
    PROVE  AssignerIsNamedRightly'
<1>1. ASSUME NEW m \in members', m.by # None, m \in members
      PROVE  \E r \in Req : Made(r, m)'
  <2> PICK r \in Req : Made(r, m)
    BY <1>1 DEF AssignerIsNamedRightly, Made
  <2> QED
    BY MadeStays
<1>2. ASSUME NEW m \in members', m.by # None, m \notin members
      PROVE  \E r \in Req : Made(r, m)'
  <2> PICK r \in Req :
        /\ Assign(r) /\ pc'[r] = "ok" /\ op' = op /\ who' = who
        /\ m = [user |-> Target(r), group |-> op[r].group, by |-> AssignedBy(r)]
    BY <1>2, NewMembers
  <2>1. pc[r] = "act" /\ op[r].kind = "assign" /\ op[r] # None
    BY DEF Assign, IInv0, TypeOK
  <2>2. op[r].token # None /\ who[r].ns = op[r].org /\ m.by = who[r].id
    BY <1>2 DEF AssignedBy
  <2>3. who[r] \in User
    BY <2>1, <2>2 DEF IInv0, BearerOK
  <2>4. who[r] = [ns |-> m.user.ns, id |-> m.by]
    BY <2>2, <2>3 DEF User, Target
  <2> QED
    BY <2>1, <2>4 DEF Made, Target
<1> QED
  BY <1>1, <1>2 DEF AssignerIsNamedRightly, Made

\* A membership names as its assigner the administrator who made it, a user of the
\* same namespace, although each namespace numbers its users for itself.
THEOREM AssignersAreRight == Spec => []AssignerIsNamedRightly
<1>1. Init => AssignerIsNamedRightly
  BY SessionsAssumption DEF Init, AssignerIsNamedRightly
<1> QED
  BY <1>1, IInv0Init, IInv0Next, AssignerNext, PTL DEF Spec

-----------------------------------------------------------------------------
(* Revocation.                                                             *)

\* The gate lets a request through with a group lost less than a lifetime ago.
LEMMA GateAdmits ==
    ASSUME IInv0, HistoryOK, NEW r \in Req, Gate(r), pc'[r] \in {"org", "act", "ok"}
    PROVE  \E g \in {"superadmin", "admin"} :
               g \in Claimed(r) /\ (lost[who[r]][g] # None => clock < lost[who[r]][g] + Lifetime)
<1> DEFINE t == op[r].token
<1>1. op[r] # None /\ t # None /\ op[r].kind \in AdminKind \cup {"refresh", "me", "console"}
  BY DEF Gate, IInv0, TypeOK, PathOK
<1>2. t \in Req /\ minted[t] # None /\ who[r] = who[t] /\ who[r] \in User
  BY <1>1, OpFacts DEF IInv0, BearerOK, Gate
<1>3. Verified(r) /\ Admits(r) /\ op[r].kind \in AdminKind \cup {"console"}
  BY <1>1 DEF Gate, Goto, AfterGate, IInv0, TypeOK, AdminKind
<1>4. PICK g \in {"superadmin", "admin"} : g \in Claimed(r)
  BY <1>3 DEF Admits, MayAdminister
<1>5. g \in Group /\ g \in groups[t]
  BY <1>4 DEF Group, Claimed
<1>6. clock < minted[t] + Lifetime /\ clock \in Nat /\ minted[t] \in Nat /\ Lifetime \in Nat
  BY <1>2, <1>3, SessionsAssumption DEF Verified, IInv0, TypeOK, Time
<1>7. ASSUME lost[who[r]][g] # None
      PROVE  clock < lost[who[r]][g] + Lifetime
  <2>1. minted[t] <= lost[who[r]][g]
    BY <1>2, <1>5, <1>7 DEF HistoryOK, LostOK
  <2>2. lost[who[r]][g] \in Nat
    BY <1>2, <1>5, <1>7 DEF IInv0, TypeOK, Time
  <2> QED
    BY <1>6, <2>1, <2>2
<1> QED
  BY <1>4, <1>7

\* However often its token is refreshed, nobody passes the administrative gate on
\* a group lost a token's lifetime ago, unless the token was being signed then.
THEOREM RevocationsTakeEffect == Spec => RevocationTakesEffect
<1> DEFINE Gated ==
      \A r \in Req :
         pc[r] = "gate" /\ pc'[r] \in {"org", "act", "ok"} =>
             \E g \in {"superadmin", "admin"} :
                 g \in Claimed(r) /\ (lost[who[r]][g] # None => clock < lost[who[r]][g] + Lifetime)
<1>1. IInv0 /\ HistoryOK /\ [Next]_vars => [Gated]_vars
  <2> SUFFICES ASSUME IInv0, HistoryOK, Next, NEW r \in Req,
                      pc[r] = "gate", pc'[r] \in {"org", "act", "ok"}
               PROVE  \E g \in {"superadmin", "admin"} :
                 g \in Claimed(r) /\ (lost[who[r]][g] # None => clock < lost[who[r]][g] + Lifetime)
    OBVIOUS
  <2>1. ASSUME NEW q \in Req, Arrive(q) PROVE FALSE
    BY <2>1 DEF Arrive, Goto, IInv0, TypeOK
  <2>2. ASSUME NEW q \in Req, Step(q) \/ Fail(q) PROVE Gate(r)
    BY <2>2, StepFrame DEF IInv0, TypeOK, Step, Fail, Goto, ResolveNamespace, FindForLogin,
            FindForRefresh, FindByToken, ReadGroups, Sign, Assign, Remove, Erase, Drop
  <2>3. ASSUME Tick \/ UNCHANGED vars PROVE FALSE
    BY <2>3 DEF Tick, vars
  <2>4. Gate(r)
    BY <2>1, <2>2, <2>3 DEF Next, Quiescent
  <2> QED
    BY <2>4, GateAdmits
<1> QED
  BY <1>1, IInv0Init, IInv0Next, HistoryInit, HistoryNext, PTL DEF Spec, RevocationTakesEffect
=============================================================================

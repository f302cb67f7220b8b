--------------------------- MODULE ProfilesProofs ---------------------------
(* Proofs about Profiles for any requests, users and texts.                *)
EXTENDS Profiles, TLAPS

-----------------------------------------------------------------------------
(* What a label says of its request.                                       *)

RequestOK(r) ==
    /\ pc[r] # "idle" => op[r] # None
    /\ pc[r] = "insert" => op[r].kind = "register"
    /\ pc[r] \in {"find", "save", "groups", "again", "sorry"} => Updates(r)
    /\ pc[r] \in {"again", "sorry"} => op[r].kind = "page"
    /\ pc[r] = "verify" => op[r].kind = "change"
    /\ pc[r] = "password" => op[r].kind \in {"change", "temporary"}
    /\ pc[r] = "first" => \/ op[r].kind \in {"change", "temporary"}
                          \/ Updates(r) /\ op[r].first # None
    /\ pc[r] = "erase" => op[r].kind = "erase"

PathOK == \A r \in Req : RequestOK(r)

\* The requests answered before another arrived have their answers.
EarlierOK == \A r, q \in Req : q \in earlier[r] => pc[q] \in Answered

IInv0 == TypeOK /\ PathOK /\ EarlierOK

LEMMA OpFacts ==
    ASSUME TypeOK, NEW r \in Req, op[r] # None
    PROVE  /\ op[r] \in Ops /\ op[r].kind \in Kind
           /\ op[r].email \in Email \cup {None} /\ op[r].username \in Username \cup {None}
           /\ op[r].first \in BOOLEAN \cup {None}
           /\ op[r].kind = "register" =>
                 [email |-> op[r].email, username |-> op[r].username, first |-> op[r].first] \in Row
           /\ op[r].kind # "register" => op[r].user \in UserId
<1>1. op[r] \in Ops /\ op[r] \in Op
  BY ProfileOpsAssumption DEF TypeOK
<1>2. op[r].kind = "register" =>
          op[r].email \in Email /\ op[r].username \in Username /\ op[r].first \in BOOLEAN
  BY <1>1, ProfileOpsAssumption, ProfilesAssumption DEF Op
<1> QED
  BY <1>1, <1>2, ProfileOpsAssumption DEF Op, Row

\* Whoever is about to set first_login has a value for it.
LEMMA FlagFacts ==
    ASSUME TypeOK, PathOK, NEW r \in Req, pc[r] = "first"
    PROVE  /\ op[r] # None /\ op[r].kind # "register" /\ Flag(r) \in BOOLEAN /\ Flag(r) # None
           /\ Flags(r) /\ Target(r) = op[r].user
<1>1. op[r] # None /\ op[r].first \in BOOLEAN \cup {None}
  BY OpFacts DEF PathOK, RequestOK
<1>2. CASE op[r].kind \in {"change", "temporary"}
  BY <1>1, <1>2, ProfilesAssumption DEF Flag, Flags, Target
<1>3. CASE Updates(r) /\ op[r].first # None
  <2>1. op[r].first \in BOOLEAN /\ op[r] \in Ops
    BY <1>1, <1>3, OpFacts
  <2>2. op[r].kind = "admin"
    BY <1>3, <2>1, ProfileOpsAssumption DEF Updates
  <2> QED
    BY <1>1, <1>3, <2>1, <2>2 DEF Flag, Flags, Target
<1> QED
  BY <1>2, <1>3 DEF PathOK, RequestOK

-----------------------------------------------------------------------------
(* What a step does.                                                       *)

Acts(r) == Step(r) \/ Fail(r)

\* A row with some fields of another is a row.
LEMMA RowFacts ==
    ASSUME NEW x \in Row, NEW e \in Email, NEW n \in Username, NEW f \in BOOLEAN
    PROVE  /\ [x EXCEPT !.email = e, !.username = n] \in Row
           /\ [x EXCEPT !.email = e, !.username = n].email = e
           /\ [x EXCEPT !.email = e, !.username = n].username = n
           /\ [x EXCEPT !.email = e, !.username = n].first = x.first
           /\ [x EXCEPT !.first = f] \in Row
           /\ [x EXCEPT !.first = f].email = x.email /\ [x EXCEPT !.first = f].username = x.username
           /\ [x EXCEPT !.first = f].first = f
           /\ x.email \in Email /\ x.username \in Username /\ x.first \in BOOLEAN /\ x # None
BY ProfilesAssumption DEF Row

\* What an update merges: the fields it names, and the row's others.
LEMMA MergedFacts ==
    ASSUME TypeOK, NEW r \in Req, op[r] # None, NEW u \in live
    PROVE  /\ Merged(r, u) \in Row /\ row[u] \in Row
           /\ Merged(r, u).email = IF op[r].email = None THEN row[u].email ELSE op[r].email
           /\ Merged(r, u).username = IF op[r].username = None THEN row[u].username ELSE op[r].username
<1> DEFINE e == IF op[r].email = None THEN row[u].email ELSE op[r].email
           n == IF op[r].username = None THEN row[u].username ELSE op[r].username
<1>1. row[u] \in Row
  BY DEF TypeOK
<1>2. e \in Email /\ n \in Username
  <2>1. row[u].email \in Email /\ row[u].username \in Username
    BY <1>1 DEF Row
  <2>2. op[r].email \in Email \cup {None} /\ op[r].username \in Username \cup {None}
    BY OpFacts
  <2> QED
    BY <2>1, <2>2
<1>3. Merged(r, u) = [row[u] EXCEPT !.email = e, !.username = n]
  BY <1>1 DEF Merged, Row
<1> HIDE DEF e, n
<1>4. Merged(r, u) \in Row /\ Merged(r, u).email = e /\ Merged(r, u).username = n
  BY <1>1, <1>2, <1>3 DEF Row
<1> QED
  BY <1>1, <1>4 DEF e, n

\* The tables after a step: a row saved, a flag set, a user registered, or at most
\* a user deleted.
LEMMA TablesStep ==
    ASSUME TypeOK, PathOK, NEW r \in Req, Acts(r)
    PROVE  \/ row' = row /\ live' \subseteq live
           \/ /\ Save(r) /\ live' = live /\ op[r].user \in live /\ ~Clash(copy[r], op[r].user)
              /\ row' = [row EXCEPT ![op[r].user] =
                            [row[op[r].user] EXCEPT !.email = copy[r].email, !.username = copy[r].username]]
           \/ /\ SetFirstLogin(r) /\ live' = live /\ op[r].user \in live
              /\ row' = [row EXCEPT ![op[r].user] = [row[op[r].user] EXCEPT !.first = Flag(r)]]
           \/ /\ Register(r) /\ live' = live \cup {r} /\ pc[r] = "insert" /\ pc'[r] = "ok"
              /\ LET fields == [email |-> op[r].email, username |-> op[r].username, first |-> op[r].first] IN
                 ~Clash(fields, r) /\ row' = [row EXCEPT ![r] = fields]
<1>1. CASE Save(r)
  BY <1>1 DEF Save, TypeOK
<1>2. CASE SetFirstLogin(r)
  BY <1>2 DEF SetFirstLogin, TypeOK
<1>3. CASE Register(r)
  BY <1>3 DEF Register, Goto, TypeOK
<1>4. CASE \/ FindUser(r) \/ ReadGroups(r) \/ ReadAgain(r) \/ EraseUser(r) \/ Fail(r)
           \/ VerifyCurrent(r) \/ WritePassword(r)
  BY <1>4 DEF FindUser, ReadGroups, ReadAgain, EraseUser, Fail, VerifyCurrent, WritePassword
<1> QED
  BY <1>1, <1>2, <1>3, <1>4 DEF Acts, Step

LEMMA StepFrame ==
    ASSUME TypeOK, PathOK, NEW r \in Req, Acts(r)
    PROVE  /\ UNCHANGED <<public, op, earlier>> /\ Under(r) /\ op[r] # None
           /\ pc' \in [Req -> PC] /\ pc'[r] # "idle"
           /\ \A q \in Req \ {r} : pc'[q] = pc[q] /\ copy'[q] = copy[q]
<1>1. UNCHANGED <<public, op, earlier>> /\ Under(r)
  BY DEF Acts, Step, Fail, FindUser, Save, SetFirstLogin, ReadGroups, ReadAgain, Register,
     EraseUser, VerifyCurrent, WritePassword, Goto, Refuse, Under, Answered
<1>2. PICK label \in PC \ {"idle"} : pc' = [pc EXCEPT ![r] = label]
  BY DEF Acts, Step, Fail, FindUser, Save, SetFirstLogin, ReadGroups, ReadAgain, Register,
     EraseUser, VerifyCurrent, WritePassword, Goto, Refuse, PC, Answered, AfterSave
<1>3. pc' \in [Req -> PC] /\ pc'[r] # "idle" /\ \A q \in Req \ {r} : pc'[q] = pc[q]
  BY <1>2 DEF TypeOK
<1>4. \A q \in Req \ {r} : copy'[q] = copy[q]
  BY DEF Acts, Step, Fail, FindUser, Save, SetFirstLogin, ReadGroups, ReadAgain, Register,
     EraseUser, VerifyCurrent, WritePassword, TypeOK
<1>5. op[r] # None
  BY <1>1 DEF PathOK, RequestOK, Under
<1> QED
  BY <1>1, <1>3, <1>4, <1>5

LEMMA ArriveFrame ==
    ASSUME TypeOK, NEW r \in Req, Arrive(r)
    PROVE  /\ UNCHANGED <<public, live, row, copy>> /\ pc[r] = "idle"
           /\ \E o \in Ops : op' = [op EXCEPT ![r] = o] /\ pc' = [pc EXCEPT ![r] = FirstLabel(o)]
           /\ op' \in [Req -> Ops \cup {None}] /\ pc' \in [Req -> PC]
           /\ op'[r] \in Ops /\ pc'[r] = FirstLabel(op'[r])
           /\ \A q \in Req \ {r} : op'[q] = op[q] /\ pc'[q] = pc[q]
           /\ pc'[r] \in {"insert", "erase", "find", "verify", "password"}
           /\ earlier' = [earlier EXCEPT ![r] = {q \in Req : pc[q] \in Answered}]
<1>1. PICK o \in Ops : op' = [op EXCEPT ![r] = o] /\ pc' = [pc EXCEPT ![r] = FirstLabel(o)]
  BY DEF Arrive, Goto
<1>2. FirstLabel(o) \in PC /\ FirstLabel(o) \in {"insert", "erase", "find", "verify", "password"}
  BY DEF FirstLabel, PC
<1>3. op' \in [Req -> Ops \cup {None}] /\ pc' \in [Req -> PC]
  BY <1>1, <1>2 DEF TypeOK
<1>4. op'[r] = o /\ pc'[r] = FirstLabel(o)
  BY <1>1 DEF TypeOK
<1>5. \A q \in Req \ {r} : op'[q] = op[q] /\ pc'[q] = pc[q]
  BY <1>1 DEF TypeOK
<1>6. UNCHANGED <<public, live, row, copy>> /\ pc[r] = "idle"
      /\ earlier' = [earlier EXCEPT ![r] = {q \in Req : pc[q] \in Answered}]
  BY DEF Arrive, Goto
<1> QED
  BY <1>1, <1>2, <1>3, <1>4, <1>5, <1>6

\* The copy after a step: what was merged, the flag set in it, the row once more,
\* or the same.
LEMMA CopyStep ==
    ASSUME TypeOK, PathOK, NEW r \in Req, Acts(r)
    PROVE  /\ copy' \in [Req -> Row \cup {None}]
           /\ copy[r] # None => copy'[r] # None
           /\ FindUser(r) /\ pc'[r] = "save" =>
                 op[r].user \in live /\ copy'[r] = Merged(r, op[r].user) /\ copy'[r] # None
<1>1. op[r] # None
  BY StepFrame
<1>2. CASE FindUser(r)
  <2>1. CASE /\ op[r].user \in live /\ copy' = [copy EXCEPT ![r] = Merged(r, op[r].user)]
    <3>1. Merged(r, op[r].user) \in Row
      BY <1>1, <2>1, MergedFacts
    <3>2. Merged(r, op[r].user) # None
      BY <3>1, ProfilesAssumption
    <3>3. copy'[r] = Merged(r, op[r].user)
      BY <2>1 DEF TypeOK
    <3> QED
      BY <2>1, <3>1, <3>2, <3>3 DEF TypeOK
  <2>2. CASE copy' = copy /\ pc'[r] # "save"
    BY <2>2 DEF TypeOK
  <2> QED
    BY <1>2, <2>1, <2>2 DEF FindUser, Refuse, Goto, TypeOK
<1>3. CASE SetFirstLogin(r)
  <2>1. pc[r] = "first" /\ Flag(r) \in BOOLEAN /\ ~FindUser(r)
    BY <1>3, FlagFacts DEF SetFirstLogin, FindUser
  <2>2. CASE Updates(r)
    <3> DEFINE c == [copy[r] EXCEPT !.first = Flag(r)]
    <3>1. copy[r] \in Row
      BY <2>1, <2>2 DEF TypeOK
    <3>2. c \in Row
      BY <2>1, <3>1 DEF Row
    <3>3. c # None
      BY <3>2, ProfilesAssumption
    <3>4. copy' = [copy EXCEPT ![r] = c]
      BY <1>3, <2>2 DEF SetFirstLogin
    <3> HIDE DEF c
    <3>5. copy'[r] = c
      BY <3>4 DEF TypeOK
    <3> QED
      BY <2>1, <3>2, <3>3, <3>4, <3>5 DEF TypeOK
  <2>3. CASE ~Updates(r)
    BY <1>3, <2>1, <2>3 DEF SetFirstLogin, TypeOK
  <2> QED
    BY <2>2, <2>3
<1>4. CASE ReadAgain(r)
  <2>1. CASE op[r].user \in live
    <3>1. row[op[r].user] \in Row /\ row[op[r].user] # None
      BY <2>1 DEF TypeOK
    <3>2. copy' = [copy EXCEPT ![r] = row[op[r].user]] /\ ~FindUser(r)
      BY <1>4, <2>1 DEF ReadAgain, FindUser
    <3>3. copy'[r] = row[op[r].user]
      BY <3>2 DEF TypeOK
    <3> QED
      BY <3>1, <3>2, <3>3 DEF TypeOK
  <2> QED
    BY <1>4, <2>1 DEF ReadAgain, FindUser, TypeOK
<1>5. CASE copy' = copy /\ ~FindUser(r)
  BY <1>5 DEF TypeOK
<1>6. Save(r) \/ ReadGroups(r) \/ Register(r) \/ EraseUser(r) \/ VerifyCurrent(r) \/ WritePassword(r) =>
          copy' = copy /\ ~FindUser(r)
  BY DEF Save, ReadGroups, Register, EraseUser, VerifyCurrent, WritePassword, FindUser
<1>7. Fail(r) => copy' = copy /\ (FindUser(r) => pc'[r] # "save")
  BY DEF Fail, Goto, TypeOK
<1> QED
  BY <1>2, <1>3, <1>4, <1>5, <1>6, <1>7 DEF Acts, Step, TypeOK

\* The labels a request goes through, with what it had to have then.
LEMMA LabelStep ==
    ASSUME TypeOK, PathOK, NEW r \in Req, Acts(r)
    PROVE  /\ pc'[r] \in {"save", "groups", "again", "sorry"} => Updates(r)
           /\ pc'[r] = "save" => FindUser(r)
           /\ pc'[r] = "first" => \/ Save(r) /\ Updates(r) /\ op[r].first # None
                                  \/ WritePassword(r) /\ op[r].kind \in {"change", "temporary"}
           /\ pc'[r] = "groups" => SetFirstLogin(r) \/ (Save(r) /\ op[r].first = None)
           /\ pc'[r] = "again" => ReadGroups(r) /\ op[r].kind = "page"
           /\ pc'[r] = "sorry" => op[r].kind = "page"
           /\ pc'[r] = "password" => VerifyCurrent(r) /\ op[r].kind = "change"
           /\ pc'[r] \notin {"find", "insert", "erase", "verify"}
<1>1. CASE FindUser(r)
  <2>1. Updates(r)
    BY <1>1 DEF FindUser, PathOK, RequestOK
  <2> QED
    BY <1>1, <2>1 DEF FindUser, Goto, Refuse, TypeOK
<1>2. CASE Save(r)
  <2>1. Updates(r)
    BY <1>2 DEF Save, PathOK, RequestOK
  <2>2. \/ pc' = [pc EXCEPT ![r] = AfterSave(r)]
        \/ pc' = [pc EXCEPT ![r] = "sorry"] /\ op[r].kind = "page"
        \/ pc' = [pc EXCEPT ![r] = "err"]
    BY <1>2 DEF Save, Goto, Refuse
  <2> QED
    BY <1>2, <2>1, <2>2 DEF AfterSave, TypeOK
<1>3. CASE SetFirstLogin(r)
  BY <1>3 DEF SetFirstLogin, Goto, TypeOK, PathOK, RequestOK
<1>4. CASE ReadGroups(r)
  BY <1>4 DEF ReadGroups, Goto, TypeOK, PathOK, RequestOK
<1>5. CASE ReadAgain(r)
  <2>1. pc'[r] \in {"login", "ok", "err"}
    BY <1>5 DEF ReadAgain, Goto, TypeOK
  <2> QED
    BY <2>1
<1>6. CASE Register(r) \/ EraseUser(r) \/ Fail(r)
  <2>1. pc'[r] \in {"ok", "err", "gone"}
    BY <1>6 DEF Register, EraseUser, Fail, Goto, TypeOK
  <2> QED
    BY <2>1
<1>7. CASE VerifyCurrent(r) \/ WritePassword(r)
  BY <1>7 DEF VerifyCurrent, WritePassword, Goto, TypeOK, PathOK, RequestOK
<1> QED
  BY <1>1, <1>2, <1>3, <1>4, <1>5, <1>6, <1>7 DEF Acts, Step

\* Every row in the table is a row.
LEMMA RowsStep ==
    ASSUME TypeOK, PathOK, NEW r \in Req, Acts(r)
    PROVE  row' \in [UserId -> Row \cup {None}] /\ live' \subseteq UserId
           /\ \A u \in live' : row'[u] # None
<1>0. op[r] # None /\ r \in UserId
  BY StepFrame DEF UserId
<1>1. CASE row' = row /\ live' \subseteq live
  BY <1>1 DEF TypeOK
<1>2. ASSUME NEW u \in live, NEW x \in Row, live' = live, row' = [row EXCEPT ![u] = x]
      PROVE  row' \in [UserId -> Row \cup {None}] /\ live' \subseteq UserId
             /\ \A v \in live' : row'[v] # None
  BY <1>2, ProfilesAssumption DEF TypeOK
<1>3. CASE Save(r) /\ live' = live /\ op[r].user \in live
           /\ row' = [row EXCEPT ![op[r].user] =
                 [row[op[r].user] EXCEPT !.email = copy[r].email, !.username = copy[r].username]]
  <2>1. copy[r] \in Row /\ row[op[r].user] \in Row
    BY <1>3 DEF Save, TypeOK, PathOK, RequestOK
  <2>2. [row[op[r].user] EXCEPT !.email = copy[r].email, !.username = copy[r].username] \in Row
    BY <2>1 DEF Row
  <2> QED
    BY <1>2, <1>3, <2>2
<1>4. CASE SetFirstLogin(r) /\ live' = live /\ op[r].user \in live
           /\ row' = [row EXCEPT ![op[r].user] = [row[op[r].user] EXCEPT !.first = Flag(r)]]
  <2>1. row[op[r].user] \in Row /\ Flag(r) \in BOOLEAN
    BY <1>0, <1>4, FlagFacts DEF SetFirstLogin, TypeOK
  <2>2. [row[op[r].user] EXCEPT !.first = Flag(r)] \in Row
    BY <2>1 DEF Row
  <2> QED
    BY <1>2, <1>4, <2>2
<1>5. CASE Register(r) /\ live' = live \cup {r} /\ pc[r] = "insert"
           /\ row' = [row EXCEPT ![r] = [email |-> op[r].email, username |-> op[r].username,
                                         first |-> op[r].first]]
  <2>1. PICK x \in Row : row' = [row EXCEPT ![r] = x]
    BY <1>0, <1>5, OpFacts DEF PathOK, RequestOK
  <2>2. x # None
    BY ProfilesAssumption
  <2> QED
    BY <1>0, <1>5, <2>1, <2>2 DEF TypeOK
<1> QED
  BY <1>1, <1>3, <1>4, <1>5, TablesStep

LEMMA TypeNext == ASSUME IInv0, [Next]_vars PROVE TypeOK'
<1> USE DEF IInv0
<1>1. ASSUME NEW r \in Req, Arrive(r) PROVE TypeOK'
  <2>1. earlier' \in [Req -> SUBSET Req]
    BY <1>1, ArriveFrame DEF TypeOK
  <2>2. \A q \in Req : Updates(q)' /\ pc'[q] \in {"save", "first", "groups", "again"} => copy'[q] # None
    BY <1>1, ArriveFrame DEF TypeOK, Updates
  <2>3. UNCHANGED <<public, live, row, copy>> /\ op' \in [Req -> Ops \cup {None}]
        /\ pc' \in [Req -> PC]
    BY <1>1, ArriveFrame
  <2> QED
    BY <2>1, <2>2, <2>3 DEF TypeOK
<1>2. ASSUME NEW r \in Req, Acts(r) PROVE TypeOK'
  <2>1. UNCHANGED <<public, op, earlier>> /\ pc' \in [Req -> PC]
        /\ \A q \in Req \ {r} : pc'[q] = pc[q] /\ copy'[q] = copy[q]
    BY <1>2, StepFrame
  <2>2. copy' \in [Req -> Row \cup {None}]
    BY <1>2, CopyStep
  <2>3. Updates(r) /\ pc'[r] \in {"save", "first", "groups", "again"} => copy'[r] # None
    <3>1. pc'[r] = "save" => copy'[r] # None
      BY <1>2, LabelStep, CopyStep
    <3>2. Updates(r) /\ pc'[r] \in {"first", "groups", "again"} =>
              Save(r) \/ SetFirstLogin(r) \/ ReadGroups(r)
      BY <1>2, LabelStep DEF Updates
    <3>3. Updates(r) /\ (Save(r) \/ SetFirstLogin(r) \/ ReadGroups(r)) => copy[r] # None
      BY DEF Save, SetFirstLogin, ReadGroups, TypeOK
    <3> QED
      BY <1>2, <3>1, <3>2, <3>3, CopyStep
  <2>4. \A q \in Req : Updates(q)' /\ pc'[q] \in {"save", "first", "groups", "again"} => copy'[q] # None
    BY <2>1, <2>3 DEF TypeOK, Updates
  <2>5. row' \in [UserId -> Row \cup {None}] /\ live' \subseteq UserId
        /\ \A u \in live' : row'[u] # None
    BY <1>2, RowsStep
  <2> QED
    BY <2>1, <2>2, <2>4, <2>5 DEF TypeOK
<1>3. UNCHANGED vars => TypeOK'
  BY DEF vars, TypeOK, Updates
<1> QED
  BY <1>1, <1>2, <1>3 DEF Next, Quiescent, Acts

LEMMA PathNext == ASSUME IInv0, [Next]_vars PROVE PathOK'
<1> USE DEF IInv0
<1>1. ASSUME NEW r \in Req, Arrive(r) PROVE PathOK'
  <2>1. PICK o \in Ops : op' = [op EXCEPT ![r] = o] /\ pc' = [pc EXCEPT ![r] = FirstLabel(o)]
    BY <1>1, ArriveFrame
  <2>2. op'[r] = o /\ pc'[r] = FirstLabel(o) /\ o # None /\ o.kind \in Kind
    BY <2>1, ProfileOpsAssumption DEF TypeOK, Op
  <2>3. RequestOK(r)'
    BY <2>2 DEF RequestOK, Updates, FirstLabel, Kind
  <2>4. \A q \in Req \ {r} : op'[q] = op[q] /\ pc'[q] = pc[q]
    BY <1>1, ArriveFrame
  <2>5. \A q \in Req \ {r} : RequestOK(q)'
    BY <2>4 DEF PathOK, RequestOK, Updates
  <2> QED
    BY <2>3, <2>5 DEF PathOK
<1>2. ASSUME NEW r \in Req, Acts(r) PROVE PathOK'
  <2>1. op' = op /\ op[r] # None /\ \A q \in Req \ {r} : pc'[q] = pc[q]
    BY <1>2, StepFrame
  <2>2. RequestOK(r)'
    BY <1>2, <2>1, LabelStep DEF RequestOK, Updates
  <2>3. \A q \in Req \ {r} : RequestOK(q)'
    BY <2>1 DEF PathOK, RequestOK, Updates
  <2> QED
    BY <2>2, <2>3 DEF PathOK
<1>3. UNCHANGED vars => PathOK'
  BY DEF vars, PathOK, RequestOK, Updates
<1> QED
  BY <1>1, <1>2, <1>3 DEF Next, Quiescent, Acts

LEMMA EarlierNext == ASSUME IInv0, [Next]_vars PROVE EarlierOK'
<1> USE DEF IInv0
<1>1. ASSUME NEW r \in Req, Arrive(r) PROVE EarlierOK'
  <2>1. \A q \in Req : pc[q] \in Answered => pc'[q] \in Answered
    BY <1>1, ArriveFrame DEF Answered
  <2>2. \A p, q \in Req : q \in earlier'[p] => q \in earlier[p] \/ pc[q] \in Answered
    BY <1>1, ArriveFrame DEF TypeOK
  <2> QED
    BY <2>1, <2>2 DEF EarlierOK
<1>2. ASSUME NEW r \in Req, Acts(r) PROVE EarlierOK'
  BY <1>2, StepFrame DEF EarlierOK, Under
<1>3. UNCHANGED vars => EarlierOK'
  BY DEF vars, EarlierOK
<1> QED
  BY <1>1, <1>2, <1>3 DEF Next, Quiescent, Acts

LEMMA IInv0Init == Init => IInv0
<1> SUFFICES ASSUME Init PROVE IInv0
  OBVIOUS
<1>1. TypeOK
  BY ProfilesAssumption DEF Init, TypeOK, PC, UserId
<1>2. PathOK /\ EarlierOK
  BY DEF Init, PathOK, RequestOK, EarlierOK
<1> QED
  BY <1>1, <1>2 DEF IInv0

LEMMA IInv0Next == IInv0 /\ [Next]_vars => IInv0'
BY TypeNext, PathNext, EarlierNext DEF IInv0

\* Every variable keeps its type, and whoever lives has a row: an update writes
\* back a row it has read or nothing.
THEOREM TypeCorrect == Spec => []TypeOK
<1>1. IInv0 => TypeOK
  BY DEF IInv0
<1> QED
  BY IInv0Init, IInv0Next, <1>1, PTL DEF Spec

-----------------------------------------------------------------------------
(* The unique indexes.                                                     *)

\* A row that clashes with none, put in the table under u.
LEMMA RowPut ==
    ASSUME TypeOK, UniqueIdentities, NEW u \in UserId, NEW x \in Row, ~Clash(x, u),
           live' \subseteq live \cup {u}, public' = public, row' = [row EXCEPT ![u] = x]
    PROVE  UniqueIdentities'
<1>1. row'[u] = x /\ \A v \in live \ {u} : row'[v] = row[v]
  BY DEF TypeOK
<1>2. \A e : Key(e)' = Key(e)
  BY DEF Key
<1>3. \A v \in live' \ {u} : v \in live /\ Key(row[v].email) # Key(x.email)
                             /\ row[v].username # x.username
  BY DEF Clash
<1>4. SUFFICES ASSUME NEW v \in live', NEW w \in live', v # w
               PROVE  /\ Key(row'[v].email) # Key(row'[w].email)
                      /\ row'[v].username # row'[w].username
  BY <1>2, Zenon DEF UniqueIdentities
<1>5. CASE v = u
  BY <1>1, <1>3, <1>4, <1>5
<1>6. CASE w = u
  BY <1>1, <1>3, <1>4, <1>6
<1>7. CASE v # u /\ w # u
  BY <1>1, <1>3, <1>4, <1>7 DEF UniqueIdentities
<1> QED
  BY <1>5, <1>6, <1>7

UniqueInv == IInv0 /\ UniqueIdentities

LEMMA UniqueInit == Init => UniqueIdentities
<1> SUFFICES ASSUME Init PROVE UniqueIdentities
  OBVIOUS
<1>1. SUFFICES ASSUME NEW u \in Seeds, NEW v \in Seeds, u # v
               PROVE  /\ Key(Profile[u].email) # Key(Profile[v].email)
                      /\ Profile[u].username # Profile[v].username
  <2>1. \A u \in Seeds : row[u] = Profile[u]
    BY DEF Init, UserId
  <2> QED
    BY <2>1, <1>1 DEF Init, UniqueIdentities
<1>2. Fold[Profile[u].email] # Fold[Profile[v].email] /\ Profile[u].username # Profile[v].username
  BY <1>1, ProfilesAssumption
<1> QED
  BY <1>2 DEF Key

LEMMA UniqueNext == ASSUME UniqueInv, [Next]_vars PROVE UniqueIdentities'
<1> USE DEF UniqueInv, IInv0
<1>0. ASSUME row' = row, live' \subseteq live, public' = public PROVE UniqueIdentities'
  BY <1>0 DEF UniqueIdentities, Key
<1>1. ASSUME NEW r \in Req, Arrive(r) PROVE UniqueIdentities'
  BY <1>0, <1>1, ArriveFrame
<1>2. ASSUME NEW r \in Req, Acts(r) PROVE UniqueIdentities'
  <2>0. public' = public /\ op[r] # None
    BY <1>2, StepFrame
  <2>1. CASE row' = row /\ live' \subseteq live
    BY <1>0, <2>0, <2>1
  <2>2. CASE /\ Save(r) /\ live' = live /\ op[r].user \in live /\ ~Clash(copy[r], op[r].user)
             /\ row' = [row EXCEPT ![op[r].user] =
                    [row[op[r].user] EXCEPT !.email = copy[r].email, !.username = copy[r].username]]
    <3>1. copy[r] \in Row /\ row[op[r].user] \in Row
      BY <2>2 DEF Save, TypeOK, PathOK, RequestOK
    <3> DEFINE x == [row[op[r].user] EXCEPT !.email = copy[r].email, !.username = copy[r].username]
    <3>2. x \in Row /\ x.email = copy[r].email /\ x.username = copy[r].username
      BY <3>1 DEF Row
    <3>3. row' = [row EXCEPT ![op[r].user] = x]
      BY <2>2
    <3> HIDE DEF x
    <3>4. ~Clash(x, op[r].user)
      BY <2>2, <3>2 DEF Clash
    <3> QED
      BY <2>0, <2>2, <3>2, <3>3, <3>4, RowPut DEF TypeOK
  <2>3. CASE /\ SetFirstLogin(r) /\ live' = live /\ op[r].user \in live
             /\ row' = [row EXCEPT ![op[r].user] = [row[op[r].user] EXCEPT !.first = Flag(r)]]
    <3>1. row[op[r].user] \in Row /\ Flag(r) \in BOOLEAN
      BY <2>0, <2>3, FlagFacts DEF SetFirstLogin, TypeOK
    <3> DEFINE x == [row[op[r].user] EXCEPT !.first = Flag(r)]
    <3>2. x \in Row /\ x.email = row[op[r].user].email /\ x.username = row[op[r].user].username
      BY <3>1 DEF Row
    <3>3. row' = [row EXCEPT ![op[r].user] = x]
      BY <2>3
    <3> HIDE DEF x
    <3>4. ~Clash(x, op[r].user)
      BY <2>3, <3>2 DEF Clash, UniqueIdentities
    <3> QED
      BY <2>0, <2>3, <3>2, <3>3, <3>4, RowPut DEF TypeOK
  <2>4. CASE /\ live' = live \cup {r} /\ pc[r] = "insert"
             /\ LET fields == [email |-> op[r].email, username |-> op[r].username,
                               first |-> op[r].first] IN
                ~Clash(fields, r) /\ row' = [row EXCEPT ![r] = fields]
    <3>1. PICK x \in Row : ~Clash(x, r) /\ row' = [row EXCEPT ![r] = x]
      BY <2>0, <2>4, OpFacts DEF PathOK, RequestOK
    <3> QED
      BY <2>0, <2>4, <3>1, RowPut DEF UserId
  <2> QED
    BY <1>2, <2>1, <2>2, <2>3, <2>4, TablesStep
<1>3. UNCHANGED vars => UniqueIdentities'
  BY <1>0 DEF vars
<1> QED
  BY <1>1, <1>2, <1>3 DEF Next, Quiescent, Acts

\* Updates that overlap never leave two users with one email or one username: the
\* indexes compare what is written, whenever it was read.
THEOREM IdentitiesAreUnique == Spec => []UniqueIdentities
<1>1. Init => UniqueInv
  BY IInv0Init, UniqueInit DEF UniqueInv
<1>2. UniqueInv /\ [Next]_vars => UniqueInv'
  BY IInv0Next, UniqueNext DEF UniqueInv
<1>3. UniqueInv => UniqueIdentities
  BY DEF UniqueInv
<1> QED
  BY <1>1, <1>2, <1>3, PTL DEF Spec

-----------------------------------------------------------------------------
(* What an answered update named is in force.                              *)

\* A request has an operation only once it has arrived.
IdleOK == \A r \in Req : pc[r] = "idle" => op[r] = None

\* A registered user lives only by an answered registration, and whom an update
\* has found was registered before: a user deleted meanwhile does not come back.
BornOK == \A u \in live : u \in Req => pc[u] \in Answered

AskedOK ==
    \A r \in Req : /\ pc[r] \in {"save", "first", "groups", "again", "ok"} /\ Updates(r)
                   /\ op[r].user \in Req
                   => pc[op[r].user] \in Answered

LifeOK == IdleOK /\ BornOK /\ AskedOK

LEMMA LiveStep ==
    ASSUME TypeOK, PathOK, NEW r \in Req, Acts(r), NEW u \in live', u \notin live
    PROVE  u = r /\ pc[u] = "insert" /\ pc'[u] = "ok" /\ op[u].kind = "register"
BY TablesStep DEF PathOK, RequestOK, Save, Register, SetFirstLogin

LEMMA LifeNext == ASSUME IInv0, LifeOK, [Next]_vars PROVE LifeOK'
<1> USE DEF IInv0, LifeOK
<1>1. ASSUME NEW r \in Req, Arrive(r) PROVE LifeOK'
  <2>1. /\ live' = live /\ pc[r] = "idle" /\ pc'[r] \in {"insert", "erase", "find", "verify", "password"}
        /\ \A q \in Req \ {r} : op'[q] = op[q] /\ pc'[q] = pc[q]
    BY <1>1, ArriveFrame
  <2>2. \A q \in Req : pc[q] \in Answered => pc'[q] = pc[q]
    BY <2>1 DEF Answered
  <2>3. IdleOK'
    BY <2>1 DEF IdleOK
  <2>4. BornOK'
    BY <2>1, <2>2 DEF BornOK
  <2>5. AskedOK'
    BY <2>1, <2>2 DEF AskedOK, Updates
  <2> QED
    BY <2>3, <2>4, <2>5
<1>2. ASSUME NEW r \in Req, Acts(r) PROVE LifeOK'
  <2>1. /\ op' = op /\ Under(r) /\ op[r] # None /\ pc'[r] # "idle"
        /\ \A q \in Req \ {r} : pc'[q] = pc[q]
    BY <1>2, StepFrame
  <2>2. \A q \in Req : pc[q] \in Answered => pc'[q] = pc[q]
    BY <2>1 DEF Under
  <2>3. IdleOK'
    BY <2>1 DEF IdleOK
  <2>4. BornOK'
    BY <1>2, <2>2, LiveStep DEF BornOK, Answered
  <2>5. pc'[r] \in {"save", "first", "groups", "again", "ok"} /\ Updates(r) =>
            \/ pc[r] \in {"save", "first", "groups", "again"}
            \/ FindUser(r) /\ pc'[r] = "save"
    BY <1>2 DEF Acts, Step, FindUser, Save, SetFirstLogin, ReadGroups, ReadAgain, Register,
       EraseUser, VerifyCurrent, WritePassword, Fail, Goto, Refuse, Updates, PathOK,
       RequestOK, TypeOK
  <2>6. FindUser(r) /\ pc'[r] = "save" /\ op[r].user \in Req => pc[op[r].user] \in Answered
    BY <1>2, CopyStep DEF BornOK
  <2>7. AskedOK'
    BY <2>1, <2>2, <2>5, <2>6 DEF AskedOK, Updates
  <2> QED
    BY <2>3, <2>4, <2>7
<1>3. UNCHANGED vars => LifeOK'
  BY DEF vars, IdleOK, BornOK, AskedOK, Updates
<1> QED
  BY <1>1, <1>2, <1>3 DEF Next, Quiescent, Acts

-----------------------------------------------------------------------------

\* The fields that an update writes from its copy: r.field is r["field"].
Field == {"email", "username"}
Untouched(r, f) == \A q \in Req \ {r} : ~Overwrites(q, r, op[q][f] # None)
Stands(r, f) == Updates(r) /\ op[r].user \in live /\ op[r][f] # None /\ Untouched(r, f)

\* What is about to be saved has what the request named.
CopiedOK ==
    \A r \in Req, f \in Field : pc[r] = "save" /\ op[r][f] # None => copy[r][f] = op[r][f]

\* It is in the table from the save on.
WrittenOK ==
    \A r \in Req, f \in Field :
        pc[r] \in {"first", "groups", "again", "ok"} /\ Stands(r, f) =>
            row[op[r].user][f] = op[r][f]

\* Everybody else who writes the first_login of r's user was answered before r came.
FlagStands(r) ==
    /\ Flags(r) /\ Target(r) \in live
    /\ \A q \in Req \ {r} : Flags(q) /\ Target(q) = Target(r) => q \in earlier[r]

FlagOK ==
    \A r \in Req : pc[r] \in {"groups", "ok"} /\ FlagStands(r) => row[Target(r)].first = Flag(r)

\* A later update has it in its copy, and will write it back.
KeptOK ==
    \A r, q \in Req, f \in Field :
        /\ pc[r] = "ok" /\ Stands(r, f) /\ r \in earlier[q] /\ pc[q] = "save"
        /\ op[q].user = op[r].user /\ op[q][f] = None
        => copy[q][f] = op[r][f]

NamedInv == IInv0 /\ LifeOK /\ CopiedOK /\ WrittenOK /\ FlagOK /\ KeptOK

\* What stands after a step stood before it.
LEMMA StandsArrive ==
    ASSUME NamedInv, NEW p \in Req, Arrive(p), NEW r \in Req \ {p}, NEW f, Stands(r, f)'
    PROVE  Stands(r, f)
<1> USE DEF NamedInv, IInv0, LifeOK
<1>1. /\ live' = live /\ pc[p] = "idle" /\ op[p] = None
      /\ \A q \in Req \ {p} : op'[q] = op[q] /\ earlier'[q] = earlier[q]
  BY ArriveFrame DEF IdleOK, TypeOK
<1>2. Updates(r) /\ op[r].user \in live /\ op[r][f] # None
  BY <1>1 DEF Stands, Updates
<1>3. ASSUME NEW q \in Req \ {r} PROVE ~Overwrites(q, r, op[q][f] # None)
  <2>1. CASE q = p
    BY <1>1, <2>1 DEF Overwrites, Updates
  <2>2. CASE q # p
    BY <1>1, <2>2 DEF Overwrites, Updates, Stands, Untouched
  <2> QED
    BY <2>1, <2>2
<1> QED
  BY <1>2, <1>3 DEF Stands, Untouched

LEMMA StandsStep ==
    ASSUME NamedInv, NEW p \in Req, Acts(p), NEW r \in Req, NEW f, Stands(r, f)',
           pc[r] \in {"save", "first", "groups", "again", "ok"}
    PROVE  Stands(r, f)
<1> USE DEF NamedInv, IInv0, LifeOK
<1>1. op' = op /\ earlier' = earlier
  BY StepFrame
<1>2. Updates(r) /\ op[r].user \in live' /\ op[r][f] # None /\ Untouched(r, f)
  BY <1>1 DEF Stands, Untouched, Overwrites, Updates
<1>3. op[r].user \in live
  BY <1>2, LiveStep DEF AskedOK, Answered
<1> QED
  BY <1>2, <1>3 DEF Stands

\* Who writes over what stands arrived after its answer and does not name the field.
LEMMA WriterFacts ==
    ASSUME NamedInv, NEW r \in Req, NEW q \in Req \ {r}, NEW f, Stands(r, f),
           pc[q] \in {"find", "save"}, op[q].user = op[r].user
    PROVE  r \in earlier[q] /\ op[q][f] = None /\ pc[r] \in Answered
<1> USE DEF NamedInv, IInv0
<1>1. Updates(q) /\ pc[q] \notin Answered
  BY DEF PathOK, RequestOK, Answered
<1>2. q \notin earlier[r]
  BY <1>1 DEF EarlierOK
<1>3. ~Overwrites(q, r, op[q][f] # None)
  BY DEF Stands, Untouched
<1>4. r \in earlier[q] /\ op[q][f] = None
  BY <1>1, <1>2, <1>3 DEF Overwrites
<1> QED
  BY <1>4 DEF EarlierOK

\* The fields of a living user after a step.
LEMMA FieldStep ==
    ASSUME IInv0, LifeOK, NEW p \in Req, Acts(p), NEW u \in live
    PROVE  /\ \A f \in Field : row'[u][f] = IF Save(p) /\ op[p].user = u /\ row' # row
                                            THEN copy[p][f] ELSE row[u][f]
           /\ row'[u].first = IF SetFirstLogin(p) /\ op[p].user = u THEN Flag(p) ELSE row[u].first
           /\ Save(p) /\ op[p].user = u /\ pc'[p] \in {"first", "groups"} =>
                 \A f \in Field : row'[u][f] = copy[p][f]
<1> USE DEF IInv0, LifeOK
<1>0. row[u] \in Row /\ u \in UserId /\ op[p] # None
  BY StepFrame DEF TypeOK
<1>1. CASE row' = row /\ ~SetFirstLogin(p)
           /\ ~(Save(p) /\ op[p].user = u /\ pc'[p] \in {"first", "groups"})
  BY <1>1
<1>2. CASE row' = row /\ SetFirstLogin(p)
  <2>1. op[p].user = u => row' = [row EXCEPT ![u].first = Flag(p)]
    BY <1>2 DEF SetFirstLogin
  <2>2. op[p].user = u => row'[u].first = Flag(p)
    BY <1>0, <2>1 DEF TypeOK, Row
  <2>3. ~Save(p)
    BY <1>2 DEF Save, SetFirstLogin
  <2> QED
    BY <1>2, <2>2, <2>3
<1>3. CASE /\ Save(p) /\ live' = live /\ op[p].user \in live
           /\ row' = [row EXCEPT ![op[p].user] =
                 [row[op[p].user] EXCEPT !.email = copy[p].email, !.username = copy[p].username]]
  <2>0. ~SetFirstLogin(p)
    BY <1>3 DEF Save, SetFirstLogin
  <2>1. CASE op[p].user # u
    BY <1>3, <2>0, <2>1 DEF TypeOK
  <2>2. CASE op[p].user = u
    <3>1. copy[p] \in Row
      BY <1>3 DEF Save, TypeOK, PathOK, RequestOK
    <3> DEFINE x == [row[u] EXCEPT !.email = copy[p].email, !.username = copy[p].username]
    <3>2. x.email = copy[p].email /\ x.username = copy[p].username /\ x.first = row[u].first /\ x \in Row
      BY <1>0, <3>1 DEF Row
    <3>3. row' = [row EXCEPT ![u] = x]
      BY <1>3, <2>2
    <3> HIDE DEF x
    <3>4. row'[u] = x
      BY <1>0, <3>3 DEF TypeOK
    <3>5. \A f \in Field : x[f] = copy[p][f]
      BY <3>1, <3>2 DEF Field, Row
    <3>6. row' = row => \A f \in Field : row[u][f] = copy[p][f]
      BY <3>4, <3>5
    <3> QED
      BY <1>3, <2>0, <2>2, <3>2, <3>4, <3>5, <3>6
  <2> QED
    BY <2>1, <2>2
<1>4. CASE /\ SetFirstLogin(p) /\ live' = live /\ op[p].user \in live
           /\ row' = [row EXCEPT ![op[p].user] = [row[op[p].user] EXCEPT !.first = Flag(p)]]
  <2>0. ~Save(p)
    BY <1>4 DEF Save, SetFirstLogin
  <2>1. CASE op[p].user # u
    BY <1>4, <2>0, <2>1 DEF TypeOK
  <2>2. CASE op[p].user = u
    <3>1. Flag(p) \in BOOLEAN
      BY <1>4, FlagFacts DEF SetFirstLogin
    <3> DEFINE x == [row[u] EXCEPT !.first = Flag(p)]
    <3>2. x.email = row[u].email /\ x.username = row[u].username /\ x.first = Flag(p) /\ x \in Row
      BY <1>0, <3>1 DEF Row
    <3>3. row' = [row EXCEPT ![u] = x]
      BY <1>4, <2>2
    <3> HIDE DEF x
    <3>4. row'[u] = x
      BY <1>0, <3>3 DEF TypeOK
    <3>5. \A f \in Field : x[f] = row[u][f]
      BY <1>0, <3>2 DEF Field, Row
    <3> QED
      BY <1>4, <2>0, <2>2, <3>2, <3>4, <3>5
  <2> QED
    BY <2>1, <2>2
<1>5. CASE Register(p) /\ pc[p] = "insert"
           /\ row' = [row EXCEPT ![p] = [email |-> op[p].email, username |-> op[p].username,
                                         first |-> op[p].first]]
  <2>1. u # p
    BY <1>5 DEF BornOK, Answered
  <2>2. row'[u] = row[u] /\ ~Save(p) /\ ~SetFirstLogin(p)
    BY <1>0, <1>5, <2>1 DEF TypeOK, Save, SetFirstLogin
  <2> QED
    BY <2>2
<1>6. Save(p) /\ op[p].user = u /\ pc'[p] \in {"first", "groups"} =>
          /\ live' = live /\ op[p].user \in live
          /\ row' = [row EXCEPT ![op[p].user] =
                 [row[op[p].user] EXCEPT !.email = copy[p].email, !.username = copy[p].username]]
  BY <1>0 DEF Save, Goto, Refuse, TypeOK
<1> QED
  BY <1>1, <1>2, <1>3, <1>4, <1>5, <1>6, TablesStep

LEMMA CopiedNext == ASSUME NamedInv, [Next]_vars PROVE CopiedOK'
<1> USE DEF NamedInv, IInv0
<1>1. ASSUME NEW r \in Req, Arrive(r) PROVE CopiedOK'
  BY <1>1, ArriveFrame DEF CopiedOK
<1>2. ASSUME NEW r \in Req, Acts(r) PROVE CopiedOK'
  <2>1. op' = op /\ op[r] # None /\ \A q \in Req \ {r} : pc'[q] = pc[q] /\ copy'[q] = copy[q]
    BY <1>2, StepFrame
  <2>2. pc'[r] = "save" => \A f \in Field : op[r][f] # None => copy'[r][f] = op[r][f]
    <3>1. SUFFICES ASSUME pc'[r] = "save"
                   PROVE  \A f \in Field : op[r][f] # None => copy'[r][f] = op[r][f]
      OBVIOUS
    <3>2. op[r].user \in live /\ copy'[r] = Merged(r, op[r].user)
      BY <1>2, <3>1, LabelStep, CopyStep
    <3>3. copy'[r] \in Row
      BY <2>1, <3>2, MergedFacts
    <3>4. /\ op[r].email # None => copy'[r].email = op[r].email
          /\ op[r].username # None => copy'[r].username = op[r].username
      BY <2>1, <3>2, MergedFacts
    <3>5. op[r] \in Op
      BY <2>1, OpFacts, ProfileOpsAssumption
    <3> QED
      BY <3>3, <3>4, <3>5 DEF Field, Row, Op
  <2> QED
    BY <2>1, <2>2 DEF CopiedOK
<1>3. UNCHANGED vars => CopiedOK'
  BY DEF vars, CopiedOK
<1> QED
  BY <1>1, <1>2, <1>3 DEF Next, Quiescent, Acts

LEMMA WrittenNext == ASSUME NamedInv, [Next]_vars PROVE WrittenOK'
<1> USE DEF NamedInv, IInv0
<1>1. ASSUME NEW p \in Req, Arrive(p) PROVE WrittenOK'
  <2>1. /\ row' = row /\ pc'[p] \notin {"first", "groups", "again", "ok"}
        /\ \A q \in Req \ {p} : pc'[q] = pc[q] /\ op'[q] = op[q]
    BY <1>1, ArriveFrame
  <2>2. SUFFICES ASSUME NEW r \in Req \ {p}, NEW f \in Field, Stands(r, f)',
                        pc[r] \in {"first", "groups", "again", "ok"}
                 PROVE  row[op[r].user][f] = op[r][f]
    BY <2>1 DEF WrittenOK
  <2> QED
    BY <1>1, <2>2, StandsArrive DEF WrittenOK
<1>2. ASSUME NEW p \in Req, Acts(p) PROVE WrittenOK'
  <2>1. op' = op /\ \A q \in Req \ {p} : pc'[q] = pc[q]
    BY <1>2, StepFrame
  <2>2. SUFFICES ASSUME NEW r \in Req, NEW f \in Field, Stands(r, f)',
                        pc'[r] \in {"first", "groups", "again", "ok"}
                 PROVE  row'[op[r].user][f] = op[r][f]
    BY <2>1 DEF WrittenOK
  <2>3. Updates(r)
    BY <2>1, <2>2 DEF Stands, Updates
  <2>4. CASE p = r
    <3>1. \/ Save(r) /\ pc'[r] \in {"first", "groups"} /\ pc[r] = "save"
          \/ ~Save(r) /\ pc[r] \in {"first", "groups", "again"}
      BY <1>2, <2>2, <2>3, <2>4 DEF Acts, Step, FindUser, Save, SetFirstLogin, ReadGroups,
         ReadAgain, Register, EraseUser, VerifyCurrent, WritePassword, Fail, Goto, Refuse,
         AfterSave, Updates, PathOK, RequestOK, TypeOK
    <3>2. Stands(r, f)
      BY <1>2, <2>2, <3>1, StandsStep
    <3>3. op[r].user \in live /\ op[r][f] # None
      BY <3>2 DEF Stands
    <3>4. CASE Save(r) /\ pc'[r] \in {"first", "groups"} /\ pc[r] = "save"
      BY <1>2, <2>4, <3>3, <3>4, FieldStep DEF CopiedOK
    <3>5. CASE ~Save(r) /\ pc[r] \in {"first", "groups", "again"}
      BY <1>2, <2>4, <3>2, <3>3, <3>5, FieldStep DEF WrittenOK
    <3> QED
      BY <3>1, <3>4, <3>5
  <2>5. CASE p # r
    <3>1. pc[r] \in {"first", "groups", "again", "ok"}
      BY <2>1, <2>2, <2>5
    <3>2. Stands(r, f)
      BY <1>2, <2>2, <3>1, StandsStep
    <3>3. op[r].user \in live /\ row[op[r].user][f] = op[r][f]
      BY <3>1, <3>2 DEF Stands, WrittenOK
    <3>4. CASE Save(p) /\ op[p].user = op[r].user
      <4>1. pc[p] = "save"
        BY <3>4 DEF Save
      <4>2. r \in earlier[p] /\ op[p][f] = None /\ pc[r] \in Answered
        BY <2>5, <3>2, <3>4, <4>1, WriterFacts
      <4>3. pc[r] = "ok"
        BY <3>1, <4>2 DEF Answered
      <4>4. copy[p][f] = op[r][f]
        BY <3>2, <3>4, <4>1, <4>2, <4>3 DEF KeptOK
      <4> QED
        BY <1>2, <3>3, <4>4, FieldStep
    <3>5. CASE ~(Save(p) /\ op[p].user = op[r].user)
      BY <1>2, <3>3, <3>5, FieldStep
    <3> QED
      BY <3>4, <3>5
  <2> QED
    BY <2>4, <2>5
<1>3. UNCHANGED vars => WrittenOK'
  BY DEF vars, WrittenOK, Stands, Untouched, Overwrites, Updates
<1> QED
  BY <1>1, <1>2, <1>3 DEF Next, Quiescent, Acts

\* Whoever writes a first_login is answered by the writing, or after it.
LEMMA FlagAnswer ==
    ASSUME IInv0, BornOK, NEW r \in Req, Acts(r), Flags(r), pc'[r] \in {"groups", "ok"},
           Target(r) \in live
    PROVE  pc[r] = "groups" \/ (SetFirstLogin(r) /\ op[r].user = Target(r))
<1> USE DEF IInv0
<1>1. op[r] # None /\ pc[r] \in PC /\ Under(r)
  BY StepFrame DEF TypeOK
<1>2. op[r].kind \in {"admin", "change", "temporary", "register"}
  BY DEF Flags
<1>3. CASE op[r].kind = "register"
  <2>1. r \in live /\ pc[r] = "insert"
    BY <1>3 DEF Target, Acts, Step, Fail, FindUser, Save, SetFirstLogin, ReadGroups, ReadAgain,
       Register, EraseUser, VerifyCurrent, WritePassword, Goto, PathOK, RequestOK, Updates, TypeOK
  <2> QED
    BY <2>1 DEF BornOK, Answered
<1>4. CASE op[r].kind # "register"
  <2>1. SetFirstLogin(r) \/ (pc[r] = "groups") \/ (Save(r) /\ op[r].first = None)
    <3>1. CASE pc'[r] = "groups"
      BY <3>1, LabelStep
    <3>2. CASE pc'[r] = "ok"
      <4>1. ~FindUser(r) /\ ~Save(r) /\ ~Fail(r) /\ ~VerifyCurrent(r) /\ ~WritePassword(r)
        BY <3>2 DEF FindUser, Save, Fail, VerifyCurrent, WritePassword, Goto, Refuse, AfterSave, TypeOK
      <4>2. ~ReadAgain(r) /\ ~Register(r) /\ ~EraseUser(r)
        BY <1>2, <1>4 DEF ReadAgain, Register, EraseUser, PathOK, RequestOK
      <4> QED
        BY <4>1, <4>2 DEF Acts, Step, ReadGroups
    <3> QED
      BY <3>1, <3>2
  <2>2. ~(Save(r) /\ op[r].first = None)
    BY <1>2 DEF Flags, Flag, Save, PathOK, RequestOK, Updates
  <2> QED
    BY <1>4, <2>1, <2>2 DEF Target
<1> QED
  BY <1>3, <1>4

LEMMA FlagNext == ASSUME NamedInv, [Next]_vars PROVE FlagOK'
<1> USE DEF NamedInv, IInv0, LifeOK
<1>1. ASSUME NEW p \in Req, Arrive(p) PROVE FlagOK'
  <2>1. /\ row' = row /\ live' = live /\ pc'[p] \notin {"groups", "ok"} /\ op[p] = None
        /\ \A q \in Req \ {p} : pc'[q] = pc[q] /\ op'[q] = op[q] /\ earlier'[q] = earlier[q]
    BY <1>1, ArriveFrame DEF TypeOK, IdleOK
  <2>2. SUFFICES ASSUME NEW r \in Req \ {p}, FlagStands(r)', pc[r] \in {"groups", "ok"}
                 PROVE  (row[Target(r)].first = Flag(r))'
    BY <2>1 DEF FlagOK
  <2>3. \A q \in Req \ {p} : Target(q)' = Target(q) /\ Flag(q)' = Flag(q) /\ Flags(q)' = Flags(q)
    BY <2>1 DEF Target, Flag, Flags
  <2>4. ~Flags(p)
    BY <2>1 DEF Flags
  <2>5. FlagStands(r)
    BY <2>1, <2>2, <2>3, <2>4 DEF FlagStands
  <2> QED
    BY <2>1, <2>2, <2>3, <2>5 DEF FlagOK
<1>2. ASSUME NEW p \in Req, Acts(p) PROVE FlagOK'
  <2>1. op' = op /\ earlier' = earlier /\ Under(p) /\ \A q \in Req \ {p} : pc'[q] = pc[q]
    BY <1>2, StepFrame
  <2>2. \A q \in Req : Target(q)' = Target(q) /\ Flag(q)' = Flag(q) /\ Flags(q)' = Flags(q)
    BY <2>1 DEF Target, Flag, Flags
  <2>3. SUFFICES ASSUME NEW r \in Req, FlagStands(r)', pc'[r] \in {"groups", "ok"}
                 PROVE  row'[Target(r)].first = Flag(r)
    BY <2>2 DEF FlagOK
  <2> DEFINE u == Target(r)
  <2>4. /\ Flags(r) /\ u \in live'
        /\ p # r => ~(Flags(p) /\ Target(p) = u)
    <3>1. p \notin earlier[r]
      BY <2>1 DEF EarlierOK, Under
    <3> QED
      BY <2>1, <2>2, <2>3, <3>1 DEF FlagStands
  <2>5. u \in live => FlagStands(r)
    BY <2>1, <2>2, <2>3 DEF FlagStands
  \* The user has just been registered.
  <2>6. CASE u \notin live
    <3>1. u = p /\ op[p].kind = "register" /\ pc[p] = "insert" /\ pc'[p] = "ok"
      BY <1>2, <2>4, <2>6, LiveStep
    <3>2. op[p] # None /\ op[p].first # None
      BY <1>2, <3>1, StepFrame, OpFacts, ProfileOpsAssumption
    <3>3. Flags(p) /\ Target(p) = p /\ Flag(p) = op[p].first
      BY <3>1, <3>2 DEF Flags, Target, Flag
    <3>4. p = r
      BY <2>4, <3>1, <3>3
    <3>5. row'[p].first = op[p].first
      <4>1. live' # live /\ ~(live' \subseteq live)
        BY <2>4, <2>6
      <4>2. row' = [row EXCEPT ![p] = [email |-> op[p].email, username |-> op[p].username,
                                       first |-> op[p].first]]
        BY <1>2, <4>1, TablesStep
      <4> QED
        BY <4>2 DEF TypeOK, UserId
    <3> QED
      BY <3>1, <3>3, <3>4, <3>5
  \* Or its flag has just been set.
  <2>7. CASE u \in live /\ SetFirstLogin(p) /\ op[p].user = u
    <3>1. Flags(p) /\ Target(p) = op[p].user
      BY <2>7, FlagFacts DEF SetFirstLogin
    <3>2. p = r
      BY <2>4, <2>7, <3>1
    <3> QED
      BY <1>2, <2>7, <3>2, FieldStep
  \* Or it is what it was.
  <2>8. CASE u \in live /\ ~(SetFirstLogin(p) /\ op[p].user = u)
    <3>1. row'[u].first = row[u].first
      BY <1>2, <2>8, FieldStep
    <3>2. pc[r] \in {"groups", "ok"}
      <4>1. CASE p # r
        BY <2>1, <2>3, <4>1
      <4>2. CASE p = r
        BY <1>2, <2>3, <2>4, <2>8, <4>2, FlagAnswer
      <4> QED
        BY <4>1, <4>2
    <3> QED
      BY <2>5, <2>8, <3>1, <3>2 DEF FlagOK
  <2> QED
    BY <2>6, <2>7, <2>8
<1>3. UNCHANGED vars => FlagOK'
  BY DEF vars, FlagOK, FlagStands, Flags, Target, Flag
<1> QED
  BY <1>1, <1>2, <1>3 DEF Next, Quiescent, Acts

LEMMA KeptNext == ASSUME NamedInv, [Next]_vars PROVE KeptOK'
<1> USE DEF NamedInv, IInv0
<1>1. ASSUME NEW p \in Req, Arrive(p) PROVE KeptOK'
  <2>1. /\ copy' = copy /\ pc'[p] \notin {"save", "ok"}
        /\ \A q \in Req \ {p} : pc'[q] = pc[q] /\ op'[q] = op[q] /\ earlier'[q] = earlier[q]
    BY <1>1, ArriveFrame DEF TypeOK
  <2>2. SUFFICES ASSUME NEW r \in Req \ {p}, NEW q \in Req \ {p}, NEW f \in Field, Stands(r, f)',
                        pc[r] = "ok", r \in earlier[q], pc[q] = "save",
                        op[q].user = op[r].user, op[q][f] = None
                 PROVE  copy[q][f] = op[r][f]
    BY <2>1 DEF KeptOK
  <2>3. Stands(r, f)
    BY <1>1, <2>2, StandsArrive
  <2> QED
    BY <2>2, <2>3 DEF KeptOK
<1>2. ASSUME NEW p \in Req, Acts(p) PROVE KeptOK'
  <2>1. /\ op' = op /\ earlier' = earlier /\ Under(p) /\ op[p] # None
        /\ \A q \in Req \ {p} : pc'[q] = pc[q] /\ copy'[q] = copy[q]
    BY <1>2, StepFrame
  <2>2. SUFFICES ASSUME NEW r \in Req, NEW q \in Req, NEW f \in Field, Stands(r, f)',
                        pc'[r] = "ok", r \in earlier[q], pc'[q] = "save",
                        op[q].user = op[r].user, op[q][f] = None
                 PROVE  copy'[q][f] = op[r][f]
    BY <2>1 DEF KeptOK
  <2>3. p # r /\ pc[r] = "ok"
    BY <2>1, <2>2 DEF EarlierOK, Under
  <2>4. Stands(r, f)
    BY <1>2, <2>2, <2>3, StandsStep
  <2>5. CASE q # p
    BY <2>1, <2>2, <2>3, <2>4, <2>5 DEF KeptOK
  <2>6. CASE q = p
    <3>1. op[q].user \in live /\ copy'[q] = Merged(q, op[q].user)
      BY <1>2, <2>2, <2>6, LabelStep, CopyStep
    <3>2. row[op[q].user][f] = op[r][f]
      BY <2>2, <2>3, <2>4 DEF WrittenOK
    <3>3. Merged(q, op[q].user)[f] = row[op[q].user][f]
      <4>1. Merged(q, op[q].user) \in Row /\ row[op[q].user] \in Row
        BY <2>1, <2>6, <3>1, MergedFacts
      <4>2. CASE f = "email"
        BY <2>1, <2>2, <2>6, <3>1, <4>1, <4>2, MergedFacts DEF Row
      <4>3. CASE f = "username"
        BY <2>1, <2>2, <2>6, <3>1, <4>1, <4>3, MergedFacts DEF Row
      <4> QED
        BY <4>2, <4>3 DEF Field
    <3> QED
      BY <3>1, <3>2, <3>3
  <2> QED
    BY <2>5, <2>6
<1>3. UNCHANGED vars => KeptOK'
  BY DEF vars, KeptOK, Stands, Untouched, Overwrites, Updates
<1> QED
  BY <1>1, <1>2, <1>3 DEF Next, Quiescent, Acts

\* The email or username that an answered update named is in force until another
\* update of that user that overlapped it, or that names the field: whoever writes
\* a field back as it was read has read it after the answer. And first_login is
\* what the last call that writes it made of it, whichever of the four it was.
THEOREM NamedStands == Spec => []NamedFieldsStand
<1>1. Init => NamedInv
  <2> SUFFICES ASSUME Init PROVE NamedInv
    OBVIOUS
  <2>1. IInv0 /\ \A r \in Req : pc[r] = "idle"
    BY IInv0Init DEF Init
  <2>2. LifeOK
    BY <2>1, ProfilesAssumption DEF Init, LifeOK, IdleOK, BornOK, AskedOK
  <2> QED
    BY <2>1, <2>2 DEF NamedInv, CopiedOK, WrittenOK, FlagOK, KeptOK
<1>2. NamedInv /\ [Next]_vars => NamedInv'
  BY IInv0Next, LifeNext, CopiedNext, WrittenNext, FlagNext, KeptNext DEF NamedInv
<1>3. NamedInv => NamedFieldsStand
  <2> SUFFICES ASSUME NamedInv, NEW r \in Req, pc[r] = "ok"
               PROVE  /\ Updates(r) /\ op[r].user \in live =>
                            \A f \in Field : op[r][f] # None /\ Untouched(r, f) =>
                                row[op[r].user][f] = op[r][f]
                      /\ FlagStands(r) => row[Target(r)].first = Flag(r)
    BY DEF NamedFieldsStand, Field, Untouched, FlagStands
  <2>1. Updates(r) /\ op[r].user \in live =>
            \A f \in Field : op[r][f] # None /\ Untouched(r, f) => row[op[r].user][f] = op[r][f]
    BY DEF NamedInv, WrittenOK, Stands
  <2>2. FlagStands(r) => row[Target(r)].first = Flag(r)
    BY DEF NamedInv, FlagOK
  <2> QED
    BY <2>1, <2>2
<1> QED
  BY <1>1, <1>2, <1>3, PTL DEF Spec
=============================================================================

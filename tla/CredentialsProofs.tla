------------------------- MODULE CredentialsProofs -------------------------
(* Proofs about Credentials for any number of requests and accounts. *)
EXTENDS Credentials, TLAPS

LEMMA OpFacts ==
    ASSUME op \in [Req -> Ops], NEW r \in Req
    PROVE  /\ op[r].kind \in Kind /\ op[r].user \in User \cup {None}
           /\ op[r].kind \notin {"reset", "cleanup"} => op[r].user \in User
           /\ op[r].kind \in {"login", "change"} => op[r].current \in Secret
           /\ op[r].kind \in {"change", "set", "reset"} => op[r].new \in Chosen
           /\ op[r].kind = "reset" => op[r].token \in Req
           /\ op[r].kind = "update" => op[r].first \in BOOLEAN
BY OpsAssumption DEF Op

\* What a label says of the kind of its request and of the account it acts on.
PathOK ==
    \A r \in Req :
        /\ pc[r] = "session" => op[r].kind = "login"
        /\ pc[r] = "verify" => op[r].kind = "change"
        /\ pc[r] \in {"token", "mark"} => op[r].kind = "reset"
        /\ pc[r] = "write" => op[r].kind \in {"change", "temporary", "set", "reset"}
        /\ pc[r] = "flag" => op[r].kind \in {"change", "temporary", "update"}
        /\ pc[r] \in {"profile", "names"} => op[r].kind = "update"
        /\ pc[r] = "find" => op[r].kind \in {"login", "set", "forgot", "update"}
        /\ pc[r] = "issue" => op[r].kind = "forgot"
        /\ pc[r] = "erase" => op[r].kind = "delete"
        /\ pc[r] = "purge" => op[r].kind = "cleanup"
        /\ pc[r] # "idle" /\ op[r].kind # "reset" => owner[r] = op[r].user

LEMMA FirstLabelFacts ==
    ASSUME NEW kind \in Kind
    PROVE  /\ FirstLabel(kind) \in PC \ (Answered \cup {"idle", "flag", "mark", "issue", "session",
                                                        "profile", "names"})
           /\ FirstLabel(kind) = "find" => kind \in {"login", "set", "forgot", "update"}
           /\ FirstLabel(kind) = "verify" => kind = "change"
           /\ FirstLabel(kind) = "write" => kind = "temporary"
           /\ FirstLabel(kind) = "token" => kind = "reset"
           /\ FirstLabel(kind) = "erase" => kind = "delete"
           /\ FirstLabel(kind) = "purge" => kind = "cleanup"
BY DEF FirstLabel, Kind, PC, Answered

LEMMA SecretFacts ==
    ASSUME op \in [Req -> Ops], NEW r \in Req, op[r].kind \in {"change", "temporary", "set", "reset"}
    PROVE  NewSecret(r) \in Secret
BY OpFacts DEF NewSecret, Secret

-----------------------------------------------------------------------------
(* Type correctness. *)

LEMMA TypeInit == Init => TypeOK
BY SecretsAssumption DEF Init, TypeOK, Secret, PC, Answered

LEMMA TypeStep ==
    ASSUME TypeOK, PathOK, NEW r \in Req, Step(r)
    PROVE  TypeOK'
<1> USE DEF Goto
<1>1. CASE FindForLogin(r)
  BY <1>1, OpFacts DEF FindForLogin, TypeOK, PC, Answered, PathOK
<1>2. CASE OpenSession(r)
  BY <1>2 DEF OpenSession, TypeOK, PC, Answered
<1>3. CASE VerifyCurrent(r)
  BY <1>3, OpFacts DEF VerifyCurrent, TypeOK, PC, Answered, PathOK
<1>4. CASE FindForSet(r)
  BY <1>4, OpFacts DEF FindForSet, TypeOK, PC, Answered, PathOK
<1>5. CASE FindValidToken(r)
  BY <1>5 DEF FindValidToken, TypeOK, PC, Answered, Token
<1>6. CASE WritePassword(r)
  <2>1. op[r].kind \in {"change", "temporary", "set", "reset"} /\ owner[r] \in User
    BY <1>6 DEF WritePassword, PathOK, TypeOK
  <2>2. NewSecret(r) \in Secret
    BY <2>1, SecretFacts DEF TypeOK
  <2>3. AfterWrite[op[r].kind] \in {"flag", "ok", "mark"}
    BY <2>1 DEF AfterWrite
  <2>4. pc' \in [Req -> PC] /\ \A q \in Req : pc'[q] \in {"write", "flag", "mark"} => owner[q] \in User
    BY <1>6, <2>1, <2>3 DEF WritePassword, TypeOK, PC, Answered
  <2>5. pw' \in [User -> Secret] /\ setter' \in [User -> Req \cup {None}]
        /\ inforce' \in [Req -> SUBSET Secret]
    BY <1>6, <2>2 DEF WritePassword, TypeOK
  <2> QED
    BY <1>6, <2>4, <2>5 DEF WritePassword, TypeOK
<1>7. CASE SetFirstLogin(r)
  <2>1. Flag(r) \in BOOLEAN
    BY OpFacts DEF Flag, TypeOK
  <2> QED
    BY <1>7, <2>1 DEF SetFirstLogin, TypeOK, PC, Answered
<1>8. CASE MarkTokenUsed(r)
  <2>1. tokens' \subseteq Token
    <3> SUFFICES ASSUME NEW t \in tokens
                 PROVE  (IF t.id = op[r].token THEN [t EXCEPT !.used = TRUE] ELSE t) \in Token
      BY <1>8 DEF MarkTokenUsed
    <3>1. t \in Token
      BY DEF TypeOK
    <3>2. [t EXCEPT !.used = TRUE] \in Token
      BY <3>1 DEF Token
    <3> QED
      BY <3>1, <3>2
  <2> QED
    BY <1>8, <2>1 DEF MarkTokenUsed, TypeOK, PC, Answered
<1>9. CASE FindForToken(r)
  BY <1>9 DEF FindForToken, TypeOK, PC, Answered
<1>10. CASE CreateResetToken(r)
  <2>1. r \in Req /\ op[r].user \in User \cup {None} /\ live \subseteq User /\ tokens \subseteq Token
    BY OpFacts DEF TypeOK
  <2>2. tokens' \subseteq Token
    <3>1. CASE op[r].user \notin live
      BY <1>10, <2>1, <3>1 DEF CreateResetToken
    <3>2. CASE op[r].user \in live
      <4>1. [id |-> r, user |-> op[r].user, used |-> FALSE, expired |-> FALSE] \in Token
        BY <2>1, <3>2 DEF Token
      <4> QED
        BY <1>10, <2>1, <3>2, <4>1 DEF CreateResetToken
    <3> QED
      BY <3>1, <3>2
  <2> QED
    BY <1>10, <2>2 DEF CreateResetToken, TypeOK, PC, Answered
<1>11. CASE Purge(r)
  BY <1>11 DEF Purge, TypeOK, PC, Answered
<1>12. CASE DeleteUser(r)
  BY <1>12 DEF DeleteUser, TypeOK, PC, Answered
<1>13. CASE FindForUpdate(r) \/ SaveProfile(r) \/ ReadGroupNames(r)
  BY <1>13, OpFacts DEF FindForUpdate, SaveProfile, ReadGroupNames, TypeOK, PC, Answered, PathOK
<1> QED
  BY <1>1, <1>2, <1>3, <1>4, <1>5, <1>6, <1>7, <1>8, <1>9, <1>10, <1>11, <1>12, <1>13 DEF Step

LEMMA TypeNext ==
    ASSUME TypeOK, PathOK, [Next]_vars
    PROVE  TypeOK'
<1>1. CASE UNCHANGED vars
  BY <1>1 DEF vars, TypeOK
<1>2. ASSUME NEW r \in Req, Arrive(r)
      PROVE  TypeOK'
  BY <1>2, OpFacts, FirstLabelFacts DEF Arrive, Goto, TypeOK
<1>3. ASSUME NEW r \in Req, Fail(r)
      PROVE  TypeOK'
  BY <1>3 DEF Fail, Goto, TypeOK, PC, Answered
<1>4. ASSUME NEW t \in tokens, Expire(t)
      PROVE  TypeOK'
  BY <1>4 DEF Expire, TypeOK, Token
<1> QED
  BY <1>1, <1>2, <1>3, <1>4, TypeStep DEF Next, Quiescent

LEMMA Frame ==
    ASSUME TypeOK, [Next]_vars
    PROVE  /\ op' = op
           /\ \/ UNCHANGED vars
              \/ \E t \in tokens : Expire(t)
              \/ \E r \in Req :
                    /\ Arrive(r) \/ Step(r) \/ Fail(r)
                    /\ \A q \in Req \ {r} :
                          /\ pc'[q] = pc[q] /\ owner'[q] = owner[q]
                          /\ must'[q] = must[q] /\ earlier'[q] = earlier[q]
<1>1. op' = op
  BY DEF Next, Quiescent, vars, Expire, Arrive, Fail, Step, FindForLogin, OpenSession,
     VerifyCurrent, FindForSet, FindValidToken, WritePassword, SetFirstLogin, MarkTokenUsed,
     FindForUpdate, SaveProfile, ReadGroupNames, FindForToken, CreateResetToken, Purge,
     DeleteUser
<1>2. ASSUME NEW r \in Req, Arrive(r) \/ Step(r) \/ Fail(r), NEW q \in Req \ {r}
      PROVE  /\ pc'[q] = pc[q] /\ owner'[q] = owner[q]
             /\ must'[q] = must[q] /\ earlier'[q] = earlier[q]
  BY <1>2 DEF Arrive, Fail, Step, FindForLogin, OpenSession, VerifyCurrent, FindForSet,
     FindValidToken, WritePassword, SetFirstLogin, MarkTokenUsed, FindForUpdate, SaveProfile,
     ReadGroupNames, FindForToken, CreateResetToken, Purge, DeleteUser, Goto, TypeOK
<1> QED
  BY <1>1, <1>2 DEF Next, Quiescent

LEMMA PathNext ==
    ASSUME TypeOK, PathOK, [Next]_vars
    PROVE  PathOK'
<1>1. CASE UNCHANGED vars \/ \E t \in tokens : Expire(t)
  BY <1>1 DEF vars, Expire, PathOK
<1> SUFFICES ASSUME NEW r \in Req, Arrive(r) \/ Step(r) \/ Fail(r),
                    \A q \in Req \ {r} : pc'[q] = pc[q] /\ owner'[q] = owner[q]
             PROVE  PathOK'
  BY <1>1, Frame
<1> USE DEF Goto, TypeOK
<1>2. CASE Arrive(r)
  <2>1. pc'[r] = FirstLabel(op[r].kind) /\ owner'[r] = op[r].user
    BY <1>2 DEF Arrive
  <2> QED
    BY <2>1, Frame, OpFacts, FirstLabelFacts DEF PathOK, Answered
<1>3. CASE Fail(r)
  BY <1>3 DEF Fail, PathOK, Answered
<1>4. CASE Step(r)
  <2>1. CASE FindForLogin(r) \/ OpenSession(r) \/ VerifyCurrent(r) \/ FindForSet(r)
    BY <2>1 DEF FindForLogin, OpenSession, VerifyCurrent, FindForSet, PathOK
  <2>2. CASE FindValidToken(r)
    BY <2>2 DEF FindValidToken, PathOK
  <2>3. CASE WritePassword(r)
    <3>1. /\ AfterWrite[op[r].kind] = "flag" => op[r].kind \in {"change", "temporary"}
          /\ AfterWrite[op[r].kind] = "mark" => op[r].kind = "reset"
          /\ AfterWrite[op[r].kind] \in {"flag", "mark", "ok"}
      BY <2>3 DEF WritePassword, PathOK, AfterWrite
    <3> QED
      BY <2>3, <3>1 DEF WritePassword, PathOK
  <2>4. CASE SetFirstLogin(r) \/ MarkTokenUsed(r) \/ FindForToken(r)
    BY <2>4 DEF SetFirstLogin, MarkTokenUsed, FindForToken, PathOK
  <2>5. CASE CreateResetToken(r) \/ Purge(r) \/ DeleteUser(r)
    BY <2>5 DEF CreateResetToken, Purge, DeleteUser, PathOK
  <2>6. CASE FindForUpdate(r) \/ SaveProfile(r) \/ ReadGroupNames(r)
    BY <2>6 DEF FindForUpdate, SaveProfile, ReadGroupNames, PathOK
  <2> QED
    BY <1>4, <2>1, <2>2, <2>3, <2>4, <2>5, <2>6 DEF Step
<1> QED
  BY <1>2, <1>3, <1>4

\* Every variable keeps its type, and whoever is about to write a password or
\* its flag knows the account.
THEOREM TypeCorrect == Spec => []TypeOK
<1>1. Init => TypeOK /\ PathOK
  BY TypeInit DEF Init, PathOK
<1>2. TypeOK /\ PathOK /\ [Next]_vars => (TypeOK /\ PathOK)'
  BY TypeNext, PathNext
<1> QED
  BY <1>1, <1>2, PTL DEF Spec

-----------------------------------------------------------------------------
(* How the histories move. *)

\* An answer is final, a request never becomes idle again, the histories of a
\* request that has arrived only grow, and a deleted account stays deleted.
LEMMA Forward ==
    ASSUME TypeOK, PathOK, [Next]_vars, NEW q \in Req
    PROVE  /\ pc[q] \in Answered => pc'[q] = pc[q]
           /\ pc[q] # "idle" => pc'[q] # "idle" /\ earlier'[q] = earlier[q] /\ inforce[q] \subseteq inforce'[q]
           /\ live' \subseteq live
<1> USE DEF TypeOK, Goto, Answered
<1>1. CASE UNCHANGED vars \/ \E t \in tokens : Expire(t)
  BY <1>1 DEF vars, Expire
<1>2. ASSUME NEW r \in Req, Arrive(r)
      PROVE  /\ pc[q] \in Answered => pc'[q] = pc[q]
             /\ pc[q] # "idle" => pc'[q] # "idle" /\ earlier'[q] = earlier[q] /\ inforce[q] \subseteq inforce'[q]
             /\ live' \subseteq live
  BY <1>2 DEF Arrive
<1>3. ASSUME NEW r \in Req, Fail(r)
      PROVE  /\ pc[q] \in Answered => pc'[q] = pc[q]
             /\ pc[q] # "idle" => pc'[q] # "idle" /\ earlier'[q] = earlier[q] /\ inforce[q] \subseteq inforce'[q]
             /\ live' \subseteq live
  BY <1>3 DEF Fail
<1>4. ASSUME NEW r \in Req, WritePassword(r)
      PROVE  /\ pc[q] \in Answered => pc'[q] = pc[q]
             /\ pc[q] # "idle" => pc'[q] # "idle" /\ earlier'[q] = earlier[q] /\ inforce[q] \subseteq inforce'[q]
             /\ live' \subseteq live
  <2>1. AfterWrite[op[r].kind] # "idle"
    BY <1>4 DEF WritePassword, PathOK, AfterWrite
  <2> QED
    BY <1>4, <2>1 DEF WritePassword
<1>5. ASSUME NEW r \in Req, Step(r), ~WritePassword(r)
      PROVE  /\ pc[q] \in Answered => pc'[q] = pc[q]
             /\ pc[q] # "idle" => pc'[q] # "idle" /\ earlier'[q] = earlier[q] /\ inforce[q] \subseteq inforce'[q]
             /\ live' \subseteq live
  BY <1>5 DEF Step, FindForLogin, OpenSession, VerifyCurrent, FindForSet, FindValidToken,
     SetFirstLogin, MarkTokenUsed, FindForUpdate, SaveProfile, ReadGroupNames, FindForToken,
     CreateResetToken, Purge, DeleteUser
<1> QED
  BY <1>1, <1>2, <1>3, <1>4, <1>5 DEF Next, Quiescent, Step

\* Passwords and their setters change in WritePassword only.
LEMMA OnlyWrites ==
    ASSUME [Next]_vars
    PROVE  \/ pw' = pw /\ setter' = setter
           \/ \E r \in Req : WritePassword(r) /\ owner[r] \in live
BY DEF Next, Quiescent, vars, Expire, Arrive, Fail, Step, FindForLogin, OpenSession,
   VerifyCurrent, FindForSet, FindValidToken, WritePassword, SetFirstLogin, MarkTokenUsed,
   FindForUpdate, SaveProfile, ReadGroupNames, FindForToken, CreateResetToken, Purge, DeleteUser

\* first_login falls in SetFirstLogin only, of a call that lowers it.
LEMMA OnlyFlagsLower ==
    ASSUME TypeOK, [Next]_vars, NEW u \in User, first[u], ~first'[u]
    PROVE  \E c \in Req : SetFirstLogin(c) /\ ~Flag(c) /\ owner[c] = u /\ u \in live
BY DEF TypeOK, Next, Quiescent, vars, Expire, Arrive, Fail, Step, FindForLogin, OpenSession,
   VerifyCurrent, FindForSet, FindValidToken, WritePassword, SetFirstLogin, MarkTokenUsed,
   FindForUpdate, SaveProfile, ReadGroupNames, FindForToken, CreateResetToken, Purge, DeleteUser

-----------------------------------------------------------------------------
(* The inductive invariant, in parts. *)

\* inforce follows the password of the account, and earlier names answered
\* requests only.
HistoryOK ==
    \A q \in Req : pc[q] # "idle" =>
        /\ op[q].user \in User => pw[op[q].user] \in inforce[q]
        /\ \A r \in earlier[q] : pc[r] \in Answered

\* Tokens come from forgot requests answered ok, for the account they name; a
\* reset under way was given such a token, and one answered ok has spent it.
TokensOK ==
    /\ \A t \in tokens : op[t.id].kind = "forgot" /\ op[t.id].user = t.user /\ pc[t.id] = "ok"
    /\ \A r \in Req : op[r].kind = "reset" /\ pc[r] \in {"write", "mark", "ok"} =>
          /\ pc[op[r].token] = "ok"
          /\ pc[r] = "ok" => \A t \in tokens : t.id = op[r].token => t.used

\* Whoever is about to write has the authority to.
WriteOK ==
    \A r \in Req : pc[r] = "write" =>
        /\ NewSecret(r) \notin Short
        /\ op[r].kind = "change" => op[r].current \in inforce[r]
        /\ op[r].kind = "reset" => op[op[r].token].kind = "forgot" /\ op[op[r].token].user = owner[r]

\* A password nobody has set is the one its account was created with; one that
\* somebody has set was set by a request of a kind that does.
SetterOK ==
    \A u \in User :
        IF setter[u] = None THEN pw[u] = Original
        ELSE /\ pc[setter[u]] # "idle"
             /\ op[setter[u]].kind \in {"change", "temporary", "set", "reset"}

\* The password of a login about to open its session was in force.
LoginOK ==
    \A r \in Req : op[r].kind = "login" /\ pc[r] = "session" => op[r].current \in inforce[r]

\* The request that set the password now in force had not been answered when a
\* change now about to lower first_login arrived.
LateOK ==
    \A c \in Req : pc[c] = "flag" /\ op[c].kind = "change" /\ owner[c] \in live =>
        setter[owner[c]] \notin earlier[c]

\* As TemporaryLoginIsTold, from the moment the password is verified.
ToldOK ==
    \A r, q \in Req :
        /\ op[r].kind = "temporary" /\ pc[r] = "ok" /\ r \in earlier[q]
        /\ op[q].kind = "login" /\ op[q].current = r /\ pc[q] \in {"session", "ok"}
        => must[q] \/ \E l \in Req : Lowers(l, r) /\ q \notin earlier[l]

IInv ==
    /\ TypeOK /\ PathOK /\ HistoryOK /\ TokensOK /\ WriteOK /\ SetterOK /\ LoginOK /\ LateOK /\ ToldOK
    /\ PasswordAuthority /\ SessionsUseCurrentPassword /\ SpentTokensStaySpent /\ TemporaryMustBeChanged

-----------------------------------------------------------------------------
(* Who moves a request, and where to. *)

LEMMA Moves ==
    ASSUME TypeOK, [Next]_vars, NEW q \in Req, pc'[q] # pc[q]
    PROVE  Arrive(q) \/ Step(q) \/ Fail(q)
BY Frame DEF vars, Expire

LEMMA Holds ==
    ASSUME TypeOK, [Next]_vars, NEW q \in Req
    PROVE  /\ pc[q] \notin {"idle", "token"} => owner'[q] = owner[q]
           /\ pc[q] \in {"session", "ok"} => must'[q] = must[q]
<1>1. ASSUME NEW r \in Req, Arrive(r) \/ Step(r) \/ Fail(r)
      PROVE  /\ pc[q] \notin {"idle", "token"} => owner'[q] = owner[q]
             /\ pc[q] \in {"session", "ok"} => must'[q] = must[q]
  BY <1>1 DEF TypeOK, Arrive, Fail, Step, FindForLogin, OpenSession, VerifyCurrent, FindForSet,
     FindValidToken, WritePassword, SetFirstLogin, MarkTokenUsed, FindForUpdate, SaveProfile,
     ReadGroupNames, FindForToken, CreateResetToken, Purge, DeleteUser
<1> QED
  BY <1>1 DEF Next, Quiescent, vars, Expire

LEMMA Arrives ==
    ASSUME TypeOK, NEW q \in Req, Arrive(q)
    PROVE  /\ pc[q] = "idle" /\ pc'[q] = FirstLabel(op[q].kind)
           /\ pw' = pw /\ tokens' = tokens /\ owner'[q] = op[q].user
           /\ earlier'[q] = {r \in Req : pc[r] \in Answered}
           /\ op[q].user \in User => inforce'[q] = {pw[op[q].user]}
           /\ op[q].kind \in Kind
           /\ pc'[q] \notin Answered \cup {"idle", "flag", "mark", "issue", "session", "profile", "names"}
BY OpFacts, FirstLabelFacts DEF Arrive, Goto, TypeOK

\* The way of a login, of a reset by token and of a temporary password.
LEMMA LoginMoves ==
    ASSUME TypeOK, PathOK, [Next]_vars, NEW q \in Req, pc'[q] # pc[q], op[q].kind = "login"
    PROVE  Arrive(q) \/ Fail(q) \/ FindForLogin(q) \/ OpenSession(q)
BY Moves DEF PathOK, Step, VerifyCurrent, FindForSet, FindValidToken, WritePassword,
   SetFirstLogin, MarkTokenUsed, FindForUpdate, SaveProfile, ReadGroupNames, FindForToken,
   CreateResetToken, Purge, DeleteUser

LEMMA ResetMoves ==
    ASSUME TypeOK, PathOK, [Next]_vars, NEW q \in Req, pc'[q] # pc[q], op[q].kind = "reset"
    PROVE  Arrive(q) \/ Fail(q) \/ FindValidToken(q) \/ WritePassword(q) \/ MarkTokenUsed(q)
BY Moves DEF PathOK, Step, VerifyCurrent, FindForSet, FindForLogin, OpenSession, SetFirstLogin,
   FindForUpdate, SaveProfile, ReadGroupNames, FindForToken, CreateResetToken, Purge, DeleteUser

LEMMA TemporaryMoves ==
    ASSUME TypeOK, PathOK, [Next]_vars, NEW q \in Req, pc'[q] # pc[q], op[q].kind = "temporary"
    PROVE  Arrive(q) \/ Fail(q) \/ WritePassword(q) \/ SetFirstLogin(q)
BY Moves DEF PathOK, Step, VerifyCurrent, FindForSet, FindForLogin, OpenSession, FindValidToken,
   MarkTokenUsed, FindForUpdate, SaveProfile, ReadGroupNames, FindForToken, CreateResetToken,
   Purge, DeleteUser

\* A token row was there before, for the same account and no less used, or it
\* has just been issued.
LEMMA TokenOrigin ==
    ASSUME TypeOK, [Next]_vars, NEW t \in tokens'
    PROVE  \/ \E s \in tokens : s.id = t.id /\ s.user = t.user /\ (s.used => t.used)
           \/ \E r \in Req : /\ CreateResetToken(r) /\ pc'[r] = "ok"
                             /\ t.id = r /\ t.user = op[r].user
<1>1. CASE tokens' = tokens
  BY <1>1
<1>2. ASSUME NEW e \in tokens, Expire(e)
      PROVE  \E s \in tokens : s.id = t.id /\ s.user = t.user /\ (s.used => t.used)
  <2>1. t \in tokens \/ t = [e EXCEPT !.expired = TRUE]
    BY <1>2 DEF Expire
  <2>2. e \in Token
    BY DEF TypeOK
  <2> QED
    BY <2>1, <2>2 DEF Token
<1>3. ASSUME NEW r \in Req, MarkTokenUsed(r)
      PROVE  \E s \in tokens : s.id = t.id /\ s.user = t.user /\ (s.used => t.used)
  <2>1. PICK s \in tokens : t = IF s.id = op[r].token THEN [s EXCEPT !.used = TRUE] ELSE s
    BY <1>3 DEF MarkTokenUsed
  <2>2. s \in Token
    BY DEF TypeOK
  <2> QED
    BY <2>1, <2>2 DEF Token
<1>4. ASSUME NEW r \in Req, CreateResetToken(r), tokens' # tokens
      PROVE  t \in tokens \/ (pc'[r] = "ok" /\ t.id = r /\ t.user = op[r].user)
  BY <1>4 DEF CreateResetToken, Goto, TypeOK
<1>5. ASSUME NEW r \in Req, Purge(r) \/ DeleteUser(r)
      PROVE  t \in tokens
  BY <1>5 DEF Purge, DeleteUser
<1>6. \/ tokens' = tokens \/ \E e \in tokens : Expire(e)
      \/ \E r \in Req : MarkTokenUsed(r) \/ CreateResetToken(r) \/ Purge(r) \/ DeleteUser(r)
  BY DEF Next, Quiescent, vars, Arrive, Fail, Step, FindForLogin, OpenSession, VerifyCurrent,
     FindForSet, FindValidToken, WritePassword, SetFirstLogin, FindForUpdate, SaveProfile,
     ReadGroupNames, FindForToken
<1> QED
  BY <1>1, <1>2, <1>3, <1>4, <1>5, <1>6

\* What excuses a flag that is down does so for ever.
LEMMA LowersLasts ==
    ASSUME TypeOK, PathOK, [Next]_vars, NEW r \in Req, pc[r] # "idle", NEW l \in Req, Lowers(l, r)
    PROVE  Lowers(l, r)' /\ earlier'[l] = earlier[l] /\ pc[l] # "idle"
<1>1. pc[l] \in {"names"} \cup Answered /\ pc[l] # "idle"
  BY DEF Lowers, Answered
<1>2. pc'[l] \in {"names"} \cup Answered
  <2>1. CASE pc[l] \in Answered
    BY <2>1, Forward
  <2>2. CASE pc[l] = "names" /\ pc'[l] # "names"
    <3>1. ReadGroupNames(l) \/ Fail(l)
      BY <2>2, Moves, Arrives DEF Step, FindForLogin, OpenSession, VerifyCurrent, FindForSet,
         FindValidToken, WritePassword, SetFirstLogin, MarkTokenUsed, FindForUpdate, SaveProfile,
         FindForToken, CreateResetToken, Purge, DeleteUser
    <3> QED
      BY <3>1 DEF ReadGroupNames, Fail, Goto, TypeOK, Answered
  <2> QED
    BY <1>1, <2>1, <2>2
<1>3. op' = op /\ earlier'[l] = earlier[l] /\ earlier'[r] = earlier[r]
  BY <1>1, Forward, Frame
<1> QED
  BY <1>1, <1>2, <1>3 DEF Lowers

-----------------------------------------------------------------------------
(* Each part is preserved. *)

LEMMA HistoryNext ==
    ASSUME TypeOK, PathOK, HistoryOK, [Next]_vars
    PROVE  HistoryOK'
<1> SUFFICES ASSUME NEW q \in Req, pc'[q] # "idle"
             PROVE  /\ op[q].user \in User => pw'[op[q].user] \in inforce'[q]
                    /\ \A r \in earlier'[q] : pc'[r] \in Answered
  BY Frame DEF HistoryOK
<1>1. CASE pc[q] = "idle"
  <2>1. Arrive(q)
    BY <1>1, Moves DEF Step, Fail, FindForLogin, OpenSession, VerifyCurrent, FindForSet,
       FindValidToken, WritePassword, SetFirstLogin, MarkTokenUsed, FindForUpdate, SaveProfile,
       ReadGroupNames, FindForToken, CreateResetToken, Purge, DeleteUser
  <2> QED
    BY <2>1, Arrives, Forward
<1>2. CASE pc[q] # "idle"
  <2>1. earlier'[q] = earlier[q] /\ inforce[q] \subseteq inforce'[q]
    BY <1>2, Forward
  <2>2. \A r \in earlier'[q] : pc'[r] \in Answered
    BY <1>2, <2>1, Forward DEF HistoryOK, TypeOK
  <2>3. ASSUME op[q].user \in User, NEW w \in Req, WritePassword(w), owner[w] \in live
        PROVE  pw'[op[q].user] \in inforce'[q]
    BY <1>2, <2>1, <2>3 DEF WritePassword, Subject, HistoryOK, TypeOK
  <2> QED
    BY <1>2, <2>1, <2>2, <2>3, OnlyWrites DEF HistoryOK
<1> QED
  BY <1>1, <1>2

LEMMA TokensNext ==
    ASSUME TypeOK, PathOK, TokensOK, [Next]_vars
    PROVE  TokensOK'
<1>1. op' = op
  BY Frame
<1>2. ASSUME NEW t \in tokens'
      PROVE  op[t.id].kind = "forgot" /\ op[t.id].user = t.user /\ pc'[t.id] = "ok"
  <2>1. ASSUME NEW s \in tokens, s.id = t.id, s.user = t.user
        PROVE  op[t.id].kind = "forgot" /\ op[t.id].user = t.user /\ pc'[t.id] = "ok"
    <3>1. s.id \in Req
      BY DEF TypeOK, Token
    <3> QED
      BY <2>1, <3>1, Forward DEF TokensOK, Answered
  <2>2. ASSUME NEW r \in Req, CreateResetToken(r), pc'[r] = "ok", t.id = r, t.user = op[r].user
        PROVE  op[t.id].kind = "forgot" /\ op[t.id].user = t.user /\ pc'[t.id] = "ok"
    BY <2>2 DEF CreateResetToken, PathOK
  <2> QED
    BY <2>1, <2>2, TokenOrigin
<1>3. ASSUME NEW r \in Req, op[r].kind = "reset", pc'[r] \in {"write", "mark", "ok"}
      PROVE  /\ pc'[op[r].token] = "ok"
             /\ pc'[r] = "ok" => \A t \in tokens' : t.id = op[r].token => t.used
  <2>1. op[r].token \in Req
    BY <1>3, OpFacts DEF TypeOK
  <2>2. ASSUME pc[r] \in {"write", "mark", "ok"}, NEW t \in tokens', t.id = op[r].token
        PROVE  \E s \in tokens : s.id = op[r].token /\ (s.used => t.used)
    <3>1. pc[op[r].token] = "ok"
      BY <1>3, <2>2 DEF TokensOK
    <3> QED
      BY <2>2, <3>1, TokenOrigin DEF CreateResetToken
  <2>3. CASE pc'[r] = pc[r]
    BY <1>3, <2>1, <2>2, <2>3, Forward DEF TokensOK, Answered
  <2>4. CASE FindValidToken(r)
    BY <1>3, <2>1, <2>4, Forward DEF FindValidToken, Goto, TokensOK, TypeOK, Answered
  <2>5. CASE WritePassword(r)
    <3>1. pc'[r] = "mark"
      BY <1>3, <2>5 DEF WritePassword, AfterWrite, Goto, TypeOK
    <3> QED
      BY <1>3, <2>1, <2>5, <3>1, Forward DEF WritePassword, TokensOK, Answered
  <2>6. CASE MarkTokenUsed(r)
    <3>1. ASSUME NEW t \in tokens', t.id = op[r].token
          PROVE  t.used
      <4>1. PICK s \in tokens : t = IF s.id = op[r].token THEN [s EXCEPT !.used = TRUE] ELSE s
        BY <2>6 DEF MarkTokenUsed
      <4>2. s \in Token
        BY DEF TypeOK
      <4> QED
        BY <3>1, <4>1, <4>2 DEF Token
    <3> QED
      BY <1>3, <2>1, <2>6, <3>1, Forward DEF MarkTokenUsed, TokensOK, Answered
  <2>7. CASE Arrive(r) \/ Fail(r)
    BY <1>3, <2>7, Arrives, FirstLabelFacts DEF Fail, Goto, TypeOK, Answered
  <2> QED
    BY <1>3, <2>3, <2>4, <2>5, <2>6, <2>7, ResetMoves
<1> QED
  BY <1>1, <1>2, <1>3 DEF TokensOK

LEMMA WriteNext ==
    ASSUME TypeOK, PathOK, HistoryOK, TokensOK, WriteOK, [Next]_vars
    PROVE  WriteOK'
<1>1. op' = op
  BY Frame
<1> SUFFICES ASSUME NEW r \in Req, pc'[r] = "write"
             PROVE  /\ NewSecret(r) \notin Short
                    /\ op[r].kind = "change" => op[r].current \in inforce'[r]
                    /\ op[r].kind = "reset" => /\ op[op[r].token].kind = "forgot"
                                               /\ op[op[r].token].user = owner'[r]
  BY <1>1 DEF WriteOK, NewSecret
<1>2. CASE pc[r] = "write"
  BY <1>2, Forward, Holds DEF WriteOK
<1>3. CASE Arrive(r)
  <2>1. op[r].kind = "temporary"
    BY <1>3, Arrives, FirstLabelFacts
  <2> QED
    BY <2>1, SecretsAssumption DEF NewSecret
<1>4. CASE VerifyCurrent(r)
  <2>1. op[r].kind = "change"
    BY <1>4 DEF VerifyCurrent, PathOK
  <2>2. /\ op[r].user \in live /\ op[r].current = pw[op[r].user] /\ op[r].new \notin Short
        /\ pc[r] = "verify" /\ inforce' = inforce
    BY <1>4 DEF VerifyCurrent, Goto, TypeOK
  <2> QED
    BY <2>1, <2>2 DEF NewSecret, HistoryOK, TypeOK
<1>5. CASE FindForSet(r)
  <2>1. op[r].kind = "set" /\ op[r].new \notin Short
    BY <1>5 DEF FindForSet, Goto, TypeOK
  <2> QED
    BY <2>1 DEF NewSecret
<1>6. CASE FindValidToken(r)
  <2>1. op[r].kind = "reset" /\ op[r].new \notin Short
    BY <1>6 DEF FindValidToken, Goto, TypeOK, PathOK
  <2>2. \E t \in tokens : t.id = op[r].token /\ owner'[r] = t.user
    BY <1>6 DEF FindValidToken, Goto, TypeOK
  <2> QED
    BY <2>1, <2>2 DEF NewSecret, TokensOK
<1>7. pc[r] # "write" => Arrive(r) \/ VerifyCurrent(r) \/ FindForSet(r) \/ FindValidToken(r)
  BY Moves DEF TypeOK, Goto, Step, Fail, FindForLogin, OpenSession, WritePassword,
     SetFirstLogin, MarkTokenUsed, FindForUpdate, SaveProfile, ReadGroupNames, FindForToken,
     CreateResetToken, Purge, DeleteUser
<1> QED
  BY <1>2, <1>3, <1>4, <1>5, <1>6, <1>7

LEMMA SetterNext ==
    ASSUME TypeOK, PathOK, SetterOK, [Next]_vars
    PROVE  SetterOK'
<1>1. CASE pw' = pw /\ setter' = setter
  BY <1>1, Forward, Frame DEF SetterOK, TypeOK
<1>2. ASSUME NEW w \in Req, WritePassword(w), owner[w] \in live
      PROVE  SetterOK'
  <2>1. pc[w] # "idle" /\ op[w].kind \in {"change", "temporary", "set", "reset"} /\ op' = op
    BY <1>2 DEF WritePassword, PathOK
  <2>2. /\ setter'[owner[w]] = w
        /\ \A u \in User \ {owner[w]} : setter'[u] = setter[u] /\ pw'[u] = pw[u]
    BY <1>2 DEF WritePassword, TypeOK
  <2> QED
    BY <2>1, <2>2, Forward, SecretsAssumption DEF SetterOK, TypeOK
<1> QED
  BY <1>1, <1>2, OnlyWrites

LEMMA LoginNext ==
    ASSUME TypeOK, PathOK, HistoryOK, LoginOK, SessionsUseCurrentPassword, [Next]_vars
    PROVE  LoginOK' /\ SessionsUseCurrentPassword'
<1>1. op' = op
  BY Frame
<1> SUFFICES ASSUME NEW r \in Req, op[r].kind = "login", pc'[r] \in {"session", "ok"}
             PROVE  op[r].current \in inforce'[r]
  BY <1>1 DEF LoginOK, SessionsUseCurrentPassword
<1>2. CASE pc[r] \in {"session", "ok"}
  BY <1>2, Forward DEF LoginOK, SessionsUseCurrentPassword
<1>3. CASE FindForLogin(r)
  BY <1>3 DEF FindForLogin, Goto, HistoryOK, TypeOK
<1>4. CASE Arrive(r) \/ Fail(r) \/ OpenSession(r)
  BY <1>2, <1>4, Arrives, FirstLabelFacts DEF Fail, OpenSession, Goto, TypeOK, Answered
<1> QED
  BY <1>2, <1>3, <1>4, LoginMoves

LEMMA AuthorityNext ==
    ASSUME TypeOK, PathOK, WriteOK, SetterOK, PasswordAuthority, [Next]_vars
    PROVE  PasswordAuthority'
<1>1. op' = op
  BY Frame
<1>2. ASSUME NEW u \in User, setter'[u] # None, setter'[u] = setter[u], pw'[u] = pw[u]
      PROVE  /\ pw'[u] = NewSecret(setter[u]) /\ pw'[u] \notin Short
             /\ op[setter[u]].kind # "reset" => op[setter[u]].user = u
             /\ op[setter[u]].kind = "change" => op[setter[u]].current \in inforce'[setter[u]]
             /\ op[setter[u]].kind = "reset" => /\ op[op[setter[u]].token].kind = "forgot"
                                                /\ op[op[setter[u]].token].user = u
  <2>1. setter[u] \in Req /\ pc[setter[u]] # "idle"
    BY <1>2 DEF SetterOK, TypeOK
  <2>2. inforce[setter[u]] \subseteq inforce'[setter[u]]
    BY <2>1, Forward
  <2> QED
    BY <1>2, <2>2 DEF PasswordAuthority
<1>3. ASSUME NEW w \in Req, WritePassword(w), owner[w] \in live
      PROVE  /\ setter'[owner[w]] = w /\ pw'[owner[w]] = NewSecret(w) /\ NewSecret(w) \notin Short
             /\ op[w].kind # "reset" => op[w].user = owner[w]
             /\ op[w].kind = "change" => op[w].current \in inforce'[w]
             /\ op[w].kind = "reset" => /\ op[op[w].token].kind = "forgot"
                                        /\ op[op[w].token].user = owner[w]
             /\ \A u \in User \ {owner[w]} : setter'[u] = setter[u] /\ pw'[u] = pw[u]
  <2>1. pc[w] = "write" /\ inforce[w] \subseteq inforce'[w]
    BY <1>3, Forward DEF WritePassword
  <2>2. /\ setter'[owner[w]] = w /\ pw'[owner[w]] = NewSecret(w)
        /\ \A u \in User \ {owner[w]} : setter'[u] = setter[u] /\ pw'[u] = pw[u]
    BY <1>3 DEF WritePassword, TypeOK
  <2> QED
    BY <2>1, <2>2 DEF WriteOK, PathOK
<1>4. CASE pw' = pw /\ setter' = setter
  BY <1>1, <1>2, <1>4 DEF PasswordAuthority, NewSecret
<1>5. ASSUME NEW w \in Req, WritePassword(w), owner[w] \in live
      PROVE  PasswordAuthority'
  <2> SUFFICES ASSUME NEW u \in User, setter'[u] # None
               PROVE  /\ pw'[u] = NewSecret(setter'[u]) /\ pw'[u] \notin Short
                      /\ op[setter'[u]].kind # "reset" => op[setter'[u]].user = u
                      /\ op[setter'[u]].kind = "change" => op[setter'[u]].current \in inforce'[setter'[u]]
                      /\ op[setter'[u]].kind = "reset" => /\ op[op[setter'[u]].token].kind = "forgot"
                                                          /\ op[op[setter'[u]].token].user = u
    BY <1>1 DEF PasswordAuthority, NewSecret
  <2>1. CASE u = owner[w]
    BY <1>3, <1>5, <2>1
  <2>2. CASE u # owner[w]
    BY <1>2, <1>3, <1>5, <2>2
  <2> QED
    BY <2>1, <2>2
<1> QED
  BY <1>4, <1>5, OnlyWrites

LEMMA SpentNext ==
    ASSUME TypeOK, PathOK, HistoryOK, TokensOK, SpentTokensStaySpent, [Next]_vars
    PROVE  SpentTokensStaySpent'
<1>1. op' = op
  BY Frame
<1> SUFFICES ASSUME NEW r \in Req, NEW q \in Req,
                    op[r].kind = "reset", op[q].kind = "reset", op[r].token = op[q].token,
                    r \in earlier'[q], pc'[r] = "ok", pc'[q] \in {"write", "mark", "ok"}
             PROVE  FALSE
  BY <1>1 DEF SpentTokensStaySpent
<1>2. pc[q] # "idle"
  BY Moves, Arrives, FirstLabelFacts DEF Answered, Step, Fail, FindForLogin, OpenSession,
     VerifyCurrent, FindForSet, FindValidToken, WritePassword, SetFirstLogin, MarkTokenUsed,
     FindForUpdate, SaveProfile, ReadGroupNames, FindForToken, CreateResetToken, Purge,
     DeleteUser
<1>3. r \in earlier[q] /\ pc[r] = "ok"
  BY <1>2, Forward DEF HistoryOK, Answered
<1>4. pc[q] \notin {"write", "mark", "ok"}
  BY <1>3 DEF SpentTokensStaySpent
<1>5. FindValidToken(q)
  BY <1>2, <1>4, ResetMoves, Arrives DEF Fail, Goto, TypeOK, WritePassword, MarkTokenUsed
<1>6. \E t \in tokens : t.id = op[q].token /\ ~t.used
  BY <1>5 DEF FindValidToken, Goto, TypeOK, Valid
<1> QED
  BY <1>3, <1>6 DEF TokensOK

LEMMA LateNext ==
    ASSUME TypeOK, PathOK, HistoryOK, LateOK, [Next]_vars
    PROVE  LateOK'
<1> SUFFICES ASSUME NEW c \in Req, pc'[c] = "flag", op[c].kind = "change", owner'[c] \in live'
             PROVE  setter'[owner'[c]] \notin earlier'[c]
  BY Frame DEF LateOK
<1>1. CASE pc[c] = "flag"
  <2>1. /\ owner'[c] = owner[c] /\ owner[c] \in live /\ earlier'[c] = earlier[c]
        /\ setter[owner[c]] \notin earlier[c] /\ owner[c] \in User
    BY <1>1, Holds, Forward DEF LateOK, TypeOK
  <2>2. ASSUME NEW w \in Req, WritePassword(w), owner[w] \in live
        PROVE  setter'[owner[c]] \notin earlier[c]
    <3>1. w \notin earlier[c]
      BY <1>1, <2>2 DEF WritePassword, HistoryOK, Answered
    <3> QED
      BY <2>1, <2>2, <3>1 DEF WritePassword, TypeOK
  <2> QED
    BY <2>1, <2>2, OnlyWrites
<1>2. CASE pc[c] # "flag"
  <2>1. WritePassword(c)
    BY <1>2, Moves, Arrives, FirstLabelFacts DEF PathOK, TypeOK, Goto, Step, Fail, FindForLogin,
       OpenSession, VerifyCurrent, FindForSet, FindValidToken, SetFirstLogin, MarkTokenUsed,
       FindForUpdate, SaveProfile, ReadGroupNames, FindForToken, CreateResetToken, Purge, DeleteUser
  <2>2. setter'[owner'[c]] = c /\ earlier'[c] = earlier[c] /\ pc[c] = "write"
    BY <2>1 DEF WritePassword, TypeOK
  <2> QED
    BY <2>2 DEF HistoryOK, Answered
<1> QED
  BY <1>1, <1>2

LEMMA MustNext ==
    ASSUME TypeOK, PathOK, HistoryOK, LateOK, PasswordAuthority, TemporaryMustBeChanged, [Next]_vars
    PROVE  TemporaryMustBeChanged'
<1>1. op' = op
  BY Frame
<1> SUFFICES ASSUME NEW u \in User, NEW r \in Req, setter'[u] = r, u \in live',
                    op[r].kind = "temporary", pc'[r] = "ok"
             PROVE  first'[u] \/ \E l \in Req : Lowers(l, r)'
  BY <1>1, TypeNext DEF TemporaryMustBeChanged, TypeOK
<1>2. setter[u] = r
  <2>1. ASSUME NEW w \in Req, WritePassword(w), owner[w] \in live, setter'[u] # setter[u]
        PROVE  FALSE
    <3>1. w = r /\ pc'[w] = AfterWrite[op[w].kind]
      BY <2>1 DEF WritePassword, Goto, TypeOK
    <3> QED
      BY <3>1 DEF AfterWrite
  <2> QED
    BY <2>1, OnlyWrites
<1>3. op[r].user = u /\ u \in live
  BY <1>2, Forward, SecretsAssumption DEF PasswordAuthority, TypeOK
<1>4. CASE pc[r] # "ok"
  <2>1. SetFirstLogin(r)
    <3>1. ~WritePassword(r)
      BY <1>3 DEF WritePassword, AfterWrite, Goto, TypeOK
    <3> QED
      BY <1>3, <1>4, <3>1, TemporaryMoves, Arrives DEF Fail, Goto, TypeOK, Answered
  <2>2. owner[r] = u
    BY <1>3, <2>1 DEF SetFirstLogin, PathOK
  <2> QED
    BY <1>3, <2>1, <2>2 DEF SetFirstLogin, Flag, TypeOK
<1>5. CASE pc[r] = "ok" /\ \E l \in Req : Lowers(l, r)
  BY <1>5, LowersLasts
<1>6. CASE pc[r] = "ok" /\ first[u] /\ ~first'[u]
  <2>1. PICK c \in Req : SetFirstLogin(c) /\ ~Flag(c) /\ owner[c] = u
    BY <1>6, OnlyFlagsLower
  <2>2. /\ pc[c] = "flag" /\ op[c].user = u /\ pc'[c] \in {"names", "ok"}
        /\ op[c].kind = "change" \/ (op[c].kind = "update" /\ ~op[c].first)
    BY <2>1 DEF SetFirstLogin, Goto, Flag, PathOK, TypeOK
  <2>3. c \notin earlier[r] /\ (op[c].kind = "change" => r \notin earlier[c])
    BY <1>2, <1>3, <1>6, <2>1, <2>2 DEF HistoryOK, LateOK, Answered
  <2>4. earlier'[r] = earlier[r] /\ earlier'[c] = earlier[c]
    BY <1>6, <2>2, Forward
  <2>5. Lowers(c, r)'
    BY <1>1, <1>3, <2>2, <2>3, <2>4 DEF Lowers, Answered
  <2> QED
    BY <2>5
<1>7. pc[r] = "ok" => first[u] \/ \E l \in Req : Lowers(l, r)
  BY <1>2, <1>3, SecretsAssumption DEF TemporaryMustBeChanged
<1> QED
  BY <1>4, <1>5, <1>6, <1>7

LEMMA ToldNext ==
    ASSUME TypeOK, PathOK, HistoryOK, SetterOK, PasswordAuthority, TemporaryMustBeChanged,
           ToldOK, [Next]_vars
    PROVE  ToldOK'
<1>1. op' = op
  BY Frame
<1> SUFFICES ASSUME NEW r \in Req, NEW q \in Req, op[r].kind = "temporary", pc'[r] = "ok",
                    r \in earlier'[q], op[q].kind = "login", op[q].current = r,
                    pc'[q] \in {"session", "ok"}
             PROVE  must'[q] \/ \E l \in Req : Lowers(l, r)' /\ q \notin earlier'[l]
  BY <1>1 DEF ToldOK
<1>2. pc[q] # "idle"
  BY LoginMoves, Arrives DEF Answered, Fail, FindForLogin, OpenSession
<1>3. r \in earlier[q] /\ pc[r] = "ok"
  BY <1>2, Forward DEF HistoryOK, Answered
<1>4. CASE pc[q] \in {"session", "ok"}
  <2>1. /\ must'[q] = must[q]
        /\ must[q] \/ \E l \in Req : Lowers(l, r) /\ q \notin earlier[l]
    BY <1>3, <1>4, Holds DEF ToldOK
  <2> QED
    BY <1>3, <2>1, LowersLasts
<1>5. CASE FindForLogin(q) /\ pc'[q] = "session"
  <2> DEFINE u == op[q].user
  <2>1. u \in live /\ u \in User /\ pw[u] = r /\ must'[q] = first[u]
    BY <1>5 DEF FindForLogin, Goto, TypeOK
  <2> HIDE DEF u
  <2>2. setter[u] = r
    <3>1. setter[u] # None
      BY <2>1, SecretsAssumption DEF SetterOK
    <3>2. setter[u] \in Req /\ r = NewSecret(setter[u]) /\ r \notin Chosen
      BY <2>1, <3>1, SecretsAssumption DEF PasswordAuthority, TypeOK
    <3>3. op[setter[u]].kind = "temporary" \/ op[setter[u]].new \in Chosen
      BY <2>1, <3>1, <3>2, OpFacts DEF SetterOK, TypeOK
    <3> QED
      BY <3>2, <3>3 DEF NewSecret
  <2>3. first[u] \/ \E l \in Req : Lowers(l, r)
    BY <1>3, <2>1, <2>2, SecretsAssumption DEF TemporaryMustBeChanged
  <2> QED
    <3>1. ASSUME NEW l \in Req, Lowers(l, r)
          PROVE  Lowers(l, r)' /\ q \notin earlier'[l]
      BY <1>3, <1>5, <3>1, LowersLasts DEF HistoryOK, FindForLogin, Answered
    <3> QED
      BY <2>1, <2>3, <3>1
<1> QED
  BY <1>2, <1>4, <1>5, LoginMoves, Arrives DEF Fail, FindForLogin, OpenSession, Goto, TypeOK

-----------------------------------------------------------------------------
(* The theorems. *)

LEMMA Inductive == Spec => []IInv
<1>1. Init => IInv
  <2> SUFFICES ASSUME Init PROVE IInv
    OBVIOUS
  <2>1. /\ \A r \in Req : pc[r] = "idle" /\ earlier[r] = {}
        /\ tokens = {} /\ \A u \in User : setter[u] = None /\ pw[u] = Original
    BY DEF Init
  <2> QED
    BY <2>1, TypeInit, SecretsAssumption DEF IInv, PathOK, HistoryOK, TokensOK, WriteOK, SetterOK, LoginOK,
       LateOK, ToldOK, PasswordAuthority, SessionsUseCurrentPassword, SpentTokensStaySpent,
       TemporaryMustBeChanged
<1>2. IInv /\ [Next]_vars => IInv'
  BY TypeNext, PathNext, HistoryNext, TokensNext, WriteNext, SetterNext, LoginNext, LateNext,
     ToldNext, AuthorityNext, SpentNext, MustNext DEF IInv
<1> QED
  BY <1>1, <1>2, PTL DEF Spec

\* Nobody sets a password without authority over that account.
THEOREM AuthorityNeeded == Spec => []PasswordAuthority
BY Inductive, PTL DEF IInv

\* A replaced password opens no session.
THEOREM SessionsCurrent == Spec => []SessionsUseCurrentPassword
BY Inductive, PTL DEF IInv

\* A token spent by an answered reset is refused ever after.
THEOREM SpentForGood == Spec => []SpentTokensStaySpent
BY Inductive, PTL DEF IInv

\* A temporary password must be changed, but for a change under way with its reset
\* or an administrator who waives it afterwards.
THEOREM TemporaryIsTemporary == Spec => []TemporaryMustBeChanged
BY Inductive, PTL DEF IInv

\* A login with a temporary password is told to change it, with those exceptions
\* if they came before the login's answer.
THEOREM LoginsAreTold == Spec => []TemporaryLoginIsTold
<1>1. IInv => TemporaryLoginIsTold
  BY DEF IInv, ToldOK, TemporaryLoginIsTold
<1> QED
  BY <1>1, Inductive, PTL
=============================================================================

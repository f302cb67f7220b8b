# A TLA+ development of Keyrunes

Keyrunes is a multi-tenant identity and authorization service: an axum server in
Rust over PostgreSQL. Each tenant (organization) is a Postgres schema named by
`organizations.namespace`; the global one is `public`. This directory holds TLA+
models of its core, the TLC configurations that check them on small instances,
and proofs of their properties for every instance.

Run everything from this directory:

    tlc -workers 2 -config AccountsPublic.cfg MCAccounts.tla
    tlapm AccountsProofs.tla

and the same with every other `MC` module, `.cfg` and `*Proofs` module.

## How the program runs, and how the models see it

Every HTTP request is a tokio task. A handler (`src/api`) calls a service
(`src/services`), which calls repository methods (`src/repository/sqlx_impl.rs`).
Each repository method opens a transaction of its own, sets the search path to
the namespace, runs one statement and commits. So:

* **an action is one repository transaction**, together with the checks and
  returns that the handler and the service run between it and the next one;
* **a request is a small state machine**: `pc[r]` names its next transaction or
  its answer. Requests interleave freely between transactions: nothing in the
  code serialises them (no lock is held across an await, no isolation level above
  the default is asked for);
* **a request may stop anywhere** (`Fail`): the client hangs up and axum drops the
  future, a statement fails, the process dies. What was committed stays. This is
  also the crash model: all state is in the tables, so a restart loses exactly
  the requests under way;
* **unique indexes and foreign keys are part of the model**, because they decide
  the races that the services' own checks cannot.

What a caller sends is a record of `Ops`, chosen for each request in `Init` or when it
arrives. Formatting,
hashing and rendering are abstracted to what the properties tell apart; the
abstractions are named in each module's header.

## Inventory

| Component | State it keeps | Operations | Hard behaviour | Modelled in |
|---|---|---|---|---|
| Accounts (`UserService`) | `users`, `user_groups` | register, create_user, delete_user | check-then-insert races, bootstrap race, partial creation | `Accounts` |
| Groups (`GroupService`) | `groups`, `user_groups` | create_group, assign, remove, get_group_with_policies; healing of standard groups | races on names, stale administrators, foreign keys | `Accounts`, `Policies`, `Commands` |
| Credentials (`UserService`) | password hash, `first_login`, `password_reset_tokens` | login, change, forgot, reset, administrative set and reset, update_user's flag, clean-up | stale verified hashes, token spent twice, flag and password written apart, a flag with several writers | `Credentials` |
| Sessions (`JwtService`) | none stored: the token is the state | sign, verify, refresh | a token outlives what it says for its hour; refresh reads, then signs | `Sessions` |
| Gates (`handler/auth.rs`, `get_org_namespace_safe`) | none | require_auth, require_superadmin, require_org_key_or_superadmin | decisions on stale claims; namespace looked up before use | `Sessions`, `Organizations` |
| Organizations | `organizations`, schemas, keys | create, delete, rotate, reveal, list, verify | several transactions, schema outlives its row, lost rotation | `Organizations` |
| Policies | `policies` and links | create, look up, assign, remove, check | deny precedence, prefix matching, racing creations | `Policies` |
| External API | none | authorization check by organization key | subject and policies read apart | `Policies` |
| Profiles | email, username, `first_login` | update_profile, update_user, the profile form | lost update, key clash, deleted meanwhile | `Profiles` |
| Settings | `settings` | insert, update, delete, find, look up, list | check-then-insert; two tables of one name | `Settings` |
| Command line (`src/bin/cli.rs`) | none | accounts, passwords, links, groups, organizations | a process beside the server; names looked up, ids acted on | `Commands`, `Organizations` (not Migrate and ListUsers) |
| Start-up and routing (`src/main.rs`) | none | - | - | no: wiring |
| Migrations, `verify_schema`, `cleanup_migrations` | schema | - | - | no: run before requests are served; their keys and seeds are in the models |
| Mail, pages, health, logging, errors, OpenAPI, deserializers | none | - | - | no: I/O and formatting |

Components interact through the tables of one schema and through the signed
token: there are no messages between tasks and no callbacks. What makes each
correct:

* **Accounts**: identities are unique; administrative authority always has a
  source; an answer says what happened; memberships never dangle.
* **Credentials**: a password changes only with authority over that account; a
  replaced one opens nothing; a link that was spent is spent; a temporary password
  must be changed unless somebody entitled to lowered the flag.
* **Sessions and gates**: what a token grants was true at most one lifetime ago; no
  token of a tenant acts outside it.
* **Organizations**: an answer of success means a usable schema; a key answered
  is the key stored; nobody acts in a schema that is no longer theirs.
* **Policies**: a deny wins in every order; no allow, no access.
* **Profiles, settings**: no write undoes another that was answered before it arrived, but by naming the same field;
  keys stay unique.
* **Command line**: what a command reports holds of a user who bore the name it was given.

The hazards, each at its line and with the properties that would catch it, are in
`PROJECT.json`.

## Modules

### `Accounts` (with `MCAccounts`, `AccountsProofs`) and `AccountDirectory`

One namespace under concurrent registration, administrative creation, assignment,
removal, deletion and group creation.

* `users`, `groups`, `members` are the tables. The user row inserted by request
  `r` is named `r`, because a BIGSERIAL is never reused; a group row is named by
  its unique name.
* `want[r]`, `k[r]` are the name list of `create_user` and the loop index of
  `resolve_group_ids` and `assign_user_to_groups`; `boot[r]` says the
  registration counted no users; `names[r]` is what it answers.
* `actor[r]` is the administrator row behind a request. It is any member, present or
  past, of a privileged group: the gate checks the groups named by a token, and
  a token outlives both membership and row. `None` is a global superadmin acting
  on a tenant (the handlers then pass no `assigned_by`), or the command line.
* `made`, `empowered`, `before`, `withdrawn` are history for the properties.
* `Trim`, `Fold`, `Canon` are the name conversions as functions on the small
  set of names: `str::trim` before the lookup, SQL `LOWER` on addresses, and trim
  plus lower case in the reserved-name checks.
* `Global` selects the public or a tenant namespace: they differ in the email key
  (folded or verbatim), the reserved name and the bootstrap group. `Seeds` are the group
  tables a namespace starts with: by the migrations, by a complete or an interrupted
  `create_organization`, by the tenant-sync migration.

`register` is `ArriveRegister`, `CountUsers`, then `create_user`: `FindByEmail`,
`FindByUsername`, `ResolveGroup` (with `HealGroup`) per name, `InsertUser`,
`AssignNewUser` per name, `ReadGroupNames`.

`AccountDirectory` is the abstract specification: a creation takes effect at one
instant, is refused as taken only when a like identity exists, and is confirmed
only when it happened; a failure says nothing. `ImplementsDirectory` maps the answers
of the requests to it; the instant is `InsertUser`.

### `Credentials` (with `MCCredentials`, `CredentialsProofs`)

The passwords and links of one namespace. `pw`, `first`, `tokens` are the
columns; a salted hash is modelled by the password, since verification tells two
apart exactly when they differ. The temporary password drawn for request `r` and the
token issued for it are both named `r`: they are random and long enough not to be
guessed or repeated. A link's row expires at any time after its issue (`Expire`): lifetimes
differ (a day from the server, an hour from the command line), so rows need not
expire in order. `setter`, `inforce`, `earlier` are history.

`change_password` is `VerifyCurrent`, `WritePassword`, `SetFirstLogin`;
`reset_password` is `FindValidToken`, `WritePassword`, `MarkTokenUsed`;
`reset_user_password` is `WritePassword`, `SetFirstLogin`; `update_password`, which
the command line calls after finding the account, is `FindForSet`,
`WritePassword`; `login` is `FindForLogin`, `OpenSession`; `forgot_password` is
`FindForToken`, `CreateResetToken`. An update of a row that has been deleted
is no error in the code and none in the model.

`first_login` has three writers after the insertion, and all are here: `change_password`
lowers it, `reset_user_password` raises it, and `update_user` with a `first_login` is
`FindForUpdate`, `SaveProfile`, `SetFirstLogin`, `ReadGroupNames` (`Flag` says which value each
writes). So an administrator can waive the obligation to change a temporary password.
`TemporaryMustBeChanged` and `TemporaryLoginIsTold` name the two ways the flag of a temporary
password may be down (`Lowers`): an owner's change that overlapped the reset, and an
administrator's update to false that was not answered before the reset arrived.

### `Sessions` (with `MCSessions`, `SessionsProofs`)

Tokens and gates over a clock, in several namespaces. `orgs`, `live`, `members` are the
rows; a user is its namespace and its number, because each schema counts for itself. A
token is the request it was minted for: `who`, `groups`, `minted` are its claims.

* `Gate` is the middleware stack of a route (`require_auth`, and for the administrative
  calls `require_superadmin` with the handler's own early checks); `ResolveNamespace`
  is `get_org_namespace_safe`.
* Login is `FindForLogin`, `ReadGroups`, `Sign`; refresh is `Gate`, `FindForRefresh`,
  `ReadGroups`, `Sign`; `/api/me` and the dashboard are `FindByToken`, `ReadGroups`.
* `Assign`, `Remove`, `Erase`, `Drop` are the calls a token authorises, with the foreign
  keys that may refuse them. Without a token they come from the command line.
* `held` and `lost` are history: the group sets the user has had since the request
  arrived, and when a group was last lost. A token that was past reading its groups when
  the group was lost is not held against `RevocationTakesEffect`: its lifetime
  starts at `Sign`, a moment later.

### `Organizations` (with `MCOrganizations`, `OrganizationsProofs`)

Organizations, schemas and keys. `orgs` and the rows of all schemas (`users`,
`groups`) are tables; `keyed` are the schemas whose `groups` has the constraint
that `insert_organization` adds. `SchemaOf` cuts a namespace as Postgres cuts an
identifier, so two namespaces may be one schema.

* `create_organization` is `FindByName`, `InsertOrganization`, then `FindGroup` and
  `InsertGroup` for each standard group. In `InsertOrganization` the statement that
  adds the constraint may fail, because the schema outlived an earlier organization: Postgres
  aborts the transaction, the commit rolls back, the code goes on, and the first
  group insertion then fails on its foreign key. So a namespace whose organization was
  deleted cannot be created again.
* `get_org_key`, `rotate_org_key` and the listing are `FindCaller`, `FindOwner`, then
  `RotateSecretKey` or `ListOrganizations`; `VerifyKey` is `require_org_key_or_superadmin`.
* `BindOrganization` is the start of `register`; `ResolveNamespace`, `InsertUser` and
  `InsertGroup` are what puts rows in a schema.

### `Policies` (with `MCPolicies`, `PoliciesProofs`)

In this module and the next three the variable `public`, which no step changes, says whether the
namespace is the global one; a run covers both.

The policies of one namespace. `links` holds the rows of `user_policies`,
`group_policies` and `user_groups`; the first two exist in `public` only (`HasTable`).
`ResourceMatches` and `EvaluatePermission` are the evaluation as the code writes it, over
a sequence of policies in any order (`AllPolicies`); `ChecksWereRight` compares it with a
definition on the set (`Verdict` in `held`). A check is `FindSubject`, `Gather`. `EraseUser`
leaves out the refusal for a user who assigned a membership, which `Accounts` has.

### `Profiles` (with `MCProfiles`, `ProfilesProofs`)

`FindUser` copies the row and merges the fields named, `Save` writes email and username of
the copy, `SetFirstLogin` follows for `update_user`, `ReadGroups` and `ReadAgain`
make the answer of the endpoints and of the form (which is rendered again when
refused). `Register` and `EraseUser` are the transactions of other calls on these rows.
`change_password` (`VerifyCurrent`, `WritePassword`, `SetFirstLogin`) and `reset_user_password`
(`WritePassword`, `SetFirstLogin`) are here as writers of `first_login`, without the password, of
which `Credentials` keeps account: whether the current one verifies is a free choice. `Flag` is the value a
call writes, `Target` the user it writes it for; an administrator's update without a `first_login` and the
user's own updates write none.

### `Settings` (with `MCSettings`, `SettingsProofs`)

`CheckKey` and `CreateSettings` are `insert_settings`; `LookUp` is the lookup for an
organization with its fallback to the global row and then to the built-in value. No caller
inserts a setting of one organization, so there is no row for an override to find.

### `Commands` (with `MCCommands`, `CommandsProofs`)

The commands of `bin/cli.rs` as processes of several transactions beside `Rename`,
`EraseUser` and `Dissolve` of the server. `who` and `copy` are what a command found under the name
it was given; `bore` is history: the users that have borne the name since it began. The
session token that `recover-user` stores as a reset token is modelled by its claims,
since equal claims in the same second are the same text. `CreateSuperadmin` is
`Count`, `InsertUser` (which a group that `resolve_group_ids` cannot resolve prevents), `JoinDefault`, `FindGroup`, `CheckGroup`, `AssignGroup`; the checks of identity inside
its registration are those of `Accounts`, of which only the unique keys are kept here.

## Runs

| Run | Question | Result |
|---|---|---|
| `accounts_public` | public namespace, 3 requests over 5 kinds: types, unique identities, source of authority, bootstrap, full creation, refinement of `AccountDirectory` | holds |
| `accounts_tenant` | tenant, 3 requests over 6 kinds, each seeded group table: superadmin gains no member, rows never dangle, deletion withdraws nothing else | holds |
| `accounts_answered` | every request that arrives is answered, under fair polling | holds |
| `credentials` | logins, changes, sets, temporary passwords, links and administrators' updates of `first_login` of two accounts, mixed: authority over passwords, spent links, replaced passwords, the obligation to change | holds |
| `credentials_once` | "Can only be used once" (the mail) | refuted |
| `sessions` | a group lost, then logins, refreshes and the console over two lifetimes; claims beside assignments, removals, a deletion; administrators of two namespaces with equal numbers and a tenant's own group `superadmin` | holds |
| `organizations` | creations, deletions and insertions over equal, malformed, cut and surviving namespaces; rotations (also of a key whose organization is not created yet), key checks, listings; registrations naming organizations against revealing and rotating keys | holds |
| `policies` | three kinds of check while links, user and organization change; racing and invalid creations and listings in a tenant | holds |
| `policies_tenant` | denials "indistinguishable" to a key | refuted |
| `profiles` | updates of all three kinds, changes and resets of passwords, a registration, a deletion: unique identities, what an answered update named stands, `first_login` is what its last writer made of it | holds |
| `settings` | two keys, public and tenant: one row of a key whatever insertions race, readers see what was answered | holds |
| `commands` | commands against renaming, deletion, dissolution: reports are true; also in a tenant with a group row " Superadmin" (the comment at `group_service.rs:146-147` allows for such rows) | holds |

### What the refuted runs show

* `credentials_once`: a link is presented twice before the first presentation marks
  it. Both succeed. The half that holds is `SpentTokensStaySpent`: once a
  reset has been answered, the link is refused to whoever presents it later.
* `policies_tenant`: a tenant's schema has no `user_policies` and no `group_policies`. A check
  about an own user reads them and is answered 500; one about anybody else is answered
  `allowed: false` before that. So no check by a tenant's key ever allows, and the
  answers differ.

### Other divergences the models make visible

Each is what the code does and what the models do. None has a run of its own, since the
safe half of each is a property that holds.

* `register` counts the users and inserts its own several transactions later: two first
  registrations are both bootstrapped, and a first registration that names a group leaves a
  namespace without an administrator, against `user_service.rs:240-242`. The safe half is
  `BootstrapMeansEmpty`.
* `register` compares the requested organization with that of the namespace only if
  there still is one (`user_service.rs:257`, against the comment at 249-251): the user is then in
  the schema of one organization and bound to another. The safe half is
  `KeysStayInTheirNamespace`: `get_org_key` compares the namespaces again.
* `rotate_secret_key` (`sqlx_impl.rs:1184`) does not look at the number of rows it updated:
  when the organization is gone, or was never there, "Key rotated successfully" comes with a key
  that opens nothing.
* `create_settings` (`sqlx_impl.rs:325`) writes no organization in a tenant, whose column is
  `NOT NULL`: every insertion of a setting in a tenant is refused.
* `PATCH /api/admin/users/{user_id}` with `first_login: false` (`user_service.rs:719`) leaves a
  temporary password in force that nobody is told to change. The safe half is in `Lowers`.
* `recover-user` (`cli.rs:296`) passes the username where `generate_token` takes the
  email, so the stored token claims one for the other (`ClaimsOf` in `Commands`).

### Bounds, and why they are enough

Three requests are two that race and one that interferes (an administrator who
removes or deletes, a third presentation of a link): every property relates at most
two requests and one more row. Two spellings of one mailbox and a second mailbox,
two usernames: each key can clash alone. Six group names: the three standard
ones, one with a space, one in other case, one custom. Two accounts with
passwords, so that a link can be misapplied.
Passwords are the original, a new one, one below the minimum length, and the
temporary ones. Requests (and accounts) are symmetric: no definition tells them
apart. The liveness run uses no symmetry. Nothing counts without bound:
each request is served once.

Where a run asks several questions of one module, the MC module's `Scenario` keeps the requests
of one behaviour to one of them (`CONSTRAINT`): each question is explored with all its
interleavings, and mixtures of the questions are not. `credentials` mixes all its kinds,
but leaves out requests that can do nothing in the company they are in: a link that nobody asks for, a
clean-up without links, a guess at a temporary password that is never drawn, an update of
`first_login` where no reset raises it.

For the later modules: sessions run with four requests where a chain of login, refresh,
refresh and gate must outlast a removal (`Lifetime = 2`, `MaxTime = 3`: the
clock passes the end of the first token of a chain while a second lives), three elsewhere.
Two namespaces with the users 1 and 2 in each, so that numbers collide. Five namespaces over
four schemas: the public one, one in use, two that are cut to one schema, one malformed. Two
policies at the start, ALLOW on everything and DENY under a prefix, reachable by user and by
group, and a third name to create; resources are an empty text, a star, a word, two words, a
prefix with a star. Two users with profiles, three mailboxes in four spellings and one
malformed. Two settings, one there at the start. For the commands two users and a clock of
two seconds (`MaxClock = 1`): a second recovery falls in the same second or the next.

The proofs then remove the bounds from every safety property: they hold for any sets of
requests, users, names, organizations, policies and settings, and any lifetime of tokens.

### Fairness

`FairSpec` asks weak fairness of each accepted request's own next transaction: tokio polls a
ready task, and a pool connection is returned at each commit, since no request
holds one across awaits between transactions. It is not asked of `Arrive` or
`Fail`: clients owe nothing, and no request may need to be dropped to be
answered. `Credentials` and the six later modules have straight-line handlers without
waiting or unbounded loops: they state no liveness and assume no fairness. Their `Next` ends in
`Quiescent`, the state where all requests are answered, so a request that is stuck
anywhere else shows as a deadlock.

### Mutants

Each property of a passing run has a mutated operator beside the definition it
mutates ("Mutation: ..." in the comment): a plausible slip in the code (a dropped index, a
comparison without case folding, an off-by-one loop, a query without `used_at IS
NULL`) under which TLC finds that property violated. They are not part of
the specifications.

## Proofs

Each component has its proofs in a module of its own, `<module>Proofs`. Every safety
property of the passing runs (36 invariants, two action properties, one refinement) is a
theorem, for every choice of the constants that meets the named assumptions:

| Module | Theorems (the property of the runs each states) |
|---|---|
| `AccountsProofs` | `TypeCorrect`, `IdentitiesUnique` (`UniqueIdentities`), `MembershipsRefer` (`ReferentialIntegrity`), `OnlyRevocation` (`OnlyRevocationWithdraws`), `BootstrapIsFirst` (`BootstrapMeansEmpty`), `SuperadminStaysGlobal` (`ReservedStaysGlobal`), `PrivilegeIsGranted` (`PrivilegeProvenance`), `CreationsComplete` (`CreatedInFull`), `RequestsImplementDirectory` (`ImplementsDirectory`) |
| `CredentialsProofs` | `TypeCorrect`, `AuthorityNeeded` (`PasswordAuthority`), `SessionsCurrent` (`SessionsUseCurrentPassword`), `SpentForGood` (`SpentTokensStaySpent`), `TemporaryIsTemporary` (`TemporaryMustBeChanged`), `LoginsAreTold` (`TemporaryLoginIsTold`) |
| `SessionsProofs` | `TypeCorrect`, `ClaimsAreTrue` (`ClaimsWereHeld`), `TokensAreConfined` (`Confinement`), `AssignersAreRight` (`AssignerIsNamedRightly`), `RevocationsTakeEffect` (`RevocationTakesEffect`) |
| `PoliciesProofs` | `OrderDoesNotDecide` (about the evaluation itself), `TypeCorrect`, `ChecksAreRight` (`ChecksWereRight`), `DenialsHold` (`DeniesHold`), `CreationsAreListed` (`CreatedPoliciesAreListed`) |
| `OrganizationsProofs` | `TypeCorrect`, `SchemasStayApart` (`SchemasAreNotShared`), `CreationsStand` (`CreatedMeansCreated`), `KeysAreCurrent` (`OldKeysOpenNothing`), `LastRotationStands` (`LastRotationIsInForce`), `KeysStayHome` (`KeysStayInTheirNamespace`) |
| `ProfilesProofs` | `TypeCorrect`, `IdentitiesAreUnique` (`UniqueIdentities`), `NamedStands` (`NamedFieldsStand`) |
| `SettingsProofs` | `TypeCorrect`, `WritesAreShown` (`WrittenIsShown`) |
| `CommandsProofs` | `TypeCorrect`, `ReportsAreTrue` (`MembershipIsAsReported`), `LinksWork` (`LinksAreStored`), `PasswordsAreTheirs` (`PasswordIsTheNamedUsers`) |

`TypeCorrect` is never only about types: it includes the foreign keys (a membership,
link or token refers to rows that exist) or the unique key of the tables.

### Assumptions

TLC evaluates all of them in the runs.

* `NamesAssumption`: the conversions are functions on the names, trimming does not change
  what the reserved-name check compares, the standard names are in normal form.
  `NamespaceAssumption`: the namespace is public or a tenant's.
* `SecretsAssumption`: a drawn secret is never a chosen one; the original password met the
  minimum length.
* `OpsAssumption` and its kin (`SessionOpsAssumption`, `PolicyOpsAssumption`,
  `OrganizationOpsAssumption`, `ProfileOpsAssumption`, `CommandOpsAssumption`, a part of
  `SettingsAssumption`): which fields a kind of request carries, as serde, clap and the routes
  guarantee.
* `SessionsAssumption`, `PoliciesAssumption`, `OrganizationsAssumption`,
  `ProfilesAssumption`, `SettingsAssumption`, `CommandsAssumption`: the rows there are at the start
  meet the constraints of the tables; new rows get new ids; `None` is none of the values.
  `PoliciesAssumption` has finitely many requests and policies, so that a listing is a
  sequence.
* In `OrganizationsAssumption`, no other namespace is cut to the schema of the public one: Postgres
  cuts at 63 bytes, `public` has six, and the code quotes schema names.

### The arguments

None of the properties is inductive alone, nearly all for the same reason: a request acts in one
transaction on what it read in an earlier one. Every module starts from what a
label says of its request (`PathOK`, `RequestOK`, `KindOK`: its kind, and what it has
found by then) and from `EarlierOK` (what was answered before a request arrived stays
answered), without which any transaction might follow any other. The strengthenings
beyond these:

* Accounts. `MadeOK`: a user row belongs to a request that got as far as the insertion, so it
  is inserted once. `BootOK`: only a request that has arrived is bootstrapped, so that `before` is
  frozen when `boot` is set. `ReservedOK`: no name list past the reserved-name check, and no
  assignment past `FindGroup`, names a reserved group in a tenant. `GrantOK`: a registration that
  carries privileged names is bootstrapped. `LinkedOK`, the loop invariant of
  `CreatedInFull`: after `i` rounds the first `i` groups are there or were
  withdrawn. `InsertedOK`: a request past the insertion has its row recorded, so an `ok` maps
  to a confirmed creation of `AccountDirectory`.
* Credentials. `HistoryOK`, `SetterOK`, `WriteOK`, `TokensOK`, `LoginOK`, `LateOK`, `ToldOK`:
  the current password is among those in force; a request about to write has already shown its
  authority; tokens come from answered forgot requests; an owner's change
  about to lower `first_login` did not arrive after the request whose password is in force was answered
  (`OnlyFlagsLower`: nothing else but an administrator's update lowers it), and what
  excuses a flag that is down excuses it for ever (`LowersLasts`).
* Sessions. `BearerOK`: a request that bears a token acts for the user the token was minted
  for, through any chain of refreshes. `HeldOK`: what the user has now is among what it has had since
  the request arrived; `ReadOK`: so is what was read. `LostOK`: a group that is being signed,
  or that the user has, is not lost, and a token that claims a lost group was minted before
  the loss. With the expiry this bounds how long a lost group passes the gate, for
  any `Lifetime`.
* Policies. `OrderDoesNotDecide` turns the loop over a listing in any order into a condition on
  the set of policies, and the rest of the proofs never see a sequence again. `HeldOK`: the
  verdict of the present instant is among those held since the check arrived. `GatherOK`:
  a check by a key that reaches the second transaction is about a user of the
  key's organization. `GrantedOK`: a granted denial is in the table until a request that
  undoes it arrives; `FreshOK`: a policy with a request's id was created by it.
  `CreatedOK`: a created policy stays while its organization does.
* Organizations. `KeyedOK`: an organization's schema has the constraint that a second
  creation in it would trip over. `SeedingOK`: between the two groups the first is there.
  `IdsOK` (`Born`): an id is nobody's before its row is inserted, so a key found for an id
  is never that of a later organization; `InforceOK`, `RotationOK`, `PlacedOK`: the keys now
  are among those in force since a call arrived; a rotation is about a row that was
  found; an organization that an administrator of a tenant acts on is, and stays, in the namespace
  of the token.
* Profiles. `AskedOK`, `BornOK`: a user found by an update and deleted meanwhile does not come
  back. `CopiedOK`: what is about to be saved has what the request named. `WrittenOK`:
  what was named is in the row from the save on; `FlagOK`: so is `first_login`, for whichever call
  wrote it, if all other writers of it were answered before. `KeptOK`: an update that arrived after
  the answer has it in its copy, which is why writing the whole copy back undoes nothing.
  Whoever else could write an email or username is in `Overwrites` (`WriterFacts`).
* Settings. `PresentOK`: a key that was there at the start is there until a deletion of it
  arrives. `InForceOK`: what was written is the one row of its key.
* Commands. `HeardOK`, `BoreOK`: all who bear the name while a command is under way are
  remembered, and it goes on with one of them. `LivesOK`: a user it found and that was deleted does
  not come back. `StoredOK`: the token of a link is there from the issue on. `SetOK`: a
  password set by a command is the one of the user it found.

Each part has its own preservation lemma, with one step per action that can disturb it; frame
lemmas (`ArriveFrame`, `StepFrame`, `TablesStep`, ...) say once what an action changes and leaves
alone. The temporal steps are PTL. TLC checked the strengthenings of `Profiles` on its run
before they were proved.

### What the proofs found

* `LastRotationIsInForce` was too strong: a superadmin may rotate the key of an id that no
  organization has yet (an `UPDATE` of no row is no error, and the answer is "Key rotated
  successfully"), and a creation then takes that id with a key of its own. The proof failed there, TLC
  showed the behaviour once `KeyOps` had such requests, and the property now speaks of
  organizations created before the rotation arrived. The run keeps those requests.
* `TemporaryMustBeChanged`, `TemporaryLoginIsTold` and the part of `NamedFieldsStand` about
  `first_login` held and were proved while each module had only some of the column's writers. With
  `update_user` in `Credentials` and the two password calls in `Profiles` the old statements are
  false of the models as they are of the code; the new ones name every writer. A registration is a
  writer too: a reset may name a user id that is only registered while it runs.
* Two arms of `FirstLabel` in `Organizations` overlapped. TLC takes the first arm of a `CASE` that
  applies, TLA+ chooses any: they are now disjoint.
* The schema of the public namespace must be nobody else's, which the instance had and nothing said.

### Only model-checked

`EveryRequestAnswered`: liveness under fairness is beyond the prover. The two refuted statements are
counterexamples, not theorems. What is checked in bounded instances only because it is
data (that the instance's `Fold`, `Canon` and `SchemaOf` are what the code computes) is an assumption
of the theorems.

## Not modelled, and why

* Start-up, migrations, mail and rendering: wiring, schema or I/O. What they fix for the
  rest (routes and gates, keys and seeded rows) is in the models.
* `JwtService::refresh_token`, `optional_auth` and `require_groups`: nothing calls them.
* The commands `Migrate` and `ListUsers` (sqlx's migrations; a printed hint), and the pages that only
  read (`admin_dashboard`, `list_users`).
* A setting of one organization: no code stores one.
* Contents of hashes, tokens and mails; response wording; listing calls whose answers no property is about.
* Two refusals that the handlers make before any transaction (wrong JSON, missing
  token) are covered by `Fail` or by no arrival at all.
* Postgres itself: a single-statement transaction is atomic, and a unique index or foreign
  key refuses the second of two conflicting statements.

## Plan

All components that keep state are modelled, and every safety property of the passing runs is proved.
What is left:

1. Abstract specifications of the later components beside `AccountDirectory`: a
   register of keys for `Organizations`, a table of settings for `Settings`, each with a step
   of the register for the one transaction that decides a request. The invariants above are what the
   step simulations need (`IdsOK`, `InForceOK`).
2. Lemmas about `ResourceMatches` for any length of text: its cases are now definitions
   that TLC evaluates on the instance's resources.

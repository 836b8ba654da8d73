------------------------------- MODULE Access -------------------------------
(***************************************************************************)
(* Who may call what: accounts, memberships, API keys and bearer tokens    *)
(* (services/auth.py, core/deps.py, core/security.py), the role catalogue  *)
(* (domain/permissions.py) and the development seed that a process writes  *)
(* when it starts (services/seed.py, main.py).                             *)
(*                                                                         *)
(* A request reads the database several times before its handler runs: the *)
(* user or key, the memberships, and the memberships in the bound tenant.  *)
(* Nothing in the API changes accounts, so Edit stands for whatever tool   *)
(* administers the database while requests are in progress.                *)
(***************************************************************************)
EXTENDS Naturals, FiniteSets

CONSTANTS
    Calls,        \* requests that may be in progress at once
    Processes,    \* API processes that start on one database
    Operators,    \* values of settings.dev_operator_email
    Keys,         \* API keys, each issued for one tenant
    KeyTenant,
    Endpoints,    \* permissions of the endpoints that are called
    Edited,       \* accounts the administration touches
    Granted,      \* roles it grants
    TokenLife,    \* settings.access_token_minutes, in ticks
    MaxTime, MaxTokens, MaxCalls, MaxEdits, MaxStarts  \* bounds

PLATFORM_TENANT_ID == "platform"
DEMO_TENANT_ID == "demo"
Tenants == {PLATFORM_TENANT_ID, DEMO_TENANT_ID}

---------------------------------------------------------------------------
(* The permission lists and the role catalogue.                            *)

ANALYST_PERMS ==
    {"tenants:read", "users:read", "roles:read", "audit:read", "events:read",
     "detections:read", "alerts:read", "incidents:read", "incidents:write",
     "evidence:read", "quality:read", "languages:read", "hunts:execute",
     "intel:read"}

HUNTER_PERMS == ANALYST_PERMS \cup {"events:ingest", "intel:write"}

DETECTION_ENGINEER_PERMS ==
    ANALYST_PERMS \cup {"detections:write", "events:ingest", "blue_range:execute"}

RESPONDER_PERMS ==
    ANALYST_PERMS \cup
    {"alerts:write", "evidence:write", "evidence:export", "response:tier0",
     "response:tier1", "response:tier2", "broker:execute"}

ADMIN_PERMS ==
    DETECTION_ENGINEER_PERMS \cup RESPONDER_PERMS \cup
    {"users:write", "tenants:write", "roles:write", "intel:write"}

ROLE_CATALOG ==
    [platform_super_admin |-> ADMIN_PERMS \cup {"admin:platform"},
     tenant_owner         |-> ADMIN_PERMS,
     security_admin       |-> ADMIN_PERMS,
     soc_manager          |-> RESPONDER_PERMS \cup {"blue_range:execute"},
     senior_analyst       |-> RESPONDER_PERMS,
     analyst              |-> ANALYST_PERMS,
     threat_hunter        |-> HUNTER_PERMS,
     detection_engineer   |-> DETECTION_ENGINEER_PERMS,
     incident_responder   |-> RESPONDER_PERMS,
     auditor              |-> ANALYST_PERMS \ {"incidents:write", "languages:read",
                                               "hunts:execute", "intel:read"},
     read_only            |-> {"tenants:read", "alerts:read", "incidents:read",
                               "detections:read", "quality:read"}]

Roles == DOMAIN ROLE_CATALOG

permissions_for_roles(role_keys) ==
    UNION {ROLE_CATALOG[r] : r \in role_keys \cap Roles}

(* The accounts of the seed, in order; the operator comes before them.     *)
Account(email, admin, roles) == [email |-> email, admin |-> admin, roles |-> roles]

OperatorRoles ==
    {<<PLATFORM_TENANT_ID, "platform_super_admin">>, <<DEMO_TENANT_ID, "tenant_owner">>}

SeedAccounts(operator) ==
    <<Account(operator, TRUE, OperatorRoles),
      Account("platform@", TRUE, {<<PLATFORM_TENANT_ID, "platform_super_admin">>}),
      Account("owner@", FALSE, {<<DEMO_TENANT_ID, "tenant_owner">>}),
      Account("analyst@", FALSE, {<<DEMO_TENANT_ID, "analyst">>}),
      Account("hunter@", FALSE, {<<DEMO_TENANT_ID, "threat_hunter">>}),
      Account("detector@", FALSE, {<<DEMO_TENANT_ID, "detection_engineer">>}),
      Account("auditor@", FALSE, {<<DEMO_TENANT_ID, "auditor">>})>>

Emails == Operators \cup {"platform@", "owner@", "analyst@", "hunter@",
                          "detector@", "auditor@"}

ASSUME AccessAssumption ==
    /\ KeyTenant \in [Keys -> Tenants]
    /\ Edited \subseteq Emails /\ Granted \subseteq Roles
    /\ {TokenLife, MaxTime, MaxTokens, MaxCalls, MaxEdits, MaxStarts} \subseteq Nat

---------------------------------------------------------------------------
VARIABLES
    users,        \* email -> its row; status "none" when there is no row
    memberships,  \* rows <<email, tenant, role>>
    tenants,      \* tenant rows
    keys,         \* the active API keys
    tokens,       \* bearer tokens handed out, [sub, exp]
    now,          \* wall clock
    call,         \* the requests in progress
    saw,          \* (history) what was true at some moment of each request
    process,      \* the start of each API process
    seeds,        \* (history) committed seeds
    used          \* (bound) requests begun, edits made and starts made

accounts == <<users, memberships, tenants, keys>>
accessVars == <<users, memberships, tenants, keys, tokens, now, call, saw,
                process, seeds, used>>

NoRow == [status |-> "none", admin |-> FALSE]
Idle == [pc |-> "idle"]

Has(email) == users[email].status # "none"
Active == {e \in Emails : users[e].status = "active"}
Admins == {e \in Emails : users[e].admin}
TenantsOf(email) == {m[2] : m \in {x \in memberships : x[1] = email}}

(* (history) What holds now, and what each request has seen after a step.  *)
Now == [active |-> Active, admins |-> Admins, grants |-> memberships, keys |-> keys,
        bearers |-> {token.sub : token \in {t \in tokens : now < t.exp}}]
Remembered ==
    [c \in Calls |->
        [active  |-> saw[c].active  \cup Now'.active,
         admins  |-> saw[c].admins  \cup Now'.admins,
         grants  |-> saw[c].grants  \cup Now'.grants,
         keys    |-> saw[c].keys    \cup Now'.keys,
         bearers |-> saw[c].bearers \cup Now'.bearers]]

AccessInit ==
    /\ users = [e \in Emails |-> NoRow]
    /\ memberships = {} /\ tenants = {} /\ keys = Keys
    /\ tokens = {} /\ now = 0
    /\ call = [c \in Calls |-> Idle]
    /\ saw = [c \in Calls |-> Now]
    /\ process = [p \in Processes |-> [pc |-> "down"]]
    /\ seeds = 0
    /\ used = [calls |-> 0, edits |-> 0, starts |-> 0]

---------------------------------------------------------------------------
(* Start of a process: seed_if_empty, ensure_dev_credentials, one commit.  *)

(* main.lifespan opens a session and seed_if_empty looks for a tenant; in  *)
(* production, or without dev_seed, both functions return at once.         *)
StartProcess(p, operator, dev) ==
    /\ process[p].pc = "down"
    /\ used.starts < MaxStarts
    /\ used' = [used EXCEPT !.starts = @ + 1]
    /\ process' = [process EXCEPT ![p] =
           IF dev THEN [pc |-> "seed", operator |-> operator,
                        empty |-> tenants = {}, raced |-> FALSE]
                  ELSE [pc |-> "up"]]
    /\ UNCHANGED <<accounts, tokens, now, call, saw, seeds>>

(* The places of the accounts the seed inserts: the first of each email    *)
(* (`seen`).                                                               *)
Inserted(operator) ==
    {i \in DOMAIN SeedAccounts(operator) :
        i = 1 \/ SeedAccounts(operator)[i].email # operator}

(* Unique constraints: tenants.slug and users.email.                       *)
\* Mutant: the tables have no unique columns.
SeedClash_NotUnique(operator) == FALSE
SeedClash(operator) ==
    LET Email(i) == SeedAccounts(operator)[i].email
    IN  \/ tenants # {}
        \/ \E i \in Inserted(operator) : Has(Email(i))
        \/ \E i, j \in Inserted(operator) : i # j /\ Email(i) = Email(j)

(* seed_if_empty flushes its rows; ensure_dev_credentials then looks the   *)
(* operator up, among the flushed rows too.                                *)
Seed(p) ==
    LET s == process[p]
    IN  /\ s.pc = "seed"
        /\ process' = [process EXCEPT ![p] =
               IF s.empty /\ SeedClash(s.operator)
               THEN [pc |-> "failed", raced |-> s.raced]
               ELSE [s EXCEPT !.pc = IF s.empty \/ Has(s.operator)
                                     THEN "align" ELSE "create"]]
        /\ UNCHANGED <<accounts, tokens, now, call, saw, seeds, used>>

(* ensure_dev_credentials creates the operator, or makes it an active      *)
(* administrator. Passwords, which it sets for every account, are not      *)
(* modelled.                                                               *)
\* Mutant: every account is activated with the operator.
Ensured_AllActive(operator, table) ==
    [e \in Emails |-> IF e = operator THEN [status |-> "active", admin |-> TRUE]
                      ELSE IF table[e].status = "none" THEN NoRow
                      ELSE [table[e] EXCEPT !.status = "active"]]
Ensured(operator, table) ==
    [table EXCEPT ![operator] = [status |-> "active", admin |-> TRUE]]

(* What the commit of the start s writes: the accounts of the seed and     *)
(* their memberships, and those of the operator when it is created.        *)
NewAccounts(s) ==
    IF s.empty THEN {SeedAccounts(s.operator)[i] : i \in Inserted(s.operator)} ELSE {}

SeededUsers(s) ==
    [e \in Emails |->
        IF \E a \in NewAccounts(s) : a.email = e
        THEN [status |-> "active", admin |-> \E a \in NewAccounts(s) : a.email = e /\ a.admin]
        ELSE users[e]]

SeededMembers(s) ==
    UNION {{<<a.email, r[1], r[2]>> : r \in a.roles} : a \in NewAccounts(s)}

CreatedMembers(s) ==
    {<<s.operator, r[1], r[2]>> : r \in {x \in OperatorRoles : s.pc = "create" /\ x[1] \in tenants}}

(* A row that another process committed first raises IntegrityError.       *)
StartClash(s) ==
    \/ s.empty /\ SeedClash(s.operator)
    \/ s.pc = "create" /\ Has(s.operator)

(* The steps above and sync_catalog_revisions (RuleLifecycle) end in one   *)
(* commit; after an IntegrityError nothing is stored.                      *)
CommitStart(p) ==
    LET s == process[p]
    IN  /\ s.pc \in {"align", "create"}
        /\ UNCHANGED <<keys, tokens, now, call, used>>
        /\ IF StartClash(s)
           THEN /\ process' = [process EXCEPT ![p] = [pc |-> "failed", raced |-> s.raced]]
                /\ UNCHANGED <<users, memberships, tenants, saw, seeds>>
           ELSE /\ users' = Ensured(s.operator, SeededUsers(s))
                /\ tenants' = IF s.empty THEN Tenants ELSE tenants
                /\ memberships' = memberships \cup SeededMembers(s) \cup CreatedMembers(s)
                /\ seeds' = IF s.empty THEN seeds + 1 ELSE seeds
                /\ saw' = Remembered
                /\ process' = [q \in Processes |->
                       IF q = p THEN [pc |-> "up"]
                       ELSE IF process[q].pc \in {"seed", "align", "create"}
                       THEN [process[q] EXCEPT !.raced = TRUE]
                       ELSE process[q]]

(* A process that runs, or could not start, is stopped.                    *)
StopProcess(p) ==
    /\ process[p].pc \in {"up", "failed"}
    /\ used.starts < MaxStarts
    /\ process' = [process EXCEPT ![p] = [pc |-> "down"]]
    /\ UNCHANGED <<accounts, tokens, now, call, saw, seeds, used>>

---------------------------------------------------------------------------
(* Administration of the database (external), and time.                    *)

Edit ==
    /\ used.edits < MaxEdits
    /\ used' = [used EXCEPT !.edits = @ + 1]
    /\ \/ \E e \in Edited, t \in tenants, r \in Granted :
             /\ Has(e)
             /\ memberships' = IF <<e, t, r>> \in memberships
                               THEN memberships \ {<<e, t, r>>}
                               ELSE memberships \cup {<<e, t, r>>}
             /\ UNCHANGED <<users, keys>>
       \/ \E e \in Edited :
             /\ Has(e)
             /\ \/ users' = [users EXCEPT ![e].status =
                       IF @ = "active" THEN "disabled" ELSE "active"]
                \/ users' = [users EXCEPT ![e].admin = ~@]
             /\ UNCHANGED <<memberships, keys>>
       \/ \E k \in keys :
             /\ keys' = keys \ {k}
             /\ UNCHANGED <<users, memberships>>
    /\ UNCHANGED <<tenants, tokens, now, call, process, seeds>>
    /\ saw' = Remembered

Tick ==
    /\ now < MaxTime
    /\ now' = now + 1
    /\ UNCHANGED <<accounts, tokens, call, saw, process, seeds, used>>

---------------------------------------------------------------------------
(* Requests.                                                               *)

(* POST /auth/login with the right password; AuditChain models the audit   *)
(* records of this handler and its refusals, which change nothing here.    *)
Login(e) ==
    /\ e \in Active
    /\ Cardinality(tokens) < MaxTokens
    /\ tokens' = tokens \cup {[sub |-> e, exp |-> now + TokenLife]}
    /\ UNCHANGED <<accounts, now, call, saw, process, seeds, used>>

(* decode_token refuses a token from the second it expires.                *)
Valid(token) == now < token.exp

Refused(c) == [call EXCEPT ![c] = Idle]

(* get_actor with X-API-Key: the key is looked at before any bearer token. *)
AuthenticateKey(c, k, header, perm) ==
    /\ call[c].pc = "idle"
    /\ used.calls < MaxCalls
    /\ used' = [used EXCEPT !.calls = @ + 1]
    /\ saw' = [saw EXCEPT ![c] = Now]
    /\ call' = IF k \in keys
               THEN [call EXCEPT ![c] =
                   [pc |-> "bind", by |-> "api_key", who |-> k, admin |-> FALSE,
                    tenant_ids |-> {KeyTenant[k]}, header |-> header, perm |-> perm]]
               ELSE Refused(c)
    /\ UNCHANGED <<accounts, tokens, now, process, seeds>>

(* get_actor with a bearer token: the user row is read, what the token     *)
(* says about tenants and administration is not used.                      *)
AuthenticateBearer(c, token, header, perm) ==
    /\ call[c].pc = "idle"
    /\ used.calls < MaxCalls
    /\ used' = [used EXCEPT !.calls = @ + 1]
    /\ saw' = [saw EXCEPT ![c] = Now]
    /\ call' = IF Valid(token) /\ token.sub \in Active
               THEN [call EXCEPT ![c] =
                   [pc |-> "tenants", by |-> "user", who |-> token.sub,
                    admin |-> users[token.sub].admin, header |-> header, perm |-> perm]]
               ELSE Refused(c)
    /\ UNCHANGED <<accounts, tokens, now, process, seeds>>

(* The end of actor_from_bearer: all memberships of the user.              *)
ReadMemberships(c) ==
    LET a == call[c]
    IN  /\ a.pc = "tenants"
        /\ call' = [call EXCEPT ![c] =
               [pc |-> "bind", by |-> "user", who |-> a.who, admin |-> a.admin,
                tenant_ids |-> TenantsOf(a.who), header |-> a.header, perm |-> a.perm]]
        /\ UNCHANGED <<accounts, tokens, now, saw, process, seeds, used>>

(* get_tenant_actor: the header, or the only tenant of the caller.         *)
NoHeader == "none"
Chosen(a) ==
    IF a.header # NoHeader THEN {a.header}
    ELSE IF Cardinality(a.tenant_ids) = 1 THEN a.tenant_ids ELSE {}

(* The role keys bind_tenant takes from the memberships in the tenant.     *)
\* Mutant: the roles of the caller in all tenants.
RoleKeys_AnyTenant(a, t) ==
    LET mine == {m \in memberships : m[1] = a.who}
    IN  IF a.by = "api_key" THEN {"detection_engineer"}
        ELSE IF a.admin /\ mine = {} THEN {"platform_super_admin"}
        ELSE {m[3] : m \in mine}
RoleKeys(a, t) ==
    LET mine == {m \in memberships : m[1] = a.who /\ m[2] = t}
    IN  IF a.by = "api_key" THEN {"detection_engineer"}
        ELSE IF a.admin /\ mine = {} THEN {"platform_super_admin"}
        ELSE {m[3] : m \in mine}

require_permission(a, permissions) == a.admin \/ a.perm \in permissions

(* get_tenant_actor, bind_tenant and Permission.__call__.                  *)
BindTenant(c) ==
    LET a == call[c]
        May(t) == /\ t \in a.tenant_ids \/ a.admin
                  /\ RoleKeys(a, t) # {} \/ a.admin
                  /\ require_permission(a, permissions_for_roles(RoleKeys(a, t)))
    IN  /\ a.pc = "bind"
        /\ a.perm # "none"
        /\ IF \E t \in Chosen(a) : May(t)
           THEN \E t \in Chosen(a) : May(t) /\
                  call' = [call EXCEPT ![c] =
                      [pc |-> "run", by |-> a.by, who |-> a.who, admin |-> a.admin,
                       perm |-> a.perm, tenants |-> {t},
                       permissions |-> permissions_for_roles(RoleKeys(a, t))]]
           ELSE call' = Refused(c)
        /\ UNCHANGED <<accounts, tokens, now, saw, process, seeds, used>>

(* GET /tenants needs an actor only: administrators list all tenants.      *)
ListTenants(c) ==
    LET a == call[c]
    IN  /\ a.pc = "bind"
        /\ a.perm = "none"
        /\ call' = [call EXCEPT ![c] =
               [pc |-> "run", by |-> a.by, who |-> a.who, admin |-> a.admin,
                perm |-> "none", permissions |-> {},
                tenants |-> IF a.admin THEN tenants ELSE tenants \cap a.tenant_ids]]
        /\ UNCHANGED <<accounts, tokens, now, saw, process, seeds, used>>

AccessNext ==
    \/ \E p \in Processes :
          \/ \E o \in Operators, dev \in BOOLEAN : StartProcess(p, o, dev)
          \/ Seed(p) \/ CommitStart(p) \/ StopProcess(p)
    \/ Edit \/ Tick
    \/ \E e \in Edited : Login(e)
    \/ \E c \in Calls :
          \/ \E h \in Tenants \cup {NoHeader}, perm \in Endpoints :
                \/ \E k \in Keys : AuthenticateKey(c, k, h, perm)
                \/ \E token \in tokens : AuthenticateBearer(c, token, h, perm)
          \/ ReadMemberships(c) \/ BindTenant(c) \/ ListTenants(c)

---------------------------------------------------------------------------
(* Type of the state.                                                      *)
AccessTypeOK ==
    /\ users \in [Emails -> [status : {"none", "active", "disabled"}, admin : BOOLEAN]]
    /\ memberships \subseteq Emails \X Tenants \X Roles
    /\ tenants \subseteq Tenants
    /\ keys \subseteq Keys
    /\ now \in 0 .. MaxTime
    /\ \A token \in tokens : token.sub \in Emails /\ token.exp \in 0 .. MaxTime + TokenLife
    /\ \A c \in Calls : call[c].pc \in {"idle", "tenants", "bind", "run", "answered"}
    /\ \A p \in Processes :
          process[p].pc \in {"down", "seed", "align", "create", "up", "failed"}

(* A handler runs only on authority its caller had during the request: a   *)
(* user had a token that was not expired, was active, and administrator or *)
(* holder, in each tenant the handler works on, of a role with the         *)
(* permission of the endpoint; an API key was active and works on its own  *)
(* tenant. The reads of actor_from_bearer and bind_tenant may be separated *)
(* by edits, and tokens outlive memberships.                               *)
HandlersAuthorized ==
    \A c \in Calls : call[c].pc = "run" =>
        LET a == call[c]
            Grants(t) == {r \in Roles : <<a.who, t, r>> \in saw[c].grants}
        IN  IF a.by = "api_key"
            THEN /\ a.who \in saw[c].keys
                 /\ a.tenants \subseteq {KeyTenant[a.who]}
                 /\ a.perm \in DETECTION_ENGINEER_PERMS \cup {"none"}
            ELSE /\ a.who \in saw[c].active \cap saw[c].bearers
                 /\ \/ a.who \in saw[c].admins
                    \/ \A t \in a.tenants :
                          \E r \in Grants(t) : a.perm \in ROLE_CATALOG[r] \cup {"none"}

(* The development seed is written once, however many processes start on   *)
(* the empty database together, and its rows are not written again by      *)
(* later starts.                                                           *)
SeededOnce == seeds <= 1

(* A process fails to start only when another one committed its own start  *)
(* in between: alone, the seed never collides with itself or with the rows *)
(* of earlier starts, whatever the operator is called.                     *)
StartFailsOnlyInRace ==
    \A p \in Processes : process[p].pc = "failed" => process[p].raced

(* Processes may start together on an empty database, stop and start again: *)
(* the seed is written once and a start fails only when it lost a race      *)
(* (seed_if_empty and the unique keys of its tables).                       *)
StartsSound == AccessTypeOK /\ SeededOnce /\ StartFailsOnlyInRace

(* A start of a process leaves the accounts of an existing database as     *)
(* administration left them: only a configured operator becomes active,    *)
(* administrator or member, and no membership is taken away.               *)
StartChangesOperatorOnly ==
    [][\A p \in Processes :
          process[p].pc \in {"align", "create"} /\ process'[p].pc = "up" /\ tenants # {} =>
             /\ \A e \in Emails \ {process[p].operator} : users'[e] = users[e]
             /\ memberships \subseteq memberships'
             /\ \A m \in memberships' \ memberships :
                   m[1] = process[p].operator /\ ~Has(m[1])]_accessVars
=============================================================================

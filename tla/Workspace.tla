----------------------------- MODULE Workspace -----------------------------
(***************************************************************************)
(* How a company comes to be in AdLink and connects its platforms:         *)
(* AuthService (register, login, Google, Telegram), AdAccountsService with *)
(* the picker of Meta accounts, CrmService's connections, clients and the  *)
(* implicit default client.                                                *)
(*                                                                         *)
(* A request makes several database calls, each a step of its own, and     *)
(* requests overlap: of two people, of one who clicks twice, of a browser  *)
(* and a phone.  Any of them may fail at any call, by a fault, by a unique *)
(* or a foreign key, or by the death of the process.                       *)
(***************************************************************************)
EXTENDS Naturals

CONSTANTS
  NONE,
  Emails,       \* addresses, for Telegram users the synthetic one
  Tenants,      \* tenant rows there may ever be
  MetaAccounts, \* external ids of ad accounts
  Portals,      \* external references of CRMs
  Pickers,      \* ids of picker sessions
  Requests,     \* requests that may be under way at once
  ByHand,       \* whether clients are added through POST /clients as well
  MaxClients,   \* bound: client rows ever made
  MaxRows       \* bound: connection rows ever made

Externals == MetaAccounts \cup Portals

ASSUME WorkspaceAssumption ==
  /\ NONE \notin Emails \cup Tenants \cup Externals \cup Pickers
  /\ MetaAccounts \cap Portals = {}
  /\ ByHand \in BOOLEAN
  /\ MaxClients \in Nat /\ MaxRows \in Nat

VARIABLES
  tenants,   \* Tenant rows
  users,     \* [Emails -> Tenants \cup {NONE}], the User rows: email is unique
  guests,    \* (history) addresses whose sign-up came with a token of somebody else
  tokens,    \* JWTs issued: [email, tenant]
  clients,   \* Client rows: [id, tenant], ids in order of createdAt
  clientIds, \* how many ids of clients were given
  conns,     \* AdAccount and CrmConnection rows: [id, external, tenant, client] and, for
             \* the properties, whether a job is owed and whether the caller named the client
  rowIds,    \* how many ids of connections were given
  pickers,   \* [Pickers -> [tenant, accounts] or NONE], the Map in memory
  queued,    \* (history) rows for which a job was added
  call,      \* [Requests -> what the request holds]
  cut        \* (history) rows whose request ended before it added the job

authVars == <<tenants, users, guests, tokens>>
connVars == <<clients, clientIds, conns, rowIds, pickers, queued>>
vars == <<authVars, connVars, call, cut>>

\* at: the database call that is next; caller: the tenant of the token that came with a
\* sign-up; named: whether dto.clientId was given; todo: external ids to store; row: the
\* row to sync.
Idle == [at |-> "idle", op |-> "none", email |-> NONE, caller |-> NONE, tenant |-> NONE,
         client |-> 0, named |-> FALSE, todo |-> {}, picker |-> NONE, row |-> 0]

Init ==
  /\ tenants = {} /\ users = [e \in Emails |-> NONE] /\ guests = {} /\ tokens = {}
  /\ clients = {} /\ clientIds = 0 /\ conns = {} /\ rowIds = 0
  /\ pickers = [s \in Pickers |-> NONE]
  /\ queued = {} /\ call = [r \in Requests |-> Idle] /\ cut = {}

At(r, pc) == call[r].at = pc
Becomes(r, state) == call' = [call EXCEPT ![r] = state]
Goto(r, pc) == Becomes(r, [call[r] EXCEPT !.at = pc])
Ends(r) == Becomes(r, Idle)

-----------------------------------------------------------------------------
(* Signing up and in.                                                      *)

Issue(email, tenant) == tokens' = tokens \cup {[email |-> email, tenant |-> tenant]}

\* login, findOrCreateUser or upsertTelegramUser of a known user; how one proves
\* to be that user is data.
SignIn(email) ==
  /\ users[email] # NONE
  /\ Issue(email, users[email])
  /\ UNCHANGED <<tenants, users, guests, call, cut>> /\ UNCHANGED connVars

\* register or a social login looks for the email and finds nobody.  The routes are
\* public, but a token that comes with the request is read all the same, and the
\* request then runs in the workspace of that token (NONE without one).
StartSignUp(r, email, caller) ==
  /\ At(r, "idle")
  /\ users[email] = NONE
  /\ Becomes(r, [Idle EXCEPT !.at = "tenant", !.op = "signUp", !.email = email, !.caller = caller])
  /\ UNCHANGED cut /\ UNCHANGED authVars /\ UNCHANGED connVars

CreateTenant(r) ==
  /\ At(r, "tenant")
  /\ \E t \in Tenants \ tenants :
       /\ tenants' = tenants \cup {t}
       /\ Becomes(r, [call[r] EXCEPT !.at = "user", !.tenant = t])
  /\ UNCHANGED <<users, guests, tokens, cut>> /\ UNCHANGED connVars

\* The tenant the user row gets: the one just created, which the client extension of
\* Prisma replaces by that of the token the request runs under.
Stored(c) == IF c.caller = NONE THEN c.tenant ELSE c.caller

\* The user row and the token of it, whose answer may be lost, or the update of a
\* Telegram handle before it fail.
StoreUser(r) ==
  /\ users' = [users EXCEPT ![call[r].email] = Stored(call[r])]
  /\ guests' = IF call[r].caller = NONE THEN guests ELSE guests \cup {call[r].email}
  /\ tokens' = tokens \/ Issue(call[r].email, Stored(call[r]))
  /\ Ends(r)

\* Mutant: the user is upserted by email.
CreateUserUpserts(r) ==
  /\ At(r, "user")
  /\ StoreUser(r)
  /\ UNCHANGED <<tenants, cut>> /\ UNCHANGED connVars

\* user.create, which the unique key refuses when another request was faster, and the token.
CreateUser(r) ==
  /\ At(r, "user")
  /\ users[call[r].email] = NONE
  /\ StoreUser(r)
  /\ UNCHANGED <<tenants, cut>> /\ UNCHANGED connVars

-----------------------------------------------------------------------------
(* The picker of Meta accounts lives in the memory of the process.         *)

\* metaCallback: the accounts the user may read are offered, under an id never used before.
OpenPicker(s, token, accounts) ==
  /\ pickers[s] = NONE /\ \A r \in Requests : call[r].picker # s
  /\ pickers' = [pickers EXCEPT ![s] = [tenant |-> token.tenant, accounts |-> accounts]]
  /\ UNCHANGED <<clients, clientIds, conns, rowIds, queued, call, cut>> /\ UNCHANGED authVars

\* getMetaSession and pruneMetaSessions drop what is older than ten minutes.
ExpirePicker(s) ==
  /\ pickers[s] # NONE
  /\ pickers' = [pickers EXCEPT ![s] = NONE]
  /\ UNCHANGED <<clients, clientIds, conns, rowIds, queued, call, cut>> /\ UNCHANGED authVars

-----------------------------------------------------------------------------
(* Connecting: the client, the rows, the first sync.                       *)

\* metaImport: the session must be of the caller's tenant; only what it offers is imported.
StartImport(r, token, s, chosen) ==
  /\ At(r, "idle")
  /\ pickers[s] # NONE /\ pickers[s].tenant = token.tenant
  /\ chosen \subseteq pickers[s].accounts
  /\ Becomes(r, [Idle EXCEPT !.at = "client", !.op = "import", !.tenant = token.tenant,
                             !.todo = chosen, !.picker = s])
  /\ UNCHANGED cut /\ UNCHANGED authVars /\ UNCHANGED connVars

\* What a query in the context of a request sees of a tenant-scoped table.
Own(rows, tenant) == {x \in rows : x.tenant = tenant}

\* connectMeta, connectBitrix, connectAmocrm: one external id, for the default
\* client (0) or for the one the caller names, which nothing looks up.
StartConnect(r, token, e, client) ==
  /\ At(r, "idle")
  /\ Becomes(r, [Idle EXCEPT !.at = IF client = 0 THEN "client" ELSE "store",
                             !.op = "connect", !.tenant = token.tenant,
                             !.client = client, !.named = client # 0, !.todo = {e}])
  /\ UNCHANGED cut /\ UNCHANGED authVars /\ UNCHANGED connVars

Oldest(rows) == {c \in rows : \A d \in rows : c.id <= d.id}

\* ensureDefaultClient takes the oldest of the clients it sees, else a new one.
TakeClient(r, rows) ==
  /\ At(r, "client")
  /\ \/ rows = {} /\ Goto(r, "newClient")
     \/ \E c \in Oldest(rows) : Becomes(r, [call[r] EXCEPT !.at = "store", !.client = c.id])
  /\ UNCHANGED cut /\ UNCHANGED authVars /\ UNCHANGED connVars

\* Mutant: the look-up through $base, without the tenant.
FindClientUnscoped(r) == TakeClient(r, clients)

FindClient(r) == TakeClient(r, Own(clients, call[r].tenant))

NewClient(tenant) ==
  /\ clientIds < MaxClients
  /\ clientIds' = clientIds + 1
  /\ clients' = clients \cup {[id |-> clientIds + 1, tenant |-> tenant]}

CreateDefaultClient(r) ==
  /\ At(r, "newClient")
  /\ NewClient(call[r].tenant)
  /\ Becomes(r, [call[r] EXCEPT !.at = "store", !.client = clientIds + 1])
  /\ UNCHANGED <<conns, rowIds, pickers, queued, cut>> /\ UNCHANGED authVars

Taken(e) == \E x \in conns : x.external = e

\* The foreign key to the client holds it back when the client is gone by now.
Insert(r, e, syncs) ==
  /\ \E c \in clients : c.id = call[r].client
  /\ rowIds < MaxRows
  /\ rowIds' = rowIds + 1
  /\ conns' = conns \cup {[id |-> rowIds + 1, external |-> e, tenant |-> call[r].tenant,
                           client |-> call[r].client, syncs |-> syncs, named |-> call[r].named]}

\* The upsert of importMetaAccounts: the row of an account that is connected
\* already, of whatever tenant, has its name and token refreshed.
ImportOne(r) ==
  /\ At(r, "store") /\ call[r].op = "import"
  /\ \E e \in call[r].todo :
       \/ /\ ~Taken(e)
          /\ Insert(r, e, TRUE)
          /\ Becomes(r, [call[r] EXCEPT !.at = "enqueue", !.todo = @ \ {e}, !.row = rowIds + 1])
       \/ \E x \in conns :
            /\ x.external = e
            /\ Becomes(r, [call[r] EXCEPT !.at = "enqueue", !.todo = @ \ {e}, !.row = x.id])
            /\ UNCHANGED <<conns, rowIds>>
  /\ UNCHANGED <<clients, clientIds, pickers, queued, cut>> /\ UNCHANGED authVars

\* Mutant: a CRM is stored like an ad account, without its first sync.
ConnectOneUnsynced(r) ==
  /\ At(r, "store") /\ call[r].op = "connect"
  /\ \E e \in call[r].todo : ~Taken(e) /\ Insert(r, e, e \in Portals)
  /\ Ends(r)
  /\ UNCHANGED <<clients, clientIds, pickers, queued, cut>> /\ UNCHANGED authVars

\* The create of a connect; a CRM is synced at once, an ad account by the next fan-out.
ConnectOne(r) ==
  /\ At(r, "store") /\ call[r].op = "connect"
  /\ \E e \in call[r].todo :
       /\ ~Taken(e)
       /\ Insert(r, e, e \in Portals)
       /\ IF e \in Portals
          THEN Becomes(r, [call[r] EXCEPT !.at = "enqueue", !.todo = {}, !.row = rowIds + 1])
          ELSE Ends(r)
  /\ UNCHANGED <<clients, clientIds, pickers, queued, cut>> /\ UNCHANGED authVars

\* queue.add; an import goes on with its next account and drops the session after the last.
Enqueue(r) ==
  /\ At(r, "enqueue")
  /\ queued' = queued \cup {call[r].row}
  /\ IF call[r].todo # {}
     THEN Goto(r, "store") /\ pickers' = pickers
     ELSE /\ Ends(r)
          /\ pickers' = IF call[r].op = "import" THEN [pickers EXCEPT ![call[r].picker] = NONE] ELSE pickers
  /\ UNCHANGED <<clients, clientIds, conns, rowIds, cut>> /\ UNCHANGED authVars

-----------------------------------------------------------------------------
(* Other operations, failures, the process.                                *)

\* ClientsService.create.
AddClient(token) ==
  /\ ByHand
  /\ NewClient(token.tenant)
  /\ UNCHANGED <<conns, rowIds, pickers, queued, call, cut>> /\ UNCHANGED authVars

\* ClientsService.remove: the connections of the client go with it.
RemoveClient(token, c) ==
  /\ c \in Own(clients, token.tenant)
  /\ clients' = clients \ {c}
  /\ conns' = {x \in conns : x.client # c.id}
  /\ UNCHANGED <<clientIds, rowIds, pickers, queued, call, cut>> /\ UNCHANGED authVars

\* AdAccountsService.remove and CrmService.remove.
RemoveConn(token, x) ==
  /\ x \in Own(conns, token.tenant)
  /\ conns' = conns \ {x}
  /\ UNCHANGED <<clients, clientIds, rowIds, pickers, queued, call, cut>> /\ UNCHANGED authVars

Owing(R) == {call[r].row : r \in {x \in R : At(x, "enqueue")}}

\* Any call may throw; what was written stays.
Fails(r) ==
  /\ ~At(r, "idle")
  /\ Ends(r)
  /\ cut' = cut \cup Owing({r})
  /\ UNCHANGED authVars /\ UNCHANGED connVars

\* The process dies: requests and the Map of sessions are gone.
Crash ==
  /\ call' = [r \in Requests |-> Idle]
  /\ cut' = cut \cup Owing(Requests)
  /\ pickers' = [s \in Pickers |-> NONE]
  /\ UNCHANGED <<clients, clientIds, conns, rowIds, queued>> /\ UNCHANGED authVars

Next ==
  \/ \E e \in Emails : SignIn(e)
  \/ \E r \in Requests :
       \/ \E e \in Emails, caller \in {NONE} \cup {token.tenant : token \in tokens} : StartSignUp(r, e, caller)
       \/ CreateTenant(r) \/ CreateUser(r)
       \/ \E token \in tokens, s \in Pickers : \E chosen \in SUBSET MetaAccounts \ {{}} : StartImport(r, token, s, chosen)
       \/ \E token \in tokens, e \in Externals, client \in 0..clientIds : StartConnect(r, token, e, client)
       \/ FindClient(r) \/ CreateDefaultClient(r) \/ ImportOne(r) \/ ConnectOne(r) \/ Enqueue(r)
       \/ Fails(r)
  \/ \E token \in tokens :
       \/ \E s \in Pickers : \E accounts \in SUBSET MetaAccounts \ {{}} : OpenPicker(s, token, accounts)
       \/ AddClient(token)
       \/ \E c \in clients : RemoveClient(token, c)
       \/ \E x \in conns : RemoveConn(token, x)
  \/ \E s \in Pickers : ExpirePicker(s)
  \/ Crash

Spec == Init /\ [][Next]_vars

-----------------------------------------------------------------------------
CallRow ==
  [at : {"idle", "tenant", "user", "client", "newClient", "store", "enqueue"},
   op : {"none", "signUp", "import", "connect"},
   email : Emails \cup {NONE}, caller : tenants \cup {NONE}, tenant : tenants \cup {NONE},
   client : 0..clientIds, named : BOOLEAN, todo : SUBSET Externals,
   picker : Pickers \cup {NONE}, row : 0..rowIds]

\* Types, with the keys of the schema: ids, and one connection per external id.
TypeOK ==
  /\ tenants \subseteq Tenants
  /\ users \in [Emails -> tenants \cup {NONE}] /\ guests \subseteq Emails
  /\ tokens \subseteq [email : Emails, tenant : tenants]
  /\ clients \subseteq [id : 1..clientIds, tenant : tenants] /\ clientIds \in 0..MaxClients
  /\ conns \subseteq [id : 1..rowIds, external : Externals, tenant : tenants,
                      client : 1..clientIds, syncs : BOOLEAN, named : BOOLEAN] /\ rowIds \in 0..MaxRows
  /\ \A c, d \in clients : c.id = d.id => c = d
  /\ \A x, y \in conns : x.id = y.id \/ x.external = y.external => x = y
  /\ pickers \in [Pickers -> [tenant : tenants, accounts : SUBSET MetaAccounts] \cup {NONE}]
  /\ queued \subseteq 1..rowIds /\ cut \subseteq 1..rowIds
  /\ call \in [Requests -> CallRow]

\* Whoever signs in with an address, by password, Google or Telegram and however
\* many of these overlap with the very first, always comes into the workspace its
\* user row was given.  Two addresses come into the same one only when the sign-up
\* of one of them carried a token of it, and whichever way such sign-ups follow on
\* each other, every workspace anybody comes into has the user it was made for.
SignInsAgree ==
  /\ \A token \in tokens : users[token.email] = token.tenant
  /\ \A e, f \in Emails \ guests : users[e] = users[f] /\ users[e] # NONE => e = f
  /\ \A e \in Emails : users[e] # NONE => \E f \in Emails \ guests : users[f] = users[e]

\* A connection hangs on a client that is there, also when the client was removed
\* while it was made, and the client is of its own tenant unless the caller named
\* another one; and no client or connection is of a tenant nobody signed in to.
ConnectionsAtHome ==
  /\ \A x \in conns : \E c \in clients : c.id = x.client /\ (x.named \/ c.tenant = x.tenant)
  /\ \A y \in clients \cup conns : \E token \in tokens : token.tenant = y.tenant

\* "Kick off the first sync right after import so data starts flowing" holds of
\* every row an import or a CRM connect made, also when two imports met on it or
\* it was removed and made again in between: a job was added, or the request
\* that is to add it is under way, or was cut off right there.
FirstSyncFollows ==
  \A x \in conns : x.syncs => x.id \in queued \cup Owing(Requests) \cup cut

-----------------------------------------------------------------------------
(* What comments of the repository say and the code does not keep.         *)

\* "Register a brand-new agency: creates the Tenant and its OWNER user"
\* (auth.service.ts:18): no two addresses share a workspace.
OneUserEach == \A e, f \in Emails : users[e] = users[f] /\ users[e] # NONE => e = f

\* "when a request context exists, every query on a tenant-scoped model is constrained
\* to that tenant" (prisma.client.ts:39): the client a connection names is of its tenant.
NamedClientsAtHome == \A x \in conns, c \in clients : c.id = x.client => c.tenant = x.tenant

\* "we keep one implicit default client per tenant" (default-client.ts:6), where nobody adds one by hand.
OneDefaultClient == \A c, d \in clients : c.tenant = d.tenant => c = d

\* "Import only the accounts the user picked" (ad-accounts.service.ts:130): what
\* an import has just written is in the caller's tenant.
ImportedShows ==
  [][\A r \in Requests : call[r].op = "import" /\ call[r].at = "store" /\ call'[r].at = "enqueue"
       => \E x \in conns' : x.id = call'[r].row /\ x.tenant = call[r].tenant]_vars
=============================================================================

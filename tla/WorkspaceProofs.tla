-------------------------- MODULE WorkspaceProofs --------------------------
(***************************************************************************)
(* Proofs about Workspace for any number of people, tenants, platforms and *)
(* overlapping requests: types and unique keys, that sign-ins agree, that  *)
(* connections are at home and that their first sync follows.  And about   *)
(* QrLogin, the way into a workspace by a code, for any number of          *)
(* approvals and polls and any time to live: types, how far what bot and   *)
(* phone say agrees with the login the session carries, and that a session *)
(* nothing overlapped on is a one-shot mailbox.                            *)
(***************************************************************************)
EXTENDS Workspace, QrLogin, FiniteSetTheorems, TLAPS

\* A request with a client in hand that will store a connection of it.
Storing(c) == c.at = "store" \/ (c.at = "enqueue" /\ c.todo # {})

\* What a request holds at each database call, given the tenants and the ids there are.
HeldRow(c, ts, n, m) ==
  /\ c.at \in {"tenant", "user"} => c.email \in Emails
  /\ c.at \notin {"idle", "tenant"} => c.tenant \in ts
  /\ c.op = "import" => c.picker \in Pickers
  /\ Storing(c) => c.client \in 1..n
  /\ c.at = "enqueue" => c.row \in 1..m
Held == \A r \in Requests : HeldRow(call[r], tenants, clientIds, rowIds)

TypeInv == TypeOK /\ Held

\* A tenant that was just created is nobody's yet, and no other request's.
FreshOf(r) ==
  At(r, "user") =>
    /\ \A e \in Emails : users[e] # call[r].tenant
    /\ \A s \in Requests : s # r /\ At(s, "user") => call[s].tenant # call[r].tenant
Fresh == \A r \in Requests : FreshOf(r)

\* A guest has a user row, and the workspace of a token that came with a sign-up has a user.
CallerOf(r) ==
  call[r].at \in {"tenant", "user"} /\ call[r].caller # NONE => \E e \in Emails : users[e] = call[r].caller
Callers ==
  /\ \A e \in guests : users[e] # NONE
  /\ \A r \in Requests : CallerOf(r)

SignInInv == TypeInv /\ Fresh /\ Callers /\ SignInsAgree

\* Whoever connects something has signed in, and the client it found, if it is
\* still there, is its tenant's.
HomeOf(r) ==
  /\ call[r].at \in {"client", "newClient", "store", "enqueue"} =>
       \E token \in tokens : token.tenant = call[r].tenant
  /\ Storing(call[r]) /\ ~call[r].named =>
       \A c \in clients : c.id = call[r].client => c.tenant = call[r].tenant
Home == \A r \in Requests : HomeOf(r)

HomeInv == TypeInv /\ Home /\ ConnectionsAtHome

SyncInv == TypeInv /\ FirstSyncFollows

-----------------------------------------------------------------------------
(* Types and unique keys.                                                  *)

LEMMA TypeInit == ASSUME Init PROVE TypeInv
<1>1. call \in [Requests -> CallRow]
  BY DEF Init, CallRow, Idle
<1>2. Held
  BY DEF Init, Held, HeldRow, Storing, Idle
<1>. QED  BY <1>1, <1>2, WorkspaceAssumption DEF Init, TypeInv, TypeOK

LEMMA IdleRow == ASSUME TypeInv PROVE Idle \in CallRow /\ HeldRow(Idle, tenants, clientIds, rowIds)
<1>1. clientIds \in Nat /\ rowIds \in Nat
  BY WorkspaceAssumption DEF TypeInv, TypeOK
<1>2. Idle \in CallRow
  BY <1>1 DEF CallRow, Idle
<1>3. HeldRow(Idle, tenants, clientIds, rowIds)
  BY DEF HeldRow, Storing, Idle
<1>. QED  BY <1>2, <1>3

\* Tenants and ids are only added.
Grows ==
  /\ tenants \subseteq tenants'
  /\ clientIds' \in Nat /\ rowIds' \in Nat /\ clientIds <= clientIds' /\ rowIds <= rowIds'

LEMMA RowsKeep ==
  ASSUME TypeInv, Grows, NEW c \in CallRow, HeldRow(c, tenants, clientIds, rowIds)
  PROVE  c \in CallRow' /\ HeldRow(c, tenants', clientIds', rowIds')
<1>1. clientIds \in Nat /\ rowIds \in Nat
  BY WorkspaceAssumption DEF TypeInv, TypeOK
<1>2. CallRow \subseteq CallRow'
  BY <1>1 DEF Grows, CallRow
<1>3. HeldRow(c, tenants', clientIds', rowIds')
  BY <1>1 DEF Grows, HeldRow
<1>. QED  BY <1>2, <1>3

LEMMA CallKeeps ==
  ASSUME TypeInv, Grows, NEW r \in Requests
  PROVE  call[r] \in CallRow' /\ HeldRow(call[r], tenants', clientIds', rowIds')
<1>1. call[r] \in CallRow /\ HeldRow(call[r], tenants, clientIds, rowIds)
  BY DEF TypeInv, TypeOK, Held
<1>. QED  BY <1>1, RowsKeep

LEMMA IdleKeeps ==
  ASSUME TypeInv, Grows
  PROVE  Idle \in CallRow' /\ HeldRow(Idle, tenants', clientIds', rowIds')
BY IdleRow, RowsKeep

LEMMA CallsUnchanged ==
  ASSUME TypeInv, Grows, call' = call
  PROVE  call' \in [Requests -> CallRow'] /\ Held'
<1>1. \A r \in Requests : call[r] \in CallRow' /\ HeldRow(call[r], tenants', clientIds', rowIds')
  BY CallKeeps
<1>2. call = [r \in Requests |-> call[r]]
  BY DEF TypeInv, TypeOK
<1>. QED  BY <1>1, <1>2 DEF Held

LEMMA CallBecomes ==
  ASSUME TypeInv, Grows, NEW r \in Requests, NEW v, call' = [call EXCEPT ![r] = v],
         v \in CallRow', HeldRow(v, tenants', clientIds', rowIds')
  PROVE  call' \in [Requests -> CallRow'] /\ Held'
<1>1. \A s \in Requests : call[s] \in CallRow' /\ HeldRow(call[s], tenants', clientIds', rowIds')
  BY CallKeeps
<1>2. call \in [Requests -> CallRow]
  BY DEF TypeInv, TypeOK
<1>3. call'[r] = v /\ (\A s \in Requests : s # r => call'[s] = call[s]) /\ call' = [s \in Requests |-> call'[s]]
  BY <1>2
<1>4. \A s \in Requests : call'[s] \in CallRow' /\ HeldRow(call'[s], tenants', clientIds', rowIds')
  BY <1>1, <1>3
<1>. QED  BY <1>3, <1>4 DEF Held

\* Every action keeps the types.
LEMMA SignInTypes == ASSUME TypeInv, NEW e \in Emails, SignIn(e) PROVE TypeInv'
<1>1. Grows /\ call' = call
  BY WorkspaceAssumption DEF SignIn, Issue, Grows, TypeInv, TypeOK, authVars, connVars
<1>2. call' \in [Requests -> CallRow'] /\ Held'
  BY <1>1, CallsUnchanged
<1>. QED  BY <1>1, <1>2, WorkspaceAssumption DEF SignIn, Issue, TypeInv, TypeOK, Grows, authVars, connVars

LEMMA StartSignUpTypes ==
  ASSUME TypeInv, NEW r \in Requests, NEW e \in Emails, NEW caller \in tenants \cup {NONE},
         StartSignUp(r, e, caller)
  PROVE  TypeInv'
<1>1. Grows
  BY WorkspaceAssumption DEF StartSignUp, Grows, TypeInv, TypeOK, authVars, connVars
<1>2. PICK c \in CallRow' : c = Idle /\ HeldRow(c, tenants', clientIds', rowIds')
  BY <1>1, IdleKeeps
<1>. DEFINE v == [c EXCEPT !.at = "tenant", !.op = "signUp", !.email = e, !.caller = caller]
<1>3. call' = [call EXCEPT ![r] = v]
  BY <1>2 DEF StartSignUp, Becomes
<1>4. v \in CallRow'
  BY <1>1 DEF CallRow, Grows
<1>5. HeldRow(v, tenants', clientIds', rowIds')
  BY <1>2 DEF HeldRow, Storing, CallRow
<1>. HIDE DEF v
<1>6. call' \in [Requests -> CallRow'] /\ Held'
  BY <1>1, <1>3, <1>4, <1>5, CallBecomes
<1>. QED  BY <1>6 DEF StartSignUp, TypeInv, TypeOK, Grows, authVars, connVars

LEMMA CreateTenantTypes == ASSUME TypeInv, NEW r \in Requests, CreateTenant(r) PROVE TypeInv'
<1>. PICK t \in Tenants \ tenants :
       tenants' = tenants \cup {t} /\ Becomes(r, [call[r] EXCEPT !.at = "user", !.tenant = t])
  BY DEF CreateTenant
<1>1. Grows
  BY WorkspaceAssumption DEF CreateTenant, Grows, TypeInv, TypeOK, authVars, connVars
<1>2. PICK c \in CallRow' : c = call[r] /\ HeldRow(c, tenants', clientIds', rowIds')
  BY <1>1, CallKeeps
<1>3. t \in tenants' /\ c.at = "tenant"
  BY <1>1, <1>2 DEF CreateTenant, At
<1>. DEFINE v == [c EXCEPT !.at = "user", !.tenant = t]
<1>4. call' = [call EXCEPT ![r] = v]
  BY <1>2 DEF CreateTenant, Becomes
<1>5. v \in CallRow'
  BY <1>3 DEF CallRow
<1>6. HeldRow(v, tenants', clientIds', rowIds')
  BY <1>2, <1>3 DEF HeldRow, Storing, CallRow
<1>. HIDE DEF v
<1>7. call' \in [Requests -> CallRow'] /\ Held'
  BY <1>1, <1>4, <1>5, <1>6, CallBecomes
<1>. QED  BY <1>3, <1>7 DEF CreateTenant, TypeInv, TypeOK, Grows, authVars, connVars

LEMMA StoredTypes ==
  ASSUME TypeInv, NEW r \in Requests, At(r, "user")
  PROVE  call[r].email \in Emails /\ call[r].tenant \in tenants /\ Stored(call[r]) \in tenants
<1>1. call[r] \in CallRow /\ call[r].email \in Emails /\ call[r].tenant \in tenants
  BY DEF TypeInv, TypeOK, Held, HeldRow, At
<1>. QED  BY <1>1 DEF Stored, CallRow

LEMMA CreateUserTypes == ASSUME TypeInv, NEW r \in Requests, CreateUser(r) PROVE TypeInv'
<1>1. Grows
  BY WorkspaceAssumption DEF CreateUser, StoreUser, Issue, Grows, TypeInv, TypeOK, authVars, connVars
<1>2. PICK c \in CallRow' : c = Idle /\ HeldRow(c, tenants', clientIds', rowIds')
  BY <1>1, IdleKeeps
<1>3. call[r].email \in Emails /\ Stored(call[r]) \in tenants
  BY StoredTypes DEF CreateUser
<1>4. call' = [call EXCEPT ![r] = c]
  BY <1>2 DEF CreateUser, StoreUser, Becomes, Ends
<1>5. call' \in [Requests -> CallRow'] /\ Held'
  BY <1>1, <1>2, <1>4, CallBecomes
<1>. QED  BY <1>3, <1>5 DEF CreateUser, StoreUser, Issue, TypeInv, TypeOK, Grows, authVars, connVars

LEMMA OpenPickerTypes ==
  ASSUME TypeInv, NEW s \in Pickers, NEW token \in tokens, NEW accounts \in SUBSET MetaAccounts,
         OpenPicker(s, token, accounts)
  PROVE  TypeInv'
<1>1. Grows /\ call' = call
  BY WorkspaceAssumption DEF OpenPicker, Grows, TypeInv, TypeOK, authVars, connVars
<1>2. call' \in [Requests -> CallRow'] /\ Held'
  BY <1>1, CallsUnchanged
<1>. QED  BY <1>1, <1>2, WorkspaceAssumption DEF OpenPicker, TypeInv, TypeOK, Grows, authVars, connVars

LEMMA ExpirePickerTypes == ASSUME TypeInv, NEW s \in Pickers, ExpirePicker(s) PROVE TypeInv'
<1>1. Grows /\ call' = call
  BY WorkspaceAssumption DEF ExpirePicker, Grows, TypeInv, TypeOK, authVars, connVars
<1>2. call' \in [Requests -> CallRow'] /\ Held'
  BY <1>1, CallsUnchanged
<1>. QED  BY <1>1, <1>2, WorkspaceAssumption DEF ExpirePicker, TypeInv, TypeOK, Grows, authVars, connVars

LEMMA StartImportTypes ==
  ASSUME TypeInv, NEW r \in Requests, NEW token \in tokens, NEW s \in Pickers,
         NEW chosen \in SUBSET MetaAccounts, StartImport(r, token, s, chosen)
  PROVE  TypeInv'
<1>1. Grows
  BY WorkspaceAssumption DEF StartImport, Grows, TypeInv, TypeOK, authVars, connVars
<1>2. PICK c \in CallRow' : c = Idle /\ HeldRow(c, tenants', clientIds', rowIds')
  BY <1>1, IdleKeeps
<1>3. token.tenant \in tenants' /\ chosen \in SUBSET Externals /\ s \in Pickers
  BY <1>1, <1>2 DEF Grows, TypeInv, TypeOK, Externals
<1>. DEFINE v == [c EXCEPT !.at = "client", !.op = "import", !.tenant = token.tenant, !.todo = chosen, !.picker = s]
<1>4. call' = [call EXCEPT ![r] = v]
  BY <1>2 DEF StartImport, Becomes
<1>5. v \in CallRow'
  BY <1>3 DEF CallRow
<1>6. HeldRow(v, tenants', clientIds', rowIds')
  BY <1>2, <1>3 DEF HeldRow, Storing, CallRow
<1>. HIDE DEF v
<1>7. call' \in [Requests -> CallRow'] /\ Held'
  BY <1>1, <1>4, <1>5, <1>6, CallBecomes
<1>. QED  BY <1>3, <1>7 DEF StartImport, TypeInv, TypeOK, Grows, authVars, connVars

LEMMA StartConnectTypes ==
  ASSUME TypeInv, NEW r \in Requests, NEW token \in tokens, NEW e \in Externals, NEW client \in 0..clientIds,
         StartConnect(r, token, e, client)
  PROVE  TypeInv'
<1>1. Grows
  BY WorkspaceAssumption DEF StartConnect, Grows, TypeInv, TypeOK, authVars, connVars
<1>2. PICK c \in CallRow' : c = Idle /\ HeldRow(c, tenants', clientIds', rowIds')
  BY <1>1, IdleKeeps
<1>3. token.tenant \in tenants' /\ {e} \in SUBSET Externals /\ client \in 0..clientIds'
  BY <1>1, <1>2 DEF StartConnect, Grows, TypeInv, TypeOK, authVars, connVars
<1>. DEFINE v == [c EXCEPT !.at = IF client = 0 THEN "client" ELSE "store", !.op = "connect", !.tenant = token.tenant,
                             !.client = client, !.named = client # 0, !.todo = {e}]
<1>4. call' = [call EXCEPT ![r] = v]
  BY <1>2 DEF StartConnect, Becomes
<1>5. v \in CallRow'
  BY <1>3 DEF CallRow
<1>6. HeldRow(v, tenants', clientIds', rowIds')
  BY <1>2, <1>3 DEF HeldRow, Storing, CallRow
<1>. HIDE DEF v
<1>7. call' \in [Requests -> CallRow'] /\ Held'
  BY <1>1, <1>4, <1>5, <1>6, CallBecomes
<1>. QED  BY <1>3, <1>7 DEF StartConnect, TypeInv, TypeOK, Grows, authVars, connVars

LEMMA FindClientTypes == ASSUME TypeInv, NEW r \in Requests, FindClient(r) PROVE TypeInv'
<1>0. TakeClient(r, Own(clients, call[r].tenant))
  BY DEF FindClient
<1>1. Grows /\ At(r, "client")
  <2>1. At(r, "client") /\ UNCHANGED authVars /\ UNCHANGED connVars
    BY <1>0 DEF TakeClient
  <2>. QED  BY <2>1, WorkspaceAssumption DEF Grows, TypeInv, TypeOK, authVars, connVars
<1>2. PICK c \in CallRow' : c = call[r] /\ HeldRow(c, tenants', clientIds', rowIds')
  BY <1>1, CallKeeps
<1>3. PICK v : /\ v = [c EXCEPT !.at = "newClient"]
                  \/ \E k \in 1..clientIds' : k \in 0..clientIds' /\ v = [c EXCEPT !.at = "store", !.client = k]
               /\ call' = [call EXCEPT ![r] = v]
  <2>1. \/ call' = [call EXCEPT ![r] = [c EXCEPT !.at = "newClient"]]
        \/ \E d \in clients : call' = [call EXCEPT ![r] = [c EXCEPT !.at = "store", !.client = d.id]]
    BY <1>0, <1>2 DEF TakeClient, Goto, Becomes, Own, Oldest
  <2>2. \A d \in clients : d.id \in 1..clientIds' /\ d.id \in 0..clientIds'
    BY <1>1 DEF Grows, TypeInv, TypeOK
  <2>. QED  BY <2>1, <2>2
<1>4. v \in CallRow'
  BY <1>3 DEF CallRow
<1>5. HeldRow(v, tenants', clientIds', rowIds')
  BY <1>1, <1>2, <1>3 DEF HeldRow, Storing, CallRow, At
<1>6. call' \in [Requests -> CallRow'] /\ Held'
  BY <1>1, <1>3, <1>4, <1>5, CallBecomes
<1>. QED  BY <1>0, <1>6 DEF TakeClient, TypeInv, TypeOK, authVars, connVars

LEMMA CreateDefaultClientTypes == ASSUME TypeInv, NEW r \in Requests, CreateDefaultClient(r) PROVE TypeInv'
<1>1. Grows
  BY WorkspaceAssumption DEF CreateDefaultClient, NewClient, Grows, TypeInv, TypeOK, authVars, connVars
<1>2. PICK c \in CallRow' : c = call[r] /\ HeldRow(c, tenants', clientIds', rowIds')
  BY <1>1, CallKeeps
<1>3. clientIds + 1 \in 1..clientIds' /\ clientIds + 1 \in 0..clientIds' /\ c.at = "newClient" /\ c.tenant \in tenants
  BY <1>1, <1>2, WorkspaceAssumption DEF CreateDefaultClient, NewClient, At, TypeInv, TypeOK, Held, HeldRow
<1>. DEFINE v == [c EXCEPT !.at = "store", !.client = clientIds + 1]
<1>4. call' = [call EXCEPT ![r] = v]
  BY <1>2 DEF CreateDefaultClient, Becomes
<1>5. v \in CallRow'
  BY <1>3 DEF CallRow
<1>6. HeldRow(v, tenants', clientIds', rowIds')
  BY <1>2, <1>3 DEF HeldRow, Storing, CallRow
<1>. HIDE DEF v
<1>7. call' \in [Requests -> CallRow'] /\ Held'
  BY <1>1, <1>4, <1>5, <1>6, CallBecomes
<1>. QED  BY <1>2, <1>3, <1>7, WorkspaceAssumption DEF CreateDefaultClient, NewClient, TypeInv, TypeOK, Grows, authVars, connVars

\* What Insert makes of the connections, given what the request holds.
LEMMA InsertTypes ==
  ASSUME TypeInv, NEW r \in Requests, NEW e \in Externals, NEW syncs \in BOOLEAN,
         ~Taken(e), Insert(r, e, syncs), call[r].tenant \in tenants, call[r].client \in 1..clientIds
  PROVE  /\ rowIds \in Nat /\ clientIds \in Nat /\ rowIds' = rowIds + 1
         /\ rowIds + 1 \in 1..rowIds' /\ rowIds' \in 0..MaxRows
         /\ conns' \subseteq [id : 1..rowIds', external : Externals, tenant : tenants,
                              client : 1..clientIds, syncs : BOOLEAN, named : BOOLEAN]
         /\ \A x, y \in conns' : x.id = y.id \/ x.external = y.external => x = y
         /\ queued \subseteq 1..rowIds' /\ cut \subseteq 1..rowIds'
<1>1. rowIds \in Nat /\ clientIds \in Nat /\ rowIds < MaxRows /\ rowIds' = rowIds + 1 /\ MaxRows \in Nat
  BY WorkspaceAssumption DEF Insert, TypeInv, TypeOK
<1>. DEFINE new == [id |-> rowIds + 1, external |-> e, tenant |-> call[r].tenant,
                    client |-> call[r].client, syncs |-> syncs, named |-> call[r].named]
<1>2. conns' = conns \cup {new} /\ new.id = rowIds + 1 /\ new.external = e
  BY DEF Insert
<1>0. call[r].named \in BOOLEAN
  BY DEF TypeInv, TypeOK, CallRow
<1>3. new \in [id : 1..rowIds', external : Externals, tenant : tenants, client : 1..clientIds, syncs : BOOLEAN, named : BOOLEAN]
  BY <1>0, <1>1
<1>. HIDE DEF new
<1>4. \A x \in conns : /\ x \in [id : 1..rowIds', external : Externals, tenant : tenants,
                                  client : 1..clientIds, syncs : BOOLEAN, named : BOOLEAN]
                       /\ x.id # rowIds + 1 /\ x.external # e
  BY <1>1 DEF TypeInv, TypeOK, Taken
<1>5. \A x, y \in conns' : x.id = y.id \/ x.external = y.external => x = y
  BY <1>2, <1>4 DEF TypeInv, TypeOK
<1>6. queued \subseteq 1..rowIds' /\ cut \subseteq 1..rowIds'
  BY <1>1 DEF TypeInv, TypeOK
<1>. QED  BY <1>1, <1>2, <1>3, <1>4, <1>5, <1>6

LEMMA ImportOneTypes == ASSUME TypeInv, NEW r \in Requests, ImportOne(r) PROVE TypeInv'
<1>1. call[r] \in CallRow /\ HeldRow(call[r], tenants, clientIds, rowIds) /\ call[r].at = "store"
  BY DEF ImportOne, TypeInv, TypeOK, Held, At
<1>2. call[r].client \in 1..clientIds /\ call[r].tenant \in tenants /\ call[r].todo \subseteq Externals
  BY <1>1 DEF HeldRow, CallRow, Storing
<1>3. UNCHANGED <<tenants, users, guests, tokens, clients, clientIds, pickers, queued, cut>>
  BY DEF ImportOne, authVars
<1>4. clientIds \in Nat /\ rowIds \in Nat
  BY WorkspaceAssumption DEF TypeInv, TypeOK
<1>5. PICK e \in call[r].todo :
       \/ /\ ~Taken(e) /\ Insert(r, e, TRUE)
          /\ Becomes(r, [call[r] EXCEPT !.at = "enqueue", !.todo = @ \ {e}, !.row = rowIds + 1])
       \/ \E x \in conns :
            /\ Becomes(r, [call[r] EXCEPT !.at = "enqueue", !.todo = @ \ {e}, !.row = x.id])
            /\ UNCHANGED <<conns, rowIds>>
  BY DEF ImportOne
<1>6. ASSUME NEW row \in 1..rowIds', row \in 0..rowIds', Grows,
             call' = [call EXCEPT ![r] = [call[r] EXCEPT !.at = "enqueue", !.todo = @ \ {e}, !.row = row]]
      PROVE  call' \in [Requests -> CallRow'] /\ Held'
  <2>1. PICK c \in CallRow' : c = call[r] /\ HeldRow(c, tenants', clientIds', rowIds')
    BY <1>6, CallKeeps
  <2>. DEFINE v == [c EXCEPT !.at = "enqueue", !.todo = @ \ {e}, !.row = row]
  <2>2. c.todo \ {e} \in SUBSET Externals /\ c.at = "store"
    BY <1>1, <1>2, <2>1
  <2>3. v \in CallRow'
    BY <1>6, <2>2 DEF CallRow
  <2>4. HeldRow(v, tenants', clientIds', rowIds')
    BY <2>1, <2>2 DEF HeldRow, Storing, CallRow
  <2>5. call' = [call EXCEPT ![r] = v]
    BY <1>6, <2>1
  <2>. HIDE DEF v
  <2>. QED  BY <1>6, <2>3, <2>4, <2>5, CallBecomes
<1>7. CASE ~Taken(e) /\ Insert(r, e, TRUE)
           /\ Becomes(r, [call[r] EXCEPT !.at = "enqueue", !.todo = @ \ {e}, !.row = rowIds + 1])
  <2>1. /\ rowIds' = rowIds + 1 /\ rowIds + 1 \in 1..rowIds' /\ rowIds' \in 0..MaxRows
        /\ conns' \subseteq [id : 1..rowIds', external : Externals, tenant : tenants,
                             client : 1..clientIds, syncs : BOOLEAN, named : BOOLEAN]
        /\ \A x, y \in conns' : x.id = y.id \/ x.external = y.external => x = y
        /\ queued \subseteq 1..rowIds' /\ cut \subseteq 1..rowIds'
    <3>1. e \in Externals
      BY <1>2, <1>5
    <3>. QED  BY <1>2, <1>7, <3>1, InsertTypes
  <2>2. Grows /\ rowIds + 1 \in 0..rowIds'
    BY <1>3, <1>4, <2>1 DEF Grows
  <2>3. call' \in [Requests -> CallRow'] /\ Held'
    BY <1>6, <1>7, <2>1, <2>2 DEF Becomes
  <2>. QED  BY <1>3, <2>1, <2>3 DEF TypeInv, TypeOK
<1>8. ASSUME NEW x \in conns,
             Becomes(r, [call[r] EXCEPT !.at = "enqueue", !.todo = @ \ {e}, !.row = x.id]),
             UNCHANGED <<conns, rowIds>>
      PROVE  TypeInv'
  <2>1. x.id \in 1..rowIds' /\ x.id \in 0..rowIds' /\ Grows
    BY <1>3, <1>4, <1>8 DEF Grows, TypeInv, TypeOK
  <2>2. call' \in [Requests -> CallRow'] /\ Held'
    BY <1>6, <1>8, <2>1 DEF Becomes
  <2>. QED  BY <1>3, <1>8, <2>2 DEF TypeInv, TypeOK
<1>. QED  BY <1>5, <1>7, <1>8

LEMMA ConnectOneTypes == ASSUME TypeInv, NEW r \in Requests, ConnectOne(r) PROVE TypeInv'
<1>1. call[r] \in CallRow /\ HeldRow(call[r], tenants, clientIds, rowIds) /\ call[r].at = "store"
  BY DEF ConnectOne, TypeInv, TypeOK, Held, At
<1>2. call[r].client \in 1..clientIds /\ call[r].tenant \in tenants /\ call[r].todo \subseteq Externals
  BY <1>1 DEF HeldRow, CallRow, Storing
<1>3. UNCHANGED <<tenants, users, guests, tokens, clients, clientIds, pickers, queued, cut>>
  BY DEF ConnectOne, authVars
<1>4. PICK e \in call[r].todo :
       /\ ~Taken(e) /\ Insert(r, e, e \in Portals)
       /\ IF e \in Portals
          THEN Becomes(r, [call[r] EXCEPT !.at = "enqueue", !.todo = {}, !.row = rowIds + 1])
          ELSE Ends(r)
  BY DEF ConnectOne
<1>5. /\ clientIds \in Nat /\ rowIds \in Nat
      /\ rowIds' = rowIds + 1 /\ rowIds + 1 \in 1..rowIds' /\ rowIds' \in 0..MaxRows
      /\ conns' \subseteq [id : 1..rowIds', external : Externals, tenant : tenants,
                           client : 1..clientIds, syncs : BOOLEAN, named : BOOLEAN]
      /\ \A x, y \in conns' : x.id = y.id \/ x.external = y.external => x = y
      /\ queued \subseteq 1..rowIds' /\ cut \subseteq 1..rowIds'
  <2>1. e \in Externals /\ (e \in Portals) \in BOOLEAN
    BY <1>2, <1>4
  <2>2. ~Taken(e) /\ Insert(r, e, e \in Portals)
    BY <1>4
  <2>. QED  BY <1>2, <2>1, <2>2, InsertTypes
<1>6. Grows /\ rowIds + 1 \in 0..rowIds'
  BY <1>3, <1>5 DEF Grows
<1>7. call' \in [Requests -> CallRow'] /\ Held'
  <2>1. CASE e \notin Portals
    BY <1>4, <1>6, <2>1, IdleKeeps, CallBecomes DEF Ends, Becomes
  <2>2. CASE e \in Portals
    <3>1. PICK c \in CallRow' : c = call[r] /\ HeldRow(c, tenants', clientIds', rowIds')
      BY <1>6, CallKeeps
    <3>. DEFINE v == [c EXCEPT !.at = "enqueue", !.todo = {}, !.row = rowIds + 1]
    <3>2. v \in CallRow'
      BY <1>6 DEF CallRow
    <3>3. HeldRow(v, tenants', clientIds', rowIds')
      BY <1>1, <1>5, <3>1 DEF HeldRow, Storing, CallRow
    <3>4. call' = [call EXCEPT ![r] = v]
      BY <1>4, <2>2, <3>1 DEF Becomes
    <3>. HIDE DEF v
    <3>. QED  BY <1>6, <3>2, <3>3, <3>4, CallBecomes
  <2>. QED  BY <2>1, <2>2
<1>. QED  BY <1>3, <1>5, <1>7 DEF TypeInv, TypeOK

LEMMA EnqueueTypes == ASSUME TypeInv, NEW r \in Requests, Enqueue(r) PROVE TypeInv'
<1>1. call[r] \in CallRow /\ HeldRow(call[r], tenants, clientIds, rowIds) /\ At(r, "enqueue")
  BY DEF Enqueue, TypeInv, TypeOK, Held
<1>2. call[r].row \in 1..rowIds /\ (call[r].op = "import" => call[r].picker \in Pickers)
  BY <1>1 DEF HeldRow, At
<1>3. CASE call[r].todo # {}
  <2>1. Grows
    BY <1>2, <1>3, WorkspaceAssumption DEF Enqueue, Grows, TypeInv, TypeOK, authVars, connVars
  <2>2. PICK c \in CallRow' : c = call[r] /\ HeldRow(c, tenants', clientIds', rowIds')
    BY <2>1, CallKeeps
  <2>3. c.at = "enqueue" /\ c.todo # {}
    BY <1>2, <1>3, <2>1, <2>2, <1>1 DEF At
  <2>. DEFINE v == [c EXCEPT !.at = "store"]
  <2>4. call' = [call EXCEPT ![r] = v]
    BY <1>2, <1>3, <2>2 DEF Enqueue, Becomes, Goto
  <2>5. v \in CallRow'
    BY <2>3 DEF CallRow
  <2>6. HeldRow(v, tenants', clientIds', rowIds')
    BY <2>2, <2>3 DEF HeldRow, Storing, CallRow
  <2>. HIDE DEF v
  <2>7. call' \in [Requests -> CallRow'] /\ Held'
    BY <2>1, <2>4, <2>5, <2>6, CallBecomes
  <2>. QED  BY <1>2, <1>3, <2>7 DEF Enqueue, TypeInv, TypeOK, Grows, authVars, connVars
<1>4. CASE call[r].todo = {}
  <2>1. Grows
    BY <1>2, <1>4, WorkspaceAssumption DEF Enqueue, Grows, TypeInv, TypeOK, authVars, connVars
  <2>2. PICK c \in CallRow' : c = Idle /\ HeldRow(c, tenants', clientIds', rowIds')
    BY <2>1, IdleKeeps
  <2>3. pickers' \in [Pickers -> [tenant : tenants, accounts : SUBSET MetaAccounts] \cup {NONE}]
    BY <1>2, <1>4, <2>1, <2>2 DEF Enqueue, TypeInv, TypeOK
  <2>4. call' = [call EXCEPT ![r] = c]
    BY <1>4, <2>2 DEF Enqueue, Becomes, Ends
  <2>5. call' \in [Requests -> CallRow'] /\ Held'
    BY <2>1, <2>2, <2>4, CallBecomes
  <2>. QED  BY <1>2, <1>4, <2>3, <2>5 DEF Enqueue, TypeInv, TypeOK, Grows, authVars, connVars
<1>. QED  BY <1>3, <1>4

LEMMA AddClientTypes == ASSUME TypeInv, NEW token \in tokens, AddClient(token) PROVE TypeInv'
<1>1. Grows /\ call' = call
  BY WorkspaceAssumption DEF AddClient, NewClient, Grows, TypeInv, TypeOK, authVars, connVars
<1>2. call' \in [Requests -> CallRow'] /\ Held'
  BY <1>1, CallsUnchanged
<1>. QED  BY <1>1, <1>2, WorkspaceAssumption DEF AddClient, NewClient, TypeInv, TypeOK, Grows, authVars, connVars

LEMMA RemoveClientTypes ==
  ASSUME TypeInv, NEW token \in tokens, NEW c \in clients, RemoveClient(token, c)
  PROVE  TypeInv'
<1>1. Grows /\ call' = call
  BY WorkspaceAssumption DEF RemoveClient, Grows, TypeInv, TypeOK, authVars, connVars
<1>2. call' \in [Requests -> CallRow'] /\ Held'
  BY <1>1, CallsUnchanged
<1>. QED  BY <1>1, <1>2, WorkspaceAssumption DEF RemoveClient, TypeInv, TypeOK, Grows, authVars, connVars

LEMMA RemoveConnTypes ==
  ASSUME TypeInv, NEW token \in tokens, NEW x \in conns, RemoveConn(token, x)
  PROVE  TypeInv'
<1>1. Grows /\ call' = call
  BY WorkspaceAssumption DEF RemoveConn, Grows, TypeInv, TypeOK, authVars, connVars
<1>2. call' \in [Requests -> CallRow'] /\ Held'
  BY <1>1, CallsUnchanged
<1>. QED  BY <1>1, <1>2, WorkspaceAssumption DEF RemoveConn, TypeInv, TypeOK, Grows, authVars, connVars

LEMMA OwingTypes == ASSUME TypeInv, NEW R \in SUBSET Requests PROVE Owing(R) \subseteq 1..rowIds
BY DEF Owing, TypeInv, Held, HeldRow, At

LEMMA FailsTypes == ASSUME TypeInv, NEW r \in Requests, Fails(r) PROVE TypeInv'
<1>1. Grows
  BY WorkspaceAssumption DEF Fails, Grows, TypeInv, TypeOK, authVars, connVars
<1>2. PICK c \in CallRow' : c = Idle /\ HeldRow(c, tenants', clientIds', rowIds')
  BY <1>1, IdleKeeps
<1>3. Owing({r}) \subseteq 1..rowIds
  BY OwingTypes
<1>4. call' = [call EXCEPT ![r] = c]
  BY <1>2 DEF Fails, Becomes, Ends
<1>5. call' \in [Requests -> CallRow'] /\ Held'
  BY <1>1, <1>2, <1>4, CallBecomes
<1>. QED  BY <1>3, <1>5 DEF Fails, TypeInv, TypeOK, Grows, authVars, connVars

LEMMA CrashTypes == ASSUME TypeInv, Crash PROVE TypeInv'
<1>1. Grows
  BY WorkspaceAssumption DEF Crash, Grows, TypeInv, TypeOK, authVars
<1>2. call' \in [Requests -> CallRow'] /\ Held'
  BY <1>1, IdleKeeps DEF Crash, Held
<1>3. Owing(Requests) \subseteq 1..rowIds
  BY OwingTypes
<1>. QED  BY <1>2, <1>3 DEF Crash, TypeInv, TypeOK, authVars

LEMMA TypeStep ==
  ASSUME TypeInv, [Next]_vars
  PROVE  TypeInv'
<1>1. CASE UNCHANGED vars
  BY <1>1 DEF TypeInv, TypeOK, CallRow, Held, vars, authVars, connVars
<1>2. CASE Next
  <2>1. {NONE} \cup {token.tenant : token \in tokens} \subseteq tenants \cup {NONE}
    BY DEF TypeInv, TypeOK
  <2>2. \A r \in Requests, e \in Emails : \A caller \in {NONE} \cup {token.tenant : token \in tokens} :
          StartSignUp(r, e, caller) => TypeInv'
    BY <2>1, StartSignUpTypes
  <2>. QED
    BY <1>2, <2>2, SignInTypes, CreateTenantTypes, CreateUserTypes, OpenPickerTypes, ExpirePickerTypes,
       StartImportTypes, StartConnectTypes, FindClientTypes, CreateDefaultClientTypes, ImportOneTypes, ConnectOneTypes,
       EnqueueTypes, AddClientTypes, RemoveClientTypes, RemoveConnTypes, FailsTypes, CrashTypes DEF Next
<1>. QED  BY <1>1, <1>2

\* Types, with the unique keys of the schema, hold whatever overlaps, fails or dies.
THEOREM WorkspaceTypeOK == Spec => []TypeOK
<1>1. Init => TypeInv
  BY TypeInit
<1>2. TypeInv /\ [Next]_vars => TypeInv'
  BY TypeStep
<1>3. TypeInv => TypeOK
  BY DEF TypeInv
<1>. QED  BY <1>1, <1>2, <1>3, PTL DEF Spec

-----------------------------------------------------------------------------
(* What each action makes of the call it belongs to.                       *)

LEMMA Becoming ==
  ASSUME TypeInv, NEW r \in Requests, NEW v, call' = [call EXCEPT ![r] = v]
  PROVE  call'[r] = v /\ \A s \in Requests : s # r => call'[s] = call[s]
BY DEF TypeInv, TypeOK

Others(r) == \A s \in Requests : s # r => call'[s] = call[s]

LEMMA StartSignUpCall ==
  ASSUME TypeInv, NEW r \in Requests, NEW e \in Emails, NEW caller, StartSignUp(r, e, caller)
  PROVE  Others(r) /\ call'[r].at = "tenant" /\ call'[r].caller = caller
<1>1. call'[r] = [Idle EXCEPT !.at = "tenant", !.op = "signUp", !.email = e, !.caller = caller] /\ Others(r)
  BY Becoming DEF StartSignUp, Becomes, Others
<1>. QED  BY <1>1 DEF Idle

LEMMA CreateTenantCall ==
  ASSUME TypeInv, NEW r \in Requests, CreateTenant(r)
  PROVE  /\ Others(r) /\ call[r].at = "tenant" /\ call'[r].at = "user" /\ call'[r].caller = call[r].caller
         /\ call'[r].tenant \in Tenants \ tenants /\ tenants' = tenants \cup {call'[r].tenant}
<1>1. PICK c \in CallRow : c = call[r]
  BY DEF TypeInv, TypeOK
<1>2. PICK t \in Tenants \ tenants :
        tenants' = tenants \cup {t} /\ call' = [call EXCEPT ![r] = [c EXCEPT !.at = "user", !.tenant = t]]
  BY <1>1 DEF CreateTenant, Becomes
<1>. DEFINE v == [c EXCEPT !.at = "user", !.tenant = t]
<1>3. v.at = "user" /\ v.tenant = t /\ v.caller = c.caller
  BY DEF CallRow
<1>4. call' = [call EXCEPT ![r] = v]
  BY <1>2
<1>. HIDE DEF v
<1>5. call'[r] = v /\ Others(r)
  BY <1>4, Becoming DEF Others
<1>6. call[r].at = "tenant"
  BY DEF CreateTenant, At
<1>. QED  BY <1>1, <1>2, <1>3, <1>5, <1>6

LEMMA StartImportCall ==
  ASSUME TypeInv, NEW r \in Requests, NEW token \in tokens, NEW s \in Pickers,
         NEW chosen \in SUBSET MetaAccounts, StartImport(r, token, s, chosen)
  PROVE  Others(r) /\ call[r].at = "idle" /\ call'[r].at = "client" /\ call'[r].tenant = token.tenant
<1>1. /\ call'[r] = [Idle EXCEPT !.at = "client", !.op = "import", !.tenant = token.tenant,
                                 !.todo = chosen, !.picker = s]
      /\ Others(r) /\ call[r].at = "idle"
  BY Becoming DEF StartImport, Becomes, Others, At
<1>. QED  BY <1>1 DEF Idle

LEMMA StartConnectCall ==
  ASSUME TypeInv, NEW r \in Requests, NEW token \in tokens, NEW e \in Externals, NEW client \in 0..clientIds,
         StartConnect(r, token, e, client)
  PROVE  /\ Others(r) /\ call[r].at = "idle" /\ call'[r].tenant = token.tenant
         /\ call'[r].at = "client" \/ (call'[r].at = "store" /\ call'[r].named)
<1>1. /\ call'[r] = [Idle EXCEPT !.at = IF client = 0 THEN "client" ELSE "store", !.op = "connect",
                                 !.tenant = token.tenant, !.client = client, !.named = client # 0, !.todo = {e}]
      /\ Others(r) /\ call[r].at = "idle"
  BY Becoming DEF StartConnect, Becomes, Others, At
<1>2. /\ call'[r].at = IF client = 0 THEN "client" ELSE "store"
      /\ call'[r].tenant = token.tenant /\ call'[r].named = (client # 0)
  BY <1>1 DEF Idle
<1>. QED  BY <1>1, <1>2

LEMMA FindClientCall ==
  ASSUME TypeInv, NEW r \in Requests, FindClient(r)
  PROVE  /\ Others(r) /\ call[r].at = "client" /\ call'[r].tenant = call[r].tenant
         /\ \/ call'[r].at = "newClient"
            \/ /\ call'[r].at = "store"
               /\ \E c \in clients : c.tenant = call[r].tenant /\ c.id = call'[r].client
<1>1. TakeClient(r, Own(clients, call[r].tenant))
  BY DEF FindClient
<1>2. PICK c \in CallRow : c = call[r]
  BY DEF TypeInv, TypeOK
<1>3. /\ call[r].at = "client"
      /\ \/ call' = [call EXCEPT ![r] = [c EXCEPT !.at = "newClient"]]
         \/ \E d \in clients : /\ d.tenant = c.tenant
                               /\ call' = [call EXCEPT ![r] = [c EXCEPT !.at = "store", !.client = d.id]]
  BY <1>1, <1>2 DEF TakeClient, Goto, Becomes, Own, Oldest, At
<1>4. PICK v : /\ call' = [call EXCEPT ![r] = v]
               /\ \/ v = [c EXCEPT !.at = "newClient"]
                  \/ \E d \in clients : d.tenant = c.tenant /\ v = [c EXCEPT !.at = "store", !.client = d.id]
  BY <1>3
<1>5. call'[r] = v /\ Others(r)
  BY <1>4, Becoming DEF Others
<1>6. /\ v.tenant = c.tenant
      /\ \/ v.at = "newClient"
         \/ v.at = "store" /\ \E d \in clients : d.tenant = c.tenant /\ d.id = v.client
  BY <1>4 DEF CallRow
<1>. QED  BY <1>2, <1>3, <1>5, <1>6

LEMMA CreateDefaultClientCall ==
  ASSUME TypeInv, NEW r \in Requests, CreateDefaultClient(r)
  PROVE  /\ Others(r) /\ call[r].at = "newClient" /\ call'[r].at = "store"
         /\ call'[r].tenant = call[r].tenant /\ call'[r].client = clientIds + 1
<1>1. PICK c \in CallRow : c = call[r]
  BY DEF TypeInv, TypeOK
<1>2. call'[r] = [c EXCEPT !.at = "store", !.client = clientIds + 1] /\ Others(r) /\ call[r].at = "newClient"
  BY <1>1, Becoming DEF CreateDefaultClient, Becomes, Others, At
<1>. QED  BY <1>1, <1>2 DEF CallRow

\* A request that stored one of the accounts it imports.
LEMMA ImportOneCall ==
  ASSUME TypeInv, NEW r \in Requests, ImportOne(r)
  PROVE  /\ Others(r) /\ call[r].at = "store" /\ call'[r].at = "enqueue"
         /\ call'[r].tenant = call[r].tenant /\ call'[r].client = call[r].client
         /\ call'[r].named = call[r].named
         /\ \/ conns' = conns
            \/ \E e \in Externals : ~Taken(e) /\ Insert(r, e, TRUE) /\ call'[r].row = rowIds + 1
<1>1. PICK c \in CallRow : c = call[r]
  BY DEF TypeInv, TypeOK
<1>2. call[r].at = "store"
  BY DEF ImportOne, At
<1>. DEFINE After(e, row) == [c EXCEPT !.at = "enqueue", !.todo = c.todo \ {e}, !.row = row]
<1>3. PICK e \in c.todo :
        \/ ~Taken(e) /\ Insert(r, e, TRUE) /\ call' = [call EXCEPT ![r] = After(e, rowIds + 1)]
        \/ \E x \in conns : conns' = conns /\ call' = [call EXCEPT ![r] = After(e, x.id)]
  BY <1>1 DEF ImportOne, Becomes
<1>4. \A row : /\ After(e, row).at = "enqueue" /\ After(e, row).tenant = c.tenant
               /\ After(e, row).client = c.client /\ After(e, row).named = c.named /\ After(e, row).row = row
  BY DEF CallRow
<1>. HIDE DEF After
<1>5. \A row : call' = [call EXCEPT ![r] = After(e, row)] => call'[r] = After(e, row) /\ Others(r)
  BY Becoming DEF Others
<1>6. e \in Externals
  BY <1>3 DEF CallRow
<1>7. CASE ~Taken(e) /\ Insert(r, e, TRUE) /\ call' = [call EXCEPT ![r] = After(e, rowIds + 1)]
  BY <1>1, <1>2, <1>4, <1>5, <1>6, <1>7
<1>8. ASSUME NEW x \in conns, conns' = conns, call' = [call EXCEPT ![r] = After(e, x.id)]
      PROVE  /\ Others(r) /\ conns' = conns /\ call'[r].at = "enqueue"
             /\ call'[r].tenant = c.tenant /\ call'[r].client = c.client /\ call'[r].named = c.named
  BY <1>4, <1>5, <1>8
<1>. QED  BY <1>1, <1>2, <1>3, <1>7, <1>8

LEMMA ConnectOneCall ==
  ASSUME TypeInv, NEW r \in Requests, ConnectOne(r)
  PROVE  /\ Others(r) /\ call[r].at = "store"
         /\ \E e \in Externals :
              /\ ~Taken(e) /\ Insert(r, e, e \in Portals)
              /\ \/ e \notin Portals /\ call'[r].at = "idle"
                 \/ /\ call'[r].at = "enqueue" /\ call'[r].tenant = call[r].tenant
                    /\ call'[r].todo = {} /\ call'[r].row = rowIds + 1
<1>1. PICK c \in CallRow : c = call[r]
  BY DEF TypeInv, TypeOK
<1>2. call[r].at = "store"
  BY DEF ConnectOne, At
<1>3. PICK e \in c.todo :
       /\ ~Taken(e) /\ Insert(r, e, e \in Portals)
       /\ IF e \in Portals
          THEN Becomes(r, [c EXCEPT !.at = "enqueue", !.todo = {}, !.row = rowIds + 1])
          ELSE Ends(r)
  BY <1>1 DEF ConnectOne
<1>4. e \in Externals
  BY <1>3 DEF CallRow
<1>5. CASE e \in Portals
  <2>1. call'[r] = [c EXCEPT !.at = "enqueue", !.todo = {}, !.row = rowIds + 1] /\ Others(r)
    BY <1>3, <1>5, Becoming DEF Becomes, Others
  <2>2. call'[r].at = "enqueue" /\ call'[r].tenant = c.tenant /\ call'[r].todo = {} /\ call'[r].row = rowIds + 1
    BY <2>1 DEF CallRow
  <2>. QED  BY <1>1, <1>2, <1>3, <1>4, <2>1, <2>2
<1>6. CASE e \notin Portals
  <2>1. call'[r] = Idle /\ Others(r)
    BY <1>3, <1>6, Becoming DEF Ends, Becomes, Others
  <2>2. call'[r].at = "idle"
    BY <2>1 DEF Idle
  <2>. QED  BY <1>2, <1>3, <1>4, <1>6, <2>1, <2>2
<1>. QED  BY <1>5, <1>6

LEMMA EnqueueCall ==
  ASSUME TypeInv, NEW r \in Requests, Enqueue(r)
  PROVE  /\ Others(r) /\ call[r].at = "enqueue"
         /\ \/ call'[r].at = "idle"
            \/ /\ call[r].todo # {} /\ call'[r].at = "store"
               /\ call'[r].tenant = call[r].tenant /\ call'[r].client = call[r].client
               /\ call'[r].named = call[r].named
<1>1. PICK c \in CallRow : c = call[r]
  BY DEF TypeInv, TypeOK
<1>2. call[r].at = "enqueue"
  BY DEF Enqueue, At
<1>3. CASE call[r].todo # {}
  <2>1. call'[r] = [c EXCEPT !.at = "store"] /\ Others(r)
    BY <1>1, <1>3, Becoming DEF Enqueue, Goto, Becomes, Others
  <2>. QED  BY <1>1, <1>2, <1>3, <2>1 DEF CallRow
<1>4. CASE call[r].todo = {}
  <2>1. call'[r] = Idle /\ Others(r)
    BY <1>4, Becoming DEF Enqueue, Ends, Becomes, Others
  <2>. QED  BY <1>2, <2>1 DEF Idle
<1>. QED  BY <1>3, <1>4

LEMMA EndCall ==
  ASSUME TypeInv, NEW r \in Requests, CreateUser(r) \/ Fails(r)
  PROVE  Others(r) /\ call'[r].at = "idle"
<1>1. call'[r] = Idle /\ Others(r)
  BY Becoming DEF CreateUser, StoreUser, Fails, Ends, Becomes, Others
<1>. QED  BY <1>1 DEF Idle

LEMMA CrashCall == ASSUME Crash PROVE \A r \in Requests : call'[r].at = "idle"
BY DEF Crash, Idle

-----------------------------------------------------------------------------
(* Sign-ins agree.                                                         *)

\* Most actions touch neither users nor tokens and bring no request to a sign-up.
LEMMA SignInQuiet ==
  ASSUME Fresh, Callers, SignInsAgree, UNCHANGED <<users, guests, tokens>>,
         \A s \in Requests : call'[s].at \in {"tenant", "user"} => call'[s] = call[s]
  PROVE  Fresh' /\ Callers' /\ SignInsAgree'
<1>1. Fresh' /\ SignInsAgree'
  BY DEF Fresh, FreshOf, At, SignInsAgree
<1>2. Callers'
  BY DEF Callers, CallerOf
<1>. QED  BY <1>1, <1>2

LEMMA SignInAgrees ==
  ASSUME SignInInv, NEW e \in Emails, SignIn(e)
  PROVE  Fresh' /\ Callers' /\ SignInsAgree'
<1>1. tokens' = tokens \cup {[email |-> e, tenant |-> users[e]]} /\ UNCHANGED <<users, guests, call>>
  BY DEF SignIn, Issue
<1>2. Fresh' /\ Callers'
  BY <1>1 DEF SignInInv, Fresh, FreshOf, At, Callers, CallerOf
<1>3. SignInsAgree'
  BY <1>1 DEF SignInInv, SignInsAgree
<1>. QED  BY <1>2, <1>3

\* The token that comes with a sign-up is of a user.
LEMMA StartSignUpAgrees ==
  ASSUME SignInInv, NEW r \in Requests, NEW e \in Emails,
         NEW caller \in {NONE} \cup {token.tenant : token \in tokens}, StartSignUp(r, e, caller)
  PROVE  Fresh' /\ Callers' /\ SignInsAgree'
<1>1. TypeInv /\ Fresh /\ Callers /\ SignInsAgree /\ UNCHANGED <<users, guests, tokens>>
  BY DEF SignInInv, StartSignUp, authVars
<1>2. Others(r) /\ call'[r].at = "tenant" /\ call'[r].caller = caller
  BY <1>1, StartSignUpCall
<1>3. caller # NONE => \E f \in Emails : users[f] = caller
  BY <1>1 DEF SignInsAgree, TypeInv, TypeOK
<1>4. Fresh' /\ SignInsAgree'
  BY <1>1, <1>2 DEF Others, Fresh, FreshOf, At, SignInsAgree
<1>5. Callers'
  BY <1>1, <1>2, <1>3 DEF Others, Callers, CallerOf
<1>. QED  BY <1>4, <1>5

LEMMA CreateTenantAgrees ==
  ASSUME SignInInv, NEW r \in Requests, CreateTenant(r)
  PROVE  Fresh' /\ Callers' /\ SignInsAgree'
<1>1. TypeInv /\ Fresh /\ Callers /\ SignInsAgree /\ UNCHANGED <<users, guests, tokens>>
  BY DEF SignInInv, CreateTenant
<1>2. /\ Others(r) /\ call[r].at = "tenant" /\ call'[r].at = "user" /\ call'[r].caller = call[r].caller
      /\ call'[r].tenant \in Tenants \ tenants
  BY <1>1, CreateTenantCall
<1>3. /\ \A e \in Emails : users[e] \in tenants \cup {NONE}
      /\ \A s \in Requests : call[s].at = "user" => call[s].tenant \in tenants
  BY <1>1 DEF TypeInv, TypeOK, Held, HeldRow
<1>4. \A e \in Emails : users[e] # call'[r].tenant
  BY <1>2, <1>3, WorkspaceAssumption
<1>5. ASSUME NEW s \in Requests, call'[s].at = "user"
      PROVE  /\ \A e \in Emails : users[e] # call'[s].tenant
             /\ \A q \in Requests : q # s /\ call'[q].at = "user" => call'[q].tenant # call'[s].tenant
  BY <1>1, <1>2, <1>3, <1>4, <1>5 DEF Others, Fresh, FreshOf, At
<1>6. Callers'
  BY <1>1, <1>2 DEF Others, Callers, CallerOf
<1>. QED  BY <1>1, <1>5, <1>6 DEF Fresh, FreshOf, At, SignInsAgree

\* The tenant that the new user gets is nobody else's, or the caller's, which has
\* users; no token was out for the address.
LEMMA CreateUserAgrees ==
  ASSUME SignInInv, NEW r \in Requests, CreateUser(r)
  PROVE  Fresh' /\ Callers' /\ SignInsAgree'
<1>. DEFINE m == call[r].email
            t == Stored(call[r])
            guest == call[r].caller # NONE
<1>1. TypeInv /\ Fresh /\ Callers /\ SignInsAgree /\ At(r, "user") /\ call[r].at = "user"
  BY DEF SignInInv, CreateUser, At
<1>2. m \in Emails /\ t \in tenants /\ users[m] = NONE
  BY <1>1, StoredTypes DEF CreateUser
<1>3. \A e \in Emails : users'[e] = IF e = m THEN t ELSE users[e]
  BY <1>1, <1>2 DEF CreateUser, StoreUser, TypeInv, TypeOK
<1>4. \A token \in tokens' : token \in tokens \/ (token.email = m /\ token.tenant = t)
  BY DEF CreateUser, StoreUser, Issue
<1>5. \A token \in tokens : token.email \in Emails /\ token.tenant \in tenants
  BY <1>1 DEF TypeInv, TypeOK
<1>6. NONE \notin tenants
  BY <1>1, WorkspaceAssumption DEF TypeInv, TypeOK
<1>7. \A s \in Requests : s # r /\ call[s].at = "user" => call[s].tenant # t
  <2>. SUFFICES ASSUME NEW s \in Requests, s # r, call[s].at = "user" PROVE call[s].tenant # t
    OBVIOUS
  <2>1. CASE guest
    <3>1. t = call[r].caller /\ \E e \in Emails : users[e] = t
      BY <1>1, <2>1 DEF Stored, Callers, CallerOf
    <3>. QED  BY <1>1, <3>1 DEF Fresh, FreshOf, At
  <2>2. CASE ~guest
    BY <1>1, <2>2 DEF Fresh, FreshOf, At, Stored
  <2>. QED  BY <2>1, <2>2
<1>8. Others(r) /\ call'[r].at = "idle"
  BY <1>1, EndCall
<1>9. Fresh'
  <2>. SUFFICES ASSUME NEW s \in Requests, call'[s].at = "user"
                PROVE  /\ \A e \in Emails : users'[e] # call'[s].tenant
                       /\ \A q \in Requests : q # s /\ call'[q].at = "user" => call'[q].tenant # call'[s].tenant
    BY DEF Fresh, FreshOf, At
  <2>1. s # r /\ call'[s] = call[s]
    BY <1>8 DEF Others
  <2>2. \A e \in Emails : users[e] # call[s].tenant
    BY <1>1, <2>1 DEF Fresh, FreshOf, At
  <2>3. \A q \in Requests : q # s /\ call'[q].at = "user" => call[q].at = "user" /\ call'[q] = call[q]
    BY <1>8 DEF Others
  <2>4. \A q \in Requests : q # s /\ call'[q].at = "user" => call'[q].tenant # call'[s].tenant
    BY <1>1, <2>1, <2>3 DEF Fresh, FreshOf, At
  <2>. QED  BY <1>3, <1>7, <2>1, <2>2, <2>4
<1>10. guests' = (IF guest THEN guests \cup {m} ELSE guests) /\ m \notin guests
  BY <1>1, <1>2 DEF CreateUser, StoreUser, Callers
<1>11. Callers'
  <2>1. \A e \in guests' : users'[e] # NONE
    <3>1. \A e \in guests : e \in Emails /\ users[e] # NONE
      BY <1>1 DEF TypeInv, TypeOK, Callers
    <3>. HIDE DEF m, t, guest
    <3>. QED  BY <1>2, <1>3, <1>6, <1>10, <3>1
  <2>2. ASSUME NEW s \in Requests, call'[s].at \in {"tenant", "user"}, call'[s].caller # NONE
        PROVE  \E e \in Emails : users'[e] = call'[s].caller
    <3>1. call'[s] = call[s]
      BY <1>8, <2>2 DEF Others
    <3>2. PICK e \in Emails : users[e] = call[s].caller
      BY <1>1, <2>2, <3>1 DEF Callers, CallerOf
    <3>3. e # m
      BY <1>2, <2>2, <3>1, <3>2
    <3>. HIDE DEF m, t, guest
    <3>. QED  BY <1>3, <3>1, <3>2, <3>3
  <2>. QED  BY <2>1, <2>2 DEF Callers, CallerOf
<1>12. \A token \in tokens' : users'[token.email] = token.tenant
  <2>1. \A token \in tokens : users[token.email] = token.tenant
    BY <1>1 DEF SignInsAgree
  <2>. HIDE DEF m, t, guest
  <2>. QED  BY <1>2, <1>3, <1>4, <1>5, <1>6, <2>1
<1>13. \A e, f \in Emails \ guests' : users'[e] = users'[f] /\ users'[e] # NONE => e = f
  <2>1. \A e, f \in Emails \ guests : users[e] = users[f] /\ users[e] # NONE => e = f
    BY <1>1 DEF SignInsAgree
  <2>2. ~guest => \A e \in Emails : users[e] # t
    BY <1>1 DEF Fresh, FreshOf, At, Stored
  <2>. HIDE DEF m, t, guest
  <2>. QED  BY <1>2, <1>3, <1>10, <2>1, <2>2
<1>14. ASSUME NEW e \in Emails, users'[e] # NONE
       PROVE  \E f \in Emails \ guests' : users'[f] = users'[e]
  <2>1. \A d \in Emails : users[d] # NONE => \E f \in Emails \ guests : users[f] = users[d]
    BY <1>1 DEF SignInsAgree
  <2>2. guest => \E d \in Emails : users[d] = t
    BY <1>1 DEF Stored, Callers, CallerOf
  <2>3. (e = m /\ ~guest) \/ \E d \in Emails : users[d] = users'[e]
    BY <1>3, <2>2
  <2>. HIDE DEF m, t, guest
  <2>4. CASE e = m /\ ~guest
    BY <1>2, <1>10, <2>4
  <2>5. CASE \E d \in Emails : users[d] = users'[e]
    <3>1. PICK f \in Emails \ guests : users[f] = users'[e]
      BY <1>14, <2>1, <2>5
    <3>2. f # m
      BY <1>2, <1>14, <3>1
    <3>. QED  BY <1>3, <1>10, <3>1, <3>2
  <2>. QED  BY <2>3, <2>4, <2>5
<1>. QED  BY <1>9, <1>11, <1>12, <1>13, <1>14 DEF SignInsAgree

\* The steps of a request that is not at a tenant or a user.
Connects(r) ==
  \/ \E token \in tokens, s \in Pickers : \E chosen \in SUBSET MetaAccounts \ {{}} : StartImport(r, token, s, chosen)
  \/ \E token \in tokens, e \in Externals, client \in 0..clientIds : StartConnect(r, token, e, client)
  \/ FindClient(r) \/ CreateDefaultClient(r) \/ ImportOne(r) \/ ConnectOne(r) \/ Enqueue(r)
  \/ Fails(r)

\* The steps that no call takes part in.
Aside ==
  \/ \E token \in tokens :
       \/ \E s \in Pickers : \E accounts \in SUBSET MetaAccounts \ {{}} : OpenPicker(s, token, accounts)
       \/ AddClient(token)
       \/ \E c \in clients : RemoveClient(token, c)
       \/ \E x \in conns : RemoveConn(token, x)
  \/ \E s \in Pickers : ExpirePicker(s)

LEMMA Steps ==
  ASSUME [Next]_vars
  PROVE  \/ \E e \in Emails : SignIn(e)
         \/ \E r \in Requests :
              \/ \E e \in Emails, caller \in {NONE} \cup {token.tenant : token \in tokens} : StartSignUp(r, e, caller)
              \/ CreateTenant(r) \/ CreateUser(r) \/ Connects(r)
         \/ Aside \/ Crash \/ UNCHANGED vars
BY DEF Next, Connects, Aside

LEMMA ConnectsAgree ==
  ASSUME SignInInv, NEW r \in Requests, Connects(r)
  PROVE  Fresh' /\ Callers' /\ SignInsAgree'
<1>1. TypeInv /\ Fresh /\ Callers /\ SignInsAgree
  BY DEF SignInInv
<1>2. UNCHANGED <<users, guests, tokens>>
  BY DEF Connects, StartImport, StartConnect, FindClient, TakeClient, CreateDefaultClient, ImportOne, ConnectOne,
         Enqueue, Fails, authVars
<1>3. Others(r) /\ call'[r].at \notin {"tenant", "user"}
  <2>2. ASSUME NEW token \in tokens, NEW s \in Pickers, NEW chosen \in SUBSET MetaAccounts,
               StartImport(r, token, s, chosen)
        PROVE  Others(r) /\ call'[r].at \notin {"tenant", "user"}
    BY <1>1, <2>2, StartImportCall
  <2>3. ASSUME NEW token \in tokens, NEW e \in Externals, NEW client \in 0..clientIds,
               StartConnect(r, token, e, client)
        PROVE  Others(r) /\ call'[r].at \notin {"tenant", "user"}
    BY <1>1, <2>3, StartConnectCall
  <2>4. CASE FindClient(r)
    BY <1>1, <2>4, FindClientCall
  <2>5. CASE CreateDefaultClient(r)
    BY <1>1, <2>5, CreateDefaultClientCall
  <2>6. CASE ImportOne(r)
    BY <1>1, <2>6, ImportOneCall
  <2>7. CASE ConnectOne(r)
    BY <1>1, <2>7, ConnectOneCall
  <2>8. CASE Enqueue(r)
    BY <1>1, <2>8, EnqueueCall
  <2>9. CASE Fails(r)
    BY <1>1, <2>9, EndCall
  <2>. QED  BY <2>2, <2>3, <2>4, <2>5, <2>6, <2>7, <2>8, <2>9 DEF Connects
<1>. QED  BY <1>1, <1>2, <1>3, SignInQuiet DEF Others

LEMMA SignInStep == ASSUME SignInInv, [Next]_vars PROVE SignInInv'
<1>1. SUFFICES Fresh' /\ Callers' /\ SignInsAgree'
  BY TypeStep DEF SignInInv
<1>2. TypeInv /\ Fresh /\ Callers /\ SignInsAgree
  BY DEF SignInInv
<1>3. ASSUME users' = users, guests' = guests, tokens' = tokens, call' = call PROVE Fresh' /\ Callers' /\ SignInsAgree'
  BY <1>2, <1>3, SignInQuiet
<1>4. CASE Aside
  <2>1. users' = users /\ guests' = guests /\ tokens' = tokens /\ call' = call
    BY <1>4 DEF Aside, OpenPicker, ExpirePicker, AddClient, RemoveClient, RemoveConn, authVars
  <2>. QED  BY <1>3, <2>1
<1>5. CASE Crash
  <2>1. UNCHANGED <<users, guests, tokens>>
    BY <1>5 DEF Crash, authVars
  <2>2. \A s \in Requests : call'[s].at \notin {"tenant", "user"}
    BY <1>5, CrashCall
  <2>. QED  BY <1>2, <2>1, <2>2, SignInQuiet
<1>6. CASE UNCHANGED vars
  <2>1. users' = users /\ guests' = guests /\ tokens' = tokens /\ call' = call
    BY <1>6 DEF vars, authVars
  <2>. QED  BY <1>3, <2>1
<1>. QED
  BY <1>4, <1>5, <1>6, Steps, SignInAgrees, StartSignUpAgrees, CreateTenantAgrees, CreateUserAgrees, ConnectsAgree

\* However many sign-ups overlap, fail or die half-way, with or without the token
\* of somebody else, an address always comes into the workspace its user row was
\* given; two share one only if one of them brought a token of it; and every
\* workspace anybody comes into has the user it was made for.
THEOREM WorkspaceSignInsAgree == Spec => []SignInsAgree
<1>1. Init => SignInInv
  <2>1. Init => Fresh /\ Callers
    <3>1. Init => \A r \in Requests : call[r].at = "idle"
      BY DEF Init, Idle
    <3>. QED  BY <3>1 DEF Init, Fresh, FreshOf, At, Callers, CallerOf
  <2>2. Init => SignInsAgree
    BY DEF Init, SignInsAgree
  <2>. QED  BY <2>1, <2>2, TypeInit DEF SignInInv
<1>2. SignInInv /\ [Next]_vars => SignInInv'
  BY SignInStep
<1>3. SignInInv => SignInsAgree
  BY DEF SignInInv
<1>. QED  BY <1>1, <1>2, <1>3, PTL DEF Spec

-----------------------------------------------------------------------------
(* Connections are at home.                                                *)

\* People keep their tokens, and a client that is new has an id never given before.
Widens ==
  /\ tokens \subseteq tokens'
  /\ \A c \in clients' : c \in clients \/ c.id = clientIds + 1

LEMMA HomeCarries ==
  ASSUME HomeInv, Widens, NEW s \in Requests, call'[s] = call[s]
  PROVE  HomeOf(s)'
<1>1. HomeOf(s) /\ (Storing(call[s]) => call[s].client \in 1..clientIds) /\ clientIds \in Nat
  BY WorkspaceAssumption DEF HomeInv, Home, TypeInv, TypeOK, Held, HeldRow
<1>. QED  BY <1>1 DEF HomeOf, Widens, Storing

LEMMA HomeBecomes ==
  ASSUME HomeInv, Widens, NEW r \in Requests, Others(r), HomeOf(r)'
  PROVE  Home'
BY HomeCarries DEF Others, Home

\* A request that ends, or signs somebody up, holds no client.
LEMMA HomeLeaves ==
  ASSUME HomeInv, Widens, NEW r \in Requests, Others(r), call'[r].at \in {"idle", "tenant", "user"}
  PROVE  Home'
<1>1. HomeOf(r)'
  BY DEF HomeOf, Storing
<1>. QED  BY <1>1, HomeBecomes

LEMMA RowsStay ==
  ASSUME HomeInv, tokens \subseteq tokens', UNCHANGED <<clients, conns>>
  PROVE  ConnectionsAtHome' /\ Widens
BY DEF HomeInv, ConnectionsAtHome, Widens

\* The client a request found, while it is there, is its tenant's; so is what it inserts.
LEMMA InsertHome ==
  ASSUME HomeInv, NEW r \in Requests, NEW e, NEW syncs, Insert(r, e, syncs), call[r].at = "store",
         UNCHANGED <<clients, tokens>>
  PROVE  ConnectionsAtHome'
<1>. DEFINE new == [id |-> rowIds + 1, external |-> e, tenant |-> call[r].tenant,
                    client |-> call[r].client, syncs |-> syncs, named |-> call[r].named]
<1>1. /\ conns' = conns \cup {new} /\ new.client = call[r].client /\ new.tenant = call[r].tenant
      /\ new.named = call[r].named
  BY DEF Insert
<1>. HIDE DEF new
<1>2. PICK c \in clients : c.id = call[r].client
  BY DEF Insert
<1>3. (call[r].named \/ c.tenant = call[r].tenant) /\ \E token \in tokens : token.tenant = call[r].tenant
  BY <1>2 DEF HomeInv, Home, HomeOf, Storing
<1>. QED  BY <1>1, <1>2, <1>3 DEF HomeInv, ConnectionsAtHome

LEMMA NewClientHome ==
  ASSUME HomeInv, NEW t, NewClient(t), \E token \in tokens : token.tenant = t, UNCHANGED <<conns, tokens>>
  PROVE  ConnectionsAtHome' /\ Widens /\ \A c \in clients' : c.id = clientIds + 1 => c.tenant = t
<1>1. clientIds \in Nat /\ \A c \in clients : c.id \in 1..clientIds
  BY WorkspaceAssumption DEF HomeInv, TypeInv, TypeOK
<1>2. clients' = clients \cup {[id |-> clientIds + 1, tenant |-> t]}
  BY DEF NewClient
<1>3. Widens /\ \A c \in clients' : c.id = clientIds + 1 => c.tenant = t
  BY <1>1, <1>2 DEF Widens
<1>4. ConnectionsAtHome'
  BY <1>2 DEF HomeInv, ConnectionsAtHome
<1>. QED  BY <1>3, <1>4

LEMMA StartImportHome ==
  ASSUME HomeInv, NEW r \in Requests, NEW token \in tokens, NEW s \in Pickers,
         NEW chosen \in SUBSET MetaAccounts, StartImport(r, token, s, chosen)
  PROVE  Home' /\ ConnectionsAtHome'
<1>1. Others(r) /\ call'[r].at = "client" /\ call'[r].tenant = token.tenant
  BY StartImportCall DEF HomeInv
<1>2. UNCHANGED <<tokens, clients, conns>>
  BY DEF StartImport, authVars, connVars
<1>3. HomeOf(r)'
  BY <1>1, <1>2 DEF HomeOf, Storing
<1>. QED  BY <1>1, <1>2, <1>3, RowsStay, HomeBecomes

LEMMA StartConnectHome ==
  ASSUME HomeInv, NEW r \in Requests, NEW token \in tokens, NEW e \in Externals, NEW client \in 0..clientIds,
         StartConnect(r, token, e, client)
  PROVE  Home' /\ ConnectionsAtHome'
<1>1. /\ Others(r) /\ call'[r].tenant = token.tenant
      /\ call'[r].at = "client" \/ (call'[r].at = "store" /\ call'[r].named)
  BY StartConnectCall DEF HomeInv
<1>2. UNCHANGED <<tokens, clients, conns>>
  BY DEF StartConnect, authVars, connVars
<1>3. HomeOf(r)'
  BY <1>1, <1>2 DEF HomeOf, Storing
<1>. QED  BY <1>1, <1>2, <1>3, RowsStay, HomeBecomes

LEMMA FindClientHome ==
  ASSUME HomeInv, NEW r \in Requests, FindClient(r)
  PROVE  Home' /\ ConnectionsAtHome'
<1>1. /\ Others(r) /\ call[r].at = "client" /\ call'[r].tenant = call[r].tenant
      /\ \/ call'[r].at = "newClient"
         \/ call'[r].at = "store" /\ \E c \in clients : c.tenant = call[r].tenant /\ c.id = call'[r].client
  BY FindClientCall DEF HomeInv
<1>2. UNCHANGED <<tokens, clients, conns>>
  BY DEF FindClient, TakeClient, authVars, connVars
<1>3. \A c, d \in clients : c.id = d.id => c = d
  BY DEF HomeInv, TypeInv, TypeOK
<1>4. \E token \in tokens : token.tenant = call[r].tenant
  BY <1>1 DEF HomeInv, Home, HomeOf
<1>5. HomeOf(r)'
  BY <1>1, <1>2, <1>3, <1>4 DEF HomeOf, Storing
<1>. QED  BY <1>1, <1>2, <1>5, RowsStay, HomeBecomes

LEMMA CreateDefaultClientHome ==
  ASSUME HomeInv, NEW r \in Requests, CreateDefaultClient(r)
  PROVE  Home' /\ ConnectionsAtHome'
<1>1. /\ Others(r) /\ call[r].at = "newClient" /\ call'[r].at = "store"
      /\ call'[r].tenant = call[r].tenant /\ call'[r].client = clientIds + 1
  BY CreateDefaultClientCall DEF HomeInv
<1>2. NewClient(call[r].tenant) /\ UNCHANGED <<tokens, conns>>
  BY DEF CreateDefaultClient, authVars
<1>3. \E token \in tokens : token.tenant = call[r].tenant
  BY <1>1 DEF HomeInv, Home, HomeOf
<1>4. /\ ConnectionsAtHome' /\ Widens
      /\ \A c \in clients' : c.id = clientIds + 1 => c.tenant = call[r].tenant
  BY <1>2, <1>3, NewClientHome
<1>5. HomeOf(r)'
  BY <1>1, <1>2, <1>3, <1>4 DEF HomeOf, Storing
<1>. QED  BY <1>1, <1>4, <1>5, HomeBecomes

LEMMA ImportOneHome ==
  ASSUME HomeInv, NEW r \in Requests, ImportOne(r)
  PROVE  Home' /\ ConnectionsAtHome'
<1>1. /\ Others(r) /\ call[r].at = "store" /\ call'[r].at = "enqueue"
      /\ call'[r].tenant = call[r].tenant /\ call'[r].client = call[r].client
      /\ call'[r].named = call[r].named
      /\ conns' = conns \/ \E e \in Externals : Insert(r, e, TRUE)
  BY ImportOneCall DEF HomeInv
<1>2. UNCHANGED <<tokens, clients>> /\ Widens
  BY DEF ImportOne, authVars, Widens
<1>3. HomeOf(r)'
  BY <1>1, <1>2 DEF HomeInv, Home, HomeOf, Storing
<1>4. ConnectionsAtHome'
  BY <1>1, <1>2, RowsStay, InsertHome
<1>. QED  BY <1>1, <1>2, <1>3, <1>4, HomeBecomes

LEMMA ConnectOneHome ==
  ASSUME HomeInv, NEW r \in Requests, ConnectOne(r)
  PROVE  Home' /\ ConnectionsAtHome'
<1>1. PICK e \in Externals :
        /\ Others(r) /\ call[r].at = "store" /\ Insert(r, e, e \in Portals)
        /\ \/ call'[r].at = "idle"
           \/ call'[r].at = "enqueue" /\ call'[r].tenant = call[r].tenant /\ call'[r].todo = {}
  BY ConnectOneCall DEF HomeInv
<1>2. UNCHANGED <<tokens, clients>> /\ Widens
  BY DEF ConnectOne, authVars, Widens
<1>3. HomeOf(r)'
  BY <1>1, <1>2 DEF HomeInv, Home, HomeOf, Storing
<1>4. ConnectionsAtHome'
  BY <1>1, <1>2, InsertHome
<1>. QED  BY <1>1, <1>2, <1>3, <1>4, HomeBecomes

LEMMA EnqueueHome ==
  ASSUME HomeInv, NEW r \in Requests, Enqueue(r)
  PROVE  Home' /\ ConnectionsAtHome'
<1>1. /\ Others(r) /\ call[r].at = "enqueue"
      /\ \/ call'[r].at = "idle"
         \/ /\ call[r].todo # {} /\ call'[r].at = "store"
            /\ call'[r].tenant = call[r].tenant /\ call'[r].client = call[r].client
            /\ call'[r].named = call[r].named
  BY EnqueueCall DEF HomeInv
<1>2. UNCHANGED <<tokens, clients, conns>>
  BY DEF Enqueue, authVars
<1>3. HomeOf(r)'
  BY <1>1, <1>2 DEF HomeInv, Home, HomeOf, Storing
<1>. QED  BY <1>1, <1>2, <1>3, RowsStay, HomeBecomes

LEMMA FailsHome ==
  ASSUME HomeInv, NEW r \in Requests, Fails(r)
  PROVE  Home' /\ ConnectionsAtHome'
<1>1. Others(r) /\ call'[r].at = "idle"
  BY EndCall DEF HomeInv
<1>2. UNCHANGED <<tokens, clients, conns>>
  BY DEF Fails, authVars, connVars
<1>. QED  BY <1>1, <1>2, RowsStay, HomeLeaves

\* The steps of a request that signs somebody up.
SignsUp(r) ==
  \/ \E e \in Emails, caller \in {NONE} \cup {token.tenant : token \in tokens} : StartSignUp(r, e, caller)
  \/ CreateTenant(r) \/ CreateUser(r)

\* Signing up and in touches no connection, and tokens are only added.
LEMMA AuthHome ==
  ASSUME HomeInv, (\E e \in Emails : SignIn(e)) \/ \E r \in Requests : SignsUp(r)
  PROVE  Home' /\ ConnectionsAtHome'
<1>1. tokens \subseteq tokens' /\ UNCHANGED <<clients, conns>>
  BY DEF SignIn, SignsUp, StartSignUp, CreateTenant, CreateUser, StoreUser, Issue, authVars, connVars
<1>2. ConnectionsAtHome' /\ Widens
  BY <1>1, RowsStay
<1>3. \A e \in Emails : SignIn(e) => Home'
  BY <1>2, HomeCarries DEF SignIn, Home
<1>4. ASSUME NEW r \in Requests, SignsUp(r)
      PROVE  Home'
  <2>1. Others(r) /\ call'[r].at \in {"idle", "tenant", "user"}
    BY <1>4, StartSignUpCall, CreateTenantCall, EndCall DEF HomeInv, SignsUp
  <2>. QED  BY <1>2, <2>1, HomeLeaves
<1>. QED  BY <1>2, <1>3, <1>4

LEMMA AsideHome == ASSUME HomeInv, Aside PROVE Home' /\ ConnectionsAtHome'
<1>1. call' = call /\ tokens' = tokens
  BY DEF Aside, OpenPicker, ExpirePicker, AddClient, RemoveClient, RemoveConn, authVars
<1>2. Widens => Home'
  BY <1>1, HomeCarries DEF Home
<1>3. CASE UNCHANGED <<clients, conns>>
  BY <1>1, <1>2, <1>3, RowsStay
<1>4. ASSUME NEW token \in tokens, AddClient(token) PROVE Home' /\ ConnectionsAtHome'
  <2>1. NewClient(token.tenant) /\ conns' = conns
    BY <1>4 DEF AddClient
  <2>. QED  BY <1>1, <1>2, <2>1, NewClientHome
<1>5. ASSUME NEW token \in tokens, NEW c \in clients, RemoveClient(token, c) PROVE Home' /\ ConnectionsAtHome'
  <2>1. clients' = clients \ {c} /\ conns' = {x \in conns : x.client # c.id}
    BY <1>5 DEF RemoveClient
  <2>. QED  BY <1>1, <1>2, <2>1 DEF Widens, HomeInv, ConnectionsAtHome
<1>6. ASSUME NEW token \in tokens, NEW x \in conns, RemoveConn(token, x) PROVE Home' /\ ConnectionsAtHome'
  <2>1. clients' = clients /\ conns' = conns \ {x}
    BY <1>6 DEF RemoveConn
  <2>. QED  BY <1>1, <1>2, <2>1 DEF Widens, HomeInv, ConnectionsAtHome
<1>7. \A s \in Pickers : ExpirePicker(s) => UNCHANGED <<clients, conns>>
  BY DEF ExpirePicker
<1>8. \A token \in tokens, s \in Pickers : \A accounts : OpenPicker(s, token, accounts) => UNCHANGED <<clients, conns>>
  BY DEF OpenPicker
<1>. QED  BY <1>3, <1>4, <1>5, <1>6, <1>7, <1>8 DEF Aside

LEMMA HomeStep == ASSUME HomeInv, [Next]_vars PROVE HomeInv'
<1>1. SUFFICES Home' /\ ConnectionsAtHome'
  BY TypeStep DEF HomeInv
<1>2. ASSUME NEW r \in Requests, Connects(r) PROVE Home' /\ ConnectionsAtHome'
  BY <1>2, StartImportHome, StartConnectHome, FindClientHome, CreateDefaultClientHome, ImportOneHome, ConnectOneHome,
     EnqueueHome, FailsHome DEF Connects
<1>3. CASE Crash
  <2>1. UNCHANGED <<tokens, clients, conns>>
    BY <1>3 DEF Crash, authVars
  <2>2. \A s \in Requests : call'[s].at = "idle"
    BY <1>3, CrashCall
  <2>3. Home'
    BY <2>2 DEF Home, HomeOf, Storing
  <2>. QED  BY <2>1, <2>3, RowsStay
<1>4. CASE UNCHANGED vars
  <2>1. tokens' = tokens /\ clients' = clients /\ conns' = conns /\ call' = call
    BY <1>4 DEF vars, authVars, connVars
  <2>2. ConnectionsAtHome' /\ Widens
    BY <2>1, RowsStay
  <2>. QED  BY <2>1, <2>2, HomeCarries DEF Home
<1>. QED  BY <1>2, <1>3, <1>4, Steps, AuthHome, AsideHome DEF SignsUp

\* Whoever removes clients in the meantime, connections hang on a client that is
\* there, of their tenant unless the caller named another, and nothing is of a
\* tenant nobody signed in to.
THEOREM WorkspaceConnectionsAtHome == Spec => []ConnectionsAtHome
<1>1. Init => HomeInv
  BY TypeInit DEF Init, HomeInv, Home, HomeOf, Storing, Idle, ConnectionsAtHome
<1>2. HomeInv /\ [Next]_vars => HomeInv'
  BY HomeStep
<1>3. HomeInv => ConnectionsAtHome
  BY DEF HomeInv
<1>. QED  BY <1>1, <1>2, <1>3, PTL DEF Spec

-----------------------------------------------------------------------------
(* The first sync follows.                                                 *)

\* No debt is lost: who is about to add a job still is, or it is done or cut off
\* by now; and a row that is new and is to be synced has somebody who owes it.
LEMMA SyncCarries ==
  ASSUME FirstSyncFollows, queued \subseteq queued', cut \subseteq cut',
         \A s \in Requests : call[s].at = "enqueue" => call'[s] = call[s] \/ call[s].row \in queued' \cup cut',
         \A x \in conns' : \/ x \in conns \/ ~x.syncs
                           \/ \E s \in Requests : call'[s].at = "enqueue" /\ call'[s].row = x.id
  PROVE  FirstSyncFollows'
BY DEF FirstSyncFollows, Owing, At

LEMMA ImportOneSyncs ==
  ASSUME SyncInv, NEW r \in Requests, ImportOne(r)
  PROVE  FirstSyncFollows'
<1>1. FirstSyncFollows /\ queued' = queued /\ cut' = cut
  BY DEF SyncInv, ImportOne
<1>2. /\ Others(r) /\ call[r].at = "store" /\ call'[r].at = "enqueue"
      /\ conns' = conns \/ \E e \in Externals : Insert(r, e, TRUE) /\ call'[r].row = rowIds + 1
  BY ImportOneCall DEF SyncInv
<1>3. \A s \in Requests : call[s].at = "enqueue" => call'[s] = call[s]
  BY <1>2 DEF Others
<1>4. \A x \in conns' : x \in conns \/ \E s \in Requests : call'[s].at = "enqueue" /\ call'[s].row = x.id
  BY <1>2 DEF Insert
<1>. QED  BY <1>1, <1>3, <1>4, SyncCarries

LEMMA ConnectOneSyncs ==
  ASSUME SyncInv, NEW r \in Requests, ConnectOne(r)
  PROVE  FirstSyncFollows'
<1>1. FirstSyncFollows /\ queued' = queued /\ cut' = cut
  BY DEF SyncInv, ConnectOne
<1>2. PICK e \in Externals :
        /\ Others(r) /\ call[r].at = "store" /\ Insert(r, e, e \in Portals)
        /\ e \notin Portals \/ (call'[r].at = "enqueue" /\ call'[r].row = rowIds + 1)
  BY ConnectOneCall DEF SyncInv
<1>3. \A s \in Requests : call[s].at = "enqueue" => call'[s] = call[s]
  BY <1>2 DEF Others
<1>. DEFINE new == [id |-> rowIds + 1, external |-> e, tenant |-> call[r].tenant,
                    client |-> call[r].client, syncs |-> e \in Portals, named |-> call[r].named]
<1>4. conns' = conns \cup {new}
  BY <1>2 DEF Insert
<1>5. new.id = rowIds + 1 /\ (new.syncs <=> e \in Portals)
  OBVIOUS
<1>. HIDE DEF new
<1>6. \A x \in conns' : \/ x \in conns \/ ~x.syncs
                        \/ \E s \in Requests : call'[s].at = "enqueue" /\ call'[s].row = x.id
  BY <1>2, <1>4, <1>5
<1>. QED  BY <1>1, <1>3, <1>6, SyncCarries

LEMMA ConnectsSync ==
  ASSUME SyncInv, NEW r \in Requests, Connects(r)
  PROVE  FirstSyncFollows'
<1>1. TypeInv /\ FirstSyncFollows
  BY DEF SyncInv
<1>2. ASSUME conns' = conns, queued \subseteq queued', cut \subseteq cut', Others(r),
             call[r].at = "enqueue" => call[r].row \in queued' \cup cut'
      PROVE  FirstSyncFollows'
  BY <1>1, <1>2, SyncCarries DEF Others
<1>3. ASSUME NEW token \in tokens, NEW s \in Pickers, NEW chosen \in SUBSET MetaAccounts,
             StartImport(r, token, s, chosen)
      PROVE  FirstSyncFollows'
  <2>1. Others(r) /\ call[r].at = "idle"
    BY <1>1, <1>3, StartImportCall
  <2>2. UNCHANGED <<conns, queued, cut>>
    BY <1>3 DEF StartImport, connVars
  <2>. QED  BY <1>2, <2>1, <2>2
<1>4. ASSUME NEW token \in tokens, NEW e \in Externals, NEW client \in 0..clientIds,
             StartConnect(r, token, e, client)
      PROVE  FirstSyncFollows'
  <2>1. Others(r) /\ call[r].at = "idle"
    BY <1>1, <1>4, StartConnectCall
  <2>2. UNCHANGED <<conns, queued, cut>>
    BY <1>4 DEF StartConnect, connVars
  <2>. QED  BY <1>2, <2>1, <2>2
<1>5. CASE FindClient(r)
  <2>1. Others(r) /\ call[r].at = "client"
    BY <1>1, <1>5, FindClientCall
  <2>2. UNCHANGED <<conns, queued, cut>>
    BY <1>5 DEF FindClient, TakeClient, connVars
  <2>. QED  BY <1>2, <2>1, <2>2
<1>6. CASE CreateDefaultClient(r)
  <2>1. Others(r) /\ call[r].at = "newClient"
    BY <1>1, <1>6, CreateDefaultClientCall
  <2>2. UNCHANGED <<conns, queued, cut>>
    BY <1>6 DEF CreateDefaultClient
  <2>. QED  BY <1>2, <2>1, <2>2
<1>7. CASE Enqueue(r)
  <2>1. Others(r)
    BY <1>1, <1>7, EnqueueCall
  <2>2. conns' = conns /\ cut' = cut /\ queued' = queued \cup {call[r].row}
    BY <1>7 DEF Enqueue
  <2>. QED  BY <1>2, <2>1, <2>2
<1>8. CASE Fails(r)
  <2>1. Others(r)
    BY <1>1, <1>8, EndCall
  <2>2. conns' = conns /\ queued' = queued /\ cut' = cut \cup Owing({r})
    BY <1>8 DEF Fails, connVars
  <2>3. call[r].at = "enqueue" => call[r].row \in Owing({r})
    BY DEF Owing, At
  <2>. QED  BY <1>2, <2>1, <2>2, <2>3
<1>. QED  BY <1>3, <1>4, <1>5, <1>6, <1>7, <1>8, ImportOneSyncs, ConnectOneSyncs DEF Connects

LEMMA SyncStep == ASSUME SyncInv, [Next]_vars PROVE SyncInv'
<1>1. SUFFICES FirstSyncFollows'
  BY TypeStep DEF SyncInv
<1>2. TypeInv /\ FirstSyncFollows
  BY DEF SyncInv
<1>3. ASSUME conns' \subseteq conns, queued' = queued, cut' = cut,
             \A s \in Requests : call[s].at = "enqueue" => call'[s] = call[s]
      PROVE  FirstSyncFollows'
  BY <1>2, <1>3, SyncCarries
<1>4. ASSUME NEW e \in Emails, SignIn(e) PROVE FirstSyncFollows'
  <2>1. conns' = conns /\ queued' = queued /\ cut' = cut /\ call' = call
    BY <1>4 DEF SignIn, connVars
  <2>. QED  BY <1>3, <2>1
<1>5. ASSUME NEW r \in Requests, SignsUp(r)
      PROVE  FirstSyncFollows'
  <2>1. Others(r)
    BY <1>2, <1>5, StartSignUpCall, CreateTenantCall, EndCall DEF SignsUp
  <2>2. call[r].at \in {"idle", "tenant", "user"}
    BY <1>5 DEF SignsUp, StartSignUp, CreateTenant, CreateUser, At
  <2>3. conns' = conns /\ queued' = queued /\ cut' = cut
    BY <1>5 DEF SignsUp, StartSignUp, CreateTenant, CreateUser, connVars
  <2>. QED  BY <1>3, <2>1, <2>2, <2>3 DEF Others
<1>6. CASE Aside
  <2>1. conns' \subseteq conns /\ queued' = queued /\ cut' = cut /\ call' = call
    BY <1>6 DEF Aside, OpenPicker, ExpirePicker, AddClient, RemoveClient, RemoveConn
  <2>. QED  BY <1>3, <2>1
<1>7. CASE Crash
  <2>1. conns' = conns /\ queued' = queued /\ cut' = cut \cup Owing(Requests)
    BY <1>7 DEF Crash
  <2>2. \A s \in Requests : call[s].at = "enqueue" => call[s].row \in cut'
    BY <2>1 DEF Owing, At
  <2>. QED  BY <1>2, <2>1, <2>2, SyncCarries
<1>8. CASE UNCHANGED vars
  <2>1. conns' = conns /\ queued' = queued /\ cut' = cut /\ call' = call
    BY <1>8 DEF vars, connVars
  <2>. QED  BY <1>3, <2>1
<1>9. ASSUME NEW r \in Requests, Connects(r) PROVE FirstSyncFollows'
  BY <1>9, ConnectsSync
<1>. QED  BY <1>4, <1>5, <1>6, <1>7, <1>8, <1>9, Steps DEF SignsUp

\* Every row that an import or a CRM connect made and that is still there had a
\* job added, is about to, or was cut off between its insert and queue.add.
THEOREM WorkspaceFirstSyncFollows == Spec => []FirstSyncFollows
<1>1. Init => SyncInv
  BY TypeInit DEF Init, SyncInv, FirstSyncFollows
<1>2. SyncInv /\ [Next]_vars => SyncInv'
  BY SyncStep
<1>3. SyncInv => FirstSyncFollows
  BY DEF SyncInv
<1>. QED  BY <1>1, <1>2, <1>3, PTL DEF Spec

-----------------------------------------------------------------------------
(* The QR login.                                                           *)

\* Of whoever is signed in, in the key or on the way to the desktop, approve returned
\* true, and it did not of whoever was told that the code had expired.
Approved(a) == a # NOBODY => req[a] = "ok"
LoginsApproved ==
  /\ Approved(signedAs) /\ Approved(user) /\ \A p \in Polls : Approved(got[p])
  /\ \A a \in Approvals : told[a] = "expired" => req[a] = "expired"
  /\ \A a \in Approvals : told[a] = "success" /\ Via[a] = "bot" => req[a] = "ok"

\* Before the session is there nobody acts on it, and after an approval it is never
\* pending again.
Begins ==
  /\ desk = "loading" => /\ status = "absent" /\ count = 0 /\ signedAs = NOBODY
                         /\ \A a \in Approvals : req[a] = "idle"
                         /\ \A p \in Polls : poll[p] = "idle"
  /\ status = "pending" => \A a \in Approvals : req[a] # "ok"

AgreeInv == LoginTypeOK /\ LoginsApproved /\ Begins

\* Somebody's approve has returned true.
SomeOk == \E a \in Approvals : req[a] = "ok"

\* The login page is where a phone gets whose login failed; "approved" is what the key
\* said, or the redirect of Google.
PhoneTold ==
  /\ phone = "login" => req[watched] = "dead"
  /\ info = "approved" => SomeOk
  /\ phone = "approved" => SomeOk \/ (Via[watched] = "google" /\ told[watched] = "success")

\* A poll carries a login from its look at the key until its answer.
Carries ==
  /\ \A p \in Polls : got[p] # NOBODY <=> poll[p] \in {"del", "approved"}
  /\ signedAs # NOBODY => desk = "signedIn"
  /\ desk = "signedIn" => count = 0

\* Without overlaps there is one poll and one approval at a time ...
Alone ==
  /\ \A a, b \in Approvals : a # b => ~({req[a], req[b]} \subseteq Handling)
  /\ \A p, q \in Polls : p # q => "idle" \in {poll[p], poll[q]}

\* ... and so no approval that may still write once somebody was told ok, one login on
\* the way to the desktop at most, and no poll once it has arrived.
Deciding == {"ttl", "set"}
OneLogin ==
  /\ \A a, b \in Approvals : req[a] \in Deciding => req[b] # "ok"
  /\ \A p \in Polls : got[p] # NOBODY /\ user # NOBODY => got[p] = user
  /\ signedAs # NOBODY => \A p \in Polls : poll[p] = "idle"

Serial == ~overlapped => Alone /\ OneLogin

MailInv == AgreeInv /\ Carries /\ Serial

-----------------------------------------------------------------------------
(* Types.                                                                  *)

\* The variables of QrLogin keep their types (QrLoginService and both pages); a key in
\* Redis always has a time to live, and carries a login exactly when it is approved.
THEOREM QrLoginTypeOK == LoginSpec => []LoginTypeOK
<1>1. ASSUME LoginInit PROVE LoginTypeOK
  <2>1. 0 \in 0..TTL /\ user = NOBODY /\ status # "approved"
    BY <1>1, QrLoginAssumption DEF LoginInit
  <2>2. /\ req \in [Approvals -> {"idle"}] /\ told \in [Approvals -> {"nothing"}]
        /\ seen \in [Approvals -> 0..TTL]
    BY <1>1, <2>1 DEF LoginInit
  <2>3. poll \in [Polls -> {"idle"}] /\ got \in [Polls -> {NOBODY}]
    BY <1>1 DEF LoginInit
  <2>. QED  BY <1>1, <2>1, <2>2, <2>3 DEF LoginInit, LoginTypeOK
<1>2. ASSUME LoginTypeOK, [LoginNext]_loginVars PROVE LoginTypeOK'
  <2>. USE QrLoginAssumption DEF keyVars, deskVars, pollVars, approvalVars, phoneVars
  <2>1. overlapped' \in BOOLEAN
    BY <1>2 DEF LoginTypeOK, LoginNext, NoteOverlap, loginVars
  <2>2. CASE Tick
    BY <1>2, <2>1, <2>2 DEF LoginTypeOK, Tick, PhoneTicks, Gone
  <2>3. CASE Start
    BY <1>2, <2>1, <2>3 DEF LoginTypeOK, Start
  <2>4. CASE Show
    BY <1>2, <2>1, <2>4 DEF LoginTypeOK, Show
  <2>5. CASE StartFails
    BY <1>2, <2>1, <2>5 DEF LoginTypeOK, StartFails
  <2>6. ASSUME NEW p \in Polls, SendPoll(p) PROVE LoginTypeOK'
    BY <1>2, <2>1, <2>6 DEF LoginTypeOK, SendPoll
  <2>7. ASSUME NEW p \in Polls, PollGet(p) PROVE LoginTypeOK'
    BY <1>2, <2>1, <2>7 DEF LoginTypeOK, PollGet
  <2>8. ASSUME NEW p \in Polls, PollDel(p) PROVE LoginTypeOK'
    BY <1>2, <2>1, <2>8 DEF LoginTypeOK, PollDel, Gone
  <2>9. ASSUME NEW p \in Polls, PollAnswer(p) PROVE LoginTypeOK'
    BY <1>2, <2>1, <2>9 DEF LoginTypeOK, PollAnswer, StopTimers
  <2>10. ASSUME NEW p \in Polls, LosePoll(p) PROVE LoginTypeOK'
    BY <1>2, <2>1, <2>10 DEF LoginTypeOK, LosePoll
  <2>11. CASE Scan
    BY <1>2, <2>1, <2>11 DEF LoginTypeOK, Scan, OnPhone
  <2>12. CASE PhoneAsks
    BY <1>2, <2>1, <2>12 DEF LoginTypeOK, PhoneAsks, OnPhone
  <2>13. CASE InfoGet
    BY <1>2, <2>1, <2>13 DEF LoginTypeOK, InfoGet
  <2>14. CASE PhoneHears
    BY <1>2, <2>1, <2>14 DEF LoginTypeOK, PhoneHears, OnPhone
  <2>15. ASSUME NEW a \in Approvals, Confirm(a) PROVE LoginTypeOK'
    BY <1>2, <2>1, <2>15 DEF LoginTypeOK, Confirm
  <2>16. ASSUME NEW a \in Approvals, LogIn(a) PROVE LoginTypeOK'
    BY <1>2, <2>1, <2>16 DEF LoginTypeOK, LogIn, BotIsBusy
  <2>17. ASSUME NEW a \in Approvals, ApproveGet(a) PROVE LoginTypeOK'
    BY <1>2, <2>1, <2>17 DEF LoginTypeOK, ApproveGet
  <2>18. ASSUME NEW a \in Approvals, ApproveTtl(a) PROVE LoginTypeOK'
    BY <1>2, <2>1, <2>18 DEF LoginTypeOK, ApproveTtl
  <2>19. ASSUME NEW a \in Approvals, ApproveSet(a) PROVE LoginTypeOK'
    BY <1>2, <2>1, <2>19 DEF LoginTypeOK, ApproveSet
  <2>20. ASSUME NEW a \in Approvals, Tell(a) PROVE LoginTypeOK'
    BY <1>2, <2>1, <2>20 DEF LoginTypeOK, Tell, Reply
  <2>21. CASE ApiDies
    BY <1>2, <2>1, <2>21 DEF LoginTypeOK, ApiDies, Handling
  <2>22. CASE UNCHANGED loginVars
    BY <1>2, <2>1, <2>22 DEF LoginTypeOK, loginVars
  <2>. QED
    BY <1>2, <2>2, <2>3, <2>4, <2>5, <2>6, <2>7, <2>8, <2>9, <2>10, <2>11, <2>12,
       <2>13, <2>14, <2>15, <2>16, <2>17, <2>18, <2>19, <2>20, <2>21, <2>22
    DEF LoginNext, Page, Poll, Phone, Approval
<1>. QED  BY <1>1, <1>2, PTL DEF LoginSpec

-----------------------------------------------------------------------------
(* What bot and phone say, and the login the session carries.              *)

LEMMA AgreeInit == ASSUME LoginInit PROVE LoginsApproved /\ Begins
BY QrLoginAssumption DEF LoginInit, LoginsApproved, Begins, Approved

\* The inductive invariant of both theorems.
LEMMA QrLoginAgreeInv == LoginSpec => []AgreeInv
<1>1. LoginInit => LoginsApproved /\ Begins
  BY AgreeInit
<1>2. ASSUME LoginTypeOK, LoginTypeOK', LoginsApproved, Begins, [LoginNext]_loginVars PROVE (LoginsApproved /\ Begins)'
  <2>. USE QrLoginAssumption DEF keyVars, deskVars, pollVars, approvalVars, phoneVars
  <2>1. CASE Tick
    BY <1>2, <2>1 DEF LoginTypeOK, LoginsApproved, Begins, Approved, Tick, PhoneTicks, Gone
  <2>2. CASE Start
    BY <1>2, <2>2 DEF LoginTypeOK, LoginsApproved, Begins, Approved, Start
  <2>3. CASE Show
    BY <1>2, <2>3 DEF LoginTypeOK, LoginsApproved, Begins, Approved, Show
  <2>4. CASE StartFails
    BY <1>2, <2>4 DEF LoginTypeOK, LoginsApproved, Begins, Approved, StartFails
  <2>5. ASSUME NEW p \in Polls, SendPoll(p) PROVE (LoginsApproved /\ Begins)'
    BY <1>2, <2>5 DEF LoginTypeOK, LoginsApproved, Begins, Approved, SendPoll
  <2>6. ASSUME NEW p \in Polls, PollGet(p) PROVE (LoginsApproved /\ Begins)'
    BY <1>2, <2>6 DEF LoginTypeOK, LoginsApproved, Begins, Approved, PollGet
  <2>7. ASSUME NEW p \in Polls, PollDel(p) PROVE (LoginsApproved /\ Begins)'
    BY <1>2, <2>7 DEF LoginTypeOK, LoginsApproved, Begins, Approved, PollDel, Gone
  <2>8. ASSUME NEW p \in Polls, PollAnswer(p) PROVE (LoginsApproved /\ Begins)'
    BY <1>2, <2>8 DEF LoginTypeOK, LoginsApproved, Begins, Approved, PollAnswer, StopTimers
  <2>9. ASSUME NEW p \in Polls, LosePoll(p) PROVE (LoginsApproved /\ Begins)'
    BY <1>2, <2>9 DEF LoginTypeOK, LoginsApproved, Begins, Approved, LosePoll
  <2>10. CASE Scan
    BY <1>2, <2>10 DEF LoginTypeOK, LoginsApproved, Begins, Approved, Scan, OnPhone
  <2>11. CASE PhoneAsks
    BY <1>2, <2>11 DEF LoginTypeOK, LoginsApproved, Begins, Approved, PhoneAsks, OnPhone
  <2>12. CASE InfoGet
    BY <1>2, <2>12 DEF LoginTypeOK, LoginsApproved, Begins, Approved, InfoGet
  <2>13. CASE PhoneHears
    BY <1>2, <2>13 DEF LoginTypeOK, LoginsApproved, Begins, Approved, PhoneHears, OnPhone
  <2>14. ASSUME NEW a \in Approvals, Confirm(a) PROVE (LoginsApproved /\ Begins)'
    BY <1>2, <2>14 DEF LoginTypeOK, LoginsApproved, Begins, Approved, Confirm
  <2>15. ASSUME NEW a \in Approvals, LogIn(a) PROVE (LoginsApproved /\ Begins)'
    BY <1>2, <2>15 DEF LoginTypeOK, LoginsApproved, Begins, Approved, LogIn, BotIsBusy
  <2>16. ASSUME NEW a \in Approvals, ApproveGet(a) PROVE (LoginsApproved /\ Begins)'
    BY <1>2, <2>16 DEF LoginTypeOK, LoginsApproved, Begins, Approved, ApproveGet
  <2>17. ASSUME NEW a \in Approvals, ApproveTtl(a) PROVE (LoginsApproved /\ Begins)'
    BY <1>2, <2>17 DEF LoginTypeOK, LoginsApproved, Begins, Approved, ApproveTtl
  <2>18. ASSUME NEW a \in Approvals, ApproveSet(a) PROVE (LoginsApproved /\ Begins)'
    BY <1>2, <2>18 DEF LoginTypeOK, LoginsApproved, Begins, Approved, ApproveSet
  <2>19. ASSUME NEW a \in Approvals, Tell(a) PROVE (LoginsApproved /\ Begins)'
    BY <1>2, <2>19 DEF LoginTypeOK, LoginsApproved, Begins, Approved, Tell, Reply
  <2>20. CASE ApiDies
    BY <1>2, <2>20 DEF LoginTypeOK, LoginsApproved, Begins, Approved, ApiDies, Handling
  <2>21. CASE UNCHANGED loginVars
    BY <1>2, <2>21 DEF LoginTypeOK, LoginsApproved, Begins, Approved, loginVars
  <2>. QED
    BY <1>2, <2>1, <2>2, <2>3, <2>4, <2>5, <2>6, <2>7, <2>8, <2>9, <2>10, <2>11,
       <2>12, <2>13, <2>14, <2>15, <2>16, <2>17, <2>18, <2>19, <2>20, <2>21
    DEF LoginNext, Page, Poll, Phone, Approval
<1>. QED  BY QrLoginTypeOK, <1>1, <1>2, PTL DEF LoginSpec, AgreeInv

\* An approve that returned true has, a login that failed is never taken up again, and a
\* person is told once.
LEMMA AnswersStay ==
  ASSUME LoginTypeOK, [LoginNext]_loginVars
  PROVE  /\ SomeOk => SomeOk'
         /\ req[watched] = "dead" => req'[watched] = "dead"
         /\ told[watched] = "success" => told'[watched] = "success"
         /\ watched' = watched
<1>. USE DEF keyVars, deskVars, pollVars, approvalVars, phoneVars
<1>1. /\ \A a \in Approvals : req[a] \in {"ok", "dead"} => req'[a] = req[a]
      /\ \A a \in Approvals : told[a] # "nothing" => told'[a] = told[a]
      /\ watched' = watched
  <2>. DEFINE Kept == /\ \A a \in Approvals : req[a] \in {"ok", "dead"} => req'[a] = req[a]
                      /\ \A a \in Approvals : told[a] # "nothing" => told'[a] = told[a]
                      /\ watched' = watched
  <2>1. CASE UNCHANGED <<req, told, watched>>
    BY <2>1
  <2>2. Tick \/ Start \/ Show \/ StartFails \/ Phone => UNCHANGED <<req, told, watched>>
    BY DEF Tick, Start, Show, StartFails, Phone, Scan, PhoneAsks, InfoGet, PhoneHears, OnPhone
  <2>3. ASSUME NEW p \in Polls, Poll(p) PROVE UNCHANGED <<req, told, watched>>
    BY <2>3 DEF Poll, SendPoll, PollGet, PollDel, PollAnswer, LosePoll
  <2>4. ASSUME NEW a \in Approvals, Confirm(a) PROVE Kept
    BY <2>4 DEF LoginTypeOK, Confirm
  <2>5. ASSUME NEW a \in Approvals, LogIn(a) PROVE Kept
    BY <2>5 DEF LoginTypeOK, LogIn
  <2>6. ASSUME NEW a \in Approvals, ApproveGet(a) \/ ApproveTtl(a) \/ ApproveSet(a) PROVE Kept
    BY <2>6 DEF LoginTypeOK, ApproveGet, ApproveTtl, ApproveSet
  <2>7. ASSUME NEW a \in Approvals, Tell(a) PROVE Kept
    BY <2>7 DEF LoginTypeOK, Tell, Reply
  <2>8. CASE ApiDies
    BY <2>8 DEF LoginTypeOK, ApiDies, Handling
  <2>9. CASE UNCHANGED loginVars
    BY <2>9 DEF loginVars
  <2>. QED  BY <2>1, <2>2, <2>3, <2>4, <2>5, <2>6, <2>7, <2>8, <2>9 DEF LoginNext, Page, Approval
<1>. QED  BY <1>1 DEF SomeOk, LoginTypeOK

\* What phone and info come to say, step by step.
LEMMA PhoneSteps ==
  ASSUME LoginTypeOK, [LoginNext]_loginVars
  PROVE  /\ phone' = "login" => phone = "login" \/ req'[watched] = "dead"
         /\ info' = "approved" => info = "approved" \/ status = "approved"
         /\ phone' = "approved" => \/ phone = "approved" \/ info = "approved"
                                    \/ (Via[watched] = "google" /\ told'[watched] = "success")
<1>. USE DEF keyVars, deskVars, pollVars, approvalVars, phoneVars
<1>1. CASE UNCHANGED <<phone, info>>
  BY <1>1
<1>2. Start \/ Show \/ StartFails \/ ApiDies => UNCHANGED <<phone, info>>
  BY DEF Start, Show, StartFails, ApiDies
<1>3. ASSUME NEW p \in Polls, Poll(p) PROVE UNCHANGED <<phone, info>>
  BY <1>3 DEF Poll, SendPoll, PollGet, PollDel, PollAnswer, LosePoll
<1>4. CASE Tick
  BY <1>4 DEF Tick, PhoneTicks
<1>5. CASE Scan \/ PhoneAsks \/ PhoneHears
  BY <1>5 DEF Scan, PhoneAsks, PhoneHears
<1>6. CASE InfoGet
  BY <1>6 DEF InfoGet
<1>7. ASSUME NEW a \in Approvals, Confirm(a)
      PROVE  UNCHANGED <<phone, info>> \/ (phone' = "away" /\ info' = "idle")
  BY <1>7 DEF Confirm
<1>8. ASSUME NEW a \in Approvals, LogIn(a)
      PROVE  info' = info /\ (phone' = phone \/ (phone' = "login" /\ req'[watched] = "dead"))
  BY <1>8 DEF LoginTypeOK, LogIn
<1>9. ASSUME NEW a \in Approvals, ApproveGet(a) \/ ApproveTtl(a) \/ ApproveSet(a) PROVE UNCHANGED <<phone, info>>
  BY <1>9 DEF ApproveGet, ApproveTtl, ApproveSet
<1>10. ASSUME NEW a \in Approvals, Tell(a)
       PROVE  /\ info' = info
              /\ phone' = phone \/ (phone' = "approved" /\ Via[watched] = "google" /\ told'[watched] = "success")
  BY <1>10 DEF LoginTypeOK, Tell, Reply
<1>11. CASE UNCHANGED loginVars
  BY <1>11 DEF loginVars
<1>. QED
  BY <1>1, <1>2, <1>3, <1>4, <1>5, <1>6, <1>7, <1>8, <1>9, <1>10, <1>11 DEF LoginNext, Page, Phone, Approval

LEMMA QrLoginPhoneTold == LoginSpec => []PhoneTold
<1>1. LoginInit => PhoneTold
  BY DEF LoginInit, PhoneTold
<1>2. ASSUME AgreeInv, PhoneTold, [LoginNext]_loginVars PROVE PhoneTold'
  <2>1. LoginTypeOK /\ (status = "approved" => SomeOk)
    BY <1>2 DEF AgreeInv, LoginTypeOK, LoginsApproved, Approved, SomeOk
  <2>. QED  BY <1>2, <2>1, AnswersStay, PhoneSteps DEF PhoneTold
<1>. QED  BY QrLoginAgreeInv, <1>1, <1>2, PTL DEF LoginSpec

\* Whatever overlaps, is lost or dies, for any number of people and polls: the session
\* carries the login only of somebody whose approve returned true, never of one the bot
\* answered "expired" or whose phone got to the login page; whom the bot congratulates
\* has approved the session or found it approved; and the phone says "approved" only
\* when somebody has, or when Google brought it back.
THEOREM QrLoginAnswersAgree == LoginSpec => []AnswersAgree
<1>1. ASSUME AgreeInv, PhoneTold PROVE AnswersAgree
  <2>1. ASSUME NEW a \in Carried PROVE a \in Approvals /\ req[a] = "ok"
    BY <1>1 DEF AgreeInv, LoginTypeOK, LoginsApproved, Approved, Carried
  <2>2. \A a \in Carried : told[a] # "expired" /\ (phone = "login" => a # watched)
    BY <1>1, <2>1 DEF AgreeInv, LoginsApproved, PhoneTold
  <2>3. \A a \in Approvals : told[a] = "success" /\ Via[a] = "bot" => status # "pending" /\ req[a] = "ok"
    BY <1>1 DEF AgreeInv, LoginsApproved, Begins
  <2>. QED  BY <1>1, <2>1, <2>2, <2>3 DEF AnswersAgree, PhoneTold, SomeOk
<1>. QED  BY QrLoginAgreeInv, QrLoginPhoneTold, <1>1, PTL

-----------------------------------------------------------------------------
(* The one-shot mailbox.                                                   *)

LEMMA MailInit == ASSUME LoginInit PROVE Carries /\ Serial
<1>1. Carries
  BY QrLoginAssumption DEF LoginInit, Carries
<1>2. Alone
  BY QrLoginAssumption DEF LoginInit, Alone, Handling
<1>3. OneLogin
  BY QrLoginAssumption DEF LoginInit, OneLogin, Deciding
<1>. QED  BY <1>1, <1>2, <1>3 DEF Serial

\* A poll carries a login exactly between its look at the key and its answer.
LEMMA QrLoginCarries == LoginSpec => []Carries
<1>1. LoginInit => Carries
  BY MailInit
<1>2. ASSUME LoginTypeOK, Carries, [LoginNext]_loginVars PROVE Carries'
  <2>. USE QrLoginAssumption DEF keyVars, deskVars, pollVars, approvalVars, phoneVars
  <2>1. CASE Tick
    BY <1>2, <2>1 DEF LoginTypeOK, Carries, Tick, PhoneTicks, Gone
  <2>2. CASE Start
    BY <1>2, <2>2 DEF LoginTypeOK, Carries, Start
  <2>3. CASE Show
    BY <1>2, <2>3 DEF LoginTypeOK, Carries, Show
  <2>4. CASE StartFails
    BY <1>2, <2>4 DEF LoginTypeOK, Carries, StartFails
  <2>5. ASSUME NEW p \in Polls, SendPoll(p) PROVE Carries'
    BY <1>2, <2>5 DEF LoginTypeOK, Carries, SendPoll
  <2>6. ASSUME NEW p \in Polls, PollGet(p) PROVE Carries'
    BY <1>2, <2>6 DEF LoginTypeOK, Carries, PollGet
  <2>7. ASSUME NEW p \in Polls, PollDel(p) PROVE Carries'
    BY <1>2, <2>7 DEF LoginTypeOK, Carries, PollDel, Gone
  <2>8. ASSUME NEW p \in Polls, PollAnswer(p) PROVE Carries'
    BY <1>2, <2>8 DEF LoginTypeOK, Carries, PollAnswer, StopTimers
  <2>9. ASSUME NEW p \in Polls, LosePoll(p) PROVE Carries'
    BY <1>2, <2>9 DEF LoginTypeOK, Carries, LosePoll
  <2>10. CASE Scan
    BY <1>2, <2>10 DEF LoginTypeOK, Carries, Scan, OnPhone
  <2>11. CASE PhoneAsks
    BY <1>2, <2>11 DEF LoginTypeOK, Carries, PhoneAsks, OnPhone
  <2>12. CASE InfoGet
    BY <1>2, <2>12 DEF LoginTypeOK, Carries, InfoGet
  <2>13. CASE PhoneHears
    BY <1>2, <2>13 DEF LoginTypeOK, Carries, PhoneHears, OnPhone
  <2>14. ASSUME NEW a \in Approvals, Confirm(a) PROVE Carries'
    BY <1>2, <2>14 DEF LoginTypeOK, Carries, Confirm
  <2>15. ASSUME NEW a \in Approvals, LogIn(a) PROVE Carries'
    BY <1>2, <2>15 DEF LoginTypeOK, Carries, LogIn, BotIsBusy
  <2>16. ASSUME NEW a \in Approvals, ApproveGet(a) PROVE Carries'
    BY <1>2, <2>16 DEF LoginTypeOK, Carries, ApproveGet
  <2>17. ASSUME NEW a \in Approvals, ApproveTtl(a) PROVE Carries'
    BY <1>2, <2>17 DEF LoginTypeOK, Carries, ApproveTtl
  <2>18. ASSUME NEW a \in Approvals, ApproveSet(a) PROVE Carries'
    BY <1>2, <2>18 DEF LoginTypeOK, Carries, ApproveSet
  <2>19. ASSUME NEW a \in Approvals, Tell(a) PROVE Carries'
    BY <1>2, <2>19 DEF LoginTypeOK, Carries, Tell, Reply
  <2>20. CASE ApiDies
    BY <1>2, <2>20 DEF LoginTypeOK, Carries, ApiDies, Handling
  <2>21. CASE UNCHANGED loginVars
    BY <1>2, <2>21 DEF LoginTypeOK, Carries, loginVars
  <2>. QED
    BY <1>2, <2>1, <2>2, <2>3, <2>4, <2>5, <2>6, <2>7, <2>8, <2>9, <2>10, <2>11,
       <2>12, <2>13, <2>14, <2>15, <2>16, <2>17, <2>18, <2>19, <2>20, <2>21
    DEF LoginNext, Page, Poll, Phone, Approval
<1>. QED  BY QrLoginTypeOK, <1>1, <1>2, PTL DEF LoginSpec

\* A step that overlaps with nothing keeps to one login.
LEMMA StepOneLogin ==
  ASSUME LoginTypeOK, LoginTypeOK', LoginsApproved, Begins, Carries, Alone, OneLogin, Alone', [LoginNext]_loginVars
  PROVE  OneLogin'
<1>. USE QrLoginAssumption DEF keyVars, deskVars, pollVars, approvalVars, phoneVars, Deciding
<1>1. ASSUME UNCHANGED <<req, poll, got, signedAs>>, user' \in {user, NOBODY} PROVE OneLogin'
  BY <1>1 DEF OneLogin
<1>2. CASE Tick \/ Page \/ Phone \/ UNCHANGED loginVars
  BY <1>1, <1>2
  DEF loginVars, Tick, Gone, Page, Start, Show, StartFails, Phone, Scan, PhoneAsks, InfoGet,
      PhoneHears, OnPhone
<1>3. ASSUME NEW a \in Approvals, Tell(a) PROVE OneLogin'
  BY <1>1, <1>3 DEF Tell
<1>4. ASSUME NEW a \in Approvals, Confirm(a) \/ LogIn(a) \/ ApproveTtl(a) PROVE OneLogin'
  BY <1>4 DEF LoginTypeOK, OneLogin, Confirm, LogIn, ApproveTtl
<1>5. ASSUME NEW a \in Approvals, ApproveGet(a) PROVE OneLogin'
  BY <1>5 DEF LoginTypeOK, LoginsApproved, Approved, Begins, OneLogin, ApproveGet
<1>6. ASSUME NEW a \in Approvals, ApproveSet(a) PROVE OneLogin'
  BY <1>6 DEF LoginTypeOK, LoginsApproved, Approved, Alone, Handling, OneLogin, ApproveSet
<1>7. ASSUME NEW p \in Polls, SendPoll(p) PROVE OneLogin'
  BY <1>7 DEF LoginTypeOK, Carries, OneLogin, SendPoll
<1>8. ASSUME NEW p \in Polls, PollGet(p) PROVE OneLogin'
  BY <1>8 DEF LoginTypeOK, Carries, OneLogin, PollGet
<1>9. ASSUME NEW p \in Polls, PollDel(p) PROVE OneLogin'
  BY <1>9 DEF LoginTypeOK, OneLogin, PollDel, Gone
<1>10. ASSUME NEW p \in Polls, PollAnswer(p) PROVE OneLogin'
  BY <1>10 DEF LoginTypeOK, Alone, OneLogin, PollAnswer, StopTimers
<1>11. ASSUME NEW p \in Polls, LosePoll(p) PROVE OneLogin'
  BY <1>11 DEF LoginTypeOK, OneLogin, LosePoll
<1>12. CASE ApiDies
  BY <1>12 DEF LoginTypeOK, OneLogin, Handling, ApiDies
<1>. QED
  BY <1>2, <1>3, <1>4, <1>5, <1>6, <1>7, <1>8, <1>9, <1>10, <1>11, <1>12
  DEF LoginNext, Poll, Approval

\* The mailbox's invariant.
LEMMA QrLoginMailInv == LoginSpec => []MailInv
<1>1. ASSUME AgreeInv, LoginTypeOK', Carries, Serial, [LoginNext]_loginVars PROVE Serial'
  <2>1. ~overlapped' => ~overlapped /\ Alone'
    <3>1. CASE LoginNext
      BY <3>1 DEF LoginNext, NoteOverlap, Alone
    <3>2. CASE UNCHANGED loginVars
      BY <1>1, <3>2 DEF loginVars, approvalVars, pollVars, Serial, Alone
    <3>. QED  BY <1>1, <3>1, <3>2
  <2>2. ~overlapped' => OneLogin'
    BY <1>1, <2>1, StepOneLogin DEF AgreeInv, Serial
  <2>. QED  BY <2>1, <2>2 DEF Serial
<1>2. LoginInit => Serial
  BY MailInit
<1>. QED  BY QrLoginTypeOK, QrLoginAgreeInv, QrLoginCarries, <1>1, <1>2, PTL DEF LoginSpec, MailInv

\* Who is on the way is one person, the one in the key if the key has one too.
LEMMA OneHeld ==
  ASSUME Carries, Alone, NEW p \in Polls, got[p] # NOBODY
  PROVE  InHands = {got[p]} /\ (CHOOSE a \in InHands : TRUE) = got[p]
<1>1. \A q \in Polls : q # p => got[q] = NOBODY
  BY DEF Carries, Alone
<1>2. InHands = {got[p]}
  BY <1>1 DEF InHands
<1>3. \E a \in InHands : TRUE
  BY <1>2
<1>4. (CHOOSE a \in InHands : TRUE) \in InHands
  BY <1>3
<1>. QED  BY <1>2, <1>4

\* What the session looks like from outside hangs on these parts of the state alone.
LEMMA SameMail ==
  ASSUME UNCHANGED <<keyVars, signedAs, got>>, desk = "loading" <=> desk' = "loading",
         \A a \in Approvals : req[a] \in Deciding <=> req'[a] \in Deciding
  PROVE  UNCHANGED <<Stage, By>>
<1>1. InHands' = InHands
  BY DEF InHands
<1>2. By' = By
  BY <1>1 DEF By, keyVars
<1>3. Stage' = Stage
  BY <1>1 DEF Stage, keyVars, Deciding
<1>. QED  BY <1>2, <1>3

\* What it looks like, by who carries the login: the key, or a poll on its way back.
Has(a) == user = a \/ \E p \in Polls : got[p] = a

Looks ==
  desk # "loading" =>
    /\ signedAs # NOBODY => Stage = "delivered" /\ By = signedAs
    /\ signedAs = NOBODY =>
         /\ \A a \in Approvals : Has(a) => Stage = "approved" /\ By = a
         /\ (\A a \in Approvals : ~Has(a)) =>
              /\ By = NOBODY
              /\ Stage = IF status = "pending" \/ \E a \in Approvals : req[a] \in Deciding
                         THEN "pending" ELSE "gone"

LEMMA MailLooks == LoginTypeOK /\ Carries /\ Alone /\ OneLogin => Looks
<1>. SUFFICES ASSUME LoginTypeOK, Carries, Alone, OneLogin, desk # "loading" PROVE Looks
  BY DEF Looks
<1>. USE QrLoginAssumption
<1>1. signedAs # NOBODY => Stage = "delivered" /\ By = signedAs
  BY DEF Stage, By
<1>2. ASSUME signedAs = NOBODY, NEW a \in Approvals, Has(a) PROVE Stage = "approved" /\ By = a
  <2>1. CASE user = a
    BY <1>2, <2>1 DEF LoginTypeOK, Stage, By
  <2>2. ASSUME NEW p \in Polls, got[p] = a PROVE Stage = "approved" /\ By = a
    <3>1. InHands = {a} /\ (CHOOSE b \in InHands : TRUE) = a
      BY <2>2, OneHeld
    <3>2. status = "approved" => user = a
      BY <2>2 DEF LoginTypeOK, OneLogin
    <3>. QED  BY <1>2, <3>1, <3>2 DEF Stage, By
  <2>. QED  BY <1>2, <2>1, <2>2 DEF Has
<1>3. ASSUME signedAs = NOBODY, \A a \in Approvals : ~Has(a)
      PROVE  /\ By = NOBODY
             /\ Stage = IF status = "pending" \/ \E a \in Approvals : req[a] \in Deciding
                        THEN "pending" ELSE "gone"
  <2>1. InHands = {} /\ status # "approved"
    BY <1>3 DEF LoginTypeOK, InHands, Has
  <2>. QED  BY <1>3, <2>1 DEF Stage, By, Deciding
<1>. QED  BY <1>1, <1>2, <1>3 DEF Looks

LEMMA Loading == AgreeInv /\ Carries /\ desk = "loading" => Stage = "none" /\ By = NOBODY
BY QrLoginAssumption DEF AgreeInv, LoginTypeOK, Begins, Carries, Stage, By, InHands

\* A step that overlaps with nothing is a step of the one-shot mailbox, or none.
LEMMA MailStep ==
  ASSUME MailInv, MailInv', Looks, Looks', Alone, OneLogin, Alone', OneLogin', [LoginNext]_loginVars
  PROVE  [O!Next]_<<Stage, By>>
<1>. USE QrLoginAssumption DEF keyVars, deskVars, pollVars, approvalVars, phoneVars
<1>0. /\ LoginTypeOK /\ LoginsApproved /\ Begins /\ Carries
      /\ LoginTypeOK' /\ LoginsApproved' /\ Begins' /\ Carries'
      /\ desk = "loading" => Stage = "none" /\ By = NOBODY
  BY Loading DEF MailInv, AgreeInv
<1>1. CASE Start
  BY <1>0, <1>1 DEF Begins, Carries, Looks, Has, Start, O!Next, O!Open
<1>2. CASE StartFails
  <2>1. CASE desk = "loading"
    BY <1>0, <1>2, <2>1
    DEF LoginTypeOK, Begins, Carries, Looks, Has, Deciding, StartFails, O!Next, O!Drop
  <2>2. CASE desk = "opening"
    BY <1>2, <2>2, SameMail DEF StartFails
  <2>. QED  BY <1>2, <2>1, <2>2 DEF StartFails
<1>3. CASE Tick
  <2>1. CASE desk = "loading"
    BY <1>0, <1>3, <2>1, SameMail DEF LoginTypeOK, Begins, Tick
  <2>2. CASE desk # "loading" /\ signedAs # NOBODY
    BY <1>3, <2>2 DEF Looks, Tick
  <2>3. ASSUME desk # "loading", signedAs = NOBODY, NEW p \in Polls, got[p] # NOBODY
        PROVE  UNCHANGED <<Stage, By>>
    BY <1>0, <1>3, <2>3 DEF LoginTypeOK, Looks, Has, Tick
  <2>4. CASE desk # "loading" /\ signedAs = NOBODY /\ (\A p \in Polls : got[p] = NOBODY) /\ user # NOBODY
    BY <1>0, <1>3, <2>4
    DEF LoginTypeOK, LoginsApproved, Approved, OneLogin, Deciding, Looks, Has, Tick, Gone, O!Next, O!Drop
  <2>5. CASE desk # "loading" /\ signedAs = NOBODY /\ (\A p \in Polls : got[p] = NOBODY) /\ user = NOBODY
    BY <1>0, <1>3, <2>5 DEF LoginTypeOK, Looks, Has, Tick, Gone, O!Next, O!Drop
  <2>. QED  BY <2>1, <2>2, <2>3, <2>4, <2>5
<1>4. ASSUME NEW p \in Polls, PollGet(p) PROVE UNCHANGED <<Stage, By>>
  BY <1>0, <1>4 DEF LoginTypeOK, Begins, Carries, OneLogin, Looks, Has, PollGet
<1>5. ASSUME NEW p \in Polls, PollDel(p) PROVE UNCHANGED <<Stage, By>>
  BY <1>0, <1>5 DEF LoginTypeOK, Begins, Carries, OneLogin, Looks, Has, PollDel
<1>6. ASSUME NEW p \in Polls, PollAnswer(p) PROVE [O!Next]_<<Stage, By>>
  <2>1. CASE poll[p] = "approved"
    BY <1>0, <1>6, <2>1
    DEF LoginTypeOK, Begins, Carries, OneLogin, Looks, Has, PollAnswer, StopTimers, O!Next, O!Deliver
  <2>2. CASE poll[p] # "approved"
    BY <1>0, <1>6, <2>2, SameMail DEF LoginTypeOK, Begins, Carries, PollAnswer, StopTimers
  <2>. QED  BY <2>1, <2>2
<1>7. ASSUME NEW p \in Polls, LosePoll(p) PROVE [O!Next]_<<Stage, By>>
  <2>1. CASE got[p] = NOBODY
    BY <1>0, <1>7, <2>1, SameMail DEF LoginTypeOK, LosePoll
  <2>2. CASE got[p] # NOBODY /\ user # NOBODY
    BY <1>0, <1>7, <2>2 DEF LoginTypeOK, Begins, Carries, OneLogin, Looks, Has, LosePoll
  <2>3. CASE got[p] # NOBODY /\ user = NOBODY
    <3>1. req[got[p]] = "ok" /\ got[p] \in Approvals /\ desk # "loading" /\ signedAs = NOBODY
      BY <1>0, <1>7, <2>3 DEF LoginTypeOK, LoginsApproved, Approved, Begins, Carries, OneLogin, LosePoll
    <3>2. status # "pending" /\ \A a \in Approvals : req[a] \notin Deciding
      BY <1>0, <3>1 DEF Begins, OneLogin
    <3>3. \A q \in Polls : got'[q] = NOBODY
      BY <1>0, <1>7, <2>3 DEF LoginTypeOK, Carries, Alone, LosePoll
    <3>4. Stage = "approved"
      BY <1>7, <2>3, <3>1 DEF Looks, Has
    <3>5. Stage' = "gone" /\ By' = NOBODY
      BY <1>7, <2>3, <3>1, <3>2, <3>3 DEF Looks, Has, LosePoll
    <3>. QED  BY <3>4, <3>5 DEF O!Next, O!Drop
  <2>. QED  BY <2>1, <2>2, <2>3
<1>8. ASSUME NEW a \in Approvals, ApproveGet(a) PROVE UNCHANGED <<Stage, By>>
  BY <1>0, <1>8 DEF LoginTypeOK, LoginsApproved, Approved, Begins, Deciding, Looks, Has, ApproveGet
<1>9. ASSUME NEW a \in Approvals, ApproveSet(a) PROVE [O!Next]_<<Stage, By>>
  <2>1. desk # "loading" /\ signedAs = NOBODY /\ \A b \in Approvals : ~Has(b)
    BY <1>0, <1>9 DEF LoginTypeOK, LoginsApproved, Approved, Begins, OneLogin, Deciding, Has, ApproveSet
  <2>2. Stage = "pending" /\ By = NOBODY
    BY <1>9, <2>1 DEF Looks, Deciding, ApproveSet
  <2>3. Stage' = "approved" /\ By' = a
    BY <1>9, <2>1 DEF Looks, Has, ApproveSet
  <2>. QED  BY <2>2, <2>3 DEF O!Next, O!Approve
<1>10. CASE ApiDies
  <2>1. CASE desk = "loading"
    BY <1>0, <1>10, <2>1, SameMail DEF LoginTypeOK, Begins, Carries, Deciding, Handling, ApiDies
  <2>2. CASE desk # "loading" /\ signedAs # NOBODY
    BY <1>10, <2>2 DEF Looks, ApiDies
  <2>3. CASE desk # "loading" /\ signedAs = NOBODY /\ user # NOBODY
    BY <1>0, <1>10, <2>3 DEF LoginTypeOK, Looks, Has, ApiDies
  <2>4. CASE desk # "loading" /\ signedAs = NOBODY /\ user = NOBODY
    <3>1. \A a \in Approvals : req'[a] \notin Deciding /\ ~Has(a)'
      BY <1>0, <1>10, <2>4 DEF LoginTypeOK, Deciding, Handling, Has, ApiDies
    <3>2. Stage' = (IF status = "pending" THEN "pending" ELSE "gone") /\ By' = NOBODY
      BY <1>10, <2>4, <3>1 DEF Looks, ApiDies
    <3>3. CASE \A a \in Approvals : ~Has(a)
      BY <2>4, <3>2, <3>3 DEF Looks, O!Next, O!Drop
    <3>4. ASSUME NEW a \in Approvals, Has(a) PROVE [O!Next]_<<Stage, By>>
      <4>1. status # "pending"
        BY <1>0, <2>4, <3>4 DEF LoginTypeOK, LoginsApproved, Approved, Begins, Has
      <4>. QED  BY <2>4, <3>2, <3>4, <4>1 DEF Looks, O!Next, O!Drop
    <3>. QED  BY <3>3, <3>4
  <2>. QED  BY <2>1, <2>2, <2>3, <2>4
<1>11. ASSUME Show \/ Phone \/ \E p \in Polls : SendPoll(p) PROVE UNCHANGED <<Stage, By>>
  BY <1>11, SameMail DEF Show, SendPoll, Phone, Scan, PhoneAsks, InfoGet, PhoneHears, OnPhone
<1>12. ASSUME NEW a \in Approvals, Confirm(a) \/ LogIn(a) \/ ApproveTtl(a) \/ Tell(a)
       PROVE  UNCHANGED <<Stage, By>>
  BY <1>0, <1>12, SameMail DEF LoginTypeOK, Deciding, Confirm, LogIn, ApproveTtl, Tell
<1>13. CASE UNCHANGED loginVars
  BY <1>13, SameMail DEF loginVars
<1>. QED
  BY <1>1, <1>2, <1>3, <1>4, <1>5, <1>6, <1>7, <1>8, <1>9, <1>10, <1>11, <1>12, <1>13
  DEF LoginNext, Page, Poll, Approval

\* As long as no two approvals and no two polls have overlapped, a session is opened,
\* approved, delivered and dropped at most once and in that order: QrLoginService
\* implements the one-shot mailbox, whatever is lost, expires or dies.
THEOREM QrLoginOneShot == LoginSpec => OneShotSession
<1>1. LoginInit => O!Init
  BY QrLoginAssumption DEF LoginInit, Stage, By, InHands, O!Init
<1>2. ASSUME MailInv, MailInv', LoginTypeOK /\ Carries /\ Alone /\ OneLogin => Looks,
             (LoginTypeOK /\ Carries /\ Alone /\ OneLogin => Looks)', [LoginNext]_loginVars
      PROVE  [~overlapped' => O!Next]_<<Stage, By>>
  <2>. SUFFICES ASSUME ~overlapped' PROVE [O!Next]_<<Stage, By>>
    OBVIOUS
  <2>1. ~overlapped
    BY <1>2 DEF LoginNext, NoteOverlap, loginVars
  <2>2. /\ LoginTypeOK /\ Carries /\ Alone /\ OneLogin
        /\ LoginTypeOK' /\ Carries' /\ Alone' /\ OneLogin'
    BY <1>2, <2>1 DEF MailInv, AgreeInv, Serial
  <2>. QED  BY <1>2, <2>2, MailStep
<1>. QED  BY QrLoginMailInv, MailLooks, <1>1, <1>2, PTL DEF LoginSpec, OneShotSession
=============================================================================

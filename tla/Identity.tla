------------------------------ MODULE Identity ------------------------------
(***************************************************************************)
(* ContactResolver (apps/api/src/identity/contact-resolver.service.ts):    *)
(* find or create the one Contact a person's phones and emails belong to.  *)
(*                                                                         *)
(* The CRM worker resolves one payload after the other, so with one API    *)
(* process there is one resolver.  Resolvers has several members when the  *)
(* API is scaled out, or when a stalled job is taken up by a second        *)
(* process while the first still runs.  Every database call is a step of   *)
(* its own, and any of them may fail or be the last of its process.        *)
(***************************************************************************)
EXTENDS Naturals, Sequences, SequencesExt

CONSTANTS
  Raws,         \* [phones, emails] as the CRM sends them
  Values,       \* the strings in them
  Identifiers,  \* normalized phones and emails, each with its type
  Normal,       \* [Values -> Identifiers \cup {NONE}]: normalizePhoneNaive, normalizeEmail
  Contacts,     \* contact rows there may ever be
  Resolvers,    \* calls of resolve that may overlap
  NONE

\* One entry per identifier, in order of first appearance, phones before emails; what does not normalize is dropped.
NormalizeIdentifiers(raw) ==
  LET Set(out, v) ==
        IF Normal[v] = NONE \/ Contains(out, Normal[v]) THEN out ELSE Append(out, Normal[v])
  IN FoldLeft(Set, <<>>, raw.phones \o raw.emails)

ASSUME IdentityAssumption ==
  /\ NONE \notin Identifiers \cup Contacts
  /\ Normal \in [Values -> Identifiers \cup {NONE}]
  /\ \A raw \in Raws : raw.phones \in Seq(Values) /\ raw.emails \in Seq(Values)

VARIABLES
  rows,      \* Contact rows
  owner,     \* [Identifiers -> Contacts \cup {NONE}], the ContactIdentifier rows
  pc,        \* [Resolvers -> "idle" | "lookup" | "create" | "attach"]
  ids,       \* [Resolvers -> Seq(Identifiers)], the identifiers of the call
  at,        \* [Resolvers -> Nat], the index of the loop
  found,     \* [Resolvers -> Contacts \cup {NONE}], the contact attached to
  beaten,    \* history: another call has attached an identifier of this one
  returned   \* history: what calls that were not beaten have returned

vars == <<rows, owner, pc, ids, at, found, beaten, returned>>

Init ==
  /\ rows = {}
  /\ owner = [i \in Identifiers |-> NONE]
  /\ pc = [r \in Resolvers |-> "idle"]
  /\ ids = [r \in Resolvers |-> <<>>]
  /\ at = [r \in Resolvers |-> 1]
  /\ found = [r \in Resolvers |-> NONE]
  /\ beaten = [r \in Resolvers |-> FALSE]
  /\ returned = {}

Goto(r, label) == pc' = [pc EXCEPT ![r] = label]

\* A payload without a usable identifier returns null at once and changes nothing.
Start(r, raw) ==
  /\ pc[r] = "idle"
  /\ NormalizeIdentifiers(raw) # <<>>
  /\ Goto(r, "lookup")
  /\ ids' = [ids EXCEPT ![r] = NormalizeIdentifiers(raw)]
  /\ at' = [at EXCEPT ![r] = 1]
  /\ UNCHANGED <<rows, owner, found, beaten, returned>>

Here(r) == ids[r][at[r]]

\* findUnique meets an identifier somebody owns: its owner is the contact.
LookupHits(r) ==
  /\ pc[r] = "lookup" /\ owner[Here(r)] # NONE
  /\ found' = [found EXCEPT ![r] = owner[Here(r)]]
  /\ at' = [at EXCEPT ![r] = 1]
  /\ Goto(r, "attach")
  /\ UNCHANGED <<rows, owner, ids, beaten, returned>>

LookupMisses(r) ==
  /\ pc[r] = "lookup" /\ owner[Here(r)] = NONE
  /\ IF at[r] < Len(ids[r])
       THEN at' = [at EXCEPT ![r] = @ + 1] /\ Goto(r, "lookup")
       ELSE at' = [at EXCEPT ![r] = 1] /\ Goto(r, "create")
  /\ UNCHANGED <<rows, owner, ids, found, beaten, returned>>

\* Mutant: the contact of another person with the same name is taken.
CreateByName(r, c) ==
  /\ pc[r] = "create"
  /\ rows' = rows \cup {c}
  /\ found' = [found EXCEPT ![r] = c]
  /\ Goto(r, "attach")
  /\ UNCHANGED <<owner, ids, at, beaten, returned>>

Create(r, c) ==
  /\ pc[r] = "create" /\ c \notin rows
  /\ rows' = rows \cup {c}
  /\ found' = [found EXCEPT ![r] = c]
  /\ Goto(r, "attach")
  /\ UNCHANGED <<owner, ids, at, beaten, returned>>

Busy(q) == pc[q] # "idle"

\* The call is over and its locals with it.
DropLocals(r) ==
  /\ Goto(r, "idle")
  /\ ids' = [ids EXCEPT ![r] = <<>>]
  /\ at' = [at EXCEPT ![r] = 1]
  /\ found' = [found EXCEPT ![r] = NONE]

\* The upsert of one identifier leaves the owner table as `table`; the loop goes on or the call returns.
Upserted(r, table) ==
  /\ owner' = table
  /\ IF at[r] < Len(ids[r])
       THEN /\ at' = [at EXCEPT ![r] = @ + 1]
            /\ UNCHANGED <<pc, ids, found, returned>>
       ELSE /\ DropLocals(r)
            /\ returned' = IF beaten[r] THEN returned
                           ELSE returned \cup {[ids |-> ids[r], contact |-> found[r]]}
  /\ beaten' = [q \in Resolvers |->
       IF q = r THEN beaten[q] /\ at[r] < Len(ids[r])
       ELSE beaten[q] \/ (owner[Here(r)] = NONE /\ Contains(ids[q], Here(r)))]
  /\ UNCHANGED rows

\* Mutant: the upsert moves an identifier that has an owner.
AttachMoves(r) ==
  /\ pc[r] = "attach"
  /\ Upserted(r, [owner EXCEPT ![Here(r)] = found[r]])

\* upsert with an empty update: the first owner stays.
Attach(r) ==
  /\ pc[r] = "attach"
  /\ Upserted(r, [owner EXCEPT ![Here(r)] = IF @ = NONE THEN found[r] ELSE @])

\* A database call throws or the process dies: what is written stays.
Fails(r) ==
  /\ Busy(r)
  /\ DropLocals(r)
  /\ beaten' = [beaten EXCEPT ![r] = FALSE]
  /\ UNCHANGED <<rows, owner, returned>>

Next ==
  \E r \in Resolvers :
    \/ \E raw \in Raws : Start(r, raw)
    \/ LookupHits(r) \/ LookupMisses(r)
    \/ \E c \in Contacts : Create(r, c)
    \/ Attach(r)
    \/ Fails(r)

Spec == Init /\ [][Next]_vars

-----------------------------------------------------------------------------
TypeOK ==
  /\ rows \subseteq Contacts
  /\ owner \in [Identifiers -> rows \cup {NONE}]
  /\ pc \in [Resolvers -> {"idle", "lookup", "create", "attach"}]
  /\ ids \in [Resolvers -> Seq(Identifiers)]
  /\ at \in [Resolvers -> Nat]
  /\ \A r \in Resolvers : Busy(r) => at[r] \in 1..Len(ids[r])
  /\ found \in [Resolvers -> rows \cup {NONE}]
  /\ \A r \in Resolvers : (pc[r] = "attach") <=> (found[r] # NONE)
  /\ beaten \in [Resolvers -> BOOLEAN]
  /\ returned \subseteq [ids : Seq(Identifiers), contact : rows]

\* What resolve was promised to make idempotent: whoever was resolved once is resolved to the same contact
\* ever after, because the first identifier of the payload is that contact's for good; failed calls, other
\* payloads that share identifiers, and the order of lookups do not matter.  Only a call that was overtaken
\* by another one with an identifier of its own may return a contact it does not find again.
FirstIdentifierDecides ==
  \A call \in returned : owner[call.ids[1]] = call.contact

\* Sets of identifiers that every payload either lies in or avoids.
Closed == {S \in SUBSET Identifiers : \A raw \in Raws :
             \/ Range(NormalizeIdentifiers(raw)) \subseteq S
             \/ Range(NormalizeIdentifiers(raw)) \cap S = {}}

\* Identifiers that no chain of payloads links never belong to one contact: whatever
\* calls interleave or fail, a set that no payload crosses shares no contact with the rest.
NoStrangers ==
  \A S \in Closed : \A i \in S, j \in Identifiers \ S : owner[i] # NONE => owner[i] # owner[j]

\* Refuted, also with one resolver: a payload that links two contacts joins neither.
OneContactPerPerson ==
  \A a, b \in returned :
    (\E n \in DOMAIN a.ids, k \in DOMAIN b.ids : a.ids[n] = b.ids[k]) => a.contact = b.contact
=============================================================================

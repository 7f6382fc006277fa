--------------------------- MODULE IdentityProofs ---------------------------
(***************************************************************************)
(* Proofs about Identity for any payloads and any number of resolvers:     *)
(* types, idempotence (FirstIdentifierDecides) and that unrelated people   *)
(* are never joined (NoStrangers).                                         *)
(***************************************************************************)
EXTENDS Identity, FiniteSetTheorems, TLAPS

First(r) == ids[r][1]

\* A call that has passed its first identifier found it free, and so it is unless another call has taken it.
FirstFreeOf(r) ==
  /\ (~beaten[r] /\ (pc[r] = "create" \/ (pc[r] = "lookup" /\ at[r] > 1))) => owner[First(r)] = NONE
  /\ (pc[r] = "create") => (at[r] = 1)

\* While a call attaches, its first identifier is its contact's, or about to be.
FirstMineOf(r) ==
  (~beaten[r] /\ pc[r] = "attach") =>
     \/ owner[First(r)] = found[r]
     \/ at[r] = 1 /\ owner[First(r)] = NONE

FirstFree == \A r \in Resolvers : FirstFreeOf(r)
FirstMine == \A r \in Resolvers : FirstMineOf(r)

ReturnedNonEmpty == \A call \in returned : call.ids # <<>>

FirstInv == FirstFree /\ FirstMine /\ ReturnedNonEmpty /\ FirstIdentifierDecides

\* The identifiers of a call are those of a payload.
Payloads == {NormalizeIdentifiers(raw) : raw \in Raws}
CallsPayloads == \A r \in Resolvers : Busy(r) => ids[r] \in Payloads

\* What belongs to one contact, or is about to, lies on one side of S.
OwnersOneSide(S) == \A i \in S, j \in Identifiers \ S : owner[i] # NONE => owner[i] # owner[j]
FoundOneSide(S) ==
  \A r \in Resolvers, i \in Identifiers :
    (found[r] # NONE /\ owner[i] = found[r]) => (i \in S <=> First(r) \in S)
CallsOneSide(S) ==
  \A r, q \in Resolvers :
    (found[r] # NONE /\ found[r] = found[q]) => (First(r) \in S <=> First(q) \in S)
OneSide(S) == OwnersOneSide(S) /\ FoundOneSide(S) /\ CallsOneSide(S)

-----------------------------------------------------------------------------
(* What NormalizeIdentifiers returns: a fold over the positions of a list, *)
(* the last of a set of positions first.  In place of an induction each    *)
(* lemma looks at the smallest number or set it would fail for.            *)

\* A set of numbers has a least one.
LEMMA LeastNumber ==
  ASSUME NEW T \in SUBSET Nat, T # {}
  PROVE  \E x \in T : \A y \in T : x <= y
<1>. DEFINE R == OpToRel(<, Nat)
<1>1. IsWellFoundedOn(R, Nat)
  BY NatLessThanWellFounded
<1>2. \A x, y \in Nat : x < y => <<x, y>> \in R
  BY DEF OpToRel
<1>. HIDE DEF R
<1>3. PICK x \in T : \A y \in T : <<y, x>> \notin R
  BY <1>1, WFMin
<1>4. \A y \in T : ~(y < x)
  BY <1>2, <1>3
<1>. QED  BY <1>4

\* Positions have a last one.
LEMMA LastPosition ==
  ASSUME NEW n \in Nat, NEW s \in SUBSET (1..n), s # {}
  PROVE  Max(s) \in s
<1>. DEFINE Bounds == {m \in Nat : \A y \in s : y <= m}
<1>1. n \in Bounds
  OBVIOUS
<1>2. PICK m \in Bounds : \A y \in Bounds : m <= y
  BY <1>1, LeastNumber
<1>3. m \in s
  <2>1. SUFFICES ASSUME m \notin s PROVE FALSE
    OBVIOUS
  <2>2. PICK e \in s : TRUE
    OBVIOUS
  <2>3. m >= 1
    BY <1>2, <2>2
  <2>4. m - 1 \in Bounds
    BY <1>2, <2>1, <2>3
  <2>. QED  BY <1>2, <2>4
<1>4. \A y \in s : m >= y
  BY <1>2
<1>. QED  BY <1>3, <1>4 DEF Max

\* The step of the fold (Set), and the table the fold makes of its parts.
WithOne(out, v) == IF Normal[v] = NONE \/ Contains(out, Normal[v]) THEN out ELSE Append(out, Normal[v])
Folding(list, D, it) ==
  it = [s \in SUBSET D |-> IF s = {} THEN <<>> ELSE WithOne(it[s \ {Max(s)}], list[Max(s)])]

\* NormalizeIdentifiers is the entry of the whole list in that table.
LEMMA NormalizeIsFold ==
  ASSUME NEW raw
  PROVE  LET list == raw.phones \o raw.emails
         IN NormalizeIdentifiers(raw) = (CHOOSE it : Folding(list, DOMAIN list, it))[DOMAIN list]
BY DEF NormalizeIdentifiers, FoldLeft, MapThenFoldSet, Folding, WithOne

\* One step keeps a list of identifiers.
LEMMA OneKeepsIdentifiers ==
  ASSUME NEW out \in Seq(Identifiers), NEW v \in Values
  PROVE  WithOne(out, v) \in Seq(Identifiers)
<1>1. Normal[v] # NONE => Normal[v] \in Identifiers
  BY IdentityAssumption
<1>. QED  BY <1>1 DEF WithOne

\* The equation of the table, up to a size.
FoldingUpTo(list, D, it, n) ==
  /\ it \in [SUBSET D -> Seq(Identifiers)]
  /\ \A s \in SUBSET D : Cardinality(s) <= n =>
       it[s] = IF s = {} THEN <<>> ELSE WithOne(it[s \ {Max(s)}], list[Max(s)])

\* One size more.
LEMMA FoldingUpToOneMore ==
  ASSUME NEW list \in Seq(Values), NEW n \in Nat, NEW it, FoldingUpTo(list, DOMAIN list, it, n)
  PROVE  \E more : FoldingUpTo(list, DOMAIN list, more, n + 1)
<1>. DEFINE D == DOMAIN list
            Entry(s) == IF Cardinality(s) = n + 1 THEN WithOne(it[s \ {Max(s)}], list[Max(s)]) ELSE it[s]
            more == [s \in SUBSET D |-> Entry(s)]
<1>1. D = 1..Len(list) /\ Len(list) \in Nat /\ IsFiniteSet(D)
  BY FS_Interval
<1>2. ASSUME NEW s \in SUBSET D
      PROVE  /\ Cardinality(s) \in Nat /\ (s = {} <=> Cardinality(s) = 0)
             /\ s # {} => /\ Cardinality(s \ {Max(s)}) = Cardinality(s) - 1
                          /\ s \ {Max(s)} \in SUBSET D /\ list[Max(s)] \in Values
  <2>1. IsFiniteSet(s)
    BY <1>1, FS_Subset
  <2>2. s # {} => Max(s) \in s
    BY <1>1, LastPosition
  <2>3. s # {} => list[Max(s)] \in Values
    BY <1>1, <2>2
  <2>. QED  BY <2>1, <2>2, <2>3, FS_CardinalityType, FS_EmptySet, FS_RemoveElement
<1>3. \A s \in SUBSET D : it[s] \in Seq(Identifiers)
  BY DEF FoldingUpTo
<1>10. \A s \in SUBSET D : Cardinality(s) \in Nat /\ (Cardinality(s) = n + 1 => s # {})
  <2>1. TAKE s \in SUBSET D
  <2>2. Cardinality(s) \in Nat /\ (s = {} <=> Cardinality(s) = 0)
    BY <1>2
  <2>3. n + 1 # 0
    OBVIOUS
  <2>. HIDE DEF D
  <2>. QED  BY <2>2, <2>3
<1>. HIDE DEF D
<1>4. ASSUME NEW s \in SUBSET D
      PROVE  Entry(s) \in Seq(Identifiers)
  <2>1. CASE Cardinality(s) = n + 1
    <3>1. s # {}
      BY <1>10, <2>1
    <3>2. it[s \ {Max(s)}] \in Seq(Identifiers) /\ list[Max(s)] \in Values
      BY <1>2, <1>3, <3>1
    <3>3. WithOne(it[s \ {Max(s)}], list[Max(s)]) \in Seq(Identifiers)
      BY <3>2, OneKeepsIdentifiers
    <3>. QED  BY <2>1, <3>3
  <2>2. CASE Cardinality(s) # n + 1
    BY <1>3, <2>2
  <2>. QED  BY <2>1, <2>2
<1>5. \A s \in SUBSET D : more[s] = Entry(s)
  OBVIOUS
<1>6. more \in [SUBSET D -> Seq(Identifiers)]
  BY <1>4
<1>7. \A s \in SUBSET D : Cardinality(s) # n + 1 => more[s] = it[s]
  BY <1>5
<1>8. \A s \in SUBSET D : Cardinality(s) = n + 1 => more[s] = WithOne(it[s \ {Max(s)}], list[Max(s)])
  BY <1>5
<1>. HIDE DEF more, Entry
<1>9. ASSUME NEW s \in SUBSET D, Cardinality(s) <= n + 1
      PROVE  more[s] = IF s = {} THEN <<>> ELSE WithOne(more[s \ {Max(s)}], list[Max(s)])
  <2>1. s # {} => more[s \ {Max(s)}] = it[s \ {Max(s)}]
    BY <1>2, <1>7, <1>9
  <2>2. CASE Cardinality(s) = n + 1
    BY <1>10, <1>8, <2>1, <2>2
  <2>3. CASE Cardinality(s) # n + 1
    <3>1. Cardinality(s) <= n
      BY <1>10, <1>9, <2>3
    <3>2. it[s] = IF s = {} THEN <<>> ELSE WithOne(it[s \ {Max(s)}], list[Max(s)])
      BY <3>1 DEF FoldingUpTo, D
    <3>. QED  BY <1>7, <2>1, <2>3, <3>2
  <2>. QED  BY <2>2, <2>3
<1>. QED  BY <1>6, <1>9 DEF FoldingUpTo, D

\* So there is such a table, of identifiers.
LEMMA FoldingExists ==
  ASSUME NEW list \in Seq(Values)
  PROVE  \E it : Folding(list, DOMAIN list, it)
<1>. DEFINE D == DOMAIN list
            Missing == {n \in Nat : ~ \E it : FoldingUpTo(list, D, it, n)}
<1>0. IsFiniteSet(D)
  <2>1. D = 1..Len(list) /\ Len(list) \in Nat
    OBVIOUS
  <2>. QED  BY <2>1, FS_Interval
<1>1. Missing = {}
  <2>1. SUFFICES ASSUME Missing # {} PROVE FALSE
    OBVIOUS
  <2>2. PICK n \in Missing : \A m \in Missing : n <= m
    BY <2>1, LeastNumber
  <2>3. FoldingUpTo(list, D, [s \in SUBSET D |-> <<>>], 0)
    <3>1. \A s \in SUBSET D : Cardinality(s) \in Nat /\ (Cardinality(s) = 0 => s = {})
      BY <1>0, FS_Subset, FS_CardinalityType, FS_EmptySet
    <3>2. \A s \in SUBSET D : Cardinality(s) <= 0 => s = {}
      BY <3>1
    <3>. QED  BY <3>2 DEF FoldingUpTo
  <2>4. n # 0
    BY <2>3
  <2>5. n - 1 \in Nat /\ n - 1 \notin Missing
    BY <2>2, <2>4
  <2>6. PICK it : FoldingUpTo(list, D, it, n - 1)
    BY <2>5
  <2>7. \E more : FoldingUpTo(list, D, more, (n - 1) + 1)
    BY <2>5, <2>6, FoldingUpToOneMore
  <2>. QED  BY <2>2, <2>7
<1>2. Cardinality(D) \in Nat
  BY <1>0, FS_CardinalityType
<1>3. PICK it : FoldingUpTo(list, D, it, Cardinality(D))
  BY <1>1, <1>2
<1>4. \A s \in SUBSET D : Cardinality(s) <= Cardinality(D)
  BY <1>0, FS_Subset
<1>5. \A s \in SUBSET D : it[s] = IF s = {} THEN <<>> ELSE WithOne(it[s \ {Max(s)}], list[Max(s)])
  BY <1>3, <1>4 DEF FoldingUpTo
<1>6. it \in [SUBSET D -> Seq(Identifiers)]
  BY <1>3 DEF FoldingUpTo
<1>. QED  BY <1>5, <1>6 DEF Folding

\* Every entry of such a table is a list of identifiers: a smallest set of positions whose entry is not
\* would be one step from one that is.
LEMMA FoldingIsIdentifiers ==
  ASSUME NEW list \in Seq(Values), NEW it, Folding(list, DOMAIN list, it)
  PROVE  it[DOMAIN list] \in Seq(Identifiers)
<1>. DEFINE D == DOMAIN list
            Bad == {s \in SUBSET D : it[s] \notin Seq(Identifiers)}
<1>1. D = 1..Len(list) /\ Len(list) \in Nat /\ IsFiniteSet(D)
  BY FS_Interval
<1>2. \A s \in SUBSET D : it[s] = IF s = {} THEN <<>> ELSE WithOne(it[s \ {Max(s)}], list[Max(s)])
  BY DEF Folding
<1>3. ASSUME Bad # {} PROVE FALSE
  <2>. DEFINE R == StrictSubsetOrdering(D)
  <2>1. IsWellFoundedOn(R, SUBSET D)
    BY <1>1, FS_StrictSubsetOrderingWellFounded, FS_FiniteSubsetsOfFinite
  <2>2. \A u, s \in SUBSET D : u \subseteq s /\ u # s => <<u, s>> \in R
    BY DEF StrictSubsetOrdering
  <2>3. Bad \in SUBSET SUBSET D
    OBVIOUS
  <2>4. PICK s \in Bad : \A u \in Bad : <<u, s>> \notin R
    <3>. HIDE DEF R, Bad
    <3>. QED  BY <1>3, <2>1, <2>3, WFMin
  <2>5. s # {}
    <3>1. it[{}] = <<>>
      BY <1>2
    <3>2. <<>> \in Seq(Identifiers)
      OBVIOUS
    <3>. QED  BY <2>4, <3>1, <3>2
  <2>6. Max(s) \in s
    BY <1>1, <2>4, <2>5, LastPosition
  <2>7. list[Max(s)] \in Values
    BY <1>1, <2>4, <2>6
  <2>8. it[s \ {Max(s)}] \in Seq(Identifiers)
    <3>1. s \ {Max(s)} \in SUBSET D /\ s \ {Max(s)} # s
      BY <2>4, <2>6
    <3>2. <<s \ {Max(s)}, s>> \in R
      BY <2>2, <2>4, <3>1
    <3>. HIDE DEF R
    <3>. QED  BY <2>4, <3>1, <3>2
  <2>. QED  BY <1>2, <2>4, <2>5, <2>7, <2>8, OneKeepsIdentifiers
<1>. QED  BY <1>3

\* The identifiers of a payload, by the class's own loop over phones and emails.
LEMMA NormalizeReturnsIdentifiers ==
  ASSUME NEW raw \in Raws
  PROVE  NormalizeIdentifiers(raw) \in Seq(Identifiers)
<1>. DEFINE list == raw.phones \o raw.emails
            it == CHOOSE it : Folding(list, DOMAIN list, it)
<1>1. list \in Seq(Values)
  BY IdentityAssumption
<1>. HIDE DEF list
<1>2. Folding(list, DOMAIN list, it)
  BY <1>1, FoldingExists
<1>3. NormalizeIdentifiers(raw) = it[DOMAIN list]
  BY NormalizeIsFold DEF list
<1>. HIDE DEF it
<1>. QED  BY <1>1, <1>2, <1>3, FoldingIsIdentifiers

-----------------------------------------------------------------------------
\* Extensionality of a table with one entry replaced.
LEMMA TableUpdate ==
  ASSUME NEW I, NEW D, NEW f \in [I -> D], NEW i \in I, NEW v
  PROVE  /\ [f EXCEPT ![i] = v][i] = v
         /\ \A j \in I : j # i => [f EXCEPT ![i] = v][j] = f[j]
OBVIOUS

\* Every identifier of a payload is in a closed set or none is.
LEMMA PayloadOneSide ==
  ASSUME NEW S \in Closed, NEW p \in Payloads,
         NEW n \in 1..Len(p), NEW k \in 1..Len(p)
  PROVE  p[n] \in S <=> p[k] \in S
<1>1. PICK raw \in Raws : p = NormalizeIdentifiers(raw)
  BY DEF Payloads
<1>2. p \in Seq(Identifiers)
  BY <1>1, NormalizeReturnsIdentifiers
<1>3. p[n] \in Range(p) /\ p[k] \in Range(p)
  BY <1>2 DEF Range
<1>4. Range(p) \subseteq S \/ Range(p) \cap S = {}
  BY <1>1 DEF Closed
<1>. QED  BY <1>3, <1>4

-----------------------------------------------------------------------------
LEMMA TypeInit == ASSUME Init PROVE TypeOK
BY IdentityAssumption DEF Init, TypeOK, Busy

\* Start makes a call whose identifiers are a payload's.
LEMMA StartType ==
  ASSUME TypeOK, NEW r \in Resolvers, NEW raw \in Raws, Start(r, raw)
  PROVE  TypeOK'
<1>1. NormalizeIdentifiers(raw) \in Seq(Identifiers) /\ NormalizeIdentifiers(raw) # <<>>
  BY NormalizeReturnsIdentifiers DEF Start
<1>. DEFINE p == NormalizeIdentifiers(raw)
<1>. HIDE DEF p
<1>2. p \in Seq(Identifiers) /\ p # <<>> /\ 1 \in 1..Len(p)
  BY <1>1 DEF p
<1>3. /\ pc' = [pc EXCEPT ![r] = "lookup"] /\ ids' = [ids EXCEPT ![r] = p]
      /\ at' = [at EXCEPT ![r] = 1] /\ pc[r] = "idle"
      /\ UNCHANGED <<rows, owner, found, beaten, returned>>
  BY DEF Start, Goto, p
<1>. QED  BY <1>2, <1>3 DEF TypeOK, Busy

LEMMA TypeStep ==
  ASSUME TypeOK, [Next]_vars
  PROVE  TypeOK'
<1>1. CASE UNCHANGED vars
  BY <1>1 DEF TypeOK, vars, Busy
<1>. SUFFICES ASSUME Next PROVE TypeOK'
  BY <1>1
<1>. PICK r \in Resolvers :
       \/ \E raw \in Raws : Start(r, raw)
       \/ LookupHits(r) \/ LookupMisses(r)
       \/ \E c \in Contacts : Create(r, c)
       \/ Attach(r)
       \/ Fails(r)
  BY DEF Next
<1>2. CASE \E raw \in Raws : Start(r, raw)
  BY <1>2, StartType
<1>3. CASE LookupHits(r)
  <2>1. at[r] \in 1..Len(ids[r]) /\ ids[r] \in Seq(Identifiers) /\ 1 \in 1..Len(ids[r])
    BY <1>3 DEF LookupHits, TypeOK, Busy
  <2>2. Here(r) \in Identifiers /\ owner[Here(r)] \in rows
    BY <2>1, <1>3 DEF LookupHits, TypeOK, Here
  <2>. QED  BY <2>1, <2>2, <1>3 DEF LookupHits, TypeOK, Goto, Busy
<1>4. CASE LookupMisses(r)
  <2>1. at[r] \in 1..Len(ids[r]) /\ ids[r] \in Seq(Identifiers) /\ Len(ids[r]) \in Nat
    BY <1>4 DEF LookupMisses, TypeOK, Busy
  <2>2. 1 \in 1..Len(ids[r]) /\ pc[r] = "lookup"
    BY <2>1, <1>4 DEF LookupMisses
  <2>3. UNCHANGED <<rows, owner, ids, found, beaten, returned>>
    BY <1>4 DEF LookupMisses
  <2>4. CASE at[r] < Len(ids[r])
    <3>1. at' = [at EXCEPT ![r] = at[r] + 1] /\ pc' = [pc EXCEPT ![r] = "lookup"]
      BY <2>4, <1>4 DEF LookupMisses, Goto
    <3>2. at[r] + 1 \in 1..Len(ids[r])
      BY <2>1, <2>4
    <3>. QED  BY <2>1, <2>2, <2>3, <3>1, <3>2 DEF TypeOK, Busy
  <2>5. CASE ~(at[r] < Len(ids[r]))
    <3>1. at' = [at EXCEPT ![r] = 1] /\ pc' = [pc EXCEPT ![r] = "create"]
      BY <2>5, <1>4 DEF LookupMisses, Goto
    <3>. QED  BY <2>1, <2>2, <2>3, <3>1 DEF TypeOK, Busy
  <2>. QED  BY <2>4, <2>5
<1>5. CASE \E c \in Contacts : Create(r, c)
  <2>. PICK c \in Contacts : Create(r, c)
    BY <1>5
  <2>1. c # NONE
    BY IdentityAssumption
  <2>. QED  BY <2>1 DEF Create, TypeOK, Goto, Busy
<1>6. CASE Attach(r)
  <2>1. /\ at[r] \in 1..Len(ids[r]) /\ ids[r] \in Seq(Identifiers) /\ Len(ids[r]) \in Nat
        /\ found[r] \in rows
    BY <1>6 DEF Attach, TypeOK, Busy
  <2>2. Here(r) \in Identifiers
    BY <2>1 DEF Here
  <2>3. owner' \in [Identifiers -> rows' \cup {NONE}] /\ rows' = rows
    BY <2>1, <2>2, <1>6 DEF Attach, Upserted, TypeOK
  <2>4. beaten' \in [Resolvers -> BOOLEAN]
    BY <1>6 DEF Attach, Upserted, TypeOK, Contains
  <2>5. CASE at[r] < Len(ids[r])
    <3>1. /\ at' = [at EXCEPT ![r] = at[r] + 1] /\ UNCHANGED <<pc, ids, found, returned>>
          /\ pc[r] = "attach"
      BY <2>5, <1>6 DEF Attach, Upserted
    <3>2. at[r] + 1 \in 1..Len(ids[r])
      BY <2>1, <2>5
    <3>. QED  BY <2>1, <2>3, <2>4, <3>1, <3>2 DEF TypeOK, Busy
  <2>6. CASE ~(at[r] < Len(ids[r]))
    <3>1. /\ pc' = [pc EXCEPT ![r] = "idle"] /\ ids' = [ids EXCEPT ![r] = <<>>]
          /\ at' = [at EXCEPT ![r] = 1] /\ found' = [found EXCEPT ![r] = NONE]
      BY <2>6, <1>6 DEF Attach, Upserted, DropLocals, Goto
    <3>2. returned' \subseteq [ids : Seq(Identifiers), contact : rows]
      BY <2>1, <2>6, <1>6 DEF Attach, Upserted, TypeOK
    <3>. QED  BY <2>1, <2>3, <2>4, <3>1, <3>2 DEF TypeOK, Busy
  <2>. QED  BY <2>5, <2>6
<1>7. CASE Fails(r)
  BY <1>7 DEF Fails, DropLocals, Goto, TypeOK, Busy
<1>. QED  BY <1>2, <1>3, <1>4, <1>5, <1>6, <1>7

\* The variables of Identity keep their types; a loop index never leaves its payload.
THEOREM IdentityTypeOK == Spec => []TypeOK
<1>1. Init => TypeOK
  BY TypeInit
<1>2. TypeOK /\ [Next]_vars => TypeOK'
  BY TypeStep
<1>. QED  BY <1>1, <1>2, PTL DEF Spec

-----------------------------------------------------------------------------
\* What a busy call has in hand.
LEMMA BusyCall ==
  ASSUME TypeOK, NEW r \in Resolvers, Busy(r)
  PROVE  /\ ids[r] \in Seq(Identifiers) /\ Len(ids[r]) \in Nat
         /\ at[r] \in 1..Len(ids[r]) /\ 1 \in 1..Len(ids[r])
         /\ Here(r) \in Identifiers /\ First(r) \in Identifiers
BY DEF TypeOK, Here, First

\* The upsert takes a free identifier for its contact and changes no other.
LEMMA AttachOwner ==
  ASSUME TypeOK, NEW r \in Resolvers, Attach(r)
  PROVE  /\ owner'[Here(r)] = IF owner[Here(r)] = NONE THEN found[r] ELSE owner[Here(r)]
         /\ \A i \in Identifiers : i # Here(r) => owner'[i] = owner[i]
         /\ \A i \in Identifiers : owner[i] # NONE => owner'[i] = owner[i]
<1>1. Here(r) \in Identifiers
  BY BusyCall DEF Attach, Busy
<1>2. owner' = [owner EXCEPT ![Here(r)] = IF owner[Here(r)] = NONE THEN found[r] ELSE owner[Here(r)]]
  BY DEF Attach, Upserted
<1>. QED  BY <1>1, <1>2 DEF TypeOK

\* It leaves the other calls alone, but for the mark on those that share the identifier.
LEMMA AttachOthers ==
  ASSUME TypeOK, NEW r \in Resolvers, Attach(r), NEW q \in Resolvers, q # r
  PROVE  /\ pc'[q] = pc[q] /\ ids'[q] = ids[q] /\ at'[q] = at[q] /\ found'[q] = found[q]
         /\ (~beaten'[q]) => (~beaten[q])
         /\ (~beaten'[q]) => (owner[Here(r)] # NONE \/ ~Contains(ids[q], Here(r)))
<1>1. beaten'[q] <=> (beaten[q] \/ (owner[Here(r)] = NONE /\ Contains(ids[q], Here(r))))
  BY DEF Attach, Upserted, TypeOK
<1>2. pc'[q] = pc[q] /\ ids'[q] = ids[q] /\ at'[q] = at[q] /\ found'[q] = found[q]
  BY DEF Attach, Upserted, DropLocals, Goto, TypeOK
<1>. QED  BY <1>1, <1>2

\* A busy call that nobody has beaten sees its first identifier change by its own hand only.
LEMMA FirstStays ==
  ASSUME TypeOK, NEW r \in Resolvers, Attach(r), NEW q \in Resolvers, q # r, Busy(q), ~beaten'[q]
  PROVE  owner'[First(q)] = owner[First(q)]
<1>1. First(q) \in Identifiers /\ 1 \in 1..Len(ids[q])
  BY BusyCall
<1>2. CASE First(q) # Here(r)
  BY <1>1, <1>2, AttachOwner
<1>3. CASE First(q) = Here(r)
  <2>1. Contains(ids[q], Here(r))
    BY <1>1, <1>3 DEF Contains, First
  <2>2. owner[Here(r)] # NONE
    BY <2>1, AttachOthers
  <2>. QED  BY <1>1, <1>3, <2>2, AttachOwner
<1>. QED  BY <1>2, <1>3

-----------------------------------------------------------------------------
\* The steps that do not attach, one by one.
LEMMA FirstQuiet ==
  ASSUME TypeOK, FirstInv, NEW r \in Resolvers, UNCHANGED <<owner, returned>>,
         \/ \E raw \in Raws : Start(r, raw)
         \/ LookupHits(r) \/ LookupMisses(r)
         \/ \E c \in Contacts : Create(r, c)
         \/ Fails(r)
  PROVE  FirstInv'
<1>0. ReturnedNonEmpty' /\ FirstIdentifierDecides'
  BY DEF FirstInv, ReturnedNonEmpty, FirstIdentifierDecides
<1>. SUFFICES FirstFree' /\ FirstMine'
  BY <1>0 DEF FirstInv
<1>. USE DEF FirstInv, FirstFree, FirstFreeOf, FirstMine, FirstMineOf, First
<1>1. CASE \E raw \in Raws : Start(r, raw)
  <2>. PICK raw \in Raws : Start(r, raw)
    BY <1>1
  <2>1. /\ pc' = [pc EXCEPT ![r] = "lookup"] /\ at' = [at EXCEPT ![r] = 1]
        /\ ids' = [ids EXCEPT ![r] = NormalizeIdentifiers(raw)]
        /\ UNCHANGED <<owner, found, beaten>>
    BY DEF Start, Goto
  <2>. QED  BY <2>1 DEF TypeOK
<1>2. CASE LookupHits(r)
  <2>1. /\ pc' = [pc EXCEPT ![r] = "attach"] /\ at' = [at EXCEPT ![r] = 1]
        /\ found' = [found EXCEPT ![r] = owner[Here(r)]]
        /\ UNCHANGED <<owner, ids, beaten>> /\ pc[r] = "lookup"
    BY <1>2 DEF LookupHits, Goto
  <2>2. at[r] = 1 \/ at[r] > 1
    BY <2>1, BusyCall DEF Busy
  <2>. QED  BY <2>1, <2>2 DEF TypeOK, Here
<1>3. CASE LookupMisses(r)
  <2>1. UNCHANGED <<owner, ids, found, beaten>> /\ pc[r] = "lookup" /\ owner[Here(r)] = NONE
    BY <1>3 DEF LookupMisses
  <2>2. \/ pc' = [pc EXCEPT ![r] = "lookup"] /\ at' = [at EXCEPT ![r] = at[r] + 1]
        \/ pc' = [pc EXCEPT ![r] = "create"] /\ at' = [at EXCEPT ![r] = 1]
    BY <1>3 DEF LookupMisses, Goto
  <2>3. at[r] = 1 \/ at[r] > 1
    BY <2>1, BusyCall DEF Busy
  <2>4. ~beaten[r] => owner[First(r)] = NONE
    BY <2>1, <2>3 DEF Here
  <2>5. \A q \in Resolvers : q # r => pc'[q] = pc[q] /\ at'[q] = at[q]
    BY <2>2 DEF TypeOK
  <2>6. (pc'[r] = "lookup") \/ (pc'[r] = "create" /\ at'[r] = 1)
    BY <2>2 DEF TypeOK
  <2>7. FirstMine'
    BY <2>1, <2>5, <2>6
  <2>8. FirstFree'
    BY <2>1, <2>4, <2>5, <2>6
  <2>. QED  BY <2>7, <2>8
<1>4. CASE \E c \in Contacts : Create(r, c)
  <2>. PICK c \in Contacts : Create(r, c)
    BY <1>4
  <2>1. /\ pc' = [pc EXCEPT ![r] = "attach"] /\ found' = [found EXCEPT ![r] = c]
        /\ UNCHANGED <<owner, ids, at, beaten>> /\ pc[r] = "create"
    BY DEF Create, Goto
  <2>. QED  BY <2>1 DEF TypeOK
<1>5. CASE Fails(r)
  <2>1. /\ pc' = [pc EXCEPT ![r] = "idle"] /\ ids' = [ids EXCEPT ![r] = <<>>]
        /\ at' = [at EXCEPT ![r] = 1] /\ found' = [found EXCEPT ![r] = NONE]
        /\ beaten' = [beaten EXCEPT ![r] = FALSE]
    BY <1>5 DEF Fails, DropLocals, Goto
  <2>. QED  BY <2>1 DEF TypeOK
<1>. QED  BY <1>1, <1>2, <1>3, <1>4, <1>5

\* Attach: the call takes its first identifier unless it was beaten to it, and owners stay.
LEMMA FirstAttach ==
  ASSUME TypeOK, FirstInv, NEW r \in Resolvers, Attach(r)
  PROVE  FirstInv'
<1>0. /\ pc[r] = "attach" /\ Busy(r) /\ found[r] # NONE
      /\ at[r] \in 1..Len(ids[r]) /\ Len(ids[r]) \in Nat /\ First(r) \in Identifiers
  BY BusyCall DEF Attach, Busy, TypeOK
<1>1. ~beaten[r] => owner'[First(r)] = found[r]
  <2>. SUFFICES ASSUME ~beaten[r] PROVE owner'[First(r)] = found[r]
    OBVIOUS
  <2>1. CASE owner[First(r)] = found[r]
    BY <1>0, <2>1, AttachOwner
  <2>2. CASE at[r] = 1 /\ owner[First(r)] = NONE
    BY <1>0, <2>2, AttachOwner DEF First, Here
  <2>. QED  BY <1>0, <2>1, <2>2 DEF FirstInv, FirstMine, FirstMineOf
<1>2. \/ /\ at'[r] = at[r] + 1 /\ pc'[r] = "attach" /\ ids'[r] = ids[r] /\ found'[r] = found[r]
         /\ returned' = returned /\ (beaten'[r] <=> beaten[r])
      \/ /\ pc'[r] = "idle"
         /\ returned' = IF beaten[r] THEN returned
                        ELSE returned \cup {[ids |-> ids[r], contact |-> found[r]]}
  <2>1. CASE at[r] < Len(ids[r])
    BY <1>0, <2>1 DEF Attach, Upserted, TypeOK
  <2>2. CASE ~(at[r] < Len(ids[r]))
    BY <1>0, <2>2 DEF Attach, Upserted, DropLocals, Goto, TypeOK
  <2>. QED  BY <2>1, <2>2
<1>3. FirstFree'
  <2>. SUFFICES ASSUME NEW q \in Resolvers
                PROVE  FirstFreeOf(q)'
    BY DEF FirstFree
  <2>1. CASE q = r
    BY <1>2, <2>1 DEF FirstFreeOf
  <2>2. CASE q # r
    <3>1. /\ pc'[q] = pc[q] /\ ids'[q] = ids[q] /\ at'[q] = at[q]
          /\ (~beaten'[q]) => (~beaten[q])
      BY <2>2, AttachOthers
    <3>2. (Busy(q) /\ ~beaten'[q]) => (owner'[First(q)] = owner[First(q)])
      BY <2>2, FirstStays
    <3>. QED  BY <3>1, <3>2 DEF FirstInv, FirstFree, FirstFreeOf, First, Busy
  <2>. QED  BY <2>1, <2>2
<1>4. FirstMine'
  <2>. SUFFICES ASSUME NEW q \in Resolvers
                PROVE  FirstMineOf(q)'
    BY DEF FirstMine
  <2>1. CASE q = r
    BY <1>1, <1>2, <2>1 DEF First, FirstMineOf
  <2>2. CASE q # r
    <3>1. /\ pc'[q] = pc[q] /\ ids'[q] = ids[q] /\ at'[q] = at[q] /\ found'[q] = found[q]
          /\ (~beaten'[q]) => (~beaten[q])
      BY <2>2, AttachOthers
    <3>2. (Busy(q) /\ ~beaten'[q]) => (owner'[First(q)] = owner[First(q)])
      BY <2>2, FirstStays
    <3>. QED  BY <3>1, <3>2 DEF FirstInv, FirstMine, FirstMineOf, First, Busy
  <2>. QED  BY <2>1, <2>2
<1>5. ASSUME NEW call \in returned'
      PROVE  call.ids # <<>> /\ owner'[call.ids[1]] = call.contact
  <2>1. CASE call \in returned
    <3>1. call.ids \in Seq(Identifiers) /\ call.ids # <<>> /\ call.contact \in rows
      BY <2>1 DEF TypeOK, FirstInv, ReturnedNonEmpty
    <3>2. call.ids[1] \in Identifiers /\ owner[call.ids[1]] = call.contact
      BY <2>1, <3>1 DEF FirstInv, FirstIdentifierDecides
    <3>3. call.contact # NONE
      BY <3>1, IdentityAssumption DEF TypeOK
    <3>. QED  BY <3>1, <3>2, <3>3, AttachOwner
  <2>2. CASE call \notin returned
    <3>1. ~beaten[r] /\ call = [ids |-> ids[r], contact |-> found[r]]
      BY <1>2, <2>2
    <3>2. call.ids = ids[r] /\ call.contact = found[r] /\ ids[r] # <<>>
      BY <3>1, <1>0
    <3>. QED  BY <1>1, <3>1, <3>2 DEF First
  <2>. QED  BY <2>1, <2>2
<1>. QED  BY <1>3, <1>4, <1>5 DEF FirstInv, ReturnedNonEmpty, FirstIdentifierDecides

LEMMA FirstStep ==
  ASSUME TypeOK, FirstInv, [Next]_vars
  PROVE  FirstInv'
<1>1. CASE UNCHANGED vars
  BY <1>1 DEF vars, FirstInv, FirstFree, FirstFreeOf, FirstMine, FirstMineOf, ReturnedNonEmpty, FirstIdentifierDecides, First
<1>2. CASE Next
  <2>. PICK r \in Resolvers :
         \/ \E raw \in Raws : Start(r, raw)
         \/ LookupHits(r) \/ LookupMisses(r)
         \/ \E c \in Contacts : Create(r, c)
         \/ Attach(r)
         \/ Fails(r)
    BY <1>2 DEF Next
  <2>1. CASE Attach(r)
    BY <2>1, FirstAttach
  <2>2. CASE ~Attach(r)
    <3>1. UNCHANGED <<owner, returned>>
      BY <2>2 DEF Start, LookupHits, LookupMisses, Create, Fails
    <3>. QED  BY <2>2, <3>1, FirstQuiet
  <2>. QED  BY <2>1, <2>2
<1>. QED  BY <1>1, <1>2

\* Resolving is idempotent, for any number of overlapping and failing calls: a call that was not beaten
\* to an identifier returns the contact that its first identifier belongs to ever after.
THEOREM IdentityFirstIdentifierDecides == Spec => []FirstIdentifierDecides
<1>1. Init => TypeOK /\ FirstInv
  BY TypeInit DEF Init, FirstInv, FirstFree, FirstFreeOf, FirstMine, FirstMineOf, ReturnedNonEmpty, FirstIdentifierDecides
<1>2. TypeOK /\ FirstInv /\ [Next]_vars => (TypeOK /\ FirstInv)'
  BY TypeStep, FirstStep
<1>3. FirstInv => FirstIdentifierDecides
  BY DEF FirstInv
<1>. QED  BY <1>1, <1>2, <1>3, PTL DEF Spec

-----------------------------------------------------------------------------
\* Calls hold payloads: only Start gives a call identifiers, and it gives it those of a payload.
LEMMA CallsPayloadsStep ==
  ASSUME TypeOK, CallsPayloads, NEW r \in Resolvers,
         \/ \E raw \in Raws : Start(r, raw)
         \/ LookupHits(r) \/ LookupMisses(r)
         \/ \E c \in Contacts : Create(r, c)
         \/ Attach(r)
         \/ Fails(r)
  PROVE  CallsPayloads'
<1>1. CASE \E raw \in Raws : Start(r, raw)
  <2>. PICK raw \in Raws : Start(r, raw)
    BY <1>1
  <2>. DEFINE p == NormalizeIdentifiers(raw)
  <2>1. p \in Payloads
    BY DEF Payloads
  <2>. HIDE DEF p
  <2>2. ids' = [ids EXCEPT ![r] = p] /\ pc' = [pc EXCEPT ![r] = "lookup"]
    BY DEF Start, Goto, p
  <2>. QED  BY <2>1, <2>2 DEF CallsPayloads, Busy, TypeOK
<1>2. CASE LookupHits(r)
  BY <1>2 DEF LookupHits, Goto, CallsPayloads, Busy, TypeOK
<1>3. CASE LookupMisses(r)
  BY <1>3 DEF LookupMisses, Goto, CallsPayloads, Busy, TypeOK
<1>4. CASE \E c \in Contacts : Create(r, c)
  BY <1>4 DEF Create, Goto, CallsPayloads, Busy, TypeOK
<1>5. CASE Attach(r)
  <2>1. \A q \in Resolvers : (pc'[q] # "idle") => (ids'[q] = ids[q] /\ pc[q] # "idle")
    <3>1. CASE at[r] < Len(ids[r])
      BY <3>1, <1>5 DEF Attach, Upserted
    <3>2. CASE ~(at[r] < Len(ids[r]))
      BY <3>2, <1>5 DEF Attach, Upserted, DropLocals, Goto, TypeOK
    <3>. QED  BY <3>1, <3>2
  <2>. QED  BY <2>1 DEF CallsPayloads, Busy
<1>6. CASE Fails(r)
  BY <1>6 DEF Fails, DropLocals, Goto, CallsPayloads, Busy, TypeOK
<1>. QED  BY <1>1, <1>2, <1>3, <1>4, <1>5, <1>6

\* The identifier a busy call is at is on the side of its first.
LEMMA HereOneSide ==
  ASSUME TypeOK, CallsPayloads, NEW S \in Closed, NEW r \in Resolvers, Busy(r)
  PROVE  Here(r) \in S <=> First(r) \in S
BY BusyCall, PayloadOneSide DEF CallsPayloads, Here, First

-----------------------------------------------------------------------------
\* A call that starts, misses or fails holds no contact, so nothing crosses S.
LEMMA SideQuiet ==
  ASSUME TypeOK, NEW S \in Closed, OneSide(S), NEW r \in Resolvers,
         (\E raw \in Raws : Start(r, raw)) \/ LookupMisses(r) \/ Fails(r)
  PROVE  OneSide(S)'
<1>1. /\ owner' = owner /\ found'[r] = NONE
      /\ \A q \in Resolvers : q # r => found'[q] = found[q] /\ ids'[q] = ids[q]
  BY DEF Start, LookupMisses, Fails, DropLocals, TypeOK
<1>2. OwnersOneSide(S)'
  BY <1>1 DEF OneSide, OwnersOneSide
<1>3. FoundOneSide(S)'
  BY <1>1 DEF OneSide, FoundOneSide, First
<1>4. CallsOneSide(S)'
  BY <1>1 DEF OneSide, CallsOneSide, First
<1>. QED  BY <1>2, <1>3, <1>4 DEF OneSide

\* A call that hits takes a contact whose identifiers, and whose other calls, are on its side.
LEMMA SideHits ==
  ASSUME TypeOK, CallsPayloads, NEW S \in Closed, OneSide(S), NEW r \in Resolvers, LookupHits(r)
  PROVE  OneSide(S)'
<1>0. Busy(r) /\ Here(r) \in Identifiers /\ owner[Here(r)] # NONE
  BY BusyCall DEF LookupHits, Busy
<1>1. /\ owner' = owner /\ ids' = ids /\ found'[r] = owner[Here(r)]
      /\ \A q \in Resolvers : q # r => found'[q] = found[q]
  BY DEF LookupHits, TypeOK
<1>2. OwnersOneSide(S)'
  BY <1>1 DEF OneSide, OwnersOneSide
<1>3. Here(r) \in S <=> First(r) \in S
  BY <1>0, HereOneSide
<1>4. \A i \in Identifiers : (owner[i] = owner[Here(r)]) => (i \in S <=> First(r) \in S)
  BY <1>0, <1>3 DEF OneSide, OwnersOneSide
<1>5. FoundOneSide(S)'
  BY <1>1, <1>4 DEF OneSide, FoundOneSide, First
<1>6. \A q \in Resolvers :
        (found[q] = owner[Here(r)]) => (First(q) \in S <=> First(r) \in S)
  BY <1>0, <1>3 DEF OneSide, FoundOneSide
<1>7. CallsOneSide(S)'
  BY <1>1, <1>6 DEF OneSide, CallsOneSide, First
<1>. QED  BY <1>2, <1>5, <1>7 DEF OneSide

\* A contact just created has no identifiers and no other call.
LEMMA SideCreates ==
  ASSUME TypeOK, NEW S \in Closed, OneSide(S), NEW r \in Resolvers, NEW c \in Contacts, Create(r, c)
  PROVE  OneSide(S)'
<1>0. c \notin rows /\ c # NONE
  BY IdentityAssumption DEF Create
<1>1. /\ owner' = owner /\ ids' = ids /\ found'[r] = c
      /\ \A q \in Resolvers : q # r => found'[q] = found[q]
  BY DEF Create, TypeOK
<1>2. \A i \in Identifiers : owner[i] # c
  BY <1>0 DEF TypeOK
<1>3. \A q \in Resolvers : found[q] # c
  BY <1>0 DEF TypeOK
<1>4. OwnersOneSide(S)'
  BY <1>1 DEF OneSide, OwnersOneSide
<1>5. FoundOneSide(S)'
  BY <1>1, <1>2 DEF OneSide, FoundOneSide, First
<1>6. CallsOneSide(S)'
  BY <1>1, <1>3 DEF OneSide, CallsOneSide, First
<1>. QED  BY <1>4, <1>5, <1>6 DEF OneSide

\* The identifier a call attaches is on the side of the contact it attaches to.
LEMMA SideAttaches ==
  ASSUME TypeOK, CallsPayloads, NEW S \in Closed, OneSide(S), NEW r \in Resolvers, Attach(r)
  PROVE  OneSide(S)'
<1>0. Busy(r) /\ Here(r) \in Identifiers /\ found[r] # NONE /\ pc[r] = "attach"
  BY BusyCall DEF Attach, Busy, TypeOK
<1>1. Here(r) \in S <=> First(r) \in S
  BY <1>0, HereOneSide
<1>2. \A i \in Identifiers :
        owner'[i] = owner[i] \/ (i = Here(r) /\ owner[i] = NONE /\ owner'[i] = found[r])
  BY <1>0, AttachOwner
<1>3. \A q \in Resolvers : (found'[q] # NONE) => (found'[q] = found[q] /\ ids'[q] = ids[q])
  <2>1. CASE at[r] < Len(ids[r])
    BY <2>1 DEF Attach, Upserted
  <2>2. CASE ~(at[r] < Len(ids[r]))
    BY <2>2 DEF Attach, Upserted, DropLocals, TypeOK
  <2>. QED  BY <2>1, <2>2
<1>4. \A i \in Identifiers : (owner[i] = found[r]) => (i \in S <=> Here(r) \in S)
  BY <1>0, <1>1 DEF OneSide, FoundOneSide
<1>5. OwnersOneSide(S)'
  <2>. SUFFICES ASSUME NEW i \in S, NEW j \in Identifiers \ S, owner'[i] # NONE, owner'[i] = owner'[j]
                PROVE  FALSE
    BY DEF OwnersOneSide
  <2>1. i \in Identifiers /\ i # j
    BY DEF Closed
  <2>2. CASE owner'[i] = owner[i] /\ owner'[j] = owner[j]
    BY <2>1, <2>2 DEF OneSide, OwnersOneSide
  <2>3. CASE i = Here(r) /\ owner'[i] = found[r]
    BY <2>1, <2>3, <1>2, <1>4
  <2>4. CASE j = Here(r) /\ owner'[j] = found[r]
    BY <2>1, <2>4, <1>2, <1>4
  <2>. QED  BY <2>1, <2>2, <2>3, <2>4, <1>2
<1>6. \A q \in Resolvers : (found[q] = found[r]) => (First(q) \in S <=> Here(r) \in S)
  BY <1>0, <1>1 DEF OneSide, CallsOneSide
<1>7. FoundOneSide(S)'
  <2>. SUFFICES ASSUME NEW q \in Resolvers, NEW i \in Identifiers, found'[q] # NONE, owner'[i] = found'[q]
                PROVE  i \in S <=> First(q)' \in S
    BY DEF FoundOneSide
  <2>1. found'[q] = found[q] /\ First(q)' = First(q)
    BY <1>3 DEF First
  <2>2. CASE owner'[i] = owner[i]
    BY <2>1, <2>2 DEF OneSide, FoundOneSide
  <2>3. CASE i = Here(r) /\ owner'[i] = found[r]
    BY <2>1, <2>3, <1>6
  <2>. QED  BY <2>2, <2>3, <1>2
<1>8. CallsOneSide(S)'
  BY <1>3 DEF OneSide, CallsOneSide, First
<1>. QED  BY <1>5, <1>7, <1>8 DEF OneSide

StrangersInv == TypeOK /\ CallsPayloads /\ \A S \in Closed : OneSide(S)

LEMMA StrangersStep ==
  ASSUME StrangersInv, [Next]_vars
  PROVE  StrangersInv'
<1>. USE DEF StrangersInv
<1>0. TypeOK'
  BY TypeStep
<1>1. CASE UNCHANGED vars
  BY <1>0, <1>1 DEF vars, CallsPayloads, Busy, OneSide, OwnersOneSide, FoundOneSide, CallsOneSide, First, Closed
<1>2. CASE Next
  <2>. PICK r \in Resolvers :
         \/ \E raw \in Raws : Start(r, raw)
         \/ LookupHits(r) \/ LookupMisses(r)
         \/ \E c \in Contacts : Create(r, c)
         \/ Attach(r)
         \/ Fails(r)
    BY <1>2 DEF Next
  <2>1. CallsPayloads'
    BY CallsPayloadsStep
  <2>2. ASSUME NEW S \in Closed PROVE OneSide(S)'
    BY SideQuiet, SideHits, SideCreates, SideAttaches
  <2>3. Closed' = Closed
    BY DEF Closed
  <2>. QED  BY <1>0, <2>1, <2>2, <2>3
<1>. QED  BY <1>1, <1>2

\* Whatever calls overlap or fail, identifiers that no chain of payloads links never share a contact.
THEOREM IdentityNoStrangers == Spec => []NoStrangers
<1>1. Init => StrangersInv
  BY TypeInit DEF Init, StrangersInv, CallsPayloads, Busy, OneSide, OwnersOneSide, FoundOneSide, CallsOneSide, Closed
<1>2. StrangersInv /\ [Next]_vars => StrangersInv'
  BY StrangersStep
<1>3. StrangersInv => NoStrangers
  BY DEF StrangersInv, OneSide, OwnersOneSide, NoStrangers
<1>. QED  BY <1>1, <1>2, <1>3, PTL DEF Spec
=============================================================================

--------------------------- MODULE EntityStoreProofs ---------------------------
(***************************************************************************)
(* Proofs about EntityStore, for any entities, fields and mutations.       *)
(***************************************************************************)
EXTENDS EntityStore, SequenceTheorems, WellFoundedInduction, TLAPS

\* The layers of an entry, oldest first.
Stack(x) == IF x = Absent THEN <<>> ELSE x.layers

\* The answer to an update that the server took is the row.
Answers ==
  \A m \in Mutations : phase[m] = "served" /\ Kind[m] = "update" => answer[m] # Absent

\* What the list shows is the store, and it watches all that it shows.
Watches == \A e \in Entities : (e \in watch <=> Indexed(index, e)) /\ (e \in watch => entry[e] # Absent)
Synced == ~Undone => view = Shown(entry, index) /\ Watches

\* No answer is under way or lost, and no delete was rolled back.
Steady == ~Undone /\ \A m \in Mutations : phase[m] \notin {"served", "lost"}

\* Then the list's newest answer is what the server has, and once it is merged the
\* store has it, but for deletes that still wait for their answer.
FreshList ==
  Steady =>
    /\ list \in {"answered", "idle"} => rows = server
    /\ list = "idle" =>
         \A e \in Entities :
           /\ Indexed(index, e) => rows[e] # Absent /\ entry[e].base = rows[e]
           /\ rows[e] # Absent /\ ~Indexed(index, e) =>
                \E d \in Mutations : Kind[d] = "delete" /\ Target[d] = e /\ Pending(d)

Inv == TypeOK /\ NoGhostLayer /\ Answers /\ Synced /\ FreshList

--------------------------------------------------------------------------------
(* Layers and visible values *)

\* Less than on the natural numbers, as a set of pairs.
Less == {p \in Nat \X Nat : p[1] < p[2]}

\* A set of positions has a last one.
LEMMA Greatest ==
  ASSUME NEW n \in Nat, NEW S, S \subseteq 1..n, S # {}
  PROVE  \E i \in S : \A j \in S : j <= i
<1> DEFINE T == {n - i : i \in S}
<1>1. T \subseteq Nat /\ T # {}
  <2>1. \A i \in S : n - i \in Nat
    OBVIOUS
  <2> QED BY <2>1
<1>2. IsWellFoundedOn(Less, Nat)
  <2>1. IsWellFoundedOn(OpToRel(<, Nat), Nat)
    BY NatLessThanWellFounded
  <2>2. OpToRel(<, Nat) = Less
    BY DEF OpToRel, Less
  <2> QED BY <2>1, <2>2
<1>t. \A i \in S : n - i \in T
  OBVIOUS
<1>u. \A x \in T : \E i \in S : x = n - i
  OBVIOUS
<1> HIDE DEF T
<1>3. PICK x \in T : \A y \in T : ~ (<<y, x>> \in Less)
  BY <1>1, <1>2, WFMin
<1>4. \A y \in T : ~(y < x)
  BY <1>1, <1>3 DEF Less
<1>5. PICK i \in S : x = n - i
  BY <1>u
<1>6. \A j \in S : j <= i
  BY <1>4, <1>5, <1>t
<1> QED BY <1>6

\* What an entry shows is a value, and its base when it has no layers.
LEMMA VisibleType ==
  ASSUME NEW x \in Entry
  PROVE  /\ Visible(x) \in Value /\ Visible(x) # Absent
         /\ x.layers = <<>> => Visible(x) = x.base
<1>1. x # Absent /\ x.layers \in Seq(Mutations) /\ x.base \in Value
  BY ServerAssumption DEF Entry
<1>2. Len(x.layers) \in Nat /\ DOMAIN x.layers = 1..Len(x.layers)
  BY <1>1, LenProperties
<1> DEFINE W(f) == {i \in DOMAIN x.layers : f \in Writes[x.layers[i]]}
           V(f) == IF W(f) = {} THEN x.base[f]
                   ELSE x.layers[CHOOSE i \in W(f) : \A j \in W(f) : j <= i]
<1>3. Visible(x) = [f \in Fields |-> V(f)]
  BY <1>1 DEF Visible
<1>4. \A f \in Fields : V(f) \in Mutations \cup {Original}
  <2> SUFFICES ASSUME NEW f \in Fields PROVE V(f) \in Mutations \cup {Original}
    OBVIOUS
  <2>1. CASE W(f) = {}
    BY <1>1, <2>1 DEF Value
  <2>2. CASE W(f) # {}
    <3> DEFINE S == W(f)
               k == CHOOSE i \in S : \A j \in S : j <= i
    <3>1. S \subseteq 1..Len(x.layers) /\ S # {}
      BY <1>2, <2>2
    <3>2. \E i \in S : \A j \in S : j <= i
      <4> HIDE DEF S
      <4> QED BY <1>2, <3>1, Greatest
    <3>3. k \in S
      BY <3>2
    <3>4. x.layers[k] \in Mutations
      <4> HIDE DEF k, S
      <4> QED BY <1>1, <3>1, <3>3, ElementOfSeq
    <3> QED BY <2>2, <3>4
  <2> QED BY <2>1, <2>2
<1>5. Visible(x) \in Value
  <2> HIDE DEF V, W
  <2> QED BY <1>3, <1>4 DEF Value
<1>6. ASSUME x.layers = <<>> PROVE Visible(x) = x.base
  <2>1. DOMAIN x.layers = {}
    BY <1>6, <1>2, EmptySeq
  <2>2. \A f \in Fields : V(f) = x.base[f]
    BY <2>1
  <2> HIDE DEF V, W
  <2> QED BY <1>1, <1>3, <2>2 DEF Value
<1> QED BY <1>5, <1>6, ServerAssumption

\* What a list shows of the store are values.
LEMMA ShownType ==
  ASSUME NEW entries \in [Entities -> Entry \cup {Absent}], NEW ids
  PROVE  Shown(entries, ids) \in [Entities -> Value \cup {Absent}]
<1>1. \A e \in Entities : Visible(entries[e]) \in Value \cup {Absent}
  <2> SUFFICES ASSUME NEW e \in Entities PROVE Visible(entries[e]) \in Value \cup {Absent}
    OBVIOUS
  <2>1. CASE entries[e] = Absent
    BY <2>1 DEF Visible
  <2>2. CASE entries[e] \in Entry
    BY <2>2, VisibleType
  <2> QED BY <2>1, <2>2
<1> QED BY <1>1 DEF Shown

\* Without the layer of an id the others stay, one for each id.
LEMMA WithoutProperties ==
  ASSUME NEW s \in Seq(Mutations), NEW m \in Mutations,
         \A i, j \in DOMAIN s : id[s[i]] = id[s[j]] => i = j
  PROVE  LET t == Without(s, m)
         IN  /\ t \in Seq(Mutations)
             /\ \A i \in DOMAIN t : id[t[i]] # id[m] /\ \E j \in DOMAIN s : t[i] = s[j]
             /\ \A j \in DOMAIN s : id[s[j]] # id[m] => \E i \in DOMAIN t : t[i] = s[j]
             /\ \A i, j \in DOMAIN t : id[t[i]] = id[t[j]] => i = j
<1>1. Len(s) \in Nat /\ DOMAIN s = 1..Len(s) /\ \A i \in 1..Len(s) : s[i] \in Mutations
  BY LenProperties, ElementOfSeq
<1>2. CASE \A i \in DOMAIN s : id[s[i]] # id[m]
  BY <1>2 DEF Without
<1>3. CASE \E i \in DOMAIN s : id[s[i]] = id[m]
  <2> DEFINE k == CHOOSE i \in DOMAIN s : id[s[i]] = id[m]
             n == Len(s) - 1
             t == [i \in 1..n |-> s[IF i < k THEN i ELSE i + 1]]
  <2>1. k \in 1..Len(s) /\ id[s[k]] = id[m]
    BY <1>1, <1>3
  <2>2. Without(s, m) = t
    BY <1>3 DEF Without
  <2> HIDE DEF k
  <2>3. n \in Nat
    BY <1>1, <2>1
  <2>4. \A i \in 1..n : s[IF i < k THEN i ELSE i + 1] \in Mutations
    BY <1>1, <2>1
  <2>5. t \in Seq(Mutations)
    BY <2>3, <2>4, IsASeq
  <2>6. DOMAIN t = 1..n
    OBVIOUS
  <2>7. \A i \in 1..n : /\ i < k => t[i] = s[i]
                        /\ ~(i < k) => t[i] = s[i + 1]
    OBVIOUS
  <2> HIDE DEF t, n
  <2>n. n = Len(s) - 1
    BY DEF n
  <2>8. \A i \in 1..n : id[t[i]] # id[m] /\ \E j \in DOMAIN s : t[i] = s[j]
    <3> SUFFICES ASSUME NEW i \in 1..n PROVE id[t[i]] # id[m] /\ \E j \in DOMAIN s : t[i] = s[j]
      OBVIOUS
    <3>1. CASE i < k
      <4>1. i \in DOMAIN s /\ i # k /\ t[i] = s[i]
        BY <1>1, <2>1, <2>7, <2>n, <3>1
      <4> QED BY <1>1, <2>1, <4>1
    <3>2. CASE ~(i < k)
      <4>1. i + 1 \in DOMAIN s /\ i + 1 # k /\ t[i] = s[i + 1]
        BY <1>1, <2>1, <2>7, <2>n, <3>2
      <4> QED BY <1>1, <2>1, <4>1
    <3> QED BY <3>1, <3>2
  <2>9. \A j \in DOMAIN s : id[s[j]] # id[m] => \E i \in 1..n : t[i] = s[j]
    <3> SUFFICES ASSUME NEW j \in DOMAIN s, id[s[j]] # id[m] PROVE \E i \in 1..n : t[i] = s[j]
      OBVIOUS
    <3>1. CASE j < k
      <4>1. j \in 1..n /\ t[j] = s[j]
        BY <1>1, <2>1, <2>7, <2>n, <3>1
      <4> QED BY <4>1
    <3>2. CASE ~(j < k)
      <4>1. j # k
        BY <2>1
      <4>2. j - 1 \in 1..n /\ ~(j - 1 < k) /\ (j - 1) + 1 = j
        BY <1>1, <2>1, <2>n, <3>2, <4>1
      <4>3. t[j - 1] = s[j]
        BY <2>7, <4>2
      <4> QED BY <4>2, <4>3
    <3> QED BY <3>1, <3>2
  <2>10. \A i, j \in 1..n : id[t[i]] = id[t[j]] => i = j
    <3> SUFFICES ASSUME NEW i \in 1..n, NEW j \in 1..n, id[t[i]] = id[t[j]] PROVE i = j
      OBVIOUS
    <3>1. i \in DOMAIN s /\ j \in DOMAIN s /\ i + 1 \in DOMAIN s /\ j + 1 \in DOMAIN s
      BY <1>1, <2>n
    <3>2. CASE i < k /\ j < k
      BY <2>7, <3>1, <3>2
    <3>3. CASE ~(i < k) /\ ~(j < k)
      <4>1. id[s[i + 1]] = id[s[j + 1]]
        BY <2>7, <3>3
      <4>2. i + 1 = j + 1
        BY <3>1, <4>1
      <4> QED BY <4>2, <2>3
    <3>4. CASE i < k /\ ~(j < k)
      <4>1. id[s[i]] = id[s[j + 1]]
        BY <2>7, <3>4
      <4>2. i = j + 1
        BY <3>1, <4>1
      <4> QED BY <3>4, <4>2, <2>1, <1>1
    <3>5. CASE ~(i < k) /\ j < k
      <4>1. id[s[i + 1]] = id[s[j]]
        BY <2>7, <3>5
      <4>2. i + 1 = j
        BY <3>1, <4>1
      <4> QED BY <3>5, <4>2, <2>1, <1>1
    <3> QED BY <3>2, <3>3, <3>4, <3>5
  <2> QED BY <2>2, <2>5, <2>6, <2>8, <2>9, <2>10
<1> QED BY <1>2, <1>3

\* A stack stays one with a further layer.
LEMMA StackedType ==
  ASSUME NEW s \in Seq(Mutations), NEW m \in Mutations
  PROVE  Stacked(s, m) \in Seq(Mutations)
<1> DEFINE t == [i \in DOMAIN s |-> IF id[s[i]] = id'[m] THEN m ELSE s[i]]
<1>1. Len(s) \in Nat /\ DOMAIN s = 1..Len(s) /\ \A i \in 1..Len(s) : s[i] \in Mutations
  BY LenProperties, ElementOfSeq
<1>2. \A i \in 1..Len(s) : (IF id[s[i]] = id'[m] THEN m ELSE s[i]) \in Mutations
  BY <1>1
<1>3. t \in Seq(Mutations)
  BY <1>1, <1>2, IsASeq
<1>4. Append(s, m) \in Seq(Mutations)
  BY AppendProperties
<1> QED BY <1>3, <1>4 DEF Stacked

\* A further layer is on top, or in the place of one of its id; the others stay.
LEMMA StackedProperties ==
  ASSUME NEW s \in Seq(Mutations), NEW m \in Mutations,
         \A n \in Mutations \ {m} : id'[n] = id[n],
         \A i \in DOMAIN s : s[i] # m,
         \A i, j \in DOMAIN s : id[s[i]] = id[s[j]] => i = j
  PROVE  LET t == Stacked(s, m)
         IN  /\ \A i \in DOMAIN t : t[i] = m \/ \E j \in DOMAIN s : t[i] = s[j]
             /\ \A j \in DOMAIN s : id'[s[j]] # id'[m] => \E i \in DOMAIN t : t[i] = s[j]
             /\ \A i, j \in DOMAIN t : id'[t[i]] = id'[t[j]] => i = j
<1>1. Len(s) \in Nat /\ DOMAIN s = 1..Len(s) /\ \A i \in 1..Len(s) : s[i] \in Mutations
  BY LenProperties, ElementOfSeq
<1>2. \A i \in DOMAIN s : id'[s[i]] = id[s[i]]
  BY <1>1
<1>3. CASE \A i \in DOMAIN s : id[s[i]] # id'[m]
  <2> DEFINE a == Append(s, m)
  <2>1. Stacked(s, m) = a
    BY <1>3 DEF Stacked
  <2>2. /\ DOMAIN a = 1..(Len(s) + 1) /\ a[Len(s) + 1] = m
        /\ \A i \in 1..Len(s) : a[i] = s[i]
    <3>1. /\ a \in Seq(Mutations) /\ Len(a) = Len(s) + 1
          /\ a[Len(s) + 1] = m /\ \A i \in 1..Len(s) : a[i] = s[i]
      BY AppendProperties
    <3> HIDE DEF a
    <3> QED BY <3>1, LenProperties
  <2> HIDE DEF a
  <2>3. \A i \in DOMAIN a : i = Len(s) + 1 \/ i \in 1..Len(s)
    BY <1>1, <2>2
  <2>4. \A i \in 1..Len(s) : i \in DOMAIN a
    BY <1>1, <2>2
  <2>5. \A i, j \in DOMAIN a : id'[a[i]] = id'[a[j]] => i = j
    BY <1>1, <1>2, <1>3, <2>2, <2>3
  <2> QED BY <1>1, <2>1, <2>2, <2>3, <2>4, <2>5
<1>4. CASE \E i \in DOMAIN s : id[s[i]] = id'[m]
  <2> DEFINE t == [i \in DOMAIN s |-> IF id[s[i]] = id'[m] THEN m ELSE s[i]]
  <2>1. Stacked(s, m) = t
    BY <1>4 DEF Stacked
  <2>2. /\ DOMAIN t = DOMAIN s
        /\ \A i \in DOMAIN s : /\ id[s[i]] = id'[m] => t[i] = m
                               /\ id[s[i]] # id'[m] => t[i] = s[i]
    OBVIOUS
  <2> HIDE DEF t
  <2>3. \A i \in DOMAIN s : id'[t[i]] = id[s[i]]
    BY <1>2, <2>2
  <2> QED BY <1>2, <2>1, <2>2, <2>3
<1> QED BY <1>3, <1>4

\* A new id is one of an update, and the ids of others stay.
LEMMA NameEffect ==
  ASSUME TypeOK, NEW m \in Mutations, Name(m)
  PROVE  /\ moment' \subseteq Mutations /\ id' \in [Mutations -> Mutations]
         /\ \A n \in Mutations \ {m} : id'[n] = id[n]
<1>1. moment \subseteq Mutations /\ id \in [Mutations -> Mutations]
  BY DEF TypeOK
<1>2. CASE Namesakes(m) = {}
  BY <1>1, <1>2 DEF Name
<1>3. CASE Namesakes(m) # {}
  <2> DEFINE n == CHOOSE n \in Namesakes(m) : TRUE
  <2>1. n \in Mutations
    BY <1>1, <1>3 DEF Namesakes
  <2>2. id' = [id EXCEPT ![m] = id[n]]
    BY <1>3 DEF Name
  <2> HIDE DEF n
  <2> QED BY <1>1, <2>1, <2>2 DEF Name
<1> QED BY <1>2, <1>3

--------------------------------------------------------------------------------
(* Merging *)

\* A merge keeps every layer: it writes the base of what it merges, and drops
\* entries only that have no layers and that the list does not show.
LEMMA MergeEffect ==
  ASSUME entry \in [Entities -> Entry \cup {Absent}],
         NEW items \in [Entities -> Value \cup {Absent}], NEW ids, Merge(items, ids)
  PROVE  /\ entry' \in [Entities -> Entry \cup {Absent}]
         /\ \A e \in Entities :
              /\ Stack(entry'[e]) = Stack(entry[e])
              /\ items[e] # Absent => entry'[e] # Absent /\ entry'[e].base = items[e]
              /\ items[e] = Absent =>
                   entry'[e] = entry[e] \/ (entry'[e] = Absent /\ ~Indexed(index, e))
<1>1. PICK old \in SUBSET Evictable :
        entry' = [e \in Entities |->
                   LET kept == IF e \in old THEN Absent ELSE entry[e]
                   IN  IF items[e] = Absent THEN kept ELSE Merged(kept, items[e], ids, e)]
  BY DEF Merge
<1> DEFINE Keep(e) == IF e \in old THEN Absent ELSE entry[e]
           New(e) == IF items[e] = Absent THEN Keep(e) ELSE Merged(Keep(e), items[e], ids, e)
<1>2. entry' = [e \in Entities |-> New(e)]
  BY <1>1
<1>3. \A e \in Entities : entry'[e] = New(e)
  BY <1>2
<1> HIDE DEF New
<1>4. ASSUME NEW e \in Entities
      PROVE  /\ New(e) \in Entry \cup {Absent}
             /\ Stack(New(e)) = Stack(entry[e])
             /\ items[e] # Absent => New(e) # Absent /\ New(e).base = items[e]
             /\ items[e] = Absent =>
                  New(e) = entry[e] \/ (New(e) = Absent /\ ~Indexed(index, e))
  <2>1. /\ Keep(e) \in Entry \cup {Absent} /\ Stack(Keep(e)) = Stack(entry[e])
        /\ Keep(e) = entry[e] \/ (Keep(e) = Absent /\ ~Indexed(index, e))
    BY DEF Evictable, Stack
  <2> HIDE DEF Keep
  <2>2. CASE items[e] = Absent
    BY <2>1, <2>2 DEF New
  <2>3. CASE items[e] # Absent
    <3>1. New(e) = Merged(Keep(e), items[e], ids, e)
      BY <2>3 DEF New
    <3>2. items[e] \in Value
      BY <2>3
    <3>3. Indexed(ids, e) \in BOOLEAN
      BY DEF Indexed
    <3>4. CASE Keep(e) = Absent
      <4>1. New(e) = [base |-> items[e], layers |-> <<>>, listed |-> Indexed(ids, e)]
        BY <3>1, <3>4 DEF Merged
      <4>2. New(e) \in Entry
        BY <3>2, <3>3, <4>1, EmptySeq DEF Entry
      <4>3. New(e) # Absent
        BY <4>2, ServerAssumption
      <4>4. Stack(New(e)) = <<>> /\ New(e).base = items[e]
        BY <4>1, <4>3 DEF Stack
      <4>5. Stack(entry[e]) = <<>>
        BY <2>1, <3>4 DEF Stack
      <4> QED BY <2>3, <4>2, <4>3, <4>4, <4>5
    <3>5. CASE Keep(e) # Absent
      <4>1. Keep(e) \in Entry
        BY <2>1, <3>5
      <4>2. New(e) = [Keep(e) EXCEPT !.base = items[e], !.listed = @ \/ Indexed(ids, e)]
        BY <3>1, <3>5 DEF Merged
      <4>3. /\ Keep(e) = [base |-> Keep(e).base, layers |-> Keep(e).layers, listed |-> Keep(e).listed]
            /\ Keep(e).layers \in Seq(Mutations) /\ Keep(e).listed \in BOOLEAN
        BY <4>1 DEF Entry
      <4>4. New(e) = [base |-> items[e], layers |-> Keep(e).layers,
                      listed |-> Keep(e).listed \/ Indexed(ids, e)]
        BY <4>2, <4>3
      <4>5. New(e) \in Entry
        BY <3>2, <3>3, <4>3, <4>4 DEF Entry
      <4>6. New(e) # Absent
        BY <4>5, ServerAssumption
      <4>7. Stack(New(e)) = Stack(Keep(e)) /\ New(e).base = items[e]
        BY <3>5, <4>4, <4>6 DEF Stack
      <4> QED BY <2>1, <2>3, <4>5, <4>6, <4>7
    <3> QED BY <3>4, <3>5
  <2> QED BY <2>2, <2>3
<1>5. entry' \in [Entities -> Entry \cup {Absent}]
  BY <1>2, <1>4
<1> QED BY <1>3, <1>4, <1>5

\* The answer to a mutation that made a row, or a snapshot, is merged alone.
LEMMA RowType ==
  ASSUME NEW e \in Entities, NEW row \in Value \cup {Absent}
  PROVE  Row(e, row) \in [Entities -> Value \cup {Absent}]
BY DEF Row

\* What a render shows is well typed.
LEMMA RenderType ==
  ASSUME NEW written, Render(written), view \in [Entities -> Value \cup {Absent}],
         watch \subseteq Entities, entry' \in [Entities -> Entry \cup {Absent}]
  PROVE  view' \in [Entities -> Value \cup {Absent}] /\ watch' \subseteq Entities
<1>1. Shown(entry', index') \in [Entities -> Value \cup {Absent}]
  BY ShownType
<1> QED BY <1>1 DEF Render

--------------------------------------------------------------------------------
(* What an update does to its entry *)

\* An entry is its fields.
LEMMA EntryFields ==
  ASSUME NEW x \in Entry
  PROVE  /\ x = [base |-> x.base, layers |-> x.layers, listed |-> x.listed]
         /\ x.base \in Value /\ x.layers \in Seq(Mutations) /\ x.listed \in BOOLEAN
         /\ x # Absent /\ Stack(x) = x.layers
BY ServerAssumption DEF Entry, Stack

\* A commit writes base and takes a layer, in one expression of two updates.
LEMMA EntryWritten ==
  ASSUME NEW x \in Entry, NEW b, NEW m
  PROVE  [x EXCEPT !.base = b, !.layers = Without(@, m)]
           = [base |-> b, layers |-> Without(x.layers, m), listed |-> x.listed]
<1>1. PICK p, q, r : x = [base |-> p, layers |-> q, listed |-> r]
  BY EntryFields
<1>2. [x EXCEPT !.base = b] = [base |-> b, layers |-> q, listed |-> r]
  BY <1>1
<1> DEFINE y == [x EXCEPT !.base = b]
<1>3. y = [base |-> b, layers |-> q, listed |-> r]
  BY <1>2
<1>4. x.layers = q /\ x.listed = r
  BY <1>1
<1>5. [x EXCEPT !.base = b, !.layers = Without(@, m)] = [y EXCEPT !.layers = Without(@, m)]
  OBVIOUS
<1> HIDE DEF y
<1>6. y.layers = q
  BY <1>3
<1>7. [y EXCEPT !.layers = Without(@, m)] = [y EXCEPT !.layers = Without(q, m)]
  BY <1>6
<1>8. [y EXCEPT !.layers = Without(q, m)] = [base |-> b, layers |-> Without(q, m), listed |-> r]
  BY <1>3
<1> QED BY <1>4, <1>5, <1>7, <1>8

\* Sending it puts its layer on the stack.
LEMMA LayerAdded ==
  ASSUME TypeOK, NEW m \in Mutations, SendUpdate(m)
  PROVE  /\ entry' \in [Entities -> Entry \cup {Absent}]
         /\ Target[m] \in Entities
         /\ \A e \in Entities \ {Target[m]} : entry'[e] = entry[e]
         /\ entry[Target[m]] = Absent => entry'[Target[m]] = Absent
         /\ entry[Target[m]] # Absent =>
              /\ entry[Target[m]] \in Entry
              /\ entry'[Target[m]] \in Entry
              /\ entry'[Target[m]].layers = Stacked(entry[Target[m]].layers, m)
              /\ entry'[Target[m]].base = entry[Target[m]].base
<1> DEFINE t == Target[m]
<1>1. t \in Entities /\ entry \in [Entities -> Entry \cup {Absent}]
  BY MutationAssumption DEF TypeOK
<1>2. CASE entry[t] = Absent
  BY <1>1, <1>2 DEF SendUpdate
<1>3. CASE entry[t] # Absent
  <2>1. entry[t] \in Entry
    BY <1>1, <1>3
  <2>2. entry' = [entry EXCEPT ![t].layers = Stacked(@, m)]
    BY <1>3 DEF SendUpdate
  <2> DEFINE x == entry[t]
             y == [base |-> x.base, layers |-> Stacked(x.layers, m), listed |-> x.listed]
  <2>3. entry'[t] = [x EXCEPT !.layers = Stacked(@, m)]
    BY <1>1, <2>2
  <2>4. x = [base |-> x.base, layers |-> x.layers, listed |-> x.listed]
    BY <2>1, EntryFields
  <2>5. [x EXCEPT !.layers = Stacked(@, m)] = y
    <3> HIDE DEF x
    <3> QED BY <2>4
  <2>6. y \in Entry
    <3>1. Stacked(x.layers, m) \in Seq(Mutations)
      BY <2>1, EntryFields, StackedType
    <3> QED BY <2>1, <3>1, EntryFields DEF Entry
  <2>7. entry' \in [Entities -> Entry \cup {Absent}]
    <3>1. entry' = [entry EXCEPT ![t] = y]
      BY <1>1, <2>2, <2>3, <2>5
    <3> HIDE DEF y
    <3> QED BY <1>1, <2>6, <3>1
  <2>8. \A e \in Entities \ {t} : entry'[e] = entry[e]
    BY <1>1, <2>2
  <2> QED BY <1>1, <1>3, <2>1, <2>3, <2>5, <2>6, <2>7, <2>8
<1> QED BY <1>2, <1>3

\* Its answer, or its failure, takes the layer away; only an answer writes base.
LEMMA LayerTaken ==
  ASSUME TypeOK, NoGhostLayer, Answers, NEW m \in Mutations, Kind[m] = "update",
         Commit(m) \/ Rollback(m)
  PROVE  /\ entry' \in [Entities -> Entry \cup {Absent}]
         /\ Target[m] \in Entities
         /\ \A e \in Entities \ {Target[m]} : entry'[e] = entry[e]
         /\ entry[Target[m]] = Absent => entry'[Target[m]] = Absent
         /\ entry[Target[m]] # Absent =>
              /\ entry[Target[m]] \in Entry
              /\ entry'[Target[m]] \in Entry
              /\ entry'[Target[m]].layers = Without(entry[Target[m]].layers, m)
              /\ Rollback(m) => entry'[Target[m]].base = entry[Target[m]].base
<1> DEFINE t == Target[m]
<1>1. t \in Entities /\ entry \in [Entities -> Entry \cup {Absent}]
  BY MutationAssumption DEF TypeOK
<1>2. CASE entry[t] = Absent
  BY <1>1, <1>2 DEF Commit, Rollback
<1>3. CASE entry[t] # Absent
  <2>1. entry[t] \in Entry
    BY <1>1, <1>3
  <2> DEFINE x == entry[t]
  <2>2. PICK b \in Value : /\ entry' = [entry EXCEPT ![t].base = b, ![t].layers = Without(@, m)]
                           /\ Rollback(m) => b = x.base
    <3>1. CASE Commit(m)
      <4>1. answer[m] \in Value
        BY <3>1 DEF Commit, Step, Answers, TypeOK
      <4>2. ~Rollback(m)
        BY <3>1 DEF Commit, Rollback, Step, TypeOK
      <4>3. entry' = [entry EXCEPT ![t].base = answer[m], ![t].layers = Without(@, m)]
        BY <1>3, <3>1 DEF Commit
      <4> QED BY <4>1, <4>2, <4>3
    <3>2. CASE Rollback(m)
      <4>1. entry' = [entry EXCEPT ![t].layers = Without(@, m)]
        BY <1>3, <3>2 DEF Rollback
      <4>2. x = [base |-> x.base, layers |-> x.layers, listed |-> x.listed]
        BY <2>1, EntryFields
      <4>3. [x EXCEPT !.base = x.base, !.layers = Without(@, m)]
              = [x EXCEPT !.layers = Without(@, m)]
        <5> HIDE DEF x
        <5> QED BY <4>2
      <4>4. entry' = [entry EXCEPT ![t] = [x EXCEPT !.layers = Without(@, m)]]
        BY <1>1, <4>1
      <4>5. entry' = [entry EXCEPT ![t] = [x EXCEPT !.base = x.base, !.layers = Without(@, m)]]
        BY <4>3, <4>4
      <4>6. entry' = [entry EXCEPT ![t].base = x.base, ![t].layers = Without(@, m)]
        BY <1>1, <4>5
      <4> QED BY <2>1, <4>6, EntryFields
    <3> QED BY <3>1, <3>2
  <2> DEFINE y == [base |-> b, layers |-> Without(x.layers, m), listed |-> x.listed]
  <2>3. entry'[t] = [x EXCEPT !.base = b, !.layers = Without(@, m)]
    BY <1>1, <2>2
  <2>5. [x EXCEPT !.base = b, !.layers = Without(@, m)] = y
    BY <2>1, EntryWritten
  <2>6. y \in Entry
    <3>1. \A i, j \in DOMAIN x.layers : id[x.layers[i]] = id[x.layers[j]] => i = j
      BY <1>1, <1>3 DEF NoGhostLayer
    <3>2. Without(x.layers, m) \in Seq(Mutations)
      BY <2>1, <3>1, EntryFields, WithoutProperties
    <3> QED BY <2>1, <3>2, EntryFields DEF Entry
  <2>7. entry' = [entry EXCEPT ![t] = y]
    BY <1>1, <2>2, <2>3, <2>5
  <2>8. /\ entry' \in [Entities -> Entry \cup {Absent}] /\ entry'[t] = y
        /\ \A e \in Entities \ {t} : entry'[e] = entry[e]
    <3> HIDE DEF y
    <3> QED BY <1>1, <2>6, <2>7
  <2>9. y.layers = Without(x.layers, m) /\ (Rollback(m) => y.base = x.base)
    BY <2>2
  <2> QED BY <1>1, <1>3, <2>1, <2>6, <2>8, <2>9
<1> QED BY <1>2, <1>3

--------------------------------------------------------------------------------
(* Types *)

Phases == {"idle", "sent", "served", "refused", "done", "undone", "lost"}

\* A step of a mutation moves that mutation only.
LEMMA StepMoves ==
  ASSUME TypeOK, NEW m \in Mutations, NEW from, NEW to \in Phases, Step(m, from, to)
  PROVE  /\ phase' \in [Mutations -> Phases]
         /\ phase[m] = from /\ phase'[m] = to
         /\ \A n \in Mutations \ {m} : phase'[n] = phase[n]
BY DEF Step, TypeOK, Phases

\* What each action does to the entries is well typed, and keeps the layers of all
\* but the entity of an update or a delete.
LEMMA DeleteEffect ==
  ASSUME TypeOK, NEW m \in Mutations, SendDelete(m)
  PROVE  /\ entry' \in [Entities -> Entry \cup {Absent}]
         /\ Target[m] \in Entities
         /\ entry'[Target[m]] = Absent
         /\ \A e \in Entities \ {Target[m]} : entry'[e] = entry[e]
         /\ undo' \in [Mutations -> [entity : Value \cup {Absent},
                                     index : {Absent} \cup SUBSET Entities]]
         /\ index' \in {Absent} \cup SUBSET Entities
         /\ \A e \in Entities : Indexed(index', e) <=> Indexed(index, e) /\ e # Target[m]
<1> DEFINE t == Target[m]
           r == [entity |-> Snapshot(t), index |-> IF Indexed(index, t) THEN index ELSE Absent]
<1>1. t \in Entities /\ entry \in [Entities -> Entry \cup {Absent}]
  BY MutationAssumption DEF TypeOK
<1>2. entry' = [entry EXCEPT ![t] = Absent] /\ undo' = [undo EXCEPT ![m] = r]
  BY DEF SendDelete
<1>3. Snapshot(t) \in Value \cup {Absent}
  <2>1. CASE entry[t] = Absent
    BY <2>1 DEF Snapshot, Visible
  <2>2. CASE entry[t] # Absent
    BY <1>1, <2>2, VisibleType DEF Snapshot
  <2> QED BY <2>1, <2>2
<1>4. r \in [entity : Value \cup {Absent}, index : {Absent} \cup SUBSET Entities]
  BY <1>3 DEF TypeOK
<1> HIDE DEF r
<1>5. undo' \in [Mutations -> [entity : Value \cup {Absent},
                               index : {Absent} \cup SUBSET Entities]]
  BY <1>2, <1>4 DEF TypeOK
<1>6. index' = IF index = Absent THEN Absent ELSE index \ {t}
  BY DEF SendDelete
<1>7. index' \in {Absent} \cup SUBSET Entities
  BY <1>6 DEF TypeOK
<1>8. \A e \in Entities : Indexed(index', e) <=> Indexed(index, e) /\ e # t
  <2>1. CASE index = Absent
    BY <1>6, <2>1 DEF Indexed
  <2>2. CASE index # Absent
    <3>1. index \ {t} \in SUBSET Entities
      BY <2>2 DEF TypeOK
    <3>2. index \ {t} # Absent
      BY <3>1, ServerAssumption
    <3> QED BY <1>6, <2>2, <3>2 DEF Indexed
  <2> QED BY <2>1, <2>2
<1> QED BY <1>1, <1>2, <1>5, <1>7, <1>8

\* Which merge a finished create or a rolled back delete makes.
LEMMA FinishMerges ==
  ASSUME TypeOK, NEW m \in Mutations, Kind[m] # "update", Commit(m) \/ Rollback(m)
  PROVE  /\ entry' \in [Entities -> Entry \cup {Absent}]
         /\ \A e \in Entities : Stack(entry'[e]) = Stack(entry[e])
         /\ Commit(m) \/ Kind[m] = "create" =>
              /\ \A e \in Entities : Indexed(index, e) /\ entry[e] # Absent => entry'[e] # Absent
              /\ index' = index
         /\ index' \in {Absent} \cup SUBSET Entities
<1>1. Target[m] \in Entities
  BY MutationAssumption
<1>2. CASE UNCHANGED entry
  BY <1>2 DEF TypeOK, Commit, Rollback
<1>3. ASSUME NEW row \in Value \cup {Absent}, NEW ids, Merge(Row(Target[m], row), ids)
      PROVE  /\ entry' \in [Entities -> Entry \cup {Absent}]
             /\ \A e \in Entities :
                  /\ Stack(entry'[e]) = Stack(entry[e])
                  /\ Indexed(index, e) /\ entry[e] # Absent => entry'[e] # Absent
  <2> DEFINE items == Row(Target[m], row)
  <2>1. items \in [Entities -> Value \cup {Absent}]
    BY <1>1, RowType
  <2>2. entry \in [Entities -> Entry \cup {Absent}]
    BY DEF TypeOK
  <2> HIDE DEF items
  <2>3. Merge(items, ids)
    BY <1>3 DEF items
  <2> QED BY <2>1, <2>2, <2>3, MergeEffect
<1>4. CASE Commit(m)
  <2>1. answer[m] \in Value \cup {Absent} /\ index' = index
    BY <1>4 DEF TypeOK, Commit
  <2>2. Merge(Row(Target[m], answer[m]), index) \/ UNCHANGED entry
    BY <1>4 DEF Commit
  <2> QED BY <1>2, <1>3, <1>4, <2>1, <2>2 DEF TypeOK
<1>5. CASE Rollback(m)
  <2>0. /\ undo[m].entity \in Value \cup {Absent}
        /\ undo[m].index \in {Absent} \cup SUBSET Entities
    BY DEF TypeOK
  <2>1. Kind[m] = "create" => UNCHANGED <<entry, index>>
    BY <1>5 DEF Rollback
  <2>2. Kind[m] # "create" =>
          /\ index' = IF undo[m].index = Absent THEN index ELSE undo[m].index
          /\ Merge(Row(Target[m], undo[m].entity), index') \/ UNCHANGED entry
    BY <1>5 DEF Rollback
  <2>3. index' \in {Absent} \cup SUBSET Entities
    BY <2>0, <2>1, <2>2 DEF TypeOK
  <2>4. ~Commit(m)
    BY <1>5 DEF Commit, Rollback, Step, TypeOK
  <2>5. CASE Kind[m] = "create"
    BY <1>2, <2>1, <2>3, <2>5
  <2>6. CASE Kind[m] # "create"
    BY <1>2, <1>3, <2>0, <2>2, <2>3, <2>4, <2>6 DEF TypeOK
  <2> QED BY <2>5, <2>6
<1> QED BY <1>4, <1>5

\* A list that is merged has an entry for each of its rows.
LEMMA ListMerges ==
  ASSUME TypeOK, AcceptList
  PROVE  /\ entry' \in [Entities -> Entry \cup {Absent}]
         /\ index' \in SUBSET Entities /\ index' # Absent
         /\ \A e \in Entities :
              /\ Stack(entry'[e]) = Stack(entry[e])
              /\ Indexed(index', e) <=> rows[e] # Absent
              /\ rows[e] # Absent => entry'[e] # Absent /\ entry'[e].base = rows[e]
<1>1. /\ entry \in [Entities -> Entry \cup {Absent}]
      /\ rows \in [Entities -> Value \cup {Absent}]
  BY DEF TypeOK
<1>2. index' = {e \in Entities : rows[e] # Absent} /\ Merge(rows, index')
  BY DEF AcceptList
<1>3. index' # Absent
  BY <1>2, ServerAssumption
<1>4. \A e \in Entities : Indexed(index', e) <=> rows[e] # Absent
  BY <1>2, <1>3 DEF Indexed
<1> QED BY <1>1, <1>2, <1>3, <1>4, MergeEffect

\* The server writes rows.
LEMMA ServeType ==
  ASSUME TypeOK, Answers, NEW m \in Mutations, Serve(m)
  PROVE  /\ server' \in [Entities -> Value \cup {Absent}]
         /\ answer' \in [Mutations -> Value \cup {Absent}]
         /\ Answers'
<1> DEFINE row == CASE Kind[m] = "create" -> [f \in Fields |-> m]
                    [] Kind[m] = "update" -> Patched(server[Target[m]], m)
                    [] Kind[m] = "delete" -> Absent
<1>1. Target[m] \in Entities /\ Kind[m] \in {"create", "update", "delete"}
  BY MutationAssumption
<1>2. Kind[m] = "create" => row \in Value
  BY DEF Value
<1>3. Kind[m] = "update" => row \in Value
  <2> SUFFICES ASSUME Kind[m] = "update" PROVE row \in Value
    OBVIOUS
  <2>1. server[Target[m]] \in Value
    BY <1>1 DEF Serve, TypeOK
  <2>2. row = Patched(server[Target[m]], m)
    OBVIOUS
  <2>3. \A f \in Fields : server[Target[m]][f] \in Mutations \cup {Original}
    BY <2>1 DEF Value
  <2> HIDE DEF row
  <2> QED BY <2>2, <2>3 DEF Patched, Value
<1>4. Kind[m] = "delete" => row = Absent
  OBVIOUS
<1>5. server' = [server EXCEPT ![Target[m]] = row] /\ answer' = [answer EXCEPT ![m] = row]
  BY DEF Serve
<1> HIDE DEF row
<1>6. row \in Value \cup {Absent}
  BY <1>1, <1>2, <1>3, <1>4
<1>7. /\ server' \in [Entities -> Value \cup {Absent}]
      /\ answer' \in [Mutations -> Value \cup {Absent}]
  BY <1>5, <1>6 DEF TypeOK
<1>8. Step(m, "sent", "served")
  BY DEF Serve
<1>9. \A n \in Mutations \ {m} : phase'[n] = phase[n] /\ answer'[n] = answer[n]
  BY <1>5, <1>8, StepMoves DEF Phases, TypeOK
<1>10. answer'[m] = row
  BY <1>5 DEF TypeOK
<1>11. Kind[m] = "update" => row # Absent
  BY <1>3, ServerAssumption
<1>12. Answers'
  BY <1>9, <1>10, <1>11 DEF Answers
<1> QED BY <1>7, <1>12

\* Every step keeps the types, and the answers to updates.
LEMMA TypeStep ==
  ASSUME TypeOK, NoGhostLayer, Answers, [Next]_vars
  PROVE  TypeOK' /\ Answers'
<1> USE DEF mutating, naming
<1>r. ASSUME NEW w, Render(w), entry' \in [Entities -> Entry \cup {Absent}]
      PROVE  view' \in [Entities -> Value \cup {Absent}] /\ watch' \subseteq Entities
  BY <1>r, RenderType DEF TypeOK
<1>p. ASSUME NEW m \in Mutations, NEW from, NEW to \in Phases \ {"served"}, Step(m, from, to),
             UNCHANGED answer
      PROVE  phase' \in [Mutations -> Phases] /\ Answers'
  <2>1. /\ phase' \in [Mutations -> Phases] /\ phase'[m] = to
        /\ \A n \in Mutations \ {m} : phase'[n] = phase[n]
    BY <1>p, StepMoves
  <2>2. Answers'
    BY <1>p, <2>1 DEF Answers
  <2> QED BY <2>1, <2>2
<1>1. ASSUME NEW m \in Mutations, SendUpdate(m) PROVE TypeOK' /\ Answers'
  <2>1. entry' \in [Entities -> Entry \cup {Absent}]
    BY <1>1, LayerAdded
  <2>2. Step(m, "idle", "sent") /\ Render(FALSE)
        /\ UNCHANGED <<server, answer, undo, index, list, rows, polls>>
    BY <1>1 DEF SendUpdate
  <2>3. phase' \in [Mutations -> Phases] /\ Answers'
    BY <2>2, <1>p DEF Phases
  <2>4. moment' \subseteq Mutations /\ id' \in [Mutations -> Mutations]
    BY <1>1, NameEffect DEF SendUpdate
  <2> QED BY <2>1, <2>2, <2>3, <2>4, <1>r DEF TypeOK, Phases
<1>2. ASSUME NEW m \in Mutations, SendDelete(m) PROVE TypeOK' /\ Answers'
  <2>1. /\ entry' \in [Entities -> Entry \cup {Absent}]
        /\ undo' \in [Mutations -> [entity : Value \cup {Absent},
                                    index : {Absent} \cup SUBSET Entities]]
        /\ index' \in {Absent} \cup SUBSET Entities
    BY <1>2, DeleteEffect
  <2>2. /\ Step(m, "idle", "sent") /\ Render(FALSE)
        /\ UNCHANGED <<naming, server, answer, list, rows, polls>>
    BY <1>2 DEF SendDelete
  <2>3. phase' \in [Mutations -> Phases] /\ Answers'
    BY <2>2, <1>p DEF Phases
  <2> QED BY <2>1, <2>2, <2>3, <1>r DEF TypeOK, Phases
<1>3. ASSUME NEW m \in Mutations, SendCreate(m) \/ Refuse(m) PROVE TypeOK' /\ Answers'
  <2>1. /\ Step(m, "idle", "sent") \/ Step(m, "sent", "refused")
        /\ UNCHANGED <<naming, server, answer, undo, entry, index, list, rows, polls, view, watch>>
    BY <1>3 DEF SendCreate, Refuse
  <2>2. phase' \in [Mutations -> Phases] /\ Answers'
    BY <2>1, <1>p DEF Phases
  <2> QED BY <2>1, <2>2 DEF TypeOK, Phases
<1>4. ASSUME NEW m \in Mutations, Serve(m) PROVE TypeOK' /\ Answers'
  <2>1. /\ server' \in [Entities -> Value \cup {Absent}]
        /\ answer' \in [Mutations -> Value \cup {Absent}]
        /\ Answers'
    BY <1>4, ServeType
  <2>2. /\ Step(m, "sent", "served")
        /\ UNCHANGED <<naming, undo, entry, index, list, rows, polls, view, watch>>
    BY <1>4 DEF Serve
  <2>3. phase' \in [Mutations -> Phases]
    BY <2>2, StepMoves DEF Phases
  <2> QED BY <2>1, <2>2, <2>3 DEF TypeOK, Phases
<1>5. ASSUME NEW m \in Mutations, Commit(m) \/ Rollback(m) PROVE TypeOK' /\ Answers'
  <2>1. /\ entry' \in [Entities -> Entry \cup {Absent}]
        /\ index' \in {Absent} \cup SUBSET Entities
    <3>1. CASE Kind[m] = "update"
      <4>1. UNCHANGED index
        BY <1>5, <3>1 DEF Commit, Rollback
      <4> QED BY <1>5, <3>1, <4>1, LayerTaken DEF TypeOK
    <3>2. CASE Kind[m] # "update"
      BY <1>5, <3>2, FinishMerges
    <3> QED BY <3>1, <3>2
  <2>2. /\ \E from \in Phases, to \in Phases \ {"served"} : Step(m, from, to)
        /\ Render(FALSE)
        /\ UNCHANGED <<naming, server, answer, undo, rows, polls>>
        /\ list' \in {list, "sent"}
    BY <1>5 DEF Commit, Rollback, Phases
  <2>3. phase' \in [Mutations -> Phases] /\ Answers'
    BY <2>2, <1>p
  <2> QED BY <2>1, <2>2, <2>3, <1>r DEF TypeOK, Phases
<1>6. CASE Poll \/ ServeList \/ FailList
  <2>1. /\ UNCHANGED <<mutating, naming, entry, index, view, watch>>
        /\ polls' \in 0..MaxPolls
        /\ list' \in {"sent", "answered", "failed", "idle"}
        /\ rows' \in [Entities -> Value \cup {Absent}]
    BY <1>6, ServerAssumption DEF Poll, ServeList, FailList, TypeOK
  <2> QED BY <2>1 DEF TypeOK, Answers
<1>7. CASE AcceptList
  <2>1. entry' \in [Entities -> Entry \cup {Absent}] /\ index' \in SUBSET Entities
    BY <1>7, ListMerges
  <2>2. UNCHANGED <<mutating, naming, rows, polls>> /\ list' = "idle" /\ Render(TRUE)
    BY <1>7 DEF AcceptList
  <2> QED BY <2>1, <2>2, <1>r DEF TypeOK, Answers
<1>8. CASE Tick
  BY <1>8 DEF Tick, TypeOK, Answers
<1>9. CASE UNCHANGED vars
  BY <1>9 DEF vars, TypeOK, Answers
<1> QED
  BY <1>1, <1>2, <1>3, <1>4, <1>5, <1>6, <1>7, <1>8, <1>9 DEF Next

--------------------------------------------------------------------------------
(* Layers *)

\* The layers of an entry are those on its stack.
LEMMA StackLayers ==
  ASSUME NEW x
  PROVE  Layers(x) = {Stack(x)[i] : i \in DOMAIN Stack(x)}
BY DEF Layers, Stack

\* What an entry may hold.
Honest(s, e) == /\ \A i \in DOMAIN s : /\ s[i] \in Mutations /\ Pending(s[i])
                                       /\ Target[s[i]] = e /\ Kind[s[i]] = "update"
                /\ \A i, j \in DOMAIN s : id[s[i]] = id[s[j]] => i = j

\* NoGhostLayer says so of every stack.
LEMMA HonestStacks ==
  ASSUME TypeOK
  PROVE  NoGhostLayer <=> \A e \in Entities : Honest(Stack(entry[e]), e)
<1> SUFFICES ASSUME NEW e \in Entities
             PROVE  (/\ \A m \in Layers(entry[e]) :
                          Pending(m) /\ Target[m] = e /\ Kind[m] = "update"
                     /\ entry[e] # Absent =>
                          \A i, j \in DOMAIN entry[e].layers :
                            id[entry[e].layers[i]] = id[entry[e].layers[j]] => i = j)
                    <=> Honest(Stack(entry[e]), e)
  BY DEF NoGhostLayer
<1>1. CASE entry[e] = Absent
  BY <1>1 DEF Layers, Stack, Honest
<1>2. CASE entry[e] # Absent
  <2>1. Stack(entry[e]) = entry[e].layers /\ entry[e].layers \in Seq(Mutations)
    BY <1>2, EntryFields DEF TypeOK
  <2>2. \A i \in DOMAIN entry[e].layers : entry[e].layers[i] \in Mutations
    BY <2>1, LenProperties, ElementOfSeq
  <2> QED BY <1>2, <2>1, <2>2 DEF Layers, Honest
<1> QED BY <1>1, <1>2

AllHonest == \A e \in Entities : Honest(Stack(entry[e]), e)

\* So it does of the next state.
LEMMA HonestStacksNext == TypeOK' => (NoGhostLayer' <=> AllHonest')
<1>1. TypeOK => (NoGhostLayer <=> AllHonest)
  BY HonestStacks DEF AllHonest
<1> QED BY <1>1, PTL

\* The same of the next state, for a mutation that this state names.
StillPending(m) == phase'[m] \in {"sent", "served", "refused"}

\* A layer that leaves has been answered, its entity is deleted, or an update of
\* its id takes its place.
Left(e, m) == ~Pending(m)' \/ Deleting(e) \/ Renaming(m)
LayersLeft == \A e \in Entities : \A m \in Layers(entry[e]) \ Layers(entry'[e]) : Left(e, m)

\* Most steps keep all layers and end no update.
LEMMA StacksKept ==
  ASSUME TypeOK, TypeOK', NoGhostLayer, UNCHANGED id,
         \A e \in Entities : Stack(entry'[e]) = Stack(entry[e]),
         \A n \in Mutations : Kind[n] = "update" /\ Pending(n) => Pending(n)'
  PROVE  NoGhostLayer' /\ LayersLeft
<1>1. ASSUME NEW e \in Entities PROVE Honest(Stack(entry[e]), e)'
  <2>1. Honest(Stack(entry[e]), e)
    BY HonestStacks
  <2> QED BY <2>1 DEF Honest
<1>2. \A e \in Entities : Layers(entry'[e]) = Layers(entry[e])
  BY StackLayers
<1> QED BY <1>1, <1>2, HonestStacksNext DEF LayersLeft, AllHonest

\* An update that ends takes the layer of its id with it, and no other.
LEMMA OwnLayerTaken ==
  ASSUME TypeOK, TypeOK', NoGhostLayer, Answers, NEW m \in Mutations, Kind[m] = "update",
         Commit(m) \/ Rollback(m)
  PROVE  NoGhostLayer' /\ LayersLeft
<1> DEFINE t == Target[m]
           s == Stack(entry[t])
<1>1. /\ t \in Entities
      /\ \A e \in Entities \ {t} : entry'[e] = entry[e]
      /\ Stack(entry'[t]) = IF entry[t] = Absent THEN <<>> ELSE Without(s, m)
      /\ s \in Seq(Mutations)
  <2>1. CASE entry[t] = Absent
    BY <2>1, LayerTaken, EmptySeq DEF Stack
  <2>2. CASE entry[t] # Absent
    <3>1. /\ entry[t] \in Entry /\ entry'[t] \in Entry
          /\ entry'[t].layers = Without(entry[t].layers, m)
      BY <2>2, LayerTaken
    <3> QED BY <2>2, <3>1, LayerTaken, EntryFields
  <2> QED BY <2>1, <2>2
<1>2. \A e \in Entities : Honest(Stack(entry[e]), e)
  BY HonestStacks
<1>3. \A n \in Mutations \ {m} : phase'[n] = phase[n]
  <2>1. \E from \in Phases, to \in Phases : Step(m, from, to)
    BY DEF Commit, Rollback, Phases
  <2> QED BY <2>1, StepMoves
<1>4. /\ \A n \in Mutations \ {m} : Pending(n) => StillPending(n)
      /\ id' = id
  BY <1>3 DEF Pending, StillPending, Commit, Rollback, naming
<1>5. \A e \in Entities \ {t} : \A i \in DOMAIN Stack(entry[e]) : Stack(entry[e])[i] # m
  BY <1>2 DEF Honest
<1>6. ASSUME NEW e \in Entities \ {t} PROVE Honest(Stack(entry[e]), e)'
  <2>1. entry'[e] = entry[e]
    BY <1>1
  <2> QED BY <1>2, <1>4, <1>5, <2>1 DEF Honest, Pending, StillPending
<1>7. Honest(Stack(entry[t]), t)' /\ \A n \in Layers(entry[t]) \ Layers(entry'[t]) : id[n] = id[m]
  <2>1. CASE entry[t] = Absent
    <3>1. Stack(entry'[t]) = <<>> /\ Layers(entry[t]) = {}
      BY <1>1, <2>1 DEF Layers
    <3> QED BY <3>1 DEF Honest
  <2>2. CASE entry[t] # Absent
    <3> DEFINE w == Without(s, m)
    <3>1. Stack(entry'[t]) = w
      BY <1>1, <2>2
    <3>2. Honest(s, t)
      BY <1>1, <1>2
    <3>3. /\ w \in Seq(Mutations)
          /\ \A i \in DOMAIN w : id[w[i]] # id[m] /\ \E j \in DOMAIN s : w[i] = s[j]
          /\ \A j \in DOMAIN s : id[s[j]] # id[m] => \E i \in DOMAIN w : w[i] = s[j]
          /\ \A i, j \in DOMAIN w : id[w[i]] = id[w[j]] => i = j
      <4>1. \A i, j \in DOMAIN s : id[s[i]] = id[s[j]] => i = j
        BY <3>2 DEF Honest
      <4> HIDE DEF s
      <4> QED BY <1>1, <4>1, WithoutProperties
    <3>4. Layers(entry[t]) = {s[i] : i \in DOMAIN s}
      BY StackLayers
    <3>5. Layers(entry'[t]) = {w[i] : i \in DOMAIN w}
      BY <3>1, StackLayers
    <3> HIDE DEF w, s
    <3>6. \A n \in Layers(entry[t]) \ Layers(entry'[t]) : id[n] = id[m]
      BY <3>3, <3>4, <3>5
    <3>7. \A i \in DOMAIN w : /\ w[i] \in Mutations /\ StillPending(w[i])
                              /\ Target[w[i]] = t /\ Kind[w[i]] = "update"
      <4>1. \A i \in DOMAIN w : w[i] # m
        BY <3>3
      <4> QED BY <1>4, <3>2, <3>3, <4>1 DEF Honest
    <3>8. Honest(Stack(entry[t]), t)'
      BY <1>4, <3>1, <3>3, <3>7 DEF Honest, Pending, StillPending
    <3> QED BY <3>6, <3>8
  <2> QED BY <2>1, <2>2
<1>8. ~Pending(m)' /\ Moves(m)
  <2>1. \E from \in {"served", "refused"}, to \in {"done", "undone", "lost"} : Step(m, from, to)
    BY DEF Commit, Rollback
  <2>2. phase[m] \in {"served", "refused"} /\ phase'[m] \in {"done", "undone", "lost"}
    BY <2>1, StepMoves DEF Phases
  <2> QED BY <2>2 DEF Pending, Moves
<1>9. LayersLeft
  <2> SUFFICES ASSUME NEW e \in Entities, NEW n \in Layers(entry[e]) \ Layers(entry'[e])
               PROVE  Left(e, n)
    BY DEF LayersLeft
  <2>1. e = t
    BY <1>1
  <2>2. id'[n] = id'[m]
    BY <1>4, <1>7, <2>1
  <2> QED BY <1>8, <2>2 DEF Left, Renaming
<1>10. NoGhostLayer'
  BY <1>6, <1>7, HonestStacksNext DEF AllHonest
<1> QED BY <1>9, <1>10

\* An update that is sent adds its layer, or puts it in the place of one of its id.
LEMMA OwnLayerAdded ==
  ASSUME TypeOK, TypeOK', NoGhostLayer, NEW m \in Mutations, SendUpdate(m)
  PROVE  NoGhostLayer' /\ LayersLeft
<1> DEFINE t == Target[m]
           s == Stack(entry[t])
<1>1. /\ t \in Entities
      /\ \A e \in Entities \ {t} : entry'[e] = entry[e]
      /\ Stack(entry'[t]) = IF entry[t] = Absent THEN <<>> ELSE Stacked(s, m)
      /\ s \in Seq(Mutations)
  <2>1. CASE entry[t] = Absent
    BY <2>1, LayerAdded, EmptySeq DEF Stack
  <2>2. CASE entry[t] # Absent
    <3>1. /\ entry[t] \in Entry /\ entry'[t] \in Entry
          /\ entry'[t].layers = Stacked(entry[t].layers, m)
      BY <2>2, LayerAdded
    <3> QED BY <2>2, <3>1, LayerAdded, EntryFields
  <2> QED BY <2>1, <2>2
<1>2. \A e \in Entities : Honest(Stack(entry[e]), e)
  BY HonestStacks
<1>3. phase[m] = "idle" /\ phase'[m] = "sent" /\ \A n \in Mutations \ {m} : phase'[n] = phase[n]
  <2>1. Step(m, "idle", "sent")
    BY DEF SendUpdate
  <2> QED BY <2>1, StepMoves DEF Phases
<1>4. /\ StillPending(m) /\ ~Pending(m) /\ Moves(m)
      /\ \A n \in Mutations : Pending(n) => StillPending(n)
  BY <1>3 DEF Pending, StillPending, Moves
<1>n. \A n \in Mutations \ {m} : id'[n] = id[n]
  BY NameEffect DEF SendUpdate
<1>o. \A e \in Entities : \A i \in DOMAIN Stack(entry[e]) :
        /\ Stack(entry[e])[i] # m
        /\ id'[Stack(entry[e])[i]] = id[Stack(entry[e])[i]]
  BY <1>2, <1>4, <1>n DEF Honest
<1>5. ASSUME NEW e \in Entities \ {t} PROVE Honest(Stack(entry[e]), e)'
  <2>1. entry'[e] = entry[e]
    BY <1>1
  <2> QED BY <1>2, <1>4, <1>o, <2>1 DEF Honest, Pending, StillPending
<1>6. /\ Honest(Stack(entry[t]), t)'
      /\ \A n \in Layers(entry[t]) \ Layers(entry'[t]) : n # m /\ id'[n] = id'[m]
  <2>1. CASE entry[t] = Absent
    <3>1. Stack(entry'[t]) = <<>> /\ Layers(entry[t]) = {}
      BY <1>1, <2>1 DEF Layers
    <3> QED BY <3>1 DEF Honest
  <2>2. CASE entry[t] # Absent
    <3> DEFINE a == Stacked(s, m)
    <3>1. Stack(entry'[t]) = a
      BY <1>1, <2>2
    <3>2. Honest(s, t)
      BY <1>1, <1>2
    <3>3. \A i \in DOMAIN s : s[i] # m
      BY <1>1, <1>o
    <3>4. /\ \A i \in DOMAIN a : a[i] = m \/ \E j \in DOMAIN s : a[i] = s[j]
          /\ \A j \in DOMAIN s : id'[s[j]] # id'[m] => \E i \in DOMAIN a : a[i] = s[j]
          /\ \A i, j \in DOMAIN a : id'[a[i]] = id'[a[j]] => i = j
      <4>1. \A i, j \in DOMAIN s : id[s[i]] = id[s[j]] => i = j
        BY <3>2 DEF Honest
      <4> HIDE DEF s
      <4> QED BY <1>1, <1>n, <3>3, <4>1, StackedProperties
    <3>5. Layers(entry[t]) = {s[i] : i \in DOMAIN s}
      BY StackLayers
    <3>6. Layers(entry'[t]) = {a[i] : i \in DOMAIN a}
      BY <3>1, StackLayers
    <3> HIDE DEF a, s
    <3>7. \A n \in Layers(entry[t]) \ Layers(entry'[t]) : n # m /\ id'[n] = id'[m]
      BY <3>3, <3>4, <3>5, <3>6
    <3>8. Kind[m] = "update"
      BY DEF SendUpdate
    <3>9. \A i \in DOMAIN a : /\ a[i] \in Mutations /\ StillPending(a[i])
                              /\ Target[a[i]] = t /\ Kind[a[i]] = "update"
      BY <1>4, <3>2, <3>4, <3>8 DEF Honest
    <3>10. Honest(Stack(entry[t]), t)'
      BY <3>1, <3>4, <3>9 DEF Honest, Pending, StillPending
    <3> QED BY <3>7, <3>10
  <2> QED BY <2>1, <2>2
<1>7. LayersLeft
  <2> SUFFICES ASSUME NEW e \in Entities, NEW n \in Layers(entry[e]) \ Layers(entry'[e])
               PROVE  Left(e, n)
    BY DEF LayersLeft
  <2>1. e = t
    BY <1>1
  <2> QED BY <1>4, <1>6, <2>1 DEF Left, Renaming
<1>8. NoGhostLayer'
  BY <1>5, <1>6, HonestStacksNext DEF AllHonest
<1> QED BY <1>7, <1>8

\* A delete takes the entry with all its layers.
LEMMA LayersDeleted ==
  ASSUME TypeOK, TypeOK', NoGhostLayer, NEW m \in Mutations, SendDelete(m)
  PROVE  NoGhostLayer' /\ LayersLeft
<1>1. /\ Target[m] \in Entities /\ entry'[Target[m]] = Absent
      /\ \A e \in Entities \ {Target[m]} : entry'[e] = entry[e]
  BY DeleteEffect
<1>2. phase[m] = "idle" /\ phase'[m] = "sent" /\ \A n \in Mutations \ {m} : phase'[n] = phase[n]
  <2>1. Step(m, "idle", "sent")
    BY DEF SendDelete
  <2> QED BY <2>1, StepMoves DEF Phases
<1>3. (\A n \in Mutations : Pending(n) => Pending(n)') /\ id' = id
  BY <1>2 DEF Pending, SendDelete, naming
<1>4. \A e \in Entities : Honest(Stack(entry[e]), e)
  BY HonestStacks
<1>5. ASSUME NEW e \in Entities PROVE Honest(Stack(entry[e]), e)'
  <2>1. CASE e = Target[m]
    <3>1. Stack(entry'[e]) = <<>>
      BY <1>1, <2>1 DEF Stack
    <3> QED BY <3>1 DEF Honest
  <2>2. CASE e # Target[m]
    <3>1. entry'[e] = entry[e]
      BY <1>1, <2>2
    <3> QED BY <1>3, <1>4, <3>1 DEF Honest
  <2> QED BY <2>1, <2>2
<1>6. LayersLeft
  <2> SUFFICES ASSUME NEW e \in Entities, NEW n \in Layers(entry[e]) \ Layers(entry'[e])
               PROVE  Left(e, n)
    BY DEF LayersLeft
  <2>1. e = Target[m]
    BY <1>1
  <2>2. Kind[m] = "delete" /\ Moves(m)
    BY <1>2 DEF SendDelete, Moves
  <2> QED BY <2>1, <2>2 DEF Left, Deleting
<1> QED BY <1>5, <1>6, HonestStacksNext DEF AllHonest

\* Every step keeps the layers of pending updates, and no others.
LEMMA LayerStep ==
  ASSUME TypeOK, TypeOK', NoGhostLayer, Answers, [Next]_vars
  PROVE  NoGhostLayer' /\ LayersLeft
<1>1. ASSUME NEW m \in Mutations, NEW from \in Phases, NEW to \in {"sent", "served", "refused"},
             Step(m, from, to)
      PROVE  \A n \in Mutations : Pending(n) => Pending(n)'
  BY <1>1, StepMoves DEF Pending, Phases
<1>2. ASSUME NEW m \in Mutations, SendCreate(m) \/ Serve(m) \/ Refuse(m)
      PROVE  NoGhostLayer' /\ LayersLeft
  <2>1. UNCHANGED <<entry, id>>
    BY <1>2 DEF SendCreate, Serve, Refuse, naming
  <2>2. \A n \in Mutations : Pending(n) => Pending(n)'
    BY <1>1, <1>2 DEF SendCreate, Serve, Refuse, Phases
  <2> QED BY <2>1, <2>2, StacksKept
<1>3. ASSUME NEW m \in Mutations, Commit(m) \/ Rollback(m), Kind[m] # "update"
      PROVE  NoGhostLayer' /\ LayersLeft
  <2>1. \A e \in Entities : Stack(entry'[e]) = Stack(entry[e])
    BY <1>3, FinishMerges
  <2>2. \A n \in Mutations \ {m} : phase'[n] = phase[n]
    <3>1. \E from \in Phases, to \in Phases : Step(m, from, to)
      BY <1>3 DEF Commit, Rollback, Phases
    <3> QED BY <3>1, StepMoves
  <2>3. \A n \in Mutations : Kind[n] = "update" /\ Pending(n) => Pending(n)'
    BY <1>3, <2>2 DEF Pending
  <2>4. UNCHANGED id
    BY <1>3 DEF Commit, Rollback, naming
  <2> QED BY <2>1, <2>3, <2>4, StacksKept
<1>4. CASE Tick \/ Poll \/ ServeList \/ FailList \/ UNCHANGED vars
  <2>1. UNCHANGED <<entry, phase, id>>
    BY <1>4 DEF Tick, Poll, ServeList, FailList, vars, mutating, naming
  <2> QED BY <2>1, StacksKept DEF Pending
<1>5. CASE AcceptList
  <2>1. UNCHANGED <<phase, id>> /\ \A e \in Entities : Stack(entry'[e]) = Stack(entry[e])
    BY <1>5, ListMerges DEF AcceptList, mutating, naming
  <2> QED BY <2>1, StacksKept DEF Pending
<1>6. ASSUME NEW m \in Mutations, Commit(m) \/ Rollback(m), Kind[m] = "update"
      PROVE  NoGhostLayer' /\ LayersLeft
  BY <1>6, OwnLayerTaken
<1>7. ASSUME NEW m \in Mutations, SendUpdate(m) PROVE NoGhostLayer' /\ LayersLeft
  BY <1>7, OwnLayerAdded
<1>8. ASSUME NEW m \in Mutations, SendDelete(m) PROVE NoGhostLayer' /\ LayersLeft
  BY <1>8, LayersDeleted
<1> QED
  BY <1>2, <1>3, <1>4, <1>5, <1>6, <1>7, <1>8 DEF Next

--------------------------------------------------------------------------------
(* What the list shows *)

\* A deletion that was rolled back stays so.
LEMMA UndoneStays ==
  ASSUME TypeOK, [Next]_vars, Undone
  PROVE  Undone'
<1>1. PICK d \in Mutations : Kind[d] = "delete" /\ phase[d] \in {"undone", "lost"}
  BY DEF Undone
<1>2. ASSUME NEW m \in Mutations, NEW from \in Phases \ {"undone", "lost"}, NEW to \in Phases,
             Step(m, from, to)
      PROVE  phase'[d] = phase[d]
  BY <1>1, <1>2, StepMoves
<1>3. phase'[d] = phase[d]
  <2>1. ASSUME NEW m \in Mutations,
               \/ SendUpdate(m) \/ SendDelete(m) \/ SendCreate(m)
               \/ Serve(m) \/ Refuse(m) \/ Commit(m) \/ Rollback(m)
        PROVE  phase'[d] = phase[d]
    BY <1>2, <2>1 DEF SendUpdate, SendDelete, SendCreate, Serve, Refuse, Commit, Rollback, Phases
  <2>2. CASE Tick \/ Poll \/ ServeList \/ FailList \/ AcceptList \/ UNCHANGED vars
    BY <2>2 DEF Tick, Poll, ServeList, FailList, AcceptList, vars, mutating
  <2> QED BY <2>1, <2>2 DEF Next
<1> QED BY <1>1, <1>3 DEF Undone

\* The computed runs again when a value it shows changes.  So it suffices that an
\* entity comes into the list by a write of rawData only, and leaves it visibly.
LEMMA RenderSync ==
  ASSUME TypeOK, view = Shown(entry, index), Watches, NEW w, Render(w),
         \A e \in Entities : Indexed(index', e) => entry'[e] # Absent,
         \A e \in Entities : (Indexed(index', e) <=> Indexed(index, e))
                               \/ (Indexed(index, e) /\ Visible(entry'[e]) # Visible(entry[e]))
  PROVE  view' = Shown(entry', index') /\ Watches'
<1>1. CASE w \/ \E e \in watch : Visible(entry'[e]) # Visible(entry[e])
  <2>1. /\ view' = Shown(entry', index')
        /\ watch' = {e \in Entities : Indexed(index', e) /\ entry'[e] # Absent}
    BY <1>1 DEF Render
  <2> QED BY <2>1 DEF Watches
<1>2. CASE ~(w \/ \E e \in watch : Visible(entry'[e]) # Visible(entry[e]))
  <2>1. view' = view /\ watch' = watch
    BY <1>2 DEF Render
  <2>2. \A e \in Entities : Indexed(index, e) => Visible(entry'[e]) = Visible(entry[e])
    BY <1>2 DEF Watches
  <2>3. \A e \in Entities : Indexed(index', e) <=> Indexed(index, e)
    BY <2>2
  <2>4. Shown(entry', index') = Shown(entry, index)
    BY <2>2, <2>3 DEF Shown
  <2>5. Watches'
    BY <2>1, <2>3 DEF Watches
  <2> QED BY <2>1, <2>4, <2>5
<1> QED BY <1>1, <1>2

\* Every step keeps the list in step with the store.
LEMMA SyncStep ==
  ASSUME TypeOK, TypeOK', NoGhostLayer, Answers, Synced, [Next]_vars
  PROVE  Synced'
<1> SUFFICES ASSUME ~Undone' PROVE view' = Shown(entry', index') /\ Watches'
  BY DEF Synced
<1>1. ~Undone
  BY UndoneStays
<1>2. view = Shown(entry, index) /\ Watches
  BY <1>1 DEF Synced
<1>3. \A e \in Entities : Indexed(index, e) => entry[e] # Absent
  BY <1>2 DEF Watches
<1>4. ASSUME UNCHANGED <<entry, index, view, watch>>
      PROVE  view' = Shown(entry', index') /\ Watches'
  BY <1>2, <1>4 DEF Watches
<1>5. ASSUME index' = index, Render(FALSE),
             \A e \in Entities : entry[e] # Absent /\ Indexed(index, e) => entry'[e] # Absent
      PROVE  view' = Shown(entry', index') /\ Watches'
  BY <1>2, <1>3, <1>5, RenderSync
<1>6. ASSUME NEW m \in Mutations, SendUpdate(m)
      PROVE  view' = Shown(entry', index') /\ Watches'
  <2>1. index' = index /\ Render(FALSE)
    BY <1>6 DEF SendUpdate
  <2>2. \A e \in Entities : entry[e] # Absent => entry'[e] # Absent
    <3>1. \A e \in Entities \ {Target[m]} : entry'[e] = entry[e]
      BY <1>6, LayerAdded
    <3>2. entry[Target[m]] # Absent => entry'[Target[m]] # Absent
      BY <1>6, LayerAdded, ServerAssumption
    <3> QED BY <3>1, <3>2
  <2> QED BY <1>5, <2>1, <2>2
<1>7. ASSUME NEW m \in Mutations, SendDelete(m)
      PROVE  view' = Shown(entry', index') /\ Watches'
  <2>1. /\ Target[m] \in Entities /\ entry'[Target[m]] = Absent
        /\ \A e \in Entities \ {Target[m]} : entry'[e] = entry[e]
        /\ \A e \in Entities : Indexed(index', e) <=> Indexed(index, e) /\ e # Target[m]
    BY <1>7, DeleteEffect
  <2>2. Render(FALSE)
    BY <1>7 DEF SendDelete
  <2>3. \A e \in Entities : Indexed(index', e) => entry'[e] # Absent
    BY <1>3, <2>1
  <2>4. ASSUME NEW e \in Entities
        PROVE  \/ Indexed(index', e) <=> Indexed(index, e)
               \/ Indexed(index, e) /\ Visible(entry'[e]) # Visible(entry[e])
    <3>1. CASE e # Target[m] \/ ~Indexed(index, e)
      BY <2>1, <3>1
    <3>2. CASE e = Target[m] /\ Indexed(index, e)
      <4>1. entry[e] \in Entry
        BY <1>3, <3>2 DEF TypeOK
      <4>2. Visible(entry[e]) # Absent
        BY <4>1, VisibleType
      <4>3. Visible(entry'[e]) = Absent
        BY <2>1, <3>2 DEF Visible
      <4> QED BY <3>2, <4>2, <4>3
    <3> QED BY <3>1, <3>2
  <2> QED BY <1>2, <2>2, <2>3, <2>4, RenderSync
<1>8. ASSUME NEW m \in Mutations, Commit(m) \/ Rollback(m)
      PROVE  view' = Shown(entry', index') /\ Watches'
  <2>1. Render(FALSE)
    BY <1>8 DEF Commit, Rollback
  <2>2. CASE Kind[m] = "update"
    <3>1. index' = index
      BY <1>8, <2>2 DEF Commit, Rollback
    <3>2. \A e \in Entities : entry[e] # Absent => entry'[e] # Absent
      <4>1. \A e \in Entities \ {Target[m]} : entry'[e] = entry[e]
        BY <1>8, <2>2, LayerTaken
      <4>2. entry[Target[m]] # Absent => entry'[Target[m]] # Absent
        BY <1>8, <2>2, LayerTaken, ServerAssumption
      <4> QED BY <4>1, <4>2
    <3> QED BY <1>5, <2>1, <3>1, <3>2
  <2>3. CASE Kind[m] # "update" /\ (Commit(m) \/ Kind[m] = "create")
    <3>1. /\ \A e \in Entities : Indexed(index, e) /\ entry[e] # Absent => entry'[e] # Absent
          /\ index' = index
      BY <1>8, <2>3, FinishMerges
    <3> QED BY <1>5, <2>1, <3>1
  <2>4. CASE Kind[m] = "delete" /\ Rollback(m)
    <3>1. \E from \in Phases, to \in {"undone", "lost"} : Step(m, from, to)
      BY <2>4 DEF Rollback, Phases
    <3>2. phase'[m] \in {"undone", "lost"}
      BY <3>1, StepMoves DEF Phases
    <3> QED BY <2>4, <3>2 DEF Undone
  <2>5. Kind[m] \in {"create", "update", "delete"}
    BY MutationAssumption
  <2> QED BY <1>8, <2>2, <2>3, <2>4, <2>5
<1>9. CASE AcceptList
  <2>1. Render(TRUE) /\ \A e \in Entities : Indexed(index', e) => entry'[e] # Absent
    BY <1>9, ListMerges DEF AcceptList
  <2>2. /\ view' = Shown(entry', index')
        /\ watch' = {e \in Entities : Indexed(index', e) /\ entry'[e] # Absent}
    BY <2>1 DEF Render
  <2> QED BY <2>1, <2>2 DEF Watches
<1>10. ASSUME NEW m \in Mutations, SendCreate(m) \/ Serve(m) \/ Refuse(m)
       PROVE  view' = Shown(entry', index') /\ Watches'
  BY <1>4, <1>10 DEF SendCreate, Serve, Refuse
<1>11. CASE Tick \/ Poll \/ ServeList \/ FailList \/ UNCHANGED vars
  BY <1>4, <1>11 DEF Tick, Poll, ServeList, FailList, vars
<1> QED
  BY <1>6, <1>7, <1>8, <1>9, <1>10, <1>11 DEF Next

--------------------------------------------------------------------------------
(* What the list was told *)

\* The two parts of FreshList.
Told   == list \in {"answered", "idle"} => rows = server
MergedList ==
  list = "idle" =>
    \A e \in Entities :
      /\ Indexed(index, e) => rows[e] # Absent /\ entry[e].base = rows[e]
      /\ rows[e] # Absent /\ ~Indexed(index, e) =>
           \E d \in Mutations : Kind[d] = "delete" /\ Target[d] = e /\ Pending(d)

\* Every step that could make the list's newest answer old sends for a new one.
LEMMA FreshStep ==
  ASSUME TypeOK, TypeOK', NoGhostLayer, Answers, Synced, FreshList, [Next]_vars
  PROVE  FreshList'
<1> SUFFICES ASSUME Steady' PROVE (Told /\ MergedList)'
  BY DEF FreshList, Told, MergedList
<1>1. ~Undone
  BY UndoneStays DEF Steady
<1>i. \A e \in Entities : Indexed(index, e) => entry[e] # Absent
  BY <1>1 DEF Synced, Watches
<1>2. ASSUME NEW m \in Mutations, NEW from \in Phases \ {"served", "lost"}, NEW to \in Phases,
             Step(m, from, to)
      PROVE  /\ Steady /\ Told /\ MergedList
             /\ \A n \in Mutations \ {m} : phase'[n] = phase[n]
             /\ phase[m] = from /\ phase'[m] = to
  <2>1. /\ \A n \in Mutations \ {m} : phase'[n] = phase[n]
        /\ phase[m] = from /\ phase'[m] = to
    BY <1>2, StepMoves
  <2>2. Steady
    BY <1>1, <1>2, <2>1 DEF Steady
  <2> QED BY <2>1, <2>2 DEF FreshList, Told, MergedList
<1>3. ASSUME NEW m \in Mutations, SendUpdate(m) PROVE (Told /\ MergedList)'
  <2>1. /\ Step(m, "idle", "sent") /\ Kind[m] = "update"
        /\ UNCHANGED <<server, index, list, rows>>
    BY <1>3 DEF SendUpdate
  <2>2. /\ Told /\ MergedList
        /\ \A n \in Mutations \ {m} : phase'[n] = phase[n]
        /\ phase[m] = "idle" /\ phase'[m] = "sent"
    BY <1>2, <2>1 DEF Phases
  <2>3. \A e \in Entities : entry[e] # Absent => entry'[e].base = entry[e].base
    <3>1. \A e \in Entities \ {Target[m]} : entry'[e] = entry[e]
      BY <1>3, LayerAdded
    <3>2. entry[Target[m]] # Absent => entry'[Target[m]].base = entry[Target[m]].base
      BY <1>3, LayerAdded
    <3> QED BY <3>1, <3>2
  <2>4. \A n \in Mutations : Pending(n) => Pending(n)'
    BY <2>2 DEF Pending
  <2>5. Told'
    BY <2>1, <2>2 DEF Told
  <2>6. MergedList'
    BY <1>i, <2>1, <2>2, <2>3, <2>4 DEF MergedList
  <2> QED BY <2>5, <2>6
<1>4. ASSUME NEW m \in Mutations, SendDelete(m) PROVE (Told /\ MergedList)'
  <2>1. /\ Step(m, "idle", "sent") /\ Kind[m] = "delete"
        /\ UNCHANGED <<server, list, rows>>
    BY <1>4 DEF SendDelete
  <2>2. /\ Told /\ MergedList
        /\ \A n \in Mutations \ {m} : phase'[n] = phase[n]
        /\ phase[m] = "idle" /\ phase'[m] = "sent"
    BY <1>2, <2>1 DEF Phases
  <2>3. /\ \A e \in Entities \ {Target[m]} : entry'[e] = entry[e]
        /\ \A e \in Entities : Indexed(index', e) <=> Indexed(index, e) /\ e # Target[m]
    BY <1>4, DeleteEffect
  <2>4. Pending(m)' /\ \A n \in Mutations : Pending(n) => Pending(n)'
    BY <2>2 DEF Pending
  <2>5. Told'
    BY <2>1, <2>2 DEF Told
  <2>6. MergedList'
    BY <2>1, <2>2, <2>3, <2>4 DEF MergedList
  <2> QED BY <2>5, <2>6
<1>5. ASSUME NEW m \in Mutations, SendCreate(m) \/ Refuse(m) PROVE (Told /\ MergedList)'
  <2>1. /\ \E from \in {"idle", "sent"} : \E to \in {"sent", "refused"} : Step(m, from, to)
        /\ UNCHANGED <<server, entry, index, list, rows>>
    BY <1>5 DEF SendCreate, Refuse
  <2>2. PICK from \in {"idle", "sent"} : \E to \in {"sent", "refused"} : Step(m, from, to)
    BY <2>1
  <2>3. /\ Told /\ MergedList
        /\ \A n \in Mutations \ {m} : phase'[n] = phase[n]
        /\ phase'[m] \in {"sent", "refused"}
    BY <1>2, <2>2 DEF Phases
  <2>4. \A n \in Mutations : Pending(n) => Pending(n)'
    BY <2>3 DEF Pending
  <2> QED BY <2>1, <2>3, <2>4 DEF Told, MergedList
<1>6. ASSUME NEW m \in Mutations, Serve(m) PROVE FALSE
  <2>1. phase'[m] = "served"
    BY <1>6, StepMoves DEF Serve, Phases
  <2> QED BY <2>1 DEF Steady
<1>7. ASSUME NEW m \in Mutations, Commit(m) PROVE (Told /\ MergedList)'
  BY <1>7 DEF Commit, Told, MergedList
<1>8. ASSUME NEW m \in Mutations, Rollback(m) PROVE (Told /\ MergedList)'
  <2>1. Step(m, "refused", "undone")
    <3>1. CASE Step(m, "served", "lost")
      <4>1. phase'[m] = "lost"
        BY <3>1, StepMoves DEF Phases
      <4> QED BY <4>1 DEF Steady
    <3> QED BY <1>8, <3>1 DEF Rollback
  <2>2. /\ Told /\ MergedList
        /\ \A n \in Mutations \ {m} : phase'[n] = phase[n]
        /\ phase[m] = "refused" /\ phase'[m] = "undone"
    BY <1>2, <2>1 DEF Phases
  <2>3. Kind[m] # "delete"
    BY <2>2 DEF Steady, Undone
  <2>4. /\ UNCHANGED <<server, index, list, rows>>
        /\ Kind[m] = "create" => UNCHANGED entry
    BY <1>8, <2>3 DEF Rollback
  <2>5. \A e \in Entities : entry[e] # Absent => entry'[e].base = entry[e].base
    <3>1. CASE Kind[m] = "update"
      <4>1. \A e \in Entities \ {Target[m]} : entry'[e] = entry[e]
        BY <1>8, <3>1, LayerTaken
      <4>2. entry[Target[m]] # Absent => entry'[Target[m]].base = entry[Target[m]].base
        BY <1>8, <3>1, LayerTaken
      <4> QED BY <4>1, <4>2
    <3>2. CASE Kind[m] = "create"
      BY <2>4, <3>2
    <3> QED BY <2>3, <3>1, <3>2, MutationAssumption
  <2>6. \A n \in Mutations : Kind[n] = "delete" /\ Pending(n) => Pending(n)'
    BY <2>2, <2>3 DEF Pending
  <2>7. Told'
    BY <2>2, <2>4 DEF Told
  <2>8. MergedList'
    BY <1>i, <2>2, <2>4, <2>5, <2>6 DEF MergedList
  <2> QED BY <2>7, <2>8
<1>9. ASSUME UNCHANGED phase PROVE Steady /\ Told /\ MergedList
  BY <1>9, <1>1 DEF Steady, FreshList, Told, MergedList
<1>10. CASE Tick
  <2>1. UNCHANGED <<server, phase, entry, index, list, rows>>
    BY <1>10 DEF Tick, mutating
  <2> QED BY <1>9, <2>1 DEF Told, MergedList, Pending
<1>14. CASE Poll \/ FailList
  BY <1>14 DEF Poll, FailList, Told, MergedList
<1>11. CASE ServeList
  BY <1>11 DEF ServeList, mutating, Told, MergedList
<1>12. CASE AcceptList
  <2>1. /\ UNCHANGED <<server, rows, phase>> /\ list = "answered"
    BY <1>12 DEF AcceptList, mutating
  <2>2. \A e \in Entities :
          /\ Indexed(index', e) <=> rows[e] # Absent
          /\ rows[e] # Absent => entry'[e].base = rows[e]
    BY <1>12, ListMerges
  <2>3. Told'
    BY <1>9, <2>1 DEF Told
  <2>4. MergedList'
    BY <2>1, <2>2 DEF MergedList
  <2> QED BY <2>3, <2>4
<1>13. CASE UNCHANGED vars
  <2>1. UNCHANGED <<server, phase, entry, index, list, rows>>
    BY <1>13 DEF vars, mutating
  <2> QED BY <1>9, <2>1 DEF Told, MergedList, Pending
<1> QED
  BY <1>3, <1>4, <1>5, <1>6, <1>7, <1>8, <1>10, <1>14, <1>11, <1>12, <1>13 DEF Next

--------------------------------------------------------------------------------
(* The properties *)

\* A quiet list shows the server.
LEMMA QuietList ==
  ASSUME Inv
  PROVE  Converged
<1> SUFFICES ASSUME ~Undone, list = "idle",
                    \A m \in Mutations : ~Pending(m) /\ phase[m] # "lost"
             PROVE  view = server
  BY DEF Converged
<1>1. Steady
  BY DEF Steady, Pending
<1>2. view = Shown(entry, index) /\ Watches
  BY DEF Inv, Synced
<1>3. ASSUME NEW e \in Entities PROVE view[e] = server[e]
  <2>1. /\ rows[e] = server[e]
        /\ Indexed(index, e) => rows[e] # Absent /\ entry[e].base = rows[e]
        /\ rows[e] # Absent => Indexed(index, e)
    BY <1>1 DEF Inv, FreshList
  <2>2. view[e] = IF Indexed(index, e) THEN Visible(entry[e]) ELSE Absent
    BY <1>2 DEF Shown
  <2>3. CASE Indexed(index, e)
    <3>1. entry[e] # Absent /\ entry[e] \in Entry
      BY <1>2, <2>3 DEF Watches, Inv, TypeOK
    <3>2. entry[e].layers \in Seq(Mutations)
      BY <3>1, EntryFields
    <3>3. \A i \in DOMAIN entry[e].layers : FALSE
      <4>1. SUFFICES ASSUME NEW i \in DOMAIN entry[e].layers PROVE FALSE
        OBVIOUS
      <4>2. entry[e].layers[i] \in Mutations
        BY <3>2, <4>1, LenProperties, ElementOfSeq
      <4>3. Pending(entry[e].layers[i])
        BY <3>1, <4>1 DEF Inv, NoGhostLayer, Layers
      <4> QED BY <4>2, <4>3
    <3>4. entry[e].layers = <<>>
      <4>1. Len(entry[e].layers) \in Nat /\ DOMAIN entry[e].layers = 1..Len(entry[e].layers)
        BY <3>2, LenProperties
      <4>2. 1 \notin DOMAIN entry[e].layers
        BY <3>3
      <4>3. Len(entry[e].layers) = 0
        BY <4>1, <4>2
      <4> QED BY <3>2, <4>3, EmptySeq
    <3>5. Visible(entry[e]) = entry[e].base
      BY <3>1, <3>4, VisibleType
    <3> QED BY <2>1, <2>2, <2>3, <3>5
  <2>4. CASE ~Indexed(index, e)
    BY <2>1, <2>2, <2>4
  <2> QED BY <2>3, <2>4
<1>4. view \in [Entities -> Value \cup {Absent}] /\ server \in [Entities -> Value \cup {Absent}]
  BY DEF Inv, TypeOK
<1> QED BY <1>3, <1>4

\* The invariant holds at first.
LEMMA InvInit == Init => Inv
<1> SUFFICES ASSUME Init PROVE Inv
  OBVIOUS
<1>1. TypeOK
  <2>1. [f \in Fields |-> Original] \in Value
    BY DEF Value
  <2>2. server \in [Entities -> Value \cup {Absent}]
    BY <2>1 DEF Init
  <2>3. /\ phase \in [Mutations -> {"idle", "sent", "served", "refused", "done", "undone", "lost"}]
        /\ answer \in [Mutations -> Value \cup {Absent}]
        /\ undo \in [Mutations -> [entity : Value \cup {Absent}, index : {Absent} \cup SUBSET Entities]]
    BY DEF Init
  <2>4. polls \in 0..MaxPolls
    BY ServerAssumption DEF Init
  <2>5. moment \subseteq Mutations /\ id \in [Mutations -> Mutations]
    BY DEF Init
  <2> QED BY <2>2, <2>3, <2>4, <2>5 DEF Init, TypeOK
<1>2. NoGhostLayer
  BY DEF Init, NoGhostLayer, Layers
<1>3. Answers
  BY DEF Init, Answers
<1>4. \A e \in Entities : ~Indexed(index, e)
  BY DEF Init, Indexed
<1>5. Synced
  BY <1>4 DEF Init, Synced, Shown, Watches
<1>6. FreshList
  BY DEF Init, FreshList
<1> QED BY <1>1, <1>2, <1>3, <1>5, <1>6 DEF Inv

\* Every step keeps it, and takes only layers that may leave.
LEMMA InvStep ==
  ASSUME Inv, [Next]_vars
  PROVE  Inv' /\ LayersLeft
<1>1. TypeOK' /\ Answers'
  BY TypeStep DEF Inv
<1>2. NoGhostLayer' /\ LayersLeft
  BY <1>1, LayerStep DEF Inv
<1>3. Synced'
  BY <1>1, SyncStep DEF Inv
<1>4. FreshList'
  BY <1>1, FreshStep DEF Inv
<1> QED BY <1>1, <1>2, <1>3, <1>4 DEF Inv

(* The store's invariant: its types, honest layers, a list that shows the   *)
(* store and watches all it shows, and an answer that is new unless a newer *)
(* one was sent for.                                                        *)
THEOREM Invariant == Spec => []Inv
<1>1. Inv /\ [Next]_vars => Inv'
  BY InvStep
<1> QED BY InvInit, <1>1, PTL DEF Spec

(* The variables keep their types: entries, snapshots and what the list     *)
(* shows are whole rows.                                                    *)
THEOREM TypeCorrect == Spec => []TypeOK
<1>1. Inv => TypeOK
  BY DEF Inv
<1> QED BY Invariant, <1>1, PTL

(* An entry holds the patches of updates of that entity that still wait for *)
(* their answer, one for each id.                                           *)
THEOREM NoGhosts == Spec => []NoGhostLayer
<1>1. Inv => NoGhostLayer
  BY DEF Inv
<1> QED BY Invariant, <1>1, PTL

(* A pending patch leaves its entry by its own answer, by a deletion, or by *)
(* an update that got its id: no merge, eviction or answer to another       *)
(* mutation takes it away.                                                  *)
THEOREM LayersStayOn == Spec => LayersStay
<1>1. Inv /\ [Next]_vars =>
        [\A e \in Entities : \A m \in Layers(entry[e]) \ Layers(entry'[e]) :
           ~Pending(m)' \/ Deleting(e) \/ Renaming(m)]_vars
  BY InvStep DEF LayersLeft, Left
<1> QED BY Invariant, <1>1, PTL DEF Spec, LayersStay

\* Sends of one descriptor differ in their counters, so that each has its own id.
LEMMA OwnIds ==
  ASSUME \A m, n \in Mutations : Counter[m] = Counter[n] => m = n
  PROVE  Spec => [](\A m \in Mutations : id[m] = m)
<1> DEFINE Own == \A m \in Mutations : id[m] = m
<1>1. Init => Own
  BY DEF Init
<1>2. ASSUME Inv, Own, [Next]_vars PROVE Own'
  <2>1. ASSUME NEW m \in Mutations, Name(m) PROVE Own'
    <3>1. moment \subseteq Mutations /\ id \in [Mutations -> Mutations]
      BY <1>2 DEF Inv, TypeOK
    <3>2. CASE Namesakes(m) = {}
      BY <1>2, <2>1, <3>2 DEF Name
    <3>3. CASE Namesakes(m) # {}
      <4> DEFINE n == CHOOSE n \in Namesakes(m) : TRUE
      <4>1. n \in Mutations /\ Counter[n] = Counter[m]
        BY <3>1, <3>3 DEF Namesakes
      <4>2. id' = [id EXCEPT ![m] = id[n]]
        BY <2>1, <3>3 DEF Name
      <4> HIDE DEF n
      <4> QED BY <1>2, <3>1, <4>1, <4>2
    <3> QED BY <3>2, <3>3
  <2>2. ASSUME NEW m \in Mutations,
               \/ SendDelete(m) \/ SendCreate(m) \/ Serve(m) \/ Refuse(m)
               \/ Commit(m) \/ Rollback(m)
        PROVE  UNCHANGED id
    BY <2>2 DEF SendDelete, SendCreate, Serve, Refuse, Commit, Rollback, naming
  <2>3. CASE Tick \/ Poll \/ ServeList \/ FailList \/ AcceptList \/ UNCHANGED vars
    BY <1>2, <2>3 DEF Tick, Poll, ServeList, FailList, AcceptList, vars, naming
  <2> QED BY <1>2, <2>1, <2>2, <2>3 DEF Next, SendUpdate
<1> QED BY Invariant, <1>1, <1>2, PTL DEF Spec

(* When all updates are sent through one descriptor, whose counter tells    *)
(* them apart, a pending patch leaves by its own answer or a deletion only, *)
(* as entity-store.ts says: that generated clients make a descriptor for    *)
(* each call is what takes it away.                                         *)
THEOREM OneDescriptorKeeps ==
  ASSUME \A m, n \in Mutations : Counter[m] = Counter[n] => m = n
  PROVE  Spec => PatchesStay
<1> DEFINE Own == \A m \in Mutations : id[m] = m
<1>1. Inv /\ Own' /\ [Next]_vars =>
        [\A e \in Entities : \A m \in Layers(entry[e]) \ Layers(entry'[e]) :
           ~Pending(m)' \/ Deleting(e)]_vars
  <2> SUFFICES ASSUME Inv, Own', [Next]_vars,
                      NEW e \in Entities, NEW m \in Layers(entry[e]) \ Layers(entry'[e])
               PROVE  ~Pending(m)' \/ Deleting(e)
    OBVIOUS
  <2>1. m \in Mutations
    <3>1. entry[e] # Absent
      BY DEF Layers
    <3>2. entry[e].layers \in Seq(Mutations)
      BY <3>1, EntryFields DEF Inv, TypeOK
    <3> QED BY <3>1, <3>2, LenProperties, ElementOfSeq DEF Layers
  <2>2. ~Renaming(m)
    BY <2>1 DEF Renaming
  <2> QED BY <2>2, InvStep DEF LayersLeft, Left
<1> HIDE DEF Own
<1>2. Spec => []Own
  BY OwnIds DEF Own
<1> QED BY Invariant, <1>1, <1>2, PTL DEF Spec, PatchesStay

(* Until a delete is rolled back, the list shows what the store holds,      *)
(* although its computed runs only when a signal it read changes.           *)
THEOREM ListInSync == Spec => []InSync
<1>1. Inv => InSync
  BY DEF Inv, Synced, InSync
<1> QED BY Invariant, <1>1, PTL

(* When nothing is pending, no answer was lost, no delete was rolled back   *)
(* and the newest request for the list was answered, the list shows what    *)
(* the server has, in whatever order answers came.                          *)
THEOREM ListConverges == Spec => []Converged
<1> QED BY Invariant, QuietList, PTL

(* Mutations that fail leave the list as the server has it, as data-fetching *)
(* .mdx says, when none of them is a delete: the rollback of a delete is the *)
(* only one that the list may miss.                                          *)
THEOREM FailedUpdatesRevert ==
  ASSUME \A m \in Mutations : Kind[m] # "delete"
  PROVE  Spec => []Reverts
<1>1. Converged => Reverts
  BY DEF Converged, Reverts, Undone, Pending
<1> QED BY <1>1, ListConverges, PTL

================================================================================

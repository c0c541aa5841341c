--------------------------- MODULE MappingTheorems ---------------------------
(***************************************************************************)
(* Facts about the operators on mappings, for every set of strings, kinds, *)
(* pools and allow-lists; the proofs of the text pass and of the image     *)
(* pass rest on them.                                                      *)
(***************************************************************************)
EXTENDS Mapping, TLAPS

\* The empty mapping is a mapping, and one without keys.
LEMMA EmptyMapping == Empty \in Mappings /\ \A n \in Name : Empty[n] = NoName
BY DEF Empty, Mappings

\* A merge is a mapping; it keeps the existing entries and adds the new keys.
LEMMA MergeFacts ==
  ASSUME NEW m \in Mappings, NEW w \in Mappings
  PROVE  /\ Merge(m, w) \in Mappings
         /\ \A n \in Name : m[n] # NoName => Merge(m, w)[n] = m[n]
         /\ \A n \in Name : m[n] = NoName => Merge(m, w)[n] = w[n]
BY DEF Merge, Mappings

\* An assigned pseudonym is a string.
LEMMA AssignIsName ==
  ASSUME NEW kind \in Kind, NEW name \in Name, NEW scratch_, NEW reserved
  PROVE  Assign(kind, name, scratch_, reserved) \subseteq Name
<1>1. ASSUME NEW list, NEW ok PROVE FirstIn(list, ok) \subseteq ok
  BY DEF FirstIn
<1>2. FromPool(kind, name, scratch_, reserved) \subseteq Name
  BY <1>1 DEF FromPool
<1>3. NextToken(kind, scratch_, reserved) \subseteq Name
  <2> DEFINE beyond ==
        {Numbered[kind][n] : n \in
           {i \in 1..MaxIndex :
              \A j \in i..MaxIndex : Numbered[kind][j] \notin Used(scratch_)}}
  <2>1. beyond \subseteq Name
    BY PoolAssumption
  <2>2. NextToken(kind, scratch_, reserved) \subseteq beyond \ reserved
    BY <1>1 DEF NextToken
  <2> QED BY <2>1, <2>2
<1> QED BY <1>2, <1>3 DEF Assign

\* The words of a full name and of its pseudonym are strings.
LEMMA ComponentsAreNames ==
  ASSUME NEW real \in Name, NEW pseudo \in Name
  PROVE  ComponentMappings(real, pseudo) \subseteq Name \X Name
<1>1. Fields[real] \in Seq(Name) /\ Fields[pseudo] \in Seq(Name)
  BY FieldsAssumption
<1>2. ASSUME Len(Fields[real]) >= 2, Len(Fields[pseudo]) >= 2
      PROVE  /\ <<Fields[real][1], Fields[pseudo][1]>> \in Name \X Name
             /\ <<Fields[real][Len(Fields[real])],
                  Fields[pseudo][Len(Fields[pseudo])]>> \in Name \X Name
  BY <1>1, <1>2
<1> QED BY <1>1, <1>2 DEF ComponentMappings

\* The parts of a person are pairs of strings.
LEMMA PartsAreNames ==
  ASSUME NEW kind, NEW real \in Name, NEW pseudo \in Name, NEW scratch_
  PROVE  Parts(kind, real, pseudo, scratch_) \subseteq Name \X Name
BY ComponentsAreNames DEF Parts

\* An entity with its parts is a mapping that has the entity's string.
LEMMA WithPartsFacts ==
  ASSUME NEW real \in Name, NEW pseudo \in Name,
         NEW parts \in SUBSET (Name \X Name)
  PROVE  /\ WithParts(real, pseudo, parts) \in Mappings
         /\ WithParts(real, pseudo, parts)[real] = pseudo
<1>1. ASSUME NEW n \in Name, \E pair \in parts : pair[1] = n
      PROVE  (CHOOSE pair \in parts : pair[1] = n)[2] \in Name
  BY <1>1
<1> DEFINE value(n) == IF n = real THEN pseudo
                       ELSE IF \E pair \in parts : pair[1] = n
                            THEN (CHOOSE pair \in parts : pair[1] = n)[2]
                            ELSE NoName
<1>2. \A n \in Name : value(n) \in Name \cup {NoName}
  BY <1>1
<1>3. WithParts(real, pseudo, parts) = [n \in Name |-> value(n)]
  BY DEF WithParts
<1>4. value(real) = pseudo
  OBVIOUS
<1> HIDE DEF value
<1> QED BY <1>2, <1>3, <1>4 DEF Mappings

\* The entries of a newly assigned entity are a mapping that has its string.
LEMMA EntriesFacts ==
  ASSUME NEW kind \in Kind, NEW real \in Name, NEW pseudo \in Name,
         NEW scratch_ \in Mappings
  PROVE  /\ Entries(kind, real, pseudo, scratch_) \in Mappings
         /\ Entries(kind, real, pseudo, scratch_)[real] = pseudo
<1> DEFINE parts == {pair \in Parts(kind, real, pseudo, scratch_) :
                       pair[1] \notin AllowList}
<1>1. parts \in SUBSET (Name \X Name)
  BY PartsAreNames
<1>2. Entries(kind, real, pseudo, scratch_) = WithParts(real, pseudo, parts)
  BY DEF Entries
<1> QED BY <1>1, <1>2, WithPartsFacts

\* More keys cover more names.
LEMMA MoreKeys ==
  ASSUME NEW m, NEW w, Keys(m) \subseteq Keys(w), NEW name, HasKey(m, name)
  PROVE  HasKey(w, name)
BY DEF HasKey, KeysFor

\* A merge has the keys of both mappings.
LEMMA MergeKeys ==
  ASSUME NEW m \in Mappings, NEW w \in Mappings
  PROVE  Keys(Merge(m, w)) = Keys(m) \cup Keys(w)
BY DEF Keys, Merge, Mappings

\* A key covers its own string.
LEMMA KeyCovers ==
  ASSUME NEW m, NEW name \in Name, m[name] # NoName
  PROVE  HasKey(m, name)
BY DEF HasKey, KeysFor, Keys

-----------------------------------------------------------------------------
(* Which string an entity is given, and that it is not its own. *)

\* The pool and the numbered series of an entity type.
PseudonymsOf(kind) ==
  {Pool[kind][i] : i \in DOMAIN Pool[kind]} \cup {Numbered[kind][n] : n \in 1..MaxIndex}

\* The first element of a list is one of its elements, and is in ok.
LEMMA FirstInFacts ==
  ASSUME NEW list, NEW ok
  PROVE  /\ FirstIn(list, ok) \subseteq ok
         /\ \A e \in FirstIn(list, ok) : \E i \in DOMAIN list : e = list[i]
BY DEF FirstIn

\* The pool is probed from the slot on and around its end.
LEMMA ProbeFacts ==
  ASSUME NEW kind \in Kind, NEW name \in Name, NEW i \in DOMAIN Probe(kind, name)
  PROVE  Probe(kind, name)[i] \in PseudonymsOf(kind)
<1>1. Pool[kind] \in Seq(Name) /\ Slot[name] \in Nat
  BY PoolAssumption
<1> DEFINE len == Len(Pool[kind])
           at(j) == ((Slot[name] + j - 1) % len) + 1
<1>2. len \in Nat /\ DOMAIN Pool[kind] = 1..len
  BY <1>1
<1>3. Probe(kind, name) = [j \in 1..len |-> Pool[kind][at(j)]]
  BY DEF Probe
<1>4. i \in 1..len
  BY <1>3
<1>5. at(i) \in 1..len
  <2> HIDE DEF len
  <2>1. len \in Nat /\ len > 0 /\ Slot[name] + i - 1 \in Nat
    BY <1>1, <1>2, <1>4
  <2>2. (Slot[name] + i - 1) % len \in 0..(len - 1)
    BY <2>1
  <2> QED BY <2>1, <2>2
<1> HIDE DEF at, len
<1> QED BY <1>2, <1>3, <1>4, <1>5 DEF PseudonymsOf

\* An assigned pseudonym is of the entity's type, and none that is reserved.
LEMMA AssignFacts ==
  ASSUME NEW kind \in Kind, NEW name \in Name, NEW scratch_, NEW reserved,
         NEW p \in Assign(kind, name, scratch_, reserved)
  PROVE  p \in PseudonymsOf(kind) /\ p \notin reserved
<1>1. ASSUME NEW ok, NEW q \in FirstIn(Numbered[kind], ok)
      PROVE  q \in PseudonymsOf(kind) /\ q \in ok
  <2>1. Numbered[kind] \in [1..MaxIndex -> Name]
    BY PoolAssumption
  <2> QED BY <1>1, <2>1, FirstInFacts DEF PseudonymsOf
<1>2. CASE Strategy[kind] = "token"
  <2> DEFINE beyond == {Numbered[kind][n] : n \in
                   {i \in 1..MaxIndex :
                      \A j \in i..MaxIndex : Numbered[kind][j] \notin Used(scratch_)}}
  <2>1. p \in FirstIn(Numbered[kind], beyond \ reserved)
    BY <1>2 DEF Assign, NextToken
  <2> QED BY <1>1, <2>1
<1>3. CASE Strategy[kind] # "token"
  <2> DEFINE free == Name \ (Used(scratch_) \cup reserved)
             found == FirstIn(Probe(kind, name), free)
  <2>1. p \in found \/ p \in FirstIn(Numbered[kind], free)
    BY <1>3 DEF Assign, FromPool
  <2>2. ASSUME p \in found PROVE p \in PseudonymsOf(kind) /\ p \in free
    BY <2>2, FirstInFacts, ProbeFacts
  <2> QED BY <1>1, <2>1, <2>2
<1> QED BY <1>2, <1>3

\* No string is mapped to itself, in whatever case.
NoSelf(m) == \A k \in Name : m[k] # NoName => Fold[m[k]] # Fold[k]

\* The empty mapping maps no name to itself.
LEMMA EmptyNoSelf == NoSelf(Empty)
BY DEF NoSelf, Empty

\* A merge adds no such entry.
LEMMA MergeNoSelf ==
  ASSUME NEW m, NEW w, NoSelf(m), NoSelf(w)
  PROVE  NoSelf(Merge(m, w))
BY DEF NoSelf, Merge

\* A part is never its own pseudonym.
LEMMA PartsDiffer ==
  ASSUME NEW kind, NEW real, NEW pseudo, NEW scratch_,
         NEW pair \in Parts(kind, real, pseudo, scratch_)
  PROVE  Fold[pair[1]] # Fold[pair[2]]
BY DEF Parts, ComponentMappings

\* An entity with its parts has no such entry when its pseudonym is another
\* string.
LEMMA WithPartsNoSelf ==
  ASSUME NEW real \in Name, NEW pseudo \in Name, Fold[pseudo] # Fold[real],
         NEW parts \in SUBSET (Name \X Name),
         \A pair \in parts : Fold[pair[1]] # Fold[pair[2]]
  PROVE  NoSelf(WithParts(real, pseudo, parts))
<1> SUFFICES ASSUME NEW k \in Name, WithParts(real, pseudo, parts)[k] # NoName
             PROVE  Fold[WithParts(real, pseudo, parts)[k]] # Fold[k]
  BY DEF NoSelf
<1>1. CASE k = real
  BY <1>1, WithPartsFacts
<1>2. CASE k # real
  <2>1. \E pair \in parts : pair[1] = k
    BY <1>2 DEF WithParts
  <2>2. PICK pair \in parts : pair[1] = k /\ pair = CHOOSE q \in parts : q[1] = k
    BY <2>1
  <2>3. WithParts(real, pseudo, parts)[k] = pair[2]
    BY <1>2, <2>1, <2>2 DEF WithParts
  <2> QED BY <2>2, <2>3
<1> QED BY <1>1, <1>2

\* A pseudonym that does not occur in the text is not the name, and its parts
\* are not the parts of the name they stand for.
LEMMA EntriesNoSelf ==
  ASSUME NEW kind, NEW real \in Name, NEW pseudo \in Name, NEW scratch_,
         Fold[pseudo] # Fold[real]
  PROVE  NoSelf(Entries(kind, real, pseudo, scratch_))
BY PartsAreNames, PartsDiffer, WithPartsNoSelf DEF Entries

-----------------------------------------------------------------------------
(* One key for a name, one name for a pseudonym. *)

\* Spellings that differ only in case share one key.
OneKey(m) == \A j, k \in Keys(m) : Fold[j] = Fold[k] => j = k

\* No two keys have the same pseudonym, in whatever case.
Distinct(m) == \A j, k \in Keys(m) : Fold[m[j]] = Fold[m[k]] => j = k

\* The entries of w are entries of m.
Within(w, m) == \A n \in Keys(w) : m[n] = w[n]

\* A mapping within another one has none of the keys it lacks.
LEMMA WithinKeys ==
  ASSUME NEW m, NEW w, Within(w, m)
  PROVE  Keys(w) \subseteq Keys(m)
BY DEF Within, Keys

\* Both properties pass on to the mappings within.
LEMMA WithinKeeps ==
  ASSUME NEW m, NEW w, Within(w, m)
  PROVE  /\ OneKey(m) => OneKey(w)
         /\ Distinct(m) => Distinct(w)
BY WithinKeys DEF Within, OneKey, Distinct

\* The empty mapping is within every other.
LEMMA EmptyWithin ==
  ASSUME NEW m PROVE Within(Empty, m) /\ Keys(Empty) = {}
BY DEF Within, Keys, Empty

\* A merge of two mappings within a third is within it, and has them within.
LEMMA MergeWithin ==
  ASSUME NEW m, NEW a \in Mappings, NEW b \in Mappings, Within(a, m), Within(b, m)
  PROVE  /\ Within(Merge(a, b), m)
         /\ Within(a, Merge(a, b))
         /\ Within(b, Merge(a, b))
<1>1. ASSUME NEW n \in Name
      PROVE  /\ a[n] # NoName => Merge(a, b)[n] = a[n] /\ m[n] = a[n]
             /\ b[n] # NoName => m[n] = b[n]
             /\ a[n] = NoName => Merge(a, b)[n] = b[n]
  BY MergeFacts DEF Within, Keys
<1> QED BY <1>1 DEF Within, Keys

\* New keys that no old key covers are added beside the old entries.
LEMMA MergeApart ==
  ASSUME NEW m \in Mappings, NEW w \in Mappings,
         \A k \in Keys(w) : ~HasKey(m, k)
  PROVE  /\ Within(m, Merge(m, w)) /\ Within(w, Merge(m, w))
         /\ Keys(Merge(m, w)) = Keys(m) \cup Keys(w)
         /\ OneKey(m) /\ OneKey(w) => OneKey(Merge(m, w))
<1>1. \A k \in Keys(w) : m[k] = NoName
  BY DEF HasKey, KeysFor, Keys
<1>2. Within(m, Merge(m, w)) /\ Within(w, Merge(m, w))
  BY <1>1, MergeFacts DEF Within, Keys
<1>3. Keys(Merge(m, w)) = Keys(m) \cup Keys(w)
  BY MergeKeys
<1>4. ASSUME OneKey(m), OneKey(w), NEW j \in Keys(m) \cup Keys(w),
             NEW k \in Keys(m) \cup Keys(w), Fold[j] = Fold[k]
      PROVE  j = k
  BY <1>4 DEF OneKey, HasKey, KeysFor
<1> QED BY <1>2, <1>3, <1>4 DEF OneKey

\* The parts of a name are its first and last word, given those of the
\* pseudonym; both have words enough to tell the two apart.
LEMMA PartsFacts ==
  ASSUME NEW kind, NEW real \in Name, NEW pseudo \in Name, NEW scratch_,
         NEW pair \in Parts(kind, real, pseudo, scratch_)
  PROVE  /\ Decompose /\ kind = Person
         /\ Len(Fields[real]) >= 2 /\ Len(Fields[pseudo]) >= 2
         /\ \/ pair = <<Fields[real][1], Fields[pseudo][1]>>
            \/ /\ pair = <<Fields[real][Len(Fields[real])],
                           Fields[pseudo][Len(Fields[pseudo])]>>
               /\ Fold[pair[1]] # Fold[Fields[real][1]]
         /\ ~HasKey(scratch_, pair[1])
         /\ Fold[pair[1]] # Fold[real]
<1> DEFINE r == Fields[real]
           p == Fields[pseudo]
           first == <<r[1], p[1]>>
           last == <<r[Len(r)], p[Len(p)]>>
<1>1. /\ Decompose /\ kind = Person
      /\ pair \in ComponentMappings(real, pseudo)
      /\ ~HasKey(scratch_, pair[1]) /\ Fold[pair[1]] # Fold[real]
  BY DEF Parts
<1>2. /\ ~(Len(r) < 2 \/ Len(p) < 2)
      /\ \/ pair = first
         \/ pair = last /\ Fold[last[1]] # Fold[first[1]]
  BY <1>1 DEF ComponentMappings
<1>3. Len(r) \in Nat /\ Len(p) \in Nat
  BY FieldsAssumption
<1> QED BY <1>1, <1>2, <1>3

\* A key of a new entity is its string or one of its parts.
LEMMA WithPartsKeys ==
  ASSUME NEW real \in Name, NEW pseudo \in Name, NEW parts,
         NEW k \in Keys(WithParts(real, pseudo, parts)), k # real
  PROVE  \E pair \in parts : pair[1] = k /\ WithParts(real, pseudo, parts)[k] = pair[2]
<1>1. \E pair \in parts : pair[1] = k
  BY DEF WithParts, Keys
<1>2. PICK pair \in parts : pair[1] = k /\ pair = CHOOSE q \in parts : q[1] = k
  BY <1>1
<1>3. WithParts(real, pseudo, parts)[k] = pair[2]
  BY <1>1, <1>2 DEF WithParts, Keys
<1> QED BY <1>2, <1>3

\* The same of the entries, allow-listed parts dropped.
LEMMA EntriesKeys ==
  ASSUME NEW kind, NEW real \in Name, NEW pseudo \in Name, NEW scratch_,
         NEW k \in Keys(Entries(kind, real, pseudo, scratch_)), k # real
  PROVE  \E pair \in Parts(kind, real, pseudo, scratch_) :
           pair[1] = k /\ Entries(kind, real, pseudo, scratch_)[k] = pair[2]
<1> DEFINE parts == {pair \in Parts(kind, real, pseudo, scratch_) :
                       pair[1] \notin AllowList}
<1>1. Entries(kind, real, pseudo, scratch_) = WithParts(real, pseudo, parts)
  BY DEF Entries
<1>2. k \in Keys(WithParts(real, pseudo, parts))
  BY <1>1
<1>3. \E pair \in parts : pair[1] = k /\ WithParts(real, pseudo, parts)[k] = pair[2]
  <2> HIDE DEF parts
  <2> QED BY <1>2, WithPartsKeys
<1> QED BY <1>1, <1>3

\* The keys of a new entity are new, and none is a spelling of another,
\* whichever of its parts are taken.
LEMMA WithPartsApart ==
  ASSUME NEW kind, NEW real \in Name, NEW pseudo \in Name, NEW scratch_,
         ~HasKey(scratch_, real),
         NEW parts, parts \subseteq Parts(kind, real, pseudo, scratch_)
  PROVE  /\ \A k \in Keys(WithParts(real, pseudo, parts)) : ~HasKey(scratch_, k)
         /\ OneKey(WithParts(real, pseudo, parts))
<1> DEFINE new == WithParts(real, pseudo, parts)
<1>1. ASSUME NEW k \in Keys(new), k # real
      PROVE  /\ ~HasKey(scratch_, k) /\ Fold[k] # Fold[real]
             /\ \/ k = Fields[real][1]
                \/ /\ k = Fields[real][Len(Fields[real])]
                   /\ Fold[k] # Fold[Fields[real][1]]
  <2>1. PICK pair \in Parts(kind, real, pseudo, scratch_) : pair[1] = k
    BY <1>1, WithPartsKeys
  <2> QED BY <2>1, PartsFacts
<1>2. ASSUME NEW j \in Keys(new), NEW k \in Keys(new), Fold[j] = Fold[k]
      PROVE  j = k
  <2> HIDE DEF new
  <2>1. CASE j = real \/ k = real
    BY <1>1, <1>2, <2>1
  <2>2. CASE j # real /\ k # real
    BY <1>1, <1>2, <2>2
  <2> QED BY <2>1, <2>2
<1>3. \A k \in Keys(new) : ~HasKey(scratch_, k)
  BY <1>1
<1> QED BY <1>2, <1>3 DEF OneKey

\* The same of the entries, allow-listed parts dropped.
LEMMA EntriesApart ==
  ASSUME NEW kind, NEW real \in Name, NEW pseudo \in Name, NEW scratch_,
         ~HasKey(scratch_, real)
  PROVE  /\ \A k \in Keys(Entries(kind, real, pseudo, scratch_)) : ~HasKey(scratch_, k)
         /\ OneKey(Entries(kind, real, pseudo, scratch_))
<1> DEFINE parts == {pair \in Parts(kind, real, pseudo, scratch_) :
                       pair[1] \notin AllowList}
<1>1. /\ Entries(kind, real, pseudo, scratch_) = WithParts(real, pseudo, parts)
      /\ parts \subseteq Parts(kind, real, pseudo, scratch_)
  BY DEF Entries
<1> HIDE DEF parts
<1> QED BY <1>1, WithPartsApart

\* An assigned pseudonym is none of those in use.
LEMMA AssignFree ==
  ASSUME NEW kind \in Kind, NEW name \in Name, NEW scratch_, NEW reserved,
         NEW p \in Assign(kind, name, scratch_, reserved)
  PROVE  p \notin Used(scratch_)
<1>1. CASE Strategy[kind] = "token"
  <2> DEFINE beyond == {Numbered[kind][n] : n \in
                   {i \in 1..MaxIndex :
                      \A j \in i..MaxIndex : Numbered[kind][j] \notin Used(scratch_)}}
  <2>1. p \in beyond \ reserved
    BY <1>1, FirstInFacts DEF Assign, NextToken
  <2>2. PICK i \in 1..MaxIndex :
          /\ p = Numbered[kind][i]
          /\ \A j \in i..MaxIndex : Numbered[kind][j] \notin Used(scratch_)
    BY <2>1
  <2>3. i \in i..MaxIndex
    BY MaxIndexAssumption
  <2> QED BY <2>2, <2>3
<1>2. CASE Strategy[kind] # "token"
  <2> DEFINE free == Name \ (Used(scratch_) \cup reserved)
  <2>1. p \in FirstIn(Probe(kind, name), free) \/ p \in FirstIn(Numbered[kind], free)
    BY <1>2 DEF Assign, FromPool
  <2>2. p \in free
    BY <2>1, FirstInFacts
  <2> QED BY <2>2
<1> QED BY <1>1, <1>2

-----------------------------------------------------------------------------
(* Pseudonyms are told apart. *)

\* What a pseudonym may stand in a mapping as: whole, and as the first and the
\* last name of a person.
Given(kind, p) ==
  {p} \cup (IF Decompose /\ kind = Person /\ Len(Fields[p]) >= 2
            THEN {Fields[p][1], Fields[p][Len(Fields[p])]} ELSE {})

\* What an operator must see to when the pools are configured, as the default
\* pools do: no name, first name or last name occurs twice in any case.
PseudonymsApart ==
  /\ \A i, j \in Kind : \A p \in PseudonymsOf(i), q \in PseudonymsOf(j) :
       \A a \in Given(i, p), b \in Given(j, q) : Fold[a] = Fold[b] => p = q /\ a = b
  /\ \A kind \in Kind : \A p \in PseudonymsOf(kind) :
       Decompose /\ kind = Person /\ Len(Fields[p]) >= 2 =>
         /\ p # Fields[p][1] /\ p # Fields[p][Len(Fields[p])]
         /\ Fields[p][1] # Fields[p][Len(Fields[p])]

\* Each value of a mapping is a pseudonym of the mapping or a word of one.
Owned(m) ==
  \A k \in Keys(m) : \E kind \in Kind : \E p \in PseudonymsOf(kind) :
    p \in Used(m) /\ m[k] \in Given(kind, p)

\* What is in use in a mapping is in use in every one it is within.
LEMMA UsedWithin ==
  ASSUME NEW m, NEW w, Within(w, m)
  PROVE  Used(w) \subseteq Used(m)
<1> SUFFICES ASSUME NEW k \in Keys(w) PROVE w[k] \in Used(m)
  BY DEF Used
<1>1. k \in Keys(m) /\ m[k] = w[k]
  BY WithinKeys DEF Within
<1> QED BY <1>1 DEF Used

\* A merge of mappings that agree has the owners of both.
LEMMA MergeOwned ==
  ASSUME NEW m, NEW a \in Mappings, NEW b \in Mappings, Within(a, m), Within(b, m),
         Owned(a), Owned(b)
  PROVE  Owned(Merge(a, b))
<1> DEFINE c == Merge(a, b)
<1>1. Within(a, c) /\ Within(b, c) /\ Keys(c) = Keys(a) \cup Keys(b)
  BY MergeWithin, MergeKeys
<1> HIDE DEF c
<1>2. ASSUME NEW w, Within(w, c), Owned(w), NEW k \in Keys(w)
      PROVE  \E kind \in Kind : \E p \in PseudonymsOf(kind) :
               p \in Used(c) /\ c[k] \in Given(kind, p)
  <2>1. PICK kind \in Kind : \E p \in PseudonymsOf(kind) :
          p \in Used(w) /\ w[k] \in Given(kind, p)
    BY <1>2 DEF Owned
  <2>2. PICK p \in PseudonymsOf(kind) : p \in Used(w) /\ w[k] \in Given(kind, p)
    BY <2>1
  <2>3. p \in Used(c) /\ c[k] = w[k]
    BY <1>2, <2>2, UsedWithin DEF Within
  <2> QED BY <2>2, <2>3
<1>3. ASSUME NEW k \in Keys(c)
      PROVE  \E kind \in Kind : \E p \in PseudonymsOf(kind) :
               p \in Used(c) /\ c[k] \in Given(kind, p)
  <2>1. CASE k \in Keys(a)
    BY <1>1, <1>2, <2>1
  <2>2. CASE k \in Keys(b)
    BY <1>1, <1>2, <2>2
  <2> QED BY <1>1, <2>1, <2>2
<1> QED BY <1>3 DEF Owned, c

\* The empty mapping names nobody.
LEMMA EmptyOwned == Distinct(Empty) /\ Owned(Empty)
BY EmptyWithin DEF Distinct, Owned

\* The values of a new entity's entries are its pseudonym and words of that,
\* each given to one key.
LEMMA WithPartsDistinct ==
  ASSUME PseudonymsApart,
         NEW kind \in Kind, NEW real \in Name, NEW p \in PseudonymsOf(kind), p \in Name,
         NEW scratch_, NEW parts, parts \subseteq Parts(kind, real, p, scratch_),
         NEW new, new = WithParts(real, p, parts)
  PROVE  /\ \A k \in Keys(new) : new[k] \in Given(kind, p)
         /\ Distinct(new)
         /\ Owned(new)
<1>1. new \in Mappings /\ new[real] = p
  BY PartsAreNames, WithPartsFacts
<1>2. real \in Keys(new) /\ p \in Used(new)
  BY <1>1, NoNameAssumption DEF Keys, Used
<1> DEFINE r == Fields[real]
           w == Fields[p]
<1>3. ASSUME NEW k \in Keys(new), k # real
      PROVE  /\ Decompose /\ kind = Person /\ Len(w) >= 2
             /\ \/ k = r[1] /\ new[k] = w[1]
                \/ k = r[Len(r)] /\ new[k] = w[Len(w)]
  <2>1. PICK pair \in Parts(kind, real, p, scratch_) : pair[1] = k /\ new[k] = pair[2]
    BY <1>3, WithPartsKeys
  <2> QED BY <2>1, PartsFacts
<1>4. \A k \in Keys(new) : new[k] \in Given(kind, p)
  BY <1>1, <1>3 DEF Given
<1>5. ASSUME NEW j \in Keys(new), NEW k \in Keys(new), Fold[new[j]] = Fold[new[k]]
      PROVE  j = k
  <2>1. new[j] = new[k]
    BY <1>4, <1>5 DEF PseudonymsApart
  <2>2. ASSUME NEW i \in Keys(new), i # real PROVE new[i] # p
    BY <1>3, <2>2 DEF PseudonymsApart
  <2>3. CASE j = real \/ k = real
    BY <1>1, <2>1, <2>2, <2>3
  <2>4. CASE j # real /\ k # real
    <3>1. Decompose /\ kind = Person /\ Len(w) >= 2
      BY <1>3, <2>4
    <3>2. w[1] # w[Len(w)]
      BY <3>1 DEF PseudonymsApart
    <3> QED BY <1>3, <2>1, <2>4, <3>2
  <2> QED BY <2>3, <2>4
<1>6. Distinct(new)
  BY <1>5 DEF Distinct
<1>7. Owned(new)
  BY <1>2, <1>4 DEF Owned
<1> QED BY <1>4, <1>6, <1>7

\* A new entity with any of its parts, beside a mapping that does not cover it:
\* nothing is lost, and pseudonyms stay distinct.
LEMMA NewEntity ==
  ASSUME PseudonymsApart, NEW kind \in Kind, NEW real \in Name,
         NEW m \in Mappings, ~HasKey(m, real), Distinct(m), Owned(m), NEW reserved,
         NEW p \in Assign(kind, real, m, reserved),
         NEW parts, parts \subseteq Parts(kind, real, p, m),
         NEW new, new = WithParts(real, p, parts)
  PROVE  /\ new \in Mappings /\ Merge(m, new) \in Mappings
         /\ Within(m, Merge(m, new)) /\ Within(new, Merge(m, new))
         /\ Distinct(Merge(m, new)) /\ Owned(Merge(m, new)) /\ Owned(new)
<1> DEFINE copy == Merge(m, new)
<1>1. p \in Name /\ p \in PseudonymsOf(kind) /\ p \notin Used(m)
  BY AssignIsName, AssignFacts, AssignFree
<1>2. new \in Mappings
  BY <1>1, PartsAreNames, WithPartsFacts
<1>3. /\ \A k \in Keys(new) : new[k] \in Given(kind, p)
      /\ Distinct(new) /\ Owned(new)
  BY <1>1, WithPartsDistinct
<1>4. \A k \in Keys(new) : ~HasKey(m, k)
  BY <1>1, WithPartsApart
<1>5. /\ Within(m, copy) /\ Within(new, copy) /\ copy \in Mappings
      /\ Keys(copy) = Keys(m) \cup Keys(new)
  BY <1>2, <1>4, MergeApart, MergeFacts
<1>6. Owned(copy)
  BY <1>2, <1>3, <1>5, MergeOwned
<1>7. ASSUME NEW j \in Keys(m), NEW k \in Keys(new), Fold[m[j]] = Fold[new[k]]
      PROVE  FALSE
  <2>1. PICK type \in Kind : \E q \in PseudonymsOf(type) :
          q \in Used(m) /\ m[j] \in Given(type, q)
    BY DEF Owned
  <2>2. PICK q \in PseudonymsOf(type) : q \in Used(m) /\ m[j] \in Given(type, q)
    BY <2>1
  <2>3. q = p
    BY <1>1, <1>3, <1>7, <2>2 DEF PseudonymsApart
  <2> QED BY <1>1, <2>2, <2>3
<1>8. ASSUME NEW j \in Keys(copy), NEW k \in Keys(copy), Fold[copy[j]] = Fold[copy[k]]
      PROVE  j = k
  <2>1. \A n \in Keys(m) : copy[n] = m[n]
    BY <1>5 DEF Within
  <2>2. \A n \in Keys(new) : copy[n] = new[n]
    BY <1>5 DEF Within
  <2> HIDE DEF copy
  <2>3. CASE j \in Keys(m) /\ k \in Keys(m)
    BY <1>8, <2>1, <2>3 DEF Distinct
  <2>4. CASE j \in Keys(new) /\ k \in Keys(new)
    BY <1>3, <1>8, <2>2, <2>4 DEF Distinct
  <2>5. CASE j \in Keys(m) /\ k \in Keys(new)
    BY <1>7, <1>8, <2>1, <2>2, <2>5
  <2>6. CASE j \in Keys(new) /\ k \in Keys(m)
    BY <1>7, <1>8, <2>1, <2>2, <2>6
  <2> QED BY <1>5, <2>3, <2>4, <2>5, <2>6
<1>9. Distinct(copy)
  BY <1>8 DEF Distinct
<1> QED BY <1>2, <1>3, <1>5, <1>6, <1>9

\* The entries of a newly assigned entity are those of some of its parts.
LEMMA EntriesAreParts ==
  ASSUME NEW kind, NEW real, NEW p, NEW scratch_
  PROVE  \E parts \in SUBSET Parts(kind, real, p, scratch_) :
           Entries(kind, real, p, scratch_) = WithParts(real, p, parts)
BY DEF Entries
=============================================================================

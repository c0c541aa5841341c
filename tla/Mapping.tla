------------------------------ MODULE Mapping ------------------------------
(***************************************************************************)
(* The data of the text pass and the pure functions on it: a session's    *)
(* real -> pseudonym mapping, the merge that lets existing entries win,   *)
(* the choice of a pseudonym for a new entity and the first/last-name     *)
(* entries derived from it.                                               *)
(*                                                                         *)
(* A string of the program is a member of Name; what the code asks of a   *)
(* string (its case-folded form, its words) is a constant function on     *)
(* Name.  A mapping is a total function that sends the strings that are   *)
(* not keys to NoName.                                                    *)
(***************************************************************************)
EXTENDS Naturals, Sequences

CONSTANTS
  Name,       \* real values, pseudonyms and their words
  NoName,     \* "not a key"
  Fold,       \* the representative of a string's case-insensitive class
  Fields,     \* the whitespace-separated words of a string
  Safe,       \* the words isSafeComponent accepts
  AllowList,  \* the strings whose lower-cased form is on the allow-list
  Decompose,  \* whether PERSON entities also map their first and last name
  Kind,       \* entity types
  Person,     \* the PERSON entity type
  Strategy,   \* "pool" or "token" for each entity type
  Pool,       \* the configured pool of each entity type
  Numbered,   \* <TYPE_n> for a token type, Prefix-n for a pool type
  MaxIndex,   \* bound on n in the two numbered series
  Slot        \* HMAC slot of a string; 0 when no secret is configured

ASSUME NoNameAssumption == NoName \notin Name
ASSUME FoldAssumption == Fold \in [Name -> Name]
ASSUME FieldsAssumption == Fields \in [Name -> Seq(Name)]
ASSUME MaxIndexAssumption == MaxIndex \in Nat
ASSUME PoolAssumption ==
  /\ Pool \in [Kind -> Seq(Name)]
  /\ Numbered \in [Kind -> [1..MaxIndex -> Name]]
  /\ Slot \in [Name -> Nat]

Mappings == [Name -> Name \cup {NoName}]

Empty == [n \in Name |-> NoName]

Keys(m) == {n \in Name : m[n] # NoName}

\* Variant: the new entry wins.
MergeNewWins(existing, new) ==
  [n \in Name |-> IF new[n] # NoName THEN new[n] ELSE existing[n]]

\* The script that AddMappings runs: an existing entry is never replaced.
Merge(existing, new) ==
  [n \in Name |-> IF existing[n] # NoName THEN existing[n] ELSE new[n]]

\* The keys a string is rewritten by: the lookup is case-insensitive.
KeysFor(m, name) == {k \in Keys(m) : Fold[k] = Fold[name]}

\* Variant: a case-sensitive test.
HasExactKey(m, name) == name \in Keys(m)

HasKey(m, name) == KeysFor(m, name) # {}

\* The reals a pseudonym may be restored to.  GetReverseMapping inverts the
\* mapping in Go's random map order, so when several keys share a pseudonym
\* any one of them ends up in the inverse.
Inverse(m, pseudo) == {k \in Keys(m) : Fold[m[k]] = Fold[pseudo]}

Used(m) == {m[k] : k \in Keys(m)}

\* The first element of a list that is in ok: a singleton, or {} if none is.
FirstIn(list, ok) ==
  {list[i] : i \in {j \in DOMAIN list :
                      list[j] \in ok /\ \A l \in 1..(j-1) : list[l] \notin ok}}

\* The pool in the order it is probed, from the string's slot on.
Probe(kind, name) ==
  LET pool == Pool[kind]
  IN  [i \in 1..Len(pool) |-> pool[((Slot[name] + i - 1) % Len(pool)) + 1]]

\* Variant: pool entries already taken are not skipped.
FromPoolTaken(kind, name, scratch, reserved) ==
  LET found == FirstIn(Probe(kind, name), Name \ reserved)
  IN  IF found # {} THEN found ELSE FirstIn(Numbered[kind], Name \ reserved)

\* A pool pseudonym: the first that is neither taken nor in the text, else
\* the first such Prefix-n.
FromPool(kind, name, scratch, reserved) ==
  LET free == Name \ (Used(scratch) \cup reserved)
      found == FirstIn(Probe(kind, name), free)
  IN  IF found # {} THEN found ELSE FirstIn(Numbered[kind], free)

\* A token: the first index past the largest one in use that is not in the text.
NextToken(kind, scratch, reserved) ==
  LET beyond == {Numbered[kind][n] : n \in
                   {i \in 1..MaxIndex :
                      \A j \in i..MaxIndex : Numbered[kind][j] \notin Used(scratch)}}
  IN  FirstIn(Numbered[kind], beyond \ reserved)

\* The pseudonym Assign returns, as a set of at most one element: the code's
\* numbered series are unbounded, the model's end at MaxIndex.
Assign(kind, name, scratch, reserved) ==
  IF Strategy[kind] = "token"
  THEN NextToken(kind, scratch, reserved)
  ELSE FromPool(kind, name, scratch, reserved)

\* First-name and last-name pairs of a full name and its pseudonym.
ComponentMappings(real, pseudo) ==
  LET r == Fields[real]
      p == Fields[pseudo]
      first == <<r[1], p[1]>>
      last == <<r[Len(r)], p[Len(p)]>>
      pairs == IF Len(r) < 2 \/ Len(p) < 2 THEN {}
               ELSE IF Fold[last[1]] = Fold[first[1]] THEN {first}
               ELSE {first, last}
  IN  {pair \in pairs : pair[1] \in Safe /\ Fold[pair[1]] # Fold[pair[2]]}

\* The first/last-name pairs of a newly assigned person that have no key yet.
Parts(kind, real, pseudo, scratch) ==
  IF Decompose /\ kind = Person
  THEN {pair \in ComponentMappings(real, pseudo) :
          ~HasKey(scratch, pair[1]) /\ Fold[pair[1]] # Fold[real]}
  ELSE {}

\* The mapping of an entity and of its parts.
WithParts(real, pseudo, parts) ==
  [n \in Name |->
     IF n = real THEN pseudo
     ELSE IF \E pair \in parts : pair[1] = n
          THEN (CHOOSE pair \in parts : pair[1] = n)[2]
          ELSE NoName]

\* The entries one newly assigned entity adds to the scratch mapping.
Entries(kind, real, pseudo, scratch) ==
  WithParts(real, pseudo,
            {pair \in Parts(kind, real, pseudo, scratch) : pair[1] \notin AllowList})
=============================================================================

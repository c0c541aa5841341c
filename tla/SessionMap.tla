----------------------------- MODULE SessionMap -----------------------------
(***************************************************************************)
(* What the mapping store promises its callers: within one lifetime a     *)
(* session's mapping only grows and no entry ever changes; forgetting a   *)
(* session (erasure, expiry, loss) starts a new lifetime from nothing.    *)
(***************************************************************************)
EXTENDS Naturals

CONSTANTS Session, Key, Value, None

VARIABLES map, life

smVars == <<map, life>>

Init ==
  /\ map = [s \in Session |-> [k \in Key |-> None]]
  /\ life = [s \in Session |-> 0]

\* Some keys that were not mapped get a value; all other entries stay.
Learn(s) ==
  /\ map' \in [Session -> [Key -> Value \cup {None}]]
  /\ \A u \in Session, k \in Key :
       u # s \/ map[u][k] # None => map'[u][k] = map[u][k]
  /\ UNCHANGED life

Forget(s) ==
  /\ map' = [map EXCEPT ![s] = [k \in Key |-> None]]
  /\ life' = [life EXCEPT ![s] = @ + 1]

Next == \E s \in Session : Learn(s) \/ Forget(s)

Spec == Init /\ [][Next]_smVars
=============================================================================

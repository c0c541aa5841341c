----------------------------- MODULE SessionId -----------------------------
(***************************************************************************)
(* The session a request belongs to, derived from what identifies it.      *)
(***************************************************************************)
EXTENDS Naturals, Sequences

CONSTANTS
  Id,        \* identifiers a client or the gateway sends
  NoId,      \* an identifier that is absent or blank
  Sanitize   \* printable identifiers up to 256 bytes as they are, others hashed

ASSUME SanitizeAssumption == NoId \notin Id /\ Sanitize \in [Id -> Id]

\* What identifies a request: the session ids in the metadata of its messages,
\* oldest first, and three identifiers of the request.
Identity == [metadata : Seq(Id \cup {NoId}), endUser : Id \cup {NoId},
             trace : Id \cup {NoId}, call : Id \cup {NoId}]

\* The newest session id in the metadata, or none.
Newest(metadata) ==
  LET given == {i \in DOMAIN metadata : metadata[i] # NoId}
  IN  IF given = {} THEN NoId
      ELSE metadata[CHOOSE i \in given : \A j \in given : j <= i]

\* The first identifier of the chain that is present; anonymous is the random
\* id of a request that has none.
Derive(identity, anonymous) ==
  LET chain == <<Newest(identity.metadata), identity.endUser, identity.trace, identity.call>>
      present == {i \in 1..4 : chain[i] # NoId}
  IN  IF present = {} THEN anonymous
      ELSE Sanitize[chain[CHOOSE i \in present : \A j \in present : i <= j]]
=============================================================================

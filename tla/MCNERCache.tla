----------------------------- MODULE MCNERCache -----------------------------
(***************************************************************************)
(* Two calls over a cache of two entries: both repeat a line, they share   *)
(* it, and between them they need a third entry.                           *)
(***************************************************************************)
EXTENDS NERCache, TLC

CONSTANTS c1, c2, hello, name, card, spans1, spans2, bad

TwoCalls == c1 :> <<hello, name, hello>> @@ c2 :> <<hello, card, hello>>
=============================================================================

-------------------------------- MODULE Texts --------------------------------
(***************************************************************************)
(* Sequences of tokens, put together from pieces.                          *)
(***************************************************************************)
EXTENDS Sequences, SequencesExt

\* The pieces one after the other, with sep between every two.
Separated(pieces, sep) ==
  FlattenSeq([k \in DOMAIN pieces |-> IF k = 1 THEN pieces[k] ELSE <<sep>> \o pieces[k]])
=============================================================================

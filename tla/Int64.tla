------------------------------- MODULE Int64 -------------------------------
(***************************************************************************)
(* The int64 behind money.Amount and time.Duration: arithmetic in Go wraps *)
(* around without a word.                                                  *)
(***************************************************************************)
EXTENDS Integers

CONSTANT Half   \* int64 is -Half..Half-1: 2^63

ASSUME HalfAssumption == Half \in Nat \ {0}

Wrap(x) == ((x + Half) % (2 * Half)) - Half
=============================================================================

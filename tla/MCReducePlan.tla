---------------------------- MODULE MCReducePlan -----------------------------
(***************************************************************************)
(* Model-checking instance of ReducePlan: one aggregate function of each   *)
(* reduction type plus a second accumulable one, two input expressions,    *)
(* lists of up to three aggregates (enough for all three types in one     *)
(* collation, and for two accumulables of which one is DISTINCT), and      *)
(* integer widths scaled down from u64/usize so TLC can represent them.   *)
(***************************************************************************)
EXTENDS ReducePlan

MCFuncs == {"SumInt64", "Count", "MaxInt32", "JsonbAgg"}

(* Without a permutation, and with one that swaps the two input columns    *)
(* into a three-column input.                                              *)
MCInputPermutations == {<<>>, <<<<2, 0>>, 3>>}

(* Decoding does not depend on the input layout: the version-skew run     *)
(* keeps the input as it is.                                               *)
MCNoPermutation == {<<>>}

MCU64Max == 2^24 - 1

(* A hint of 1 yields no buckets at all; a hint at the saturation point    *)
(* exercises the saturating multiply.                                      *)
MCGroupSizeHints == {1, MCU64Max}
==============================================================================

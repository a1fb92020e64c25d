----------------------------- MODULE KeyValPlan ------------------------------
(***************************************************************************)
(* The programs that extract the group key and the aggregate inputs from   *)
(* an input row: `KeyValPlan::new` and `key_arity` in reduce.rs, over an   *)
(* abstraction of mz_expr's `MapFilterProject`.                            *)
(*                                                                         *)
(* An MFP is a record: the arity of its input, the scalar expressions it   *)
(* appends (opaque model values), its predicates and its output            *)
(* projection, a sequence of 0-based column numbers where a column below   *)
(* input_arity is an input column and column input_arity + k is the       *)
(* (k+1)-th expression.  `optimize` rewrites an MFP into an equivalent one *)
(* and is not modelled: the abstraction keeps only what an MFP computes.   *)
(***************************************************************************)
EXTENDS Integers, Sequences

(* MapFilterProject::new(input_arity): the identity on the input row.       *)
MfpNew(input_arity) ==
  [input_arity |-> input_arity, expressions |-> <<>>, predicates |-> {},
   projection |-> [i \in 1..input_arity |-> i - 1]]

(* MapFilterProject::map: appends expressions and their columns.           *)
MfpMap(mfp, exprs) ==
  LET first == mfp.input_arity + Len(mfp.expressions)
  IN  [mfp EXCEPT !.expressions = @ \o exprs,
                  !.projection  = @ \o [k \in 1..Len(exprs) |-> first + k - 1]]

(* MapFilterProject::project: selects and reorders output columns.          *)
MfpProject(mfp, cols) ==
  [mfp EXCEPT !.projection = [i \in 1..Len(cols) |-> mfp.projection[cols[i] + 1]]]

(* MapFilterProject::permute_fn: input column c becomes perm[c], and the    *)
(* columns of the expressions shift to start at the new input arity.        *)
MfpPermute(mfp, perm, new_arity) ==
  [mfp EXCEPT
     !.input_arity = new_arity,
     !.projection  = [i \in DOMAIN mfp.projection |->
                        LET c == mfp.projection[i]
                        IN  IF c >= mfp.input_arity
                            THEN c + new_arity - mfp.input_arity
                            ELSE perm[c + 1]]]

(* The value an MFP's output column c (0-based) holds: an input column or  *)
(* the expression that computes it.                                        *)
MfpOutput(mfp, c) ==
  LET src == mfp.projection[c + 1]
  IN  IF src < mfp.input_arity THEN <<"column", src>>
      ELSE mfp.expressions[src - mfp.input_arity + 1]

Range0(lo, hi) == [i \in 1..(hi - lo) |-> lo + i - 1]

(* Variant whose key projection starts one column early.                   *)
KeyValPlanNew_key_from_previous(input_arity, group_key, aggregates, permutation) ==
  LET key_mfp == MfpProject(MfpMap(MfpNew(input_arity), group_key),
                            Range0(input_arity - 1, input_arity + Len(group_key)))
      val_mfp == MfpProject(MfpMap(MfpNew(input_arity),
                                   [i \in DOMAIN aggregates |-> aggregates[i].expr]),
                            Range0(input_arity, input_arity + Len(aggregates)))
  IN  [key_plan |-> key_mfp, val_plan |-> val_mfp]

(* KeyValPlan::new.  `permutation` is <<>> for None and <<perm, arity>>    *)
(* for Some((perm, arity)).                                                *)
KeyValPlanNew(input_arity, group_key, aggregates, permutation) ==
  LET Permuted(mfp) ==
        IF permutation = <<>> THEN mfp
        ELSE MfpPermute(mfp, permutation[1], permutation[2])
      key_mfp == MfpProject(MfpMap(MfpNew(input_arity), group_key),
                            Range0(input_arity, input_arity + Len(group_key)))
      val_mfp == MfpProject(MfpMap(MfpNew(input_arity),
                                   [i \in DOMAIN aggregates |-> aggregates[i].expr]),
                            Range0(input_arity, input_arity + Len(aggregates)))
  IN  [key_plan |-> Permuted(key_mfp), val_plan |-> Permuted(val_mfp)]

key_arity(kv) == Len(kv.key_plan.projection)
==============================================================================

----------------------------- MODULE ReducePlan ------------------------------
(***************************************************************************)
(* The reduction planner of compute-types/src/plan/reduce.rs: the          *)
(* compilation of a reduce into a KeyValPlan and a ReducePlan             *)
(* (`KeyValPlan::new`, `ReducePlan::create_from`, `create_inner`,          *)
(* `convert_indexes_to_skips`) and the later upgrade of its hierarchical   *)
(* part to a monotonic plan (`HierarchicalPlan::as_monotonic`,             *)
(* `CollationPlan::as_monotonic`).                                         *)
(*                                                                         *)
(* Indexes stored in plans are 0-based as in the code; TLA+ sequences are  *)
(* 1-based, so aggregate number i of a list is aggs[i + 1].                *)
(***************************************************************************)
EXTENDS Integers, Sequences, SequencesExt, FiniteSets,
        ReductionType, KeyValPlan, ReducePlanProto

CONSTANTS
  Funcs,          \* the AggregateFunc variants inputs use
  Exprs,          \* scalar expressions (model values)
  KeyExprs,       \* group key expressions (model values)
  MaxAggs,        \* longest aggregate list compiled
  MaxKeys,        \* longest group key compiled
  InputArity,     \* arity of the reduce's input
  InputPermutations, \* values of input_permutation_and_new_arity
  GroupSizeHints, \* values of expected_group_size when it is Some
  DefaultGroupSizeLimit, \* u32::MAX, scaled: the limit without a hint
  U64Max,         \* u64::MAX, scaled: where bucket widths saturate
  UsizeModulus,   \* 2^usize::BITS, scaled: usize arithmetic wraps here
  NewerPlanners   \* whether a planner of a newer version may send plans

ASSUME Funcs \subseteq AggregateFuncs
ASSUME MaxAggs \in Nat /\ MaxKeys \in Nat /\ InputArity \in Nat
ASSUME NewerPlanners \in BOOLEAN

VARIABLES
  aggregates,     \* the aggregate list handed to the planner
  kv,             \* the KeyValPlan built for it
  plan,           \* the ReducePlan, NoPlan before compilation
  wire,           \* <<[msg, newer]>> once the encoded plan is sent, else <<>>
  decoded         \* <<result>> once the replica decoded it, else <<>>

vars == <<aggregates, kv, plan, wire, decoded>>

NoPlan == [kind |-> "None", plan |-> <<>>]

AggregateExprs == [func: Funcs, expr: Exprs, distinct: BOOLEAN]

(* Rust's Option<T>: <<>> is None, <<x>> is Some(x).                       *)
Some(x) == <<x>>
None == <<>>

-----------------------------------------------------------------------------
(* Bucket sizing, `bucketing_of_expected_group_size` (compute-types        *)
(* plan module, outside reduce.rs): powers of 16 below the expected group  *)
(* size, largest first, with saturating multiplication.                    *)
SaturatingMul16(w) == IF w > U64Max \div 16 THEN U64Max ELSE w * 16

bucketing_of_expected_group_size(expected_group_size) ==
  LET limit == IF expected_group_size = None THEN DefaultGroupSizeLimit
               ELSE expected_group_size[1]
      RECURSIVE Ladder(_)
      Ladder(current) ==
        IF current < limit THEN Ladder(SaturatingMul16(current)) \o <<current>>
        ELSE <<>>
  IN  Ladder(16)

(* Variant with the loop run forwards: each index then subtracts its      *)
(* already rewritten predecessor.                                          *)
convert_indexes_to_skips_forward(indexes) ==
  LET RECURSIVE Loop(_, _)
      Loop(idx, i) ==
        IF i >= Len(idx) THEN idx
        ELSE Loop([idx EXCEPT ![i + 1] = (@ - idx[i] - 1) % UsizeModulus], i + 1)
  IN  Loop(indexes, 1)

(* convert_indexes_to_skips: in place, from the last index down to the     *)
(* second, indexes[i] -= indexes[i - 1]; indexes[i] -= 1, in usize.        *)
convert_indexes_to_skips(indexes) ==
  LET RECURSIVE Loop(_, _)
      Loop(idx, i) ==          \* i is the 0-based position being rewritten
        IF i < 1 THEN idx
        ELSE Loop([idx EXCEPT ![i + 1] = (@ - idx[i] - 1) % UsizeModulus], i - 1)
  IN  Loop(indexes, Len(indexes) - 1)

-----------------------------------------------------------------------------
(* create_from's grouping: for one reduction type, the (index, aggregate)  *)
(* pairs of that type in the order of the list.                            *)
aggregates_list(aggs, typ) ==
  LET positions == SelectSeq([i \in 1..Len(aggs) |-> i - 1],
                             LAMBDA i : reduction_type(aggs[i + 1].func) = typ)
  IN  [k \in DOMAIN positions |-> <<positions[k], aggs[positions[k] + 1]>>]

(* A plan whose construction hit one of the planner's assertions.         *)
Panicked == [kind |-> "Panic", plan |-> <<>>]

(* create_inner's two assertions (reduce.rs:729-735) come first: a fused    *)
(* FlatMap UnnestList only for a single Basic aggregate, and a non-empty   *)
(* list.                                                                   *)
create_inner(typ, list, monotonic, expected_group_size, fused_unnest_list) ==
  IF \/ fused_unnest_list /\ ~(typ = "Basic" /\ Len(list) = 1)
     \/ list = <<>>
  THEN Panicked
  ELSE
  CASE typ = "Accumulable" ->
         LET entries == [k \in DOMAIN list |-> <<k - 1, list[k][1], list[k][2]>>]
         IN  [kind |-> "Accumulable",
              plan |-> [full_aggrs     |-> [k \in DOMAIN list |-> list[k][2]],
                        simple_aggrs   |-> SelectSeq(entries, LAMBDA e : ~e[3].distinct),
                        distinct_aggrs |-> SelectSeq(entries, LAMBDA e : e[3].distinct)]]
    [] typ = "Hierarchical" ->
         LET aggr_funcs == [k \in DOMAIN list |-> list[k][2].func]
             skips == convert_indexes_to_skips([k \in DOMAIN list |-> list[k][1]])
         IN  [kind |-> "Hierarchical",
              plan |-> IF monotonic
                       THEN [kind |-> "Monotonic", aggr_funcs |-> aggr_funcs,
                             skips |-> skips, must_consolidate |-> FALSE]
                       ELSE [kind |-> "Bucketed", aggr_funcs |-> aggr_funcs,
                             skips |-> skips,
                             buckets |-> bucketing_of_expected_group_size(expected_group_size)]]
    [] typ = "Basic" ->
         [kind |-> "Basic",
          plan |-> IF Len(list) = 1
                   THEN [kind |-> "Single", index |-> list[1][1], expr |-> list[1][2],
                         fused_unnest_list |-> fused_unnest_list]
                   ELSE [kind |-> "Multiple", aggrs |-> list]]

(* create_from's collation: the per-position reduction types, and each     *)
(* inner plan in the field of its type.                                     *)
CollationOf(aggs, plans) ==
  LET Field(typ) == LET ps == SelectSeq(plans, LAMBDA p : p.kind = typ)
                    IN  IF ps = <<>> THEN None ELSE Some(ps[1].plan)
  IN  [kind |-> "Collation",
       plan |-> [accumulable     |-> Field("Accumulable"),
                 hierarchical    |-> Field("Hierarchical"),
                 basic           |-> Field("Basic"),
                 aggregate_types |-> [i \in DOMAIN aggs |-> reduction_type(aggs[i].func)]]]

create_from(aggs, monotonic, expected_group_size, fused_unnest_list) ==
  IF aggs = <<>> THEN [kind |-> "Distinct", plan |-> <<>>]
  ELSE
    LET present == SelectSeq(ReductionTypes, LAMBDA t : aggregates_list(aggs, t) /= <<>>)
        plans == [k \in DOMAIN present |->
                    create_inner(present[k], aggregates_list(aggs, present[k]),
                                 monotonic, expected_group_size, fused_unnest_list)]
    IN  IF \E k \in DOMAIN plans : plans[k] = Panicked THEN Panicked
        ELSE IF Len(plans) = 1 THEN plans[1] ELSE CollationOf(aggs, plans)

-----------------------------------------------------------------------------
(* BucketedPlan::into_monotonic                                             *)
into_monotonic(bucketed, must_consolidate) ==
  [kind |-> "Monotonic", aggr_funcs |-> bucketed.aggr_funcs,
   skips |-> bucketed.skips, must_consolidate |-> must_consolidate]

(* HierarchicalPlan::as_monotonic                                           *)
hierarchical_as_monotonic(h, must_consolidate) ==
  IF h.kind = "Bucketed" THEN into_monotonic(h, must_consolidate)
  ELSE [h EXCEPT !.must_consolidate = must_consolidate]

(* CollationPlan::as_monotonic                                              *)
collation_as_monotonic(c, must_consolidate) ==
  [c EXCEPT !.hierarchical =
     IF @ = None THEN None ELSE Some(hierarchical_as_monotonic(@[1], must_consolidate))]

-----------------------------------------------------------------------------
Init ==
  /\ aggregates = <<>>
  /\ kv = [key_plan |-> MfpNew(0), val_plan |-> MfpNew(0)]
  /\ plan = NoPlan
  /\ wire = <<>>
  /\ decoded = <<>>

(* The only caller of create_from in this tree, the Arbitrary impl of      *)
(* ReducePlan (reduce.rs:211-218), clears fused_unnest_list unless the     *)
(* aggregate list is a single Basic aggregate.                             *)
ArbitraryFusedUnnestList(aggs, fused_unnest_list) ==
  fused_unnest_list /\ Len(aggs) = 1 /\ reduction_type(aggs[1].func) = "Basic"

(* Compilation of a reduce: KeyValPlan::new and ReducePlan::create_from    *)
(* over the same aggregate list, with the caller's fused_unnest_list.      *)
CreateFrom ==
  /\ plan.kind = "None"
  /\ \E aggs \in BoundedSeq(AggregateExprs, MaxAggs),
        group_key \in BoundedSeq(KeyExprs, MaxKeys),
        permutation \in InputPermutations,
        monotonic \in BOOLEAN,
        expected_group_size \in {None} \cup {Some(n) : n \in GroupSizeHints},
        fused_unnest_list \in BOOLEAN :
       /\ aggregates' = aggs
       /\ kv' = KeyValPlanNew(InputArity, group_key, aggs, permutation)
       /\ plan' = create_from(aggs, monotonic, expected_group_size,
                              ArbitraryFusedUnnestList(aggs, fused_unnest_list))
  /\ UNCHANGED <<wire, decoded>>

(* A later optimizer pass proves the input append-only and upgrades the    *)
(* hierarchical part of the plan, alone or inside a collation, before the  *)
(* plan is handed to the replicas.                                         *)
AsMonotonic ==
  /\ wire = <<>>
  /\ \E must_consolidate \in BOOLEAN :
    /\ \/ /\ plan.kind = "Hierarchical"
          /\ plan' = [plan EXCEPT !.plan = hierarchical_as_monotonic(@, must_consolidate)]
       \/ /\ plan.kind = "Collation"
          /\ plan' = [plan EXCEPT !.plan = collation_as_monotonic(@, must_consolidate)]
  /\ UNCHANGED <<aggregates, kv, wire, decoded>>

(* What a replica of an older version receives from a newer planner whose  *)
(* plan uses a oneof variant the replica does not know: prost decodes the  *)
(* unknown variant as an absent `kind`, at the top or in a nested message. *)
NewerVersionMessages(p) ==
  LET m == ReducePlanIntoProto(p)
      x == m.kind[1][2]
      Nested(v) == [kind |-> <<<<m.kind[1][1], v>>>>]
  IN  {[kind |-> <<>>]}
      \cup (IF p.kind = "Hierarchical" THEN {Nested([kind |-> <<>>])} ELSE {})
      \cup (IF p.kind = "Basic" THEN {Nested([kind |-> <<>>])} ELSE {})
      \cup (IF p.kind = "Collation"
            THEN {Nested([x EXCEPT !.hierarchical = <<[kind |-> <<>>]>>]) :
                    i \in 1..Len(x.hierarchical)}
                 \cup {Nested([x EXCEPT !.basic = <<[kind |-> <<>>]>>]) : i \in 1..Len(x.basic)}
                 \cup {Nested([x EXCEPT !.aggregate_types[i] = [kind |-> <<>>]]) :
                         i \in DOMAIN x.aggregate_types}
            ELSE {})

(* The compiled plan is serialized and sent to a replica; a planner of a   *)
(* newer version may send a plan the replica cannot fully decode.          *)
Ship ==
  /\ plan.kind /= "None"
  /\ wire = <<>>
  /\ \/ wire' = <<[msg |-> ReducePlanIntoProto(plan), newer |-> FALSE]>>
     \/ /\ NewerPlanners
        /\ \E m \in NewerVersionMessages(plan) : wire' = <<[msg |-> m, newer |-> TRUE]>>
  /\ UNCHANGED <<aggregates, kv, plan, decoded>>

(* The replica decodes the plan it received.                               *)
Decode ==
  /\ wire /= <<>>
  /\ decoded = <<>>
  /\ decoded' = <<ReducePlanFromProto(wire[1].msg)>>
  /\ UNCHANGED <<aggregates, kv, plan, wire>>

Next == CreateFrom \/ AsMonotonic \/ Ship \/ Decode

Spec == Init /\ [][Next]_vars

-----------------------------------------------------------------------------
(***************************************************************************)
(* What a plan computes.  The renderer reads each plan shape as its doc    *)
(* comments in reduce.rs describe it; these operators state that reading, *)
(* as output columns [func, expr, distinct], where expr is the value the   *)
(* KeyValPlan's val_plan puts in the value-row column the plan reads.      *)
(* A plan the renderer could not read consistently yields Broken entries.  *)
(***************************************************************************)
Broken == [func |-> "Broken", expr |-> "Broken", distinct |-> FALSE]

Column(func, distinct, col) ==
  IF col \in 0..(Len(kv.val_plan.projection) - 1)
  THEN [func |-> func, expr |-> MfpOutput(kv.val_plan, col), distinct |-> distinct]
  ELSE Broken

(* The renderer walks a row with iter.nth(skip): the k-th column it reads *)
(* is one past the previous one plus the k-th skip.                        *)
SkipsToIndexes(skips) ==
  LET RECURSIVE Walk(_, _)
      Walk(k, prev) == IF k > Len(skips) THEN <<>>
                       ELSE <<prev + 1 + skips[k]>> \o Walk(k + 1, prev + 1 + skips[k])
  IN  Walk(1, -1)

(* Accumulator k (0-based accumulable_index) finalizes full_aggrs[k] over  *)
(* the column of the one simple or distinct entry that feeds it.           *)
AccumulableOutputs(p) ==
  LET entries == ToSet(p.simple_aggrs) \cup ToSet(p.distinct_aggrs)
  IN  [k \in DOMAIN p.full_aggrs |->
         LET feeding == {e \in entries : e[1] = k - 1}
         IN  IF Len(p.simple_aggrs) + Len(p.distinct_aggrs) = Len(p.full_aggrs)
                /\ Cardinality(feeding) = 1
             THEN LET e == CHOOSE e \in feeding : TRUE
                  IN  Column(p.full_aggrs[k].func, e \in ToSet(p.distinct_aggrs), e[2])
             ELSE Broken]

HierarchicalOutputs(h) ==
  LET cols == SkipsToIndexes(h.skips)
  IN  [k \in DOMAIN h.aggr_funcs |->
         IF Len(cols) = Len(h.aggr_funcs) THEN Column(h.aggr_funcs[k], FALSE, cols[k])
         ELSE Broken]

BasicOutputs(b) ==
  IF b.kind = "Single" THEN <<Column(b.expr.func, b.expr.distinct, b.index)>>
  ELSE [k \in DOMAIN b.aggrs |->
          Column(b.aggrs[k][2].func, b.aggrs[k][2].distinct, b.aggrs[k][1])]

InnerOutputs(typ, inner) ==
  CASE typ = "Accumulable"  -> AccumulableOutputs(inner)
    [] typ = "Hierarchical" -> HierarchicalOutputs(inner)
    [] typ = "Basic"        -> BasicOutputs(inner)

(* Collation: output position i takes the next output of the inner plan of *)
(* aggregate_types[i]; every inner output must be taken exactly once.      *)
CollationOutputs(c) ==
  LET types == c.aggregate_types
      FieldOf(t) == CASE t = "Accumulable"  -> c.accumulable
                      [] t = "Hierarchical" -> c.hierarchical
                      [] t = "Basic"        -> c.basic
      Count(t, i) == Cardinality({j \in 1..i : types[j] = t})
      Consistent(t) ==
        IF FieldOf(t) = None THEN Count(t, Len(types)) = 0
        ELSE Len(InnerOutputs(t, FieldOf(t)[1])) = Count(t, Len(types))
  IN  IF \A k \in DOMAIN ReductionTypes : Consistent(ReductionTypes[k])
      THEN [i \in DOMAIN types |->
              InnerOutputs(types[i], FieldOf(types[i])[1])[Count(types[i], i)]]
      ELSE <<Broken>>

Outputs(p) ==
  CASE p.kind = "Distinct"  -> <<>>
    [] p.kind = "Collation" -> CollationOutputs(p.plan)
    [] OTHER                -> InnerOutputs(p.kind, p.plan)

-----------------------------------------------------------------------------
TypeOK ==
  /\ aggregates \in Seq(AggregateExprs)
  /\ plan.kind \in {"None", "Distinct", "Accumulable", "Hierarchical", "Basic", "Collation", "Panic"}
  /\ Len(aggregates) <= MaxAggs
  /\ plan.kind \in {"Hierarchical", "Basic"} => plan.plan.kind \in
       {"Monotonic", "Bucketed", "Single", "Multiple"}
  /\ key_arity(kv) <= MaxKeys

(* Refinement: the compiled KeyValPlan and ReducePlan together compute,    *)
(* at every output position, the requested aggregate over its own input    *)
(* expression, with DISTINCT honoured, from compilation on and across any  *)
(* number of as_monotonic upgrades.  This is what the partition by type,   *)
(* the accumulable indexing, the skip encoding, the collation's            *)
(* aggregate_types and the val_plan's column layout must agree on.         *)
Semantics == INSTANCE ReduceSemantics WITH
  request  <- aggregates,
  compiled <- plan.kind /= "None",
  output   <- IF plan.kind = "None" THEN <<>> ELSE Outputs(plan),
  Idempotent <- LAMBDA f : reduction_type(f) = "Hierarchical"

ImplementsReduceSemantics == Semantics!Spec

(* A replica holds exactly the plan the planner built, upgrades included,  *)
(* and a message from a newer planner is refused with a decode error,      *)
(* never read as some other plan.                                          *)
DecodedPlanFaithful ==
  decoded /= <<>> =>
    IF wire[1].newer THEN IsErr(decoded[1])
    ELSE ~IsErr(decoded[1]) /\ decoded[1][2] = plan
==============================================================================

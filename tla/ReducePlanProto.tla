--------------------------- MODULE ReducePlanProto ---------------------------
(***************************************************************************)
(* The protobuf encoding of plans: the `RustType` impls of reduce.rs       *)
(* (`into_proto`, `from_proto`).  A proto message is a record of its       *)
(* fields; a sub-message field or a `oneof kind` is optional, <<>> when    *)
(* absent; a oneof value is <<variant, payload>>.  AggregateExpr is        *)
(* encoded by mz_expr and carried here as is.  Decoding yields             *)
(* <<"Ok", value>> or <<"Err", missing field>>, and `?` propagates the     *)
(* first error.                                                            *)
(***************************************************************************)
EXTENDS Integers, Sequences

Ok(v) == <<"Ok", v>>
Err(field) == <<"Err", field>>
IsErr(r) == r[1] = "Err"

(* `?` over a sequence: collect Vec<Result<T>> into Result<Vec<T>>.        *)
CollectSeq(results) ==
  LET errs == SelectSeq(results, IsErr)
  IN  IF errs /= <<>> THEN errs[1] ELSE Ok([i \in DOMAIN results |-> results[i][2]])

(* into_rust_if_some: a required sub-message.                              *)
RequireSome(opt, field) == IF opt = <<>> THEN Err(field) ELSE Ok(opt[1])

-----------------------------------------------------------------------------
ReductionTypeIntoProto(t) == [kind |-> <<<<t, <<>>>>>>]
ReductionTypeFromProto(m) ==
  IF m.kind = <<>> THEN Err("kind") ELSE Ok(m.kind[1][1])

AggrIntoProto(e) == [index_agg |-> e[1], index_inp |-> e[2], expr |-> <<e[3]>>]
AggrFromProto(m) ==
  LET expr == RequireSome(m.expr, "ProtoAggr::expr")
  IN  IF IsErr(expr) THEN expr ELSE Ok(<<m.index_agg, m.index_inp, expr[2]>>)

AccumulableIntoProto(p) ==
  [full_aggrs     |-> p.full_aggrs,
   simple_aggrs   |-> [i \in DOMAIN p.simple_aggrs |-> AggrIntoProto(p.simple_aggrs[i])],
   distinct_aggrs |-> [i \in DOMAIN p.distinct_aggrs |-> AggrIntoProto(p.distinct_aggrs[i])]]
AccumulableFromProto(m) ==
  LET simple   == CollectSeq([i \in DOMAIN m.simple_aggrs |-> AggrFromProto(m.simple_aggrs[i])])
      distinct == CollectSeq([i \in DOMAIN m.distinct_aggrs |-> AggrFromProto(m.distinct_aggrs[i])])
  IN  CASE IsErr(simple)   -> simple
        [] IsErr(distinct) -> distinct
        [] OTHER -> Ok([full_aggrs |-> m.full_aggrs, simple_aggrs |-> simple[2],
                        distinct_aggrs |-> distinct[2]])

MonotonicIntoProto(p) ==
  [aggr_funcs |-> p.aggr_funcs, skips |-> p.skips, must_consolidate |-> p.must_consolidate]
(* Variant that leaves must_consolidate at its proto default.              *)
MonotonicFromProto_default_consolidate(m) ==
  Ok([kind |-> "Monotonic", aggr_funcs |-> m.aggr_funcs, skips |-> m.skips,
      must_consolidate |-> FALSE])
MonotonicFromProto(m) ==
  Ok([kind |-> "Monotonic", aggr_funcs |-> m.aggr_funcs, skips |-> m.skips,
      must_consolidate |-> m.must_consolidate])

BucketedIntoProto(p) == [aggr_funcs |-> p.aggr_funcs, skips |-> p.skips, buckets |-> p.buckets]
BucketedFromProto(m) ==
  Ok([kind |-> "Bucketed", aggr_funcs |-> m.aggr_funcs, skips |-> m.skips, buckets |-> m.buckets])

HierarchicalIntoProto(h) ==
  [kind |-> <<IF h.kind = "Monotonic" THEN <<"Monotonic", MonotonicIntoProto(h)>>
              ELSE <<"Bucketed", BucketedIntoProto(h)>>>>]
HierarchicalFromProto(m) ==
  CASE m.kind = <<>>               -> Err("ProtoHierarchicalPlan::Kind")
    [] m.kind[1][1] = "Monotonic" -> MonotonicFromProto(m.kind[1][2])
    [] OTHER                      -> BucketedFromProto(m.kind[1][2])

SimpleSingleIntoProto(a) == [index |-> a[1], expr |-> <<a[2]>>]
SimpleSingleFromProto(m) ==
  LET expr == RequireSome(m.expr, "ProtoSimpleSingleBasicPlan::expr")
  IN  IF IsErr(expr) THEN expr ELSE Ok(<<m.index, expr[2]>>)

SingleBasicIntoProto(b) ==
  [index |-> b.index, expr |-> <<b.expr>>, fused_unnest_list |-> b.fused_unnest_list]
SingleBasicFromProto(m) ==
  LET expr == RequireSome(m.expr, "ProtoSingleBasicPlan::expr")
  IN  IF IsErr(expr) THEN expr
      ELSE Ok([kind |-> "Single", index |-> m.index, expr |-> expr[2],
               fused_unnest_list |-> m.fused_unnest_list])

BasicIntoProto(b) ==
  IF b.kind = "Single"
  THEN [kind |-> <<<<"Single", SingleBasicIntoProto(b)>>>>]
  ELSE [kind |-> <<<<"Multiple",
                     [aggrs |-> [i \in DOMAIN b.aggrs |-> SimpleSingleIntoProto(b.aggrs[i])]]>>>>]
BasicFromProto(m) ==
  IF m.kind = <<>> THEN Err("ProtoBasicPlan::kind")
  ELSE IF m.kind[1][1] = "Single" THEN SingleBasicFromProto(m.kind[1][2])
  ELSE LET aggrs == CollectSeq([i \in DOMAIN m.kind[1][2].aggrs |->
                                  SimpleSingleFromProto(m.kind[1][2].aggrs[i])])
       IN  IF IsErr(aggrs) THEN aggrs ELSE Ok([kind |-> "Multiple", aggrs |-> aggrs[2]])

(* Option<T>::into_proto and Option<M>::into_rust.                         *)
OptIntoProto(opt, Enc(_)) == IF opt = <<>> THEN <<>> ELSE <<Enc(opt[1])>>
OptFromProto(opt, Dec(_)) ==
  IF opt = <<>> THEN Ok(<<>>)
  ELSE LET r == Dec(opt[1]) IN IF IsErr(r) THEN r ELSE Ok(<<r[2]>>)

CollationIntoProto(c) ==
  [accumulable     |-> OptIntoProto(c.accumulable, AccumulableIntoProto),
   hierarchical    |-> OptIntoProto(c.hierarchical, HierarchicalIntoProto),
   basic           |-> OptIntoProto(c.basic, BasicIntoProto),
   aggregate_types |-> [i \in DOMAIN c.aggregate_types |->
                          ReductionTypeIntoProto(c.aggregate_types[i])]]
CollationFromProto(m) ==
  LET acc   == OptFromProto(m.accumulable, AccumulableFromProto)
      hier  == OptFromProto(m.hierarchical, HierarchicalFromProto)
      basic == OptFromProto(m.basic, BasicFromProto)
      types == CollectSeq([i \in DOMAIN m.aggregate_types |->
                             ReductionTypeFromProto(m.aggregate_types[i])])
  IN  CASE IsErr(acc)   -> acc
        [] IsErr(hier)  -> hier
        [] IsErr(basic) -> basic
        [] IsErr(types) -> types
        [] OTHER -> Ok([accumulable |-> acc[2], hierarchical |-> hier[2],
                        basic |-> basic[2], aggregate_types |-> types[2]])

ReducePlanIntoProto(p) ==
  [kind |-> <<CASE p.kind = "Distinct"     -> <<"Distinct", <<>>>>
                [] p.kind = "Accumulable"  -> <<"Accumulable", AccumulableIntoProto(p.plan)>>
                [] p.kind = "Hierarchical" -> <<"Hierarchical", HierarchicalIntoProto(p.plan)>>
                [] p.kind = "Basic"        -> <<"Basic", BasicIntoProto(p.plan)>>
                [] p.kind = "Collation"    -> <<"Collation", CollationIntoProto(p.plan)>>>>]

ReducePlanFromProto(m) ==
  IF m.kind = <<>> THEN Err("ProtoReducePlan::kind")
  ELSE LET v == m.kind[1][1]
           x == m.kind[1][2]
           inner == CASE v = "Distinct"     -> Ok(<<>>)
                      [] v = "Accumulable"  -> AccumulableFromProto(x)
                      [] v = "Hierarchical" -> HierarchicalFromProto(x)
                      [] v = "Basic"        -> BasicFromProto(x)
                      [] v = "Collation"    -> CollationFromProto(x)
       IN  IF IsErr(inner) THEN inner ELSE Ok([kind |-> v, plan |-> inner[2]])
==============================================================================

----------------------------- MODULE MfpExtract -----------------------------
(***************************************************************************)
(* `ReducePlan::extract_mfp_after` in reduce.rs: the split of the MFP      *)
(* sitting on top of a reduction into a part fused into the reduction and  *)
(* a remainder applied after it.                                           *)
(*                                                                         *)
(* Expressions and predicates are records naming an opaque function and    *)
(* the columns it reads; a temporal predicate (one reading mz_now) is      *)
(* flagged.  MapFilterProject's own operations (mz_expr) are modelled from  *)
(* their contracts, and `optimize` as an equivalence it is: it is left out. *)
(* To compare programs, an MFP is evaluated symbolically on an input row   *)
(* of column terms: the result is the set of conditions a row must meet    *)
(* and the terms of its output columns.                                    *)
(***************************************************************************)
EXTENDS KeyValPlan, SequencesExt, FiniteSets

CONSTANTS
    MaxInputArity,  \* widest reduction output the MFP sits on
    MaxExprs,       \* expressions an MFP maps
    MaxPreds,       \* predicates an MFP filters by
    MaxProjection   \* output columns an MFP projects

VARIABLES
    mfp,            \* the MFP handed to extract_mfp_after
    keyArity,       \* its key_arity argument
    extracted       \* <<>> before the call, <<mfp_push, mfp, output_arity>> after

vars == <<mfp, keyArity, extracted>>

Width(m) == m.input_arity + Len(m.expressions)

(* MapFilterProject::filter on an MFP whose projection is the identity on  *)
(* its columns, as in every use below.                                     *)
MfpFilter(m, preds) == [m EXCEPT !.predicates = @ \cup preds]

(* MapFilterProject::compose(a, b): a followed by b; a column of b's input *)
(* is the column a projects there, b's expressions follow a's.             *)
MfpCompose(a, b) ==
  LET Re(c) == IF c < b.input_arity THEN a.projection[c + 1]
               ELSE Width(a) + c - b.input_arity
      ReArgs(e) == [e EXCEPT !.args = [i \in DOMAIN @ |-> Re(@[i])]]
  IN  [input_arity |-> a.input_arity,
       expressions |-> a.expressions \o [k \in DOMAIN b.expressions |-> ReArgs(b.expressions[k])],
       predicates  |-> a.predicates \cup {ReArgs(p) : p \in b.predicates},
       projection  |-> [i \in DOMAIN b.projection |-> Re(b.projection[i])]]

(* MapFilterProject::extract_temporal: the temporal predicates leave m; the *)
(* columns they read are appended to m's projection where missing, and the *)
(* returned MFP filters by them at their new positions and projects back   *)
(* to m's old width.                                                       *)
ExtractTemporal(m) ==
  LET temporal == {p \in m.predicates : p.temporal}
      support  == UNION {Range(p.args) : p \in temporal}
      missing  == SetToSortSeq({c \in support : c \notin Range(m.projection)}, <)
      proj     == m.projection \o missing
      Loc(c)   == SelectInSeq(proj, LAMBDA x : x = c) - 1
      Moved(p) == [p EXCEPT !.args = [i \in DOMAIN @ |-> Loc(@[i])]]
  IN  [non_temporal |-> [m EXCEPT !.predicates = @ \ temporal, !.projection = proj],
       temporal     |-> [input_arity |-> Len(proj), expressions |-> <<>>,
                         predicates  |-> {Moved(p) : p \in temporal},
                         projection  |-> Range0(0, Len(m.projection))]]

(* The fast path's test: a projection no wider than the input, of input    *)
(* columns only, that keeps the key as its prefix (reduce.rs:851-853).     *)
FusableProjection_no_key_prefix(nt, karity) ==
  /\ Len(nt.projection) <= nt.input_arity
  /\ \A i \in DOMAIN nt.projection : nt.projection[i] < nt.input_arity
FusableProjection(nt, karity) ==
  /\ Len(nt.projection) <= nt.input_arity
  /\ \A i \in DOMAIN nt.projection : nt.projection[i] < nt.input_arity
  /\ IsPrefix(Range0(0, karity), nt.projection)

(* The general path's remainder: the map and projection not pushed,        *)
(* followed by the temporal MFP (reduce.rs:874-877).                       *)
GeneralRemainder_without_temporal(nt, temporal) ==
  MfpProject(MfpMap(MfpNew(nt.input_arity), nt.expressions), nt.projection)
GeneralRemainder(nt, temporal) ==
  MfpCompose(MfpProject(MfpMap(MfpNew(nt.input_arity), nt.expressions), nt.projection),
             temporal)

(* extract_mfp_after(mfp, key_arity), returning                            *)
(* <<mfp_push, mfp, output_arity>>.                                        *)
extract_mfp_after(m, karity) ==
  LET split == ExtractTemporal(m)
      nt    == split.non_temporal
      ia    == nt.input_arity
  IN  IF FusableProjection(nt, karity)
      THEN <<nt, split.temporal, Len(nt.projection)>>
      ELSE <<MfpProject(MfpFilter(MfpMap(MfpNew(ia), nt.expressions), nt.predicates),
                        Range0(0, ia)),
             GeneralRemainder(nt, split.temporal),
             ia>>

-----------------------------------------------------------------------------
(* The MFPs that can sit on top of a reduction of arity n: expressions     *)
(* read earlier columns, predicates and the projection read any column,    *)
(* and temporal predicates appear only as filters (extract_temporal        *)
(* asserts that no expression is temporal).                                *)
ExprsOver(n) ==
  {es \in SeqOf([fn : {"f"}, args : {<<c>> : c \in 0..(n + MaxExprs - 2)}], MaxExprs) :
     \A k \in DOMAIN es : es[k].args[1] < n + k - 1}
PredsOver(w) ==
  {ps \in SUBSET {[fn |-> f, args |-> <<c>>, temporal |-> f = "mz_now_le"] :
                    f \in {"p", "mz_now_le"}, c \in 0..(w - 1)} :
     Cardinality(ps) <= MaxPreds}
Init ==
  /\ mfp = MfpNew(0)
  /\ keyArity = 0
  /\ extracted = <<>>

(* The planner calls extract_mfp_after once per reduction it fuses into;  *)
(* the MFP is chosen field by field.                                       *)
Extract ==
  /\ extracted = <<>>
  /\ \E n \in 1..MaxInputArity, k \in 0..MaxInputArity :
       /\ k <= n
       /\ \E es \in ExprsOver(n) :
          \E ps \in PredsOver(n + Len(es)), pj \in SeqOf(0..(n + Len(es) - 1), MaxProjection) :
            LET m == [input_arity |-> n, expressions |-> es, predicates |-> ps, projection |-> pj]
            IN  /\ mfp' = m
                /\ keyArity' = k
                /\ extracted' = extract_mfp_after(m, k)

Next == Extract

Spec == Init /\ [][Next]_vars

-----------------------------------------------------------------------------
(* Symbolic evaluation: a term is an input column or a function applied to  *)
(* terms; a row is the set of conditions it met and its output terms.      *)
ColTerm(c) == [fn |-> "col", col |-> c, args |-> <<>>]

RECURSIVE Term(_, _, _)
Term(m, row, c) ==
  IF c < m.input_arity THEN row[c + 1]
  ELSE LET e == m.expressions[c - m.input_arity + 1]
       IN  [fn |-> e.fn, col |-> -1,
            args |-> [i \in DOMAIN e.args |-> Term(m, row, e.args[i])]]

Apply(m, r) ==
  [conds |-> r.conds \cup {[fn |-> p.fn, col |-> -1,
                            args |-> [i \in DOMAIN p.args |-> Term(m, r.out, p.args[i])]] :
                           p \in m.predicates},
   out   |-> [i \in DOMAIN m.projection |-> Term(m, r.out, m.projection[i])]]

InputRow(n) == [conds |-> {}, out |-> [i \in 1..n |-> ColTerm(i - 1)]]

\* The fused part followed by the remainder is the MFP extract_mfp_after
\* was given: every row meets the same conditions, temporal ones included,
\* and yields the same output columns, on both the fast path and the
\* general path of reduce.rs:851-877.
ExtractPreservesMeaning ==
  extracted /= <<>> =>
    LET row == InputRow(mfp.input_arity)
    IN  Apply(extracted[2], Apply(extracted[1], row)) = Apply(mfp, row)

\* What is fused into the reduction never filters on time, never computes a
\* new column, never grows the output beyond the reduction's arity, keeps
\* the key columns as its prefix, and produces exactly output_arity columns
\* (reduce.rs:838-880); the remainder reads exactly those columns.
FusedIsSafe ==
  extracted /= <<>> =>
    LET push == extracted[1]
        out  == Apply(push, InputRow(mfp.input_arity)).out
    IN  /\ \A p \in push.predicates : ~p.temporal
        /\ Len(out) = extracted[3]
        /\ extracted[2].input_arity = extracted[3]
        /\ extracted[3] <= mfp.input_arity
        /\ \A i \in DOMAIN out : out[i].fn = "col"
        /\ keyArity <= Len(out)
        /\ \A i \in 1..keyArity : out[i] = ColTerm(i - 1)
=============================================================================

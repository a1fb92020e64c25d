--------------------------- MODULE FuncResolution ---------------------------
(***************************************************************************)
(* Function and operator resolution of sql/src/func.rs: select_impl, which *)
(* discards the implementations that cannot take the arguments (4.a),      *)
(* find_match, which narrows the rest as PostgreSQL's "Function Type       *)
(* Resolution" does, the PolymorphicSolution of polymorphic parameters and *)
(* coerce_args_to_types, which casts the arguments for the chosen one.     *)
(*                                                                         *)
(* Scalar types are their names; an argument is a type, or "unknown" for  *)
(* an uncoerced string literal.  Implicit casts (typeconv::can_cast),      *)
(* ScalarType::near_match and typeconv::guess_best_common_type live        *)
(* outside this tree and are modelled from their PostgreSQL definitions.   *)
(* Container types are left out: the polymorphic parameters kept are       *)
(* AnyElement, AnyCompatible and RangeAny, with no range-typed argument.   *)
(***************************************************************************)
EXTENDS Naturals, Sequences, FiniteSets

CONSTANTS
    Catalog,    \* function name -> its implementations' ParamLists, in catalog order
    ArgTypes,   \* the types a known argument may have
    MaxArgs     \* the most arguments a call passes

VARIABLES
    call,       \* the function and argument types select_impl was given
    resolved    \* what select_impl returned

vars == <<call, resolved>>

Numeric  == {"int2", "int4", "int8", "uint2", "uint4", "uint8", "float4", "float8", "numeric"}
DateTime == {"date", "time", "timestamp", "timestamptz"}
ScalarTypes == Numeric \cup DateTime \cup {"interval", "text", "bool", "jsonb"}
Polymorphic == {"anyelement", "anycompatible", "rangeany"}

(* TypeCategory::from_type, for the types above.                           *)
CategoryOfType(t) ==
    CASE t \in Numeric  -> "Numeric"
      [] t \in DateTime -> "DateTime"
      [] t = "interval" -> "Timespan"
      [] t = "text"     -> "String"
      [] t = "bool"     -> "Boolean"
      [] t = "jsonb"    -> "UserDefined"

(* TypeCategory::from_param.                                               *)
CategoryOfParam(p) ==
    IF p \in ScalarTypes THEN CategoryOfType(p)
    ELSE IF p = "rangeany" THEN "Range" ELSE "Pseudo"

(* TypeCategory::preferred_type; "none" for categories without one.       *)
PreferredType(cat) ==
    CASE cat = "Numeric"  -> "float8"
      [] cat = "DateTime" -> "timestamptz"
      [] cat = "Timespan" -> "interval"
      [] cat = "String"   -> "text"
      [] cat = "Boolean"  -> "bool"
      [] OTHER            -> "none"

(* typeconv::can_cast(.., CastContext::Implicit, ..): PostgreSQL's        *)
(* implicit casts among these types.                                       *)
ImplicitCasts ==
    {<<"int2", t>> : t \in {"int4", "int8", "float4", "float8", "numeric"}}
    \cup {<<"int4", t>> : t \in {"int8", "float4", "float8", "numeric"}}
    \cup {<<"int8", t>> : t \in {"float4", "float8", "numeric"}}
    \cup {<<"uint2", t>> : t \in {"uint4", "uint8", "int4", "int8", "float4", "float8", "numeric"}}
    \cup {<<"uint4", t>> : t \in {"uint8", "int8", "float4", "float8", "numeric"}}
    \cup {<<"uint8", t>> : t \in {"float4", "float8", "numeric"}}
    \cup {<<"float4", "float8">>, <<"numeric", "float4">>, <<"numeric", "float8">>,
          <<"date", "timestamp">>, <<"date", "timestamptz">>,
          <<"timestamp", "timestamptz">>, <<"time", "interval">>}
CanCast(from, to) == from = to \/ <<from, to>> \in ImplicitCasts

(* ScalarType::near_match: the signed type an unsigned one nearly is.     *)
NearMatch(t) ==
    CASE t = "uint2" -> "int4"
      [] t = "uint4" -> "int8"
      [] t = "uint8" -> "numeric"
      [] OTHER       -> "none"

(* ParamList::Index: a variadic list repeats its trailing parameter.       *)
ParamAt(pl, i) == IF i <= Len(pl.leading) THEN pl.leading[i] ELSE pl.trailing

(* ParamList::validate_arg_len.                                            *)
ValidateArgLen(pl, n) ==
    IF pl.trailing = "none" THEN Len(pl.leading) = n ELSE n > Len(pl.leading)

(* ParamType::accepts_type.                                                *)
AcceptsType_no_cast(p, t) == p /= "internal"
AcceptsType(p, t) ==
    CASE p \in {"any", "anyelement", "anycompatible"} -> TRUE
      [] p = "rangeany"  -> FALSE
      [] p = "internal"  -> FALSE
      [] OTHER           -> CanCast(t, p)

(* ParamType::is_preferred_by, is_near_match and prefers_self.            *)
IsPreferredBy(p, t) == PreferredType(CategoryOfType(t)) = p
IsNearMatch(p, t)   == NearMatch(t) /= "none" /\ p = NearMatch(t)
PrefersSelf(p)      == PreferredType(CategoryOfParam(p)) = p

(* PolymorphicCompatClass::try_from: the class of a polymorphic parameter. *)
PolymorphicCompatClass(p) == IF p = "anycompatible" THEN "BestCommonAny" ELSE "Any"

Known(types) == {i \in DOMAIN types : types[i] /= "unknown"}

(* typeconv::guess_best_common_type over the known types, in order: a     *)
(* later type of the same category replaces the current one if the        *)
(* current one is not preferred and casts to it but not back; another     *)
(* category has no common type.                                           *)
RECURSIVE CommonTypeFrom(_, _)
CommonTypeFrom(ts, cur) ==
    IF ts = <<>> THEN cur
    ELSE LET n == Head(ts) IN
         IF cur = "error" \/ CategoryOfType(n) /= CategoryOfType(cur) THEN "error"
         ELSE IF PreferredType(CategoryOfType(cur)) /= cur /\ CanCast(cur, n) /\ ~CanCast(n, cur)
              THEN CommonTypeFrom(Tail(ts), n)
              ELSE CommonTypeFrom(Tail(ts), cur)
GuessBestCommonType(ts) == CommonTypeFrom(Tail(ts), Head(ts))

(* PolymorphicSolution::new: the types seen at polymorphic parameters and *)
(* determine_key's solution, or "none"; ok is FALSE when none exists.     *)
PolymorphicSolution(types, pl) ==
    LET tracked == SelectSeq([i \in DOMAIN types |-> [p |-> ParamAt(pl, i), t |-> types[i]]],
                             LAMBDA x : x.p \in Polymorphic)
        seen    == SelectSeq(tracked, LAMBDA x : x.t /= "unknown")
        coerced == [k \in DOMAIN seen |-> seen[k].t]
        any     == \A k \in DOMAIN tracked : PolymorphicCompatClass(tracked[k].p) = "Any"
        key     == IF coerced = <<>>
                   THEN IF tracked = <<>> \/ any THEN "none" ELSE "text"
                   ELSE IF any THEN Head(coerced) ELSE GuessBestCommonType(coerced)
    IN  [ok  |-> \/ coerced = <<>>
                 \/ /\ key /= "error"
                    /\ \A k \in DOMAIN coerced :
                         IF any THEN coerced[k] = key ELSE CanCast(coerced[k], key),
         key |-> key]

(* ParamList::matches_argtypes.                                            *)
MatchesArgtypes(pl, types) ==
    /\ ValidateArgLen(pl, Len(types))
    /\ \A i \in Known(types) : AcceptsType(ParamAt(pl, i), types[i])
    /\ PolymorphicSolution(types, pl).ok

(* ParamList::exact_match.                                                 *)
ExactMatch(pl, types) == \A i \in DOMAIN types : ParamAt(pl, i) = types[i]

-----------------------------------------------------------------------------
(* find_match, over the implementations select_impl kept, in catalog      *)
(* order.  A candidate is an index into the catalog entry with its counts *)
(* of exact matches, preferred types and near matches.                    *)
Candidate(pls, f, types) ==
    [f         |-> f,
     exact     |-> Cardinality({i \in Known(types) : ParamAt(pls[f], i) = types[i]}),
     preferred |-> Cardinality({i \in Known(types) : IsPreferredBy(ParamAt(pls[f], i), types[i])})
                   + Cardinality({i \in DOMAIN types \ Known(types) : PrefersSelf(ParamAt(pls[f], i))}),
     near      |-> Cardinality({i \in Known(types) : IsNearMatch(ParamAt(pls[f], i), types[i])})]

MaxOf(cs, field) ==
    LET vals == {cs[k][field] : k \in DOMAIN cs}
    IN  CHOOSE v \in vals : \A w \in vals : w <= v

(* Steps 4.c, 4.c.i and 4.d: keep the candidates with the most exact      *)
(* matches, then the most near matches, then the most preferred types.    *)
RetainMost(cs, field) == SelectSeq(cs, LAMBDA c : c[field] >= MaxOf(cs, field))

Found(f)  == [ok |-> TRUE, f |-> f, n |-> 1]
NotFound(n) == [ok |-> FALSE, f |-> 0, n |-> n]
Settle(cs) == IF Len(cs) = 1 THEN Found(cs[1].f) ELSE NotFound(Len(cs))

(* Step 4.e at one unknown position i: the selected category is String if *)
(* any candidate takes a string there, else the one category all take;    *)
(* candidates of other categories go, and if any candidate accepts the    *)
(* category's preferred type, those that do not accept it go too.         *)
UnknownCategories(pls, cs, i) == {CategoryOfParam(ParamAt(pls[cs[k].f], i)) : k \in DOMAIN cs}
UnknownCategoryResolves(pls, cs, i) ==
    LET cats == UnknownCategories(pls, cs, i)
    IN  "String" \in cats \/ Cardinality(cats) = 1
RetainCategory(pls, cs, i) ==
    LET cats == UnknownCategories(pls, cs, i)
        sel  == IF "String" \in cats THEN "String" ELSE CHOOSE c \in cats : TRUE
        pref == PreferredType(sel)
        Takes(c, t) == AcceptsType(ParamAt(pls[c.f], i), t)
        found == pref /= "none" /\ \E k \in DOMAIN cs : Takes(cs[k], pref)
        inCat == SelectSeq(cs, LAMBDA c : CategoryOfParam(ParamAt(pls[c.f], i)) = sel)
    IN  IF found THEN SelectSeq(inCat, LAMBDA c : Takes(c, pref)) ELSE inCat

(* The loop over argument positions of find_match (func.rs:1169-1232),    *)
(* which also collects the known types for 4.f; an unresolvable category  *)
(* breaks out of the loop.                                                 *)
RECURSIVE UnknownArgLoop(_, _, _, _, _)
UnknownArgLoop(pls, types, i, cs, st) ==
    IF i > Len(types) THEN [st EXCEPT !.cands = cs]
    ELSE IF types[i] = "unknown"
    THEN IF UnknownCategoryResolves(pls, cs, i)
         THEN UnknownArgLoop(pls, types, i + 1, RetainCategory(pls, cs, i), st)
         ELSE [st EXCEPT !.cands = cs]
    ELSE UnknownArgLoop(pls, types, i + 1, cs,
                        [st EXCEPT !.found_known = TRUE,
                                   !.types_match = @ /\ (st.common = "none" \/ st.common = types[i]),
                                   !.common = IF @ = "none" THEN types[i] ELSE @])

(* Step 4.f: with both known and unknown arguments, all known ones of one *)
(* type, the unknown ones are taken to be of that type too.               *)
CommonTyped(types, common) == [i \in DOMAIN types |-> IF types[i] = "unknown" THEN common ELSE types[i]]

find_match(pls, impls, types) ==
    LET allKnown == Known(types) = DOMAIN types
        exact    == SelectSeq(impls, LAMBDA f : ExactMatch(pls[f], types))
        c0       == [k \in DOMAIN impls |-> Candidate(pls, impls[k], types)]
        c1       == RetainMost(c0, "exact")
        c3       == RetainMost(RetainMost(c1, "near"), "preferred")
        st       == UnknownArgLoop(pls, types, 1, c3,
                        [cands |-> <<>>, found_known |-> FALSE, types_match |-> TRUE, common |-> "none"])
        c5       == SelectSeq(st.cands, LAMBDA c : MatchesArgtypes(pls[c.f], CommonTyped(types, st.common)))
    IN  CASE allKnown /\ Len(exact) = 1          -> Found(exact[1])
          [] c0 = <<>>                            -> NotFound(0)
          [] Len(c0) = 1                          -> Found(c0[1].f)
          [] Len(c1) = 1                          -> Found(c1[1].f)
          [] Len(c3) = 1 \/ allKnown              -> Settle(c3)
          [] Len(st.cands) = 1                    -> Found(st.cands[1].f)
          [] st.found_known /\ st.types_match     -> Settle(c5)
          [] OTHER                                -> NotFound(Len(st.cands))

-----------------------------------------------------------------------------
CoerceErrors == {"InternalFunctionCall", "UnsolvablePolymorphicFunctionInput"}

(* PolymorphicSolution::target_for_param_type: the key, wrapped for a     *)
(* range parameter; "none" when the solution has no key.                   *)
TargetForParamType(key, p) ==
    IF key = "none" THEN "none" ELSE IF p = "rangeany" THEN "range" ELSE key

(* coerce_args_to_types: the type each argument is cast to, or the error  *)
(* of the first argument that cannot be.  An unknown literal at an Any    *)
(* parameter is typed as text.                                             *)
CoerceArgsToTypes(pl, types) ==
    LET key == PolymorphicSolution(types, pl).key
        Target(i) ==
            LET p == ParamAt(pl, i) IN
            CASE p = "any"      -> IF types[i] = "unknown" THEN "text" ELSE types[i]
              [] p = "internal" -> "InternalFunctionCall"
              [] p \in Polymorphic ->
                   IF TargetForParamType(key, p) = "none" THEN "UnsolvablePolymorphicFunctionInput"
                   ELSE TargetForParamType(key, p)
              [] OTHER          -> p
        targets == [i \in DOMAIN types |-> Target(i)]
        errs    == {i \in DOMAIN types : targets[i] \in CoerceErrors}
    IN  IF errs = {} THEN [kind |-> "Ok", targets |-> targets]
        ELSE [kind |-> targets[CHOOSE i \in errs : \A j \in errs : i <= j], targets |-> <<>>]

(* select_impl: 4.a, then find_match, then the chosen implementation's    *)
(* operation on the coerced arguments; no candidate is UnknownFunction,   *)
(* several are IndistinctFunction.                                         *)
select_impl(pls, types) ==
    LET impls == SelectSeq([k \in DOMAIN pls |-> k], LAMBDA k : MatchesArgtypes(pls[k], types))
        m     == find_match(pls, impls, types)
    IN  IF ~m.ok
        THEN [kind |-> IF m.n = 0 THEN "UnknownFunction" ELSE "IndistinctFunction",
              f |-> 0, targets |-> <<>>]
        ELSE LET c == CoerceArgsToTypes(pls[m.f], types)
             IN  [kind |-> c.kind, f |-> m.f, targets |-> c.targets]

ArgLists == UNION {[1..n -> ArgTypes \cup {"unknown"}] : n \in 1..MaxArgs}

Init ==
    /\ call = [name |-> "none", types |-> <<>>]
    /\ resolved = [kind |-> "none", f |-> 0, targets |-> <<>>]

(* The planner resolves one call of a catalog function.                    *)
Resolve ==
    /\ resolved.kind = "none"
    /\ \E name \in DOMAIN Catalog, types \in ArgLists :
         /\ call' = [name |-> name, types |-> types]
         /\ resolved' = select_impl(Catalog[name], types)

Next == Resolve

Spec == Init /\ [][Next]_vars

-----------------------------------------------------------------------------
(* The reference: the steps of PostgreSQL's Function Type Resolution as   *)
(* find_match's comments state them, over sets of implementations.  When *)
(* 4.e cannot deduce a category it ends ("this doesn't mean fail          *)
(* entirely, simply moving onto 4.f"); 4.f looks at all the known-type    *)
(* arguments.  The result is the set of implementations still in the     *)
(* running; resolution succeeds when it has one element.                  *)
RECURSIVE RulesUnknown(_, _, _, _)
RulesUnknown(pls, types, i, S) ==
    IF i > Len(types) THEN S
    ELSE IF types[i] /= "unknown" THEN RulesUnknown(pls, types, i + 1, S)
    ELSE LET cats == {CategoryOfParam(ParamAt(pls[k], i)) : k \in S}
             sel  == IF "String" \in cats THEN "String" ELSE CHOOSE c \in cats : TRUE
             pref == PreferredType(sel)
             inCat == {k \in S : CategoryOfParam(ParamAt(pls[k], i)) = sel}
             takesPref == {k \in S : pref /= "none" /\ AcceptsType(ParamAt(pls[k], i), pref)}
         IN  IF "String" \notin cats /\ Cardinality(cats) > 1 THEN S
             ELSE RulesUnknown(pls, types, i + 1,
                               IF takesPref = {} THEN inCat ELSE inCat \cap takesPref)

FunctionTypeResolution(pls, types) ==
    LET A  == {k \in DOMAIN pls : MatchesArgtypes(pls[k], types)}
        Score(k) == Candidate(pls, k, types)
        Most(S, field) == {k \in S : \A j \in S : Score(j)[field] <= Score(k)[field]}
        allKnown == Known(types) = DOMAIN types
        E  == {k \in A : ExactMatch(pls[k], types)}
        C1 == Most(A, "exact")
        C3 == Most(Most(C1, "near"), "preferred")
        C4 == RulesUnknown(pls, types, 1, C3)
        knownTypes == {types[i] : i \in Known(types)}
        C5 == {k \in C4 : \A t \in knownTypes : MatchesArgtypes(pls[k], CommonTyped(types, t))}
    IN  CASE allKnown /\ Cardinality(E) = 1        -> E
          [] Cardinality(C1) <= 1                  -> C1
          [] Cardinality(C3) = 1 \/ allKnown       -> C3
          [] Cardinality(C4) = 1                   -> C4
          [] Cardinality(knownTypes) = 1           -> C5
          [] OTHER                                 -> C4

Resolved == resolved.kind /= "none"
Chosen == IF resolved.f = 0 THEN {} ELSE {resolved.f}
Rules == FunctionTypeResolution(Catalog[call.name], call.types)

\* With unknown-type literals as well, select_impl still picks exactly the
\* implementation the rules single out, 4.e and 4.f included
\* (func.rs:1163-1266).
FollowsRules ==
    Resolved => IF Cardinality(Rules) = 1 THEN Chosen = Rules ELSE Chosen = {}

\* Whatever implementation is chosen, coerce_args_to_types casts every
\* known argument implicitly to its target, each parameter of a plain type
\* gets exactly that type, and all polymorphic parameters resolve to one
\* type: the candidate filter of select_impl (matches_argtypes and the
\* PolymorphicSolution) admitted only implementations that can be called.
CoercedArgsFitImpl ==
    resolved.kind = "Ok" =>
        LET pl == Catalog[call.name][resolved.f]
            ts == call.types
        IN  /\ \A i \in Known(ts) : CanCast(ts[i], resolved.targets[i])
            /\ \A i \in DOMAIN ts : ParamAt(pl, i) \in ScalarTypes => resolved.targets[i] = ParamAt(pl, i)
            /\ \A i, j \in DOMAIN ts :
                 (ParamAt(pl, i) \in Polymorphic /\ ParamAt(pl, j) \in Polymorphic)
                    => resolved.targets[i] = resolved.targets[j]
====

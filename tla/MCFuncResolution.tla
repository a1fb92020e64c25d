-------------------------- MODULE MCFuncResolution --------------------------
(***************************************************************************)
(* Overload sets of the builtin catalogs of func.rs, as select_impl gets   *)
(* them, over the argument types their parameters name.                    *)
(***************************************************************************)
EXTENDS FuncResolution, TLC

Exact(ps) == [leading |-> ps, trailing |-> "none"]

\* The "+" operator (func.rs:4437-4484).
Plus ==
    <<Exact(<<"any">>),
      Exact(<<"int2", "int2">>), Exact(<<"int4", "int4">>), Exact(<<"int8", "int8">>),
      Exact(<<"uint2", "uint2">>), Exact(<<"uint4", "uint4">>), Exact(<<"uint8", "uint8">>),
      Exact(<<"float4", "float4">>), Exact(<<"float8", "float8">>),
      Exact(<<"interval", "interval">>),
      Exact(<<"timestamp", "interval">>), Exact(<<"interval", "timestamp">>),
      Exact(<<"timestamptz", "interval">>), Exact(<<"interval", "timestamptz">>),
      Exact(<<"date", "interval">>), Exact(<<"interval", "date">>),
      Exact(<<"date", "time">>), Exact(<<"time", "date">>),
      Exact(<<"time", "interval">>), Exact(<<"interval", "time">>),
      Exact(<<"numeric", "numeric">>), Exact(<<"rangeany", "rangeany">>)>>

\* round (func.rs:2542-2547).
Round ==
    <<Exact(<<"float4">>), Exact(<<"float8">>), Exact(<<"numeric">>),
      Exact(<<"numeric", "int4">>)>>

\* lag (func.rs:3162-3194).
Lag ==
    <<Exact(<<"anyelement">>), Exact(<<"anyelement", "int4">>),
      Exact(<<"anycompatible", "int4", "anycompatible">>)>>

\* abs (func.rs:1774-1781).
Abs ==
    <<Exact(<<"int2">>), Exact(<<"int4">>), Exact(<<"int8">>), Exact(<<"numeric">>),
      Exact(<<"float4">>), Exact(<<"float8">>)>>

\* The "-" operator (func.rs:4485-4515).
Minus ==
    <<Exact(<<"int2">>), Exact(<<"int4">>), Exact(<<"int8">>), Exact(<<"float4">>),
      Exact(<<"float8">>), Exact(<<"numeric">>), Exact(<<"interval">>),
      Exact(<<"int4", "int4">>), Exact(<<"int8", "int8">>),
      Exact(<<"uint2", "uint2">>), Exact(<<"uint4", "uint4">>), Exact(<<"uint8", "uint8">>),
      Exact(<<"float4", "float4">>), Exact(<<"float8", "float8">>),
      Exact(<<"numeric", "numeric">>), Exact(<<"interval", "interval">>),
      Exact(<<"timestamp", "timestamp">>), Exact(<<"timestamptz", "timestamptz">>),
      Exact(<<"timestamp", "interval">>), Exact(<<"timestamptz", "interval">>),
      Exact(<<"date", "date">>), Exact(<<"date", "interval">>),
      Exact(<<"time", "time">>), Exact(<<"time", "interval">>),
      Exact(<<"jsonb", "int8">>), Exact(<<"jsonb", "text">>),
      Exact(<<"rangeany", "rangeany">>)>>

\* The "*" operator (func.rs:4516-4531).
Times ==
    <<Exact(<<"int2", "int2">>), Exact(<<"int4", "int4">>), Exact(<<"int8", "int8">>),
      Exact(<<"uint2", "uint2">>), Exact(<<"uint4", "uint4">>), Exact(<<"uint8", "uint8">>),
      Exact(<<"float4", "float4">>), Exact(<<"float8", "float8">>),
      Exact(<<"interval", "float8">>), Exact(<<"float8", "interval">>),
      Exact(<<"numeric", "numeric">>), Exact(<<"rangeany", "rangeany">>)>>

\* The "/" operator (func.rs:4532-4543).
Divide ==
    <<Exact(<<"int2", "int2">>), Exact(<<"int4", "int4">>), Exact(<<"int8", "int8">>),
      Exact(<<"uint2", "uint2">>), Exact(<<"uint4", "uint4">>), Exact(<<"uint8", "uint8">>),
      Exact(<<"float4", "float4">>), Exact(<<"float8", "float8">>),
      Exact(<<"interval", "float8">>), Exact(<<"numeric", "numeric">>)>>

\* The "%" operator (func.rs:4544-4554).
Modulo ==
    <<Exact(<<"int2", "int2">>), Exact(<<"int4", "int4">>), Exact(<<"int8", "int8">>),
      Exact(<<"uint2", "uint2">>), Exact(<<"uint4", "uint4">>), Exact(<<"uint8", "uint8">>),
      Exact(<<"float4", "float4">>), Exact(<<"float8", "float8">>),
      Exact(<<"numeric", "numeric">>)>>

\* ceil (func.rs:1877-1881).
Ceil == <<Exact(<<"float4">>), Exact(<<"float8">>), Exact(<<"numeric">>)>>

\* trunc (func.rs:2700-2704).
Trunc == <<Exact(<<"float4">>), Exact(<<"float8">>), Exact(<<"numeric">>)>>

\* log (func.rs:2208-2212).
Log == <<Exact(<<"float8">>), Exact(<<"numeric">>), Exact(<<"numeric", "numeric">>)>>

\* power (func.rs:2519-2522).
Power == <<Exact(<<"float8", "float8">>), Exact(<<"numeric", "numeric">>)>>

\* mod (func.rs:2249-2257).
Mod ==
    <<Exact(<<"numeric", "numeric">>), Exact(<<"int2", "int2">>), Exact(<<"int4", "int4">>),
      Exact(<<"int8", "int8">>), Exact(<<"uint2", "uint2">>), Exact(<<"uint4", "uint4">>),
      Exact(<<"uint8", "uint8">>)>>

\* date_part (func.rs:2030-2035).
DatePart ==
    <<Exact(<<"text", "interval">>), Exact(<<"text", "time">>),
      Exact(<<"text", "timestamp">>), Exact(<<"text", "timestamptz">>)>>

\* date_trunc (func.rs:2036-2040).
DateTrunc ==
    <<Exact(<<"text", "timestamp">>), Exact(<<"text", "timestamptz">>),
      Exact(<<"text", "interval">>)>>

\* age (func.rs:2633-2636).
Age == <<Exact(<<"timestamp", "timestamp">>), Exact(<<"timestamptz", "timestamptz">>)>>

\* timezone (func.rs:2637-2669).
Timezone ==
    <<Exact(<<"text", "timestamp">>), Exact(<<"text", "timestamptz">>), Exact(<<"text", "time">>),
      Exact(<<"interval", "timestamp">>), Exact(<<"interval", "timestamptz">>),
      Exact(<<"interval", "time">>)>>

\* to_char (func.rs:2670-2673).
ToChar == <<Exact(<<"timestamp", "text">>), Exact(<<"timestamptz", "text">>)>>

\* sum without the unsupported interval overload.
Sum_without_interval ==
    <<Exact(<<"int2">>), Exact(<<"int4">>), Exact(<<"int8">>), Exact(<<"uint2">>),
      Exact(<<"uint4">>), Exact(<<"uint8">>), Exact(<<"float4">>), Exact(<<"float8">>),
      Exact(<<"numeric">>)>>

\* The sum aggregate (func.rs:3133-3150), with its unsupported interval
\* overload.
Sum ==
    <<Exact(<<"int2">>), Exact(<<"int4">>), Exact(<<"int8">>), Exact(<<"uint2">>),
      Exact(<<"uint4">>), Exact(<<"uint8">>), Exact(<<"float4">>), Exact(<<"float8">>),
      Exact(<<"numeric">>), Exact(<<"interval">>)>>

\* floor (func.rs:2063-2067).
Floor == <<Exact(<<"float4">>), Exact(<<"float8">>), Exact(<<"numeric">>)>>

\* exp, ln, log10 and sqrt (func.rs:2059-2062, 2200-2207, 2617-2620) each
\* have one float8 and one numeric implementation.
FloatOrNumeric == <<Exact(<<"float8">>), Exact(<<"numeric">>)>>

\* extract (func.rs:2023-2029).
Extract ==
    <<Exact(<<"text", "interval">>), Exact(<<"text", "time">>),
      Exact(<<"text", "timestamp">>), Exact(<<"text", "timestamptz">>),
      Exact(<<"text", "date">>)>>

\* avg (func.rs:1852-1862); its implementations are planned elsewhere, but
\* select_impl still chooses among these.
Avg ==
    <<Exact(<<"int8">>), Exact(<<"int4">>), Exact(<<"int2">>), Exact(<<"uint8">>),
      Exact(<<"uint4">>), Exact(<<"uint2">>), Exact(<<"float4">>), Exact(<<"float8">>),
      Exact(<<"interval">>)>>

\* stddev, stddev_pop and stddev_samp (func.rs:2579-2608).
Stddev ==
    <<Exact(<<"float4">>), Exact(<<"float8">>), Exact(<<"int2">>), Exact(<<"int4">>),
      Exact(<<"int8">>), Exact(<<"uint2">>), Exact(<<"uint4">>), Exact(<<"uint8">>)>>

\* variance, var_pop and var_samp (func.rs:2740-2769) list the same
\* parameters as stddev.
Variance == Stddev

Operators == [n \in {"+", "-", "*", "/", "%"} |->
                 CASE n = "+" -> Plus [] n = "-" -> Minus [] n = "*" -> Times
                   [] n = "/" -> Divide [] n = "%" -> Modulo]

Functions == [n \in {"round", "lag", "abs", "ceil", "trunc", "log", "power", "mod",
                     "date_part", "date_trunc", "age", "timezone", "to_char", "sum",
                     "floor", "exp", "ln", "log10", "sqrt", "extract", "avg",
                     "stddev", "stddev_pop", "stddev_samp",
                     "variance", "var_pop", "var_samp"} |->
                 CASE n = "round" -> Round [] n = "lag" -> Lag [] n = "abs" -> Abs
                   [] n = "ceil" -> Ceil [] n = "trunc" -> Trunc [] n = "log" -> Log
                   [] n = "power" -> Power [] n = "mod" -> Mod [] n = "date_part" -> DatePart
                   [] n = "date_trunc" -> DateTrunc [] n = "age" -> Age
                   [] n = "timezone" -> Timezone [] n = "to_char" -> ToChar [] n = "sum" -> Sum
                   [] n = "floor" -> Floor [] n = "extract" -> Extract [] n = "avg" -> Avg
                   [] n \in {"exp", "ln", "log10", "sqrt"} -> FloatOrNumeric
                   [] n \in {"stddev", "stddev_pop", "stddev_samp"} -> Stddev
                   [] n \in {"variance", "var_pop", "var_samp"} -> Variance]

MCCatalog == Operators @@ Functions

MCArgTypes == ScalarTypes

\* sum(NULL) is ambiguous, as in PostgreSQL: the unsupported sum(interval)
\* overload exists so that a NULL argument does not resolve to the float8
\* implementation (the comment at func.rs:3144-3146).  The preferred-type
\* step 4.d keeps both float8 and interval, and 4.e finds no one category.
SumOfUnknownIsAmbiguous ==
    (Resolved /\ call.name = "sum" /\ call.types = <<"unknown">>)
        => resolved.kind = "IndistinctFunction"
=============================================================================

# TLA+ models of the Materialize sources in `src/`

This directory holds TLA+ models of the five Rust files in the repository's `src/` tree. It also holds the TLC configurations that check them. `PROJECT.json` lists:

- the components;
- the runs;
- the mutants that show each property can fail;
- the map from every TLA+ definition to the lines of Rust it translates;
- the hazards the code is exposed to.

## The system and its parts

| Source | Part | What it does |
|---|---|---|
| `compute-types/src/plan/reduce.rs` | Reduce planner | Turns a `Reduce` (group key, aggregate list) into a `KeyValPlan` and a `ReducePlan`. It serializes the plan to protobuf for the replicas. |
| `balancerd/src/lib.rs` | Balancer | `BalancerService::serve` starts a pgwire and an HTTP listener. The pgwire side accepts connections and negotiates TLS. It resolves the tenant, optionally through a Frontegg password exchange, and proxies bytes to environmentd. |
| `storage/src/source/reclock/compat.rs` | Remap shard handle | Reads remap bindings from a persist shard in `next()`. It appends new bindings with `compare_and_append`, waiting while in read-only mode. |
| `storage/src/source/mysql/replication/events.rs` | MySQL replication | Applies query events (ALTER/RENAME/DROP/TRUNCATE) and row events to the replicated tables. It records definite errors and applies snapshot rewinds. |
| `sql/src/func.rs` | Function resolution | Selects one implementation of an overloaded SQL function by PostgreSQL's candidate-narrowing rules. The builtin catalogs are also in this file. |

How the parts interact:

- The planner runs in environmentd. A replica decodes its output, so planner and replica may run different versions.
- The balancer sits in front of environmentd.
- The reclock handle and the MySQL handlers run inside storage source dataflows.
- Function resolution runs in the SQL planner, upstream of the reduce planner.

There is no shared state between these parts, so they are modelled as separate components.

## Modules

| Module | Models | State and actions |
|---|---|---|
| `ReductionType` | `ReductionType`, `reduction_type` | Pure. It holds the three type names and the classification of every `AggregateFunc` variant. |
| `KeyValPlan` | `KeyValPlan::new`, `key_arity` | Pure. A `MapFilterProject` is abstracted to its input arity, the expressions it maps, and its projection. `MfpOutput` says which input column or expression an output column is. |
| `ReducePlanProto` | every `RustType` impl of the plan types | Pure. `*IntoProto`/`*FromProto` for each plan type, down to `MonotonicPlan`, `BucketedPlan` and `SingleBasicPlan`. A decode returns `Ok(x)` or `Err(missing_field)`. An absent `oneof` (a variant unknown to this version) gives the same errors as the code. |
| `ReduceSemantics` | what a reduce plan promises | Abstract. One `Compile` step fixes a request and its output: aggregate *i* of the request, evaluated on its own expression, with `distinct` dropped for idempotent functions. |
| `ReducePlan` | `create_from`, `create_inner`, `convert_indexes_to_skips`, the `as_monotonic` upgrades, shipping and decoding | Variables: `aggregates`, `kv`, `plan`, `wire`, `decoded`. Actions: `CreateFrom`, `AsMonotonic`, `Ship`, `Decode`. `Panicked` is the plan of a planner that tripped an assertion. |
| `MCReducePlan` | — | Model values and definitions for TLC. |
| `MfpExtract` | `ReducePlan::extract_mfp_after` | Pure. `extract_mfp_after(mfp, key_arity)` returns `<<mfp_push, mfp, output_arity>>`. The mz_expr operations it calls (`extract_temporal`, `compose`, `filter`) are modelled from their contracts. A single `Extract` step chooses an MFP field by field and calls it. `Apply` evaluates an MFP symbolically to compare programs. |
| `Reclock` | `PersistHandle` in `compat.rs` | Per handle: `pc`, `args`, `result`, `sharedFrontier` (compare_and_append), `cursor`, `midNext`, `pending` and `released` (bags, since `pending_batch` is a `Vec` that may hold a binding twice), `readUpper` (next()), `readOnly`, `asOf` (the `as_of` of the last `new()`), `hold` (the since its leased reader holds). Shared: the remap shard's `shardUpper`, `batches` and `since`, and the number of `restarts`. Actions: `NextUpdates`, `NextProgress`, `CallCompareAndAppend`, `ReadOnlyWait`, `Write`, `LeaveReadOnly`, `Restart`, `Open`, `WakeUp`, `NextSnapshot`, and the controller's `Compact` and `DropSource`. |
| `MCReclock` | — | Two handles as model values. |
| `MySqlEvents` | `handle_query_event`, `handle_rows_event` | Replication state: `errored` (errored_tables), `rewinds` (snapshot upper per table), `output` (what data_output was given), `pos` (binlog position), `halted`. Upstream state: `schema` (per-table upstream schema) and `binlog`. Actions: `HandleQueryEvent`, `HandleRowsEvent`, and `UpstreamAlter`/`UpstreamDrop`/`UpstreamQuery`/`UpstreamRows` for the MySQL server. |
| `MCMySqlEvents` | — | Tables and row values as model values. |
| `Balancer` | `BalancerService::serve`, `PgwireBalancer::handle_connection`, `run`, `stream`, `Resolver::resolve`, `HttpBalancer::handle_connection` | One connection. Configuration, chosen in `Init` as `serve` sets it up: `port` (the pgwire or the HTTP listener), `tls` (none without a certificate, Require with one) and `resolver` (Static, Frontegg). State: `enc` (plain or TLS), `phase`, `password` (what the resolver returned), `toClient` (every message written to the client, tagged with the stream it went on), `toEnvd` (the preamble `stream` wrote), `sent`. Actions: `HangUpOrCancel`, `SslRequest`, `GssEncRequest`, `Startup`, `Resolve`, `Connect`, `Relay`, `RelayEnds`, `HttpConnection`. |
| `FuncResolution` | `select_impl`, `find_match`, `PolymorphicSolution`, `coerce_args_to_types`, the `ParamList`/`ParamType`/`TypeCategory` helpers | Pure. Scalar types are names; an unknown literal is `"unknown"`. `select_impl(pls, types)` returns the result kind, the chosen implementation and the cast targets. A single `Resolve` step calls it on one call. `FunctionTypeResolution` is the reference: the rules quoted in `find_match`'s comments, over sets. |
| `MCFuncResolution` | the builtin catalogs | The overload sets of `+`, `-`, `*`, `/`, `%`, `round`, `lag`, `abs`, `ceil`, `trunc`, `log`, `power`, `mod`, `date_part`, `date_trunc`, `age`, `timezone`, `to_char`, `sum`, `floor`, `exp`, `ln`, `log10`, `sqrt`, `extract`, `avg`, the three `stddev` and the three `var` aggregates, copied entry for entry. |

How `ReducePlan` corresponds to the code:

- **`CreateFrom`** is one call of `ReducePlan::create_from` together with `KeyValPlan::new`. It takes its inputs from small sets. The `fused_unnest_list` flag goes through the filter of the `Arbitrary` impl (reduce.rs:211-219), which keeps it only for a single Basic aggregate; `create_inner`'s assertions (lines 729-735) give `Panicked`, which that filter never lets it reach:
  - aggregates;
  - group key;
  - permutation;
  - `monotonic`;
  - `expected_group_size`;
  - `fused_unnest_list`.

  The action performs the whole function:
  - it partitions the aggregates by reduction type in `BTreeMap` order;
  - it builds the per-type plans, including the `accumulable_index` split and the bucket ladder;
  - for more than one type, it builds the collation and encodes `aggregate_types` indexes as skips.
- **`AsMonotonic`** is `HierarchicalPlan::as_monotonic` / `CollationPlan::as_monotonic` on the planner's plan before it ships.
- **`Ship`** is `into_proto`. When `NewerPlanners` is TRUE, `Ship` may instead send the message of a newer planner. That message is the same plan with one `oneof` at any depth cleared, which is how prost decodes a variant it does not know.
- **`Decode`** is `from_proto`.

How `Reclock` corresponds to the code:

- **`NextUpdates` / `NextProgress`** are the two arms of the `next()` loop over the event stream built in `new()`:
  - the snapshot at `as_of`, followed by the listen;
  - one `Updates` and one `Progress` per persist batch.

  `next()` and `compare_and_append` take `&mut self`, so a handle never does both at once.
- **`CallCompareAndAppend`** is the reclock operator's call. The operator is not in this repository and is modelled from its contract:
  - it proposes one binding at the upper it last learned from `next()`;
  - it syncs through `next()` before proposing again.

  The read-only test at line 260 sends the call either into the wait loop or straight to the write.
- **`ReadOnlyWait`** is one turn of the loop at lines 266-307. A turn that finds neither exit condition changes nothing (stuttering).
- **`Write`** is lines 310-328:
  - persist's atomic compare-and-append;
  - the store of `new_upper` into the shared frontier.
- **`LeaveReadOnly`** is the watch channel going from read-only to read-write. That happens once, and never back.
- **`Restart`** drops a handle, as after a crash of the dataflow, and starts `PersistHandle::new` again at any `as_of` below the shard's upper (the assertion at compat.rs:162-166). The handle's state is reset and its reader's lease is gone. `new()` is then split at its awaits, so that the controller may act in between:
  - **`Open`** (lines 88-142) opens the leased reader, which holds the shard's since as it was at that moment (`LeasedHold`). An empty since suspends the handle; any other since goes to the as_of check.
  - **`WakeUp`** (lines 143-151) ends the five-hour sleep. `soft_panic_or_log` panics or logs, and new() continues into the as_of check.
  - **`AsOfCheck`** (lines 153-160) fails `new()` with "invalid as_of" when the since is beyond `as_of` (`SinceNotBeyond`, i.e. `PartialOrder::less_equal`), and otherwise returns the handle.
  - **`NextSnapshot`** (lines 175-197) is the first poll of the stream. It takes `Snapshot(as_of)`, which is `snapshot_and_fetch`: the bindings at or below `as_of`, advanced to `as_of` (`Forward`). It also starts the listen at the batch holding `as_of` (`ListenStart`, `ListenUpdates`). Both `expect` the since not to be beyond `as_of`; otherwise the handle is `panicked`.

  At most `MaxRestarts` restarts happen in a behaviour; `Init` is the first `new()` at `as_of` 0.
- **`Compact`** and **`DropSource`** are the storage controller. It advances the shard's since, but never past the upper or a since a reader holds. Once no reader holds the since, it may drop the source, which makes the since `Empty` (the empty antichain, modelled as `MaxTime + 1`, above every time). A listen downgrades its reader's hold to each progress it reports (`NextProgress`). Persist's holds, snapshot and listen are outside this repository and are modelled from their contracts.

How `MySqlEvents` corresponds to the code:

- Each binlog event is its own transaction, so the event's GTID is its position.
- **`HandleQueryEvent`** dispatches on the statement kind, as `handle_query_event` does:
  - `AlterTable` for ALTER/RENAME;
  - `DropTable`;
  - `TruncateTable`;
  - nothing for COMMIT and other statements.

  ALTER of a replicated table, and DROP, first connect to the upstream. With `TransientFailures` that call may fail, which ends the operator (`halted`).
- **`verify_schemas`** is `SchemaError`. It reads the upstream schema at the moment the event is handled.
- **`HandleRowsEvent`** is all of `handle_rows_event`:
  - skip errored and unknown tables;
  - visit rows until the iterator's first failure;
  - pack each row. A row logged under an incompatible schema becomes `ValueDecodeError`;
  - give each update at its GTID and buffer it negated when it is rewound;
  - flush the buffer at the minimum time.

How `Balancer` corresponds to the code:

- `serve` gives the pgwire server no TLS without a certificate and `TlsMode::Require` with one, so `Allow` never occurs. **`HttpConnection`** is the HTTP listener's whole handler: it drops the connection at once.
- Connections share only the immutable TLS configuration and resolver, so one connection is the whole state. The client and environmentd are the environment and may do anything the protocol allows.
- **`HangUpOrCancel`**, **`SslRequest`**, **`GssEncRequest`** and **`Startup`** are the arms of the startup loop in `handle_connection`. A failed TLS handshake closes the connection.
- **`Startup`** runs `run`'s three checks (`StartupRejection`: protocol version, `user` parameter, `ensure_tls_compatibility`). The static resolver goes straight to `Connect`. The Frontegg resolver first writes `AuthenticationCleartextPassword`.
- **`Resolve`** is the rest of the Frontegg resolver. A missing `Password` message, a rejected token and a failed DNS lookup all become `INVALID_PASSWORD`.
- **`Connect`** is `stream` up to its preamble. **`Relay`** and **`RelayEnds`** are `copy_bidirectional` and `run`'s handling of its result.
- `ensure_tls_compatibility` is outside this tree. It is modelled from its contract: with TLS required, an unencrypted connection is refused.

How `FuncResolution` corresponds to the code:

- `select_impl` keeps the implementations whose `ParamList` `matches_argtypes` (4.a), then calls `find_match`.
- `find_match` is a chain of operators, one per step:
  - the exact-match shortcut;
  - `Candidate` for the counts;
  - `RetainMost` for 4.c, 4.c.i and 4.d;
  - `UnknownArgLoop` for the loop over positions, including its `break`;
  - `CommonTyped` for 4.f.

  Each `maybe_get_last_candidate!` is a `CASE` arm, in the code's order.
- `PolymorphicSolution` covers `AnyElement` and `RangeAny` (class Any) and `AnyCompatible` (BestCommonAny). `CoerceArgsToTypes` gives each argument's target or the first error.
- Three functions are outside this tree and are modelled from PostgreSQL's definitions: implicit casts (`typeconv::can_cast`), `near_match` (unsigned to signed) and `guess_best_common_type` (`select_common_type`).

## Runs

- **`reduce_semantics`** (`MCReducePlan.cfg`) checks `TypeOK` and `ImplementsReduceSemantics`.
  - `ImplementsReduceSemantics` is the refinement. The mapping reads each compiled plan the way the renderer does:
    - accumulable, hierarchical and basic plans produce their aggregates in the order of their lists;
    - a collation interleaves its sublists following `aggregate_types`, which is decoded back from skips;
    - each aggregate reads value column `index_inp`, resolved through `kv.val_plan` to the expression it computes.
  - The mapping must equal the abstract `Compile`'s intended output. Every later step (monotonic upgrades, shipping, decoding) must leave it unchanged.
  - The run catches three kinds of error:
    - a wrong skip encoding;
    - a sublist out of order;
    - a misassigned `index_inp`.
  - It also catches an upgrade that changes results.
- **`reduce_plan_decode`** (`MCReducePlanProto.cfg`) checks `DecodedPlanFaithful`.
  - A message from a planner of the same version decodes to exactly the planner's current plan, including after the monotonic upgrade.
  - A message from a newer planner is refused with an error, never decoded into a different plan.

- **`mfp_extract`** (`MCMfpExtract.cfg`) covers every MFP over a reduction of arity ≤ 3, with up to 2 mapped expressions, 2 predicates (temporal or not) and 3 projected columns, and every key arity. Both the fast and the general path are exercised, including temporal predicates on columns outside the projection. It checks two properties:
  - **`ExtractPreservesMeaning`**: the fused part followed by the remainder has the same conditions and output terms as the original MFP.
  - **`FusedIsSafe`**: the fused part has no temporal predicate, only input columns, the key as its prefix, and width `output_arity` ≤ the reduction arity; the remainder reads exactly `output_arity` columns.
- **`reclock_handles`** (`MCReclock.cfg`, two handles, times up to 4, two restarts, the controller compacting and dropping the source; 1,098,644 states in about 3.5 minutes) checks four properties:
  - **`NextReleasesShardPrefix`**: `next()` returns each binding of the shard below the frontier it returns exactly once, whichever handle wrote them, advanced to the handle's `as_of`. The released bindings are counted as a bag. It holds across a restart at any `as_of`. Two mutants show what it catches. A `new()` that chained the listen without the snapshot would lose the bindings below `as_of`. A listen that also yielded the updates at `as_of` would release the binding written at `as_of` twice, once from the snapshot and once from the listen; a set of released bindings would not show that.
  - **`NoSnapshotPanic`**: the `expect`s of the snapshot and the listen never fire. `new()` checks the since when it opens the shard, but the stream reads the snapshot only at the first `next()`, after the controller may have compacted. A reader whose since the controller does not wait for (the `SinceHandle` the comment at lines 116-121 rules out) panics here. When both handles have restarted, the controller may drop the source under them: a handle that then opens the shard sleeps and fails the as_of check, and never builds a stream over the dropped shard. An element-wise since check, which the empty antichain passes vacuously, would hand out such a handle and panic at its first `next()`.
  - **`NoWriteWhileReadOnly`**: an action property. No batch is appended by a handle in read-only mode.
  - **`ReadOnlyWaitReturns`**: a read-only wait returns once another writer has moved the upper past the expected one, unless the handle is dropped first.

  Fairness is weak fairness of `ReadOnlyWait` and `Write` per handle:
  - the loop polls every second (`timeout(1s)`);
  - persist answers every write.

  Leaving read-only mode and the caller's calls are not fair: a replica may stay read-only forever. Restarts, the steps of `new()` and the controller's steps are not assumed fair either; no property needs them.
- **`reclock_shared_frontier`** (`MCReclockFrontier.cfg`) is a violation run of `SharedFrontierDurable`, which says the shared write frontier never exceeds the shard's upper. See Findings.

- **`mysql_events`** (`MCMySqlEvents.cfg`) uses two replicated tables, one other table, up to 3 binlog events of one row change, a snapshot upper of 3 and transient failures. It checks two properties:
  - **`NoRowsAfterError`**: no row of a table is given at a GTID after the table's definite error.
  - **`RewindsCancelSnapshotOverlap`**: for a table with a rewind request, the updates given at the minimum time cancel exactly the replicated updates at GTIDs below the snapshot upper.

  Three events are enough for the hazards:
  - an error followed by a row;
  - DDL that runs upstream before the handler verifies;
  - rows on both sides of the snapshot upper.

  Four events take about four minutes.
- **`mysql_duplicate_error`** (`MCMySqlDupError.cfg`) is a violation run of `AtMostOneErrorPerTable`. See Findings.
- **`mysql_rows_lost`** (`MCMySqlRowsLost.cfg`) is a violation run of `RowsEventComplete`. See Findings.

- **`balancer_connection`** (`MCBalancer.cfg`) covers both listeners, both TLS configurations of `serve` and both resolvers, and every client sequence of up to 4 startup messages. It checks two properties:
  - **`NoCleartextPasswordWithoutTls`**: with TLS required, `AuthenticationCleartextPassword` is only written over TLS, and a password only reaches environmentd over a TLS connection.
  - **`RelayOnlyAuthenticated`**: behind Frontegg, every relayed session began with the client's password, which was asked for before any byte was relayed. Behind the static resolver, no password is sent.

  Four messages allow SslRequest, then GssEncRequest, then Startup, then the password. A relayed session is one chunk. Deadlock checking is off because a closed connection ends.
- **`balancer_relay_error`** (`MCBalancerRelayError.cfg`) is a violation run of `NoBalancerMessageAfterRelay`. See Findings.
- **`func_resolution`** (`MCFuncResolution.cfg`) covers every call of the thirty-two overload sets with 1–3 arguments. Each argument is one of the types they name or an unknown literal, which gives 197,569 calls. It checks two properties:
  - **`CoercedArgsFitImpl`**: the chosen implementation's arguments are implicitly castable to their targets, and polymorphic parameters agree.
  - **`SumOfUnknownIsAmbiguous`**: `sum` of an unknown literal is ambiguous. The catalog keeps `sum(interval)` for exactly this (func.rs:3144-3146): without it, 4.d and 4.e would pick `sum(float8)`.
- **`func_resolution_unknowns`** (`MCFuncResolutionRules.cfg`) is a violation run of `FollowsRules`: `select_impl` picks exactly the implementation that the rules quoted in `find_match`'s comments (the reference `FunctionTypeResolution`) single out, for calls with unknown literals. With all types known, the reference repeats `find_match`'s own steps, so the agreement is only informative where 4.e and 4.f apply. See Findings.

  With the `break` fixed so that 4.f still sees every known argument, `FollowsRules` holds on all 197,569 calls of one to three arguments. The divergence has that one cause.

Bounds for the reduce planner:

- Up to 3 aggregates over 4 functions, one of each reduction type plus a second accumulable. This gives one-, two- and three-type collations, and both the simple and the distinct accumulable halves.
- 2 expressions, so that distinct duplicates and reordering are visible.
- 0–1 key column and one non-trivial input permutation.
- A group size hint of 1 and one near `U64Max`, which exercise the shortest and the longest bucket ladders.

Widths:

- `u64` is scaled to 2^24−1. Only the ladder length depends on it.
- `usize` arithmetic in `convert_indexes_to_skips` is taken modulo 2^16, so an underflow wraps as in a release build.

`reduce_plan_decode` uses smaller dimensions because it enumerates every newer-version message of every plan.

Fairness for the planner runs: none is assumed. The planner is a function call. The properties are safety properties and a refinement of a specification without liveness.

## Findings

- `compat.rs:324`: after `Err(UpperMismatch)` the handle still stores `new_upper` into `shared_write_frontier`. The field is documented to report the handle's write frontier. TLC's shortest trace:
  1. both handles sync to upper 1;
  2. h1 writes `[1,2)`;
  3. h2's `compare_and_append([1,3))` is rejected;
  4. h2 reports 3 while the shard's upper is 2.

  Whether a consumer of the shared frontier relies on it being durable is outside this repository.

- `events.rs:79` and `events.rs:159`: ALTER/RENAME and TRUNCATE error a table without checking `errored_tables`. Two incompatible `ALTER TABLE t1` give `t1` two definite errors. DROP TABLE explicitly avoids this (lines 123 and 131).
- `events.rs:244`: `while let Some(Ok(..))` stops at the first row the binlog iterator fails to decode. The remaining rows of the event are silently dropped, and the handler returns `Ok(())`.

- `lib.rs:279`: the comment in `stream` says bytes are shuffled blindly until closed. But when `copy_bidirectional` fails after relaying has begun, `run` writes its own fatal `ErrorResponse` into the session. It uses SQLSTATE `INVALID_PASSWORD`, possibly in the middle of a message from environmentd.
- `func.rs:1208`: in step 4.e, a category conflict at an unknown argument `break`s out of the loop over positions. The comment says this only moves on to 4.f, but 4.f's known-type bookkeeping for later positions is skipped with it. Examples:
  - `'1 day' + interval '1 hour'` fails as not unique. `interval '1 hour' + '1 day'` resolves to interval + interval.
  - `'10' - 1::int8` fails, between `int8 - int8` and `jsonb - int8`.

The passing runs hold, and the mutants in `PROJECT.json` show that each property fails when the corresponding code is broken in a plausible way.

## Not modelled (yet)

- MFP optimisation (`optimize`), an equivalence-preserving rewrite.
- `ReducePlan::keys`: pure layout, delegated to `mz_expr`.
- Function resolution with container and record types, and the catalogs beyond the thirty-two overload sets used as inputs.
- The `Operation` closures of the catalogs, which build expressions.
- The JoinSet loop of `BalancerService::serve`, which reports a serving task that exited. The tasks are `mz_ore::server::serve`, outside this tree.

## Plan

In order of importance:

1. **Reduce planner.** Done: refinement of the plan against its meaning and version skew in decoding. The `fused_unnest_list` assertions of `create_inner` are modelled, but their only caller in this tree, a proptest strategy, filters the flag to exactly what they assert, so no property is stated about them.
2. **Remap shard handle (`compat.rs`).** Done: the reader against the shard, read-only writes, liveness of the wait, the shared frontier (finding), and restarts through `new()` at any `as_of`. Also: the since check, the empty-since path and the lazy snapshot of `new()` against the controller's compaction.
3. **MySQL event handlers (`events.rs`).** Done: errors and rewinds, plus two findings.
4. **Pgwire balancer (`lib.rs`).** Done: the startup loop, TLS enforcement, both resolvers and the relay, plus one finding.
5. **Function resolution (`func.rs`).** Done: the narrowing steps, the polymorphic solution and coercion, checked against the rules. One finding. Left: list, array, map and record parameters.
6. `extract_mfp_after` in the reduce planner. Done.

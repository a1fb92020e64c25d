------------------------------ MODULE Reclock ------------------------------
(***************************************************************************)
(* The remap shard handle of storage/src/source/reclock/compat.rs.         *)
(*                                                                         *)
(* Several PersistHandles (one per replica running the source) share one  *)
(* remap shard.  Each handle reads the shard through the event stream     *)
(* built in PersistHandle::new (snapshot at as_of, then listen) and        *)
(* batches it in next(); each writes new bindings with compare_and_append, *)
(* which waits while the replica is in read-only mode.  The shard is      *)
(* persist: an upper that only advances and a sequence of batches, with   *)
(* compare-and-append as its one atomic write.  Times are naturals; an    *)
(* antichain of a totally ordered time is its single element.             *)
(*                                                                         *)
(* The caller of the handle (the reclock operator) is not in this          *)
(* repository: it is modelled from its contract as CallCompareAndAppend,   *)
(* which proposes one binding at the upper it last learned from next().   *)
(*                                                                         *)
(* A replica may restart its source dataflow at any point: the handle and  *)
(* its caller are dropped and PersistHandle::new builds a fresh one at an  *)
(* as_of the controller picks, reading the shard's snapshot at as_of and  *)
(* then listening from there.                                              *)
(*                                                                         *)
(* The controller compacts the shard: its since advances, but never past  *)
(* the since a live handle's leased reader holds, and becomes the empty   *)
(* antichain once the source is dropped and no reader holds it.  new()    *)
(* checks the since against as_of when it opens the shard; the stream it  *)
(* builds reads the snapshot only when next() first polls it.  Persist's  *)
(* holds and compaction are outside this repository and are modelled     *)
(* from their contracts.                                                  *)
(***************************************************************************)
EXTENDS Naturals, Sequences, FiniteSetsExt, Bags

CONSTANTS
    Handles,    \* the PersistHandles sharing the remap shard
    MaxTime,    \* bound on the into-time a caller may propose as new_upper
    MaxRestarts \* bound on the restarts of handles in one behaviour

ASSUME MaxTime \in Nat /\ MaxTime >= 2

VARIABLES
    shardUpper,     \* the remap shard's upper
    batches,        \* the shard's batches, in append order
    readOnly,       \* read_only_rx: whether each handle is in read-only mode
    pc,             \* where each handle is in compare_and_append
    args,           \* the arguments of the compare_and_append in progress
    result,         \* the last value compare_and_append returned
    sharedFrontier, \* shared_write_frontier of each handle
    cursor,         \* batches of the shard each handle's event stream consumed
    midNext,        \* the handle's next() consumed Updates and awaits Progress
    pending,        \* pending_batch, a bag: the Vec may hold a binding twice
    released,       \* the bag of bindings next() returned so far
    readUpper,      \* the frontier the last next() returned
    asOf,           \* the as_of the handle was created at
    restarts,       \* restarts so far
    since,          \* the remap shard's since
    hold            \* the since each handle's leased reader holds

vars == <<shardUpper, batches, readOnly, pc, args, result, sharedFrontier,
          cursor, midNext, pending, released, readUpper, asOf, restarts,
          since, hold>>

\* A binding of the remap collection: the into-time it is written at and the
\* handle that minted it (standing for its FromTime).
Binding == [ts : 0..MaxTime, by : Handles \cup {"initial"}]

\* The shard as created: the initial binding at the minimum time.
InitialBatch == [lower |-> 0, upper |-> 1, writer |-> "initial",
                 updates |-> {[ts |-> 0, by |-> "initial"]}]

\* Persist's compare_and_append: the batch is appended, and the upper moved,
\* only if the shard's upper is the expected one.  The Err(invalid_use)
\* panic (compat.rs:327) needs bounds the caller never passes.
PersistCompareAndAppend(h, a) ==
    IF shardUpper = a.upper
    THEN /\ batches' = Append(batches, [lower |-> a.upper, upper |-> a.new_upper,
                                         writer |-> h, updates |-> a.updates])
         /\ shardUpper' = a.new_upper
         /\ result' = [result EXCEPT ![h] = "Ok"]
    ELSE /\ result' = [result EXCEPT ![h] = "UpperMismatch"]
         /\ UNCHANGED <<batches, shardUpper>>

\* The drain_filter_swapping of next(): the pending bindings released at a
\* Progress(new_upper) are those not beyond new_upper, each as often as it
\* was pushed.
NextBatch_beyond(p, new_upper) ==
    [b \in {c \in BagToSet(p) : new_upper <= c.ts} |-> p[b]]
NextBatch(p, new_upper) ==
    [b \in {c \in BagToSet(p) : ~(new_upper <= c.ts)} |-> p[b]]

\* Every binding the shard holds.
ShardBindings == UNION {batches[i].updates : i \in DOMAIN batches}

\* A binding as a reader at as_of sees it: times not beyond as_of are
\* advanced to as_of.
Forward(b, as_of) == IF b.ts < as_of THEN [b EXCEPT !.ts = as_of] ELSE b

\* Variant whose stream is the listen alone, without the snapshot.
Snapshot_omitted(as_of) == {}

\* The stream new() builds (compat.rs:175-197): snapshot_and_fetch(as_of)
\* yields every binding at a time not beyond as_of, advanced to as_of, as
\* one Updates event; listen(as_of) then goes on from the batch holding
\* as_of and yields only updates beyond it.
Snapshot(as_of) == {Forward(b, as_of) : b \in {c \in ShardBindings : c.ts <= as_of}}
ListenStart(as_of) ==
    CHOOSE i \in DOMAIN batches : batches[i].lower <= as_of /\ as_of < batches[i].upper
\* Variant whose listen also yields the updates at as_of.
ListenUpdates_from_as_of(h, i) == {b \in batches[i].updates : asOf[h] <= b.ts}
ListenUpdates(h, i) == {b \in batches[i].updates : asOf[h] < b.ts}

\* The empty antichain, above every time: the since of a dropped shard, and
\* the hold of a reader that holds nothing back.
Empty == MaxTime + 1

\* The leased reader opened at compat.rs:101-111 holds the shard's since
\* as it was when it opened; read_handle.since() (line 122) returns it.
\* Variant with a reader whose since the controller does not wait for, as
\* with the SinceHandle the comment at lines 116-121 rules out.
LeasedHold_unregistered(s) == Empty
LeasedHold(s) == s

-----------------------------------------------------------------------------
(* PersistHandle::new at as_of = minimum: the snapshot, the initial        *)
(* binding, is consumed before anything else.  shared_write_frontier is    *)
(* created by the caller at minimum.                                       *)
Init ==
    /\ shardUpper = 1
    /\ batches = <<InitialBatch>>
    /\ asOf = [h \in Handles |-> 0]
    /\ restarts = 0
    /\ since = 0
    /\ hold = [h \in Handles |-> 0]
    /\ readOnly \in [Handles -> BOOLEAN]
    /\ pc = [h \in Handles |-> "idle"]
    /\ args = [h \in Handles |-> [upper |-> 0, new_upper |-> 0, updates |-> {}]]
    /\ result = [h \in Handles |-> "none"]
    /\ sharedFrontier = [h \in Handles |-> 0]
    /\ cursor = [h \in Handles |-> 0]
    /\ midNext = [h \in Handles |-> FALSE]
    /\ pending = [h \in Handles |-> SetToBag(InitialBatch.updates)]
    /\ released = [h \in Handles |-> EmptyBag]
    /\ readUpper = [h \in Handles |-> 0]

(* next(), ListenEvent::Updates: every update the listen yields for the    *)
(* next batch is pushed onto pending_batch and the loop awaits the next    *)
(* event.                                                                  *)
NextUpdates(h) ==
    /\ pc[h] = "idle"
    /\ ~midNext[h]
    /\ cursor[h] < Len(batches)
    /\ pending' = [pending EXCEPT ![h] = @ (+) SetToBag(ListenUpdates(h, cursor[h] + 1))]
    /\ midNext' = [midNext EXCEPT ![h] = TRUE]
    /\ UNCHANGED <<shardUpper, batches, readOnly, pc, args, result,
                   sharedFrontier, cursor, released, readUpper, asOf, restarts,
                   since, hold>>

(* next(), ListenEvent::Progress(new_upper): the pending bindings not      *)
(* beyond new_upper are drained and returned with new_upper.  Persist's   *)
(* listen downgrades its reader's since to the progress it reported.      *)
NextProgress(h) ==
    /\ midNext[h]
    /\ LET new_upper == batches[cursor[h] + 1].upper
           batch     == NextBatch(pending[h], new_upper)
       IN /\ pending' = [pending EXCEPT ![h] = @ (-) batch]
          /\ released' = [released EXCEPT ![h] = @ (+) batch]
          /\ readUpper' = [readUpper EXCEPT ![h] = new_upper]
          /\ hold' = [hold EXCEPT ![h] = new_upper]
    /\ cursor' = [cursor EXCEPT ![h] = @ + 1]
    /\ midNext' = [midNext EXCEPT ![h] = FALSE]
    /\ UNCHANGED <<shardUpper, batches, readOnly, pc, args, result,
                   sharedFrontier, asOf, restarts, since>>

(* The reclock operator calls compare_and_append with the upper it learned *)
(* from next() and a binding at that time.  Before it mints its first     *)
(* binding, and after every return, it syncs through next() past the     *)
(* upper it tried to write at (to new_upper after Ok).  The read-only     *)
(* check at the top of compare_and_append (compat.rs:260) decides where   *)
(* the call goes.                                                         *)
CallerSynced(h) ==
    /\ readUpper[h] > args[h].upper
    /\ result[h] = "Ok" => readUpper[h] >= args[h].new_upper
CallCompareAndAppend_skip_read_only(h, a) ==
    pc' = [pc EXCEPT ![h] = "append"]
CallCompareAndAppend_enter(h, a) ==
    pc' = [pc EXCEPT ![h] = IF readOnly[h] THEN "read_only_wait" ELSE "append"]
CallCompareAndAppend(h) ==
    /\ pc[h] = "idle"
    /\ ~midNext[h]
    /\ CallerSynced(h)
    /\ \E new_upper \in readUpper[h] + 1 .. MaxTime :
         LET a == [upper |-> readUpper[h], new_upper |-> new_upper,
                   updates |-> {[ts |-> readUpper[h], by |-> h]}]
         IN /\ args' = [args EXCEPT ![h] = a]
            /\ CallCompareAndAppend_enter(h, a)
    /\ UNCHANGED <<shardUpper, batches, readOnly, result, sharedFrontier,
                   cursor, midNext, pending, released, readUpper, asOf, restarts,
                   since, hold>>

(* One turn of the read-only loop (compat.rs:266-307): after the timeout  *)
(* or a change of read_only_rx, a handle out of read-only mode goes on to *)
(* write; otherwise it fetches the recent upper and aborts with           *)
(* UpperMismatch if someone else advanced it past the expected upper.  A *)
(* turn that finds neither changes nothing and is a stuttering step.      *)
ReadOnlyAbort_new_upper(h) == args[h].new_upper < shardUpper
ReadOnlyAbort(h) == args[h].upper < shardUpper
ReadOnlyWait(h) ==
    /\ pc[h] = "read_only_wait"
    /\ \/ /\ ~readOnly[h]
          /\ pc' = [pc EXCEPT ![h] = "append"]
          /\ UNCHANGED result
       \/ /\ readOnly[h]
          /\ ReadOnlyAbort(h)
          /\ pc' = [pc EXCEPT ![h] = "idle"]
          /\ result' = [result EXCEPT ![h] = "UpperMismatch"]
    /\ UNCHANGED <<shardUpper, batches, readOnly, args, sharedFrontier,
                   cursor, midNext, pending, released, readUpper, asOf, restarts,
                   since, hold>>

(* compat.rs:310-328: the write itself.  Whatever persist answers, the     *)
(* handle records new_upper as its shared write frontier and returns.     *)
Write(h) ==
    /\ pc[h] = "append"
    /\ PersistCompareAndAppend(h, args[h])
    /\ sharedFrontier' = [sharedFrontier EXCEPT ![h] = args[h].new_upper]
    /\ pc' = [pc EXCEPT ![h] = "idle"]
    /\ UNCHANGED <<readOnly, args, cursor, midNext, pending, released, readUpper, asOf, restarts,
                   since, hold>>

(* The watch channel read_only_rx: a replica leaves read-only mode once.  *)
LeaveReadOnly(h) ==
    /\ readOnly[h]
    /\ readOnly' = [readOnly EXCEPT ![h] = FALSE]
    /\ UNCHANGED <<shardUpper, batches, pc, args, result, sharedFrontier,
                   cursor, midNext, pending, released, readUpper, asOf, restarts,
                   since, hold>>

(* The replica restarts the source: the handle, its pending batch and its  *)
(* caller's state are gone, its reader's lease with them, and             *)
(* PersistHandle::new begins at an as_of the controller picked, below the *)
(* upper (compat.rs:162-166); the since may have moved past it since.  A  *)
(* compare_and_append cut off before persist answered has not happened.   *)
Restart(h) ==
    /\ restarts < MaxRestarts
    /\ \E as_of \in 0..(shardUpper - 1) : asOf' = [asOf EXCEPT ![h] = as_of]
    /\ pc' = [pc EXCEPT ![h] = "opening"]
    /\ hold' = [hold EXCEPT ![h] = Empty]
    /\ pending' = [pending EXCEPT ![h] = EmptyBag]
    /\ cursor' = [cursor EXCEPT ![h] = 0]
    /\ args' = [args EXCEPT ![h] = [upper |-> 0, new_upper |-> 0, updates |-> {}]]
    /\ result' = [result EXCEPT ![h] = "none"]
    /\ sharedFrontier' = [sharedFrontier EXCEPT ![h] = 0]
    /\ midNext' = [midNext EXCEPT ![h] = FALSE]
    /\ released' = [released EXCEPT ![h] = EmptyBag]
    /\ readUpper' = [readUpper EXCEPT ![h] = 0]
    /\ restarts' = restarts + 1
    /\ UNCHANGED <<shardUpper, batches, readOnly, since>>

\* PartialOrder::less_equal(since, as_of) (compat.rs:153): no time is beyond
\* the empty antichain.  Variant comparing the since's elements one by one,
\* which the empty antichain passes vacuously.
SinceNotBeyond_elementwise(s, t) == s = Empty \/ s <= t
SinceNotBeyond(s, t) == s <= t

(* The as_of check of new() (compat.rs:153-160): a since beyond as_of     *)
(* fails new() with "invalid as_of"; otherwise new() returns the handle,  *)
(* its stream not yet polled, and its reader holds the since.             *)
AsOfCheck(h) ==
    IF SinceNotBeyond(since, asOf[h])
    THEN /\ pc' = [pc EXCEPT ![h] = "new"]
         /\ hold' = [hold EXCEPT ![h] = LeasedHold(since)]
    ELSE /\ pc' = [pc EXCEPT ![h] = "failed"]
         /\ UNCHANGED hold

(* new() opens the leased reader and reads its since (compat.rs:101-127); *)
(* an empty since suspends the handle (lines 128-142), any other goes on  *)
(* to the as_of check.                                                     *)
Open(h) ==
    /\ pc[h] = "opening"
    /\ IF since = Empty
       THEN /\ pc' = [pc EXCEPT ![h] = "suspended"]
            /\ UNCHANGED hold
       ELSE AsOfCheck(h)
    /\ UNCHANGED <<shardUpper, batches, readOnly, args, result, sharedFrontier,
                   cursor, midNext, pending, released, readUpper, asOf, restarts, since>>

(* The five-hour sleep ends (compat.rs:144-151): soft_panic_or_log panics  *)
(* or logs, and new() continues into the as_of check.                     *)
WakeUp(h) ==
    /\ pc[h] = "suspended"
    /\ AsOfCheck(h)
    /\ UNCHANGED <<shardUpper, batches, readOnly, args, result, sharedFrontier,
                   cursor, midNext, pending, released, readUpper, asOf, restarts, since>>

(* The first poll of the stream (compat.rs:175-192) takes the snapshot at  *)
(* as_of and starts the listen; both `expect` the since not to be beyond   *)
(* as_of, and panic otherwise.                                             *)
NextSnapshot(h) ==
    /\ pc[h] = "new"
    /\ IF since <= asOf[h]
       THEN /\ pending' = [pending EXCEPT ![h] = SetToBag(Snapshot(asOf[h]))]
            /\ cursor' = [cursor EXCEPT ![h] = ListenStart(asOf[h]) - 1]
            /\ pc' = [pc EXCEPT ![h] = "idle"]
       ELSE /\ pc' = [pc EXCEPT ![h] = "panicked"]
            /\ UNCHANGED <<pending, cursor>>
    /\ UNCHANGED <<shardUpper, batches, readOnly, args, result, sharedFrontier,
                   midNext, released, readUpper, asOf, restarts, since, hold>>

(* The controller compacts the remap shard: the since advances, never past *)
(* the shard's upper or a since a reader holds.                            *)
Compact ==
    /\ since # Empty
    /\ \E s \in (since + 1)..Min({hold[h] : h \in Handles} \cup {shardUpper}) :
         since' = s
    /\ UNCHANGED <<shardUpper, batches, readOnly, pc, args, result, sharedFrontier,
                   cursor, midNext, pending, released, readUpper, asOf, restarts, hold>>

(* The source is dropped: with no reader left holding it, the shard's      *)
(* since becomes the empty antichain.                                      *)
DropSource ==
    /\ since # Empty
    /\ \A h \in Handles : hold[h] = Empty
    /\ since' = Empty
    /\ UNCHANGED <<shardUpper, batches, readOnly, pc, args, result, sharedFrontier,
                   cursor, midNext, pending, released, readUpper, asOf, restarts, hold>>

Next ==
    \/ \E h \in Handles :
          \/ NextUpdates(h)
          \/ NextProgress(h)
          \/ CallCompareAndAppend(h)
          \/ ReadOnlyWait(h)
          \/ Write(h)
          \/ LeaveReadOnly(h)
          \/ Restart(h)
          \/ Open(h)
          \/ WakeUp(h)
          \/ NextSnapshot(h)
    \/ Compact
    \/ DropSource

\* The read-only loop polls every second and persist answers every write,
\* so a handle that can take either step keeps taking it.
Fairness == \A h \in Handles : WF_vars(ReadOnlyWait(h)) /\ WF_vars(Write(h))

Spec == Init /\ [][Next]_vars /\ Fairness

-----------------------------------------------------------------------------
TypeOK ==
    /\ shardUpper \in 1..MaxTime
    /\ batches \in Seq([lower : 0..MaxTime, upper : 1..MaxTime,
                        writer : Handles \cup {"initial"}, updates : SUBSET Binding])
    /\ readOnly \in [Handles -> BOOLEAN]
    /\ pc \in [Handles -> {"idle", "read_only_wait", "append", "opening", "suspended",
                           "failed", "new", "panicked"}]
    /\ result \in [Handles -> {"none", "Ok", "UpperMismatch"}]
    /\ sharedFrontier \in [Handles -> 0..MaxTime]
    /\ cursor \in [Handles -> 0..Len(batches)]
    /\ midNext \in [Handles -> BOOLEAN]
    /\ \A h \in Handles :
         /\ IsABag(pending[h]) /\ BagToSet(pending[h]) \subseteq Binding
         /\ IsABag(released[h]) /\ BagToSet(released[h]) \subseteq Binding
    /\ readUpper \in [Handles -> 0..MaxTime]
    /\ asOf \in [Handles -> 0..MaxTime]
    /\ restarts \in 0..MaxRestarts
    /\ since \in 0..Empty
    /\ hold \in [Handles -> 0..Empty]

\* What next() hands the reclock operator is exactly the shard's content
\* below the frontier it returns, whatever other handles wrote meanwhile:
\* each binding is released exactly once, none is lost or released early,
\* and the frontier is one the shard has reached (compat.rs:224-244 against
\* the snapshot and the listen stream).
NextReleasesShardPrefix ==
    \A h \in Handles :
        /\ readUpper[h] <= shardUpper
        /\ released[h] =
             SetToBag({Forward(b, asOf[h]) : b \in {c \in ShardBindings : c.ts < readUpper[h]}})

\* The stream new() returns reads its snapshot and starts its listen only
\* when next() first polls it, after new() checked since <= as_of
\* (compat.rs:153) and while the controller keeps compacting the shard and
\* may drop the source; the `expect`s at lines 180 and 188 never panic.
\* The leased reader's hold (lines 116-122) is what keeps the since from
\* passing as_of in between, and the empty-since path (lines 128-151) must
\* end in the failed check rather than in a handle.
NoSnapshotPanic == \A h \in Handles : pc[h] # "panicked"

\* A handle in read-only mode never appends to the remap shard: the only
\* batches it adds are written after read_only_rx said it may write
\* (compat.rs:260-308).
NoWriteWhileReadOnly ==
    [][\A h \in Handles :
         (Len(batches') > Len(batches) /\ batches'[Len(batches')].writer = h)
            => ~readOnly[h]]_vars

\* A compare_and_append waiting in read-only mode returns once another
\* writer has moved the shard's upper past the upper it expected, even if
\* the replica stays read-only (compat.rs:292-306), unless the replica
\* drops the handle first.
ReadOnlyWaitReturns ==
    \A h \in Handles :
        (pc[h] = "read_only_wait" /\ args[h].upper < shardUpper)
            ~> pc[h] \in {"idle", "opening"}

\* shared_write_frontier "reports self's write frontier" (compat.rs:59): it
\* never claims a frontier the remap shard has not reached.
SharedFrontierDurable ==
    \A h \in Handles : sharedFrontier[h] <= shardUpper
=============================================================================

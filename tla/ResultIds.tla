------------------------------ MODULE ResultIds ------------------------------
(***************************************************************************)
(* NewID (internal/model/uuid.go): the UUIDv7s whose order the probe's Ack *)
(* relies on.  An id is its millisecond and its counter; the random bytes  *)
(* behind them only break ties, either way.  The clock is read before the  *)
(* lock is taken, so a caller may reach the counter with an old reading,   *)
(* and it is the wall clock, which may be set back.                        *)
(***************************************************************************)
EXTENDS Integers, Sequences

CONSTANTS
    Callers,      \* goroutines that call NewID
    CounterSize,  \* values the counter has in an id: 0x1000.  It wraps at
                  \* 2^16, a multiple, which an id cannot tell
    SeedSize,     \* values randomCounter returns: 0x400
    MaxIds,       \* bound: ids generated
    MaxMillis     \* bound: the last millisecond the clock shows

ASSUME ResultIdsAssumption ==
    /\ CounterSize \in Nat \ {0} /\ SeedSize \in 1 .. CounterSize
    /\ MaxIds \in Nat /\ MaxMillis \in Nat

VARIABLES
    clock,       \* time.Now().UnixMilli()
    stamp,       \* stamp[p]: the reading p carries to the lock, 0 when none
    lastMillis,  \* uuidState.lastMillis
    counter,     \* uuidState.counter, in the bits it has in an id
    ids          \* the ids, in the order their counters were taken

vars == <<clock, stamp, lastMillis, counter, ids>>

Id == [millis : Nat, counter : 0 .. CounterSize - 1]

\* The variables have their types, and the counter of an id fits its 12 bits.
TypeOK ==
    /\ clock \in Nat \ {0}
    /\ stamp \in [Callers -> Nat]
    /\ lastMillis \in Nat /\ counter \in 0 .. CounterSize - 1
    /\ ids \in Seq(Id)

Init ==
    /\ clock = 1
    /\ stamp = [p \in Callers |-> 0]
    /\ lastMillis = 0 /\ counter = 0
    /\ ids = <<>>

\* Time passes, or the wall clock is set.
Tick ==
    /\ clock' \in 1 .. MaxMillis
    /\ UNCHANGED <<stamp, lastMillis, counter, ids>>

ReadClock(p) ==
    /\ stamp[p] = 0 /\ Len(ids) < MaxIds
    /\ stamp' = [stamp EXCEPT ![p] = clock]
    /\ UNCHANGED <<clock, lastMillis, counter, ids>>

MutCounters(now) == 0 .. SeedSize - 1

\* The values the counter may take for a reading: the next one within a
\* millisecond, a random low one in another.
Counters(now) ==
    IF now = lastMillis THEN {(counter + 1) % CounterSize} ELSE 0 .. SeedSize - 1

\* The critical section, and the id built from what it leaves.
TakeCounter(p) ==
    /\ stamp[p] # 0 /\ Len(ids) < MaxIds
    /\ \E c \in Counters(stamp[p]) :
          /\ counter' = c
          /\ ids' = Append(ids, [millis |-> stamp[p], counter |-> c])
    /\ lastMillis' = stamp[p]
    /\ stamp' = [stamp EXCEPT ![p] = 0]
    /\ UNCHANGED clock

Next == Tick \/ \E p \in Callers : ReadClock(p) \/ TakeCounter(p)

Spec == Init /\ [][Next]_vars

-----------------------------------------------------------------------------
Before(a, b) ==
    \/ a.millis < b.millis
    \/ a.millis = b.millis /\ a.counter < b.counter

\* The id after the i-th was made with an older reading of the clock: its
\* caller was overtaken between the clock and the lock, or the clock was set
\* back.
StepsBack(i) == ids[i + 1].millis < ids[i].millis

\* The counter came round within a millisecond after the i-th id.
ComesRound(i) ==
    ids[i + 1].millis = ids[i].millis /\ ids[i].counter = CounterSize - 1

\* However many goroutines call NewID, two ids are in the order in which their
\* counters were taken unless, between the two, a reading of the clock went
\* back or the counter came round: the lock makes one order of the ids of a
\* millisecond, which is what lets an acknowledgement be a high-water mark, and
\* these two are the only ways out of it.
IdsIncrease ==
    \A i, j \in 1 .. Len(ids) :
        i < j /\ (\A k \in i .. j - 1 : ~StepsBack(k) /\ ~ComesRound(k))
            => Before(ids[i], ids[j])
=============================================================================

--------------------------- MODULE ResultDelivery ---------------------------
(***************************************************************************)
(* How a check result travels from the probe that made it to the history   *)
(* table: the probe's Buffer (internal/probe/buffer.go), the result stream *)
(* that drains it (internal/probe/results.go), and the control plane's     *)
(* StreamResults and ingest (internal/controlplane), seen from the side of *)
(* delivery: which results are stored and which are freed.                 *)
(*                                                                         *)
(* A result is the number NewID gave it, the shedding hint OutcomeChanged  *)
(* and its approximate size; what it says about its monitor is the subject *)
(* of module MonitorState.  Ids are handed out in increasing order; module *)
(* ResultIds says when NewID really does that.                             *)
(***************************************************************************)
EXTENDS Integers, Sequences, FiniteSets, FiniteSetsExt

CONSTANTS
    Emitters,     \* goroutines that emit results: the scheduler and the workers
    MaxItems,     \* Buffer.maxItems
    MaxBytes,     \* Buffer.maxBytes
    Sizes,        \* the values approxSize takes
    BatchMax,     \* tuning.batchMax, the most results in one frame
    MaxResults,   \* bound: results emitted in a behaviour
    MaxInFlight,  \* bound: frames, and acknowledgements, on the wire at once
    MaxDrops,     \* bound: times the stream drops
    MaxFailures   \* bound: batches whose ingest returns an error

ASSUME ConstantsAssumption ==
    /\ MaxItems \in Nat /\ MaxBytes \in Nat
    /\ Sizes \subseteq Nat \ {0}
    /\ BatchMax \in Nat \ {0}
    /\ MaxResults \in Nat /\ MaxInFlight \in Nat
    /\ MaxDrops \in Nat /\ MaxFailures \in Nat

VARIABLES
    nextId,     \* ids handed out so far by NewID
    hand,       \* hand[w]: the result w has built and not yet added
    items,      \* Buffer.items
    sent,       \* Buffer.sent
    bytes,      \* Buffer.bytes
    shed,       \* Buffer.shed
    mu,         \* who holds Buffer.mu in its loop: "free", "add" or "ack"
    mark,       \* the mark of the Ack that holds mu, 0 when none does
    stream,     \* the result stream: "open" or "closed"
    up,         \* frames on the wire, each the sequence of its result ids
    down,       \* acknowledgements on the wire; 0 is an empty high-water mark
    late,       \* acknowledgements a dead stream's receiver has still to apply
    stray,      \* frames a dead stream's handler has still to ingest
    durable,    \* ids with a heartbeats row
    rejected,   \* ids ingest refused for good
    drops,      \* times the stream dropped
    failures,   \* ingests that returned an error
    (* What happened, for the properties; the program keeps none of it. *)
    changed,    \* ids emitted with OutcomeChanged
    freed,      \* ids an Ack freed
    dropped,    \* ids shed from the buffer
    failed,     \* ids of batches whose ingest returned an error
    overtaken,  \* ids added to the buffer after a larger id
    top         \* the largest id ever added

bufferVars == <<items, sent, bytes, shed, mu, mark>>
streamVars == <<stream, up, down, late, stray, drops>>
storeVars  == <<durable, rejected, failures, failed>>
traceVars  == <<changed, freed, dropped, overtaken, top>>
vars == <<nextId, hand, bufferVars, streamVars, storeVars, traceVars>>

Result   == [id : Nat, changed : BOOLEAN, size : Nat]
NoResult == [id |-> 0, changed |-> FALSE, size |-> 0]

ProbeType ==
    /\ nextId \in Nat
    /\ hand \in [Emitters -> Result]
    /\ items \in Seq(Result)
    /\ sent \in Nat /\ bytes \in Int /\ shed \in Nat
    /\ mu \in {"free", "add", "ack"} /\ mark \in Nat

StreamType ==
    /\ stream \in {"open", "closed"}
    /\ up \in Seq(Seq(Nat))
    /\ down \in Seq(Nat)
    /\ late \in SUBSET Nat
    /\ stray \in SUBSET Seq(Nat)
    /\ drops \in Nat

StoreType ==
    /\ durable \in SUBSET Nat /\ rejected \in SUBSET Nat
    /\ failures \in Nat /\ failed \in SUBSET Nat

TraceType ==
    /\ changed \in SUBSET Nat
    /\ freed \in SUBSET Nat /\ dropped \in SUBSET Nat
    /\ overtaken \in SUBSET Nat /\ top \in Nat

\* Every variable has its type; Buffer.sent, decremented by shedOneLocked and
\* by Ack, never falls below zero.
TypeOK == ProbeType /\ StreamType /\ StoreType /\ TraceType

Init ==
    /\ nextId = 0
    /\ hand = [w \in Emitters |-> NoResult]
    /\ items = <<>> /\ sent = 0 /\ bytes = 0 /\ shed = 0
    /\ mu = "free" /\ mark = 0
    /\ stream = "closed" /\ up = <<>> /\ down = <<>> /\ late = {} /\ stray = {}
    /\ durable = {} /\ rejected = {}
    /\ drops = 0 /\ failures = 0
    /\ changed = {} /\ freed = {} /\ dropped = {}
    /\ failed = {} /\ overtaken = {} /\ top = 0

-----------------------------------------------------------------------------
(* Helpers *)

\* The sequence s without its i-th element.
Without(s, i) == [j \in 1 .. Len(s) - 1 |-> IF j < i THEN s[j] ELSE s[j + 1]]

Ids(frame) == {frame[i] : i \in 1 .. Len(frame)}

\* The results in the buffer, by id.
Buffered == {items[i].id : i \in 1 .. Len(items)}

-----------------------------------------------------------------------------
(* The probe: emitting a result *)

\* emit up to NewID: the result gets its place in the id order here, and
\* reaches the buffer in a later step that other emitters may overtake.
Emit(w) ==
    /\ hand[w] = NoResult
    /\ nextId < MaxResults
    /\ nextId' = nextId + 1
    /\ \E c \in BOOLEAN, s \in Sizes :
          /\ hand' = [hand EXCEPT ![w] = [id |-> nextId + 1, changed |-> c, size |-> s]]
          /\ changed' = IF c THEN changed \cup {nextId + 1} ELSE changed
    /\ UNCHANGED <<bufferVars, streamVars, storeVars, freed, dropped,
                   overtaken, top>>

\* Add: append, and keep the mutex for the shedding loop.  Every other use of
\* the buffer waits until AddReturns, so the loop is one atomic Add to them.
AppendResult(w) ==
    LET r == hand[w] IN
    /\ mu = "free"
    /\ r # NoResult
    /\ hand' = [hand EXCEPT ![w] = NoResult]
    /\ items' = Append(items, r)
    /\ bytes' = bytes + r.size
    /\ mu' = "add"
    /\ overtaken' = IF r.id < top THEN overtaken \cup {r.id} ELSE overtaken
    /\ top' = IF r.id < top THEN top ELSE r.id
    /\ UNCHANGED <<nextId, sent, shed, mark, streamVars, storeVars, changed,
                   freed, dropped>>

\* The loop condition of Add.
OverBound == Len(items) > MaxItems \/ bytes > MaxBytes

\* Only a result that repeats its monitor's last outcome may be shed.
Sheddable(r) == ~r.changed

MutCursorAfterShed(i) == sent

\* The cursor after the i-th item went.
CursorAfterShed(i) == IF i <= sent THEN sent - 1 ELSE sent

\* One turn of the loop: shedOneLocked drops the oldest sheddable result.
ShedOne ==
    /\ mu = "add" /\ OverBound
    /\ \E i \in 1 .. Len(items) :
          /\ Sheddable(items[i])
          /\ \A j \in 1 .. i - 1 : ~Sheddable(items[j])
          /\ items' = Without(items, i)
          /\ bytes' = bytes - items[i].size
          /\ sent' = CursorAfterShed(i)
          /\ dropped' = dropped \cup {items[i].id}
    /\ shed' = shed + 1
    /\ UNCHANGED <<nextId, hand, mu, mark, streamVars, storeVars, changed,
                   freed, overtaken, top>>

\* Add returns: the buffer fits, or holds nothing that may be shed.
AddReturns ==
    /\ mu = "add"
    /\ OverBound => \A i \in 1 .. Len(items) : ~Sheddable(items[i])
    /\ mu' = "free"
    /\ UNCHANGED <<nextId, hand, items, sent, bytes, shed, mark, streamVars,
                   storeVars, traceVars>>

-----------------------------------------------------------------------------
(* The probe: streamOnce *)

MutOpenStream ==
    /\ stream = "closed" /\ mu = "free"
    /\ stream' = "open"
    /\ UNCHANGED <<nextId, hand, bufferVars, up, down, late, stray, drops,
                   storeVars, traceVars>>

\* A new stream rewinds the buffer before anything is sent on it.
OpenStream ==
    /\ stream = "closed" /\ mu = "free"
    /\ stream' = "open"
    /\ sent' = 0
    /\ UNCHANGED <<nextId, hand, items, bytes, shed, mu, mark, up, down, late,
                   stray, drops, storeVars, traceVars>>

\* The end of the batch Next returns.
BatchEnd == IF sent + BatchMax < Len(items) THEN sent + BatchMax ELSE Len(items)

\* The results Next returns, by id.
NextBatch == [j \in 1 .. BatchEnd - sent |-> items[sent + j].id]

\* The flush tick: Next marks a batch sent, and the frame goes on the wire.
Flush ==
    /\ stream = "open" /\ mu = "free"
    /\ Len(up) < MaxInFlight
    /\ sent < Len(items)
    /\ up' = Append(up, NextBatch)
    /\ sent' = BatchEnd
    /\ UNCHANGED <<nextId, hand, items, bytes, shed, mu, mark, stream, down,
                   late, stray, drops, storeVars, changed, freed, dropped,
                   overtaken, top>>

\* The health tick: a frame that carries no results.  One is sent only while the
\* two directions together leave room for it; result frames fill the rest.
SendHealth ==
    /\ stream = "open"
    /\ Len(up) + Len(down) < MaxInFlight
    /\ up' = Append(up, <<>>)
    /\ UNCHANGED <<nextId, hand, bufferVars, stream, down, late, stray, drops,
                   storeVars, traceVars>>

\* The receiver takes an acknowledgement and calls Ack.  An empty mark returns
\* at once; any other holds the mutex for the loop below.
ReceiveAck ==
    /\ stream = "open" /\ mu = "free" /\ down # <<>>
    /\ down' = Tail(down)
    /\ IF Head(down) = 0 THEN UNCHANGED <<mu, mark>>
                         ELSE mu' = "ack" /\ mark' = Head(down)
    /\ UNCHANGED <<nextId, hand, items, sent, bytes, shed, stream, up, late,
                   stray, drops, storeVars, traceVars>>

\* The receiver of a stream that has since dropped does the same with an
\* acknowledgement it had already received: it is not joined before the next
\* stream opens.
ReceiveLateAck ==
    /\ mu = "free"
    /\ \E through \in late :
          /\ late' = late \ {through}
          /\ mu' = "ack" /\ mark' = through
    /\ UNCHANGED <<nextId, hand, items, sent, bytes, shed, stream, up, down,
                   stray, drops, storeVars, traceVars>>

MutAcked(r) == r.id <= mark + 1

\* The comparison of Ack: ids as unsigned bytes.
Acked(r) == r.id <= mark

\* The cursor after the head went: max(sent - keep, 0), one item at a time.
CursorAfterFree == IF sent > 0 THEN sent - 1 ELSE 0

\* One turn of Ack's loop: the head of the buffer is at or below the mark.
FreeOne ==
    /\ mu = "ack" /\ items # <<>>
    /\ Acked(Head(items))
    /\ items' = Tail(items)
    /\ bytes' = bytes - Head(items).size
    /\ sent' = CursorAfterFree
    /\ freed' = freed \cup {Head(items).id}
    /\ UNCHANGED <<nextId, hand, shed, mu, mark, streamVars, storeVars,
                   changed, dropped, overtaken, top>>

AckReturns ==
    /\ mu = "ack"
    /\ items # <<>> => ~Acked(Head(items))
    /\ mu' = "free" /\ mark' = 0
    /\ UNCHANGED <<nextId, hand, items, sent, bytes, shed, streamVars,
                   storeVars, traceVars>>

-----------------------------------------------------------------------------
(* The control plane: StreamResults and ingest *)

MutAckThrough(frame) == IF frame = <<>> THEN 0 ELSE frame[Len(frame)] + 1

\* The high-water mark ingest answers with: the last result of the frame as
\* it was sent, or nothing for an empty frame.
AckThrough(frame) == IF frame = <<>> THEN 0 ELSE frame[Len(frame)]

\* ingest succeeds.  A result whose monitor is gone, or with no outcome, is
\* refused; every other one has its row, inserted now or by an earlier send.
IngestBatch ==
    /\ stream = "open" /\ up # <<>> /\ Len(down) < MaxInFlight
    /\ up' = Tail(up)
    /\ down' = Append(down, AckThrough(Head(up)))
    /\ \E refused \in SUBSET Ids(Head(up)) :
          /\ durable' = durable \cup (Ids(Head(up)) \ refused)
          /\ rejected' = rejected \cup refused
    /\ UNCHANGED <<nextId, hand, bufferVars, stream, late, stray, drops,
                   failures, failed, traceVars>>

\* ingest returns an error: a read failed or WriteBatch rolled back (nothing
\* is written), or SaveState failed after the heartbeats of all but the refused
\* were committed.  The handler answers with an empty mark and goes on.
IngestFails ==
    /\ stream = "open" /\ up # <<>> /\ Head(up) # <<>> /\ Len(down) < MaxInFlight
    /\ failures < MaxFailures
    /\ up' = Tail(up)
    /\ down' = Append(down, 0)
    /\ \E stored \in SUBSET Ids(Head(up)) : durable' = durable \cup stored
    /\ failures' = failures + 1
    /\ failed' = failed \cup Ids(Head(up))
    /\ UNCHANGED <<nextId, hand, bufferVars, stream, late, stray, drops,
                   rejected, traceVars>>

-----------------------------------------------------------------------------
(* The stream drops *)

\* Both ends lose what is on the wire, except the acknowledgements the probe's
\* receiver already holds and the frame the handler is ingesting.
DropStream ==
    /\ stream = "open" /\ drops < MaxDrops
    /\ stream' = "closed"
    /\ drops' = drops + 1
    /\ up' = <<>> /\ down' = <<>>
    /\ \E k \in 0 .. Len(down) :
          late' = late \cup ({down[i] : i \in 1 .. k} \ {0})
    /\ \/ stray' = stray
       \/ up # <<>> /\ Head(up) # <<>> /\ stray' = stray \cup {Head(up)}
    /\ UNCHANGED <<nextId, hand, bufferVars, storeVars, traceVars>>

\* The old handler finishes the frame it had, or fails to; its answer is lost
\* and so is the handler.
StrayIngest ==
    /\ \E frame \in stray :
          /\ stray' = stray \ {frame}
          /\ \E stored \in SUBSET Ids(frame) : durable' = durable \cup stored
    /\ UNCHANGED <<nextId, hand, bufferVars, stream, up, down, late, drops,
                   rejected, failures, failed, traceVars>>

-----------------------------------------------------------------------------
Next ==
    \/ \E w \in Emitters : Emit(w) \/ AppendResult(w)
    \/ ShedOne \/ AddReturns
    \/ OpenStream \/ Flush \/ SendHealth
    \/ ReceiveAck \/ ReceiveLateAck \/ FreeOne \/ AckReturns
    \/ IngestBatch \/ IngestFails
    \/ DropStream \/ StrayIngest

Spec == Init /\ [][Next]_vars

(* Goroutines that can run do run, the tickers keep ticking, and a dropped *)
(* stream is reopened by Session.retry for as long as the session lives.   *)
(* The steps that take Buffer.mu are strongly fair: Go's mutex hands itself *)
(* to a waiter it has starved.                                             *)
Fairness ==
    /\ \A w \in Emitters : SF_vars(AppendResult(w))
    /\ WF_vars(ShedOne) /\ WF_vars(AddReturns)
    /\ SF_vars(OpenStream) /\ SF_vars(Flush)
    /\ SF_vars(ReceiveAck) /\ WF_vars(FreeOne) /\ WF_vars(AckReturns)
    /\ WF_vars(IngestBatch)

FairSpec == Spec /\ Fairness
-----------------------------------------------------------------------------
(* Properties *)

\* A frame on the wire still carries n.
OnWire(n) == \E k \in 1 .. Len(up) : n \in Ids(up[k])

\* Results the control plane has dealt with: stored, or refused for good.
Settled == durable \cup rejected

\* Results that are settled, or that one of the two known ways to lose a
\* result has touched: their batch failed, or a larger id entered the buffer
\* before them.
Explained == Settled \cup failed \cup overtaken

\* Ack frees a result that is not stored (buffer.go Ack, ingest.go's
\* high-water mark) only if its batch failed to ingest or a larger id entered
\* the buffer before it: no drop, resend, late acknowledgement, shedding or
\* interleaving of emitters loses a result in any third way.
LossIsExplained == freed \subseteq Explained

\* On an open stream the cursor never covers a result nobody is taking care
\* of: what Buffer.sent counts as sent is on the wire or explained, so Next
\* skips nothing (Next, Rewind, and the cursor arithmetic of shedOneLocked and
\* Ack).
SentIsCovered ==
    /\ sent <= Len(items)
    /\ stream = "open" =>
          \A i \in 1 .. sent : OnWire(items[i].id) \/ items[i].id \in Explained

\* Whenever no Add is in its loop, the buffer is within both bounds or holds
\* nothing but outcome changes (Add and shedOneLocked).
BoundKept ==
    mu # "add" => ~OverBound \/ \A i \in 1 .. Len(items) : items[i].changed

\* A result whose outcome changed is never shed, whatever the pressure
\* (shedOneLocked).
TransitionsKept == dropped \cap changed = {}

\* What Stats reports to ProbeHealth is true: the byte count is the size of
\* what is buffered after any mix of Add, shedding and Ack, and the shed
\* counter counts the results shed.
StatsHonest ==
    /\ bytes = MapThenSumSet(LAMBDA i : items[i].size, 1 .. Len(items))
    /\ shed = Cardinality(dropped)

(* The strengthening that makes LossIsExplained and SentIsCovered inductive. *)

\* Ids name results: none is in two hands, or in a hand and the buffer, and
\* none exceeds the last one given out.
IdsUnique ==
    /\ top <= nextId
    /\ \A w \in Emitters :
          /\ hand[w] = NoResult \/ hand[w].id > 0
          /\ hand[w].id <= nextId
          /\ hand[w].id > 0 => hand[w].id # top
          /\ \A i \in 1 .. Len(items) : items[i].id # hand[w].id
    /\ \A v, w \in Emitters : v # w /\ hand[v].id > 0 => hand[v].id # hand[w].id
    /\ \A i \in 1 .. Len(items) : items[i].id > 0 /\ items[i].id <= top
    /\ \A i, j \in 1 .. Len(items) : i # j => items[i].id # items[j].id

\* Out of order in the buffer means overtaken on the way into it.
OrderKept ==
    \A i, j \in 1 .. Len(items) :
        i < j /\ items[j].id < items[i].id => items[j].id \in overtaken

\* Nothing on the wire is newer than the buffer has seen, and a closed stream
\* carries nothing.
WireKnown ==
    /\ \A k \in 1 .. Len(up) : \A i \in 1 .. Len(up[k]) : up[k][i] <= top
    /\ \A k \in 1 .. Len(down) : down[k] <= top
    /\ \A t \in late : t <= top
    /\ mark <= top
    /\ stream = "closed" => up = <<>> /\ down = <<>>

\* An Ack through t would free nothing unexplained.
AckSafe(t) ==
    \A i \in 1 .. Len(items) : items[i].id <= t => items[i].id \in Explained

\* Every acknowledgement on its way, or held by a receiver, is safe.
AcksSafe ==
    /\ AckSafe(mark)
    /\ \A t \in late : AckSafe(t)
    /\ \A k \in 1 .. Len(down) : AckSafe(down[k])

\* A frame will be a safe acknowledgement when the frames before it and itself
\* have been ingested.
FramesSafe ==
    \A k \in 1 .. Len(up) : \A i \in 1 .. Len(items) :
        items[i].id <= AckThrough(up[k]) =>
            \/ items[i].id \in Explained
            \/ \E j \in 1 .. k : items[i].id \in Ids(up[j])

\* The inductive invariant of result delivery: what LossIsExplained needs of
\* every mark, frame and cursor between Next and Ack.
DeliveryInv ==
    /\ IdsUnique /\ OrderKept /\ WireKnown
    /\ AcksSafe /\ FramesSafe
    /\ SentIsCovered /\ LossIsExplained

\* Every buffered result eventually leaves the buffer, acknowledged or shed,
\* if the stream stops dropping and ingest does not fail (streamOnce).
BufferDrains ==
    \A n \in 1 .. MaxResults : (n \in Buffered) ~> (n \notin Buffered)

\* What StreamResults says of a failed ingest: the probe "keeps the batch and
\* resends it"; it is not freed until it is stored or refused.
FailedBatchKept == freed \cap failed \subseteq Settled

-----------------------------------------------------------------------------
(* Refinement *)

\* The results the probe holds: in an emitter's hands or in the buffer.
Waiting == {n \in 1 .. nextId : \/ \E w \in Emitters : hand[w].id = n
                                \/ n \in Buffered}

Outbox == INSTANCE DurableOutbox
    WITH Results <- 1 .. MaxResults, known <- 1 .. nextId,
         waiting <- Waiting, history <- durable, refused <- rejected,
         important <- changed

\* With a single emitter and no failing ingest, the buffer and the stream are a
\* durable outbox: a result is released only once it is stored or refused, and
\* only a result that changed nothing is given up (DurableOutbox).
IsDurableOutbox == Outbox!Spec
=============================================================================

------------------------ MODULE ResultDeliveryProofs ------------------------
(***************************************************************************)
(* Proofs about ResultDelivery, for every number of emitters, every bound  *)
(* of the buffer, and any number of results, drops and failed ingests.     *)
(***************************************************************************)
EXTENDS ResultDelivery, SequenceTheorems, TLAPS

-----------------------------------------------------------------------------
(* The sequence operators *)

\* Removing the i-th element of a sequence (shedOneLocked) leaves a sequence
\* one shorter, with the elements before i in place and the others moved up.
LEMMA WithoutProperties ==
    ASSUME NEW S, NEW s \in Seq(S), NEW i \in 1 .. Len(s)
    PROVE  /\ Without(s, i) \in Seq(S)
           /\ Len(Without(s, i)) = Len(s) - 1
           /\ \A j \in 1 .. Len(s) - 1 :
                 Without(s, i)[j] = IF j < i THEN s[j] ELSE s[j + 1]
  <1>1. Len(s) - 1 \in Nat
    OBVIOUS
  <1>2. \A j \in 1 .. Len(s) - 1 : (IF j < i THEN s[j] ELSE s[j + 1]) \in S
    OBVIOUS
  <1> QED
    BY <1>1, <1>2 DEF Without

\* An item of the buffer is a result.
LEMMA ItemType ==
    ASSUME TypeOK, NEW i \in 1 .. Len(items)
    PROVE  items[i] \in Result /\ items[i].id \in Nat /\ items[i].size \in Nat
  <1>1. items[i] \in Result
    BY DEF TypeOK, ProbeType
  <1> QED
    BY <1>1 DEF Result

\* The frame Next returns is a sequence of ids: the unsent items up to the end
\* of the batch, and at least one.
LEMMA NextBatchProperties ==
    ASSUME TypeOK, sent < Len(items)
    PROVE  /\ BatchEnd \in Nat /\ sent < BatchEnd /\ BatchEnd <= Len(items)
           /\ NextBatch \in Seq(Nat)
           /\ Len(NextBatch) = BatchEnd - sent
           /\ \A j \in 1 .. BatchEnd - sent : NextBatch[j] = items[sent + j].id
  <1>1. BatchEnd \in Nat /\ sent < BatchEnd /\ BatchEnd <= Len(items)
    BY ConstantsAssumption DEF TypeOK, ProbeType, BatchEnd
  <1>2. \A j \in 1 .. BatchEnd - sent : items[sent + j].id \in Nat
    BY <1>1, ItemType DEF TypeOK, ProbeType
  <1>3. BatchEnd - sent \in Nat
    BY <1>1 DEF TypeOK, ProbeType
  <1> QED
    BY <1>1, <1>2, <1>3 DEF NextBatch

-----------------------------------------------------------------------------
(* Types *)

\* Every variable of the buffer, the stream and the store keeps its type; in
\* particular Buffer.sent never goes below zero.
THEOREM TypeCorrect == Spec => []TypeOK
  <1>1. Init => TypeOK
    <2> SUFFICES ASSUME Init PROVE TypeOK
      OBVIOUS
    <2>1. ProbeType
      BY DEF Init, ProbeType, Result, NoResult
    <2>2. StreamType
      BY DEF Init, StreamType
    <2>3. StoreType /\ TraceType
      BY DEF Init, StoreType, TraceType
    <2> QED
      BY <2>1, <2>2, <2>3 DEF TypeOK
  <1>2. TypeOK /\ [Next]_vars => TypeOK'
    <2> SUFFICES ASSUME TypeOK, [Next]_vars PROVE TypeOK'
      OBVIOUS
    <2> USE DEF TypeOK
    <2>1. ASSUME NEW w \in Emitters, Emit(w) PROVE TypeOK'
      <3>1. ProbeType'
        BY <2>1, ConstantsAssumption DEF Emit, ProbeType, Result, bufferVars
      <3>2. StreamType' /\ StoreType' /\ TraceType'
        BY <2>1 DEF Emit, StreamType, StoreType, TraceType, ProbeType,
                    streamVars, storeVars
      <3> QED
        BY <3>1, <3>2
    <2>2. ASSUME NEW w \in Emitters, AppendResult(w) PROVE TypeOK'
      <3>1. hand[w] \in Result /\ hand[w].id \in Nat /\ hand[w].size \in Nat
        BY DEF ProbeType, Result
      <3>2. NoResult \in Result
        BY DEF NoResult, Result
      <3>3. ProbeType'
        BY <2>2, <3>1, <3>2 DEF AppendResult, ProbeType
      <3>4. StreamType' /\ StoreType' /\ TraceType'
        BY <2>2, <3>1 DEF AppendResult, StreamType, StoreType, TraceType,
                          streamVars, storeVars
      <3> QED
        BY <3>3, <3>4
    <2>3. CASE ShedOne
      <3>1. PICK i \in 1 .. Len(items) :
               /\ items' = Without(items, i)
               /\ bytes' = bytes - items[i].size
               /\ sent' = CursorAfterShed(i)
               /\ dropped' = dropped \cup {items[i].id}
        BY <2>3 DEF ShedOne
      <3>2. items[i].id \in Nat /\ items[i].size \in Nat
        BY ItemType
      <3>3. items' \in Seq(Result)
        BY <3>1, WithoutProperties DEF ProbeType
      <3>4. ProbeType'
        BY <2>3, <3>1, <3>2, <3>3 DEF ShedOne, ProbeType, CursorAfterShed
      <3>5. StreamType' /\ StoreType' /\ TraceType'
        BY <2>3, <3>1, <3>2 DEF ShedOne, StreamType, StoreType, TraceType,
                                streamVars, storeVars
      <3> QED
        BY <3>4, <3>5
    <2>4. CASE AddReturns
      BY <2>4 DEF AddReturns, ProbeType, StreamType, StoreType, TraceType,
                  streamVars, storeVars, traceVars
    <2>5. CASE OpenStream
      BY <2>5 DEF OpenStream, ProbeType, StreamType, StoreType, TraceType,
                  storeVars, traceVars
    <2>6. CASE Flush
      <3>1. NextBatch \in Seq(Nat) /\ BatchEnd \in Nat
        BY <2>6, NextBatchProperties DEF Flush
      <3>2. Ids(NextBatch) \subseteq Nat
        BY <3>1 DEF Ids
      <3>3. ProbeType' /\ StoreType' /\ TraceType'
        BY <2>6, <3>1, <3>2 DEF Flush, ProbeType, StoreType, TraceType,
                                storeVars
      <3>4. StreamType'
        BY <2>6, <3>1 DEF Flush, StreamType
      <3> QED
        BY <3>3, <3>4
    <2>7. CASE SendHealth
      <3>1. StreamType'
        BY <2>7 DEF SendHealth, StreamType
      <3> QED
        BY <2>7, <3>1 DEF SendHealth, ProbeType, StoreType, TraceType,
                          bufferVars, storeVars, traceVars
    <2>8. CASE ReceiveAck
      BY <2>8 DEF ReceiveAck, ProbeType, StreamType, StoreType, TraceType,
                  storeVars, traceVars
    <2>9. CASE ReceiveLateAck
      BY <2>9 DEF ReceiveLateAck, ProbeType, StreamType, StoreType, TraceType,
                  storeVars, traceVars
    <2>10. CASE FreeOne
      <3>1. items # <<>> /\ Head(items) = items[1] /\ 1 \in 1 .. Len(items)
        BY <2>10 DEF FreeOne, ProbeType
      <3>2. Head(items).id \in Nat /\ Head(items).size \in Nat
        BY <3>1, ItemType
      <3>3. ProbeType'
        BY <2>10, <3>2 DEF FreeOne, ProbeType, CursorAfterFree
      <3>4. StreamType' /\ StoreType' /\ TraceType'
        BY <2>10, <3>2 DEF FreeOne, StreamType, StoreType, TraceType,
                           streamVars, storeVars
      <3> QED
        BY <3>3, <3>4
    <2>11. CASE AckReturns
      BY <2>11 DEF AckReturns, ProbeType, StreamType, StoreType, TraceType,
                   streamVars, storeVars, traceVars
    <2>12. CASE IngestBatch
      <3>1. Head(up) \in Seq(Nat) /\ Tail(up) \in Seq(Seq(Nat))
        BY <2>12 DEF IngestBatch, StreamType
      <3>2. AckThrough(Head(up)) \in Nat /\ Ids(Head(up)) \subseteq Nat
        BY <3>1 DEF AckThrough, Ids
      <3>3. StreamType'
        BY <2>12, <3>1, <3>2 DEF IngestBatch, StreamType
      <3>4. StoreType'
        BY <2>12, <3>2 DEF IngestBatch, StoreType
      <3> QED
        BY <2>12, <3>3, <3>4 DEF IngestBatch, ProbeType, TraceType, bufferVars,
                                 traceVars
    <2>13. CASE IngestFails
      <3>1. Head(up) \in Seq(Nat) /\ Tail(up) \in Seq(Seq(Nat))
        BY <2>13 DEF IngestFails, StreamType
      <3>2. Ids(Head(up)) \subseteq Nat
        BY <3>1 DEF Ids
      <3>3. StreamType'
        BY <2>13, <3>1 DEF IngestFails, StreamType
      <3>4. durable' \subseteq durable \cup Ids(Head(up))
        BY <2>13 DEF IngestFails
      <3>5. /\ failures' = failures + 1 /\ rejected' = rejected
            /\ failed' = failed \cup Ids(Head(up))
        BY <2>13 DEF IngestFails
      <3>6. StoreType'
        <4>1. durable' \subseteq Nat /\ failed' \subseteq Nat
          BY <3>2, <3>4, <3>5 DEF StoreType
        <4> QED
          BY <3>5, <4>1 DEF StoreType
      <3> QED
        BY <2>13, <3>3, <3>6 DEF IngestFails, ProbeType, TraceType, bufferVars,
                                 traceVars
    <2>14. CASE DropStream
      <3>1. late' \subseteq late \cup {down[i] : i \in 1 .. Len(down)}
        BY <2>14, SMTT(60) DEF DropStream, StreamType
      <3>2. {down[i] : i \in 1 .. Len(down)} \subseteq Nat
        BY DEF StreamType
      <3>3. stray' \subseteq Seq(Nat)
        BY <2>14 DEF DropStream, StreamType
      <3>4. /\ stream' = "closed" /\ drops' = drops + 1
            /\ up' = <<>> /\ down' = <<>>
        BY <2>14 DEF DropStream
      <3>5. StreamType'
        BY <3>1, <3>2, <3>3, <3>4 DEF StreamType
      <3> QED
        BY <2>14, <3>5 DEF DropStream, ProbeType, StoreType, TraceType,
                           bufferVars, storeVars, traceVars
    <2>15. CASE StrayIngest
      <3>1. PICK frame \in stray :
               /\ stray' = stray \ {frame}
               /\ durable' \subseteq durable \cup Ids(frame)
        BY <2>15 DEF StrayIngest
      <3>2. Ids(frame) \subseteq Nat
        BY DEF StreamType, Ids
      <3>3. StreamType'
        BY <2>15, <3>1 DEF StrayIngest, StreamType
      <3>4. StoreType'
        BY <2>15, <3>1, <3>2 DEF StrayIngest, StoreType
      <3> QED
        BY <2>15, <3>3, <3>4 DEF StrayIngest, ProbeType, TraceType, bufferVars,
                           traceVars
    <2>16. CASE UNCHANGED vars
      BY <2>16 DEF vars, bufferVars, streamVars, storeVars, traceVars,
                   ProbeType, StreamType, StoreType, TraceType
    <2> QED
      BY <2>1, <2>2, <2>3, <2>4, <2>5, <2>6, <2>7, <2>8, <2>9, <2>10, <2>11,
         <2>12, <2>13, <2>14, <2>15, <2>16 DEF Next
  <1> QED
    BY <1>1, <1>2, PTL DEF Spec

-----------------------------------------------------------------------------
(* Result delivery.  One lemma per group of actions shows that the action   *)
(* keeps DeliveryInv.                                                       *)

\* Initially nothing is buffered, sent or freed.
LEMMA DeliveryInit == Init => DeliveryInv
  <1> SUFFICES ASSUME Init PROVE DeliveryInv
    OBVIOUS
  <1>1. Len(items) = 0 /\ Len(up) = 0 /\ Len(down) = 0
    BY DEF Init
  <1>2. IdsUnique
    BY <1>1 DEF Init, IdsUnique, NoResult
  <1>3. OrderKept /\ WireKnown
    BY <1>1 DEF Init, OrderKept, WireKnown
  <1>4. AcksSafe /\ FramesSafe
    BY <1>1 DEF Init, AcksSafe, AckSafe, FramesSafe
  <1>5. SentIsCovered /\ LossIsExplained
    BY <1>1 DEF Init, SentIsCovered, LossIsExplained
  <1> QED
    BY <1>2, <1>3, <1>4, <1>5 DEF DeliveryInv

\* A step that leaves the ids, the wire and the marks alone keeps DeliveryInv
\* if it only adds to what is explained (AddReturns, StrayIngest, stuttering).
LEMMA DeliveryStable ==
    ASSUME DeliveryInv, Explained \subseteq Explained',
           UNCHANGED <<nextId, hand, items, sent, mark, stream, up, down, late,
                       freed, top>>, overtaken' = overtaken
    PROVE  DeliveryInv'
  <1>1. IdsUnique'
    BY DEF DeliveryInv, IdsUnique
  <1>2. OrderKept' /\ WireKnown'
    BY DEF DeliveryInv, OrderKept, WireKnown
  <1>3. AcksSafe'
    BY DEF DeliveryInv, AcksSafe, AckSafe
  <1>4. FramesSafe'
    BY DEF DeliveryInv, FramesSafe, AckThrough, Ids
  <1>5. SentIsCovered'
    BY DEF DeliveryInv, SentIsCovered, OnWire, Ids
  <1>6. LossIsExplained'
    BY DEF DeliveryInv, LossIsExplained
  <1> QED
    BY <1>1, <1>2, <1>3, <1>4, <1>5, <1>6 DEF DeliveryInv

\* What is known of the wire stays known when the buffer sees a larger id.
LEMMA WireGrows ==
    ASSUME TypeOK, WireKnown, top' \in Nat, top <= top',
           UNCHANGED <<up, down, late, mark, stream>>
    PROVE  WireKnown'
  <1>1. top \in Nat /\ mark \in Nat
    BY DEF TypeOK, ProbeType, TraceType
  <1>2. \A k \in 1 .. Len(up) : \A i \in 1 .. Len(up[k]) : up[k][i] <= top'
    <2> TAKE k \in 1 .. Len(up)
    <2> TAKE i \in 1 .. Len(up[k])
    <2>1. up[k] \in Seq(Nat)
      BY DEF TypeOK, StreamType
    <2>2. up[k][i] \in Nat /\ up[k][i] <= top
      BY <2>1 DEF WireKnown
    <2> QED
      BY <1>1, <2>2
  <1>3. \A k \in 1 .. Len(down) : down[k] <= top'
    BY <1>1 DEF TypeOK, StreamType, WireKnown
  <1>4. (\A t \in late : t <= top') /\ mark <= top'
    BY <1>1 DEF TypeOK, StreamType, WireKnown
  <1> QED
    BY <1>2, <1>3, <1>4 DEF WireKnown

\* emit gives out an id nobody has had: the buffer and the wire do not move.
LEMMA DeliveryEmit ==
    ASSUME TypeOK, DeliveryInv, NEW w \in Emitters, Emit(w)
    PROVE  DeliveryInv'
  <1> USE DEF TypeOK
  <1>1. /\ UNCHANGED <<items, sent, mark, stream, up, down, late, durable,
                       rejected, failed, freed, overtaken, top>>
        /\ nextId' = nextId + 1
        /\ hand[w] = NoResult
    BY DEF Emit, bufferVars, streamVars, storeVars
  <1>2. PICK c \in BOOLEAN, s \in Sizes :
           hand' = [hand EXCEPT ![w] = [id |-> nextId + 1, changed |-> c, size |-> s]]
    BY DEF Emit
  <1>3. hand'[w].id = nextId + 1 /\ \A v \in Emitters : v # w => hand'[v] = hand[v]
    BY <1>2 DEF ProbeType
  <1>4. IdsUnique'
    <2>1. top' <= nextId'
      BY <1>1 DEF DeliveryInv, IdsUnique, ProbeType, TraceType
    <2>2. ASSUME NEW v \in Emitters
          PROVE  /\ hand[v]' = NoResult \/ hand[v].id' > 0
                 /\ hand[v].id' <= nextId'
                 /\ hand[v].id' > 0 => hand[v].id' # top'
                 /\ \A i \in 1 .. Len(items)' : items[i].id' # hand[v].id'
      <3>1. CASE v = w
        <4>1. \A i \in 1 .. Len(items) : items[i].id \in Nat /\ items[i].id <= nextId
          BY ItemType DEF DeliveryInv, IdsUnique, ProbeType, TraceType
        <4>2. hand'[v].id = nextId + 1 /\ nextId \in Nat /\ top \in Nat /\ top <= nextId
          BY <1>3, <3>1 DEF DeliveryInv, IdsUnique, ProbeType, TraceType
        <4> QED
          BY <1>1, <4>1, <4>2
      <3>2. CASE v # w
        <4>1. hand[v].id \in Nat /\ nextId \in Nat
          BY DEF ProbeType, Result
        <4> QED
          BY <1>1, <1>3, <3>2, <4>1 DEF DeliveryInv, IdsUnique
      <3> QED
        BY <3>1, <3>2
    <2>3. \A u, v \in Emitters :
             u # v /\ hand[u].id' > 0 => hand[u].id' # hand[v].id'
      <3>1. nextId \in Nat
            /\ \A v \in Emitters : hand[v].id \in Nat /\ hand[v].id <= nextId
        BY DEF DeliveryInv, IdsUnique, ProbeType, Result
      <3> QED
        BY <1>3, <3>1 DEF DeliveryInv, IdsUnique
    <2>4. /\ \A i \in 1 .. Len(items)' : items[i].id' > 0 /\ items[i].id' <= top'
          /\ \A i, j \in 1 .. Len(items)' : i # j => items[i].id' # items[j].id'
      BY <1>1 DEF DeliveryInv, IdsUnique
    <2> QED
      BY <2>1, <2>2, <2>3, <2>4 DEF IdsUnique
  <1>5. Explained' = Explained
    BY <1>1 DEF Explained, Settled
  <1>6. OrderKept' /\ WireKnown'
    BY <1>1 DEF DeliveryInv, OrderKept, WireKnown
  <1>7. AcksSafe'
    BY <1>1, <1>5 DEF DeliveryInv, AcksSafe, AckSafe
  <1>8. FramesSafe'
    BY <1>1, <1>5 DEF DeliveryInv, FramesSafe, AckThrough, Ids
  <1>9. SentIsCovered' /\ LossIsExplained'
    BY <1>1, <1>5 DEF DeliveryInv, SentIsCovered, LossIsExplained, OnWire, Ids
  <1> QED
    BY <1>4, <1>6, <1>7, <1>8, <1>9 DEF DeliveryInv

\* Add appends the result behind everything buffered.  If a mark, a frame or an
\* item reaches past its id, a larger id entered the buffer before it.
LEMMA DeliveryAppend ==
    ASSUME TypeOK, DeliveryInv, NEW w \in Emitters, AppendResult(w)
    PROVE  DeliveryInv'
  <1> USE DEF TypeOK
  <1> DEFINE r == hand[w]
             n == Len(items)
  <1>1. /\ UNCHANGED <<nextId, sent, mark, stream, up, down, late, durable,
                       rejected, failed, freed>>
        /\ r # NoResult
        /\ hand' = [hand EXCEPT ![w] = NoResult]
        /\ items' = Append(items, r)
        /\ overtaken' = IF r.id < top THEN overtaken \cup {r.id} ELSE overtaken
        /\ top' = IF r.id < top THEN top ELSE r.id
    BY DEF AppendResult, streamVars, storeVars
  <1>2. /\ r \in Result /\ r.id \in Nat /\ r.id > 0 /\ r.id # top
        /\ r.id <= nextId
        /\ n \in Nat /\ nextId \in Nat /\ top \in Nat /\ top <= nextId
        /\ \A i \in 1 .. n : items[i].id \in Nat /\ items[i].id <= top
        /\ \A i \in 1 .. n : items[i].id # r.id
    <2>1. r \in Result /\ r.id \in Nat
      BY DEF ProbeType, Result
    <2>2. n \in Nat /\ nextId \in Nat /\ top \in Nat
      BY DEF ProbeType, TraceType
    <2>3. r.id > 0 /\ r.id # top /\ r.id <= nextId /\ top <= nextId
      BY <1>1, <2>1 DEF DeliveryInv, IdsUnique
    <2>4. \A i \in 1 .. n : items[i].id \in Nat
      BY ItemType
    <2>5. \A i \in 1 .. n : items[i].id <= top /\ items[i].id # r.id
      BY DEF DeliveryInv, IdsUnique
    <2> QED
      BY <2>1, <2>2, <2>3, <2>4, <2>5
  <1>3. /\ Len(items') = n + 1
        /\ items'[n + 1] = r
        /\ \A i \in 1 .. n : items'[i] = items[i]
    BY <1>1 DEF ProbeType
  <1>4. /\ hand'[w] = NoResult /\ NoResult.id = 0
        /\ \A v \in Emitters : v # w => hand'[v] = hand[v] /\ hand[v].id # r.id
    BY <1>1, <1>2 DEF ProbeType, NoResult, DeliveryInv, IdsUnique
  <1>5. top' \in Nat /\ top <= top' /\ r.id <= top' /\ top' <= nextId
    BY <1>1, <1>2
  <1>6. Explained \subseteq Explained'
    BY <1>1 DEF Explained, Settled
  <1>7. \A t \in Nat : t <= top /\ r.id <= t => r.id \in Explained'
    BY <1>1, <1>2 DEF Explained
  <1>8. IdsUnique'
    <2>1. ASSUME NEW v \in Emitters
          PROVE  /\ hand[v]' = NoResult \/ hand[v].id' > 0
                 /\ hand[v].id' <= nextId'
                 /\ hand[v].id' > 0 => hand[v].id' # top'
                 /\ \A i \in 1 .. Len(items') : items'[i].id # hand'[v].id
      <3>1. CASE v = w
        BY <1>1, <1>2, <1>3, <1>4, <3>1 DEF DeliveryInv, IdsUnique
      <3>2. CASE v # w
        <4>1. hand'[v] = hand[v] /\ hand[v].id # r.id /\ hand[v].id \in Nat
          BY <1>4, <3>2 DEF ProbeType, Result
        <4> QED
          BY <1>1, <1>2, <1>3, <4>1 DEF DeliveryInv, IdsUnique
      <3> QED
        BY <3>1, <3>2
    <2>2. \A u, v \in Emitters :
             u # v /\ hand[u].id' > 0 => hand[u].id' # hand[v].id'
      <3>1. \A v \in Emitters : hand[v].id \in Nat
        BY DEF ProbeType, Result
      <3> QED
        BY <1>4, <3>1 DEF DeliveryInv, IdsUnique
    <2>3. \A i \in 1 .. Len(items') : items'[i].id > 0 /\ items'[i].id <= top'
      BY <1>2, <1>3, <1>5 DEF DeliveryInv, IdsUnique
    <2>4. \A i, j \in 1 .. Len(items') : i # j => items'[i].id # items'[j].id
      BY <1>2, <1>3 DEF DeliveryInv, IdsUnique
    <2> QED
      BY <1>1, <1>5, <2>1, <2>2, <2>3, <2>4 DEF IdsUnique
  <1>9. OrderKept'
    <2> SUFFICES ASSUME NEW i \in 1 .. Len(items'), NEW j \in 1 .. Len(items'),
                        i < j, items'[j].id < items'[i].id
                 PROVE  items'[j].id \in overtaken'
      BY DEF OrderKept
    <2>1. CASE j = n + 1
      <3>1. i \in 1 .. n /\ items'[i] = items[i] /\ items'[j] = r
        BY <1>2, <1>3, <2>1
      <3>2. r.id < top
        BY <1>2, <3>1
      <3> QED
        BY <1>1, <3>1, <3>2
    <2>2. CASE j # n + 1
      <3>1. i \in 1 .. n /\ j \in 1 .. n
        BY <1>2, <1>3, <2>2
      <3> QED
        BY <1>1, <1>3, <3>1 DEF DeliveryInv, OrderKept
    <2> QED
      BY <2>1, <2>2
  <1>10. WireKnown'
    BY <1>1, <1>5, WireGrows DEF DeliveryInv
  <1>11. ASSUME NEW t \in Nat, t <= top, AckSafe(t)
         PROVE  AckSafe(t)'
    BY <1>2, <1>3, <1>6, <1>7, <1>11 DEF AckSafe
  <1>12. AcksSafe'
    <2>1. mark' = mark /\ mark \in Nat /\ mark <= top /\ AckSafe(mark)
      BY <1>1 DEF DeliveryInv, AcksSafe, WireKnown, ProbeType
    <2>2. late' = late
          /\ \A t \in late : t \in Nat /\ t <= top /\ AckSafe(t)
      BY <1>1 DEF DeliveryInv, AcksSafe, WireKnown, StreamType
    <2>3. down' = down
          /\ \A k \in 1 .. Len(down) :
                down[k] \in Nat /\ down[k] <= top /\ AckSafe(down[k])
      BY <1>1 DEF DeliveryInv, AcksSafe, WireKnown, StreamType
    <2>4. AckSafe(mark)'
      BY <1>11, <2>1 DEF AckSafe
    <2>5. \A t \in late' : AckSafe(t)'
      BY <1>11, <2>2 DEF AckSafe
    <2>6. \A k \in 1 .. Len(down') : AckSafe(down[k])'
      BY <1>11, <2>3 DEF AckSafe
    <2> QED
      BY <2>4, <2>5, <2>6 DEF AcksSafe
  <1>13. FramesSafe'
    <2> SUFFICES ASSUME NEW k \in 1 .. Len(up), NEW i \in 1 .. Len(items'),
                        items'[i].id <= AckThrough(up[k])
                 PROVE  \/ items'[i].id \in Explained'
                        \/ \E j \in 1 .. k : items'[i].id \in Ids(up[j])
      BY <1>1 DEF FramesSafe, AckThrough, Ids
    <2> DEFINE u == up[k]
    <2>0. u \in Seq(Nat) /\ \A j \in 1 .. Len(u) : u[j] <= top
      <3>1. u \in Seq(Nat)
        BY DEF StreamType
      <3> QED
        BY <3>1 DEF DeliveryInv, WireKnown, Ids
    <2>1. AckThrough(up[k]) \in Nat /\ AckThrough(up[k]) <= top
      <3> HIDE DEF u
      <3>1. CASE u = <<>>
        BY <1>2, <3>1 DEF AckThrough, u
      <3>2. CASE u # <<>>
        BY <2>0, <3>2 DEF AckThrough, u
      <3> QED
        BY <3>1, <3>2
    <2>2. CASE i = n + 1
      BY <1>3, <1>7, <2>1, <2>2
    <2>3. CASE i # n + 1
      BY <1>2, <1>3, <1>6, <2>3 DEF DeliveryInv, FramesSafe
    <2> QED
      BY <2>2, <2>3
  <1>14. SentIsCovered'
    <2>1. sent \in Nat /\ sent <= n /\ sent' = sent
      BY <1>1 DEF DeliveryInv, SentIsCovered, ProbeType
    <2>2. \A i \in 1 .. sent : items'[i] = items[i]
      BY <1>2, <1>3, <2>1
    <2>4. sent' <= Len(items')
      BY <1>2, <1>3, <2>1
    <2>5. (stream = "open" =>
             \A i \in 1 .. sent :
                OnWire(items[i].id) \/ items[i].id \in Explained)'
      BY <1>1, <1>6, <2>1, <2>2 DEF DeliveryInv, SentIsCovered, OnWire, Ids
    <2> QED
      BY <2>4, <2>5 DEF SentIsCovered
  <1>15. LossIsExplained'
    BY <1>1, <1>6 DEF DeliveryInv, LossIsExplained
  <1> QED
    BY <1>8, <1>9, <1>10, <1>12, <1>13, <1>14, <1>15 DEF DeliveryInv

\* Taking one result out of the buffer, wherever it is, keeps DeliveryInv if
\* the cursor moves with it and whatever was freed is explained.
LEMMA DeliveryRemove ==
    ASSUME TypeOK, DeliveryInv, NEW p \in 1 .. Len(items),
           items' = Without(items, p),
           sent' = IF p <= sent THEN sent - 1 ELSE sent,
           UNCHANGED <<nextId, hand, mark, stream, up, down, late, durable,
                       rejected, failed, overtaken, top>>,
           freed' \subseteq Explained
    PROVE  DeliveryInv'
  <1> DEFINE n == Len(items)
             old(j) == IF j < p THEN j ELSE j + 1
  <1>1. n \in Nat /\ sent \in Nat /\ sent <= n
    BY DEF TypeOK, ProbeType, DeliveryInv, SentIsCovered
  <1>2. Len(items') = n - 1
    BY WithoutProperties DEF TypeOK, ProbeType
  <1>3. \A j \in 1 .. n - 1 : items'[j] = items[old(j)] /\ old(j) \in 1 .. n
    <2>1. \A j \in 1 .. n - 1 :
             Without(items, p)[j] = IF j < p THEN items[j] ELSE items[j + 1]
      BY WithoutProperties DEF TypeOK, ProbeType
    <2> QED
      BY <1>1, <2>1
  <1>4. \A j, k \in 1 .. n - 1 : j < k => old(j) < old(k)
    BY <1>1
  <1>5. \A j \in 1 .. sent' : j \in 1 .. n - 1 /\ old(j) \in 1 .. sent
    BY <1>1
  <1>6. Explained' = Explained
    BY DEF Explained, Settled
  <1> HIDE DEF old
  <1>7. IdsUnique'
    <2>1. /\ top' <= nextId'
          /\ \A v, w \in Emitters : v # w /\ hand'[v].id > 0 => hand'[v].id # hand'[w].id
      BY DEF DeliveryInv, IdsUnique
    <2>2. \A w \in Emitters :
          /\ hand'[w] = NoResult \/ hand'[w].id > 0
          /\ hand'[w].id <= nextId'
          /\ hand'[w].id > 0 => hand'[w].id # top'
          /\ \A i \in 1 .. Len(items') : items'[i].id # hand'[w].id
      BY <1>2, <1>3 DEF DeliveryInv, IdsUnique
    <2>3. \A i \in 1 .. Len(items') : items'[i].id > 0 /\ items'[i].id <= top'
      BY <1>2, <1>3 DEF DeliveryInv, IdsUnique
    <2>4. \A i, j \in 1 .. Len(items') : i # j => items'[i].id # items'[j].id
      <3> SUFFICES ASSUME NEW i \in 1 .. n - 1, NEW j \in 1 .. n - 1, i # j
                   PROVE  items'[i].id # items'[j].id
        BY <1>2
      <3>1. old(i) # old(j)
        BY <1>1 DEF old
      <3> QED
        BY <1>3, <3>1 DEF DeliveryInv, IdsUnique
    <2> QED
      BY <2>1, <2>2, <2>3, <2>4 DEF IdsUnique
  <1>8. OrderKept'
    BY <1>2, <1>3, <1>4 DEF DeliveryInv, OrderKept
  <1>9. WireKnown'
    BY DEF DeliveryInv, WireKnown
  <1>10. AcksSafe'
    BY <1>2, <1>3, <1>6 DEF DeliveryInv, AcksSafe, AckSafe
  <1>11. FramesSafe'
    <2> SUFFICES ASSUME NEW k \in 1 .. Len(up), NEW i \in 1 .. n - 1,
                        items'[i].id <= AckThrough(up[k])
                 PROVE  \/ items'[i].id \in Explained
                        \/ \E j \in 1 .. k : items'[i].id \in Ids(up[j])
      BY <1>2, <1>6, SMTT(60) DEF FramesSafe, AckThrough, Ids
    <2> QED
      BY <1>3 DEF DeliveryInv, FramesSafe
  <1>12. SentIsCovered'
    <2>1. sent' <= Len(items')
      BY <1>1, <1>2
    <2>2. (stream = "open" =>
             \A i \in 1 .. sent :
                OnWire(items[i].id) \/ items[i].id \in Explained)'
      <3> SUFFICES ASSUME stream = "open", NEW i \in 1 .. sent'
                   PROVE  \/ \E k \in 1 .. Len(up) : items'[i].id \in Ids(up[k])
                          \/ items'[i].id \in Explained
        BY <1>6, SMTT(60) DEF OnWire, Ids
      <3>1. items'[i] = items[old(i)] /\ old(i) \in 1 .. sent
        BY <1>3, <1>5
      <3> QED
        BY <3>1 DEF DeliveryInv, SentIsCovered, OnWire
    <2> QED
      BY <2>1, <2>2 DEF SentIsCovered
  <1>13. LossIsExplained'
    BY <1>6 DEF LossIsExplained
  <1> QED
    BY <1>7, <1>8, <1>9, <1>10, <1>11, <1>12, <1>13 DEF DeliveryInv

\* Shedding takes one result out and moves the cursor with it.
LEMMA DeliveryShed ==
    ASSUME TypeOK, DeliveryInv, ShedOne
    PROVE  DeliveryInv'
  <1>1. PICK i \in 1 .. Len(items) :
           items' = Without(items, i) /\ sent' = CursorAfterShed(i)
    BY DEF ShedOne
  <1>2. UNCHANGED <<nextId, hand, mark, stream, up, down, late, durable,
                    rejected, failed, overtaken, top, freed>>
    BY DEF ShedOne, streamVars, storeVars
  <1>3. freed \subseteq Explained
    BY DEF DeliveryInv, LossIsExplained
  <1> QED
    BY <1>1, <1>2, <1>3, DeliveryRemove DEF CursorAfterShed

\* One turn of Ack's loop takes the head out; it is at or below the mark, and
\* every mark is safe.
LEMMA DeliveryFree ==
    ASSUME TypeOK, DeliveryInv, FreeOne
    PROVE  DeliveryInv'
  <1>1. /\ items # <<>> /\ Head(items).id <= mark
        /\ items' = Tail(items)
        /\ sent' = IF sent > 0 THEN sent - 1 ELSE 0
        /\ freed' = freed \cup {Head(items).id}
        /\ UNCHANGED <<nextId, hand, mark, stream, up, down, late, durable,
                       rejected, failed, overtaken, top>>
    BY DEF FreeOne, Acked, CursorAfterFree, streamVars, storeVars
  <1>2. Head(items) = items[1] /\ 1 \in 1 .. Len(items)
    BY <1>1 DEF TypeOK, ProbeType
  <1>3. Tail(items) = Without(items, 1)
    <2>1. /\ Tail(items) \in Seq(Result) /\ Len(Tail(items)) = Len(items) - 1
          /\ \A j \in 1 .. Len(items) - 1 : Tail(items)[j] = items[j + 1]
      BY <1>1 DEF TypeOK, ProbeType
    <2>2. /\ Without(items, 1) \in Seq(Result)
          /\ Len(Without(items, 1)) = Len(items) - 1
          /\ \A j \in 1 .. Len(items) - 1 : Without(items, 1)[j] = items[j + 1]
      BY <1>2, WithoutProperties DEF TypeOK, ProbeType
    <2> QED
      BY <2>1, <2>2, SeqEqual
  <1>4. sent' = IF 1 <= sent THEN sent - 1 ELSE sent
    BY <1>1 DEF TypeOK, ProbeType
  <1>5. freed' \subseteq Explained
    BY <1>1, <1>2 DEF DeliveryInv, LossIsExplained, AcksSafe, AckSafe
  <1> QED
    BY <1>1, <1>2, <1>3, <1>4, <1>5, DeliveryRemove

\* An id in the buffer is positive and no larger than any id seen.
LEMMA ItemIds ==
    ASSUME TypeOK, DeliveryInv, NEW i \in 1 .. Len(items)
    PROVE  items[i].id \in Nat /\ items[i].id > 0 /\ items[i].id <= top
  BY ItemType DEF DeliveryInv, IdsUnique

\* A step that leaves the buffer's contents and the ids alone keeps the parts
\* of DeliveryInv that are only about them.
LEMMA DeliveryItems ==
    ASSUME DeliveryInv, UNCHANGED <<nextId, hand, items, overtaken, top>>
    PROVE  IdsUnique' /\ OrderKept'
  <1>1. IdsUnique'
    BY DEF DeliveryInv, IdsUnique
  <1>2. OrderKept'
    BY DEF DeliveryInv, OrderKept
  <1> QED
    BY <1>1, <1>2

\* Putting a frame on the wire keeps DeliveryInv if the results it newly covers
\* are in it, and if an acknowledgement of its last result reaches no further
\* than what was sent before, what is in it, and what is explained.
LEMMA DeliverySend ==
    ASSUME TypeOK, DeliveryInv, stream = "open",
           NEW f \in Seq(Nat), up' = Append(up, f),
           \A i \in 1 .. Len(f) : f[i] <= top,
           sent' \in Nat, sent' <= Len(items),
           \A i \in 1 .. sent' : i <= sent \/ items[i].id \in Ids(f),
           \A i \in 1 .. Len(items) :
              items[i].id <= AckThrough(f) =>
                 i <= sent \/ items[i].id \in Ids(f) \cup Explained,
           UNCHANGED <<nextId, hand, items, mark, stream, down, late, durable,
                       rejected, failed, freed, overtaken, top>>
    PROVE  DeliveryInv'
  <1> DEFINE m == Len(up)
  <1>1. /\ m \in Nat /\ Len(up') = m + 1 /\ up'[m + 1] = f
        /\ \A k \in 1 .. m : up'[k] = up[k]
    BY DEF TypeOK, StreamType
  <1>2. sent \in Nat /\ Len(items) \in Nat /\ sent <= Len(items)
    BY DEF TypeOK, ProbeType, DeliveryInv, SentIsCovered
  <1>3. Explained' = Explained
    BY DEF Explained, Settled
  <1>4. IdsUnique' /\ OrderKept'
    BY DeliveryItems
  <1>5. WireKnown'
    <2>1. \A k \in 1 .. Len(up') : \A i \in 1 .. Len(up'[k]) : up'[k][i] <= top'
      BY <1>1 DEF DeliveryInv, WireKnown
    <2>2. /\ \A k \in 1 .. Len(down') : down'[k] <= top'
          /\ \A t \in late' : t <= top'
          /\ mark' <= top'
      BY DEF DeliveryInv, WireKnown
    <2> QED
      BY <2>1, <2>2 DEF WireKnown
  <1>6. AcksSafe'
    BY <1>3 DEF DeliveryInv, AcksSafe, AckSafe
  <1>7. \A i \in 1 .. sent :
           items[i].id \in Explained \/ \E j \in 1 .. m : items[i].id \in Ids(up[j])
    BY DEF DeliveryInv, SentIsCovered, OnWire
  <1>8. FramesSafe'
    <2> SUFFICES ASSUME NEW k \in 1 .. m + 1, NEW i \in 1 .. Len(items),
                        items[i].id <= AckThrough(up'[k])
                 PROVE  \/ items[i].id \in Explained
                        \/ \E j \in 1 .. k : items[i].id \in Ids(up'[j])
      BY <1>1, <1>3 DEF FramesSafe
    <2>1. CASE k = m + 1
      <3>1. i <= sent \/ items[i].id \in Ids(f) \cup Explained
        BY <1>1, <2>1
      <3>2. CASE i <= sent
        <4>1. \/ items[i].id \in Explained
              \/ \E j \in 1 .. m : items[i].id \in Ids(up[j])
          BY <1>2, <1>7, <3>2
        <4> QED
          BY <1>1, <2>1, <4>1
      <3>3. CASE items[i].id \in Ids(f)
        BY <1>1, <2>1, <3>3
      <3> QED
        BY <3>1, <3>2, <3>3
    <2>2. CASE k # m + 1
      <3>1. k \in 1 .. m /\ up'[k] = up[k]
        BY <1>1, <2>2
      <3>2. \/ items[i].id \in Explained
            \/ \E j \in 1 .. k : items[i].id \in Ids(up[j])
        BY <3>1 DEF DeliveryInv, FramesSafe
      <3> QED
        BY <1>1, <3>1, <3>2
    <2> QED
      BY <2>1, <2>2
  <1>9. SentIsCovered'
    <2> SUFFICES ASSUME NEW i \in 1 .. sent'
                 PROVE  \/ \E k \in 1 .. m + 1 : items[i].id \in Ids(up'[k])
                        \/ items[i].id \in Explained
      BY <1>1, <1>3 DEF SentIsCovered, OnWire, Ids
    <2>1. CASE i <= sent
      <3>1. \/ items[i].id \in Explained
            \/ \E j \in 1 .. m : items[i].id \in Ids(up[j])
        BY <1>2, <1>7, <2>1
      <3> QED
        BY <1>1, <3>1
    <2>2. CASE items[i].id \in Ids(f)
      BY <1>1, <2>2, SMTT(60)
    <2> QED
      BY <2>1, <2>2
  <1>10. LossIsExplained'
    BY <1>3 DEF DeliveryInv, LossIsExplained
  <1> QED
    BY <1>4, <1>5, <1>6, <1>8, <1>9, <1>10 DEF DeliveryInv

\* Flush sends the items after the cursor.  An item after the batch with an id
\* at or below the batch's last was overtaken (OrderKept).
LEMMA DeliveryFlush ==
    ASSUME TypeOK, DeliveryInv, Flush
    PROVE  DeliveryInv'
  <1> DEFINE f == NextBatch
  <1>1. /\ stream = "open" /\ sent < Len(items)
        /\ up' = Append(up, f) /\ sent' = BatchEnd
        /\ UNCHANGED <<nextId, hand, items, mark, stream, down, late, durable,
                       rejected, failed, freed, overtaken, top>>
    BY DEF Flush, storeVars
  <1>2. /\ BatchEnd \in Nat /\ sent < BatchEnd /\ BatchEnd <= Len(items)
        /\ f \in Seq(Nat) /\ Len(f) = BatchEnd - sent
        /\ \A j \in 1 .. BatchEnd - sent : f[j] = items[sent + j].id
    BY <1>1, NextBatchProperties
  <1>3. sent \in Nat /\ Len(items) \in Nat
    BY DEF TypeOK, ProbeType
  <1> HIDE DEF f
  <1>4. \A j \in 1 .. Len(f) : f[j] <= top
    <2> TAKE j \in 1 .. Len(f)
    <2>1. sent + j \in 1 .. Len(items) /\ f[j] = items[sent + j].id
      BY <1>2, <1>3
    <2> QED
      BY <2>1, ItemIds
  <1>5. \A i \in 1 .. BatchEnd : i <= sent \/ items[i].id \in Ids(f)
    <2> SUFFICES ASSUME NEW i \in 1 .. BatchEnd, ~(i <= sent)
                 PROVE  items[i].id \in Ids(f)
      OBVIOUS
    <2>1. i - sent \in 1 .. Len(f) /\ sent + (i - sent) = i
      BY <1>2, <1>3
    <2>2. f[i - sent] = items[i].id
      BY <1>2, <2>1
    <2> QED
      BY <2>1, <2>2 DEF Ids
  <1>6. AckThrough(f) = items[BatchEnd].id
    <2>1. Len(f) \in 1 .. BatchEnd - sent /\ sent + Len(f) = BatchEnd /\ f # <<>>
      BY <1>2, <1>3
    <2> QED
      BY <1>2, <2>1 DEF AckThrough
  <1>7. ASSUME NEW i \in 1 .. Len(items), items[i].id <= AckThrough(f)
        PROVE  i <= sent \/ items[i].id \in Ids(f) \cup Explained
    <2>1. CASE i <= BatchEnd
      BY <1>2, <1>3, <1>5, <2>1
    <2>2. CASE i > BatchEnd
      <3>1. BatchEnd \in 1 .. Len(items) /\ BatchEnd < i /\ BatchEnd # i
        BY <1>2, <1>3, <2>2
      <3>2. items[i].id # items[BatchEnd].id
        BY <3>1 DEF DeliveryInv, IdsUnique
      <3>3. items[i].id < items[BatchEnd].id
        BY <1>6, <1>7, <3>1, <3>2, ItemIds
      <3> QED
        BY <3>1, <3>3 DEF DeliveryInv, OrderKept, Explained
    <2> QED
      BY <1>2, <1>3, <2>1, <2>2
  <1> QED
    BY <1>1, <1>2, <1>4, <1>5, <1>7, DeliverySend

\* A health frame carries nothing and acknowledges nothing.
LEMMA DeliveryHealth ==
    ASSUME TypeOK, DeliveryInv, SendHealth
    PROVE  DeliveryInv'
  <1> DEFINE f == <<>>
  <1>1. /\ stream = "open" /\ up' = Append(up, f)
        /\ UNCHANGED <<nextId, hand, items, sent, mark, stream, down, late,
                       durable, rejected, failed, freed, overtaken, top>>
    BY DEF SendHealth, bufferVars, storeVars, traceVars
  <1>2. f \in Seq(Nat) /\ Len(f) = 0 /\ AckThrough(f) = 0
    BY DEF AckThrough
  <1> HIDE DEF f
  <1>3. sent \in Nat /\ sent <= Len(items) /\ Len(items) \in Nat
    BY DEF TypeOK, ProbeType, DeliveryInv, SentIsCovered
  <1>4. \A i \in 1 .. Len(items) :
           items[i].id <= AckThrough(f) =>
              i <= sent \/ items[i].id \in Ids(f) \cup Explained
    BY <1>2, ItemIds
  <1>5. \A i \in 1 .. sent' : i <= sent \/ items[i].id \in Ids(f)
    BY <1>1, <1>3
  <1>6. \A i \in 1 .. Len(f) : f[i] <= top
    BY <1>2
  <1>7. sent' \in Nat /\ sent' <= Len(items)
    BY <1>1, <1>3
  <1> QED
    BY <1>1, <1>2, <1>4, <1>5, <1>6, <1>7, DeliverySend

\* A step that only moves acknowledgements between the wire, a receiver and
\* Ack keeps DeliveryInv: every mark it leaves was safe before, or is zero.
LEMMA DeliveryMarks ==
    ASSUME TypeOK, DeliveryInv,
           mark' \in {0, mark} \cup late \cup {down[k] : k \in 1 .. Len(down)},
           late' \subseteq late,
           \A k \in 1 .. Len(down') : \E j \in 1 .. Len(down) : down'[k] = down[j],
           stream' = "closed" => down' = down,
           UNCHANGED <<nextId, hand, items, sent, stream, up, durable,
                       rejected, failed, freed, overtaken, top>>
    PROVE  DeliveryInv'
  <1>1. Explained' = Explained
    BY DEF Explained, Settled
  <1>2. IdsUnique' /\ OrderKept'
    BY DeliveryItems
  <1>3. AckSafe(0) /\ 0 <= top
    BY ItemIds DEF AckSafe, TypeOK, TraceType
  <1>4. AckSafe(mark') /\ mark' <= top
    BY <1>3 DEF DeliveryInv, AcksSafe, WireKnown
  <1>5. \A t \in late' : AckSafe(t) /\ t <= top
    BY DEF DeliveryInv, AcksSafe, WireKnown
  <1>6. \A k \in 1 .. Len(down') : AckSafe(down'[k]) /\ down'[k] <= top
    BY DEF DeliveryInv, AcksSafe, WireKnown
  <1>7. WireKnown'
    BY <1>4, <1>5, <1>6 DEF DeliveryInv, WireKnown
  <1>8. AcksSafe'
    BY <1>1, <1>4, <1>5, <1>6 DEF AcksSafe, AckSafe
  <1>9. FramesSafe'
    BY <1>1 DEF DeliveryInv, FramesSafe, AckThrough, Ids
  <1>10. SentIsCovered'
    BY <1>1 DEF DeliveryInv, SentIsCovered, OnWire, Ids
  <1>11. LossIsExplained'
    BY <1>1 DEF DeliveryInv, LossIsExplained
  <1> QED
    BY <1>2, <1>7, <1>8, <1>9, <1>10, <1>11 DEF DeliveryInv

\* A receiver takes an acknowledgement off the wire and starts an Ack.
LEMMA DeliveryReceiveAck ==
    ASSUME TypeOK, DeliveryInv, ReceiveAck
    PROVE  DeliveryInv'
  <1>1. /\ stream = "open" /\ down # <<>> /\ down' = Tail(down)
        /\ mark' \in {mark, Head(down)}
        /\ UNCHANGED <<nextId, hand, items, sent, stream, up, late, durable,
                       rejected, failed, freed, overtaken, top>>
    BY DEF ReceiveAck, storeVars, traceVars
  <1>2. /\ Len(down) \in Nat /\ 1 \in 1 .. Len(down) /\ Head(down) = down[1]
        /\ \A k \in 1 .. Len(down') : k + 1 \in 1 .. Len(down) /\ down'[k] = down[k + 1]
    BY <1>1 DEF TypeOK, StreamType
  <1>3. mark' \in {0, mark} \cup late \cup {down[k] : k \in 1 .. Len(down)}
    BY <1>1, <1>2
  <1> QED
    BY <1>1, <1>2, <1>3, DeliveryMarks

\* The receiver of a stream that dropped starts an Ack with a mark it held.
LEMMA DeliveryReceiveLateAck ==
    ASSUME TypeOK, DeliveryInv, ReceiveLateAck
    PROVE  DeliveryInv'
  <1>1. /\ mark' \in late /\ late' \subseteq late
        /\ UNCHANGED <<nextId, hand, items, sent, stream, up, down, durable,
                       rejected, failed, freed, overtaken, top>>
    BY DEF ReceiveLateAck, storeVars, traceVars
  <1> QED
    BY <1>1, DeliveryMarks

\* Ack returns and its mark is forgotten.
LEMMA DeliveryAckReturns ==
    ASSUME TypeOK, DeliveryInv, AckReturns
    PROVE  DeliveryInv'
  <1>1. /\ mark' = 0
        /\ UNCHANGED <<nextId, hand, items, sent, stream, up, down, late,
                       durable, rejected, failed, freed, overtaken, top>>
    BY DEF AckReturns, streamVars, storeVars, traceVars
  <1> QED
    BY <1>1, DeliveryMarks

\* The oldest frame leaves the wire with every result of it explained.  What
\* it acknowledges is now safe, and every later frame needs one frame less.
LEMMA DeliverySettle ==
    ASSUME TypeOK, DeliveryInv, stream = "open", up # <<>>, up' = Tail(up),
           NEW t \in Nat, t \in {0, AckThrough(Head(up))},
           down' = Append(down, t),
           Explained \cup Ids(Head(up)) \subseteq Explained',
           UNCHANGED <<nextId, hand, items, sent, mark, stream, late, freed,
                       overtaken, top>>
    PROVE  DeliveryInv'
  <1> DEFINE m == Len(up)
  <1>1. /\ m \in Nat /\ 1 \in 1 .. m /\ Head(up) = up[1] /\ up[1] \in Seq(Nat)
        /\ Len(up') = m - 1
        /\ \A k \in 1 .. m - 1 : k + 1 \in 1 .. m /\ up'[k] = up[k + 1]
    BY DEF TypeOK, StreamType
  <1>2. /\ Len(down) \in Nat /\ Len(down') = Len(down) + 1
        /\ down'[Len(down) + 1] = t
        /\ \A k \in 1 .. Len(down) : down'[k] = down[k]
    BY DEF TypeOK, StreamType
  <1>3. IdsUnique' /\ OrderKept'
    BY DeliveryItems
  <1>4. AckThrough(Head(up)) \in Nat /\ AckThrough(Head(up)) <= top
    <2>1. CASE up[1] = <<>>
      BY <1>1, <2>1 DEF AckThrough, TypeOK, TraceType
    <2>2. CASE up[1] # <<>>
      <3>1. Len(up[1]) \in 1 .. Len(up[1]) /\ up[1][Len(up[1])] \in Nat
        BY <1>1, <2>2
      <3> QED
        BY <1>1, <2>2, <3>1 DEF AckThrough, DeliveryInv, WireKnown
    <2> QED
      BY <2>1, <2>2
  <1>5. t <= top
    BY <1>4 DEF TypeOK, TraceType
  <1>6. WireKnown'
    <2>1. \A k \in 1 .. Len(up') : \A i \in 1 .. Len(up'[k]) : up'[k][i] <= top'
      BY <1>1 DEF DeliveryInv, WireKnown
    <2>2. \A k \in 1 .. Len(down') : down'[k] <= top'
      BY <1>2, <1>5 DEF DeliveryInv, WireKnown
    <2>3. (\A x \in late' : x <= top') /\ mark' <= top'
      BY DEF DeliveryInv, WireKnown
    <2> QED
      BY <2>1, <2>2, <2>3 DEF WireKnown
  <1>7. \A i \in 1 .. Len(items) : items[i].id <= t => items[i].id \in Explained'
    <2> SUFFICES ASSUME NEW i \in 1 .. Len(items), items[i].id <= t
                 PROVE  items[i].id \in Explained'
      OBVIOUS
    <2>1. t # 0
      BY ItemIds
    <2>2. \/ items[i].id \in Explained
          \/ \E j \in 1 .. 1 : items[i].id \in Ids(up[j])
      BY <1>1, <2>1 DEF DeliveryInv, FramesSafe
    <2> QED
      BY <1>1, <2>2
  <1>8. AcksSafe'
    <2>1. \A x : AckSafe(x) => \A i \in 1 .. Len(items) :
                      items[i].id <= x => items[i].id \in Explained'
      BY DEF AckSafe
    <2>2. AckSafe(mark)'
      BY <2>1 DEF DeliveryInv, AcksSafe, AckSafe
    <2>3. \A x \in late' : AckSafe(x)'
      BY <2>1 DEF DeliveryInv, AcksSafe, AckSafe
    <2>4. \A k \in 1 .. Len(down') : AckSafe(down[k])'
      BY <1>2, <1>7, <2>1 DEF DeliveryInv, AcksSafe, AckSafe
    <2> QED
      BY <2>2, <2>3, <2>4 DEF AcksSafe
  <1>9. FramesSafe'
    <2> SUFFICES ASSUME NEW k \in 1 .. m - 1, NEW i \in 1 .. Len(items),
                        items[i].id <= AckThrough(up'[k]),
                        items[i].id \notin Explained'
                 PROVE  \E j \in 1 .. k : items[i].id \in Ids(up'[j])
      BY <1>1 DEF FramesSafe
    <2>1. items[i].id \notin Explained /\ items[i].id \notin Ids(up[1])
      BY <1>1
    <2>2. PICK j \in 1 .. k + 1 : items[i].id \in Ids(up[j])
      BY <1>1, <2>1 DEF DeliveryInv, FramesSafe
    <2>3. j - 1 \in 1 .. k /\ up'[j - 1] = up[j]
      BY <1>1, <2>1, <2>2
    <2> QED
      BY <2>2, <2>3
  <1>10. SentIsCovered'
    <2> SUFFICES ASSUME NEW i \in 1 .. sent, items[i].id \notin Explained'
                 PROVE  \E k \in 1 .. m - 1 : items[i].id \in Ids(up'[k])
      BY <1>1 DEF SentIsCovered, OnWire, DeliveryInv
    <2>1. items[i].id \notin Explained /\ items[i].id \notin Ids(up[1])
      BY <1>1
    <2>2. PICK j \in 1 .. m : items[i].id \in Ids(up[j])
      BY <2>1 DEF DeliveryInv, SentIsCovered, OnWire
    <2>3. j - 1 \in 1 .. m - 1 /\ up'[j - 1] = up[j]
      BY <1>1, <2>1, <2>2
    <2> QED
      BY <2>2, <2>3
  <1>11. LossIsExplained'
    BY DEF DeliveryInv, LossIsExplained
  <1> QED
    BY <1>3, <1>6, <1>8, <1>9, <1>10, <1>11 DEF DeliveryInv

\* A batch that was ingested is stored or refused.
LEMMA DeliveryIngest ==
    ASSUME TypeOK, DeliveryInv, IngestBatch
    PROVE  DeliveryInv'
  <1> DEFINE t == AckThrough(Head(up))
  <1>1. /\ stream = "open" /\ up # <<>> /\ up' = Tail(up)
        /\ down' = Append(down, t)
        /\ durable \cup rejected \cup Ids(Head(up)) \subseteq durable' \cup rejected'
        /\ UNCHANGED <<nextId, hand, items, sent, mark, stream, late, freed,
                       failed, overtaken, top>>
    BY DEF IngestBatch, bufferVars, traceVars
  <1>2. Explained \cup Ids(Head(up)) \subseteq Explained'
    BY <1>1 DEF Explained, Settled
  <1>3. t \in Nat
    BY <1>1 DEF AckThrough, TypeOK, StreamType
  <1> QED
    BY <1>1, <1>2, <1>3, DeliverySettle

\* A batch whose ingest failed is explained by that.
LEMMA DeliveryIngestFails ==
    ASSUME TypeOK, DeliveryInv, IngestFails
    PROVE  DeliveryInv'
  <1>1. /\ stream = "open" /\ up # <<>> /\ up' = Tail(up)
        /\ down' = Append(down, 0)
        /\ durable \subseteq durable' /\ rejected' = rejected
        /\ failed' = failed \cup Ids(Head(up))
        /\ UNCHANGED <<nextId, hand, items, sent, mark, stream, late, freed,
                       overtaken, top>>
    BY DEF IngestFails, bufferVars, traceVars
  <1>2. Explained \cup Ids(Head(up)) \subseteq Explained'
    BY <1>1 DEF Explained, Settled
  <1> QED
    BY <1>1, <1>2, DeliverySettle

\* A dropped stream empties the wire; the marks its receiver keeps were safe.
LEMMA DeliveryDrop ==
    ASSUME TypeOK, DeliveryInv, DropStream
    PROVE  DeliveryInv'
  <1>1. /\ stream' = "closed" /\ up' = <<>> /\ down' = <<>>
        /\ UNCHANGED <<nextId, hand, items, sent, mark, durable, rejected,
                       failed, freed, overtaken, top>>
    BY DEF DropStream, bufferVars, storeVars, traceVars
  <1>2. late' \subseteq late \cup {down[i] : i \in 1 .. Len(down)}
    <2>1. PICK k \in 0 .. Len(down) :
             late' = late \cup ({down[i] : i \in 1 .. k} \ {0})
      BY DEF DropStream
    <2>2. \A i \in 1 .. k : i \in 1 .. Len(down)
      BY DEF TypeOK, StreamType
    <2> QED
      BY <2>1, <2>2
  <1>3. Explained' = Explained
    BY <1>1 DEF Explained, Settled
  <1>4. IdsUnique' /\ OrderKept'
    BY <1>1, DeliveryItems
  <1>5. \A t \in late' : AckSafe(t) /\ t <= top
    BY <1>2 DEF DeliveryInv, AcksSafe, WireKnown
  <1>6. Len(up') = 0 /\ Len(down') = 0
    BY <1>1
  <1>7. WireKnown'
    BY <1>1, <1>5, <1>6 DEF DeliveryInv, WireKnown
  <1>8. AcksSafe'
    BY <1>1, <1>3, <1>5, <1>6 DEF DeliveryInv, AcksSafe, AckSafe
  <1>9. FramesSafe'
    BY <1>6 DEF FramesSafe
  <1>10. SentIsCovered' /\ LossIsExplained'
    BY <1>1, <1>3 DEF DeliveryInv, SentIsCovered, LossIsExplained
  <1> QED
    BY <1>4, <1>7, <1>8, <1>9, <1>10 DEF DeliveryInv

\* A new stream starts with nothing sent.
LEMMA DeliveryOpen ==
    ASSUME TypeOK, DeliveryInv, OpenStream
    PROVE  DeliveryInv'
  <1>1. /\ stream' = "open" /\ sent' = 0
        /\ UNCHANGED <<nextId, hand, items, mark, up, down, late, durable,
                       rejected, failed, freed, overtaken, top>>
    BY DEF OpenStream, storeVars, traceVars
  <1>2. Explained' = Explained
    BY <1>1 DEF Explained, Settled
  <1>3. IdsUnique' /\ OrderKept'
    BY <1>1, DeliveryItems
  <1>4. WireKnown'
    BY <1>1 DEF DeliveryInv, WireKnown
  <1>5. AcksSafe'
    BY <1>1, <1>2 DEF DeliveryInv, AcksSafe, AckSafe
  <1>6. FramesSafe'
    BY <1>1, <1>2 DEF DeliveryInv, FramesSafe, AckThrough, Ids
  <1>7. SentIsCovered'
    BY <1>1 DEF SentIsCovered, TypeOK, ProbeType
  <1>8. LossIsExplained'
    BY <1>1, <1>2 DEF DeliveryInv, LossIsExplained
  <1> QED
    BY <1>3, <1>4, <1>5, <1>6, <1>7, <1>8 DEF DeliveryInv

\* DeliveryInv is inductive, whatever the number of emitters, the bounds of the
\* buffer and the number of drops and failed ingests.
THEOREM DeliveryCorrect == Spec => []DeliveryInv
  <1>1. TypeOK /\ DeliveryInv /\ [Next]_vars => DeliveryInv'
    <2> SUFFICES ASSUME TypeOK, DeliveryInv, [Next]_vars PROVE DeliveryInv'
      OBVIOUS
    <2>1. ASSUME NEW w \in Emitters, Emit(w) PROVE DeliveryInv'
      BY <2>1, DeliveryEmit
    <2>2. ASSUME NEW w \in Emitters, AppendResult(w) PROVE DeliveryInv'
      BY <2>2, DeliveryAppend
    <2>3. CASE AddReturns
      <3>1. Explained \subseteq Explained'
        BY <2>3 DEF AddReturns, storeVars, traceVars, Explained, Settled
      <3> QED
        BY <2>3, <3>1, DeliveryStable DEF AddReturns, streamVars, traceVars
    <2>4. CASE StrayIngest
      <3>1. Explained \subseteq Explained'
        BY <2>4 DEF StrayIngest, traceVars, Explained, Settled
      <3> QED
        BY <2>4, <3>1, DeliveryStable DEF StrayIngest, bufferVars, traceVars
    <2>5. CASE UNCHANGED vars
      <3>1. Explained \subseteq Explained'
        BY <2>5 DEF vars, storeVars, traceVars, Explained, Settled
      <3> QED
        BY <2>5, <3>1, DeliveryStable
        DEF vars, bufferVars, streamVars, traceVars
    <2> QED
      BY <2>1, <2>2, <2>3, <2>4, <2>5, DeliveryShed, DeliveryFree, DeliveryOpen,
         DeliveryFlush, DeliveryHealth, DeliveryReceiveAck,
         DeliveryReceiveLateAck, DeliveryAckReturns, DeliveryIngest,
         DeliveryIngestFails, DeliveryDrop DEF Next
  <1> QED
    BY <1>1, DeliveryInit, TypeCorrect, PTL DEF Spec

\* Ack never frees a result that is not stored or refused unless its batch
\* failed to ingest or a larger id entered the buffer before it.
THEOREM LossExplained == Spec => []LossIsExplained
  <1>1. DeliveryInv => LossIsExplained
    BY DEF DeliveryInv
  <1> QED
    BY <1>1, DeliveryCorrect, PTL

\* What Buffer.sent covers on an open stream is on the wire or explained.
THEOREM SentCovered == Spec => []SentIsCovered
  <1>1. DeliveryInv => SentIsCovered
    BY DEF DeliveryInv
  <1> QED
    BY <1>1, DeliveryCorrect, PTL

-----------------------------------------------------------------------------
(* The refinement.  With one emitter nothing is overtaken, and where no       *)
(* ingest fails no batch is: what DeliveryInv explains is then settled.       *)

OneEmitter == \A v, w \in Emitters : v = w

NothingLost == overtaken = {} /\ failed = {}

\* What the one emitter has in hand is newer than all that was in the buffer.
HandIsNewest == \A w \in Emitters : hand[w] # NoResult => hand[w].id > top

\* The ids of changed outcomes were given out, and their results say so.
ChangesKnown ==
    /\ changed \subseteq 1 .. nextId
    /\ \A w \in Emitters : hand[w].id \in changed => hand[w].changed
    /\ \A i \in 1 .. Len(items) : items[i].id \in changed => items[i].changed

\* What is in a frame, on the wire or with an old handler, was given out.
FramesKnown ==
    /\ \A k \in 1 .. Len(up) : Ids(up[k]) \subseteq 1 .. nextId
    /\ \A f \in stray : Ids(f) \subseteq 1 .. nextId

OutboxInv == NothingLost /\ HandIsNewest /\ ChangesKnown /\ FramesKnown

\* A step that gives out no id, takes up no result and puts no frame on the wire.
LEMMA OutboxFrame ==
    ASSUME TypeOK, OutboxInv, UNCHANGED <<nextId, hand, changed, overtaken, top, failed>>,
           \A i \in 1 .. Len(items') : \E j \in 1 .. Len(items) : items'[i] = items[j],
           \A k \in 1 .. Len(up') : up'[k] = <<>> \/ \E l \in 1 .. Len(up) : up'[k] = up[l],
           \A f \in stray' : f \in stray \/ \E l \in 1 .. Len(up) : f = up[l]
    PROVE  OutboxInv'
  <1>1. NothingLost' /\ HandIsNewest'
    BY DEF OutboxInv, NothingLost, HandIsNewest
  <1>2. ChangesKnown'
    BY DEF OutboxInv, ChangesKnown
  <1>3. Ids(<<>>) = {}
    BY DEF Ids
  <1>4. /\ \A k \in 1 .. Len(up') : Ids(up'[k]) \subseteq 1 .. nextId
        /\ \A f \in stray' : Ids(f) \subseteq 1 .. nextId
    BY <1>3 DEF OutboxInv, FramesKnown
  <1>5. FramesKnown'
    BY <1>4 DEF FramesKnown, Ids
  <1> QED
    BY <1>1, <1>2, <1>5 DEF OutboxInv

LEMMA OutboxEmit ==
    ASSUME OneEmitter, TypeOK, DeliveryInv, OutboxInv, NEW w \in Emitters, Emit(w)
    PROVE  OutboxInv' /\ Outbox!Produce
  <1>1. PICK c \in BOOLEAN, s \in Sizes :
          /\ hand' = [hand EXCEPT ![w] = [id |-> nextId + 1, changed |-> c, size |-> s]]
          /\ changed' = IF c THEN changed \cup {nextId + 1} ELSE changed
    BY DEF Emit
  <1>2. /\ hand[w] = NoResult /\ nextId < MaxResults /\ nextId' = nextId + 1
        /\ UNCHANGED <<items, up, stray, durable, rejected, failed, overtaken, top>>
    BY DEF Emit, bufferVars, streamVars, storeVars
  <1>3. /\ nextId \in Nat /\ changed \subseteq 1 .. nextId /\ nextId + 1 \notin changed
        /\ top <= nextId /\ top \in Nat /\ hand \in [Emitters -> Result]
        /\ 1 .. nextId + 1 = (1 .. nextId) \cup {nextId + 1}
    BY DEF TypeOK, ProbeType, TraceType, OutboxInv, ChangesKnown, DeliveryInv, IdsUnique
  <1>4. /\ hand'[w].id = nextId + 1 /\ hand'[w].changed = c
        /\ \A v \in Emitters : v # w => hand'[v] = hand[v]
    BY <1>1, <1>3
  <1>5. \A i \in 1 .. Len(items) : items[i].id \in Nat /\ items[i].id <= nextId
    BY <1>3, ItemIds
  <1>6. \A v \in Emitters : hand[v].id \in Nat /\ hand[v].id <= nextId
    BY <1>3 DEF Result, DeliveryInv, IdsUnique
  <1>7. NothingLost' /\ HandIsNewest'
    BY <1>2, <1>3, <1>4 DEF OneEmitter, OutboxInv, NothingLost, HandIsNewest
  <1>8. ChangesKnown'
    <2>1. changed' \subseteq changed \cup {nextId + 1} /\ (nextId + 1 \in changed' => c)
      BY <1>1, <1>3
    <2>2. changed' \subseteq 1 .. nextId'
      BY <1>2, <1>3, <2>1
    <2>3. ASSUME NEW v \in Emitters, hand'[v].id \in changed' PROVE hand'[v].changed
      BY <1>3, <1>4, <1>6, <2>1, <2>3 DEF OutboxInv, ChangesKnown
    <2>4. ASSUME NEW i \in 1 .. Len(items), items[i].id \in changed' PROVE items[i].changed
      <3>1. items[i].id # nextId + 1
        BY <1>3, <1>5
      <3> QED
        BY <2>1, <2>4, <3>1 DEF OutboxInv, ChangesKnown
    <2> QED
      BY <1>2, <2>2, <2>3, <2>4 DEF ChangesKnown
  <1>9. FramesKnown'
    <2>1. /\ \A k \in 1 .. Len(up) : Ids(up[k]) \subseteq 1 .. nextId + 1
          /\ \A f \in stray : Ids(f) \subseteq 1 .. nextId + 1
      BY <1>3 DEF OutboxInv, FramesKnown
    <2> QED
      BY <1>2, <2>1 DEF FramesKnown, Ids
  <1>10. Waiting' = Waiting \cup {nextId + 1}
    <2>1. \A n \in 1 .. nextId + 1 :
             (\E v \in Emitters : hand'[v].id = n)
               <=> n = nextId + 1 \/ \E v \in Emitters : hand[v].id = n
      BY <1>2, <1>3, <1>4, <1>6 DEF NoResult
    <2>2. Buffered' = Buffered
      BY <1>2 DEF Buffered
    <2> QED
      BY <1>2, <1>3, <2>1, <2>2 DEF Waiting
  <1>11. nextId + 1 \in (1 .. MaxResults) \ (1 .. nextId)
    BY <1>2, <1>3, ConstantsAssumption
  <1>12. changed' \in {changed, changed \cup {nextId + 1}}
    BY <1>1
  <1> QED
    BY <1>2, <1>3, <1>7, <1>8, <1>9, <1>10, <1>11, <1>12 DEF OutboxInv, Outbox!Produce

LEMMA OutboxAppend ==
    ASSUME OneEmitter, TypeOK, DeliveryInv, OutboxInv, NEW w \in Emitters, AppendResult(w)
    PROVE  OutboxInv' /\ Waiting' = Waiting
  <1>1. /\ hand[w] # NoResult /\ hand' = [hand EXCEPT ![w] = NoResult]
        /\ items' = Append(items, hand[w])
        /\ overtaken' = IF hand[w].id < top THEN overtaken \cup {hand[w].id} ELSE overtaken
        /\ UNCHANGED <<nextId, up, stray, failed, changed>>
    BY DEF AppendResult, streamVars, storeVars
  <1>2. /\ hand \in [Emitters -> Result] /\ hand[w].id \in Nat /\ items \in Seq(Result)
        /\ top \in Nat /\ nextId \in Nat /\ hand[w].id > top
    BY <1>1 DEF TypeOK, ProbeType, TraceType, Result, OutboxInv, HandIsNewest
  <1>3. /\ Len(items') = Len(items) + 1
        /\ \A i \in 1 .. Len(items) : items'[i] = items[i]
        /\ items'[Len(items) + 1] = hand[w]
    BY <1>1, <1>2
  <1>4. \A v \in Emitters : hand'[v] = NoResult
    BY <1>1, <1>2 DEF OneEmitter
  <1>5. NothingLost' /\ HandIsNewest'
    BY <1>1, <1>2, <1>4 DEF OutboxInv, NothingLost, HandIsNewest
  <1>6. ChangesKnown'
    <2>1. 0 \notin changed
      BY DEF OutboxInv, ChangesKnown
    <2> QED
      BY <1>1, <1>2, <1>3, <1>4, <2>1 DEF OutboxInv, ChangesKnown, NoResult
  <1>7. FramesKnown'
    BY <1>1 DEF OutboxInv, FramesKnown, Ids
  <1>8. Buffered' = Buffered \cup {hand[w].id}
    BY <1>2, <1>3 DEF Buffered
  <1>9. \A n \in 1 .. nextId : (\E v \in Emitters : hand[v].id = n) <=> hand[w].id = n
    BY DEF OneEmitter
  <1>10. \A n \in 1 .. nextId : ~ \E v \in Emitters : hand'[v].id = n
    BY <1>4 DEF NoResult
  <1> QED
    BY <1>1, <1>5, <1>6, <1>7, <1>8, <1>9, <1>10 DEF OutboxInv, Waiting

\* Taking one result out of the buffer takes it out of what the probe holds.
LEMMA WaitingRemoved ==
    ASSUME TypeOK, DeliveryInv, NEW p \in 1 .. Len(items), items' = Without(items, p),
           UNCHANGED <<nextId, hand>>
    PROVE  /\ items[p].id \in Waiting /\ Waiting' = Waiting \ {items[p].id}
           /\ \A i \in 1 .. Len(items') : \E j \in 1 .. Len(items) : items'[i] = items[j]
  <1>1. /\ Len(items') = Len(items) - 1 /\ Len(items) \in Nat /\ p \in Nat
        /\ \A j \in 1 .. Len(items) - 1 : items'[j] = IF j < p THEN items[j] ELSE items[j + 1]
    <2>1. items \in Seq(Result)
      BY DEF TypeOK, ProbeType
    <2>2. /\ Len(Without(items, p)) = Len(items) - 1
          /\ \A j \in 1 .. Len(items) - 1 :
                Without(items, p)[j] = IF j < p THEN items[j] ELSE items[j + 1]
      BY <2>1, WithoutProperties
    <2> QED
      BY <2>1, <2>2
  <1>2. /\ \A i, j \in 1 .. Len(items) : i # j => items[i].id # items[j].id
        /\ \A w \in Emitters : items[p].id # hand[w].id
        /\ top <= nextId /\ nextId \in Nat /\ top \in Nat
    BY DEF DeliveryInv, IdsUnique, TypeOK, ProbeType, TraceType
  <1>3. Buffered' = Buffered \ {items[p].id}
    <2>1. ASSUME NEW i \in 1 .. Len(items) - 1
          PROVE  \E j \in 1 .. Len(items) : j # p /\ items'[i] = items[j]
      <3>1. CASE i < p
        BY <1>1, <3>1
      <3>2. CASE ~ (i < p)
        <4>1. i + 1 \in 1 .. Len(items) /\ i + 1 # p /\ items'[i] = items[i + 1]
          BY <1>1, <3>2
        <4> QED
          BY <4>1
      <3> QED
        BY <3>1, <3>2
    <2>2. ASSUME NEW j \in 1 .. Len(items), j # p
          PROVE  \E i \in 1 .. Len(items) - 1 : items'[i] = items[j]
      <3>1. CASE j < p
        BY <1>1, <3>1
      <3>2. CASE ~ (j < p)
        <4>1. j - 1 \in 1 .. Len(items) - 1 /\ ~ (j - 1 < p) /\ j - 1 + 1 = j
          BY <1>1, <2>2, <3>2
        <4> QED
          BY <1>1, <4>1
      <3> QED
        BY <3>1, <3>2
    <2>3. \A n : n \in Buffered' <=> \E i \in 1 .. Len(items) - 1 : items'[i].id = n
      BY <1>1 DEF Buffered
    <2>4. \A n : n \in Buffered <=> \E j \in 1 .. Len(items) : items[j].id = n
      BY DEF Buffered
    <2>5. ASSUME NEW n, n \in Buffered' PROVE n \in Buffered /\ n # items[p].id
      BY <1>2, <2>1, <2>3, <2>4, <2>5
    <2>6. ASSUME NEW n, n \in Buffered, n # items[p].id PROVE n \in Buffered'
      BY <2>2, <2>3, <2>4, <2>6
    <2> QED
      BY <2>5, <2>6
  <1>4. items[p].id \in Buffered /\ items[p].id \in 1 .. nextId
    BY <1>2, ItemIds DEF Buffered
  <1>5. \A i \in 1 .. Len(items') : \E j \in 1 .. Len(items) : items'[i] = items[j]
    BY <1>1
  <1> QED
    BY <1>2, <1>3, <1>4, <1>5 DEF Waiting

LEMMA OutboxShed ==
    ASSUME TypeOK, DeliveryInv, OutboxInv, ShedOne
    PROVE  OutboxInv' /\ Outbox!GiveUp
  <1>1. PICK i \in 1 .. Len(items) : Sheddable(items[i]) /\ items' = Without(items, i)
    BY DEF ShedOne
  <1>2. UNCHANGED <<nextId, hand, up, stray, durable, rejected, failed, changed, overtaken, top>>
    BY DEF ShedOne, streamVars, storeVars
  <1>3. /\ items[i].id \in Waiting /\ Waiting' = Waiting \ {items[i].id}
        /\ \A j \in 1 .. Len(items') : \E k \in 1 .. Len(items) : items'[j] = items[k]
    BY <1>1, <1>2, WaitingRemoved
  <1>4. OutboxInv'
    BY <1>2, <1>3, OutboxFrame
  <1>5. items[i].id \notin changed
    BY <1>1 DEF Sheddable, OutboxInv, ChangesKnown
  <1> QED
    BY <1>2, <1>3, <1>4, <1>5 DEF Outbox!GiveUp

\* What an Ack frees is explained, and so, with one emitter and no failed batch,
\* stored or refused.
LEMMA OutboxFree ==
    ASSUME TypeOK, DeliveryInv, OutboxInv, FreeOne
    PROVE  OutboxInv' /\ Outbox!Release
  <1>1. /\ items # <<>> /\ items' = Tail(items) /\ freed' = freed \cup {Head(items).id}
        /\ UNCHANGED <<nextId, hand, up, stray, durable, rejected, failed, changed, overtaken, top>>
    BY DEF FreeOne, streamVars, storeVars
  <1>2. items \in Seq(Result) /\ Head(items) = items[1] /\ 1 \in 1 .. Len(items)
    BY <1>1 DEF TypeOK, ProbeType
  <1>3. items' = Without(items, 1)
    <2>1. /\ Tail(items) \in Seq(Result) /\ Len(Tail(items)) = Len(items) - 1
          /\ \A j \in 1 .. Len(items) - 1 : Tail(items)[j] = items[j + 1]
      BY <1>1, <1>2
    <2>2. /\ Without(items, 1) \in Seq(Result)
          /\ Len(Without(items, 1)) = Len(items) - 1
          /\ \A j \in 1 .. Len(items) - 1 : Without(items, 1)[j] = items[j + 1]
      BY <1>2, WithoutProperties
    <2> QED
      BY <1>1, <2>1, <2>2, SeqEqual
  <1>4. /\ items[1].id \in Waiting /\ Waiting' = Waiting \ {items[1].id}
        /\ \A j \in 1 .. Len(items') : \E k \in 1 .. Len(items) : items'[j] = items[k]
    BY <1>1, <1>2, <1>3, WaitingRemoved
  <1>5. OutboxInv'
    BY <1>1, <1>4, OutboxFrame
  <1>6. items[1].id \in durable \cup rejected
    <2>1. freed' \subseteq Explained'
      BY DeliveryFree DEF DeliveryInv, LossIsExplained
    <2> QED
      BY <1>1, <1>2, <2>1 DEF Explained, Settled, OutboxInv, NothingLost
  <1> QED
    BY <1>1, <1>4, <1>5, <1>6 DEF Outbox!Release

\* Next puts results of the buffer on the wire, whose ids were given out.
LEMMA OutboxFlush ==
    ASSUME TypeOK, DeliveryInv, OutboxInv, Flush
    PROVE  OutboxInv' /\ Waiting' = Waiting
  <1>1. /\ sent < Len(items) /\ up' = Append(up, NextBatch)
        /\ UNCHANGED <<nextId, hand, items, stray, failed, changed, overtaken, top>>
    BY DEF Flush, storeVars
  <1>2. /\ up \in Seq(Seq(Nat)) /\ NextBatch \in Seq(Nat) /\ sent \in Nat /\ nextId \in Nat
        /\ top \in Nat /\ top <= nextId /\ Len(items) \in Nat
    BY <1>1, NextBatchProperties
    DEF TypeOK, StreamType, ProbeType, TraceType, DeliveryInv, IdsUnique
  <1>3. Ids(NextBatch) \subseteq 1 .. nextId
    <2> SUFFICES ASSUME NEW j \in 1 .. Len(NextBatch) PROVE NextBatch[j] \in 1 .. nextId
      BY DEF Ids
    <2>1. /\ NextBatch[j] = items[sent + j].id /\ sent + j \in 1 .. Len(items)
      BY <1>1, <1>2, NextBatchProperties
    <2> QED
      BY <1>2, <2>1, ItemIds
  <1>4. \A k \in 1 .. Len(up') : up'[k] = NextBatch \/ \E l \in 1 .. Len(up) : up'[k] = up[l]
    BY <1>1, <1>2
  <1>5. \A k \in 1 .. Len(up') : Ids(up'[k]) \subseteq 1 .. nextId
    BY <1>3, <1>4 DEF OutboxInv, FramesKnown
  <1>6. FramesKnown'
    BY <1>1, <1>5 DEF OutboxInv, FramesKnown, Ids
  <1>7. NothingLost' /\ HandIsNewest' /\ ChangesKnown'
    BY <1>1 DEF OutboxInv, NothingLost, HandIsNewest, ChangesKnown
  <1>8. Waiting' = Waiting
    BY <1>1 DEF Waiting, Buffered
  <1> QED
    BY <1>6, <1>7, <1>8 DEF OutboxInv

\* An ingest stores and refuses results that were given out.
LEMMA OutboxIngest ==
    ASSUME TypeOK, OutboxInv, IngestBatch \/ StrayIngest
    PROVE  OutboxInv' /\ Outbox!Settle /\ Waiting' = Waiting
  <1>1. /\ UNCHANGED <<nextId, hand, items, failed, changed, overtaken, top>>
        /\ stray' \subseteq stray
    BY DEF IngestBatch, StrayIngest, bufferVars, traceVars
  <1>2. /\ \A k \in 1 .. Len(up') : \E l \in 1 .. Len(up) : up'[k] = up[l]
        /\ up # <<>> => Head(up) = up[1] /\ 1 \in 1 .. Len(up)
    <2>1. up \in Seq(Seq(Nat)) /\ (up' = up \/ (up # <<>> /\ up' = Tail(up)))
      BY DEF IngestBatch, StrayIngest, TypeOK, StreamType
    <2>2. CASE up' = up
      BY <2>1, <2>2
    <2>3. CASE up # <<>> /\ up' = Tail(up)
      <3>1. /\ Len(up') = Len(up) - 1
            /\ \A k \in 1 .. Len(up) - 1 : up'[k] = up[k + 1] /\ k + 1 \in 1 .. Len(up)
        BY <2>1, <2>3
      <3> QED
        BY <2>1, <3>1
    <2> QED
      BY <2>1, <2>2, <2>3
  <1>3. OutboxInv'
    BY <1>1, <1>2, OutboxFrame
  <1>4. Waiting' = Waiting
    BY <1>1 DEF Waiting, Buffered
  <1>5. \E stored, turnedAway \in SUBSET (1 .. nextId) :
           durable' = durable \cup stored /\ rejected' = rejected \cup turnedAway
    <2>1. CASE IngestBatch
      <3>1. PICK refused \in SUBSET Ids(Head(up)) :
               /\ durable' = durable \cup (Ids(Head(up)) \ refused)
               /\ rejected' = rejected \cup refused
        BY <2>1 DEF IngestBatch
      <3>2. Ids(Head(up)) \subseteq 1 .. nextId
        BY <1>2, <2>1 DEF IngestBatch, OutboxInv, FramesKnown
      <3>3. Ids(Head(up)) \ refused \in SUBSET (1 .. nextId) /\ refused \in SUBSET (1 .. nextId)
        BY <3>2
      <3> QED
        BY <3>1, <3>3
    <2>2. CASE StrayIngest
      <3>1. PICK frame \in stray : \E stored \in SUBSET Ids(frame) : durable' = durable \cup stored
        BY <2>2 DEF StrayIngest
      <3>2. PICK stored \in SUBSET Ids(frame) : durable' = durable \cup stored
        BY <3>1
      <3>3. stored \in SUBSET (1 .. nextId) /\ {} \in SUBSET (1 .. nextId)
        BY <3>2 DEF OutboxInv, FramesKnown
      <3>4. rejected' = rejected \cup {}
        BY <2>2 DEF StrayIngest
      <3> QED
        BY <3>2, <3>3, <3>4
    <2> QED
      BY <2>1, <2>2
  <1> QED
    BY <1>1, <1>3, <1>4, <1>5 DEF Outbox!Settle

\* Every other step moves no result and no row: the outbox stutters.
LEMMA OutboxQuiet ==
    ASSUME TypeOK, OutboxInv,
           \/ AddReturns \/ OpenStream \/ SendHealth \/ ReceiveAck \/ ReceiveLateAck
           \/ AckReturns \/ DropStream \/ UNCHANGED vars
    PROVE  /\ OutboxInv' /\ Waiting' = Waiting
           /\ UNCHANGED <<nextId, durable, rejected, changed>>
  <1>1. /\ UNCHANGED <<nextId, hand, items, durable, rejected, failed, changed, overtaken, top>>
        /\ \A f \in stray' : f \in stray \/ (up # <<>> /\ f = Head(up))
        /\ up' = up \/ up' = <<>> \/ up' = Append(up, <<>>)
    BY DEF AddReturns, OpenStream, SendHealth, ReceiveAck, ReceiveLateAck, AckReturns, DropStream,
           vars, bufferVars, streamVars, storeVars, traceVars
  <1>2. up \in Seq(Seq(Nat)) /\ (up # <<>> => Head(up) = up[1] /\ 1 \in 1 .. Len(up))
    BY DEF TypeOK, StreamType
  <1>3. \A k \in 1 .. Len(up') : up'[k] = <<>> \/ \E l \in 1 .. Len(up) : up'[k] = up[l]
    <2>1. CASE up' = up \/ up' = <<>>
      BY <2>1
    <2>2. CASE up' = Append(up, <<>>)
      <3>1. /\ Len(up') = Len(up) + 1 /\ up'[Len(up) + 1] = <<>>
            /\ \A k \in 1 .. Len(up) : up'[k] = up[k]
        BY <1>2, <2>2
      <3> QED
        BY <1>2, <3>1
    <2> QED
      BY <1>1, <2>1, <2>2
  <1>4. \A f \in stray' : f \in stray \/ \E l \in 1 .. Len(up) : f = up[l]
    BY <1>1, <1>2
  <1>5. OutboxInv'
    BY <1>1, <1>3, <1>4, OutboxFrame
  <1> QED
    BY <1>1, <1>5 DEF Waiting, Buffered

\* A step of the delivery is a step of the outbox, or a stutter.
LEMMA OutboxStep ==
    ASSUME OneEmitter, MaxFailures = 0, TypeOK, DeliveryInv, OutboxInv, [Next]_vars
    PROVE  OutboxInv' /\ [Outbox!Next]_(Outbox!vars)
  <1>1. ASSUME NEW w \in Emitters, Emit(w) PROVE OutboxInv' /\ [Outbox!Next]_(Outbox!vars)
    BY <1>1, OutboxEmit DEF Outbox!Next
  <1>2. ASSUME NEW w \in Emitters, AppendResult(w)
        PROVE  OutboxInv' /\ [Outbox!Next]_(Outbox!vars)
    <2>1. UNCHANGED <<nextId, durable, rejected, changed>>
      BY <1>2 DEF AppendResult, storeVars
    <2> QED
      BY <1>2, <2>1, OutboxAppend DEF Outbox!vars
  <1>3. CASE ShedOne
    BY <1>3, OutboxShed DEF Outbox!Next
  <1>4. CASE FreeOne
    BY <1>4, OutboxFree DEF Outbox!Next
  <1>5. CASE Flush
    <2>1. UNCHANGED <<nextId, durable, rejected, changed>>
      BY <1>5 DEF Flush, storeVars
    <2> QED
      BY <1>5, <2>1, OutboxFlush DEF Outbox!vars
  <1>6. CASE IngestBatch \/ StrayIngest
    BY <1>6, OutboxIngest DEF Outbox!Next
  <1>7. CASE \/ AddReturns \/ OpenStream \/ SendHealth \/ ReceiveAck \/ ReceiveLateAck
             \/ AckReturns \/ DropStream \/ UNCHANGED vars
    BY <1>7, OutboxQuiet DEF Outbox!vars
  <1>8. ~ IngestFails
    BY DEF IngestFails, TypeOK, StoreType
  <1> QED
    BY <1>1, <1>2, <1>3, <1>4, <1>5, <1>6, <1>7, <1>8 DEF Next

\* With one emitter, and no ingest that fails, the buffer, the stream and the
\* ingest together are a durable outbox, for any bounds and any number of drops:
\* a result leaves the probe only when it is stored or refused, or when it
\* changed nothing.
THEOREM DeliveryImplementsOutbox ==
    ASSUME OneEmitter, MaxFailures = 0
    PROVE  Spec => IsDurableOutbox
  <1>1. Init => OutboxInv /\ Outbox!Init
    <2> SUFFICES ASSUME Init PROVE OutboxInv /\ Outbox!Init
      OBVIOUS
    <2>1. nextId = 0 /\ 1 .. nextId = {} /\ Waiting = {}
      BY DEF Init, Waiting
    <2>2. Len(items) = 0 /\ Len(up) = 0
      BY DEF Init
    <2>3. OutboxInv
      BY <2>2 DEF Init, OutboxInv, NothingLost, HandIsNewest, ChangesKnown, FramesKnown
    <2> QED
      BY <2>1, <2>3 DEF Init, Outbox!Init
  <1>2. TypeOK /\ DeliveryInv /\ OutboxInv /\ [Next]_vars
           => OutboxInv' /\ [Outbox!Next]_(Outbox!vars)
    BY OutboxStep
  <1> QED
    BY <1>1, <1>2, TypeCorrect, DeliveryCorrect, PTL DEF Spec, IsDurableOutbox, Outbox!Spec
=============================================================================

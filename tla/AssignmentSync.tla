--------------------------- MODULE AssignmentSync ---------------------------
(***************************************************************************)
(* How the probe learns what to check: the monitors in the store, the      *)
(* Publisher's wake-ups (internal/controlplane/assignments.go), the        *)
(* WatchAssignments handler (internal/controlplane/server.go) and the      *)
(* probe's watchOnce (internal/probe/watch.go): a full set in chunks, then *)
(* deltas, then a digest on a timer.                                       *)
(*                                                                         *)
(* An assignment is its config version and its body; the body stands for   *)
(* everything the checker validates.  A monitor that is deleted, disabled, *)
(* a push monitor, pinned elsewhere or withheld for want of a key is       *)
(* Absent.  What an applied assignment does to the schedule is the subject *)
(* of module ProbeSchedule.                                                *)
(***************************************************************************)
EXTENDS Integers, Sequences, FiniteSets

CONSTANTS
    Monitors,
    Bodies,        \* configurations a monitor may be given
    Valid,         \* those the probe's checker accepts
    NoBody,
    ChunkSize,     \* assignmentChunkSize
    MaxEdits,      \* bound: writes to the monitors table
    MaxInFlight,   \* bound: messages on the wire
    MaxDrops,      \* bound: times the stream drops
    MaxErrors      \* bound: store errors between a write and its delta

AssignmentSyncAssumption ==
    /\ Valid \subseteq Bodies /\ NoBody \notin Bodies
    /\ ChunkSize \in Nat \ {0} /\ MaxInFlight \in Nat \ {0}
    /\ MaxEdits \in Nat /\ MaxDrops \in Nat /\ MaxErrors \in Nat

VARIABLES
    store,        \* the assignable monitors in the database
    clock,        \* the millisecond of the last write, its updated_at
    owed,         \* committed writes whose request has not called Notify yet
    signal,       \* the subscriber's channel, of depth one
    handler,      \* where WatchAssignments is; "none" when no stream is open
    current,      \* its variable current
    unsent,       \* monitors of the full set still to be sent
    wire,         \* messages on the stream
    staging,      \* watchOnce: chunks of a full set that is not final yet
    delta,        \* applyDelta: what is left of the delta being applied
    assignments,  \* Session.assignments
    rejections,   \* Session.rejections
    edits, drops, errors,   \* counters for the bounds
    (* For the properties; the program keeps none of it. *)
    loads,        \* the sets a handler has ever loaded
    missed        \* an error swallowed the announcement of a write, and no set
                  \* has been loaded since

storeVars   == <<store, clock, owed, edits>>
handlerVars == <<handler, current, unsent, loads>>
probeVars   == <<staging, delta, assignments, rejections>>
boundVars   == <<drops, errors>>
vars == <<storeVars, signal, handlerVars, wire, probeVars, boundVars, missed>>

Assignment == [version : Nat, body : Bodies \cup {NoBody}]
Absent     == [version |-> 0, body |-> NoBody]
Nothing    == [m \in Monitors |-> Absent]
Sets       == [Monitors -> Assignment]

\* The monitors a set assigns.
Present(set) == {m \in Monitors : set[m] # Absent}

\* The part of a set that validate lets through.
Accepted(set) == [m \in Monitors |-> IF set[m].body \in Valid THEN set[m] ELSE Absent]

\* The rejections validate answers a set with.
Refusals(set) == {<<m, set[m].version>> : m \in Present(set) \ Present(Accepted(set))}

\* AssignmentDigest: monitor ids and config versions, and nothing else.
Digest(set) == {<<m, set[m].version>> : m \in Present(set)}

Message ==
    [kind : {"set"}, set : Sets, final : BOOLEAN]
      \cup [kind : {"delta"}, set : Sets, added : SUBSET Monitors, removed : SUBSET Monitors]
      \cup [kind : {"reconcile"}, digest : SUBSET (Monitors \X Nat)]

\* A delta names the monitors added, and carries the new assignment of these
\* and of the ones updated.
DeltaMessage(added, removed, set) ==
    [kind |-> "delta", added |-> added, removed |-> removed, set |-> set]

NoDelta == DeltaMessage({}, {}, Nothing)

\* The monitors whose turn has not come yet in applyDelta.
Waiting == Present(delta.set) \cup delta.removed

\* Every variable has its type, and a handler has chunks left to send exactly
\* while it is sending them (an empty set is one empty chunk).
TypeOK ==
    /\ store \in Sets /\ clock \in Nat /\ owed \in Nat /\ signal \in BOOLEAN
    /\ handler \in {"none", "load", "send", "watch", "settle", "reload"}
    /\ current \in Sets /\ unsent \subseteq Monitors
    /\ unsent # {} => handler = "send"
    /\ wire \in Seq(Message)
    /\ staging \in Sets /\ assignments \in Sets
    /\ delta \in Message /\ delta.kind = "delta"
    /\ rejections \subseteq Monitors \X Nat

Init ==
    /\ store = Nothing /\ clock = 0 /\ owed = 0 /\ signal = FALSE
    /\ handler = "none" /\ current = Nothing /\ unsent = {} /\ wire = <<>>
    /\ staging = Nothing /\ delta = NoDelta /\ assignments = Nothing /\ rejections = {}
    /\ edits = 0 /\ drops = 0 /\ errors = 0
    /\ loads = {Nothing}
    /\ missed = FALSE

-----------------------------------------------------------------------------
(* The API: a write, then Notify *)

\* A monitor is created, edited, disabled, enabled or deleted.  Its version is
\* updated_at; writes to it are taken to be at least a millisecond apart.
Edit(m, b) ==
    /\ edits < MaxEdits /\ edits' = edits + 1
    /\ clock' = clock + 1
    /\ store' = [store EXCEPT ![m] =
                    IF b = NoBody THEN Absent ELSE [version |-> clock', body |-> b]]
    /\ owed' = owed + 1
    /\ UNCHANGED <<signal, handlerVars, wire, probeVars, boundVars, missed>>

\* Publisher.Notify: a signal nobody has drained yet stands for this one too.
Notify ==
    /\ owed > 0 /\ owed' = owed - 1
    /\ signal' = (handler # "none")
    /\ UNCHANGED <<store, clock, edits, handlerVars, wire, probeVars,
                   boundVars, missed>>

\* updateMonitor returns with an error after UpdateMonitor has committed
\* (assigning tags or channels failed), and does not reach Notify.
SkipNotify ==
    /\ owed > 0 /\ owed' = owed - 1
    /\ errors < MaxErrors /\ errors' = errors + 1
    /\ missed' = TRUE
    /\ UNCHANGED <<store, clock, edits, signal, handlerVars, wire,
                   probeVars, drops>>

-----------------------------------------------------------------------------
(* The control plane: WatchAssignments *)

\* The probe opens a stream, once the loop of the last one has returned; the
\* handler subscribes before it loads.
OpenStream ==
    /\ handler = "none" /\ Waiting = {}
    /\ handler' = "load"
    /\ signal' = FALSE /\ wire' = <<>> /\ staging' = Nothing
    /\ UNCHANGED <<storeVars, current, unsent, loads, delta, assignments, rejections,
                   boundVars, missed>>

LoadSet ==
    /\ handler = "load"
    /\ handler' = "send"
    /\ current' = store /\ unsent' = Present(store)
    /\ loads' = loads \cup {store}
    /\ missed' = FALSE
    /\ UNCHANGED <<storeVars, signal, wire, probeVars, boundVars>>

MutFinal(chunk) == TRUE

\* The last chunk of a full set.
Final(chunk) == chunk = unsent

\* What one message of a full set may carry: ChunkSize monitors, or the rest,
\* in the order of a map.
IsChunk(chunk) ==
    /\ Cardinality(chunk) <= ChunkSize
    /\ chunk = unsent \/ Cardinality(chunk) = ChunkSize

SetMessage(chunk) ==
    [kind |-> "set", final |-> Final(chunk),
     set |-> [m \in Monitors |-> IF m \in chunk THEN current[m] ELSE Absent]]

\* The loop of sendFullSet ends with the final chunk.
AfterChunk(chunk) == IF chunk = unsent THEN "watch" ELSE "send"

\* sendFullSet: one chunk.
SendChunk ==
    /\ handler = "send" /\ Len(wire) < MaxInFlight
    /\ \E chunk \in SUBSET unsent :
          /\ IsChunk(chunk)
          /\ wire' = Append(wire, SetMessage(chunk))
          /\ unsent' = unsent \ chunk
          /\ handler' = AfterChunk(chunk)
    /\ UNCHANGED <<storeVars, signal, current, loads, probeVars, boundVars, missed>>

\* The handler takes the signal and lets a burst of writes settle.
Wake ==
    /\ handler = "watch" /\ signal
    /\ signal' = FALSE /\ handler' = "settle"
    /\ UNCHANGED <<storeVars, current, unsent, loads, wire, probeVars, boundVars,
                   missed>>

\* What arrived during the pause is swallowed, before the store is read.
Settle ==
    /\ handler = "settle"
    /\ signal' = FALSE /\ handler' = "reload"
    /\ UNCHANGED <<storeVars, current, unsent, loads, wire, probeVars, boundVars,
                   missed>>

MutChanged(old, next) == {m \in Present(next) : old[m] = Absent}

\* diff: the monitors added, or updated, which is to say of another version.
Changed(old, next) == {m \in Present(next) : old[m].version # next[m].version}

Removed(old, next) == Present(old) \ Present(next)

\* The reload: a delta if anything moved, and current follows only then.
Reload ==
    LET changed == Changed(current, store)
        removed == Removed(current, store) IN
    /\ handler = "reload" /\ Len(wire) < MaxInFlight
    /\ handler' = "watch"
    /\ IF changed \cup removed = {}
       THEN UNCHANGED <<wire, current, loads>>
       ELSE /\ wire' = Append(wire, DeltaMessage(changed \ Present(current), removed,
                   [m \in Monitors |-> IF m \in changed THEN store[m] ELSE Absent]))
            /\ current' = store
            /\ loads' = loads \cup {store}
    /\ missed' = FALSE
    /\ UNCHANGED <<storeVars, signal, unsent, probeVars, boundVars>>

\* ListAssignable failed: logged, and the signal is gone.
ReloadFails ==
    /\ handler = "reload"
    /\ errors < MaxErrors /\ errors' = errors + 1
    /\ missed' = TRUE
    /\ handler' = "watch"
    /\ UNCHANGED <<storeVars, signal, current, unsent, loads, wire, probeVars,
                   drops>>

\* The reconcile ticker: the digest of what this stream has sent.
Reconcile ==
    /\ handler = "watch" /\ Len(wire) < MaxInFlight
    /\ wire' = Append(wire, [kind |-> "reconcile", digest |-> Digest(current)])
    /\ UNCHANGED <<storeVars, signal, handlerVars, probeVars, boundVars, missed>>

-----------------------------------------------------------------------------
(* The probe: watchOnce *)

\* Rejections wait for the next result frame.
Reject(refusals) ==
    /\ rejections' = rejections \cup refusals

Overlay(under, over) == [m \in Monitors |-> IF over[m] # Absent THEN over[m] ELSE under[m]]

\* A chunk joins the staging; the final one makes applyFullSet replace
\* everything by what validate accepts.
ReceiveChunk ==
    LET msg == Head(wire)
        set == Overlay(staging, msg.set) IN
    /\ Waiting = {} /\ wire # <<>> /\ msg.kind = "set"
    /\ wire' = Tail(wire)
    /\ IF msg.final
       THEN staging' = Nothing /\ assignments' = Accepted(set) /\ Reject(Refusals(set))
       ELSE staging' = set /\ UNCHANGED <<assignments, rejections>>
    /\ UNCHANGED <<storeVars, signal, handlerVars, delta, boundVars, missed>>

\* A delta is taken off the stream, and applied before the next message is.
ReceiveDelta ==
    /\ Waiting = {} /\ wire # <<>> /\ Head(wire).kind = "delta"
    /\ wire' = Tail(wire) /\ delta' = Head(wire)
    /\ UNCHANGED <<storeVars, signal, handlerVars, staging, assignments, rejections,
                   boundVars, missed>>

\* The loops of applyDelta have dealt with a monitor.
Rest(m) == DeltaMessage(delta.added \ {m}, delta.removed \ {m}, [delta.set EXCEPT ![m] = Absent])
Passes(m) == delta' = Rest(m)

\* setAssignment and removeAssignment: a monitor under the lock.
SetAssignment(m, a) == assignments' = [assignments EXCEPT ![m] = a]

\* addRejection: another lock section.
AddRejection(m) == Reject({<<m, delta.set[m].version>>})

\* applyDelta, the loop over the monitors added.
ApplyAdded ==
    /\ \E m \in delta.added :
          /\ Passes(m)
          /\ IF delta.set[m].body \in Valid
             THEN SetAssignment(m, delta.set[m]) /\ UNCHANGED rejections
             ELSE AddRejection(m) /\ UNCHANGED assignments
    /\ UNCHANGED <<storeVars, signal, handlerVars, wire, staging, boundVars, missed>>

\* The loop over those updated: one that is refused is unassigned before its
\* rejection is noted.
ApplyUpdated ==
    /\ delta.added = {}
    /\ \E m \in Present(delta.set) :
          \/ /\ delta.set[m].body \in Valid
             /\ SetAssignment(m, delta.set[m]) /\ Passes(m) /\ UNCHANGED rejections
          \/ /\ delta.set[m].body \notin Valid /\ assignments[m] # Absent
             /\ SetAssignment(m, Absent) /\ UNCHANGED <<delta, rejections>>
          \/ /\ delta.set[m].body \notin Valid /\ assignments[m] = Absent
             /\ AddRejection(m) /\ Passes(m) /\ UNCHANGED assignments
    /\ UNCHANGED <<storeVars, signal, handlerVars, wire, staging, boundVars, missed>>

\* The loop over those removed.
ApplyRemoved ==
    /\ Present(delta.set) = {}
    /\ \E m \in delta.removed : SetAssignment(m, Absent) /\ Passes(m)
    /\ UNCHANGED <<storeVars, signal, handlerVars, wire, staging, rejections,
                   boundVars, missed>>

ApplyOne == ApplyAdded \/ ApplyUpdated \/ ApplyRemoved

\* The stream is over for the probe: what is on the wire goes, and with it the
\* handler's variables.
Disconnect ==
    /\ handler' = "none" /\ wire' = <<>> /\ staging' = Nothing
    /\ signal' = FALSE /\ current' = Nothing /\ unsent' = {}

\* A digest that differs makes the probe leave the stream and open another.
\* It returns without cancelling the old one, whose handler goes on for nobody.
ReceiveReconcile ==
    /\ Waiting = {} /\ wire # <<>> /\ Head(wire).kind = "reconcile"
    /\ IF Head(wire).digest = Digest(assignments)
       THEN /\ wire' = Tail(wire)
            /\ UNCHANGED <<signal, handler, current, unsent, staging>>
       ELSE Disconnect
    /\ UNCHANGED <<storeVars, loads, delta, assignments, rejections, boundVars, missed>>

\* A drop the probe notices when it is done with the delta in hand.
DropStream ==
    /\ handler # "none"
    /\ drops < MaxDrops /\ drops' = drops + 1
    /\ Disconnect
    /\ UNCHANGED <<storeVars, loads, delta, assignments, rejections, errors, missed>>

\* The flush tick of the result stream takes the rejections, and clears them
\* whether or not the frame is sent.
TakeRejections ==
    /\ rejections # {} /\ rejections' = {}
    /\ UNCHANGED <<storeVars, signal, handlerVars, wire, staging, delta, assignments, drops,
                   errors, missed>>

-----------------------------------------------------------------------------
Next ==
    \/ \E m \in Monitors, b \in Bodies \cup {NoBody} : Edit(m, b)
    \/ Notify \/ SkipNotify
    \/ OpenStream \/ LoadSet \/ SendChunk
    \/ Wake \/ Settle \/ Reload \/ ReloadFails \/ Reconcile
    \/ ReceiveChunk \/ ReceiveDelta \/ ApplyOne \/ ReceiveReconcile
    \/ DropStream \/ TakeRejections

Spec == Init /\ [][Next]_vars

\* Requests finish, handlers and the probe's loops run, tickers tick, and a
\* dropped stream is reopened by Session.retry.
Fairness ==
    /\ WF_vars(Notify)
    /\ WF_vars(OpenStream) /\ WF_vars(LoadSet) /\ WF_vars(SendChunk)
    /\ WF_vars(Wake) /\ WF_vars(Settle) /\ WF_vars(Reload) /\ WF_vars(Reconcile)
    /\ WF_vars(ReceiveChunk) /\ WF_vars(ReceiveDelta) /\ WF_vars(ApplyOne)
    /\ WF_vars(ReceiveReconcile) /\ WF_vars(TakeRejections)

FairSpec == Spec /\ Fairness

-----------------------------------------------------------------------------
(* Properties *)

\* Between two messages the probe runs exactly what it accepts of one set the
\* control plane loaded: never half of a full set, and never one set's monitor
\* beside another's, whatever drops between chunks and deltas.  While applyDelta
\* goes through a delta, a monitor at a time, the probe does run a mixture, of
\* two loaded sets and no more: a monitor it has dealt with is as in the second,
\* one whose turn has not come as in the first, or gone if it is about to be
\* refused (sendFullSet, diff, watchOnce, applyFullSet, applyDelta).
HoldsASnapshot ==
    \E before, after \in loads : \A m \in Monitors :
        IF m \in Waiting THEN assignments[m] \in {Accepted(before)[m], Accepted(after)[m]}
                         ELSE assignments[m] = Accepted(after)[m]

\* Nothing is on its way: every write was announced, the stream is idle and no
\* delta is being applied.
Quiet == handler = "watch" /\ ~signal /\ owed = 0 /\ wire = <<>> /\ Waiting = {}

\* An idle stream is a synchronised one: no signal swallowed by the settle
\* window, by a channel of depth one or between subscribing and loading hid a
\* write the probe has not been told of; only a store error can, and no longer
\* than until the next load (Notify, WatchAssignments).
QuietMeansSynced == Quiet /\ ~missed => assignments = Accepted(store)

\* Once writes stop, the probe ends up with what it accepts of the store, and
\* stays there through drops and resyncs, unless a store error hid the last
\* write: the digest is of what was sent, and does not bring it up again.
Converges == <>[](missed \/ assignments = Accepted(store))
=============================================================================

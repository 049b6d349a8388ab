------------------------------ MODULE LiveBus ------------------------------
(***************************************************************************)
(* The browser's live channel (internal/live, internal/api/live.go): an    *)
(* ingest publishes diffs to the streams that hold the monitor, and the    *)
(* summariser publishes the global counts when a transition has touched    *)
(* them.                                                                   *)
(*                                                                         *)
(* The global counts are a version that every change of a status raises;   *)
(* only the transitions of an ingest touch the summariser.  A publisher    *)
(* takes its targets under the bus's lock and delivers to them after it,   *)
(* one at a time; a delivery looks whether the stream is closed and then   *)
(* sends, and a handler that unwinds may close the channel in between.     *)
(***************************************************************************)
EXTENDS Naturals, FiniteSets, Sequences

CONSTANTS
    Streams, Monitors, Ingests,
    BufferDepth,        \* bufferDepth
    MaxTransitions, MaxScopes, MaxErrors, None

LiveBusAssumption ==
    "summariser" \notin Ingests /\ BufferDepth \in Nat /\ MaxTransitions \in Nat

VARIABLES
    counts,     \* StatusCounts, as a version
    dirty,      \* the summariser's signal of depth one
    stream,     \* what each handler has done
    chan,       \* its channel's messages
    scope,      \* the monitors it holds
    subs,       \* bus.subs
    task,       \* what each publisher is doing
    shown,      \* the counts on each browser's header
    missed,     \* streams that dropped the last summary, or opened with none
    moved,      \* ghost: the counts an ingest last moved
    crashed,    \* a send on a closed channel: the process is gone
    scopes, errors

vars == <<counts, dirty, stream, chan, scope, subs, task, shown, missed, moved,
          crashed, scopes, errors>>

Publishers == Ingests \cup {"summariser"}
Idle       == [pc |-> "idle", msg |-> None, to |-> {}, at |-> None]
Summary(n) == [kind |-> "summary", of |-> n]
Update(m)  == [kind |-> "monitor", of |-> m]

TypeOK ==
    /\ counts \in 0 .. MaxTransitions /\ dirty \in BOOLEAN /\ crashed \in BOOLEAN
    /\ stream \in [Streams -> {"none", "subscribed", "open", "closing", "removed", "closed"}]
    /\ \A s \in Streams : Len(chan[s]) <= BufferDepth
    /\ scope \in [Streams -> SUBSET Monitors] /\ subs \subseteq Streams
    /\ \A p \in Publishers : task[p].pc \in {"idle", "saved", "drained", "deliver", "send", "touch"}
    /\ missed \subseteq Streams /\ moved \in 0 .. counts

Init ==
    /\ counts = 0 /\ dirty = FALSE /\ crashed = FALSE
    /\ stream = [s \in Streams |-> "none"] /\ chan = [s \in Streams |-> <<>>]
    /\ scope = [s \in Streams |-> {}] /\ subs = {}
    /\ task = [p \in Publishers |-> Idle]
    /\ shown = [s \in Streams |-> None] /\ missed = {} /\ moved = 0
    /\ scopes = 0 /\ errors = 0

-----------------------------------------------------------------------------
(* Publishing.                                                              *)

\* The ingest saves a transition, and the counts move with it.
Saves(p, m) ==
    /\ task[p] = Idle /\ counts < MaxTransitions
    /\ counts' = counts + 1
    /\ moved' = counts'
    /\ task' = [task EXCEPT ![p] = [Idle EXCEPT !.pc = "saved", !.msg = Update(m)]]
    /\ UNCHANGED <<dirty, stream, chan, scope, subs, shown, missed, crashed, scopes, errors>>

\* A monitor is created, deleted, paused or resumed, the sweep moves one, an
\* ingest saves over one of these or fails before it broadcasts: the counts
\* move, and nobody touches the summariser.
MovesSilently ==
    /\ counts < MaxTransitions
    /\ counts' = counts + 1
    /\ UNCHANGED <<dirty, stream, chan, scope, subs, task, shown, missed, moved, crashed,
                   scopes, errors>>

\* bus.Publish: the subscribers that want the monitor, under the lock.
Publish(p) ==
    /\ task[p].pc = "saved"
    /\ task' = [task EXCEPT ![p].pc = "deliver",
                            ![p].to = {s \in subs : task[p].msg.of \in scope[s]}]
    /\ UNCHANGED <<counts, dirty, stream, chan, scope, subs, shown, missed, moved, crashed, scopes,
           errors>>

\* deliver: is it closed?
Looks(p, s) ==
    /\ task[p].pc = "deliver" /\ s \in task[p].to
    /\ IF stream[s] \in {"closing", "removed", "closed"}
         THEN task' = [task EXCEPT ![p].to = @ \ {s}]
         ELSE task' = [task EXCEPT ![p].pc = "send", ![p].to = @ \ {s}, ![p].at = s]
    /\ UNCHANGED <<counts, dirty, stream, chan, scope, subs, shown, missed, moved, crashed, scopes,
           errors>>

\* The send does not block: a full buffer drops.  A closed channel panics.
Sends(p) ==
    /\ task[p].pc = "send"
    /\ LET s == task[p].at  m == task[p].msg IN
       \/ /\ stream[s] = "closed" /\ crashed' = TRUE
          /\ UNCHANGED <<chan, missed>>
       \/ /\ stream[s] # "closed" /\ Len(chan[s]) < BufferDepth
          /\ chan' = [chan EXCEPT ![s] = Append(@, m)]
          /\ missed' = IF m.kind = "summary" THEN missed \ {s} ELSE missed
          /\ UNCHANGED crashed
       \/ /\ stream[s] # "closed" /\ Len(chan[s]) = BufferDepth
          /\ missed' = IF m.kind = "summary" THEN missed \cup {s} ELSE missed
          /\ UNCHANGED <<chan, crashed>>
    /\ task' = [task EXCEPT ![p].pc = "deliver", ![p].at = None]
    /\ UNCHANGED <<counts, dirty, stream, scope, subs, shown, moved, scopes, errors>>

\* Summariser.Publish ends with Touch, on a transition; Run goes back to its ticker.
Delivered(p) ==
    /\ task[p].pc = "deliver" /\ task[p].to = {}
    /\ dirty' = (dirty \/ p # "summariser")
    /\ task' = [task EXCEPT ![p] = Idle]
    /\ UNCHANGED <<counts, stream, chan, scope, subs, shown, missed, moved, crashed, scopes, errors>>

\* Summariser.Run: a tick takes the signal before it reads the counts.
Drains ==
    /\ task["summariser"] = Idle /\ dirty
    /\ dirty' = FALSE
    /\ task' = [task EXCEPT !["summariser"].pc = "drained"]
    /\ UNCHANGED <<counts, stream, chan, scope, subs, shown, missed, moved, crashed, scopes, errors>>

\* An error leaves the summary dirty for the next tick.
CountsFail ==
    /\ task["summariser"].pc = "drained" /\ errors < MaxErrors
    /\ errors' = errors + 1 /\ dirty' = TRUE
    /\ task' = [task EXCEPT !["summariser"] = Idle]
    /\ UNCHANGED <<counts, stream, chan, scope, subs, shown, missed, moved, crashed, scopes>>

\* PublishSummary: to every subscriber, whatever its scope.
PublishSummary ==
    /\ task["summariser"].pc = "drained"
    /\ task' = [task EXCEPT !["summariser"] =
                  [pc |-> "deliver", msg |-> Summary(counts), to |-> subs, at |-> None]]
    /\ UNCHANGED <<counts, dirty, stream, chan, scope, subs, shown, missed, moved, crashed, scopes,
           errors>>

-----------------------------------------------------------------------------
(* A stream.                                                                *)

\* streamUpdates: the subscription and the stream's id.
Subscribe(s, ids) ==
    /\ stream[s] = "none"
    /\ stream' = [stream EXCEPT ![s] = "subscribed"]
    /\ scope' = [scope EXCEPT ![s] = ids]
    /\ subs' = subs \cup {s}
    /\ UNCHANGED <<counts, dirty, chan, task, shown, missed, moved, crashed, scopes, errors>>

MutOpens(s) ==
    /\ stream[s] = "subscribed"
    /\ stream' = [stream EXCEPT ![s] = "open"]
    /\ UNCHANGED <<counts, dirty, chan, scope, subs, task, shown, missed, moved, crashed, scopes,
           errors>>

\* currentSummary goes down the stream before anything of its channel.  When
\* the read fails the stream opens all the same, with no summary of its own.
Opens(s) ==
    /\ stream[s] = "subscribed"
    /\ stream' = [stream EXCEPT ![s] = "open"]
    /\ \/ shown' = [shown EXCEPT ![s] = counts] /\ UNCHANGED <<missed, errors>>
       \/ /\ errors < MaxErrors /\ errors' = errors + 1
          /\ missed' = IF \E i \in DOMAIN chan[s] : chan[s][i].kind = "summary"
                         THEN missed ELSE missed \cup {s}
          /\ UNCHANGED shown
    /\ UNCHANGED <<counts, dirty, chan, scope, subs, task, moved, crashed, scopes>>

\* The handler's loop writes one event.
Writes(s) ==
    /\ stream[s] = "open" /\ chan[s] # <<>>
    /\ shown' = IF Head(chan[s]).kind = "summary"
                  THEN [shown EXCEPT ![s] = Head(chan[s]).of] ELSE shown
    /\ chan' = [chan EXCEPT ![s] = Tail(@)]
    /\ UNCHANGED <<counts, dirty, stream, scope, subs, task, missed, moved, crashed, scopes, errors>>

\* setStreamScope and Subscription.Update: in place, on an open stream.
SetScope(s, ids) ==
    /\ stream[s] \in {"subscribed", "open"} /\ scopes < MaxScopes
    /\ scope' = [scope EXCEPT ![s] = ids] /\ scopes' = scopes + 1
    /\ UNCHANGED <<counts, dirty, stream, chan, subs, task, shown, missed, moved, crashed, errors>>

\* Subscription.Close, in the order it unwinds: the flag, the bus, the channel.
Closes(s) ==
    \/ /\ stream[s] \in {"subscribed", "open"}
       /\ stream' = [stream EXCEPT ![s] = "closing"]
       /\ UNCHANGED <<counts, dirty, chan, scope, subs, task, shown, missed, moved, crashed, scopes,
              errors>>
    \/ /\ stream[s] = "closing"
       /\ stream' = [stream EXCEPT ![s] = "removed"] /\ subs' = subs \ {s}
       /\ UNCHANGED <<counts, dirty, chan, scope, task, shown, missed, moved, crashed, scopes, errors>>
    \/ /\ stream[s] = "removed"
       /\ stream' = [stream EXCEPT ![s] = "closed"]
       /\ UNCHANGED <<counts, dirty, chan, scope, subs, task, shown, missed, moved, crashed, scopes,
              errors>>

Next ==
    /\ ~crashed
    /\ \/ \E p \in Ingests : Publish(p) \/ \E m \in Monitors : Saves(p, m)
       \/ MovesSilently
       \/ \E p \in Publishers : Sends(p) \/ Delivered(p) \/ \E s \in Streams : Looks(p, s)
       \/ Drains \/ CountsFail \/ PublishSummary
       \/ \E s \in Streams : \/ Opens(s) \/ Writes(s) \/ Closes(s)
                             \/ \E ids \in SUBSET Monitors : Subscribe(s, ids) \/ SetScope(s, ids)

Spec == Init /\ [][Next]_vars

-----------------------------------------------------------------------------
Settled == ~dirty /\ \A p \in Publishers : task[p] = Idle

(* When nothing is on its way, the header of every open browser shows       *)
(* counts read after the last transition an ingest announced: transitions   *)
(* that arrive while the summariser is between taking the signal and        *)
(* reading the counts, a failed read and a stream that opens in the middle  *)
(* included.  It may be behind a change that touches nobody, and where a    *)
(* full buffer dropped the last summary or the opening read failed, until   *)
(* a summary comes through.                                                 *)
HeaderIsRight ==
    Settled =>
      \A s \in Streams \ missed :
        stream[s] = "open" /\ chan[s] = <<>> => shown[s] \in moved .. counts

(* A publisher is never stopped by a browser: "blocking would put a         *)
(* browser's scheduling on the heartbeat ingest path, which is the one      *)
(* thing ADR-005 says must never happen".                                   *)
BrowserNeverStopsIngest == ~crashed
=============================================================================

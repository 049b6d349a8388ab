------------------------------ MODULE Webhooks ------------------------------
(***************************************************************************)
(* Outbound webhooks (internal/outbound, internal/api/webhooks.go and      *)
(* store/sqlite/webhooks.go): events fan out to the subscriptions that     *)
(* want them, workers post them, timers retry them, a run of failures      *)
(* switches a subscription off, and requests edit, delete and redeliver.   *)
(*                                                                         *)
(* A job is an event for a subscription with its attempt number; body,     *)
(* headers and signature are left out, as every subscriber gets the same   *)
(* bytes.  A job carries a copy of its subscription, so nothing that       *)
(* happens to the row later stops it.                                      *)
(***************************************************************************)
EXTENDS Naturals, FiniteSets, Sequences

CONSTANTS
    Hooks, Events, Workers,
    QueueDepth,     \* queueDepth
    MaxAttempts,    \* maxAttempts
    MaxFailures,    \* maxFailures: the failures in a row that switch one off
    MaxStops, MaxEdits, MaxResends, None

VARIABLES
    hook,       \* the row: [enabled, failures, disabled], None when deleted
    fan,        \* event -> the subscriptions its fan-out still has to enqueue
    queue, worker, timers,
    edit,       \* an update between its read and its write: [hook, row]
    replay,     \* a redelivery between its read and its record: a job
    log,        \* webhook_deliveries: <<hook, event, attempt, outcome, ghost: sender>>
    stops, edits, resends,
    streak,     \* ghost: failures recorded since the last success or reset
    stale       \* ghost: an edit wrote over counts made since it read them

vars == <<hook, fan, queue, worker, timers, edit, replay, log, stops, edits,
          resends, streak, stale>>

Job(h, e, n) == [hook |-> h, event |-> e, attempt |-> n]
Jobs == [hook : Hooks, event : Events, attempt : 1 .. MaxAttempts]
Row  == [enabled : BOOLEAN, failures : Nat, disabled : BOOLEAN]
New  == [enabled |-> TRUE, failures |-> 0, disabled |-> FALSE]

WebhooksAssumption ==
    /\ None \notin Jobs /\ \A hs \in SUBSET Hooks : hs # None
    /\ QueueDepth \in Nat /\ MaxAttempts \in Nat \ {0} /\ MaxFailures \in Nat \ {0}

TypeOK ==
    /\ \A h \in Hooks : hook[h] = None \/ hook[h] \in Row
    /\ queue \in Seq(Jobs) /\ Len(queue) <= QueueDepth
    /\ timers \subseteq Jobs
    /\ \A w \in Workers : worker[w] = None \/ worker[w] \in Jobs
    /\ replay = None \/ replay \in [hook : Hooks, event : Events, attempt : Nat]
    /\ DOMAIN fan = Events

Init ==
    /\ hook = [h \in Hooks |-> New] /\ fan = [e \in Events |-> None]
    /\ queue = <<>> /\ worker = [w \in Workers |-> None] /\ timers = {}
    /\ edit = None /\ replay = None /\ log = {} /\ stops = 0 /\ edits = 0 /\ resends = 0
    /\ streak = [h \in Hooks |-> 0] /\ stale = {}

-----------------------------------------------------------------------------
(* The fan-out and the queue.                                               *)

\* EnabledWebhooks: the subscriptions a dispatch considers.
Enabled == {h \in Hooks : hook[h] # None /\ hook[h].enabled /\ ~hook[h].disabled}

\* Publish starts a goroutine, whose first step is to read them.
Publish(e) ==
    /\ fan[e] = None
    /\ fan' = [fan EXCEPT ![e] = Enabled]
    /\ UNCHANGED <<hook, queue, worker, timers, edit, replay, log, stops, edits,
                   resends, streak, stale>>

\* A full queue sheds rather than blocks.
Enqueue(j) ==
    IF Len(queue) < QueueDepth
      THEN queue' = Append(queue, j)
      ELSE UNCHANGED queue

FanOut(e, h) ==
    /\ fan[e] # None /\ h \in fan[e]
    /\ fan' = [fan EXCEPT ![e] = @ \ {h}]
    /\ Enqueue(Job(h, e, 1))
    /\ UNCHANGED <<hook, worker, timers, edit, replay, log, stops, edits, resends,
                   streak, stale>>

Take(w) ==
    /\ worker[w] = None /\ queue # <<>>
    /\ worker' = [worker EXCEPT ![w] = Head(queue)]
    /\ queue' = Tail(queue)
    /\ UNCHANGED <<hook, fan, timers, edit, replay, log, stops, edits, resends,
                   streak, stale>>

-----------------------------------------------------------------------------
(* An attempt.                                                              *)

\* The failure counter, moved in the transaction that logs the attempt.
Counted(row, ok) ==
    IF ok THEN [row EXCEPT !.failures = 0]
    ELSE [row EXCEPT !.failures = @ + 1, !.disabled = @ \/ row.failures + 1 >= MaxFailures]

\* RecordWebhookDelivery: the log row needs its subscription, so a deleted one
\* leaves no trace of the attempt.
Record(j, ok, sender) ==
    LET h == j.hook IN
    IF hook[h] = None THEN UNCHANGED <<hook, log, streak>>
    ELSE /\ log' = log \cup {<<h, j.event, j.attempt, ok, sender>>}
         /\ hook' = [hook EXCEPT ![h] = Counted(@, ok)]
         /\ streak' = [streak EXCEPT ![h] = IF ok THEN 0 ELSE @ + 1]

MutOwed(j, ok) == j.attempt < MaxAttempts

\* attempt: a failure that is not the last one is owed a retry.
Owed(j, ok) == ~ok /\ j.attempt < MaxAttempts

\* send, the record and the timer.  The record may fail, and the retry is owed
\* all the same.
Attempt(w, ok) ==
    /\ worker[w] # None
    /\ LET j == worker[w] IN
       /\ timers' = IF Owed(j, ok) THEN timers \cup {[j EXCEPT !.attempt = @ + 1]} ELSE timers
       /\ \/ Record(j, ok, "dispatcher")
          \/ UNCHANGED <<hook, log, streak>>
    /\ worker' = [worker EXCEPT ![w] = None]
    /\ UNCHANGED <<fan, queue, edit, replay, stops, edits, resends, stale>>

TimerFires(j) ==
    /\ j \in timers
    /\ timers' = timers \ {j}
    /\ Enqueue(j)
    /\ UNCHANGED <<hook, fan, worker, edit, replay, log, stops, edits, resends,
                   streak, stale>>

\* redeliverWebhook finds the subscription and one of its deliveries, and
\* sends the logged body to wherever the subscription points now.
ReplayReads(h, e) ==
    /\ replay = None /\ hook[h] # None /\ resends < MaxResends
    /\ \E d \in log : d[1] = h /\ d[2] = e /\ replay' = Job(h, e, d[3] + 1)
    /\ resends' = resends + 1
    /\ UNCHANGED <<hook, fan, queue, worker, timers, edit, log, stops, edits, streak, stale>>

\* Redeliver: the outcome is logged and counted like any other, and never
\* retried.  The record, or the request itself, may fail.
ReplayRecords(ok) ==
    /\ replay # None
    /\ \/ Record(replay, ok, "request")
       \/ UNCHANGED <<hook, log, streak>>
    /\ replay' = None
    /\ UNCHANGED <<fan, queue, worker, timers, edit, stops, edits, resends, stale>>

-----------------------------------------------------------------------------
(* Requests, and the process.                                               *)

UpdateReads(h) ==
    /\ edit = None /\ hook[h] # None /\ edits < MaxEdits
    /\ edit' = [hook |-> h, row |-> hook[h]]
    /\ edits' = edits + 1
    /\ UNCHANGED <<hook, fan, queue, worker, timers, replay, log, stops, resends,
                   streak, stale>>

\* updateWebhook: asked to be on, one that had switched itself off starts anew.
Edited(row, enabled) ==
    IF row.disabled /\ enabled
      THEN [enabled |-> TRUE, failures |-> 0, disabled |-> FALSE]
      ELSE [row EXCEPT !.enabled = enabled]

\* UpdateWebhook writes back the counter and the switch of the row it read.
UpdateWrites(enabled) ==
    /\ edit # None
    /\ LET h == edit.hook  row == Edited(edit.row, enabled) IN
       IF hook[h] = None THEN UNCHANGED <<hook, streak, stale>>
       ELSE /\ hook' = [hook EXCEPT ![h] = row]
            /\ streak' = IF row.failures = 0 THEN [streak EXCEPT ![h] = 0] ELSE streak
            /\ stale' = IF hook[h] # edit.row THEN stale \cup {h} ELSE stale
    /\ edit' = None
    /\ UNCHANGED <<fan, queue, worker, timers, replay, log, stops, edits, resends>>

\* DeleteWebhook; its deliveries cascade.
Delete(h) ==
    /\ hook[h] # None /\ edits < MaxEdits
    /\ hook' = [hook EXCEPT ![h] = None]
    /\ log' = {d \in log : d[1] # h}
    /\ edits' = edits + 1
    /\ UNCHANGED <<fan, queue, worker, timers, edit, replay, stops, resends, streak,
                   stale>>

\* A restart loses the retries in flight: next_retry_at is written and not read.
Stop ==
    /\ stops < MaxStops /\ stops' = stops + 1
    /\ fan' = [e \in Events |-> IF fan[e] = None THEN None ELSE {}]
    /\ queue' = <<>> /\ timers' = {} /\ worker' = [w \in Workers |-> None]
    /\ edit' = None /\ replay' = None
    /\ UNCHANGED <<hook, log, edits, resends, streak, stale>>

Next ==
    \/ \E e \in Events : Publish(e) \/ \E h \in Hooks : FanOut(e, h)
    \/ \E w \in Workers : Take(w) \/ \E ok \in BOOLEAN : Attempt(w, ok)
    \/ \E j \in timers : TimerFires(j)
    \/ \E h \in Hooks, e \in Events : ReplayReads(h, e)
    \/ \E ok \in BOOLEAN : ReplayRecords(ok)
    \/ \E h \in Hooks : UpdateReads(h) \/ Delete(h)
    \/ \E on \in BOOLEAN : UpdateWrites(on)
    \/ Stop

Spec == Init /\ [][Next]_vars

-----------------------------------------------------------------------------
\* Every place that holds a job of an event for a subscription, with the job.
\* The timers may be a set: a worker hands its own job to one, so two equal
\* timers would have been two holders before.
Holders(h, e) ==
    {x \in {<<"queue", i, queue[i]>> : i \in DOMAIN queue}
             \cup {<<"worker", w, worker[w]>> : w \in {v \in Workers : worker[v] # None}}
             \cup {<<"timer", j.attempt, j>> : j \in timers} :
        x[3].hook = h /\ x[3].event = e}

(* The dispatcher holds an event in one place at a time for each            *)
(* subscription, and what it sent before of an event it holds failed, at    *)
(* lower attempts: after a success it sends nothing again, and a retry is   *)
(* the next one. A redelivery by a request, that overlaps all of this and   *)
(* logs and counts like an attempt, adds no holder and changes no order.    *)
OneAttemptAtATime ==
    \A h \in Hooks, e \in Events :
      /\ Cardinality(Holders(h, e)) <= 1
      /\ \A d \in log, x \in Holders(h, e) :
           d[1] = h /\ d[2] = e /\ d[5] = "dispatcher" => ~d[4] /\ d[3] < x[3].attempt

(* A subscription that switched itself off has the run of failures to show  *)
(* for it, however many workers, retries and redeliveries counted at once,  *)
(* and one that failed that often in a row is off.  The exception is an     *)
(* edit that wrote back counts it had read before they moved.               *)
OffForAReason ==
    \A h \in Hooks \ stale :
      hook[h] # None =>
        /\ hook[h].failures = streak[h]
        /\ hook[h].disabled \/ streak[h] < MaxFailures
        /\ hook[h].disabled => \E d \in log : d[1] = h /\ ~d[4]
=============================================================================

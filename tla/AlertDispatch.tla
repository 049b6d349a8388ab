---------------------------- MODULE AlertDispatch ----------------------------
(***************************************************************************)
(* From an alert to the people it is for: the Dispatcher                   *)
(* (internal/notify/dispatcher.go).  An event waits in a bounded queue, a  *)
(* worker fans it out to the channels of its monitor, every attempt leaves *)
(* a row in the delivery log, and a failure that may pass comes back       *)
(* through a timer and the same queue.  Queue and timers live in memory.   *)
(*                                                                         *)
(* What an event says, how it is rendered and how it is sent are left out: *)
(* an attempt has one of four outcomes.                                    *)
(***************************************************************************)
EXTENDS Integers, Sequences, FiniteSets, FiniteSetsExt

CONSTANTS
    Events,       \* events the result path may publish
    Sample,       \* the event of a test delivery
    Channels,     \* channel ids, which are ordered
    Workers,      \* the goroutines of Start
    Testers,      \* requests that call Test
    QueueDepth,   \* queueDepth
    MaxAttempts,  \* maxAttempts
    MaxRequests,  \* bound: test deliveries, and changes of which channels are attached
    MaxErrors,    \* bound: store errors
    MaxStops      \* bound: times the process stops

AlertDispatchAssumption ==
    /\ Channels \subseteq Nat /\ IsFiniteSet(Channels)
    /\ Sample \notin Events /\ Workers \cap Testers = {}
    /\ QueueDepth \in Nat /\ MaxAttempts \in Nat \ {0}
    /\ MaxRequests \in Nat /\ MaxErrors \in Nat /\ MaxStops \in Nat

VARIABLES
    published,  \* events handed to Publish
    queue,      \* Dispatcher.queue
    timers,     \* Dispatcher.timers, each with its job
    work,       \* work[w]: what a worker, or a test request, is doing
    attached,   \* the channels ChannelsForMonitor returns and WantsEvent accepts
    log,        \* notification_deliveries
    lastError,  \* channels whose last_error is set
    requests, errors, stops,   \* counters for the bounds
    (* For the properties; the program keeps none of it. *)
    owed,       \* <<event, channel>> some fan-out resolved
    excused     \* those lost to a full queue, a store error or a stop

storeVars == <<attached, log, lastError>>
boundVars == <<requests, errors, stops>>
traceVars == <<owed, excused>>
vars == <<published, queue, timers, work, storeVars, boundVars, traceVars>>

Actors   == Workers \cup Testers
Outcomes == {"succeeded", "suppressed", "failed", "refused"}

\* A job; channel -1 stands for nil: resolve the list first.
Job  == [event : Events, channel : Channels \cup {-1}, attempt : 1 .. MaxAttempts]
Row  == [event : Events \cup {Sample}, channel : Channels, attempt : Nat, outcome : Outcomes]
Idle == [step |-> "idle", event |-> Sample, todo |-> {}, attempt |-> 0, outcome |-> "succeeded"]

Running ==
    [step : {"idle", "resolve", "send", "record", "retry", "mark"},
     event : Events \cup {Sample}, todo : SUBSET Channels,
     attempt : 0 .. MaxAttempts, outcome : Outcomes]

\* Every variable has its type, the queue keeps its depth, and no job is ever
\* past the last attempt.
TypeOK ==
    /\ published \subseteq Events
    /\ queue \in Seq(Job) /\ Len(queue) <= QueueDepth
    /\ timers \subseteq Job
    /\ work \in [Actors -> Running]
    /\ attached \subseteq Channels
    /\ log \subseteq Row
    /\ lastError \subseteq Channels

Init ==
    /\ published = {} /\ queue = <<>> /\ timers = {}
    /\ work = [w \in Actors |-> Idle]
    /\ attached = Channels /\ log = {} /\ lastError = {}
    /\ requests = 0 /\ errors = 0 /\ stops = 0
    /\ owed = {} /\ excused = {}

-----------------------------------------------------------------------------
(* The queue *)

HasRoom == Len(queue) < QueueDepth

\* Publish: a full queue drops the event and counts it.
Publish(e) ==
    /\ e \notin published
    /\ published' = published \cup {e}
    /\ queue' = IF HasRoom
                THEN Append(queue, [event |-> e, channel |-> -1, attempt |-> 1])
                ELSE queue
    /\ UNCHANGED <<timers, work, storeVars, boundVars, traceVars>>

MutDequeued == queue

\* The queue without the job a worker takes.
Dequeued == Tail(queue)

\* A worker takes a job, which names its channel only if it is a retry.
Take(w) ==
    /\ work[w] = Idle /\ queue # <<>>
    /\ queue' = Dequeued
    /\ LET j == Head(queue) IN
       work' = [work EXCEPT ![w] =
           [step |-> IF j.channel = -1 THEN "resolve" ELSE "send", event |-> j.event,
            todo |-> {j.channel} \ {-1}, attempt |-> j.attempt, outcome |-> "succeeded"]]
    /\ UNCHANGED <<published, timers, storeVars, boundVars, traceVars>>

\* run: the channels the event goes to, as they are now.
Resolve(w) ==
    /\ work[w].step = "resolve"
    /\ work' = [work EXCEPT ![w] =
           IF attached = {} THEN Idle ELSE [@ EXCEPT !.step = "send", !.todo = attached]]
    /\ owed' = owed \cup ({work[w].event} \X attached)
    /\ UNCHANGED <<published, queue, timers, storeVars, boundVars, excused>>

\* ChannelsForMonitor failed: logged, and the event is gone.
ResolveFails(w) ==
    /\ work[w].step = "resolve"
    /\ errors < MaxErrors /\ errors' = errors + 1
    /\ work' = [work EXCEPT ![w] = Idle]
    /\ UNCHANGED <<published, queue, timers, storeVars, requests, stops, traceVars>>

-----------------------------------------------------------------------------
(* One attempt *)

\* Channels are taken in the order of their ids.
Current(w) == Min(work[w].todo)

Pair(w) == <<work[w].event, Current(w)>>

\* The attempt at this channel is over; on to the next one, each from its
\* first attempt.
NextChannel(w) ==
    IF work[w].todo = {Current(w)} THEN Idle
    ELSE [work[w] EXCEPT !.step = "send", !.todo = @ \ {Current(w)}]

\* deliver: a receipt, ErrNotApplicable, or an error that retryable accepts or
\* refuses.
Send(w, o) ==
    /\ work[w].step = "send"
    /\ work' = [work EXCEPT ![w].step = "record", ![w].outcome = o]
    /\ UNCHANGED <<published, queue, timers, storeVars, boundVars, traceVars>>

MayRetry(w) == work[w].outcome = "failed" /\ work[w].attempt < MaxAttempts

MutAfterRecord(w) ==
    CASE work[w].outcome = "suppressed"  -> NextChannel(w)
      [] MayRetry(w)                     -> NextChannel(w)
      [] OTHER                           -> [work[w] EXCEPT !.step = "mark"]

\* What attempt does once the row is written.  A test is never retried.
AfterRecord(w) ==
    CASE work[w].outcome = "suppressed"  -> NextChannel(w)
      [] MayRetry(w) /\ w \in Workers    -> [work[w] EXCEPT !.step = "retry"]
      [] OTHER                           -> [work[w] EXCEPT !.step = "mark"]

\* record: a row for the attempt, whatever its outcome.
Record(w) ==
    /\ work[w].step = "record"
    /\ work' = [work EXCEPT ![w] = AfterRecord(w)]
    /\ log' = log \cup {[event |-> work[w].event, channel |-> Current(w),
                         attempt |-> work[w].attempt, outcome |-> work[w].outcome]}
    /\ UNCHANGED <<published, queue, timers, attached, lastError, boundVars, traceVars>>

\* RecordDelivery failed: logged, and the attempt goes on.
RecordFails(w) ==
    /\ work[w].step = "record"
    /\ errors < MaxErrors /\ errors' = errors + 1
    /\ work' = [work EXCEPT ![w] = AfterRecord(w)]
    /\ excused' = excused \cup {Pair(w)}
    /\ UNCHANGED <<published, queue, timers, storeVars, requests, stops, owed>>

\* mark: a success clears last_error, and the end of the attempts sets it.
Mark(w) ==
    /\ work[w].step = "mark"
    /\ work' = [work EXCEPT ![w] = NextChannel(w)]
    /\ lastError' = IF work[w].outcome = "succeeded" THEN lastError \ {Current(w)}
                                                     ELSE lastError \cup {Current(w)}
    /\ UNCHANGED <<published, queue, timers, attached, log, boundVars, traceVars>>

\* MarkChannelResult failed: logged.
MarkFails(w) ==
    /\ work[w].step = "mark"
    /\ errors < MaxErrors /\ errors' = errors + 1
    /\ work' = [work EXCEPT ![w] = NextChannel(w)]
    /\ UNCHANGED <<published, queue, timers, storeVars, requests, stops, traceVars>>

MutRetryJob(w) ==
    [event |-> work[w].event, channel |-> Current(w), attempt |-> work[w].attempt]

\* The job of the next attempt, with the channel as it was resolved.
RetryJob(w) ==
    [event |-> work[w].event, channel |-> Current(w), attempt |-> work[w].attempt + 1]

ScheduleRetry(w) ==
    /\ work[w].step = "retry"
    /\ timers' = timers \cup {RetryJob(w)}
    /\ work' = [work EXCEPT ![w] = NextChannel(w)]
    /\ UNCHANGED <<published, queue, storeVars, boundVars, traceVars>>

\* The timer fires: the job goes back on the queue, or is dropped from a full one.
RetryFires(j) ==
    /\ j \in timers /\ timers' = timers \ {j}
    /\ IF HasRoom
       THEN queue' = Append(queue, j) /\ UNCHANGED excused
       ELSE /\ excused' = excused \cup {<<j.event, j.channel>>}
            /\ UNCHANGED queue
    /\ UNCHANGED <<published, work, storeVars, boundVars, owed>>

-----------------------------------------------------------------------------
(* Around it *)

\* Test: one delivery of the sample event, in the request that asked for it.
Test(t, c) ==
    /\ work[t] = Idle
    /\ requests < MaxRequests /\ requests' = requests + 1
    /\ work' = [work EXCEPT ![t] = [step |-> "send", event |-> Sample, todo |-> {c},
                                    attempt |-> 1, outcome |-> "succeeded"]]
    /\ UNCHANGED <<published, queue, timers, storeVars, errors, stops, traceVars>>

\* The operator attaches, detaches, enables or disables a channel.
ToggleChannel(c) ==
    /\ requests < MaxRequests /\ requests' = requests + 1
    /\ attached' = IF c \in attached THEN attached \ {c} ELSE attached \cup {c}
    /\ UNCHANGED <<published, queue, timers, work, log, lastError, errors, stops,
                   traceVars>>

\* The process stops, and starts again with an empty queue.
Stop ==
    /\ stops < MaxStops /\ stops' = stops + 1
    /\ queue' = <<>> /\ timers' = {} /\ work' = [w \in Actors |-> Idle]
    /\ excused' = owed
    /\ UNCHANGED <<published, storeVars, requests, errors, owed>>

Attempt(w) ==
    \/ \E o \in Outcomes : Send(w, o)
    \/ Record(w) \/ Mark(w) \/ ScheduleRetry(w)

Next ==
    \/ \E e \in Events : Publish(e)
    \/ \E w \in Workers : Take(w) \/ Resolve(w) \/ ResolveFails(w)
    \/ \E w \in Actors : Attempt(w) \/ RecordFails(w) \/ MarkFails(w)
    \/ \E j \in timers : RetryFires(j)
    \/ \E t \in Testers, c \in Channels : Test(t, c)
    \/ \E c \in Channels : ToggleChannel(c)
    \/ Stop

Spec == Init /\ [][Next]_vars

\* Workers run, every send ends (each provider has a timeout), timers fire.
Fairness ==
    /\ \A w \in Workers : WF_vars(Take(w) \/ Resolve(w) \/ Attempt(w))
    /\ WF_vars(\E j \in timers : RetryFires(j))

FairSpec == Spec /\ Fairness

-----------------------------------------------------------------------------
(* Properties *)

\* The places that hold the delivery of an event to a channel.
QueuedAt(e, c) == {i \in 1 .. Len(queue) : queue[i].event = e /\ queue[i].channel = c}
TimersOf(e, c) == {j \in timers : j.event = e /\ j.channel = c}
HeldBy(e, c)   == {w \in Workers : work[w].event = e /\ c \in work[w].todo}

Copies(e, c) ==
    Cardinality(QueuedAt(e, c)) + Cardinality(TimersOf(e, c)) + Cardinality(HeldBy(e, c))

\* The log shows how the delivery ended.
Ended(e, c) ==
    \E r \in log : /\ r.event = e /\ r.channel = c
                   /\ r.outcome # "failed" \/ r.attempt = MaxAttempts

\* An alert is never in two places: no interleaving of workers, retry timers
\* and the queue delivers the same event to the same channel twice at once, or
\* again after the log shows it ended (run, attempt, scheduleRetry).
NeverDuplicated ==
    \A e \in Events, c \in Channels :
        /\ Copies(e, c) <= 1
        /\ Ended(e, c) => QueuedAt(e, c) = {} /\ TimersOf(e, c) = {}

\* An alert owed to a channel is never forgotten: it is still on its way, or
\* the log shows how it ended, or a full queue, a store error or a stop
\* explains its loss (run, attempt, scheduleRetry).
NeverForgotten ==
    \A p \in owed : Copies(p[1], p[2]) > 0 \/ Ended(p[1], p[2]) \/ p \in excused

\* The log of one delivery reads as it happened: attempts are numbered once
\* each, and only a failure worth retrying is followed by another attempt.
LogReadsTrue ==
    \A r, s \in log :
        /\ r.event \in Events /\ r.event = s.event /\ r.channel = s.channel
        /\ r # s
        => /\ r.attempt # s.attempt
           /\ r.attempt < s.attempt => r.outcome = "failed"

\* Every event leaves the dispatcher, whatever fails (the attempts are bounded
\* and workers do not wait for one another).
AlertsSettle ==
    \A e \in Events : []<>(/\ \A i \in 1 .. Len(queue) : queue[i].event # e
                           /\ \A j \in timers : j.event # e
                           /\ \A w \in Workers : work[w].event # e)
=============================================================================

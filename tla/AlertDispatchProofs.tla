------------------------ MODULE AlertDispatchProofs ------------------------
(***************************************************************************)
(* Proofs about AlertDispatch, for any sets of events, channels, workers   *)
(* and test requests, any depth of the queue and number of attempts, and   *)
(* any number of toggles, store errors and stops.                          *)
(***************************************************************************)
EXTENDS AlertDispatch, FiniteSetTheorems, WellFoundedInduction, TLAPS

\* What an actor is doing fits its step: nobody sends without a channel, only a
\* worker retries, and it retries what may be retried.
Fits(w, x) ==
    /\ x.step = "idle" => x = Idle
    /\ x.step = "resolve" => x.todo = {} /\ w \in Workers
    /\ x.step \in {"send", "record", "retry", "mark"} => x.todo # {}
    /\ x.step = "retry" => w \in Workers /\ x.outcome = "failed" /\ x.attempt < MaxAttempts
    /\ w \in Workers /\ x.step # "idle" => x.event \in Events
    /\ w \in Testers => x.event = Sample

StepsFit ==
    /\ \A w \in Actors : Fits(w, work[w])
    /\ \A j \in timers : j.channel # -1
    /\ owed \subseteq Events \X Channels

\* Only what was published is anywhere.
AllPublished ==
    /\ \A i \in 1 .. Len(queue) : queue[i].event \in published
    /\ \A j \in timers : j.event \in published
    /\ \A w \in Workers : work[w].event \in Events => work[w].event \in published
    /\ \A r \in log : r.event \in Events => r.event \in published

\* Two jobs of the queue or the timers are of different events, or of two
\* channels both of which are known.
Apart(j, k) == j.event = k.event => j.channel # k.channel /\ j.channel # -1 /\ k.channel # -1

\* A worker and a job are of different events, or the worker knows its
\* channels and the job is for another one.
Clear(w, j) ==
    work[w].event = j.event =>
      work[w].step # "resolve" /\ j.channel # -1 /\ j.channel \notin work[w].todo

\* The same of two workers.
Disjoint(v, w) ==
    work[v].event = work[w].event /\ work[w].event \in Events =>
      /\ work[v].step # "resolve" /\ work[w].step # "resolve"
      /\ work[v].todo \cap work[w].todo = {}

\* One place: an event whose channels are not known yet is in one place alone,
\* and so is each channel of an event whose channels are.
OnePlace ==
    /\ \A i, k \in 1 .. Len(queue) : i # k => Apart(queue[i], queue[k])
    /\ \A j, k \in timers : j # k => Apart(j, k)
    /\ \A i \in 1 .. Len(queue), j \in timers : Apart(queue[i], j)
    /\ \A i \in 1 .. Len(queue), w \in Workers : Clear(w, queue[i])
    /\ \A j \in timers, w \in Workers : Clear(w, j)
    /\ \A v, w \in Workers : v # w => Disjoint(v, w)

\* The log says nothing final of what a job stands for.
Open(j) == \A c \in Channels : j.channel \in {c, -1} => ~Ended(j.event, c)

\* The log says nothing final of what is still on its way, but of a channel
\* that a worker is about to mark.
NotOver ==
    /\ \A i \in 1 .. Len(queue) : Open(queue[i])
    /\ \A j \in timers : Open(j)
    /\ \A w \in Workers : \A c \in Channels :
         work[w].event \in Events /\ Ended(work[w].event, c) =>
           /\ work[w].step # "resolve"
           /\ c \in work[w].todo => work[w].step = "mark" /\ c = Current(w)

\* What a worker marks is in the log, or a store error kept it out.
MarksExplained ==
    \A w \in Workers : work[w].step = "mark" =>
      Ended(work[w].event, Current(w)) \/ Pair(w) \in excused

\* Where the delivery of an event to a channel is, if it is anywhere.
Somewhere(e, c) ==
    \/ \E i \in 1 .. Len(queue) : queue[i].event = e /\ queue[i].channel = c
    \/ \E j \in timers : j.event = e /\ j.channel = c
    \/ \E w \in Workers : work[w].event = e /\ c \in work[w].todo

\* NeverForgotten, without counting.
NoneForgotten ==
    \A p \in owed : Somewhere(p[1], p[2]) \/ Ended(p[1], p[2]) \/ p \in excused

\* The inductive invariant.
DispatchInv ==
    TypeOK /\ StepsFit /\ AllPublished /\ OnePlace /\ NotOver /\ MarksExplained /\ NoneForgotten

-----------------------------------------------------------------------------
(* The operators *)

\* The least of a set of channels is one of them.
LEMMA MinIn ==
    ASSUME NEW S \in SUBSET Nat, S # {}
    PROVE  Min(S) \in S
  <1>1. PICK x \in S : \A y \in S : ~ (<<y, x>> \in OpToRel(<, Nat))
    BY NatLessThanWellFounded, WFMin, Zenon
  <1>2. \A y \in S : ~ (y < x)
    BY <1>1, Zenon DEF OpToRel
  <1>3. \A y \in S : x <= y
    BY <1>2
  <1> QED
    BY <1>3 DEF Min

\* What becomes of an actor that goes on: the same event, no channel more.
Narrows(x, y) ==
    \/ x = Idle
    \/ x.event = y.event /\ x.todo \subseteq y.todo /\ x.step # "resolve"

\* Current picks a channel the actor still has to do.
LEMMA CurrentIsDue ==
    ASSUME AlertDispatchAssumption, TypeOK, StepsFit, NEW w \in Actors,
           work[w].step \in {"send", "record", "retry", "mark"}
    PROVE  Current(w) \in work[w].todo /\ Current(w) \in Channels
  <1>1. work[w] \in Running /\ work[w].todo \in SUBSET Channels /\ work[w].todo # {}
    BY DEF TypeOK, StepsFit, Fits, Running
  <1>2. work[w].todo \in SUBSET Nat
    BY <1>1 DEF AlertDispatchAssumption
  <1> QED
    BY <1>1, <1>2, MinIn DEF Current

\* NextChannel leaves the current channel behind and nothing else.
LEMMA NextChannelNarrows ==
    ASSUME AlertDispatchAssumption, TypeOK, StepsFit, NEW w \in Actors,
           work[w].step \in {"record", "retry", "mark"}
    PROVE  /\ NextChannel(w) \in Running /\ Fits(w, NextChannel(w))
           /\ Narrows(NextChannel(w), work[w])
           /\ NextChannel(w).step \in {"idle", "send"}
           /\ NextChannel(w).todo = work[w].todo \ {Current(w)}
  <1>1. work[w] \in Running /\ Fits(w, work[w])
    BY DEF TypeOK, StepsFit
  <1>2. Current(w) \in work[w].todo
    BY CurrentIsDue
  <1>3. CASE work[w].todo = {Current(w)}
    <2>1. NextChannel(w) = Idle
      BY <1>3 DEF NextChannel
    <2>2. Idle \in Running /\ Fits(w, Idle)
      BY DEF Idle, Running, Fits, Outcomes, AlertDispatchAssumption
    <2> QED
      BY <2>1, <2>2, <1>3 DEF Narrows, Idle
  <1>4. CASE work[w].todo # {Current(w)}
    <2> DEFINE x == [work[w] EXCEPT !.step = "send", !.todo = @ \ {Current(w)}]
    <2>1. NextChannel(w) = x
      BY <1>4 DEF NextChannel
    <2>2. x.step = "send" /\ x.todo = work[w].todo \ {Current(w)} /\ x.event = work[w].event
      BY <1>1 DEF Running
    <2>3. x \in Running
      BY <1>1 DEF Running
    <2>4. x.todo # {}
      BY <1>2, <1>4, <2>2
    <2>5. Fits(w, x)
      BY <1>1, <2>2, <2>4 DEF Fits
    <2> QED
      BY <2>1, <2>2, <2>3, <2>5 DEF Narrows
  <1> QED
    BY <1>3, <1>4

\* AfterRecord: on to the next channel after a suppressed attempt, a retry of a
\* failure that may be retried, and else a mark; the channels stay the same.
LEMMA AfterRecordNarrows ==
    ASSUME AlertDispatchAssumption, TypeOK, StepsFit, NEW w \in Actors,
           work[w].step = "record"
    PROVE  /\ AfterRecord(w) \in Running /\ Fits(w, AfterRecord(w))
           /\ Narrows(AfterRecord(w), work[w])
           /\ \/ /\ work[w].outcome = "suppressed"
                 /\ AfterRecord(w).step \in {"idle", "send"}
                 /\ AfterRecord(w).todo = work[w].todo \ {Current(w)}
              \/ /\ work[w].outcome = "failed" /\ work[w].attempt < MaxAttempts
                 /\ AfterRecord(w).step = "retry" /\ AfterRecord(w).todo = work[w].todo
              \/ /\ work[w].outcome = "failed" /\ w \in Workers => work[w].attempt = MaxAttempts
                 /\ AfterRecord(w).step = "mark" /\ AfterRecord(w).todo = work[w].todo
                 /\ AfterRecord(w).event = work[w].event
  <1>1. work[w] \in Running /\ Fits(w, work[w])
    BY DEF TypeOK, StepsFit
  <1>2. CASE work[w].outcome = "suppressed"
    <2>1. AfterRecord(w) = NextChannel(w)
      BY <1>2 DEF AfterRecord, MayRetry
    <2> QED
      BY <1>2, <2>1, NextChannelNarrows
  <1>3. CASE work[w].outcome # "suppressed" /\ MayRetry(w) /\ w \in Workers
    <2> DEFINE x == [work[w] EXCEPT !.step = "retry"]
    <2>1. AfterRecord(w) = x
      BY <1>3 DEF AfterRecord
    <2>2. /\ x.step = "retry" /\ x.todo = work[w].todo /\ x.event = work[w].event
          /\ x.outcome = work[w].outcome /\ x.attempt = work[w].attempt /\ x \in Running
      BY <1>1 DEF Running
    <2>3. Fits(w, x) /\ Narrows(x, work[w])
      BY <1>1, <1>3, <2>2 DEF Fits, Narrows, MayRetry
    <2> QED
      BY <1>3, <2>1, <2>2, <2>3 DEF MayRetry
  <1>4. CASE work[w].outcome # "suppressed" /\ ~ (MayRetry(w) /\ w \in Workers)
    <2> DEFINE x == [work[w] EXCEPT !.step = "mark"]
    <2>1. AfterRecord(w) = x
      BY <1>4 DEF AfterRecord
    <2>2. /\ x.step = "mark" /\ x.todo = work[w].todo /\ x.event = work[w].event
          /\ x.outcome = work[w].outcome /\ x.attempt = work[w].attempt /\ x \in Running
      BY <1>1 DEF Running
    <2>3. Fits(w, x) /\ Narrows(x, work[w])
      BY <1>1, <2>2 DEF Fits, Narrows
    <2>4. work[w].outcome = "failed" /\ w \in Workers => work[w].attempt = MaxAttempts
      BY <1>1, <1>4 DEF MayRetry, Running, AlertDispatchAssumption
    <2> QED
      BY <2>1, <2>2, <2>3, <2>4
  <1> QED
    BY <1>2, <1>3, <1>4

-----------------------------------------------------------------------------
(* A step of one actor *)

\* The jobs of the queue are jobs.
LEMMA QueueHoldsJobs ==
    ASSUME TypeOK
    PROVE  \A i \in 1 .. Len(queue) : queue[i] \in Job
  BY DEF TypeOK

\* The events of jobs are events, and their channels are channels or -1.
LEMMA JobsAreJobs ==
    ASSUME NEW j \in Job
    PROVE  /\ j.event \in Events /\ j.channel \in Channels \cup {-1}
           /\ j.attempt \in 1 .. MaxAttempts
  BY DEF Job

\* An actor that narrows what it does stays clear of the jobs and the workers it
\* was clear of.
LEMMA NarrowingStaysClear ==
    ASSUME AlertDispatchAssumption, TypeOK, OnePlace, NEW w \in Actors, NEW x,
           Narrows(x, work[w]), work' = [work EXCEPT ![w] = x]
    PROVE  /\ \A v \in Workers, j \in Job : Clear(v, j) => Clear(v, j)'
           /\ \A u, v \in Workers : u # v => Disjoint(u, v)'
  <1>1. Sample \notin Events
    BY DEF AlertDispatchAssumption
  <1>2. \A v \in Workers : work'[v] = IF v = w THEN x ELSE work[v]
    BY DEF TypeOK, Actors
  <1>3. \A v \in Workers, j \in Job : Clear(v, j) => Clear(v, j)'
    BY <1>1, <1>2, JobsAreJobs DEF Clear, Narrows, Idle
  <1>4. \A u, v \in Workers : u # v /\ Disjoint(u, v) /\ Disjoint(v, u) => Disjoint(u, v)'
    BY <1>1, <1>2 DEF Disjoint, Narrows, Idle
  <1> QED
    BY <1>3, <1>4 DEF OnePlace

\* So it leaves everything in one place.
LEMMA NarrowingKeepsPlaces ==
    ASSUME AlertDispatchAssumption, TypeOK, OnePlace, NEW w \in Actors, NEW x,
           Narrows(x, work[w]), work' = [work EXCEPT ![w] = x],
           UNCHANGED <<queue, timers>>
    PROVE  OnePlace'
  <1>1. /\ \A v \in Workers, j \in Job : Clear(v, j) => Clear(v, j)'
        /\ \A u, v \in Workers : u # v => Disjoint(u, v)'
    BY NarrowingStaysClear
  <1>2. timers \subseteq Job
    BY DEF TypeOK
  <1> QED
    BY <1>1, <1>2, QueueHoldsJobs DEF OnePlace, Apart

\* Ended, of a given log.
EndedIn(rows, e, c) ==
    \E r \in rows : /\ r.event = e /\ r.channel = c
                    /\ r.outcome # "failed" \/ r.attempt = MaxAttempts

\* What the step of one actor must respect for the log and the places to agree:
\* the log grows only by the attempt it recorded, and what it lets go of, or
\* is about to mark, is in the log or lost to a store error.
Accounts(w, x) ==
    /\ log \subseteq log' /\ excused \subseteq excused'
    /\ \A r \in log' \ log :
         r.event = work[w].event /\ r.channel = Current(w) /\ work[w].step = "record"
    /\ w \in Workers =>
         /\ \A c \in work[w].todo \ x.todo :
              EndedIn(log', work[w].event, c) \/ <<work[w].event, c>> \in excused'
         /\ \A c \in x.todo :
              EndedIn(log', work[w].event, c) => x.step = "mark" /\ c = Min(x.todo)
         /\ x.step = "mark" =>
              \/ EndedIn(log', work[w].event, Min(x.todo))
              \/ <<work[w].event, Min(x.todo)>> \in excused'

\* An actor that narrows what it does and accounts for it keeps the invariant.
LEMMA NarrowingKeepsInv ==
    ASSUME AlertDispatchAssumption, DispatchInv, NEW w \in Actors, NEW x \in Running,
           Fits(w, x), Narrows(x, work[w]), Accounts(w, x),
           work' = [work EXCEPT ![w] = x],
           UNCHANGED <<published, queue, timers, attached, owed>>,
           log' \subseteq Row, lastError' \subseteq Channels
    PROVE  DispatchInv'
  <1> USE DEF DispatchInv
  <1>0. Sample \notin Events /\ Workers \cap Testers = {}
    BY DEF AlertDispatchAssumption
  <1>1. /\ \A v \in Actors : work'[v] = IF v = w THEN x ELSE work[v]
        /\ \A v \in Workers : v \in Actors
    BY DEF TypeOK, Actors
  <1>2. TypeOK'
    BY DEF TypeOK
  <1>3. StepsFit'
    BY <1>1 DEF StepsFit, Fits
  <1>4. OnePlace'
    BY NarrowingKeepsPlaces
  <1>5. AllPublished'
    <2>1. \A r \in log' : r.event \in Events => r.event \in published
      <3> SUFFICES ASSUME NEW r \in log' \ log, r.event \in Events
                   PROVE  r.event \in published
        BY DEF AllPublished
      <3>1. r.event = work[w].event
        BY DEF Accounts
      <3>2. w \in Workers
        BY <1>0, <3>1 DEF StepsFit, Fits, Actors
      <3> QED
        BY <3>1, <3>2 DEF AllPublished
    <2> QED
      BY <2>1, <1>0, <1>1 DEF AllPublished, Narrows, Idle
  <1>6. \A e \in Events, c \in Channels : Ended(e, c) => Ended(e, c)'
    BY DEF Ended, Accounts
  <1>7. \A e \in Events, c \in Channels : Ended(e, c)' /\ ~Ended(e, c) =>
          w \in Workers /\ work[w].event = e /\ c \in work[w].todo /\ work[w].step = "record"
    <2> SUFFICES ASSUME NEW e \in Events, NEW c \in Channels, NEW r \in log' \ log,
                        r.event = e, r.channel = c
                 PROVE  /\ w \in Workers /\ work[w].event = e /\ c \in work[w].todo
                        /\ work[w].step = "record"
      BY DEF Ended
    <2>1. work[w].event = e /\ c = Current(w) /\ work[w].step = "record"
      BY DEF Accounts
    <2>2. w \in Workers
      BY <1>0, <2>1 DEF StepsFit, Fits, Actors
    <2> QED
      BY <2>1, <2>2, CurrentIsDue
  <1>8. NotOver'
    <2>1. \A j \in Job : Open(j) /\ (w \in Workers => Clear(w, j)) => Open(j)'
      BY <1>6, <1>7, JobsAreJobs DEF Open, Clear
    <2>2. timers \subseteq Job
      BY DEF TypeOK
    <2>3. /\ \A i \in 1 .. Len(queue) : Open(queue[i]) /\ (w \in Workers => Clear(w, queue[i]))
          /\ \A j \in timers : Open(j) /\ (w \in Workers => Clear(w, j))
      BY DEF NotOver, OnePlace
    <2>4. /\ (\A i \in 1 .. Len(queue) : Open(queue[i]))'
          /\ (\A j \in timers : Open(j))'
      BY <2>1, <2>2, <2>3, QueueHoldsJobs
    <2>5. ASSUME NEW v \in Workers, NEW c \in Channels, v # w,
                 work[v].event \in Events, Ended(work[v].event, c)'
          PROVE  work[v].step # "resolve" /\ (c \in work[v].todo => work[v].step = "mark" /\ c = Current(v))
      <3>1. CASE Ended(work[v].event, c)
        BY <2>5, <3>1 DEF NotOver
      <3>2. CASE ~Ended(work[v].event, c)
        <4>1. /\ w \in Workers /\ work[w].event = work[v].event
              /\ c \in work[w].todo
          BY <1>7, <2>5, <3>2
        <4>2. Disjoint(v, w)
          BY <2>5, <4>1 DEF OnePlace
        <4> QED
          BY <2>5, <4>1, <4>2 DEF Disjoint
      <3> QED
        BY <3>1, <3>2
    <2>6. ASSUME w \in Workers, NEW c \in Channels, x.event \in Events, Ended(x.event, c)'
          PROVE  x.step # "resolve" /\ (c \in x.todo => x.step = "mark" /\ c = Min(x.todo))
      <3>1. x # Idle /\ x.event = work[w].event /\ x.step # "resolve"
        BY <2>6, <1>0 DEF Narrows, Idle
      <3> QED
        BY <2>6, <3>1 DEF Accounts, Ended, EndedIn
    <2>7. \A v \in Workers : Current(v)' = IF v = w THEN Min(x.todo) ELSE Current(v)
      BY <1>1 DEF Current
    <2> QED
      BY <2>4, <2>5, <2>6, <2>7, <1>1 DEF NotOver
  <1>9. MarksExplained'
    <2> SUFFICES ASSUME NEW v \in Workers, work'[v].step = "mark"
                 PROVE  Ended(work[v].event, Current(v))' \/ Pair(v)' \in excused'
      BY DEF MarksExplained
    <2>1. CASE v = w
      <3>1. work'[w] = x /\ Current(w)' = Min(x.todo) /\ Pair(w)' = <<x.event, Min(x.todo)>>
        BY <1>1 DEF Current, Pair
      <3>2. x.event = work[w].event
        BY <2>1, <3>1 DEF Narrows, Idle
      <3>3. \/ EndedIn(log', x.event, Min(x.todo))
            \/ <<x.event, Min(x.todo)>> \in excused'
        BY <2>1, <3>1, <3>2 DEF Accounts
      <3> QED
        BY <2>1, <3>1, <3>3 DEF Ended, EndedIn
    <2>2. CASE v # w
      <3>1. work'[v] = work[v] /\ Current(v)' = Current(v) /\ Pair(v)' = Pair(v)
        BY <1>1, <2>2 DEF Current, Pair
      <3>2. work[v].event \in Events /\ Current(v) \in Channels
        BY <1>1, <3>1, CurrentIsDue DEF StepsFit, Fits
      <3> QED
        BY <1>6, <3>1, <3>2 DEF MarksExplained, Accounts
    <2> QED
      BY <2>1, <2>2
  <1>10. NoneForgotten'
    <2> SUFFICES ASSUME NEW p \in owed
                 PROVE  Somewhere(p[1], p[2])' \/ Ended(p[1], p[2])' \/ p \in excused'
      BY DEF NoneForgotten
    <2>1. p[1] \in Events /\ p[2] \in Channels /\ p = <<p[1], p[2]>>
      BY DEF StepsFit
    <2>2. CASE Ended(p[1], p[2]) \/ p \in excused
      BY <1>6, <2>1, <2>2 DEF Accounts
    <2>3. CASE \/ \E i \in 1 .. Len(queue) : queue[i].event = p[1] /\ queue[i].channel = p[2]
               \/ \E j \in timers : j.event = p[1] /\ j.channel = p[2]
      BY <2>3 DEF Somewhere
    <2>4. CASE \E v \in Workers : work[v].event = p[1] /\ p[2] \in work[v].todo
      <3> PICK v \in Workers : work[v].event = p[1] /\ p[2] \in work[v].todo
        BY <2>4
      <3>1. CASE v # w
        BY <3>1, <1>1 DEF Somewhere
      <3>2. CASE v = w /\ p[2] \in x.todo
        <4>1. x.event = work[w].event
          BY <3>2 DEF Narrows, Idle
        <4> QED
          BY <1>1, <3>2, <4>1 DEF Somewhere
      <3>3. CASE v = w /\ p[2] \notin x.todo
        <4>1. EndedIn(log', work[w].event, p[2]) \/ <<work[w].event, p[2]>> \in excused'
          BY <3>3 DEF Accounts
        <4> QED
          BY <2>1, <3>3, <4>1 DEF Ended, EndedIn
      <3> QED
        BY <3>1, <3>2, <3>3
    <2> QED
      BY <2>2, <2>3, <2>4 DEF NoneForgotten, Somewhere
  <1> QED
    BY <1>2, <1>3, <1>4, <1>5, <1>8, <1>9, <1>10

\* The attempts, and the fan-out that a store error ends, narrow and account.
LEMMA AttemptsKeepInv ==
    ASSUME AlertDispatchAssumption, DispatchInv, NEW w \in Actors,
           \/ \E o \in Outcomes : Send(w, o)
           \/ Record(w) \/ RecordFails(w) \/ Mark(w) \/ MarkFails(w)
           \/ w \in Workers /\ ResolveFails(w)
    PROVE  DispatchInv'
  <1> USE DEF DispatchInv
  <1>1. /\ work[w] \in Running /\ Fits(w, work[w])
        /\ log \subseteq Row /\ lastError \subseteq Channels
    BY DEF TypeOK, StepsFit
  <1>2. \A c \in Channels : w \in Workers /\ work[w].event \in Events
                            /\ EndedIn(log, work[w].event, c) =>
          /\ work[w].step # "resolve"
          /\ c \in work[w].todo => work[w].step = "mark" /\ c = Current(w)
    BY DEF NotOver, Ended, EndedIn
  <1>3. work[w].todo \subseteq Channels /\ (work[w].step # "idle" /\ w \in Workers => work[w].event \in Events)
    BY <1>1 DEF Running, Fits
  <1>4. ASSUME NEW o \in Outcomes, Send(w, o) PROVE DispatchInv'
    <2> DEFINE x == [work[w] EXCEPT !.step = "record", !.outcome = o]
    <2>1. /\ x \in Running /\ x.step = "record" /\ x.event = work[w].event
          /\ x.todo = work[w].todo
      BY <1>1 DEF Running
    <2>2. Fits(w, x) /\ Narrows(x, work[w])
      BY <1>1, <1>4, <2>1 DEF Fits, Narrows, Send
    <2>3. Accounts(w, x)
      BY <1>2, <1>3, <1>4, <2>1 DEF Accounts, Send, storeVars, traceVars
    <2>4. work' = [work EXCEPT ![w] = x]
      BY <1>4 DEF Send
    <2> HIDE DEF x
    <2> QED
      BY <1>1, <1>4, <2>1, <2>2, <2>3, <2>4, NarrowingKeepsInv DEF Send, storeVars, traceVars
  <1>5. ASSUME Record(w) PROVE DispatchInv'
    <2> DEFINE x == AfterRecord(w)
               r == [event |-> work[w].event, channel |-> Current(w),
                     attempt |-> work[w].attempt, outcome |-> work[w].outcome]
    <2>1. /\ x \in Running /\ Fits(w, x) /\ Narrows(x, work[w])
          /\ \/ /\ work[w].outcome = "suppressed"
                /\ x.step \in {"idle", "send"} /\ x.todo = work[w].todo \ {Current(w)}
             \/ /\ work[w].outcome = "failed" /\ work[w].attempt < MaxAttempts
                /\ x.step = "retry" /\ x.todo = work[w].todo
             \/ /\ work[w].outcome = "failed" /\ w \in Workers => work[w].attempt = MaxAttempts
                /\ x.step = "mark" /\ x.todo = work[w].todo /\ x.event = work[w].event
      BY <1>5, AfterRecordNarrows DEF Record
    <2>2. work' = [work EXCEPT ![w] = x] /\ log' = log \cup {r} /\ excused' = excused
      BY <1>5 DEF Record, traceVars
    <2>3. Current(w) \in work[w].todo /\ Current(w) \in Channels
      BY <1>5, CurrentIsDue DEF Record
    <2>4. r \in Row
      BY <1>1, <2>3 DEF Running, Row
    <2>5. w \in Workers => \A c \in work[w].todo :
            EndedIn(log', work[w].event, c)
              <=> c = Current(w) /\ (work[w].outcome # "failed" \/ work[w].attempt = MaxAttempts)
      <3> SUFFICES ASSUME w \in Workers, NEW c \in work[w].todo
                   PROVE  EndedIn(log', work[w].event, c)
                            <=> c = Current(w) /\ (work[w].outcome # "failed"
                                                   \/ work[w].attempt = MaxAttempts)
        OBVIOUS
      <3>1. ~EndedIn(log, work[w].event, c)
        BY <1>2, <1>3, <1>5 DEF Record
      <3>2. /\ r.event = work[w].event /\ r.channel = Current(w)
            /\ r.attempt = work[w].attempt /\ r.outcome = work[w].outcome
        OBVIOUS
      <3> QED
        BY <2>2, <3>1, <3>2 DEF EndedIn
    <2>6. x.step = "mark" => Min(x.todo) = Current(w)
      BY <2>1 DEF Current
    <2>7. Accounts(w, x)
      <3>1. \A q \in log' \ log :
              q.event = work[w].event /\ q.channel = Current(w) /\ work[w].step = "record"
        BY <1>5, <2>2 DEF Record
      <3>2. ASSUME w \in Workers
            PROVE  /\ \A c \in work[w].todo \ x.todo : EndedIn(log', work[w].event, c)
                   /\ \A c \in x.todo :
                        EndedIn(log', work[w].event, c) => x.step = "mark" /\ c = Min(x.todo)
                   /\ x.step = "mark" => EndedIn(log', work[w].event, Min(x.todo))
        <4>1. CASE /\ work[w].outcome = "suppressed"
                   /\ x.step \in {"idle", "send"} /\ x.todo = work[w].todo \ {Current(w)}
          BY <3>2, <4>1, <2>5
        <4>2. CASE /\ work[w].outcome = "failed" /\ work[w].attempt < MaxAttempts
                   /\ x.step = "retry" /\ x.todo = work[w].todo
          <5>1. work[w].attempt # MaxAttempts
            BY <4>2, <1>1 DEF Running, AlertDispatchAssumption
          <5> QED
            BY <3>2, <4>2, <2>5, <5>1
        <4>3. CASE /\ work[w].outcome = "failed" /\ w \in Workers => work[w].attempt = MaxAttempts
                   /\ x.step = "mark" /\ x.todo = work[w].todo /\ x.event = work[w].event
          BY <3>2, <4>3, <2>3, <2>5, <2>6
        <4> QED
          BY <2>1, <4>1, <4>2, <4>3
      <3> QED
        BY <2>2, <3>1, <3>2 DEF Accounts
    <2> HIDE DEF x, r
    <2>8. log' \subseteq Row /\ UNCHANGED <<published, queue, timers, attached, owed, lastError>>
      BY <1>1, <1>5, <2>2, <2>4 DEF Record, traceVars
    <2> QED
      BY <1>1, <2>1, <2>2, <2>7, <2>8, NarrowingKeepsInv
  <1>6. ASSUME RecordFails(w) PROVE DispatchInv'
    <2> DEFINE x == AfterRecord(w)
    <2>1. /\ x \in Running /\ Fits(w, x) /\ Narrows(x, work[w])
          /\ \/ x.todo = work[w].todo \ {Current(w)} /\ x.step \in {"idle", "send"}
             \/ x.todo = work[w].todo /\ x.step \in {"retry", "mark"}
      BY <1>6, AfterRecordNarrows DEF RecordFails
    <2>2. /\ work' = [work EXCEPT ![w] = x] /\ log' = log
          /\ excused' = excused \cup {<<work[w].event, Current(w)>>}
      BY <1>6 DEF RecordFails, storeVars, Pair
    <2>3. x.step = "mark" => Min(x.todo) = Current(w)
      BY <2>1 DEF Current
    <2>4. Accounts(w, x)
      BY <1>2, <1>3, <1>6, <2>1, <2>2, <2>3 DEF Accounts, RecordFails
    <2> HIDE DEF x
    <2> QED
      BY <1>1, <1>6, <2>1, <2>2, <2>4, NarrowingKeepsInv DEF RecordFails, storeVars
  <1>7. ASSUME Mark(w) \/ MarkFails(w) PROVE DispatchInv'
    <2> DEFINE x == NextChannel(w)
    <2>1. /\ x \in Running /\ Fits(w, x) /\ Narrows(x, work[w])
          /\ x.step \in {"idle", "send"} /\ x.todo = work[w].todo \ {Current(w)}
      BY <1>7, NextChannelNarrows DEF Mark, MarkFails
    <2>2. work' = [work EXCEPT ![w] = x] /\ log' = log /\ excused' = excused
      BY <1>7 DEF Mark, MarkFails, storeVars, traceVars
    <2>3. w \in Workers => EndedIn(log, work[w].event, Current(w)) \/ Pair(w) \in excused
      BY <1>7 DEF MarksExplained, Mark, MarkFails, Ended, EndedIn
    <2>4. Accounts(w, x)
      BY <1>2, <1>3, <1>7, <2>1, <2>2, <2>3 DEF Accounts, Mark, MarkFails, Pair
    <2>5. lastError' \subseteq Channels /\ UNCHANGED <<published, queue, timers, attached, owed>>
      BY <1>1, <1>7, CurrentIsDue DEF Mark, MarkFails, storeVars, traceVars
    <2> HIDE DEF x
    <2> QED
      BY <1>1, <2>1, <2>2, <2>4, <2>5, NarrowingKeepsInv
  <1>8. ASSUME w \in Workers, ResolveFails(w) PROVE DispatchInv'
    <2>1. Idle \in Running /\ Fits(w, Idle) /\ Narrows(Idle, work[w]) /\ Idle.todo = {}
      BY <1>8 DEF Idle, Running, Fits, Outcomes, AlertDispatchAssumption, Narrows
    <2>2. work[w].todo = {}
      BY <1>1, <1>8 DEF Fits, ResolveFails
    <2>3. Accounts(w, Idle)
      BY <1>8, <2>1, <2>2 DEF Accounts, ResolveFails, storeVars, traceVars, Idle
    <2> QED
      BY <1>1, <1>8, <2>1, <2>3, NarrowingKeepsInv DEF ResolveFails, storeVars, traceVars
  <1> QED
    BY <1>4, <1>5, <1>6, <1>7, <1>8

-----------------------------------------------------------------------------
(* The other steps *)

\* A job put on the queue is its last.
LEMMA QueueGrows ==
    ASSUME AlertDispatchAssumption, TypeOK, NEW j \in Job, HasRoom, queue' = Append(queue, j)
    PROVE  /\ queue' \in Seq(Job) /\ Len(queue') <= QueueDepth
           /\ Len(queue') = Len(queue) + 1 /\ queue'[Len(queue) + 1] = j
           /\ \A i \in 1 .. Len(queue) : queue'[i] = queue[i]
  <1>1. queue \in Seq(Job) /\ Len(queue) \in Nat /\ QueueDepth \in Nat
    BY DEF TypeOK, AlertDispatchAssumption
  <1>2. Len(queue) < QueueDepth
    BY DEF HasRoom
  <1> QED
    BY <1>1, <1>2

\* A job taken from the queue is its first.
LEMMA QueueShrinks ==
    ASSUME AlertDispatchAssumption, TypeOK, queue # <<>>, queue' = Tail(queue)
    PROVE  /\ queue' \in Seq(Job) /\ Len(queue') <= QueueDepth /\ Len(queue) \in Nat \ {0}
           /\ Len(queue') = Len(queue) - 1 /\ Head(queue) = queue[1]
           /\ \A i \in 1 .. Len(queue') : queue'[i] = queue[i + 1]
  <1>1. queue \in Seq(Job) /\ Len(queue) \in Nat /\ QueueDepth \in Nat /\ Len(queue) <= QueueDepth
    BY DEF TypeOK, AlertDispatchAssumption
  <1>2. Len(queue) # 0
    BY <1>1
  <1>3. Tail(queue) \in Seq(Job) /\ Len(Tail(queue)) = Len(queue) - 1
    BY <1>1, <1>2
  <1>4. \A i \in 1 .. Len(Tail(queue)) : Tail(queue)[i] = queue[i + 1]
    BY <1>1, <1>2
  <1> QED
    BY <1>1, <1>2, <1>3, <1>4

\* A new event is nowhere yet, so that the job Publish makes stands alone.
LEMMA PublishKeepsInv ==
    ASSUME AlertDispatchAssumption, DispatchInv, NEW e \in Events, Publish(e)
    PROVE  DispatchInv'
  <1> USE DEF DispatchInv
  <1> DEFINE j == [event |-> e, channel |-> -1, attempt |-> 1]
  <1>1. /\ e \notin published /\ published' = published \cup {e}
        /\ UNCHANGED <<timers, work, attached, log, lastError, owed, excused>>
    BY DEF Publish, storeVars, boundVars, traceVars
  <1>2. j \in Job /\ j.event = e /\ j.channel = -1
    BY DEF Job, AlertDispatchAssumption
  <1>3. /\ \A i \in 1 .. Len(queue) : queue[i].event # e
        /\ \A k \in timers : k.event # e
        /\ \A w \in Workers : work[w].event # e
        /\ \A r \in log : r.event # e
    BY <1>1 DEF AllPublished
  <1>4. CASE ~HasRoom
    <2>1. queue' = queue
      BY <1>4 DEF Publish
    <2> QED
      BY <1>1, <2>1 DEF TypeOK, StepsFit, Fits, AllPublished, OnePlace, Apart, Clear, Disjoint,
           NotOver, Open, Ended, MarksExplained, Current, Pair, NoneForgotten, Somewhere
  <1>5. CASE HasRoom
    <2>1. /\ queue' \in Seq(Job) /\ Len(queue') <= QueueDepth
          /\ Len(queue') = Len(queue) + 1 /\ queue'[Len(queue) + 1] = j
          /\ \A i \in 1 .. Len(queue) : queue'[i] = queue[i]
      BY <1>2, <1>5, QueueGrows DEF Publish
    <2>2. Len(queue) \in Nat
      BY DEF TypeOK
    <2> HIDE DEF j
    <2>3. TypeOK' /\ StepsFit' /\ AllPublished'
      BY <1>1, <1>2, <2>1, <2>2 DEF TypeOK, StepsFit, Fits, AllPublished
    <2>4. OnePlace'
      <3>1. \A i \in 1 .. Len(queue') : i \in 1 .. Len(queue) \/ i = Len(queue) + 1
        BY <2>1, <2>2
      <3> QED
        BY <1>1, <1>2, <1>3, <2>1, <3>1 DEF OnePlace, Apart, Clear, Disjoint
    <2>5. NotOver'
      <3>1. \A i \in 1 .. Len(queue') : i \in 1 .. Len(queue) \/ i = Len(queue) + 1
        BY <2>1, <2>2
      <3>2. \A c \in Channels : ~Ended(e, c)
        BY <1>3 DEF Ended
      <3> QED
        BY <1>1, <1>2, <2>1, <3>1, <3>2 DEF NotOver, Open, Ended, Current
    <2>6. MarksExplained' /\ NoneForgotten'
      BY <1>1, <2>1, <2>2 DEF MarksExplained, NoneForgotten, Somewhere, Ended, Current, Pair
    <2> QED
      BY <2>3, <2>4, <2>5, <2>6
  <1> QED
    BY <1>4, <1>5

\* A worker takes the head of the queue, and with it the place.
LEMMA TakeKeepsInv ==
    ASSUME AlertDispatchAssumption, DispatchInv, NEW w \in Workers, Take(w)
    PROVE  DispatchInv'
  <1> USE DEF DispatchInv
  <1> DEFINE j == Head(queue)
             x == [step |-> IF j.channel = -1 THEN "resolve" ELSE "send", event |-> j.event,
                   todo |-> {j.channel} \ {-1}, attempt |-> j.attempt, outcome |-> "succeeded"]
  <1>1. /\ work[w] = Idle /\ queue # <<>> /\ queue' = Tail(queue)
        /\ work' = [work EXCEPT ![w] = x]
        /\ UNCHANGED <<published, timers, attached, log, lastError, owed, excused>>
    BY DEF Take, Dequeued, storeVars, boundVars, traceVars
  <1>2. /\ queue' \in Seq(Job) /\ Len(queue') <= QueueDepth /\ Len(queue) \in Nat \ {0}
        /\ Len(queue') = Len(queue) - 1 /\ j = queue[1]
        /\ \A i \in 1 .. Len(queue') : queue'[i] = queue[i + 1]
    BY <1>1, QueueShrinks
  <1>3. /\ j \in Job /\ j.event \in Events /\ j.channel \in Channels \cup {-1}
        /\ j.attempt \in 1 .. MaxAttempts
    BY <1>2, QueueHoldsJobs, JobsAreJobs
  <1>4. /\ x.event = j.event /\ x.todo = {j.channel} \ {-1} /\ x.attempt = j.attempt
        /\ x.step = (IF j.channel = -1 THEN "resolve" ELSE "send") /\ x.outcome = "succeeded"
        /\ x.todo \subseteq Channels /\ (x.step = "resolve" <=> x.todo = {})
    <2>1. -1 \notin Channels
      BY DEF AlertDispatchAssumption
    <2> QED
      BY <1>3, <2>1
  <1>5. x \in Running
    BY <1>3, <1>4 DEF Running, Outcomes, AlertDispatchAssumption
  <1>6. \A v \in Actors : work'[v] = IF v = w THEN x ELSE work[v]
    BY <1>1 DEF TypeOK
  <1>7. \A v \in Workers : v \in Actors
    BY DEF Actors
  <1>8. w \notin Testers
    BY DEF AlertDispatchAssumption
  <1>9. \A i \in 1 .. Len(queue') : i + 1 \in 1 .. Len(queue) /\ i + 1 # 1
    BY <1>2
  <1>10. 1 \in 1 .. Len(queue)
    BY <1>2
  <1> HIDE DEF j, x
  <1>11. TypeOK' /\ StepsFit'
    BY <1>1, <1>2, <1>3, <1>4, <1>5, <1>6, <1>7, <1>8 DEF TypeOK, StepsFit, Fits
  <1>12. AllPublished'
    BY <1>1, <1>2, <1>4, <1>6, <1>7, <1>9, <1>10 DEF AllPublished
  <1>13. OnePlace'
    <2>1. \A i \in 1 .. Len(queue') : Apart(queue'[i], j)
      BY <1>2, <1>9, <1>10 DEF OnePlace
    <2>2. \A k \in timers : Apart(j, k)
      BY <1>2, <1>10 DEF OnePlace
    <2>3. \A v \in Workers : Clear(v, j)
      BY <1>2, <1>10 DEF OnePlace
    <2>4. \A i \in 1 .. Len(queue') : Clear(w, queue[i])'
      BY <1>4, <1>6, <1>7, <2>1 DEF Clear, Apart
    <2>5. \A k \in timers : Clear(w, k)'
      BY <1>4, <1>6, <1>7, <2>2 DEF Clear, Apart
    <2>6. \A v \in Workers : v # w => Disjoint(v, w)' /\ Disjoint(w, v)'
      BY <1>4, <1>6, <1>7, <2>3 DEF Disjoint, Clear
    <2>7. \A v \in Workers : v # w =>
            /\ \A i \in 1 .. Len(queue') : Clear(v, queue[i])'
            /\ \A k \in timers : Clear(v, k)'
      BY <1>2, <1>6, <1>7, <1>9 DEF OnePlace, Clear
    <2>8. \A u, v \in Workers : u # v /\ u # w /\ v # w => Disjoint(u, v)'
      BY <1>6, <1>7 DEF OnePlace, Disjoint
    <2>9. \A i, k \in 1 .. Len(queue') : i # k => Apart(queue'[i], queue'[k])
      <3> SUFFICES ASSUME NEW i \in 1 .. Len(queue'), NEW k \in 1 .. Len(queue'), i # k
                   PROVE  Apart(queue'[i], queue'[k])
        OBVIOUS
      <3>1. i + 1 \in 1 .. Len(queue) /\ k + 1 \in 1 .. Len(queue) /\ i + 1 # k + 1
        BY <1>9
      <3>2. Apart(queue[i + 1], queue[k + 1])
        BY <3>1 DEF OnePlace
      <3> QED
        BY <1>2, <3>2
    <2>10. \A i \in 1 .. Len(queue'), k \in timers : Apart(queue'[i], k)
      BY <1>2, <1>9 DEF OnePlace
    <2> QED
      BY <1>1, <2>4, <2>5, <2>6, <2>7, <2>8, <2>9, <2>10 DEF OnePlace
  <1>14. NotOver'
    <2>1. \A e, c : Ended(e, c)' = Ended(e, c)
      BY <1>1 DEF Ended
    <2>2. \A i \in 1 .. Len(queue') : Open(queue[i])'
      BY <1>1, <1>2, <1>9 DEF NotOver, Open, Ended
    <2>3. \A k \in timers : Open(k)'
      BY <1>1 DEF NotOver, Open, Ended
    <2>4. \A c \in Channels : Ended(x.event, c) => x.step # "resolve" /\ c \notin x.todo
      BY <1>2, <1>4, <1>10 DEF NotOver, Open
    <2>5. \A v \in Workers : v # w => Current(v)' = Current(v)
      BY <1>6, <1>7 DEF Current
    <2> QED
      BY <1>1, <1>6, <1>7, <2>1, <2>2, <2>3, <2>4, <2>5 DEF NotOver
  <1>15. MarksExplained'
    <2>1. \A v \in Workers : v # w =>
            Current(v)' = Current(v) /\ Pair(v)' = Pair(v) /\ work'[v] = work[v]
      BY <1>6, <1>7 DEF Current, Pair
    <2>2. work'[w].step # "mark"
      BY <1>4, <1>6, <1>7
    <2> QED
      BY <1>1, <2>1, <2>2 DEF MarksExplained, Ended
  <1>16. NoneForgotten'
    <2> SUFFICES ASSUME NEW p \in owed, Somewhere(p[1], p[2]) PROVE Somewhere(p[1], p[2])'
      BY <1>1 DEF NoneForgotten, Ended
    <2>1. p[2] \in Channels /\ p[2] # -1
      BY DEF StepsFit, AlertDispatchAssumption
    <2>2. ASSUME NEW i \in 1 .. Len(queue), queue[i].event = p[1], queue[i].channel = p[2]
          PROVE  Somewhere(p[1], p[2])'
      <3>1. CASE i = 1
        BY <1>2, <1>4, <1>6, <1>7, <2>1, <2>2, <3>1 DEF Somewhere
      <3>2. CASE i # 1
        <4>1. i - 1 \in 1 .. Len(queue') /\ queue'[i - 1] = queue[i]
          BY <1>2, <3>2
        <4> QED
          BY <2>2, <4>1 DEF Somewhere
      <3> QED
        BY <3>1, <3>2
    <2>3. ASSUME NEW v \in Workers, work[v].event = p[1], p[2] \in work[v].todo
          PROVE  Somewhere(p[1], p[2])'
      <3>1. v # w
        BY <1>1, <2>3 DEF Idle
      <3> QED
        BY <1>6, <1>7, <2>3, <3>1 DEF Somewhere
    <2> QED
      BY <1>1, <2>2, <2>3 DEF Somewhere
  <1> QED
    BY <1>11, <1>12, <1>13, <1>14, <1>15, <1>16

\* The fan-out: the one place of the event becomes one place for each channel.
LEMMA ResolveKeepsInv ==
    ASSUME AlertDispatchAssumption, DispatchInv, NEW w \in Workers, Resolve(w)
    PROVE  DispatchInv'
  <1> USE DEF DispatchInv
  <1> DEFINE x == IF attached = {} THEN Idle
                  ELSE [work[w] EXCEPT !.step = "send", !.todo = attached]
             e == work[w].event
  <1>1. /\ work[w].step = "resolve" /\ work' = [work EXCEPT ![w] = x]
        /\ owed' = owed \cup ({e} \X attached)
        /\ UNCHANGED <<published, queue, timers, attached, log, lastError, excused>>
    BY DEF Resolve, storeVars, boundVars
  <1>2. /\ w \in Actors /\ w \notin Testers /\ work[w] \in Running /\ work[w].todo = {}
        /\ e \in Events /\ attached \subseteq Channels /\ Sample \notin Events
    BY <1>1 DEF Actors, AlertDispatchAssumption, TypeOK, StepsFit, Fits
  <1>3. /\ x \in Running /\ x.todo = attached /\ (x = Idle \/ x.event = e)
        /\ x.step \in {"idle", "send"} /\ (x.step = "idle" <=> attached = {})
        /\ (x.step = "idle" => x = Idle)
    <2>1. CASE attached = {}
      BY <2>1 DEF Idle, Running, Outcomes, AlertDispatchAssumption
    <2>2. CASE attached # {}
      BY <1>2, <2>2 DEF Running
    <2> QED
      BY <2>1, <2>2
  <1>4. \A v \in Actors : work'[v] = IF v = w THEN x ELSE work[v]
    BY <1>1 DEF TypeOK
  <1>5. \A v \in Workers : v \in Actors
    BY DEF Actors
  <1>6. timers \subseteq Job
    BY DEF TypeOK
  <1> HIDE DEF x
  <1>7. TypeOK'
    BY <1>1, <1>2, <1>3 DEF TypeOK
  <1>8. StepsFit'
    <2>1. Fits(w, x)
      BY <1>2, <1>3 DEF Fits, Idle
    <2> QED
      BY <1>1, <1>2, <1>4, <2>1 DEF StepsFit, Fits
  <1>9. AllPublished'
    BY <1>1, <1>2, <1>3, <1>4, <1>5 DEF AllPublished, Idle
  <1>10. /\ \A i \in 1 .. Len(queue) : queue[i].event # e
         /\ \A j \in timers : j.event # e
         /\ \A v \in Workers : v # w => work[v].event # e
    BY <1>1, <1>2 DEF OnePlace, Clear, Disjoint
  <1>11. OnePlace'
    <2>1. \A j \in Job : Clear(w, j) /\ j.event # e => Clear(w, j)'
      BY <1>2, <1>3, <1>4, JobsAreJobs DEF Clear, Idle
    <2>2. \A v \in Workers, j \in Job : v # w /\ Clear(v, j) => Clear(v, j)'
      BY <1>4, <1>5 DEF Clear
    <2>3. \A u, v \in Workers : u # v /\ Disjoint(u, v) => Disjoint(u, v)'
      BY <1>2, <1>3, <1>4, <1>5, <1>10 DEF Disjoint, Idle
    <2> QED
      BY <1>1, <1>6, <1>10, <2>1, <2>2, <2>3, QueueHoldsJobs DEF OnePlace, Apart
  <1>12. NotOver'
    <2>1. \A c \in Channels : ~Ended(e, c)
      BY <1>1, <1>2 DEF NotOver
    <2>2. \A v \in Workers : v # w => Current(v)' = Current(v)
      BY <1>4, <1>5 DEF Current
    <2> QED
      BY <1>1, <1>2, <1>3, <1>4, <1>5, <2>1, <2>2 DEF NotOver, Open, Ended, Idle
  <1>13. MarksExplained'
    <2>1. \A v \in Workers : v # w => Current(v)' = Current(v) /\ Pair(v)' = Pair(v)
      BY <1>4, <1>5 DEF Current, Pair
    <2> QED
      BY <1>1, <1>3, <1>4, <1>5, <2>1 DEF MarksExplained, Ended
  <1>14. NoneForgotten'
    <2>1. ASSUME NEW p \in owed
          PROVE  Somewhere(p[1], p[2])' \/ Ended(p[1], p[2])' \/ p \in excused'
      BY <1>1, <1>2, <1>4, <1>5 DEF NoneForgotten, Somewhere, Ended
    <2>2. ASSUME NEW p \in {e} \X attached PROVE Somewhere(p[1], p[2])'
      BY <1>2, <1>3, <1>4, <1>5, <2>2 DEF Somewhere, Idle
    <2> QED
      BY <1>1, <2>1, <2>2 DEF NoneForgotten
  <1> QED
    BY <1>7, <1>8, <1>9, <1>11, <1>12, <1>13, <1>14

\* A retry moves the place from the worker to a timer.
LEMMA ScheduleRetryKeepsInv ==
    ASSUME AlertDispatchAssumption, DispatchInv, NEW w \in Actors, ScheduleRetry(w)
    PROVE  DispatchInv'
  <1> USE DEF DispatchInv
  <1> DEFINE x == NextChannel(w)
             c == Current(w)
             e == work[w].event
             j == RetryJob(w)
  <1>1. /\ work[w].step = "retry" /\ work' = [work EXCEPT ![w] = x]
        /\ timers' = timers \cup {j}
        /\ UNCHANGED <<published, queue, attached, log, lastError, owed, excused>>
    BY DEF ScheduleRetry, storeVars, boundVars, traceVars
  <1>2. /\ work[w] \in Running /\ w \in Workers /\ w \notin Testers /\ e \in Events
        /\ work[w].attempt < MaxAttempts /\ Sample \notin Events /\ -1 \notin Channels
    BY <1>1 DEF TypeOK, StepsFit, Fits, AlertDispatchAssumption
  <1>3. /\ x \in Running /\ Fits(w, x) /\ Narrows(x, work[w])
        /\ x.step \in {"idle", "send"} /\ x.todo = work[w].todo \ {c}
    BY <1>1, NextChannelNarrows
  <1>4. c \in work[w].todo /\ c \in Channels
    BY <1>1, CurrentIsDue
  <1>5. j \in Job /\ j.event = e /\ j.channel = c
    BY <1>2, <1>4 DEF RetryJob, Job, Running, AlertDispatchAssumption
  <1>6. \A v \in Actors : work'[v] = IF v = w THEN x ELSE work[v]
    BY <1>1 DEF TypeOK
  <1>7. \A v \in Workers : v \in Actors
    BY DEF Actors
  <1>8. timers \subseteq Job
    BY DEF TypeOK
  <1> HIDE DEF x, j, c
  <1>9. TypeOK'
    BY <1>1, <1>3, <1>5 DEF TypeOK
  <1>10. StepsFit'
    BY <1>1, <1>2, <1>3, <1>4, <1>5, <1>6 DEF StepsFit, Fits
  <1>11. AllPublished'
    BY <1>1, <1>2, <1>3, <1>5, <1>6, <1>7 DEF AllPublished, Narrows, Idle
  <1>12. /\ \A i \in 1 .. Len(queue) : Apart(queue[i], j) /\ Apart(j, queue[i])
         /\ \A k \in timers : Apart(k, j) /\ Apart(j, k)
         /\ \A v \in Workers : v # w => Clear(v, j)
    BY <1>1, <1>2, <1>4, <1>5 DEF OnePlace, Apart, Clear, Disjoint
  <1>13. OnePlace'
    <2>1. /\ \A v \in Workers, k \in Job : Clear(v, k) => Clear(v, k)'
          /\ \A u, v \in Workers : u # v => Disjoint(u, v)'
      BY <1>1, <1>3, NarrowingStaysClear
    <2>2. work'[w].event = j.event => work'[w].step # "resolve" /\ j.channel # -1 /\ j.channel \notin work'[w].todo
      BY <1>2, <1>3, <1>4, <1>5, <1>6, <1>7
    <2>3. \A v \in Workers : work'[v].event = j.event =>
             work'[v].step # "resolve" /\ j.channel # -1 /\ j.channel \notin work'[v].todo
      BY <1>6, <1>7, <1>12, <2>2 DEF Clear
    <2>4. \A v \in Workers, k \in timers : Clear(v, k)'
      BY <1>8, <2>1 DEF OnePlace
    <2>5. \A v \in Workers, k \in timers' : Clear(v, k)'
      BY <1>1, <2>3, <2>4 DEF Clear
    <2>6. \A i \in 1 .. Len(queue), v \in Workers : Clear(v, queue[i])'
      BY <1>1, <2>1, QueueHoldsJobs DEF OnePlace
    <2>7. \A u, v \in Workers : u # v => Disjoint(u, v)'
      BY <2>1
    <2>8. /\ \A k, l \in timers' : k # l => Apart(k, l)
          /\ \A i \in 1 .. Len(queue), k \in timers' : Apart(queue[i], k)
          /\ \A i, k \in 1 .. Len(queue) : i # k => Apart(queue[i], queue[k])
      BY <1>1, <1>12 DEF OnePlace
    <2> QED
      BY <1>1, <2>5, <2>6, <2>7, <2>8 DEF OnePlace
  <1>14. NotOver'
    <2>1. log' = log
      BY <1>1
    <2>2. \A k \in timers : Open(k)'
      BY <1>1 DEF NotOver, Open, Ended
    <2>3. ~EndedIn(log, e, c)
      BY <1>1, <1>2, <1>4 DEF NotOver, Ended, EndedIn
    <2>4. \A d \in Channels : j.channel \in {d, -1} => ~EndedIn(log', j.event, d)
      BY <1>2, <1>4, <1>5, <2>1, <2>3
    <2>5. \A i \in 1 .. Len(queue) : Open(queue[i])'
      BY <1>1 DEF NotOver, Open, Ended
    <2>6. \A v \in Workers : v # w => Current(v)' = Current(v)
      BY <1>6, <1>7 DEF Current
    <2>7. \A d \in Channels : x.event \in Events /\ EndedIn(log', x.event, d) =>
            x.step # "resolve" /\ d \notin x.todo
      BY <1>1, <1>2, <1>3 DEF NotOver, Narrows, Idle, Ended, EndedIn
    <2>8. \A k \in timers' : Open(k)'
      BY <1>1, <2>2, <2>4 DEF Open, Ended, EndedIn
    <2>9. \A v \in Workers, d \in Channels :
            v # w /\ work'[v].event \in Events /\ EndedIn(log', work'[v].event, d) =>
              work'[v].step # "resolve" /\ (d \in work'[v].todo => work'[v].step = "mark" /\ d = Current(v)')
      BY <1>6, <1>7, <2>1, <2>6 DEF NotOver, Ended, EndedIn
    <2>10. \A d \in Channels : work'[w].event \in Events /\ EndedIn(log', work'[w].event, d) =>
            work'[w].step # "resolve" /\ d \notin work'[w].todo
      BY <1>6, <1>7, <2>1, <2>7
    <2> QED
      BY <1>1, <2>5, <2>8, <2>9, <2>10 DEF NotOver, Ended, EndedIn
  <1>15. MarksExplained'
    <2>1. \A v \in Workers : v # w => Current(v)' = Current(v) /\ Pair(v)' = Pair(v)
      BY <1>6, <1>7 DEF Current, Pair
    <2> QED
      BY <1>1, <1>3, <1>6, <1>7, <2>1 DEF MarksExplained, Ended
  <1>16. NoneForgotten'
    <2> SUFFICES ASSUME NEW p \in owed, Somewhere(p[1], p[2]) PROVE Somewhere(p[1], p[2])'
      BY <1>1 DEF NoneForgotten, Ended
    <2>1. ASSUME NEW v \in Workers, work[v].event = p[1], p[2] \in work[v].todo
          PROVE  Somewhere(p[1], p[2])'
      <3>1. CASE v # w
        BY <1>6, <1>7, <2>1, <3>1 DEF Somewhere
      <3>2. CASE v = w /\ p[2] = c
        BY <1>1, <1>5, <2>1, <3>2 DEF Somewhere
      <3>3. CASE v = w /\ p[2] # c
        BY <1>2, <1>3, <1>6, <1>7, <2>1, <3>3 DEF Somewhere, Narrows, Idle
      <3> QED
        BY <3>1, <3>2, <3>3
    <2> QED
      BY <1>1, <2>1 DEF Somewhere
  <1> QED
    BY <1>9, <1>10, <1>11, <1>13, <1>14, <1>15, <1>16

\* The timer fires: its place moves to the queue, or is given up.
LEMMA RetryFiresKeepsInv ==
    ASSUME AlertDispatchAssumption, DispatchInv, NEW j \in timers, RetryFires(j)
    PROVE  DispatchInv'
  <1> USE DEF DispatchInv
  <1>1. /\ timers' = timers \ {j} /\ excused \subseteq excused'
        /\ UNCHANGED <<published, work, attached, log, lastError, owed>>
    BY DEF RetryFires, storeVars, boundVars
  <1>2. j \in Job /\ j.event \in Events /\ j.channel \in Channels /\ timers \subseteq Job
    BY JobsAreJobs DEF TypeOK, StepsFit
  <1>3. /\ \A i \in 1 .. Len(queue) : Apart(queue[i], j) /\ Apart(j, queue[i])
        /\ \A k \in timers' : Apart(j, k)
        /\ \A w \in Workers : Clear(w, j)
        /\ j.event \in published /\ Open(j)
    BY <1>1 DEF OnePlace, Apart, AllPublished, NotOver
  <1>4. ASSUME NEW p \in owed, Somewhere(p[1], p[2]), p # <<j.event, j.channel>>,
               \A i \in 1 .. Len(queue) : i \in 1 .. Len(queue') /\ queue'[i] = queue[i]
        PROVE  Somewhere(p[1], p[2])'
    <2>1. p = <<p[1], p[2]>>
      BY DEF StepsFit
    <2> QED
      BY <1>1, <1>4, <2>1 DEF Somewhere
  <1>5. CASE ~HasRoom
    <2>1. queue' = queue /\ excused' = excused \cup {<<j.event, j.channel>>}
      BY <1>5 DEF RetryFires
    <2>2. NoneForgotten'
      BY <1>1, <1>4, <2>1 DEF NoneForgotten, Ended
    <2> QED
      BY <1>1, <2>1, <2>2 DEF TypeOK, StepsFit, Fits, AllPublished, OnePlace, Apart, Clear, Disjoint,
           NotOver, Open, Ended, MarksExplained, Current, Pair
  <1>6. CASE HasRoom
    <2>1. queue' = Append(queue, j) /\ excused' = excused
      BY <1>6 DEF RetryFires
    <2>2. /\ queue' \in Seq(Job) /\ Len(queue') <= QueueDepth
          /\ Len(queue') = Len(queue) + 1 /\ queue'[Len(queue) + 1] = j
          /\ \A i \in 1 .. Len(queue) : queue'[i] = queue[i]
      BY <1>2, <1>6, <2>1, QueueGrows
    <2>3. /\ Len(queue) \in Nat
          /\ \A i \in 1 .. Len(queue') : i \in 1 .. Len(queue) \/ i = Len(queue) + 1
          /\ \A i \in 1 .. Len(queue) : i \in 1 .. Len(queue')
          /\ Len(queue) + 1 \in 1 .. Len(queue')
      BY <2>2 DEF TypeOK
    <2>4. TypeOK' /\ StepsFit'
      BY <1>1, <2>2 DEF TypeOK, StepsFit, Fits
    <2>5. AllPublished'
      BY <1>1, <1>3, <2>2, <2>3 DEF AllPublished
    <2>6. OnePlace'
      BY <1>1, <1>3, <2>2, <2>3 DEF OnePlace, Apart, Clear, Disjoint
    <2>7. NotOver'
      BY <1>1, <1>3, <2>2, <2>3 DEF NotOver, Open, Ended, Current
    <2>8. MarksExplained'
      BY <1>1, <2>1 DEF MarksExplained, Ended, Current, Pair
    <2>9. NoneForgotten'
      <3>1. ASSUME NEW p \in owed, p = <<j.event, j.channel>> PROVE Somewhere(p[1], p[2])'
        BY <2>2, <2>3, <3>1 DEF Somewhere
      <3> QED
        BY <1>1, <1>4, <2>1, <2>2, <2>3, <3>1 DEF NoneForgotten, Ended
    <2> QED
      BY <2>4, <2>5, <2>6, <2>7, <2>8, <2>9
  <1> QED
    BY <1>5, <1>6

\* A test is of no event.
LEMMA TestKeepsInv ==
    ASSUME AlertDispatchAssumption, DispatchInv, NEW t \in Testers, NEW c \in Channels, Test(t, c)
    PROVE  DispatchInv'
  <1> USE DEF DispatchInv
  <1> DEFINE x == [step |-> "send", event |-> Sample, todo |-> {c}, attempt |-> 1,
                   outcome |-> "succeeded"]
  <1>1. /\ work' = [work EXCEPT ![t] = x]
        /\ UNCHANGED <<published, queue, timers, attached, log, lastError, owed, excused>>
    BY DEF Test, storeVars, traceVars
  <1>2. t \in Actors /\ t \notin Workers /\ Workers \subseteq Actors
    BY DEF Actors, AlertDispatchAssumption
  <1>3. x \in Running /\ Fits(t, x)
    BY <1>2 DEF Running, Outcomes, AlertDispatchAssumption, Fits
  <1>4. \A v \in Actors : work'[v] = IF v = t THEN x ELSE work[v]
    BY <1>1 DEF TypeOK
  <1>5. \A v \in Workers : work'[v] = work[v] /\ Current(v)' = Current(v) /\ Pair(v)' = Pair(v)
    BY <1>2, <1>4 DEF Current, Pair
  <1> HIDE DEF x
  <1>6. TypeOK' /\ StepsFit'
    BY <1>1, <1>3, <1>4 DEF TypeOK, StepsFit, Fits
  <1>7. AllPublished' /\ NoneForgotten'
    BY <1>1, <1>5 DEF AllPublished, NoneForgotten, Somewhere, Ended
  <1>8. OnePlace'
    BY <1>1, <1>5 DEF OnePlace, Apart, Clear, Disjoint
  <1>9. NotOver' /\ MarksExplained'
    BY <1>1, <1>5 DEF NotOver, MarksExplained, Open, Ended
  <1> QED
    BY <1>6, <1>7, <1>8, <1>9

\* The channels attached matter to Resolve only.
LEMMA ToggleKeepsInv ==
    ASSUME DispatchInv, NEW c \in Channels, ToggleChannel(c)
    PROVE  DispatchInv'
  <1> USE DEF DispatchInv
  <1>1. /\ attached' \subseteq Channels
        /\ UNCHANGED <<published, queue, timers, work, log, lastError, owed, excused>>
    BY DEF ToggleChannel, TypeOK, traceVars
  <1> QED
    BY <1>1 DEF TypeOK, StepsFit, Fits, AllPublished, OnePlace, Apart, Clear, Disjoint,
         NotOver, Open, Ended, MarksExplained, Current, Pair, NoneForgotten, Somewhere

\* A stop leaves nothing on its way, and explains every loss.
LEMMA StopKeepsInv ==
    ASSUME AlertDispatchAssumption, DispatchInv, Stop
    PROVE  DispatchInv'
  <1> USE DEF DispatchInv
  <1>1. /\ queue' = <<>> /\ timers' = {} /\ work' = [w \in Actors |-> Idle] /\ excused' = owed
        /\ UNCHANGED <<published, attached, log, lastError, owed>>
    BY DEF Stop, storeVars
  <1>2. /\ Idle \in Running /\ Idle.step = "idle" /\ Idle.todo = {} /\ Idle.event \notin Events
        /\ \A w \in Actors : Fits(w, Idle)
    BY DEF Idle, Running, Outcomes, Fits, AlertDispatchAssumption
  <1>3. \A w \in Workers : work'[w] = Idle
    BY <1>1 DEF Actors
  <1>4. queue' \in Seq(Job) /\ Len(queue') = 0 /\ (1 .. Len(queue')) = {}
    BY <1>1
  <1>5. TypeOK' /\ StepsFit'
    BY <1>1, <1>2, <1>4 DEF TypeOK, StepsFit, AlertDispatchAssumption
  <1>6. AllPublished' /\ OnePlace' /\ NotOver' /\ MarksExplained' /\ NoneForgotten'
    BY <1>1, <1>2, <1>3, <1>4 DEF AllPublished, OnePlace, Clear, Disjoint, NotOver, MarksExplained,
         NoneForgotten
  <1> QED
    BY <1>5, <1>6

-----------------------------------------------------------------------------
(* The theorems *)

LEMMA InitDispatch ==
    ASSUME AlertDispatchAssumption, Init
    PROVE  DispatchInv
  <1>1. /\ queue = <<>> /\ timers = {} /\ work = [w \in Actors |-> Idle]
        /\ owed = {} /\ log = {} /\ published = {} /\ attached = Channels /\ lastError = {}
    BY DEF Init
  <1>2. /\ Idle \in Running /\ Idle.step = "idle" /\ Idle.todo = {} /\ Idle.event \notin Events
        /\ \A w \in Actors : Fits(w, Idle)
    BY DEF Idle, Running, Outcomes, Fits, AlertDispatchAssumption
  <1>3. \A w \in Workers : work[w] = Idle
    BY <1>1 DEF Actors
  <1>4. queue \in Seq(Job) /\ Len(queue) = 0 /\ (1 .. Len(queue)) = {}
    BY <1>1
  <1>5. TypeOK /\ StepsFit
    BY <1>1, <1>2, <1>4 DEF TypeOK, StepsFit, AlertDispatchAssumption
  <1>6. AllPublished /\ OnePlace /\ NotOver /\ MarksExplained /\ NoneForgotten
    BY <1>1, <1>2, <1>3, <1>4 DEF AllPublished, OnePlace, Clear, Disjoint, NotOver, MarksExplained,
         NoneForgotten
  <1> QED
    BY <1>5, <1>6 DEF DispatchInv

\* DispatchInv is inductive, whatever the events, channels and workers.
THEOREM DispatchCorrect ==
    ASSUME AlertDispatchAssumption
    PROVE  Spec => []DispatchInv
  <1>1. DispatchInv /\ [Next]_vars => DispatchInv'
    <2> SUFFICES ASSUME DispatchInv, [Next]_vars PROVE DispatchInv'
      OBVIOUS
    <2>1. ASSUME NEW e \in Events, Publish(e) PROVE DispatchInv'
      BY <2>1, PublishKeepsInv
    <2>2. ASSUME NEW w \in Workers, Take(w) PROVE DispatchInv'
      BY <2>2, TakeKeepsInv
    <2>3. ASSUME NEW w \in Workers, Resolve(w) PROVE DispatchInv'
      BY <2>3, ResolveKeepsInv
    <2>4. ASSUME NEW w \in Workers, ResolveFails(w) PROVE DispatchInv'
      BY <2>4, AttemptsKeepInv DEF Actors
    <2>5. ASSUME NEW w \in Actors, Attempt(w) PROVE DispatchInv'
      BY <2>5, AttemptsKeepInv, ScheduleRetryKeepsInv DEF Attempt
    <2>6. ASSUME NEW w \in Actors, RecordFails(w) \/ MarkFails(w) PROVE DispatchInv'
      BY <2>6, AttemptsKeepInv
    <2>7. ASSUME NEW j \in timers, RetryFires(j) PROVE DispatchInv'
      BY <2>7, RetryFiresKeepsInv
    <2>8. ASSUME NEW t \in Testers, NEW c \in Channels, Test(t, c) PROVE DispatchInv'
      BY <2>8, TestKeepsInv
    <2>9. ASSUME NEW c \in Channels, ToggleChannel(c) PROVE DispatchInv'
      BY <2>9, ToggleKeepsInv
    <2>10. CASE Stop
      BY <2>10, StopKeepsInv
    <2>11. CASE UNCHANGED vars
      BY <2>11 DEF vars, storeVars, boundVars, traceVars, DispatchInv, TypeOK, StepsFit, Fits,
         AllPublished, OnePlace, Apart, Clear, Disjoint, NotOver, Open, Ended, MarksExplained,
         Current, Pair, NoneForgotten, Somewhere
    <2> QED
      BY <2>1, <2>2, <2>3, <2>4, <2>5, <2>6, <2>7, <2>8, <2>9, <2>10, <2>11 DEF Next
  <1>2. Init => DispatchInv
    BY InitDispatch
  <1> QED
    BY <1>1, <1>2, PTL DEF Spec

\* In one place at most: a delivery is queued once, has one timer or is held by
\* one worker, and only one of the three.
LEMMA CopiesCounted ==
    ASSUME AlertDispatchAssumption, DispatchInv, NEW e \in Events, NEW c \in Channels
    PROVE  /\ Copies(e, c) \in {0, 1}
           /\ Copies(e, c) = 0 <=> ~Somewhere(e, c)
  <1> USE DEF DispatchInv
  <1> DEFINE Q == QueuedAt(e, c)
             T == TimersOf(e, c)
             H == HeldBy(e, c)
  <1>1. \A S : (\A x, y \in S : x = y) => S = {} \/ \E x : S = {x}
    OBVIOUS
  <1>2. \A S : (\A x, y \in S : x = y) => Cardinality(S) = IF S = {} THEN 0 ELSE 1
    BY <1>1, FS_EmptySet, FS_Singleton
  <1>3. /\ \A i, k \in Q : i = k
        /\ \A i, k \in T : i = k
        /\ \A i, k \in H : i = k
    BY DEF OnePlace, Apart, Disjoint, QueuedAt, TimersOf, HeldBy
  <1>4. (Q = {} \/ T = {}) /\ (Q = {} \/ H = {}) /\ (T = {} \/ H = {})
    BY DEF OnePlace, Apart, Clear, QueuedAt, TimersOf, HeldBy
  <1>5. Somewhere(e, c) <=> Q # {} \/ T # {} \/ H # {}
    BY DEF Somewhere, QueuedAt, TimersOf, HeldBy
  <1>6. Copies(e, c) = Cardinality(Q) + Cardinality(T) + Cardinality(H)
    BY DEF Copies
  <1> HIDE DEF Q, T, H
  <1>7. /\ Cardinality(Q) = IF Q = {} THEN 0 ELSE 1
        /\ Cardinality(T) = IF T = {} THEN 0 ELSE 1
        /\ Cardinality(H) = IF H = {} THEN 0 ELSE 1
    BY <1>2, <1>3
  <1> QED
    BY <1>4, <1>5, <1>6, <1>7

\* No interleaving of workers, timers, toggles and stops puts an alert in two
\* places, or back in the queue once the log shows how it ended.
THEOREM AlertsNeverDuplicated ==
    ASSUME AlertDispatchAssumption
    PROVE  Spec => []NeverDuplicated
  <1>1. DispatchInv => NeverDuplicated
    <2> SUFFICES ASSUME DispatchInv, NEW e \in Events, NEW c \in Channels
                 PROVE  /\ Copies(e, c) <= 1
                        /\ Ended(e, c) => QueuedAt(e, c) = {} /\ TimersOf(e, c) = {}
      BY DEF NeverDuplicated
    <2>1. Copies(e, c) <= 1
      BY CopiesCounted
    <2>2. Ended(e, c) => QueuedAt(e, c) = {} /\ TimersOf(e, c) = {}
      BY DEF DispatchInv, NotOver, Open, QueuedAt, TimersOf
    <2> QED
      BY <2>1, <2>2
  <1> QED
    BY <1>1, DispatchCorrect, PTL

\* What a fan-out owes is on its way, or in the log, or its loss is explained.
THEOREM AlertsNeverForgotten ==
    ASSUME AlertDispatchAssumption
    PROVE  Spec => []NeverForgotten
  <1>1. DispatchInv => NeverForgotten
    <2> SUFFICES ASSUME DispatchInv, NEW p \in owed
                 PROVE  Copies(p[1], p[2]) > 0 \/ Ended(p[1], p[2]) \/ p \in excused
      BY DEF NeverForgotten
    <2>1. p[1] \in Events /\ p[2] \in Channels
      BY DEF DispatchInv, StepsFit
    <2>2. Somewhere(p[1], p[2]) => Copies(p[1], p[2]) = 1
      BY <2>1, CopiesCounted
    <2> QED
      BY <2>2 DEF DispatchInv, NoneForgotten
  <1> QED
    BY <1>1, DispatchCorrect, PTL
=============================================================================

---------------------------- MODULE Subscribers ----------------------------
(***************************************************************************)
(* Status page subscriptions (internal/api/statuspages.go, the subscriber  *)
(* half of store/sqlite/statuspages.go, internal/notify/subscribers.go):   *)
(* double opt-in, the links in every message, and the relay that fans an   *)
(* incident bulletin out to the people who confirmed.                      *)
(*                                                                         *)
(* An address is a mailbox, and only its owner can follow the links that   *)
(* arrive in it; a token is a number, its hash is itself.  A row may be    *)
(* older than the sealed unsubscribe token (migration 0005), and then its  *)
(* seal is None.  The delivery log is left out: each outcome is appended   *)
(* to it and nothing here reads it back.                                   *)
(***************************************************************************)
EXTENDS Naturals, FiniteSets, Sequences

CONSTANTS
    Pages, Ids, Targets, Workers, Requests,
    QueueDepth,         \* bulletinQueue
    Attempts,           \* bulletinAttempts
    Legacy,             \* the rows that predate the envelope: id -> <<page, target>>
    MaxTokens, MaxBulletins, MaxSwitches, None

VARIABLES
    page,       \* [published, open] of a status page, None when deleted
    row,        \* subscribers: [page, target, confirm, confirmed, unsub, seal]
    used,       \* the ids NewID has given
    mail,       \* the messages in each mailbox: [id, bulletin, confirm, unsub]
    queue,      \* Relay.queue
    worker,     \* the bulletin each worker expands: [job, pages, page, sends]
    req,        \* a request between its read and its write
    tokens, bulletins, switches,
    asked,      \* ghost: the subscriptions confirmed out of their own mailbox
    contested   \* ghost: rows whose seal a bulletin replaced after another had

vars == <<page, row, used, mail, queue, worker, req, tokens, bulletins, switches, asked, contested>>

SubscribersAssumption ==
    /\ None \notin Nat
    /\ DOMAIN Legacy \subseteq Ids
    /\ \A i \in DOMAIN Legacy : Legacy[i] \in Pages \X Targets
    /\ QueueDepth \in Nat /\ MaxTokens \in Nat /\ MaxBulletins \in Nat

Token == Nat \cup {None}
Row   == [page : Pages, target : Targets, confirm : Token, confirmed : BOOLEAN,
          unsub : Nat, seal : Token]
Copy  == [id : Ids, row : Row, confirm : Token, unsub : Token, attempt : Nat]
Job   == [n : Nat, pages : SUBSET Pages, sends : SUBSET Copy]

Messages  == [id : Ids, bulletin : Nat, confirm : Token, unsub : Token]
Bulletins == [kind : {"confirmation"}, id : Ids, row : Row]
             \cup [kind : {"announcement"}, n : Nat, pages : SUBSET Pages]
Pending   == [kind : {"subscribe"}, page : Pages, target : Targets]
             \cup [kind : {"confirm", "unsubscribe"}, id : Ids, was : BOOLEAN]

\* Every variable has its type, and the queue keeps its depth.
TypeOK ==
    /\ page \in [Pages -> [published : BOOLEAN, open : BOOLEAN] \cup {None}]
    /\ row \in [Ids -> Row \cup {None}]
    /\ used \subseteq Ids /\ asked \subseteq Ids /\ contested \subseteq Ids
    /\ mail \in [Targets -> SUBSET Messages]
    /\ queue \in Seq(Bulletins) /\ Len(queue) <= QueueDepth
    /\ worker \in [Workers -> Job \cup {None}]
    /\ req \in [Requests -> Pending \cup {None}]
    /\ tokens \in 0 .. MaxTokens /\ bulletins \in 0 .. MaxBulletins

Init ==
    /\ page = [p \in Pages |-> [published |-> TRUE, open |-> TRUE]]
    /\ row = [i \in Ids |-> IF i \in DOMAIN Legacy
                THEN [page |-> Legacy[i][1], target |-> Legacy[i][2], confirm |-> None,
                      confirmed |-> TRUE, unsub |-> 0, seal |-> None]
                ELSE None]
    /\ used = DOMAIN Legacy
    /\ mail = [t \in Targets |-> {}] /\ queue = <<>>
    /\ worker = [w \in Workers |-> None] /\ req = [r \in Requests |-> None]
    /\ tokens = 0 /\ bulletins = 0 /\ switches = 0
    /\ asked = DOMAIN Legacy /\ contested = {}

-----------------------------------------------------------------------------
(* Requests.                                                                *)

\* publicPage: an unpublished page is not there.
PublicPage(p) == page[p] # None /\ page[p].published

SubscriptionsOpen(p) == PublicPage(p) /\ page[p].open

\* subscribeToStatusPage up to the transaction: the page is as it was read.
SubscribeReads(r, p, t) ==
    /\ req[r] = None /\ SubscriptionsOpen(p)
    /\ req' = [req EXCEPT ![r] = [kind |-> "subscribe", page |-> p, target |-> t]]
    /\ UNCHANGED <<page, row, used, mail, queue, worker, tokens, bulletins, switches, asked, contested>>

\* CreateSubscriber's question, asked in its transaction.
Taken(p, t) == \E i \in Ids : row[i] # None /\ row[i].page = p /\ row[i].target = t

\* enqueue never blocks: a full queue drops the bulletin.
Enqueued(b) == IF Len(queue) < QueueDepth THEN Append(queue, b) ELSE queue

\* The row, then the confirmation.  A page deleted since fails the foreign key.
SubscribeWrites(r, i) ==
    /\ req[r] # None /\ req[r].kind = "subscribe"
    /\ LET p == req[r].page  t == req[r].target IN
       IF Taken(p, t) \/ page[p] = None THEN UNCHANGED <<row, used, queue, tokens>>
       ELSE /\ i \notin used /\ used' = used \cup {i} /\ tokens + 2 <= MaxTokens
            /\ row' = [row EXCEPT ![i] =
                 [page |-> p, target |-> t, confirm |-> tokens + 1, confirmed |-> FALSE,
                  unsub |-> tokens + 2, seal |-> tokens + 2]]
            /\ tokens' = tokens + 2
            /\ queue' = Enqueued([kind |-> "confirmation", id |-> i, row |-> row'[i]])
    /\ req' = [req EXCEPT ![r] = None]
    /\ UNCHANGED <<page, mail, worker, bulletins, switches, asked, contested>>

\* SubscriberByToken: either column.
ByToken(k) == {i \in Ids : row[i] # None /\ (row[i].confirm = k \/ row[i].unsub = k)}

\* The owner of a mailbox follows a link; the handler looks its token up.
Follow(r, t, m, k, kind) ==
    /\ req[r] = None /\ m \in mail[t] /\ k \in {m.confirm, m.unsub} \ {None}
    /\ \E i \in ByToken(k) :
         /\ req' = [req EXCEPT ![r] = [kind |-> kind, id |-> i, was |-> row[i].confirmed]]
         /\ asked' = IF kind = "confirm" /\ row[i].target = t THEN asked \cup {i} ELSE asked
    /\ UNCHANGED <<page, row, used, mail, queue, worker, tokens, bulletins, switches, contested>>

\* ConfirmSubscriber, unless it read as confirmed; the confirmation token is burnt.
ConfirmSubscription(r) ==
    /\ req[r] # None /\ req[r].kind = "confirm"
    /\ LET i == req[r].id IN
       row' = IF row[i] = None \/ req[r].was THEN row
              ELSE [row EXCEPT ![i].confirmed = TRUE, ![i].confirm = None]
    /\ req' = [req EXCEPT ![r] = None]
    /\ UNCHANGED <<page, used, mail, queue, worker, tokens, bulletins, switches,
                   asked, contested>>

\* DeleteSubscriber, by the link.
Unsubscribe(r) ==
    /\ req[r] # None /\ req[r].kind = "unsubscribe"
    /\ row' = [row EXCEPT ![req[r].id] = None]
    /\ req' = [req EXCEPT ![r] = None]
    /\ UNCHANGED <<page, used, mail, queue, worker, tokens, bulletins, switches,
                   asked, contested>>

\* ... or by the operator.
DeleteSubscriber(i) ==
    /\ row[i] # None /\ switches < MaxSwitches /\ switches' = switches + 1
    /\ row' = [row EXCEPT ![i] = None]
    /\ UNCHANGED <<page, used, mail, queue, worker, req, tokens, bulletins, asked, contested>>

\* An edit of the page, of which subscribers see two switches.
EditPage(p, pub, open) ==
    /\ page[p] # None /\ switches < MaxSwitches /\ switches' = switches + 1
    /\ page' = [page EXCEPT ![p] = [published |-> pub, open |-> open]]
    /\ UNCHANGED <<row, used, mail, queue, worker, req, tokens, bulletins, asked, contested>>

\* DeleteStatusPage takes its subscribers with it.
DeletePage(p) ==
    /\ page[p] # None /\ switches < MaxSwitches /\ switches' = switches + 1
    /\ page' = [page EXCEPT ![p] = None]
    /\ row' = [i \in Ids |-> IF row[i] # None /\ row[i].page = p THEN None ELSE row[i]]
    /\ UNCHANGED <<used, mail, queue, worker, req, tokens, bulletins, asked, contested>>

\* An incident handler announces to the pages its incident is on.
Announce(ps) ==
    /\ bulletins < MaxBulletins
    /\ bulletins' = bulletins + 1
    /\ queue' = Enqueued([kind |-> "announcement", n |-> bulletins + 1, pages |-> ps])
    /\ UNCHANGED <<page, row, used, mail, worker, req, tokens, switches, asked, contested>>

-----------------------------------------------------------------------------
(* The relay.                                                               *)

Send(i, r, k, at) == [id |-> i, row |-> r, confirm |-> None, unsub |-> k, attempt |-> at]

\* run: a confirmation is one message with both its tokens; an announcement a
\* list of pages to expand.
Take(w) ==
    /\ worker[w] = None /\ queue # <<>>
    /\ queue' = Tail(queue)
    /\ LET b == Head(queue) IN
       worker' = [worker EXCEPT ![w] =
         IF b.kind = "confirmation"
           THEN [n |-> 0, pages |-> {},
                 sends |-> {[Send(b.id, b.row, b.row.unsub, 1) EXCEPT !.confirm = b.row.confirm]}]
           ELSE [n |-> b.n, pages |-> b.pages, sends |-> {}]]
    /\ UNCHANGED <<page, row, used, mail, req, tokens, bulletins, switches, asked, contested>>

MutConfirmed(p) == {i \in Ids : row[i] # None /\ row[i].page = p}

\* ConfirmedSubscribers.
Confirmed(p) == {i \in Ids : row[i] # None /\ row[i].page = p /\ row[i].confirmed}

\* announce: the next page and a copy of its confirmed subscribers, once the
\* page before it has been fanned out.  A page that is gone is skipped.
Expand(w, p) ==
    /\ worker[w] # None /\ worker[w].sends = {} /\ p \in worker[w].pages
    /\ worker' = [worker EXCEPT ![w].pages = @ \ {p},
                                ![w].sends = IF page[p] = None THEN {}
                                             ELSE {Send(i, row[i], None, 0) : i \in Confirmed(p)}]
    /\ UNCHANGED <<page, row, used, mail, queue, req, tokens, bulletins, switches,
                   asked, contested>>

Drop(w, x) == worker' = [worker EXCEPT ![w].sends = @ \ {x}]
Become(w, x, y) == worker' = [worker EXCEPT ![w].sends = (@ \ {x}) \cup {y}]

\* prepareAndSend, the token in the copy's envelope.
PrepareSealed(w, x) ==
    /\ x.attempt = 0 /\ x.row.seal # None
    /\ Become(w, x, [x EXCEPT !.unsub = x.row.seal, !.attempt = 1])
    /\ UNCHANGED <<row, tokens, contested>>

MutReissueToken(w, x) ==
    /\ x.attempt = 0 /\ x.row.seal = None /\ tokens < MaxTokens
    /\ tokens' = tokens + 1
    /\ Become(w, x, [x EXCEPT !.unsub = tokens + 1, !.attempt = 1])
    /\ row' = IF row[x.id] = None THEN row ELSE [row EXCEPT ![x.id].seal = tokens + 1]
    /\ UNCHANGED contested

\* unsubscribeToken for a row without one: a fresh token over whatever the row
\* holds by now; a subscriber who has left meanwhile gets no message.
ReissueToken(w, x) ==
    /\ x.attempt = 0 /\ x.row.seal = None /\ tokens < MaxTokens
    /\ tokens' = tokens + 1
    /\ IF row[x.id] = None
         THEN Drop(w, x) /\ UNCHANGED <<row, contested>>
         ELSE /\ row' = [row EXCEPT ![x.id].unsub = tokens + 1, ![x.id].seal = tokens + 1]
              /\ contested' = IF row[x.id].seal # None THEN contested \cup {x.id} ELSE contested
              /\ Become(w, x, [x EXCEPT !.unsub = tokens + 1, !.attempt = 1])

\* prepareAndSend ends without a message: no base URL, or an envelope the key
\* does not open.
PrepareFails(w, x) ==
    /\ x.attempt = 0
    /\ Drop(w, x)
    /\ UNCHANGED <<row, tokens, contested>>

Prepare(w, x) ==
    /\ \/ PrepareSealed(w, x) \/ ReissueToken(w, x) \/ PrepareFails(w, x)
    /\ UNCHANGED <<page, used, mail, queue, req, bulletins, switches, asked>>

Message(w, x) == [id |-> x.id, bulletin |-> worker[w].n, confirm |-> x.confirm, unsub |-> x.unsub]

\* attempt: the message arrives; the server's answer may be lost all the same.
Delivers(w, x, answered) ==
    /\ x.attempt > 0
    /\ mail' = [mail EXCEPT ![x.row.target] = @ \cup {Message(w, x)}]
    /\ IF answered THEN Drop(w, x)
       ELSE IF x.attempt < Attempts
       THEN Become(w, x, [x EXCEPT !.attempt = @ + 1])
       ELSE Drop(w, x)
    /\ UNCHANGED <<page, row, used, queue, req, tokens, bulletins, switches, asked, contested>>

\* A refusal is final at once or on the last attempt; with no instance relay
\* the message is suppressed.
Refused(w, x) ==
    /\ x.attempt > 0
    /\ \/ x.attempt < Attempts /\ Become(w, x, [x EXCEPT !.attempt = @ + 1])
       \/ Drop(w, x)
    /\ UNCHANGED <<page, row, used, mail, queue, req, tokens, bulletins, switches, asked, contested>>

Done(w) ==
    /\ worker[w] # None /\ worker[w].sends = {} /\ worker[w].pages = {}
    /\ worker' = [worker EXCEPT ![w] = None]
    /\ UNCHANGED <<page, row, used, mail, queue, req, tokens, bulletins, switches,
                   asked, contested>>

\* A stop: the queue, the list being fanned out and a backoff are all lost.
Stop ==
    /\ switches < MaxSwitches /\ switches' = switches + 1
    /\ queue' = <<>> /\ worker' = [w \in Workers |-> None] /\ req' = [r \in Requests |-> None]
    /\ UNCHANGED <<page, row, used, mail, tokens, bulletins, asked, contested>>

Next ==
    \/ \E r \in Requests, p \in Pages, t \in Targets : SubscribeReads(r, p, t)
    \/ \E r \in Requests, i \in Ids : SubscribeWrites(r, i)
    \/ \E r \in Requests, t \in Targets : \E m \in mail[t] :
         \E k \in {m.confirm, m.unsub}, c \in {"confirm", "unsubscribe"} : Follow(r, t, m, k, c)
    \/ \E r \in Requests : ConfirmSubscription(r) \/ Unsubscribe(r)
    \/ \E i \in Ids : DeleteSubscriber(i)
    \/ \E p \in Pages : DeletePage(p) \/ \E pub, open \in BOOLEAN : EditPage(p, pub, open)
    \/ \E ps \in (SUBSET Pages) \ {{}} : Announce(ps)
    \/ \E w \in Workers : Take(w) \/ Done(w) \/ \E p \in Pages : Expand(w, p)
    \/ \E w \in Workers : worker[w] # None /\ \E x \in worker[w].sends :
         \/ Prepare(w, x) \/ Refused(w, x)
         \/ \E ok \in BOOLEAN : Delivers(w, x, ok)
    \/ Stop

Spec == Init /\ [][Next]_vars

-----------------------------------------------------------------------------
(* "Nothing is sent to an unconfirmed address, ever": a bulletin in a       *)
(* mailbox is for a subscription that somebody confirmed out of that same   *)
(* mailbox, whatever page switches, deletions, repeated requests and        *)
(* restarts came in between.                                                *)
ConsentKept ==
    \A t \in Targets : \A m \in mail[t] :
      /\ m.bulletin > 0 => m.id \in asked
      /\ row[m.id] # None => row[m.id].target = t

(* "Every message carries a working one-click unsubscribe link": the link   *)
(* of every message ends the subscription it came from for as long as that  *)
(* subscription lasts.  The exception is a legacy row that two bulletins    *)
(* gave a token at once: the link of the first is then dead.                *)
LinksWork ==
    \A t \in Targets : \A m \in mail[t] :
      row[m.id] # None /\ m.id \notin contested => ByToken(m.unsub) = {m.id}
=============================================================================

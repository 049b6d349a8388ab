-------------------------- MODULE SubscribersProofs --------------------------
(***************************************************************************)
(* Proofs about Subscribers, for any pages, subscriptions, mailboxes,      *)
(* relay workers and requests, any depth of the queue and number of        *)
(* attempts, and any rows older than the sealed token.                     *)
(***************************************************************************)
EXTENDS Subscribers, TLAPS

\* A token that was given out belongs to one subscription, if to any.
OwnedBy(k, i) == k \in 1 .. tokens /\ ByToken(k) \subseteq {i}

\* A link with token k in a message to t ends subscription i and no other.
LinkSound(i, t, k) ==
    /\ i \in used /\ OwnedBy(k, i)
    /\ row[i] # None => row[i].target = t /\ (i \notin contested => row[i].unsub = k)

\* A row has tokens of its own, or predates the seal; and who confirmed asked.
RowSound(i) ==
    row[i] # None =>
      /\ i \in used
      /\ row[i].confirmed => i \in asked
      /\ row[i].confirm # None => OwnedBy(row[i].confirm, i)
      /\ IF row[i].seal = None THEN row[i].unsub = 0
         ELSE row[i].seal = row[i].unsub /\ OwnedBy(row[i].unsub, i)

\* A copy of row i, read earlier, is for the same mailbox and its links hold.
CopySound(i, copy) ==
    /\ i \in used
    /\ row[i] # None => row[i].target = copy.target
    /\ copy.confirm # None => OwnedBy(copy.confirm, i)
    /\ copy.seal # None => LinkSound(i, copy.target, copy.seal)

\* A message on its way, of bulletin n.
SendSound(n, x) ==
    /\ CopySound(x.id, x.row)
    /\ n > 0 => x.id \in asked
    /\ x.confirm # None => OwnedBy(x.confirm, x.id)
    /\ x.attempt > 0 => LinkSound(x.id, x.row.target, x.unsub)

\* A message in the mailbox of t.
MessageSound(t, m) ==
    /\ LinkSound(m.id, t, m.unsub)
    /\ m.bulletin > 0 => m.id \in asked
    /\ m.confirm # None => OwnedBy(m.confirm, m.id)

\* A queued confirmation has both its tokens.
BulletinSound(b) ==
    b.kind = "confirmation" =>
      CopySound(b.id, b.row) /\ b.row.seal # None /\ b.row.unsub = b.row.seal

\* A request that confirms comes out of the mailbox of the subscription.
RequestSound(q) == q.kind = "confirm" => q.id \in asked

RowsSound     == \A i \in Ids : RowSound(i)
QueueSound    == \A n \in 1 .. Len(queue) : BulletinSound(queue[n])
WorkSound     == \A w \in Workers : worker[w] # None =>
                    \A x \in worker[w].sends : SendSound(worker[w].n, x)
MailSound     == \A t \in Targets : \A m \in mail[t] : MessageSound(t, m)
RequestsSound == \A r \in Requests : req[r] # None => RequestSound(req[r])

\* The inductive invariant.
SubscribersInv ==
    TypeOK /\ RowsSound /\ QueueSound /\ WorkSound /\ MailSound /\ RequestsSound

-----------------------------------------------------------------------------
(* What a step may do to the rows *)

\* Ids and tokens are never given twice; a row keeps its mailbox, may lose its
\* confirmation token, and gets a fresh unsubscribe token only over none or as
\* a contested row.
Evolves ==
    /\ tokens \in Nat /\ tokens' \in Nat /\ tokens <= tokens'
    /\ used \subseteq Ids /\ used \subseteq used'
    /\ contested \subseteq contested' /\ asked \subseteq asked'
    /\ \A i \in Ids : row'[i] # None =>
         \/ /\ row[i] # None
            /\ row'[i].target = row[i].target
            /\ row'[i].confirm \in {row[i].confirm, None}
            /\ \/ row'[i].unsub = row[i].unsub
               \/ row'[i].unsub > tokens /\ (row[i].unsub = 0 \/ i \in contested')
         \/ i \notin used /\ row'[i].confirm > tokens /\ row'[i].unsub > tokens

\* The tokens are counted.
LEMMA Numbers ==
    ASSUME SubscribersAssumption, TypeOK
    PROVE  tokens \in Nat /\ used \subseteq Ids
  BY DEF SubscribersAssumption, TypeOK

\* A step that leaves the rows alone is one of these.
LEMMA SameRows ==
    ASSUME SubscribersAssumption, TypeOK, UNCHANGED <<row, tokens, used, contested>>,
           asked \subseteq asked'
    PROVE  Evolves
  BY DEF SubscribersAssumption, TypeOK, Evolves

\* So is one that takes rows away, or the confirmation token of a row.
LEMMA FewerRows ==
    ASSUME tokens \in Nat, used \subseteq Ids, UNCHANGED <<tokens, used, contested, asked>>,
           \A i \in Ids : row'[i] # None =>
             /\ row[i] # None /\ row'[i].target = row[i].target
             /\ row'[i].confirm \in {row[i].confirm, None} /\ row'[i].unsub = row[i].unsub
    PROVE  Evolves
  BY DEF Evolves

\* A token keeps its owner.
LEMMA OwnedStays ==
    ASSUME SubscribersAssumption, Evolves
    PROVE  \A k, i : OwnedBy(k, i) => OwnedBy(k, i)'
  <1> SUFFICES ASSUME NEW k, NEW i, OwnedBy(k, i) PROVE OwnedBy(k, i)'
    OBVIOUS
  <1>1. k \in 1 .. tokens /\ k \in 1 .. tokens' /\ k # None
    BY DEF OwnedBy, Evolves, SubscribersAssumption
  <1>2. \A j \in Ids : row'[j] # None /\ (row'[j].confirm = k \/ row'[j].unsub = k) =>
          row[j] # None /\ (row[j].confirm = k \/ row[j].unsub = k)
    BY <1>1 DEF Evolves
  <1>3. \A j \in ByToken(k)' : j \in ByToken(k)
    BY <1>2 DEF ByToken
  <1> QED
    BY <1>1, <1>3 DEF OwnedBy

\* So do the links.
LEMMA LinksStay ==
    ASSUME SubscribersAssumption, Evolves
    PROVE  \A i, t, k : LinkSound(i, t, k) => LinkSound(i, t, k)'
  <1> SUFFICES ASSUME NEW i, NEW t, NEW k, LinkSound(i, t, k) PROVE LinkSound(i, t, k)'
    OBVIOUS
  <1>1. OwnedBy(k, i)' /\ k \in 1 .. tokens
    BY OwnedStays DEF LinkSound, OwnedBy
  <1>2. i \in used /\ i \in used' /\ i \in Ids
    BY DEF LinkSound, Evolves
  <1>3. row'[i] # None => row'[i].target = t /\ (i \notin contested' => row'[i].unsub = k)
    BY <1>1, <1>2 DEF LinkSound, Evolves
  <1> QED
    BY <1>1, <1>2, <1>3 DEF LinkSound

\* So do copies, messages, confirmations and requests.
LEMMA SoundStays ==
    ASSUME SubscribersAssumption, Evolves
    PROVE  /\ \A i, c : CopySound(i, c) => CopySound(i, c)'
           /\ \A n, x : SendSound(n, x) => SendSound(n, x)'
           /\ \A t, m : MessageSound(t, m) => MessageSound(t, m)'
           /\ \A b : BulletinSound(b) => BulletinSound(b)'
           /\ \A q : RequestSound(q) => RequestSound(q)'
           /\ \A i \in Ids : RowSound(i) /\ row'[i] = row[i] => RowSound(i)'
  <1>1. \A k, i : OwnedBy(k, i) => OwnedBy(k, i)'
    BY OwnedStays
  <1>2. \A i, t, k : LinkSound(i, t, k) => LinkSound(i, t, k)'
    BY LinksStay
  <1>3. \A i, c : CopySound(i, c) => CopySound(i, c)'
    BY <1>1, <1>2 DEF CopySound, Evolves
  <1>4. \A n, x : SendSound(n, x) => SendSound(n, x)'
    BY <1>1, <1>2, <1>3 DEF SendSound, Evolves
  <1>5. \A t, m : MessageSound(t, m) => MessageSound(t, m)'
    BY <1>1, <1>2 DEF MessageSound, Evolves
  <1>6. \A b : BulletinSound(b) => BulletinSound(b)'
    BY <1>3 DEF BulletinSound
  <1>7. \A q : RequestSound(q) => RequestSound(q)'
    BY DEF RequestSound, Evolves
  <1>8. \A i \in Ids : RowSound(i) /\ row'[i] = row[i] => RowSound(i)'
    BY <1>1 DEF RowSound, Evolves
  <1> QED
    BY <1>3, <1>4, <1>5, <1>6, <1>7, <1>8

\* What a step leaves alone stays sound.
LEMMA FrameStays ==
    ASSUME SubscribersAssumption, SubscribersInv, Evolves
    PROVE  /\ UNCHANGED row => RowsSound'
           /\ UNCHANGED queue => QueueSound'
           /\ UNCHANGED worker => WorkSound'
           /\ UNCHANGED mail => MailSound'
           /\ UNCHANGED req => RequestsSound'
  BY SoundStays DEF SubscribersInv, RowsSound, QueueSound, WorkSound, MailSound, RequestsSound

-----------------------------------------------------------------------------
(* One lemma for each step *)

\* A bulletin that is put on the queue, or dropped from a full one.
LEMMA EnqueueKeeps ==
    ASSUME SubscribersAssumption, SubscribersInv, Evolves,
           NEW b \in Bulletins, BulletinSound(b)', queue' = Enqueued(b)
    PROVE  QueueSound' /\ queue' \in Seq(Bulletins) /\ Len(queue') <= QueueDepth
  <1>1. queue \in Seq(Bulletins) /\ Len(queue) \in Nat /\ QueueDepth \in Nat /\ Len(queue) <= QueueDepth
    BY DEF SubscribersInv, TypeOK, SubscribersAssumption
  <1>2. \A n \in 1 .. Len(queue) : BulletinSound(queue[n])
    BY DEF SubscribersInv, QueueSound
  <1>3. CASE Len(queue) < QueueDepth
    <2>1. queue' = Append(queue, b)
      BY <1>3 DEF Enqueued
    <2>2. /\ queue' \in Seq(Bulletins) /\ Len(queue') = Len(queue) + 1
          /\ queue'[Len(queue) + 1] = b
          /\ \A n \in 1 .. Len(queue) : queue'[n] = queue[n]
      BY <1>1, <2>1
    <2>3. \A n \in 1 .. Len(queue') : n \in 1 .. Len(queue) \/ n = Len(queue) + 1
      BY <1>1, <2>2
    <2>4. \A c : BulletinSound(c) => BulletinSound(c)'
      BY SoundStays
    <2>5. \A n \in 1 .. Len(queue') : \A c : c = queue'[n] => BulletinSound(c)'
      BY <1>2, <2>2, <2>3, <2>4
    <2> QED
      BY <1>1, <1>3, <2>2, <2>5 DEF QueueSound, BulletinSound
  <1>4. CASE ~ (Len(queue) < QueueDepth)
    <2>1. queue' = queue
      BY <1>4 DEF Enqueued
    <2> QED
      BY <1>1, <2>1, FrameStays
  <1> QED
    BY <1>3, <1>4

\* A request that has read, a page edited, a restart.
LEMMA QuietKeeps ==
    ASSUME SubscribersAssumption, SubscribersInv,
           \/ \E r \in Requests, p \in Pages, t \in Targets : SubscribeReads(r, p, t)
           \/ \E p \in Pages, pub, open \in BOOLEAN : EditPage(p, pub, open)
           \/ Stop
    PROVE  SubscribersInv'
  <1>1. /\ UNCHANGED <<row, used, mail, tokens, bulletins, asked, contested>>
        /\ \/ UNCHANGED <<queue, worker>>
           \/ queue' = <<>> /\ worker' = [w \in Workers |-> None]
    BY DEF SubscribeReads, EditPage, Stop
  <1>2. Evolves
    BY <1>1, SameRows DEF SubscribersInv
  <1>3. /\ req' \in [Requests -> Pending \cup {None}]
        /\ RequestsSound'
    <2>1. CASE UNCHANGED req
      BY <1>2, <2>1, FrameStays DEF SubscribersInv, TypeOK
    <2>2. CASE req' = [r \in Requests |-> None]
      BY <2>2 DEF RequestsSound
    <2>3. ASSUME NEW r \in Requests, NEW p \in Pages, NEW t \in Targets, SubscribeReads(r, p, t)
          PROVE  req' \in [Requests -> Pending \cup {None}] /\ RequestsSound'
      <3> DEFINE q == [kind |-> "subscribe", page |-> p, target |-> t]
      <3>1. req' = [req EXCEPT ![r] = q] /\ req \in [Requests -> Pending \cup {None}]
        BY <2>3 DEF SubscribeReads, SubscribersInv, TypeOK
      <3>2. q \in Pending /\ q.kind # "confirm"
        BY DEF Pending
      <3> HIDE DEF q
      <3>3. \A s \in Requests : s # r /\ req[s] # None => RequestSound(req[s])'
        BY <1>1, <3>1 DEF SubscribersInv, RequestsSound, RequestSound
      <3> QED
        BY <3>1, <3>2, <3>3 DEF RequestsSound, RequestSound
    <2> QED
      BY <2>1, <2>2, <2>3 DEF SubscribeReads, EditPage, Stop
  <1>4. page' \in [Pages -> [published : BOOLEAN, open : BOOLEAN] \cup {None}]
    BY DEF SubscribeReads, EditPage, Stop, SubscribersInv, TypeOK
  <1>5. /\ queue' \in Seq(Bulletins) /\ Len(queue') <= QueueDepth
        /\ worker' \in [Workers -> Job \cup {None}]
        /\ QueueSound' /\ WorkSound'
    <2>1. CASE UNCHANGED <<queue, worker>>
      BY <1>2, <2>1, FrameStays DEF SubscribersInv, TypeOK
    <2>2. CASE queue' = <<>> /\ worker' = [w \in Workers |-> None]
      <3>1. Len(queue') = 0
        BY <2>2
      <3> QED
        BY <2>2, <3>1 DEF QueueSound, WorkSound, SubscribersAssumption
    <2> QED
      BY <1>1, <2>1, <2>2
  <1>6. RowsSound' /\ MailSound'
    BY <1>1, <1>2, FrameStays
  <1>7. TypeOK'
    BY <1>1, <1>3, <1>4, <1>5 DEF SubscribersInv, TypeOK
  <1> QED
    BY <1>3, <1>5, <1>6, <1>7 DEF SubscribersInv

\* A new subscription takes an id and two tokens nobody had.
LEMMA SubscribeKeeps ==
    ASSUME SubscribersAssumption, SubscribersInv,
           NEW r \in Requests, NEW i \in Ids, SubscribeWrites(r, i)
    PROVE  SubscribersInv'
  <1> USE DEF SubscribersInv
  <1> DEFINE p == req[r].page
             t == req[r].target
  <1>1. /\ req' = [req EXCEPT ![r] = None] /\ req[r] # None /\ req[r].kind = "subscribe"
        /\ UNCHANGED <<page, mail, worker, bulletins, asked, contested>>
    BY DEF SubscribeWrites
  <1>2. req' \in [Requests -> Pending \cup {None}]
    BY <1>1 DEF TypeOK
  <1>3. Evolves => RequestsSound'
    BY <1>1, <1>2, SoundStays DEF RequestsSound, TypeOK
  <1>4. CASE UNCHANGED <<row, used, queue, tokens>>
    <2>1. Evolves
      BY <1>1, <1>4, SameRows
    <2>2. TypeOK'
      BY <1>1, <1>2, <1>4 DEF TypeOK
    <2> QED
      BY <1>1, <1>3, <1>4, <2>1, <2>2, FrameStays
  <1>5. CASE ~ (Taken(p, t) \/ page[p] = None)
    <2>1. PICK s : s = [page |-> p, target |-> t, confirm |-> tokens + 1, confirmed |-> FALSE,
                        unsub |-> tokens + 2, seal |-> tokens + 2]
      OBVIOUS
    <2>2. /\ i \notin used /\ used' = used \cup {i} /\ tokens + 2 <= MaxTokens /\ tokens' = tokens + 2
          /\ row' = [row EXCEPT ![i] = s]
          /\ queue' = Enqueued([kind |-> "confirmation", id |-> i, row |-> row'[i]])
      BY <1>5, <2>1 DEF SubscribeWrites
    <2>3. req[r] \in Pending
      BY <1>1 DEF TypeOK
    <2>4. p \in Pages /\ t \in Targets
      BY <1>1, <2>3 DEF Pending
    <2>5. tokens \in Nat /\ tokens + 1 \in Nat /\ tokens + 2 \in Nat /\ tokens + 2 \in 0 .. MaxTokens
      BY <2>2 DEF TypeOK, SubscribersAssumption
    <2>6. s \in Row
      BY <2>1, <2>4, <2>5 DEF Row, Token
    <2>7. /\ row' \in [Ids -> Row \cup {None}]
          /\ \A j \in Ids : row'[j] = IF j = i THEN s ELSE row[j]
      BY <2>2, <2>6 DEF TypeOK
    <2>8. Evolves
      BY <1>1, <2>1, <2>2, <2>5, <2>7 DEF Evolves, TypeOK
    <2>9. /\ s.confirm = tokens + 1 /\ s.unsub = tokens + 2 /\ s.seal = tokens + 2 /\ ~s.confirmed
          /\ s.target = t
      BY <2>1
    <2>10. \A k \in {tokens + 1, tokens + 2} : OwnedBy(k, i)'
      <3>1. \A j \in Ids : row[j] # None =>
              /\ row[j].unsub <= tokens
              /\ row[j].confirm # None => row[j].confirm <= tokens
        BY <2>5 DEF RowsSound, RowSound, OwnedBy
      <3>2. tokens + 1 # None /\ tokens + 2 # None
        BY <2>5 DEF SubscribersAssumption
      <3>3. \A j \in Ids : row[j] # None => row[j].unsub \in Nat /\ row[j].confirm \in Nat \cup {None}
        BY DEF TypeOK, Row, Token
      <3>4. ASSUME NEW k \in {tokens + 1, tokens + 2}, NEW j \in ByToken(k)'
            PROVE  j = i
        BY <2>5, <2>7, <3>1, <3>2, <3>3, <3>4 DEF ByToken
      <3>5. \A k \in {tokens + 1, tokens + 2} : k \in 1 .. tokens'
        BY <2>2, <2>5
      <3> QED
        BY <3>4, <3>5 DEF OwnedBy
    <2>11. CopySound(i, s)'
      <3>1. i \in used'
        BY <2>2
      <3> QED
        BY <2>7, <2>9, <2>10, <3>1 DEF CopySound, LinkSound
    <2>12. RowsSound'
      <3>1. tokens + 1 # None /\ tokens + 2 # None
        BY <2>5 DEF SubscribersAssumption
      <3>2. RowSound(i)'
        BY <2>2, <2>7, <2>9, <2>10, <3>1 DEF RowSound
      <3>3. \A j \in Ids : j # i => RowSound(j)'
        BY <2>7, <2>8, SoundStays DEF RowsSound
      <3> QED
        BY <3>2, <3>3 DEF RowsSound
    <2>13. QueueSound' /\ queue' \in Seq(Bulletins) /\ Len(queue') <= QueueDepth
      <3>1. PICK b : b = [kind |-> "confirmation", id |-> i, row |-> s]
        OBVIOUS
      <3>2. b \in Bulletins /\ b.kind = "confirmation" /\ b.id = i /\ b.row = s
        BY <2>6, <3>1 DEF Bulletins
      <3>3. tokens + 2 # None
        BY <2>5 DEF SubscribersAssumption
      <3>4. BulletinSound(b)'
        BY <2>9, <2>11, <3>2, <3>3 DEF BulletinSound
      <3>5. queue' = Enqueued(b)
        BY <2>2, <2>7, <3>1
      <3> QED
        BY <2>8, <3>2, <3>4, <3>5, EnqueueKeeps
    <2>14. WorkSound' /\ MailSound'
      BY <1>1, <2>8, FrameStays
    <2>15. TypeOK'
      BY <1>1, <1>2, <2>2, <2>5, <2>7, <2>13 DEF TypeOK
    <2> QED
      BY <1>3, <2>8, <2>12, <2>13, <2>14, <2>15
  <1> QED
    BY <1>4, <1>5 DEF SubscribeWrites

\* Whoever follows a link found it in the mailbox of the subscription.
LEMMA FollowKeeps ==
    ASSUME SubscribersAssumption, SubscribersInv,
           NEW r \in Requests, NEW t \in Targets, NEW m \in mail[t],
           NEW k \in {m.confirm, m.unsub}, NEW kind \in {"confirm", "unsubscribe"},
           Follow(r, t, m, k, kind)
    PROVE  SubscribersInv'
  <1> USE DEF SubscribersInv
  <1>1. PICK i \in ByToken(k) :
          /\ req' = [req EXCEPT ![r] = [kind |-> kind, id |-> i, was |-> row[i].confirmed]]
          /\ asked' = IF kind = "confirm" /\ row[i].target = t THEN asked \cup {i} ELSE asked
    BY DEF Follow
  <1>2. /\ k # None
        /\ UNCHANGED <<page, row, used, mail, queue, worker, tokens, bulletins, switches, contested>>
    BY DEF Follow
  <1>3. i \in Ids /\ row[i] # None /\ row[i] \in Row
    BY DEF ByToken, TypeOK
  <1>4. MessageSound(t, m)
    BY DEF MailSound
  <1>5. OwnedBy(k, m.id)
    BY <1>2, <1>4 DEF MessageSound, LinkSound
  <1>6. i = m.id /\ row[i].target = t
    BY <1>3, <1>4, <1>5 DEF OwnedBy, MessageSound, LinkSound
  <1>7. kind = "confirm" => i \in asked'
    BY <1>1, <1>6
  <1>8. asked \subseteq asked' /\ asked' \subseteq Ids
    BY <1>1, <1>3 DEF TypeOK
  <1>9. Evolves
    BY <1>2, <1>8, SameRows
  <1>10. PICK q : q = [kind |-> kind, id |-> i, was |-> row[i].confirmed]
    OBVIOUS
  <1>11. q \in Pending /\ q.kind = kind /\ q.id = i
    BY <1>3, <1>10 DEF Pending, Row
  <1>12. req' = [req EXCEPT ![r] = q] /\ req' \in [Requests -> Pending \cup {None}]
    BY <1>1, <1>10, <1>11 DEF TypeOK
  <1>13. RequestsSound'
    <2>1. \A s \in Requests : s # r => req'[s] = req[s]
      BY <1>12 DEF TypeOK
    <2>2. req'[r] = q
      BY <1>12 DEF TypeOK
    <2> QED
      BY <1>7, <1>8, <1>11, <2>1, <2>2 DEF RequestsSound, RequestSound
  <1>14. TypeOK'
    BY <1>2, <1>8, <1>12 DEF TypeOK
  <1> QED
    BY <1>2, <1>9, <1>13, <1>14, FrameStays

\* Rows that are gone, or confirmed by somebody who asked, and requests that end.
LEMMA RowsLoseKeeps ==
    ASSUME SubscribersAssumption, SubscribersInv,
           UNCHANGED <<used, mail, queue, worker, tokens, bulletins, asked, contested>>,
           page' \in [Pages -> [published : BOOLEAN, open : BOOLEAN] \cup {None}],
           row' \in [Ids -> Row \cup {None}],
           \A i \in Ids : \/ row'[i] = None \/ row'[i] = row[i]
                         \/ /\ row[i] # None /\ i \in asked
                            /\ row'[i] = [row[i] EXCEPT !.confirmed = TRUE, !.confirm = None],
           req' \in [Requests -> Pending \cup {None}],
           \A r \in Requests : req'[r] = req[r] \/ req'[r] = None
    PROVE  SubscribersInv'
  <1> USE DEF SubscribersInv
  <1>1. \A i \in Ids : row[i] # None => row[i] \in Row
    BY DEF TypeOK
  <1>2. Evolves
    <2>1. \A i \in Ids : row'[i] # None =>
            /\ row[i] # None /\ row'[i].target = row[i].target
            /\ row'[i].confirm \in {row[i].confirm, None} /\ row'[i].unsub = row[i].unsub
      BY <1>1 DEF Row
    <2>2. tokens \in Nat /\ used \subseteq Ids
      BY Numbers
    <2> QED
      BY <2>1, <2>2, FewerRows
  <1>3. TypeOK'
    BY DEF TypeOK
  <1>4. RowsSound'
    <2> SUFFICES ASSUME NEW i \in Ids PROVE RowSound(i)'
      BY DEF RowsSound
    <2>1. RowSound(i)
      BY DEF RowsSound
    <2>2. CASE row'[i] = None
      BY <2>2 DEF RowSound
    <2>3. CASE row'[i] = row[i]
      BY <1>2, <2>1, <2>3, SoundStays
    <2>4. CASE /\ row[i] # None /\ i \in asked
               /\ row'[i] = [row[i] EXCEPT !.confirmed = TRUE, !.confirm = None]
      <3>1. row'[i].confirm = None /\ row'[i].unsub = row[i].unsub /\ row'[i].seal = row[i].seal
        BY <1>1, <2>4 DEF Row
      <3>2. \A k : OwnedBy(k, i) => OwnedBy(k, i)'
        BY <1>2, OwnedStays
      <3>3. row'[i].seal # None => row'[i].seal = row'[i].unsub /\ OwnedBy(row[i].unsub, i)
        BY <2>1, <2>4, <3>1 DEF RowSound
      <3>4. \A k : k = row'[i].unsub /\ row'[i].seal # None => OwnedBy(k, i)'
        BY <3>1, <3>2, <3>3
      <3>5. row'[i].seal = None => row'[i].unsub = 0
        BY <2>1, <2>4, <3>1 DEF RowSound
      <3>6. i \in used' /\ i \in asked'
        BY <2>1, <2>4 DEF RowSound
      <3> QED
        BY <3>1, <3>3, <3>4, <3>5, <3>6 DEF RowSound, OwnedBy
    <2> QED
      BY <2>2, <2>3, <2>4
  <1>5. RequestsSound'
    BY DEF RequestsSound, RequestSound
  <1> QED
    BY <1>2, <1>3, <1>4, <1>5, FrameStays

LEMMA RemovalsKeep ==
    ASSUME SubscribersAssumption, SubscribersInv,
           \/ \E r \in Requests : ConfirmSubscription(r) \/ Unsubscribe(r)
           \/ \E i \in Ids : DeleteSubscriber(i)
           \/ \E p \in Pages : DeletePage(p)
    PROVE  SubscribersInv'
  <1>1. UNCHANGED <<used, mail, queue, worker, tokens, bulletins, asked, contested>>
    BY DEF ConfirmSubscription, Unsubscribe, DeleteSubscriber, DeletePage
  <1>2. page' \in [Pages -> [published : BOOLEAN, open : BOOLEAN] \cup {None}]
    BY DEF ConfirmSubscription, Unsubscribe, DeleteSubscriber, DeletePage, SubscribersInv, TypeOK
  <1>3. /\ req \in [Requests -> Pending \cup {None}] /\ row \in [Ids -> Row \cup {None}]
        /\ req' = req \/ \E r \in Requests : req' = [req EXCEPT ![r] = None]
    BY DEF ConfirmSubscription, Unsubscribe, DeleteSubscriber, DeletePage, SubscribersInv, TypeOK
  <1>4. /\ req' \in [Requests -> Pending \cup {None}]
        /\ \A r \in Requests : req'[r] = req[r] \/ req'[r] = None
    BY <1>3
  <1>5. /\ row' \in [Ids -> Row \cup {None}]
        /\ \A i \in Ids : \/ row'[i] = None \/ row'[i] = row[i]
                         \/ /\ row[i] # None /\ i \in asked
                            /\ row'[i] = [row[i] EXCEPT !.confirmed = TRUE, !.confirm = None]
    <2>1. ASSUME NEW r \in Requests, ConfirmSubscription(r) PROVE <1>5!1 /\ <1>5!2
      <3>1. req[r] # None /\ req[r].kind = "confirm" /\ req[r] \in Pending
        BY <1>3, <2>1 DEF ConfirmSubscription
      <3>2. req[r].id \in Ids /\ req[r].id \in asked
        BY <3>1 DEF Pending, SubscribersInv, RequestsSound, RequestSound
      <3>3. CASE row' = row
        BY <1>3, <3>3
      <3>4. PICK i \in Ids : i = req[r].id
        BY <3>2
      <3>5. CASE row' # row
        <4>1. row[i] # None /\ row' = [row EXCEPT ![i].confirmed = TRUE, ![i].confirm = None]
          BY <2>1, <3>4, <3>5 DEF ConfirmSubscription
        <4>2. row[i] \in Row
          BY <1>3, <4>1
        <4>3. PICK x : x = [row[i] EXCEPT !.confirmed = TRUE, !.confirm = None]
          OBVIOUS
        <4>4. row' = [row EXCEPT ![i] = x]
          BY <1>3, <4>1, <4>2, <4>3 DEF Row
        <4>5. x \in Row
          BY <4>2, <4>3 DEF Row, Token
        <4>6. row' \in [Ids -> Row \cup {None}] /\ \A k \in Ids : row'[k] = IF k = i THEN x ELSE row[k]
          BY <1>3, <4>4, <4>5
        <4> QED
          BY <3>2, <3>4, <4>1, <4>3, <4>6
      <3> QED
        BY <3>3, <3>5
    <2>2. ASSUME NEW i, row' = [row EXCEPT ![i] = None] PROVE <1>5!1 /\ <1>5!2
      BY <1>3, <2>2
    <2>3. ASSUME NEW p \in Pages, DeletePage(p) PROVE <1>5!1 /\ <1>5!2
      BY <1>3, <2>3 DEF DeletePage
    <2> QED
      BY <2>1, <2>2, <2>3 DEF Unsubscribe, DeleteSubscriber
  <1> QED
    BY <1>1, <1>2, <1>4, <1>5, RowsLoseKeeps

\* An announcement names pages, and nobody yet.
LEMMA AnnounceKeeps ==
    ASSUME SubscribersAssumption, SubscribersInv, NEW ps \in SUBSET Pages, Announce(ps)
    PROVE  SubscribersInv'
  <1> USE DEF SubscribersInv
  <1>1. /\ bulletins < MaxBulletins /\ bulletins' = bulletins + 1
        /\ queue' = Enqueued([kind |-> "announcement", n |-> bulletins + 1, pages |-> ps])
        /\ UNCHANGED <<page, row, used, mail, worker, req, tokens, asked, contested>>
    BY DEF Announce
  <1>2. bulletins' \in 0 .. MaxBulletins /\ bulletins + 1 \in Nat
    BY <1>1 DEF TypeOK, SubscribersAssumption
  <1>3. Evolves
    BY <1>1, SameRows
  <1>4. PICK b : b = [kind |-> "announcement", n |-> bulletins + 1, pages |-> ps]
    OBVIOUS
  <1>5. b \in Bulletins /\ b.kind # "confirmation"
    BY <1>2, <1>4 DEF Bulletins
  <1>6. QueueSound' /\ queue' \in Seq(Bulletins) /\ Len(queue') <= QueueDepth
    BY <1>1, <1>3, <1>4, <1>5, EnqueueKeeps DEF BulletinSound
  <1>7. TypeOK'
    BY <1>1, <1>2, <1>6 DEF TypeOK
  <1> QED
    BY <1>1, <1>3, <1>6, <1>7, FrameStays

\* What one worker turns to.
LEMMA WorkKeeps ==
    ASSUME SubscribersAssumption, SubscribersInv, Evolves, NEW w \in Workers,
           NEW v, worker' = [worker EXCEPT ![w] = v],
           v # None => v \in Job /\ \A x \in v.sends : SendSound(v.n, x)'
    PROVE  WorkSound' /\ worker' \in [Workers -> Job \cup {None}]
  <1> USE DEF SubscribersInv
  <1>1. worker \in [Workers -> Job \cup {None}]
    BY DEF TypeOK
  <1>2. worker' \in [Workers -> Job \cup {None}] /\ \A u \in Workers : worker'[u] = IF u = w THEN v ELSE worker[u]
    BY <1>1
  <1>3. \A u \in Workers : u # w /\ worker[u] # None =>
          \A x \in worker[u].sends : \A n : n = worker[u].n => SendSound(n, x)'
    BY SoundStays DEF WorkSound
  <1>4. \A u \in Workers : worker'[u] # None =>
          \A x \in worker'[u].sends : \A n : n = worker'[u].n => SendSound(n, x)'
    BY <1>2, <1>3
  <1> QED
    BY <1>2, <1>4 DEF WorkSound, SendSound

\* A worker takes a bulletin, and with a confirmation its one message.
LEMMA TakeKeeps ==
    ASSUME SubscribersAssumption, SubscribersInv, NEW w \in Workers, Take(w)
    PROVE  SubscribersInv'
  <1> USE DEF SubscribersInv
  <1>1. /\ queue # <<>> /\ queue' = Tail(queue)
        /\ UNCHANGED <<page, row, used, mail, req, tokens, bulletins, asked, contested>>
    BY DEF Take
  <1>2. queue \in Seq(Bulletins) /\ Len(queue) \in Nat /\ Len(queue) <= QueueDepth /\ QueueDepth \in Nat
    BY DEF TypeOK, SubscribersAssumption
  <1>3. /\ queue' \in Seq(Bulletins) /\ Len(queue') <= QueueDepth
        /\ Len(queue') = Len(queue) - 1 /\ 1 \in 1 .. Len(queue) /\ Head(queue) = queue[1]
        /\ \A n \in 1 .. Len(queue') : queue'[n] = queue[n + 1] /\ n + 1 \in 1 .. Len(queue)
    <2>1. Len(queue) # 0
      BY <1>1, <1>2
    <2>2. Tail(queue) \in Seq(Bulletins) /\ Len(Tail(queue)) = Len(queue) - 1
      BY <1>2, <2>1
    <2>3. \A n \in 1 .. Len(Tail(queue)) : Tail(queue)[n] = queue[n + 1]
      BY <1>2, <2>1
    <2> QED
      BY <1>1, <1>2, <2>1, <2>2, <2>3
  <1>4. Evolves
    BY <1>1, SameRows
  <1>5. QueueSound'
    <2>1. \A n \in 1 .. Len(queue') : \A b : b = queue'[n] => BulletinSound(b)'
      BY <1>3, <1>4, SoundStays DEF QueueSound
    <2> QED
      BY <2>1 DEF QueueSound, BulletinSound
  <1>6. PICK b : b = Head(queue)
    OBVIOUS
  <1>7. b \in Bulletins /\ BulletinSound(b)
    BY <1>2, <1>3, <1>6 DEF QueueSound
  <1>8. CASE b.kind = "confirmation"
    <2>1. PICK x : x = [Send(b.id, b.row, b.row.unsub, 1) EXCEPT !.confirm = b.row.confirm]
      OBVIOUS
    <2>2. b.id \in Ids /\ b.row \in Row
      BY <1>7, <1>8 DEF Bulletins
    <2>3. /\ x.id = b.id /\ x.row = b.row /\ x.confirm = b.row.confirm /\ x.unsub = b.row.unsub
          /\ x.attempt = 1 /\ x \in Copy
      BY <2>1, <2>2 DEF Send, Copy, Row, Token
    <2>4. CopySound(b.id, b.row) /\ b.row.seal # None /\ b.row.unsub = b.row.seal
      BY <1>7, <1>8 DEF BulletinSound
    <2>5. SendSound(0, x)
      BY <2>3, <2>4 DEF SendSound, CopySound
    <2>6. PICK v : v = [n |-> 0, pages |-> {}, sends |-> {x}]
      OBVIOUS
    <2>7. v \in Job /\ v.n = 0 /\ v.sends = {x}
      BY <2>3, <2>6 DEF Job
    <2>8. worker' = [worker EXCEPT ![w] = v]
      BY <1>6, <1>8, <2>1, <2>6 DEF Take
    <2>9. \A y \in v.sends : SendSound(v.n, y)'
      BY <1>4, <2>5, <2>7, SoundStays
    <2>10. WorkSound' /\ worker' \in [Workers -> Job \cup {None}]
      BY <1>4, <2>7, <2>8, <2>9, WorkKeeps
    <2>11. TypeOK'
      BY <1>1, <1>3, <2>10 DEF TypeOK
    <2> QED
      BY <1>1, <1>4, <1>5, <2>10, <2>11, FrameStays
  <1>9. CASE b.kind # "confirmation"
    <2>1. b.n \in Nat /\ b.pages \in SUBSET Pages
      BY <1>7, <1>9 DEF Bulletins
    <2>2. PICK v : v = [n |-> b.n, pages |-> b.pages, sends |-> {}]
      OBVIOUS
    <2>3. v \in Job /\ v.sends = {}
      BY <2>1, <2>2 DEF Job
    <2>4. worker' = [worker EXCEPT ![w] = v]
      BY <1>6, <1>9, <2>2 DEF Take
    <2>5. WorkSound' /\ worker' \in [Workers -> Job \cup {None}]
      BY <1>4, <2>3, <2>4, WorkKeeps
    <2>6. TypeOK'
      BY <1>1, <1>3, <2>5 DEF TypeOK
    <2> QED
      BY <1>1, <1>4, <1>5, <2>5, <2>6, FrameStays
  <1> QED
    BY <1>8, <1>9

\* A worker that turns to the confirmed subscribers of a page, or is done.
LEMMA ExpandKeeps ==
    ASSUME SubscribersAssumption, SubscribersInv, NEW w \in Workers,
           Done(w) \/ \E p \in Pages : Expand(w, p)
    PROVE  SubscribersInv'
  <1> USE DEF SubscribersInv
  <1>1. /\ worker[w] # None
        /\ UNCHANGED <<page, row, used, mail, queue, req, tokens, bulletins, asked, contested>>
    BY DEF Done, Expand
  <1>2. Evolves
    BY <1>1, SameRows
  <1>3. worker \in [Workers -> Job \cup {None}] /\ worker[w] \in Job
    BY <1>1 DEF TypeOK
  <1>4. PICK v : worker' = [worker EXCEPT ![w] = v] /\ (v # None => v \in Job /\ \A x \in v.sends : SendSound(v.n, x)')
    <2>1. CASE Done(w)
      BY <2>1 DEF Done
    <2>2. ASSUME NEW p \in Pages, Expand(w, p)
          PROVE  \E v : worker' = [worker EXCEPT ![w] = v] /\ v \in Job /\ \A x \in v.sends : SendSound(v.n, x)'
      <3> DEFINE S == IF page[p] = None THEN {} ELSE {Send(i, row[i], None, 0) : i \in Confirmed(p)}
      <3>1. PICK v : v = [worker[w] EXCEPT !.pages = @ \ {p}, !.sends = S]
        OBVIOUS
      <3>2. worker' = [worker EXCEPT ![w] = v]
        BY <1>3, <2>2, <3>1 DEF Expand, Job
      <3>3. \A x \in S : x \in Copy /\ \A n : SendSound(n, x)
        <4> SUFFICES ASSUME NEW i \in Confirmed(p), NEW x, x = Send(i, row[i], None, 0), NEW n
                     PROVE  x \in Copy /\ SendSound(n, x)
          OBVIOUS
        <4>1. i \in Ids /\ row[i] # None /\ row[i] \in Row /\ row[i].confirmed
          BY DEF Confirmed, TypeOK
        <4>2. x \in Copy /\ x.id = i /\ x.row = row[i] /\ x.confirm = None /\ x.attempt = 0
          BY <4>1 DEF Send, Copy, Token
        <4>3. RowSound(i)
          BY <4>1 DEF RowsSound
        <4>4. CopySound(i, row[i])
          BY <4>1, <4>3 DEF CopySound, RowSound, LinkSound
        <4> QED
          BY <4>1, <4>2, <4>3, <4>4 DEF SendSound, RowSound
      <3> HIDE DEF S
      <3>4. S \subseteq Copy
        BY <3>3
      <3>5. v \in Job /\ v.sends = S
        BY <1>3, <3>1, <3>4 DEF Job
      <3>6. \A x \in v.sends : SendSound(v.n, x)'
        BY <1>2, <3>3, <3>5, SoundStays
      <3> QED
        BY <3>2, <3>5, <3>6
    <2> QED
      BY <2>1, <2>2
  <1>5. WorkSound' /\ worker' \in [Workers -> Job \cup {None}]
    BY <1>2, <1>4, WorkKeeps
  <1>6. TypeOK'
    BY <1>1, <1>5 DEF TypeOK
  <1> QED
    BY <1>1, <1>2, <1>5, <1>6, FrameStays

\* A message that is dropped, or becomes another of the same bulletin.
LEMMA SendsKeep ==
    ASSUME SubscribersAssumption, SubscribersInv, Evolves, NEW w \in Workers,
           worker[w] # None, NEW x \in worker[w].sends,
           \/ Drop(w, x)
           \/ \E y \in Copy : Become(w, x, y) /\ \A n : n = worker[w].n => SendSound(n, y)'
    PROVE  WorkSound' /\ worker' \in [Workers -> Job \cup {None}]
  <1>1. worker \in [Workers -> Job \cup {None}] /\ worker[w] \in Job
    BY DEF SubscribersInv, TypeOK
  <1>2. PICK n : n = worker[w].n
    OBVIOUS
  <1>3. \A y \in worker[w].sends : y \in Copy /\ SendSound(n, y)'
    BY <1>1, <1>2, SoundStays DEF SubscribersInv, WorkSound, Job
  <1>4. PICK S \in SUBSET Copy : /\ worker' = [worker EXCEPT ![w].sends = S]
                                 /\ \A y \in S : SendSound(n, y)'
    <2>1. CASE Drop(w, x)
      <3>1. worker' = [worker EXCEPT ![w].sends = worker[w].sends \ {x}]
        BY <1>1, <2>1 DEF Drop
      <3> QED
        BY <1>3, <3>1
    <2>2. ASSUME NEW y \in Copy, Become(w, x, y), SendSound(n, y)'
          PROVE  \E T \in SUBSET Copy : /\ worker' = [worker EXCEPT ![w].sends = T]
                                       /\ \A z \in T : SendSound(n, z)'
      <3>1. worker' = [worker EXCEPT ![w].sends = (worker[w].sends \ {x}) \cup {y}]
        BY <1>1, <2>2 DEF Become
      <3> QED
        BY <1>3, <2>2, <3>1
    <2> QED
      BY <1>2, <2>1, <2>2
  <1>5. PICK v : v = [worker[w] EXCEPT !.sends = S]
    OBVIOUS
  <1>6. v \in Job /\ v.sends = S /\ v.n = n
    BY <1>1, <1>2, <1>5 DEF Job
  <1>7. worker' = [worker EXCEPT ![w] = v]
    BY <1>1, <1>4, <1>5 DEF Job
  <1> QED
    BY <1>4, <1>6, <1>7, WorkKeeps

\* An attempt: the message arrives, or not, and is tried again, or not.
LEMMA AttemptKeeps ==
    ASSUME SubscribersAssumption, SubscribersInv, NEW w \in Workers,
           worker[w] # None, NEW x \in worker[w].sends,
           Refused(w, x) \/ \E ok \in BOOLEAN : Delivers(w, x, ok)
    PROVE  SubscribersInv'
  <1> USE DEF SubscribersInv
  <1>1. /\ x.attempt > 0
        /\ UNCHANGED <<page, row, used, queue, req, tokens, bulletins, asked, contested>>
    BY DEF Refused, Delivers
  <1>2. Evolves
    BY <1>1, SameRows
  <1>3. /\ worker[w] \in Job /\ x \in Copy /\ worker[w].n \in Nat
        /\ SendSound(worker[w].n, x)
    BY DEF TypeOK, Job, WorkSound
  <1>4. x.attempt \in Nat /\ x.id \in Ids /\ x.row \in Row /\ x.confirm \in Token /\ x.unsub \in Token
    BY <1>3 DEF Copy
  <1>5. PICK y : y = [x EXCEPT !.attempt = @ + 1]
    OBVIOUS
  <1>6. /\ y \in Copy /\ y.id = x.id /\ y.row = x.row /\ y.confirm = x.confirm
        /\ y.unsub = x.unsub
    BY <1>3, <1>4, <1>5 DEF Copy
  <1>7. \A n : n = worker[w].n => SendSound(n, y)
    BY <1>1, <1>3, <1>6 DEF SendSound
  <1>8. WorkSound' /\ worker' \in [Workers -> Job \cup {None}]
    <2>1. Drop(w, x) \/ Become(w, x, y)
      BY <1>5 DEF Refused, Delivers
    <2>2. \A n : n = worker[w].n => SendSound(n, y)'
      BY <1>2, <1>7, SoundStays
    <2> QED
      BY <1>2, <1>6, <2>1, <2>2, SendsKeep
  <1>9. MailSound' /\ mail' \in [Targets -> SUBSET Messages]
    <2>1. CASE mail' = mail
      BY <1>2, <2>1, FrameStays DEF TypeOK
    <2>2. CASE mail' = [mail EXCEPT ![x.row.target] = @ \cup {Message(w, x)}]
      <3>1. PICK m : m = Message(w, x)
        OBVIOUS
      <3>2. PICK t \in Targets : t = x.row.target
        BY <1>4 DEF Row
      <3>3. /\ m \in Messages /\ m.id = x.id /\ m.bulletin = worker[w].n /\ m.confirm = x.confirm
            /\ m.unsub = x.unsub
        BY <1>3, <1>4, <3>1 DEF Message, Messages
      <3>4. MessageSound(t, m)
        BY <1>1, <1>3, <3>2, <3>3 DEF MessageSound, SendSound
      <3>5. /\ mail' \in [Targets -> SUBSET Messages]
            /\ \A s \in Targets : \A l \in mail'[s] : l \in mail[s] \/ (s = t /\ l = m)
        <4>1. mail \in [Targets -> SUBSET Messages]
          BY DEF TypeOK
        <4>2. mail' = [mail EXCEPT ![t] = mail[t] \cup {m}]
          BY <2>2, <3>1, <3>2, <4>1
        <4> QED
          BY <3>2, <3>3, <4>1, <4>2
      <3>6. \A s \in Targets : \A l \in mail'[s] : MessageSound(s, l)
        BY <3>4, <3>5 DEF MailSound
      <3> QED
        BY <1>2, <3>5, <3>6, SoundStays DEF MailSound
    <2> QED
      BY <2>1, <2>2 DEF Refused, Delivers
  <1>10. TypeOK'
    BY <1>1, <1>8, <1>9 DEF TypeOK
  <1> QED
    BY <1>1, <1>2, <1>8, <1>9, <1>10, FrameStays

\* A token that was not issued yet has no owner.
LEMMA FreshToken ==
    ASSUME SubscribersAssumption, SubscribersInv
    PROVE  \A i \in Ids : row[i] # None =>
             row[i].unsub # tokens + 1 /\ row[i].confirm # tokens + 1
  <1> SUFFICES ASSUME NEW i \in Ids, row[i] # None
               PROVE  row[i].unsub # tokens + 1 /\ row[i].confirm # tokens + 1
    OBVIOUS
  <1>1. tokens \in Nat /\ tokens + 1 \in Nat /\ tokens + 1 # None
    BY Numbers DEF SubscribersInv, SubscribersAssumption
  <1>2. RowSound(i)
    BY DEF SubscribersInv, RowsSound
  <1> QED
    BY <1>1, <1>2 DEF RowSound, OwnedBy

\* Preparing a message: the token of the copy, or a new one for a row that has
\* none; a row that another bulletin gave one in the meantime is contested.
LEMMA PrepareKeeps ==
    ASSUME SubscribersAssumption, SubscribersInv, NEW w \in Workers,
           worker[w] # None, NEW x \in worker[w].sends, Prepare(w, x)
    PROVE  SubscribersInv'
  <1> USE DEF SubscribersInv
  <1>1. /\ x.attempt = 0
        /\ UNCHANGED <<page, used, mail, queue, req, bulletins, asked>>
    BY DEF Prepare, PrepareSealed, ReissueToken, PrepareFails
  <1>2. /\ worker[w] \in Job /\ x \in Copy /\ SendSound(worker[w].n, x)
    BY DEF TypeOK, Job, WorkSound
  <1>3. x.id \in Ids /\ x.row \in Row /\ x.confirm \in Token /\ x.row.seal \in Token
    BY <1>2 DEF Copy, Row
  <1>4. CASE PrepareFails(w, x) \/ PrepareSealed(w, x) \/ (ReissueToken(w, x) /\ row[x.id] = None)
    <2>1. row' = row /\ contested' = contested /\ tokens' \in 0 .. MaxTokens /\ tokens \in Nat /\ tokens <= tokens'
      BY <1>4 DEF PrepareFails, PrepareSealed, ReissueToken, TypeOK, SubscribersAssumption
    <2>2. Evolves
      BY <1>1, <2>1 DEF Evolves, TypeOK
    <2>3. WorkSound' /\ worker' \in [Workers -> Job \cup {None}]
      <3>1. CASE PrepareSealed(w, x)
        <4>1. PICK y : y = [x EXCEPT !.unsub = x.row.seal, !.attempt = 1]
          OBVIOUS
        <4>2. /\ y \in Copy /\ y.id = x.id /\ y.row = x.row /\ y.confirm = x.confirm
              /\ y.unsub = x.row.seal
          BY <1>2, <1>3, <4>1 DEF Copy
        <4>3. \A n : n = worker[w].n => SendSound(n, y)
          BY <1>2, <3>1, <4>2 DEF SendSound, CopySound, PrepareSealed
        <4>4. \A n : n = worker[w].n => SendSound(n, y)'
          BY <2>2, <4>3, SoundStays
        <4>5. Become(w, x, y)
          BY <3>1, <4>1 DEF PrepareSealed
        <4> QED
          BY <2>2, <4>2, <4>4, <4>5, SendsKeep
      <3>2. CASE Drop(w, x)
        BY <2>2, <3>2, SendsKeep
      <3> QED
        BY <1>4, <3>1, <3>2 DEF PrepareFails, ReissueToken
    <2>4. TypeOK'
      BY <1>1, <2>1, <2>3 DEF TypeOK
    <2> QED
      BY <1>1, <2>1, <2>2, <2>3, <2>4, FrameStays
  <1>5. CASE ReissueToken(w, x) /\ row[x.id] # None
    <2>1. PICK i \in Ids : i = x.id
      BY <1>3
    <2>2. PICK k : k = tokens + 1
      OBVIOUS
    <2>3. /\ k \in Nat /\ k # None /\ k > 0 /\ tokens \in Nat /\ k > tokens /\ k \in 1 .. k
          /\ tokens' = k /\ tokens' \in 0 .. MaxTokens
      BY <1>5, <2>2 DEF ReissueToken, TypeOK, SubscribersAssumption
    <2>4. /\ row[i] # None /\ row[i] \in Row
          /\ row' = [row EXCEPT ![i].unsub = k, ![i].seal = k]
          /\ contested' = IF row[i].seal # None THEN contested \cup {i} ELSE contested
      BY <1>5, <2>1, <2>2 DEF ReissueToken, TypeOK
    <2>5. PICK s : s = [row[i] EXCEPT !.unsub = k, !.seal = k]
      OBVIOUS
    <2>6. /\ s \in Row /\ s.unsub = k /\ s.seal = k /\ s.target = row[i].target
          /\ s.confirm = row[i].confirm /\ s.confirmed = row[i].confirmed
      BY <2>3, <2>4, <2>5 DEF Row, Token
    <2>7. row' = [row EXCEPT ![i] = s]
      BY <2>4, <2>5 DEF TypeOK, Row
    <2>8. /\ row' \in [Ids -> Row \cup {None}]
          /\ \A j \in Ids : row'[j] = IF j = i THEN s ELSE row[j]
      BY <2>6, <2>7 DEF TypeOK
    <2>9. RowSound(i) /\ i \in used
      BY <2>4 DEF RowsSound, RowSound
    <2>10. Evolves
      <3>1. row[i].unsub = 0 \/ i \in contested'
        BY <2>4, <2>9 DEF RowSound
      <3>2. contested \subseteq contested' /\ used \subseteq Ids
        BY <2>4 DEF TypeOK
      <3> QED
        BY <1>1, <2>3, <2>4, <2>6, <2>8, <3>1, <3>2 DEF Evolves
    <2>11. OwnedBy(k, i)'
      <3>1. \A j \in ByToken(k)' : j = i
        BY <2>2, <2>8, FreshToken DEF ByToken
      <3> QED
        BY <2>3, <3>1 DEF OwnedBy
    <2>12. LinkSound(i, row[i].target, k)'
      BY <1>1, <2>6, <2>8, <2>9, <2>11 DEF LinkSound
    <2>13. RowsSound'
      <3>1. s.confirm # None => \A c : c = s.confirm => OwnedBy(c, i)'
        BY <2>4, <2>6, <2>9, <2>10, OwnedStays DEF RowSound
      <3>2. s.confirmed => i \in asked'
        BY <1>1, <2>4, <2>6, <2>9 DEF RowSound
      <3>3. RowSound(i)'
        BY <1>1, <2>3, <2>6, <2>8, <2>9, <2>11, <3>1, <3>2 DEF RowSound, OwnedBy
      <3>4. \A j \in Ids : j # i => RowSound(j)'
        BY <2>8, <2>10, SoundStays DEF RowsSound
      <3> QED
        BY <3>3, <3>4 DEF RowsSound
    <2>14. WorkSound' /\ worker' \in [Workers -> Job \cup {None}]
      <3>1. PICK y : y = [x EXCEPT !.unsub = k, !.attempt = 1]
        OBVIOUS
      <3>2. /\ y \in Copy /\ y.id = i /\ y.row = x.row /\ y.confirm = x.confirm
            /\ y.unsub = k /\ y.attempt = 1
        BY <1>2, <1>3, <2>1, <2>3, <3>1 DEF Copy, Token
      <3>3. Become(w, x, y)
        BY <1>5, <2>1, <2>2, <3>1 DEF ReissueToken
      <3>4. \A n : n = worker[w].n => SendSound(n, x)'
        BY <1>2, <2>10, SoundStays
      <3>5. \A t : t = x.row.target => LinkSound(i, t, k)'
        BY <1>1, <1>2, <2>1, <2>4, <2>6, <2>8, <2>9, <2>11 DEF LinkSound, SendSound, CopySound
      <3>6. \A n : n = worker[w].n => SendSound(n, y)'
        BY <2>1, <3>2, <3>4, <3>5 DEF SendSound
      <3> QED
        BY <2>10, <3>2, <3>3, <3>6, SendsKeep
    <2>15. TypeOK'
      <3>1. contested' \subseteq Ids
        BY <2>4 DEF TypeOK
      <3> QED
        BY <1>1, <2>3, <2>8, <2>14, <3>1 DEF TypeOK
    <2> QED
      BY <1>1, <2>10, <2>13, <2>14, <2>15, FrameStays
  <1> QED
    BY <1>4, <1>5 DEF Prepare

-----------------------------------------------------------------------------
(* The theorems *)

LEMMA InitSubscribers ==
    ASSUME SubscribersAssumption, Init
    PROVE  SubscribersInv
  <1>1. /\ used = DOMAIN Legacy /\ asked = DOMAIN Legacy /\ contested = {} /\ queue = <<>>
        /\ mail = [t \in Targets |-> {}] /\ worker = [w \in Workers |-> None]
        /\ req = [r \in Requests |-> None] /\ tokens = 0 /\ bulletins = 0
        /\ page = [p \in Pages |-> [published |-> TRUE, open |-> TRUE]]
    BY DEF Init
  <1>2. \A i \in Ids : \/ row[i] = None
                      \/ /\ i \in DOMAIN Legacy /\ row[i] \in Row /\ row[i].confirm = None
                         /\ row[i].confirmed /\ row[i].unsub = 0 /\ row[i].seal = None
    <2> SUFFICES ASSUME NEW i \in Ids, i \in DOMAIN Legacy
                 PROVE  /\ row[i] \in Row /\ row[i].confirm = None
                        /\ row[i].confirmed /\ row[i].unsub = 0 /\ row[i].seal = None
      BY DEF Init
    <2>1. Legacy[i][1] \in Pages /\ Legacy[i][2] \in Targets
      BY DEF SubscribersAssumption
    <2>2. row[i] = [page |-> Legacy[i][1], target |-> Legacy[i][2], confirm |-> None,
                    confirmed |-> TRUE, unsub |-> 0, seal |-> None]
      BY DEF Init
    <2> QED
      BY <2>1, <2>2 DEF Row, Token
  <1>3. row \in [Ids -> Row \cup {None}]
    <2>1. row = [i \in Ids |-> row[i]]
      BY DEF Init
    <2> QED
      BY <1>2, <2>1
  <1>4. queue \in Seq(Bulletins) /\ Len(queue) = 0
    BY <1>1
  <1>5. TypeOK
    BY <1>1, <1>3, <1>4 DEF TypeOK, SubscribersAssumption
  <1>6. RowsSound
    BY <1>1, <1>2 DEF RowsSound, RowSound
  <1>7. QueueSound /\ WorkSound /\ MailSound /\ RequestsSound
    BY <1>1, <1>4 DEF QueueSound, WorkSound, MailSound, RequestsSound
  <1> QED
    BY <1>5, <1>6, <1>7 DEF SubscribersInv

\* SubscribersInv is inductive, whatever the pages, mailboxes and workers.
THEOREM SubscriptionsSound ==
    ASSUME SubscribersAssumption
    PROVE  Spec => []SubscribersInv
  <1>1. SubscribersInv /\ [Next]_vars => SubscribersInv'
    <2> SUFFICES ASSUME SubscribersInv, [Next]_vars PROVE SubscribersInv'
      OBVIOUS
    <2>1. ASSUME NEW r \in Requests, NEW p \in Pages, NEW t \in Targets, SubscribeReads(r, p, t)
          PROVE  SubscribersInv'
      BY <2>1, QuietKeeps
    <2>2. ASSUME NEW r \in Requests, NEW i \in Ids, SubscribeWrites(r, i) PROVE SubscribersInv'
      BY <2>2, SubscribeKeeps
    <2>3. ASSUME NEW r \in Requests, NEW t \in Targets, NEW m \in mail[t],
                 NEW k \in {m.confirm, m.unsub}, NEW c \in {"confirm", "unsubscribe"},
                 Follow(r, t, m, k, c)
          PROVE  SubscribersInv'
      BY <2>3, FollowKeeps
    <2>4. ASSUME NEW r \in Requests, ConfirmSubscription(r) \/ Unsubscribe(r) PROVE SubscribersInv'
      BY <2>4, RemovalsKeep
    <2>5. ASSUME NEW i \in Ids, DeleteSubscriber(i) PROVE SubscribersInv'
      BY <2>5, RemovalsKeep
    <2>6. ASSUME NEW p \in Pages, DeletePage(p) PROVE SubscribersInv'
      BY <2>6, RemovalsKeep
    <2>7. ASSUME NEW p \in Pages, NEW pub \in BOOLEAN, NEW open \in BOOLEAN, EditPage(p, pub, open)
          PROVE  SubscribersInv'
      BY <2>7, QuietKeeps
    <2>8. ASSUME NEW ps \in SUBSET Pages, Announce(ps) PROVE SubscribersInv'
      BY <2>8, AnnounceKeeps
    <2>9. ASSUME NEW w \in Workers, Take(w) PROVE SubscribersInv'
      BY <2>9, TakeKeeps
    <2>10. ASSUME NEW w \in Workers, Done(w) \/ \E p \in Pages : Expand(w, p) PROVE SubscribersInv'
      BY <2>10, ExpandKeeps
    <2>11. ASSUME NEW w \in Workers, worker[w] # None, NEW x \in worker[w].sends,
                  Prepare(w, x) \/ Refused(w, x) \/ \E ok \in BOOLEAN : Delivers(w, x, ok)
           PROVE  SubscribersInv'
      BY <2>11, PrepareKeeps, AttemptKeeps
    <2>12. CASE Stop
      BY <2>12, QuietKeeps
    <2>13. CASE UNCHANGED vars
      <3>1. Evolves
        BY <2>13, SameRows DEF SubscribersInv, vars
      <3>2. TypeOK'
        BY <2>13 DEF SubscribersInv, TypeOK, vars
      <3> QED
        BY <2>13, <3>1, <3>2, FrameStays DEF SubscribersInv, vars
    <2> QED
      BY <2>1, <2>2, <2>3, <2>4, <2>5, <2>6, <2>7, <2>8, <2>9, <2>10, <2>11, <2>12, <2>13 DEF Next
  <1>2. Init => SubscribersInv
    BY InitSubscribers
  <1> QED
    BY <1>1, <1>2, PTL DEF Spec

\* Every bulletin in a mailbox is for a subscription confirmed out of that
\* mailbox, for any interleaving of requests, relay workers, edits and stops.
THEOREM ConsentAlwaysKept ==
    ASSUME SubscribersAssumption
    PROVE  Spec => []ConsentKept
  <1>1. SubscribersInv => ConsentKept
    BY DEF SubscribersInv, MailSound, MessageSound, LinkSound, ConsentKept
  <1> QED
    BY <1>1, SubscriptionsSound, PTL

\* The link of every message ends the subscription it came from and no other,
\* unless two bulletins gave a row that had no sealed token one each.
THEOREM LinksAlwaysWork ==
    ASSUME SubscribersAssumption
    PROVE  Spec => []LinksWork
  <1>1. SubscribersInv => LinksWork
    <2> SUFFICES ASSUME SubscribersInv, NEW t \in Targets, NEW m \in mail[t],
                        row[m.id] # None, m.id \notin contested
                 PROVE  ByToken(m.unsub) = {m.id}
      BY DEF LinksWork
    <2>1. LinkSound(m.id, t, m.unsub) /\ m.id \in Ids
      BY DEF SubscribersInv, MailSound, MessageSound, TypeOK, Messages
    <2>2. row[m.id].unsub = m.unsub /\ ByToken(m.unsub) \subseteq {m.id}
      BY <2>1 DEF LinkSound, OwnedBy
    <2>3. m.id \in ByToken(m.unsub)
      BY <2>1, <2>2 DEF ByToken
    <2> QED
      BY <2>2, <2>3
  <1> QED
    BY <1>1, SubscriptionsSound, PTL
=============================================================================

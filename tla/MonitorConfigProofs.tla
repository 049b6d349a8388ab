-------------------------- MODULE MonitorConfigProofs --------------------------
(***************************************************************************)
(* Proofs about MonitorConfig, for any monitors, groups, tags and          *)
(* channels, any number of requests that cross, and any depth of the       *)
(* dependency chains.                                                      *)
(***************************************************************************)
EXTENDS MonitorConfig, WellFoundedInduction, TLAPS

-----------------------------------------------------------------------------
(* The inductive invariant *)

Agrees(row) == (row.status = "paused") = ~row.enabled

\* The last write of this request will make enabling and status of m agree.
Owes(q, m) ==
    /\ q # None /\ q.id = m /\ NeedsSwitch(q)
    /\ q.stage \in {"tags", "channels", "switch"}

\* PauseIsTrue, with what is under way: nothing disagrees that nobody will mend.
PauseOwed ==
    \A m \in Exists \ excused : Agrees(mon[m]) \/ \E r \in Requests : Owes(req[r], m)

RowKinds == {"create", "patch", "bulk"}

\* The copy a request goes by is fresh: the row is there, is enabled as it was,
\* and the copy has no parent, the same parent, or one the resolver passes.
CopyHolds(q) ==
    /\ q.id \in Exists /\ mon[q.id].enabled = q.was
    /\ \/ q.row.parent = None \/ q.row.parent = mon[q.id].parent
       \/ ResolveParent(q.id, q.row.parent)

\* The switch of a row about to be written is as the body wishes, or as it was.
SwitchFits(q) ==
    q.row.enabled = IF q.kind = "patch" /\ "enabled" \in DOMAIN q.body
                    THEN q.body.enabled ELSE q.was

\* A row about to be written; the copy of one is fresh while nothing has been
\* committed since it was read.
RowFits(q) ==
    /\ q.kind = "create" =>
          /\ Agrees(q.row)
          /\ ~q.old => q.row.parent = None \/ ResolveParent(q.id, q.row.parent)
    /\ q.kind # "create" => SwitchFits(q) /\ (~q.old => CopyHolds(q))

\* A group about to be moved.
MoveFits(q) ==
    /\ q.id \in Groups /\ q.body.to \in Groups \cup {"top"}
    /\ ~q.old => /\ q.id \in ExistingGroups
                 /\ q.body.to = "top" \/ ResolveParentGroup(q.id, q.body.to)

\* What a request has in hand.
Fits(q) ==
    /\ q.kind \in RowKinds => q.id \in Monitors /\ q.row \in Row
    /\ q.kind \in RowKinds /\ q.stage = "row" => RowFits(q)
    /\ q.kind = "move" => MoveFits(q)

AllFit == \A r \in Requests : req[r] # None => Fits(req[r])

NestFlat == \A g \in ExistingGroups : nest[g] # "top" => nest[nest[g]] = "top"

RefsHold ==
    /\ \A m \in Exists :
         /\ mon[m].parent # None => mon[m].parent \in Exists
         /\ mon[m].group # None => mon[m].group \in ExistingGroups
    /\ \A g \in ExistingGroups : nest[g] # "top" => nest[g] \in ExistingGroups

ShapeHolds == ~raced => NoLoop /\ NestFlat

ConfigInv == TypeOK /\ AllFit /\ RefsHold /\ ShapeHolds /\ PauseOwed

-----------------------------------------------------------------------------
(* The operators *)

\* A set of numbers has a least one.
LEMMA LeastOf ==
    ASSUME NEW D \in SUBSET Nat, D # {}
    PROVE  \E x \in D : \A y \in D : ~ (y < x)
  <1>1. PICK x \in D : \A y \in D : ~ (<<y, x>> \in OpToRel(<, Nat))
    BY NatLessThanWellFounded, WFMin, Zenon
  <1>2. \A y \in D : ~ (y < x)
    BY <1>1, Zenon DEF OpToRel
  <1> QED
    BY <1>2

\* The fields a PATCH may have.
LEMMA PatchFields ==
    ASSUME NEW b \in Patch
    PROVE  /\ DOMAIN b \subseteq {"enabled", "timeout", "interval", "group", "parent",
                                  "config", "tags", "channels"}
           /\ "enabled" \in DOMAIN b => b["enabled"] \in BOOLEAN
           /\ "timeout" \in DOMAIN b => b["timeout"] \in {1, 2}
           /\ "interval" \in DOMAIN b => b["interval"] \in {2, 3}
           /\ "group" \in DOMAIN b => b["group"] \in Groups \cup {None}
           /\ "parent" \in DOMAIN b => b["parent"] \in Monitors \cup {None}
           /\ "config" \in DOMAIN b => b["config"] \in Secrets
  <1>1. CASE b \in [enabled : BOOLEAN] \cup [timeout : {1, 2}] \cup [interval : {2, 3}]
    BY <1>1
  <1>2. CASE b \in [group : Groups \cup {None}] \cup [parent : Monitors \cup {None}]
    BY <1>2
  <1>3. CASE b \in [config : Secrets]
    BY <1>3
  <1>4. CASE b \in [enabled : BOOLEAN, tags : SUBSET Tags] \cup [channels : SUBSET Channels]
    BY <1>4
  <1> QED
    BY <1>1, <1>2, <1>3, <1>4 DEF Patch

\* Folding a PATCH into a row gives a row, with the columns of the body replaced.
LEMMA FoldTyped ==
    ASSUME NEW row \in Row, NEW b \in Patch
    PROVE  /\ Fold(row, b) \in Row
           /\ Fold(row, b).status = row.status
           /\ Fold(row, b).parent = IF "parent" \in DOMAIN b THEN b.parent ELSE row.parent
           /\ Fold(row, b).enabled = IF "enabled" \in DOMAIN b THEN b.enabled ELSE row.enabled
  <1> DEFINE plain == [k \in DOMAIN row |->
                         IF k \in DOMAIN b \ {"config"} THEN b[k] ELSE row[k]]
             Of(k) == IF k \in DOMAIN b THEN b[k] ELSE row[k]
  <1>1. /\ DOMAIN row = {"enabled", "timeout", "interval", "group", "parent", "secret", "status"}
        /\ row["enabled"] \in BOOLEAN /\ row["timeout"] \in {1, 2} /\ row["interval"] \in {2, 3}
        /\ row["group"] \in Groups \cup {None} /\ row["parent"] \in Monitors \cup {None}
        /\ row["secret"] \in Secrets /\ row["status"] \in {"pending", "paused", "up"}
    BY DEF Row
  <1>2. "secret" \notin DOMAIN b /\ "status" \notin DOMAIN b
    BY PatchFields
  <1>3. plain = [enabled |-> Of("enabled"), timeout |-> Of("timeout"),
                 interval |-> Of("interval"), group |-> Of("group"),
                 parent |-> Of("parent"), secret |-> row["secret"], status |-> row["status"]]
    BY <1>1, <1>2
  <1>4. plain \in Row
    BY <1>1, <1>3, PatchFields DEF Row
  <1>5. plain.status = row.status /\ plain.parent = Of("parent") /\ plain.enabled = Of("enabled")
    BY <1>3
  <1> HIDE DEF plain
  <1>6. "config" \in DOMAIN b => Preserve(plain.secret, b.config) \in Secrets
    BY <1>4, PatchFields DEF Preserve, Row
  <1>7. Fold(row, b) = IF "config" \in DOMAIN b THEN WithConfig(plain, b.config) ELSE plain
    BY DEF Fold, plain
  <1> QED
    BY <1>4, <1>5, <1>6, <1>7 DEF WithConfig, Row

\* A monitor that is there has a row; None is not a monitor.
LEMMA RowsThere ==
    ASSUME MonitorConfigAssumption, TypeOK
    PROVE  /\ \A m \in Exists : m \in Monitors /\ mon[m] \in Row
           /\ None \notin Exists /\ None \notin ExistingGroups /\ "top" \notin ExistingGroups
  BY DEF MonitorConfigAssumption, TypeOK, Exists, ExistingGroups

\* No loop appears where no monitor and no dependency does.
LEMMA LoopFrame ==
    ASSUME NoLoop, Exists' \subseteq Exists,
           \A m \in Exists' : mon'[m].parent = mon[m].parent
    PROVE  NoLoop'
  <1> SUFFICES ASSUME NEW S \in SUBSET Exists', S # {}
               PROVE  \E m \in S : mon'[m].parent \notin S
    BY DEF NoLoop
  <1>1. PICK m \in S : mon[m].parent \notin S
    BY DEF NoLoop
  <1> QED
    BY <1>1

\* No loop appears where one monitor takes a parent that the resolver passes: a
\* set that depends only on itself, and has this monitor, would have the whole
\* walk up from the new parent, which ends.
LEMMA LoopWrite ==
    ASSUME MonitorConfigAssumption, TypeOK, NoLoop, NEW k \in Monitors, NEW row \in Row,
           mon' = [mon EXCEPT ![k] = row],
           \/ row.parent = None
           \/ k \in Exists /\ row.parent = mon[k].parent
           \/ ResolveParent(k, row.parent)
    PROVE  NoLoop'
  <1>1. /\ \A m \in Exists' : m = k \/ m \in Exists
        /\ \A m \in Monitors : mon'[m] = IF m = k THEN row ELSE mon[m]
    BY DEF TypeOK, Exists
  <1>2. SUFFICES ASSUME NEW S \in SUBSET Exists', S # {},
                        \A m \in S : mon'[m].parent \in S
                 PROVE  FALSE
    BY DEF NoLoop
  <1>3. S \subseteq Monitors /\ None \notin S
    BY DEF Exists, MonitorConfigAssumption
  <1>4. k \in S
    <2>1. SUFFICES ASSUME k \notin S PROVE FALSE
      OBVIOUS
    <2>2. S \subseteq Exists /\ \A m \in S : mon[m].parent \in S
      BY <1>1, <1>2, <1>3, <2>1
    <2> QED
      BY <1>2, <2>2 DEF NoLoop
  <1>5. row.parent \in S /\ row.parent # None
    BY <1>1, <1>2, <1>3, <1>4
  <1>6. CASE k \in Exists /\ row.parent = mon[k].parent
    <2>1. S \subseteq Exists /\ \A m \in S : mon[m].parent \in S
      BY <1>1, <1>2, <1>3, <1>6
    <2> QED
      BY <1>2, <2>1 DEF NoLoop
  <1>7. CASE ResolveParent(k, row.parent)
    <2>1. PICK at \in [0 .. MaxDepth -> Exists \cup {None}] :
             /\ at[0] = row.parent /\ at[MaxDepth] = None
             /\ \A d \in 0 .. MaxDepth : at[d] # k
             /\ \A d \in 1 .. MaxDepth : at[d] = Up(at[d - 1])
      BY <1>7 DEF ResolveParent
    <2> DEFINE D == {d \in 0 .. MaxDepth : at[d] \notin S}
    <2>2. MaxDepth \in D /\ D \in SUBSET Nat
      BY <1>3, <2>1 DEF MonitorConfigAssumption
    <2>3. PICK x \in D : \A y \in D : ~ (y < x)
      BY <2>2, LeastOf
    <2>4. x # 0
      BY <1>5, <2>1
    <2>5. x \in 1 .. MaxDepth /\ x - 1 \in 0 .. MaxDepth /\ x - 1 < x
      BY <2>4 DEF MonitorConfigAssumption
    <2>6. at[x - 1] \in S
      BY <2>3, <2>5
    <2>7. at[x] = mon[at[x - 1]].parent
      BY <1>3, <2>1, <2>5, <2>6 DEF Up
    <2>8. mon'[at[x - 1]] = mon[at[x - 1]]
      BY <1>1, <1>3, <2>1, <2>5, <2>6
    <2>9. at[x] \in S
      BY <1>2, <2>6, <2>7, <2>8
    <2> QED
      BY <2>9
  <1> QED
    BY <1>5, <1>6, <1>7

\* A request has in hand what it had, where no parent, group or switch moves.
LEMMA FitsStays ==
    ASSUME MonitorConfigAssumption, TypeOK, nest' = nest, Exists' = Exists,
           \A m \in Exists : /\ mon'[m].parent = mon[m].parent
                             /\ mon'[m].enabled = mon[m].enabled,
           NEW q, Fits(q)
    PROVE  Fits(q)'
  <1>1. \A p \in Exists \cup {None} : Up(p)' = Up(p)
    BY DEF Up
  <1>2. \A m, p : ResolveParent(m, p) => ResolveParent(m, p)'
    <2> SUFFICES ASSUME NEW m, NEW p, ResolveParent(m, p) PROVE ResolveParent(m, p)'
      OBVIOUS
    <2>1. PICK at \in [0 .. MaxDepth -> Exists \cup {None}] :
             /\ at[0] = p /\ at[MaxDepth] = None
             /\ \A d \in 0 .. MaxDepth : at[d] # m
             /\ \A d \in 1 .. MaxDepth : at[d] = Up(at[d - 1])
      BY DEF ResolveParent
    <2>2. ASSUME NEW d \in 1 .. MaxDepth PROVE at[d] = Up(at[d - 1])'
      <3>1. d - 1 \in 0 .. MaxDepth
        BY DEF MonitorConfigAssumption
      <3> QED
        BY <1>1, <2>1, <3>1
    <2> QED
      BY <2>1, <2>2 DEF ResolveParent
  <1>3. CopyHolds(q) => CopyHolds(q)'
    BY <1>2 DEF CopyHolds
  <1>4. MoveFits(q) => MoveFits(q)'
    BY DEF MoveFits, ResolveParentGroup, ExistingGroups
  <1> QED
    BY <1>2, <1>3, <1>4 DEF Fits, RowFits, SwitchFits

\* A request with a stale copy has in hand what needs no fresh one.
Stale(q) == [q EXCEPT !.old = TRUE]

LEMMA StaleFits ==
    ASSUME NEW q \in Request
    PROVE  /\ Stale(q) \in Request
           /\ Fits(q) => Fits(Stale(q))'
           /\ \A m : Owes(q, m) => Owes(Stale(q), m) \/ Stale(q) = None
  <1>1. Stale(q) \in Request
    BY DEF Stale, Request
  <1>2. /\ Stale(q).kind = q.kind /\ Stale(q).id = q.id /\ Stale(q).old = TRUE
        /\ Stale(q).stage = q.stage /\ Stale(q).row = q.row /\ Stale(q).body = q.body
        /\ Stale(q).was = q.was
    BY DEF Stale, Request
  <1>3. Fits(q) => Fits(Stale(q))'
    BY <1>2 DEF Fits, RowFits, SwitchFits, MoveFits
  <1>4. \A m : Owes(q, m) => Owes(Stale(q), m) \/ Stale(q) = None
    BY <1>2 DEF Owes, NeedsSwitch
  <1> QED
    BY <1>1, <1>3, <1>4

\* After a commit, the requests that are under way have stale copies, and owe
\* what they owed.
LEMMA CommitKeeps ==
    ASSUME MonitorConfigAssumption, TypeOK, AllFit, NEW r, NEW next, Commit(r, next),
           next = None \/ (next \in Request /\ Fits(next)')
    PROVE  /\ req' \in [Requests -> Request \cup {None}] /\ AllFit'
           /\ r \in Requests => req'[r] = next
           /\ \A x \in Requests : \A m : x # r /\ Owes(req[x], m) => Owes(req'[x], m)
  <1>1. req' = [x \in Requests |-> IF x = r THEN next
                                   ELSE IF req[x] = None THEN None ELSE Stale(req[x])]
    BY DEF Commit, Stale
  <1>2. ASSUME NEW x \in Requests, req[x] # None
        PROVE  /\ req[x] \in Request /\ Stale(req[x]) \in Request /\ Stale(req[x]) # None
               /\ Fits(req[x])
    BY <1>2, StaleFits DEF TypeOK, AllFit, MonitorConfigAssumption
  <1>3. req' \in [Requests -> Request \cup {None}]
    BY <1>1, <1>2
  <1>4. ASSUME NEW x \in Requests, req'[x] # None PROVE Fits(req[x])'
    <2>1. CASE x = r
      BY <1>1, <1>4, <2>1
    <2>2. CASE x # r
      <3>1. req[x] # None /\ req'[x] = Stale(req[x])
        BY <1>1, <1>4, <2>2
      <3>2. \A q \in Request : Fits(q) => Fits(Stale(q))'
        BY StaleFits
      <3> QED
        BY <1>2, <3>1, <3>2
    <2> QED
      BY <2>1, <2>2
  <1>5. ASSUME NEW x \in Requests, NEW m, x # r, Owes(req[x], m)
        PROVE  Owes(req'[x], m)
    <2>1. req[x] # None /\ req'[x] = Stale(req[x])
      BY <1>1, <1>5 DEF Owes
    <2> QED
      BY <1>2, <1>5, <2>1, StaleFits DEF Owes
  <1> QED
    BY <1>1, <1>3, <1>4, <1>5 DEF AllFit

\* A request begins, with a fresh copy, and owes nothing yet.
LEMMA BeginKeeps ==
    ASSUME MonitorConfigAssumption, ConfigInv, NEW r \in Requests, NEW q \in Request,
           Fits(q), Free(r), Begin(r, q),
           UNCHANGED <<mon, nest, tags, chans, carries, alerts, raced, excused>>
    PROVE  ConfigInv'
  <1>1. /\ req' = [req EXCEPT ![r] = q] /\ req[r] = None /\ writes' = writes + 1
    BY DEF Begin, Free
  <1>2. TypeOK /\ AllFit
    BY DEF ConfigInv
  <1>3. Exists' = Exists /\ ExistingGroups' = ExistingGroups
    BY DEF Exists, ExistingGroups
  <1>4. TypeOK'
    BY <1>1, <1>2 DEF TypeOK
  <1>5. AllFit'
    <2>1. \A x : Fits(x) => Fits(x)'
      BY <1>2, <1>3, FitsStays
    <2> QED
      BY <1>1, <1>2, <2>1 DEF TypeOK, AllFit
  <1>6. RefsHold' /\ ShapeHolds'
    BY <1>3 DEF ConfigInv, RefsHold, ShapeHolds, NoLoop, NestFlat
  <1>7. PauseOwed'
    <2>1. \A x \in Requests : \A m : Owes(req[x], m) => Owes(req'[x], m)
      BY <1>1, <1>2 DEF TypeOK, Owes
    <2> QED
      BY <1>3, <2>1 DEF ConfigInv, PauseOwed, Agrees
  <1> QED
    BY <1>4, <1>5, <1>6, <1>7 DEF ConfigInv

\* A request goes on, or ends, and changes no monitor and no group: what it owed
\* it still owes, or the monitor is excused or gone.
LEMMA ProgressKeeps ==
    ASSUME MonitorConfigAssumption, ConfigInv, NEW r \in Requests, NEW next,
           next = None \/ (next \in Request /\ Fits(next)),
           req' = [req EXCEPT ![r] = next],
           UNCHANGED <<mon, nest, tags, chans, raced, writes>>,
           carries' \in [Monitors -> SUBSET Tags], alerts' \in [Monitors -> SUBSET Channels],
           excused \subseteq excused', excused' \subseteq Monitors,
           \A m : Owes(req[r], m) => Owes(next, m) \/ m \in excused' \/ m \notin Exists
    PROVE  ConfigInv'
  <1>1. TypeOK /\ AllFit
    BY DEF ConfigInv
  <1>2. Exists' = Exists /\ ExistingGroups' = ExistingGroups
    BY DEF Exists, ExistingGroups
  <1>3. TypeOK'
    BY <1>1 DEF TypeOK
  <1>4. AllFit'
    <2>1. \A x : Fits(x) => Fits(x)'
      BY <1>1, <1>2, FitsStays
    <2> QED
      BY <1>1, <2>1 DEF TypeOK, AllFit
  <1>5. RefsHold' /\ ShapeHolds'
    BY <1>2 DEF ConfigInv, RefsHold, ShapeHolds, NoLoop, NestFlat
  <1>6. PauseOwed'
    <2> SUFFICES ASSUME NEW m \in Exists \ excused'
                 PROVE  Agrees(mon[m]) \/ \E x \in Requests : Owes(req'[x], m)
      BY <1>2 DEF PauseOwed, Agrees
    <2>1. Agrees(mon[m]) \/ \E x \in Requests : Owes(req[x], m)
      BY DEF ConfigInv, PauseOwed
    <2>2. \A x \in Requests : req'[x] = IF x = r THEN next ELSE req[x]
      BY <1>1 DEF TypeOK
    <2> QED
      BY <2>1, <2>2
  <1> QED
    BY <1>3, <1>4, <1>5, <1>6 DEF ConfigInv

-----------------------------------------------------------------------------
(* The steps *)

\* A body is a PATCH, and a parent it names is one the resolver passes.
LEMMA BodiesTyped ==
    ASSUME MonitorConfigAssumption, TypeOK, NEW m \in Monitors, NEW b \in BodiesFor(m)
    PROVE  /\ b \in Patch
           /\ "parent" \in DOMAIN b => b.parent = None \/ ResolveParent(m, b.parent)
  <1>1. tags \subseteq Tags /\ chans \subseteq Channels
    BY DEF TypeOK
  <1>2. CASE b \in {[enabled |-> e] : e \in BOOLEAN} \cup {[timeout |-> t] : t \in {1, 2}}
                   \cup {[interval |-> i] : i \in {2, 3}}
    BY <1>2 DEF Patch
  <1>3. CASE b \in {[group |-> g] : g \in {None} \cup {g \in Groups : ResolveGroup(g)}}
                   \cup {[config |-> s] : s \in Secrets}
    BY <1>3 DEF Patch
  <1>4. CASE b \in {[parent |-> p] : p \in {None} \cup {p \in Monitors : ResolveParent(m, p)}}
    BY <1>4 DEF Patch
  <1>5. CASE b \in {[enabled |-> e, tags |-> t] : e \in BOOLEAN, t \in SUBSET tags}
    BY <1>1, <1>5 DEF Patch
  <1>6. CASE b \in {[channels |-> c] : c \in SUBSET chans}
    BY <1>1, <1>6 DEF Patch
  <1> QED
    BY <1>2, <1>3, <1>4, <1>5, <1>6 DEF BodiesFor

LEMMA CreateReadsStep ==
    ASSUME MonitorConfigAssumption, ConfigInv, NEW r \in Requests, NEW m \in Monitors,
           CreateReads(r, m)
    PROVE  ConfigInv'
  <1>1. PICK b \in BOOLEAN, g \in {None} \cup ExistingGroups, c \in {{}, chans}, t \in SUBSET tags,
             p \in {None} \cup {p \in Monitors : ResolveParent(m, p)} :
          Begin(r, [kind |-> "create", id |-> m, old |-> FALSE, stage |-> "row",
                    row |-> [Fresh EXCEPT !.enabled = b, !.group = g, !.parent = p,
                             !.status = IF b THEN "pending" ELSE "paused"],
                    body |-> [channels |-> c, tags |-> t], was |-> b])
    BY DEF CreateReads
  <1> DEFINE row == [Fresh EXCEPT !.enabled = b, !.group = g, !.parent = p,
                     !.status = IF b THEN "pending" ELSE "paused"]
             body == [channels |-> c, tags |-> t]
             q == [kind |-> "create", id |-> m, old |-> FALSE, stage |-> "row",
                   row |-> row, body |-> body, was |-> b]
  <1>2. /\ row \in Row /\ row.parent = p /\ row.enabled = b
        /\ row.status = IF b THEN "pending" ELSE "paused"
    BY DEF Fresh, Row, Secrets, ExistingGroups
  <1>3. body \in Body
    BY DEF Body, ConfigInv, TypeOK
  <1> HIDE DEF row, body
  <1>4. Agrees(row)
    BY <1>2 DEF Agrees
  <1>5. q \in Request
    BY <1>2, <1>3 DEF Request
  <1>6. Fits(q)
    BY <1>1, <1>2, <1>4 DEF Fits, RowFits
  <1>7. Begin(r, q)
    BY <1>1 DEF row, body
  <1> HIDE DEF q
  <1> QED
    BY <1>5, <1>6, <1>7, BeginKeeps DEF CreateReads

LEMMA PatchReadsStep ==
    ASSUME MonitorConfigAssumption, ConfigInv, NEW r \in Requests, NEW m \in Monitors,
           PatchReads(r, m)
    PROVE  ConfigInv'
  <1>1. PICK body \in BodiesFor(m) :
          Begin(r, [kind |-> "patch", id |-> m, old |-> FALSE, stage |-> "row",
                    row |-> Sealed(Fold(mon[m], body), "config" \in DOMAIN body),
                    body |-> body, was |-> mon[m].enabled])
    BY DEF PatchReads
  <1> DEFINE row == Sealed(Fold(mon[m], body), "config" \in DOMAIN body)
             q == [kind |-> "patch", id |-> m, old |-> FALSE, stage |-> "row",
                   row |-> row, body |-> body, was |-> mon[m].enabled]
  <1>2. TypeOK /\ m \in Exists /\ mon[m] \in Row
    BY RowsThere DEF PatchReads, ConfigInv
  <1>3. /\ body \in Patch /\ body \in Body
        /\ "parent" \in DOMAIN body => body.parent = None \/ ResolveParent(m, body.parent)
    BY <1>2, BodiesTyped DEF Body
  <1>4. /\ row \in Row
        /\ row.parent = IF "parent" \in DOMAIN body THEN body.parent ELSE mon[m].parent
        /\ row.enabled = IF "enabled" \in DOMAIN body THEN body.enabled ELSE mon[m].enabled
    <2>1. /\ Fold(mon[m], body) \in Row
          /\ Fold(mon[m], body).parent = IF "parent" \in DOMAIN body THEN body.parent ELSE mon[m].parent
          /\ Fold(mon[m], body).enabled = IF "enabled" \in DOMAIN body THEN body.enabled
                                          ELSE mon[m].enabled
      BY <1>2, <1>3, FoldTyped
    <2>2. \A f \in Row : \A c : /\ Sealed(f, c) \in Row /\ Sealed(f, c).parent = f.parent
                            /\ Sealed(f, c).enabled = f.enabled
      BY DEF Sealed, Row, Secrets
    <2> QED
      BY <2>1, <2>2
  <1> HIDE DEF row
  <1>5. q \in Request
    BY <1>2, <1>3, <1>4 DEF Request, Row
  <1>6. SwitchFits(q) /\ CopyHolds(q)
    BY <1>2, <1>3, <1>4 DEF SwitchFits, CopyHolds
  <1>7. Fits(q)
    BY <1>4, <1>6 DEF Fits, RowFits
  <1>8. Begin(r, q)
    BY <1>1 DEF row
  <1> HIDE DEF q
  <1> QED
    BY <1>5, <1>7, <1>8, BeginKeeps DEF PatchReads

LEMMA BulkReadsStep ==
    ASSUME MonitorConfigAssumption, ConfigInv, NEW r \in Requests, NEW m \in Monitors,
           BulkReads(r, m)
    PROVE  ConfigInv'
  <1>1. PICK g \in {None} \cup ExistingGroups :
          Begin(r, [kind |-> "bulk", id |-> m, old |-> FALSE, stage |-> "row",
                    row |-> [mon[m] EXCEPT !.group = g], body |-> [group |-> g],
                    was |-> mon[m].enabled])
    BY DEF BulkReads
  <1> DEFINE row == [mon[m] EXCEPT !.group = g]
             q == [kind |-> "bulk", id |-> m, old |-> FALSE, stage |-> "row",
                   row |-> row, body |-> [group |-> g], was |-> mon[m].enabled]
  <1>2. TypeOK /\ m \in Exists /\ mon[m] \in Row
    BY RowsThere DEF BulkReads, ConfigInv
  <1>3. row \in Row /\ row.parent = mon[m].parent /\ row.enabled = mon[m].enabled
    BY <1>2 DEF Row, ExistingGroups
  <1>4. [group |-> g] \in Body
    BY DEF Body, Patch, ExistingGroups
  <1> HIDE DEF row
  <1>5. q \in Request
    BY <1>2, <1>3, <1>4 DEF Request, Row
  <1>6. Fits(q)
    BY <1>2, <1>3 DEF Fits, RowFits, SwitchFits, CopyHolds
  <1>7. Begin(r, q)
    BY <1>1 DEF row
  <1> HIDE DEF q
  <1> QED
    BY <1>5, <1>6, <1>7, BeginKeeps DEF BulkReads

LEMMA BulkTagsReadsStep ==
    ASSUME MonitorConfigAssumption, ConfigInv, NEW r \in Requests, NEW m \in Monitors,
           BulkTagsReads(r, m)
    PROVE  ConfigInv'
  <1>1. PICK t \in tags, add \in BOOLEAN :
          Begin(r, [kind |-> "retag", id |-> m, old |-> FALSE, stage |-> "retag",
                    row |-> None, body |-> [tags |-> Combine(m, t, add)], was |-> TRUE])
    BY DEF BulkTagsReads
  <1> DEFINE q == [kind |-> "retag", id |-> m, old |-> FALSE, stage |-> "retag",
                   row |-> None, body |-> [tags |-> Combine(m, t, add)], was |-> TRUE]
  <1>2. Combine(m, t, add) \subseteq Tags
    BY DEF Combine, ConfigInv, TypeOK
  <1>3. [tags |-> Combine(m, t, add)] \in Body
    BY <1>2 DEF Body
  <1>4. q \in Request
    BY <1>3 DEF Request
  <1>5. Fits(q)
    BY DEF Fits, RowKinds
  <1>6. Begin(r, q)
    BY <1>1
  <1> HIDE DEF q
  <1> QED
    BY <1>4, <1>5, <1>6, BeginKeeps DEF BulkTagsReads

LEMMA MoveReadsStep ==
    ASSUME MonitorConfigAssumption, ConfigInv, NEW r \in Requests, NEW g \in Groups,
           MoveReads(r, g)
    PROVE  ConfigInv'
  <1>1. PICK p \in {"top"} \cup {p \in Groups : ResolveParentGroup(g, p)} :
          Begin(r, [kind |-> "move", id |-> g, old |-> FALSE, stage |-> "move",
                    row |-> None, body |-> [to |-> p], was |-> TRUE])
    BY DEF MoveReads
  <1> DEFINE q == [kind |-> "move", id |-> g, old |-> FALSE, stage |-> "move",
                   row |-> None, body |-> [to |-> p], was |-> TRUE]
  <1>2. [to |-> p] \in Body
    BY DEF Body
  <1>3. q \in Request
    BY <1>2 DEF Request
  <1>4. Fits(q)
    BY DEF Fits, RowKinds, MoveFits, MoveReads
  <1>5. Begin(r, q)
    BY <1>1
  <1> HIDE DEF q
  <1> QED
    BY <1>3, <1>4, <1>5, BeginKeeps DEF MoveReads

\* A request under way, and the same one at a later stage.
LEMMA RequestHeld ==
    ASSUME MonitorConfigAssumption, ConfigInv, NEW r \in Requests, req[r] # None
    PROVE  /\ req[r] \in Request /\ Fits(req[r])
           /\ req[r].kind \in RowKinds => req[r].id \in Monitors /\ req[r].row \in Row
  BY DEF ConfigInv, TypeOK, AllFit, Fits

LEMMA StageOn ==
    ASSUME NEW q \in Request, Fits(q), q.kind \in RowKinds,
           NEW stage \in {"tags", "channels", "switch"}
    PROVE  LET next == [q EXCEPT !.stage = stage] IN
           /\ next \in Request /\ Fits(next) /\ Fits(next)'
           /\ \A m : Owes(q, m) => Owes(next, m) \/ next = None
           /\ next.kind = q.kind /\ next.id = q.id /\ next.stage = stage
           /\ next.body = q.body /\ next.was = q.was
  <1> DEFINE next == [q EXCEPT !.stage = stage]
  <1>1. next \in Request
    BY DEF Request
  <1>2. /\ next.kind = q.kind /\ next.id = q.id /\ next.stage = stage
        /\ next.row = q.row /\ next.body = q.body /\ next.was = q.was
    BY DEF Request
  <1> HIDE DEF next
  <1>3. Fits(next) /\ Fits(next)'
    BY <1>2 DEF Fits, RowKinds
  <1>4. \A m : Owes(q, m) => Owes(next, m) \/ next = None
    BY <1>2 DEF Owes, NeedsSwitch
  <1> QED
    BY <1>1, <1>2, <1>3, <1>4 DEF next

LEMMA WriteTagsStep ==
    ASSUME MonitorConfigAssumption, ConfigInv, NEW r \in Requests, NEW fails \in BOOLEAN,
           WriteTags(r, fails)
    PROVE  ConfigInv'
  <1>1. PICK q : q = req[r]
    OBVIOUS
  <1>2. /\ q \in Request /\ Fits(q) /\ q.id \in Monitors /\ q.kind \in RowKinds
        /\ TypeOK /\ req[r] # None
    BY <1>1, RequestHeld DEF WriteTags, At, RowKinds, ConfigInv
  <1> DEFINE next == [q EXCEPT !.stage = Next3(q)]
  <1>3. /\ next \in Request /\ Fits(next)
        /\ \A m : Owes(q, m) => Owes(next, m)
    BY <1>2, StageOn DEF MonitorConfigAssumption, Next3
  <1>4. CASE /\ req' = [req EXCEPT ![r].stage = Next3(q)] /\ excused' = excused
             /\ carries' \in [Monitors -> SUBSET Tags]
    <2>1. req' = [req EXCEPT ![r] = next]
      BY <1>1, <1>2, <1>4 DEF TypeOK
    <2> HIDE DEF next
    <2> QED
      BY <1>1, <1>2, <1>3, <1>4, <2>1, ProgressKeeps DEF WriteTags, TypeOK
  <1>5. CASE End(r) /\ Abandons(q) /\ carries' = carries
    <2>1. \A m : Owes(q, m) => m \in excused'
      BY <1>5 DEF Abandons, Owes, NeedsSwitch
    <2>2. excused \subseteq excused' /\ excused' \subseteq Monitors
      BY <1>2, <1>5 DEF Abandons, TypeOK
    <2> QED
      BY <1>1, <1>2, <1>5, <2>1, <2>2, ProgressKeeps DEF End, WriteTags, TypeOK
  <1>6. \A t : t \subseteq tags => [carries EXCEPT ![q.id] = t] \in [Monitors -> SUBSET Tags]
    BY <1>2 DEF TypeOK
  <1> QED
    BY <1>1, <1>2, <1>4, <1>5, <1>6 DEF WriteTags, TypeOK

LEMMA WriteChannelsStep ==
    ASSUME MonitorConfigAssumption, ConfigInv, NEW r \in Requests, NEW fails \in BOOLEAN,
           WriteChannels(r, fails)
    PROVE  ConfigInv'
  <1>1. PICK q : q = req[r]
    OBVIOUS
  <1>2. /\ q \in Request /\ Fits(q) /\ q.id \in Monitors /\ q.kind \in RowKinds
        /\ TypeOK /\ req[r] # None
    BY <1>1, RequestHeld DEF WriteChannels, At, RowKinds, ConfigInv
  <1> DEFINE next == [q EXCEPT !.stage = Next3(q)]
  <1>3. /\ next \in Request /\ Fits(next)
        /\ \A m : Owes(q, m) => Owes(next, m)
    BY <1>2, StageOn DEF MonitorConfigAssumption, Next3
  <1>4. CASE /\ req' = [req EXCEPT ![r].stage = Next3(q)] /\ excused' = excused
             /\ alerts' \in [Monitors -> SUBSET Channels]
    <2>1. req' = [req EXCEPT ![r] = next]
      BY <1>1, <1>2, <1>4 DEF TypeOK
    <2> HIDE DEF next
    <2> QED
      BY <1>1, <1>2, <1>3, <1>4, <2>1, ProgressKeeps DEF WriteChannels, TypeOK
  <1>5. CASE End(r) /\ Abandons(q) /\ alerts' = alerts
    <2>1. \A m : Owes(q, m) => m \in excused'
      BY <1>5 DEF Abandons, Owes, NeedsSwitch
    <2>2. excused \subseteq excused' /\ excused' \subseteq Monitors
      BY <1>2, <1>5 DEF Abandons, TypeOK
    <2> QED
      BY <1>1, <1>2, <1>5, <2>1, <2>2, ProgressKeeps DEF End, WriteChannels, TypeOK
  <1>6. \A c : c \subseteq chans => [alerts EXCEPT ![q.id] = c] \in [Monitors -> SUBSET Channels]
    BY <1>2 DEF TypeOK
  <1> QED
    BY <1>1, <1>2, <1>4, <1>5, <1>6 DEF WriteChannels, TypeOK

LEMMA BulkTagsWritesStep ==
    ASSUME MonitorConfigAssumption, ConfigInv, NEW r \in Requests, BulkTagsWrites(r)
    PROVE  ConfigInv'
  <1>1. TypeOK /\ req' = [req EXCEPT ![r] = None] /\ \A m : ~ Owes(req[r], m)
    BY DEF BulkTagsWrites, At, End, Owes, ConfigInv
  <1>2. carries' \in [Monitors -> SUBSET Tags]
    BY <1>1 DEF BulkTagsWrites, TypeOK
  <1> QED
    BY <1>1, <1>2, ProgressKeeps DEF BulkTagsWrites, TypeOK

\* A commit keeps the invariant where the rows it leaves keep theirs, and each
\* monitor agrees, is owed by the request that goes on, or stands as it did.
LEMMA CommitStep ==
    ASSUME MonitorConfigAssumption, ConfigInv, NEW r, NEW next, Commit(r, next),
           next = None \/ (next \in Request /\ Fits(next)'),
           mon' \in [Monitors -> Row \cup {None}],
           nest' \in [Groups -> Groups \cup {"top", None}],
           tags' \subseteq Tags, chans' \subseteq Channels,
           carries' \in [Monitors -> SUBSET Tags], alerts' \in [Monitors -> SUBSET Channels],
           writes' \in Nat, raced' \in BOOLEAN, excused' \subseteq Monitors,
           RefsHold', ShapeHolds',
           \A m \in Exists' \ excused' :
              \/ Agrees(mon'[m])
              \/ r \in Requests /\ Owes(next, m)
              \/ /\ m \in Exists \ excused /\ (Agrees(mon[m]) => Agrees(mon'[m]))
                 /\ ~ (r \in Requests /\ Owes(req[r], m))
    PROVE  ConfigInv'
  <1>1. TypeOK /\ AllFit /\ PauseOwed
    BY DEF ConfigInv
  <1>2. /\ req' \in [Requests -> Request \cup {None}] /\ AllFit'
        /\ r \in Requests => req'[r] = next
        /\ \A x \in Requests : \A m : x # r /\ Owes(req[x], m) => Owes(req'[x], m)
    BY <1>1, CommitKeeps
  <1>3. TypeOK'
    BY <1>2 DEF TypeOK
  <1>4. PauseOwed'
    <2> SUFFICES ASSUME NEW m \in Exists' \ excused', ~ Agrees(mon'[m])
                 PROVE  \E x \in Requests : Owes(req'[x], m)
      BY DEF PauseOwed, Agrees
    <2>1. CASE r \in Requests /\ Owes(next, m)
      BY <1>2, <2>1
    <2>2. CASE /\ m \in Exists \ excused /\ ~ Agrees(mon[m])
               /\ ~ (r \in Requests /\ Owes(req[r], m))
      <3>1. PICK x \in Requests : Owes(req[x], m)
        BY <1>1, <2>2 DEF PauseOwed
      <3> QED
        BY <1>2, <2>2, <3>1
    <2> QED
      BY <2>1, <2>2
  <1> QED
    BY <1>2, <1>3, <1>4 DEF ConfigInv

\* Nothing more is true of a request that commits and is no more.
LEMMA NothingOwed == ~ \E m : Owes(None, m)
  BY DEF Owes

\* CreateMonitor's row agrees with itself, and its parent is one the resolver
\* passed.
LEMMA CreateWrites ==
    ASSUME MonitorConfigAssumption, ConfigInv, NEW r \in Requests, WriteRow(r),
           req[r].kind = "create", Accepted(req[r])
    PROVE  ConfigInv'
  <1>1. PICK q : q = req[r]
    OBVIOUS
  <1>2. /\ q \in Request /\ Fits(q) /\ q.id \in Monitors /\ q.row \in Row /\ q.kind = "create"
        /\ q.stage = "row" /\ TypeOK /\ RefsHold
    BY <1>1, RequestHeld DEF WriteRow, At, RowKinds, ConfigInv
  <1>3. /\ ~q.old => q.row.parent = None \/ ResolveParent(q.id, q.row.parent)
        /\ Agrees(q.row) /\ q.row # None
    BY <1>2 DEF Fits, RowFits, RowKinds, MonitorConfigAssumption
  <1> DEFINE next == [q EXCEPT !.stage = "channels"]
  <1>4. next \in Request /\ Fits(next)'
    BY <1>2, StageOn DEF RowKinds
  <1>5. /\ mon' = [mon EXCEPT ![q.id] = q.row] /\ excused' = excused \ {q.id}
        /\ raced' = (raced \/ q.old) /\ Commit(r, next)
        /\ UNCHANGED <<nest, tags, chans, carries, alerts, writes>>
    BY <1>1, <1>2 DEF WriteRow, Next3
  <1> HIDE DEF next
  <1>6. /\ \A m \in Monitors : mon'[m] = IF m = q.id THEN q.row ELSE mon[m]
        /\ Exists' = Exists \cup {q.id} /\ ExistingGroups' = ExistingGroups
        /\ mon' \in [Monitors -> Row \cup {None}]
    BY <1>2, <1>3, <1>5 DEF TypeOK, Exists, ExistingGroups
  <1>7. RefsHold'
    BY <1>1, <1>2, <1>3, <1>5, <1>6 DEF RefsHold, Accepted, Exists
  <1>8. ShapeHolds'
    <2>1. CASE q.old
      BY <1>5, <2>1 DEF ShapeHolds
    <2>2. CASE ~ q.old
      <3>1. NoLoop => NoLoop'
        BY <1>2, <1>3, <1>5, <2>2, LoopWrite
      <3> QED
        BY <1>5, <1>6, <3>1 DEF ShapeHolds, NestFlat, ConfigInv
    <2> QED
      BY <2>1, <2>2
  <1>9. \A m \in Exists' \ excused' :
           \/ Agrees(mon'[m])
           \/ /\ m \in Exists \ excused /\ (Agrees(mon[m]) => Agrees(mon'[m]))
              /\ ~ Owes(req[r], m)
    BY <1>1, <1>2, <1>3, <1>5, <1>6 DEF Exists, Owes
  <1>10. raced' \in BOOLEAN /\ excused' \subseteq Monitors
    BY <1>2, <1>5 DEF TypeOK, Request
  <1> QED
    BY <1>2, <1>4, <1>5, <1>6, <1>7, <1>8, <1>9, <1>10, CommitStep DEF TypeOK

\* UpdateMonitor's row: where the copy is stale, the shape is no longer promised,
\* and a switch that moved meanwhile is excused by name.
LEMMA UpdateWrites ==
    ASSUME MonitorConfigAssumption, ConfigInv, NEW r \in Requests, WriteRow(r),
           req[r].kind # "create", Accepted(req[r])
    PROVE  ConfigInv'
  <1>1. PICK q : q = req[r]
    OBVIOUS
  <1>2. /\ q \in Request /\ Fits(q) /\ q.id \in Monitors /\ q.row \in Row
        /\ q.kind \in {"patch", "bulk"} /\ q.stage = "row" /\ TypeOK /\ RefsHold
        /\ q.id \in Exists /\ mon[q.id] \in Row
    BY <1>1, RequestHeld, RowsThere DEF WriteRow, At, RowKinds, ConfigInv, Accepted
  <1>3. SwitchFits(q) /\ (~ q.old => CopyHolds(q))
    BY <1>2 DEF Fits, RowFits, RowKinds
  <1> DEFINE next == IF q.kind = "bulk" THEN None ELSE [q EXCEPT !.stage = "tags"]
             row == [q.row EXCEPT !.status = mon[q.id].status]
  <1>4. next = None \/ (next \in Request /\ Fits(next)')
    BY <1>2, StageOn DEF RowKinds
  <1>5. /\ mon' = [mon EXCEPT ![q.id] = row]
        /\ excused' = IF q.old /\ mon[q.id].enabled # q.was THEN excused \cup {q.id} ELSE excused
        /\ raced' = (raced \/ q.old) /\ Commit(r, next)
        /\ UNCHANGED <<nest, tags, chans, carries, alerts, writes>>
    BY <1>1, <1>2 DEF WriteRow, Next3
  <1>6. /\ row \in Row /\ row.parent = q.row.parent /\ row.group = q.row.group
        /\ row.enabled = q.row.enabled /\ row.status = mon[q.id].status
    BY <1>2 DEF Row
  <1>7. NeedsSwitch(q) => \A m : m = q.id => Owes(next, m)
    <2> SUFFICES ASSUME NeedsSwitch(q) PROVE Owes(next, q.id)
      OBVIOUS
    <2>1. next = [q EXCEPT !.stage = "tags"] /\ q.kind = "patch"
      BY DEF NeedsSwitch
    <2>2. /\ next \in Request /\ next.kind = q.kind /\ next.id = q.id /\ next.stage = "tags"
          /\ next.body = q.body /\ next.was = q.was
      BY <1>2, <2>1, StageOn DEF RowKinds
    <2> HIDE DEF next
    <2> QED
      BY <2>2 DEF Owes, NeedsSwitch, MonitorConfigAssumption
  <1> HIDE DEF next, row
  <1>8. /\ \A m \in Monitors : mon'[m] = IF m = q.id THEN row ELSE mon[m]
        /\ Exists' = Exists /\ ExistingGroups' = ExistingGroups
        /\ mon' \in [Monitors -> Row \cup {None}]
    BY <1>2, <1>5, <1>6 DEF TypeOK, Exists, ExistingGroups, MonitorConfigAssumption
  <1>9. RefsHold'
    BY <1>1, <1>2, <1>5, <1>6, <1>8 DEF RefsHold, Accepted, Exists
  <1>10. ShapeHolds'
    <2>1. CASE q.old
      BY <1>5, <2>1 DEF ShapeHolds
    <2>2. CASE ~ q.old
      <3>1. NoLoop => NoLoop'
        BY <1>2, <1>3, <1>5, <1>6, <2>2, LoopWrite DEF CopyHolds
      <3> QED
        BY <1>5, <1>8, <3>1 DEF ShapeHolds, NestFlat, ConfigInv
    <2> QED
      BY <2>1, <2>2
  <1>11. ASSUME NEW m \in Exists' \ excused'
         PROVE  \/ Agrees(mon'[m]) \/ Owes(next, m)
                \/ /\ m \in Exists \ excused /\ (Agrees(mon[m]) => Agrees(mon'[m]))
                   /\ ~ Owes(req[r], m)
    <2>1. ~ Owes(req[r], m) /\ m \in Exists \ excused /\ m \in Monitors
      BY <1>1, <1>2, <1>5, <1>8 DEF Owes, Exists
    <2>2. CASE m # q.id
      BY <1>8, <2>1, <2>2
    <2>3. CASE m = q.id
      <3>1. mon[m].enabled = q.was
        BY <1>3, <1>5, <2>3 DEF CopyHolds
      <3>2. CASE row.enabled = q.was
        BY <1>6, <1>8, <2>1, <2>3, <3>1, <3>2 DEF Agrees
      <3>3. CASE row.enabled # q.was
        <4>1. NeedsSwitch(q)
          BY <1>3, <1>6, <3>3 DEF SwitchFits, NeedsSwitch
        <4> QED
          BY <1>7, <2>3, <4>1
      <3> QED
        BY <3>2, <3>3
    <2> QED
      BY <2>2, <2>3
  <1>12. raced' \in BOOLEAN /\ excused' \subseteq Monitors
    BY <1>2, <1>5 DEF TypeOK, Request
  <1> QED
    BY <1>2, <1>4, <1>5, <1>8, <1>9, <1>10, <1>11, <1>12, CommitStep DEF TypeOK

LEMMA WriteRowStep ==
    ASSUME MonitorConfigAssumption, ConfigInv, NEW r \in Requests, WriteRow(r)
    PROVE  ConfigInv'
  <1>1. CASE ~ Accepted(req[r])
    <2>1. TypeOK /\ req' = [req EXCEPT ![r] = None] /\ \A m : ~ Owes(req[r], m)
      BY <1>1 DEF WriteRow, At, End, Owes, ConfigInv
    <2> QED
      BY <1>1, <2>1, ProgressKeeps DEF WriteRow, TypeOK
  <1> QED
    BY <1>1, CreateWrites, UpdateWrites

\* Switched leaves every row its place, and the one it switches in agreement.
LEMMA SwitchedKeeps ==
    ASSUME MonitorConfigAssumption, TypeOK, RefsHold, ShapeHolds, NEW k \in Exists,
           NEW b \in BOOLEAN, mon' = Switched(k, b), UNCHANGED <<nest, raced>>
    PROVE  /\ mon' \in [Monitors -> Row \cup {None}] /\ RefsHold' /\ ShapeHolds'
           /\ Exists' = Exists /\ Agrees(mon'[k])
           /\ \A m \in Exists : m # k => mon'[m] = mon[m]
  <1> DEFINE row == [mon[k] EXCEPT !.enabled = b, !.status = IF b THEN "pending" ELSE "paused"]
  <1>1. k \in Monitors /\ mon[k] \in Row
    BY RowsThere
  <1>2. /\ row \in Row /\ row.parent = mon[k].parent /\ row.group = mon[k].group
        /\ row.enabled = b /\ row.status = IF b THEN "pending" ELSE "paused"
    BY <1>1 DEF Row
  <1>3. mon' = [mon EXCEPT ![k] = row]
    BY <1>1 DEF Switched, TypeOK
  <1> HIDE DEF row
  <1>4. /\ \A m \in Monitors : mon'[m] = IF m = k THEN row ELSE mon[m]
        /\ mon' \in [Monitors -> Row \cup {None}]
    BY <1>1, <1>2, <1>3 DEF TypeOK
  <1>5. Exists' = Exists /\ ExistingGroups' = ExistingGroups
    BY <1>1, <1>2, <1>4 DEF Exists, ExistingGroups, MonitorConfigAssumption
  <1>6. \A m \in Exists : mon'[m].parent = mon[m].parent /\ mon'[m].group = mon[m].group
    BY <1>1, <1>2, <1>4 DEF Exists
  <1>7. RefsHold'
    BY <1>5, <1>6 DEF RefsHold
  <1>8. ShapeHolds'
    BY <1>5, <1>6, LoopFrame DEF ShapeHolds, NestFlat
  <1> QED
    BY <1>1, <1>2, <1>4, <1>5, <1>7, <1>8 DEF Agrees, Exists

LEMMA SwitchStep ==
    ASSUME MonitorConfigAssumption, ConfigInv, NEW r \in Requests, NEW fails \in BOOLEAN,
           Switch(r, fails)
    PROVE  ConfigInv'
  <1>1. PICK q : q = req[r]
    OBVIOUS
  <1>2. /\ q \in Request /\ q.id \in Monitors /\ q.row \in Row
        /\ TypeOK /\ RefsHold /\ ShapeHolds
    BY <1>1, RequestHeld DEF Switch, At, RowKinds, ConfigInv
  <1>3. CASE NeedsSwitch(q) /\ q.id \in Exists /\ ~fails
    <2>1. /\ mon' = Switched(q.id, q.row.enabled) /\ excused' = excused \ {q.id}
          /\ Commit(r, None) /\ UNCHANGED <<nest, tags, chans, carries, alerts, writes, raced>>
      BY <1>1, <1>3 DEF Switch
    <2>2. q.row.enabled \in BOOLEAN
      BY <1>2 DEF Row
    <2>3. /\ mon' \in [Monitors -> Row \cup {None}] /\ RefsHold' /\ ShapeHolds'
          /\ Exists' = Exists /\ Agrees(mon'[q.id])
          /\ \A m \in Exists : m # q.id => mon'[m] = mon[m]
      BY <1>2, <1>3, <2>1, <2>2, SwitchedKeeps
    <2>4. \A m \in Exists' \ excused' :
             \/ Agrees(mon'[m])
             \/ /\ m \in Exists \ excused /\ (Agrees(mon[m]) => Agrees(mon'[m]))
                /\ ~ Owes(req[r], m)
      BY <1>1, <2>1, <2>3 DEF Owes
    <2>5. excused' \subseteq Monitors
      BY <1>2, <2>1 DEF TypeOK
    <2> QED
      BY <1>2, <2>1, <2>3, <2>4, <2>5, CommitStep DEF TypeOK
  <1>4. CASE fails
    <2>1. End(r) /\ Abandons(q) /\ UNCHANGED <<mon, nest, tags, chans, carries, alerts, writes, raced>>
      BY <1>1, <1>4 DEF Switch
    <2>2. \A m : Owes(q, m) => m \in excused'
      BY <2>1 DEF Abandons, Owes, NeedsSwitch
    <2>3. excused \subseteq excused' /\ excused' \subseteq Monitors
      BY <1>2, <2>1 DEF Abandons, TypeOK
    <2> QED
      BY <1>1, <1>2, <2>1, <2>2, <2>3, ProgressKeeps DEF End, TypeOK
  <1>5. CASE ~ (NeedsSwitch(q) /\ q.id \in Exists) /\ ~fails
    <2>1. \A m : Owes(q, m) => m \notin Exists
      BY <1>5 DEF Owes
    <2> QED
      BY <1>1, <1>2, <1>5, <2>1, ProgressKeeps DEF Switch, End, TypeOK
  <1> QED
    BY <1>3, <1>4, <1>5

LEMMA SetEnabledStep ==
    ASSUME MonitorConfigAssumption, ConfigInv, NEW m \in Monitors, NEW b \in BOOLEAN,
           SetEnabled(m, b)
    PROVE  ConfigInv'
  <1>1. /\ m \in Exists /\ mon' = Switched(m, b) /\ excused' = excused \ {m}
        /\ Commit(None, None) /\ writes' = writes + 1
        /\ UNCHANGED <<nest, tags, chans, carries, alerts, raced>>
        /\ TypeOK /\ RefsHold /\ ShapeHolds /\ None \notin Requests
    BY DEF SetEnabled, Once, ConfigInv, MonitorConfigAssumption
  <1>2. /\ mon' \in [Monitors -> Row \cup {None}] /\ RefsHold' /\ ShapeHolds'
        /\ Exists' = Exists /\ Agrees(mon'[m])
        /\ \A k \in Exists : k # m => mon'[k] = mon[k]
    BY <1>1, SwitchedKeeps
  <1>3. \A k \in Exists' \ excused' :
           Agrees(mon'[k]) \/ (k \in Exists \ excused /\ (Agrees(mon[k]) => Agrees(mon'[k])))
    BY <1>1, <1>2
  <1>4. excused' \subseteq Monitors /\ writes' \in Nat
    BY <1>1 DEF TypeOK
  <1> QED
    BY <1>1, <1>2, <1>3, <1>4, CommitStep DEF TypeOK

LEMMA DeleteMonitorStep ==
    ASSUME MonitorConfigAssumption, ConfigInv, NEW m \in Monitors, DeleteMonitor(m)
    PROVE  ConfigInv'
  <1>1. /\ m \in Exists /\ mon' = [mon EXCEPT ![m] = None] /\ excused' = excused \ {m}
        /\ \A c \in Exists : mon[c].parent # m
        /\ Commit(None, None) /\ writes' = writes + 1
        /\ UNCHANGED <<nest, tags, chans, raced>>
        /\ TypeOK /\ RefsHold /\ ShapeHolds /\ None \notin Requests
    BY DEF DeleteMonitor, Once, ConfigInv, MonitorConfigAssumption
  <1>2. /\ mon' \in [Monitors -> Row \cup {None}]
        /\ Exists' = Exists \ {m} /\ ExistingGroups' = ExistingGroups
        /\ \A k \in Exists' : mon'[k] = mon[k]
    BY <1>1 DEF TypeOK, Exists, ExistingGroups
  <1>3. RefsHold'
    BY <1>1, <1>2 DEF RefsHold
  <1>4. ShapeHolds'
    BY <1>1, <1>2, LoopFrame DEF ShapeHolds, NestFlat
  <1>5. /\ excused' \subseteq Monitors /\ writes' \in Nat
        /\ carries' \in [Monitors -> SUBSET Tags] /\ alerts' \in [Monitors -> SUBSET Channels]
    BY <1>1 DEF TypeOK, DeleteMonitor
  <1>6. \A k \in Exists' \ excused' : k \in Exists \ excused /\ mon'[k] = mon[k]
    BY <1>1, <1>2
  <1> QED
    BY <1>1, <1>2, <1>3, <1>4, <1>5, <1>6, CommitStep DEF TypeOK

LEMMA ReportStep ==
    ASSUME MonitorConfigAssumption, ConfigInv, NEW m \in Monitors, Report(m)
    PROVE  ConfigInv'
  <1> DEFINE row == [mon[m] EXCEPT !.status = "up"]
  <1>1. /\ m \in Exists /\ mon[m] \in Row /\ TypeOK /\ RefsHold /\ ShapeHolds /\ PauseOwed /\ AllFit
        /\ excused' = IF mon[m].enabled THEN excused ELSE excused \cup {m}
        /\ UNCHANGED <<nest, tags, chans, carries, alerts, req, writes, raced>>
    BY RowsThere DEF Report, ConfigInv
  <1>2. /\ row \in Row /\ row.parent = mon[m].parent /\ row.group = mon[m].group
        /\ row.enabled = mon[m].enabled /\ row.status = "up"
    BY <1>1 DEF Row
  <1>3. mon' = [mon EXCEPT ![m] = row]
    BY <1>1 DEF Report, TypeOK
  <1> HIDE DEF row
  <1>4. /\ \A k \in Monitors : mon'[k] = IF k = m THEN row ELSE mon[k]
        /\ mon' \in [Monitors -> Row \cup {None}]
    BY <1>1, <1>2, <1>3 DEF TypeOK
  <1>5. Exists' = Exists /\ ExistingGroups' = ExistingGroups
    BY <1>1, <1>2, <1>4 DEF Exists, ExistingGroups, MonitorConfigAssumption
  <1>6. \A k \in Exists : /\ mon'[k].parent = mon[k].parent /\ mon'[k].group = mon[k].group
                          /\ mon'[k].enabled = mon[k].enabled
    BY <1>1, <1>2, <1>4 DEF Exists
  <1>7. TypeOK'
    BY <1>1, <1>4 DEF TypeOK, Exists
  <1>8. AllFit'
    <2>1. \A x : Fits(x) => Fits(x)'
      BY <1>1, <1>5, <1>6, FitsStays
    <2> QED
      BY <1>1, <2>1 DEF AllFit
  <1>9. RefsHold' /\ ShapeHolds'
    BY <1>1, <1>5, <1>6, LoopFrame DEF RefsHold, ShapeHolds, NestFlat
  <1>10. PauseOwed'
    <2> SUFFICES ASSUME NEW k \in Exists \ excused'
                 PROVE  Agrees(mon'[k]) \/ \E r \in Requests : Owes(req[r], k)
      BY <1>1, <1>5 DEF PauseOwed, Agrees
    <2>1. CASE k = m
      BY <1>1, <1>2, <1>4, <2>1 DEF Agrees, Exists, Row
    <2>2. CASE k # m
      BY <1>1, <1>4, <2>2 DEF PauseOwed, Exists
    <2> QED
      BY <2>1, <2>2
  <1> QED
    BY <1>7, <1>8, <1>9, <1>10 DEF ConfigInv

LEMMA MoveWritesStep ==
    ASSUME MonitorConfigAssumption, ConfigInv, NEW r \in Requests, MoveWrites(r)
    PROVE  ConfigInv'
  <1>1. PICK q : q = req[r]
    OBVIOUS
  <1>2. /\ q \in Request /\ TypeOK /\ RefsHold /\ ShapeHolds /\ MoveFits(q)
        /\ \A m : ~ Owes(req[r], m)
    BY <1>1, RequestHeld DEF MoveWrites, At, Fits, Owes, ConfigInv
  <1>3. CASE q.id \in ExistingGroups /\ (q.body.to = "top" \/ q.body.to \in ExistingGroups)
    <2>1. /\ nest' = [nest EXCEPT ![q.id] = q.body.to] /\ raced' = (raced \/ q.old)
          /\ Commit(r, None)
          /\ UNCHANGED <<mon, tags, chans, carries, alerts, writes, excused>>
          /\ q.id \in Groups /\ q.old \in BOOLEAN
      BY <1>1, <1>2, <1>3 DEF MoveWrites, MoveFits, Request
    <2>2. /\ \A g \in Groups : nest'[g] = IF g = q.id THEN q.body.to ELSE nest[g]
          /\ nest' \in [Groups -> Groups \cup {"top", None}]
          /\ ExistingGroups' = ExistingGroups /\ Exists' = Exists
      BY <1>2, <1>3, <2>1 DEF TypeOK, ExistingGroups, Exists, MonitorConfigAssumption
    <2>3. RefsHold'
      BY <1>2, <1>3, <2>1, <2>2 DEF RefsHold, ExistingGroups
    <2>4. ShapeHolds'
      <3>1. NoLoop => NoLoop'
        BY <2>1, <2>2 DEF NoLoop
      <3>2. ~ q.old /\ NestFlat => NestFlat'
        BY <1>2, <1>3, <2>2 DEF NestFlat, MoveFits, ResolveParentGroup, ExistingGroups, RefsHold
      <3> QED
        BY <1>2, <2>1, <3>1, <3>2 DEF ShapeHolds
    <2>5. \A m \in Exists' \ excused' : m \in Exists \ excused /\ mon'[m] = mon[m]
      BY <2>1, <2>2
    <2>6. raced' \in BOOLEAN
      BY <2>1
    <2> QED
      BY <1>2, <2>1, <2>2, <2>3, <2>4, <2>5, <2>6, CommitStep DEF TypeOK
  <1>4. CASE ~ (q.id \in ExistingGroups /\ (q.body.to = "top" \/ q.body.to \in ExistingGroups))
    BY <1>1, <1>2, <1>4, ProgressKeeps DEF MoveWrites, End, TypeOK
  <1> QED
    BY <1>3, <1>4

LEMMA CreateGroupStep ==
    ASSUME MonitorConfigAssumption, ConfigInv, NEW g \in Groups, CreateGroup(g)
    PROVE  ConfigInv'
  <1>1. PICK p \in {"top"} \cup {p \in ExistingGroups : nest[p] = "top"} :
          nest' = [nest EXCEPT ![g] = p]
    BY DEF CreateGroup
  <1>2. /\ g \notin ExistingGroups /\ Commit(None, None) /\ writes' = writes + 1
        /\ UNCHANGED <<mon, tags, chans, carries, alerts, raced, excused>>
        /\ TypeOK /\ RefsHold /\ ShapeHolds /\ None \notin Requests
    BY DEF CreateGroup, Once, ExistingGroups, ConfigInv, MonitorConfigAssumption
  <1>3. /\ \A c \in Groups : nest'[c] = IF c = g THEN p ELSE nest[c]
        /\ nest' \in [Groups -> Groups \cup {"top", None}]
        /\ ExistingGroups' = ExistingGroups \cup {g} /\ Exists' = Exists
    BY <1>1, <1>2 DEF TypeOK, ExistingGroups, Exists, MonitorConfigAssumption
  <1>4. RefsHold'
    BY <1>2, <1>3 DEF RefsHold, ExistingGroups
  <1>5. ShapeHolds'
    <2>1. NoLoop => NoLoop'
      BY <1>2, <1>3 DEF NoLoop
    <2>2. NestFlat => NestFlat'
      BY <1>2, <1>3 DEF NestFlat, RefsHold, ExistingGroups
    <2> QED
      BY <1>2, <2>1, <2>2 DEF ShapeHolds
  <1>6. \A m \in Exists' \ excused' : m \in Exists \ excused /\ mon'[m] = mon[m]
    BY <1>2, <1>3
  <1>7. writes' \in Nat
    BY <1>2 DEF TypeOK
  <1> QED
    BY <1>2, <1>3, <1>4, <1>5, <1>6, <1>7, CommitStep DEF TypeOK

LEMMA DeleteGroupStep ==
    ASSUME MonitorConfigAssumption, ConfigInv, NEW g \in Groups, DeleteGroup(g)
    PROVE  ConfigInv'
  <1>1. /\ g \in ExistingGroups /\ Commit(None, None) /\ writes' = writes + 1
        /\ nest' = [c \in Groups |-> IF c = g THEN None
                                     ELSE IF nest[c] = g THEN "top" ELSE nest[c]]
        /\ mon' = [m \in Monitors |-> IF mon[m] # None /\ mon[m].group = g
                                      THEN [mon[m] EXCEPT !.group = None] ELSE mon[m]]
        /\ UNCHANGED <<tags, chans, carries, alerts, raced, excused>>
        /\ TypeOK /\ RefsHold /\ ShapeHolds /\ None \notin Requests
    BY DEF DeleteGroup, Once, ConfigInv, MonitorConfigAssumption
  <1>2. /\ nest' \in [Groups -> Groups \cup {"top", None}]
        /\ ExistingGroups' = ExistingGroups \ {g}
    BY <1>1 DEF TypeOK, ExistingGroups, MonitorConfigAssumption
  <1>3. ASSUME NEW row \in Row, NEW q, q = [row EXCEPT !.group = None]
        PROVE  /\ q \in Row /\ q # None /\ q.group = None /\ q.parent = row.parent
               /\ q.enabled = row.enabled /\ q.status = row.status
    BY <1>3 DEF Row, MonitorConfigAssumption
  <1>4. \A m \in Exists : /\ mon'[m] \in Row /\ mon'[m] # None
                          /\ mon'[m].group = IF mon[m].group = g THEN None ELSE mon[m].group
                          /\ mon'[m].parent = mon[m].parent
                          /\ mon'[m].enabled = mon[m].enabled /\ mon'[m].status = mon[m].status
    BY <1>1, <1>3, RowsThere DEF Exists
  <1>5. mon' \in [Monitors -> Row \cup {None}] /\ Exists' = Exists
    BY <1>1, <1>4 DEF TypeOK, Exists
  <1>6. RefsHold'
    <2>1. \A m \in Exists : /\ mon'[m].parent # None => mon'[m].parent \in Exists
                            /\ mon'[m].group # None => mon'[m].group \in ExistingGroups'
      <3>1. \A m \in Exists : /\ mon[m].parent # None => mon[m].parent \in Exists
                              /\ mon[m].group # None => mon[m].group \in ExistingGroups
        BY <1>1 DEF RefsHold
      <3> QED
        BY <1>2, <1>4, <3>1
    <2>2. \A c \in ExistingGroups' : nest'[c] # "top" => nest'[c] \in ExistingGroups'
      BY <1>1, <1>2 DEF RefsHold, ExistingGroups
    <2> QED
      BY <1>5, <2>1, <2>2 DEF RefsHold
  <1>7. ShapeHolds'
    <2>1. NoLoop => NoLoop'
      BY <1>4, <1>5, LoopFrame
    <2>2. NestFlat => NestFlat'
      BY <1>1, <1>2 DEF NestFlat, RefsHold, ExistingGroups
    <2> QED
      BY <1>1, <2>1, <2>2 DEF ShapeHolds
  <1>8. \A m \in Exists' \ excused' :
           m \in Exists \ excused /\ (Agrees(mon[m]) => Agrees(mon'[m]))
    BY <1>1, <1>4, <1>5 DEF Agrees
  <1>9. writes' \in Nat
    BY <1>1 DEF TypeOK
  <1> QED
    BY <1>1, <1>2, <1>5, <1>6, <1>7, <1>8, <1>9, CommitStep DEF TypeOK

\* DeleteTag and DeleteChannel touch no row the invariant is about.
LEMMA DeleteLabelStep ==
    ASSUME MonitorConfigAssumption, ConfigInv,
           \/ \E t \in Tags : DeleteTag(t)
           \/ \E c \in Channels : DeleteChannel(c)
    PROVE  ConfigInv'
  <1>1. /\ Commit(None, None) /\ writes' = writes + 1
        /\ UNCHANGED <<mon, nest, raced, excused>>
        /\ TypeOK /\ RefsHold /\ ShapeHolds /\ None \notin Requests
    BY DEF DeleteTag, DeleteChannel, Once, ConfigInv, MonitorConfigAssumption
  <1>2. /\ tags' \subseteq Tags /\ chans' \subseteq Channels /\ writes' \in Nat
        /\ carries' \in [Monitors -> SUBSET Tags] /\ alerts' \in [Monitors -> SUBSET Channels]
    BY <1>1 DEF TypeOK, DeleteTag, DeleteChannel
  <1>3. Exists' = Exists /\ ExistingGroups' = ExistingGroups
    BY <1>1 DEF Exists, ExistingGroups
  <1>4. RefsHold' /\ ShapeHolds'
    BY <1>1, <1>3 DEF RefsHold, ShapeHolds, NoLoop, NestFlat
  <1>5. \A m \in Exists' \ excused' : m \in Exists \ excused /\ mon'[m] = mon[m]
    BY <1>1, <1>3
  <1> QED
    BY <1>1, <1>2, <1>4, <1>5, CommitStep DEF TypeOK

-----------------------------------------------------------------------------
(* The theorems *)

LEMMA InitConfig ==
    ASSUME MonitorConfigAssumption, Init
    PROVE  ConfigInv
  <1>1. /\ \A m \in Monitors : mon[m] = Fresh
        /\ mon \in [Monitors -> Row \cup {None}]
        /\ Fresh.parent = None /\ Fresh.group = None /\ Agrees(Fresh)
    BY DEF Init, Fresh, Row, Secrets, Agrees
  <1>2. TypeOK
    BY <1>1 DEF Init, TypeOK
  <1>3. AllFit
    BY DEF Init, AllFit
  <1>4. RefsHold /\ NestFlat
    BY <1>1 DEF Init, RefsHold, NestFlat, Exists, ExistingGroups
  <1>5. NoLoop
    BY <1>1 DEF NoLoop, Exists, MonitorConfigAssumption
  <1>6. PauseOwed
    BY <1>1 DEF PauseOwed, Exists
  <1> QED
    BY <1>2, <1>3, <1>4, <1>5, <1>6 DEF ConfigInv, ShapeHolds

LEMMA StutterConfig ==
    ASSUME ConfigInv, UNCHANGED vars
    PROVE  ConfigInv'
  <1>1. Exists' = Exists /\ ExistingGroups' = ExistingGroups
    BY DEF vars, Exists, ExistingGroups
  <1>2. TypeOK' /\ RefsHold' /\ ShapeHolds' /\ PauseOwed'
    BY <1>1 DEF vars, ConfigInv, TypeOK, RefsHold, ShapeHolds, NoLoop, NestFlat, PauseOwed, Agrees
  <1>3. \A m, p : ResolveParent(m, p)' = ResolveParent(m, p)
    BY <1>1 DEF vars, ResolveParent, Up
  <1>4. AllFit'
    BY <1>1, <1>3 DEF vars, ConfigInv, AllFit, Fits, RowFits, SwitchFits, CopyHolds, MoveFits,
                      ResolveParentGroup
  <1> QED
    BY <1>2, <1>4 DEF ConfigInv

\* Whatever edits cross, and wherever a request stops, the state of the monitor
\* and group endpoints keeps the inductive invariant: what a request has in hand
\* is as fresh as it is marked, nothing points at a row that is gone, no
\* dependency loops until a stale copy is written, and a row that is enabled and
\* reads as paused, or the reverse, has a request that will mend it.
THEOREM ConfigurationSound ==
    ASSUME MonitorConfigAssumption
    PROVE  Spec => []ConfigInv
  <1>1. Init => ConfigInv
    BY InitConfig
  <1>2. ConfigInv /\ [Next]_vars => ConfigInv'
    <2> SUFFICES ASSUME ConfigInv, [Next]_vars PROVE ConfigInv'
      OBVIOUS
    <2>1. ASSUME NEW r \in Requests, RequestStep(r) PROVE ConfigInv'
      <3>1. ASSUME NEW m \in Monitors,
                   CreateReads(r, m) \/ PatchReads(r, m) \/ BulkReads(r, m) \/ BulkTagsReads(r, m)
            PROVE  ConfigInv'
        BY <3>1, CreateReadsStep, PatchReadsStep, BulkReadsStep, BulkTagsReadsStep
      <3>2. ASSUME NEW g \in Groups, MoveReads(r, g) PROVE ConfigInv'
        BY <3>2, MoveReadsStep
      <3>3. ASSUME NEW fails \in BOOLEAN, WriteTags(r, fails) \/ WriteChannels(r, fails) \/ Switch(r, fails)
            PROVE  ConfigInv'
        BY <3>3, WriteTagsStep, WriteChannelsStep, SwitchStep
      <3>4. CASE WriteRow(r) \/ BulkTagsWrites(r) \/ MoveWrites(r)
        BY <3>4, WriteRowStep, BulkTagsWritesStep, MoveWritesStep
      <3> QED
        BY <2>1, <3>1, <3>2, <3>3, <3>4 DEF RequestStep
    <2>2. ASSUME NEW m \in Monitors, (\E b \in BOOLEAN : SetEnabled(m, b)) \/ DeleteMonitor(m) \/ Report(m)
          PROVE  ConfigInv'
      BY <2>2, SetEnabledStep, DeleteMonitorStep, ReportStep
    <2>3. ASSUME NEW g \in Groups, CreateGroup(g) \/ DeleteGroup(g) PROVE ConfigInv'
      BY <2>3, CreateGroupStep, DeleteGroupStep
    <2>4. CASE (\E t \in Tags : DeleteTag(t)) \/ (\E c \in Channels : DeleteChannel(c))
      BY <2>4, DeleteLabelStep
    <2>5. CASE UNCHANGED vars
      BY <2>5, StutterConfig
    <2> QED
      BY <2>1, <2>2, <2>3, <2>4, <2>5 DEF Next
  <1> QED
    BY <1>1, <1>2, PTL DEF Spec

\* Whichever edits crossed, dependencies never loop and groups nest one level
\* until a copy older than another write is written back, and no monitor or
\* group ever points at a row that is gone: for any depth of the chains.
THEOREM TreesAlwaysHold ==
    ASSUME MonitorConfigAssumption
    PROVE  Spec => []TreesHold
  <1>1. ConfigInv => TreesHold
    BY DEF ConfigInv, ShapeHolds, NestFlat, RefsHold, TreesHold
  <1> QED
    BY <1>1, ConfigurationSound, PTL

\* A monitor that no edit is under way on reads as paused exactly when it is
\* disabled, but for the three races that are excused by name.
THEOREM PauseAlwaysTrue ==
    ASSUME MonitorConfigAssumption
    PROVE  Spec => []PauseIsTrue
  <1>1. ConfigInv => PauseIsTrue
    BY DEF ConfigInv, PauseOwed, Owes, Agrees, PauseIsTrue
  <1> QED
    BY <1>1, ConfigurationSound, PTL
=============================================================================

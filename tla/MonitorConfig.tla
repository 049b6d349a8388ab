--------------------------- MODULE MonitorConfig ---------------------------
(***************************************************************************)
(* The rows a user edits: monitors with their tags and channels, and the   *)
(* groups they stand in (api/monitors.go, api/monitor_writes.go,           *)
(* api/taxonomy.go and their stores).                                      *)
(*                                                                         *)
(* A PATCH reads the row, folds the body into the copy, validates the      *)
(* whole, and writes every column of the copy; its tags, its channels and  *)
(* the state row follow in transactions of their own.  The checks on       *)
(* parents read the store before that write, outside its transaction.      *)
(* Names, targets and retries are left out: a column nothing is checked    *)
(* against another by.  Maintenance has its own module.                    *)
(***************************************************************************)
EXTENDS Naturals, FiniteSets

CONSTANTS
    Monitors, Groups, Tags, Channels, Requests,
    MaxDepth,       \* maxDependencyDepth
    MaxWrites,      \* bound: requests that write
    None

Marker == "redacted"
Secrets == {None, "set", Marker}

VARIABLES
    mon,        \* monitors with their state's status; None when there is none
    nest,       \* groups: the parent of each, "top", or None when there is no group
    tags,       \* the tags that exist
    chans,      \* the channels that exist
    carries,    \* monitor_tags
    alerts,     \* monitor_channels
    req,        \* a request between two of its transactions
    writes,
    raced,      \* ghost: a move was written after something else had been
    excused     \* ghost: monitors one of the known races left half paused

vars == <<mon, nest, tags, chans, carries, alerts, req, writes, raced, excused>>

Row == [enabled : BOOLEAN, timeout : {1, 2}, interval : {2, 3},
        group : Groups \cup {None}, parent : Monitors \cup {None},
        secret : Secrets, status : {"pending", "paused", "up"}]

\* What a PATCH may hold, and the body of any request.
Patch == [enabled : BOOLEAN] \cup [timeout : {1, 2}] \cup [interval : {2, 3}]
         \cup [group : Groups \cup {None}] \cup [parent : Monitors \cup {None}]
         \cup [config : Secrets] \cup [enabled : BOOLEAN, tags : SUBSET Tags]
         \cup [channels : SUBSET Channels]
Body  == Patch \cup [channels : SUBSET Channels, tags : SUBSET Tags]
         \cup [tags : SUBSET Tags] \cup [to : Groups \cup {"top"}]

\* A request between two transactions: the row it will write, and whether the
\* row it read was enabled.
Request ==
    [kind : {"create", "patch", "bulk", "retag", "move"}, id : Monitors \cup Groups,
     old : BOOLEAN, stage : {"row", "tags", "channels", "switch", "retag", "move"},
     row : Row \cup {None}, body : Body, was : BOOLEAN]

MonitorConfigAssumption ==
    /\ None \notin Monitors \cup Groups \cup Requests \cup Row \cup Request \cup {"top"}
    /\ "top" \notin Groups
    /\ MaxDepth \in Nat /\ MaxWrites \in Nat

TypeOK ==
    /\ mon \in [Monitors -> Row \cup {None}]
    /\ nest \in [Groups -> Groups \cup {"top", None}]
    /\ tags \subseteq Tags /\ chans \subseteq Channels
    /\ carries \in [Monitors -> SUBSET Tags] /\ alerts \in [Monitors -> SUBSET Channels]
    /\ req \in [Requests -> Request \cup {None}] /\ writes \in Nat
    /\ raced \in BOOLEAN /\ excused \subseteq Monitors

\* buildMonitor's defaults.
Fresh == [enabled |-> TRUE, timeout |-> 1, interval |-> 2, group |-> None,
          parent |-> None, secret |-> "set", status |-> "pending"]

Init ==
    /\ mon = [m \in Monitors |-> Fresh] /\ nest = [g \in Groups |-> "top"]
    /\ tags = Tags /\ chans = Channels
    /\ carries = [m \in Monitors |-> {}] /\ alerts = [m \in Monitors |-> Channels]
    /\ req = [r \in Requests |-> None] /\ writes = 0
    /\ raced = FALSE /\ excused = {}

Exists == {m \in Monitors : mon[m] # None}
ExistingGroups == {g \in Groups : nest[g] # None}

\* Something is committed: whatever another request has read is old.
Commit(r, next) ==
    req' = [x \in Requests |-> IF x = r THEN next
                               ELSE IF req[x] = None THEN None
                               ELSE [req[x] EXCEPT !.old = TRUE]]
Free(r) == req[r] = None /\ writes < MaxWrites
Begin(r, q) == writes' = writes + 1 /\ req' = [req EXCEPT ![r] = q]
Once == writes < MaxWrites /\ writes' = writes + 1 /\ Commit(None, None)
End(r) == req' = [req EXCEPT ![r] = None]

-----------------------------------------------------------------------------
(* What a body may ask.                                                     *)

Up(p) == IF p = None THEN None ELSE mon[p].parent

MutResolveParent(m, p) == p \in Exists /\ p # m

\* resolveParent: the walk from p up to a monitor with no parent meets at most
\* MaxDepth monitors, all of them there, and never m.
ResolveParent(m, p) ==
    \E at \in [0 .. MaxDepth -> Exists \cup {None}] :
       /\ at[0] = p /\ at[MaxDepth] = None
       /\ \A d \in 0 .. MaxDepth : at[d] # m
       /\ \A d \in 1 .. MaxDepth : at[d] = Up(at[d - 1])

\* resolveGroup, resolveTags and resolveChannels: what is named must exist.
ResolveGroup(g) == g \in ExistingGroups

\* resolveParentGroup: the parent is not nested and the group has no children.
ResolveParentGroup(g, p) ==
    /\ p \in ExistingGroups /\ p # g /\ nest[p] = "top"
    /\ \A c \in Groups : nest[c] # g

\* PreserveRedacted: a marker stands for what is stored, or for nothing.
Preserve(stored, sent) == IF sent = Marker THEN stored ELSE sent

\* applyConfigChange: the stored halves are put together, the markers resolved,
\* the top-level keys of the patch replaced.
WithConfig(row, sent) == [row EXCEPT !.secret = Preserve(row.secret, sent)]

\* sealMonitor splits the configuration it is given.  A body without one leaves
\* it the public half alone, and there is nothing to seal.
Sealed(row, config) == IF config THEN row ELSE [row EXCEPT !.secret = None]

\* The pair is checked as it will be stored, whichever half the body has.
Pair(row, sent) == row.timeout < row.interval

\* One body: a field, or the enabling together with a list of tags.
BodiesFor(m) ==
    {[enabled |-> b] : b \in BOOLEAN} \cup {[timeout |-> t] : t \in {1, 2}}
    \cup {[interval |-> i] : i \in {2, 3}}
    \cup {[group |-> g] : g \in {None} \cup {g \in Groups : ResolveGroup(g)}}
    \cup {[parent |-> p] : p \in {None} \cup {p \in Monitors : ResolveParent(m, p)}}
    \cup {[config |-> s] : s \in Secrets}
    \cup {[enabled |-> b, tags |-> t] : b \in BOOLEAN, t \in SUBSET tags}
    \cup {[channels |-> c] : c \in SUBSET chans}

\* applyMonitorUpdate: the fields of the body that are columns.
Fold(row, body) ==
    LET plain == [k \in DOMAIN row |->
                    IF k \in DOMAIN body \ {"config"} THEN body[k] ELSE row[k]]
    IN IF "config" \in DOMAIN body THEN WithConfig(plain, body.config) ELSE plain

-----------------------------------------------------------------------------
(* Monitors.                                                                *)

\* createMonitor, up to its insert, with an identifier nobody knows yet.
CreateReads(r, m) ==
    /\ Free(r) /\ mon[m] = None
    /\ \A x \in Requests : req[x] # None => req[x].id # m
    /\ \E b \in BOOLEAN, g \in {None} \cup ExistingGroups, c \in {{}, chans}, t \in SUBSET tags,
          p \in {None} \cup {p \in Monitors : ResolveParent(m, p)} :
          Begin(r, [kind |-> "create", id |-> m, old |-> FALSE, stage |-> "row",
                    row |-> [Fresh EXCEPT !.enabled = b, !.group = g, !.parent = p,
                             !.status = IF b THEN "pending" ELSE "paused"],
                    body |-> [channels |-> c, tags |-> t], was |-> b])
    /\ UNCHANGED <<mon, nest, tags, chans, carries, alerts, raced, excused>>

\* updateMonitor, up to UpdateMonitor.
PatchReads(r, m) ==
    /\ Free(r) /\ m \in Exists
    /\ \E body \in BodiesFor(m) :
          LET folded == Fold(mon[m], body) IN
          /\ Pair(folded, body)
          /\ Begin(r, [kind |-> "patch", id |-> m, old |-> FALSE, stage |-> "row",
                       row |-> Sealed(folded, "config" \in DOMAIN body),
                       body |-> body, was |-> mon[m].enabled])
    /\ UNCHANGED <<mon, nest, tags, chans, carries, alerts, raced, excused>>

\* bulkUpdateMonitors with set_group: the row read and written whole, once for
\* every identifier.
BulkReads(r, m) ==
    /\ Free(r) /\ m \in Exists
    /\ \E g \in {None} \cup ExistingGroups :
          Begin(r, [kind |-> "bulk", id |-> m, old |-> FALSE, stage |-> "row",
                    row |-> [mon[m] EXCEPT !.group = g], body |-> [group |-> g],
                    was |-> mon[m].enabled])
    /\ UNCHANGED <<mon, nest, tags, chans, carries, alerts, raced, excused>>

At(r, kinds, stage) == req[r] # None /\ req[r].kind \in kinds /\ req[r].stage = stage

\* The foreign keys of the row hold; an update finds its row.
Accepted(q) ==
    /\ q.row.group = None \/ q.row.group \in ExistingGroups
    /\ q.row.parent = None \/ q.row.parent \in Exists
    /\ q.kind # "create" => q.id \in Exists

\* The write after this one: createMonitor assigns the channels before the
\* tags, updateMonitor the tags before the channels.
Next3(q) ==
    LET first == IF q.kind = "create" THEN "channels" ELSE "tags" IN
    IF q.stage = "row" THEN first
    ELSE IF q.stage # first THEN "switch"
    ELSE IF first = "tags" THEN "channels" ELSE "tags"

\* CreateMonitor, with the state row; UpdateMonitor, without its status.
WriteRow(r) ==
    /\ At(r, {"create", "patch", "bulk"}, "row")
    /\ LET q == req[r] IN
       IF Accepted(q)
         THEN /\ mon' = [mon EXCEPT ![q.id] =
                   IF q.kind = "create" THEN q.row ELSE [q.row EXCEPT !.status = mon[q.id].status]]
              /\ raced' = (raced \/ q.old)
              /\ excused' = IF q.kind = "create" THEN excused \ {q.id}
                            ELSE IF q.old /\ mon[q.id].enabled # q.was THEN excused \cup {q.id}
                            ELSE excused
              /\ Commit(r, IF q.kind = "bulk" THEN None ELSE [q EXCEPT !.stage = Next3(q)])
         ELSE End(r) /\ UNCHANGED <<mon, raced, excused>>
    /\ UNCHANGED <<nest, tags, chans, carries, alerts, writes>>

\* The answer is an error, and what is left of the request is not done.
Abandons(q) == excused' = IF q.kind = "patch" /\ "enabled" \in DOMAIN q.body
                             /\ q.body.enabled # q.was
                          THEN excused \cup {q.id} ELSE excused

\* A PATCH calls the store for any list it has, a create for one that is not
\* empty.
Calls(q, list) == q.kind = "patch" \/ list # {}

\* SetMonitorTags: the whole set anew, or an error when one of them has gone or
\* is named twice, or the call fails.
WriteTags(r, fails) ==
    /\ At(r, {"create", "patch"}, "tags")
    /\ LET q == req[r] IN
       IF "tags" \notin DOMAIN q.body
         THEN req' = [req EXCEPT ![r].stage = Next3(q)] /\ ~fails /\ UNCHANGED <<carries, excused>>
         ELSE IF fails \/ ~(q.body.tags \subseteq tags) \/ (q.id \notin Exists /\ q.body.tags # {})
           THEN (fails => Calls(q, q.body.tags)) /\ End(r) /\ Abandons(q) /\ UNCHANGED carries
           ELSE /\ carries' = [carries EXCEPT ![q.id] = q.body.tags]
                /\ req' = [req EXCEPT ![r].stage = Next3(q)] /\ UNCHANGED excused
    /\ UNCHANGED <<mon, nest, tags, chans, alerts, writes, raced>>

\* SetMonitorChannels, the same.
WriteChannels(r, fails) ==
    /\ At(r, {"create", "patch"}, "channels")
    /\ LET q == req[r] IN
       IF "channels" \notin DOMAIN q.body
         THEN req' = [req EXCEPT ![r].stage = Next3(q)] /\ ~fails /\ UNCHANGED <<alerts, excused>>
         ELSE IF fails \/ ~(q.body.channels \subseteq chans) \/ (q.id \notin Exists /\ q.body.channels # {})
           THEN (fails => Calls(q, q.body.channels)) /\ End(r) /\ Abandons(q) /\ UNCHANGED alerts
           ELSE /\ alerts' = [alerts EXCEPT ![q.id] = q.body.channels]
                /\ req' = [req EXCEPT ![r].stage = Next3(q)] /\ UNCHANGED excused
    /\ UNCHANGED <<mon, nest, tags, chans, carries, writes, raced>>

\* SetMonitorEnabled: the column and the state row, in one transaction.
Switched(m, b) == [mon EXCEPT ![m] = [@ EXCEPT !.enabled = b,
                                        !.status = IF b THEN "pending" ELSE "paused"]]

MutNeedsSwitch(q) == FALSE

\* updateMonitor's last write: the body's wish against the row it had read.
NeedsSwitch(q) ==
    q.kind = "patch" /\ "enabled" \in DOMAIN q.body /\ q.body.enabled # q.was

Switch(r, fails) ==
    /\ At(r, {"create", "patch"}, "switch")
    /\ LET q == req[r] IN
       IF NeedsSwitch(q) /\ q.id \in Exists /\ ~fails
         THEN /\ mon' = Switched(q.id, q.row.enabled) /\ excused' = excused \ {q.id}
              /\ Commit(r, None)
         ELSE /\ End(r) /\ UNCHANGED mon
              /\ IF fails THEN NeedsSwitch(q) /\ Abandons(q) ELSE UNCHANGED excused
    /\ UNCHANGED <<nest, tags, chans, carries, alerts, writes, raced>>

\* pauseMonitor, resumeMonitor, and the bulk enable and disable.
SetEnabled(m, b) ==
    /\ m \in Exists /\ Once
    /\ mon' = Switched(m, b) /\ excused' = excused \ {m}
    /\ UNCHANGED <<nest, tags, chans, carries, alerts, raced>>

\* DeleteMonitor: refused while another depends on it.
DeleteMonitor(m) ==
    /\ m \in Exists /\ Once
    /\ \A c \in Exists : mon[c].parent # m
    /\ mon' = [mon EXCEPT ![m] = None]
    /\ carries' = [carries EXCEPT ![m] = {}] /\ alerts' = [alerts EXCEPT ![m] = {}]
    /\ excused' = excused \ {m}
    /\ UNCHANGED <<nest, tags, chans, raced>>

\* The bulk add_tags and remove_tags: the set read, combined, and written whole.
Combine(m, t, add) == IF add THEN carries[m] \cup {t} ELSE carries[m] \ {t}

BulkTagsReads(r, m) ==
    /\ Free(r) /\ m \in Exists
    /\ \E t \in tags, add \in BOOLEAN :
          Begin(r, [kind |-> "retag", id |-> m, old |-> FALSE, stage |-> "retag",
                    row |-> None, body |-> [tags |-> Combine(m, t, add)], was |-> TRUE])
    /\ UNCHANGED <<mon, nest, tags, chans, carries, alerts, raced, excused>>

BulkTagsWrites(r) ==
    /\ At(r, {"retag"}, "retag") /\ End(r)
    /\ LET q == req[r] IN
       IF q.id \in Exists /\ q.body.tags \subseteq tags
         THEN carries' = [carries EXCEPT ![q.id] = q.body.tags]
         ELSE UNCHANGED carries
    /\ UNCHANGED <<mon, nest, tags, chans, alerts, writes, raced, excused>>

\* A result is ingested, of a check that may have begun before the pause.
Report(m) ==
    /\ m \in Exists /\ mon[m].status # "up"
    /\ mon' = [mon EXCEPT ![m].status = "up"]
    /\ excused' = IF mon[m].enabled THEN excused ELSE excused \cup {m}
    /\ UNCHANGED <<nest, tags, chans, carries, alerts, req, writes, raced>>

-----------------------------------------------------------------------------
(* Groups, tags and channels.                                               *)

CreateGroup(g) ==
    /\ nest[g] = None /\ Once
    /\ \E p \in {"top"} \cup {p \in ExistingGroups : nest[p] = "top"} :
          nest' = [nest EXCEPT ![g] = p]
    /\ UNCHANGED <<mon, tags, chans, carries, alerts, raced, excused>>

\* updateGroup, up to UpdateGroup.
MoveReads(r, g) ==
    /\ Free(r) /\ g \in ExistingGroups
    /\ \E p \in {"top"} \cup {p \in Groups : ResolveParentGroup(g, p)} :
          Begin(r, [kind |-> "move", id |-> g, old |-> FALSE, stage |-> "move",
                    row |-> None, body |-> [to |-> p], was |-> TRUE])
    /\ UNCHANGED <<mon, nest, tags, chans, carries, alerts, raced, excused>>

\* UpdateGroup, if the group and its new parent are still there.
MoveWrites(r) ==
    /\ At(r, {"move"}, "move")
    /\ LET q == req[r] IN
       IF q.id \in ExistingGroups /\ (q.body.to = "top" \/ q.body.to \in ExistingGroups)
         THEN nest' = [nest EXCEPT ![q.id] = q.body.to] /\ raced' = (raced \/ q.old) /\ Commit(r, None)
         ELSE End(r) /\ UNCHANGED <<nest, raced>>
    /\ UNCHANGED <<mon, tags, chans, carries, alerts, writes, excused>>

\* DeleteGroup: what it held is ungrouped, what it nested is promoted.
DeleteGroup(g) ==
    /\ g \in ExistingGroups /\ Once
    /\ nest' = [c \in Groups |-> IF c = g THEN None ELSE IF nest[c] = g THEN "top" ELSE nest[c]]
    /\ mon' = [m \in Monitors |-> IF mon[m] # None /\ mon[m].group = g
                                  THEN [mon[m] EXCEPT !.group = None] ELSE mon[m]]
    /\ UNCHANGED <<tags, chans, carries, alerts, raced, excused>>

\* DeleteTag and DeleteChannel cascade to the monitors that carry them.
DeleteTag(t) ==
    /\ t \in tags /\ Once
    /\ tags' = tags \ {t} /\ carries' = [m \in Monitors |-> carries[m] \ {t}]
    /\ UNCHANGED <<mon, nest, chans, alerts, raced, excused>>

DeleteChannel(c) ==
    /\ c \in chans /\ Once
    /\ chans' = chans \ {c} /\ alerts' = [m \in Monitors |-> alerts[m] \ {c}]
    /\ UNCHANGED <<mon, nest, tags, carries, raced, excused>>

-----------------------------------------------------------------------------
RequestStep(r) ==
    \/ \E m \in Monitors : CreateReads(r, m) \/ PatchReads(r, m) \/ BulkReads(r, m) \/ BulkTagsReads(r, m)
    \/ \E g \in Groups : MoveReads(r, g)
    \/ WriteRow(r)
    \/ \E fails \in BOOLEAN : WriteTags(r, fails) \/ WriteChannels(r, fails) \/ Switch(r, fails)
    \/ BulkTagsWrites(r) \/ MoveWrites(r)

Next ==
    \/ \E r \in Requests : RequestStep(r)
    \/ \E m \in Monitors : (\E b \in BOOLEAN : SetEnabled(m, b)) \/ DeleteMonitor(m) \/ Report(m)
    \/ \E g \in Groups : CreateGroup(g) \/ DeleteGroup(g)
    \/ \E t \in Tags : DeleteTag(t)
    \/ \E c \in Channels : DeleteChannel(c)

Spec == Init /\ [][Next]_vars

-----------------------------------------------------------------------------
\* No set of monitors depends only on itself.
NoLoop == \A S \in SUBSET Exists : S # {} => \E m \in S : mon[m].parent \notin S

(* Dependencies never loop and groups nest one level, as the two resolvers  *)
(* promise, unless two edits crossed between their checks and their writes; *)
(* and nothing points at a row that is gone.                                *)
TreesHold ==
    /\ ~raced =>
         /\ NoLoop
         /\ \A g \in ExistingGroups : nest[g] # "top" => nest[nest[g]] = "top"
    /\ \A m \in Exists :
         /\ mon[m].parent # None => mon[m].parent \in Exists
         /\ mon[m].group # None => mon[m].group \in ExistingGroups
    /\ \A g \in ExistingGroups : nest[g] # "top" => nest[g] \in ExistingGroups

(* A monitor reads as paused exactly when it is disabled, once no edit of   *)
(* it is under way, whichever endpoint moved it; three races are excused by *)
(* name: a stale copy written back, a PATCH that fails between its writes,  *)
(* and a result that outlives the pause.                                    *)
PauseIsTrue ==
    \A m \in Exists \ excused :
       (\A r \in Requests : req[r] = None \/ req[r].id # m)
         => (mon[m].status = "paused") = ~mon[m].enabled

(* However edits cross, the row they leave is one the whole validation      *)
(* would accept, and the credential is never the marker that hides it.      *)
RowsAreValid ==
    \A m \in Exists : mon[m].timeout < mon[m].interval /\ mon[m].secret # Marker

(* TestPatchEchoingARedactedSecretKeepsTheStoredOne: an edit by a caller    *)
(* who was never shown the credential must not destroy it.                  *)
CredentialSurvives ==
    [][\A m \in Exists :
         mon[m].secret = "set" /\ mon'[m] # None /\ mon'[m].secret = None =>
           \E r \in Requests :
              /\ req[r] # None /\ req[r].id = m /\ "config" \in DOMAIN req[r].body
              /\ req[r].body.config = None]_vars
=============================================================================

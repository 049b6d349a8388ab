----------------------------- MODULE KumaImport -----------------------------
(***************************************************************************)
(* The import from Uptime Kuma (importer/kuma, api/imports.go and its      *)
(* store): what becomes of every row of the files a user hands over.       *)
(*                                                                         *)
(* A pass reads the names that are installed once and then works through   *)
(* its files a row at a time, while the API goes on creating and deleting  *)
(* what it looked up.  A name is what collision folding leaves of it, with *)
(* the suffix a rename gave it.  A row of a file keeps only what decides   *)
(* how it maps: which fields are there and what kind of thing they say.    *)
(***************************************************************************)
EXTENDS Naturals, FiniteSets, Sequences, FiniteSetsExt, Functions

CONSTANTS
    Uploads,        \* the sequences of files a request may bring
    Strategies,     \* the conflict strategies a request may name
    Installed,      \* rows that are there before any import
    OutsideRows,    \* what an API client may create meanwhile: <<kind, name>>
    SlugOf(_),      \* the slug of a tag's name; two names may share one
    MaxSuffix,      \* the last suffix a rename tries
    MaxJobs, MaxOutside, MaxFailures, None

VARIABLES
    rows,       \* everything ever written, by id; None once deleted
    running,    \* importRunner.running
    pass,       \* the import in flight
    jobs,       \* import_jobs with import_entries
    outside,    \* writes of API clients so far
    failures    \* writes that failed for a reason of their own

vars == <<rows, running, pass, jobs, outside, failures>>

Kinds == {"tag", "channel", "group", "monitor", "page"}

TypeOK ==
    /\ running \in BOOLEAN /\ (pass # None => running)
    /\ \A id \in DOMAIN rows : rows[id] = None \/ rows[id].kind \in Kinds
    /\ \A j \in DOMAIN jobs :
          jobs[j].state \in {"queued", "running", "succeeded", "partial", "failed"}

Init ==
    /\ rows = Installed /\ running = FALSE /\ pass = None /\ jobs = <<>>
    /\ outside = 0 /\ failures = 0

There == {id \in DOMAIN rows : rows[id] # None}
OfKind(kind) == {id \in There : rows[id].kind = kind}
Row(kind, name) == [kind |-> kind, name |-> name, from |-> None, job |-> 0,
                    group |-> None, tags |-> {}, channels |-> {}, token |-> None,
                    members |-> <<>>, beats |-> {}]
RowFields == DOMAIN Row(None, None)

\* An upload is a sequence of files, a tag of which comes with the values its
\* variants are made of, the bare one among them: none only if it has no name.
\* What was installed came with no import.
KumaImportAssumption ==
    /\ None \notin Nat
    /\ \A files \in Uploads : DOMAIN files \subseteq Nat
    /\ \A files \in Uploads : \A f \in DOMAIN files :
          /\ DOMAIN files[f].tags \subseteq Nat /\ DOMAIN files[f].channels \subseteq Nat
          /\ DOMAIN files[f].monitors \subseteq Nat /\ DOMAIN files[f].pages \subseteq Nat
          /\ \A r \in DOMAIN files[f].tags :
                LET values == files[f].tags[r].values
                IN  Len(values) \in Nat /\ DOMAIN values = 1 .. Len(values)
    /\ Installed \in Seq(Range(Installed))
    /\ \A i \in DOMAIN Installed : Installed[i] # None =>
          Installed[i].job = 0 /\ DOMAIN Installed[i] = RowFields

\* The table of a file that a stage works through.
Table == [tag |-> "tags", channel |-> "channels", monitor |-> "monitors", page |-> "pages"]

-----------------------------------------------------------------------------
(* How one row maps: whether this build has such a thing, and whether the   *)
(* row has the fields it cannot do without.  What a mapping drops or        *)
(* approximates it says in a note, and notes are left out.                  *)

HTTPTypes == {"http", "keyword", "http-keyword", "json-query", "http-json-query"}

\* A url that parses and is http or https.
MapHTTP(m) == IF m.url = "http" THEN "imported" ELSE "failed"

\* mapPort, mapPing, mapDNS, mapDocker, mapGRPC: a hostname, an address or a
\* container, and for a port one that exists.
MapHost(m) == IF m.host THEN "imported" ELSE "failed"

\* The hostname, or the one in the url.
MapTLSExpiry(m) == IF m.host \/ m.url = "http" THEN "imported" ELSE "failed"

\* A push token comes across, and one is issued where there was none.
MapPush(m) == "imported"

MapMonitor(m) ==
    CASE m.type \in HTTPTypes -> MapHTTP(m)
      [] m.type \in {"ping", "dns", "port", "docker", "grpc-keyword"} -> MapHost(m)
      [] m.type = "certificate-expiry" -> MapTLSExpiry(m)
      [] m.type = "push" -> MapPush(m)
      [] OTHER -> "unsupported"

\* The fields a channel of each provider cannot do without.
Needs ==
    [smtp |-> {"to"}, webhook |-> {"url"}, slack |-> {"webhook_url"}, discord |-> {"webhook_url"},
     telegram |-> {"bot_token", "chat_id"}, matrix |-> {"homeserver_url", "room_id", "access_token"},
     gotify |-> {"server_url", "application_token"}, ntfy |-> {"topic"},
     pagerduty |-> {"integration_key"}, opsgenie |-> {"api_key"},
     twilio |-> {"account_sid", "auth_token", "from_number", "to_numbers"},
     apprise |-> {"urls"}, pushover |-> {"api_token", "user_key"}]

\* mapNotification; a config that is no JSON has no provider.
MapNotification(c) ==
    IF c.provider = None THEN "failed"
    ELSE IF c.provider \notin DOMAIN Needs THEN "unsupported"
    ELSE IF Needs[c.provider] \subseteq c.fields THEN "imported" ELSE "failed"

-----------------------------------------------------------------------------
(* The order of work: what a pass has left to do is a set of items, each at *)
(* a stage of its file, a row of the stage's table and a place in the row.  *)

Item(step, file, stage, row, place) ==
    [step |-> step, file |-> file, stage |-> stage, row |-> row, place |-> place]
OneEach(step, file, stage, rs) == {Item(step, file, stage, r, 0) : r \in rs}

\* The variants of a tag in the order of their values, the bare one first if a
\* monitor carries it so or none carries it with a value; then its entry.
TagItems(f, tags) ==
    UNION {{Item("variant", f, 2, r, v) : v \in DOMAIN tags[r].values}
           \cup {Item("tag", f, 2, r, Len(tags[r].values) + 1)} : r \in DOMAIN tags}

\* Groups first, then every other monitor, in the order of the file.
MonitorItems(f, monitors) ==
    OneEach("group", f, 6, {r \in DOMAIN monitors : monitors[r].type = "group"})
    \cup OneEach("monitor", f, 7, {r \in DOMAIN monitors : monitors[r].type # "group"})

\* pass.file: the stages, each of which only refers to earlier ones, and reads
\* its table of the file before its first row.
FileItems(f, file, opts) ==
    {Item("open", f, 0, 0, 0)}
    \cup (IF ~file.opens THEN {} ELSE
        {Item("read", f, stage, 0, 0) : stage \in {1, 3, 5, 8}}
        \cup TagItems(f, file.tags) \cup OneEach("channel", f, 4, DOMAIN file.channels)
        \cup MonitorItems(f, file.monitors) \cup OneEach("page", f, 9, DOMAIN file.pages)
        \cup (IF opts.history THEN OneEach("history", f, 10, DOMAIN file.monitors) ELSE {}))

Plan(files, opts) == UNION {FileItems(f, files[f], opts) : f \in DOMAIN files}

\* Run: a file at a time, a stage at a time, a row at a time.
Before(i, j) ==
    \/ i.file < j.file
    \/ /\ i.file = j.file
       /\ \/ i.stage < j.stage
          \/ /\ i.stage = j.stage
             /\ i.row < j.row \/ (i.row = j.row /\ i.place < j.place)

-----------------------------------------------------------------------------
(* The pass.                                                                *)

NoIds == [kind \in {"tag", "channel", "group", "monitor"} |-> <<>>]
Put(f, x, y) == [z \in DOMAIN f \cup {x} |-> IF z = x THEN y ELSE f[z]]

\* existingNames: one id for every name that is taken.
Names(kind) == {rows[id].name : id \in OfKind(kind)}
IdsByName(kind) ==
    {t \in [Names(kind) -> OfKind(kind)] : \A n \in Names(kind) : rows[t[n]].name = n}

\* The suffix the first free name has.
FirstFree(taken, base) ==
    LET free == {k \in 2 .. MaxSuffix : <<base, k>> \notin taken}
    IN IF free = {} THEN None ELSE Min(free)

\* resolveName: replace keeps what is there, as skip does.
Resolve(table, base, strategy) ==
    LET name == <<base, 1>>
        k == FirstFree(DOMAIN table, base)
    IN IF name \notin DOMAIN table THEN [name |-> name, id |-> None, action |-> "imported"]
       ELSE IF strategy = "rename" /\ k # None
         THEN [name |-> <<base, k>>, id |-> None, action |-> "renamed"]
       ELSE [name |-> name, id |-> table[name], action |-> "skipped"]

Now == CHOOSE i \in pass.todo : \A j \in pass.todo : i = j \/ Before(i, j)
FileNow == pass.files[Now.file]
Doing(step) ==
    /\ pass # None
    /\ \E i \in pass.todo : i.step = step /\ \A j \in pass.todo : i = j \/ Before(i, j)
Done(p) == [p EXCEPT !.todo = @ \ {Now}]

\* record: one more entry of the report.
Recorded(p, step, result, target) ==
    [p EXCEPT !.entries = Append(@, [step |-> step, file |-> Now.file, row |-> Now.row,
                                     result |-> result, target |-> target])]

\* What the schema refuses: a tag's or a page's slug, a push token another
\* monitor has, a group or a monitor that is gone.
Refused(row) ==
    \/ row.kind = "tag" /\ \E id \in OfKind("tag") : SlugOf(rows[id].name) = SlugOf(row.name)
    \/ row.kind = "page" /\ \E id \in OfKind("page") : rows[id].name = row.name
    \/ row.token # None /\ \E id \in OfKind("monitor") : rows[id].token = row.token
    \/ ~(UNION Range(row.members) \cup ({row.group} \ {None})) \subseteq There

\* A write of the pass: on a dry run only an id is taken.  One that nothing
\* refuses may still fail, and every one does once the hour is over.
Creates(row, accepted, ok) ==
    /\ IF pass.opts.dry THEN ok /\ UNCHANGED failures
       ELSE LET could == accepted /\ ~Refused(row) /\ ~pass.expired IN
            \/ ok = could /\ UNCHANGED failures
            \/ could /\ ~ok /\ failures < MaxFailures /\ failures' = failures + 1
    /\ rows' = IF ok THEN Append(rows, IF pass.opts.dry THEN None
                                       ELSE [row EXCEPT !.job = pass.job, !.from = Now])
               ELSE rows

\* The id tables and the name tables after a row was created.
Known(p, kind, key, name, id) ==
    [p EXCEPT !.ids[kind] = Put(@, key, id), !.table[kind] = Put(@, name, id)]

\* A file that cannot be opened or read ends the job: what it has is reported.
GivesUp(p) == [p EXCEPT !.todo = {}, !.failed = TRUE]

\* openSource, with the identity maps of the file before it forgotten.
Open ==
    /\ Doing("open")
    /\ pass' = IF FileNow.opens /\ ~pass.expired
                 THEN [Done(pass) EXCEPT !.ids = NoIds] ELSE GivesUp(pass)
    /\ UNCHANGED <<rows, running, jobs, outside, failures>>

\* The query a stage starts with.
Read ==
    /\ Doing("read")
    /\ pass' = IF pass.expired THEN GivesUp(pass) ELSE Done(pass)
    /\ UNCHANGED <<rows, running, jobs, outside, failures>>

\* importTags, one variant of a tag.
Variant ==
    /\ Doing("variant")
    /\ LET tag == FileNow.tags[Now.row]
           value == tag.values[Now.place]
           key == <<Now.row, value>>
           r == Resolve(pass.table["tag"], <<tag.name, value>>, pass.opts.strategy)
           next == [Done(pass) EXCEPT
                      !.result = IF r.action = "renamed" \/ (r.action = "skipped" /\ Len(tag.values) = 1)
                                   THEN r.action ELSE @]
       IN IF r.action = "skipped"
            THEN /\ pass' = [next EXCEPT !.ids["tag"] = Put(@, key, r.id)]
                 /\ UNCHANGED <<rows, failures>>
            ELSE \E ok \in BOOLEAN :
                 /\ Creates(Row("tag", r.name), TRUE, ok)
                 /\ pass' = IF ok THEN Known(next, "tag", key, r.name, Len(rows'))
                            ELSE Recorded(next, "tag", "failed", None)
    /\ UNCHANGED <<running, jobs, outside>>

\* The tag's own entry, whatever became of its variants, with the first of
\* them; a tag with no name has failed.
TagEntry ==
    /\ Doing("tag")
    /\ LET ids == pass.ids["tag"]
           values == FileNow.tags[Now.row].values
           came == {v \in DOMAIN values : <<Now.row, values[v]>> \in DOMAIN ids}
       IN pass' = Recorded([Done(pass) EXCEPT !.result = "imported"], "tag",
                           IF Len(values) = 0 THEN "failed" ELSE pass.result,
                           IF came = {} THEN None ELSE ids[<<Now.row, values[Min(came)]>>])
    /\ UNCHANGED <<rows, running, jobs, outside, failures>>

\* A row that did not map, one whose name is to be kept, and one that is
\* written, or refused and reported so.
Unmapped(step, result) ==
    pass' = Recorded(Done(pass), step, result, None) /\ UNCHANGED <<rows, failures>>
Keeps(step, kind, id) ==
    /\ pass' = Recorded([Done(pass) EXCEPT !.ids[kind] = Put(@, Now.row, id)], step, "skipped", id)
    /\ UNCHANGED <<rows, failures>>
MutWrites(step, kind, row, accepted, r) ==
    \E ok \in BOOLEAN :
        /\ Creates(row, accepted, ok)
        /\ pass' = IF ok THEN Recorded(Known(Done(pass), kind, Now.row, r.name, Len(rows')),
                                       step, r.action, Len(rows'))
                   ELSE Recorded(Done(pass), step, r.action, None)
Writes(step, kind, row, accepted, r) ==
    \E ok \in BOOLEAN :
        /\ Creates(row, accepted, ok)
        /\ pass' = IF ok THEN Recorded(Known(Done(pass), kind, Now.row, r.name, Len(rows')),
                                       step, r.action, Len(rows'))
                   ELSE Recorded(Done(pass), step, "failed", None)

Channel ==
    /\ Doing("channel")
    /\ LET c == FileNow.channels[Now.row]
           as == MapNotification(c)
           r == Resolve(pass.table["channel"], c.name, pass.opts.strategy)
       IN IF as # "imported" THEN Unmapped("channel", as)
          ELSE IF r.action = "skipped" THEN Keeps("channel", "channel", r.id)
          ELSE Writes("channel", "channel", Row("channel", r.name), c.accepted, r)
    /\ UNCHANGED <<running, jobs, outside>>

\* importMonitors, first pass: groups are flat here.
GroupRow ==
    /\ Doing("group")
    /\ LET r == Resolve(pass.table["group"], FileNow.monitors[Now.row].name, pass.opts.strategy)
       IN IF r.action = "skipped" THEN Keeps("monitor", "group", r.id)
          ELSE Writes("monitor", "group", Row("group", r.name), TRUE, r)
    /\ UNCHANGED <<running, jobs, outside>>

\* resolveTags and resolve: the attachments that came across; a variant that
\* did not falls back to the bare tag.
TagsOf(m) ==
    LET ids == pass.ids["tag"]
        bare(ref) == <<ref[1], "">>
    IN {ids[IF ref \in DOMAIN ids THEN ref ELSE bare(ref)] :
          ref \in {x \in m.tags : x \in DOMAIN ids \/ bare(x) \in DOMAIN ids}}
ChannelsOf(m) == {pass.ids["channel"][c] : c \in m.channels \cap DOMAIN pass.ids["channel"]}

\* SetMonitorTags and SetMonitorChannels: all of them or, when one is gone or
\* the call failed, none, of which only a note tells.
Linked(ids, fails) == IF ids \subseteq There /\ ~fails THEN ids ELSE {}

\* importMonitors, second pass.
MonitorRow ==
    /\ Doing("monitor")
    /\ LET m == FileNow.monitors[Now.row]
           as == MapMonitor(m)
           r == Resolve(pass.table["monitor"], m.name, pass.opts.strategy)
           groups == pass.ids["group"]
       IN IF as # "imported" THEN Unmapped("monitor", as)
          ELSE IF r.action = "skipped" THEN Keeps("monitor", "monitor", r.id)
          ELSE \E lost \in SUBSET {"tags", "channels"} :
               /\ failures + Cardinality(lost) <= MaxFailures
               /\ Writes("monitor", "monitor",
                    [Row("monitor", r.name) EXCEPT
                       !.group = IF m.parent \in DOMAIN groups THEN groups[m.parent] ELSE None,
                       !.token = m.token,
                       !.tags = Linked(TagsOf(m), "tags" \in lost),
                       !.channels = Linked(ChannelsOf(m), "channels" \in lost)],
                    m.accepted, r)
    /\ UNCHANGED <<running, jobs, outside>>

\* The slugs that are taken: the store is asked, on a dry run too.
Slugs == IF pass.expired THEN {} ELSE {rows[id].name : id \in OfKind("page")}

\* The first section that lists a monitor keeps it; what did not map is left out.
Sections(page) ==
    LET ids(s) == {pass.ids["monitor"][m] : m \in page.sections[s] \cap DOMAIN pass.ids["monitor"]}
    IN [s \in DOMAIN page.sections |-> ids(s) \ UNION {ids(t) : t \in 1 .. s - 1}]

\* importStatusPages.
PageRow ==
    /\ Doing("page")
    /\ LET page == FileNow.pages[Now.row]
           slug == <<page.slug, 1>>
           k == FirstFree(Slugs, page.slug)
           final == IF slug \in Slugs /\ k # None THEN <<page.slug, k>> ELSE slug
       IN IF slug \in Slugs /\ pass.opts.strategy # "rename" THEN Unmapped("page", "skipped")
          ELSE \E ok \in BOOLEAN :
               /\ Creates([Row("page", final) EXCEPT !.members = Sections(page)], TRUE, ok)
               /\ pass' = IF ok THEN Recorded(Done(pass), "page",
                                       IF final = slug THEN "imported" ELSE "renamed", Len(rows'))
                          ELSE Recorded(Done(pass), "page", "failed", None)
    /\ UNCHANGED <<running, jobs, outside>>

\* importHistory: WriteBatch keeps one beat for a time, whoever brought it; the
\* first that fails ends the monitor's history, what came before it is kept.
History ==
    /\ Doing("history")
    /\ LET m == FileNow.monitors[Now.row]
           ids == pass.ids["monitor"]
           id == ids[Now.row]
           says(result) == pass' = Recorded(Done(pass), "history", result, id)
           writes(beats) == rows' = [rows EXCEPT ![id].beats = @ \cup beats]
       IN IF Now.row \notin DOMAIN ids \/ m.beats = {}
            THEN pass' = Done(pass) /\ UNCHANGED <<rows, failures>>
          ELSE IF pass.expired THEN pass' = GivesUp(pass) /\ UNCHANGED <<rows, failures>>
          ELSE IF pass.opts.dry THEN says("imported") /\ UNCHANGED <<rows, failures>>
          ELSE IF id \notin There THEN says("failed") /\ UNCHANGED <<rows, failures>>
          ELSE \/ says("imported") /\ writes(m.beats) /\ UNCHANGED failures
               \/ /\ failures < MaxFailures /\ failures' = failures + 1
                  /\ says("failed") /\ \E kept \in SUBSET m.beats : writes(kept)
    /\ UNCHANGED <<running, jobs, outside>>

-----------------------------------------------------------------------------
(* The job.                                                                 *)

\* importFromKuma: one at a time, and a row to poll before the answer.
Accept(files, opts) ==
    /\ ~running /\ Len(jobs) < MaxJobs
    /\ running' = TRUE
    /\ jobs' = Append(jobs, [state |-> "queued", entries |-> <<>>, opts |-> opts, files |-> files])
    /\ UNCHANGED <<rows, pass, outside, failures>>

\* runImport up to the first file; without the names the job has failed.
Begin ==
    /\ running /\ pass = None /\ jobs # <<>> /\ jobs[Len(jobs)].state = "queued"
    /\ LET job == jobs[Len(jobs)] IN
       \E tags \in IdsByName("tag"), groups \in IdsByName("group"),
          channels \in IdsByName("channel"), monitors \in IdsByName("monitor") :
         LET begun == [job |-> Len(jobs), opts |-> job.opts, files |-> job.files,
                       todo |-> Plan(job.files, job.opts), ids |-> NoIds, entries |-> <<>>,
                       table |-> [tag |-> tags, group |-> groups, channel |-> channels,
                                  monitor |-> monitors],
                       result |-> "imported", expired |-> FALSE, failed |-> FALSE]
         IN \/ pass' = begun /\ UNCHANGED failures
            \/ /\ failures < MaxFailures /\ failures' = failures + 1
               /\ pass' = GivesUp(begun)
    /\ jobs' = [jobs EXCEPT ![Len(jobs)].state = "running"]
    /\ UNCHANGED <<rows, running, outside>>

\* importTimeout: nothing the pass asks of a database succeeds from now on.
Expire ==
    /\ pass # None /\ ~pass.expired /\ failures < MaxFailures
    /\ pass' = [pass EXCEPT !.expired = TRUE] /\ failures' = failures + 1
    /\ UNCHANGED <<rows, running, jobs, outside>>

\* StateFor: succeeded means that everything came across.
StateFor(entries) ==
    LET came == {i \in DOMAIN entries : entries[i].result \in {"imported", "renamed"}} IN
    CASE came = DOMAIN entries -> "succeeded"
      [] came # DOMAIN entries /\ came = {} -> "failed"
      [] OTHER -> "partial"

\* AddImportEntries and UpdateImportJob: neither happens in a context that is over.
Saved(p, state) ==
    IF p.expired THEN jobs
    ELSE [jobs EXCEPT ![p.job].entries = p.entries, ![p.job].state = state]

\* The other half of runImport.
Finish ==
    /\ pass # None /\ pass.todo = {}
    /\ jobs' = Saved(pass, IF pass.failed THEN "failed" ELSE StateFor(pass.entries))
    /\ pass' = None /\ running' = FALSE
    /\ UNCHANGED <<rows, outside, failures>>

\* Requests of the API meanwhile; what refers to a deleted row lets go of it.
OutsideCreates(kind, name) ==
    /\ outside < MaxOutside /\ outside' = outside + 1
    /\ ~Refused(Row(kind, name)) /\ rows' = Append(rows, Row(kind, name))
    /\ UNCHANGED <<running, pass, jobs, failures>>

OutsideDeletes(id) ==
    /\ outside < MaxOutside /\ outside' = outside + 1
    /\ rows' = [i \in DOMAIN rows |->
         IF i = id \/ rows[i] = None THEN None
         ELSE [rows[i] EXCEPT !.tags = @ \ {id}, !.channels = @ \ {id},
                              !.group = IF @ = id THEN None ELSE @,
                              !.members = [s \in DOMAIN @ |-> @[s] \ {id}]]]
    /\ UNCHANGED <<running, pass, jobs, failures>>

Next ==
    \/ \E files \in Uploads, dry \in BOOLEAN, s \in Strategies :
          Accept(files, [dry |-> dry, strategy |-> s, history |-> TRUE])
    \/ Begin \/ Open \/ Read \/ Variant \/ TagEntry \/ Channel \/ GroupRow \/ MonitorRow
    \/ PageRow \/ History \/ Expire \/ Finish
    \/ \E row \in OutsideRows : OutsideCreates(row[1], row[2])
    \/ \E id \in There : OutsideDeletes(id)

Spec == Init /\ [][Next]_vars

-----------------------------------------------------------------------------
(* What a report promises.                                                  *)

Succeeded == {"imported", "renamed"}
Reported == {pass.entries[i] : i \in DOMAIN pass.entries}
Of(e, item) == e.file = item.file /\ e.row = item.row
GetImportJob(j) == [state |-> jobs[j].state, entries |-> jobs[j].entries]
StepOf(kind) == IF kind = "group" THEN "monitor" ELSE kind

\* A pass that has worked through its files reports every row of them.
RowsAreReported ==
    (pass.todo = {} /\ ~pass.failed) =>
      \A f \in DOMAIN pass.files, step \in DOMAIN Table :
        \A r \in DOMAIN pass.files[f][Table[step]] :
          \E e \in Reported : e.step = step /\ e.file = f /\ e.row = r

\* It wrote nothing it does not report, the variants of the tag at hand apart,
\* and on a dry run nothing.
WritesAreReported ==
    \A id \in There : rows[id].job = pass.job =>
      /\ ~pass.opts.dry
      /\ \/ rows[id].kind = "tag" /\ pass.todo # {}
         \/ \E e \in Reported : e.step = StepOf(rows[id].kind) /\ Of(e, rows[id].from)
                                /\ e.result \in Succeeded

\* What it says it wrote is a row it wrote, a tag apart of which no variant
\* could be written.
EntriesAreTrue ==
    \A e \in Reported : (e.result \in Succeeded /\ ~pass.opts.dry /\ e.step # "history") =>
      IF e.target = None
        THEN e.step = "tag" /\ \E x \in Reported : x.step = "tag" /\ Of(x, e) /\ x.result = "failed"
        ELSE e.step = "tag" \/ rows[e.target] = None \/ Of(e, rows[e.target].from)

(* The report of the pass in flight holds everything it did, and nothing    *)
(* that it did not.                                                         *)
ReportIsTrue == pass # None => RowsAreReported /\ WritesAreReported /\ EntriesAreTrue

(* A monitor that was imported carries the tags and alerts the channels     *)
(* that it did in its own file, whatever another file calls by the same id. *)
TiesAreTheFiles ==
    \A id \in OfKind("monitor") : rows[id].job # 0 =>
      LET files == jobs[rows[id].job].files
          file == files[rows[id].from.file]
          m == file.monitors[rows[id].from.row]
      IN /\ \A c \in rows[id].channels :
              \E i \in m.channels : rows[c].name[1] = file.channels[i].name
         /\ \A t \in rows[id].tags :
              \E ref \in m.tags : rows[t].name[1] \in {<<file.tags[ref[1]].name, v>> : v \in {ref[2], ""}}
         /\ rows[id].group # None =>
              m.parent # 0 /\ rows[rows[id].group].name[1] = file.monitors[m.parent].name

(* What a dry run says, the run after it says too when every write of it is *)
(* taken and nobody writes meanwhile; but for a page whose slug another     *)
(* page of the same files has, which a dry run does not know of.            *)
DryRunForetells ==
    (outside = 0 /\ failures = 0) =>
    \A j \in 1 .. Len(jobs) - 1 :
      LET dry == jobs[j]
          run == jobs[j + 1]
          once(e) == e.step = "page" =>
              \A f \in DOMAIN run.files : \A r \in DOMAIN run.files[f].pages :
                 <<f, r>> # <<e.file, e.row>> =>
                   run.files[f].pages[r].slug # run.files[e.file].pages[e.row].slug
      IN (/\ dry.opts.dry /\ ~run.opts.dry /\ dry.files = run.files
          /\ dry.opts.strategy = run.opts.strategy
          /\ dry.entries # <<>> /\ run.entries # <<>>
          /\ \A i \in DOMAIN run.entries : run.entries[i].result = "failed" =>
               \E k \in DOMAIN dry.entries : dry.entries[k] = run.entries[i])
         => \A i \in DOMAIN run.entries : once(run.entries[i]) =>
              /\ i \in DOMAIN dry.entries
              /\ dry.entries[i].step = run.entries[i].step /\ Of(dry.entries[i], run.entries[i])
              /\ dry.entries[i].result = run.entries[i].result

(* "Every source entity appears exactly once": in the report that is kept.  *)
AppearsOnce ==
    \A j \in DOMAIN jobs : LET entries == GetImportJob(j).entries IN
      \A i, k \in DOMAIN entries :
        (i # k /\ entries[i].step = entries[k].step) => ~Of(entries[i], entries[k])

(* A job that is over is reported to be: with no import in flight none is   *)
(* still running.                                                           *)
JobSaysItEnded ==
    ~running => \A j \in DOMAIN jobs : GetImportJob(j).state \notin {"queued", "running"}
=============================================================================

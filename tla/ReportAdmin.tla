---------------------------- MODULE ReportAdmin ----------------------------
(***************************************************************************)
(* What an operator defines reports with, and what a client reads them     *)
(* through: brand profiles (internal/api/brands.go), report templates      *)
(* (internal/api/reports.go), the schedules of a template, and the share   *)
(* links of a run (internal/api/report_shares.go), over their rows         *)
(* (internal/store/sqlite/report_brands.go, report_templates.go,           *)
(* report_shares.go).                                                      *)
(*                                                                         *)
(* Every PATCH loads a row, merges the body onto the copy and writes the   *)
(* copy back: two steps, between which other requests write.  A statement  *)
(* or a transaction is one step.  Runs and their files come from the       *)
(* runner (module ReportArtifacts); here a run is its template, and a file *)
(* is rendered, reclaimed by retention, or missing from the disk.          *)
(***************************************************************************)
EXTENDS Integers, Sequences

CONSTANTS
    Brands, Templates, Schedules, Runs, Links, Requests, Formats,
    None,                  \* no row, an absent field
    TemplateBodies,        \* [type, comparison, formats, brand]: None leaves a
                           \* field alone, "null" clears it
    Window, MaxRequests,   \* the share limiter: requests of a token a window
    MaxTime, MaxWrites, MaxLosses   \* bounds

VARIABLES
    brand,      \* brand[b]: [default, logo], or None
    template,   \* template[t]: [type, comparison, formats, brand, live], or None
    chosen,     \* ghost: chosen[t], the brand the last write of t named
    schedule,   \* schedule[s]: [of, live], or None
    run,        \* run[r]: the template it was made of, or None
    file,       \* file[<<r, f>>]: "none", "rendered", "expired", "missing"
    link,       \* link[k]: [of, expires, revoked, opened], or None
    hits,       \* hits[k]: the limiter's instants for the token of k
    req,        \* req[q]: [at, id, copy, body], a request under way
    now, writes, losses

rows == <<brand, template, chosen, schedule>>
shares == <<link, hits>>
vars == <<rows, run, file, shares, req, now, writes, losses>>

Idle == [at |-> "idle", id |-> None, copy |-> None, body |-> None]
Types == {"uptime", "comparative"}
Live(t) == template[t] # None /\ template[t].live

\* is_default, the field of a brand body a rule is about.
BrandBodies == [default : {None, TRUE, FALSE}]

BrandRow == [default : BOOLEAN, logo : {"none", "raster"}]
TemplateRow == [type : Types, comparison : BOOLEAN, formats : SUBSET Formats,
                brand : Brands \cup {None}, live : BOOLEAN]
LinkRow == [of : Runs, expires : Int, revoked : BOOLEAN, opened : BOOLEAN]

\* None is no row, and a body of a template names what there may be.
AdminAssumption ==
    /\ None \notin BrandRow \cup TemplateRow \cup LinkRow /\ MaxTime \in Nat
    /\ TemplateBodies \subseteq
         [type : Types \cup {None}, comparison : {None, "null", "given"},
          formats : (SUBSET Formats) \cup {None}, brand : Brands \cup {None, "null"}]

TypeOK ==
    /\ \A b \in Brands : brand[b] # None =>
           brand[b] \in BrandRow
    /\ \A t \in Templates : template[t] # None =>
           template[t] \in TemplateRow
    /\ now \in 0..MaxTime

Init ==
    /\ brand = [b \in Brands |-> None]
    /\ template = [t \in Templates |-> None]
    /\ chosen = [t \in Templates |-> None]
    /\ schedule = [s \in Schedules |-> None]
    /\ run = [r \in Runs |-> None]
    /\ file = [p \in Runs \X Formats |-> "none"]
    /\ link = [k \in Links |-> None]
    /\ hits = [k \in Links |-> <<>>]
    /\ req = [q \in Requests |-> Idle]
    /\ now = 0 /\ writes = 0 /\ losses = 0

TimePasses ==
    /\ now < MaxTime
    /\ now' = now + 1
    /\ UNCHANGED <<rows, run, file, shares, req, writes, losses>>

Begins(q, at, id, copy, body) ==
    /\ req[q] = Idle /\ writes < MaxWrites
    /\ writes' = writes + 1
    /\ req' = [req EXCEPT ![q] = [at |-> at, id |-> id, copy |-> copy, body |-> body]]

Ends(q) == req' = [req EXCEPT ![q] = Idle]

-----------------------------------------------------------------------------
(* Brand profiles *)

\* The row a write leaves, and clearDefaultBrand in the same transaction.
Saved(b, profile) ==
    [c \in Brands |->
        IF c = b THEN profile
        ELSE IF brand[c] # None /\ profile.default THEN [brand[c] EXCEPT !.default = FALSE]
        ELSE brand[c]]

CreateBrand(b, default) ==
    /\ brand[b] = None /\ writes < MaxWrites
    /\ writes' = writes + 1
    /\ brand' = Saved(b, [default |-> default, logo |-> "none"])
    /\ UNCHANGED <<template, chosen, schedule, run, file, shares, req, now, losses>>

LoadBrand(q, b, body) ==
    /\ brand[b] # None
    /\ Begins(q, "brand", b, brand[b], body)
    /\ UNCHANGED <<rows, run, file, shares, now, losses>>

\* UpdateBrandProfile writes every column of the copy but the logo's.
WriteBrand(q) ==
    /\ req[q].at = "brand" /\ Ends(q)
    /\ LET b == req[q].id
           default == IF req[q].body.default = None THEN req[q].copy.default
                      ELSE req[q].body.default
       IN  brand' = IF brand[b] = None THEN brand
                    ELSE Saved(b, [default |-> default, logo |-> brand[b].logo])
    /\ UNCHANGED <<template, chosen, schedule, run, file, shares, now, writes, losses>>

\* SetBrandLogo writes the logo's columns only.  What the bytes do not show to
\* be a PNG or a JPEG of a megabyte at most is refused before it.
UploadLogo(b) ==
    /\ brand[b] # None /\ brand[b].logo = "none"
    /\ brand' = [brand EXCEPT ![b].logo = "raster"]
    /\ UNCHANGED <<template, chosen, schedule, run, file, shares, req, now, writes, losses>>

\* ON DELETE SET NULL would allow it.
MutInUse(b) == FALSE

\* DeleteBrandProfile counts the live templates in its transaction.
InUse(b) == {t \in Templates : Live(t) /\ template[t].brand = b} # {}

\* ON DELETE SET NULL reaches the templates that are not counted.
DeleteBrand(b) ==
    /\ brand[b] # None /\ ~InUse(b)
    /\ brand' = [brand EXCEPT ![b] = None]
    /\ template' = [t \in Templates |->
           IF template[t] # None /\ template[t].brand = b
           THEN [template[t] EXCEPT !.brand = None] ELSE template[t]]
    /\ UNCHANGED <<chosen, schedule, run, file, shares, req, now, writes, losses>>

-----------------------------------------------------------------------------
(* Templates *)

\* applyReportTemplate: absent fields are left alone, present ones replace.
Merged(t, body) ==
    [t EXCEPT !.type = IF body.type = None THEN @ ELSE body.type,
              !.comparison = IF body.comparison = None THEN @ ELSE body.comparison = "given",
              !.formats = IF body.formats = None THEN @ ELSE body.formats,
              !.brand = IF body.brand = None THEN @
                        ELSE IF body.brand = "null" THEN None ELSE body.brand]

\* ... and what it refuses of the whole it made, with the handlers' rule that
\* formats name at least one.
Coherent(t) ==
    /\ t.comparison <=> t.type = "comparative"
    /\ t.formats # {}

\* The foreign key: a brand that is gone makes the statement fail.
Referable(t) == t.brand \in {None} \cup {b \in Brands : brand[b] # None}

Blank == [type |-> "uptime", comparison |-> FALSE, formats |-> {}, brand |-> None, live |-> TRUE]

CreateTemplate(t, body) ==
    /\ template[t] = None /\ writes < MaxWrites
    /\ writes' = writes + 1
    /\ LET made == Merged(Blank, body) IN
       /\ Coherent(made) /\ Referable(made)
       /\ template' = [template EXCEPT ![t] = made]
       /\ chosen' = [chosen EXCEPT ![t] = made.brand]
    /\ UNCHANGED <<brand, schedule, run, file, shares, req, now, losses>>

\* GetReportTemplate, the merge and the validation, on the copy.
LoadTemplate(q, t, body) ==
    /\ Live(t) /\ Coherent(Merged(template[t], body))
    /\ Begins(q, "template", t, template[t], body)
    /\ UNCHANGED <<rows, run, file, shares, now, losses>>

\* UpdateReportTemplate rewrites the row wholesale.
Written(q) == Merged(req[q].copy, req[q].body)

WriteTemplate(q) ==
    /\ req[q].at = "template" /\ Ends(q)
    /\ LET t == req[q].id IN
       IF Live(t) /\ Referable(Written(q))
       THEN /\ template' = [template EXCEPT ![t] = Written(q)]
            /\ chosen' = [chosen EXCEPT ![t] = Written(q).brand]
       ELSE UNCHANGED <<template, chosen>>
    /\ UNCHANGED <<brand, schedule, run, file, shares, now, writes, losses>>

\* DeleteReportTemplate hides the row and its schedules in one transaction.
DeleteTemplate(t) ==
    /\ Live(t)
    /\ template' = [template EXCEPT ![t].live = FALSE]
    /\ schedule' = [s \in Schedules |->
           IF schedule[s] # None /\ schedule[s].of = t
           THEN [schedule[s] EXCEPT !.live = FALSE] ELSE schedule[s]]
    /\ UNCHANGED <<brand, chosen, run, file, shares, req, now, writes, losses>>

\* createReportSchedule: applySchedule looks for the template ...
LoadSchedule(q, s, t) ==
    /\ schedule[s] = None /\ Live(t)
    /\ Begins(q, "schedule", s, t, None)
    /\ UNCHANGED <<rows, run, file, shares, now, losses>>

\* ... and CreateReportSchedule inserts, whatever became of it.
WriteSchedule(q) ==
    /\ req[q].at = "schedule" /\ Ends(q)
    /\ schedule' = IF schedule[req[q].id] # None THEN schedule
                   ELSE [schedule EXCEPT ![req[q].id] = [of |-> req[q].copy, live |-> TRUE]]
    /\ UNCHANGED <<brand, template, chosen, run, file, shares, now, writes, losses>>

-----------------------------------------------------------------------------
(* Runs and their files, as the runner and the operator's disk leave them *)

Generate(r, t) ==
    /\ run[r] = None /\ Live(t)
    /\ run' = [run EXCEPT ![r] = t]
    /\ file' = [p \in DOMAIN file |->
           IF p[1] = r /\ p[2] \in template[t].formats THEN "rendered" ELSE file[p]]
    /\ UNCHANGED <<rows, shares, req, now, writes, losses>>

Loses(p) ==
    /\ file[p] = "rendered" /\ losses < MaxLosses
    /\ losses' = losses + 1
    /\ \E state \in {"expired", "missing"} : file' = [file EXCEPT ![p] = state]
    /\ UNCHANGED <<rows, run, shares, req, now, writes>>

\* artifactAvailable: rendered, and on disk.
Available(r) == {f \in Formats : file[<<r, f>>] = "rendered"}

-----------------------------------------------------------------------------
(* Share links *)

\* The partial unique index: a run has one link that is not revoked.
Unshared(r) == \A k \in Links : link[k] # None /\ link[k].of = r => link[k].revoked

\* createReportShareLink: an expiry must be ahead; the index answers a second
\* link with a conflict.  MaxTime + 1 is a link without an expiry.
Share(k, r, expires) ==
    /\ run[r] # None /\ link[k] = None /\ writes < MaxWrites
    /\ expires > now /\ Unshared(r)
    /\ writes' = writes + 1
    /\ link' = [link EXCEPT ![k] = [of |-> r, expires |-> expires, revoked |-> FALSE,
                                    opened |-> FALSE]]
    /\ UNCHANGED <<rows, run, file, hits, req, now, losses>>

Revoke(r) ==
    /\ ~Unshared(r)
    /\ link' = [k \in Links |->
           IF link[k] # None /\ link[k].of = r THEN [link[k] EXCEPT !.revoked = TRUE]
           ELSE link[k]]
    /\ UNCHANGED <<rows, run, file, hits, req, now, writes, losses>>

\* The limiter's instants still in the window.
Recent(k) == SelectSeq(hits[k], LAMBDA at : at > now - Window)

\* resolveShare's refusals: an unknown token, a withdrawn one, one past its time.
Open(k) == link[k] # None /\ ~link[k].revoked /\ link[k].expires > now

\* resolveShare: the limiter before the lookup, and the link as it is now.
Resolve(q, k) ==
    /\ req[q] = Idle
    /\ IF Len(Recent(k)) >= MaxRequests
       THEN hits' = [hits EXCEPT ![k] = Recent(k)] /\ UNCHANGED req
       ELSE /\ hits' = [hits EXCEPT ![k] = Append(Recent(k), now)]
            /\ IF Open(k)
               THEN req' = [req EXCEPT ![q] = [at |-> "share", id |-> k, copy |-> link[k],
                                               body |-> link[k].revoked \/ link[k].expires <= now]]
               ELSE UNCHANGED req
    /\ UNCHANGED <<rows, run, file, link, now, writes, losses>>

\* getPublicReport: nothing on offer is gone; otherwise the stored files, and
\* the link is touched by its id.
ShowReport(q) ==
    /\ req[q].at = "share"
    /\ LET k == req[q].id IN
       link' = IF Available(req[q].copy.of) = {} THEN link
               ELSE [link EXCEPT ![k].opened = TRUE]
    /\ Ends(q)
    /\ UNCHANGED <<rows, run, file, hits, now, writes, losses>>

\* downloadPublicReport leaves no trace.
Download(q) ==
    /\ req[q].at = "share" /\ Ends(q)
    /\ UNCHANGED <<rows, run, file, shares, now, writes, losses>>

-----------------------------------------------------------------------------

BrandStep ==
    \E b \in Brands :
        \/ \E d \in BOOLEAN : CreateBrand(b, d)
        \/ \E q \in Requests, body \in BrandBodies : LoadBrand(q, b, body)
        \/ UploadLogo(b) \/ DeleteBrand(b)

TemplateStep ==
    \E t \in Templates :
        \/ \E body \in TemplateBodies : CreateTemplate(t, body)
        \/ \E q \in Requests, body \in TemplateBodies : LoadTemplate(q, t, body)
        \/ \E q \in Requests, s \in Schedules : LoadSchedule(q, s, t)
        \/ \E r \in Runs : Generate(r, t)
        \/ DeleteTemplate(t)

ShareStep ==
    \/ \E k \in Links, r \in Runs, e \in {1, MaxTime + 1} : Share(k, r, e)
    \/ \E r \in Runs : Revoke(r)
    \/ \E q \in Requests, k \in Links : Resolve(q, k)
    \/ \E p \in DOMAIN file : Loses(p)

Next ==
    \/ TimePasses
    \/ BrandStep \/ TemplateStep \/ ShareStep
    \/ \E q \in Requests : WriteBrand(q) \/ WriteTemplate(q) \/ WriteSchedule(q)
                           \/ ShowReport(q) \/ Download(q)

Spec == Init /\ [][Next]_vars

-----------------------------------------------------------------------------
(* Properties *)

Default(b) == brand[b] # None /\ brand[b].default

\* A live template keeps the brand its last write named, whichever requests
\* delete profiles meanwhile, and at most one profile is the default
\* (report_brands.go, DeleteBrandProfile and clearDefaultBrand).
BrandsStay ==
    /\ \A t \in Templates : Live(t) => template[t].brand = chosen[t]
    /\ \A t \in Templates : template[t] # None => Referable(template[t])
    /\ \A b, c \in Brands : Default(b) /\ Default(c) => b = c

\* Two PATCHes that each make sense leave a template that makes sense: a
\* comparison exactly when its type reads one, and a format to render
\* (applyReportTemplate with UpdateReportTemplate's whole row).
TemplatesRender ==
    \A t \in Templates : template[t] # None =>
        /\ template[t].comparison = (template[t].type = "comparative")
        /\ template[t].formats # {}

\* A run has one link that is not withdrawn, and a client is let through only by
\* a link that was neither withdrawn nor past its time (report_shares.go).
SharesEnd ==
    /\ \A j, k \in Links :
           /\ link[j] # None /\ link[k] # None /\ link[j].of = link[k].of
           /\ ~link[j].revoked /\ ~link[k].revoked
           => j = k
    /\ \A q \in Requests : req[q].at = "share" => ~req[q].body

\* "one left enabled would keep firing -- a deleted report that keeps arriving
\* in a client's inbox is worse" (report_templates.go, DeleteReportTemplate).
DeletedReportsStop ==
    \A s \in Schedules : schedule[s] # None /\ schedule[s].live => Live(schedule[s].of)
=============================================================================

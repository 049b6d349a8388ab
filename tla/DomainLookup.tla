---------------------------- MODULE DomainLookup ----------------------------
(***************************************************************************)
(* The domain_expiry checker (probe/check/domainexpiry.go): a registration *)
(* is read from RDAP or WHOIS at most now and then, and the answer shared  *)
(* by every monitor of the domain.                                         *)
(*                                                                         *)
(* The cache is read under the mutex, the registry asked without it, and   *)
(* the record stored under it again.  A tick is an hour; no attempt spans  *)
(* more than one.  The text of RDAP and WHOIS answers is left out but for  *)
(* what is found in it: a date, a refusal to know the name, or nothing.    *)
(***************************************************************************)
EXTENDS Integers, FiniteSets

CONSTANTS
    Domains, Attempts,
    Day,          \* registryInterval and bootstrapLifetime, in ticks
    Hour,         \* failureInterval
    PruneAfter,
    MaxTime,      \* bound: the clock
    MaxChanges,   \* bound: what registrants do
    Threshold,    \* days_remaining_threshold, in ticks
    None

DomainAssumption ==
    /\ Hour \in Nat \ {0} /\ Day \in Nat /\ Day > Hour /\ PruneAfter >= Day
    /\ MaxTime \in Nat /\ MaxChanges \in Nat /\ Threshold \in Int

VARIABLES
    registered,   \* what the registry holds: an expiry, or None
    changes,
    now,
    cache,        \* domainRecord of each domain
    table,        \* when the bootstrap table was read, or None
    at            \* attempts: None, or [domain, source, began, step, record]

vars == <<registered, changes, now, cache, table, at>>

\* read is a ghost: when the registry was asked.
NoAnswer == [kind |-> "error", expiry |-> 0, read |-> now]
FromRegistry(d) == IF registered[d] = None THEN [kind |-> "free", expiry |-> 0, read |-> now]
                   ELSE [kind |-> "date", expiry |-> registered[d], read |-> now]

Kinds   == {"error", "free", "date"}
Answer  == [kind : Kinds, expiry : Int, read : 0 .. MaxTime]
Record  == [kind : Kinds, expiry : Int, read : 0 .. MaxTime, fetchedAt : 0 .. MaxTime]
Attempt == [domain : Domains, source : {"auto", "rdap", "whois"}, began : 0 .. MaxTime,
            step : {"services", "rdap", "whois", "store", "verdict"},
            record : Answer \cup Record \cup {None}]

\* Every variable has its type.
TypeOK ==
    /\ registered \in [Domains -> Int \cup {None}]
    /\ now \in 0 .. MaxTime /\ changes \in 0 .. MaxChanges
    /\ cache \in [Domains -> Record \cup {None}]
    /\ table \in 0 .. MaxTime \cup {None}
    /\ at \in [Attempts -> Attempt \cup {None}]

Init ==
    /\ registered = [d \in Domains |-> 2] /\ changes = 0 /\ now = 0
    /\ cache = [d \in Domains |-> None] /\ table = None /\ at = [a \in Attempts |-> None]

MutFresh(entry) == now - entry.fetchedAt < Day

\* A day for an answer, whatever it was, and an hour for none.
Fresh(entry) == now - entry.fetchedAt < IF entry.kind = "error" THEN Hour ELSE Day

\* lookup, up to the fetch: the key is the domain alone.
Lookup(a) ==
    /\ at[a] = None
    /\ \E d \in Domains, source \in {"auto", "rdap", "whois"} :
        at' = [at EXCEPT ![a] =
            IF cache[d] # None /\ Fresh(cache[d])
            THEN [domain |-> d, source |-> source, began |-> now, step |-> "verdict", record |-> cache[d]]
            ELSE [domain |-> d, source |-> source, began |-> now, record |-> None,
                  step |-> IF source = "whois" THEN "whois" ELSE "services"]]
    /\ UNCHANGED <<registered, changes, now, cache, table>>

\* fetch, after RDAP: an answer ends it, a failure goes to WHOIS unless only
\* RDAP was asked for.
AfterRdap(a, answer) ==
    at' = [at EXCEPT ![a] =
        IF answer.kind # "error" \/ @.source = "rdap" THEN [@ EXCEPT !.step = "store", !.record = answer]
        ELSE [@ EXCEPT !.step = "whois"]]

\* rdapServices: the table is kept for a day; a failure to read it is RDAP's.
RdapServices(a) ==
    /\ at[a] # None /\ at[a].step = "services"
    /\ IF table # None /\ now - table < Day
       THEN at' = [at EXCEPT ![a].step = "rdap"] /\ UNCHANGED table
       ELSE \/ at' = [at EXCEPT ![a].step = "rdap"] /\ table' = now
            \/ AfterRdap(a, NoAnswer) /\ UNCHANGED table
    /\ UNCHANGED <<registered, changes, now, cache>>

\* viaRDAP: a 404 is an answer about the name, everything else unreadable is none.
ViaRDAP(a) ==
    /\ at[a] # None /\ at[a].step = "rdap"
    /\ \E answer \in {FromRegistry(at[a].domain), NoAnswer} : AfterRdap(a, answer)
    /\ UNCHANGED <<registered, changes, now, cache, table>>

\* viaWHOIS: the root, the registry and a referral are one answer or none.
ViaWHOIS(a) ==
    /\ at[a] # None /\ at[a].step = "whois"
    /\ \E answer \in {FromRegistry(at[a].domain), NoAnswer} :
           at' = [at EXCEPT ![a].step = "store", ![a].record = answer]
    /\ UNCHANGED <<registered, changes, now, cache, table>>

\* The record is as old as the attempt that read it.
Stamped(a) == at[a].began

\* lookup, after the fetch: the record goes in, and what nobody has asked about
\* for two days goes out.
Store(a) ==
    /\ at[a] # None /\ at[a].step = "store"
    /\ LET record == [kind |-> at[a].record.kind, expiry |-> at[a].record.expiry,
                      read |-> at[a].record.read, fetchedAt |-> Stamped(a)] IN
       /\ cache' = [d \in Domains |->
                       IF d = at[a].domain THEN record
                       ELSE IF cache[d] # None /\ at[a].began - cache[d].fetchedAt > PruneAfter THEN None
                       ELSE cache[d]]
       /\ at' = [at EXCEPT ![a].step = "verdict", ![a].record = record]
    /\ UNCHANGED <<registered, changes, now, table>>

\* The days are counted when the verdict is given, never when the record was read.
Verdict(a) ==
    LET record == at[a].record IN
    IF record.kind = "error" THEN "unknown"
    ELSE IF record.kind = "free" \/ record.expiry - now <= Threshold THEN "down"
    ELSE "up"
Concludes(a) ==
    /\ at[a] # None /\ at[a].step = "verdict"
    /\ at' = [at EXCEPT ![a] = None]
    /\ UNCHANGED <<registered, changes, now, cache, table>>

\* The registrant renews, or lets the name go.
Registrant ==
    /\ changes < MaxChanges /\ changes' = changes + 1
    /\ \E d \in Domains : \E v \in {None, now + 1, MaxTime + Threshold + 1} :
           v # registered[d] /\ registered' = [registered EXCEPT ![d] = v]
    /\ UNCHANGED <<now, cache, table, at>>

\* The scheduler's timeout is far below the hour: an attempt sees one tick at most.
Tick ==
    /\ now < MaxTime /\ now' = now + 1
    /\ \A a \in Attempts : at[a] # None => at[a].began = now
    /\ UNCHANGED <<registered, changes, cache, table, at>>

Next ==
    \/ Registrant \/ Tick
    \/ \E a \in Attempts : Lookup(a) \/ RdapServices(a) \/ ViaRDAP(a) \/ ViaWHOIS(a) \/ Store(a) \/ Concludes(a)

Spec == Init /\ [][Next]_vars

-----------------------------------------------------------------------------
(* Whoever gives a verdict, and whoever read the registry for it, what it     *)
(* says was true less than a day before (an hour, when nothing could be       *)
(* read): two attempts that overlap, the older storing last, included.        *)
AnswersAreFresh ==
    \A a \in Attempts :
        at[a] # None /\ at[a].step = "verdict" =>
            at[a].began - at[a].record.read < IF Verdict(a) = "unknown" THEN Hour ELSE Day

(* registryInterval: "no more than one registry lookup a day per domain".     *)
OneLookupADay ==
    \A a, b \in Attempts :
        a # b /\ at[a] # None /\ at[b] # None /\ at[a].domain = at[b].domain
            => ~(at[a].step \in {"rdap", "whois"} /\ at[b].step \in {"rdap", "whois"})
=============================================================================

------------------------------ MODULE Lookups -------------------------------
(***************************************************************************)
(* What a probe finds out: the registrations it looks up (DomainLookup)    *)
(* and what its checkers conclude (Checks), under the names by which the   *)
(* probing runs and the proofs refer to them. The two share no variable.   *)
(***************************************************************************)
EXTENDS Integers, FiniteSets

CONSTANTS
    Domains, Attempts, Day, Hour, PruneAfter, MaxTime, MaxChanges, Threshold,
    Timeout,        \* of one attempt
    None            \* no value

VARIABLES
    registered, changes, now, cache, table, at,
    job, ctx, left, sockets, out

Lookup   == INSTANCE DomainLookup
Checkers == INSTANCE Checks WITH Budget <- Timeout

ASSUME ChecksAssumption == Checkers!ChecksAssumption

\* A conclusion rests on an answer no older than the lifetime of its kind
\* (domain.go).
AnswersAreFresh == Lookup!AnswersAreFresh

\* "A failure of the target is down, a failure of the probe is unknown"
\* (http.go, classify): whichever checker concludes.
VerdictIsRight == Checkers!VerdictIsRight
=============================================================================

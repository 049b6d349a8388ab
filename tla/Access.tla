------------------------------- MODULE Access -------------------------------
(***************************************************************************)
(* What the console administers beside the monitors: who may use the API,  *)
(* which is the accounts with their second factor (Account) and the keys   *)
(* they issue (ApiKeys), when alerts are withheld (MaintenanceWindows) and *)
(* what comes in from elsewhere (KumaImport), under the names by which the *)
(* console's run and the proofs refer to them. The first two share their   *)
(* clients.                                                                *)
(***************************************************************************)
EXTENDS Naturals, FiniteSets

CONSTANTS
    Callers,        \* requests being served at once
    Absent,         \* no value
    LastInstant,    \* bound: the clocks
    Emails, TotpSecrets, CodesIssued, MaxConfirmations, LoginAttempts, LoginWindow,
    SessionLifetime,
    Keys, Scopes, KeyWrite, ScopeSets,
    WindowIds, Silenceable, WindowTargets, WindowWriters, WindowBodies, WindowCovers,
    DayTicks, DaysAhead, LongestWindow, WeekdayOf, MonthdayOf,
    WindowsEnd, WindowsWrites, WindowsMoves, SweepFailures,
    KumaUploads, ConflictStrategies, InstalledRows, RowsMeanwhile, TagSlug(_),
    LastSuffix, KumaJobs, WritesMeanwhile, KumaFailures

VARIABLES
    accountsNow, users, instance, codes, sessions, attempts, accountsReq,
    issued, proven, admitted,
    keysNow, keys, keysReq, granted, dead,
    windowsNow, windowRows, windowsUsed, matched, targetsLeft, silenced, windowsReq,
    windowsSweep, windowsWritten, windowsMoved, sweepsFailed, windowsRaced, sweepQuiet,
    kumaRows, kumaRunning, kumaPass, kumaJobs, kumaOutside, kumaFailed

Accounts == INSTANCE Account WITH
    now <- accountsNow, req <- accountsReq, Requests <- Callers, None <- Absent,
    Secrets <- TotpSecrets, MaxAttempts <- LoginAttempts,
    MaxNow <- LastInstant
ApiKey == INSTANCE ApiKeys WITH
    now <- keysNow, req <- keysReq, Requests <- Callers, None <- Absent,
    Bodies <- ScopeSets, MaxNow <- LastInstant
Windows == INSTANCE MaintenanceWindows WITH
    now <- windowsNow, window <- windowRows, used <- windowsUsed, exists <- targetsLeft,
    req <- windowsReq, sweep <- windowsSweep, writes <- windowsWritten,
    moves <- windowsMoved, failures <- sweepsFailed, raced <- windowsRaced,
    quiet <- sweepQuiet,
    Windows <- WindowIds, Monitors <- Silenceable, Targets <- WindowTargets,
    Requests <- WindowWriters, Bodies <- WindowBodies, Covers0 <- WindowCovers,
    None <- Absent, Day <- DayTicks, Lookahead <- DaysAhead,
    MaxDuration <- LongestWindow, Weekday <- WeekdayOf, DayOfMonth <- MonthdayOf,
    MaxTime <- WindowsEnd, MaxWrites <- WindowsWrites, MaxMoves <- WindowsMoves,
    MaxFailures <- SweepFailures
Import == INSTANCE KumaImport WITH
    rows <- kumaRows, running <- kumaRunning, pass <- kumaPass, jobs <- kumaJobs,
    outside <- kumaOutside, failures <- kumaFailed,
    Uploads <- KumaUploads, Strategies <- ConflictStrategies,
    Installed <- InstalledRows, OutsideRows <- RowsMeanwhile, SlugOf <- TagSlug,
    MaxSuffix <- LastSuffix, MaxJobs <- KumaJobs, MaxOutside <- WritesMeanwhile,
    MaxFailures <- KumaFailures, None <- Absent

ASSUME WindowsAssumption == Windows!MaintenanceWindowsAssumption
ASSUME ImportAssumption == Import!KumaImportAssumption

\* Sign-in asks for a second factor only when its owner has shown a code
\* for the secret that is stored (handlers_auth.go, confirmTOTP).
FactorWasProven == Accounts!FactorWasProven

\* No chain of keys made and edited by keys reaches further than a signed-
\* in user granted (handlers_keys.go).
NoKeyOutgrowsItsGrant == ApiKey!NoKeyOutgrowsItsGrant

\* A sweep that nothing overlapped leaves under maintenance exactly the
\* monitors whose windows were running (sweep.go).
SuppressionFollowsSchedules == Windows!SuppressionFollowsSchedules

\* An import reports every row of its files, and what it says it wrote is
\* what it wrote (kuma/import.go).
ReportIsTrue == Import!ReportIsTrue
=============================================================================

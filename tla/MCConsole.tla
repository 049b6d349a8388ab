----------------------------- MODULE MCConsole ------------------------------
(***************************************************************************)
(* The API that configures the instance: accounts and their second factor  *)
(* (Account), API keys (ApiKeys), maintenance windows (MaintenanceWindows) *)
(* and the import from Uptime Kuma (KumaImport), these four through        *)
(* Access, and monitors, groups and tags (MonitorConfig). A behaviour      *)
(* takes the steps of one component, and the others keep their initial     *)
(* state.                                                                  *)
(***************************************************************************)
EXTENDS MonitorConfig, Access, Sequences, TLC

CONSTANTS
    Parts,   \* the components whose behaviours a run explores
    r1, r2, email, s1, s2, k1, k2, m1, m2, g1, g2, label, channel, operator,
    window1, wm1, wm2, target1, target2

VARIABLES
    part     \* the component whose steps this behaviour takes

AllScopes == {"api_keys", "monitors"} \X {"read", "write"}
KeysWrite == <<"api_keys", "write">>
ScopeRequests ==
    {{<<"api_keys", "write">>}, {<<"api_keys", "write">>, <<"monitors", "read">>},
     {<<"monitors", "write">>}}

\* Windows: one body of each strategy, a reschedule, and a change of targets.
WindowBody(plan, suppress, targets, pages) ==
    [plan |-> plan, suppress |-> suppress, targets |-> targets, pages |-> pages]
One(v) == {[star |-> FALSE, from |-> v, to |-> v, step |-> 1]}
Recurrence(weekdays, monthdays, cron, until) ==
    [weekdays |-> weekdays, monthdays |-> monthdays, cron |-> cron, until |-> until]
PlannedBodies ==
    {WindowBody([strategy |-> "single", starts |-> 2, ends |-> 4], None, {target1}, TRUE),
     WindowBody([strategy |-> "daily", starts |-> 1, duration |-> 2], TRUE,
                {target1, target2}, None),
     WindowBody([strategy |-> "cron", starts |-> 0, duration |-> 1,
                 recurrence |-> Recurrence({}, {},
                     [dom |-> One(3), dow |-> One(1), clocks |-> {0, 1}], None)],
                None, {target2}, None),
     WindowBody([strategy |-> "weekly"], FALSE, {target2}, None),
     WindowBody([starts |-> 3, recurrence |-> Recurrence({0}, {3}, None, 4)], None, None, None)}
PlannedCovers == (target1 :> {wm1}) @@ (target2 :> {wm1, wm2})
MCWeekday    == [d \in 0..9 |-> d % 2]
MCDayOfMonth == [d \in 0..9 |-> IF d % 5 < 2 THEN (d % 5) + 1 ELSE (d % 5) - 1]

\* Imports: files that share names and slugs, one whose rows are refused, one
\* that does not open; and an instance that has some of the names.
ImportSlug(n) == IF n[1][1] = "b" THEN <<<<"a", n[1][2]>>, n[2]>> ELSE n
ImportTag(name, values) == [name |-> name, values |-> values]
ImportChannel(name, provider, fields, accepted) ==
    [name |-> name, provider |-> provider, fields |-> fields, accepted |-> accepted]
ImportMonitor(name, type, under, labels, channels, token) ==
    [name |-> name, type |-> type, host |-> TRUE, url |-> "http", parent |-> under,
     tags |-> labels, channels |-> channels, accepted |-> TRUE, token |-> token, beats |-> {1}]
ImportFile(labels, channels, checks, pages) ==
    [opens |-> TRUE, tags |-> labels, channels |-> channels, monitors |-> checks,
     pages |-> pages]
FirstFile ==
    ImportFile(<<ImportTag("a", <<"", "x">>)>>,
               <<ImportChannel("c", "telegram", {"bot_token", "chat_id"}, TRUE)>>,
               <<ImportMonitor("m", "http", 0, {<<1, "x">>}, {1}, None)>>,
               <<[slug |-> "s", sections |-> <<{1}, {1, 2}>>]>>)
SecondFile ==
    ImportFile(<<>>, <<>>, 
               <<ImportMonitor("g", "group", 0, {}, {}, None),
                 ImportMonitor("m", "push", 1, {<<1, "y">>}, {1}, "t")>>, <<>>)
RefusedFile ==
    ImportFile(<<ImportTag("b", <<"">>), ImportTag("", <<>>)>>,
               <<ImportChannel("d", "slack", {"webhook_url"}, FALSE),
                 ImportChannel("e", "gotify", {"server_url"}, TRUE)>>,
               <<ImportMonitor("n", "mqtt", 0, {}, {1}, None)>>, <<>>)
ClosedFile == [ImportFile(<<>>, <<>>, <<>>, <<>>) EXCEPT !.opens = FALSE]
ImportUploads == {<<FirstFile>>, <<RefusedFile, SecondFile, ClosedFile>>}
ImportRow(kind, name) ==
    [kind |-> kind, name |-> name, from |-> None, job |-> 0, group |-> None, tags |-> {},
     channels |-> {}, token |-> None, members |-> <<>>, beats |-> {}]
ImportInstalled ==
    <<ImportRow("tag", <<<<"a", "">>, 1>>), ImportRow("monitor", <<"m", 1>>),
      ImportRow("page", <<"s", 1>>)>>
ImportMeanwhile == {<<"channel", <<"c", 1>>>>}

\* Requests and API keys are interchangeable.
Symmetry == Permutations({r1, r2}) \cup Permutations({k1, k2})

-----------------------------------------------------------------------------
(* The components *)

ASSUME MonitorConfigAssumption
ASSUME ApiKey!ApiKeysAssumption
ASSUME Accounts!AccountAssumption

accountsVars == <<accountsNow, users, instance, codes, sessions, attempts,
                  accountsReq, issued, proven, admitted>>
keysVars == <<keysNow, keys, keysReq, granted, dead>>
windowsVars == <<windowsNow, windowRows, windowsUsed, matched, targetsLeft,
                 silenced, windowsReq, windowsSweep, windowsWritten,
                 windowsMoved, sweepsFailed, windowsRaced, sweepQuiet>>
importVars == <<kumaRows, kumaRunning, kumaPass, kumaJobs, kumaOutside, kumaFailed>>

AnyVars == <<part, vars, accountsVars, keysVars, windowsVars, importVars>>

AnyInit ==
    /\ part \in Parts
    /\ Init
    /\ Accounts!Init
    /\ ApiKey!Init
    /\ Windows!Init
    /\ Import!Init

ConfigStep ==
    /\ part = "config" /\ Next
    /\ UNCHANGED <<part, accountsVars, keysVars, windowsVars, importVars>>

AccountsStep ==
    /\ part = "accounts" /\ Accounts!Next
    /\ UNCHANGED <<part, vars, keysVars, windowsVars, importVars>>

ApiKeyStep ==
    /\ part = "keys" /\ ApiKey!Next
    /\ UNCHANGED <<part, vars, accountsVars, windowsVars, importVars>>

WindowsStep ==
    /\ part = "windows" /\ Windows!Next
    /\ UNCHANGED <<part, vars, accountsVars, keysVars, importVars>>

ImportStep ==
    /\ part = "import" /\ Import!Next
    /\ UNCHANGED <<part, vars, accountsVars, keysVars, windowsVars>>

AnyNext ==
    \/ ConfigStep \/ AccountsStep \/ ApiKeyStep \/ WindowsStep \/ ImportStep

AnySpec == AnyInit /\ [][AnyNext]_AnyVars
=============================================================================

----------------------------- MODULE MCAlerting -----------------------------
(***************************************************************************)
(* What a verdict sets off: alerts to channels (AlertDispatch), the        *)
(* maintenance sweep that withholds them (MonitorState), the channels      *)
(* themselves (Channels) and outbound webhooks (Webhooks), the last two    *)
(* through Outgoing. A behaviour takes the steps of one component, and the *)
(* others keep one of their initial states.                                *)
(*                                                                         *)
(* One event for two channels, over a queue of one, with a toggle or a     *)
(* test of a channel, a store error and a stop; two ingests, a redelivery, *)
(* a pause and two turns of a window over a router and the service behind  *)
(* it.                                                                     *)
(***************************************************************************)
EXTENDS AlertDispatch, Outgoing, TLC

CONSTANTS
    Parts,   \* the components whose behaviours a run explores
    None, w1, w2, h1, e1, e2, q1, q2, c1, c2, router, service

VARIABLES
    part,    \* the component whose steps this behaviour takes
    monitorsRow, enabled, beats, alerts, checks, delivered, manual,
    monitorsResends, window, sweep, under, turns, pc, todo, seen, made,
    raised, unsaved, abandons, toggles, forgotten

MCParent  == [m \in {router, service} |-> IF m = service THEN router ELSE None]
MCRetries == [m \in {router, service} |-> IF m = service THEN 1 ELSE 0]

\* Channels: every combination rule, and bodies that name a part of the fields.
ChannelBody(type, config) ==
    [type |-> type, config |-> config, enabled |-> TRUE, events |-> {"monitor.down"}]
ChannelBodies ==
    {ChannelBody("apprise", [urls |-> <<"u1", "u2">>]),
     ChannelBody("webhook", [url |-> <<"a">>, headers |-> <<"h">>, body_template |-> <<"x">>]),
     ChannelBody("webhook", [method |-> <<"GET">>, url |-> <<"a">>, body_template |-> None]),
     ChannelBody("ntfy", [topic |-> <<"a">>, auth_type |-> <<"basic">>, username |-> <<"u">>,
                          password |-> <<"p">>]),
     ChannelBody("ntfy", [password |-> None, token |-> <<"k">>, auth_type |-> <<"token">>]),
     ChannelBody("email", [to |-> <<"a", "b">>, use_instance_smtp |-> <<"false">>,
                           smtp_host |-> <<"h">>, from_address |-> <<"f">>,
                           smtp_password |-> <<"p">>]),
     ChannelBody("email", [to |-> <<"a">>, smtp_host |-> None, smtp_password |-> <<"bad">>]),
     [ChannelBody("email", [to |-> <<"b">>]) EXCEPT !.enabled = None]}
ChannelWords == {"u1", "u2", "a", "b", "h", "x", "GET", "basic", "u", "p", "k", "token",
                 "false", "f", "bad", "__redacted__"}
ChannelEchoes ==
    {[drop |-> {}, add |-> [f \in {} |-> None]],
     [drop |-> {"urls", "password"}, add |-> [f \in {} |-> None]]}

-----------------------------------------------------------------------------
(* The components *)

Monitor == INSTANCE MonitorState WITH
    row <- monitorsRow, resends <- monitorsResends,
    Monitors <- {router, service}, NoMonitor <- None, Parent <- MCParent,
    Retries <- MCRetries, MaxDepth <- 2, ResendAfter <- 0,
    NotifyRecovery <- TRUE, Writers <- {w1, w2}, BatchMax <- 2,
    MaxChecks <- 1, MaxManual <- 0, MaxResends <- 1, MaxAbandons <- 0,
    MaxToggles <- 1, MaxWindows <- 2

ASSUME AlertDispatchAssumption
ASSUME Outbound!WebhooksAssumption

monitorsVars == <<monitorsRow, enabled, beats, alerts, checks, delivered,
                  manual, monitorsResends, window, sweep, under, turns, pc,
                  todo, seen, made, raised, unsaved, abandons, toggles,
                  forgotten>>
channelsVars == <<channelsRow, used, req, smtp, apprise, writes, sends,
                  switches>>
hooksVars == <<hook, fan, hooksQueue, worker, hooksTimers, edit, replay,
               hooksLog, hooksStops, edits, hooksResends, streak, stale>>

AnyVars == <<part, vars, monitorsVars, channelsVars, hooksVars>>

AnyInit ==
    /\ part \in Parts
    /\ Init
    /\ Monitor!Init
    /\ Senders!Init /\ (part # "channels" => ~smtp /\ ~apprise)
    /\ Outbound!Init

AlertsStep ==
    /\ part = "alerts" /\ Next
    /\ UNCHANGED <<part, monitorsVars, channelsVars, hooksVars>>

MonitorStep ==
    /\ part = "monitors" /\ Monitor!Next
    /\ UNCHANGED <<part, vars, channelsVars, hooksVars>>

SendersStep ==
    /\ part = "channels" /\ Senders!Next
    /\ UNCHANGED <<part, vars, monitorsVars, hooksVars>>

OutboundStep ==
    /\ part = "hooks" /\ Outbound!Next
    /\ UNCHANGED <<part, vars, monitorsVars, channelsVars>>

AnyNext ==
    \/ AlertsStep \/ MonitorStep \/ SendersStep \/ OutboundStep

AnySpec == AnyInit /\ [][AnyNext]_AnyVars

\* The fairness of the component that runs, as its module states it.
AnyFairSpec ==
    /\ AnySpec
    /\ \A w \in Workers : WF_vars(part = "alerts" /\ (Take(w) \/ Resolve(w) \/ Attempt(w)))
    /\ WF_vars(part = "alerts" /\ (\E j \in timers : RetryFires(j)))
    /\ WF_monitorsVars(part = "monitors" /\ Monitor!SweepResolve)
    /\ WF_monitorsVars(part = "monitors" /\ Monitor!SweepApply)
    /\ \A w \in {w1, w2} : WF_monitorsVars(part = "monitors" /\ Monitor!Ingest(w))

-----------------------------------------------------------------------------
(* Properties *)

\* A monitor whose window closed leaves maintenance (sweep.go,
\* MaintenanceSweep).
MaintenanceEnds == Monitor!MaintenanceEnds
=============================================================================

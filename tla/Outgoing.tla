------------------------------ MODULE Outgoing ------------------------------
(***************************************************************************)
(* What leaves the instance when it has something to tell: the             *)
(* notification channels it is told through (Channels) and its outbound    *)
(* webhooks (Webhooks), under the names by which the alerting run and the  *)
(* proofs refer to them. The two share no variable.                        *)
(***************************************************************************)
EXTENDS Naturals, FiniteSets, Sequences

CONSTANTS
    Hooks,          \* subscriptions
    Occurrences,    \* the events that are fanned out
    HookWorkers,    \* the goroutines that send
    HookDepth,      \* the capacity of the queue
    HookAttempts, MaxFailures, MaxHookStops, MaxEdits, MaxHookResends,
    NoHook,         \* no value
    Destinations,   \* notification channels
    Patches,        \* PATCH requests under way at once
    Drafts,         \* bodies of requests for channels
    Echoes,         \* what a client makes of a channel it read
    Words,          \* what an item of a setting may say
    MaxChannelWrites, MaxChannelSends, MaxSwitches

VARIABLES
    hook, fan, hooksQueue, worker, hooksTimers, edit, replay, hooksLog,
    hooksStops, edits, hooksResends, streak, stale,
    channelsRow, used, req, smtp, apprise, writes, sends, switches

Outbound == INSTANCE Webhooks WITH
    queue <- hooksQueue, timers <- hooksTimers, log <- hooksLog,
    stops <- hooksStops, resends <- hooksResends, Events <- Occurrences,
    Workers <- HookWorkers, QueueDepth <- HookDepth, MaxAttempts <- HookAttempts,
    MaxStops <- MaxHookStops, MaxResends <- MaxHookResends, None <- NoHook
Senders == INSTANCE Channels WITH
    row <- channelsRow, Channels <- Destinations, Requests <- Patches,
    Bodies <- Drafts, MaxWrites <- MaxChannelWrites,
    MaxSends <- MaxChannelSends, None <- NoHook

ASSUME ChannelsAssumption == Senders!ChannelsAssumption

\* An event is with one holder at a time for each subscription, and the
\* dispatcher does not send it again after a success (outbound.go).
OneAttemptAtATime == Outbound!OneAttemptAtATime

\* A read shows no hidden value, and a client that sends back what it read
\* changes nothing (notify/config.go).
ReadsAreSafe == Senders!ReadsAreSafe
=============================================================================

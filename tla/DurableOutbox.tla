---------------------------- MODULE DurableOutbox ----------------------------
(***************************************************************************)
(* What the probe's buffer and the result stream promise together          *)
(* (docs/probe/protocol.md, 7.2 and 7.3): a result waits at the probe      *)
(* until the control plane has stored or refused it, and only a result     *)
(* that changes nothing may be given up before.  Frames, cursors,          *)
(* acknowledgements and reconnects are below this level.                   *)
(***************************************************************************)
CONSTANT Results   \* every result that may be emitted

VARIABLES
    known,      \* results ever emitted
    waiting,    \* results the probe still holds
    history,    \* results stored by the control plane
    refused,    \* results the control plane refused for good
    important   \* results whose outcome differs from the one before

vars == <<known, waiting, history, refused, important>>

Init ==
    known = {} /\ waiting = {} /\ history = {} /\ refused = {} /\ important = {}

Produce ==
    \E r \in Results \ known :
        /\ known' = known \cup {r}
        /\ waiting' = waiting \cup {r}
        /\ important' \in {important, important \cup {r}}
        /\ UNCHANGED <<history, refused>>

\* The control plane may be handed a result again after storing it.
Settle ==
    /\ \E stored, turnedAway \in SUBSET known :
          /\ history' = history \cup stored
          /\ refused' = refused \cup turnedAway
    /\ UNCHANGED <<known, waiting, important>>

\* The probe forgets a result the control plane has dealt with.
Release ==
    \E r \in waiting :
        /\ r \in history \cup refused
        /\ waiting' = waiting \ {r}
        /\ UNCHANGED <<known, history, refused, important>>

\* Under pressure the probe gives up a result that changes nothing.
GiveUp ==
    \E r \in waiting :
        /\ r \notin important
        /\ waiting' = waiting \ {r}
        /\ UNCHANGED <<known, history, refused, important>>

Next == Produce \/ Settle \/ Release \/ GiveUp

Spec == Init /\ [][Next]_vars
=============================================================================

------------------------------ MODULE ApiKeys ------------------------------
(***************************************************************************)
(* API keys and scopes (internal/api/auth.go and handlers_keys.go,         *)
(* internal/auth/scope.go, the api_keys of store/sqlite/identity.go).      *)
(*                                                                         *)
(* A request is authenticated once, when it arrives, and its principal is  *)
(* a copy: the key behind it may be edited, revoked or expire before the   *)
(* handler writes.  A scope is a <<resource, "read" or "write">> pair; an  *)
(* unknown one is refused before anything is read.                         *)
(***************************************************************************)
EXTENDS Naturals, FiniteSets

CONSTANTS
    Requests,       \* requests being served at once
    Keys,           \* key ids
    Scopes,         \* AllScopes
    KeyWrite,       \* api_keys:write, which the key endpoints require
    Bodies,         \* the sets of scopes that requests ask for
    MaxNow, None

VARIABLES
    now,
    keys,       \* the rows, by id: None before the key is created
    req,        \* what each request is doing, with its principal and its copies
    granted,    \* ghost: scopes signed-in users have put on keys
    dead        \* ghost: keys that have been revoked

vars == <<now, keys, req, granted, dead>>

Forever == MaxNow + 1
Key     == [scopes : SUBSET Scopes, expires : 1 .. Forever, revoked : BOOLEAN]
Idle    == [pc |-> "idle", user |-> FALSE, held |-> {}, key |-> None, row |-> None]

ApiKeysAssumption ==
    /\ Bodies \subseteq SUBSET Scopes /\ MaxNow \in Nat
    /\ None \notin Key

TypeOK ==
    /\ now \in 0 .. MaxNow
    /\ keys \in [Keys -> Key \cup {None}]
    /\ \A r \in Requests : req[r].pc \in {"idle", "create", "update", "revoke"}
    /\ granted \subseteq Scopes /\ dead \subseteq Keys

Init ==
    /\ now = 0 /\ keys = [k \in Keys |-> None]
    /\ req = [r \in Requests |-> Idle]
    /\ granted = {} /\ dead = {}

-----------------------------------------------------------------------------
(* Scopes.                                                                  *)

\* Implies: write implies read on its own resource, and nothing else.
Implies(s, want) == s = want \/ (s[2] = "write" /\ want = <<s[1], "read">>)

Grants(set, want) == \E s \in set : Implies(s, want)

MutCovers(set, other) == \E want \in other : Grants(set, want)

Covers(set, other) == \A want \in other : Grants(set, want)

\* Everything a set of scopes lets its holder do.
Reach(set) == {want \in Scopes : Grants(set, want)}

-----------------------------------------------------------------------------
(* Requests.                                                                *)

Usable(k) == keys[k] # None /\ ~keys[k].revoked /\ keys[k].expires > now

\* resolve and require: the bearer key, or a signed-in owner, who holds every
\* scope; and the scope the key endpoints ask for.
Principals ==
    {[user |-> TRUE, held |-> Scopes]}
      \cup {[user |-> FALSE, held |-> keys[k].scopes] : k \in {k \in Keys : Usable(k)}}

Arrives(r, p, pc, k) ==
    /\ req[r].pc = "idle" /\ p \in Principals
    /\ Grants(p.held, KeyWrite)
    /\ req' = [req EXCEPT ![r] = [pc |-> pc, user |-> p.user, held |-> p.held,
                                  key |-> k, row |-> IF pc = "update" THEN keys[k] ELSE None]]
    /\ UNCHANGED <<now, keys, granted, dead>>

CreateArrives(r, p) == Arrives(r, p, "create", None)
UpdateArrives(r, p, k) == keys[k] # None /\ Arrives(r, p, "update", k)
RevokeArrives(r, p, k) == Arrives(r, p, "revoke", k)

Ends(r) == req' = [req EXCEPT ![r] = Idle]

ByUser(r, scopes) == IF req[r].user THEN granted \cup scopes ELSE granted

\* createAPIKey: no scope the creator does not hold, an expiry in the future.
CreateAPIKey(r, k) ==
    /\ req[r].pc = "create" /\ keys[k] = None
    /\ \E scopes \in Bodies, expires \in {now + 1, Forever} :
         /\ Covers(req[r].held, scopes)
         /\ keys' = [keys EXCEPT ![k] = [scopes |-> scopes, expires |-> expires,
                                          revoked |-> FALSE]]
         /\ granted' = ByUser(r, scopes)
    /\ Ends(r)
    /\ UNCHANGED <<now, dead>>

\* updateAPIKey: fields that are given replace those of the row that was read,
\* and UpdateAPIKey writes the name, the scopes and the expiry of that copy.  A
\* revoked key may be edited and an expiry in the past may be set.
UpdateAPIKey(r) ==
    /\ req[r].pc = "update"
    /\ \E scopes \in Bodies \cup {None}, expires \in {req[r].row.expires, now + 1} :
         /\ scopes # None => Covers(req[r].held, scopes)
         /\ keys' = [keys EXCEPT
                       ![req[r].key].scopes = IF scopes = None THEN req[r].row.scopes ELSE scopes,
                       ![req[r].key].expires = expires]
         /\ granted' = IF scopes = None THEN granted ELSE ByUser(r, scopes)
    /\ Ends(r)
    /\ UNCHANGED <<now, dead>>

\* revokeAPIKey: soft, and not found when it is unknown or revoked already.
RevokeAPIKey(r) ==
    /\ req[r].pc = "revoke"
    /\ LET k == req[r].key IN
       IF keys[k] = None \/ keys[k].revoked THEN UNCHANGED <<keys, dead>>
       ELSE /\ keys' = [keys EXCEPT ![k].revoked = TRUE]
            /\ dead' = dead \cup {k}
    /\ Ends(r)
    /\ UNCHANGED <<now, granted>>

\* Refused by validation, a scope, a store error.
Refused(r) ==
    /\ req[r].pc # "idle" /\ Ends(r)
    /\ UNCHANGED <<now, keys, granted, dead>>

TimePasses ==
    /\ now < MaxNow /\ now' = now + 1
    /\ UNCHANGED <<keys, req, granted, dead>>

Next ==
    \/ \E r \in Requests :
         \/ \E p \in Principals :
              \/ CreateArrives(r, p)
              \/ \E k \in Keys : UpdateArrives(r, p, k) \/ RevokeArrives(r, p, k)
         \/ \E k \in Keys : CreateAPIKey(r, k)
         \/ UpdateAPIKey(r) \/ RevokeAPIKey(r) \/ Refused(r)
    \/ TimePasses

Spec == Init /\ [][Next]_vars

-----------------------------------------------------------------------------
(* Whatever keys create and edit other keys, and from however stale a       *)
(* principal, no key reaches further than the scopes signed-in users put on *)
(* keys: the weakest key cannot mint its way up.                            *)
NoKeyOutgrowsItsGrant ==
    \A k \in Keys : keys[k] # None => Reach(keys[k].scopes) \subseteq Reach(granted)

(* An edit that read the row before the key was revoked, and writes after   *)
(* it, does not bring the key back: no request is let in by a key that has  *)
(* been revoked.                                                            *)
RevokedStaysRevoked == \A k \in dead : ~Usable(k)
=============================================================================

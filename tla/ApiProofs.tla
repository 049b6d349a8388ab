------------------------------ MODULE ApiProofs ------------------------------
(***************************************************************************)
(* Proofs about the components behind the API, each for any value of its   *)
(* constants: API keys (ApiKeys), accounts (Account), maintenance windows  *)
(* (MaintenanceWindows) and the import from another monitor (KumaImport),  *)
(* which Access names; the event bus of the live pages (LiveBus), the      *)
(* lists (MonitorViews), the collections walked page by page (Listing) and *)
(* the tiers of history (Rollup), which Monitoring names; outbound         *)
(* webhooks (Webhooks) and notification channels (Channels), which         *)
(* Outgoing names.  A theorem is about the behaviours of one of them.      *)
(***************************************************************************)
EXTENDS Access, Monitoring, Outgoing, FiniteSetTheorems, SequenceTheorems, WellFoundedInduction, TLAPS

-----------------------------------------------------------------------------
(* API keys *)

\* A set of scopes that opens nothing a grant does not open.
Within(wanted, grant) ==
    wanted \subseteq Scopes /\ ApiKey!Reach(wanted) \subseteq ApiKey!Reach(grant)

\* What a request holds.
Request ==
    [pc : {"idle", "create", "update", "revoke"}, user : BOOLEAN, held : SUBSET Scopes,
     key : Keys \cup {Absent}, row : ApiKey!Key \cup {Absent}]

\* The copies a request works from: a principal is an owner or no stronger
\* than its key was, and so is the row of an update.
RequestSound(r) ==
    /\ keysReq[r] \in Request
    /\ ~keysReq[r].user => Within(keysReq[r].held, granted)
    /\ keysReq[r].pc = "update" =>
         /\ keysReq[r].key \in Keys /\ keys[keysReq[r].key] \in ApiKey!Key
         /\ keysReq[r].row \in ApiKey!Key /\ Within(keysReq[r].row.scopes, granted)
    /\ keysReq[r].pc = "revoke" => keysReq[r].key \in Keys

\* The inductive invariant.
KeysInv ==
    /\ keysNow \in 0 .. LastInstant
    /\ keys \in [Keys -> ApiKey!Key \cup {Absent}]
    /\ DOMAIN keysReq = Callers
    /\ granted \subseteq Scopes
    /\ \A k \in Keys : keys[k] # Absent => Within(keys[k].scopes, granted)
    /\ \A r \in Callers : RequestSound(r)
    /\ dead \subseteq Keys /\ \A k \in dead : keys[k] \in ApiKey!Key /\ keys[k].revoked

\* More scopes reach further.
LEMMA ReachGrows ==
    ASSUME NEW A, NEW B, A \subseteq B
    PROVE  ApiKey!Reach(A) \subseteq ApiKey!Reach(B)
  BY DEF ApiKey!Reach, ApiKey!Grants

\* What a scope implies, whoever grants the scope grants too.
LEMMA ImpliesTransitive ==
    ASSUME NEW a, NEW b, NEW c, ApiKey!Implies(a, b), ApiKey!Implies(b, c)
    PROVE  ApiKey!Implies(a, c)
  <1>1. CASE b = c
    BY <1>1
  <1>2. CASE b[2] = "write" /\ c = <<b[1], "read">>
    <2>1. b = a
      BY <1>2 DEF ApiKey!Implies
    <2> QED
      BY <1>2, <2>1 DEF ApiKey!Implies
  <1> QED
    BY <1>1, <1>2 DEF ApiKey!Implies

\* Covered scopes reach no further than those that cover them.
LEMMA CoveredReach ==
    ASSUME NEW A, NEW B \in SUBSET Scopes, ApiKey!Covers(A, B)
    PROVE  ApiKey!Reach(B) \subseteq ApiKey!Reach(A)
  <1> SUFFICES ASSUME NEW want \in ApiKey!Reach(B) PROVE want \in ApiKey!Reach(A)
    OBVIOUS
  <1>1. PICK b \in B : ApiKey!Implies(b, want)
    BY DEF ApiKey!Reach, ApiKey!Grants
  <1>2. PICK a \in A : ApiKey!Implies(a, b)
    BY DEF ApiKey!Covers, ApiKey!Grants
  <1>3. ApiKey!Implies(a, want)
    BY <1>1, <1>2, ImpliesTransitive
  <1> QED
    BY <1>3 DEF ApiKey!Reach, ApiKey!Grants

\* What was within the grant stays there as the grant grows.
LEMMA WithinGrows ==
    ASSUME NEW A, NEW B, A \subseteq B, NEW wanted, Within(wanted, A)
    PROVE  Within(wanted, B)
  BY ReachGrows DEF Within

\* A request at rest.
LEMMA IdleRequest ==
    ApiKey!Idle \in Request /\ ApiKey!Idle.pc = "idle" /\ ApiKey!Idle.held = {}
  <1>1. ApiKey!Idle \in Request
    BY DEF ApiKey!Idle, Request
  <1>2. ApiKey!Idle.pc = "idle" /\ ApiKey!Idle.held = {}
    BY DEF ApiKey!Idle
  <1> QED
    BY <1>1, <1>2

\* No scopes open nothing.
LEMMA NothingIsWithin == ASSUME NEW A PROVE Within({}, A)
  <1>1. ApiKey!Reach({}) = {}
    BY DEF ApiKey!Reach, ApiKey!Grants
  <1> QED
    BY <1>1 DEF Within

\* What a request may put on a key, and what that does to the grant: createAPIKey
\* and updateAPIKey alike.
LEMMA AskedIsWithin ==
    ASSUME KeysInv, NEW r \in Callers, NEW wanted \in SUBSET Scopes,
           ApiKey!Covers(keysReq[r].held, wanted), granted' = ApiKey!ByUser(r, wanted)
    PROVE  /\ granted \subseteq granted' /\ granted' \subseteq Scopes
           /\ Within(wanted, granted')
  <1>1. granted \subseteq granted' /\ granted' \subseteq Scopes
    BY DEF ApiKey!ByUser, KeysInv
  <1>2. CASE keysReq[r].user
    <2>1. wanted \subseteq granted'
      BY <1>2 DEF ApiKey!ByUser
    <2> QED
      <3>1. ApiKey!Reach(wanted) \subseteq ApiKey!Reach(granted')
        BY <2>1, ReachGrows
      <3> QED
        BY <1>1, <3>1 DEF Within
  <1>3. CASE ~keysReq[r].user
    <2>1. Within(keysReq[r].held, granted)
      BY <1>3 DEF KeysInv, RequestSound
    <2>2. Within(wanted, granted)
      BY <2>1, CoveredReach DEF Within
    <2> QED
      BY <1>1, <2>2, WithinGrows
  <1> QED
    BY <1>1, <1>2, <1>3

\* A request that ends leaves the others as they were, as long as no key that
\* is being edited goes and the grant does not shrink.
LEMMA EndingKeepsRequests ==
    ASSUME KeysInv, NEW r \in Callers, ApiKey!Ends(r), granted \subseteq granted',
           \A k \in Keys : keys[k] \in ApiKey!Key => keys'[k] \in ApiKey!Key
    PROVE  DOMAIN keysReq' = Callers /\ \A q \in Callers : RequestSound(q)'
  <1>1. /\ DOMAIN keysReq' = Callers
        /\ keysReq'[r] = ApiKey!Idle
        /\ \A q \in Callers : q # r => keysReq'[q] = keysReq[q]
    BY DEF ApiKey!Ends, KeysInv
  <1> SUFFICES ASSUME NEW q \in Callers PROVE RequestSound(q)'
    BY <1>1
  <1>2. CASE q = r
    <2>1. /\ keysReq'[q].pc = "idle" /\ keysReq'[q].held = {}
          /\ keysReq'[q] \in Request
      BY <1>1, <1>2, IdleRequest
    <2>2. Within({}, granted')
      BY NothingIsWithin
    <2>3. Within(keysReq'[q].held, granted')
      BY <2>1, <2>2
    <2> QED
      BY <2>1, <2>3 DEF RequestSound
  <1>3. CASE q # r
    <2>1. keysReq'[q] = keysReq[q] /\ RequestSound(q)
      BY <1>1, <1>3 DEF KeysInv
    <2>2. ~keysReq'[q].user => Within(keysReq'[q].held, granted')
      BY <2>1, WithinGrows DEF RequestSound
    <2>3. keysReq'[q].pc = "update" =>
         /\ keysReq'[q].key \in Keys /\ keys'[keysReq'[q].key] \in ApiKey!Key
         /\ keysReq'[q].row \in ApiKey!Key
      BY <2>1 DEF RequestSound
    <2>4. keysReq'[q].pc = "update" => Within(keysReq'[q].row.scopes, granted')
      BY <2>1, WithinGrows DEF RequestSound
    <2> QED
      BY <2>1, <2>2, <2>3, <2>4 DEF RequestSound
  <1> QED
    BY <1>2, <1>3

\* resolve hands out principals that are owners, or hold what a usable key holds.
LEMMA PrincipalSound ==
    ASSUME KeysInv, NEW p \in ApiKey!Principals
    PROVE  /\ p.user \in BOOLEAN /\ p.held \in SUBSET Scopes
           /\ ~p.user => Within(p.held, granted)
  <1>1. CASE p = [user |-> TRUE, held |-> Scopes]
    BY <1>1
  <1>2. CASE p \in {[user |-> FALSE, held |-> keys[k].scopes] : k \in {k \in Keys : ApiKey!Usable(k)}}
    <2>1. PICK k \in Keys : ApiKey!Usable(k) /\ p = [user |-> FALSE, held |-> keys[k].scopes]
      BY <1>2
    <2>2. Within(keys[k].scopes, granted)
      BY <2>1 DEF KeysInv, ApiKey!Usable
    <2>3. p.held = keys[k].scopes /\ p.user \in BOOLEAN
      BY <2>1
    <2> QED
      BY <2>2, <2>3 DEF Within
  <1> QED
    BY <1>1, <1>2 DEF ApiKey!Principals

\* A request arrives.
LEMMA ArrivesKeepsKeys ==
    ASSUME KeysInv, NEW r \in Callers, NEW p \in ApiKey!Principals,
           NEW pc \in {"create", "update", "revoke"}, NEW k \in Keys \cup {Absent},
           pc \in {"update", "revoke"} => k \in Keys,
           pc = "update" => keys[k] # Absent,
           ApiKey!Arrives(r, p, pc, k)
    PROVE  KeysInv'
  <1> DEFINE x == [pc |-> pc, user |-> p.user, held |-> p.held, key |-> k,
                   row |-> IF pc = "update" THEN keys[k] ELSE Absent]
  <1>1. /\ keysReq' = [keysReq EXCEPT ![r] = x]
        /\ UNCHANGED <<keysNow, keys, granted, dead>>
    BY DEF ApiKey!Arrives
  <1>2. /\ DOMAIN keysReq' = Callers
        /\ keysReq'[r] = x
        /\ \A q \in Callers : q # r => keysReq'[q] = keysReq[q]
    BY <1>1 DEF KeysInv
  <1>3. /\ x.pc = pc /\ x.user = p.user /\ x.held = p.held /\ x.key = k
        /\ pc = "update" => x.row = keys[k]
    OBVIOUS
  <1>4. pc = "update" => keys[k] \in ApiKey!Key /\ Within(keys[k].scopes, granted)
    BY DEF KeysInv
  <1>5. x.row \in ApiKey!Key \cup {Absent}
    BY <1>4
  <1>6. x \in Request
    BY <1>5, PrincipalSound DEF Request
  <1> HIDE DEF x
  <1>7. RequestSound(r)'
    <2>1. ~p.user => Within(p.held, granted)
      BY PrincipalSound
    <2> QED
      BY <1>1, <1>2, <1>3, <1>4, <1>6, <2>1 DEF RequestSound
  <1>8. \A q \in Callers : q # r => RequestSound(q)'
    BY <1>1, <1>2 DEF KeysInv, RequestSound
  <1> QED
    BY <1>1, <1>2, <1>7, <1>8 DEF KeysInv

\* createAPIKey.
LEMMA CreateKeepsKeys ==
    ASSUME ApiKey!ApiKeysAssumption, KeysInv, NEW r \in Callers, NEW k \in Keys,
           ApiKey!CreateAPIKey(r, k)
    PROVE  KeysInv'
  <1>1. PICK wanted \in ScopeSets, expires \in {keysNow + 1, ApiKey!Forever} :
           /\ ApiKey!Covers(keysReq[r].held, wanted)
           /\ keys' = [keys EXCEPT ![k] = [scopes |-> wanted, expires |-> expires,
                                            revoked |-> FALSE]]
           /\ granted' = ApiKey!ByUser(r, wanted)
    BY DEF ApiKey!CreateAPIKey
  <1>2. keys[k] = Absent /\ ApiKey!Ends(r) /\ keysNow' = keysNow /\ dead' = dead
    BY DEF ApiKey!CreateAPIKey
  <1> DEFINE new == [scopes |-> wanted, expires |-> expires, revoked |-> FALSE]
  <1>3. wanted \in SUBSET Scopes /\ expires \in 1 .. ApiKey!Forever
    BY DEF ApiKey!ApiKeysAssumption, KeysInv, ApiKey!Forever
  <1>4. new \in ApiKey!Key /\ new.scopes = wanted
    BY <1>3 DEF ApiKey!Key
  <1> HIDE DEF new
  <1>5. /\ keys' \in [Keys -> ApiKey!Key \cup {Absent}]
        /\ keys'[k] = new
        /\ \A j \in Keys : j # k => keys'[j] = keys[j]
    BY <1>1, <1>4 DEF KeysInv, new
  <1>6. granted \subseteq granted' /\ granted' \subseteq Scopes /\ Within(wanted, granted')
    BY <1>1, <1>3, AskedIsWithin
  <1>7. \A j \in Keys : keys'[j] # Absent => Within(keys'[j].scopes, granted')
    BY <1>4, <1>5, <1>6, WithinGrows DEF KeysInv
  <1>8. DOMAIN keysReq' = Callers /\ \A q \in Callers : RequestSound(q)'
    BY <1>2, <1>4, <1>5, <1>6, EndingKeepsRequests
  <1>9. \A j \in dead : keys'[j] \in ApiKey!Key /\ keys'[j].revoked
    BY <1>2, <1>5 DEF KeysInv, ApiKey!ApiKeysAssumption
  <1> QED
    BY <1>2, <1>5, <1>6, <1>7, <1>8, <1>9 DEF KeysInv

\* updateAPIKey.
LEMMA UpdateKeepsKeys ==
    ASSUME ApiKey!ApiKeysAssumption, KeysInv, NEW r \in Callers, ApiKey!UpdateAPIKey(r)
    PROVE  KeysInv'
  <1> DEFINE k   == keysReq[r].key
             row == keysReq[r].row
  <1>1. PICK wanted \in ScopeSets \cup {Absent}, expires \in {row.expires, keysNow + 1} :
           /\ wanted # Absent => ApiKey!Covers(keysReq[r].held, wanted)
           /\ keys' = [keys EXCEPT
                         ![k].scopes = IF wanted = Absent THEN row.scopes ELSE wanted,
                         ![k].expires = expires]
           /\ granted' = IF wanted = Absent THEN granted ELSE ApiKey!ByUser(r, wanted)
    BY DEF ApiKey!UpdateAPIKey
  <1>2. ApiKey!Ends(r) /\ keysNow' = keysNow /\ dead' = dead
    BY DEF ApiKey!UpdateAPIKey
  <1>3. /\ k \in Keys /\ keys[k] \in ApiKey!Key
        /\ row \in ApiKey!Key /\ Within(row.scopes, granted)
    BY DEF KeysInv, RequestSound, ApiKey!UpdateAPIKey
  <1> DEFINE set == IF wanted = Absent THEN row.scopes ELSE wanted
  <1>4. /\ granted \subseteq granted' /\ granted' \subseteq Scopes
        /\ set \in SUBSET Scopes /\ Within(set, granted')
    <2>1. CASE wanted = Absent
      <3>1. granted' = granted /\ set = row.scopes
        BY <1>1, <2>1
      <3> QED
        BY <1>3, <3>1 DEF KeysInv, ApiKey!Key
    <2>2. CASE wanted # Absent
      <3>1. /\ wanted \in SUBSET Scopes /\ set = wanted
            /\ ApiKey!Covers(keysReq[r].held, wanted) /\ granted' = ApiKey!ByUser(r, wanted)
        BY <1>1, <2>2 DEF ApiKey!ApiKeysAssumption
      <3> QED
        BY <3>1, AskedIsWithin
    <2> QED
      BY <2>1, <2>2
  <1>5. expires \in 1 .. ApiKey!Forever
    BY <1>1, <1>3 DEF ApiKey!ApiKeysAssumption, KeysInv, ApiKey!Forever, ApiKey!Key
  <1> HIDE DEF k, row, set
  <1>6. keys' = [keys EXCEPT ![k] = [keys[k] EXCEPT !.scopes = set, !.expires = expires]]
    BY <1>1, <1>3 DEF KeysInv, k, row, set
  <1> DEFINE new == [keys[k] EXCEPT !.scopes = set, !.expires = expires]
  <1>7. new \in ApiKey!Key /\ new.scopes = set /\ new.revoked = keys[k].revoked
    BY <1>3, <1>4, <1>5 DEF ApiKey!Key
  <1> HIDE DEF new
  <1>8. /\ keys' \in [Keys -> ApiKey!Key \cup {Absent}]
        /\ keys'[k] = new
        /\ \A j \in Keys : j # k => keys'[j] = keys[j]
    BY <1>3, <1>6, <1>7 DEF KeysInv, new
  <1>9. \A j \in Keys : keys'[j] # Absent => Within(keys'[j].scopes, granted')
    BY <1>4, <1>7, <1>8, WithinGrows DEF KeysInv
  <1>10. DOMAIN keysReq' = Callers /\ \A q \in Callers : RequestSound(q)'
    BY <1>2, <1>4, <1>7, <1>8, EndingKeepsRequests
  <1>11. \A j \in dead : keys'[j] \in ApiKey!Key /\ keys'[j].revoked
    BY <1>7, <1>8 DEF KeysInv
  <1> QED
    BY <1>2, <1>4, <1>8, <1>9, <1>10, <1>11 DEF KeysInv

\* revokeAPIKey.
LEMMA RevokeKeepsKeys ==
    ASSUME ApiKey!ApiKeysAssumption, KeysInv, NEW r \in Callers, ApiKey!RevokeAPIKey(r)
    PROVE  KeysInv'
  <1> DEFINE k == keysReq[r].key
  <1>1. ApiKey!Ends(r) /\ keysNow' = keysNow /\ granted' = granted /\ k \in Keys
    BY DEF ApiKey!RevokeAPIKey, KeysInv, RequestSound
  <1>2. CASE keys' = keys /\ dead' = dead
    <2>1. DOMAIN keysReq' = Callers /\ \A q \in Callers : RequestSound(q)'
      BY <1>1, <1>2, EndingKeepsRequests
    <2> QED
      BY <1>1, <1>2, <2>1 DEF KeysInv
  <1>3. CASE /\ keys[k] # Absent
             /\ keys' = [keys EXCEPT ![k].revoked = TRUE] /\ dead' = dead \cup {k}
    <2> HIDE DEF k
    <2> DEFINE new == [keys[k] EXCEPT !.revoked = TRUE]
    <2>1. new \in ApiKey!Key /\ new.scopes = keys[k].scopes /\ new.revoked
      BY <1>1, <1>3 DEF KeysInv, ApiKey!Key
    <2>2. keys' = [keys EXCEPT ![k] = new]
      BY <1>1, <1>3 DEF KeysInv
    <2> HIDE DEF new
    <2>3. /\ keys' \in [Keys -> ApiKey!Key \cup {Absent}]
          /\ keys'[k] = new
          /\ \A j \in Keys : j # k => keys'[j] = keys[j]
      BY <1>1, <2>1, <2>2 DEF KeysInv
    <2>4. \A j \in Keys : keys'[j] # Absent => Within(keys'[j].scopes, granted')
      BY <1>1, <1>3, <2>1, <2>3 DEF KeysInv
    <2>5. DOMAIN keysReq' = Callers /\ \A q \in Callers : RequestSound(q)'
      BY <1>1, <2>1, <2>3, EndingKeepsRequests
    <2>6. dead' \subseteq Keys /\ \A j \in dead' : keys'[j] \in ApiKey!Key /\ keys'[j].revoked
      BY <1>1, <1>3, <2>1, <2>3 DEF KeysInv
    <2> QED
      BY <1>1, <2>3, <2>4, <2>5, <2>6 DEF KeysInv
  <1> QED
    BY <1>2, <1>3 DEF ApiKey!RevokeAPIKey

\* What KeysInv says holds of every reachable state.
THEOREM KeysSound == ASSUME ApiKey!ApiKeysAssumption PROVE ApiKey!Spec => []KeysInv
  <1>1. ApiKey!Init => KeysInv
    <2> SUFFICES ASSUME ApiKey!Init PROVE KeysInv
      OBVIOUS
    <2>1. \A r \in Callers : RequestSound(r)
      <3> TAKE r \in Callers
      <3>1. keysReq[r] = ApiKey!Idle
        BY DEF ApiKey!Init
      <3>2. Within(keysReq[r].held, granted)
        BY <3>1, IdleRequest, NothingIsWithin
      <3> QED
        BY <3>1, <3>2, IdleRequest DEF RequestSound
    <2> QED
      BY <2>1 DEF ApiKey!Init, KeysInv, ApiKey!ApiKeysAssumption
  <1>2. KeysInv /\ [ApiKey!Next]_ApiKey!vars => KeysInv'
    <2> SUFFICES ASSUME KeysInv, [ApiKey!Next]_ApiKey!vars PROVE KeysInv'
      OBVIOUS
    <2>1. ASSUME NEW r \in Callers, NEW p \in ApiKey!Principals, ApiKey!CreateArrives(r, p)
          PROVE  KeysInv'
      BY <2>1, ArrivesKeepsKeys DEF ApiKey!CreateArrives
    <2>2. ASSUME NEW r \in Callers, NEW p \in ApiKey!Principals, NEW k \in Keys,
                 ApiKey!UpdateArrives(r, p, k) \/ ApiKey!RevokeArrives(r, p, k)
          PROVE  KeysInv'
      BY <2>2, ArrivesKeepsKeys DEF ApiKey!UpdateArrives, ApiKey!RevokeArrives
    <2>3. ASSUME NEW r \in Callers, NEW k \in Keys, ApiKey!CreateAPIKey(r, k)
          PROVE  KeysInv'
      BY <2>3, CreateKeepsKeys
    <2>4. ASSUME NEW r \in Callers, ApiKey!UpdateAPIKey(r) PROVE KeysInv'
      BY <2>4, UpdateKeepsKeys
    <2>5. ASSUME NEW r \in Callers, ApiKey!RevokeAPIKey(r) PROVE KeysInv'
      BY <2>5, RevokeKeepsKeys
    <2>6. ASSUME NEW r \in Callers, ApiKey!Refused(r) PROVE KeysInv'
      <3>1. ApiKey!Ends(r) /\ UNCHANGED <<keysNow, keys, granted, dead>>
        BY <2>6 DEF ApiKey!Refused
      <3>2. DOMAIN keysReq' = Callers /\ \A q \in Callers : RequestSound(q)'
        BY <3>1, EndingKeepsRequests
      <3> QED
        BY <3>1, <3>2 DEF KeysInv
    <2>7. CASE ApiKey!TimePasses
      BY <2>7 DEF ApiKey!TimePasses, KeysInv, RequestSound, ApiKey!ApiKeysAssumption
    <2>8. CASE UNCHANGED ApiKey!vars
      BY <2>8 DEF ApiKey!vars, KeysInv, RequestSound
    <2> QED
      BY <2>1, <2>2, <2>3, <2>4, <2>5, <2>6, <2>7, <2>8 DEF ApiKey!Next
  <1> QED
    BY <1>1, <1>2, PTL DEF ApiKey!Spec

\* No chain of keys that mint and edit keys reaches further than the scopes
\* signed-in users have put on keys (createAPIKey, updateAPIKey, Covers).
THEOREM KeysNeverOutgrow ==
    ASSUME ApiKey!ApiKeysAssumption
    PROVE  ApiKey!Spec => []NoKeyOutgrowsItsGrant
  <1>1. KeysInv => NoKeyOutgrowsItsGrant
    BY DEF KeysInv, Within, NoKeyOutgrowsItsGrant, ApiKey!NoKeyOutgrowsItsGrant
  <1> QED
    BY <1>1, KeysSound, PTL

\* No edit of an older copy of its row lets a revoked key back in
\* (UpdateAPIKey, RevokeAPIKey).
THEOREM KeysStayRevoked ==
    ASSUME ApiKey!ApiKeysAssumption
    PROVE  ApiKey!Spec => []ApiKey!RevokedStaysRevoked
  <1>1. KeysInv => ApiKey!RevokedStaysRevoked
    BY DEF KeysInv, ApiKey!RevokedStaysRevoked, ApiKey!Usable
  <1> QED
    BY <1>1, KeysSound, PTL

-----------------------------------------------------------------------------
(* Accounts *)

\* A user's row, and what a request holds.
UserRow == [secret : TotpSecrets \cup {Absent}, on : BOOLEAN]
AccountRequest ==
    [pc : {"idle", "setup", "create", "login", "enrol", "confirm", "enable", "disable", "codes"},
     email : Emails \cup {Absent}, row : UserRow \cup {Absent},
     mark : Nat \cup {Absent}]

\* A request that is under way names an address, and one that is about to turn
\* a factor on holds a secret a code was shown for.
EnrolmentSound(x, proved) ==
    /\ x \in AccountRequest
    /\ x.pc # "idle" => x.email \in Emails
    /\ x.pc \in {"confirm", "enable"} => x.row \in UserRow /\ x.row.secret \in proved

\* Unused recovery codes were never used, and belong to a confirmation there
\* has been; the codes of one user belong to one.
CodesSound ==
    /\ issued \in Nat /\ codes \subseteq Accounts!Codes
    /\ admitted \in [Accounts!Codes -> Nat]
    /\ \A c \in codes : admitted[c] = 0 /\ c[2] <= issued
    /\ \A c \in Accounts!Codes : c[2] > issued => admitted[c] = 0

\* The inductive invariant.
AccountInv ==
    /\ users \in [DOMAIN users -> UserRow] /\ DOMAIN users \subseteq Emails
    /\ DOMAIN accountsReq = Callers
    /\ \A r \in Callers : EnrolmentSound(accountsReq[r], proven)
    /\ CodesSound
    /\ Accounts!FactorWasProven
    /\ Accounts!RecoveryCodesOnce

\* The requests after one of them has moved to where it is sound.
LEMMA RequestMoves ==
    ASSUME AccountInv, NEW r \in Callers, NEW x, accountsReq' = [accountsReq EXCEPT ![r] = x],
           proven \subseteq proven', EnrolmentSound(x, proven')
    PROVE  DOMAIN accountsReq' = Callers /\ \A q \in Callers : EnrolmentSound(accountsReq'[q], proven')
  <1>1. /\ DOMAIN accountsReq' = Callers
        /\ \A q \in Callers : accountsReq'[q] = IF q = r THEN x ELSE accountsReq[q]
    BY DEF AccountInv
  <1>2. ASSUME NEW q \in Callers, q # r PROVE EnrolmentSound(accountsReq'[q], proven')
    <2>1. accountsReq'[q] = accountsReq[q] /\ EnrolmentSound(accountsReq[q], proven)
      BY <1>1, <1>2 DEF AccountInv
    <2> QED
      BY <2>1 DEF EnrolmentSound
  <1> QED
    BY <1>1, <1>2

\* A request that ends.
LEMMA RequestEnds ==
    ASSUME AccountInv, NEW r \in Callers, Accounts!Ends(r), proven \subseteq proven'
    PROVE  DOMAIN accountsReq' = Callers /\ \A q \in Callers : EnrolmentSound(accountsReq'[q], proven')
  <1>1. accountsReq' = [accountsReq EXCEPT ![r] = Accounts!Idle]
    BY DEF Accounts!Ends
  <1>2. Accounts!Idle \in AccountRequest /\ Accounts!Idle.pc = "idle"
    BY DEF Accounts!Idle, AccountRequest
  <1> QED
    BY <1>1, <1>2, RequestMoves DEF EnrolmentSound

\* The second step of turning a factor on remembers which codes it issued.
LEMMA RequestEnables ==
    ASSUME NEW x \in AccountRequest, NEW m \in Nat,
           NEW y, y = [x EXCEPT !.pc = "enable", !.mark = m]
    PROVE  y \in AccountRequest /\ y.email = x.email /\ y.row = x.row
  BY DEF AccountRequest

\* A request whose place moves on, to where it needs no proven secret.
LEMMA RequestGoes ==
    ASSUME AccountInv, NEW r \in Callers, accountsReq[r].pc # "idle", proven' = proven,
           NEW pc \in {"create", "codes"}, Accounts!Goes(r, pc)
    PROVE  DOMAIN accountsReq' = Callers /\ \A q \in Callers : EnrolmentSound(accountsReq'[q], proven')
  <1> DEFINE x == [accountsReq[r] EXCEPT !.pc = pc]
  <1>1. accountsReq[r] \in AccountRequest /\ accountsReq[r].email \in Emails
    BY DEF AccountInv, EnrolmentSound
  <1>2. x \in AccountRequest /\ x.email = accountsReq[r].email /\ x.pc = pc
    BY <1>1 DEF AccountRequest
  <1>3. accountsReq' = [accountsReq EXCEPT ![r] = x]
    BY DEF Accounts!Goes, AccountInv
  <1> HIDE DEF x
  <1>4. EnrolmentSound(x, proven')
    BY <1>1, <1>2 DEF EnrolmentSound
  <1> QED
    BY <1>3, <1>4, RequestMoves

\* A step that touches no row, no code and no factor.
LEMMA TablesUntouched ==
    ASSUME AccountInv, UNCHANGED <<users, codes, issued, proven, admitted>>,
           DOMAIN accountsReq' = Callers, \A q \in Callers : EnrolmentSound(accountsReq'[q], proven')
    PROVE  AccountInv'
  <1>1. CodesSound' /\ Accounts!RecoveryCodesOnce'
    BY DEF AccountInv, CodesSound, Accounts!RecoveryCodesOnce
  <1>2. Accounts!FactorWasProven'
    BY DEF AccountInv, Accounts!FactorWasProven
  <1> QED
    BY <1>1, <1>2 DEF AccountInv

\* SetUserTOTP: a factor that is on is one that was proven.
LEMMA RowWritten ==
    ASSUME AccountInv, NEW e, NEW secret \in TotpSecrets \cup {Absent}, NEW on \in BOOLEAN,
           on => secret \in proven, Accounts!SetUserTOTP(e, secret, on),
           UNCHANGED <<codes, issued, proven, admitted>>,
           DOMAIN accountsReq' = Callers, \A q \in Callers : EnrolmentSound(accountsReq'[q], proven')
    PROVE  AccountInv'
  <1> DEFINE new == [secret |-> secret, on |-> on]
  <1>1. new \in UserRow /\ new.secret = secret /\ (new.on <=> on)
    BY DEF UserRow
  <1>2. users' = [users EXCEPT ![e] = new]
    BY DEF Accounts!SetUserTOTP
  <1> HIDE DEF new
  <1>3. /\ DOMAIN users' = DOMAIN users
        /\ users' \in [DOMAIN users' -> UserRow]
        /\ \A u \in DOMAIN users : users'[u] = IF u = e THEN new ELSE users[u]
    BY <1>1, <1>2 DEF AccountInv
  <1>4. ASSUME NEW u \in DOMAIN users', users'[u].on PROVE users'[u].secret \in proven'
    <2>1. CASE u = e
      <3>1. users'[u] = new
        BY <1>3, <2>1
      <3>2. on /\ new.secret = secret
        BY <1>1, <1>4, <3>1
      <3> QED
        BY <3>1, <3>2
    <2>2. CASE u # e
      BY <1>3, <1>4, <2>2 DEF AccountInv, Accounts!FactorWasProven
    <2> QED
      BY <2>1, <2>2
  <1>5. CodesSound' /\ Accounts!RecoveryCodesOnce'
    BY DEF AccountInv, CodesSound, Accounts!RecoveryCodesOnce
  <1> QED
    BY <1>3, <1>4, <1>5 DEF AccountInv, Accounts!FactorWasProven

\* ConsumeRecoveryCode: what it takes had not been used.
LEMMA CodeConsumed ==
    ASSUME CodesSound, Accounts!RecoveryCodesOnce, NEW c \in codes, Accounts!Consumes(c),
           issued' = issued
    PROVE  CodesSound' /\ Accounts!RecoveryCodesOnce'
  <1>1. codes' = codes \ {c} /\ admitted' = [admitted EXCEPT ![c] = admitted[c] + 1]
    BY DEF Accounts!Consumes
  <1>2. c \in Accounts!Codes /\ admitted[c] = 0
    BY DEF CodesSound
  <1>3. /\ admitted' \in [Accounts!Codes -> Nat]
        /\ \A d \in Accounts!Codes : admitted'[d] = IF d = c THEN 1 ELSE admitted[d]
    BY <1>1, <1>2 DEF CodesSound
  <1>4. codes' \subseteq codes /\ \A d \in codes' : admitted'[d] = 0 /\ d[2] <= issued'
    BY <1>1, <1>3 DEF CodesSound
  <1>5. \A d \in Accounts!Codes : d[2] > issued' => admitted'[d] = 0
    <2> SUFFICES ASSUME NEW d \in Accounts!Codes, d[2] > issued' PROVE admitted'[d] = 0
      OBVIOUS
    <2>1. d # c
      <3>1. c[2] <= issued /\ issued \in Nat /\ c[2] \in 1 .. MaxConfirmations
        BY <1>2 DEF CodesSound, Accounts!Codes
      <3> QED
        BY <3>1
    <2> QED
      BY <1>3, <2>1 DEF CodesSound
  <1>6. \A d \in Accounts!Codes : admitted'[d] <= 1
    BY <1>3 DEF Accounts!RecoveryCodesOnce
  <1>7. CodesSound'
    BY <1>3, <1>4, <1>5 DEF CodesSound
  <1> QED
    BY <1>4, <1>6, <1>7 DEF Accounts!RecoveryCodesOnce

\* ReplaceRecoveryCodes with the codes of the next confirmation, or with none.
LEMMA CodesReplaced ==
    ASSUME Accounts!AccountAssumption, CodesSound, Accounts!RecoveryCodesOnce,
           NEW e \in Emails, issued' \in {issued, issued + 1},
           NEW new \in {{}, {issued'} \X (1 .. CodesIssued)},
           new # {} => issued' = issued + 1 /\ issued' <= MaxConfirmations,
           Accounts!ReplaceRecoveryCodes(e, new), admitted' = admitted
    PROVE  CodesSound' /\ Accounts!RecoveryCodesOnce'
  <1>1. codes' = {c \in codes : c[1] # e} \cup {<<e, n[1], n[2]>> : n \in new}
    BY DEF Accounts!ReplaceRecoveryCodes
  <1>2. ASSUME NEW c \in codes', c \notin {d \in codes : d[1] # e}
        PROVE  /\ issued' = issued + 1 /\ issued' <= MaxConfirmations
               /\ \E i \in 1 .. CodesIssued : c = <<e, issued', i>>
    BY <1>1, <1>2
  <1>3. \A c \in codes' :
           \/ c \in codes /\ c[1] # e
           \/ /\ issued' = issued + 1 /\ c \in Accounts!Codes
              /\ c[1] = e /\ c[2] = issued' /\ admitted[c] = 0
    <2> SUFFICES ASSUME NEW c \in codes', c \notin {d \in codes : d[1] # e}
                 PROVE  /\ issued' = issued + 1 /\ c \in Accounts!Codes
                        /\ c[1] = e /\ c[2] = issued' /\ admitted[c] = 0
      OBVIOUS
    <2>1. PICK i \in 1 .. CodesIssued : c = <<e, issued', i>>
      BY <1>2
    <2>2. issued' = issued + 1 /\ issued' \in 1 .. MaxConfirmations
      BY <1>2 DEF CodesSound, Accounts!AccountAssumption
    <2>3. c \in Accounts!Codes /\ c[1] = e /\ c[2] = issued'
      BY <2>1, <2>2 DEF Accounts!Codes
    <2> QED
      BY <2>2, <2>3 DEF CodesSound
  <1>4. codes' \subseteq Accounts!Codes /\ issued' \in Nat
    BY <1>3 DEF CodesSound
  <1>5. \A c \in codes' : admitted'[c] = 0 /\ c[2] <= issued'
    BY <1>3 DEF CodesSound, Accounts!Codes
  <1>6. \A c \in Accounts!Codes : c[2] > issued' => admitted'[c] = 0
    <2> SUFFICES ASSUME NEW c \in Accounts!Codes, c[2] > issued' PROVE admitted[c] = 0
      OBVIOUS
    <2>1. c[2] \in 1 .. MaxConfirmations /\ issued' >= issued /\ issued \in Nat
      BY DEF CodesSound, Accounts!Codes
    <2>2. c[2] \in Nat
      BY <2>1 DEF Accounts!AccountAssumption
    <2>3. c[2] > issued
      BY <1>4, <2>1, <2>2
    <2> QED
      BY <2>3 DEF CodesSound
  <1>7. \A c, d \in codes' : c[1] = d[1] => c[2] = d[2]
    BY <1>3 DEF Accounts!RecoveryCodesOnce
  <1> QED
    BY <1>4, <1>5, <1>6, <1>7 DEF CodesSound, Accounts!RecoveryCodesOnce

\* currentUser: a request that has loaded the row behind its session.
LEMMA LoadedSound ==
    ASSUME AccountInv, NEW r \in Callers, NEW e \in Emails,
           NEW pc \in {"enrol", "confirm", "disable"}, Accounts!Loads(r, e, pc),
           proven \subseteq proven', pc = "confirm" => users[e].secret \in proven'
    PROVE  DOMAIN accountsReq' = Callers /\ \A q \in Callers : EnrolmentSound(accountsReq'[q], proven')
  <1> DEFINE x == [pc |-> pc, email |-> e, row |-> users[e], mark |-> Absent]
  <1>1. users[e] \in UserRow /\ accountsReq' = [accountsReq EXCEPT ![r] = x]
    BY DEF Accounts!Loads, AccountInv
  <1>2. x \in AccountRequest /\ x.email = e /\ x.pc = pc /\ x.row = users[e]
    BY <1>1 DEF AccountRequest
  <1> HIDE DEF x
  <1>3. EnrolmentSound(x, proven')
    BY <1>1, <1>2 DEF EnrolmentSound
  <1> QED
    BY <1>1, <1>3, RequestMoves

\* A request that starts at an address, with a row or without.
LEMMA StartedSound ==
    ASSUME AccountInv, NEW r \in Callers, NEW e \in Emails, NEW pc \in {"setup", "login"},
           NEW x, accountsReq' = [accountsReq EXCEPT ![r] = x],
           \/ x = [Accounts!Idle EXCEPT !.pc = pc, !.email = e]
           \/ e \in DOMAIN users
              /\ x = [Accounts!Idle EXCEPT !.pc = pc, !.email = e, !.row = users[e]],
           proven' = proven
    PROVE  DOMAIN accountsReq' = Callers /\ \A q \in Callers : EnrolmentSound(accountsReq'[q], proven')
  <1>1. Accounts!Idle \in AccountRequest
    BY DEF Accounts!Idle, AccountRequest
  <1>2. e \in DOMAIN users => users[e] \in UserRow
    BY DEF AccountInv
  <1>3. x \in AccountRequest /\ x.email = e /\ x.pc = pc
    BY <1>1, <1>2 DEF AccountRequest
  <1>4. EnrolmentSound(x, proven')
    BY <1>3 DEF EnrolmentSound
  <1> QED
    BY <1>4, RequestMoves

\* First-run setup.
LEMMA SetupKeepsAccounts ==
    ASSUME AccountInv, NEW r \in Callers, NEW e \in Emails,
           Accounts!SetupChecks(r, e) \/ Accounts!SetupNames(r) \/ Accounts!SetupCreates(r)
    PROVE  AccountInv'
  <1>1. CASE Accounts!SetupChecks(r, e)
    <2>1. /\ accountsReq' = [accountsReq EXCEPT ![r] = [Accounts!Idle EXCEPT !.pc = "setup",
                 !.email = e]]
          /\ UNCHANGED <<users, codes, issued, proven, admitted>>
      BY <1>1 DEF Accounts!SetupChecks
    <2>2. DOMAIN accountsReq' = Callers /\ \A q \in Callers : EnrolmentSound(accountsReq'[q], proven')
      BY <2>1, StartedSound
    <2> QED
      BY <2>1, <2>2, TablesUntouched
  <1>2. CASE Accounts!SetupNames(r)
    BY <1>2, RequestGoes, TablesUntouched DEF Accounts!SetupNames, Accounts!At
  <1>3. CASE Accounts!SetupCreates(r)
    <2> DEFINE u == accountsReq[r].email
    <2>1. Accounts!Ends(r) /\ UNCHANGED <<codes, issued, proven, admitted>> /\ u \in Emails
      BY <1>3 DEF Accounts!SetupCreates, Accounts!At, AccountInv, EnrolmentSound
    <2>2. DOMAIN accountsReq' = Callers /\ \A q \in Callers : EnrolmentSound(accountsReq'[q], proven')
      BY <2>1, RequestEnds
    <2>3. CASE users' = users
      BY <2>1, <2>2, <2>3, TablesUntouched
    <2>4. CASE users' = [v \in DOMAIN users \cup {u} |-> IF v = u THEN Accounts!NoRow ELSE users[v]]
      <3> HIDE DEF u
      <3>1. Accounts!NoRow \in UserRow /\ ~Accounts!NoRow.on
        BY DEF Accounts!NoRow, UserRow
      <3>2. /\ DOMAIN users' = DOMAIN users \cup {u}
            /\ \A v \in DOMAIN users' : users'[v] = IF v = u THEN Accounts!NoRow ELSE users[v]
            /\ users' \in [DOMAIN users' -> UserRow]
        BY <2>4, <3>1 DEF AccountInv
      <3>3. \A v \in DOMAIN users' : users'[v].on => users'[v].secret \in proven'
        BY <2>1, <3>1, <3>2 DEF AccountInv, Accounts!FactorWasProven
      <3>4. CodesSound' /\ Accounts!RecoveryCodesOnce'
        BY <2>1 DEF AccountInv, CodesSound, Accounts!RecoveryCodesOnce
      <3> QED
        BY <2>1, <2>2, <3>2, <3>3, <3>4 DEF AccountInv, Accounts!FactorWasProven
    <2> QED
      BY <1>3, <2>3, <2>4 DEF Accounts!SetupCreates
  <1> QED
    BY <1>1, <1>2, <1>3

\* Sign-in.
LEMMA LoginKeepsAccounts ==
    ASSUME AccountInv, NEW r \in Callers, NEW e \in Emails,
           Accounts!LoginStarts(r, e) \/ Accounts!LoginWithCode(r) \/ Accounts!LoginWithRecovery(r)
    PROVE  AccountInv'
  <1>1. CASE Accounts!LoginStarts(r, e)
    <2>1. UNCHANGED <<users, codes, issued, proven, admitted>>
      BY <1>1 DEF Accounts!LoginStarts
    <2>2. CASE accountsReq' = accountsReq
      BY <2>1, <2>2, TablesUntouched DEF AccountInv
    <2>3. CASE /\ e \in DOMAIN users
               /\ accountsReq' = [accountsReq EXCEPT ![r] = [Accounts!Idle EXCEPT !.pc = "login",
                      !.email = e,
                                                                                  !.row = users[e]]]
      <3>1. DOMAIN accountsReq' = Callers /\ \A q \in Callers : EnrolmentSound(accountsReq'[q], proven')
        BY <2>1, <2>3, StartedSound
      <3> QED
        BY <2>1, <3>1, TablesUntouched
    <2> QED
      BY <1>1, <2>2, <2>3 DEF Accounts!LoginStarts
  <1>2. CASE Accounts!LoginWithCode(r)
    BY <1>2, RequestEnds, TablesUntouched DEF Accounts!LoginWithCode, Accounts!LogsIn
  <1>3. CASE Accounts!LoginWithRecovery(r)
    <2>1. /\ \E c \in codes : Accounts!Consumes(c)
          /\ Accounts!Ends(r) /\ UNCHANGED <<users, issued, proven>>
      BY <1>3 DEF Accounts!LoginWithRecovery, Accounts!LogsIn, Accounts!OwnCodes
    <2>2. CodesSound' /\ Accounts!RecoveryCodesOnce'
      BY <2>1, CodeConsumed DEF AccountInv
    <2>3. DOMAIN accountsReq' = Callers /\ \A q \in Callers : EnrolmentSound(accountsReq'[q], proven')
      BY <2>1, RequestEnds
    <2> QED
      BY <2>1, <2>2, <2>3 DEF AccountInv, Accounts!FactorWasProven
  <1> QED
    BY <1>1, <1>2, <1>3

\* Enrolment and confirmation.
LEMMA EnrolKeepsAccounts ==
    ASSUME Accounts!AccountAssumption, AccountInv, NEW r \in Callers, NEW e \in Emails,
           \/ Accounts!EnrolReads(r, e) \/ Accounts!EnrolStores(r)
           \/ Accounts!ConfirmReads(r, e) \/ Accounts!ConfirmIssues(r)
           \/ Accounts!ConfirmEnables(r)
    PROVE  AccountInv'
  <1>1. CASE Accounts!EnrolReads(r, e)
    <2>1. Accounts!Loads(r, e, "enrol") /\ UNCHANGED <<users, codes, issued, proven, admitted>>
      BY <1>1 DEF Accounts!EnrolReads
    <2>2. DOMAIN accountsReq' = Callers /\ \A q \in Callers : EnrolmentSound(accountsReq'[q], proven')
      BY <2>1, LoadedSound
    <2> QED
      BY <2>1, <2>2, TablesUntouched
  <1>2. CASE Accounts!EnrolStores(r)
    <2>1. PICK s \in TotpSecrets : Accounts!SetUserTOTP(accountsReq[r].email, s, FALSE)
      BY <1>2 DEF Accounts!EnrolStores
    <2>2. Accounts!Ends(r) /\ UNCHANGED <<codes, issued, proven, admitted>>
      BY <1>2 DEF Accounts!EnrolStores
    <2>3. DOMAIN accountsReq' = Callers /\ \A q \in Callers : EnrolmentSound(accountsReq'[q], proven')
      BY <2>2, RequestEnds
    <2> QED
      BY <2>1, <2>2, <2>3, RowWritten
  <1>3. CASE Accounts!ConfirmReads(r, e)
    <2>1. /\ Accounts!Loads(r, e, "confirm") /\ proven' = proven \cup {users[e].secret}
          /\ UNCHANGED <<users, codes, issued, admitted>>
      BY <1>3 DEF Accounts!ConfirmReads
    <2>2. DOMAIN accountsReq' = Callers /\ \A q \in Callers : EnrolmentSound(accountsReq'[q], proven')
      BY <2>1, LoadedSound
    <2>3. CodesSound' /\ Accounts!RecoveryCodesOnce' /\ Accounts!FactorWasProven'
      BY <2>1 DEF AccountInv, CodesSound, Accounts!RecoveryCodesOnce, Accounts!FactorWasProven
    <2> QED
      BY <2>1, <2>2, <2>3 DEF AccountInv
  <1>4. CASE Accounts!ConfirmIssues(r)
    <2> DEFINE x == [accountsReq[r] EXCEPT !.pc = "enable", !.mark = issued + 1]
    <2>1. /\ issued < MaxConfirmations /\ issued' = issued + 1
          /\ Accounts!ReplaceRecoveryCodes(accountsReq[r].email, {issued'} \X (1 .. CodesIssued))
          /\ accountsReq' = [accountsReq EXCEPT ![r].pc = "enable", ![r].mark = issued + 1]
          /\ UNCHANGED <<users, proven, admitted>>
      BY <1>4 DEF Accounts!ConfirmIssues
    <2>2. /\ accountsReq[r] \in AccountRequest /\ accountsReq[r].email \in Emails
          /\ accountsReq[r].row \in UserRow /\ accountsReq[r].row.secret \in proven
      BY <1>4 DEF Accounts!ConfirmIssues, Accounts!At, AccountInv, EnrolmentSound
    <2>3. issued \in Nat
      BY DEF AccountInv, CodesSound
    <2>4. accountsReq' = [accountsReq EXCEPT ![r] = x]
      BY <2>1, <2>2 DEF AccountInv, AccountRequest
    <2>5. x \in AccountRequest /\ x.email = accountsReq[r].email /\ x.row = accountsReq[r].row
      <3>1. issued + 1 \in Nat /\ x = [accountsReq[r] EXCEPT !.pc = "enable", !.mark = issued + 1]
        BY <2>3
      <3> HIDE DEF x
      <3> QED
        BY <2>2, <3>1, RequestEnables
    <2> HIDE DEF x
    <2>6. EnrolmentSound(x, proven')
      BY <2>1, <2>2, <2>5 DEF EnrolmentSound
    <2>7. DOMAIN accountsReq' = Callers /\ \A q \in Callers : EnrolmentSound(accountsReq'[q], proven')
      BY <2>1, <2>4, <2>6, RequestMoves
    <2>8. CodesSound' /\ Accounts!RecoveryCodesOnce'
      <3>1. issued' <= MaxConfirmations
        BY <2>1, <2>3 DEF Accounts!AccountAssumption
      <3> QED
        BY <2>1, <2>2, <3>1, CodesReplaced DEF AccountInv
    <2> QED
      BY <2>1, <2>7, <2>8 DEF AccountInv, Accounts!FactorWasProven
  <1>5. CASE Accounts!ConfirmEnables(r)
    <2>1. /\ Accounts!SetUserTOTP(accountsReq[r].email, accountsReq[r].row.secret, TRUE)
          /\ Accounts!Ends(r) /\ UNCHANGED <<codes, issued, proven, admitted>>
      BY <1>5 DEF Accounts!ConfirmEnables
    <2>2. accountsReq[r].row.secret \in TotpSecrets \cup {Absent}
              /\ accountsReq[r].row.secret \in proven
      BY <1>5 DEF Accounts!ConfirmEnables, Accounts!At, AccountInv, EnrolmentSound, UserRow
    <2>3. DOMAIN accountsReq' = Callers /\ \A q \in Callers : EnrolmentSound(accountsReq'[q], proven')
      BY <2>1, RequestEnds
    <2> QED
      BY <2>1, <2>2, <2>3, RowWritten
  <1> QED
    BY <1>1, <1>2, <1>3, <1>4, <1>5

\* disableTOTP.
LEMMA DisableKeepsAccounts ==
    ASSUME Accounts!AccountAssumption, AccountInv, NEW r \in Callers, NEW e \in Emails,
           \/ Accounts!DisableReads(r, e) \/ Accounts!DisableClears(r) \/ Accounts!DisableEnds(r)
    PROVE  AccountInv'
  <1>1. CASE Accounts!DisableReads(r, e)
    <2>1. Accounts!Loads(r, e, "disable") /\ UNCHANGED <<users, issued, proven>>
      BY <1>1 DEF Accounts!DisableReads
    <2>2. DOMAIN accountsReq' = Callers /\ \A q \in Callers : EnrolmentSound(accountsReq'[q], proven')
      BY <2>1, LoadedSound
    <2>3. CASE UNCHANGED <<codes, admitted>>
      BY <2>1, <2>2, <2>3, TablesUntouched
    <2>4. CASE \E c \in codes : Accounts!Consumes(c)
      <3>1. CodesSound' /\ Accounts!RecoveryCodesOnce'
        BY <2>1, <2>4, CodeConsumed DEF AccountInv
      <3> QED
        BY <2>1, <2>2, <3>1 DEF AccountInv, Accounts!FactorWasProven
    <2> QED
      BY <1>1, <2>3, <2>4 DEF Accounts!DisableReads, Accounts!OwnCodes
  <1>2. CASE Accounts!DisableClears(r)
    <2>1. /\ Accounts!SetUserTOTP(accountsReq[r].email, Absent, FALSE) /\ accountsReq[r].pc # "idle"
          /\ Accounts!Goes(r, "codes") /\ UNCHANGED <<codes, issued, proven, admitted>>
      BY <1>2 DEF Accounts!DisableClears, Accounts!At
    <2>2. DOMAIN accountsReq' = Callers /\ \A q \in Callers : EnrolmentSound(accountsReq'[q], proven')
      BY <2>1, RequestGoes
    <2> QED
      BY <2>1, <2>2, RowWritten
  <1>3. CASE Accounts!DisableEnds(r)
    <2>1. /\ Accounts!ReplaceRecoveryCodes(accountsReq[r].email, {})
          /\ Accounts!Ends(r) /\ UNCHANGED <<users, issued, proven, admitted>>
      BY <1>3 DEF Accounts!DisableEnds
    <2>2. accountsReq[r].email \in Emails
      BY <1>3 DEF Accounts!DisableEnds, Accounts!At, AccountInv, EnrolmentSound
    <2>3. DOMAIN accountsReq' = Callers /\ \A q \in Callers : EnrolmentSound(accountsReq'[q], proven')
      BY <2>1, RequestEnds
    <2>4. CodesSound' /\ Accounts!RecoveryCodesOnce'
      BY <2>1, <2>2, CodesReplaced DEF AccountInv
    <2> QED
      BY <2>1, <2>3, <2>4 DEF AccountInv, Accounts!FactorWasProven
  <1> QED
    BY <1>1, <1>2, <1>3

\* What AccountInv says holds of every reachable state.
THEOREM AccountsSound ==
    ASSUME Accounts!AccountAssumption PROVE Accounts!Spec => []AccountInv
  <1>1. Accounts!Init => AccountInv
    <2> SUFFICES ASSUME Accounts!Init PROVE AccountInv
      OBVIOUS
    <2>1. DOMAIN users = {} /\ users \in [DOMAIN users -> UserRow]
      BY DEF Accounts!Init
    <2>2. DOMAIN accountsReq = Callers /\ \A r \in Callers : EnrolmentSound(accountsReq[r], proven)
      <3>1. Accounts!Idle \in AccountRequest /\ Accounts!Idle.pc = "idle"
        BY DEF Accounts!Idle, AccountRequest
      <3> QED
        BY <3>1 DEF Accounts!Init, EnrolmentSound
    <2>3. CodesSound /\ Accounts!RecoveryCodesOnce
      BY DEF Accounts!Init, CodesSound, Accounts!RecoveryCodesOnce
    <2> QED
      BY <2>1, <2>2, <2>3 DEF AccountInv, Accounts!FactorWasProven
  <1>2. AccountInv /\ [Accounts!Next]_Accounts!vars => AccountInv'
    <2> SUFFICES ASSUME AccountInv, [Accounts!Next]_Accounts!vars PROVE AccountInv'
      OBVIOUS
    <2>1. ASSUME NEW r \in Callers, NEW e \in Emails,
                 \/ Accounts!SetupChecks(r, e) \/ Accounts!LoginStarts(r, e)
                 \/ Accounts!EnrolReads(r, e) \/ Accounts!ConfirmReads(r, e)
                 \/ Accounts!DisableReads(r, e)
          PROVE  AccountInv'
      BY <2>1, SetupKeepsAccounts, LoginKeepsAccounts, EnrolKeepsAccounts, DisableKeepsAccounts
    <2>2. ASSUME NEW r \in Callers,
                 \/ Accounts!SetupNames(r) \/ Accounts!SetupCreates(r)
                 \/ Accounts!LoginWithCode(r) \/ Accounts!LoginWithRecovery(r)
                 \/ Accounts!EnrolStores(r) \/ Accounts!ConfirmIssues(r)
                 \/ Accounts!ConfirmEnables(r)
                 \/ Accounts!DisableClears(r) \/ Accounts!DisableEnds(r)
          PROVE  AccountInv'
      <3>1. accountsReq[r].pc # "idle"
        BY <2>2 DEF Accounts!SetupNames, Accounts!SetupCreates, Accounts!LoginWithCode,
           Accounts!LoginWithRecovery, Accounts!EnrolStores, Accounts!ConfirmIssues,
           Accounts!ConfirmEnables, Accounts!DisableClears, Accounts!DisableEnds, Accounts!At
      <3>2. PICK e \in Emails : TRUE
        BY <3>1 DEF AccountInv, EnrolmentSound
      <3> QED
        BY <2>2, <3>2, SetupKeepsAccounts, LoginKeepsAccounts, EnrolKeepsAccounts,
           DisableKeepsAccounts
    <2>3. ASSUME NEW r \in Callers, Accounts!Abandoned(r) PROVE AccountInv'
      BY <2>3, RequestEnds, TablesUntouched DEF Accounts!Abandoned
    <2>4. CASE \/ \E e \in Emails : Accounts!LoginLimited(e)
               \/ \E s \in sessions : Accounts!Logout(s)
               \/ Accounts!SweepSessions \/ Accounts!TimePasses \/ UNCHANGED Accounts!vars
      <3>1. UNCHANGED <<users, codes, accountsReq, issued, proven, admitted>>
        BY <2>4 DEF Accounts!LoginLimited, Accounts!Logout, Accounts!SweepSessions,
           Accounts!TimePasses, Accounts!vars
      <3> QED
        BY <3>1, TablesUntouched DEF AccountInv
    <2> QED
      BY <2>1, <2>2, <2>3, <2>4 DEF Accounts!Next
  <1> QED
    BY <1>1, <1>2, PTL DEF Accounts!Spec

\* A factor that sign-in asks for is one whose owner showed a code for exactly
\* the secret that is stored (confirmTOTP, SetUserTOTP).
THEOREM FactorsAlwaysProven ==
    ASSUME Accounts!AccountAssumption PROVE Accounts!Spec => []FactorWasProven
  <1>1. AccountInv => FactorWasProven
    BY DEF AccountInv, FactorWasProven
  <1> QED
    BY <1>1, AccountsSound, PTL

\* A recovery code opens one door, and the codes of one user are those of one
\* confirmation (ConsumeRecoveryCode, ReplaceRecoveryCodes).
THEOREM RecoveryCodesWorkOnce ==
    ASSUME Accounts!AccountAssumption PROVE Accounts!Spec => []Accounts!RecoveryCodesOnce
  <1>1. AccountInv => Accounts!RecoveryCodesOnce
    BY DEF AccountInv
  <1> QED
    BY <1>1, AccountsSound, PTL

-----------------------------------------------------------------------------
(* The header (LiveBus) *)

LiveMessages == [kind : {"summary"}, of : 0 .. MaxTransitions] \cup [kind : {"monitor"}, of : Watched]
LiveTasks ==
    [pc : {"idle", "saved", "drained", "deliver", "send"}, msg : LiveMessages \cup {Nothing},
     to : SUBSET Browsers, at : Browsers \cup {Nothing}]

LiveTypes ==
    /\ Live!TypeOK
    /\ stream \in [Browsers -> {"none", "subscribed", "open", "closing", "removed", "closed"}]
    /\ chan \in [Browsers -> Seq(LiveMessages)]
    /\ shown \in [Browsers -> 0 .. MaxTransitions \cup {Nothing}]
    /\ task \in [Live!Publishers -> LiveTasks]

\* The last summary that stream s will have shown, once its channel is read.
WillShow(st, ch, sh, n) ==
    \/ \E i \in 1 .. Len(ch) :
          /\ ch[i].kind = "summary" /\ ch[i].of = n
          /\ \A j \in i + 1 .. Len(ch) : ch[j].kind # "summary"
    \/ /\ \A i \in 1 .. Len(ch) : ch[i].kind # "summary"
       /\ st = "open" /\ sh = n

Listening(st) == st \in {"subscribed", "open"}

\* A transition the counts have moved with is still to be announced.
Announcing ==
    \/ dirty \/ task["summariser"].pc = "drained"
    \/ \E p \in LiveIngests : task[p].pc # "idle"

\* Publisher's task x has a message for stream s yet.
Owes(x, s) == x.pc \in {"deliver", "send"} /\ (s \in x.to \/ (x.pc = "send" /\ x.at = s))

\* An ingest publishes monitors, and the summariser counts.
IngestTask(x) ==
    \/ x.pc = "idle"
    \/ x.pc \in {"saved", "deliver", "send"} /\ x.msg \in [kind : {"monitor"}, of : Watched]
SummariserTask(x) ==
    \/ x.pc \in {"idle", "drained"}
    \/ x.pc \in {"deliver", "send"} /\ x.msg \in [kind : {"summary"}, of : 0 .. MaxTransitions]

PublishersSound ==
    /\ \A p \in LiveIngests : IngestTask(task[p])
    /\ SummariserTask(task["summariser"])
    /\ \A p \in Live!Publishers : task[p].pc = "send" => task[p].at \in Browsers

\* What was read since the last transition that was announced.
Fresh(n) == n \in moved .. counts

\* The counts it publishes are fresh, unless there will be others.
CountsFollow ==
    task["summariser"].pc \in {"deliver", "send"} =>
        Fresh(task["summariser"].msg.of) \/ Announcing

\* A stream is on the bus while it listens, and unknown before.
StreamsSound ==
    /\ \A s \in Browsers : Listening(stream[s]) => s \in subs
    /\ \A s \in Browsers : stream[s] = "none" =>
          chan[s] = <<>> /\ s \notin subs /\ \A p \in Live!Publishers : ~Owes(task[p], s)

\* What a listening browser will come to show is right, or will be put right.
HeadersFollow ==
    \A s \in Browsers \ missed : \A n :
        Listening(stream[s]) /\ WillShow(stream[s], chan[s], shown[s], n) =>
            Fresh(n) \/ Announcing \/ Owes(task["summariser"], s)

\* The inductive invariant.
LiveInv == LiveTypes /\ PublishersSound /\ CountsFollow /\ StreamsSound /\ HeadersFollow

\* What a message in the channel does to what will be shown.
LEMMA MonitorAppended ==
    ASSUME NEW ch \in Seq(LiveMessages), NEW m \in LiveMessages, m.kind = "monitor", NEW st, NEW sh,
           NEW n,
           WillShow(st, Append(ch, m), sh, n)
    PROVE  WillShow(st, ch, sh, n)
  <1> DEFINE d == Append(ch, m)
  <1>1. /\ Len(ch) \in Nat /\ Len(d) = Len(ch) + 1 /\ d[Len(ch) + 1] = m
        /\ \A i \in 1 .. Len(ch) : d[i] = ch[i] /\ i \in 1 .. Len(d)
        /\ Len(ch) + 1 \in 1 .. Len(d)
    OBVIOUS
  <1> HIDE DEF d
  <1>2. CASE \E i \in 1 .. Len(d) : d[i].kind = "summary" /\ d[i].of = n
                 /\ \A j \in i + 1 .. Len(d) : d[j].kind # "summary"
    <2> PICK i \in 1 .. Len(d) : d[i].kind = "summary" /\ d[i].of = n
                 /\ \A j \in i + 1 .. Len(d) : d[j].kind # "summary"
      BY <1>2
    <2>1. i \in 1 .. Len(ch)
      BY <1>1
    <2>2. \A j \in i + 1 .. Len(ch) : ch[j].kind # "summary"
      <3> TAKE j \in i + 1 .. Len(ch)
      <3>1. j \in i + 1 .. Len(d) /\ j \in 1 .. Len(ch)
        BY <1>1, <2>1
      <3> QED
        BY <1>1, <3>1
    <2> QED
      BY <1>1, <2>1, <2>2 DEF WillShow
  <1>3. CASE (\A i \in 1 .. Len(d) : d[i].kind # "summary") /\ st = "open" /\ sh = n
    <2>1. \A i \in 1 .. Len(ch) : ch[i].kind # "summary"
      BY <1>1, <1>3
    <2> QED
      BY <2>1, <1>3 DEF WillShow
  <1>4. WillShow(st, d, sh, n)
    BY DEF d
  <1> QED
    BY <1>2, <1>3, <1>4 DEF WillShow

LEMMA SummaryAppended ==
    ASSUME NEW ch \in Seq(LiveMessages), NEW m \in LiveMessages, m.kind = "summary", NEW st, NEW sh,
           NEW n,
           WillShow(st, Append(ch, m), sh, n)
    PROVE  n = m.of
  <1> DEFINE d == Append(ch, m)
  <1>1. /\ Len(ch) \in Nat /\ Len(d) = Len(ch) + 1 /\ d[Len(ch) + 1] = m
        /\ Len(ch) + 1 \in 1 .. Len(d)
    OBVIOUS
  <1>2. WillShow(st, d, sh, n)
    OBVIOUS
  <1> HIDE DEF d
  <1>3. \A i \in 1 .. Len(d) : i = Len(ch) + 1 \/ Len(ch) + 1 \in i + 1 .. Len(d)
    BY <1>1
  <1> QED
    BY <1>1, <1>2, <1>3 DEF WillShow

LEMMA MessageRead ==
    ASSUME NEW ch \in Seq(LiveMessages), ch # <<>>, NEW sh, NEW new, NEW n,
           new = IF Head(ch).kind = "summary" THEN Head(ch).of ELSE sh,
           WillShow("open", Tail(ch), new, n)
    PROVE  WillShow("open", ch, sh, n)
  <1> DEFINE d == Tail(ch)
  <1>1. /\ Len(ch) \in Nat /\ Len(d) = Len(ch) - 1 /\ Head(ch) = ch[1] /\ 1 \in 1 .. Len(ch)
        /\ \A i \in 1 .. Len(d) : d[i] = ch[i + 1] /\ i + 1 \in 1 .. Len(ch)
    OBVIOUS
  <1>2. WillShow("open", d, new, n)
    OBVIOUS
  <1> HIDE DEF d
  <1>3. CASE \E i \in 1 .. Len(d) : d[i].kind = "summary" /\ d[i].of = n
                 /\ \A j \in i + 1 .. Len(d) : d[j].kind # "summary"
    <2> PICK i \in 1 .. Len(d) : d[i].kind = "summary" /\ d[i].of = n
                 /\ \A j \in i + 1 .. Len(d) : d[j].kind # "summary"
      BY <1>3
    <2>1. ch[i + 1].kind = "summary" /\ ch[i + 1].of = n /\ i + 1 \in 1 .. Len(ch)
      BY <1>1
    <2>2. \A j \in (i + 1) + 1 .. Len(ch) : ch[j].kind # "summary"
      <3> TAKE j \in (i + 1) + 1 .. Len(ch)
      <3>1. j - 1 \in i + 1 .. Len(d) /\ j - 1 \in 1 .. Len(d) /\ (j - 1) + 1 = j
        BY <1>1
      <3>2. d[j - 1].kind # "summary" /\ d[j - 1] = ch[(j - 1) + 1]
        BY <3>1, <1>1
      <3> QED
        BY <3>1, <3>2
    <2> QED
      BY <2>1, <2>2 DEF WillShow
  <1>4. CASE (\A i \in 1 .. Len(d) : d[i].kind # "summary") /\ new = n
    <2>1. \A j \in 2 .. Len(ch) : ch[j].kind # "summary"
      <3> TAKE j \in 2 .. Len(ch)
      <3>1. j - 1 \in 1 .. Len(d) /\ (j - 1) + 1 = j
        BY <1>1
      <3>2. d[j - 1].kind # "summary" /\ d[j - 1] = ch[(j - 1) + 1]
        BY <3>1, <1>1, <1>4
      <3> QED
        BY <3>1, <3>2
    <2>2. CASE ch[1].kind = "summary"
      <3>1. ch[1].of = n /\ 1 + 1 = 2
        BY <1>1, <1>4, <2>2
      <3> QED
        BY <1>1, <2>1, <2>2, <3>1 DEF WillShow
    <2>3. CASE ch[1].kind # "summary"
      <3>1. sh = n
        BY <1>1, <1>4, <2>3
      <3>2. \A j \in 1 .. Len(ch) : j = 1 \/ j \in 2 .. Len(ch)
        BY <1>1
      <3>3. \A j \in 1 .. Len(ch) : ch[j].kind # "summary"
        BY <2>1, <2>3, <3>2
      <3> QED
        BY <3>1, <3>3 DEF WillShow
    <2> QED
      BY <2>2, <2>3
  <1> QED
    BY <1>2, <1>3, <1>4 DEF WillShow

LEMMA StreamOpened ==
    ASSUME NEW ch, NEW sh, NEW c, NEW n, WillShow("open", ch, c, n)
    PROVE  n = c \/ WillShow("subscribed", ch, sh, n)
  BY DEF WillShow

LEMMA OpenedBare ==
    ASSUME NEW ch \in Seq(LiveMessages), NEW sh, NEW n, WillShow("open", ch, sh, n),
           \E i \in DOMAIN ch : ch[i].kind = "summary"
    PROVE  WillShow("subscribed", ch, sh, n)
  BY DEF WillShow

LEMMA NothingRead ==
    ASSUME NEW sh, NEW n
    PROVE  ~WillShow("subscribed", <<>>, sh, n)
  BY DEF WillShow

-----------------------------------------------------------------------------
(* The steps of the bus *)

\* Tasks of the publishers, and messages.
LEMMA LiveKinds ==
    /\ \A m \in Watched : Live!Update(m) \in LiveMessages /\ Live!Update(m).kind = "monitor"
           /\ Live!Update(m).of = m
    /\ \A m \in Watched : Live!Update(m) \in [kind : {"monitor"}, of : Watched]
    /\ \A n \in 0 .. MaxTransitions : /\ Live!Summary(n) \in LiveMessages /\ Live!Summary(n).of = n
                                      /\ Live!Summary(n) \in [kind : {"summary"},
                                             of : 0 .. MaxTransitions]
    /\ Live!Idle \in LiveTasks /\ Live!Idle.pc = "idle" /\ \A s : ~Owes(Live!Idle, s)
    /\ [kind : {"monitor"}, of : Watched] \subseteq LiveMessages
    /\ [kind : {"summary"}, of : 0 .. MaxTransitions] \subseteq LiveMessages
  BY DEF Live!Update, Live!Summary, LiveMessages, Live!Idle, LiveTasks, Owes

\* A publisher that goes on to task x.
LEMMA TaskChanged ==
    ASSUME LiveTypes, NEW p \in Live!Publishers, NEW x \in LiveTasks,
           task' = [task EXCEPT ![p] = x]
    PROVE  /\ task' \in [Live!Publishers -> LiveTasks]
           /\ task'[p] = x
           /\ \A q \in Live!Publishers : q # p => task'[q] = task[q]
           /\ \A q \in Live!Publishers : task'[q].pc \in {"idle", "saved", "drained", "deliver", "send",
                  "touch"}
  BY DEF LiveTypes, LiveTasks

\* The summariser is none of the ingests.
LEMMA WhoPublishes ==
    ASSUME Live!LiveBusAssumption
    PROVE  /\ "summariser" \in Live!Publishers /\ LiveIngests \subseteq Live!Publishers
                  /\ "summariser" \notin LiveIngests
           /\ \A p \in Live!Publishers : p # "summariser" => p \in LiveIngests
  BY DEF Live!LiveBusAssumption, Live!Publishers

\* A step in which a publisher goes from one task to the next, without a word
\* to any stream.
LEMMA TaskStep ==
    ASSUME Live!LiveBusAssumption, LiveInv, NEW p \in Live!Publishers, NEW x \in LiveTasks,
           task' = [task EXCEPT ![p] = x],
           UNCHANGED <<stream, chan, scope, subs, shown, missed>>,
           counts' \in 0 .. MaxTransitions, moved' \in 0 .. counts',
           dirty' \in BOOLEAN, crashed' \in BOOLEAN,
           Announcing => Announcing',
           UNCHANGED <<counts, moved>> \/ Announcing',
           x.pc = "send" => x.at \in Browsers,
           p \in LiveIngests => IngestTask(x),
           p = "summariser" => SummariserTask(x),
           p = "summariser" /\ x.pc \in {"deliver", "send"}
               => x.msg.of \in moved' .. counts' \/ Announcing',
           \A s \in Browsers : Owes(x, s) => stream[s] # "none",
           p = "summariser" => \A s \in Browsers \ missed : Listening(stream[s]) /\ Owes(task[p], s)
               => Owes(x, s)
    PROVE  LiveInv'
  <1>0. LiveTypes
    BY DEF LiveInv
  <1>1. LiveTypes'
    <2>1. /\ task' \in [Live!Publishers -> LiveTasks]
          /\ \A q \in Live!Publishers : task'[q].pc \in {"idle", "saved", "drained", "deliver", "send",
                 "touch"}
      BY <1>0, TaskChanged
    <2>2. Live!TypeOK'
      BY <1>0, <2>1 DEF LiveTypes, Live!TypeOK
    <2> QED
      BY <1>0, <2>1, <2>2 DEF LiveTypes
  <1>2. /\ task'[p] = x /\ \A q \in Live!Publishers : q # p => task'[q] = task[q]
    BY TaskChanged DEF LiveInv
  <1>3. PublishersSound' /\ CountsFollow'
    <2>1. \A q \in LiveIngests : IngestTask(task'[q])
      BY <1>2, WhoPublishes DEF LiveInv, PublishersSound
    <2>2. SummariserTask(task'["summariser"])
      BY <1>2, WhoPublishes DEF LiveInv, PublishersSound
    <2>3. \A q \in Live!Publishers : task'[q].pc = "send" => task'[q].at \in Browsers
      BY <1>2 DEF LiveInv, PublishersSound
    <2>4. CountsFollow'
      <3>1. CASE p = "summariser"
        BY <3>1, <1>2 DEF CountsFollow, Fresh
      <3>2. CASE p # "summariser"
        <4>1. task'["summariser"] = task["summariser"]
          BY <3>2, <1>2, WhoPublishes
        <4> QED
          BY <4>1 DEF LiveInv, CountsFollow, Fresh
      <3> QED
        BY <3>1, <3>2
    <2> QED
      BY <2>1, <2>2, <2>3, <2>4 DEF PublishersSound
  <1>4. StreamsSound'
    BY <1>2 DEF LiveInv, StreamsSound
  <1>6. HeadersFollow'
    <2> SUFFICES ASSUME NEW s \in Browsers \ missed, NEW n, Listening(stream[s]),
                        WillShow(stream[s], chan[s], shown[s], n)
                 PROVE  Fresh(n)' \/ Announcing' \/ Owes(task'["summariser"], s)
      BY DEF HeadersFollow
    <2>1. Fresh(n) \/ Announcing \/ Owes(task["summariser"], s)
      BY DEF LiveInv, HeadersFollow
    <2>2. Owes(task["summariser"], s) => Owes(task'["summariser"], s)
      BY <1>2, WhoPublishes
    <2> QED
      BY <2>1, <2>2 DEF Fresh
  <1> QED
    BY <1>1, <1>3, <1>4, <1>6 DEF LiveInv

\* A change that touches nobody leaves fresh what was fresh.
LEMMA SilenceKeeps ==
    ASSUME Live!LiveBusAssumption, LiveInv, Live!MovesSilently
    PROVE  LiveInv'
  <1>1. /\ counts' = counts + 1 /\ counts < MaxTransitions /\ counts \in 0 .. MaxTransitions
        /\ moved \in 0 .. counts /\ MaxTransitions \in Nat
        /\ UNCHANGED <<dirty, stream, chan, scope, subs, task, shown, missed, moved, crashed>>
    BY DEF Live!MovesSilently, LiveInv, LiveTypes, Live!TypeOK, Live!LiveBusAssumption
  <1>2. counts' \in 0 .. MaxTransitions /\ moved' \in 0 .. counts'
    BY <1>1
  <1>3. \A n : Fresh(n) => Fresh(n)'
    BY <1>1 DEF Fresh
  <1>4. Live!TypeOK'
    BY <1>1, <1>2 DEF LiveInv, LiveTypes, Live!TypeOK
  <1>5. LiveTypes' /\ PublishersSound' /\ StreamsSound'
    BY <1>1, <1>4 DEF LiveInv, LiveTypes, PublishersSound, StreamsSound
  <1>6. Announcing' <=> Announcing
    BY <1>1 DEF Announcing
  <1>7. CountsFollow'
    BY <1>1, <1>3, <1>6 DEF LiveInv, CountsFollow
  <1>8. HeadersFollow'
    BY <1>1, <1>3, <1>6 DEF LiveInv, HeadersFollow
  <1> QED
    BY <1>5, <1>7, <1>8 DEF LiveInv

\* What a publisher has to announce it goes on announcing.
LEMMA StillAnnouncing ==
    ASSUME Live!LiveBusAssumption, LiveTypes, NEW p \in Live!Publishers, NEW x \in LiveTasks,
           task' = [task EXCEPT ![p] = x], dirty \in BOOLEAN, dirty' \in BOOLEAN,
           dirty => dirty' \/ (p = "summariser" /\ x.pc = "drained"),
           p = "summariser" => task[p].pc # "drained" \/ x.pc = "drained" \/ dirty',
           p \in LiveIngests => task[p].pc = "idle" \/ x.pc # "idle" \/ dirty'
    PROVE  Announcing => Announcing'
  <1>1. /\ task'[p] = x /\ \A q \in Live!Publishers : q # p => task'[q] = task[q]
    BY TaskChanged
  <1>2. dirty => Announcing'
    BY <1>1 DEF Announcing
  <1>3. task["summariser"].pc = "drained" => Announcing'
    BY <1>1, WhoPublishes DEF Announcing
  <1>4. ASSUME NEW q \in LiveIngests, task[q].pc # "idle" PROVE Announcing'
    <2>1. task'[q].pc # "idle" \/ dirty'
      BY <1>1, <1>4, WhoPublishes
    <2> QED
      BY <2>1 DEF Announcing
  <1> QED
    BY <1>2, <1>3, <1>4 DEF Announcing

LEMMA IngestsKeep ==
    ASSUME Live!LiveBusAssumption, LiveInv, NEW p \in LiveIngests,
           Live!Publish(p) \/ \E m \in Watched : Live!Saves(p, m)
    PROVE  LiveInv'
  <1>0. /\ p \in Live!Publishers /\ p # "summariser" /\ task[p] \in LiveTasks
        /\ LiveTypes /\ counts \in 0 .. MaxTransitions /\ dirty \in BOOLEAN /\ crashed \in BOOLEAN
        /\ MaxTransitions \in Nat /\ moved \in 0 .. counts
    BY WhoPublishes DEF LiveInv, LiveTypes, Live!TypeOK, Live!LiveBusAssumption
  <1>1. CASE Live!Publish(p)
    <2> DEFINE to == {s \in subs : task[p].msg.of \in scope[s]}
               x == [task[p] EXCEPT !.pc = "deliver", !.to = to]
    <2>1. task[p].pc = "saved" /\ task[p].msg \in [kind : {"monitor"}, of : Watched]
      BY <1>1 DEF Live!Publish, LiveInv, PublishersSound, IngestTask
    <2>2. to \subseteq subs /\ subs \subseteq Browsers
      BY <1>0 DEF LiveTypes, Live!TypeOK
    <2>3. task' = [task EXCEPT ![p] = x]
      BY <1>0, <1>1 DEF Live!Publish, LiveTypes
    <2> HIDE DEF to
    <2>4. x \in LiveTasks /\ x.pc = "deliver" /\ x.msg = task[p].msg /\ x.to = to
      BY <1>0, <2>2 DEF LiveTasks
    <2> HIDE DEF x
    <2>5. \A s \in Browsers : Owes(x, s) => stream[s] # "none"
      BY <2>2, <2>4 DEF Owes, LiveInv, StreamsSound
    <2>6. IngestTask(x)
      BY <2>1, <2>4 DEF IngestTask
    <2>7. UNCHANGED <<stream, chan, scope, subs, shown, missed, moved, counts, dirty, crashed>>
      BY <1>1 DEF Live!Publish
    <2>8. Announcing => Announcing'
      BY <1>0, <2>3, <2>4, <2>7, StillAnnouncing
    <2> QED
      BY <1>0, <2>3, <2>4, <2>5, <2>6, <2>7, <2>8, TaskStep
  <1>2. ASSUME NEW m \in Watched, Live!Saves(p, m) PROVE LiveInv'
    <2> DEFINE x == [Live!Idle EXCEPT !.pc = "saved", !.msg = Live!Update(m)]
    <2>1. task' = [task EXCEPT ![p] = x]
      BY <1>2 DEF Live!Saves
    <2>2. x \in LiveTasks /\ x.pc = "saved" /\ x.msg = Live!Update(m)
      BY LiveKinds DEF Live!Idle, LiveTasks
    <2> HIDE DEF x
    <2>3. UNCHANGED <<stream, chan, scope, subs, shown, missed, dirty, crashed>>
          /\ counts' \in 0 .. MaxTransitions /\ moved' \in 0 .. counts'
      <3>1. counts < MaxTransitions /\ counts' = counts + 1 /\ moved' = counts'
        BY <1>2 DEF Live!Saves
      <3>2. counts' \in 0 .. MaxTransitions /\ moved' \in 0 .. counts'
        BY <1>0, <3>1
      <3> QED
        BY <1>2, <3>2 DEF Live!Saves
    <2>4. Announcing'
      <3>1. task'[p].pc = "saved"
        BY <1>0, <2>1, <2>2, TaskChanged
      <3> QED
        BY <3>1 DEF Announcing
    <2>5. IngestTask(x) /\ \A s \in Browsers : ~Owes(x, s)
      BY <2>2, LiveKinds DEF IngestTask, Owes
    <2> QED
      BY <1>0, <2>1, <2>2, <2>3, <2>4, <2>5, TaskStep
  <1> QED
    BY <1>1, <1>2

LEMMA LooksKeep ==
    ASSUME Live!LiveBusAssumption, LiveInv, NEW p \in Live!Publishers, NEW t \in Browsers,
           Live!Looks(p, t)
    PROVE  LiveInv'
  <1>0. /\ task[p] \in LiveTasks /\ task[p].pc = "deliver" /\ t \in task[p].to
        /\ LiveTypes /\ counts \in 0 .. MaxTransitions /\ dirty \in BOOLEAN /\ crashed \in BOOLEAN
        /\ moved \in 0 .. counts
    BY DEF LiveInv, LiveTypes, Live!TypeOK, Live!Looks
  <1>1. UNCHANGED <<stream, chan, scope, subs, shown, missed, moved, counts, dirty, crashed>>
    BY DEF Live!Looks
  <1>2. ASSUME NEW x \in LiveTasks, task' = [task EXCEPT ![p] = x],
               x.pc \in {"deliver", "send"}, x.pc = "send" => x.at = t,
               x.pc = "deliver" => ~Listening(stream[t]),
               x.msg = task[p].msg, x.to = task[p].to \ {t}
        PROVE  LiveInv'
    <2>1. Announcing => Announcing'
      BY <1>0, <1>1, <1>2, StillAnnouncing
    <2>2. p \in LiveIngests => IngestTask(x)
      BY <1>0, <1>2 DEF LiveInv, PublishersSound, IngestTask
    <2>3. p = "summariser" => SummariserTask(x)
      BY <1>0, <1>2 DEF LiveInv, PublishersSound, SummariserTask
    <2>4. p = "summariser" => x.msg.of \in moved' .. counts' \/ Announcing'
      BY <1>0, <1>1, <1>2, <2>1 DEF LiveInv, CountsFollow, Fresh
    <2>5. \A s \in Browsers : Owes(x, s) => Owes(task[p], s)
      BY <1>0, <1>2 DEF Owes
    <2>6. \A s \in Browsers : Owes(x, s) => stream[s] # "none"
      BY <2>5 DEF LiveInv, StreamsSound
    <2>7. \A s \in Browsers : Listening(stream[s]) /\ Owes(task[p], s) => Owes(x, s)
      BY <1>0, <1>2 DEF Owes
    <2>8. x.pc = "send" => x.at \in Browsers
      BY <1>2
    <2> QED
      BY <1>0, <1>1, <1>2, <2>1, <2>2, <2>3, <2>4, <2>6, <2>7, <2>8, TaskStep
  <1>3. CASE stream[t] \in {"closing", "removed", "closed"}
    <2> DEFINE x == [task[p] EXCEPT !.to = @ \ {t}]
    <2>1. task' = [task EXCEPT ![p] = x]
      BY <1>0, <1>3 DEF Live!Looks, LiveTypes
    <2>2. x \in LiveTasks /\ x.pc = "deliver" /\ x.msg = task[p].msg /\ x.to = task[p].to \ {t}
      BY <1>0 DEF LiveTasks
    <2> HIDE DEF x
    <2> QED
      BY <1>2, <1>3, <2>1, <2>2 DEF Listening
  <1>4. CASE stream[t] \notin {"closing", "removed", "closed"}
    <2> DEFINE x == [task[p] EXCEPT !.pc = "send", !.to = @ \ {t}, !.at = t]
    <2>1. task' = [task EXCEPT ![p] = x]
      BY <1>0, <1>4 DEF Live!Looks, LiveTypes
    <2>2. x \in LiveTasks /\ x.pc = "send" /\ x.at = t /\ x.msg = task[p].msg /\ x.to = task[p].to \ {t}
      BY <1>0 DEF LiveTasks
    <2> HIDE DEF x
    <2> QED
      BY <1>2, <2>1, <2>2
  <1> QED
    BY <1>3, <1>4

LEMMA SummariserKeeps ==
    ASSUME Live!LiveBusAssumption, LiveInv,
           Live!Drains \/ Live!CountsFail \/ Live!PublishSummary
             \/ \E p \in Live!Publishers : Live!Delivered(p)
    PROVE  LiveInv'
  <1> DEFINE u == "summariser"
  <1>0. /\ u \in Live!Publishers /\ task[u] \in LiveTasks
        /\ LiveTypes /\ counts \in 0 .. MaxTransitions /\ dirty \in BOOLEAN /\ crashed \in BOOLEAN
        /\ moved \in 0 .. counts
    BY WhoPublishes DEF LiveInv, LiveTypes, Live!TypeOK
  <1>1. UNCHANGED <<stream, chan, scope, subs, shown, missed, moved, counts, crashed>>
    BY DEF Live!Drains, Live!CountsFail, Live!PublishSummary, Live!Delivered
  <1>2. CASE Live!Drains
    <2> DEFINE x == [task[u] EXCEPT !.pc = "drained"]
    <2>1. task' = [task EXCEPT ![u] = x] /\ dirty' \in BOOLEAN /\ task[u] = Live!Idle
      BY <1>0, <1>2 DEF Live!Drains, LiveTypes
    <2>2. x \in LiveTasks /\ x.pc = "drained"
      BY <1>0 DEF LiveTasks
    <2> HIDE DEF x
    <2>3. Announcing'
      <3>1. task'[u].pc = "drained"
        BY <1>0, <2>1, <2>2, TaskChanged
      <3> QED
        BY <3>1 DEF Announcing
    <2>4. SummariserTask(x) /\ \A s \in Browsers : ~Owes(x, s)
      BY <2>2 DEF SummariserTask, Owes
    <2>5. \A s : ~Owes(task[u], s)
      BY <2>1, LiveKinds
    <2> QED
      BY <1>0, <1>1, <2>1, <2>2, <2>3, <2>4, <2>5, TaskStep, WhoPublishes
  <1>3. CASE Live!CountsFail
    <2>1. task' = [task EXCEPT ![u] = Live!Idle] /\ dirty' = TRUE /\ task[u].pc = "drained"
      BY <1>3 DEF Live!CountsFail
    <2>2. Announcing'
      BY <2>1 DEF Announcing
    <2>3. SummariserTask(Live!Idle) /\ \A s \in Browsers : ~Owes(Live!Idle, s)
      BY LiveKinds DEF SummariserTask
    <2>4. \A s : ~Owes(task[u], s)
      BY <2>1 DEF Owes
    <2> QED
      BY <1>0, <1>1, <2>1, <2>2, <2>3, <2>4, LiveKinds, TaskStep, WhoPublishes
  <1>4. CASE Live!PublishSummary
    <2> DEFINE x == [pc |-> "deliver", msg |-> Live!Summary(counts), to |-> subs, at |-> Nothing]
    <2>1. task' = [task EXCEPT ![u] = x] /\ task[u].pc = "drained" /\ dirty' = dirty
      BY <1>4 DEF Live!PublishSummary
    <2>2. subs \subseteq Browsers /\ Live!Summary(counts) \in LiveMessages
              /\ Live!Summary(counts).of = counts
          /\ Live!Summary(counts) \in [kind : {"summary"}, of : 0 .. MaxTransitions]
      BY <1>0, LiveKinds DEF LiveTypes, Live!TypeOK
    <2>3. x \in LiveTasks /\ x.pc = "deliver" /\ x.msg = Live!Summary(counts) /\ x.to = subs
      BY <2>2 DEF LiveTasks
    <2> HIDE DEF x
    <2>4. LiveInv'
      <3>1. /\ task' \in [Live!Publishers -> LiveTasks] /\ task'[u] = x
            /\ \A q \in Live!Publishers : q # u => task'[q] = task[q]
            /\ \A q \in Live!Publishers : task'[q].pc \in {"idle", "saved", "drained", "deliver",
                   "send", "touch"}
        BY <1>0, <2>1, <2>3, TaskChanged
      <3>2. Live!TypeOK'
        BY <1>0, <1>1, <2>1, <3>1 DEF LiveTypes, Live!TypeOK
      <3>3. LiveTypes'
        BY <1>0, <1>1, <3>1, <3>2 DEF LiveTypes
      <3>4. PublishersSound'
        BY <2>2, <2>3, <3>1, WhoPublishes DEF LiveInv, PublishersSound, SummariserTask, IngestTask
      <3>5. CountsFollow'
        BY <1>0, <1>1, <2>2, <2>3, <3>1 DEF CountsFollow, Fresh
      <3>6. \A s \in Browsers : Owes(x, s) <=> s \in subs
        BY <2>3 DEF Owes
      <3>7. StreamsSound'
        BY <1>1, <3>1, <3>6 DEF LiveInv, StreamsSound
      <3>8. HeadersFollow'
        BY <1>1, <3>1, <3>6 DEF LiveInv, StreamsSound, HeadersFollow, Fresh
      <3> QED
        BY <3>3, <3>4, <3>5, <3>7, <3>8 DEF LiveInv
    <2> QED
      BY <2>4
  <1>5. ASSUME NEW p \in Live!Publishers, Live!Delivered(p) PROVE LiveInv'
    <2>1. /\ task' = [task EXCEPT ![p] = Live!Idle] /\ dirty' = (dirty \/ p # u)
          /\ task[p].pc = "deliver" /\ task[p].to = {}
      BY <1>5 DEF Live!Delivered
    <2>2. dirty' \in BOOLEAN
      BY <1>0, <2>1
    <2>3. Announcing => Announcing'
      BY <1>0, <2>1, <2>2, LiveKinds, StillAnnouncing, WhoPublishes
    <2>4. SummariserTask(Live!Idle) /\ IngestTask(Live!Idle) /\ \A s \in Browsers : ~Owes(Live!Idle, s)
      BY LiveKinds DEF SummariserTask, IngestTask
    <2>5. \A s : ~Owes(task[p], s)
      BY <2>1 DEF Owes
    <2> QED
      BY <1>0, <1>1, <2>1, <2>2, <2>3, <2>4, <2>5, LiveKinds, TaskStep, WhoPublishes
  <1> QED
    BY <1>2, <1>3, <1>4, <1>5

LEMMA SendsKeep ==
    ASSUME Live!LiveBusAssumption, LiveInv, NEW p \in Live!Publishers, Live!Sends(p)
    PROVE  LiveInv'
  <1> DEFINE t == task[p].at
             m == task[p].msg
             x == [task[p] EXCEPT !.pc = "deliver", !.at = Nothing]
  <1>0. /\ task[p] \in LiveTasks /\ task[p].pc = "send" /\ t \in Browsers
        /\ LiveTypes /\ counts \in 0 .. MaxTransitions /\ dirty \in BOOLEAN /\ crashed \in BOOLEAN
        /\ missed \subseteq Browsers /\ BufferDepth \in Nat /\ chan \in [Browsers -> Seq(LiveMessages)]
    BY DEF LiveInv, LiveTypes, Live!TypeOK, Live!Sends, PublishersSound, Live!LiveBusAssumption
  <1>1. UNCHANGED <<counts, dirty, stream, scope, subs, shown, moved>>
    BY DEF Live!Sends
  <1>2. task' = [task EXCEPT ![p] = x]
    BY <1>0 DEF Live!Sends, LiveTypes
  <1>3. x \in LiveTasks /\ x.pc = "deliver" /\ x.msg = m /\ x.to = task[p].to
    BY <1>0 DEF LiveTasks
  <1> HIDE DEF x
  <1>4. m \in LiveMessages /\ (p = "summariser" => m.kind = "summary")
            /\ (p # "summariser" => m.kind = "monitor")
    BY <1>0, WhoPublishes, LiveKinds DEF LiveInv, PublishersSound, IngestTask, SummariserTask,
       LiveMessages
  <1>5. Announcing => Announcing'
    BY <1>0, <1>1, <1>2, <1>3, StillAnnouncing
  <1>6. /\ task' \in [Live!Publishers -> LiveTasks] /\ task'[p] = x
        /\ \A q \in Live!Publishers : q # p => task'[q] = task[q]
        /\ \A q \in Live!Publishers : task'[q].pc \in {"idle", "saved", "drained", "deliver", "send",
               "touch"}
    BY <1>0, <1>2, <1>3, TaskChanged
  <1>7. \/ crashed' = TRUE /\ chan' = chan /\ missed' = missed /\ stream[t] = "closed"
        \/ /\ crashed' = crashed /\ Len(chan[t]) < BufferDepth
           /\ missed' = IF m.kind = "summary" THEN missed \ {t} ELSE missed
           /\ chan' = [chan EXCEPT ![t] = Append(@, m)]
        \/ /\ crashed' = crashed /\ chan' = chan
           /\ missed' = IF m.kind = "summary" THEN missed \cup {t} ELSE missed
    BY DEF Live!Sends
  <1> HIDE DEF m, t
  <1>8. /\ chan' \in [Browsers -> Seq(LiveMessages)] /\ crashed' \in BOOLEAN
               /\ missed' \subseteq Browsers
        /\ \A s \in Browsers : Len(chan'[s]) <= BufferDepth
        /\ \A s \in missed : s # t \/ chan'[t] # Append(chan[t], m) \/ m.kind # "summary"
                              => s \in missed'
        /\ \A s \in Browsers : s # t => chan'[s] = chan[s]
        /\ chan'[t] = chan[t] \/ chan'[t] = Append(chan[t], m)
        /\ chan'[t] = chan[t] => stream[t] = "closed" \/ m.kind # "summary" \/ t \in missed'
    <2>1. CASE chan' = chan
      <3>1. missed' \subseteq Browsers /\ crashed' \in BOOLEAN
        BY <1>0, <1>7
      <3>2. stream[t] = "closed" \/ m.kind # "summary" \/ t \in missed'
                \/ chan' = [chan EXCEPT ![t] = Append(@, m)]
        BY <1>7
      <3>3. \A s \in Browsers : Len(chan[s]) <= BufferDepth
        BY <1>0 DEF LiveTypes, Live!TypeOK
      <3>4. chan' # [chan EXCEPT ![t] = Append(@, m)]
        <4>1. chan[t] \in Seq(LiveMessages)
          BY <1>0
        <4>2. Append(chan[t], m) # chan[t]
          <5>1. Len(Append(chan[t], m)) = Len(chan[t]) + 1 /\ Len(chan[t]) \in Nat
            BY <1>4, <4>1
          <5> QED
            BY <5>1
        <4> QED
          BY <1>0, <2>1, <4>2
      <3>5. missed \subseteq missed'
        BY <1>7, <3>4
      <3> QED
        BY <1>0, <2>1, <3>1, <3>2, <3>3, <3>4, <3>5
    <2>2. CASE chan' # chan
      <3>1. /\ crashed' = crashed /\ Len(chan[t]) < BufferDepth
            /\ missed' = IF m.kind = "summary" THEN missed \ {t} ELSE missed
            /\ chan' = [chan EXCEPT ![t] = Append(@, m)]
        BY <1>7, <2>2
      <3>2. chan[t] \in Seq(LiveMessages) /\ Append(chan[t], m) \in Seq(LiveMessages)
            /\ Len(Append(chan[t], m)) = Len(chan[t]) + 1 /\ Len(chan[t]) \in Nat
        BY <1>0, <1>4
      <3>3. chan' \in [Browsers -> Seq(LiveMessages)] /\ chan'[t] = Append(chan[t], m)
            /\ \A s \in Browsers : s # t => chan'[s] = chan[s]
        BY <1>0, <3>1, <3>2
      <3>4. \A s \in Browsers : Len(chan[s]) <= BufferDepth
        BY <1>0 DEF LiveTypes, Live!TypeOK
      <3>5. Len(Append(chan[t], m)) <= BufferDepth
        BY <1>0, <3>1, <3>2
      <3>6. Append(chan[t], m) # chan[t]
        BY <3>2
      <3> QED
        BY <1>0, <3>1, <3>3, <3>4, <3>5, <3>6
    <2> QED
      BY <2>1, <2>2
  <1>9. LiveTypes'
    <2>1. Live!TypeOK'
      BY <1>0, <1>1, <1>6, <1>8 DEF LiveTypes, Live!TypeOK
    <2> QED
      BY <1>0, <1>1, <1>6, <1>8, <2>1 DEF LiveTypes
  <1>10. PublishersSound' /\ CountsFollow'
    <2>1. PublishersSound'
      BY <1>0, <1>3, <1>6, WhoPublishes DEF LiveInv, PublishersSound, IngestTask, SummariserTask, m
    <2>2. CASE p = "summariser"
      <3>1. Fresh(m.of) \/ Announcing
        BY <2>2, <1>0 DEF LiveInv, CountsFollow, m
      <3>2. task'["summariser"].msg.of = m.of /\ UNCHANGED <<counts, moved>>
        BY <2>2, <1>1, <1>3, <1>6
      <3>3. Fresh(task["summariser"].msg.of)' \/ Announcing'
        BY <3>1, <3>2, <1>5 DEF Fresh
      <3> QED
        BY <2>1, <3>3 DEF CountsFollow
    <2>3. CASE p # "summariser"
      <3>1. task'["summariser"] = task["summariser"] /\ UNCHANGED <<counts, moved>>
        BY <2>3, <1>1, <1>6, WhoPublishes
      <3>2. task["summariser"].pc \in {"deliver", "send"} =>
              Fresh(task["summariser"].msg.of) \/ Announcing
        BY DEF LiveInv, CountsFollow
      <3>3. task'["summariser"].pc \in {"deliver", "send"} =>
              Fresh(task["summariser"].msg.of)' \/ Announcing'
        BY <3>1, <3>2, <1>5 DEF Fresh
      <3> QED
        BY <2>1, <3>3 DEF CountsFollow
    <2> QED
      BY <2>1, <2>2, <2>3
  <1>11. \A s \in Browsers : /\ Owes(x, s) => Owes(task[p], s)
                             /\ Owes(task[p], s) => Owes(x, s) \/ s = t
    BY <1>0, <1>3 DEF Owes, t
  <1>12. StreamsSound'
    <2>1. stream[t] # "none"
      BY <1>0 DEF LiveInv, StreamsSound, Owes, t
    <2> QED
      BY <2>1, <1>1, <1>6, <1>8, <1>11 DEF LiveInv, StreamsSound
  <1>13. HeadersFollow'
    <2> SUFFICES ASSUME NEW s \in Browsers \ missed', NEW n, Listening(stream[s]),
                        WillShow(stream[s], chan'[s], shown[s], n)
                 PROVE  Fresh(n) \/ Announcing' \/ Owes(task'["summariser"], s)
      BY <1>1 DEF HeadersFollow, Fresh
    <2>0. s \in Browsers
      OBVIOUS
    <2>1. CASE s # t
      <3>0. chan'[s] = chan[s] /\ s \notin missed
        BY <2>0, <2>1, <1>8
      <3>1. Fresh(n) \/ Announcing \/ Owes(task["summariser"], s)
        BY <2>0, <3>0 DEF LiveInv, HeadersFollow
      <3>2. Owes(task["summariser"], s) => Owes(task'["summariser"], s)
        <4>1. CASE p = "summariser"
          BY <4>1, <2>0, <2>1, <1>6, <1>11
        <4>2. CASE p # "summariser"
          BY <4>2, <1>6, WhoPublishes
        <4> QED
          BY <4>1, <4>2
      <3> QED
        BY <3>1, <3>2, <1>5
    <2>2. CASE s = t /\ m.kind = "monitor"
      <3>0. (chan'[s] = chan[s] \/ chan'[s] = Append(chan[s], m)) /\ chan[s] \in Seq(LiveMessages)
        BY <2>0, <2>2, <1>0, <1>8
      <3>1. WillShow(stream[s], chan[s], shown[s], n)
        <4>1. CASE chan'[s] = chan[s]
          BY <4>1
        <4>2. CASE chan'[s] = Append(chan[s], m) /\ chan[s] \in Seq(LiveMessages)
          <5>1. WillShow(stream[s], Append(chan[s], m), shown[s], n)
            BY <4>2
          <5> DEFINE ch == chan[s]
                     st == stream[s]
                     sh == shown[s]
          <5>2. ch \in Seq(LiveMessages) /\ WillShow(st, Append(ch, m), sh, n) /\ m \in LiveMessages
                    /\ m.kind = "monitor"
            BY <4>2, <5>1, <2>2, <1>4
          <5> HIDE DEF ch, st, sh
          <5>3. WillShow(st, ch, sh, n)
            BY <5>2, MonitorAppended
          <5> QED
            BY <5>3 DEF ch, st, sh
        <4> QED
          BY <3>0, <4>1, <4>2
      <3>2. Fresh(n) \/ Announcing \/ Owes(task["summariser"], s)
        <4>1. s \notin missed
          BY <2>2, <1>8
        <4> QED
          BY <4>1, <2>0, <3>1 DEF LiveInv, HeadersFollow
      <3>3. p # "summariser"
        BY <1>4, <2>2
      <3> QED
        BY <3>2, <3>3, <1>5, <1>6, WhoPublishes
    <2>3. CASE s = t /\ m.kind = "summary"
      <3>1. chan'[t] = Append(chan[t], m)
        BY <2>3, <1>8 DEF Listening
      <3>2. n = m.of
        BY <2>3, <3>1, <1>0, <1>4, SummaryAppended
      <3>3. p = "summariser"
        BY <2>3, <1>4
      <3>4. Fresh(m.of) \/ Announcing
        BY <3>3, <1>0 DEF LiveInv, CountsFollow, m
      <3> QED
        BY <3>2, <3>4, <1>5
    <2> QED
      BY <2>1, <2>2, <2>3, <1>4
  <1> QED
    BY <1>9, <1>10, <1>12, <1>13 DEF LiveInv

LEMMA StreamsKeep ==
    ASSUME Live!LiveBusAssumption, LiveInv, NEW t \in Browsers,
           \/ Live!Opens(t) \/ Live!Writes(t) \/ Live!Closes(t)
           \/ \E ids \in SUBSET Watched : Live!Subscribe(t, ids) \/ Live!SetScope(t, ids)
    PROVE  LiveInv'
  <1>0. /\ LiveTypes /\ Live!TypeOK
        /\ stream \in [Browsers -> {"none", "subscribed", "open", "closing", "removed", "closed"}]
        /\ chan \in [Browsers -> Seq(LiveMessages)]
               /\ shown \in [Browsers -> 0 .. MaxTransitions \cup {Nothing}]
        /\ counts \in 0 .. MaxTransitions /\ subs \subseteq Browsers
        /\ scope \in [Browsers -> SUBSET Watched]
        /\ \A s \in Browsers : Len(chan[s]) <= BufferDepth
        /\ missed \subseteq Browsers /\ moved \in 0 .. counts
    BY DEF LiveInv, LiveTypes, Live!TypeOK
  <1>1. UNCHANGED <<counts, dirty, task, moved, crashed>>
    BY DEF Live!Opens, Live!Writes, Live!Closes, Live!Subscribe, Live!SetScope
  <1>2. /\ Announcing' <=> Announcing
        /\ PublishersSound' /\ CountsFollow' /\ \A n : Fresh(n)' <=> Fresh(n)
    BY <1>1 DEF Announcing, LiveInv, PublishersSound, CountsFollow, Fresh
  <1>3. ASSUME missed' \subseteq Browsers, missed \subseteq missed',
               stream' \in [Browsers -> {"none", "subscribed", "open", "closing", "removed", "closed"}],
               chan' \in [Browsers -> Seq(LiveMessages)],
               shown' \in [Browsers -> 0 .. MaxTransitions \cup {Nothing}],
               \A s \in Browsers : Len(chan'[s]) <= BufferDepth,
               scope' \in [Browsers -> SUBSET Watched], subs' \subseteq Browsers,
               \A s \in Browsers : Listening(stream'[s]) => s \in subs',
               \A s \in Browsers : stream'[s] = "none" =>
                  stream[s] = "none" /\ chan'[s] = chan[s] /\ (s \in subs' => s \in subs),
               \A s \in Browsers \ missed' : \A n :
                  Listening(stream'[s]) /\ WillShow(stream'[s], chan'[s], shown'[s], n) =>
                     n = counts \/ (Listening(stream[s]) /\ WillShow(stream[s], chan[s], shown[s], n))
        PROVE  LiveInv'
    <2>1. LiveTypes'
      BY <1>0, <1>1, <1>3 DEF LiveTypes, Live!TypeOK
    <2>2. StreamsSound'
      BY <1>1, <1>3 DEF LiveInv, StreamsSound
    <2>3. HeadersFollow'
      <3> SUFFICES ASSUME NEW s \in Browsers \ missed', NEW n, Listening(stream'[s]),
                          WillShow(stream'[s], chan'[s], shown'[s], n)
                   PROVE  Fresh(n)' \/ Announcing' \/ Owes(task'["summariser"], s)
        BY DEF HeadersFollow
      <3>1. Fresh(counts)
        BY <1>0 DEF Fresh
      <3>2. CASE n = counts
        BY <3>1, <3>2, <1>2
      <3>3. CASE Listening(stream[s]) /\ WillShow(stream[s], chan[s], shown[s], n)
        <4>1. Fresh(n) \/ Announcing \/ Owes(task["summariser"], s)
          BY <1>3, <3>3 DEF LiveInv, HeadersFollow
        <4> QED
          BY <4>1, <1>1, <1>2
      <3> QED
        BY <1>3, <3>2, <3>3
    <2> QED
      BY <1>2, <2>1, <2>2, <2>3 DEF LiveInv
  <1>4. CASE Live!Opens(t)
    <2>0. /\ stream[t] = "subscribed" /\ stream' = [stream EXCEPT ![t] = "open"]
          /\ UNCHANGED <<chan, scope, subs>>
          /\ \/ shown' = [shown EXCEPT ![t] = counts] /\ missed' = missed
             \/ /\ shown' = shown
                /\ missed' = IF \E i \in DOMAIN chan[t] : chan[t][i].kind = "summary"
                               THEN missed ELSE missed \cup {t}
      BY <1>4 DEF Live!Opens
    <2>1. stream' \in [Browsers -> {"none", "subscribed", "open", "closing", "removed", "closed"}]
          /\ stream'[t] = "open" /\ \A s \in Browsers : s # t => stream'[s] = stream[s]
      BY <1>0, <2>0
    <2>2. \A s \in Browsers : Listening(stream'[s]) => s \in subs'
      BY <1>0, <2>0, <2>1 DEF LiveInv, StreamsSound, Listening
    <2>3. shown' \in [Browsers -> 0 .. MaxTransitions \cup {Nothing}]
          /\ missed' \subseteq Browsers /\ missed \subseteq missed'
          /\ \A s \in Browsers : s # t => shown'[s] = shown[s]
      BY <1>0, <2>0
    <2>4. ASSUME NEW s \in Browsers \ missed', NEW n,
                 Listening(stream'[s]), WillShow(stream'[s], chan'[s], shown'[s], n)
          PROVE  n = counts \/ (Listening(stream[s]) /\ WillShow(stream[s], chan[s], shown[s], n))
      <3>1. CASE s # t
        BY <2>0, <2>1, <2>3, <2>4, <3>1
      <3>2. CASE s = t /\ shown' = [shown EXCEPT ![t] = counts]
        <4>1. WillShow("open", chan[t], counts, n)
          BY <1>0, <2>0, <2>1, <2>4, <3>2
        <4> QED
          BY <4>1, <2>0, <3>2, StreamOpened DEF Listening
      <3>3. CASE s = t /\ shown' = shown /\ \E i \in DOMAIN chan[t] : chan[t][i].kind = "summary"
        <4>1. WillShow("open", chan[t], shown[t], n) /\ chan[t] \in Seq(LiveMessages)
          BY <1>0, <2>0, <2>1, <2>4, <3>3
        <4> QED
          BY <4>1, <2>0, <3>3, OpenedBare DEF Listening
      <3> QED
        BY <2>0, <2>4, <3>1, <3>2, <3>3
    <2>5. \A s \in Browsers : stream'[s] = "none" => stream[s] = "none"
      BY <2>0, <2>1
    <2> QED
      BY <1>0, <1>3, <2>0, <2>1, <2>2, <2>3, <2>4, <2>5
  <1>5. CASE Live!Writes(t)
    <2> DEFINE new == IF Head(chan[t]).kind = "summary" THEN Head(chan[t]).of ELSE shown[t]
    <2>1. /\ stream[t] = "open" /\ chan[t] # <<>> /\ chan' = [chan EXCEPT ![t] = Tail(@)]
          /\ UNCHANGED <<stream, scope, subs, missed>>
      BY <1>5 DEF Live!Writes
    <2>2. /\ chan[t] \in Seq(LiveMessages) /\ Tail(chan[t]) \in Seq(LiveMessages)
          /\ Len(Tail(chan[t])) = Len(chan[t]) - 1 /\ Len(chan[t]) \in Nat
                 /\ Head(chan[t]) \in LiveMessages
      BY <1>0, <2>1
    <2>3. /\ chan' \in [Browsers -> Seq(LiveMessages)] /\ chan'[t] = Tail(chan[t])
          /\ \A s \in Browsers : s # t => chan'[s] = chan[s]
      BY <1>0, <2>1, <2>2
    <2>4. \A s \in Browsers : Len(chan'[s]) <= BufferDepth
      <3>1. Len(chan[t]) <= BufferDepth /\ BufferDepth \in Nat
        BY <1>0 DEF Live!LiveBusAssumption
      <3>2. Len(chan'[t]) <= BufferDepth
        BY <3>1, <2>2, <2>3
      <3> QED
        BY <1>0, <2>3, <3>2
    <2>5. new \in 0 .. MaxTransitions \cup {Nothing}
      BY <1>0, <2>2 DEF LiveMessages
    <2>6. shown' = [shown EXCEPT ![t] = new]
      BY <1>0, <1>5 DEF Live!Writes
    <2> HIDE DEF new
    <2>7. /\ shown' \in [Browsers -> 0 .. MaxTransitions \cup {Nothing}] /\ shown'[t] = new
          /\ \A s \in Browsers : s # t => shown'[s] = shown[s]
      BY <1>0, <2>5, <2>6
    <2>8. \A n : WillShow("open", Tail(chan[t]), new, n) => WillShow("open", chan[t], shown[t], n)
      BY <2>1, <2>2, MessageRead DEF new
    <2>9. \A s \in Browsers : \A n :
             Listening(stream'[s]) /\ WillShow(stream'[s], chan'[s], shown'[s], n) =>
                n = counts \/ (Listening(stream[s]) /\ WillShow(stream[s], chan[s], shown[s], n))
      BY <2>1, <2>3, <2>7, <2>8
    <2>10. \A s \in Browsers : stream'[s] = "none" => s # t
      BY <2>1
    <2>11. \A s \in Browsers : Listening(stream'[s]) => s \in subs'
      BY <2>1 DEF LiveInv, StreamsSound
    <2> QED
      BY <1>0, <1>3, <2>1, <2>3, <2>4, <2>7, <2>9, <2>10, <2>11
  <1>6. CASE Live!Closes(t)
    <2>1. /\ stream[t] # "none" /\ UNCHANGED <<chan, scope, shown, missed>>
          /\ \E st \in {"closing", "removed", "closed"} : stream' = [stream EXCEPT ![t] = st]
          /\ subs' \in {subs, subs \ {t}}
      BY <1>6 DEF Live!Closes
    <2>2. stream' \in [Browsers -> {"none", "subscribed", "open", "closing", "removed", "closed"}]
          /\ stream'[t] \in {"closing", "removed", "closed"} /\ \A s \in Browsers : s # t
                 => stream'[s] = stream[s]
      BY <1>0, <2>1
    <2>3. ~Listening(stream'[t])
      BY <2>2 DEF Listening
    <2>4. \A s \in Browsers : Listening(stream'[s]) => s \in subs'
      BY <2>1, <2>2, <2>3 DEF LiveInv, StreamsSound
    <2>5. \A s \in Browsers : \A n :
             Listening(stream'[s]) /\ WillShow(stream'[s], chan'[s], shown'[s], n) =>
                n = counts \/ (Listening(stream[s]) /\ WillShow(stream[s], chan[s], shown[s], n))
      BY <2>1, <2>2, <2>3
    <2>6. \A s \in Browsers : stream'[s] = "none" => stream[s] = "none" /\ (s \in subs' => s \in subs)
      BY <2>1, <2>2
    <2> QED
      BY <1>0, <1>3, <2>1, <2>2, <2>4, <2>5, <2>6
  <1>7. ASSUME NEW ids \in SUBSET Watched, Live!Subscribe(t, ids) PROVE LiveInv'
    <2>1. /\ stream[t] = "none" /\ stream' = [stream EXCEPT ![t] = "subscribed"]
          /\ scope' = [scope EXCEPT ![t] = ids] /\ subs' = subs \cup {t}
          /\ UNCHANGED <<chan, shown, missed>>
      BY <1>7 DEF Live!Subscribe
    <2>2. chan[t] = <<>>
      BY <2>1 DEF LiveInv, StreamsSound
    <2>3. stream' \in [Browsers -> {"none", "subscribed", "open", "closing", "removed", "closed"}]
          /\ stream'[t] = "subscribed" /\ \A s \in Browsers : s # t => stream'[s] = stream[s]
      BY <1>0, <2>1
    <2>4. \A s \in Browsers : \A n :
             Listening(stream'[s]) /\ WillShow(stream'[s], chan'[s], shown'[s], n) =>
                n = counts \/ (Listening(stream[s]) /\ WillShow(stream[s], chan[s], shown[s], n))
      BY <2>1, <2>2, <2>3, NothingRead
    <2>5. \A s \in Browsers : Listening(stream'[s]) => s \in subs'
      BY <2>1, <2>3 DEF LiveInv, StreamsSound
    <2>6. \A s \in Browsers : stream'[s] = "none" => stream[s] = "none" /\ (s \in subs' => s \in subs)
      BY <2>1, <2>3
    <2>7. scope' \in [Browsers -> SUBSET Watched] /\ subs' \subseteq Browsers
      BY <1>0, <2>1
    <2> QED
      BY <1>0, <1>3, <2>1, <2>3, <2>4, <2>5, <2>6, <2>7
  <1>8. ASSUME NEW ids \in SUBSET Watched, Live!SetScope(t, ids) PROVE LiveInv'
    <2>1. scope' = [scope EXCEPT ![t] = ids] /\ UNCHANGED <<stream, chan, shown, subs, missed>>
      BY <1>8 DEF Live!SetScope
    <2>2. scope' \in [Browsers -> SUBSET Watched]
      BY <1>0, <2>1
    <2>3. \A s \in Browsers : Listening(stream'[s]) => s \in subs'
      BY <2>1 DEF LiveInv, StreamsSound
    <2> QED
      BY <1>0, <1>3, <2>1, <2>2, <2>3
  <1> QED
    BY <1>4, <1>5, <1>6, <1>7, <1>8

LEMMA LiveInit == Live!LiveBusAssumption /\ Live!Init => LiveInv
  <1> SUFFICES ASSUME Live!LiveBusAssumption, Live!Init PROVE LiveInv
    OBVIOUS
  <1>0. <<>> \in Seq(LiveMessages) /\ Len(<<>>) = 0 /\ 0 \in 0 .. MaxTransitions /\ 0 <= BufferDepth
        /\ counts = 0 /\ moved \in 0 .. counts
    BY DEF Live!Init, Live!LiveBusAssumption
  <1>1. \A p \in Live!Publishers : task[p] = Live!Idle
    BY DEF Live!Init
  <1>2. task \in [Live!Publishers -> LiveTasks]
    BY LiveKinds DEF Live!Init
  <1>3. Live!TypeOK
    BY <1>0, <1>1, LiveKinds DEF Live!Init, Live!TypeOK
  <1>4. LiveTypes
    BY <1>0, <1>2, <1>3 DEF Live!Init, LiveTypes
  <1>5. PublishersSound /\ CountsFollow
    BY <1>1, LiveKinds, WhoPublishes DEF PublishersSound, CountsFollow, IngestTask, SummariserTask
  <1>6. StreamsSound /\ HeadersFollow
    BY <1>1, LiveKinds DEF Live!Init, StreamsSound, HeadersFollow, Listening
  <1> QED
    BY <1>4, <1>5, <1>6 DEF LiveInv

LEMMA LiveStep == Live!LiveBusAssumption /\ LiveInv /\ [Live!Next]_(Live!vars) => LiveInv'
  <1> SUFFICES ASSUME Live!LiveBusAssumption, LiveInv, [Live!Next]_(Live!vars) PROVE LiveInv'
    OBVIOUS
  <1>1. CASE Live!Next
    BY <1>1, IngestsKeep, SilenceKeeps, SendsKeep, LooksKeep, SummariserKeeps, StreamsKeep
       DEF Live!Next
  <1>2. CASE UNCHANGED Live!vars
    <2>1. UNCHANGED <<counts, dirty, stream, chan, scope, subs, task, shown, missed, moved, crashed>>
      BY <1>2 DEF Live!vars
    <2>2. LiveTypes'
      BY <2>1 DEF LiveInv, LiveTypes, Live!TypeOK
    <2>3. PublishersSound' /\ CountsFollow' /\ StreamsSound' /\ HeadersFollow'
      BY <2>1 DEF LiveInv, PublishersSound, CountsFollow, StreamsSound, HeadersFollow, Announcing,
         Fresh
    <2> QED
      BY <2>2, <2>3 DEF LiveInv
  <1> QED
    BY <1>1, <1>2

LEMMA LiveSound ==
    ASSUME Live!LiveBusAssumption PROVE Live!Spec => []LiveInv
  <1>1. Live!Init => LiveInv
    BY LiveInit
  <1>2. LiveInv /\ [Live!Next]_(Live!vars) => LiveInv'
    BY LiveStep
  <1> QED
    BY <1>1, <1>2, PTL DEF Live!Spec

\* The bus keeps its types, and no channel holds more than its depth
\* (bus.go, deliver).
THEOREM LiveTypesKept ==
    ASSUME Live!LiveBusAssumption PROVE Live!Spec => []Live!TypeOK
  <1>1. LiveInv => Live!TypeOK
    BY DEF LiveInv, LiveTypes
  <1> QED
    BY <1>1, LiveSound, PTL

\* When nothing is on its way the header of every open browser shows counts no
\* older than the last transition announced, for any number of browsers and
\* ingests at once, of changes that announce nothing and of failed reads; its
\* last summary dropped, or no summary after a failed opening read, is the
\* exception (Summariser.Run, bus.Publish, streamUpdates).
THEOREM HeadersComeRight ==
    ASSUME Live!LiveBusAssumption PROVE Live!Spec => []HeaderIsRight
  <1>1. LiveInv => HeaderIsRight
    <2> SUFFICES ASSUME LiveInv, Live!Settled, NEW s \in Browsers \ missed,
                        stream[s] = "open", chan[s] = <<>>
                 PROVE  shown[s] \in moved .. counts
      BY DEF HeaderIsRight, Live!HeaderIsRight
    <2>1. ~Announcing /\ ~Owes(task["summariser"], s)
      BY WhoPublishes, LiveKinds DEF Live!Settled, Announcing
    <2>2. \A n : shown[s] = n => WillShow(stream[s], chan[s], shown[s], n)
      BY DEF WillShow
    <2>3. shown[s] \in 0 .. MaxTransitions \cup {Nothing}
      BY DEF LiveInv, LiveTypes
    <2> QED
      BY <2>1, <2>2, <2>3 DEF LiveInv, HeadersFollow, Listening, Fresh
  <1> QED
    BY <1>1, LiveSound, PTL

-----------------------------------------------------------------------------
(* Outbound webhooks (Webhooks) *)

\* Two attempts at the same delivery.
Same(j, k) == j.hook = k.hook /\ j.event = k.event

\* Job j is in the queue, with a worker or on a timer.
Placed(q, at, ts, j) ==
    \/ \E i \in 1 .. Len(q) : q[i] = j
    \/ \E w \in HookWorkers : at[w] = j
    \/ j \in ts

\* No two of these places hold attempts at one delivery.
OnePlace(q, at, ts) ==
    /\ \A i, k \in 1 .. Len(q) : Same(q[i], q[k]) => i = k
    /\ \A w, v \in HookWorkers : at[w] # NoHook /\ at[v] # NoHook /\ Same(at[w], at[v]) => w = v
    /\ \A j, k \in ts : Same(j, k) => j = k
    /\ \A i \in 1 .. Len(q), w \in HookWorkers : at[w] # NoHook => ~Same(q[i], at[w])
    /\ \A i \in 1 .. Len(q), j \in ts : ~Same(q[i], j)
    /\ \A w \in HookWorkers, j \in ts : at[w] # NoHook => ~Same(at[w], j)

\* A delivery that was not enqueued yet: its event is unpublished, or its
\* fan-out has not come to it.
Unsent(f, h, e) == f[e] = NoHook \/ h \in f[e]

\* Nothing is placed or logged before it is enqueued.
FanSound(f, q, at, ts, lg) ==
    \A h \in Hooks, e \in Occurrences : Unsent(f, h, e) =>
        /\ \A d \in lg : ~(d[1] = h /\ d[2] = e /\ d[5] = "dispatcher")
        /\ \A j \in Outbound!Jobs : Placed(q, at, ts, j) => ~(j.hook = h /\ j.event = e)

\* What the dispatcher logged of a delivery that is still placed are the
\* failures of the attempts before.
LogBefore(q, at, ts, lg) ==
    \A d \in lg, j \in Outbound!Jobs :
        Placed(q, at, ts, j) /\ j.hook = d[1] /\ j.event = d[2] /\ d[5] = "dispatcher"
            => d[3] < j.attempt /\ ~d[4]

Outcomes == Hooks \X Occurrences \X Nat \X BOOLEAN \X {"dispatcher", "request"}

HookTypes ==
    /\ Outbound!TypeOK
    /\ hook \in [Hooks -> Outbound!Row \cup {NoHook}]
    /\ fan \in [Occurrences -> (SUBSET Hooks) \cup {NoHook}]
    /\ worker \in [HookWorkers -> Outbound!Jobs \cup {NoHook}]
    /\ edit = NoHook \/ edit \in [hook : Hooks, row : Outbound!Row]
    /\ hooksLog \subseteq Outcomes
    /\ streak \in [Hooks -> Nat]

\* The inductive invariant of deliveries.
JobsInv ==
    /\ HookTypes
    /\ OnePlace(hooksQueue, worker, hooksTimers)
    /\ FanSound(fan, hooksQueue, worker, hooksTimers, hooksLog)
    /\ LogBefore(hooksQueue, worker, hooksTimers, hooksLog)

-----------------------------------------------------------------------------
(* Places *)

LEMMA JobFields ==
    ASSUME NEW j \in Outbound!Jobs
    PROVE  /\ j.hook \in Hooks /\ j.event \in Occurrences /\ j.attempt \in 1 .. HookAttempts
           /\ \A k \in Outbound!Jobs : Same(j, k) /\ j.attempt = k.attempt => j = k
  BY DEF Outbound!Jobs, Same

\* The worker takes the head of the queue.
LEMMA Taken ==
    ASSUME NEW q \in Seq(Outbound!Jobs), q # <<>>, NEW ts \in SUBSET Outbound!Jobs,
           NEW at \in [HookWorkers -> Outbound!Jobs \cup {NoHook}], NEW w \in HookWorkers,
           at[w] = NoHook,
           NoHook \notin Outbound!Jobs, OnePlace(q, at, ts), NEW new, new = [at EXCEPT ![w] = Head(q)]
    PROVE  /\ OnePlace(Tail(q), new, ts)
           /\ \A j \in Outbound!Jobs : Placed(Tail(q), new, ts, j) => Placed(q, at, ts, j)
  <1> DEFINE t == Tail(q)
  <1>1. /\ Len(q) \in Nat /\ Len(t) = Len(q) - 1 /\ 1 \in 1 .. Len(q) /\ Head(q) = q[1]
        /\ \A i \in 1 .. Len(t) : i + 1 \in 1 .. Len(q) /\ t[i] = q[i + 1] /\ i + 1 # 1
        /\ \A i, k \in 1 .. Len(t) : i + 1 = k + 1 => i = k
    OBVIOUS
  <1>2. new[w] = q[1] /\ \A v \in HookWorkers : v # w => new[v] = at[v]
    BY <1>1
  <1> HIDE DEF t
  <1>3. OnePlace(t, new, ts)
    <2>1. \A i, k \in 1 .. Len(t) : Same(t[i], t[k]) => i = k
      BY <1>1 DEF OnePlace
    <2>2. \A v, u \in HookWorkers : new[v] # NoHook /\ new[u] # NoHook /\ Same(new[v], new[u]) => v = u
      BY <1>1, <1>2 DEF OnePlace, Same
    <2>3. \A i \in 1 .. Len(t), v \in HookWorkers : new[v] # NoHook => ~Same(t[i], new[v])
      BY <1>1, <1>2 DEF OnePlace
    <2>4. \A i \in 1 .. Len(t), j \in ts : ~Same(t[i], j)
      BY <1>1 DEF OnePlace
    <2>5. \A v \in HookWorkers, j \in ts : new[v] # NoHook => ~Same(new[v], j)
      BY <1>1, <1>2 DEF OnePlace
    <2> QED
      BY <2>1, <2>2, <2>3, <2>4, <2>5 DEF OnePlace
  <1>4. \A j \in Outbound!Jobs : Placed(t, new, ts, j) => Placed(q, at, ts, j)
    BY <1>1, <1>2 DEF Placed
  <1> QED
    BY <1>3, <1>4 DEF t

\* A job no attempt of which is placed enters the queue, or is shed.
LEMMA Enqueued ==
    ASSUME NEW q \in Seq(Outbound!Jobs), NEW ts \in SUBSET Outbound!Jobs,
           NEW at \in [HookWorkers -> Outbound!Jobs \cup {NoHook}], NEW x \in Outbound!Jobs,
           OnePlace(q, at, ts), \A j \in Outbound!Jobs : Placed(q, at, ts, j) => ~Same(j, x),
           NEW new, new = q \/ new = Append(q, x)
    PROVE  /\ OnePlace(new, at, ts)
           /\ \A j \in Outbound!Jobs : Placed(new, at, ts, j) => Placed(q, at, ts, j) \/ j = x
           /\ new \in Seq(Outbound!Jobs)
  <1>1. CASE new = q
    BY <1>1
  <1>2. CASE new = Append(q, x)
    <2>1. /\ Len(q) \in Nat /\ Len(new) = Len(q) + 1 /\ new[Len(q) + 1] = x
                 /\ new \in Seq(Outbound!Jobs)
          /\ \A i \in 1 .. Len(q) : new[i] = q[i] /\ q[i] \in Outbound!Jobs
          /\ \A i \in 1 .. Len(new) : i \in 1 .. Len(q) \/ i = Len(q) + 1
      BY <1>2
    <2>2. /\ \A i \in 1 .. Len(q) : ~Same(q[i], x)
          /\ \A w \in HookWorkers : at[w] # NoHook => ~Same(at[w], x)
          /\ \A j \in ts : ~Same(j, x)
      BY <2>1 DEF Placed
    <2>3. OnePlace(new, at, ts)
      <3>1. \A i, k \in 1 .. Len(new) : Same(new[i], new[k]) => i = k
        BY <2>1, <2>2 DEF OnePlace, Same
      <3>2. \A i \in 1 .. Len(new), w \in HookWorkers : at[w] # NoHook => ~Same(new[i], at[w])
        BY <2>1, <2>2 DEF OnePlace, Same
      <3>3. \A i \in 1 .. Len(new), j \in ts : ~Same(new[i], j)
        BY <2>1, <2>2 DEF OnePlace, Same
      <3> QED
        BY <3>1, <3>2, <3>3 DEF OnePlace
    <2>4. \A j \in Outbound!Jobs : Placed(new, at, ts, j) => Placed(q, at, ts, j) \/ j = x
      BY <2>1 DEF Placed
    <2> QED
      BY <2>1, <2>3, <2>4
  <1> QED
    BY <1>1, <1>2

\* Worker w frees itself and leaves the timers more, which may be job x.
HandOver(q, at, ts, w, x, free, more) ==
    /\ q \in Seq(Outbound!Jobs) /\ ts \in SUBSET Outbound!Jobs
           /\ at \in [HookWorkers -> Outbound!Jobs \cup {NoHook}]
    /\ NoHook \notin Outbound!Jobs /\ OnePlace(q, at, ts) /\ at[w] # NoHook
           /\ free = [at EXCEPT ![w] = NoHook]
    /\ x \in Outbound!Jobs /\ Same(x, at[w])
    /\ more = ts \/ more = ts \cup {x}

\* The worker is done; a timer may hold the next attempt.
LEMMA HandedOn ==
    ASSUME NEW q, NEW at, NEW ts, NEW w \in HookWorkers, NEW x, NEW free, NEW more,
           HandOver(q, at, ts, w, x, free, more)
    PROVE  /\ OnePlace(q, free, more)
           /\ \A j \in Outbound!Jobs : Placed(q, free, more, j) =>
                 \/ Placed(q, at, ts, j) /\ ~Same(j, at[w])
                 \/ j = x /\ more # ts
  <1> USE DEF HandOver
  <1>1. free[w] = NoHook /\ \A v \in HookWorkers : v # w => free[v] = at[v]
    OBVIOUS
  <1>2. /\ \A i \in 1 .. Len(q) : ~Same(q[i], x) /\ ~Same(q[i], at[w])
        /\ \A v \in HookWorkers : v # w /\ at[v] # NoHook => ~Same(at[v], x) /\ ~Same(at[v], at[w])
        /\ \A j \in ts : ~Same(j, x) /\ ~Same(j, at[w])
    BY DEF OnePlace, Same
  <1>3. OnePlace(q, free, more)
    <2>1. \A v, u \in HookWorkers : free[v] # NoHook /\ free[u] # NoHook /\ Same(free[v], free[u])
              => v = u
      BY <1>1 DEF OnePlace
    <2>2. \A j, k \in more : Same(j, k) => j = k
      BY <1>2 DEF OnePlace, Same
    <2>3. \A i \in 1 .. Len(q), v \in HookWorkers : free[v] # NoHook => ~Same(q[i], free[v])
      BY <1>1 DEF OnePlace
    <2>4. \A i \in 1 .. Len(q), j \in more : ~Same(q[i], j)
      BY <1>2 DEF OnePlace
    <2>5. \A v \in HookWorkers, j \in more : free[v] # NoHook => ~Same(free[v], j)
      BY <1>1, <1>2 DEF OnePlace
    <2> QED
      BY <2>1, <2>2, <2>3, <2>4, <2>5 DEF OnePlace
  <1>4. \A j \in Outbound!Jobs : Placed(q, free, more, j) =>
                 \/ Placed(q, at, ts, j) /\ ~Same(j, at[w])
                 \/ j = x /\ more # ts
    BY <1>1, <1>2 DEF Placed
  <1> QED
    BY <1>3, <1>4

\* A timer that fires holds its attempt no more.
LEMMA Fired ==
    ASSUME NEW q, NEW at, NEW ts, NEW x \in ts, OnePlace(q, at, ts), NoHook \notin Outbound!Jobs
    PROVE  /\ OnePlace(q, at, ts \ {x})
           /\ \A j \in Outbound!Jobs : Placed(q, at, ts \ {x}, j) => Placed(q, at, ts, j)
           /\ \A j \in Outbound!Jobs : Placed(q, at, ts \ {x}, j) => ~Same(j, x)
  BY DEF OnePlace, Placed, Same

\* A full queue sheds.
LEMMA Shed ==
    ASSUME NEW x, Outbound!Enqueue(x)
    PROVE  (hooksQueue' = hooksQueue \/ hooksQueue' = Append(hooksQueue, x))
               /\ (hooksQueue' # hooksQueue => Len(hooksQueue) < HookDepth)
  BY DEF Outbound!Enqueue

-----------------------------------------------------------------------------
(* The steps of a delivery *)

\* What a step may do to the places, the log and the fan-outs.
LEMMA JobsStay ==
    ASSUME JobsInv, HookTypes',
           OnePlace(hooksQueue', worker', hooksTimers'),
           \A h \in Hooks, e \in Occurrences : Unsent(fan', h, e) => Unsent(fan, h, e),
           \A j \in Outbound!Jobs : Placed(hooksQueue', worker', hooksTimers', j)
               => Placed(hooksQueue, worker, hooksTimers, j),
           hooksLog' \subseteq hooksLog
    PROVE  JobsInv'
  <1>1. FanSound(fan', hooksQueue', worker', hooksTimers', hooksLog')
    BY DEF JobsInv, FanSound
  <1>2. LogBefore(hooksQueue', worker', hooksTimers', hooksLog')
    BY DEF JobsInv, LogBefore
  <1> QED
    BY <1>1, <1>2 DEF JobsInv

LEMMA PublishKeeps ==
    ASSUME Outbound!WebhooksAssumption, JobsInv, NEW e \in Occurrences, Outbound!Publish(e)
    PROVE  JobsInv'
  <1>1. fan[e] = NoHook /\ fan' = [fan EXCEPT ![e] = Outbound!Enabled]
        /\ UNCHANGED <<hook, hooksQueue, worker, hooksTimers, edit, replay, hooksLog, streak>>
    BY DEF Outbound!Publish
  <1>2. Outbound!Enabled \in SUBSET Hooks /\ fan \in [Occurrences -> (SUBSET Hooks) \cup {NoHook}]
    BY DEF Outbound!Enabled, JobsInv, HookTypes
  <1> DEFINE x == Outbound!Enabled
  <1> HIDE DEF x
  <1>3. fan' \in [Occurrences -> (SUBSET Hooks) \cup {NoHook}] /\ DOMAIN fan' = Occurrences
    BY <1>1, <1>2 DEF x
  <1>4. HookTypes'
    BY <1>1, <1>3 DEF JobsInv, HookTypes, Outbound!TypeOK
  <1>5. \A h \in Hooks, f \in Occurrences : Unsent(fan', h, f) => Unsent(fan, h, f)
    BY <1>1, <1>2 DEF Unsent
  <1> QED
    BY <1>1, <1>4, <1>5, JobsStay DEF JobsInv

LEMMA FanOutKeeps ==
    ASSUME Outbound!WebhooksAssumption, JobsInv, NEW e \in Occurrences, NEW h \in Hooks,
           Outbound!FanOut(e, h)
    PROVE  JobsInv'
  <1> DEFINE x == Outbound!Job(h, e, 1)
             left == fan[e] \ {h}
  <1>0. /\ fan \in [Occurrences -> (SUBSET Hooks) \cup {NoHook}] /\ NoHook \notin SUBSET Hooks
        /\ hooksQueue \in Seq(Outbound!Jobs) /\ Len(hooksQueue) <= HookDepth
        /\ worker \in [HookWorkers -> Outbound!Jobs \cup {NoHook}]
        /\ hooksTimers \in SUBSET Outbound!Jobs
    BY DEF JobsInv, HookTypes, Outbound!TypeOK, Outbound!WebhooksAssumption
  <1>1. fan[e] # NoHook /\ h \in fan[e] /\ fan' = [fan EXCEPT ![e] = left]
        /\ UNCHANGED <<hook, worker, hooksTimers, edit, replay, hooksLog, streak>>
    BY DEF Outbound!FanOut
  <1>2. x \in Outbound!Jobs /\ x.hook = h /\ x.event = e
    BY DEF Outbound!Job, Outbound!Jobs, Outbound!WebhooksAssumption
  <1>3. (hooksQueue' = hooksQueue \/ hooksQueue' = Append(hooksQueue, x))
            /\ (hooksQueue' # hooksQueue => Len(hooksQueue) < HookDepth)
    <2>1. Outbound!Enqueue(x)
      BY DEF Outbound!FanOut
    <2> QED
      BY <2>1, Shed
  <1> HIDE DEF x
  <1>4. left \in SUBSET Hooks
    <2>1. fan[e] \in SUBSET Hooks
      BY <1>0, <1>1
    <2> QED
      BY <2>1
  <1> HIDE DEF left
  <1>5. fan' \in [Occurrences -> (SUBSET Hooks) \cup {NoHook}] /\ DOMAIN fan' = Occurrences
    BY <1>0, <1>1, <1>4
  <1>6. Unsent(fan, h, e)
    BY <1>1 DEF Unsent
  <1>7. \A j \in Outbound!Jobs : Placed(hooksQueue, worker, hooksTimers, j) => ~Same(j, x)
    BY <1>2, <1>6 DEF JobsInv, FanSound, Same
  <1>8. /\ OnePlace(hooksQueue', worker, hooksTimers)
        /\ \A j \in Outbound!Jobs : Placed(hooksQueue', worker, hooksTimers, j)
               => Placed(hooksQueue, worker, hooksTimers, j) \/ j = x
        /\ hooksQueue' \in Seq(Outbound!Jobs)
    BY <1>0, <1>2, <1>3, <1>7, Enqueued DEF JobsInv
  <1>9. Len(hooksQueue') <= HookDepth
    <2>1. Len(Append(hooksQueue, x)) = Len(hooksQueue) + 1 /\ Len(hooksQueue) \in Nat
      BY <1>0, <1>2
    <2> QED
      BY <1>0, <1>3, <2>1 DEF Outbound!WebhooksAssumption
  <1>10. HookTypes'
    BY <1>1, <1>5, <1>8, <1>9 DEF JobsInv, HookTypes, Outbound!TypeOK
  <1>11. \A g \in Hooks, f \in Occurrences : Unsent(fan', g, f) => Unsent(fan, g, f)
             /\ ~(g = h /\ f = e)
    BY <1>0, <1>1, <1>4 DEF Unsent, left
  <1>12. FanSound(fan', hooksQueue', worker', hooksTimers', hooksLog')
    BY <1>1, <1>2, <1>8, <1>11 DEF JobsInv, FanSound
  <1>13. LogBefore(hooksQueue', worker', hooksTimers', hooksLog')
    <2> SUFFICES ASSUME NEW d \in hooksLog, NEW j \in Outbound!Jobs,
                        Placed(hooksQueue', worker, hooksTimers, j),
                        j.hook = d[1], j.event = d[2], d[5] = "dispatcher"
                 PROVE  d[3] < j.attempt /\ ~d[4]
      BY <1>1 DEF LogBefore
    <2>1. j # x
      BY <1>2, <1>6 DEF JobsInv, FanSound
    <2> QED
      BY <2>1, <1>8 DEF JobsInv, LogBefore
  <1> QED
    BY <1>1, <1>8, <1>10, <1>12, <1>13 DEF JobsInv

LEMMA TakeKeeps ==
    ASSUME Outbound!WebhooksAssumption, JobsInv, NEW w \in HookWorkers, Outbound!Take(w)
    PROVE  JobsInv'
  <1>0. /\ hooksQueue \in Seq(Outbound!Jobs) /\ Len(hooksQueue) <= HookDepth /\ HookDepth \in Nat
        /\ worker \in [HookWorkers -> Outbound!Jobs \cup {NoHook}] /\ NoHook \notin Outbound!Jobs
        /\ hooksTimers \in SUBSET Outbound!Jobs
    BY DEF JobsInv, HookTypes, Outbound!TypeOK, Outbound!WebhooksAssumption
  <1>1. worker[w] = NoHook /\ hooksQueue # <<>> /\ worker' = [worker EXCEPT ![w] = Head(hooksQueue)]
            /\ hooksQueue' = Tail(hooksQueue)
        /\ UNCHANGED <<hook, fan, hooksTimers, edit, replay, hooksLog, streak>>
    BY DEF Outbound!Take
  <1>2. /\ OnePlace(hooksQueue', worker', hooksTimers)
        /\ \A j \in Outbound!Jobs : Placed(hooksQueue', worker', hooksTimers, j)
               => Placed(hooksQueue, worker, hooksTimers, j)
    BY <1>0, <1>1, Taken DEF JobsInv
  <1>3. hooksQueue' \in Seq(Outbound!Jobs) /\ Len(hooksQueue') <= HookDepth
            /\ Head(hooksQueue) \in Outbound!Jobs
    BY <1>0, <1>1
  <1>4. worker' \in [HookWorkers -> Outbound!Jobs \cup {NoHook}]
    BY <1>0, <1>1, <1>3
  <1>5. HookTypes'
    BY <1>1, <1>3, <1>4 DEF JobsInv, HookTypes, Outbound!TypeOK
  <1> QED
    BY <1>1, <1>2, <1>5, JobsStay DEF Unsent

LEMMA TimerKeeps ==
    ASSUME Outbound!WebhooksAssumption, JobsInv, NEW x \in hooksTimers, Outbound!TimerFires(x)
    PROVE  JobsInv'
  <1>0. /\ hooksQueue \in Seq(Outbound!Jobs) /\ Len(hooksQueue) <= HookDepth /\ HookDepth \in Nat
        /\ worker \in [HookWorkers -> Outbound!Jobs \cup {NoHook}] /\ NoHook \notin Outbound!Jobs
        /\ hooksTimers \in SUBSET Outbound!Jobs /\ x \in Outbound!Jobs
    BY DEF JobsInv, HookTypes, Outbound!TypeOK, Outbound!WebhooksAssumption
  <1>1. hooksTimers' = hooksTimers \ {x} /\ Outbound!Enqueue(x)
        /\ UNCHANGED <<hook, fan, worker, edit, replay, hooksLog, streak>>
    BY DEF Outbound!TimerFires
  <1>2. (hooksQueue' = hooksQueue \/ hooksQueue' = Append(hooksQueue, x))
            /\ (hooksQueue' # hooksQueue => Len(hooksQueue) < HookDepth)
    BY <1>1, Shed
  <1>3. /\ OnePlace(hooksQueue, worker, hooksTimers')
        /\ \A j \in Outbound!Jobs : Placed(hooksQueue, worker, hooksTimers', j)
               => Placed(hooksQueue, worker, hooksTimers, j) /\ ~Same(j, x)
    BY <1>0, <1>1, Fired DEF JobsInv
  <1>4. hooksTimers' \in SUBSET Outbound!Jobs
    BY <1>0, <1>1
  <1>5. /\ OnePlace(hooksQueue', worker, hooksTimers')
        /\ \A j \in Outbound!Jobs : Placed(hooksQueue', worker, hooksTimers', j)
               => Placed(hooksQueue, worker, hooksTimers', j) \/ j = x
        /\ hooksQueue' \in Seq(Outbound!Jobs)
    BY <1>0, <1>2, <1>3, <1>4, Enqueued
  <1>6. Placed(hooksQueue, worker, hooksTimers, x)
    BY DEF Placed
  <1>7. \A j \in Outbound!Jobs : Placed(hooksQueue', worker', hooksTimers', j)
            => Placed(hooksQueue, worker, hooksTimers, j)
    BY <1>1, <1>3, <1>5, <1>6
  <1>8. Len(hooksQueue') <= HookDepth
    <2>1. Len(Append(hooksQueue, x)) = Len(hooksQueue) + 1 /\ Len(hooksQueue) \in Nat
      BY <1>0
    <2> QED
      BY <1>0, <1>2, <2>1
  <1>9. HookTypes'
    BY <1>1, <1>4, <1>5, <1>8 DEF JobsInv, HookTypes, Outbound!TypeOK
  <1> QED
    BY <1>1, <1>5, <1>7, <1>9, JobsStay DEF Unsent

\* The counter of a row, and what a record leaves of it and of the log.
LEMMA RowsCounted ==
    ASSUME Outbound!WebhooksAssumption
    PROVE  \A row \in Outbound!Row, ok \in BOOLEAN : Outbound!Counted(row, ok) \in Outbound!Row
  <1> SUFFICES ASSUME NEW row \in Outbound!Row, NEW ok \in BOOLEAN
               PROVE Outbound!Counted(row, ok) \in Outbound!Row
    OBVIOUS
  <1>1. row.failures \in Nat /\ row.failures + 1 \in Nat
            /\ (row.disabled \/ row.failures + 1 >= MaxFailures) \in BOOLEAN
    BY DEF Outbound!Row
  <1> QED
    BY <1>1 DEF Outbound!Counted, Outbound!Row

LEMMA Recorded ==
    ASSUME Outbound!WebhooksAssumption, HookTypes, NEW h \in Hooks, NEW e \in Occurrences,
           NEW n \in Nat,
           NEW ok \in BOOLEAN, NEW who \in {"dispatcher", "request"},
           Outbound!Record(Outbound!Job(h, e, n), ok, who)
    PROVE  /\ hook' \in [Hooks -> Outbound!Row \cup {NoHook}]
           /\ streak' \in [Hooks -> Nat]
           /\ \/ UNCHANGED <<hook, hooksLog, streak>>
              \/ /\ hook[h] # NoHook /\ hooksLog' = hooksLog \cup {<<h, e, n, ok, who>>}
                 /\ hook' = [hook EXCEPT ![h] = Outbound!Counted(@, ok)]
                 /\ streak' = [streak EXCEPT ![h] = IF ok THEN 0 ELSE @ + 1]
           /\ hooksLog' \subseteq hooksLog \cup {<<h, e, n, ok, who>>} /\ hooksLog' \subseteq Outcomes
  <1>1. Outbound!Job(h, e, n).hook = h /\ Outbound!Job(h, e, n).event = e
            /\ Outbound!Job(h, e, n).attempt = n
    BY DEF Outbound!Job
  <1>2. CASE hook[h] = NoHook
    <2>1. UNCHANGED <<hook, hooksLog, streak>>
      BY <1>1, <1>2 DEF Outbound!Record
    <2> QED
      BY <2>1 DEF HookTypes
  <1>3. CASE hook[h] # NoHook
    <2>1. /\ hooksLog' = hooksLog \cup {<<h, e, n, ok, who>>}
          /\ hook' = [hook EXCEPT ![h] = Outbound!Counted(@, ok)]
          /\ streak' = [streak EXCEPT ![h] = IF ok THEN 0 ELSE @ + 1]
      BY <1>1, <1>3 DEF Outbound!Record
    <2>2. hook[h] \in Outbound!Row /\ streak[h] \in Nat
      BY <1>3 DEF HookTypes
    <2>3. Outbound!Counted(hook[h], ok) \in Outbound!Row
      BY <2>2, RowsCounted
    <2>4. hook' \in [Hooks -> Outbound!Row \cup {NoHook}] /\ streak' \in [Hooks -> Nat]
      BY <2>1, <2>2, <2>3 DEF HookTypes
    <2>5. <<h, e, n, ok, who>> \in Outcomes
      BY DEF Outcomes
    <2>6. hooksLog' \subseteq Outcomes
      BY <2>1, <2>5 DEF HookTypes
    <2> QED
      BY <1>3, <2>1, <2>4, <2>6
  <1> QED
    BY <1>2, <1>3

LEMMA AttemptKeeps ==
    ASSUME Outbound!WebhooksAssumption, JobsInv, NEW w \in HookWorkers, NEW ok \in BOOLEAN,
           Outbound!Attempt(w, ok)
    PROVE  JobsInv'
  <1> DEFINE j == worker[w]
             x == [j EXCEPT !.attempt = @ + 1]
  <1>0. /\ hooksQueue \in Seq(Outbound!Jobs) /\ NoHook \notin Outbound!Jobs
        /\ worker \in [HookWorkers -> Outbound!Jobs \cup {NoHook}]
        /\ hooksTimers \in SUBSET Outbound!Jobs /\ HookTypes /\ HookAttempts \in Nat
    BY DEF JobsInv, HookTypes, Outbound!TypeOK, Outbound!WebhooksAssumption
  <1>1. /\ worker[w] # NoHook /\ worker' = [worker EXCEPT ![w] = NoHook]
        /\ UNCHANGED <<fan, hooksQueue, edit, replay>>
        /\ hooksTimers' = IF Outbound!Owed(j, ok) THEN hooksTimers \cup {x} ELSE hooksTimers
        /\ Outbound!Record(j, ok, "dispatcher") \/ UNCHANGED <<hook, hooksLog, streak>>
    BY DEF Outbound!Attempt
  <1>2. j \in Outbound!Jobs /\ j = Outbound!Job(j.hook, j.event, j.attempt)
    BY <1>0, <1>1 DEF Outbound!Jobs, Outbound!Job
  <1>3. j.hook \in Hooks /\ j.event \in Occurrences /\ j.attempt \in 1 .. HookAttempts
            /\ j.attempt \in Nat
    BY <1>2, JobFields
  <1>4. Outbound!Owed(j, ok) => /\ ~ok /\ x \in Outbound!Jobs /\ Same(x, j) /\ x.attempt = j.attempt + 1
    BY <1>0, <1>2, <1>3 DEF Outbound!Owed, Outbound!Jobs, Same
  <1>5. /\ hook' \in [Hooks -> Outbound!Row \cup {NoHook}] /\ streak' \in [Hooks -> Nat]
        /\ hooksLog' \subseteq hooksLog \cup {<<j.hook, j.event, j.attempt, ok, "dispatcher">>}
        /\ hooksLog' \subseteq Outcomes
    <2>1. CASE UNCHANGED <<hook, hooksLog, streak>>
      BY <1>0, <2>1 DEF HookTypes
    <2>2. CASE Outbound!Record(j, ok, "dispatcher")
      <3>1. Outbound!Record(Outbound!Job(j.hook, j.event, j.attempt), ok, "dispatcher")
        BY <1>2, <2>2
      <3> DEFINE h == j.hook
                 e == j.event
                 n == j.attempt
      <3>2. /\ h \in Hooks /\ e \in Occurrences /\ n \in Nat
            /\ Outbound!Record(Outbound!Job(h, e, n), ok, "dispatcher")
        BY <1>3, <3>1
      <3> HIDE DEF h, e, n
      <3>3. /\ hook' \in [Hooks -> Outbound!Row \cup {NoHook}] /\ streak' \in [Hooks -> Nat]
            /\ hooksLog' \subseteq hooksLog \cup {<<h, e, n, ok, "dispatcher">>}
            /\ hooksLog' \subseteq Outcomes
        BY <1>0, <3>2, Recorded
      <3> QED
        BY <3>3 DEF h, e, n
    <2> QED
      BY <1>1, <2>1, <2>2
  <1> HIDE DEF x, j
  <1>6. /\ OnePlace(hooksQueue, worker', hooksTimers')
        /\ \A k \in Outbound!Jobs : Placed(hooksQueue, worker', hooksTimers', k) =>
              \/ Placed(hooksQueue, worker, hooksTimers, k) /\ ~Same(k, j)
              \/ k = x /\ Outbound!Owed(j, ok)
    <2> DEFINE next == IF Outbound!Owed(j, ok) THEN x ELSE j
               free == worker'
               more == hooksTimers'
    <2>1. next \in Outbound!Jobs /\ Same(next, worker[w])
      BY <1>2, <1>4 DEF j, Same
    <2>2. more = hooksTimers \/ more = hooksTimers \cup {next}
      BY <1>1
    <2>3. more # hooksTimers => Outbound!Owed(j, ok) /\ next = x
      BY <1>1
    <2>4. free = [worker EXCEPT ![w] = NoHook] /\ worker[w] # NoHook
              /\ OnePlace(hooksQueue, worker, hooksTimers)
      BY <1>1 DEF JobsInv
    <2> HIDE DEF next, free, more
    <2>5. HandOver(hooksQueue, worker, hooksTimers, w, next, free, more)
      BY <1>0, <2>1, <2>2, <2>4 DEF HandOver
    <2>6. /\ OnePlace(hooksQueue, free, more)
          /\ \A k \in Outbound!Jobs : Placed(hooksQueue, free, more, k) =>
                \/ Placed(hooksQueue, worker, hooksTimers, k) /\ ~Same(k, worker[w])
                \/ k = next /\ more # hooksTimers
      BY <2>5, HandedOn
    <2> QED
      BY <2>3, <2>6 DEF free, more, j
  <1>7. Placed(hooksQueue, worker, hooksTimers, j)
    BY DEF Placed, j
  <1>8. \A h \in Hooks, e \in Occurrences : Unsent(fan, h, e) => ~(j.hook = h /\ j.event = e)
    BY <1>2, <1>7 DEF JobsInv, FanSound
  <1>9. FanSound(fan', hooksQueue', worker', hooksTimers', hooksLog')
    <2> SUFFICES ASSUME NEW h \in Hooks, NEW e \in Occurrences, Unsent(fan, h, e)
                 PROVE  /\ \A d \in hooksLog' : ~(d[1] = h /\ d[2] = e /\ d[5] = "dispatcher")
                        /\ \A k \in Outbound!Jobs : Placed(hooksQueue, worker', hooksTimers', k)
                               => ~(k.hook = h /\ k.event = e)
      BY <1>1 DEF FanSound
    <2>1. \A d \in hooksLog : ~(d[1] = h /\ d[2] = e /\ d[5] = "dispatcher")
      BY DEF JobsInv, FanSound
    <2>2. \A d \in hooksLog' : ~(d[1] = h /\ d[2] = e /\ d[5] = "dispatcher")
      BY <1>5, <1>8, <2>1
    <2>3. \A k \in Outbound!Jobs : Placed(hooksQueue, worker, hooksTimers, k)
              => ~(k.hook = h /\ k.event = e)
      BY DEF JobsInv, FanSound
    <2>4. Outbound!Owed(j, ok) => ~(x.hook = h /\ x.event = e)
      BY <1>4, <1>8 DEF Same
    <2> QED
      BY <1>6, <2>2, <2>3, <2>4
  <1>10. LogBefore(hooksQueue', worker', hooksTimers', hooksLog')
    <2> SUFFICES ASSUME NEW d \in hooksLog', NEW k \in Outbound!Jobs,
                        Placed(hooksQueue, worker', hooksTimers', k),
                        k.hook = d[1], k.event = d[2], d[5] = "dispatcher"
                 PROVE  d[3] < k.attempt /\ ~d[4]
      BY <1>1 DEF LogBefore
    <2>0. \A b \in hooksLog : b[1] = j.hook /\ b[2] = j.event /\ b[5] = "dispatcher"
                                  => b[3] < j.attempt /\ ~b[4]
      BY <1>2, <1>7 DEF JobsInv, LogBefore
    <2>1. CASE Placed(hooksQueue, worker, hooksTimers, k) /\ ~Same(k, j)
      <3>1. d \in hooksLog
        BY <1>5, <2>1 DEF Same
      <3> QED
        BY <2>1, <3>1 DEF JobsInv, LogBefore
    <2>2. CASE k = x /\ Outbound!Owed(j, ok)
      <3>1. x.attempt = j.attempt + 1 /\ ~ok /\ x.hook = j.hook /\ x.event = j.event
        BY <1>4, <2>2 DEF Same
      <3>2. CASE d \in hooksLog
        <4>1. d[3] < j.attempt /\ ~d[4] /\ d[3] \in Nat
          BY <1>0, <2>0, <2>2, <3>1, <3>2 DEF HookTypes, Outcomes
        <4> QED
          BY <4>1, <3>1, <2>2, <1>3
      <3>3. CASE d = <<j.hook, j.event, j.attempt, ok, "dispatcher">>
        BY <3>1, <3>3, <2>2, <1>3
      <3> QED
        BY <1>5, <3>2, <3>3
    <2> QED
      BY <1>6, <2>1, <2>2
  <1>11. hooksTimers' \in SUBSET Outbound!Jobs
    BY <1>0, <1>1, <1>4
  <1>12. worker' \in [HookWorkers -> Outbound!Jobs \cup {NoHook}]
    BY <1>0, <1>1
  <1>13. HookTypes'
    BY <1>0, <1>1, <1>5, <1>11, <1>12 DEF HookTypes, Outbound!TypeOK
  <1> QED
    BY <1>1, <1>6, <1>9, <1>10, <1>13 DEF JobsInv

LEMMA ReplayReadsKeeps ==
    ASSUME Outbound!WebhooksAssumption, JobsInv, NEW h \in Hooks, NEW e \in Occurrences,
           Outbound!ReplayReads(h, e)
    PROVE  JobsInv'
  <1>1. PICK d \in hooksLog : replay' = Outbound!Job(h, e, d[3] + 1)
    BY DEF Outbound!ReplayReads
  <1>2. UNCHANGED <<hook, fan, hooksQueue, worker, hooksTimers, edit, hooksLog, streak>>
    BY DEF Outbound!ReplayReads
  <1>3. d[3] + 1 \in Nat
    BY DEF JobsInv, HookTypes, Outcomes
  <1>4. HookTypes'
    BY <1>1, <1>2, <1>3 DEF JobsInv, HookTypes, Outbound!TypeOK, Outbound!Job
  <1> QED
    BY <1>2, <1>4, JobsStay DEF JobsInv

\* The record of a redelivery is not the dispatcher's.
LEMMA ReplayRecordsKeeps ==
    ASSUME Outbound!WebhooksAssumption, JobsInv, NEW ok \in BOOLEAN, Outbound!ReplayRecords(ok)
    PROVE  JobsInv'
  <1> DEFINE h == replay.hook
             e == replay.event
             n == replay.attempt
  <1>0. HookTypes
    BY DEF JobsInv
  <1>1. /\ replay # NoHook /\ replay' = NoHook
        /\ UNCHANGED <<fan, hooksQueue, worker, hooksTimers, edit>>
        /\ Outbound!Record(replay, ok, "request") \/ UNCHANGED <<hook, hooksLog, streak>>
    BY DEF Outbound!ReplayRecords
  <1>2. h \in Hooks /\ e \in Occurrences /\ n \in Nat /\ replay = Outbound!Job(h, e, n)
    BY <1>0, <1>1 DEF HookTypes, Outbound!TypeOK, Outbound!Job
  <1> HIDE DEF h, e, n
  <1>3. /\ hook' \in [Hooks -> Outbound!Row \cup {NoHook}] /\ streak' \in [Hooks -> Nat]
        /\ hooksLog' \subseteq hooksLog \cup {<<h, e, n, ok, "request">>}
        /\ hooksLog' \subseteq Outcomes
    <2>1. CASE UNCHANGED <<hook, hooksLog, streak>>
      BY <1>0, <2>1 DEF HookTypes
    <2>2. CASE Outbound!Record(Outbound!Job(h, e, n), ok, "request")
      BY <1>0, <1>2, <2>2, Recorded
    <2> QED
      BY <1>1, <1>2, <2>1, <2>2
  <1>4. HookTypes'
    BY <1>0, <1>1, <1>3 DEF HookTypes, Outbound!TypeOK
  <1>5. \A d \in hooksLog' : d[5] = "dispatcher" => d \in hooksLog
    BY <1>3
  <1>6. FanSound(fan', hooksQueue', worker', hooksTimers', hooksLog')
    BY <1>1, <1>5 DEF JobsInv, FanSound
  <1>7. LogBefore(hooksQueue', worker', hooksTimers', hooksLog')
    BY <1>1, <1>5 DEF JobsInv, LogBefore
  <1> QED
    BY <1>1, <1>4, <1>6, <1>7 DEF JobsInv

-----------------------------------------------------------------------------
(* Requests and the process *)

LEMMA UpdateKeeps ==
    ASSUME Outbound!WebhooksAssumption, JobsInv,
           \/ \E h \in Hooks : Outbound!UpdateReads(h)
           \/ \E on \in BOOLEAN : Outbound!UpdateWrites(on)
    PROVE  JobsInv'
  <1>0. HookTypes /\ hook \in [Hooks -> Outbound!Row \cup {NoHook}]
        /\ (edit = NoHook \/ edit \in [hook : Hooks, row : Outbound!Row])
    BY DEF JobsInv, HookTypes
  <1>1. UNCHANGED <<fan, hooksQueue, worker, hooksTimers, replay, hooksLog>>
    BY DEF Outbound!UpdateReads, Outbound!UpdateWrites
  <1>2. /\ hook' \in [Hooks -> Outbound!Row \cup {NoHook}] /\ streak' \in [Hooks -> Nat]
        /\ edit' = NoHook \/ edit' \in [hook : Hooks, row : Outbound!Row]
    <2>1. ASSUME NEW h \in Hooks, Outbound!UpdateReads(h) PROVE <1>2!:
      <3>1. hook[h] \in Outbound!Row /\ edit' = [hook |-> h, row |-> hook[h]]
                /\ UNCHANGED <<hook, streak>>
        BY <1>0, <2>1 DEF Outbound!UpdateReads
      <3> QED
        BY <1>0, <3>1 DEF HookTypes
    <2>2. ASSUME NEW on \in BOOLEAN, Outbound!UpdateWrites(on) PROVE <1>2!:
      <3> DEFINE h == edit.hook
                 row == Outbound!Edited(edit.row, on)
      <3>1. h \in Hooks /\ edit.row \in Outbound!Row /\ edit' = NoHook
        BY <1>0, <2>2 DEF Outbound!UpdateWrites
      <3>2. row \in Outbound!Row
        BY <3>1 DEF Outbound!Edited, Outbound!Row
      <3>3. \/ UNCHANGED <<hook, streak>>
            \/ hook' = [hook EXCEPT ![h] = row]
                   /\ (streak' = streak \/ streak' = [streak EXCEPT ![h] = 0])
        BY <2>2 DEF Outbound!UpdateWrites
      <3> HIDE DEF h, row
      <3> QED
        BY <1>0, <3>1, <3>2, <3>3 DEF HookTypes
    <2> QED
      BY <2>1, <2>2
  <1>3. HookTypes'
    BY <1>0, <1>1, <1>2 DEF HookTypes, Outbound!TypeOK
  <1> QED
    BY <1>1, <1>3, JobsStay DEF JobsInv

LEMMA DeleteKeeps ==
    ASSUME JobsInv, NEW h \in Hooks, Outbound!Delete(h)
    PROVE  JobsInv'
  <1>1. /\ hook' = [hook EXCEPT ![h] = NoHook] /\ hooksLog' \subseteq hooksLog
        /\ UNCHANGED <<fan, hooksQueue, worker, hooksTimers, edit, replay, streak>>
    BY DEF Outbound!Delete
  <1>2. hook' \in [Hooks -> Outbound!Row \cup {NoHook}] /\ hooksLog' \subseteq Outcomes
    BY <1>1 DEF JobsInv, HookTypes
  <1>3. HookTypes'
    BY <1>1, <1>2 DEF JobsInv, HookTypes, Outbound!TypeOK
  <1> QED
    BY <1>1, <1>3, JobsStay DEF JobsInv

LEMMA StopKeeps ==
    ASSUME Outbound!WebhooksAssumption, JobsInv, Outbound!Stop
    PROVE  JobsInv'
  <1>1. /\ \A e \in Occurrences : fan'[e] = IF fan[e] = NoHook THEN NoHook ELSE {}
        /\ fan' \in [Occurrences -> (SUBSET Hooks) \cup {NoHook}]
        /\ hooksQueue' = <<>> /\ hooksTimers' = {} /\ edit' = NoHook /\ replay' = NoHook
               /\ UNCHANGED <<hook, hooksLog, streak>>
    BY DEF Outbound!Stop
  <1>2. worker' \in [HookWorkers -> Outbound!Jobs \cup {NoHook}]
            /\ \A w \in HookWorkers : worker'[w] = NoHook
    BY DEF Outbound!Stop
  <1>3. hooksQueue' \in Seq(Outbound!Jobs) /\ Len(hooksQueue') = 0 /\ 0 <= HookDepth
    BY <1>1 DEF Outbound!WebhooksAssumption
  <1>4. HookTypes'
    BY <1>1, <1>2, <1>3 DEF JobsInv, HookTypes, Outbound!TypeOK
  <1>5. OnePlace(hooksQueue', worker', hooksTimers')
    BY <1>1, <1>2, <1>3 DEF OnePlace
  <1>6. \A h \in Hooks, e \in Occurrences : Unsent(fan', h, e) => Unsent(fan, h, e)
    <2>1. {} # NoHook
      BY DEF Outbound!WebhooksAssumption
    <2> QED
      BY <1>1, <2>1 DEF Unsent
  <1>7. \A j \in Outbound!Jobs : ~Placed(hooksQueue', worker', hooksTimers', j)
    BY <1>1, <1>2, <1>3 DEF Placed, Outbound!WebhooksAssumption
  <1> QED
    BY <1>1, <1>4, <1>5, <1>6, <1>7, JobsStay

-----------------------------------------------------------------------------
(* What is promised of deliveries *)

LEMMA JobsInit ==
    ASSUME Outbound!WebhooksAssumption, Outbound!Init
    PROVE  JobsInv
  <1>1. Outbound!New \in Outbound!Row
    BY DEF Outbound!New, Outbound!Row
  <1> DEFINE new == Outbound!New
  <1>2. hook = [h \in Hooks |-> new]
    BY DEF Outbound!Init
  <1> HIDE DEF new
  <1>3. hook \in [Hooks -> Outbound!Row \cup {NoHook}]
    BY <1>1, <1>2 DEF new
  <1>4. fan \in [Occurrences -> (SUBSET Hooks) \cup {NoHook}]
            /\ worker \in [HookWorkers -> Outbound!Jobs \cup {NoHook}]
        /\ (\A w \in HookWorkers : worker[w] = NoHook) /\ streak \in [Hooks -> Nat]
    BY DEF Outbound!Init
  <1>5. hooksQueue = <<>> /\ hooksQueue \in Seq(Outbound!Jobs) /\ Len(hooksQueue) = 0
            /\ hooksTimers = {} /\ hooksLog = {} /\ edit = NoHook
        /\ replay = NoHook /\ 0 <= HookDepth
    BY DEF Outbound!Init, Outbound!WebhooksAssumption
  <1>6. HookTypes
    BY <1>3, <1>4, <1>5 DEF HookTypes, Outbound!TypeOK
  <1>7. OnePlace(hooksQueue, worker, hooksTimers)
    BY <1>4, <1>5 DEF OnePlace
  <1>8. \A j \in Outbound!Jobs : ~Placed(hooksQueue, worker, hooksTimers, j)
    BY <1>4, <1>5 DEF Placed, Outbound!WebhooksAssumption
  <1> QED
    BY <1>5, <1>6, <1>7, <1>8 DEF JobsInv, FanSound, LogBefore

LEMMA JobsStep ==
    ASSUME Outbound!WebhooksAssumption, JobsInv, [Outbound!Next]_(Outbound!vars)
    PROVE  JobsInv'
  <1>1. CASE \E e \in Occurrences : Outbound!Publish(e) \/ \E h \in Hooks : Outbound!FanOut(e, h)
    BY <1>1, PublishKeeps, FanOutKeeps
  <1>2. CASE \E w \in HookWorkers : Outbound!Take(w) \/ \E ok \in BOOLEAN : Outbound!Attempt(w, ok)
    BY <1>2, TakeKeeps, AttemptKeeps
  <1>3. CASE \E j \in hooksTimers : Outbound!TimerFires(j)
    BY <1>3, TimerKeeps
  <1>4. CASE \/ \E h \in Hooks, e \in Occurrences : Outbound!ReplayReads(h, e)
             \/ \E ok \in BOOLEAN : Outbound!ReplayRecords(ok)
    BY <1>4, ReplayReadsKeeps, ReplayRecordsKeeps
  <1>5. CASE \E h \in Hooks : Outbound!UpdateReads(h) \/ Outbound!Delete(h)
    BY <1>5, UpdateKeeps, DeleteKeeps
  <1>6. CASE \E on \in BOOLEAN : Outbound!UpdateWrites(on)
    BY <1>6, UpdateKeeps
  <1>7. CASE Outbound!Stop
    BY <1>7, StopKeeps
  <1>8. CASE UNCHANGED Outbound!vars
    BY <1>8 DEF Outbound!vars, JobsInv, HookTypes, Outbound!TypeOK
  <1> QED
    BY <1>1, <1>2, <1>3, <1>4, <1>5, <1>6, <1>7, <1>8 DEF Outbound!Next

\* The instance counts as its user does.
LEMMA CardinalityIsOne ==
    ASSUME NEW S
    PROVE  Outbound!Cardinality(S) = Cardinality(S)
  BY Zenon DEF Outbound!Cardinality, Cardinality

LEMMA OneAtMost ==
    ASSUME NEW S, \A x, y \in S : x = y
    PROVE  Cardinality(S) <= 1
  <1>1. CASE S = {}
    BY <1>1, FS_EmptySet
  <1>2. CASE S # {}
    <2>1. PICK x \in S : S = {x}
      BY <1>2
    <2> QED
      BY <2>1, FS_Singleton
  <1> QED
    BY <1>1, <1>2

\* The holders of a delivery are one place at most, and their job is placed.
LEMMA HoldersArePlaces ==
    ASSUME Outbound!WebhooksAssumption, JobsInv, NEW h \in Hooks, NEW e \in Occurrences
    PROVE  /\ \A x \in Outbound!Holders(h, e) :
                 /\ x[3] \in Outbound!Jobs /\ x[3].hook = h /\ x[3].event = e
                 /\ Placed(hooksQueue, worker, hooksTimers, x[3])
           /\ Cardinality(Outbound!Holders(h, e)) <= 1
  <1> DEFINE hs == Outbound!Holders(h, e)
             OfQueue(x) == \E i \in 1 .. Len(hooksQueue) : x = <<"queue", i, hooksQueue[i]>>
             OfWorker(x) == \E w \in HookWorkers :
                                worker[w] # NoHook /\ x = <<"worker", w, worker[w]>>
             OfTimer(x) == \E j \in hooksTimers : x = <<"timer", j.attempt, j>>
  <1>0. /\ hooksQueue \in Seq(Outbound!Jobs) /\ OnePlace(hooksQueue, worker, hooksTimers)
        /\ DOMAIN hooksQueue = 1 .. Len(hooksQueue) /\ hooksTimers \subseteq Outbound!Jobs
        /\ worker \in [HookWorkers -> Outbound!Jobs \cup {NoHook}]
    BY DEF JobsInv, HookTypes, Outbound!TypeOK
  <1>1. \A x \in hs : x[3].hook = h /\ x[3].event = e /\ (OfQueue(x) \/ OfWorker(x) \/ OfTimer(x))
    BY <1>0 DEF Outbound!Holders
  <1>2. \A x \in hs : x[3] \in Outbound!Jobs /\ Placed(hooksQueue, worker, hooksTimers, x[3])
    BY <1>0, <1>1 DEF Placed
  <1>3. ASSUME NEW x \in hs, NEW y \in hs PROVE x = y
    <2>0. Same(x[3], y[3]) /\ Same(y[3], x[3])
      BY <1>1 DEF Same
    <2> HIDE DEF hs
    <2>1. CASE OfQueue(x)
      BY <1>0, <1>1, <2>0, <2>1 DEF OnePlace
    <2>2. CASE OfWorker(x)
      BY <1>0, <1>1, <2>0, <2>2 DEF OnePlace
    <2>3. CASE OfTimer(x)
      BY <1>0, <1>1, <2>0, <2>3 DEF OnePlace
    <2> QED
      BY <1>1, <2>1, <2>2, <2>3
  <1>4. Cardinality(hs) <= 1
    BY <1>3, OneAtMost
  <1> QED
    BY <1>1, <1>2, <1>4

LEMMA JobsKept ==
    ASSUME Outbound!WebhooksAssumption, JobsInv
    PROVE  Outbound!OneAttemptAtATime
  <1> SUFFICES ASSUME NEW h \in Hooks, NEW e \in Occurrences
               PROVE  /\ Cardinality(Outbound!Holders(h, e)) <= 1
                      /\ \A d \in hooksLog, x \in Outbound!Holders(h, e) :
                           d[1] = h /\ d[2] = e /\ d[5] = "dispatcher"
                               => ~d[4] /\ d[3] < x[3].attempt
    BY CardinalityIsOne DEF Outbound!OneAttemptAtATime
  <1> QED
    BY HoldersArePlaces DEF JobsInv, LogBefore

(* Whatever the requests and the workers do, the table of subscriptions,    *)
(* the bounded queue and the timers hold well-formed rows and jobs          *)
(* (internal/outbound dispatcher.go, store/sqlite/webhooks.go).             *)
THEOREM HookTypesKept ==
    ASSUME Outbound!WebhooksAssumption
    PROVE  Outbound!Spec => []Outbound!TypeOK
  <1>1. Outbound!Init => JobsInv
    BY JobsInit
  <1>2. JobsInv /\ [Outbound!Next]_(Outbound!vars) => JobsInv'
    BY JobsStep
  <1>3. JobsInv => Outbound!TypeOK
    BY DEF JobsInv, HookTypes
  <1> QED
    BY <1>1, <1>2, <1>3, PTL DEF Outbound!Spec

(* An event has one holder for a subscription at most, whatever requests    *)
(* redeliver meanwhile: of the places of the queue, the workers and the     *)
(* timers of the dispatcher no two hold it, and while one does everything   *)
(* the dispatcher logged of it failed, at lower attempts.                   *)
THEOREM DeliveriesAreSingle ==
    ASSUME Outbound!WebhooksAssumption
    PROVE  Outbound!Spec => []OneAttemptAtATime
  <1>1. Outbound!Init => JobsInv
    BY JobsInit
  <1>2. JobsInv /\ [Outbound!Next]_(Outbound!vars) => JobsInv'
    BY JobsStep
  <1>3. JobsInv => OneAttemptAtATime
    BY JobsKept DEF OneAttemptAtATime
  <1> QED
    BY <1>1, <1>2, <1>3, PTL DEF Outbound!Spec

-----------------------------------------------------------------------------
(* The lists (MonitorViews) *)

\* A monitor's row.
RowType == [group : Groups \cup {Nothing}, updated : Nat, status : Views!Statuses,
            version : Nat, last : Nat]

\* The tables, as the writers leave them.
ViewsTyped ==
    /\ monitors \in [Listed -> RowType \cup {Nothing}]
    /\ viewsBeats \in [Listed -> Nat]
    /\ parent \in [Groups -> Groups \cup {Nothing, "gone"}]
    /\ viewsNow \in Nat

\* A request for groups has read groups.
RequestFits ==
    /\ request \in [kind : {"idle", "monitors", "groups"}, step : {0, 1, 2}]
    /\ request.kind = "groups" => DOMAIN page \subseteq Groups

\* A group nobody wrote to since the request began is there.
StillThere == still \cap Groups \subseteq Views!LiveG

\* The inductive invariant.
ViewsInv == ViewsTyped /\ RequestFits /\ StillThere /\ Views!GroupTellsTheWorst

\* Nothing is worse than down.
LEMMA DownIsWorst ==
    ASSUME NEW S \in SUBSET Views!Statuses, "down" \in S
    PROVE  Views!WorstStatus(S) = "down"
  <1>1. \A s \in Views!Statuses : Views!statusRank("down") <= Views!statusRank(s)
    BY DEF Views!Statuses, Views!statusRank
  <1>2. \A s \in Views!Statuses : Views!statusRank(s) <= Views!statusRank("down") => s = "down"
    BY DEF Views!Statuses, Views!statusRank
  <1> DEFINE P(s) == \A t \in S : Views!statusRank(s) <= Views!statusRank(t)
  <1>3. P("down")
    BY <1>1
  <1>4. \A s \in S : P(s) => s = "down"
    BY <1>2
  <1>5. Views!WorstStatus(S) = CHOOSE s \in S : P(s)
    BY DEF Views!WorstStatus
  <1> HIDE DEF P
  <1> QED
    BY <1>3, <1>4, <1>5

\* A write that leaves what it does not touch alone, or moves it to the top.
LEMMA WritesKeepTheWorst ==
    ASSUME ViewsInv, UNCHANGED <<request, page, summary>>, still' \subseteq still,
           \A m \in Views!Live' \cap still' :
              /\ m \in Views!Live
              /\ monitors'[m].status = monitors[m].status
              /\ monitors'[m].group \in {monitors[m].group, Nothing},
           \A h \in Groups \cap still' :
              parent'[h] # "gone" /\ parent'[h] \in {parent[h], Nothing}
    PROVE  RequestFits' /\ StillThere' /\ Views!GroupTellsTheWorst'
  <1>1. RequestFits' /\ StillThere'
    BY DEF ViewsInv, RequestFits, StillThere, Views!LiveG
  <1>2. ASSUME request' = [kind |-> "groups", step |-> 2],
               NEW g \in DOMAIN page' \cap still', NEW m \in Views!Live' \cap still',
               monitors'[m].status = "down",
               LET h == monitors'[m].group
               IN h = g \/ (h # Nothing /\ h \in still' /\ parent'[h] = g)
        PROVE  summary'[g].status = "down"
    <2>1. g \in Groups /\ g # Nothing /\ g \in DOMAIN page \cap still
      BY <1>2, ViewsAssumption DEF ViewsInv, RequestFits, Views!ViewsAssumption
    <2>2. m \in Views!Live \cap still /\ monitors[m].status = "down"
      BY <1>2
    <2>3. monitors'[m].group # Nothing /\ monitors'[m].group = monitors[m].group
      BY <1>2, <2>1
    <2>4. monitors[m].group \in Groups
      BY <2>2, <2>3 DEF ViewsInv, ViewsTyped, Views!Live, RowType
    <2>5. LET h == monitors[m].group
          IN h = g \/ (h # Nothing /\ h \in still /\ parent[h] = g)
      <3>1. CASE monitors'[m].group = g
        BY <3>1, <2>3
      <3>2. CASE monitors'[m].group # g
        <4>1. monitors[m].group \in still' /\ parent'[monitors[m].group] = g
          BY <1>2, <2>3, <3>2
        <4>2. parent[monitors[m].group] = g
          BY <4>1, <2>1, <2>4
        <4> QED
          BY <4>1, <4>2, <2>3
      <3> QED
        BY <3>1, <3>2
    <2> QED
      BY <1>2, <2>1, <2>2, <2>5 DEF ViewsInv, Views!GroupTellsTheWorst
  <1> QED
    BY <1>1, <1>2 DEF Views!GroupTellsTheWorst

LEMMA ViewsInitSound == Views!Init => ViewsInv
  <1> SUFFICES ASSUME Views!Init PROVE ViewsInv
    OBVIOUS
  <1>1. ViewsTyped
    BY DEF Views!Init, ViewsTyped, RowType, Views!Row, Views!Statuses
  <1> QED
    BY <1>1 DEF Views!Init, ViewsInv, RequestFits, StillThere, Views!GroupTellsTheWorst

\* A write to one monitor: its row moves to another of its type, or goes.
LEMMA RowWriteSound ==
    ASSUME ViewsInv, NEW m \in Listed, NEW r \in RowType \cup {Nothing},
           m \in Views!Live, monitors' = [monitors EXCEPT ![m] = r],
           viewsBeats' \in [Listed -> Nat], UNCHANGED <<parent, viewsNow>>, Views!Touched(m)
    PROVE  ViewsInv'
  <1>1. ViewsTyped'
    BY DEF ViewsInv, ViewsTyped
  <1>2. \A n \in Views!Live' \cap still' :
              /\ n \in Views!Live
              /\ monitors'[n].status = monitors[n].status
              /\ monitors'[n].group \in {monitors[n].group, Nothing}
    BY DEF Views!Live, Views!Touched, ViewsInv, ViewsTyped
  <1>3. \A h \in Groups \cap still' :
              parent'[h] # "gone" /\ parent'[h] \in {parent[h], Nothing}
    BY DEF Views!Touched, ViewsInv, StillThere, Views!LiveG
  <1> QED
    BY <1>1, <1>2, <1>3, WritesKeepTheWorst DEF Views!Touched, ViewsInv

LEMMA UpdatedRow ==
    ASSUME NEW x \in RowType, NEW s \in Views!Statuses, NEW u \in Nat, NEW l \in Nat
    PROVE  /\ [x EXCEPT !.status = s, !.last = l, !.version = @ + 1] \in RowType
           /\ [x EXCEPT !.status = s, !.updated = u, !.version = @ + 1] \in RowType
           /\ [x EXCEPT !.status = s, !.version = @ + 1] \in RowType
  <1>1. x.version + 1 \in Nat
    BY DEF RowType
  <1>2. [x EXCEPT !.status = s, !.last = l, !.version = @ + 1] \in RowType
    BY <1>1 DEF RowType
  <1>3. [x EXCEPT !.status = s, !.updated = u, !.version = @ + 1] \in RowType
    BY <1>1 DEF RowType
  <1>4. [x EXCEPT !.status = s, !.version = @ + 1] \in RowType
    BY <1>1 DEF RowType
  <1> QED
    BY <1>2, <1>3, <1>4

LEMMA SaveStateSound ==
    ASSUME ViewsInv, NEW m \in Listed, NEW s \in {"up", "down"}, Views!SaveState(m, s)
    PROVE  ViewsInv'
  <1> DEFINE x == monitors[m]
             t == IF x.status = "maintenance" THEN x.status ELSE s
             r == [x EXCEPT !.status = t, !.last = viewsBeats[m], !.version = @ + 1]
  <1>1. m \in Views!Live /\ x \in RowType /\ viewsBeats[m] \in Nat
    BY DEF Views!SaveState, ViewsInv, ViewsTyped, Views!Live
  <1>2. t \in Views!Statuses
    BY <1>1 DEF RowType, Views!Statuses
  <1> HIDE DEF x, t
  <1>3. r \in RowType
    BY <1>1, <1>2, UpdatedRow
  <1> USE DEF x, t
  <1>4. monitors' = [monitors EXCEPT ![m] = r]
    BY <1>1 DEF Views!SaveState, ViewsInv, ViewsTyped
  <1> HIDE DEF r
  <1>5. Views!Touched(m) /\ viewsBeats' \in [Listed -> Nat] /\ UNCHANGED <<parent, viewsNow>>
    BY DEF Views!SaveState, ViewsInv, ViewsTyped
  <1> QED
    BY <1>1, <1>3, <1>4, <1>5, RowWriteSound

LEMMA UpdateMonitorSound ==
    ASSUME ViewsInv, NEW m \in Listed, NEW g \in Groups \cup {Nothing}, Views!UpdateMonitor(m, g)
    PROVE  ViewsInv'
  <1> DEFINE x == monitors[m]
             r == [x EXCEPT !.group = g, !.updated = viewsNow, !.version = @ + 1]
  <1>1. m \in Views!Live /\ x \in RowType /\ viewsNow \in Nat
    BY DEF Views!UpdateMonitor, ViewsInv, ViewsTyped, Views!Live
  <1> HIDE DEF x
  <1>2. x.version + 1 \in Nat
    BY <1>1 DEF RowType
  <1>3. r \in RowType
    BY <1>1, <1>2 DEF RowType
  <1> USE DEF x
  <1>4. monitors' = [monitors EXCEPT ![m] = r]
    BY <1>1 DEF Views!UpdateMonitor, ViewsInv, ViewsTyped
  <1> HIDE DEF r
  <1>5. Views!Touched(m) /\ viewsBeats' \in [Listed -> Nat] /\ UNCHANGED <<parent, viewsNow>>
    BY DEF Views!UpdateMonitor, Views!Edited, ViewsInv, ViewsTyped
  <1> QED
    BY <1>1, <1>3, <1>4, <1>5, RowWriteSound

LEMMA SetMonitorEnabledSound ==
    ASSUME ViewsInv, NEW m \in Listed, NEW s \in {"paused", "pending"},
           Views!SetMonitorEnabled(m, s)
    PROVE  ViewsInv'
  <1> DEFINE x == monitors[m]
             t == IF x.status = "maintenance" THEN x.status ELSE s
             r == [x EXCEPT !.status = t, !.updated = viewsNow, !.version = @ + 1]
  <1>1. m \in Views!Live /\ x \in RowType /\ viewsNow \in Nat
    BY DEF Views!SetMonitorEnabled, ViewsInv, ViewsTyped, Views!Live
  <1>2. t \in Views!Statuses
    BY <1>1 DEF RowType, Views!Statuses
  <1> HIDE DEF x, t
  <1>3. r \in RowType
    BY <1>1, <1>2, UpdatedRow
  <1> USE DEF x, t
  <1>4. monitors' = [monitors EXCEPT ![m] = r]
    BY <1>1 DEF Views!SetMonitorEnabled, ViewsInv, ViewsTyped
  <1> HIDE DEF r
  <1>5. Views!Touched(m) /\ viewsBeats' \in [Listed -> Nat] /\ UNCHANGED <<parent, viewsNow>>
    BY DEF Views!SetMonitorEnabled, Views!Edited, ViewsInv, ViewsTyped
  <1> QED
    BY <1>1, <1>3, <1>4, <1>5, RowWriteSound

LEMMA ApplyMaintenanceSound ==
    ASSUME ViewsInv, NEW m \in Listed, Views!ApplyMaintenance(m)
    PROVE  ViewsInv'
  <1> DEFINE x == monitors[m]
             t == IF x.status = "maintenance" THEN "pending" ELSE "maintenance"
             r == [x EXCEPT !.status = t, !.version = @ + 1]
  <1>1. m \in Views!Live /\ x \in RowType
    BY DEF Views!ApplyMaintenance, ViewsInv, ViewsTyped, Views!Live
  <1>2. t \in Views!Statuses
    BY DEF Views!Statuses
  <1> HIDE DEF x, t
  <1>3. r \in RowType
    BY <1>1, <1>2, UpdatedRow
  <1> USE DEF x, t
  <1>4. monitors' = [monitors EXCEPT ![m] = r]
    BY <1>1 DEF Views!ApplyMaintenance, ViewsInv, ViewsTyped
  <1> HIDE DEF r
  <1>5. Views!Touched(m) /\ viewsBeats' \in [Listed -> Nat] /\ UNCHANGED <<parent, viewsNow>>
    BY DEF Views!ApplyMaintenance, Views!Edited, ViewsInv, ViewsTyped
  <1> QED
    BY <1>1, <1>3, <1>4, <1>5, RowWriteSound

LEMMA DeleteMonitorSound ==
    ASSUME ViewsInv, NEW m \in Listed, Views!DeleteMonitor(m)
    PROVE  ViewsInv'
  <1>1. m \in Views!Live /\ monitors' = [monitors EXCEPT ![m] = Nothing]
    BY DEF Views!DeleteMonitor
  <1>2. Views!Touched(m) /\ viewsBeats' \in [Listed -> Nat] /\ UNCHANGED <<parent, viewsNow>>
    BY DEF Views!DeleteMonitor, Views!Edited, ViewsInv, ViewsTyped
  <1> QED
    BY <1>1, <1>2, RowWriteSound

LEMMA WriteBatchSound ==
    ASSUME ViewsInv, NEW m \in Listed, Views!WriteBatch(m)
    PROVE  ViewsInv'
  <1>1. m \in Views!Live /\ monitors[m] \in RowType \cup {Nothing}
        /\ monitors' = [monitors EXCEPT ![m] = monitors[m]]
    BY DEF Views!WriteBatch, ViewsInv, ViewsTyped
  <1>2. Views!Touched(m) /\ viewsBeats' \in [Listed -> Nat] /\ UNCHANGED <<parent, viewsNow>>
    BY DEF Views!WriteBatch, ViewsInv, ViewsTyped
  <1> QED
    BY <1>1, <1>2, RowWriteSound

LEMMA UpdateGroupSound ==
    ASSUME ViewsInv, NEW g \in Groups, NEW p \in Groups \cup {Nothing}, Views!UpdateGroup(g, p)
    PROVE  ViewsInv'
  <1>1. ViewsTyped'
    BY DEF Views!UpdateGroup, ViewsInv, ViewsTyped
  <1>2. \A n \in Views!Live' \cap still' :
              /\ n \in Views!Live
              /\ monitors'[n].status = monitors[n].status
              /\ monitors'[n].group \in {monitors[n].group, Nothing}
    BY DEF Views!UpdateGroup, Views!Live
  <1>3. \A h \in Groups \cap still' :
              parent'[h] # "gone" /\ parent'[h] \in {parent[h], Nothing}
    BY DEF Views!UpdateGroup, Views!Edited, Views!Touched, ViewsInv, StillThere, Views!LiveG, ViewsTyped
  <1> QED
    BY <1>1, <1>2, <1>3, WritesKeepTheWorst DEF Views!UpdateGroup, Views!Edited, Views!Touched, ViewsInv

LEMMA DeleteGroupSound ==
    ASSUME ViewsInv, NEW g \in Groups, Views!DeleteGroup(g)
    PROVE  ViewsInv'
  <1>1. ViewsTyped'
    <2>1. \A m \in Views!Live : [monitors[m] EXCEPT !.group = Nothing] \in RowType
      BY DEF ViewsInv, ViewsTyped, Views!Live, RowType
    <2>2. monitors' \in [Listed -> RowType \cup {Nothing}]
      BY <2>1 DEF Views!DeleteGroup, ViewsInv, ViewsTyped
    <2> QED
      BY <2>2 DEF Views!DeleteGroup, ViewsInv, ViewsTyped
  <1>2. \A n \in Views!Live' \cap still' :
              /\ n \in Views!Live
              /\ monitors'[n].status = monitors[n].status
              /\ monitors'[n].group \in {monitors[n].group, Nothing}
    <2> SUFFICES ASSUME NEW n \in Views!Live' \cap still'
                 PROVE  /\ n \in Views!Live
                        /\ monitors'[n].status = monitors[n].status
                        /\ monitors'[n].group \in {monitors[n].group, Nothing}
      OBVIOUS
    <2>1. n \in Listed /\ n \in Views!Live
      BY DEF Views!DeleteGroup, Views!Live
    <2>2. monitors[n] \in RowType
      BY <2>1 DEF ViewsInv, ViewsTyped, Views!Live
    <2>3. monitors'[n] = IF monitors[n].group = g
                         THEN [monitors[n] EXCEPT !.group = Nothing] ELSE monitors[n]
      BY <2>1 DEF Views!DeleteGroup
    <2> QED
      BY <2>1, <2>2, <2>3 DEF RowType
  <1>3. \A h \in Groups \cap still' :
              parent'[h] # "gone" /\ parent'[h] \in {parent[h], Nothing}
    BY ViewsAssumption DEF Views!DeleteGroup, Views!Edited, Views!Touched, ViewsInv, StillThere,
       Views!LiveG, ViewsTyped, Views!ViewsAssumption
  <1> QED
    BY <1>1, <1>2, <1>3, WritesKeepTheWorst DEF Views!DeleteGroup, Views!Edited, Views!Touched, ViewsInv

LEMMA TickSound == ASSUME ViewsInv, Views!Tick PROVE ViewsInv'
  <1>1. ViewsTyped'
    BY DEF Views!Tick, ViewsInv, ViewsTyped
  <1> QED
    BY <1>1 DEF Views!Tick, Views!reads, ViewsInv, RequestFits, StillThere, Views!LiveG,
       Views!GroupTellsTheWorst, Views!Live

LEMMA ViewsReadsSound ==
    ASSUME ViewsInv,
           \/ Views!listGroups \/ Views!embed \/ Views!Answered
           \/ \E f \in Views!Filters : Views!listMonitors(f) \/ Views!getMonitorMembership(f)
    PROVE  ViewsInv'
  <1>1. ViewsTyped'
    BY DEF Views!listGroups, Views!embed, Views!Answered, Views!listMonitors,
       Views!getMonitorMembership, Views!table, ViewsInv, ViewsTyped
  <1>2. CASE Views!listGroups
    <2>1. RequestFits'
      BY <1>2 DEF Views!listGroups, Views!Begin, Views!table, RequestFits, Views!LiveG
    <2>2. StillThere'
      BY <1>2, ViewsAssumption DEF Views!listGroups, Views!Begin, Views!table, StillThere, Views!LiveG,
         Views!Live, Views!ViewsAssumption
    <2>3. request' # [kind |-> "groups", step |-> 2]
      BY <1>2 DEF Views!listGroups, Views!Begin
    <2> QED
      BY <1>1, <2>1, <2>2, <2>3 DEF ViewsInv, Views!GroupTellsTheWorst
  <1>3. CASE Views!embed
    BY <1>1, <1>3 DEF Views!embed, Views!table, ViewsInv, RequestFits, StillThere, Views!LiveG,
       Views!GroupTellsTheWorst
  <1>4. CASE Views!Answered
    BY <1>1, <1>4 DEF Views!Answered, Views!table, ViewsInv, RequestFits, StillThere, Views!LiveG,
       Views!GroupTellsTheWorst
  <1>5. ASSUME NEW f \in Views!Filters, Views!listMonitors(f) PROVE ViewsInv'
    <2>1. RequestFits' /\ StillThere'
      BY <1>5, ViewsAssumption DEF Views!listMonitors, Views!Begin, Views!table, ViewsInv, RequestFits,
         StillThere, Views!LiveG, Views!Live, Views!ViewsAssumption
    <2>2. request' # [kind |-> "groups", step |-> 2]
      BY <1>5 DEF Views!listMonitors, Views!Begin
    <2> QED
      BY <1>1, <2>1, <2>2 DEF ViewsInv, Views!GroupTellsTheWorst
  <1>6. ASSUME NEW f \in Views!Filters, Views!getMonitorMembership(f) PROVE ViewsInv'
    BY <1>1, <1>6 DEF Views!getMonitorMembership, Views!table, Views!reads, ViewsInv, RequestFits,
       StillThere, Views!LiveG, Views!Live, Views!GroupTellsTheWorst
  <1> QED
    BY <1>2, <1>3, <1>4, <1>5, <1>6

\* The second read of GET /groups.
LEMMA SummariseSound == ASSUME ViewsInv, Views!summarise PROVE ViewsInv'
  <1>1. ViewsTyped' /\ RequestFits' /\ StillThere'
    BY DEF Views!summarise, Views!table, ViewsInv, ViewsTyped, RequestFits, StillThere, Views!LiveG
  <1>2. ASSUME NEW g \in DOMAIN page \cap still, NEW m \in Views!Live \cap still,
               monitors[m].status = "down",
               LET h == monitors[m].group
               IN h = g \/ (h # Nothing /\ h \in still /\ parent[h] = g)
        PROVE  Views!groupSummaries(DOMAIN page)[g].status = "down"
    <2>1. g \in Groups /\ g # Nothing /\ g \in Views!LiveG
      BY <1>2, ViewsAssumption DEF Views!summarise, ViewsInv, RequestFits, StillThere,
         Views!ViewsAssumption
    <2>2. m \in Views!Under(g)
      BY <1>2, <2>1 DEF Views!Under
    <2>3. "down" \in Views!StatusesUnder(g)
      BY <1>2, <2>2 DEF Views!StatusesUnder
    <2>4. Views!StatusesUnder(g) \subseteq Views!Statuses
      BY DEF Views!StatusesUnder, Views!Under, ViewsInv, ViewsTyped, Views!Live, RowType
    <2>5. Views!WorstStatus(Views!StatusesUnder(g)) = "down"
      BY <2>3, <2>4, DownIsWorst
    <2> QED
      BY <1>2, <2>1, <2>5 DEF Views!groupSummaries
  <1>3. Views!GroupTellsTheWorst'
    BY <1>2 DEF Views!summarise, Views!table, Views!GroupTellsTheWorst, Views!Live
  <1> QED
    BY <1>1, <1>3 DEF ViewsInv

LEMMA ViewsStutterSound == ASSUME ViewsInv, UNCHANGED Views!vars PROVE ViewsInv'
  BY DEF Views!vars, Views!table, Views!reads, ViewsInv, ViewsTyped, RequestFits, StillThere,
     Views!LiveG, Views!Live, Views!GroupTellsTheWorst

LEMMA ViewsStepSound == ASSUME ViewsInv, [Views!Next]_(Views!vars) PROVE ViewsInv'
  <1>1. ASSUME NEW m \in Listed,
               \/ Views!WriteBatch(m) \/ Views!ApplyMaintenance(m) \/ Views!DeleteMonitor(m)
               \/ \E s \in {"up", "down"} : Views!SaveState(m, s)
               \/ \E s \in {"paused", "pending"} : Views!SetMonitorEnabled(m, s)
               \/ \E g \in Groups \cup {Nothing} : Views!UpdateMonitor(m, g)
        PROVE  ViewsInv'
    BY <1>1, WriteBatchSound, ApplyMaintenanceSound, DeleteMonitorSound, SaveStateSound,
       SetMonitorEnabledSound, UpdateMonitorSound
  <1>2. ASSUME NEW g \in Groups,
               Views!DeleteGroup(g) \/ \E p \in Groups \cup {Nothing} : Views!UpdateGroup(g, p)
        PROVE  ViewsInv'
    BY <1>2, DeleteGroupSound, UpdateGroupSound
  <1>3. CASE Views!Tick
    BY <1>3, TickSound
  <1>4. CASE Views!summarise
    BY <1>4, SummariseSound
  <1>5. CASE \/ Views!listGroups \/ Views!embed \/ Views!Answered
             \/ \E f \in Views!Filters : Views!listMonitors(f) \/ Views!getMonitorMembership(f)
    BY <1>5, ViewsReadsSound
  <1>6. CASE UNCHANGED Views!vars
    BY <1>6, ViewsStutterSound
  <1> QED
    BY <1>1, <1>2, <1>3, <1>4, <1>5, <1>6 DEF Views!Next

(* The tables of monitors and groups keep their types under every writer,   *)
(* and a request for groups that has both its reads tells the worst of what *)
(* stood still (taxonomy.go, groupSummaries).                               *)
THEOREM ViewsCorrect == Views!Spec => []ViewsInv
  <1>1. Views!Init => ViewsInv
    BY ViewsInitSound
  <1>2. ViewsInv /\ [Views!Next]_(Views!vars) => ViewsInv'
    BY ViewsStepSound
  <1> QED
    BY <1>1, <1>2, PTL DEF Views!Spec

(* A group says down whenever a monitor in it, or in a group under it, was  *)
(* down throughout the request, whatever is written between the two reads   *)
(* of GET /groups (taxonomy.go, groupSummaries).                            *)
THEOREM GroupsTellTheWorst == Views!Spec => []GroupTellsTheWorst
  <1>1. ViewsInv => GroupTellsTheWorst
    BY DEF ViewsInv, GroupTellsTheWorst
  <1> QED
    BY <1>1, ViewsCorrect, PTL

-----------------------------------------------------------------------------
(* The tiers (Rollup) *)

-----------------------------------------------------------------------------
(* Buckets *)

LEMMA QuotientBounds ==
    ASSUME NEW x \in Nat, NEW w \in Nat \ {0}
    PROVE  /\ x \div w \in Nat
           /\ (x \div w) * w <= x /\ x < (x \div w) * w + w
  OBVIOUS

LEMMA ProductGrows ==
    ASSUME NEW a \in Nat, NEW b \in Nat, NEW w \in Nat, a < b
    PROVE  a * w + w <= b * w
  <1>1. PICK d \in Nat : b = a + 1 + d
    <2>1. b - a - 1 \in Nat /\ b = a + 1 + (b - a - 1)
      OBVIOUS
    <2> QED
      BY <2>1
  <1>2. b * w = a * w + w + d * w
    BY <1>1
  <1>3. d * w >= 0 /\ d * w \in Nat /\ a * w \in Nat
    OBVIOUS
  <1> QED
    BY <1>2, <1>3

\* Bucket floors a time to its bucket's start.
LEMMA BucketFloors ==
    ASSUME NEW t \in Tiers!Tiers, NEW x \in Nat
    PROVE  Tiers!Bucket(x, t) \in Nat /\ Tiers!Bucket(x, t) <= x /\ x < Tiers!Bucket(x, t) + Width[t]
  <1>1. Width[t] \in Nat \ {0}
    BY TiersAssumption DEF Tiers!RollupAssumption, Tiers!Tiers
  <1>2. (x \div Width[t]) \in Nat
    BY <1>1, QuotientBounds
  <1>3. (x \div Width[t]) * Width[t] \in Nat
    BY <1>1, <1>2
  <1> QED
    BY <1>1, <1>3, QuotientBounds DEF Tiers!Bucket

LEMMA BucketMonotone ==
    ASSUME NEW t \in Tiers!Tiers, NEW x \in Nat, NEW y \in Nat, x <= y
    PROVE  Tiers!Bucket(x, t) <= Tiers!Bucket(y, t)
  <1> DEFINE w == Width[t]
             p == x \div w
             q == y \div w
  <1>1. w \in Nat \ {0}
    BY TiersAssumption DEF Tiers!RollupAssumption, Tiers!Tiers
  <1>2. /\ p \in Nat /\ q \in Nat
        /\ p * w <= x /\ x < p * w + w /\ q * w <= y /\ y < q * w + w
    BY <1>1, QuotientBounds
  <1>3. p * w \in Nat /\ q * w \in Nat
    BY <1>1, <1>2
  <1> HIDE DEF p, q, w
  <1>4. CASE p = q
    BY <1>3, <1>4 DEF Tiers!Bucket, p, q, w
  <1>5. CASE p < q
    <2>1. p * w + w <= q * w
      BY <1>1, <1>2, <1>5, ProductGrows
    <2>2. p * w <= q * w
      BY <2>1, <1>1, <1>3
    <2> QED
      BY <2>2 DEF Tiers!Bucket, p, q, w
  <1>6. CASE q < p
    <2>1. q * w + w <= p * w
      BY <1>1, <1>2, <1>6, ProductGrows
    <2> QED
      BY <2>1, <1>1, <1>2, <1>3
  <1> QED
    BY <1>2, <1>4, <1>5, <1>6

LEMMA BucketIsItsOwn ==
    ASSUME NEW t \in Tiers!Tiers, NEW x \in Nat
    PROVE  Tiers!Bucket(Tiers!Bucket(x, t), t) = Tiers!Bucket(x, t)
  <1> DEFINE w == Width[t]
             p == x \div w
             q == (p * w) \div w
  <1>1. w \in Nat \ {0}
    BY TiersAssumption DEF Tiers!RollupAssumption, Tiers!Tiers
  <1>2. p \in Nat /\ p * w \in Nat
    BY <1>1, QuotientBounds
  <1>3. q \in Nat /\ q * w <= p * w /\ p * w < q * w + w /\ q * w \in Nat
    BY <1>1, <1>2, QuotientBounds
  <1> HIDE DEF p, q, w
  <1>4. CASE p < q
    <2>1. p * w + w <= q * w
      BY <1>1, <1>2, <1>3, <1>4, ProductGrows
    <2> QED
      BY <2>1, <1>1, <1>2, <1>3
  <1>5. CASE q < p
    <2>1. q * w + w <= p * w
      BY <1>1, <1>2, <1>3, <1>5, ProductGrows
    <2> QED
      BY <2>1, <1>1, <1>2, <1>3
  <1>6. CASE p = q
    BY <1>6 DEF Tiers!Bucket, p, q, w
  <1> QED
    BY <1>2, <1>3, <1>4, <1>5, <1>6

\* The bucket of a tick is one of the tier's.
LEMMA BucketStarts ==
    ASSUME NEW t \in Tiers!Tiers, NEW x \in Tiers!Ticks
    PROVE  Tiers!Bucket(x, t) \in Tiers!Starts(t)
  <1>1. x \in Nat /\ RollupEnd \in Nat /\ x <= RollupEnd
    BY TiersAssumption DEF Tiers!RollupAssumption, Tiers!Ticks
  <1>2. Tiers!Bucket(x, t) \in Tiers!Ticks
    BY <1>1, BucketFloors DEF Tiers!Ticks
  <1> QED
    BY <1>1, <1>2, BucketIsItsOwn DEF Tiers!Starts

LEMMA MaxIn ==
    ASSUME NEW S \in SUBSET Tiers!Ticks, S # {}
    PROVE  Tiers!Max(S) \in S /\ \A y \in S : y <= Tiers!Max(S)
  <1> DEFINE D == {RollupEnd - y : y \in S}
  <1>1. RollupEnd \in Nat /\ \A y \in S : y \in Nat /\ RollupEnd - y \in Nat
    BY TiersAssumption DEF Tiers!RollupAssumption, Tiers!Ticks
  <1>2. D \in SUBSET Nat /\ D # {}
    BY <1>1
  <1> HIDE DEF D
  <1>3. PICK x \in D : \A y \in D : ~ (<<y, x>> \in OpToRel(<, Nat))
    BY <1>2, NatLessThanWellFounded, WFMin, Zenon
  <1>4. \A y \in D : ~ (y < x)
    BY <1>2, <1>3, Zenon DEF OpToRel
  <1>5. PICK z \in S : x = RollupEnd - z
    BY <1>3 DEF D
  <1>6. \A y \in S : y <= z
    BY <1>1, <1>4, <1>5 DEF D
  <1>7. \A y \in S : z >= y
    BY <1>1, <1>6
  <1>8. Tiers!Max(S) \in S /\ \A y \in S : Tiers!Max(S) >= y
    BY <1>7 DEF Tiers!Max
  <1> QED
    BY <1>1, <1>8

LEMMA MinIn ==
    ASSUME NEW S \in SUBSET Tiers!Ticks, S # {}
    PROVE  Tiers!Min(S) \in S /\ \A y \in S : Tiers!Min(S) <= y
  <1>1. S \in SUBSET Nat
    BY TiersAssumption DEF Tiers!RollupAssumption, Tiers!Ticks
  <1>2. PICK x \in S : \A y \in S : ~ (<<y, x>> \in OpToRel(<, Nat))
    BY <1>1, NatLessThanWellFounded, WFMin, Zenon
  <1>3. \A y \in S : ~ (y < x)
    BY <1>1, <1>2, Zenon DEF OpToRel
  <1>4. \A y \in S : x <= y
    BY <1>1, <1>3
  <1> QED
    BY <1>4 DEF Tiers!Min

-----------------------------------------------------------------------------
(* The inductive invariant *)

\* The heartbeat is in the fine tier, or would have expired there too.
Kept(h) ==
    \/ h \in tier["fine"][Tiers!Bucket(h, "fine")]
    \/ Tiers!Bucket(h, "fine") + FineKept < rollupNow

\* What the fine tier has gone past was counted.
PassedWasCounted ==
    monitor = "live" /\ Tiers!Rows("fine") # {} =>
      \A h \in raw \ excused : Tiers!Bucket(h, "fine") < Tiers!From("fine") => Kept(h)

\* What a pass that is not behind is about to delete was counted.
DueWasCounted ==
    monitor = "live" /\ pass.pc \in {"coarse", "raw"} /\ ~pass.behind =>
      \A h \in raw \ excused : h + RawKept < pass.at => Kept(h)

\* The inductive invariant.
TiersInv ==
    /\ Tiers!TypeOK /\ pass.at <= rollupNow
    /\ PassedWasCounted /\ DueWasCounted /\ Tiers!DeletedWasCounted

LEMMA HeartbeatTypes ==
    ASSUME TiersInv, NEW h \in rollupSeen
    PROVE  /\ h \in Nat /\ h \in Tiers!Ticks
           /\ Tiers!Bucket(h, "fine") \in Nat /\ Tiers!Bucket(h, "fine") <= h
           /\ Tiers!Bucket(h, "fine") \in Tiers!Starts("fine")
           /\ pass.at \in Nat /\ rollupNow \in Nat /\ RawKept \in Nat /\ FineKept \in Nat
  <1>1. h \in Tiers!Ticks /\ rollupNow \in Tiers!Ticks /\ pass.at \in Tiers!Ticks
    BY DEF TiersInv, Tiers!TypeOK
  <1>2. h \in Nat /\ rollupNow \in Nat /\ pass.at \in Nat /\ RawKept \in Nat /\ FineKept \in Nat
    BY <1>1, TiersAssumption DEF Tiers!RollupAssumption, Tiers!Ticks
  <1>3. "fine" \in Tiers!Tiers
    BY DEF Tiers!Tiers
  <1> QED
    BY <1>1, <1>2, <1>3, BucketFloors, BucketStarts

\* Where the next pass starts in a tier with rows: at its newest at most.
LEMMA FromBounds ==
    ASSUME TiersInv, Tiers!Rows("fine") # {}
    PROVE  /\ Tiers!From("fine") \in Nat /\ Tiers!From("fine") <= Tiers!Max(Tiers!Rows("fine"))
           /\ Tiers!Max(Tiers!Rows("fine")) \in Tiers!Rows("fine")
                  /\ Tiers!Max(Tiers!Rows("fine")) \in Nat
           /\ \A b \in Tiers!Rows("fine") : b <= Tiers!Max(Tiers!Rows("fine"))
  <1>1. Tiers!Rows("fine") \in SUBSET Tiers!Ticks
    BY DEF Tiers!Rows, Tiers!Starts
  <1>2. /\ Tiers!Max(Tiers!Rows("fine")) \in Tiers!Rows("fine")
        /\ \A b \in Tiers!Rows("fine") : b <= Tiers!Max(Tiers!Rows("fine"))
    BY <1>1, MaxIn
  <1>3. Tiers!Max(Tiers!Rows("fine")) \in Nat /\ Reprocess["fine"] \in Nat /\ "fine" \in Tiers!Tiers
    BY <1>1, <1>2, TiersAssumption DEF Tiers!RollupAssumption, Tiers!Ticks, Tiers!Tiers
  <1>4. /\ Tiers!Back(Tiers!Max(Tiers!Rows("fine")), Reprocess["fine"]) \in Nat
        /\ Tiers!Back(Tiers!Max(Tiers!Rows("fine")), Reprocess["fine"]) <= Tiers!Max(Tiers!Rows("fine"))
    BY <1>3 DEF Tiers!Back
  <1> HIDE DEF Tiers!Rows
  <1>5. Tiers!From("fine") = Tiers!Bucket(Tiers!Back(Tiers!Max(Tiers!Rows("fine")), Reprocess["fine"]),
            "fine")
    BY DEF Tiers!From
  <1> QED
    BY <1>2, <1>3, <1>4, <1>5, BucketFloors

\* ... and without rows, at the bucket of the oldest heartbeat.
LEMMA FromOldest ==
    ASSUME TiersInv, Tiers!Rows("fine") = {}, NEW h \in raw
    PROVE  Tiers!From("fine") \in Nat /\ Tiers!From("fine") <= Tiers!Bucket(h, "fine")
  <1>1. raw \in SUBSET Tiers!Ticks /\ raw # {}
    BY DEF TiersInv, Tiers!TypeOK
  <1>2. Tiers!Min(raw) \in raw /\ Tiers!Min(raw) <= h
    BY <1>1, MinIn
  <1>a. \A x \in Tiers!Ticks : x \in Nat
    BY TiersAssumption DEF Tiers!RollupAssumption, Tiers!Ticks
  <1>3. Tiers!Min(raw) \in Nat /\ h \in Nat /\ "fine" \in Tiers!Tiers
    BY <1>1, <1>2, <1>a DEF Tiers!Tiers
  <1>4. Tiers!From("fine") = Tiers!Bucket(Tiers!Min(raw), "fine")
    BY DEF Tiers!From, Tiers!Source
  <1> QED
    BY <1>2, <1>3, <1>4, BucketFloors, BucketMonotone

-----------------------------------------------------------------------------
(* The steps *)

LEMMA TiersInitSound == Tiers!Init => TiersInv
  <1> SUFFICES ASSUME Tiers!Init PROVE TiersInv
    OBVIOUS
  <1>1. 0 \in Tiers!Ticks /\ 0 \in 0 .. RollupErrors
    BY TiersAssumption DEF Tiers!RollupAssumption, Tiers!Ticks
  <1>2. Tiers!TypeOK
    BY <1>1 DEF Tiers!Init, Tiers!TypeOK, Tiers!Tiers, Tiers!Idle
  <1>3. pass.at <= rollupNow
    BY DEF Tiers!Init, Tiers!Idle
  <1> QED
    BY <1>2, <1>3 DEF Tiers!Init, TiersInv, PassedWasCounted, DueWasCounted, Tiers!DeletedWasCounted,
       Tiers!Idle

\* While the fine tier is as it was, what was counted stays so.
LEMMA FineStays ==
    ASSUME TiersInv, tier'["fine"] = tier["fine"], rollupNow' \in Nat, rollupNow <= rollupNow',
           monitor' = "live" => monitor = "live",
           raw' \subseteq raw, excused \subseteq excused'
    PROVE  /\ PassedWasCounted'
           /\ \A h \in rollupSeen : Kept(h) => Kept(h)'
  <1>1. \A h \in rollupSeen : Kept(h) => Kept(h)'
    BY HeartbeatTypes DEF Kept, Tiers!Bucket
  <1>2. Tiers!Rows("fine")' = Tiers!Rows("fine")
    BY DEF Tiers!Rows
  <1>3. Tiers!Rows("fine") # {} => Tiers!From("fine")' = Tiers!From("fine")
    BY <1>2 DEF Tiers!From, Tiers!Bucket
  <1>4. raw \subseteq rollupSeen
    BY DEF TiersInv, Tiers!TypeOK
  <1>5. \A h : Tiers!Bucket(h, "fine")' = Tiers!Bucket(h, "fine")
    BY DEF Tiers!Bucket
  <1>6. PassedWasCounted'
    BY <1>1, <1>2, <1>3, <1>4, <1>5 DEF TiersInv, PassedWasCounted
  <1> QED
    BY <1>1, <1>6

\* A step that counts, deletes and records nothing.
LEMMA QuietStep ==
    ASSUME TiersInv, Tiers!TypeOK', pass'.at <= rollupNow',
           UNCHANGED <<raw, tier, rollupSeen, excused>>,
           rollupNow <= rollupNow', rollupNow' \in Nat, monitor' = "live" => monitor = "live",
           pass'.pc \in {"coarse", "raw"} /\ ~pass'.behind =>
              pass.pc \in {"coarse", "raw"} /\ ~pass.behind /\ pass'.at = pass.at
    PROVE  TiersInv'
  <1>1. /\ PassedWasCounted'
        /\ \A h \in rollupSeen : Kept(h) => Kept(h)'
    BY FineStays
  <1>2. raw \subseteq rollupSeen
    BY DEF TiersInv, Tiers!TypeOK
  <1>3. DueWasCounted'
    BY <1>1, <1>2 DEF TiersInv, DueWasCounted
  <1>4. Tiers!DeletedWasCounted'
    BY <1>1 DEF TiersInv, Tiers!DeletedWasCounted, Kept, Tiers!Bucket
  <1> QED
    BY <1>1, <1>3, <1>4 DEF TiersInv

LEMMA PassTypes ==
    ASSUME TiersInv
    PROVE  /\ pass = [pc |-> pass.pc, at |-> pass.at, behind |-> pass.behind]
           /\ pass.pc \in {"idle", "fine", "coarse", "raw", "buckets", "purge"}
           /\ pass.at \in Tiers!Ticks /\ pass.behind \in BOOLEAN /\ pass.at <= rollupNow
           /\ rollupNow \in Tiers!Ticks /\ rollupNow \in Nat /\ pass.at \in Nat
  BY TiersAssumption DEF TiersInv, Tiers!TypeOK, Tiers!RollupAssumption, Tiers!Ticks

LEMMA StartPassSound == ASSUME TiersInv, Tiers!StartPass PROVE TiersInv'
  <1>1. Tiers!TypeOK' /\ pass'.at <= rollupNow' /\ pass'.pc = "fine" /\ rollupNow' = rollupNow
    BY PassTypes DEF Tiers!StartPass, TiersInv, Tiers!TypeOK
  <1> QED
    BY <1>1, PassTypes, QuietStep DEF Tiers!StartPass

LEMMA TimePassesSound == ASSUME TiersInv, Tiers!TimePasses PROVE TiersInv'
  <1>1. rollupNow' \in Tiers!Ticks /\ rollupNow' \in Nat /\ rollupNow <= rollupNow'
    BY PassTypes, TiersAssumption DEF Tiers!TimePasses, Tiers!Ticks, Tiers!RollupAssumption
  <1>2. Tiers!TypeOK' /\ pass'.at <= rollupNow'
    BY <1>1, PassTypes DEF Tiers!TimePasses, TiersInv, Tiers!TypeOK
  <1> QED
    BY <1>1, <1>2, QuietStep DEF Tiers!TimePasses

LEMMA TiersDeleteMonitorSound == ASSUME TiersInv, Tiers!DeleteMonitor PROVE TiersInv'
  <1>1. Tiers!TypeOK' /\ pass'.at <= rollupNow' /\ rollupNow <= rollupNow' /\ rollupNow' \in Nat
    BY PassTypes DEF Tiers!DeleteMonitor, TiersInv, Tiers!TypeOK
  <1> QED
    BY <1>1, QuietStep DEF Tiers!DeleteMonitor

LEMMA FailuresCount ==
    ASSUME TiersInv, Tiers!Fails
    PROVE  rollupErrors' \in 0 .. RollupErrors
  BY TiersAssumption DEF Tiers!Fails, TiersInv, Tiers!TypeOK, Tiers!RollupAssumption

LEMMA RetainFailsSound == ASSUME TiersInv, Tiers!RetainFails PROVE TiersInv'
  <1>1. pass' = [pc |-> "purge", at |-> pass.at, behind |-> pass.behind]
    BY PassTypes DEF Tiers!RetainFails
  <1>2. Tiers!TypeOK' /\ pass'.at <= rollupNow' /\ rollupNow <= rollupNow' /\ rollupNow' \in Nat
    BY <1>1, PassTypes, FailuresCount DEF Tiers!RetainFails, TiersInv, Tiers!TypeOK
  <1> QED
    BY <1>1, <1>2, QuietStep DEF Tiers!RetainFails

LEMMA PurgeFailsSound == ASSUME TiersInv, Tiers!PurgeFails PROVE TiersInv'
  <1>1. Tiers!Idle \in [pc : {"idle", "fine", "coarse", "raw", "buckets", "purge"},
                        at : Tiers!Ticks, behind : BOOLEAN] /\ Tiers!Idle.at = 0
                            /\ Tiers!Idle.pc = "idle"
    BY TiersAssumption DEF Tiers!Idle, Tiers!RollupAssumption, Tiers!Ticks
  <1>2. Tiers!TypeOK' /\ pass'.at <= rollupNow' /\ rollupNow <= rollupNow' /\ rollupNow' \in Nat
    BY <1>1, PassTypes, FailuresCount DEF Tiers!PurgeFails, TiersInv, Tiers!TypeOK
  <1> QED
    BY <1>1, <1>2, QuietStep DEF Tiers!PurgeFails

\* The purge touches only what is left of a deleted monitor.
LEMMA PurgeNextSound == ASSUME TiersInv, Tiers!PurgeNext PROVE TiersInv'
  <1>1. Tiers!Idle \in [pc : {"idle", "fine", "coarse", "raw", "buckets", "purge"},
                        at : Tiers!Ticks, behind : BOOLEAN] /\ Tiers!Idle.at = 0
                            /\ Tiers!Idle.pc = "idle"
    BY TiersAssumption DEF Tiers!Idle, Tiers!RollupAssumption, Tiers!Ticks
  <1>2. CASE monitor # "deleted"
    <2>1. Tiers!TypeOK' /\ pass'.at <= rollupNow' /\ rollupNow <= rollupNow' /\ rollupNow' \in Nat
      BY <1>1, <1>2, PassTypes DEF Tiers!PurgeNext, TiersInv, Tiers!TypeOK
    <2> QED
      BY <1>1, <1>2, <2>1, QuietStep DEF Tiers!PurgeNext
  <1>3. CASE monitor = "deleted"
    <2>1. raw' \subseteq raw /\ monitor' \in {"deleted", "purged"}
      BY <1>3 DEF Tiers!PurgeNext
    <2>2. DOMAIN tier' = Tiers!Tiers
              /\ \A t \in Tiers!Tiers : tier'[t] \in [Tiers!Starts(t) -> SUBSET rollupSeen]
      <3>1. CASE tier' = tier
        BY <3>1 DEF TiersInv, Tiers!TypeOK
      <3>2. CASE \E u \in Tiers!Tiers : tier' = [tier EXCEPT ![u] = [b \in Tiers!Starts(u) |-> {}]]
        BY <3>2 DEF TiersInv, Tiers!TypeOK
      <3>3. tier' = tier \/ \E u \in Tiers!Tiers : tier' = [tier EXCEPT ![u] = [b \in Tiers!Starts(u) |-> {}]]
        BY <1>3 DEF Tiers!PurgeNext, Tiers!Tiers
      <3> QED
        BY <3>1, <3>2, <3>3
    <2>3. Tiers!TypeOK'
      BY <1>3, <2>1, <2>2 DEF Tiers!PurgeNext, TiersInv, Tiers!TypeOK, Tiers!Starts, Tiers!Bucket,
         Tiers!Ticks, Tiers!Tiers
    <2>4. pass'.at <= rollupNow'
      BY <1>3, PassTypes DEF Tiers!PurgeNext
    <2> QED
      BY <2>1, <2>3, <2>4 DEF TiersInv, PassedWasCounted, DueWasCounted, Tiers!DeletedWasCounted
  <1> QED
    BY <1>2, <1>3

LEMMA RecordSound == ASSUME TiersInv, NEW h \in Tiers!Ticks, Tiers!Record(h) PROVE TiersInv'
  <1>1. h \in Nat /\ RawKept \in Nat
    BY TiersAssumption DEF Tiers!RollupAssumption, Tiers!Ticks
  <1>2. Tiers!TypeOK' /\ pass'.at <= rollupNow'
    <2>1. \A t \in Tiers!Tiers : tier'[t] \in [Tiers!Starts(t) -> SUBSET rollupSeen']
      BY DEF Tiers!Record, TiersInv, Tiers!TypeOK
    <2> QED
      BY <2>1 DEF Tiers!Record, TiersInv, Tiers!TypeOK
  <1>3. UNCHANGED <<rollupNow, tier, pass, monitor>> /\ raw' = raw \cup {h}
            /\ rollupSeen' = rollupSeen \cup {h}
        /\ excused \subseteq excused'
    BY DEF Tiers!Record
  <1>4. /\ Tiers!Rows("fine")' = Tiers!Rows("fine")
               /\ \A k : Tiers!Bucket(k, "fine")' = Tiers!Bucket(k, "fine")
        /\ \A k : Kept(k)' = Kept(k)
    BY <1>3 DEF Tiers!Rows, Kept, Tiers!Bucket
  <1>5. Tiers!Rows("fine") # {} => Tiers!From("fine")' = Tiers!From("fine")
    BY <1>3, <1>4 DEF Tiers!From, Tiers!Bucket
  <1>6. h \notin excused' => /\ ~(Tiers!Rows("fine") # {} /\ Tiers!Bucket(h, "fine") < Tiers!From("fine"))
                             /\ ~(h + RawKept < rollupNow)
    BY DEF Tiers!Record
  <1>7. PassedWasCounted'
    BY <1>3, <1>4, <1>5, <1>6 DEF TiersInv, PassedWasCounted
  <1>8. h \notin excused' => ~(h + RawKept < pass.at)
    BY <1>1, <1>6, PassTypes
  <1>9. DueWasCounted'
    BY <1>3, <1>4, <1>8 DEF TiersInv, DueWasCounted
  <1>10. Tiers!DeletedWasCounted'
    BY <1>3, <1>4 DEF TiersInv, Tiers!DeletedWasCounted, Kept
  <1> QED
    BY <1>2, <1>7, <1>9, <1>10 DEF TiersInv

LEMMA RetainRawSound == ASSUME TiersInv, Tiers!RetainRaw PROVE TiersInv'
  <1>1. PICK batch \in SUBSET (raw \cap Tiers!Expired(RawKept)) :
          /\ raw' = raw \ batch
          /\ excused' = IF pass.behind THEN excused \cup batch ELSE excused
          /\ \E pc \in {"buckets", "raw"} :
               pass' = [pass EXCEPT !.pc = pc]
    BY DEF Tiers!RetainRaw
  <1>2. pass.pc = "raw" /\ UNCHANGED <<rollupNow, tier, monitor, rollupErrors, rollupSeen, stragglers>>
    BY DEF Tiers!RetainRaw
  <1>3. PICK pc \in {"buckets", "raw"} :
            pass' = [pc |-> pc, at |-> pass.at, behind |-> pass.behind]
    BY <1>1, PassTypes
  <1>4. raw \subseteq rollupSeen /\ excused \subseteq rollupSeen
    BY DEF TiersInv, Tiers!TypeOK
  <1>5. Tiers!TypeOK' /\ pass'.at <= rollupNow'
    BY <1>1, <1>2, <1>3, <1>4, PassTypes DEF TiersInv, Tiers!TypeOK
  <1>6. /\ PassedWasCounted'
        /\ \A h \in rollupSeen : Kept(h) => Kept(h)'
    BY <1>1, <1>2, PassTypes, FineStays
  <1>7. DueWasCounted'
    BY <1>1, <1>2, <1>3, <1>4, <1>6 DEF TiersInv, DueWasCounted
  <1>8. ASSUME monitor = "live", NEW h \in batch, h \notin excused' PROVE Kept(h)
    <2>1. ~pass.behind /\ h \notin excused /\ h \in raw /\ h + RawKept < pass.at
      BY <1>1, <1>8, PassTypes DEF Tiers!Expired
    <2> QED
      BY <1>2, <1>8, <2>1 DEF TiersInv, DueWasCounted
  <1>9. Tiers!DeletedWasCounted'
    <2> SUFFICES ASSUME monitor' = "live", NEW h \in rollupSeen' \ (raw' \cup excused')
                 PROVE  Kept(h)'
      BY DEF Tiers!DeletedWasCounted, Kept, Tiers!Bucket
    <2>1. Kept(h)
      BY <1>1, <1>2, <1>8 DEF TiersInv, Tiers!DeletedWasCounted, Kept
    <2> QED
      BY <2>1, <1>2, <1>6
  <1> QED
    BY <1>5, <1>6, <1>7, <1>9 DEF TiersInv

\* Retention of the tier: what leaves it has expired.
LEMMA RetainBucketsSound == ASSUME TiersInv, Tiers!RetainBuckets PROVE TiersInv'
  <1>1. PICK batch \in SUBSET (Tiers!Rows("fine") \cap Tiers!Expired(FineKept)) :
          /\ tier' = [tier EXCEPT !["fine"] =
                       [b \in Tiers!Starts("fine") |-> IF b \in batch THEN {} ELSE @[b]]]
          /\ \E pc \in {"buckets", "purge"} :
               pass' = [pass EXCEPT !.pc = pc]
    BY DEF Tiers!RetainBuckets
  <1>2. UNCHANGED <<rollupNow, raw, monitor, rollupErrors, rollupSeen, excused, stragglers>>
    BY DEF Tiers!RetainBuckets
  <1>3. PICK pc \in {"buckets", "purge"} :
            pass' = [pc |-> pc, at |-> pass.at, behind |-> pass.behind]
    BY <1>1, PassTypes
  <1>4. /\ DOMAIN tier = Tiers!Tiers /\ "fine" \in Tiers!Tiers /\ "coarse" \in Tiers!Tiers
        /\ tier["fine"] \in [Tiers!Starts("fine") -> SUBSET rollupSeen]
    BY DEF TiersInv, Tiers!TypeOK, Tiers!Tiers
  <1>5. /\ DOMAIN tier' = Tiers!Tiers /\ tier'["coarse"] = tier["coarse"]
        /\ tier'["fine"] = [b \in Tiers!Starts("fine") |-> IF b \in batch THEN {} ELSE tier["fine"][b]]
    BY <1>1, <1>4
  <1>6. tier'["fine"] \in [Tiers!Starts("fine") -> SUBSET rollupSeen]
    BY <1>4, <1>5
  <1>7. Tiers!TypeOK' /\ pass'.at <= rollupNow'
    BY <1>2, <1>3, <1>5, <1>6, PassTypes DEF TiersInv, Tiers!TypeOK, Tiers!Tiers, Tiers!Starts,
       Tiers!Bucket, Tiers!Ticks
  <1>8. \A h \in rollupSeen : Kept(h) => Kept(h)'
    <2> SUFFICES ASSUME NEW h \in rollupSeen, Kept(h) PROVE Kept(h)'
      OBVIOUS
    <2> DEFINE b == Tiers!Bucket(h, "fine")
    <2>1. /\ b \in Nat /\ b \in Tiers!Starts("fine")
          /\ pass.at \in Nat /\ rollupNow \in Nat /\ FineKept \in Nat
      BY HeartbeatTypes
    <2>2. Tiers!Bucket(h, "fine")' = b
      BY DEF Tiers!Bucket
    <2> HIDE DEF b
    <2>3. CASE b \in batch
      <3>1. b + FineKept < pass.at
        BY <1>1, <2>3 DEF Tiers!Expired
      <3> QED
        BY <1>2, <2>1, <2>2, <3>1, PassTypes DEF Kept
    <2>4. CASE b \notin batch
      BY <1>2, <1>5, <2>1, <2>2, <2>4 DEF Kept, b
    <2> QED
      BY <2>3, <2>4
  <1>9. PassedWasCounted'
    <2>1. Tiers!Rows("fine")' = Tiers!Rows("fine") \ batch
      BY <1>5 DEF Tiers!Rows, Tiers!Starts, Tiers!Bucket, Tiers!Ticks
    <2> SUFFICES ASSUME monitor' = "live", Tiers!Rows("fine")' # {}, NEW h \in raw' \ excused',
                        Tiers!Bucket(h, "fine")' < Tiers!From("fine")'
                 PROVE  Kept(h)'
      BY DEF PassedWasCounted
    <2>2. h \in raw \ excused /\ h \in rollupSeen /\ Tiers!Bucket(h, "fine")' = Tiers!Bucket(h, "fine")
              /\ Tiers!Rows("fine") # {}
      BY <1>2, <2>1 DEF Tiers!Bucket, TiersInv, Tiers!TypeOK
    <2>3. Tiers!From("fine")' <= Tiers!From("fine") /\ Tiers!From("fine")' \in Nat
              /\ Tiers!From("fine") \in Nat
      <3> DEFINE new == Tiers!Rows("fine") \ batch
      <3>1. new # {} /\ new \in SUBSET Tiers!Ticks
        BY <2>1 DEF Tiers!Rows, Tiers!Starts
      <3>2. Tiers!Max(new) \in new /\ Tiers!Max(new) \in Tiers!Ticks
        BY <3>1, MaxIn
      <3>3. /\ Tiers!Max(new) \in Nat /\ Tiers!Max(Tiers!Rows("fine")) \in Nat
                   /\ Tiers!Max(new) <= Tiers!Max(Tiers!Rows("fine"))
            /\ Reprocess["fine"] \in Nat /\ "fine" \in Tiers!Tiers
        BY <2>2, <3>2, FromBounds, TiersAssumption DEF Tiers!RollupAssumption, Tiers!Ticks, Tiers!Tiers
      <3> DEFINE x == Tiers!Back(Tiers!Max(new), Reprocess["fine"])
                 y == Tiers!Back(Tiers!Max(Tiers!Rows("fine")), Reprocess["fine"])
      <3>4. x \in Nat /\ y \in Nat /\ x <= y
        BY <3>3 DEF Tiers!Back
      <3>5. Tiers!From("fine")' = Tiers!Bucket(x, "fine")
                /\ Tiers!From("fine") = Tiers!Bucket(y, "fine")
        <4>1. Tiers!Rows("fine")' = new
          BY <2>1
        <4> QED
          BY <2>2, <4>1, <3>1 DEF Tiers!From, Tiers!Bucket, Tiers!Back
      <3> HIDE DEF x, y
      <3> QED
        BY <3>3, <3>4, <3>5, BucketMonotone, BucketFloors
    <2>4. Tiers!Bucket(h, "fine") < Tiers!From("fine")
      BY <2>2, <2>3, HeartbeatTypes
    <2> QED
      BY <1>2, <1>8, <2>2, <2>4 DEF TiersInv, PassedWasCounted
  <1>10. DueWasCounted'
    BY <1>3 DEF DueWasCounted
  <1>11. Tiers!DeletedWasCounted'
    BY <1>2, <1>8 DEF TiersInv, Tiers!DeletedWasCounted, Kept, Tiers!Bucket
  <1> QED
    BY <1>7, <1>9, <1>10, <1>11 DEF TiersInv

-----------------------------------------------------------------------------
(* A tier is recounted *)

\* What the upsert stores are heartbeats that were recorded.
LEMMA UpsertTypes ==
    ASSUME TiersInv, NEW t \in Tiers!Tiers
    PROVE  /\ Tiers!Upserted(t) \in [Tiers!Starts(t) -> SUBSET rollupSeen]
           /\ Tiers!Forgotten(t) \subseteq rollupSeen
  <1>1. /\ raw \subseteq rollupSeen
        /\ tier["fine"] \in [Tiers!Starts("fine") -> SUBSET rollupSeen]
        /\ tier[t] \in [Tiers!Starts(t) -> SUBSET rollupSeen]
    BY DEF TiersInv, Tiers!TypeOK, Tiers!Tiers
  <1>2. \A b : Tiers!Recount(t, b) \subseteq rollupSeen
    BY <1>1 DEF Tiers!Recount, Tiers!Rows
  <1>3. Tiers!Upserted(t) \in [Tiers!Starts(t) -> SUBSET rollupSeen]
    BY <1>1, <1>2 DEF Tiers!Upserted
  <1> QED
    BY <1>1, <1>3 DEF Tiers!Forgotten

\* What the fine tier had counted it has, or its loss has a name.
LEMMA UpsertForgets ==
    ASSUME TiersInv, NEW h \in rollupSeen, h \in tier["fine"][Tiers!Bucket(h, "fine")],
           h \notin Tiers!Forgotten("fine")
    PROVE  h \in Tiers!Upserted("fine")[Tiers!Bucket(h, "fine")]
  <1>1. Tiers!Bucket(h, "fine") \in Tiers!Starts("fine")
    BY HeartbeatTypes
  <1> QED
    BY <1>1 DEF Tiers!Forgotten

\* Of what is still in the table, the upsert forgets nothing, and counts all
\* that is in the window.
LEMMA UpsertCounts ==
    ASSUME TiersInv, NEW h \in raw,
           \/ h \in tier["fine"][Tiers!Bucket(h, "fine")]
           \/ Tiers!Bucket(h, "fine") \in Tiers!Window("fine")
    PROVE  h \in Tiers!Upserted("fine")[Tiers!Bucket(h, "fine")]
  <1>1. h \in rollupSeen
    BY DEF TiersInv, Tiers!TypeOK
  <1>2. Tiers!Bucket(h, "fine") \in Tiers!Starts("fine")
    BY <1>1, HeartbeatTypes
  <1>3. h \in Tiers!Recount("fine", Tiers!Bucket(h, "fine"))
    BY DEF Tiers!Recount
  <1> QED
    BY <1>2, <1>3 DEF Tiers!Upserted

LEMMA ClosedType ==
    ASSUME TiersInv
    PROVE  Tiers!Closed("fine") \in Nat
               /\ Tiers!Limit("fine") = Tiers!From("fine") + MaxBuckets * Width["fine"]
           /\ (Tiers!From("fine") \in Nat => Tiers!Limit("fine") \in Nat)
  <1>1. Tiers!Back(pass.at, Grace) \in Nat /\ "fine" \in Tiers!Tiers
    BY PassTypes, TiersAssumption DEF Tiers!Back, Tiers!RollupAssumption, Tiers!Tiers
  <1>2. MaxBuckets * Width["fine"] \in Nat
    BY TiersAssumption DEF Tiers!RollupAssumption
  <1> QED
    BY <1>1, <1>2, BucketFloors DEF Tiers!Closed, Tiers!Limit

\* A heartbeat due for deletion is in a bucket that has been closed.
LEMMA DueIsClosed ==
    ASSUME TiersInv, NEW h \in rollupSeen, h + RawKept < pass.at
    PROVE  Tiers!Bucket(h, "fine") < Tiers!Closed("fine")
  <1>1. /\ h \in Nat /\ pass.at \in Nat /\ RawKept \in Nat
        /\ Tiers!Bucket(h, "fine") \in Nat /\ Tiers!Bucket(h, "fine") <= h
    BY HeartbeatTypes
  <1>2. Grace \in Nat /\ Width["fine"] \in Nat \ {0} /\ RawKept >= Grace + Width["fine"]
        /\ "fine" \in Tiers!Tiers
    BY TiersAssumption DEF Tiers!RollupAssumption, Tiers!Tiers
  <1> DEFINE x == pass.at - Grace
  <1>3. pass.at > Grace /\ x \in Nat /\ h + Width["fine"] < x /\ Tiers!Back(pass.at, Grace) = x
    BY <1>1, <1>2 DEF Tiers!Back
  <1>4. Tiers!Bucket(x, "fine") \in Nat /\ x < Tiers!Bucket(x, "fine") + Width["fine"]
    BY <1>2, <1>3, BucketFloors
  <1>5. Tiers!Closed("fine") = Tiers!Bucket(x, "fine")
    BY <1>3 DEF Tiers!Closed
  <1> HIDE DEF x
  <1> QED
    BY <1>1, <1>2, <1>3, <1>4, <1>5

LEMMA RollUpFails ==
    ASSUME TiersInv, NEW t \in Tiers!Tiers, pass.pc = t, Tiers!Fails,
           pass' = [pass EXCEPT !.pc = "raw", !.behind = @ \/ t = "fine"],
           UNCHANGED <<rollupNow, raw, tier, monitor, rollupSeen, excused, stragglers>>
    PROVE  TiersInv'
  <1> DEFINE late == pass.behind \/ t = "fine"
  <1>1. late \in BOOLEAN
    OBVIOUS
  <1>2. pass' = [pc |-> "raw", at |-> pass.at, behind |-> late]
    BY PassTypes
  <1>3. ~late => pass.pc = "coarse" /\ ~pass.behind
    BY DEF Tiers!Tiers
  <1>4. pass'.pc = "raw" /\ pass'.at = pass.at /\ (pass'.behind <=> late)
    BY PassTypes
  <1> HIDE DEF late
  <1>5. Tiers!TypeOK' /\ pass'.at <= rollupNow' /\ rollupNow <= rollupNow' /\ rollupNow' \in Nat
    BY <1>1, <1>2, PassTypes, FailuresCount DEF TiersInv, Tiers!TypeOK
  <1>6. pass'.pc \in {"coarse", "raw"} /\ ~pass'.behind =>
              pass.pc \in {"coarse", "raw"} /\ ~pass.behind /\ pass'.at = pass.at
    BY <1>3, <1>4
  <1> QED
    BY <1>5, <1>6, QuietStep

LEMMA RollUpCoarse ==
    ASSUME TiersInv, pass.pc = "coarse",
           tier' = [tier EXCEPT !["coarse"] = Tiers!Upserted("coarse")],
           excused' = excused \cup Tiers!Forgotten("coarse"),
           pass' = [pass EXCEPT !.pc = "raw", !.behind = @ \/ FALSE],
           UNCHANGED <<rollupNow, raw, monitor, rollupErrors, rollupSeen, stragglers>>
    PROVE  TiersInv'
  <1>1. pass' = [pc |-> "raw", at |-> pass.at, behind |-> pass.behind]
    BY PassTypes
  <1>2. /\ DOMAIN tier = Tiers!Tiers /\ "fine" \in Tiers!Tiers /\ "coarse" \in Tiers!Tiers
        /\ \A t \in Tiers!Tiers : tier[t] \in [Tiers!Starts(t) -> SUBSET rollupSeen]
        /\ excused \subseteq rollupSeen /\ raw \subseteq rollupSeen
    BY DEF TiersInv, Tiers!TypeOK, Tiers!Tiers
  <1>3. Tiers!Upserted("coarse") \in [Tiers!Starts("coarse") -> SUBSET rollupSeen]
            /\ Tiers!Forgotten("coarse") \subseteq rollupSeen
    BY <1>2, UpsertTypes
  <1>4. DOMAIN tier' = Tiers!Tiers /\ tier'["fine"] = tier["fine"]
            /\ tier'["coarse"] = Tiers!Upserted("coarse")
    BY <1>2
  <1>5. Tiers!TypeOK' /\ pass'.at <= rollupNow'
    <2>1. \A t \in Tiers!Tiers : tier'[t] \in [Tiers!Starts(t) -> SUBSET rollupSeen]
      BY <1>2, <1>3, <1>4 DEF Tiers!Tiers
    <2> QED
      BY <1>1, <1>2, <1>3, <1>4, <2>1, PassTypes DEF TiersInv, Tiers!TypeOK, Tiers!Starts,
         Tiers!Bucket, Tiers!Ticks, Tiers!Tiers
  <1>6. /\ PassedWasCounted'
        /\ \A h \in rollupSeen : Kept(h) => Kept(h)'
    BY <1>4, PassTypes, FineStays
  <1>7. DueWasCounted'
    BY <1>1, <1>2, <1>6 DEF TiersInv, DueWasCounted
  <1>8. Tiers!DeletedWasCounted'
    BY <1>6 DEF TiersInv, Tiers!DeletedWasCounted, Kept, Tiers!Bucket
  <1> QED
    BY <1>5, <1>6, <1>7, <1>8 DEF TiersInv

\* The fine tier is recounted: where the next pass starts, what this one counted
\* is behind it, and what it did not is ahead.
LEMMA RollUpFine ==
    ASSUME TiersInv, pass.pc = "fine",
           tier' = [tier EXCEPT !["fine"] = Tiers!Upserted("fine")],
           excused' = excused \cup Tiers!Forgotten("fine"),
           pass' = [pass EXCEPT !.pc = "coarse", !.behind = @ \/ Tiers!Capped("fine")],
           UNCHANGED <<rollupNow, raw, monitor, rollupErrors, rollupSeen, stragglers>>
    PROVE  TiersInv'
  <1> DEFINE late == pass.behind \/ Tiers!Capped("fine")
  <1>0. late \in BOOLEAN /\ (late <=> pass.behind \/ Tiers!Capped("fine"))
    OBVIOUS
  <1>1. pass' = [pc |-> "coarse", at |-> pass.at, behind |-> late]
    BY PassTypes DEF Tiers!Capped
  <1>a. pass'.at = pass.at /\ (pass'.behind <=> late)
    BY PassTypes
  <1> HIDE DEF late
  <1>2. /\ DOMAIN tier = Tiers!Tiers /\ "fine" \in Tiers!Tiers /\ "coarse" \in Tiers!Tiers
        /\ \A t \in Tiers!Tiers : tier[t] \in [Tiers!Starts(t) -> SUBSET rollupSeen]
        /\ excused \subseteq rollupSeen /\ raw \subseteq rollupSeen
    BY DEF TiersInv, Tiers!TypeOK, Tiers!Tiers
  <1>3. Tiers!Upserted("fine") \in [Tiers!Starts("fine") -> SUBSET rollupSeen]
            /\ Tiers!Forgotten("fine") \subseteq rollupSeen
    BY <1>2, UpsertTypes
  <1>4. DOMAIN tier' = Tiers!Tiers /\ tier'["coarse"] = tier["coarse"]
            /\ tier'["fine"] = Tiers!Upserted("fine")
    BY <1>2
  <1>5. Tiers!TypeOK' /\ pass'.at <= rollupNow'
    <2>1. \A t \in Tiers!Tiers : tier'[t] \in [Tiers!Starts(t) -> SUBSET rollupSeen]
      BY <1>2, <1>3, <1>4 DEF Tiers!Tiers
    <2> QED
      BY <1>1, <1>2, <1>3, <1>4, <2>1, PassTypes DEF TiersInv, Tiers!TypeOK, Tiers!Starts,
         Tiers!Bucket, Tiers!Ticks, Tiers!Tiers
  <1>6. \A h \in rollupSeen : h \notin Tiers!Forgotten("fine") /\ Kept(h) => Kept(h)'
    BY <1>4, UpsertForgets DEF Kept, Tiers!Bucket
  <1>7. \A h \in raw : h \in tier["fine"][Tiers!Bucket(h, "fine")]
            \/ Tiers!Bucket(h, "fine") \in Tiers!Window("fine")
                         => Kept(h)'
    BY <1>4, UpsertCounts DEF Kept, Tiers!Bucket
  <1>8. \A h \in raw \ excused' : Kept(h) => Kept(h)'
    BY <1>2, <1>6
  \* A heartbeat before the start of the next pass was counted by this one.
  <1>9. PassedWasCounted'
    <2> SUFFICES ASSUME monitor = "live", Tiers!Rows("fine")' # {}, NEW h \in raw \ excused',
                        Tiers!Bucket(h, "fine")' < Tiers!From("fine")'
                 PROVE  Kept(h)'
      BY DEF PassedWasCounted
    <2> DEFINE B == Tiers!Bucket(h, "fine")
    <2>1. h \in rollupSeen /\ B \in Nat /\ B \in Tiers!Starts("fine") /\ B < Tiers!From("fine")'
              /\ h \notin excused
      BY <1>2, HeartbeatTypes DEF Tiers!Bucket
    <2>2. /\ Tiers!From("fine")' \in Nat /\ Tiers!From("fine")' <= Tiers!Max(Tiers!Rows("fine")')
          /\ Tiers!Max(Tiers!Rows("fine")') \in Tiers!Rows("fine")'
                 /\ Tiers!Max(Tiers!Rows("fine")') \in Nat
      <3>1. Tiers!Rows("fine")' \in SUBSET Tiers!Ticks
        BY DEF Tiers!Rows, Tiers!Starts, Tiers!Ticks
      <3>2. Tiers!Max(Tiers!Rows("fine")') \in Tiers!Rows("fine")'
                /\ Tiers!Max(Tiers!Rows("fine")') \in Nat
            /\ Reprocess["fine"] \in Nat
        BY <3>1, MaxIn, TiersAssumption DEF Tiers!RollupAssumption, Tiers!Ticks
      <3>3. /\ Tiers!Back(Tiers!Max(Tiers!Rows("fine")'), Reprocess["fine"]) \in Nat
            /\ Tiers!Back(Tiers!Max(Tiers!Rows("fine")'),
                   Reprocess["fine"]) <= Tiers!Max(Tiers!Rows("fine")')
        BY <3>2 DEF Tiers!Back
      <3>4. Tiers!From("fine")' = Tiers!Bucket(Tiers!Back(Tiers!Max(Tiers!Rows("fine")'),
                Reprocess["fine"]), "fine")
        BY DEF Tiers!From, Tiers!Bucket, Tiers!Back
      <3> QED
        BY <1>2, <3>2, <3>3, <3>4, BucketFloors
    <2>3. CASE Kept(h)
      BY <1>8, <2>3
    <2>4. CASE B \in Tiers!Window("fine")
      BY <1>7, <2>4
    <2>5. CASE ~Kept(h) /\ B \notin Tiers!Window("fine")
      <3>1. Tiers!From("fine") \in Nat /\ Tiers!From("fine") <= B
        <4>1. CASE Tiers!Rows("fine") = {}
          BY <4>1, FromOldest
        <4>2. CASE Tiers!Rows("fine") # {}
          BY <2>1, <2>5, <4>2, FromBounds DEF TiersInv, PassedWasCounted
        <4> QED
          BY <4>1, <4>2
      <3>2. B >= Tiers!Closed("fine") \/ B >= Tiers!Limit("fine")
        <4>1. Tiers!Closed("fine") \in Nat /\ Tiers!Limit("fine") \in Nat
          BY <3>1, ClosedType
        <4>2. raw # {}
          OBVIOUS
        <4> HIDE DEF B
        <4> QED
          BY <2>1, <2>5, <3>1, <4>1, <4>2 DEF Tiers!Window, Tiers!Source
      <3> DEFINE M == Tiers!Max(Tiers!Rows("fine")')
      <3>3. M \in Tiers!Rows("fine") \/ M \in Tiers!Window("fine")
        BY <1>4, <2>2 DEF Tiers!Rows, Tiers!Upserted, Tiers!Starts, Tiers!Bucket, Tiers!Ticks
      <3>4. CASE M \in Tiers!Window("fine")
        <4>1. M < Tiers!Closed("fine") /\ M < Tiers!Limit("fine")
          BY <3>4 DEF Tiers!Window
        <4>2. Tiers!Closed("fine") \in Nat /\ Tiers!Limit("fine") \in Nat
          BY <3>1, ClosedType
        <4> HIDE DEF B, M
        <4> QED
          BY <2>1, <2>2, <3>2, <4>1, <4>2 DEF M
      <3>5. CASE M \in Tiers!Rows("fine")
        <4>1. Tiers!Rows("fine") # {} /\ M <= Tiers!Max(Tiers!Rows("fine"))
          BY <3>5, FromBounds
        <4>2. Tiers!Max(Tiers!Rows("fine")) \in Nat /\ Reprocess["fine"] \in Nat /\ M \in Nat
          BY <4>1, <2>2, FromBounds, TiersAssumption DEF Tiers!RollupAssumption, Tiers!Tiers
        <4> DEFINE x == Tiers!Back(M, Reprocess["fine"])
                   y == Tiers!Back(Tiers!Max(Tiers!Rows("fine")), Reprocess["fine"])
        <4>3. x \in Nat /\ y \in Nat /\ x <= y
          BY <4>1, <4>2 DEF Tiers!Back
        <4>4. Tiers!From("fine")' = Tiers!Bucket(x, "fine")
                  /\ Tiers!From("fine") = Tiers!Bucket(y, "fine")
          BY <4>1 DEF Tiers!From, Tiers!Bucket, Tiers!Back
        <4>5. Tiers!From("fine")' <= Tiers!From("fine")
          <5> HIDE DEF x, y
          <5> QED
            BY <1>2, <4>3, <4>4, BucketMonotone
        <4> HIDE DEF B, M, x, y
        <4> QED
          BY <2>1, <2>2, <3>1, <4>5
      <3> QED
        BY <3>3, <3>4, <3>5
    <2> QED
      BY <2>3, <2>4, <2>5
  \* A pass that is not capped counts all that has been closed.
  <1>10. DueWasCounted'
    <2> SUFFICES ASSUME monitor = "live", ~late, NEW h \in raw \ excused', h + RawKept < pass.at
                 PROVE  Kept(h)'
      BY <1>a DEF DueWasCounted
    <2> DEFINE B == Tiers!Bucket(h, "fine")
    <2>1. h \in rollupSeen /\ B \in Nat /\ B \in Tiers!Starts("fine") /\ B < Tiers!Closed("fine")
              /\ h \notin excused
      BY <1>2, HeartbeatTypes, DueIsClosed
    <2>2. CASE Kept(h)
      BY <1>8, <2>2
    <2>3. CASE ~Kept(h)
      <3>1. Tiers!From("fine") \in Nat /\ Tiers!From("fine") <= B
        <4>1. CASE Tiers!Rows("fine") = {}
          BY <4>1, FromOldest
        <4>2. CASE Tiers!Rows("fine") # {}
          BY <2>1, <2>3, <4>2, FromBounds DEF TiersInv, PassedWasCounted
        <4> QED
          BY <4>1, <4>2
      <3>2. Tiers!Closed("fine") \in Nat /\ Tiers!Limit("fine") \in Nat
        BY <3>1, ClosedType
      <3>3. raw # {} /\ ~Tiers!Capped("fine")
        BY <1>0
      <3>4. Tiers!Closed("fine") <= Tiers!Limit("fine")
        BY <3>2, <3>3 DEF Tiers!Capped, Tiers!Source
      <3> HIDE DEF B
      <3>5. B \in Tiers!Window("fine")
        BY <2>1, <3>1, <3>2, <3>3, <3>4 DEF Tiers!Window, Tiers!Source
      <3> QED
        BY <1>7, <3>5 DEF B
    <2> QED
      BY <2>2, <2>3
  <1>11. Tiers!DeletedWasCounted'
    <2> SUFFICES ASSUME monitor = "live", NEW h \in rollupSeen \ (raw \cup excused') PROVE Kept(h)'
      BY DEF Tiers!DeletedWasCounted, Kept, Tiers!Bucket
    <2>1. Kept(h) /\ h \notin Tiers!Forgotten("fine")
      BY DEF TiersInv, Tiers!DeletedWasCounted, Kept
    <2> QED
      BY <1>6, <2>1
  <1> QED
    BY <1>5, <1>9, <1>10, <1>11 DEF TiersInv

LEMMA RollUpSound == ASSUME TiersInv, NEW t \in Tiers!Tiers, Tiers!RollUp(t) PROVE TiersInv'
  <1>1. pass.pc = t /\ UNCHANGED <<rollupNow, raw, monitor, rollupSeen, stragglers>>
    BY DEF Tiers!RollUp
  <1>2. CASE /\ tier' = [tier EXCEPT ![t] = Tiers!Upserted(t)]
             /\ excused' = excused \cup Tiers!Forgotten(t)
             /\ pass' = [pass EXCEPT !.pc = IF t = "fine" THEN "coarse" ELSE "raw",
                                     !.behind = @ \/ (t = "fine" /\ Tiers!Capped(t))]
             /\ UNCHANGED rollupErrors
    <2>1. CASE t = "fine"
      <3>1. pass' = [pass EXCEPT !.pc = "coarse", !.behind = @ \/ Tiers!Capped("fine")]
        BY <1>2, <2>1
      <3> QED
        BY <1>1, <1>2, <2>1, <3>1, RollUpFine
    <2>2. CASE t = "coarse"
      <3>1. pass' = [pass EXCEPT !.pc = "raw", !.behind = @ \/ FALSE]
        BY <1>2, <2>2
      <3> QED
        BY <1>1, <1>2, <2>2, <3>1, RollUpCoarse
    <2> QED
      BY <2>1, <2>2 DEF Tiers!Tiers
  <1>3. CASE /\ Tiers!Fails
             /\ pass' = [pass EXCEPT !.pc = "raw", !.behind = @ \/ t = "fine"]
             /\ UNCHANGED <<tier, excused>>
    BY <1>1, <1>3, RollUpFails
  <1> QED
    BY <1>2, <1>3 DEF Tiers!RollUp

LEMMA TiersStepSound == ASSUME TiersInv, [Tiers!Next]_(Tiers!vars) PROVE TiersInv'
  <1>1. CASE Tiers!Pass
    <2>1. "fine" \in Tiers!Tiers /\ "coarse" \in Tiers!Tiers
      BY DEF Tiers!Tiers
    <2> QED
      BY <1>1, <2>1, StartPassSound, RollUpSound, RetainRawSound, RetainBucketsSound,
         RetainFailsSound, PurgeNextSound, PurgeFailsSound DEF Tiers!Pass
  <1>2. CASE Tiers!TimePasses
    BY <1>2, TimePassesSound
  <1>3. CASE Tiers!DeleteMonitor
    BY <1>3, TiersDeleteMonitorSound
  <1>4. CASE \E h \in Tiers!Ticks : Tiers!Record(h)
    BY <1>4, RecordSound
  <1>5. CASE UNCHANGED Tiers!vars
    <2>1. Tiers!TypeOK' /\ pass'.at <= rollupNow' /\ rollupNow <= rollupNow' /\ rollupNow' \in Nat
      BY <1>5, PassTypes DEF Tiers!vars, TiersInv, Tiers!TypeOK
    <2> QED
      BY <1>5, <2>1, QuietStep DEF Tiers!vars
  <1> QED
    BY <1>1, <1>2, <1>3, <1>4, <1>5 DEF Tiers!Next

(* The heartbeats, the tiers and the pass keep their types, and what a pass *)
(* has gone past or is about to delete was counted (rollup.go, Run).        *)
THEOREM TiersCorrect == Tiers!Spec => []TiersInv
  <1>1. Tiers!Init => TiersInv
    BY TiersInitSound
  <1>2. TiersInv /\ [Tiers!Next]_(Tiers!vars) => TiersInv'
    BY TiersStepSound
  <1> QED
    BY <1>1, <1>2, PTL DEF Tiers!Spec

(* Retention deletes no heartbeat of a live monitor that the fine tier has  *)
(* not counted, unless it came too late, the pass was behind, or a failed   *)
(* delete left its bucket to be counted again short (rollup.go, Run and     *)
(* Retain).                                                                 *)
THEOREM DeletedAlwaysCounted == Tiers!Spec => []DeletedWasCounted
  <1>1. TiersInv => DeletedWasCounted
    BY DEF TiersInv, DeletedWasCounted
  <1> QED
    BY <1>1, TiersCorrect, PTL

-----------------------------------------------------------------------------
(* What a chart is drawn from *)

\* A bucket counts nothing from before it.
BucketsFollow ==
    \A t \in Tiers!Tiers : \A b \in Tiers!Starts(t) : \A h \in tier[t][b] : b <= h

\* Retention deletes the oldest first: where nothing has failed, what is gone
\* is older than what is left, but for the rest of a delete under way.
OldestGoFirst ==
    monitor = "live" /\ rollupErrors = 0 =>
      \A g \in rollupSeen \ raw :
         /\ g + RawKept < rollupNow
         /\ \A h \in raw : g < h \/ (pass.pc = "raw" /\ h + RawKept < pass.at)

\* The inductive invariant.
HistoryInv == TiersInv /\ BucketsFollow /\ OldestGoFirst

LEMMA RecountFollows ==
    ASSUME TiersInv, BucketsFollow, NEW t \in Tiers!Tiers, NEW b \in Tiers!Starts(t),
           NEW h \in Tiers!Upserted(t)[b]
    PROVE  b <= h
  <1>1. "fine" \in Tiers!Tiers /\ h \in tier[t][b] \cup Tiers!Recount(t, b)
    BY DEF Tiers!Upserted, Tiers!Tiers
  <1>2. CASE h \in tier[t][b]
    BY <1>2 DEF BucketsFollow
  <1>3. CASE t = "fine" /\ h \in Tiers!Recount(t, b)
    <2>1. h \in raw /\ Tiers!Bucket(h, t) = b
      BY <1>3 DEF Tiers!Recount
    <2>2. h \in rollupSeen
      BY <2>1 DEF TiersInv, Tiers!TypeOK
    <2> QED
      BY <1>3, <2>1, <2>2, HeartbeatTypes
  <1>4. CASE t # "fine" /\ h \in Tiers!Recount(t, b)
    <2>1. PICK c \in Tiers!Rows("fine") : Tiers!Bucket(c, t) = b /\ h \in tier["fine"][c]
      BY <1>4 DEF Tiers!Recount
    <2>2. c \in Tiers!Starts("fine") /\ c \in Nat
      BY <2>1, TiersAssumption DEF Tiers!Rows, Tiers!Starts, Tiers!Ticks, Tiers!RollupAssumption
    <2>3. c <= h
      BY <1>1, <2>1, <2>2 DEF BucketsFollow
    <2>4. b \in Nat /\ b <= c
      BY <2>1, <2>2, BucketFloors
    <2>5. h \in Nat
      <3>1. h \in rollupSeen
        BY <1>1, <2>1, <2>2 DEF TiersInv, Tiers!TypeOK
      <3> QED
        BY <3>1, HeartbeatTypes
    <2> QED
      BY <2>2, <2>3, <2>4, <2>5
  <1> QED
    BY <1>1, <1>3, <1>2, <1>4

\* No row of a tier gains a heartbeat but through the upsert.
LEMMA BucketsFollowNext ==
    ASSUME TiersInv, BucketsFollow, [Tiers!Next]_(Tiers!vars)
    PROVE  BucketsFollow'
  <1> DEFINE Safe(t, b) == tier'[t][b] \subseteq tier[t][b] \cup Tiers!Upserted(t)[b]
  <1>1. DOMAIN tier = Tiers!Tiers /\ \A t \in Tiers!Tiers : DOMAIN tier[t] = Tiers!Starts(t)
    BY DEF TiersInv, Tiers!TypeOK
  <1>2. \A t \in Tiers!Tiers : \A b \in Tiers!Starts(t) : Safe(t, b)
    <2>1. ASSUME NEW u \in Tiers!Tiers, tier' = [tier EXCEPT ![u] = Tiers!Upserted(u)]
          PROVE  \A t \in Tiers!Tiers : \A b \in Tiers!Starts(t) : Safe(t, b)
      BY <2>1, <1>1
    <2>2. ASSUME NEW u \in Tiers!Tiers, NEW f, tier' = [tier EXCEPT ![u] = f],
                 \A b \in Tiers!Starts(u) : f[b] \subseteq tier[u][b]
          PROVE  \A t \in Tiers!Tiers : \A b \in Tiers!Starts(t) : Safe(t, b)
      BY <2>2, <1>1
    <2>3. ASSUME UNCHANGED tier
          PROVE  \A t \in Tiers!Tiers : \A b \in Tiers!Starts(t) : Safe(t, b)
      BY <2>3
    <2> HIDE DEF Safe
    <2>4. "fine" \in Tiers!Tiers /\ "coarse" \in Tiers!Tiers
      BY DEF Tiers!Tiers
    <2>5. CASE \E t \in Tiers!Tiers : Tiers!RollUp(t)
      BY <2>5, <2>1, <2>3 DEF Tiers!RollUp
    <2>6. CASE Tiers!RetainBuckets
      <3>1. PICK batch : tier' = [tier EXCEPT !["fine"] =
                            [b \in Tiers!Starts("fine") |-> IF b \in batch THEN {} ELSE @[b]]]
        BY <2>6 DEF Tiers!RetainBuckets
      <3> DEFINE f == [b \in Tiers!Starts("fine") |-> IF b \in batch THEN {} ELSE tier["fine"][b]]
      <3>2. tier' = [tier EXCEPT !["fine"] = f]
        BY <3>1, <1>1, <2>4
      <3>3. \A b \in Tiers!Starts("fine") : f[b] \subseteq tier["fine"][b]
        OBVIOUS
      <3> HIDE DEF f
      <3> QED
        BY <3>2, <3>3, <2>2, <2>4
    <2>7. CASE Tiers!PurgeNext
      <3>1. UNCHANGED tier \/ \E u \in Tiers!Tiers : tier' = [tier EXCEPT ![u] = [b \in Tiers!Starts(u) |-> {}]]
        BY <2>7, <2>4 DEF Tiers!PurgeNext
      <3> QED
        BY <3>1, <2>2, <2>3
    <2>8. CASE \/ Tiers!StartPass \/ Tiers!RetainRaw \/ Tiers!RetainFails \/ Tiers!PurgeFails
               \/ Tiers!TimePasses \/ Tiers!DeleteMonitor
               \/ \E h \in Tiers!Ticks : Tiers!Record(h)
               \/ UNCHANGED Tiers!vars
      <3>1. UNCHANGED tier
        BY <2>8 DEF Tiers!StartPass, Tiers!RetainRaw, Tiers!RetainFails, Tiers!PurgeFails,
           Tiers!TimePasses, Tiers!DeleteMonitor, Tiers!Record, Tiers!vars
      <3> QED
        BY <3>1, <2>3
    <2> QED
      BY <2>4, <2>5, <2>6, <2>7, <2>8 DEF Tiers!Next, Tiers!Pass
  <1>3. \A t \in Tiers!Tiers : \A b \in Tiers!Starts(t) : \A h \in tier'[t][b] : b <= h
    BY <1>2, RecountFollows DEF BucketsFollow
  <1> QED
    BY <1>3 DEF BucketsFollow, Tiers!Tiers, Tiers!Starts, Tiers!Ticks, Tiers!Bucket

LEMMA TiersSizes ==
    ASSUME NEW S
    PROVE  Tiers!Cardinality(S) = Cardinality(S)
  BY Zenon DEF Tiers!Cardinality, Cardinality

\* A batch shorter than its limit is all there was to delete.
LEMMA ShortBatchIsAll ==
    ASSUME TiersInv, NEW gone \in SUBSET raw, NEW batch \in SUBSET gone,
           Tiers!Cardinality(batch) = IF Tiers!Cardinality(gone) < DeleteBatch
                                        THEN Tiers!Cardinality(gone) ELSE DeleteBatch,
           Tiers!Cardinality(batch) < DeleteBatch
    PROVE  batch = gone
  <1>1. IsFiniteSet(gone)
    <2>1. RollupEnd \in Int
      BY TiersAssumption DEF Tiers!RollupAssumption
    <2>2. IsFiniteSet(0 .. RollupEnd)
      BY <2>1, FS_Interval
    <2>3. gone \in SUBSET (0 .. RollupEnd)
      BY DEF TiersInv, Tiers!TypeOK, Tiers!Ticks
    <2> QED
      BY <2>2, <2>3, FS_Subset
  <1>2. Cardinality(gone) \in Nat /\ (Cardinality(gone) = Cardinality(batch) => gone = batch)
    BY <1>1, FS_Subset, FS_CardinalityType
  <1>3. DeleteBatch \in Nat
    BY TiersAssumption DEF Tiers!RollupAssumption
  <1>4. Tiers!Cardinality(gone) = Cardinality(gone) /\ Tiers!Cardinality(batch) = Cardinality(batch)
    BY TiersSizes
  <1>5. Cardinality(batch) < DeleteBatch
    BY <1>4
  <1>6. Cardinality(batch) = Cardinality(gone)
    BY <1>4, <1>5, <1>2, <1>3
  <1> QED
    BY <1>2, <1>6

\* Time and the flag of a pass move, nothing is counted or deleted.
LEMMA OrderStays ==
    ASSUME HistoryInv, UNCHANGED <<raw, rollupSeen>>, rollupNow' \in Nat, rollupNow <= rollupNow',
           monitor' = "live" => monitor = "live", rollupErrors' = 0 => rollupErrors = 0,
           pass.pc = "raw" => pass' = pass \/ rollupErrors' # 0
    PROVE  OldestGoFirst'
  <1>1. \A g \in rollupSeen : g \in Nat /\ RawKept \in Nat /\ rollupNow \in Nat
    BY HeartbeatTypes DEF HistoryInv
  <1> QED
    BY <1>1 DEF HistoryInv, OldestGoFirst

LEMMA RecordInOrder ==
    ASSUME HistoryInv, LateBeats <= RawKept, NEW h \in Tiers!Ticks, Tiers!Record(h)
    PROVE  OldestGoFirst'
  <1>1. /\ raw' = raw \cup {h} /\ rollupSeen' = rollupSeen \cup {h}
        /\ h <= rollupNow /\ rollupNow - h <= LateBeats
        /\ UNCHANGED <<rollupNow, pass, monitor, rollupErrors>>
    BY DEF Tiers!Record
  <1>2. h \in Nat /\ LateBeats \in Nat /\ RawKept \in Nat /\ rollupNow \in Nat
    BY PassTypes, TiersAssumption DEF HistoryInv, Tiers!RollupAssumption, Tiers!Ticks
  <1>3. \A g \in rollupSeen : g \in Nat
    BY HeartbeatTypes DEF HistoryInv
  <1>4. \A g \in rollupSeen : g + RawKept < rollupNow => g < h
    BY <1>1, <1>2, <1>3
  <1> QED
    BY <1>1, <1>4 DEF HistoryInv, OldestGoFirst

LEMMA RetainInOrder ==
    ASSUME HistoryInv, Tiers!RetainRaw
    PROVE  OldestGoFirst'
  <1> DEFINE gone == raw \cap Tiers!Expired(RawKept)
  <1>1. PICK batch \in SUBSET gone :
          /\ Tiers!Cardinality(batch) = IF Tiers!Cardinality(gone) < DeleteBatch
                                          THEN Tiers!Cardinality(gone) ELSE DeleteBatch
          /\ raw' = raw \ batch
          /\ pass' = [pass EXCEPT !.pc = IF Tiers!Cardinality(batch) < DeleteBatch
                                           THEN "buckets" ELSE "raw"]
    BY DEF Tiers!RetainRaw
  <1>2. UNCHANGED <<rollupNow, monitor, rollupErrors, rollupSeen>> /\ pass.pc = "raw"
    BY DEF Tiers!RetainRaw
  <1>3. gone = {h \in raw : h + RawKept < pass.at}
    BY DEF HistoryInv, TiersInv, Tiers!TypeOK, Tiers!Expired
  <1> HIDE DEF gone
  <1>4. \/ pass'.pc = "raw" /\ pass'.at = pass.at
        \/ pass'.pc # "raw" /\ batch = gone
    <2>1. CASE Tiers!Cardinality(batch) < DeleteBatch
      <3>1. batch = gone
        BY <2>1, <1>1, <1>3, ShortBatchIsAll DEF HistoryInv
      <3> QED
        BY <3>1, <2>1, <1>1, PassTypes DEF HistoryInv
    <2>2. CASE ~(Tiers!Cardinality(batch) < DeleteBatch)
      BY <2>2, <1>1, PassTypes DEF HistoryInv
    <2> QED
      BY <2>1, <2>2
  <1>5. /\ \A g \in rollupSeen : g \in Nat
        /\ RawKept \in Nat /\ rollupNow \in Nat /\ pass.at \in Nat /\ pass.at <= rollupNow
        /\ raw \subseteq rollupSeen
    BY HeartbeatTypes, PassTypes, TiersAssumption DEF HistoryInv, Tiers!RollupAssumption, TiersInv,
       Tiers!TypeOK
  <1>6. ASSUME monitor' = "live" /\ rollupErrors' = 0, NEW g \in rollupSeen \ raw'
        PROVE  /\ g + RawKept < rollupNow
               /\ \A h \in raw' : g < h \/ h + RawKept < pass.at
    <2>1. CASE g \notin raw
      BY <2>1, <1>1, <1>2, <1>6 DEF HistoryInv, OldestGoFirst
    <2>2. CASE g \in raw
      <3>1. g \in batch /\ g + RawKept < pass.at
        BY <2>2, <1>1, <1>3, <1>6
      <3>2. \A h \in raw' : h \in Nat
        BY <1>1, <1>5
      <3> QED
        BY <3>1, <3>2, <1>5
    <2> QED
      BY <2>1, <2>2
  <1>7. CASE pass'.pc = "raw" /\ pass'.at = pass.at
    BY <1>2, <1>6, <1>7 DEF OldestGoFirst
  <1>8. CASE pass'.pc # "raw" /\ batch = gone
    <2>1. \A h \in raw' : ~(h + RawKept < pass.at)
      BY <1>1, <1>3, <1>8
    <2> QED
      BY <1>2, <1>6, <2>1 DEF OldestGoFirst
  <1> QED
    BY <1>4, <1>7, <1>8

LEMMA HistoryStep ==
    ASSUME HistoryInv, LateBeats <= RawKept, [Tiers!Next]_(Tiers!vars)
    PROVE  HistoryInv'
  <1>1. TiersInv' /\ BucketsFollow'
    BY TiersStepSound, BucketsFollowNext DEF HistoryInv
  <1> SUFFICES OldestGoFirst'
    BY <1>1 DEF HistoryInv
  <1>2. /\ rollupNow \in Nat /\ rollupErrors \in Nat
        /\ "fine" \in Tiers!Tiers /\ "coarse" \in Tiers!Tiers
    BY PassTypes, TiersAssumption DEF HistoryInv, TiersInv, Tiers!TypeOK, Tiers!RollupAssumption,
       Tiers!Tiers
  <1>3. CASE Tiers!RetainRaw
    BY <1>3, RetainInOrder
  <1>4. CASE \E h \in Tiers!Ticks : Tiers!Record(h)
    BY <1>4, RecordInOrder
  <1>5. CASE Tiers!PurgeNext
    <2>1. CASE monitor # "deleted"
      BY <2>1, <1>2, <1>5, OrderStays DEF Tiers!PurgeNext
    <2>2. CASE monitor = "deleted"
      BY <2>2, <1>5 DEF Tiers!PurgeNext, OldestGoFirst
    <2> QED
      BY <2>1, <2>2
  <1>6. CASE \E t \in Tiers!Tiers : Tiers!RollUp(t)
    <2>1. PICK t \in Tiers!Tiers : Tiers!RollUp(t)
      BY <1>6
    <2>2. pass.pc # "raw" /\ (rollupErrors' = rollupErrors \/ rollupErrors' = rollupErrors + 1)
      BY <2>1 DEF Tiers!RollUp, Tiers!Fails, Tiers!Tiers
    <2>3. UNCHANGED <<raw, rollupSeen, rollupNow, monitor>>
      BY <2>1 DEF Tiers!RollUp
    <2> QED
      BY <2>2, <2>3, <1>2, OrderStays
  <1>7. CASE Tiers!RetainFails \/ Tiers!PurgeFails
    BY <1>2, <1>7, OrderStays DEF Tiers!RetainFails, Tiers!PurgeFails, Tiers!Fails
  <1>8. CASE \/ Tiers!StartPass \/ Tiers!RetainBuckets \/ Tiers!TimePasses \/ Tiers!DeleteMonitor
             \/ UNCHANGED Tiers!vars
    BY <1>2, <1>8, OrderStays DEF Tiers!StartPass, Tiers!RetainBuckets, Tiers!TimePasses,
       Tiers!DeleteMonitor, Tiers!vars
  <1> QED
    BY <1>2, <1>3, <1>4, <1>5, <1>6, <1>7, <1>8 DEF Tiers!Next, Tiers!Pass

LEMMA HistoryInit == Tiers!Init => HistoryInv
  <1> SUFFICES ASSUME Tiers!Init PROVE HistoryInv
    OBVIOUS
  <1>1. BucketsFollow /\ OldestGoFirst
    BY DEF Tiers!Init, BucketsFollow, OldestGoFirst
  <1> QED
    BY <1>1, TiersInitSound DEF HistoryInv

\* What raw heartbeats answer is what the tier would: a bucket after the
\* oldest of them counts nothing that is gone.
LEMMA ChartsAreWhole ==
    ASSUME HistoryInv, NEW t \in Tiers!Tiers, NEW from \in 0 .. rollupNow,
           monitor = "live", pass.pc # "raw", rollupErrors = 0, Tiers!RawCovers(from, t),
           NEW b \in Tiers!Rows(t), b >= from, b # Tiers!Bucket(Tiers!Min(raw), t)
    PROVE  tier[t][b] \subseteq raw
  <1> DEFINE m == Tiers!Min(raw)
  <1>1. raw \in SUBSET Tiers!Ticks /\ raw \subseteq rollupSeen /\ raw # {}
    BY DEF HistoryInv, TiersInv, Tiers!TypeOK, Tiers!RawCovers
  <1>2. m \in raw /\ m \in Nat
    BY <1>1, MinIn, HeartbeatTypes DEF HistoryInv
  <1>3. b \in Tiers!Starts(t) /\ b \in Nat /\ Tiers!Bucket(b, t) = b
    BY TiersAssumption DEF Tiers!Rows, Tiers!Starts, Tiers!Ticks, Tiers!RollupAssumption
  <1>4. Tiers!Rows(t) \in SUBSET Tiers!Ticks /\ Tiers!Rows(t) # {}
    BY DEF Tiers!Rows, Tiers!Starts
  <1>5. Tiers!Min(Tiers!Rows(t)) <= b /\ Tiers!Min(Tiers!Rows(t)) \in Nat
    BY <1>4, MinIn, TiersAssumption DEF Tiers!Ticks, Tiers!RollupAssumption
  <1>6. Tiers!Bucket(m, t) \in Nat /\ (b <= m => b <= Tiers!Bucket(m, t))
    BY <1>2, <1>3, BucketFloors, BucketMonotone
  <1>7. m <= b
    <2>1. m <= from \/ Tiers!Min(Tiers!Rows(t)) >= Tiers!Bucket(m, t)
      BY <1>4 DEF Tiers!RawCovers
    <2>2. from \in Nat
      BY PassTypes DEF HistoryInv
    <2> HIDE DEF m
    <2> QED
      BY <2>1, <2>2, <1>2, <1>3, <1>5, <1>6 DEF m
  <1>8. ASSUME NEW g \in tier[t][b], g \notin raw PROVE FALSE
    <2>1. g \in rollupSeen /\ g \in Nat /\ b <= g
      <3>1. g \in rollupSeen
        BY <1>3, <1>8 DEF HistoryInv, TiersInv, Tiers!TypeOK
      <3> QED
        BY <3>1, <1>3, <1>8, HeartbeatTypes DEF HistoryInv, BucketsFollow
    <2>2. g < m
      BY <2>1, <1>2, <1>8 DEF HistoryInv, OldestGoFirst
    <2> HIDE DEF m
    <2> QED
      BY <2>1, <2>2, <1>2, <1>3, <1>7
  <1> QED
    BY <1>8

LEMMA DaysAreShown ==
    ASSUME HistoryInv, NEW h \in raw,
           Tiers!Rows("coarse") = {} \/ h >= Tiers!Max(Tiers!Rows("coarse"))
    PROVE  Tiers!Bucket(h, "coarse") \in DOMAIN Tiers!DailyUptime
  <1>1. h \in Nat
    <2>1. h \in rollupSeen
      BY DEF HistoryInv, TiersInv, Tiers!TypeOK
    <2> QED
      BY <2>1, HeartbeatTypes DEF HistoryInv
  <1> QED
    BY <1>1 DEF Tiers!DailyUptime

(* Buckets hold what was taken in them or later, and retention deletes the  *)
(* oldest heartbeats first, when nothing arrives later than their retention *)
(* (rollup.go, Retain).                                                     *)
THEOREM HistoryInOrder == ASSUME LateBeats <= RawKept PROVE Tiers!Spec => []HistoryInv
  <1>1. HistoryInv /\ [Tiers!Next]_(Tiers!vars) => HistoryInv'
    BY HistoryStep
  <1> QED
    BY <1>1, HistoryInit, PTL DEF Tiers!Spec

(* When nothing arrives later than raw retention, a chart drawn from raw    *)
(* heartbeats shows what the tier would have shown (history.go, RawCovers). *)
THEOREM HistoriesAreComplete == ASSUME LateBeats <= RawKept PROVE Tiers!Spec => []HistoryIsComplete
  <1>1. HistoryInv => HistoryIsComplete
    BY ChartsAreWhole, DaysAreShown DEF HistoryIsComplete, Tiers!HistoryIsComplete
  <1> QED
    BY <1>1, HistoryInOrder, PTL

-----------------------------------------------------------------------------
(* Notification channels (Channels) *)

\* A stored config: every setting it names holds words.
Config(x) == \A f \in DOMAIN x : x[f] \in Seq(Words)

\* What a body says of settings: words, or that one is to go.
Settings(x) == \A f \in DOMAIN x : x[f] = NoHook \/ x[f] \in Seq(Words)

\* The columns of a channel: the public half names no secret.
ChannelSound(x) ==
    /\ DOMAIN x = {"type", "public", "secret", "enabled", "events", "error"}
    /\ Config(x.public) /\ Config(x.secret)
    /\ DOMAIN x.public \cap Senders!Secret(x.type) = {}

ChannelsInv ==
    /\ DOMAIN channelsRow = Destinations /\ DOMAIN req = Patches
    /\ \A c \in Senders!Rows : ChannelSound(channelsRow[c])
    /\ \A r \in Patches : req[r].at = "loaded" =>
          ChannelSound(req[r].copy) /\ Settings(req[r].body.config)

\* What a row is made of says whether it is sound.
LEMMA MergeTypes ==
    ASSUME NEW p, NEW s, Config(p), Config(s)
    PROVE  Config(Senders!Merge(p, s)) /\ DOMAIN Senders!Merge(p, s) = DOMAIN p \cup DOMAIN s
  BY DEF Config, Senders!Merge

LEMMA StripTypes ==
    ASSUME NEW x, Settings(x)
    PROVE  Settings(Senders!StripRedacted(x))
  BY DEF Settings, Senders!StripRedacted

LEMMA MergedTypes ==
    ASSUME NEW p, NEW b, Config(p), Settings(b)
    PROVE  Config(Senders!Merged(p, b))
  <1> DEFINE in == Senders!StripRedacted(b)
  <1>1. Settings(in)
    BY StripTypes
  <1> HIDE DEF in
  <1>2. Senders!Merged(p, b) = [f \in (DOMAIN p \cup DOMAIN in) \ {f \in DOMAIN in : in[f] = NoHook} |->
                                   IF f \in DOMAIN in THEN in[f] ELSE p[f]]
    BY DEF Senders!Merged, in
  <1> QED
    BY <1>1, <1>2 DEF Config, Settings

\* The halves of a split: what is secret is in the secret one.
LEMMA SplitSound ==
    ASSUME NEW type, NEW x, Settings(x)
    PROVE  /\ Config(Senders!Split(type, x).public) /\ Config(Senders!Split(type, x).secret)
           /\ DOMAIN Senders!Split(type, x).public \cap Senders!Secret(type) = {}
  <1> DEFINE known == {f \in Senders!Fields(type) : Senders!Has(x, f)}
             public == [f \in known \ Senders!Sealed(type) |-> x[f]]
             secret == [f \in known \cap Senders!Sealed(type) |-> x[f]]
  <1>1. \A f \in known : x[f] \in Seq(Words)
    BY DEF Settings, Senders!Has
  <1> HIDE DEF known
  <1>2. Config(public) /\ Config(secret) /\ DOMAIN public \cap Senders!Secret(type) = {}
    BY <1>1 DEF Config, Senders!Sealed
  <1> HIDE DEF public, secret
  <1>3. Senders!Split(type, x) = [public |-> public, secret |-> secret]
    BY DEF Senders!Split, known, public, secret
  <1> QED
    BY <1>2, <1>3

\* A hidden field whose every item is the marker was left alone: sending back
\* what was shown stores what was stored.
LEMMA EchoChangesNothing ==
    ASSUME NEW c, ChannelSound(channelsRow[c])
    PROVE  /\ \A f \in Senders!Hidden(channelsRow[c].type) \cap DOMAIN Senders!Shown(c) : Senders!Range(Senders!Shown(c)[f]) \subseteq {Senders!Redacted}
           /\ Senders!Patched(channelsRow[c], Senders!Shown(c)) = Senders!Whole(c)
           /\ Config(Senders!Shown(c))
  <1> DEFINE W == Senders!Whole(c)
             S == Senders!Shown(c)
             covered == {f \in DOMAIN W : f \in DOMAIN channelsRow[c].secret
                 /\ f \in Senders!Hidden(channelsRow[c].type)}
  <1>1. Config(W) /\ DOMAIN W = DOMAIN channelsRow[c].public \cup DOMAIN channelsRow[c].secret
    BY MergeTypes DEF ChannelSound, Senders!Whole
  <1>2. /\ DOMAIN S = DOMAIN W
        /\ \A f \in DOMAIN W : S[f] = IF f \in covered THEN [i \in DOMAIN W[f] |-> Senders!Redacted] ELSE W[f]
    BY DEF Senders!Shown
  <1>3. \A f \in Senders!Hidden(channelsRow[c].type) \cap DOMAIN W : f \in covered
    BY <1>1 DEF ChannelSound, Senders!Secret
  <1> HIDE DEF W, S, covered
  <1>4. \A f \in covered : f \in DOMAIN W
    BY DEF covered
  <1>5. ASSUME NEW f \in covered
        PROVE  /\ Senders!Range(S[f]) \subseteq {Senders!Redacted} /\ S[f] \in Seq(Words)
               /\ Senders!Masked(S[f]) \/ S[f] = W[f]
    <2>1. W[f] \in Seq(Words) /\ S[f] = [i \in DOMAIN W[f] |-> Senders!Redacted]
      BY <1>1, <1>2, <1>4 DEF Config
    <2>2. DOMAIN W[f] = 1 .. Len(W[f]) /\ Len(W[f]) \in Nat
      BY <2>1
    <2>3. S[f] = [i \in 1 .. Len(W[f]) |-> Senders!Redacted]
      BY <2>1, <2>2
    <2>4. S[f] \in Seq(Words) /\ S[f] # NoHook
      BY <2>2, <2>3, ChannelsAssumption DEF Senders!ChannelsAssumption
    <2>5. Senders!Range(S[f]) \subseteq {Senders!Redacted}
      BY <2>1 DEF Senders!Range
    <2>6. CASE Len(W[f]) = 0
      <3>1. W[f] = <<>> /\ S[f] = <<>>
        BY <2>1, <2>2, <2>3, <2>6
      <3> QED
        BY <2>4, <2>5, <3>1
    <2>7. CASE Len(W[f]) # 0
      <3>1. 1 \in DOMAIN S[f] /\ S[f][1] = Senders!Redacted
        BY <2>2, <2>3, <2>7
      <3>2. Senders!Range(S[f]) = {Senders!Redacted} /\ S[f] # <<>>
        BY <2>5, <3>1 DEF Senders!Range
      <3> QED
        BY <2>4, <2>5, <3>2 DEF Senders!Masked
    <2> QED
      BY <2>6, <2>7
  <1>6. \A f \in DOMAIN W : S[f] \in Seq(Words) /\ (Senders!Masked(S[f]) \/ S[f] = W[f])
    BY <1>1, <1>2, <1>5 DEF Config
  <1> DEFINE in == Senders!StripRedacted(S)
  <1>7. /\ DOMAIN in = {f \in DOMAIN W : ~Senders!Masked(S[f])}
        /\ \A f \in DOMAIN in : in[f] = S[f]
    BY <1>2 DEF Senders!StripRedacted
  <1> HIDE DEF in
  <1>8. \A f \in DOMAIN in : in[f] = W[f] /\ in[f] # NoHook
    BY <1>6, <1>7, ChannelsAssumption DEF Senders!ChannelsAssumption
  <1>9. Senders!Merged(W, S) = [f \in (DOMAIN W \cup DOMAIN in) \ {f \in DOMAIN in : in[f] = NoHook} |->
                                   IF f \in DOMAIN in THEN in[f] ELSE W[f]]
    BY DEF Senders!Merged, in
  <1>10. (DOMAIN W \cup DOMAIN in) \ {f \in DOMAIN in : in[f] = NoHook} = DOMAIN W
    BY <1>7, <1>8
  <1>11. Senders!Merged(W, S) = [f \in DOMAIN W |-> IF f \in DOMAIN in THEN in[f] ELSE W[f]]
    BY <1>9, <1>10
  <1>12. Senders!Merged(W, S) = [f \in DOMAIN W |-> W[f]]
    BY <1>8, <1>11
  <1>13. W = [f \in DOMAIN W |-> W[f]]
    BY DEF W, Senders!Whole, Senders!Merge
  <1>14. Senders!Patched(channelsRow[c], S) = Senders!Merged(W, S)
    BY DEF Senders!Patched, W, Senders!Whole
  <1>15. Config(S)
    BY <1>2, <1>6 DEF Config
  <1> QED
    BY <1>2, <1>3, <1>5, <1>12, <1>13, <1>14, <1>15 DEF W, S

LEMMA ChannelsInit == Senders!Init => ChannelsInv
  BY DEF Senders!Init, ChannelsInv, Senders!Rows, Senders!Idle

\* What ChannelsInv says of the next state.
LEMMA SoundNext ==
    ASSUME DOMAIN channelsRow' = Destinations, DOMAIN req' = Patches,
           \A d \in Senders!Rows' : ChannelSound(channelsRow'[d]),
           \A q \in Patches : req'[q].at = "loaded" =>
              ChannelSound(req'[q].copy) /\ Settings(req'[q].body.config)
    PROVE  ChannelsInv'
  <1>1. (\A d \in Senders!Rows : ChannelSound(channelsRow[d]))'
    BY DEF ChannelSound, Config, Senders!Secret, Senders!Hidden
  <1>2. (\A q \in Patches : req[q].at = "loaded" =>
            ChannelSound(req[q].copy) /\ Settings(req[q].body.config))'
    BY DEF ChannelSound, Config, Senders!Secret, Senders!Hidden, Settings
  <1> QED
    BY <1>1, <1>2 DEF ChannelsInv

\* One row is written, the rest of them and the requests are as they were.
LEMMA OneChannelWritten ==
    ASSUME ChannelsInv, NEW c \in Destinations, NEW x, x = NoHook \/ ChannelSound(x),
           channelsRow' = [channelsRow EXCEPT ![c] = x], UNCHANGED req
    PROVE  ChannelsInv'
  <1>1. \A d \in Senders!Rows' : ChannelSound(channelsRow'[d])
    BY DEF ChannelsInv, Senders!Rows
  <1>2. DOMAIN channelsRow' = Destinations /\ DOMAIN req' = Patches
    BY DEF ChannelsInv
  <1>3. \A q \in Patches : req'[q].at = "loaded" =>
          ChannelSound(req'[q].copy) /\ Settings(req'[q].body.config)
    BY DEF ChannelsInv
  <1> QED
    BY <1>1, <1>2, <1>3, SoundNext

LEMMA CreateChannelSound ==
    ASSUME ChannelsInv, NEW c \in Destinations, Senders!Create(c)
    PROVE  ChannelsInv'
  <1>1. PICK b \in Drafts :
          channelsRow' = [channelsRow EXCEPT ![c] =
                             [type |-> b.type, public |-> Senders!Split(b.type,
                                 Senders!StripRedacted(b.config)).public,
                              secret |-> Senders!Split(b.type, Senders!StripRedacted(b.config)).secret,
                              enabled |-> b.enabled, events |-> b.events, error |-> "none"]]
    BY DEF Senders!Create
  <1> DEFINE halves == Senders!Split(b.type, Senders!StripRedacted(b.config))
             x == [type |-> b.type, public |-> halves.public, secret |-> halves.secret,
                   enabled |-> b.enabled, events |-> b.events, error |-> "none"]
  <1>2. Settings(b.config)
    BY ChannelsAssumption DEF Senders!ChannelsAssumption, Settings
  <1>3. /\ Config(halves.public) /\ Config(halves.secret)
        /\ DOMAIN halves.public \cap Senders!Secret(b.type) = {}
    BY <1>2, StripTypes, SplitSound
  <1> HIDE DEF halves
  <1>4. ChannelSound(x)
    BY <1>3 DEF ChannelSound
  <1>5. channelsRow' = [channelsRow EXCEPT ![c] = x] /\ UNCHANGED req
    BY <1>1 DEF Senders!Create, halves
  <1> HIDE DEF x
  <1> QED
    BY <1>4, <1>5, OneChannelWritten

LEMMA DeleteChannelSound ==
    ASSUME ChannelsInv, NEW c \in Destinations, Senders!Delete(c)
    PROVE  ChannelsInv'
  BY OneChannelWritten DEF Senders!Delete

LEMMA SendSound ==
    ASSUME ChannelsInv, NEW c \in Destinations, NEW result, Senders!Send(c, result)
    PROVE  ChannelsInv'
  <1> DEFINE x == [channelsRow[c] EXCEPT !.error = result]
  <1>1. c \in Senders!Rows /\ ChannelSound(channelsRow[c])
    BY DEF Senders!Send, ChannelsInv
  <1>2. ChannelSound(x)
    BY <1>1 DEF ChannelSound
  <1>3. channelsRow' = [channelsRow EXCEPT ![c] = x] /\ UNCHANGED req
    BY DEF Senders!Send
  <1> HIDE DEF x
  <1> QED
    BY <1>2, <1>3, OneChannelWritten

\* What a client makes of a read is a body.
LEMMA EchoTypes ==
    ASSUME NEW c, ChannelSound(channelsRow[c]), NEW e \in Echoes
    PROVE  Settings(Senders!EchoOf(c, e))
  <1>1. Config(Senders!Shown(c))
    BY EchoChangesNothing
  <1>2. \A f \in DOMAIN e.add : e.add[f] \in Seq(Words)
    BY ChannelsAssumption DEF Senders!ChannelsAssumption
  <1> DEFINE S == Senders!Shown(c)
  <1>3. Senders!EchoOf(c, e) = [f \in DOMAIN S \ e.drop |-> IF f \in DOMAIN e.add THEN S[f] \o e.add[f] ELSE S[f]]
    BY DEF Senders!EchoOf
  <1> HIDE DEF S
  <1>4. \A f \in DOMAIN S : f \in DOMAIN e.add => S[f] \o e.add[f] \in Seq(Words)
    BY <1>1, <1>2, ConcatProperties DEF Config, S
  <1> QED
    BY <1>1, <1>3, <1>4 DEF Settings, Config, S

LEMMA LoadSound ==
    ASSUME ChannelsInv, NEW r \in Patches, NEW c \in Destinations, Senders!Load(r, c)
    PROVE  ChannelsInv'
  <1>1. c \in Senders!Rows /\ ChannelSound(channelsRow[c]) /\ UNCHANGED channelsRow
    BY DEF Senders!Load, ChannelsInv
  <1>2. PICK b : /\ b \in Drafts \cup {[config |-> Senders!EchoOf(c, e), enabled |-> channelsRow[c].enabled,
                               events |-> channelsRow[c].events] : e \in Echoes}
                 /\ req' = [req EXCEPT ![r] = [at |-> "loaded", c |-> c, copy |-> channelsRow[c],
                        body |-> b]]
    BY DEF Senders!Load
  <1>3. Settings(b.config)
    <2>1. CASE b \in Drafts
      BY <2>1, ChannelsAssumption DEF Senders!ChannelsAssumption, Settings
    <2>2. ASSUME NEW e \in Echoes,
                 b = [config |-> Senders!EchoOf(c, e), enabled |-> channelsRow[c].enabled,
                     events |-> channelsRow[c].events]
          PROVE  Settings(b.config)
      BY <1>1, <2>2, EchoTypes
    <2> QED
      BY <1>2, <2>1, <2>2
  <1>4. \A q \in Patches : req'[q].at = "loaded" =>
          ChannelSound(req'[q].copy) /\ Settings(req'[q].body.config)
    BY <1>1, <1>2, <1>3 DEF ChannelsInv
  <1>5. \A d \in Senders!Rows' : ChannelSound(channelsRow'[d])
    BY <1>1 DEF ChannelsInv, Senders!Rows
  <1>6. DOMAIN channelsRow' = Destinations /\ DOMAIN req' = Patches
    BY <1>1, <1>2 DEF ChannelsInv
  <1> QED
    BY <1>4, <1>5, <1>6 DEF ChannelsInv, ChannelSound, Config, Settings, Senders!Secret,
       Senders!Hidden, Senders!Rows

LEMMA StoreSound ==
    ASSUME ChannelsInv, NEW r \in Patches, Senders!Store(r)
    PROVE  ChannelsInv'
  <1> DEFINE c == req[r].c
             copy == req[r].copy
             body == req[r].body
             config == Senders!Patched(copy, body.config)
             halves == Senders!Split(copy.type, config)
             x == [type |-> copy.type, public |-> halves.public,
                   secret |-> halves.secret, error |-> channelsRow[c].error,
                   enabled |-> IF body.enabled = NoHook THEN copy.enabled ELSE body.enabled,
                   events |-> body.events]
  <1>1. /\ channelsRow' = channelsRow \/ channelsRow' = [channelsRow EXCEPT ![c] = x]
        /\ req' = [req EXCEPT ![r] = Senders!Idle] /\ req[r].at = "loaded"
    BY DEF Senders!Store
  <1>2. ChannelSound(copy) /\ Settings(body.config)
    BY <1>1 DEF ChannelsInv
  <1> HIDE DEF copy, body
  <1>3. Config(config)
    BY <1>2, MergeTypes, MergedTypes DEF Senders!Patched, ChannelSound
  <1> HIDE DEF config
  <1>4. /\ Config(halves.public) /\ Config(halves.secret)
        /\ DOMAIN halves.public \cap Senders!Secret(copy.type) = {}
    BY <1>3, SplitSound DEF Config, Settings
  <1> HIDE DEF halves
  <1>5. ChannelSound(x)
    BY <1>4 DEF ChannelSound
  <1> HIDE DEF x, c
  <1>6. \A d \in Senders!Rows' : ChannelSound(channelsRow'[d])
    BY <1>1, <1>5 DEF ChannelsInv, Senders!Rows
  <1>7. \A q \in Patches : req'[q].at = "loaded" =>
          ChannelSound(req'[q].copy) /\ Settings(req'[q].body.config)
    BY <1>1 DEF ChannelsInv, Senders!Idle
  <1>8. DOMAIN channelsRow' = Destinations /\ DOMAIN req' = Patches
    BY <1>1 DEF ChannelsInv
  <1> QED
    BY <1>6, <1>7, <1>8, SoundNext

LEMMA ChannelsStutter ==
    ASSUME ChannelsInv, UNCHANGED <<channelsRow, req>>
    PROVE  ChannelsInv'
  <1>1. Senders!Rows' = Senders!Rows
    BY DEF Senders!Rows
  <1> QED
    BY <1>1, SoundNext DEF ChannelsInv

LEMMA ChannelsStep == ASSUME ChannelsInv, [Senders!Next]_(Senders!vars) PROVE ChannelsInv'
  <1>1. ASSUME NEW c \in Destinations,
               \/ Senders!Create(c) \/ Senders!Delete(c)
               \/ \E r \in Patches : Senders!Load(r, c)
               \/ \E result \in {"none", "failed"} : Senders!Send(c, result)
        PROVE  ChannelsInv'
    BY <1>1, CreateChannelSound, DeleteChannelSound, LoadSound, SendSound
  <1>2. CASE \E r \in Patches : Senders!Store(r)
    BY <1>2, StoreSound
  <1>3. CASE Senders!SwitchRelay \/ UNCHANGED Senders!vars
    BY <1>3, ChannelsStutter DEF Senders!SwitchRelay, Senders!vars
  <1> QED
    BY <1>1, <1>2, <1>3 DEF Senders!Next

(* Every stored channel is of words, and no secret is in its public half,   *)
(* whatever is written (notifications.go, notify/config.go).                *)
THEOREM ChannelsCorrect == Senders!Spec => []ChannelsInv
  <1>1. Senders!Init => ChannelsInv
    BY ChannelsInit
  <1>2. ChannelsInv /\ [Senders!Next]_(Senders!vars) => ChannelsInv'
    BY ChannelsStep
  <1> QED
    BY <1>1, <1>2, PTL DEF Senders!Spec

(* A read of a channel shows no item of a hidden setting, and a client that *)
(* sends back what it read changes nothing (notify/config.go).              *)
THEOREM ReadsAlwaysSafe == Senders!Spec => []ReadsAreSafe
  <1>1. ChannelsInv => ReadsAreSafe
    BY EchoChangesNothing DEF ChannelsInv, ReadsAreSafe, Senders!ReadsAreSafe
  <1> QED
    BY <1>1, ChannelsCorrect, PTL
-----------------------------------------------------------------------------
(* The collections (Listing) *)

\* The times a row of the table is due in a walk that has passed its place.
Due(r) == IF rows[r].keep THEN 1 ELSE 0

\* A row nobody touched, alone at its place.
Followed(r) == rows[r].still /\ r \notin twins

\* The place of a row the cursor has yet to reach.
Ahead(r) == phase = "walking" /\ Lists!After(handler.order, r, cursor)

ListsTypes ==
    /\ rows \in [ListRows -> [live : BOOLEAN, key : 0..ListsEnd, keep : BOOLEAN,
                              still : BOOLEAN]]
    /\ listsNow \in 0..ListsEnd
    /\ cursor = Nothing \/ cursor \in [key : 0..ListsEnd, tie : Nat]
    /\ got \in [ListRows -> Nat]

\* The cursor splits the table: what lies before it has been sent as often as
\* it is due, what lies after it has not been sent.
ListsInv ==
    /\ ListsTypes
    /\ Lists!Shared(rows) \subseteq twins
    /\ phase = "idle" => cursor = Nothing /\ \A r \in ListRows : got[r] = 0
    /\ \A r \in ListRows : rows[r].still => rows[r].live
    /\ phase \in {"walking", "done"} => \A r \in ListRows : Followed(r) =>
          got[r] = IF Ahead(r) THEN 0 ELSE Due(r)

LEMMA PrecedesTransitive ==
    ASSUME NEW o, NEW ta \in Int, NEW tb \in Int, NEW tc \in Int,
           NEW ka \in Int, NEW kb \in Int, NEW kc \in Int,
           Lists!Precedes(o, ka, ta, kb, tb), Lists!Precedes(o, kb, tb, kc, tc)
    PROVE  Lists!Precedes(o, ka, ta, kc, tc)
  BY DEF Lists!Precedes

\* Two rows neither of which comes first share their place.
LEMMA PrecedesTotal ==
    ASSUME NEW o, NEW ta \in Int, NEW tb \in Int, NEW ka \in Int, NEW kb \in Int,
           ~Lists!Precedes(o, ka, ta, kb, tb), ~Lists!Precedes(o, kb, tb, ka, ta)
    PROVE  ka = kb /\ ta = tb
  BY DEF Lists!Precedes

LEMMA TieIs == \A o : \A r \in ListRows : Lists!Tie(o, r) \in Nat
  BY ListsAssumption DEF Lists!Tie, Lists!ListingAssumption

LEMMA ListsInitSound == Lists!Init => ListsInv
  <1> SUFFICES ASSUME Lists!Init PROVE ListsInv
    OBVIOUS
  <1>1. ListsEnd \in Nat /\ 1 \in 0..ListsEnd /\ 0..1 \subseteq 0..ListsEnd
    BY ListsAssumption DEF Lists!ListingAssumption
  <1>2. PICK live \in SUBSET ListRows, stamps \in [ListRows -> 0..1], keep \in [ListRows -> BOOLEAN] :
          rows = [r \in ListRows |-> [live |-> r \in live,
                     key |-> IF r \in live THEN stamps[r] ELSE 0,
                     keep |-> r \in live => keep[r], still |-> FALSE]]
    BY DEF Lists!Init
  <1>3. rows \in [ListRows -> [live : BOOLEAN, key : 0..ListsEnd, keep : BOOLEAN, still : BOOLEAN]]
    BY <1>1, <1>2
  <1>4. \A r \in ListRows : rows[r].still = FALSE
    BY <1>2
  <1> QED
    BY <1>1, <1>3, <1>4 DEF Lists!Init, ListsInv, ListsTypes, Followed

\* The rows a page leaves behind the cursor are the rows it read.
LEMMA PageSplits ==
    ASSUME ListsInv, phase = "walking", NEW limit,
           NEW read \in Lists!Read(handler, cursor, limit),
           NEW extra \in Lists!LastOf(handler.order, read),
           NEW last \in Lists!LastOf(handler.order, read \ {extra}),
           NEW r \in ListRows, Followed(r),
           got' = Lists!Sent(read \ {extra}),
           cursor' = [key |-> rows[last].key, tie |-> Lists!Tie(handler.order, last)],
           UNCHANGED <<handler, rows, phase, twins>>
    PROVE  got'[r] = IF Lists!After(handler.order, r, cursor') THEN 0 ELSE Due(r)
  <1> DEFINE o == handler.order
             S == {q \in ListRows : Lists!Queried(handler, q) /\ Lists!After(o, q, cursor)}
  <1>1. /\ read \subseteq S /\ \A p \in S \ read, q \in read : ~Lists!Before(o, p, q)
    BY DEF Lists!Read
  <1>2. /\ extra \in read /\ last \in read /\ last # extra
        /\ \A q \in read : ~Lists!Before(o, extra, q)
        /\ \A q \in read \ {extra} : ~Lists!Before(o, last, q)
    BY DEF Lists!LastOf
  <1>3. /\ rows[r].still /\ rows[r].live /\ r \notin twins
        /\ got[r] = IF Lists!After(o, r, cursor) THEN 0 ELSE Due(r)
    BY DEF ListsInv, Followed, Ahead
  <1>4. got'[r] = IF r \in read \ {extra} /\ rows[r].keep THEN got[r] + 1 ELSE got[r]
    BY DEF Lists!Sent
  <1>5. /\ \A q \in ListRows : Lists!Tie(o, q) \in Int /\ rows[q].key \in Int
        /\ got[r] \in Nat
    BY TieIs, ListsAssumption DEF Lists!ListingAssumption, ListsInv, ListsTypes
  <1>6. Lists!After(o, r, cursor') <=> Lists!Before(o, last, r)
    <2>1. cursor' # Nothing
      BY <1>1, <1>2, TieIs, ListsAssumption DEF Lists!ListingAssumption, ListsInv, ListsTypes
    <2> QED
      BY <2>1 DEF Lists!After, Lists!Before
  <1>7. Lists!Before(o, last, r) => Lists!After(o, r, cursor)
    <2>1. last \in ListRows /\ Lists!After(o, last, cursor)
      BY <1>1, <1>2
    <2>2. CASE cursor = Nothing
      BY <2>2 DEF Lists!After
    <2>3. CASE cursor # Nothing
      <3>1. cursor.tie \in Int /\ cursor.key \in Int
        BY <2>3, <1>5 DEF ListsInv, ListsTypes
      <3>2. Lists!Precedes(o, cursor.key, cursor.tie, rows[last].key, Lists!Tie(o, last))
        BY <2>1, <2>3 DEF Lists!After
      <3>3. ASSUME Lists!Before(o, last, r) 
            PROVE  Lists!Precedes(o, cursor.key, cursor.tie, rows[r].key, Lists!Tie(o, r))
        BY <3>1, <3>2, <3>3, <2>1, <1>5, PrecedesTransitive DEF Lists!Before
      <3> QED
        BY <3>3 DEF Lists!After
    <2> QED
      BY <2>2, <2>3
  <1>8. CASE Lists!Before(o, last, r)
    <2>1. r \notin read \ {extra}
      BY <1>2, <1>8
    <2> QED
      BY <2>1, <1>3, <1>4, <1>6, <1>7, <1>8
  <1>9. CASE ~Lists!After(o, r, cursor)
    <2>1. r \notin read
      BY <1>1, <1>9
    <2> QED
      BY <2>1, <1>3, <1>4, <1>6, <1>7, <1>9
  <1>10. CASE ~Lists!Before(o, last, r) /\ Lists!After(o, r, cursor)
    <2>1. r \in S => r \in read \ {extra}
      <3> SUFFICES ASSUME r \in S, r \notin read \ {extra} PROVE FALSE
        OBVIOUS
      <3>1. ~Lists!Before(o, r, last) /\ r # last /\ last \in ListRows
        BY <1>1, <1>2
      <3>2. rows[r].key = rows[last].key /\ Lists!Tie(o, r) = Lists!Tie(o, last)
        BY <3>1, <1>5, <1>10, PrecedesTotal DEF Lists!Before
      <3>3. rows[last].live
        BY <1>1, <1>2 DEF Lists!Queried
      <3>4. r \in Lists!Shared(rows)
        BY <3>1, <3>2, <3>3, <1>3 DEF Lists!Shared, Lists!Tie
      <3> QED
        BY <3>4, <1>3 DEF ListsInv
    <2>2. ~(r \in S) => ~rows[r].keep
      BY <1>3, <1>10 DEF Lists!Queried
    <2>3. rows[r].keep => r \in read \ {extra}
      BY <2>1, <2>2
    <2> HIDE DEF S
    <2> QED
      BY <2>3, <1>3, <1>4, <1>6, <1>10 DEF Due
  <1> QED
    BY <1>8, <1>9, <1>10

LEMMA SentTypes ==
    ASSUME ListsTypes, NEW sheet
    PROVE  Lists!Sent(sheet) \in [ListRows -> Nat]
  <1>1. \A r \in ListRows : got[r] \in Nat /\ got[r] + 1 \in Nat
    BY DEF ListsTypes
  <1> QED
    BY <1>1 DEF Lists!Sent

LEMMA PageSound == ASSUME ListsInv, NEW asked \in 0..(MaxLimit + 1), Lists!Page(asked) PROVE ListsInv'
  <1>0. ListsTypes /\ phase = "walking" /\ UNCHANGED <<handler, rows, listsNow, listsWrites, twins>>
    BY DEF Lists!Page, ListsInv
  <1>1. PICK read \in Lists!Read(handler, cursor, Lists!Limit(asked)) :
          /\ Lists!Cardinality(read) > Lists!Limit(asked) =>
                \E extra \in Lists!LastOf(handler.order, read) :
                \E last \in Lists!LastOf(handler.order, read \ {extra}) :
                   /\ got' = Lists!Sent(read \ {extra})
                   /\ cursor' = [key |-> rows[last].key, tie |-> Lists!Tie(handler.order, last)]
                   /\ UNCHANGED phase
          /\ ~(Lists!Cardinality(read) > Lists!Limit(asked)) =>
                got' = Lists!Sent(read) /\ phase' = "done" /\ UNCHANGED cursor
    BY DEF Lists!Page
  <1>2. Lists!Limit(asked) \in Nat
    BY ListsAssumption DEF Lists!Limit, Lists!ListingAssumption
  <1>3. Lists!Shared(rows)' = Lists!Shared(rows)
    BY <1>0 DEF Lists!Shared, Lists!Tie
  <1>4. \A r \in ListRows : Followed(r)' = Followed(r) /\ Due(r)' = Due(r)
    BY <1>0 DEF Followed, Due
  <1>5. CASE Lists!Cardinality(read) > Lists!Limit(asked)
    <2>0. PICK extra \in Lists!LastOf(handler.order, read) :
             \E last \in Lists!LastOf(handler.order, read \ {extra}) :
                /\ got' = Lists!Sent(read \ {extra})
                /\ cursor' = [key |-> rows[last].key, tie |-> Lists!Tie(handler.order, last)]
                /\ UNCHANGED phase
      BY <1>1, <1>5
    <2>1. PICK last \in Lists!LastOf(handler.order, read \ {extra}) :
             /\ got' = Lists!Sent(read \ {extra})
             /\ cursor' = [key |-> rows[last].key, tie |-> Lists!Tie(handler.order, last)]
             /\ UNCHANGED phase
      BY <2>0
    <2>2. \A r \in ListRows : Followed(r) =>
             got'[r] = IF Lists!After(handler.order, r, cursor') THEN 0 ELSE Due(r)
      BY <2>1, <1>0, PageSplits
    <2>3. \A r \in ListRows : Ahead(r)' <=> Lists!After(handler.order, r, cursor')
      BY <2>1, <1>0 DEF Ahead, Lists!After, Lists!Tie
    <2>4. last \in ListRows
      BY <2>1 DEF Lists!LastOf, Lists!Read
    <2>5. ListsTypes'
      <3>1. cursor' \in [key : 0..ListsEnd, tie : Nat]
        BY <2>1, <2>4, <1>0, TieIs DEF ListsTypes
      <3>2. got' \in [ListRows -> Nat]
        BY <2>1, <1>0, SentTypes
      <3> QED
        BY <3>1, <3>2, <1>0 DEF ListsTypes
    <2> QED
      BY <2>1, <2>2, <2>3, <2>5, <1>0, <1>3, <1>4 DEF ListsInv
  <1>6. CASE ~(Lists!Cardinality(read) > Lists!Limit(asked))
    <2>1. got' = Lists!Sent(read) /\ phase' = "done" /\ UNCHANGED cursor
      BY <1>1, <1>6
    <2> DEFINE S == {q \in ListRows : Lists!Queried(handler, q)
                   /\ Lists!After(handler.order, q, cursor)}
    <2>2. read = S
      <3>1. Lists!Read(handler, cursor, Lists!Limit(asked)) =
              {P \in SUBSET S :
                 /\ (P = S /\ Lists!Cardinality(S) <= Lists!Limit(asked))
                        \/ Lists!Cardinality(P) = Lists!Limit(asked) + 1
                 /\ \A r \in S \ P, q \in P : ~Lists!Before(handler.order, r, q)}
        BY Zenon DEF Lists!Read
      <3> HIDE DEF S
      <3> QED
        BY <3>1, <1>2, <1>6
    <2>3. ASSUME NEW r \in ListRows, Followed(r)
          PROVE  got'[r] = Due(r)
      <3>1. /\ rows[r].live
            /\ got[r] = IF Lists!After(handler.order, r, cursor) THEN 0 ELSE Due(r)
        BY <2>3, <1>0 DEF ListsInv, Followed, Ahead
      <3>2. got'[r] = IF r \in read /\ rows[r].keep THEN got[r] + 1 ELSE got[r]
        BY <2>1 DEF Lists!Sent
      <3>3. /\ r \in read => Lists!After(handler.order, r, cursor)
            /\ Lists!After(handler.order, r, cursor) /\ rows[r].keep => r \in read
        BY <2>2, <3>1 DEF Lists!Queried
      <3> QED
        BY <3>1, <3>2, <3>3 DEF Due
    <2>4. ListsTypes'
      BY <2>1, <1>0, SentTypes DEF ListsTypes
    <2>5. \A r \in ListRows : ~Ahead(r)'
      BY <2>1 DEF Ahead
    <2> QED
      BY <2>1, <2>3, <2>4, <2>5, <1>0, <1>3, <1>4 DEF ListsInv
  <1> QED
    BY <1>5, <1>6

LEMMA WalkSound == ASSUME ListsInv, Lists!Walk PROVE ListsInv'
  <1>1. rows' = [r \in ListRows |-> [rows[r] EXCEPT !.still = rows[r].live]]
    BY DEF Lists!Walk
  <1>2. \A r \in ListRows : rows[r] \in [live : BOOLEAN, key : 0..ListsEnd, keep : BOOLEAN,
            still : BOOLEAN]
    BY DEF ListsInv, ListsTypes
  <1>3. \A r \in ListRows : /\ rows'[r] \in [live : BOOLEAN, key : 0..ListsEnd, keep : BOOLEAN, still : BOOLEAN]
                            /\ rows'[r].live = rows[r].live /\ rows'[r].key = rows[r].key
                            /\ rows'[r].still = rows[r].live
    BY <1>1, <1>2
  <1>4. rows' \in [ListRows -> [live : BOOLEAN, key : 0..ListsEnd, keep : BOOLEAN, still : BOOLEAN]]
    BY <1>1, <1>3
  <1>5. Lists!Shared(rows)' = Lists!Shared(rows)
    <2>1. handler' = handler
      BY DEF Lists!Walk
    <2>2. \A r : r \in Lists!Shared(rows)' <=> r \in Lists!Shared(rows)
      BY <1>3, <2>1 DEF Lists!Shared, Lists!Tie
    <2> QED
      BY <2>2
  <1>6. \A r \in ListRows : Ahead(r)' /\ got'[r] = 0
    BY DEF Ahead, Lists!After, Lists!Walk, ListsInv
  <1>7. ListsTypes'
    BY <1>4 DEF ListsTypes, ListsInv, Lists!Walk
  <1> QED
    BY <1>3, <1>5, <1>6, <1>7 DEF ListsInv, Lists!Walk

\* A write touches one row, which is followed no longer.
LEMMA RewrittenSound ==
    ASSUME ListsInv, NEW r \in ListRows,
           NEW row \in [live : BOOLEAN, key : 0..ListsEnd, keep : BOOLEAN, still : {FALSE}],
           Lists!Rewritten(r, row)
    PROVE  ListsInv'
  <1>1. /\ phase = "walking" /\ rows' = [rows EXCEPT ![r] = row]
               /\ twins' = twins \cup Lists!Shared(rows')
        /\ UNCHANGED <<handler, listsNow, cursor, got, phase>>
    BY DEF Lists!Rewritten, Lists!Writing
  <1>2. Lists!Shared(rows)' = Lists!Shared(rows')
    BY <1>1 DEF Lists!Shared, Lists!Tie
  <1>3. ~rows'[r].still /\ \A q \in ListRows \ {r} : rows'[q] = rows[q]
    BY <1>1 DEF ListsInv, ListsTypes
  <1>4. \A q \in ListRows : Followed(q)' => q # r /\ Followed(q)
    BY <1>1, <1>3 DEF Followed
  <1>5. \A q \in ListRows \ {r} : Ahead(q)' = Ahead(q) /\ Due(q)' = Due(q)
    BY <1>1, <1>3 DEF Ahead, Due, Lists!After, Lists!Tie
  <1>6. ListsTypes'
    BY <1>1 DEF ListsInv, ListsTypes
  <1> QED
    BY <1>1, <1>2, <1>3, <1>4, <1>5, <1>6 DEF ListsInv

LEMMA WritesSound ==
    ASSUME ListsInv, NEW r \in ListRows, Lists!Create(r) \/ Lists!Edit(r) \/ Lists!Delete(r)
    PROVE  ListsInv'
  <1>1. 0 \in 0..ListsEnd /\ listsNow \in 0..ListsEnd /\ rows[r].key \in 0..ListsEnd
    BY ListsAssumption DEF ListsInv, ListsTypes, Lists!ListingAssumption
  <1>2. CASE Lists!Create(r)
    BY <1>1, <1>2, RewrittenSound DEF Lists!Create
  <1>3. CASE Lists!Edit(r)
    <2>1. PICK key \in CASE handler.order.key = "updated" -> {listsNow}
                         [] handler.order.key = "expires" -> 0..ListsEnd
                         [] OTHER -> {rows[r].key},
               keep \in BOOLEAN :
             Lists!Rewritten(r, [live |-> TRUE, key |-> key, keep |-> keep, still |-> FALSE])
      BY <1>3 DEF Lists!Edit
    <2>2. key \in 0..ListsEnd
      BY <1>1, <2>1
    <2> QED
      BY <2>1, <2>2, RewrittenSound
  <1>4. CASE Lists!Delete(r)
    BY <1>1, <1>4, RewrittenSound DEF Lists!Delete
  <1> QED
    BY <1>2, <1>3, <1>4

LEMMA ListsQuiet ==
    ASSUME ListsInv, UNCHANGED <<handler, rows, cursor, got, twins>>,
           phase' = phase \/ phase' \in {"bad request", "not found"},
           listsNow' \in 0..ListsEnd
    PROVE  ListsInv'
  <1>1. Lists!Shared(rows)' = Lists!Shared(rows)
    BY DEF Lists!Shared, Lists!Tie
  <1>2. \A r \in ListRows : Followed(r)' = Followed(r) /\ Due(r)' = Due(r)
    BY DEF Followed, Due
  <1>3. phase' = phase => \A r \in ListRows : Ahead(r)' = Ahead(r)
    BY DEF Ahead, Lists!After, Lists!Tie
  <1> QED
    BY <1>1, <1>2, <1>3 DEF ListsInv, ListsTypes

LEMMA ListsStepSound == ASSUME ListsInv, [Lists!Next]_(Lists!vars) PROVE ListsInv'
  <1>0. listsNow \in 0..ListsEnd /\ ListsEnd \in Nat
    BY ListsAssumption DEF ListsInv, ListsTypes, Lists!ListingAssumption
  <1>1. CASE \E what \in {"cursor", "parent"} : Lists!Refuse(what)
    BY <1>0, <1>1, ListsQuiet DEF Lists!Refuse
  <1>2. CASE Lists!Walk
    BY <1>2, WalkSound
  <1>3. CASE \E asked \in 0..(MaxLimit + 1) : Lists!Page(asked)
    BY <1>3, PageSound
  <1>4. CASE \E r \in ListRows : Lists!Create(r) \/ Lists!Edit(r) \/ Lists!Delete(r)
    BY <1>4, WritesSound
  <1>5. CASE Lists!Tick
    BY <1>0, <1>5, ListsQuiet DEF Lists!Tick
  <1>6. CASE UNCHANGED Lists!vars
    BY <1>0, <1>6, ListsQuiet DEF Lists!vars
  <1> QED
    BY <1>1, <1>2, <1>3, <1>4, <1>5, <1>6 DEF Lists!Next

(* The cursor of a walk splits the table it walks, whatever is written to   *)
(* it meanwhile: a row nobody touched has been sent exactly when the cursor *)
(* has passed it (store.go, DecodeCursor).                                  *)
THEOREM ListsCorrect == Lists!Spec => []ListsInv
  <1>1. ListsInv /\ [Lists!Next]_(Lists!vars) => ListsInv'
    BY ListsStepSound
  <1> QED
    BY <1>1, ListsInitSound, PTL DEF Lists!Spec

(* A row nobody touched and alone at its place is in exactly one page of a  *)
(* walk when the filter keeps it, in none otherwise (store.go).             *)
THEOREM WalksAreComplete == Lists!Spec => []WalkIsComplete
  <1>1. ListsInv => WalkIsComplete
    BY DEF ListsInv, WalkIsComplete, Lists!WalkIsComplete, Followed, Ahead, Due
  <1> QED
    BY <1>1, ListsCorrect, PTL

-----------------------------------------------------------------------------
(* What a sweep silences *)

RecurrenceFits(v) == v.until \in Windows!Instants /\ Windows!CronFits(v.cron)

PlanFields == {"strategy", "starts", "ends", "duration", "recurrence"}

\* A schedule whose fields, those that are there, are of their types.
PlanFits(p) ==
    /\ DOMAIN p = PlanFields
    /\ p.strategy \in Windows!Strategies \cup {Absent}
    /\ p.starts \in Windows!Instants /\ p.ends \in Windows!Instants
    /\ p.duration \in Windows!Instants
    /\ RecurrenceFits(p.recurrence)

\* A schedule the evaluator takes.
Runs(p) ==
    /\ PlanFits(p) /\ ~Windows!Unusable(p)
    /\ p.strategy \in Windows!Strategies /\ p.starts \in Nat
    /\ p.strategy = "single" => p.ends # Absent \/ p.duration # Absent

\* The schedules of the windows that are settled.
Tame(p) == p.strategy = "single" \/ Windows!ShortRecurring(p)

RowFits(row) ==
    /\ DOMAIN row = {"plan", "suppress", "targets", "pages", "next"}
    /\ PlanFits(row.plan)

\* What a sweep stored: the next occurrence, as it was at some time.
NextIs(row) ==
    row.next = Absent \/ \E t \in 0 .. windowsNow : row.next = Windows!NextStart(row.plan, t)

WindowFits(w) ==
    windowRows[w] # Absent =>
      /\ RowFits(windowRows[w]) /\ Runs(windowRows[w].plan)
      /\ w \notin windowsRaced => NextIs(windowRows[w])

WriteFits(q) ==
    /\ q.at # "idle" =>
          /\ DOMAIN q = {"at", "w", "row", "body", "fresh"}
          /\ q.w \in WindowIds /\ RowFits(q.row) /\ q.body \in WindowBodies
    /\ q.at = "checked" => Runs(q.row.plan) /\ q.row.next = Absent

\* The copy the sweep goes by says what the row says, and a window that it
\* passed over is closed at its time.
CopyTells(w) ==
    /\ windowsSweep.copy[w] # Absent /\ windowRows[w] # Absent =>
         /\ windowRows[w].plan = windowsSweep.copy[w].plan
         /\ windowRows[w].suppress = windowsSweep.copy[w].suppress
    /\ (/\ windowsSweep.copy[w] = Absent /\ windowRows[w] # Absent
        /\ w \notin windowsRaced /\ Tame(windowRows[w].plan))
       => ~Windows!Running(windowRows[w].plan, windowsSweep.time)

\* The monitors that windows match.
MatchedBy(S) == UNION {matched[t] : t \in UNION {windowRows[w].targets : w \in S}}

SweepFits ==
    /\ DOMAIN windowsSweep = {"at", "time", "todo", "copy", "active", "under"}
    /\ windowsSweep.at \in {"idle", "next", "apply"}
    /\ windowsSweep.at # "idle" =>
         /\ windowsSweep.time \in 0 .. windowsNow
         /\ \A w \in WindowIds : windowsSweep.copy[w] # Absent => Runs(windowsSweep.copy[w].plan)
         /\ windowsSweep.todo \subseteq {w \in WindowIds : windowsSweep.copy[w] # Absent}
         /\ windowsSweep.active =
              {w \in WindowIds :
                 /\ windowsSweep.copy[w] # Absent /\ w \notin windowsSweep.todo
                 /\ Windows!OpenAt(windowsSweep.copy[w].plan, windowsSweep.time)
                 /\ windowsSweep.copy[w].suppress}
         /\ sweepQuiet => \A w \in WindowIds : CopyTells(w)
    /\ windowsSweep.at = "apply" =>
         /\ windowsSweep.todo = {}
         /\ sweepQuiet => windowsSweep.under =
              MatchedBy({w \in windowsSweep.active : windowRows[w] # Absent})

\* The inductive invariant: what the rows, the requests and the sweep hold.
WindowsInv ==
    /\ windowsNow \in 0 .. WindowsEnd /\ sweepsFailed \in Nat /\ sweepQuiet \in BOOLEAN
    /\ DOMAIN windowRows = WindowIds /\ \A w \in WindowIds : WindowFits(w)
    /\ DOMAIN windowsReq = WindowWriters /\ \A r \in WindowWriters : WriteFits(windowsReq[r])
    /\ SweepFits

LEMMA LeastNumber ==
    ASSUME NEW S \in SUBSET Nat, S # {}
    PROVE  \E x \in S : \A y \in S : x <= y
  <1>1. PICK x \in S : \A y \in S : ~ (<<y, x>> \in OpToRel(<, Nat))
    BY NatLessThanWellFounded, WFMin, Zenon
  <1>2. \A y \in S : ~ (y < x)
    BY <1>1, Zenon DEF OpToRel
  <1>3. \A y \in S : x <= y
    BY <1>2
  <1> QED
    BY <1>3

LEMMA MinIsLeast ==
    ASSUME NEW S \in SUBSET Nat, S # {}
    PROVE  Windows!Min(S) \in S /\ \A y \in S : Windows!Min(S) <= y
  BY LeastNumber DEF Windows!Min

\* The later of two times.
LEMMA LaterOf ==
    ASSUME NEW a \in Nat, NEW b \in Nat
    PROVE  /\ Windows!Max({a, b}) \in Nat
           /\ b <= a => Windows!Max({a, b}) = a
           /\ a <= b => Windows!Max({a, b}) = b
  <1>1. CASE b <= a
    BY <1>1 DEF Windows!Max
  <1>2. CASE a <= b
    BY <1>2 DEF Windows!Max
  <1> QED
    BY <1>1, <1>2

LEMMA RunsTypes ==
    ASSUME NEW p, Runs(p)
    PROVE  /\ p.starts \in Nat
           /\ p.strategy = "single" => Windows!SingleEnd(p) \in Nat
           /\ p.strategy # "single" => p.duration \in Nat
           /\ \A c \in Windows!StartTimes(p) : c \in Nat /\ c < DayTicks
           /\ p.recurrence.until \in Nat \cup {Absent}
  <1>1. DayTicks \in Nat \ {0} /\ Absent \notin Nat
    BY WindowsAssumption DEF Windows!MaintenanceWindowsAssumption
  <1>2. p.starts \in Nat /\ p.recurrence.until \in Nat \cup {Absent}
    BY DEF Runs, PlanFits, RecurrenceFits, Windows!Instants
  <1>3. p.strategy = "single" => Windows!SingleEnd(p) \in Nat
    BY <1>1, <1>2 DEF Runs, PlanFits, Windows!Instants, Windows!SingleEnd
  <1>4. p.strategy # "single" => p.duration \in Nat
    BY <1>1 DEF Runs, PlanFits, Windows!Instants, Windows!Unusable
  <1>5. \A c \in Windows!StartTimes(p) : c \in Nat /\ c < DayTicks
    <2>1. CASE p.strategy = "cron"
      <3>1. p.recurrence.cron.clocks \subseteq 0 .. DayTicks - 1
        BY <2>1 DEF Runs, PlanFits, RecurrenceFits, Windows!CronFits, Windows!Unusable
      <3> QED
        BY <1>1, <2>1, <3>1 DEF Windows!StartTimes
    <2>2. CASE p.strategy # "cron"
      <3>1. p.starts % DayTicks \in 0 .. DayTicks - 1
        BY <1>1, <1>2
      <3> QED
        BY <1>1, <2>2, <3>1 DEF Windows!StartTimes
    <2> QED
      BY <2>1, <2>2
  <1> QED
    BY <1>2, <1>3, <1>4, <1>5

\* A start of the schedule is on one of its days, at one of its times.
LEMMA StartOfDay ==
    ASSUME NEW p, Runs(p), NEW d \in Nat, NEW c \in Windows!StartTimes(p)
    PROVE  /\ d * DayTicks + c \in Nat /\ d * DayTicks \in Nat
           /\ d * DayTicks <= d * DayTicks + c
           /\ d * DayTicks + c < d * DayTicks + DayTicks
  <1>1. DayTicks \in Nat /\ c \in Nat /\ c < DayTicks
    BY RunsTypes, WindowsAssumption DEF Windows!MaintenanceWindowsAssumption
  <1>2. d * DayTicks \in Nat
    BY <1>1
  <1> QED
    BY <1>1, <1>2

\* Starts in order are on days in order.
LEMMA DaysInOrder ==
    ASSUME NEW d \in Nat, NEW e \in Nat, NEW w \in Nat, NEW s \in Nat, NEW t \in Nat,
           d * w <= s, t < e * w + w, s <= t
    PROVE  d <= e
  <1>1. CASE e < d
    <2>1. e * w + w <= d * w
      BY <1>1, ProductGrows
    <2>2. e * w \in Nat /\ d * w \in Nat
      OBVIOUS
    <2> QED
      BY <2>1, <2>2
  <1> QED
    BY <1>1

\* Where the walk begins: the day before the later of the anchor and the time.
LEMMA WalkBegins ==
    ASSUME NEW p, Runs(p), NEW t \in Nat
    PROVE  /\ Windows!WalkFrom(p, t) \in Int
           /\ \E x \in Nat, q \in Nat :
                /\ x = Windows!Max({p.starts, t})
                /\ Windows!WalkFrom(p, t) = q - 1
                /\ q * DayTicks <= x /\ x < q * DayTicks + DayTicks
  <1>1. p.starts \in Nat /\ DayTicks \in Nat \ {0}
    BY RunsTypes, WindowsAssumption DEF Windows!MaintenanceWindowsAssumption
  <1> DEFINE x == Windows!Max({p.starts, t})
             q == x \div DayTicks
  <1>2. x \in Nat
    BY <1>1, LaterOf
  <1>3. q \in Nat /\ q * DayTicks <= x /\ x < q * DayTicks + DayTicks
    BY <1>1, <1>2, QuotientBounds
  <1>4. Windows!WalkFrom(p, t) = q - 1
    BY DEF Windows!WalkFrom, Windows!DayOf
  <1>5. q - 1 \in Int
    BY <1>3
  <1> HIDE DEF q
  <1> QED
    BY <1>2, <1>3, <1>4, <1>5

\* No start that has not finished is on a day before the walk begins.
LEMMA WalkIsEarly ==
    ASSUME NEW p, Runs(p), Windows!ShortRecurring(p), NEW t \in Nat,
           NEW d \in Nat, NEW c \in Windows!StartTimes(p),
           d * DayTicks + c >= p.starts, d * DayTicks + c + p.duration > t
    PROVE  d >= Windows!WalkFrom(p, t)
  <1> DEFINE s == d * DayTicks + c
  <1>1. PICK x \in Nat, q \in Nat :
          /\ x = Windows!Max({p.starts, t})
          /\ Windows!WalkFrom(p, t) = q - 1
          /\ q * DayTicks <= x /\ x < q * DayTicks + DayTicks
    BY WalkBegins
  <1>2. /\ p.starts \in Nat /\ p.duration \in Nat /\ p.duration <= DayTicks
        /\ DayTicks \in Nat
    BY RunsTypes, WindowsAssumption
    DEF Windows!MaintenanceWindowsAssumption, Windows!ShortRecurring
  <1>3. /\ s \in Nat /\ s >= p.starts /\ s + p.duration > t
        /\ d * DayTicks \in Nat /\ s < d * DayTicks + DayTicks
    BY StartOfDay
  <1>4. x = p.starts \/ x = t
    BY <1>1, <1>2, LaterOf
  <1> HIDE DEF s
  <1>5. x < s + DayTicks \/ x = s
    BY <1>2, <1>3, <1>4
  <1>6. x < (d + 1) * DayTicks + DayTicks
    <2>1. (d + 1) * DayTicks = d * DayTicks + DayTicks
      BY <1>2
    <2> QED
      BY <1>2, <1>3, <1>5, <2>1
  <1>7. q <= d + 1
    BY <1>1, <1>2, <1>6, DaysInOrder
  <1> QED
    BY <1>1, <1>7

\* What a start of the schedule is.
LEMMA StartIs ==
    ASSUME NEW p, Runs(p), NEW s \in Windows!AllStarts(p)
    PROVE  /\ s \in Nat /\ s >= p.starts /\ ~Windows!Past(p, s)
           /\ \E d \in Nat, c \in Windows!StartTimes(p) :
                d \in DOMAIN WeekdayOf /\ Windows!Matches(p, d) /\ s = d * DayTicks + c
  <1>1. DOMAIN WeekdayOf \subseteq Nat
    BY WindowsAssumption DEF Windows!MaintenanceWindowsAssumption
  <1>2. /\ s >= p.starts /\ ~Windows!Past(p, s)
        /\ \E d \in DOMAIN WeekdayOf, c \in Windows!StartTimes(p) :
             Windows!Matches(p, d) /\ s = d * DayTicks + c
    BY DEF Windows!AllStarts, Windows!AllDays
  <1> QED
    BY <1>1, <1>2, StartOfDay

\* ... and one the walk visits.
LEMMA WalkedIs ==
    ASSUME NEW p, Runs(p), NEW t \in Nat, NEW s \in Windows!Walked(p, t)
    PROVE  /\ s \in Nat /\ s >= p.starts
           /\ \E d \in Nat, c \in Windows!StartTimes(p) :
                /\ d <= Windows!WalkFrom(p, t) + DaysAhead - 1
                /\ Windows!Matches(p, d) /\ s = d * DayTicks + c
  <1>1. Windows!WalkFrom(p, t) \in Int /\ DaysAhead \in Nat
    BY WalkBegins, WindowsAssumption DEF Windows!MaintenanceWindowsAssumption
  <1>2. PICK d \in {e \in Windows!WalkFrom(p, t) .. Windows!WalkFrom(p, t) + DaysAhead - 1 :
                      e >= 0 /\ Windows!Matches(p, e)}, c \in Windows!StartTimes(p) :
          s = d * DayTicks + c
    BY DEF Windows!Walked
  <1>3. /\ d \in Nat /\ Windows!Matches(p, d)
        /\ d <= Windows!WalkFrom(p, t) + DaysAhead - 1
    BY <1>1, <1>2
  <1>4. s >= p.starts
    BY DEF Windows!Walked
  <1> QED
    BY <1>2, <1>3, <1>4, StartOfDay

\* The walk visits a start of the schedule that has not finished, when it goes
\* as far as its day.
LEMMA WalkVisits ==
    ASSUME NEW p, Runs(p), Windows!ShortRecurring(p), NEW t \in Nat,
           NEW d \in Nat, NEW c \in Windows!StartTimes(p),
           Windows!Matches(p, d), d * DayTicks + c >= p.starts,
           d * DayTicks + c + p.duration > t,
           d <= Windows!WalkFrom(p, t) + DaysAhead - 1
    PROVE  d * DayTicks + c \in Windows!Walked(p, t)
  <1>1. Windows!WalkFrom(p, t) \in Int /\ DaysAhead \in Nat
    BY WalkBegins, WindowsAssumption DEF Windows!MaintenanceWindowsAssumption
  <1>2. d >= Windows!WalkFrom(p, t)
    BY WalkIsEarly
  <1>3. d \in {e \in Windows!WalkFrom(p, t) .. Windows!WalkFrom(p, t) + DaysAhead - 1 :
                 e >= 0 /\ Windows!Matches(p, e)}
    BY <1>1, <1>2
  <1> QED
    BY <1>3 DEF Windows!Walked

\* What Next returns of a recurring schedule: the first place its walk stops.
LEMMA NextIsLeast ==
    ASSUME NEW p, Runs(p), p.strategy # "single", NEW t \in Nat,
           Windows!NextStart(p, t) # Absent
    PROVE  LET n == Windows!NextStart(p, t) IN
           /\ n \in Windows!Walked(p, t) /\ n \in Nat /\ ~Windows!Past(p, n)
           /\ n + p.duration > t
           /\ \A s \in Windows!Walked(p, t) :
                Windows!Past(p, s) \/ s + p.duration > t => n <= s
  <1> DEFINE n == Windows!NextStart(p, t)
             stops == {s \in Windows!Walked(p, t) : Windows!Past(p, s) \/ s + p.duration > t}
  <1>1. stops # {} /\ n = Windows!Min(stops) /\ ~Windows!Past(p, Windows!Min(stops))
    BY DEF Windows!NextStart
  <1>2. stops \in SUBSET Nat
    BY WalkedIs
  <1>3. n \in stops /\ \A s \in stops : n <= s
    <2> HIDE DEF n, stops
    <2> QED
      BY <1>1, <1>2, MinIsLeast
  <1> QED
    BY <1>1, <1>2, <1>3

\* Next finds an occurrence that is open exactly when the schedule is running.
LEMMA OpenIsRunning ==
    ASSUME NEW p, Runs(p), Tame(p), NEW t \in 0 .. WindowsEnd
    PROVE  Windows!OpenAt(p, t) <=> Windows!Running(p, t)
  <1>1. /\ t \in Nat /\ WindowsEnd \in Nat /\ t <= WindowsEnd /\ p.starts \in Nat
        /\ Absent \notin Nat /\ ~Windows!Unusable(p)
    BY RunsTypes, WindowsAssumption DEF Windows!MaintenanceWindowsAssumption, Runs
  <1>2. CASE p.strategy = "single"
    <2>1. Windows!SingleEnd(p) \in Nat
      BY <1>2, RunsTypes
    <2> QED
      BY <1>1, <1>2, <2>1
      DEF Windows!OpenAt, Windows!Running, Windows!NextStart, Windows!End
  <1>3. CASE p.strategy # "single"
    <2> DEFINE n == Windows!NextStart(p, t)
    <2>1. Windows!ShortRecurring(p) /\ p.duration \in Nat
      BY <1>3, RunsTypes DEF Tame
    <2>2. ASSUME Windows!OpenAt(p, t) PROVE Windows!Running(p, t)
      <3>1. n # Absent /\ n <= t /\ t < n + p.duration
        BY <1>3, <2>2 DEF Windows!OpenAt, Windows!End
      <3>2. n \in Windows!Walked(p, t) /\ n \in Nat /\ ~Windows!Past(p, n)
        BY <1>1, <1>3, <3>1, NextIsLeast
      <3>3. PICK d \in Nat, c \in Windows!StartTimes(p) :
              Windows!Matches(p, d) /\ n = d * DayTicks + c
        BY <1>1, <3>2, WalkedIs
      <3>4. n >= p.starts
        BY <1>1, <3>2, WalkedIs
      <3> HIDE DEF n
      <3>5. d \in DOMAIN WeekdayOf
        <4>1. DayTicks \in Nat \ {0} /\ 0 .. WindowsEnd \div DayTicks \subseteq DOMAIN WeekdayOf
          BY WindowsAssumption DEF Windows!MaintenanceWindowsAssumption
        <4>2. /\ WindowsEnd \div DayTicks \in Nat
              /\ WindowsEnd < (WindowsEnd \div DayTicks) * DayTicks + DayTicks
          BY <1>1, <4>1, QuotientBounds
        <4>3. d * DayTicks <= n
          BY <3>3, StartOfDay
        <4>4. n <= WindowsEnd
          BY <1>1, <3>1, <3>2
        <4>5. d <= WindowsEnd \div DayTicks
          BY <1>1, <3>2, <4>1, <4>2, <4>3, <4>4, DaysInOrder
        <4> QED
          BY <4>1, <4>2, <4>5
      <3>6. n \in Windows!AllStarts(p)
        BY <3>2, <3>3, <3>4, <3>5 DEF Windows!AllStarts, Windows!AllDays
      <3> QED
        BY <1>3, <3>1, <3>6 DEF Windows!Running
    <2>3. ASSUME Windows!Running(p, t) PROVE Windows!OpenAt(p, t)
      <3>1. PICK s \in Windows!AllStarts(p) : s <= t /\ t < s + p.duration
        BY <1>3, <2>3 DEF Windows!Running
      <3>2. s \in Nat /\ s >= p.starts /\ ~Windows!Past(p, s)
        BY StartIs
      <3>3. PICK d \in Nat, c \in Windows!StartTimes(p) :
              Windows!Matches(p, d) /\ s = d * DayTicks + c
        BY StartIs
      <3>4. d <= Windows!WalkFrom(p, t) + DaysAhead - 1
        <4>1. PICK x \in Nat, q \in Nat :
                /\ x = Windows!Max({p.starts, t})
                /\ Windows!WalkFrom(p, t) = q - 1
                /\ q * DayTicks <= x /\ x < q * DayTicks + DayTicks
          BY <1>1, WalkBegins
        <4>2. x = t
          BY <1>1, <3>1, <3>2, <4>1, LaterOf
        <4>3. DaysAhead \in Nat /\ DaysAhead >= 2 /\ DayTicks \in Nat
          BY WindowsAssumption DEF Windows!MaintenanceWindowsAssumption
        <4>4. d * DayTicks <= s
          BY <3>3, StartOfDay
        <4>5. d <= q
          BY <1>1, <3>1, <3>2, <4>1, <4>2, <4>3, <4>4, DaysInOrder
        <4> QED
          BY <4>1, <4>3, <4>5
      <3>5. s \in Windows!Walked(p, t) /\ s + p.duration > t
        BY <1>1, <2>1, <3>1, <3>2, <3>3, <3>4, WalkVisits
      <3>6. n # Absent
        <4> DEFINE stops == {y \in Windows!Walked(p, t) : Windows!Past(p, y) \/ y + p.duration > t}
        <4>1. s \in stops
          BY <3>5
        <4>2. stops \in SUBSET Nat
          BY <1>1, WalkedIs
        <4>3. Windows!Min(stops) \in Nat /\ Windows!Min(stops) <= s
          <5> HIDE DEF stops
          <5> QED
            BY <4>1, <4>2, MinIsLeast
        <4>4. ~Windows!Past(p, Windows!Min(stops))
          <5> HIDE DEF stops
          <5>1. p.recurrence.until \in Nat \cup {Absent}
            BY RunsTypes
          <5> QED
            BY <3>2, <4>3, <5>1 DEF Windows!Past
        <4>5. n = Windows!Min(stops)
          BY <1>3, <4>1, <4>4 DEF Windows!NextStart
        <4> QED
          BY <1>1, <4>3, <4>5
      <3>7. n \in Nat /\ n + p.duration > t /\ n <= s
        BY <1>1, <1>3, <3>5, <3>6, NextIsLeast
      <3> HIDE DEF n
      <3>8. n <= t /\ t < n + p.duration
        BY <1>1, <2>1, <3>1, <3>2, <3>7
      <3> QED
        BY <1>1, <1>3, <3>6, <3>8 DEF Windows!OpenAt, Windows!End, n
    <2> QED
      BY <2>2, <2>3
  <1> QED
    BY <1>2, <1>3

\* Until the next occurrence that was found arrives, the schedule is not running.
LEMMA QuietUntilNext ==
    ASSUME NEW p, Runs(p), Tame(p), NEW t \in Nat, NEW u \in Nat, t <= u,
           Windows!NextStart(p, t) # Absent, ~(Windows!NextStart(p, t) <= u)
    PROVE  ~Windows!Running(p, u)
  <1> DEFINE n == Windows!NextStart(p, t)
  <1>1. CASE p.strategy = "single"
    BY <1>1, RunsTypes DEF Windows!NextStart, Windows!Running
  <1>2. CASE p.strategy # "single"
    <2>1. Windows!ShortRecurring(p) /\ p.duration \in Nat
      BY <1>2, RunsTypes DEF Tame
    <2>2. n \in Windows!Walked(p, t) /\ n \in Nat
      BY <1>2, NextIsLeast
    <2>3. u < n
      BY <2>2
    <2>4. SUFFICES ASSUME NEW s \in Windows!AllStarts(p), s <= u, u < s + p.duration
                   PROVE  FALSE
      BY <1>2 DEF Windows!Running
    <2>5. s \in Nat /\ s >= p.starts
      BY StartIs
    <2>6. PICK d \in Nat, c \in Windows!StartTimes(p) :
            Windows!Matches(p, d) /\ s = d * DayTicks + c
      BY StartIs
    <2>7. PICK e \in Nat, f \in Windows!StartTimes(p) :
            e <= Windows!WalkFrom(p, t) + DaysAhead - 1 /\ n = e * DayTicks + f
      BY <2>2, WalkedIs
    <2> HIDE DEF n
    <2>8. d <= e
      <3>1. d * DayTicks <= s
        BY <2>6, StartOfDay
      <3>2. n < e * DayTicks + DayTicks
        BY <2>7, StartOfDay
      <3>3. DayTicks \in Nat /\ s <= n
        BY <2>2, <2>3, <2>4, <2>5, WindowsAssumption
        DEF Windows!MaintenanceWindowsAssumption
      <3> QED
        BY <2>2, <2>5, <3>1, <3>2, <3>3, DaysInOrder
    <2>9. d <= Windows!WalkFrom(p, t) + DaysAhead - 1
      <3>1. Windows!WalkFrom(p, t) \in Int /\ DaysAhead \in Nat
        BY WalkBegins, WindowsAssumption DEF Windows!MaintenanceWindowsAssumption
      <3> QED
        BY <2>7, <2>8, <3>1
    <2>10. s + p.duration > t
      BY <2>1, <2>4, <2>5
    <2>11. s \in Windows!Walked(p, t)
      BY <2>1, <2>5, <2>6, <2>9, <2>10, WalkVisits
    <2>12. n <= s
      BY <1>2, <2>10, <2>11, NextIsLeast DEF n
    <2> QED
      BY <2>2, <2>3, <2>4, <2>5, <2>12
  <1> QED
    BY <1>1, <1>2

-----------------------------------------------------------------------------
(* What a write stores *)

LEMMA PlanWritten ==
    ASSUME NEW row, RowFits(row), NEW b \in WindowBodies
    PROVE  /\ RowFits(Windows!Written(row, b)) /\ Windows!Written(row, b).next = Absent
           /\ Windows!Written(row, b).plan = Windows!Laid(row.plan, b.plan)
  <1> DEFINE p == Windows!Laid(row.plan, b.plan)
             new == Windows!Written(row, b)
  <1>1. /\ DOMAIN row = {"plan", "suppress", "targets", "pages", "next"}
        /\ PlanFits(row.plan) /\ DOMAIN row.plan = PlanFields
    BY DEF RowFits, PlanFits
  <1>2. /\ DOMAIN p = PlanFields
        /\ \A f \in PlanFields :
             \/ p[f] = row.plan[f]
             \/ f \in DOMAIN b.plan /\ b.plan[f] # Absent /\ p[f] = b.plan[f]
    BY <1>1 DEF Windows!Laid
  <1>3. \A f \in PlanFields : f \in DOMAIN b.plan => Windows!Fits(f, b.plan[f])
    <2>1. PlanFields = DOMAIN Windows!NoPlan
      BY DEF PlanFields, Windows!NoPlan
    <2> QED
      BY <2>1, WindowsAssumption DEF Windows!MaintenanceWindowsAssumption
  <1> HIDE DEF p
  <1>4. p.strategy \in Windows!Strategies \cup {Absent}
    BY <1>1, <1>2, <1>3 DEF PlanFits, PlanFields, Windows!Fits
  <1>5. /\ p.starts \in Windows!Instants /\ p.ends \in Windows!Instants
        /\ p.duration \in Windows!Instants
    BY <1>1, <1>2, <1>3 DEF PlanFits, PlanFields, Windows!Fits
  <1>6. RecurrenceFits(p.recurrence)
    BY <1>1, <1>2, <1>3 DEF PlanFits, PlanFields, Windows!Fits, RecurrenceFits
  <1>7. PlanFits(p)
    BY <1>2, <1>4, <1>5, <1>6 DEF PlanFits
  <1>8. /\ DOMAIN new = DOMAIN row /\ new.plan = p /\ new.next = Absent
    BY <1>1 DEF Windows!Written, p
  <1> QED
    BY <1>1, <1>7, <1>8 DEF RowFits, p

LEMMA NewRowFits == RowFits(Windows!NewRow)
  BY DEF RowFits, PlanFits, PlanFields, RecurrenceFits, Windows!NewRow, Windows!NoPlan,
         Windows!NoRecurrence, Windows!Instants, Windows!CronFits

LEMMA AcceptedRuns ==
    ASSUME NEW row, RowFits(row), NEW t,
           Windows!Accepted(row.plan, row.targets, t)
    PROVE  Runs(row.plan)
  BY WindowsAssumption
  DEF RowFits, PlanFits, Windows!Accepted, Windows!Sound, Runs, Windows!Instants,
      Windows!MaintenanceWindowsAssumption

-----------------------------------------------------------------------------
(* The steps *)

\* The time a row's next occurrence is from lies in the past for good.
LEMMA LaterFits ==
    ASSUME NEW w, WindowFits(w), windowsNow \in Nat, windowsNow' \in Nat,
           windowsNow <= windowsNow', UNCHANGED <<windowRows, windowsRaced>>
    PROVE  WindowFits(w)'
  <1>1. 0 .. windowsNow \subseteq 0 .. windowsNow'
    OBVIOUS
  <1>2. NextIs(windowRows[w]) => NextIs(windowRows[w])'
    BY <1>1 DEF NextIs
  <1> QED
    BY <1>2 DEF WindowFits

\* The rows, the sweep and what it is told are left alone.
LEMMA SweepRests ==
    ASSUME WindowsInv, windowsNow' \in Nat, windowsNow <= windowsNow',
           UNCHANGED <<windowRows, windowsSweep, windowsRaced, matched, sweepQuiet>>
    PROVE  SweepFits'
  <1>1. windowsNow \in Nat
    BY WindowsAssumption DEF WindowsInv, Windows!MaintenanceWindowsAssumption
  <1>2. 0 .. windowsNow \subseteq 0 .. windowsNow'
    BY <1>1
  <1>3. \A w \in WindowIds : CopyTells(w) <=> CopyTells(w)'
    BY DEF CopyTells
  <1>4. \A S : MatchedBy(S) = MatchedBy(S)'
    BY DEF MatchedBy
  <1> QED
    BY <1>2, <1>3, <1>4 DEF SweepFits, WindowsInv

\* ... or its resolution is no longer to be relied on.
LEMMA SweepUnquiet ==
    ASSUME WindowsInv, ~sweepQuiet', UNCHANGED <<windowsNow, windowsSweep>>
    PROVE  SweepFits'
  BY DEF SweepFits, WindowsInv

LEMMA TickStep ==
    ASSUME WindowsInv, Windows!Tick
    PROVE  WindowsInv'
  <1>1. /\ windowsNow \in Nat /\ windowsNow' \in 0 .. WindowsEnd /\ windowsNow' \in Nat
        /\ windowsNow <= windowsNow'
    BY WindowsAssumption DEF WindowsInv, Windows!Tick, Windows!MaintenanceWindowsAssumption
  <1>2. UNCHANGED <<windowRows, windowsReq, windowsSweep, windowsRaced, matched, sweepQuiet,
                    sweepsFailed>>
    BY DEF Windows!Tick
  <1>3. \A w \in WindowIds : WindowFits(w)'
    BY <1>1, <1>2, LaterFits DEF WindowsInv
  <1>4. SweepFits'
    BY <1>1, <1>2, SweepRests
  <1>5. \A r \in WindowWriters : WriteFits(windowsReq[r])'
    BY <1>2 DEF WindowsInv, WriteFits
  <1> QED
    BY <1>1, <1>2, <1>3, <1>4, <1>5 DEF WindowsInv

LEMMA WriteBegins ==
    ASSUME WindowsInv, NEW r \in WindowWriters, NEW w \in WindowIds,
           Windows!Create(r, w) \/ Windows!Load(r, w)
    PROVE  WindowsInv'
  <1>1. PICK row, fresh : RowFits(row) /\ Windows!Begin(r, w, row, fresh)
    <2>1. CASE Windows!Create(r, w)
      <3>1. Windows!Begin(r, w, Windows!NewRow, TRUE)
        BY <2>1 DEF Windows!Create
      <3> QED
        BY <3>1, NewRowFits
    <2>2. CASE Windows!Load(r, w)
      <3>1. windowRows[w] # Absent /\ Windows!Begin(r, w, windowRows[w], FALSE)
        BY <2>2 DEF Windows!Load
      <3>2. RowFits(windowRows[w])
        BY <3>1 DEF WindowsInv, WindowFits
      <3> QED
        BY <3>1, <3>2
    <2> QED
      BY <2>1, <2>2
  <1>2. PICK b \in WindowBodies :
          windowsReq' = [windowsReq EXCEPT ![r] =
            [at |-> "loaded", w |-> w, row |-> row, body |-> b, fresh |-> fresh]]
    BY <1>1 DEF Windows!Begin
  <1>3. UNCHANGED <<windowsNow, windowRows, windowsSweep, windowsRaced, matched, sweepQuiet,
                    sweepsFailed>>
    BY <1>1 DEF Windows!Begin
  <1>4. DOMAIN windowsReq' = WindowWriters /\ \A q \in WindowWriters : WriteFits(windowsReq[q])'
    <2>1. WriteFits([at |-> "loaded", w |-> w, row |-> row, body |-> b, fresh |-> fresh])
      BY <1>1 DEF WriteFits
    <2> QED
      BY <1>2, <2>1 DEF WindowsInv
  <1>5. windowsNow \in Nat
    BY WindowsAssumption DEF WindowsInv, Windows!MaintenanceWindowsAssumption
  <1>6. \A v \in WindowIds : WindowFits(v)'
    BY <1>3, <1>5, LaterFits DEF WindowsInv
  <1>7. SweepFits'
    BY <1>3, <1>5, SweepRests
  <1> QED
    BY <1>3, <1>4, <1>6, <1>7 DEF WindowsInv

LEMMA ValidateStep ==
    ASSUME WindowsInv, NEW r \in WindowWriters, Windows!Validate(r)
    PROVE  WindowsInv'
  <1> DEFINE new == Windows!Written(windowsReq[r].row, windowsReq[r].body)
             checked == [windowsReq[r] EXCEPT !.at = "checked", !.row = new]
  <1>1. WriteFits(windowsReq[r]) /\ windowsReq[r].at = "loaded" /\ r \in DOMAIN windowsReq
    BY DEF WindowsInv, Windows!Validate
  <1>2. RowFits(new) /\ new.next = Absent
    BY <1>1, PlanWritten DEF WriteFits
  <1>3. UNCHANGED <<windowsNow, windowRows, windowsSweep, windowsRaced, matched, sweepQuiet,
                    sweepsFailed>>
    BY DEF Windows!Validate
  <1>4. /\ DOMAIN windowsReq' = DOMAIN windowsReq
        /\ \A q \in WindowWriters : q # r => windowsReq'[q] = windowsReq[q]
        /\ \/ windowsReq'[r] = Windows!IdleRequest
           \/ /\ Windows!Accepted(new.plan, new.targets, windowsNow)
              /\ windowsReq'[r] = checked
    BY <1>1 DEF Windows!Validate, WindowsInv
  <1>5. WriteFits(Windows!IdleRequest)
    BY DEF WriteFits, Windows!IdleRequest
  <1>6. Windows!Accepted(new.plan, new.targets, windowsNow) => WriteFits(checked)
    <2>1. SUFFICES ASSUME Windows!Accepted(new.plan, new.targets, windowsNow)
                   PROVE  WriteFits(checked)
      OBVIOUS
    <2>2. Runs(new.plan)
      BY <1>2, <2>1, AcceptedRuns
    <2> HIDE DEF new
    <2> QED
      BY <1>1, <1>2, <2>2 DEF WriteFits
  <1> HIDE DEF new, checked
  <1>7. DOMAIN windowsReq' = WindowWriters /\ \A q \in WindowWriters : WriteFits(windowsReq[q])'
    BY <1>4, <1>5, <1>6 DEF WindowsInv
  <1>8. windowsNow \in Nat
    BY WindowsAssumption DEF WindowsInv, Windows!MaintenanceWindowsAssumption
  <1>9. \A v \in WindowIds : WindowFits(v)'
    BY <1>3, <1>8, LaterFits DEF WindowsInv
  <1>10. SweepFits'
    BY <1>3, <1>8, SweepRests
  <1> QED
    BY <1>3, <1>7, <1>9, <1>10 DEF WindowsInv

LEMMA WriteStep ==
    ASSUME WindowsInv, NEW r \in WindowWriters, Windows!Write(r)
    PROVE  WindowsInv'
  <1> DEFINE w == windowsReq[r].w
             row == windowsReq[r].row
  <1>1. /\ w \in WindowIds /\ RowFits(row) /\ Runs(row.plan) /\ row.next = Absent
        /\ r \in DOMAIN windowsReq
    BY DEF WindowsInv, WriteFits, Windows!Write
  <1>2. /\ windowRows' = windowRows \/ windowRows' = [windowRows EXCEPT ![w] = row]
        /\ windowRows[w] = Absent \/ windowRows' = [windowRows EXCEPT ![w] = row]
        /\ windowsReq' = [windowsReq EXCEPT ![r] = Windows!IdleRequest]
        /\ windowsRaced' = windowsRaced \ {w} /\ sweepQuiet' = FALSE
        /\ UNCHANGED <<windowsNow, windowsSweep, sweepsFailed>>
    BY DEF Windows!Write
  <1> HIDE DEF w, row
  <1>3. \A v \in WindowIds : WindowFits(v)'
    <2>1. SUFFICES ASSUME NEW v \in WindowIds PROVE WindowFits(v)'
      OBVIOUS
    <2>2. CASE v = w
      <3>1. \/ windowRows'[v] = Absent
            \/ windowRows'[v] = row
        BY <1>1, <1>2, <2>2 DEF WindowsInv
      <3> QED
        BY <1>1, <3>1 DEF WindowFits, NextIs
    <2>3. CASE v # w
      <3>1. windowRows'[v] = windowRows[v] /\ (v \in windowsRaced' <=> v \in windowsRaced)
        BY <1>1, <1>2, <2>3 DEF WindowsInv
      <3> QED
        BY <1>2, <3>1 DEF WindowsInv, WindowFits, NextIs
    <2> QED
      BY <2>2, <2>3
  <1>4. SweepFits'
    BY <1>2, SweepUnquiet
  <1>5. DOMAIN windowsReq' = WindowWriters /\ \A q \in WindowWriters : WriteFits(windowsReq[q])'
    BY <1>2 DEF WindowsInv, WriteFits, Windows!IdleRequest
  <1> QED
    BY <1>1, <1>2, <1>3, <1>4, <1>5 DEF WindowsInv

\* A window is deleted, or what a target matches changes.
LEMMA EstateStep ==
    ASSUME WindowsInv,
           \/ \E w \in WindowIds : Windows!Delete(w)
           \/ \E t \in WindowTargets : Windows!DropTarget(t) \/ \E m \in Silenceable : Windows!Move(t, m)
    PROVE  WindowsInv'
  <1>1. /\ \/ windowRows' = windowRows
           \/ \E w \in WindowIds : windowRows' = [windowRows EXCEPT ![w] = Absent]
        /\ sweepQuiet' = FALSE
        /\ UNCHANGED <<windowsNow, windowsReq, windowsSweep, windowsRaced, sweepsFailed>>
    BY DEF Windows!Delete, Windows!DropTarget, Windows!Move
  <1>2. /\ DOMAIN windowRows' = WindowIds
        /\ \A v \in WindowIds : windowRows'[v] = windowRows[v] \/ windowRows'[v] = Absent
    BY <1>1 DEF WindowsInv
  <1>3. \A v \in WindowIds : WindowFits(v)'
    BY <1>1, <1>2 DEF WindowsInv, WindowFits, NextIs
  <1>4. SweepFits'
    BY <1>1, SweepUnquiet
  <1>5. \A q \in WindowWriters : WriteFits(windowsReq[q])'
    BY <1>1 DEF WindowsInv, WriteFits
  <1> QED
    BY <1>1, <1>2, <1>3, <1>4, <1>5 DEF WindowsInv

LEMMA SweepBeginsStep ==
    ASSUME WindowsInv, Windows!SweepBegins
    PROVE  WindowsInv'
  <1> DEFINE due == {w \in WindowIds : windowRows[w] # Absent
                                       /\ Windows!Due(windowRows[w], windowsNow)}
             copy == [w \in WindowIds |-> IF w \in due THEN windowRows[w] ELSE Absent]
  <1>1. /\ windowsSweep' = [Windows!IdleSweep EXCEPT !.at = "next", !.time = windowsNow,
                              !.todo = due, !.copy = copy]
        /\ sweepQuiet' = TRUE
        /\ UNCHANGED <<windowsNow, windowsReq, windowRows, windowsRaced, sweepsFailed>>
    BY DEF Windows!SweepBegins, Windows!SweepRest
  <1>2. windowsNow \in Nat /\ windowsNow \in 0 .. WindowsEnd /\ windowsNow \in 0 .. windowsNow
    BY WindowsAssumption DEF WindowsInv, Windows!MaintenanceWindowsAssumption
  <1>3. /\ windowsSweep'.at = "next" /\ windowsSweep'.time = windowsNow
        /\ windowsSweep'.todo = due /\ windowsSweep'.copy = copy
        /\ windowsSweep'.active = {}
        /\ DOMAIN windowsSweep' = {"at", "time", "todo", "copy", "active", "under"}
    BY <1>1 DEF Windows!IdleSweep
  <1>4. \A w \in WindowIds : copy[w] # Absent => w \in due /\ copy[w] = windowRows[w]
    OBVIOUS
  <1>5. \A w \in due : copy[w] # Absent
    OBVIOUS
  <1>6. ASSUME NEW w \in WindowIds PROVE CopyTells(w)'
    <2>1. CASE copy[w] # Absent
      BY <1>1, <1>3, <1>4, <2>1 DEF CopyTells
    <2>2. CASE copy[w] = Absent
      <3>1. SUFFICES ASSUME windowRows[w] # Absent, w \notin windowsRaced, Tame(windowRows[w].plan)
                     PROVE  ~Windows!Running(windowRows[w].plan, windowsNow)
        BY <1>1, <1>3, <2>2 DEF CopyTells
      <3>2. /\ windowRows[w].next # Absent /\ ~(windowRows[w].next <= windowsNow)
        BY <1>5, <2>2, <3>1 DEF Windows!Due
      <3>3. Runs(windowRows[w].plan) /\ NextIs(windowRows[w])
        BY <3>1 DEF WindowsInv, WindowFits
      <3>4. PICK t \in 0 .. windowsNow :
              windowRows[w].next = Windows!NextStart(windowRows[w].plan, t)
        BY <3>2, <3>3 DEF NextIs
      <3>5. t \in Nat /\ t <= windowsNow
        BY <1>2, <3>4
      <3> QED
        BY <1>2, <3>1, <3>2, <3>3, <3>4, <3>5, QuietUntilNext
    <2> QED
      BY <2>1, <2>2
  <1>7. \A w \in WindowIds : copy[w] # Absent => Runs(copy[w].plan)
    BY <1>4 DEF WindowsInv, WindowFits
  <1>8. due = {w \in WindowIds : copy[w] # Absent}
    BY <1>4, <1>5
  <1> HIDE DEF due, copy
  <1>9. SweepFits'
    BY <1>1, <1>2, <1>3, <1>6, <1>7, <1>8 DEF SweepFits
  <1>10. \A w \in WindowIds : WindowFits(w)'
    BY <1>1, <1>2, LaterFits DEF WindowsInv
  <1>11. \A q \in WindowWriters : WriteFits(windowsReq[q])'
    BY <1>1 DEF WindowsInv, WriteFits
  <1> QED
    BY <1>1, <1>2, <1>9, <1>10, <1>11 DEF WindowsInv

LEMMA SweepWindowStep ==
    ASSUME WindowsInv, NEW w \in WindowIds, Windows!SweepWindow(w)
    PROVE  WindowsInv'
  <1> DEFINE p == windowsSweep.copy[w].plan
             t == windowsSweep.time
             next == Windows!NextStart(p, t)
  <1>1. /\ windowsSweep.at = "next" /\ w \in windowsSweep.todo
        /\ windowsSweep.copy[w] # Absent /\ Runs(p) /\ t \in 0 .. windowsNow
        /\ ~Windows!Unusable(p)
    BY DEF WindowsInv, SweepFits, Windows!SweepWindow, Runs
  <1>2. /\ windowRows' = IF windowRows[w] = Absent THEN windowRows
                         ELSE [windowRows EXCEPT ![w].next = next]
        /\ windowsRaced' = IF windowRows[w] # Absent /\ windowRows[w].plan # p
                           THEN windowsRaced \cup {w} ELSE windowsRaced \ {w}
        /\ UNCHANGED <<windowsNow, windowsReq, sweepQuiet, sweepsFailed>>
    BY <1>1 DEF Windows!SweepWindow, Windows!SweepRest
  <1>3. windowsSweep' = [windowsSweep EXCEPT !.todo = @ \ {w},
                           !.active = IF Windows!OpenAt(p, t) /\ windowsSweep.copy[w].suppress
                                      THEN @ \cup {w} ELSE @]
    BY DEF Windows!SweepWindow
  <1>4. /\ DOMAIN windowsSweep' = DOMAIN windowsSweep /\ windowsSweep'.at = "next"
        /\ windowsSweep'.time = t /\ windowsSweep'.copy = windowsSweep.copy
        /\ windowsSweep'.todo = windowsSweep.todo \ {w}
        /\ windowsSweep'.active =
             IF Windows!OpenAt(p, t) /\ windowsSweep.copy[w].suppress
             THEN windowsSweep.active \cup {w} ELSE windowsSweep.active
    BY <1>1, <1>3 DEF WindowsInv, SweepFits
  <1> HIDE DEF next
  <1>5. /\ DOMAIN windowRows' = WindowIds
        /\ \A v \in WindowIds : v # w => windowRows'[v] = windowRows[v]
        /\ windowRows'[w] = Absent \/ windowRows[w] # Absent
        /\ windowRows[w] = Absent => windowRows'[w] = Absent
        /\ windowRows[w] # Absent => windowRows'[w] = [windowRows[w] EXCEPT !.next = next]
    BY <1>2 DEF WindowsInv
  <1>6. windowRows[w] # Absent =>
          /\ RowFits(windowRows[w]) /\ Runs(windowRows[w].plan) /\ RowFits(windowRows'[w])
          /\ windowRows'[w].plan = windowRows[w].plan /\ windowRows'[w].next = next
          /\ windowRows'[w].suppress = windowRows[w].suppress
    <2>1. SUFFICES ASSUME windowRows[w] # Absent
                   PROVE  /\ RowFits(windowRows[w]) /\ Runs(windowRows[w].plan)
                          /\ RowFits(windowRows'[w])
                          /\ windowRows'[w].plan = windowRows[w].plan
                          /\ windowRows'[w].next = next
                          /\ windowRows'[w].suppress = windowRows[w].suppress
      OBVIOUS
    <2>2. RowFits(windowRows[w]) /\ Runs(windowRows[w].plan)
      BY <2>1 DEF WindowsInv, WindowFits
    <2> QED
      BY <1>5, <2>1, <2>2 DEF RowFits
  <1>7. ASSUME NEW v \in WindowIds PROVE WindowFits(v)'
    <2>1. CASE v = w
      <3>1. CASE windowRows[w] = Absent
        BY <1>5, <2>1, <3>1 DEF WindowFits
      <3>2. CASE windowRows[w] # Absent
        <4>1. w \notin windowsRaced' => windowRows'[w].plan = p
          BY <1>2, <1>6, <3>2
        <4>2. w \notin windowsRaced' => NextIs(windowRows[w])'
          BY <1>1, <1>2, <1>6, <3>2, <4>1 DEF NextIs, next
        <4> QED
          BY <1>6, <2>1, <3>2, <4>2 DEF WindowFits
      <3> QED
        BY <3>1, <3>2
    <2>2. CASE v # w
      <3>1. windowRows'[v] = windowRows[v] /\ (v \in windowsRaced' <=> v \in windowsRaced)
        BY <1>2, <1>5, <2>2
      <3> QED
        BY <1>2, <3>1 DEF WindowsInv, WindowFits, NextIs
    <2> QED
      BY <2>1, <2>2
  <1>8. ASSUME sweepQuiet, NEW v \in WindowIds PROVE CopyTells(v)'
    <2>1. CopyTells(v)
      BY <1>1, <1>8 DEF WindowsInv, SweepFits
    <2>2. CASE v = w
      BY <1>1, <1>4, <1>5, <1>6, <2>1, <2>2 DEF CopyTells
    <2>3. CASE v # w
      <3>1. windowRows'[v] = windowRows[v] /\ (v \in windowsRaced' <=> v \in windowsRaced)
        BY <1>2, <1>5, <2>3
      <3> QED
        BY <1>4, <2>1, <3>1 DEF CopyTells
    <2> QED
      BY <2>2, <2>3
  <1>9. windowsSweep'.active =
          {v \in WindowIds :
             /\ windowsSweep.copy[v] # Absent /\ v \notin windowsSweep'.todo
             /\ Windows!OpenAt(windowsSweep.copy[v].plan, t)
             /\ windowsSweep.copy[v].suppress}
    <2>1. windowsSweep.active =
          {v \in WindowIds :
             /\ windowsSweep.copy[v] # Absent /\ v \notin windowsSweep.todo
             /\ Windows!OpenAt(windowsSweep.copy[v].plan, t)
             /\ windowsSweep.copy[v].suppress}
      BY <1>1 DEF WindowsInv, SweepFits
    <2> QED
      BY <1>1, <1>4, <2>1
  <1>10. SweepFits'
    <2>1. /\ windowsSweep.todo \subseteq {v \in WindowIds : windowsSweep.copy[v] # Absent}
          /\ \A v \in WindowIds : windowsSweep.copy[v] # Absent => Runs(windowsSweep.copy[v].plan)
          /\ DOMAIN windowsSweep = {"at", "time", "todo", "copy", "active", "under"}
      BY <1>1 DEF WindowsInv, SweepFits
    <2>2. windowsSweep'.todo \subseteq {v \in WindowIds : windowsSweep'.copy[v] # Absent}
      BY <1>4, <2>1
    <2> HIDE DEF p, t
    <2> QED
      BY <1>1, <1>2, <1>4, <1>8, <1>9, <2>1, <2>2 DEF SweepFits, t
  <1>11. \A q \in WindowWriters : WriteFits(windowsReq[q])'
    BY <1>2 DEF WindowsInv, WriteFits
  <1> QED
    BY <1>2, <1>5, <1>7, <1>10, <1>11 DEF WindowsInv

LEMMA SweepResolvesStep ==
    ASSUME WindowsInv, Windows!SweepResolves
    PROVE  WindowsInv'
  <1>1. /\ windowsSweep.at = "next" /\ windowsSweep.todo = {}
        /\ windowsSweep' = [windowsSweep EXCEPT !.at = "apply",
             !.under = MatchedBy({w \in windowsSweep.active : windowRows[w] # Absent})]
        /\ UNCHANGED <<windowsNow, windowsReq, windowRows, matched, windowsRaced, sweepQuiet,
                       sweepsFailed>>
    BY DEF Windows!SweepResolves, Windows!SweepRest, MatchedBy
  <1>2. /\ windowsSweep'.at = "apply" /\ DOMAIN windowsSweep' = DOMAIN windowsSweep
        /\ windowsSweep'.time = windowsSweep.time /\ windowsSweep'.copy = windowsSweep.copy
        /\ windowsSweep'.todo = {} /\ windowsSweep'.active = windowsSweep.active
        /\ windowsSweep'.under = MatchedBy({w \in windowsSweep.active : windowRows[w] # Absent})
    BY <1>1 DEF WindowsInv, SweepFits
  <1>3. \A v \in WindowIds : CopyTells(v) => CopyTells(v)'
    BY <1>1, <1>2 DEF CopyTells
  <1>4. \A S : MatchedBy(S) = MatchedBy(S)'
    BY <1>1 DEF MatchedBy
  <1>5. SweepFits'
    BY <1>1, <1>2, <1>3, <1>4 DEF WindowsInv, SweepFits
  <1>6. windowsNow \in Nat
    BY WindowsAssumption DEF WindowsInv, Windows!MaintenanceWindowsAssumption
  <1>7. \A v \in WindowIds : WindowFits(v)'
    BY <1>1, <1>6, LaterFits DEF WindowsInv
  <1>8. \A q \in WindowWriters : WriteFits(windowsReq[q])'
    BY <1>1 DEF WindowsInv, WriteFits
  <1> QED
    BY <1>1, <1>5, <1>7, <1>8 DEF WindowsInv

LEMMA SweepEndsStep ==
    ASSUME WindowsInv, Windows!SweepApplies \/ Windows!SweepFails
    PROVE  WindowsInv'
  <1>1. /\ windowsSweep' = Windows!IdleSweep
        /\ sweepsFailed' \in Nat
        /\ UNCHANGED <<windowsNow, windowsReq, windowRows, windowsRaced, sweepQuiet>>
    BY DEF WindowsInv, Windows!SweepApplies, Windows!SweepFails, Windows!SweepRest
  <1>2. SweepFits'
    BY <1>1 DEF SweepFits, Windows!IdleSweep
  <1>3. windowsNow \in Nat
    BY WindowsAssumption DEF WindowsInv, Windows!MaintenanceWindowsAssumption
  <1>4. \A v \in WindowIds : WindowFits(v)'
    BY <1>1, <1>3, LaterFits DEF WindowsInv
  <1>5. \A q \in WindowWriters : WriteFits(windowsReq[q])'
    BY <1>1 DEF WindowsInv, WriteFits
  <1> QED
    BY <1>1, <1>2, <1>4, <1>5 DEF WindowsInv

LEMMA WindowsInit == Windows!Init => WindowsInv
  <1>1. SUFFICES ASSUME Windows!Init PROVE WindowsInv
    OBVIOUS
  <1>2. 0 \in 0 .. WindowsEnd
    BY WindowsAssumption DEF Windows!MaintenanceWindowsAssumption
  <1>3. \A w \in WindowIds : WindowFits(w)
    BY <1>1 DEF Windows!Init, WindowFits
  <1>4. \A r \in WindowWriters : WriteFits(windowsReq[r])
    BY <1>1 DEF Windows!Init, Windows!IdleRequest, WriteFits
  <1>5. SweepFits
    BY <1>1 DEF Windows!Init, Windows!IdleSweep, SweepFits
  <1> QED
    BY <1>1, <1>2, <1>3, <1>4, <1>5 DEF Windows!Init, WindowsInv

LEMMA WindowsSteps == WindowsInv /\ [Windows!Next]_Windows!vars => WindowsInv'
  <1>1. SUFFICES ASSUME WindowsInv, [Windows!Next]_Windows!vars PROVE WindowsInv'
    OBVIOUS
  <1>2. CASE UNCHANGED Windows!vars
    <2>1. UNCHANGED <<windowsNow, windowRows, matched, windowsReq, windowsSweep, windowsRaced,
                      sweepQuiet, sweepsFailed>>
      BY <1>2 DEF Windows!vars
    <2>2. windowsNow \in Nat
      BY <1>1, WindowsAssumption DEF WindowsInv, Windows!MaintenanceWindowsAssumption
    <2>3. \A w \in WindowIds : WindowFits(w)'
      BY <1>1, <2>1, <2>2, LaterFits DEF WindowsInv
    <2>4. SweepFits'
      BY <1>1, <2>1, <2>2, SweepRests
    <2>5. \A r \in WindowWriters : WriteFits(windowsReq[r])'
      BY <1>1, <2>1 DEF WindowsInv, WriteFits
    <2> QED
      BY <1>1, <2>1, <2>3, <2>4, <2>5 DEF WindowsInv
  <1>3. CASE Windows!Tick
    BY <1>1, <1>3, TickStep
  <1>4. ASSUME NEW r \in WindowWriters, NEW w \in WindowIds, Windows!Create(r, w) \/ Windows!Load(r, w)
        PROVE  WindowsInv'
    BY <1>1, <1>4, WriteBegins
  <1>5. ASSUME NEW r \in WindowWriters, Windows!Validate(r) PROVE WindowsInv'
    BY <1>1, <1>5, ValidateStep
  <1>6. ASSUME NEW r \in WindowWriters, Windows!Write(r) PROVE WindowsInv'
    BY <1>1, <1>6, WriteStep
  <1>7. CASE \/ \E w \in WindowIds : Windows!Delete(w)
             \/ \E t \in WindowTargets :
                  Windows!DropTarget(t) \/ \E m \in Silenceable : Windows!Move(t, m)
    BY <1>1, <1>7, EstateStep
  <1>8. ASSUME NEW w \in WindowIds, Windows!SweepWindow(w) PROVE WindowsInv'
    BY <1>1, <1>8, SweepWindowStep
  <1>9. CASE Windows!SweepBegins
    BY <1>1, <1>9, SweepBeginsStep
  <1>10. CASE Windows!SweepResolves
    BY <1>1, <1>10, SweepResolvesStep
  <1>11. CASE Windows!SweepApplies \/ Windows!SweepFails
    BY <1>1, <1>11, SweepEndsStep
  <1> QED
    BY <1>1, <1>2, <1>3, <1>4, <1>5, <1>6, <1>7, <1>8, <1>9, <1>10, <1>11 DEF Windows!Next

\* The next occurrence a window stores is what its schedule said at some time,
\* and the copy a sweep goes by is of a schedule that the evaluator takes,
\* whatever writes, moves and deletions cross (sweep.go, maintenance.go).
THEOREM WindowsSound == Windows!Spec => []WindowsInv
  BY WindowsInit, WindowsSteps, PTL DEF Windows!Spec

\* A window that is stored has a schedule the evaluator takes, whatever mixture
\* of an old row and a partial body it came from: a sweep never meets one that it
\* has to leave as it is (the comment in sweep.go, "validation refuses these at
\* the API").
THEOREM StoredSchedulesRun == Windows!Spec => []Windows!StoredPlansRun
  <1>1. WindowsInv => Windows!StoredPlansRun
    BY DEF WindowsInv, WindowFits, Runs, Windows!StoredPlansRun
  <1> QED
    BY <1>1, WindowsSound, PTL

\* A sweep that nothing overlapped leaves under maintenance exactly the monitors
\* matched by the suppressing windows whose schedule was running when it began,
\* though it looked only at those whose stored next occurrence had arrived
\* (sweep.go, DueMaintenanceWindows, schedule.go).
THEOREM SweepsFollowSchedules == Windows!Spec => SuppressionFollowsSchedules
  <1> DEFINE open == {w \in WindowIds : /\ windowRows[w] # Absent /\ windowRows[w].suppress
                                        /\ Windows!Running(windowRows[w].plan, windowsSweep.time)}
  <1>1. WindowsInv /\ [Windows!Next]_Windows!vars => [Windows!Follows]_Windows!vars
    <2>1. SUFFICES ASSUME WindowsInv, Windows!Next,
                          windowsSweep.at = "apply", windowsSweep'.at = "idle",
                          sweepsFailed' = sweepsFailed, sweepQuiet,
                          \A w \in WindowIds : windowRows[w] # Absent => Windows!Settled(w)
                   PROVE  silenced' = MatchedBy(open)
      BY DEF Windows!Follows, Windows!ToBeSilenced, MatchedBy
    <2>2. Windows!SweepApplies
      <3>1. windowsSweep' # windowsSweep
        BY <2>1
      <3>2. ~Windows!SweepFails
        <4>1. sweepsFailed \in Nat
          BY <2>1 DEF WindowsInv
        <4>2. Windows!SweepFails => sweepsFailed' = sweepsFailed + 1
          BY DEF Windows!SweepFails
        <4>3. sweepsFailed + 1 # sweepsFailed
          BY <4>1
        <4> QED
          BY <2>1, <4>2, <4>3
      <3>3. ~Windows!SweepBegins /\ ~Windows!SweepResolves
            /\ \A w \in WindowIds : ~Windows!SweepWindow(w)
        BY <2>1 DEF Windows!SweepBegins, Windows!SweepResolves, Windows!SweepWindow
      <3>4. /\ ~Windows!Tick
            /\ \A r \in WindowWriters :
                 /\ ~Windows!Validate(r) /\ ~Windows!Write(r)
                 /\ \A w \in WindowIds : ~Windows!Create(r, w) /\ ~Windows!Load(r, w)
            /\ \A w \in WindowIds : ~Windows!Delete(w)
            /\ \A t \in WindowTargets :
                 ~Windows!DropTarget(t) /\ \A m \in Silenceable : ~Windows!Move(t, m)
        BY <3>1 DEF Windows!Tick, Windows!Validate, Windows!Write, Windows!Create, Windows!Load,
                    Windows!Begin, Windows!Delete, Windows!DropTarget, Windows!Move
      <3> QED
        BY <2>1, <3>2, <3>3, <3>4 DEF Windows!Next
    <2>3. /\ silenced' = windowsSweep.under
          /\ windowsSweep.under = MatchedBy({w \in windowsSweep.active : windowRows[w] # Absent})
      BY <2>1, <2>2 DEF Windows!SweepApplies, WindowsInv, SweepFits
    <2>4. /\ windowsSweep.time \in 0 .. windowsNow /\ windowsNow \in 0 .. WindowsEnd
          /\ windowsSweep.time \in 0 .. WindowsEnd
      BY <2>1, WindowsAssumption DEF WindowsInv, SweepFits, Windows!MaintenanceWindowsAssumption
    <2>5. ASSUME NEW w \in WindowIds
          PROVE  (w \in windowsSweep.active /\ windowRows[w] # Absent) <=> w \in open
      <3>1. CopyTells(w)
        BY <2>1 DEF WindowsInv, SweepFits
      <3>2. w \in windowsSweep.active <=>
              /\ windowsSweep.copy[w] # Absent
              /\ Windows!OpenAt(windowsSweep.copy[w].plan, windowsSweep.time)
              /\ windowsSweep.copy[w].suppress
        BY <2>1 DEF WindowsInv, SweepFits
      <3>3. windowRows[w] # Absent =>
              Runs(windowRows[w].plan) /\ Tame(windowRows[w].plan) /\ w \notin windowsRaced
        BY <2>1 DEF WindowsInv, WindowFits, Tame, Windows!Settled
      <3>4. windowRows[w] # Absent =>
              (Windows!OpenAt(windowRows[w].plan, windowsSweep.time)
               <=> Windows!Running(windowRows[w].plan, windowsSweep.time))
        BY <2>4, <3>3, OpenIsRunning
      <3> QED
        BY <3>1, <3>2, <3>3, <3>4 DEF CopyTells
    <2>6. windowsSweep.active \subseteq WindowIds
      BY <2>1 DEF WindowsInv, SweepFits
    <2>7. {w \in windowsSweep.active : windowRows[w] # Absent} = open
      BY <2>5, <2>6
    <2> QED
      BY <2>3, <2>7
  <1> QED
    BY <1>1, WindowsSound, PTL
    DEF Windows!Spec, SuppressionFollowsSchedules, Windows!SuppressionFollowsSchedules

-----------------------------------------------------------------------------
(* What an import reports *)

\* A sequence, of whatever.
IsSeq(s) == \E S : s \in Seq(S)

PassFields == {"job", "opts", "files", "todo", "ids", "entries", "table", "result",
               "expired", "failed"}

ImportPlan == Import!Plan(kumaPass.files, kumaPass.opts)

\* The pass has been at the item.
Gone(i) == i \in ImportPlan \ kumaPass.todo

\* What is left to do is the end of the plan.
TodoIsRest ==
    /\ kumaPass.todo \subseteq ImportPlan
    /\ \A i \in kumaPass.todo, j \in ImportPlan : Import!Before(i, j) => j \in kumaPass.todo

\* A row of a file has its entry, or its item is ahead, or its file will not open.
RowsAreOwed ==
    kumaPass.failed \/
      \A f \in DOMAIN kumaPass.files, step \in DOMAIN Import!Table :
        \A r \in DOMAIN kumaPass.files[f][Import!Table[step]] :
          \/ \E e \in Import!Reported : e.step = step /\ e.file = f /\ e.row = r
          \/ \E i \in kumaPass.todo :
                /\ Import!StepOf(i.step) = step /\ i.file = f /\ i.row = r
          \/ /\ ~kumaPass.files[f].opens
             /\ Import!Item("open", f, 0, 0, 0) \in kumaPass.todo

\* The entry of the row's own item, whose result is as good as the row.
HasEntry(row) ==
    \E e \in Import!Reported : e.step = Import!StepOf(row.kind) /\ Import!Of(e, row.from)
                               /\ e.result \in Import!Succeeded

\* A tag whose variants are under way: the entry of row r of file f is ahead.
TagAhead(f, r) == \E i \in kumaPass.todo : i.step = "tag" /\ i.file = f /\ i.row = r

\* A row the pass wrote comes from an item that it has been at, and is in the
\* report or will be.
WrittenRow(row) ==
    /\ ~kumaPass.opts.dry /\ Gone(row.from)
    /\ IF row.kind = "tag"
       THEN row.from.step = "variant" /\ (TagAhead(row.from.file, row.from.row) \/ HasEntry(row))
       ELSE HasEntry(row)

RowsThere == {kumaRows[id] : id \in Import!There}
WrittenRows == \A row \in RowsThere : row.job = kumaPass.job => WrittenRow(row)

\* A tag is reported as skipped when it has one value, and that was there.
SkippedTag ==
    (kumaPass.result = "skipped" /\ kumaPass.todo # {}) =>
      /\ Import!Now.step = "tag"
      /\ \A row \in RowsThere :
            (row.job = kumaPass.job /\ row.kind = "tag") => ~Import!Of(Import!Now, row.from)

\* A variant that the pass has been at has an id, or an entry that says it failed.
VariantCame(v) ==
    \/ <<v.row, kumaPass.files[v.file].tags[v.row].values[v.place]>> \in DOMAIN kumaPass.ids["tag"]
    \/ \E x \in Import!Reported : x.step = "tag" /\ Import!Of(x, v) /\ x.result = "failed"

VariantsCame ==
    \A v \in ImportPlan \ kumaPass.todo :
      v.step = "variant" /\ TagAhead(v.file, v.row) => VariantCame(v)

\* An entry of something written points at it.
EntryPoints(e) ==
    (e.result \in Import!Succeeded /\ ~kumaPass.opts.dry /\ e.step # "history") =>
      IF e.target = Absent
        THEN e.step = "tag" /\ \E x \in Import!Reported : x.step = "tag" /\ Import!Of(x, e)
                                                          /\ x.result = "failed"
        ELSE \/ e.step = "tag"
             \/ /\ e.target \in DOMAIN kumaRows
                /\ kumaRows[e.target] = Absent \/ Import!Of(e, kumaRows[e.target].from)

\* The tables of ids: numbers of rows.
IdsAreNumbers ==
    /\ DOMAIN kumaPass.ids = {"tag", "channel", "group", "monitor"}
    /\ DOMAIN kumaPass.table = {"tag", "channel", "group", "monitor"}
    /\ \A x \in DOMAIN kumaPass.ids["tag"] : kumaPass.ids["tag"][x] \in Nat
    /\ \A n \in DOMAIN kumaPass.table["tag"] : kumaPass.table["tag"][n] \in Nat

PassFits ==
    /\ DOMAIN kumaPass = PassFields
    /\ kumaPass.files \in KumaUploads
    /\ kumaPass.result \in {"imported", "renamed", "skipped"}
    /\ IsSeq(kumaPass.entries) /\ IdsAreNumbers
    /\ kumaRunning
    /\ kumaPass.job = Len(kumaJobs) /\ kumaPass.job # 0
    /\ kumaJobs[Len(kumaJobs)].state # "queued"

PassInv ==
    kumaPass # Absent =>
      /\ PassFits /\ TodoIsRest /\ RowsAreOwed /\ WrittenRows /\ SkippedTag /\ VariantsCame
      /\ \A e \in Import!Reported : EntryPoints(e)

\* The inductive invariant: the pass, and that rows bear the numbers of jobs
\* that have begun.
ImportInv ==
    /\ IsSeq(kumaRows) /\ IsSeq(kumaJobs)
    /\ \A j \in DOMAIN kumaJobs :
          /\ DOMAIN kumaJobs[j] = {"state", "entries", "opts", "files"}
          /\ kumaJobs[j].files \in KumaUploads
    /\ \A id \in Import!There :
          /\ DOMAIN kumaRows[id] = Import!RowFields
          /\ kumaRows[id].job \in Nat /\ kumaRows[id].job <= Len(kumaJobs)
    /\ (kumaJobs # <<>> /\ kumaJobs[Len(kumaJobs)].state = "queued") =>
          \A id \in Import!There : kumaRows[id].job < Len(kumaJobs)
    /\ PassInv

LEMMA SeqGrows ==
    ASSUME NEW s, IsSeq(s), NEW x
    PROVE  /\ IsSeq(Append(s, x)) /\ Len(s) \in Nat /\ DOMAIN s = 1 .. Len(s)
           /\ Len(Append(s, x)) = Len(s) + 1 /\ DOMAIN Append(s, x) = 1 .. Len(s) + 1
           /\ \A i \in DOMAIN s : Append(s, x)[i] = s[i]
           /\ Append(s, x)[Len(s) + 1] = x
  <1>1. PICK S : s \in Seq(S)
    BY DEF IsSeq
  <1>2. s \in Seq(S \cup {x}) /\ x \in S \cup {x}
    BY <1>1
  <1>3. Append(s, x) \in Seq(S \cup {x})
    BY <1>2
  <1>4. IsSeq(Append(s, x))
    BY <1>3 DEF IsSeq
  <1> QED
    BY <1>2, <1>3, <1>4

LEMMA SeqChanges ==
    ASSUME NEW s, IsSeq(s), NEW t, DOMAIN t = DOMAIN s, t = [i \in DOMAIN t |-> t[i]]
    PROVE  IsSeq(t) /\ Len(t) = Len(s)
  <1>1. Len(s) \in Nat /\ DOMAIN t = 1 .. Len(s)
    BY SeqGrows
  <1>2. t \in [1 .. Len(s) -> {t[i] : i \in 1 .. Len(s)}]
    BY <1>1
  <1>3. t \in Seq({t[i] : i \in 1 .. Len(s)})
    BY <1>1, <1>2
  <1> QED
    BY <1>1, <1>3 DEF IsSeq

LEMMA EmptyIsSeq == IsSeq(<<>>)
  <1>1. <<>> \in Seq({})
    OBVIOUS
  <1> QED
    BY <1>1 DEF IsSeq

-----------------------------------------------------------------------------
(* The plan *)

StageOf(i) ==
    CASE i.stage = 0 -> i.step = "open"
      [] i.stage \in {1, 3, 5, 8} -> i.step = "read"
      [] i.stage = 2 -> i.step \in {"variant", "tag"}
      [] i.stage = 4 -> i.step = "channel"
      [] i.stage = 6 -> i.step = "group"
      [] i.stage = 7 -> i.step = "monitor"
      [] i.stage = 9 -> i.step = "page"
      [] i.stage = 10 -> i.step = "history"
      [] OTHER -> FALSE

\* What an item of a plan is.
LEMMA ItemTypes ==
    ASSUME NEW files \in KumaUploads, NEW opts, NEW i \in Import!Plan(files, opts)
    PROVE  /\ i = Import!Item(i.step, i.file, i.stage, i.row, i.place)
           /\ i.file \in DOMAIN files /\ i.file \in Nat
           /\ i.stage \in Nat /\ i.row \in Nat /\ i.place \in Nat
           /\ StageOf(i)
           /\ i.step = "open" => i = Import!Item("open", i.file, 0, 0, 0)
           /\ i.step # "open" => files[i.file].opens
           /\ i.step \in {"variant", "tag"} =>
                /\ i.row \in DOMAIN files[i.file].tags
                /\ LET values == files[i.file].tags[i.row].values IN
                   /\ Len(values) \in Nat
                   /\ i.step = "variant" => i.place \in 1 .. Len(values)
                   /\ i.step = "tag" => i.place = Len(values) + 1
  <1>1. PICK f \in DOMAIN files : i \in Import!FileItems(f, files[f], opts)
    BY DEF Import!Plan
  <1>2. f \in Nat
    BY ImportAssumption DEF Import!KumaImportAssumption
  <1>3. /\ DOMAIN files[f].tags \subseteq Nat /\ DOMAIN files[f].channels \subseteq Nat
        /\ DOMAIN files[f].monitors \subseteq Nat /\ DOMAIN files[f].pages \subseteq Nat
        /\ \A r \in DOMAIN files[f].tags :
              /\ Len(files[f].tags[r].values) \in Nat
              /\ DOMAIN files[f].tags[r].values = 1 .. Len(files[f].tags[r].values)
    BY ImportAssumption DEF Import!KumaImportAssumption
  <1>4. CASE i = Import!Item("open", f, 0, 0, 0)
    BY <1>2, <1>4 DEF Import!Item, StageOf
  <1>5. CASE files[f].opens /\ \E stage \in {1, 3, 5, 8} : i = Import!Item("read", f, stage, 0, 0)
    BY <1>2, <1>5 DEF Import!Item, StageOf
  <1>6. CASE files[f].opens /\ i \in Import!TagItems(f, files[f].tags)
    <2>1. PICK r \in DOMAIN files[f].tags :
            \/ \E v \in DOMAIN files[f].tags[r].values : i = Import!Item("variant", f, 2, r, v)
            \/ i = Import!Item("tag", f, 2, r, Len(files[f].tags[r].values) + 1)
      BY <1>6 DEF Import!TagItems
    <2>2. CASE \E v \in DOMAIN files[f].tags[r].values : i = Import!Item("variant", f, 2, r, v)
      <3>1. PICK v \in 1 .. Len(files[f].tags[r].values) : i = Import!Item("variant", f, 2, r, v)
        BY <1>3, <2>1, <2>2
      <3>2. /\ i.step = "variant" /\ i.file = f /\ i.stage = 2 /\ i.row = r /\ i.place = v
        BY <3>1 DEF Import!Item
      <3>3. v \in Nat /\ r \in Nat
        BY <1>3, <2>1, <3>1
      <3>4. i = Import!Item(i.step, i.file, i.stage, i.row, i.place) /\ StageOf(i)
        BY <3>1, <3>2 DEF StageOf
      <3>5. i.step = "variant" => i.place \in 1 .. Len(files[i.file].tags[i.row].values)
        BY <3>1, <3>2
      <3>6. i.row \in DOMAIN files[i.file].tags /\ i.file \in DOMAIN files
            /\ Len(files[i.file].tags[i.row].values) \in Nat
        BY <1>3, <2>1, <3>2
      <3>7. i.stage \in Nat /\ i.file \in Nat /\ i.row \in Nat /\ i.place \in Nat
        BY <1>2, <3>2, <3>3
      <3> QED
        BY <1>6, <3>2, <3>4, <3>5, <3>6, <3>7
    <2>3. CASE i = Import!Item("tag", f, 2, r, Len(files[f].tags[r].values) + 1)
      <3>1. /\ i.step = "tag" /\ i.file = f /\ i.stage = 2 /\ i.row = r
            /\ i.place = Len(files[f].tags[r].values) + 1
        BY <2>3 DEF Import!Item
      <3>2. i = Import!Item(i.step, i.file, i.stage, i.row, i.place) /\ StageOf(i)
        BY <2>3, <3>1 DEF StageOf
      <3>3. i.place = Len(files[i.file].tags[i.row].values) + 1
        BY <3>1
      <3>4. i.row \in DOMAIN files[i.file].tags /\ i.file \in DOMAIN files
            /\ Len(files[i.file].tags[i.row].values) \in Nat
        BY <1>3, <2>1, <3>1
      <3>5. i.stage \in Nat /\ i.file \in Nat /\ i.row \in Nat /\ i.place \in Nat
        BY <1>2, <1>3, <2>1, <3>1
      <3> QED
        BY <1>6, <3>1, <3>2, <3>3, <3>4, <3>5
    <2> QED
      BY <2>1, <2>2, <2>3
  <1>7. CASE files[f].opens /\ i \in Import!OneEach("channel", f, 4, DOMAIN files[f].channels)
    BY <1>2, <1>3, <1>7 DEF Import!OneEach, Import!Item, StageOf
  <1>8. CASE files[f].opens /\ i \in Import!MonitorItems(f, files[f].monitors)
    BY <1>2, <1>3, <1>8 DEF Import!MonitorItems, Import!OneEach, Import!Item, StageOf
  <1>9. CASE files[f].opens /\ i \in Import!OneEach("page", f, 9, DOMAIN files[f].pages)
    BY <1>2, <1>3, <1>9 DEF Import!OneEach, Import!Item, StageOf
  <1>10. CASE files[f].opens /\ i \in Import!OneEach("history", f, 10, DOMAIN files[f].monitors)
    BY <1>2, <1>3, <1>10 DEF Import!OneEach, Import!Item, StageOf
  <1> QED
    BY <1>1, <1>4, <1>5, <1>6, <1>7, <1>8, <1>9, <1>10 DEF Import!FileItems

LEMMA SameItem ==
    ASSUME NEW files \in KumaUploads, NEW opts,
           NEW i \in Import!Plan(files, opts), NEW j \in Import!Plan(files, opts),
           i.file = j.file, i.stage = j.stage, i.row = j.row, i.place = j.place
    PROVE  i = j
  <1>1. /\ i = Import!Item(i.step, i.file, i.stage, i.row, i.place) /\ StageOf(i)
        /\ j = Import!Item(j.step, j.file, j.stage, j.row, j.place) /\ StageOf(j)
    BY ItemTypes
  <1>2. i.step = j.step
    <2>1. CASE i.stage = 2
      <3>1. i.step \in {"variant", "tag"} /\ j.step \in {"variant", "tag"}
        BY <1>1, <2>1 DEF StageOf
      <3> DEFINE n == Len(files[i.file].tags[i.row].values)
      <3>2. /\ n \in Nat
            /\ i.step = "variant" => i.place \in 1 .. n
            /\ i.step = "tag" => i.place = n + 1
        BY <3>1, ItemTypes
      <3>3. /\ j.step = "variant" => j.place \in 1 .. n
            /\ j.step = "tag" => j.place = n + 1
        BY <3>1, ItemTypes
      <3> QED
        BY <3>1, <3>2, <3>3
    <2>2. CASE i.stage # 2
      BY <1>1, <2>2 DEF StageOf
    <2> QED
      BY <2>1, <2>2
  <1> QED
    BY <1>1, <1>2

\* The entry of a tag follows its variants.
LEMMA TagFollows ==
    ASSUME NEW files \in KumaUploads, NEW opts, NEW v \in Import!Plan(files, opts),
           v.step = "variant"
    PROVE  LET t == Import!Item("tag", v.file, 2, v.row,
                                Len(files[v.file].tags[v.row].values) + 1)
           IN  t \in Import!Plan(files, opts) /\ Import!Before(v, t)
  <1> DEFINE t == Import!Item("tag", v.file, 2, v.row,
                              Len(files[v.file].tags[v.row].values) + 1)
  <1>1. /\ v.file \in DOMAIN files /\ files[v.file].opens /\ v.row \in DOMAIN files[v.file].tags
        /\ v.place \in 1 .. Len(files[v.file].tags[v.row].values)
        /\ Len(files[v.file].tags[v.row].values) \in Nat /\ StageOf(v)
    BY ItemTypes
  <1>2. v.stage = 2
    BY <1>1 DEF StageOf
  <1>3. t \in Import!TagItems(v.file, files[v.file].tags)
    BY <1>1 DEF Import!TagItems
  <1>4. t \in Import!FileItems(v.file, files[v.file], opts)
    BY <1>1, <1>3 DEF Import!FileItems
  <1>5. t \in Import!Plan(files, opts)
    BY <1>1, <1>4 DEF Import!Plan
  <1>6. Import!Before(v, t)
    BY <1>1, <1>2 DEF Import!Before, Import!Item
  <1> QED
    BY <1>5, <1>6

\* ... of which there is one at least unless the tag has no name.
Nameless(i) == Len(kumaPass.files[i.file].tags[i.row].values) = 0

LEMMA TagHasVariant ==
    ASSUME NEW files \in KumaUploads, NEW opts, NEW t \in Import!Plan(files, opts),
           t.step = "tag", Len(files[t.file].tags[t.row].values) # 0
    PROVE  LET v == Import!Item("variant", t.file, 2, t.row, 1)
           IN  v \in Import!Plan(files, opts) /\ Import!Before(v, t)
  <1> DEFINE v == Import!Item("variant", t.file, 2, t.row, 1)
  <1>1. /\ t.file \in DOMAIN files /\ files[t.file].opens /\ t.row \in DOMAIN files[t.file].tags
        /\ t.place = Len(files[t.file].tags[t.row].values) + 1
        /\ Len(files[t.file].tags[t.row].values) \in Nat /\ StageOf(t)
    BY ItemTypes
  <1>2. t.stage = 2
    BY <1>1 DEF StageOf
  <1>3. 1 \in DOMAIN files[t.file].tags[t.row].values
    BY <1>1, ImportAssumption DEF Import!KumaImportAssumption
  <1>4. v \in Import!TagItems(t.file, files[t.file].tags)
    BY <1>1, <1>3 DEF Import!TagItems
  <1>5. v \in Import!FileItems(t.file, files[t.file], opts)
    BY <1>1, <1>4 DEF Import!FileItems
  <1>6. v \in Import!Plan(files, opts)
    BY <1>1, <1>5 DEF Import!Plan
  <1>7. Import!Before(v, t)
    BY <1>1, <1>2 DEF Import!Before, Import!Item
  <1> QED
    BY <1>6, <1>7

LEMMA BeforeIsOrder ==
    ASSUME NEW files \in KumaUploads, NEW opts,
           NEW i \in Import!Plan(files, opts), NEW j \in Import!Plan(files, opts)
    PROVE  /\ i = j \/ Import!Before(i, j) \/ Import!Before(j, i)
           /\ ~(Import!Before(i, j) /\ Import!Before(j, i)) /\ ~Import!Before(i, i)
  <1>1. /\ i.file \in Nat /\ i.stage \in Nat /\ i.row \in Nat /\ i.place \in Nat
        /\ j.file \in Nat /\ j.stage \in Nat /\ j.row \in Nat /\ j.place \in Nat
    BY ItemTypes
  <1>2. ~(Import!Before(i, j) /\ Import!Before(j, i)) /\ ~Import!Before(i, i)
    BY <1>1 DEF Import!Before
  <1>3. (i.file = j.file /\ i.stage = j.stage /\ i.row = j.row /\ i.place = j.place)
        \/ Import!Before(i, j) \/ Import!Before(j, i)
    BY <1>1 DEF Import!Before
  <1> QED
    BY <1>2, <1>3, SameItem

\* What is left has a first item.
LEMMA FirstOf ==
    ASSUME NEW files \in KumaUploads, NEW opts, NEW T \in SUBSET Import!Plan(files, opts), T # {}
    PROVE  \E i \in T : \A j \in T \ {i} : Import!Before(i, j)
  <1>1. \A i \in T : i.file \in Nat /\ i.stage \in Nat /\ i.row \in Nat /\ i.place \in Nat
    BY ItemTypes
  <1> DEFINE F == {i.file : i \in T}
  <1>2. F \in SUBSET Nat /\ F # {}
    BY <1>1
  <1>3. PICK a \in F : \A x \in F : a <= x
    <2> HIDE DEF F
    <2> QED
      BY <1>2, LeastNumber
  <1> DEFINE T1 == {i \in T : i.file = a}
             S == {i.stage : i \in T1}
  <1>4. S \in SUBSET Nat /\ S # {}
    BY <1>1, <1>3
  <1>5. PICK b \in S : \A x \in S : b <= x
    <2> HIDE DEF S
    <2> QED
      BY <1>4, LeastNumber
  <1> DEFINE T2 == {i \in T1 : i.stage = b}
             R == {i.row : i \in T2}
  <1>6. R \in SUBSET Nat /\ R # {}
    BY <1>1, <1>5
  <1>7. PICK c \in R : \A x \in R : c <= x
    <2> HIDE DEF R
    <2> QED
      BY <1>6, LeastNumber
  <1> DEFINE T3 == {i \in T2 : i.row = c}
             P == {i.place : i \in T3}
  <1>8. P \in SUBSET Nat /\ P # {}
    BY <1>1, <1>7
  <1>9. PICK d \in P : \A x \in P : d <= x
    <2> HIDE DEF P
    <2> QED
      BY <1>8, LeastNumber
  <1>10. PICK i \in T : i.file = a /\ i.stage = b /\ i.row = c /\ i.place = d
    BY <1>9
  <1>11. ASSUME NEW j \in T, j # i PROVE Import!Before(i, j)
    <2>1. a <= j.file
      BY <1>3
    <2>2. j.file = a => b <= j.stage
      BY <1>5
    <2>3. j.file = a /\ j.stage = b => c <= j.row
      BY <1>7
    <2>4. j.file = a /\ j.stage = b /\ j.row = c => d <= j.place
      BY <1>9
    <2>5. ~(j.file = a /\ j.stage = b /\ j.row = c /\ j.place = d)
      BY <1>10, <1>11, SameItem
    <2>6. /\ j.file \in Nat /\ j.stage \in Nat /\ j.row \in Nat /\ j.place \in Nat
          /\ i.file \in Nat /\ i.stage \in Nat /\ i.row \in Nat /\ i.place \in Nat
      BY <1>1
    <2> QED
      BY <1>10, <2>1, <2>2, <2>3, <2>4, <2>5, <2>6 DEF Import!Before
  <1> QED
    BY <1>11

-----------------------------------------------------------------------------
(* The step at the first item *)

LEMMA NowIsFirst ==
    ASSUME ImportInv, kumaPass # Absent, kumaPass.todo # {}
    PROVE  /\ Import!Now \in kumaPass.todo /\ Import!Now \in ImportPlan
           /\ \A j \in kumaPass.todo \ {Import!Now} : Import!Before(Import!Now, j)
           /\ kumaPass.files \in KumaUploads
  <1>1. kumaPass.files \in KumaUploads /\ kumaPass.todo \subseteq ImportPlan
    BY DEF ImportInv, PassInv, PassFits, TodoIsRest
  <1>2. \E i \in kumaPass.todo : \A j \in kumaPass.todo \ {i} : Import!Before(i, j)
    BY <1>1, FirstOf DEF ImportPlan
  <1> QED
    BY <1>1, <1>2 DEF Import!Now

LEMMA DoingIs ==
    ASSUME ImportInv, NEW step, Import!Doing(step)
    PROVE  kumaPass # Absent /\ kumaPass.todo # {} /\ Import!Now.step = step
  <1>1. PICK i \in kumaPass.todo : /\ kumaPass # Absent /\ i.step = step
                                  /\ \A j \in kumaPass.todo : i = j \/ Import!Before(i, j)
    BY DEF Import!Doing
  <1>2. i \in ImportPlan
    BY <1>1 DEF ImportInv, PassInv, TodoIsRest
  <1> QED
    BY <1>1, <1>2, NowIsFirst, BeforeIsOrder DEF ImportPlan

\* What came before the item at hand is not ahead.
LEMMA NowIsNext ==
    ASSUME ImportInv, kumaPass # Absent, kumaPass.todo # {}, NEW j \in ImportPlan
    PROVE  /\ j \notin kumaPass.todo => Import!Before(j, Import!Now)
           /\ Import!Before(j, Import!Now) => j \notin kumaPass.todo
  <1>1. /\ Import!Now \in kumaPass.todo /\ Import!Now \in ImportPlan
        /\ \A k \in kumaPass.todo \ {Import!Now} : Import!Before(Import!Now, k)
        /\ kumaPass.files \in KumaUploads
    BY NowIsFirst
  <1>2. TodoIsRest
    BY DEF ImportInv, PassInv
  <1>3. /\ j = Import!Now \/ Import!Before(j, Import!Now) \/ Import!Before(Import!Now, j)
        /\ ~(Import!Before(j, Import!Now) /\ Import!Before(Import!Now, j))
        /\ ~Import!Before(j, j)
    BY <1>1, BeforeIsOrder DEF ImportPlan
  <1> QED
    BY <1>1, <1>2, <1>3 DEF TodoIsRest

\* Only while a pass is at the tags of a file is one of them half done.
LEMMA HalfATag ==
    ASSUME ImportInv, kumaPass # Absent, kumaPass.todo # {},
           NEW v, Gone(v), v.step = "variant", TagAhead(v.file, v.row)
    PROVE  Import!Now.step \in {"variant", "tag"}
  <1>1. /\ Import!Now \in kumaPass.todo /\ Import!Now \in ImportPlan
        /\ \A k \in kumaPass.todo \ {Import!Now} : Import!Before(Import!Now, k)
        /\ kumaPass.files \in KumaUploads
    BY NowIsFirst
  <1>2. PICK t \in kumaPass.todo : t.step = "tag" /\ t.file = v.file /\ t.row = v.row
    BY DEF TagAhead
  <1>3. t \in ImportPlan /\ v \in ImportPlan /\ v \notin kumaPass.todo
    BY <1>2 DEF Gone, ImportInv, PassInv, TodoIsRest
  <1>4. Import!Before(v, Import!Now)
    BY <1>3, NowIsNext
  <1>5. t = Import!Now \/ Import!Before(Import!Now, t)
    BY <1>1, <1>2
  <1>6. v.file \in Nat /\ v.stage = 2 /\ v.row \in Nat /\ t.stage = 2
    <2>1. v.file \in Nat /\ v.row \in Nat /\ v.stage \in Nat /\ StageOf(v)
      BY <1>1, <1>3, ItemTypes DEF ImportPlan
    <2>2. t.stage \in Nat /\ StageOf(t)
      BY <1>1, <1>3, ItemTypes DEF ImportPlan
    <2> QED
      BY <1>2, <2>1, <2>2 DEF StageOf
  <1>7. /\ Import!Now.file \in Nat /\ Import!Now.stage \in Nat /\ Import!Now.row \in Nat
        /\ StageOf(Import!Now)
    BY <1>1, ItemTypes DEF ImportPlan
  <1>8. Import!Now.stage = 2
    BY <1>2, <1>4, <1>5, <1>6, <1>7 DEF Import!Before
  <1> QED
    BY <1>7, <1>8 DEF StageOf

\* The rows that are there stay what they are, or are deleted.
SameRow(new, old) ==
    /\ DOMAIN new = DOMAIN old
    /\ new.job = old.job /\ new.from = old.from /\ new.kind = old.kind

RowsKeep ==
    /\ IsSeq(kumaRows') /\ DOMAIN kumaRows \subseteq DOMAIN kumaRows'
    /\ \A id \in DOMAIN kumaRows :
          /\ kumaRows[id] = Absent => kumaRows'[id] = Absent
          /\ kumaRows'[id] = Absent \/ SameRow(kumaRows'[id], kumaRows[id])

\* A row the pass writes at the item at hand, and reports unless it is a tag.
NewRow(row) ==
    /\ DOMAIN row = Import!RowFields /\ row.job = kumaPass.job /\ row.from = Import!Now
    /\ ~kumaPass.opts.dry
    /\ IF row.kind = "tag" THEN Import!Now.step = "variant"
       ELSE \E e \in (Import!Reported)' : /\ e.step = Import!StepOf(row.kind)
                                          /\ Import!Of(e, Import!Now)
                                          /\ e.result \in Import!Succeeded

\* The pass has done the item at hand.
ItemDone ==
    /\ DOMAIN kumaPass' = PassFields
    /\ kumaPass'.job = kumaPass.job /\ kumaPass'.opts = kumaPass.opts
    /\ kumaPass'.files = kumaPass.files /\ kumaPass'.failed = kumaPass.failed
    /\ kumaPass'.todo = kumaPass.todo \ {Import!Now}
    /\ kumaRunning' = kumaRunning /\ kumaJobs' = kumaJobs

RowsWritten ==
    /\ RowsKeep
    /\ \A id \in DOMAIN kumaRows' \ DOMAIN kumaRows :
          kumaRows'[id] = Absent \/ NewRow(kumaRows'[id])

EntriesWritten ==
    /\ IsSeq(kumaPass'.entries) /\ Import!Reported \subseteq (Import!Reported)'
    /\ \A e \in (Import!Reported)' \ Import!Reported : EntryPoints(e)'
    /\ Import!Now.step \in {"tag", "channel", "group", "monitor", "page"} =>
          \E e \in (Import!Reported)' :
             /\ e.step = Import!StepOf(Import!Now.step) /\ Import!Of(e, Import!Now)
             /\ Import!Now.step = "tag" => Nameless(Import!Now) \/ e.result = kumaPass.result

IdsKept ==
    /\ IdsAreNumbers'
    /\ Import!Now.step = "open" \/ DOMAIN kumaPass.ids["tag"] \subseteq DOMAIN kumaPass'.ids["tag"]
    /\ Import!Now.step = "variant" => \A v \in {Import!Now} : VariantCame(v)'

ResultKept ==
    /\ kumaPass'.result \in {"imported", "renamed", "skipped"}
    /\ kumaPass'.result = "skipped" =>
          IF Import!Now.step = "variant"
          THEN /\ kumaRows' = kumaRows
               /\ Len(kumaPass.files[Import!Now.file].tags[Import!Now.row].values) = 1
          ELSE Import!Now.step # "tag" /\ kumaPass.result = "skipped"

ItemWorked ==
    /\ ItemDone /\ RowsWritten /\ EntriesWritten /\ IdsKept /\ ResultKept
    /\ Import!Now.step = "open" => kumaPass.files[Import!Now.file].opens

LEMMA RestGoesOn ==
    ASSUME ImportInv, kumaPass # Absent, kumaPass.todo # {}, ItemDone
    PROVE  /\ TodoIsRest' /\ ImportPlan' = ImportPlan
           /\ ImportPlan' \ kumaPass'.todo = (ImportPlan \ kumaPass.todo) \cup {Import!Now}
  <1>1. ImportPlan' = ImportPlan
    BY DEF ImportPlan, ItemDone
  <1>2. /\ Import!Now \in kumaPass.todo /\ Import!Now \in ImportPlan
        /\ \A j \in kumaPass.todo \ {Import!Now} : Import!Before(Import!Now, j)
    BY NowIsFirst
  <1>3. kumaPass'.todo = kumaPass.todo \ {Import!Now} /\ TodoIsRest
    BY DEF ItemDone, ImportInv, PassInv
  <1>4. ASSUME NEW i \in kumaPass'.todo, NEW j \in ImportPlan, Import!Before(i, j)
        PROVE  j \in kumaPass'.todo
    <2>1. j \in kumaPass.todo /\ i \in ImportPlan
      BY <1>3, <1>4 DEF TodoIsRest
    <2>2. ~(Import!Before(i, Import!Now) /\ Import!Before(Import!Now, i))
      BY <1>2, <2>1, NowIsFirst, BeforeIsOrder DEF ImportPlan
    <2> QED
      BY <1>2, <1>3, <1>4, <2>1, <2>2
  <1>5. TodoIsRest'
    BY <1>1, <1>3, <1>4 DEF TodoIsRest
  <1> QED
    BY <1>1, <1>2, <1>3, <1>5

LEMMA OwedGoesOn ==
    ASSUME ImportInv, kumaPass # Absent, kumaPass.todo # {}, ItemWorked
    PROVE  RowsAreOwed'
  <1>1. RowsAreOwed /\ kumaPass'.failed = kumaPass.failed /\ kumaPass'.files = kumaPass.files
        /\ kumaPass'.todo = kumaPass.todo \ {Import!Now}
    BY DEF ImportInv, PassInv, ItemWorked, ItemDone
  <1> SUFFICES ASSUME ~kumaPass.failed, NEW f \in DOMAIN kumaPass.files,
                      NEW step \in DOMAIN Import!Table,
                      NEW r \in DOMAIN kumaPass.files[f][Import!Table[step]]
      PROVE  \/ \E e \in (Import!Reported)' : e.step = step /\ e.file = f /\ e.row = r
             \/ \E i \in kumaPass'.todo :
                   /\ Import!StepOf(i.step) = step /\ i.file = f /\ i.row = r
             \/ /\ ~kumaPass.files[f].opens
                /\ Import!Item("open", f, 0, 0, 0) \in kumaPass'.todo
    BY <1>1 DEF RowsAreOwed
  <1>2. Import!Reported \subseteq (Import!Reported)'
    BY DEF ItemWorked, EntriesWritten
  <1>3. CASE \E e \in Import!Reported : e.step = step /\ e.file = f /\ e.row = r
    BY <1>2, <1>3
  <1>4. CASE \E i \in kumaPass.todo :
               /\ Import!StepOf(i.step) = step /\ i.file = f /\ i.row = r
    <2>1. PICK i \in kumaPass.todo : Import!StepOf(i.step) = step /\ i.file = f /\ i.row = r
      BY <1>4
    <2>2. CASE i # Import!Now
      BY <1>1, <2>1, <2>2
    <2>3. CASE i = Import!Now
      <3>1. Import!Now.step \in {"tag", "channel", "group", "monitor", "page"}
        BY <2>1, <2>3 DEF Import!StepOf, Import!Table
      <3>2. \E e \in (Import!Reported)' :
               /\ e.step = Import!StepOf(Import!Now.step) /\ Import!Of(e, Import!Now)
        BY <3>1 DEF ItemWorked, EntriesWritten
      <3> QED
        BY <2>1, <2>3, <3>2 DEF Import!Of
    <2> QED
      BY <2>2, <2>3
  <1>5. CASE /\ ~kumaPass.files[f].opens
             /\ Import!Item("open", f, 0, 0, 0) \in kumaPass.todo
    <2>1. Import!Item("open", f, 0, 0, 0) # Import!Now
      BY <1>5 DEF ItemWorked, Import!Item
    <2> QED
      BY <1>1, <1>5, <2>1
  <1> QED
    BY <1>1, <1>3, <1>4, <1>5 DEF RowsAreOwed

LEMMA EntryStays ==
    ASSUME ItemWorked, NEW row, HasEntry(row)
    PROVE  HasEntry(row)'
  BY DEF ItemWorked, EntriesWritten, HasEntry, Import!Of, Import!StepOf, Import!Succeeded

LEMMA WrittenGoesOn ==
    ASSUME ImportInv, kumaPass # Absent, kumaPass.todo # {}, ItemWorked
    PROVE  WrittenRows'
  <1>1. /\ kumaPass'.job = kumaPass.job /\ kumaPass'.opts = kumaPass.opts
        /\ kumaPass'.todo = kumaPass.todo \ {Import!Now}
        /\ kumaPass'.files = kumaPass.files
    BY DEF ItemWorked, ItemDone
  <1>2. /\ ImportPlan' = ImportPlan
        /\ ImportPlan' \ kumaPass'.todo = (ImportPlan \ kumaPass.todo) \cup {Import!Now}
    BY RestGoesOn DEF ItemWorked
  <1>3. /\ Import!Now \in kumaPass.todo /\ Import!Now \in ImportPlan
        /\ kumaPass.files \in KumaUploads
        /\ \A j \in kumaPass.todo \ {Import!Now} : Import!Before(Import!Now, j)
    BY NowIsFirst
  <1> SUFFICES ASSUME NEW row \in RowsThere', row.job = kumaPass.job
      PROVE  WrittenRow(row)'
    BY <1>1 DEF WrittenRows
  <1>4. PICK id \in DOMAIN kumaRows' : row = kumaRows'[id] /\ row # Absent
    BY DEF RowsThere, Import!There
  <1>5. CASE id \in DOMAIN kumaRows
    <2>1. PICK old \in RowsThere : SameRow(row, old)
      BY <1>4, <1>5 DEF ItemWorked, RowsWritten, RowsKeep, Import!There, RowsThere
    <2>2. old.job = kumaPass.job /\ WrittenRow(old)
      BY <2>1 DEF ImportInv, PassInv, WrittenRows, SameRow
    <2>3. ~kumaPass'.opts.dry /\ Gone(old.from)'
      BY <1>1, <1>2, <2>2 DEF WrittenRow, Gone
    <2>4. CASE old.kind # "tag"
      <3>1. HasEntry(old)'
        BY <2>2, <2>4, EntryStays DEF WrittenRow
      <3>2. HasEntry(row)'
        BY <2>1, <3>1 DEF SameRow, HasEntry
      <3> QED
        BY <2>1, <2>3, <2>4, <3>2 DEF WrittenRow, SameRow, Gone
    <2>5. CASE old.kind = "tag"
      <3>1. old.from.step = "variant" /\ (TagAhead(old.from.file, old.from.row) \/ HasEntry(old))
        BY <2>2, <2>5 DEF WrittenRow
      <3>2. TagAhead(old.from.file, old.from.row)' \/ HasEntry(old)'
        <4>1. CASE HasEntry(old)
          BY <4>1, EntryStays
        <4>2. CASE TagAhead(old.from.file, old.from.row)
          <5>1. PICK i \in kumaPass.todo : /\ i.step = "tag" /\ i.file = old.from.file
                                           /\ i.row = old.from.row
            BY <4>2 DEF TagAhead
          <5>2. CASE i # Import!Now
            BY <1>1, <5>1, <5>2 DEF TagAhead
          <5>3. CASE i = Import!Now
            <6>1. PICK e \in (Import!Reported)' :
                    /\ e.step = Import!StepOf(Import!Now.step) /\ Import!Of(e, Import!Now)
                    /\ e.result = kumaPass.result
              <7>1. old.from \in ImportPlan
                BY <2>2 DEF WrittenRow, Gone
              <7>2. old.from.place \in 1 .. Len(kumaPass.files[i.file].tags[i.row].values)
                BY <1>3, <3>1, <5>1, <7>1, ItemTypes DEF ImportPlan
              <7>3. ~Nameless(i)
                BY <7>2 DEF Nameless
              <7> QED
                BY <5>1, <5>3, <7>3 DEF ItemWorked, EntriesWritten
            <6>2. Import!Of(Import!Now, old.from)
              BY <5>1, <5>3 DEF Import!Of
            <6>3. kumaPass.result # "skipped"
              BY <2>2, <2>5, <6>2 DEF RowsThere, ImportInv, PassInv, SkippedTag
            <6>4. kumaPass.result \in Import!Succeeded
              BY <6>3 DEF ImportInv, PassInv, PassFits, Import!Succeeded
            <6>5. e.step = Import!StepOf(old.kind) /\ Import!Of(e, old.from)
                  /\ e.result \in Import!Succeeded
              BY <2>5, <5>1, <5>3, <6>1, <6>2, <6>4 DEF Import!Of, Import!StepOf
            <6> QED
              BY <6>5 DEF HasEntry, Import!Of, Import!StepOf, Import!Succeeded
          <5> QED
            BY <5>2, <5>3
        <4> QED
          BY <3>1, <4>1, <4>2
      <3>3. \/ TagAhead(row.from.file, row.from.row)'
            \/ HasEntry(row)'
        BY <2>1, <3>2 DEF SameRow, HasEntry, TagAhead
      <3> QED
        BY <2>1, <2>3, <2>5, <3>1, <3>3 DEF WrittenRow, SameRow, Gone
    <2> QED
      BY <2>4, <2>5
  <1>6. CASE id \notin DOMAIN kumaRows
    <2>1. NewRow(row)
      BY <1>4, <1>6 DEF ItemWorked, RowsWritten
    <2>2. ~kumaPass'.opts.dry /\ Gone(row.from)'
      BY <1>1, <1>2, <2>1 DEF NewRow, Gone
    <2>3. CASE row.kind # "tag"
      <3>1. HasEntry(row)'
        BY <2>1, <2>3 DEF NewRow, HasEntry, Import!Of, Import!StepOf, Import!Succeeded
      <3> QED
        BY <2>2, <2>3, <3>1 DEF WrittenRow
    <2>4. CASE row.kind = "tag"
      <3> DEFINE now == Import!Now
                 t == Import!Item("tag", now.file, 2, now.row,
                                  Len(kumaPass.files[now.file].tags[now.row].values) + 1)
      <3>1. now.step = "variant" /\ row.from = now
        BY <2>1, <2>4 DEF NewRow
      <3>2. t \in ImportPlan /\ Import!Before(now, t)
        BY <1>3, <3>1, TagFollows DEF ImportPlan
      <3>3. t \in kumaPass.todo
        BY <1>3, <3>2 DEF ImportInv, PassInv, TodoIsRest
      <3>4. t.step = "tag" /\ t.file = now.file /\ t.row = now.row
        BY DEF Import!Item
      <3>5. t # now
        BY <3>1, <3>4
      <3>6. PICK i \in kumaPass.todo : /\ i.step = "tag" /\ i # now
                                       /\ i.file = row.from.file /\ i.row = row.from.row
        <4> HIDE DEF t
        <4> QED
          BY <3>1, <3>3, <3>4, <3>5
      <3>7. TagAhead(row.from.file, row.from.row)'
        BY <1>1, <3>6 DEF TagAhead
      <3> QED
        BY <2>2, <2>4, <3>1, <3>7 DEF WrittenRow
    <2> QED
      BY <2>3, <2>4
  <1> QED
    BY <1>5, <1>6

LEMMA SkippedGoesOn ==
    ASSUME ImportInv, kumaPass # Absent, kumaPass.todo # {}, ItemWorked
    PROVE  SkippedTag'
  <1>1. /\ kumaPass'.job = kumaPass.job /\ kumaPass'.files = kumaPass.files
        /\ kumaPass'.todo = kumaPass.todo \ {Import!Now}
    BY DEF ItemWorked, ItemDone
  <1>2. /\ Import!Now \in kumaPass.todo /\ Import!Now \in ImportPlan
        /\ kumaPass.files \in KumaUploads
        /\ \A j \in kumaPass.todo \ {Import!Now} : Import!Before(Import!Now, j)
    BY NowIsFirst
  <1> SUFFICES ASSUME kumaPass'.result = "skipped", kumaPass'.todo # {}
      PROVE  /\ (Import!Now)'.step = "tag"
             /\ \A row \in RowsThere' :
                   (row.job = kumaPass.job /\ row.kind = "tag") =>
                      ~Import!Of((Import!Now)', row.from)
    BY <1>1 DEF SkippedTag, Import!Of
  <1>3. Import!Now.step = "variant" /\ kumaRows' = kumaRows
        /\ Len(kumaPass.files[Import!Now.file].tags[Import!Now.row].values) = 1
    <2>1. Import!Now.step # "variant" => kumaPass.result = "skipped" /\ Import!Now.step # "tag"
      BY DEF ItemWorked, ResultKept
    <2>2. kumaPass.result = "skipped" => Import!Now.step = "tag"
      BY DEF ImportInv, PassInv, SkippedTag
    <2> QED
      BY <2>1, <2>2 DEF ItemWorked, ResultKept
  <1> DEFINE now == Import!Now
             t == Import!Item("tag", now.file, 2, now.row,
                              Len(kumaPass.files[now.file].tags[now.row].values) + 1)
  <1>4. t \in kumaPass.todo /\ Import!Before(now, t)
    <2>1. t \in ImportPlan /\ Import!Before(now, t)
      BY <1>2, <1>3, TagFollows DEF ImportPlan
    <2> QED
      BY <1>2, <2>1 DEF ImportInv, PassInv, TodoIsRest
  <1>5. /\ t.step = "tag" /\ t.file = now.file /\ t.stage = 2 /\ t.row = now.row /\ t.place = 2
    BY <1>3 DEF Import!Item
  <1>6. now.file \in Nat /\ now.stage = 2 /\ now.row \in Nat /\ now.place = 1
    <2>1. now.file \in Nat /\ now.stage \in Nat /\ now.row \in Nat /\ StageOf(now)
          /\ now.place \in 1 .. 1
      BY <1>2, <1>3, ItemTypes DEF ImportPlan
    <2> QED
      BY <1>3, <2>1 DEF StageOf
  <1>7. \E i \in kumaPass'.todo : \A j \in kumaPass'.todo \ {i} : Import!Before(i, j)
    BY <1>1, <1>2, FirstOf DEF ImportPlan, ImportInv, PassInv, TodoIsRest
  <1>8. PICK next \in kumaPass'.todo : /\ next = (Import!Now)'
                                       /\ \A j \in kumaPass'.todo \ {next} : Import!Before(next, j)
    BY <1>7 DEF Import!Now, Import!Before
  <1>9. t \in kumaPass'.todo
    BY <1>1, <1>3, <1>4, <1>5
  <1>10. next = t
    <2>1. next \in kumaPass.todo \ {now} /\ next \in ImportPlan
      BY <1>1 DEF ImportInv, PassInv, TodoIsRest
    <2>2. Import!Before(now, next)
      BY <1>2, <2>1
    <2>3. next = t \/ Import!Before(next, t)
      BY <1>8, <1>9
    <2>4. next.file \in Nat /\ next.stage \in Nat /\ next.row \in Nat /\ next.place \in Nat
      BY <1>2, <2>1, ItemTypes DEF ImportPlan
    <2> HIDE DEF now, t
    <2> QED
      BY <1>5, <1>6, <2>2, <2>3, <2>4 DEF Import!Before
  <1>11. ASSUME NEW row \in RowsThere, row.job = kumaPass.job, row.kind = "tag",
                Import!Of(next, row.from)
         PROVE  FALSE
    <2>1. row.from \in ImportPlan /\ row.from \notin kumaPass.todo /\ row.from.step = "variant"
      BY <1>11 DEF ImportInv, PassInv, WrittenRows, WrittenRow, Gone
    <2>2. row.from.file = now.file /\ row.from.row = now.row
      BY <1>5, <1>10, <1>11, Zenon DEF Import!Of
    <2>3. row.from.stage = 2 /\ row.from.place = 1
      <3>1. row.from.stage \in Nat /\ StageOf(row.from) /\ row.from.place \in 1 .. 1
        <4>1. /\ row.from.stage \in Nat /\ StageOf(row.from)
              /\ row.from.place
                   \in 1 .. Len(kumaPass.files[row.from.file].tags[row.from.row].values)
          BY <1>2, <2>1, ItemTypes DEF ImportPlan
        <4> QED
          BY <1>3, <2>2, <4>1
      <3> QED
        BY <2>1, <3>1 DEF StageOf
    <2>4. row.from = now
      BY <1>2, <1>6, <2>1, <2>2, <2>3, SameItem DEF ImportPlan
    <2> QED
      BY <1>2, <2>1, <2>4
  <1>12. RowsThere' = RowsThere
    BY <1>3 DEF RowsThere, Import!There
  <1> QED
    BY <1>5, <1>8, <1>10, <1>11, <1>12, Zenon

LEMMA VariantsGoOn ==
    ASSUME ImportInv, kumaPass # Absent, kumaPass.todo # {}, ItemWorked
    PROVE  VariantsCame'
  <1>1. /\ kumaPass'.files = kumaPass.files /\ kumaPass'.todo = kumaPass.todo \ {Import!Now}
    BY DEF ItemWorked, ItemDone
  <1>2. /\ ImportPlan' = ImportPlan
        /\ ImportPlan' \ kumaPass'.todo = (ImportPlan \ kumaPass.todo) \cup {Import!Now}
    BY RestGoesOn DEF ItemWorked
  <1> SUFFICES ASSUME NEW v \in ImportPlan' \ kumaPass'.todo, v.step = "variant",
                      TagAhead(v.file, v.row)'
      PROVE  VariantCame(v)'
    BY DEF VariantsCame
  <1>3. TagAhead(v.file, v.row)
    BY <1>1 DEF TagAhead
  <1>4. CASE v = Import!Now
    BY <1>4 DEF ItemWorked, IdsKept
  <1>5. CASE v \in ImportPlan \ kumaPass.todo
    <2>1. VariantCame(v)
      BY <1>3, <1>5 DEF ImportInv, PassInv, VariantsCame
    <2>2. Import!Now.step \in {"variant", "tag"}
      BY <1>3, <1>5, HalfATag DEF Gone
    <2>3. DOMAIN kumaPass.ids["tag"] \subseteq DOMAIN kumaPass'.ids["tag"]
      BY <2>2 DEF ItemWorked, IdsKept
    <2>4. Import!Reported \subseteq (Import!Reported)'
      BY DEF ItemWorked, EntriesWritten
    <2> QED
      BY <1>1, <2>1, <2>3, <2>4 DEF VariantCame, Import!Of
  <1> QED
    BY <1>2, <1>4, <1>5

LEMMA EntriesGoOn ==
    ASSUME ImportInv, kumaPass # Absent, kumaPass.todo # {}, ItemWorked
    PROVE  \A e \in (Import!Reported)' : EntryPoints(e)'
  <1>1. /\ kumaPass'.opts = kumaPass.opts /\ Import!Reported \subseteq (Import!Reported)'
    BY DEF ItemWorked, ItemDone, EntriesWritten
  <1>2. ASSUME NEW e \in Import!Reported PROVE EntryPoints(e)'
    <2> SUFFICES ASSUME e.result \in Import!Succeeded, ~kumaPass.opts.dry, e.step # "history"
        PROVE  IF e.target = Absent
               THEN /\ e.step = "tag"
                    /\ \E x \in (Import!Reported)' : /\ x.step = "tag" /\ Import!Of(x, e)
                                                     /\ x.result = "failed"
               ELSE \/ e.step = "tag"
                    \/ /\ e.target \in DOMAIN kumaRows'
                       /\ kumaRows'[e.target] = Absent \/ Import!Of(e, kumaRows'[e.target].from)
      BY <1>1 DEF EntryPoints, Import!Succeeded, Import!Of
    <2>1. EntryPoints(e)
      BY DEF ImportInv, PassInv
    <2>2. CASE e.target = Absent
      BY <1>1, <2>1, <2>2 DEF EntryPoints
    <2>3. CASE e.target # Absent
      BY <2>1, <2>3 DEF EntryPoints, ItemWorked, RowsWritten, RowsKeep, SameRow, Import!Of
    <2> QED
      BY <2>2, <2>3
  <1>3. ASSUME NEW e \in (Import!Reported)' \ Import!Reported PROVE EntryPoints(e)'
    BY <1>3 DEF ItemWorked, EntriesWritten
  <1> QED
    BY <1>2, <1>3

LEMMA ImportGoesOn ==
    ASSUME ImportInv, kumaPass # Absent, kumaPass.todo # {}, ItemWorked
    PROVE  ImportInv'
  <1>1. PassInv'
    <2>1. PassFits'
      BY DEF ImportInv, PassInv, PassFits, ItemWorked, ItemDone, EntriesWritten, IdsKept,
             ResultKept
    <2>2. TodoIsRest'
      BY RestGoesOn DEF ItemWorked
    <2> QED
      BY <2>1, <2>2, OwedGoesOn, WrittenGoesOn, SkippedGoesOn, VariantsGoOn, EntriesGoOn
         DEF PassInv
  <1>2. IsSeq(kumaRows') /\ kumaJobs' = kumaJobs /\ kumaJobs[Len(kumaJobs)].state # "queued"
        /\ kumaPass.job = Len(kumaJobs) /\ Len(kumaJobs) \in Nat
    BY SeqGrows DEF ItemWorked, ItemDone, RowsWritten, RowsKeep, ImportInv, PassInv, PassFits
  <1>3. ASSUME NEW id \in (Import!There)'
        PROVE  /\ DOMAIN kumaRows'[id] = Import!RowFields
               /\ kumaRows'[id].job \in Nat /\ kumaRows'[id].job <= Len(kumaJobs)
    <2>1. id \in DOMAIN kumaRows' /\ kumaRows'[id] # Absent
      BY DEF Import!There
    <2>2. CASE id \in DOMAIN kumaRows
      BY <2>1, <2>2 DEF ItemWorked, RowsWritten, RowsKeep, SameRow, ImportInv, Import!There
    <2>3. CASE id \notin DOMAIN kumaRows
      BY <1>2, <2>1, <2>3 DEF ItemWorked, RowsWritten, NewRow
    <2> QED
      BY <2>2, <2>3
  <1> QED
    BY <1>1, <1>2, <1>3 DEF ImportInv, Import!RowFields, Import!Row

-----------------------------------------------------------------------------
(* What the steps of a pass are made of *)

IdTables == {"tag", "channel", "group", "monitor"}

LEMMA DoneFields ==
    ASSUME NEW p, DOMAIN p = PassFields
    PROVE  LET q == Import!Done(p) IN
           /\ DOMAIN q = PassFields /\ q.todo = p.todo \ {Import!Now}
           /\ q.job = p.job /\ q.opts = p.opts /\ q.files = p.files /\ q.failed = p.failed
           /\ q.ids = p.ids /\ q.table = p.table /\ q.entries = p.entries
           /\ q.result = p.result
  BY DEF Import!Done, PassFields

LEMMA RecordedFields ==
    ASSUME NEW p, DOMAIN p = PassFields, NEW step, NEW result, NEW target
    PROVE  LET q == Import!Recorded(p, step, result, target)
               e == [step |-> step, file |-> Import!Now.file, row |-> Import!Now.row,
                     result |-> result, target |-> target]
           IN
           /\ DOMAIN q = PassFields /\ q.todo = p.todo
           /\ q.job = p.job /\ q.opts = p.opts /\ q.files = p.files /\ q.failed = p.failed
           /\ q.ids = p.ids /\ q.table = p.table /\ q.entries = Append(p.entries, e)
           /\ q.result = p.result
  BY DEF Import!Recorded, PassFields

LEMMA DoneRecorded ==
    ASSUME NEW p, DOMAIN p = PassFields, NEW step, NEW result, NEW target
    PROVE  LET q == Import!Recorded(Import!Done(p), step, result, target)
               e == [step |-> step, file |-> Import!Now.file, row |-> Import!Now.row,
                     result |-> result, target |-> target]
           IN
           /\ DOMAIN q = PassFields /\ q.todo = p.todo \ {Import!Now}
           /\ q.job = p.job /\ q.opts = p.opts /\ q.files = p.files /\ q.failed = p.failed
           /\ q.ids = p.ids /\ q.table = p.table /\ q.entries = Append(p.entries, e)
           /\ q.result = p.result
  <1> DEFINE d == Import!Done(p)
             q == Import!Recorded(d, step, result, target)
             e == [step |-> step, file |-> Import!Now.file, row |-> Import!Now.row,
                   result |-> result, target |-> target]
  <1>1. /\ DOMAIN d = PassFields /\ d.todo = p.todo \ {Import!Now}
        /\ d.job = p.job /\ d.opts = p.opts /\ d.files = p.files /\ d.failed = p.failed
        /\ d.ids = p.ids /\ d.table = p.table /\ d.entries = p.entries
        /\ d.result = p.result
    BY DoneFields
  <1>2. /\ DOMAIN q = PassFields /\ q.todo = d.todo
        /\ q.job = d.job /\ q.opts = d.opts /\ q.files = d.files /\ q.failed = d.failed
        /\ q.ids = d.ids /\ q.table = d.table /\ q.entries = Append(d.entries, e)
        /\ q.result = d.result
    <2> HIDE DEF d
    <2> QED
      BY <1>1, RecordedFields, SMTT(30)
  <1>3. /\ DOMAIN q = PassFields /\ q.todo = p.todo \ {Import!Now}
        /\ q.job = p.job /\ q.opts = p.opts /\ q.files = p.files /\ q.failed = p.failed
        /\ q.ids = p.ids /\ q.table = p.table /\ q.entries = Append(p.entries, e)
        /\ q.result = p.result
    <2> HIDE DEF d, q, e
    <2> QED
      BY <1>1, <1>2
  <1> QED
    BY <1>3, Zenon

LEMMA KnownFields ==
    ASSUME NEW p, DOMAIN p = PassFields, DOMAIN p.ids = IdTables, DOMAIN p.table = IdTables,
           NEW kind \in IdTables, NEW key, NEW name, NEW id
    PROVE  LET q == Import!Known(p, kind, key, name, id) IN
           /\ DOMAIN q = PassFields /\ q.todo = p.todo
           /\ q.job = p.job /\ q.opts = p.opts /\ q.files = p.files /\ q.failed = p.failed
           /\ q.entries = p.entries /\ q.result = p.result
           /\ DOMAIN q.ids = IdTables /\ DOMAIN q.table = IdTables
           /\ q.ids["tag"] = IF kind = "tag" THEN Import!Put(p.ids["tag"], key, id)
                             ELSE p.ids["tag"]
           /\ q.table["tag"] = IF kind = "tag" THEN Import!Put(p.table["tag"], name, id)
                               ELSE p.table["tag"]
  BY DEF Import!Known, PassFields, IdTables

LEMMA ReportGrows ==
    ASSUME ImportInv, kumaPass # Absent, NEW e, kumaPass'.entries = Append(kumaPass.entries, e)
    PROVE  /\ IsSeq(kumaPass'.entries)
           /\ (Import!Reported)' = Import!Reported \cup {e}
  <1>1. IsSeq(kumaPass.entries)
    BY DEF ImportInv, PassInv, PassFits
  <1> DEFINE s == kumaPass.entries
             t == Append(s, e)
  <1>2. /\ IsSeq(t) /\ Len(s) \in Nat /\ DOMAIN s = 1 .. Len(s) /\ DOMAIN t = 1 .. Len(s) + 1
        /\ \A i \in DOMAIN s : t[i] = s[i]
        /\ t[Len(s) + 1] = e
    BY <1>1, SeqGrows
  <1> HIDE DEF t
  <1>3. {t[i] : i \in DOMAIN t} = {s[i] : i \in DOMAIN s} \cup {e}
    BY <1>2
  <1>4. kumaPass'.entries = t
    BY DEF t
  <1> QED
    BY <1>2, <1>3, <1>4 DEF Import!Reported

\* Nothing is written.
LEMMA NoRows ==
    ASSUME ImportInv, kumaRows' = kumaRows
    PROVE  RowsWritten
  BY DEF ImportInv, RowsWritten, RowsKeep, SameRow

\* One row at most is.
LEMMA CreatesOne ==
    ASSUME ImportInv, kumaPass # Absent, NEW row, DOMAIN row = Import!RowFields,
           NEW accepted, NEW ok \in BOOLEAN, Import!Creates(row, accepted, ok)
    PROVE  /\ RowsKeep
           /\ ~ok => kumaRows' = kumaRows
           /\ ok => /\ Len(kumaRows') \in Nat \ {0} /\ Len(kumaRows') \in DOMAIN kumaRows'
                    /\ DOMAIN kumaRows' \ DOMAIN kumaRows \subseteq {Len(kumaRows')}
                    /\ \/ kumaRows'[Len(kumaRows')] = Absent
                       \/ /\ ~kumaPass.opts.dry
                          /\ DOMAIN kumaRows'[Len(kumaRows')] = Import!RowFields
                          /\ kumaRows'[Len(kumaRows')].job = kumaPass.job
                          /\ kumaRows'[Len(kumaRows')].from = Import!Now
                          /\ kumaRows'[Len(kumaRows')].kind = row.kind
  <1>1. IsSeq(kumaRows)
    BY DEF ImportInv
  <1>2. CASE ~ok
    BY <1>1, <1>2, NoRows DEF Import!Creates, RowsWritten
  <1>3. CASE ok
    <2> DEFINE new == IF kumaPass.opts.dry THEN Absent
                      ELSE [row EXCEPT !.job = kumaPass.job, !.from = Import!Now]
    <2>1. kumaRows' = Append(kumaRows, new)
      BY <1>3 DEF Import!Creates
    <2>2. /\ IsSeq(kumaRows') /\ Len(kumaRows) \in Nat /\ DOMAIN kumaRows = 1 .. Len(kumaRows)
          /\ Len(kumaRows') = Len(kumaRows) + 1 /\ DOMAIN kumaRows' = 1 .. Len(kumaRows) + 1
          /\ \A i \in DOMAIN kumaRows : kumaRows'[i] = kumaRows[i]
          /\ kumaRows'[Len(kumaRows')] = new
      <3> HIDE DEF new
      <3> QED
        BY <1>1, <2>1, SeqGrows
    <2>3. RowsKeep
      <3> HIDE DEF new
      <3> QED
        BY <2>2 DEF RowsKeep, SameRow
    <2>4. \/ new = Absent
          \/ /\ ~kumaPass.opts.dry /\ DOMAIN new = Import!RowFields
             /\ new.job = kumaPass.job /\ new.from = Import!Now /\ new.kind = row.kind
      BY DEF Import!RowFields, Import!Row
    <2> QED
      <3> HIDE DEF new
      <3> QED
        BY <1>3, <2>2, <2>3, <2>4
  <1> QED
    BY <1>2, <1>3

\* An entry that says it came to nothing has nothing to point at.
LEMMA PlainEntry ==
    ASSUME NEW e, e.result \notin Import!Succeeded \/ e.step = "history"
    PROVE  EntryPoints(e)'
  BY DEF EntryPoints, Import!Succeeded

\* A row that is written, or not, and an entry that says so.
LEMMA RowWorks ==
    ASSUME ImportInv, kumaPass # Absent, kumaPass.todo # {}, ItemDone,
           Import!Now.step \in {"channel", "group", "monitor", "page"},
           kumaPass'.result = kumaPass.result,
           IdsAreNumbers', kumaPass'.ids["tag"] = kumaPass.ids["tag"],
           NEW e, kumaPass'.entries = Append(kumaPass.entries, e),
           e.step = Import!StepOf(Import!Now.step), Import!Of(e, Import!Now),
           \/ kumaRows' = kumaRows /\ e.result \notin Import!Succeeded
           \/ \E row, accepted :
                 /\ DOMAIN row = Import!RowFields /\ row.kind = Import!Now.step
                 /\ Import!Creates(row, accepted, TRUE)
                 /\ e.target = Len(kumaRows') /\ e.result \in Import!Succeeded
    PROVE  ImportInv'
  <1>1. /\ IsSeq(kumaPass'.entries) /\ (Import!Reported)' = Import!Reported \cup {e}
    BY ReportGrows
  <1>2. RowsWritten /\ EntryPoints(e)'
    <2>1. CASE kumaRows' = kumaRows /\ e.result \notin Import!Succeeded
      BY <2>1, NoRows, PlainEntry
    <2>2. CASE \E row, accepted :
                 /\ DOMAIN row = Import!RowFields /\ row.kind = Import!Now.step
                 /\ Import!Creates(row, accepted, TRUE)
                 /\ e.target = Len(kumaRows') /\ e.result \in Import!Succeeded
      <3>1. PICK row, accepted :
                 /\ DOMAIN row = Import!RowFields /\ row.kind = Import!Now.step
                 /\ Import!Creates(row, accepted, TRUE)
                 /\ e.target = Len(kumaRows') /\ e.result \in Import!Succeeded
        BY <2>2
      <3>2. /\ RowsKeep
            /\ Len(kumaRows') \in Nat \ {0} /\ Len(kumaRows') \in DOMAIN kumaRows'
            /\ DOMAIN kumaRows' \ DOMAIN kumaRows \subseteq {Len(kumaRows')}
            /\ \/ kumaRows'[Len(kumaRows')] = Absent
               \/ /\ ~kumaPass.opts.dry
                  /\ DOMAIN kumaRows'[Len(kumaRows')] = Import!RowFields
                  /\ kumaRows'[Len(kumaRows')].job = kumaPass.job
                  /\ kumaRows'[Len(kumaRows')].from = Import!Now
                  /\ kumaRows'[Len(kumaRows')].kind = row.kind
        BY <3>1, CreatesOne
      <3>3. RowsWritten
        BY <1>1, <3>1, <3>2 DEF RowsWritten, NewRow
      <3>4. EntryPoints(e)'
        <4>1. e.target # Absent
          BY <3>1, <3>2, ImportAssumption DEF Import!KumaImportAssumption
        <4>2. kumaRows'[e.target] = Absent \/ Import!Of(e, kumaRows'[e.target].from)
          BY <3>1, <3>2
        <4> QED
          BY <3>1, <3>2, <4>1, <4>2 DEF EntryPoints, Import!Of
      <3> QED
        BY <3>3, <3>4
    <2> QED
      BY <2>1, <2>2
  <1>3. EntriesWritten
    BY <1>1, <1>2 DEF EntriesWritten
  <1>4. IdsKept /\ ResultKept
    BY DEF IdsKept, ResultKept, ImportInv, PassInv, PassFits
  <1> QED
    BY <1>2, <1>3, <1>4, ImportGoesOn DEF ItemWorked

LEMMA PassIs ==
    ASSUME ImportInv, kumaPass # Absent
    PROVE  /\ DOMAIN kumaPass = PassFields
           /\ DOMAIN kumaPass.ids = IdTables /\ DOMAIN kumaPass.table = IdTables
           /\ \A x \in DOMAIN kumaPass.ids["tag"] : kumaPass.ids["tag"][x] \in Nat
           /\ \A n \in DOMAIN kumaPass.table["tag"] : kumaPass.table["tag"][n] \in Nat
  BY DEF ImportInv, PassInv, PassFits, IdsAreNumbers, IdTables

LEMMA UnmappedWorks ==
    ASSUME ImportInv, kumaPass # Absent, kumaPass.todo # {},
           Import!Now.step \in {"channel", "group", "monitor", "page"},
           NEW step, step = Import!StepOf(Import!Now.step),
           NEW result, result \notin Import!Succeeded,
           Import!Unmapped(step, result), kumaRunning' = kumaRunning, kumaJobs' = kumaJobs
    PROVE  ImportInv'
  <1> DEFINE e == [step |-> step, file |-> Import!Now.file, row |-> Import!Now.row,
                   result |-> result, target |-> Absent]
  <1>1. /\ DOMAIN kumaPass = PassFields
        /\ DOMAIN kumaPass.ids = IdTables /\ DOMAIN kumaPass.table = IdTables
        /\ \A x \in DOMAIN kumaPass.ids["tag"] : kumaPass.ids["tag"][x] \in Nat
        /\ \A n \in DOMAIN kumaPass.table["tag"] : kumaPass.table["tag"][n] \in Nat
    BY PassIs
  <1>2. kumaPass' = Import!Recorded(Import!Done(kumaPass), step, result, Absent)
        /\ kumaRows' = kumaRows
    BY DEF Import!Unmapped
  <1>3. /\ DOMAIN kumaPass' = PassFields /\ kumaPass'.todo = kumaPass.todo \ {Import!Now}
        /\ kumaPass'.job = kumaPass.job /\ kumaPass'.opts = kumaPass.opts
        /\ kumaPass'.files = kumaPass.files /\ kumaPass'.failed = kumaPass.failed
        /\ kumaPass'.ids = kumaPass.ids /\ kumaPass'.table = kumaPass.table
        /\ kumaPass'.entries = Append(kumaPass.entries, e)
        /\ kumaPass'.result = kumaPass.result
    BY <1>1, <1>2, DoneRecorded, SMTT(30)
  <1>4. ItemDone /\ IdsAreNumbers'
    BY <1>1, <1>3 DEF ItemDone, IdsAreNumbers, IdTables
  <1>5. e.step = Import!StepOf(Import!Now.step) /\ Import!Of(e, Import!Now)
        /\ e.result \notin Import!Succeeded
    BY DEF Import!Of
  <1> QED
    <2> HIDE DEF e
    <2> QED
      BY <1>2, <1>3, <1>4, <1>5, RowWorks

LEMMA KeepsWorks ==
    ASSUME ImportInv, kumaPass # Absent, kumaPass.todo # {},
           NEW kind \in {"channel", "group", "monitor"}, Import!Now.step = kind, NEW id,
           NEW step, step = Import!StepOf(kind),
           Import!Keeps(step, kind, id), kumaRunning' = kumaRunning, kumaJobs' = kumaJobs
    PROVE  ImportInv'
  <1> DEFINE e == [step |-> step, file |-> Import!Now.file, row |-> Import!Now.row,
                   result |-> "skipped", target |-> id]
             p == [Import!Done(kumaPass) EXCEPT !.ids[kind] = Import!Put(@, Import!Now.row, id)]
  <1>1. /\ DOMAIN kumaPass = PassFields
        /\ DOMAIN kumaPass.ids = IdTables /\ DOMAIN kumaPass.table = IdTables
        /\ \A x \in DOMAIN kumaPass.ids["tag"] : kumaPass.ids["tag"][x] \in Nat
        /\ \A n \in DOMAIN kumaPass.table["tag"] : kumaPass.table["tag"][n] \in Nat
    BY PassIs
  <1>2. kumaPass' = Import!Recorded(p, step, "skipped", id) /\ kumaRows' = kumaRows
    BY DEF Import!Keeps
  <1>3. /\ DOMAIN p = PassFields /\ p.todo = kumaPass.todo \ {Import!Now}
        /\ p.job = kumaPass.job /\ p.opts = kumaPass.opts
        /\ p.files = kumaPass.files /\ p.failed = kumaPass.failed
        /\ DOMAIN p.ids = IdTables /\ p.ids["tag"] = kumaPass.ids["tag"]
        /\ p.table = kumaPass.table /\ p.entries = kumaPass.entries
        /\ p.result = kumaPass.result
    BY <1>1, DoneFields DEF PassFields, IdTables
  <1>4. /\ DOMAIN kumaPass' = PassFields /\ kumaPass'.todo = kumaPass.todo \ {Import!Now}
        /\ kumaPass'.job = kumaPass.job /\ kumaPass'.opts = kumaPass.opts
        /\ kumaPass'.files = kumaPass.files /\ kumaPass'.failed = kumaPass.failed
        /\ DOMAIN kumaPass'.ids = IdTables /\ kumaPass'.ids["tag"] = kumaPass.ids["tag"]
        /\ kumaPass'.table = kumaPass.table
        /\ kumaPass'.entries = Append(kumaPass.entries, e)
        /\ kumaPass'.result = kumaPass.result
    <2> HIDE DEF p
    <2> QED
      BY <1>2, <1>3, RecordedFields, SMTT(30)
  <1>5. ItemDone /\ IdsAreNumbers'
    BY <1>1, <1>4 DEF ItemDone, IdsAreNumbers, IdTables
  <1>6. e.step = Import!StepOf(Import!Now.step) /\ Import!Of(e, Import!Now)
        /\ e.result \notin Import!Succeeded
    BY DEF Import!Of, Import!Succeeded
  <1> QED
    <2> HIDE DEF e, p
    <2> QED
      BY <1>2, <1>4, <1>5, <1>6, RowWorks

LEMMA WritesWorks ==
    ASSUME ImportInv, kumaPass # Absent, kumaPass.todo # {},
           NEW kind \in {"channel", "group", "monitor"}, Import!Now.step = kind,
           NEW step, step = Import!StepOf(kind),
           NEW row, DOMAIN row = Import!RowFields, row.kind = kind, NEW accepted,
           NEW r, r.action \in Import!Succeeded,
           Import!Writes(step, kind, row, accepted, r),
           kumaRunning' = kumaRunning, kumaJobs' = kumaJobs
    PROVE  ImportInv'
  <1>1. /\ DOMAIN kumaPass = PassFields
        /\ DOMAIN kumaPass.ids = IdTables /\ DOMAIN kumaPass.table = IdTables
        /\ \A x \in DOMAIN kumaPass.ids["tag"] : kumaPass.ids["tag"][x] \in Nat
        /\ \A n \in DOMAIN kumaPass.table["tag"] : kumaPass.table["tag"][n] \in Nat
    BY PassIs
  <1>2. PICK ok \in BOOLEAN :
          /\ Import!Creates(row, accepted, ok)
          /\ kumaPass' = IF ok
               THEN Import!Recorded(Import!Known(Import!Done(kumaPass), kind, Import!Now.row,
                                                 r.name, Len(kumaRows')),
                                    step, r.action, Len(kumaRows'))
               ELSE Import!Recorded(Import!Done(kumaPass), step, "failed", Absent)
    BY DEF Import!Writes
  <1>3. CASE ~ok
    <2> DEFINE e == [step |-> step, file |-> Import!Now.file, row |-> Import!Now.row,
                     result |-> "failed", target |-> Absent]
    <2>1. /\ DOMAIN kumaPass' = PassFields /\ kumaPass'.todo = kumaPass.todo \ {Import!Now}
          /\ kumaPass'.job = kumaPass.job /\ kumaPass'.opts = kumaPass.opts
          /\ kumaPass'.files = kumaPass.files /\ kumaPass'.failed = kumaPass.failed
          /\ kumaPass'.ids = kumaPass.ids /\ kumaPass'.table = kumaPass.table
          /\ kumaPass'.entries = Append(kumaPass.entries, e)
          /\ kumaPass'.result = kumaPass.result
      <3>1. kumaPass' = Import!Recorded(Import!Done(kumaPass), step, "failed", Absent)
        BY <1>2, <1>3
      <3> QED
        BY <1>1, <3>1, DoneRecorded, SMTT(30)
    <2>2. kumaRows' = kumaRows
      BY <1>2, <1>3, CreatesOne
    <2>3. ItemDone /\ IdsAreNumbers'
      BY <1>1, <2>1 DEF ItemDone, IdsAreNumbers, IdTables
    <2>4. e.step = Import!StepOf(Import!Now.step) /\ Import!Of(e, Import!Now)
          /\ e.result \notin Import!Succeeded
      BY DEF Import!Of, Import!Succeeded
    <2> HIDE DEF e
    <2> QED
      BY <2>1, <2>2, <2>3, <2>4, RowWorks
  <1>4. CASE ok
    <2> DEFINE n == Len(kumaRows')
               p == Import!Known(Import!Done(kumaPass), kind, Import!Now.row, r.name, n)
               e == [step |-> step, file |-> Import!Now.file, row |-> Import!Now.row,
                     result |-> r.action, target |-> n]
    <2>1. /\ DOMAIN p = PassFields /\ p.todo = kumaPass.todo \ {Import!Now}
          /\ p.job = kumaPass.job /\ p.opts = kumaPass.opts
          /\ p.files = kumaPass.files /\ p.failed = kumaPass.failed
          /\ p.entries = kumaPass.entries /\ p.result = kumaPass.result
          /\ DOMAIN p.ids = IdTables /\ DOMAIN p.table = IdTables
          /\ p.ids["tag"] = kumaPass.ids["tag"] /\ p.table["tag"] = kumaPass.table["tag"]
      <3> HIDE DEF n
      <3>1. kind \in IdTables /\ kind # "tag"
        BY DEF IdTables
      <3> QED
        BY <1>1, <3>1, DoneFields, KnownFields
    <2>2. kumaPass' = Import!Recorded(p, step, r.action, n)
      BY <1>2, <1>4
    <2>3. /\ DOMAIN kumaPass' = PassFields /\ kumaPass'.todo = kumaPass.todo \ {Import!Now}
          /\ kumaPass'.job = kumaPass.job /\ kumaPass'.opts = kumaPass.opts
          /\ kumaPass'.files = kumaPass.files /\ kumaPass'.failed = kumaPass.failed
          /\ DOMAIN kumaPass'.ids = IdTables /\ kumaPass'.ids["tag"] = kumaPass.ids["tag"]
          /\ DOMAIN kumaPass'.table = IdTables
          /\ kumaPass'.table["tag"] = kumaPass.table["tag"]
          /\ kumaPass'.entries = Append(kumaPass.entries, e)
          /\ kumaPass'.result = kumaPass.result
      <3> HIDE DEF p, n
      <3>1. DOMAIN p = PassFields
        BY <2>1
      <3>2. /\ DOMAIN kumaPass' = PassFields /\ kumaPass'.todo = p.todo
            /\ kumaPass'.job = p.job /\ kumaPass'.opts = p.opts
            /\ kumaPass'.files = p.files /\ kumaPass'.failed = p.failed
            /\ kumaPass'.ids = p.ids /\ kumaPass'.table = p.table
            /\ kumaPass'.entries = Append(p.entries, e) /\ kumaPass'.result = p.result
        BY <2>2, <3>1, RecordedFields
      <3> HIDE DEF e
      <3> QED
        BY <2>1, <3>2
    <2>4. ItemDone /\ IdsAreNumbers'
      BY <1>1, <2>3 DEF ItemDone, IdsAreNumbers, IdTables
    <2>5. e.step = Import!StepOf(Import!Now.step) /\ Import!Of(e, Import!Now)
          /\ e.result \in Import!Succeeded /\ e.target = Len(kumaRows')
      BY DEF Import!Of
    <2>6. row.kind = Import!Now.step /\ Import!Creates(row, accepted, TRUE)
      BY <1>2, <1>4
    <2> HIDE DEF e, n, p
    <2> QED
      BY <2>3, <2>4, <2>5, <2>6, RowWorks
  <1> QED
    BY <1>3, <1>4

LEMMA ResolveTells ==
    ASSUME NEW table, NEW base, NEW strategy
    PROVE  LET r == Import!Resolve(table, base, strategy) IN
           /\ r.action \in {"imported", "renamed", "skipped"}
           /\ r.action = "skipped" => \E name \in DOMAIN table : r.id = table[name]
  BY DEF Import!Resolve

LEMMA RowIs ==
    ASSUME NEW kind, NEW name
    PROVE  LET row == Import!Row(kind, name)
           IN  DOMAIN row = Import!RowFields /\ row.kind = kind /\ row.job = 0
  BY DEF Import!Row, Import!RowFields

LEMMA ChannelKeeps ==
    ASSUME ImportInv, Import!Channel
    PROVE  ImportInv'
  <1> DEFINE c == Import!FileNow.channels[Import!Now.row]
             as == Import!MapNotification(c)
             r == Import!Resolve(kumaPass.table["channel"], c.name, kumaPass.opts.strategy)
  <1>1. /\ kumaPass # Absent /\ kumaPass.todo # {} /\ Import!Now.step = "channel"
        /\ kumaRunning' = kumaRunning /\ kumaJobs' = kumaJobs
        /\ "channel" = Import!StepOf("channel")
    BY DoingIs DEF Import!Channel, Import!StepOf
  <1>2. \/ as # "imported" /\ Import!Unmapped("channel", as)
        \/ r.action = "skipped" /\ Import!Keeps("channel", "channel", r.id)
        \/ r.action # "skipped"
           /\ Import!Writes("channel", "channel", Import!Row("channel", r.name), c.accepted, r)
    BY DEF Import!Channel
  <1>3. CASE as # "imported" /\ Import!Unmapped("channel", as)
    <2>1. as \notin Import!Succeeded
      BY <1>3 DEF Import!MapNotification, Import!Succeeded
    <2> HIDE DEF as
    <2> QED
      BY <1>1, <1>3, <2>1, UnmappedWorks
  <1>4. CASE r.action = "skipped" /\ Import!Keeps("channel", "channel", r.id)
    <2> HIDE DEF r
    <2> QED
      BY <1>1, <1>4, KeepsWorks
  <1>5. CASE r.action # "skipped"
             /\ Import!Writes("channel", "channel", Import!Row("channel", r.name), c.accepted, r)
    <2>1. r.action \in Import!Succeeded
      BY <1>5, ResolveTells DEF Import!Succeeded
    <2> HIDE DEF r
    <2>2. DOMAIN Import!Row("channel", r.name) = Import!RowFields
          /\ Import!Row("channel", r.name).kind = "channel"
      BY RowIs
    <2> QED
      BY <1>1, <1>5, <2>1, <2>2, WritesWorks
  <1> QED
    BY <1>2, <1>3, <1>4, <1>5

LEMMA GroupKeeps ==
    ASSUME ImportInv, Import!GroupRow
    PROVE  ImportInv'
  <1> DEFINE r == Import!Resolve(kumaPass.table["group"],
                                 Import!FileNow.monitors[Import!Now.row].name,
                                 kumaPass.opts.strategy)
  <1>1. /\ kumaPass # Absent /\ kumaPass.todo # {} /\ Import!Now.step = "group"
        /\ kumaRunning' = kumaRunning /\ kumaJobs' = kumaJobs
        /\ "monitor" = Import!StepOf("group")
    BY DoingIs DEF Import!GroupRow, Import!StepOf
  <1>2. \/ r.action = "skipped" /\ Import!Keeps("monitor", "group", r.id)
        \/ r.action # "skipped"
           /\ Import!Writes("monitor", "group", Import!Row("group", r.name), TRUE, r)
    BY DEF Import!GroupRow
  <1>3. CASE r.action = "skipped" /\ Import!Keeps("monitor", "group", r.id)
    <2> HIDE DEF r
    <2> QED
      BY <1>1, <1>3, KeepsWorks
  <1>4. CASE r.action # "skipped"
             /\ Import!Writes("monitor", "group", Import!Row("group", r.name), TRUE, r)
    <2>1. r.action \in Import!Succeeded
      BY <1>4, ResolveTells DEF Import!Succeeded
    <2> HIDE DEF r
    <2>2. DOMAIN Import!Row("group", r.name) = Import!RowFields
          /\ Import!Row("group", r.name).kind = "group"
      BY RowIs
    <2> QED
      BY <1>1, <1>4, <2>1, <2>2, WritesWorks
  <1> QED
    BY <1>2, <1>3, <1>4

LEMMA MonitorKeeps ==
    ASSUME ImportInv, Import!MonitorRow
    PROVE  ImportInv'
  <1> DEFINE m == Import!FileNow.monitors[Import!Now.row]
             as == Import!MapMonitor(m)
             r == Import!Resolve(kumaPass.table["monitor"], m.name, kumaPass.opts.strategy)
  <1>1. /\ kumaPass # Absent /\ kumaPass.todo # {} /\ Import!Now.step = "monitor"
        /\ kumaRunning' = kumaRunning /\ kumaJobs' = kumaJobs
        /\ "monitor" = Import!StepOf("monitor")
    BY DoingIs DEF Import!MonitorRow, Import!StepOf
  <1>2. \/ as # "imported" /\ Import!Unmapped("monitor", as)
        \/ r.action = "skipped" /\ Import!Keeps("monitor", "monitor", r.id)
        \/ r.action # "skipped" /\ \E group, tags, channels :
             Import!Writes("monitor", "monitor",
                [Import!Row("monitor", r.name) EXCEPT !.group = group, !.token = m.token,
                                                      !.tags = tags, !.channels = channels],
                m.accepted, r)
    BY Zenon DEF Import!MonitorRow
  <1>3. CASE as # "imported" /\ Import!Unmapped("monitor", as)
    <2>1. as \notin Import!Succeeded
      BY <1>3 DEF Import!MapMonitor, Import!MapHTTP, Import!MapHost, Import!MapTLSExpiry,
                  Import!MapPush, Import!Succeeded
    <2> HIDE DEF as
    <2> QED
      BY <1>1, <1>3, <2>1, UnmappedWorks
  <1>4. CASE r.action = "skipped" /\ Import!Keeps("monitor", "monitor", r.id)
    <2> HIDE DEF r
    <2> QED
      BY <1>1, <1>4, KeepsWorks
  <1>5. CASE r.action # "skipped" /\ \E group, tags, channels :
             Import!Writes("monitor", "monitor",
                [Import!Row("monitor", r.name) EXCEPT !.group = group, !.token = m.token,
                                                      !.tags = tags, !.channels = channels],
                m.accepted, r)
    <2>1. r.action \in Import!Succeeded
      BY <1>5, ResolveTells DEF Import!Succeeded
    <2> HIDE DEF r, m
    <2>2. PICK group, tags, channels :
             Import!Writes("monitor", "monitor",
                [Import!Row("monitor", r.name) EXCEPT !.group = group, !.token = m.token,
                                                      !.tags = tags, !.channels = channels],
                m.accepted, r)
      BY <1>5, Zenon
    <2> DEFINE row == [Import!Row("monitor", r.name) EXCEPT !.group = group, !.token = m.token,
                                                      !.tags = tags, !.channels = channels]
    <2>3. DOMAIN row = Import!RowFields /\ row.kind = "monitor"
      BY DEF Import!RowFields, Import!Row
    <2> HIDE DEF row
    <2>4. Import!Writes("monitor", "monitor", row, m.accepted, r)
      BY <2>2 DEF row
    <2> QED
      BY <1>1, <2>1, <2>3, <2>4, WritesWorks
  <1> QED
    BY <1>2, <1>3, <1>4, <1>5, Zenon

LEMMA PageKeeps ==
    ASSUME ImportInv, Import!PageRow
    PROVE  ImportInv'
  <1> DEFINE pg == Import!FileNow.pages[Import!Now.row]
             slug == <<pg.slug, 1>>
             k == Import!FirstFree(Import!Slugs, pg.slug)
             final == IF slug \in Import!Slugs /\ k # Absent THEN <<pg.slug, k>> ELSE slug
             row == [Import!Row("page", final) EXCEPT !.members = Import!Sections(pg)]
             as == IF final = slug THEN "imported" ELSE "renamed"
  <1>1. /\ kumaPass # Absent /\ kumaPass.todo # {} /\ Import!Now.step = "page"
        /\ kumaRunning' = kumaRunning /\ kumaJobs' = kumaJobs
        /\ "page" = Import!StepOf("page")
    BY DoingIs DEF Import!PageRow, Import!StepOf
  <1>2. \/ Import!Unmapped("page", "skipped")
        \/ \E ok \in BOOLEAN :
              /\ Import!Creates(row, TRUE, ok)
              /\ kumaPass' = IF ok THEN Import!Recorded(Import!Done(kumaPass), "page", as,
                                                        Len(kumaRows'))
                             ELSE Import!Recorded(Import!Done(kumaPass), "page", "failed", Absent)
    BY DEF Import!PageRow
  <1>3. DOMAIN row = Import!RowFields /\ row.kind = "page"
    BY DEF Import!RowFields, Import!Row
  <1>4. as \in Import!Succeeded
    BY DEF Import!Succeeded
  <1> HIDE DEF row, as
  <1>5. CASE Import!Unmapped("page", "skipped")
    <2>1. "skipped" \notin Import!Succeeded
      BY DEF Import!Succeeded
    <2> QED
      BY <1>1, <1>5, <2>1, UnmappedWorks
  <1>6. ASSUME NEW ok \in BOOLEAN, Import!Creates(row, TRUE, ok),
               kumaPass' = IF ok THEN Import!Recorded(Import!Done(kumaPass), "page", as,
                                                        Len(kumaRows'))
                           ELSE Import!Recorded(Import!Done(kumaPass), "page", "failed", Absent)
        PROVE  ImportInv'
    <2> DEFINE result == IF ok THEN as ELSE "failed"
               target == IF ok THEN Len(kumaRows') ELSE Absent
               e == [step |-> "page", file |-> Import!Now.file, row |-> Import!Now.row,
                     result |-> result, target |-> target]
    <2>1. kumaPass' = Import!Recorded(Import!Done(kumaPass), "page", result, target)
      BY <1>6
    <2>2. /\ DOMAIN kumaPass = PassFields
          /\ DOMAIN kumaPass.ids = IdTables /\ DOMAIN kumaPass.table = IdTables
          /\ \A x \in DOMAIN kumaPass.ids["tag"] : kumaPass.ids["tag"][x] \in Nat
          /\ \A n \in DOMAIN kumaPass.table["tag"] : kumaPass.table["tag"][n] \in Nat
      BY <1>1, PassIs
    <2>3. /\ DOMAIN kumaPass' = PassFields /\ kumaPass'.todo = kumaPass.todo \ {Import!Now}
          /\ kumaPass'.job = kumaPass.job /\ kumaPass'.opts = kumaPass.opts
          /\ kumaPass'.files = kumaPass.files /\ kumaPass'.failed = kumaPass.failed
          /\ kumaPass'.ids = kumaPass.ids /\ kumaPass'.table = kumaPass.table
          /\ kumaPass'.entries = Append(kumaPass.entries, e)
          /\ kumaPass'.result = kumaPass.result
      <3> HIDE DEF result, target
      <3> QED
        BY <2>1, <2>2, DoneRecorded, SMTT(30)
    <2>4. ItemDone /\ IdsAreNumbers'
      BY <1>1, <2>2, <2>3 DEF ItemDone, IdsAreNumbers, IdTables
    <2>5. /\ e.step = Import!StepOf(Import!Now.step) /\ Import!Of(e, Import!Now)
          /\ e.result = result /\ e.target = target
      BY <1>1 DEF Import!Of
    <2>6. CASE ok
      <3>1. Import!Creates(row, TRUE, TRUE) /\ e.target = Len(kumaRows')
            /\ e.result \in Import!Succeeded
        BY <1>4, <1>6, <2>5, <2>6
      <3> HIDE DEF e
      <3> QED
        BY <1>1, <1>3, <2>3, <2>4, <2>5, <3>1, RowWorks
    <2>7. CASE ~ok
      <3>1. kumaRows' = kumaRows /\ e.result \notin Import!Succeeded
        BY <1>1, <1>3, <1>6, <2>5, <2>7, CreatesOne DEF Import!Succeeded
      <3> HIDE DEF e
      <3> QED
        BY <1>1, <2>3, <2>4, <2>5, <3>1, RowWorks
    <2> QED
      BY <2>6, <2>7
  <1> QED
    BY <1>2, <1>5, <1>6

\* A file that cannot be read ends the pass between two tags.
LEMMA GivesUpKeeps ==
    ASSUME ImportInv, kumaPass # Absent, kumaPass.todo # {},
           Import!Now.step \notin {"variant", "tag"},
           kumaPass' = Import!GivesUp(kumaPass), kumaRows' = kumaRows,
           kumaRunning' = kumaRunning, kumaJobs' = kumaJobs
    PROVE  ImportInv'
  <1>1. DOMAIN kumaPass = PassFields
    BY PassIs
  <1>2. /\ DOMAIN kumaPass' = PassFields /\ kumaPass'.todo = {} /\ kumaPass'.failed = TRUE
        /\ kumaPass'.job = kumaPass.job /\ kumaPass'.opts = kumaPass.opts
        /\ kumaPass'.files = kumaPass.files /\ kumaPass'.entries = kumaPass.entries
        /\ kumaPass'.ids = kumaPass.ids /\ kumaPass'.table = kumaPass.table
        /\ kumaPass'.result = kumaPass.result
    BY <1>1 DEF Import!GivesUp, PassFields
  <1>3. ImportPlan' = ImportPlan /\ RowsThere' = RowsThere
        /\ (Import!Reported)' = Import!Reported
    BY <1>2 DEF ImportPlan, RowsThere, Import!There, Import!Reported
  <1>4. PassFits' /\ TodoIsRest' /\ RowsAreOwed' /\ SkippedTag' /\ VariantsCame'
    <2>1. PassFits'
      BY <1>2 DEF ImportInv, PassInv, PassFits, IdsAreNumbers
    <2>2. TodoIsRest' /\ RowsAreOwed' /\ SkippedTag'
      BY <1>2 DEF TodoIsRest, RowsAreOwed, SkippedTag
    <2>3. VariantsCame'
      BY <1>2 DEF VariantsCame, TagAhead
    <2> QED
      BY <2>1, <2>2, <2>3
  <1>5. WrittenRows'
    <2> SUFFICES ASSUME NEW row \in RowsThere, row.job = kumaPass.job
        PROVE  WrittenRow(row)'
      BY <1>2, <1>3 DEF WrittenRows
    <2>1. WrittenRow(row)
      BY DEF ImportInv, PassInv, WrittenRows
    <2>2. Gone(row.from)' /\ ~kumaPass'.opts.dry
      BY <1>2, <1>3, <2>1 DEF WrittenRow, Gone
    <2>3. HasEntry(row)
      BY <2>1, HalfATag DEF WrittenRow
    <2>4. HasEntry(row)'
      BY <1>3, <2>3 DEF HasEntry, Import!Of, Import!StepOf, Import!Succeeded
    <2> QED
      BY <2>1, <2>2, <2>4 DEF WrittenRow
  <1>6. \A e \in (Import!Reported)' : EntryPoints(e)'
    BY <1>2, <1>3 DEF ImportInv, PassInv, EntryPoints, Import!Of, Import!Succeeded
  <1> QED
    BY <1>2, <1>4, <1>5, <1>6
       DEF ImportInv, PassInv, PassFits, Import!There, Import!RowFields, Import!Row

\* An item that leaves no trace but in the tables of ids.
LEMMA QuietWorks ==
    ASSUME ImportInv, kumaPass # Absent, kumaPass.todo # {}, ItemDone,
           Import!Now.step \in {"open", "read", "history"},
           Import!Now.step = "open" => kumaPass.files[Import!Now.file].opens,
           kumaPass'.entries = kumaPass.entries, kumaPass'.result = kumaPass.result,
           IdsAreNumbers',
           Import!Now.step = "open" \/ kumaPass'.ids["tag"] = kumaPass.ids["tag"],
           kumaRows' = kumaRows
    PROVE  ImportInv'
  <1>1. (Import!Reported)' = Import!Reported
    BY DEF Import!Reported
  <1>2. EntriesWritten
    BY <1>1 DEF EntriesWritten, ImportInv, PassInv, PassFits
  <1>3. IdsKept /\ ResultKept
    BY DEF IdsKept, ResultKept, ImportInv, PassInv, PassFits
  <1> QED
    BY <1>2, <1>3, NoRows, ImportGoesOn DEF ItemWorked

LEMMA OpenKeeps ==
    ASSUME ImportInv, Import!Open
    PROVE  ImportInv'
  <1>1. /\ kumaPass # Absent /\ kumaPass.todo # {} /\ Import!Now.step = "open"
        /\ kumaRunning' = kumaRunning /\ kumaJobs' = kumaJobs /\ kumaRows' = kumaRows
    BY DoingIs DEF Import!Open
  <1>2. CASE kumaPass' = Import!GivesUp(kumaPass)
    BY <1>1, <1>2, GivesUpKeeps
  <1>3. CASE /\ Import!FileNow.opens
             /\ kumaPass' = [Import!Done(kumaPass) EXCEPT !.ids = Import!NoIds]
    <2>1. /\ DOMAIN kumaPass = PassFields /\ DOMAIN kumaPass.table = IdTables
          /\ \A n \in DOMAIN kumaPass.table["tag"] : kumaPass.table["tag"][n] \in Nat
      BY <1>1, PassIs
    <2>2. /\ DOMAIN kumaPass' = PassFields /\ kumaPass'.todo = kumaPass.todo \ {Import!Now}
          /\ kumaPass'.job = kumaPass.job /\ kumaPass'.opts = kumaPass.opts
          /\ kumaPass'.files = kumaPass.files /\ kumaPass'.failed = kumaPass.failed
          /\ kumaPass'.ids = Import!NoIds /\ kumaPass'.table = kumaPass.table
          /\ kumaPass'.entries = kumaPass.entries /\ kumaPass'.result = kumaPass.result
      BY <1>3, <2>1, DoneFields DEF PassFields
    <2>3. ItemDone
      BY <1>1, <2>2 DEF ItemDone
    <2>4. IdsAreNumbers'
      BY <2>1, <2>2 DEF IdsAreNumbers, Import!NoIds, IdTables
    <2> QED
      BY <1>1, <1>3, <2>2, <2>3, <2>4, QuietWorks DEF Import!FileNow
  <1> QED
    BY <1>2, <1>3 DEF Import!Open

LEMMA ReadKeeps ==
    ASSUME ImportInv, Import!Read
    PROVE  ImportInv'
  <1>1. /\ kumaPass # Absent /\ kumaPass.todo # {} /\ Import!Now.step = "read"
        /\ kumaRunning' = kumaRunning /\ kumaJobs' = kumaJobs /\ kumaRows' = kumaRows
    BY DoingIs DEF Import!Read
  <1>2. CASE kumaPass' = Import!GivesUp(kumaPass)
    BY <1>1, <1>2, GivesUpKeeps
  <1>3. CASE kumaPass' = Import!Done(kumaPass)
    <2>1. /\ DOMAIN kumaPass = PassFields
          /\ DOMAIN kumaPass.ids = IdTables /\ DOMAIN kumaPass.table = IdTables
          /\ \A x \in DOMAIN kumaPass.ids["tag"] : kumaPass.ids["tag"][x] \in Nat
          /\ \A n \in DOMAIN kumaPass.table["tag"] : kumaPass.table["tag"][n] \in Nat
      BY <1>1, PassIs
    <2>2. /\ DOMAIN kumaPass' = PassFields /\ kumaPass'.todo = kumaPass.todo \ {Import!Now}
          /\ kumaPass'.job = kumaPass.job /\ kumaPass'.opts = kumaPass.opts
          /\ kumaPass'.files = kumaPass.files /\ kumaPass'.failed = kumaPass.failed
          /\ kumaPass'.ids = kumaPass.ids /\ kumaPass'.table = kumaPass.table
          /\ kumaPass'.entries = kumaPass.entries /\ kumaPass'.result = kumaPass.result
      BY <1>3, <2>1, DoneFields, SMTT(30)
    <2>3. ItemDone /\ IdsAreNumbers'
      BY <1>1, <2>1, <2>2 DEF ItemDone, IdsAreNumbers, IdTables
    <2> QED
      BY <1>1, <2>2, <2>3, QuietWorks
  <1> QED
    BY <1>2, <1>3 DEF Import!Read

LEMMA HistoryKeeps ==
    ASSUME ImportInv, Import!History
    PROVE  ImportInv'
  <1> DEFINE ids == kumaPass.ids["monitor"]
             id == ids[Import!Now.row]
  <1>1. /\ kumaPass # Absent /\ kumaPass.todo # {} /\ Import!Now.step = "history"
        /\ kumaRunning' = kumaRunning /\ kumaJobs' = kumaJobs
    BY DoingIs DEF Import!History
  <1>2. \/ kumaPass' = Import!Done(kumaPass) /\ kumaRows' = kumaRows
        \/ kumaPass' = Import!GivesUp(kumaPass) /\ kumaRows' = kumaRows
        \/ /\ \E result : kumaPass' = Import!Recorded(Import!Done(kumaPass), "history", result, id)
           /\ \/ kumaRows' = kumaRows
              \/ /\ id \in Import!There
                 /\ \E kept : kumaRows' = [kumaRows EXCEPT ![id].beats = @ \cup kept]
    BY DEF Import!History
  <1>3. /\ DOMAIN kumaPass = PassFields
        /\ DOMAIN kumaPass.ids = IdTables /\ DOMAIN kumaPass.table = IdTables
        /\ \A x \in DOMAIN kumaPass.ids["tag"] : kumaPass.ids["tag"][x] \in Nat
        /\ \A n \in DOMAIN kumaPass.table["tag"] : kumaPass.table["tag"][n] \in Nat
    BY <1>1, PassIs
  <1>4. CASE kumaPass' = Import!Done(kumaPass) /\ kumaRows' = kumaRows
    <2>1. /\ DOMAIN kumaPass' = PassFields /\ kumaPass'.todo = kumaPass.todo \ {Import!Now}
          /\ kumaPass'.job = kumaPass.job /\ kumaPass'.opts = kumaPass.opts
          /\ kumaPass'.files = kumaPass.files /\ kumaPass'.failed = kumaPass.failed
          /\ kumaPass'.ids = kumaPass.ids /\ kumaPass'.table = kumaPass.table
          /\ kumaPass'.entries = kumaPass.entries /\ kumaPass'.result = kumaPass.result
      BY <1>3, <1>4, DoneFields
    <2>2. ItemDone /\ IdsAreNumbers'
      BY <1>1, <1>3, <2>1 DEF ItemDone, IdsAreNumbers, IdTables
    <2> QED
      BY <1>1, <1>4, <2>1, <2>2, QuietWorks
  <1>5. CASE kumaPass' = Import!GivesUp(kumaPass) /\ kumaRows' = kumaRows
    BY <1>1, <1>5, GivesUpKeeps
  <1>6. ASSUME NEW result,
               kumaPass' = Import!Recorded(Import!Done(kumaPass), "history", result, id),
               \/ kumaRows' = kumaRows
               \/ /\ id \in Import!There
                  /\ \E kept : kumaRows' = [kumaRows EXCEPT ![id].beats = @ \cup kept]
        PROVE  ImportInv'
    <2> DEFINE e == [step |-> "history", file |-> Import!Now.file, row |-> Import!Now.row,
                     result |-> result, target |-> id]
    <2>1. /\ DOMAIN kumaPass' = PassFields /\ kumaPass'.todo = kumaPass.todo \ {Import!Now}
          /\ kumaPass'.job = kumaPass.job /\ kumaPass'.opts = kumaPass.opts
          /\ kumaPass'.files = kumaPass.files /\ kumaPass'.failed = kumaPass.failed
          /\ kumaPass'.ids = kumaPass.ids /\ kumaPass'.table = kumaPass.table
          /\ kumaPass'.entries = Append(kumaPass.entries, e)
          /\ kumaPass'.result = kumaPass.result
      <3> DEFINE q == Import!Done(kumaPass)
      <3>1. /\ DOMAIN q = PassFields /\ q.todo = kumaPass.todo \ {Import!Now}
            /\ q.job = kumaPass.job /\ q.opts = kumaPass.opts
            /\ q.files = kumaPass.files /\ q.failed = kumaPass.failed
            /\ q.ids = kumaPass.ids /\ q.table = kumaPass.table
            /\ q.entries = kumaPass.entries /\ q.result = kumaPass.result
        BY <1>3, DoneFields
      <3>2. kumaPass' = Import!Recorded(q, "history", result, id)
        BY <1>6
      <3> HIDE DEF id, q
      <3> QED
        BY <3>1, <3>2, RecordedFields
    <2>2. ItemDone /\ IdsAreNumbers'
      BY <1>1, <1>3, <2>1 DEF ItemDone, IdsAreNumbers, IdTables
    <2>3. e.step = "history"
      OBVIOUS
    <2>4. IsSeq(kumaPass'.entries) /\ (Import!Reported)' = Import!Reported \cup {e}
      <3> HIDE DEF e
      <3> QED
        BY <1>1, <2>1, ReportGrows
    <2>5. EntriesWritten
      <3> HIDE DEF e
      <3>1. \A x \in {e} : EntryPoints(x)'
        BY <2>3, PlainEntry
      <3> QED
        BY <1>1, <2>4, <3>1 DEF EntriesWritten
    <2>6. RowsWritten
      <3>1. CASE kumaRows' = kumaRows
        BY <3>1, NoRows
      <3>2. ASSUME id \in Import!There, NEW kept,
                   kumaRows' = [kumaRows EXCEPT ![id].beats = @ \cup kept]
            PROVE  RowsWritten
        <4>1. DOMAIN kumaRows' = DOMAIN kumaRows
          BY <3>2
        <4>2. IsSeq(kumaRows)
          BY DEF ImportInv
        <4>3. kumaRows' = [i \in DOMAIN kumaRows' |-> kumaRows'[i]]
          BY <3>2, Zenon
        <4>4. IsSeq(kumaRows')
          BY <4>1, <4>2, <4>3, SeqChanges
        <4>5. \A i \in DOMAIN kumaRows : i # id => kumaRows'[i] = kumaRows[i]
          BY <3>2
        <4>6. DOMAIN kumaRows[id] = Import!RowFields /\ id \in DOMAIN kumaRows
              /\ kumaRows[id] # Absent
          BY <3>2 DEF ImportInv, Import!There
        <4>7. SameRow(kumaRows'[id], kumaRows[id])
          <5>1. kumaRows'[id] = [kumaRows[id] EXCEPT !.beats = @ \cup kept]
            BY <3>2, <4>6
          <5> HIDE DEF id
          <5> QED
            BY <4>6, <5>1 DEF SameRow, Import!RowFields, Import!Row
        <4> HIDE DEF id
        <4> QED
          BY <4>1, <4>4, <4>5, <4>6, <4>7 DEF RowsWritten, RowsKeep, SameRow
      <3> QED
        BY <1>6, <3>1, <3>2
    <2>7. IdsKept /\ ResultKept
      BY <1>1, <2>1, <2>2 DEF IdsKept, ResultKept, ImportInv, PassInv, PassFits
    <2> QED
      BY <1>1, <2>2, <2>5, <2>6, <2>7, ImportGoesOn DEF ItemWorked
  <1> QED
    BY <1>2, <1>4, <1>5, <1>6

LEMMA TagKeeps ==
    ASSUME ImportInv, Import!TagEntry
    PROVE  ImportInv'
  <1> DEFINE now == Import!Now
             ids == kumaPass.ids["tag"]
             values == Import!FileNow.tags[now.row].values
             came == {v \in DOMAIN values : <<now.row, values[v]>> \in DOMAIN ids}
             target == IF came = {} THEN Absent ELSE ids[<<now.row, values[Import!Min(came)]>>]
             p == [Import!Done(kumaPass) EXCEPT !.result = "imported"]
             result == IF Len(values) = 0 THEN "failed" ELSE kumaPass.result
             e == [step |-> "tag", file |-> now.file, row |-> now.row,
                   result |-> result, target |-> target]
  <1>1. /\ kumaPass # Absent /\ kumaPass.todo # {} /\ now.step = "tag"
        /\ kumaRunning' = kumaRunning /\ kumaJobs' = kumaJobs /\ kumaRows' = kumaRows
        /\ kumaPass' = Import!Recorded(p, "tag", result, target)
    BY DoingIs, Zenon DEF Import!TagEntry
  <1>2. /\ DOMAIN kumaPass = PassFields
        /\ DOMAIN kumaPass.ids = IdTables /\ DOMAIN kumaPass.table = IdTables
        /\ \A x \in DOMAIN kumaPass.ids["tag"] : kumaPass.ids["tag"][x] \in Nat
        /\ \A n \in DOMAIN kumaPass.table["tag"] : kumaPass.table["tag"][n] \in Nat
    BY <1>1, PassIs, Zenon
  <1>3. /\ DOMAIN kumaPass' = PassFields /\ kumaPass'.todo = kumaPass.todo \ {Import!Now}
        /\ kumaPass'.job = kumaPass.job /\ kumaPass'.opts = kumaPass.opts
        /\ kumaPass'.files = kumaPass.files /\ kumaPass'.failed = kumaPass.failed
        /\ kumaPass'.ids = kumaPass.ids /\ kumaPass'.table = kumaPass.table
        /\ kumaPass'.entries = Append(kumaPass.entries, e)
        /\ kumaPass'.result = "imported"
    <2>1. /\ DOMAIN p = PassFields /\ p.todo = kumaPass.todo \ {Import!Now}
          /\ p.job = kumaPass.job /\ p.opts = kumaPass.opts
          /\ p.files = kumaPass.files /\ p.failed = kumaPass.failed
          /\ p.ids = kumaPass.ids /\ p.table = kumaPass.table
          /\ p.entries = kumaPass.entries /\ p.result = "imported"
      BY <1>2, DoneFields DEF PassFields
    <2> HIDE DEF p, target, result
    <2> QED
      BY <1>1, <2>1, RecordedFields
  <1>4. ItemDone /\ IdsAreNumbers'
    BY <1>1, <1>2, <1>3, Zenon DEF ItemDone, IdsAreNumbers, IdTables
  <1>5. IsSeq(kumaPass'.entries) /\ (Import!Reported)' = Import!Reported \cup {e}
    <2> HIDE DEF e
    <2> QED
      BY <1>1, <1>3, ReportGrows, Zenon
  <1>6. /\ now \in ImportPlan /\ now \in kumaPass.todo /\ kumaPass.files \in KumaUploads
    BY <1>1, NowIsFirst, Zenon
  <1>7. came = {} => \E x \in Import!Reported \cup {e} :
                        x.step = "tag" /\ Import!Of(x, now) /\ x.result = "failed"
    <2>8. CASE Len(values) = 0
      <3>1. e.step = "tag" /\ Import!Of(e, now) /\ e.result = "failed"
        BY <2>8, Zenon DEF Import!Of
      <3> QED
        BY <3>1, Zenon
    <2> SUFFICES ASSUME came = {}, Len(values) # 0
        PROVE  \E x \in Import!Reported : /\ x.step = "tag" /\ Import!Of(x, now)
                                           /\ x.result = "failed"
      BY <2>8, Zenon
    <2> HIDE DEF p, e, target
    <2> DEFINE v == Import!Item("variant", now.file, 2, now.row, 1)
    <2>1. v \in ImportPlan /\ Import!Before(v, now)
      BY <1>1, <1>6, TagHasVariant DEF ImportPlan, Import!FileNow
    <2>2. v.step = "variant" /\ v.file = now.file /\ v.row = now.row /\ v.place = 1
      BY DEF Import!Item
    <2>3. v \in ImportPlan \ kumaPass.todo
      BY <1>1, <2>1, NowIsNext
    <2>4. TagAhead(v.file, v.row)
      BY <1>1, <1>6, <2>2 DEF TagAhead
    <2>5. VariantCame(v)
      BY <1>1, <2>2, <2>3, <2>4 DEF ImportInv, PassInv, VariantsCame
    <2>6. 1 \in DOMAIN values
      <3>1. now.file \in DOMAIN kumaPass.files /\ now.row \in DOMAIN kumaPass.files[now.file].tags
        BY <1>1, <1>6, ItemTypes DEF ImportPlan
      <3> QED
        BY <1>6, <3>1, ImportAssumption DEF Import!KumaImportAssumption, Import!FileNow
    <2>7. <<now.row, values[1]>> \notin DOMAIN ids
      BY <2>6
    <2> HIDE DEF v
    <2> QED
      BY <2>2, <2>5, <2>7, Zenon DEF VariantCame, Import!FileNow, Import!Of
  <1>8. came # {} => target # Absent
    <2> SUFFICES ASSUME came # {} PROVE target # Absent
      BY Zenon
    <2>1. came \in SUBSET Nat
      <3>1. now.file \in DOMAIN kumaPass.files /\ now.row \in DOMAIN kumaPass.files[now.file].tags
        BY <1>1, <1>6, ItemTypes, Zenon DEF ImportPlan
      <3>2. DOMAIN values \subseteq Nat
        BY <1>6, <3>1, ImportAssumption DEF Import!KumaImportAssumption, Import!FileNow
      <3> QED
        BY <3>2
    <2>2. Import!Min(came) \in came
      <3> HIDE DEF came
      <3>1. PICK x \in came : \A y \in came : x <= y
        BY <2>1, LeastNumber
      <3> QED
        BY <3>1 DEF Import!Min
    <2>3. target \in Nat
      BY <1>2, <2>2, Zenon
    <2> QED
      BY <2>3, ImportAssumption, Zenon DEF Import!KumaImportAssumption
  <1>9. ASSUME NEW y, y = e PROVE EntryPoints(y)'
    <2>1. y.step = "tag" /\ y.target = target /\ Import!Of(y, now)
      BY <1>9, Zenon DEF Import!Of
    <2>2. CASE came = {}
      <3>1. PICK x \in (Import!Reported)' : x.step = "tag" /\ Import!Of(x, now)
                                            /\ x.result = "failed"
        BY <1>5, <1>7, <2>2, Zenon
      <3>2. Import!Of(x, y)
        BY <2>1, <3>1, Zenon DEF Import!Of
      <3>3. y.target = Absent
        BY <2>1, <2>2, Zenon
      <3> QED
        BY <2>1, <3>1, <3>2, <3>3, Zenon DEF EntryPoints, Import!Of
    <2>3. CASE came # {}
      <3>1. y.target # Absent
        BY <1>8, <2>1, <2>3, Zenon
      <3> QED
        BY <2>1, <3>1, Zenon DEF EntryPoints
    <2> QED
      BY <2>2, <2>3
  <1>10. EntriesWritten
    <2>1. e.step = Import!StepOf("tag") /\ Import!Of(e, now) /\ (Nameless(now) \/ e.result = kumaPass.result)
      BY DEF Import!StepOf, Import!Of, Nameless, Import!FileNow
    <2>2. \A x \in {e} : EntryPoints(x)'
      BY <1>9, Zenon
    <2> HIDE DEF e
    <2> QED
      BY <1>1, <1>5, <2>1, <2>2, Zenon DEF EntriesWritten
  <1>11. IdsKept /\ ResultKept
    BY <1>1, <1>3, <1>4, Zenon DEF IdsKept, ResultKept
  <1> QED
    BY <1>1, <1>4, <1>10, <1>11, NoRows, ImportGoesOn, Zenon DEF ItemWorked

LEMMA VariantKeeps ==
    ASSUME ImportInv, Import!Variant
    PROVE  ImportInv'
  <1> DEFINE now == Import!Now
             tag == Import!FileNow.tags[now.row]
             value == tag.values[now.place]
             key == <<now.row, value>>
             r == Import!Resolve(kumaPass.table["tag"], <<tag.name, value>>,
                                 kumaPass.opts.strategy)
             result == IF r.action = "renamed" \/ (r.action = "skipped" /\ Len(tag.values) = 1)
                       THEN r.action ELSE kumaPass.result
             next == [Import!Done(kumaPass) EXCEPT !.result = result]
             e == [step |-> "tag", file |-> now.file, row |-> now.row,
                   result |-> "failed", target |-> Absent]
  <1>1. /\ kumaPass # Absent /\ kumaPass.todo # {} /\ now.step = "variant"
        /\ kumaRunning' = kumaRunning /\ kumaJobs' = kumaJobs
    BY DoingIs, Zenon DEF Import!Variant
  <1>2. /\ DOMAIN kumaPass = PassFields
        /\ DOMAIN kumaPass.ids = IdTables /\ DOMAIN kumaPass.table = IdTables
        /\ \A x \in DOMAIN kumaPass.ids["tag"] : kumaPass.ids["tag"][x] \in Nat
        /\ \A n \in DOMAIN kumaPass.table["tag"] : kumaPass.table["tag"][n] \in Nat
    BY <1>1, PassIs
  <1>3. /\ DOMAIN next = PassFields /\ next.todo = kumaPass.todo \ {Import!Now}
        /\ next.job = kumaPass.job /\ next.opts = kumaPass.opts
        /\ next.files = kumaPass.files /\ next.failed = kumaPass.failed
        /\ next.ids = kumaPass.ids /\ next.table = kumaPass.table
        /\ next.entries = kumaPass.entries /\ next.result = result
    <2> HIDE DEF result
    <2> QED
      BY <1>2, DoneFields DEF PassFields
  <1>4. \/ /\ r.action = "skipped" /\ kumaRows' = kumaRows
           /\ kumaPass' = [next EXCEPT !.ids["tag"] = Import!Put(@, key, r.id)]
        \/ /\ r.action # "skipped"
           /\ \E ok \in BOOLEAN :
                /\ Import!Creates(Import!Row("tag", r.name), TRUE, ok)
                /\ kumaPass' = IF ok THEN Import!Known(next, "tag", key, r.name, Len(kumaRows'))
                               ELSE Import!Recorded(next, "tag", "failed", Absent)
    <2>1. next = [Import!Done(kumaPass) EXCEPT
                    !.result = IF r.action = "renamed"
                                    \/ (r.action = "skipped" /\ Len(tag.values) = 1)
                               THEN r.action ELSE @]
      BY <1>2, DoneFields DEF PassFields
    <2> QED
      BY <2>1, Zenon DEF Import!Variant
  <1>5. r.action \in {"imported", "renamed", "skipped"} /\ (r.action = "skipped" => r.id \in Nat)
    <2>1. /\ r.action \in {"imported", "renamed", "skipped"}
          /\ r.action = "skipped" =>
                \E n \in DOMAIN kumaPass.table["tag"] : r.id = kumaPass.table["tag"][n]
      BY ResolveTells
    <2> HIDE DEF r
    <2> QED
      BY <1>2, <2>1
  <1>6. kumaPass.result \in {"imported", "renamed"}
    BY <1>1 DEF ImportInv, PassInv, PassFits, SkippedTag
  <1>7. /\ result \in {"imported", "renamed", "skipped"}
        /\ result = "skipped" => r.action = "skipped" /\ Len(tag.values) = 1
    BY <1>5, <1>6
  <1>8. tag = kumaPass.files[now.file].tags[now.row]
    BY DEF Import!FileNow
  <1>9. CASE /\ r.action = "skipped" /\ kumaRows' = kumaRows
             /\ kumaPass' = [next EXCEPT !.ids["tag"] = Import!Put(@, key, r.id)]
    <2> HIDE DEF next, result, r, key
    <2>1. /\ DOMAIN kumaPass' = PassFields /\ kumaPass'.todo = kumaPass.todo \ {Import!Now}
          /\ kumaPass'.job = kumaPass.job /\ kumaPass'.opts = kumaPass.opts
          /\ kumaPass'.files = kumaPass.files /\ kumaPass'.failed = kumaPass.failed
          /\ DOMAIN kumaPass'.ids = IdTables
          /\ kumaPass'.ids["tag"] = Import!Put(kumaPass.ids["tag"], key, r.id)
          /\ kumaPass'.table = kumaPass.table
          /\ kumaPass'.entries = kumaPass.entries /\ kumaPass'.result = result
      BY <1>2, <1>3, <1>9 DEF PassFields, IdTables
    <2>1a. /\ DOMAIN kumaPass'.ids["tag"] = DOMAIN kumaPass.ids["tag"] \cup {key}
           /\ kumaPass'.ids["tag"][key] = r.id
           /\ \A z \in DOMAIN kumaPass.ids["tag"] \ {key} :
                 kumaPass'.ids["tag"][z] = kumaPass.ids["tag"][z]
      BY <2>1 DEF Import!Put
    <2>2. ItemDone /\ IdsAreNumbers'
      BY <1>1, <1>2, <1>5, <1>9, <2>1, <2>1a DEF ItemDone, IdsAreNumbers, IdTables
    <2>3. EntriesWritten
      BY <1>1, <2>1 DEF EntriesWritten, Import!Reported, ImportInv, PassInv, PassFits
    <2>4. \A v \in {now} : VariantCame(v)'
      BY <1>8, <2>1, <2>1a, Zenon DEF VariantCame, key
    <2>5. IdsKept /\ ResultKept
      <3>1. DOMAIN kumaPass.ids["tag"] \subseteq DOMAIN kumaPass'.ids["tag"]
        BY <2>1a
      <3> QED
        BY <1>1, <1>7, <1>8, <1>9, <2>1, <2>2, <2>4, <3>1 DEF IdsKept, ResultKept
    <2> QED
      BY <1>1, <1>9, <2>2, <2>3, <2>5, NoRows, ImportGoesOn DEF ItemWorked
  <1>10. ASSUME r.action # "skipped", NEW ok \in BOOLEAN,
                Import!Creates(Import!Row("tag", r.name), TRUE, ok),
                kumaPass' = IF ok THEN Import!Known(next, "tag", key, r.name, Len(kumaRows'))
                            ELSE Import!Recorded(next, "tag", "failed", Absent)
         PROVE  ImportInv'
    <2> DEFINE row == Import!Row("tag", r.name)
    <2> HIDE DEF next, result, r, key
    <2>1. DOMAIN row = Import!RowFields /\ row.kind = "tag"
      BY RowIs
    <2> HIDE DEF row
    <2>2. Import!Creates(row, TRUE, ok)
      BY <1>10 DEF row
    <2>3. /\ RowsKeep
          /\ ~ok => kumaRows' = kumaRows
          /\ ok => /\ Len(kumaRows') \in Nat \ {0} /\ Len(kumaRows') \in DOMAIN kumaRows'
                   /\ DOMAIN kumaRows' \ DOMAIN kumaRows \subseteq {Len(kumaRows')}
                   /\ \/ kumaRows'[Len(kumaRows')] = Absent
                      \/ /\ ~kumaPass.opts.dry
                         /\ DOMAIN kumaRows'[Len(kumaRows')] = Import!RowFields
                         /\ kumaRows'[Len(kumaRows')].job = kumaPass.job
                         /\ kumaRows'[Len(kumaRows')].from = Import!Now
                         /\ kumaRows'[Len(kumaRows')].kind = "tag"
      BY <1>1, <2>1, <2>2, CreatesOne
    <2>4. RowsWritten
      BY <1>1, <2>3 DEF RowsWritten, NewRow
    <2>5. CASE ok
      <3> DEFINE n == Len(kumaRows')
      <3>1. kumaPass' = Import!Known(next, "tag", key, r.name, n) /\ "tag" \in IdTables
        BY <1>10, <2>5 DEF IdTables
      <3>2. n \in Nat
        BY <2>3, <2>5
      <3> HIDE DEF n
      <3>3. /\ DOMAIN kumaPass' = PassFields /\ kumaPass'.todo = kumaPass.todo \ {Import!Now}
            /\ kumaPass'.job = kumaPass.job /\ kumaPass'.opts = kumaPass.opts
            /\ kumaPass'.files = kumaPass.files /\ kumaPass'.failed = kumaPass.failed
            /\ kumaPass'.entries = kumaPass.entries /\ kumaPass'.result = result
            /\ DOMAIN kumaPass'.ids = IdTables /\ DOMAIN kumaPass'.table = IdTables
            /\ kumaPass'.ids["tag"] = Import!Put(kumaPass.ids["tag"], key, n)
            /\ kumaPass'.table["tag"] = Import!Put(kumaPass.table["tag"], r.name, n)
        BY <1>2, <1>3, <3>1, KnownFields
      <3>3a. /\ DOMAIN kumaPass'.ids["tag"] = DOMAIN kumaPass.ids["tag"] \cup {key}
             /\ kumaPass'.ids["tag"][key] = n
             /\ \A z \in DOMAIN kumaPass.ids["tag"] \ {key} :
                   kumaPass'.ids["tag"][z] = kumaPass.ids["tag"][z]
        BY <3>3 DEF Import!Put
      <3>3b. \A z \in DOMAIN kumaPass'.table["tag"] : kumaPass'.table["tag"][z] \in Nat
        BY <1>2, <3>2, <3>3 DEF Import!Put
      <3>4. ItemDone /\ IdsAreNumbers'
        BY <1>1, <1>2, <3>2, <3>3, <3>3a, <3>3b DEF ItemDone, IdsAreNumbers, IdTables
      <3>5. EntriesWritten
        BY <1>1, <3>3 DEF EntriesWritten, Import!Reported, ImportInv, PassInv, PassFits
      <3>6. \A v \in {now} : VariantCame(v)'
        BY <1>8, <3>3, <3>3a, Zenon DEF VariantCame, key
      <3>7. IdsKept /\ ResultKept
        <4>1. DOMAIN kumaPass.ids["tag"] \subseteq DOMAIN kumaPass'.ids["tag"]
          BY <3>3a
        <4> QED
          BY <1>1, <1>7, <1>10, <3>3, <3>4, <3>6, <4>1 DEF IdsKept, ResultKept
      <3> QED
        BY <1>1, <2>4, <3>4, <3>5, <3>7, ImportGoesOn DEF ItemWorked
    <2>6. CASE ~ok
      <3>1. kumaPass' = Import!Recorded(next, "tag", "failed", Absent)
        BY <1>10, <2>6
      <3>2. /\ DOMAIN kumaPass' = PassFields /\ kumaPass'.todo = kumaPass.todo \ {Import!Now}
            /\ kumaPass'.job = kumaPass.job /\ kumaPass'.opts = kumaPass.opts
            /\ kumaPass'.files = kumaPass.files /\ kumaPass'.failed = kumaPass.failed
            /\ kumaPass'.ids = kumaPass.ids /\ kumaPass'.table = kumaPass.table
            /\ kumaPass'.entries = Append(kumaPass.entries, e) /\ kumaPass'.result = result
        BY <1>3, <3>1, RecordedFields
      <3>3. ItemDone /\ IdsAreNumbers'
        BY <1>1, <1>2, <3>2 DEF ItemDone, IdsAreNumbers, IdTables
      <3>4. IsSeq(kumaPass'.entries) /\ (Import!Reported)' = Import!Reported \cup {e}
        <4> HIDE DEF e
        <4> QED
          BY <1>1, <3>2, ReportGrows
      <3>5. e.step = "tag" /\ Import!Of(e, now) /\ e.result = "failed"
            /\ e.result \notin Import!Succeeded
        BY DEF Import!Of, Import!Succeeded
      <3>6. EntriesWritten
        <4> HIDE DEF e
        <4>1. \A x \in {e} : EntryPoints(x)'
          BY <3>5, PlainEntry
        <4> QED
          BY <1>1, <3>4, <4>1 DEF EntriesWritten
      <3>7. \A v \in {now} : VariantCame(v)'
        <4> HIDE DEF e
        <4> QED
          BY <3>4, <3>5 DEF VariantCame, Import!Of
      <3>8. IdsKept /\ ResultKept
        BY <1>1, <1>7, <1>10, <3>2, <3>3, <3>7 DEF IdsKept, ResultKept
      <3> QED
        BY <1>1, <2>4, <3>3, <3>6, <3>8, ImportGoesOn DEF ItemWorked
    <2> QED
      BY <2>5, <2>6
  <1> QED
    BY <1>4, <1>9, <1>10, Zenon

-----------------------------------------------------------------------------
(* The job *)

LEMMA ImportStarts ==
    Import!Init => ImportInv
  <1> SUFFICES ASSUME Import!Init PROVE ImportInv
    OBVIOUS
  <1>1. IsSeq(kumaRows) /\ IsSeq(kumaJobs)
    <2>1. InstalledRows \in Seq(Import!Range(InstalledRows))
      BY ImportAssumption DEF Import!KumaImportAssumption
    <2> QED
      BY <2>1, EmptyIsSeq DEF Import!Init, IsSeq
  <1>2. kumaPass = Absent /\ kumaJobs = <<>> /\ kumaRows = InstalledRows
    BY DEF Import!Init
  <1>3. ASSUME NEW id \in Import!There
        PROVE  DOMAIN kumaRows[id] = Import!RowFields /\ kumaRows[id].job = 0
    BY <1>2, ImportAssumption DEF Import!KumaImportAssumption, Import!There
  <1> QED
    BY <1>1, <1>2, <1>3 DEF ImportInv, PassInv

LEMMA AcceptKeeps ==
    ASSUME ImportInv, NEW files \in KumaUploads, NEW opts, Import!Accept(files, opts)
    PROVE  ImportInv'
  <1> DEFINE job == [state |-> "queued", entries |-> <<>>, opts |-> opts, files |-> files]
  <1>1. /\ kumaRunning = FALSE /\ kumaJobs' = Append(kumaJobs, job)
        /\ kumaRows' = kumaRows /\ kumaPass' = kumaPass
    BY DEF Import!Accept
  <1>2. kumaPass = Absent
    BY <1>1 DEF ImportInv, PassInv, PassFits
  <1>3. IsSeq(kumaJobs)
    BY DEF ImportInv
  <1>4. DOMAIN job = {"state", "entries", "opts", "files"} /\ job.files \in KumaUploads
    OBVIOUS
  <1> HIDE DEF job
  <1>5. /\ IsSeq(kumaJobs') /\ Len(kumaJobs) \in Nat /\ DOMAIN kumaJobs = 1 .. Len(kumaJobs)
        /\ Len(kumaJobs') = Len(kumaJobs) + 1 /\ DOMAIN kumaJobs' = 1 .. Len(kumaJobs) + 1
        /\ \A j \in DOMAIN kumaJobs : kumaJobs'[j] = kumaJobs[j]
        /\ kumaJobs'[Len(kumaJobs) + 1] = job
    BY <1>1, <1>3, SeqGrows
  <1>6. \A j \in DOMAIN kumaJobs' :
          /\ DOMAIN kumaJobs'[j] = {"state", "entries", "opts", "files"}
          /\ kumaJobs'[j].files \in KumaUploads
    BY <1>4, <1>5 DEF ImportInv
  <1>7. (Import!There)' = Import!There
    BY <1>1 DEF Import!There
  <1>8. \A id \in Import!There :
          /\ DOMAIN kumaRows'[id] = Import!RowFields
          /\ kumaRows'[id].job \in Nat /\ kumaRows'[id].job < Len(kumaJobs')
          /\ kumaRows'[id].job <= Len(kumaJobs')
    BY <1>1, <1>5 DEF ImportInv
  <1> QED
    BY <1>1, <1>2, <1>5, <1>6, <1>7, <1>8
       DEF ImportInv, PassInv, Import!RowFields, Import!Row

\* A pass begins with all of its plan ahead.
LEMMA BeginKeeps ==
    ASSUME ImportInv, Import!Begin
    PROVE  ImportInv'
  <1> DEFINE n == Len(kumaJobs)
             job == kumaJobs[n]
             failed == kumaPass'.failed
             begun(tags, groups, channels, checks) ==
                 [job |-> n, opts |-> job.opts, files |-> job.files,
                  todo |-> Import!Plan(job.files, job.opts), ids |-> Import!NoIds,
                  entries |-> <<>>,
                  table |-> [tag |-> tags, group |-> groups, channel |-> channels,
                             monitor |-> checks],
                  result |-> "imported", expired |-> FALSE, failed |-> FALSE]
  <1>1. /\ kumaRunning /\ kumaPass = Absent /\ kumaJobs # <<>> /\ job.state = "queued"
        /\ kumaRows' = kumaRows /\ kumaRunning' = kumaRunning
        /\ kumaJobs' = [kumaJobs EXCEPT ![n].state = "running"]
    BY DEF Import!Begin
  <1>2. PICK tags \in Import!IdsByName("tag"), groups \in Import!IdsByName("group"),
             channels \in Import!IdsByName("channel"), checks \in Import!IdsByName("monitor") :
           \/ kumaPass' = begun(tags, groups, channels, checks)
           \/ kumaPass' = Import!GivesUp(begun(tags, groups, channels, checks))
    BY Zenon DEF Import!Begin
  <1>3. /\ IsSeq(kumaJobs) /\ n \in Nat /\ DOMAIN kumaJobs = 1 .. n /\ IsSeq(kumaRows)
    BY SeqGrows DEF ImportInv
  <1>4. n \in DOMAIN kumaJobs /\ n # 0
    <2>1. n # 0
      <3>1. PICK S : kumaJobs \in Seq(S)
        BY <1>3 DEF IsSeq
      <3> QED
        BY <1>1, <3>1, EmptySeq
    <2> QED
      BY <1>3, <2>1
  <1>5. /\ DOMAIN job = {"state", "entries", "opts", "files"} /\ job.files \in KumaUploads
    BY <1>4 DEF ImportInv
  <1>6. /\ IsSeq(kumaJobs') /\ Len(kumaJobs') = n /\ DOMAIN kumaJobs' = DOMAIN kumaJobs
        /\ \A j \in DOMAIN kumaJobs : j # n => kumaJobs'[j] = kumaJobs[j]
        /\ kumaJobs'[n] = [job EXCEPT !.state = "running"]
    <2>1. /\ DOMAIN kumaJobs' = DOMAIN kumaJobs
          /\ kumaJobs' = [j \in DOMAIN kumaJobs' |-> kumaJobs'[j]]
          /\ \A j \in DOMAIN kumaJobs : j # n => kumaJobs'[j] = kumaJobs[j]
          /\ kumaJobs'[n] = [job EXCEPT !.state = "running"]
      BY <1>1, <1>4
    <2> QED
      BY <1>3, <2>1, SeqChanges
  <1>7. /\ DOMAIN kumaPass' = PassFields /\ kumaPass'.job = n
        /\ kumaPass'.files = job.files /\ kumaPass'.opts = job.opts
        /\ kumaPass'.todo = (IF failed THEN {} ELSE Import!Plan(job.files, job.opts))
        /\ kumaPass'.ids = Import!NoIds /\ kumaPass'.entries = <<>>
        /\ DOMAIN kumaPass'.table = IdTables /\ kumaPass'.table["tag"] = tags
        /\ kumaPass'.result = "imported"
    <2> HIDE DEF n, job
    <2> DEFINE b == begun(tags, groups, channels, checks)
    <2>1. CASE kumaPass' = b
      BY <2>1 DEF PassFields, IdTables
    <2>2. CASE kumaPass' = [b EXCEPT !.todo = {}, !.failed = TRUE]
      BY <2>2 DEF PassFields, IdTables
    <2> QED
      BY <1>2, <2>1, <2>2, Zenon DEF Import!GivesUp
  <1>8. ImportPlan' = Import!Plan(job.files, job.opts) /\ (Import!Reported)' = {}
    BY <1>7 DEF ImportPlan, Import!Reported
  <1>9. \A name \in DOMAIN tags : tags[name] \in Nat
    <2>1. DOMAIN kumaRows = 1 .. Len(kumaRows) /\ Len(kumaRows) \in Nat
      BY <1>3, SeqGrows
    <2>2. Import!OfKind("tag") \subseteq Nat
      BY <2>1 DEF Import!OfKind, Import!There
    <2> QED
      BY <2>2 DEF Import!IdsByName
  <1>10. PassFits'
    <2>1. IdsAreNumbers'
      BY <1>7, <1>9 DEF IdsAreNumbers, Import!NoIds, IdTables
    <2>2. kumaJobs'[Len(kumaJobs')].state = "running"
      BY <1>5, <1>6
    <2>3. IsSeq(kumaPass'.entries)
      BY <1>7, EmptyIsSeq
    <2> HIDE DEF job, n
    <2> QED
      BY <1>1, <1>4, <1>5, <1>6, <1>7, <2>1, <2>2, <2>3 DEF PassFits
  <1>11. TodoIsRest' /\ VariantsCame' /\ SkippedTag'
    <2> HIDE DEF job, n
    <2> QED
      BY <1>7, <1>8 DEF TodoIsRest, VariantsCame, SkippedTag, TagAhead
  <1>12. RowsAreOwed'
    <2> SUFFICES ASSUME NEW f \in DOMAIN job.files, NEW step \in DOMAIN Import!Table,
                        NEW row \in DOMAIN job.files[f][Import!Table[step]], ~failed
        PROVE  \/ \E i \in kumaPass'.todo :
                     /\ Import!StepOf(i.step) = step /\ i.file = f /\ i.row = row
               \/ /\ ~job.files[f].opens
                  /\ Import!Item("open", f, 0, 0, 0) \in kumaPass'.todo
      <3> HIDE DEF job
      <3> QED
        BY <1>7 DEF RowsAreOwed
    <2> DEFINE file == job.files[f]
    <2>1. Import!FileItems(f, file, job.opts) \subseteq kumaPass'.todo
      <3> HIDE DEF job
      <3> QED
        BY <1>7 DEF Import!Plan
    <2>2. CASE ~file.opens
      <3>1. Import!Item("open", f, 0, 0, 0) \in Import!FileItems(f, file, job.opts)
        BY DEF Import!FileItems
      <3> QED
        BY <2>1, <2>2, <3>1
    <2>3. ASSUME NEW s, NEW stage, NEW place, Import!StepOf(s) = step,
                 Import!Item(s, f, stage, row, place) \in Import!FileItems(f, file, job.opts)
          PROVE  \E i \in kumaPass'.todo :
                     /\ Import!StepOf(i.step) = step /\ i.file = f /\ i.row = row
      <3>1. PICK i \in kumaPass'.todo : i = Import!Item(s, f, stage, row, place)
        BY <2>1, <2>3
      <3>2. i.step = s /\ i.file = f /\ i.row = row
        BY <3>1 DEF Import!Item
      <3> QED
        BY <2>3, <3>2
    <2>4. CASE file.opens /\ step = "tag"
      <3>1. row \in DOMAIN file.tags
        BY <2>4 DEF Import!Table
      <3>2. Import!Item("tag", f, 2, row, Len(file.tags[row].values) + 1)
              \in Import!FileItems(f, file, job.opts)
        <4> HIDE DEF file, job
        <4>1. Import!Item("tag", f, 2, row, Len(file.tags[row].values) + 1)
                \in Import!TagItems(f, file.tags)
          BY <3>1 DEF Import!TagItems
        <4> QED
          BY <2>4, <4>1 DEF Import!FileItems
      <3>3. Import!StepOf("tag") = step
        BY <2>4 DEF Import!StepOf
      <3> QED
        BY <2>3, <3>2, <3>3
    <2>5. CASE file.opens /\ step = "channel"
      <3>1. row \in DOMAIN file.channels
        BY <2>5 DEF Import!Table
      <3>2. Import!Item("channel", f, 4, row, 0) \in Import!FileItems(f, file, job.opts)
        <4> HIDE DEF file, job
        <4> QED
          BY <2>5, <3>1 DEF Import!FileItems, Import!OneEach
      <3>3. Import!StepOf("channel") = step
        BY <2>5 DEF Import!StepOf
      <3> QED
        BY <2>3, <3>2, <3>3
    <2>6. CASE file.opens /\ step = "monitor"
      <3>1. row \in DOMAIN file.monitors
        BY <2>6 DEF Import!Table
      <3>2. \/ Import!Item("group", f, 6, row, 0) \in Import!FileItems(f, file, job.opts)
            \/ Import!Item("monitor", f, 7, row, 0) \in Import!FileItems(f, file, job.opts)
        <4> HIDE DEF file, job
        <4> QED
          BY <2>6, <3>1 DEF Import!FileItems, Import!MonitorItems, Import!OneEach
      <3>3. Import!StepOf("group") = step /\ Import!StepOf("monitor") = step
        BY <2>6 DEF Import!StepOf
      <3> QED
        BY <2>3, <3>2, <3>3
    <2>7. CASE file.opens /\ step = "page"
      <3>1. row \in DOMAIN file.pages
        BY <2>7 DEF Import!Table
      <3>2. Import!Item("page", f, 9, row, 0) \in Import!FileItems(f, file, job.opts)
        <4> HIDE DEF file, job
        <4> QED
          BY <2>7, <3>1 DEF Import!FileItems, Import!OneEach
      <3>3. Import!StepOf("page") = step
        BY <2>7 DEF Import!StepOf
      <3> QED
        BY <2>3, <3>2, <3>3
    <2>8. step \in {"tag", "channel", "monitor", "page"}
      BY DEF Import!Table
    <2> QED
      BY <2>2, <2>4, <2>5, <2>6, <2>7, <2>8, <2>1
         DEF Import!FileItems
  <1>13. WrittenRows'
    <2>1. \A row \in RowsThere : row.job < n
      BY <1>1 DEF ImportInv, RowsThere
    <2>2. \A row \in RowsThere : row.job \in Nat
      BY DEF ImportInv, RowsThere
    <2>3. RowsThere' = RowsThere
      BY <1>1 DEF RowsThere, Import!There
    <2> HIDE DEF n
    <2> QED
      BY <1>3, <1>7, <2>1, <2>2, <2>3 DEF WrittenRows
  <1>14. PassInv'
    BY <1>8, <1>10, <1>11, <1>12, <1>13 DEF PassInv
  <1>15. \A j \in DOMAIN kumaJobs' :
          /\ DOMAIN kumaJobs'[j] = {"state", "entries", "opts", "files"}
          /\ kumaJobs'[j].files \in KumaUploads
    BY <1>5, <1>6 DEF ImportInv
  <1>16. kumaJobs'[Len(kumaJobs')].state # "queued"
    BY <1>10, <1>2 DEF PassFits
  <1> QED
    BY <1>1, <1>3, <1>6, <1>14, <1>15, <1>16
       DEF ImportInv, Import!There, Import!RowFields, Import!Row

\* What happens beside the pass.
LEMMA BesideKeeps ==
    ASSUME ImportInv, kumaRunning' = kumaRunning, kumaJobs' = kumaJobs,
           \/ kumaPass' = kumaPass
           \/ kumaPass # Absent /\ kumaPass' = [kumaPass EXCEPT !.expired = TRUE],
           RowsKeep,
           \A id \in DOMAIN kumaRows' \ DOMAIN kumaRows :
              DOMAIN kumaRows'[id] = Import!RowFields /\ kumaRows'[id].job = 0
    PROVE  ImportInv'
  <1>1. ASSUME NEW id \in (Import!There)'
        PROVE  \/ id \in Import!There /\ SameRow(kumaRows'[id], kumaRows[id])
               \/ DOMAIN kumaRows'[id] = Import!RowFields /\ kumaRows'[id].job = 0
    BY DEF Import!There, RowsKeep
  <1>2. Len(kumaJobs) \in Nat
    BY SeqGrows DEF ImportInv
  <1>3. \A id \in (Import!There)' :
          /\ DOMAIN kumaRows'[id] = Import!RowFields
          /\ kumaRows'[id].job \in Nat /\ kumaRows'[id].job <= Len(kumaJobs)
    BY <1>1, <1>2 DEF ImportInv, SameRow
  <1>4. (kumaJobs # <<>> /\ kumaJobs[Len(kumaJobs)].state = "queued") =>
          \A id \in (Import!There)' : kumaRows'[id].job < Len(kumaJobs)
    <2>1. kumaJobs # <<>> => Len(kumaJobs) # 0
      <3>1. PICK S : kumaJobs \in Seq(S)
        BY DEF ImportInv, IsSeq
      <3> QED
        BY <3>1, EmptySeq
    <2> QED
      BY <1>1, <1>2, <2>1 DEF ImportInv, SameRow
  <1>5. PassInv'
    <2>1. CASE kumaPass = Absent
      BY <2>1 DEF PassInv
    <2>2. CASE kumaPass # Absent
      <3>1. /\ PassFits /\ TodoIsRest /\ RowsAreOwed /\ WrittenRows /\ SkippedTag
            /\ VariantsCame /\ \A e \in Import!Reported : EntryPoints(e)
        BY <2>2 DEF ImportInv, PassInv
      <3>2. /\ DOMAIN kumaPass' = PassFields /\ kumaPass'.job = kumaPass.job
            /\ kumaPass'.todo = kumaPass.todo /\ kumaPass'.failed = kumaPass.failed
            /\ kumaPass'.opts = kumaPass.opts
            /\ kumaPass'.files = kumaPass.files /\ kumaPass'.entries = kumaPass.entries
            /\ kumaPass'.ids = kumaPass.ids /\ kumaPass'.table = kumaPass.table
            /\ kumaPass'.result = kumaPass.result
        BY <3>1 DEF PassFits, PassFields
      <3>3. /\ ImportPlan' = ImportPlan /\ (Import!Reported)' = Import!Reported
            /\ (Import!Now)' = Import!Now
        BY <3>2 DEF ImportPlan, Import!Reported, Import!Now, Import!Before
      <3>4. PassFits' /\ TodoIsRest' /\ VariantsCame'
        <4>1. PassFits'
          BY <3>1, <3>2 DEF PassFits, IdsAreNumbers
        <4>2. TodoIsRest'
          BY <3>1, <3>2, <3>3 DEF TodoIsRest, Import!Before
        <4>3. VariantsCame'
          <5> SUFFICES ASSUME NEW v \in ImportPlan \ kumaPass.todo, v.step = "variant",
                              TagAhead(v.file, v.row)'
              PROVE  VariantCame(v)'
            BY <3>2, <3>3 DEF VariantsCame
          <5>1. TagAhead(v.file, v.row)
            BY <3>2 DEF TagAhead
          <5>2. VariantCame(v)
            BY <3>1, <5>1 DEF VariantsCame
          <5> QED
            BY <3>2, <3>3, <5>2 DEF VariantCame, Import!Of
        <4> QED
          BY <4>1, <4>2, <4>3
      <3>5. RowsAreOwed'
        BY <3>1, <3>2, <3>3 DEF RowsAreOwed
      <3>6. ASSUME NEW row \in RowsThere', row.job = kumaPass.job
            PROVE  \E old \in RowsThere : SameRow(row, old)
        <4>1. PICK id \in (Import!There)' : row = kumaRows'[id]
          BY DEF RowsThere
        <4>2. kumaPass.job # 0
          BY <3>1 DEF PassFits
        <4> QED
          BY <1>1, <3>6, <4>1, <4>2 DEF RowsThere
      <3>7. WrittenRows'
        <4> SUFFICES ASSUME NEW row \in RowsThere', row.job = kumaPass.job
            PROVE  WrittenRow(row)'
          BY <3>2 DEF WrittenRows
        <4>1. PICK old \in RowsThere : SameRow(row, old)
          BY <3>6
        <4>2. WrittenRow(old)
          BY <3>1, <4>1 DEF WrittenRows, SameRow
        <4>3. Gone(row.from)' /\ ~kumaPass'.opts.dry
          BY <3>2, <3>3, <4>1, <4>2 DEF WrittenRow, Gone, SameRow
        <4>4. HasEntry(old) => HasEntry(row)'
          BY <3>3, <4>1 DEF HasEntry, SameRow, Import!Of, Import!StepOf, Import!Succeeded
        <4>5. TagAhead(old.from.file, old.from.row) => TagAhead(row.from.file, row.from.row)'
          BY <3>2, <4>1 DEF TagAhead, SameRow
        <4> QED
          BY <4>1, <4>2, <4>3, <4>4, <4>5 DEF WrittenRow, SameRow
      <3>8. SkippedTag'
        <4> SUFFICES ASSUME kumaPass.result = "skipped", kumaPass.todo # {}
            PROVE  /\ Import!Now.step = "tag"
                   /\ \A row \in RowsThere' : (row.job = kumaPass.job /\ row.kind = "tag") =>
                         ~Import!Of(Import!Now, row.from)
          BY <3>2, <3>3 DEF SkippedTag, Import!Of
        <4>1. ASSUME NEW row \in RowsThere', row.job = kumaPass.job, row.kind = "tag"
              PROVE  ~Import!Of(Import!Now, row.from)
          <5>1. PICK old \in RowsThere : SameRow(row, old)
            BY <3>6, <4>1
          <5> QED
            BY <3>1, <4>1, <5>1 DEF SkippedTag, SameRow
        <4> QED
          BY <3>1, <4>1 DEF SkippedTag
      <3>9. \A e \in Import!Reported : EntryPoints(e)'
        <4> SUFFICES ASSUME NEW e \in Import!Reported PROVE EntryPoints(e)'
          OBVIOUS
        <4>1. EntryPoints(e)
          BY <3>1
        <4>2. (e.target \in DOMAIN kumaRows /\ (kumaRows[e.target] = Absent
                  \/ Import!Of(e, kumaRows[e.target].from))) =>
              (e.target \in DOMAIN kumaRows' /\ (kumaRows'[e.target] = Absent
                  \/ Import!Of(e, kumaRows'[e.target].from)))
          BY DEF RowsKeep, SameRow, Import!Of
        <4> QED
          BY <3>2, <3>3, <4>1, <4>2 DEF EntryPoints, Import!Of, Import!Succeeded
      <3> QED
        BY <3>3, <3>4, <3>5, <3>7, <3>8, <3>9 DEF PassInv
    <2> QED
      BY <2>1, <2>2
  <1> QED
    BY <1>3, <1>4, <1>5 DEF ImportInv, RowsKeep, Import!RowFields, Import!Row

LEMMA ExpireKeeps ==
    ASSUME ImportInv, Import!Expire
    PROVE  ImportInv'
  <1>1. RowsKeep /\ kumaRows' = kumaRows
    BY NoRows DEF RowsWritten, Import!Expire
  <1> QED
    BY <1>1, BesideKeeps DEF Import!Expire

LEMMA OutsideCreatesKeeps ==
    ASSUME ImportInv, NEW kind, NEW name, Import!OutsideCreates(kind, name)
    PROVE  ImportInv'
  <1> DEFINE row == Import!Row(kind, name)
  <1>1. DOMAIN row = Import!RowFields /\ row.job = 0
    BY RowIs
  <1> HIDE DEF row
  <1>2. IsSeq(kumaRows) /\ kumaRows' = Append(kumaRows, row)
    BY DEF ImportInv, Import!OutsideCreates, row
  <1>3. /\ IsSeq(kumaRows') /\ Len(kumaRows) \in Nat /\ DOMAIN kumaRows = 1 .. Len(kumaRows)
        /\ DOMAIN kumaRows' = 1 .. Len(kumaRows) + 1
        /\ \A i \in DOMAIN kumaRows : kumaRows'[i] = kumaRows[i]
        /\ kumaRows'[Len(kumaRows) + 1] = row
    BY <1>2, SeqGrows
  <1>4. RowsKeep
    BY <1>3 DEF RowsKeep, SameRow
  <1> QED
    BY <1>1, <1>3, <1>4, BesideKeeps DEF Import!OutsideCreates

LEMMA OutsideDeletesKeeps ==
    ASSUME ImportInv, NEW id \in Import!There, Import!OutsideDeletes(id)
    PROVE  ImportInv'
  <1>1. kumaRows' = [i \in DOMAIN kumaRows |->
         IF i = id \/ kumaRows[i] = Absent THEN Absent
         ELSE [kumaRows[i] EXCEPT !.tags = @ \ {id}, !.channels = @ \ {id},
                              !.group = IF @ = id THEN Absent ELSE @,
                              !.members = [s \in DOMAIN @ |-> @[s] \ {id}]]]
    BY Zenon DEF Import!OutsideDeletes
  <1>2. DOMAIN kumaRows' = DOMAIN kumaRows /\ kumaRows' = [i \in DOMAIN kumaRows' |-> kumaRows'[i]]
    BY <1>1, Zenon
  <1>3. IsSeq(kumaRows')
    BY <1>2, SeqChanges DEF ImportInv
  <1>4. ASSUME NEW i \in DOMAIN kumaRows, kumaRows[i] # Absent, i # id
        PROVE  SameRow(kumaRows'[i], kumaRows[i])
    <2>1. DOMAIN kumaRows[i] = Import!RowFields
      BY <1>4 DEF ImportInv, Import!There
    <2>2. kumaRows'[i] = [kumaRows[i] EXCEPT
              !.tags = @ \ {id}, !.channels = @ \ {id},
              !.group = IF @ = id THEN Absent ELSE @,
              !.members = [s \in DOMAIN @ |-> @[s] \ {id}]]
      BY <1>1, <1>4, Zenon
    <2> QED
      BY <2>1, <2>2 DEF SameRow, Import!RowFields, Import!Row
  <1>5. RowsKeep
    BY <1>1, <1>2, <1>3, <1>4 DEF RowsKeep
  <1> QED
    BY <1>2, <1>5, BesideKeeps, Zenon DEF Import!OutsideDeletes

LEMMA FinishKeeps ==
    ASSUME ImportInv, Import!Finish
    PROVE  ImportInv'
  <1> DEFINE n == Len(kumaJobs)
  <1>1. /\ kumaPass # Absent /\ kumaPass' = Absent /\ kumaRows' = kumaRows
        /\ kumaPass.job = n /\ n # 0 /\ kumaJobs[n].state # "queued"
    BY DEF Import!Finish, ImportInv, PassInv, PassFits
  <1>2. IsSeq(kumaJobs) /\ n \in Nat /\ DOMAIN kumaJobs = 1 .. n
    BY SeqGrows DEF ImportInv
  <1>3. PICK state \in {"failed", "succeeded", "partial"} :
          \/ kumaJobs' = kumaJobs
          \/ kumaJobs' = [kumaJobs EXCEPT ![kumaPass.job].entries = kumaPass.entries,
                                          ![kumaPass.job].state = state]
    BY DEF Import!Finish, Import!Saved, Import!StateFor
  <1>4. /\ IsSeq(kumaJobs') /\ Len(kumaJobs') = n /\ DOMAIN kumaJobs' = DOMAIN kumaJobs
        /\ kumaJobs'[n].state # "queued"
        /\ \A j \in DOMAIN kumaJobs' :
              /\ DOMAIN kumaJobs'[j] = {"state", "entries", "opts", "files"}
              /\ kumaJobs'[j].files \in KumaUploads
    <2>1. CASE kumaJobs' = kumaJobs
      BY <1>1, <1>2, <2>1 DEF ImportInv
    <2>2. CASE kumaJobs' = [kumaJobs EXCEPT ![kumaPass.job].entries = kumaPass.entries,
                                            ![kumaPass.job].state = state]
      <3>1. n \in DOMAIN kumaJobs
            /\ DOMAIN kumaJobs[n] = {"state", "entries", "opts", "files"}
            /\ kumaJobs[n].files \in KumaUploads
        BY <1>1, <1>2 DEF ImportInv
      <3>2. /\ DOMAIN kumaJobs' = DOMAIN kumaJobs
            /\ kumaJobs' = [j \in DOMAIN kumaJobs' |-> kumaJobs'[j]]
            /\ \A j \in DOMAIN kumaJobs : j # n => kumaJobs'[j] = kumaJobs[j]
        BY <1>1, <2>2
      <3>3. kumaJobs'[n] = [[kumaJobs[n] EXCEPT !.entries = kumaPass.entries]
                              EXCEPT !.state = state]
        BY <1>1, <2>2, <3>1
      <3>4. IsSeq(kumaJobs') /\ Len(kumaJobs') = n
        BY <1>2, <3>2, SeqChanges
      <3>5. /\ DOMAIN kumaJobs'[n] = {"state", "entries", "opts", "files"}
            /\ kumaJobs'[n].files \in KumaUploads /\ kumaJobs'[n].state = state
        BY <3>1, <3>3
      <3> HIDE DEF n
      <3> QED
        BY <3>1, <3>2, <3>4, <3>5 DEF ImportInv
    <2> QED
      BY <1>3, <2>1, <2>2
  <1> HIDE DEF n
  <1> QED
    BY <1>1, <1>4 DEF ImportInv, PassInv, Import!There, Import!RowFields, Import!Row, n

LEMMA ImportStands ==
    ASSUME ImportInv, UNCHANGED Import!vars
    PROVE  ImportInv'
  <1>1. RowsKeep /\ kumaRows' = kumaRows
    BY NoRows DEF RowsWritten, Import!vars
  <1> QED
    BY <1>1, BesideKeeps DEF Import!vars

LEMMA ImportKeeps ==
    ImportInv /\ [Import!Next]_(Import!vars) => ImportInv'
  <1> SUFFICES ASSUME ImportInv, [Import!Next]_(Import!vars) PROVE ImportInv'
    OBVIOUS
  <1>1. CASE UNCHANGED Import!vars
    BY <1>1, ImportStands
  <1>2. ASSUME NEW files \in KumaUploads, NEW opts, Import!Accept(files, opts)
        PROVE  ImportInv'
    BY <1>2, AcceptKeeps
  <1>3. ASSUME NEW row \in RowsMeanwhile, Import!OutsideCreates(row[1], row[2])
        PROVE  ImportInv'
    BY <1>3, OutsideCreatesKeeps
  <1>4. ASSUME NEW id \in Import!There, Import!OutsideDeletes(id)
        PROVE  ImportInv'
    BY <1>4, OutsideDeletesKeeps
  <1> QED
    BY <1>1, <1>2, <1>3, <1>4, BeginKeeps, OpenKeeps, ReadKeeps, VariantKeeps, TagKeeps,
       ChannelKeeps, GroupKeeps, MonitorKeeps, PageKeeps, HistoryKeeps, ExpireKeeps, FinishKeeps
       DEF Import!Next

\* The inductive invariant of an import.
THEOREM ImportSound == Import!Spec => []ImportInv
  <1>1. Import!Init => ImportInv
    BY ImportStarts
  <1>2. ImportInv /\ [Import!Next]_(Import!vars) => ImportInv'
    BY ImportKeeps
  <1> QED
    BY <1>1, <1>2, PTL DEF Import!Spec

\* The report of an import in flight names every row of its files once it has
\* worked through them, every row of the instance that it wrote, and as written
\* nothing else: renames, dry runs, an hour that ran out and API clients that
\* create and delete meanwhile notwithstanding (importer/kuma, pass.run).
THEOREM ReportsAreTrue == Import!Spec => []ReportIsTrue
  <1>1. ImportInv => ReportIsTrue
    <2> SUFFICES ASSUME ImportInv, kumaPass # Absent
        PROVE  Import!RowsAreReported /\ Import!WritesAreReported /\ Import!EntriesAreTrue
      BY DEF ReportIsTrue, Import!ReportIsTrue
    <2>1. /\ PassFits /\ TodoIsRest /\ RowsAreOwed /\ WrittenRows
          /\ \A e \in Import!Reported : EntryPoints(e)
      BY DEF ImportInv, PassInv
    <2>2. Import!RowsAreReported
      BY <2>1 DEF RowsAreOwed, Import!RowsAreReported
    <2>3. Import!WritesAreReported
      <3> SUFFICES ASSUME NEW id \in Import!There, kumaRows[id].job = kumaPass.job
          PROVE  /\ ~kumaPass.opts.dry
                 /\ \/ kumaRows[id].kind = "tag" /\ kumaPass.todo # {}
                    \/ HasEntry(kumaRows[id])
        BY DEF Import!WritesAreReported, HasEntry
      <3>1. WrittenRow(kumaRows[id])
        BY <2>1 DEF WrittenRows, RowsThere
      <3> QED
        BY <3>1 DEF WrittenRow, TagAhead
    <2>4. Import!EntriesAreTrue
      BY <2>1 DEF EntryPoints, Import!EntriesAreTrue
    <2> QED
      BY <2>2, <2>3, <2>4
  <1> QED
    BY <1>1, ImportSound, PTL
=============================================================================

----------------------------- MODULE ProbeProofs -----------------------------
(***************************************************************************)
(* Proofs about four parts of a probe, each for any value of its           *)
(* constants: the ids it gives results (ResultIds), the registrations it   *)
(* looks up (DomainLookup) and what its checkers conclude (Checks), which  *)
(* Lookups names, and the assignments it is told of (AssignmentSync,       *)
(* through Assigning).  The four share no variable: a theorem is about the *)
(* behaviours of one of them.                                              *)
(***************************************************************************)
EXTENDS ResultIds, Assigning, Lookups, TLAPS

-----------------------------------------------------------------------------
(* Ids of results (ResultIds) *)

\* The generator remembers the last id it made.
LastRemembered ==
    /\ Len(ids) = 0 => lastMillis = 0
    /\ Len(ids) > 0 => /\ ids[Len(ids)].millis = lastMillis
                       /\ ids[Len(ids)].counter = counter

\* The inductive invariant.
IdsInv == TypeOK /\ LastRemembered /\ IdsIncrease

\* Before orders ids.
LEMMA BeforeIsTransitive ==
    ASSUME NEW a \in Id, NEW b \in Id, NEW c \in Id, Before(a, b), Before(b, c)
    PROVE  Before(a, c)
  BY ResultIdsAssumption DEF Id, Before

\* An id made of the next reading is after the last one, unless the reading is
\* an older one or the counter comes round.
LEMMA NextIdIsAfter ==
    ASSUME NEW last \in Id, NEW next \in Id, next.millis >= last.millis,
           next.millis = last.millis => /\ last.counter # CounterSize - 1
                                        /\ next.counter = (last.counter + 1) % CounterSize
    PROVE  Before(last, next)
  <1>1. /\ last.millis \in Nat /\ next.millis \in Nat /\ CounterSize \in Nat \ {0}
        /\ last.counter \in 0 .. CounterSize - 1 /\ next.counter \in 0 .. CounterSize - 1
    BY ResultIdsAssumption DEF Id
  <1>2. CASE next.millis # last.millis
    BY <1>1, <1>2 DEF Before
  <1>3. CASE next.millis = last.millis
    <2>1. last.counter + 1 \in 0 .. CounterSize - 1
      BY <1>1, <1>3
    <2>2. (last.counter + 1) % CounterSize = last.counter + 1
      BY <1>1, <2>1
    <2> QED
      BY <1>1, <1>3, <2>2 DEF Before
  <1> QED
    BY <1>2, <1>3

\* Whichever caller takes the counter, and however old its reading.
LEMMA TakeCounterKeeps ==
    ASSUME IdsInv, NEW p \in Callers, TakeCounter(p)
    PROVE  IdsInv'
  <1> DEFINE reading == stamp[p]
  <1>0. Len(ids) \in Nat
    BY DEF IdsInv, TypeOK
  <1> PICK n \in Nat : n = Len(ids)
    BY <1>0
  <1>1. PICK c \in Counters(reading) :
           counter' = c /\ ids' = Append(ids, [millis |-> reading, counter |-> c])
    BY DEF TakeCounter
  <1>2. /\ reading # 0 /\ lastMillis' = reading
        /\ stamp' = [stamp EXCEPT ![p] = 0] /\ clock' = clock
    BY DEF TakeCounter
  <1>3. /\ reading \in Nat /\ n \in Nat /\ lastMillis \in Nat
        /\ counter \in 0 .. CounterSize - 1 /\ ids \in Seq(Id)
        /\ CounterSize \in Nat \ {0} /\ SeedSize \in 1 .. CounterSize
    BY ResultIdsAssumption DEF IdsInv, TypeOK
  <1>4. c \in 0 .. CounterSize - 1
    <2>1. CASE reading = lastMillis
      <3>1. c = (counter + 1) % CounterSize
        BY <1>1, <2>1 DEF Counters
      <3> QED
        BY <1>3, <3>1
    <2>2. CASE reading # lastMillis
      <3>1. c \in 0 .. SeedSize - 1
        BY <1>1, <2>2 DEF Counters
      <3> QED
        BY <1>3, <3>1
    <2> QED
      BY <2>1, <2>2
  <1> DEFINE id == [millis |-> reading, counter |-> c]
  <1>5. id \in Id /\ id.millis = reading /\ id.counter = c
    BY <1>3, <1>4 DEF Id
  <1> HIDE DEF id
  <1>6. ids' = Append(ids, id)
    BY <1>1 DEF id
  <1>7. /\ Len(ids') = n + 1 /\ ids'[n + 1] = id
        /\ \A i \in 1 .. n : ids'[i] = ids[i] /\ ids[i] \in Id
        /\ ids' \in Seq(Id)
    BY <1>3, <1>5, <1>6
  <1>8. TypeOK'
    BY <1>1, <1>2, <1>3, <1>4, <1>7 DEF IdsInv, TypeOK
  <1>9. LastRemembered'
    BY <1>1, <1>2, <1>3, <1>5, <1>7 DEF LastRemembered
  <1>10. n > 0 /\ ~StepsBack(n)' /\ ~ComesRound(n)' => Before(ids[n], id)
    <2> SUFFICES ASSUME n > 0, ~StepsBack(n)', ~ComesRound(n)'
                 PROVE  Before(ids[n], id)
      OBVIOUS
    <2>1. /\ ids[n] \in Id /\ ids'[n] = ids[n]
          /\ ids[n].millis = lastMillis /\ ids[n].counter = counter
      BY <1>3, <1>7 DEF IdsInv, LastRemembered
    <2>2. ~(id.millis < ids[n].millis)
          /\ ~(id.millis = ids[n].millis /\ ids[n].counter = CounterSize - 1)
      BY <1>7, <2>1 DEF StepsBack, ComesRound
    <2>3. ids[n].millis \in Nat /\ id.millis \in Nat
      BY <1>5, <2>1 DEF Id
    <2>4. id.millis = ids[n].millis => c = (ids[n].counter + 1) % CounterSize
      BY <1>1, <1>5, <2>1 DEF Counters
    <2> QED
      BY <1>5, <2>1, <2>2, <2>3, <2>4, NextIdIsAfter
  <1>11. IdsIncrease'
    <2> SUFFICES ASSUME NEW i \in 1 .. n + 1, NEW j \in 1 .. n + 1, i < j,
                        \A k \in i .. j - 1 : ~StepsBack(k)' /\ ~ComesRound(k)'
                 PROVE  Before(ids'[i], ids'[j])
      BY <1>7 DEF IdsIncrease, StepsBack, ComesRound
    <2>1. i \in 1 .. n /\ ids'[i] = ids[i] /\ ids[i] \in Id
      <3>1. i \in 1 .. n
        BY <1>3
      <3> QED
        BY <1>7, <3>1
    <2>2. \A m \in 1 .. n : i < m /\ m <= j => Before(ids[i], ids[m])
      <3> SUFFICES ASSUME NEW m \in 1 .. n, i < m, m <= j
                   PROVE  Before(ids[i], ids[m])
        OBVIOUS
      <3>1. \A k \in i .. m - 1 : ~StepsBack(k) /\ ~ComesRound(k)
        <4> TAKE k \in i .. m - 1
        <4>1. k \in i .. j - 1 /\ k \in 1 .. n /\ k + 1 \in 1 .. n
          BY <1>3, <2>1, SMTT(30)
        <4>2. ids'[k] = ids[k] /\ ids'[k + 1] = ids[k + 1]
          BY <1>7, <4>1
        <4> QED
          BY <4>1, <4>2 DEF StepsBack, ComesRound
      <3> QED
        BY <2>1, <3>1 DEF IdsInv, IdsIncrease
    <2>3. CASE j # n + 1
      <3>1. j \in 1 .. n /\ ids'[j] = ids[j]
        <4>1. j \in 1 .. n
          BY <1>3, <2>3
        <4> QED
          BY <1>7, <4>1
      <3> QED
        BY <2>1, <2>2, <3>1
    <2>4. CASE j = n + 1
      <3>1. n \in i .. j - 1 /\ n > 0 /\ n \in 1 .. n
        BY <1>3, <2>1, <2>4
      <3>2. Before(ids[n], id)
        BY <1>10, <3>1
      <3>3. ids'[j] = id /\ ids[n] \in Id
        BY <1>7, <2>4, <3>1
      <3>4. CASE i = n
        BY <2>1, <3>2, <3>3, <3>4
      <3>5. CASE i # n
        <4>1. Before(ids[i], ids[n])
          BY <1>3, <2>1, <2>2, <2>4, <3>1, <3>5
        <4> QED
          BY <1>5, <2>1, <3>2, <3>3, <4>1, BeforeIsTransitive
      <3> QED
        BY <3>4, <3>5
    <2> QED
      BY <2>3, <2>4
  <1> QED
    BY <1>8, <1>9, <1>11 DEF IdsInv

\* For any number of goroutines, any burst and any setting of the clock: the
\* order of two ids is that of their turns at the counter unless a reading went
\* back, or the counter came round, between the two (NewID, randomCounter).
THEOREM IdsKeepTheirOrder == Spec => []IdsIncrease
  <1>1. Init => IdsInv
    <2> SUFFICES ASSUME Init PROVE IdsInv
      OBVIOUS
    <2>1. Len(ids) = 0
      BY DEF Init
    <2>2. TypeOK
      BY ResultIdsAssumption DEF Init, TypeOK
    <2>3. LastRemembered /\ IdsIncrease
      BY <2>1 DEF Init, LastRemembered, IdsIncrease
    <2> QED
      BY <2>2, <2>3 DEF IdsInv
  <1>2. IdsInv /\ [Next]_vars => IdsInv'
    <2> SUFFICES ASSUME IdsInv, [Next]_vars PROVE IdsInv'
      OBVIOUS
    <2>1. ASSUME UNCHANGED <<lastMillis, counter, ids>>, clock' \in Nat \ {0},
                 stamp' \in [Callers -> Nat]
          PROVE  IdsInv'
      BY <2>1 DEF IdsInv, TypeOK, LastRemembered, IdsIncrease, StepsBack, ComesRound
    <2>2. CASE Tick
      BY <2>1, <2>2, ResultIdsAssumption DEF Tick, IdsInv, TypeOK
    <2>3. ASSUME NEW p \in Callers, ReadClock(p) PROVE IdsInv'
      BY <2>1, <2>3 DEF ReadClock, IdsInv, TypeOK
    <2>4. ASSUME NEW p \in Callers, TakeCounter(p) PROVE IdsInv'
      BY <2>4, TakeCounterKeeps
    <2>5. CASE UNCHANGED vars
      BY <2>1, <2>5 DEF vars, IdsInv, TypeOK
    <2> QED
      BY <2>2, <2>3, <2>4, <2>5 DEF Next
  <1>3. IdsInv => IdsIncrease
    BY DEF IdsInv
  <1> QED
    BY <1>1, <1>2, <1>3, PTL DEF Spec

-----------------------------------------------------------------------------
(* Registrations (DomainLookup) *)

\* How long an answer may be used.
Limit(kind) == IF kind = "error" THEN Hour ELSE Day

\* A cached record was read when it is stamped, or later.
CacheSound == \A d \in Domains : cache[d] # None => cache[d].fetchedAt <= cache[d].read

\* What an attempt is about to store was read after it began; what it is about
\* to conclude from was read so, or was fresh when it began.
AttemptSound(x) ==
    /\ x.step = "store" => x.record \in Lookup!Answer /\ x.began <= x.record.read
    /\ x.step = "verdict" => x.record \in Lookup!Record
           /\ x.began - x.record.read < Limit(x.record.kind)

\* The inductive invariant.
LookupInv ==
    /\ Lookup!TypeOK
    /\ CacheSound
    /\ \A a \in Attempts : at[a] # None => at[a].began <= now /\ AttemptSound(at[a])

-----------------------------------------------------------------------------
(* The operators *)

\* What the registry answers now, or fails to.
LEMMA Answers ==
    ASSUME Lookup!TypeOK, NEW d \in Domains
    PROVE  /\ Lookup!NoAnswer \in Lookup!Answer /\ Lookup!NoAnswer.read = now
           /\ Lookup!FromRegistry(d) \in Lookup!Answer /\ Lookup!FromRegistry(d).read = now
  BY DEF Lookup!TypeOK, Lookup!NoAnswer, Lookup!FromRegistry, Lookup!Answer, Lookup!Kinds

\* An attempt that goes on to another attempt.
LEMMA AttemptsKeepInv ==
    ASSUME LookupInv, NEW a \in Attempts, NEW x,
           at' = [at EXCEPT ![a] = x], UNCHANGED <<registered, changes, now, cache>>,
           table' \in 0 .. MaxTime \cup {None},
           x # None => x \in Lookup!Attempt /\ x.began <= now /\ AttemptSound(x)
    PROVE  LookupInv'
  <1>1. at \in [Attempts -> Lookup!Attempt \cup {None}]
    BY DEF LookupInv, Lookup!TypeOK
  <1>2. /\ at' \in [Attempts -> Lookup!Attempt \cup {None}]
        /\ \A b \in Attempts : at'[b] = IF b = a THEN x ELSE at[b]
    BY <1>1
  <1>3. Lookup!TypeOK' /\ CacheSound'
    BY <1>2 DEF LookupInv, Lookup!TypeOK, CacheSound
  <1>4. \A b \in Attempts : at'[b] # None => at'[b].began <= now /\ AttemptSound(at'[b])
    BY <1>2 DEF LookupInv
  <1> QED
    BY <1>3, <1>4 DEF LookupInv, AttemptSound

\* AfterRdap: to the cache with an answer read now, or on to WHOIS.
LEMMA AfterRdapSound ==
    ASSUME Lookup!DomainAssumption, LookupInv, NEW a \in Attempts, at[a] # None,
           NEW r \in Lookup!Answer, r.read = now, Lookup!AfterRdap(a, r)
    PROVE  \E x \in Lookup!Attempt : /\ at' = [at EXCEPT ![a] = x]
                              /\ x.began <= now /\ AttemptSound(x)
  <1>1. at[a] \in Lookup!Attempt /\ at[a].began <= now
            /\ at \in [Attempts -> Lookup!Attempt \cup {None}]
    BY DEF LookupInv, Lookup!TypeOK
  <1> DEFINE x == [at[a] EXCEPT !.step = "store", !.record = r]
             y == [at[a] EXCEPT !.step = "whois"]
  <1>2. /\ x \in Lookup!Attempt /\ x.began = at[a].began /\ x.step = "store" /\ x.record = r
        /\ y \in Lookup!Attempt /\ y.began = at[a].began /\ y.step = "whois"
    BY <1>1 DEF Lookup!Attempt
  <1>3. at' = [at EXCEPT ![a] = x] \/ at' = [at EXCEPT ![a] = y]
    BY <1>1 DEF Lookup!AfterRdap
  <1> HIDE DEF x, y
  <1>4. AttemptSound(x) /\ AttemptSound(y)
    BY <1>1, <1>2 DEF AttemptSound
  <1> QED
    BY <1>1, <1>2, <1>3, <1>4

-----------------------------------------------------------------------------
(* One lemma for each step *)

LEMMA LookupKeepsInv ==
    ASSUME Lookup!DomainAssumption, LookupInv, NEW a \in Attempts, Lookup!Lookup(a)
    PROVE  LookupInv'
  <1>1. PICK d \in Domains, source \in {"auto", "rdap", "whois"} :
          at' = [at EXCEPT ![a] =
            IF cache[d] # None /\ Lookup!Fresh(cache[d])
            THEN [domain |-> d, source |-> source, began |-> now, step |-> "verdict",
                record |-> cache[d]]
            ELSE [domain |-> d, source |-> source, began |-> now, record |-> None,
                  step |-> IF source = "whois" THEN "whois" ELSE "services"]]
    BY DEF Lookup!Lookup
  <1>2. now \in 0 .. MaxTime /\ (cache[d] # None => cache[d] \in Lookup!Record)
            /\ table \in 0 .. MaxTime \cup {None}
    BY DEF LookupInv, Lookup!TypeOK
  <1>3. now <= now
    BY <1>2
  <1>4. CASE cache[d] # None /\ Lookup!Fresh(cache[d])
    <2>1. PICK x : x = [domain |-> d, source |-> source, began |-> now, step |-> "verdict",
                        record |-> cache[d]]
      OBVIOUS
    <2>2. /\ x \in Lookup!Attempt /\ x.began = now /\ x.step = "verdict" /\ x.record = cache[d]
          /\ x.record \in Lookup!Record
      BY <1>2, <1>4, <2>1 DEF Lookup!Attempt
    <2>3. x.began - x.record.read < Limit(x.record.kind)
      <3>1. /\ cache[d].fetchedAt <= cache[d].read /\ cache[d].fetchedAt \in Int
                   /\ cache[d].read \in Int
            /\ now \in Int
        BY <1>2, <1>4 DEF LookupInv, CacheSound, Lookup!Record
      <3>2. now - cache[d].fetchedAt < Limit(cache[d].kind) /\ Limit(cache[d].kind) \in Int
        BY <1>4 DEF Lookup!Fresh, Limit, Lookup!DomainAssumption
      <3> QED
        BY <2>2, <3>1, <3>2
    <2>4. at' = [at EXCEPT ![a] = x]
      BY <1>1, <1>4, <2>1
    <2> QED
      BY <1>2, <1>3, <2>2, <2>3, <2>4, AttemptsKeepInv DEF AttemptSound, Lookup!Lookup
  <1>5. CASE ~ (cache[d] # None /\ Lookup!Fresh(cache[d]))
    <2>1. PICK x : x = [domain |-> d, source |-> source, began |-> now, record |-> None,
                        step |-> IF source = "whois" THEN "whois" ELSE "services"]
      OBVIOUS
    <2>2. x \in Lookup!Attempt /\ x.began = now /\ x.step \in {"whois", "services"}
      BY <1>2, <2>1 DEF Lookup!Attempt
    <2>3. at' = [at EXCEPT ![a] = x]
      BY <1>1, <1>5, <2>1
    <2> QED
      BY <1>2, <1>3, <2>2, <2>3, AttemptsKeepInv DEF AttemptSound, Lookup!Lookup
  <1> QED
    BY <1>4, <1>5

LEMMA FetchKeepsInv ==
    ASSUME Lookup!DomainAssumption, LookupInv, NEW a \in Attempts,
           Lookup!RdapServices(a) \/ Lookup!ViaRDAP(a) \/ Lookup!ViaWHOIS(a)
    PROVE  LookupInv'
  <1>1. /\ at[a] # None /\ at[a] \in Lookup!Attempt /\ at[a].began <= now
        /\ at \in [Attempts -> Lookup!Attempt \cup {None}] /\ at[a].domain \in Domains
        /\ UNCHANGED <<registered, changes, now, cache>>
        /\ table' \in 0 .. MaxTime \cup {None}
    BY DEF Lookup!RdapServices, Lookup!ViaRDAP, Lookup!ViaWHOIS, LookupInv, Lookup!TypeOK,
       Lookup!Attempt
  <1>2. /\ Lookup!NoAnswer \in Lookup!Answer /\ Lookup!NoAnswer.read = now
        /\ Lookup!FromRegistry(at[a].domain) \in Lookup!Answer
               /\ Lookup!FromRegistry(at[a].domain).read = now
    BY <1>1, Answers DEF LookupInv
  <1>3. \E x \in Lookup!Attempt : at' = [at EXCEPT ![a] = x] /\ x.began <= now /\ AttemptSound(x)
    <2>1. CASE at' = [at EXCEPT ![a].step = "rdap"]
      <3>1. PICK x : x = [at[a] EXCEPT !.step = "rdap"]
        OBVIOUS
      <3>2. x \in Lookup!Attempt /\ x.began = at[a].began /\ x.step = "rdap"
        BY <1>1, <3>1 DEF Lookup!Attempt
      <3>3. at' = [at EXCEPT ![a] = x]
        BY <1>1, <2>1, <3>1 DEF Lookup!Attempt
      <3> QED
        BY <1>1, <3>2, <3>3 DEF AttemptSound
    <2>2. ASSUME NEW r \in Lookup!Answer, r.read = now, Lookup!AfterRdap(a, r)
          PROVE  <1>3
      BY <1>1, <2>2, AfterRdapSound
    <2>3. ASSUME NEW r \in Lookup!Answer, r.read = now,
                 at' = [at EXCEPT ![a].step = "store", ![a].record = r]
          PROVE  <1>3
      <3>1. PICK x : x = [at[a] EXCEPT !.step = "store", !.record = r]
        OBVIOUS
      <3>2. x \in Lookup!Attempt /\ x.began = at[a].began /\ x.step = "store" /\ x.record = r
        BY <1>1, <3>1 DEF Lookup!Attempt
      <3>3. at' = [at EXCEPT ![a] = x]
        BY <1>1, <2>3, <3>1 DEF Lookup!Attempt
      <3> QED
        BY <1>1, <2>3, <3>2, <3>3 DEF AttemptSound
    <2> QED
      BY <1>2, <2>1, <2>2, <2>3 DEF Lookup!RdapServices, Lookup!ViaRDAP, Lookup!ViaWHOIS
  <1> QED
    BY <1>1, <1>3, AttemptsKeepInv

LEMMA StoreKeepsInv ==
    ASSUME Lookup!DomainAssumption, LookupInv, NEW a \in Attempts, Lookup!Store(a)
    PROVE  LookupInv'
  <1>1. /\ at[a] # None /\ at[a] \in Lookup!Attempt /\ at[a].began <= now
               /\ at[a].record \in Lookup!Answer
        /\ at[a].began <= at[a].record.read /\ at \in [Attempts -> Lookup!Attempt \cup {None}]
        /\ cache \in [Domains -> Lookup!Record \cup {None}]
    BY DEF Lookup!Store, LookupInv, Lookup!TypeOK, AttemptSound
  <1>2. PICK r : r = [kind |-> at[a].record.kind, expiry |-> at[a].record.expiry,
                      read |-> at[a].record.read, fetchedAt |-> at[a].began]
    OBVIOUS
  <1>3. r \in Lookup!Record /\ r.fetchedAt <= r.read /\ r.read = at[a].record.read
            /\ r.kind = at[a].record.kind
    BY <1>1, <1>2 DEF Lookup!Answer, Lookup!Record, Lookup!Attempt
  <1>4. PICK x : x = [at[a] EXCEPT !.step = "verdict", !.record = r]
    OBVIOUS
  <1>5. x \in Lookup!Attempt /\ x.began = at[a].began /\ x.step = "verdict" /\ x.record = r
    BY <1>1, <1>3, <1>4 DEF Lookup!Attempt
  <1>6. /\ at' = [at EXCEPT ![a] = x]
        /\ cache' = [d \in Domains |->
               IF d = at[a].domain THEN r
               ELSE IF cache[d] # None /\ at[a].began - cache[d].fetchedAt > PruneAfter THEN None
               ELSE cache[d]]
        /\ UNCHANGED <<registered, changes, now, table>>
    <2>1. [at EXCEPT ![a].step = "verdict", ![a].record = r] = [at EXCEPT ![a] = x]
      BY <1>1, <1>4 DEF Lookup!Attempt
    <2> QED
      BY <1>2, <2>1 DEF Lookup!Store, Lookup!Stamped
  <1>7. x.began - x.record.read < Limit(x.record.kind)
    <2>1. x.began \in Int /\ x.record.read \in Int /\ x.began <= x.record.read
      BY <1>1, <1>3, <1>5 DEF Lookup!Attempt, Lookup!Record
    <2>2. Limit(x.record.kind) \in Nat \ {0}
      BY DEF Limit, Lookup!DomainAssumption
    <2> QED
      BY <2>1, <2>2
  <1>8. \A d \in Domains : cache'[d] = r \/ cache'[d] = None \/ cache'[d] = cache[d]
    BY <1>6
  <1>9. /\ at' \in [Attempts -> Lookup!Attempt \cup {None}]
        /\ \A b \in Attempts : at'[b] = IF b = a THEN x ELSE at[b]
    BY <1>1, <1>5, <1>6
  <1>10. cache' \in [Domains -> Lookup!Record \cup {None}]
    <2>1. cache' = [d \in Domains |-> cache'[d]]
      BY <1>6
    <2> QED
      BY <1>1, <1>3, <1>8, <2>1
  <1>11. CacheSound'
    BY <1>3, <1>8 DEF LookupInv, CacheSound
  <1>12. Lookup!TypeOK'
    BY <1>6, <1>9, <1>10 DEF LookupInv, Lookup!TypeOK
  <1>13. \A b \in Attempts : at'[b] # None => at'[b].began <= now' /\ AttemptSound(at'[b])
    BY <1>1, <1>3, <1>5, <1>6, <1>7, <1>9 DEF LookupInv, AttemptSound
  <1> QED
    BY <1>11, <1>12, <1>13 DEF LookupInv, AttemptSound

-----------------------------------------------------------------------------
(* The theorems *)

\* LookupInv is inductive, whatever the domains and attempts.
THEOREM LookupsSound ==
    ASSUME Lookup!DomainAssumption
    PROVE  Lookup!Spec => []LookupInv
  <1>1. Lookup!Init => LookupInv
    BY DEF Lookup!Init, LookupInv, Lookup!TypeOK, CacheSound, Lookup!DomainAssumption
  <1>2. LookupInv /\ [Lookup!Next]_(Lookup!vars) => LookupInv'
    <2> SUFFICES ASSUME LookupInv, [Lookup!Next]_(Lookup!vars) PROVE LookupInv'
      OBVIOUS
    <2>1. CASE Lookup!Registrant
      <3>1. registered' \in [Domains -> Int \cup {None}] /\ changes' \in 0 .. MaxChanges
        BY <2>1 DEF Lookup!Registrant, LookupInv, Lookup!TypeOK, Lookup!DomainAssumption
      <3>2. UNCHANGED <<now, cache, table, at>>
        BY <2>1 DEF Lookup!Registrant
      <3> QED
        BY <3>1, <3>2 DEF LookupInv, Lookup!TypeOK, CacheSound, AttemptSound
    <2>2. CASE Lookup!Tick
      <3>1. now' = now + 1 /\ now' \in 0 .. MaxTime
                /\ UNCHANGED <<registered, changes, cache, table, at>>
        BY <2>2 DEF Lookup!Tick, LookupInv, Lookup!TypeOK, Lookup!DomainAssumption
      <3>2. \A a \in Attempts : at[a] # None => at[a].began <= now'
        <4>1. \A a \in Attempts : at[a] # None => at[a].began \in Int /\ at[a].began <= now
          BY DEF LookupInv, Lookup!TypeOK, Lookup!Attempt
        <4> QED
          BY <3>1, <4>1 DEF LookupInv, Lookup!TypeOK
      <3> QED
        BY <3>1, <3>2 DEF LookupInv, Lookup!TypeOK, CacheSound, AttemptSound
    <2>3. ASSUME NEW a \in Attempts, Lookup!Lookup(a) PROVE LookupInv'
      BY <2>3, LookupKeepsInv
    <2>4. ASSUME NEW a \in Attempts, Lookup!RdapServices(a) \/ Lookup!ViaRDAP(a) \/ Lookup!ViaWHOIS(a)
          PROVE LookupInv'
      BY <2>4, FetchKeepsInv
    <2>5. ASSUME NEW a \in Attempts, Lookup!Store(a) PROVE LookupInv'
      BY <2>5, StoreKeepsInv
    <2>6. ASSUME NEW a \in Attempts, Lookup!Concludes(a) PROVE LookupInv'
      BY <2>6, AttemptsKeepInv DEF Lookup!Concludes, LookupInv, Lookup!TypeOK
    <2>7. CASE UNCHANGED Lookup!vars
      BY <2>7 DEF Lookup!vars, LookupInv, Lookup!TypeOK, CacheSound, AttemptSound
    <2> QED
      BY <2>1, <2>2, <2>3, <2>4, <2>5, <2>6, <2>7 DEF Lookup!Next
  <1> QED
    BY <1>1, <1>2, PTL DEF Lookup!Spec

\* Two attempts of one domain that overlap, the older storing last, never make
\* an answer outlive its day, or a failure its hour.
THEOREM AnswersAlwaysFresh ==
    ASSUME Lookup!DomainAssumption
    PROVE  Lookup!Spec => []AnswersAreFresh
  <1>1. LookupInv => AnswersAreFresh
    BY DEF LookupInv, AttemptSound, Limit, AnswersAreFresh, Lookup!AnswersAreFresh, Lookup!Verdict
  <1> QED
    BY <1>1, LookupsSound, PTL
-----------------------------------------------------------------------------
(* What the probe is told (AssignmentSync) *)

\* A message takes the probe from running what it accepts of the set h, with
\* the chunks s staged, to the set h2 and the chunks s2.  The sets are ones a
\* handler loaded.
Leads(msg, sets, h, s, h2, s2) ==
    \/ /\ msg.kind = "set" /\ msg.final
       /\ h2 = Assignments!Overlay(s, msg.set) /\ h2 \in sets /\ s2 = Assignments!Nothing
    \/ /\ msg.kind = "set" /\ ~msg.final
       /\ h2 = h /\ s2 = Assignments!Overlay(s, msg.set)
    \/ /\ msg.kind = "delta"
       /\ msg.removed = Assignments!Removed(h, h2)
       /\ msg.added = Assignments!Changed(h, h2) \ Assignments!Present(h)
       /\ msg.set = [m \in Monitors |-> IF m \in Assignments!Changed(h,
              h2) THEN h2[m] ELSE Assignments!Absent]
       /\ h2 \in sets /\ s2 = s
    \/ /\ msg.kind = "reconcile"
       /\ h2 = h /\ s2 = s

\* The messages on the wire lead the probe along held and staged.
IsPath(w, sets, held, staged) ==
    /\ held \in [0 .. Len(w) -> Assignments!Sets]
    /\ staged \in [0 .. Len(w) -> Assignments!Sets]
    /\ \A i \in 1 .. Len(w) :
          Leads(w[i], sets, held[i - 1], staged[i - 1], held[i], staged[i])

\* The monitors a delta still speaks of.
Left(d) == Assignments!Present(d.set) \cup d.removed

\* What is left of the delta d leads the probe, which runs as, to the set h: it
\* is there but for the monitors whose turn has not come, and these are as they
\* were in one set, or where they will be.  One that is added is not there yet.
Applied(h, as, d, sets) ==
    /\ d.added \subseteq Assignments!Present(d.set)
    /\ \A m \in d.removed : h[m] = Assignments!Absent
    /\ \A m \in Assignments!Present(d.set) : h[m] = d.set[m]
    /\ \A m \in d.added : as[m] = Assignments!Absent
    /\ \E b \in sets : \A m \in Monitors :
          IF m \in Left(d)
          THEN as[m] \in {Assignments!Accepted(b)[m], Assignments!Accepted(h)[m]}
          ELSE as[m] = Assignments!Accepted(h)[m]

\* The path starts where the probe will be when the delta in hand is applied.
Begins(h, s) ==
    /\ h \in loads /\ Applied(h, assignments, delta, loads)
    /\ s = staging

\* The chunks of a full set that are not unsent any more.
SentOf(set, rest) == [m \in Monitors |-> IF m \in rest THEN Assignments!Absent ELSE set[m]]

\* And ends where the handler thinks it is.
Ends(step, set, rest, sets, h, s) ==
    /\ step = "send" => /\ set \in sets /\ rest \subseteq Assignments!Present(set)
                        /\ s = SentOf(set, rest)
    /\ step \in {"watch", "settle", "reload"} => set \in sets /\ h = set

OnItsWay ==
    \E held, staged \in [0 .. Len(wire) -> Assignments!Sets] :
        /\ IsPath(wire, loads, held, staged)
        /\ Begins(held[0], staged[0])
        /\ Ends(handler, current, unsent, loads, held[Len(wire)], staged[Len(wire)])

\* A version tells what a monitor was: sets that agree on its version agree on
\* it, and no version is of the future.
VersionsTell(sets, newest) ==
    /\ \A a, b \in sets, m \in Monitors : a[m].version = b[m].version => a[m] = b[m]
    /\ \A a \in sets, m \in Monitors : a[m].version <= newest

\* A stream starts empty.
StreamStarts == handler \in {"none", "load"} => wire = <<>> /\ staging = Assignments!Nothing

\* A handler that waits, or is about to, with nothing to wake it is up to date.
HandlerCurrent ==
    handler \in {"send", "watch"} /\ ~missed /\ owed = 0 /\ ~signal => current = store

SyncTypes == Assignments!TypeOK /\ loads \subseteq Assignments!Sets /\ Assignments!Nothing \in loads

\* The inductive invariant.
SyncInv ==
    /\ SyncTypes
    /\ VersionsTell(loads \cup {store}, assignmentsClock)
    /\ StreamStarts
    /\ OnItsWay
    /\ HandlerCurrent

\* What the operators of the model make of sets of assignments.
LEMMA SetsClosed ==
    /\ Assignments!Absent \in Assignments!Assignment
    /\ Assignments!Nothing \in Assignments!Sets
    /\ \A a \in Assignments!Sets : Assignments!Accepted(a) \in Assignments!Sets
    /\ \A a, b \in Assignments!Sets : Assignments!Overlay(a, b) \in Assignments!Sets
    /\ \A k : \A a \in Assignments!Sets : SentOf(a, k) \in Assignments!Sets
    /\ \A k : \A a \in Assignments!Sets : [m \in Monitors |-> IF m \in k THEN a[m] ELSE Assignments!Absent] \in Assignments!Sets
    /\ \A a \in Assignments!Sets : Assignments!Refusals(a) \subseteq Monitors \X Nat
    /\ \A a \in Assignments!Sets : Assignments!Digest(a) \subseteq Monitors \X Nat
    /\ \A a \in Assignments!Sets : Assignments!Present(a) \subseteq Monitors
  <1>1. Assignments!Absent \in Assignments!Assignment
    BY DEF Assignments!Absent, Assignments!Assignment
  <1>2. Assignments!Nothing \in Assignments!Sets
    BY <1>1 DEF Assignments!Nothing, Assignments!Sets
  <1>3. \A a \in Assignments!Sets : Assignments!Accepted(a) \in Assignments!Sets
    BY <1>1 DEF Assignments!Accepted, Assignments!Sets
  <1>4. \A a, b \in Assignments!Sets : Assignments!Overlay(a, b) \in Assignments!Sets
    BY <1>1 DEF Assignments!Overlay, Assignments!Sets
  <1>5. \A k : \A a \in Assignments!Sets : SentOf(a, k) \in Assignments!Sets
    BY <1>1 DEF SentOf, Assignments!Sets
  <1>6. \A k : \A a \in Assignments!Sets : [m \in Monitors |-> IF m \in k THEN a[m] ELSE Assignments!Absent] \in Assignments!Sets
    BY <1>1 DEF Assignments!Sets
  <1>7. \A a \in Assignments!Sets : Assignments!Present(a) \subseteq Monitors
    BY DEF Assignments!Present
  <1>8. \A a \in Assignments!Sets, m \in Monitors : a[m].version \in Nat
    BY DEF Assignments!Sets, Assignments!Assignment
  <1>9. \A a \in Assignments!Sets : Assignments!Refusals(a) \subseteq Monitors \X Nat
    BY <1>7, <1>8 DEF Assignments!Refusals
  <1>10. \A a \in Assignments!Sets : Assignments!Digest(a) \subseteq Monitors \X Nat
    BY <1>7, <1>8 DEF Assignments!Digest
  <1> QED
    BY <1>1, <1>2, <1>3, <1>4, <1>5, <1>6, <1>7, <1>9, <1>10

\* The messages the handler sends are messages.
LEMMA MessagesSent ==
    /\ \A a \in Assignments!Sets, f \in BOOLEAN : [kind |-> "set", final |-> f,
           set |-> a] \in Assignments!Message
    /\ \A k \in SUBSET (Monitors \X Nat) : [kind |-> "reconcile", digest |-> k] \in Assignments!Message
  BY DEF Assignments!Message

\* Its deltas carry what they are given.
LEMMA DeltasSent ==
    \A a \in Assignments!Sets, j, k \in SUBSET Monitors :
          /\ Assignments!DeltaMessage(j, k, a) \in Assignments!Message
          /\ Assignments!DeltaMessage(j, k, a).kind = "delta"
          /\ Assignments!DeltaMessage(j, k, a).added = j
          /\ Assignments!DeltaMessage(j, k, a).removed = k
          /\ Assignments!DeltaMessage(j, k, a).set = a
  BY DEF Assignments!Message, Assignments!DeltaMessage

\* And those that arrive carry what their kind says.
LEMMA MessagesHeld ==
    ASSUME NEW msg \in Assignments!Message
    PROVE  /\ msg.kind = "set" => msg.set \in Assignments!Sets /\ msg.final \in BOOLEAN
           /\ msg.kind = "delta" => /\ msg.set \in Assignments!Sets
                                    /\ msg.added \subseteq Monitors /\ msg.removed \subseteq Monitors
           /\ msg.kind = "reconcile" => msg.digest \subseteq Monitors \X Nat
           /\ msg.kind \in {"set", "delta", "reconcile"}
  BY DEF Assignments!Message

-----------------------------------------------------------------------------
(* Paths *)

\* With nothing on the wire the probe stays where it is.
LEMMA EmptyPath ==
    ASSUME NEW h \in Assignments!Sets, NEW s \in Assignments!Sets, NEW sets
    PROVE  /\ [i \in 0 .. 0 |-> h] \in [0 .. Len(<<>>) -> Assignments!Sets]
           /\ [i \in 0 .. 0 |-> s] \in [0 .. Len(<<>>) -> Assignments!Sets]
           /\ IsPath(<<>>, sets, [i \in 0 .. 0 |-> h], [i \in 0 .. 0 |-> s])
           /\ [i \in 0 .. 0 |-> h][Len(<<>>)] = h /\ [i \in 0 .. 0 |-> h][0] = h
           /\ [i \in 0 .. 0 |-> s][Len(<<>>)] = s /\ [i \in 0 .. 0 |-> s][0] = s
  BY DEF IsPath

\* Loading another set leaves a path one.
LEMMA PathGrows ==
    ASSUME NEW w \in Seq(Assignments!Message), NEW sets, NEW more, sets \subseteq more,
           NEW held, NEW staged, IsPath(w, sets, held, staged)
    PROVE  IsPath(w, more, held, staged)
  BY DEF IsPath, Leads

\* One more message makes it one step longer.
LEMMA PathAppend ==
    ASSUME NEW w \in Seq(Assignments!Message), NEW sets, NEW held, NEW staged,
           IsPath(w, sets, held, staged), NEW msg \in Assignments!Message,
           NEW h \in Assignments!Sets, NEW s \in Assignments!Sets,
           Leads(msg, sets, held[Len(w)], staged[Len(w)], h, s),
           NEW v, v = Append(w, msg)
    PROVE  \E held2, staged2 :
              /\ IsPath(v, sets, held2, staged2)
              /\ held2[0] = held[0] /\ staged2[0] = staged[0]
              /\ held2[Len(v)] = h /\ staged2[Len(v)] = s
  <1> DEFINE n == Len(w)
             H == [i \in 0 .. n + 1 |-> IF i = n + 1 THEN h ELSE held[i]]
             S == [i \in 0 .. n + 1 |-> IF i = n + 1 THEN s ELSE staged[i]]
  <1>1. n \in Nat /\ Len(v) = n + 1 /\ v[n + 1] = msg /\ \A i \in 1 .. n : v[i] = w[i]
    OBVIOUS
  <1>2. held \in [0 .. n -> Assignments!Sets] /\ staged \in [0 .. n -> Assignments!Sets]
    BY DEF IsPath
  <1>3. H \in [0 .. n + 1 -> Assignments!Sets] /\ S \in [0 .. n + 1 -> Assignments!Sets]
    BY <1>1, <1>2
  <1>4. /\ H[0] = held[0] /\ S[0] = staged[0] /\ H[n + 1] = h /\ S[n + 1] = s
        /\ \A i \in 0 .. n : H[i] = held[i] /\ S[i] = staged[i]
    BY <1>1
  <1>5. \A i \in 1 .. n + 1 : Leads(v[i], sets, H[i - 1], S[i - 1], H[i], S[i])
    <2> TAKE i \in 1 .. n + 1
    <2> HIDE DEF H, S
    <2>1. CASE i = n + 1
      BY <2>1, <1>1, <1>4
    <2>2. CASE i \in 1 .. n
      <3>1. /\ H[i] = held[i] /\ S[i] = staged[i]
            /\ H[i - 1] = held[i - 1] /\ S[i - 1] = staged[i - 1]
        BY <2>2, <1>1, <1>4
      <3>2. Leads(w[i], sets, held[i - 1], staged[i - 1], held[i], staged[i])
        BY <2>2 DEF IsPath
      <3> QED
        BY <3>1, <3>2, <2>2, <1>1
    <2> QED
      BY <2>1, <2>2, <1>1
  <1> HIDE DEF H, S
  <1>6. IsPath(v, sets, H, S)
    BY <1>1, <1>3, <1>5 DEF IsPath
  <1> QED
    BY <1>1, <1>4, <1>6

\* A message that is taken off leaves the rest of the path.
LEMMA PathTail ==
    ASSUME NEW w \in Seq(Assignments!Message), w # <<>>, NEW sets, NEW held, NEW staged,
           IsPath(w, sets, held, staged)
    PROVE  /\ Leads(Head(w), sets, held[0], staged[0], held[1], staged[1])
           /\ held[1] \in Assignments!Sets /\ staged[1] \in Assignments!Sets
           /\ \E held2, staged2 \in [0 .. Len(Tail(w)) -> Assignments!Sets] :
              /\ IsPath(Tail(w), sets, held2, staged2)
              /\ held2[0] = held[1] /\ staged2[0] = staged[1]
              /\ held2[Len(Tail(w))] = held[Len(w)] /\ staged2[Len(Tail(w))] = staged[Len(w)]
  <1> DEFINE n == Len(w)
             v == Tail(w)
             H == [i \in 0 .. n - 1 |-> held[i + 1]]
             S == [i \in 0 .. n - 1 |-> staged[i + 1]]
  <1>1. n \in Nat \ {0} /\ Len(v) = n - 1 /\ Head(w) = w[1] /\ \A i \in 1 .. n - 1 : v[i] = w[i + 1]
    OBVIOUS
  <1>2. held \in [0 .. n -> Assignments!Sets] /\ staged \in [0 .. n -> Assignments!Sets]
    BY DEF IsPath
  <1>3. H \in [0 .. n - 1 -> Assignments!Sets] /\ S \in [0 .. n - 1 -> Assignments!Sets]
    BY <1>1, <1>2
  <1>4. \A i \in 0 .. n - 1 : H[i] = held[i + 1] /\ S[i] = staged[i + 1]
    BY <1>1
  <1>5. \A i \in 1 .. n - 1 : Leads(v[i], sets, H[i - 1], S[i - 1], H[i], S[i])
    <2> TAKE i \in 1 .. n - 1
    <2> HIDE DEF H, S, v
    <2>1. /\ i + 1 \in 1 .. n /\ (i + 1) - 1 = i /\ i - 1 \in 0 .. n - 1 /\ i \in 0 .. n - 1
                 /\ (i - 1) + 1 = i
      BY <1>1
    <2>2. Leads(w[i + 1], sets, held[(i + 1) - 1], staged[(i + 1) - 1], held[i + 1], staged[i + 1])
      BY <2>1 DEF IsPath
    <2>3. H[i] = held[i + 1] /\ S[i] = staged[i + 1]
      BY <2>1, <1>4
    <2>4. H[i - 1] = held[(i - 1) + 1] /\ S[i - 1] = staged[(i - 1) + 1]
      BY <2>1, <1>4
    <2> QED
      BY <2>1, <2>2, <2>3, <2>4, <1>1
  <1>6. Leads(w[1], sets, held[0], staged[0], held[1], staged[1])
    <2>1. Leads(w[1], sets, held[1 - 1], staged[1 - 1], held[1], staged[1])
      BY <1>1 DEF IsPath
    <2> QED
      BY <2>1
  <1>7. held[1] \in Assignments!Sets /\ staged[1] \in Assignments!Sets
    BY <1>1, <1>2
  <1> HIDE DEF H, S, v
  <1>8. H[0] = held[1] /\ S[0] = staged[1] /\ H[n - 1] = held[n] /\ S[n - 1] = staged[n]
    <2>1. 0 \in 0 .. n - 1 /\ n - 1 \in 0 .. n - 1 /\ 0 + 1 = 1 /\ (n - 1) + 1 = n
      BY <1>1
    <2> QED
      BY <2>1, <1>4
  <1>9. IsPath(v, sets, H, S)
    BY <1>1, <1>3, <1>5 DEF IsPath
  <1>10. \E held2, staged2 \in [0 .. Len(v) -> Assignments!Sets] :
              /\ IsPath(v, sets, held2, staged2)
              /\ held2[0] = held[1] /\ staged2[0] = staged[1]
              /\ held2[Len(v)] = held[n] /\ staged2[Len(v)] = staged[n]
    BY <1>1, <1>3, <1>8, <1>9
  <1> QED
    BY <1>10, <1>6, <1>7, <1>1 DEF v

-----------------------------------------------------------------------------
(* Versions *)

\* A write takes a version no set has had.
LEMMA EditsTell ==
    ASSUME SyncTypes, VersionsTell(loads \cup {store}, assignmentsClock),
           NEW m \in Monitors, NEW b \in Bodies \cup {NoBody}, Assignments!Edit(m, b)
    PROVE  VersionsTell(loads \cup {store'}, assignmentsClock')
  <1>1. assignmentsClock \in Nat /\ assignmentsClock' = assignmentsClock + 1
            /\ store \in Assignments!Sets /\ loads \subseteq Assignments!Sets
        /\ Assignments!Nothing \in loads
    BY DEF SyncTypes, Assignments!TypeOK, Assignments!Edit
  <1>2. /\ \A k \in Monitors \ {m} : store'[k] = store[k]
        /\ store'[m] = IF b = NoBody THEN Assignments!Absent ELSE [version |-> assignmentsClock + 1,
               body |-> b]
    BY <1>1 DEF Assignments!Edit, Assignments!Sets
  <1>3. \A a \in loads \cup {store}, k \in Monitors : a[k].version \in Nat
    BY <1>1 DEF Assignments!Sets, Assignments!Assignment
  <1>4. \A k \in Monitors : Assignments!Nothing[k] = Assignments!Absent
            /\ Assignments!Absent.version = 0
    BY DEF Assignments!Nothing, Assignments!Absent
  <1>5. /\ \A a, c \in loads \cup {store}, k \in Monitors : a[k].version = c[k].version => a[k] = c[k]
        /\ \A a \in loads \cup {store}, k \in Monitors : a[k].version <= assignmentsClock
    BY DEF VersionsTell
  <1>6. store'[m].version <= assignmentsClock + 1
    BY <1>1, <1>2, <1>4
  <1>7. \A a \in loads : a[m].version = store'[m].version => a[m] = store'[m]
    <2> TAKE a \in loads
    <2>1. a[m].version <= assignmentsClock /\ a[m].version \in Nat
      BY <1>3, <1>5
    <2>2. CASE b = NoBody
      BY <2>2, <1>1, <1>2, <1>4, <1>5
    <2>3. CASE b # NoBody
      BY <2>3, <2>1, <1>1, <1>2
    <2> QED
      BY <2>2, <2>3
  <1>8. \A a, c \in loads \cup {store'}, k \in Monitors : a[k].version = c[k].version => a[k] = c[k]
    BY <1>2, <1>5, <1>7
  <1>9. \A a \in loads \cup {store'}, k \in Monitors : a[k].version <= assignmentsClock + 1
    BY <1>1, <1>2, <1>3, <1>5, <1>6
  <1> QED
    BY <1>1, <1>8, <1>9 DEF VersionsTell

\* diff leaves nothing out: sets whose versions agree are equal.
LEMMA NoDiffNoChange ==
    ASSUME NEW sets, sets \subseteq Assignments!Sets, NEW newest, VersionsTell(sets, newest),
           NEW a \in sets, NEW b \in sets,
           Assignments!Changed(a, b) \cup Assignments!Removed(a, b) = {}
    PROVE  a = b
  <1>1. a \in Assignments!Sets /\ b \in Assignments!Sets
    OBVIOUS
  <1>2. \A m \in Monitors : a[m] = b[m]
    <2> TAKE m \in Monitors
    <2>1. CASE b[m] = Assignments!Absent
      BY <2>1 DEF Assignments!Removed, Assignments!Present
    <2>2. CASE b[m] # Assignments!Absent
      BY <2>2 DEF Assignments!Changed, Assignments!Present, VersionsTell
    <2> QED
      BY <2>1, <2>2
  <1> QED
    BY <1>1, <1>2 DEF Assignments!Sets

\* A probe that runs what it accepts of the set a, and takes up the delta to the
\* set b, has the whole of it left.
LEMMA DeltaTaken ==
    ASSUME NEW sets, sets \subseteq Assignments!Sets, NEW newest, VersionsTell(sets, newest),
           NEW a \in sets, NEW b \in sets, NEW as, NEW msg,
           \A m \in Monitors : as[m] = Assignments!Accepted(a)[m],
           msg.removed = Assignments!Removed(a, b),
           msg.added = Assignments!Changed(a, b) \ Assignments!Present(a),
           msg.set = [m \in Monitors |-> IF m \in Assignments!Changed(a,
               b) THEN b[m] ELSE Assignments!Absent],
           NEW loaded, a \in loaded
    PROVE  Applied(b, as, msg, loaded)
  <1>1. \A m \in Monitors : /\ Assignments!Accepted(a)[m] = IF a[m].body \in Valid THEN a[m] ELSE Assignments!Absent
                            /\ Assignments!Accepted(b)[m] = IF b[m].body \in Valid THEN b[m] ELSE Assignments!Absent
    BY DEF Assignments!Accepted
  <1>2. Assignments!Present(msg.set) = Assignments!Changed(a, b)
    BY DEF Assignments!Changed, Assignments!Present
  <1>3. msg.added \subseteq Assignments!Present(msg.set)
    BY <1>2
  <1>4. \A m \in msg.removed : b[m] = Assignments!Absent
    BY DEF Assignments!Removed, Assignments!Present
  <1>5. \A m \in Assignments!Present(msg.set) : b[m] = msg.set[m]
    BY <1>2 DEF Assignments!Changed, Assignments!Present
  <1>6. \A m \in msg.added : as[m] = Assignments!Absent
    BY <1>1 DEF Assignments!Changed, Assignments!Present
  <1>7. ASSUME NEW m \in Monitors, m \notin Left(msg)
        PROVE  as[m] = Assignments!Accepted(b)[m]
    <2>1. m \notin Assignments!Removed(a, b) /\ m \notin Assignments!Changed(a, b)
      BY <1>7, <1>2 DEF Left
    <2>2. a[m] = b[m]
      <3>1. CASE b[m] = Assignments!Absent
        BY <3>1, <2>1 DEF Assignments!Removed, Assignments!Present
      <3>2. CASE b[m] # Assignments!Absent
        BY <3>2, <2>1 DEF Assignments!Changed, Assignments!Present, VersionsTell
      <3> QED
        BY <3>1, <3>2
    <2> QED
      BY <2>2, <1>1
  <1> QED
    BY <1>3, <1>4, <1>5, <1>6, <1>7 DEF Applied

\* A step of applyDelta that leaves the monitor m where the set h has it, and
\* the others alone, leaves the probe on its way to h.
LEMMA TurnTaken ==
    ASSUME NEW h \in Assignments!Sets, NEW sets, NEW d \in Assignments!Message, d.kind = "delta",
           NEW as \in Assignments!Sets, Applied(h, as, d, sets), NEW m \in Monitors,
           NEW as2, \A k \in Monitors \ {m} : as2[k] = as[k],
           as2[m] = Assignments!Accepted(h)[m],
           NEW d2, d2 = Assignments!DeltaMessage(d.added \ {m}, d.removed \ {m},
                            [d.set EXCEPT ![m] = Assignments!Absent])
    PROVE  Applied(h, as2, d2, sets)
  <1>1. d.set \in Assignments!Sets /\ d.added \subseteq Monitors /\ d.removed \subseteq Monitors
    BY MessagesHeld
  <1>2. /\ d2.added = d.added \ {m} /\ d2.removed = d.removed \ {m}
        /\ d2.set = [d.set EXCEPT ![m] = Assignments!Absent]
    BY DEF Assignments!DeltaMessage
  <1>3. /\ \A k \in Monitors \ {m} : d2.set[k] = d.set[k]
        /\ d2.set[m] = Assignments!Absent
    BY <1>1, <1>2 DEF Assignments!Sets
  <1>4. Assignments!Present(d2.set) = Assignments!Present(d.set) \ {m}
    BY <1>3 DEF Assignments!Present
  <1>5. Left(d2) = Left(d) \ {m}
    BY <1>2, <1>4 DEF Left
  <1>6. Left(d) \subseteq Monitors /\ Assignments!Present(d.set) \subseteq Monitors
    BY <1>1 DEF Left, Assignments!Present
  <1>7. d2.added \subseteq Assignments!Present(d2.set)
    BY <1>2, <1>4 DEF Applied
  <1>8. \A k \in d2.removed : h[k] = Assignments!Absent
    BY <1>2 DEF Applied
  <1>9. \A k \in Assignments!Present(d2.set) : h[k] = d2.set[k]
    BY <1>3, <1>4, <1>6 DEF Applied
  <1>10. \A k \in d2.added : as2[k] = Assignments!Absent
    BY <1>1, <1>2 DEF Applied
  <1> PICK b \in sets : \A k \in Monitors :
          IF k \in Left(d)
          THEN as[k] \in {Assignments!Accepted(b)[k], Assignments!Accepted(h)[k]}
          ELSE as[k] = Assignments!Accepted(h)[k]
    BY DEF Applied
  <1>11. \A k \in Monitors :
          IF k \in Left(d2)
          THEN as2[k] \in {Assignments!Accepted(b)[k], Assignments!Accepted(h)[k]}
          ELSE as2[k] = Assignments!Accepted(h)[k]
    BY <1>5
  <1> QED
    BY <1>7, <1>8, <1>9, <1>10, <1>11 DEF Applied

\* So does unassigning a monitor before its refusal is noted.
LEMMA RefusedGone ==
    ASSUME NEW h \in Assignments!Sets, NEW sets, NEW d \in Assignments!Message, d.kind = "delta",
           NEW as \in Assignments!Sets, Applied(h, as, d, sets), NEW m \in Monitors,
           NEW as2, \A k \in Monitors \ {m} : as2[k] = as[k],
           as2[m] = Assignments!Absent, Assignments!Accepted(h)[m] = Assignments!Absent
    PROVE  Applied(h, as2, d, sets)
  <1>1. d.added \subseteq Monitors
    BY MessagesHeld
  <1>2. \A k \in d.added : as2[k] = Assignments!Absent
    BY <1>1 DEF Applied
  <1> PICK b \in sets : \A k \in Monitors :
          IF k \in Left(d)
          THEN as[k] \in {Assignments!Accepted(b)[k], Assignments!Accepted(h)[k]}
          ELSE as[k] = Assignments!Accepted(h)[k]
    BY DEF Applied
  <1>3. \A k \in Monitors :
          IF k \in Left(d)
          THEN as2[k] \in {Assignments!Accepted(b)[k], Assignments!Accepted(h)[k]}
          ELSE as2[k] = Assignments!Accepted(h)[k]
    OBVIOUS
  <1> QED
    BY <1>2, <1>3 DEF Applied

\* With no delta in hand the probe runs exactly what it accepts of the set.
LEMMA NoneLeft ==
    ASSUME NEW h, NEW as, NEW d, NEW sets, Applied(h, as, d, sets), Left(d) = {}
    PROVE  \A m \in Monitors : as[m] = Assignments!Accepted(h)[m]
  BY DEF Applied

\* Once a full set is applied there is none.
LEMMA SetApplied ==
    ASSUME NEW h, NEW d, Left(d) = {}, NEW sets, h \in sets, d.added \subseteq Assignments!Present(d.set)
    PROVE  Applied(h, Assignments!Accepted(h), d, sets)
  BY DEF Applied, Left

\* More sets loaded leave the probe on its way.
LEMMA AppliedGrows ==
    ASSUME NEW h, NEW as, NEW d, NEW sets, NEW more, sets \subseteq more, Applied(h, as, d, sets)
    PROVE  Applied(h, as, d, more)
  BY DEF Applied

\* With nothing unsent the whole set is sent.
LEMMA AllSent ==
    ASSUME NEW set \in Assignments!Sets
    PROVE  SentOf(set, {}) = set
  BY DEF SentOf, Assignments!Sets

-----------------------------------------------------------------------------
(* The steps *)

\* A step of applyDelta deals with one monitor: it is added or updated, refused
\* while it is not assigned, unassigned because it is about to be refused, or
\* removed.
Assigned(m) ==
    /\ m \in Assignments!Present(delta.set) /\ delta.set[m].body \in Valid
    /\ Assignments!SetAssignment(m, delta.set[m]) /\ Assignments!Passes(m)
    /\ UNCHANGED rejections

Refused(m) ==
    /\ m \in Assignments!Present(delta.set) /\ delta.set[m].body \notin Valid
    /\ m \in delta.added \/ assignments[m] = Assignments!Absent
    /\ Assignments!AddRejection(m) /\ Assignments!Passes(m) /\ UNCHANGED assignments

Unassigned(m) ==
    /\ m \in Assignments!Present(delta.set) /\ delta.set[m].body \notin Valid
    /\ Assignments!SetAssignment(m, Assignments!Absent) /\ UNCHANGED <<delta, rejections>>

Dropped(m) ==
    /\ m \in delta.removed
    /\ Assignments!SetAssignment(m, Assignments!Absent) /\ Assignments!Passes(m)
    /\ UNCHANGED rejections

TurnOf(m) == Assigned(m) \/ Refused(m) \/ Unassigned(m) \/ Dropped(m)

LEMMA TurnsAre ==
    ASSUME SyncTypes, OnItsWay, Assignments!ApplyOne
    PROVE  \E m \in Monitors : TurnOf(m)
  <1>1. delta.added \subseteq Assignments!Present(delta.set)
    BY DEF OnItsWay, Begins, Applied
  <1>2. delta.removed \subseteq Monitors /\ Assignments!Present(delta.set) \subseteq Monitors
    BY MessagesHeld DEF SyncTypes, Assignments!TypeOK, Assignments!Present
  <1>3. CASE Assignments!ApplyAdded
    BY <1>1, <1>2, <1>3 DEF Assignments!ApplyAdded, TurnOf, Assigned, Refused
  <1>4. CASE Assignments!ApplyUpdated
    BY <1>2, <1>4 DEF Assignments!ApplyUpdated, TurnOf, Assigned, Refused, Unassigned
  <1>5. CASE Assignments!ApplyRemoved
    BY <1>2, <1>5 DEF Assignments!ApplyRemoved, TurnOf, Dropped
  <1> QED
    BY <1>3, <1>4, <1>5 DEF Assignments!ApplyOne

LEMMA TurnTypes ==
    ASSUME SyncTypes, NEW m \in Monitors, TurnOf(m)
    PROVE  /\ assignments' \in Assignments!Sets /\ delta' \in Assignments!Message
           /\ delta'.kind = "delta" /\ rejections' \subseteq Monitors \X Nat
  <1>1. /\ delta \in Assignments!Message /\ delta.kind = "delta"
        /\ assignments \in Assignments!Sets /\ rejections \subseteq Monitors \X Nat
    BY DEF SyncTypes, Assignments!TypeOK
  <1>2. /\ delta.set \in Assignments!Sets
        /\ delta.added \subseteq Monitors /\ delta.removed \subseteq Monitors
    BY <1>1, MessagesHeld
  <1>3. delta.set[m] \in Assignments!Assignment /\ delta.set[m].version \in Nat
    BY <1>2 DEF Assignments!Sets, Assignments!Assignment
  <1>4. [delta.set EXCEPT ![m] = Assignments!Absent] \in Assignments!Sets
    BY <1>2, SetsClosed DEF Assignments!Sets
  <1>5. Assignments!Rest(m) \in Assignments!Message /\ Assignments!Rest(m).kind = "delta"
    BY <1>2, <1>4, DeltasSent DEF Assignments!Rest
  <1>6. delta' \in {delta, Assignments!Rest(m)}
    BY DEF TurnOf, Assigned, Refused, Unassigned, Dropped, Assignments!Passes
  <1>7. assignments' \in Assignments!Sets
    BY <1>1, <1>3, SetsClosed DEF TurnOf, Assigned, Refused, Unassigned, Dropped,
       Assignments!SetAssignment, Assignments!Sets
  <1>8. rejections' \subseteq Monitors \X Nat
    BY <1>1, <1>3 DEF TurnOf, Assigned, Refused, Unassigned, Dropped,
       Assignments!AddRejection, Assignments!Reject
  <1> QED
    BY <1>1, <1>5, <1>6, <1>7, <1>8

\* And leaves the probe on its way to the set the delta leads to.
LEMMA TurnKeeps ==
    ASSUME SyncTypes, NEW m \in Monitors, TurnOf(m), NEW h \in Assignments!Sets,
           Applied(h, assignments, delta, loads)
    PROVE  Applied(h, assignments', delta', loads)
  <1>1. /\ delta \in Assignments!Message /\ delta.kind = "delta"
        /\ assignments \in Assignments!Sets
    BY DEF SyncTypes, Assignments!TypeOK
  <1>2. /\ m \in delta.removed => h[m] = Assignments!Absent
        /\ m \in Assignments!Present(delta.set) => h[m] = delta.set[m]
        /\ m \in delta.added => assignments[m] = Assignments!Absent
    BY DEF Applied
  <1>3. Assignments!Accepted(h)[m] = IF h[m].body \in Valid THEN h[m] ELSE Assignments!Absent
    BY DEF Assignments!Accepted
  <1>4. ASSUME Assignments!Passes(m), \A k \in Monitors \ {m} : assignments'[k] = assignments[k],
               assignments'[m] = Assignments!Accepted(h)[m]
        PROVE  Applied(h, assignments', delta', loads)
    BY <1>1, <1>4, TurnTaken DEF Assignments!Passes, Assignments!Rest
  <1>5. CASE Assigned(m)
    <2>1. /\ \A k \in Monitors \ {m} : assignments'[k] = assignments[k]
          /\ assignments'[m] = delta.set[m]
      BY <1>1, <1>5 DEF Assigned, Assignments!SetAssignment, Assignments!Sets
    <2> QED
      BY <1>2, <1>3, <1>4, <1>5, <2>1 DEF Assigned
  <1>6. CASE Refused(m)
    BY <1>2, <1>3, <1>4, <1>6 DEF Refused
  <1>7. ASSUME Assignments!SetAssignment(m, Assignments!Absent)
        PROVE  /\ \A k \in Monitors \ {m} : assignments'[k] = assignments[k]
               /\ assignments'[m] = Assignments!Absent
    BY <1>1, <1>7 DEF Assignments!SetAssignment, Assignments!Sets
  <1>8. CASE Unassigned(m)
    <2>1. delta' = delta /\ Assignments!Accepted(h)[m] = Assignments!Absent
      BY <1>2, <1>3, <1>8 DEF Unassigned
    <2>2. /\ \A k \in Monitors \ {m} : assignments'[k] = assignments[k]
          /\ assignments'[m] = Assignments!Absent
      BY <1>7, <1>8 DEF Unassigned
    <2> QED
      BY <1>1, <2>1, <2>2, RefusedGone
  <1>9. CASE Dropped(m)
    BY <1>2, <1>3, <1>4, <1>7, <1>9 DEF Dropped
  <1> QED
    BY <1>5, <1>6, <1>8, <1>9 DEF TurnOf

LEMMA SyncTypesStep ==
    ASSUME SyncTypes, OnItsWay, Assignments!Next
    PROVE  SyncTypes'
  <1> USE SetsClosed
  <1>0. <<>> \in Seq(Assignments!Message)
    OBVIOUS
  <1>1. ASSUME NEW m \in Monitors, NEW b \in Bodies \cup {NoBody}, Assignments!Edit(m, b)
        PROVE SyncTypes'
    <2>1. store' \in Assignments!Sets
      <3>1. assignmentsClock' \in Nat /\ [version |-> assignmentsClock',
                body |-> b] \in Assignments!Assignment
        BY <1>1 DEF Assignments!Edit, SyncTypes, Assignments!TypeOK, Assignments!Assignment
      <3> QED
        BY <1>1, <3>1 DEF Assignments!Edit, SyncTypes, Assignments!TypeOK, Assignments!Sets
    <2> QED
      BY <1>1, <2>1 DEF Assignments!Edit, SyncTypes, Assignments!TypeOK, Assignments!storeVars,
         Assignments!handlerVars, Assignments!probeVars
  <1>2. CASE Assignments!Notify
    BY <1>2 DEF Assignments!Notify, SyncTypes, Assignments!TypeOK, Assignments!handlerVars,
       Assignments!probeVars
  <1>3. CASE Assignments!SkipNotify
    BY <1>3 DEF Assignments!SkipNotify, SyncTypes, Assignments!TypeOK, Assignments!handlerVars,
       Assignments!probeVars
  <1>4. CASE Assignments!OpenStream
    BY <1>0, <1>4 DEF Assignments!OpenStream, SyncTypes, Assignments!TypeOK, Assignments!storeVars
  <1>5. CASE Assignments!LoadSet
    BY <1>5 DEF Assignments!LoadSet, SyncTypes, Assignments!TypeOK, Assignments!storeVars,
       Assignments!probeVars
  <1>6. CASE Assignments!SendChunk
    <2> PICK chunk \in SUBSET unsent :
          /\ wire' = Append(wire, Assignments!SetMessage(chunk))
          /\ unsent' = unsent \ chunk
          /\ handler' = Assignments!AfterChunk(chunk)
      BY <1>6 DEF Assignments!SendChunk
    <2>1. current \in Assignments!Sets /\ unsent \subseteq Monitors
      BY DEF SyncTypes, Assignments!TypeOK
    <2>2. Assignments!SetMessage(chunk) \in Assignments!Message
      BY <2>1, MessagesSent DEF Assignments!SetMessage, Assignments!Final
    <2>3. wire' \in Seq(Assignments!Message)
      BY <2>2 DEF SyncTypes, Assignments!TypeOK
    <2>4. /\ handler' \in {"none", "load", "send", "watch", "settle", "reload"}
          /\ unsent' # {} => handler' = "send"
      BY DEF Assignments!AfterChunk
    <2> QED
      BY <1>6, <2>3, <2>4 DEF Assignments!SendChunk, SyncTypes, Assignments!TypeOK,
         Assignments!storeVars, Assignments!probeVars
  <1>7. CASE Assignments!Wake
    BY <1>7 DEF Assignments!Wake, SyncTypes, Assignments!TypeOK, Assignments!storeVars,
       Assignments!probeVars
  <1>8. CASE Assignments!Settle
    BY <1>8 DEF Assignments!Settle, SyncTypes, Assignments!TypeOK, Assignments!storeVars,
       Assignments!probeVars
  <1>9. CASE Assignments!Reload
    <2>1. wire' \in Seq(Assignments!Message)
      <3> DEFINE changed == Assignments!Changed(current, store)
                 removed == Assignments!Removed(current, store)
                 set == [m \in Monitors |-> IF m \in changed THEN store[m] ELSE Assignments!Absent]
                 added == changed \ Assignments!Present(current)
                 msg == Assignments!DeltaMessage(added, removed, set)
      <3>1. set \in Assignments!Sets /\ removed \in SUBSET Monitors /\ added \in SUBSET Monitors
        BY DEF SyncTypes, Assignments!TypeOK, Assignments!Removed, Assignments!Changed
      <3>2. msg \in Assignments!Message
        BY <3>1, DeltasSent
      <3>3. wire' = wire \/ wire' = Append(wire, msg)
        BY <1>9 DEF Assignments!Reload
      <3> HIDE DEF msg
      <3> QED
        BY <3>2, <3>3 DEF SyncTypes, Assignments!TypeOK
    <2>2. current' \in {current, store} /\ loads' \in {loads, loads \cup {store}}
      BY <1>9 DEF Assignments!Reload
    <2> QED
      BY <1>9, <2>1, <2>2 DEF Assignments!Reload, SyncTypes, Assignments!TypeOK, Assignments!storeVars,
         Assignments!probeVars
  <1>10. CASE Assignments!ReloadFails
    BY <1>10 DEF Assignments!ReloadFails, SyncTypes, Assignments!TypeOK, Assignments!storeVars,
       Assignments!probeVars
  <1>11. CASE Assignments!Reconcile
    <2>1. [kind |-> "reconcile", digest |-> Assignments!Digest(current)] \in Assignments!Message
      BY MessagesSent DEF SyncTypes, Assignments!TypeOK
    <2>2. wire' \in Seq(Assignments!Message)
      BY <1>11, <2>1 DEF Assignments!Reconcile, SyncTypes, Assignments!TypeOK
    <2> QED
      BY <1>11, <2>2 DEF Assignments!Reconcile, SyncTypes, Assignments!TypeOK, Assignments!storeVars,
         Assignments!probeVars, Assignments!handlerVars
  <1>12. CASE Assignments!ReceiveChunk
    <2> DEFINE set == Assignments!Overlay(staging, Head(wire).set)
    <2>1. Head(wire) \in Assignments!Message /\ wire' \in Seq(Assignments!Message)
              /\ Head(wire).kind = "set"
      BY <1>12 DEF Assignments!ReceiveChunk, SyncTypes, Assignments!TypeOK
    <2>2. set \in Assignments!Sets
      BY <2>1, MessagesHeld DEF SyncTypes, Assignments!TypeOK
    <2>3. /\ staging' \in {Assignments!Nothing, set}
          /\ assignments' \in {assignments, Assignments!Accepted(set)}
          /\ rejections' \in {rejections, rejections \cup Assignments!Refusals(set)}
      BY <1>12 DEF Assignments!ReceiveChunk, Assignments!Reject
    <2> HIDE DEF set
    <2>4. staging' \in Assignments!Sets /\ assignments' \in Assignments!Sets
              /\ rejections' \subseteq Monitors \X Nat
      BY <2>2, <2>3 DEF SyncTypes, Assignments!TypeOK
    <2> QED
      BY <1>12, <2>1, <2>4 DEF Assignments!ReceiveChunk, SyncTypes, Assignments!TypeOK,
         Assignments!storeVars, Assignments!handlerVars
  <1>13. CASE Assignments!ReceiveDelta
    <2>1. Head(wire) \in Assignments!Message /\ wire' \in Seq(Assignments!Message)
              /\ Head(wire).kind = "delta" /\ delta' = Head(wire)
      BY <1>13 DEF Assignments!ReceiveDelta, SyncTypes, Assignments!TypeOK
    <2> QED
      BY <1>13, <2>1 DEF Assignments!ReceiveDelta, SyncTypes, Assignments!TypeOK,
         Assignments!storeVars, Assignments!handlerVars
  <1>17. CASE Assignments!ApplyOne
    <2>1. PICK m \in Monitors : TurnOf(m)
      BY <1>17, TurnsAre
    <2>2. /\ assignments' \in Assignments!Sets /\ delta' \in Assignments!Message
          /\ delta'.kind = "delta" /\ rejections' \subseteq Monitors \X Nat
      BY <2>1, TurnTypes
    <2> QED
      BY <1>17, <2>2 DEF Assignments!ApplyOne, Assignments!ApplyAdded, Assignments!ApplyUpdated,
         Assignments!ApplyRemoved, SyncTypes, Assignments!TypeOK, Assignments!storeVars,
         Assignments!handlerVars
  <1>14. CASE Assignments!ReceiveReconcile
    <2>1. Tail(wire) \in Seq(Assignments!Message)
      BY <1>14 DEF Assignments!ReceiveReconcile, SyncTypes, Assignments!TypeOK
    <2> QED
      BY <1>0, <1>14, <2>1 DEF Assignments!ReceiveReconcile, Assignments!Disconnect, SyncTypes,
         Assignments!TypeOK, Assignments!storeVars
  <1>15. CASE Assignments!DropStream
    BY <1>0, <1>15 DEF Assignments!DropStream, Assignments!Disconnect, SyncTypes, Assignments!TypeOK,
       Assignments!storeVars
  <1>16. CASE Assignments!TakeRejections
    BY <1>16 DEF Assignments!TakeRejections, SyncTypes, Assignments!TypeOK, Assignments!storeVars,
       Assignments!handlerVars
  <1> QED
    BY <1>1, <1>2, <1>3, <1>4, <1>5, <1>6, <1>7, <1>8, <1>9, <1>10, <1>11, <1>12, <1>13, <1>14,
       <1>15, <1>16, <1>17 DEF Assignments!Next

\* Sets come from the store; nothing else has versions.
LEMMA VersionsStep ==
    ASSUME SyncTypes, VersionsTell(loads \cup {store}, assignmentsClock), Assignments!Next
    PROVE  VersionsTell(loads' \cup {store'}, assignmentsClock')
  <1>1. ASSUME NEW m \in Monitors, NEW b \in Bodies \cup {NoBody}, Assignments!Edit(m, b)
        PROVE  VersionsTell(loads' \cup {store'}, assignmentsClock')
    <2>1. loads' = loads
      BY <1>1 DEF Assignments!Edit, Assignments!handlerVars
    <2> QED
      BY <1>1, <2>1, EditsTell
  <1>2. ASSUME ~ \E m \in Monitors, b \in Bodies \cup {NoBody} : Assignments!Edit(m, b)
        PROVE  VersionsTell(loads' \cup {store'}, assignmentsClock')
    <2>1. store' = store /\ assignmentsClock' = assignmentsClock
              /\ loads' \in {loads, loads \cup {store}}
      BY <1>2 DEF Assignments!Next, Assignments!Notify, Assignments!SkipNotify, Assignments!OpenStream,
         Assignments!LoadSet,
                  Assignments!SendChunk, Assignments!Wake, Assignments!Settle, Assignments!Reload,
                  Assignments!ReloadFails,
                  Assignments!Reconcile, Assignments!ReceiveChunk, Assignments!ReceiveDelta,
                  Assignments!ApplyOne, Assignments!ApplyAdded, Assignments!ApplyUpdated,
                  Assignments!ApplyRemoved, Assignments!ReceiveReconcile,
                  Assignments!DropStream, Assignments!TakeRejections, Assignments!storeVars,
                  Assignments!handlerVars
    <2>2. loads' \cup {store'} = loads \cup {store}
      BY <2>1
    <2> QED
      BY <2>1, <2>2
  <1> QED
    BY <1>1, <1>2

\* What the handler does between messages moves no end of the path.
LEMMA PathKept ==
    ASSUME SyncTypes, OnItsWay, wire' = wire, loads \subseteq loads', staging' = staging,
           \A h \in Assignments!Sets : Applied(h, assignments, delta, loads)
               => Applied(h, assignments', delta', loads'),
           \A h, s \in Assignments!Sets :
              Ends(handler, current, unsent, loads, h, s)
                  => Ends(handler', current', unsent', loads', h, s)
    PROVE  OnItsWay'
  <1> PICK held \in [0 .. Len(wire) -> Assignments!Sets],
           staged \in [0 .. Len(wire) -> Assignments!Sets] :
          /\ IsPath(wire, loads, held, staged)
          /\ Begins(held[0], staged[0])
          /\ Ends(handler, current, unsent, loads, held[Len(wire)], staged[Len(wire)])
    BY DEF OnItsWay
  <1>1. wire \in Seq(Assignments!Message) /\ Len(wire) \in 0 .. Len(wire)
    BY DEF SyncTypes, Assignments!TypeOK
  <1>2. IsPath(wire, loads', held, staged)
    BY <1>1, PathGrows
  <1>3. held[Len(wire)] \in Assignments!Sets /\ staged[Len(wire)] \in Assignments!Sets
    BY <1>1
  <1>4. Ends(handler', current', unsent', loads', held[Len(wire)], staged[Len(wire)])
    BY <1>3
  <1>5. /\ held[0] \in loads' /\ Applied(held[0], assignments', delta', loads')
        /\ staged[0] = staging'
    BY DEF Begins, SyncTypes
  <1>6. /\ IsPath(wire', loads', held, staged)
        /\ Ends(handler', current', unsent', loads', held[Len(wire')], staged[Len(wire')])
        /\ held \in [0 .. Len(wire') -> Assignments!Sets]
               /\ staged \in [0 .. Len(wire') -> Assignments!Sets]
    BY <1>2, <1>4
  <1> QED
    BY <1>5, <1>6 DEF OnItsWay, Begins

\* Nor does it move the probe.
LEMMA ProbeKept ==
    ASSUME assignments' = assignments, delta' = delta, loads \subseteq loads'
    PROVE  \A h \in Assignments!Sets : Applied(h, assignments, delta, loads)
               => Applied(h, assignments', delta', loads')
  BY AppliedGrows

\* A message that leads from where the handler was to where it is.
LEMMA PathLonger ==
    ASSUME SyncTypes, OnItsWay, NEW msg \in Assignments!Message, wire' = Append(wire, msg),
           loads \subseteq loads', assignments' = assignments, delta' = delta, staging' = staging,
           \A h, s \in Assignments!Sets :
              Ends(handler, current, unsent, loads, h, s) =>
                 \E h2, s2 \in Assignments!Sets : /\ Leads(msg, loads', h, s, h2, s2)
                                                  /\ Ends(handler', current', unsent', loads', h2, s2)
    PROVE  OnItsWay'
  <1> PICK held \in [0 .. Len(wire) -> Assignments!Sets],
           staged \in [0 .. Len(wire) -> Assignments!Sets] :
          /\ IsPath(wire, loads, held, staged)
          /\ Begins(held[0], staged[0])
          /\ Ends(handler, current, unsent, loads, held[Len(wire)], staged[Len(wire)])
    BY DEF OnItsWay
  <1>1. wire \in Seq(Assignments!Message) /\ Len(wire) \in 0 .. Len(wire)
    BY DEF SyncTypes, Assignments!TypeOK
  <1>2. IsPath(wire, loads', held, staged)
    BY <1>1, PathGrows
  <1>3. held[Len(wire)] \in Assignments!Sets /\ staged[Len(wire)] \in Assignments!Sets
    BY <1>1
  <1> PICK h2 \in Assignments!Sets, s2 \in Assignments!Sets :
          /\ Leads(msg, loads', held[Len(wire)], staged[Len(wire)], h2, s2)
          /\ Ends(handler', current', unsent', loads', h2, s2)
    BY <1>3
  <1>4. \E held2, staged2 :
              /\ IsPath(wire', loads', held2, staged2)
              /\ held2[0] = held[0] /\ staged2[0] = staged[0]
              /\ held2[Len(wire')] = h2 /\ staged2[Len(wire')] = s2
    BY <1>1, <1>2, PathAppend
  <1>5. /\ held[0] \in loads' /\ Applied(held[0], assignments', delta', loads')
        /\ staged[0] = staging'
    BY ProbeKept DEF Begins, SyncTypes
  <1> PICK held2, staged2 :
              /\ IsPath(wire', loads', held2, staged2)
              /\ held2[0] = held[0] /\ staged2[0] = staged[0]
              /\ held2[Len(wire')] = h2 /\ staged2[Len(wire')] = s2
    BY <1>4
  <1>6. /\ held2 \in [0 .. Len(wire') -> Assignments!Sets]
        /\ staged2 \in [0 .. Len(wire') -> Assignments!Sets]
    BY DEF IsPath
  <1> QED
    BY <1>5, <1>6 DEF OnItsWay, Begins

\* A message that takes the probe where it leads.
LEMMA PathShorter ==
    ASSUME SyncTypes, OnItsWay, wire # <<>>, wire' = Tail(wire),
           loads' = loads, UNCHANGED <<handler, current, unsent>>,
           \A h, s, h2, s2 \in Assignments!Sets :
              Begins(h, s) /\ Leads(Head(wire), loads, h, s, h2, s2) =>
                 h2 \in loads /\ Applied(h2, assignments', delta', loads) /\ s2 = staging'
    PROVE  OnItsWay'
  <1> PICK held \in [0 .. Len(wire) -> Assignments!Sets],
           staged \in [0 .. Len(wire) -> Assignments!Sets] :
          /\ IsPath(wire, loads, held, staged)
          /\ Begins(held[0], staged[0])
          /\ Ends(handler, current, unsent, loads, held[Len(wire)], staged[Len(wire)])
    BY DEF OnItsWay
  <1>1. wire \in Seq(Assignments!Message) /\ 0 \in 0 .. Len(wire)
    BY DEF SyncTypes, Assignments!TypeOK
  <1>2. held[0] \in Assignments!Sets /\ staged[0] \in Assignments!Sets
    BY <1>1
  <1> DEFINE w == Tail(wire)
  <1>3. /\ Leads(Head(wire), loads, held[0], staged[0], held[1], staged[1])
        /\ held[1] \in Assignments!Sets /\ staged[1] \in Assignments!Sets
        /\ \E held2, staged2 \in [0 .. Len(w) -> Assignments!Sets] :
              /\ IsPath(w, loads, held2, staged2)
              /\ held2[0] = held[1] /\ staged2[0] = staged[1]
              /\ held2[Len(w)] = held[Len(wire)] /\ staged2[Len(w)] = staged[Len(wire)]
    BY <1>1, PathTail
  <1>4. held[1] \in loads /\ Applied(held[1], assignments', delta', loads') /\ staged[1] = staging'
    BY <1>2, <1>3
  <1>5. wire' = w
    OBVIOUS
  <1> HIDE DEF w
  <1> QED
    BY <1>3, <1>4, <1>5 DEF OnItsWay, Begins

\* A stream that is over, or has only begun, carries nothing.
LEMMA PathCut ==
    ASSUME SyncTypes, OnItsWay, wire' = <<>>, staging' = Assignments!Nothing, loads' = loads,
           assignments' = assignments, delta' = delta, handler' \in {"none", "load"}
    PROVE  OnItsWay'
  <1> PICK held \in [0 .. Len(wire) -> Assignments!Sets] : held[0] \in loads
               /\ Applied(held[0], assignments, delta, loads)
    BY DEF OnItsWay, Begins
  <1>1. held[0] \in Assignments!Sets /\ Assignments!Nothing \in Assignments!Sets
    BY SetsClosed DEF SyncTypes
  <1> DEFINE H == [i \in 0 .. 0 |-> held[0]]
             S == [i \in 0 .. 0 |-> Assignments!Nothing]
  <1>2. /\ H \in [0 .. Len(wire') -> Assignments!Sets] /\ S \in [0 .. Len(wire') -> Assignments!Sets]
        /\ IsPath(wire', loads', H, S)
        /\ H[0] = held[0] /\ S[0] = Assignments!Nothing
    BY <1>1, EmptyPath
  <1>3. Ends(handler', current', unsent', loads', H[Len(wire')], S[Len(wire')])
    BY DEF Ends
  <1> HIDE DEF H, S
  <1> QED
    BY <1>2, <1>3 DEF OnItsWay, Begins

LEMMA OnItsWayStep ==
    ASSUME SyncTypes, VersionsTell(loads \cup {store}, assignmentsClock), StreamStarts, OnItsWay,
           Assignments!Next
    PROVE  OnItsWay'
  <1>0. /\ delta \in Assignments!Message /\ delta.kind = "delta" /\ assignments \in Assignments!Sets
        /\ current \in Assignments!Sets /\ store \in Assignments!Sets
               /\ loads \subseteq Assignments!Sets
        /\ wire \in Seq(Assignments!Message) /\ staging \in Assignments!Sets
        /\ unsent # {} => handler = "send"
        /\ handler \in {"none", "load", "send", "watch", "settle", "reload"}
    BY DEF SyncTypes, Assignments!TypeOK
  <1>1. ASSUME NEW m \in Monitors, NEW b \in Bodies \cup {NoBody}, Assignments!Edit(m, b)
        PROVE OnItsWay'
    BY <1>1, PathKept, ProbeKept DEF Assignments!Edit, Assignments!handlerVars, Assignments!probeVars
  <1>2. CASE Assignments!Notify
    BY <1>2, PathKept, ProbeKept DEF Assignments!Notify, Assignments!handlerVars, Assignments!probeVars
  <1>3. CASE Assignments!SkipNotify
    BY <1>3, PathKept, ProbeKept DEF Assignments!SkipNotify, Assignments!handlerVars, Assignments!probeVars
  <1>4. CASE Assignments!OpenStream
    BY <1>4, PathCut DEF Assignments!OpenStream
  <1>5. CASE Assignments!LoadSet
    <2>1. wire = <<>> /\ wire' = wire /\ staging' = staging /\ staging = Assignments!Nothing
          /\ assignments' = assignments /\ delta' = delta /\ loads' = loads \cup {store}
      BY <1>5 DEF Assignments!LoadSet, Assignments!probeVars, StreamStarts
    <2>2. /\ handler' = "send" /\ current' = store /\ unsent' = Assignments!Present(store)
      BY <1>5 DEF Assignments!LoadSet
    <2>3. Assignments!Nothing = SentOf(store, Assignments!Present(store))
      BY DEF Assignments!Nothing, SentOf, Assignments!Present
    <2> PICK held \in [0 .. Len(wire) -> Assignments!Sets],
             staged \in [0 .. Len(wire) -> Assignments!Sets] :
          Begins(held[0], staged[0])
      BY DEF OnItsWay
    <2>4. held[0] \in loads /\ Applied(held[0], assignments, delta, loads)
              /\ held[0] \in Assignments!Sets
      BY <1>0 DEF Begins
    <2>5. Assignments!Nothing \in Assignments!Sets
      BY SetsClosed
    <2> DEFINE H == [i \in 0 .. 0 |-> held[0]]
               S == [i \in 0 .. 0 |-> Assignments!Nothing]
    <2>6. /\ H \in [0 .. Len(wire') -> Assignments!Sets] /\ S \in [0 .. Len(wire') -> Assignments!Sets]
          /\ IsPath(wire', loads', H, S)
          /\ H[0] = held[0] /\ S[0] = Assignments!Nothing /\ S[Len(wire')] = Assignments!Nothing
      BY <2>1, <2>4, <2>5, EmptyPath
    <2> HIDE DEF H, S
    <2>7. Ends(handler', current', unsent', loads', H[Len(wire')], S[Len(wire')])
      BY <2>1, <2>2, <2>3, <2>6 DEF Ends
    <2>8. H[0] \in loads' /\ Applied(H[0], assignments', delta', loads') /\ S[0] = staging'
      BY <2>1, <2>4, <2>6, ProbeKept
    <2> QED
      BY <2>6, <2>7, <2>8 DEF OnItsWay, Begins
  <1>6. CASE Assignments!SendChunk
    <2> PICK chunk \in SUBSET unsent :
          /\ wire' = Append(wire, Assignments!SetMessage(chunk))
          /\ unsent' = unsent \ chunk
          /\ handler' = Assignments!AfterChunk(chunk)
      BY <1>6 DEF Assignments!SendChunk
    <2> DEFINE msg == Assignments!SetMessage(chunk)
               over == [m \in Monitors |-> IF m \in chunk THEN current[m] ELSE Assignments!Absent]
    <2>1. msg = [kind |-> "set", final |-> Assignments!Final(chunk), set |-> over]
      BY DEF Assignments!SetMessage
    <2>2. over \in Assignments!Sets
      BY <1>0, SetsClosed
    <2>3. msg \in Assignments!Message
      BY <2>1, <2>2, MessagesSent DEF Assignments!Final
    <2>4. /\ handler = "send" /\ current' = current /\ loads' = loads
          /\ assignments' = assignments /\ delta' = delta /\ staging' = staging
      BY <1>6 DEF Assignments!SendChunk, Assignments!probeVars
    <2>5. ASSUME NEW h \in Assignments!Sets, NEW s \in Assignments!Sets,
                 Ends(handler, current, unsent, loads, h, s)
          PROVE  \E h2, s2 \in Assignments!Sets : /\ Leads(msg, loads', h, s, h2, s2)
                                                  /\ Ends(handler', current', unsent', loads', h2, s2)
      <3>1. current \in loads /\ unsent \subseteq Assignments!Present(current)
                /\ s = SentOf(current, unsent)
        BY <2>4, <2>5 DEF Ends
      <3>2. Assignments!Overlay(s, over) = SentOf(current, unsent \ chunk)
        <4>1. \A m \in Monitors : over[m] = IF m \in chunk THEN current[m] ELSE Assignments!Absent
          OBVIOUS
        <4> HIDE DEF over
        <4>2. \A m \in Monitors : Assignments!Overlay(s, over)[m] = SentOf(current, unsent \ chunk)[m]
          BY <3>1, <4>1 DEF Assignments!Overlay, SentOf, Assignments!Present
        <4> QED
          BY <4>2 DEF Assignments!Overlay, SentOf
      <3>3. CASE chunk = unsent
        <4>1. Assignments!Overlay(s, over) = current
          BY <1>0, <3>2, <3>3, AllSent
        <4>2. msg.kind = "set" /\ msg.final /\ msg.set = over
          <5>1. Assignments!Final(chunk) = TRUE
            BY <3>3 DEF Assignments!Final
          <5> QED
            BY <2>1, <5>1
        <4>3. Leads(msg, loads', h, s, current, Assignments!Nothing)
          BY <2>4, <3>1, <4>1, <4>2 DEF Leads
        <4>4. Ends(handler', current', unsent', loads', current, Assignments!Nothing)
          BY <2>4, <3>1, <3>3 DEF Ends, Assignments!AfterChunk
        <4> QED
          BY <4>3, <4>4, <1>0, SetsClosed
      <3>4. CASE chunk # unsent
        <4>1. msg.kind = "set" /\ ~msg.final /\ msg.set = over
          <5>1. Assignments!Final(chunk) = FALSE
            BY <3>4 DEF Assignments!Final
          <5> QED
            BY <2>1, <5>1
        <4>2. Leads(msg, loads', h, s, h, Assignments!Overlay(s, over))
          BY <4>1 DEF Leads
        <4>3. Ends(handler', current', unsent', loads', h, Assignments!Overlay(s, over))
          BY <2>4, <3>1, <3>2, <3>4 DEF Ends, Assignments!AfterChunk
        <4> QED
          BY <4>2, <4>3, <2>2, SetsClosed
      <3> QED
        BY <3>3, <3>4
    <2> HIDE DEF msg
    <2> QED
      BY <2>3, <2>4, <2>5, PathLonger DEF msg
  <1>7. CASE Assignments!Wake
    <2>1. \A h, s : Ends(handler, current, unsent, loads, h, s)
              => Ends(handler', current', unsent', loads', h, s)
      BY <1>7 DEF Assignments!Wake, Ends
    <2> QED
      BY <1>7, <2>1, PathKept, ProbeKept DEF Assignments!Wake, Assignments!probeVars
  <1>8. CASE Assignments!Settle
    <2>1. \A h, s : Ends(handler, current, unsent, loads, h, s)
              => Ends(handler', current', unsent', loads', h, s)
      BY <1>8 DEF Assignments!Settle, Ends
    <2> QED
      BY <1>8, <2>1, PathKept, ProbeKept DEF Assignments!Settle, Assignments!probeVars
  <1>9. CASE Assignments!Reload
    <2> DEFINE changed == Assignments!Changed(current, store)
               removed == Assignments!Removed(current, store)
               set == [m \in Monitors |-> IF m \in changed THEN store[m] ELSE Assignments!Absent]
               added == changed \ Assignments!Present(current)
               msg == Assignments!DeltaMessage(added, removed, set)
    <2>1. handler = "reload" /\ handler' = "watch" /\ assignments' = assignments /\ delta' = delta
          /\ staging' = staging /\ unsent' = unsent
      BY <1>9 DEF Assignments!Reload, Assignments!probeVars
    <2>2. CASE changed \cup removed = {}
      <3>1. wire' = wire /\ current' = current /\ loads' = loads
        BY <1>9, <2>2 DEF Assignments!Reload
      <3>2. \A h, s : Ends(handler, current, unsent, loads, h, s)
                => Ends(handler', current', unsent', loads', h, s)
        BY <2>1, <3>1 DEF Ends
      <3> QED
        BY <2>1, <3>1, <3>2, PathKept, ProbeKept
    <2>3. CASE changed \cup removed # {}
      <3>1. wire' = Append(wire, msg) /\ current' = store /\ loads' = loads \cup {store}
        BY <1>9, <2>3 DEF Assignments!Reload
      <3>2. set \in Assignments!Sets /\ removed \in SUBSET Monitors /\ added \in SUBSET Monitors
        BY <1>0, SetsClosed DEF Assignments!Removed, Assignments!Changed
      <3>3. msg \in Assignments!Message
        BY <3>2, DeltasSent
      <3>4. ASSUME NEW h \in Assignments!Sets, NEW s \in Assignments!Sets,
                   Ends(handler, current, unsent, loads, h, s)
            PROVE  \E h2, s2 \in Assignments!Sets : /\ Leads(msg, loads', h, s, h2, s2)
                                                    /\ Ends(handler', current', unsent', loads', h2, s2)
        <4>1. h = current
          BY <2>1, <3>4 DEF Ends
        <4>2. msg.kind = "delta" /\ msg.removed = removed /\ msg.added = added /\ msg.set = set
          BY <3>2, DeltasSent
        <4>3. Leads(msg, loads', h, s, store, s)
          BY <3>1, <4>1, <4>2 DEF Leads
        <4>4. Ends(handler', current', unsent', loads', store, s)
          BY <2>1, <3>1 DEF Ends
        <4> QED
          BY <4>3, <4>4, <1>0
      <3> HIDE DEF msg
      <3> QED
        BY <2>1, <3>1, <3>3, <3>4, PathLonger
    <2> QED
      BY <2>2, <2>3
  <1>10. CASE Assignments!ReloadFails
    <2>1. \A h, s : Ends(handler, current, unsent, loads, h, s)
              => Ends(handler', current', unsent', loads', h, s)
      BY <1>10 DEF Assignments!ReloadFails, Ends
    <2> QED
      BY <1>10, <2>1, PathKept, ProbeKept DEF Assignments!ReloadFails, Assignments!probeVars
  <1>11. CASE Assignments!Reconcile
    <2> DEFINE msg == [kind |-> "reconcile", digest |-> Assignments!Digest(current)]
    <2>1. msg \in Assignments!Message
      BY <1>0, SetsClosed, MessagesSent
    <2>2. /\ wire' = Append(wire, msg) /\ handler' = handler /\ current' = current
          /\ unsent' = unsent /\ loads' = loads /\ assignments' = assignments /\ delta' = delta
          /\ staging' = staging
      BY <1>11 DEF Assignments!Reconcile, Assignments!handlerVars, Assignments!probeVars
    <2>3. \A h, s : Leads(msg, loads', h, s, h, s)
      BY DEF Leads
    <2> HIDE DEF msg
    <2>4. \A h, s \in Assignments!Sets :
              Ends(handler, current, unsent, loads, h, s) =>
                 \E h2, s2 \in Assignments!Sets : /\ Leads(msg, loads', h, s, h2, s2)
                                                  /\ Ends(handler', current', unsent', loads', h2, s2)
      BY <2>2, <2>3
    <2> QED
      BY <2>1, <2>2, <2>4, PathLonger
  <1>12. CASE Assignments!ReceiveChunk
    <2>1. /\ wire # <<>> /\ wire' = Tail(wire) /\ Head(wire).kind = "set"
          /\ loads' = loads /\ UNCHANGED <<handler, current, unsent, delta>>
          /\ Left(delta) = {}
      BY <1>12 DEF Assignments!ReceiveChunk, Assignments!handlerVars, Assignments!Waiting, Left
    <2>2. ASSUME NEW h \in Assignments!Sets, NEW s \in Assignments!Sets, NEW h2 \in Assignments!Sets,
                 NEW s2 \in Assignments!Sets,
                 Begins(h, s), Leads(Head(wire), loads, h, s, h2, s2)
          PROVE  h2 \in loads /\ Applied(h2, assignments', delta', loads) /\ s2 = staging'
      <3>1. h \in loads /\ Applied(h, assignments, delta, loads) /\ s = staging
        BY <2>2 DEF Begins
      <3>2. CASE Head(wire).final
        <4>1. h2 = Assignments!Overlay(s, Head(wire).set) /\ h2 \in loads /\ s2 = Assignments!Nothing
          BY <2>1, <2>2, <3>2 DEF Leads
        <4>2. assignments' = Assignments!Accepted(h2) /\ staging' = Assignments!Nothing
          BY <1>12, <3>1, <3>2, <4>1 DEF Assignments!ReceiveChunk
        <4>3. delta.added \subseteq Assignments!Present(delta.set)
          BY <3>1 DEF Applied
        <4> QED
          BY <2>1, <4>1, <4>2, <4>3, SetApplied
      <3>3. CASE ~Head(wire).final
        <4>1. h2 = h /\ s2 = Assignments!Overlay(s, Head(wire).set)
          BY <2>1, <2>2, <3>3 DEF Leads
        <4>2. assignments' = assignments /\ staging' = Assignments!Overlay(s, Head(wire).set)
          BY <1>12, <3>1, <3>3 DEF Assignments!ReceiveChunk
        <4> QED
          BY <2>1, <3>1, <4>1, <4>2
      <3> QED
        BY <3>2, <3>3
    <2> QED
      BY <2>1, <2>2, PathShorter
  <1>13. CASE Assignments!ReceiveDelta
    <2>1. /\ wire # <<>> /\ wire' = Tail(wire) /\ Head(wire).kind = "delta"
          /\ loads' = loads /\ UNCHANGED <<handler, current, unsent, staging, assignments>>
          /\ delta' = Head(wire) /\ Left(delta) = {}
      BY <1>13 DEF Assignments!ReceiveDelta, Assignments!handlerVars, Assignments!Waiting, Left
    <2>2. ASSUME NEW h \in Assignments!Sets, NEW s \in Assignments!Sets, NEW h2 \in Assignments!Sets,
                 NEW s2 \in Assignments!Sets,
                 Begins(h, s), Leads(Head(wire), loads, h, s, h2, s2)
          PROVE  h2 \in loads /\ Applied(h2, assignments', delta', loads) /\ s2 = staging'
      <3>1. h \in loads /\ Applied(h, assignments, delta, loads) /\ s = staging
        BY <2>2 DEF Begins
      <3> DEFINE msg == Head(wire)
      <3>2. /\ msg.removed = Assignments!Removed(h, h2)
            /\ msg.added = Assignments!Changed(h, h2) \ Assignments!Present(h)
            /\ msg.set = [m \in Monitors |-> IF m \in Assignments!Changed(h,
                   h2) THEN h2[m] ELSE Assignments!Absent]
            /\ h2 \in loads /\ s2 = s
        BY <2>1, <2>2 DEF Leads
      <3> HIDE DEF msg
      <3>3. loads \cup {store} \subseteq Assignments!Sets
        BY <1>0
      <3>4. \A m \in Monitors : assignments[m] = Assignments!Accepted(h)[m]
        BY <2>1, <3>1, NoneLeft
      <3>5. Applied(h2, assignments, msg, loads)
        BY <3>1, <3>2, <3>3, <3>4, DeltaTaken
      <3> QED
        BY <2>1, <3>1, <3>2, <3>5 DEF msg
    <2> QED
      BY <2>1, <2>2, PathShorter
  <1>17. CASE Assignments!ApplyOne
    <2>1. PICK m \in Monitors : TurnOf(m)
      BY <1>17, TurnsAre
    <2>2. \A h \in Assignments!Sets : Applied(h, assignments, delta, loads)
              => Applied(h, assignments', delta', loads)
      BY <2>1, TurnKeeps
    <2>3. /\ wire' = wire /\ staging' = staging /\ loads' = loads
          /\ UNCHANGED <<handler, current, unsent>>
      BY <1>17 DEF Assignments!ApplyOne, Assignments!ApplyAdded, Assignments!ApplyUpdated,
         Assignments!ApplyRemoved, Assignments!handlerVars
    <2> QED
      BY <2>2, <2>3, PathKept
  <1>14. CASE Assignments!ReceiveReconcile
    <2>1. CASE Head(wire).digest = Assignments!Digest(assignments)
      <3>1. /\ wire # <<>> /\ wire' = Tail(wire) /\ Head(wire).kind = "reconcile"
            /\ loads' = loads /\ UNCHANGED <<handler, current, unsent, staging, assignments, delta>>
        BY <1>14, <2>1 DEF Assignments!ReceiveReconcile
      <3>2. \A h, s, h2, s2 \in Assignments!Sets :
              Begins(h, s) /\ Leads(Head(wire), loads, h, s, h2, s2) =>
                 h2 \in loads /\ Applied(h2, assignments', delta', loads) /\ s2 = staging'
        BY <3>1 DEF Begins, Leads
      <3> QED
        BY <3>1, <3>2, PathShorter
    <2>2. CASE Head(wire).digest # Assignments!Digest(assignments)
      BY <1>14, <2>2, PathCut DEF Assignments!ReceiveReconcile, Assignments!Disconnect
    <2> QED
      BY <2>1, <2>2
  <1>15. CASE Assignments!DropStream
    BY <1>15, PathCut DEF Assignments!DropStream, Assignments!Disconnect
  <1>16. CASE Assignments!TakeRejections
    BY <1>16, PathKept, ProbeKept DEF Assignments!TakeRejections, Assignments!handlerVars
  <1> QED
    BY <1>1, <1>2, <1>3, <1>4, <1>5, <1>6, <1>7, <1>8, <1>9, <1>10, <1>11, <1>12, <1>13, <1>14,
       <1>15, <1>16, <1>17 DEF Assignments!Next

\* A handler that has sent nothing has a probe that has staged nothing.
LEMMA StreamStartsStep ==
    ASSUME SyncTypes, StreamStarts, Assignments!Next
    PROVE  StreamStarts'
  BY DEF StreamStarts, Assignments!Next, Assignments!Edit, Assignments!Notify, Assignments!SkipNotify,
     Assignments!OpenStream,
         Assignments!LoadSet, Assignments!SendChunk, Assignments!AfterChunk, Assignments!Wake,
         Assignments!Settle, Assignments!Reload,
         Assignments!ReloadFails, Assignments!Reconcile, Assignments!ReceiveChunk,
         Assignments!ReceiveDelta, Assignments!ApplyOne, Assignments!ApplyAdded,
         Assignments!ApplyUpdated, Assignments!ApplyRemoved,
         Assignments!ReceiveReconcile, Assignments!DropStream, Assignments!Disconnect,
         Assignments!TakeRejections,
         Assignments!storeVars, Assignments!handlerVars, Assignments!probeVars

\* A write is owed until it is announced, and an announcement is a signal until
\* the handler loads the store.
LEMMA HandlerCurrentStep ==
    ASSUME SyncTypes, VersionsTell(loads \cup {store}, assignmentsClock), OnItsWay, HandlerCurrent,
           Assignments!Next
    PROVE  HandlerCurrent'
  <1>0. owed \in Nat /\ signal \in BOOLEAN
    BY DEF SyncTypes, Assignments!TypeOK
  <1>1. ASSUME NEW m \in Monitors, NEW b \in Bodies \cup {NoBody}, Assignments!Edit(m, b)
        PROVE HandlerCurrent'
    <2>1. owed' # 0
      BY <1>0, <1>1 DEF Assignments!Edit
    <2> QED
      BY <2>1 DEF HandlerCurrent
  <1>2. CASE Assignments!Notify
    BY <1>2 DEF Assignments!Notify, HandlerCurrent, Assignments!handlerVars
  <1>3. CASE Assignments!SkipNotify
    BY <1>3 DEF Assignments!SkipNotify, HandlerCurrent
  <1>4. CASE Assignments!OpenStream
    BY <1>4 DEF Assignments!OpenStream, HandlerCurrent
  <1>5. CASE Assignments!LoadSet
    BY <1>5 DEF Assignments!LoadSet, HandlerCurrent, Assignments!storeVars
  <1>6. CASE Assignments!SendChunk
    BY <1>6 DEF Assignments!SendChunk, HandlerCurrent, Assignments!storeVars
  <1>7. CASE Assignments!Wake
    BY <1>7 DEF Assignments!Wake, HandlerCurrent
  <1>8. CASE Assignments!Settle
    BY <1>8 DEF Assignments!Settle, HandlerCurrent
  <1>9. CASE Assignments!Reload
    <2> DEFINE changed == Assignments!Changed(current, store)
               removed == Assignments!Removed(current, store)
    <2>1. store' = store
      BY <1>9 DEF Assignments!Reload, Assignments!storeVars
    <2>2. CASE changed \cup removed = {}
      <3>1. current' = current
        BY <1>9, <2>2 DEF Assignments!Reload
      <3>2. current \in loads
        BY <1>9 DEF OnItsWay, Ends, Assignments!Reload
      <3>3. loads \cup {store} \subseteq Assignments!Sets
        BY DEF SyncTypes, Assignments!TypeOK
      <3>4. current = store
        BY <2>2, <3>2, <3>3, NoDiffNoChange
      <3> QED
        BY <2>1, <3>1, <3>4 DEF HandlerCurrent
    <2>3. CASE changed \cup removed # {}
      <3>1. current' = store
        BY <1>9, <2>3 DEF Assignments!Reload
      <3> QED
        BY <2>1, <3>1 DEF HandlerCurrent
    <2> QED
      BY <2>2, <2>3
  <1>10. CASE Assignments!ReloadFails
    BY <1>10 DEF Assignments!ReloadFails, HandlerCurrent
  <1>11. CASE Assignments!Reconcile
    BY <1>11 DEF Assignments!Reconcile, HandlerCurrent, Assignments!storeVars, Assignments!handlerVars
  <1>12. CASE Assignments!ReceiveChunk
    BY <1>12 DEF Assignments!ReceiveChunk, HandlerCurrent, Assignments!storeVars,
       Assignments!handlerVars
  <1>13. CASE Assignments!ReceiveDelta
    BY <1>13 DEF Assignments!ReceiveDelta, HandlerCurrent, Assignments!storeVars,
       Assignments!handlerVars
  <1>17. CASE Assignments!ApplyOne
    BY <1>17 DEF Assignments!ApplyOne, Assignments!ApplyAdded, Assignments!ApplyUpdated,
       Assignments!ApplyRemoved, HandlerCurrent, Assignments!storeVars, Assignments!handlerVars
  <1>14. CASE Assignments!ReceiveReconcile
    BY <1>14 DEF Assignments!ReceiveReconcile, Assignments!Disconnect, HandlerCurrent,
       Assignments!storeVars
  <1>15. CASE Assignments!DropStream
    BY <1>15 DEF Assignments!DropStream, Assignments!Disconnect, HandlerCurrent
  <1>16. CASE Assignments!TakeRejections
    BY <1>16 DEF Assignments!TakeRejections, HandlerCurrent, Assignments!storeVars,
       Assignments!handlerVars
  <1> QED
    BY <1>1, <1>2, <1>3, <1>4, <1>5, <1>6, <1>7, <1>8, <1>9, <1>10, <1>11, <1>12, <1>13, <1>14,
       <1>15, <1>16, <1>17 DEF Assignments!Next

\* Nothing is loaded, sent or applied.
LEMMA SyncInit == Assignments!Init => SyncInv
  <1> SUFFICES ASSUME Assignments!Init PROVE SyncInv
    OBVIOUS
  <1> USE SetsClosed
  <1>0. <<>> \in Seq(Assignments!Message)
    OBVIOUS
  <1>5. /\ Assignments!NoDelta \in Assignments!Message /\ Assignments!NoDelta.kind = "delta"
        /\ Assignments!NoDelta.added = {} /\ Assignments!NoDelta.removed = {}
        /\ Assignments!NoDelta.set = Assignments!Nothing
    BY DeltasSent DEF Assignments!NoDelta
  <1>1. SyncTypes
    BY <1>0, <1>5 DEF Assignments!Init, SyncTypes, Assignments!TypeOK
  <1>2. VersionsTell(loads \cup {store}, assignmentsClock)
    BY DEF Assignments!Init, VersionsTell, Assignments!Nothing, Assignments!Absent
  <1>3. StreamStarts /\ HandlerCurrent
    BY DEF Assignments!Init, StreamStarts, HandlerCurrent
  <1>4. OnItsWay
    <2> DEFINE H == [i \in 0 .. 0 |-> Assignments!Nothing]
    <2>1. /\ H \in [0 .. Len(wire) -> Assignments!Sets] /\ IsPath(wire, loads, H, H)
          /\ H[0] = Assignments!Nothing
      BY EmptyPath DEF Assignments!Init
    <2>2. Assignments!Accepted(Assignments!Nothing) = Assignments!Nothing
      BY DEF Assignments!Accepted, Assignments!Nothing
    <2> HIDE DEF H
    <2>5. Left(delta) = {} /\ delta.added \subseteq Assignments!Present(delta.set)
      BY <1>5 DEF Left, Assignments!Present, Assignments!Nothing, Assignments!Init
    <2>6. Applied(Assignments!Nothing, Assignments!Accepted(Assignments!Nothing), delta, loads)
      BY <2>5, SetApplied DEF Assignments!Init
    <2>3. Begins(H[0], H[0])
      BY <2>1, <2>2, <2>6 DEF Begins, Assignments!Init
    <2>4. Ends(handler, current, unsent, loads, H[Len(wire)], H[Len(wire)])
      BY DEF Ends, Assignments!Init
    <2> QED
      BY <2>1, <2>3, <2>4 DEF OnItsWay
  <1> QED
    BY <1>1, <1>2, <1>3, <1>4 DEF SyncInv

LEMMA SyncStep == SyncInv /\ [Assignments!Next]_(Assignments!vars) => SyncInv'
  <1>1. ASSUME SyncInv, Assignments!Next PROVE SyncInv'
    <2>1. SyncTypes' /\ StreamStarts' /\ OnItsWay' /\ HandlerCurrent'
      BY <1>1, SyncTypesStep, StreamStartsStep, OnItsWayStep, HandlerCurrentStep DEF SyncInv
    <2>2. VersionsTell(loads' \cup {store'}, assignmentsClock')
      BY <1>1, VersionsStep DEF SyncInv
    <2> QED
      BY <2>1, <2>2 DEF SyncInv, VersionsTell
  <1>2. ASSUME SyncInv, UNCHANGED Assignments!vars PROVE SyncInv'
    <2>1. /\ UNCHANGED <<store, assignmentsClock, owed, signal, handler, current, unsent, wire>>
          /\ UNCHANGED <<staging, delta, assignments, rejections, loads, missed>>
      BY <1>2 DEF Assignments!vars, Assignments!storeVars, Assignments!handlerVars,
         Assignments!probeVars
    <2>2. SyncTypes' /\ StreamStarts' /\ HandlerCurrent'
      BY <1>2, <2>1 DEF SyncInv, SyncTypes, Assignments!TypeOK, StreamStarts, HandlerCurrent
    <2>3. OnItsWay'
      BY <1>2, <2>1, PathKept, ProbeKept DEF SyncInv
    <2>4. VersionsTell(loads \cup {store}, assignmentsClock)'
      BY <1>2, <2>1 DEF SyncInv, VersionsTell
    <2> QED
      BY <2>2, <2>3, <2>4 DEF SyncInv
  <1> QED
    BY <1>1, <1>2

LEMMA SyncSound == Assignments!Spec => []SyncInv
  BY SyncInit, SyncStep, PTL DEF Assignments!Spec

-----------------------------------------------------------------------------

\* Stream, handler and probe keep their types, and a handler has chunks left to
\* send exactly while it sends them (WatchAssignments, watchOnce).
THEOREM AssignmentTypes == Assignments!Spec => []Assignments!TypeOK
  <1>1. SyncInv => Assignments!TypeOK
    BY DEF SyncInv, SyncTypes
  <1> QED
    BY <1>1, SyncSound, PTL

\* Whatever drops between chunks and deltas, the probe runs exactly what it
\* accepts of one set a handler loaded, and while a delta is applied the
\* monitors whose turn has not come are as in one such set and the others as in
\* the set the delta leads to: each message on the wire leads from one set to
\* the next (sendFullSet, diff, applyFullSet, applyDelta).
THEOREM ProbeHoldsASnapshot == Assignments!Spec => []HoldsASnapshot
  <1>1. SyncInv => HoldsASnapshot
    BY DEF SyncInv, OnItsWay, Begins, Applied, Left, HoldsASnapshot,
       Assignments!HoldsASnapshot, Assignments!Waiting
  <1> QED
    BY <1>1, SyncSound, PTL

\* When every write is announced and the stream idle the probe is up to date:
\* neither the depth-one channel nor the settle window nor the gap between
\* subscribing and loading loses a wake-up (Notify, WatchAssignments).
THEOREM QuietStreamIsSynced == Assignments!Spec => []Assignments!QuietMeansSynced
  <1>1. SyncInv => Assignments!QuietMeansSynced
    <2> SUFFICES ASSUME SyncInv, Assignments!Quiet, ~missed
                 PROVE assignments = Assignments!Accepted(store)
      BY DEF Assignments!QuietMeansSynced
    <2>1. handler = "watch" /\ wire = <<>> /\ current = store /\ Left(delta) = {}
      BY DEF SyncInv, HandlerCurrent, Assignments!Quiet, Assignments!Waiting, Left
    <2> PICK held \in [0 .. Len(wire) -> Assignments!Sets],
             staged \in [0 .. Len(wire) -> Assignments!Sets] :
          /\ Begins(held[0], staged[0])
          /\ Ends(handler, current, unsent, loads, held[Len(wire)], staged[Len(wire)])
      BY DEF SyncInv, OnItsWay
    <2>2. Len(wire) = 0
      BY <2>1
    <2>3. held[0] = store /\ Applied(store, assignments, delta, loads)
      BY <2>1, <2>2 DEF Begins, Ends
    <2>4. \A m \in Monitors : assignments[m] = Assignments!Accepted(store)[m]
      BY <2>1, <2>3, NoneLeft
    <2>5. assignments \in Assignments!Sets
      BY DEF SyncInv, SyncTypes, Assignments!TypeOK
    <2> QED
      BY <2>4, <2>5 DEF Assignments!Accepted, Assignments!Sets
  <1> QED
    BY <1>1, SyncSound, PTL

-----------------------------------------------------------------------------
(* Checks (Checks) *)

-----------------------------------------------------------------------------
(* Verdicts *)

\* What VerdictIsRight says of an observation.
Right(o) ==
    CASE o.status = "up" -> ~Checkers!TargetFails
      [] o.status = "down" -> \/ Checkers!TargetFails \/ ctx = "expired"
                              \/ ctx = "cancelled" /\ Checkers!c.type \in {"http", "icmp"}
      [] o.status = "unknown" -> Checkers!ProbeFails \/ ctx = "cancelled"

\* An attempt: a configuration that is valid and a world of its type.
JobSound ==
    /\ job \in Checkers!Job
    /\ Checkers!Validate(Checkers!c) /\ Checkers!w \in Checkers!Worlds(Checkers!c.type)

Reply(i) == Checkers!w.replies[((i - 1) % 3) + 1]
Answering == {"answers", "truncated"}

\* The pings so far, and how many of them were answered.
PingsCounted ==
    /\ job.n \in Nat \ {0} /\ job.n <= Checkers!c.count + 1 /\ job.got \in Nat
    /\ job.got > 0 <=> \E i \in 1 .. job.n - 1 : Reply(i) = "reply"

\* No server so far answered, and enough time is left for the rest.
ServersAsked ==
    /\ ctx # "expired"
    /\ job.n \in Nat \ {0}
    /\ Checkers!Servers # <<>> => job.n <= Len(Checkers!Servers)
    /\ \A i \in 1 .. job.n - 1 : Checkers!Servers[i] \notin Answering
    /\ left \in Nat /\ left >= Len(Checkers!Servers) - job.n + 1

\* What is known of the world at each step.
StepFits ==
    /\ Checkers!c.type = "http" /\ job.at = "read" => Checkers!w.dial = "answers"
           /\ ~Checkers!TooManyHops
    /\ Checkers!c.type = "icmp" /\ job.at # "done" =>
         /\ job.at = "begin" => job.n = 1 /\ job.got = 0
         /\ job.at = "fallback" => Checkers!w.dial = "answers" /\ sockets = "none"
         /\ job.at = "open" => Checkers!w.dial = "answers" /\ sockets # "none" /\ job.n = 1
                /\ job.got = 0
         /\ job.at = "ping" => Checkers!w.dial = "answers" /\ sockets \in Checkers!w.kernel
                /\ PingsCounted
    /\ Checkers!c.type = "dns" /\ job.at = "begin" => ServersAsked
    /\ Checkers!c.type = "docker" /\ ctx = "expired" =>
         /\ job.at = "begin" => Checkers!w.dial # "answers"
         /\ job.at = "read" => Checkers!w.body # "whole"

AttemptInv ==
    /\ job # None => JobSound /\ StepFits
    /\ out # None => job # None /\ job.at = "done" /\ Right(out)
    /\ ctx \in {"live", "expired", "cancelled"}

LEMMA VariantFields ==
    ASSUME NEW base, NEW other, NEW x \in Checkers!Variants(base, other), NEW f \in DOMAIN base
    PROVE  x[f] = base[f] \/ (f \in DOMAIN other /\ x[f] \in other[f])
  <1>1. CASE x = base
    BY <1>1
  <1>2. ASSUME NEW g \in DOMAIN other, NEW v \in other[g], x = [base EXCEPT ![g] = v]
        PROVE  x[f] = base[f] \/ (f \in DOMAIN other /\ x[f] \in other[f])
    BY <1>2
  <1> QED
    BY <1>1, <1>2 DEF Checkers!Variants

LEMMA HttpWorldFields ==
    ASSUME NEW x \in Checkers!HttpWorlds
    PROVE  x.dial \in Checkers!Dials \cup {"answers"} /\ x.body \in {"whole", "cut", "silent"}
  <1> DEFINE base == [dial |-> "answers", hops |-> 0, code |-> 200, body |-> "whole", text |-> TRUE,
                      value |-> "same", slow |-> FALSE]
             other == [dial |-> Checkers!Dials, hops |-> {1, 9, 10}, code |-> {302, 404},
                 body |-> {"cut", "silent"},
                       text |-> {FALSE}, value |-> {"not json", "absent", "less", "more"},
                       slow |-> {TRUE}]
  <1>1. x \in Checkers!Variants(base, other)
    BY DEF Checkers!HttpWorlds
  <1>2. /\ "dial" \in DOMAIN base /\ "body" \in DOMAIN base
        /\ base["dial"] = "answers" /\ base["body"] = "whole"
        /\ other["dial"] = Checkers!Dials /\ other["body"] = {"cut", "silent"}
    OBVIOUS
  <1> HIDE DEF base, other
  <1>3. x["dial"] = base["dial"] \/ x["dial"] \in other["dial"]
    BY <1>1, <1>2, VariantFields
  <1>4. x["body"] = base["body"] \/ x["body"] \in other["body"]
    BY <1>1, <1>2, VariantFields
  <1> QED
    BY <1>2, <1>3, <1>4

LEMMA DockerWorldFields ==
    ASSUME NEW x \in Checkers!DockerWorlds
    PROVE  x.health \in {"none", "healthy", "starting", "unhealthy"} /\ x.code \in {200, 404, 500}
  <1> DEFINE base == [dial |-> "answers", body |-> "whole", code |-> 200, json |-> TRUE,
                 running |-> TRUE,
                      health |-> "none"]
             other == [dial |-> Checkers!Dials, body |-> {"cut", "silent"}, code |-> {404, 500},
                 json |-> {FALSE},
                       running |-> {FALSE}, health |-> {"healthy", "starting", "unhealthy"}]
  <1>1. x \in Checkers!Variants(base, other)
    BY DEF Checkers!DockerWorlds
  <1>2. /\ "health" \in DOMAIN base /\ "code" \in DOMAIN base
        /\ base["health"] = "none" /\ base["code"] = 200
        /\ other["health"] = {"healthy", "starting", "unhealthy"} /\ other["code"] = {404, 500}
    OBVIOUS
  <1> HIDE DEF base, other
  <1>3. x["health"] = base["health"] \/ x["health"] \in other["health"]
    BY <1>1, <1>2, VariantFields
  <1>4. x["code"] = base["code"] \/ x["code"] \in other["code"]
    BY <1>1, <1>2, VariantFields
  <1> QED
    BY <1>2, <1>3, <1>4

LEMMA ServerListsAreShort ==
    ASSUME NEW x \in Checkers!ServerLists
    PROVE  x \in Seq(Checkers!ServerKinds) /\ Len(x) \in {0, 1, 3}
  <1>1. CASE x = <<>>
    BY <1>1
  <1>2. CASE x \in {<<a>> : a \in Checkers!ServerKinds}
    <2>1. PICK a \in Checkers!ServerKinds : x = <<a>>
      BY <1>2
    <2> QED
      BY <2>1
  <1>3. CASE x \in {<<a, b, d>> : a, b, d \in Checkers!ServerKinds \ {"malformed", "refused",
                 "truncated"}}
    <2>1. PICK a, b, d \in Checkers!ServerKinds : x = <<a, b, d>>
      BY <1>3
    <2> QED
      BY <2>1
  <1> QED
    BY <1>1, <1>2, <1>3 DEF Checkers!ServerLists

\* The world of an attempt, and its configuration, by their type.
LEMMA WorldFits ==
    ASSUME JobSound
    PROVE  /\ Checkers!c.type = "http" => Checkers!ValidHttp(Checkers!c)
                  /\ Checkers!w \in Checkers!HttpWorlds
           /\ Checkers!c.type = "tcp" => Checkers!w \in Checkers!TcpWorlds
           /\ Checkers!c.type = "icmp" => Checkers!ValidIcmp(Checkers!c)
                  /\ Checkers!w \in Checkers!IcmpWorlds
           /\ Checkers!c.type = "dns" => Checkers!w \in Checkers!DnsWorlds
           /\ Checkers!c.type = "docker" => Checkers!ValidDocker(Checkers!c)
                  /\ Checkers!w \in Checkers!DockerWorlds
           /\ Checkers!c.type = "tls" => Checkers!ValidTls(Checkers!c)
                  /\ Checkers!w \in Checkers!TlsWorlds
           /\ Checkers!c.type = "grpc" => Checkers!w \in Checkers!GrpcWorlds
  <1> DEFINE v == Checkers!Validate(Checkers!c)
             s == Checkers!Worlds(Checkers!c.type)
  <1>1. v /\ Checkers!w \in s
    BY DEF JobSound
  <1>2. CASE Checkers!c.type = "http"
    BY <1>1, <1>2 DEF Checkers!Validate, Checkers!Worlds
  <1>3. CASE Checkers!c.type = "tcp"
    BY <1>1, <1>3 DEF Checkers!Validate, Checkers!Worlds
  <1>4. CASE Checkers!c.type = "icmp"
    BY <1>1, <1>4 DEF Checkers!Validate, Checkers!Worlds
  <1>5. CASE Checkers!c.type = "dns"
    BY <1>1, <1>5 DEF Checkers!Validate, Checkers!Worlds
  <1>6. CASE Checkers!c.type = "docker"
    BY <1>1, <1>6 DEF Checkers!Validate, Checkers!Worlds
  <1>7. CASE Checkers!c.type = "tls"
    BY <1>1, <1>7 DEF Checkers!Validate, Checkers!Worlds
  <1>8. CASE Checkers!c.type = "grpc"
    BY <1>1, <1>8 DEF Checkers!Validate, Checkers!Worlds
  <1> QED
    BY <1>2, <1>3, <1>4, <1>5, <1>6, <1>7, <1>8

LEMMA IcmpFields ==
    ASSUME JobSound, Checkers!c.type = "icmp"
    PROVE  /\ Checkers!w.dial \in {"answers", "silent", "no such host", "resolver fails",
                  "no such family"}
           /\ Checkers!w.tcp \in {"answers", "refused", "silent"}
                  /\ Checkers!w.kernel \subseteq {"udp", "raw"}
           /\ Checkers!c.count \in 1 .. 10
  <1>1. Checkers!ValidIcmp(Checkers!c) /\ Checkers!w \in Checkers!IcmpWorlds
    BY WorldFits
  <1>2. Checkers!c.count \in 1 .. 10
    BY <1>1 DEF Checkers!ValidIcmp
  <1>3. Checkers!w.dial \in {"answers", "silent", "no such host", "resolver fails", "no such family"}
    BY <1>1 DEF Checkers!IcmpWorlds
  <1>4. Checkers!w.tcp \in {"answers", "refused", "silent"}
    BY <1>1 DEF Checkers!IcmpWorlds
  <1>5. Checkers!w.kernel \in SUBSET {"udp", "raw"}
    BY <1>1 DEF Checkers!IcmpWorlds
  <1> QED
    BY <1>2, <1>3, <1>4, <1>5

\* At most three servers are asked, and there is one to ask if there is any.
LEMMA ServersFit ==
    ASSUME JobSound, Checkers!c.type = "dns"
    PROVE  /\ Len(Checkers!Servers) \in 0 .. 3 /\ DOMAIN Checkers!Servers = 1 .. Len(Checkers!Servers)
           /\ Checkers!Servers # <<>> => 1 <= Len(Checkers!Servers)
  <1>1. Checkers!w.servers \in Checkers!ServerLists
    BY WorldFits DEF Checkers!DnsWorlds
  <1>2. Checkers!w.servers \in Seq(Checkers!ServerKinds) /\ Len(Checkers!w.servers) \in {0, 1, 3}
    BY <1>1, ServerListsAreShort
  <1> DEFINE one == Append(Checkers!w.servers, "silent")[1]
  <1>3. CASE Checkers!c.resolver = "ip"
    <2>1. Checkers!Servers = <<one>>
      BY <1>3 DEF Checkers!Servers
    <2> HIDE DEF one
    <2> QED
      BY <2>1
  <1>4. CASE Checkers!c.resolver # "ip"
    BY <1>2, <1>4 DEF Checkers!Servers
  <1> QED
    BY <1>3, <1>4

LEMMA AttemptInit == Checkers!Init => AttemptInv
  BY DEF Checkers!Init, AttemptInv

\* An attempt that is under way is sound, and has no observation yet.
LEMMA UnderWay ==
    ASSUME AttemptInv, NEW type, NEW step, Checkers!At(type, step), step # "done"
    PROVE  /\ job # None /\ Checkers!c.type = type /\ job.at = step /\ JobSound /\ StepFits
                  /\ out = None
           /\ ctx \in {"live", "expired", "cancelled"}
  BY DEF AttemptInv, Checkers!At

\* A job with another step, or another count, is a job.
LEMMA JobTypes ==
    ASSUME JobSound
    PROVE  /\ job.n \in Nat /\ job.got \in Nat /\ Checkers!c \in Checkers!Configs
           /\ \A step \in {"begin", "read", "fallback", "open", "ping", "done"}, n \in Nat,
              got \in Nat :
                 LET x == [config |-> Checkers!c, world |-> Checkers!w, at |-> step, n |-> n,
                     got |-> got]
                 IN  x \in Checkers!Job /\ x # None
           /\ job = [config |-> Checkers!c, world |-> Checkers!w, at |-> job.at, n |-> job.n,
                  got |-> job.got]
  <1>1. /\ job.n \in Nat /\ job.got \in Nat /\ Checkers!c \in Checkers!Configs
        /\ Checkers!w \in UNION {Checkers!Worlds(x.type) : x \in Checkers!Configs}
        /\ job = [config |-> Checkers!c, world |-> Checkers!w, at |-> job.at, n |-> job.n,
               got |-> job.got]
    BY DEF JobSound, Checkers!Job, Checkers!c, Checkers!w
  <1>2. None \notin Checkers!Job
    BY ChecksAssumption DEF Checkers!ChecksAssumption
  <1> QED
    BY <1>1, <1>2 DEF Checkers!Job

LEMMA JobWith ==
    ASSUME JobSound, NEW n, NEW v, NEW y
    PROVE  /\ y = [job EXCEPT !.n = n, !.at = v] =>
                y = [config |-> Checkers!c, world |-> Checkers!w, at |-> v, n |-> n, got |-> job.got]
           /\ y = [job EXCEPT !.n = n, !.got = v] =>
                y = [config |-> Checkers!c, world |-> Checkers!w, at |-> job.at, n |-> n, got |-> v]
  <1>1. DOMAIN job = {"config", "world", "at", "n", "got"}
    BY DEF JobSound, Checkers!Job
  <1>2. ASSUME y = [job EXCEPT !.n = n, !.at = v]
        PROVE  y = [config |-> Checkers!c, world |-> Checkers!w, at |-> v, n |-> n, got |-> job.got]
    BY <1>1, <1>2 DEF Checkers!c, Checkers!w
  <1>3. ASSUME y = [job EXCEPT !.n = n, !.got = v]
        PROVE  y = [config |-> Checkers!c, world |-> Checkers!w, at |-> job.at, n |-> n, got |-> v]
    BY <1>1, <1>3 DEF Checkers!c, Checkers!w
  <1> QED
    BY <1>2, <1>3

\* The same attempt: its configuration and its world are.
SameAttempt == Checkers!c' = Checkers!c /\ Checkers!w' = Checkers!w

LEMMA VerdictsDepend ==
    ASSUME SameAttempt, UNCHANGED sockets
    PROVE  Checkers!TargetFails' = Checkers!TargetFails /\ Checkers!ProbeFails' = Checkers!ProbeFails
  BY DEF SameAttempt, Checkers!TargetFails, Checkers!ProbeFails, Checkers!TooManyHops, Checkers!Code,
     Checkers!KeywordHolds, Checkers!ValueHolds, Checkers!Accepts,
     Checkers!MatchAnswers, Checkers!Matched, Checkers!Occurrences, Checkers!Servers

LEMMA AttemptConcludes ==
    ASSUME AttemptInv, JobSound, NEW o, Right(o), Checkers!Conclude(o)
    PROVE  AttemptInv'
  <1>1. job' = [config |-> Checkers!c, world |-> Checkers!w, at |-> "done", n |-> job.n,
            got |-> job.got]
    BY JobTypes DEF Checkers!Conclude
  <1>2. job' \in Checkers!Job /\ job' # None
    BY <1>1, JobTypes
  <1>3. job'.at = "done" /\ SameAttempt /\ UNCHANGED <<ctx, sockets>>
    BY <1>1 DEF Checkers!Conclude, Checkers!c, Checkers!w, SameAttempt
  <1>4. Checkers!TargetFails' = Checkers!TargetFails /\ Checkers!ProbeFails' = Checkers!ProbeFails
    BY <1>3, VerdictsDepend
  <1>5. JobSound'
    BY <1>2, <1>3 DEF JobSound, SameAttempt, Checkers!Validate, Checkers!Worlds
  <1>6. StepFits'
    BY <1>3 DEF StepFits
  <1>7. Right(out)'
    BY <1>3, <1>4 DEF Checkers!Conclude, Right, SameAttempt
  <1> QED
    BY <1>2, <1>3, <1>5, <1>6, <1>7 DEF AttemptInv

\* A step within an attempt that concludes nothing.
LEMMA AttemptGoesOn ==
    ASSUME AttemptInv, JobSound, out = None, out' = None, NEW n \in Nat, NEW got \in Nat,
           NEW step \in {"begin", "read", "fallback", "open", "ping", "done"},
           job' = [config |-> Checkers!c, world |-> Checkers!w, at |-> step, n |-> n, got |-> got],
           StepFits', ctx' \in {"live", "expired", "cancelled"}
    PROVE  AttemptInv'
  <1>1. job' \in Checkers!Job /\ SameAttempt
    BY JobTypes DEF Checkers!c, Checkers!w, SameAttempt
  <1>2. JobSound'
    BY <1>1 DEF JobSound, SameAttempt, Checkers!Validate, Checkers!Worlds
  <1> QED
    BY <1>2 DEF AttemptInv

LEMMA MetAnswers ==
    ASSUME AttemptInv, NEW x
    PROVE  /\ ctx = "live" => Checkers!Met(x) = x
           /\ ctx # "live" => Checkers!Met(x) = ctx /\ ctx \in {"expired", "cancelled"}
  BY DEF Checkers!Met, AttemptInv

LEMMA AttemptStarts == ASSUME AttemptInv, Checkers!Start PROVE AttemptInv'
  <1>1. PICK conf \in {x \in Checkers!Configs : Checkers!Validate(x)} : \E world \in Checkers!Worlds(conf.type) :
           job' = [config |-> conf, world |-> world, at |-> "begin", n |-> 1, got |-> 0]
    BY DEF Checkers!Start
  <1>2. PICK world \in Checkers!Worlds(conf.type) :
           job' = [config |-> conf, world |-> world, at |-> "begin", n |-> 1, got |-> 0]
    BY <1>1
  <1>3. Checkers!c' = conf /\ Checkers!w' = world
        /\ job'.at = "begin" /\ job'.n = 1 /\ job'.got = 0 /\ ctx' = "live" /\ left' = Timeout
        /\ UNCHANGED <<sockets, out>>
    BY <1>2 DEF Checkers!c, Checkers!w, Checkers!Start
  <1>4. JobSound'
    <2>1. job' \in Checkers!Job
      BY <1>1, <1>2 DEF Checkers!Job
    <2> QED
      BY <1>1, <1>3, <2>1 DEF JobSound, Checkers!Validate, Checkers!Worlds
  <1>5. Checkers!c'.type = "dns" => ServersAsked'
    <2> SUFFICES ASSUME Checkers!c'.type = "dns" PROVE ServersAsked'
      OBVIOUS
    <2>2. (Len(Checkers!Servers) \in 0 .. 3 /\ (Checkers!Servers # <<>> => 1 <= Len(Checkers!Servers)))'
      <3>1. (JobSound /\ Checkers!c.type = "dns" => Len(Checkers!Servers) \in 0 .. 3
                /\ (Checkers!Servers # <<>> => 1 <= Len(Checkers!Servers)))'
        BY ServersFit, PTL
      <3> QED
        BY <1>4, <3>1
    <2>3. Timeout \in Nat /\ Timeout >= 3
      BY ChecksAssumption DEF Checkers!ChecksAssumption
    <2>4. left' \in Nat /\ left' >= Len(Checkers!Servers') - job'.n + 1
      <3>1. Len(Checkers!Servers') \in 0 .. 3
        BY <2>2
      <3>2. \A k \in 0 .. 3 : Timeout >= k - 1 + 1
        BY <2>3
      <3>3. left' = Timeout /\ job'.n = 1
        BY <1>3
      <3> QED
        BY <2>3, <3>1, <3>2, <3>3
    <2>5. \A i \in 1 .. job'.n - 1 : FALSE
      BY <1>3
    <2> QED
      BY <1>3, <2>2, <2>4, <2>5 DEF ServersAsked
  <1>6. StepFits'
    BY <1>3, <1>5 DEF StepFits
  <1>7. out = None
    BY DEF AttemptInv, Checkers!Start
  <1> QED
    BY <1>3, <1>4, <1>6, <1>7 DEF AttemptInv

\* A cancellation reaches an attempt that has concluded nothing yet.
LEMMA AttemptCancelled == ASSUME AttemptInv, Checkers!Cancel PROVE AttemptInv'
  <1>1. UNCHANGED <<job, left, sockets, out>> /\ ctx' = "cancelled" /\ job # None /\ out = None
    BY DEF Checkers!Cancel
  <1>2. JobSound' /\ SameAttempt
    BY <1>1 DEF AttemptInv, JobSound, Checkers!c, Checkers!w, SameAttempt, Checkers!Validate,
       Checkers!Worlds
  <1>3. StepFits'
    BY <1>1, <1>2 DEF AttemptInv, StepFits, SameAttempt, Checkers!TooManyHops, PingsCounted, Reply,
       ServersAsked, Checkers!Servers
  <1> QED
    BY <1>1, <1>2, <1>3 DEF AttemptInv

LEMMA AttemptExpires == ASSUME AttemptInv, Checkers!Expire PROVE AttemptInv'
  <1>1. /\ UNCHANGED <<job, sockets, out>> /\ ctx' = "expired" /\ job # None /\ Checkers!c.type # "dns"
        /\ Checkers!c.type = "docker" => (\/ job.at = "begin" /\ Checkers!w.dial = "silent"
                                          \/ job.at = "read" /\ Checkers!w.body = "silent")
    BY DEF Checkers!Expire, Checkers!Silent, Checkers!At
  <1>2. out = None
    BY DEF Checkers!Expire, Checkers!Silent, Checkers!At, AttemptInv
  <1>3. JobSound' /\ SameAttempt
    BY <1>1 DEF AttemptInv, JobSound, Checkers!c, Checkers!w, SameAttempt, Checkers!Validate,
       Checkers!Worlds
  <1>4. StepFits'
    BY <1>1, <1>3 DEF AttemptInv, StepFits, SameAttempt, Checkers!TooManyHops, PingsCounted, Reply
  <1> QED
    BY <1>1, <1>2, <1>3, <1>4 DEF AttemptInv

LEMMA RightDown == ASSUME Checkers!TargetFails PROVE \A class : Right(Checkers!Down(class))
  BY DEF Right, Checkers!Down

LEMMA RightUnknown ==
    ASSUME Checkers!ProbeFails \/ ctx = "cancelled" PROVE \A class : Right(Checkers!Unknown(class))
  BY DEF Right, Checkers!Unknown

LEMMA RightUp == ASSUME ~Checkers!TargetFails PROVE Right(Checkers!Up)
  BY DEF Right, Checkers!Up

\* What a dial that failed is classified as.
LEMMA DialRight ==
    ASSUME AttemptInv, Checkers!c.type \in {"http", "tcp", "tls"},
           Checkers!w.dial \in Checkers!Dials \cup {"answers"},
           ctx = "live" => Checkers!w.dial # "silent", Checkers!Met(Checkers!w.dial) # "answers"
    PROVE  Right(Checkers!Classify(Checkers!Met(Checkers!w.dial)))
  <1>1. CASE ctx = "live"
    <2>1. Checkers!Met(Checkers!w.dial) = Checkers!w.dial
              /\ Checkers!w.dial \in {"refused", "no such host", "resolver fails", "bad certificate"}
      BY <1>1, MetAnswers DEF Checkers!Dials
    <2>2. CASE Checkers!w.dial = "resolver fails"
      BY <2>1, <2>2 DEF Checkers!Classify, Checkers!Unknown, Right, Checkers!ProbeFails
    <2>3. CASE Checkers!w.dial # "resolver fails"
      <3>1. Checkers!Classify(Checkers!Met(Checkers!w.dial)).status = "down" /\ Checkers!TargetFails
        BY <2>1, <2>3 DEF Checkers!Classify, Checkers!Down, Checkers!TargetFails
      <3> QED
        BY <3>1 DEF Right
    <2> QED
      BY <2>2, <2>3
  <1>2. CASE ctx = "expired"
    BY <1>2, MetAnswers DEF Checkers!Classify, Checkers!Down, Right
  <1>3. CASE ctx = "cancelled"
    BY <1>3, MetAnswers DEF Checkers!Classify, Checkers!Unknown, Right
  <1> QED
    BY <1>1, <1>2, <1>3 DEF AttemptInv

LEMMA HttpBeginsSound == ASSUME AttemptInv, Checkers!HttpBegins PROVE AttemptInv'
  <1>1. /\ job # None /\ Checkers!c.type = "http" /\ job.at = "begin" /\ JobSound /\ StepFits
               /\ out = None
        /\ ctx = "live" => Checkers!w.dial # "silent"
    BY UnderWay DEF Checkers!HttpBegins, Checkers!Silent
  <1>2. Checkers!RangeIsValid(Checkers!c.codes) /\ Checkers!w.dial \in Checkers!Dials \cup {"answers"}
    BY <1>1, HttpWorldFields DEF JobSound, Checkers!Validate, Checkers!ValidHttp, Checkers!Worlds
  <1>3. CASE Checkers!Met(Checkers!w.dial) # "answers"
    <2>1. Right(Checkers!Classify(Checkers!Met(Checkers!w.dial)))
      BY <1>1, <1>2, <1>3, DialRight
    <2>2. Checkers!Conclude(Checkers!Classify(Checkers!Met(Checkers!w.dial)))
      BY <1>2, <1>3 DEF Checkers!HttpBegins
    <2> QED
      BY <1>1, <2>1, <2>2, AttemptConcludes
  <1>4. CASE Checkers!Met(Checkers!w.dial) = "answers" /\ Checkers!TooManyHops
    <2>1. Right(Checkers!Classify("stopped"))
      BY <1>1, <1>4 DEF Checkers!Classify, Checkers!Down, Right, Checkers!TargetFails
    <2>2. Checkers!Conclude(Checkers!Classify("stopped"))
      BY <1>2, <1>4 DEF Checkers!HttpBegins
    <2> QED
      BY <1>1, <2>1, <2>2, AttemptConcludes
  <1>5. CASE Checkers!Met(Checkers!w.dial) = "answers" /\ ~Checkers!TooManyHops
    <2>1. Checkers!Go("read")
      BY <1>2, <1>5 DEF Checkers!HttpBegins
    <2>2. job' = [config |-> Checkers!c, world |-> Checkers!w, at |-> "read", n |-> job.n,
              got |-> job.got]
      BY <1>1, <2>1, JobTypes DEF Checkers!Go
    <2>3. SameAttempt /\ job'.at = "read" /\ out' = None /\ ctx' = ctx
      BY <1>1, <2>1, <2>2 DEF Checkers!Go, SameAttempt, Checkers!c, Checkers!w
    <2>4. Checkers!w.dial = "answers"
      BY <1>5, MetAnswers
    <2>5. StepFits'
      BY <1>1, <1>5, <2>3, <2>4 DEF StepFits, SameAttempt, Checkers!TooManyHops
    <2>6. /\ job.n \in Nat /\ job.got \in Nat
          /\ out' = None /\ ctx' \in {"live", "expired", "cancelled"}
      BY <1>1, <2>3, JobTypes DEF AttemptInv
    <2> QED
      BY <1>1, <2>2, <2>3, <2>5, <2>6, AttemptGoesOn
  <1> QED
    BY <1>3, <1>4, <1>5

LEMMA HttpReadsSound == ASSUME AttemptInv, Checkers!HttpReads PROVE AttemptInv'
  <1>1. /\ job # None /\ Checkers!c.type = "http" /\ job.at = "read" /\ JobSound /\ StepFits
        /\ ctx = "live" => Checkers!w.body # "silent"
    BY UnderWay DEF Checkers!HttpReads, Checkers!Silent
  <1>2. /\ Checkers!w.body \in {"whole", "cut", "silent"}
        /\ Checkers!c.json # "none" => Checkers!AssertionIsValid(Checkers!c)
        /\ Checkers!w.dial = "answers" /\ ~Checkers!TooManyHops
    BY <1>1, HttpWorldFields DEF JobSound, Checkers!Validate, Checkers!ValidHttp, Checkers!Worlds,
       StepFits
  <1> DEFINE o == IF Checkers!Met(Checkers!w.body) # "whole" THEN Checkers!Down("network")
                  ELSE IF ~Checkers!Accepts(Checkers!c.codes,
                      Checkers!Code) THEN Checkers!Down("assertion")
                  ELSE IF Checkers!c.keyword # "none"
                      /\ ~Checkers!KeywordHolds THEN Checkers!Down("assertion")
                  ELSE IF Checkers!c.json # "none"
                      /\ ~Checkers!AssertionIsValid(Checkers!c) THEN Checkers!Unknown("config")
                  ELSE IF Checkers!c.json # "none"
                      /\ ~Checkers!ValueHolds THEN Checkers!Down("assertion")
                  ELSE IF Checkers!c.threshold # None /\ Checkers!w.slow THEN Checkers!Down("assertion")
                  ELSE Checkers!Up
  <1>3. Checkers!Conclude(o)
    BY DEF Checkers!HttpReads
  <1>4. Checkers!TargetFails = \/ Checkers!w.body = "cut" \/ ~Checkers!Accepts(Checkers!c.codes, Checkers!Code)
                               \/ (Checkers!c.keyword # "none" /\ ~Checkers!KeywordHolds)
                                      \/ (Checkers!c.json # "none" /\ ~Checkers!ValueHolds)
                               \/ Checkers!c.threshold # None /\ Checkers!w.slow
    BY <1>1, <1>2 DEF Checkers!TargetFails
  <1>5. Right(o)
    BY <1>1, <1>2, <1>4, MetAnswers DEF Right, Checkers!Down, Checkers!Up, Checkers!Unknown
  <1> HIDE DEF o
  <1> QED
    BY <1>1, <1>3, <1>5, AttemptConcludes

LEMMA TcpChecksSound == ASSUME AttemptInv, Checkers!TcpChecks PROVE AttemptInv'
  <1>1. /\ job # None /\ Checkers!c.type = "tcp" /\ job.at = "begin" /\ JobSound
        /\ ctx = "live" => Checkers!w.dial # "silent"
    BY UnderWay DEF Checkers!TcpChecks, Checkers!Silent
  <1>2. Checkers!w.dial \in Checkers!Dials \cup {"answers"}
    BY <1>1 DEF JobSound, Checkers!Worlds, Checkers!TcpWorlds
  <1>3. Right(Checkers!TcpConnect(Checkers!Met(Checkers!w.dial)))
    <2>1. CASE Checkers!Met(Checkers!w.dial) = "answers"
      <3>1. Checkers!w.dial = "answers"
        BY <2>1, MetAnswers
      <3> QED
        BY <1>1, <2>1, <3>1 DEF Checkers!TcpConnect, Checkers!Up, Right, Checkers!TargetFails
    <2>2. CASE Checkers!Met(Checkers!w.dial) # "answers"
      BY <1>1, <1>2, <2>2, DialRight DEF Checkers!TcpConnect
    <2> QED
      BY <2>1, <2>2
  <1> QED
    BY <1>1, <1>3, AttemptConcludes DEF Checkers!TcpChecks

-----------------------------------------------------------------------------
(* Pings *)

LEMMA IcmpResolvesSound == ASSUME AttemptInv, Checkers!IcmpResolves PROVE AttemptInv'
  <1>1. /\ job # None /\ Checkers!c.type = "icmp" /\ job.at = "begin" /\ JobSound /\ StepFits
               /\ out = None
        /\ ctx = "live" => Checkers!w.dial # "silent"
    BY UnderWay DEF Checkers!IcmpResolves, Checkers!Silent
  <1>2. Checkers!w.dial \in {"answers", "silent", "no such host", "resolver fails", "no such family"}
    BY <1>1, IcmpFields
  <1>3. CASE Checkers!Met(Checkers!w.dial) # "answers"
    <2>1. Right(Checkers!Classify(Checkers!Met(Checkers!w.dial)))
      <3>1. CASE ctx = "live"
        <4>1. Checkers!Met(Checkers!w.dial) = Checkers!w.dial
                  /\ Checkers!w.dial \in {"no such host", "resolver fails", "no such family"}
          BY <1>1, <1>2, <1>3, <3>1, MetAnswers
        <4>2. CASE Checkers!w.dial = "resolver fails"
          BY <1>1, <4>1, <4>2 DEF Checkers!Classify, Checkers!Unknown, Right, Checkers!ProbeFails
        <4>3. CASE Checkers!w.dial # "resolver fails"
          <5>1. Checkers!Classify(Checkers!Met(Checkers!w.dial)).status = "down" /\ Checkers!TargetFails
            BY <1>1, <4>1, <4>3 DEF Checkers!Classify, Checkers!Down, Checkers!TargetFails
          <5> QED
            BY <5>1 DEF Right
        <4> QED
          BY <4>2, <4>3
      <3>2. CASE ctx = "expired"
        BY <3>2, MetAnswers DEF Checkers!Classify, Checkers!Down, Right
      <3>3. CASE ctx = "cancelled"
        BY <3>3, MetAnswers DEF Checkers!Classify, Checkers!Unknown, Right
      <3> QED
        BY <3>1, <3>2, <3>3 DEF AttemptInv
    <2>2. Checkers!Conclude(Checkers!Classify(Checkers!Met(Checkers!w.dial)))
      BY <1>3 DEF Checkers!IcmpResolves
    <2> QED
      BY <1>1, <2>1, <2>2, AttemptConcludes
  <1>4. CASE Checkers!Met(Checkers!w.dial) = "answers"
    <2> DEFINE step == IF Checkers!Mode = "none" THEN "fallback" ELSE "open"
    <2>1. sockets' = Checkers!Mode /\ job' = [job EXCEPT !.at = step] /\ UNCHANGED <<ctx, left, out>>
      BY <1>4 DEF Checkers!IcmpResolves
    <2>2. step \in {"fallback", "open"} /\ (step = "fallback" <=> Checkers!Mode = "none")
      OBVIOUS
    <2> HIDE DEF step
    <2>3. job' = [config |-> Checkers!c, world |-> Checkers!w, at |-> step, n |-> job.n,
              got |-> job.got]
      BY <1>1, <2>1, JobTypes
    <2>4. SameAttempt /\ job'.at = step /\ job'.n = job.n /\ job'.got = job.got
      BY <2>3 DEF SameAttempt, Checkers!c, Checkers!w
    <2>5. Checkers!w.dial = "answers"
      BY <1>4, MetAnswers
    <2>6. StepFits'
      BY <1>1, <2>1, <2>2, <2>4, <2>5 DEF StepFits, SameAttempt
    <2>7. job.n \in Nat /\ job.got \in Nat
      BY <1>1, JobTypes
    <2>8. out' = None /\ ctx' \in {"live", "expired", "cancelled"}
      BY <1>1, <2>1 DEF AttemptInv
    <2>9. step \in {"begin", "read", "fallback", "open", "ping", "done"}
      BY <2>2
    <2> QED
      BY <1>1, <2>3, <2>6, <2>7, <2>8, <2>9, AttemptGoesOn
  <1> QED
    BY <1>3, <1>4

LEMMA IcmpFallsBackSound == ASSUME AttemptInv, Checkers!IcmpFallsBack PROVE AttemptInv'
  <1>1. /\ job # None /\ Checkers!c.type = "icmp" /\ job.at = "fallback" /\ JobSound /\ StepFits
        /\ ctx = "live" => Checkers!w.tcp # "silent"
    BY UnderWay DEF Checkers!IcmpFallsBack, Checkers!Silent, Checkers!At
  <1>2. Checkers!w.tcp \in {"answers", "refused", "silent"} /\ Checkers!w.dial = "answers"
            /\ sockets = "none"
    BY <1>1, IcmpFields DEF StepFits
  <1>3. Checkers!TargetFails = (Checkers!w.tcp = "refused") /\ Checkers!ProbeFails
    BY <1>1, <1>2 DEF Checkers!TargetFails, Checkers!ProbeFails
  <1>4. CASE ~Checkers!c.fallback
    BY <1>1, <1>3, <1>4, AttemptConcludes DEF Checkers!IcmpFallsBack, Right, Checkers!Unknown
  <1>5. CASE Checkers!c.fallback
    <2>1. Right(Checkers!TcpConnect(Checkers!Met(Checkers!w.tcp)))
      BY <1>1, <1>2, <1>3, MetAnswers DEF Checkers!TcpConnect, Checkers!Classify, Checkers!Up,
         Checkers!Down, Checkers!Unknown, Right
    <2> QED
      BY <1>1, <1>5, <2>1, AttemptConcludes DEF Checkers!IcmpFallsBack
  <1> QED
    BY <1>4, <1>5

LEMMA IcmpOpensSound == ASSUME AttemptInv, Checkers!IcmpOpens PROVE AttemptInv'
  <1>1. job # None /\ Checkers!c.type = "icmp" /\ job.at = "open" /\ JobSound /\ StepFits /\ out = None
    BY UnderWay DEF Checkers!IcmpOpens
  <1>2. Checkers!w.dial = "answers" /\ sockets # "none" /\ job.n = 1 /\ job.got = 0
    BY <1>1 DEF StepFits
  <1>3. CASE sockets \notin Checkers!w.kernel
    <2>1. Right(Checkers!Unknown("capability"))
      BY <1>1, <1>3 DEF Right, Checkers!Unknown, Checkers!ProbeFails
    <2> QED
      BY <1>1, <1>3, <2>1, AttemptConcludes DEF Checkers!IcmpOpens
  <1>4. CASE sockets \in Checkers!w.kernel
    <2>1. Checkers!Go("ping")
      BY <1>4 DEF Checkers!IcmpOpens
    <2>2. job' = [config |-> Checkers!c, world |-> Checkers!w, at |-> "ping", n |-> 1, got |-> 0]
      BY <1>1, <1>2, <2>1, JobTypes DEF Checkers!Go
    <2>3. SameAttempt /\ job'.at = "ping" /\ job'.n = 1 /\ job'.got = 0
              /\ UNCHANGED <<ctx, out, sockets>>
      BY <2>1, <2>2 DEF Checkers!Go, SameAttempt, Checkers!c, Checkers!w
    <2>4. Checkers!c.count \in 1 .. 10
      BY <1>1, IcmpFields
    <2>5. StepFits'
      BY <1>1, <1>2, <1>4, <2>3, <2>4 DEF StepFits, SameAttempt, PingsCounted
    <2>6. out' = None /\ ctx' \in {"live", "expired", "cancelled"}
      BY <1>1, <2>3 DEF AttemptInv
    <2> QED
      BY <1>1, <2>2, <2>5, <2>6, AttemptGoesOn
  <1> QED
    BY <1>3, <1>4

LEMMA PingSound == ASSUME AttemptInv, Checkers!Ping PROVE AttemptInv'
  <1>1. job # None /\ Checkers!c.type = "icmp" /\ job.at = "ping" /\ JobSound /\ StepFits /\ out = None
    BY UnderWay DEF Checkers!Ping
  <1>2. Checkers!w.dial = "answers" /\ sockets \in Checkers!w.kernel /\ PingsCounted
    BY <1>1 DEF StepFits
  <1>3. Checkers!c.count \in 1 .. 10 /\ job.n <= Checkers!c.count
    BY <1>1, IcmpFields DEF Checkers!Ping
  <1> DEFINE answered == Reply(job.n) = "reply"
             got == IF answered THEN job.got + 1 ELSE job.got
  <1>4. job' = [job EXCEPT !.n = @ + 1, !.got = IF answered THEN @ + 1 ELSE @]
        /\ ctx' \in {"live", "expired", "cancelled"} /\ UNCHANGED <<sockets, out>>
    BY DEF Checkers!Ping, Reply, AttemptInv
  <1>5. job' = [config |-> Checkers!c, world |-> Checkers!w, at |-> "ping", n |-> job.n + 1,
            got |-> got]
    <2>1. job' = [job EXCEPT !.n = job.n + 1, !.got = got]
      BY <1>4
    <2> HIDE DEF got
    <2> QED
      BY <1>1, <2>1, JobWith
  <1>6. /\ job.n \in Nat \ {0} /\ job.got \in Nat /\ got \in Nat /\ job.n + 1 \in Nat
        /\ got > 0 <=> answered \/ job.got > 0
    BY <1>2 DEF PingsCounted
  <1>7. SameAttempt /\ job'.at = "ping" /\ job'.n = job.n + 1 /\ job'.got = got
    BY <1>5 DEF SameAttempt, Checkers!c, Checkers!w
  <1>8. got > 0 <=> \E i \in 1 .. job.n : Reply(i) = "reply"
    <2>1. \A i : i \in 1 .. job.n <=> i \in 1 .. job.n - 1 \/ i = job.n
      BY <1>6
    <2> QED
      BY <1>2, <1>6, <2>1 DEF PingsCounted
  <1> HIDE DEF got, answered
  <1>9. PingsCounted'
    <2>1. \A i : Reply(i)' = Reply(i)
      BY <1>7 DEF Reply, SameAttempt
    <2>2. job'.n - 1 = job.n
      BY <1>6, <1>7
    <2> QED
      BY <1>3, <1>6, <1>7, <1>8, <2>1, <2>2 DEF PingsCounted, SameAttempt
  <1>10. StepFits'
    BY <1>1, <1>2, <1>4, <1>7, <1>9 DEF StepFits, SameAttempt
  <1> QED
    BY <1>1, <1>4, <1>5, <1>6, <1>10, AttemptGoesOn

LEMMA PingEndsSound == ASSUME AttemptInv, Checkers!PingEnds PROVE AttemptInv'
  <1>1. job # None /\ Checkers!c.type = "icmp" /\ job.at = "ping" /\ JobSound /\ StepFits
    BY UnderWay DEF Checkers!PingEnds
  <1>2. Checkers!w.dial = "answers" /\ sockets \in Checkers!w.kernel /\ PingsCounted
    BY <1>1 DEF StepFits
  <1>3. Checkers!c.count \in 1 .. 10 /\ sockets # "none"
    BY <1>1, <1>2, IcmpFields
  <1>4. Checkers!TargetFails = \A i \in 1 .. Checkers!c.count : Reply(i) # "reply"
    BY <1>1, <1>2, <1>3 DEF Checkers!TargetFails, Reply
  <1>5. CASE job.got > 0
    <2>1. ~Checkers!TargetFails
      BY <1>2, <1>3, <1>4, <1>5 DEF PingsCounted
    <2> QED
      BY <1>1, <1>5, <2>1, AttemptConcludes DEF Checkers!PingEnds, Checkers!Up, Right
  <1>6. CASE ~(job.got > 0)
    <2> DEFINE o == IF ctx = "expired" THEN Checkers!Down("timeout") ELSE Checkers!Down("network")
    <2>1. Checkers!Conclude(o) /\ o.status = "down"
      BY <1>6 DEF Checkers!PingEnds, Checkers!Down
    <2>2. Checkers!TargetFails \/ ctx = "expired" \/ ctx = "cancelled"
      <3>1. CASE ctx = "live"
        <4>1. job.n = Checkers!c.count + 1
          BY <1>2, <1>3, <3>1 DEF Checkers!PingEnds, PingsCounted
        <4> QED
          BY <1>2, <1>3, <1>4, <1>6, <4>1 DEF PingsCounted
      <3> QED
        BY <3>1 DEF AttemptInv
    <2> HIDE DEF o
    <2>3. Right(o)
      BY <1>1, <2>1, <2>2 DEF Right
    <2> QED
      BY <1>1, <2>1, <2>3, AttemptConcludes
  <1> QED
    BY <1>5, <1>6

-----------------------------------------------------------------------------
(* The other checkers *)

LEMMA ShareLeavesEnough ==
    ASSUME NEW remaining \in {2, 3}, left \in Nat, left >= remaining
    PROVE  LET share == Checkers!ShareOfDeadline(remaining)
           IN  share \in Nat /\ left - share \in Nat /\ left - share >= remaining - 1
  <1>1. CASE remaining = 2
    BY <1>1 DEF Checkers!ShareOfDeadline
  <1>2. CASE remaining = 3
    BY <1>2 DEF Checkers!ShareOfDeadline
  <1> QED
    BY <1>1, <1>2

LEMMA DnsAsksSound == ASSUME AttemptInv, Checkers!DnsAsks PROVE AttemptInv'
  <1>1. job # None /\ Checkers!c.type = "dns" /\ job.at = "begin" /\ JobSound /\ StepFits /\ out = None
    BY UnderWay DEF Checkers!DnsAsks
  <1>2. ServersAsked
    BY <1>1 DEF StepFits
  <1>3. Len(Checkers!Servers) \in 0 .. 3 /\ DOMAIN Checkers!Servers = 1 .. Len(Checkers!Servers)
            /\ (Checkers!Servers # <<>> => 1 <= Len(Checkers!Servers))
    BY <1>1, ServersFit
  <1>4. CASE Checkers!Servers = <<>>
    <2>1. Right(Checkers!Unknown("config"))
      BY <1>1, <1>4 DEF Right, Checkers!Unknown, Checkers!ProbeFails
    <2> QED
      BY <1>1, <1>4, <2>1, AttemptConcludes DEF Checkers!DnsAsks
  <1>5. CASE Checkers!Servers # <<>>
    <2> DEFINE kind == Checkers!Servers[job.n]
               share == Checkers!ShareOfDeadline(Len(Checkers!Servers) - job.n + 1)
               answered == ctx = "live" /\ kind \in {"answers", "truncated"}
               spent == IF ctx = "live" /\ kind = "silent" THEN share ELSE 0
               over == left - spent = 0 \/ ctx # "live" \/ job.n = Len(Checkers!Servers)
    <2>1. job.n \in 1 .. Len(Checkers!Servers) /\ left \in Nat
              /\ left >= Len(Checkers!Servers) - job.n + 1 /\ ctx # "expired"
      BY <1>2, <1>3, <1>5 DEF ServersAsked
    <2>2. CASE answered
      <3>1. Checkers!Conclude(Checkers!DnsVerdict)
        BY <1>5, <2>2 DEF Checkers!DnsAsks
      <3>2. Right(Checkers!DnsVerdict)
        BY <1>1 DEF Checkers!DnsVerdict, Right, Checkers!TargetFails, Checkers!Down, Checkers!Up
      <3> QED
        BY <1>1, <3>1, <3>2, AttemptConcludes
    <2>3. CASE ~answered
      <3>1. /\ left' = left - spent
            /\ ctx' = IF ctx = "live" /\ left' = 0 THEN "expired" ELSE ctx
            /\ job' = [job EXCEPT !.n = @ + 1, !.at = IF over THEN "done" ELSE "begin"]
            /\ out' = IF over THEN Checkers!Unknown("dns") ELSE None
            /\ UNCHANGED sockets
        BY <1>5, <2>3 DEF Checkers!DnsAsks
      <3>2. ctx = "live" => \A i \in 1 .. job.n : Checkers!Servers[i] \notin Answering
        <4>1. \A i : i \in 1 .. job.n <=> i \in 1 .. job.n - 1 \/ i = job.n
          BY <2>1
        <4> QED
          BY <1>2, <2>3, <4>1 DEF ServersAsked, Answering
      <3>3. job.n # Len(Checkers!Servers) =>
               spent \in Nat /\ left - spent \in Nat /\ left - spent >= Len(Checkers!Servers) - job.n
               /\ Len(Checkers!Servers) - job.n >= 1
        <4>1. SUFFICES ASSUME job.n # Len(Checkers!Servers)
                       PROVE  spent \in Nat /\ left - spent \in Nat
                                  /\ left - spent >= Len(Checkers!Servers) - job.n
                              /\ Len(Checkers!Servers) - job.n >= 1
          OBVIOUS
        <4>2. Len(Checkers!Servers) - job.n + 1 \in {2, 3}
          BY <1>3, <2>1, <4>1
        <4>3. share \in Nat /\ left - share \in Nat
                  /\ left - share >= Len(Checkers!Servers) - job.n + 1 - 1
          BY <2>1, <4>2, ShareLeavesEnough
        <4> HIDE DEF share
        <4>4. left \in Nat /\ Len(Checkers!Servers) - job.n \in {1, 2}
                  /\ left >= Len(Checkers!Servers) - job.n
          BY <1>3, <2>1, <4>2
        <4>5. CASE spent = 0
          BY <4>4, <4>5
        <4>6. CASE spent = share
          BY <4>3, <4>4, <4>6
        <4> QED
          BY <4>5, <4>6
      <3> HIDE DEF spent, answered, kind, share
      <3>4. CASE over
        <4>1. job' = [config |-> Checkers!c, world |-> Checkers!w, at |-> "done", n |-> job.n + 1,
                  got |-> job.got]
          <5>1. job' = [job EXCEPT !.n = job.n + 1, !.at = "done"]
            BY <3>1, <3>4
          <5> QED
            BY <1>1, <5>1, JobWith
        <4>2. job' \in Checkers!Job /\ job' # None /\ SameAttempt /\ job'.at = "done"
          <5>1. job.n + 1 \in Nat
            BY <2>1
          <5> QED
            BY <1>1, <4>1, <5>1, JobTypes DEF Checkers!c, Checkers!w, SameAttempt
        <4>3. JobSound' /\ StepFits'
          BY <1>1, <4>2 DEF JobSound, SameAttempt, Checkers!Validate, Checkers!Worlds, StepFits
        <4>4. Checkers!ProbeFails' = Checkers!ProbeFails
          BY <3>1, <4>2, VerdictsDepend
        <4>5. Checkers!ProbeFails \/ ctx = "cancelled"
          <5>1. CASE ctx = "live"
            <6>1. job.n = Len(Checkers!Servers)
              BY <2>1, <3>3, <3>4, <5>1
            <6> QED
              BY <1>1, <1>3, <3>2, <5>1, <6>1 DEF Checkers!ProbeFails, Answering
          <5> QED
            BY <2>1, <5>1 DEF AttemptInv
        <4>6. ctx = "cancelled" => ctx' = "cancelled"
          BY <3>1
        <4>7. ctx' \in {"live", "expired", "cancelled"}
          BY <3>1 DEF AttemptInv
        <4>8. Right(out)'
          BY <3>1, <3>4, <4>4, <4>5, <4>6 DEF Right, Checkers!Unknown
        <4> QED
          BY <4>2, <4>3, <4>7, <4>8 DEF AttemptInv
      <3>5. CASE ~over
        <4>1. job' = [config |-> Checkers!c, world |-> Checkers!w, at |-> "begin", n |-> job.n + 1,
                  got |-> job.got]
          <5>1. job' = [job EXCEPT !.n = job.n + 1, !.at = "begin"]
            BY <3>1, <3>5
          <5> QED
            BY <1>1, <5>1, JobWith
        <4>2. ctx = "live" /\ job.n # Len(Checkers!Servers) /\ ctx' = "live" /\ out' = None
          BY <3>1, <3>5
        <4>3. SameAttempt /\ job'.at = "begin" /\ job'.n = job.n + 1
          BY <4>1 DEF SameAttempt, Checkers!c, Checkers!w
        <4>4. Checkers!Servers' = Checkers!Servers
          BY <4>3 DEF Checkers!Servers, SameAttempt
        <4> HIDE DEF over
        <4>5. ServersAsked'
          <5>1. job'.n \in Nat \ {0} /\ job'.n <= Len(Checkers!Servers) /\ job'.n - 1 = job.n
            <6>1. job.n \in Nat \ {0} /\ job.n + 1 <= Len(Checkers!Servers)
              BY <1>3, <2>1, <4>2
            <6> QED
              BY <4>3, <6>1
          <5>2. left' \in Nat /\ left' >= Len(Checkers!Servers) - job'.n + 1
            BY <1>3, <2>1, <3>1, <3>3, <4>2, <4>3
          <5> QED
            BY <3>2, <4>2, <4>4, <5>1, <5>2 DEF ServersAsked
        <4>6. StepFits'
          BY <1>1, <4>3, <4>5 DEF StepFits, SameAttempt
        <4>7. job.n + 1 \in Nat /\ job.got \in Nat
          BY <1>1, <2>1, JobTypes
        <4> QED
          BY <1>1, <4>1, <4>2, <4>6, <4>7, AttemptGoesOn
      <3> QED
        BY <3>4, <3>5
    <2> QED
      BY <2>2, <2>3
  <1> QED
    BY <1>4, <1>5

LEMMA DockerBeginsSound == ASSUME AttemptInv, Checkers!DockerBegins PROVE AttemptInv'
  <1>1. /\ job # None /\ Checkers!c.type = "docker" /\ job.at = "begin" /\ JobSound /\ out = None
        /\ ctx = "expired" => Checkers!w.dial # "answers"
    BY UnderWay DEF Checkers!DockerBegins, StepFits
  <1>2. Checkers!DockerHostIsValid(Checkers!c) /\ Checkers!DockerTLSIsValid(Checkers!c)
    BY <1>1 DEF JobSound, Checkers!Validate, Checkers!ValidDocker
  <1>3. CASE Checkers!Met(Checkers!w.dial) # "answers"
    <2>1. Checkers!w.dial # "answers" \/ ctx = "cancelled"
      BY <1>1, <1>3, MetAnswers
    <2>2. Right(Checkers!Unknown("capability"))
      BY <1>1, <2>1 DEF Right, Checkers!Unknown, Checkers!ProbeFails
    <2> QED
      BY <1>1, <1>2, <1>3, <2>2, AttemptConcludes DEF Checkers!DockerBegins
  <1>4. CASE Checkers!Met(Checkers!w.dial) = "answers"
    <2>1. Checkers!Go("read") /\ ctx # "expired"
      BY <1>2, <1>4, MetAnswers DEF Checkers!DockerBegins
    <2>2. job' = [config |-> Checkers!c, world |-> Checkers!w, at |-> "read", n |-> job.n,
              got |-> job.got]
      BY <1>1, <2>1, JobTypes DEF Checkers!Go
    <2>3. SameAttempt /\ job'.at = "read" /\ out' = None /\ ctx' = ctx
      BY <1>1, <2>1, <2>2 DEF Checkers!Go, SameAttempt, Checkers!c, Checkers!w
    <2>4. StepFits'
      BY <1>1, <2>1, <2>3 DEF StepFits, SameAttempt
    <2>5. /\ job.n \in Nat /\ job.got \in Nat
          /\ out' = None /\ ctx' \in {"live", "expired", "cancelled"}
      BY <1>1, <2>3, JobTypes DEF AttemptInv
    <2> QED
      BY <1>1, <2>2, <2>3, <2>4, <2>5, AttemptGoesOn
  <1> QED
    BY <1>3, <1>4

LEMMA DockerReadsSound == ASSUME AttemptInv, Checkers!DockerReads PROVE AttemptInv'
  <1>1. /\ job # None /\ Checkers!c.type = "docker" /\ job.at = "read" /\ JobSound
        /\ ctx = "expired" => Checkers!w.body # "whole"
    BY UnderWay DEF Checkers!DockerReads, StepFits
  <1>2. Checkers!w.health \in {"none", "healthy", "starting", "unhealthy"}
            /\ Checkers!w.code \in {200, 404, 500}
    BY <1>1, DockerWorldFields DEF JobSound, Checkers!Worlds
  <1> DEFINE o == IF Checkers!Met(Checkers!w.body) # "whole" THEN Checkers!Unknown("capability")
                  ELSE IF Checkers!w.code = 404 THEN Checkers!Down("assertion")
                  ELSE IF Checkers!w.code # 200 \/ ~Checkers!w.json THEN Checkers!Unknown("capability")
                  ELSE Checkers!DockerVerdict
  <1>3. Checkers!Conclude(o)
    BY DEF Checkers!DockerReads
  <1>4. Checkers!TargetFails = (Checkers!w.code = 404 \/ ~Checkers!w.running
            \/ (Checkers!c.healthy /\ Checkers!w.health \in {"none", "unhealthy"}))
    BY <1>1 DEF Checkers!TargetFails
  <1>5. Checkers!ProbeFails = (\/ Checkers!w.dial # "answers" \/ Checkers!w.body # "whole" \/ Checkers!w.code = 500 \/ ~Checkers!w.json
                               \/ (Checkers!c.healthy /\ Checkers!w.health = "starting"))
    BY <1>1 DEF Checkers!ProbeFails
  <1>6. CASE Checkers!Met(Checkers!w.body) # "whole"
    <2>1. Checkers!w.body # "whole" \/ ctx = "cancelled"
      BY <1>1, <1>6, MetAnswers
    <2>2. Right(Checkers!Unknown("capability"))
      BY <1>5, <2>1 DEF Right, Checkers!Unknown
    <2>3. Checkers!Conclude(Checkers!Unknown("capability"))
      BY <1>3, <1>6
    <2> QED
      BY <1>1, <2>2, <2>3, AttemptConcludes
  <1>7. CASE Checkers!Met(Checkers!w.body) = "whole"
    <2>1. Right(o)
      <3>1. CASE Checkers!w.code = 404
        <4>1. o = Checkers!Down("assertion")
          BY <1>7, <3>1
        <4> QED
          BY <1>4, <3>1, <4>1, RightDown
      <3>2. CASE Checkers!w.code # 404 /\ (Checkers!w.code # 200 \/ ~Checkers!w.json)
        <4>1. o = Checkers!Unknown("capability")
          BY <1>7, <3>2
        <4> QED
          BY <1>2, <1>5, <3>2, <4>1, RightUnknown
      <3>3. CASE Checkers!w.code = 200 /\ Checkers!w.json
        <4>1. o = Checkers!DockerVerdict
          BY <1>7, <3>3
        <4>2. CASE ~Checkers!w.running \/ (Checkers!c.healthy
                       /\ Checkers!w.health \notin {"healthy", "starting"})
          <5>1. Checkers!DockerVerdict = Checkers!Down("assertion")
            BY <4>2 DEF Checkers!DockerVerdict
          <5>2. Checkers!TargetFails
            BY <1>2, <1>4, <4>2
          <5>3. Right(Checkers!Down("assertion"))
            BY <5>2, RightDown
          <5> QED
            BY <4>1, <5>1, <5>3
        <4>3. CASE Checkers!w.running /\ (~Checkers!c.healthy \/ Checkers!w.health = "healthy")
          <5>1. Checkers!DockerVerdict = Checkers!Up
            BY <4>3 DEF Checkers!DockerVerdict
          <5>2. ~Checkers!TargetFails
            <6>1. Checkers!w.code # 404 /\ ~(Checkers!c.healthy
                      /\ Checkers!w.health \in {"none", "unhealthy"})
              BY <3>3, <4>3
            <6> QED
              BY <1>4, <4>3, <6>1
          <5>3. Right(Checkers!Up)
            BY <5>2, RightUp
          <5> QED
            BY <4>1, <5>1, <5>3
        <4>4. CASE Checkers!w.running /\ Checkers!c.healthy /\ Checkers!w.health = "starting"
          <5>1. Checkers!DockerVerdict = Checkers!Unknown("none")
            BY <4>4 DEF Checkers!DockerVerdict
          <5> QED
            BY <1>5, <4>1, <4>4, <5>1, RightUnknown
        <4> QED
          BY <4>2, <4>3, <4>4
      <3> QED
        BY <1>2, <3>1, <3>2, <3>3
    <2> HIDE DEF o
    <2> QED
      BY <1>1, <1>3, <2>1, AttemptConcludes
  <1> QED
    BY <1>6, <1>7

\* Whole days left, and half days.
LEMMA HalfDays ==
    ASSUME NEW x \in Int, NEW days \in Int
    PROVE  x \div 2 <= days <=> x < 2 * (days + 1)
  OBVIOUS

LEMMA TlsChecksSound == ASSUME AttemptInv, Checkers!TlsChecks PROVE AttemptInv'
  <1>1. /\ job # None /\ Checkers!c.type = "tls" /\ job.at = "begin" /\ JobSound
        /\ ctx = "live" => Checkers!w.dial # "silent"
    BY UnderWay DEF Checkers!TlsChecks, Checkers!Silent
  <1>2. Checkers!w.dial \in Checkers!Dials \cup {"answers"} /\ Checkers!w.left \in Int
            /\ Checkers!c.days \in Int
    <2>1. Checkers!ValidTls(Checkers!c) /\ Checkers!w \in Checkers!TlsWorlds
      BY <1>1, WorldFits
    <2>2. Checkers!DaysAreValid(Checkers!c.days)
      BY <2>1 DEF Checkers!ValidTls
    <2>3. Checkers!w.left \in Int
      BY <2>1 DEF Checkers!TlsWorlds
    <2>4. Checkers!w.dial \in Checkers!Dials \cup {"answers"}
      BY <2>1 DEF Checkers!TlsWorlds
    <2>5. \A x : Checkers!DaysAreValid(x) => x \in Int
      BY DEF Checkers!DaysAreValid
    <2> QED
      BY <2>2, <2>3, <2>4, <2>5
  <1> DEFINE o == IF Checkers!Met(Checkers!w.dial) # "answers" THEN Checkers!Classify(Checkers!Met(Checkers!w.dial))
                  ELSE IF ~Checkers!w.certs THEN Checkers!Unknown("tls")
                  ELSE IF Checkers!w.left <= 0 THEN Checkers!Down("tls")
                  ELSE IF Checkers!w.left \div 2 <= Checkers!c.days THEN Checkers!Down("assertion")
                  ELSE IF Checkers!c.verify /\ ~Checkers!w.chain THEN Checkers!Down("tls")
                  ELSE Checkers!Up
  <1>3. Checkers!Conclude(o)
    BY DEF Checkers!TlsChecks
  <1>4. CASE Checkers!Met(Checkers!w.dial) # "answers"
    <2>1. Right(Checkers!Classify(Checkers!Met(Checkers!w.dial)))
      BY <1>1, <1>2, <1>4, DialRight
    <2>2. o = Checkers!Classify(Checkers!Met(Checkers!w.dial))
      BY <1>4
    <2> HIDE DEF o
    <2> QED
      BY <1>1, <1>3, <2>1, <2>2, AttemptConcludes
  <1>5. CASE Checkers!Met(Checkers!w.dial) = "answers"
    <2>1. Checkers!w.dial = "answers"
      BY <1>5, MetAnswers
    <2>2. Checkers!TargetFails = (Checkers!w.left <= 0 \/ Checkers!w.left < 2 * (Checkers!c.days + 1)
              \/ (Checkers!c.verify /\ ~Checkers!w.chain))
      BY <1>1, <1>2, <2>1 DEF Checkers!TargetFails
    <2>3. Checkers!w.left \div 2 <= Checkers!c.days <=> Checkers!w.left < 2 * (Checkers!c.days + 1)
      BY <1>2, HalfDays
    <2>4. Right(o)
      <3>1. CASE ~Checkers!w.certs
        <4>1. o = Checkers!Unknown("tls") /\ Checkers!ProbeFails
          BY <1>1, <1>5, <3>1 DEF Checkers!ProbeFails
        <4> QED
          BY <4>1, RightUnknown
      <3>2. CASE Checkers!w.certs /\ Checkers!TargetFails
        <4>1. o \in {Checkers!Down("tls"), Checkers!Down("assertion")}
          BY <1>5, <2>2, <2>3, <3>2
        <4> HIDE DEF o
        <4> QED
          BY <3>2, <4>1, RightDown
      <3>3. CASE Checkers!w.certs /\ ~Checkers!TargetFails
        <4>1. o = Checkers!Up
          BY <1>5, <2>2, <2>3, <3>3
        <4> HIDE DEF o
        <4> QED
          BY <3>3, <4>1, RightUp
      <3> QED
        BY <3>1, <3>2, <3>3
    <2> HIDE DEF o
    <2> QED
      BY <1>1, <1>3, <2>4, AttemptConcludes
  <1> QED
    BY <1>4, <1>5

LEMMA GrpcChecksSound == ASSUME AttemptInv, Checkers!GrpcChecks PROVE AttemptInv'
  <1>1. /\ job # None /\ Checkers!c.type = "grpc" /\ job.at = "begin" /\ JobSound
        /\ ctx = "live" => Checkers!w.dial # "silent"
    BY UnderWay DEF Checkers!GrpcChecks, Checkers!Silent
  <1>2. Checkers!w.dial \in {"answers", "silent", "NotFound", "Unimplemented", "Unavailable", "tls",
            "Internal"}
    BY <1>1 DEF JobSound, Checkers!Worlds, Checkers!GrpcWorlds
  <1> DEFINE accepted == IF Checkers!c.accepted = {} THEN {"SERVING"} ELSE Checkers!c.accepted
             o == IF Checkers!Met(Checkers!w.dial) # "answers" THEN Checkers!ClassifyGrpc(Checkers!Met(Checkers!w.dial))
                  ELSE IF Checkers!w.health \in accepted THEN Checkers!Up
                  ELSE Checkers!Down("assertion")
  <1>3. Checkers!Conclude(o)
    BY DEF Checkers!GrpcChecks
  <1>4. Checkers!TargetFails = (\/ Checkers!w.dial \in {"NotFound", "Unimplemented", "Unavailable", "tls", "Internal"}
                                \/ Checkers!w.health \notin accepted)
    BY <1>1 DEF Checkers!TargetFails
  <1> HIDE DEF accepted
  <1>5. CASE Checkers!Met(Checkers!w.dial) # "answers"
    <2>1. o = Checkers!ClassifyGrpc(Checkers!Met(Checkers!w.dial))
      BY <1>5
    <2> HIDE DEF o
    <2>2. Right(o)
      <3>1. CASE ctx = "live"
        <4>1. Checkers!Met(Checkers!w.dial) = Checkers!w.dial
                  /\ Checkers!w.dial \in {"NotFound", "Unimplemented", "Unavailable", "tls", "Internal"}
          BY <1>1, <1>2, <1>5, <3>1, MetAnswers
        <4>2. Checkers!ClassifyGrpc(Checkers!w.dial).status = "down" /\ Checkers!TargetFails
          BY <1>4, <4>1 DEF Checkers!ClassifyGrpc, Checkers!Down
        <4> QED
          BY <2>1, <4>1, <4>2 DEF Right
      <3>2. CASE ctx = "expired"
        BY <2>1, <3>2, MetAnswers DEF Checkers!ClassifyGrpc, Checkers!Down, Right
      <3>3. CASE ctx = "cancelled"
        BY <2>1, <3>3, MetAnswers DEF Checkers!ClassifyGrpc, Checkers!Unknown, Right
      <3> QED
        BY <3>1, <3>2, <3>3 DEF AttemptInv
    <2> QED
      BY <1>1, <1>3, <2>2, AttemptConcludes
  <1>6. CASE Checkers!Met(Checkers!w.dial) = "answers"
    <2>1. Checkers!w.dial = "answers"
      BY <1>6, MetAnswers
    <2>2. Right(o)
      BY <1>4, <1>6, <2>1 DEF Right, Checkers!Down, Checkers!Up
    <2> HIDE DEF o
    <2> QED
      BY <1>1, <1>3, <2>2, AttemptConcludes
  <1> QED
    BY <1>5, <1>6

LEMMA AttemptReported == ASSUME AttemptInv, Checkers!Report PROVE AttemptInv'
  BY DEF Checkers!Report, AttemptInv

LEMMA AttemptStutters == ASSUME AttemptInv, UNCHANGED Checkers!vars PROVE AttemptInv'
  <1>1. UNCHANGED <<job, ctx, left, sockets, out>> /\ Checkers!c' = Checkers!c
            /\ Checkers!w' = Checkers!w
    BY DEF Checkers!vars, Checkers!c, Checkers!w
  <1>2. SameAttempt /\ Checkers!TargetFails' = Checkers!TargetFails
            /\ Checkers!ProbeFails' = Checkers!ProbeFails
    BY <1>1, VerdictsDepend DEF SameAttempt
  <1>3. JobSound' = JobSound
    BY <1>1 DEF JobSound, Checkers!Validate, Checkers!Worlds
  <1>4. StepFits' = StepFits
    BY <1>1 DEF StepFits, Checkers!TooManyHops, PingsCounted, Reply, ServersAsked, Checkers!Servers
  <1>5. Right(out)' = Right(out)
    BY <1>1, <1>2 DEF Right
  <1> QED
    BY <1>1, <1>3, <1>4, <1>5 DEF AttemptInv

LEMMA AttemptSteps == ASSUME AttemptInv, [Checkers!Next]_(Checkers!vars) PROVE AttemptInv'
  BY AttemptStarts, AttemptCancelled, AttemptExpires, HttpBeginsSound, HttpReadsSound, TcpChecksSound,
     IcmpResolvesSound, IcmpFallsBackSound, IcmpOpensSound, PingSound, PingEndsSound, DnsAsksSound,
     DockerBeginsSound, DockerReadsSound, TlsChecksSound, GrpcChecksSound, AttemptReported,
     AttemptStutters DEF Checkers!Next

(* Every attempt is one of a valid configuration against a world of its     *)
(* type, what it still has to do fits what it has seen, and what it reported *)
(* is right (probe/check).                                                  *)
THEOREM AttemptsCorrect == Checkers!Spec => []AttemptInv
  BY AttemptInit, AttemptSteps, PTL DEF Checkers!Spec

(* Whatever the checker, up, down and unknown say whose failure it is (probe/ *)
(* check http.go, classify).                                                *)
THEOREM VerdictsAreRight == Checkers!Spec => []VerdictIsRight
  <1>1. AttemptInv => VerdictIsRight
    BY DEF AttemptInv, Right, VerdictIsRight, Checkers!VerdictIsRight
  <1> QED
    BY <1>1, AttemptsCorrect, PTL

(* One resolver that answers is enough, wherever it stands in resolv.conf: a *)
(* DNS attempt nobody cancelled comes to a verdict (probe/check dns.go,      *)
(* query).                                                                   *)
THEOREM ResolversShareTheTime == Checkers!Spec => []Checkers!OneResolverIsEnough
  <1>1. AttemptInv => Checkers!OneResolverIsEnough
    <2> SUFFICES ASSUME AttemptInv, out # None, Checkers!c.type = "dns", ctx # "cancelled",
                        out.status = "unknown"
                 PROVE  \A i \in DOMAIN Checkers!Servers :
                           Checkers!Servers[i] \notin {"answers", "truncated"}
      BY DEF Checkers!OneResolverIsEnough
    <2>1. Checkers!ProbeFails
      BY DEF AttemptInv, Right
    <2> QED
      BY <2>1 DEF Checkers!ProbeFails
  <1> QED
    BY <1>1, AttemptsCorrect, PTL
=============================================================================

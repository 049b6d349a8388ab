------------------------------ MODULE Account ------------------------------
(***************************************************************************)
(* First-run setup, sign-in and two-factor enrolment (internal/api/        *)
(* handlers_auth.go, auth.go, internal/auth and the users, recovery codes  *)
(* and sessions of internal/store/sqlite/identity.go).                     *)
(*                                                                         *)
(* A request reads the user's row once and acts on that copy; every store  *)
(* call is a step of its own, so requests interleave between the read and  *)
(* the writes.  A password is right or wrong, a TOTP code is good for one  *)
(* secret, and a recovery code names the confirmation that issued it.      *)
(***************************************************************************)
EXTENDS Naturals, FiniteSets

CONSTANTS
    Requests,           \* requests being served at once
    Emails,             \* addresses, already lowercased and trimmed
    Secrets,            \* TOTP secrets
    CodesIssued,        \* recovery codes of one confirmation
    MaxConfirmations,
    MaxAttempts,        \* loginMaxAttempts
    LoginWindow, SessionLifetime, MaxNow,
    None

AccountAssumption ==
    {CodesIssued, MaxConfirmations, MaxAttempts, LoginWindow, SessionLifetime, MaxNow}
      \subseteq Nat

VARIABLES
    now,
    users,      \* email -> [secret, on]: the row, for those that have one
    instance,   \* settings.general.instance_name: the set-up that wrote it
    codes,      \* unused recovery codes, as <<user, confirmation, number>>
    sessions,   \* [user, expires]
    attempts,   \* the limiter's times, per address
    req,        \* what each request is doing
    issued,     \* confirmations so far
    proven,     \* ghost: secrets a valid code was shown for
    admitted    \* ghost: how often each recovery code opened something

vars == <<now, users, instance, codes, sessions, attempts, req, issued, proven, admitted>>

Idle   == [pc |-> "idle", email |-> None, row |-> None, mark |-> None]
NoRow  == [secret |-> None, on |-> FALSE]
Codes  == Emails \X (1 .. MaxConfirmations) \X (1 .. CodesIssued)

TypeOK ==
    /\ now \in 0 .. MaxNow
    /\ \E known \in SUBSET Emails :
         users \in [known -> [secret : Secrets \cup {None}, on : BOOLEAN]]
    /\ instance \in Emails \cup {None}
    /\ codes \subseteq Codes
    /\ sessions \subseteq [user : DOMAIN users, expires : Nat]
    /\ attempts \in [Emails -> SUBSET ((0 .. MaxNow) \X (1 .. MaxAttempts))]
    /\ DOMAIN req = Requests
    /\ proven \subseteq Secrets
    /\ issued \in 0 .. MaxConfirmations

Init ==
    /\ now = 0 /\ users = <<>> /\ instance = None /\ codes = {} /\ sessions = {}
    /\ attempts = [e \in Emails |-> {}] /\ req = [r \in Requests |-> Idle]
    /\ issued = 0 /\ proven = {} /\ admitted = [c \in Codes |-> 0]

At(r, pc)   == req[r].pc = pc
Ends(r)     == req' = [req EXCEPT ![r] = Idle]
Goes(r, pc) == req' = [req EXCEPT ![r].pc = pc]

\* authenticate: the cookie names a session that has not expired.
SignedIn(e) == \E s \in sessions : s.user = e /\ s.expires > now

\* currentUser: the row behind the session, read again for this request.
Loads(r, e, pc) ==
    /\ At(r, "idle") /\ e \in DOMAIN users /\ SignedIn(e)
    /\ req' = [req EXCEPT ![r] = [pc |-> pc, email |-> e, row |-> users[e], mark |-> None]]

\* issueSession: a lifetime that does not slide.
IssueSession(e) == sessions' = sessions \cup {[user |-> e, expires |-> now + SessionLifetime]}

SetUserTOTP(e, secret, on) == users' = [users EXCEPT ![e] = [secret |-> secret, on |-> on]]

\* Issuing a set invalidates the one before it.
ReplaceRecoveryCodes(e, new) ==
    codes' = {c \in codes : c[1] # e} \cup {<<e, n[1], n[2]>> : n \in new}

-----------------------------------------------------------------------------
(* First-run setup.                                                         *)

\* completeSetup: setup_required is a count of users, taken once.
SetupChecks(r, e) ==
    /\ At(r, "idle") /\ DOMAIN users = {}
    /\ req' = [req EXCEPT ![r] = [Idle EXCEPT !.pc = "setup", !.email = e]]
    /\ UNCHANGED <<now, users, instance, codes, sessions, attempts, issued, proven, admitted>>

\* The name is saved before the account is created.
SetupNames(r) ==
    /\ At(r, "setup") /\ instance' = req[r].email
    /\ Goes(r, "create")
    /\ UNCHANGED <<now, users, codes, sessions, attempts, issued, proven, admitted>>

\* CreateUser, and the session of its owner.  A second row for the address is
\* refused by the unique index; an unnamed instance skips the step before.
SetupCreates(r) ==
    /\ At(r, "setup") \/ At(r, "create")
    /\ LET e == req[r].email IN
       IF e \in DOMAIN users THEN UNCHANGED <<users, sessions>>
       ELSE /\ users' = [u \in DOMAIN users \cup {e} |-> IF u = e THEN NoRow ELSE users[u]]
            /\ IssueSession(e)
    /\ Ends(r)
    /\ UNCHANGED <<now, instance, codes, attempts, issued, proven, admitted>>

-----------------------------------------------------------------------------
(* Sign-in.                                                                 *)

\* loginLimiter.allow: the attempts of the last window, numbered.
Recent(e) == {a \in attempts[e] : a[1] + LoginWindow > now}

Allowed(e) == Cardinality(Recent(e)) < MaxAttempts

Recorded(e) == Recent(e) \cup
               {<<now, CHOOSE n \in 1 .. MaxAttempts : <<now, n>> \notin Recent(e)>>}

\* The attempt is counted, the row is read and the password checked.  A wrong
\* password and an address nobody has are answered alike.
LoginStarts(r, e) ==
    /\ At(r, "idle") /\ DOMAIN users # {} /\ Allowed(e)
    /\ attempts' = [attempts EXCEPT ![e] = Recorded(e)]
    /\ \/ UNCHANGED req
       \/ /\ e \in DOMAIN users
          /\ req' = [req EXCEPT ![r] = [Idle EXCEPT !.pc = "login", !.email = e,
                                                     !.row = users[e]]]
    /\ UNCHANGED <<now, users, instance, codes, sessions, issued, proven, admitted>>

\* One refusal empties the window's expired attempts and records nothing.
LoginLimited(e) ==
    /\ ~Allowed(e)
    /\ attempts' = [attempts EXCEPT ![e] = Recent(e)]
    /\ UNCHANGED <<now, users, instance, codes, sessions, req, issued, proven, admitted>>

\* loginLimiter.succeed, TouchUserLogin and issueSession.
LogsIn(r) ==
    /\ attempts' = [attempts EXCEPT ![req[r].email] = {}]
    /\ IssueSession(req[r].email)
    /\ Ends(r)

\* secondFactorValid with a TOTP code, or none wanted by the row that was read.
LoginWithCode(r) ==
    /\ At(r, "login")
    /\ \/ LogsIn(r)          \* no factor, or a code for the copy's secret
       \/ req[r].row.on /\ Ends(r) /\ UNCHANGED <<attempts, sessions>>
    /\ UNCHANGED <<now, users, instance, codes, issued, proven, admitted>>

OwnCodes(e) == {c \in codes : c[1] = e}

\* ConsumeRecoveryCode: the update's own WHERE clause makes it single-use.
Consumes(c) == /\ codes' = codes \ {c}
               /\ admitted' = [admitted EXCEPT ![c] = @ + 1]

\* The same with a recovery code.
LoginWithRecovery(r) ==
    /\ At(r, "login") /\ req[r].row.on
    /\ \E c \in OwnCodes(req[r].email) : Consumes(c) /\ LogsIn(r)
    /\ UNCHANGED <<now, users, instance, issued, proven>>

Logout(s) ==
    /\ s \in sessions /\ s.expires > now
    /\ sessions' = sessions \ {s}
    /\ UNCHANGED <<now, users, instance, codes, attempts, req, issued, proven, admitted>>

\* DeleteExpiredSessions, on a timer.
SweepSessions ==
    /\ \E s \in sessions : s.expires <= now
    /\ sessions' = {s \in sessions : s.expires > now}
    /\ UNCHANGED <<now, users, instance, codes, attempts, req, issued, proven, admitted>>

-----------------------------------------------------------------------------
(* Two-factor enrolment.                                                    *)

EnrolReads(r, e) ==
    /\ Loads(r, e, "enrol") /\ ~users[e].on
    /\ UNCHANGED <<now, users, instance, codes, sessions, attempts, issued, proven, admitted>>

\* A fresh secret, stored unconfirmed.
EnrolStores(r) ==
    /\ At(r, "enrol")
    /\ \E s \in {s \in Secrets \ proven :
                   /\ \A e \in DOMAIN users : users[e].secret # s
                   /\ \A q \in Requests : req[q].row = None \/ req[q].row.secret # s} :
         SetUserTOTP(req[r].email, s, FALSE)
    /\ Ends(r)
    /\ UNCHANGED <<now, instance, codes, sessions, attempts, issued, proven, admitted>>

\* confirmTOTP: a code for the secret of the row that was read.
ConfirmReads(r, e) ==
    /\ e \in DOMAIN users /\ users[e].secret # None
    /\ Loads(r, e, "confirm")
    /\ proven' = proven \cup {users[e].secret}
    /\ UNCHANGED <<now, users, instance, codes, sessions, attempts, issued, admitted>>

\* The codes are replaced before the factor is on.
ConfirmIssues(r) ==
    /\ At(r, "confirm") /\ issued < MaxConfirmations
    /\ issued' = issued + 1
    /\ ReplaceRecoveryCodes(req[r].email, {issued + 1} \X (1 .. CodesIssued))
    /\ req' = [req EXCEPT ![r].pc = "enable", ![r].mark = issued + 1]
    /\ UNCHANGED <<now, users, instance, sessions, attempts, proven, admitted>>

MutConfirmEnables(r) ==
    /\ At(r, "enable")
    /\ SetUserTOTP(req[r].email, users[req[r].email].secret, TRUE)
    /\ Ends(r)
    /\ UNCHANGED <<now, instance, codes, sessions, attempts, issued, proven, admitted>>

\* The secret of the copy is written back with the time it was confirmed.
ConfirmEnables(r) ==
    /\ At(r, "enable")
    /\ SetUserTOTP(req[r].email, req[r].row.secret, TRUE)
    /\ Ends(r)
    /\ UNCHANGED <<now, instance, codes, sessions, attempts, issued, proven, admitted>>

\* disableTOTP: the password, and a code or a recovery code.
DisableReads(r, e) ==
    /\ Loads(r, e, "disable") /\ users[e].on
    /\ \/ UNCHANGED <<codes, admitted>>
       \/ \E c \in OwnCodes(e) : Consumes(c)
    /\ UNCHANGED <<now, users, instance, sessions, attempts, issued, proven>>

DisableClears(r) ==
    /\ At(r, "disable")
    /\ SetUserTOTP(req[r].email, None, FALSE)
    /\ Goes(r, "codes")
    /\ UNCHANGED <<now, instance, codes, sessions, attempts, issued, proven, admitted>>

DisableEnds(r) ==
    /\ At(r, "codes")
    /\ ReplaceRecoveryCodes(req[r].email, {}) /\ Ends(r)
    /\ UNCHANGED <<now, users, instance, sessions, attempts, issued, proven, admitted>>

\* A store error, or the client's going away, ends a request where it is.
Abandoned(r) ==
    /\ ~At(r, "idle") /\ Ends(r)
    /\ UNCHANGED <<now, users, instance, codes, sessions, attempts, issued, proven, admitted>>

TimePasses ==
    /\ now < MaxNow /\ now' = now + 1
    /\ UNCHANGED <<users, instance, codes, sessions, attempts, req, issued, proven, admitted>>

Next ==
    \/ \E r \in Requests :
         \/ \E e \in Emails : \/ SetupChecks(r, e) \/ LoginStarts(r, e) \/ EnrolReads(r, e)
                              \/ ConfirmReads(r, e) \/ DisableReads(r, e)
         \/ SetupNames(r) \/ SetupCreates(r) \/ LoginWithCode(r) \/ LoginWithRecovery(r)
         \/ EnrolStores(r) \/ ConfirmIssues(r) \/ ConfirmEnables(r)
         \/ DisableClears(r) \/ DisableEnds(r) \/ Abandoned(r)
    \/ \E e \in Emails : LoginLimited(e)
    \/ \E s \in sessions : Logout(s)
    \/ SweepSessions \/ TimePasses

Spec == Init /\ [][Next]_vars

-----------------------------------------------------------------------------
(* However enrolments, confirmations and disablings of one account overlap, *)
(* sign-in asks for a factor only when its owner has shown a code for       *)
(* exactly the secret that is stored: nobody is locked out by an enrolment  *)
(* they never finished.                                                     *)
FactorWasProven ==
    \A e \in DOMAIN users : users[e].on => users[e].secret \in proven

(* A recovery code opens one door once, and a code of an earlier            *)
(* confirmation opens none once a later one has replaced the set.           *)
RecoveryCodesOnce ==
    /\ \A c \in Codes : admitted[c] <= 1
    /\ \A c, d \in codes : c[1] = d[1] => c[2] = d[2]
=============================================================================

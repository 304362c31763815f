-------------------------------- MODULE Auth --------------------------------
(***************************************************************************)
(* One account (internal/auth/service.go): logins with their lockout,      *)
(* password changes and resets, browser sessions, and the pairing codes a  *)
(* phone redeems for a device token.  Any number of requests work on the   *)
(* tables users, sessions, pairing_codes and device_tokens at once.        *)
(*                                                                         *)
(* A request's steps are what it does between two accesses to the          *)
(* database.  What a transaction writes becomes visible when it commits;   *)
(* until then it holds its lock on the account's row or on the code's row. *)
(* now() in SQL is the start of the transaction, s.now() the moment it is  *)
(* called.  A hash is a password and whether its parameters are old.       *)
(* last_seen_at, which only throttles its own updates, is left out.        *)
(***************************************************************************)
EXTENDS Naturals, FiniteSets

CONSTANTS
    NRequests,  \* bound: requests in one behaviour, numbered as they arrive
    MaxOpen,    \* bound: requests open at a time
    MaxTime,    \* bound: the clock, in minutes
    Passwords,
    Codes,      \* pairing codes that may be drawn
    Threshold,  \* lockoutThreshold
    LockBase,   \* lockoutBase
    LockMax,    \* lockoutMax
    SessionTTL,
    CodeTTL,    \* pairingCodeTTL
    CodeKept    \* how long after its expiry a code is swept

ASSUME AuthAssumption ==
    /\ {NRequests, MaxOpen, MaxTime, SessionTTL, CodeTTL, CodeKept} \subseteq Nat
    /\ {Threshold, LockBase, LockMax} \subseteq Nat \ {0} /\ LockBase <= LockMax
    /\ Passwords # {} /\ Codes # {}

Requests == 1..NRequests
First == 0                  \* what was there at the beginning: a session, a code
Account == NRequests + 1    \* the lock on the account's row; a code's is its issue

VARIABLES
    now,        \* the clock
    user,       \* the account's row
    sessions,
    codes,      \* the rows of pairing_codes
    devices,
    req,        \* the requests
    since,      \* history: logins that read the account after its last change
    late,       \* history: logins that were in flight when the password changed
    newest,     \* history: the password that was set last
    raced       \* history: the last failure was counted by a login that had read
                \* another count

tables == <<user, sessions, codes, devices>>
history == <<since, late, newest, raced>>
vars == <<now, tables, req, history>>

Time == 0..MaxTime
NotLocked == 0      \* locked_until IS NULL

LeastOf(a, b) == IF a < b THEN a ELSE b

\* The doubling of lockoutFor.
Doubled[n \in Nat] == IF n = 0 THEN LockBase ELSE LeastOf(2 * Doubled[n - 1], LockMax)

LockoutFor(failures) == IF failures < Threshold THEN 0 ELSE Doubled[failures - Threshold]

LockedUntil(failures, from) ==
    IF LockoutFor(failures) = 0 THEN NotLocked ELSE from + LockoutFor(failures)

User == [pw : Passwords, old : BOOLEAN, failed : Nat, until : 0..(MaxTime + LockMax)]
Session == [id : Requests \cup {First}, expires : 0..(MaxTime + SessionTTL)]
Code == [code : Codes, issue : Requests \cup {First}, expires : 0..(MaxTime + CodeTTL), used : BOOLEAN]
Device == [id : Requests, issue : Requests \cup {First}, revoked : BOOLEAN]

Initially == [pw |-> CHOOSE p \in Passwords : TRUE, old |-> FALSE, failed |-> 0, until |-> NotLocked]
NewRequest ==
    [kind |-> "none", pc |-> "new", pw |-> Initially.pw, next |-> Initially.pw, by |-> First,
     seen |-> Initially, at |-> 0, locks |-> {}, doomed |-> {}]

Init ==
    /\ now = 0
    /\ \E f \in 0..Threshold, o \in BOOLEAN :
         user = [Initially EXCEPT !.old = o, !.failed = f, !.until = LockedUntil(f, 0)]
    /\ sessions = {[id |-> First, expires |-> SessionTTL]}
    /\ codes = {[code |-> CHOOSE c \in Codes : TRUE, issue |-> First,
                 expires |-> CodeTTL, used |-> FALSE]}
    /\ devices = {}
    /\ req = [r \in Requests |-> NewRequest]
    /\ since = {First} /\ late = {} /\ newest = Initially.pw /\ raced = FALSE

-----------------------------------------------------------------------------
Open(r) == req[r].pc \notin {"new", "done"}
At(r, kinds, pc) == req[r].kind \in kinds /\ req[r].pc = pc
Free(r, lock) == \A s \in Requests \ {r} : lock \notin req[s].locks

Goes(r, to) == req' = [req EXCEPT ![r].pc = to]
Ends(r) == req' = [req EXCEPT ![r] = [NewRequest EXCEPT !.pc = "done"]]

\* The next request arrives; f says what it brings.
Begins(r, f) ==
    /\ req[r].pc = "new" /\ \A s \in Requests : s < r => req[s].pc # "new"
    /\ Cardinality({s \in Requests : Open(s)}) < MaxOpen
    /\ req' = [req EXCEPT ![r] = f]

\* GetSessionByTokenHash: the sessions that have not expired.
Live == {s \in sessions : s.expires > now}

\* AuthenticateSession: whom a request can be made by.
Principals == {s.id : s \in Live}

-----------------------------------------------------------------------------
\* Login: GetUserByEmail.
Login(r) ==
    /\ \E p \in Passwords :
         Begins(r, [NewRequest EXCEPT !.kind = "login", !.pc = "verify", !.pw = p, !.seen = user])
    /\ since' = since \cup {r}
    /\ late' = IF \E c \in Requests : At(c, {"change", "reset"}, "commit") THEN late \cup {r} ELSE late
    /\ UNCHANGED <<now, tables, newest, raced>>

IsLocked(u) == u.until > now

\* The account is locked, or the password is verified against the hash that was read.
Verify(r) ==
    /\ At(r, {"login"}, "verify")
    /\ LET u == req[r].seen IN
       IF IsLocked(u) THEN Ends(r)
       ELSE req' = [req EXCEPT ![r].pc = IF req[r].pw = u.pw THEN "open" ELSE "record",
                               ![r].at = now]
    /\ UNCHANGED <<now, tables, history>>

\* RecordFailedLogin: the count goes up by one, the lock is what the login computed.
RecordFailedLogin(r) ==
    /\ At(r, {"login"}, "record") /\ Free(r, Account)
    /\ user' = [user EXCEPT !.failed = @ + 1,
                            !.until = LockedUntil(req[r].seen.failed + 1, req[r].at)]
    /\ raced' = (req[r].seen.failed # user.failed)
    /\ Ends(r)
    /\ UNCHANGED <<now, sessions, codes, devices, since, late, newest>>

\* The login resets the failures it has read, or upgrades an old hash.
Resets(r) == req[r].seen.failed > 0 \/ req[r].seen.until # NotLocked
Rehashes(r) == req[r].seen.old

\* ResetFailedLogin and UpdateUserPassword, which lock the account's row.
OpenSession(r) ==
    /\ At(r, {"login"}, "open")
    /\ \/ (Resets(r) \/ Rehashes(r)) /\ Free(r, Account)
          /\ req' = [req EXCEPT ![r].pc = "commit", ![r].locks = {Account}]
       \/ ~ Resets(r) /\ ~ Rehashes(r) /\ Goes(r, "commit")
    /\ UNCHANGED <<now, tables, history>>

\* Mutant of Reset: the lock stays.
ResetCountOnly(u) == [u EXCEPT !.failed = 0]

Reset(u) == [u EXCEPT !.failed = 0, !.until = NotLocked]
SetPassword(u, pw) == [Reset(u) EXCEPT !.pw = pw, !.old = FALSE]

\* CreateSession, and the transaction commits.
CommitLogin(r) ==
    /\ At(r, {"login"}, "commit")
    /\ user' = IF Rehashes(r) THEN SetPassword(user, req[r].pw)
               ELSE IF Resets(r) THEN Reset(user) ELSE user
    /\ raced' = (raced /\ ~ Rehashes(r) /\ ~ Resets(r))
    /\ sessions' = sessions \cup {[id |-> r, expires |-> req[r].at + SessionTTL]}
    /\ Ends(r)
    /\ UNCHANGED <<now, codes, devices, since, late, newest>>

Logout(s) ==
    /\ s \in Live
    /\ sessions' = sessions \ {s}
    /\ UNCHANGED <<now, user, codes, devices, req, history>>

-----------------------------------------------------------------------------
\* ChangePassword from a session; the current password is checked against the
\* account as it is read here.
ChangePassword(r) ==
    /\ \E by \in Principals, current, next \in Passwords :
         \/ /\ current = user.pw
            /\ Begins(r, [NewRequest EXCEPT !.kind = "change", !.pc = "update",
                                            !.next = next, !.by = by])
         \/ /\ current # user.pw
            /\ Begins(r, [NewRequest EXCEPT !.pc = "done"])
    /\ UNCHANGED <<now, tables, history>>

\* The admin command's way: no session, nothing to verify.
ResetPassword(r) ==
    /\ \E next \in Passwords :
         Begins(r, [NewRequest EXCEPT !.kind = "reset", !.pc = "update", !.next = next])
    /\ UNCHANGED <<now, tables, history>>

UpdateUserPassword(r) ==
    /\ At(r, {"change", "reset"}, "update") /\ Free(r, Account)
    /\ req' = [req EXCEPT ![r].pc = "delete", ![r].locks = {Account}]
    /\ UNCHANGED <<now, tables, history>>

\* Mutant of Others: the caller's own session is the one that goes.
OthersSwapped(r) == {s \in sessions : s.id = req[r].by}

Others(r) == {s \in sessions : req[r].kind = "reset" \/ s.id # req[r].by}

\* DeleteOtherSessions: those that are committed.
DeleteOtherSessions(r) ==
    /\ At(r, {"change", "reset"}, "delete")
    /\ req' = [req EXCEPT ![r].pc = "commit", ![r].doomed = Others(r)]
    /\ late' = late \cup {l \in Requests : Open(l) /\ req[l].kind = "login"}
    /\ UNCHANGED <<now, tables, since, newest, raced>>

CommitPassword(r) ==
    /\ At(r, {"change", "reset"}, "commit")
    /\ user' = SetPassword(user, req[r].next)
    /\ sessions' = sessions \ req[r].doomed
    /\ newest' = req[r].next /\ raced' = FALSE
    /\ since' = IF req[r].kind = "change" THEN {req[r].by} ELSE {}
    /\ Ends(r)
    /\ UNCHANGED <<now, codes, devices, late>>

-----------------------------------------------------------------------------
\* CreatePairingCode: the session has been authenticated; a code that is taken
\* is drawn again.
CreatePairingCode(r) ==
    /\ \E by \in Principals :
         Begins(r, [NewRequest EXCEPT !.kind = "pair", !.pc = "insert", !.by = by, !.at = now])
    /\ UNCHANGED <<now, tables, history>>

InsertPairingCode(r) ==
    /\ At(r, {"pair"}, "insert")
    /\ \E c \in Codes \ {k.code : k \in codes} :
         codes' = codes \cup {[code |-> c, issue |-> r, expires |-> req[r].at + CodeTTL,
                               used |-> FALSE]}
    /\ Ends(r)
    /\ UNCHANGED <<now, user, sessions, devices, history>>

\* RedeemPairingCode: the transaction begins.
RedeemPairingCode(r) ==
    /\ \E k \in codes : Begins(r, [NewRequest EXCEPT !.kind = "redeem", !.pc = "consume",
                                                     !.by = k.issue, !.at = now])
    /\ UNCHANGED <<now, tables, history>>

\* Mutant of Redeemable: the row is not looked at again after the wait.
RedeemableAsFound(r, k) == k.issue = req[r].by /\ k.expires > req[r].at

Redeemable(r, k) == k.issue = req[r].by /\ ~ k.used /\ k.expires > req[r].at

\* ConsumePairingCode waits for another redemption of the code and looks again.
ConsumePairingCode(r) ==
    /\ At(r, {"redeem"}, "consume") /\ Free(r, req[r].by)
    /\ IF \E k \in codes : Redeemable(r, k)
       THEN req' = [req EXCEPT ![r].pc = "commit", ![r].locks = {req[r].by}]
       ELSE Ends(r)
    /\ UNCHANGED <<now, tables, history>>

\* CreateDeviceToken, and the transaction commits.
CommitDevice(r) ==
    /\ At(r, {"redeem"}, "commit")
    /\ codes' = {IF k.issue = req[r].by THEN [k EXCEPT !.used = TRUE] ELSE k : k \in codes}
    /\ devices' = devices \cup {[id |-> r, issue |-> req[r].by, revoked |-> FALSE]}
    /\ Ends(r)
    /\ UNCHANGED <<now, user, sessions, history>>

RevokeDevice(d) ==
    /\ d \in devices /\ ~ d.revoked /\ Live # {}
    /\ devices' = (devices \ {d}) \cup {[d EXCEPT !.revoked = TRUE]}
    /\ UNCHANGED <<now, user, sessions, codes, req, history>>

-----------------------------------------------------------------------------
\* DeleteExpiredSessions and DeleteStalePairingCodes, which waits for a
\* redemption that holds the code.
SweepSessions ==
    /\ sessions # Live /\ sessions' = Live
    /\ UNCHANGED <<now, user, codes, devices, req, history>>

Stale(k) == k.expires + CodeKept < now
SweepCodes ==
    /\ \E k \in codes : Stale(k)
    /\ \A k \in codes : Stale(k) => Free(0, k.issue)
    /\ codes' = {k \in codes : ~ Stale(k)}
    /\ UNCHANGED <<now, user, sessions, devices, req, history>>

\* A statement fails or the client goes away.
Rollback(r) ==
    /\ Open(r)
    /\ Ends(r)
    /\ UNCHANGED <<now, tables, history>>

Tick ==
    /\ now < MaxTime /\ now' = now + 1
    /\ UNCHANGED <<tables, req, history>>

Arrives(r) ==
    \/ Login(r) \/ ChangePassword(r) \/ ResetPassword(r) \/ CreatePairingCode(r)
    \/ RedeemPairingCode(r)

Proceeds(r) ==
    \/ Verify(r) \/ RecordFailedLogin(r) \/ OpenSession(r) \/ CommitLogin(r)
    \/ UpdateUserPassword(r) \/ DeleteOtherSessions(r) \/ CommitPassword(r)
    \/ InsertPairingCode(r) \/ ConsumePairingCode(r) \/ CommitDevice(r)

Next ==
    \/ \E r \in Requests : Arrives(r) \/ Proceeds(r) \/ Rollback(r)
    \/ \E s \in sessions : Logout(s)
    \/ \E d \in devices : RevokeDevice(d)
    \/ SweepSessions \/ SweepCodes \/ Tick

Spec == Init /\ [][Next]_vars

-----------------------------------------------------------------------------
Request == [kind : {"none", "login", "change", "reset", "pair", "redeem"},
            pc : {"new", "verify", "record", "open", "update", "delete", "insert",
                  "consume", "commit", "done"},
            pw : Passwords, next : Passwords, by : Requests \cup {First}, seen : User,
            at : Time, locks : SUBSET (0..Account), doomed : SUBSET Session]

(* Types, and "lockoutMax: this throttles online guessing without a permanent
   lockout": no lock lasts longer than that from now. *)
TypeOK ==
    /\ now \in Time /\ user \in User /\ user.until <= now + LockMax
    /\ sessions \subseteq Session /\ codes \subseteq Code /\ devices \subseteq Device
    /\ req \in [Requests -> Request]
    /\ since \subseteq Requests \cup {First} /\ late \subseteq Requests \cup {First}
    /\ newest \in Passwords /\ raced \in BOOLEAN

(* "after lockoutThreshold consecutive failures the account is locked"
   (lockoutFor): exactly then locked_until is set, unless the failure counted
   last came from a login that had read the count before another one changed it. *)
FailuresLock == raced \/ (user.until # NotLocked <=> user.failed >= Threshold)

(* The same without the exception. *)
FailuresAlwaysLock == user.failed >= Threshold => user.until # NotLocked

(* ChangePassword "replaces the caller's password ... and signs out every other
   session": besides the caller's, every session comes from a login that read the
   account after the change, and no hash upgrade brings the old password back;
   logins that were in flight during a change are excepted. *)
ChangesTakeHold ==
    /\ {s.id : s \in sessions} \subseteq since \cup late
    /\ late = {} => user.pw = newest

(* The same without the exception. *)
ChangesSignOut == {s.id : s \in sessions} \subseteq since

(* "single-use" pairing codes: however many phones redeem a code at once, and
   whatever fails, one of them at most is given a token for it. *)
OneDevicePerCode ==
    \A d, e \in devices : d.issue = e.issue => d = e
=============================================================================

------------------------------- MODULE AuthProofs -------------------------------
(***************************************************************************)
(* Proofs about Auth, for any number of requests, passwords and codes and  *)
(* any threshold, lockout and lifetimes that satisfy the assumptions.      *)
(***************************************************************************)
EXTENDS Auth, WellFoundedInduction, TLAPS

-----------------------------------------------------------------------------
(* Induction on the natural numbers, stated with a set where the library   *)
(* has an operator, and what it says of functions defined by recursion.    *)

\* A set of numbers that contains 0 and every successor contains them all.
LEMMA SetInduction ==
  ASSUME NEW S, 0 \in S, \A n \in Nat : n \in S => n + 1 \in S
  PROVE  \A n \in Nat : n \in S
<1> DEFINE R == OpToRel(<, Nat)
           T == Nat \ S
<1>1. IsWellFoundedOn(R, Nat)
  BY NatLessThanWellFounded
<1>2. \A y, x \in Nat : y < x => <<y, x>> \in R
  BY DEF OpToRel
<1> HIDE DEF R
<1> SUFFICES ASSUME T # {} PROVE FALSE
  OBVIOUS
<1>3. PICK x \in T : \A y \in T : <<y, x>> \notin R
  BY <1>1, WFMin
<1>4. x # 0 /\ x - 1 \in Nat /\ x - 1 < x /\ x - 1 \in T
  BY <1>3
<1> QED
  BY <1>2, <1>3, <1>4

\* There is a function that starts at a and goes from f[n - 1] to step[f[n - 1]].
LEMMA RecursiveFunction ==
  ASSUME NEW V, NEW a \in V, NEW step \in [V -> V]
  PROVE  \E f \in [Nat -> V] : f = [n \in Nat |-> IF n = 0 THEN a ELSE step[f[n - 1]]]
<1> DEFINE Starts(h, n) == /\ h \in [0..n -> V]
                           /\ h[0] = a
                           /\ \A i \in 0..n : i # 0 => h[i] = step[h[i - 1]]
<1>1. \A n \in Nat : \E h \in [0..n -> V] : Starts(h, n)
  <2> DEFINE S == {n \in Nat : \E h \in [0..n -> V] : Starts(h, n)}
  <2>1. 0 \in S
    <3> DEFINE g == [i \in 0..0 |-> a]
    <3>1. g \in [0..0 -> V] /\ Starts(g, 0)
      OBVIOUS
    <3> QED
      BY <3>1
  <2>2. ASSUME NEW n \in Nat, n \in S
        PROVE  n + 1 \in S
    <3>1. PICK h \in [0..n -> V] : Starts(h, n)
      BY <2>2
    <3> DEFINE g == [i \in 0..(n + 1) |-> IF i = n + 1 THEN step[h[n]] ELSE h[i]]
    <3>2. g \in [0..(n + 1) -> V]
      BY <3>1
    <3>3. \A i \in 0..(n + 1) : i # 0 => g[i] = step[g[i - 1]]
      BY <3>1
    <3>4. Starts(g, n + 1)
      BY <3>1, <3>2, <3>3
    <3> QED
      BY <3>2, <3>4
  <2> HIDE DEF S
  <2>3. \A n \in Nat : n \in S
    BY <2>1, <2>2, SetInduction
  <2> QED
    BY <2>3 DEF S
<1>2. ASSUME NEW m \in Nat, NEW n \in Nat, NEW g \in [0..m -> V], NEW h \in [0..n -> V],
             Starts(g, m), Starts(h, n)
      PROVE  \A i \in Nat : i <= m /\ i <= n => g[i] = h[i]
  <2> DEFINE S == {i \in Nat : i <= m /\ i <= n => g[i] = h[i]}
  <2>1. 0 \in S
    BY <1>2
  <2>2. ASSUME NEW i \in Nat, i \in S
        PROVE  i + 1 \in S
    BY <1>2, <2>2
  <2> HIDE DEF S
  <2>3. \A i \in Nat : i \in S
    BY <2>1, <2>2, SetInduction
  <2> QED
    BY <2>3 DEF S
<1> DEFINE part == [n \in Nat |-> CHOOSE h \in [0..n -> V] : Starts(h, n)]
           f == [n \in Nat |-> part[n][n]]
<1>3. \A n \in Nat : part[n] \in [0..n -> V] /\ Starts(part[n], n)
  BY <1>1
<1> HIDE DEF part
<1>4. f \in [Nat -> V]
  BY <1>3
<1>5. ASSUME NEW n \in Nat
      PROVE  f[n] = IF n = 0 THEN a ELSE step[f[n - 1]]
  <2>1. CASE n = 0
    BY <1>3, <2>1
  <2>2. CASE n # 0
    <3>1. n - 1 \in Nat /\ n - 1 <= n - 1 /\ n - 1 <= n
      BY <2>2
    <3>2. \A i \in Nat : i <= n /\ i <= n - 1 => part[n][i] = part[n - 1][i]
      BY <1>2, <1>3, <3>1
    <3>3. part[n][n - 1] = part[n - 1][n - 1]
      BY <3>1, <3>2
    <3> QED
      BY <1>3, <2>2, <3>1, <3>3
  <2> QED
    BY <2>1, <2>2
<1> QED
  BY <1>4, <1>5

-----------------------------------------------------------------------------

LoggingIn(q) == q.kind = "login" /\ q.pc \in {"verify", "record", "open", "commit"}
Changing(q, pcs) == q.kind \in {"change", "reset"} /\ q.pc \in pcs
Redeeming(q, pcs) == q.kind = "redeem" /\ q.pc \in pcs

\* Where the requests of each kind can be, and when a login looked at the clock.
KnowsItsWay(q) ==
  /\ \/ q.pc \in {"new", "done"}
     \/ LoggingIn(q)
     \/ Changing(q, {"update", "delete", "commit"})
     \/ q.kind = "pair" /\ q.pc = "insert"
     \/ Redeeming(q, {"consume", "commit"})
  /\ q.at <= now

\* No two requests hold one row.
Apart == \A r, s \in Requests : r # s => req[r].locks \cap req[s].locks = {}

-----------------------------------------------------------------------------
\* A login that opens a session was made with the password it has read, and has
\* read the newest one, unless it was in flight during a change.
ReadsNewest ==
  /\ \A r \in Requests : At(r, {"login"}, "open") \/ At(r, {"login"}, "commit")
       => req[r].pw = req[r].seen.pw
  /\ late = {} => /\ user.pw = newest
                  /\ \A r \in Requests : LoggingIn(req[r]) => req[r].seen.pw = newest

\* The logins in flight, and those that have left a session, have read the account
\* since its last change or are known to be late.
LoginsAreKnown ==
  /\ \A r \in Requests : LoggingIn(req[r]) => r \in since \cup late
  /\ {s.id : s \in sessions} \subseteq since \cup late

\* A change that has listed the sessions it removes will leave the caller's and
\* those of late logins.
ListedSessionsGo ==
  \A c \in Requests : Changing(req[c], {"commit"}) =>
    /\ \A l \in Requests : LoggingIn(req[l]) => l \in late
    /\ \A s \in sessions : \/ s \in req[c].doomed \/ s.id \in late
                           \/ req[c].kind = "change" /\ s.id = req[c].by

-----------------------------------------------------------------------------
Done(i) == i = First \/ req[i].pc = "done"

\* A code is issued once, and the code of a token is used as long as it is there.
CodesAndTokens ==
  /\ \A k \in codes : Done(k.issue)
  /\ \A d \in devices : Done(d.issue)
  /\ \A d \in devices, k \in codes : d.issue = k.issue => k.used
  /\ OneDevicePerCode

\* A redemption names a code that has been issued; when it has consumed it, it
\* holds it, and nobody has a token for it.
Claims(q) ==
  q.kind = "redeem" =>
    /\ Done(q.by)
    /\ q.pc = "commit" => q.by \in q.locks /\ \A d \in devices : d.issue # q.by

SessionsInv == ReadsNewest /\ LoginsAreKnown /\ ListedSessionsGo
CodesInv == CodesAndTokens /\ \A r \in Requests : Claims(req[r])

Typed == TypeOK /\ (\A r \in Requests : KnowsItsWay(req[r])) /\ Apart

IInv ==
  /\ Typed /\ FailuresLock
  /\ SessionsInv /\ CodesInv

-----------------------------------------------------------------------------
LEMMA Numbers ==
  /\ NRequests \in Nat /\ MaxTime \in Nat /\ SessionTTL \in Nat /\ CodeTTL \in Nat
  /\ Threshold \in Nat \ {0} /\ LockBase \in Nat \ {0} /\ LockMax \in Nat \ {0}
  /\ LockBase <= LockMax
BY AuthAssumption

\* The doubling starts at lockoutBase, never vanishes and never exceeds lockoutMax.
LEMMA DoubledIsBounded == \A n \in Nat : Doubled[n] \in 1..LockMax
<1> DEFINE V == 1..LockMax
           step == [d \in V |-> LeastOf(2 * d, LockMax)]
<1>1. LockBase \in V /\ step \in [V -> V] /\ \A d \in V : step[d] = LeastOf(2 * d, LockMax)
  BY Numbers DEF LeastOf
<1> HIDE DEF V, step
<1>2. PICK f \in [Nat -> V] : f = [n \in Nat |-> IF n = 0 THEN LockBase ELSE step[f[n - 1]]]
  BY <1>1, RecursiveFunction
<1>3. f = [n \in Nat |-> IF n = 0 THEN LockBase ELSE LeastOf(2 * f[n - 1], LockMax)]
  <2>1. \A n \in Nat \ {0} : step[f[n - 1]] = LeastOf(2 * f[n - 1], LockMax)
    BY <1>1, <1>2
  <2> QED
    BY <1>2, <2>1
<1>4. Doubled = [n \in Nat |-> IF n = 0 THEN LockBase ELSE LeastOf(2 * Doubled[n - 1], LockMax)]
  BY <1>3 DEF Doubled
<1> DEFINE S == {n \in Nat : Doubled[n] \in V}
<1>5. 0 \in S
  BY <1>1, <1>4
<1>6. ASSUME NEW n \in Nat, n \in S
      PROVE  n + 1 \in S
  <2>1. Doubled[n + 1] = LeastOf(2 * Doubled[n], LockMax)
    BY <1>4
  <2> QED
    BY <1>6, <2>1, Numbers DEF LeastOf, V
<1> HIDE DEF S
<1>7. \A n \in Nat : n \in S
  BY <1>5, <1>6, SetInduction
<1> QED
  BY <1>7 DEF S, V

\* A lock is set from the threshold on, and for lockoutMax at most.
LEMMA LockedUntilIs ==
  ASSUME NEW failures \in Nat, NEW from \in Nat
  PROVE  /\ LockedUntil(failures, from) \in 0..(from + LockMax)
         /\ LockedUntil(failures, from) # NotLocked <=> failures >= Threshold
<1>1. failures >= Threshold => LockoutFor(failures) \in 1..LockMax
  BY DoubledIsBounded, Numbers DEF LockoutFor
<1>2. failures < Threshold => LockoutFor(failures) = 0
  BY DEF LockoutFor
<1> QED
  BY <1>1, <1>2, Numbers DEF LockedUntil, NotLocked

LEMMA InitialRecords ==
  /\ Initially \in User /\ Initially.failed = 0 /\ Initially.until = NotLocked
  /\ NewRequest \in Request /\ NewRequest.pc = "new" /\ NewRequest.kind = "none"
  /\ NewRequest.at = 0 /\ NewRequest.locks = {} /\ NewRequest.doomed = {}
<1>1. (CHOOSE p \in Passwords : TRUE) \in Passwords
  BY AuthAssumption
<1>2. Initially \in User
  BY <1>1, Numbers DEF Initially, User, NotLocked
<1>3. Initially.pw \in Passwords /\ Initially.failed = 0 /\ Initially.until = NotLocked
  BY <1>1 DEF Initially
<1>4. 0 \in Time /\ {} \in SUBSET (0..Account) /\ First \in Requests \cup {First}
  BY Numbers DEF Time
<1> QED
  BY <1>2, <1>3, <1>4 DEF NewRequest, Request

LEMMA Passwording ==
  ASSUME NEW u \in User, NEW pw \in Passwords
  PROVE  /\ Reset(u) \in User /\ SetPassword(u, pw) \in User
         /\ Reset(u).pw = u.pw /\ SetPassword(u, pw).pw = pw
         /\ Reset(u).failed = 0 /\ SetPassword(u, pw).failed = 0
         /\ Reset(u).until = NotLocked /\ SetPassword(u, pw).until = NotLocked
<1>1. NotLocked \in 0..(MaxTime + LockMax) /\ 0 \in Nat
  BY Numbers DEF NotLocked
<1>2. /\ Reset(u) \in User /\ Reset(u).pw = u.pw /\ Reset(u).failed = 0
      /\ Reset(u).until = NotLocked
  BY <1>1 DEF User, Reset
<1> QED
  BY <1>2 DEF User, SetPassword

-----------------------------------------------------------------------------
\* What remains of a request that is answered.
Gone == [NewRequest EXCEPT !.pc = "done"]

LEMMA GoneIs ==
  /\ Gone \in Request /\ Gone.pc = "done" /\ Gone.kind = "none" /\ Gone.locks = {} /\ Gone.at = 0
  /\ \A r : Ends(r) => req' = [req EXCEPT ![r] = Gone]
BY InitialRecords DEF Gone, Request, Ends

\* The requests stay well typed and on their way, and hold their rows alone, if
\* the one that takes the step does.
LEMMA RequestStep ==
  ASSUME Typed, NEW r \in Requests, NEW q \in Request, req' = [req EXCEPT ![r] = q],
         KnowsItsWay(q), now' = now,
         \A s \in Requests \ {r} : q.locks \cap req[s].locks = {}
  PROVE  /\ req' \in [Requests -> Request]
         /\ \A s \in Requests : KnowsItsWay(req[s])'
         /\ Apart'
<1>1. /\ req' \in [Requests -> Request] /\ req'[r] = q
      /\ \A s \in Requests \ {r} : req'[s] = req[s]
  BY DEF Typed, TypeOK
<1>2. ASSUME NEW s \in Requests
      PROVE  KnowsItsWay(req[s])'
  <2>1. KnowsItsWay(req'[s])
    BY <1>1 DEF Typed
  <2> QED
    BY <2>1 DEF KnowsItsWay, LoggingIn, Changing, Redeeming
<1>3. Apart'
  BY <1>1 DEF Typed, Apart
<1> QED
  BY <1>1, <1>2, <1>3

\* A step that only says how r goes on.
LEMMA QuietTyped ==
  ASSUME Typed, NEW r \in Requests, NEW q \in Request, req' = [req EXCEPT ![r] = q],
         KnowsItsWay(q), UNCHANGED <<now, tables, newest, raced>>,
         since' \subseteq Requests \cup {First}, late' \subseteq Requests \cup {First},
         \A s \in Requests \ {r} : q.locks \cap req[s].locks = {}
  PROVE  Typed'
BY RequestStep DEF Typed, TypeOK, tables

LEMMA TypedStep == Typed /\ [Next]_vars => Typed'
<1> SUFFICES ASSUME Typed, [Next]_vars PROVE Typed'
  OBVIOUS
<1>0. /\ req \in [Requests -> Request] /\ user \in User /\ now \in Nat
      /\ now \in Time /\ since \subseteq Requests \cup {First} /\ late \subseteq Requests \cup {First}
      /\ \A r \in Requests : KnowsItsWay(req[r]) /\ req[r] \in Request
  BY DEF Typed, TypeOK, Time
<1> DEFINE Alone(q, r) == \A s \in Requests \ {r} : q.locks \cap req[s].locks = {}
<1>a. \A r \in Requests : Alone(req[r], r)
  BY DEF Typed, Apart
<1>b. {Account} \in SUBSET (0..Account)
  BY Numbers DEF Account
<1>1. ASSUME NEW r \in Requests, Login(r)
      PROVE  Typed'
  <2>1. PICK p \in Passwords :
          Begins(r, [NewRequest EXCEPT !.kind = "login", !.pc = "verify", !.pw = p, !.seen = user])
    BY <1>1 DEF Login
  <2> DEFINE q == [NewRequest EXCEPT !.kind = "login", !.pc = "verify", !.pw = p, !.seen = user]
  <2>2. q \in Request /\ KnowsItsWay(q) /\ q.locks = {}
    <3>1. q \in Request /\ q.kind = "login" /\ q.pc = "verify" /\ q.at = 0 /\ q.locks = {}
      BY <1>0, InitialRecords DEF Request
    <3> QED
      BY <1>0, <3>1 DEF KnowsItsWay, LoggingIn
  <2> HIDE DEF q
  <2>3. req' = [req EXCEPT ![r] = q]
    BY <2>1 DEF Begins, q
  <2> QED
    BY <1>0, <1>1, <2>2, <2>3, QuietTyped DEF Login
<1>2. ASSUME NEW r \in Requests, Verify(r)
      PROVE  Typed'
  <2>1. CASE IsLocked(req[r].seen)
    BY <1>0, <1>2, <2>1, GoneIs, QuietTyped DEF Verify, KnowsItsWay, history
  <2>2. CASE ~ IsLocked(req[r].seen)
    <3> DEFINE q == [req[r] EXCEPT
                       !.pc = IF req[r].pw = req[r].seen.pw THEN "open" ELSE "record", !.at = now]
    <3>1. q \in Request /\ KnowsItsWay(q) /\ q.locks = req[r].locks
      <4>1. req[r].kind = "login"
        BY <1>2 DEF Verify, At
      <4>2. /\ q \in Request /\ q.kind = req[r].kind /\ q.pc \in {"open", "record"}
            /\ q.at = now /\ q.locks = req[r].locks
        BY <1>0 DEF Request
      <4> QED
        BY <1>0, <4>1, <4>2 DEF KnowsItsWay, LoggingIn
    <3>2. req' = [req EXCEPT ![r] = q]
      BY <1>0, <1>2, <2>2 DEF Verify
    <3> HIDE DEF q
    <3> QED
      BY <1>0, <1>a, <1>2, <3>1, <3>2, QuietTyped DEF Verify, history
  <2> QED
    BY <2>1, <2>2
<1>3. ASSUME NEW r \in Requests, RecordFailedLogin(r)
      PROVE  Typed'
  <2>1. req[r].seen.failed + 1 \in Nat /\ req[r].at \in Nat /\ req[r].at <= now
    BY <1>0 DEF Request, User, KnowsItsWay, Time
  <2>2. LockedUntil(req[r].seen.failed + 1, req[r].at) \in 0..(now + LockMax)
    <3>1. 0..(req[r].at + LockMax) \subseteq 0..(now + LockMax)
      BY <1>0, <2>1, Numbers
    <3> QED
      BY <2>1, <3>1, LockedUntilIs
  <2>3. now + LockMax <= MaxTime + LockMax
    BY <1>0, Numbers DEF Time
  <2>4. user' \in User /\ user'.until <= now + LockMax
    <3>1. user' = [user EXCEPT !.failed = @ + 1,
                               !.until = LockedUntil(req[r].seen.failed + 1, req[r].at)]
      BY <1>3 DEF RecordFailedLogin
    <3>2. LockedUntil(req[r].seen.failed + 1, req[r].at) \in 0..(MaxTime + LockMax)
      BY <1>0, <2>2, <2>3, Numbers
    <3>3. user.failed + 1 \in Nat
      BY <1>0 DEF User
    <3> DEFINE until == LockedUntil(req[r].seen.failed + 1, req[r].at)
    <3>4. user' = [user EXCEPT !.failed = user.failed + 1, !.until = until]
      BY <3>1
    <3> HIDE DEF until
    <3>5. user' \in User /\ user'.until = until
      BY <1>0, <3>2, <3>3, <3>4 DEF User, until
    <3> QED
      BY <2>2, <3>5 DEF until
  <2>5. /\ req' \in [Requests -> Request] /\ \A s \in Requests : KnowsItsWay(req[s])'
        /\ Apart'
    BY <1>0, <1>3, GoneIs, RequestStep DEF RecordFailedLogin, KnowsItsWay
  <2> QED
    BY <1>3, <2>4, <2>5 DEF RecordFailedLogin, Typed, TypeOK
<1>4. ASSUME NEW r \in Requests, OpenSession(r)
      PROVE  Typed'
  <2>1. CASE Free(r, Account) /\ req' = [req EXCEPT ![r].pc = "commit", ![r].locks = {Account}]
    <3> DEFINE q == [req[r] EXCEPT !.pc = "commit", !.locks = {Account}]
    <3>1. q \in Request /\ KnowsItsWay(q) /\ q.locks = {Account}
      <4>1. req[r].kind = "login"
        BY <1>4 DEF OpenSession, At
      <4>2. q \in Request /\ q.kind = req[r].kind /\ q.pc = "commit" /\ q.at = req[r].at
            /\ q.locks = {Account}
        BY <1>0, <1>b DEF Request
      <4> QED
        BY <1>0, <4>1, <4>2 DEF KnowsItsWay, LoggingIn
    <3>2. req' = [req EXCEPT ![r] = q]
      BY <1>0, <2>1
    <3>3. \A s \in Requests \ {r} : q.locks \cap req[s].locks = {}
      BY <2>1, <3>1 DEF Free
    <3> QED
      BY <1>0, <1>4, <3>1, <3>2, <3>3, QuietTyped DEF OpenSession, history
  <2>2. CASE Goes(r, "commit")
    <3> DEFINE q == [req[r] EXCEPT !.pc = "commit"]
    <3>1. q \in Request /\ KnowsItsWay(q) /\ q.locks = req[r].locks
      <4>1. q \in Request /\ q.kind = "login" /\ q.pc = "commit" /\ q.at = req[r].at
            /\ q.locks = req[r].locks
        BY <1>0, <1>4 DEF Request, OpenSession, At
      <4> QED
        BY <1>0, <4>1 DEF KnowsItsWay, LoggingIn
    <3>2. req' = [req EXCEPT ![r] = q]
      BY <1>0, <2>2 DEF Goes
    <3> HIDE DEF q
    <3> QED
      BY <1>0, <1>a, <1>4, <3>1, <3>2, QuietTyped DEF OpenSession, history
  <2> QED
    BY <1>4, <2>1, <2>2 DEF OpenSession
<1>5. ASSUME NEW r \in Requests, CommitLogin(r)
      PROVE  Typed'
  <2>1. req[r].pw \in Passwords /\ req[r].at \in Time
    BY <1>0 DEF Request
  <2>2. user' \in User /\ user'.until <= now + LockMax
    BY <1>0, <1>5, <2>1, Passwording, Numbers
       DEF CommitLogin, NotLocked, Typed, TypeOK
  <2>3. sessions' \subseteq Session
    BY <1>5, <2>1, Numbers DEF CommitLogin, Session, Time, Typed, TypeOK
  <2>4. /\ req' \in [Requests -> Request] /\ \A s \in Requests : KnowsItsWay(req[s])'
        /\ Apart'
    BY <1>0, <1>5, GoneIs, RequestStep DEF CommitLogin, KnowsItsWay
  <2> QED
    BY <1>5, <2>2, <2>3, <2>4 DEF CommitLogin, Typed, TypeOK
<1>6. ASSUME NEW r \in Requests, ChangePassword(r)
      PROVE  Typed'
  <2>1. PICK by \in Principals, next \in Passwords :
          \/ Begins(r, [NewRequest EXCEPT !.kind = "change", !.pc = "update",
                                          !.next = next, !.by = by])
          \/ Begins(r, [NewRequest EXCEPT !.pc = "done"])
    BY <1>6 DEF ChangePassword
  <2>2. by \in Requests \cup {First}
    BY DEF Principals, Live, Typed, TypeOK, Session
  <2> DEFINE q == [NewRequest EXCEPT !.kind = "change", !.pc = "update", !.next = next, !.by = by]
  <2>3. q \in Request /\ KnowsItsWay(q) /\ q.locks = {}
    <3>1. q \in Request /\ q.kind = "change" /\ q.pc = "update" /\ q.at = 0 /\ q.locks = {}
      BY <2>2, InitialRecords DEF Request
    <3> QED
      BY <1>0, <3>1 DEF KnowsItsWay, Changing
  <2>4. Gone \in Request /\ KnowsItsWay(Gone) /\ Gone.locks = {}
    BY <1>0, GoneIs DEF KnowsItsWay
  <2>5. req' = [req EXCEPT ![r] = q] \/ req' = [req EXCEPT ![r] = Gone]
    BY <2>1 DEF Begins, Gone
  <2> HIDE DEF q
  <2> QED
    BY <1>0, <1>6, <2>3, <2>4, <2>5, QuietTyped DEF ChangePassword, history
<1>7. ASSUME NEW r \in Requests, ResetPassword(r)
      PROVE  Typed'
  <2>1. PICK next \in Passwords :
          Begins(r, [NewRequest EXCEPT !.kind = "reset", !.pc = "update", !.next = next])
    BY <1>7 DEF ResetPassword
  <2> DEFINE q == [NewRequest EXCEPT !.kind = "reset", !.pc = "update", !.next = next]
  <2>2. q \in Request /\ KnowsItsWay(q) /\ q.locks = {}
    <3>1. q \in Request /\ q.kind = "reset" /\ q.pc = "update" /\ q.at = 0 /\ q.locks = {}
      BY InitialRecords DEF Request
    <3> QED
      BY <1>0, <3>1 DEF KnowsItsWay, Changing
  <2>3. req' = [req EXCEPT ![r] = q]
    BY <2>1 DEF Begins
  <2> HIDE DEF q
  <2> QED
    BY <1>0, <1>7, <2>2, <2>3, QuietTyped DEF ResetPassword, history
<1>8. ASSUME NEW r \in Requests, UpdateUserPassword(r)
      PROVE  Typed'
  <2> DEFINE q == [req[r] EXCEPT !.pc = "delete", !.locks = {Account}]
  <2>1. q \in Request /\ KnowsItsWay(q) /\ q.locks = {Account}
    <3>1. req[r].kind \in {"change", "reset"}
      BY <1>8 DEF UpdateUserPassword, At
    <3>2. /\ q \in Request /\ q.kind = req[r].kind /\ q.pc = "delete"
          /\ q.at = req[r].at /\ q.locks = {Account}
      BY <1>0, <1>b DEF Request
    <3> QED
      BY <1>0, <3>1, <3>2 DEF KnowsItsWay, Changing
  <2>2. req' = [req EXCEPT ![r] = q]
    BY <1>0, <1>8 DEF UpdateUserPassword
  <2>3. \A s \in Requests \ {r} : q.locks \cap req[s].locks = {}
    BY <1>8, <2>1 DEF UpdateUserPassword, Free
  <2> HIDE DEF q
  <2> QED
    BY <1>0, <1>8, <2>1, <2>2, <2>3, QuietTyped DEF UpdateUserPassword, history
<1>9. ASSUME NEW r \in Requests, DeleteOtherSessions(r)
      PROVE  Typed'
  <2> DEFINE q == [req[r] EXCEPT !.pc = "commit", !.doomed = Others(r)]
  <2>1. Others(r) \in SUBSET Session
    BY DEF Others, Typed, TypeOK
  <2>2. q \in Request /\ KnowsItsWay(q) /\ q.locks = req[r].locks
    <3>1. req[r].kind \in {"change", "reset"}
      BY <1>9 DEF DeleteOtherSessions, At
    <3>2. /\ q \in Request /\ q.kind = req[r].kind /\ q.pc = "commit"
          /\ q.at = req[r].at /\ q.locks = req[r].locks
      BY <1>0, <2>1 DEF Request
    <3> QED
      BY <1>0, <3>1, <3>2 DEF KnowsItsWay, Changing
  <2>3. req' = [req EXCEPT ![r] = q]
    BY <1>0, <1>9 DEF DeleteOtherSessions
  <2>4. late' \subseteq Requests \cup {First}
    BY <1>0, <1>9 DEF DeleteOtherSessions
  <2> HIDE DEF q
  <2> QED
    <3>1. UNCHANGED <<now, tables, newest, raced>> /\ since' \subseteq Requests \cup {First}
      BY <1>0, <1>9 DEF DeleteOtherSessions
    <3> QED
      BY <1>a, <2>2, <2>3, <2>4, <3>1, QuietTyped
<1>10. ASSUME NEW r \in Requests, CommitPassword(r)
      PROVE  Typed'
  <2>1. req[r].next \in Passwords /\ req[r].by \in Requests \cup {First}
    BY <1>0 DEF Request
  <2>2. user' \in User /\ user'.until <= now + LockMax
    BY <1>0, <1>10, <2>1, Passwording, Numbers DEF CommitPassword, NotLocked
  <2>3. /\ req' \in [Requests -> Request] /\ \A s \in Requests : KnowsItsWay(req[s])'
        /\ Apart'
    BY <1>0, <1>10, GoneIs, RequestStep DEF CommitPassword, KnowsItsWay
  <2> QED
    BY <1>10, <2>1, <2>2, <2>3 DEF CommitPassword, Typed, TypeOK
<1>11. ASSUME NEW r \in Requests, CreatePairingCode(r)
      PROVE  Typed'
  <2>1. PICK by \in Principals :
          Begins(r, [NewRequest EXCEPT !.kind = "pair", !.pc = "insert", !.by = by, !.at = now])
    BY <1>11 DEF CreatePairingCode
  <2>2. by \in Requests \cup {First}
    BY DEF Principals, Live, Typed, TypeOK, Session
  <2> DEFINE q == [NewRequest EXCEPT !.kind = "pair", !.pc = "insert", !.by = by, !.at = now]
  <2>3. q \in Request /\ KnowsItsWay(q) /\ q.locks = {}
    <3>1. q \in Request /\ q.kind = "pair" /\ q.pc = "insert" /\ q.at = now /\ q.locks = {}
      BY <1>0, <2>2, InitialRecords DEF Request
    <3> QED
      BY <1>0, <3>1 DEF KnowsItsWay
  <2>4. req' = [req EXCEPT ![r] = q]
    BY <2>1 DEF Begins
  <2> HIDE DEF q
  <2> QED
    BY <1>0, <1>11, <2>3, <2>4, QuietTyped DEF CreatePairingCode, history
<1>12. ASSUME NEW r \in Requests, InsertPairingCode(r)
      PROVE  Typed'
  <2>1. req[r].at \in Time
    BY <1>0 DEF Request
  <2>2. codes' \subseteq Code
    <3>1. req[r].at + CodeTTL \in 0..(MaxTime + CodeTTL)
      BY <2>1, Numbers DEF Time
    <3>2. \A c \in Codes : [code |-> c, issue |-> r, expires |-> req[r].at + CodeTTL,
                             used |-> FALSE] \in Code
      BY <3>1 DEF Code
    <3> QED
      BY <1>12, <3>2 DEF InsertPairingCode, Typed, TypeOK
  <2>3. /\ req' \in [Requests -> Request] /\ \A s \in Requests : KnowsItsWay(req[s])'
        /\ Apart'
    BY <1>0, <1>12, GoneIs, RequestStep DEF InsertPairingCode, KnowsItsWay
  <2> QED
    BY <1>12, <2>2, <2>3 DEF InsertPairingCode, history, Typed, TypeOK
<1>13. ASSUME NEW r \in Requests, RedeemPairingCode(r)
      PROVE  Typed'
  <2>1. PICK k \in codes : Begins(r, [NewRequest EXCEPT !.kind = "redeem", !.pc = "consume",
                                                        !.by = k.issue, !.at = now])
    BY <1>13 DEF RedeemPairingCode
  <2>2. k.issue \in Requests \cup {First}
    BY DEF Typed, TypeOK, Code
  <2> DEFINE q == [NewRequest EXCEPT !.kind = "redeem", !.pc = "consume",
                                     !.by = k.issue, !.at = now]
  <2>3. q \in Request /\ KnowsItsWay(q) /\ q.locks = {}
    <3>1. q \in Request /\ q.kind = "redeem" /\ q.pc = "consume" /\ q.at = now /\ q.locks = {}
      BY <1>0, <2>2, InitialRecords DEF Request
    <3> QED
      BY <1>0, <3>1 DEF KnowsItsWay, Redeeming
  <2>4. req' = [req EXCEPT ![r] = q]
    BY <2>1 DEF Begins
  <2> HIDE DEF q
  <2> QED
    BY <1>0, <1>13, <2>3, <2>4, QuietTyped DEF RedeemPairingCode, history
<1>14. ASSUME NEW r \in Requests, ConsumePairingCode(r)
      PROVE  Typed'
  <2>1. CASE req' = [req EXCEPT ![r].pc = "commit", ![r].locks = {req[r].by}]
    <3> DEFINE q == [req[r] EXCEPT !.pc = "commit", !.locks = {req[r].by}]
    <3>1. q \in Request /\ KnowsItsWay(q) /\ q.locks = {req[r].by}
      <4>1. req[r].by \in 0..Account
        BY <1>0, Numbers DEF Request, Account, Requests, First
      <4>2. req[r].kind = "redeem"
        BY <1>14 DEF ConsumePairingCode, At
      <4>3. /\ q \in Request /\ q.kind = req[r].kind /\ q.pc = "commit" /\ q.at = req[r].at
            /\ q.locks = {req[r].by}
        BY <1>0, <4>1 DEF Request
      <4> QED
        BY <1>0, <4>2, <4>3 DEF KnowsItsWay, Redeeming
    <3>2. req' = [req EXCEPT ![r] = q]
      BY <1>0, <2>1
    <3>3. \A s \in Requests \ {r} : q.locks \cap req[s].locks = {}
      BY <1>14, <3>1 DEF ConsumePairingCode, Free
    <3> QED
      BY <1>0, <1>14, <3>1, <3>2, <3>3, QuietTyped DEF ConsumePairingCode, history
  <2>2. CASE Ends(r)
    BY <1>0, <1>14, <2>2, GoneIs, QuietTyped DEF ConsumePairingCode, KnowsItsWay, history
  <2> QED
    BY <1>14, <2>1, <2>2 DEF ConsumePairingCode
<1>15. ASSUME NEW r \in Requests, CommitDevice(r)
      PROVE  Typed'
  <2>1. req[r].by \in Requests \cup {First}
    BY <1>0 DEF Request
  <2>2. codes' \subseteq Code
    <3>1. \A k \in codes : [k EXCEPT !.used = TRUE] \in Code
      BY DEF Code, Typed, TypeOK
    <3> QED
      BY <1>15, <3>1 DEF CommitDevice, Typed, TypeOK
  <2>4. devices' \subseteq Device
    <3>1. [id |-> r, issue |-> req[r].by, revoked |-> FALSE] \in Device
      BY <2>1 DEF Device
    <3> QED
      BY <1>15, <3>1 DEF CommitDevice, Typed, TypeOK
  <2>3. /\ req' \in [Requests -> Request] /\ \A s \in Requests : KnowsItsWay(req[s])'
        /\ Apart'
    BY <1>0, <1>15, GoneIs, RequestStep DEF CommitDevice, KnowsItsWay
  <2> QED
    BY <1>15, <2>2, <2>3, <2>4 DEF CommitDevice, history, Typed, TypeOK
<1>16. ASSUME NEW r \in Requests, Rollback(r)
      PROVE  Typed'
  BY <1>0, <1>16, GoneIs, QuietTyped DEF Rollback, KnowsItsWay, history
<1>17. ASSUME NEW s \in sessions, Logout(s)
      PROVE  Typed'
  BY <1>17 DEF Logout, history, Typed, TypeOK, KnowsItsWay, Apart, LoggingIn, Changing, Redeeming
<1>18. ASSUME NEW d \in devices, RevokeDevice(d)
      PROVE  Typed'
  <2>1. devices' \subseteq Device
    BY <1>18 DEF RevokeDevice, Device, Typed, TypeOK
  <2> QED
    BY <1>18, <2>1 DEF RevokeDevice, history, Typed, TypeOK, KnowsItsWay, Apart, LoggingIn,
       Changing, Redeeming
<1>19. CASE SweepSessions \/ SweepCodes
  BY <1>19 DEF SweepSessions, SweepCodes, Live, history, Typed, TypeOK, KnowsItsWay, Apart,
     LoggingIn, Changing, Redeeming
<1>20. CASE Tick
  <2>1. now' \in Time /\ now <= now' /\ user'.until <= now' + LockMax
    BY <1>0, <1>20, Numbers DEF Tick, Time, tables, Typed, TypeOK, User
  <2>2. \A r \in Requests : req[r].at <= now'
    BY <1>0, <2>1 DEF KnowsItsWay, Request, Time
  <2> QED
    BY <1>20, <2>1, <2>2 DEF Tick, tables, history, Typed, TypeOK, KnowsItsWay, Apart, LoggingIn,
       Changing, Redeeming
<1>21. CASE UNCHANGED vars
  BY <1>21 DEF vars, tables, history, Typed, TypeOK, KnowsItsWay, Apart, LoggingIn, Changing,
     Redeeming
<1> QED
  BY <1>1, <1>2, <1>3, <1>4, <1>5, <1>6, <1>7, <1>8, <1>9, <1>10, <1>11, <1>12, <1>13, <1>14,
     <1>15, <1>16, <1>17, <1>18, <1>19, <1>20, <1>21 DEF Next, Arrives, Proceeds

-----------------------------------------------------------------------------
\* What the step of r leaves of the others.
LEMMA OthersStay ==
  ASSUME Typed, NEW r \in Requests, NEW q, req' = [req EXCEPT ![r] = q]
  PROVE  req'[r] = q /\ \A s \in Requests \ {r} : req'[s] = req[s]
BY DEF Typed, TypeOK

LEMMA FailuresStep == Typed /\ FailuresLock /\ [Next]_vars => FailuresLock'
<1> SUFFICES ASSUME Typed, FailuresLock, [Next]_vars PROVE FailuresLock'
  OBVIOUS
<1>0. user \in User /\ \A r \in Requests : req[r] \in Request
  BY DEF Typed, TypeOK
<1>1. ASSUME NEW r \in Requests, RecordFailedLogin(r), req[r].seen.failed = user.failed
      PROVE  FailuresLock'
  <2>1. user.failed + 1 \in Nat /\ req[r].at \in Nat
    BY <1>0 DEF User, Request, Time
  <2>2. /\ user'.failed = user.failed + 1
        /\ user'.until = LockedUntil(user.failed + 1, req[r].at)
    BY <1>0, <1>1 DEF RecordFailedLogin, User
  <2> QED
    BY <2>1, <2>2, LockedUntilIs DEF FailuresLock
<1>2. ASSUME NEW r \in Requests, RecordFailedLogin(r), req[r].seen.failed # user.failed
      PROVE  FailuresLock'
  BY <1>2 DEF RecordFailedLogin, FailuresLock
<1>3. ASSUME NEW r \in Requests, CommitLogin(r)
      PROVE  FailuresLock'
  <2>1. \/ user'.failed = 0 /\ user'.until = NotLocked
        \/ user' = user /\ raced' = raced
    BY <1>0, <1>3, Passwording DEF CommitLogin, Request, Typed, TypeOK
  <2> QED
    BY <2>1, Numbers DEF FailuresLock
<1>4. ASSUME NEW r \in Requests, CommitPassword(r)
      PROVE  FailuresLock'
  <2>1. user'.failed = 0 /\ user'.until = NotLocked
    BY <1>0, <1>4, Passwording DEF CommitPassword, Request
  <2> QED
    BY <2>1, Numbers DEF FailuresLock
<1>5. CASE UNCHANGED <<user, raced>>
  BY <1>5 DEF FailuresLock
<1> QED
  BY <1>1, <1>2, <1>3, <1>4, <1>5 DEF Next, Arrives, Proceeds, Login, Verify, OpenSession,
     ChangePassword, ResetPassword, UpdateUserPassword, DeleteOtherSessions, CreatePairingCode,
     InsertPairingCode, RedeemPairingCode, ConsumePairingCode, CommitDevice, Rollback, Logout,
     RevokeDevice, SweepSessions, SweepCodes, Tick, tables, history, vars

-----------------------------------------------------------------------------
\* A request goes from x to y without reading the account, opening a session or
\* listing sessions.
GoesOn(x, y) ==
  /\ LoggingIn(y) => /\ LoggingIn(x) /\ y.seen = x.seen
                     /\ y.pc \in {"open", "commit"} => y.pw = y.seen.pw
  /\ Changing(y, {"commit"}) => /\ Changing(x, {"commit"})
                                /\ y.doomed = x.doomed /\ y.kind = x.kind /\ y.by = x.by

LEMMA SessionsQuiet ==
  ASSUME SessionsInv, UNCHANGED <<since, late, newest>>, user'.pw = user.pw,
         sessions' \subseteq sessions, \A r \in Requests : GoesOn(req[r], req'[r])
  PROVE  SessionsInv'
<1>1. \A r \in Requests :
        /\ LoggingIn(req'[r]) <=> LoggingIn(req[r])'
        /\ Changing(req'[r], {"commit"}) <=> Changing(req[r], {"commit"})'
  BY DEF LoggingIn, Changing
<1>2. ReadsNewest'
  BY <1>1 DEF SessionsInv, ReadsNewest, GoesOn, At, LoggingIn
<1>3. LoginsAreKnown'
  BY <1>1 DEF SessionsInv, LoginsAreKnown, GoesOn
<1>4. ListedSessionsGo'
  BY <1>1 DEF SessionsInv, ListedSessionsGo, GoesOn
<1> QED
  BY <1>2, <1>3, <1>4 DEF SessionsInv

\* Whoever stays where he is, or ends, goes on in this sense.
LEMMA GoingOn ==
  ASSUME SessionsInv, Typed, NEW r \in Requests, NEW q, req' = [req EXCEPT ![r] = q],
         GoesOn(req[r], q)
  PROVE  \A s \in Requests : GoesOn(req[s], req'[s])
<1>1. req'[r] = q /\ \A s \in Requests \ {r} : req'[s] = req[s]
  BY OthersStay
<1>2. \A s \in Requests : GoesOn(req[s], req[s])
  BY DEF GoesOn, SessionsInv, ReadsNewest, At, LoggingIn
<1> QED
  BY <1>1, <1>2

LEMMA SessionsStep == Typed /\ SessionsInv /\ [Next]_vars => SessionsInv'
<1> SUFFICES ASSUME Typed, SessionsInv, [Next]_vars PROVE SessionsInv'
  OBVIOUS
<1>0. /\ user \in User /\ req \in [Requests -> Request]
      /\ \A r \in Requests : KnowsItsWay(req[r]) /\ req[r] \in Request
  BY DEF Typed, TypeOK
<1>e. ASSUME NEW r \in Requests, Ends(r)
      PROVE  \A s \in Requests : GoesOn(req[s], req'[s])
  <2>1. GoesOn(req[r], Gone)
    BY GoneIs DEF GoesOn, LoggingIn, Changing
  <2> QED
    BY <1>e, <2>1, GoneIs, GoingOn
<1>b. ASSUME NEW r \in Requests, NEW q, Begins(r, q), ~ LoggingIn(q), ~ Changing(q, {"commit"}),
             UNCHANGED <<now, tables, history>>
      PROVE  SessionsInv'
  <2>1. GoesOn(req[r], q) /\ req' = [req EXCEPT ![r] = q]
    BY <1>b DEF GoesOn, Begins
  <2> QED
    BY <1>b, <2>1, GoingOn, SessionsQuiet DEF tables, history
<1>1. ASSUME NEW r \in Requests, Login(r)
      PROVE  SessionsInv'
  <2>1. PICK p \in Passwords :
          Begins(r, [NewRequest EXCEPT !.kind = "login", !.pc = "verify", !.pw = p, !.seen = user])
    BY <1>1 DEF Login
  <2> DEFINE q == [NewRequest EXCEPT !.kind = "login", !.pc = "verify", !.pw = p, !.seen = user]
  <2>2. q.kind = "login" /\ q.pc = "verify" /\ q.seen = user
    BY InitialRecords DEF Request
  <2>3. req' = [req EXCEPT ![r] = q]
    BY <2>1 DEF Begins
  <2> HIDE DEF q
  <2>4. req'[r] = q /\ \A s \in Requests \ {r} : req'[s] = req[s]
    BY <2>3, OthersStay
  <2>5. /\ user' = user /\ sessions' = sessions /\ newest' = newest /\ since' = since \cup {r}
        /\ late \subseteq late' /\ late' \subseteq late \cup {r}
        /\ \A c \in Requests : Changing(req[c], {"commit"}) => r \in late'
    BY <1>1 DEF Login, tables, Changing, At
  <2>6. ReadsNewest'
    BY <2>2, <2>4, <2>5 DEF SessionsInv, ReadsNewest, LoggingIn, At
  <2>7. LoginsAreKnown'
    BY <2>4, <2>5 DEF SessionsInv, LoginsAreKnown, LoggingIn
  <2>8. ListedSessionsGo'
    BY <2>2, <2>4, <2>5 DEF SessionsInv, ListedSessionsGo, LoggingIn, Changing
  <2> QED
    BY <2>6, <2>7, <2>8 DEF SessionsInv
<1>2. ASSUME NEW r \in Requests, Verify(r)
      PROVE  SessionsInv'
  <2>1. UNCHANGED <<now, tables, history>>
    BY <1>2 DEF Verify
  <2>2. CASE IsLocked(req[r].seen)
    BY <1>e, <1>2, <2>1, <2>2, SessionsQuiet DEF Verify, tables, history
  <2>3. CASE ~ IsLocked(req[r].seen)
    <3> DEFINE q == [req[r] EXCEPT
                       !.pc = IF req[r].pw = req[r].seen.pw THEN "open" ELSE "record", !.at = now]
    <3>1. req' = [req EXCEPT ![r] = q]
      BY <1>0, <1>2, <2>3 DEF Verify
    <3>2. req[r].kind = "login" /\ req[r].pc = "verify"
      BY <1>2 DEF Verify, At
    <3>3. /\ q.kind = req[r].kind /\ q.seen = req[r].seen /\ q.pw = req[r].pw
          /\ q.pc = IF req[r].pw = req[r].seen.pw THEN "open" ELSE "record"
      BY <1>0 DEF Request
    <3>4. GoesOn(req[r], q)
      BY <3>2, <3>3 DEF GoesOn, LoggingIn, Changing
    <3> HIDE DEF q
    <3> QED
      BY <2>1, <3>1, <3>4, GoingOn, SessionsQuiet DEF tables, history
  <2> QED
    BY <2>2, <2>3
<1>3. ASSUME NEW r \in Requests, RecordFailedLogin(r)
      PROVE  SessionsInv'
  <2>1. user'.pw = user.pw
    BY <1>0, <1>3 DEF RecordFailedLogin, User
  <2> QED
    BY <1>e, <1>3, <2>1, SessionsQuiet DEF RecordFailedLogin
<1>4. ASSUME NEW r \in Requests, OpenSession(r)
      PROVE  SessionsInv'
  <2>1. PICK q : /\ req' = [req EXCEPT ![r] = q]
                 /\ q.kind = req[r].kind /\ q.pc = "commit"
                 /\ q.seen = req[r].seen /\ q.pw = req[r].pw
    <3>1. CASE req' = [req EXCEPT ![r].pc = "commit", ![r].locks = {Account}]
      <4> DEFINE q == [req[r] EXCEPT !.pc = "commit", !.locks = {Account}]
      <4>1. req' = [req EXCEPT ![r] = q]
        BY <1>0, <3>1
      <4>2. q.kind = req[r].kind /\ q.pc = "commit" /\ q.seen = req[r].seen /\ q.pw = req[r].pw
        BY <1>0 DEF Request
      <4> QED
        BY <4>1, <4>2
    <3>2. CASE Goes(r, "commit")
      <4> DEFINE q == [req[r] EXCEPT !.pc = "commit"]
      <4>1. req' = [req EXCEPT ![r] = q]
        BY <1>0, <3>2 DEF Goes
      <4>2. q.kind = req[r].kind /\ q.pc = "commit" /\ q.seen = req[r].seen /\ q.pw = req[r].pw
        BY <1>0 DEF Request
      <4> QED
        BY <4>1, <4>2
    <3> QED
      BY <1>4, <3>1, <3>2 DEF OpenSession
  <2>2. req[r].kind = "login" /\ req[r].pc = "open" /\ req[r].pw = req[r].seen.pw
    BY <1>4 DEF OpenSession, At, SessionsInv, ReadsNewest
  <2>3. GoesOn(req[r], q)
    BY <2>1, <2>2 DEF GoesOn, LoggingIn, Changing
  <2> QED
    BY <1>4, <2>1, <2>3, GoingOn, SessionsQuiet DEF OpenSession, tables, history
<1>5. ASSUME NEW r \in Requests, CommitLogin(r)
      PROVE  SessionsInv'
  <2>1. /\ req[r].kind = "login" /\ req[r].pc = "commit" /\ req[r].pw = req[r].seen.pw
        /\ req[r].pw \in Passwords
    BY <1>0, <1>5 DEF CommitLogin, At, SessionsInv, ReadsNewest, Request
  <2>2. late = {} => user'.pw = newest
    <3>1. user'.pw \in {user.pw, req[r].pw}
      BY <1>0, <1>5, <2>1, Passwording DEF CommitLogin
    <3> QED
      BY <2>1, <3>1 DEF SessionsInv, ReadsNewest, LoggingIn
  <2>3. /\ req'[r] = Gone /\ \A s \in Requests \ {r} : req'[s] = req[s]
    BY <1>5, GoneIs, OthersStay DEF CommitLogin
  <2>4. /\ UNCHANGED <<since, late, newest>>
        /\ \A s \in sessions' : s \in sessions \/ s.id = r
    BY <1>5 DEF CommitLogin
  <2>5. ReadsNewest'
    BY <2>2, <2>3, <2>4, GoneIs DEF SessionsInv, ReadsNewest, LoggingIn, At
  <2>6. LoginsAreKnown'
    BY <2>1, <2>3, <2>4, GoneIs DEF SessionsInv, LoginsAreKnown, LoggingIn
  <2>7. ListedSessionsGo'
    BY <2>1, <2>3, <2>4, GoneIs DEF SessionsInv, ListedSessionsGo, LoggingIn, Changing
  <2> QED
    BY <2>5, <2>6, <2>7 DEF SessionsInv
<1>6. ASSUME NEW r \in Requests, ChangePassword(r)
      PROVE  SessionsInv'
  <2>1. PICK by \in Principals, next \in Passwords :
          \/ Begins(r, [NewRequest EXCEPT !.kind = "change", !.pc = "update",
                                          !.next = next, !.by = by])
          \/ Begins(r, [NewRequest EXCEPT !.pc = "done"])
    BY <1>6 DEF ChangePassword
  <2> DEFINE q == [NewRequest EXCEPT !.kind = "change", !.pc = "update", !.next = next, !.by = by]
  <2>2. q.kind = "change" /\ q.pc = "update"
    BY InitialRecords DEF Request
  <2>3. Begins(r, q) \/ Begins(r, Gone)
    BY <2>1 DEF Gone
  <2> HIDE DEF q
  <2> QED
    BY <1>b, <1>6, <2>2, <2>3, GoneIs DEF ChangePassword, LoggingIn, Changing
<1>7. ASSUME NEW r \in Requests, ResetPassword(r)
      PROVE  SessionsInv'
  <2>1. PICK next \in Passwords :
          Begins(r, [NewRequest EXCEPT !.kind = "reset", !.pc = "update", !.next = next])
    BY <1>7 DEF ResetPassword
  <2> DEFINE q == [NewRequest EXCEPT !.kind = "reset", !.pc = "update", !.next = next]
  <2>2. q.kind = "reset" /\ q.pc = "update"
    BY InitialRecords DEF Request
  <2>3. Begins(r, q)
    BY <2>1
  <2> HIDE DEF q
  <2> QED
    BY <1>b, <1>7, <2>2, <2>3 DEF ResetPassword, LoggingIn, Changing
<1>8. ASSUME NEW r \in Requests, UpdateUserPassword(r)
      PROVE  SessionsInv'
  <2> DEFINE q == [req[r] EXCEPT !.pc = "delete", !.locks = {Account}]
  <2>1. q.kind = req[r].kind /\ q.pc = "delete"
    BY <1>0 DEF Request
  <2>2. req' = [req EXCEPT ![r] = q]
    BY <1>0, <1>8 DEF UpdateUserPassword
  <2>3. GoesOn(req[r], q)
    BY <2>1 DEF GoesOn, LoggingIn, Changing
  <2> HIDE DEF q
  <2> QED
    BY <1>8, <2>2, <2>3, GoingOn, SessionsQuiet DEF UpdateUserPassword, tables, history
<1>9. ASSUME NEW r \in Requests, DeleteOtherSessions(r)
      PROVE  SessionsInv'
  <2> DEFINE q == [req[r] EXCEPT !.pc = "commit", !.doomed = Others(r)]
  <2>1. /\ q.kind = req[r].kind /\ q.pc = "commit" /\ q.doomed = Others(r) /\ q.by = req[r].by
        /\ req[r].kind \in {"change", "reset"}
    BY <1>0, <1>9 DEF Request, DeleteOtherSessions, At
  <2>2. req' = [req EXCEPT ![r] = q]
    BY <1>0, <1>9 DEF DeleteOtherSessions
  <2> HIDE DEF q
  <2>3. req'[r] = q /\ \A s \in Requests \ {r} : req'[s] = req[s]
    BY <2>2, OthersStay
  <2>4. /\ user' = user /\ sessions' = sessions /\ newest' = newest /\ since' = since
        /\ late \subseteq late' /\ \A l \in Requests : LoggingIn(req[l]) => l \in late'
    BY <1>9 DEF DeleteOtherSessions, tables, LoggingIn, Open
  <2>5. ~ LoggingIn(q)
    BY <2>1 DEF LoggingIn
  <2>6. ReadsNewest'
    BY <2>3, <2>4, <2>5 DEF SessionsInv, ReadsNewest, LoggingIn, At
  <2>7. LoginsAreKnown'
    BY <2>3, <2>4, <2>5 DEF SessionsInv, LoginsAreKnown, LoggingIn
  <2>8. ListedSessionsGo'
    <3>1. \A l \in Requests : LoggingIn(req'[l]) => l \in late'
      BY <2>3, <2>4, <2>5
    <3>2. \A s \in sessions : \/ s \in q.doomed
                              \/ q.kind = "change" /\ s.id = q.by
      BY <2>1 DEF Others
    <3> QED
      BY <2>3, <2>4, <3>1, <3>2 DEF SessionsInv, ListedSessionsGo, LoggingIn, Changing
  <2> QED
    BY <2>6, <2>7, <2>8 DEF SessionsInv
<1>10. ASSUME NEW r \in Requests, CommitPassword(r)
      PROVE  SessionsInv'
  <2>1. /\ req[r].kind \in {"change", "reset"} /\ req[r].pc = "commit" /\ req[r].next \in Passwords
    BY <1>0, <1>10 DEF CommitPassword, At, Request
  <2>2. /\ \A l \in Requests : LoggingIn(req[l]) => l \in late
        /\ \A s \in sessions : \/ s \in req[r].doomed \/ s.id \in late
                               \/ req[r].kind = "change" /\ s.id = req[r].by
    BY <2>1 DEF SessionsInv, ListedSessionsGo, Changing
  <2>3. /\ req'[r] = Gone /\ \A s \in Requests \ {r} : req'[s] = req[s]
    BY <1>10, GoneIs, OthersStay DEF CommitPassword
  <2>4. /\ user'.pw = newest' /\ late' = late /\ sessions' = sessions \ req[r].doomed
        /\ since' = IF req[r].kind = "change" THEN {req[r].by} ELSE {}
    BY <1>0, <1>10, <2>1, Passwording DEF CommitPassword
  <2>5. ReadsNewest'
    BY <2>2, <2>3, <2>4, GoneIs DEF SessionsInv, ReadsNewest, LoggingIn, At
  <2>6. LoginsAreKnown'
    BY <2>2, <2>3, <2>4, GoneIs DEF LoginsAreKnown, LoggingIn
  <2>7. ListedSessionsGo'
    BY <2>2, <2>3, <2>4, GoneIs DEF SessionsInv, ListedSessionsGo, LoggingIn, Changing
  <2> QED
    BY <2>5, <2>6, <2>7 DEF SessionsInv
<1>11. ASSUME NEW r \in Requests, CreatePairingCode(r)
      PROVE  SessionsInv'
  <2>1. PICK by \in Principals :
          Begins(r, [NewRequest EXCEPT !.kind = "pair", !.pc = "insert", !.by = by, !.at = now])
    BY <1>11 DEF CreatePairingCode
  <2> DEFINE q == [NewRequest EXCEPT !.kind = "pair", !.pc = "insert", !.by = by, !.at = now]
  <2>2. q.kind = "pair" /\ Begins(r, q)
    BY <2>1, InitialRecords DEF Request
  <2> HIDE DEF q
  <2> QED
    BY <1>b, <1>11, <2>2 DEF CreatePairingCode, LoggingIn, Changing
<1>12. ASSUME NEW r \in Requests, InsertPairingCode(r) \/ CommitDevice(r) \/ Rollback(r)
      PROVE  SessionsInv'
  BY <1>e, <1>12, SessionsQuiet DEF InsertPairingCode, CommitDevice, Rollback, tables, history
<1>13. ASSUME NEW r \in Requests, RedeemPairingCode(r)
      PROVE  SessionsInv'
  <2>1. PICK k \in codes : Begins(r, [NewRequest EXCEPT !.kind = "redeem", !.pc = "consume",
                                                        !.by = k.issue, !.at = now])
    BY <1>13 DEF RedeemPairingCode
  <2> DEFINE q == [NewRequest EXCEPT !.kind = "redeem", !.pc = "consume",
                                     !.by = k.issue, !.at = now]
  <2>2. q.kind = "redeem" /\ Begins(r, q)
    BY <2>1, InitialRecords DEF Request
  <2> HIDE DEF q
  <2> QED
    BY <1>b, <1>13, <2>2 DEF RedeemPairingCode, LoggingIn, Changing
<1>14. ASSUME NEW r \in Requests, ConsumePairingCode(r)
      PROVE  SessionsInv'
  <2>1. CASE req' = [req EXCEPT ![r].pc = "commit", ![r].locks = {req[r].by}]
    <3> DEFINE q == [req[r] EXCEPT !.pc = "commit", !.locks = {req[r].by}]
    <3>1. q.kind = req[r].kind /\ req[r].kind = "redeem"
      BY <1>0, <1>14 DEF Request, ConsumePairingCode, At
    <3>2. req' = [req EXCEPT ![r] = q]
      BY <1>0, <2>1
    <3>3. GoesOn(req[r], q)
      BY <3>1 DEF GoesOn, LoggingIn, Changing
    <3> HIDE DEF q
    <3> QED
      BY <1>14, <3>2, <3>3, GoingOn, SessionsQuiet DEF ConsumePairingCode, tables, history
  <2>2. CASE Ends(r)
    BY <1>e, <1>14, <2>2, SessionsQuiet DEF ConsumePairingCode, tables, history
  <2> QED
    BY <1>14, <2>1, <2>2 DEF ConsumePairingCode
<1>15. CASE \/ \E s \in sessions : Logout(s)
            \/ \E d \in devices : RevokeDevice(d)
            \/ SweepSessions \/ SweepCodes \/ Tick \/ UNCHANGED vars
  <2>1. \A s \in Requests : GoesOn(req[s], req[s])
    BY DEF GoesOn, SessionsInv, ReadsNewest, At, LoggingIn
  <2>2. /\ req' = req /\ user' = user /\ UNCHANGED <<since, late, newest>>
        /\ sessions' \subseteq sessions
    BY <1>15 DEF Logout, RevokeDevice, SweepSessions, Live, SweepCodes, Tick, vars, tables, history
  <2> QED
    BY <2>1, <2>2, SessionsQuiet
<1> QED
  BY <1>1, <1>2, <1>3, <1>4, <1>5, <1>6, <1>7, <1>8, <1>9, <1>10, <1>11, <1>12, <1>13, <1>14,
     <1>15 DEF Next, Arrives, Proceeds

-----------------------------------------------------------------------------
LEMMA CodesQuiet ==
  ASSUME Typed, [Next]_vars, CodesInv, codes' \subseteq codes, devices' = devices,
         NEW r \in Requests, req[r].pc # "done",
         NEW q, req' = [req EXCEPT ![r] = q], Claims(q)
  PROVE  CodesInv'
<1>1. req'[r] = q /\ \A s \in Requests \ {r} : req'[s] = req[s]
  BY OthersStay
<1>2. ASSUME NEW i \in Requests \cup {First}, Done(i)
      PROVE  Done(i)'
  BY <1>1, <1>2 DEF Done
<1>3. CodesAndTokens'
  BY <1>2 DEF CodesInv, CodesAndTokens, Typed, TypeOK, Code, Device, OneDevicePerCode
<1>4. ASSUME NEW s \in Requests
      PROVE  Claims(req[s])'
  <2>1. Claims(req'[s])
    BY <1>1 DEF CodesInv
  <2>2. req'[s].by \in Requests \cup {First}
    BY TypedStep DEF Typed, TypeOK, Request
  <2> QED
    BY <1>2, <2>1, <2>2 DEF Claims, Done
<1> QED
  BY <1>3, <1>4 DEF CodesInv

LEMMA CodesStep == Typed /\ CodesInv /\ [Next]_vars => CodesInv'
<1> SUFFICES ASSUME Typed, CodesInv, [Next]_vars PROVE CodesInv'
  OBVIOUS
<1>0. /\ req \in [Requests -> Request] /\ \A r \in Requests : req[r] \in Request
      /\ \A r \in Requests : Claims(req[r])
  BY DEF Typed, TypeOK, CodesInv
<1>e. ASSUME NEW r \in Requests, Ends(r), req[r].pc # "done", codes' \subseteq codes,
             devices' = devices
      PROVE  CodesInv'
  <2>1. Claims(Gone)
    BY GoneIs DEF Claims
  <2> QED
    BY <1>e, <2>1, GoneIs, CodesQuiet
<1>b. ASSUME NEW r \in Requests, NEW q, Begins(r, q), q.kind # "redeem",
             UNCHANGED <<codes, devices>>
      PROVE  CodesInv'
  <2>1. Claims(q) /\ req' = [req EXCEPT ![r] = q] /\ req[r].pc # "done"
    BY <1>b DEF Claims, Begins
  <2> QED
    BY <1>b, <2>1, CodesQuiet
<1>s. ASSUME NEW r \in Requests, NEW q, req' = [req EXCEPT ![r] = q], q.kind # "redeem",
             req[r].pc # "done", UNCHANGED <<codes, devices>>
      PROVE  CodesInv'
  BY <1>s, CodesQuiet DEF Claims
<1>1. ASSUME NEW r \in Requests, Login(r)
      PROVE  CodesInv'
  <2>1. PICK p \in Passwords :
          Begins(r, [NewRequest EXCEPT !.kind = "login", !.pc = "verify", !.pw = p, !.seen = user])
    BY <1>1 DEF Login
  <2> DEFINE q == [NewRequest EXCEPT !.kind = "login", !.pc = "verify", !.pw = p, !.seen = user]
  <2>2. q.kind = "login" /\ Begins(r, q)
    BY <2>1, InitialRecords DEF Request
  <2> HIDE DEF q
  <2> QED
    BY <1>b, <1>1, <2>2 DEF Login, tables
<1>2. ASSUME NEW r \in Requests,
             \/ Verify(r) \/ OpenSession(r) \/ UpdateUserPassword(r) \/ DeleteOtherSessions(r)
      PROVE  CodesInv'
  <2>1. /\ req[r].kind \in {"login", "change", "reset"} /\ req[r].pc # "done"
        /\ UNCHANGED <<codes, devices>>
    BY <1>2 DEF Verify, OpenSession, UpdateUserPassword, DeleteOtherSessions, At, tables
  <2>2. CASE Ends(r)
    BY <1>e, <2>1, <2>2
  <2>3. ASSUME NEW to, req' = [req EXCEPT ![r].pc = to, ![r].at = now]
        PROVE  CodesInv'
    <3> DEFINE q == [req[r] EXCEPT !.pc = to, !.at = now]
    <3>1. req' = [req EXCEPT ![r] = q] /\ q.kind = req[r].kind
      BY <1>0, <2>3 DEF Request
    <3> HIDE DEF q
    <3> QED
      BY <1>s, <2>1, <3>1
  <2>4. ASSUME NEW to, req' = [req EXCEPT ![r].pc = to, ![r].locks = {Account}]
        PROVE  CodesInv'
    <3> DEFINE q == [req[r] EXCEPT !.pc = to, !.locks = {Account}]
    <3>1. req' = [req EXCEPT ![r] = q] /\ q.kind = req[r].kind
      BY <1>0, <2>4 DEF Request
    <3> HIDE DEF q
    <3> QED
      BY <1>s, <2>1, <3>1
  <2>5. CASE Goes(r, "commit")
    <3> DEFINE q == [req[r] EXCEPT !.pc = "commit"]
    <3>1. req' = [req EXCEPT ![r] = q] /\ q.kind = req[r].kind
      BY <1>0, <2>5 DEF Request, Goes
    <3> HIDE DEF q
    <3> QED
      BY <1>s, <2>1, <3>1
  <2>6. CASE req' = [req EXCEPT ![r].pc = "commit", ![r].doomed = Others(r)]
    <3> DEFINE q == [req[r] EXCEPT !.pc = "commit", !.doomed = Others(r)]
    <3>1. req' = [req EXCEPT ![r] = q] /\ q.kind = req[r].kind
      BY <1>0, <2>6 DEF Request
    <3> HIDE DEF q
    <3> QED
      BY <1>s, <2>1, <3>1
  <2> QED
    BY <1>2, <2>2, <2>3, <2>4, <2>5, <2>6
       DEF Verify, OpenSession, UpdateUserPassword, DeleteOtherSessions
<1>3. ASSUME NEW r \in Requests,
             RecordFailedLogin(r) \/ CommitLogin(r) \/ CommitPassword(r) \/ Rollback(r)
      PROVE  CodesInv'
  BY <1>e, <1>3 DEF RecordFailedLogin, CommitLogin, CommitPassword, Rollback, At, Open, tables
<1>4. ASSUME NEW r \in Requests, ChangePassword(r)
      PROVE  CodesInv'
  <2>1. PICK by \in Principals, next \in Passwords :
          \/ Begins(r, [NewRequest EXCEPT !.kind = "change", !.pc = "update",
                                          !.next = next, !.by = by])
          \/ Begins(r, [NewRequest EXCEPT !.pc = "done"])
    BY <1>4 DEF ChangePassword
  <2> DEFINE q == [NewRequest EXCEPT !.kind = "change", !.pc = "update", !.next = next, !.by = by]
  <2>2. q.kind = "change" /\ (Begins(r, q) \/ Begins(r, Gone))
    BY <2>1, InitialRecords DEF Request, Gone
  <2> HIDE DEF q
  <2> QED
    BY <1>b, <1>4, <2>2, GoneIs DEF ChangePassword, tables
<1>5. ASSUME NEW r \in Requests, ResetPassword(r)
      PROVE  CodesInv'
  <2>1. PICK next \in Passwords :
          Begins(r, [NewRequest EXCEPT !.kind = "reset", !.pc = "update", !.next = next])
    BY <1>5 DEF ResetPassword
  <2> DEFINE q == [NewRequest EXCEPT !.kind = "reset", !.pc = "update", !.next = next]
  <2>2. q.kind = "reset" /\ Begins(r, q)
    BY <2>1, InitialRecords DEF Request
  <2> HIDE DEF q
  <2> QED
    BY <1>b, <1>5, <2>2 DEF ResetPassword, tables
<1>6. ASSUME NEW r \in Requests, CreatePairingCode(r)
      PROVE  CodesInv'
  <2>1. PICK by \in Principals :
          Begins(r, [NewRequest EXCEPT !.kind = "pair", !.pc = "insert", !.by = by, !.at = now])
    BY <1>6 DEF CreatePairingCode
  <2> DEFINE q == [NewRequest EXCEPT !.kind = "pair", !.pc = "insert", !.by = by, !.at = now]
  <2>2. q.kind = "pair" /\ Begins(r, q)
    BY <2>1, InitialRecords DEF Request
  <2> HIDE DEF q
  <2> QED
    BY <1>b, <1>6, <2>2 DEF CreatePairingCode, tables
<1>7. ASSUME NEW r \in Requests, InsertPairingCode(r)
      PROVE  CodesInv'
  <2>1. /\ req'[r] = Gone /\ \A s \in Requests \ {r} : req'[s] = req[s]
    BY <1>7, GoneIs, OthersStay DEF InsertPairingCode
  <2>2. /\ devices' = devices /\ req[r].pc # "done" /\ r # First
        /\ \A k \in codes' : k \in codes \/ k.issue = r
    BY <1>7 DEF InsertPairingCode, At, Requests, First
  <2>3. ASSUME NEW i \in Requests \cup {First}, Done(i)
        PROVE  Done(i)' /\ i # r
    BY <2>1, <2>2, <2>3, GoneIs DEF Done
  <2>4. Done(r)'
    BY <2>1, GoneIs DEF Done
  <2>5. CodesAndTokens'
    BY <2>2, <2>3, <2>4 DEF CodesInv, CodesAndTokens, Typed, TypeOK, Code, Device, OneDevicePerCode
  <2>6. ASSUME NEW s \in Requests
        PROVE  Claims(req[s])'
    <3>1. CASE s = r
      BY <2>1, <3>1, GoneIs DEF Claims
    <3>2. CASE s # r
      <4>1. req[s].by \in Requests \cup {First}
        BY <1>0 DEF Request
      <4>2. req'[s] = req[s] /\ Claims(req[s])
        BY <1>0, <2>1, <3>2
      <4> QED
        BY <2>2, <2>3, <4>1, <4>2 DEF Claims, Done
    <3> QED
      BY <3>1, <3>2
  <2> QED
    BY <2>5, <2>6 DEF CodesInv
<1>8. ASSUME NEW r \in Requests, RedeemPairingCode(r)
      PROVE  CodesInv'
  <2>1. PICK k \in codes : Begins(r, [NewRequest EXCEPT !.kind = "redeem", !.pc = "consume",
                                                        !.by = k.issue, !.at = now])
    BY <1>8 DEF RedeemPairingCode
  <2> DEFINE q == [NewRequest EXCEPT !.kind = "redeem", !.pc = "consume",
                                     !.by = k.issue, !.at = now]
  <2>2. q.by = k.issue /\ q.pc = "consume" /\ Begins(r, q)
    BY <2>1, InitialRecords DEF Request
  <2> HIDE DEF q
  <2>3. Claims(q) /\ req' = [req EXCEPT ![r] = q] /\ req[r].pc # "done"
    BY <2>2 DEF Claims, Begins, CodesInv, CodesAndTokens
  <2> QED
    BY <1>8, <2>3, CodesQuiet DEF RedeemPairingCode, tables
<1>9. ASSUME NEW r \in Requests, ConsumePairingCode(r)
      PROVE  CodesInv'
  <2>1. req[r].kind = "redeem" /\ req[r].pc # "done" /\ UNCHANGED <<codes, devices>>
    BY <1>9 DEF ConsumePairingCode, At, tables
  <2>2. ASSUME NEW k \in codes, Redeemable(r, k),
               req' = [req EXCEPT ![r].pc = "commit", ![r].locks = {req[r].by}]
        PROVE  CodesInv'
    <3> DEFINE q == [req[r] EXCEPT !.pc = "commit", !.locks = {req[r].by}]
    <3>1. req' = [req EXCEPT ![r] = q] /\ q.by = req[r].by /\ q.locks = {req[r].by}
      BY <1>0, <2>2 DEF Request
    <3>2. \A d \in devices : d.issue # req[r].by
      BY <2>2 DEF Redeemable, CodesInv, CodesAndTokens
    <3> HIDE DEF q
    <3>3. Claims(q)
      BY <1>0, <2>1, <3>1, <3>2 DEF Claims
    <3> QED
      BY <2>1, <3>1, <3>3, CodesQuiet
  <2>3. CASE Ends(r)
    BY <1>e, <2>1, <2>3
  <2> QED
    BY <1>9, <2>2, <2>3 DEF ConsumePairingCode
<1>10. ASSUME NEW r \in Requests, CommitDevice(r)
      PROVE  CodesInv'
  <2> DEFINE i == req[r].by
  <2>1. /\ req'[r] = Gone /\ \A s \in Requests \ {r} : req'[s] = req[s]
    BY <1>10, GoneIs, OthersStay DEF CommitDevice
  <2>2. /\ i \in req[r].locks /\ Done(i) /\ \A d \in devices : d.issue # i
        /\ req[r].pc # "done"
    BY <1>0, <1>10 DEF CommitDevice, At, Claims
  <2>3. \A d \in devices' : d \in devices \/ d = [id |-> r, issue |-> i, revoked |-> FALSE]
    BY <1>10 DEF CommitDevice
  <2>4. \A k \in codes' : \E c \in codes : /\ k.issue = c.issue
                                           /\ IF c.issue = i THEN k.used ELSE k = c
    <3>1. \A c \in codes : LET k == [c EXCEPT !.used = TRUE] IN k.issue = c.issue /\ k.used
      BY DEF Typed, TypeOK, Code
    <3> QED
      BY <1>10, <3>1 DEF CommitDevice
  <2>5. ASSUME NEW j \in Requests \cup {First}, Done(j)
        PROVE  Done(j)'
    BY <2>1, <2>2, <2>5, GoneIs DEF Done
  <2>6. i \in Requests \cup {First}
    BY <1>0 DEF Request
  <2>7. CodesAndTokens'
    <3>1. \A k \in codes' : Done(k.issue)'
      BY <2>4, <2>5 DEF CodesInv, CodesAndTokens, Typed, TypeOK, Code
    <3>2. \A d \in devices' : Done(d.issue)'
      BY <2>2, <2>3, <2>5, <2>6 DEF CodesInv, CodesAndTokens, Typed, TypeOK, Device
    <3>3. \A d \in devices', k \in codes' : d.issue = k.issue => k.used
      BY <2>2, <2>3, <2>4 DEF CodesInv, CodesAndTokens
    <3>4. ASSUME NEW d \in devices', NEW e \in devices', d.issue = e.issue
          PROVE  d = e
      <4> DEFINE new == [id |-> r, issue |-> i, revoked |-> FALSE]
      <4>1. new.issue = i
        OBVIOUS
      <4> HIDE DEF new
      <4>2. (d \in devices \/ d = new) /\ (e \in devices \/ e = new)
        BY <2>3 DEF new
      <4> QED
        BY <2>2, <3>4, <4>1, <4>2 DEF CodesInv, CodesAndTokens, OneDevicePerCode
    <3> QED
      BY <3>1, <3>2, <3>3, <3>4 DEF CodesAndTokens, OneDevicePerCode
  <2>8. ASSUME NEW s \in Requests
        PROVE  Claims(req[s])'
    <3>1. CASE s = r
      BY <2>1, <3>1, GoneIs DEF Claims
    <3>2. CASE s # r
      <4>1. req[s].by \in Requests \cup {First} /\ req'[s] = req[s] /\ Claims(req[s])
        BY <1>0, <2>1, <3>2 DEF Request
      <4>2. req[s].kind = "redeem" /\ req[s].pc = "commit" => req[s].by # i
        BY <2>2, <3>2, <4>1 DEF Claims, Typed, Apart
      <4>3. Done(req[s].by) => Done(req[s].by)'
        BY <2>5, <4>1 DEF Done
      <4> QED
        BY <2>3, <4>1, <4>2, <4>3 DEF Claims, Done
    <3> QED
      BY <3>1, <3>2
  <2> QED
    BY <2>7, <2>8 DEF CodesInv
<1>11. CASE \/ \E s \in sessions : Logout(s)
            \/ SweepSessions \/ SweepCodes \/ Tick \/ UNCHANGED vars
  <2>1. req' = req /\ devices' = devices /\ codes' \subseteq codes
    BY <1>11 DEF Logout, SweepSessions, SweepCodes, Tick, vars, tables
  <2> QED
    BY <2>1 DEF CodesInv, CodesAndTokens, OneDevicePerCode, Claims, Done
<1>12. ASSUME NEW d \in devices, RevokeDevice(d)
       PROVE  CodesInv'
  <2>1. /\ req' = req /\ codes' = codes
        /\ devices' = (devices \ {d}) \cup {[d EXCEPT !.revoked = TRUE]}
        /\ [d EXCEPT !.revoked = TRUE].issue = d.issue
    BY <1>12 DEF RevokeDevice, Typed, TypeOK, Device
  <2> DEFINE gone == [d EXCEPT !.revoked = TRUE]
  <2> HIDE DEF gone
  <2>2. \A e \in devices' : (e \in devices /\ e # d) \/ (e = gone /\ gone.issue = d.issue)
    BY <2>1 DEF gone
  <2> QED
    BY <2>1, <2>2 DEF CodesInv, CodesAndTokens, OneDevicePerCode, Claims, Done
<1> QED
  BY <1>1, <1>2, <1>3, <1>4, <1>5, <1>6, <1>7, <1>8, <1>9, <1>10, <1>11, <1>12
     DEF Next, Arrives, Proceeds

-----------------------------------------------------------------------------
LEMMA InitHolds == Init => IInv
<1> SUFFICES ASSUME Init PROVE IInv
  OBVIOUS
<1>1. PICK f \in 0..Threshold, o \in BOOLEAN :
        user = [Initially EXCEPT !.old = o, !.failed = f, !.until = LockedUntil(f, 0)]
  BY DEF Init
<1>2. /\ LockedUntil(f, 0) \in 0..LockMax
      /\ LockedUntil(f, 0) # NotLocked <=> f >= Threshold
  BY LockedUntilIs, Numbers
<1>3. /\ user \in User /\ user.pw = Initially.pw /\ user.failed = f
      /\ user.until = LockedUntil(f, 0)
  <2> DEFINE until == LockedUntil(f, 0)
  <2>1. until \in 0..(MaxTime + LockMax) /\ f \in Nat
    BY <1>2, Numbers
  <2>2. user = [Initially EXCEPT !.old = o, !.failed = f, !.until = until]
    BY <1>1
  <2> HIDE DEF until
  <2>3. /\ user \in User /\ user.pw = Initially.pw /\ user.failed = f /\ user.until = until
    BY <2>1, <2>2, InitialRecords DEF User
  <2> QED
    BY <2>3 DEF until
<1>4. \A r \in Requests : req[r] = NewRequest
  BY DEF Init
<1>5. TypeOK
  <2>1. sessions \subseteq Session
    BY Numbers DEF Init, Session
  <2>2. codes \subseteq Code
    BY AuthAssumption, Numbers DEF Init, Code
  <2>3. now = 0 /\ now \in Time /\ user.until <= now + LockMax
    BY <1>2, <1>3, Numbers DEF Init, Time
  <2>4. newest \in Passwords
    BY InitialRecords DEF Init, User
  <2>5. /\ devices = {} /\ req \in [Requests -> Request] /\ raced \in BOOLEAN
        /\ since \subseteq Requests \cup {First} /\ late \subseteq Requests \cup {First}
    BY InitialRecords DEF Init
  <2> QED
    BY <1>3, <2>1, <2>2, <2>3, <2>4, <2>5 DEF TypeOK
<1>6. Typed
  <2>1. \A r \in Requests : KnowsItsWay(req[r])
    BY <1>4, InitialRecords DEF KnowsItsWay, Init
  <2>2. Apart
    BY <1>4, InitialRecords DEF Apart
  <2> QED
    BY <1>5, <2>1, <2>2 DEF Typed
<1>7. FailuresLock
  BY <1>2, <1>3 DEF FailuresLock
<1>8. SessionsInv
  <2>1. \A r \in Requests : ~ LoggingIn(req[r]) /\ ~ Changing(req[r], {"commit"})
    BY <1>4, InitialRecords DEF LoggingIn, Changing
  <2>2. /\ user.pw = newest /\ since = {First} /\ \A s \in sessions : s.id = First
    BY <1>3 DEF Init
  <2> QED
    BY <2>1, <2>2 DEF SessionsInv, ReadsNewest, LoginsAreKnown, ListedSessionsGo, LoggingIn, At
<1>9. CodesInv
  <2>1. \A r \in Requests : Claims(req[r])
    BY <1>4, InitialRecords DEF Claims
  <2>2. CodesAndTokens
    BY DEF Init, CodesAndTokens, OneDevicePerCode, Done
  <2> QED
    BY <2>1, <2>2 DEF CodesInv
<1> QED
  BY <1>6, <1>7, <1>8, <1>9 DEF IInv

LEMMA IInvHolds == Spec => []IInv
<1>1. IInv /\ [Next]_vars => IInv'
  BY TypedStep, FailuresStep, SessionsStep, CodesStep DEF IInv
<1> QED
  BY <1>1, InitHolds, PTL DEF Spec

(* The rows and the requests keep their types and, in particular, no lock lasts
   longer than lockoutMax from now: guessing is throttled, never locked out. *)
THEOREM LocksEnd == Spec => []TypeOK
<1>1. IInv => TypeOK
  BY DEF IInv, Typed
<1> QED
  BY <1>1, IInvHolds, PTL

(* The account is locked exactly when its failures call for it, unless the failure
   counted last came from a login that had read another count. *)
THEOREM LocksFollowFailures == Spec => []FailuresLock
<1>1. IInv => FailuresLock
  BY DEF IInv
<1> QED
  BY <1>1, IInvHolds, PTL

(* A password change signs every other session out and cannot be undone by a hash
   upgrade, up to the logins that were in flight. *)
THEOREM PasswordChangesHold == Spec => []ChangesTakeHold
<1>1. IInv => ChangesTakeHold
  BY DEF IInv, SessionsInv, ReadsNewest, LoginsAreKnown, ChangesTakeHold
<1> QED
  BY <1>1, IInvHolds, PTL

(* A pairing code is redeemed once, whoever redeems it at once and whenever it is
   swept. *)
THEOREM CodesAreSingleUse == Spec => []OneDevicePerCode
<1>1. IInv => OneDevicePerCode
  BY DEF IInv, CodesInv, CodesAndTokens
<1> QED
  BY <1>1, IInvHolds, PTL

=============================================================================

--------------------------- MODULE SubscribersProofs ---------------------------
(***************************************************************************)
(* Proofs about Subscribers, for any number of signups, workers, attempts  *)
(* and emails, and any expiry and cooldown that satisfy the assumptions.   *)
(***************************************************************************)
EXTENDS Subscribers, TLAPS

\* Any row of the jobs table; how many attempts it has had does not matter here.
AnyRow == [state : JobState, attempts : Int, age : Int, due : Int]

Typed ==
  /\ status \in {"absent", "pending", "confirmed", "unsubscribed"}
  /\ issued \in Seq(Nat) /\ departed \in Nat
  /\ confirm \in 0..Len(issued)
  /\ expires \in 0..NoExpiry
  /\ age \in 0..TTL /\ since \in 0..(Cooldown + 1)
  /\ job \in [Jobs -> AnyRow]
  /\ pc \in [Workers -> {"idle", "issue", "send", "succeeded", "failed"}]
  /\ held \in [Workers -> Jobs \cup {NoJob}]

\* What is mailed is a pair, never a NULL hash.
PairsAreMailed ==
  /\ minted \in [Workers -> Nat] /\ inbox \subseteq Nat \ {0}
  /\ \A w \in Workers : pc[w] = "send" => minted[w] # 0

\* A worker that runs a job holds a running row, and holds it alone.
HeldAlone ==
  /\ \A w \in Workers : IF pc[w] = "idle" THEN held[w] = NoJob
                        ELSE held[w] \in Jobs /\ job[held[w]].state = "running"
  /\ \A v, w \in Workers : held[v] = held[w] /\ held[v] # NoJob => v = w

\* A pair that can still confirm is the latest, which also unsubscribes, it was
\* issued since the address last left, and the address is pending.
PairIsCurrent ==
  confirm # 0 =>
    /\ status = "pending"
    /\ unsub = confirm
    /\ issued[confirm] = departed

\* The run of j, or its next one, will still issue a pair, or there will be none.
WillIssue(j) ==
  \/ job[j].state \in {"queued", "dead"}
  \/ /\ job[j].state = "running"
     /\ \A w \in Workers : held[w] = j => pc[w] \in {"issue", "failed"}

\* The expiry runs with the age of the pair, unless a signup has put it off for
\* a job that will issue another pair.
ExpiryFollowsAge ==
  confirm # 0 => expires + age <= TTL \/ \E j \in Jobs : WillIssue(j)

\* Only a pending address has an expiry, and within the cooldown it is still close
\* to its full length, whether the signup or a job has written it last.
ExpiryIsFresh ==
  IF status = "pending"
  THEN expires # NoExpiry /\ (since <= Cooldown => expires + since >= TTL)
  ELSE expires = NoExpiry

IInv ==
  /\ Typed /\ PairsAreMailed /\ HeldAlone
  /\ PairIsCurrent /\ ExpiryFollowsAge /\ ExpiryIsFresh

-----------------------------------------------------------------------------
\* What the statements of the jobs table make of a row.
LEMMA NewRow == Enqueued \in AnyRow /\ Enqueued.state = "queued"
BY DEF AnyRow, JobState, Final, Enqueued

LEMMA RowOps ==
  ASSUME NEW r \in AnyRow
  PROVE  /\ Claimed(r) \in AnyRow /\ Claimed(r).state = "running"
         /\ Reaped(r) \in AnyRow /\ Reaped(r).state \in {"queued", "dead"}
         /\ Completed(r) \in AnyRow
         /\ Exists(r) => Completed(r).state = "done"
         /\ Retried(r, 0) \in AnyRow
         /\ Exists(r) => Retried(r, 0).state \in {"queued", "dead"}
BY DEF AnyRow, JobState, Final, Claimed, Reaped, Completed, Retried,
       Updated, AfterAttempt, Exists

LEMMA TypedStep ==
  ASSUME Typed, HeldAlone, [Next]_vars
  PROVE  Typed'
<1> USE SubscribersAssumption, RowOps, NewRow DEF Typed, NoExpiry
<1>1. CASE SubscribeAndSend
  BY <1>1 DEF SubscribeAndSend, workerVars
<1>2. CASE SubscribeQuietly
  BY <1>2 DEF SubscribeQuietly, Upserted, workerVars
<1>3. ASSUME NEW w \in Workers, NEW j \in Jobs, Claim(w, j)
      PROVE  Typed'
  BY <1>3 DEF Claim, rowVars, history
<1>4. ASSUME NEW w \in Workers, IssueTokens(w)
      PROVE  Typed'
  BY <1>4 DEF IssueTokens, StorePair
<1>5. ASSUME NEW w \in Workers,
             NothingToSend(w) \/ IssueFails(w)
               \/ \E a \in BOOLEAN, r \in {"succeeded", "failed"} : SendMail(w, a, r)
      PROVE  Typed'
  BY <1>5 DEF NothingToSend, IssueFails, SendMail, rowVars, history
<1>6. ASSUME NEW w \in Workers, Record(w)
      PROVE  Typed'
  BY <1>6 DEF Record, HeldAlone, rowVars, history
<1>7. ASSUME NEW w \in Workers, Crash(w)
      PROVE  Typed'
  BY <1>7 DEF Crash, rowVars, history
<1>8. ASSUME NEW j \in Jobs, Reap(j)
      PROVE  Typed'
  BY <1>8 DEF Reap, rowVars, history, workerVars
<1>9. ASSUME NEW p \in inbox, Confirm(p) \/ Unsubscribe(p) \/ UnsubscribeUnknown(p)
      PROVE  Typed'
  BY <1>9 DEF Confirm, Unsubscribe, UnsubscribeUnknown, rowVars, workerVars
<1>10. CASE Tick
  BY <1>10 DEF Tick, Older, workerVars
<1>11. CASE UNCHANGED vars
  BY <1>11 DEF vars, rowVars, workerVars, history
<1> QED
  BY <1>1, <1>2, <1>3, <1>4, <1>5, <1>6, <1>7, <1>8, <1>9, <1>10, <1>11
     DEF Next, WorkerStep, Returns

LEMMA PairsStep ==
  ASSUME Typed, PairsAreMailed, [Next]_vars
  PROVE  PairsAreMailed'
<1> USE DEF Typed, PairsAreMailed
<1>1. ASSUME NEW w \in Workers, IssueTokens(w)
      PROVE  PairsAreMailed'
  <2>1. Len(issued') = Len(issued) + 1
    BY <1>1 DEF IssueTokens, StorePair
  <2> QED
    BY <1>1, <2>1 DEF IssueTokens, StorePair
<1>2. ASSUME NEW w \in Workers, NEW a \in BOOLEAN, NEW r \in {"succeeded", "failed"},
             SendMail(w, a, r)
      PROVE  PairsAreMailed'
  BY <1>2 DEF SendMail
<1>3. ASSUME NEW w \in Workers, Crash(w)
      PROVE  PairsAreMailed'
  BY <1>3 DEF Crash
<1>4. ASSUME UNCHANGED <<minted, inbox>>, \A w \in Workers : pc'[w] = "send" => pc[w] = "send"
      PROVE  PairsAreMailed'
  BY <1>4
<1> QED
  BY <1>1, <1>2, <1>3, <1>4
     DEF Next, WorkerStep, Returns, SubscribeAndSend, SubscribeQuietly, Claim,
         NothingToSend, IssueFails, Record, Reap, Confirm, Unsubscribe,
         UnsubscribeUnknown, Tick, vars, workerVars

LEMMA HeldAloneStep ==
  ASSUME Typed, HeldAlone, [Next]_vars
  PROVE  HeldAlone'
<1> USE SubscribersAssumption, RowOps, NewRow DEF Typed, HeldAlone
<1>1. ASSUME NEW j \in Jobs, NEW r \in AnyRow, UNCHANGED <<pc, held>>,
             job' = [job EXCEPT ![j] = r], \A w \in Workers : held[w] # j
      PROVE  HeldAlone'
  BY <1>1
<1>2. CASE SubscribeAndSend
  <2>1. PICK j \in Jobs : job[j].state = "absent" /\ job' = [job EXCEPT ![j] = Enqueued]
    BY <1>2 DEF SubscribeAndSend
  <2>2. \A w \in Workers : held[w] # j
    BY <2>1
  <2> QED
    BY <1>1, <1>2, <2>1, <2>2 DEF SubscribeAndSend, workerVars
<1>3. ASSUME NEW w \in Workers, NEW j \in Jobs, Claim(w, j)
      PROVE  HeldAlone'
  <2>1. \A v \in Workers : held[v] # j
    BY <1>3 DEF Claim, Runnable
  <2> QED
    BY <1>3, <2>1 DEF Claim
<1>4. ASSUME NEW w \in Workers, UNCHANGED <<job, held>>, pc[w] # "idle",
             NEW to \in {"send", "succeeded", "failed"},
             pc' = [pc EXCEPT ![w] = to]
      PROVE  HeldAlone'
  BY <1>4
<1>5. ASSUME NEW w \in Workers, Returns(w)
      PROVE  HeldAlone'
  BY <1>4, <1>5 DEF Returns, IssueTokens, StorePair, NothingToSend, IssueFails, SendMail
<1>6. ASSUME NEW w \in Workers, Record(w)
      PROVE  HeldAlone'
  <2>1. /\ held[w] \in Jobs
        /\ \A v \in Workers : held[v] = held[w] => v = w
    BY <1>6 DEF Record
  <2> QED
    BY <1>6, <2>1 DEF Record
<1>7. ASSUME NEW w \in Workers, Crash(w)
      PROVE  HeldAlone'
  BY <1>7 DEF Crash
<1>8. ASSUME NEW j \in Jobs, Reap(j)
      PROVE  HeldAlone'
  BY <1>1, <1>8 DEF Reap, Orphan, workerVars
<1>9. ASSUME UNCHANGED <<job, pc, held>>
      PROVE  HeldAlone'
  BY <1>9
<1> QED
  BY <1>2, <1>3, <1>5, <1>6, <1>7, <1>8, <1>9
     DEF Next, WorkerStep, SubscribeQuietly, Confirm, Unsubscribe,
         UnsubscribeUnknown, Tick, vars, workerVars

LEMMA PairStep ==
  ASSUME Typed, PairIsCurrent, [Next]_vars
  PROVE  PairIsCurrent'
<1> USE DEF Typed, PairIsCurrent
<1>1. ASSUME UNCHANGED <<status, confirm, unsub, issued, departed>>
      PROVE  PairIsCurrent'
  BY <1>1
<1>2. CASE SubscribeAndSend \/ SubscribeQuietly
  BY <1>2 DEF SubscribeAndSend, SubscribeQuietly, Upserted
<1>3. ASSUME NEW w \in Workers, IssueTokens(w)
      PROVE  PairIsCurrent'
  BY <1>3 DEF IssueTokens, StorePair
<1>4. ASSUME NEW p \in inbox, Confirm(p) \/ Unsubscribe(p)
      PROVE  PairIsCurrent'
  BY <1>4 DEF Confirm, Unsubscribe
<1> QED
  BY <1>1, <1>2, <1>3, <1>4
     DEF Next, WorkerStep, Returns, Claim, NothingToSend, IssueFails, SendMail,
         Record, Crash, Reap, UnsubscribeUnknown, Tick, vars, rowVars, history

\* A job that will issue a pair goes on to do so as long as somebody waits for it.
LEMMA WillIssueStep ==
  ASSUME Typed, HeldAlone, PairIsCurrent, confirm # 0, [Next]_vars,
         \A w \in Workers : ~ IssueTokens(w),
         NEW j \in Jobs, WillIssue(j)
  PROVE  WillIssue(j)'
<1> USE SubscribersAssumption, RowOps, NewRow DEF Typed, WillIssue
<1>1. ASSUME UNCHANGED <<job, pc, held>>
      PROVE  WillIssue(j)'
  BY <1>1
<1>2. CASE SubscribeAndSend
  <2>1. PICK k \in Jobs : job' = [job EXCEPT ![k] = Enqueued]
    BY <1>2 DEF SubscribeAndSend
  <2> QED
    BY <1>2, <2>1 DEF SubscribeAndSend, workerVars
<1>3. ASSUME NEW w \in Workers, NEW k \in Jobs, Claim(w, k)
      PROVE  WillIssue(j)'
  <2>1. \A v \in Workers : held[v] # k
    BY <1>3 DEF Claim, Runnable, HeldAlone
  <2> QED
    BY <1>3, <2>1 DEF Claim
<1>4. ASSUME NEW w \in Workers, NothingToSend(w)
      PROVE  WillIssue(j)'
  BY <1>4 DEF NothingToSend, PairIsCurrent
<1>5. ASSUME NEW w \in Workers, IssueFails(w)
      PROVE  WillIssue(j)'
  BY <1>5 DEF IssueFails
<1>6. ASSUME NEW w \in Workers, NEW a \in BOOLEAN, NEW r \in {"succeeded", "failed"},
             SendMail(w, a, r)
      PROVE  WillIssue(j)'
  <2>1. held[w] = j => job[j].state # "running"
    BY <1>6 DEF SendMail
  <2>2. held[w] # j
    BY <1>6, <2>1 DEF SendMail, HeldAlone
  <2> QED
    BY <1>6, <2>2 DEF SendMail
<1>7. ASSUME NEW w \in Workers, Record(w)
      PROVE  WillIssue(j)'
  <2>1. /\ held[w] \in Jobs /\ job[held[w]].state = "running"
        /\ Exists(job[held[w]])
    BY <1>7 DEF Record, HeldAlone, Exists
  <2>2. CASE held[w] = j
    <3>1. pc[w] = "failed"
      BY <1>7, <2>1, <2>2 DEF Record
    <3> QED
      BY <1>7, <2>1, <2>2, <3>1 DEF Record
  <2>3. CASE held[w] # j
    <3>1. job'[j] = job[j] /\ \A v \in Workers : held'[v] = j => v # w /\ held[v] = j
      BY <1>7, <2>1, <2>3 DEF Record
    <3>2. \A v \in Workers : v # w => pc'[v] = pc[v]
      BY <1>7 DEF Record
    <3> QED
      BY <3>1, <3>2
  <2> QED
    BY <2>2, <2>3
<1>8. ASSUME NEW w \in Workers, Crash(w)
      PROVE  WillIssue(j)'
  BY <1>8 DEF Crash
<1>9. ASSUME NEW k \in Jobs, Reap(k)
      PROVE  WillIssue(j)'
  BY <1>9 DEF Reap, Orphan, workerVars
<1> QED
  BY <1>1, <1>2, <1>3, <1>4, <1>5, <1>6, <1>7, <1>8, <1>9
     DEF Next, WorkerStep, Returns, SubscribeQuietly, Confirm, Unsubscribe,
         UnsubscribeUnknown, Tick, vars, workerVars

LEMMA ExpiryFollowsStep ==
  ASSUME Typed, HeldAlone, PairIsCurrent, ExpiryFollowsAge, [Next]_vars
  PROVE  ExpiryFollowsAge'
<1> USE SubscribersAssumption DEF Typed, ExpiryFollowsAge, NoExpiry
<1>1. ASSUME NEW w \in Workers, IssueTokens(w)
      PROVE  ExpiryFollowsAge'
  BY <1>1 DEF IssueTokens, StorePair
<1>2. ASSUME \A w \in Workers : ~ IssueTokens(w), NEW j \in Jobs, WillIssue(j), confirm # 0
      PROVE  ExpiryFollowsAge'
  BY <1>2, WillIssueStep
<1>3. CASE SubscribeAndSend
  <2>1. PICK j \in Jobs : job' = [job EXCEPT ![j] = Enqueued]
    BY <1>3 DEF SubscribeAndSend
  <2>2. WillIssue(j)'
    BY <2>1, NewRow DEF WillIssue
  <2> QED
    BY <2>2
<1>4. ASSUME confirm # 0 => expires + age <= TTL, Tick
      PROVE  ExpiryFollowsAge'
  BY <1>4 DEF Tick, Older
<1>5. ASSUME UNCHANGED <<confirm, expires, age>>, confirm # 0 => expires + age <= TTL
      PROVE  ExpiryFollowsAge'
  BY <1>5
<1>6. ASSUME confirm' = 0
      PROVE  ExpiryFollowsAge'
  BY <1>6
<1>7. \/ confirm # 0 => expires + age <= TTL
      \/ confirm # 0 /\ \E j \in Jobs : WillIssue(j)
  OBVIOUS
<1> QED
  BY <1>1, <1>2, <1>3, <1>4, <1>5, <1>6, <1>7
     DEF Next, WorkerStep, Returns, SubscribeQuietly, Claim, NothingToSend,
         IssueFails, SendMail, Record, Crash, Reap, Confirm, Unsubscribe,
         UnsubscribeUnknown, vars, rowVars, history

LEMMA ExpiryIsFreshStep ==
  ASSUME Typed, ExpiryIsFresh, [Next]_vars
  PROVE  ExpiryIsFresh'
<1> USE SubscribersAssumption DEF Typed, ExpiryIsFresh, NoExpiry
<1>1. CASE SubscribeAndSend
  BY <1>1 DEF SubscribeAndSend
<1>2. CASE SubscribeQuietly
  BY <1>2 DEF SubscribeQuietly, Upserted, OutsideCooldown
<1>3. ASSUME NEW w \in Workers, IssueTokens(w)
      PROVE  ExpiryIsFresh'
  BY <1>3 DEF IssueTokens, StorePair
<1>4. ASSUME NEW p \in inbox, Confirm(p) \/ Unsubscribe(p)
      PROVE  ExpiryIsFresh'
  BY <1>4 DEF Confirm, Unsubscribe
<1>5. CASE Tick
  BY <1>5 DEF Tick, Older
<1>6. ASSUME UNCHANGED <<status, expires, since>>
      PROVE  ExpiryIsFresh'
  BY <1>6
<1> QED
  BY <1>1, <1>2, <1>3, <1>4, <1>5, <1>6
     DEF Next, WorkerStep, Returns, Claim, NothingToSend, IssueFails, SendMail,
         Record, Crash, Reap, UnsubscribeUnknown, vars, rowVars, history

-----------------------------------------------------------------------------
LEMMA IInvInductive == Spec => []IInv
<1>1. Init => IInv
  BY SubscribersAssumption
     DEF Init, IInv, Typed, PairsAreMailed, HeldAlone, PairIsCurrent, ExpiryFollowsAge,
         ExpiryIsFresh, NoExpiry, Vacant, AnyRow, JobState, Final
<1>2. IInv /\ [Next]_vars => IInv'
  BY TypedStep, PairsStep, HeldAloneStep, PairStep, ExpiryFollowsStep, ExpiryIsFreshStep
     DEF IInv
<1> QED
  BY <1>1, <1>2, PTL DEF Spec

\* Every confirmed address can leave: its unsubscribe hash is of a pair that has
\* reached the inbox.  It got there before the confirmation, and no job that is
\* still under way replaces it (IssueSubscriberTokens' condition on the status).
THEOREM ConfirmedCanAlwaysLeave == Spec => []ConfirmedCanLeave
<1>1. Init => ConfirmedCanLeave
  BY DEF Init, ConfirmedCanLeave
<1>2. IInv /\ ConfirmedCanLeave /\ [Next]_vars => ConfirmedCanLeave'
  <2> SUFFICES ASSUME IInv, ConfirmedCanLeave, [Next]_vars
               PROVE  ConfirmedCanLeave'
    OBVIOUS
  <2>1. Typed /\ PairsAreMailed /\ PairIsCurrent
    BY DEF IInv
  <2> USE DEF ConfirmedCanLeave
  <2>2. ASSUME NEW p \in inbox, Confirm(p)
        PROVE  ConfirmedCanLeave'
    <3>1. unsub = p
      BY <2>1, <2>2 DEF Confirm, LinkWorks, PairsAreMailed, PairIsCurrent
    <3> QED
      BY <2>2, <3>1 DEF Confirm
  <2>3. ASSUME NEW p \in inbox, Unsubscribe(p)
        PROVE  ConfirmedCanLeave'
    BY <2>3 DEF Unsubscribe
  <2>4. ASSUME NEW w \in Workers, IssueTokens(w)
        PROVE  ConfirmedCanLeave'
    BY <2>4 DEF IssueTokens, StorePair
  <2>5. CASE SubscribeAndSend \/ SubscribeQuietly
    BY <2>5 DEF SubscribeAndSend, SubscribeQuietly, Upserted
  <2>6. ASSUME UNCHANGED <<status, unsub>>, inbox \subseteq inbox'
        PROVE  ConfirmedCanLeave'
    BY <2>6
  <2> QED
    BY <2>2, <2>3, <2>4, <2>5, <2>6
       DEF Next, WorkerStep, Returns, Claim, NothingToSend, IssueFails, SendMail,
           Record, Crash, Reap, UnsubscribeUnknown, Tick, vars, rowVars
<1> QED
  BY <1>1, <1>2, IInvInductive, PTL DEF Spec

\* A link that is older than its expiry works only while a later signup's
\* provisional expiry awaits its job, or that job is dead.
THEOREM LinksExpireInTime == Spec => []LinksExpire
<1>1. IInv => LinksExpire
  <2> SUFFICES ASSUME IInv, NEW p \in inbox, LinkWorks(p), age = TTL
               PROVE  Outstanding
    BY DEF LinksExpire
  <2> QED
    BY SubscribersAssumption
       DEF IInv, Typed, PairsAreMailed, ExpiryFollowsAge, LinkWorks, Outstanding,
           WillIssue, NoExpiry
<1> QED
  BY <1>1, IInvInductive, PTL

\* A confirmation is by a pair that was issued after the last departure.
THEOREM OldLinksStayDead == Spec => OldLinksAreDead
<1>1. IInv /\ [Next]_vars =>
        (status = "pending" /\ status' = "confirmed" => issued[confirm] = departed)
  BY DEF IInv, PairsAreMailed, PairIsCurrent, Next, WorkerStep, Returns, SubscribeAndSend,
         SubscribeQuietly, Upserted, Claim, IssueTokens, StorePair, NothingToSend,
         IssueFails, SendMail, Record, Crash, Reap, Confirm, LinkWorks, Unsubscribe,
         UnsubscribeUnknown, Tick, vars, rowVars
<1> QED
  BY <1>1, IInvInductive, PTL DEF Spec, OldLinksAreDead

\* A pending address queues another email only when the cooldown is over.
THEOREM CooldownIsKept == Spec => OneEmailPerCooldown
<1>1. ASSUME IInv, [Next]_vars, NEW j \in Jobs,
             status = "pending", job[j].state = "absent", job'[j].state = "queued"
      PROVE  since > Cooldown
  <2> USE <1>1 DEF IInv, Typed
  <2>1. CASE SubscribeAndSend
    BY <2>1, SubscribersAssumption
       DEF SubscribeAndSend, ExpiryIsFresh, OutsideCooldown, NoExpiry
  <2>2. ASSUME NEW w \in Workers, NEW k \in Jobs, Claim(w, k)
        PROVE  FALSE
    BY <2>2, RowOps DEF Claim
  <2>3. ASSUME NEW w \in Workers, Record(w)
        PROVE  FALSE
    BY <2>3, RowOps DEF Record, HeldAlone
  <2>4. ASSUME NEW k \in Jobs, Reap(k)
        PROVE  FALSE
    BY <2>4, RowOps DEF Reap, Orphan
  <2> QED
    BY <2>1, <2>2, <2>3, <2>4
       DEF Next, WorkerStep, Returns, SubscribeQuietly, IssueTokens, StorePair,
           NothingToSend, IssueFails, SendMail, Crash, Confirm, Unsubscribe,
           UnsubscribeUnknown, Tick, vars
<1>2. IInv /\ [Next]_vars =>
        \A j \in Jobs :
          status = "pending" /\ job[j].state = "absent" /\ job'[j].state = "queued"
            => since > Cooldown
  BY <1>1
<1> QED
  BY <1>2, IInvInductive, PTL DEF Spec, OneEmailPerCooldown

-----------------------------------------------------------------------------
\* The pairs of the row, of the workers and of the inbox have been issued, none of
\* them after the address last left.
PairsExist ==
  /\ unsub \in 0..Len(issued) /\ (status = "absent" => unsub = 0)
  /\ inbox \subseteq DOMAIN issued
  /\ \A w \in Workers : pc[w] = "send" => minted[w] \in DOMAIN issued
  /\ \A p \in DOMAIN issued : issued[p] <= departed

\* What StorePair appends.
LEMMA PairIssued ==
  ASSUME Typed, NEW w \in Workers, StorePair(w)
  PROVE  LET p == Len(issued) + 1 IN
         /\ Len(issued') = p /\ DOMAIN issued' = DOMAIN issued \cup {p} /\ p \notin DOMAIN issued
         /\ unsub' = p /\ confirm' = p /\ issued'[p] = departed
         /\ \A q \in DOMAIN issued : issued'[q] = issued[q]
<1> DEFINE p == Len(issued) + 1
<1>1. issued \in Seq(Nat) /\ departed \in Nat /\ issued' = Append(issued, departed)
  BY DEF Typed, StorePair
<1>2. Len(issued') = p /\ DOMAIN issued' = 1..p /\ DOMAIN issued = 1..Len(issued) /\ Len(issued) \in Nat
  BY <1>1
<1>3. issued'[p] = departed /\ \A q \in 1..Len(issued) : issued'[q] = issued[q]
  BY <1>1
<1>4. unsub' = p /\ confirm' = p
  BY <1>2 DEF StorePair
<1> QED
  BY <1>2, <1>3, <1>4

LEMMA PairsExistStep ==
  ASSUME Typed, PairsAreMailed, PairsExist, [Next]_vars
  PROVE  PairsExist'
<1> USE DEF Typed, PairsExist
<1>0. minted \in [Workers -> Nat] /\ pc \in [Workers -> {"idle", "issue", "send", "succeeded", "failed"}]
  BY DEF PairsAreMailed
<1>1. ASSUME UNCHANGED <<unsub, pc, minted, issued, inbox>>, departed' \in {departed, departed + 1},
             status' = "absent" => status = "absent"
      PROVE  PairsExist'
  BY <1>1
<1>2. ASSUME UNCHANGED <<status, unsub, issued, inbox, departed>>,
             \A w \in Workers : pc'[w] = "send" => pc[w] = "send" /\ minted'[w] = minted[w]
      PROVE  PairsExist'
  BY <1>2
<1>3. ASSUME NEW w \in Workers, IssueTokens(w)
      PROVE  PairsExist'
  <2> DEFINE p == Len(issued) + 1
  <2>1. StorePair(w)
    BY <1>3 DEF IssueTokens
  <2>2. /\ Len(issued') = p /\ DOMAIN issued' = DOMAIN issued \cup {p} /\ unsub' = p /\ issued'[p] = departed
        /\ \A q \in DOMAIN issued : issued'[q] = issued[q]
    BY <2>1, PairIssued
  <2>3. departed' = departed /\ inbox' = inbox /\ departed \in Nat /\ status' = "pending"
    BY <1>3, <2>1 DEF IssueTokens, StorePair
  <2>4. \A v \in Workers : pc'[v] = "send" => minted'[v] \in DOMAIN issued'
    <3>1. \A v \in Workers : v # w => pc'[v] = pc[v] /\ minted'[v] = minted[v]
      BY <2>1 DEF StorePair
    <3>2. minted' = [minted EXCEPT ![w] = p]
      BY <2>1, <2>2 DEF StorePair
    <3>3. minted'[w] = p
      BY <1>0, <3>2
    <3>4. \A v \in Workers : v # w => (pc'[v] = "send" => minted'[v] \in DOMAIN issued)
      BY <3>1
    <3> QED
      BY <2>2, <3>3, <3>4
  <2> QED
    BY <2>2, <2>3, <2>4
<1>4. ASSUME NEW w \in Workers, NEW a \in BOOLEAN, NEW r \in {"succeeded", "failed"}, SendMail(w, a, r)
      PROVE  PairsExist'
  <2>1. pc' = [pc EXCEPT ![w] = r] /\ minted' = [minted EXCEPT ![w] = 0]
    BY <1>4 DEF SendMail
  <2>2. \A v \in Workers : pc'[v] = "send" => pc[v] = "send" /\ minted'[v] = minted[v]
    BY <1>0, <2>1
  <2>3. UNCHANGED <<status, unsub, issued, departed>> /\ (inbox' = inbox \/ inbox' = inbox \cup {minted[w]})
    BY <1>4 DEF SendMail, rowVars, history
  <2>4. minted[w] \in DOMAIN issued
    BY <1>4 DEF SendMail
  <2> QED
    BY <2>2, <2>3, <2>4
<1>5. ASSUME NEW w \in Workers, \/ \E j \in Jobs : Claim(w, j)
                                \/ NothingToSend(w) \/ IssueFails(w) \/ Record(w) \/ Crash(w)
      PROVE  PairsExist'
  <2>1. UNCHANGED <<status, unsub, issued, inbox, departed>>
    BY <1>5 DEF Claim, NothingToSend, IssueFails, Record, Crash, rowVars, history
  <2>2. /\ \E x \in {"idle", "issue", "succeeded", "failed"} : pc' = [pc EXCEPT ![w] = x]
        /\ minted' = minted \/ minted' = [minted EXCEPT ![w] = 0]
    BY <1>5 DEF Claim, NothingToSend, IssueFails, Record, Crash
  <2>3. \A v \in Workers : pc'[v] = "send" => pc[v] = "send" /\ minted'[v] = minted[v]
    BY <1>0, <2>2
  <2> QED
    BY <1>2, <2>1, <2>3
<1>6. CASE SubscribeAndSend \/ SubscribeQuietly
  <2>1. UNCHANGED <<unsub, pc, minted, issued, inbox, departed>> /\ status' # "absent"
    BY <1>6 DEF SubscribeAndSend, SubscribeQuietly, Upserted, workerVars
  <2> QED
    BY <1>1, <2>1
<1>7. ASSUME NEW p \in inbox, Confirm(p) \/ Unsubscribe(p) \/ UnsubscribeUnknown(p)
      PROVE  PairsExist'
  <2>1. /\ UNCHANGED <<unsub, pc, minted, issued, inbox>> /\ departed' \in {departed, departed + 1}
        /\ status' = "absent" => status = "absent"
    BY <1>7 DEF Confirm, Unsubscribe, UnsubscribeUnknown, rowVars, workerVars
  <2> QED
    BY <1>1, <2>1
<1>8. ASSUME Tick \/ UNCHANGED vars \/ \E j \in Jobs : Reap(j)
      PROVE  PairsExist'
  <2>1. UNCHANGED <<status, unsub, pc, minted, issued, inbox, departed>>
    BY <1>8 DEF Tick, Reap, vars, rowVars, workerVars, history
  <2> QED
    BY <1>1, <2>1
<1> QED
  BY <1>3, <1>4, <1>5, <1>6, <1>7, <1>8 DEF Next, WorkerStep, Returns

\* The mailing list implements DoubleOptIn.  Asking again, jobs, links that do not
\* work and the clock are stutters; a pair is issued, mailed and used as there.
THEOREM ImplementsDoubleOptIn == Spec => KeepsOptIn
<1>1. Init => OptIn!Init
  BY DEF Init, OptIn!Init
<1>2. IInv /\ PairsExist /\ [Next]_vars => [OptIn!Next]_(OptIn!optInVars)
  <2> SUFFICES ASSUME IInv, PairsExist, [Next]_vars
               PROVE  [OptIn!Next]_(OptIn!optInVars)
    OBVIOUS
  <2>1. Typed /\ PairsAreMailed /\ PairIsCurrent /\ PairsExist
    BY DEF IInv
  <2> USE DEF OptIn!optInVars
  <2>2. ASSUME UNCHANGED <<status, unsub, issued, inbox, departed>>
        PROVE  UNCHANGED OptIn!optInVars
    BY <2>2
  <2>3. CASE SubscribeAndSend \/ SubscribeQuietly
    <3>1. UNCHANGED <<unsub, issued, inbox, departed>>
      BY <2>3 DEF SubscribeAndSend, SubscribeQuietly
    <3>2. status' = status \/ (status \in {"absent", "unsubscribed"} /\ status' = "pending")
      BY <2>1, <2>3 DEF SubscribeAndSend, SubscribeQuietly, Upserted, Typed
    <3>3. CASE status' = status
      BY <3>1, <3>3, <2>2
    <3>4. CASE status \in {"absent", "unsubscribed"} /\ status' = "pending"
      <4>1. OptIn!Ask
        BY <3>1, <3>4 DEF OptIn!Ask
      <4> QED
        BY <4>1 DEF OptIn!Next
    <3> QED
      BY <3>2, <3>3, <3>4
  <2>4. ASSUME NEW w \in Workers, IssueTokens(w)
        PROVE  OptIn!Issue
    <3>1. StorePair(w) /\ status = "pending"
      BY <2>4 DEF IssueTokens
    <3>2. LET p == Len(issued) + 1 IN
          /\ DOMAIN issued' = DOMAIN issued \cup {p} /\ p \notin DOMAIN issued
          /\ unsub' = p /\ issued'[p] = departed
      BY <2>1, <3>1, PairIssued
    <3>3. status' = status /\ inbox' = inbox /\ departed' = departed
      BY <3>1 DEF StorePair
    <3>4. Len(issued) + 1 \in Nat \ {0}
      BY <2>1 DEF Typed
    <3> QED
      BY <3>1, <3>2, <3>3, <3>4 DEF OptIn!Issue
  <2>5. ASSUME NEW w \in Workers, NEW a \in BOOLEAN, NEW r \in {"succeeded", "failed"}, SendMail(w, a, r)
        PROVE  OptIn!Mail \/ UNCHANGED OptIn!optInVars
    <3>1. UNCHANGED <<status, unsub, issued, departed>>
      BY <2>5 DEF SendMail, rowVars, history
    <3>2. inbox' = inbox \/ inbox' = inbox \cup {minted[w]}
      BY <2>5 DEF SendMail
    <3>3. minted[w] \in DOMAIN issued
      BY <2>1, <2>5 DEF SendMail, PairsExist
    <3> QED
      BY <3>1, <3>2, <3>3 DEF OptIn!Mail
  <2>6. ASSUME NEW p \in inbox, Confirm(p)
        PROVE  OptIn!Join
    <3>1. p # 0 /\ unsub = p /\ issued[unsub] = departed /\ status = "pending"
      BY <2>1, <2>6 DEF Confirm, LinkWorks, PairsAreMailed, PairIsCurrent
    <3>2. status' = "confirmed" /\ UNCHANGED <<unsub, issued, inbox, departed>>
      BY <2>6 DEF Confirm
    <3> QED
      BY <3>1, <3>2 DEF OptIn!Join
  <2>7. ASSUME NEW p \in inbox, Unsubscribe(p)
        PROVE  OptIn!Leave
    <3>1. unsub \in inbox /\ status \in {"pending", "confirmed"}
      <4>1. unsub = p /\ status # "unsubscribed"
        BY <2>7 DEF Unsubscribe
      <4>2. status # "absent"
        BY <2>1, <2>7, <4>1 DEF PairsAreMailed, PairsExist
      <4> QED
        BY <2>1, <4>1, <4>2 DEF Typed
    <3>2. /\ status' = "unsubscribed" /\ departed' = departed + 1
          /\ UNCHANGED <<unsub, issued, inbox>>
      BY <2>7 DEF Unsubscribe
    <3>3. issued[unsub] <= departed /\ issued[unsub] \in Nat /\ departed \in Nat
      BY <2>1, <3>1 DEF PairsExist, Typed
    <3>4. issued'[unsub'] # departed'
      BY <3>2, <3>3
    <3> QED
      BY <3>1, <3>2, <3>4 DEF OptIn!Leave
  <2> QED
    BY <2>2, <2>3, <2>4, <2>5, <2>6, <2>7
       DEF OptIn!Next, Next, WorkerStep, Returns, Claim, NothingToSend, IssueFails,
           Record, Crash, Reap, UnsubscribeUnknown, Tick, vars, rowVars, history
<1>3. Init => PairsExist
  BY DEF Init, PairsExist
<1>4. IInv /\ PairsExist /\ [Next]_vars => PairsExist'
  BY PairsExistStep DEF IInv
<1> QED
  BY <1>1, <1>2, <1>3, <1>4, IInvInductive, PTL DEF Spec, KeepsOptIn, OptIn!Spec

-----------------------------------------------------------------------------
(* The life of a job.                                                            *)

\* A row that waits has attempts left.
GoodRow == {r \in [state : JobState, attempts : 0..MaxAttempts, age : Int, due : Int] :
              r.state = "queued" => r.attempts < MaxAttempts}

RowsGood == job \in [Jobs -> GoodRow]

\* JobLife's step, seen by one row.
LifeMove(r, s) ==
  \/ r.state = "absent" /\ s.state = "queued" /\ s.attempts = 0
  \/ /\ r.state = "queued" /\ r.attempts < MaxAttempts
     /\ s.state = "running" /\ s.attempts = r.attempts + 1
  \/ r.state = "running" /\ s.state \in {"done", "failed"} /\ s.attempts = r.attempts
  \/ /\ r.state = "running" /\ s.attempts = r.attempts
     /\ s.state = IF r.attempts < MaxAttempts THEN "queued" ELSE "dead"
  \/ r.state \in Final \cup {"queued"} /\ s.state = "gone" /\ s.attempts = 0
  \/ s.state = r.state /\ s.attempts = r.attempts

\* A row moves on well.
Lives(r, s) == s \in GoodRow /\ LifeMove(r, s)

LEMMA RowsLive ==
  ASSUME NEW r \in GoodRow
  PROVE  /\ Lives(r, r)
         /\ r.state = "absent" => Lives(r, Enqueued)
         /\ Runnable(r) => Lives(r, Claimed(r))
         /\ r.state = "queued" => Lives(r, Vacant("gone"))
         /\ r.state = "running" =>
              Lives(r, Reaped(r)) /\ Lives(r, Completed(r)) /\ Lives(r, Retried(r, 0))
<1> USE JobTableAssumption DEF GoodRow, JobState, Final, Updated, Lives, LifeMove
<1>1. Lives(r, r)
  OBVIOUS
<1>2. r.state = "absent" => Lives(r, Enqueued)
  BY DEF Enqueued
<1>3. Runnable(r) => Lives(r, Claimed(r))
  BY DEF Runnable, Claimed
<1>4. r.state = "queued" => Lives(r, Vacant("gone"))
  BY DEF Vacant
<1>5. r.state = "running" => Lives(r, Reaped(r)) /\ Lives(r, Retried(r, 0))
  BY DEF Reaped, Retried, AfterAttempt, Exists
<1>6. r.state = "running" => Lives(r, Completed(r))
  BY DEF Completed, Exists
<1> QED
  BY <1>1, <1>2, <1>3, <1>4, <1>5, <1>6

LEMMA JobsLive ==
  ASSUME Typed, HeldAlone, RowsGood, [Next]_vars
  PROVE  RowsGood' /\ \A j \in Jobs : Lives(job[j], job'[j])
<1>1. \A j \in Jobs : job[j] \in GoodRow
  BY DEF RowsGood
<1>2. ASSUME NEW j \in Jobs, NEW r, Lives(job[j], r), job' = [job EXCEPT ![j] = r]
      PROVE  RowsGood' /\ \A i \in Jobs : Lives(job[i], job'[i])
  BY <1>1, <1>2, RowsLive DEF RowsGood, Lives
<1>3. CASE UNCHANGED job
  BY <1>1, <1>3, RowsLive DEF RowsGood
<1>4. CASE SubscribeAndSend
  <2>1. PICK j \in Jobs : job[j].state = "absent" /\ job' = [job EXCEPT ![j] = Enqueued]
    BY <1>4 DEF SubscribeAndSend
  <2>2. Lives(job[j], Enqueued)
    BY <1>1, <2>1, RowsLive
  <2> QED
    BY <1>2, <2>1, <2>2
<1>5. ASSUME NEW w \in Workers, NEW j \in Jobs, Claim(w, j)
      PROVE  RowsGood' /\ \A i \in Jobs : Lives(job[i], job'[i])
  <2>1. Lives(job[j], Claimed(job[j])) /\ job' = [job EXCEPT ![j] = Claimed(job[j])]
    BY <1>1, <1>5, RowsLive DEF Claim
  <2> QED
    BY <1>2, <2>1
<1>6. ASSUME NEW w \in Workers, Record(w)
      PROVE  RowsGood' /\ \A i \in Jobs : Lives(job[i], job'[i])
  <2>1. held[w] \in Jobs /\ job[held[w]].state = "running"
    BY <1>6 DEF HeldAlone, Record
  <2>2. PICK r \in {Completed(job[held[w]]), Retried(job[held[w]], 0)} :
             job' = [job EXCEPT ![held[w]] = r]
    BY <1>6 DEF Record
  <2>3. Lives(job[held[w]], r)
    BY <1>1, <2>1, <2>2, RowsLive
  <2> QED
    BY <1>2, <2>1, <2>2, <2>3
<1>7. ASSUME NEW j \in Jobs, Reap(j)
      PROVE  RowsGood' /\ \A i \in Jobs : Lives(job[i], job'[i])
  <2>1. Lives(job[j], Reaped(job[j])) /\ job' = [job EXCEPT ![j] = Reaped(job[j])]
    BY <1>1, <1>7, RowsLive DEF Reap, Orphan
  <2> QED
    BY <1>2, <2>1
<1> QED
  BY <1>3, <1>4, <1>5, <1>6, <1>7
     DEF Next, WorkerStep, Returns, SubscribeQuietly, IssueTokens, StorePair,
         NothingToSend, IssueFails, SendMail, Crash, Confirm, Unsubscribe,
         UnsubscribeUnknown, Tick, vars, rowVars

LEMMA LifeImplemented ==
  ASSUME RowsGood, \A j \in Jobs : Lives(job[j], job'[j]), RowsGood'
  PROVE  Life!Next
<1>1. /\ [j \in Jobs |-> job'[j].state] \in
            [Jobs -> {"absent", "queued", "running", "gone"} \cup Life!Settled]
      /\ [j \in Jobs |-> job'[j].attempts] \in [Jobs -> 0..MaxAttempts]
  BY DEF RowsGood, GoodRow, JobState, Final, Life!Settled
<1>2. ASSUME NEW j \in Jobs
      PROVE  \/ Life!Submit(j) \/ Life!Hand(j) \/ Life!Settle(j)
             \/ Life!GiveBack(j) \/ Life!Withdraw(j) \/ Life!Forget(j)
             \/ Life!Keep(j)
  BY DEF Lives, LifeMove, Final, Life!Settled, Life!Submit, Life!Hand,
     Life!Settle, Life!GiveBack, Life!Withdraw, Life!Forget, Life!Keep
<1> QED
  BY <1>1, <1>2 DEF Life!Next

\* The confirmation jobs implement JobLife: workers that die, are reaped or fail to
\* record neither run a job too often nor unsettle one.
THEOREM JobsKeepTheirLife == Spec => KeepsJobLife
<1>1. Init => Life!Init /\ RowsGood
  BY JobTableAssumption
     DEF Init, Life!Init, RowsGood, GoodRow, Vacant, JobState, Final
<1>2. IInv /\ RowsGood /\ [Next]_vars => RowsGood' /\ [Life!Next]_(Life!lifeVars)
  BY JobsLive, LifeImplemented DEF IInv
<1> QED
  BY <1>1, <1>2, IInvInductive, PTL DEF Spec, KeepsJobLife, Life!Spec
=============================================================================

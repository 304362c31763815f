----------------------------- MODULE Subscribers -----------------------------
(***************************************************************************)
(* The mailing list with double opt-in (internal/service/subscribers.go,   *)
(* db/queries/subscribers.sql), seen from one address: addresses share     *)
(* nothing but the job queue.                                              *)
(*                                                                         *)
(* A signup makes the row pending and queues a job.  The job mints a pair  *)
(* of tokens (one to confirm, one to unsubscribe), stores their hashes in  *)
(* one transaction and mails the raw pair after it.  The n-th pair issued  *)
(* is the number n; 0 is a NULL hash.  Each statement or transaction is    *)
(* one step: the signup's first statement locks the row it goes on to use. *)
(*                                                                         *)
(* The jobs are rows of JobTable without the queue's clock: that a row is  *)
(* reaped only when no worker holds it is what JobQueue shows (LeaseHeld). *)
(***************************************************************************)
EXTENDS JobTable, Sequences

CONSTANTS
    TTL,        \* confirmTTL, in ticks
    Cooldown,   \* resendCooldown, in ticks
    MaxSends,   \* bound: confirmation jobs that signups queue
    Workers,    \* workers of all runners
    NoJob

Jobs == 1..MaxSends

ASSUME SubscribersAssumption ==
    /\ Cooldown \in Nat \ {0} /\ TTL \in Nat /\ Cooldown < TTL
    /\ MaxSends \in Nat
    /\ NoJob \notin Jobs

VARIABLES
    status,     \* of the row; "absent" before the first signup
    confirm,    \* the pair of confirm_token_hash
    unsub,      \* the pair of unsubscribe_token_hash
    expires,    \* ticks until confirm_expires_at, 0 once passed; NoExpiry: NULL
    job,        \* the send_subscriber_confirmation rows of the jobs table
    pc, held,   \* each worker, and the job it runs
    minted,     \* the pair it has issued and is mailing
    issued,     \* the pairs issued; history: departed, when each of them was
    inbox,      \* the pairs mailed to the address, in whatever order
    age,        \* history: ticks since the pair of confirm was issued
    since,      \* history: ticks since a signup last queued a job
    departed,   \* history: how often the address has unsubscribed
    told        \* history: Unsubscribe has reported success since the last signup

rowVars == <<status, confirm, unsub, expires>>
workerVars == <<pc, held, minted>>
history == <<age, since, departed, told>>
vars == <<rowVars, job, workerVars, issued, inbox, history>>

NoExpiry == TTL + 1

Init ==
    /\ status = "absent" /\ confirm = 0 /\ unsub = 0 /\ expires = NoExpiry
    /\ job = [j \in Jobs |-> Vacant("absent")]
    /\ pc = [w \in Workers |-> "idle"]
    /\ held = [w \in Workers |-> NoJob]
    /\ minted = [w \in Workers |-> 0]
    /\ issued = <<>> /\ inbox = {}
    /\ age = 0 /\ since = Cooldown + 1 /\ departed = 0 /\ told = FALSE

-----------------------------------------------------------------------------
\* Mutant of Upserted: every signup starts over.
UpsertedAfresh(s) == "pending"

\* UpsertSubscriber.
Upserted(s) == IF s = "confirmed" THEN "confirmed" ELSE "pending"

\* Mutant of OutsideCooldown: the comparison admits the end of the window.
OutsideCooldownTooSoon == expires = NoExpiry \/ expires <= TTL - Cooldown

\* ClaimConfirmationSend's condition: no request within the cooldown.
OutsideCooldown == expires = NoExpiry \/ expires < TTL - Cooldown

\* Subscribe by an address that is or becomes pending, outside the cooldown:
\* it claims the send and queues the job.
SubscribeAndSend ==
    /\ Upserted(status) = "pending" /\ OutsideCooldown
    /\ status' = "pending"
    /\ expires' = TTL
    /\ \E j \in Jobs :
         /\ job[j].state = "absent"
         /\ \A i \in 1..(j - 1) : job[i].state # "absent"
         /\ job' = [job EXCEPT ![j] = Enqueued]
    /\ since' = 0 /\ told' = FALSE
    /\ UNCHANGED <<confirm, unsub, workerVars, issued, inbox, age, departed>>

\* Subscribe by an address that is confirmed, or that asked moments ago.
SubscribeQuietly ==
    /\ status # "absent"
    /\ Upserted(status) = "pending" => ~ OutsideCooldown
    /\ status' = Upserted(status)
    /\ told' = FALSE
    /\ UNCHANGED <<confirm, unsub, expires, job, workerVars, issued, inbox,
                   age, since, departed>>

-----------------------------------------------------------------------------
Claim(w, j) ==
    /\ pc[w] = "idle" /\ Runnable(job[j])
    /\ job' = [job EXCEPT ![j] = Claimed(@)]
    /\ pc' = [pc EXCEPT ![w] = "issue"] /\ held' = [held EXCEPT ![w] = j]
    /\ UNCHANGED <<rowVars, minted, issued, inbox, history>>

\* What IssueSubscriberTokens writes, and what the worker keeps to mail.
StorePair(w) ==
    /\ issued' = Append(issued, departed)
    /\ confirm' = Len(issued') /\ unsub' = Len(issued') /\ expires' = TTL
    /\ minted' = [minted EXCEPT ![w] = Len(issued')]
    /\ age' = 0
    /\ pc' = [pc EXCEPT ![w] = "send"]
    /\ UNCHANGED <<status, job, held, inbox, since, departed, told>>

\* Mutant of IssueTokens: the statement lost its condition on the status.
IssueTokensAlways(w) == pc[w] = "issue" /\ StorePair(w)

\* SendConfirmationJob: a fresh pair for a subscriber who is still pending.
IssueTokens(w) == pc[w] = "issue" /\ status = "pending" /\ StorePair(w)

\* Confirmed or unsubscribed in the meantime: nothing to send.
NothingToSend(w) ==
    /\ pc[w] = "issue" /\ status # "pending"
    /\ pc' = [pc EXCEPT ![w] = "succeeded"]
    /\ UNCHANGED <<rowVars, job, held, minted, issued, inbox, history>>

\* Minting or storing the pair fails.
IssueFails(w) ==
    /\ pc[w] = "issue"
    /\ pc' = [pc EXCEPT ![w] = "failed"]
    /\ UNCHANGED <<rowVars, job, held, minted, issued, inbox, history>>

\* SMTPSender.Send: the message is accepted, or not; an error may be returned
\* although it was (QUIT fails, the reply or the deadline comes too late).
SendMail(w, accepted, result) ==
    /\ pc[w] = "send"
    /\ result = "succeeded" => accepted
    /\ inbox' = IF accepted THEN inbox \cup {minted[w]} ELSE inbox
    /\ pc' = [pc EXCEPT ![w] = result]
    /\ minted' = [minted EXCEPT ![w] = 0]
    /\ UNCHANGED <<rowVars, job, held, issued, history>>

\* Mutant of Record: a failed send counts as done.
RecordDone(w) ==
    /\ pc[w] \in {"succeeded", "failed"}
    /\ job' = [job EXCEPT ![held[w]] = Completed(@)]
    /\ pc' = [pc EXCEPT ![w] = "idle"] /\ held' = [held EXCEPT ![w] = NoJob]
    /\ UNCHANGED <<rowVars, minted, issued, inbox, history>>

\* CompleteJob or RetryJob.
Record(w) ==
    /\ pc[w] \in {"succeeded", "failed"}
    /\ job' = [job EXCEPT ![held[w]] =
                 IF pc[w] = "succeeded" THEN Completed(@) ELSE Retried(@, 0)]
    /\ pc' = [pc EXCEPT ![w] = "idle"] /\ held' = [held EXCEPT ![w] = NoJob]
    /\ UNCHANGED <<rowVars, minted, issued, inbox, history>>

\* The worker dies, or the result of the run cannot be recorded.
Crash(w) ==
    /\ pc[w] # "idle"
    /\ pc' = [pc EXCEPT ![w] = "idle"] /\ held' = [held EXCEPT ![w] = NoJob]
    /\ minted' = [minted EXCEPT ![w] = 0]
    /\ UNCHANGED <<rowVars, job, issued, inbox, history>>

Orphan(j) == job[j].state = "running" /\ \A w \in Workers : held[w] # j

Reap(j) ==
    /\ Orphan(j)
    /\ job' = [job EXCEPT ![j] = Reaped(@)]
    /\ UNCHANGED <<rowVars, workerVars, issued, inbox, history>>

-----------------------------------------------------------------------------
\* Mutant of LinkWorks: the expiry is not looked at.
LinkWorksForever(p) == confirm = p /\ status = "pending"

\* ConfirmSubscriber's condition.
LinkWorks(p) == confirm = p /\ status = "pending" /\ expires > 0

\* Confirm, with a link of the inbox.
Confirm(p) ==
    /\ LinkWorks(p)
    /\ status' = "confirmed" /\ confirm' = 0 /\ expires' = NoExpiry
    /\ age' = 0
    /\ UNCHANGED <<unsub, job, workerVars, issued, inbox, since, departed, told>>

\* Confirm with any other link changes nothing: errBadToken.

\* Mutant of Unsubscribe: the confirm token is not cleared.
UnsubscribeKeepsToken(p) ==
    /\ unsub = p /\ status # "unsubscribed"
    /\ status' = "unsubscribed" /\ expires' = NoExpiry
    /\ departed' = departed + 1 /\ told' = TRUE
    /\ UNCHANGED <<confirm, unsub, job, workerVars, issued, inbox, age, since>>

\* Unsubscribe with the link of the row's pair.
Unsubscribe(p) ==
    /\ unsub = p /\ status # "unsubscribed"
    /\ status' = "unsubscribed" /\ confirm' = 0 /\ expires' = NoExpiry
    /\ departed' = departed + 1 /\ age' = 0 /\ told' = TRUE
    /\ UNCHANGED <<unsub, job, workerVars, issued, inbox, since>>

\* Unsubscribe with any other link: success all the same.
UnsubscribeUnknown(p) ==
    /\ unsub = p => status = "unsubscribed"
    /\ told' = TRUE
    /\ UNCHANGED <<rowVars, job, workerVars, issued, inbox, age, since, departed>>

Older(n, cap) == IF n < cap THEN n + 1 ELSE cap

Tick ==
    /\ expires' = IF expires \in {0, NoExpiry} THEN expires ELSE expires - 1
    /\ age' = IF confirm # 0 THEN Older(age, TTL) ELSE 0
    /\ since' = Older(since, Cooldown + 1)
    /\ UNCHANGED <<status, confirm, unsub, job, workerVars, issued, inbox, departed, told>>

-----------------------------------------------------------------------------
Returns(w) ==
    \/ IssueTokens(w) \/ NothingToSend(w) \/ IssueFails(w)
    \/ \E accepted \in BOOLEAN, r \in {"succeeded", "failed"} :
         SendMail(w, accepted, r)

WorkerStep(w) ==
    \/ \E j \in Jobs : Claim(w, j)
    \/ Returns(w) \/ Record(w) \/ Crash(w)

Next ==
    \/ SubscribeAndSend \/ SubscribeQuietly
    \/ \E w \in Workers : WorkerStep(w)
    \/ \E j \in Jobs : Reap(j)
    \/ \E p \in inbox : Confirm(p) \/ Unsubscribe(p) \/ UnsubscribeUnknown(p)
    \/ Tick

Spec == Init /\ [][Next]_vars

\* Workers poll, their handlers return, the maintenance loop reaps.
FairSpec ==
    /\ Spec
    /\ \A w \in Workers :
         WF_vars(\E j \in Jobs : Claim(w, j)) /\ WF_vars(Returns(w)) /\ WF_vars(Record(w))
    /\ \A j \in Jobs : WF_vars(Reap(j))

-----------------------------------------------------------------------------
TypeOK ==
    /\ status \in {"absent", "pending", "confirmed", "unsubscribed"}
    /\ confirm \in 0..Len(issued) /\ unsub \in 0..Len(issued)
    /\ expires \in 0..NoExpiry
    /\ job \in [Jobs -> Row]
    /\ pc \in [Workers -> {"idle", "issue", "send", "succeeded", "failed"}]
    /\ held \in [Workers -> Jobs \cup {NoJob}]
    /\ minted \in [Workers -> 0..Len(issued)]
    /\ issued \in Seq(Nat) /\ inbox \subseteq 1..Len(issued)
    /\ age \in 0..TTL /\ since \in 0..(Cooldown + 1)
    /\ departed \in Nat /\ told \in BOOLEAN

\* A job will still send, or has given up; what an orphan becomes, the reaper
\* decides.
Outstanding == \E j \in Jobs : job[j].state \in {"queued", "running", "dead"}

(* The jobs, their retries and crashes, emails in any order, repeated signups and
   all links of the inbox together keep DoubleOptIn's promise ("a signup is pending
   until the emailed confirmation link is used", subscribers.go; "An
   already-confirmed address is left confirmed", subscribers.sql). *)
OptIn == INSTANCE DoubleOptIn WITH
           Links <- Nat \ {0}, NoLink <- 0,
           place <- CASE status = "pending" -> "asked" [] status = "confirmed" -> "on" [] OTHER -> "off",
           current <- unsub,
           fresh <- unsub # 0 /\ issued[unsub] = departed,
           issued <- DOMAIN issued, mailed <- inbox
KeepsOptIn == OptIn!Spec

(* The confirmation jobs live as JobLife says, however their runs end. *)
Life == INSTANCE JobLife WITH
          phase <- [j \in Jobs |-> job[j].state],
          runs  <- [j \in Jobs |-> job[j].attempts]
KeepsJobLife == Life!Spec

(* A confirmed subscriber can leave: the unsubscribe hash of a confirmed row is
   of a pair that reached the inbox, although jobs may re-issue pairs, and fail
   to mail them, around the confirmation (IssueSubscriberTokens: "for a
   still-pending subscriber"). *)
ConfirmedCanLeave == status = "confirmed" => unsub \in inbox

(* A departure is final for the links sent before it: a signup after
   unsubscribing is confirmed only by a pair issued since ("a signup is pending
   until the emailed confirmation link is used"), whatever jobs were running. *)
OldLinksAreDead ==
    [][status = "pending" /\ status' = "confirmed" => issued[confirm] = departed]_vars

(* Signups for one pending address queue one email per cooldown, although the
   clock it runs on, the expiry, is rewritten by the job meanwhile. *)
OneEmailPerCooldown ==
    [][\A j \in Jobs :
         status = "pending" /\ job[j].state = "absent" /\ job'[j].state = "queued"
            => since > Cooldown]_vars

(* "This link expires in 48 hours": a link older than that works only while a
   later signup's provisional expiry awaits its job (or that job is dead). *)
LinksExpire ==
    \A p \in inbox : LinkWorks(p) /\ age = TTL => Outstanding

(* A pending address that asked for an email ends up with the confirmation link that
   the table holds in its inbox, or moves on, or its job has used all its attempts. *)
EventuallyMailed ==
    status = "pending" ~>
        \/ confirm \in inbox \/ status # "pending"
        \/ \E j \in Jobs : job[j].state = "dead"

(* The "persistent one-click unsubscribe token" (00011_mailing_list.sql; the
   email's "remove your address now"): whoever used a link from the inbox and
   was told that it worked is off the list. *)
ToldMeansGone == told => status = "unsubscribed"
=============================================================================

------------------------------ MODULE Dispatch ------------------------------
(***************************************************************************)
(* The dispatch pipeline: jobs that send-batch puts on the BullMQ queue,   *)
(* the worker processes that take them, the steps of SendOneUseCase with   *)
(* every await a separate action, the quota counter today_usage they       *)
(* reserve from, the midnight reset, and the CRUD calls that change the    *)
(* rows a run has already read.                                            *)
(*                                                                         *)
(* A Sender stands for a ROW of sender_emails (a row deleted and created   *)
(* again has a new id), an Address for (user_id, email_address), a Job for *)
(* the jobId that send-batch gives it.                                     *)
(***************************************************************************)
EXTENDS Integers, Sequences, FiniteSets

CONSTANTS
  Workers,      (* Worker processes, each with BullMQ's concurrency of 1.  *)
  Senders,      (* Row identities of sender_emails.                        *)
  Addresses,    (* (user, mailbox address) pairs, unique among live rows.  *)
  Leads,        (* Rows of emails.                                         *)
  Jobs,         (* Dispatch jobs.                                          *)
  AddressOf,    (* The address of each row.                                *)
  JobAddress,   (* The sender address in each job's data.                  *)
  JobLead,      (* The emailId in each job's data, NoLead when absent.     *)
  NoLead,
  Null,         (* SQL NULL, and "nobody" for a lock or an idle worker.    *)
  Limits,       (* The daily limits a POST or PATCH may carry.             *)
  Attempts,     (* queue.module.ts: attempts per job, 3 in the code.       *)
  MaxStalls,    (* BullMQ maxStalledCount, 1 by default.                   *)
  MaxCopies,    (* Most mails one provider.send may hand over: its tries.  *)
  Faults,       (* Faults explored, of AllFaults.                          *)
  MaxUpsets     (* Bound on faults, CRUD calls and resets taken together.  *)

AllFaults == {"crash", "lockLoss", "db"}

ASSUME FiniteActors == IsFiniteSet(Workers)
ASSUME TypedMaps ==
  /\ AddressOf \in [Senders -> Addresses]
  /\ JobAddress \in [Jobs -> Addresses]
  /\ JobLead \in [Jobs -> Leads \cup {NoLead}]
  /\ Limits \subseteq Nat
ASSUME Sentinels ==
  /\ Null \notin Int /\ Null \notin Senders /\ Null \notin Jobs /\ Null \notin Workers
  /\ NoLead \notin Leads
ASSUME Bounds ==
  /\ Attempts \in Nat \ {0} /\ MaxCopies \in Nat \ {0}
  /\ MaxStalls \in Nat /\ MaxUpsets \in Nat
  /\ Faults \subseteq AllFaults

VARIABLES
  (* PostgreSQL *)
  row,       (* Sender -> its configuration columns.                       *)
  usage,     (* Sender -> today_usage, an integer or Null.                 *)
  lead,      (* Lead -> "fresh", "sent" or "gone".                         *)
  outbound,  (* Job -> outbound email_messages rows written for it.        *)
  (* Redis *)
  queue,     (* Job -> its state in the queue.                             *)
  (* Processes *)
  pc,        (* Worker -> the await its current execute() is about to do.  *)
  hold,      (* Worker -> what its quota reservation is worth.             *)
  run,       (* Worker -> the job, and the row as it was looked up.        *)
  (* The provider *)
  late,      (* Job -> rows whose abandoned tries may still hand over.     *)
  (* History: what the properties need and the code does not keep.         *)
  mail,      (* Job -> mails the provider accepted for it.                 *)
  skipped,   (* Jobs whose quota reservation was refused (the metric).     *)
  accepted,  (* Sender -> mails accepted since the last reset.             *)
  leaked,    (* Sender -> slots still counted that no run will return.     *)
  excess,    (* Sender -> slots returned or never taken for accepted mail. *)
  peak,      (* Sender -> the highest daily limit the row has had.         *)
  upsets     (* Faults, CRUD calls and resets so far.                      *)

senderVars  == <<row, peak>>
leadVars    == <<lead, outbound>>
ledgerVars  == <<accepted, leaked, excess>>
workerVars  == <<pc, hold, run>>
deliveryVars == <<late, mail, skipped>>
vars == <<row, usage, lead, outbound, queue, pc, hold, run, late, mail, skipped,
          accepted, leaked, excess, peak, upsets>>

-----------------------------------------------------------------------------
(* State *)

Steps == {"idle", "lookup", "reserve", "template", "send", "persist",
          "finish", "rollback", "fail"}

\* "fresh": counted in today_usage, no mail accepted for it yet. "spent": a mail was
\* accepted for it. "stale": a reset has wiped it from today_usage.
Holds == {"none", "fresh", "spent", "stale"}

\* sender, limit and backed are the columns of the row as findByAddressForUser
\* returned them; they are never read again.
Run == [job: Jobs \cup {Null}, sender: Senders \cup {Null}, limit: Nat, backed: BOOLEAN]

NoRun == [job |-> Null, sender |-> Null, limit |-> 0, backed |-> FALSE]

\* backed: provider is one of PROVIDER_NAMES. stocked: the user has a template
\* for the row's platform or for 'any'.
Row == [phase: {"unborn", "live", "deleted"}, limit: Nat,
        backed: BOOLEAN, stocked: BOOLEAN]

Entry == [status: {"absent", "waiting", "active", "completed", "failed"},
          made: 0..Attempts, stalls: 0..(MaxStalls + 1),
          owner: Workers \cup {Null}]

\* The rows of tries that were given up, one entry for each; k more; all but the i-th.
Tries == Seq(Senders)
With(q, s, k) == q \o [i \in 1..k |-> s]
Without(q, i) == SubSeq(q, 1, i - 1) \o SubSeq(q, i + 1, Len(q))

Live(s) == row[s].phase = "live"
Metered(s) == Live(s) /\ usage[s] # Null

Unborn == [phase |-> "unborn", limit |-> 0, backed |-> FALSE, stocked |-> FALSE]
NotQueued == [status |-> "absent", made |-> 0, stalls |-> 0, owner |-> Null]

\* Rows migrated from the legacy system carry a number in today_usage (0 here:
\* the day begins with the model); rows this backend creates carry NULL. Rows of
\* different senders never share an address.
Init ==
  /\ row \in [Senders -> {Unborn} \cup
                [phase: {"live"}, limit: Limits, backed: BOOLEAN, stocked: BOOLEAN]]
  /\ \A s, t \in Senders: Live(s) /\ Live(t) /\ AddressOf[s] = AddressOf[t] => s = t
  /\ usage = [s \in Senders |-> IF Live(s) THEN 0 ELSE Null]
  /\ lead = [l \in Leads |-> "fresh"]
  /\ outbound = [j \in Jobs |-> 0]
  /\ queue = [j \in Jobs |-> NotQueued]
  /\ pc = [w \in Workers |-> "idle"]
  /\ hold = [w \in Workers |-> "none"]
  /\ run = [w \in Workers |-> NoRun]
  /\ late = [j \in Jobs |-> <<>>]
  /\ mail = [j \in Jobs |-> 0]
  /\ skipped = {}
  /\ accepted = [s \in Senders |-> 0]
  /\ leaked = [s \in Senders |-> 0]
  /\ excess = [s \in Senders |-> 0]
  /\ peak = [s \in Senders |-> row[s].limit]
  /\ upsets = 0

-----------------------------------------------------------------------------
(* The queue *)

\* Something the workers do not control happens.
Upset == upsets < MaxUpsets /\ upsets' = upsets + 1
Fault(kind) == kind \in Faults /\ Upset
Calm == UNCHANGED upsets

Goto(w, step) == pc' = [pc EXCEPT ![w] = step]

\* send-batch.use-case.ts: one addBulk adds every job of the batch. A job's delay
\* only orders it among the waiting ones, which Take leaves free.
Submit(S) ==
  /\ S # {}
  /\ \A j \in S: queue[j].status = "absent"
  /\ queue' = [j \in Jobs |-> IF j \in S THEN [queue[j] EXCEPT !.status = "waiting"]
                                         ELSE queue[j]]
  /\ UNCHANGED <<usage, workerVars, senderVars, leadVars, ledgerVars, deliveryVars, upsets>>

\* BullMQ moveToActive: the worker gets the job and its lock.
Take(w, j) ==
  /\ pc[w] = "idle"
  /\ queue[j].status = "waiting"
  /\ queue' = [queue EXCEPT ![j].status = "active", ![j].owner = w]
  /\ run' = [run EXCEPT ![w].job = j]
  /\ Goto(w, "lookup")
  /\ UNCHANGED <<usage, hold, senderVars, leadVars, ledgerVars, deliveryVars, upsets>>

\* A run that ends with its reservation still counted leaves the slot used: no
\* code path returns it before the midnight reset.
Abandon(w) ==
  /\ leaked' = IF hold[w] = "fresh"
               THEN [leaked EXCEPT ![run[w].sender] = @ + 1] ELSE leaked
  /\ hold' = [hold EXCEPT ![w] = "none"]

-----------------------------------------------------------------------------
(* SendOneUseCase.execute, one action per await *)

Lookup(w) ==
  /\ pc[w] = "lookup"
  /\ \/ \E s \in Senders:
          /\ Live(s) /\ AddressOf[s] = JobAddress[run[w].job]
          /\ run' = [run EXCEPT ![w] = [job |-> run[w].job, sender |-> s,
                       limit |-> row[s].limit, backed |-> row[s].backed]]
          /\ Goto(w, "reserve")
          /\ Calm
     \/ /\ \/ Fault("db")
           \/ /\ ~ \E s \in Senders: Live(s) /\ AddressOf[s] = JobAddress[run[w].job]
              /\ Calm
        /\ Goto(w, "fail")
        /\ UNCHANGED run
  /\ UNCHANGED <<usage, queue, hold, senderVars, leadVars, ledgerVars, deliveryVars>>

\* where { id, todayUsage: { lt: sender.dailyLimit } }: no row matches when the row
\* is gone or today_usage is NULL.
QuotaOpenLax(w) ==
  LET s == run[w].sender IN Metered(s) /\ usage[s] <= run[w].limit
QuotaOpen(w) ==
  LET s == run[w].sender IN Metered(s) /\ usage[s] < run[w].limit

CountedNot(s) == usage[s]
Counted(s) == usage[s] + 1

\* The atomic updateMany. A lost answer is an error to the caller whether or not
\* the increment took place.
Reserve(w) ==
  LET s == run[w].sender IN
  /\ pc[w] = "reserve"
  /\ \/ /\ QuotaOpen(w)
        /\ usage' = [usage EXCEPT ![s] = Counted(s)]
        /\ \/ /\ Calm
              /\ Goto(w, "template")
              /\ hold' = [hold EXCEPT ![w] = "fresh"]
              /\ UNCHANGED leaked
           \/ /\ Fault("db")
              /\ Goto(w, "fail")
              /\ leaked' = [leaked EXCEPT ![s] = @ + 1]
              /\ UNCHANGED hold
        /\ UNCHANGED skipped
     \/ /\ ~ QuotaOpen(w)
        /\ Calm
        /\ skipped' = skipped \cup {run[w].job}
        /\ Goto(w, "finish")
        /\ UNCHANGED <<usage, hold, leaked>>
     \/ /\ Fault("db")
        /\ Goto(w, "fail")
        /\ UNCHANGED <<usage, hold, leaked, skipped>>
  /\ UNCHANGED <<queue, run, late, mail, accepted, excess, senderVars, leadVars>>

\* pickRandomVariant and the PROVIDER_NAMES test: both throw after the reservation
\* and outside the try block that returns it.
PickTemplate(w) ==
  /\ pc[w] = "template"
  /\ \/ /\ row[run[w].sender].stocked /\ run[w].backed
        /\ Calm
        /\ Goto(w, "send")
        /\ UNCHANGED <<hold, leaked>>
     \/ /\ \/ Fault("db")
           \/ (~ row[run[w].sender].stocked \/ ~ run[w].backed) /\ Calm
        /\ Abandon(w)
        /\ Goto(w, "fail")
  /\ UNCHANGED <<usage, queue, run, accepted, excess, senderVars, leadVars, deliveryVars>>

AfterSendLax(ok) == "persist"
AfterSend(ok) == IF ok THEN "persist" ELSE "rollback"

\* provider.send: n mails are handed over before it answers, and it may throw all the
\* same. The timeout abandons a try without stopping it: k tries run on.
SendMail(w, n, k, ok) ==
  LET j == run[w].job
      s == run[w].sender
      covered == IF hold[w] = "fresh" /\ n > 0 THEN 1 ELSE 0
  IN
  /\ pc[w] = "send"
  /\ n + k <= MaxCopies
  /\ ok => n > 0
  /\ mail' = [mail EXCEPT ![j] = @ + n]
  /\ late' = [late EXCEPT ![j] = With(@, s, k)]
  /\ accepted' = [accepted EXCEPT ![s] = @ + n]
  /\ excess' = [excess EXCEPT ![s] = @ + n - covered]
  /\ hold' = IF covered = 1 THEN [hold EXCEPT ![w] = "spent"] ELSE hold
  /\ Goto(w, AfterSend(ok))
  /\ UNCHANGED <<usage, queue, run, leaked, skipped, senderVars, leadVars, upsets>>

\* An abandoned try hands its mail over after all, whatever has become of the job, the
\* row and the reservation; of a process that died, a request that was already out. Or
\* it never does. No slot covers such a mail.
HandOverLate(j) ==
  /\ \E i \in 1..Len(late[j]):
       /\ late' = [late EXCEPT ![j] = Without(@, i)]
       /\ accepted' = [accepted EXCEPT ![late[j][i]] = @ + 1]
       /\ excess' = [excess EXCEPT ![late[j][i]] = @ + 1]
  /\ mail' = [mail EXCEPT ![j] = @ + 1]
  /\ UNCHANGED <<usage, queue, workerVars, leaked, skipped, senderVars, leadVars, upsets>>

\* The transaction of persistOutbound fails when the lead's row is gone (P2025) or
\* the sender's row is (foreign key), and when the database does.
CanPersist(w) == lead[JobLead[run[w].job]] # "gone" /\ Live(run[w].sender)

AfterFailedPersistLax == "finish"
AfterFailedPersist == "rollback"

Persist(w) ==
  LET j == run[w].job IN
  /\ pc[w] = "persist"
  /\ \/ /\ JobLead[j] = NoLead
        /\ Calm
        /\ Goto(w, "finish")
        /\ UNCHANGED leadVars
     \/ /\ JobLead[j] # NoLead /\ CanPersist(w)
        /\ lead' = [lead EXCEPT ![JobLead[j]] = "sent"]
        /\ outbound' = [outbound EXCEPT ![j] = @ + 1]
        /\ \/ Calm /\ Goto(w, "finish")
           \/ Fault("db") /\ Goto(w, AfterFailedPersist)
     \/ /\ JobLead[j] # NoLead
        /\ (~ CanPersist(w) /\ Calm) \/ Fault("db")
        /\ Goto(w, AfterFailedPersist)
        /\ UNCHANGED leadVars
  /\ UNCHANGED <<usage, queue, hold, run, senderVars, ledgerVars, deliveryVars>>

ReturnedClamped(s) == IF usage[s] > 0 THEN usage[s] - 1 ELSE usage[s]
Returned(s) == usage[s] - 1

\* The catch block: an unconditional decrement, whatever the reservation is worth
\* by now. It throws itself when the row is gone.
Rollback(w) ==
  LET s == run[w].sender IN
  /\ pc[w] = "rollback"
  /\ Goto(w, "fail")
  /\ \/ /\ Live(s)
        /\ Calm
        /\ usage' = [usage EXCEPT ![s] = Returned(s)]
        /\ excess' = IF hold[w] = "fresh" THEN excess
                     ELSE [excess EXCEPT ![s] = @ + 1]
        /\ hold' = [hold EXCEPT ![w] = "none"]
        /\ UNCHANGED leaked
     \/ /\ (~ Live(s) /\ Calm) \/ Fault("db")
        /\ Abandon(w)
        /\ UNCHANGED <<usage, excess>>
  /\ UNCHANGED <<queue, run, accepted, senderVars, leadVars, deliveryVars>>

-----------------------------------------------------------------------------
(* How a run ends *)

\* The worker forgets the job, its lookup and its reservation.
Leave(w) ==
  /\ Goto(w, "idle")
  /\ run' = [run EXCEPT ![w] = NoRun]

\* moveToCompleted: refused without the lock.
Finish(w) ==
  LET j == run[w].job IN
  /\ pc[w] = "finish"
  /\ queue' = IF queue[j].owner = w
              THEN [queue EXCEPT ![j].status = "completed", ![j].owner = Null]
              ELSE queue
  /\ hold' = [hold EXCEPT ![w] = "none"]
  /\ Leave(w)
  /\ UNCHANGED <<usage, senderVars, leadVars, ledgerVars, deliveryVars, upsets>>

RetriesLax(j) == queue[j].made + 1 <= Attempts
Retries(j) == queue[j].made + 1 < Attempts

\* moveToFailed: back to the (delayed, here waiting) jobs while attempts are left.
FailAttempt(w) ==
  LET j == run[w].job IN
  /\ pc[w] = "fail"
  /\ queue' = IF queue[j].owner = w
              THEN [queue EXCEPT ![j].status = IF Retries(j) THEN "waiting" ELSE "failed",
                                 ![j].made = @ + 1, ![j].owner = Null]
              ELSE queue
  /\ Leave(w)
  /\ UNCHANGED <<usage, hold, senderVars, leadVars, ledgerVars, deliveryVars, upsets>>

\* The process dies between two awaits and starts again with nothing in memory.
Crash(w) ==
  /\ Fault("crash")
  /\ pc[w] # "idle"
  /\ Abandon(w)
  /\ Leave(w)
  /\ UNCHANGED <<usage, queue, accepted, excess, senderVars, leadVars, deliveryVars>>

OrphanedInverted(j) == run[queue[j].owner].job = j
Orphaned(j) == run[queue[j].owner].job # j

StallsOutLax(j) == queue[j].stalls > MaxStalls
StallsOut(j) == queue[j].stalls >= MaxStalls

\* BullMQ's stalled check: a job whose lock was not renewed goes back to waiting,
\* or fails once it has stalled too often. The lock lapses when its holder died,
\* and ("lockLoss") when a live holder's event loop was blocked for too long.
StallCheck(j) ==
  /\ queue[j].status = "active"
  /\ (Orphaned(j) /\ Calm) \/ Fault("lockLoss")
  /\ queue' = [queue EXCEPT ![j].status = IF StallsOut(j) THEN "failed" ELSE "waiting",
                            ![j].stalls = @ + 1, ![j].owner = Null]
  /\ UNCHANGED <<usage, workerVars, senderVars, leadVars, ledgerVars, deliveryVars>>

-----------------------------------------------------------------------------
(* The midnight reset and the CRUD calls *)

\* updateMany where todayUsage > 0: NULL and negative values stay. In the ledger a
\* new day starts: reservations in flight are no longer counted, and a negative
\* counter is capacity beyond the limit.
ResetUsage(s) == IF usage[s] # Null /\ usage[s] > 0 THEN 0 ELSE usage[s]

ResetDailyUsage ==
  /\ Upset
  /\ usage' = [s \in Senders |-> ResetUsage(s)]
  /\ hold' = [w \in Workers |-> IF hold[w] = "none" THEN "none" ELSE "stale"]
  /\ accepted' = [s \in Senders |-> 0]
  /\ leaked' = [s \in Senders |-> 0]
  /\ excess' = [s \in Senders |-> IF usage[s] # Null /\ usage[s] < 0 THEN -usage[s] ELSE 0]
  /\ UNCHANGED <<queue, pc, run, senderVars, leadVars, deliveryVars>>

\* SendersService.create: today_usage is not in the schema and has no default.
CreateSender(s, n, b) ==
  /\ Upset
  /\ row[s].phase = "unborn"
  /\ ~ \E t \in Senders: Live(t) /\ AddressOf[t] = AddressOf[s]
  /\ row' = [row EXCEPT ![s].phase = "live", ![s].limit = n, ![s].backed = b]
  /\ peak' = [peak EXCEPT ![s] = n]
  /\ UNCHANGED <<usage, queue, workerVars, leadVars, ledgerVars, deliveryVars>>

\* PATCH /senders/:id with dailyLimit and provider.
UpdateSender(s, n, b) ==
  /\ Upset
  /\ Live(s)
  /\ row' = [row EXCEPT ![s].limit = n, ![s].backed = b]
  /\ peak' = [peak EXCEPT ![s] = IF n > @ THEN n ELSE @]
  /\ UNCHANGED <<usage, queue, workerVars, leadVars, ledgerVars, deliveryVars>>

DeleteSender(s) ==
  /\ Upset
  /\ Live(s)
  /\ row' = [row EXCEPT ![s].phase = "deleted"]
  /\ UNCHANGED <<usage, queue, workerVars, peak, leadVars, ledgerVars, deliveryVars>>

\* POST, PATCH and DELETE on /templates, as far as a sender's platform sees them.
ChangeTemplates(s) ==
  /\ Upset
  /\ row[s].phase # "deleted"
  /\ row' = [row EXCEPT ![s].stocked = ~ @]
  /\ UNCHANGED <<usage, queue, workerVars, peak, leadVars, ledgerVars, deliveryVars>>

\* DELETE /leads/:id; its email_messages go with it (ON DELETE CASCADE).
DeleteLead(l) ==
  /\ Upset
  /\ lead[l] # "gone"
  /\ lead' = [lead EXCEPT ![l] = "gone"]
  /\ outbound' = [j \in Jobs |-> IF JobLead[j] = l THEN 0 ELSE outbound[j]]
  /\ UNCHANGED <<usage, queue, workerVars, senderVars, ledgerVars, deliveryVars>>

-----------------------------------------------------------------------------
(* Specification *)

Step(w) ==
  \/ Lookup(w) \/ Reserve(w) \/ PickTemplate(w)
  \/ \E n, k \in 0..MaxCopies, ok \in BOOLEAN: SendMail(w, n, k, ok)
  \/ Persist(w) \/ Rollback(w) \/ Finish(w) \/ FailAttempt(w)

Api ==
  \/ \E S \in SUBSET Jobs: Submit(S)
  \/ \E s \in Senders, n \in Limits, b \in BOOLEAN: CreateSender(s, n, b) \/ UpdateSender(s, n, b)
  \/ \E s \in Senders: DeleteSender(s) \/ ChangeTemplates(s)
  \/ \E l \in Leads: DeleteLead(l)

Next ==
  \/ \E w \in Workers: Step(w) \/ Crash(w)
  \/ \E w \in Workers, j \in Jobs: Take(w, j)
  \/ \E j \in Jobs: StallCheck(j) \/ HandOverLate(j)
  \/ ResetDailyUsage
  \/ Api

Spec == Init /\ [][Next]_vars

\* Every await of a live process returns (the provider call by its 15 s timeout,
\* the database call with an answer or an error), workers keep polling the queue,
\* and BullMQ runs its stalled check periodically. Nothing is assumed of the API,
\* of abandoned tries, of crashes or of the cron.
Fairness ==
  /\ \A w \in Workers: WF_vars(Step(w))
  /\ \A j \in Jobs: WF_vars(\E w \in Workers: Take(w, j)) /\ WF_vars(StallCheck(j))

FairSpec == Spec /\ Fairness

-----------------------------------------------------------------------------
(* Properties *)

\* Every variable keeps its type; in particular BullMQ's counters never pass the
\* configured attempts and stalls.
TypeOK ==
  /\ row \in [Senders -> Row]
  /\ usage \in [Senders -> Int \cup {Null}]
  /\ lead \in [Leads -> {"fresh", "sent", "gone"}]
  /\ outbound \in [Jobs -> Nat]
  /\ queue \in [Jobs -> Entry]
  /\ pc \in [Workers -> Steps]
  /\ hold \in [Workers -> Holds]
  /\ run \in [Workers -> Run]
  /\ late \in [Jobs -> Tries]
  /\ mail \in [Jobs -> Nat]
  /\ skipped \subseteq Jobs
  /\ accepted \in [Senders -> Nat]
  /\ leaked \in [Senders -> Nat]
  /\ excess \in [Senders -> Nat]
  /\ peak \in [Senders -> Nat]
  /\ upsets \in Nat

\* The reservation never counts a sender beyond a limit its row has had, whatever
\* the workers, a PATCH between lookup and reservation, and the reset do
\* (send-one L33-36).
UsageBounded == \A s \in Senders: Metered(s) => usage[s] <= peak[s]

Unspent(s) == {w \in Workers: hold[w] = "fresh" /\ run[w].sender = s}

\* The counter's exact meaning: mails accepted today, plus reservations in flight,
\* plus leaked slots, minus slots returned or never taken for accepted mail. No
\* interleaving of reservations, rollbacks, crashes and resets loses track.
Ledger == \A s \in Senders: Metered(s) =>
  usage[s] = accepted[s] + Cardinality(Unspent(s)) + leaked[s] - excess[s]

\* What a day's over-sending can come from: a sender goes over its limit by no more
\* than the slots the rollback gave back for mail already accepted, the ones a
\* reset wiped under a running send, and the provider's extra copies, late ones included.
OversendBounded == \A s \in Senders: Metered(s) => accepted[s] <= peak[s] + excess[s]

\* The lead of one job receives at most this many copies, over retries, stalls,
\* crashes, zombie runs that lost their lock and tries that were given up.
DuplicatesBounded == \A j \in Jobs: mail[j] <= (Attempts + MaxStalls) * MaxCopies

\* A job is completed only by an execute() that was refused the quota, or that
\* handed the mail over and recorded it on a lead that still exists.
CompletedMeansRecorded ==
  \A j \in Jobs: queue[j].status = "completed" /\ j \notin skipped =>
    /\ mail[j] > 0
    /\ JobLead[j] # NoLead => \/ lead[JobLead[j]] = "gone"
                              \/ lead[JobLead[j]] = "sent" /\ outbound[j] > 0

\* The message history never shows a mail that no provider accepted.
HistoryIsReal == \A j \in Jobs: outbound[j] <= mail[j]

\* Once submitted, a job ends completed or failed: no crash, stall or retry leaves
\* it in the queue for ever.
SubmittedJobsSettle ==
  \A j \in Jobs: queue[j].status = "waiting" ~> queue[j].status \in {"completed", "failed"}

\* What send-one's catch block says of itself (L85-86): failed attempts do not
\* consume the budget. With nobody at work, nothing is counted that was not sent.
FailedAttemptsReturnQuota ==
  (\A w \in Workers: pc[w] = "idle") =>
    \A s \in Senders: Metered(s) => usage[s] <= accepted[s]

\* What the reservation says of itself (send-one L30-32) and README L104: a sender
\* does not go over its daily limit.
NeverOverLimit == \A s \in Senders: Metered(s) => accepted[s] <= peak[s]

\* What the reservation says of a count of 0 (send-one L31): the slot was already
\* consumed. So a live row that refuses a reservation has used its limit.
SkipMeansSpent ==
  [][\A w \in Workers:
       pc[w] = "reserve" /\ pc'[w] = "finish" /\ Live(run[w].sender)
         => usage[run[w].sender] # Null /\ usage[run[w].sender] >= run[w].limit]_vars

-----------------------------------------------------------------------------
(* What the queue promises to whoever submits a job. *)

Phase(j) ==
  IF queue[j].status \in {"waiting", "active"} THEN "pending"
  ELSE IF queue[j].status = "completed" THEN "done" ELSE queue[j].status

Delivery == INSTANCE JobDelivery WITH
  MaxHandovers <- (Attempts + MaxStalls) * MaxCopies,
  phase <- [j \in Jobs |-> Phase(j)],
  copies <- mail,
  open <- [j \in Jobs |-> Len(late[j])],
  declined <- skipped

\* While locks are kept, the dispatch pipeline implements JobDelivery: tries to hand a
\* job over begin only between its submission and its one final outcome, and what is
\* handed over later is a try that was under way by then.
ImplementsJobDelivery == Delivery!Spec
=============================================================================

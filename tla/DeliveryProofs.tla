--------------------------- MODULE DeliveryProofs ---------------------------
(***************************************************************************)
(* What the dispatch queue and the tables promise of a job, proved for     *)
(* every instance, with crashes, lost answers, runs without a lock and     *)
(* deleted rows: a bound on the mails handed over for it; while BullMQ's   *)
(* locks are kept, the contract JobDelivery; a completed job was sent and  *)
(* recorded, and nothing is recorded that was not sent.                    *)
(***************************************************************************)
EXTENDS DispatchProofs

-----------------------------------------------------------------------------
(* The number of hand-overs *)

\* The runs on job j that have yet to call the provider, zombies included.
Pending(j) == {w \in Workers: run[w].job = j /\ pc[w] \in {"lookup", "reserve", "template", "send"}}

\* How often a job was taken: once per failed attempt, per stall, and for the
\* attempt that is under way or that completed it.
Starts(j) == queue[j].made + queue[j].stalls
             + (IF queue[j].status \in {"active", "completed"} THEN 1 ELSE 0)

\* Tries given up that may still hand over; with them, the mails of a job.
Open(j) == Len(late[j])
Copies(j) == mail[j] + Open(j)

\* Every mail, sent or yet to be sent, is paid for by a start.
Budgeted(j) == Copies(j) + MaxCopies * Cardinality(Pending(j)) <= MaxCopies * Starts(j)

Budget == \A j \in Jobs: Budgeted(j)

LEMMA CopiesCounted ==
  ASSUME Shape, NEW j \in Jobs
  PROVE  Copies(j) \in Nat /\ mail[j] \in Nat /\ Open(j) \in Nat
<1>1. mail[j] \in Nat /\ late[j] \in Seq(Senders)
  BY DEF Shape, TypeOK, Tries
<1>2. Open(j) \in Nat
  BY <1>1, LenProperties DEF Open
<1>3. QED
  BY <1>1, <1>2 DEF Copies

\* What a send adds to a job's mails and to its tries that were given up.
LEMMA SendAdds ==
  ASSUME Shape, NEW w \in Workers, NEW n \in 0..MaxCopies, NEW k \in 0..MaxCopies,
         NEW ok \in BOOLEAN, SendMail(w, n, k, ok), NEW j \in Jobs
  PROVE  /\ run[w].job \in Jobs /\ n \in Nat /\ k \in Nat /\ n + k <= MaxCopies
         /\ run[w].job = j => /\ mail'[j] = mail[j] + n /\ Open(j)' = Open(j) + k
                              /\ Copies(j)' = Copies(j) + (n + k)
         /\ run[w].job # j => UNCHANGED <<mail[j], Open(j), Copies(j)>>
<1>1. /\ run[w].job \in Jobs /\ run[w].sender \in Senders
      /\ n \in Nat /\ k \in Nat /\ n + k <= MaxCopies
  BY Bounds DEF SendMail, Shape, RunsOK, RunShape
<1>2. /\ late[j] \in Tries /\ mail[j] \in Nat /\ Open(j) \in Nat
      /\ late \in [Jobs -> Tries] /\ mail \in [Jobs -> Nat]
  BY CopiesCounted DEF Shape, TypeOK
<1>3. /\ late' = [late EXCEPT ![run[w].job] = With(late[run[w].job], run[w].sender, k)]
      /\ mail' = [mail EXCEPT ![run[w].job] = mail[run[w].job] + n]
  BY DEF SendMail
<1>4. Copies(j)' = mail'[j] + Open(j)' /\ Copies(j) = mail[j] + Open(j)
  BY DEF Copies
<1>5. CASE run[w].job = j
  <2>1. late'[j] = With(late[j], run[w].sender, k) /\ mail'[j] = mail[j] + n
    BY <1>1, <1>2, <1>3, <1>5
  <2>2. Len(With(late[j], run[w].sender, k)) = Len(late[j]) + k
    BY <1>1, <1>2, LateGrows
  <2>3. Open(j)' = Open(j) + k
    BY <2>1, <2>2 DEF Open
  <2>4. Copies(j)' = Copies(j) + (n + k)
    BY <1>1, <1>2, <1>4, <2>1, <2>3
  <2>5. QED
    BY <1>1, <1>5, <2>1, <2>3, <2>4
<1>6. CASE run[w].job # j
  <2>1. late'[j] = late[j] /\ mail'[j] = mail[j]
    BY <1>2, <1>3, <1>6
  <2>2. Open(j)' = Open(j)
    BY <2>1 DEF Open
  <2>3. QED
    BY <1>1, <1>4, <1>6, <2>1, <2>2
<1>7. QED
  BY <1>5, <1>6

\* A late hand-over turns a try that was given up into a mail.
LEMMA LateCounts ==
  ASSUME Shape, NEW i \in Jobs, HandOverLate(i), NEW j \in Jobs
  PROVE  /\ mail'[j] \in Nat /\ mail'[j] >= mail[j]
         /\ i = j => Open(j) > 0 /\ Open(j)' = Open(j) - 1
         /\ i # j => Open(j)' = Open(j)
         /\ Copies(j)' = Copies(j)
<1>1. /\ late \in [Jobs -> Tries] /\ mail \in [Jobs -> Nat]
      /\ mail[j] \in Nat /\ Open(j) \in Nat
  BY CopiesCounted DEF Shape, TypeOK
<1>2. mail' = [mail EXCEPT ![i] = mail[i] + 1]
  BY DEF HandOverLate
<1>3. Copies(j)' = mail'[j] + Open(j)' /\ Copies(j) = mail[j] + Open(j)
  BY DEF Copies
<1>4. CASE i = j
  <2>1. PICK x \in 1..Len(late[j]): late' = [late EXCEPT ![j] = Without(late[j], x)]
    BY <1>4 DEF HandOverLate
  <2>2. late[j] \in Tries /\ late'[j] = Without(late[j], x)
    BY <1>1, <2>1
  <2>3. Len(Without(late[j], x)) = Len(late[j]) - 1
    BY <2>2, LateShrinks
  <2>4. Open(j) > 0
    BY <1>1, <2>1 DEF Open
  <2>5. Open(j)' = Open(j) - 1
    BY <2>2, <2>3 DEF Open
  <2>6. mail'[j] = mail[j] + 1
    BY <1>1, <1>2, <1>4
  <2> HIDE <2>1
  <2>7. QED
    BY <1>1, <1>3, <1>4, <2>4, <2>5, <2>6
<1>5. CASE i # j
  <2>1. late'[j] = late[j]
    BY <1>1, <1>5 DEF HandOverLate
  <2>2. Open(j)' = Open(j)
    BY <2>1 DEF Open
  <2>3. mail'[j] = mail[j]
    BY <1>1, <1>2, <1>5
  <2>4. QED
    BY <1>1, <1>3, <1>5, <2>2, <2>3
<1>6. QED
  BY <1>4, <1>5

LEMMA PendingFinite ==
  ASSUME NEW j
  PROVE  IsFiniteSet(Pending(j)) /\ Cardinality(Pending(j)) \in Nat
<1>1. Pending(j) \subseteq Workers
  BY DEF Pending
<1>2. QED
  BY <1>1, FiniteActors, FS_Subset, FS_CardinalityType

\* One worker's step changes the number of pending runs by that worker alone.
LEMMA PendingStep ==
  ASSUME NEW j, NEW w \in Workers,
         \A v \in Workers: v # w => (v \in Pending(j)' <=> v \in Pending(j))
  PROVE  Cardinality(Pending(j))' = Cardinality(Pending(j))
           + (IF w \in Pending(j)' THEN 1 ELSE 0) - (IF w \in Pending(j) THEN 1 ELSE 0)
<1> DEFINE before == Pending(j)
           after == Pending(j)'
<1>1. before \subseteq Workers /\ after \subseteq Workers
  BY DEF Pending
<1>2. IsFiniteSet(before) /\ Cardinality(before) \in Nat
  BY PendingFinite
<1>3. CASE w \in after <=> w \in before
  <2>1. after = before
    BY <1>1, <1>3
  <2>2. QED
    BY <1>2, <1>3, <2>1
<1>4. CASE w \in after /\ w \notin before
  <2>1. after = before \cup {w}
    BY <1>1, <1>4
  <2>2. Cardinality(after) = Cardinality(before) + 1
    BY <1>2, <1>4, <2>1, FS_AddElement
  <2>3. QED
    BY <1>2, <1>4, <2>2
<1>5. CASE w \notin after /\ w \in before
  <2>1. after = before \ {w}
    BY <1>1, <1>5
  <2>2. Cardinality(after) = Cardinality(before) - 1
    BY <1>2, <1>5, <2>1, FS_RemoveElement
  <2>3. QED
    BY <1>2, <1>5, <2>2
<1>6. QED
  BY <1>3, <1>4, <1>5

LEMMA Scales ==
  ASSUME NEW c \in Nat, NEW x \in Nat, NEW y \in Nat, x <= y
  PROVE  c * x <= c * y
<1>1. PICK d \in Nat: y = x + d
  <2>1. y - x \in Nat /\ y = x + (y - x)
    OBVIOUS
  <2>2. QED
    BY <2>1
<1>2. c * y = c * x + c * d
  BY <1>1
<1>3. c * x \in Nat /\ c * d \in Nat
  OBVIOUS
<1>4. QED
  BY <1>2, <1>3

\* The arithmetic of a budget that a step does not overdraw.
LEMMA BudgetArithmetic ==
  ASSUME NEW c \in Nat, NEW m \in Nat, NEW n \in 0..c, NEW p \in Nat, NEW q \in Nat, NEW s \in Nat,
         m + c * p <= c * s
  PROVE  /\ q <= p => m + c * q <= c * s
         /\ q <= p - 1 => m + n + c * q <= c * s
         /\ q <= p + 1 => m + c * q <= c * (s + 1)
<1>1. ASSUME NEW x \in Nat, NEW y \in Nat, x <= y PROVE c * x <= c * y
  BY <1>1, Scales
<1>2. q <= p => m + c * q <= c * s
  BY <1>1
<1>3. q <= p - 1 => m + n + c * q <= c * s
  <2>1. q + 1 <= p => c * (q + 1) <= c * p
    BY <1>1
  <2>2. c * (q + 1) = c * q + c
    OBVIOUS
  <2>3. QED
    BY <2>1, <2>2
<1>4. q <= p + 1 => m + c * q <= c * (s + 1)
  <2>1. q <= p + 1 => c * q <= c * (p + 1)
    BY <1>1
  <2>2. c * (p + 1) = c * p + c /\ c * (s + 1) = c * s + c
    OBVIOUS
  <2>3. QED
    BY <2>1, <2>2
<1>5. QED
  BY <1>2, <1>3, <1>4

LEMMA StartsBounded ==
  ASSUME Shape, NEW j \in Jobs
  PROVE  Starts(j) \in Nat /\ Starts(j) <= Attempts + MaxStalls
<1>1. queue[j].made \in Nat /\ queue[j].stalls \in Nat
  BY Bounds DEF Shape, TypeOK, Entry
<1>2. EntryShape(j)
  BY DEF Shape, QueueOK
<1>3. QED
  BY <1>1, <1>2, Bounds DEF EntryShape, Starts

\* The budget of a job that worker w alone acts on: fewer runs, a send, a start.
LEMMA BudgetMoves ==
  ASSUME Shape, Shape', NEW j \in Jobs, Budgeted(j), NEW w \in Workers,
         \A v \in Workers: v # w => (v \in Pending(j)' <=> v \in Pending(j))
  PROVE  /\ /\ w \in Pending(j)' => w \in Pending(j)
            /\ Copies(j)' = Copies(j) /\ Starts(j)' = Starts(j)
            => Budgeted(j)'
         /\ \A n \in 0..MaxCopies:
              /\ w \in Pending(j) /\ w \notin Pending(j)'
              /\ Copies(j)' = Copies(j) + n /\ Starts(j)' = Starts(j)
              => Budgeted(j)'
         /\ /\ w \notin Pending(j)
            /\ Copies(j)' = Copies(j) /\ Starts(j)' = Starts(j) + 1
            => Budgeted(j)'
<1> DEFINE p == Cardinality(Pending(j))
           q == Cardinality(Pending(j))'
<1>1. p \in Nat /\ q \in Nat /\ Copies(j) \in Nat /\ Starts(j) \in Nat /\ MaxCopies \in Nat
  <2>1. IsFiniteSet(Pending(j)') /\ Cardinality(Pending(j)') \in Nat
    BY FiniteActors, FS_Subset, FS_CardinalityType DEF Pending
  <2>2. QED
    BY <2>1, PendingFinite, StartsBounded, CopiesCounted, Bounds
<1>2. q = p + (IF w \in Pending(j)' THEN 1 ELSE 0) - (IF w \in Pending(j) THEN 1 ELSE 0)
  BY PendingStep
<1>3. Copies(j) + MaxCopies * p <= MaxCopies * Starts(j)
  BY DEF Budgeted
<1>4. Budgeted(j)' <=> Copies(j)' + MaxCopies * q <= MaxCopies * (Starts(j)')
  BY DEF Budgeted
<1> HIDE DEF p, q
<1>5. ASSUME w \in Pending(j)' => w \in Pending(j), Copies(j)' = Copies(j), Starts(j)' = Starts(j)
      PROVE  Budgeted(j)'
  <2>1. q <= p /\ 0 \in 0..MaxCopies
    BY <1>1, <1>2, <1>5
  <2>2. Copies(j) + MaxCopies * q <= MaxCopies * Starts(j)
    BY <1>1, <1>3, <2>1, BudgetArithmetic
  <2>3. QED
    BY <1>4, <1>5, <2>2
<1>6. ASSUME NEW n \in 0..MaxCopies, w \in Pending(j), w \notin Pending(j)',
             Copies(j)' = Copies(j) + n, Starts(j)' = Starts(j)
      PROVE  Budgeted(j)'
  <2>1. q <= p - 1
    BY <1>1, <1>2, <1>6
  <2>2. Copies(j) + n + MaxCopies * q <= MaxCopies * Starts(j)
    BY <1>1, <1>3, <2>1, BudgetArithmetic
  <2>3. QED
    BY <1>4, <1>6, <2>2
<1>7. ASSUME w \notin Pending(j), Copies(j)' = Copies(j), Starts(j)' = Starts(j) + 1
      PROVE  Budgeted(j)'
  <2>1. q <= p + 1 /\ 0 \in 0..MaxCopies
    BY <1>1, <1>2, <1>7
  <2>2. Copies(j) + MaxCopies * q <= MaxCopies * (Starts(j) + 1)
    BY <1>1, <1>3, <2>1, BudgetArithmetic
  <2>3. QED
    BY <1>4, <1>7, <2>2
<1>8. QED
  BY <1>5, <1>6, <1>7

LEMMA BudgetInit == Init => Budget
<1> SUFFICES ASSUME Init, NEW j \in Jobs PROVE Budgeted(j)
  BY DEF Budget
<1>1. Pending(j) = {}
  BY Sentinels DEF Init, Pending
<1>2. Cardinality(Pending(j)) = 0
  BY <1>1, FS_EmptySet
<1>3. Copies(j) = 0 /\ Starts(j) = 0
  <2>1. mail[j] = 0 /\ late[j] = <<>>
    BY DEF Init
  <2>2. Open(j) = 0
    BY <2>1, EmptySeq DEF Open
  <2>3. Starts(j) = 0
    BY DEF Init, Starts, NotQueued
  <2>4. QED
    BY <2>1, <2>2, <2>3 DEF Copies
<1>4. QED
  BY <1>2, <1>3, Bounds DEF Budgeted

LEMMA BudgetStep == Shape /\ Shape' /\ Budget /\ [Next]_vars => Budget'
<1> SUFFICES ASSUME Shape, Shape', Budget, [Next]_vars, NEW j \in Jobs PROVE Budgeted(j)'
  BY DEF Budget
<1>1. Budgeted(j)
  BY DEF Budget
<1>2. /\ queue[j] \in Entry
      /\ queue[j].made \in Nat /\ queue[j].stalls \in Nat
      /\ queue[j].status = "active" <=> queue[j].owner # Null
  BY Bounds DEF Shape, TypeOK, Entry, QueueOK, EntryShape
<1>3. ASSUME NEW w \in Workers, run' = [run EXCEPT ![w] = run'[w]], pc' = [pc EXCEPT ![w] = pc'[w]]
      PROVE  \A v \in Workers: v # w => (v \in Pending(j)' <=> v \in Pending(j))
  BY <1>3 DEF Pending, Shape, TypeOK
<1>4. ASSUME UNCHANGED <<run, pc>>, Copies(j)' = Copies(j), Starts(j)' = Starts(j)
      PROVE  Budgeted(j)'
  <2>1. Pending(j)' = Pending(j)
    BY <1>4 DEF Pending
  <2>2. QED
    BY <1>1, <1>4, <2>1 DEF Budgeted
<1>5. ASSUME NEW w \in Workers, NEW k \in Jobs, Take(w, k) PROVE Budgeted(j)'
  <2>1. \A v \in Workers: v # w => (v \in Pending(j)' <=> v \in Pending(j))
    BY <1>3, <1>5 DEF Take, Goto, Shape, TypeOK
  <2>2. w \notin Pending(j) /\ Copies(j)' = Copies(j)
    BY <1>5 DEF Take, Pending, Copies, Open, deliveryVars
  <2>3. CASE j = k
    <3>1. Starts(j)' = Starts(j) + 1
      BY <1>2, <1>5, <2>3 DEF Take, Starts, Shape, TypeOK, Entry
    <3>2. QED
      BY <1>1, <2>1, <2>2, <3>1, BudgetMoves
  <2>4. CASE j # k
    <3>1. Starts(j)' = Starts(j)
      BY <1>5, <2>4 DEF Take, Starts, Shape, TypeOK
    <3>2. w \notin Pending(j)'
      BY <1>5, <2>4 DEF Take, Pending, Shape, TypeOK, Run
    <3>3. QED
      BY <1>1, <2>1, <2>2, <3>1, <3>2, BudgetMoves
  <2>5. QED
    BY <2>3, <2>4
<1>6. ASSUME NEW w \in Workers, NEW n \in 0..MaxCopies, NEW k \in 0..MaxCopies,
             NEW ok \in BOOLEAN, SendMail(w, n, k, ok)
      PROVE  Budgeted(j)'
  <2>1. \A v \in Workers: v # w => (v \in Pending(j)' <=> v \in Pending(j))
    BY <1>3, <1>6 DEF SendMail, Goto, Shape, TypeOK
  <2>2. Starts(j)' = Starts(j) /\ run' = run /\ pc'[w] \in {"persist", "rollback"}
    BY <1>6 DEF SendMail, Starts, Goto, AfterSend, Shape, TypeOK
  <2>3. w \notin Pending(j)' /\ (w \in Pending(j) <=> run[w].job = j)
    BY <1>6, <2>2 DEF SendMail, Pending
  <2>4. /\ n \in Nat /\ k \in Nat /\ n + k <= MaxCopies
        /\ run[w].job = j => Copies(j)' = Copies(j) + (n + k)
        /\ run[w].job # j => Copies(j)' = Copies(j)
    BY <1>6, SendAdds
  <2>5. CASE run[w].job = j
    <3>1. n + k \in 0..MaxCopies
      BY <2>4, Bounds
    <3>2. QED
      BY <1>1, <2>1, <2>2, <2>3, <2>4, <2>5, <3>1, BudgetMoves
  <2>6. CASE run[w].job # j
    BY <1>1, <2>1, <2>2, <2>3, <2>4, <2>6, BudgetMoves
  <2>7. QED
    BY <2>5, <2>6
<1>7. ASSUME NEW w \in Workers, Lookup(w) \/ Reserve(w) \/ PickTemplate(w) \/ Persist(w) \/ Rollback(w)
      PROVE  Budgeted(j)'
  <2>1. /\ run' = [run EXCEPT ![w] = run'[w]] /\ run'[w].job = run[w].job
        /\ pc' = [pc EXCEPT ![w] = pc'[w]]
        /\ UNCHANGED <<queue, mail, late>>
    BY <1>7 DEF Lookup, Reserve, PickTemplate, Persist, Rollback, Goto, deliveryVars, Shape, TypeOK, Run
  <2>2. /\ pc[w] \in {"lookup", "reserve", "template", "persist", "rollback"}
        /\ pc[w] \in {"persist", "rollback"} => pc'[w] \in {"finish", "rollback", "fail"}
    BY <1>7 DEF Lookup, Reserve, PickTemplate, Persist, Rollback, Goto, AfterFailedPersist,
                Shape, TypeOK
  <2>3. w \in Pending(j)' => w \in Pending(j)
    BY <2>1, <2>2 DEF Pending
  <2>4. \A v \in Workers: v # w => (v \in Pending(j)' <=> v \in Pending(j))
    BY <1>3, <2>1
  <2>5. Starts(j)' = Starts(j) /\ Copies(j)' = Copies(j)
    BY <2>1 DEF Starts, Copies, Open
  <2>6. QED
    BY <1>1, <2>1, <2>3, <2>4, <2>5, BudgetMoves
<1>8. ASSUME NEW w \in Workers, Finish(w) \/ FailAttempt(w) \/ Crash(w) PROVE Budgeted(j)'
  <2>1. /\ run' = [run EXCEPT ![w] = run'[w]] /\ pc' = [pc EXCEPT ![w] = pc'[w]]
        /\ pc'[w] = "idle" /\ UNCHANGED <<mail, late>>
    BY <1>8 DEF Finish, FailAttempt, Crash, Leave, Goto, deliveryVars, Shape, TypeOK
  <2>2. w \notin Pending(j)'
    BY <2>1 DEF Pending
  <2>3. \A v \in Workers: v # w => (v \in Pending(j)' <=> v \in Pending(j))
    BY <1>3, <2>1
  <2>4. Starts(j)' = Starts(j)
    <3>1. CASE Finish(w) /\ j = run[w].job /\ queue[j].owner = w
      BY <1>2, <3>1, Sentinels DEF Finish, Starts, Shape, TypeOK, Entry
    <3>2. CASE FailAttempt(w) /\ j = run[w].job /\ queue[j].owner = w
      BY <1>2, <3>2, Sentinels DEF FailAttempt, Starts, Shape, TypeOK, Entry
    <3>3. CASE queue'[j] = queue[j]
      BY <3>3 DEF Starts
    <3>4. CASE Crash(w)
      BY <3>4 DEF Crash, Starts
    <3>5. QED
      BY <1>8, <3>1, <3>2, <3>3, <3>4 DEF Finish, FailAttempt, Shape, TypeOK
  <2>5. Copies(j)' = Copies(j)
    BY <2>1 DEF Copies, Open
  <2>6. QED
    BY <1>1, <2>2, <2>3, <2>4, <2>5, BudgetMoves
<1>9. ASSUME NEW k \in Jobs, StallCheck(k) PROVE Budgeted(j)'
  <2>1. Starts(j)' = Starts(j)
    BY <1>2, <1>9 DEF StallCheck, Starts, Shape, TypeOK, Entry
  <2>2. QED
    BY <1>4, <1>9, <2>1 DEF StallCheck, Copies, Open, workerVars, deliveryVars
<1>10. ASSUME NEW S \in SUBSET Jobs, Submit(S) PROVE Budgeted(j)'
  <2>1. Starts(j)' = Starts(j)
    BY <1>2, <1>10 DEF Submit, Starts, Shape, TypeOK, Entry
  <2>2. QED
    BY <1>4, <1>10, <2>1 DEF Submit, Copies, Open, workerVars, deliveryVars
<1>11. ASSUME NEW i \in Jobs, HandOverLate(i) PROVE Budgeted(j)'
  <2>1. Copies(j)' = Copies(j)
    BY <1>11, LateCounts
  <2>2. Starts(j)' = Starts(j) /\ UNCHANGED <<run, pc>>
    BY <1>11 DEF HandOverLate, Starts, workerVars
  <2>3. QED
    BY <1>4, <2>1, <2>2
<1>12. ASSUME UNCHANGED <<queue, run, pc, mail, late>> PROVE Budgeted(j)'
  <2>1. Starts(j)' = Starts(j) /\ Copies(j)' = Copies(j)
    BY <1>12 DEF Starts, Copies, Open
  <2>2. QED
    BY <1>4, <1>12, <2>1
<1>13. QED
  BY <1>5, <1>6, <1>7, <1>8, <1>9, <1>10, <1>11, <1>12
  DEF Next, Step, Api, ResetDailyUsage, CreateSender, UpdateSender, DeleteSender, ChangeTemplates,
      DeleteLead, workerVars, deliveryVars, vars

\* Late copies included.
CopiesBounded == \A j \in Jobs: Copies(j) <= (Attempts + MaxStalls) * MaxCopies

LEMMA CopiesAreBounded == Spec => []CopiesBounded
<1>1. Shape /\ Budget => CopiesBounded
  <2> SUFFICES ASSUME Shape, Budget, NEW j \in Jobs
               PROVE  Copies(j) <= (Attempts + MaxStalls) * MaxCopies
    BY DEF CopiesBounded
  <2> DEFINE p == Cardinality(Pending(j))
             s == Starts(j)
  <2>1. /\ Copies(j) \in Nat /\ p \in Nat /\ s \in Nat /\ MaxCopies \in Nat
        /\ Attempts + MaxStalls \in Nat /\ s <= Attempts + MaxStalls
    BY PendingFinite, StartsBounded, CopiesCounted, Bounds
  <2>2. Copies(j) + MaxCopies * p <= MaxCopies * s
    BY DEF Budget, Budgeted
  <2> HIDE DEF p, s
  <2>3. MaxCopies * p \in Nat /\ MaxCopies * s \in Nat
    BY <2>1
  <2>4. MaxCopies * s <= MaxCopies * (Attempts + MaxStalls)
    BY <2>1, Scales
  <2>5. MaxCopies * (Attempts + MaxStalls) = (Attempts + MaxStalls) * MaxCopies
    BY <2>1
  <2>6. QED
    BY <2>1, <2>2, <2>3, <2>4, <2>5
<1>2. Spec => []Shape
  BY ShapeInit, ShapeStep, PTL DEF Spec
<1>3. Spec => []Budget
  BY <1>2, BudgetInit, BudgetStep, PTL DEF Spec
<1>4. QED
  BY <1>1, <1>2, <1>3, PTL

\* The copies of one job's mail are bounded, whatever crashes, stalls, retries, runs that
\* lost their lock and tries that were given up do: every call of the provider is paid
\* for by a start.
THEOREM DuplicatesAreBounded == Spec => []DuplicatesBounded
<1>1. Shape /\ CopiesBounded => DuplicatesBounded
  <2> SUFFICES ASSUME Shape, CopiesBounded, NEW j \in Jobs
               PROVE  mail[j] <= (Attempts + MaxStalls) * MaxCopies
    BY DEF DuplicatesBounded
  <2>1. mail[j] \in Nat /\ Open(j) \in Nat /\ Copies(j) = mail[j] + Open(j)
    BY CopiesCounted DEF Copies
  <2>2. Copies(j) <= (Attempts + MaxStalls) * MaxCopies
    BY DEF CopiesBounded
  <2>3. (Attempts + MaxStalls) * MaxCopies \in Nat
    BY Bounds
  <2>4. QED
    BY <2>1, <2>2, <2>3
<1>2. Spec => []Shape
  BY ShapeInit, ShapeStep, PTL DEF Spec
<1>3. QED
  BY <1>1, <1>2, CopiesAreBounded, PTL

-----------------------------------------------------------------------------
(* The contract JobDelivery, while locks are kept *)

\* A worker at work owns its job's entry, and comes to the steps that complete a job
\* only with a hand-over or a refusal behind it.
OwnRun(w) ==
  /\ pc[w] = "idle" => run[w].job = Null
  /\ pc[w] # "idle" => queue[run[w].job].owner = w
  /\ pc[w] = "persist" => mail[run[w].job] > 0
  /\ pc[w] = "finish" => mail[run[w].job] > 0 \/ run[w].job \in skipped

Owned == \A w \in Workers: OwnRun(w)

LEMMA OwnedInit == Init => Owned
  BY Sentinels DEF Init, Owned, OwnRun, NoRun

LEMMA OwnedStep ==
  ASSUME "lockLoss" \notin Faults, Shape, Shape', Owned, [Next]_vars
  PROVE  Owned'
<1> SUFFICES ASSUME NEW v \in Workers PROVE OwnRun(v)'
  BY DEF Owned
<1>1. /\ OwnRun(v) /\ RunShape(v) /\ RunShape(v)'
      /\ \A j \in Jobs: mail[j] \in Nat
  BY DEF Owned, Shape, RunsOK, TypeOK
<1>2. \A j \in Jobs: EntryShape(j)
  BY DEF Shape, QueueOK
<1>3. ASSUME UNCHANGED <<pc, run, queue, mail, skipped>> PROVE OwnRun(v)'
  BY <1>1, <1>3 DEF OwnRun
<1>4. ASSUME NEW S \in SUBSET Jobs, Submit(S) PROVE OwnRun(v)'
  BY <1>1, <1>4 DEF OwnRun, RunShape, Submit, Shape, TypeOK, Entry, workerVars, deliveryVars
<1>5. ASSUME NEW w \in Workers, NEW j \in Jobs, Take(w, j) PROVE OwnRun(v)'
  <2>1. queue[j].owner = Null
    BY <1>2, <1>5 DEF EntryShape, Take
  <2>2. CASE v = w
    BY <1>5, <2>2 DEF OwnRun, Take, Goto, Shape, TypeOK, Entry, Run
  <2>3. CASE v # w
    <3>1. run'[v] = run[v] /\ pc'[v] = pc[v] /\ mail' = mail /\ skipped' = skipped
      BY <1>5, <2>3 DEF Take, Goto, deliveryVars, Shape, TypeOK
    <3>2. pc[v] # "idle" => run[v].job # j
      BY <1>1, <2>1, Sentinels DEF OwnRun
    <3>3. \A k \in Jobs: k # j => queue'[k] = queue[k]
      BY <1>5 DEF Take, Shape, TypeOK
    <3>4. QED
      BY <1>1, <3>1, <3>2, <3>3 DEF OwnRun, RunShape
  <2>4. QED
    BY <2>2, <2>3
<1>6. ASSUME NEW w \in Workers, NEW n \in 0..MaxCopies, NEW k \in 0..MaxCopies,
             NEW ok \in BOOLEAN, SendMail(w, n, k, ok)
      PROVE  OwnRun(v)'
  <2>1. /\ run[w].job \in Jobs /\ n \in Nat /\ UNCHANGED <<queue, run, skipped>>
        /\ mail' = [mail EXCEPT ![run[w].job] = @ + n]
        /\ pc' = [pc EXCEPT ![w] = IF ok THEN "persist" ELSE "rollback"]
        /\ ok => n > 0
    BY <1>6, Bounds DEF SendMail, Goto, AfterSend, Shape, RunsOK, RunShape
  <2>2. \A j \in Jobs: mail'[j] >= mail[j] /\ mail'[run[w].job] = mail[run[w].job] + n
    BY <1>1, <2>1 DEF Shape, TypeOK
  <2>3. CASE v = w
    <3>1. pc'[v] = IF ok THEN "persist" ELSE "rollback"
      BY <2>1, <2>3 DEF Shape, TypeOK
    <3>2. pc[v] # "idle"
      BY <1>6, <2>3 DEF SendMail
    <3>3. QED
      BY <1>1, <2>1, <2>2, <2>3, <3>1, <3>2 DEF OwnRun
  <2>4. CASE v # w
    <3>1. pc'[v] = pc[v]
      BY <2>1, <2>4 DEF Shape, TypeOK
    <3>2. mail'[run[v].job] >= mail[run[v].job] \/ pc[v] = "idle"
      BY <1>1, <2>2 DEF RunShape
    <3>3. (mail'[run[v].job] \in Nat /\ mail[run[v].job] \in Nat) \/ pc[v] = "idle"
      BY <1>1 DEF RunShape, Shape, TypeOK
    <3>4. QED
      BY <1>1, <2>1, <3>1, <3>2, <3>3 DEF OwnRun
  <2>5. QED
    BY <2>3, <2>4
<1>7. ASSUME NEW w \in Workers, Lookup(w) \/ Reserve(w) \/ PickTemplate(w) \/ Persist(w) \/ Rollback(w)
      PROVE  OwnRun(v)'
  <2>1. /\ run' = [run EXCEPT ![w] = run'[w]] /\ run'[w].job = run[w].job
        /\ pc' = [pc EXCEPT ![w] = pc'[w]] /\ pc[w] # "idle"
        /\ UNCHANGED <<queue, mail>> /\ skipped \subseteq skipped'
    BY <1>7 DEF Lookup, Reserve, PickTemplate, Persist, Rollback, Goto, deliveryVars, Shape, TypeOK, Run
  <2>2. pc'[w] \in {"reserve", "template", "send", "finish", "rollback", "fail"}
    BY <1>7 DEF Lookup, Reserve, PickTemplate, Persist, Rollback, Goto, AfterFailedPersist,
                Shape, TypeOK
  <2>3. pc'[w] = "finish" => pc[w] = "persist" \/ run[w].job \in skipped'
    BY <1>7 DEF Lookup, Reserve, PickTemplate, Persist, Rollback, Goto, AfterFailedPersist,
                Shape, TypeOK
  <2>4. CASE v = w
    BY <1>1, <2>1, <2>2, <2>3, <2>4 DEF OwnRun
  <2>5. CASE v # w
    <3>1. run'[v] = run[v] /\ pc'[v] = pc[v]
      BY <2>1, <2>5 DEF Shape, TypeOK
    <3>2. QED
      BY <1>1, <2>1, <3>1 DEF OwnRun
  <2>6. QED
    BY <2>4, <2>5
<1>8. ASSUME NEW w \in Workers, Finish(w) \/ FailAttempt(w) \/ Crash(w) PROVE OwnRun(v)'
  <2>1. /\ run' = [run EXCEPT ![w] = NoRun] /\ pc' = [pc EXCEPT ![w] = "idle"]
        /\ UNCHANGED <<mail, skipped>> /\ pc[w] # "idle"
    BY <1>8 DEF Finish, FailAttempt, Crash, Leave, Goto, deliveryVars
  <2>2. CASE v = w
    BY <2>1, <2>2 DEF OwnRun, NoRun, Shape, TypeOK
  <2>3. CASE v # w
    <3>1. run'[v] = run[v] /\ pc'[v] = pc[v]
      BY <2>1, <2>3 DEF Shape, TypeOK
    <3>2. pc[v] # "idle" => run[v].job # run[w].job
      BY <1>1, <2>1, <2>3 DEF OwnRun, Owned
    <3>3. \A k \in Jobs: k # run[w].job => queue'[k] = queue[k]
      BY <1>8 DEF Finish, FailAttempt, Crash, Shape, TypeOK
    <3>4. QED
      BY <1>1, <2>1, <3>1, <3>2, <3>3 DEF OwnRun, RunShape
  <2>4. QED
    BY <2>2, <2>3
<1>9. ASSUME NEW j \in Jobs, StallCheck(j) PROVE OwnRun(v)'
  <2>1. Orphaned(j) /\ queue[j].status = "active" /\ UNCHANGED <<pc, run, mail, skipped>>
    BY <1>9 DEF StallCheck, Fault, workerVars, deliveryVars
  <2>2. pc[v] # "idle" => run[v].job # j
    BY <1>1, <2>1 DEF OwnRun, Orphaned
  <2>3. \A k \in Jobs: k # j => queue'[k] = queue[k]
    BY <1>9 DEF StallCheck, Shape, TypeOK
  <2>4. QED
    BY <1>1, <2>1, <2>2, <2>3 DEF OwnRun, RunShape
<1>10. ASSUME NEW i \in Jobs, HandOverLate(i) PROVE OwnRun(v)'
  <2>1. UNCHANGED <<queue, pc, run, skipped>>
    BY <1>10 DEF HandOverLate, workerVars
  <2>2. ASSUME NEW j \in Jobs, mail[j] > 0 PROVE mail'[j] > 0
    <3>1. mail'[j] \in Nat /\ mail'[j] >= mail[j] /\ mail[j] \in Nat
      BY <1>1, <1>10, LateCounts
    <3>2. QED
      BY <2>2, <3>1
  <2>3. QED
    BY <1>1, <2>1, <2>2 DEF OwnRun, RunShape
<1>11. QED
  BY <1>3, <1>4, <1>5, <1>6, <1>7, <1>8, <1>9, <1>10
  DEF Next, Step, Api, ResetDailyUsage, CreateSender, UpdateSender, DeleteSender, ChangeTemplates,
      DeleteLead, workerVars, deliveryVars, vars

LEMMA DeliveryInit == Init => Delivery!Init
<1> SUFFICES ASSUME Init PROVE Delivery!Init
  OBVIOUS
<1>1. \A j \in Jobs: Len(late[j]) = 0
  BY EmptySeq DEF Init
<1>2. \A j \in Jobs: Phase(j) = "absent"
  BY DEF Init, Phase, NotQueued
<1>3. QED
  BY <1>1, <1>2 DEF Init, Delivery!Init

LEMMA DeliveryStep ==
  ASSUME "lockLoss" \notin Faults, Shape, Shape', Owned, CopiesBounded', [Next]_vars
  PROVE  [Delivery!Next]_(Delivery!vars)
<1> USE DEF Delivery!Next, Delivery!vars
<1>1. /\ \A j \in Jobs: mail[j] \in Nat /\ mail'[j] \in Nat
      /\ \A j \in Jobs: queue[j].status = "active" <=> queue[j].owner # Null
  BY DEF Shape, TypeOK, QueueOK, EntryShape
<1>2. ASSUME UNCHANGED <<queue, late, mail, skipped>> PROVE UNCHANGED Delivery!vars
  BY <1>2 DEF Phase
<1>3. ASSUME NEW S \in SUBSET Jobs, Submit(S) PROVE Delivery!Enqueue(S)
  <2>1. S # {} /\ UNCHANGED <<late, mail, skipped>>
    BY <1>3 DEF Submit, deliveryVars
  <2>2. \A j \in S: Phase(j) = "absent"
    BY <1>3 DEF Submit, Phase
  <2>3. \A j \in Jobs: Phase(j)' = IF j \in S THEN "pending" ELSE Phase(j)
    BY <1>3 DEF Submit, Phase, Shape, TypeOK, Entry
  <2>4. QED
    BY <2>1, <2>2, <2>3 DEF Delivery!Enqueue
<1>4. ASSUME NEW w \in Workers, NEW j \in Jobs, Take(w, j) PROVE UNCHANGED Delivery!vars
  <2>1. \A k \in Jobs: Phase(k)' = Phase(k)
    BY <1>4 DEF Take, Phase, Shape, TypeOK, Entry
  <2>2. QED
    BY <1>4, <2>1 DEF Take, deliveryVars
<1>5. ASSUME NEW w \in Workers, pc[w] # "idle"
      PROVE  run[w].job \in Jobs /\ queue[run[w].job].owner = w /\ Phase(run[w].job) = "pending"
  <2>1. run[w].job \in Jobs /\ queue[run[w].job].owner = w
    BY <1>5 DEF Owned, OwnRun, Shape, RunsOK, RunShape
  <2>2. queue[run[w].job].status = "active"
    BY <1>1, <2>1, Sentinels
  <2>3. QED
    BY <2>1, <2>2 DEF Phase
<1>6. ASSUME NEW w \in Workers, Reserve(w) PROVE [Delivery!Next]_(Delivery!vars)
  <2>1. pc[w] # "idle" /\ UNCHANGED <<queue, late, mail>>
    BY <1>6 DEF Reserve
  <2>2. CASE skipped' = skipped
    BY <1>2, <2>1, <2>2
  <2>3. CASE skipped' = skipped \cup {run[w].job}
    <3>1. Delivery!Decline(run[w].job)
      BY <1>5, <2>1, <2>3 DEF Delivery!Decline, Phase
    <3>2. QED
      BY <1>5, <2>1, <3>1
  <2>4. QED
    BY <1>6, <2>2, <2>3 DEF Reserve
<1>7. ASSUME NEW w \in Workers, NEW n \in 0..MaxCopies, NEW k \in 0..MaxCopies,
             NEW ok \in BOOLEAN, SendMail(w, n, k, ok)
      PROVE  Delivery!Next
  <2> DEFINE most == (Attempts + MaxStalls) * MaxCopies
  <2> PICK j \in Jobs: run[w].job = j
    BY <1>5, <1>7 DEF SendMail
  <2>1. Phase(j) = "pending" /\ UNCHANGED <<queue, skipped>>
    BY <1>5, <1>7 DEF SendMail
  <2>2. /\ n \in Nat /\ k \in Nat /\ Copies(j)' = Copies(j) + (n + k)
        /\ Open(j)' = Open(j) + k /\ \A i \in Jobs \ {j}: Open(i)' = Open(i)
    BY <1>7, SendAdds
  <2>3. most \in Nat /\ Copies(j)' <= most
    <3>1. most \in Nat
      BY Bounds
    <3>2. QED
      BY <3>1 DEF CopiesBounded
  <2>4. Copies(j) = mail[j] + Open(j) /\ mail[j] \in Nat /\ Open(j) \in Nat
    BY CopiesCounted DEF Copies
  <2> HIDE DEF most
  <2>5. n \in 0..most /\ k \in 0..most /\ mail[j] + Open(j) + n + k <= most
    BY <2>2, <2>3, <2>4
  <2>6. [i \in Jobs |-> Phase(i)]' = [i \in Jobs |-> Phase(i)]
    BY <2>1 DEF Phase
  <2>7. mail' = [mail EXCEPT ![j] = @ + n]
    BY <1>7 DEF SendMail
  <2>8. [i \in Jobs |-> Open(i)]' = [[i \in Jobs |-> Open(i)] EXCEPT ![j] = @ + k]
    BY <2>2
  <2>9. Delivery!HandOver(j, n, k)
    BY <2>1, <2>5, <2>6, <2>7, <2>8 DEF Delivery!HandOver, Open, most
  <2>10. QED
    BY <2>1, <2>5, <2>9 DEF most
<1>8. ASSUME NEW w \in Workers, Finish(w) PROVE Delivery!Next
  <2> DEFINE j == run[w].job
  <2>1. /\ j \in Jobs /\ queue[j].owner = w /\ Phase(j) = "pending"
        /\ mail[j] > 0 \/ j \in skipped
    BY <1>5, <1>8 DEF Finish, Owned, OwnRun
  <2>2. UNCHANGED <<late, mail, skipped>>
    BY <1>8 DEF Finish, deliveryVars
  <2>3. \A k \in Jobs: Phase(k)' = IF k = j THEN "done" ELSE Phase(k)
    BY <1>8, <2>1 DEF Finish, Phase, Shape, TypeOK, Entry
  <2>4. Delivery!Settle(j)
    BY <2>1, <2>2, <2>3 DEF Delivery!Settle
  <2>5. QED
    BY <2>1, <2>4
<1>9. ASSUME NEW j \in Jobs, Phase(j) = "pending", UNCHANGED <<late, mail, skipped>>,
             \/ \A k \in Jobs: Phase(k)' = Phase(k)
             \/ \A k \in Jobs: Phase(k)' = IF k = j THEN "failed" ELSE Phase(k)
      PROVE  [Delivery!Next]_(Delivery!vars)
  <2>1. CASE \A k \in Jobs: Phase(k)' = Phase(k)
    BY <1>9, <2>1
  <2>2. CASE \A k \in Jobs: Phase(k)' = IF k = j THEN "failed" ELSE Phase(k)
    <3>1. Delivery!Settle(j)
      BY <1>9, <2>2 DEF Delivery!Settle
    <3>2. QED
      BY <1>9, <3>1
  <2>3. QED
    BY <1>9, <2>1, <2>2
<1>10. ASSUME NEW w \in Workers, FailAttempt(w) PROVE [Delivery!Next]_(Delivery!vars)
  <2> DEFINE j == run[w].job
  <2>1. j \in Jobs /\ queue[j].owner = w /\ Phase(j) = "pending"
    BY <1>5, <1>10 DEF FailAttempt
  <2>2. UNCHANGED <<late, mail, skipped>>
    BY <1>10 DEF FailAttempt, deliveryVars
  <2>3. \A k \in Jobs: Phase(k)' = IF k # j \/ Retries(j) THEN Phase(k) ELSE "failed"
    BY <1>10, <2>1 DEF FailAttempt, Phase, Shape, TypeOK, Entry
  <2>4. QED
    BY <1>9, <2>1, <2>2, <2>3
<1>11. ASSUME NEW j \in Jobs, StallCheck(j) PROVE [Delivery!Next]_(Delivery!vars)
  <2>1. Phase(j) = "pending" /\ UNCHANGED <<late, mail, skipped>>
    BY <1>11 DEF StallCheck, Phase, deliveryVars
  <2>2. \A k \in Jobs: Phase(k)' = IF k # j \/ ~ StallsOut(j) THEN Phase(k) ELSE "failed"
    BY <1>11, <2>1 DEF StallCheck, Phase, Shape, TypeOK, Entry
  <2>3. QED
    BY <1>9, <2>1, <2>2
<1>12. ASSUME NEW j \in Jobs, HandOverLate(j) PROVE Delivery!Next
  <2>1. UNCHANGED <<queue, skipped>> /\ mail' = [mail EXCEPT ![j] = @ + 1]
    BY <1>12 DEF HandOverLate
  <2>2. /\ Open(j) > 0 /\ Open(j)' = Open(j) - 1
        /\ \A i \in Jobs \ {j}: Open(i)' = Open(i)
    BY <1>12, LateCounts
  <2>3. [i \in Jobs |-> Phase(i)]' = [i \in Jobs |-> Phase(i)]
    BY <2>1 DEF Phase
  <2>4. [i \in Jobs |-> Open(i)]' = [[i \in Jobs |-> Open(i)] EXCEPT ![j] = @ - 1]
    BY <2>2
  <2>5. Delivery!HandOverLate(j)
    BY <2>1, <2>2, <2>3, <2>4 DEF Delivery!HandOverLate, Open
  <2>6. QED
    BY <2>5
<1>13. QED
  BY <1>2, <1>3, <1>4, <1>6, <1>7, <1>8, <1>10, <1>11, <1>12
  DEF Next, Step, Api, Lookup, PickTemplate, Persist, Rollback, Crash, ResetDailyUsage,
      CreateSender, UpdateSender, DeleteSender, ChangeTemplates, DeleteLead, deliveryVars, vars

\* While no live worker loses its lock, the dispatch pipeline implements the contract
\* JobDelivery, crashes, retries, API calls and the provider's timeout included: tries to
\* hand a job over begin, and it is declined, only while it is pending; a later mail is a
\* try begun by then (resilient-provider L20-35 stops none); it settles once, and it is
\* done only after a hand-over or a refusal.
THEOREM DispatchImplementsJobDelivery ==
  ASSUME "lockLoss" \notin Faults
  PROVE  Spec => ImplementsJobDelivery
<1>1. Shape /\ Shape' /\ Owned /\ [Next]_vars => Owned'
  BY OwnedStep
<1>2. Shape /\ Shape' /\ Owned /\ CopiesBounded' /\ [Next]_vars
        => [Delivery!Next]_(Delivery!vars)
  BY DeliveryStep
<1>3. Spec => []Shape
  BY ShapeInit, ShapeStep, PTL DEF Spec
<1>4. Spec => []Owned
  BY <1>1, <1>3, OwnedInit, PTL DEF Spec
<1>5. QED
  BY <1>2, <1>3, <1>4, CopiesAreBounded, DeliveryInit, PTL
  DEF Spec, ImplementsJobDelivery, Delivery!Spec

-----------------------------------------------------------------------------
(* Completed jobs *)

\* The mail of a job was accepted and is on its lead, if it has one that still exists.
SentAndKept(j) ==
  /\ mail[j] > 0
  /\ JobLead[j] # NoLead => \/ lead[JobLead[j]] = "gone"
                            \/ lead[JobLead[j]] = "sent" /\ outbound[j] > 0

\* What a run has behind it before it may complete its job; it may do so without a lock
\* as well, and then completes nothing.
RunRecorded(w) ==
  /\ pc[w] = "persist" => mail[run[w].job] > 0
  /\ pc[w] = "finish" => run[w].job \in skipped \/ SentAndKept(run[w].job)

Recorded == (\A w \in Workers: RunRecorded(w)) /\ CompletedMeansRecorded

LEMMA RecordedInit == Init => Recorded
BY DEF Init, Recorded, RunRecorded, CompletedMeansRecorded, NotQueued

\* What has been sent and recorded stays so, or its lead goes.
LEMMA KeptStays ==
  ASSUME Shape, [Next]_vars, NEW j \in Jobs
  PROVE  /\ mail[j] > 0 => mail'[j] > 0
         /\ SentAndKept(j) => SentAndKept(j)'
         /\ j \in skipped => j \in skipped'
<1> USE DEF senderVars, leadVars, ledgerVars, deliveryVars, workerVars
<1>1. /\ mail \in [Jobs -> Nat] /\ outbound \in [Jobs -> Nat] /\ skipped \subseteq Jobs
      /\ lead \in [Leads -> {"fresh", "sent", "gone"}]
      /\ JobLead[j] \in Leads \cup {NoLead}
  BY TypedMaps DEF Shape, TypeOK
<1>2. ASSUME UNCHANGED <<mail, lead, outbound>>, skipped \subseteq skipped'
      PROVE  /\ mail[j] > 0 => mail'[j] > 0
             /\ SentAndKept(j) => SentAndKept(j)'
             /\ j \in skipped => j \in skipped'
  BY <1>2 DEF SentAndKept
<1>3. ASSUME \/ \E w \in Workers, n, k \in 0..MaxCopies, ok \in BOOLEAN: SendMail(w, n, k, ok)
             \/ \E i \in Jobs: HandOverLate(i)
      PROVE  /\ mail[j] > 0 => mail'[j] > 0
             /\ SentAndKept(j) => SentAndKept(j)'
             /\ j \in skipped => j \in skipped'
  <2>1. ASSUME mail[j] > 0 PROVE mail'[j] > 0
    <3>1. mail[j] \in Nat /\ mail'[j] \in Nat /\ mail'[j] >= mail[j]
      <4>1. CASE \E i \in Jobs: HandOverLate(i) BY <1>1, <4>1, LateCounts
      <4>2. ASSUME NEW w \in Workers, NEW n \in 0..MaxCopies, NEW k \in 0..MaxCopies,
                   NEW ok \in BOOLEAN, SendMail(w, n, k, ok)
            PROVE  mail[j] \in Nat /\ mail'[j] \in Nat /\ mail'[j] >= mail[j]
        <5>1. /\ n \in Nat /\ mail[j] \in Nat
              /\ run[w].job = j => mail'[j] = mail[j] + n
              /\ run[w].job # j => mail'[j] = mail[j]
          BY <1>1, <4>2, SendAdds
        <5> QED BY <5>1
      <4> QED BY <1>3, <4>1, <4>2
    <3> QED BY <2>1, <3>1
  <2>2. UNCHANGED <<lead, outbound, skipped>> BY <1>3 DEF SendMail, HandOverLate
  <2> QED BY <2>1, <2>2 DEF SentAndKept
<1>4. ASSUME NEW w \in Workers, Persist(w)
      PROVE  /\ mail[j] > 0 => mail'[j] > 0
             /\ SentAndKept(j) => SentAndKept(j)'
             /\ j \in skipped => j \in skipped'
  <2>1. UNCHANGED <<mail, skipped>> BY <1>4 DEF Persist
  <2>2. CASE UNCHANGED <<lead, outbound>> BY <2>1, <2>2 DEF SentAndKept
  <2>3. CASE /\ CanPersist(w)
             /\ lead' = [lead EXCEPT ![JobLead[run[w].job]] = "sent"]
             /\ outbound' = [outbound EXCEPT ![run[w].job] = @ + 1]
    <3>1. outbound'[j] >= outbound[j] /\ outbound'[j] \in Nat BY <1>1, <2>3
    <3>2. ASSUME JobLead[j] # NoLead
          PROVE  /\ lead[JobLead[j]] = "gone" => lead'[JobLead[j]] = "gone"
                 /\ lead[JobLead[j]] = "sent" => lead'[JobLead[j]] = "sent"
      BY <3>2, <1>1, <2>3 DEF CanPersist
    <3> QED BY <1>1, <2>1, <3>1, <3>2 DEF SentAndKept
  <2> QED BY <1>4, <2>2, <2>3 DEF Persist
<1>5. ASSUME NEW l \in Leads, DeleteLead(l)
      PROVE  /\ mail[j] > 0 => mail'[j] > 0
             /\ SentAndKept(j) => SentAndKept(j)'
             /\ j \in skipped => j \in skipped'
  <2>1. UNCHANGED <<mail, skipped>> BY <1>5 DEF DeleteLead
  <2>2. CASE JobLead[j] = l
    <3>1. lead'[JobLead[j]] = "gone" BY <1>1, <1>5, <2>2 DEF DeleteLead
    <3> QED BY <2>1, <3>1 DEF SentAndKept
  <2>3. CASE JobLead[j] # l
    <3>1. outbound'[j] = outbound[j] BY <1>5, <2>3 DEF DeleteLead
    <3>2. JobLead[j] # NoLead => lead'[JobLead[j]] = lead[JobLead[j]]
      BY <1>1, <1>5, <2>3 DEF DeleteLead
    <3> QED BY <2>1, <3>1, <3>2 DEF SentAndKept
  <2> QED BY <2>2, <2>3
<1>6. ASSUME NEW w \in Workers, Lookup(w) \/ PickTemplate(w) \/ Rollback(w) \/ Finish(w)
                                \/ FailAttempt(w) \/ Crash(w) \/ \E k \in Jobs: Take(w, k)
      PROVE  UNCHANGED <<mail, lead, outbound, skipped>>
  BY <1>6 DEF Lookup, PickTemplate, Rollback, Finish, FailAttempt, Crash, Take
<1>7. ASSUME NEW w \in Workers, Reserve(w)
      PROVE  UNCHANGED <<mail, lead, outbound>> /\ skipped \subseteq skipped'
  BY <1>7 DEF Reserve
<1>8. ASSUME \/ \E k \in Jobs: StallCheck(k)
             \/ ResetDailyUsage
             \/ \E S \in SUBSET Jobs: Submit(S)
             \/ \E s \in Senders, n \in Limits, b \in BOOLEAN:
                  CreateSender(s, n, b) \/ UpdateSender(s, n, b)
             \/ \E s \in Senders: DeleteSender(s) \/ ChangeTemplates(s)
             \/ UNCHANGED vars
      PROVE  UNCHANGED <<mail, lead, outbound, skipped>>
  BY <1>8
     DEF StallCheck, ResetDailyUsage, Submit, CreateSender, UpdateSender, DeleteSender,
         ChangeTemplates, vars
<1> QED
  BY <1>2, <1>3, <1>4, <1>5, <1>6, <1>7, <1>8 DEF Next, Step, Api

\* A run that does not step keeps what it has behind it.
LEMMA OtherRuns ==
  ASSUME Shape, [Next]_vars, NEW v \in Workers, RunRecorded(v),
         pc'[v] = pc[v], run'[v] = run[v]
  PROVE  RunRecorded(v)'
<1>1. pc[v] # "idle" => run[v].job \in Jobs BY DEF Shape, RunsOK, RunShape
<1> QED BY <1>1, KeptStays DEF RunRecorded

\* A run that steps: to persist after an accepted mail, to finish after a refusal or a
\* record that was committed.
LEMMA RunsKeepRecord ==
  ASSUME Shape, Recorded, [Next]_vars, NEW v \in Workers
  PROVE  RunRecorded(v)'
<1> USE DEF Goto, Leave
<1>1. /\ RunRecorded(v) /\ RunShape(v)
      /\ pc \in [Workers -> Steps] /\ run \in [Workers -> Run]
      /\ mail \in [Jobs -> Nat] /\ outbound \in [Jobs -> Nat]
      /\ lead \in [Leads -> {"fresh", "sent", "gone"}]
  BY DEF Recorded, Shape, RunsOK, TypeOK
<1>2. ASSUME pc'[v] = pc[v], run'[v] = run[v] PROVE RunRecorded(v)'
  BY <1>1, <1>2, OtherRuns
<1>3. ASSUME pc'[v] \notin {"persist", "finish"} PROVE RunRecorded(v)'
  BY <1>3 DEF RunRecorded
<1>4. ASSUME NEW w \in Workers, Step(w) \/ Crash(w) \/ \E k \in Jobs: Take(w, k), w # v
      PROVE  RunRecorded(v)'
  <2>1. pc'[v] = pc[v] /\ run'[v] = run[v]
    BY <1>1, <1>4
       DEF Step, Lookup, Reserve, PickTemplate, SendMail, Persist, Rollback, Finish, FailAttempt,
           Crash, Take, workerVars
  <2> QED BY <1>2, <2>1
<1>5. ASSUME Step(v) PROVE RunRecorded(v)'
  <2>1. CASE Reserve(v)
    <3>1. run' = run /\ pc[v] = "reserve" /\ run[v].job \in Jobs
      BY <1>1, <2>1 DEF Reserve, RunShape
    <3>2. pc'[v] # "persist" /\ (pc'[v] = "finish" => run[v].job \in skipped')
      BY <1>1, <2>1, <3>1 DEF Reserve
    <3> QED BY <3>1, <3>2 DEF RunRecorded
  <2>2. ASSUME NEW n \in 0..MaxCopies, NEW k \in 0..MaxCopies, NEW ok \in BOOLEAN,
               SendMail(v, n, k, ok)
        PROVE  RunRecorded(v)'
    <3>1. run' = run /\ pc[v] = "send" /\ run[v].job \in Jobs
      BY <1>1, <2>2 DEF SendMail, RunShape
    <3>2. pc'[v] = (IF ok THEN "persist" ELSE "rollback") BY <1>1, <2>2 DEF SendMail, AfterSend
    <3>3. ok => mail'[run[v].job] > 0
      BY <1>1, <2>2, <3>1, Bounds DEF SendMail
    <3> QED BY <3>1, <3>2, <3>3 DEF RunRecorded
  <2>3. CASE Persist(v)
    <3> DEFINE j == run[v].job
    <3>1. /\ run' = run /\ mail' = mail /\ skipped' = skipped /\ j \in Jobs /\ mail[j] > 0
          /\ pc' = [pc EXCEPT ![v] = pc'[v]] /\ pc'[v] \in {"finish", "rollback"}
      BY <1>1, <2>3 DEF Persist, RunShape, RunRecorded, deliveryVars, AfterFailedPersist
    <3>2. ASSUME pc'[v] = "finish" PROVE SentAndKept(j)'
      <4>1. CASE JobLead[j] = NoLead BY <3>1, <4>1 DEF SentAndKept
      <4>2. CASE JobLead[j] # NoLead
        <5>1. /\ lead' = [lead EXCEPT ![JobLead[j]] = "sent"]
              /\ outbound' = [outbound EXCEPT ![j] = @ + 1]
          BY <1>1, <2>3, <3>2, <4>2 DEF Persist, AfterFailedPersist
        <5>2. JobLead[j] \in Leads BY <3>1, <4>2, TypedMaps
        <5> QED BY <1>1, <3>1, <5>1, <5>2 DEF SentAndKept
      <4> QED BY <4>1, <4>2
    <3> QED BY <3>1, <3>2 DEF RunRecorded
  <2>4. CASE Lookup(v) \/ PickTemplate(v) \/ Rollback(v) \/ Finish(v) \/ FailAttempt(v)
    <3>1. pc'[v] \notin {"persist", "finish"}
      BY <1>1, <2>4 DEF Lookup, PickTemplate, Rollback, Finish, FailAttempt
    <3> QED BY <1>3, <3>1
  <2> QED BY <1>5, <2>1, <2>2, <2>3, <2>4 DEF Step
<1>6. ASSUME Crash(v) \/ \E k \in Jobs: Take(v, k) PROVE RunRecorded(v)'
  <2>1. pc'[v] \notin {"persist", "finish"} BY <1>1, <1>6 DEF Crash, Take
  <2> QED BY <1>3, <2>1
<1>7. ASSUME \/ \E k \in Jobs: StallCheck(k) \/ HandOverLate(k)
             \/ ResetDailyUsage
             \/ Api
             \/ UNCHANGED vars
      PROVE  RunRecorded(v)'
  <2>1. UNCHANGED <<pc, run>>
    BY <1>7
       DEF StallCheck, HandOverLate, ResetDailyUsage, Api, Submit, CreateSender, UpdateSender, DeleteSender,
           ChangeTemplates, DeleteLead, workerVars, vars
  <2> QED BY <1>2, <2>1
<1> QED BY <1>4, <1>5, <1>6, <1>7 DEF Next

\* Only a run at finish, with its lock, completes a job.
LEMMA CompletedBy ==
  ASSUME Shape, [Next]_vars, NEW j \in Jobs, queue'[j].status = "completed",
         queue[j].status # "completed"
  PROVE  \E w \in Workers: pc[w] = "finish" /\ run[w].job = j
<1>1. queue \in [Jobs -> Entry] BY DEF Shape, TypeOK
<1>2. ASSUME NEW w \in Workers, Finish(w) PROVE pc[w] = "finish" /\ run[w].job = j
  BY <1>1, <1>2 DEF Finish
<1>3. ASSUME UNCHANGED queue PROVE FALSE BY <1>3
<1>4. ASSUME NEW w \in Workers,
             \/ Lookup(w) \/ Reserve(w) \/ PickTemplate(w) \/ Persist(w) \/ Rollback(w) \/ Crash(w)
             \/ \E n, k \in 0..MaxCopies, ok \in BOOLEAN: SendMail(w, n, k, ok)
      PROVE  FALSE
  BY <1>3, <1>4 DEF Lookup, Reserve, PickTemplate, Persist, Rollback, Crash, SendMail
<1>5. ASSUME NEW w \in Workers, FailAttempt(w) PROVE FALSE
  BY <1>1, <1>5 DEF FailAttempt
<1>6. ASSUME NEW w \in Workers, NEW k \in Jobs, Take(w, k) PROVE FALSE
  BY <1>1, <1>6 DEF Take
<1>7. ASSUME NEW k \in Jobs, StallCheck(k) PROVE FALSE
  BY <1>1, <1>7 DEF StallCheck
<1>8. ASSUME NEW S \in SUBSET Jobs, Submit(S) PROVE FALSE
  <2>1. queue'[j].status = IF j \in S THEN "waiting" ELSE queue[j].status
    BY <1>1, <1>8 DEF Submit, Entry
  <2> QED BY <2>1
<1>9. ASSUME \/ \E k \in Jobs: HandOverLate(k)
             \/ ResetDailyUsage
             \/ \E s \in Senders, n \in Limits, b \in BOOLEAN:
                  CreateSender(s, n, b) \/ UpdateSender(s, n, b)
             \/ \E s \in Senders: DeleteSender(s) \/ ChangeTemplates(s)
             \/ \E l \in Leads: DeleteLead(l)
             \/ UNCHANGED vars
      PROVE  FALSE
  BY <1>3, <1>9
     DEF HandOverLate, ResetDailyUsage, CreateSender, UpdateSender, DeleteSender, ChangeTemplates, DeleteLead,
         vars
<1> QED BY <1>2, <1>4, <1>5, <1>6, <1>7, <1>8, <1>9 DEF Next, Step, Api

LEMMA RecordedStep == Shape /\ Recorded /\ [Next]_vars => Recorded'
<1> SUFFICES ASSUME Shape, Recorded, [Next]_vars PROVE Recorded'
  OBVIOUS
<1>1. \A v \in Workers: RunRecorded(v)' BY RunsKeepRecord
<1>2. ASSUME NEW j \in Jobs, queue'[j].status = "completed", j \notin skipped'
      PROVE  SentAndKept(j)'
  <2>1. j \notin skipped BY <1>2, KeptStays
  <2>2. CASE queue[j].status = "completed"
    <3>1. SentAndKept(j) BY <2>1, <2>2 DEF Recorded, CompletedMeansRecorded, SentAndKept
    <3> QED BY <3>1, KeptStays
  <2>3. CASE queue[j].status # "completed"
    <3>1. PICK w \in Workers: pc[w] = "finish" /\ run[w].job = j BY <1>2, <2>3, CompletedBy
    <3>2. SentAndKept(j) BY <2>1, <3>1 DEF Recorded, RunRecorded
    <3> QED BY <3>2, KeptStays
  <2> QED BY <2>2, <2>3
<1>3. CompletedMeansRecorded' BY <1>2 DEF CompletedMeansRecorded, SentAndKept
<1> QED BY <1>1, <1>3 DEF Recorded

\* SendOneUseCase and BullMQ's completion: a completed job was refused by the quota, or
\* handed over and recorded on its lead, whatever retries, crashes and deletions do.
THEOREM CompletedJobsAreRecorded == Spec => []CompletedMeansRecorded
<1>1. Spec => []Shape BY ShapeInit, ShapeStep, PTL DEF Spec
<1>2. Spec => []Recorded BY <1>1, RecordedInit, RecordedStep, PTL DEF Spec
<1>3. Recorded => CompletedMeansRecorded BY DEF Recorded
<1> QED BY <1>2, <1>3, PTL

-----------------------------------------------------------------------------
(* The history *)

\* Runs whose mail was accepted and is not recorded yet.
Unrecorded(j) == {w \in Workers: run[w].job = j /\ pc[w] = "persist"}

\* Each of them, and each row, has a mail of its own behind it.
Backed(j) == outbound[j] + Cardinality(Unrecorded(j)) <= mail[j]

History == \A j \in Jobs: Backed(j)

LEMMA UnrecordedFinite ==
  ASSUME NEW j
  PROVE  IsFiniteSet(Unrecorded(j)) /\ Cardinality(Unrecorded(j)) \in Nat
<1>1. Unrecorded(j) \subseteq Workers BY DEF Unrecorded
<1> QED BY <1>1, FiniteActors, FS_Subset, FS_CardinalityType

LEMMA HistoryInit == Init => History
<1> SUFFICES ASSUME Init, NEW j \in Jobs PROVE Backed(j)
  BY DEF History
<1>1. Unrecorded(j) = {} BY DEF Init, Unrecorded
<1>2. Cardinality(Unrecorded(j)) = 0 BY <1>1, FS_EmptySet
<1> QED BY <1>2 DEF Init, Backed

\* The step of one worker: a run comes to persist with a mail, or leaves it with at most
\* one row.
LEMMA BackedMoves ==
  ASSUME Shape, Shape', NEW j \in Jobs, Backed(j), NEW w \in Workers,
         \A v \in Workers: v # w => (v \in Unrecorded(j)' <=> v \in Unrecorded(j))
  PROVE  /\ /\ w \in Unrecorded(j)' => w \in Unrecorded(j)
            /\ mail'[j] >= mail[j] /\ outbound'[j] <= outbound[j]
            => Backed(j)'
         /\ mail'[j] > mail[j] /\ outbound'[j] <= outbound[j] => Backed(j)'
         /\ /\ w \in Unrecorded(j) /\ w \notin Unrecorded(j)'
            /\ mail'[j] >= mail[j] /\ outbound'[j] <= outbound[j] + 1
            => Backed(j)'
<1> DEFINE before == Unrecorded(j)
           after == Unrecorded(j)'
           p == Cardinality(before)
           q == Cardinality(after)
<1>1. before \subseteq Workers /\ after \subseteq Workers BY DEF Unrecorded
<1>2. IsFiniteSet(before) /\ p \in Nat BY UnrecordedFinite
<1>3. q = p + (IF w \in after THEN 1 ELSE 0) - (IF w \in before THEN 1 ELSE 0)
  <2>1. CASE w \in after <=> w \in before
    <3>1. after = before BY <1>1, <2>1
    <3> QED BY <1>2, <2>1, <3>1
  <2>2. CASE w \in after /\ w \notin before
    <3>1. after = before \cup {w} BY <1>1, <2>2
    <3>2. q = p + 1 BY <1>2, <2>2, <3>1, FS_AddElement
    <3> QED BY <1>2, <2>2, <3>2
  <2>3. CASE w \notin after /\ w \in before
    <3>1. after = before \ {w} BY <1>1, <2>3
    <3>2. q = p - 1 BY <1>2, <2>3, <3>1, FS_RemoveElement
    <3> QED BY <1>2, <2>3, <3>2
  <2> QED BY <2>1, <2>2, <2>3
<1>4. /\ mail[j] \in Nat /\ mail'[j] \in Nat
      /\ outbound[j] \in Nat /\ outbound'[j] \in Nat
  BY DEF Shape, TypeOK
<1>5. outbound[j] + p <= mail[j] BY DEF Backed
<1>6. Backed(j)' <=> outbound'[j] + q <= mail'[j] BY DEF Backed
<1> HIDE DEF before, after, p, q
<1>7. (w \in after => w \in before) => q <= p BY <1>2, <1>3
<1>8. q <= p + 1 /\ q \in Int BY <1>2, <1>3
<1>9. w \in before /\ w \notin after => q = p - 1 BY <1>2, <1>3
<1> QED BY <1>2, <1>4, <1>5, <1>6, <1>7, <1>8, <1>9 DEF before, after

LEMMA HistoryStep == Shape /\ Shape' /\ History /\ [Next]_vars => History'
<1> SUFFICES ASSUME Shape, Shape', History, [Next]_vars, NEW j \in Jobs PROVE Backed(j)'
  BY DEF History
<1> USE DEF senderVars, leadVars, ledgerVars, deliveryVars, workerVars
<1>1. /\ Backed(j)
      /\ pc \in [Workers -> Steps] /\ run \in [Workers -> Run]
      /\ mail \in [Jobs -> Nat] /\ outbound \in [Jobs -> Nat]
      /\ mail[j] \in Nat /\ outbound[j] \in Nat
  BY DEF History, Shape, TypeOK
<1>2. ASSUME UNCHANGED <<pc, run, mail, outbound>> PROVE Backed(j)'
  <2>1. Unrecorded(j)' = Unrecorded(j) BY <1>2 DEF Unrecorded
  <2> QED BY <1>1, <1>2, <2>1 DEF Backed
<1>3. ASSUME NEW w \in Workers, \A v \in Workers: v # w => pc'[v] = pc[v] /\ run'[v] = run[v]
      PROVE  \A v \in Workers: v # w => (v \in Unrecorded(j)' <=> v \in Unrecorded(j))
  BY <1>3 DEF Unrecorded
<1>4. ASSUME NEW w \in Workers, Step(w) \/ Crash(w) \/ \E k \in Jobs: Take(w, k)
      PROVE  \A v \in Workers: v # w => (v \in Unrecorded(j)' <=> v \in Unrecorded(j))
  <2>1. \A v \in Workers: v # w => pc'[v] = pc[v] /\ run'[v] = run[v]
    BY <1>1, <1>4
       DEF Step, Lookup, Reserve, PickTemplate, SendMail, Persist, Rollback, Finish, FailAttempt,
           Crash, Take, Goto, Leave
  <2> QED BY <1>3, <2>1
<1>5. ASSUME NEW w \in Workers,
             Lookup(w) \/ Reserve(w) \/ PickTemplate(w) \/ Rollback(w) \/ Finish(w)
               \/ FailAttempt(w) \/ Crash(w) \/ \E k \in Jobs: Take(w, k)
      PROVE  Backed(j)'
  <2>1. mail'[j] = mail[j] /\ outbound'[j] = outbound[j]
    BY <1>5 DEF Lookup, Reserve, PickTemplate, Rollback, Finish, FailAttempt, Crash, Take
  <2>2. pc'[w] # "persist"
    BY <1>1, <1>5
       DEF Lookup, Reserve, PickTemplate, Rollback, Finish, FailAttempt, Crash, Take, Goto, Leave
  <2>3. w \notin Unrecorded(j)' BY <2>2 DEF Unrecorded
  <2>4. mail'[j] >= mail[j] /\ outbound'[j] <= outbound[j] BY <1>1, <2>1
  <2> QED BY <1>1, <1>4, <1>5, <2>3, <2>4, BackedMoves DEF Step
<1>6. ASSUME NEW w \in Workers, NEW n \in 0..MaxCopies, NEW k \in 0..MaxCopies,
             NEW ok \in BOOLEAN, SendMail(w, n, k, ok)
      PROVE  Backed(j)'
  <2>1. n \in Nat /\ (ok => n > 0) /\ outbound' = outbound /\ run' = run
    BY <1>6, Bounds DEF SendMail
  <2>2. mail'[j] = (IF run[w].job = j THEN mail[j] + n ELSE mail[j])
    BY <1>1, <1>6 DEF SendMail
  <2>3. outbound'[j] <= outbound[j] /\ mail'[j] >= mail[j] BY <1>1, <2>1, <2>2
  <2>4. CASE w \in Unrecorded(j)'
    <3>1. run[w].job = j /\ ok
      BY <1>1, <1>6, <2>1, <2>4 DEF SendMail, Unrecorded, Goto, AfterSend
    <3>2. mail'[j] > mail[j] BY <1>1, <2>1, <2>2, <3>1
    <3> QED BY <1>1, <1>4, <1>6, <2>3, <3>2, BackedMoves DEF Step
  <2>5. CASE w \notin Unrecorded(j)'
    BY <1>1, <1>4, <1>6, <2>3, <2>5, BackedMoves DEF Step
  <2> QED BY <2>4, <2>5
<1>7. ASSUME NEW w \in Workers, Persist(w) PROVE Backed(j)'
  <2>1. mail' = mail /\ pc[w] = "persist" /\ pc'[w] # "persist"
    BY <1>1, <1>7 DEF Persist, Goto, AfterFailedPersist
  <2>2. w \notin Unrecorded(j)' BY <2>1 DEF Unrecorded
  <2>3. CASE run[w].job = j
    <3>1. w \in Unrecorded(j) BY <2>1, <2>3 DEF Unrecorded
    <3>2. outbound'[j] \in {outbound[j], outbound[j] + 1} BY <1>1, <1>7, <2>3 DEF Persist
    <3>3. outbound'[j] <= outbound[j] + 1 /\ mail'[j] >= mail[j] BY <1>1, <2>1, <3>2
    <3> QED BY <1>1, <1>4, <1>7, <2>2, <3>1, <3>3, BackedMoves DEF Step
  <2>4. CASE run[w].job # j
    <3>1. outbound'[j] = outbound[j] BY <1>1, <1>7, <2>4 DEF Persist
    <3>2. outbound'[j] <= outbound[j] /\ mail'[j] >= mail[j] BY <1>1, <2>1, <3>1
    <3> QED BY <1>1, <1>4, <1>7, <2>2, <3>2, BackedMoves DEF Step
  <2> QED BY <2>3, <2>4
<1>8. ASSUME NEW l \in Leads, DeleteLead(l) PROVE Backed(j)'
  <2>1. UNCHANGED <<pc, run, mail>> /\ outbound'[j] \in {0, outbound[j]}
    BY <1>8 DEF DeleteLead
  <2>2. Unrecorded(j)' = Unrecorded(j) BY <2>1 DEF Unrecorded
  <2>3. Cardinality(Unrecorded(j)) \in Nat BY UnrecordedFinite
  <2> QED BY <1>1, <2>1, <2>2, <2>3 DEF Backed
<1>9. ASSUME \/ \E k \in Jobs: StallCheck(k)
             \/ ResetDailyUsage
             \/ \E S \in SUBSET Jobs: Submit(S)
             \/ \E s \in Senders, n \in Limits, b \in BOOLEAN:
                  CreateSender(s, n, b) \/ UpdateSender(s, n, b)
             \/ \E s \in Senders: DeleteSender(s) \/ ChangeTemplates(s)
             \/ UNCHANGED vars
      PROVE  Backed(j)'
  <2>1. UNCHANGED <<pc, run, mail, outbound>>
    BY <1>9
       DEF StallCheck, ResetDailyUsage, Submit, CreateSender, UpdateSender, DeleteSender,
           ChangeTemplates, vars
  <2> QED BY <1>2, <2>1
<1>10. ASSUME NEW i \in Jobs, HandOverLate(i) PROVE Backed(j)'
  <2>1. UNCHANGED <<pc, run, outbound>> BY <1>10 DEF HandOverLate
  <2>2. Unrecorded(j)' = Unrecorded(j) BY <2>1 DEF Unrecorded
  <2>3. mail'[j] \in Nat /\ mail'[j] >= mail[j] BY <1>1, <1>10, LateCounts
  <2>4. Cardinality(Unrecorded(j)) \in Nat BY UnrecordedFinite
  <2> QED BY <1>1, <2>1, <2>2, <2>3, <2>4 DEF Backed
<1> QED BY <1>5, <1>6, <1>7, <1>8, <1>9, <1>10 DEF Next, Step, Api

\* persistOutbound: the history never shows a mail that no provider accepted, although a
\* transaction may commit twice for one job.
THEOREM HistoryStaysReal == Spec => []HistoryIsReal
<1>1. Spec => []Shape BY ShapeInit, ShapeStep, PTL DEF Spec
<1>2. Spec => []History BY <1>1, HistoryInit, HistoryStep, PTL DEF Spec
<1>3. Shape /\ History => HistoryIsReal
  <2> SUFFICES ASSUME Shape, History, NEW j \in Jobs PROVE outbound[j] <= mail[j]
    BY DEF HistoryIsReal
  <2>1. Backed(j) /\ mail[j] \in Nat /\ outbound[j] \in Nat BY DEF History, Shape, TypeOK
  <2>2. Cardinality(Unrecorded(j)) \in Nat BY UnrecordedFinite
  <2> QED BY <2>1, <2>2 DEF Backed
<1> QED BY <1>1, <1>2, <1>3, PTL
=============================================================================

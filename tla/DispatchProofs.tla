--------------------------- MODULE DispatchProofs ---------------------------
(***************************************************************************)
(* Theorems about Dispatch, for every number of workers, senders and jobs, *)
(* every limit, every bound and every set of faults.                       *)
(*                                                                         *)
(* The invariant has three layers. Shape says which program counters go    *)
(* with which queue entries and which reservations. Given Shape, Counter   *)
(* bounds today_usage by the row's highest limit, and Account relates it   *)
(* to the mails accepted: both are needed to bound the mails of a day.     *)
(***************************************************************************)
EXTENDS Dispatch, FiniteSetTheorems, SequenceTheorems, TLAPS

\* An entry has an owner exactly while it is active, has attempts and stalls left
\* until it settles, and fails having used up one of the two.
EntryShape(j) ==
  /\ queue[j].status = "active" <=> queue[j].owner # Null
  /\ queue[j].status # "failed" => queue[j].made < Attempts /\ queue[j].stalls <= MaxStalls
  /\ queue[j].made + queue[j].stalls <= Attempts + MaxStalls

\* Which runs have a job, a sender and a reservation. A run on its way to finish
\* holds no unspent slot; only a row with a counter was ever reserved from.
RunShape(w) ==
  /\ pc[w] # "idle" => run[w].job \in Jobs
  /\ pc[w] \in {"reserve", "template", "send", "persist", "rollback"} =>
       run[w].sender \in Senders
  /\ pc[w] = "reserve" =>
       row[run[w].sender].phase # "unborn" /\ run[w].limit <= peak[run[w].sender]
  /\ pc[w] \in {"idle", "lookup", "reserve", "fail"} => hold[w] = "none"
  /\ pc[w] \in {"persist", "finish"} => hold[w] # "fresh"
  /\ hold[w] # "none" => run[w].sender \in Senders /\ usage[run[w].sender] # Null
  /\ pc[w] \in {"template", "send", "persist", "rollback"} => hold[w] # "none"

QueueOK == \A j \in Jobs: EntryShape(j)
RunsOK == \A w \in Workers: RunShape(w)

\* peak is what it says: the limits of a run's lookup cannot exceed it. A row has no
\* counter before it exists.
RowsOK == \A s \in Senders:
  /\ row[s].limit <= peak[s]
  /\ row[s].phase = "unborn" => usage[s] = Null

Shape == TypeOK /\ QueueOK /\ RunsOK /\ RowsOK

\* Rows nobody can send from included: they keep their last counter.
Counter == \A s \in Senders: usage[s] # Null => usage[s] <= peak[s]

Account == \A s \in Senders: usage[s] # Null =>
  usage[s] = accepted[s] + Cardinality(Unspent(s)) + leaked[s] - excess[s]

-----------------------------------------------------------------------------
(* Shape *)

(* Records stay records under the updates the actions make. *)

Statuses == {"absent", "waiting", "active", "completed", "failed"}

LEMMA InitialRows ==
  {Unborn} \cup [phase: {"live"}, limit: Limits, backed: BOOLEAN, stocked: BOOLEAN]
    \subseteq Row
<1>1. Unborn \in Row
  BY DEF Row, Unborn
<1>2. Limits \subseteq Nat
  BY TypedMaps
<1>3. [phase: {"live"}, limit: Limits, backed: BOOLEAN, stocked: BOOLEAN] \subseteq Row
  BY <1>2 DEF Row
<1>4. QED
  BY <1>1, <1>3

LEMMA RowUpdates ==
  ASSUME NEW r \in Row, NEW n \in Nat, NEW b \in BOOLEAN
  PROVE  /\ [r EXCEPT !.limit = n, !.backed = b] \in Row
         /\ [r EXCEPT !.phase = "live", !.limit = n, !.backed = b] \in Row
  BY DEF Row

LEMMA EntryUpdates ==
  ASSUME NEW e \in Entry, NEW status \in Statuses, NEW made \in 0..Attempts,
         NEW stalls \in 0..(MaxStalls + 1), NEW owner \in Workers \cup {Null}
  PROVE  /\ [e EXCEPT !.status = status] \in Entry
         /\ [e EXCEPT !.status = status, !.owner = owner] \in Entry
         /\ [e EXCEPT !.status = status, !.made = made, !.owner = owner] \in Entry
         /\ [e EXCEPT !.status = status, !.stalls = stalls, !.owner = owner] \in Entry
  BY DEF Entry, Statuses

\* The tries of a job that are given up, and one of them that is heard of no more.
LEMMA LateGrows ==
  ASSUME NEW q \in Tries, NEW s \in Senders, NEW k \in Nat
  PROVE  With(q, s, k) \in Tries /\ Len(With(q, s, k)) = Len(q) + k
<1> DEFINE more == [i \in 1..k |-> s]
<1>1. more \in Seq(Senders) /\ Len(more) = k
  OBVIOUS
<1>2. q \in Seq(Senders)
  BY DEF Tries
<1> HIDE DEF more
<1>3. q \o more \in Seq(Senders) /\ Len(q \o more) = Len(q) + Len(more)
  BY <1>1, <1>2, ConcatProperties
<1>4. QED
  BY <1>1, <1>3 DEF With, Tries, more

LEMMA LateShrinks ==
  ASSUME NEW q \in Tries, NEW i \in 1..Len(q)
  PROVE  /\ q[i] \in Senders
         /\ Without(q, i) \in Tries /\ Len(Without(q, i)) = Len(q) - 1
<1> DEFINE before == SubSeq(q, 1, i - 1)
           after == SubSeq(q, i + 1, Len(q))
<1>1. q \in Seq(Senders)
  BY DEF Tries
<1>2. Len(q) \in Nat /\ i \in Nat /\ 1 <= i /\ i <= Len(q)
  BY <1>1, LenProperties
<1>3. \A x \in 1..Len(q): q[x] \in Senders
  BY <1>1, ElementOfSeq
<1>4. before \in Seq(Senders) /\ Len(before) = i - 1
  <2>1. 1 \in Int /\ i - 1 \in Int /\ \A x \in 1..(i - 1): q[x] \in Senders
    BY <1>2, <1>3
  <2>2. /\ SubSeq(q, 1, i - 1) \in Seq(Senders)
        /\ Len(SubSeq(q, 1, i - 1)) = IF 1 <= i - 1 THEN i - 1 - 1 + 1 ELSE 0
    BY <2>1, SubSeqProperties
  <2>3. QED
    BY <1>2, <2>2
<1>5. after \in Seq(Senders) /\ Len(after) = Len(q) - i
  <2>1. i + 1 \in Int /\ Len(q) \in Int /\ \A x \in (i + 1)..Len(q): q[x] \in Senders
    BY <1>2, <1>3
  <2>2. /\ SubSeq(q, i + 1, Len(q)) \in Seq(Senders)
        /\ Len(SubSeq(q, i + 1, Len(q))) = IF i + 1 <= Len(q) THEN Len(q) - (i + 1) + 1 ELSE 0
    BY <2>1, SubSeqProperties
  <2>3. QED
    BY <1>2, <2>2
<1> HIDE DEF before, after
<1>6. before \o after \in Seq(Senders) /\ Len(before \o after) = Len(before) + Len(after)
  BY <1>4, <1>5, ConcatProperties
<1>7. Without(q, i) = before \o after
  BY DEF Without, before, after
<1>8. Len(before) + Len(after) = Len(q) - 1
  BY <1>2, <1>4, <1>5
<1>9. q[i] \in Senders
  BY <1>3
<1>10. QED
  BY <1>6, <1>7, <1>8, <1>9 DEF Tries

LEMMA ShapeInit == Init => Shape
<1> SUFFICES ASSUME Init PROVE Shape
  OBVIOUS
<1> USE TypedMaps, Sentinels, Bounds
<1>1. row \in [Senders -> Row] /\ peak \in [Senders -> Nat]
  <2>1. {Unborn} \cup [phase: {"live"}, limit: Limits, backed: BOOLEAN, stocked: BOOLEAN]
          \subseteq Row
    BY InitialRows
  <2>2. row \in [Senders -> Row]
    BY <2>1 DEF Init
  <2>3. \A s \in Senders: row[s].limit \in Nat
    BY <2>2 DEF Row
  <2>4. QED
    BY <2>2, <2>3 DEF Init
<1>2. queue \in [Jobs -> Entry]
  BY DEF Init, Entry, NotQueued
<1>3. run \in [Workers -> Run] /\ pc \in [Workers -> Steps] /\ hold \in [Workers -> Holds]
  BY DEF Init, Run, NoRun, Steps, Holds
<1>4. usage \in [Senders -> Int \cup {Null}]
  BY DEF Init
<1>5. late \in [Jobs -> Tries]
  <2>1. <<>> \in Tries
    BY EmptySeq DEF Tries
  <2>2. QED
    BY <2>1 DEF Init
<1>6. TypeOK
  BY <1>1, <1>2, <1>3, <1>4, <1>5 DEF Init, TypeOK
<1>7. QueueOK
  BY DEF Init, QueueOK, EntryShape, NotQueued
<1>8. RunsOK
  BY DEF Init, RunsOK, RunShape
<1>9. RowsOK
  BY <1>1 DEF Init, RowsOK, Row, Live, Unborn
<1>10. QED
  BY <1>6, <1>7, <1>8, <1>9 DEF Shape

LEMMA ShapeStep == Shape /\ [Next]_vars => Shape'
<1> SUFFICES ASSUME Shape, [Next]_vars PROVE Shape'
  OBVIOUS
<1> USE TypedMaps, Sentinels, Bounds
<1> USE DEF Shape, Upset, Fault, Calm, Goto, Leave,
            senderVars, leadVars, ledgerVars, deliveryVars, workerVars
<1>1. ASSUME NEW S \in SUBSET Jobs, Submit(S)
      PROVE  Shape'
  <2>1. TypeOK'
    <3>1. ASSUME NEW j \in Jobs PROVE [queue[j] EXCEPT !.status = "waiting"] \in Entry
      <4>1. /\ queue[j] \in Entry /\ "waiting" \in Statuses /\ Null \in Workers \cup {Null}
            /\ 0 \in 0..Attempts /\ 0 \in 0..(MaxStalls + 1)
        BY DEF TypeOK, Statuses
      <4>2. QED
        BY <4>1, EntryUpdates
    <3>2. queue' \in [Jobs -> Entry]
      BY <1>1, <3>1 DEF TypeOK, Submit
    <3>3. QED
      BY <1>1, <3>2 DEF TypeOK, Submit
  <2>2. ASSUME NEW k \in Jobs PROVE EntryShape(k)'
    BY <1>1 DEF TypeOK, RunsOK, RunShape, QueueOK, EntryShape, Entry, Run, Submit
  <2>3. ASSUME NEW v \in Workers PROVE RunShape(v)'
    BY <1>1 DEF TypeOK, RunsOK, RunShape, Row, Run, Steps, Holds, Submit
  <2>4. RowsOK'
    BY <1>1 DEF RowsOK, Submit
  <2>5. QED
    BY <2>1, <2>2, <2>3, <2>4 DEF QueueOK, RunsOK
<1>2. ASSUME NEW w \in Workers, NEW j \in Jobs, Take(w, j)
      PROVE  Shape'
  <2>1. TypeOK'
    <3>1. queue' \in [Jobs -> Entry]
      <4>1. [queue[j] EXCEPT !.status = "active", !.owner = w] \in Entry
        <5>1. queue[j] \in Entry /\ "active" \in Statuses /\ w \in Workers \cup {Null}
          BY DEF TypeOK, Statuses
        <5>2. 0 \in 0..Attempts /\ 0 \in 0..(MaxStalls + 1)
          OBVIOUS
        <5>3. QED
          BY <5>1, <5>2, EntryUpdates
      <4>2. queue' = [queue EXCEPT ![j] = [queue[j] EXCEPT !.status = "active", !.owner = w]]
        BY <1>2 DEF TypeOK, Entry, Take
      <4>3. QED
        BY <4>1, <4>2 DEF TypeOK
    <3>2. run' \in [Workers -> Run] /\ pc' \in [Workers -> Steps]
      BY <1>2 DEF TypeOK, Run, Steps, Take
    <3>3. QED
      BY <1>2, <3>1, <3>2 DEF TypeOK, Take
  <2>2. ASSUME NEW k \in Jobs PROVE EntryShape(k)'
    BY <1>2 DEF TypeOK, RunsOK, RunShape, QueueOK, EntryShape, Entry, Run, Take
  <2>3. ASSUME NEW v \in Workers PROVE RunShape(v)'
    BY <1>2 DEF TypeOK, RunsOK, RunShape, Row, Run, Steps, Holds, Take
  <2>4. RowsOK'
    BY <1>2 DEF RowsOK, Take
  <2>5. QED
    BY <2>1, <2>2, <2>3, <2>4 DEF QueueOK, RunsOK
<1>3. ASSUME NEW w \in Workers, Lookup(w)
      PROVE  Shape'
  <2>1. TypeOK'
    <3>1. run' \in [Workers -> Run]
      <4>1. run[w].job \in Jobs
        BY <1>3 DEF RunsOK, RunShape, Lookup
      <4>2. \A s \in Senders: row[s].limit \in Nat /\ row[s].backed \in BOOLEAN
        BY DEF TypeOK, Row
      <4>3. QED
        BY <1>3, <4>1, <4>2 DEF TypeOK, Run, Lookup
    <3>2. pc' \in [Workers -> Steps]
      BY <1>3 DEF TypeOK, Steps, Lookup
    <3>3. QED
      BY <1>3, <3>1, <3>2 DEF TypeOK, Lookup
  <2>2. ASSUME NEW k \in Jobs PROVE EntryShape(k)'
    BY <1>3 DEF TypeOK, RunsOK, RunShape, QueueOK, EntryShape, Entry, Run, Lookup, Live
  <2>3. ASSUME NEW v \in Workers PROVE RunShape(v)'
    <3>1. CASE v = w
      <4>1. hold[w] = "none" /\ run[w].job \in Jobs /\ hold' = hold /\ row' = row
        BY <1>3 DEF RunsOK, RunShape, Lookup
      <4>2. \A s \in Senders: Live(s) => row[s].phase # "unborn" /\ row[s].limit <= peak[s]
        BY DEF RowsOK, Live
      <4>3. QED
        BY <1>3, <3>1, <4>1, <4>2 DEF TypeOK, RunShape, Run, Lookup
    <3>2. CASE v # w
      BY <1>3, <3>2 DEF TypeOK, RunsOK, RunShape, Lookup
    <3>3. QED
      BY <3>1, <3>2
  <2>4. RowsOK'
    BY <1>3 DEF RowsOK, Lookup
  <2>5. QED
    BY <2>1, <2>2, <2>3, <2>4 DEF QueueOK, RunsOK
<1>4. ASSUME NEW w \in Workers, Reserve(w)
      PROVE  Shape'
  <2>1. TypeOK'
    <3>1. run[w].sender \in Senders /\ run[w].job \in Jobs
      BY <1>4 DEF RunsOK, RunShape, Reserve
    <3>2. usage' \in [Senders -> Int \cup {Null}] /\ leaked' \in [Senders -> Nat]
      BY <1>4, <3>1 DEF TypeOK, Reserve, QuotaOpen, Metered, Counted
    <3>3. pc' \in [Workers -> Steps] /\ hold' \in [Workers -> Holds]
      BY <1>4 DEF TypeOK, Steps, Holds, Reserve
    <3>4. QED
      BY <1>4, <3>1, <3>2, <3>3 DEF TypeOK, Reserve
  <2>2. ASSUME NEW k \in Jobs PROVE EntryShape(k)'
    BY <1>4 DEF TypeOK, RunsOK, RunShape, QueueOK, EntryShape, Entry, Run, Reserve, QuotaOpen, Counted, Metered, Live
  <2>3. ASSUME NEW v \in Workers PROVE RunShape(v)'
    BY <1>4 DEF TypeOK, RunsOK, RunShape, Row, Run, Steps, Holds, Reserve, QuotaOpen, Counted, Metered, Live
  <2>4. RowsOK'
    BY <1>4 DEF TypeOK, RunsOK, RunShape, RowsOK, Reserve, QuotaOpen, Metered, Live
  <2>5. QED
    BY <2>1, <2>2, <2>3, <2>4 DEF QueueOK, RunsOK
<1>5. ASSUME NEW w \in Workers, PickTemplate(w)
      PROVE  Shape'
  <2>1. TypeOK'
    <3>1. run[w].sender \in Senders
      BY <1>5 DEF RunsOK, RunShape, PickTemplate
    <3>2. leaked' \in [Senders -> Nat]
      BY <1>5, <3>1 DEF TypeOK, PickTemplate, Abandon
    <3>3. pc' \in [Workers -> Steps] /\ hold' \in [Workers -> Holds]
      BY <1>5 DEF TypeOK, Steps, Holds, PickTemplate, Abandon
    <3>4. QED
      BY <1>5, <3>2, <3>3 DEF TypeOK, PickTemplate
  <2>2. ASSUME NEW k \in Jobs PROVE EntryShape(k)'
    BY <1>5 DEF TypeOK, RunsOK, RunShape, QueueOK, EntryShape, Entry, Run, PickTemplate, Abandon
  <2>3. ASSUME NEW v \in Workers PROVE RunShape(v)'
    BY <1>5 DEF TypeOK, RunsOK, RunShape, Row, Run, Steps, Holds, PickTemplate, Abandon
  <2>4. RowsOK'
    BY <1>5 DEF RowsOK, PickTemplate
  <2>5. QED
    BY <2>1, <2>2, <2>3, <2>4 DEF QueueOK, RunsOK
<1>6. ASSUME NEW w \in Workers, NEW n \in 0..MaxCopies, NEW k \in 0..MaxCopies,
              NEW ok \in BOOLEAN, SendMail(w, n, k, ok)
      PROVE  Shape'
  <2>1. TypeOK'
    <3>1. run[w].job \in Jobs /\ run[w].sender \in Senders /\ n \in Nat /\ k \in Nat
      BY <1>6 DEF RunsOK, RunShape, SendMail
    <3>2. late' \in [Jobs -> Tries]
      <4> DEFINE j == run[w].job
                 more == With(late[j], run[w].sender, k)
      <4>1. late[j] \in Tries
        BY <3>1 DEF TypeOK
      <4>2. more \in Tries
        BY <3>1, <4>1, LateGrows
      <4>3. late' = [late EXCEPT ![j] = more]
        BY <1>6 DEF SendMail
      <4>4. QED
        BY <3>1, <4>2, <4>3 DEF TypeOK
    <3>3. /\ mail' \in [Jobs -> Nat] /\ accepted' \in [Senders -> Nat]
          /\ excess' \in [Senders -> Nat]
      BY <1>6, <3>1 DEF TypeOK, SendMail
    <3>4. pc' \in [Workers -> Steps] /\ hold' \in [Workers -> Holds]
      BY <1>6 DEF TypeOK, Steps, Holds, SendMail, AfterSend
    <3>5. QED
      BY <1>6, <3>2, <3>3, <3>4 DEF TypeOK, SendMail
  <2>2. ASSUME NEW j \in Jobs PROVE EntryShape(j)'
    BY <1>6 DEF QueueOK, EntryShape, SendMail
  <2>3. ASSUME NEW v \in Workers PROVE RunShape(v)'
    BY <1>6 DEF TypeOK, RunsOK, RunShape, Row, Run, Steps, Holds, SendMail, AfterSend
  <2>4. RowsOK'
    BY <1>6 DEF RowsOK, SendMail
  <2>5. QED
    BY <2>1, <2>2, <2>3, <2>4 DEF QueueOK, RunsOK
<1>7. ASSUME NEW w \in Workers, Persist(w)
      PROVE  Shape'
  <2>1. TypeOK'
    <3>1. run[w].job \in Jobs
      BY <1>7 DEF RunsOK, RunShape, Persist
    <3>2. lead' \in [Leads -> {"fresh", "sent", "gone"}] /\ outbound' \in [Jobs -> Nat]
      BY <1>7, <3>1 DEF TypeOK, Persist
    <3>3. pc' \in [Workers -> Steps]
      BY <1>7 DEF TypeOK, Steps, Persist, AfterFailedPersist
    <3>4. QED
      BY <1>7, <3>2, <3>3 DEF TypeOK, Persist
  <2>2. ASSUME NEW k \in Jobs PROVE EntryShape(k)'
    BY <1>7 DEF TypeOK, RunsOK, RunShape, QueueOK, EntryShape, Entry, Run, Persist, CanPersist, AfterFailedPersist, Live
  <2>3. ASSUME NEW v \in Workers PROVE RunShape(v)'
    BY <1>7 DEF TypeOK, RunsOK, RunShape, Row, Run, Steps, Holds, Persist, CanPersist, AfterFailedPersist, Live
  <2>4. RowsOK'
    BY <1>7 DEF RowsOK, Persist
  <2>5. QED
    BY <2>1, <2>2, <2>3, <2>4 DEF QueueOK, RunsOK
<1>8. ASSUME NEW w \in Workers, Rollback(w)
      PROVE  Shape'
  <2>1. TypeOK'
    <3>1. run[w].sender \in Senders /\ usage[run[w].sender] \in Int
      BY <1>8 DEF TypeOK, RunsOK, RunShape, Rollback
    <3>2. usage' \in [Senders -> Int \cup {Null}]
      BY <1>8, <3>1 DEF TypeOK, Rollback, Returned
    <3>3. leaked' \in [Senders -> Nat] /\ excess' \in [Senders -> Nat]
      BY <1>8, <3>1 DEF TypeOK, Rollback, Abandon
    <3>4. pc' \in [Workers -> Steps] /\ hold' \in [Workers -> Holds]
      BY <1>8 DEF TypeOK, Steps, Holds, Rollback, Abandon
    <3>5. upsets' \in Nat
      BY <1>8 DEF TypeOK, Rollback
    <3>6. QED
      BY <1>8, <3>2, <3>3, <3>4, <3>5 DEF TypeOK, Rollback
  <2>2. ASSUME NEW k \in Jobs PROVE EntryShape(k)'
    BY <1>8 DEF TypeOK, RunsOK, RunShape, QueueOK, EntryShape, Entry, Run, Rollback, Returned, Abandon, Live
  <2>3. ASSUME NEW v \in Workers PROVE RunShape(v)'
    BY <1>8 DEF TypeOK, RunsOK, RunShape, Row, Run, Steps, Holds, Rollback, Returned, Abandon, Live
  <2>4. RowsOK'
    BY <1>8 DEF TypeOK, RunsOK, RunShape, RowsOK, Rollback, Live
  <2>5. QED
    BY <2>1, <2>2, <2>3, <2>4 DEF QueueOK, RunsOK
<1>9. ASSUME NEW w \in Workers, Finish(w)
      PROVE  Shape'
  <2>1. TypeOK'
    <3>1. queue' \in [Jobs -> Entry]
      <4> DEFINE j == run[w].job
                 entry == [queue[j] EXCEPT !.status = "completed", !.owner = Null]
      <4>1. j \in Jobs
        BY <1>9 DEF RunsOK, RunShape, Finish
      <4>2. entry \in Entry
        <5>1. /\ queue[j] \in Entry /\ "completed" \in Statuses /\ Null \in Workers \cup {Null}
              /\ 0 \in 0..Attempts /\ 0 \in 0..(MaxStalls + 1)
          BY <4>1 DEF TypeOK, Statuses
        <5>2. QED
          BY <5>1, EntryUpdates
      <4>3. queue' = queue \/ queue' = [queue EXCEPT ![j] = entry]
        BY <1>9, <4>1 DEF TypeOK, Entry, Finish
      <4>4. QED
        BY <4>1, <4>2, <4>3 DEF TypeOK
    <3>2. run' \in [Workers -> Run] /\ pc' \in [Workers -> Steps] /\ hold' \in [Workers -> Holds]
      BY <1>9 DEF TypeOK, Run, Steps, Holds, NoRun, Finish
    <3>3. QED
      BY <1>9, <3>1, <3>2 DEF TypeOK, Finish
  <2>2. ASSUME NEW k \in Jobs PROVE EntryShape(k)'
    BY <1>9 DEF TypeOK, RunsOK, RunShape, QueueOK, EntryShape, Entry, Run, Finish, NoRun
  <2>3. ASSUME NEW v \in Workers PROVE RunShape(v)'
    BY <1>9 DEF TypeOK, RunsOK, RunShape, Row, Run, Steps, Holds, Finish, NoRun
  <2>4. RowsOK'
    BY <1>9 DEF RowsOK, Finish
  <2>5. QED
    BY <2>1, <2>2, <2>3, <2>4 DEF QueueOK, RunsOK
<1>10. ASSUME NEW w \in Workers, FailAttempt(w)
      PROVE  Shape'
  <2>1. TypeOK'
    <3>1. run[w].job \in Jobs
      BY <1>10 DEF RunsOK, RunShape, FailAttempt
    <3>2. queue' \in [Jobs -> Entry]
      <4>1. CASE queue[run[w].job].owner = w
        <5> DEFINE j == run[w].job
                   status == IF Retries(j) THEN "waiting" ELSE "failed"
                   entry == [queue[j] EXCEPT !.status = status, !.made = @ + 1, !.owner = Null]
        <5>1. queue[j].made < Attempts
          BY <3>1, <4>1 DEF QueueOK, EntryShape
        <5>2. entry \in Entry
          <6>1. queue[j] \in Entry /\ status \in Statuses /\ Null \in Workers \cup {Null}
            BY <3>1 DEF TypeOK, Statuses
          <6>2. queue[j].made + 1 \in 0..Attempts /\ 0 \in 0..(MaxStalls + 1)
            BY <3>1, <5>1, <6>1 DEF Entry
          <6>3. QED
            BY <6>1, <6>2, EntryUpdates
        <5>3. queue' = [queue EXCEPT ![j] = entry]
          BY <1>10, <3>1, <4>1 DEF TypeOK, Entry, FailAttempt
        <5>4. QED
          BY <5>2, <5>3 DEF TypeOK
      <4>2. CASE queue[run[w].job].owner # w
        BY <1>10, <4>2 DEF TypeOK, FailAttempt
      <4>3. QED
        BY <4>1, <4>2
    <3>3. run' \in [Workers -> Run] /\ pc' \in [Workers -> Steps]
      BY <1>10 DEF TypeOK, Run, Steps, NoRun, FailAttempt
    <3>4. QED
      BY <1>10, <3>2, <3>3 DEF TypeOK, FailAttempt
  <2>2. ASSUME NEW k \in Jobs PROVE EntryShape(k)'
    BY <1>10 DEF TypeOK, RunsOK, RunShape, QueueOK, EntryShape, Entry, Run, FailAttempt, Retries, NoRun
  <2>3. ASSUME NEW v \in Workers PROVE RunShape(v)'
    BY <1>10 DEF TypeOK, RunsOK, RunShape, Row, Run, Steps, Holds, FailAttempt, Retries, NoRun
  <2>4. RowsOK'
    BY <1>10 DEF RowsOK, FailAttempt
  <2>5. QED
    BY <2>1, <2>2, <2>3, <2>4 DEF QueueOK, RunsOK
<1>11. ASSUME NEW w \in Workers, Crash(w)
      PROVE  Shape'
  <2>1. TypeOK'
    <3>1. hold[w] = "fresh" => run[w].sender \in Senders
      BY DEF RunsOK, RunShape
    <3>2. leaked' \in [Senders -> Nat] /\ hold' \in [Workers -> Holds]
      BY <1>11, <3>1 DEF TypeOK, Holds, Crash, Abandon
    <3>3. run' \in [Workers -> Run] /\ pc' \in [Workers -> Steps]
      BY <1>11 DEF TypeOK, Run, Steps, Crash, NoRun
    <3>4. upsets' \in Nat
      BY <1>11 DEF TypeOK, Crash
    <3>5. UNCHANGED <<row, usage, lead, outbound, queue, late, mail, skipped, accepted, excess, peak>>
      BY <1>11 DEF Crash
    <3>6. QED
      BY <3>2, <3>3, <3>4, <3>5 DEF TypeOK
  <2>2. ASSUME NEW k \in Jobs PROVE EntryShape(k)'
    BY <1>11 DEF TypeOK, RunsOK, RunShape, QueueOK, EntryShape, Entry, Run, Crash, Abandon, NoRun
  <2>3. ASSUME NEW v \in Workers PROVE RunShape(v)'
    BY <1>11 DEF TypeOK, RunsOK, RunShape, Row, Run, Steps, Holds, Crash, Abandon, NoRun
  <2>4. RowsOK'
    BY <1>11 DEF RowsOK, Crash
  <2>5. QED
    BY <2>1, <2>2, <2>3, <2>4 DEF QueueOK, RunsOK
<1>12. ASSUME NEW j \in Jobs, StallCheck(j)
      PROVE  Shape'
  <2>1. TypeOK'
    BY <1>12 DEF TypeOK, RunsOK, RunShape, QueueOK, EntryShape, Row, Entry, Run, Steps, Holds,
       StallCheck, StallsOut, Orphaned
  <2>2. ASSUME NEW k \in Jobs PROVE EntryShape(k)'
    BY <1>12 DEF TypeOK, RunsOK, RunShape, QueueOK, EntryShape, Entry, Run, StallCheck, StallsOut, Orphaned
  <2>3. ASSUME NEW v \in Workers PROVE RunShape(v)'
    BY <1>12 DEF TypeOK, RunsOK, RunShape, Row, Run, Steps, Holds, StallCheck, StallsOut, Orphaned
  <2>4. RowsOK'
    BY <1>12 DEF RowsOK, StallCheck
  <2>5. QED
    BY <2>1, <2>2, <2>3, <2>4 DEF QueueOK, RunsOK
<1>13. ASSUME ResetDailyUsage
      PROVE  Shape'
  <2>1. TypeOK'
    BY <1>13 DEF TypeOK, RunsOK, RunShape, QueueOK, EntryShape, Row, Entry, Run, Steps, Holds,
       ResetDailyUsage, ResetUsage
  <2>2. ASSUME NEW k \in Jobs PROVE EntryShape(k)'
    BY <1>13 DEF TypeOK, RunsOK, RunShape, QueueOK, EntryShape, Entry, Run, ResetDailyUsage, ResetUsage
  <2>3. ASSUME NEW v \in Workers PROVE RunShape(v)'
    BY <1>13 DEF TypeOK, RunsOK, RunShape, Row, Run, Steps, Holds, ResetDailyUsage, ResetUsage
  <2>4. RowsOK'
    BY <1>13 DEF TypeOK, RunsOK, RunShape, RowsOK, ResetDailyUsage, ResetUsage
  <2>5. QED
    BY <2>1, <2>2, <2>3, <2>4 DEF QueueOK, RunsOK
<1>14. ASSUME NEW s \in Senders, NEW n \in Limits, NEW b \in BOOLEAN,
              CreateSender(s, n, b)
      PROVE  Shape'
  <2>1. TypeOK'
    <3>1. row' \in [Senders -> Row]
      <4>1. [row[s] EXCEPT !.phase = "live", !.limit = n, !.backed = b] \in Row
        <5>1. row[s] \in Row /\ n \in Nat
          BY DEF TypeOK
        <5>2. QED
          BY <5>1, RowUpdates
      <4>2. row' = [row EXCEPT ![s] = [row[s] EXCEPT !.phase = "live", !.limit = n, !.backed = b]]
        BY <1>14 DEF TypeOK, Row, CreateSender
      <4>3. QED
        BY <4>1, <4>2 DEF TypeOK
    <3>2. QED
      BY <1>14, <3>1 DEF TypeOK, CreateSender
  <2>2. ASSUME NEW k \in Jobs PROVE EntryShape(k)'
    BY <1>14 DEF TypeOK, RunsOK, RunShape, QueueOK, EntryShape, Entry, Run, CreateSender
  <2>3. ASSUME NEW v \in Workers PROVE RunShape(v)'
    BY <1>14 DEF TypeOK, RunsOK, RunShape, Row, Run, Steps, Holds, CreateSender
  <2>4. RowsOK'
    BY <1>14 DEF TypeOK, RowsOK, Row, CreateSender
  <2>5. QED
    BY <2>1, <2>2, <2>3, <2>4 DEF QueueOK, RunsOK
<1>15. ASSUME NEW s \in Senders, NEW n \in Limits, NEW b \in BOOLEAN,
              UpdateSender(s, n, b)
      PROVE  Shape'
  <2>1. TypeOK'
    <3>1. row' \in [Senders -> Row]
      <4>1. [row[s] EXCEPT !.limit = n, !.backed = b] \in Row
        <5>1. row[s] \in Row /\ n \in Nat
          BY DEF TypeOK
        <5>2. QED
          BY <5>1, RowUpdates
      <4>2. row' = [row EXCEPT ![s] = [row[s] EXCEPT !.limit = n, !.backed = b]]
        BY <1>15 DEF TypeOK, Row, UpdateSender
      <4>3. QED
        BY <4>1, <4>2 DEF TypeOK
    <3>2. QED
      BY <1>15, <3>1 DEF TypeOK, UpdateSender
  <2>2. ASSUME NEW k \in Jobs PROVE EntryShape(k)'
    BY <1>15 DEF TypeOK, RunsOK, RunShape, QueueOK, EntryShape, Entry, Run, UpdateSender, Live
  <2>3. ASSUME NEW v \in Workers PROVE RunShape(v)'
    BY <1>15 DEF TypeOK, RunsOK, RunShape, Row, Run, Steps, Holds, UpdateSender, Live
  <2>4. RowsOK'
    BY <1>15 DEF TypeOK, RowsOK, Row, UpdateSender
  <2>5. QED
    BY <2>1, <2>2, <2>3, <2>4 DEF QueueOK, RunsOK
<1>16. ASSUME NEW s \in Senders, DeleteSender(s)
      PROVE  Shape'
  <2>1. TypeOK'
    <3>1. row' \in [Senders -> Row]
      BY <1>16 DEF TypeOK, Row, DeleteSender
    <3>2. QED
      BY <1>16, <3>1 DEF TypeOK, DeleteSender
  <2>2. ASSUME NEW k \in Jobs PROVE EntryShape(k)'
    BY <1>16 DEF TypeOK, RunsOK, RunShape, QueueOK, EntryShape, Entry, Run, DeleteSender, Live
  <2>3. ASSUME NEW v \in Workers PROVE RunShape(v)'
    BY <1>16 DEF TypeOK, RunsOK, RunShape, Row, Run, Steps, Holds, DeleteSender, Live
  <2>4. RowsOK'
    BY <1>16 DEF TypeOK, RowsOK, Row, DeleteSender
  <2>5. QED
    BY <2>1, <2>2, <2>3, <2>4 DEF QueueOK, RunsOK
<1>17. ASSUME NEW s \in Senders, ChangeTemplates(s)
      PROVE  Shape'
  <2>1. TypeOK'
    <3>1. row' \in [Senders -> Row]
      <4>1. row[s] \in Row /\ (~ row[s].stocked) \in BOOLEAN
        BY DEF TypeOK, Row
      <4>2. [row[s] EXCEPT !.stocked = ~ row[s].stocked] \in Row
        BY <4>1 DEF Row
      <4>3. row' = [row EXCEPT ![s] = [row[s] EXCEPT !.stocked = ~ row[s].stocked]]
        BY <1>17 DEF ChangeTemplates
      <4>4. QED
        BY <4>2, <4>3 DEF TypeOK
    <3>2. QED
      BY <1>17, <3>1 DEF TypeOK, ChangeTemplates
  <2>2. ASSUME NEW k \in Jobs PROVE EntryShape(k)'
    BY <1>17 DEF TypeOK, RunsOK, RunShape, QueueOK, EntryShape, Entry, Run, ChangeTemplates
  <2>3. ASSUME NEW v \in Workers PROVE RunShape(v)'
    BY <1>17 DEF TypeOK, RunsOK, RunShape, Row, Run, Steps, Holds, ChangeTemplates
  <2>4. RowsOK'
    BY <1>17 DEF TypeOK, RowsOK, Row, ChangeTemplates
  <2>5. QED
    BY <2>1, <2>2, <2>3, <2>4 DEF QueueOK, RunsOK
<1>18. ASSUME NEW l \in Leads, DeleteLead(l)
      PROVE  Shape'
  <2>1. TypeOK'
    BY <1>18 DEF TypeOK, RunsOK, RunShape, QueueOK, EntryShape, Row, Entry, Run, Steps, Holds,
       DeleteLead
  <2>2. ASSUME NEW k \in Jobs PROVE EntryShape(k)'
    BY <1>18 DEF TypeOK, RunsOK, RunShape, QueueOK, EntryShape, Entry, Run, DeleteLead
  <2>3. ASSUME NEW v \in Workers PROVE RunShape(v)'
    BY <1>18 DEF TypeOK, RunsOK, RunShape, Row, Run, Steps, Holds, DeleteLead
  <2>4. RowsOK'
    BY <1>18 DEF RowsOK, DeleteLead
  <2>5. QED
    BY <2>1, <2>2, <2>3, <2>4 DEF QueueOK, RunsOK
<1>19. ASSUME NEW j \in Jobs, HandOverLate(j)
      PROVE  Shape'
  <2>1. PICK i \in 1..Len(late[j]):
          /\ late' = [late EXCEPT ![j] = Without(late[j], i)]
          /\ accepted' = [accepted EXCEPT ![late[j][i]] = @ + 1]
          /\ excess' = [excess EXCEPT ![late[j][i]] = @ + 1]
    BY <1>19 DEF HandOverLate
  <2>2. late[j] \in Tries
    BY DEF TypeOK
  <2>3. Without(late[j], i) \in Tries /\ late[j][i] \in Senders
    BY <2>2, LateShrinks
  <2>4. late' \in [Jobs -> Tries]
    BY <2>1, <2>3 DEF TypeOK
  <2>5. /\ accepted' \in [Senders -> Nat] /\ excess' \in [Senders -> Nat]
        /\ mail' \in [Jobs -> Nat]
    <3> DEFINE s == late[j][i]
    <3>1. /\ s \in Senders
          /\ accepted' = [accepted EXCEPT ![s] = @ + 1] /\ excess' = [excess EXCEPT ![s] = @ + 1]
      BY <2>1, <2>3
    <3>2. mail' = [mail EXCEPT ![j] = @ + 1]
      BY <1>19 DEF HandOverLate
    <3> HIDE DEF s
    <3>3. QED
      BY <3>1, <3>2 DEF TypeOK
  <2>6. UNCHANGED <<row, usage, lead, outbound, queue, pc, hold, run, skipped, leaked, peak, upsets>>
    BY <1>19 DEF HandOverLate
  <2>7. TypeOK'
    BY <2>4, <2>5, <2>6 DEF TypeOK
  <2>8. QED
    BY <2>6, <2>7 DEF QueueOK, RunsOK, RowsOK, EntryShape, RunShape
<1>20. CASE UNCHANGED vars
  BY <1>20 DEF vars, TypeOK, QueueOK, RunsOK, RowsOK, EntryShape, RunShape
<1>21. QED
  BY <1>1, <1>2, <1>3, <1>4, <1>5, <1>6, <1>7, <1>8, <1>9, <1>10, <1>11, <1>12, <1>13, <1>14, <1>15, <1>16, <1>17, <1>18, <1>19, <1>20 DEF Next, Step, Api

\* Every variable keeps its type: the queue's attempt and stall counters never pass
\* what queue.module.ts and BullMQ configure, and no run loses track of its job.
THEOREM TypeCorrect == Spec => []TypeOK
<1>1. Spec => []Shape
  BY ShapeInit, ShapeStep, PTL DEF Spec
<1>2. Shape => TypeOK
  BY DEF Shape
<1>3. QED
  BY <1>1, <1>2, PTL

-----------------------------------------------------------------------------
(* Counter: today_usage stays within the highest limit the row has had *)

LEMMA CounterInit == Init => Counter
<1>1. Init => peak \in [Senders -> Nat]
  BY ShapeInit DEF Shape, TypeOK
<1>2. Init => usage = [s \in Senders |-> IF Live(s) THEN 0 ELSE Null]
  BY DEF Init
<1>3. QED
  BY <1>1, <1>2 DEF Counter

\* Only the reservation raises the counter, from below a limit the row has had.
LEMMA CounterStep == Shape /\ Shape' /\ Counter /\ [Next]_vars => Counter'
<1> SUFFICES ASSUME Shape, Shape', Counter, [Next]_vars,
                    NEW s \in Senders, usage'[s] # Null
             PROVE  usage'[s] <= peak'[s]
  BY DEF Counter
<1>1. usage[s] \in Int \cup {Null} /\ usage'[s] \in Int /\ peak[s] \in Nat /\ peak'[s] \in Nat
  BY DEF Shape, TypeOK
<1>2. usage[s] # Null => usage[s] \in Int /\ usage[s] <= peak[s]
  BY <1>1 DEF Counter
<1>3. CASE UNCHANGED <<usage, peak>>
  BY <1>2, <1>3
<1>4. ASSUME NEW w \in Workers, Reserve(w) PROVE usage'[s] <= peak'[s]
  <2>1. /\ run[w].sender \in Senders /\ run[w].limit <= peak[run[w].sender]
        /\ run[w].limit \in Nat /\ peak' = peak
    BY <1>4 DEF Shape, TypeOK, Run, RunsOK, RunShape, Reserve, senderVars
  <2>2. CASE usage' = usage
    BY <1>2, <2>1, <2>2
  <2>3. CASE QuotaOpen(w) /\ usage' = [usage EXCEPT ![run[w].sender] = Counted(run[w].sender)]
    BY <1>1, <1>2, <2>1, <2>3 DEF Shape, TypeOK, QuotaOpen, Counted, Metered
  <2>4. QED
    BY <1>4, <2>2, <2>3 DEF Reserve
<1>5. ASSUME NEW w \in Workers, Rollback(w) PROVE usage'[s] <= peak'[s]
  <2>1. run[w].sender \in Senders /\ usage[run[w].sender] # Null /\ peak' = peak
    BY <1>5 DEF Shape, RunsOK, RunShape, Rollback, senderVars
  <2>2. QED
    BY <1>1, <1>2, <1>5, <2>1 DEF Shape, TypeOK, Rollback, Returned
<1>6. CASE ResetDailyUsage
  BY <1>1, <1>2, <1>6 DEF ResetDailyUsage, ResetUsage, senderVars
<1>7. ASSUME NEW t \in Senders, NEW n \in Limits, NEW b \in BOOLEAN, CreateSender(t, n, b)
      PROVE  usage'[s] <= peak'[s]
  <2>1. t # s /\ usage' = usage
    BY <1>7 DEF Shape, RowsOK, CreateSender
  <2>2. QED
    BY <1>2, <1>7, <2>1 DEF Shape, TypeOK, CreateSender
<1>8. ASSUME NEW t \in Senders, NEW n \in Limits, NEW b \in BOOLEAN, UpdateSender(t, n, b)
      PROVE  usage'[s] <= peak'[s]
  BY <1>1, <1>2, <1>8, TypedMaps DEF Shape, TypeOK, UpdateSender
<1>9. CASE UNCHANGED vars
  BY <1>3, <1>9 DEF vars
<1>10. QED
  BY <1>3, <1>4, <1>5, <1>6, <1>7, <1>8, <1>9
  DEF Next, Step, Api, Submit, Take, Lookup, PickTemplate, SendMail, Persist, Finish, FailAttempt,
      Crash, StallCheck, HandOverLate, DeleteSender, ChangeTemplates, DeleteLead, senderVars

\* The reservation never counts a sender beyond a limit its row has had: the WHERE
\* clause of the atomic update is enough, under every interleaving of lookups,
\* limit changes, rollbacks and resets.
THEOREM UsageStaysBounded == Spec => []UsageBounded
<1>1. Spec => []Shape
  BY ShapeInit, ShapeStep, PTL DEF Spec
<1>2. Spec => []Counter
  BY <1>1, CounterInit, CounterStep, PTL DEF Spec
<1>3. Counter => UsageBounded
  BY DEF Counter, UsageBounded, Metered
<1>4. QED
  BY <1>2, <1>3, PTL

-----------------------------------------------------------------------------
(* Account: what today_usage stands for *)

LEMMA UnspentFinite ==
  ASSUME NEW s
  PROVE  IsFiniteSet(Unspent(s)) /\ Cardinality(Unspent(s)) \in Nat
<1>1. Unspent(s) \subseteq Workers
  BY DEF Unspent
<1>2. QED
  BY <1>1, FiniteActors, FS_Subset, FS_CardinalityType

\* One worker's step changes the number of unspent slots by that worker alone.
LEMMA UnspentStep ==
  ASSUME NEW s, NEW w \in Workers,
         \A v \in Workers: v # w =>
           (v \in Unspent(s)' <=> v \in Unspent(s))
  PROVE  Cardinality(Unspent(s))' = Cardinality(Unspent(s))
           + (IF w \in Unspent(s)' THEN 1 ELSE 0) - (IF w \in Unspent(s) THEN 1 ELSE 0)
<1> DEFINE before == Unspent(s)
           after == Unspent(s)'
<1>1. before \subseteq Workers /\ after \subseteq Workers
  BY DEF Unspent
<1>2. IsFiniteSet(before) /\ Cardinality(before) \in Nat
  BY UnspentFinite
<1>3. CASE w \in after <=> w \in before
  <2>1. after = before
    BY <1>1, <1>3
  <2>2. QED
    BY <1>2, <1>3, <2>1
<1>4. CASE w \in after /\ w \notin before
  <2>1. after = before \cup {w}
    BY <1>1, <1>4
  <2>2. Cardinality(after) = Cardinality(before) + 1
    BY <1>2, <1>4, <2>1, FS_AddElement
  <2>3. QED
    BY <1>2, <1>4, <2>2
<1>5. CASE w \notin after /\ w \in before
  <2>1. after = before \ {w}
    BY <1>1, <1>5
  <2>2. Cardinality(after) = Cardinality(before) - 1
    BY <1>2, <1>5, <2>1, FS_RemoveElement
  <2>3. QED
    BY <1>2, <1>5, <2>2
<1>6. QED
  BY <1>3, <1>4, <1>5

LEMMA AccountInit == Init => Account
<1> SUFFICES ASSUME Init, NEW s \in Senders, usage[s] # Null
             PROVE  usage[s] = accepted[s] + Cardinality(Unspent(s)) + leaked[s] - excess[s]
  BY DEF Account
<1>1. Unspent(s) = {}
  BY DEF Init, Unspent
<1>2. QED
  BY <1>1, FS_EmptySet DEF Init

\* Each step moves the two sides of the account together.
LEMMA AccountStep == Shape /\ Shape' /\ Account /\ [Next]_vars => Account'
<1> DEFINE Balanced(s) == usage[s] = accepted[s] + Cardinality(Unspent(s)) + leaked[s] - excess[s]
<1> SUFFICES ASSUME Shape, Shape', Account, [Next]_vars, NEW s \in Senders, usage'[s] # Null
             PROVE  Balanced(s)'
  BY DEF Account
<1>1. /\ usage[s] \in Int \cup {Null} /\ usage'[s] \in Int
      /\ accepted[s] \in Nat /\ leaked[s] \in Nat /\ excess[s] \in Nat
      /\ accepted'[s] \in Nat /\ leaked'[s] \in Nat /\ excess'[s] \in Nat
      /\ Cardinality(Unspent(s)) \in Nat
  BY UnspentFinite DEF Shape, TypeOK
<1>2. usage[s] # Null => usage[s] \in Int /\ Balanced(s)
  BY <1>1 DEF Account
<1>3. ASSUME UNCHANGED <<usage, accepted, leaked, excess>>,
             \A v \in Workers: v \in Unspent(s)' <=> v \in Unspent(s)
      PROVE  Balanced(s)'
  <2>1. Unspent(s)' = Unspent(s)
    BY <1>3 DEF Unspent
  <2>2. QED
    BY <1>2, <1>3, <2>1
<1>4. ASSUME NEW w \in Workers, Reserve(w) PROVE Balanced(s)'
  <2>1. run[w].sender \in Senders /\ hold[w] = "none" /\ run' = run
    BY <1>4 DEF Shape, RunsOK, RunShape, Reserve
  <2>2. CASE QuotaOpen(w) /\ Goto(w, "template")
    <3>1. hold' = [hold EXCEPT ![w] = "fresh"] /\ UNCHANGED <<accepted, leaked, excess>>
          /\ usage' = [usage EXCEPT ![run[w].sender] = Counted(run[w].sender)]
      BY <1>4, <2>2 DEF Reserve, Goto, Shape, TypeOK
    <3>2. \A v \in Workers: v # w => (v \in Unspent(s)' <=> v \in Unspent(s))
      BY <2>1, <3>1 DEF Unspent, Shape, TypeOK
    <3>3. (w \in Unspent(s)' <=> s = run[w].sender) /\ w \notin Unspent(s)
      BY <2>1, <3>1 DEF Unspent, Shape, TypeOK
    <3>4. usage[run[w].sender] # Null
      BY <2>2 DEF QuotaOpen, Metered
    <3>5. usage'[s] = usage[s] + (IF s = run[w].sender THEN 1 ELSE 0) /\ usage[s] # Null
      BY <1>1, <2>1, <3>1, <3>4 DEF Counted, Shape, TypeOK
    <3>6. QED
      BY <1>1, <1>2, <3>1, <3>2, <3>3, <3>5, UnspentStep
  <2>3. CASE ~ (QuotaOpen(w) /\ Goto(w, "template"))
    <3>1. hold' = hold
      BY <1>4, <2>3 DEF Reserve
    <3>2. Unspent(s)' = Unspent(s)
      BY <2>1, <3>1 DEF Unspent
    <3>3. CASE UNCHANGED <<usage, accepted, leaked, excess>>
      BY <1>3, <3>2, <3>3
    <3>4. CASE /\ QuotaOpen(w)
               /\ usage' = [usage EXCEPT ![run[w].sender] = Counted(run[w].sender)]
               /\ leaked' = [leaked EXCEPT ![run[w].sender] = @ + 1]
               /\ UNCHANGED <<accepted, excess>>
      <4>1. usage[run[w].sender] # Null
        BY <3>4 DEF QuotaOpen, Metered
      <4>2. /\ usage'[s] = usage[s] + (IF s = run[w].sender THEN 1 ELSE 0) /\ usage[s] # Null
            /\ leaked'[s] = leaked[s] + (IF s = run[w].sender THEN 1 ELSE 0)
        BY <1>1, <2>1, <3>4, <4>1 DEF Counted, Shape, TypeOK
      <4>3. QED
        BY <1>1, <1>2, <3>2, <3>4, <4>2
    <3>5. QED
      BY <1>4, <2>3, <3>3, <3>4 DEF Reserve, Goto
  <2>4. QED
    BY <2>2, <2>3
<1>5. ASSUME NEW w \in Workers, Abandon(w), UNCHANGED <<usage, accepted, excess>>,
             \A v \in Workers \ {w}: run'[v] = run[v]
      PROVE  Balanced(s)'
  <2>1. \A v \in Workers: v # w => (v \in Unspent(s)' <=> v \in Unspent(s))
    BY <1>5 DEF Unspent, Abandon, Shape, TypeOK
  <2>2. w \notin Unspent(s)' /\ (w \in Unspent(s) <=> hold[w] = "fresh" /\ s = run[w].sender)
    BY <1>5 DEF Unspent, Abandon, Shape, TypeOK
  <2>3. hold[w] = "fresh" => run[w].sender \in Senders
    BY DEF Shape, RunsOK, RunShape
  <2>4. leaked'[s] = leaked[s] + (IF hold[w] = "fresh" /\ s = run[w].sender THEN 1 ELSE 0)
    BY <1>1, <1>5, <2>3 DEF Abandon, Shape, TypeOK
  <2>5. QED
    BY <1>1, <1>2, <1>5, <2>1, <2>2, <2>4, UnspentStep
<1>6. ASSUME NEW w \in Workers, NEW n \in 0..MaxCopies, NEW k \in 0..MaxCopies,
             NEW ok \in BOOLEAN, SendMail(w, n, k, ok)
      PROVE  Balanced(s)'
  <2> DEFINE covered == IF hold[w] = "fresh" /\ n > 0 THEN 1 ELSE 0
             here == s = run[w].sender
  <2>1. run[w].sender \in Senders /\ n \in Nat /\ UNCHANGED <<usage, leaked, run>>
    BY <1>6, Bounds DEF Shape, RunsOK, RunShape, SendMail
  <2>2. hold' = IF covered = 1 THEN [hold EXCEPT ![w] = "spent"] ELSE hold
    BY <1>6 DEF SendMail
  <2>3. \A v \in Workers: v # w => (v \in Unspent(s)' <=> v \in Unspent(s))
    BY <2>1, <2>2 DEF Unspent, Shape, TypeOK
  <2>4. /\ w \in Unspent(s) <=> hold[w] = "fresh" /\ here
        /\ w \in Unspent(s)' <=> hold[w] = "fresh" /\ covered = 0 /\ here
    BY <2>1, <2>2 DEF Unspent, Shape, TypeOK
  <2>5. /\ accepted'[s] = accepted[s] + (IF here THEN n ELSE 0)
        /\ excess'[s] = excess[s] + (IF here THEN n - covered ELSE 0)
    BY <1>1, <1>6, <2>1 DEF SendMail, Shape, TypeOK
  <2>6. Cardinality(Unspent(s))' = Cardinality(Unspent(s)) - (IF here THEN covered ELSE 0)
    BY <1>1, <2>3, <2>4, UnspentStep
  <2>7. covered \in {0, 1}
    OBVIOUS
  <2>8. usage'[s] = usage[s] /\ leaked'[s] = leaked[s]
    BY <2>1
  <2> HIDE DEF covered, here
  <2>9. CASE here
    BY <1>1, <1>2, <2>1, <2>5, <2>6, <2>7, <2>8, <2>9
  <2>10. CASE ~ here
    BY <1>1, <1>2, <2>5, <2>6, <2>8, <2>10
  <2>11. QED
    BY <2>9, <2>10
<1>7. ASSUME NEW w \in Workers, Rollback(w) PROVE Balanced(s)'
  <2>1. CASE Abandon(w) /\ UNCHANGED <<usage, excess>>
    BY <1>5, <1>7, <2>1 DEF Rollback, ledgerVars
  <2>2. CASE /\ usage' = [usage EXCEPT ![run[w].sender] = Returned(run[w].sender)]
             /\ excess' = IF hold[w] = "fresh" THEN excess
                          ELSE [excess EXCEPT ![run[w].sender] = @ + 1]
             /\ hold' = [hold EXCEPT ![w] = "none"]
             /\ UNCHANGED leaked
    <3> DEFINE here == s = run[w].sender
    <3>1. run[w].sender \in Senders /\ usage[run[w].sender] # Null
          /\ UNCHANGED <<run, accepted>>
      BY <1>7 DEF Shape, RunsOK, RunShape, Rollback
    <3>2. \A v \in Workers: v # w => (v \in Unspent(s)' <=> v \in Unspent(s))
      BY <2>2, <3>1 DEF Unspent, Shape, TypeOK
    <3>3. w \notin Unspent(s)' /\ (w \in Unspent(s) <=> hold[w] = "fresh" /\ here)
      BY <2>2, <3>1 DEF Unspent, Shape, TypeOK
    <3>4. usage'[s] = usage[s] - (IF here THEN 1 ELSE 0) /\ usage[s] # Null
      BY <1>1, <2>2, <3>1 DEF Returned, Shape, TypeOK
    <3>5. excess'[s] = excess[s] + (IF here /\ hold[w] # "fresh" THEN 1 ELSE 0)
      BY <1>1, <2>2, <3>1 DEF Shape, TypeOK
    <3>6. QED
      BY <1>1, <1>2, <2>2, <3>1, <3>2, <3>3, <3>4, <3>5, UnspentStep
  <2>3. QED
    BY <1>7, <2>1, <2>2 DEF Rollback
<1>8. ASSUME ResetDailyUsage PROVE Balanced(s)'
  <2>1. Unspent(s)' = {}
    BY <1>8 DEF ResetDailyUsage, Unspent, Shape, TypeOK
  <2>2. Cardinality(Unspent(s)') = 0
    BY <2>1, FS_EmptySet
  <2>3. usage[s] # Null
    BY <1>8 DEF ResetDailyUsage, ResetUsage
  <2>4. QED
    BY <1>1, <1>8, <2>2, <2>3 DEF ResetDailyUsage, ResetUsage
<1>9. ASSUME NEW w \in Workers, NEW j \in Jobs, Take(w, j) PROVE Balanced(s)'
  <2>1. hold[w] = "none" /\ hold' = hold /\ \A v \in Workers \ {w}: run'[v] = run[v]
    BY <1>9 DEF Shape, TypeOK, RunsOK, RunShape, Take
  <2>2. QED
    BY <1>3, <1>9, <2>1 DEF Unspent, Take, ledgerVars
<1>10. ASSUME NEW w \in Workers, Lookup(w) PROVE Balanced(s)'
  <2>1. hold[w] = "none" /\ hold' = hold /\ \A v \in Workers \ {w}: run'[v] = run[v]
    BY <1>10 DEF Shape, TypeOK, RunsOK, RunShape, Lookup
  <2>2. QED
    BY <1>3, <1>10, <2>1 DEF Unspent, Lookup, ledgerVars
<1>11. ASSUME NEW w \in Workers, Finish(w) PROVE Balanced(s)'
  <2>1. /\ hold[w] # "fresh" /\ hold' = [hold EXCEPT ![w] = "none"]
        /\ \A v \in Workers \ {w}: run'[v] = run[v]
    BY <1>11 DEF Shape, TypeOK, RunsOK, RunShape, Finish, Leave
  <2>2. QED
    BY <1>3, <1>11, <2>1 DEF Unspent, Finish, ledgerVars, Shape, TypeOK
<1>12. ASSUME NEW w \in Workers, FailAttempt(w) PROVE Balanced(s)'
  <2>1. hold[w] = "none" /\ hold' = hold /\ \A v \in Workers \ {w}: run'[v] = run[v]
    BY <1>12 DEF Shape, TypeOK, RunsOK, RunShape, FailAttempt, Leave
  <2>2. QED
    BY <1>3, <1>12, <2>1 DEF Unspent, FailAttempt, ledgerVars
<1>13. ASSUME NEW w \in Workers, PickTemplate(w) PROVE Balanced(s)'
  <2>1. CASE UNCHANGED <<hold, leaked>>
    BY <1>3, <1>13, <2>1 DEF PickTemplate, Unspent
  <2>2. CASE Abandon(w)
    BY <1>5, <1>13, <2>2 DEF PickTemplate
  <2>3. QED
    BY <1>13, <2>1, <2>2 DEF PickTemplate
<1>14. ASSUME NEW w \in Workers, Crash(w) PROVE Balanced(s)'
  <2>1. \A v \in Workers \ {w}: run'[v] = run[v]
    BY <1>14 DEF Crash, Leave, Shape, TypeOK
  <2>2. QED
    BY <1>5, <1>14, <2>1 DEF Crash
<1>15. ASSUME NEW j \in Jobs, HandOverLate(j) PROVE Balanced(s)'
  <2>1. accepted'[s] - accepted[s] = excess'[s] - excess[s]
    <3>1. PICK i \in 1..Len(late[j]):
            /\ accepted' = [accepted EXCEPT ![late[j][i]] = @ + 1]
            /\ excess' = [excess EXCEPT ![late[j][i]] = @ + 1]
      BY <1>15 DEF HandOverLate
    <3> DEFINE t == late[j][i]
    <3>2. /\ accepted' = [accepted EXCEPT ![t] = @ + 1] /\ excess' = [excess EXCEPT ![t] = @ + 1]
      BY <3>1
    <3> HIDE DEF t
    <3>3. accepted \in [Senders -> Nat] /\ excess \in [Senders -> Nat]
      BY DEF Shape, TypeOK
    <3>4. CASE s = t
      BY <1>1, <3>2, <3>3, <3>4
    <3>5. CASE s # t
      BY <1>1, <3>2, <3>3, <3>5
    <3>6. QED
      BY <3>4, <3>5
  <2>2. UNCHANGED <<usage, hold, run, leaked>>
    BY <1>15 DEF HandOverLate, workerVars
  <2>3. Unspent(s)' = Unspent(s)
    BY <2>2 DEF Unspent
  <2>4. QED
    BY <1>1, <1>2, <2>1, <2>2, <2>3
<1>16. CASE UNCHANGED <<usage, accepted, leaked, excess, hold, run>>
  BY <1>3, <1>16 DEF Unspent
<1>17. QED
  BY <1>4, <1>6, <1>7, <1>8, <1>9, <1>10, <1>11, <1>12, <1>13, <1>14, <1>15, <1>16
  DEF Next, Step, Api, Submit, Persist, StallCheck, CreateSender, UpdateSender, DeleteSender,
      ChangeTemplates, DeleteLead, ledgerVars, workerVars, vars

\* The counter's exact meaning, for any number of workers and any order of steps:
\* mails accepted today, reservations in flight, leaked slots, less the excess.
THEOREM LedgerHolds == Spec => []Ledger
<1>1. Spec => []Shape
  BY ShapeInit, ShapeStep, PTL DEF Spec
<1>2. Spec => []Account
  BY <1>1, AccountInit, AccountStep, PTL DEF Spec
<1>3. Account => Ledger
  BY DEF Account, Ledger, Metered
<1>4. QED
  BY <1>2, <1>3, PTL

\* A sender exceeds its limit by no more than the excess: what the rollbacks gave
\* back for accepted mail, what a reset wiped under a running send, and the
\* provider's extra copies, those of tries that were given up included.
THEOREM OversendIsBounded == Spec => []OversendBounded
<1>1. Shape /\ UsageBounded /\ Ledger => OversendBounded
  <2> SUFFICES ASSUME Shape, UsageBounded, Ledger, NEW s \in Senders, Metered(s)
               PROVE  accepted[s] <= peak[s] + excess[s]
    BY DEF OversendBounded
  <2>1. /\ usage[s] \in Int /\ accepted[s] \in Nat /\ leaked[s] \in Nat
        /\ excess[s] \in Nat /\ peak[s] \in Nat /\ Cardinality(Unspent(s)) \in Nat
    BY UnspentFinite DEF Shape, TypeOK, Metered
  <2>2. /\ usage[s] <= peak[s]
        /\ usage[s] = accepted[s] + Cardinality(Unspent(s)) + leaked[s] - excess[s]
    BY DEF UsageBounded, Ledger
  <2>3. QED
    BY <2>1, <2>2
<1>2. Spec => []Shape
  BY ShapeInit, ShapeStep, PTL DEF Spec
<1>3. QED
  BY <1>1, <1>2, UsageStaysBounded, LedgerHolds, PTL
=============================================================================

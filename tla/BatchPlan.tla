----------------------------- MODULE BatchPlan -----------------------------
(***************************************************************************)
(* The jobs that SendBatchUseCase makes of a batch: their ids and delays.  *)
(* Time is in units of 30 s.  A batch is an id, the time it is submitted   *)
(* at, its blocks, and the delay before the first mails; a block is a      *)
(* sender and, per lead after the first, the delay that was drawn for it.  *)
(***************************************************************************)
EXTENDS Naturals, Sequences, FiniteSets

PacingMin == 3
PacingMax == 5

PacingFromZero(index) == 0..(index * PacingMax)

\* A sum of `index` draws, made anew for each index: no lead builds on the delay of the
\* one before it.
CumulativePacing(index) == (index * PacingMin)..(index * PacingMax)

\* The delays a block of n leads may be given.
Delays(n) == {f \in [0..(n - 1) -> 0..((n - 1) * PacingMax)] :
                \A i \in DOMAIN f : f[i] \in CumulativePacing(i)}

\* A schedule delays the whole batch until its date, if that is still to come.
ScheduleDelay(batch) ==
  IF batch.schedule /\ batch.date > batch.at THEN batch.date - batch.at ELSE 0

JobOfIndex(batch, b, i) ==
  [id |-> <<batch.id, i>>,
   sender |-> batch.blocks[b].sender,
   block |-> b, index |-> i,
   due |-> batch.at + ScheduleDelay(batch) + batch.blocks[b].delay[i]]

\* One job per block and lead; `id` is what the queue goes by.
JobOf(batch, b, i) ==
  [id |-> <<batch.id, batch.blocks[b].sender, i>>,
   sender |-> batch.blocks[b].sender,
   block |-> b, index |-> i,
   due |-> batch.at + ScheduleDelay(batch) + batch.blocks[b].delay[i]]

Jobs(batch) ==
  UNION {{JobOf(batch, b, i) : i \in DOMAIN batch.blocks[b].delay} : b \in DOMAIN batch.blocks}

\* addBulk: of jobs with one id the queue keeps the first.
Kept(batch) ==
  {job \in Jobs(batch) : \A other \in Jobs(batch) : other.id = job.id => other.block >= job.block}

\* The response counts the jobs that were made.
Enqueued(batch) == Cardinality(Jobs(batch))

-----------------------------------------------------------------------------
\* Leads beyond the longest block of their sender are counted in the response and never
\* sent to: the count is right exactly if no sender has two blocks.
LostLeads(batch) == Enqueued(batch) - Cardinality(Kept(batch))

LeadsLostToSharedSender(batch) ==
  LostLeads(batch) = 0 <=>
    \A b, c \in DOMAIN batch.blocks :
      b # c => batch.blocks[b].sender # batch.blocks[c].sender

\* How far two mails of a mailbox in one batch may drift together: after the first mail
\* all keep the pacing, and of two others the later one may even be due first, but by no
\* more than the spread of the draws.
DriftBounded(batch) ==
  \A job, other \in Kept(batch) :
    job.sender = other.sender /\ job.index < other.index
      => other.due + (PacingMax - PacingMin) * job.index
           >= job.due + PacingMin * (other.index - job.index)
=============================================================================

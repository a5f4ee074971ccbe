----------------------------- MODULE Schedules -----------------------------
(***************************************************************************)
(* SchedulesTickCron and SchedulesService: ticks that may overlap, on one  *)
(* process or on several, look up the schedules that are due, fire each    *)
(* and write its next run, while users edit them one await at a time.      *)
(***************************************************************************)
EXTENDS Naturals, FiniteSets

CONSTANTS
  Schedules,   (* Row identities.                                          *)
  Ticks,       (* Calls of the cron's handler that may run at one time.    *)
  Editors,     (* PATCH requests that may run at one time.                 *)
  Senders,     (* Row identities of sender_emails.                         *)
  Foreign,     (* Senders of another user.                                 *)
  NoSender,    (* sender_email_id is NULL.                                 *)
  Timings,     (* Date or days, and time of day.                           *)
  Zones,       (* Time zones.                                              *)
  Home,        (* America/Sao_Paulo.                                       *)
  Occurs,      (* Timing and zone -> the minutes at which it comes round.  *)
  Null,        (* next_run_at is NULL.                                     *)
  Keep,        (* A field that a PATCH does not have.                      *)
  MaxTime,     (* Bound on the clock, in minutes.                          *)
  BatchSize,   (* The limit of findDue.                                    *)
  MaxUpsets    (* Bound on crashes, failures, updates and deletes.         *)

Times == 0..MaxTime

ASSUME Zoned == Home \in Zones /\ Occurs \in [Timings -> [Zones -> SUBSET Times]]
ASSUME Outside ==
  /\ Foreign \subseteq Senders /\ NoSender \notin Senders
  /\ Null \notin Times /\ Keep \notin Timings \cup Zones
ASSUME Bounded ==
  MaxTime \in Nat /\ BatchSize \in Nat \ {0} /\ MaxUpsets \in Nat
ASSUME FiniteRows == IsFiniteSet(Schedules) /\ IsFiniteSet(Ticks)

VARIABLES
  clock,      (* The present minute.                                       *)
  row,        (* Schedule -> its row.                                      *)
  senders,    (* The senders that exist.                                   *)
  at,         (* Tick -> the await its handler is about to do.             *)
  now,        (* Tick -> the minute it read when it began.                 *)
  todo,       (* Tick -> rows it found and has not come to, as found.      *)
  cur,        (* Tick -> the row it has fired and is about to mark.        *)
  edit,       (* Editor -> the row it read, and when, or none.             *)
  zone,       (* History: Schedule -> the zone its user asked for.         *)
  batches,    (* History: Schedule -> due minute -> batches queued.        *)
  disturbed,  (* History: schedules edited, found while another tick held  *)
              (* them, or held by a tick that crashed or failed on them.   *)
  upsets      (* Crashes, failures, updates and deletes so far.            *)

tickVars == <<at, now, todo, cur>>
history == <<zone, batches, disturbed>>
vars == <<clock, row, senders, tickVars, edit, history, upsets>>

-----------------------------------------------------------------------------
(* State *)

Types == {"one_time", "recurring"}
\* The code tells 'draft' from 'paused' nowhere.
Statuses == {"active", "paused", "completed"}

\* The schema takes any array for lead_selections. It is malformed if an item has no email
\* and an id that is no UUID, which the query for the lead refuses.
Selections == {"sound", "malformed"}

Row == [id: Schedules, phase: {"unborn", "live", "gone"}, type: Types,
        status: Statuses, timing: Timings, sender: Senders \cup {NoSender},
        leads: Selections, next: Times \cup {Null}]

Live(s) == row[s].phase = "live"

\* findDue's where.
ActiveOnlyLax(s) == TRUE
ActiveOnly(s) == row[s].status = "active"
ReachedSoon(next, minute) == next <= minute + 1
Reached(next, minute) == next <= minute
Due(s, minute) ==
  Live(s) /\ ActiveOnly(s) /\ row[s].next \in Times /\ Reached(row[s].next, minute)

\* nextRunAtFromInput: a date that has passed is kept, a weekday is looked for.
NextRun(type, timing, tz, from) ==
  LET found == {t \in Occurs[timing][tz]: type = "one_time" \/ t > from}
      soonest == {t \in found: \A u \in found: t <= u}
  IN  IF soonest = {} THEN Null ELSE CHOOSE t \in soonest: TRUE

Unborn(s) ==
  {r \in Row: r.id = s /\ r.phase = "unborn" /\ r.status = "paused"
                /\ r.sender = NoSender /\ r.leads = "sound" /\ r.next = Null}

NoEdit == [read |-> {}, from |-> 0]

Init ==
  /\ clock = 0
  /\ row \in [Schedules -> UNION {Unborn(s): s \in Schedules}]
  /\ \A s \in Schedules: row[s].id = s
  /\ senders = Senders
  /\ at = [t \in Ticks |-> "idle"]
  /\ now = [t \in Ticks |-> 0]
  /\ todo = [t \in Ticks |-> {}]
  /\ cur = [t \in Ticks |-> {}]
  /\ edit = [u \in Editors |-> NoEdit]
  /\ zone = [s \in Schedules |-> Home]
  /\ batches = [s \in Schedules |-> [m \in Times |-> 0]]
  /\ disturbed = {}
  /\ upsets = 0

Upset == upsets < MaxUpsets /\ upsets' = upsets + 1
Calm == UNCHANGED upsets

Advance ==
  /\ clock < MaxTime
  /\ clock' = clock + 1
  /\ UNCHANGED <<row, senders, tickVars, edit, history, upsets>>

-----------------------------------------------------------------------------
(* The tick *)

\* The handler is called each minute, whether or not earlier calls have returned.
Start(t) ==
  /\ at[t] = "idle"
  /\ at' = [at EXCEPT ![t] = "find"]
  /\ now' = [now EXCEPT ![t] = clock]
  /\ UNCHANGED <<clock, row, senders, todo, cur, edit, history, upsets>>

HeldBy(t) == {r.id: r \in todo[t] \cup cur[t]}

EarlierNot(r, other) == r.next >= other.next
Earlier(r, other) == r.next <= other.next

\* The first BatchSize of the due schedules, by next run.
Batch(due) ==
  {some \in SUBSET due:
     /\ Cardinality(some) <= BatchSize
     /\ some # due => Cardinality(some) = BatchSize
     /\ \A s \in some, other \in due \ some: Earlier(row[s], row[other])}

FindDue(t) ==
  /\ at[t] = "find"
  /\ \E some \in Batch({s \in Schedules: Due(s, now[t])}):
       /\ todo' = [todo EXCEPT ![t] = {row[s]: s \in some}]
       /\ at' = [at EXCEPT ![t] = IF some = {} THEN "idle" ELSE "fire"]
       /\ disturbed' = disturbed \cup (some \cap UNION {HeldBy(other): other \in Ticks})
  /\ UNCHANGED <<clock, row, senders, now, cur, edit, zone, batches, upsets>>

First(rows) == {r \in rows: \A other \in rows: Earlier(r, other)}

\* The catch block goes on with the next schedule.
PassOver(t, r) ==
  /\ todo' = [todo EXCEPT ![t] = @ \ {r}]
  /\ at' = [at EXCEPT ![t] = IF todo[t] = {r} THEN "idle" ELSE "fire"]
  /\ UNCHANGED cur

GoMark(t, r) ==
  /\ todo' = [todo EXCEPT ![t] = @ \ {r}]
  /\ at' = [at EXCEPT ![t] = "mark"]
  /\ cur' = [cur EXCEPT ![t] = {r}]

Reachable(r) == r.sender \in senders \ Foreign
Queue(r) == batches' = [batches EXCEPT ![r.id][r.next] = @ + 1]

\* A sender that is gone or not the user's, or a malformed selection: at each tick.
Throws(r) == r.sender # NoSender /\ (~ Reachable(r) \/ r.leads = "malformed")

\* FireScheduleUseCase, on the row as found: without a sender or without a lead that
\* still exists it queues nothing and returns. It may also throw once, at any query or
\* at addBulk, before or after the jobs are queued.
Fire(t) ==
  /\ at[t] = "fire"
  /\ \E r \in First(todo[t]):
       \/ /\ ~ Throws(r)
          /\ UNCHANGED batches \/ (r.sender # NoSender /\ Queue(r))
          /\ GoMark(t, r) /\ Calm /\ UNCHANGED disturbed
       \/ /\ Throws(r)
          /\ PassOver(t, r) /\ Calm /\ UNCHANGED <<batches, disturbed>>
       \/ /\ r.sender # NoSender
          /\ UNCHANGED batches \/ (~ Throws(r) /\ Queue(r))
          /\ PassOver(t, r) /\ Upset /\ disturbed' = disturbed \cup {r.id}
  /\ UNCHANGED <<clock, row, senders, now, edit, zone>>

\* What the next run comes after: a minute past the tick's own now.
FromEarlier(t) == now[t] - 1
From(t) == now[t] + 1

\* The zone is a constant of the code.
Marked(r, t) ==
  IF r.type = "one_time" THEN [status |-> "completed", next |-> Null]
  ELSE [status |-> "active", next |-> NextRun(r.type, r.timing, Home, From(t))]

\* markFired: whatever the row has become meanwhile. If it is gone, or the query fails,
\* the error is caught.
Mark(t) ==
  /\ at[t] = "mark"
  /\ \E r \in cur[t]:
       \/ /\ Live(r.id) /\ Calm /\ UNCHANGED disturbed
          /\ row' = [row EXCEPT ![r.id].status = Marked(r, t).status,
                                ![r.id].next = Marked(r, t).next]
       \/ ~ Live(r.id) /\ Calm /\ UNCHANGED <<row, disturbed>>
       \/ Upset /\ UNCHANGED row /\ disturbed' = disturbed \cup {r.id}
  /\ cur' = [cur EXCEPT ![t] = {}]
  /\ at' = [at EXCEPT ![t] = IF todo[t] = {} THEN "idle" ELSE "fire"]
  /\ UNCHANGED <<clock, senders, now, todo, edit, zone, batches>>

\* The process dies, or findDue fails.
Crash(t) ==
  /\ at[t] # "idle"
  /\ Upset
  /\ at' = [at EXCEPT ![t] = "idle"]
  /\ todo' = [todo EXCEPT ![t] = {}]
  /\ cur' = [cur EXCEPT ![t] = {}]
  /\ disturbed' = disturbed \cup HeldBy(t)
  /\ UNCHANGED <<clock, row, senders, now, edit, zone, batches>>

TickStep(t) == Start(t) \/ FindDue(t) \/ Fire(t) \/ Mark(t)

-----------------------------------------------------------------------------
(* The API *)

\* connect needs a sender that exists; nothing asks whose it is.
Connectable == senders \cup {NoSender}

\* The refinements of createScheduleSchema ask for a date or for days.
Create(s) ==
  /\ row[s].phase = "unborn"
  /\ Occurs[row[s].timing][Home] # {}
  /\ \E status \in Statuses, tz \in Zones, sender \in Connectable, leads \in Selections:
       /\ row' = [row EXCEPT ![s] =
                    [@ EXCEPT !.phase = "live", !.status = status, !.sender = sender,
                              !.leads = leads,
                              !.next = NextRun(row[s].type, row[s].timing, tz, clock)]]
       /\ zone' = [zone EXCEPT ![s] = tz]
  /\ UNCHANGED <<clock, senders, tickVars, edit, batches, disturbed, upsets>>

\* update: getById.
ReadForUpdate(u, s) ==
  /\ edit[u] = NoEdit
  /\ Live(s)
  /\ Upset
  /\ edit' = [edit EXCEPT ![u] = [read |-> {row[s]}, from |-> clock]]
  /\ UNCHANGED <<clock, row, senders, tickVars, history>>

Or(new, old) == IF new = Keep THEN old ELSE new

\* The next_run_at of an update: a timing or a zone in the request gives a new one, in Home
\* unless the request says otherwise, from some moment between the read and the write;
\* without one the next run that was read is written back.
NextRuns(u, r, timing, tz) ==
  IF timing = Keep /\ tz = Keep THEN {r.next}
  ELSE {NextRun(r.type, Or(timing, r.timing), Or(tz, Home), from): from \in edit[u].from..clock}

\* What may become of the timing, the zone and the next run.
Rescheduled(u, r) ==
  UNION {[timing: {Or(timing, row[r.id].timing)}, zone: {Or(tz, zone[r.id])},
          next: NextRuns(u, r, timing, tz)]:
           timing \in Timings \cup {Keep}, tz \in Zones \cup {Keep}}

\* update: any other field may be written or left, which is to write what the row has.
\* Nothing is written if the row is gone, or the clock or the database refuses the
\* request: a zone, date, time or sender that does not exist.
Update(u) ==
  /\ edit[u] # NoEdit
  /\ \/ UNCHANGED <<row, zone, disturbed>>
     \/ \E r \in edit[u].read: \E new \in Rescheduled(u, r), status \in Statuses,
           sender \in senders \cup {row[r.id].sender}, leads \in Selections:
          /\ Live(r.id)
          /\ row' = [row EXCEPT ![r.id].status = status, ![r.id].timing = new.timing,
                                ![r.id].sender = sender, ![r.id].leads = leads,
                                ![r.id].next = new.next]
          /\ zone' = [zone EXCEPT ![r.id] = new.zone]
          /\ disturbed' = disturbed \cup {r.id}
  /\ edit' = [edit EXCEPT ![u] = NoEdit]
  /\ UNCHANGED <<clock, senders, tickVars, batches, upsets>>

Delete(s) ==
  /\ Live(s)
  /\ Upset
  /\ row' = [row EXCEPT ![s].phase = "gone"]
  /\ UNCHANGED <<clock, senders, tickVars, edit, history>>

\* schedules.sender_email_id is ON DELETE SET NULL.
DeleteSender(x) ==
  /\ x \in senders
  /\ Upset
  /\ senders' = senders \ {x}
  /\ row' = [s \in Schedules |->
               IF row[s].sender = x THEN [row[s] EXCEPT !.sender = NoSender] ELSE row[s]]
  /\ UNCHANGED <<clock, tickVars, edit, history>>

-----------------------------------------------------------------------------
(* Specification *)

Next ==
  \/ Advance
  \/ \E t \in Ticks: TickStep(t) \/ Crash(t)
  \/ \E s \in Schedules: Create(s) \/ Delete(s) \/ \E u \in Editors: ReadForUpdate(u, s)
  \/ \E u \in Editors: Update(u)
  \/ \E x \in Senders: DeleteSender(x)

Spec == Init /\ [][Next]_vars

\* Each await of a tick returns, and the cron goes on calling.
FairSpec == Spec /\ \A t \in Ticks: WF_vars(TickStep(t))

-----------------------------------------------------------------------------
(* Properties *)

Edit == [read: SUBSET Row, from: Times]

TypeOK ==
  /\ clock \in Times
  /\ row \in [Schedules -> Row]
  /\ senders \subseteq Senders
  /\ at \in [Ticks -> {"idle", "find", "fire", "mark"}]
  /\ now \in [Ticks -> Times]
  /\ todo \in [Ticks -> SUBSET Row] /\ cur \in [Ticks -> SUBSET Row]
  /\ \A t \in Ticks: \A r \in todo[t] \cup cur[t]: r.next \in 0..now[t]
  /\ edit \in [Editors -> Edit]
  /\ zone \in [Schedules -> Zones]
  /\ batches \in [Schedules -> [Times -> Nat]]
  /\ disturbed \subseteq Schedules
  /\ upsets \in 0..MaxUpsets

\* Two batches are queued for one due minute of a schedule only if it was edited, found
\* while another tick held it, or held by a tick that crashed or failed on it: in all
\* else marking moves the next run on before another tick can find it.
BatchedOnceUnlessDisturbed ==
  \A s \in Schedules, m \in Times: batches[s][m] > 1 => s \in disturbed

\* A schedule that is paused or completed becomes active only by a request, or
\* by a tick that had found it while it was active (markFired L44 writes 'active' back).
PausedStaysPaused ==
  [][\A s \in Schedules:
       Live(s) /\ row[s].status # "active" /\ row'[s].status = "active" =>
         \/ \E u \in Editors: edit[u] # NoEdit /\ edit'[u] = NoEdit
         \/ \E t \in Ticks: \E r \in cur[t]:
              at[t] = "mark" /\ r.id = s /\ r.type = "recurring" /\ r.status = "active"]_vars

Ripe(s, m) ==
  Live(s) /\ row[s].status = "active" /\ row[s].next = m /\ m \in Times /\ m <= clock

\* The minutes at which a schedule may be due.
DueMinutes == UNION {Occurs[timing][tz]: timing \in Timings, tz \in Zones}

\* Other schedules that throw at each tick and come before s in findDue's order.
InTheWay(s) ==
  {o \in Schedules \ {s}: /\ Live(o) /\ row[o].status = "active" /\ Throws(row[o])
                          /\ row[o].next \in Times /\ row[o].next <= row[s].next}

\* A due schedule gets another next run or another status, crashes and failures
\* notwithstanding, unless it throws at each tick (its sender is another user's, or its
\* selection malformed: fire-schedule L38, L54) or as many such schedules as findDue
\* returns (50, repository L36) are due no later.
DueIsServed ==
  \A s \in Schedules, m \in DueMinutes:
    Ripe(s, m) ~>
      \/ ~ Ripe(s, m) \/ Throws(row[s])
      \/ Cardinality(InTheWay(s)) >= BatchSize

\* What docs/RESUMO_NEGOCIO.md L155 says ("sempre na timezone do usuario"): a next run
\* is a minute at which the timing comes round in the zone its user asked for.
DueInUsersZone ==
  \A s \in Schedules:
    Live(s) /\ row[s].next # Null => row[s].next \in Occurs[row[s].timing][zone[s]]
=============================================================================

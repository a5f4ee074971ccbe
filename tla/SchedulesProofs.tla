--------------------------- MODULE SchedulesProofs ---------------------------
(***************************************************************************)
(* Theorems about Schedules, for all sets of schedules, ticks and editors, *)
(* all timings, zones and batch sizes, and any length of time.             *)
(***************************************************************************)
EXTENDS Schedules, TLAPS

\* What a tick holds: rows as they were found, due and active, of schedules that have
\* been created; one that it has fired only before it marks it.
Rows(t) == todo[t] \cup cur[t]

Holding ==
  \A t \in Ticks:
    /\ at[t] \in {"idle", "find"} => todo[t] = {}
    /\ at[t] # "mark" => cur[t] = {}
    /\ \A r, q \in cur[t]: r = q
    /\ \A r \in Rows(t): r.status = "active" /\ row[r.id].phase # "unborn"

Named == \A s \in Schedules: row[s].id = s

Inv == TypeOK /\ Named /\ Holding

LEMMA NextRunTyped ==
  ASSUME NEW type \in Types, NEW timing \in Timings, NEW tz \in Zones, NEW from
  PROVE  /\ NextRun(type, timing, tz, from) \in Times \cup {Null}
         /\ type = "recurring" /\ NextRun(type, timing, tz, from) # Null
              => NextRun(type, timing, tz, from) > from
<1> DEFINE found == {t \in Occurs[timing][tz]: type = "one_time" \/ t > from}
           soonest == {t \in found: \A u \in found: t <= u}
<1>1. Occurs[timing][tz] \subseteq Times
  BY Zoned
<1>2. NextRun(type, timing, tz, from) = IF soonest = {} THEN Null ELSE CHOOSE t \in soonest: TRUE
  BY Zenon DEF NextRun
<1>3. soonest # {} => (CHOOSE t \in soonest: TRUE) \in soonest
  OBVIOUS
<1> HIDE DEF soonest
<1>4. soonest \subseteq Times /\ \A t \in soonest: type = "recurring" => t > from
  BY <1>1 DEF soonest
<1> QED
  BY <1>2, <1>3, <1>4, Zenon

LEMMA InvInit == Init => Inv
<1> SUFFICES ASSUME Init PROVE Inv
  OBVIOUS
<1>1. 0 \in Times
  BY Bounded DEF Times
<1>2. NoEdit \in Edit
  BY <1>1 DEF NoEdit, Edit
<1>3. row \in [Schedules -> Row]
  BY DEF Init, Unborn
<1>4. Named /\ Holding
  BY DEF Init, Named, Holding, Rows
<1> QED
  BY <1>1, <1>2, <1>3, <1>4, Zoned, Bounded DEF Inv, Init, TypeOK

LEMMA NextRunsTyped ==
  ASSUME NEW u \in Editors, NEW r \in Row, NEW timing \in Timings \cup {Keep},
         NEW tz \in Zones \cup {Keep}
  PROVE  NextRuns(u, r, timing, tz) \subseteq Times \cup {Null}
<1>1. Or(timing, r.timing) \in Timings /\ Or(tz, Home) \in Zones /\ r.type \in Types
  BY Zoned DEF Or, Row
<1>2. \A from: NextRun(r.type, Or(timing, r.timing), Or(tz, Home), from) \in Times \cup {Null}
  BY <1>1, NextRunTyped
<1> QED
  BY <1>2 DEF NextRuns, Row

LEMMA RescheduledTyped ==
  ASSUME Inv, NEW u \in Editors, NEW r \in Row, NEW new \in Rescheduled(u, r)
  PROVE  new.timing \in Timings /\ new.zone \in Zones /\ new.next \in Times \cup {Null}
<1> DEFINE Choices(timing, tz) ==
      [timing: {Or(timing, row[r.id].timing)}, zone: {Or(tz, zone[r.id])},
       next: NextRuns(u, r, timing, tz)]
<1>0. Rescheduled(u, r) =
        UNION {Choices(timing, tz): timing \in Timings \cup {Keep}, tz \in Zones \cup {Keep}}
  BY DEF Rescheduled
<1> HIDE DEF Choices
<1>1. PICK timing \in Timings \cup {Keep}, tz \in Zones \cup {Keep}: new \in Choices(timing, tz)
  BY <1>0
<1> USE DEF Choices
<1>2. /\ new.timing = Or(timing, row[r.id].timing) /\ new.zone = Or(tz, zone[r.id])
      /\ new.next \in NextRuns(u, r, timing, tz)
  BY <1>1
<1>3. r.id \in Schedules /\ row[r.id] \in Row /\ zone[r.id] \in Zones
  BY DEF Inv, TypeOK, Row
<1>4. row[r.id].timing \in Timings
  BY <1>3 DEF Row
<1> QED
  BY <1>2, <1>3, <1>4, NextRunsTyped DEF Or

\* An update rewrites one row, which it marks as disturbed, or none.
LEMMA UpdateMoves ==
  ASSUME Inv, NEW u \in Editors, Update(u)
  PROVE  \/ UNCHANGED <<row, zone, disturbed>>
         \/ \E s \in Schedules, new \in Row:
              /\ new.id = s /\ new.phase = row[s].phase
              /\ row' = [row EXCEPT ![s] = new]
              /\ zone' \in [Schedules -> Zones]
              /\ disturbed' = disturbed \cup {s}
<1> USE DEF Inv
<1> SUFFICES ASSUME ~ UNCHANGED <<row, zone, disturbed>>
             PROVE  \E s \in Schedules, new \in Row:
                      /\ new.id = s /\ new.phase = row[s].phase
                      /\ row' = [row EXCEPT ![s] = new]
                      /\ zone' \in [Schedules -> Zones]
                      /\ disturbed' = disturbed \cup {s}
  OBVIOUS
<1>1. PICK r \in edit[u].read: \E new \in Rescheduled(u, r), status \in Statuses,
           sender \in senders \cup {row[r.id].sender}, leads \in Selections:
        /\ Live(r.id)
        /\ row' = [row EXCEPT ![r.id].status = status, ![r.id].timing = new.timing,
                              ![r.id].sender = sender, ![r.id].leads = leads,
                              ![r.id].next = new.next]
        /\ zone' = [zone EXCEPT ![r.id] = new.zone]
        /\ disturbed' = disturbed \cup {r.id}
  BY Zenon DEF Update
<1>2. PICK new \in Rescheduled(u, r), status \in Statuses,
           sender \in senders \cup {row[r.id].sender}, leads \in Selections:
        /\ Live(r.id)
        /\ row' = [row EXCEPT ![r.id].status = status, ![r.id].timing = new.timing,
                              ![r.id].sender = sender, ![r.id].leads = leads,
                              ![r.id].next = new.next]
        /\ zone' = [zone EXCEPT ![r.id] = new.zone]
        /\ disturbed' = disturbed \cup {r.id}
  BY <1>1
<1>3. r \in Row /\ r.id \in Schedules /\ row[r.id] \in Row /\ row[r.id].id = r.id
  BY DEF TypeOK, Named, Edit, Row
<1>4. new.timing \in Timings /\ new.zone \in Zones /\ new.next \in Times \cup {Null}
  BY <1>3, RescheduledTyped
<1>5. sender \in Senders \cup {NoSender}
  BY <1>3 DEF TypeOK, Row
<1> DEFINE becomes == [row[r.id] EXCEPT !.status = status, !.timing = new.timing,
                         !.sender = sender, !.leads = leads, !.next = new.next]
<1>6. becomes \in Row /\ becomes.id = r.id /\ becomes.phase = row[r.id].phase
  BY <1>3, <1>4, <1>5 DEF Row
<1>7. row' = [row EXCEPT ![r.id] = becomes]
  BY <1>2, <1>3 DEF TypeOK, Row
<1>8. zone' \in [Schedules -> Zones] /\ disturbed' = disturbed \cup {r.id}
  BY <1>2, <1>3, <1>4 DEF TypeOK
<1> HIDE DEF becomes
<1> QED
  BY <1>3, <1>6, <1>7, <1>8

\* The steps of a tick change the rows that one tick holds, and at most one row.
LEMMA InvStep == Inv /\ [Next]_vars => Inv'
<1> SUFFICES ASSUME Inv, [Next]_vars PROVE Inv'
  OBVIOUS
<1> USE DEF Inv
<1>a. CASE UNCHANGED vars
  BY <1>a DEF vars, tickVars, history, TypeOK, Named, Holding, Rows
<1>1. CASE Advance
  <2>1. clock' \in Times
    BY <1>1, Bounded DEF Advance, TypeOK, Times
  <2> QED
    BY <1>1, <2>1 DEF Advance, tickVars, history, TypeOK, Named, Holding, Rows
<1>2. ASSUME NEW t \in Ticks, Start(t) PROVE Inv'
  <2>1. TypeOK'
    <3>1. \A x \in Ticks: \A r \in todo'[x] \cup cur'[x]: r.next \in 0..now'[x]
      BY <1>2 DEF Start, TypeOK, Holding
    <3> QED
      BY <1>2, <3>1 DEF Start, TypeOK, history
  <2>2. Holding'
    BY <1>2 DEF Start, TypeOK, Holding, Rows
  <2> QED
    BY <1>2, <2>1, <2>2 DEF Start, Named
<1>3. ASSUME NEW t \in Ticks, FindDue(t) PROVE Inv'
  <2>1. PICK some \in SUBSET {s \in Schedules: Due(s, now[t])}:
          /\ todo' = [todo EXCEPT ![t] = {row[s]: s \in some}]
          /\ at' = [at EXCEPT ![t] = IF some = {} THEN "idle" ELSE "fire"]
          /\ disturbed' = disturbed \cup (some \cap UNION {HeldBy(other): other \in Ticks})
    BY <1>3 DEF FindDue, Batch
  <2>2. \A s \in some: /\ row[s] \in Row /\ row[s].id = s /\ row[s].status = "active"
                       /\ row[s].phase = "live" /\ row[s].next \in 0..now[t]
    BY <2>1 DEF Due, Live, ActiveOnly, Reached, TypeOK, Named, Times
  <2>3. UNCHANGED <<clock, row, senders, now, cur, edit, zone, batches, upsets>> /\ at[t] = "find"
    BY <1>3 DEF FindDue
  <2>4. TypeOK'
    <3>1. todo' \in [Ticks -> SUBSET Row]
      BY <2>1, <2>2 DEF TypeOK
    <3>2. \A x \in Ticks: \A r \in todo'[x] \cup cur'[x]: r.next \in 0..now'[x]
      BY <2>1, <2>2, <2>3 DEF TypeOK
    <3>3. disturbed' \subseteq Schedules
      BY <2>1 DEF TypeOK
    <3> QED
      BY <2>1, <2>3, <3>1, <3>2, <3>3 DEF TypeOK
  <2>5. Holding'
    BY <2>1, <2>2, <2>3 DEF TypeOK, Holding, Rows
  <2> QED
    BY <2>3, <2>4, <2>5 DEF Named
<1>4. ASSUME NEW t \in Ticks, Fire(t) PROVE Inv'
  <2>1. PICK r \in todo[t]:
          /\ GoMark(t, r) \/ PassOver(t, r)
          /\ UNCHANGED batches \/ Queue(r)
          /\ Calm \/ Upset
          /\ UNCHANGED disturbed \/ disturbed' = disturbed \cup {r.id}
    BY <1>4 DEF Fire, First
  <2>2. at[t] = "fire" /\ UNCHANGED <<clock, row, senders, now, edit, zone>>
    BY <1>4 DEF Fire
  <2>3. r \in Row /\ r.id \in Schedules /\ r.next \in Times
    <3>1. r \in Row /\ r.next \in 0..now[t] /\ now[t] \in Times
      BY DEF TypeOK
    <3> QED
      BY <3>1, Bounded DEF Row, Times
  <2>4. /\ todo' = [todo EXCEPT ![t] = @ \ {r}]
        /\ cur' = cur \/ cur' = [cur EXCEPT ![t] = {r}]
        /\ at' \in [Ticks -> {"idle", "find", "fire", "mark"}]
    BY <2>1 DEF GoMark, PassOver, TypeOK
  <2>5. batches' \in [Schedules -> [Times -> Nat]]
    <3>1. [batches[r.id] EXCEPT ![r.next] = @ + 1] \in [Times -> Nat]
      BY <2>3 DEF TypeOK
    <3>2. CASE Queue(r)
      BY <2>3, <3>1, <3>2 DEF Queue, TypeOK
    <3> QED
      BY <2>1, <3>2 DEF TypeOK
  <2>6. upsets' \in 0..MaxUpsets
    BY <2>1, Bounded DEF Calm, Upset, TypeOK
  <2>7. \A x \in Ticks: Rows(x)' \subseteq Rows(x)
    BY <2>4 DEF Rows, TypeOK
  <2>8. TypeOK'
    <3>1. todo' \in [Ticks -> SUBSET Row] /\ cur' \in [Ticks -> SUBSET Row]
      BY <2>3, <2>4 DEF TypeOK
    <3>2. disturbed' \subseteq Schedules
      BY <2>1, <2>3 DEF TypeOK
    <3> QED
      BY <2>2, <2>4, <2>5, <2>6, <2>7, <3>1, <3>2 DEF TypeOK, Rows
  <2>9. Holding'
    <3>1. CASE GoMark(t, r)
      BY <2>2, <2>7, <3>1 DEF GoMark, Holding, TypeOK, Rows
    <3>2. CASE PassOver(t, r)
      BY <2>2, <2>7, <3>2 DEF PassOver, Holding, TypeOK, Rows
    <3> QED
      BY <2>1, <3>1, <3>2
  <2> QED
    BY <2>2, <2>8, <2>9 DEF Named
<1>5. ASSUME NEW t \in Ticks, Mark(t) PROVE Inv'
  <2>1. PICK r \in cur[t]:
          /\ \/ UNCHANGED row
             \/ row' = [row EXCEPT ![r.id].status = Marked(r, t).status,
                                   ![r.id].next = Marked(r, t).next]
          /\ Calm \/ Upset
          /\ UNCHANGED disturbed \/ disturbed' = disturbed \cup {r.id}
    BY <1>5 DEF Mark
  <2>2. /\ at[t] = "mark"
        /\ cur' = [cur EXCEPT ![t] = {}]
        /\ at' = [at EXCEPT ![t] = IF todo[t] = {} THEN "idle" ELSE "fire"]
        /\ UNCHANGED <<clock, senders, now, todo, edit, zone, batches>>
    BY <1>5 DEF Mark
  <2>3. r \in Row /\ r.id \in Schedules
    BY DEF TypeOK, Row
  <2>4. Marked(r, t).status \in Statuses /\ Marked(r, t).next \in Times \cup {Null}
    BY <2>3, NextRunTyped, Zoned DEF Marked, Statuses, Row
  <2>5. /\ row' \in [Schedules -> Row] /\ Named'
        /\ \A s \in Schedules: row'[s].phase = row[s].phase
    <3>1. CASE UNCHANGED row
      BY <3>1 DEF TypeOK, Named
    <3>2. CASE row' = [row EXCEPT ![r.id].status = Marked(r, t).status,
                                  ![r.id].next = Marked(r, t).next]
      BY <2>3, <2>4, <3>2 DEF TypeOK, Named, Row
    <3> QED
      BY <2>1, <3>1, <3>2
  <2>6. upsets' \in 0..MaxUpsets
    BY <2>1, Bounded DEF Calm, Upset, TypeOK
  <2>7. TypeOK'
    BY <2>1, <2>2, <2>3, <2>5, <2>6 DEF TypeOK
  <2>8. Holding'
    <3>1. \A x \in Ticks: \A q \in Rows(x): q.id \in Schedules
      BY DEF TypeOK, Rows, Row
    <3> QED
      BY <2>2, <2>5, <3>1 DEF Holding, TypeOK, Rows
  <2> QED
    BY <2>5, <2>7, <2>8
<1>6. ASSUME NEW t \in Ticks, Crash(t) PROVE Inv'
  <2>1. upsets' \in 0..MaxUpsets
    BY <1>6, Bounded DEF Crash, Upset, TypeOK
  <2>2. HeldBy(t) \subseteq Schedules
    BY DEF HeldBy, TypeOK, Row
  <2>3. TypeOK'
    BY <1>6, <2>1, <2>2 DEF Crash, TypeOK
  <2>4. Holding'
    BY <1>6 DEF Crash, Holding, TypeOK, Rows
  <2> QED
    BY <1>6, <2>3, <2>4 DEF Crash, Named
<1>7. ASSUME NEW s \in Schedules, Create(s) PROVE Inv'
  <2>1. PICK status \in Statuses, tz \in Zones, sender \in Connectable, leads \in Selections:
          /\ row' = [row EXCEPT ![s] =
                       [@ EXCEPT !.phase = "live", !.status = status, !.sender = sender,
                                 !.leads = leads,
                                 !.next = NextRun(row[s].type, row[s].timing, tz, clock)]]
          /\ zone' = [zone EXCEPT ![s] = tz]
    BY <1>7 DEF Create
  <2>2. NextRun(row[s].type, row[s].timing, tz, clock) \in Times \cup {Null}
    BY NextRunTyped DEF TypeOK, Row
  <2>3. sender \in Senders \cup {NoSender}
    BY DEF Connectable, TypeOK
  <2>4. /\ row' \in [Schedules -> Row] /\ Named'
        /\ \A x \in Schedules: row[x].phase # "unborn" => row'[x].phase # "unborn"
    <3> DEFINE new == [row[s] EXCEPT !.phase = "live", !.status = status, !.sender = sender,
                         !.leads = leads,
                         !.next = NextRun(row[s].type, row[s].timing, tz, clock)]
    <3>1. new \in Row /\ new.id = s /\ new.phase = "live"
      <4>1. row[s] \in Row /\ row[s].id = s
        BY DEF TypeOK, Named
      <4> QED
        BY <2>2, <2>3, <4>1 DEF Row
    <3>2. row' = [row EXCEPT ![s] = new]
      BY <2>1
    <3> HIDE DEF new
    <3> QED
      BY <3>1, <3>2 DEF TypeOK, Named
  <2>5. UNCHANGED <<clock, senders, tickVars, edit, batches, disturbed, upsets>>
    BY <1>7 DEF Create
  <2>6. \A x \in Ticks: \A q \in Rows(x): q.id \in Schedules
    BY DEF TypeOK, Rows, Row
  <2>7. TypeOK'
    BY <2>1, <2>4, <2>5 DEF TypeOK, tickVars
  <2>8. Holding'
    BY <2>4, <2>5, <2>6 DEF Holding, tickVars, Rows
  <2> QED
    BY <2>4, <2>7, <2>8
<1>8. ASSUME NEW s \in Schedules, NEW u \in Editors, ReadForUpdate(u, s) PROVE Inv'
  <2>1. [read |-> {row[s]}, from |-> clock] \in Edit
    BY DEF TypeOK, Edit
  <2>2. upsets' \in 0..MaxUpsets
    BY <1>8, Bounded DEF ReadForUpdate, Upset, TypeOK
  <2> QED
    BY <1>8, <2>1, <2>2 DEF ReadForUpdate, tickVars, history, TypeOK, Named, Holding, Rows
<1>9. ASSUME NEW u \in Editors, Update(u) PROVE Inv'
  <2>2. /\ edit' = [edit EXCEPT ![u] = NoEdit]
        /\ UNCHANGED <<clock, senders, tickVars, batches, upsets>>
    BY <1>9 DEF Update
  <2>5. /\ row' \in [Schedules -> Row] /\ Named'
        /\ \A s \in Schedules: row'[s].phase = row[s].phase
        /\ zone' \in [Schedules -> Zones] /\ disturbed' \subseteq Schedules
    BY <1>9, UpdateMoves DEF TypeOK, Named
  <2>6. NoEdit \in Edit
    BY Bounded DEF NoEdit, Edit, Times
  <2>7. TypeOK'
    BY <2>2, <2>5, <2>6 DEF TypeOK, tickVars
  <2>8. Holding'
    <3>1. \A x \in Ticks: \A q \in Rows(x): q.id \in Schedules
      BY DEF TypeOK, Rows, Row
    <3> QED
      BY <2>2, <2>5, <3>1 DEF Holding, tickVars, Rows
  <2> QED
    BY <2>5, <2>7, <2>8
<1>10. ASSUME NEW s \in Schedules, Delete(s) PROVE Inv'
  <2>1. upsets' \in 0..MaxUpsets
    BY <1>10, Bounded DEF Delete, Upset, TypeOK
  <2>2. /\ row' \in [Schedules -> Row] /\ Named'
        /\ \A x \in Schedules: row[x].phase # "unborn" => row'[x].phase # "unborn"
    <3> DEFINE new == [row[s] EXCEPT !.phase = "gone"]
    <3>1. new \in Row /\ new.id = s /\ new.phase = "gone"
      <4>1. row[s] \in Row /\ row[s].id = s
        BY DEF TypeOK, Named
      <4> QED
        BY <4>1 DEF Row
    <3>2. row' = [row EXCEPT ![s] = new]
      BY <1>10 DEF Delete, TypeOK, Row
    <3> HIDE DEF new
    <3> QED
      BY <3>1, <3>2 DEF TypeOK, Named
  <2>3. \A x \in Ticks: \A q \in Rows(x): q.id \in Schedules
    BY DEF TypeOK, Rows, Row
  <2> QED
    BY <1>10, <2>1, <2>2, <2>3 DEF Delete, tickVars, history, TypeOK, Holding, Rows
<1>11. ASSUME NEW x \in Senders, DeleteSender(x) PROVE Inv'
  <2>1. upsets' \in 0..MaxUpsets
    BY <1>11, Bounded DEF DeleteSender, Upset, TypeOK
  <2>2. /\ row' \in [Schedules -> Row] /\ Named'
        /\ \A s \in Schedules: row'[s].phase = row[s].phase
    <3> DEFINE new(s) == IF row[s].sender = x THEN [row[s] EXCEPT !.sender = NoSender] ELSE row[s]
    <3>1. \A s \in Schedules: new(s) \in Row /\ new(s).id = s /\ new(s).phase = row[s].phase
      <4>1. \A s \in Schedules: row[s] \in Row /\ row[s].id = s
        BY DEF TypeOK, Named
      <4> QED
        BY <4>1 DEF Row
    <3>2. row' = [s \in Schedules |-> new(s)]
      BY <1>11 DEF DeleteSender
    <3> HIDE DEF new
    <3> QED
      BY <3>1, <3>2 DEF TypeOK, Named
  <2>3. \A t \in Ticks: \A q \in Rows(t): q.id \in Schedules
    BY DEF TypeOK, Rows, Row
  <2> QED
    BY <1>11, <2>1, <2>2, <2>3 DEF DeleteSender, tickVars, history, TypeOK, Holding, Rows
<1> QED
  BY <1>a, <1>1, <1>2, <1>3, <1>4, <1>5, <1>6, <1>7, <1>8, <1>9, <1>10, <1>11
  DEF Next, TickStep

LEMMA InvHolds == Spec => []Inv
BY InvInit, InvStep, PTL DEF Spec

\* The types, for every instance; a tick holds only rows that were due when it began.
THEOREM ScheduleTypesCorrect == Spec => []TypeOK
<1>1. Inv => TypeOK
  BY DEF Inv
<1> QED
  BY <1>1, InvHolds, PTL

-----------------------------------------------------------------------------
(* Pauses *)

LEMMA Resumed ==
  ASSUME Inv, Next, NEW s \in Schedules,
         Live(s), row[s].status # "active", row'[s].status = "active"
  PROVE  \/ \E u \in Editors: edit[u] # NoEdit /\ edit'[u] = NoEdit
         \/ \E t \in Ticks: \E r \in cur[t]:
              at[t] = "mark" /\ r.id = s /\ r.type = "recurring" /\ r.status = "active"
<1> USE DEF Inv
<1>1. ASSUME NEW t \in Ticks, Mark(t)
      PROVE  \E r \in cur[t]:
               at[t] = "mark" /\ r.id = s /\ r.type = "recurring" /\ r.status = "active"
  <2>1. PICK r \in cur[t]:
          row # row' => row' = [row EXCEPT ![r.id].status = Marked(r, t).status,
                                           ![r.id].next = Marked(r, t).next]
    BY <1>1 DEF Mark
  <2>2. r \in Row /\ r.status = "active" /\ at[t] = "mark"
    BY <1>1 DEF Mark, TypeOK, Holding, Rows
  <2>3. r.id = s
    BY <2>1 DEF TypeOK, Row
  <2>4. r.id \in Schedules /\ row[s] \in Row
    BY <2>2 DEF TypeOK, Row
  <2>5. row'[s].status = Marked(r, t).status
    BY <2>1, <2>3, <2>4 DEF TypeOK, Row
  <2>6. r.type = "recurring"
    BY <2>2, <2>5 DEF Marked, Row, Types
  <2> QED
    BY <2>2, <2>3, <2>6
<1>2. ASSUME NEW u \in Editors, Update(u)
      PROVE  edit[u] # NoEdit /\ edit'[u] = NoEdit
  BY <1>2 DEF Update, NoEdit, TypeOK
<1>3. ASSUME NEW x \in Schedules, Create(x) PROVE FALSE
  BY <1>3 DEF Create, Live, TypeOK
<1>4. ASSUME NEW x \in Schedules, Delete(x) PROVE FALSE
  BY <1>4 DEF Delete, TypeOK, Row
<1>5. ASSUME NEW x \in Senders, DeleteSender(x) PROVE FALSE
  BY <1>5 DEF DeleteSender, TypeOK, Row
<1>6. row # row'
  OBVIOUS
<1> QED
  BY <1>1, <1>2, <1>3, <1>4, <1>5, <1>6
  DEF Next, TickStep, Advance, Start, FindDue, Fire, Crash, ReadForUpdate

\* Only a request, or a tick that marks what it found active, makes a schedule that is
\* not active active, in every instance.
THEOREM PausesAreKept == Spec => PausedStaysPaused
<1>1. Inv /\ [Next]_vars =>
        [\A s \in Schedules:
           Live(s) /\ row[s].status # "active" /\ row'[s].status = "active" =>
             \/ \E u \in Editors: edit[u] # NoEdit /\ edit'[u] = NoEdit
             \/ \E t \in Ticks: \E r \in cur[t]:
                  at[t] = "mark" /\ r.id = s /\ r.type = "recurring" /\ r.status = "active"]_vars
  BY Resumed
<1> QED
  BY <1>1, InvHolds, PTL DEF Spec, PausedStaysPaused

-----------------------------------------------------------------------------
(* Batches *)

\* What holds of a schedule while nothing has disturbed it: one tick holds it, as found
\* once; its row still has the due minute found; no batch is queued for a minute that is
\* yet to be fired; and a minute with a batch is one that the tick is about to mark, or
\* that the row has left behind.
Sole(s) ==
  \A t, v \in Ticks: \A r \in Rows(t), q \in Rows(v): r.id = s /\ q.id = s => t = v /\ r = q

AsFound(s) ==
  \A t \in Ticks: \A r \in Rows(t): r.id = s /\ Live(s) => r.next = row[s].next

Unqueued(s) ==
  \A t \in Ticks: \A r \in todo[t]: r.id = s => r \notin cur[t] /\ batches[s][r.next] = 0

Passed(s, m) ==
  \/ \E t \in Ticks: \E r \in cur[t]: r.id = s /\ r.next = m
  \/ row[s].next = Null
  \/ row[s].next > m
  \/ row[s].phase = "gone"

QueuedOnce(s) ==
  \A m \in Times: batches[s][m] = 0 \/ (batches[s][m] = 1 /\ Passed(s, m))

Calmly(s) == Sole(s) /\ AsFound(s) /\ Unqueued(s) /\ QueuedOnce(s)

Queueing ==
  \A s \in Schedules:
    /\ row[s].phase = "unborn" => \A m \in Times: batches[s][m] = 0
    /\ s \notin disturbed => Calmly(s)

\* Steps that queue nothing, find nothing and mark nothing.
LEMMA Bystander ==
  ASSUME Inv, Queueing, UNCHANGED batches, disturbed \subseteq disturbed',
         \A t \in Ticks: todo'[t] \subseteq todo[t] /\ cur'[t] \subseteq cur[t],
         \A s \in Schedules: row'[s].phase = "unborn" => row[s].phase = "unborn",
         \A s \in Schedules \ disturbed':
           /\ row'[s].next = row[s].next
           /\ row'[s].phase = row[s].phase \/ row'[s].phase = "gone"
           /\ \A t \in Ticks: \A r \in cur[t]: r.id = s => r \in cur'[t]
  PROVE  Queueing'
<1> SUFFICES ASSUME NEW s \in Schedules
             PROVE  /\ row'[s].phase = "unborn" => \A m \in Times: batches'[s][m] = 0
                    /\ s \notin disturbed' => Calmly(s)'
  BY DEF Queueing
<1>1. row'[s].phase = "unborn" => \A m \in Times: batches'[s][m] = 0
  BY DEF Queueing
<1>2. ASSUME s \notin disturbed' PROVE Calmly(s)'
  <2>1. Calmly(s)
    BY <1>2 DEF Queueing
  <2>2. \A t \in Ticks: Rows(t)' \subseteq Rows(t)
    BY DEF Rows
  <2>3. Sole(s)'
    BY <2>1, <2>2 DEF Calmly, Sole
  <2>4. AsFound(s)'
    BY <1>2, <2>1, <2>2 DEF Calmly, AsFound, Live
  <2>5. Unqueued(s)'
    BY <2>1 DEF Calmly, Unqueued
  <2>6. \A m \in Times: Passed(s, m) => Passed(s, m)'
    BY <1>2 DEF Passed
  <2>7. QueuedOnce(s)'
    BY <2>1, <2>6 DEF Calmly, QueuedOnce
  <2> QED
    BY <2>3, <2>4, <2>5, <2>7 DEF Calmly
<1> QED
  BY <1>1, <1>2

\* A schedule found due while no tick held it has no batch for that minute.
LEMMA FindKeepsQueueing ==
  ASSUME Inv, Queueing, NEW t \in Ticks, FindDue(t) PROVE Queueing'
<1> USE DEF Inv
<1>1. PICK some \in SUBSET {s \in Schedules: Due(s, now[t])}:
        /\ todo' = [todo EXCEPT ![t] = {row[s]: s \in some}]
        /\ disturbed' = disturbed \cup (some \cap UNION {HeldBy(other): other \in Ticks})
  BY DEF FindDue, Batch
<1>2. UNCHANGED <<row, cur, batches>> /\ todo[t] = {} /\ cur[t] = {}
  BY DEF FindDue, Holding
<1>3. /\ \A x \in Ticks: x # t => todo'[x] = todo[x]
      /\ \A r \in todo'[t]: r.id \in some /\ r = row[r.id]
  <2>1. \A z \in some: row[z].id = z
    BY DEF Named
  <2>2. \A x \in Ticks: todo'[x] = IF x = t THEN {row[z]: z \in some} ELSE todo[x]
    BY <1>1 DEF TypeOK
  <2>3. ASSUME NEW r \in todo'[t] PROVE r.id \in some /\ r = row[r.id]
    <3>1. PICK z \in some: r = row[z]
      BY <2>2
    <3> QED
      BY <2>1, <3>1
  <2> QED
    BY <2>2, <2>3
<1> SUFFICES ASSUME NEW s \in Schedules, s \notin disturbed' PROVE Calmly(s)'
  BY <1>2 DEF Queueing
<1>4. Calmly(s)
  BY <1>1 DEF Queueing
<1>5. CASE s \notin some
  <2>1. \A x \in Ticks: \A r \in todo'[x]: r.id = s => r \in todo[x]
    BY <1>3, <1>5
  <2>2. \A x \in Ticks: \A r \in Rows(x)': r.id = s => r \in Rows(x)
    BY <1>2, <2>1 DEF Rows
  <2>3. Sole(s)' /\ AsFound(s)'
    BY <1>2, <1>4, <2>2 DEF Calmly, Sole, AsFound, Live
  <2>4. Unqueued(s)' /\ QueuedOnce(s)'
    BY <1>2, <1>4, <2>1 DEF Calmly, Unqueued, QueuedOnce, Passed
  <2> QED
    BY <2>3, <2>4 DEF Calmly
<1>6. CASE s \in some
  <2>1. \A x \in Ticks: \A r \in Rows(x): r.id # s
    BY <1>1, <1>6 DEF HeldBy, Rows
  <2>2. \A x \in Ticks: \A r \in Rows(x)': r.id = s => x = t /\ r = row[s]
    <3>1. \A r \in todo'[t]: r.id = s => r = row[s]
      BY <1>3
    <3> QED
      BY <1>2, <1>3, <2>1, <3>1 DEF Rows
  <2>3. Sole(s)' /\ AsFound(s)'
    BY <1>2, <2>2 DEF Sole, AsFound
  <2>4. row[s].next \in Times /\ row[s].phase = "live" /\ row[s].next # Null
    BY <1>6, Outside DEF Due, Live
  <2>5. ~ Passed(s, row[s].next)
    BY <2>1, <2>4 DEF Passed, Rows, Times
  <2>6. batches[s][row[s].next] = 0
    BY <1>4, <2>4, <2>5 DEF Calmly, QueuedOnce
  <2>7. Unqueued(s)'
    BY <1>2, <2>1, <2>2, <2>6 DEF Unqueued, Rows
  <2>8. QueuedOnce(s)'
    BY <1>2, <1>4 DEF Calmly, QueuedOnce, Passed
  <2> QED
    BY <2>3, <2>7, <2>8 DEF Calmly
<1> QED
  BY <1>5, <1>6

\* Firing queues at most one batch, for a minute that has none.
LEMMA FireKeepsQueueing ==
  ASSUME Inv, Queueing, NEW t \in Ticks, Fire(t) PROVE Queueing'
<1> USE DEF Inv
<1>1. PICK r \in todo[t]:
        \/ GoMark(t, r) /\ (UNCHANGED batches \/ Queue(r)) /\ UNCHANGED disturbed
        \/ PassOver(t, r) /\ UNCHANGED <<batches, disturbed>>
        \/ PassOver(t, r) /\ (UNCHANGED batches \/ Queue(r)) /\ disturbed' = disturbed \cup {r.id}
  BY DEF Fire, First
<1>2. at[t] = "fire" /\ cur[t] = {} /\ UNCHANGED row
  BY DEF Fire, Holding
<1>3. r \in Row /\ r.id \in Schedules /\ r.next \in Times
  <2>1. r \in Row /\ r.next \in 0..now[t] /\ now[t] \in Times
    BY DEF TypeOK
  <2> QED
    BY <2>1, Bounded DEF Row, Times
<1>4. /\ \A x \in Ticks: todo'[x] = IF x = t THEN todo[t] \ {r} ELSE todo[x]
      /\ \A x \in Ticks: cur'[x] = cur[x] \/ (x = t /\ GoMark(t, r) /\ cur'[x] = {r})
      /\ GoMark(t, r) => cur'[t] = {r}
  BY <1>1 DEF GoMark, PassOver, TypeOK
<1>5. \A x \in Ticks: Rows(x)' \subseteq Rows(x) /\ cur[x] \subseteq cur'[x]
  BY <1>2, <1>4 DEF Rows
<1>6. row[r.id].phase # "unborn"
  BY DEF Holding, Rows
<1>7. \A s \in Schedules: s # r.id => batches'[s] = batches[s]
  BY <1>1 DEF Queue, TypeOK
<1> SUFFICES ASSUME NEW s \in Schedules, s \notin disturbed' PROVE Calmly(s)'
  BY <1>2, <1>6, <1>7 DEF Queueing
<1>8. Calmly(s)
  BY <1>1 DEF Queueing
<1>9. Sole(s)' /\ AsFound(s)'
  BY <1>2, <1>5, <1>8 DEF Calmly, Sole, AsFound, Live
<1>10. \A m \in Times: Passed(s, m) => Passed(s, m)'
  BY <1>2, <1>5 DEF Passed
<1>11. CASE batches'[s] = batches[s]
  <2>1. Unqueued(s)'
    BY <1>4, <1>8, <1>11 DEF Calmly, Unqueued
  <2>2. QueuedOnce(s)'
    BY <1>8, <1>10, <1>11 DEF Calmly, QueuedOnce
  <2> QED
    BY <1>9, <2>1, <2>2 DEF Calmly
<1>12. CASE batches'[s] # batches[s]
  <2>1. s = r.id /\ GoMark(t, r) /\ Queue(r)
    BY <1>1, <1>7, <1>12
  <2>2. \A x \in Ticks: \A q \in todo'[x]: q.id # s
    BY <1>4, <1>8, <2>1 DEF Calmly, Sole, Rows
  <2>3. batches[s][r.next] = 0
    BY <1>8, <2>1 DEF Calmly, Unqueued
  <2>4. \A m \in Times: batches'[s][m] = IF m = r.next THEN 1 ELSE batches[s][m]
    BY <1>3, <2>1, <2>3 DEF Queue, TypeOK
  <2>5. Passed(s, r.next)'
    BY <1>4, <2>1 DEF Passed
  <2>6. QueuedOnce(s)'
    BY <1>8, <1>10, <2>4, <2>5 DEF Calmly, QueuedOnce
  <2> QED
    BY <1>9, <2>2, <2>6 DEF Calmly, Unqueued
<1> QED
  BY <1>11, <1>12

\* Marking an undisturbed schedule, as it was found, leaves its due minute behind.
LEMMA MarkKeepsQueueing ==
  ASSUME Inv, Queueing, NEW t \in Ticks, Mark(t) PROVE Queueing'
<1> USE DEF Inv
<1>1. PICK r \in cur[t]:
        \/ /\ Live(r.id)
           /\ row' = [row EXCEPT ![r.id].status = Marked(r, t).status,
                                 ![r.id].next = Marked(r, t).next]
           /\ UNCHANGED disturbed
        \/ ~ Live(r.id) /\ UNCHANGED <<row, disturbed>>
        \/ UNCHANGED row /\ disturbed' = disturbed \cup {r.id}
  BY DEF Mark
<1>2. UNCHANGED <<todo, batches>> /\ cur' = [cur EXCEPT ![t] = {}] /\ \A q \in cur[t]: q = r
  BY DEF Mark, Holding
<1>3. r \in Row /\ r.id \in Schedules /\ row[r.id].phase # "unborn"
  BY DEF TypeOK, Row, Holding, Rows
<1>4. \A x \in Ticks: cur'[x] = IF x = t THEN {} ELSE cur[x]
  BY <1>2 DEF TypeOK
<1>5. \A s \in Schedules: /\ row'[s].phase = row[s].phase
                          /\ s # r.id => row'[s].next = row[s].next
                          /\ s = r.id /\ Live(s) /\ s \notin disturbed' =>
                               row'[s].next = Marked(r, t).next
  <2> DEFINE new == [row[r.id] EXCEPT !.status = Marked(r, t).status, !.next = Marked(r, t).next]
  <2>1. row[r.id] \in Row
    BY <1>3 DEF TypeOK
  <2>2. new.phase = row[r.id].phase /\ new.next = Marked(r, t).next
    BY <2>1 DEF Row
  <2>3. UNCHANGED row \/ row' = [row EXCEPT ![r.id] = new]
    BY <1>1, <1>3 DEF TypeOK, Row
  <2>4. Live(r.id) /\ r.id \notin disturbed' => row' = [row EXCEPT ![r.id] = new]
    BY <1>1, <1>3 DEF TypeOK, Row
  <2> HIDE DEF new
  <2> QED
    BY <1>3, <2>2, <2>3, <2>4 DEF TypeOK
<1> SUFFICES ASSUME NEW s \in Schedules, s \notin disturbed' PROVE Calmly(s)'
  BY <1>2, <1>5 DEF Queueing
<1>6. Calmly(s)
  BY <1>1 DEF Queueing
<1>7. \A x \in Ticks: Rows(x)' \subseteq Rows(x)
  BY <1>2, <1>4 DEF Rows
<1>8. Sole(s)' /\ Unqueued(s)'
  BY <1>2, <1>4, <1>6, <1>7 DEF Calmly, Sole, Unqueued
<1>9. CASE s # r.id
  <2>1. AsFound(s)'
    BY <1>5, <1>6, <1>7, <1>9 DEF Calmly, AsFound, Live
  <2>2. \A m \in Times: Passed(s, m) => Passed(s, m)'
    BY <1>2, <1>4, <1>5, <1>9 DEF Passed
  <2>3. QueuedOnce(s)'
    BY <1>2, <1>6, <2>2 DEF Calmly, QueuedOnce
  <2> QED
    BY <1>8, <2>1, <2>3 DEF Calmly
<1>10. CASE s = r.id
  <2>1. \A x \in Ticks: \A q \in Rows(x)': q.id # s
    <3>1. \A q \in todo[t]: q.id # s
      BY <1>6, <1>10 DEF Calmly, Sole, Unqueued, Rows
    <3>2. \A x \in Ticks: \A q \in Rows(x): q.id = s => x = t
      BY <1>6, <1>10 DEF Calmly, Sole, Rows
    <3> QED
      BY <1>2, <1>4, <1>7, <3>1, <3>2 DEF Rows
  <2>2. ASSUME NEW m \in Times, Passed(s, m) PROVE Passed(s, m)'
    <3>1. CASE ~ Live(s)
      BY <1>3, <1>5, <1>10, <3>1 DEF Passed, Live, Row, TypeOK
    <3>2. CASE Live(s)
      <4>1. row'[s].next = Marked(r, t).next
        BY <1>5, <1>10, <3>2
      <4>2. r.next = row[s].next /\ r.next \in 0..now[t] /\ now[t] \in Nat
        BY <1>6, <1>10, <3>2, Bounded DEF Calmly, AsFound, Rows, TypeOK, Times
      <4>3. m <= r.next
        <5>1. row[s].next # Null
          BY <4>2, Outside, Bounded DEF TypeOK, Times
        <5>2. \A x \in Ticks: \A q \in cur[x]: q.id = s => q.next = r.next
          BY <1>6, <1>10 DEF Calmly, Sole, Rows
        <5> QED
          BY <2>2, <3>2, <4>2, <5>1, <5>2 DEF Passed, Live, Times
      <4>4. Marked(r, t).next = Null \/ Marked(r, t).next > From(t)
        BY <1>3, NextRunTyped, Zoned DEF Marked, Row, Types
      <4>5. Marked(r, t).next \in Times \cup {Null}
        BY <1>3, NextRunTyped, Zoned DEF Marked, Row
      <4> QED
        BY <4>1, <4>2, <4>3, <4>4, <4>5, Bounded DEF Passed, From, Times
    <3> QED
      BY <3>1, <3>2
  <2>3. QueuedOnce(s)'
    BY <1>2, <1>6, <2>2 DEF Calmly, QueuedOnce
  <2> QED
    BY <1>8, <2>1, <2>3 DEF Calmly, AsFound
<1> QED
  BY <1>9, <1>10

LEMMA CreateKeepsQueueing ==
  ASSUME Inv, Queueing, NEW n \in Schedules, Create(n) PROVE Queueing'
<1> USE DEF Inv
<1>1. /\ UNCHANGED <<todo, cur, batches, disturbed>>
      /\ row[n].phase = "unborn" /\ row'[n].phase = "live"
      /\ \A s \in Schedules \ {n}: row'[s] = row[s]
  BY DEF Create, tickVars, TypeOK, Row
<1>2. \A s \in Schedules: s # n /\ s \notin disturbed' => Calmly(s)'
  BY <1>1 DEF Queueing, Calmly, Sole, AsFound, Unqueued, QueuedOnce, Passed, Rows, Live
<1>3. \A t \in Ticks: \A r \in Rows(t): r.id # n
  BY <1>1 DEF Holding
<1>4. Calmly(n)'
  BY <1>1, <1>3 DEF Queueing, Calmly, Sole, AsFound, Unqueued, QueuedOnce, Rows
<1> QED
  BY <1>1, <1>2, <1>4 DEF Queueing

LEMMA QueueingStep == Inv /\ Queueing /\ [Next]_vars => Queueing'
<1> SUFFICES ASSUME Inv, Queueing, [Next]_vars PROVE Queueing'
  OBVIOUS
<1>1. CASE UNCHANGED vars \/ Advance
  BY <1>1, Bystander DEF vars, Advance, tickVars, history
<1>2. ASSUME NEW t \in Ticks, Start(t) PROVE Queueing'
  BY <1>2, Bystander DEF Start, history
<1>3. ASSUME NEW u \in Editors, NEW s \in Schedules, ReadForUpdate(u, s) PROVE Queueing'
  BY <1>3, Bystander DEF ReadForUpdate, tickVars, history
<1>4. ASSUME NEW t \in Ticks, Crash(t) PROVE Queueing'
  BY <1>4, Bystander DEF Crash, HeldBy, Inv, TypeOK
<1>5. ASSUME NEW u \in Editors, Update(u) PROVE Queueing'
  <2>1. \/ UNCHANGED <<row, disturbed>>
        \/ \E s \in Schedules, new \in Row:
             /\ new.id = s /\ new.phase = row[s].phase
             /\ row' = [row EXCEPT ![s] = new] /\ disturbed' = disturbed \cup {s}
    BY <1>5, UpdateMoves
  <2>2. \A x \in Schedules: /\ row'[x].phase = row[x].phase
                            /\ x \notin disturbed' => row'[x] = row[x]
    BY <2>1 DEF Inv, TypeOK
  <2>3. UNCHANGED <<tickVars, batches>>
    BY <1>5 DEF Update
  <2>4. disturbed \subseteq disturbed'
    BY <2>1
  <2> QED
    BY <2>2, <2>3, <2>4, Bystander DEF tickVars
<1>6. ASSUME NEW s \in Schedules, Delete(s) PROVE Queueing'
  <2>1. \A x \in Schedules: /\ row'[x].next = row[x].next
                            /\ row'[x].phase = row[x].phase \/ row'[x].phase = "gone"
    BY <1>6 DEF Delete, Inv, TypeOK, Row
  <2> QED
    BY <1>6, <2>1, Bystander DEF Delete, tickVars, history
<1>7. ASSUME NEW x \in Senders, DeleteSender(x) PROVE Queueing'
  <2>1. \A s \in Schedules: row'[s].next = row[s].next /\ row'[s].phase = row[s].phase
    BY <1>7 DEF DeleteSender, Inv, TypeOK, Row
  <2> QED
    BY <1>7, <2>1, Bystander DEF DeleteSender, tickVars, history
<1> QED
  BY <1>1, <1>2, <1>3, <1>4, <1>5, <1>6, <1>7, FindKeepsQueueing, FireKeepsQueueing, MarkKeepsQueueing,
     CreateKeepsQueueing DEF Next, TickStep

\* For any number of ticks, on one process or many, a due minute of a schedule that
\* nothing disturbed has at most one batch.
THEOREM BatchesAreQueuedOnce == Spec => []BatchedOnceUnlessDisturbed
<1>1. Init => Queueing
  BY DEF Init, Queueing, Calmly, Sole, AsFound, Unqueued, QueuedOnce, Rows
<1>2. Inv /\ Queueing => BatchedOnceUnlessDisturbed
  BY DEF Queueing, Calmly, QueuedOnce, BatchedOnceUnlessDisturbed
<1> QED
  BY <1>1, <1>2, InvHolds, QueueingStep, PTL DEF Spec
=============================================================================

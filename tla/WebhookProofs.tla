--------------------------- MODULE WebhookProofs ---------------------------
(***************************************************************************)
(* Theorems about WebhookIngest, for all sets of leads, events and         *)
(* handlers and every number of deliveries, sends and faults.              *)
(***************************************************************************)
EXTENDS WebhookIngest, TLAPS

Reports == {"bounced", "opened", "delivered"}

\* What a request at work on e with s in memory has behind it at each await.
AtWork(step, e, s) ==
  /\ step # "idle" => e \in Events
  /\ step \in {"exists", "ingest"} => e.type = "replied"
  /\ step = "write" => /\ e.type \in Reports
                       /\ e.type = "bounced" \/ s.status # "replied"
  /\ step \in {"ingest", "write"} => s.lead \in Leads

Working == \A h \in Handlers: AtWork(at[h], event[h], seen[h])

Unused == \A l \in Leads: lead[l].phase = "unborn" => lead[l].status = "sent"

Inv == TypeOK /\ Working /\ Unused

LEMMA EventType == ASSUME NEW e \in Events PROVE e \in Event /\ e.type \in Statuses
BY TypedEvents DEF Event, Types, Statuses

LEMMA InvInit == Init => Inv
<1> SUFFICES ASSUME Init PROVE Inv
  OBVIOUS
<1>1. TypeOK
  <2>1. lead \in [Leads -> Row]
    BY DEF Init, Unsent
  <2>2. seen \in [Handlers -> Seen]
    BY DEF Init, Nothing, Seen, Statuses
  <2> QED
    BY <2>1, <2>2, Budgets DEF Init, TypeOK
<1>2. Working
  BY Outsiders DEF Init, Working, AtWork
<1>3. Unused
  BY DEF Init, Unused, Unsent
<1> QED
  BY <1>1, <1>2, <1>3 DEF Inv

\* An answer leaves an idle handler and an event among the applied ones at most.
LEMMA Answered ==
  ASSUME Inv, NEW h \in Handlers, at[h] # "idle", NEW b \in BOOLEAN, Answer(h, b)
  PROVE  /\ at' \in [Handlers -> {"idle", "exists", "find", "ingest", "write"}]
         /\ event' \in [Handlers -> {e \in Events: e.type # "sent"} \cup {Nobody}]
         /\ seen' \in [Handlers -> Seen]
         /\ applied' \subseteq Events
         /\ Working'
<1>1. event[h] \in Events
  BY DEF Inv, Working, AtWork
<1>2. Nothing \in Seen
  BY DEF Nothing, Seen, Statuses
<1>3. Working'
  BY DEF Inv, TypeOK, Working, AtWork, Answer, Goto
<1> QED
  BY <1>1, <1>2, <1>3 DEF Inv, TypeOK, Answer, Goto

LEMMA InvStep == Inv /\ [Next]_vars => Inv'
<1> SUFFICES ASSUME Inv, [Next]_vars PROVE Inv'
  OBVIOUS
<1> USE DEF Inv
<1>a. CASE UNCHANGED vars
  BY <1>a DEF vars, TypeOK, Working, Unused
<1>1. ASSUME NEW h \in Handlers, NEW e \in Events, Receive(h, e) PROVE Inv'
  <2> USE <1>1
  <2>1. TypeOK'
    <3>1. deliveries' \in 0..MaxDeliveries
      BY Budgets DEF Receive, TypeOK
    <3>2. CASE ~ Handled(e.type)
      BY <3>1, <3>2 DEF Receive, TypeOK, requestVars, Handled
    <3>3. CASE Handled(e.type)
      BY <3>1, <3>3 DEF Receive, TypeOK, Goto, Handled
    <3> QED
      BY <3>2, <3>3
  <2>2. Working'
    <3>1. CASE ~ Handled(e.type)
      BY <3>1 DEF Receive, Working, requestVars, Handled
    <3>2. CASE Handled(e.type)
      BY <3>2 DEF Receive, Working, AtWork, TypeOK, Goto, Handled
    <3> QED
      BY <3>1, <3>2
  <2>3. Unused'
    BY DEF Receive, Unused
  <2> QED
    BY <2>1, <2>2, <2>3
<1>2. ASSUME NEW h \in Handlers, Fail(h) PROVE Inv'
  <2>1. at[h] # "idle" /\ Answer(h, FALSE)
    BY <1>2 DEF Fail
  <2>2. faults' \in 0..MaxFaults
    BY <1>2, Budgets DEF Fail, Fault, TypeOK
  <2> QED
    BY <1>2, <2>1, <2>2, Answered DEF Fail, TypeOK, Unused
<1>3. ASSUME NEW h \in Handlers, CheckExists(h) PROVE Inv'
  <2> USE <1>3
  <2>1. CASE Recorded(Key(event[h])) /\ Answer(h, FALSE)
    <3>1. at[h] # "idle"
      BY DEF CheckExists
    <3> QED
      BY <2>1, <3>1, Answered DEF CheckExists, TypeOK, Unused
  <2>2. CASE Goto(h, "find") /\ UNCHANGED <<event, seen, applied>>
    <3>1. TypeOK'
      BY <2>2 DEF CheckExists, TypeOK, Goto
    <3>2. Working'
      BY <2>2 DEF CheckExists, TypeOK, Working, AtWork, Goto
    <3> QED
      BY <2>2, <3>1, <3>2 DEF CheckExists, Unused
  <2> QED
    BY <2>1, <2>2 DEF CheckExists
<1>4. ASSUME NEW h \in Handlers, Find(h) PROVE Inv'
  <2> DEFINE e == event[h]
  <2>1. at[h] # "idle" /\ UNCHANGED <<lead, inbound, deliveries, sends, faults>>
    BY <1>4 DEF Find
  <2>2. CASE \E b \in BOOLEAN: Answer(h, b)
    BY <2>1, <2>2, Answered DEF TypeOK, Unused
  <2>3. CASE \E l \in Latest(About(e)):
               /\ e.type = "replied" \/ Writes(e.type, lead[l].status)
               /\ Goto(h, IF e.type = "replied" THEN "ingest" ELSE "write")
               /\ seen' = [seen EXCEPT ![h] = [lead |-> l, status |-> lead[l].status]]
               /\ UNCHANGED <<event, applied>>
    <3>1. PICK l \in Leads:
            /\ e.type = "replied" \/ Writes(e.type, lead[l].status)
            /\ Goto(h, IF e.type = "replied" THEN "ingest" ELSE "write")
            /\ seen' = [seen EXCEPT ![h] = [lead |-> l, status |-> lead[l].status]]
            /\ UNCHANGED <<event, applied>>
      BY <2>3 DEF Latest, Matches
    <3>2. [lead |-> l, status |-> lead[l].status] \in Seen
      BY DEF TypeOK, Row, Seen
    <3>3. TypeOK'
      BY <2>1, <3>1, <3>2 DEF TypeOK, Goto
    <3>4. e \in Events
      BY <2>1 DEF Working, AtWork
    <3>5. e.type # "replied" => e.type \in Reports /\ (e.type = "bounced" \/ lead[l].status # "replied")
      BY <3>1 DEF Writes, Reports, DeliveredWrites
    <3>6. AtWork(at'[h], event'[h], seen'[h])
      BY <3>1, <3>4, <3>5 DEF TypeOK, AtWork, Goto
    <3>7. Working'
      BY <3>1, <3>6 DEF TypeOK, Working, Goto
    <3> QED
      BY <2>1, <3>3, <3>7 DEF Unused
  <2> QED
    BY <1>4, <2>2, <2>3 DEF Find
<1>5. ASSUME NEW h \in Handlers, Ingest(h) PROVE Inv'
  <2> DEFINE e == event[h]
             l == seen[h].lead
  <2>1. /\ at[h] # "idle" /\ e \in Events /\ l \in Leads
        /\ UNCHANGED <<deliveries, sends>>
    BY <1>5 DEF Ingest, Working, AtWork
  <2>2. /\ \E b \in BOOLEAN: Answer(h, b)
        /\ Calm \/ Fault
    BY <1>5 DEF Ingest
  <2>3. faults' \in 0..MaxFaults
    BY <2>2, Budgets DEF Calm, Fault, TypeOK
  <2>4. lead' \in [Leads -> Row] /\ Unused'
    <3>1. CASE lead' = lead
      BY <3>1 DEF TypeOK, Unused
    <3>2. CASE Live(l) /\ lead' = [lead EXCEPT ![l].status = "replied"]
      BY <2>1, <3>2 DEF TypeOK, Unused, Live, Row, Statuses
    <3> QED
      BY <1>5, <3>1, <3>2 DEF Ingest, RolledBack
  <2>5. inbound' \in [Events -> [Leads -> Nat]]
    <3>1. CASE UNCHANGED inbound
      BY <3>1 DEF TypeOK
    <3>2. CASE inbound' = [inbound EXCEPT ![e][l] = @ + 1]
      BY <2>1, <3>2 DEF TypeOK
    <3> QED
      BY <1>5, <3>1, <3>2 DEF Ingest
  <2> QED
    BY <2>1, <2>2, <2>3, <2>4, <2>5, Answered DEF TypeOK
<1>6. ASSUME NEW h \in Handlers, Write(h) PROVE Inv'
  <2> DEFINE l == seen[h].lead
  <2>1. /\ at[h] # "idle" /\ event[h] \in Events /\ l \in Leads
        /\ UNCHANGED <<inbound, deliveries, sends>>
    BY <1>6 DEF Write, Working, AtWork
  <2>2. /\ \E b \in BOOLEAN: Answer(h, b)
        /\ Calm \/ Fault
    BY <1>6 DEF Write
  <2>3. faults' \in 0..MaxFaults
    BY <2>2, Budgets DEF Calm, Fault, TypeOK
  <2>4. lead' \in [Leads -> Row] /\ Unused'
    <3>1. CASE UNCHANGED lead
      BY <3>1 DEF TypeOK, Unused
    <3>2. CASE Live(l) /\ lead' = [lead EXCEPT ![l].status = event[h].type]
      <4>1. event[h].type \in Statuses
        BY <2>1, EventType
      <4> QED
        BY <2>1, <3>2, <4>1 DEF TypeOK, Unused, Live, Row
    <3> QED
      BY <1>6, <3>1, <3>2 DEF Write
  <2> QED
    BY <2>1, <2>2, <2>3, <2>4, Answered DEF TypeOK
<1>7. ASSUME NEW l \in Leads,
             RecordSend(l) \/ CreateLead(l) \/ DeleteLead(l)
               \/ \E a \in Addresses: UpdateLead(l, a)
      PROVE  Inv'
  <2>1. UNCHANGED <<requestVars, deliveries, applied, faults>>
    BY <1>7 DEF RecordSend, CreateLead, DeleteLead, UpdateLead
  <2>2. sends' \in 0..MaxSends
    BY <1>7, Budgets DEF RecordSend, CreateLead, DeleteLead, UpdateLead, TypeOK
  <2>3. inbound' \in [Events -> [Leads -> Nat]]
    BY <1>7 DEF RecordSend, CreateLead, DeleteLead, UpdateLead, TypeOK, Cascade
  <2>4. lead' \in [Leads -> Row] /\ Unused'
    <3>1. CASE RecordSend(l)
      <4>1. sends + 1 \in 1..MaxSends
        BY <3>1, Budgets DEF RecordSend, TypeOK
      <4> QED
        BY <3>1, <4>1 DEF RecordSend, TypeOK, Unused, Row, Statuses
    <3>2. CASE CreateLead(l)
      BY <3>2 DEF CreateLead, TypeOK, Unused, Row
    <3>3. CASE DeleteLead(l)
      BY <3>3 DEF DeleteLead, TypeOK, Unused, Row
    <3>4. ASSUME NEW a \in Addresses, UpdateLead(l, a)
          PROVE  lead' \in [Leads -> Row] /\ Unused'
      BY <3>4 DEF UpdateLead, TypeOK, Unused, Row
    <3> QED
      BY <1>7, <3>1, <3>2, <3>3, <3>4
  <2> QED
    BY <2>1, <2>2, <2>3, <2>4 DEF TypeOK, Working, requestVars
<1> QED
  BY <1>a, <1>1, <1>2, <1>3, <1>4, <1>5, <1>6, <1>7 DEF Next, Step

LEMMA InvHolds == Spec => []Inv
BY InvInit, InvStep, PTL DEF Spec

\* The types, for all instances; no request works on an event that dispatch leaves alone.
THEOREM EventTypesCorrect == Spec => []TypeOK
<1>1. Inv => TypeOK
  BY DEF Inv
<1> QED
  BY <1>1, InvHolds, PTL

-----------------------------------------------------------------------------
(* One row per key *)

\* The only step that adds a row, and the only one that takes some away.
LEMMA RowsMove ==
  ASSUME Inv, [Next]_vars
  PROVE  \/ UNCHANGED inbound
         \/ \E e \in Events, l \in Leads:
              /\ e.type = "replied" /\ ~ Recorded(Key(e)) /\ Live(l)
              /\ inbound' = [inbound EXCEPT ![e][l] = @ + 1]
              /\ lead' = [lead EXCEPT ![l].status = "replied"]
         \/ \E l \in Leads:
              /\ inbound' = Cascade(l)
              /\ lead' = [lead EXCEPT ![l].phase = "gone"]
<1>1. ASSUME NEW h \in Handlers, Ingest(h), ~ UNCHANGED inbound
      PROVE  \E e \in Events, l \in Leads:
               /\ e.type = "replied" /\ ~ Recorded(Key(e)) /\ Live(l)
               /\ inbound' = [inbound EXCEPT ![e][l] = @ + 1]
               /\ lead' = [lead EXCEPT ![l].status = "replied"]
  <2> DEFINE e == event[h]
             l == seen[h].lead
  <2>1. e \in Events /\ l \in Leads /\ e.type = "replied"
    BY <1>1 DEF Ingest, Inv, Working, AtWork
  <2>2. /\ ~ Recorded(Key(e)) /\ Live(l)
        /\ inbound' = [inbound EXCEPT ![e][l] = @ + 1]
        /\ lead' = [lead EXCEPT ![l].status = "replied"]
    BY <1>1 DEF Ingest, Conflicts
  <2> QED
    BY <2>1, <2>2
<1>2. ASSUME NEW l \in Leads, DeleteLead(l)
      PROVE  inbound' = Cascade(l) /\ lead' = [lead EXCEPT ![l].phase = "gone"]
  BY <1>2 DEF DeleteLead
<1>3. ASSUME NEW h \in Handlers, CheckExists(h) \/ Find(h) \/ Write(h) \/ Fail(h)
      PROVE  UNCHANGED inbound
  BY <1>3 DEF CheckExists, Find, Write, Fail
<1>4. ASSUME NEW h \in Handlers, NEW e \in Events, Receive(h, e)
      PROVE  UNCHANGED inbound
  BY <1>4 DEF Receive
<1>5. ASSUME NEW l \in Leads,
             RecordSend(l) \/ CreateLead(l) \/ \E a \in Addresses: UpdateLead(l, a)
      PROVE  UNCHANGED inbound
  BY <1>5 DEF RecordSend, CreateLead, UpdateLead
<1>6. CASE UNCHANGED vars
  BY <1>6 DEF vars
<1> QED
  BY <1>1, <1>2, <1>3, <1>4, <1>5, <1>6 DEF Next, Step

\* Only a delete makes a lead cease to be live.
LEMMA LiveMoves ==
  ASSUME Inv, [Next]_vars, NEW l \in Leads, Live(l), ~ Live(l)'
  PROVE  DeleteLead(l)
<1> USE DEF Inv, TypeOK, Live, Row
<1>1. ASSUME NEW h \in Handlers, Step(h) \/ Fail(h) \/ \E e \in Events: Receive(h, e)
      PROVE  FALSE
  <2>1. CASE Ingest(h)
    <3>1. lead' = lead \/ lead' = [lead EXCEPT ![seen[h].lead].status = "replied"]
      BY <2>1 DEF Ingest, RolledBack
    <3> QED
      BY <3>1
  <2>2. CASE Write(h)
    BY <2>2 DEF Write
  <2> QED
    BY <1>1, <2>1, <2>2 DEF Step, CheckExists, Find, Fail, Receive
<1>2. ASSUME NEW m \in Leads,
             RecordSend(m) \/ CreateLead(m) \/ \E a \in Addresses: UpdateLead(m, a)
      PROVE  FALSE
  BY <1>2 DEF RecordSend, CreateLead, UpdateLead
<1>3. ASSUME NEW m \in Leads, DeleteLead(m) PROVE DeleteLead(l)
  BY <1>3 DEF DeleteLead
<1>4. CASE UNCHANGED vars
  BY <1>4 DEF vars
<1> QED
  BY <1>1, <1>2, <1>3, <1>4 DEF Next

LEMMA OnceStep == Inv /\ ReplyRecordedOnce /\ [Next]_vars => ReplyRecordedOnce'
<1> SUFFICES ASSUME Inv, ReplyRecordedOnce, [Next]_vars PROVE ReplyRecordedOnce'
  OBVIOUS
<1>1. CASE UNCHANGED inbound
  <2>1. ASSUME NEW l \in Leads, NEW e \in Events, inbound[e][l] > 0 PROVE Live(l)'
    <3>1. Live(l)
      BY <2>1 DEF ReplyRecordedOnce
    <3>2. ~ DeleteLead(l)
      BY <1>1, <2>1 DEF DeleteLead, Cascade, Inv, TypeOK
    <3> QED
      BY <3>1, <3>2, LiveMoves
  <2> QED
    BY <1>1, <2>1 DEF ReplyRecordedOnce
<1>2. ASSUME NEW e \in Events, NEW l \in Leads, ~ Recorded(Key(e)), Live(l),
             inbound' = [inbound EXCEPT ![e][l] = @ + 1],
             lead' = [lead EXCEPT ![l].status = "replied"]
      PROVE  ReplyRecordedOnce'
  <2>1. \A f \in Events, m \in Leads: Key(f) = Key(e) => inbound[f][m] = 0
    BY <1>2 DEF Recorded, Inv, TypeOK
  <2>2. \A f \in Events, m \in Leads:
          inbound'[f][m] = IF f = e /\ m = l THEN 1 ELSE inbound[f][m]
    BY <1>2, <2>1 DEF Inv, TypeOK
  <2>3. \A m \in Leads: Live(m) => Live(m)'
    BY <1>2 DEF Live, Inv, TypeOK
  <2> QED
    BY <1>2, <2>1, <2>2, <2>3 DEF ReplyRecordedOnce
<1>3. ASSUME NEW l \in Leads, inbound' = Cascade(l),
             lead' = [lead EXCEPT ![l].phase = "gone"]
      PROVE  ReplyRecordedOnce'
  <2>1. \A f \in Events, m \in Leads:
          inbound'[f][m] = IF m = l THEN 0 ELSE inbound[f][m]
    BY <1>3 DEF Cascade, Inv, TypeOK
  <2>2. \A m \in Leads: Live(m) /\ m # l => Live(m)'
    BY <1>3 DEF Live, Inv, TypeOK
  <2> QED
    BY <2>1, <2>2 DEF ReplyRecordedOnce
<1> QED
  BY <1>1, <1>2, <1>3, RowsMove

\* For any number of deliveries and handlers: one row carries a key, on a live lead.
THEOREM RepliesAreRecordedOnce == Spec => []ReplyRecordedOnce
<1>1. Init => ReplyRecordedOnce
  BY DEF Init, ReplyRecordedOnce
<1> QED
  BY <1>1, InvHolds, OnceStep, PTL DEF Spec

-----------------------------------------------------------------------------
(* Statuses *)

\* How a lead comes to show 'replied', and how it ceases to.
LEMMA StatusMoves ==
  ASSUME Inv, [Next]_vars, NEW l \in Leads, Live(l)
  PROVE  /\ lead'[l].status = "replied" /\ lead[l].status # "replied" =>
              \E e \in Events: e.type = "replied" /\ inbound'[e][l] > 0
         /\ lead[l].status = "replied" /\ lead'[l].status # "replied" =>
              \/ sends' # sends
              \/ \E h \in Handlers:
                   /\ at[h] = "write" /\ seen[h].lead = l
                   /\ event[h].type = "bounced" \/ seen[h].status # "replied"
<1> DEFINE Goal ==
      /\ lead'[l].status = "replied" /\ lead[l].status # "replied" =>
           \E e \in Events: e.type = "replied" /\ inbound'[e][l] > 0
      /\ lead[l].status = "replied" /\ lead'[l].status # "replied" =>
           \/ sends' # sends
           \/ \E h \in Handlers:
                /\ at[h] = "write" /\ seen[h].lead = l
                /\ event[h].type = "bounced" \/ seen[h].status # "replied"
<1> SUFFICES Goal
  OBVIOUS
<1>0. lead \in [Leads -> Row]
  BY DEF Inv, TypeOK
<1>1. CASE lead'[l].status = lead[l].status
  BY <1>1
<1>2. ASSUME NEW h \in Handlers, Ingest(h) PROVE Goal
  <2>1. event[h] \in Events /\ event[h].type = "replied"
    BY <1>2 DEF Ingest, Inv, Working, AtWork
  <2>2. CASE lead' = lead
    BY <2>2
  <2>3. CASE /\ inbound' = [inbound EXCEPT ![event[h]][seen[h].lead] = @ + 1]
             /\ lead' = [lead EXCEPT ![seen[h].lead].status = "replied"]
    <3>1. CASE l = seen[h].lead
      <4>1. inbound'[event[h]][l] > 0
        BY <2>1, <2>3, <3>1 DEF Inv, TypeOK
      <4>2. lead'[l].status = "replied"
        BY <1>0, <2>3, <3>1 DEF Row
      <4> QED
        BY <2>1, <4>1, <4>2
    <3>2. CASE l # seen[h].lead
      BY <1>0, <2>3, <3>2
    <3> QED
      BY <3>1, <3>2
  <2> QED
    BY <1>2, <2>2, <2>3 DEF Ingest, RolledBack
<1>3. ASSUME NEW h \in Handlers, Write(h) PROVE Goal
  <2>1. /\ event[h].type \in Reports
        /\ event[h].type = "bounced" \/ seen[h].status # "replied"
    BY <1>3 DEF Write, Inv, Working, AtWork
  <2>2. CASE lead' = lead
    BY <2>2
  <2>3. CASE lead' = [lead EXCEPT ![seen[h].lead].status = event[h].type]
    <3>1. CASE l = seen[h].lead
      <4>1. lead'[l].status = event[h].type
        BY <1>0, <2>3, <3>1 DEF Row
      <4>2. at[h] = "write"
        BY <1>3 DEF Write
      <4> QED
        BY <2>1, <3>1, <4>1, <4>2 DEF Reports
    <3>2. CASE l # seen[h].lead
      BY <1>0, <2>3, <3>2
    <3> QED
      BY <3>1, <3>2
  <2> QED
    BY <1>3, <2>2, <2>3 DEF Write
<1>4. ASSUME NEW m \in Leads, RecordSend(m) PROVE Goal
  <2>1. sends' # sends
    BY <1>4 DEF RecordSend, Inv, TypeOK
  <2>2. lead'[l].status = lead[l].status \/ lead'[l].status = "sent"
    BY <1>0, <1>4 DEF RecordSend, Row
  <2> QED
    BY <2>1, <2>2
<1>5. ASSUME NEW m \in Leads,
             CreateLead(m) \/ DeleteLead(m) \/ \E a \in Addresses: UpdateLead(m, a)
      PROVE  lead'[l].status = lead[l].status
  BY <1>0, <1>5 DEF CreateLead, DeleteLead, UpdateLead, Row
<1>6. ASSUME NEW h \in Handlers,
             CheckExists(h) \/ Find(h) \/ Fail(h) \/ \E e \in Events: Receive(h, e)
      PROVE  UNCHANGED lead
  BY <1>6 DEF CheckExists, Find, Fail, Receive
<1>7. CASE UNCHANGED vars
  BY <1>7 DEF vars
<1> QED
  BY <1>1, <1>2, <1>3, <1>4, <1>5, <1>6, <1>7 DEF Next, Step

\* A lead that has replied stops showing it only for a bounce, a later send, or a handler
\* that found it before: for any number of leads and handlers.
THEOREM RepliesAreLostOnlyToBlindWrites == Spec => ReplyLostOnlyToBlindWrites
<1>1. Inv /\ [Next]_vars =>
        [\A l \in Leads:
           Live(l) /\ lead[l].status = "replied" /\ lead'[l].status # "replied" =>
             \/ sends' # sends
             \/ \E h \in Handlers: /\ at[h] = "write" /\ seen[h].lead = l
                                   /\ event[h].type = "bounced" \/ seen[h].status # "replied"]_vars
  BY StatusMoves
<1> QED
  BY <1>1, InvHolds, PTL DEF Spec, ReplyLostOnlyToBlindWrites

LEMMA RepliedStep == Inv /\ RepliedHasMessage /\ [Next]_vars => RepliedHasMessage'
<1> SUFFICES ASSUME Inv, RepliedHasMessage, [Next]_vars,
                    NEW l \in Leads, Live(l)', lead'[l].status = "replied"
             PROVE  \E e \in Events: e.type = "replied" /\ inbound'[e][l] > 0
  BY DEF RepliedHasMessage, Live
<1>1. Live(l)
  <2>1. CASE \E m \in Leads: CreateLead(m)
    BY <2>1 DEF CreateLead, Live, Inv, TypeOK, Unused, Row
  <2>2. CASE ~ \E m \in Leads: CreateLead(m)
    <3>1. ASSUME NEW m \in Leads,
                 RecordSend(m) \/ DeleteLead(m) \/ \E a \in Addresses: UpdateLead(m, a)
          PROVE  Live(l)
      BY <3>1 DEF RecordSend, DeleteLead, UpdateLead, Live, Inv, TypeOK, Row
    <3>2. ASSUME NEW h \in Handlers, Step(h) \/ Fail(h) \/ \E e \in Events: Receive(h, e)
          PROVE  Live(l)
      <4>1. CASE Ingest(h)
        BY <4>1 DEF Ingest, RolledBack, Live, Inv, TypeOK, Row
      <4>2. CASE Write(h)
        BY <4>2 DEF Write, Live, Inv, TypeOK, Row
      <4> QED
        BY <3>2, <4>1, <4>2 DEF Step, CheckExists, Find, Fail, Receive, Live
    <3>3. CASE UNCHANGED vars
      BY <3>3 DEF vars, Live
    <3> QED
      BY <2>2, <3>1, <3>2, <3>3 DEF Next
  <2> QED
    BY <2>1, <2>2
<1>2. CASE lead[l].status # "replied"
  BY <1>1, <1>2, StatusMoves
<1>3. CASE lead[l].status = "replied"
  <2>1. PICK e \in Events: e.type = "replied" /\ inbound[e][l] > 0
    BY <1>1, <1>3 DEF RepliedHasMessage
  <2>2. inbound'[e][l] > 0
    <3>1. CASE UNCHANGED inbound
      BY <2>1, <3>1
    <3>2. ASSUME NEW f \in Events, NEW m \in Leads,
                 inbound' = [inbound EXCEPT ![f][m] = @ + 1]
          PROVE  inbound'[e][l] > 0
      BY <2>1, <3>2 DEF Inv, TypeOK
    <3>3. ASSUME NEW m \in Leads, inbound' = Cascade(m),
                 lead' = [lead EXCEPT ![m].phase = "gone"]
          PROVE  inbound'[e][l] > 0
      <4>1. m # l
        BY <3>3 DEF Live, Inv, TypeOK, Row
      <4> QED
        BY <2>1, <3>3, <4>1 DEF Cascade, Inv, TypeOK
    <3> QED
      BY <3>1, <3>2, <3>3, RowsMove
  <2> QED
    BY <2>1, <2>2
<1> QED
  BY <1>2, <1>3

\* Each lead that shows 'replied' has a reply among its messages, in every instance.
THEOREM RepliedLeadsHaveMessages == Spec => []RepliedHasMessage
<1>1. Init => RepliedHasMessage
  BY DEF Init, RepliedHasMessage, Unsent
<1> QED
  BY <1>1, InvHolds, RepliedStep, PTL DEF Spec

-----------------------------------------------------------------------------
(* The contract *)

LEMMA LogInit == Init => Log!Init
BY DEF Init, Log!Init, Kept, Rows

LEMMA LogStep == Inv /\ [Next]_vars => [Log!Next]_Kept
<1> SUFFICES ASSUME Inv, [Next]_vars PROVE [Log!Next]_Kept
  OBVIOUS
<1>1. CASE UNCHANGED inbound
  BY <1>1 DEF Kept, Rows
<1>2. ASSUME NEW e \in Events, NEW l \in Leads, ~ Recorded(Key(e)),
             inbound' = [inbound EXCEPT ![e][l] = @ + 1]
      PROVE  Log!Keep(Key(e), l)
  <2>1. Rows' = Rows \cup {<<e, l>>}
    BY <1>2 DEF Rows, Inv, TypeOK
  <2>2. Kept' = Kept \cup {<<Key(e), l>>}
    <3>1. Kept' = {<<Key(r[1]), r[2]>>: r \in Rows'}
      BY DEF Kept
    <3>2. <<e, l>>[1] = e /\ <<e, l>>[2] = l
      OBVIOUS
    <3> QED
      BY <2>1, <3>1, <3>2, Zenon DEF Kept
  <2>3. \A m \in Leads: <<Key(e), m>> \notin Kept
    BY <1>2 DEF Kept, Rows, Recorded
  <2> QED
    BY <2>2, <2>3 DEF Log!Keep
<1>3. ASSUME NEW l \in Leads, inbound' = Cascade(l) PROVE Log!Forget(l)
  <2>1. Rows' = {r \in Rows: r[2] # l}
    BY <1>3 DEF Rows, Cascade, Inv, TypeOK
  <2>2. Kept' = {p \in Kept: p[2] # l}
    BY <2>1 DEF Kept
  <2> QED
    BY <2>2 DEF Log!Forget
<1>4. \A e \in Events: Key(e) \in Keys
  BY DEF Keys
<1> QED
  BY <1>1, <1>2, <1>3, <1>4, RowsMove DEF Log!Next

\* In every instance ingestion keeps one reply per key, and forgets it only with its lead.
THEOREM IngestImplementsReplyLog == Spec => ImplementsReplyLog
<1>1. Spec => Log!Init /\ [][Log!Next]_Kept
  BY LogInit, LogStep, InvHolds, PTL DEF Spec
<1> QED
  BY <1>1 DEF ImplementsReplyLog, Log!Spec
=============================================================================

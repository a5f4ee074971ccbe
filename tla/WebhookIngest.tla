--------------------------- MODULE WebhookIngest ---------------------------
(***************************************************************************)
(* IngestEmailEventUseCase: events that providers deliver at least once    *)
(* and in any order, the HTTP handlers that apply them concurrently, one   *)
(* await at a time, and the two other writers of a lead's status and       *)
(* messages, a send that records itself and the leads API.                 *)
(***************************************************************************)
EXTENDS Naturals, FiniteSets

CONSTANTS
  Leads,          (* Row identities of emails.                             *)
  Addresses,      (* Of leads; several leads may share one.                *)
  Ids,            (* Message ids the providers assign.                     *)
  NoId,           (* An id missing from the payload.                       *)
  Events,         (* Parsed payloads, of Event.                            *)
  Handlers,       (* Requests that the replicas process at one time.       *)
  Nobody,         (* No lead, no event.                                    *)
  Never,          (* date_sent is NULL.                                    *)
  MaxDeliveries,  (* Bound on the deliveries of all events.                *)
  MaxSends,       (* Bound on the sends recorded, which date_sent orders.  *)
  MaxFaults       (* Bound on crashes and database failures.               *)

Types == {"sent", "delivered", "bounced", "opened", "replied"}

\* reply and sent: the message ids of the reply and of the mail it is about. n tells
\* apart payloads that agree in all the rest.
Event == [type: Types, reply: Ids \cup {NoId}, sent: Ids \cup {NoId},
          to: Addresses, from: Addresses, n: Nat]

ASSUME TypedEvents == Events \subseteq Event
ASSUME Outsiders ==
  Nobody \notin Leads \cup Events /\ Never \notin Nat /\ NoId \notin Ids
ASSUME Budgets == MaxDeliveries \in Nat /\ MaxSends \in Nat /\ MaxFaults \in Nat

VARIABLES
  lead,       (* Lead -> its row of emails.                                *)
  inbound,    (* Event -> Lead -> inbound email_messages rows made of it.  *)
  at,         (* Handler -> the await its request is about to do.          *)
  event,      (* Handler -> the event it applies.                          *)
  seen,       (* Handler -> the lead found, with its status at that time.  *)
  deliveries, (* Deliveries so far.                                        *)
  sends,      (* Sends recorded so far.                                    *)
  applied,    (* History: events for which a request answered "applied".   *)
  faults      (* Crashes and database failures so far.                     *)

vars == <<lead, inbound, at, event, seen, deliveries, sends, applied, faults>>
requestVars == <<at, event, seen>>

-----------------------------------------------------------------------------
(* State *)

Statuses == {"sent", "delivered", "bounced", "opened", "replied"}
\* tenanted: user_id is set. sentAt: the place of date_sent in its order.
Row == [phase: {"unborn", "live", "gone"}, tenanted: BOOLEAN, address: Addresses,
        status: Statuses, sentAt: (1..MaxSends) \cup {Never}]
Seen == [lead: Leads \cup {Nobody}, status: Statuses]

\* The parsers' externalMessageId.
Key(e) ==
  IF e.reply # NoId THEN e.reply
  ELSE IF e.sent # NoId THEN e.sent ELSE <<e.type, e.to>>

Keys == {Key(e): e \in Events}

Live(l) == lead[l].phase = "live"

\* emails.status defaults to 'sent', before anything is sent. Only a legacy row lacks
\* user_id.
Unsent ==
  {r \in Row: /\ r.status = "sent" /\ r.sentAt = Never /\ r.phase # "gone"
              /\ r.phase = "unborn" => r.tenanted}
Nothing == [lead |-> Nobody, status |-> "sent"]

Init ==
  /\ lead \in [Leads -> Unsent]
  /\ inbound = [e \in Events |-> [l \in Leads |-> 0]]
  /\ at = [h \in Handlers |-> "idle"]
  /\ event = [h \in Handlers |-> Nobody]
  /\ seen = [h \in Handlers |-> Nothing]
  /\ deliveries = 0
  /\ sends = 0
  /\ applied = {}
  /\ faults = 0

\* A row of direction 'inbound' with this provider_message_id exists.
Recorded(k) == \E e \in Events, l \in Leads: inbound[e][l] > 0 /\ Key(e) = k

-----------------------------------------------------------------------------
(* A request, one action per await *)

Fault == faults < MaxFaults /\ faults' = faults + 1
Calm == UNCHANGED faults

Goto(h, step) == at' = [at EXCEPT ![h] = step]

\* The request answers; its handler forgets it.
Answer(h, didApply) ==
  /\ Goto(h, "idle")
  /\ event' = [event EXCEPT ![h] = Nobody]
  /\ seen' = [seen EXCEPT ![h] = Nothing]
  /\ applied' = IF didApply THEN applied \cup {event[h]} ELSE applied

\* The switch of dispatch leaves a 'sent' event alone.
HandledAll(type) == TRUE
Handled(type) == type # "sent"

\* A provider delivers an event, for the first time or again.
Receive(h, e) ==
  /\ at[h] = "idle"
  /\ deliveries < MaxDeliveries
  /\ deliveries' = deliveries + 1
  /\ \/ /\ ~ Handled(e.type)
        /\ UNCHANGED requestVars
     \/ /\ Handled(e.type)
        /\ Goto(h, IF e.type = "replied" THEN "exists" ELSE "find")
        /\ event' = [event EXCEPT ![h] = e]
        /\ UNCHANGED seen
  /\ UNCHANGED <<lead, inbound, sends, applied, faults>>

\* A query that fails, or a process that dies: the provider gets no 200.
Fail(h) ==
  /\ at[h] # "idle"
  /\ Fault
  /\ Answer(h, FALSE)
  /\ UNCHANGED <<lead, inbound, deliveries, sends>>

\* existsByProviderMessageId.
CheckExists(h) ==
  /\ at[h] = "exists"
  /\ \/ Recorded(Key(event[h])) /\ Answer(h, FALSE)
     \/ ~ Recorded(Key(event[h])) /\ Goto(h, "find") /\ UNCHANGED <<event, seen, applied>>
  /\ UNCHANGED <<lead, inbound, deliveries, sends, faults>>

About(e) == IF e.type = "replied" THEN e.from ELSE e.to

\* findLatestByEmailAny: ORDER BY date_sent DESC, in which PostgreSQL puts NULL first.
Later(l, m) == \/ lead[l].sentAt = Never
               \/ lead[m].sentAt # Never /\ lead[l].sentAt >= lead[m].sentAt
Matches(a) == {l \in Leads: Live(l) /\ lead[l].address = a}
Latest(a) == {l \in Matches(a): \A m \in Matches(a): Later(l, m)}

DeliveredWritesLax(status) == TRUE
DeliveredWrites(status) == status # "replied"

\* What the handler does with a lead of this status.
Writes(type, status) ==
  CASE type = "bounced"   -> TRUE
    [] type = "opened"    -> status \in {"sent", "delivered"}
    [] type = "delivered" -> DeliveredWrites(status)
    [] OTHER              -> FALSE

\* applyDelivered is the one that does not ask for a tenant.
Find(h) ==
  LET e == event[h] IN
  /\ at[h] = "find"
  /\ \/ /\ Matches(About(e)) = {}
        /\ Answer(h, FALSE)
     \/ \E l \in Latest(About(e)):
          \/ /\ ~ lead[l].tenanted /\ e.type # "delivered"
             /\ Answer(h, FALSE)
          \/ /\ lead[l].tenanted \/ e.type = "delivered"
             /\ e.type = "replied" \/ Writes(e.type, lead[l].status)
             /\ Goto(h, IF e.type = "replied" THEN "ingest" ELSE "write")
             /\ seen' = [seen EXCEPT ![h] = [lead |-> l, status |-> lead[l].status]]
             /\ UNCHANGED <<event, applied>>
          \/ /\ lead[l].tenanted \/ e.type = "delivered"
             /\ e.type # "replied" /\ ~ Writes(e.type, lead[l].status)
             /\ Answer(h, TRUE)
  /\ UNCHANGED <<lead, inbound, deliveries, sends, faults>>

\* The unique index on (provider_message_id, direction).
ConflictsNot(k) == FALSE
Conflicts(k) == Recorded(k)

\* The lead when its message was refused: the update goes with it.
MarkedAlone(l) == [lead EXCEPT ![l].status = "replied"]
RolledBack(l) == lead

\* The transaction of applyReply: P2002 answers "skipped", a deleted lead is an error.
Ingest(h) ==
  LET e == event[h]
      l == seen[h].lead
  IN
  /\ at[h] = "ingest"
  /\ \/ /\ ~ Conflicts(Key(e)) /\ Live(l)
        /\ inbound' = [inbound EXCEPT ![e][l] = @ + 1]
        /\ lead' = [lead EXCEPT ![l].status = "replied"]
        /\ \/ Calm /\ Answer(h, TRUE)
           \/ Fault /\ Answer(h, FALSE)
     \/ /\ Conflicts(Key(e)) \/ ~ Live(l)
        /\ lead' = RolledBack(l)
        /\ Calm
        /\ Answer(h, FALSE)
        /\ UNCHANGED inbound
  /\ UNCHANGED <<deliveries, sends>>

\* updateStatus: unconditional, on a lead that may have changed since it was found.
Write(h) ==
  LET l == seen[h].lead IN
  /\ at[h] = "write"
  /\ \/ /\ Live(l)
        /\ lead' = [lead EXCEPT ![l].status = event[h].type]
        /\ \/ Calm /\ Answer(h, TRUE)
           \/ Fault /\ Answer(h, FALSE)
     \/ /\ ~ Live(l)
        /\ Calm
        /\ Answer(h, FALSE)
        /\ UNCHANGED lead
  /\ UNCHANGED <<inbound, deliveries, sends>>

-----------------------------------------------------------------------------
(* The other writers *)

\* persistOutbound of the dispatch worker, first or retried.
RecordSend(l) ==
  /\ sends < MaxSends
  /\ Live(l)
  /\ sends' = sends + 1
  /\ lead' = [lead EXCEPT ![l].status = "sent", ![l].sentAt = sends + 1]
  /\ UNCHANGED <<inbound, requestVars, deliveries, applied, faults>>

CreateLead(l) ==
  /\ lead[l].phase = "unborn"
  /\ lead' = [lead EXCEPT ![l].phase = "live"]
  /\ UNCHANGED <<inbound, requestVars, deliveries, sends, applied, faults>>

\* PATCH /leads/:id may change the address that the webhooks look leads up by.
UpdateLead(l, a) ==
  /\ Live(l) /\ lead[l].tenanted
  /\ lead' = [lead EXCEPT ![l].address = a]
  /\ UNCHANGED <<inbound, requestVars, deliveries, sends, applied, faults>>

\* email_messages.email_id is ON DELETE CASCADE.
Cascade(l) == [e \in Events |-> [inbound[e] EXCEPT ![l] = 0]]

DeleteLead(l) ==
  /\ Live(l) /\ lead[l].tenanted
  /\ lead' = [lead EXCEPT ![l].phase = "gone"]
  /\ inbound' = Cascade(l)
  /\ UNCHANGED <<requestVars, deliveries, sends, applied, faults>>

-----------------------------------------------------------------------------
(* Specification *)

Step(h) == CheckExists(h) \/ Find(h) \/ Ingest(h) \/ Write(h)

Next ==
  \/ \E h \in Handlers: Step(h) \/ Fail(h) \/ \E e \in Events: Receive(h, e)
  \/ \E l \in Leads: RecordSend(l) \/ CreateLead(l) \/ DeleteLead(l)
  \/ \E l \in Leads, a \in Addresses: UpdateLead(l, a)

Spec == Init /\ [][Next]_vars

-----------------------------------------------------------------------------
(* Properties *)

\* The types; an event without a case in dispatch is never at work.
TypeOK ==
  /\ lead \in [Leads -> Row]
  /\ inbound \in [Events -> [Leads -> Nat]]
  /\ at \in [Handlers -> {"idle", "exists", "find", "ingest", "write"}]
  /\ event \in [Handlers -> {e \in Events: e.type # "sent"} \cup {Nobody}]
  /\ seen \in [Handlers -> Seen]
  /\ deliveries \in 0..MaxDeliveries
  /\ sends \in 0..MaxSends
  /\ applied \subseteq Events
  /\ faults \in 0..MaxFaults

\* "Idempotent on (provider_message_id, direction)" (ingest-email-event L15) as far as
\* the history goes: however often replies are delivered and however their handlers
\* interleave, one row in all carries a key, on a lead that still exists.
ReplyRecordedOnce ==
  \A e, f \in Events, l, m \in Leads:
    inbound[e][l] > 0 /\ inbound[f][m] > 0 /\ Key(e) = Key(f)
      => e = f /\ l = m /\ inbound[e][l] = 1 /\ Live(l)

\* A lead shows 'replied' only if one of its messages is a reply.
RepliedHasMessage ==
  \A l \in Leads: Live(l) /\ lead[l].status = "replied" =>
    \E e \in Events: e.type = "replied" /\ inbound[e][l] > 0

\* A lead that has replied stops showing it only for a bounce, for a send recorded
\* after it, or for a handler that found the lead before the reply was committed: the
\* guards of applyOpen and applyDelivered keep everything else out.
ReplyLostOnlyToBlindWrites ==
  [][\A l \in Leads:
       Live(l) /\ lead[l].status = "replied" /\ lead'[l].status # "replied" =>
         \/ sends' # sends
         \/ \E h \in Handlers: /\ at[h] = "write" /\ seen[h].lead = l
                               /\ event[h].type = "bounced" \/ seen[h].status # "replied"]_vars

\* What the comment on P2002 says (ingest-email-event L95-97), and the log line of the
\* check before it: a reply is turned away as a duplicate only if this very event is in
\* the database.
RefusedMeansIngested ==
  \A h \in Handlers: at[h] \in {"exists", "ingest"} /\ Recorded(Key(event[h])) =>
    \E l \in Leads: inbound[event[h]][l] > 0

\* What the documents promise of an event delivered twice (docs/RESUMO_NEGOCIO.md L154
\* and L174): applying it again changes nothing.
RedeliveryChangesNothing ==
  [][\A h \in Handlers:
       at[h] \in {"ingest", "write"} /\ at'[h] = "idle" /\ event[h] \in applied
         => UNCHANGED <<lead, inbound>>]_vars

-----------------------------------------------------------------------------
(* The contract *)

Rows == {r \in Events \X Leads: inbound[r[1]][r[2]] > 0}
Kept == {<<Key(r[1]), r[2]>>: r \in Rows}

Log == INSTANCE ReplyLog WITH Keys <- Keys, Leads <- Leads, kept <- Kept

\* Ingestion keeps, for each key, one reply for one lead, and forgets it only with the
\* lead.
ImplementsReplyLog == Log!Spec
=============================================================================

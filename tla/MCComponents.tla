---------------------------- MODULE MCComponents ----------------------------
(***************************************************************************)
(* The components that share no state with the dispatch, webhook and       *)
(* schedule pipelines, in one instance for TLC: a behaviour is one of one  *)
(* part, and the variables of the others keep their initial values.  Of a  *)
(* pure part there is one state per input.                                 *)
(***************************************************************************)
EXTENDS RateLimiter, EmailSend, Api, ScheduleClock, BatchPlan, WarmupPairing, Analytics,
        WebhookIntake

CONSTANTS u1, u2, i1, i2

VARIABLES part, input

vars == <<part, input, limiterVars, mailVars, apiVars>>

MCOwnerOf == [i \in Ids |-> u1]

-----------------------------------------------------------------------------
(* Inputs *)

\* Zones west and east, without a change and with one of an hour either way, and one that
\* comes to Greenwich on the second Monday.
Zones == {Zone(-3, -3, 0), Zone(9, 9, 0), Zone(-3, -2, 200), Zone(2, 1, 205), Zone(-1, 0, 361)}

ClockInputs ==
  [type : {"recurring"}, hour : {0, 2, 4, 5, 23, Never}, date : {Never},
   days : {{}, {1}, {0, 1}, {3}, {6}}, zone : Zones, from : {w * 6 + k : w \in 20..45, k \in {0, 1}}]
    \cup [type : {"one_time"}, hour : {4, Never}, date : {9, Never}, days : {{}},
          zone : Zones, from : {180, 240}]

\* Batches of one or two blocks, of up to three leads, now or for a date; of two blocks
\* those whose delays are extreme.
Blocks == UNION {[sender : {"s1", "s2"}, delay : Delays(n)] : n \in 1..3}
Extreme == {b \in Blocks : \A i \in DOMAIN b.delay : b.delay[i] \in {i * PacingMin, i * PacingMax}}

Batches ==
  [id : {"b"}, at : {0}, schedule : {FALSE}, date : {0},
   blocks : UNION {[1..n -> Extreme] : n \in 1..2}]
    \cup [id : {"b"}, at : {5}, schedule : BOOLEAN, date : {0, 9}, blocks : [1..1 -> Blocks]]

\* Up to four senders of two users.
SenderLists ==
  UNION {{[i \in 1..n |-> [id |-> i, user |-> f[i]]] : f \in [1..n -> {u1, u2}]} : n \in 0..4}

WarmupInputs ==
  {[active |-> a, draw |-> d] : a \in SenderLists, d \in UNION {Draws(n) : n \in 0..4}}

MyLeads(a) == {i \in DOMAIN a : a[i].user = u1}

Groups == {w \in WarmupInputs : DOMAIN w.draw = 2..Cardinality(MyLeads(w.active))}

Lead(user, campaign, status, deal, value, sender) ==
  [user |-> user, campaign |-> campaign, status |-> status, deal |-> deal, value |-> value,
   sender |-> sender]

LeadRows ==
  {Lead(u1, "c", "sent", Null, Null, "s1"), Lead(u1, "c", "replied", "open", 5, "s1"),
   Lead(u1, "c", "delivered", "lost", 1, "s2"), Lead(u1, "c", "bounced", "won", 2, Null),
   Lead(u1, Null, "replied", "won", Null, Null), Lead(u1, Empty, "opened", "open", 3, "s2"),
   Lead(u1, Unnamed, "finished", Null, Null, "s1"), Lead(u1, "d", Null, Null, 4, "s2"),
   Lead(u1, "d", "replied", "lost", 4, "s2"), Lead(u2, "c", "replied", "won", 7, "s3")}

LeadLists == UNION {[1..n -> LeadRows] : n \in 0..3}

Bodies ==
  [fits : BOOLEAN, type : {"sent", "opened", "complained"}, id : {"m"}, noRecipient : BOOLEAN,
   dated : {TRUE}]
    \cup [fits : BOOLEAN, type : DOMAIN SmartLeadType, id : {"m", None}, replyId : {"r", None},
          to : {"a"}, dated : BOOLEAN]

Notifications ==
  {n \in [provider : {None, "resend", "smartlead", "zapmail", "unipile"}, secret : BOOLEAN,
          proof : {"none", "wrong", "body", "stamped", "header"}, age : {-301, -300, 0, 300},
          body : Bodies] :
     /\ (n.provider = "resend") = ("noRecipient" \in DOMAIN n.body)
     /\ n.proof # "stamped" => n.age = 0}

Inputs ==
  [limiter |-> {None}, mail |-> {None}, api |-> {None}, clock |-> ClockInputs, batch |-> Batches,
   warmup |-> Groups, analytics |-> LeadLists, intake |-> Notifications]

-----------------------------------------------------------------------------
(* Behaviours *)

\* What the variables of a part are while it is not the one that runs.
IdleMail == provider = "resend" /\ configured = TRUE
IdleApi == table = "inbox" /\ pinned = {} /\ rows = [i \in Ids |-> Gone]

MCInit ==
  /\ part \in DOMAIN Inputs
  /\ input \in Inputs[part]
  /\ LimiterInit /\ MailInit /\ ApiInit
  /\ part # "mail" => IdleMail
  /\ part # "api" => IdleApi

MCNext ==
  /\ \/ part = "limiter" /\ LimiterNext /\ UNCHANGED <<mailVars, apiVars>>
     \/ part = "mail" /\ MailNext /\ UNCHANGED <<limiterVars, apiVars>>
     \/ part = "api" /\ ApiNext /\ UNCHANGED <<limiterVars, mailVars>>
  /\ UNCHANGED <<part, input>>

MCSpec == MCInit /\ [][MCNext]_vars /\ MailFairness

-----------------------------------------------------------------------------
(* The properties of the pure parts, over their inputs *)

\* The types of the parts that have a state.
ComponentsTypeOK == LimiterTypeOK /\ MailTypeOK /\ ApiTypeOK

\* ScheduleClock: the next run is the earliest by the user's calendar, and exists unless
\* the schedule names no time, date or day.
NextRunCorrect == part = "clock" => NextRunIsEarliest(input) /\ NextRunExists(input)

\* ScheduleClock: at a change of offset it is off by no more than the change.
NextRunOffByShift == part = "clock" => NextRunNearChange(input)

\* SendBatchUseCase: leads are lost exactly if two blocks name one sender.
LostLeadsExplained == part = "batch" => LeadsLostToSharedSender(input)

\* SendBatchUseCase: how near to each other the mails of a mailbox may be due.
PacingKept == part = "batch" => DriftBounded(input)

\* buildWarmupPairs: every sender writes once and is written to once, within its tenant.
WarmupFair == part = "warmup" => PairsAreFair(input.active, u1, input.draw)

\* shuffle: every order is as likely as any other.
ShuffleUniform == part = "warmup" => ShuffleIsUniform(input.active)

\* AnalyticsService: the three answers of a user agree.
DashboardAgrees == part = "analytics" => MetricsAgree(input, u1)

\* AnalyticsService: the reply rate is too high by what is delivered or finished.
ReplyRateBounded == part = "analytics" => ReplyRateOverstated(input, u1)

\* WebhooksController: which notifications are not told again what they were told.
RedeliveryAnswered ==
  part = "intake" => \A later \in {0, 1, 300, 601} : RepeatsAnswerAlike(input, later)

\* WebhooksController and parsers: which genuine notifications are lost.
GenuineTaken == part = "intake" => GenuineEventsAreTaken(input)
=============================================================================

----------------------------- MODULE Analytics -----------------------------
(***************************************************************************)
(* The three queries over leads that make the dashboard, for one user.     *)
(* `leads` is a sequence of rows of emails; a missing column is Null.      *)
(***************************************************************************)
EXTENDS Naturals, Sequences, FiniteSets, FiniteSetsExt

CONSTANTS Null, Unnamed, Empty     \* SQL's NULL, '(no campaign)', and ''

Rows(leads, user) == {i \in DOMAIN leads : leads[i].user = user}
Count(leads, rows, statuses) == Cardinality({i \in rows : leads[i].status \in statuses})
Deals(leads, rows, states) == {i \in rows : leads[i].deal \in states}
Value(leads, rows) ==
  MapThenSumSet(LAMBDA i : IF leads[i].value = Null THEN 0 ELSE leads[i].value, rows)

\* ROUND(n / d * 100, 2), in hundredths of a per cent; a half is rounded up.
Rate(n, d) == IF d = 0 THEN 0 ELSE (20000 * n + d) \div (2 * d)

InRateFew == {"sent", "replied", "opened"}

\* What counts as sent in the reply rate.
InRate == {"sent", "replied", "opened", "bounced"}

CampaignOrNull(lead) == IF lead.campaign = Null THEN Unnamed ELSE lead.campaign

\* COALESCE(NULLIF(campaign_name, ''), '(no campaign)').
CampaignOf(lead) == IF lead.campaign \in {Null, Empty} THEN Unnamed ELSE lead.campaign

Metric(leads, rows) ==
  [total |-> Cardinality(rows),
   replied |-> Count(leads, rows, {"replied"}),
   openDeals |-> Cardinality(Deals(leads, rows, {"open"})),
   wonDeals |-> Cardinality(Deals(leads, rows, {"won"})),
   lostDeals |-> Cardinality(Deals(leads, rows, {"lost"})),
   pipelineValue |-> Value(leads, Deals(leads, rows, {"open"})),
   closedWonValue |-> Value(leads, Deals(leads, rows, {"won"})),
   replyRate |-> Rate(Count(leads, rows, {"replied"}), Count(leads, rows, InRate)),
   winRate |-> Rate(Cardinality(Deals(leads, rows, {"won"})),
                    Cardinality(Deals(leads, rows, {"won", "lost"})))]

PipelineMetrics(leads, user) ==
  [c \in {CampaignOf(leads[i]) : i \in Rows(leads, user)} |->
     Metric(leads, {i \in Rows(leads, user) : CampaignOf(leads[i]) = c})]

SenderEmailStats(leads, user) ==
  LET mine == {i \in Rows(leads, user) : leads[i].sender # Null}
  IN [s \in {leads[i].sender : i \in mine} |->
        LET rows == {i \in mine : leads[i].sender = s}
        IN [total |-> Cardinality(rows),
            sent |-> Count(leads, rows, {"sent"}), replied |-> Count(leads, rows, {"replied"}),
            bounced |-> Count(leads, rows, {"bounced"}), opened |-> Count(leads, rows, {"opened"})]]

UserCampaignNames(leads, user) ==
  {leads[i].campaign : i \in {k \in Rows(leads, user) : leads[k].campaign \notin {Null, Empty}}}

-----------------------------------------------------------------------------
\* The three answers agree: every lead is in one campaign, every name has its metrics, and
\* the replies by campaign include the replies by sender.
MetricsAgree(leads, user) ==
  LET m == PipelineMetrics(leads, user)
      s == SenderEmailStats(leads, user)
  IN /\ MapThenSumSet(LAMBDA c : m[c].total, DOMAIN m) = Cardinality(Rows(leads, user))
     /\ DOMAIN m \ {Unnamed} = UserCampaignNames(leads, user) \ {Unnamed}
     /\ MapThenSumSet(LAMBDA c : m[c].replied, DOMAIN m)
          >= MapThenSumSet(LAMBDA x : s[x].replied, DOMAIN s)
     /\ \A x \in DOMAIN s : s[x].total >= s[x].sent + s[x].replied + s[x].bounced + s[x].opened

\* Sent are all leads whose status is not that of an unsent one.
EverSent(leads, rows) ==
  Count(leads, rows, {"sent", "delivered", "replied", "opened", "bounced", "finished"})

\* A reply rate is a percentage. It is the share of the mails sent that were replied to,
\* until the provider reports some as delivered, or a lead is finished: those leave the
\* denominator, and the rate is then too high, never too low.
ReplyRateOverstated(leads, user) ==
  LET m == PipelineMetrics(leads, user)
  IN \A c \in DOMAIN m :
       LET rows == {i \in Rows(leads, user) : CampaignOf(leads[i]) = c}
           share == Rate(m[c].replied, EverSent(leads, rows))
       IN /\ m[c].replyRate \in share..10000
          /\ Count(leads, rows, {"delivered", "finished"}) = 0 => m[c].replyRate = share
=============================================================================

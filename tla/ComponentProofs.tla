--------------------------- MODULE ComponentProofs ---------------------------
(***************************************************************************)
(* The components of MCComponents, for every input and not only for those  *)
(* TLC enumerates: the parts with a state, the next run, the batch and the *)
(* webhook by the theorems of other modules; the dashboard, for leads of   *)
(* any number, and the warm-up, for senders of any number, here.           *)
(***************************************************************************)
EXTENDS MCComponents, SendingProofs, ApiProofs, ClockProofs, FiniteSetTheorems

-----------------------------------------------------------------------------
(* The parts with a state *)

\* A behaviour of the components is one of each part with a state: the idle ones stutter.
LEMMA PartsRun == MCSpec => LimiterSpec /\ MailSpec /\ ApiSpec
<1>1. MCInit => LimiterInit /\ MailInit /\ ApiInit
  BY DEF MCInit
<1>2. [MCNext]_vars => /\ [LimiterNext]_limiterVars
                       /\ [MailNext]_mailVars
                       /\ [ApiNext]_apiVars
  BY DEF MCNext, vars, limiterVars, mailVars, apiVars
<1>3. QED
  BY <1>1, <1>2, PTL DEF MCSpec, LimiterSpec, MailSpec, ApiSpec

\* The components keep their types.
THEOREM ComponentsAreTyped == MCSpec => []ComponentsTypeOK
<1>1. LimiterTypeOK /\ MailTypeOK /\ ApiTypeOK => ComponentsTypeOK
  BY DEF ComponentsTypeOK
<1>2. QED
  BY <1>1, PartsRun, LimiterIsTyped, MailIsTyped, ApiIsTyped, PTL

-----------------------------------------------------------------------------
(* The next run of a schedule *)

\* ScheduleClock: the run NextRunCorrect of every input of the clock.
THEOREM NextRunIsCorrect == (part = "clock" => input \in ClockInput) => NextRunCorrect
BY NextRunsAreEarliest, NextRunsExist DEF NextRunCorrect

\* ScheduleClock: and what a change of offset may do to it.
THEOREM NextRunIsOffByShift == (part = "clock" => input \in ClockInput) => NextRunOffByShift
BY NextRunsAreNear DEF NextRunOffByShift

-----------------------------------------------------------------------------
(* The jobs of a batch *)

\* SendBatchUseCase: the run's LostLeadsExplained, of every batch.
THEOREM LostLeadsAreExplained == (part = "batch" => IsBatch(input)) => LostLeadsExplained
BY LeadsAreLostToSharedSenders DEF LostLeadsExplained

\* SendBatchUseCase: and PacingKept.
THEOREM PacingIsAlwaysKept == (part = "batch" => IsBatch(input)) => PacingKept
BY PacingIsKept DEF PacingKept

-----------------------------------------------------------------------------
(* Notifications *)

IsNotification(n) == \E Texts : n \in Notification(Texts)

\* WebhooksController: the run's RedeliveryAnswered, of every notification.
THEOREM RedeliveriesAreAnswered == (part = "intake" => IsNotification(input)) => RedeliveryAnswered
BY RepeatsAreAnsweredAlike DEF IsNotification, RedeliveryAnswered

\* WebhooksController and the parsers: and GenuineTaken.
THEOREM GenuineEventsTaken == (part = "intake" => IsNotification(input)) => GenuineTaken
BY GenuineAreTaken DEF IsNotification, GenuineTaken
-----------------------------------------------------------------------------
(* Rates *)

LEMMA Quotient ==
  ASSUME NEW a \in Nat, NEW b \in Nat \ {0}
  PROVE  a \div b \in Nat /\ (a \div b) * b <= a /\ a < (a \div b) * b + b
OBVIOUS

LEMMA ProductsGrow ==
  ASSUME NEW a \in Int, NEW b \in Int, NEW c \in Nat, a <= b
  PROVE  a * c \in Int /\ b * c \in Int /\ a * c <= b * c
OBVIOUS

\* A quotient is the largest number whose product fits.
LEMMA QuotientIsLargest ==
  ASSUME NEW a \in Nat, NEW b \in Nat \ {0}, NEW q \in Int, q * b <= a
  PROVE  q <= a \div b
<1> DEFINE p == a \div b
<1>1. p \in Nat /\ a < p * b + b
  BY Quotient
<1> HIDE DEF p
<1>2. q * b \in Int /\ (p + 1) * b \in Int /\ (q * b < (p + 1) * b)
  <2>1. p * b + b = (p + 1) * b
    BY <1>1
  <2>2. QED
    BY <1>1, <2>1
<1>3. q >= p + 1 => (p + 1) * b <= q * b
  BY <1>1, ProductsGrow
<1>4. q < p + 1
  BY <1>1, <1>2, <1>3
<1>5. QED
  BY <1>1, <1>4 DEF p

\* A rate of a part is a percentage.
LEMMA RateIsPercentage ==
  ASSUME NEW n \in Nat, NEW d \in Nat, n <= d
  PROVE  Rate(n, d) \in Nat /\ Rate(n, d) <= 10000
<1>1. CASE d = 0
  BY <1>1 DEF Rate
<1>2. CASE d # 0
  <2> DEFINE a == 20000 * n + d
             b == 2 * d
             q == a \div b
  <2>1. a \in Nat /\ b \in Nat \ {0} /\ a < 10001 * b
    BY <1>2
  <2>2. 10001 * b \in Int
    BY <2>1
  <2> HIDE DEF a, b
  <2>3. q \in Nat /\ q * b <= a
    BY <2>1, Quotient
  <2> HIDE DEF q
  <2>4. q * b \in Int /\ q * b < 10001 * b
    BY <2>1, <2>2, <2>3
  <2>5. 10001 <= q => 10001 * b <= q * b
    BY <2>1, <2>3, ProductsGrow
  <2>6. q <= 10000
    BY <2>2, <2>3, <2>4, <2>5
  <2>7. QED
    BY <1>2, <2>3, <2>6 DEF Rate, a, b, q
<1>3. QED
  BY <1>1, <1>2

\* Of more, the same number is a smaller rate.
LEMMA RateFalls ==
  ASSUME NEW n \in Nat, NEW d \in Nat, NEW e \in Nat, n <= d, d <= e
  PROVE  Rate(n, e) <= Rate(n, d)
<1>1. CASE d = 0
  <2>1. n = 0
    BY <1>1
  <2>2. e # 0 => (20000 * 0 + e) \div (2 * e) = 0
    <3> SUFFICES ASSUME e # 0 PROVE (20000 * 0 + e) \div (2 * e) = 0
      OBVIOUS
    <3> DEFINE b == 2 * e
               q == e \div b
    <3>1. b \in Nat \ {0} /\ e < b
      OBVIOUS
    <3> HIDE DEF b
    <3>2. q \in Nat /\ q * b <= e
      BY <3>1, Quotient
    <3> HIDE DEF q
    <3>3. 1 <= q => 1 * b <= q * b
      BY <3>1, <3>2, ProductsGrow
    <3>4. q * b \in Int
      BY <3>1, <3>2
    <3>5. q = 0
      BY <3>1, <3>2, <3>3, <3>4
    <3>6. 20000 * 0 + e = e
      OBVIOUS
    <3>7. QED
      BY <3>5, <3>6 DEF q, b
  <2>3. QED
    BY <1>1, <2>1, <2>2 DEF Rate
<1>2. CASE d # 0
  <2> DEFINE a == 20000 * n + e
             b == 2 * e
             q == a \div b
  <2>1. a \in Nat /\ b \in Nat \ {0}
    BY <1>2
  <2> HIDE DEF a, b
  <2>2. q \in Nat /\ q * b <= a
    BY <2>1, Quotient
  <2> HIDE DEF q
  <2>3. q * (2 * d) <= 20000 * n + d
    <3>1. CASE q = 0
      BY <3>1
    <3>2. CASE q # 0
      <4> DEFINE c == 2 * q - 1
      <4>1. c \in Nat
        BY <2>2, <3>2
      <4>2. q * (2 * e) = c * e + e /\ q * (2 * d) = c * d + d
        BY <2>2
      <4> HIDE DEF c
      <4>3. d * c <= e * c /\ d * c \in Int /\ e * c \in Int
        BY <4>1, ProductsGrow
      <4>4. d * c = c * d /\ e * c = c * e
        BY <4>1
      <4>5. c * e + e <= 20000 * n + e
        BY <2>2, <4>2 DEF a, b
      <4> DEFINE x == c * d
                 y == c * e
      <4>6. x \in Int /\ y \in Int /\ x <= y
        BY <4>3, <4>4
      <4> HIDE DEF x, y
      <4>7. y + e <= 20000 * n + e
        BY <4>5 DEF y
      <4>8. x + d <= 20000 * n + d
        BY <4>6, <4>7
      <4>9. QED
        BY <4>2, <4>8 DEF x
    <3>3. QED
      BY <3>1, <3>2
  <2>4. 20000 * n + d \in Nat /\ 2 * d \in Nat \ {0}
    BY <1>2
  <2>5. q <= (20000 * n + d) \div (2 * d)
    BY <2>2, <2>3, <2>4, QuotientIsLargest
  <2>6. QED
    BY <1>2, <2>5 DEF Rate, q, a, b
<1>3. QED
  BY <1>1, <1>2

LEMMA CountsNest ==
  ASSUME NEW leads, NEW found, IsFiniteSet(found), NEW S, NEW T, S \subseteq T
  PROVE  /\ Count(leads, found, S) \in Nat
         /\ Count(leads, found, T) \in Nat
         /\ Count(leads, found, S) <= Count(leads, found, T)
<1> DEFINE A(statuses) == {i \in found : leads[i].status \in statuses}
<1>1. IsFiniteSet(A(S)) /\ IsFiniteSet(A(T))
  BY FS_Subset
<1>2. A(S) \in SUBSET A(T)
  OBVIOUS
<1>3. Cardinality(A(S)) \in Nat /\ Cardinality(A(T)) \in Nat
  BY <1>1, FS_CardinalityType
<1>4. Cardinality(A(S)) <= Cardinality(A(T))
  BY <1>1, <1>2, FS_Subset
<1>5. QED
  BY <1>3, <1>4 DEF Count

\* What ReplyRateOverstated says of one campaign.
RateOverstated(leads, found, metric) ==
  LET share == Rate(metric.replied, EverSent(leads, found))
  IN /\ metric.replyRate \in share..10000
     /\ Count(leads, found, {"delivered", "finished"}) = 0 => metric.replyRate = share

\* AnalyticsService: of any leads, the reply rate of a campaign is a percentage and not
\* below the share of its mails that were replied to, and it is that share until a mail is
\* reported as delivered or a lead is finished.
THEOREM ReplyRatesAreOverstated ==
  \A leads, user : IsFiniteSet(DOMAIN leads) => ReplyRateOverstated(leads, user)
<1> SUFFICES ASSUME NEW leads, NEW user, IsFiniteSet(DOMAIN leads),
                    NEW c \in DOMAIN PipelineMetrics(leads, user)
             PROVE  RateOverstated(leads, {i \in Rows(leads, user) : CampaignOf(leads[i]) = c},
                                   PipelineMetrics(leads, user)[c])
  BY DEF ReplyRateOverstated, RateOverstated
<1> DEFINE found == {i \in Rows(leads, user) : CampaignOf(leads[i]) = c}
           Ever == {"sent", "delivered", "replied", "opened", "bounced", "finished"}
           replied == Count(leads, found, {"replied"})
           rated == Count(leads, found, InRate)
           ever == Count(leads, found, Ever)
<1>1. IsFiniteSet(found)
  BY FS_Subset DEF Rows
<1>2. PipelineMetrics(leads, user)[c] = Metric(leads, found)
  BY DEF PipelineMetrics
<1>3. /\ PipelineMetrics(leads, user)[c].replied = replied
      /\ PipelineMetrics(leads, user)[c].replyRate = Rate(replied, rated)
  BY <1>2 DEF Metric
<1>4. EverSent(leads, found) = ever
  BY DEF EverSent
<1>5. /\ replied \in Nat /\ rated \in Nat /\ ever \in Nat
      /\ replied <= rated /\ rated <= ever
  <2>1. {"replied"} \subseteq InRate /\ InRate \subseteq Ever
    BY DEF InRate
  <2> HIDE DEF found, Ever
  <2>2. QED
    BY <1>1, <2>1, CountsNest
<1>6. Count(leads, found, {"delivered", "finished"}) = 0 => rated = ever
  <2> DEFINE late == {i \in found : leads[i].status \in {"delivered", "finished"}}
  <2>1. IsFiniteSet(late)
    BY <1>1, FS_Subset
  <2>2. Cardinality(late) = 0 => late = {}
    BY <2>1, FS_EmptySet
  <2>3. late = {} => {i \in found : leads[i].status \in InRate}
                       = {i \in found : leads[i].status \in Ever}
    BY DEF InRate
  <2>4. QED
    BY <2>2, <2>3 DEF Count
<1> HIDE DEF replied, rated, ever, found
<1>7. /\ Rate(replied, ever) \in Nat /\ Rate(replied, rated) \in Nat
      /\ Rate(replied, rated) <= 10000
  <2>1. replied <= ever
    BY <1>5
  <2>2. Rate(replied, ever) \in Nat
    BY <1>5, <2>1, RateIsPercentage
  <2>3. Rate(replied, rated) \in Nat /\ Rate(replied, rated) <= 10000
    BY <1>5, RateIsPercentage
  <2>4. QED
    BY <2>2, <2>3
<1>8. Rate(replied, ever) <= Rate(replied, rated)
  BY <1>5, RateFalls
<1>9. QED
  <2>1. Rate(replied, rated) \in Rate(replied, ever)..10000
    BY <1>7, <1>8
  <2>2. RateOverstated(leads, found, PipelineMetrics(leads, user)[c])
    BY <1>3, <1>4, <1>6, <2>1 DEF RateOverstated
  <2>3. QED
    BY <2>2 DEF found

\* AnalyticsService: the run's ReplyRateBounded, of every list of leads.
THEOREM ReplyRatesAreBounded ==
  (part = "analytics" => IsFiniteSet(DOMAIN input)) => ReplyRateBounded
BY ReplyRatesAreOverstated DEF ReplyRateBounded

-----------------------------------------------------------------------------
(* Sums *)

\* The rows with a label in T.
Labelled(R, label, T) == {i \in R : label[i] \in T}

AnyOf(T) == CHOOSE x \in T : TRUE

\* How the fold sums the numbers h of the members of C.
SumsUp(h, C, g) ==
  g = [T \in SUBSET C |-> IF T = {} THEN 0 ELSE h[AnyOf(T)] + g[T \ {AnyOf(T)}]]

LEMMA DisjointUnion ==
  ASSUME NEW A, NEW B, IsFiniteSet(A), IsFiniteSet(B), A \cap B = {}
  PROVE  /\ Cardinality(A) \in Nat /\ Cardinality(B) \in Nat
         /\ IsFiniteSet(A \cup B)
         /\ Cardinality(A \cup B) = Cardinality(A) + Cardinality(B)
<1>1. Cardinality(A) \in Nat /\ Cardinality(B) \in Nat
  BY FS_CardinalityType
<1>2. /\ IsFiniteSet(A \cup B)
      /\ Cardinality(A \cup B) = Cardinality(A) + Cardinality(B) - Cardinality({})
  BY FS_Union
<1>3. QED
  BY <1>1, <1>2, FS_EmptySet

LEMMA LabelledSplit ==
  ASSUME NEW R, IsFiniteSet(R), NEW label, NEW T, NEW x \in T
  PROVE  /\ Cardinality(Labelled(R, label, T)) \in Nat
         /\ Cardinality(Labelled(R, label, T))
              = Cardinality(Labelled(R, label, {x})) + Cardinality(Labelled(R, label, T \ {x}))
<1> DEFINE A == Labelled(R, label, {x})
           B == Labelled(R, label, T \ {x})
<1>1. Labelled(R, label, T) = A \cup B /\ A \cap B = {}
  BY DEF Labelled
<1>2. A \in SUBSET R /\ B \in SUBSET R
  BY DEF Labelled
<1> HIDE DEF A, B
<1>3. IsFiniteSet(A) /\ IsFiniteSet(B)
  BY <1>2, FS_Subset
<1>4. Cardinality(A) \in Nat /\ Cardinality(B) \in Nat
  BY <1>3, FS_CardinalityType
<1>5. Cardinality(A \cup B) = Cardinality(A) + Cardinality(B)
  BY <1>1, <1>3, DisjointUnion
<1>6. QED
  BY <1>1, <1>4, <1>5 DEF A, B

\* h counts the rows R by their label, one of C.
CountsBy(h, C, R, label) ==
  /\ IsFiniteSet(R) /\ IsFiniteSet(C)
  /\ \A i \in R : label[i] \in C
  /\ \A c \in C : h[c] = Cardinality(Labelled(R, label, {c}))

\* The sum of the numbers h is the number of the members of R.
SumIs(h, C, R) ==
  /\ \E g : SumsUp(h, C, g)
  /\ \A g : SumsUp(h, C, g) => g[C] = Cardinality(R)

\* A sum over labels of the numbers of rows that bear them is the number of rows.
LEMMA SumOfCounts ==
  ASSUME NEW R, NEW C, NEW label, NEW h, CountsBy(h, C, R, label)
  PROVE  SumIs(h, C, R)
<1>1. /\ IsFiniteSet(R) /\ IsFiniteSet(C)
      /\ \A i \in R : label[i] \in C
      /\ \A c \in C : h[c] = Cardinality(Labelled(R, label, {c}))
  BY DEF CountsBy
<1> DEFINE N(T) == Cardinality(Labelled(R, label, T))
<1>2. N({}) = 0
  <2>1. Labelled(R, label, {}) = {}
    BY DEF Labelled
  <2>2. QED
    BY <2>1, FS_EmptySet
<1>3. ASSUME NEW T \in SUBSET C, T # {}
      PROVE  AnyOf(T) \in T /\ N(T) = h[AnyOf(T)] + N(T \ {AnyOf(T)})
  <2>1. AnyOf(T) \in T
    BY <1>3 DEF AnyOf
  <2>2. h[AnyOf(T)] = N({AnyOf(T)})
    BY <1>1, <2>1
  <2>3. N(T) = N({AnyOf(T)}) + N(T \ {AnyOf(T)})
    BY <1>1, <2>1, LabelledSplit
  <2>4. QED
    BY <2>1, <2>2, <2>3
<1>4. N(C) = Cardinality(R)
  <2>1. Labelled(R, label, C) = R
    BY <1>1 DEF Labelled
  <2>2. QED
    BY <2>1
<1> HIDE DEF N
<1>5. \E g : SumsUp(h, C, g)
  <2> DEFINE g == [T \in SUBSET C |-> N(T)]
  <2>1. \A T \in SUBSET C :
          g[T] = IF T = {} THEN 0 ELSE h[AnyOf(T)] + g[T \ {AnyOf(T)}]
    BY <1>2, <1>3
  <2>2. g = [T \in SUBSET C |-> g[T]]
    OBVIOUS
  <2> HIDE DEF g
  <2>3. SumsUp(h, C, g)
    BY <2>1, <2>2 DEF SumsUp
  <2>4. QED
    BY <2>3
<1>6. ASSUME NEW g, SumsUp(h, C, g) PROVE g[C] = N(C)
  <2> DEFINE P == {k \in Nat : \A T \in SUBSET C : Cardinality(T) = k => g[T] = N(T)}
  <2>1. ASSUME NEW T \in SUBSET C
        PROVE  IsFiniteSet(T) /\ Cardinality(T) \in Nat
    BY <1>1, FS_Subset, FS_CardinalityType
  <2>2. 0 \in P
    <3>1. ASSUME NEW T \in SUBSET C, Cardinality(T) = 0 PROVE g[T] = N(T)
      <4>1. T = {}
        BY <2>1, <3>1, FS_EmptySet
      <4>2. QED
        BY <1>2, <1>6, <4>1 DEF SumsUp
    <3>2. QED
      BY <3>1
  <2>3. ASSUME NEW k \in 1..Cardinality(C), k - 1 \in P PROVE k \in P
    <3>1. ASSUME NEW T \in SUBSET C, Cardinality(T) = k PROVE g[T] = N(T)
      <4> DEFINE x == AnyOf(T)
      <4>1. T # {}
        BY <3>1, FS_EmptySet
      <4>2. x \in T /\ N(T) = h[x] + N(T \ {x})
        BY <1>3, <4>1
      <4>3. Cardinality(T \ {x}) = k - 1
        BY <2>1, <3>1, <4>2, FS_RemoveElement
      <4>4. g[T \ {x}] = N(T \ {x})
        BY <2>3, <4>3
      <4>5. g[T] = h[x] + g[T \ {x}]
        BY <1>6, <4>1 DEF SumsUp
      <4>6. QED
        BY <4>2, <4>4, <4>5
    <3>2. k \in Nat
      OBVIOUS
    <3>3. QED
      BY <3>1, <3>2
  <2> DEFINE c == Cardinality(C)
  <2>4. c \in Nat
    BY <2>1
  <2> HIDE DEF P
  <2>5. c \in P
    <3>1. 0..c \subseteq P
      BY <2>2, <2>3, <2>4, Induction
    <3>2. QED
      BY <2>4, <3>1
  <2>6. QED
    BY <2>5 DEF P
<1>7. QED
  BY <1>4, <1>5, <1>6 DEF SumIs

\* The same of the sums over campaigns or senders.
LEMMA TotalsAddUp ==
  ASSUME NEW R, IsFiniteSet(R), NEW m, IsFiniteSet(DOMAIN m), NEW label,
         \A i \in R : label[i] \in DOMAIN m,
         \A c \in DOMAIN m : m[c].total = Cardinality(Labelled(R, label, {c}))
  PROVE  MapThenSumSet(LAMBDA c : m[c].total, DOMAIN m) = Cardinality(R)
<1> DEFINE C == DOMAIN m
           h == [c \in C |-> m[c].total]
           Body(g) == [T \in SUBSET C |->
                         IF T = {} THEN 0 ELSE m[AnyOf(T)].total + g[T \ {AnyOf(T)}]]
           iter == CHOOSE g : g = Body(g)
<1>1. MapThenSumSet(LAMBDA c : m[c].total, DOMAIN m) = iter[C]
  BY DEF MapThenSumSet, MapThenFoldSet, AnyOf
<1>2. ASSUME NEW g PROVE g = Body(g) <=> SumsUp(h, C, g)
  <2>1. \A T \in SUBSET C : T # {} => AnyOf(T) \in C
    BY DEF AnyOf
  <2>2. \A T \in SUBSET C : T # {} => m[AnyOf(T)].total = h[AnyOf(T)]
    BY <2>1
  <2>3. Body(g) = [T \in SUBSET C |-> IF T = {} THEN 0 ELSE h[AnyOf(T)] + g[T \ {AnyOf(T)}]]
    BY <2>2
  <2>4. QED
    BY <2>3 DEF SumsUp
<1>3. SumIs(h, C, R)
  <2>1. CountsBy(h, C, R, label)
    BY DEF CountsBy
  <2> HIDE DEF h, C
  <2>2. QED
    BY <2>1, SumOfCounts
<1> HIDE DEF h, Body
<1>4. iter = Body(iter)
  BY <1>2, <1>3 DEF SumIs
<1>5. QED
  BY <1>1, <1>2, <1>3, <1>4 DEF SumIs

LEMMA RepliesAddUp ==
  ASSUME NEW R, IsFiniteSet(R), NEW m, IsFiniteSet(DOMAIN m), NEW label,
         \A i \in R : label[i] \in DOMAIN m,
         \A c \in DOMAIN m : m[c].replied = Cardinality(Labelled(R, label, {c}))
  PROVE  MapThenSumSet(LAMBDA c : m[c].replied, DOMAIN m) = Cardinality(R)
<1> DEFINE C == DOMAIN m
           h == [c \in C |-> m[c].replied]
           Body(g) == [T \in SUBSET C |->
                         IF T = {} THEN 0 ELSE m[AnyOf(T)].replied + g[T \ {AnyOf(T)}]]
           iter == CHOOSE g : g = Body(g)
<1>1. MapThenSumSet(LAMBDA c : m[c].replied, DOMAIN m) = iter[C]
  BY DEF MapThenSumSet, MapThenFoldSet, AnyOf
<1>2. ASSUME NEW g PROVE g = Body(g) <=> SumsUp(h, C, g)
  <2>1. \A T \in SUBSET C : T # {} => AnyOf(T) \in C
    BY DEF AnyOf
  <2>2. \A T \in SUBSET C : T # {} => m[AnyOf(T)].replied = h[AnyOf(T)]
    BY <2>1
  <2>3. Body(g) = [T \in SUBSET C |-> IF T = {} THEN 0 ELSE h[AnyOf(T)] + g[T \ {AnyOf(T)}]]
    BY <2>2
  <2>4. QED
    BY <2>3 DEF SumsUp
<1>3. SumIs(h, C, R)
  <2>1. CountsBy(h, C, R, label)
    BY DEF CountsBy
  <2> HIDE DEF h, C
  <2>2. QED
    BY <2>1, SumOfCounts
<1> HIDE DEF h, Body
<1>4. iter = Body(iter)
  BY <1>2, <1>3 DEF SumIs
<1>5. QED
  BY <1>1, <1>2, <1>3, <1>4 DEF SumIs


\* No lead has two statuses.
LEMMA FourCounts ==
  ASSUME NEW leads, NEW found, IsFiniteSet(found)
  PROVE  Cardinality(found) >= Count(leads, found, {"sent"}) + Count(leads, found, {"replied"})
                                + Count(leads, found, {"bounced"}) + Count(leads, found, {"opened"})
<1> DEFINE A(status) == {i \in found : leads[i].status \in {status}}
           B == A("sent") \cup A("replied")
           C == A("bounced") \cup A("opened")
<1>1. /\ A("sent") \cap A("replied") = {} /\ A("bounced") \cap A("opened") = {}
      /\ B \cap C = {} /\ (B \cup C) \in SUBSET found
  OBVIOUS
<1>2. \A status : IsFiniteSet(A(status)) /\ Cardinality(A(status)) \in Nat
  <2>1. ASSUME NEW status PROVE IsFiniteSet(A(status))
    BY FS_Subset
  <2> HIDE DEF A
  <2>2. QED
    BY <2>1, FS_CardinalityType
<1>3. \A status : Count(leads, found, {status}) = Cardinality(A(status))
  BY DEF Count
<1> HIDE DEF A
<1>4. /\ IsFiniteSet(B) /\ Cardinality(B) = Cardinality(A("sent")) + Cardinality(A("replied"))
      /\ IsFiniteSet(C) /\ Cardinality(C) = Cardinality(A("bounced")) + Cardinality(A("opened"))
  BY <1>1, <1>2, DisjointUnion
<1> HIDE DEF B, C
<1>5. Cardinality(B \cup C) = Cardinality(B) + Cardinality(C)
  BY <1>1, <1>4, DisjointUnion
<1>6. Cardinality(found) \in Nat /\ Cardinality(B \cup C) <= Cardinality(found)
  BY <1>1, FS_Subset, FS_CardinalityType
<1>7. QED
  BY <1>2, <1>3, <1>4, <1>5, <1>6

\* AnalyticsService: of any leads, the campaigns share out a user's leads among them, the
\* names agree, and the replies by campaign include those by sender.
THEOREM MetricsAlwaysAgree ==
  \A leads, user : IsFiniteSet(DOMAIN leads) => MetricsAgree(leads, user)
<1> SUFFICES ASSUME NEW leads, NEW user, IsFiniteSet(DOMAIN leads)
             PROVE  MetricsAgree(leads, user)
  OBVIOUS
<1> DEFINE R == Rows(leads, user)
           m == PipelineMetrics(leads, user)
           campaign == [i \in R |-> CampaignOf(leads[i])]
           mine == {i \in R : leads[i].sender # Null}
           s == SenderEmailStats(leads, user)
           sender == [i \in mine |-> leads[i].sender]
           Replied(found) == {i \in found : leads[i].status \in {"replied"}}
<1>1. IsFiniteSet(R) /\ IsFiniteSet(mine) /\ IsFiniteSet(Replied(R)) /\ IsFiniteSet(Replied(mine))
  <2>1. R \in SUBSET (DOMAIN leads)
    BY DEF Rows
  <2>2. IsFiniteSet(R)
    BY <2>1, FS_Subset
  <2> HIDE DEF R
  <2>3. /\ mine \in SUBSET R /\ Replied(R) \in SUBSET R /\ Replied(mine) \in SUBSET R
    OBVIOUS
  <2>4. QED
    BY <2>2, <2>3, FS_Subset
<1>2. DOMAIN m = {CampaignOf(leads[i]) : i \in R}
  BY DEF PipelineMetrics
<1>3. DOMAIN s = {leads[i].sender : i \in mine}
  BY DEF SenderEmailStats
<1>4. ASSUME NEW c \in DOMAIN m
      PROVE  /\ m[c].total = Cardinality(Labelled(R, campaign, {c}))
             /\ m[c].replied = Cardinality(Labelled(Replied(R), campaign, {c}))
  <2> DEFINE found == {i \in R : CampaignOf(leads[i]) = c}
  <2>1. m[c] = Metric(leads, found)
    BY DEF PipelineMetrics
  <2>2. found = Labelled(R, campaign, {c})
    BY DEF Labelled
  <2>3. {i \in found : leads[i].status \in {"replied"}} = Labelled(Replied(R), campaign, {c})
    BY DEF Labelled
  <2> HIDE DEF found
  <2>4. m[c].total = Cardinality(found) /\ m[c].replied = Count(leads, found, {"replied"})
    BY <2>1 DEF Metric
  <2>5. QED
    BY <2>2, <2>3, <2>4 DEF Count
<1>5. ASSUME NEW x \in DOMAIN s
      PROVE  LET found == {i \in mine : leads[i].sender = x}
             IN s[x] = [total |-> Cardinality(found),
                        sent |-> Count(leads, found, {"sent"}),
                        replied |-> Count(leads, found, {"replied"}),
                        bounced |-> Count(leads, found, {"bounced"}),
                        opened |-> Count(leads, found, {"opened"})]
  BY DEF SenderEmailStats
<1>6. ASSUME NEW x \in DOMAIN s
      PROVE  s[x].replied = Cardinality(Labelled(Replied(mine), sender, {x}))
  <2> DEFINE found == {i \in mine : leads[i].sender = x}
  <2>1. {i \in found : leads[i].status \in {"replied"}} = Labelled(Replied(mine), sender, {x})
    BY DEF Labelled
  <2> HIDE DEF found
  <2>2. s[x].replied = Count(leads, found, {"replied"})
    BY <1>5 DEF found
  <2>3. QED
    BY <2>1, <2>2 DEF Count
<1>7. IsFiniteSet(DOMAIN m) /\ IsFiniteSet(DOMAIN s)
  <2>1. campaign \in Surjection(R, DOMAIN m)
    BY <1>2 DEF Surjection
  <2>2. sender \in Surjection(mine, DOMAIN s)
    BY <1>3 DEF Surjection
  <2> HIDE DEF campaign, sender, m, s, R, mine
  <2>3. QED
    BY <1>1, <2>1, <2>2, FS_Surjection
<1>8. /\ \A i \in R : campaign[i] \in DOMAIN m
      /\ \A i \in Replied(R) : campaign[i] \in DOMAIN m
      /\ \A i \in Replied(mine) : sender[i] \in DOMAIN s
  BY <1>2, <1>3
<1>9. Replied(mine) \in SUBSET Replied(R)
  OBVIOUS
<1>10. DOMAIN m \ {Unnamed} = UserCampaignNames(leads, user) \ {Unnamed}
  BY <1>2 DEF UserCampaignNames, CampaignOf
<1>11. ASSUME NEW x \in DOMAIN s
       PROVE  s[x].total >= s[x].sent + s[x].replied + s[x].bounced + s[x].opened
  <2> DEFINE found == {i \in mine : leads[i].sender = x}
             N(status) == Count(leads, found, {status})
  <2>1. IsFiniteSet(found)
    BY <1>1, FS_Subset
  <2> HIDE DEF found
  <2>2. /\ s[x].total = Cardinality(found) /\ s[x].sent = N("sent")
        /\ s[x].replied = N("replied") /\ s[x].bounced = N("bounced")
        /\ s[x].opened = N("opened")
    BY <1>5 DEF found
  <2>3. Cardinality(found) >= N("sent") + N("replied") + N("bounced") + N("opened")
    BY <2>1, FourCounts
  <2>4. QED
    BY <2>2, <2>3
<1> HIDE DEF R, m, campaign, mine, s, sender, Replied
<1>12. MapThenSumSet(LAMBDA c : m[c].total, DOMAIN m) = Cardinality(R)
  BY <1>1, <1>4, <1>7, <1>8, TotalsAddUp
<1>13. MapThenSumSet(LAMBDA c : m[c].replied, DOMAIN m) = Cardinality(Replied(R))
  BY <1>1, <1>4, <1>7, <1>8, RepliesAddUp
<1>14. MapThenSumSet(LAMBDA x : s[x].replied, DOMAIN s) = Cardinality(Replied(mine))
  BY <1>1, <1>6, <1>7, <1>8, RepliesAddUp
<1>15. /\ Cardinality(Replied(R)) \in Nat /\ Cardinality(Replied(mine)) \in Nat
       /\ Cardinality(Replied(mine)) <= Cardinality(Replied(R))
  BY <1>1, <1>9, FS_Subset, FS_CardinalityType
<1>16. QED
  BY <1>10, <1>11, <1>12, <1>13, <1>14, <1>15 DEF MetricsAgree, R, m, s

\* AnalyticsService: the run's DashboardAgrees, of every list of leads.
THEOREM DashboardsAgree ==
  (part = "analytics" => IsFiniteSet(DOMAIN input)) => DashboardAgrees
BY MetricsAlwaysAgree DEF DashboardAgrees

-----------------------------------------------------------------------------
(* The warm-up ring *)

Distinct(a) == \A i, j \in DOMAIN a : a[i] = a[j] => i = j
Elements(a) == {a[i] : i \in DOMAIN a}

\* The orders of a sequence of distinct elements.
Orders(a) == {b \in [DOMAIN a -> Elements(a)] : Distinct(b) /\ Elements(b) = Elements(a)}

LEMMA SwapReorders ==
  ASSUME NEW a, NEW b \in Orders(a), NEW i \in DOMAIN a, NEW j \in DOMAIN a
  PROVE  /\ Swapped(b, i, j) \in Orders(a)
         /\ Swapped(b, i, j)[i] = b[j]
         /\ \A k \in DOMAIN a : k # i /\ k # j => Swapped(b, i, j)[k] = b[k]
<1> DEFINE c == Swapped(b, i, j)
           at == [k \in DOMAIN a |-> IF k = j THEN i ELSE IF k = i THEN j ELSE k]
<1>1. b \in [DOMAIN a -> Elements(a)] /\ Distinct(b) /\ Elements(b) = Elements(a)
  BY DEF Orders
<1>2. c \in [DOMAIN a -> Elements(a)] /\ \A k \in DOMAIN a : c[k] = b[at[k]]
  BY <1>1 DEF Swapped
<1>3. \A k \in DOMAIN a : at[k] \in DOMAIN a /\ at[at[k]] = k
  OBVIOUS
<1>4. c[i] = b[j] /\ \A k \in DOMAIN a : k # i /\ k # j => c[k] = b[k]
  BY <1>2
<1> HIDE DEF c, at
<1>5. Distinct(c)
  <2> SUFFICES ASSUME NEW k \in DOMAIN a, NEW m \in DOMAIN a, c[k] = c[m] PROVE k = m
    BY <1>2 DEF Distinct
  <2>1. at[k] = at[m]
    BY <1>1, <1>2, <1>3 DEF Distinct
  <2>2. QED
    BY <1>3, <2>1
<1>6. Elements(c) = Elements(a)
  <2>1. Elements(c) \subseteq Elements(a)
    BY <1>2 DEF Elements
  <2>2. ASSUME NEW x \in Elements(a) PROVE x \in Elements(c)
    <3>1. PICK k \in DOMAIN a : x = b[k]
      BY <1>1 DEF Elements
    <3>2. c[at[k]] = x
      BY <1>2, <1>3, <3>1
    <3>3. QED
      BY <1>2, <1>3, <3>2 DEF Elements
  <2>3. QED
    BY <2>1, <2>2
<1>7. QED
  BY <1>2, <1>4, <1>5, <1>6 DEF Orders, c

\* The array before each step of the shuffle.
ShuffleOf(a, draw, b) ==
  b = [i \in 1..Len(a) |-> IF i = Len(a) THEN a ELSE Swapped(b[i + 1], i + 1, draw[i + 1])]

LEMMA ShuffleRuns ==
  ASSUME NEW S, NEW a \in Seq(S), Distinct(a), NEW draw \in Draws(Len(a)), a # <<>>
  PROVE  \E b : /\ ShuffleOf(a, draw, b) /\ Shuffle(a, draw) = b[1]
               /\ \A i \in DOMAIN a : b[i] \in Orders(a)
<1> DEFINE n == Len(a)
           F == [k \in 1..(n - 1) |-> [x \in Orders(a) |->
                   Swapped(x, n - k + 1, draw[n - k + 1])]]
<1>1. n \in Nat \ {0} /\ DOMAIN a = 1..n
  BY EmptySeq, LenProperties
<1>2. a \in Orders(a)
  BY <1>1, LenProperties DEF Orders, Elements
<1>3. \A i \in 2..n : draw[i] \in 1..n
  BY DEF Draws
<1> HIDE DEF n
<1>4. ASSUME NEW k \in 1..(n - 1), NEW x \in Orders(a)
      PROVE  F[k][x] = Swapped(x, n - k + 1, draw[n - k + 1]) /\ F[k][x] \in Orders(a)
  <2>1. n - k + 1 \in 2..n
    BY <1>1
  <2>2. F[k][x] = Swapped(x, n - k + 1, draw[n - k + 1])
    OBVIOUS
  <2>3. n - k + 1 \in DOMAIN a /\ draw[n - k + 1] \in DOMAIN a
    BY <1>1, <1>3, <2>1
  <2>4. QED
    BY <2>2, <2>3, SwapReorders
<1>5. n - 1 \in Nat
  BY <1>1
<1> HIDE DEF F
<1>6. PICK g : LoopOf(n - 1, a, F, g)
  BY <1>5, LoopRuns
<1>7. g[0] = a /\ \A k \in 1..(n - 1) : g[k] = F[k][g[k - 1]]
  <2>1. 0 \in 0..(n - 1) /\ \A k \in 1..(n - 1) : k \in 0..(n - 1) /\ k # 0
    BY <1>5
  <2>2. QED
    BY <2>1, <1>6 DEF LoopOf
<1>8. \A k \in 0..(n - 1) : g[k] \in Orders(a)
  <2> DEFINE P == {k \in Nat : g[k] \in Orders(a)}
  <2>1. 0 \in P
    BY <1>2, <1>7
  <2>2. \A k \in 1..(n - 1) : k - 1 \in P => k \in P
    BY <1>4, <1>7
  <2> HIDE DEF P
  <2>3. 0..(n - 1) \subseteq P
    BY <1>5, <2>1, <2>2, Induction
  <2>4. QED
    BY <2>3 DEF P
<1> DEFINE Body(f) ==
             [i \in 1..n |-> IF i = n THEN a ELSE Swapped(f[i + 1], i + 1, draw[i + 1])]
           h == [i \in 1..n |-> g[n - i]]
<1>9. h = Body(h)
  <2>1. ASSUME NEW i \in 1..n
        PROVE  h[i] = IF i = n THEN a ELSE Swapped(h[i + 1], i + 1, draw[i + 1])
    <3>1. CASE i = n
      <4>1. n - i = 0
        BY <1>1, <3>1
      <4>2. QED
        BY <1>7, <3>1, <4>1
    <3>2. CASE i # n
      <4>1. /\ n - i \in 1..(n - 1) /\ n - (n - i) + 1 = i + 1 /\ (n - i) - 1 \in 0..(n - 1)
            /\ i + 1 \in 1..n /\ n - (i + 1) = (n - i) - 1
        BY <1>1, <3>2
      <4>2. h[i] = g[n - i] /\ h[i + 1] = g[(n - i) - 1]
        BY <4>1
      <4>3. g[n - i] = F[n - i][g[(n - i) - 1]]
        BY <1>7, <4>1
      <4>4. g[(n - i) - 1] \in Orders(a)
        BY <1>8, <4>1
      <4> HIDE DEF h
      <4>5. F[n - i][g[(n - i) - 1]] = Swapped(g[(n - i) - 1], i + 1, draw[i + 1])
        BY <1>4, <4>1, <4>4
      <4>6. QED
        BY <3>2, <4>2, <4>3, <4>5
    <3>3. QED
      BY <3>1, <3>2
  <2>2. h = [i \in 1..n |-> h[i]]
    OBVIOUS
  <2> HIDE DEF h
  <2>3. QED
    BY <2>1, <2>2
<1> DEFINE b == CHOOSE f : f = Body(f)
<1>10. b = Body(b)
  <2>1. \E f : f = Body(f)
    BY <1>9
  <2> HIDE DEF Body
  <2>2. QED
    BY <2>1
<1>11. Shuffle(a, draw) = b[1]
  BY <1>1 DEF Shuffle, n
<1> HIDE DEF b
<1>12. ShuffleOf(a, draw, b)
  BY <1>10 DEF ShuffleOf, n
<1>13. ASSUME NEW i \in DOMAIN a PROVE b[i] \in Orders(a)
  <2> DEFINE P == {k \in Nat : b[n - k] \in Orders(a)}
  <2>1. 0 \in P
    <3>1. n - 0 = n /\ b[n] = a
      BY <1>1, <1>10
    <3>2. QED
      BY <1>2, <3>1
  <2>2. ASSUME NEW k \in 1..(n - 1), k - 1 \in P PROVE k \in P
    <3>1. n - k \in 1..n /\ n - k # n /\ (n - k) + 1 = n - (k - 1) /\ (n - k) + 1 \in 2..n
      BY <1>1
    <3>2. b[(n - k) + 1] \in Orders(a)
      BY <2>2, <3>1
    <3>3. b[n - k] = Swapped(b[(n - k) + 1], (n - k) + 1, draw[(n - k) + 1])
      BY <1>10, <3>1
    <3>4. (n - k) + 1 \in DOMAIN a /\ draw[(n - k) + 1] \in DOMAIN a
      BY <1>1, <1>3, <3>1
    <3>5. b[n - k] \in Orders(a)
      BY <3>2, <3>3, <3>4, SwapReorders
    <3>6. QED
      BY <3>5
  <2> HIDE DEF P
  <2>3. 0..(n - 1) \subseteq P
    BY <1>5, <2>1, <2>2, Induction
  <2>4. n - i \in 0..(n - 1) /\ n - (n - i) = i
    BY <1>1
  <2>5. QED
    BY <2>3, <2>4 DEF P
<1>14. QED
  BY <1>11, <1>12, <1>13

LEMMA ShuffleReorders ==
  ASSUME NEW S, NEW a \in Seq(S), Distinct(a), NEW draw \in Draws(Len(a))
  PROVE  Shuffle(a, draw) \in Orders(a)
<1>1. CASE a = <<>>
  <2>1. Len(a) = 0
    BY <1>1, EmptySeq
  <2>2. Shuffle(a, draw) = a
    BY <2>1 DEF Shuffle
  <2>3. a \in Orders(a)
    BY LenProperties DEF Orders, Elements
  <2>4. QED
    BY <2>2, <2>3
<1>2. CASE a # <<>>
  <2>1. Len(a) \in Nat \ {0} /\ DOMAIN a = 1..Len(a)
    BY <1>2, EmptySeq, LenProperties
  <2>2. 1 \in DOMAIN a
    BY <2>1
  <2>3. QED
    BY <1>2, <2>2, ShuffleRuns
<1>3. QED
  BY <1>1, <1>2

\* A step moves no element behind its own position, which keeps what it draws.
LEMMA ShufflePlaces ==
  ASSUME NEW S, NEW a \in Seq(S), NEW draw \in Draws(Len(a)), NEW b, ShuffleOf(a, draw, b),
         \A i \in DOMAIN a : b[i] \in Orders(a), NEW i \in 1..(Len(a) - 1)
  PROVE  b[1][i + 1] = b[i + 1][draw[i + 1]]
<1> DEFINE n == Len(a)
<1>1. n \in Nat /\ DOMAIN a = 1..n
  BY LenProperties
<1>2. \A k \in 2..n : draw[k] \in 1..n /\ draw[k] <= k
  BY DEF Draws
<1>3. \A k \in 1..n : b[k] = IF k = n THEN a ELSE Swapped(b[k + 1], k + 1, draw[k + 1])
  BY DEF ShuffleOf
<1> HIDE DEF n
<1>4. ASSUME NEW k \in 1..(n - 1)
      PROVE  /\ b[k][k + 1] = b[k + 1][draw[k + 1]]
             /\ \A m \in (k + 2)..n : b[k][m] = b[k + 1][m]
  <2>1. k \in 1..n /\ k # n /\ k + 1 \in 2..n /\ k + 1 \in 1..n
    BY <1>1
  <2>2. b[k] = Swapped(b[k + 1], k + 1, draw[k + 1])
    BY <1>3, <2>1
  <2>3. /\ b[k + 1] \in Orders(a) /\ k + 1 \in DOMAIN a /\ draw[k + 1] \in DOMAIN a
        /\ draw[k + 1] <= k + 1
    BY <1>1, <1>2, <2>1
  <2>4. \A m \in (k + 2)..n : m \in DOMAIN a /\ m # k + 1 /\ m # draw[k + 1]
    BY <1>1, <2>3
  <2> DEFINE c == b[k + 1]
             p == k + 1
             q == draw[k + 1]
  <2>5. c \in Orders(a) /\ p \in DOMAIN a /\ q \in DOMAIN a /\ b[k] = Swapped(c, p, q)
    BY <2>2, <2>3
  <2>6. \A m \in (k + 2)..n : m \in DOMAIN a /\ m # p /\ m # q
    BY <2>4
  <2> HIDE DEF c, p, q
  <2>7. b[k][p] = c[q] /\ \A m \in (k + 2)..n : b[k][m] = c[m]
    BY <2>5, <2>6, SwapReorders
  <2>8. QED
    BY <2>7 DEF c, p, q
<1> DEFINE P == {k \in Nat : \A m \in (k + 2)..n : b[1][m] = b[k + 1][m]}
<1>5. 0 \in P
  OBVIOUS
<1>6. ASSUME NEW k \in 1..(n - 1), k - 1 \in P PROVE k \in P
  <2>1. (k - 1) + 2 = k + 1 /\ (k - 1) + 1 = k
    OBVIOUS
  <2>2. \A m \in (k + 1)..n : b[1][m] = b[k][m]
    BY <1>6, <2>1
  <2>3. \A m \in (k + 2)..n : m \in (k + 1)..n
    BY <1>1
  <2>4. \A m \in (k + 2)..n : b[1][m] = b[k + 1][m]
    BY <1>4, <2>2, <2>3
  <2>5. QED
    BY <2>4
<1> HIDE DEF P
<1>7. n - 1 \in Nat /\ i \in 1..(n - 1)
  BY <1>1 DEF n
<1>8. i - 1 \in P
  <2>1. 0..(n - 1) \subseteq P
    BY <1>5, <1>6, <1>7, Induction
  <2>2. i - 1 \in 0..(n - 1)
    BY <1>1, <1>7
  <2>3. QED
    BY <2>1, <2>2
<1>9. b[1][i + 1] = b[i][i + 1]
  <2>1. (i - 1) + 2 = i + 1 /\ (i - 1) + 1 = i /\ i + 1 \in (i + 1)..n
    BY <1>1, <1>7
  <2>2. QED
    BY <1>8, <2>1 DEF P
<1>10. QED
  BY <1>4, <1>7, <1>9

\* The order tells the draws.
LEMMA ShuffleTells ==
  ASSUME NEW S, NEW a \in Seq(S), Distinct(a), NEW d \in Draws(Len(a)), NEW e \in Draws(Len(a)),
         Shuffle(a, d) = Shuffle(a, e)
  PROVE  d = e
<1> DEFINE n == Len(a)
<1>1. n \in Nat /\ DOMAIN a = 1..n
  BY LenProperties
<1>2. d \in [2..n -> 1..n] /\ e \in [2..n -> 1..n]
  BY DEF Draws
<1>3. (\A i \in 2..n : d[i] = e[i]) => d = e
  <2> HIDE DEF n
  <2>1. d = [i \in 2..n |-> d[i]] /\ e = [i \in 2..n |-> e[i]]
    BY <1>2
  <2>2. ASSUME \A i \in 2..n : d[i] = e[i]
        PROVE  [i \in 2..n |-> d[i]] = [i \in 2..n |-> e[i]]
    BY <2>2
  <2>3. QED
    BY <2>1, <2>2
<1>4. CASE a = <<>>
  <2>1. n = 0
    BY <1>4, EmptySeq
  <2> HIDE DEF n
  <2>2. \A i \in 2..n : d[i] = e[i]
    BY <2>1
  <2>3. QED
    BY <1>3, <2>2
<1>5. CASE a # <<>>
  <2>1. n # 0
    BY <1>5, EmptySeq
  <2>2. PICK b : /\ ShuffleOf(a, d, b) /\ Shuffle(a, d) = b[1]
                 /\ \A i \in DOMAIN a : b[i] \in Orders(a)
    BY <1>5, ShuffleRuns
  <2>3. PICK c : /\ ShuffleOf(a, e, c) /\ Shuffle(a, e) = c[1]
                 /\ \A i \in DOMAIN a : c[i] \in Orders(a)
    BY <1>5, ShuffleRuns
  <2>4. b[1] = c[1]
    BY <2>2, <2>3
  <2>5. \A i \in 1..(n - 1) : /\ b[1][i + 1] = b[i + 1][d[i + 1]]
                              /\ c[1][i + 1] = c[i + 1][e[i + 1]]
    BY <2>2, <2>3, ShufflePlaces
  <2>6. /\ \A k \in 1..n : b[k] = IF k = n THEN a ELSE Swapped(b[k + 1], k + 1, d[k + 1])
        /\ \A k \in 1..n : c[k] = IF k = n THEN a ELSE Swapped(c[k + 1], k + 1, e[k + 1])
    BY <2>2, <2>3 DEF ShuffleOf
  <2> HIDE DEF n
  <2>7. ASSUME NEW i \in 1..(n - 1), b[i + 1] = c[i + 1] PROVE d[i + 1] = e[i + 1]
    <3>1. i + 1 \in 2..n /\ i + 1 \in DOMAIN a
      BY <1>1
    <3>2. d[i + 1] \in DOMAIN a /\ e[i + 1] \in DOMAIN a
      BY <1>1, <1>2, <3>1
    <3>3. b[i + 1] \in Orders(a)
      BY <2>2, <3>1
    <3>4. b[i + 1][d[i + 1]] = b[i + 1][e[i + 1]]
      BY <2>4, <2>5, <2>7
    <3>5. QED
      BY <3>2, <3>3, <3>4 DEF Orders, Distinct
  <2> DEFINE P == {k \in Nat : b[n - k] = c[n - k]}
  <2>8. 0 \in P
    <3>1. n - 0 = n /\ n \in 1..n
      BY <1>1, <2>1
    <3>2. QED
      BY <2>6, <3>1
  <2>9. ASSUME NEW k \in 1..(n - 1), k - 1 \in P PROVE k \in P
    <3>1. /\ n - k \in 1..(n - 1) /\ n - k \in 1..n /\ n - k # n
          /\ n - (k - 1) = (n - k) + 1
      BY <1>1
    <3>2. b[(n - k) + 1] = c[(n - k) + 1]
      BY <2>9, <3>1
    <3>3. d[(n - k) + 1] = e[(n - k) + 1]
      BY <2>7, <3>1, <3>2
    <3>4. b[n - k] = c[n - k]
      BY <2>6, <3>1, <3>2, <3>3
    <3>5. QED
      BY <3>4
  <2> HIDE DEF P
  <2>10. 0..(n - 1) \subseteq P
    <3>1. n - 1 \in Nat
      BY <1>1, <2>1
    <3>2. QED
      BY <2>8, <2>9, <3>1, Induction
  <2>11. ASSUME NEW i \in 2..n PROVE d[i] = e[i]
    <3>1. /\ i - 1 \in 1..(n - 1) /\ (i - 1) + 1 = i
          /\ n - i \in 0..(n - 1) /\ n - (n - i) = i
      BY <1>1
    <3>2. b[i] = c[i]
      BY <2>10, <3>1 DEF P
    <3>3. QED
      BY <2>7, <3>1, <3>2
  <2>12. QED
    BY <1>3, <2>11
<1>6. QED
  BY <1>4, <1>5

LEMMA DrawsFinite ==
  ASSUME NEW n \in Nat
  PROVE  IsFiniteSet(Draws(n))
<1> DEFINE graph == [f \in Draws(n) |-> {<<i, f[i]>> : i \in 2..n}]
           Links == SUBSET ((2..n) \X (1..n))
<1>1. IsFiniteSet(Links)
  <2>1. IsFiniteSet(2..n) /\ IsFiniteSet(1..n)
    BY FS_Interval
  <2>2. IsFiniteSet((2..n) \X (1..n))
    BY <2>1, FS_Product
  <2>3. QED
    BY <2>2, FS_SUBSET
<1>2. graph \in [Draws(n) -> Links]
  BY DEF Draws
<1>3. ASSUME NEW f \in Draws(n), NEW g \in Draws(n), graph[f] = graph[g] PROVE f = g
  <2>1. f \in [2..n -> 1..n] /\ g \in [2..n -> 1..n]
    BY DEF Draws
  <2>2. ASSUME NEW i \in 2..n PROVE f[i] = g[i]
    <3>1. <<i, f[i]>> \in graph[g]
      BY <1>3
    <3>2. QED
      BY <3>1
  <2>3. QED
    BY <2>1, <2>2
<1>4. graph \in Injection(Draws(n), Links)
  BY <1>2, <1>3 DEF Injection, IsInjective
<1>5. QED
  BY <1>1, <1>4, FS_Injection

\* shuffle: of any number of distinct elements, every order has its own draws, so that with
\* fair draws all the orders are as likely.
THEOREM ShufflesAreUniform == \A S : \A a \in Seq(S) : Distinct(a) => ShuffleIsUniform(a)
<1> SUFFICES ASSUME NEW S, NEW a \in Seq(S), Distinct(a) PROVE ShuffleIsUniform(a)
  OBVIOUS
<1> DEFINE D == Draws(Len(a))
           made == {Shuffle(a, draw) : draw \in D}
           f == [draw \in D |-> Shuffle(a, draw)]
<1>1. f \in Surjection(D, made) /\ f \in Injection(D, made)
  BY ShuffleTells DEF Surjection, Injection, IsInjective
<1>2. Cardinality(made) = Cardinality(D)
  <2>1. IsFiniteSet(D)
    BY LenProperties, DrawsFinite
  <2> HIDE DEF D, made, f
  <2>2. QED
    BY <1>1, <2>1, FS_Surjection
<1>3. ASSUME NEW draw \in D PROVE {Shuffle(a, draw)[i] : i \in DOMAIN a} = Elements(a)
  <2>1. Shuffle(a, draw) \in Orders(a)
    BY ShuffleReorders
  <2>2. QED
    BY <2>1 DEF Orders, Elements
<1>4. QED
  BY <1>2, <1>3 DEF ShuffleIsUniform, Elements

\* The senders of a user.
SendersOf(active, user) == {active[i] : i \in {k \in DOMAIN active : active[k].user = user}}

\* The list of a user holds its senders, each once.
LEMMA GroupIsOfUser ==
  ASSUME NEW S, NEW active \in Seq(S), Distinct(active), NEW user
  PROVE  /\ Group(active, user) \in Seq(S) /\ Distinct(Group(active, user))
         /\ Elements(Group(active, user)) = SendersOf(active, user)
<1> DEFINE n == Len(active)
           Push(i, x) == IF active[i].user = user THEN Append(x, active[i]) ELSE x
           F == [i \in 1..n |-> [x \in Seq(S) |-> Push(i, x)]]
           upTo(i) == {active[k] : k \in {m \in 1..i : active[m].user = user}}
           A(i) == {x \in Seq(S) : Distinct(x) /\ Elements(x) = upTo(i)}
<1>1. n \in Nat /\ DOMAIN active = 1..n /\ \A i \in 1..n : active[i] \in S
  BY LenProperties
<1>2. <<>> \in A(0)
  <2>1. <<>> \in Seq(S) /\ DOMAIN <<>> = {}
    BY EmptySeq, LenProperties
  <2>2. upTo(0) = {}
    OBVIOUS
  <2>3. QED
    BY <2>1, <2>2 DEF Distinct, Elements
<1> HIDE DEF n
<1>3. ASSUME NEW i \in 1..n, NEW x \in A(i - 1) PROVE Push(i, x) \in A(i)
  <2>1. i \in Nat /\ i - 1 \in Nat /\ (1..i) = (1..(i - 1)) \cup {i}
    BY <1>1
  <2>2. x \in Seq(S) /\ Distinct(x) /\ Elements(x) = upTo(i - 1)
    OBVIOUS
  <2>3. CASE active[i].user # user
    <3>1. upTo(i) = upTo(i - 1)
      BY <2>1, <2>3
    <3>2. QED
      BY <2>2, <2>3, <3>1
  <2>4. CASE active[i].user = user
    <3> DEFINE y == Append(x, active[i])
    <3>1. /\ y \in Seq(S) /\ Len(y) = Len(x) + 1 /\ y[Len(x) + 1] = active[i]
          /\ \A k \in 1..Len(x) : y[k] = x[k]
      BY <1>1, <2>2, AppendProperties
    <3>2. Len(x) \in Nat /\ DOMAIN x = 1..Len(x) /\ DOMAIN y = 1..(Len(x) + 1)
      BY <2>2, <3>1, LenProperties
    <3> HIDE DEF y
    <3>3. upTo(i) = upTo(i - 1) \cup {active[i]}
      BY <2>1, <2>4
    <3>4. active[i] \notin upTo(i - 1)
      BY <1>1, <2>1 DEF Distinct
    <3>5. Elements(y) = Elements(x) \cup {active[i]}
      <4>1. DOMAIN y = DOMAIN x \cup {Len(x) + 1}
        BY <3>2
      <4>2. QED
        BY <3>1, <3>2, <4>1 DEF Elements
    <3>6. Distinct(y)
      <4> SUFFICES ASSUME NEW k \in DOMAIN y, NEW m \in DOMAIN y, y[k] = y[m] PROVE k = m
        BY DEF Distinct
      <4>1. \A p \in DOMAIN x : x[p] # active[i]
        BY <2>2, <3>4 DEF Elements
      <4>2. CASE k \in DOMAIN x /\ m \in DOMAIN x
        BY <2>2, <3>1, <3>2, <4>2 DEF Distinct
      <4>3. CASE k \notin DOMAIN x /\ m \notin DOMAIN x
        BY <3>2, <4>3
      <4>4. CASE k \in DOMAIN x /\ m \notin DOMAIN x
        BY <3>1, <3>2, <4>1, <4>4
      <4>5. CASE k \notin DOMAIN x /\ m \in DOMAIN x
        BY <3>1, <3>2, <4>1, <4>5
      <4>6. QED
        BY <4>2, <4>3, <4>4, <4>5
    <3> HIDE DEF upTo
    <3>7. y \in A(i)
      BY <2>2, <3>1, <3>3, <3>5, <3>6
    <3>8. QED
      BY <2>4, <3>7 DEF y
  <2>5. QED
    BY <2>3, <2>4
<1> HIDE DEF upTo
<1>4. PICK g : LoopOf(n, <<>>, F, g)
  BY <1>1, LoopRuns
<1>5. g[0] = <<>> /\ \A i \in 1..n : g[i] = F[i][g[i - 1]]
  <2>1. 0 \in 0..n /\ \A i \in 1..n : i \in 0..n /\ i # 0
    BY <1>1
  <2> HIDE DEF F
  <2>2. QED
    BY <2>1, <1>4 DEF LoopOf
<1> DEFINE Body(f) == [i \in 0..n |-> IF i = 0 THEN <<>> ELSE Push(i, f[i - 1])]
<1>6. ASSUME NEW f, f[0] = <<>>,
             \A i \in 1..n : f[i - 1] \in A(i - 1) => f[i] = Push(i, f[i - 1])
      PROVE  \A i \in 0..n : f[i] \in A(i)
  <2> DEFINE P == {i \in Nat : f[i] \in A(i)}
  <2>1. 0 \in P
    BY <1>2, <1>6
  <2>2. ASSUME NEW i \in 1..n, i - 1 \in P PROVE i \in P
    <3>1. f[i - 1] \in A(i - 1)
      BY <2>2
    <3>2. f[i] = Push(i, f[i - 1])
      BY <1>6, <3>1
    <3> HIDE DEF Push, A
    <3>3. f[i] \in A(i)
      BY <1>3, <3>1, <3>2
    <3>4. QED
      BY <3>3
  <2> HIDE DEF P
  <2>3. 0..n \subseteq P
    BY <1>1, <2>1, <2>2, Induction
  <2>4. QED
    BY <2>3 DEF P
<1>7. \A i \in 1..n : \A x \in Seq(S) : F[i][x] = Push(i, x)
  OBVIOUS
<1> HIDE DEF Push, F
<1>8. \A i \in 0..n : g[i] \in A(i)
  BY <1>5, <1>6, <1>7
<1>9. g = Body(g)
  <2>1. \A i \in 1..n : i - 1 \in 0..n
    BY <1>1
  <2>2. \A i \in 1..n : g[i] = Push(i, g[i - 1])
    BY <1>5, <1>7, <1>8, <2>1
  <2>3. \A i \in 0..n : g[i] = IF i = 0 THEN <<>> ELSE Push(i, g[i - 1])
    BY <1>1, <1>5, <2>2
  <2>4. g = [i \in 0..n |-> g[i]]
    BY <1>4 DEF LoopOf
  <2>5. QED
    BY <2>3, <2>4
<1> DEFINE f == CHOOSE f : f = Body(f)
<1>10. f = Body(f)
  <2>1. \E h : h = Body(h)
    BY <1>9
  <2> HIDE DEF Body
  <2>2. QED
    BY <2>1
<1>11. Group(active, user) = f[n]
  BY DEF Group, n, Push
<1> HIDE DEF f
<1>12. f[0] = <<>> /\ \A i \in 1..n : f[i] = Push(i, f[i - 1])
  <2>1. 0 \in 0..n /\ \A i \in 1..n : i \in 0..n /\ i # 0
    BY <1>1
  <2>2. QED
    BY <1>10, <2>1
<1>13. f[n] \in A(n)
  BY <1>1, <1>6, <1>12
<1>14. upTo(n) = SendersOf(active, user)
  BY <1>1 DEF upTo, SendersOf
<1>15. QED
  BY <1>11, <1>13, <1>14

LEMMA NextInRing ==
  ASSUME NEW n \in Nat, NEW i \in 1..n
  PROVE  (i % n) + 1 = IF i = n THEN 1 ELSE i + 1
<1>1. CASE i = n
  <2>1. n % n = 0
    OBVIOUS
  <2>2. QED
    BY <1>1, <2>1
<1>2. CASE i # n
  <2>1. i % n = i
    BY <1>2
  <2>2. QED
    BY <1>2, <2>1
<1>3. QED
  BY <1>1, <1>2

\* Ids are keys.
DistinctIds(a) == \A i, j \in DOMAIN a : a[i].id = a[j].id => i = j

\* A ring of two or more, in which each writes to the next.
LEMMA RingIsFair ==
  ASSUME NEW S, NEW ring \in Seq(S), DistinctIds(ring), Len(ring) >= 2
  PROVE  LET pairs == RingPairs(ring)
         IN /\ DOMAIN pairs = 1..Len(ring)
            /\ \A i \in 1..Len(ring) : /\ pairs[i].sender = ring[i]
                                      /\ pairs[i].receiver = ring[IF i = Len(ring) THEN 1 ELSE i + 1]
<1> DEFINE n == Len(ring)
<1>1. n \in Nat /\ n >= 2 /\ DOMAIN ring = 1..n
  BY LenProperties
<1> HIDE DEF n
<1>2. ASSUME NEW i \in 1..n
      PROVE  Receiver(ring, i) = ring[IF i = n THEN 1 ELSE i + 1]
  <2> DEFINE k == IF i = n THEN 1 ELSE i + 1
  <2>1. (i % n) + 1 = k
    BY <1>1, NextInRing
  <2>2. k \in 1..n /\ k # i
    BY <1>1
  <2>3. ring[k].id # ring[i].id
    BY <1>1, <2>2 DEF DistinctIds
  <2> HIDE DEF k
  <2>4. Receiver(ring, i) = ring[k]
    BY <2>1, <2>3 DEF Receiver, n
  <2>5. QED
    BY <2>4 DEF k
<1>3. RingPairs(ring) = [i \in 1..n |-> [sender |-> ring[i], receiver |-> Receiver(ring, i)]]
  BY <1>1 DEF RingPairs, n
<1>4. DOMAIN RingPairs(ring) = 1..n
  BY <1>3
<1>5. ASSUME NEW i \in 1..n
      PROVE  /\ RingPairs(ring)[i].sender = ring[i]
             /\ RingPairs(ring)[i].receiver = ring[IF i = n THEN 1 ELSE i + 1]
  BY <1>2, <1>3
<1>6. QED
  BY <1>4, <1>5 DEF n

\* buildWarmupPairs: of any list of senders, for any draws, every sender of a user who has
\* two or more writes once and is written to once, by another sender of that user.
THEOREM PairsAreAlwaysFair ==
  \A S : \A active \in Seq(S) : DistinctIds(active) =>
    \A user : \A draw \in Draws(Len(Group(active, user))) : PairsAreFair(active, user, draw)
<1> SUFFICES ASSUME NEW S, NEW active \in Seq(S), DistinctIds(active), NEW user,
                    NEW draw \in Draws(Len(Group(active, user)))
             PROVE  PairsAreFair(active, user, draw)
  OBVIOUS
<1> DEFINE group == Group(active, user)
           ring == Shuffle(group, draw)
           n == Len(ring)
           mine == SendersOf(active, user)
           pairs == RingPairs(ring)
<1>1. Distinct(active)
  BY DEF Distinct, DistinctIds
<1>2. group \in Seq(S) /\ Distinct(group) /\ Elements(group) = mine
  BY <1>1, GroupIsOfUser
<1>3. ring \in Orders(group) /\ DOMAIN group = 1..Len(group) /\ Len(group) \in Nat
  BY <1>2, ShuffleReorders, LenProperties
<1>4. ring \in Seq(mine)
  BY <1>2, <1>3, SeqDef DEF Orders
<1>5. BuildPairs(active, user, draw) = pairs
  BY DEF BuildPairs
<1> HIDE DEF ring, mine
<1>6. Distinct(ring) /\ Elements(ring) = mine
  BY <1>2, <1>3 DEF Orders
<1>7. n \in Nat /\ DOMAIN ring = 1..n /\ \A i \in 1..n : ring[i] \in mine
  BY <1>4, LenProperties
<1>8. DistinctIds(ring)
  <2>1. \A s, t \in mine : s.id = t.id => s = t
    BY DEF mine, SendersOf, DistinctIds
  <2>2. QED
    BY <1>6, <1>7, <2>1 DEF Distinct, DistinctIds
<1>9. Cardinality(mine) = n
  <2>1. ring \in Bijection(1..n, mine)
    <3>1. ring \in [1..n -> mine]
      BY <1>4, LenProperties
    <3> HIDE DEF n
    <3>2. ring \in Injection(1..n, mine)
      BY <1>6, <1>7, <3>1 DEF Injection, IsInjective, Distinct
    <3>3. ring \in Surjection(1..n, mine)
      BY <1>6, <1>7, <3>1 DEF Surjection, Elements
    <3>4. QED
      BY <3>2, <3>3 DEF Bijection
  <2> HIDE DEF n
  <2>2. QED
    BY <1>7, <2>1, FS_CountingElements DEF ExistsBijection
<1>10. CASE n < 2
  BY <1>5, <1>9, <1>10 DEF PairsAreFair, RingPairs, mine, SendersOf
<1>11. CASE n >= 2
  <2> DEFINE after(i) == IF i = n THEN 1 ELSE i + 1
  <2>1. /\ DOMAIN pairs = 1..n
        /\ \A i \in 1..n : pairs[i].sender = ring[i] /\ pairs[i].receiver = ring[after(i)]
    BY <1>4, <1>8, <1>11, RingIsFair
  <2> HIDE DEF pairs, n
  <2>2. ASSUME NEW s \in mine
        PROVE  /\ Cardinality({i \in DOMAIN pairs : pairs[i].sender = s}) = 1
               /\ Cardinality({i \in DOMAIN pairs : pairs[i].receiver = s}) = 1
    <3>1. PICK k \in 1..n : ring[k] = s
      BY <1>6, <1>7 DEF Elements
    <3>2. \A i \in 1..n : ring[i] = s <=> i = k
      BY <1>6, <1>7, <3>1 DEF Distinct
    <3>3. {i \in DOMAIN pairs : pairs[i].sender = s} = {k}
      BY <2>1, <3>2
    <3> DEFINE before == IF k = 1 THEN n ELSE k - 1
    <3>4. \A i \in 1..n : after(i) \in 1..n /\ (after(i) = k <=> i = before)
      BY <1>7
    <3>5. before \in 1..n
      BY <1>7
    <3> HIDE DEF before, after
    <3>6. {i \in DOMAIN pairs : pairs[i].receiver = s} = {before}
      BY <2>1, <3>2, <3>4, <3>5
    <3>7. QED
      BY <3>3, <3>6, FS_Singleton
  <2>3. ASSUME NEW i \in 1..n
        PROVE  /\ pairs[i].sender # pairs[i].receiver
               /\ pairs[i].sender \in mine /\ pairs[i].receiver \in mine
    <3>1. after(i) \in 1..n /\ after(i) # i
      BY <1>7, <1>11
    <3> HIDE DEF after
    <3>2. ring[i] # ring[after(i)]
      BY <1>6, <1>7, <3>1 DEF Distinct
    <3>3. QED
      BY <1>7, <2>1, <3>1, <3>2
  <2>4. ~(Cardinality(mine) < 2)
    BY <1>7, <1>9, <1>11
  <2>5. mine = {active[i] : i \in {k \in DOMAIN active : active[k].user = user}}
    BY DEF mine, SendersOf
  <2> HIDE DEF after
  <2>6. QED
    BY <1>5, <2>1, <2>2, <2>3, <2>4, <2>5 DEF PairsAreFair
<1>12. QED
  BY <1>7, <1>10, <1>11

\* The senders of any users, with distinct ids, and draws for the list of one of them.
IsWarmup(w) ==
  /\ \E S : w.active \in Seq(S)
  /\ DistinctIds(w.active)
  /\ w.draw \in Draws(Len(Group(w.active, u1)))

\* buildWarmupPairs: the run's WarmupFair, of every list of senders and every draw.
THEOREM WarmupIsFair == (part = "warmup" => IsWarmup(input)) => WarmupFair
BY PairsAreAlwaysFair DEF IsWarmup, WarmupFair

\* shuffle: the run's ShuffleUniform, of every list of senders.
THEOREM ShuffleIsAlwaysUniform == (part = "warmup" => IsWarmup(input)) => ShuffleUniform
<1>1. \A a : DistinctIds(a) => Distinct(a)
  BY DEF DistinctIds, Distinct
<1>2. QED
  BY <1>1, ShufflesAreUniform DEF IsWarmup, ShuffleUniform

-----------------------------------------------------------------------------
(* The run *)

\* What the theorems on the pure parts ask of an input.
GeneralInput ==
  /\ part = "clock" => input \in ClockInput
  /\ part = "batch" => IsBatch(input)
  /\ part = "warmup" => IsWarmup(input)
  /\ part = "analytics" => IsFiniteSet(DOMAIN input)
  /\ part = "intake" => IsNotification(input)

LEMMA ClockInputsAreGeneral == ClockInputs \subseteq ClockInput
<1>1. Zones \subseteq ClockZone
  BY DEF Zones, Zone, ClockZone, Shift, Day
<1>2. \A w \in 20..45 : \A k \in {0, 1} : w * 6 + k \in Int
  OBVIOUS
<1>3. {0, 2, 4, 5, 23, Never} \subseteq 0..(Day - 1) \cup {Never}
  BY DEF Day
<1>4. QED
  BY <1>1, <1>2, <1>3 DEF ClockInputs, ClockInput

LEMMA BatchesAreGeneral == \A batch \in Batches : IsBatch(batch)
<1> SUFFICES ASSUME NEW batch \in Batches PROVE IsBatch(batch)
  OBVIOUS
<1> DEFINE Now == [id : {"b"}, at : {0}, schedule : {FALSE}, date : {0},
                   blocks : UNION {[1..n -> Extreme] : n \in 1..2}]
           Dated == [id : {"b"}, at : {5}, schedule : BOOLEAN, date : {0, 9},
                     blocks : [1..1 -> Blocks]]
<1>1. batch \in Now \/ batch \in Dated
  BY DEF Batches
<1>2. batch.at \in Nat /\ batch.date \in Nat /\ batch.schedule \in BOOLEAN
  <2>1. batch \in Now => batch.at = 0 /\ batch.date = 0 /\ batch.schedule \in BOOLEAN
    OBVIOUS
  <2>2. batch \in Dated => batch.at = 5 /\ batch.date \in {0, 9} /\ batch.schedule \in BOOLEAN
    OBVIOUS
  <2> HIDE DEF Now, Dated
  <2>3. CASE batch \in Now
    BY <2>1, <2>3
  <2>4. CASE batch \in Dated
    BY <2>2, <2>4
  <2>5. QED
    BY <1>1, <2>3, <2>4
<1>3. \E n \in 1..2 : batch.blocks \in [1..n -> Extreme] \/ batch.blocks \in [1..n -> Blocks]
  <2>1. batch \in Now => batch.blocks \in UNION {[1..n -> Extreme] : n \in 1..2}
    OBVIOUS
  <2>2. batch \in Dated => batch.blocks \in [1..1 -> Blocks]
    OBVIOUS
  <2> HIDE DEF Now, Dated
  <2>3. QED
    BY <1>1, <2>1, <2>2
<1>4. Extreme \subseteq Blocks
  BY DEF Extreme
<1>5. PICK n \in 1..2 : DOMAIN batch.blocks = 1..n /\ \A b \in 1..n : batch.blocks[b] \in Blocks
  BY <1>3, <1>4
<1>6. \A b \in Blocks : \E k \in Nat \ {0} : b.delay \in Delays(k)
  BY DEF Blocks
<1>7. QED
  BY <1>2, <1>5, <1>6 DEF IsBatch

LEMMA NotificationsAreGeneral == \A n \in Notifications : IsNotification(n)
<1> DEFINE Texts == {"resend", "smartlead", "zapmail", "unipile", "sent", "opened", "complained",
                     "m", "r", "a"} \cup DOMAIN SmartLeadType
           fromResend == [fits : BOOLEAN, type : {"sent", "opened", "complained"}, id : {"m"},
                          noRecipient : BOOLEAN, dated : {TRUE}]
           fromSmartLead == [fits : BOOLEAN, type : DOMAIN SmartLeadType, id : {"m", None},
                             replyId : {"r", None}, to : {"a"}, dated : BOOLEAN]
<1> SUFFICES ASSUME NEW n \in Notifications PROVE n \in Notification(Texts)
  BY DEF IsNotification
<1>1. /\ n \in [provider : {None, "resend", "smartlead", "zapmail", "unipile"}, secret : BOOLEAN,
                proof : {"none", "wrong", "body", "stamped", "header"},
                age : {-301, -300, 0, 300}, body : Bodies]
      /\ (n.provider = "resend") = ("noRecipient" \in DOMAIN n.body)
  BY DEF Notifications
<1>2. n.body \in fromResend \cup fromSmartLead
  BY <1>1 DEF Bodies
<1>3. /\ \A body \in fromResend : "noRecipient" \in DOMAIN body
      /\ \A body \in fromSmartLead : "noRecipient" \notin DOMAIN body
  OBVIOUS
<1>4. fromResend \subseteq ResendBody(Texts)
  BY DEF ResendBody
<1>5. fromSmartLead \subseteq SmartLeadBody(Texts)
  BY DEF SmartLeadBody
<1> HIDE DEF fromResend, fromSmartLead
<1>6. /\ n.provider = "resend" => n.body \in ResendBody(Texts)
      /\ n.provider = "smartlead" => n.body \in SmartLeadBody(Texts)
      /\ n.body \in ResendBody(Texts) \cup SmartLeadBody(Texts)
  BY <1>1, <1>2, <1>3, <1>4, <1>5
<1>7. QED
  BY <1>1, <1>6 DEF Notification

LEMMA LeadListsAreGeneral == \A list \in LeadLists : IsFiniteSet(DOMAIN list)
<1>1. \A n \in 0..3 : IsFiniteSet(1..n)
  BY FS_Interval
<1>2. QED
  BY <1>1 DEF LeadLists

\* Draws for no more than one position are none.
LEMMA DrawsByDomain ==
  ASSUME NEW k \in Nat, NEW n \in Nat, NEW draw \in Draws(k), DOMAIN draw = 2..n
  PROVE  draw \in Draws(n)
<1>1. draw \in [2..k -> 1..k] /\ \A i \in 2..k : draw[i] <= i
  BY DEF Draws
<1>2. 2..k = 2..n
  BY <1>1
<1>3. \A i \in 2..n : draw[i] \in 1..n /\ draw[i] <= i
  BY <1>1, <1>2
<1>4. draw \in [2..n -> 1..n]
  <2>1. draw = [i \in 2..n |-> draw[i]]
    BY <1>1, <1>2
  <2>2. QED
    BY <1>3, <2>1
<1>5. QED
  BY <1>3, <1>4 DEF Draws

LEMMA GroupsAreGeneral == \A w \in Groups : IsWarmup(w)
<1> SUFFICES ASSUME NEW w \in Groups PROVE IsWarmup(w)
  OBVIOUS
<1> DEFINE active == w.active
           group == Group(active, u1)
           My == MyLeads(active)
<1>1. active \in SenderLists /\ DOMAIN w.draw = 2..Cardinality(My)
  BY DEF Groups, WarmupInputs
<1>2. PICK k \in 0..4 : w.draw \in Draws(k)
  BY DEF Groups, WarmupInputs
<1> HIDE DEF active
<1>3. PICK n \in 0..4 : \E f \in [1..n -> {u1, u2}] :
                         active = [i \in 1..n |-> [id |-> i, user |-> f[i]]]
  BY <1>1 DEF SenderLists
<1>4. PICK f \in [1..n -> {u1, u2}] : active = [i \in 1..n |-> [id |-> i, user |-> f[i]]]
  BY <1>3
<1> DEFINE S == [id : 1..n, user : {u1, u2}]
<1>5. active \in [1..n -> S] /\ \A i \in 1..n : active[i].id = i
  BY <1>4
<1> HIDE DEF S
<1>6. active \in Seq(S) /\ DistinctIds(active) /\ Distinct(active)
  BY <1>5, SeqDef DEF DistinctIds, Distinct
<1>7. group \in Seq(S) /\ Distinct(group) /\ Elements(group) = SendersOf(active, u1)
  BY <1>6, GroupIsOfUser
<1> HIDE DEF group
<1>8. Len(group) \in Nat /\ DOMAIN group = 1..Len(group)
  BY <1>7, LenProperties
<1>9. Cardinality(SendersOf(active, u1)) = Len(group)
  <2> DEFINE T == SendersOf(active, u1)
             m == Len(group)
  <2>1. group \in [1..m -> T]
    BY <1>7, <1>8, LenProperties DEF Elements
  <2> HIDE DEF T, m
  <2>2. DOMAIN group = 1..m /\ Elements(group) = T /\ m \in Nat
    BY <1>7, <1>8 DEF T, m
  <2>3. group \in Injection(1..m, T)
    BY <1>7, <2>1, <2>2 DEF Injection, IsInjective, Distinct
  <2>4. group \in Surjection(1..m, T)
    BY <2>1, <2>2 DEF Surjection, Elements
  <2>5. Cardinality(T) = m
    BY <2>2, <2>3, <2>4, FS_CountingElements DEF ExistsBijection, Bijection
  <2>6. QED
    BY <2>5 DEF T, m
<1>10. Cardinality(SendersOf(active, u1)) = Cardinality(My)
  <2> DEFINE T == SendersOf(active, u1)
             g == [i \in My |-> active[i]]
  <2>1. My \in SUBSET (1..n) /\ T = {active[i] : i \in My}
    BY <1>5 DEF MyLeads, SendersOf
  <2>2. IsFiniteSet(My)
    BY <2>1, FS_Interval, FS_Subset
  <2>3. g \in Bijection(My, T)
    <3>1. g \in Injection(My, T)
      BY <1>5, <2>1 DEF Injection, IsInjective
    <3>2. g \in Surjection(My, T)
      BY <2>1 DEF Surjection
    <3>3. QED
      BY <3>1, <3>2 DEF Bijection
  <2> HIDE DEF g, T, My
  <2>4. QED
    BY <2>2, <2>3, FS_Bijection DEF ExistsBijection, T
<1>11. w.draw \in Draws(Len(group))
  BY <1>1, <1>2, <1>8, <1>9, <1>10, DrawsByDomain
<1>12. QED
  BY <1>6, <1>11 DEF IsWarmup, active, group

LEMMA InputsStayGeneral == MCSpec => []GeneralInput
<1>1. MCInit => GeneralInput
  BY ClockInputsAreGeneral, BatchesAreGeneral, GroupsAreGeneral, LeadListsAreGeneral,
     NotificationsAreGeneral
     DEF MCInit, Inputs, GeneralInput
<1>2. GeneralInput /\ [MCNext]_vars => GeneralInput'
  BY DEF GeneralInput, MCNext, vars
<1>3. QED
  BY <1>1, <1>2, PTL DEF MCSpec

\* The pure components, in every behaviour of the run: all its inputs are such as the
\* theorems speak of.
THEOREM ComponentsAreCorrect ==
  MCSpec => [](/\ NextRunCorrect /\ NextRunOffByShift
               /\ LostLeadsExplained /\ PacingKept
               /\ WarmupFair /\ ShuffleUniform
               /\ DashboardAgrees /\ ReplyRateBounded
               /\ RedeliveryAnswered /\ GenuineTaken)
<1>1. GeneralInput => /\ NextRunCorrect /\ NextRunOffByShift
                      /\ LostLeadsExplained /\ PacingKept
                      /\ WarmupFair /\ ShuffleUniform
                      /\ DashboardAgrees /\ ReplyRateBounded
                      /\ RedeliveryAnswered /\ GenuineTaken
  BY NextRunIsCorrect, NextRunIsOffByShift, LostLeadsAreExplained, PacingIsAlwaysKept,
     WarmupIsFair, ShuffleIsAlwaysUniform, DashboardsAgree, ReplyRatesAreBounded,
     RedeliveriesAreAnswered, GenuineEventsTaken
     DEF GeneralInput
<1>2. QED
  BY <1>1, InputsStayGeneral, PTL
=============================================================================

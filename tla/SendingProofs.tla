---------------------------- MODULE SendingProofs ----------------------------
(***************************************************************************)
(* What holds a mail back or lets it go: the rate limiter, for any number  *)
(* of callers, any window and any slack; provider.send, for any number of  *)
(* calls and tries and any threshold of its breaker; and the jobs of any   *)
(* batch, with the delays drawn for them.                                  *)
(***************************************************************************)
EXTENDS RateLimiter, EmailSend, BatchPlan, FiniteSetTheorems, SequenceTheorems, TLAPS

-----------------------------------------------------------------------------
(* The sliding window and its waiting callers.  The limiter forgets slots:  *)
(* what is proved of the grants rests on the fact that it forgets only      *)
(* expired ones, so that what it remembers is the end of the history.       *)

\* What is remembered are the last slots taken; those forgotten are over.
Remembered ==
  LET gone == Len(grants) - Len(timestamps)
  IN /\ gone >= 0
     /\ \A i \in 1..Len(timestamps) : timestamps[i] = grants[gone + i]
     /\ \A i \in 1..gone : grants[i] + Window <= now

Ordered ==
  /\ \A i \in 1..Len(grants) : grants[i] <= now
  /\ \A i, j \in 1..Len(grants) : i <= j => grants[i] <= grants[j]

\* A sleeper waits for the oldest of some MaxRequests grants in a row, and has slept no
\* more often than there were such rows before.
Queued ==
  \A c \in Callers :
    /\ caller[c].state = "outside" => sleeps[c] = 0
    /\ caller[c].state = "asleep" =>
         \E n \in MaxRequests..Len(grants) :
           /\ sleeps[c] + MaxRequests <= n + 1
           /\ caller[c].until = grants[n - MaxRequests + 1] + Window + Slack

LimiterInv ==
  LimiterTypeOK /\ Remembered /\ Ordered /\ Queued /\ WindowBounded /\ StarvationBounded

LEMMA InitLimiter == LimiterInit => LimiterInv
BY LimiterAssumption
   DEF LimiterInit, LimiterInv, LimiterTypeOK, Remembered, Ordered, Queued, WindowBounded,
       StarvationBounded, Outside

\* What evictExpired leaves: the end of the history, of which the first is not over.
LEMMA EvictedFits ==
  ASSUME LimiterInv, NEW gone \in 0..Len(timestamps), Leading(gone)
  PROVE  LET kept == Evicted(gone)
             past == Len(grants) - Len(kept)
         IN /\ kept \in Seq(Nat) /\ Len(kept) <= MaxRequests
            /\ past \in Nat /\ past <= Len(grants)
            /\ \A i \in 1..Len(kept) : kept[i] = grants[past + i]
            /\ \A i \in 1..past : grants[i] + Window <= now
            /\ Len(kept) > 0 => now < kept[1] + Window
<1> DEFINE kept == Evicted(gone)
           past == Len(grants) - Len(kept)
           old == Len(grants) - Len(timestamps)
<1> USE LimiterAssumption
<1>1. /\ timestamps \in Seq(Nat) /\ grants \in Seq(Nat) /\ now \in Nat
      /\ Len(timestamps) \in Nat /\ Len(grants) \in Nat
  BY DEF LimiterInv, LimiterTypeOK
<1>2. /\ kept \in Seq(Nat) /\ Len(kept) = Len(timestamps) - gone
      /\ \A i \in 1..Len(kept) : kept[i] = timestamps[gone + i]
  BY <1>1 DEF Evicted
<1>3. past = old + gone /\ past \in Nat /\ past <= Len(grants) /\ old \in Nat
  BY <1>1, <1>2 DEF LimiterInv, Remembered
<1>4. Len(kept) <= MaxRequests
  BY <1>1, <1>2 DEF LimiterInv, LimiterTypeOK
<1>5. ASSUME NEW i \in 1..Len(kept) PROVE kept[i] = grants[past + i]
  <2>1. gone + i \in 1..Len(timestamps) BY <1>1, <1>2
  <2>2. timestamps[gone + i] = grants[old + (gone + i)]
    BY <2>1 DEF LimiterInv, Remembered
  <2> QED BY <1>2, <1>3, <2>2, <1>1
<1>6. ASSUME NEW i \in 1..past PROVE grants[i] + Window <= now
  <2>1. CASE i <= old BY <2>1, <1>3 DEF LimiterInv, Remembered
  <2>2. CASE i > old
    <3>1. i - old \in 1..gone BY <2>2, <1>3
    <3>2. now - timestamps[i - old] >= Window BY <3>1 DEF Leading, Expired
    <3>3. timestamps[i - old] = grants[old + (i - old)]
      BY <3>1, <1>1 DEF LimiterInv, Remembered
    <3>4. grants[i] \in Nat BY <1>1, <1>3
    <3> QED BY <3>2, <3>3, <3>4, <1>1, <1>3
  <2> QED BY <2>1, <2>2, <1>3
<1>7. ASSUME Len(kept) > 0 PROVE now < kept[1] + Window
  <2>1. gone < Len(timestamps) BY <1>7, <1>2, <1>1
  <2>2. ~Expired(timestamps[gone + 1]) BY <2>1 DEF Leading
  <2>3. 1 \in 1..Len(kept) BY <1>7, <1>2, <1>1
  <2>4. kept[1] = timestamps[gone + 1] BY <2>3, <1>2
  <2>5. timestamps[gone + 1] \in Nat BY <2>1, <1>1
  <2> QED BY <2>2, <2>4, <2>5, <1>1 DEF Expired
<1> HIDE DEF kept, old
<1>8. /\ kept \in Seq(Nat) /\ Len(kept) <= MaxRequests
      /\ past \in Nat /\ past <= Len(grants)
      /\ \A i \in 1..Len(kept) : kept[i] = grants[past + i]
      /\ \A i \in 1..past : grants[i] + Window <= now
      /\ Len(kept) > 0 => now < kept[1] + Window
  BY <1>2, <1>3, <1>4, <1>5, <1>6, <1>7
<1> QED BY <1>8 DEF kept

\* A slot taken: MaxRequests slots back, and further back, every window is over.
LEMMA TakeKeeps ==
  ASSUME LimiterInv, NEW c \in Callers, NEW gone \in 0..Len(timestamps), Leading(gone),
         Take(c, Evicted(gone)), UNCHANGED now
  PROVE  LimiterInv'
<1> DEFINE kept == Evicted(gone)
           past == Len(grants) - Len(kept)
<1> USE LimiterAssumption
<1>1. /\ kept \in Seq(Nat) /\ Len(kept) <= MaxRequests
      /\ past \in Nat /\ past <= Len(grants)
      /\ \A i \in 1..Len(kept) : kept[i] = grants[past + i]
      /\ \A i \in 1..past : grants[i] + Window <= now
  BY EvictedFits
<1>2. /\ Len(kept) < MaxRequests /\ Len(kept) \in Nat
      /\ timestamps' = Append(kept, now) /\ grants' = Append(grants, now)
      /\ caller' = [caller EXCEPT ![c] = Through] /\ sleeps' = sleeps /\ now' = now
  BY <1>1 DEF Take
<1>3. /\ now \in Nat /\ grants \in Seq(Nat) /\ Len(grants) \in Nat
      /\ caller \in [Callers -> [state : {"outside", "asleep", "through"}, until : Nat]]
      /\ sleeps \in [Callers -> Nat]
  BY DEF LimiterInv, LimiterTypeOK
<1> HIDE DEF kept
<1>4. /\ Len(grants') = Len(grants) + 1 /\ grants'[Len(grants) + 1] = now
      /\ \A i \in 1..Len(grants) : grants'[i] = grants[i]
      /\ Len(timestamps') = Len(kept) + 1 /\ timestamps'[Len(kept) + 1] = now
      /\ \A i \in 1..Len(kept) : timestamps'[i] = kept[i]
  BY <1>1, <1>2, <1>3
<1>5. LimiterTypeOK'
  <2>1. timestamps' \in Seq(Nat) /\ grants' \in Seq(Nat) BY <1>1, <1>2, <1>3
  <2>2. caller' \in [Callers -> [state : {"outside", "asleep", "through"}, until : Nat]]
    BY <1>2, <1>3 DEF Through
  <2> QED BY <2>1, <2>2, <1>2, <1>3, <1>4 DEF LimiterTypeOK
<1>6. Remembered'
  <2>1. Len(grants') - Len(timestamps') = past BY <1>1, <1>2, <1>3, <1>4
  <2>2. ASSUME NEW i \in 1..Len(timestamps') PROVE timestamps'[i] = grants'[past + i]
    <3>1. CASE i = Len(kept) + 1
      <4>1. past + i = Len(grants) + 1 BY <3>1, <1>1, <1>2, <1>3
      <4> QED BY <4>1, <3>1, <1>4
    <3>2. CASE i # Len(kept) + 1
      <4>1. i \in 1..Len(kept) BY <3>2, <1>2, <1>4
      <4>2. past + i \in 1..Len(grants) BY <4>1, <1>1, <1>2, <1>3
      <4> QED BY <4>1, <4>2, <1>1, <1>4
    <3> QED BY <3>1, <3>2
  <2>3. ASSUME NEW i \in 1..past PROVE grants'[i] + Window <= now'
    <3>1. i \in 1..Len(grants) BY <1>1, <1>3
    <3> QED BY <3>1, <1>1, <1>2, <1>4
  <2>4. past \in Nat BY <1>1
  <2> HIDE DEF past
  <2>5. past >= 0 BY <2>4
  <2> QED BY ONLY <2>1, <2>2, <2>3, <2>5 DEF Remembered
<1>7. Ordered'
  <2>1. \A i \in 1..Len(grants) : grants[i] <= now BY DEF LimiterInv, Ordered
  <2>2. \A i, j \in 1..Len(grants) : i <= j => grants[i] <= grants[j]
    BY DEF LimiterInv, Ordered
  <2>3. ASSUME NEW i \in 1..Len(grants') PROVE grants'[i] <= now'
    <3>1. CASE i = Len(grants) + 1 BY <3>1, <1>2, <1>3, <1>4
    <3>2. CASE i # Len(grants) + 1 BY <3>2, <2>1, <1>2, <1>3, <1>4
    <3> QED BY <3>1, <3>2
  <2>4. ASSUME NEW i \in 1..Len(grants'), NEW j \in 1..Len(grants'), i <= j
        PROVE grants'[i] <= grants'[j]
    <3>1. CASE j = Len(grants) + 1 BY <3>1, <2>3, <1>2, <1>3, <1>4
    <3>2. CASE j # Len(grants) + 1
      <4>1. i \in 1..Len(grants) /\ j \in 1..Len(grants) BY <3>2, <2>4, <1>3, <1>4
      <4> QED BY <4>1, <2>4, <2>2, <1>4
    <3> QED BY <3>1, <3>2
  <2> QED BY <2>3, <2>4 DEF Ordered
<1>8. Queued'
  <2> SUFFICES ASSUME NEW d \in Callers
               PROVE  /\ caller'[d].state = "outside" => sleeps'[d] = 0
                      /\ caller'[d].state = "asleep" =>
                           \E n \in MaxRequests..Len(grants') :
                             /\ sleeps'[d] + MaxRequests <= n + 1
                             /\ caller'[d].until = grants'[n - MaxRequests + 1] + Window + Slack
    BY DEF Queued
  <2>1. CASE d = c BY <2>1, <1>2, <1>3 DEF Through
  <2>2. CASE d # c
    <3>1. caller'[d] = caller[d] /\ sleeps'[d] = sleeps[d] BY <2>2, <1>2, <1>3
    <3>2. CASE caller[d].state = "asleep"
      <4>1. PICK n \in MaxRequests..Len(grants) :
              /\ sleeps[d] + MaxRequests <= n + 1
              /\ caller[d].until = grants[n - MaxRequests + 1] + Window + Slack
        BY <3>2 DEF LimiterInv, Queued
      <4>2. n - MaxRequests + 1 \in 1..Len(grants) /\ n \in MaxRequests..Len(grants')
        BY <1>3, <1>4
      <4> QED BY <3>1, <3>2, <4>1, <4>2, <1>4
    <3>3. CASE caller[d].state # "asleep" BY <3>1, <3>3 DEF LimiterInv, Queued
    <3> QED BY <3>2, <3>3
  <2> QED BY <2>1, <2>2
<1>9. WindowBounded'
  <2> SUFFICES ASSUME NEW i \in 1..Len(grants'), i + MaxRequests <= Len(grants')
               PROVE  grants'[i + MaxRequests] >= grants'[i] + Window
    BY DEF WindowBounded
  <2>1. CASE i + MaxRequests = Len(grants) + 1
    <3>1. i \in 1..past BY <2>1, <1>1, <1>2, <1>3
    <3>2. i \in 1..Len(grants) BY <3>1, <1>1, <1>3
    <3> QED BY <2>1, <3>1, <3>2, <1>1, <1>3, <1>4
  <2>2. CASE i + MaxRequests # Len(grants) + 1
    <3>1. i \in 1..Len(grants) /\ i + MaxRequests \in 1..Len(grants)
      <4>1. Len(grants') = Len(grants) + 1 /\ Len(grants) \in Nat /\ MaxRequests \in Nat \ {0}
        BY <1>3, <1>4
      <4> QED BY ONLY <4>1, <2>2, i \in 1..Len(grants'), i + MaxRequests <= Len(grants')
    <3>2. grants[i + MaxRequests] >= grants[i] + Window
      BY <3>1 DEF LimiterInv, WindowBounded
    <3> QED BY <3>1, <3>2, <1>4
  <2> QED BY <2>1, <2>2
<1>10. StarvationBounded'
  BY <1>2, <1>3, <1>4 DEF LimiterInv, StarvationBounded
<1> QED BY <1>5, <1>6, <1>7, <1>8, <1>9, <1>10 DEF LimiterInv

\* A sleep: who woke for a slot that is now over was passed by somebody.
LEMMA SleepKeeps ==
  ASSUME LimiterInv, NEW c \in Callers, NEW gone \in 0..Len(timestamps), Leading(gone),
         Awake(c), Sleep(c, Evicted(gone)), UNCHANGED now
  PROVE  LimiterInv'
<1> DEFINE kept == Evicted(gone)
           past == Len(grants) - Len(kept)
           first == Len(grants) - MaxRequests + 1
<1> USE LimiterAssumption
<1>1. /\ kept \in Seq(Nat) /\ Len(kept) <= MaxRequests
      /\ past \in Nat /\ past <= Len(grants)
      /\ \A i \in 1..Len(kept) : kept[i] = grants[past + i]
      /\ \A i \in 1..past : grants[i] + Window <= now
      /\ Len(kept) > 0 => now < kept[1] + Window
  BY EvictedFits
<1>2. /\ Len(kept) >= MaxRequests /\ Len(kept) \in Nat
      /\ timestamps' = kept /\ grants' = grants /\ now' = now
      /\ caller' = [caller EXCEPT ![c] = Asleep(kept[1] + Window + Slack)]
      /\ sleeps' = [sleeps EXCEPT ![c] = @ + 1]
  BY <1>1 DEF Sleep, WakeAt
<1>3. /\ now \in Nat /\ grants \in Seq(Nat) /\ Len(grants) \in Nat
      /\ caller \in [Callers -> [state : {"outside", "asleep", "through"}, until : Nat]]
      /\ sleeps \in [Callers -> Nat]
  BY DEF LimiterInv, LimiterTypeOK
<1> HIDE DEF kept
<1>4. /\ 1 \in 1..Len(kept) /\ past + 1 = first /\ first \in 1..Len(grants)
      /\ MaxRequests <= Len(grants)
  <2>1. Len(kept) = MaxRequests /\ past \in Nat /\ MaxRequests \in Nat \ {0} BY <1>1, <1>2
  <2>2. past = Len(grants) - MaxRequests BY <2>1
  <2> QED BY ONLY <2>1, <2>2, <1>3
<1>5. kept[1] = grants[first] /\ now < grants[first] + Window /\ kept[1] \in Nat
  <2>1. kept[1] = grants[past + 1] BY <1>1, <1>4
  <2>2. Len(kept) > 0 BY <1>2
  <2>3. now < kept[1] + Window BY <1>1, <2>2
  <2>4. grants[first] \in Nat BY <1>3, <1>4
  <2> QED BY <2>1, <2>3, <2>4, <1>4
<1>6. sleeps[c] + MaxRequests <= Len(grants)
  <2>1. CASE caller[c].state = "outside"
    <3>1. sleeps[c] = 0 BY <2>1 DEF LimiterInv, Queued
    <3> QED BY <3>1, <1>3, <1>4
  <2>2. CASE caller[c].state = "asleep" /\ caller[c].until <= now
    <3>1. PICK n \in MaxRequests..Len(grants) :
            /\ sleeps[c] + MaxRequests <= n + 1
            /\ caller[c].until = grants[n - MaxRequests + 1] + Window + Slack
      BY <2>2 DEF LimiterInv, Queued
    <3>2. grants[n - MaxRequests + 1] \in Nat
      <4>1. n - MaxRequests + 1 \in 1..Len(grants) BY <1>3
      <4> QED BY <4>1, <1>3
    <3>3. ASSUME n = Len(grants) PROVE FALSE
      <4>1. caller[c].until = grants[first] + Window + Slack BY <3>1, <3>3
      <4>2. grants[first] \in Nat BY <3>2, <3>3
      <4> HIDE DEF first
      <4> QED BY <4>1, <4>2, <2>2, <1>3, <1>5
    <3> QED BY <3>1, <3>3, <1>3
  <2> QED BY <2>1, <2>2 DEF Awake
<1>7. LimiterTypeOK'
  <2>1. caller' \in [Callers -> [state : {"outside", "asleep", "through"}, until : Nat]]
    <3>1. Asleep(kept[1] + Window + Slack)
            \in [state : {"outside", "asleep", "through"}, until : Nat]
      BY <1>5 DEF Asleep
    <3> QED BY <3>1, <1>2, <1>3
  <2>2. sleeps' \in [Callers -> Nat] BY <1>2, <1>3
  <2> QED BY <2>1, <2>2, <1>1, <1>2, <1>3 DEF LimiterTypeOK
<1>8. Remembered' BY <1>1, <1>2 DEF Remembered
<1>9. Ordered' BY <1>2 DEF LimiterInv, Ordered
<1>10. Queued'
  <2> SUFFICES ASSUME NEW d \in Callers
               PROVE  /\ caller'[d].state = "outside" => sleeps'[d] = 0
                      /\ caller'[d].state = "asleep" =>
                           \E n \in MaxRequests..Len(grants') :
                             /\ sleeps'[d] + MaxRequests <= n + 1
                             /\ caller'[d].until = grants'[n - MaxRequests + 1] + Window + Slack
    BY DEF Queued
  <2>1. CASE d = c
    <3>1. caller'[d].state = "asleep" /\ caller'[d].until = grants[first] + Window + Slack
      BY <2>1, <1>2, <1>3, <1>5 DEF Asleep
    <3>2. sleeps'[d] + MaxRequests <= Len(grants) + 1 BY <2>1, <1>2, <1>3, <1>6
    <3>3. Len(grants) \in MaxRequests..Len(grants') BY <1>2, <1>3, <1>4
    <3> QED BY <3>1, <3>2, <3>3, <1>2
  <2>2. CASE d # c
    <3>1. caller'[d] = caller[d] /\ sleeps'[d] = sleeps[d] BY <2>2, <1>2, <1>3
    <3> QED BY <3>1, <1>2 DEF LimiterInv, Queued
  <2> QED BY <2>1, <2>2
<1>11. WindowBounded' BY <1>2 DEF LimiterInv, WindowBounded
<1>12. StarvationBounded'
  <2> SUFFICES ASSUME NEW d \in Callers, sleeps'[d] > 0
               PROVE  sleeps'[d] + MaxRequests <= Len(grants') + 1
    BY DEF StarvationBounded
  <2>1. CASE d = c BY <2>1, <1>2, <1>3, <1>6
  <2>2. CASE d # c BY <2>2, <1>2, <1>3 DEF LimiterInv, StarvationBounded
  <2> QED BY <2>1, <2>2
<1> QED BY <1>7, <1>8, <1>9, <1>10, <1>11, <1>12 DEF LimiterInv

LEMMA StepLimiter == LimiterInv /\ [LimiterNext]_limiterVars => LimiterInv'
<1> SUFFICES ASSUME LimiterInv, [LimiterNext]_limiterVars PROVE LimiterInv'
  OBVIOUS
<1>1. ASSUME NEW c \in Callers, Acquire(c) PROVE LimiterInv'
  <2>1. PICK gone \in 0..Len(timestamps) :
          Leading(gone) /\ (Take(c, Evicted(gone)) \/ Sleep(c, Evicted(gone)))
    BY <1>1 DEF Acquire
  <2>2. Awake(c) /\ UNCHANGED now BY <1>1 DEF Acquire
  <2>3. CASE Take(c, Evicted(gone)) BY <2>1, <2>2, <2>3, TakeKeeps
  <2>4. CASE Sleep(c, Evicted(gone)) BY <2>1, <2>2, <2>4, SleepKeeps
  <2> QED BY <2>1, <2>3, <2>4
<1>2. ASSUME Tick PROVE LimiterInv'
  <2>1. /\ now' = now + 1
        /\ UNCHANGED <<timestamps, caller, grants, sleeps>>
    BY <1>2 DEF Tick
  <2>2. now \in Nat /\ grants \in Seq(Nat) BY DEF LimiterInv, LimiterTypeOK
  <2>3. LimiterTypeOK' BY <2>1, <2>2 DEF LimiterInv, LimiterTypeOK
  <2>4. Remembered'
    <3>1. ASSUME NEW i \in 1..(Len(grants) - Len(timestamps))
          PROVE grants[i] + Window <= now + 1
      <4>1. grants[i] + Window <= now BY <3>1 DEF LimiterInv, Remembered
      <4>2. grants[i] \in Nat BY <2>2 DEF LimiterInv, LimiterTypeOK
      <4> QED BY <4>1, <4>2, <2>2, LimiterAssumption
    <3> QED BY <3>1, <2>1 DEF LimiterInv, Remembered
  <2>5. Ordered'
    <3>1. ASSUME NEW i \in 1..Len(grants) PROVE grants[i] <= now + 1
      BY <2>2 DEF LimiterInv, Ordered
    <3> QED BY <3>1, <2>1 DEF LimiterInv, Ordered
  <2>6. Queued' /\ WindowBounded' /\ StarvationBounded'
    BY <2>1 DEF LimiterInv, Queued, WindowBounded, StarvationBounded
  <2> QED BY <2>3, <2>4, <2>5, <2>6 DEF LimiterInv
<1>3. CASE UNCHANGED limiterVars
  BY <1>3
     DEF limiterVars, LimiterInv, LimiterTypeOK, Remembered, Ordered, Queued, WindowBounded,
         StarvationBounded
<1> QED BY <1>1, <1>2, <1>3 DEF LimiterNext

LEMMA LimiterInvariant == LimiterSpec => []LimiterInv
BY InitLimiter, StepLimiter, PTL DEF LimiterSpec

-----------------------------------------------------------------------------
\* RateLimiter.acquire: types, and the window remembers no more slots than it has.
THEOREM LimiterIsTyped == LimiterSpec => []LimiterTypeOK
<1>1. LimiterInv => LimiterTypeOK BY DEF LimiterInv
<1> QED BY <1>1, LimiterInvariant, PTL

\* RateLimiter.acquire: however many callers compete, and although it forgets slots, no
\* window of the configured length lets more than MaxRequests of them through.
THEOREM WindowsAreBounded == LimiterSpec => []WindowBounded
<1>1. LimiterInv => WindowBounded BY DEF LimiterInv
<1> QED BY <1>1, LimiterInvariant, PTL

\* RateLimiter.acquire: a caller that wakes and sleeps again was passed by another that
\* took a slot meanwhile.
THEOREM StarvationIsBounded == LimiterSpec => []StarvationBounded
<1>1. LimiterInv => StarvationBounded BY DEF LimiterInv
<1> QED BY <1>1, LimiterInvariant, PTL

-----------------------------------------------------------------------------
(* One call of provider.send() after another: what a success is worth, when *)
(* the breaker opens, and the contract MailContract.                        *)

\* The worker has one job at a time.
OneAtATime == \A s, t \in Sends : UnderWay(s) /\ UnderWay(t) => s = t

\* A try under way is the test of a half-open breaker, or began while it was closed.
Breaking ==
  \A s \in Sends :
    /\ send[s].test => Waiting(s)
    /\ Waiting(s) /\ send[s].test => breaker.state = HalfOpen
    /\ Waiting(s) /\ ~send[s].test => breaker.state = Closed

\* What the breaker counts are the last outcomes, all of them failures.
Streak ==
  /\ Len(recent) <= Threshold
  /\ breaker.failures <= Len(recent)
  /\ \A i \in 1..Len(recent) : i > Len(recent) - breaker.failures => recent[i] = "failure"

\* How far the strategy of a try can have come.
Reached ==
  \A s \in Sends :
    /\ send[s].phase \notin {"idle", "failed"} => Known
    /\ \A n \in 1..MaxTries :
         /\ tries[s][n] # "none" => Known /\ send[s].phase # "idle"
         /\ tries[s][n] \in {"called", "accepted"} => Strategy.built
         /\ n > send[s].try => tries[s][n] = "none"
         /\ n = send[s].try /\ send[s].phase = "ready" => tries[s][n] = "none"

MailInv == MailTypeOK /\ OneAtATime /\ Breaking /\ Streak /\ Reached /\ OkIsTraceable

Outcomes == {"success", "failure"}
SendRecord == [phase : Phases, try : 1..MaxTries, test : BOOLEAN]
BreakerRecord == [state : {Closed, Open, Cooled, HalfOpen}, failures : 0..Threshold]
Stages == {"none", "waiting", "called", "accepted", "rejected"}

LEMMA InitMail == MailInit => MailInv
<1> SUFFICES ASSUME MailInit PROVE MailInv
  OBVIOUS
<1> USE EmailSendAssumption
<1>1. MailTypeOK
  <2>1. send \in [Sends -> SendRecord] BY DEF MailInit, SendRecord, Phases
  <2>2. tries \in [Sends -> [1..MaxTries -> Stages]] BY DEF MailInit, NewTries, Stages
  <2>3. breaker \in BreakerRecord BY DEF MailInit, BreakerRecord
  <2>4. recent \in Seq(Outcomes) BY DEF MailInit
  <2> QED BY <2>1, <2>2, <2>3, <2>4
          DEF MailTypeOK, MailInit, SendRecord, Stages, BreakerRecord, Outcomes
<1>2. OneAtATime /\ Breaking /\ OkIsTraceable
  BY DEF MailInit, OneAtATime, Breaking, OkIsTraceable, UnderWay, Waiting
<1>3. Streak BY DEF MailInit, Streak
<1>4. Reached BY DEF MailInit, Reached, NewTries
<1> QED BY <1>1, <1>2, <1>3, <1>4 DEF MailInv

\* Remember keeps the last Threshold outcomes.
LEMMA RememberFits ==
  ASSUME recent \in Seq(Outcomes), Len(recent) <= Threshold, NEW outcome \in Outcomes
  PROVE  LET all == Remember(outcome)
         IN /\ all \in Seq(Outcomes)
            /\ Len(all) = IF Len(recent) < Threshold THEN Len(recent) + 1 ELSE Threshold
            /\ all[Len(all)] = outcome
            /\ \A i \in 1..(Len(all) - 1) : all[i] = recent[Len(recent) + 1 - Len(all) + i]
<1> DEFINE all == Append(recent, outcome)
<1> USE EmailSendAssumption
<1>1. /\ all \in Seq(Outcomes) /\ Len(recent) \in Nat /\ Len(all) = Len(recent) + 1
      /\ all[Len(recent) + 1] = outcome
      /\ \A i \in 1..Len(recent) : all[i] = recent[i]
  OBVIOUS
<1> HIDE DEF all
<1>2. CASE Len(recent) < Threshold
  <2>1. Remember(outcome) = all BY <1>1, <1>2 DEF Remember, all
  <2> QED BY <2>1, <1>1, <1>2
<1>3. CASE Len(recent) = Threshold
  <2>1. Remember(outcome) = Tail(all) BY <1>1, <1>3 DEF Remember, all
  <2>2. all # <<>> BY <1>1
  <2>3. /\ Tail(all) \in Seq(Outcomes) /\ Len(Tail(all)) = Threshold
        /\ \A i \in 1..Threshold : Tail(all)[i] = all[i + 1]
    BY <2>2, <1>1, <1>3
  <2>4. Threshold \in 1..Threshold OBVIOUS
  <2>5. Tail(all)[Threshold] = outcome BY <2>3, <2>4, <1>1, <1>3
  <2>6. ASSUME NEW i \in 1..(Threshold - 1) PROVE Tail(all)[i] = recent[1 + i]
    <3>1. i \in 1..Threshold /\ i + 1 \in 1..Len(recent) BY <1>3
    <3> QED BY <3>1, <2>3, <1>1
  <2> DEFINE kept == Tail(all)
  <2>7. /\ Remember(outcome) = kept /\ kept \in Seq(Outcomes) /\ Len(kept) = Threshold
        /\ kept[Threshold] = outcome
        /\ \A i \in 1..(Threshold - 1) : kept[i] = recent[1 + i]
    BY <2>1, <2>3, <2>5, <2>6
  <2> HIDE DEF kept
  <2>8. ASSUME NEW i \in 1..(Len(kept) - 1)
        PROVE  kept[i] = recent[Len(recent) + 1 - Len(kept) + i]
    <3>1. i \in 1..(Threshold - 1) /\ Len(recent) + 1 - Len(kept) + i = 1 + i
      BY <2>7, <1>3
    <3> QED BY <3>1, <2>7
  <2> QED BY <2>7, <2>8, <1>3
<1> QED BY <1>2, <1>3, <1>1

\* While a try is under way no other send is, and so it alone moves the breaker.
LEMMA OthersRest ==
  ASSUME MailInv, NEW s \in Sends, UnderWay(s), NEW t \in Sends, t # s
  PROVE  ~UnderWay(t) /\ ~Waiting(t)
BY DEF MailInv, OneAtATime, UnderWay, Waiting

\* The answer of a try: afterwards nobody waits, so that the breaker may be in any state.
LEMMA AnswerRests ==
  ASSUME MailInv, NEW s \in Sends, Waiting(s),
         send' \in [Sends -> SendRecord], ~Waiting(s)', ~send'[s].test,
         \A t \in Sends : t # s => send'[t] = send[t]
  PROVE  OneAtATime' /\ Breaking'
<1>1. ASSUME NEW t \in Sends, t # s PROVE ~UnderWay(t)' /\ ~Waiting(t)' /\ ~send'[t].test
  <2>1. UnderWay(s) BY DEF Waiting, UnderWay
  <2>2. ~UnderWay(t) /\ ~Waiting(t) BY <2>1, <1>1, OthersRest
  <2>3. ~send[t].test BY <2>2 DEF MailInv, Breaking
  <2> QED BY <2>2, <2>3, <1>1 DEF UnderWay, Waiting
<1>2. OneAtATime' BY <1>1 DEF OneAtATime
<1>3. Breaking' BY <1>1 DEF Breaking
<1> QED BY <1>2, <1>3

\* A failure counts unless it is that of a test, and opens the breaker at the threshold.
LEMMA FailureCounts ==
  ASSUME MailInv, NEW s \in Sends, Waiting(s), Fails(s)
  PROVE  /\ breaker' \in BreakerRecord
         /\ breaker'.state = Closed => breaker'.failures < Threshold
         /\ recent' \in Seq(Outcomes)
         /\ Streak'
         /\ breaker.state = Closed /\ breaker'.state = Open
              => recent' = [i \in 1..Threshold |-> "failure"]
<1> DEFINE test == send[s].test
           last == Remember("failure")
<1> USE EmailSendAssumption
<1>1. /\ breaker \in BreakerRecord /\ recent \in Seq(Outcomes) /\ Len(recent) \in Nat
      /\ send[s].test \in BOOLEAN /\ breaker.failures \in 0..Threshold
      /\ breaker.state = Closed => breaker.failures < Threshold
  BY DEF MailInv, MailTypeOK, BreakerRecord, Outcomes
<1>2. Streak /\ Len(recent) <= Threshold BY DEF MailInv, Streak
<1>3. CASE test
  <2>1. breaker.state = HalfOpen BY <1>3 DEF MailInv, Breaking
  <2>2. breaker' = [state |-> Open, failures |-> breaker.failures] /\ recent' = recent
    BY <1>3 DEF Fails, Failed
  <2>3. Streak' BY <2>2, <1>2 DEF Streak
  <2> QED BY <2>1, <2>2, <2>3, <1>1 DEF BreakerRecord, Closed, Open, HalfOpen
<1>4. CASE ~test
  <2>1. breaker.state = Closed BY <1>4 DEF MailInv, Breaking
  <2>2. breaker.failures < Threshold BY <1>1, <2>1
  <2>3. /\ breaker'.failures = breaker.failures + 1
        /\ breaker'.state = IF breaker.failures + 1 >= Threshold THEN Open ELSE Closed
        /\ breaker' = [state |-> breaker'.state, failures |-> breaker'.failures]
        /\ recent' = last
    BY <1>4, <2>1 DEF Fails, Failed
  <2>4. /\ last \in Seq(Outcomes)
        /\ Len(last) = IF Len(recent) < Threshold THEN Len(recent) + 1 ELSE Threshold
        /\ last[Len(last)] = "failure"
        /\ \A i \in 1..(Len(last) - 1) : last[i] = recent[Len(recent) + 1 - Len(last) + i]
    BY <1>1, <1>2, RememberFits DEF Outcomes
  <2> HIDE DEF last
  <2>5. /\ breaker' \in BreakerRecord
        /\ breaker'.state = Closed => breaker'.failures < Threshold
    BY <2>2, <2>3, <1>1 DEF BreakerRecord, Closed, Open
  <2>6. Len(last) <= Threshold /\ breaker.failures + 1 <= Len(last)
    BY <2>2, <2>4, <1>1, <1>2 DEF Streak
  <2>7. ASSUME NEW i \in 1..Len(last), i > Len(last) - (breaker.failures + 1)
        PROVE  last[i] = "failure"
    <3>1. CASE i = Len(last) BY <3>1, <2>4
    <3>2. CASE i # Len(last)
      <4> DEFINE k == Len(recent) + 1 - Len(last) + i
      <4>1. i \in 1..(Len(last) - 1) /\ Len(last) \in Nat BY <3>2, <2>4, <1>1
      <4>2. last[i] = recent[k] BY <4>1, <2>4
      <4>3. k \in 1..Len(recent) BY <4>1, <2>4, <1>1, <1>2
      <4>4. k > Len(recent) - breaker.failures BY <2>7, <4>1, <1>1
      <4> QED BY <4>2, <4>3, <4>4, <1>2 DEF Streak
    <3> QED BY <3>1, <3>2
  <2>8. Streak' BY <2>3, <2>6, <2>7 DEF Streak
  <2>9. ASSUME breaker'.state = Open PROVE last = [i \in 1..Threshold |-> "failure"]
    <3>1. breaker.failures + 1 = Threshold
      BY <2>9, <2>2, <2>3, <1>1 DEF Open, Closed
    <3>2. Len(last) = Threshold BY <3>1, <2>4, <2>6, <1>1, <1>2
    <3>3. \A i \in 1..Threshold : last[i] = "failure" BY <3>1, <3>2, <2>7
    <3> DEFINE all == [i \in 1..Threshold |-> "failure"]
    <3>4. all \in Seq(Outcomes) /\ Len(all) = Threshold BY DEF Outcomes
    <3>5. \A i \in 1..Len(last) : last[i] = all[i] BY <3>2, <3>3
    <3> HIDE DEF all
    <3>6. last = all BY <2>4, <3>2, <3>4, <3>5, SeqEqual
    <3> QED BY <3>6 DEF all
  <2> QED BY <2>3, <2>4, <2>5, <2>8, <2>9
<1> QED BY <1>1, <1>3, <1>4

\* A success ends the count.
LEMMA SuccessCounts ==
  ASSUME MailInv, NEW s \in Sends, Waiting(s), NEW id \in BOOLEAN, Succeeds(s, id)
  PROVE  /\ breaker' \in BreakerRecord
         /\ breaker'.state = Closed
         /\ breaker'.failures = 0
         /\ recent' \in Seq(Outcomes)
         /\ Streak'
<1> USE EmailSendAssumption
<1>1. /\ recent \in Seq(Outcomes) /\ Len(recent) <= Threshold /\ send[s].test \in BOOLEAN
  BY DEF MailInv, MailTypeOK, Streak, Outcomes
<1>2. breaker' = [state |-> Closed, failures |-> 0]
  BY <1>1 DEF Succeeds, Succeeded, MailInv, Breaking
<1>3. recent' = recent \/ recent' = Remember("success") BY DEF Succeeds
<1>4. /\ Remember("success") \in Seq(Outcomes)
      /\ Len(Remember("success")) <= Threshold
  BY <1>1, RememberFits DEF Outcomes
<1>5. recent' \in Seq(Outcomes) /\ Len(recent') <= Threshold BY <1>1, <1>3, <1>4
<1>6. Streak'
  <2>1. breaker'.failures = 0 BY <1>2
  <2>2. Len(recent') \in Nat BY <1>5
  <2> QED BY <2>1, <2>2, <1>5 DEF Streak
<1> QED BY <1>2, <1>5, <1>6 DEF BreakerRecord

\* A try that the policies take for a failure, whatever its strategy has come to.
LEMMA FailedTry ==
  ASSUME MailInv, NEW s \in Sends, Waiting(s), Fails(s), UNCHANGED <<provider, configured>>,
         \/ UNCHANGED tries
         \/ Reach(s, send[s].try, "rejected")
  PROVE  MailInv'
<1> DEFINE n == send[s].try
<1> USE EmailSendAssumption
<1>1. /\ send \in [Sends -> SendRecord] /\ tries \in [Sends -> [1..MaxTries -> Stages]]
      /\ n \in 1..MaxTries
  BY DEF MailInv, MailTypeOK, SendRecord, Stages
<1>2. /\ send'[s].phase = IF n < MaxTries THEN "ready" ELSE "failed"
      /\ send'[s].test = FALSE
      /\ send'[s].try = IF n < MaxTries THEN n + 1 ELSE n
      /\ send' \in [Sends -> SendRecord]
      /\ \A t \in Sends : t # s => send'[t] = send[t]
  <2> DEFINE next == [phase |-> IF n < MaxTries THEN "ready" ELSE "failed", test |-> FALSE,
                      try |-> IF n < MaxTries THEN n + 1 ELSE n]
  <2>1. send' = [send EXCEPT ![s] = next] BY DEF Fails, Retry, AfterFailure
  <2>2. next \in SendRecord BY <1>1 DEF SendRecord, Phases
  <2> QED BY <2>1, <2>2, <1>1
<1>3. /\ tries' \in [Sends -> [1..MaxTries -> Stages]]
      /\ \A t \in Sends, k \in 1..MaxTries :
           tries'[t][k] # tries[t][k] => t = s /\ k = n /\ tries'[t][k] = "rejected"
  <2>1. CASE UNCHANGED tries BY <2>1, <1>1
  <2>2. CASE Reach(s, n, "rejected") BY <2>2, <1>1 DEF Reach, Stages
  <2> QED BY <2>1, <2>2
<1>4. /\ breaker' \in BreakerRecord
      /\ breaker'.state = Closed => breaker'.failures < Threshold
      /\ recent' \in Seq(Outcomes)
      /\ Streak'
  BY FailureCounts
<1>5. MailTypeOK'
  BY <1>2, <1>3, <1>4 DEF MailInv, MailTypeOK, SendRecord, Stages, BreakerRecord, Outcomes
<1>6. OneAtATime' /\ Breaking' BY <1>2, AnswerRests DEF Waiting
<1>7. Known' = Known /\ Strategy' = Strategy BY DEF Known, Strategy
<1>8. Reached'
  <2> SUFFICES ASSUME NEW t \in Sends
               PROVE  /\ send'[t].phase \notin {"idle", "failed"} => Known
                      /\ \A k \in 1..MaxTries :
                           /\ tries'[t][k] # "none" => Known /\ send'[t].phase # "idle"
                           /\ tries'[t][k] \in {"called", "accepted"} => Strategy.built
                           /\ k > send'[t].try => tries'[t][k] = "none"
                           /\ k = send'[t].try /\ send'[t].phase = "ready" => tries'[t][k] = "none"
    BY <1>7 DEF Reached
  <2>1. /\ send[t].phase \notin {"idle", "failed"} => Known
        /\ \A k \in 1..MaxTries :
             /\ tries[t][k] # "none" => Known /\ send[t].phase # "idle"
             /\ tries[t][k] \in {"called", "accepted"} => Strategy.built
             /\ k > send[t].try => tries[t][k] = "none"
             /\ k = send[t].try /\ send[t].phase = "ready" => tries[t][k] = "none"
    BY DEF MailInv, Reached
  <2>2. CASE t = s BY <2>1, <2>2, <1>1, <1>2, <1>3 DEF Waiting
  <2>3. CASE t # s BY <2>1, <2>3, <1>2, <1>3
  <2> QED BY <2>2, <2>3
<1>9. OkIsTraceable'
  <2> SUFFICES ASSUME NEW t \in Sends
               PROVE  /\ send'[t].phase = "ok" => tries'[t][send'[t].try] = "accepted"
                      /\ send'[t].phase # "okNoId"
    BY DEF OkIsTraceable, Taken
  <2>1. CASE t = s BY <2>1, <1>2
  <2>2. CASE t # s
    <3>1. send'[t] = send[t] /\ send[t].try \in 1..MaxTries BY <2>2, <1>1, <1>2 DEF SendRecord
    <3>2. tries'[t][send[t].try] = tries[t][send[t].try] BY <2>2, <3>1, <1>3
    <3> QED BY <3>1, <3>2 DEF MailInv, OkIsTraceable, Taken
  <2> QED BY <2>1, <2>2
<1> QED BY <1>4, <1>5, <1>6, <1>8, <1>9 DEF MailInv

\* Of the strategies that are built, those that do not look for an id have one.
LEMMA Strategies == Known /\ Strategy.built => Strategy.checksId \/ Strategy.ownId
BY DEF Known, Strategy, Registry, Resend, Zapmail, Smtp, Ses, Mailgun, Google, Outlook

\* A try answered with success: an id is there.
LEMMA SucceededTry ==
  ASSUME MailInv, NEW s \in Sends, Waiting(s), Taken(s), NEW id \in BOOLEAN,
         Strategy.ownId => id, id \/ ~Strategy.checksId, Succeeds(s, id),
         UNCHANGED <<provider, configured, tries>>
  PROVE  id /\ MailInv'
<1> DEFINE n == send[s].try
<1> USE EmailSendAssumption
<1>1. /\ send \in [Sends -> SendRecord] /\ tries \in [Sends -> [1..MaxTries -> Stages]]
      /\ n \in 1..MaxTries
  BY DEF MailInv, MailTypeOK, SendRecord, Stages
<1>2. Known /\ Strategy.built BY <1>1 DEF MailInv, Reached, Taken
<1>3. id BY <1>2, Strategies
<1>4. /\ send'[s].phase = "ok" /\ send'[s].test = FALSE /\ send'[s].try = n
      /\ send' \in [Sends -> SendRecord]
      /\ \A t \in Sends : t # s => send'[t] = send[t]
  <2>1. send' = [send EXCEPT ![s].phase = "ok", ![s].test = FALSE] BY <1>3 DEF Succeeds
  <2> QED BY <2>1, <1>1 DEF SendRecord, Phases
<1>5. /\ breaker' \in BreakerRecord /\ breaker'.failures = 0
      /\ recent' \in Seq(Outcomes)
      /\ Streak'
  BY SuccessCounts
<1>6. MailTypeOK'
  BY <1>1, <1>4, <1>5 DEF MailInv, MailTypeOK, SendRecord, Stages, BreakerRecord, Outcomes
<1>7. OneAtATime' /\ Breaking' BY <1>4, AnswerRests DEF Waiting
<1>8. Known' = Known /\ Strategy' = Strategy BY DEF Known, Strategy
<1>9. Reached'
  BY <1>2, <1>4, <1>8 DEF MailInv, Reached
<1>10. OkIsTraceable'
  <2> SUFFICES ASSUME NEW t \in Sends
               PROVE  /\ send'[t].phase = "ok" => tries[t][send'[t].try] = "accepted"
                      /\ send'[t].phase # "okNoId"
    BY DEF OkIsTraceable, Taken
  <2> QED BY <1>4 DEF MailInv, OkIsTraceable, Taken
<1> QED BY <1>3, <1>5, <1>6, <1>7, <1>9, <1>10 DEF MailInv

LEMMA CallFits == ASSUME MailInv, NEW s \in Sends, Call(s) PROVE MailInv'
<1> USE EmailSendAssumption
<1>1. /\ send \in [Sends -> SendRecord]
      /\ send[s].phase = "idle"
      /\ \A t \in Sends : ~UnderWay(t)
      /\ send' = [send EXCEPT ![s].phase = IF Known THEN "ready" ELSE "failed"]
      /\ UNCHANGED <<provider, configured, breaker, tries, recent>>
  BY DEF Call, MailInv, MailTypeOK, SendRecord
<1>2. /\ send' \in [Sends -> SendRecord]
      /\ send'[s].phase = IF Known THEN "ready" ELSE "failed"
      /\ send'[s].try = send[s].try /\ send'[s].test = send[s].test
      /\ \A t \in Sends : t # s => send'[t] = send[t]
  BY <1>1 DEF SendRecord, Phases
<1>3. MailTypeOK' BY <1>1, <1>2 DEF MailInv, MailTypeOK, SendRecord
<1>4. OneAtATime' BY <1>1, <1>2 DEF OneAtATime, UnderWay
<1>5. Breaking'
  BY <1>1, <1>2 DEF MailInv, Breaking, Waiting, UnderWay
<1>6. Streak' BY <1>1 DEF MailInv, Streak
<1>7. Reached'
  <2>1. Known' = Known /\ Strategy' = Strategy BY <1>1 DEF Known, Strategy
  <2>2. \A k \in 1..MaxTries : tries[s][k] = "none" BY <1>1 DEF MailInv, Reached
  <2> QED BY <1>1, <1>2, <2>1, <2>2 DEF MailInv, Reached
<1>8. OkIsTraceable'
  <2> SUFFICES ASSUME NEW t \in Sends
               PROVE  /\ send'[t].phase = "ok" => tries[t][send'[t].try] = "accepted"
                      /\ send'[t].phase # "okNoId"
    BY <1>1 DEF OkIsTraceable, Taken
  <2> QED BY <1>2 DEF MailInv, OkIsTraceable, Taken
<1> QED BY <1>3, <1>4, <1>5, <1>6, <1>7, <1>8 DEF MailInv

LEMMA TryFits == ASSUME MailInv, NEW s \in Sends, Try(s) PROVE MailInv'
<1> DEFINE n == send[s].try
<1> USE EmailSendAssumption
<1>1. /\ send \in [Sends -> SendRecord] /\ tries \in [Sends -> [1..MaxTries -> Stages]]
      /\ breaker \in BreakerRecord
      /\ n \in 1..MaxTries /\ send[s].phase = "ready" /\ breaker.state \in {Closed, Cooled}
      /\ UNCHANGED <<provider, configured, recent>>
  BY DEF Try, MailInv, MailTypeOK, SendRecord, Stages, BreakerRecord
<1>2. /\ send' \in [Sends -> SendRecord]
      /\ send'[s].phase = "trying" /\ send'[s].try = n
      /\ send'[s].test = (breaker.state = Cooled)
      /\ \A t \in Sends : t # s => send'[t] = send[t]
  BY <1>1 DEF Try, SendRecord, Phases
<1>3. /\ breaker' \in BreakerRecord /\ breaker'.failures = breaker.failures
      /\ breaker'.state = IF breaker.state = Cooled THEN HalfOpen ELSE Closed
  BY <1>1 DEF Try, BreakerRecord, HalfOpen, Cooled, Closed
<1>4. /\ tries' \in [Sends -> [1..MaxTries -> Stages]]
      /\ tries[s][n] = "none" /\ tries'[s][n] = "waiting"
      /\ \A t \in Sends, k \in 1..MaxTries : t # s \/ k # n => tries'[t][k] = tries[t][k]
  BY <1>1 DEF Try, Reach, Stages, MailInv, Reached
<1>5. MailTypeOK'
  BY <1>1, <1>2, <1>3, <1>4
     DEF MailInv, MailTypeOK, SendRecord, Stages, BreakerRecord, HalfOpen, Closed, Cooled
<1>6. \A t \in Sends : t # s => ~UnderWay(t) /\ ~Waiting(t) /\ ~send[t].test
  BY <1>1, OthersRest DEF UnderWay, MailInv, Breaking
<1>7. OneAtATime' BY <1>2, <1>6 DEF OneAtATime, UnderWay
<1>8. Breaking'
  BY <1>2, <1>3, <1>6 DEF Breaking, Waiting, Cooled, HalfOpen, Closed
<1>9. Streak' BY <1>1, <1>3 DEF MailInv, Streak
<1>10. Reached'
  <2>1. Known' = Known /\ Strategy' = Strategy BY <1>1 DEF Known, Strategy
  <2>2. Known BY <1>1 DEF MailInv, Reached
  <2>3. ASSUME NEW t \in Sends, NEW k \in 1..MaxTries
        PROVE  /\ tries'[t][k] # "none" => Known /\ send'[t].phase # "idle"
               /\ tries'[t][k] \in {"called", "accepted"} => Strategy.built
               /\ k > send'[t].try => tries'[t][k] = "none"
               /\ k = send'[t].try /\ send'[t].phase = "ready" => tries'[t][k] = "none"
    <3>1. CASE t = s /\ k = n BY <3>1, <2>2, <1>1, <1>2, <1>4
    <3>2. CASE t = s /\ k # n BY <3>2, <1>1, <1>2, <1>4 DEF MailInv, Reached
    <3>3. CASE t # s BY <3>3, <1>2, <1>4 DEF MailInv, Reached
    <3> QED BY <3>1, <3>2, <3>3
  <2>4. \A t \in Sends : send'[t].phase \notin {"idle", "failed"} => Known BY <2>2
  <2> QED BY <2>1, <2>3, <2>4 DEF Reached
<1>11. OkIsTraceable'
  <2> SUFFICES ASSUME NEW t \in Sends
               PROVE  /\ send'[t].phase = "ok" => tries'[t][send'[t].try] = "accepted"
                      /\ send'[t].phase # "okNoId"
    BY DEF OkIsTraceable, Taken
  <2>1. CASE t = s BY <2>1, <1>2
  <2>2. CASE t # s
    <3>1. send'[t] = send[t] /\ send[t].try \in 1..MaxTries BY <2>2, <1>1, <1>2 DEF SendRecord
    <3>2. tries'[t][send[t].try] = tries[t][send[t].try] BY <2>2, <3>1, <1>4
    <3> QED BY <3>1, <3>2 DEF MailInv, OkIsTraceable, Taken
  <2> QED BY <2>1, <2>2
<1> QED BY <1>5, <1>7, <1>8, <1>9, <1>10, <1>11 DEF MailInv

LEMMA RefuseFits == ASSUME MailInv, NEW s \in Sends, Refuse(s) PROVE MailInv'
<1> DEFINE n == send[s].try
<1> USE EmailSendAssumption
<1>1. /\ send \in [Sends -> SendRecord]
      /\ n \in 1..MaxTries /\ send[s].phase = "ready"
      /\ UNCHANGED <<provider, configured, breaker, tries, recent>>
  BY DEF Refuse, MailInv, MailTypeOK, SendRecord
<1>2. /\ send' \in [Sends -> SendRecord]
      /\ send'[s].phase = IF n < MaxTries THEN "ready" ELSE "failed"
      /\ send'[s].try = IF n < MaxTries THEN n + 1 ELSE n
      /\ send'[s].test = FALSE
      /\ \A t \in Sends : t # s => send'[t] = send[t]
  <2> DEFINE next == [phase |-> IF n < MaxTries THEN "ready" ELSE "failed", test |-> FALSE,
                      try |-> IF n < MaxTries THEN n + 1 ELSE n]
  <2>1. send' = [send EXCEPT ![s] = next] BY DEF Refuse, Retry, AfterFailure
  <2>2. next \in SendRecord BY <1>1 DEF SendRecord, Phases
  <2> QED BY <2>1, <2>2, <1>1
<1>3. MailTypeOK' BY <1>1, <1>2 DEF MailInv, MailTypeOK, SendRecord
<1>4. OneAtATime'
  <2>1. \A t \in Sends : t # s => ~UnderWay(t) BY <1>1, OthersRest DEF UnderWay
  <2> QED BY <2>1, <1>2 DEF OneAtATime, UnderWay
<1>5. Breaking' BY <1>1, <1>2 DEF MailInv, Breaking, Waiting
<1>6. Streak' BY <1>1 DEF MailInv, Streak
<1>7. Reached'
  <2>1. Known' = Known /\ Strategy' = Strategy BY <1>1 DEF Known, Strategy
  <2> QED BY <1>1, <1>2, <2>1 DEF MailInv, Reached
<1>8. OkIsTraceable'
  <2> SUFFICES ASSUME NEW t \in Sends
               PROVE  /\ send'[t].phase = "ok" => tries[t][send'[t].try] = "accepted"
                      /\ send'[t].phase # "okNoId"
    BY <1>1 DEF OkIsTraceable, Taken
  <2> QED BY <1>2 DEF MailInv, OkIsTraceable, Taken
<1> QED BY <1>3, <1>4, <1>5, <1>6, <1>7, <1>8 DEF MailInv

\* The strategy goes on, asked for or not.
LEMMA StrategyFits ==
  ASSUME MailInv, NEW s \in Sends, NEW n \in 1..MaxTries, Request(s, n) \/ Accept(s, n)
  PROVE  MailInv'
<1> USE EmailSendAssumption
<1>1. /\ tries \in [Sends -> [1..MaxTries -> Stages]] /\ send \in [Sends -> SendRecord]
      /\ UNCHANGED <<provider, configured, breaker, send, recent>>
  BY DEF Request, Accept, MailInv, MailTypeOK, Stages, SendRecord
<1>2. /\ tries' \in [Sends -> [1..MaxTries -> Stages]]
      /\ tries'[s][n] \in {"called", "accepted"} /\ tries[s][n] \in {"waiting", "called"}
      /\ \A t \in Sends, k \in 1..MaxTries : t # s \/ k # n => tries'[t][k] = tries[t][k]
  <2>1. PICK stage \in {"called", "accepted"} : tries' = [tries EXCEPT ![s][n] = stage]
    BY DEF Request, Accept, Reach
  <2>2. tries[s][n] \in {"waiting", "called"} BY DEF Request, Accept
  <2>3. stage \in Stages BY DEF Stages
  <2>4. tries' \in [Sends -> [1..MaxTries -> Stages]] BY <2>1, <2>3, <1>1
  <2>5. tries'[s][n] = stage BY <2>1, <1>1
  <2>6. \A t \in Sends, k \in 1..MaxTries : t # s \/ k # n => tries'[t][k] = tries[t][k]
    BY <2>1, <1>1
  <2> QED BY <2>2, <2>4, <2>5, <2>6
<1>3. Strategy.built BY DEF Request, Accept, MailInv, Reached
<1>4. MailTypeOK' BY <1>1, <1>2 DEF MailInv, MailTypeOK, Stages
<1>5. OneAtATime' /\ Breaking' /\ Streak'
  BY <1>1 DEF MailInv, OneAtATime, Breaking, Streak, UnderWay, Waiting
<1>6. Reached'
  <2>1. Known' = Known /\ Strategy' = Strategy BY <1>1 DEF Known, Strategy
  <2>2. ASSUME NEW t \in Sends, NEW k \in 1..MaxTries
        PROVE  /\ tries'[t][k] # "none" => Known /\ send[t].phase # "idle"
               /\ tries'[t][k] \in {"called", "accepted"} => Strategy.built
               /\ k > send[t].try => tries'[t][k] = "none"
               /\ k = send[t].try /\ send[t].phase = "ready" => tries'[t][k] = "none"
    <3>1. tries'[t][k] = tries[t][k] \/ tries[t][k] \in {"waiting", "called"}
      BY <1>2
    <3>2. tries'[t][k] # "none" => tries[t][k] # "none" BY <1>2, <3>1
    <3> QED BY <3>2, <1>3 DEF MailInv, Reached
  <2> QED BY <1>1, <2>1, <2>2 DEF MailInv, Reached
<1>7. OkIsTraceable'
  <2>1. ASSUME NEW t \in Sends, send[t].phase = "ok" PROVE tries'[t][send[t].try] = "accepted"
    <3>1. tries[t][send[t].try] = "accepted" /\ send[t].try \in 1..MaxTries
      BY <2>1, <1>1 DEF MailInv, OkIsTraceable, Taken, SendRecord
    <3>2. t # s \/ send[t].try # n BY <3>1, <1>2
    <3> QED BY <3>1, <3>2, <1>2
  <2> QED BY <1>1, <2>1 DEF MailInv, OkIsTraceable, Taken
<1> QED BY <1>4, <1>5, <1>6, <1>7 DEF MailInv

LEMMA StepMail == MailInv /\ [MailNext]_mailVars => MailInv'
<1> SUFFICES ASSUME MailInv, [MailNext]_mailVars PROVE MailInv'
  OBVIOUS
<1>1. ASSUME NEW s \in Sends, Step(s) PROVE MailInv'
  <2>1. CASE Call(s) BY <2>1, CallFits
  <2>2. CASE Try(s) BY <2>2, TryFits
  <2>3. CASE Refuse(s) BY <2>3, RefuseFits
  <2>4. CASE ThrowEarly(s) BY <2>4, FailedTry DEF ThrowEarly
  <2>5. CASE AnswerSuccess(s)
    <3>1. PICK id \in BOOLEAN :
            /\ Strategy.ownId => id
            /\ IF id \/ ~Strategy.checksId THEN Succeeds(s, id) ELSE Fails(s)
      BY <2>5 DEF AnswerSuccess
    <3>2. Waiting(s) /\ Taken(s) /\ UNCHANGED <<provider, configured, tries>>
      BY <2>5 DEF AnswerSuccess
    <3>3. CASE id \/ ~Strategy.checksId BY <3>1, <3>2, <3>3, SucceededTry
    <3>4. CASE ~(id \/ ~Strategy.checksId) BY <3>1, <3>2, <3>4, FailedTry
    <3> QED BY <3>3, <3>4
  <2>6. CASE AnswerError(s) BY <2>6, FailedTry DEF AnswerError
  <2>7. CASE TimeOut(s) BY <2>7, FailedTry DEF TimeOut
  <2>8. CASE \E n \in 1..MaxTries : Request(s, n) \/ Accept(s, n) BY <2>8, StrategyFits
  <2> QED BY <1>1, <2>1, <2>2, <2>3, <2>4, <2>5, <2>6, <2>7, <2>8 DEF Step
<1>2. ASSUME CoolDown PROVE MailInv'
  <2>1. /\ breaker.state = Open /\ breaker' = [breaker EXCEPT !.state = Cooled]
        /\ breaker \in BreakerRecord
        /\ UNCHANGED <<provider, configured, send, tries, recent>>
    BY <1>2 DEF CoolDown, MailInv, MailTypeOK, BreakerRecord
  <2>2. /\ breaker' \in BreakerRecord /\ breaker'.state = Cooled
        /\ breaker'.failures = breaker.failures
    BY <2>1 DEF BreakerRecord
  <2>3. \A s \in Sends : ~Waiting(s)
    BY <2>1 DEF MailInv, MailTypeOK, Breaking, Open, Closed, HalfOpen
  <2>4. MailTypeOK' BY <2>1, <2>2 DEF MailInv, MailTypeOK, BreakerRecord, Cooled, Closed
  <2>5. Breaking' BY <2>1, <2>3 DEF MailInv, Breaking, Waiting
  <2>6. OneAtATime' /\ Streak' /\ Reached' /\ OkIsTraceable'
    BY <2>1, <2>2
       DEF MailInv, OneAtATime, UnderWay, Streak, Reached, Known, Strategy, OkIsTraceable, Taken
  <2> QED BY <2>4, <2>5, <2>6 DEF MailInv
<1>3. CASE UNCHANGED mailVars
  BY <1>3
     DEF mailVars, MailInv, MailTypeOK, OneAtATime, UnderWay, Breaking, Waiting, Streak, Reached,
         Known, Strategy, OkIsTraceable, Taken
<1> QED BY <1>1, <1>2, <1>3 DEF MailNext

LEMMA MailInvariant == MailSpec => []MailInv
BY InitMail, StepMail, PTL DEF MailSpec

-----------------------------------------------------------------------------
\* send: types, and a closed breaker has counted less than its threshold.
THEOREM MailIsTyped == MailSpec => []MailTypeOK
<1>1. MailInv => MailTypeOK BY DEF MailInv
<1> QED BY <1>1, MailInvariant, PTL

\* send: a send that is answered with success handed its mail over in the last try, and
\* knows the provider's id of it, whichever provider it was and whatever it answered.
THEOREM SuccessesAreTraceable == MailSpec => []OkIsTraceable
<1>1. MailInv => OkIsTraceable BY DEF MailInv
<1> QED BY <1>1, MailInvariant, PTL

LEMMA OpensStep ==
  ASSUME MailInv, [MailNext]_mailVars, breaker.state = Closed, breaker'.state = Open
  PROVE  recent' = [i \in 1..Threshold |-> "failure"]
<1>1. ASSUME NEW s \in Sends, Step(s) PROVE recent' = [i \in 1..Threshold |-> "failure"]
  <2>1. ASSUME Waiting(s), Fails(s) PROVE recent' = [i \in 1..Threshold |-> "failure"]
    BY <2>1, FailureCounts
  <2>2. ASSUME UNCHANGED breaker PROVE FALSE BY <2>2 DEF Open, Closed
  <2>3. CASE Call(s) \/ Refuse(s) BY <2>2, <2>3 DEF Call, Refuse
  <2>4. CASE Try(s) BY <2>2, <2>4 DEF Try, Closed, Cooled
  <2>5. CASE ThrowEarly(s) \/ AnswerError(s) \/ TimeOut(s)
    BY <2>1, <2>5 DEF ThrowEarly, AnswerError, TimeOut
  <2>6. CASE AnswerSuccess(s)
    <3>1. ASSUME NEW id \in BOOLEAN, Succeeds(s, id), Waiting(s) PROVE FALSE
      BY <3>1, SuccessCounts DEF Open, Closed
    <3> QED BY <2>1, <2>6, <3>1 DEF AnswerSuccess
  <2>7. CASE \E n \in 1..MaxTries : Request(s, n) \/ Accept(s, n)
    BY <2>2, <2>7 DEF Request, Accept
  <2> QED BY <1>1, <2>3, <2>4, <2>5, <2>6, <2>7 DEF Step
<1>2. ~CoolDown BY DEF CoolDown, Open, Closed
<1>3. breaker' # breaker BY DEF Open, Closed
<1> QED BY <1>1, <1>2, <1>3 DEF MailNext, mailVars

\* ConsecutiveBreaker, shared by all sends of a provider: it opens only when the last
\* Threshold outcomes were failures; a success of whichever send, or a test, starts anew.
THEOREM BreakerOpensOnStreaks == MailSpec => OpensOnlyOnStreak
<1>1. MailInv /\ [MailNext]_mailVars
        => [(breaker.state = Closed /\ breaker'.state = Open)
             => recent' = [i \in 1..Threshold |-> "failure"]]_mailVars
  BY OpensStep
<1> QED BY <1>1, MailInvariant, PTL DEF MailSpec, OpensOnlyOnStreak

-----------------------------------------------------------------------------
(* The contract MailContract *)

Promised == <<CalledSends, AnswersGiven, CopiesTaken>>

LEMMA ContractInit == MailInit => Contract!Init
BY DEF MailInit, Contract!Init, NewTries, CalledSends, AnswersGiven, AnswerOf, Answered,
       CopiesTaken, CopiesOf

\* What changes in the eyes of the caller when one send moves.
LEMMA OneSendMoves ==
  ASSUME NEW s \in Sends, MailTypeOK, MailTypeOK',
         \A t \in Sends : t # s => send'[t] = send[t] /\ tries'[t] = tries[t]
  PROVE  /\ AnswersGiven' = [AnswersGiven EXCEPT ![s] = AnswerOf(s)']
         /\ CopiesTaken' = [CopiesTaken EXCEPT ![s] = CopiesOf(s)']
         /\ CalledSends' = (CalledSends \ {s}) \cup
                             (IF send'[s].phase # "idle" THEN {s} ELSE {})
BY DEF AnswersGiven, CopiesTaken, CalledSends, AnswerOf, CopiesOf, Answered

LEMMA QuietStep ==
  ASSUME NEW s \in Sends, MailTypeOK, MailTypeOK',
         \A t \in Sends : t # s => send'[t] = send[t] /\ tries'[t] = tries[t],
         AnswerOf(s)' = AnswerOf(s), CopiesOf(s)' = CopiesOf(s),
         (send'[s].phase # "idle") <=> (send[s].phase # "idle")
  PROVE  UNCHANGED Promised
<1>1. /\ AnswersGiven' = [AnswersGiven EXCEPT ![s] = AnswerOf(s)]
      /\ CopiesTaken' = [CopiesTaken EXCEPT ![s] = CopiesOf(s)]
  BY OneSendMoves
<1>2. AnswersGiven' = AnswersGiven BY <1>1 DEF AnswersGiven
<1>3. CopiesTaken' = CopiesTaken BY <1>1 DEF CopiesTaken
<1>4. CalledSends' = CalledSends BY DEF CalledSends
<1> QED BY <1>2, <1>3, <1>4 DEF Promised

LEMMA AnswerStep ==
  ASSUME NEW s \in Sends, MailTypeOK, MailTypeOK',
         \A t \in Sends : t # s => send'[t] = send[t] /\ tries'[t] = tries[t],
         send[s].phase # "idle", send'[s].phase # "idle", CopiesOf(s)' = CopiesOf(s),
         AnswerOf(s) = "none", AnswerOf(s)' \in {"ok", "failed"},
         AnswerOf(s)' = "ok" => CopiesOf(s) # {}
  PROVE  Contract!Answer(s)
<1>1. /\ AnswersGiven' = [AnswersGiven EXCEPT ![s] = AnswerOf(s)']
      /\ CopiesTaken' = [CopiesTaken EXCEPT ![s] = CopiesOf(s)]
  BY OneSendMoves
<1>2. CopiesTaken' = CopiesTaken BY <1>1 DEF CopiesTaken
<1>3. CalledSends' = CalledSends BY DEF CalledSends
<1>4. /\ s \in CalledSends /\ AnswersGiven[s] = "none" /\ CopiesTaken[s] = CopiesOf(s)
  BY DEF CalledSends, AnswersGiven, CopiesTaken
<1> QED BY <1>1, <1>2, <1>3, <1>4 DEF Contract!Answer

\* After a failure the send goes on or is answered, and its copies stay.
LEMMA FailureStep ==
  ASSUME MailInv, MailInv', NEW s \in Sends, Waiting(s), Fails(s),
         \/ UNCHANGED tries
         \/ /\ tries[s][send[s].try] # "accepted"
            /\ Reach(s, send[s].try, "rejected")
  PROVE  Contract!Answer(s) \/ UNCHANGED Promised
<1> DEFINE n == send[s].try
<1>1. /\ MailTypeOK /\ MailTypeOK'
      /\ send \in [Sends -> SendRecord] /\ tries \in [Sends -> [1..MaxTries -> Stages]]
      /\ n \in 1..MaxTries
  BY DEF MailInv, MailTypeOK, SendRecord, Stages
<1>2. /\ send'[s].phase = IF n < MaxTries THEN "ready" ELSE "failed"
      /\ \A t \in Sends : t # s => send'[t] = send[t]
  BY <1>1 DEF Fails, Retry, AfterFailure
<1>3. \A t \in Sends : t # s => tries'[t] = tries[t] BY <1>1 DEF Reach
<1>4. CopiesOf(s)' = CopiesOf(s)
  <2>1. CASE UNCHANGED tries BY <2>1 DEF CopiesOf
  <2>2. CASE tries[s][n] # "accepted" /\ Reach(s, n, "rejected")
    <3>1. \A k \in 1..MaxTries : tries'[s][k] = IF k = n THEN "rejected" ELSE tries[s][k]
      BY <2>2, <1>1 DEF Reach
    <3> QED BY <3>1, <2>2 DEF CopiesOf
  <2> QED BY <2>1, <2>2
<1>5. AnswerOf(s) = "none" /\ send[s].phase # "idle" BY DEF Waiting, AnswerOf, Answered
<1>6. CASE n < MaxTries
  <2>1. AnswerOf(s)' = "none" /\ send'[s].phase # "idle" BY <1>6, <1>2 DEF AnswerOf, Answered
  <2> QED BY <2>1, <1>1, <1>2, <1>3, <1>4, <1>5, QuietStep
<1>7. CASE ~(n < MaxTries)
  <2>1. AnswerOf(s)' = "failed" /\ send'[s].phase # "idle" BY <1>7, <1>2 DEF AnswerOf
  <2> QED BY <2>1, <1>1, <1>2, <1>3, <1>4, <1>5, AnswerStep
<1> QED BY <1>6, <1>7

LEMMA ContractStep ==
  ASSUME MailInv, MailInv', [MailNext]_mailVars
  PROVE  [Contract!Next]_Promised
<1>1. /\ MailTypeOK /\ MailTypeOK'
      /\ send \in [Sends -> SendRecord] /\ tries \in [Sends -> [1..MaxTries -> Stages]]
  BY DEF MailInv, MailTypeOK, SendRecord, Stages
<1>2. ASSUME NEW s \in Sends, Step(s) PROVE [Contract!Next]_Promised
  <2> DEFINE n == send[s].try
  <2>1. n \in 1..MaxTries BY <1>1 DEF SendRecord
  <2>2. CASE Call(s)
    <3>1. /\ send[s].phase = "idle" /\ tries' = tries
          /\ send'[s].phase \in {"ready", "failed"}
          /\ \A t \in Sends : t # s => send'[t] = send[t]
      BY <2>2, <1>1 DEF Call
    <3>2. /\ AnswersGiven' = [AnswersGiven EXCEPT ![s] = AnswerOf(s)']
          /\ CalledSends' = (CalledSends \ {s}) \cup {s}
      BY <3>1, <1>1, OneSendMoves
    <3>3. CopiesTaken' = CopiesTaken BY <3>1 DEF CopiesTaken, CopiesOf
    <3>4. s \notin CalledSends BY <3>1 DEF CalledSends
    <3>5. CalledSends' = CalledSends \cup {s} BY <3>2, <3>4
    <3>6. AnswerOf(s)' \in {"none", "failed"} BY <3>1 DEF AnswerOf, Answered
    <3>7. Contract!Ask(s) BY <3>2, <3>3, <3>4, <3>5, <3>6 DEF Contract!Ask
    <3> QED BY <3>7 DEF Contract!Next
  <2>3. CASE Try(s)
    <3>1. /\ send[s].phase = "ready" /\ send'[s].phase = "trying"
          /\ \A t \in Sends : t # s => send'[t] = send[t] /\ tries'[t] = tries[t]
          /\ \A k \in 1..MaxTries : tries'[s][k] = IF k = n THEN "waiting" ELSE tries[s][k]
      <4>1. /\ send' = [send EXCEPT ![s].phase = "trying", ![s].test = breaker.state = Cooled]
            /\ tries' = [tries EXCEPT ![s][n] = "waiting"] /\ send[s].phase = "ready"
        BY <2>3 DEF Try, Reach
      <4>2. send'[s].phase = "trying" /\ \A t \in Sends : t # s => send'[t] = send[t]
        BY <4>1, <1>1 DEF SendRecord
      <4> QED BY <4>1, <4>2, <2>1, <1>1
    <3>2. tries[s][n] = "none" BY <2>1, <3>1 DEF MailInv, Reached
    <3>3. CopiesOf(s)' = CopiesOf(s) BY <3>1, <3>2 DEF CopiesOf
    <3>4. AnswerOf(s)' = AnswerOf(s) BY <3>1 DEF AnswerOf, Answered
    <3>5. UNCHANGED Promised BY <3>1, <3>3, <3>4, <1>1, QuietStep
    <3> QED BY <3>5
  <2>4. CASE Refuse(s)
    <3>1. /\ send[s].phase = "ready" /\ tries' = tries
          /\ send'[s].phase = IF n < MaxTries THEN "ready" ELSE "failed"
          /\ \A t \in Sends : t # s => send'[t] = send[t]
      BY <2>4, <1>1 DEF Refuse, Retry, AfterFailure
    <3>2. CopiesOf(s)' = CopiesOf(s) BY <3>1 DEF CopiesOf
    <3>3. AnswerOf(s) = "none" BY <3>1 DEF AnswerOf, Answered
    <3>4. CASE n < MaxTries
      <4>1. AnswerOf(s)' = "none" BY <3>1, <3>4 DEF AnswerOf, Answered
      <4>2. UNCHANGED Promised BY <4>1, <3>1, <3>2, <3>3, <3>4, <1>1, QuietStep
      <4> QED BY <4>2
    <3>5. CASE ~(n < MaxTries)
      <4>1. AnswerOf(s)' = "failed" BY <3>1, <3>5 DEF AnswerOf
      <4>2. Contract!Answer(s) BY <4>1, <3>1, <3>2, <3>3, <3>5, <1>1, AnswerStep
      <4> QED BY <4>2 DEF Contract!Next
    <3> QED BY <3>4, <3>5
  <2>5. CASE ThrowEarly(s)
    <3>1. Contract!Answer(s) \/ UNCHANGED Promised
      BY <2>5, FailureStep DEF ThrowEarly
    <3> QED BY <3>1 DEF Contract!Next
  <2>6. CASE AnswerSuccess(s)
    <3>1. PICK id \in BOOLEAN :
            /\ Strategy.ownId => id
            /\ IF id \/ ~Strategy.checksId THEN Succeeds(s, id) ELSE Fails(s)
      BY <2>6 DEF AnswerSuccess
    <3>2. Waiting(s) /\ Taken(s) /\ tries' = tries BY <2>6 DEF AnswerSuccess
    <3>3. CASE Fails(s)
      <4>1. Contract!Answer(s) \/ UNCHANGED Promised BY <3>2, <3>3, FailureStep
      <4> QED BY <4>1 DEF Contract!Next
    <3>4. CASE Succeeds(s, id)
      <4>1. /\ send'[s].phase \in {"ok", "okNoId"}
            /\ \A t \in Sends : t # s => send'[t] = send[t]
        BY <3>4, <1>1 DEF Succeeds
      <4>2. CopiesOf(s)' = CopiesOf(s) /\ n \in CopiesOf(s)
        BY <3>2, <2>1 DEF CopiesOf, Taken
      <4>3. AnswerOf(s) = "none" /\ send[s].phase # "idle"
        BY <3>2 DEF Waiting, AnswerOf, Answered
      <4>4. AnswerOf(s)' = "ok" BY <4>1 DEF AnswerOf, Answered
      <4>5. Contract!Answer(s) BY <4>1, <4>2, <4>3, <4>4, <3>2, <1>1, AnswerStep
      <4> QED BY <4>5 DEF Contract!Next
    <3> QED BY <3>1, <3>3, <3>4
  <2>7. CASE AnswerError(s)
    <3>1. Contract!Answer(s) \/ UNCHANGED Promised
      BY <2>7, FailureStep DEF AnswerError
    <3> QED BY <3>1 DEF Contract!Next
  <2>8. CASE TimeOut(s)
    <3>1. Contract!Answer(s) \/ UNCHANGED Promised BY <2>8, FailureStep DEF TimeOut
    <3> QED BY <3>1 DEF Contract!Next
  <2>9. ASSUME NEW k \in 1..MaxTries, Request(s, k) PROVE [Contract!Next]_Promised
    <3>1. /\ send' = send
          /\ \A t \in Sends : t # s => tries'[t] = tries[t]
          /\ \A m \in 1..MaxTries : tries'[s][m] = IF m = k THEN "called" ELSE tries[s][m]
          /\ tries[s][k] = "waiting"
      BY <2>9, <1>1 DEF Request, Reach
    <3>2. CopiesOf(s)' = CopiesOf(s) BY <3>1 DEF CopiesOf
    <3>3. AnswerOf(s)' = AnswerOf(s) BY <3>1 DEF AnswerOf, Answered
    <3>4. UNCHANGED Promised BY <3>1, <3>2, <3>3, <1>1, QuietStep
    <3> QED BY <3>4
  <2>10. ASSUME NEW k \in 1..MaxTries, Accept(s, k) PROVE [Contract!Next]_Promised
    <3>1. /\ send' = send
          /\ \A t \in Sends : t # s => tries'[t] = tries[t]
          /\ \A m \in 1..MaxTries : tries'[s][m] = IF m = k THEN "accepted" ELSE tries[s][m]
          /\ tries[s][k] = "called"
      BY <2>10, <1>1 DEF Accept, Reach
    <3>2. CopiesOf(s)' = CopiesOf(s) \cup {k} /\ k \notin CopiesOf(s) BY <3>1 DEF CopiesOf
    <3>3. CopiesTaken' = [CopiesTaken EXCEPT ![s] = CopiesOf(s) \cup {k}]
      BY <3>1, <3>2, <1>1, OneSendMoves
    <3>4. CopiesTaken[s] = CopiesOf(s) BY DEF CopiesTaken
    <3>5. CalledSends' = CalledSends /\ AnswersGiven' = AnswersGiven
      BY <3>1 DEF CalledSends, AnswersGiven, AnswerOf, Answered
    <3>6. s \in CalledSends BY <3>1 DEF MailInv, Reached, CalledSends
    <3>7. Contract!TakeCopy(s) BY <3>2, <3>3, <3>4, <3>5, <3>6 DEF Contract!TakeCopy
    <3> QED BY <3>7 DEF Contract!Next
  <2> QED BY <1>2, <2>2, <2>3, <2>4, <2>5, <2>6, <2>7, <2>8, <2>9, <2>10 DEF Step
<1>3. CASE CoolDown \/ UNCHANGED mailVars
  <2>1. send' = send /\ tries' = tries BY <1>3 DEF CoolDown, mailVars
  <2>2. UNCHANGED Promised
    BY <2>1 DEF Promised, CalledSends, AnswersGiven, AnswerOf, Answered, CopiesTaken, CopiesOf
  <2> QED BY <2>2
<1> QED BY <1>2, <1>3 DEF MailNext

\* ResilientEmailProvider.send implements the contract MailContract: for any number of
\* tries, whatever the timeout abandons and the breaker refuses.
THEOREM SendImplementsContract == MailSpec => ImplementsMailContract
<1>1. MailInv /\ MailInv' /\ [MailNext]_mailVars
        => [Contract!Next]_<<CalledSends, AnswersGiven, CopiesTaken>>
  BY ContractStep DEF Promised
<1> QED
  BY <1>1, MailInvariant, ContractInit, PTL DEF MailSpec, ImplementsMailContract, Contract!Spec

-----------------------------------------------------------------------------
(* The jobs of a batch *)

\* A batch has a block or more, of one lead or more (the schema asks for both), at any
\* times, with any delays that can be drawn.
IsBatch(batch) ==
  /\ batch.at \in Nat /\ batch.date \in Nat /\ batch.schedule \in BOOLEAN
  /\ \E n \in Nat \ {0} : DOMAIN batch.blocks = 1..n
  /\ \A b \in DOMAIN batch.blocks :
       \E n \in Nat \ {0} : batch.blocks[b].delay \in Delays(n)

\* The leads of a block, and the delay of each.
LEMMA BlockLeads ==
  ASSUME NEW batch, IsBatch(batch), NEW b \in DOMAIN batch.blocks
  PROVE  /\ b \in Nat
         /\ 0 \in DOMAIN batch.blocks[b].delay
         /\ IsFiniteSet(DOMAIN batch.blocks[b].delay)
         /\ \A i \in DOMAIN batch.blocks[b].delay :
              /\ i \in Nat
              /\ batch.blocks[b].delay[i] \in (i * 3)..(i * 5)
<1>1. b \in Nat
  BY DEF IsBatch
<1>2. PICK n \in Nat \ {0} : batch.blocks[b].delay \in Delays(n)
  BY DEF IsBatch
<1>3. DOMAIN batch.blocks[b].delay = 0..(n - 1)
  BY <1>2 DEF Delays
<1>4. IsFiniteSet(0..(n - 1))
  BY <1>2, FS_Interval
<1>5. \A i \in DOMAIN batch.blocks[b].delay : batch.blocks[b].delay[i] \in (i * 3)..(i * 5)
  BY <1>2 DEF Delays, CumulativePacing, PacingMin, PacingMax
<1>6. QED
  BY <1>1, <1>2, <1>3, <1>4, <1>5

BlockJobs(batch, b) == {JobOf(batch, b, i) : i \in DOMAIN batch.blocks[b].delay}

LEMMA JobsFinite ==
  ASSUME NEW batch, IsBatch(batch)
  PROVE  IsFiniteSet(Jobs(batch))
<1> DEFINE B == DOMAIN batch.blocks
           family == {BlockJobs(batch, b) : b \in B}
<1>1. ASSUME NEW b \in B PROVE IsFiniteSet(BlockJobs(batch, b))
  <2> DEFINE I == DOMAIN batch.blocks[b].delay
             f == [i \in I |-> JobOf(batch, b, i)]
  <2>1. IsFiniteSet(I)
    BY BlockLeads
  <2>2. f \in Surjection(I, BlockJobs(batch, b))
    BY DEF Surjection, BlockJobs
  <2>3. QED
    BY <2>1, <2>2, FS_Surjection
<1>2. IsFiniteSet(B)
  <2>1. PICK n \in Nat \ {0} : B = 1..n
    BY DEF IsBatch
  <2>2. QED
    BY <2>1, FS_Interval
<1>3. IsFiniteSet(family)
  <2> DEFINE f == [b \in B |-> BlockJobs(batch, b)]
  <2>1. f \in Surjection(B, family)
    BY DEF Surjection
  <2>2. QED
    BY <1>2, <2>1, FS_Surjection
<1>4. \A T \in family : IsFiniteSet(T)
  BY <1>1
<1>5. Jobs(batch) = UNION family
  BY DEF Jobs, BlockJobs
<1>6. QED
  BY <1>3, <1>4, <1>5, FS_UNION

\* The response is right exactly if the queue keeps every job.
LEMMA NoneLost ==
  ASSUME NEW batch, IsBatch(batch)
  PROVE  LostLeads(batch) = 0 <=> Kept(batch) = Jobs(batch)
<1>1. Kept(batch) \in SUBSET Jobs(batch)
  BY DEF Kept
<1>2. IsFiniteSet(Kept(batch)) /\ IsFiniteSet(Jobs(batch))
  BY <1>1, JobsFinite, FS_Subset
<1>3. Cardinality(Kept(batch)) \in Nat /\ Cardinality(Jobs(batch)) \in Nat
  BY <1>2, FS_CardinalityType
<1>4. Cardinality(Jobs(batch)) = Cardinality(Kept(batch)) => Jobs(batch) = Kept(batch)
  BY <1>1, <1>2, FS_Subset
<1>5. QED
  BY <1>3, <1>4 DEF LostLeads, Enqueued

\* SendBatchUseCase: of any batch, leads are lost, and wrongly counted in the response,
\* exactly if two of its blocks name one sender.
THEOREM LeadsAreLostToSharedSenders == \A batch : IsBatch(batch) => LeadsLostToSharedSender(batch)
<1> SUFFICES ASSUME NEW batch, IsBatch(batch)
             PROVE  Kept(batch) = Jobs(batch) <=>
                      \A b, c \in DOMAIN batch.blocks :
                        b # c => batch.blocks[b].sender # batch.blocks[c].sender
  BY NoneLost DEF LeadsLostToSharedSender
<1> DEFINE B == DOMAIN batch.blocks
<1>1. ASSUME Kept(batch) = Jobs(batch), NEW b \in B, NEW c \in B, b < c
      PROVE  batch.blocks[b].sender # batch.blocks[c].sender
  <2>1. JobOf(batch, b, 0) \in Jobs(batch) /\ JobOf(batch, c, 0) \in Kept(batch)
    BY <1>1, BlockLeads DEF Jobs
  <2>2. JobOf(batch, b, 0).id = JobOf(batch, c, 0).id
          => JobOf(batch, b, 0).block >= JobOf(batch, c, 0).block
    BY <2>1 DEF Kept
  <2>3. JobOf(batch, b, 0).block = b /\ JobOf(batch, c, 0).block = c /\ b \in Nat /\ c \in Nat
    BY BlockLeads DEF JobOf
  <2>4. batch.blocks[b].sender = batch.blocks[c].sender
          => JobOf(batch, b, 0).id = JobOf(batch, c, 0).id
    BY DEF JobOf
  <2>5. QED
    BY <1>1, <2>2, <2>3, <2>4
<1>2. ASSUME \A b, c \in B : b # c => batch.blocks[b].sender # batch.blocks[c].sender,
             NEW job \in Jobs(batch), NEW other \in Jobs(batch), other.id = job.id
      PROVE  other.block >= job.block
  <2>1. PICK b \in B : \E i \in DOMAIN batch.blocks[b].delay : job = JobOf(batch, b, i)
    BY DEF Jobs
  <2>2. PICK c \in B : \E i \in DOMAIN batch.blocks[c].delay : other = JobOf(batch, c, i)
    BY DEF Jobs
  <2>3. /\ job.block = b /\ job.id[2] = batch.blocks[b].sender
        /\ other.block = c /\ other.id[2] = batch.blocks[c].sender
    BY <2>1, <2>2 DEF JobOf
  <2>4. b = c /\ b \in Nat
    BY <1>2, <2>3, BlockLeads
  <2>5. QED
    BY <2>3, <2>4
<1>3. \A b, c \in B : b # c => b < c \/ c < b
  BY BlockLeads
<1>4. QED
  BY <1>1, <1>2, <1>3 DEF Kept

\* SendBatchUseCase: the mails of one mailbox in a batch keep the pacing, but for the
\* spread of the draws.
THEOREM PacingIsKept == \A batch : IsBatch(batch) => DriftBounded(batch)
<1> SUFFICES ASSUME NEW batch, IsBatch(batch),
                    NEW job \in Jobs(batch), NEW other \in Jobs(batch),
                    job.index < other.index
             PROVE  other.due + (PacingMax - PacingMin) * job.index
                      >= job.due + PacingMin * (other.index - job.index)
  BY DEF DriftBounded, Kept
<1> DEFINE base == batch.at + ScheduleDelay(batch)
<1>1. base \in Int
  BY DEF IsBatch, ScheduleDelay
<1>2. PICK b \in DOMAIN batch.blocks :
        \E i \in DOMAIN batch.blocks[b].delay : job = JobOf(batch, b, i)
  BY DEF Jobs
<1>3. PICK i \in DOMAIN batch.blocks[b].delay : job = JobOf(batch, b, i)
  BY <1>2
<1>4. PICK c \in DOMAIN batch.blocks :
        \E j \in DOMAIN batch.blocks[c].delay : other = JobOf(batch, c, j)
  BY DEF Jobs
<1>5. PICK j \in DOMAIN batch.blocks[c].delay : other = JobOf(batch, c, j)
  BY <1>4
<1> DEFINE early == batch.blocks[b].delay[i]
           late == batch.blocks[c].delay[j]
<1>6. /\ i \in Nat /\ early \in (i * 3)..(i * 5)
      /\ j \in Nat /\ late \in (j * 3)..(j * 5)
  BY BlockLeads
<1>7. /\ job.index = i /\ job.due = base + early
      /\ other.index = j /\ other.due = base + late
  BY <1>3, <1>5 DEF JobOf
<1> HIDE DEF base, early, late
<1>8. (base + late) + (5 - 3) * i >= (base + early) + 3 * (j - i)
  BY <1>1, <1>6
<1>9. QED
  BY <1>7, <1>8 DEF PacingMin, PacingMax
=============================================================================

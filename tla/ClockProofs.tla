----------------------------- MODULE ClockProofs -----------------------------
(***************************************************************************)
(* The next run of a schedule, for every hour, every set of days, every    *)
(* instant of the look-up and every zone whose offsets are less than a day *)
(* and change by at most a day.  The earliest of a set of times is a       *)
(* minimum: that it exists is all that is needed of induction, here and,   *)
(* as the lemmas Induction and LoopRuns, for the loops of other modules.   *)
(***************************************************************************)
EXTENDS ScheduleClock, WellFoundedInduction, TLAPS

ClockZone ==
  {z \in [before : Int, after : Int, at : Int] :
     /\ z.before \in (-Day + 1)..(Day - 1)
     /\ z.after \in (-Day + 1)..(Day - 1)
     /\ Shift(z) <= Day}

ClockInput ==
  [type : {"recurring", "one_time"}, hour : 0..(Day - 1) \cup {Never}, date : Int \cup {Never},
   days : SUBSET (0..6), zone : ClockZone, from : Int]

-----------------------------------------------------------------------------
(* Minima and induction *)

LEMMA LeastNat ==
  ASSUME NEW T, T \subseteq Nat, T # {}
  PROVE  \E x \in T : \A y \in T : x <= y
<1>1. IsWellFoundedOn(OpToRel(<, Nat), Nat)
  BY NatLessThanWellFounded
<1>2. PICK x \in T : \A y \in T : ~(<<y, x>> \in OpToRel(<, Nat))
  BY <1>1, WFMin
<1>3. ASSUME NEW y \in T PROVE x <= y
  <2>1. x \in Nat /\ y \in Nat
    OBVIOUS
  <2>2. ~(<<y, x>> \in OpToRel(<, Nat))
    BY <1>2
  <2>3. y < x => <<y, x>> \in OpToRel(<, Nat)
    BY <2>1 DEF OpToRel
  <2>4. ~(y < x)
    BY <2>2, <2>3, Zenon
  <2>5. QED
    BY <2>1, <2>4
<1>4. QED
  BY <1>3

\* A set of integers that is bounded below has a least element, and Min is it.
LEMMA LeastInt ==
  ASSUME NEW low \in Int, NEW T, T \subseteq Int, T # {}, \A x \in T : x >= low
  PROVE  Min(T) \in T /\ \A y \in T : Min(T) <= y
<1> DEFINE S == {n \in Nat : low + n \in T}
<1>1. S # {}
  <2>1. PICK x \in T : TRUE
    OBVIOUS
  <2>2. x - low \in Nat /\ low + (x - low) = x
    BY <2>1
  <2>3. QED
    BY <2>1, <2>2
<1>2. PICK n \in S : \A m \in S : n <= m
  BY <1>1, LeastNat
<1>3. ASSUME NEW y \in T PROVE low + n <= y
  <2>1. y - low \in Nat /\ low + (y - low) = y
    OBVIOUS
  <2>2. n <= y - low
    BY <1>2, <2>1
  <2>3. QED
    BY <2>1, <2>2
<1>4. \E x \in T : \A y \in T : x <= y
  BY <1>2, <1>3
<1>5. QED
  BY <1>4 DEF Min

\* A set that holds 0, and each number up to n whose predecessor it holds, holds all of them.
LEMMA Induction ==
  ASSUME NEW n \in Nat, NEW P, 0 \in P, \A i \in 1..n : i - 1 \in P => i \in P
  PROVE  0..n \subseteq P
<1> DEFINE T == {i \in Nat : i <= n /\ i \notin P}
<1>1. ASSUME T # {} PROVE FALSE
  <2>1. PICK i \in T : \A j \in T : i <= j
    BY <1>1, LeastNat
  <2>2. i \in 1..n /\ i - 1 \in Nat /\ i - 1 <= n /\ ~(i <= i - 1)
    BY <2>1
  <2>3. QED
    BY <2>1, <2>2
<1>2. QED
  BY <1>1

\* What the variable of a loop of n steps holds: F[i] is step i.
LoopOf(n, a, F, g) == g = [i \in 0..n |-> IF i = 0 THEN a ELSE F[i][g[i - 1]]]

LEMMA LoopRuns ==
  ASSUME NEW n \in Nat, NEW a, NEW F
  PROVE  \E g : LoopOf(n, a, F, g)
<1> DEFINE P == {m \in Nat : \E g : LoopOf(m, a, F, g)}
<1>1. 0 \in P
  <2> DEFINE g == [i \in 0..0 |-> a]
  <2>1. g = [i \in 0..0 |-> IF i = 0 THEN a ELSE F[i][g[i - 1]]]
    OBVIOUS
  <2> HIDE DEF g
  <2>2. LoopOf(0, a, F, g)
    BY <2>1 DEF LoopOf
  <2>3. QED
    BY <2>2
<1>2. ASSUME NEW m \in 1..n, m - 1 \in P PROVE m \in P
  <2>1. PICK h : LoopOf(m - 1, a, F, h)
    BY <1>2
  <2> DEFINE g == [i \in 0..m |-> IF i = m THEN F[m][h[m - 1]] ELSE h[i]]
  <2>2. ASSUME NEW i \in 0..m PROVE g[i] = IF i = 0 THEN a ELSE F[i][g[i - 1]]
    <3>1. CASE i = m
      <4>1. m - 1 \in 0..m /\ m - 1 # m
        OBVIOUS
      <4>2. g[m - 1] = h[m - 1]
        BY <4>1
      <4>3. QED
        BY <3>1, <4>2
    <3>2. CASE i # m
      <4>1. i \in 0..(m - 1)
        BY <3>2
      <4>2. h[i] = IF i = 0 THEN a ELSE F[i][h[i - 1]]
        BY <2>1, <4>1 DEF LoopOf
      <4>3. g[i] = h[i]
        BY <3>2
      <4>4. i # 0 => g[i - 1] = h[i - 1]
        <5>1. i # 0 => i - 1 \in 0..m /\ i - 1 # m
          BY <4>1
        <5>2. QED
          BY <5>1
      <4>5. QED
        BY <4>2, <4>3, <4>4
    <3>3. QED
      BY <3>1, <3>2
  <2>3. g = [i \in 0..m |-> g[i]]
    OBVIOUS
  <2> HIDE DEF g
  <2>4. g = [i \in 0..m |-> IF i = 0 THEN a ELSE F[i][g[i - 1]]]
    BY <2>2, <2>3
  <2>5. LoopOf(m, a, F, g)
    BY <2>4 DEF LoopOf
  <2>6. QED
    BY <2>5
<1> HIDE DEF P
<1>3. 0..n \subseteq P
  BY <1>1, <1>2, Induction
<1>4. QED
  BY <1>3 DEF P

-----------------------------------------------------------------------------
(* The search, day by day *)

\* The midnight in UTC, the local date, and the run, of the candidate that is k days after the look-up.
Midnight(z, f, k) == (FormatYMD(z, f) + k) * 24
DayOf(z, f, k) == FormatYMD(z, AddDays(z, f, k))
RunOf(h, z, f, k) == Combine(z, DayOf(z, f, k), h)

Fits(h, days, z, f) ==
  {k \in 0..(SearchedDays - 1) : DayOf(z, f, k) % 7 \in days /\ RunOf(h, z, f, k) > f}

LEMMA SearchIsMin ==
  ASSUME NEW h, NEW days, NEW z, NEW f
  PROVE  NextRecurring(h, days, z, f) =
           IF Fits(h, days, z, f) = {} THEN Never ELSE RunOf(h, z, f, Min(Fits(h, days, z, f)))
BY DEF NextRecurring, Fits, RunOf, DayOf, Weekday

LEMMA ZoneFacts ==
  ASSUME NEW z \in ClockZone, NEW t \in Int
  PROVE  /\ z.at \in Int /\ z.before \in -23..23 /\ z.after \in -23..23
         /\ OffsetAt(z, t) \in -23..23
         /\ OffsetAt(z, t) = IF t < z.at THEN z.before ELSE z.after
         /\ Shift(z) \in 0..24
         /\ z.after - z.before \in (-Shift(z))..Shift(z)
BY DEF ClockZone, Day, OffsetAt, Shift

\* A wall-clock time is a date and an hour.
LEMMA WallTime ==
  ASSUME NEW w \in Int
  PROVE  /\ w \div 24 \in Int /\ w % 24 \in 0..23
         /\ w = (w \div 24) * 24 + (w % 24)
OBVIOUS

LEMMA DateAndHour ==
  ASSUME NEW d \in Int, NEW h \in 0..23
  PROVE  (d * 24 + h) \div 24 = d /\ (d * 24 + h) % 24 = h
OBVIOUS

\* The date of the look-up.
LEMMA Today ==
  ASSUME NEW z \in ClockZone, NEW f \in Int
  PROVE  /\ FormatYMD(z, f) \in Int
         /\ f + OffsetAt(z, f) \in (FormatYMD(z, f) * 24)..(FormatYMD(z, f) * 24 + 23)
<1>1. f + OffsetAt(z, f) \in Int
  BY ZoneFacts
<1>2. QED
  BY <1>1, WallTime DEF FormatYMD, Local, Day

\* East of Greenwich a candidate keeps its date, west of it it falls to the day before.
LEMMA CandidateDay ==
  ASSUME NEW z \in ClockZone, NEW f \in Int, NEW k \in Int
  PROVE  /\ Midnight(z, f, k) \in Int
         /\ OffsetAt(z, Midnight(z, f, k)) >= 0 => DayOf(z, f, k) = FormatYMD(z, f) + k
         /\ OffsetAt(z, Midnight(z, f, k)) < 0 => DayOf(z, f, k) = FormatYMD(z, f) + k - 1
         /\ DayOf(z, f, k) \in Int
<1> DEFINE d == FormatYMD(z, f) + k
           o == OffsetAt(z, d * 24)
<1>1. d \in Int /\ d * 24 \in Int
  BY Today
<1>2. o \in -23..23
  BY <1>1, ZoneFacts
<1>3. DayOf(z, f, k) = (d * 24 + o) \div 24
  BY DEF DayOf, FormatYMD, Local, AddDays, Day
<1> HIDE DEF d, o
<1>4. o >= 0 => DayOf(z, f, k) = d
  BY <1>1, <1>2, <1>3, DateAndHour
<1>5. o < 0 => DayOf(z, f, k) = d - 1
  <2>1. SUFFICES ASSUME o < 0 PROVE DayOf(z, f, k) = d - 1
    OBVIOUS
  <2>2. o + 24 \in 0..23 /\ d - 1 \in Int /\ d * 24 + o = (d - 1) * 24 + (o + 24)
    BY <1>1, <1>2, <2>1
  <2>3. QED
    BY <1>3, <2>2, DateAndHour
<1>6. DayOf(z, f, k) \in Int
  BY <1>1, <1>2, <1>4, <1>5
<1>7. QED
  <2>1. Midnight(z, f, k) = d * 24 /\ OffsetAt(z, Midnight(z, f, k)) = o
    BY DEF d, o, Midnight
  <2>2. d = FormatYMD(z, f) + k
    BY DEF d
  <2>3. QED
    BY <1>1, <1>2, <1>4, <1>5, <1>6, <2>1, <2>2, Today

\* The run of a candidate is at its date and hour, by the offset at that time in UTC.
LEMMA CandidateRun ==
  ASSUME NEW z \in ClockZone, NEW f \in Int, NEW k \in Int, NEW h \in 0..23
  PROVE  LET wall == DayOf(z, f, k) * 24 + h
         IN wall \in Int /\ RunOf(h, z, f, k) = wall - OffsetAt(z, wall)
                /\ RunOf(h, z, f, k) \in Int
<1>1. DayOf(z, f, k) * 24 + h \in Int
  BY CandidateDay
<1>2. QED
  BY <1>1, ZoneFacts DEF RunOf, Combine, Day

\* Two offsets of a zone differ by its change, if at all.
LEMMA OffsetsNear ==
  ASSUME NEW z \in ClockZone, NEW s \in Int, NEW t \in Int
  PROVE  OffsetAt(z, s) - OffsetAt(z, t) \in (-Shift(z))..Shift(z)
<1> DEFINE c == Shift(z)
<1>1. /\ z.before \in Int /\ z.after \in Int /\ c \in Int /\ c >= 0
      /\ -c <= z.after - z.before /\ z.after - z.before <= c
  BY ZoneFacts
<1>2. OffsetAt(z, s) \in {z.before, z.after} /\ OffsetAt(z, t) \in {z.before, z.after}
  BY ZoneFacts
<1> HIDE DEF c
<1>3. OffsetAt(z, s) - OffsetAt(z, t) \in (-c)..c
  BY <1>1, <1>2
<1>4. QED
  BY <1>3 DEF c

LEMMA DaysInOrder ==
  ASSUME NEW z \in ClockZone, NEW f \in Int, NEW j \in Int, NEW k \in Int, j <= k
  PROVE  DayOf(z, f, j) <= DayOf(z, f, k)
<1>1. FormatYMD(z, f) \in Int /\ Midnight(z, f, j) \in Int /\ Midnight(z, f, k) \in Int
  BY Today, CandidateDay
<1>2. /\ OffsetAt(z, Midnight(z, f, j)) \in Int
      /\ OffsetAt(z, Midnight(z, f, k)) \in Int
  BY <1>1, ZoneFacts
<1>3. CASE j = k
  BY <1>3, CandidateDay
<1>4. CASE j < k
  BY <1>1, <1>2, <1>4, CandidateDay
<1>5. QED
  BY <1>3, <1>4

LEMMA RunsInOrder ==
  ASSUME NEW z \in ClockZone, NEW f \in Int, NEW h \in 0..23,
         NEW j \in Int, NEW k \in Int, j <= k
  PROVE  RunOf(h, z, f, j) <= RunOf(h, z, f, k)
<1> DEFINE a == DayOf(z, f, j)
           b == DayOf(z, f, k)
           wa == a * 24 + h
           wb == b * 24 + h
<1>1. a \in Int /\ b \in Int /\ a <= b /\ wa \in Int /\ wb \in Int
  BY CandidateDay, DaysInOrder, CandidateRun
<1>2. RunOf(h, z, f, j) = wa - OffsetAt(z, wa) /\ RunOf(h, z, f, k) = wb - OffsetAt(z, wb)
  BY CandidateRun
<1>3. OffsetAt(z, wa) \in Int /\ OffsetAt(z, wb) \in Int
  BY <1>1, ZoneFacts
<1>4. OffsetAt(z, wb) - OffsetAt(z, wa) <= 24
  BY <1>1, <1>3, OffsetsNear, ZoneFacts
<1>5. a < b => wa + 24 <= wb
  BY <1>1
<1> HIDE DEF wa, wb
<1>6. CASE a = b
  <2>1. wa = wb
    BY <1>6 DEF wa, wb
  <2>2. QED
    BY <1>1, <1>2, <1>3, <2>1
<1>7. CASE a < b
  BY <1>1, <1>2, <1>3, <1>4, <1>5, <1>7
<1>8. QED
  BY <1>1, <1>6, <1>7

\* The search ends at the first candidate that fits.
LEMMA FirstFit ==
  ASSUME NEW z \in ClockZone, NEW f \in Int, NEW h \in 0..23, NEW days,
         NEW k \in Fits(h, days, z, f)
  PROVE  /\ Min(Fits(h, days, z, f)) \in Fits(h, days, z, f)
         /\ Min(Fits(h, days, z, f)) <= k
         /\ NextRecurring(h, days, z, f) = RunOf(h, z, f, Min(Fits(h, days, z, f)))
         /\ NextRecurring(h, days, z, f) \in Int
         /\ NextRecurring(h, days, z, f) > f
         /\ NextRecurring(h, days, z, f) <= RunOf(h, z, f, k)
<1> DEFINE F == Fits(h, days, z, f)
<1>1. F \subseteq Int /\ F # {} /\ \A x \in F : x >= 0
  BY DEF Fits, SearchedDays
<1>2. Min(F) \in F /\ Min(F) <= k
  BY <1>1, LeastInt
<1>3. NextRecurring(h, days, z, f) = RunOf(h, z, f, Min(F))
  BY <1>1, SearchIsMin
<1>4. Min(F) \in Int /\ k \in Int
  BY <1>1, <1>2
<1>5. RunOf(h, z, f, Min(F)) > f
  BY <1>2 DEF Fits
<1>6. RunOf(h, z, f, Min(F)) <= RunOf(h, z, f, k) /\ RunOf(h, z, f, Min(F)) \in Int
  BY <1>2, <1>4, RunsInOrder, CandidateRun
<1>7. QED
  BY <1>2, <1>3, <1>5, <1>6

\* Every date that is not skipped is that of a candidate.
LEMMA DayFound ==
  ASSUME NEW z \in ClockZone, NEW f \in Int, NEW n \in Int,
         FormatYMD(z, f) + n \notin Skipped(z)
  PROVE  \E k \in {n, n + 1} : DayOf(z, f, k) = FormatYMD(z, f) + n
<1> DEFINE d == FormatYMD(z, f)
           m == Midnight(z, f, n)
           mm == Midnight(z, f, n + 1)
<1>1. d \in Int /\ m \in Int /\ mm \in Int /\ mm = m + 24 /\ m = (d + n) * 24
  BY Today, CandidateDay DEF Midnight
<1>2. /\ OffsetAt(z, m) \in Int /\ OffsetAt(z, mm) \in Int
      /\ z.at \in Int /\ z.before \in Int /\ z.after \in Int
  BY <1>1, ZoneFacts
<1>3. CASE OffsetAt(z, m) >= 0
  BY <1>3, CandidateDay
<1> HIDE DEF d, m, mm
<1>4. CASE OffsetAt(z, mm) < 0
  <2>1. DayOf(z, f, n + 1) = d + (n + 1) - 1
    BY <1>4, CandidateDay DEF d, mm
  <2>2. QED
    BY <1>1, <2>1 DEF d
<1>5. CASE OffsetAt(z, m) < 0 /\ OffsetAt(z, mm) >= 0
  <2>1. z.before < 0 /\ z.after >= 0 /\ m < z.at /\ z.at <= mm
    <3>1. OffsetAt(z, m) = (IF m < z.at THEN z.before ELSE z.after)
      BY <1>1, ZoneFacts
    <3>2. OffsetAt(z, mm) = (IF mm < z.at THEN z.before ELSE z.after)
      BY <1>1, ZoneFacts
    <3>3. QED
      BY <1>1, <1>2, <1>5, <3>1, <3>2
  <2>2. \E r \in 0..23 : z.at - 1 = m + r
    <3>1. z.at - 1 - m \in 0..23 /\ z.at - 1 = m + (z.at - 1 - m)
      BY <1>1, <1>2, <2>1
    <3>2. QED
      BY <3>1
  <2>3. (z.at - 1) \div 24 = d + n
    BY <1>1, <2>2, DateAndHour
  <2>4. d + n \in Skipped(z)
    BY <2>1, <2>3 DEF Skipped, FormatYMDUtc, Day
  <2>5. QED
    BY <2>4 DEF d
<1>6. QED
  BY <1>2, <1>3, <1>4, <1>5

-----------------------------------------------------------------------------
(* Near a change of offset *)

\* A time of the calendar is the wall-clock time of its date and the hour.
LEMMA OccurrenceWall ==
  ASSUME NEW z \in ClockZone, NEW t \in Int
  PROVE  t = (FormatYMD(z, t) * 24 + (Local(z, t) % 24)) - OffsetAt(z, t)
<1>1. Local(z, t) \in Int /\ OffsetAt(z, t) \in Int
  BY ZoneFacts DEF Local
<1>2. Local(z, t) = FormatYMD(z, t) * 24 + (Local(z, t) % 24)
  BY <1>1, WallTime DEF FormatYMD, Day
<1>3. Local(z, t) = t + OffsetAt(z, t)
  BY DEF Local
<1> HIDE DEF Local
<1>4. t = Local(z, t) - OffsetAt(z, t)
  BY <1>1, <1>3
<1>5. QED
  BY <1>2, <1>4, Zenon

\* The candidate of a date runs by the change at most before or after any time that the
\* calendar has on it.
LEMMA RunNearOccurrence ==
  ASSUME NEW z \in ClockZone, NEW f \in Int, NEW h \in 0..23, NEW t \in Int,
         Local(z, t) % 24 = h, NEW k \in Int, DayOf(z, f, k) = FormatYMD(z, t)
  PROVE  RunOf(h, z, f, k) - t \in (-Shift(z))..Shift(z)
<1> DEFINE wall == DayOf(z, f, k) * 24 + h
<1>1. wall \in Int /\ RunOf(h, z, f, k) = wall - OffsetAt(z, wall)
  BY CandidateRun
<1>2. t = wall - OffsetAt(z, t)
  BY OccurrenceWall, Zenon
<1> HIDE DEF wall
<1>3. OffsetAt(z, wall) \in Int /\ OffsetAt(z, t) \in Int
  BY <1>1, ZoneFacts
<1>4. OffsetAt(z, t) - OffsetAt(z, wall) \in (-Shift(z))..Shift(z)
  BY <1>1, OffsetsNear
<1>5. RunOf(h, z, f, k) - t = OffsetAt(z, t) - OffsetAt(z, wall)
  BY <1>1, <1>2, <1>3
<1>6. QED
  BY <1>4, <1>5

\* A time in the week ahead, by more than the change, that is not on a skipped day, is not
\* passed over by more than the change.
LEMMA NotPassedOver ==
  ASSUME NEW z \in ClockZone, NEW f \in Int, NEW h \in 0..23, NEW days,
         NEW t \in (f + Shift(z) + 1)..(f + 7 * 24),
         Local(z, t) % 24 = h, FormatYMD(z, t) % 7 \in days, FormatYMD(z, t) \notin Skipped(z)
  PROVE  NextRecurring(h, days, z, f) <= t + Shift(z)
<1> DEFINE d == FormatYMD(z, f)
           n == FormatYMD(z, t) - d
           c == Shift(z)
<1>1. c \in 0..24 /\ t \in Int /\ d \in Int /\ FormatYMD(z, t) \in Int
  BY ZoneFacts, Today
<1>2. n \in Int /\ d + n = FormatYMD(z, t)
  BY <1>1
<1>3. n \in 0..8
  <2>1. f + OffsetAt(z, f) \in (d * 24)..(d * 24 + 23)
    BY Today
  <2>2. t + OffsetAt(z, t) \in ((d + n) * 24)..((d + n) * 24 + 23)
    BY <1>1, <1>2, Today
  <2>3. /\ OffsetAt(z, f) \in Int /\ OffsetAt(z, t) \in Int
        /\ OffsetAt(z, t) - OffsetAt(z, f) \in (-c)..c
    BY <1>1, ZoneFacts, OffsetsNear
  <2>4. f + c + 1 <= t /\ t <= f + 168
    BY <1>1
  <2> HIDE DEF n, c, d
  <2>5. QED
    BY <1>1, <1>2, <2>1, <2>2, <2>3, <2>4
<1>4. PICK k \in {n, n + 1} : DayOf(z, f, k) = FormatYMD(z, t)
  BY <1>2, DayFound
<1>5. k \in 0..9
  BY <1>3, <1>4
<1>6. RunOf(h, z, f, k) - t \in (-c)..c /\ RunOf(h, z, f, k) \in Int
  <2>1. k \in Int
    BY <1>5
  <2>2. QED
    BY <1>1, <1>4, <2>1, RunNearOccurrence, CandidateRun
<1>7. RunOf(h, z, f, k) > f /\ RunOf(h, z, f, k) <= t + c
  <2>1. f + c + 1 <= t
    BY <1>1
  <2> HIDE DEF c
  <2>2. QED
    BY <1>1, <1>6, <2>1
<1>8. k \in Fits(h, days, z, f)
  BY <1>4, <1>5, <1>7 DEF Fits, SearchedDays
<1>9. NextRecurring(h, days, z, f) <= RunOf(h, z, f, k) /\ NextRecurring(h, days, z, f) \in Int
  BY <1>8, FirstFit
<1> HIDE DEF c
<1>10. NextRecurring(h, days, z, f) <= t + c
  BY <1>1, <1>6, <1>7, <1>9
<1>11. QED
  BY <1>10 DEF c

\* ScheduleClock: whatever the zone, its change of offset and the look-up, the next run
\* lies ahead, at a time off by no more than the change, and passes over no time of the
\* week ahead by more than that, but for a skipped day.
THEOREM NextRunsAreNear == \A input \in ClockInput : NextRunNearChange(input)
<1> SUFFICES ASSUME NEW input \in ClockInput,
                    input.type = "recurring", input.hour # Never,
                    NextRunAtFromInput(input) # Never
             PROVE  NextRunNearChange(input)
  BY DEF NextRunNearChange
<1> DEFINE z == input.zone
           f == input.from
           h == input.hour
           days == input.days
           next == NextRecurring(h, days, z, f)
           m == Min(Fits(h, days, z, f))
           wall == DayOf(z, f, m) * 24 + h
           shown == Local(z, next)
<1>1. z \in ClockZone /\ f \in Int /\ h \in 0..23
  BY DEF ClockInput, Day
<1>2. NextRunAtFromInput(input) = next
  BY DEF NextRunAtFromInput
<1>3. PICK k : k \in Fits(h, days, z, f)
  BY <1>2, SearchIsMin
<1>4. m \in Fits(h, days, z, f) /\ next = RunOf(h, z, f, m) /\ next \in Int /\ next > f
  BY <1>1, <1>3, FirstFit
<1>5. m \in Int /\ DayOf(z, f, m) % 7 \in days
  BY <1>4 DEF Fits
<1>6. wall \in Int /\ next = wall - OffsetAt(z, wall) /\ DayOf(z, f, m) \in Int
  BY <1>1, <1>4, <1>5, CandidateRun, CandidateDay
<1>7. wall \in (shown - Shift(z))..(shown + Shift(z))
  <2> HIDE DEF wall, next, z
  <2>1. /\ OffsetAt(z, wall) \in Int /\ OffsetAt(z, next) \in Int /\ Shift(z) \in Int
        /\ OffsetAt(z, wall) - OffsetAt(z, next) \in (-Shift(z))..Shift(z)
    BY <1>1, <1>4, <1>6, ZoneFacts, OffsetsNear
  <2>2. shown = next + OffsetAt(z, next)
    BY DEF Local
  <2>3. QED
    BY <1>4, <1>6, <2>1, <2>2
<1>8. wall % Day = h /\ (wall \div Day) % 7 \in days
  BY <1>1, <1>5, <1>6, DateAndHour DEF Day
<1>9. \A t \in Occurrences(input) \cap (f + Shift(z) + 1)..(f + 7 * Day) :
        FormatYMD(z, t) \notin Skipped(z) => next <= t + Shift(z)
  <2> SUFFICES ASSUME NEW t \in Occurrences(input) \cap (f + Shift(z) + 1)..(f + 7 * Day),
                      FormatYMD(z, t) \notin Skipped(z)
               PROVE  next <= t + Shift(z)
    OBVIOUS
  <2>1. Local(z, t) % 24 = h /\ FormatYMD(z, t) % 7 \in days /\ t \in (f + Shift(z) + 1)..(f + 7 * 24)
    BY DEF Occurrences, Weekday, Day
  <2>2. QED
    BY <1>1, <2>1, NotPassedOver
<1>10. QED
  BY <1>2, <1>4, <1>7, <1>8, <1>9 DEF NextRunNearChange

-----------------------------------------------------------------------------
(* That there is a next run *)

LEMMA WeekdayAhead ==
  ASSUME NEW d \in Int, NEW w \in 0..6
  PROVE  /\ \E r \in 1..7 : (d + r) % 7 = w
         /\ \A r \in Int : (d + (r + 7)) % 7 = (d + r) % 7
OBVIOUS

LEMMA SkippedDay ==
  ASSUME NEW z \in ClockZone, NEW d \in Int, d \in Skipped(z)
  PROVE  /\ z.before < 0 /\ z.after >= 0
         /\ z.at - 1 \in (d * 24)..(d * 24 + 23)
<1>1. z.at \in Int /\ z.before < 0 /\ z.after >= 0 /\ d = (z.at - 1) \div 24
  BY ZoneFacts DEF Skipped, FormatYMDUtc, Day
<1>2. \E h \in 0..23 : z.at - 1 = d * 24 + h
  BY <1>1, WallTime
<1>3. z.at - 1 \in (d * 24)..(d * 24 + 23)
  BY <1>2
<1>4. QED
  BY <1>1, <1>3

\* From the day after tomorrow on, a candidate of a weekday that is asked for fits.
LEMMA AheadFits ==
  ASSUME NEW z \in ClockZone, NEW f \in Int, NEW h \in 0..23, NEW days,
         NEW k \in 0..13, DayOf(z, f, k) >= FormatYMD(z, f) + 2, DayOf(z, f, k) % 7 \in days
  PROVE  k \in Fits(h, days, z, f)
<1> DEFINE d == FormatYMD(z, f)
           y == DayOf(z, f, k)
           wall == y * 24 + h
<1>1. /\ k \in Int /\ d \in Int /\ y \in Int /\ wall \in Int
      /\ RunOf(h, z, f, k) = wall - OffsetAt(z, wall)
  BY Today, CandidateDay, CandidateRun
<1>2. wall >= d * 24 + 48
  BY <1>1
<1>3. f + OffsetAt(z, f) <= d * 24 + 23
  BY Today
<1>4. /\ OffsetAt(z, f) \in Int /\ OffsetAt(z, wall) \in Int
      /\ OffsetAt(z, wall) - OffsetAt(z, f) <= 24
  BY <1>1, ZoneFacts, OffsetsNear
<1> HIDE DEF wall, d
<1>5. RunOf(h, z, f, k) > f
  BY <1>1, <1>2, <1>3, <1>4
<1>6. QED
  BY <1>5 DEF Fits, SearchedDays

\* Of a weekday other than that of the look-up there is a candidate that fits.
LEMMA SoonFits ==
  ASSUME NEW z \in ClockZone, NEW f \in Int, NEW h \in 0..23, NEW days,
         NEW r \in 1..6, (FormatYMD(z, f) + r) % 7 \in days
  PROVE  Fits(h, days, z, f) # {}
<1> DEFINE d == FormatYMD(z, f)
<1>1. d \in Int /\ (d + (r + 7)) % 7 \in days
  BY Today, WeekdayAhead
<1>2. CASE d + r \in Skipped(z)
  <2>1. z.after >= 0 /\ z.at - 1 <= (d + r) * 24 + 23 /\ z.at \in Int
    BY <1>1, <1>2, SkippedDay, ZoneFacts
  <2>2. Midnight(z, f, r + 7) = (d + r) * 24 + 168 /\ Midnight(z, f, r + 7) \in Int
    BY <1>1 DEF Midnight
  <2>3. ~(Midnight(z, f, r + 7) < z.at)
    BY <1>1, <2>1, <2>2
  <2>4. OffsetAt(z, Midnight(z, f, r + 7)) = z.after
    BY <2>3 DEF OffsetAt
  <2>5. DayOf(z, f, r + 7) = d + (r + 7)
    BY <2>1, <2>4, CandidateDay
  <2>6. r + 7 \in 0..13 /\ d + (r + 7) >= d + 2
    BY <1>1
  <2>7. r + 7 \in Fits(h, days, z, f)
    BY <1>1, <2>5, <2>6, AheadFits
  <2>8. QED
    BY <2>7
<1>3. CASE d + r \notin Skipped(z)
  <2>1. PICK k \in {r, r + 1} : DayOf(z, f, k) = d + r
    BY <1>3, DayFound
  <2>2. k \in 0..13
    BY <2>1
  <2>3. CASE r >= 2 \/ RunOf(h, z, f, k) > f
    <3>1. r >= 2 => d + r >= d + 2
      BY <1>1
    <3>2. RunOf(h, z, f, k) > f => k \in Fits(h, days, z, f)
      BY <2>1, <2>2 DEF Fits, SearchedDays
    <3>3. QED
      BY <2>1, <2>2, <2>3, <3>1, <3>2, AheadFits
  <2>4. CASE r = 1 /\ ~(RunOf(h, z, f, k) > f)
    <3> DEFINE wall == (d + 1) * 24 + h
    <3>1. wall \in Int /\ RunOf(h, z, f, k) = wall - OffsetAt(z, wall)
      BY <2>1, <2>2, <2>4, CandidateRun
    <3>2. f + OffsetAt(z, f) <= d * 24 + 23 /\ wall >= d * 24 + 24
      BY <1>1, Today
    <3>3. wall <= d * 24 + 47
      BY <1>1
    <3> HIDE DEF wall
    <3>4. OffsetAt(z, f) \in Int /\ OffsetAt(z, wall) \in Int /\ z.at \in Int
      BY <3>1, ZoneFacts
    <3>5. OffsetAt(z, f) < OffsetAt(z, wall)
      BY <1>1, <2>4, <3>1, <3>2, <3>4
    <3>6. z.at <= wall \/ z.after < 0
      <4>1. SUFFICES ASSUME wall < z.at PROVE z.after < 0
        BY <3>1, <3>4
      <4>2. OffsetAt(z, wall) = z.before
        BY <4>1 DEF OffsetAt
      <4>3. OffsetAt(z, f) = (IF f < z.at THEN z.before ELSE z.after)
        BY DEF OffsetAt
      <4>4. ~(f < z.at) /\ OffsetAt(z, f) = z.after
        BY <3>4, <3>5, <4>2, <4>3
      <4>5. wall < f /\ z.after \in Int
        BY <3>1, <3>4, <4>1, <4>4
      <4>6. QED
        BY <1>1, <3>1, <3>2, <4>4, <4>5
    <3>7. d + 8 \notin Skipped(z)
      <4>1. SUFFICES ASSUME d + 8 \in Skipped(z) PROVE FALSE
        OBVIOUS
      <4>2. z.at - 1 >= (d + 8) * 24 /\ z.after >= 0 /\ z.after \in Int
        BY <1>1, <4>1, SkippedDay, ZoneFacts
      <4>3. z.at <= wall
        BY <3>6, <4>2
      <4>4. QED
        BY <1>1, <3>1, <3>3, <3>4, <4>2, <4>3
    <3>8. PICK m \in {8, 9} : DayOf(z, f, m) = d + 8
      BY <3>7, DayFound
    <3>9. (d + 8) % 7 \in days /\ d + 8 >= d + 2
      BY <1>1, <2>4
    <3>10. m \in Fits(h, days, z, f)
      BY <3>8, <3>9, AheadFits
    <3>11. QED
      BY <3>10
  <2>5. QED
    BY <2>3, <2>4
<1>4. QED
  BY <1>2, <1>3

\* ScheduleClock: a schedule without a next run names no time, no date or no day, or it is
\* a weekly one whose day in a week is skipped.
THEOREM NextRunsExist == \A input \in ClockInput : NextRunExists(input)
<1> SUFFICES ASSUME NEW input \in ClockInput PROVE NextRunExists(input)
  OBVIOUS
<1> DEFINE z == input.zone
           f == input.from
           h == input.hour
           days == input.days
           d == FormatYMD(z, f)
           next == NextRunAtFromInput(input)
           unset == \/ input.hour = Never
                    \/ input.type = "one_time" /\ input.date = Never
                    \/ input.type = "recurring" /\ input.days = {}
           passed == /\ input.type = "recurring"
                     /\ days = {Weekday(z, f)}
                     /\ d + 7 \in Skipped(z)
<1>1. /\ z \in ClockZone /\ f \in Int /\ h \in 0..23 \cup {Never}
      /\ input.date \in Int \cup {Never} /\ days \subseteq 0..6
      /\ input.type \in {"recurring", "one_time"} /\ d \in Int
  BY Today DEF ClockInput, Day
<1>2. unset => next = Never
  <2>1. days = {} => Fits(h, days, z, f) = {}
    BY DEF Fits
  <2>2. days = {} => NextRecurring(h, days, z, f) = Never
    BY <2>1, SearchIsMin
  <2>3. QED
    BY <2>2 DEF NextRunAtFromInput
<1>3. ASSUME ~unset, ~passed PROVE next # Never
  <2>1. h \in 0..23 /\ h # Never
    BY <1>1, <1>3
  <2>2. CASE input.type = "one_time"
    <3>1. input.date \in Int
      BY <1>1, <1>3, <2>2
    <3>2. input.date * 24 + h \in Int
      BY <2>1, <3>1
    <3>3. Combine(z, input.date, h) \in Int
      BY <1>1, <3>2, ZoneFacts DEF Combine, Day
    <3>4. next = Combine(z, input.date, h)
      BY <1>3, <2>1, <2>2 DEF NextRunAtFromInput
    <3>5. QED
      BY <3>3, <3>4, NeverAssumption
  <2>3. CASE input.type = "recurring"
    <3>1. next = NextRecurring(h, days, z, f)
      BY <2>1, <2>3 DEF NextRunAtFromInput
    <3>2. Fits(h, days, z, f) # {}
      <4>1. PICK w \in days : TRUE
        BY <1>3, <2>3
      <4>2. CASE \E v \in days : v # Weekday(z, f)
        <5>1. PICK v \in days : v # Weekday(z, f)
          BY <4>2
        <5>2. v \in 0..6 /\ v # d % 7
          BY <1>1, <5>1 DEF Weekday
        <5>3. PICK r \in 1..7 : (d + r) % 7 = v
          BY <1>1, <5>2, WeekdayAhead
        <5>4. r # 7
          BY <1>1, <5>2, <5>3
        <5>5. r \in 1..6
          BY <5>4
        <5>6. QED
          BY <1>1, <2>1, <5>3, <5>5, SoonFits
      <4>3. CASE \A v \in days : v = Weekday(z, f)
        <5>1. days = {Weekday(z, f)}
          BY <4>1, <4>3
        <5>2. d + 7 \notin Skipped(z)
          BY <1>3, <2>3, <5>1
        <5>3. PICK k \in {7, 8} : DayOf(z, f, k) = d + 7
          BY <1>1, <5>2, DayFound
        <5>4. (d + 7) % 7 = d % 7 /\ d + 7 >= d + 2
          BY <1>1
        <5>5. DayOf(z, f, k) % 7 \in days
          BY <5>1, <5>3, <5>4 DEF Weekday
        <5>6. k \in Fits(h, days, z, f)
          BY <1>1, <2>1, <5>3, <5>4, <5>5, AheadFits
        <5>7. QED
          BY <5>6
      <4>4. QED
        BY <4>2, <4>3
    <3>3. PICK k : k \in Fits(h, days, z, f)
      BY <3>2
    <3>4. NextRecurring(h, days, z, f) \in Int
      BY <1>1, <2>1, <3>3, FirstFit
    <3>5. QED
      BY <3>1, <3>4, NeverAssumption
  <2>4. QED
    BY <1>1, <2>2, <2>3
<1>4. next = Never => unset \/ passed
  BY <1>3
<1>5. QED
  BY <1>2, <1>4 DEF NextRunExists

-----------------------------------------------------------------------------
(* Where the zone keeps its offset *)

\* The times of the week after f at which a clock of offset o shows an hour of a weekday.
TimesShown(f, o, h, w) ==
  {t \in (f + 1)..(f + 168) : (t + o) % 24 = h /\ ((t + o) \div 24) % 7 = w}

\* Any hour of any weekday comes within a week, by any offset.
LEMMA SlotInAWeek ==
  ASSUME NEW f \in Int, NEW o \in Int, NEW h \in 0..23, NEW w \in 0..6
  PROVE  TimesShown(f, o, h, w) # {}
<1> DEFINE d == (f + o) \div 24
<1>1. d \in Int /\ f + o \in (d * 24)..(d * 24 + 23)
  <2>1. \E r \in 0..23 : f + o = d * 24 + r
    BY WallTime
  <2>2. QED
    BY <2>1
<1> HIDE DEF d
<1>2. PICK r \in 1..7 : (d + r) % 7 = w
  BY <1>1, WeekdayAhead
<1>3. PICK q \in {r, r - 7} : /\ (d + q) * 24 + h > f + o
                              /\ (d + q) * 24 + h <= f + o + 168
  <2>1. CASE (d + r) * 24 + h <= f + o + 168
    <3>1. (d + r) * 24 + h > f + o
      BY <1>1, <1>2
    <3>2. QED
      BY <2>1, <3>1
  <2>2. CASE (d + r) * 24 + h > f + o + 168
    <3>1. (d + (r - 7)) * 24 + h > f + o /\ (d + (r - 7)) * 24 + h <= f + o + 168
      BY <1>1, <1>2, <2>2
    <3>2. QED
      BY <3>1
  <2>3. QED
    BY <1>1, <2>1, <2>2
<1>4. q \in Int /\ (d + q) % 7 = w /\ d + q \in Int
  <2>1. (d + (r - 7)) % 7 = (d + r) % 7
    BY <1>1
  <2>2. QED
    BY <1>1, <1>2, <1>3, <2>1
<1> DEFINE t == (d + q) * 24 + h - o
<1>5. t + o = (d + q) * 24 + h /\ t \in (f + 1)..(f + 168)
  BY <1>1, <1>3, <1>4
<1> HIDE DEF t
<1>6. (t + o) % 24 = h /\ (t + o) \div 24 = d + q
  BY <1>4, <1>5, DateAndHour
<1>7. QED
  BY <1>4, <1>5, <1>6 DEF TimesShown

\* The calendar of two weeks has a time of each weekday, whatever the change.
LEMMA OccurrencesExist ==
  ASSUME NEW input \in ClockInput, input.hour # Never, input.days # {}
  PROVE  Occurrences(input) # {}
<1> DEFINE z == input.zone
           f == input.from
           h == input.hour
<1>1. /\ z \in ClockZone /\ f \in Int /\ h \in 0..23 /\ input.days \subseteq 0..6
      /\ z.at \in Int /\ z.before \in Int /\ z.after \in Int
  BY ZoneFacts DEF ClockInput, Day
<1>2. PICK w \in input.days : TRUE
  OBVIOUS
<1>3. w \in 0..6
  BY <1>1
<1> DEFINE b == z.before
           a == z.after
           g == f + 168
<1>4. b \in Int /\ a \in Int /\ f \in Int /\ g \in Int /\ h \in 0..23
  BY <1>1
<1> HIDE DEF z, f, h, a, b, g
<1>5. PICK s \in TimesShown(f, b, h, w) : TRUE
  BY <1>3, <1>4, SlotInAWeek
<1>6. PICK t \in TimesShown(g, a, h, w) : TRUE
  BY <1>3, <1>4, SlotInAWeek
<1> USE DEF TimesShown
<1>7. CASE s < z.at
  <2>1. Local(z, s) = s + z.before /\ s \in (f + 1)..(f + 14 * 24)
    BY <1>1, <1>4, <1>7 DEF Local, OffsetAt
  <2>2. s \in Occurrences(input)
    BY <1>5, <2>1 DEF z, f, h, b, Occurrences, Weekday, FormatYMD, Day, SearchedDays
  <2>3. QED
    BY <2>2
<1>8. CASE ~(s < z.at)
  <2>1. ~(t < z.at) /\ t \in (f + 1)..(f + 14 * 24)
    BY <1>1, <1>4, <1>8 DEF g
  <2>2. Local(z, t) = t + z.after
    BY <2>1 DEF Local, OffsetAt
  <2>3. t \in Occurrences(input)
    BY <1>6, <2>1, <2>2 DEF z, f, h, a, Occurrences, Weekday, FormatYMD, Day, SearchedDays
  <2>4. QED
    BY <2>3
<1>9. QED
  BY <1>7, <1>8

\* The search finds the earliest time of the calendar, if the zone keeps its offset from a
\* day before the look-up to a day after that time.
LEMMA SteadySearch ==
  ASSUME NEW input \in ClockInput, input.hour # Never,
         NEW e \in Occurrences(input), \A t \in Occurrences(input) : e <= t,
         NEW o, \A t \in (input.from - 24)..(e + 24) : OffsetAt(input.zone, t) = o
  PROVE  NextRecurring(input.hour, input.days, input.zone, input.from) = e
<1> DEFINE z == input.zone
           f == input.from
           h == input.hour
           days == input.days
           d == FormatYMD(z, f)
           y == FormatYMD(z, e)
           next == NextRecurring(h, days, z, f)
<1>1. /\ z \in ClockZone /\ f \in Int /\ h \in 0..23 /\ days \subseteq 0..6 /\ d \in Int
  BY Today DEF ClockInput, Day
<1>2. /\ e \in Int /\ f < e /\ e <= f + 336 /\ y \in Int
      /\ Local(z, e) % 24 = h /\ y % 7 \in days
  BY <1>1, Today DEF Occurrences, Weekday, Day, SearchedDays
<1>3. o \in -23..23 /\ OffsetAt(z, f) = o /\ OffsetAt(z, e) = o
  <2>1. f \in (f - 24)..(e + 24) /\ e \in (f - 24)..(e + 24)
    BY <1>1, <1>2
  <2>2. QED
    BY <1>1, <2>1, ZoneFacts
<1>4. f + o \in (d * 24)..(d * 24 + 23)
  BY <1>1, <1>3, Today
<1>5. e + o = y * 24 + h
  <2>1. e = (y * 24 + h) - o
    BY <1>1, <1>2, <1>3, OccurrenceWall, Zenon
  <2>2. y * 24 + h \in Int
    BY <1>1, <1>2
  <2>3. QED
    BY <1>2, <1>3, <2>1, <2>2
<1>6. \A t \in (f + 1)..(e + 24) :
        t <= f + 336 /\ (t + o) % 24 = h /\ ((t + o) \div 24) % 7 \in days
          => t \in Occurrences(input)
  <2> SUFFICES ASSUME NEW t \in (f + 1)..(e + 24), t <= f + 336,
                      (t + o) % 24 = h, ((t + o) \div 24) % 7 \in days
               PROVE  t \in Occurrences(input)
    OBVIOUS
  <2>1. t \in (f - 24)..(e + 24) /\ t \in (f + 1)..(f + 14 * 24)
    BY <1>1, <1>2
  <2>2. Local(z, t) = t + o
    BY <2>1 DEF Local
  <2>3. QED
    BY <2>1, <2>2 DEF Occurrences, Weekday, FormatYMD, Day, SearchedDays
<1>7. e <= f + 168
  <2> DEFINE w == y % 7
  <2>1. w \in 0..6 /\ o \in Int /\ f \in Int /\ h \in 0..23
    BY <1>1, <1>2, <1>3
  <2> HIDE DEF w, f, h
  <2>2. PICK t \in TimesShown(f, o, h, w) : TRUE
    BY <2>1, SlotInAWeek
  <2> USE DEF w, f, h, TimesShown
  <2>3. CASE t <= e + 24
    <3>1. t \in Occurrences(input)
      BY <1>1, <1>2, <1>6, <2>2, <2>3
    <3>2. QED
      BY <1>1, <1>2, <2>2, <3>1
  <2>4. CASE t > e + 24
    BY <1>1, <1>2, <2>2, <2>4
  <2>5. QED
    BY <1>1, <1>2, <2>3, <2>4
<1> DEFINE n == y - d
           k == IF o >= 0 THEN n ELSE n + 1
<1>8. n \in 0..7 /\ k \in 0..8 /\ k \in Int
  <2>1. y - d >= 0 /\ y - d <= 7 /\ y - d \in Int
    <3> HIDE DEF y, d
    <3>1. QED
      BY <1>1, <1>2, <1>3, <1>4, <1>5, <1>7
  <2>2. QED
    BY <2>1
<1>9. DayOf(z, f, k) = y
  <2>1. Midnight(z, f, k) = (IF o >= 0 THEN y * 24 ELSE y * 24 + 24)
    BY <1>1, <1>2 DEF Midnight
  <2>2. Midnight(z, f, k) \in (f - 24)..(e + 24)
    <3>1. d <= y
      BY <1>1, <1>2, <1>8
    <3> HIDE DEF y, d
    <3>2. QED
      BY <1>1, <1>2, <1>3, <1>4, <1>5, <2>1, <3>1
  <2>3. OffsetAt(z, Midnight(z, f, k)) = o
    BY <2>2
  <2>4. DayOf(z, f, k) = (IF o >= 0 THEN d + k ELSE d + k - 1)
    BY <1>1, <1>3, <1>8, <2>3, CandidateDay
  <2>5. QED
    BY <1>1, <1>2, <2>4
<1>10. RunOf(h, z, f, k) = e
  <2>1. RunOf(h, z, f, k) = (y * 24 + h) - OffsetAt(z, y * 24 + h)
    BY <1>1, <1>8, <1>9, CandidateRun
  <2>2. y * 24 + h \in (f - 24)..(e + 24)
    BY <1>1, <1>2, <1>3, <1>5
  <2>3. OffsetAt(z, y * 24 + h) = o
    BY <2>2
  <2>4. QED
    BY <1>2, <1>3, <1>5, <2>1, <2>3
<1>11. k \in Fits(h, days, z, f)
  BY <1>2, <1>8, <1>9, <1>10 DEF Fits, SearchedDays
<1> DEFINE m == Min(Fits(h, days, z, f))
           wall == DayOf(z, f, m) * 24 + h
<1>12. /\ m \in Fits(h, days, z, f) /\ next = RunOf(h, z, f, m)
       /\ next \in Int /\ next > f /\ next <= e
  BY <1>1, <1>10, <1>11, FirstFit
<1>13. m \in Int /\ DayOf(z, f, m) % 7 \in days /\ DayOf(z, f, m) \in Int
  <2> HIDE DEF m
  <2>1. m \in 0..13 /\ DayOf(z, f, m) % 7 \in days
    BY <1>12 DEF Fits, SearchedDays
  <2>2. QED
    BY <1>1, <2>1, CandidateDay
<1>14. wall \in Int /\ next = wall - OffsetAt(z, wall) /\ OffsetAt(z, wall) \in -23..23
  BY <1>1, <1>12, <1>13, CandidateRun, ZoneFacts
<1>15. next + o = wall
  <2> HIDE DEF wall, next
  <2>1. wall \in (f - 24)..(e + 24)
    BY <1>1, <1>2, <1>12, <1>14
  <2>2. OffsetAt(z, wall) = o
    BY <2>1
  <2>3. QED
    BY <1>3, <1>12, <1>14, <2>2
<1>16. (next + o) % 24 = h /\ (next + o) \div 24 = DayOf(z, f, m)
  BY <1>1, <1>13, <1>15, DateAndHour
<1>17. next \in Occurrences(input)
  <2>1. next \in (f + 1)..(e + 24) /\ next <= f + 336
    BY <1>1, <1>2, <1>12
  <2>2. QED
    BY <1>6, <1>13, <1>16, <2>1
<1>18. QED
  BY <1>2, <1>12, <1>17

\* ScheduleClock: where the zone keeps its offset near by, the next run is the first time
\* of the user's calendar, east and west of Greenwich.
THEOREM NextRunsAreEarliest == \A input \in ClockInput : NextRunIsEarliest(input)
<1> SUFFICES ASSUME NEW input \in ClockInput,
                    input.type = "recurring", input.hour # Never, Steady(input)
             PROVE  NextRunAtFromInput(input) = Earliest(input)
  BY DEF NextRunIsEarliest
<1> DEFINE z == input.zone
           f == input.from
           h == input.hour
           days == input.days
           O == Occurrences(input)
           e == Min(O)
<1>1. NextRunAtFromInput(input) = NextRecurring(h, days, z, f)
  BY DEF NextRunAtFromInput
<1>2. z \in ClockZone /\ f \in Int
  BY DEF ClockInput
<1>3. CASE days = {}
  <2>1. O = {} /\ Fits(h, days, z, f) = {}
    BY <1>3 DEF Occurrences, Fits
  <2>2. QED
    BY <1>1, <2>1, SearchIsMin DEF Earliest
<1>4. CASE days # {}
  <2>1. O # {} /\ O \subseteq Int /\ \A t \in O : t >= f
    BY <1>2, <1>4, OccurrencesExist DEF Occurrences
  <2>2. e \in O /\ \A t \in O : e <= t
    BY <1>2, <2>1, LeastInt
  <2>3. Earliest(input) = e /\ e \in Int /\ f <= e
    BY <2>1, <2>2 DEF Earliest
  <2>4. e # Never
    BY <2>3, NeverAssumption
  <2>5. z.at \notin (f - 24)..(e + 24)
    BY <2>3, <2>4 DEF Steady, Day
  <2> HIDE DEF e, O
  <2>6. z.at \in Int
    BY <1>2, ZoneFacts
  <2>7. \A t \in (f - 24)..(e + 24) : OffsetAt(z, t) = OffsetAt(z, f)
    BY <1>2, <2>3, <2>5, <2>6 DEF OffsetAt
  <2>8. NextRecurring(h, days, z, f) = e
    BY <2>2, <2>7, SteadySearch DEF O
  <2>9. QED
    BY <1>1, <2>3, <2>8
<1>5. QED
  BY <1>3, <1>4
=============================================================================

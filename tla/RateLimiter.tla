---------------------------- MODULE RateLimiter ----------------------------
(***************************************************************************)
(* The sliding-window limiter of the Resend strategy: one per process,     *)
(* shared by every try of every send.  A caller either takes a slot or     *)
(* sleeps until the oldest one expires; those who wake together compete,   *)
(* and nobody keeps their order.  One round of the loop of acquire() runs  *)
(* without an await in it and is one step here.                            *)
(*                                                                         *)
(* Time is counted in whole units, Window and Slack (1 s and 5 ms) in the same. *)
(***************************************************************************)
EXTENDS Naturals, Sequences

CONSTANTS
  Callers,       \* calls of acquire()
  MaxRequests,   \* slots in a window
  Window,        \* its length
  Slack,         \* added to a sleep
  Horizon        \* bound: the clock stops here

ASSUME LimiterAssumption ==
  /\ MaxRequests \in Nat \ {0}
  /\ Window \in Nat \ {0}
  /\ Slack \in Nat
  /\ Horizon \in Nat

VARIABLES
  now,           \* Date.now()
  timestamps,    \* the slots taken and not yet evicted, oldest first
  caller,        \* per caller: outside, asleep until a time, or let through
  grants,        \* history: when each slot was taken
  sleeps         \* history: how often each caller went to sleep

limiterVars == <<now, timestamps, caller, grants, sleeps>>

Outside == [state |-> "outside", until |-> 0]
Asleep(t) == [state |-> "asleep", until |-> t]
Through == [state |-> "through", until |-> 0]

LimiterInit ==
  /\ now = 0
  /\ timestamps = <<>>
  /\ caller = [c \in Callers |-> Outside]
  /\ grants = <<>>
  /\ sleeps = [c \in Callers |-> 0]

ExpiredEarly(t) == now - t >= Window - 1

\* A slot may be used again once its window is over.
Expired(t) == now - t >= Window

\* evictExpired: the slots after the first `gone`, which are the leading expired ones.
Evicted(gone) == SubSeq(timestamps, gone + 1, Len(timestamps))

Leading(gone) ==
  /\ \A i \in 1..gone : Expired(timestamps[i])
  /\ gone < Len(timestamps) => ~Expired(timestamps[gone + 1])

WakeAtStart(kept) == kept[1] + Slack

\* The sleep ends when the oldest slot has expired, and a little later.
WakeAt(kept) == kept[1] + Window + Slack

\* A caller enters, or its timer has fired.
Awake(c) ==
  \/ caller[c].state = "outside"
  \/ caller[c].state = "asleep" /\ caller[c].until <= now

Take(c, kept) ==
  /\ Len(kept) < MaxRequests
  /\ timestamps' = Append(kept, now)
  /\ grants' = Append(grants, now)
  /\ caller' = [caller EXCEPT ![c] = Through]
  /\ UNCHANGED sleeps

Sleep(c, kept) ==
  /\ Len(kept) >= MaxRequests
  /\ timestamps' = kept
  /\ caller' = [caller EXCEPT ![c] = Asleep(WakeAt(kept))]
  /\ sleeps' = [sleeps EXCEPT ![c] = @ + 1]
  /\ UNCHANGED grants

Acquire(c) ==
  /\ Awake(c)
  /\ \E gone \in 0..Len(timestamps) :
       /\ Leading(gone)
       /\ Take(c, Evicted(gone)) \/ Sleep(c, Evicted(gone))
  /\ UNCHANGED now

\* Timers fire when they are due or later: the clock waits for nobody.
Tick ==
  /\ now < Horizon
  /\ now' = now + 1
  /\ UNCHANGED <<timestamps, caller, grants, sleeps>>

LimiterNext == Tick \/ \E c \in Callers : Acquire(c)

LimiterSpec == LimiterInit /\ [][LimiterNext]_limiterVars

-----------------------------------------------------------------------------
\* Types; no more slots are remembered than a window has.
LimiterTypeOK ==
  /\ now \in Nat
  /\ timestamps \in Seq(Nat)
  /\ Len(timestamps) <= MaxRequests
  /\ caller \in [Callers -> [state : {"outside", "asleep", "through"}, until : Nat]]
  /\ grants \in Seq(Nat)
  /\ sleeps \in [Callers -> Nat]

\* No window, wherever it begins, lets more than MaxRequests callers through, although
\* the limiter forgets slots, and only when somebody calls.
WindowBounded ==
  \A i \in 1..Len(grants) :
    i + MaxRequests <= Len(grants) => grants[i + MaxRequests] >= grants[i] + Window

\* Nobody sleeps in vain: each further sleep of a caller is paid for by a slot that
\* somebody else took meanwhile, so that finitely many callers starve nobody.
StarvationBounded ==
  \A c \in Callers : sleeps[c] > 0 => sleeps[c] + MaxRequests <= Len(grants) + 1

=============================================================================

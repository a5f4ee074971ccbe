--------------------------- MODULE WarmupPairing ---------------------------
(***************************************************************************)
(* Which sender warms up which: the senders of each user are shuffled into *)
(* a ring, and each writes to the next.                                    *)
(***************************************************************************)
EXTENDS Naturals, Sequences, FiniteSets

\* Elements i and j of a sequence, counted from 1, change places.
Swapped(a, i, j) == [a EXCEPT ![i] = a[j], ![j] = a[i]]

DrawsAny(n) == [2..n -> 1..n]

\* For each position but the first, from the last down: the position it is swapped with.
Draws(n) == {f \in [2..n -> 1..n] : \A i \in 2..n : f[i] <= i}

\* The loop of shuffle: the array before the step at position i.
Shuffle(a, draw) ==
  LET n == Len(a)
      before[i \in 1..n] ==
        IF i = n THEN a ELSE Swapped(before[i + 1], i + 1, draw[i + 1])
  IN IF n = 0 THEN a ELSE before[1]

\* The group of a user, in the order the senders came in: the array after the first i.
Group(active, user) ==
  LET list[i \in 0..Len(active)] ==
        IF i = 0 THEN <<>>
        ELSE IF active[i].user = user THEN Append(list[i - 1], active[i])
        ELSE list[i - 1]
  IN list[Len(active)]

ReceiverNext(ring, i) == ring[i]

\* Receivers: the next in the ring, or the one after it if that is the sender itself.
Receiver(ring, i) ==
  LET n == Len(ring)
      next == ring[(i % n) + 1]
  IN IF next.id = ring[i].id THEN ring[((i + 1) % n) + 1] ELSE next

RingPairs(ring) ==
  IF Len(ring) < 2 THEN <<>>
  ELSE [i \in 1..Len(ring) |-> [sender |-> ring[i], receiver |-> Receiver(ring, i)]]

\* The pairs of one user, for the draws made for its group.
BuildPairs(active, user, draw) == RingPairs(Shuffle(Group(active, user), draw))

-----------------------------------------------------------------------------
\* Each sender of a user who has two or more writes once and is written to once, never to
\* itself and never across users; a user with one sender has no pair.
PairsAreFair(active, user, draw) ==
  LET mine == {active[i] : i \in {k \in DOMAIN active : active[k].user = user}}
      pairs == BuildPairs(active, user, draw)
      once(side(_)) ==
        \A s \in mine : Cardinality({i \in DOMAIN pairs : side(pairs[i]) = s}) = 1
  IN IF Cardinality(mine) < 2 THEN pairs = <<>>
     ELSE /\ once(LAMBDA p : p.sender) /\ once(LAMBDA p : p.receiver)
          /\ \A i \in DOMAIN pairs : /\ pairs[i].sender # pairs[i].receiver
                                     /\ {pairs[i].sender, pairs[i].receiver} \subseteq mine

\* The shuffle leaves out no order and makes none twice: all are as likely.
ShuffleIsUniform(a) ==
  /\ Cardinality({Shuffle(a, draw) : draw \in Draws(Len(a))}) = Cardinality(Draws(Len(a)))
  /\ \A draw \in Draws(Len(a)) :
       {Shuffle(a, draw)[i] : i \in DOMAIN a} = {a[i] : i \in DOMAIN a}
=============================================================================

------------------------------ MODULE ReplyLog ------------------------------
(***************************************************************************)
(* What webhook ingestion promises of replies, without handlers, lookups   *)
(* or lead statuses: under each deduplication key one reply is kept, for   *)
(* one lead, until that lead is deleted.                                   *)
(***************************************************************************)
CONSTANTS Keys, Leads

VARIABLE kept  (* Pairs of a key and the lead whose reply it is.           *)

Init == kept = {}

Keep(k, l) ==
  /\ \A m \in Leads: <<k, m>> \notin kept
  /\ kept' = kept \cup {<<k, l>>}

Forget(l) == kept' = {p \in kept: p[2] # l}

Next ==
  \/ \E k \in Keys, l \in Leads: Keep(k, l)
  \/ \E l \in Leads: Forget(l)

Spec == Init /\ [][Next]_kept
=============================================================================

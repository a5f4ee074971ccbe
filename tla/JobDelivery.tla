----------------------------- MODULE JobDelivery -----------------------------
(***************************************************************************)
(* What the dispatch queue promises of a job, without workers, locks,      *)
(* quota or database: tries to hand it to the mail provider begin only     *)
(* while it is pending, a bounded number of them; it settles at most once; *)
(* and it is done only if it was handed over or declined for lack of       *)
(* quota. It does not promise that a settled job is at rest: a try that    *)
(* was given up may hand the mail over at any later time.                  *)
(***************************************************************************)
EXTENDS Naturals

CONSTANTS Jobs, MaxHandovers

VARIABLES
  phase,     (* Job -> "absent", "pending", "done" or "failed".            *)
  copies,    (* Job -> mails handed over.                                  *)
  open,      (* Job -> tries given up that may still hand over.            *)
  declined   (* Jobs a worker declined to send at least once.              *)

vars == <<phase, copies, open, declined>>

Init ==
  /\ phase = [j \in Jobs |-> "absent"]
  /\ copies = [j \in Jobs |-> 0]
  /\ open = [j \in Jobs |-> 0]
  /\ declined = {}

Enqueue(S) ==
  /\ S # {}
  /\ \A j \in S: phase[j] = "absent"
  /\ phase' = [j \in Jobs |-> IF j \in S THEN "pending" ELSE phase[j]]
  /\ UNCHANGED <<copies, open, declined>>

\* Of some tries, n hand the mail over at once and k are given up.
HandOver(j, n, k) ==
  /\ phase[j] = "pending"
  /\ copies[j] + open[j] + n + k <= MaxHandovers
  /\ copies' = [copies EXCEPT ![j] = @ + n]
  /\ open' = [open EXCEPT ![j] = @ + k]
  /\ UNCHANGED <<phase, declined>>

HandOverLate(j) ==
  /\ open[j] > 0
  /\ copies' = [copies EXCEPT ![j] = @ + 1]
  /\ open' = [open EXCEPT ![j] = @ - 1]
  /\ UNCHANGED <<phase, declined>>

Decline(j) ==
  /\ phase[j] = "pending"
  /\ declined' = declined \cup {j}
  /\ UNCHANGED <<phase, copies, open>>

Settle(j) ==
  /\ phase[j] = "pending"
  /\ \/ /\ copies[j] > 0 \/ j \in declined
        /\ phase' = [phase EXCEPT ![j] = "done"]
     \/ phase' = [phase EXCEPT ![j] = "failed"]
  /\ UNCHANGED <<copies, open, declined>>

Next ==
  \/ \E S \in SUBSET Jobs: Enqueue(S)
  \/ \E j \in Jobs:
       \/ \E n, k \in 0..MaxHandovers: HandOver(j, n, k)
       \/ HandOverLate(j) \/ Decline(j) \/ Settle(j)

Spec == Init /\ [][Next]_vars
=============================================================================

----------------------------- MODULE MCDispatch -----------------------------
(***************************************************************************)
(* Instances of Dispatch for TLC: two workers, one or two jobs to one      *)
(* mailbox.                                                                *)
(* Job j1 carries an emailId (a lead row), j2 does not.                    *)
(***************************************************************************)
EXTENDS Dispatch, TLC

CONSTANTS w1, w2, s1, s2, a1, l1, j1, j2

\* s1 and s2 are successive rows for the same mailbox address.
MCAddressOf == [s \in Senders |-> a1]
MCJobAddress == [j \in Jobs |-> a1]
MCJobLead == [j \in Jobs |-> IF j = j1 THEN l1 ELSE NoLead]

Symmetry == Permutations(Workers)
=============================================================================

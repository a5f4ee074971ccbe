---------------------------- MODULE MailContract ----------------------------
(***************************************************************************)
(* What a call of provider.send() promises its caller: one answer, a       *)
(* success only after the provider took the mail, and no more copies of    *)
(* the mail than tries.  It does not promise that a failed send handed     *)
(* nothing over, nor that no copy is handed over after the answer.         *)
(***************************************************************************)
EXTENDS Naturals

CONSTANTS Sends, MaxTries

VARIABLES
  called,    \* the sends that were asked for
  answer,    \* none, ok or failed
  copies     \* the tries whose mail the provider took

Init ==
  /\ called = {}
  /\ answer = [s \in Sends |-> "none"]
  /\ copies = [s \in Sends |-> {}]

\* A call may fail at once: no provider has that name.
Ask(s) ==
  /\ s \notin called
  /\ called' = called \cup {s}
  /\ \E a \in {"none", "failed"} : answer' = [answer EXCEPT ![s] = a]
  /\ UNCHANGED copies

TakeCopy(s) ==
  /\ s \in called
  /\ \E n \in (1..MaxTries) \ copies[s] : copies' = [copies EXCEPT ![s] = @ \cup {n}]
  /\ UNCHANGED <<called, answer>>

Answer(s) ==
  /\ s \in called
  /\ answer[s] = "none"
  /\ \E a \in {"ok", "failed"} :
       /\ a = "ok" => copies[s] # {}
       /\ answer' = [answer EXCEPT ![s] = a]
  /\ UNCHANGED <<called, copies>>

Next == \E s \in Sends : Ask(s) \/ TakeCopy(s) \/ Answer(s)

Spec == Init /\ [][Next]_<<called, answer, copies>>
=============================================================================

----------------------------- MODULE EmailSend -----------------------------
(***************************************************************************)
(* What happens inside one call of provider.send(): retry around a circuit *)
(* breaker around a timeout around a strategy.  The breaker is one per     *)
(* provider and process, so the sends of all senders share it, one after   *)
(* another: a worker has one job at a time.                                *)
(*                                                                         *)
(* The timeout is aggressive: it answers the try and leaves the strategy   *)
(* running, which may still be waiting for the rate limiter and hand its   *)
(* mail over long after the send was answered.  Timers are not counted     *)
(* here: a try may time out, and an open breaker cool down, at any moment. *)
(* The waiting of RateLimiter appears as the phase "waiting", left at any  *)
(* moment, in the order nobody promises.                                   *)
(***************************************************************************)
EXTENDS Naturals, Sequences

CONSTANTS
  Sends,         \* calls of send() in one process
  Names,         \* what the `provider` of a sender may say
  MaxTries,      \* maxAttempts + 1
  Threshold      \* of ConsecutiveBreaker

ASSUME EmailSendAssumption ==
  MaxTries \in Nat \ {0} /\ Threshold \in Nat \ {0}

VARIABLES
  provider,      \* the provider these sends resolve to
  configured,    \* whether its keys are in the environment
  breaker,       \* the state of its breaker and the failures in a row it counts
  send,          \* per send: its phase and the number of its try
  tries,         \* per send and try: how far the strategy has come
  recent         \* history: the last Threshold outcomes the closed breaker saw

mailVars == <<provider, configured, breaker, send, tries, recent>>

\* What the strategies do with an answer.  A strategy that is not built throws.
Resend == [built |-> TRUE, limited |-> TRUE, checksId |-> TRUE, ownId |-> FALSE]
ZapmailUnchecked == [built |-> TRUE, limited |-> FALSE, checksId |-> FALSE, ownId |-> FALSE]
Zapmail == [built |-> TRUE, limited |-> FALSE, checksId |-> TRUE, ownId |-> FALSE]
Smtp == [built |-> TRUE, limited |-> FALSE, checksId |-> FALSE, ownId |-> TRUE]
Ses == [built |-> TRUE, limited |-> FALSE, checksId |-> TRUE, ownId |-> FALSE]
Mailgun == [built |-> TRUE, limited |-> FALSE, checksId |-> TRUE, ownId |-> FALSE]
Google == [built |-> FALSE, limited |-> FALSE, checksId |-> FALSE, ownId |-> FALSE]
Outlook == Google

\* The registry: seven names, each with a strategy and a breaker of its own.
Registry == [resend |-> Resend, zapmail |-> Zapmail, smtp |-> Smtp, google |-> Google,
             ses |-> Ses, mailgun |-> Mailgun, outlook |-> Outlook]

Known == provider \in DOMAIN Registry
Strategy == Registry[provider]

Closed == "closed"
Open == "open"        \* for less than 30 s
Cooled == "cooled"    \* open, and the next call is a test
HalfOpen == "halfOpen"

NewTries == [n \in 1..MaxTries |-> "none"]

MailInit ==
  /\ provider \in Names
  /\ configured \in BOOLEAN
  /\ breaker = [state |-> Closed, failures |-> 0]
  /\ send = [s \in Sends |-> [phase |-> "idle", try |-> 1, test |-> FALSE]]
  /\ tries = [s \in Sends |-> NewTries]
  /\ recent = <<>>

-----------------------------------------------------------------------------
\* The breaker, as cockatiel implements it: a test that succeeds closes it, one that fails
\* opens it again and does not count.
SucceededKeepsCount(b, test) ==
  [state |-> IF test THEN Closed ELSE b.state, failures |-> b.failures]

Succeeded(b, test) == [state |-> IF test THEN Closed ELSE b.state, failures |-> 0]

FailedLate(b, test) ==
  LET count == IF test THEN b.failures ELSE b.failures + 1
  IN [state |-> IF test \/ count > Threshold THEN Open ELSE b.state, failures |-> count]

Failed(b, test) ==
  LET count == IF test THEN b.failures ELSE b.failures + 1
  IN [state |-> IF test \/ count >= Threshold THEN Open ELSE b.state, failures |-> count]

Remember(outcome) ==
  LET all == Append(recent, outcome)
  IN IF Len(all) > Threshold THEN Tail(all) ELSE all

AfterFailureAgain(n) == "ready"

\* The phase after the failure of try n: retry answers with a new one, or gives up.
AfterFailure(n) == IF n < MaxTries THEN "ready" ELSE "failed"

Retry(s) ==
  LET n == send[s].try
  IN send' = [send EXCEPT ![s] = [phase |-> AfterFailure(n), test |-> FALSE,
                                  try |-> IF n < MaxTries THEN n + 1 ELSE n]]

\* Try n of s has failed in the eyes of the policies.
Fails(s) ==
  /\ breaker' = Failed(breaker, send[s].test)
  /\ recent' = IF send[s].test THEN recent ELSE Remember("failure")
  /\ Retry(s)

\* The try, and the send, are not answered yet.
Waiting(s) == send[s].phase = "trying"
UnderWay(s) == send[s].phase \in {"ready", "trying"}

Reach(s, n, stage) == tries' = [tries EXCEPT ![s][n] = stage]

-----------------------------------------------------------------------------
\* send() is called, by a worker whose last one was answered: the registry knows the
\* provider, or throws.
Call(s) ==
  /\ send[s].phase = "idle"
  /\ \A other \in Sends : ~UnderWay(other)
  /\ send' = [send EXCEPT ![s].phase = IF Known THEN "ready" ELSE "failed"]
  /\ UNCHANGED <<provider, configured, breaker, tries, recent>>

\* The breaker lets a try begin.  The first one after the cool-down is a test.
Try(s) ==
  /\ send[s].phase = "ready"
  /\ breaker.state \in {Closed, Cooled}
  /\ send' = [send EXCEPT ![s].phase = "trying", ![s].test = breaker.state = Cooled]
  /\ breaker' = IF breaker.state = Cooled THEN [breaker EXCEPT !.state = HalfOpen] ELSE breaker
  /\ Reach(s, send[s].try, "waiting")
  /\ UNCHANGED <<provider, configured, recent>>

\* An open breaker refuses the try, and retry counts that as a failure.
Refuse(s) ==
  /\ send[s].phase = "ready"
  /\ breaker.state = Open
  /\ Retry(s)
  /\ UNCHANGED <<provider, configured, breaker, tries, recent>>

CoolDown ==
  /\ breaker.state = Open
  /\ breaker' = [breaker EXCEPT !.state = Cooled]
  /\ UNCHANGED <<provider, configured, send, tries, recent>>

\* Without keys, or without an implementation, the strategy throws before any request.
ThrowEarly(s) ==
  /\ Waiting(s)
  /\ tries[s][send[s].try] = "waiting"
  /\ ~Strategy.built \/ ~configured
  /\ Reach(s, send[s].try, "rejected")
  /\ Fails(s)
  /\ UNCHANGED <<provider, configured>>

\* The request goes out, after the limiter if there is one.  Neither asks whether the
\* try was given up meanwhile.
Request(s, n) ==
  /\ tries[s][n] = "waiting"
  /\ Strategy.built /\ configured
  /\ Reach(s, n, "called")
  /\ UNCHANGED <<provider, configured, breaker, send, recent>>

\* The provider takes the mail, or does not.
Accept(s, n) ==
  /\ tries[s][n] = "called"
  /\ Reach(s, n, "accepted")
  /\ UNCHANGED <<provider, configured, breaker, send, recent>>

TakenOrCalled(s) == tries[s][send[s].try] \in {"called", "accepted"}

\* The provider took the mail, and what it answers is a success or an error.
Taken(s) == tries[s][send[s].try] = "accepted"

Succeeds(s, id) ==
  /\ breaker' = Succeeded(breaker, send[s].test)
  /\ recent' = IF send[s].test THEN recent ELSE Remember("success")
  /\ send' = [send EXCEPT ![s].phase = IF id THEN "ok" ELSE "okNoId", ![s].test = FALSE]

\* A success carries the id of the mail or not, except that SMTP's library makes the id
\* itself.  The strategies that look for the id turn a missing one into an error.
AnswerSuccess(s) ==
  /\ Waiting(s)
  /\ Taken(s)
  /\ \E id \in BOOLEAN :
       /\ Strategy.ownId => id
       /\ IF id \/ ~Strategy.checksId THEN Succeeds(s, id) ELSE Fails(s)
  /\ UNCHANGED <<provider, configured, tries>>

\* Status 400 or above, or a broken connection, behind which the provider may have taken
\* the mail, or take it yet.
AnswerError(s) ==
  /\ Waiting(s)
  /\ \/ /\ tries[s][send[s].try] = "called"
        /\ Reach(s, send[s].try, "rejected")
     \/ /\ tries[s][send[s].try] \in {"called", "accepted"}
        /\ UNCHANGED tries
  /\ Fails(s)
  /\ UNCHANGED <<provider, configured>>

\* 15 s are over: the try is answered, the strategy runs on.
TimeOut(s) ==
  /\ Waiting(s)
  /\ Fails(s)
  /\ UNCHANGED <<provider, configured, tries>>

Step(s) ==
  \/ Call(s) \/ Try(s) \/ Refuse(s) \/ ThrowEarly(s)
  \/ AnswerSuccess(s) \/ AnswerError(s) \/ TimeOut(s)
  \/ \E n \in 1..MaxTries : Request(s, n) \/ Accept(s, n)

MailNext == CoolDown \/ \E s \in Sends : Step(s)

\* The retry's timers and the timeout fire; neither the provider nor time owes anything.
MailFairness ==
  \A s \in Sends : WF_mailVars(Try(s)) /\ WF_mailVars(Refuse(s)) /\ WF_mailVars(TimeOut(s))

MailSpec == MailInit /\ [][MailNext]_mailVars /\ MailFairness

-----------------------------------------------------------------------------
Phases == {"idle", "ready", "trying", "ok", "okNoId", "failed"}
Answered(s) == send[s].phase \in {"ok", "okNoId", "failed"}

\* Types; the count of failures stays below the threshold while the breaker is closed.
MailTypeOK ==
  /\ provider \in Names
  /\ configured \in BOOLEAN
  /\ breaker \in [state : {Closed, Open, Cooled, HalfOpen}, failures : 0..Threshold]
  /\ breaker.state = Closed => breaker.failures < Threshold
  /\ send \in [Sends -> [phase : Phases, try : 1..MaxTries, test : BOOLEAN]]
  /\ tries \in [Sends -> [1..MaxTries -> {"none", "waiting", "called", "accepted", "rejected"}]]
  /\ recent \in Seq({"success", "failure"})

\* A send that is answered with success has handed a mail over in its last try and has
\* the provider's id of it, without which later webhook events find nothing.
OkIsTraceable ==
  \A s \in Sends :
    /\ send[s].phase = "ok" => Taken(s)
    /\ send[s].phase # "okNoId"

\* A closed breaker opens only on Threshold failures in a row, whoever's sends they were:
\* one success between them, of any send, starts the count again, and so does a test.
OpensOnlyOnStreak ==
  [][(breaker.state = Closed /\ breaker'.state = Open)
       => recent' = [i \in 1..Threshold |-> "failure"]]_mailVars

\* Every send is answered, even if the provider never answers and the failures of earlier
\* sends keep the breaker open.
SendsAnswered == \A s \in Sends : (send[s].phase # "idle") ~> Answered(s)

\* What the caller sees of a send.
AnswerOf(s) ==
  IF send[s].phase = "failed" THEN "failed" ELSE IF Answered(s) THEN "ok" ELSE "none"
CopiesOf(s) == {n \in 1..MaxTries : tries[s][n] = "accepted"}

CalledSends == {s \in Sends : send[s].phase # "idle"}
AnswersGiven == [s \in Sends |-> AnswerOf(s)]
CopiesTaken == [s \in Sends |-> CopiesOf(s)]

\* What the worker that sends may rely on: one answer, a success only for a mail that was
\* taken, and no more copies than tries, those handed over after the answer included.
Contract == INSTANCE MailContract WITH
  called <- CalledSends, answer <- AnswersGiven, copies <- CopiesTaken

ImplementsMailContract == Contract!Spec

=============================================================================

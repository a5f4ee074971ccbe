--------------------------- MODULE WebhookIntake ---------------------------
(***************************************************************************)
(* What becomes of a notification before it is ingested: the verification  *)
(* of its signature, the parser of its provider, and the status that the   *)
(* provider gets, by which it decides whether to deliver it again.         *)
(*                                                                         *)
(* A notification is its provider, whether a secret is configured for it,  *)
(* what its headers prove (a signature over the body, one over a time      *)
(* stamp and the body, the secret itself, nothing, or something wrong),    *)
(* the age of the stamp in seconds when it arrives, and its body.          *)
(***************************************************************************)
EXTENDS Integers

CONSTANT None      \* no provider, no header, no event, no id

ASSUME NoneAssumption == None \notin {"resend", "smartlead", "zapmail", "unipile"}

ToleranceSec == 300

Age(a) == IF a < 0 THEN -a ELSE a

\* The stamp is part of what is signed, and old ones are refused, as are those ahead.
StampedStrict(n) == n.proof = "stamped" /\ Age(n.age) < ToleranceSec
Stamped(n) == n.proof = "stamped" /\ Age(n.age) <= ToleranceSec

\* verifyHmacSignature.
Signed(n) == n.proof = "body" \/ Stamped(n)

VerifiedBySignature(n) == ~n.secret \/ Signed(n)

\* verifySignature; Unipile's handler knows no secret header. Without a secret in the
\* environment, which only WEBHOOK_HMAC_SECRET must be, nothing is verified.
Verified(n) ==
  \/ ~n.secret
  \/ Signed(n)
  \/ n.proof = "header" /\ n.provider # "unipile"

-----------------------------------------------------------------------------
ResendType == [sent |-> "sent", delivered |-> "delivered", bounced |-> "bounced",
               opened |-> "opened"]
SmartLeadType == [EMAIL_SENT |-> "sent", EMAIL_BOUNCE |-> "bounced",
                  EMAIL_OPEN |-> "opened", EMAIL_REPLY |-> "replied"]

Normalized(type, id, dated) == [type |-> type, id |-> id, dated |-> dated]

\* What a parser gives: an event, no event, or an exception that answers with a status.
Given(event) == [status |-> 200, event |-> event]
Thrown(status) == [status |-> status, event |-> None]

\* Resend's `to` may be an empty array, of which the address is then extracted.
ResendParse(body) ==
  CASE ~body.fits -> Thrown(422)
    [] body.fits /\ body.type \notin DOMAIN ResendType -> Given(None)
    [] OTHER -> IF body.noRecipient THEN Thrown(500)
                ELSE Given(Normalized(ResendType[body.type], body.id, body.dated))

\* The id of a reply, else of the mail it is about, else the type and the recipient.
SmartLeadId(body) ==
  IF body.replyId # None THEN body.replyId
  ELSE IF body.id # None THEN body.id ELSE <<body.type, body.to>>

\* The time is any string: one that is no date becomes an invalid one, and an absent one
\* the time of arrival.
SmartLeadParse(body) ==
  IF body.fits /\ body.type \in DOMAIN SmartLeadType
  THEN Given(Normalized(SmartLeadType[body.type], SmartLeadId(body), body.dated))
  ELSE Thrown(422)

\* A stub.
ZapmailParse(body) == Given(None)

Parse(n) ==
  CASE n.provider = "resend" -> ResendParse(n.body)
    [] n.provider = "smartlead" -> SmartLeadParse(n.body)
    [] OTHER -> ZapmailParse(n.body)

\* emailEvents, and unipileWebhook, which only logs.
EmailEvents(n) ==
  CASE n.provider = None -> Thrown(400)
    [] n.provider # None /\ ~Verified(n) -> Thrown(403)
    [] OTHER -> Parse(n)

\* What the ingestion makes of it: a reply that is new and finds its lead, but whose date
\* is invalid, is an error each time.
Outcome(n) ==
  LET result == EmailEvents(n)
  IN IF result.event # None /\ result.event.type = "replied" /\ ~result.event.dated
     THEN Thrown(500) ELSE result

-----------------------------------------------------------------------------
\* A provider that repeats what was not answered with 200 is told the same again, but for
\* one case: what is signed with a stamp may be delivered too early, by a clock ahead of
\* ours, and is refused for good more than five minutes after the stamp, so that an event
\* which meets an outage longer than that is lost unless each delivery is stamped anew.
RepeatsAnswerAlike(n, later) ==
  LET again == [n EXCEPT !.age = @ + later]
  IN Outcome(again) # Outcome(n) =>
       /\ n.secret /\ n.proof = "stamped" /\ n.provider # None
       /\ n.age < -ToleranceSec \/ n.age + later > ToleranceSec

Genuine(n) ==
  \/ n.proof \in {"body", "header"}
  \/ n.proof = "stamped" /\ n.age \in (-ToleranceSec)..ToleranceSec

\* A genuine notification that fits the schema of its provider is answered with 200, with
\* or without a secret in the environment, so that it is not delivered again; except that
\* Resend may name no recipient and SmartLead, in a reply, a time that is no date: those
\* are internal errors at each delivery, and the event is lost.
GenuineEventsAreTaken(n) ==
  (Genuine(n) /\ n.provider \in {"resend", "smartlead"} /\ n.body.fits) =>
    \/ Outcome(n).status = 200
    \/ n.provider = "resend" /\ n.body.noRecipient
    \/ n.provider = "smartlead" /\ n.body.type = "EMAIL_REPLY" /\ ~n.body.dated
=============================================================================

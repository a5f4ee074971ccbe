------------------------------ MODULE ApiProofs ------------------------------
(***************************************************************************)
(* Rows and messages stay within their tenant, for any number of users,    *)
(* rows and requests.  The write names a row by its id alone; what makes   *)
(* it safe is that a request which passed the look-up is its owner's, and  *)
(* that the owner of a row never changes.                                  *)
(* Of several requests for a row, one deletes it, and internal errors are  *)
(* those that the races, the constraints, and bodies that their schemas    *)
(* let through explain.                                                    *)
(* Last, the one entry without a caller: what a webhook answers, of any    *)
(* notification over any names.                                            *)
(***************************************************************************)
EXTENDS Api, WebhookIntake, TLAPS

Ops == {"list", "get", "create", "update", "delete", "send"}
Handlers == UNION {Controllers[t] : t \in DOMAIN Controllers}
Asks == [handler : Handlers, caller : Users \cup {Nobody}, id : Ids \cup {Gone},
         key : Keys \cup {Gone}, fit : {"fits", "badId", "badBody", "unfit"}]
Slots == {NoRequest} \cup [phase : {"update", "delete", "send", "message", "done"}, ask : Asks]

Typed ==
  /\ table \in DOMAIN Controllers
  /\ rows \in [Ids -> Keys \cup {Gone}]
  /\ request \in [Requests -> Slots]
  /\ answer \in [Requests -> {0, 200, 201, 202, 204, 400, 401, 404, 500, 502}]
  /\ sent \in SUBSET Requests

Owned(r) == request[r].ask.caller = OwnerOf[request[r].ask.id]

\* What a request is that has passed the look-up.
Admitted ==
  \A r \in Requests :
    request[r].phase \in {"update", "delete", "send", "message"}
      => Owned(r) /\ Authenticated(request[r].ask) /\ request[r].ask.id \in Ids
         /\ request[r].ask.handler.op
              = (IF request[r].phase = "message" THEN "send" ELSE request[r].phase)

SentIsOwned ==
  \A r \in sent : request[r].phase = "done" /\ Owned(r)

ApiInv == Typed /\ Admitted /\ SentIsOwned /\ ForeignRowsLookAbsent /\ CreatesAreRefused

\* The handlers of all controllers: a schema of a create handler is applied to the user.
LEMMA HandlersFit ==
  \A h \in Handlers :
    /\ h.op \in Ops
    /\ h.success \in {200, 201, 202, 204}
    /\ h.op = "create" => "user" \in h.schema
<1> SUFFICES ASSUME NEW t \in DOMAIN Controllers, NEW h \in Controllers[t]
             PROVE  /\ h.op \in Ops
                    /\ h.success \in {200, 201, 202, 204}
                    /\ h.op = "create" => "user" \in h.schema
  BY DEF Handlers
<1> USE DEF Ops, Handler, Edits, Reads
<1>1. CASE t = "leads" BY <1>1 DEF Controllers, LeadsController
<1>2. CASE t = "templates" BY <1>2 DEF Controllers, TemplatesController
<1>3. CASE t = "senders" BY <1>3 DEF Controllers, SendersController
<1>4. CASE t = "schedules" BY <1>4 DEF Controllers, SchedulesController
<1>5. CASE t = "dispatch" BY <1>5 DEF Controllers, DispatchController
<1>6. CASE t = "inbox" BY <1>6 DEF Controllers, InboxController
<1>7. CASE t = "analytics" BY <1>7 DEF Controllers, AnalyticsController
<1>8. CASE t = "auth" BY <1>8 DEF Controllers, AuthController
<1>9. CASE t = "search" BY <1>9 DEF Controllers, SearchController
<1>10. CASE t = "linkedin" BY <1>10 DEF Controllers, LinkedInController
<1> QED BY <1>1, <1>2, <1>3, <1>4, <1>5, <1>6, <1>7, <1>8, <1>9, <1>10 DEF Controllers

\* No create passes the pipes.
LEMMA CreatesFail ==
  ASSUME NEW ask \in Asks, ask.handler.op = "create" PROVE ~Parsed(ask)
<1>1. "user" \in ask.handler.schema BY HandlersFit DEF Asks
<1> QED BY <1>1 DEF Parsed, Passes

\* The statuses of what the API throws.
LEMMA Statuses ==
  /\ Filtered("Unauthorized") = 401 /\ Filtered("BadRequest") = 400
  /\ Filtered("NotFound") = 404 /\ Filtered("Prisma") = 500
  /\ Filtered("ExternalService") = 502 /\ Filtered("Network") = 500
BY DEF Filtered, DomainError, HttpException

LEMMA AsksFit ==
  ASSUME table \in DOMAIN Controllers,
         NEW h \in Controllers[table], NEW c \in Users \cup {Nobody},
         NEW i \in IdsOf(h), NEW k \in KeysOf(h), NEW f \in FitsOf(h)
  PROVE  Ask(h, c, i, k, f) \in Asks
<1>1. h \in Handlers BY DEF Handlers
<1>2. i \in Ids \cup {Gone} BY DEF IdsOf
<1>3. k \in Keys \cup {Gone} BY DEF KeysOf
<1>4. f \in {"fits", "badId", "badBody", "unfit"} BY DEF FitsOf
<1> QED BY <1>1, <1>2, <1>3, <1>4 DEF Ask, Asks

-----------------------------------------------------------------------------
\* What an answered request must be for the invariant to go on.
LEMMA Finish ==
  ASSUME ApiInv, NEW r \in Requests, NEW ask \in Asks,
         NEW status \in {200, 201, 202, 204, 400, 401, 404, 500, 502},
         request[r].phase # "done",
         table' = table,
         rows' \in [Ids -> Keys \cup {Gone}],
         Reply(r, status), Proceed(r, "done", ask),
         sent' \subseteq sent \cup {r},
         r \in sent' => ask.caller = OwnerOf[ask.id],
         (/\ ask.handler.op \in {"get", "update", "delete", "send"} /\ NamesARow(ask)
          /\ ask.caller # OwnerOf[ask.id])
           => status \in {400, 401, 404},
         ask.handler.op = "create" => status \in {400, 401}
  PROVE  ApiInv'
<1> USE DEF ApiInv, Reply, Proceed, Waits
<1>1. /\ request' \in [Requests -> Slots]
      /\ request'[r] = [phase |-> "done", ask |-> ask]
      /\ \A q \in Requests \ {r} : request'[q] = request[q] /\ answer'[q] = answer[q]
      /\ answer'[r] = status
  BY DEF Typed, Slots
<1>2. Typed'
  BY <1>1 DEF Typed
<1>3. Admitted'
  BY <1>1 DEF Admitted, Owned, Authenticated
<1>4. SentIsOwned'
  BY <1>1 DEF SentIsOwned, Owned, Typed
<1>5. ForeignRowsLookAbsent'
  <2> SUFFICES ASSUME NEW q \in Requests,
                      request'[q].phase = "done",
                      request'[q].ask.handler.op \in {"get", "update", "delete", "send"},
                      NamesARow(request'[q].ask),
                      request'[q].ask.caller # OwnerOf[request'[q].ask.id]
               PROVE  answer'[q] \in {400, 401, 404} /\ q \notin sent'
    BY DEF ForeignRowsLookAbsent, NamesARow
  <2>1. CASE q = r BY <1>1, <2>1
  <2>2. CASE q # r BY <1>1, <2>2 DEF ForeignRowsLookAbsent
  <2> QED BY <2>1, <2>2
<1>6. CreatesAreRefused'
  BY <1>1 DEF CreatesAreRefused, Done
<1> QED BY <1>2, <1>3, <1>4, <1>5, <1>6

\* A request that goes on: it was admitted, and has no answer yet.
LEMMA Continue ==
  ASSUME ApiInv, NEW r \in Requests, NEW ask \in Asks,
         NEW phase \in {"update", "delete", "send", "message"},
         request[r].phase # "done",
         UNCHANGED <<table, rows, answer, sent>>,
         Proceed(r, phase, ask),
         Authenticated(ask), ask.caller = OwnerOf[ask.id], ask.id \in Ids,
         ask.handler.op = (IF phase = "message" THEN "send" ELSE phase)
  PROVE  ApiInv'
<1> USE DEF ApiInv, Proceed, Waits
<1>1. /\ request' \in [Requests -> Slots]
      /\ request'[r] = [phase |-> phase, ask |-> ask]
      /\ \A q \in Requests \ {r} : request'[q] = request[q]
  BY DEF Typed, Slots
<1>2. Typed' BY <1>1 DEF Typed
<1>3. Admitted' BY <1>1 DEF Admitted, Owned, Authenticated
<1>4. SentIsOwned' BY <1>1 DEF SentIsOwned, Owned, Typed
<1>5. ForeignRowsLookAbsent' BY <1>1 DEF ForeignRowsLookAbsent
<1>6. CreatesAreRefused' BY <1>1 DEF CreatesAreRefused, Done
<1> QED BY <1>2, <1>3, <1>4, <1>5, <1>6

LEMMA InitApi == ApiInit => ApiInv
<1> SUFFICES ASSUME ApiInit PROVE ApiInv OBVIOUS
<1>1. \A r \in Requests : request[r] = NoRequest /\ answer[r] = 0
  BY DEF ApiInit
<1>2. NoRequest \in Slots /\ NoRequest.phase = "none"
  BY DEF Slots, NoRequest
<1>3. Typed BY <1>2 DEF ApiInit, Typed
<1> QED BY <1>1, <1>2, <1>3
        DEF ApiInit, ApiInv, Admitted, SentIsOwned, ForeignRowsLookAbsent, CreatesAreRefused, Done

LEMMA StepApi == ApiInv /\ [ApiNext]_apiVars => ApiInv'
<1> SUFFICES ASSUME ApiInv, [ApiNext]_apiVars PROVE ApiInv' OBVIOUS
<1> USE HandlersFit, Statuses
<1>1. ASSUME NEW r \in Requests, Arrive(r) PROVE ApiInv'
  <2>0. request[r].phase # "done" BY <1>1 DEF Arrive, NoRequest
  <2>1. PICK h \in Controllers[table], c \in Users \cup {Nobody} :
          \E i \in IdsOf(h), k \in KeysOf(h), f \in FitsOf(h) :
            LET ask == Ask(h, c, i, k, f)
            IN TurnAway(r, ask) \/ Query(r, ask) \/ LookUp(r, ask)
    BY <1>1 DEF Arrive
  <2>2. PICK i \in IdsOf(h), k \in KeysOf(h), f \in FitsOf(h) :
          LET ask == Ask(h, c, i, k, f)
          IN TurnAway(r, ask) \/ Query(r, ask) \/ LookUp(r, ask)
    BY <2>1
  <2> DEFINE ask == Ask(h, c, i, k, f)
  <2>3. ask \in Asks BY AsksFit DEF ApiInv, Typed
  <2>4. ask.handler \in Handlers BY <2>3 DEF Asks
  <2>5. UNCHANGED <<table, sent>> BY <1>1 DEF Arrive
  <2>6. r \notin sent BY <2>0 DEF ApiInv, SentIsOwned
  <2>7. rows \in [Ids -> Keys \cup {Gone}] BY DEF ApiInv, Typed
  <2> HIDE DEF ask
  <2>8. CASE TurnAway(r, ask)
    <3> DEFINE status == IF Authenticated(ask) THEN 400 ELSE 401
    <3>1. Reply(r, status) /\ Proceed(r, "done", ask) /\ rows' = rows
      BY <2>8 DEF TurnAway
    <3>2. status \in {400, 401} OBVIOUS
    <3> HIDE DEF status
    <3> QED BY <2>0, <2>3, <2>5, <2>6, <2>7, <3>1, <3>2, Finish
  <2>9. CASE Query(r, ask)
    <3>1. ask.handler.op = "list" BY <2>3, <2>9, CreatesFail DEF Query
    <3>2. PICK status \in {500, ask.handler.success} :
            Reply(r, status) /\ Proceed(r, "done", ask) /\ rows' = rows
      BY <2>9, <3>1 DEF Query
    <3> QED BY <2>0, <2>3, <2>4, <2>5, <2>6, <2>7, <3>1, <3>2, Finish
  <2>10. CASE LookUp(r, ask)
    <3>1. ask.handler.op \notin {"list", "create"} /\ rows' = rows
      BY <2>10 DEF LookUp
    <3>2. CASE Reply(r, 404) /\ Proceed(r, "done", ask)
      BY <2>0, <2>3, <2>5, <2>6, <2>7, <3>1, <3>2, Finish
    <3>5. CASE ~NamesARow(ask) /\ Reply(r, 500) /\ Proceed(r, "done", ask)
      BY <2>0, <2>3, <2>5, <2>6, <2>7, <3>1, <3>5, Finish
    <3>3. CASE /\ Found(ask) /\ ask.handler.op = "get"
               /\ Reply(r, ask.handler.success) /\ Proceed(r, "done", ask)
      <4>1. Reply(r, ask.handler.success) /\ Proceed(r, "done", ask)
        BY <3>3
      <4>2. ask.caller = OwnerOf[ask.id] BY <3>3 DEF Found
      <4> QED BY <2>0, <2>3, <2>4, <2>5, <2>6, <2>7, <3>1, <3>3, <4>1, <4>2, Finish
    <3>4. CASE /\ Found(ask) /\ ask.handler.op # "get"
               /\ UNCHANGED answer /\ Proceed(r, ask.handler.op, ask)
      <4>1. UNCHANGED answer /\ Proceed(r, ask.handler.op, ask)
        BY <3>4
      <4>2. ask.caller = OwnerOf[ask.id] BY <3>4 DEF Found
      <4>3. ask.handler.op \in {"update", "delete", "send"} BY <2>4, <3>1, <3>4 DEF Ops
      <4>4. ask.id \in Ids
        BY <2>3, <4>3 DEF ask, Ask, IdsOf
      <4>5. Authenticated(ask) BY <2>10 DEF LookUp
      <4> QED BY <2>0, <2>3, <2>5, <3>1, <4>1, <4>2, <4>3, <4>4, <4>5, Continue
    <3> QED BY <2>10, <3>2, <3>3, <3>4, <3>5 DEF LookUp
  <2> QED BY <2>2, <2>8, <2>9, <2>10 DEF ask
<1>2. ASSUME NEW r \in Requests, Update(r) \/ Delete(r) PROVE ApiInv'
  <2> DEFINE ask == request[r].ask
  <2>1. request[r].phase \in {"update", "delete"} BY <1>2 DEF Update, Delete
  <2>2. ask \in Asks BY <2>1 DEF ApiInv, Typed, Slots, NoRequest
  <2>3. ask.caller = OwnerOf[ask.id] /\ ask.id \in Ids /\ ask.handler.op = request[r].phase
    BY <2>1 DEF ApiInv, Admitted, Owned
  <2>4. r \notin sent BY <2>1 DEF ApiInv, SentIsOwned
  <2>5. ask.handler \in Handlers /\ ask.key \in Keys \cup {Gone} BY <2>2 DEF Asks
  <2>6. /\ rows' \in [Ids -> Keys \cup {Gone}]
        /\ UNCHANGED <<table, sent>>
        /\ Proceed(r, "done", ask)
        /\ Reply(r, 500) \/ Reply(r, ask.handler.success)
    BY <1>2, <2>5 DEF Update, Delete, ApiInv, Typed
  <2> HIDE DEF ask
  <2> QED BY <2>1, <2>2, <2>3, <2>4, <2>5, <2>6, Finish
<1>3. ASSUME NEW r \in Requests, Profile(r) PROVE ApiInv'
  <2> DEFINE ask == request[r].ask
  <2>1. request[r].phase = "send" /\ UNCHANGED <<table, rows, sent>> BY <1>3 DEF Profile
  <2>2. ask \in Asks BY <2>1 DEF ApiInv, Typed, Slots, NoRequest
  <2>3. /\ Authenticated(ask) /\ ask.caller = OwnerOf[ask.id] /\ ask.id \in Ids
        /\ ask.handler.op = "send"
    BY <2>1 DEF ApiInv, Admitted, Owned
  <2>4. \/ Reply(r, 502) /\ Proceed(r, "done", ask)
        \/ Reply(r, 500) /\ Proceed(r, "done", ask)
        \/ UNCHANGED answer /\ Proceed(r, "message", ask)
    BY <1>3 DEF Profile, CallErrors
  <2>5. rows \in [Ids -> Keys \cup {Gone}] /\ r \notin sent
    BY <2>1 DEF ApiInv, Typed, SentIsOwned
  <2> HIDE DEF ask
  <2>6. CASE Reply(r, 502) /\ Proceed(r, "done", ask)
    BY <2>1, <2>2, <2>3, <2>5, <2>6, Finish
  <2>7. CASE Reply(r, 500) /\ Proceed(r, "done", ask)
    BY <2>1, <2>2, <2>3, <2>5, <2>7, Finish
  <2>8. CASE UNCHANGED answer /\ Proceed(r, "message", ask)
    BY <2>1, <2>2, <2>3, <2>8, Continue
  <2> QED BY <2>4, <2>6, <2>7, <2>8
<1>4. ASSUME NEW r \in Requests, Message(r) PROVE ApiInv'
  <2> DEFINE ask == request[r].ask
  <2>1. request[r].phase = "message" /\ UNCHANGED <<table, rows>> BY <1>4 DEF Message
  <2>2. ask \in Asks BY <2>1 DEF ApiInv, Typed, Slots, NoRequest
  <2>3. ask.caller = OwnerOf[ask.id] /\ ask.handler.op = "send"
    BY <2>1 DEF ApiInv, Admitted, Owned
  <2>4. ask.handler.success \in {200, 201, 202, 204} BY <2>2 DEF Asks
  <2>5. /\ Proceed(r, "done", ask)
        /\ sent' \subseteq sent \cup {r}
        /\ Reply(r, 500) \/ Reply(r, 502) \/ Reply(r, ask.handler.success)
    BY <1>4 DEF Message, CallErrors
  <2>6. rows' \in [Ids -> Keys \cup {Gone}] BY <2>1 DEF ApiInv, Typed
  <2> HIDE DEF ask
  <2> QED BY <2>1, <2>2, <2>3, <2>4, <2>5, <2>6, Finish
<1>5. CASE UNCHANGED apiVars
  BY <1>5 DEF apiVars, ApiInv, Typed, Admitted, Owned, Authenticated, SentIsOwned,
              ForeignRowsLookAbsent,
              CreatesAreRefused, Done
<1> QED BY <1>1, <1>2, <1>3, <1>4, <1>5 DEF ApiNext

LEMMA ApiInvariant == ApiSpec => []ApiInv
BY InitApi, StepApi, PTL DEF ApiSpec

-----------------------------------------------------------------------------
\* To anybody but its owner a row looks absent (getById and the account look-up of the
\* LinkedIn controller), whatever its owner does meanwhile.
THEOREM ForeignRowsStayHidden == ApiSpec => []ForeignRowsLookAbsent
<1>1. ApiInv => ForeignRowsLookAbsent BY DEF ApiInv
<1> QED BY <1>1, ApiInvariant, PTL

\* No create is accepted, by any controller: ZodValidationPipe refuses the AuthUser.
THEOREM CreatesStayRefused == ApiSpec => []CreatesAreRefused
<1>1. ApiInv => CreatesAreRefused BY DEF ApiInv
<1> QED BY <1>1, ApiInvariant, PTL

\* A row changes or goes only by a request of its owner, although repository.update and
\* repository.delete name it by its id alone.
THEOREM RowsStayWithOwners == ApiSpec => OwnRowsOnly
<1> DEFINE Own == \A i \in Ids : rows'[i] # rows[i] =>
                    \E r \in Requests :
                      /\ request[r].phase \in {"update", "delete"}
                      /\ request[r].ask.id = i
                      /\ request[r].ask.caller = OwnerOf[i]
                      /\ answer'[r] = request[r].ask.handler.success
<1>1. ApiInv /\ [ApiNext]_apiVars => [Own]_apiVars
  <2> SUFFICES ASSUME ApiInv, [ApiNext]_apiVars, NEW i \in Ids, rows'[i] # rows[i]
               PROVE  \E r \in Requests :
                        /\ request[r].phase \in {"update", "delete"}
                        /\ request[r].ask.id = i
                        /\ request[r].ask.caller = OwnerOf[i]
                        /\ answer'[r] = request[r].ask.handler.success
    OBVIOUS
  <2>1. ASSUME NEW r \in Requests, Arrive(r) PROVE FALSE
    <3>1. PICK h \in Controllers[table], c \in Users \cup {Nobody} :
            \E j \in IdsOf(h), k \in KeysOf(h), f \in FitsOf(h) :
              LET ask == Ask(h, c, j, k, f)
              IN TurnAway(r, ask) \/ Query(r, ask) \/ LookUp(r, ask)
      BY <2>1 DEF Arrive
    <3>2. PICK j \in IdsOf(h), k \in KeysOf(h), f \in FitsOf(h) :
            LET ask == Ask(h, c, j, k, f)
            IN TurnAway(r, ask) \/ Query(r, ask) \/ LookUp(r, ask)
      BY <3>1
    <3> DEFINE ask == Ask(h, c, j, k, f)
    <3>3. ask \in Asks BY AsksFit DEF ApiInv, Typed
    <3> HIDE DEF ask
    <3>4. rows' = rows
      BY <3>2, <3>3, CreatesFail DEF TurnAway, Query, LookUp, ask
    <3> QED BY <3>4
  <2>2. ASSUME NEW r \in Requests, Update(r) \/ Delete(r)
        PROVE  /\ request[r].phase \in {"update", "delete"}
               /\ request[r].ask.id = i
               /\ request[r].ask.caller = OwnerOf[i]
               /\ answer'[r] = request[r].ask.handler.success
    <3>1. request[r].phase \in {"update", "delete"} BY <2>2 DEF Update, Delete
    <3>2. request[r].ask.caller = OwnerOf[request[r].ask.id]
      BY <3>1 DEF ApiInv, Admitted, Owned
    <3>3. /\ rows \in [Ids -> Keys \cup {Gone}]
          /\ answer \in [Requests -> {0, 200, 201, 202, 204, 400, 401, 404, 500, 502}]
      BY DEF ApiInv, Typed
    <3>4. request[r].ask.id = i /\ Reply(r, request[r].ask.handler.success)
      BY <2>2, <3>3 DEF Update, Delete
    <3> QED BY <3>1, <3>2, <3>3, <3>4 DEF Reply
  <2>3. ASSUME NEW r \in Requests, Profile(r) \/ Message(r) PROVE FALSE
    BY <2>3 DEF Profile, Message
  <2>4. ~UNCHANGED apiVars BY DEF apiVars
  <2> QED BY <2>1, <2>2, <2>3, <2>4 DEF ApiNext
<1>2. ApiSpec => [][Own]_apiVars BY <1>1, ApiInvariant, PTL DEF ApiSpec
<1> QED BY <1>2 DEF OwnRowsOnly

-----------------------------------------------------------------------------
(* Rows that are deleted, and internal errors *)

Deletes(r) == Done(r, "delete") /\ answer[r] = 204

\* Another request has deleted the row that r is about.
DeletedUnder(r) ==
  \E other \in Requests \ {r} : Deletes(other) /\ request[other].ask.id = request[r].ask.id

\* Its schema lets the body or query through, but the clock or the database does not.
Refused(ask) ==
  ask.handler.op \in {"list", "update"} /\ ask.fit = "unfit" /\ Authenticated(ask)

\* What may have made the answer of r an internal error.
Excused(r) ==
  \/ DeletedUnder(r)
  \/ request[r].ask.handler.op = "update" /\ table \in Unique
  \/ request[r].ask.handler.op = "delete" /\ request[r].ask.id \in pinned
  \/ request[r].ask.handler.op = "send"
  \/ Refused(request[r].ask)

\* A request that waits for its write has seen the row: if it is gone, somebody deleted it
\* meanwhile, and it does not come back.
Fate ==
  \A r \in Requests :
    /\ request[r].phase # "done" <=> answer[r] = 0
    /\ request[r].phase = "update" => request[r].ask.key \in Keys
    /\ Deletes(r) => request[r].ask.id \in Ids /\ rows[request[r].ask.id] = Gone
    /\ (request[r].phase \in {"update", "delete"} /\ rows[request[r].ask.id] = Gone)
         => DeletedUnder(r)

FateInv == pinned \in SUBSET Ids /\ Fate /\ DeletedOnce /\ ServerErrorsHaveCauses

\* A delete that succeeds answers 204.
LEMMA DeletesAnswer == \A h \in Handlers : h.op = "delete" => h.success = 204
<1> SUFFICES ASSUME NEW t \in DOMAIN Controllers, NEW h \in Controllers[t], h.op = "delete"
             PROVE  h.success = 204
  BY DEF Handlers
<1> USE DEF Handler, Edits, Reads
<1>1. CASE t = "leads" BY <1>1 DEF Controllers, LeadsController
<1>2. CASE t = "templates" BY <1>2 DEF Controllers, TemplatesController
<1>3. CASE t = "senders" BY <1>3 DEF Controllers, SendersController
<1>4. CASE t = "schedules" BY <1>4 DEF Controllers, SchedulesController
<1>5. CASE t = "dispatch" BY <1>5 DEF Controllers, DispatchController
<1>6. CASE t = "inbox" BY <1>6 DEF Controllers, InboxController
<1>7. CASE t = "analytics" BY <1>7 DEF Controllers, AnalyticsController
<1>8. CASE t = "auth" BY <1>8 DEF Controllers, AuthController
<1>9. CASE t = "search" BY <1>9 DEF Controllers, SearchController
<1>10. CASE t = "linkedin" BY <1>10 DEF Controllers, LinkedInController
<1> QED BY <1>1, <1>2, <1>3, <1>4, <1>5, <1>6, <1>7, <1>8, <1>9, <1>10 DEF Controllers

\* What one request does in a step, as far as rows and errors go.
Moves(r) ==
  /\ request[r].phase # "done"
  /\ \A q \in Requests \ {r} : request'[q] = request[q] /\ answer'[q] = answer[q]
  /\ UNCHANGED <<table, pinned>>
  /\ \A i \in Ids : rows[i] = Gone => rows'[i] = Gone
  /\ \A i \in Ids : rows'[i] = Gone /\ rows[i] # Gone
                     => Deletes(r)' /\ request'[r].ask.id = i
  /\ request'[r].phase # "done" <=> answer'[r] = 0
  /\ request'[r].phase = "update" => request'[r].ask.key \in Keys
  /\ request'[r].phase \in {"update", "delete"} => rows'[request'[r].ask.id] # Gone
  /\ Deletes(r)' => /\ request'[r].ask.id \in Ids
                    /\ rows[request'[r].ask.id] # Gone /\ rows'[request'[r].ask.id] = Gone
  /\ answer'[r] = 500 =>
       \/ /\ request[r].phase \in {"update", "delete"} /\ request'[r].ask = request[r].ask
          /\ rows[request[r].ask.id] = Gone
       \/ request'[r].ask.handler.op = "update" /\ table \in Unique
       \/ request'[r].ask.handler.op = "delete" /\ request'[r].ask.id \in pinned
       \/ request'[r].ask.handler.op = "send"
       \/ Refused(request'[r].ask)

\* A request that is answered without touching a row: by no delete, nor with an internal
\* error unless it is a message or cannot be computed or stored.
LEMMA AnswerMoves ==
  ASSUME ApiInv, NEW r \in Requests, request[r].phase # "done", NEW ask \in Asks,
         NEW status \in {200, 201, 202, 204, 400, 401, 404, 500, 502},
         Reply(r, status), Proceed(r, "done", ask), UNCHANGED <<table, pinned, rows>>,
         ask.handler.op = "delete" => status # 204,
         status = 500 => ask.handler.op = "send" \/ Refused(ask)
  PROVE  Moves(r)
<1>1. /\ request'[r] = [phase |-> "done", ask |-> ask]
      /\ \A q \in Requests \ {r} : request'[q] = request[q] /\ answer'[q] = answer[q]
      /\ answer'[r] = status
  BY DEF ApiInv, Typed, Reply, Proceed, Waits
<1> QED BY <1>1 DEF Moves, Deletes, Done

LEMMA ArriveMoves ==
  ASSUME ApiInv, Fate, NEW r \in Requests, Arrive(r) PROVE Moves(r)
<1> USE HandlersFit, Statuses, DeletesAnswer
<1>1. request[r].phase # "done" BY DEF Arrive, NoRequest
<1>2. PICK h \in Controllers[table], c \in Users \cup {Nobody} :
        \E i \in IdsOf(h), k \in KeysOf(h), f \in FitsOf(h) :
          LET ask == Ask(h, c, i, k, f)
          IN TurnAway(r, ask) \/ Query(r, ask) \/ LookUp(r, ask)
  BY DEF Arrive
<1>3. PICK i \in IdsOf(h), k \in KeysOf(h), f \in FitsOf(h) :
        LET ask == Ask(h, c, i, k, f)
        IN TurnAway(r, ask) \/ Query(r, ask) \/ LookUp(r, ask)
  BY <1>2
<1> DEFINE ask == Ask(h, c, i, k, f)
<1>4. ask \in Asks /\ UNCHANGED <<table, pinned>> BY AsksFit DEF ApiInv, Typed, Arrive
<1>5. ask.handler \in Handlers BY <1>4 DEF Asks
<1>6. ask.handler.op = "update" => ask.key \in Keys BY DEF ask, Ask, KeysOf
<1>7. ask.handler.op \in {"update", "delete"} => ask.id \in Ids BY DEF ask, Ask, IdsOf
<1> HIDE DEF ask
<1>8. CASE TurnAway(r, ask)
  <2> DEFINE status == IF Authenticated(ask) THEN 400 ELSE 401
  <2>1. Reply(r, status) /\ Proceed(r, "done", ask) /\ rows' = rows BY <1>8 DEF TurnAway
  <2>2. status \in {400, 401} OBVIOUS
  <2> HIDE DEF status
  <2> QED BY <1>1, <1>4, <2>1, <2>2, AnswerMoves
<1>9. CASE Query(r, ask)
  <2>1. ask.handler.op = "list" BY <1>4, <1>9, CreatesFail DEF Query
  <2>2. PICK status \in {500, ask.handler.success} :
          /\ Reply(r, status) /\ Proceed(r, "done", ask) /\ rows' = rows
          /\ status = 500 => Refused(ask)
    BY <1>5, <1>9, <2>1 DEF Query, Refused
  <2> QED BY <1>1, <1>4, <1>5, <2>1, <2>2, AnswerMoves
<1>10. CASE LookUp(r, ask)
  <2>1. rows' = rows BY <1>10 DEF LookUp
  <2>2. CASE Reply(r, 404) /\ Proceed(r, "done", ask)
    BY <1>1, <1>4, <2>1, <2>2, AnswerMoves
  <2>5. CASE ~NamesARow(ask) /\ Reply(r, 500) /\ Proceed(r, "done", ask)
    BY <1>1, <1>4, <2>1, <2>5, AnswerMoves DEF NamesARow
  <2>3. CASE /\ ask.handler.op = "get"
             /\ Reply(r, ask.handler.success) /\ Proceed(r, "done", ask)
    BY <1>1, <1>4, <1>5, <2>1, <2>3, AnswerMoves
  <2>4. CASE /\ Found(ask) /\ ask.handler.op # "get"
             /\ UNCHANGED answer /\ Proceed(r, ask.handler.op, ask)
    <3>1. UNCHANGED answer /\ Proceed(r, ask.handler.op, ask)
      BY <2>4
    <3>2. /\ request'[r] = [phase |-> ask.handler.op, ask |-> ask]
          /\ \A q \in Requests \ {r} : request'[q] = request[q]
      BY <3>1 DEF ApiInv, Typed, Proceed, Waits
    <3>3. ask.handler.op # "done" BY <1>5 DEF Ops
    <3>4. answer'[r] = 0 BY <1>1, <3>1 DEF Fate
    <3>5. rows[ask.id] # Gone BY <2>4 DEF Found
    <3> QED BY <1>1, <1>4, <1>6, <2>1, <3>1, <3>2, <3>3, <3>4, <3>5 DEF Moves, Deletes, Done
  <2> QED BY <1>10, <2>2, <2>3, <2>4, <2>5 DEF LookUp
<1> QED BY <1>3, <1>8, <1>9, <1>10 DEF ask

LEMMA WriteMoves ==
  ASSUME ApiInv, Fate, NEW r \in Requests, Update(r) \/ Delete(r) PROVE Moves(r)
<1> DEFINE ask == request[r].ask
<1>1. request[r].phase \in {"update", "delete"} /\ UNCHANGED <<table, pinned>>
  BY DEF Update, Delete
<1>2. ask \in Asks BY <1>1 DEF ApiInv, Typed, Slots, NoRequest
<1>3. ask.id \in Ids /\ ask.handler.op = request[r].phase /\ Authenticated(ask)
  BY <1>1 DEF ApiInv, Admitted
<1>4. ask.handler \in Handlers BY <1>2 DEF Asks
<1>5. ask.handler.success \in {200, 201, 202, 204}
      /\ (ask.handler.op = "delete" => ask.handler.success = 204)
  BY <1>4, HandlersFit, DeletesAnswer
<1>6. rows \in [Ids -> Keys \cup {Gone}] BY DEF ApiInv, Typed
<1>7. /\ request'[r] = [phase |-> "done", ask |-> ask]
      /\ \A q \in Requests \ {r} : request'[q] = request[q] /\ answer'[q] = answer[q]
  BY DEF Update, Delete, Proceed, Reply, Waits, ApiInv, Typed
<1>8. request[r].phase = "update" => ask.key # Gone BY ApiAssumption DEF Fate
<1>9. CASE Update(r) /\ UpdateFails(ask)
  <2>1. rows' = rows /\ answer'[r] = 500 /\ ask.handler.op = "update"
    BY <1>3, <1>9, Statuses DEF Update, Reply, ApiInv, Typed
  <2>2. rows[ask.id] = Gone \/ table \in Unique \/ Refused(ask)
    BY <1>3, <1>9, <2>1 DEF UpdateFails, Conflicts, Refused
  <2> QED BY <1>1, <1>7, <2>1, <2>2 DEF Moves, Deletes, Done
<1>10. CASE Update(r) /\ ~UpdateFails(ask)
  <2>1. /\ rows' = [rows EXCEPT ![ask.id] = ask.key] /\ answer'[r] = ask.handler.success
        /\ ask.handler.op = "update" /\ rows[ask.id] # Gone /\ ask.key # Gone
    BY <1>3, <1>8, <1>10 DEF Update, Reply, UpdateFails, ApiInv, Typed
  <2> QED BY <1>1, <1>3, <1>5, <1>6, <1>7, <2>1 DEF Moves, Deletes, Done
<1>11. CASE Delete(r) /\ DeleteFails(ask)
  <2>1. rows' = rows /\ answer'[r] = 500 /\ ask.handler.op = "delete"
    BY <1>3, <1>11, Statuses DEF Delete, Reply, ApiInv, Typed
  <2>2. rows[ask.id] = Gone \/ ask.id \in pinned BY <1>11 DEF DeleteFails
  <2> QED BY <1>1, <1>7, <2>1, <2>2 DEF Moves, Deletes, Done
<1>12. CASE Delete(r) /\ ~DeleteFails(ask)
  <2>1. /\ rows' = [rows EXCEPT ![ask.id] = Gone] /\ answer'[r] = 204
        /\ ask.handler.op = "delete" /\ rows[ask.id] # Gone
    BY <1>3, <1>5, <1>12 DEF Delete, Reply, DeleteFails, ApiInv, Typed
  <2> QED BY <1>1, <1>3, <1>6, <1>7, <2>1 DEF Moves, Deletes, Done
<1> QED BY <1>9, <1>10, <1>11, <1>12

LEMMA LinkedInMoves ==
  ASSUME ApiInv, Fate, NEW r \in Requests, Profile(r) \/ Message(r) PROVE Moves(r)
<1> DEFINE ask == request[r].ask
<1>1. /\ request[r].phase \in {"send", "message"}
      /\ UNCHANGED <<table, pinned, rows>>
  BY DEF Profile, Message
<1>2. ask \in Asks BY <1>1 DEF ApiInv, Typed, Slots, NoRequest
<1>3. ask.handler.op = "send" BY <1>1 DEF ApiInv, Admitted
<1>4. ask.handler.success \in {200, 201, 202, 204} BY <1>2, HandlersFit DEF Asks
<1>5. \/ /\ Reply(r, 502) \/ Reply(r, 500) \/ Reply(r, ask.handler.success)
         /\ Proceed(r, "done", ask)
      \/ UNCHANGED answer /\ Proceed(r, "message", ask)
  BY Statuses DEF Profile, Message, CallErrors
<1> HIDE DEF ask
<1>6. CASE (Reply(r, 502) \/ Reply(r, 500) \/ Reply(r, ask.handler.success))
           /\ Proceed(r, "done", ask)
  BY <1>1, <1>2, <1>3, <1>4, <1>6, AnswerMoves
<1>7. CASE UNCHANGED answer /\ Proceed(r, "message", ask)
  <2>1. /\ request'[r] = [phase |-> "message", ask |-> ask]
        /\ \A q \in Requests \ {r} : request'[q] = request[q]
    BY <1>7 DEF ApiInv, Typed, Proceed, Waits
  <2>2. answer'[r] = 0 BY <1>1, <1>7 DEF Fate
  <2> QED BY <1>1, <1>7, <2>1, <2>2 DEF Moves, Deletes, Done
<1> QED BY <1>5, <1>6, <1>7

LEMMA MovesKeepFate ==
  ASSUME ApiInv, FateInv, NEW r \in Requests, Moves(r) PROVE FateInv'
<1>1. Fate /\ DeletedOnce /\ ServerErrorsHaveCauses BY DEF FateInv
<1>2. \A q \in Requests \ {r} : (Deletes(q)' <=> Deletes(q)) /\ request'[q] = request[q]
  BY DEF Moves, Deletes, Done
<1>3. ~Deletes(r) BY DEF Moves, Deletes, Done
<1>4. ASSUME NEW q \in Requests, DeletedUnder(q), request'[q].ask = request[q].ask
      PROVE  DeletedUnder(q)'
  <2>1. PICK other \in Requests \ {q} : Deletes(other) /\ request[other].ask.id = request[q].ask.id
    BY <1>4 DEF DeletedUnder
  <2>2. other # r BY <1>3, <2>1
  <2>3. Deletes(other)' /\ request'[other] = request[other] BY <1>2, <2>1, <2>2
  <2> QED BY <1>4, <2>1, <2>3 DEF DeletedUnder
<1>5. ASSUME NEW q \in Requests
      PROVE  /\ request'[q].phase # "done" <=> answer'[q] = 0
             /\ request'[q].phase = "update" => request'[q].ask.key \in Keys
  <2>1. CASE q = r BY <2>1 DEF Moves
  <2>2. CASE q # r BY <1>1, <2>2 DEF Moves, Fate
  <2> QED BY <2>1, <2>2
<1>6. ASSUME NEW q \in Requests, Deletes(q)'
      PROVE  request'[q].ask.id \in Ids /\ rows'[request'[q].ask.id] = Gone
  <2>1. CASE q = r BY <1>6, <2>1 DEF Moves
  <2>2. CASE q # r
    <3>1. Deletes(q) /\ request'[q] = request[q] BY <1>2, <1>6, <2>2
    <3>2. request[q].ask.id \in Ids /\ rows[request[q].ask.id] = Gone BY <1>1, <3>1 DEF Fate
    <3> QED BY <3>1, <3>2 DEF Moves
  <2> QED BY <2>1, <2>2
<1>7. ASSUME NEW q \in Requests, request'[q].phase \in {"update", "delete"},
             rows'[request'[q].ask.id] = Gone
      PROVE  DeletedUnder(q)'
  <2>1. q # r BY <1>7 DEF Moves
  <2>2. request'[q] = request[q] BY <1>2, <2>1
  <2>3. request[q].ask.id \in Ids BY <1>7, <2>2 DEF ApiInv, Admitted
  <2>4. CASE rows[request[q].ask.id] = Gone
    <3>1. DeletedUnder(q) BY <1>1, <1>7, <2>2, <2>4 DEF Fate
    <3> QED BY <1>4, <2>2, <3>1
  <2>5. CASE rows[request[q].ask.id] # Gone
    <3>1. Deletes(r)' /\ request'[r].ask.id = request[q].ask.id
      BY <1>7, <2>2, <2>3, <2>5 DEF Moves
    <3> QED BY <2>1, <2>2, <3>1 DEF DeletedUnder
  <2> QED BY <2>4, <2>5
<1>8. Fate' BY <1>5, <1>6, <1>7 DEF Fate
<1>9. DeletedOnce'
  <2> SUFFICES ASSUME NEW r1 \in Requests, NEW r2 \in Requests, Deletes(r1)', Deletes(r2)',
                      request'[r1].ask.id = request'[r2].ask.id, r1 # r2
               PROVE  FALSE
    BY DEF DeletedOnce, Deletes
  <2>1. CASE r1 # r /\ r2 # r
    BY <1>1, <1>2, <2>1 DEF DeletedOnce, Deletes
  <2>2. ASSUME NEW q \in Requests \ {r}, Deletes(r)', Deletes(q)',
               request'[q].ask.id = request'[r].ask.id
        PROVE  FALSE
    <3>1. Deletes(q) /\ request'[q] = request[q] BY <1>2, <2>2
    <3>2. rows[request[q].ask.id] = Gone BY <1>1, <3>1 DEF Fate
    <3> QED BY <2>2, <3>1, <3>2 DEF Moves
  <2> QED BY <2>1, <2>2
<1>10. ASSUME NEW q \in Requests, answer'[q] = 500 PROVE Excused(q)'
  <2>1. CASE q # r
    <3>1. answer[q] = 500 /\ request'[q] = request[q] /\ UNCHANGED <<table, pinned>>
      BY <1>10, <2>1 DEF Moves
    <3>2. Excused(q)
      BY <1>1, <3>1 DEF ServerErrorsHaveCauses, Excused, Refused, DeletedUnder, Deletes
    <3>3. CASE DeletedUnder(q) BY <1>4, <3>1, <3>3 DEF Excused
    <3>4. CASE ~DeletedUnder(q) BY <3>1, <3>2, <3>4 DEF Excused
    <3> QED BY <3>3, <3>4
  <2>2. CASE q = r
    <3>1. CASE /\ request[r].phase \in {"update", "delete"} /\ request'[r].ask = request[r].ask
               /\ rows[request[r].ask.id] = Gone
      <4>1. DeletedUnder(r) BY <1>1, <3>1 DEF Fate
      <4> QED BY <1>4, <2>2, <3>1, <4>1 DEF Excused
    <3>2. CASE ~(/\ request[r].phase \in {"update", "delete"}
                 /\ request'[r].ask = request[r].ask
                 /\ rows[request[r].ask.id] = Gone)
      BY <1>10, <2>2, <3>2 DEF Moves, Excused
    <3> QED BY <3>1, <3>2
  <2> QED BY <2>1, <2>2
<1>11. ServerErrorsHaveCauses'
  BY <1>10 DEF ServerErrorsHaveCauses, Excused, Refused, DeletedUnder, Deletes
<1>12. pinned' \in SUBSET Ids
  BY DEF FateInv, Moves
<1> QED BY <1>8, <1>9, <1>11, <1>12 DEF FateInv

LEMMA FateInvariant == ApiSpec => []FateInv
<1>1. ApiInit => FateInv
  BY DEF ApiInit, FateInv, Fate, DeletedOnce, ServerErrorsHaveCauses, Deletes, Done, NoRequest
<1>2. ApiInv /\ FateInv /\ [ApiNext]_apiVars => FateInv'
  <2> SUFFICES ASSUME ApiInv, FateInv, [ApiNext]_apiVars PROVE FateInv' OBVIOUS
  <2>1. Fate BY DEF FateInv
  <2>2. ASSUME NEW r \in Requests, Arrive(r) PROVE FateInv'
    BY <2>1, <2>2, ArriveMoves, MovesKeepFate
  <2>3. ASSUME NEW r \in Requests, Update(r) \/ Delete(r) PROVE FateInv'
    BY <2>1, <2>3, WriteMoves, MovesKeepFate
  <2>4. ASSUME NEW r \in Requests, Profile(r) \/ Message(r) PROVE FateInv'
    BY <2>1, <2>4, LinkedInMoves, MovesKeepFate
  <2>5. CASE UNCHANGED apiVars
    BY <2>5
       DEF apiVars, FateInv, Fate, DeletedOnce, ServerErrorsHaveCauses, DeletedUnder, Deletes, Done
  <2> QED BY <2>2, <2>3, <2>4, <2>5 DEF ApiNext
<1> QED BY <1>1, <1>2, ApiInvariant, PTL DEF ApiSpec

\* repository.delete: of several requests that all saw the row, one is told it deleted it.
THEOREM RowsAreDeletedOnce == ApiSpec => []DeletedOnce
<1>1. FateInv => DeletedOnce BY DEF FateInv
<1> QED BY <1>1, FateInvariant, PTL

\* SentryExceptionFilter: where the internal errors that a client meets come from.
THEOREM ServerErrorsAreExplained == ApiSpec => []ServerErrorsHaveCauses
<1>1. FateInv => ServerErrorsHaveCauses BY DEF FateInv
<1> QED BY <1>1, FateInvariant, PTL

\* The API keeps its types: statuses are those the filters give, and a request has one
\* exactly if it is done.
THEOREM ApiIsTyped == ApiSpec => []ApiTypeOK
<1>1. ApiInv /\ FateInv => ApiTypeOK
  BY DEF ApiInv, Typed, FateInv, Fate, ApiTypeOK
<1> QED BY <1>1, ApiInvariant, FateInvariant, PTL

-----------------------------------------------------------------------------
(* Notifications *)

\* Over any set of names, types, ids and addresses.
ResendBody(Texts) ==
  [fits : BOOLEAN, type : Texts, id : Texts, noRecipient : BOOLEAN, dated : BOOLEAN]

\* The schema of a SmartLead body lists the types.
SmartLeadBody(Texts) ==
  {body \in [fits : BOOLEAN, type : Texts, id : Texts \cup {None},
             replyId : Texts \cup {None}, to : Texts, dated : BOOLEAN] :
     body.fits => body.type \in DOMAIN SmartLeadType}

Notification(Texts) ==
  {n \in [provider : Texts \cup {None}, secret : BOOLEAN,
          proof : {"none", "wrong", "body", "stamped", "header"}, age : Int,
          body : ResendBody(Texts) \cup SmartLeadBody(Texts)] :
     /\ n.provider = "resend" => n.body \in ResendBody(Texts)
     /\ n.provider = "smartlead" => n.body \in SmartLeadBody(Texts)}

LEMMA AgeWithin ==
  ASSUME NEW a \in Int
  PROVE  Age(a) <= ToleranceSec <=> -300 <= a /\ a <= 300
BY DEF Age, ToleranceSec

\* WebhooksController: a repeated notification is answered as it was before, however much
\* later it comes, but for a stamp that was ahead of our clock or has become too old.
THEOREM RepeatsAreAnsweredAlike ==
  \A Texts : \A n \in Notification(Texts), later \in Nat : RepeatsAnswerAlike(n, later)
<1> SUFFICES ASSUME NEW Texts, NEW n \in Notification(Texts), NEW later \in Nat,
                    Outcome([n EXCEPT !.age = @ + later]) # Outcome(n)
             PROVE  /\ n.secret /\ n.proof = "stamped" /\ n.provider # None
                    /\ n.age < -ToleranceSec \/ n.age + later > ToleranceSec
  BY DEF RepeatsAnswerAlike
<1> DEFINE again == [n EXCEPT !.age = @ + later]
<1>1. /\ again.provider = n.provider /\ again.secret = n.secret
      /\ again.proof = n.proof /\ again.body = n.body /\ again.age = n.age + later
      /\ n.age \in Int /\ n.secret \in BOOLEAN
  BY DEF Notification
<1> HIDE DEF again
<1>2. Parse(again) = Parse(n)
  BY <1>1 DEF Parse
<1>3. EmailEvents(again) # EmailEvents(n)
  <2>1. Outcome(again) # Outcome(n)
    BY DEF again
  <2>2. QED
    BY <2>1 DEF Outcome
<1>4. n.provider # None /\ (Verified(again) # Verified(n))
  <2>1. CASE n.provider = None
    BY <1>1, <1>3, <2>1 DEF EmailEvents
  <2>2. CASE n.provider # None /\ Verified(again) /\ Verified(n)
    BY <1>1, <1>2, <1>3, <2>2 DEF EmailEvents
  <2>3. CASE n.provider # None /\ ~Verified(again) /\ ~Verified(n)
    BY <1>1, <1>3, <2>3 DEF EmailEvents
  <2>4. Verified(again) \in BOOLEAN /\ Verified(n) \in BOOLEAN
    BY DEF Verified, Signed, Stamped
  <2>5. QED
    BY <2>1, <2>2, <2>3, <2>4
<1>5. n.secret /\ (Stamped(again) # Stamped(n))
  <2>1. Verified(again) = (~n.secret \/ n.proof = "body" \/ Stamped(again)
                             \/ (n.proof = "header" /\ n.provider # "unipile"))
    BY <1>1 DEF Verified, Signed
  <2>2. Verified(n) = (~n.secret \/ n.proof = "body" \/ Stamped(n)
                         \/ (n.proof = "header" /\ n.provider # "unipile"))
    BY DEF Verified, Signed
  <2>3. QED
    BY <1>1, <1>4, <2>1, <2>2
<1>6. n.proof = "stamped" /\ ((Age(n.age + later) <= ToleranceSec) # (Age(n.age) <= ToleranceSec))
  <2>1. Stamped(again) = (n.proof = "stamped" /\ Age(n.age + later) <= ToleranceSec)
    BY <1>1 DEF Stamped
  <2>2. Stamped(n) = (n.proof = "stamped" /\ Age(n.age) <= ToleranceSec)
    BY DEF Stamped
  <2>3. QED
    BY <1>5, <2>1, <2>2
<1>7. n.age < -300 \/ n.age + later > 300
  <2>1. n.age + later \in Int
    BY <1>1
  <2>2. SUFFICES ASSUME n.age >= -300, n.age + later <= 300 PROVE FALSE
    BY <1>1, <2>1
  <2>3. (Age(n.age) <= ToleranceSec) /\ (Age(n.age + later) <= ToleranceSec)
    BY <1>1, <2>1, <2>2, AgeWithin
  <2>4. QED
    BY <1>6, <2>3
<1>8. QED
  BY <1>4, <1>5, <1>6, <1>7 DEF ToleranceSec

\* WebhooksController and the parsers: a genuine notification that fits its schema is
\* answered with 200, but for a Resend event that names no recipient and a SmartLead reply
\* whose time is no date.
THEOREM GenuineAreTaken ==
  \A Texts : \A n \in Notification(Texts) : GenuineEventsAreTaken(n)
<1> SUFFICES ASSUME NEW Texts, NEW n \in Notification(Texts), Genuine(n), n.body.fits,
                    n.provider \in {"resend", "smartlead"}
             PROVE  \/ Outcome(n).status = 200
                    \/ n.provider = "resend" /\ n.body.noRecipient
                    \/ n.provider = "smartlead" /\ n.body.type = "EMAIL_REPLY" /\ ~n.body.dated
  BY DEF GenuineEventsAreTaken
<1>1. Verified(n)
  <2>1. n.age \in Int
    BY DEF Notification
  <2>2. n.proof = "stamped" /\ n.age \in (-300)..300 => Stamped(n)
    BY <2>1, AgeWithin DEF Stamped
  <2>3. QED
    BY <2>2 DEF Verified, Signed, Genuine, ToleranceSec
<1>2. EmailEvents(n) = Parse(n)
  <2>1. n.provider # None
    BY NoneAssumption
  <2>2. QED
    BY <1>1, <2>1 DEF EmailEvents
<1>3. CASE n.provider = "resend"
  <2>1. Parse(n) = ResendParse(n.body)
    BY <1>3 DEF Parse
  <2>2. CASE n.body.noRecipient
    BY <1>3, <2>2
  <2>3. CASE n.body.type \notin DOMAIN ResendType
    <3>1. ResendParse(n.body) = Given(None)
      BY <2>3 DEF ResendParse
    <3>2. QED
      BY <1>2, <2>1, <3>1 DEF Outcome, Given
  <2>4. CASE ~n.body.noRecipient /\ n.body.type \in DOMAIN ResendType
    <3> DEFINE event == Normalized(ResendType[n.body.type], n.body.id, n.body.dated)
    <3>1. ResendParse(n.body) = Given(event)
      BY <2>4 DEF ResendParse
    <3>2. event.type # "replied"
      BY <2>4 DEF Normalized, ResendType
    <3> HIDE DEF event
    <3>3. QED
      BY <1>2, <2>1, <3>1, <3>2 DEF Outcome, Given
  <2>5. n.body.noRecipient \in BOOLEAN
    BY <1>3 DEF Notification, ResendBody
  <2>6. QED
    BY <2>2, <2>3, <2>4, <2>5
<1>4. CASE n.provider = "smartlead"
  <2>1. n.body.type \in DOMAIN SmartLeadType
    BY <1>4 DEF Notification, SmartLeadBody
  <2> DEFINE event == Normalized(SmartLeadType[n.body.type], SmartLeadId(n.body), n.body.dated)
  <2>2. Parse(n) = Given(event)
    BY <1>4, <2>1 DEF Parse, SmartLeadParse
  <2>3. event.type = "replied" => n.body.type = "EMAIL_REPLY"
    BY <2>1 DEF Normalized, SmartLeadType
  <2>4. event.dated = n.body.dated
    BY DEF Normalized
  <2> HIDE DEF event
  <2>5. QED
    BY <1>2, <1>4, <2>2, <2>3, <2>4 DEF Outcome, Given
<1>5. QED
  BY <1>3, <1>4
=============================================================================

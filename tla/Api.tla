-------------------------------- MODULE Api --------------------------------
(***************************************************************************)
(* The authenticated HTTP API over one table: guard, pipes, the look-up by *)
(* id and owner, and the write by id alone, with other requests between    *)
(* the two; and the error filters that turn what was thrown into a status. *)
(*                                                                         *)
(* Rows are made by the legacy system or not at all: a schema given to     *)
(* UsePipes on a handler is applied by NestJS to every parameter of the    *)
(* handler, @CurrentUser() among them.                                     *)
(***************************************************************************)
EXTENDS Naturals

CONSTANTS
  Users,
  Ids,           \* of rows; a row never changes its owner
  OwnerOf,       \* the user_id of a row; a legacy row has none
  Keys,          \* what unique indexes are about: names, addresses
  Requests,
  Nobody,        \* the caller of a request without a valid token, the owner of a legacy row
  Gone           \* a row that does not exist

ASSUME ApiAssumption ==
  /\ OwnerOf \in [Ids -> Users \cup {Nobody}]
  /\ Nobody \notin Users
  /\ Gone \notin Keys

VARIABLES
  table,         \* the controller, and the table it is about
  pinned,        \* rows that rows of other tables refer to and restrict
  rows,          \* id -> key, or Gone
  request,       \* per request: what it waits for and what it asks
  answer,        \* its HTTP status, 0 before there is one
  sent           \* requests whose message the LinkedIn service took

apiVars == <<table, pinned, rows, request, answer, sent>>

-----------------------------------------------------------------------------
\* The handlers: which parameters a schema is applied to, and the status of success.
Handler(op, schema, success) == [op |-> op, schema |-> schema, success |-> success]

Reads == {Handler("list", {}, 200), Handler("get", {}, 200)}
Edits == {Handler("update", {"body"}, 200), Handler("delete", {}, 204)}

LeadsController ==
  {Handler("list", {"query"}, 200), Handler("get", {}, 200),
   Handler("create", {"user", "body"}, 201)} \cup Edits
TemplatesController == Reads \cup {Handler("create", {"user", "body"}, 201)} \cup Edits
SendersController == Reads \cup {Handler("create", {"user", "body"}, 201)} \cup Edits
SchedulesController ==
  Reads \cup {Handler("create", {"user", "body"}, 201), Handler("get", {}, 202)} \cup Edits
DispatchController == {Handler("create", {"user", "body"}, 202)}
InboxController == {Handler("list", {}, 200)}
AnalyticsController == {Handler("list", {}, 200)}
AuthController == {Handler("list", {}, 200)}
SearchController == {Handler("list", {"body"}, 202)}
LinkedInController == {Handler("send", {"body"}, 202)}

Controllers == [leads |-> LeadsController, templates |-> TemplatesController,
  senders |-> SendersController, schedules |-> SchedulesController,
  dispatch |-> DispatchController, inbox |-> InboxController,
  analytics |-> AnalyticsController, auth |-> AuthController,
  search |-> SearchController, linkedin |-> LinkedInController]

\* Unique indexes over the owner and a key.
Unique == {"leads", "templates", "senders"}

\* A request: a handler, a row, a new key, and whether its id and its body or query parse.
\* It has of these what its handler reads. An unfit body or query passes its schema, but
\* the clock or the database refuses it: a time like 99:99, a date like 2026-99-99, a zone
\* or a sender that does not exist, a text with a NUL, a number too large for its column.
\* The service of a search stores and asks nothing.
TakesId(h) == h.op \in {"get", "update", "delete"}
IdsOf(h) == CASE h.op = "list" -> {Gone}
              [] h.op = "create" -> {i \in Ids : rows[i] = Gone}
              [] OTHER -> Ids
KeysOf(h) == IF h.op \in {"create", "update"} THEN Keys ELSE {Gone}
FitsOf(h) == {"fits"} \cup (IF TakesId(h) THEN {"badId"} ELSE {})
                      \cup (IF h.schema = {} THEN {} ELSE {"badBody"})
                      \cup (IF h.schema = {} \/ table = "search" THEN {} ELSE {"unfit"})

Ask(handler, caller, id, key, fit) ==
  [handler |-> handler, caller |-> caller, id |-> id, key |-> key, fit |-> fit]

PassesBodyOnly(parameter, fit) == fit # "badBody"

\* The schema of a body or of a query accepts what it is meant for; no AuthUser has the
\* fields that the schemas of the create handlers require.
Passes(parameter, fit) == parameter # "user" /\ fit # "badBody"

\* The guard verifies the token.
Authenticated(ask) == ask.caller \in Users

\* ParseUUIDPipe and ZodValidationPipe, each for its parameters.
Parsed(ask) ==
  /\ TakesId(ask.handler) => ask.fit # "badId"
  /\ \A parameter \in ask.handler.schema : Passes(parameter, ask.fit)

-----------------------------------------------------------------------------
DomainErrorSwapped == [NotFound |-> 500, Unauthorized |-> 401, Forbidden |-> 403,
                       Validation |-> 422, Conflict |-> 409, ExternalService |-> 502,
                       RateLimited |-> 429]

\* The classes of domain.error.ts, and what NestJS throws itself.
DomainError == [NotFound |-> 404, Unauthorized |-> 401, Forbidden |-> 403,
                Validation |-> 422, Conflict |-> 409, ExternalService |-> 502,
                RateLimited |-> 429]
HttpException == [BadRequest |-> 400]

\* The filters: a DomainError and an HttpException have a status of their own; all else,
\* an error of the database among them, is a 500.
Filtered(error) ==
  CASE error \in DOMAIN DomainError -> DomainError[error]
    [] error \in DOMAIN HttpException -> HttpException[error]
    [] OTHER -> 500

Waits(phase, ask) == [phase |-> phase, ask |-> ask]
NoRequest == [phase |-> "none"]

FoundAny(ask) == rows[ask.id] # Gone

\* findUnique by id, and the comparison of the owner.
Found(ask) == rows[ask.id] # Gone /\ OwnerOf[ask.id] = ask.caller

\* The unique index refuses the key: another row of the owner has it.
Conflicts(ask) ==
  /\ table \in Unique
  /\ \E other \in Ids \ {ask.id} : OwnerOf[other] = OwnerOf[ask.id] /\ rows[other] = ask.key

\* What update and delete meet: the row may be gone since the look-up. An update may also
\* be one that the clock cannot compute or the database does not store.
UpdateFails(ask) == ask.fit = "unfit" \/ rows[ask.id] = Gone \/ Conflicts(ask)
DeleteFailsNever(ask) == ask.id \in pinned
DeleteFails(ask) == rows[ask.id] = Gone \/ ask.id \in pinned

ApiInit ==
  /\ table \in DOMAIN Controllers
  /\ pinned \in {{}} \cup (IF table = "senders" THEN {{i} : i \in Ids} ELSE {})
  /\ rows \in [Ids -> Keys \cup {Gone}]
  /\ table \in Unique =>
       \A i, j \in Ids : i # j /\ OwnerOf[i] = OwnerOf[j] /\ OwnerOf[i] # Nobody
                          => rows[i] # rows[j] \/ rows[i] = Gone
  /\ request = [r \in Requests |-> NoRequest]
  /\ answer = [r \in Requests |-> 0]
  /\ sent = {}

Reply(r, status) == answer' = [answer EXCEPT ![r] = status]
Proceed(r, phase, ask) == request' = [request EXCEPT ![r] = Waits(phase, ask)]

\* A request arrives; guard and pipes run, and what they throw is the answer.
TurnAway(r, ask) ==
  /\ ~Authenticated(ask) \/ ~Parsed(ask)
  /\ Reply(r, Filtered(IF Authenticated(ask) THEN "BadRequest" ELSE "Unauthorized"))
  /\ Proceed(r, "done", ask)
  /\ UNCHANGED rows

\* A list, and a create should its parameters ever pass: one query.
Query(r, ask) ==
  /\ Authenticated(ask) /\ Parsed(ask)
  /\ ask.handler.op \in {"list", "create"}
  /\ LET fails == ask.fit = "unfit" \/ (ask.handler.op = "create" /\ Conflicts(ask))
     IN /\ Reply(r, IF fails THEN Filtered("Prisma") ELSE ask.handler.success)
        /\ rows' = IF ask.handler.op = "create" /\ ~fails
                   THEN [rows EXCEPT ![ask.id] = ask.key] ELSE rows
  /\ Proceed(r, "done", ask)

\* The id of an account is in the body, and any text: it may be none that the database
\* can look for.
NamesARow(ask) == ask.handler.op = "send" => ask.fit # "unfit"

\* getById: the row of somebody else is as absent as one that does not exist.
LookUp(r, ask) ==
  /\ Authenticated(ask) /\ Parsed(ask)
  /\ ask.handler.op \notin {"list", "create"}
  /\ \/ /\ ~NamesARow(ask)
        /\ Reply(r, Filtered("Prisma")) /\ Proceed(r, "done", ask)
     \/ /\ NamesARow(ask) /\ ~Found(ask)
        /\ Reply(r, Filtered("NotFound")) /\ Proceed(r, "done", ask)
     \/ /\ NamesARow(ask) /\ Found(ask) /\ ask.handler.op = "get"
        /\ Reply(r, ask.handler.success) /\ Proceed(r, "done", ask)
     \/ /\ NamesARow(ask) /\ Found(ask) /\ ask.handler.op # "get"
        /\ UNCHANGED answer /\ Proceed(r, ask.handler.op, ask)
  /\ UNCHANGED rows

Arrive(r) ==
  /\ request[r] = NoRequest
  /\ \E h \in Controllers[table], c \in Users \cup {Nobody} :
     \E i \in IdsOf(h), k \in KeysOf(h), f \in FitsOf(h) :
       LET ask == Ask(h, c, i, k, f)
       IN TurnAway(r, ask) \/ Query(r, ask) \/ LookUp(r, ask)
  /\ UNCHANGED <<table, pinned, sent>>

\* repository.update, by id alone.
Update(r) ==
  /\ request[r].phase = "update"
  /\ LET ask == request[r].ask
     IN /\ Reply(r, IF UpdateFails(ask) THEN Filtered("Prisma") ELSE ask.handler.success)
        /\ rows' = IF UpdateFails(ask) THEN rows ELSE [rows EXCEPT ![ask.id] = ask.key]
        /\ Proceed(r, "done", ask)
  /\ UNCHANGED <<table, pinned, sent>>

\* repository.delete, by id alone.
Delete(r) ==
  /\ request[r].phase = "delete"
  /\ LET ask == request[r].ask
     IN /\ Reply(r, IF DeleteFails(ask) THEN Filtered("Prisma") ELSE ask.handler.success)
        /\ rows' = IF DeleteFails(ask) THEN rows ELSE [rows EXCEPT ![ask.id] = Gone]
        /\ Proceed(r, "done", ask)
  /\ UNCHANGED <<table, pinned, sent>>

\* What a call of the LinkedIn service throws: for a status of 400 or above, or without
\* keys, an ExternalServiceError; for a broken connection whatever the client throws.
CallErrors == {"ExternalService", "Network"}

\* It is asked for the profile of the recipient.
Profile(r) ==
  /\ request[r].phase = "send"
  /\ \/ \E error \in CallErrors : Reply(r, Filtered(error)) /\ Proceed(r, "done", request[r].ask)
     \/ UNCHANGED answer /\ Proceed(r, "message", request[r].ask)
  /\ UNCHANGED <<table, pinned, rows, sent>>

\* It is given the message, or the invitation; it may take it and answer with an error.
Message(r) ==
  /\ request[r].phase = "message"
  /\ \/ sent' = sent \cup {r} /\ Reply(r, request[r].ask.handler.success)
     \/ /\ sent' \in {sent, sent \cup {r}}
        /\ \E error \in CallErrors : Reply(r, Filtered(error))
  /\ Proceed(r, "done", request[r].ask)
  /\ UNCHANGED <<table, pinned, rows>>

ApiNext == \E r \in Requests : Arrive(r) \/ Update(r) \/ Delete(r) \/ Profile(r) \/ Message(r)

ApiSpec == ApiInit /\ [][ApiNext]_apiVars

-----------------------------------------------------------------------------
Done(r, op) == request[r].phase = "done" /\ request[r].ask.handler.op = op

\* Types.
ApiTypeOK ==
  /\ table \in DOMAIN Controllers
  /\ pinned \in SUBSET Ids
  /\ rows \in [Ids -> Keys \cup {Gone}]
  /\ \A r \in Requests :
       /\ answer[r] \in {0, 200, 201, 202, 204, 400, 401, 404, 500, 502}
       /\ answer[r] = 0 <=> request[r].phase # "done"
  /\ sent \in SUBSET Requests

\* Although update and delete name a row by its id alone, a row changes or goes only by a
\* request of its owner that is answered with success.
OwnRowsOnly ==
  [][\A i \in Ids : rows'[i] # rows[i] =>
       \E r \in Requests :
         /\ request[r].phase \in {"update", "delete"}
         /\ request[r].ask.id = i
         /\ request[r].ask.caller = OwnerOf[i]
         /\ answer'[r] = request[r].ask.handler.success]_apiVars

\* To anybody else a row looks absent, whether it exists or not and whatever its owner does
\* to it meanwhile: no status tells them apart, and no message goes out by such an account.
ForeignRowsLookAbsent ==
  \A r \in Requests :
    /\ request[r].phase = "done"
    /\ request[r].ask.handler.op \in {"get", "update", "delete", "send"}
    /\ NamesARow(request[r].ask)
    /\ request[r].ask.caller # OwnerOf[request[r].ask.id]
    => answer[r] \in {400, 401, 404} /\ r \notin sent

\* Of several requests to delete one row, one is told that it did.
DeletedOnce ==
  \A r1, r2 \in Requests :
    /\ Done(r1, "delete") /\ answer[r1] = 204
    /\ Done(r2, "delete") /\ answer[r2] = 204
    /\ request[r1].ask.id = request[r2].ask.id
    => r1 = r2

\* A client meets an internal error only by another request that deleted the row between
\* look-up and write, by a key that is taken, by deleting a sender in use, when the LinkedIn
\* service cannot be reached, or by a body or query that its schema lets through and the
\* clock or the database refuses (schedules.service L59-85: a zone, date, time or sender
\* that does not exist). Reads by id, and what a pipe or a look-up turns away, never end so.
\* (The database itself is up in this model.)
ServerErrorsHaveCauses ==
  \A r \in Requests : answer[r] = 500 =>
    LET ask == request[r].ask
    IN \/ \E other \in Requests \ {r} :
            Done(other, "delete") /\ answer[other] = 204 /\ request[other].ask.id = ask.id
       \/ ask.handler.op = "update" /\ table \in Unique
       \/ ask.handler.op = "delete" /\ ask.id \in pinned
       \/ ask.handler.op = "send"
       \/ ask.handler.op \in {"list", "update"} /\ ask.fit = "unfit" /\ Authenticated(ask)

\* No create is ever accepted, of a lead, template, sender or schedule, nor a batch for
\* dispatch: their schema is applied to the authenticated user as well.
CreatesAreRefused ==
  \A r \in Requests : Done(r, "create") => answer[r] \in {400, 401}

=============================================================================

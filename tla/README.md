# gweb-app: a verification project

TLA+ models of the gweb-app server, the TLC runs that check them on small
instances, and TLAPS proofs of the properties that hold for every instance.

## The system

`gweb_server.c` embeds libmicrohttpd. One thread runs every callback
(`MHD_USE_SELECT_INTERNALLY`), so callbacks never overlap, but the callbacks of
different HTTP connections alternate. A POST with a JSON body goes to
`json_parser.c`, which finds the API and calls its handler in
`mysqldb_handler.c`; a GET does the same for queries; a multipart POST to
`/uploads/avatar` goes to `avatardb.c`, block by block. All handlers share one
MySQL connection, `g_mysql_ctx`, opened with automatic reconnect. The main
thread starts all this, sleeps, and ends it when SIGUSR1 arrives.

| part | state | operations | what is hard |
|---|---|---|---|
| tables (`setup/mysql_schema.c`) | eight tables; only `UserRegInfo` has keys | INSERT, UPDATE, DELETE | nothing but the handlers keeps rows unique or references valid |
| MySQL session | connection, open transaction, what the client library believes of it | ping, START, statement, COMMIT, ROLLBACK | lost connections, lost answers, silent reconnects; most results are not looked at |
| update APIs (`mysqldb_handler.c`) | the running request and its statements | `registration`, `update_avatar`, `update_profile`, `cxn_request`, `cxn_channel`, `cxn_preference`, `location` | look up first, write later; early returns that skip the ROLLBACK |
| query APIs | the rows still to fetch, the response so far | `login`, `uid_query`, `profile_query`, `avatar_query`, four list and row queries | read inside a transaction a failed update left open; one command per row of a list |
| neighbours | places with the time they were seen | `location`, `neighbour_query` | the clock runs between two commands; UTC read as local time |
| avatar uploads (`avatardb.c`) | cache file and published file per user, descriptors | field, completion, abort | uploads of one user share files; failures half-way |
| HTTP connections (`gweb_server.c`) | `con_cls` per connection, response objects | create, data, complete | who destroys a response; bodies in pieces; aborted requests |
| UIDs (`lib/uid.c`) | none; the registered users | phone and e-mail to UID and back | permutations of digits and bits; who collides |
| life cycle (`gweb_server.c`, `lib/config.c`) | `g_daemon`, `g_mysql_ctx`, `g_avatardb_cfg`, the signal handler | start-up, SIGUSR1, shutdown | the daemon answers before it is configured; the shutdown meets a running callback |
| schema tool, random tables, test client | | | run by hand, once |

What makes each part correct:

- tables: one row per key although the schema does not demand it; rows refer to
  registered users; what is stored stays stored.
- session and update APIs: a request takes its whole effect or none; success is
  only answered for what is stored; no transaction outlives its handler.
- queries: a client sees committed data only; a granted list is whole; every
  request is answered.
- neighbours: nobody is shown after his place expired, and nobody near is left
  out but for the limit.
- uploads: success is only answered when the client's own image is published
  and recorded; every file opened is closed; every upload that arrives is
  answered.
- HTTP: every response object is destroyed exactly once; 200 means that an API
  did what was asked.
- UIDs: a UID gives back its phone; different users have different ones.
- life cycle: no callback is cut by the shutdown or finds its session missing;
  SIGUSR1 ends the process.

## Modules

| module | models | extends |
|---|---|---|
| `SqlTables` | tables as sets of rows, the three write statements | |
| `MysqlSession` | the shared MySQL session and its faults | `SqlTables` |
| `UpdateHandlers` | the seven update handlers, command by command | `MysqlSession` |
| `AtomicUpdates` | the abstract service: grant with the whole effect in one step, or refuse | |
| `UpdateProperties` | types, safety, the inductive invariants, the refinement mapping | `UpdateHandlers`, instance of `AtomicUpdates` |
| `UpdateProofs` | types and safety of the updates under every fault | `UpdateProperties`, TLAPS |
| `ServiceProofs` | what the updates promise under some faults, and the refinement | `UpdateProofs` |
| `QueryHandlers` | eight query handlers beside the updates, on the same session | `UpdateHandlers` |
| `QueryProperties` | what a client may conclude from an answer | `QueryHandlers`, `UpdateProperties` |
| `AnsweredLists` | a history of the rows a list lost, and what a list may miss | `QueryProperties` |
| `QueryProofs` | updates and queries on one session: types, answers, lists, the refinement | `AnsweredLists`, `ServiceProofs` |
| `Neighbours` | places, the clock, `neighbour_query` row by row | |
| `NeighbourProperties`, `NeighbourProofs` | freshness and completeness of an answer | `Neighbours` |
| `AvatarUpload` | upload callbacks, cache and published files, descriptors | |
| `UploadProperties` | types, safety and liveness of uploads | `AvatarUpload` |
| `UploadProofs` | the cache, the published file, the recorded URL and the descriptors | `UploadProperties` |
| `HttpConnections` | the callbacks of a connection and its response objects | |
| `HttpProperties`, `HttpProofs` | ownership of responses, answers | `HttpConnections` |
| `Uid` | the algorithm of `uid.c` and its inverse | |
| `UidRegistry` | registrations in any order with these UIDs | `Uid` |
| `UidProofs` | the way back from a UID's text to the digits; who collides | `UidRegistry` |
| `Configuration` | what the file's nodes give the server | |
| `ServerLifecycle` | the main thread beside the daemon's thread | `Configuration` |
| `LifecycleProperties`, `LifecycleProofs` | shutdown and start-up | `ServerLifecycle` |
| `MCUpdate`, `MCQuery`, `MCLists`, `MCNeighbours`, `MCUpload`, `MCHttp`, `MCUid`, `MCLifecycle` | small instances | the properties of each |

The definitions headed `mutation:` are not part of the models. Each is a
plausible bug, put in place of the definition after it to see that a property
notices.

### The update handlers

A row is `[key, val, id]`: `key` the columns the WHERE clauses select on, `val`
the column an UPDATE overwrites, `id` the row identifier InnoDB adds, so that
two equal rows are two rows. Names, dates and passwords are left out.

`pc` is the next `mysql_query` of the running handler, `pings` the
`gweb_mysql_ping` calls before it, `plan` the statements in its query buffer,
`body` the code in the response allocated so far and `status` the HTTP status.
One action is one command to the server, because between any two commands the
connection may be lost. The lookups (`Check...`, `Lookup...`) follow the
handlers; the transaction at the end (`StartTransaction`, `ExecStatement`,
`FailStatement`, `Commit`, `Rollback`) is the same in all of them and is
modelled once. Three things in the code decide most of what follows:

- `report_mysql_error_noclose` contains `return (-1)`. Everything after it is
  dead, the ROLLBACK of six of the seven handlers included (`BareReturn`). Only
  `update_avatar` rolls back.
- the results of START TRANSACTION and COMMIT are not looked at.
- `!gweb_mysql_check_uid_email(...)` takes a failed lookup (-1) for a
  registered user (`CheckPreference`, `CheckLocation`, the upload's `IdField`).

The session (`MysqlSession`) is external code, modelled from how the handlers
use it. `view` is what the session sees, `db` what is committed. A lost
connection rolls back. The client library reconnects by itself, except when it
believes that a transaction was open: then the next command fails once. A
START TRANSACTION commits a transaction left open. Nobody else writes to the
database; the model has one server process.

Array messages always carry their array, and a preference message always names
its channels. Without the array `json_parser.c:355` hands
`json_object_array_length` a NULL and the process ends before any handler is
called: to the tables that is a crash between two requests, which the runs with
`crash` have. The HTTP layer between the handler's return value and the client
is modelled by `status`: success is 200, anything else 404
(`gweb_build_http_response`).

### The queries

`QueryHandlers` adds the queries to the same session and thread: a query begins
when no update runs (`pc = "idle"`) and the other way round. `at` is its next
`mysql_query`, `waits` the ping before it. A list (`cxn_request_query`,
`cxn_channel_query`) first selects its rows into `found`, and then looks up, for
every row, the user at its other end with a command of its own (`ShowRow`); a
row whose lookup fails, or finds nobody, is taken back and takes no room
(`SkipRow`). `shown` is the response. The loop ends when the rows do or when the
response is full (`MaxRows`). `SelectFails` is the early return that leaves the
response with the code it had: `code` is what the body says, `http` the status.

A piece of data is a pair of its table and its row, so that "committed" can be
said of it: `AnswersCommitted` compares `found` and `shown` with `db`.

The handlers forget a row they take back. `AnsweredLists` adds a history variable
that does not: `missed` holds the rows of the list being fetched whose lookup
failed. It only watches (`Observe`); `ObservedSpec` has the behaviours of
`ServerSpec`. With it `ListsComplete` can say that a failed lookup costs the one
row it was for, and neither the place of another nor the rest of the list.

### Neighbours

`Neighbours` is apart from the session because its hazards are others: time and
distance. `now` is the clock, moved by `Tick` between any two commands. A place
is stored with the second it was seen; `Expired` reads that time back as
`gweb_check_time_expired` does, with `mktime`, which takes a UTC time for a
local one: `Zone` is what that adds. Positions lie on a line; the distance is
the database's (`libgeod_inverse`, external). `Nearest` is ORDER BY, and the
handler fetches the rows one at a time, reads the clock for each (`SkipExpired`)
and looks its user up (`NameRow`).

### The uploads

A form is a sequence of fields; the image comes in blocks. A file is a sequence
of blocks; writing behind its end leaves a hole. A field is one step, since
fields of different connections alternate. The completion is four steps, during
which no other callback runs and only a crash can come between: open and
truncate the published file, copy the cache file, `update_avatar`,
`avatar_query`. The last two go through the JSON post processor, which returns
0 for a handler that failed but left a response: `RecordUrl` may therefore go
on without having recorded anything. The upload's use of the database is the
set of registered users (which only grows: `NeverForgets` of the update
handlers) and the users whose URL is recorded.

### HTTP connections

An action is a call of libmicrohttpd: the first call of
`mhd_connection_handler` (`RefuseRequest`, `AcceptRequest`), one for a piece of
the body (`HandleJson`, `HandleFormField`, `HandleUploadField`), the last one
(`AnswerPost`, `AnswerUpload`, `AnswerGet`), and `mhd_request_completed`
(`Completed`), which also follows when the client goes away. `refs` counts the
response objects made for a connection and not destroyed; `Build` is
`gweb_build_http_response`, which writes the new response over the one the
connection holds. What an API does with a piece is its outcome; the status
of a form's field is undefined in the code and so either.

The code relies on a post processor that hands a JSON body on. The
libmicrohttpd of the distributions creates none for `application/json`; with it
`RefuseRequest` is the only outcome of such a request, which the model allows
under `memory`.

### UIDs

A number of 40 bits is a function from its nibbles, a word one from its bits:
shifts and masks become index arithmetic, and nothing is lost by the 32-bit
integers of the checker. The decimal number of the digits is kept as a pair of
five digits each. The hash's table is the constant `BuzBucket`; the instances
give it the words of `uid.c` for the characters they use. The way back is in the
test of `uid.c` (under `#ifdef TEST`). `UidRegistry` lets people register in any order:
`Known` is the check of `gweb_mysql_check_uid_email`. Phones and e-mails are
sequences over the characters the table has (`Texts`), or missing; who leaves
one of the two out gets the empty UID (`uid.c:207`).

### The life cycle

`main` is the next step of the main thread, `thread` the callback the daemon's
thread is in, `Loop`, or `Off`. A callback that uses the session takes two or
more steps, so that start-up and shutdown can come between. SIGUSR1 is taken by
the main thread (the kernel's choice when it does not block the signal) and is
sent once. `MHD_stop_daemon` tells the thread and joins it, and the loop looks
at that flag between two rounds. When start-up fails after the daemon was
started, `g_daemon` is still NULL and `main` returns with the daemon running
(`Return`). `Configuration` keeps the types of the elements in the file, since
which of them are there decides what start-up does.

## Runs

Faults of the session: `drop` connection lost between commands; `outage` also
under a command, with its answer, and reconnecting may fail; `reject` the server
refuses a write; `crash` the process dies and restarts. Uploads: `block`,
`copy`, `lookup`, `update` fail; `abort` the client goes away. HTTP: `memory`,
`frame` no memory, no response; `abort`. Neighbours: `name` the lookup of a row's
user fails, `command` any other.

| run | faults | shows |
|---|---|---|
| `UpdateAllFaults` | all four of the session | `TypeOK`, `UpsertedOnce`, `PhoneHasOwner`, `CheckedKeyIsFree`, `NeverForgets`, and the invariant `KeptInv` of the proofs |
| `UpdateRejects` | reject, crash | `ReferencesRegistered`, `AcknowledgedIsStored`, `ReplacedOnce`, and the invariant `EffectInv` of the proofs |
| `ServerDrops` | drop, crash | updates with queries: `ImplementsService` (refinement of `AtomicUpdates`), `QueryTypeOK` |
| `ServerOutages` | drop, outage, crash | updates with queries: `ReplacedOnce`, `NoTransactionAtRest`, `AnswersCommitted`, `ListsComplete`, and every request is answered, `RequestAnswered` |
| `NeighbourQueries` | command; the host at UTC | `TypeOK`, `NeighboursFresh`, `NeighboursComplete`, `NeighbourAnswered` |
| `UploadOwn` | copy, lookup, abort, crash | `TypeOK`, `AnsweredIsPublished`, `AnsweredIsRecorded`, `FailedIsNotAnswered`; one user per connection |
| `UploadShared` | block, copy, update | `CacheOfRegistered`, `DescriptorsOwned`, `UploadAnswered`; one user, two connections |
| `HttpRequests` | memory, frame, abort | `TypeOK`, `HeldResponseExists`, `ResponsesOwned`, `AnswerIsOutcome`, `RequestAnswered` |
| `UidVectors` | | `PhoneRecovered`, `RefusedForReason`: the eight vectors of the test in `uid.c`, and others |
| `Lifecycle` | failed starts, any configuration | `TypeOK`, `StopsBetweenRequests`, `ServesEquipped`, `SignalEnds` |

Two runs show the code against its own words:

| run | what is said | what happens |
|---|---|---|
| `HalfRegistration` | "Atomic transactions" (`mysqldb_handler.c:41`) | a refused phone insert; the user row is committed by the next request |
| `MixedUploads` | "save a copy in local cache and then copy the file" (`avatardb.c:4`) | an upload answered 200 published another upload's blocks |

### Where the properties end

Each property is checked under the strongest faults it survives. What lies
beyond is behaviour of the code; a change of the constants shows it:

- `ReplacedOnce` survives refusals and survives outages but not both together,
  nor a preference message that names one channel twice
  (`mysqldb_handler.c:1724`).
- `AcknowledgedIsStored` does not survive a drop: the result of the COMMIT is not
  looked at (`mysqldb_handler.c:69`).
- `ImplementsService` survives neither a refusal nor an outage: a transaction is
  left open, or START fails and the statements commit one by one.
- `AnswersCommitted`, `NoTransactionAtRest` and `ListsComplete` survive
  everything but a refusal; then a query reads what may still be rolled back.
- `ListsComplete` allows for the rows whose own lookup failed. That a list has
  every row that matches, and was asked for a registered user
  (`AnswersComplete`, proved only), needs that no lookup fails; so does
  `NeighboursComplete` (`name` of the neighbours): the row is left out.
- `NeighboursFresh` is violated on a host west of UTC, `NeighboursComplete` on
  one east of it (`mysqldb_handler.c:100`).
- `AnsweredIsPublished` and `FailedIsNotAnswered` need that no write of a block
  fails (`avatardb.c:259`), the second also that a form has one id: a form
  with a registered and then an unregistered one is refused that field and
  still completed under the second id, which succeeds if its user registers
  meanwhile; `AnsweredIsRecorded` that `update_avatar` does not fail after its
  lookup; `CacheOfRegistered` that the lookup of the id does not fail
  (`avatardb.c:232`); `DescriptorsOwned` that no client goes away.
- `ResponsesOwned` is about the connections whose requests make one response
  each (`Careful`): a second response is written over the first
  (`gweb_server.c:158`). `AnswerIsOutcome` leaves out forms, whose status is
  never set (`gweb_server.c:207`).
- `ReferencesRegistered` needs that lookups are answered and stay true: a failed
  one is taken for a registered user (`mysqldb_handler.c:1883`).
- `RefusedForReason` names the two ways in which users collide: the same first
  ten digits and e-mails that hash alike, as two with characters 32 apart
  swapped do (`uid.c:220`), and no phone or no e-mail, which gives everybody the
  same empty UID (`uid.c:207`). For the same reason `PhoneRecovered` is about
  users with both.
- `ServesEquipped` begins when start-up has ended: the daemon answers before
  (`gweb_server.c:470`). `StopsBetweenRequests` begins when the handler of
  SIGUSR1 is installed (`gweb_server.c:503`): before, the signal kills the
  process, under a callback if one is running.
- `RequestAnswered` of HTTP leaves out a POST whose client does not send the
  rest of its body: the server has no timeout of its own.

### Bounds

Updates: two users who register and a third id that never can (its e-mail is
taken). One request runs at a time, so what matters is the sequence of requests,
which is not bounded: every message can come any number of times, and the tables
are bounded because rows with equal columns are only added where a property
fails. The message sets differ per run: `UpsertMessages` for the tables never
deleted from, `ReplaceMessages` for the replaced ones, `AllMessages` with every
API and every missing field. One address, handle, URL and place suffice, since
the properties compare keys; two channels, two flags and two preferences make
the replaced sets differ in size and content.

Queries: every API, with queries for an unregistered user and with missing
arguments, in `ServerDrops`. `ServerOutages` is about lists: three users who
register, room for two rows in a response, and lists of up to three rows whose
other ends are different users, so that a list ends by either condition and a row
before, between or after others is shown or lost by a failed lookup. (A row whose
user is not there, which `SkipRow` leaves out, too, takes a refused statement and
a lost connection; the proof of `ListsComplete` has that case.)

Neighbours: three neighbours in the asker's radius and room for two, one of them
gone after the second he was seen in, one who never goes; a place just outside
a smaller radius; a clock of three seconds (`Horizon` is the last), one more than
the longest expiry but the one that is never.

Uploads: two connections, images of one and two blocks (so that a shorter one
follows a longer one and a block lies behind the end of a truncated file), an
id that arrives in two pieces, forms without an image or with the image before
the id. Two descriptors let both cache files be open and the published one
fail.

HTTP: two connections, one whose requests make one response each and one with
bodies of two pieces, in both orders of success and failure. A connection serves request after request; `MaxLost` bounds how
many responses it may have lost before no further one that could lose one
arrives.

UIDs: the eight people of the test in `uid.c` (two share a phone, and three
numbers begin with zeros), and eight more: all nines, a number with a sign and a
dash, one that is too short, two who share a phone and have e-mails that hash
alike, two without a phone and one without an e-mail.

Life cycle: two connections, and every configuration file that differs in what
start-up does.

### Fairness

Nothing is ever asked of clients, of the database or of the clock; each
condition says that a thread of the server goes on.

- `UploadAnswered`: strong fairness of the completion of each connection: the
  select loop of libmicrohttpd serves every ready connection in each round, and
  a completion waits only while another callback runs.
- `RequestAnswered` of the queries and updates: weak fairness of the handler's
  own step. The thread runs a handler to its return; a lost connection makes a
  command fail, never wait.
- `NeighbourAnswered`: weak fairness of the query's step, the clock running on.
- `RequestAnswered` of HTTP: weak fairness of the handler's calls, for each
  connection. The property supposes of the client only that the connection is
  not from some time on waiting for the rest of a body (`WaitsForClient`); a GET
  never does.
- `SignalEnds`: weak fairness of each of the two threads. The join has to wait
  for a round of the loop, which is finite because a round is fixed when it
  begins.

So a client that stops sending is no counterexample to the HTTP property, nor to
`UploadAnswered`, which begins when the form has arrived.

## Proofs

TLAPS proves, for all sets of users, e-mails, messages, connections and so on:

| module | theorems | beyond the named assumptions |
|---|---|---|
| `UpdateProofs` | `TypeCorrect`, `KeptInvariant`, `UpsertedOnceHolds`, `PhoneHasOwnerHolds`, `CheckedKeyHolds`, `NeverForgetsHolds` | none, under every fault |
| `UpdateProofs` | `RestHolds`: no transaction at rest | no refused statement |
| `ServiceProofs` | `ReplacedOnceHolds` | `Steady`: not both dropped connections and refused statements; `DistinctChannels`: no message names a channel twice |
| `ServiceProofs` | `ReferencesRegisteredHolds`, `PlansHaveTheEffect` | `Calm`: no dropped connection, or drops with neither outages nor refusals |
| `ServiceProofs` | `HandlersImplementService`: the refinement of `AtomicUpdates` | `Faithful`: no refused statement, and drops without outages |
| `ServiceProofs` | `AcknowledgedIsStoredHolds` | no dropped connection |
| `QueryProofs` | `ServerTypeCorrect`, `QueryTypeCorrect` | none, under every fault |
| `QueryProofs` | `AnswersCommittedHolds`, `ListsCompleteHolds` | no refused statement |
| `QueryProofs` | `ServerReplacesOnce` | `Steady`, `DistinctChannels` |
| `QueryProofs` | `ServerImplementsService`, `AnswersCompleteHolds` | `Faithful` |
| `NeighbourProofs` | `NeighboursTypeCorrect` | none |
| `NeighbourProofs` | `NeighboursFreshHolds` | `Zone >= 0` |
| `NeighbourProofs` | `NeighboursCompleteHolds` | `Zone <= 0`, no failed lookup of a name |
| `UploadProofs` | `UploadTypeCorrect` | none |
| `UploadProofs` | `CacheOfRegisteredHolds` | no failed lookup |
| `UploadProofs` | `AnsweredIsRecordedHolds` | no failed UPDATE |
| `UploadProofs` | `DescriptorsOwnedHolds` | no client goes away |
| `UploadProofs` | `FailedIsNotAnsweredHolds` | no failed write of a block; forms `InTurn`: the parts of the ids in one stretch, those of the image in another |
| `UploadProofs` | `AnsweredIsPublishedHolds` | the same, blocks `InOrder`, connections `Apart`: no two upload for one user |
| `HttpProofs` | `HttpTypeCorrect`, `HeldResponseHolds`, `AnswerIsOutcomeHolds` | none |
| `HttpProofs` | `ResponsesOwnedHolds` | none; the property is about `Careful` connections |
| `UidProofs` | `BinaryRestored`, `NumberRestored`, `TextRestored`, `UidGivesBack`, `PhoneRecoveredHolds`, `RefusedForReasonHolds` | none |
| `LifecycleProofs` | `LifecycleTypeCorrect`, `StopsBetweenRequestsHolds`, `ServesEquippedHolds` | none |

The conditions in the third column say where a property ends, as "Where the
properties end" has it, and the runs keep them: a run has the faults its
properties survive, and the forms of `UploadOwn` are in turn, in order and
apart. `InTurn` and `InOrder` are what browsers send; a form with an image
before its id is among those of `UploadOwn`. The named assumptions are about
the constants: names of faults, the shape of messages and queries, the mark for
a missing field being no value, finitely many connections, the ids that forms
hold, positive limits, that a configuration file's root is one of the roots,
that phones and e-mails consist of characters the hash has a word for.

**Updates under every fault.** None of the properties is inductive. A handler
looks something up, and writes on the strength of it several commands later,
when the connection may have been replaced and a transaction of an earlier
handler committed or rolled back. `KeptInv` says why the lookup still stands:

- `SessionInv`: an open transaction has a live connection and the library knows
  of it; without one the session sees exactly what is stored.
- `TablesInv`: of the tables nobody deletes from, the session never sees less
  than is stored. So a rollback can only shrink what the session sees: what a
  lookup did not find does not appear by a rollback, a commit or a reconnect.
- `PlanInv`: an INSERT into such a table is the first statement of the plan, of
  a key the session does not see; the phone of a registration comes after its
  user row, which the session sees, or lost in a way the library reports at the
  next command, so that the phone is not written.

The proof has one lemma per action. `CommandEffect` reduces every command that
is not a statement to three cases (nothing changes, the transaction becomes
stored, it is rolled back), and `StatementTables` treats the statements.

**The tables that are deleted from.** There a rollback brings rows back, so
that what a lookup did not find may be found later. `QuietInv` says of which
faults this is kept apart: without drops the connection stays up; with drops
alone nothing is open between two handlers. `ReplacedInv` keeps the plan
`FreshPlan`: a key it inserts is not seen, or an earlier statement of the same
plan deletes it, and no other inserts it. A connection lost in a transaction
(`Lost`) ends the plan, since the library reports it at the next command.

**The refinement.** What has to be shown is that the COMMIT of a handler
is a `Grant`: it stores the whole effect of the request and nothing else, or
nothing. `ReferencesInv` says that past its check a request may still
be granted, for what the session sees. `EffectInv` follows the plan:
while a handler looks things up, running the plan it has built would give the
effect of what it has looked up so far (`Building`); once it executes, running
what is left on what the session sees gives the effect of the request on what is
stored (`Run`, `Effect`), whichever statements have been executed. At the
COMMIT nothing is left, so the session sees the effect and stores it, or has lost
it with the connection. Every
other step either stutters, begins or ends a request, refuses it, or grants what
is there already (`LookupChannel`).
`AcknowledgedIsStored` takes the same invariant under refusals, where the
transaction a handler leaves open is committed by the next: `ChannelsInv` adds
that what is seen of the channels outside a COMMIT is stored, since a channel is
opened by the last statement of a plan only.

**Queries.** `QueryProofs` cites the step lemmas of the updates as they are: a
query's command is a lookup of the session. `AnswersCommitted` follows from
`RestHolds`, by which a query that starts with no transaction open sees exactly
`db` from its first command to its last, over any reconnect; the refinement
from the same steps, a query being a stutter of the service. For
`ListsComplete`, `DueInv` says of a list being fetched that every row that is due
is still to be fetched, shown, or lost by its own lookup, that none is in two of
these places, and that there is room for another; a lookup is answered or fails,
never both (`AnswerHeard`). That an answer counts its rows at all needs finite
tables, which `FiniteInv` keeps. `AnswersComplete` is the case without failed
lookups, by the same count (`ListInv`); that every row's user is found is then
`ReferencesRegistered`.

**Neighbours.** `FreshInv` adds what the clock does: `since` is not later than
`now`, and with the zone not behind UTC a row that looked fresh when the clock
was read was fresh when the question was asked. `CompleteInv` is about the rows
the loop is done with: whoever it has passed over has expired and stays so
(`PassedOver`), and nobody left to fetch is nearer than anybody shown
(`NearestFirst`).

**Uploads.** `Typed` keeps a connection's form and id in their types, and one
lemma per kind of action says what it does to the connection it serves
(`ImageEffect`, `AnswerEffect`, ...). `CacheInv` holds the cache against the
connections: whoever could still open a cache file has an id that was found, and
users stay. `RecordInv` follows a completion from `update_avatar` to its answer.
`OpenInv` counts descriptors: a step changes the two sets of connections that
hold one only by the connection it serves (`CountOne`), and one that is closed
or answered holds none. `InPlace` says where an upload stands in its form: a
file is open once a part of the image has come after an id that is registered,
and then no field has failed. `PublishedInv` adds what the cache file then holds
(the parts that have come, `Written`) and, once it has been copied, what the
published one holds (`Shown`); no other connection touches either while the
ids are apart.

**HTTP.** A callback touches the count and the response of its own connection
only (`OneConnection`, `OthersUntouched`). `MakesOne` says why none is lost on a
careful connection: what is left of a body and the response held are together at
most one. `ServedInv` follows a request to its answer: what the connection has
yet to hand over is a suffix of a body that was sent, and a 200 it holds or has
queued is the outcome of an API.

**UIDs.** `DigitsRestored` needs that the two tables are inverse permutations,
`NumberRestored` that each round of the bit shuffle is undone and that the hash
occupies other bits than the number. The loops of `uid.c` are recursive
functions over an interval. Induction over their index goes through sets: a set
of numbers has a least element (`LeastNumber`, from `WFMin` of the library), so
one that has 0 and with a number the next has the whole interval (`Stepwise`),
and a function that takes a value from the last one exists (`Recursion`). With
them `BinaryRestored` undoes the halvings of a ten-digit number by doublings,
`DecimalRestored` its digits, and `TextRestored` the text without its leading
zeros. `UidGivesBack` puts them together: the text of a UID determines the
first ten digits of the phone and 30 bits of the hash. Hence no UID is
taken for any other reason than those (`RefusedForReason`).

**Life cycle.** `MainInv` says which of the globals are set at each step of
`main`, `ThreadInv` where the daemon's thread can be. After the join the thread
is off, and nothing starts it again. The types need one thing more: that the
thread is not in a callback that has returned (`Inside`).

Only model-checked: the liveness properties (`RequestAnswered`, of the server
and of HTTP, `UploadAnswered`, `NeighbourAnswered`, `SignalEnds`), as fairness
and ENABLED are beyond the prover. Every safety property of the passing runs is
proved.

## Not modelled

- the schema tool and its migrations, the random-table generator and the test
  client: run by hand, straight-line, without state that lasts.
- the text of JSON messages and responses, escaping included, and the values of
  configuration elements: no property tells them apart.
- what is undefined: the character above 127 of `uid.c:70`, the field that is an
  array where a string is expected (`json_parser.c:372`), the NULL stream of the
  daemon's logger (`gweb_server.c:472`). All three are listed as hazards.
- a GET that carries a body, whose data `gweb_server.c:276` answers without
  consuming, and an allocation that fails in the 404 of `mhd_send_page`.
- a second SIGUSR1 during the shutdown, more than one server process on one
  database.

## Plan

1. done: tables, session, update handlers, abstract service and their proofs;
   uploads; queries; neighbours; HTTP connections; UIDs; life cycle.
2. done: proofs of uploads, neighbours, HTTP, UIDs and life cycle; the step
   simulation of the refinement; every safety invariant of the runs.
3. open: the uploads' use of the database over the session model instead of the
   set of registered users; the array messages of `json_parser.c`.

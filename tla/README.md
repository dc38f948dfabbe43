# Verification of tdiscuss

tdiscuss is a discussion board for a tailnet: a Go server (`src/*.go`,
`src/middleware/`) in front of a PostgreSQL database whose triggers and
functions (`src/sqlc/schema.sql`) keep much of the board's logic. This
directory holds TLA+ models of the parts in which requests meet each other,
TLC configurations that check them on small instances, and TLAPS proofs of
the properties that matter most, for every value of the constants.

Each module translates the source; `PROJECT.json` maps every definition to the
lines it stands for.

## 1. Inventory

A request passes the middleware chain (context, metrics, logging, security
headers, size limit, **rate limiter**, **authentication**, cross-origin check,
admin check), then one handler, which runs queries through a pgx pool of four
connections. All shared state is in two places: the database, and the rate
limiter's table. Requests run in goroutines of their own; they wait for each
other only on row locks and unique keys of PostgreSQL, on the pool, and on the
mutexes of the limiter. The limiter's cleanup goroutine runs beside them; main
starts two servers and waits for a signal.

| Component | State | Operations | What is hard | What makes it correct |
|---|---|---|---|---|
| Posting (`handlers.go` CreateThread, CreateThreadPost; triggers `thread_sync`, `thread_post_sync`) | `board_data`, `member`, `thread`, `thread_post`, `thread_member`, two sequences | create a thread with its first post; reply | overlapping transactions, lost updates, commit order, failures between statements, lost commit answers | totals equal the rows; no thread without its opening post; redirect only for a stored post; posting looks atomic |
| Sign-in (`middleware_auth.go`, `createOrReturnID`, `member_sync`, AdminPOST `delete_member`) | `member`, `member_profile`, `board_data.total_members` | identify, look up or sign up, admit, check admin, block | several statements, each with its own snapshot; unique keys; first visits at once | sign-up is whole and unique; an admin exists; blocked members stay out; everybody is answered |
| Editing and settings (EditThread, EditThreadPost, AdminPOST `update_config`) | `thread`, `thread_post`, `board_data` | show a form, edit a thread, edit a post, set title and window | the form's SELECT, the handler's SELECT, the comparison and the UPDATEs in separate transactions; a time window that closes in between; partial failure | only one's own text changes, to what the form says, in time, whatever the URL names |
| Reading pages (ListThreads, ListThreadPosts, ListMember) | none of their own | read | several snapshots per page | a page misses no post; an offered edit is accepted |
| Rate limiting (`middleware_ratelimit.go`) | table of visitors, token buckets | look up, admit, refuse, cleanup | bucket methods interleave; cleanup while a limiter is in use | bounded admissions; refused requests gain nothing; the table is emptied |
| Startup and shutdown (`main.go`, `server.go`, `helpers.go`) | the pool, two servers, the signal channel, the requests in flight | start, ask Tailscale, serve, shut down, exit | each step of startup may fail; signals at any time; timeout racing completion; `os.Exit` against deferred calls | one signal ends the process; requests are let finish; the exit code tells the truth |
| Response writing, recovery, chains, headers (`routes.go`, `middleware_setup.go`, `middleware_core.go`, `middleware_observability.go`, `middleware_security.go`) | header state of nested writers, request context, gauge of active requests | pass down a chain, refuse, write, panic, recover | writers that each believe what they were told; a panic before or after the first byte; order of middlewares | what is recorded was sent; no handler without its checks; headers on every answer; one answer per request |
| Forms: validation, sanitising, profile (`validation.go`, `parser.go`, EditMemberProfile) | `thread.subject`, `member_profile` (`thread_post.body` is outside the model) | sanitise, validate, filter, store, show again | checks come before rewriting; references hide what the checks look for; the browser rewrites line ends | what is valid is storable; what is stored fits; resending changes nothing |
| Telemetry, templates, packaging | counters | – | – | – |

`PROJECT.json` lists the components with the reason for each that is not
modelled, and the hazards line by line.

## 2. Modules

| Module | Role |
|---|---|
| `Board` | posting, statement by statement, with the triggers |
| `BoardSpec` | what posting promises: a post and all its summaries in one step |
| `BoardRefinement` | `Board` implements `BoardSpec` under a refinement mapping |
| `BoardInduction` | the inductive invariant of `Board` |
| `BoardProofs` | TLAPS proofs about `Board`: types, totals, the inductive invariant |
| `BoardSummaryProofs` | proofs about its summaries, and of the refinement |
| `SignIn` | authentication, `createOrReturnID`, admin check, blocking |
| `SignInInduction`, `SignInProofs` | its inductive invariant and proofs |
| `Editing` | edit forms, edits of threads and posts, pages, board settings |
| `EditingInduction`, `EditingProofs` | its inductive invariant and proofs |
| `RateLimit` | visitors, buckets, cleanup |
| `RateLimitInduction`, `RateLimitProofs` | its inductive invariants and proofs |
| `Serving` | the chains, the nested writers, panic and recovery |
| `ServingInduction`, `ServingProofs` | its inductive invariant and proofs |
| `Shutdown` | the process from `main` to `os.Exit` |
| `ShutdownInduction`, `ShutdownProofs` | its inductive invariant and proofs |
| `Forms` | a subject or a bio from the form to the column and back |
| `FormsInduction`, `FormsProofs` | its inductive invariant and proofs |
| `MCBoard`, `MCSignIn`, `MCEditing`, `MCRateLimit`, `MCServing`, `MCShutdown`, `MCForms` | instances for TLC |

The components meet in the database. `Editing` uses posting as one atomic
step, which is what `BoardRefinement` shows of `Board`; `Board` uses members
that are signed in, which is what `SignIn` provides; blocking does not touch
the columns the others use. `Serving` takes any decision of the limiter and of
sign-in, and shows that no handler of the other modules starts without them;
`Shutdown` takes a request as a whole, and shows when it may be cut off: in
the other modules that is a failing statement and a rollback. What `Forms`
finds of a subject is the value `Editing` stores: `Empty` of `Editing` is a
subject the filter empties. A body is an opaque value in `Editing`: what the
libraries have made of what was typed.

### Board

A request is one transaction. Its `pc` names the statement it runs next:

    insertThread -> threadMember -> threadBoard -> currval     CreateThread
      -> insertPost -> postMember -> postBoard                 both
      -> snapshot -> postThread -> checkView -> commit         both

The committed tables are variables; what a transaction has written is kept in
`tx[r]` until `Commit` installs it. Row locks are in `held`. PostgreSQL is
modelled at READ COMMITTED, the default the pool uses: an UPDATE waits for the
holder of the row and then reads its newest committed version, a statement's
subqueries read one snapshot (`TakeSnapshot`) plus the transaction's own rows,
and sequences are not rolled back. The last UPDATE of
`thread_post_sync` is two actions, its snapshot and its write. What makes them
safe is the row of `board_data`: every posting transaction updates it first
and keeps it to its end, so no other post is committed in between. The order
of the statements is therefore part of the model. `Fail` ends
any statement with a rollback; `CommitUnheard` commits and loses the answer.
Forms that do not validate are `Refuse`. A reply names a thread that is
committed when the request begins, or none: replies are written on the page of
a thread. handlers.go:365 takes any number, so somebody who guesses the id of
a thread that is just being created could have it committed between `now()`
and the INSERT and be dated before the opening post; `OpeningPost` rests on
leaving that out. The deferred `tx.Rollback` is part of
every failing action. No query of the program deletes a row, so the DELETE
branches of the triggers are not modelled. `now()` is the start of the
transaction.

### SignIn

`Identify` is the WhoIs call; the statements of `createOrReturnID` follow one by
one: count, find, insert, the trigger's update, the profile, commit. Each sees
what is committed when it starts. An INSERT whose lower-case key an unfinished
transaction has taken waits (`KeyFree`, `KeyTaken`). An e-mail is an address
and a spelling, because the row is looked up by its exact text and the unique
index is on `LOWER(email)`. NULLs that COALESCE reads as false are FALSE.
After that come the decisions of `authMiddleware`, `requireAdminMiddleware`
and the `delete_member` branch of AdminPOST.

### Editing

A form is filled in by a SELECT (`EditThreadGET`, `EditThreadPostGET`) and sent
later, or sent by anyone with any ids in the URL, of rows or of none
(`BeginEdit`, `Id`). The URL of a post edit names a thread as well, which the
handler never compares with the thread of the post (handlers.go:743): a post of
one thread can be edited under another's address, and the redirect goes there.
The edit is a SELECT, a comparison, and one or two UPDATEs, each in a
transaction of its own. `GetThreadForEdit` may return any post of the thread,
as the query has no order. A page is one SELECT or two (`GetThreadSubjectById`,
then `ListThreadPosts`), with others writing in between; it is kept in `req` as
the rows it shows, those it offers to edit and the moment it was read. The
window of 900 seconds is `Window`; the stored edit window is a separate field,
as in the program. A missing row and a failed query have the same answer,
because `TracedQueriesWrapper` wraps every error (traced_querier.go:223) and
the handlers compare with `==` (handlers.go:572).

### RateLimit

Bucket levels are counted in ticks, so that fractions of a token are integers.
`Allow`, `Reserve` and `Cancel` of golang.org/x/time/rate are atomic under the
bucket's mutex and are modelled from their use (external); the clock is read in
the same step. `getVisitor` is one step under the table's mutex. The
authenticated and the admin chain each have a limiter of their own; `RateLimit`
is one of them. Authentication comes after the limiter, so a key is always an
address. Two assumptions on constants reflect the configuration: a bucket fills
in far less than the cleanup interval (5 s against 5 min), and a request does
not sleep between `getVisitor` and `Allow` for longer than the difference. Time
does not pass the moment at which a cleanup is due until the cleanup has run:
the ticker of the model is never late, which Go does not promise, so that
`VisitorsForgotten` speaks of a ticker on time. `unspent` is a history
variable: the level the bucket would have if refused requests had not touched
it.

### Shutdown

`main` is a program counter over the steps of `main.go`; each step of startup
either goes on, exits with 1, or panics (a nil telemetry, client or status is
dereferenced), and only a panic runs the deferred calls. `sigChan` is the
channel with one place; `caught` remembers the signals it took. Of net/http's
`Shutdown` the model has what its documentation promises the caller: listeners
first, then it waits for idle connections or the context. A handler that is
still running when the process exits is `cut`. The two goroutines of
`waitForShutdown` are `shutter`; their tokens are counted.

### Serving

A chain is a sequence of the middlewares `middleware_setup.go` and `routes.go`
put together. A request goes `down` it by one middleware at a time, comes
`up` after a refusal or the handler, or unwinds in `panic`. `stack` holds its
writers, the recovery writer outermost. `WriteHeader` of a writer is passed on
only if it is the first, so a status moves outwards to the first writer that
has sent one. What each layer records is kept in `reported`, what net/http
sends in `wire`, who wrote to the body in `body`. Handlers write any number of
times and panic anywhere; `AdminAudit` panics for a request without a user.
`big` is a POST whose declared Content-Length is over the limit. A body that
declares none and grows over the limit while it is read is an error of
ParseForm behind MaxBytesReader, one of the answers of `HandlerWrites`. A
recovered panic sets two headers of its own (routes.go:207) and counts as
`secured`; on the routes `AnswersAreSecured` is about, the headers middleware
has run before any panic of the model. A panic inside the middlewares before
it is not modelled.

### Forms

The story is about one column, `field`: a thread's subject or a member's bio.
The body of a post is left out. After validation it goes through goldmark and a
bluemonday policy (parser.go:17-93), and what is stored is the HTML these make,
longer than what was typed and ending in a newline (parser_test.go:210): a
model of it would be a model of the libraries, and none of the properties below
is true of it.

A text is a sequence of kinds of characters. `SanitizeInput` is its five
replacements in their order. A replacement that deletes is `Keep`, the elements
of a text at a set of positions, in order; one that rewrites is `Make`. Neither
recurses, so that texts of any length can be reasoned about. A letter stands
for every character none of them looks at, white space beyond ASCII included,
which TrimSpace would trim at the ends.

`ParseHTMLStrict` is the set of texts the two libraries behind it may return,
as their answers depend on more than the kinds. The policy takes out the tags;
with a tag it may take anything that follows (`Stripped`: the contents of a
script, the rest after an open tag). Then `html.UnescapeString` resolves every
reference (`Unescaped`): `&lt;b&gt;` leaves a tag, `&#13;` a carriage return,
`&#32;` a space, `&amp;lt;` another reference; `&#0;` leaves U+FFFD, a letter.
So a text typed with markup may be stored with carriage returns, untrimmed, or
as white space. A tag and a reference are one element each with its width.

The validators count runes; a byte that is not UTF-8 is one rune to them and
an error to PostgreSQL (`Accepted`). The address of the photo is filtered after
it was validated (handlers.go:474), so one with "<" or "&" in it may be stored
as another one, or as one that would no longer validate (`ParsePhoto`); an
edit form that shows it is then refused when it is sent back. `Refuse` is always
possible in `Handle`, because a form has other fields.

The browser is part of the model (`Sent`): an input has no line breaks, a
textarea sends each as CRLF (`WithReturns`), whether the text has LF, CR or
both.

## 3. Runs

| Run | Question | Bounds |
|---|---|---|
| `board_safety` | types, totals, opening post, last poster, views, answers; statement-level posting implements `BoardSpec` | 2 members, 3 requests, 3 connections |
| `board_live` | every request that began is answered | 1 member, 3 requests, 2 connections |
| `signin_safety` | whole and unique sign-up, an admin, blocked stay out; every request is answered | 2 addresses, 2 spellings, 3 requests, 2 connections |
| `editing_safety` | own edits, in time; offered edits are accepted; pages are whole | 2 members, 2 requests, 2 posts, 3 moments, a window of 1 |
| `ratelimit_safety` | admissions, refusals, forgetting | 1 visitor, 3 requests, 2 paths, 2 cleanups |
| `serving` | records, gauge, guards, headers, panics | 2 requests, 6 classes of routes |
| `shutdown` | cut requests, the pool, exit codes, force; a caught signal ends the process | 2 requests, 2 servers, 3 signals |
| `forms` | what is stored fits, valid is storable, stored is normal, resending changes nothing | every text of at most 5 elements of 8 kinds |
| `board_dates` (violation) | is `date_last_posted` the date of the post whose author is `last_member_id`? | 2 members, 3 requests |
| `signin_admins` (violation) | is only the first member made an admin? | 2 requests |
| `editing_form` (violation) | does a thread form write the post it shows? | 2 members, 1 request, 2 posts |
| `ratelimit_paths` (violation) | does a path have its own limits? | 3 requests |

Why the bounds are enough. The races of posting and sign-in are between two
transactions; the third request sets the scene (the thread two replies meet
in, the member that exists already) or comes after both. Two connections for
three requests make the pool run dry. Two members tell own rows from others'.
Two posts in a thread are the opening post and another one, which is what
`GetThreadForEdit` can confuse, and the ids 1 and 2 in a URL are those of two
rows, of one, or of none. There are three moments and the window spans two, so
that a reply may be a moment younger than its thread, and the time for the
thread may be over while that for the reply is not; the proofs are for every
window. One visitor is enough for the limiter, as
visitors share only the table's mutex; three requests are a burst of two and
one more, or one admitted and two refused at once, and seven ticks cover two
cleanups of interval three.

Two requests in `serving` share the gauge and nothing else; one of each route
would show the rest. In `shutdown` two requests can be on one server or on
both, and three signals are the one that is read, the one that waits and the
one that forces; signals beyond that are dropped. Texts of five elements reach
past every replacement (three newlines and one more, a NUL between two spaces
with a letter on each side) and MaxLength 10 is between the widths of five
letters and of two references, with room for one reference beside one letter.
In `forms` any text is typed into an empty form, and a few texts (`SomeTexts`)
into one that is filled in. `signin_safety` combines safety and liveness on an
instance small enough for both; its invariants are proved for every size. All
requests are alike, so its liveness property names one of them.

Deadlock checking is off except in `forms`, where there is always a next form:
each request is served once, and the model stops when all of them are answered;
the process of `shutdown` ends. That nobody waits for ever is what the liveness
runs show instead. In `board_live` a request that has no connection yet has not
begun, so that run is about the rows only; the waiting for a connection is in
`signin_safety`.

Symmetry is used in safety and violation runs only, never with a liveness
property. `PostingIsAtomic` and `EditsAreOwn` are checked with it: both are
safety properties whose formulas treat all members and all requests alike.
`signin_safety`, `board_live`, `shutdown` and `forms` use none.

**Fairness.** `FairSpec` of `Board` and of `SignIn` assumes weak fairness of
each request's own next statement: a goroutine that runs is scheduled and the
database executes what it is sent. Nothing obliges a client to send a request,
a statement to fail or an answer to be lost. Weak fairness is enough because
only finitely many requests compete, so a lock or a connection that is
free again stays free for the last one waiting.

`FairSpec` of `Shutdown` assumes weak fairness of main, of the servers'
goroutines and of the two that call Shutdown, that the 30 seconds pass, and
that `select` does not pass over a case that stays ready for ever (Go picks one
of the ready cases at random). Nothing makes a request finish, a signal come,
or Tailscale change its state: `SignalEndsProcess` therefore excepts
checkTailscaleReady, where a caught signal stops nothing (main.go:113).

Each violation run checks one sentence of a comment, a test or a log message
against what the code does; `PROJECT.json` "findings" quotes both.

- `board_dates`: replies that commit out of order leave a thread with the
  author of the newest post and the date of an older one.
- `signin_admins`: two first visits at once both become admins.
- `editing_form`: the author of a thread who has replied in it may see one
  post in the thread's edit form and overwrite the other, as the GET and the
  POST each take an unordered first row.
- `ratelimit_paths`: the first path of a visitor fixes the limits of all.

Other differences met on the way, of which no run claims anything:

- the row's `is_admin` is overridden for one request that counted no members
  before another request of its address signed up (schema.sql:227);
- nothing reads `board_data.edit_window` for a decision, the queries carry 900
  seconds (schema.sql:8, queries.sql:207), and AdminPOST stores windows that
  `ValidateAdminForm`, which nothing calls, would refuse (validation.go:235);
- an edit that comes too late updates no row and is logged as "post edited"
  (handlers.go:767); no query sets the column `edited` (schema.sql:68);
- a missing thread is answered 500, not 404: TracedQueriesWrapper wraps
  ErrNoRows and the handlers compare with `==` (handlers.go:572, 656, 958);
- a panic is counted in no metric, as the records of the observability
  middleware are not deferred (middleware_observability.go:104); after a panic
  in an answer that has begun, net/http finishes it as if it were whole;
- "all servers shutdown successfully" is also logged when both Shutdown calls
  returned at the deadline (server.go:273);
- the validators do not ask whether a text is UTF-8, so one that is not is
  answered 500 by way of the database, not 400 (validation.go:79);
- the thread in the URL of a post edit is not compared with the thread of the
  post (handlers.go:743), and a stored photo address need not validate
  (handlers.go:474);
- SanitizeInput removes NULs last, so what they kept apart stays untrimmed
  (validation.go:274), and an unchanged subject that contains unescaped markup
  loses it when it is sent again (parser.go:46);
- `ObservabilityConfig` of routes.go is not used by the chains, which make one
  of their own (middleware_setup.go:184); ipWhitelist lets everybody pass
  (middleware_ratelimit.go:334);
- a limit of an endpoint whose pattern holds "{tid}" matches no path
  (middleware_ratelimit.go:308), and the authenticated and the admin chain each
  have a limiter of their own;
- two overlapping refusals cost a visitor a token, because a cancelled
  reservation gives nothing back once a later one was made
  (middleware_ratelimit.go:237).

## 4. Proofs

tlapm checks all proofs; no step is left open. The assumptions are those the
modules name: a positive number of connections, a finite set of requests
(`Serving`), bounds that are numbers, markers that are not among the texts,
and for `RateLimit` that a bucket fills, and a request reaches it, well within
the cleanup interval.

**Board** (`BoardProofs`). `TypeCorrect`, `BoardTotalsCorrect`,
`MemberTotalsCorrect`, `ThreadTotalsCorrect` and `Inductive`. The totals are
not inductive: that an increment is right depends on the uncommitted row it is
computed from. `IInv` of `BoardInduction` adds, in the order the proof uses
them:

- `PhaseInv`: what a transaction has at each of its statements;
- `IdInv`: an id drawn from a sequence is nowhere else, in no table and in no
  other transaction, and a post's thread exists;
- `LockInv`: no two transactions hold the same row, and each holds exactly the
  rows of the UPDATEs it is past;
- `DraftInv`: hence an uncommitted row is the committed one plus the
  transaction's own increments, and nobody can make it stale.

Then a commit adds one row and one to each total concerned (`InstallCounts`),
and the cardinality lemmas of FiniteSetTheorems do the rest. Every other step
leaves the tables alone.

**Board, summaries** (`BoardSummaryProofs`). `OpeningPostCorrect`,
`LastPosterCorrect`, `OneViewPerPosterCorrect`, `AnsweredIsStoredCorrect`,
`AtomicPosting` and `SummaryInductive`. `first_post_id` is computed anew by
every reply as the earliest post the statement sees, so that it stays where it
is has to be proved. `SummaryInv` adds to `IInv`:

- `DateInv`: a transaction that can still commit began after every post of the
  thread it replies to was opened, because it found the thread committed, and
  the clock is ahead of all dates;
- `OpenedFirst`: hence the opening post is strictly the oldest of its thread;
- `ReadInv`: what a transaction has read since it took the row of `board_data`
  is still what is committed. Two transactions cannot both be past that
  statement (`OnlyReader`, from `LockInv`), so a commit makes nobody's
  snapshot, row of `thread` or answer about `thread_member` stale.

`AtomicPosting` is the refinement. Under the mapping of `BoardRefinement` a
commit is a post of `BoardSpec`, every other step a stutter (`StepMaps`), and
the summaries `BoardSpec` computes from the posts are those the columns hold,
in every state (`SummariesAgree`).

**SignIn** (`SignInProofs`). `TypeCorrect`, `SignUpIsWholeCorrect`,
`OneMemberPerAddressCorrect`, `SomeoneIsAdminCorrect`,
`DuplicateHasMemberCorrect`, `BlockedStaysOutCorrect` and `Inductive`. The
strengthening `IInv` of `SignInInduction` adds `KeyInv` (an unfinished insert
excludes every other of its address), `TotalInv` (one transaction at a time
has counted, from the committed total), `EmptyInv` (while the board is empty
every request that has counted found none, so whoever inserts is an admin)
and `BlockInv` (blocks are never undone and are read before the decision).

**Editing** (`EditingProofs`). `EditingTypes`, `OffersAreAccepted`,
`PagesAreWhole`, `EditsStayOwn` and `EditingInvariant`. An offer looks at the
date of the thread and the UPDATE at that of the post, so it needs that no
post is older than its thread (`RowsAreOrdered`), which in turn needs that ids
are handed out in order and dates never lie ahead of the clock. Pages need
what their first SELECT has read (`PageHasRead`), edits which row they have
found (`EditNamesRows`): for a thread edit a post of that thread, for a post
edit the post alone. `EditsStayOwn` is an action property proved from the same
invariant. Of a post edit it says that the post is the one the URL names,
whatever thread stands beside it; of a thread edit that the post is one of the
thread's, not that it is the one the form showed (`editing_form`).

**Serving** (`ServingProofs`). One theorem for each property of the run, and
`ServingInvariant`. A record is true because all writers of a request agree
with the wire at any time (`Told`); headers and guards follow from the
position in the chain (`Checked`); the gauge from the observability writer
being at most once in a stack (`Stacked`), by counting the requests that have
it. The set of requests is any finite set.

**Shutdown** (`ShutdownProofs`). One theorem for each invariant of the run, and
`ShutdownInvariant`. That a shutdown which reports two servers done has cut
nobody off needs that each goroutine's token is counted once
(`DoneIsCounted`) and that a server whose Shutdown returned in time has no
request left and takes none (`ReturnedIsQuiet`, with `CloseListener` first).

**RateLimit** (`RateLimitProofs`). `TypeCorrect`, `VisitorsForgottenCorrect`,
`RefusedGainNothingCorrect`, `AdmissionBoundCorrect`, `TableInductive` and
`DebtInductive`. Three invariants of `RateLimitInduction` build on one another:

- `TableInv`: the bucket a request is about to ask is the one its visitor has
  (`HeldInv`), although the lookup and the question are two critical sections
  and the cleanup may run between them. It does not take the row, because the
  row was just seen and a request does not stall for an interval.
- `DebtInv`: what the reservations of refused requests can still give back. A
  cancellation gives back a token less what was reserved after it; but
  cancelling the last reservation moves the last event back, and so does a
  later admission, so that others then return more, some of them more than one
  token. `Worth` prices a reservation at what its cancellation returns plus
  what it spares the others, a price that doubles with every token of debt
  (`Loss`). `CoveredBy` says that the bucket could be brought, by cancelling
  all of them in any order, neither beyond the level the admitted requests
  left nor beyond full. One lemma for each operation of the bucket shows that
  it stays so (`CoverReserve`, `CoverGrant`, `CoverCancel`, `CoverTick`), from
  two facts about the prices: a reservation costs at least its price
  (`UndoneReserve`) and a cancellation returns at most that (`GainIsWorth`,
  from the convexity of the losses, `LossConvex`). Finally `AddressInv`: a new
  bucket is nobody else's, so it starts without reservations.
- `LedgerInv`: for every stretch of admissions what they have cost, and that
  what the present bucket has left could have been spent as well (`Paid`). A
  bucket made after a cleanup starts full, and pays for itself by the interval
  without admissions that is behind it (`PastInv`, `PaidAnew`). A token that
  Allow finds is one the admitted requests left, by `RefusedGainNothing`.

So the bound holds over the whole life of a visitor, for any limits, any
number of requests and any number of cleanups. `Loss` is a recursive function;
that the recursion has a solution, and what it returns, is proved with the
least counterexample (`LeastNumber`) in place of induction.

**Forms** (`FormsProofs`). `TypeCorrect`, `StorableCorrect`, `NormalCorrect`,
`ResendCorrect` and `FormsInductive`, for subjects and bios of any length. That
needs facts about what each replacement leaves of a text. They are proved
without induction: `Keep` lists the positions it keeps in increasing order, and
the list is unique (`KeepLists`, `ListIsUnique`, both by the least
counterexample), so that two neighbours in the result are two kept positions
with none kept between them (`Neighbours`). Then each replacement is a question
about neighbours: `TrimSpaceEnds`, `OneSpaceNormal`, `TwoNewlinesNormal` say
what it establishes, and `SanitizeNormal` that the later ones do not undo the
earlier. For a form that comes back, `ReturnsUndone` says that `LineEndings`
takes out exactly the carriage returns the browser put in, and `NormalIsFixed`
that the rest of SanitizeInput does not touch a normal text. What is stored
fits the limit because the filter, which runs after the check, makes a text no
longer, whatever references stand for: every tag or reference that is left was
a reference, which is wider (`FilterText`, from `KeepAmong`). A text without
markup goes through the filter unchanged (`FilterKeepsPlain`). That what is
stored is UTF-8 is the database's doing (`SavedText`). `IInv` of
`FormsInduction` follows the text from step to step with these facts.

The inductive invariants were found with TLC, which checks them as invariants
of the same instances (each `MC` module extends its `Induction` module); the
runs leave them out, as the proofs cover every instance. `DuplicateHasMember`
of `SignIn` (a request refused as a duplicate finds its address taken by a
committed member) is only proved.

**Model-checked only.** Liveness (`EveryRequestAnswered` of `Board`, what
`SignIn` and `Shutdown` promise under fairness), which is beyond tlapm's
backends, and the properties the violation runs refute.

## 5. Not modelled

Telemetry beyond the gauge and the recorded status; the values of the security
headers; matching of URLs to routes (net/http) and of addresses to visitor
keys; what becomes of the body of a post between validation and the column
(goldmark and bluemonday); templates, static files and packaging;
`handlers_placeholder.go` and `ratelimit.go`, which nothing calls. The DELETE
branches of the triggers are never taken. A crash of the database is a failing
statement; a crash of the server leaves transactions to roll back, which is
`Fail`. Formatting, logging and tracing are left out.

## 6. Plan

Done: all components with shared state; every safety property of the passing
runs is proved, and so is the refinement of `BoardSpec`. What is left to TLC is
liveness.

# Kivia in TLA+

Models of Kivia (an API observability platform: a Go/Fiber server `core/`, a React
dashboard `frontend/`, PostgreSQL and nginx), checked with TLC on small instances and
proved about with TLAPS. Paths are relative to `src/`; `event.go` is
`core/internal/sse/event.go`.

## 1. Inventory

| Component | State it keeps | Operations | What makes it correct |
| --- | --- | --- | --- |
| SSE event server (`event.go`) | registry `clients` under `mu`, two unbuffered channels, `reqWg`, `SrvWg`, a context; one goroutine `Run`, a handler and a writer per stream | connect, close, broadcast, keepalive, stop | the registry is exactly the open streams; each stream gets its project's logs, in order, none twice; a broadcast never waits; no send meets a closed channel |
| API keys (`core/internal/api_key`, migrations 5, 6, 8, 14) | rows of `api_keys` | create (with the revoking trigger), revoke, delete, list | a finished revocation is final; no orphans; creations one after the other leave one active key |
| Log ingestion (`core/internal/log`, migrations 7, 12, 15) | rows of `logs` | `CreateLog`: two key reads, location lookup, broadcast, insert | dead keys are refused; an accepted log is stored; a stored log was broadcast once, to its key's project |
| Sessions (`core/internal/auth`, `refresh_token`, migrations 2, 3) | rows of `refresh_tokens` | login, Google login, refresh, validate | a pair of tokens is handed to one sign-in or refresh alone; a replaced token is refused (it is not) |
| E-mail verification (`auth_service.go` 58-197, migration 11; the register, verify and login pages) | rows of `email_verifications`, `users.verified`; a countdown and boxes per page | register, verify, resend | the attempts limit and the cooldown hold up to what overlaps and fails; the page's countdown covers the server's |
| Users, projects | rows of `users`, `projects` | register, edit, delete; create, list, delete | cascades leave no orphan |
| Log queries | none | paginated list, count, chart, percentiles | a log is on its page, and the count offers it |
| Dashboard API client (`frontend/src/lib`) | tokens in localStorage (shared by tabs), `refreshPromise` (per tab) | `apiFetch`, `refreshTokens`, login, logout | no token is exchanged twice by a page; every call ends |
| Dashboard live logs (`useLogStream.ts`, `projects/[id]/page.tsx`) | streamed logs, query cache, page, filters | stream, fetch, merge, filter, turn pages, refresh | what is shown belongs to the page and filter set; nothing is streamed twice; the badge tells the truth |
| Dashboard lists (`dashboard`, `projects`, `projects/[id]` pages) | query cache, pending calls, dialogs | open, refetch, create, revoke, delete | what a page was told of is in its fresh lists; a question is closed by its own call |
| Dashboard chart (`projects/[id]/page.tsx` 471-830) | the range and type that are chosen, the answer | choose, ask, draw | what is drawn fits the axis and is what the server answered |
| Server wiring, configuration, pool, nginx, deployment, landing page, profile form | - | - | not modelled: configuration, or no state of their own |

How they interact. The SDK posts a log; `CreateLog` reads `api_keys`, calls ip-api.com,
calls `BroadcastToProject` of the event server (a Go call, under its mutex) and inserts
into `logs`. Dashboard requests change `api_keys` and `users` in the same database, one
statement at a time, without transactions; triggers and cascades act inside a
statement. The dashboard holds one SSE stream per open project page and fetches pages
of `logs` besides it. Its pages share one query cache, and the tabs of a browser share
the tokens in localStorage.

The hard behaviours are: goroutines that meet on unbuffered channels while a mutex is
held (event server); the order of shutdown (`Stop`, contexts, wait groups); statements
of different requests that interleave (keys, sessions, codes); failure between the
steps of a request (broadcast, then insert); lossy delivery (dropped messages, broken
streams); answers that come after the page, the filter or the token they were asked
for has changed. The full list, with lines, is `hazards` in `PROJECT.json`.

## 2. Plan

| # | Module | Contents | State |
| --- | --- | --- | --- |
| 1 | `ProjectFeed` | abstract: a lossy, ordered, per-project feed | done |
| 2 | `EventServer`, `MCEventServer`, `MCRegistry` | the event server; implements `ProjectFeed` | done |
| 3 | `EventServerProofs` | types, registry, delivery, closed channels, shutdown, refinement | done |
| 4 | `ApiKeys` | key table, trigger, concurrent requests | done |
| 5 | `LogIngest`, `MCLogIngest` | ingestion over `ApiKeys` | done |
| 6 | `LogIngestProofs` | finality of revocation, one key per maker, no orphans, stored = accepted, broadcast once | done |
| 7 | `Sessions`, `SessionClient`, `MCSessionClient`, `SessionClientProofs` | the table of refresh tokens; the dashboard's tabs over it | done |
| 8 | `EmailVerification`, `VerifyPage`, `MCVerifyPage`, `VerifyPageProofs` | codes, attempts, cooldown; the pages over them | done |
| 9 | `LogView`, `MCLogView`, `LogViewProofs` | stream and pages of the tab Logs | done |
| 10 | `Dashboard`, `Chart`, `MCDashboard`, `DashboardProofs`, `ChartProofs` | the lists over the query cache; days, axis and bars of the chart | done |
| 11 | `FoldLemmas` | induction over finite sets and numbers, greatest elements, sums by fold: what the proofs of 8 and 10 need of folds | done |

`SessionClient` EXTENDS `Sessions`, `VerifyPage` EXTENDS `EmailVerification` and
`LogIngest` EXTENDS `ApiKeys`: pages, or requests, over the tables they work on.
`EventServer` implements `ProjectFeed`, which `LogIngest` uses for the broadcast.
`LogView` has the server's two steps for a log, and the losses of its feed, in
actions of its own (`Broadcast`, `Save`, `StreamEnds`).

## 3. Modules and the code

**`ProjectFeed`** is abstract: the global sequence `published` of broadcasts (each
entry is the project it was for) and, per open stream, the numbers it was `received`.
It allows losses, and nothing else: no foreign entry, no repetition, no reordering.

**`EventServer`** is `event.go`, one action per channel operation or critical section.

| Model | Code |
| --- | --- |
| `clients` | the map of maps of channels (25); a connection stands for its channel, and its project is fixed, so the nested map is a set |
| `mu` | the mutex; its holder is a broadcaster, since the critical sections of `Run` are single steps |
| `run`, `hand` | where `Run` is in its loop (49-77), and the connection it took from a channel |
| `pc[c]` | where a handler or its writer is: `connecting` blocks at 104, `accepted` is past it, `select` waits at 120, `writing` and `pinging` are in the two writes, `closing` blocks at 114 |
| `open[c]`, `broken[c]` | whether the reader is there; whether the `bufio.Writer` holds an error |
| `closed`, `ctx`, `stop` | closed channels, the context, and `Stop`'s two nested range loops |
| `bpc`, `bproj`, `msg`, `todo` | a caller of `BroadcastToProject`, its range loop and message |
| `crash` | `closedSend` (a send on a closed channel) or `mapRace` (a fatal concurrent map access) |
| `published`, `received` | history, for the feed |

The channels are unbuffered, so a send and its receive are one step of two processes
(`AcceptConnect`, `AcceptClose`); the send with `default` at 151-156 succeeds exactly when the
writer is in its select (`Offer`). `Register` and `Unregister` are the critical
sections 56-63 and 65-74. A `Flush` error is ignored and stays in the
`bufio.Writer`, so the writer ends only at the write after it (`WriteOutcome`). `Stop`
reads and writes the map without the mutex: a map access of another goroutine meanwhile
is a data race, and `MapAccess` lets it end the process or pass. A range over a map
must visit what was there from its start and may visit what was added, which is what
`SweepProject`, `SweepClose` and `SweepDelete` do.

**`ApiKeys`** is the table `api_keys` under dashboard requests. A request is its SQL
statements: `CheckProject`, `BeginInsert` (the snapshot of the trigger of migration
6), `CommitInsert`; `FindToRevoke`, `Revoke`; `FindToDelete`, `Delete`; any of
them may fail (`StatementFails`). `DeleteUser` is the cascade of a deleted account.
`maker` and `finished` are history. Rows carry what the properties tell apart: the
secret and its hash are the row itself.

**`LogIngest`** EXTENDS `ApiKeys` with `CreateLog`: `FindIdByKey`,
`FindProjectIdByKey`, `Locate`, `Broadcast`, `Save`, one step each, and composes: a step
of the key table removes the logs of the rows it removes (`Cascade`, migration 15).
The feed behind `Broadcast` is `ProjectFeed`, which `EventServer` implements, so here
it is one append to `broadcasts`. `wasActive` remembers whether the key was active
when the request came.

**`Sessions`** is `refresh_tokens` (migration 2) under `Login`, `GoogleLogin` and
`RefreshToken`. A refresh token is signed over its user and the second it expires, so a
record of both *is* the token, and two of one second are one: `Insertable` is the foreign
key and `UNIQUE (token)`. `Accepts` is what 264-293 looks at: the row and the expiry.
`blacklisted` are the rows whose flag is set: `Insert` is the `INSERT` with the trigger of
migration 3, which flags the user's earlier rows (`TokensOf`). `RefreshToken` reads the flag
with the row and does not test it, so `Accepts` does not either. Two `INSERT`s that overlap
could miss each other's row in the trigger; here one statement is one step, so the flag is
set on every replaced row. `DeleteUser` is the cascade.

**`SessionClient`** is `lib/api.ts` and `lib/auth.ts` in several tabs over `Sessions`.

| Model | Code |
| --- | --- |
| `held` | localStorage, shared: the two tokens are written in one turn of the event loop |
| `page[t]`, `signin[t]` | the guards and routes; a login that waits for its answer, or Google's redirect |
| `call[c]` | one `apiFetch` (111-167): sent, denied (401), waiting for the refresh, expired |
| `promise[t]` | `refreshPromise` (82); `Stuck` is the promise that line 86 leaves behind |
| `refresh[c]` | `refreshTokens` (84-109): posted, then granted by the server |
| `spent[t]` | history: what a loaded page has exchanged |

Between `Grant` (the server's insert) and `Refreshed` or `RefreshFails` (the answer
arrives or is lost) everything else may happen: other tabs sign in, refresh or sign out.
`Settle` is the `finally` that runs before those who await. `Leave` is
`window.location.href = "/login"`: a page load, so the state of the scripts goes with it.

**`EmailVerification`** is `Register`, `VerifyOTP` and `ResendOTP` of one address, one
SQL statement per step: `CheckExists`, `SaveUser`; `DeleteOld`, `SaveRecord` (`sendOTP`);
`CheckUser`, `CheckCooldown`; `Compare`, `CountTry`, `SetVerified`, `DeleteRecords`.
`Compare` reads the user and the newest record in one step: the user's row is not deleted
here, and what matters is the gap between the read of `attempts` and its increment.
`StatementFails` fails any statement, and does what the code does with the error: nothing,
where it is not looked at. `made` keeps all records ever made, `row` says which are in
the table; `tries` and `faults` are history.

**`VerifyPage`** is the register, verify and login pages over it, and other clients
(`Other`) besides. A page that is left forgets its requests; the `navigate` of an answer
that comes later still works (`Accepted`). `CountsDown` is the countdown of the button,
whose timer may be late but not early.

**`LogView`** is `LogsTab` and `useLogStream.ts`. A log is a number; `stamp` is the timestamp
its sender gave it, and two may be equal. `cache` and `fetch` are the query client's entries
per key (page and filter); a request reads the page (`ReadPage`), then the count
(`ReadCount`), as `GetLogsByProjectId` of the service does. `ORDER BY logs.timestamp DESC`
says nothing of equal timestamps, so `Newest` is a set of sets, each of which the database may
take for the first `n`, and `RowsOf` what `LIMIT` and `OFFSET` may cut out of it, chosen anew by
every SELECT. `Delete` is the cascade of a deleted key or account; it may come between the two
SELECTs, and `gone` counts, as history, what went since the page was read. A SELECT that fails
half way gives fewer rows, and a count that fails gives 0: the service answers both.
`link` and `queue` are the connections of the stream; `Reconnect` is the
effect with its cleanup. `streamed`, `UniqueStreamed` and `ShownStream` are what the table
puts before the rows.

**`Dashboard`** is the overview, the list of projects and the tab API Keys over one query
cache. Each list has its data and its fetch, of which `read` is what the server read.
`Turn` is what happens when the page or the lists change: what comes into view asks for
what is stale, and what leaves loses its dialogs and its hold on its calls (`mine`).
`Invalidated` is `invalidateQueries`: an observed list is fetched anew, but a first load,
or a fetch nobody looks at, goes on, and counts as fresh. The server does a call in one
step (`Serve`): what requests do to each other is in `ApiKeys`.

**`Chart`** is the range, the query and the drawing of `RequestStatusChart`, with days as
numbers. `zone` is the browser's timezone: the server's days whose midnight falls on the day
before (`west`; some days only, where daylight saving changes within the range), and the local
days that begin at 01:00 because the change skips their midnight (`late`). `CursorHour` is the
hour of the cursor of 580-591, which `setDate` leaves at 01:00 after such a day, and `DayKeys`
are the days it comes to while it is not after the end. `DailyCounts` adds the groups that
begin on one local day. `Handles` are the control points of `getSmoothPath`, in sixths of a
request: the curve lies in the hull of these and the points. `NiceMax`, `TickLabel` (with the
roundings of `fmtTick` from 1000 and from 10000 on) and the stacked segments are the code's
arithmetic; `Magnitude` is the power of ten of `niceMax`, by recursion on the digits.

**MC modules.** `MCEventServer`, `MCRegistry`, `MCLogIngest`, `MCSessionClient`, `MCVerifyPage`,
`MCLogView` and `MCDashboard` give the constants their values. `MCDashboard` checks
`Dashboard` and `Chart`, which share nothing, in one run: each moves while the other
stands at its beginning; the lists begin with one active key. `MCRegistry`,
`MCSessionClient` and `MCLogView` have two instances each in one run, told apart by the variable
`instance`.

Definitions under a comment `Mutant:` are variants of the action that follows them,
with one plausible mistake. They are in no next-state relation; each of the properties is
known to fail when the action is replaced by its variant.

## 4. Runs

| Run | Instance | What it shows |
| --- | --- | --- |
| `registry` | two streams of two projects; two broadcasters and three broadcasts while nobody stops the server, and one broadcaster and one broadcast with Stop and a cancelled parent | types; no finished stream in the registry; own project, in order, once; the registry does not change under a range loop but by Stop; the server implements `ProjectFeed`; no closed-channel send and no crash before Stop is called; what is left when `Run` leaves its loop stays: writers in flight, waiting handlers, and `Run` with them; no deadlock without Stop |
| `live` | two streams of one project, one broadcaster, one broadcast, fair | no open stream is missing from the registry; connections are served; streams that were left are reclaimed; broadcasts return |
| `stopwaits` | one stream, fair | *violated*: `Stop` never returns |
| `ingest` | two users with a project each, two key ids, two names, two dashboard requests at a time, one log request | a finished revocation is final; two active keys only from two goroutines; no orphans; dead keys are refused; own project; accepted is stored; stored was broadcast once |
| `unsaved` | one user, one key, one log | *violated*: a log whose insert failed was broadcast |
| `keylogs` | one user, one key, one log | *violated*: deleting a key deletes its logs |
| `tabs` | one user, two tabs, three calls of which one deletes the account, access tokens of one second, refresh tokens of two, two seconds; and two calls of one tab in three seconds; fair | a pair of tokens is handed out once; a page exchanges no token twice; who waits waits for a refresh under way; every call ends; a stuck promise goes with its page |
| `revoked` | the same, refresh tokens of three seconds | *violated*: a blacklisted refresh token is exchanged |
| `email` | two codes, two requests at a time, two records, one failing statement, one attempt allowed, a cooldown of one second | the tries at a code and the codes sent within a cooldown are at most what overlaps and fails; the countdown covers the cooldown |
| `logview` | two logs, pages of one, two pages, one filter, two connections, one request at a time; with equal timestamps and a deletion and no stream, and with different ones and the stream | the badge, no log streamed twice, rows of the page and filter set, pages within the count but for deletions, every log on its page, the pagination's numbers |
| `dedup` | the same, two requests at a time | *violated*: a log streamed and saved is listed twice |
| `dashboard` | one project, two keys of which one is there from the start, one call, two changes; three days, counts of 0, 2 and, of one of two statuses, 9999, three timezones: the server's own, one west of it, and one west of it on some days with a day that has no midnight | told changes are shown; no other question is closed; the chart fits and is complete, as far as the timezone lets it |

Bounds. `MaxBroadcasts` is the only bound in a guard; three broadcasts by two goroutines are
enough for two of one project to overtake each other around one of another project and for
a slow writer to miss the one in the middle. Connections are used again once nothing
refers to their channel, so a run has arbitrarily many streams, two at a time: enough
for an entry to be added while another is removed, and for a range loop to run
meanwhile. The counters of the two projects are independent, so a second project is
there to be confused with the first (`LockForEverybody`). In `ingest` ids of keys are
never used again, which bounds a behaviour to two created keys; with two
requests at a time, this is the smallest instance in which the trigger's snapshot
misses a row, a revocation crosses a creation, and an account is deleted under a
creation in its project by another user. One log request is enough, since log requests
do not read what other log requests write. The runs of `LogIngest` and `stopwaits`
do not check deadlock: accounts, keys and requests run out, and a stopped server stops. In
`registry` the instance with Stop may come to rest (`Rest`); the other is checked.

In `tabs` two calls are made in one tab, for one to join or follow the other's refresh, and
one in the other tab; two seconds are enough for an access token to expire while a refresh
token works, and for two sign-ins or refreshes of one second, which sign one pair. It takes a third second for the access token
of a retry to expire (`DeniedAgain`): `MCSessionClient` gives it to a second instance,
which leaves the call of the other tab out. `MaxTime` stops the clock, and the 5
attempts and 60 seconds are scaled to one: the properties are inequalities in these
constants, and section 6 proves them for all. In `email` the lifetime of a code is 0, so
that it expires within the clock, and `MaxRecords` and `MaxFaults` stop the codes and the
failures. `MaxFetch` bounds the requests of the tab Logs: a late answer for another page
needs one. Two logs with one timestamp and pages of one put the tie at the seam of two pages;
one deletion between the SELECTs is the case that puts a page beyond its count (`MaxDelete`).
A stream and a deletion do nothing to each other, so the two instances of `logview` share
them out. `BarIsRight` looks at seven pages more than there are logs, where ellipses begin.
`MaxChanges` bounds the changes that succeed: the second overtakes the list that was
fetched for the first. The counts of a day, alone, merged and stacked, reach each branch of
`NiceMax` and of `TickLabel`, and neighbours of 0 and 9999 bend the line most. `email`,
`logview` and `dashboard` check deadlock; `tabs` does not, since a behaviour may end when the clock has stopped and the account is gone.

Symmetry is used in the runs of `LogIngest` (ids, names, goroutines, requests), in `email`
(codes, requests), `logview` and `dedup` (connections) and `dashboard` (keys), which check
safety only.

Fairness (`EventServer!Fairness`, used by `live` and `stopwaits`). Weak for what a
goroutine does alone. Strong where it must be chosen among others: a blocked sender
or receiver of a channel is served in FIFO order and `select` takes a random ready
case, and `sync.Mutex` hands itself to its longest waiter after 1 ms. Writes end, by success
or by an error of the connection. No fairness for connecting, leaving, calling
`BroadcastToProject`, calling `Stop` or cancelling: nobody has to.

Fairness (`SessionClient!Fairness`, used by `tabs`). Weak for the end of a fetch
(`CallReturns`, `RefreshEnds`): a browser's fetch is answered or rejected, and its
continuation runs; weak for `Leave`, which is the next statement of a script. None for
the user, the clock or the server's success: `Grant` need never happen, since a refresh
may fail instead.

## 5. Where code and documents disagree

- `stopwaits`: `event.go:80` announces that `Stop` waits for the server's goroutines.
  It waits at 87 (`SrvWg.Wait`) for `Run`, which returns only when the context is
  done, and cancels the context after that, at 88. No schedule lets it return, unless
  the parent context is cancelled by somebody else (theorems `StopHangs` and
  `StopReturnsOnlyUnwaited`). `Stop` has no caller now.
- `unsaved`: the README (142, and 112) says that persisted logs are broadcast; `CreateLog`
  broadcasts at `log_service.go:98` and inserts at 100.
- `keylogs`: the dialog that deletes a key (`projects/[id]/page.tsx:314-315`) promises
  that logs stay; `logs.api_key_id` is `ON DELETE CASCADE` since migration 15.
- `revoked`: the README (129) says that `refresh_tokens` support token revocation. Each
  `INSERT` blacklists the user's earlier tokens (migration 3) and `FindByToken` selects the
  flag, but `RefreshToken` tests the row and its expiry only (`auth_service.go:285`, 289): a
  token that was exchanged or replaced is exchanged again for its 30 days.
- `dedup`: `projects/[id]/page.tsx:979` says that streamed logs are deduplicated; the
  comparison at 981 is of ids, and the broadcast has an id made in `CreateLog` that the
  insert does not use. A log streamed and then fetched is listed twice, until the tab is
  left or refreshed.

What the models show besides, where no document says otherwise: `Stop` may end the
process (a send on a channel it closed, or a map race), which is why `NoClosedSend` and
the registry properties speak of the time before it or outside its sweep; with the context
done, `Run` waits for writers that wait for `Run` to take their channel, so a
shutdown through the context ends only if no stream is open (`DrainNeverEnds`); a stream misses the messages
that come while its writer is not in its select; two overlapping creations leave two
active keys of one user and project; a key revoked after the two reads of `CreateLog`
still gets its log stored; a location lookup that fails loses the log. Two tokens made for
one user in one second break `UNIQUE (token)`: a refresh that meets this is refused, and
the tab clears the tokens of all tabs. That a replaced refresh token is accepted is what keeps
tabs, which share tokens, from signing each other out. Every request that overlaps
adds one try to the limit of codes. A new key is not counted in the list of projects until
that list is fetched for another reason (133-141 invalidate the keys only), and is not
shown to a user who has left the tab meanwhile. A list whose first fetch is under way while
it is invalidated keeps the old rows. Logs of one timestamp may be on two pages, or on
none, at the seam of pages (`OnItsPage` says that only they may). A page may be beyond the
last one its own answer offers, when logs were deleted between the two SELECTs
(`PageIsWithinTotal` says by how many). West of the server the first day of a chart's range
is left out; where the cursor meets a day without midnight, the last day is, too
(`AnswerIsDrawn`). The line between two points may dip below zero, or rise beyond the axis, by
up to a sixth of the highest count (`FitsChart`).

Beside the models: `logs.latency` is `VARCHAR(25)` (migration 7) and `Log.Latency` a Go
`int`, so the `INSERT` of `log/repository.go:25-28` may never succeed on the migrated
schema. Whether it does is up to the driver, which is not in the repository; `Save` may
succeed or fail, and every property holds of both.

## 6. Proofs

`EventServerProofs` (for all `Conns`, `Projects`, `Broadcasters` and bounds, with `Stop`
and cancellation allowed, from `ServerAssumption`, which says only that `ProjectOf` is a
function into `Projects`, that `NoOne` is none of the others, and the types of the bounds):

| Theorem | Statement |
| --- | --- |
| `TypeCorrect` | `Spec => []TypeOK` |
| `RegistryExact`, `NoneLost` | no finished stream in the registry, none missing before Stop |
| `DeliveryInOrder` | own project, once, in order |
| `RegistryFrozen` | `[][...]_vars`: no change under a range loop but by Stop |
| `NoSendOnClosed` | before Stop, no crash |
| `ServerIsFeed` | `Spec => Feed!Spec`, with the open streams as subscriptions |
| `ShutdownHangs` | `Run` out of its loop: no writer ends, no handler is served (`ShutdownStrands`) |
| `DrainNeverEnds` | with a writer in flight then, `Run` and `Stop` never return |
| `StopHangs` | without a cancelled parent `Run` never leaves its loop and `Stop` never returns |
| `StopReturnsOnlyUnwaited` | `Spec /\ StopReturns` allows no behaviour in which `Stop` comes to its wait |

The argument. `RegistryInv` adds to the two registry properties where the connection
in `Run`'s hand is: past its handshake while it is added, finished while it is removed;
without it `Register` could add a finished stream. Deliveries need that the broadcaster
in its loop is the holder of the mutex (`MutexInv`), that its message is the newest
entry, and that what it has still to visit is of its project and has not got the message
(`SendingInv`): this makes each `Offer` an append of a larger number, and a
`Deliver` of the feed. `BeforeStopInv` says that only the sweep closes channels.
`IInv` in `EventServer` is their conjunction. For the shutdown, `StopOrder`: `Stop` has not
returned before `Run` has, and `Run` leaves its loop on a done context only; the only cancel
of that context but the parent's stands behind `Stop`'s wait. The last two theorems assume
`~AllowCancel`, as in the code, whose context is `context.Background()`; they say for every
instance what the counterexample of `stopwaits` shows for one. Each lemma treats one process: connections, `Run`,
broadcasters, `Stop`.

`LogIngestProofs` (for all `Users`, `Projects`, `Names`, `Keys`, `Requests`, `Ingests`, from
`KeysAssumption`: `OwnerOf` is a function, `NoRow` is no key):

| Theorem | Statement |
| --- | --- |
| `TypeCorrect` | `Spec => []TypeOK` |
| `FinishedForGood` | a finished revocation or deletion is final |
| `OneKeyPerMaker` | two active keys of one user and project have two makers |
| `NoOrphans` | every row has its user and project |
| `DeadKeysRefused` | a key that was dead at the POST is refused |
| `BroadcastToOwnProject` | the broadcast goes to the key's project |
| `StoredIsAccepted` | stored = accepted and the key's row exists |
| `StoredOnFeedOnce` | a stored log was broadcast exactly once |

The argument. A finished key must have left the active state for good, so
`FinishedInv` says that it is revoked or deleted and that what a request is about to
change was made (otherwise a later creation could use its id). `SeenInv` says that a
creation about to commit has seen every active key its goroutine made for the same user
and project, which holds because its own earlier creations committed before its
snapshot. Both are in `KeysInv`. Lemma `KeyHistory` says what a step does to a row (an id that was made stays
made, a dead row stays dead, a row keeps its project); under it
`IngestInv` is preserved by every step of the key table. `OnceInv` counts the broadcasts of a
request before and after its `Broadcast`.

`SessionClientProofs` (for all `Users`, `Tabs`, `Calls`, lifetimes and clocks, from
`SessionsAssumption` and `ClientAssumption`):

| Theorem | Statement |
| --- | --- |
| `TypeCorrect` | `Spec => []TypeOK` |
| `HandedOut` | a pair on its way is known to nobody else (`HandedOutOnce`) |
| `OnceExchanged` | no page exchanges a token twice (`ExchangedOnce`) |
| `WaitsAreAnswered` | nothing waits for what will not come (`NothingWaitsInVain`) |

The argument. `KnownAreStored`: every token that is held, granted or about to arrive is
a row, unless its user is gone; rows only go with their user. `OnceInv` adds that a
refresh belongs to the call its tab's promise names (`OnePromise`), that a token a tab has
exchanged is held only until the one granted for it arrives (`HeldIsUnspent`), and the two
parts of `HandedOutOnce` (`FreshGrant`, `FreshSignin`): a pair that was just inserted was no
row, by `UNIQUE (token)`, and what the browser knows are rows, so nobody knew it. `NothingWaitsInVain` is inductive with `OnePromise`: a promise
that is set names a refresh under way in its own tab, so who joins it waits for that one; its
end releases all who wait for it and resets that promise only; and where the promise is
`Stuck` a call of the tab has found its session expired, which only a page load undoes. It is
the safety that `CallsEnd` and `StuckIsDropped` stand on: what is left to fairness is that a
refresh ends and that a page that is told to leave is left.

`VerifyPageProofs` (for all `Codes`, `Requests`, limits and bounds, from `EmailAssumption`):

| Theorem | Statement |
| --- | --- |
| `TypeCorrect` | `Spec => []TypeOK` |
| `CountdownIsLongEnough` | the page's countdown covers the server's cooldown |
| `AttemptsAreLimited` | tries exceed the limit by the other requests and the failures |
| `CooldownIsKept` | a request alone keeps the cooldown (an action property) |

The argument. For the limit, `Counted`: what was tried at a record is at most what it has
counted, plus the requests between `Compare` and `CountTry`, plus the counts that
failed; and who is about to compare is not one of those. For the cooldown, `CoolInv`: a
request that is `alone` shares the server with no other, so what `CheckCooldown` found is
still so at `DeleteOld`; and without failures the last record made is in the table
(`LastSaved`) until the address is verified, so what it found is the last code sent.

`LogViewProofs` (for all bounds, filters and links, from `LogViewAssumption`):

| Theorem | Statement |
| --- | --- |
| `TypeCorrect` | `Spec => []TypeOK` |
| `BadgeIsRight` | the badge is on exactly while a stream is open |
| `StreamedAtMostOnce` | no log is streamed twice |
| `FetchedRowsMatch` | rows are of the page and filter set |
| `LogsOnTheirPages` | each log on the pages its timestamp allows only, on its page where that is one, and the count offers them (`OnItsPage`) |
| `PageWithinTotal` | a page with rows is within its own count and what was deleted meanwhile |
| `BarRight` | the numbers and ellipses of the pagination, for any number of pages |

The argument. `OneLink`: at most one connection is not free, so what is in a queue has
not been streamed (`Arrived`), because the server broadcasts a log once. In any order the
database may take, the first `n` logs of a filter hold all whose timestamp has at most `n` logs
not older than it, and none whose timestamp has `n` or more newer ones; so a log is cut out by
`OFFSET` and `LIMIT` only on a page between those of its first and last place.
`AnswersFit` carries to the cache that the rows were read under their key, and that the
logs stored then are stored now or counted in `gone`.

`DashboardProofs` (for all finite `Projects` and `Keys`, all calls and bounds, from
`DashboardAssumption`; finite, because the overview adds up a list the server sent):

| Theorem | Statement |
| --- | --- |
| `OwnQuestionOnly` | no success closes another question (`DialogKept`) |
| `ListsTellAcked` | what a page was told of is in its fresh lists (`AcknowledgedIsShown`) |

The argument. For the dialogs, their shapes and those of the calls: a call stays its tab's
only while the tab keeps its dialogs (`Turn`), and no question is asked while a deletion of
the tab is pending. For the lists, `ListsInv`: what was served or told of was done (`Done`,
`CallsDone`, `AckedDone`), and rows only move onward (`Onward`: unused, active, revoked,
deleted), so rows that told of all changes go on telling of them. A fetch under way either was answered
after the change or will be begun again (`EntryTells`), but for the queries in `overtaken`;
so each fresh list tells all (`CacheTells`). The overview's sum over the listed projects is
at most the number of keys the projects have together (`TotalWithinUnion`).

`ChartProofs` (for all days, ranges, counts and lists of statuses, from `ChartAssumption`):

| Theorem | Statement |
| --- | --- |
| `AnswerDrawn` | all the server answered is drawn, but for two days a timezone may take (`AnswerIsDrawn`) |
| `AxisIsRight` | bars and points fit the axis and fill it, the line swings out by a sixth at most, labels tell the ticks apart (`FitsChart`) |

The argument. The answer shown is the answer to the range that is set; a day of the range is
passed by the cursor unless it is the end and the cursor an hour late (`FilledDays`). For the
axis: the recursion of `Magnitude` has one solution, a power `m` of ten with
`m <= n < 10 * m` (`MagnitudeBounds`), from which each branch of `NiceMax` gives `AxisFits`;
what is drawn is a finite set of naturals, since the days are finitely many and a stack is a
sum (`DrawnIsNat`), so it has a greatest element, which is `MaxVal`. A handle is a point and
a sixth of the difference of two others (`LineSwings`). A label is no further from its tick
than half of what it is rounded to (`LabelIsNear`), and the ticks are further apart than that
(`LabelsRise`).

Both speak of `DashSpec` and `ChartSpec`, in which each module moves by itself from any of
its beginnings.

`FoldLemmas` has the facts about data they rest on. The library's induction theorems take a
predicate, which the provers cannot instantiate; `SubsetInduction` and `NumberInduction` take
a set of the things that have been shown instead, and follow from the well-foundedness of the
strict subsets of a finite set. With them a sum over a finite set exists (`SumExists`), is what
the fold of the community modules yields (`TotalAddsUp`), and is a natural.

## 7. Only model-checked, and not modelled

Checked by TLC only: liveness (`ConnectServed`, `DisconnectReclaimed`,
`BroadcastReturns`, `CallsEnd`, `StuckIsDropped`), since fairness needs ENABLED, which is
beyond the prover; and the refutations, which are single behaviours. Every invariant and
action property of a passing run is also a theorem.

Abstracted: message contents, formatting and headers; the 15 s period of the ticker (a
tick may come at any time); HTTP status codes but for 401; who asked for a key (a request
that is refused changes nothing, so only those that pass are modelled); time-outs, so
nothing is claimed about the end of a location lookup; the row locks of the trigger's
UPDATE, which only order two commits. Creating and deleting projects are not actions of
the server: on the migrated schema those statements do not succeed; projects are there
from the start and go with their user, and the two calls of the dashboard always fail. An INSERT that is
committed and answered with an error is left out: a statement succeeds or fails. The
timezones in which a whole day is skipped are left out of `Chart`. In
`Dashboard` no list is left unseen for the five minutes after which the query cache drops
it, and the account stays. `maps`, channels, the mutex, PostgreSQL's statements, React's
effects and TanStack Query are modelled by how the code uses them.

Not modelled: editing the profile (one UPDATE; its form is filled once, from whatever the
query cache holds), the upsert of a Google login, percentiles (one SELECT), the mail, the
chart's tooltip (its line 827 expects the day under the pointer to have requests),
configuration, server wiring, the database pool, nginx and deployment, the landing page,
layout and the widgets of `components/ui`: they keep no state that another part depends on.

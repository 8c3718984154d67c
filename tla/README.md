# Student Team Workspace: a TLA+ model

The repository is a collaboration workspace for student teams: a FastAPI
server (`src/backend`) over one SQL database, a Next.js front end (`src/app`)
whose own route handlers stand between browser and server, command line tools
for the operator (`maintenance.py`, `manage.py`) and a script that strips
features from the front end's working tree (`scripts/cleanup.js`). This
directory holds TLA+ modules of their stateful parts, TLC configurations that
check them on small instances, and TLAPS proofs that hold for every value of
the constants. Paths and line numbers are those of the source tree; backend
paths are written without `src/backend/`, front-end paths without
`src/app/src/`. `PROJECT.json` has, for every definition that stands for code,
the file and lines it stands for.

Contents: how the program runs - inventory - modules - runs - fairness -
proofs - divergences found - what is left out - plan.

## How the program runs

The grain of atomicity of every module follows from four facts.

1. The server is ONE uvicorn worker (`Dockerfile:19`, `README.md:267`,
   `docs/API.md:367`; the module-level dictionaries would not work otherwise).
   The body of an `async def` handler is atomic except at its awaits.
2. The awaits that give the loop away are few: bcrypt in a worker thread
   (`hash_password_async`, `verify_password_async`), the sends of
   `_ws_broadcast`, and accept, receive and close of a websocket. Database
   calls are synchronous and block the loop.
3. Synchronous dependencies (`get_current_user`, the permission checks) run in
   the thread pool BEFORE the body, as a step of their own: what they read may
   be stale when the body uses it.
4. `python -m maintenance` and `manage.py` are other processes on the same
   database and upload directory: their steps fall anywhere.

A request has one transaction per commit; whatever is not committed is lost
when it fails (`database.py:41-46`), whatever was done to the disk is not. A
restart keeps database and disk and loses `_ws_rooms`, `_presence_sockets`,
`_ws_ticket_store`, the limiter's `_hits` and all requests in flight.

In the browser everything runs on one thread: an event handler, an effect or
the continuation of one answer is a step, and two requests under way at once
are answered in any order. A handler of a route under `app/api` makes one or
more fetches, and anything may happen on the backend between two of them.

## Inventory

### Server

| Component | State | Operations | Hard behaviour | What makes it correct |
|---|---|---|---|---|
| Sessions and accounts (`dependencies.py`, `routers/auth.py`, `routers/account.py`) | `users`, `auth_sessions` (revoked, rotated, family) | register, login, refresh, logout, logout-all, delete account, `manage.py create-user` | bcrypt awaits between lookup and write; refresh races; replay of old tokens; restart | a refresh token is good once, an ended login stays ended, one account per address, a deleted account has no session |
| Rate limiter (`rate_limit.py`) | `_hits`: times per bucket | check, the five limits, write middleware | boundary of the window, several buckets per request | no window over its limit, honest Retry-After, no denial below the limit |
| File store and sweeper (`routers/files.py`, `maintenance.py`, `retention.py`) | `files` rows, bytes on disk | upload, relink, delete, cascades, account deletion, purge-orphans | two media without a common transaction, two processes, crashes, failed unlinks | rows have bytes, orphans go in the end, quota |
| WebSocket rooms (`ws.py`, endpoints in `routers/channels.py`, `routers/presence.py`) | `_ws_rooms`: key -> set of sockets | join, leave, broadcast, prune | every send awaits while rooms change, stalled peers, overlapping broadcasts | no closed socket in a room, one bad peer costs the others nothing |
| WebSocket tickets (`dependencies.py:346-383`) | `_ws_ticket_store` | mint, consume, expire | two sockets of one tab minting at once; tickets and logout-all | a ticket opens at most one socket, none after its minute |
| Presence (`routers/presence.py`) | `presence_status` rows, `_presence_sockets` | connect, heartbeat, set status, disconnect, decay on read | last leave racing first join, crash leaves "online" | what is published agrees with what is stored |
| Messages, threads, reactions (`routers/messages.py`) | `messages`, `reactions` | create, edit, delete subtree, react | frames of two handlers reordered per peer | a quiescent client shows the database |
| Workspaces, members, roles, invites (`routers/workspaces.py`, `members.py`, `invites.py`) | `workspace_members`, `invites` | create, join, leave, role changes, ownership transfer, invite, accept, cancel | role read by the dependency and used later | exactly one owner, an invite admits once |
| Channels and direct messages (`routers/channels.py`, `channel_access.py`) | `channels`, `channel_members` | create, add, remove, open DM | rows that outlive a membership | a DM has its two members and no twin |
| Wiki pages, calendar events, tasks, projects, notifications, activity | rows | CRUD; restore of versions; expansion of recurrences | moves that make a cycle; clamped days | pages form a forest; expansion equals its definition |
| AI, email, shell, migrations | none, or outside services | - | - | - |

### Front end and tools

| Component | State | Operations | Hard behaviour | What makes it correct |
|---|---|---|---|---|
| Socket hook (`lib/realtime/use-websocket.ts`) | socket, timer, delay, status | connect, reconnect, change of url | late closes of replaced sockets, timers of cancelled runs | one live socket, open in the end |
| Chat page (`features/chat`) | message lists in the query cache | send, react, reply, search, frames, refetch | optimistic rows, cancelled fetches, frames behind or ahead of answers | no row twice, none lost, a send goes where it was written |
| Conversations (`chat-page.tsx`, `new-dm-dialog.tsx`) | two lists, the chosen id | choose, create, open DM | lists load and fail on their own | the chosen conversation is on screen |
| Route handlers (`app/api`) | none (seeded arrays) | every proxied call | the session or the backend ends between two fetches | an answer tells what became of the write |
| Browser session (`proxy.ts`, auth pages, onboarding wizard) | cookie, step of the wizard | sign in, out, delete account, redirects | stale cookie, lost answers, steps tried again | the browser comes to rest; nothing made twice |
| Kanban board (`features/kanban`) | cached list, columns, open sheet | drag, edit, quick add | stale copies; GETs that outlive their board; an empty answer for a refused lookup | untouched fields survive; own writes seen |
| Projects, calendar, audit log (`features/projects`, `calendar`, `audit`) | a list in `useState` | load, filter, create | loads that land in another order; empty answers for a refused lookup | the list answers the question on screen |
| Wiki page (`features/wiki`, `ai-summary-card.tsx`) | page caches, viewer | select, search, restore, summarise | a component shared by two pages | no leftovers of another page, restores are seen |
| Files page (`features/files`) | list, dialogs | upload, delete, share | two requests per share | no unexplained second post |
| Settings page (`features/workspace`) | members, invites | role, remove, invite, cancel | answers carry whole lists, in any order; built-in rows for the server's | the settled list is current |
| Presence and notifications (`features/presence`, `notifications`) | two caches | frames, status, mark read | frames missed while down, answers behind frames, statuses that age | the settled caches are current |
| Frame (`components/kbar`, `ui/sidebar.tsx`, `ui/infobar.tsx`, AI search) | results, panels | search, toggle | searches answered in any order, effects behind keys | results belong to the text, a press shows |
| Clean-up script (`scripts/cleanup.js`) | the working tree | strip features, dry run | a run that dies; runs that follow one another | the tree depends on what was stripped, not in how many runs |
| Overview, deadlines and AI chat pages; views and styling; benchmarks, end-to-end scripts, CI | none | - | - | - |

Interactions: account deletion runs over sessions, memberships and files in one
transaction; deleting a project, task, message or workspace cascades to file
rows but not to bytes; messages, reactions, notifications and presence all
publish through `_ws_broadcast`; the websocket endpoints authenticate with a
ticket or a session; every route may pass the limiter first; the sweeper meets
the server only through rows and disk. Pages talk to the route handlers, which
add the session cookie and talk to the server; frames reach the chat page and
the caches of presence and notifications through the socket hook.

`PROJECT.json` lists every component with its status and every hazard at its
line.

## Modules

### `AuthSessions` (with `TokenChain`, `AuthSessionsProofs`, `MCAuthSessions`)

Rows of `users` are `account` and `email` (a tombstone has `NoEmail`: the
address written by the anonymisation is unique per user and matches nobody).
Rows of `auth_sessions` are named by their jti: `status`, `rotated`, `userOf`,
`family`. `expired` holds the jtis past their `exp`. A request that awaits is
a stage in `req`: `hashing` (register), `verifying_login`, `authorised_*`
(between `get_current_user` and the body) and `verifying_delete`. Requests
that never await between their first read and last write (refresh, logout) are one
action. Whether a password is right is a nondeterministic outcome
(`LoginReject`, `DeleteReject`).

`RefreshRotate` contains the conditional UPDATE of `rotate_session`
(`dependencies.py:161-175`): since nothing awaits between the read of the row
and the UPDATE, its `rowcount` branch cannot be taken in the one-worker
deployment and has no action. `expired` stands for the expiry of the refresh
token; the access token of the row expires sooner, so the model accepts it for
longer than the code, which is on the safe side for every property here.

`ended` is a history variable: the roots of lineages that were signed out,
replayed or purged.

`TokenChain` is the promise to a client, without rows, families or flags: a
login opens a chain, a chain holds at most one good token, refreshing replaces
it with one never seen before, a spent token is spent for ever. `AuthSessions`
implements it under the mapping `ChainCurrent` (the live row of a lineage) and
`ChainSpent` (the revoked and deleted rows).

### `RateLimiter` (with `RateLimiterProofs`, `MCRateLimiter`)

`hits` is `_hits`, `clock` the monotonic clock. A route is the sequence of the
buckets it asks, `asked` the rest of it for the request being enforced: checks
follow one another without an await, but each reads the clock, so `Tick` may
come in between. `Stale(b, n)` says that pruning stops after the first `n`
hits; the code's `while` loop is the choice of that `n`. `log` (all hits since
the start) and `promise` (the instant a denial announced) are history
variables; `WindowNeverExceeded` speaks of `log`, so that pruning too much
shows.

### `FileStore` (with `FileStoreProofs`, `MCFileStore`)

`row` and `bytes` are the two media; a key contains a fresh uuid, so a file is
uploaded at most once. `op` is the server's handler between its steps (file
handlers do not await once they write, so there is one at a time); `purge` is
the sweeper with what it has read so far. `age` is the age of the bytes; the
sweeper reads `now` first, so which files are old is fixed at `PurgeStart`.
`ServerFails` is a failed commit as well as a crash. `Tick` does not let an upload between its write
and its commit get older than `CommitWithin`, which is less than the grace
period: the code relies on that, and the assumption is named.
`torn` is a history variable: bytes an account deletion removed before its
commit.

### `WsRooms` (with `SocketsProofs`, `MCWsRooms`)

One channel, one workspace, the users' own rooms. The dictionary maps a key to
a mutable set OBJECT, and `_ws_broadcast` keeps a reference to the object
across its awaits, so the model has objects: `members[r][n]` is the n-th object
of key `r`, `registry[r]` the one it maps to. `cast[c]` is a broadcast in
progress, made by a request (`Handlers`) or by an endpoint (a socket): targets
still to be sent to, and targets that failed. The code awaits the sends one after the other, in the
order of a set (`ws.py:112-127`); the model lets them finish in any order, which allows more. The
last one prunes in the same step. `link` is what a connection does with a
frame: take it, stall until the timeout, or raise. A target in `steady` is one
whose connection was up for the whole broadcast (history); `pruned` records
whom a broadcast gave up on (history).

A socket that is out and referred to by nobody may connect again: it stands
for the next connection. Handshake checks and payloads are left out.

### `RealtimeSocket` (with `SocketsProofs`, `MCRealtimeSocket`)

`useRealtimeSocket`. Each run of the effect has a number; the one that is not
cancelled is `run`, so `cancelled(r)` is `r # run`. `sockets` are those whose
close event is still to come, `ref` and `timer` are the hook's refs. `Lost` is
a refused handshake as well as a broken connection; the browser's `WebSocket`
constructor may also throw (`Throws`, `use-websocket.ts:155-157`), which schedules another
attempt without any socket. Both are bounded by `MaxFaults`. A url outside `Reachable` is one to which the browser would not
send its cookie, which the hook never opens. Dispatch of frames is in `Chat`
and `Inbox`.

### `Chat` (with `ChatProofs`, `MCChat`)

`rows` is the table, `cache[k]` the list the page keeps under the key of a
channel and a search, each list with the GET under way (`get`, what it has
read, and the list it started from, which a cancelled fetch puts back). A send
shows its placeholder, cancels the fetch of its list, posts, and invalidates;
offline it waits and is posted by the page's last closure. `frames` is a set:
every write of the server sends one frame to the joined socket and they land in
any order. A list answer has at most `PageCap` rows, the oldest ones, as the
endpoint's ordering and limit have it. Typing indicators and the mention menu
are left out; deletion takes the subtree of a message with it.

### `BffRoutes` and `BrowserSession` (with `BrowserSessionProofs`, `MCBrowserSession`)

Each handler under `app/api` is a plan: the sequence of what it looks at
(`cookie`, `body`, `workspace`, `wired`) and does (`read`, `write`, `relist`,
`login`, `logout`), with the answer it gives when a step stops it. A request
walks through its plan; between two steps the session may end, the user may
lose the workspace or get it back, the backend may stop or come back, something stored may
lapse (an invite accepted, cancelled or expired, a page deleted: `ThingLapses`), the first
workspace listed may become another (`ListedInAnotherOrder`), and the answer of a
write may be lost after it was stored. `committed`, `unwired` and the rest of
the request's record is what the properties compare its answer with.
The backend refuses a second invite or page only while the first is there, in the
workspace the request goes to (`Refusable`: `invites.py:35-46`, `pages.py:78-87`).
`BrowserSession` adds the proxy's guard, the pages' own checks
(rendered in steps), the forms and the onboarding wizard, whose steps may be
tried again.

### `Dashboard` and the pages (with `DashboardProofs`, `MCDashboard`)

`Dashboard` composes one module per page with the frame around them: a
behaviour is one visit to one page (`Pages!page`), since leaving a page
unmounts its components and the modules share nothing during a visit. The
query cache's entries, where a page uses them, are those of `QueryEntry`:
what is shown, whether it is marked invalid, and the one GET under way. A new
fetch cancels the GET under way once data was received for the entry; before that it
joins it (`Ask`), so what follows a write may be answered by what was read before it.

| Module | Stands for | State that matters | History |
|---|---|---|---|
| `TaskBoard` | `features/kanban` and the task handlers | the cached list, the `columns` a drag edits, the fields `local` of the open sheet, mutations in `muts`, each with the `move` of a drop to roll back | `acked`, `touched`, `strayed`, `whole` (of a list) |
| `Planner` | projects page, calendar, audit log | `list` and the `loads` under way, the question `pick` | `mine`, `mixed`, `last` |
| `Wiki` | wiki page, history sheet, summary card | page caches `details`, the `viewer` with what it kept of which page, `restores` | `fresh`, `astray` |
| `Files` | files page, share dialog | rows, `posts` about each file, `shares` under way | `good`, `torn` |
| `Roster` | workspace settings | `members`, `invites` as on the page, the route handlers' built-in rows `seededMembers`, `seededInvites`, `calls` under way with the list each will answer | `shownAt`, `suspect` |
| `Inbox` | presence and notifications | roster and inbox entries, socket, frames in flight; a status that ages without a frame is `effective_status` | `unsure`, `owed` |
| `Conversations` | which conversation the chat page shows | two lists, `selectedId`, POSTs under way | `hollow` |
| `Shell` | command bar, AI search, side panels | `barSearches`, `found`, `panel` with the width the last rendering saw | `missed`, `raced` |

Several route handlers answer 200 with a list that is not the server's: an empty
one when the lookup of the workspace is refused (`api/tasks`, `api/projects`,
`api/events`: `TaskBoard!LookupRefused`, `Planner!EmptyForARefusal`), built-in rows when no server is wired or
there is no workspace (`api/workspace/members`, `invites`: `Roster!Seeded`, `ServedUnwired`).
The pages cannot tell.

In `TaskBoard` the listeners of the drag sensor are where the rendered tree puts
them (`Listens`): columns can be picked up, cards cannot. `onDragOver`, `onDragEnd` and the
rollback in `onError` are modelled for both; what they do to a card is code no one reaches
today, and `BoardInv` proves that it is not reached.

Exceptions that a property names (a stray GET, an overlapping load, a lost
answer) are behaviours the code has: each was met as a counterexample
before it was written into the property, and the history variable says exactly
when it applies.

### `Cleanup` (with `CleanupProofs`, `MCCleanup`)

A run is the sequence of small writes its command line determines (`todo`); it
may die before any of them, and a torn write of the `.env` backup is one of
the ways. `repo` is the tree as far as the steps touch it: folders and files, dependencies, navigation,
links, themes, fonts, docs. `env` and `backup` are `.env` and its copy.
`stripped`, `pending`, `scars`, `owned` and `forecast` are history.

## Runs

| Run | Instance | Shows |
|---|---|---|
| `auth_sessions` | 2 users, 1 address, 4 jtis, 2 requests at once | the invariants of sessions and the implementation of `TokenChain` |
| `account_deletion_sessions` | 1 user, 3 jtis | violation, see below |
| `rate_limiter` | 1 ip, 1 address, 1 user, 1 group; limits 1 and 2, windows 2 and 3; clock to 5, 4 requests | `WindowNeverExceeded`, `RetryAfterIsHonest` |
| `file_store` | 2 files, 2 users, 1 workspace, 1 target, quota 2, ages to 3 | rows keep their bytes, quota, what the sweeper may drop |
| `file_store_healing` | 2 files, 1 user, ages to 1, with fairness | orphans and broken rows go in the end |
| `ws_rooms` | a channel tab and a dashboard tab of one user, 1 request, up to 3 broadcasts, with fairness | no closed socket in a room, steady targets are served, pruned once, who may evict, broadcasts end |
| `evicted_socket` | two channel tabs of two users, 2 broadcasts | violation, see below |
| `realtime_socket` | 3 urls, one out of the cookie's reach, 4 runs of the effect, 3 faults, with fairness | one live socket, open in the end |
| `chat` | 2 channels, 2 texts, 2 sends, 2 messages, 2 writes, with and without a search | no row twice, what may revive a placeholder or drop a row, which sends move |
| `browser_session` | 2 tokens, the five things the wizard makes, production build, with fairness | answers agree with what was stored, healthy sessions see the backend, the wizard repeats nothing, the browser comes to rest |
| `dashboard` | one visit to each page: 1 task in 2 columns and 2 mutations; 2 topics with a row each and 2 loads; 2 wiki pages and 1 restore; 1 upload and 2 posts; 1 member, 1 address, a built-in row in each list, 3 calls; 2 users, 1 notification, 2 changes; 2 conversations; 3 words | the eleven properties of the pages |
| `cleanup` | 4 features, up to 2 named per run, 2 runs, 1 death | runs add up, the developer's variables survive, a dry run foretells, but for what `DryRunForetells` names |

Why the bounds suffice to reach the interesting cases. Four jtis give a lineage
of three rotations plus a second login, and two requests are enough for each
pair of awaiting handlers to overlap. Limits of 1 and 2 with windows of 2 and 3
let every bucket fill, age past the boundary and refill before tick 5. Two
files are one that survives and one that goes; ages reach past both the grace
period and the retention window, where they saturate. `ws_rooms` has both
endpoints and a user with two sockets, so the user's room is shared, and up to
three overlapping broadcasts; `Objects` exceeds the number of casters, so a
free set object always exists (proved: `RoomsTyped`). `realtime_socket` has a
change of url on top of a reconnection on top of a late close, and enough
faults for the delay to reach its cap. In `chat`, a
behaviour has one "second" of a kind (`MCChat!Scope`): two sends into one list,
or two writes, or two channels read, and so on; each race the properties are
about is between one thing of its kind and one other. `PlainPosts` lets only an
edit make a message match the search. In `dashboard` each race is again
between two requests, or a request and a push; `MCDashboard!Scope` keeps searches
and restores of the wiki out of each other's visits, and the card of the board starts in the first
column or is created during the visit. In `cleanup` the four features stand
for the kinds the script tells apart (one with templates and environment
variables, one plain, one other features link to, the themes); two runs and a
death are a dead run and the run that has to repair it.

`SYMMETRY` is used in `auth_sessions` and `chat`; the temporal formulas of
both are of the form `[][A]_v` or an initial predicate with one, no liveness.
`CHECK_DEADLOCK FALSE` is set in `chat`, `cleanup`, `dashboard` and
`realtime_socket`, where a bound (or a visit or script that is over) lets the
model stop; it stays on elsewhere.

Every property has a mutant in `PROJECT.json`: a plausible slip in a
definition (`mut_...`, written just before what it alters) under which TLC
finds the property violated.

## Fairness

`file_store_healing` (`FileStore!Fairness`): a handler that has begun ends
(weakly fair: the event loop runs it, or it fails); time passes; operators run
applied sweeps again and again. A sweep may die at any step or be a dry run,
and an unlink may fail, any number of times, but an applied sweep that could take its
next step infinitely often takes it eventually, hence strong fairness on its
steps and on each file's unlink. Without it the claim is false and the code
does not promise it. There is no fairness on uploads, deletions or on
anything a client does.

`ws_rooms` (`WsRooms!Fairness`): a send in progress returns, because
it succeeds, raises or is cut off by the timeout of `_ws_send_safe`; a
finished broadcast returns to its caller. An endpoint whose connection is dead
reads the disconnect once it has handled the frames received before it, which
are finitely many: strong fairness, since handling a frame takes the endpoint
out of `receive` for a while. Nothing is assumed of peers: a connection may
stall for ever.

`realtime_socket` (`RealtimeSocket!HookFairSpec`): the browser fires its timers and
delivers the events of its sockets: a handshake is answered, a close is
reported. Connections are lost `MaxFaults` times at most, since a network that
never stays up connects nobody. Nothing is assumed of changes of url but that their
number is bounded.

`browser_session` (`BrowserSession!FairSpec`): a page that was asked for is
rendered or redirects. Nothing is assumed of the user or of the backend;
`ComesToRest` asks for rest only if from some time on the cookie is one the
backend confirms.

## Proofs

The theorems hold for every value of the constants that satisfies the
`ASSUME` of the module: any number of users, sockets, limits, windows. TLC
evaluates those assumptions in every run.

`AuthSessionsProofs`, from `Distinct`:

- `TypeCorrect`, `EmailIsUnique`, `LineageIsSingleUse`, `EndedIsFinal`: the
  two invariants on lineages are not inductive by themselves: nothing in them
  says what the family column points at. `SessionInv` adds that a
  successor's family is an issued, rotated row of the same user that has no
  family itself (`FamilyOK`), that a rotated row is revoked or deleted
  (`RotatedIsSpent`) and that ended lineages were issued (`EndedIsIssued`).
- `SessionsImplementChains`: the initial state maps to the initial state and
  every action to `Open`, `Advance`, `Close` or a stutter of `TokenChain`. It
  rests on the single-use invariant, which makes the `CHOOSE` of `ChainCurrent`
  the one live token.

`RateLimiterProofs`, from `LimitsAssumption`:

- `LimiterTyped`; `WindowBound`; `HonestRetryAfter`; `DenialIsJustified`. The
  inductive invariant `IInv` relates the pruned list to the history: `hits` is
  `log` without its first hits, all of which have left the window
  (`Remembers`), `log` is sorted and in the past (`Chronological`), no list is
  longer than its limit, and the promise is the instant the oldest remembered
  hit leaves the window (`PromiseFromOldest`). `DenialIsJustified` says that a denial
  finds the window full and leaves every bucket as it is. That `check` decides from the pruned list
  alone is therefore as good as deciding from the whole history.

`SocketsProofs`, of the server's rooms, from `WsRoomsAssumption`:

- `RoomsTyped`: a caster has one broadcast at a time, so at most
  `Cardinality(Casters)` objects of a key are held and a join finds a free one
  (the only place where the number of objects matters).
- `SteadyTargetsAreReached`, from `SteadyInv`: a steady target that is still to
  be sent to has its connection up, none has failed, and a broadcast that is
  done has nobody left.
- `RoomsHoldNoClosedSocket`, `PrunedIsPaidFor`, `OnlyPruningEvicts` from the
  inductive `RoomInv`: registered rooms hold only sockets inside their loop
  and only under their own keys (`RoomsHoldLiveSockets`); a connection that a
  broadcast deals with and that is in the room is in the set object the
  broadcast began with, since it joined before and joins once
  (`CastsKnowTheirSet`); a pruned socket is in no registered room
  (`PrunedStayOut`). Without the second, pruning the old object could leave
  the pruned socket in the new one.

`SocketsProofs`, of the hook in the browser, from `RealtimeAssumption`:

- `SocketTyped`; `OneSocketAtATime`, from the inductive `SocketInv`: a run
  opened one socket at most (`OnePerRun`); a socket that is not closing is of
  the current run, is the one `socketRef` holds and is to the current url
  (`AliveIsCurrent`); a due timer belongs to the current run, which has no
  socket then (`TimerIsAlone`). The last part is what excludes a reconnection
  beside a live socket, and it is why a close that comes late may not schedule
  one.

`FileStoreProofs`, from `FileStoreAssumption`:

- `FilesTyped`, `RowsKeepTheirBytes`, `GoodRowsAreKept`, from the inductive
  `FileInv`. The sweeper acts on what it read some steps ago, so the two
  properties need a fact about files that no later step can undo: a file whose
  bytes were written and whose upload is over is settled, and a settled file
  without a row never has one again. What the sweeper holds is settled
  (`SweepIsSettled`, because an upload in progress is younger than the grace
  period: `UploadIsYoung`) and the decisions it took stay right
  (`SweepIsRight`). The other parts say that a file with a row is settled
  (`RowsWereWritten`) and that a deletion unlinks only after its row is gone
  (`DeletionHasNoRow`).
- `QuotaIsKept`, from the inductive `QuotaInv`: the rows of every workspace fit
  its quota, and fit it still with the file whose bytes are written and whose
  row is not yet committed. The second part is what the check promises to the
  commit: between the two, links, deletions, sweeps and crashes may only take
  rows away. Committed rows are finitely many, so what a workspace uses is a sum: it is
  the same whichever row is counted first, it depends on the counted rows
  alone, it never falls when a row is added (`SumTakesAny`, `SumAgrees`,
  `SumGrows`). These lemmas are inductions over finite sets, each put as an
  argument about a smallest set that breaks the claim (`SmallestSet`).

`ChatProofs`, from `ChatAssumption` and `NamesAssumption` (the placeholders'
names are no message's, and the marks for "no list" and "no row" are neither):

- `ChatTyped`, `ListsShowEachMessageOnce`, `RevivedByCancelledFetches`,
  `RowsDroppedByAnswers`, `PostedWhereShown`, from the inductive `ChatInv`. A
  GET carries three lists of a key through time: the one on screen, the answer
  it has read, and the one a cancellation puts back. Each may be the next on
  screen, so each shows no message twice, holds placeholders only of sends that
  were written into this list, and an answer holds none at all (`CacheFits`). A send that
  never waited for the network still has the channel it was written in
  (`SendsFit`), there is a channel on screen whenever a handler uses one
  (`PageFits`), and what a frame calls deleted stays so (`DeletedAreGone`).
  That an answer is a list of the server's rows in their order, without
  repetition, is proved of the operators `Ascending` and `Nth` for every finite
  set of messages.

`BrowserSessionProofs`, from `BrowserAssumption`:

- `BrowserTyped`, `AcknowledgementsAreTrue`, `HealthySessionsAreServed`,
  `WizardRepeatsNothing`, from the inductive `BrowserInv`. First the table of
  route handlers (`RoutesFit`): a plan that writes ends at its write or at the
  relisting after it, and answers whoever it turns away before that with an
  error. Hence a request knows at each step what became of its write (`Told`):
  an answer of success was stored or comes from seeded arrays, and what was
  stored is answered with data, an empty list or a failure. A request that met no fault
  so far still has its session and its workspace (`FineSoFar`). The wizard waits at
  the step whose request it sent, and is past the step of a
  workspace or project once its answer has told that it is made (`WizardInv`); an invite or a page made
  during the visit is still stored, where a second is refused, or has lapsed, which takes
  it out of the history (`ForGood`).

`DashboardProofs`, from the assumptions of the pages. Each part of the
inductive `DashboardInv` is about one module, and lemmas show that the steps of
the others leave it alone:

- `SavesSendOnlyEdits`, `OwnWritesStay` (board): only a
  column of a shown board can be dragged, so the columns are those of the cached list
  and no mutation has a drop to roll back (`BoardInv`); a GET that lacks an
  acknowledged write has outlived its board, is the first to be received, or was
  answered with the empty list (`GetIsFresh`); a field of the sheet that neither its user
  nor a refetch under it changed equals the list's (`SheetInv`).
- `PressesShow`, `SearchesSettle` (frame): on a narrow screen the info bar's
  two flags agree once the effects have run (`PanelInv`); a search somebody
  waits for is one for the text in the bar, the results are that text's once
  none is left, and an open AI search has asked for its text (`SearchInv`).
- `ListsSettle` (projects, calendar, audit log): the newest load asks the question on
  screen, and what it has read from the server lacks no row known to be made when it
  began (`LoadShape`); once it has landed, the list holds every row of this visit that
  answers the question, once, but for rows whose create overlapped a load
  (`ListCurrent`); those are the only ones a newest load can miss (`Overlaps`).
- `LeftoversAreExplained`, `RestoresAreShown` (wiki): without a page on screen
  there is no viewer (`ViewerInv`); what a valid entry shows at rest, and what
  a GET has read for it, is the content at the server, except while the answer
  to a restore is due or after a restore told another page (`CacheInv`).
- `SharesHaveReasons` (files): every post about a file belongs to a share that
  ended, was cut off or is under way, and only one share of a file can have its
  dialog still drawn (`FilesInv`).
- `RosterSettlesDown` (settings): a list on the page shows the server's, or an
  answer that will replace it is due, or one came late; the same of each list
  that is on its way, was the server's and is not older than the one shown (`RosterInv`). Invites just sent are
  counted apart, since their answer appends one and replaces nothing.
- `PushesAreCurrent` (presence and notifications): with the socket up, a user's
  presence is known, or the frame that tells it is in flight, or the cache is
  already past what a GET has read, unless the user is one the roster may be wrong about;
  no value is ahead of the server's (`PushInv`). Notifications are current unless
  something on its way will have
  them fetched again, or the inbox was not told (`NotesInv`).
- `ChoicesStay` (conversations): the chosen conversation is in the list of its
  kind, or in the answer of the GET under way, unless the visitor was shut out
  of it, a failure emptied the list or a first load that had been read was joined; what a GET read is never older than what
  is shown (`ConvsInv`).

`CleanupProofs`, from `CleanupAssumption` (a command line names features that
exist; another is refused):

- `TypeCorrect`: what is left of a run is a program (`Program`): a step of the
  loop is about a feature of the command line, all of the closing steps are
  still to come while one is, and three orders are kept: the loop before what
  follows it, a theme window before both, the fonts last in the window. That
  `cleanup` sets out such a program for every command line is an argument
  about `FlattenSeq`, whose recursion is solved on a smallest index.
- `RunsAddUpHolds`, from the inductive `TreeInv`. `RunsAddUp` says nothing while a
  run is under way or a dead one is pending, so the tree has to be described
  then as well: with S stripped, P pending, F being stripped and T to do, nine
  operators (`Gone`, `Packages`, `Hosts`, `Nav`, `Links`, `Header`, `Menu`,
  `Docs`, `ThemesHold`) say what each part may still lack, and which step of T
  owes it. Each of the eighteen actions does one step of the program (`Does`),
  writes the backup or opens a theme window (`StepsAre`); each step keeps each
  part, the end of a run moves F to S and its death moves F to P. The order is
  needed because a step of the loop may leave work for those after it: a
  deletion orphans a dependency, a template brings image hosts or a menu
  entry. A theme window is followed to its last step (`Narrowing`); a death
  inside it is the exception `RunsAddUp` names.
- `OwnVariablesAreKept`: until there is a backup the developer's variables are
  all in `.env`, from then on in the backup (`OwnInv`): a step that would strip
  a variable first writes the backup, as a write of its own, and a backup is
  never written again.
- `DryRunsForetell`, from `ReportInv`: what a run has reported, together with
  what its steps to do would report of the tree as it is, never changes, in a
  real run but for two files (`ReportsStay`): a step takes from the tree what a later step
  would report only if it reports it itself, since no two features share a
  folder, a file, a dependency or a variable (`Disjoint`, `Apart`). Besides the two
  files, the backup of `.env` and the lines of a theme window are what a dry run
  leaves out (`Unannounced`); that theme lines come from runs that strip themes is
  `ThemeInv`.

Theorems that no run checks: the two `TypeCorrect`, `EmailIsUnique`, `LimiterTyped`,
`DenialIsJustified`, `RoomsTyped`, `SocketTyped`, `FilesTyped`, `ChatTyped` and
`BrowserTyped`.

Every invariant and every action property that a run checks is proved. Only
model-checked are the liveness properties `OrphansReclaimed`,
`BrokenRowsDropped`, `BroadcastsEnd`, `OpensInTheEnd` and `ComesToRest`
(fairness and ENABLED are out of reach), and the two sentences that a run
refutes. No module uses RECURSIVE.

## Divergences found

Two runs end in a violation: each checks a sentence of the repository that the
code does not keep.

- `account_deletion_sessions`: a login verifying its password while the
  account is deleted mints a session of the deleted account (`routers/auth.py:101-104`
  against `routers/account.py:159`). The account row is not read again after the await.
- `evicted_socket`: the stale set object. A broadcast holds object 1; its last
  live socket leaves, so the key goes; another socket joins and gets object 2;
  the broadcast ends with a dead peer, finds its object 1 empty and pops the
  key: the new socket is healthy and in no room (`ws.py:130-133`).

Met while modelling, without a run of their own:

- `delete_my_account` unlinks before its only commit, the order
  `routers/files.py:540-543` warns of; a failed commit leaves rows without
  bytes until the next applied sweep. `OnlyClosingTearsRows` says that this is
  the only way.
- `ORPHAN_MIN_AGE_HOURS` is documented (`docs/OPS.md:55`) and never read by
  the sweep; `--retention-days` "arms" retention by its help text
  (`maintenance.py:304-305`), the code still asks `RETENTION_ENABLED`.
- "Manage tasks with drag and drop" (`features/kanban/components/kanban-view-page.tsx:40`,
  also `src/app/README.md:18`): no card can be picked up. `TaskCard` renders a `KanbanItem`
  that is not its own handle and has none inside (`task-card.tsx:14`), and only a
  handle gets the sensor's listeners (`components/ui/kanban.tsx:917`). Cards change
  columns through the sheet.
- `features/presence/hooks/use-presence.tsx:83` says that the refetch when the socket opens
  "covers whatever changed while this socket was down". During the first load of the
  roster it joins that load, however early it was read, and covers nothing.
- `scripts/cleanup.js:1144` says that a dry run shows "what would be changed". For
  themes it lists the themes and returns (939-943), with `--all` too; the files
  that the run deletes and rewrites (976-1119) and the backup of `.env` (596) are not named.
- Stripping Sentry drops `@sentry/nextjs`, which `app/dashboard/overview/error.tsx:8`
  still imports: it is not among the conditional dependencies whose importers the
  script looks for.
- `app/dashboard/layout.tsx:99` says that the sidebar's state persists in a
  cookie; the value is read and dropped.
- Exceptions written into the properties, each at its definition: a write
  answered as done from seeded arrays (`AcknowledgedMeansStored`); a cookie of
  a dead session that the guard and the layout send back and forth
  (`ComesToRest`); lists that are empty because a fetch failed or a lookup was refused
  (`SettledChoiceIsOnScreen`, `SettledRosterIsCurrent`, `SettledListsAreCurrent`,
  `HiddenOwnWritesHaveAReason`); built-in rows shown for the server's
  (`SettledRosterIsCurrent`); a first load that was read before a write and is joined by
  the refetch that follows it (`SettledPushesAreCurrent`, `SettledChoiceIsOnScreen`,
  `HiddenOwnWritesHaveAReason`); a status that ages without a frame
  (`SettledPushesAreCurrent`); a row created while a load was under way, dropped or
  doubled until the next load (`SettledListsAreCurrent`); a restore that
  invalidates the page of the latest rendering (`RestoredPagesAreRefetched`);
  a share tried again that posts twice (`SecondPostHasAReason`); a send made
  offline that is posted to the channel on screen later
  (`OnlyWaitingSendsMove`); a field saved by a sheet whose task was refetched
  under it (`UntouchedFieldsSurvive`); Sentry's dependency and a torn run of the clean-up script that
  the next does not repair (`RunsAddUp`).

## Not modelled, and why

On the server:

- Websocket tickets (`dependencies.py:346-383`): one live ticket per user, so
  two sockets of one tab that mint at once end each other's; the hook retries,
  which `RealtimeSocket` has as a refused handshake.
- The stored status and the offline announcement that races the next online one
  (`routers/presence.py`; that a status ages is in `Inbox`, as a reader sees it); the socket of a peer that was pruned and recovered
  stays open and deaf (`ws.py:131`).
- Roles of the caller: the dependency reads the role before the body runs
  (`routers/members.py:83`), ownership can be assigned, a removed member's rows
  of private channels stay (119); invites are not bound to an address and race
  their cancellation (`routers/invites.py:108`); members of direct messages can
  be added (`routers/channels.py:549`). `Roster` has one visitor that may do
  what the page offers.
- Parents of wiki pages: two moves can make a cycle (`routers/pages.py:26`); no
  page of the front end moves one. The expansion of recurring events with its
  cap (`routers/events.py:104`) is a pure function a unit test reaches.
- The order of frames of one socket across rooms; payloads beyond identity.
- Password reset and the profile edits of `manage.py` change a hash or a name
  the model does not keep. AI, email, logging, settings, schemas, migrations
  keep no state of their own. Token signatures, MIME sniffing, file names and
  message texts are data no property tells apart. Growth of `_hits` is a matter
  of memory. `maintenance.py --retention-days 0`, which turns a configured retention off
  for one sweep (307): the sweep then does less.

In the front end: the overview, deadlines and AI chat pages draw a query and
change nothing (the chat talks to a canned stream); the bell of the header
shows a store of examples; typing indicators, attachments, the order of cards
in a column, drafts and form validation, charts, tables' sorting, menus and
styling are rendering or data.

Of `scripts/cleanup.js`: the git guard, the prompt, `launch.json` and the
build cache; nine of eleven themes behave like the two kept; torn writes other
than that of `.env` and its backup.

Out of the prover's reach, hence left to TLC: liveness under fairness and
ENABLED. Induction over data is out of reach as a rule of inference; where a
proof needs it (sums of sizes, places in an ascending order) it is an argument
about a smallest counterexample, from the well-foundedness of the naturals.

## Plan

1. `Tickets` and `Presence`: mint, use, expiry, logout-all; stored and
   published status with restart; composed with `WsRooms` and
   `RealtimeSocket`. Properties: a ticket opens one socket; what is published
   agrees with what is stored once nobody connects or leaves.
2. `Membership`: roles as read by the dependency, ownership, invites, private
   channels. Properties: exactly one owner, an invite admits one account once.
3. `PageTree`: parents, moves and versions; recurrence expansion against its definition.
4. Proofs: type correctness of the pages of the dashboard (their inductive
   invariants state the types they need, each for itself).

# AgentHub server: specification and verification

TLA+ models of `agenthub-server`, the TLC runs that check them on small
instances and the TLAPS proofs that hold for every instance. The server is one
Go process: an HTTP API with accounts, devices, agent sessions and blobs on a
SQLite database, a WebSocket hub, and an embedded Headscale coordinator that it
runs as a subprocess and talks to by gRPC. Paths below are relative to `src/`.

- [1. The system](#1-the-system)
- [2. The modules and the code](#2-the-modules-and-the-code)
- [3. What the runs check](#3-what-the-runs-check)
- [4. What is proved](#4-what-is-proved)
- [5. Disagreements found](#5-disagreements-found)
- [6. Not modelled](#6-not-modelled)
- [7. Plan](#7-plan)

## 1. The system

| component | state | operations | talks to |
|---|---|---|---|
| Device onboarding: `internal/devices/pairing.go`, `internal/api/devices.go` | `device_pair_codes`, `devices`, `api_tokens` | issue a pair code, claim a device, delete a device | Headscale service, hub |
| Headscale service: `internal/headscale/service.go`, `client.go`, `bridge.go` | `headscale_user_links`; Headscale's own users and keys | `ensureLink`, `MintPreAuthKey` | Headscale over a UNIX socket |
| Headscale supervisor: `internal/headscale/supervisor.go` | the subprocess, `waitErrCh` | `Start` (spawn, poll `/health`), `Wait`, signal and kill | `run`, errgroup |
| Realtime hub: `internal/realtime/inmem.go`, `internal/api/ws.go` | connections by account, a bounded channel and a `done` channel per connection | `Register`, `Publish`, writer, heartbeat, `BroadcastReconnect`, `Close` | domain handlers publish, peers read |
| Process life: `cmd/agenthub-server/main.go`, `internal/httpfront`, `internal/supervisor` | root context, errgroup, listener | boot, serve, drain, exit | everything |
| Password accounts: `internal/auth/service.go`, `tokens.go`, `sessions.go` | `users`, `verification_tokens`, `auth_sessions` | signup, verify, login, logout, reset | mail, OAuth login |
| OAuth login: `internal/auth/oauth.go`, `oauth_service.go` | `oauth_states`, `oauth_identities` | start, callback | the identity provider; writes `users` and `auth_sessions` too |
| API tokens: `internal/auth/apitokens.go`, `tokenauth_middleware.go` | `api_tokens` | create, look up, revoke | every handler |
| Front middleware: `internal/httpmw` | `idempotency_keys`; token buckets per address | replay a stored response, limit, evict | wraps `/api/auth` and others |
| Blobs: `internal/blob`, `internal/blobs`, `internal/api/blobs.go` | files, `blob_objects` | presign, upload, commit, read | hub |
| Agent sessions: `internal/sessions` | `agent_sessions` | create, touch, end | devices |
| Configuration: `internal/config` | none | `Load`, `Validate` | boot |
| JWT key: `internal/auth/keys.go` | `app_meta` | load or create | boot |

How they interact. Handlers share the database, whose pool has one connection
(`internal/db/sqlite/sqlite.go`): a Go transaction therefore runs alone, and
what is *not* in one transaction interleaves. The hub is shared memory guarded
by one mutex, which is released before channels and sockets are used. Headscale
is a second process with a database of its own; nothing is atomic across the
two. Requests end early when the client hangs up (the request's context cancels
the next database or gRPC call), and the whole process ends on SIGTERM.

What is hard, per component, and what makes it correct:

- **Onboarding.** A claim is a transaction, then up to four Headscale and
  database calls, an event and a response; claims race, break off anywhere and
  are retried with another code. Correct when a code admits one device, of its
  issuer, before it expires; when database and Headscale agree on who is who;
  when the event comes after the facts and before the response; when breaking
  off leaves little behind and never locks anybody out.
- **Hub.** Targets are copied under the mutex and used after it; channels fill;
  peers vanish; three goroutines per connection end for different reasons;
  `Close` races `Register`. Correct when events stay in their account and in
  order, publishers never wait, and no goroutine outlives its connection.
- **Process life.** SIGTERM, a dead or deaf subprocess and a failing listener
  arrive in any order at boot, in service and during the drain. Correct when
  requests are drained before the database closes, a failure is never reported
  as success, and the process ends.
- **Password accounts.** Tokens are consumed in one transaction and acted on
  in another statement, login verifies a hash it read some time ago. Correct
  when a token works once, when an interrupted step locks nobody out, when a
  revoked session is refused.
- **OAuth login.** A redirect is reloaded, two callbacks of one new identity find
  nobody, a signup takes the address in between. Correct when a redirect logs in
  once and users, identities and sessions agree.
- **API tokens, devices, agent sessions.** A handler looks a row up, judges it and
  updates it in a later statement; tokens are revoked and devices deleted in
  between. Correct when what ended or was deleted is not touched again, and no
  request joins under a revoked token.
- **Blobs.** Uploads overlap on one file, commits come early, twice, or break off.
  Correct when damage to a committed object does not last, and an object is
  announced once.
- **Front middleware.** Lookup, handler and insert are three steps; buckets are
  thrown away. Correct when one answer is replayed under a key, and when eviction is
  never noticed.
- **Boot.** The configuration comes from three sources and is judged by `Validate`
  and by every later stage, and some of its values only by the system, by
  `crypto/tls`, by the certificate authority or by Headscale; two processes may boot
  on one empty database. Correct when what `Validate` leaves to the later stages is
  known, and one key signs.

`PROJECT.json` lists each hazard at its line.

## 2. The modules and the code

Time is not counted in any module except as the clock of pair codes: a timeout
that is armed *may* fire at any moment. A payload is a model value.

### Enrollment and DevicePairing: device onboarding

`Enrollment` is the promise to a user, with no tables and no requests: a ticket
admits one device while it is open, and the credentials of a device reach one
claimer. `DevicePairing` is the code, and implements it.

State: the four tables (`pairCode`, `device`, `apiToken`, `link`) as functions
from keys to rows or `None`; Headscale's users (`hsUser`, whose value is the
user whose name the Headscale user carries); `claim[k]`, the local variables
and the program counter of the request of machine `k`; `announced`, the
published `device.created` events; the clock.

| action | code |
|---|---|
| `IssuePairCode` | `devices.IssuePairCode` |
| `ClaimTx` | the transaction of `ClaimDevice`: select, check expiry, consume, insert device and token, commit |
| `GetLink`, `FindUserByName`, `CreateUser`, `CreateLink` | `ensureLink`, one step per call; a duplicate makes the claim fail, as the constraint does |
| `MintPreAuthKey`, `Publish`, `Respond` | the rest of `claimDeviceHandler` |
| `Interrupt` | a call fails, the client hangs up, the response is lost |
| `Crash` | the process dies with every claim in flight |
| `DeleteDevice` | `SoftDeleteDevice` |

One step per store access is the finest interleaving the code can show, since
each access is one SQL statement, one transaction or one gRPC call. A user
stands for the pair of account and user of a request: signup creates exactly one
account per user and nothing else creates a membership. A new id is any unused
one (`CHOOSE`), because which one it is has no effect.

### EventFeed and RealtimeHub: the WebSocket hub

`EventFeed` is the promise to a client, with no channels and no goroutines: an
event announced while the client is a member is delivered at most once and after
the older ones of its publisher, and is lost only when `Backlog` others wait or the
feed is broken. `RealtimeHub` is the code, and implements it.

State: `registry` (`h.conns`), `hubDone` (`h.done`), and for each connection the
program counters of its handler, writer and heartbeat, its channel (`queue`), the
event its writer holds (`inHand`), `connDone`, its socket, and what was written
(`sent`). Publishers and the two shutdown sweeps carry the copy of targets they
took under the mutex.

Everything under the mutex is one step; everything after it is one step per
target. A socket is open, stalled (the peer does not answer) or closed, and the
environment (`Peer`) moves it at will. `WriterWrite` and `PingFails` close it as
the code does on a failed write or ping. The `select` of the writer may prefer
`done` to a queued event, and does in `WriterExit`. `BroadcastReconnect` and
`Close` may start at any moment and run beside each other. `deregister` is two steps,
`Deregister` under the mutex and `EndConn`, which closes `done` after it.

Under the mapping at the end of the module a client is a member from its registration
to its removal from the registry; the publisher's copy of targets announces; what is still to be
sent to a connection, is in its channel or in the hand of its writer is pending; `sent` is
the feed, unbroken until its writer has exited. The drop at a full channel is the loss.

### Lifecycle: one life of the process

State: where `main` is, whether the signal came, the subprocess (starting, ready,
stuck, gone, and whether it ignores SIGINT), the two services of the errgroup
and its first error, requests in flight, WebSocket clients and the progress of
the goroutine that tells them to reconnect.

Boot is `buildHeadscaler`: `Spawn`, the poll loop (`PollCheck`, `PollAnswer`,
`ReadyTimeout`), `Dial` with the DERP map, and `WaitForChild` when that map is
refused. Service is `FrontStop`, `Drained`, `DrainTimeout`, `FrontFails` for the
front end and `HeadscaleExits`, `HeadscaleCancelled` for `Supervisor.Wait`.
`SignalChild` and `KillChild` are the goroutine of `os/exec`: they stop when
`main` exits. With automatic TLS the front end has no graceful stop; `FrontStop`
then leaves it "abandoned". When `Serve` has failed and the group's context has ended
by then, the `select` of `httpfront.go:148` may take either, and in `FrontFails` the
error may be discarded. `RunReturns` and `Exit` are the end of `run`, with
its deferred calls.

### PasswordAccount and Credentials: accounts with a password

`PasswordAccount` is the promise to the owner of an address, with no handlers and no
statements: only a ticket that was mailed, taken while it was good and is still in
hand changes the account, once, for its purpose and the account it was written to;
a login by password is of a verified account, and a login is over once it has ended. `Credentials` is the
code, and implements it: a consumed token is "held" while a request is about to act on
it and "spent" afterwards, by the update or by whatever broke the request off.

State: `user`, `token`, `session` (the tables, a user named by its unique
email), `mailed` (tokens whose mail was delivered), `held` (sessions whose JWT
reached the client), `req[r]` (the state of one request in the server), and the
count of faults.

| action | code |
|---|---|
| `Signup`, `SignupToken`, `SendMail` | `Service.Signup`: the transaction, the token, the mail |
| `VerifyEmail`, `MarkEmailVerified` | `Service.VerifyEmail`: `ConsumeVerificationToken`, then the update |
| `RequestPasswordReset`, `SendMail` | `Service.RequestPasswordReset` |
| `ResetPassword`, `UpdatePasswordHash` | `Service.ResetPassword`: consume, hash, update |
| `Login`, `CreateSession`, `Reply` | `Service.Login`: the row is read and checked, the session created, the JWT signed and answered |
| `ProviderSignup` | `upsertIdentity` for a new address (`oauth_service.go:207-257`): a user verified by the provider's word, without a mail and without a password |
| `ProviderLogin` | `upsertIdentity` for a user that exists (lines 168-205): neither checks nor sets the verified mark |
| `CreateSession`, `Reply` | also the end of `FinishLogin` (lines 74-85), which creates a session of that user, verified or not |
| `Logout`, `RevokeSession` | `CheckSessionActive` in the middleware, then the update |
| `Lapse`, `Expire` | a token or a session reaches `expires_at` |
| `Interrupt`, `Crash` | a request breaks off between two of its steps, or all do |

A request that is refused changes nothing and is not an action. The raw token
exists only in its mail, so a client can present it once the mail was delivered.
One password is `Mistyped`: its owner cannot repeat it, and must reset it.
Nothing removes a row of `users`, and the reset of a password revokes no session.

The login through a provider writes `users` and `auth_sessions` too, and what is said of
these tables is limited accordingly. "Verified only by mail" is about the accounts
that `Signup` made: a provider's account is verified from the start, and may get a
password by a reset. "A session is of a verified user" is about the sessions that
`Login` created: a provider's login joins an unverified password account, leaves it
unverified and gets a session of it. The fields `by` of a user and `via` of a session
are no columns; they record who made the row, and no action reads them. How `upsertIdentity` finds
its user, and its races, are in `OAuthLogin`; since rows of `users` stay and keep
their address, only its outcome matters here. The design document
(`docs/superpowers/specs/2026-04-16-agenthub-server-design.md:174`) lets signup return
a `tmp_jwt`; the code returns none, and the model follows the code.

### ProviderLogin and OAuthLogin: login through a provider

`ProviderLogin` is the promise, with no requests and no transactions: a redirect logs in
at most once and while it is open, an address and an identity keep the user they
have, a new identity joins the user of the address it comes with or makes one, and a
login is as the user of its identity. `OAuthLogin` is the code, and implements it: of a
callback only the consumption of the state and the inserts are seen.

State: `user` (rows made by a signup or by a callback), `identity`, `state` (the
one-shot states), `session`, each with what the properties tell apart, and
`req[r]`, the stage of a callback.

| action | code |
|---|---|
| `Start`, `Lapse` | `CreateOAuthState`; the state reaches `expires_at` |
| `Callback` | `oauthCallbackHandler` up to `ConsumeOAuthState`, one transaction |
| `FetchUserInfo` | `Exchange` and `fetchUserInfo`: any identity with any address |
| `FindIdentity`, `FindUser` | the two lookups of `upsertIdentity` |
| `LinkIdentity`, `CreateUser` | its two ways to insert; a conflict fails the callback |
| `CreateSession`, `Reply` | the rest of `FinishLogin`, and the answer |
| `Signup` | the transaction of `Service.Signup`, competing for the address |
| `Interrupt`, `Crash` | a request breaks off, or all do |

The state's provider is not compared with the callback's, so states have none. The
rows of `session` also record from which state and identity they came, which the
table does not; nothing but the properties reads it.

### ApiTokens, DeviceReports, BlobUpload and AccountApi: the API of an account

`ApiTokens` holds the tokens and the requests under them: `Enter` is the check
of `RequireAuthOrToken`, made once, in front of every handler. `DeviceReports`
adds `device` and `agent` (agent sessions), `BlobUpload` adds the files, the
rows, the events and the answers of objects. `AccountApi` composes them: any route,
under any token or in a dashboard session, beside any other.

| action | code |
|---|---|
| `Claim` | the inserts of `ClaimDevice`, in full in `DevicePairing` |
| `CreateToken`, `RevokeToken` | `CreateAPIToken`, `RevokeAPIToken` |
| `DeleteDevice`, `SoftDelete` | lookup and update of `deleteDeviceHandler` |
| `TailscaleInfo` | `UpdateTailscaleInfo`, for the token's own device |
| `StartSession`, `FindSession`, `TouchActivity`, `StopSession` | the handlers of `/api/sessions`, lookup and update apart |
| `Truncate`, `CopyPart`, `FinishUpload` | `FileBlob.Put`: create, copy in parts, return |
| `Commit`, `CreateObject`, `Publish`, `Answer` | `commitBlobHandler`: stat, insert, event, 200 |
| `Interrupt`, `Crash` | hang-ups and failing calls; the process dies |

`cut` records at which costly stage a request was cut off: the properties say that
only this excuses a partial file or a silent object. Presign keeps no state: it
draws an id, so any object may be uploaded or committed at any time.

What the model shows and no property forbids, because nothing in the repository
says otherwise: revocation meets a token of any account; tokens made by the
handlers never expire; a deleted device keeps its token and may start and end
agent sessions; `TouchActivity` stamps an ended session; a repeated commit is
answered 500; `Exists` accepts a file that is still being uploaded.

### Configuration, ServerBoot, FrontMiddleware, TokenBucket and ServerFront

`Configuration` is pure: `Load` lays YAML over the defaults and the environment
over both and derives the paths; `Valid` is `Validate`. What is demanded later is, in the
order of the boot, `OpensDB` (`openDB`), `SupervisorStarts` (`Supervisor.Start`, with
`Renders` for `RenderConfig`), `HasDERPMap` (`BuildDERPMap`), `HasFrontend`
(`newFrontend`, `New`), `MayListen` (`net.Listen`, `certmagic.HTTPS`) and
`LoadsKeys` (`ServeTLS`). A value is a class of values ("zero", "good" and "wrong" for
numbers; empty and set for text; what `os.Stat` finds for paths). The class "unfit" is
a value of the right form that the one who reads it refuses:

| field | who refuses it |
|---|---|
| `data_dir`, `headscale.data_dir` | the file system: it cannot be made or written |
| `headscale.binary_path` | the kernel: it exists and cannot be executed |
| `http.port` | the kernel: it may not be bound (taken by another program, privileged) |
| `cert_file`, `key_file` | `crypto/tls`: missing, unreadable, not a pair |
| `hostname`, `email` with automatic TLS | `certmagic` and the authority: no certificate for that host, which is so for the default `localhost`, or for that account |
| the texts of the rendered file | Headscale: not an address, a URL, a name it accepts |

`ready_timeout` is "wrong" when Headscale cannot answer within it. Whether a value is
fit does not change while a configuration is used; a failure that no setting is to
blame for (a full disk, a lost network) is `Die`.

`ServerBoot` is the boot of processes on one database: `Start`, `OpenDB`,
`SelectKey` and `InsertKey` (`LoadOrCreateJWTKey`), `BuildHeadscaler`, `Listen`,
with `Die` at every stage, `Stop` and `Sign`. `FrontMiddleware` is what a request
passes: `Arrive` takes a token (`get` and `Allow`), `Replay` or `Miss` is the
lookup, `Succeed` or `Fail` the handler, `Store` or `LoseStore` the insert;
`Expire` is the row's TTL, `Forget` the end of the process. `Allow` runs after the
lock of `get` is released, but on a limiter that was just seen, so that nobody
can evict it in between: the two are one step. `TokenBucket` is the promise of
the limiter, with buckets that are kept for ever. `ServerFront` composes the
three: requests run while a process serves, and a handler that succeeds may sign
a session.

What the model shows and no property forbids: retries in flight each run the
handler, and so does every retry after the row has expired, since nothing deletes
or replaces it; a failing lookup counts as a miss; method and path are not
compared; one set of buckets is shared by `/api/auth`, `/api/auth/oauth` and
`/api/devices`. Of two processes that boot on an empty database, the one that
inserts second exits with an error. `LeftToBoot` lists what `Validate` passes and
the boot refuses, in two parts. `NotChecked` are demands that `Validate` could have
checked and does not: a driver other than `postgres`, a `data_dir`, a host for
automatic TLS, and with Headscale a `grpc_listen_addr`, a DERP region code and name and
a DERP port that is not zero. `JudgedLater` are the fields in use
whose value is unfit or fit in the eyes of the reader alone (the table above), with
`ready_timeout`. `LateRefusalsKnown` says that the list is exact: what is refused
after `Validate` is on it, and what is served is not. A refused DERP map leaves the
process waiting for its child; a missing certificate file is noticed with Headscale
already running.

The modules do not share variables: onboarding reaches the hub only by
`Publish`, which never blocks (`PublishReturns`) and never fails, so that a
publication is one step of `DevicePairing`; `Lifecycle` sees onboarding as
requests in flight and the hub as its clients; `BlobUpload` publishes in one step
for the same reason. `Claim` of `DeviceReports` is the device and the token of
`ClaimTx`, and what `Listen` and `BuildHeadscaler` leave out of the processes is in
`Lifecycle`.

## 3. What the runs check

Deadlock is not checked, since the clocks and inputs are bounded and the process
is meant to stop. Each property was also seen to fail with a plausible bug in
the code: the definitions called "broken variant" are those bugs, and no action
uses them.

| run | instance | what it shows |
|---|---|---|
| `pairing_safety` | 2 users, 2 claimers, 3 codes, 1 fault, 1 deletion, clock 0..2, a code lives for 1 | the tables agree (`EnrolledOnce`), database and Headscale agree (`LinkNamesUser`), the event is in its place (`AnnouncedInOrder`), and every step is one of `Enrollment` (`KeepsPromise`) |
| `pairing_recovery` | 1 user, 2 claimers, 5 codes, 1 fault | orphaned devices are few (`OrphansBounded`), claims end, a machine that retries is admitted |
| `hub_safety` | 2 connections of 2 accounts, 1 publisher, 2 events, channel of 1 | `Isolation` with connections coming and going between copy and send, with both sweeps running; no handler is left in a `Read` that nobody ends (`NobodyLeftBehind`) |
| `hub_liveness` | 1 connection, 1 publisher, 3 events, channel of 2 | every step is one of `EventFeed` (`DeliversAsPromised`), publishers return, goroutines end together, stale peers are culled, `Close` reaches everyone |
| `lifecycle` | 1 client, 2 requests | drain before exit, no silent failure, the process stops when asked and when its coordinator died |
| `credentials_safety` | 2 emails, 2 tokens, 1 session, 2 requests, 2 faults | the email of an account made by a signup is verified only by mail (`VerifiedByMail`), an account is stranded (`StrandedBounded`) and a session lost only by a fault of its own, and a session got by password is of a verified user (`SessionsAccounted`), and every step is one of `PasswordAccount` (`ActsAsPromised`) |
| `credentials_recovery` | 1 email, 3 tokens, 2 sessions, 2 requests, 1 fault | a verified user who forgot the password gets in (`OwnerGetsIn`) |
| `oauth_login` | 3 users, 2 emails, 2 identities, 3 states, 2 sessions, 3 callbacks | one user per address, one user per identity, sessions of that user, nobody half created (`AccountsAgree`), and every step is one of `ProviderLogin` (`LogsInAsPromised`) |
| `account_api` | 2 tokens, 1 device, 1 agent session, 1 object of 2 parts, 3 requests at a time, 4 in all | damage to a committed object does not last (`ObjectsWhole`), one event per object, in its place (`CommitsAnnounced`), late reports change nothing that was settled (`LateReportsHarmless`), nobody joins under a revoked token (`RevokedTokensFade`) |
| `server_front` | 2 processes, 2 keys, 19 settings; 1 address, 1 idempotency key, 2 bodies, 2 requests, burst 2, rate 1, TTL 2 | one key signs (`OneSigningKey`), what is refused after `Validate` is on the list of what it leaves to the boot, and what is served is not (`LateRefusalsKnown`), one answer per idempotency key (`OneAnswerPerKey`), and the limiter implements `TokenBucket` (`LimiterIsTokenBucket`) |
| `lifecycle_exit_status`, `lifecycle_reconnect` | as `lifecycle`, 2 clients for the second | violations, section 5 |

Why the bounds suffice to see the hard cases. Two claimers of one user are what
the race for the first link needs; two users are what a wrong link or a foreign
code needs; three codes let one lapse, one be consumed and one be retried. One
fault, placed anywhere, shows each partial state, and five codes in the recovery
run are more than the two claimers can burn with it. A channel of one drops at
the second event while one is in hand; the liveness run has an event queued, one
in hand and one dropped at a time. Two connections suffice for isolation since
an event concerns one connection and its account; per-connection liveness is
checked on one, the goroutines of different connections touching only the
registry in common. Two tokens are one for a signup and one for a reset, or one for each of two signups; the
third of the recovery run is for the reset after one that broke off. Two accounts tell a token's user
from another, and two requests present one token together, or are a login by password
and one through a provider that want a session each; the one session of the safety run
goes through its whole life for either login, and the recovery run has two. Two requests in
`Lifecycle` make the count pass through a value that is
neither none nor all. Three callbacks are two that race for an identity and one that
comes with its address; three users let a signup, a callback and another callback each
make one, and two sessions are two logins of a redirect or of an identity. Two requests are needed for every stale read of `account_api` and a
third cuts in between; two parts make a file that is neither empty nor whole; four
calls are an upload, a commit, another upload and a second commit, or a lookup, a
deletion, a revocation and a report. Burst 2, rate 1 and TTL 2 meet the assumption
`Burst <= Rate * BucketTTL` with equality, so that one tick less would show. The
settings have a server alone, one with Headscale and DERP, one with certificate files
and a hosted one, each spoilt in a way that is caught early or late, some mended by
the environment, and one refused by each kind of reader; 14 of the 19 pass `Validate`,
of which 9 are left to the boot.

Fairness. A goroutine that can run does: weak fairness on each step of a claim,
on each of the three goroutines of a connection, on the publishers, on the handlers
of `Credentials`, on main and on the waits of `Lifecycle`. Armed timeouts fire: the ping and write timeouts are
in `Heartbeat` and `Writer`, the ready and kill timeouts in `ReadyTimeout` and
`KillChild`, the drain timeout in `Front`. No fairness is given to the
environment: peers may stall for ever, clients may never come, handlers may never
answer, the subprocess may hang, the signal may never arrive. The
other assumptions are about clients. For `OwnerGetsIn`, a user who wants in asks
for a reset, uses the token of a mail and logs in, each again and again (strong
fairness, because a fault takes the opportunity away). For
`EveryClaimerServed`, users go on issuing codes, and a
machine that was turned away tries again (strong fairness on its transaction,
because other claimers take codes away from it).

## 4. What is proved

For every number of users, codes, tokens, sessions, claimers, connections, publishers, channel
capacity, faults and requests. The assumptions are the named `ASSUME`s of the
modules: `None` is no value, bounds are natural numbers, there is an account,
an evicted bucket would be full (`BurstRefills`; the defaults, 20 <= 5 * 300, meet it,
and `Validate` does not ask for it), settings are typed,
connections have accounts, a channel holds at least one event, the handlers of
`Credentials` are finitely many, and so are the claimers (at least one) and the
users of `DevicePairing`.

- **Onboarding** (`DevicePairing_proof`). `TypeOK`, `EnrolledOnce`,
  `LinkNamesUser`, `AnnouncedInOrder` and `ClaimsConsistent` form one inductive
  invariant (`Invariance`). None of them is inductive alone: that a link names
  its user needs the claim about to insert it to hold the right Headscale user,
  which needs the claim to remember the device's user. That an event is in order
  needs that a claim past `CreateLink` still sees its link row, true because no
  action removes a row (`StepsOnlyGrow`). The claim transaction is the hard step:
  the tables agree after it because the code's row, the device and the token
  change together. `TypeCorrect`, `OneDevicePerCode`, `KeysNameTheirUser`,
  `EventsInOrder` and `ClaimsRemember` follow. `RowsStay` states for every step what
  the invariant leans on: a row keeps its owner, a link and a Headscale user stay what
  they are, an event stays published.
- **The length of a claim** (`DevicePairing_proof`). `ClaimsAreShort`: a claim in flight
  stands still or gets closer to its end, so it takes at most seven steps, however
  many claims race with it. That is the part of `ClaimsEnd` that needs no fairness: no
  conflict makes `ensureLink` start over.
- **Orphans** (`DevicePairing_proof`). `OrphansBounded` counts (`Accounted`): the
  orphans, and the losses that are still possible, are together at most the faults and
  the bound. A claim that finds the Headscale user or the link taken gives up one of
  these losses (`OneForgotten`), the winner leaves no more of them than there were
  rivals (`RaceTaken`), and no other step opens one (`NoNewRaces`).
- **The promise** (`DevicePairing_promise`). `PromiseKept`: every behaviour of
  `DevicePairing` is one of `Enrollment` under the mapping at the end of the
  module. The clock maps to `Lapse` of the codes that pass their time,
  `IssuePairCode` to `Issue`, `ClaimTx` to `Redeem`, `Respond` to `Deliver`, all
  other steps to a stutter. That `Deliver` gives a device to one claimer only
  uses that no two claims carry the same device.
- **The hub** (`RealtimeHub_proof`). `AccountsIsolated`:
  the copy of targets already has the account of the event, and every move of an
  event keeps it on its connection. `EventsInPublicationOrder`: events are written,
  in hand or queued, each place is ordered, each earlier place precedes the later
  ones, and what a connection has of a publisher is older than the event that
  publisher still has to send to it. `NobodyIsLeftBehind` needs the life of a
  connection (`LifeInv`): its writer and its heartbeat end for a reason, the registry has
  exactly the connections whose handler runs, and a handler that reads while the hub
  closes is woken or about to be: `Close` copies the registry after it has closed the
  hub's `done`, and a connection it misses sees that before it reads.
  `DeliveryKeepsPromise` is the refinement of `EventFeed`: an event that is pending is
  in exactly one place, since the places are ordered and disjoint (`FeedInv`); what
  leaves a place for the next is no step, what leaves the last is a delivery of the
  oldest of its publisher, and a full channel holds as many other events as the
  promise allows to wait.
- **The process** (`Lifecycle_proof`). `FailureReported` and `RequestsDrained`
  rest on what is known between the services and main: how each service ended,
  what it left in the errgroup, and that main leaves when both have. An error of
  `Serve` that comes together with the signal, and that the `select` passes over, is
  no failure in the sense of `NoSilentFailure`.
- **Accounts** (`Credentials_proof`). `TokenWorksOnce` and
  `VerificationNeedsMail` need what requests remember of the tables
  (`RequestsRemember`) and that a consumed token was mailed
  (`TokenRowsMeaningful`); the second is about accounts that a signup made, and holds
  although provider logins join them and resets change them. `StrandingNeedsFaults` and
  `SessionsAreAccountedFor` count: no step but a fault strands an account or
  loses a session (`NoFaultStrands`), a lapsed token or an interrupted request
  strands one user and loses one session (`LapseStrandsOne`,
  `InterruptStrandsOne`), a crash at most one for each request it ends
  (`CrashStrandsItsRequests`), and `trouble` grows by as much. That a session got by
  password is of a verified user needs that a request on its way to `CreateSession` by
  that way read a verified row, and that no writer of `users` takes the mark away. `AccountKeepsPromise` is
  the refinement of `PasswordAccount`: a token is in one hand (`HandOpens`), which takes it
  (`ConsumeTakes`), acts on the account it is about (`HandActs`) or loses it
  (`FaultBurns`).
- **OAuth** (`OAuthLogin_proof`). `RedirectWorksOnce` needs that a consumed
  state is never consumable again and that a callback past `Callback` holds a consumed
  one; `AccountsStayInAgreement` needs what a callback remembers: the user it found
  still has the address it came with, since no row of `users` changes its address, and
  the user it is about to give a session to is the one of its identity.
  `LoginKeepsPromise` is the refinement of `ProviderLogin`: each insert has the guard of
  its abstract action because a `UNIQUE` constraint or the consumed state says so
  (`NewUserTakes`, `NewRowBinds`, `SessionLogsIn`).
- **The account's API** (`AccountApi_proof`). `ObjectsStayWhole` follows from an
  account of each file: a part is missing only while an upload still has it in front
  of it, or one was cut off. `CommitsStayAnnounced` needs that one commit at most is past
  the insert, which the primary key decides. `LateReportsAreHarmless` and
  `RevocationIsFinal` are about steps; they hold because the update has the condition
  in its `WHERE`, and not because the handler looked.
- **Boot and front** (`ServerFront_proof`). A step moves the processes, the requests,
  or both (`TwoHalves`), and the invariant has two halves. `LoadIsConfig` shows that
  whatever the file and the environment say makes a typed configuration with its
  paths derived. `RefusalsAreLeft` and `LeftIsRefused` compare `Validate` with the
  demands of the boot in the two directions: a demand that a validated configuration
  fails is in `LeftToBoot`, and one in `LeftToBoot` fails a demand. `RefusalsAreKnown` joins
  them by what is known of a process at each stage: that its configuration has
  been validated and has met the demands of the stages behind it. `SessionsKeepTheirKey` needs that nothing was
  signed before the row exists. `AnswersAreOne` needs that what was replayed is what
  the row says, live or not. `LimiterKeepsItsPromise` is the refinement: a stale
  bucket is full (`StaleIsFull`), a tick refills whatever the age (`TickRefills`), so
  that an absent bucket stands for a full one.

Only model-checked: everything about liveness, since the prover has neither `ENABLED`
nor fairness. No module uses a recursive operator; the proofs need no induction
over data, for sequences are treated by their indices.

## 5. Disagreements found

- **A clean stop with Headscale exits 1** (`lifecycle_exit_status`).
  `Supervisor.Wait` returns `ctx.Err()`, `supervisor.Run` wraps it, and
  `cmd/agenthub-server/main.go:210` compares the wrapped error with
  `context.Canceled` by `!=`. `internal/supervisor/supervisor.go:21` says a clean
  external cancel is not an error. Under `Restart=on-failure`, an operator's
  SIGTERM to the process is undone.
- **Clients may not be told to reconnect** (`lifecycle_reconnect`). Nobody waits
  for the goroutine of `cmd/agenthub-server/main.go:204`, and `http.Server`'s
  `Shutdown` does not count hijacked connections. Plan 10 (line 797) says that
  `reconnect` is sent to all clients before closing.

Seen while reading and not checked by a run: `GET /health` at boot has no
timeout, so `ReadyTimeout` does not bound a child that accepts and never answers;
a child that exits with status 0 ends its service without an error, and the server
goes on without a coordinator (`DeadChildStopsServer` is about the other exits);
a stale peer is culled after interval and timeout together, 120 s with the
defaults, not after the 90 s of `internal/realtime/types.go:32`.

## 6. Not modelled

- Headscale's own behaviour behind its socket, the network, the browser, mail
  delivery and the file system are the environment of the models.
- Rendering of the Headscale configuration and of the DERP map, the admin SPA
  and its read-only queries, health and error responses and logging have no state
  to be wrong. What rendering refuses is in `Configuration`; a refused DERP map is an
  outcome of `Lifecycle!Dial` and `ServerBoot!BuildHeadscaler`.
- Fields of the configuration that no check reads (log, mail, OAuth, lifetimes,
  rate limit), and passwords and secrets: they follow the same precedence.
- The text of requests and answers, addresses behind a proxy, cookies, and the
  parsing of tokens and identities.
- `blobs.Delete` and `CreateDevice`, which no handler calls.
- The database library is taken at its word: transactions of the single
  connection are serial, a constraint makes a statement fail, a commit is whole.
- `Exit` closes hub, client and database in one step: the deferred calls run in
  one goroutine, and only the goroutines that die with it could see the
  difference. That goroutines of one life leave an orphaned subprocess to the
  next is listed as a hazard, not modelled.

## 7. Plan

What is left, in the order of its worth:

1. A hub with the session of its connections: registration under a session that
   ends, composed with `Credentials`, and a heartbeat with ticks.
2. Two lives of the process over one subprocess, on top of `Lifecycle`.
3. A reset of the password against logins under way, and what it should do to older
   sessions, once the repository says.

What is left to prove: an abstract life of the process that `Lifecycle` implements, and
an abstract store of blobs for `BlobUpload`. Liveness stays with TLC.

Each new module follows the layout of the others: a module with its properties and
broken variants, an `MC` module with one or two configurations, a `_proof`
module with the inductive invariant.

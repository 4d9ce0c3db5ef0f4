# INITE Auth: a TLA+ verification of the authorization service

The backend under `src/src/` is a NestJS identity provider (OAuth 2.1 / OpenID Connect,
password, passkey, OTP and federated sign-in, SCIM, Shared Signals) over PostgreSQL
(Prisma) and Redis. Any number of processes serve requests; almost every operation is a
chain of awaited database statements, few of them in a transaction, and the database runs
at its default isolation, READ COMMITTED. What can go wrong is what happens *between* those
statements: another request, a retry, the clock, the hourly cleanup, a process that dies.
These modules specify that. TLC explores small instances completely; TLAPS proves the
safety of every one of them for every value of the constants.

All source paths below are relative to `src/src/` of the repository.

## 1. Inventory

Every part of the system, the state it keeps and its hard behaviours. "Module" names the one
that models it; *planned* ones are described in section 2.

| Part | State | Operations | Hard behaviour | What makes it correct | Module |
|---|---|---|---|---|---|
| Refresh tokens (`oauth/refresh-grant.ts`, `refresh-grace.ts`, `oauth-token-issuer.service.ts`) | `RefreshToken` rows: revoked, revokedAt, rotatedFrom, expiry, the sealed pair kept for the reuse grace | issue, rotate, replay, revoke one / all / a session, hourly cleanup | two rotations of one token; a replay against a revoke, the window's edge, a crash between revoke and erasure | rotation is linear; a replay adds no session and revives nothing; honest concurrency is no theft; kept pairs go | `RefreshFamily` |
| Authorization codes (`oauth/oauth.service.ts`, `token-grant.service.ts`) | `AuthorizationCode` rows: used, expiry, scope | issue (screen, silent), exchange, replay, cleanup | two exchanges; failure after the claim; replay against the first exchange | pays out once, and only what was approved; a replay ends all its UPDATE reads | `CodeGrant` |
| Consent and agents (`oauth/consent.service.ts`, `agents.service.ts`) | `OAuthConsent.scopes`, `Agent` rows (one live per person and application) | is it required, record, revoke; agent for a token, retire | read-merge-write of scopes; two creators; a disconnect between conflict and second look | consent is what was approved; a token never names a retired agent; a disconnect ends all its UPDATE reads | `CodeGrant` |
| Device flow (`oauth/device-flow.service.ts`) | `DeviceAuthorization` rows: status, user, expiry, poll clock | issue, approve, deny, poll, redeem | decisions on a status read earlier; two redeeming polls; expiry | tokens once, to an approver, never after a clean denial | `DeviceFlow` |
| Password sign-in and lockout (`auth/auth.service.ts`, `login-security.service.ts`, `admin/admin.service.ts`) | `failedLoginCount`, `lockoutUntil` | sign in, miss, forgive, kill switch | counts read before bcrypt and written after it | guesses are bounded; a lock outlives later sign-ins; the count does not slip | `PasswordLockout` |
| One-time codes (`auth/otp/`) | Redis record: code hash, attempts; cooldown and hour's count | send, verify, limits | read-decide-write on keys with a TTL | attempts are bounded; a settled code stays shut; sends are capped | `OtpCode` |
| Magic links (`auth/magic-link.service.ts`) | rows with `used` and an expiry | issue, verify, cleanup | update by id after a read | a link is accepted again only by an overlapping request | `SingleUse` |
| Passkeys (`auth/passkey.service.ts`) | challenge key, signature counter | options, register, authenticate | GETDEL challenge; counter compared, then written | a challenge is used once | `SingleUse` (the challenge, kind `uri`) |
| DPoP, client assertions, PAR (`oauth/dpop.service.ts`, `client-assertion*.ts`, `par.service.ts`) | `jti` keys, `jti` rows and their reaper, pushed requests | push, consume, insert, reap, look and store | get-then-set against unique insert against GETDEL; lifetimes against skews | each value is accepted once, or where not, why | `SingleUse` |
| Idempotency keys (`common/idempotency.interceptor.ts`) | replies in Redis by key | look up, run, store | concurrent retries | a retry does not run again while the reply is kept | `SingleUse` (kind `call`) |
| Two-factor, backup codes, e-mail change, reset link, roles (`identity/`, `auth/auth.service.ts`, `admin/admin.service.ts`) | one row per user: columns, and one JSON column for codes, pending change and roles | set up, enable, disable, verify, regenerate; request, cancel, confirm; request, reset; delete | the whole JSON column read, merged and written; updates by id | what was spent stays spent; an enabled factor is one that was confirmed | `AccountRecord` |
| Shared Signals (`ssf/`) | `SetDelivery` rows: status, attempts, next attempt; streams | emit, push, poll, acknowledge, drain, pause, remove | lost and late answers, overlapping drains, crash after insert | attempts are bounded; acknowledged is final; every event is settled | `SsfDelivery` |
| Settings snapshots (`common/settings/`; `auth/federation/federation-config.store.ts` is kept the same way) | in-memory map with a TTL in every process, rows | get, set, unset, invalidate, reload | a reload shared by callers that started before a write, or that fails | a writer sees its write, and so does who comes after; every process catches up | `SettingsStore` |
| Sessions, back-channel logout (`session/`, `oauth/backchannel-logout.service.ts`) | refresh-token rows seen as sessions | list, revoke one, revoke all, fan-out | revoke against rotation | in the refresh-token rows | `RefreshFamily` (the revokes) |
| Clients: registry, DCR, reaper, authentication | `OAuthClient` rows | register, rotate, reap | reaper against a first token; a client whose tokens the hourly cleanup deleted looks as if it never had one (`oauth/dcr-reaper.service.ts:75`, `oauth/oauth.service.ts:414`) | only unused clients go | not modelled; reaper planned in `CodeGrant` |
| Service tokens, token exchange, API keys, demo grant | key rows | mint, introspect | none beyond one read | scope attenuation | not modelled (pure decisions) |
| Scopes, step-up, customer lane, workspaces, wallet grant | none of its own | decide | none | pure decisions | planned operators |
| Federation, SAML, Telegram, wallet sign-in | state/nonce keys, identity rows | start, callback, link | linking by e-mail | a state is used once; unique identities | `SingleUse` (states, payloads) |
| Identities, DIDs, wallets | rows, keys | create, resolve | none | uniqueness | not modelled |
| Organizations, memberships, roles; SCIM | single rows under unique keys | upserts, member lists | two-statement replacement | row-level | not modelled |
| Administration CRUD, audit log and webhook | rows, append-only log | CRUD, append | none | - | not modelled (kill switch: `PasswordLockout`) |
| E-mail, signing keys, crypto, HTTP, health, metrics; schema; frontend, SDK, scripts | - | I/O | - | - | not modelled |

How the parts meet: the token endpoint (`token-grant.service.ts`) calls one grant, which
checks its own credential (code, device code, refresh token) and then the issuer
(`generateTokens`), which names the agent and inserts a refresh token. Everything that ends
a session - sign-out, password change, kill switch, disconnect, replay - does it by an UPDATE
on refresh-token rows. They share state only through the database, never by calling each
other back; the models follow that: shared variables are tables, and a request is a little
program counter with what it has read.

## 2. Plan

1. (done) `RefreshFamily` against `SessionLedger`, with proofs. The heart: every session is
   a refresh token, and every revoke lands here.
2. (done) `CodeGrant` and `DeviceFlow`, the two ways families start, both against `OneShot`.
3. (done) `PasswordLockout`, with proofs.
4. (done) `SingleUse`, the ways a value is taken once (GETDEL, SET NX, unique row, get-then-set,
   update by id), the atomic ones against `OneShot`; and `OtpCode`, a record that is counted on.
5. (done) `SsfDelivery`: emission, push, poll and drain, with lost writes and dead processes.
6. (done) `AccountRecord`: one row, operations that write back what they read.
7. (done) `SettingsStore`: several processes' snapshots of one table. It stands alone: nothing
   else modelled reads a setting that changes.
8. The dynamic-registration reaper in `CodeGrant` (its look and its delete, with token rows that the
   cleanup takes); authorization policy (scopes,
   customer lane, token-exchange attenuation) as operators checked against a reference.

The project stays small in runs: a component gets one passing run, plus a violation only where a
comment of the code is contradicted and the passing properties do not already say how far.

Proofs: every safety invariant, action property and refinement that a passing run checks is a
theorem (section 6), and so is the safety half of each liveness property: what has to be there, or
must not be, for the scheduling assumed in section 5 to be enough.

## 3. Modules and how they correspond to the code

Common to all: **one action is one database statement, or one committed transaction,
together with the code up to the next `await`.** A request's `pc` says which statement is
next; its other fields hold exactly what later code uses of what it read. Any number of
requests run at once, on one process or several: but for `SettingsStore`, nothing in these paths is
kept in process memory. `Crash(p)` drops a request between two statements and keeps what it wrote.

READ COMMITTED: an UPDATE by id or with a condition on one row is atomic (a concurrent writer
waits and the WHERE is re-evaluated). An UPDATE over many rows is two actions: it takes the
rows visible when it starts, and later changes those that still match; rows inserted between
the two escape it.

### `RefreshFamily` (refines `SessionLedger`)
The rows one person has at one client. `row[t]` carries state, `parent` (rotatedFrom),
`revokedAt`, `expiresAt`, and the kept pair, named by the child it belongs to (`kept`,
`keptUntil`). Rotation: `PresentLive` (reads and refusals before the claim) then `Rotate`
(the transaction of `claimRotation` *and* the insert, with the erasure of the parent's kept
pair) or `LoseClaim`, `Reread`. Replay: `PresentRevoked`, `Grace` (an expired pair is erased
first), `FindChild`, `CheckChild` (childState's conditional update), `CountGrandchildren`;
every refusal of the grace is `NoGrace`, which for a replay is the theft verdict. Revokes:
`RevokeStart`/`RevokeApply`/`EraseStart`/`EraseApply` for a family, `RevokeOne` /
`RevokeOneApply` / `EraseAround` for one token (RFC 7009) or one session. `CleanupRows` and
`CleanupPairs` are the cron's two statements with its one `now`. History variables: `dead`
(what was already dead when a request came in) and `cut` (something other than a rotation
ended a token or erased a pair).

`SessionLedger` is the promise: sign-ins open sessions, a live token is exchanged for one
fresh token, tokens end, nothing comes back. Mapping: `live` = live rows, `spent` = revoked
and deleted ones.

### `CodeGrant` (refines `OneShot`)
One person and one third-party application. `consent`, `code`, `token` (a family is named by
the code and the request that started it; inside a family see `RefreshFamily`), `agent`,
`req`. A family stands for its newest token, the only one that can be live (`OneChain` of
`RefreshFamily`). So that it does not hide what happens inside, `newer[p]` holds the families that
got a token since request p read the tokens: a rotation claims its family only if it is not among
them (`StillNewest`, the conditional update of `claimRotation`), and the UPDATE of a replay or a
disconnect ends the families of its snapshot except those (`RevokedIn`): the token issued or rotated
under it is no row of the snapshot and stays live. Issuing: `Approve` / `Authorize`, `CheckConsent`, `InsertCode`, `ReadConsent`,
`UpsertConsent`. Exchange: `Exchange`, `ClaimCode`, `Verify`, `Replay`, `RevokeStart`,
`RevokeApply`, then the issuer: `FindAgent`, `CreateAgent`, `RefindAgent`, `Persist`.
Disconnect: `DisconnectStart` / `DisconnectCommit` (one transaction), `FindAgents`, `Retire`.
`FamilyEnds` is any end of a family by `RefreshFamily`. A code becomes exchangeable (`out`)
when the request that made it has answered. History: `asked`, `recorded` and `mixed` follow the
approvals; `allowed` holds the codes that have permission to pay and to have their family live. A code gets
it as it is inserted, if it was approved or its scopes stood since the last disconnect when its request
was let through (`through` are the requests a disconnect finds between the two), and a replay or a
disconnect takes it away again but for what it cannot read: a family in `newer`, a code still in someone's
hands. Mapping to `OneShot`: a code is open while it is
fresh and in time, or while a request with the right proof stands between claim and insert.

### `DeviceFlow` (refines `OneShot`)
One row per device code with status, user, expiry, poll clock and interval. `Issue`;
`Decide` (look-up and checks) then `ApproveRow` / `DenyRow` (update by id); `Poll` (the one
read and the clock), `MarkExpired`, `SlowDown`, `Touch`, `DeleteRow`, `IssueTokens`. An
update of a row that is gone is Prisma's P2025, the answer `error`.

### `PasswordLockout`
One account. `failed`, `lock`, and requests between the read, bcrypt and the write: `Login`,
`Compare`, `Record` (recordFailedLogin) or `Clear`; `Kill` and `Lock` are the administrator's
two statements. `early` remembers which sign-ins had read the row before the present lock was
put; `misses` counts the wrong guesses answered in the present tick since the count was last
cleared, and `lapsed` says whether one of them put a lock that was over by then: a lock is worked
out before its write and may be written in a later tick.

### `SingleUse` (its atomic kinds refine `OneShot`)
One value of one of six kinds, from before it exists to after it is too old. `uri`: `Push`,
`Consume` (GETDEL; passkey challenges, SIWE nonces and federation states go the same way);
`payload`: `Claim` (SET NX at its use); `assertion`: `Insert`, `Reap`; `proof`: `Look`, `Store`;
`call`: `Call`, `Run`, `RunFails`; `link`: `GenerateLink`, `FindLink`, `UseLink`, `CleanupLinks`.
`born` is the time the value carries, `mark` its key or row and until when it lasts. Times are in
ticks and only their order matters: a skew shorter than a TTL here is shorter there. History:
`uses`, `usedAt`, and `early`, the requests that looked before the last use was recorded.

### `OtpCode`
One subject. Sending is three commands after the cooldown's SET NX (`Admit`, `ReadCount`,
`WriteCount`, `Put`); verifying is a read (`Verify`) and, by what it makes of the record
(`Verdict`), a delete (`Lapse`, `Win`, `Burn`) or the record written back with one attempt more
(`WriteBack`). The histories follow one `Watched` code: answers given, times accepted, who had
read it before it was settled.

### `SsfDelivery`
Events fan out to streams (`Emit`, then `Create` one row after the other), are pushed
(`Fetch`, `RecordPush`), retried by drains that may overlap (`Drain`, `Retry`, `RecordRetry`,
after `BackoffOver`), and handed out and acknowledged by polling (`Poll`, `Ack`). `SetStatus` and
`Remove` are the streams' own. `PushLost` and the other faults (at most `MaxFaults`) are a process
that dies or a write that is only logged. `dropped` are rows such a fault, or a removed stream,
cut short before their first outcome; `crossed` are rows acknowledged while a push was under way.

### `AccountRecord`
One user's row. An operation is its read (`Begin`, with the checks of `May`) and its update; what
it carries between them is the link or code it was given, the secret it checked, and, if it writes
the JSON column, the column as read (`req[p].meta`). Everything that works once (codes, links, a
pending change, a list of roles) is numbered as it is made. An expired link, a wrong code or
password, an address that is taken: nothing changes, so the request does not begin, or ends in
`Crash`. History: `spent` by what each operation means to end; `early`, who carried it
then; `back`, what a write has brought back; `confirmed`, `behind` and `crossed` for the factor.

### `SettingsStore`
The table is the number of its last write, a process' snapshot that of the last write it saw. `Get`
answers from the snapshot and, if it is old (`Age`), begins a reload; `ReadTable` and `Apply` are its
two halves, `ReloadFails` its failure. `Reloaded` is the shared promise: one reload at a time, joined
by whoever comes. A write is `Set`, `Invalidate` and, when the reload it joined is over, `View`, what
the administrator is shown. `Restart` is a process coming up with an empty snapshot. History: `floor`,
the last write each process has answered; `overtaken`, the writers that joined a reload which had
read before they wrote.

### `OneShot`
A ticket is new, open, then spent or void; it pays out once. Codes, device codes and the atomic
kinds of `SingleUse` are tickets.

The `MC*` modules only declare symmetry sets and sequence-valued constants. Modules ending in
`_proofs` hold theorems. Operators marked *Mutant* just above a definition are deliberately
wrong variants of it: substituted for the definition, each makes the named property fail,
which is how we know that the property looks at the code.

## 4. Runs

| Run | Question | Instance, and why it is enough |
|---|---|---|
| `refresh_race` | Do two concurrent requests of any kind (rotate, replay, sign out, revoke) keep the chain linear, the grace honest and the ledger true? | three rows = parent, child, grandchild, which is as far as the code looks (`keptPairsAround`, the grandchild count); two requests, two ticks, window 1: inside and at the edge |
| `refresh_window` | Over time: do kept pairs go, whatever became of the requests that should have erased them? | one request at a time, two rows, five ticks: window 2, life 3, so window and life both end within the run; fair |
| `refresh_verdict` | Does a theft verdict end the whole family? **No** | as `refresh_race` |
| `code_exchange` | Does a code pay out once, with right and wrong proofs, replays, disconnects, expiry, cleanup, crashes? What lives past a replay or a disconnect? | one code, two requests, three agents: enough for create, conflict, retire, create again, and for an exchange or a rotation to commit under the other's UPDATE: the child then outlives it in the run |
| `code_consent` | Is consent what was approved, and can no code be exchanged that was not? | two codes, two scopes, so that merges matter; exchanging is possible and the agents are not (no ids), which leaves consent and codes whole |
| `device_race` | Does a device code pay out once, to an approver, never after a clean denial? | one code, two people, three concurrent requests (approve, deny, poll or poll twice), three ticks with a life of one |
| `password_lockout` | How many guesses do races buy, does a lock stand, does the count slip? | three requests, threshold 2 (the code: 5), two tiers (the code: 5), three ticks; the bound on guesses is reached exactly |
| `single_use` | Is each value accepted once, and if not, why? | one value of each kind, three requests (two that overlap and one after), seven ticks; every TTL and skew in the order the code has them, so that a value can outlive its mark where it can in the code |
| `otp_codes` | How many answers does a code give, does a settled code stay shut, how many sends in a rolling hour? | two requests, the codes and ticks that let an hour end and another begin; two attempts (the code: 5). Both bounds are reached exactly |
| `ssf_delivery` | Are attempts bounded, does an acknowledgement stand, is every event settled? | one event, a pushed and a polled stream, two drains, two faults, three attempts (the code: 5); fair |
| `account_record` | Does what was spent work again, is an enabled factor a confirmed one? | two requests of any kind, two backup codes a set (so that the uses of two codes meet), four things made in all: a full cycle of the factor, or an old account with none to two codes left |
| `settings_snapshots` | Does a writer, and everyone after it, see the write? Does every process catch up? | two processes, two administrators, two writes, one fault: a write can meet a reload of either kind, begun before it or by the other writer; fair |

Bounds: `MaxTime` caps the clock, `MaxSignIns` the tokens issued without rotation, the sets
of ids cap rows (a rotation begins only while an id is spare, so that ids never run out in
mid-request), `MaxMinted` and `MaxCodes` what is ever made (an operation that finds none left
stays where it is, or crashes), `MaxUses` the uses of a value, `MaxFaults` and `MaxFailures` the faults, `MaxFailed` the count from which nobody tries any more, `MaxInterval` the
interval at which a device gives up. Deadlock checking is off throughout because a bounded
run ends: clock spent, ids spent. `Guesses(k, t)` is, for k concurrent requests and threshold
t, C(k+t, t) - 1: with one request t guesses, with three and threshold two nine. A lock that was
over before it was written (`lapsed`) leaves the account open at the threshold itself, so the
bound is then that of a threshold one higher. `Answers(k, n)` of `OtpCode` is the same number for k
requests and n attempts.

### What the violation shows
* **`VerdictEndsTheFamily`** (`oauth/refresh-grant.ts:73-76` says "revoke the entire
  refresh-token family"). The verdict's UPDATE and a rotation of the family's live token
  overlap: the rotation commits, the UPDATE skips the now revoked parent and has never seen
  the child. The child lives on after the verdict.

Visible in the models but promised by nobody, hence without a property: a replay that comes
between the first exchange's claim and its insert revokes nothing, and the exchange then
starts its family (`LiveIsAllowed` excepts the code in hand); a silent request let through before a
disconnect gets its code after it (`through`); `ConsentService.record`
can lose a concurrent approval or restore scopes a disconnect removed
(`ConsentIsWhatWasApproved` holds only off `mixed`); an approval under way overwrites a
denial, and a denial an approval (`PaidAsDecided` and `DecisionsStand` exclude just that);
`slow_down` increments are lost; a poll of a row another poll deleted answers an unmapped
error; at the last instant of the window a replay passes `withinGrace` and fails `openReplay`
(`Younger` is strict for that reason).

Where a comment says more than the code does, and the property says how much holds:
* a disconnected application "has to ask again rather than carry on quietly"
  (`oauth/consent.service.ts:97-98`), but a rotation that commits its child while the disconnect's
  UPDATE runs keeps a live token, as in `refresh_verdict`, and a code handed out before stays
  exchangeable for its ten minutes and starts a live family after it. The same two outlive the replay of
  a code, which is to end "the refresh-token family" (`oauth/oauth.service.ts:270-271`).
  `RevokesEndWhatTheySaw` says that nothing else is live when either answers, `LiveIsAllowed` that
  nothing else is live ever after, but for the silent request and the overlapping approvals just named;
* settings are reloaded after a write "for immediate consistency" (`app-settings.store.ts:10-11`), but
  a writer that joins a reload which had read before it is shown the old value, which then counts as
  fresh for another thirty seconds (`overtaken`; `EveryoneCatchesUp` is what is left);
* a denial does nothing unless the row is pending, and is answered "denied" all the same: an
  approved code stays approved (`oauth/oauth-request.controller.ts:174-175`; `DecisionsStand`);
* a sign-in that read the row before the kill switch writes back a null lock
  (`admin/admin.service.ts:161`; the exception of `LockStands`);
* a proof's `jti` is kept 90 s, "longer than the iat window" (`oauth/dpop.service.ts:28-30`), but a
  proof dated 60 s ahead stays fresh for 120 s (`Excused`);
* an assertion is accepted for 60 s after its `exp`, its row may be reaped right after it
  (`client-assertion-jti-reaper.service.ts:6`; `Excused`);
* an idempotent call that fails stores no reply, and a retry that comes while the first call runs
  runs again (`SecondUseIsExcused`);
* the OTP's "rolling hour" (`otp.service.ts:24`) is counted from its first send: a rolling hour can
  see twice the cap less one (`RollingCap`); a code is "single-use" (`:34`) but for
  verifications that overlap (`SettledCodeStaysShut`);
* a delivery left `pending` by a dead process is never drained, and a stream removed during an
  emission ends it for the streams after it (`EventsAreSettled`, `dropped`);
* a backup code used, a set regenerated, a change cancelled or a role withdrawn comes back with a
  write that read the JSON column before (`SpentStaysSpent`, `back`); a factor can be left enabled
  with a secret nobody confirmed, or none, and then neither verifies, nor is disabled or set up
  anew (`FactorIsConfirmed`, `crossed`).

## 5. Fairness

`refresh_window`, `ssf_delivery` and `settings_snapshots` have liveness. `RefreshFamily`'s `FairSpec` has weak fairness of `Step(p)` (Node goes on
with what it began; a crash may still end it), of `CleanupRows` and `CleanupPairs` (the cron
of `oauth.service.ts` fires every hour; its two statements are a loop that does not depend on
any request), and of `Tick` (time passes). New requests, sign-ins and crashes are not fair.
`KeptPairsGo` says that a kept pair is erased once its window is over even if nobody presents the
token again.

`SsfDelivery`'s `FairSpec` has weak fairness of the emitter and of a push that began (Node goes on;
a request to a receiver is ended after three seconds), of the drain (a cron every five minutes),
of its going through its page, and of a backoff's end. Receivers are not fair: they may refuse for
ever, which is why a row is settled when its attempts are used up. Faults are finitely many
(`MaxFaults`), as a drain that dies every time would settle nothing.

`SettingsStore`'s `FairSettings` has weak fairness of `Get` (guards and token issuance ask on every
request: a process that is never asked never catches up, and nobody minds), of the two halves of a
reload (the database answers) and of `Age` (time passes). Writers and faults are not fair.

## 6. Proofs

Assumptions: only the named `ConstAssumption` of each module (the proofs about `SettingsStore` use
none, not even its `SettingsAssumption`): numbers are naturals, null values
lie outside their sets, and what the code keeps positive is positive (threshold, tiers, attempts,
caps, TTLs of records, the poll interval). Beyond that, requests are finitely many where they are
counted (`OtpCode`, `PasswordLockout`), drains finitely many and at least one (`SsfDelivery`), and
`SingleUse` keeps the code's order of the two numbers a proof turns on (a payload's future skew, 60
s, below the margin, 120 s). Rows, codes, people, scopes, agents, streams, requests, windows and lifetimes
are otherwise arbitrary; so are the bounds (`MaxTime`, `MaxUses`, ...).

Each module has one inductive invariant (`Inv`; in the two oldest a few), a conjunction of named parts. The
lemmas come in the same order everywhere: what a helper does to the request that takes it, what
a step does to each table, one lemma per action and part, then the theorems.

`RefreshFamily_proofs`
* `TypeCorrect`. `LocalOK` (request variables, and that a request at a label that works on a
  token holds one) and `SharedOK` (the table) are proved together, because rows read become
  rows held and the reverse; one lemma for each way a request moves (`FinishTyped`,
  `BeginTyped`, `GotoTyped`, ...), then the actions.
* `RotationIsLinear`, `KeptPairsAreCurrent`. `OneChain` and `KeptPairIsCurrent` are not
  inductive on their own: nothing in them speaks of ids not yet in use. `ChainInv` adds
  `FreshRows` (an unused id has no parent), so that a new row never joins an old link. Every action is one of three to the
  table (`StepOnRows`): a *fading* (rows only get deader, kept pairs only go), a sign-in, a
  rotation; each keeps `ChainInv`.
* `ImplementsLedger`: the same three, each a ledger step or a stutter.
* `SessionsNeverMultiply`: from the ledger step, live tokens grow only by a sign-in.
* `PairsAreTheRotations`, `GraceRevivesNothing`. `RequestInv` relates what a request read to
  the table now (`ReadsSurvive`: rows only age, so a child found stays a child of the token,
  and a kept pair read is the row's own child). With it a pair answered is the token's rotation,
  and since the conditional update found it live it was not dead when the request began.
* `EndedFamiliesStayEnded`, `RevokesEndTheirTargets`: what holds in place of `VerdictEndsTheFamily`.
  A family UPDATE that is through has ended all it saw live (`TargetsInv`), and a set of dead tokens
  closed under descent gets no live token again (`Ended`: from `StepOnRows`, since a new row descends
  from a live one or from none). With `OneChain` the second is why `CodeGrant` can take a family for its
  newest token; what the first spares, a child newer than the UPDATE, `CodeGrant` keeps in `newer`.
* `KeptPairsHaveAnEnd` (`PairInv`): a kept pair always carries a date, no later than the window after
  its token's revocation, which is what the cleanup looks for. `SweepsAreThorough`: so a cleanup that is
  through has left no pair whose date had passed when it began. With a cron that runs, that is
  `KeptPairsGo`.
* `RequestsOnlyAdvance`: each step of a request answers it or takes it to a later label (`Rank`), so ten
  steps are enough to answer it.
* `HonestCallersSpared`. `HonestInv` says what holds while nothing but rotations has ended a token
  (`cut` is false): every spent token has a child that expires no earlier, and its pair is kept for the
  window as long as that child is live (`HonestRows`); and what a request on the grace's road has
  read is still so, or the window is over by the time it is judged by (`HonestReads`). A step is then a
  rotation, a sign-in or a lapse of pairs whose window has ended (`HonestKinds`). Each way into the
  verdict inside the window contradicts a part of it: a spent token has a child; a live child's pair is kept
  and opens; and a child passed over either is spent, so that it has a child too, or has expired,
  which it does no earlier than the token presented.

`CodeGrant_proofs`
* `TypeCorrect`. `ShapeInv` says which labels each kind of request can be at, and which family it carries.
* `NoScopeUnasked` (`AskInv`): scopes of codes, of consent and of every request under way were asked for.
* `ConsentIsTheApprovals` (`ConsentInv`): off `mixed`, who is about to write the consent has read
  it as it stands.
* `AgentsAreCurrent` (`AgentInv`): one agent is live, retired ones stay so, and no request names
  one that was retired when it began.
* `RevokesEnd` (`RevokeInv`): from its snapshot on, whatever is live is among what a revoke will take or
  in `newer`, and after its UPDATE in `newer`. `NewerMoves` says that a family started or rotated by
  another joins `newer`, and `NoRevival` that nothing else comes to life.
* `LiveStaysAllowed`, `CodesStayAllowed` (`AllowedInv`): a request about to insert a code may, a code in
  someone's hands has permission, and so has a live family. A revoke takes permission from no live family
  because of `RevokeInv`; a family starts only from a code in hand (`LiveFrom`).
* `CodesImplementOneShot` (`OnceInv`): a code with a family is used, one request at most stands between
  its claim and its insert, and not after a family exists. Then an insert is a pay-out, an
  answered approval an opening, and the rest voids or stutters.
* `CodesPayOnce`, in terms of the table: one family per code at most. It follows from the refinement
  alone, as do `DeviceCodesPayOnce` and `AtomicValuesAreUsedOnce` below: a ticket has paid once if it is
  spent and else not.

`DeviceFlow_proofs`
* `TypeCorrect`, `PaymentsFollowDecisions`, `DecisionsAreKept`. `RequestInv` and `RowInv`: an
  approved row names someone who approved it, and so does an approval that a poll has read;
  `PayInv`: a code denied for good has no approver in the table or on the way.
* `DeviceCodesImplementOneShot` (`OnceInv`): the delete is the claim. A row that is there has
  paid nothing, and of the polls that read one approval one gets past the delete. `DeviceCodesPayOnce`.

`PasswordLockout_proofs`
* `TypeCorrect`.
* `LocksStand`: `EarlyInv` says that a sign-in under way either is in
  `early`, or read the row when the lock was already past: `Login` refuses a locked account.
* `CountsNeverSlip`: `MissInv` says that a miss about to be recorded is a wrong password, so what
  it writes is one more than what it read.
* `GuessesBounded` (`GInv`). The argument is a potential. Each request under way is at a level, the count
  it read; all others are at the row's (`Floor`), and a level is never above that. With m[l]
  requests at level l or above, `Room` asks for numbers R[l], falling in l, that leave for each
  level the C(m + T - l, T - l) its requests can still use (`Guesses`, T the threshold, and one more
  once a late lock is about or `lapsed`). A step that records no miss
  only raises levels, which never needs more room (`RoomRises`); a miss raises its own level by
  one at least and touches none below, which frees one guess (`RoomUsed`). Both rest on
  `GuessesGrow`, `GuessesRise` and `Pivot`, facts about that binomial, which is why it is
  defined by counting subsets and not by recursion. Room for none or more guesses is left at every state: that is
  the bound.

`OtpCode_proofs`
* `TypeCorrect`, and `InvHolds` for the whole invariant.
* `TriesBounded` (`TriesInv`): the potential of `GuessesBounded`, with attempts for failed sign-ins
  and the record for the row; levels count who holds the watched code's record.
* `RollingCapHolds` (`CapInv`). While sends do not overlap, `HourInv` and `BumpsInv` tie the
  counter to the hour it counts, and `LoadInv` bounds the sends (made, or admitted and still to be made) in
  that hour by the count, at the end of the hour before by the cap less one, hence in every
  rolling hour by twice the cap less one.
* `SettledStaysShut` (`ShutInv`): once a code is settled its record is gone, and who still holds it
  had read it before, unless one of those has written it back (`revived`).

`SingleUse_proofs`
* `TypeCorrect`.
* `SecondUses`. `ValueInv` says for each kind what a key or row that is there, or is not, tells of the
  uses so far; `Knows` what a look knew, if it came after the last use was recorded.
* `AtomicValuesImplementOneShot`: for the kinds taken with one atomic command (`uri`, `payload`),
  an acceptance is a pay-out of an open ticket, and time or the command voids it. `AtomicValuesAreUsedOnce`.

`Background_proofs`, for `SsfDelivery` and `SettingsStore`, which share the file and no state
* `TypeCorrect`.
* `AttemptsBounded` (`SetInv`): attempts made, plus the drains that hold the row, stay below
  `MaxAttempts` plus the number of drains; a drain takes a row only while attempts are left.
* `AcknowledgementsStand`: an acknowledged row is in no hand but one it was in when it was
  acknowledged (`crossed`).
* `EventsAreAccountedFor` (`AccountInv`): at every moment an event meant for a stream is settled, was cut
  short (`dropped`), or somebody is still at it: the emission, its push, or the drain, for which a failed
  row with attempts left is there to be read. No row waits with nobody to take it up; that they do take
  it up is `EventsAreSettled`.
* `WritersSeeTheirWrites` (`SettingsInv`). `NodeInv`: a process' snapshot, and whatever a reload
  under way has read, is no older than what the process has answered (`floor`). `WriterInv`: a writer that
  waits for a reload, and did not join one that had read before it wrote (`overtaken`), has its write in
  what that reload has read and, once it is shown the settings, in the snapshot. `SettingsInvHolds` adds
  that no write answered for, by a process or a writer, is newer than the table.
* `WaitersAreServed`: a process has one reload under way at most, and nobody waits for a reload that is not
  running: who finds none under way starts one. That it ends is the fairness of `EveryoneCatchesUp`.

`AccountRecord_proofs`
* `TypeCorrect`.
* `SpentStays` (`SpentInv`, `ReadInv`): a spent thing in the row was brought back, and who carries
  one had read it before it was spent, or found it back. `KindInv` is what makes it
  inductive: things of two kinds never have one number, so that a write of codes cannot bring a
  pending change back.
* `FactorConfirmed` (`FactorInv`): a request that is not `behind` has read the factor as it is.

Model-checked only: liveness (`KeptPairsGo`, `EventsAreSettled`, `EveryoneCatchesUp`), for which the prover has no rule for fairness. What of it is safety is proved:
`KeptPairsHaveAnEnd` with `SweepsAreThorough`, `EventsAreAccountedFor`, `WaitersAreServed`. `VerdictEndsTheFamily` is refuted.

## 7. What is left out of the modelled parts

Token contents, signatures, PKCE and audiences (outcomes, not strings); e-mails, metrics,
audit records and SSF signals of these operations (after the fact, nothing reads them back);
the refresh token's scope narrowing, DPoP and sender binding (refusals before the claim: the
one action `PresentRefused`); first-party clients in `CodeGrant` (never asked, no agent), the
customer lane, step-up and the wallet grant on the agent; in `DeviceFlow` the RFC 8707
resource and the choice of user code; in `AuthService` registration; in `SingleUse`
the digest that tells the bodies of one idempotency key apart, and what is signed; in `OtpCode` the
user a code resolves to; in `SsfDelivery` which streams want an event, pages of 100, and building a
SET; in `AccountRecord` the profile's plain columns, what an administrator writes beside roles (other
keys of the column write back what they read just as roles do), and `updateMetadata`, which nothing
calls; in `SettingsStore` keys and values, and how a value falls back to the environment. Ids of codes and agents are bounds, not resources of the code. A request of
`PasswordLockout` that crashes after bcrypt and before its write has answered nobody, so its
guess is not counted. Expiry in `CodeGrant` is a flag set at any moment instead of a clock: every
order of expiry and other steps is explored. In `RefreshFamily` a request that presents a token
may be refused for reasons the model abstracts (`PresentRefused` is always possible).
Components without a module, and why, are in section 1.

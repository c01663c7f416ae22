# AttesTAM: TLA+ models and proofs

AttesTAM is a Trusted Application Manager (TAM) for the TEEP protocol, written in Go.
TEEP Agents talk to it over HTTP; it attests them with a Verifier, sends them SUIT manifests
of trusted components in Update messages and keeps, in SQLite, what each agent reports to have
installed. This directory holds TLA+ modules that model its core, TLC configurations that check
them on small instances, and TLAPS proofs that hold for every value of the constants.

## The system

| Component | State | Operations | Interacts with |
|---|---|---|---|
| TEEP message handler (`internal/tam/tam.go`, `server/handler.go`) | locals of each request | `ResolveTEEPMessage`: start of a session, QueryResponse by token, QueryResponse with evidence, Success, Error | every repository, the Verifier |
| Tokens and challenges (`sqlite/token_repo.go`, `challenge_repo.go`, `sent_*_message_repo.go`) | tables `tokens`, `challenges`, `sent_query_request_messages`, `sent_update_messages`, `sent_manifests_in_update_messages` | generate, consume, record and find what was sent | handler |
| Agent key ring (`tam/keyring.go`, `sqlite/agent_repo.go`) | table `agents` with `revoked_at`, `expired_at` | find, find ignoring revocation, create, revoke | handler |
| Agent status (`sqlite/agent_status_repo.go`, `tam/agent_status.go`) | tables `agent_holding_suit_manifests`, `suit_reports` | reflect a success, record a failure, query | handler, status services, admin console |
| Manifest registration (`tam/manifest_repository_flow.go`, `server/handler.go`) | tables `suit_manifests`, `manifest_signing_keys` | verify an envelope, check it against the latest manifest, insert | handler (reads the latest manifest) |
| Verifiers (`infra/rats`, `submitAttestationPayload`) | the resolver's map of Verifiers, under a mutex; a directory of collateral files (Intel QVL) | choose a Verifier by format; session and submission (remote); get, fetch and put collateral, verify a quote (Intel QVL) | handler, remote Verifier, Intel PCS, native library |
| Demo seeding (`internal/demo`, `SeedDemoData`) | rows of most tables, at every start-up in demo mode | find or create entities, keys, agents, a manifest, a holding | database, agent status |
| Admin console (`cmd/admin-console`) | a cache of statuses, shared by its requests | list agents, show status, upload manifests | status and manifest services |

Every HTTP request runs in a goroutine of its own. In the TAM only the resolver locks anything:
requests interleave at each SQL statement, at each exchange with a Verifier and at each file operation.
Only `ReflectManifestSuccess` uses a transaction. The console locks its cache, but lets it go between
storing and rendering. The database and the collateral directory survive a crash; requests in flight,
the resolver's map and the console's cache do not. What is hard is therefore

* copies of one message handled at the same time, late messages and reordered ones;
* rows written by several statements, with a crash or an error between two of them;
* a check in one statement and the insertion it justifies in another;
* keys revoked or expired while requests for them are running, or attested again afterwards;
* caches that several requests fill, use and empty at the same time, each with its own, maybe older, answer;
* start-ups that die half way and are repeated on whatever they left;
* clocks: `created_at` in whole seconds, collateral that goes out of date between two steps.

`PROJECT.json` lists these hazards one by one with the line where they bite.

## Modules

| Module | Models | Kind |
|---|---|---|
| `NonceLedger` | what the TAM promises about tokens and challenges | abstract specification |
| `TEEPSession` | `ResolveTEEPMessage` and the tables behind it | component; implements `NonceLedger` |
| `TEEPSessionProofs` | types, nonces, revocation | proofs |
| `TEEPRecordsProofs` | what is recorded, enrolment, holdings | proofs, on those of `TEEPSessionProofs` |
| `MCTEEPSession` | messages and symmetries of the small instances | TLC |
| `AgentStatus`, `MCAgentStatus` | the rows of holdings and reports, the query of `GetAgentStatus` | component, TLC |
| `AgentStatusProofs` | | proofs |
| `AdminConsole`, `MCAdminConsole` | the console's page of managed devices over the services of the TAM | composes `AgentStatus`, TLC |
| `AdminConsoleProofs` | | proofs, on those of `AgentStatusProofs` |
| `DemoSeeding`, `MCDemoSeeding` | start-up in demo mode | composes `AgentStatus`, TLC |
| `DemoSeedingProofs` | | proofs, on those of `AgentStatusProofs` |
| `ManifestRepository`, `MCManifestRepository` | `addTCManifest`, `SetEnvelope` | component, TLC |
| `ManifestRepositoryProofs` | | proofs |
| `Appraisal` | what the handler relies on when it submits evidence | abstract specification |
| `CollateralCache` | `IntelQVLVerifier.Process` and the cache on disk | component |
| `CollateralCacheProofs` | | proofs |
| `Attestation`, `MCAttestation` | `submitAttestationPayload`, the resolver, the remote Verifier's client | composes `CollateralCache`, implements `Appraisal`, TLC |
| `AttestationProofs` | | proofs, on those of `CollateralCacheProofs` |

In every component module the definitions marked *Fault* are what a plausible mistake would make of
the definition after them. No action uses them; with one of them in place of the right definition
TLC must find the property named in `PROJECT.json` violated.

### TEEPSession

A request is a process whose program counter names the next call that leaves the goroutine.

| Label / action | Code |
|---|---|
| `StartSession` | empty body: `generateQueryRequest` |
| `Receive`, `Authenticate` | decoding, `tryAuthenticateTeepMessage` |
| `ConsumeToken`, `FindSent` | `searchSentMessageWithToken` (`MarkConsumed`, then the two lookups) |
| `SubmitAttestationPayload` | `verifyAttestationPayload` up to the Verifier's answer and the claims |
| `ConsumeChallenge`, `FindChallenge` | `searchSentMessageWithChallenge` |
| `FindKey`, `CreateKey` | `setTEEPAgentKey` |
| `NewToken`, `NewChallenge`, `SaveQuery` | `generateToken`, `generateQueryRequest[WithAttestation]`, `saveSentQueryRequest` |
| `Lookup`, `FindAgent`, `InsertUpdate`, `LinkManifest` | `processQueryResponse`, `saveSentUpdate`, `CreateWithToken` |
| `HandleReport` | one turn of the loop over SUIT reports |
| `Reply` | the HTTP response |
| `Revoke`, `Expire`, `Publish`, `Crash` | the rest of the program, time, loss of the process |

A step is one SQL statement, with two exceptions. The SELECT that looks whether a random value is new and the INSERT of it are one step
(`NewToken`, `NewChallenge`), because the UNIQUE column decides whatever the SELECT saw. The lookups of a nonce and the statement after
them are one step (`SaveQuery`, `InsertUpdate`, `FindSent`): what could happen in between concerns only a nonce that
has not been sent yet.

Each step that reaches the database or the Verifier may also fail, which ends the request as the
code's early returns do. The environment is arbitrary: any message of the constant `Messages`
arrives at any time, any number of times, whether its token was ever issued or not. A message is
its fields as the handler reads them, together with the key that really signed it; a COSE key and its
thumbprint are one value. A manifest is a component and a sequence number, and `published` holds the
latest number of each component. The history variables `out`, `answers`, `enrolment` and the field
`barred` are read by no guard.

### AgentStatus

Starts where `HandleReport` ends: each report is one transaction on a database that works, so that
what is missing was left out by the code. The clock counts seconds and may stand still between two rows.
The query is modelled as the set of rows that `ROW_NUMBER() = 1` may pick, because rows of the same
second tie.

### AdminConsole

A page request is a process: `OpenPage`, `ListAgents`, `GetAgentStatus` (the TAM looks up one agent after the
other), `Store` (under the lock: store what was fetched, delete who is not in the list) and `Render`, which reads the cache
again. `CallFails` is any failure of the two calls and ends the request with the cache as it was; `Restart` empties
it. The list is any subset of the agents (`GetAll`): `AgentRepository.GetAll` does not look at `rows.Err()`, so a read that
fails half way is answered as a list that is complete, and the console deletes everybody else from the cache; an empty
list empties it. `whole` and `intact` are history: whether the list of a page, and the list the cache was last filled from, were
cut off. In the TAM agents enrol and report meanwhile. `arrived` and `oldest` are history: what had happened when the page was
requested, and when the oldest request then in flight was. A page is only as recent as that: a slow request may
put its older answer into the cache after a faster one, and both render from it.
`doc/ADMIN_CONSOLE_INTERNAL_DESIGN.md` speaks of a delta fetch; the code, and its test, fetch every agent each
time (`KidsToFetch`). Since `UpdatedAt` is the time of enrolment and never changes, a delta by `UpdatedAt` would show
stale pages: that is the fault `KidsToFetchDelta`.

### DemoSeeding

`Steps` is the chain of `SeedDemoData`, with the entities seeded twice as in the code. No request is served before the chain is
over, so a find and its create are one step (`Ensure`, `SeedHelloTextManifest`, `EnsureTrustedDemoAgentKey`, `SeedAgent`,
`StatusFound` or `SeedStatus`). `StatementFails` and `Crash` end the process between any two of them; `StartUp` begins again, with or
without demo mode, on what is there. While the server runs manifests are uploaded, the trusted agent reports, and keys are
revoked or expire. An upload is checked against the latest manifest (`CheckUpload`) and inserted in another step (`InsertUpload`, `UploadFails`);
`checked` holds the numbers of the uploads in between, and any number of uploads with one number may get through, so that
two rows may be the latest, as `register_race` shows. Uploads are of manifests other than the demo's own. `Refuse` is the seeding's own refusal, as opposed to a failing statement.

### ManifestRepository

An upload is a process with four steps (`VerifyEnvelope`, `FindSigningKey`, `GetManifest`, `Create`).
`GetManifest` chooses the latest row (any of them, if two tie) and makes the check; `Create` inserts
without looking again. `before` is history: how many rows there were when the upload arrived. `SeqLimit`
stands for `math.MaxInt64`. In `TEEPSession` the whole component is the action `Publish`.

### CollateralCache

A call of `Process` gets collateral from the cache or fetches and stores it, then calls the native
library. Collateral is what decides its use: platform family, PCK issuer and the `nextUpdate` of each
document (`None` where it has none). `Stated` is what the documents say, `Found` what `intelQVLQuoteCollateralNextUpdate` reads from them:
its JSON parser looks at the top level only, and PCS puts the `nextUpdate` of TCB info and QE identity inside an inner
object. The constant `Nested` holds the documents that do so. A cache file is an entry with its expiry; `complete` is false for a
file that cannot be decoded. `Put` is three steps: temporary file, content, rename. `Tick` happens between
any two steps. That the native library reports collateral as expired once a `nextUpdate` lies in the past is
an assumption on the library (`Outdated`). `appraised` is history: the latest quote appraised, and the platform its collateral was for; whether the result is affirming
goes to the caller (`QVLAppraises` of `Attestation`). `Crash` is the loss of the process, not of the machine. `CollateralCacheProofs` is about this module on its
own and `AttestationProofs!CallsUseCache` carries it over to `Attestation`, as part of which TLC checks it.

### Attestation

A call of `submitAttestationPayload` is a process. `SelectVerifier` is one step, because the resolver holds its mutex while it looks
for a Verifier and creates one; the Verifier is kept, and a creation that fails keeps nothing (`SelectFails`). A value of the interface
`IRAVerifier` may hold a nil pointer (`typedNil`), which is what the resolver keeps for the remote Verifier without a URL. The
remote Verifier is called twice (`CreateSession`, `SubmitPayload`); either exchange fails or runs into the timeout (`ExchangeFails`).
Its answer may be incomplete and carry a status all the same; `Decoded` is what the client makes of it. An SGX quote goes through
the steps of `CollateralCache` (`QVLWorks`, `QVLAppraises`). `Restart` forgets the calls and the map and may change the flags.
`MaySay` is an assumption on the remote Verifier: it affirms no bad evidence in a completed appraisal. An empty payload is refused
before anything else by either `Process` and is no input. In `TEEPSession` all of this is the one step
`SubmitAttestationPayload`; `Appraisal` states what that step takes for granted.

## Runs

| Run | Instance | Shows |
|---|---|---|
| `tokens` | 2 requests, 1 agent, 2 tokens, 2 components with 2 manifests, reports, crashes | `TypeOK`; `OneTimeNonces` (refinement of `NonceLedger`); `NonceNamesOneMessage`, `RepliesAreRecorded`, `HoldingsConsistent` |
| `challenge` | 2 requests, 2 unknown keys, 2 challenges | `EnrolledByFreshAttestation`, `RevocationIsFinal` |
| `progress` | 1 request at a time; a known agent that may be revoked or expire and attest again, an unknown one that enrols; fairness | `NoUpdateForBarredAgent`, `RequestsEnd` |
| `console` | 2 pages, 2 agents, reports within and across seconds, lists cut off anywhere | `StatusShowsLastReport`, `NewestReporterIsShown`, `PageIsRecent`, `PageHasKnownAgents` |
| `register` | 2 uploads, trusted and untrusted keys, numbers up to the limit | `TypeOK`, `NoDowngradeAfterRegistration`, `OwnerContinues` |
| `attestation` | 2 calls, EAT evidence and quotes of 2 PCK issuers, 2 documents per collateral, 3 points in time, restarts with other flags | `EvidenceReachesItsVerifier`, `AppraisalIsSound` (refinement of `Appraisal`), `CollateralMatchesQuote`, `CacheIsReadable`, `CacheServesCurrentCollateral` |
| `demo` | any number of start-ups on one database, overlapping uploads, 4 manifests, 3 holdings | `RunningHasDemoData`, `RefusedForAReason`, `DemoManifestYields`, `LatestNeverGoesBack` |

Five runs show that the code does not do what the repository says of it:

* `wrong_answer`: a QueryResponse with the token of an Update is accepted, while
  `doc/TEEP_MESSAGE_HANDLE.md` asks for the token of a QueryRequest.
* `status_missing`: the window of `GetAgentStatus` is partitioned by component and not by agent. When a
  second agent reports a component, it disappears from the status of the first. What remains true
  is checked by `console`: whatever is shown is right, and the newest reporter is shown.
* `failure_lost`: the Error branch copies the condition of the Success branch and records only reports
  whose result is ok, as failures; reported failures leave no record.
* `register_race`: two overlapping uploads both pass the check against the latest manifest, so that an older
  manifest, or one under another key, is stored after a newer one. What remains true is checked by `register`
  and proved: nobody goes back behind a registration that was over when his upload arrived.
* `collateral_stale`: `intelQVLParseJSONNextUpdate` misses the `nextUpdate` inside `tcbInfo` and `enclaveIdentity`, which is where PCS
  states it (`infra/rats/testdata/intel-pcs`), so an entry outlives it, while `doc/SGX_QUOTE_VERIFICATION.md` has the nearest
  `nextUpdate` of the collateral end its life. `Get` goes on serving it, so that a new document is not fetched until then. What remains true is checked by `attestation` and proved: nothing is served past a `nextUpdate` that was found.

Three more came up while modelling and have no run of their own; the models do what the code does:

* Without a URL of a Verifier the resolver returns a nil `*VerifierClient` as a non-nil interface (`rats/backend.go:30`), the check for nil
  does not hold and `Process` panics; `doc/TEEP_MESSAGE_HANDLE.md:71` promises 503 (`CallProcess` of `Attestation`). `AppraisalIsSound` shows that such a call never ends
  in an affirming answer.
* A read of the agents that fails half way is answered with 200 and a short list, and `doc/TEEP_AGENT_STATUS.md:95` promises the TAM Admin the full one
  (`GetAll` of `AdminConsole`). `PageHasKnownAgents` shows that lists that are not cut off lose nobody, whatever overlaps.
* Two uploads of one number that overlap are both the latest manifest of hello.txt (`InsertUpload` of `DemoSeeding`), the race of `register_race`.

### Bounds and why they are enough

Two requests (uploads, pages, calls) are enough for every race of this code: the state they share is a set of rows, files or cache
entries each of which is decided by one step, and no step waits for another process. `progress` follows one request at a time, with
crashes, because its question is about what one request leaves behind for the next (`NoUpdateForBarredAgent` is proved for
any number). As many tokens as requests in flight let one be outstanding while another is generated; two challenges for two keys
make the keys compete for one and let two enrolments of one key meet. Two components are needed where an Update carries several
manifests, one is enough where agents are told apart (`console`). `MaxSeq`, `SeqLimit`, `MaxRows`, `MaxManifests`, `MaxTime` bound counters that
would otherwise grow for ever; the limit of the sequence number is small so that it is reached. `demo` has the numbers 0, 1 and 2 and room
for four manifests, so that 0 is inserted again after 1 and after 2. In `attestation` `TTL` is 2 and each of two `nextUpdate`s is 1 or 3: an
entry stored at 0 is served, and its life is ended at 1 by the nearer of the two or at 2 by the lifetime; one stored at 1 with a `nextUpdate` of 1 is never
served. Later times and more documents are covered by the proofs (`CacheInv`, `ExpiryBounds`). `collateral_stale` has one call and a document with a nested `nextUpdate`. Symmetry is used for safety only, over requests, tokens, challenges, agents, components,
pages, calls, keys, documents or PCK issuers that the instance does not tell apart; `progress` and `demo` use none.

### Fairness

`FairSpec` asks weak fairness of each goroutine that serves a request (`Serve(r)`), and of nothing else:
the Go scheduler is fair, an SQL statement returns with a result or an error, and the HTTP client of the
Verifier has a timeout (60 s by default). No fairness is assumed of agents, administrators or the clock.

## Proofs

All proofs are checked by TLAPS (SMT, Zenon, LS4), for any sets of requests, agents, nonces, components, messages, uploads, keys,
calls, pages and documents, and for any bounds. Every invariant, action property and refinement that a passing run checks is
also a theorem; each inductive invariant below, or its parts, are definitions of the component module, so that TLC can be asked for it as well.

The assumptions are the named `ASSUME`s of the component modules. `None`, which stands for NULL or nil, is no value of the
kind it is used with (no message, manifest, payload, Verifier, sequence number or status: `NoneAssumption`, `AbsentAssumption`,
`DemoAssumption`, `StatusAssumption`); the nested documents are documents (`NestedAssumption`); tokens and challenges differ; bounds, times and sequence numbers are natural numbers, and a
limit of sequence numbers is not 0; seeded and genuine agents are agents, trusted keys are keys, messages are records with the
fields of `Message`; the set of agents of the console is finite (`AgentsAssumption`, as the table is). `DemoSeeding` has the one component and the two agents
that the seeding itself names, and any number of manifests and start-ups.

### TEEPSession

* `TEEPSessionProofs!TypeCorrect` proves `TypeOK` together with `LocalInv`: the type of a step's result depends on
  what the program counter says of the locals (a request that composes an Update has a fresh token and an
  authenticated agent).
* `TEEPSessionProofs!NoncesUsedOnce` proves that `TEEPSession` implements `NonceLedger`. The refinement mapping is
  the identity on `nonce` and `answers`. The invariant needed is `NonceInv`: a request between the consumption of a nonce
  and the lookup of the message it belongs to is the only one there, and the nonce is spent and unanswered.
  It holds because consumption is one conditional UPDATE.
* `TEEPSessionProofs!BarredAgentsGetNoUpdate` rests on `BarredInv`: barred keys are revoked or expired for good, and
  an authenticated sender is in the table. Authentication alone would not give it, because `setTEEPAgentKey`
  accepts a revoked row; the second lookup in `CreateWithToken` does.
* `TEEPSessionProofs!RevocationFinal` is an action property proved from the same invariant.
* `TEEPRecordsProofs!NoncesNameMessages` rests on `OwnerInv` and `RowInv`: a nonce that was generated belongs to the one request that is
  composing a message with it until that request ends, it is in no message sent before, and no row uses a nonce not yet generated.
  Without the requests in flight the property is not inductive: two of them might record the same nonce.
* `TEEPRecordsProofs!RepliesRecorded` rests on `RowInv`, which says for each label how far the rows of the message being composed have
  been written; a request that is about to reply has written all of them.
* `TEEPRecordsProofs!KeysEnrolledByFreshAttestation` rests on `EnrolInv` together with `NonceInv`: a request about to store a key holds a
  challenge that was sent, was answered once, enrolled nobody so far and is held by no other request.
* `TEEPRecordsProofs!HoldingsStayConsistent` needs `BarredInv` for the sender being in the table when its reports are applied.

### ManifestRepository

* `ManifestRepositoryProofs!TypeCorrect`: no sequence number reaches the limit and no untrusted key gets into a row.
* `NoDowngrade` and `OwnerKept` rest on `CheckInv`: what the check found still holds, at the time of the insertion, for the rows
  that were there when the upload arrived, because rows are only appended and the latest row bounds all of them.

### CollateralCache and Attestation

* `CollateralCacheProofs!CollateralMatches`, `CacheStaysReadable` and `CacheServesCurrent` rest on `CacheInv`:
  files, entries on their way to disk and collateral in use belong to their key, and an entry expires no later than its
  lifetime and every `nextUpdate` found in it allow. `MinOfNat` and `ExpiryBounds` are about the choice of the nearest one.
* `AttestationProofs!CallsUseCache` proves `AttSpec => Spec`: each step of a call is a step of the cache or leaves it alone, and
  `CallsAppraiseWithGoodCollateral` carries `CollateralMatchesQuote` and `CacheIsReadable` over. `IdleInv` is needed for a restart to be a `Crash` or a stutter.
* `AttestationProofs!EvidenceReaches` rests on `ResolverInv` (the Intel QVL Verifier is kept under its own format and no other) and `CallInv` (a call has evidence
  while it runs, and a result once it is answered, not before).
* `AttestationProofs!AppraisalSound` is the refinement of `Appraisal`, one step of a call at a time, under the same
  invariants.

### AgentStatus, AdminConsole and DemoSeeding

* `AgentStatusProofs!StatusIsLastReport` and `NewestReporterShown` rest on `StatusInv`: a row that is not deleted is the last report of its
  agent for its component. The tie of rows of one second does no harm: whichever row of an agent is picked
  has the same manifest.
* `AdminConsoleProofs!ConsoleUsesStatus` proves `ConsoleSpec => Spec`, so those two theorems hold under the console's specification, where
  the run checks them.
* `AdminConsoleProofs!PagesAreRecent` and `PagesHaveKnownAgents` rest on `ConsoleInv`: `InstalledInv` (the history variable says what the rows
  say), `MomentInv` (the moments at which the requests in flight arrived form a chain, and the oldest that a request remembers
  comes before all of them), `FetchInv` (what a request has got so far was reported since it arrived, and its list, if whole, has every agent enrolled then)
  and `CacheInv` (the cache satisfies both properties for every page about to be rendered). The step that
  matters is `Store`: what any request stores is recent enough for *every* page in flight (`StoredMayBeShown`). That `OpenPage` can choose an
  oldest moment at all is `EarliestMoment`, which needs the agents to be finitely many.
  `PagesHaveKnownAgents` holds where the list of the page and the one last stored were whole: a single whole `Store` repairs
  what any number of cut-off lists did to the cache.
* `DemoSeedingProofs!LatestManifestNeverGoesBack` rests on `LatestInv`: some row of hello.txt is the latest, and no row inserted lowers its number.
  `DemoManifestYieldsToOthers` rests on `UploadInv`: an upload that was found newer than the demo's manifest does not have its number 0,
  no upload lives on into a start-up, and the seeding inserts 0 only where the latest number is another. `RunningServerHasDemoData` and `SeedingRefusedForAReason` rest on `SeedInv`: the steps of
  the chain before the current one are done (`Done`), whichever start-up did them, and the demo agent has no holding without the demo's manifest.

### Only model-checked

Liveness (`RequestsEnd`) stays with TLC: reasoning about fairness and ENABLED is out of the prover's reach. The five runs that
expect a violation are counterexamples and have no theorem. The assumptions on the outside (the native library and the
remote Verifier, see above) are part of the models and not proved.

## Not modelled

* The console's page of manifests and its upload form: one call passed through, nothing kept. Routes, headers and HTTP status codes.
* CBOR, COSE and SUIT encodings, the byte layout of SGX quotes, diagnostic output, logging, the parsing of flags:
  conversions without state.
* The lifetime of tokens and challenges: `expired_at` is stored and never read.
* `ListAgents` on a database that was never seeded: the administrator is not found and the handler panics
  (`server/handler.go:345`); to the console this is a call that fails.
* Two TAM processes on one database: nothing in the repository starts them.
* SQLite itself: a statement or transaction happens at once or fails. Power failure: a file renamed without
  `fsync` may be empty afterwards.

## Plan

1. Done: `TEEPSession` with `NonceLedger`, `AgentStatus`, `ManifestRepository`, `CollateralCache`, and the theorems above.
2. Done: `DemoSeeding`, `AdminConsole`, and `Attestation` with `Appraisal`.
3. Done: a theorem for every invariant, action property and refinement that a run checks.
4. A composition of `ManifestRepository` with the lookup of `TEEPSession` in place of `Publish`, and the theorem that it implements `Publish`;
   the status services of `AgentStatus` as what `HandleReport` of `TEEPSession` writes to.

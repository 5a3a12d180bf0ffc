# A TLA+ model of the DEB certificate backend

The repository is a NestJS service that issues academic certificates. It keeps
the data of a certificate in PostgreSQL, anchors a hash of it on a Hyperledger
Fabric channel, and lets anybody verify a certificate by its QR token or by the
data on the paper. Its users are rows of PostgreSQL that are also identities of
a Fabric certificate authority (CA).

What is hard here is not a single function. It is that each operation awaits
two or three systems in turn (table, ledger, CA) which share no transaction, that
requests interleave at every `await`, and that any of the awaits can fail, or be
given up while its effect is still on the way. The modules are about that.

Source paths below are relative to `src/src/`.

## 1. The system

| Part | State it keeps | Operations | Talks to |
| --- | --- | --- | --- |
| Certificates, writing (`modules/certificates/certificates.service.ts`) | table `certificates` | `issue`, `bulkIssue`, `revoke` | PostgreSQL, ledger |
| Certificates, reading (same file) | none | `verifyById`, `verifyWithData`, `getById`, `getAll` | PostgreSQL, then ledger |
| Ledger (`modules/fabric/fabric-gateway.service.ts`; the chaincode is elsewhere) | world state | `submitTransaction`, `evaluateTransaction` | the channel |
| Accounts (`modules/users`, `modules/auth`) | table `users` | `createUser`, `login`, `deactivateUser`, JWT validation | PostgreSQL, CA |
| CA client (`modules/fabric/fabric-ca.service.ts`) | none; the CA's identities | `isRegistered`, `registerUser`, `enrollUser`, `revokeUser` | the CA |
| QR tokens (`certificates/qr-code.service.ts`) | none | `generateQrToken`; `decodeQrToken` has no caller | |
| Crypto helper (`fabric/crypto.util.ts`) | none | `encrypt`, `decrypt` | |
| Earlier asset API (`modules/fabrics-old`), still served | wallet files on disk; assets on the ledger | `registerAndEnrollUser`, `createAsset`, `updateAsset`, `deleteAsset`, `transferAsset`, reads | CA, ledger, disk |
| Start of the process (`main.ts`, the `onModuleInit()` of five providers) | what the handlers use: contracts, CA administrators, cache client | the hooks, `app.listen()` | all of them |
| Query parser (`common/helpers/requestParser.ts`, `common/pipes/QueryParserPipe.ts`) | none | `makeFindOption`, `makeFindOneOption` (the pipe is on no route yet) | |
| Seeder (`database/seeders/user.seeder.ts`) | table `users` | `seed`, `drop`; a process of its own | PostgreSQL |
| Redis cache (`providers/cache/redis`) | Redis | its connection; `getIfCached`, `getCachedOr`, `cachedFetch` (no callers) | Redis |
| In-memory cache | a `Map` | `get`, `set`, `executeOnce` (not imported) | |
| Collections (`common/infrastructure/classes.ts`) | none | classes without users | |
| Migrations, scripts | the schema | run by hand | PostgreSQL |
| Guards, pipes | none | one decision per request | |

What each part has to get right, and what makes it hard:

* **Issuing.** `issue()` checks for a row with the same roll and registration
  number, saves a DRAFT row, submits the hash, and saves the row again as
  ISSUED, or as FAILED from its `catch`. Four awaits; other calls run between any two.
  Correct means: the table never claims what the ledger does not have; the
  ledger never knows a certificate whose data is not in the table; one row per
  key; a token that was handed out finds its certificate; and every call ends.
* **The default token.** The entity's `qrCodeToken` defaults to `""` in a
  *unique* column, and the real token is generated from the row's id, after
  the first save. So at most one issuing call (without a token of its own) can
  be between its two saves, and a call that dies there leaves the token taken.
* **Bulk.** `bulkIssue()` repeats the body of `issue()` for each entry in order
  and must reach the last one whatever happens to the others.
* **Revoking.** The ledger first, then the row: the call can end between them.
* **Verifying.** A row is read, then the ledger is asked with a hash of what was
  read, while both move, and while somebody may edit the table directly, which
  is what the ledger is for.
* **Accounts.** `createUser()` checks the name, asks the CA, registers a random
  secret there and inserts the row; `login()` checks the row, enrolls at the CA
  and writes credentials back; `deactivateUser()` revokes at the CA, swallowing
  its errors, and wipes the row. Any two of them can interleave. Correct means: a
  deactivated account stays shut out, and row and CA agree on the secret. The CA is
  not the accounts' own: the earlier API, whose routes have no guard, registers names at the same one
  (`FABRIC_CA_URL`, `FABRIC_CA_NAME`).
* **Seeding.** `seed()` counts the rows and inserts a superadmin with a random
  secret that it prints, and that no CA is told.
* **Starting.** Two of the five hooks swallow their errors and three end the
  process. Correct means: no handler runs without what it takes for granted.
* **Querying.** Four lists of strings become nested objects, one element at a
  time, into the object that the earlier ones made. Correct means: what the query asks
  for is neither lost nor widened, whatever else is asked for beside it.
* **Earlier assets.** A registration asks whether the user's *directory* exists,
  registers at the CA, enrolls, and makes two directories and two files, one
  call to the file system after the other. A transfer signs with those files and answers after
  `submit()`. Correct means: a key and a certificate belong together, and an answer
  of success is true of the ledger.

`PROJECT.json` lists the hazards one by one, each at its line.

## 2. The modules

```
Chaincode  <-  Certificates  <-  Verification  <-  MCVerification,  VerificationProofs
                    |  \ <----  MCCertificates
                    |   \
   CertificateRegister   CertificatesProofs  <-  RegisterProofs,  VerificationProofs
     (the abstract one)

Identity  <-  MCIdentity,  IdentityProofs  <-  AccountProofs
    |
  AccountRegister (the abstract one)

Startup  <-  LegacyWallets  <-  LegacyAssets  <-  MCLegacy,  LegacyProofs  <-  AssetProofs
                                     |
                               AssetRegister (the abstract one)

QueryParser  <-  MCQueryParser,  QueryParserProofs
```

An action is what the event loop runs between two awaits, so that the
interleavings of actions are those the program can have. QueryParser, which has
no await, takes one turn of a loop for an action, so that its loops have invariants.

**Chaincode** is the ledger as the callers see it, an external part. A
transaction that was endorsed is `"pending"` until the channel commits or drops
it, whatever became of the HTTP call that sent it: this is how a deadline that passes
*before* the commit is possible. Endorsement errors are the callers' error
actions. Two revocations of one certificate that are pending at once are
endorsed against the same version of its key, and the channel commits one.

**Certificates** has `issue()`, `bulkIssue()` and `revoke()`. An element of
`Ids` is one certificate asked for: a call of `issue()` or an entry of a bulk
body. It also stands for the UUID of its row and for the token generated from
that UUID. `Earlier[i]` are the entries before `i` in its bulk body (empty for `issue()`),
so `Ready` is the loop's order. `pc` follows the awaits:

| `pc` | Code in `issue()` | Left by |
| --- | --- | --- |
| `idle` | before `findOne` of the pair | `PassCheck`, `RejectDuplicate`, `CheckErrs` |
| `checked` | before the first `save` | `InsertDraft`, `InsertCollides`, `InsertErrs` |
| `drafted` | before `submitTransaction` | `SubmitIssue`, `EnterCatch` |
| `submitted` | waiting for the commit | `SaveIssued`, `EnterCatch` |
| `failing` | in the `catch`, before its `save` | `SaveFailed`, `SaveFailedErrs` |
| `created`, `duplicate`, `rejected`, `error`, `dead` | over | |

`save()` of an entity that has an id selects the row, compares, and updates the
columns that differ; nothing reads the row in between what it selected, so its effect is
that of writing all mapped columns of the object in memory, and `Save` says so.
The route for bulk bodies takes `@Body() body: any`, which no pipe validates; entries
are taken to have the DTO's shape, and the route to have refused other bodies
(`certificates.controller.ts:40-52`).

**Verification** extends Certificates with the reading calls. `then` records
what was settled when a call read the row, which is what its answer can fairly
be held to: whether a genuine certificate was *asked for* (`genuine`), whether every row that
matched was genuine (`alone`), and whether the row found was of a revoked certificate. `Tamper`
edits the data of a row behind the service. `findOne()` without an
order may return any match, so `Find` is nondeterministic; the manual entry, with two rows
for one key and year, can therefore find either, a draft, FAILED or edited one included, and a
genuine paper is then told INVALID or TAMPERED.

**CertificateRegister** is the abstract specification: a certificate has a
truth (unknown, valid, revoked) that only moves forward, and what the listing
shows follows it, never ahead of it. `Certificates!Register` is the
refinement: the truth is the ledger, what is shown is the row's status (`draft`
and `failed` show as pending), `promised` are the calls that answered ISSUED,
`withdrawn` the certificates whose revocation was answered with success.
Before the promise the listing may waver, because `issue()` still holds the row
in memory; after it, only a revocation changes it.

**AccountRegister** is what the accounts promise: an account is opened once,
with a role, and closed for good unless it is a superadmin's; who gets in was
entitled to by an account that was open, and a request only on the strength of a login. It knows no CA,
no await and no failure. `Identity!Accounts` is the refinement: the standing of a
name is its row's status and role, `told` are the accounts whose deactivation was
answered, and a login is entitled from the moment its credentials are accepted.

**Identity** has the accounts and the CA. Each `createUser()` call is its own
random secret, and each login its own credentials. A row's role and CA secret
are read with the step that uses them, since nothing changes them after the insert. A
run of the seeder is a creation of another kind (`Seeds`): `CountUsers` and the insert, in a process
that a crash of the service leaves alone. The names in `Elsewhere` are those that others hold at the CA,
or register there at any moment (`RegisterElsewhere`): the earlier API does so for whoever calls
`POST /api/users`, with a secret of the client's choice (`Foreign`, or one that the seeder printed), and the CA's
administrator is known to it from the start. `isRegistered()` then lets a first and only
`createUser()` skip registration. An identity that the service did not register itself lacks the attribute `role`
that `enrollUser()` asks for (`fabric-ca.service.ts:88`), so that not even the right secret helps it (`HasRoleAttribute`). The
`UseGuards` of the users controller are commented out (`users.controller.ts:30-31`), so that
`PATCH /admin/users/:id/deactivate` throws on `req.user.username` before it reaches the
service; the model has `deactivateUser()` as it runs with its guards. `Authorize` is the strategy
behind `JwtAuthGuard` followed by `RolesGuard`, for a route open to every user or one for superadmins.

**Startup** is the process: the hooks of the providers, module by module in the framework's
order (external), those that throw and those that forgive, then `listen()`; a crash, and a new start.
It is composed with the earlier API, whose two hooks are the forgiving ones: `caReady` and
`connected` are what the last start made of them.

**LegacyWallets** has `registerAndEnrollUser()`: the CA (external) and the disk (which
directories and which of the two files are there, and which call wrote each); the
process can die between any two calls to the file system. Here it is `createUser()` that may
register a name first (`RegisterElsewhere`). **LegacyAssets** extends
it with the asset calls. `createAsset`, `updateAsset` and `deleteAsset` go
through the connection made at start-up and answer by the commit status;
`transferAsset` needs a complete wallet and ends with its `submit()`. The channel
is external: a transaction is endorsed against the asset as it is then, and one
that commits makes the others on the same asset `stale`. Reading the wallet
and endorsing are one action, because a complete wallet never changes
(`KeyMatchesCert`, `WalletStages`); a transaction that was endorsed and given up is as if there had been none.
The reads change nothing and await one query: they are operators on the state, and
`ReadsFindWhatWasAnswered` says what they find.

**AssetRegister** is what users and clients are promised. `holder` says which registration
made a user's wallet (the one whose private key is in it), if any, and `welcomed` which
registrations were told so. `owner` is the owner of each asset. A call waits, is at work on what it found, and then
its work is done or lost; an answer of success is true of the work, except
that of a transfer. `LegacyAssets!Atomic` is the refinement: the place of a call is
read off its stage and its transaction, so that the endorsement, the
commit, the loss of a transaction and the answer, which the code spreads over the channel and two awaits,
are steps of the register or stutter.

**QueryParser** has both functions and the pipe around them. A query is a record of
parameters after `JSON.parse()` and `split()`: what is malformed is `Bad` where the loop
throws on it, and `Object` where the parser gives up. Nested options are sets of leaves (a path of up to three names), since that is
what the ORM makes of them; `order` is a sequence, because the insertion order of its keys counts.
Each parameter has its action, and `After` is the order of the blocks in the code, which differs
between `"MANY"` and `"ONE"`. The loops start from object literals, so that a name such as `constructor`
is found on the prototype (`requestParser.ts:93-99`); `Names` stands for names that are not there.

Definitions whose name starts with `Defect` are not part of any next-state
relation. Each is a plausible bug in one definition (a dropped guard, a missing
await, an upsert for an insert), and putting it in the definition's place makes
TLC refute the property paired with it in `PROJECT.json`.

## 3. The runs

| Run | Instance | Checks |
| --- | --- | --- |
| `Faults` | a bulk body of two, an `issue()`, a revocation, two keys, a token supplied by the client, all failures | the safety invariants, `IInv` (which has `TypeOK` as a part), `SettledRowsAreStable`, `JamIsPermanent` |
| `Deadlines` | a bulk body of two, two revocations, all failures, a channel that may never commit | `EveryCallEnds`, `EveryRevokeEnds`, `ImplementsRegister` |
| `Calm` | a bulk body of three, an `issue()`, a revocation, no failure | `DraftsAreIssued`, `BulkCompletes` |
| `Verify` | two certificates of one key and different years, a revocation, a reader, failures and tampering | `AuthenticIsWhatWasIssued`, `NoAuthenticAfterRevocation`, `GenuineIsRecognised`, `AnswersAreGrounded`, `VIInv` |
| `Accounts` | two creations for either of two names, a run of the seeder, a login, a deactivation and a request of one name, which others may register at the CA too, all failures | the account properties, `LockoutIsExplained`, `ImplementsAccounts` and `IInv` |
| `Legacy` | two registrations of one user, whom others may register too, with either of two secrets, two edits and a transfer of one asset, starts and restarts, all failures | the wallet, asset and start-up properties, `ImplementsAssets` and `IInv` |
| `Queries` | up to three paths (out of eight), sort keys (six) or malformed elements; up to two terms and two filters together; all parameters at once in short | the parser's four properties and `IInv` |
| `Duplicates`, `FailedAnchored`, `TwoCreates`, `LoginRace`, `Transfers` | the smallest instance that shows it | one violated claim each, see section 4 |

What the passing runs show:

* `IssuedIsAnchored`, `RevokedAgrees`, `RowBeforeAnchor`: the order "row, ledger, row"
  is right under every crash, loss and late answer.
* `SettledRowsAreStable`: after its issuing call a row is only ever marked
  revoked. While the call runs, its second save can overwrite a revocation that came
  in between: the table then says issued of a certificate the ledger has
  revoked. Verification asks the ledger and is not misled; the listing is. The
  register permits exactly this and no more.
* `SingleFlight`, `JamIsPermanent`: the blank token serialises issuing calls by
  making the others fail, and a row abandoned with it (a crash between the
  saves, or a failed save in the `catch`) shuts out every later call that brings
  no token, with no operation that repairs it. `BulkCompletes` and
  `DraftsAreIssued` show that without failures it is always given back, and that a bulk
  body running alone never trips over it.
* `BatchKeysDistinct`: the entries of one body cannot produce the duplicates that
  separate calls can. A row that ended FAILED counts, so the same key cannot be
  issued again.
* `EveryCallEnds`, `EveryRevokeEnds`: because of the gateway's deadlines.
* `LateLoginsDenied`, `LateRequestsDenied`, `DeactivationTakesEffect`: a deactivation is effective
  at the table even if the CA refuses or is down.
* `ImplementsAccounts`: no order of creations, logins, deactivations and requests, and no
  failure, opens an account twice, reopens or shuts the wrong one, or lets
  somebody in who was not entitled to. The role check of a deactivation is made two awaits
  before its write; that this is sound needs the row's role to be final.
* `PartingsAreExplained`: there are three ways for a row to have a secret that the CA does not take. It was
  seeded; somebody else registered its name at the CA; or a `createUser()` call registered its own
  secret and has not saved its row, because it still is at it or because it ended there, so that another call's row is in its place.
* `LockoutIsPermanent`: nothing in the service mends that, and not the other half of it either: a name
  that the CA knows and no account has, because its creation ended between the two or because others
  registered it, never becomes an account that can log in. Registering the
  seeder's printed secret through the earlier API does not help, for want of the attribute.
* `KeyMatchesCert`: that two registrations can both find no directory does no
  harm, because the CA lets one of them through. `StrandedNamesStay` is the price: after a
  registration that was cut short, the directory or the CA refuses every other
  one, and the user has no wallet for good; nor has one whose name `createUser()` registered first.
* `HandledByReadyProcess`: only the earlier API can find its connection or its CA missing; a
  process that serves has the contract, the CA administrator and the cache of the rest.
* `ReadsFindWhatWasAnswered`: an answered edit is in the history of its asset, and an
  answered creation in what every later read finds, over restarts too.
* `AnswersAreGrounded`: TAMPERED is only said of data that is not what was issued, REVOKED of a
  certificate whose revocation has committed, and `getById()` returns no row that the ledger
  lacks, whatever is written between a reader's two awaits.
* `GenuineIsRecognised`: whoever asks for a certificate that was issued and not edited is never told that there is none; if the
  answer is a verdict, it is AUTHENTIC or REVOKED, unless the paper also fits a row that is not genuine. That exception happens
  in the instance, where both certificates may be asked for with the same data.
* `LockoutIsExplained`: an active account that the CA refuses was parted from it in one of the three ways
  above, or is half deactivated: `deactivateUser()` asks the CA first, so that a crash
  or a database error before its save leaves an account that is open in the table and shut at the CA.
* `ImplementsAssets`: however asset calls race, fail or are cut off by a crash, each takes effect at
  most once, at one moment, on an asset that it fits and for a user who has a wallet.
* `FiltersHold`: every filter holds for every row that can be found, with one exception
  that the property names: a search without a term the parser can use (a column that is not searched)
  makes an empty list of clauses, which the ORM takes for no condition at all, and the filters are gone.
* `AskedColumnsAreKept`: a column of the third level is lost if a later path begins with
  the same two names. `RelationsInAnyOrder` and `OrderIsAsAsked` have no such exception.
* `OneCreatorIsTold`: waiting for the commit status makes the answer of `createAsset`
  true when two calls race, which `transferAsset` does not have (section 4).

**Bounds.** Every call is made at most once, and TLC picks what it is about, so
a bound is a number of calls. Two certificates meet in every pairwise
hazard (a key, the token, the order in a body); a third is there so that
somebody can watch a body of two from outside, and in `Calm` a fourth, so that a body
has an entry in the middle. Two revocations are what a race needs. Two contents
with different keys suffice where keys must differ, two of one key where they must collide, and
two years where the manual entry must choose. Two creations meet at the CA; one
deactivation reads, asks and writes, and nothing makes an account active again, so a
second would be refused or repeat the same writes. In `Accounts` the calls other than creations are about one
name, since accounts of different names share no state but for what the seeder counts; creations may also be about the other. The name that the calls are about is the one
in `Elsewhere`, and may or may not be registered there; the other never is. In `TwoCreates`, `LoginRace` and `Transfers`
`Elsewhere` is empty, since what they show needs nobody from outside. The
invariants proved below hold for any number of all of these. In `Legacy` two edits are
what a race of creations needs; that a third, a deletion, excuses two creators is
left to the proof. In `Queries` a third path is what can come between two that
share names, and all parameters at once show the order of the blocks; sides of a pair that do not
read each other's variables are not multiplied out. `Verify` uses the symmetry of `Ids`, and that of its two
contents when their hashes and years change places with them; `Legacy` that of
calls and secrets: no constant names one of them, and no liveness is checked there.
Deadlock checking is off throughout: when every call is over the system stops.

**Fairness.** `FairSpec` says that a call that has begun is run to its end,
and that a bulk loop reaches its next entry: the event loop resumes whoever's
await is answered, a database query returns or fails, and the gateway is
connected with deadlines for endorsement (15 s), submission (15 s) and commit status (60 s,
`fabric-gateway.service.ts:89-92`). Nothing is assumed of the channel, and no client is
obliged to begin anything. `EveryCallEnds` needs just that. `LiveSpec` adds that the channel commits what it is
sent, and is used with failures off: what it shows is that the service alone
never gets stuck. `Identity` assumes that a deactivation that has begun is
run to its end. `LegacyAssets` assumes no fairness and claims no progress: its
gateway is made without deadlines (`fabrics-old/fabric.service.ts:56`), so that a call
may wait for ever; Startup assumes none either, since `connect()` to Redis retries without end. A crash ends a call, and the liveness properties say so
(`dead`).

## 4. Where the code differs from what it says

| Run | The code says | What happens |
| --- | --- | --- |
| `Duplicates` | "Certificate already exists with given roll and registration number" (`certificates.service.ts:64`) | Two calls pass the check before either inserts. The second inserts when the first has given the default token back. No index covers the pair. |
| `FailedAnchored` | "Rollback: mark as FAILED in PostgreSQL" (`certificates.service.ts:112`) | The commit-status deadline passes, the row becomes FAILED, and the transaction commits. Such a certificate verifies as AUTHENTIC, and its key cannot be issued again. |
| `TwoCreates` | "Register in Fabric CA with the RANDOM secret" (`users.service.ts:56`) | Two calls for one name: one registers its secret, the other finds the name registered, skips, and may win the insert with a secret the CA does not know. One call is enough if the name came to the CA from elsewhere. |
| `LoginRace` | "Wipe stored credentials from DB" (`users.service.ts:106`) | A login that passed its check before the wipe stores credentials after it. |
| `Transfers` | "Transaction ${txId} successfully committed." (`fabrics-old/fabric.service.ts:233`) | Of two transfers endorsed against one state of an asset the channel drops one, and both were reported as successful. |

For each there is a theorem (section 5) that says when the claim does hold, and so what the code lacks:

| Claim | Holds while | Theorem |
| --- | --- | --- |
| `OneRowPerKey` | no two calls for one key are between the check and the insert; so it does if all certificates come from one bulk body | `KeysAreUniqueIfChecksAreApart`, `OneBodyKeepsKeysUnique` |
| `FailedIsNotAnchored` | no call is in its `catch` with a transaction that has committed or still may | `FailedMeansUndone` |
| `StoredSecretIsRegistered` | of a name: one `createUser()` call and no seeder is made for it, and nobody registers it elsewhere | `SecretsAgreeIfNamesAreCreatedOnce` |
| `InactiveHasNoCredentials` | no login of a user is between its check and its write during that user's deactivation | `WipedIfNoLoginMeanwhile` |
| `ReportedTransferIsKept` | of the calls about one asset at most one has a transaction on its way at a time, and nothing fails | `LoneTransfersAreKept` |

One more has no run, because a single expression shows it: the manual entry "recomputes hash to
catch tampering" (`certificates.controller.ts:75`) of the row that it found; what the
caller supplied only selects the row, and the DTO has nothing more to compare.

## 5. What is proved

`tlapm` checks eight proof modules, for every value of the constants that meets
the stated assumptions (calls of `issue()` and of `revoke()` are distinct; contents have keys and
digests; the blank token is nobody's own; a bulk body is totally ordered; logins
and requests are distinct; the seeder's runs are among the creations; who is registered elsewhere is among the names;
edits and transfers are distinct; queries have their shape, and no name is `None`; the "no secret", "foreign secret", "no
credentials", "no call" and "no owner" values are nobody's).

**CertificatesProofs.** The safety properties are not inductive: that a row
says issued only if the ledger has it rests on where the call is that wrote it. `IInv`
says, for each stage of a call, what it has written so far:
`RowStages` (call and row), `IssueStages` (call, transaction and ledger),
`RevokeStages`, `TokenStages` (blank or one's own, and unique), `BatchStages` (the order of a
body, and the keys of its rows against the one being issued). There is one
lemma for each part, with one step per action, and `Inductive` combines them. The theorems
`NothingIssuedOffChain`, `NothingAnchoredWithoutRow`, `NothingRevokedOffChain`,
`OneBlankToken`, `TokenFindsRow` and `BulkKeepsKeysApart` read each safety
invariant off it, and `SettledRows` and `JamsStay` the two action properties.
`TypeOK` is the first conjunct of every component's invariant, and is checked by the runs as that.

The second half is about what does not always hold. A condition on states is put in the
premise as `[]Condition`, and an invariant that is inductive under it follows from `IInv`:
`KeyStages` and `CheckStages` under `OneCheckPerKey`, `FailedStages` under `CatchMeansUndone`,
`CalmStages` (no failures) under `NoRevokeInFlight`. The runs `Duplicates` and `FailedAnchored` refute the claims without
their conditions. `ErrorsComeFromFailures` and
`JamsComeFromFailures` say where errors and abandoned default tokens come from. `RejectionHasACause` is an action property: an
insert collides only while another call is between its two saves or a jam has been left. `BulkIsNotRejected`: a
lone bulk body never collides with itself. `CalmStoresAgree`: without failures table and ledger part
only for a revocation that meets an `issue()` still under way.

**RegisterProofs.** `Refinement`: every step of Certificates is a step of
CertificateRegister or leaves its variables alone. What rules out the
steps that would not be is `StoreStages`, that is `IInv` without `RowData` and `BatchStages`,
the two parts that speak of the data in the rows.

**VerificationProofs.** With `Tamper` a row need not agree with the ledger any more, so
not all of Certificates' `IInv` survives. `StoreStages` does. `VIInv` adds what a reading call
holds: `FoundStages` (what it read was a row then, and what `then` recorded of the row and of what was asked for stays so) and `AnswerStages` (what
an answer was computed from). `AuthenticMeansIssued` assumes that the hash tells contents apart
(`HashTellsApart`); `RevokedIsNotAuthentic`, `GenuineIsFound` and `NoAnswerIsMadeUp` assume nothing more. For `GenuineIsFound` a genuine
certificate that is named must match as a row (`GenuineMatches`), and a row found among genuine ones only (`Certain`) is itself genuine.
The rest is about the composition. `ReadersOnlyRead`: every step of the service with its readers is, to
the stores, a step of the writing side, an edit, or nothing. Hence `WithoutEditsCertificates`: if nobody edits the table,
`VSpec` implies Certificates' `Spec`, and with it all that is proved of that. And
because the register is refined by `StoreStages` alone, `EditsKeepTheRegister`: with readers *and* edits the
service still implements CertificateRegister.

**IdentityProofs.** `IInv` has `DoneStages` (a deactivation under way has a row,
one that was answered made it inactive), `LateStages` (what began after that
is refused), `SecretStages` (a secret, in the row or at the CA, comes from a
call for that name, unless others registered it; the CA knows a name before its row is inserted, unless the
seeder inserts it) and `CallStages` (a deactivation under way is of no superadmin,
a request under way has the token of a login). From it:
`LateLogins`, `LateRequests`, `PartingHasACause`, `LockIsPermanent`, `WipeStays`, and
`SecretsAgreeIfNamesAreCreatedOnce` for each name under `CreatedOnce`.
`LockoutHasACause` adds `RevokedStages` (which calls can have revoked a name at the CA, and where
they are now), and `WipedIfNoLoginMeanwhile` adds `ClosedStages` under its condition.

**AccountProofs.** `Refinement`: every step of Identity is a step of AccountRegister or
leaves it unchanged. `CallStages` is what makes a late `Wipe` a `Close` of an account that may be closed,
and an answer to a request follow a login.

**LegacyProofs.** `IInv` has `StartStages` and `RequestStages` (a process that serves has
run its hooks, and no call outlives its process), `WalletStages` (a call enrolls only as the one that
registered the name, and no file is there before it does) and `AssetStages` (a
transaction that is not stale fits its asset; what committed and was not deleted is
there) and `SendStages` (a transfer on its way acts for a complete wallet).
From it: `OneEnrollment`, `OneCreator`, `StrandedStay`, `ReadYourWrites`, `HandledWhenReady`.
`LoneTransfersAreKept`: while calls about one asset follow each other (`OneInFlight`) and nothing fails, no commit
finds another transaction to overtake, so that none is dropped (`Undisturbed`).

**AssetProofs.** `Refinement`: every step of LegacyAssets is a step of AssetRegister or a stutter.
`WalletStages` makes the second file of a wallet a `Join` nobody can make twice, `AssetStages` makes a commit a
`TakeEffect` that fits, `SendStages` gives the transfer its wallet, and a crash fails all
calls that were under way in one step.

**QueryParserProofs.** `IInv` says of each loop what its result is of the elements read so far
(`Read`); each parameter's property is the same formula of all the elements, so that it follows when the last loop ends.
`AddColumn` and `AddRelation` have lemmas of their own, and so has a turn of each loop. The lists may have any length.

**Only model-checked.** The liveness properties (`EveryCallEnds`,
`EveryRevokeEnds`, `DraftsAreIssued`, `BulkCompletes`, `DeactivationTakesEffect`),
because the prover handles neither fairness nor ENABLED. The conditions of the conditional theorems are
conditions, not claims: no run asserts them, and the violating runs show they matter.
Induction over data and recursive operators are out of the prover's reach as
well; the modules have neither.

## 6. What is not modelled

* The chaincode and the CA are not in the repository. Chaincode and the CA
  variables of Identity say what the callers rely on.
* `computeCertificateHash` (SHA-256 of eight fields joined with `|`) is the constant `Hash`.
  Nothing assumes it is injective except the instance of `Verify`, where AUTHENTIC could
  otherwise be said of other data, and the theorem `AuthenticMeansIssued`, which states it. Two certificates whose fields contain `|` can
  have the same hash: that is a matter of the data, and the reason why the theorem states its assumption.
* QR images, formatting, headers, paging and logs.
* If `QR_SECRET` is missing, the token cannot be signed and `issue()` throws
  outside its `try`, after the DRAFT: the row is left as by `InsertErrs` when the insert took effect.
* `seedSuperAdmin()` has no caller. The seeder's `drop()` (`seeder:refresh`) empties the table
  of users while the CA keeps its identities: nothing said of accounts outlives it, and
  every name that is created again is locked in the sense of Identity.
* The helpers of the Redis cache and the in-memory cache, and the collections, have no callers: no state of the
  program is reached through them. The guards in `common/` are on no route, and the configured queue has no producer.
* `certificates.service copy.ts` is an older version that nothing imports.
* `encrypt()` and `decrypt()` are inverse for one `CRYPTO_SECRET`, and what is stored is kept in clear here.
* The migration scripts are run by hand while the service is down; the tables they make are in Certificates and Identity.
  `typeorm_migration_rollback_all.ts` starts every undo at once and awaits none; what two
  undos at once do is up to the library and the database, which are not here.

## 7. Plan

Done: all of the above. Every part of the program that keeps state and has a caller is modelled,
every safety and action property that a passing run checks is proved, so are the three refinements, and for each
violated claim there is a condition under which it is proved. What could still be proved: what the entries of a bulk body
end as when an `issue()` runs beside it (`RejectionHasACause` for a body), and the start-up hooks'
order against the handlers of the accounts, which Startup does not compose with. What could come next, should the code change:

1. When the Redis helpers get a caller: they write back without awaiting, so that an older
   value can overwrite a newer one. An abstract cache that never serves what is older than its time to live.
2. When the query parser gets a route: the composition with `findAll()`, where an `undefined` option means every row.
3. When the guards of the users controller are put back (`users.controller.ts:30-31`): who may create and deactivate.

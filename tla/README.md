# Verification of the Cline plugin for CPA

The repository is a plugin that lets CLIProxyAPI (CPA, "the host") serve chat
requests through Cline accounts. It is a Go library that the host calls over a C
ABI, on as many goroutines as it has requests. It has little state, but all of it
is shared between calls without any transaction: a cache of credentials, the auth
files that host and plugin both write, the logins under way, a cache of model
catalogs and the overlay an operator puts over them.

This directory models that state in TLA+, checks it with TLC on small instances
and proves what can be proved of every instance with TLAPS. `PROJECT.json` lists
the runs, the line of source behind each definition, the hazards of the code and
the properties that speak of each.

To check a run or the proofs:

    tlc -workers 2 -config MCAuthFile.cfg MCAuthFile
    tlapm CredentialStoreProofs.tla

## 1. The system

| Component | State | Operations | Talks to |
|---|---|---|---|
| Single flight (`token.go:285-321`) | `credentialCalls`: a call by key | `refreshCredential` | the grant at Cline |
| Credential (`token.go`, `executor.go`, `auth.go`, `account.go`) | `credentialCache`; a `credential` per request | `newCredential`, `prepare`, `apply`, `persist`, `do`, `enrichAndPersist`, `freshStoredAuth` | single flight, auth files, Cline |
| Auth files (`token.go:233-283`, `host_auth.go`, `management.go:204-289`, `auth.go:379-441`) | JSON documents in the host's directory | `fileJSON`, `parseStored`, rename, delete, save of a login | host callbacks |
| Device login (`auth.go:141-351`, `management.go:153-202`, `main.go:88-109`) | `loginStates` | `startLogin`, `pollLogin`, the poll route, the sweeper | WorkOS, Cline, auth files |
| Model catalog and overlay (`models.go`, `model_config.go`, `management.go:291-421`) | `modelCache`, `currentModelOverlayState` | lists for host, account and panel; edits; `configureModels` | Cline, credential, host |
| Configuration (`config.go`, `model_config.go:32-54`) | `hiddenModelsFromConfig` | `configure` at `register` and `reconfigure` | overlay |
| Chat execution and stream pump (`executor.go`, `stream.go`) | `streamCloseOnce`; a goroutine per stream | execute, collect, pump, emit, close | credential, host |
| Plugin ABI (`main.go`) | buffers | dispatch by method name | everything |

What is hard about it:

* **Refresh tokens rotate.** A grant spends the refresh token it presents. Present
  a spent one and the account needs a new login; so two requests must not refresh
  one account at once, and a rotated pair must not get lost on its way from
  Cline to memory, to disk and to the host's own copy.
* **Stale snapshots.** Every request starts from the host's copy of a credential,
  which may be older than what the plugin knows, and keeps its own copy across
  calls that last minutes.
* **Files without locks.** A writer reads a document, builds a new one and hands it
  to `host.auth.save`; the host, the panel and other requests write as well.
* **Answers that do not come.** Each upstream call can fail, be refused, succeed
  without its answer arriving, or be overtaken by a restart.
* **Goroutines nobody waits for.** A stream is pumped after its handler has answered.
  Its upstream may break off, fall silent or never end, and its client may leave.
* **Pulls between a read and its use.** A list loads the overlay, pulls catalogs,
  then filters; an edit loads the overlay, may pull catalogs, and then stores the
  whole of it.

What makes each component correct:

* single flight: at most one grant per key; each caller gets the answer of the
  flight it joined; no registration outlives its flight; every call returns;
* credential: the token Cline accepts is never lost but to a lost answer or a
  crash, no cached pair is replaced by an older one, no request goes back to an
  older pair but a model discovery whose refresh failed, memory and disk agree at
  rest, every request is answered;
* auth files: a write keeps the fields of others, the shown name and the newest
  pair; an account has one file;
* login: one approval, at most one credential; "ok" means saved; every entry goes;
* streams: what was shown is a prefix of what the model said, a stream that ends without
  an error was shown all of it, nothing is asked for twice once something was shown, and
  every pump ends;
* catalog: what is hidden is not listed and does not come back by itself; what is
  moved lands; a refresh does not pass off an old list as a new one.

## 2. The modules

    RefreshFlight <------- RefreshFlightProofs
         ^                        ^
         |  INSTANCE, twice:      |  INSTANCE: the lemmas
         |  steps and refinement  |
    Credential <---------- CredentialProofs <-- CredentialStoreProofs
         ^
    MCCredential

    Login <-- LoginProofs         AuthFile <-- AuthFileProofs
      ^                              ^
    MCLogin                       MCAuthFile

    HostStream <-- Stream <-- StreamProofs
     (refinement)     ^
                  MCStream

    ModelOverlay <-------- ModelOverlayProofs
         ^                         ^
    ModelCatalog <-------- ModelCatalogProofs
         ^
    MCModelCatalog

An arrow leads from a module to one it extends or instantiates. The modules whose names
begin with MC give the constants their values for TLC; those that end in Proofs hold the
theorems (section 5), each about the module it extends.

**RefreshFlight** is `refreshCredential` for goroutines `Procs` and keys `Keys`. A
call is a stage per goroutine. Between `Call` and `Return`, a goroutine either
leads (`Lead`: no entry, register; `Answer`: the grant is over; `Unregister`: the
entry is deleted under the lock; `Release`: `wg.Done`) or joins (`Join`, then
released by its leader). `slot` is the key, `joined` the leader whose
`*refreshCall` a goroutine holds, `outcome` what the leader's call carries. The
lock is held for single steps, so `Lead` and `Join` are atomic. `Answer` and
`Unregister` are two steps because the code runs the grant, and caches its
result, before it takes the lock again.

**Credential** is one account over its life: `cache` (by id key and by email key),
`disk`, the host's copy `host`, and what Cline knows (`live`, the one refresh token
it accepts; `issued`; `revoked`). Each goroutine carries a request of one `kind`:
a chat request (`execute`), `auth.refresh` (`refresh`) or model discovery
(`models`). Its stages follow `prepare`, the flight, `apply`, `persist` and the two
attempts of `do`. The flight's steps are those of RefreshFlight, extended with what
they do to the cache. Tokens are numbered as they are issued; a grant takes a tick of the
clock, as it takes at least a millisecond of `ExpiresAt`. `Faults` says what
goes wrong in a run: `serverError` (503), `noConnect` (connection failures),
`lostReply` (the grant happens, its answer is lost), `noToken`, `noRotate` and
`noExpiry` (an answer without one of its fields), `learnsId`, `revoke`, `saveFail`,
`restart` (between requests) and `crash` (at any point).

**AuthFile** is the files of one account: `cline.json`, where an import lives
("shared"), and `cline-<account>.json` ("own"). The code's conversions of documents
are operators on records with what host, plugin and user each own in them: tokens,
Cline's own name of the account, nickname, label, note, disabled. A request is an execution, a
refresh of the host's, or the model catalog's merge (`Kinds`), which knows no path. It parses the host's copy
of the document (`host`), the `StorageJSON` it is called with, which may predate what the plugin has saved since
(`token.go:66-69`); the host takes a file in at a moment of its own (`HostReload`). It is granted a pair, alone or with others
that joined its flight (`Refreshed`), or keeps what it has (`Unchanged`, `Deferred`); then each applies, reads, saves.
A refresh of the host's goes on, whether its save succeeded or not, to the snapshot that `enrichAndPersist` takes, which may bring another
name, caches it and persists a second time; an execution may be answered 401 and ask again. `live` are the pairs that
Cline accepts, and `gone` remembers that a file was deleted under a request. The name may change at Cline
(`ChangeName`); the panel renames and deletes; a login writes a new document; the host
edits its note and its switch.

**Login** is one table of device logins with polls from panels and from the host's
login page. A poll loads its entry and then makes two calls upstream, so it is four
steps: `Exchange`, `Register`, `DeleteState`, `Persist`.

**ModelOverlay** holds the pure part of the catalog: the checks of `storeModelOverlay`,
what `applyModelOverlay` and `applyModelOverlayForAdmin` make of a catalog, and the
edits of the panel. A model id is a member of a small set with a `Family`, the prefix
that a trailing star hides; a catalog is a sequence of ids. The loops over a list are
recursive functions (`picked`, and `without` and `appendNew` made of it), and a list is put together
with `FlattenSeq`, so that ModelOverlayProofs can say what they return for every list.
**ModelCatalog** builds the calls on it: load the overlay and find the accounts
whose files can be fetched and parsed, which may be some of them (`Begin`), take or pull
the catalog of each (`TakeCached`, `Pull`, `FetchAnswers` or `FetchFails`,
`Keep`), and then answer or store. Upstream publishes one edition of its catalog after
another; edition 0 is the built-in list. A configuration is the list under
`hidden_models`, its entries model ids, prefixes, texts that are no prefix, and things that are
not text (`Nested`), or None for a document that does not parse. `yamlStringList` and
`hiddenModels` say what becomes of it, at the start and in `Reconfigure`.

**HostStream** is what the host may rely on for a stream it opens: frames in the
order in which the model said them, at most one error and nothing after it, and
an end, which never comes without a word. **Stream** is the code: requests that are executed
as a whole (`handleExecExecute`), collected (`collectUpstreamStream`) or pumped
(`pumpUpstreamStream`). Each goes through `credential.do`, of which Stream keeps the
attempts, the retry and the failures; Credential has what is behind them. Then it
reads an answer: upstream says lines (`Says`), ends with `[DONE]` or without
(`Ends`), breaks off (`Breaks`) or is cut off by the client's timeout (`TimesOut`), while
the goroutine skips lines, collects or emits frames, tells an error (`Tell`) and closes
(`Close`, with the `sync.Once` of the id). The frames that are yet to be read are
`body`, and `noise` says that a line to skip is among them. The host opens streams (`AskStream`) and drops those whose client has gone (`ClientLeaves`).

In each module an operator whose comment begins with "Bug:" is a variant of the
operator below it, as a plausible mistake would make it. The specifications do not
use them. `PROJECT.json` names, for each property of each passing run, the variant
that breaks it.

## 3. The runs

| Run | Instance | Distinct states | Result |
|---|---|---|---|
| refresh_flight | 3 goroutines, 2 keys, 2 outcomes | 16 386 | holds |
| credential_pair | 2 goroutines, all 3 kinds, 3 pairs, clock to 4, one crash | 2 300 138 | holds |
| credential_answers | 2 goroutines, chat and refresh, 2 pairs, 2 revocations | 357 228 | holds |
| revocation | 2 chat requests, one revocation | | **violated** |
| usable_token | 1 chat request, one due pair | | **violated** |
| auth_file | 2 requests (execution, host's refresh), 2 given names, 2 names at Cline, 3 pairs | 2 493 778 | holds |
| re_enabled | 1 request without a path | | **violated** |
| rename_lost | 1 request, saves may fail | | **violated** |
| login | 1 login, 2 panels and the host's page | 5 955 | holds |
| models | two pages and host, 3 models of 2 families, 2 editions, 2 changes, 3 configurations | 2 220 239 | holds |
| failed_pull | 2 pulls of one account | | **violated** |
| stream | a stream beside a request of any kind, answers of up to 2 frames, 2 ids | 195 442 | holds |

### What holds, and under which conditions

**refresh_flight.** `OneGrantPerKey`, `NoOrphanRegistration`, `WaitersAreAwaited`
and `WaitersShareTheAnswer` are the safety of the single flight; `EveryCallReturns`
is its liveness. Three goroutines are enough for a leader, a waiter and a latecomer
that arrives between the leader's answer and its unregistering; two keys let
flights overlap. The safety part is proved for every instance (section 5).

**credential_pair.** Requests of all three kinds run on two goroutines while tokens
age, Cline answers 503 or cannot be reached, an answer gets lost or lacks its expiry, and
the process crashes once. `FreshStart`: a request starts from the pair Cline accepts unless
a refresh is under way or the login is lost. `CacheHoldsNewest`: no cached pair is replaced by an older one.
`OnlyDiscoveryGoesBack`: a request replaces the pair it has by an older one in one way only, when a model
discovery, which has adopted a newer cached pair, fails to refresh that and hands out the snapshot
it was called with (`token.go:216-219`). The run takes that way: without the exception TLC finds a behaviour of 19 states. `LoginSurvives`: the pair Cline accepts gets lost only by an answer that never
arrives, or by a crash while a refresh or its save is under way.
`QuietAgreement`: with no request under way the file holds that pair.
Two goroutines show every race of a pair of requests; three pairs give
a rotation while an earlier one is still on its way to disk or host; the clock
reaches the expiry of the first pair and the refresh lead of the second. Section 5 proves
these five for any number of requests and pairs, and says which fail without the assumptions.

Two assumptions are made there, each a constant:

* `OnTime`: the host asks for a refresh when its own copy is due, as the plugin tells
  it by `NextRefreshAfter` (`auth.go:353-377`, `token.go:224-231`).
* `Punctual`: no refresh and save outlasts a tick of the clock. A tick is the scale of
  the ten-minute lead; `requestTimeout` bounds each call to minutes.

**credential_answers.** With two revocations, saves that fail, answers without an access token or
without a new refresh token, and an account id learnt from a grant, `FlightSpec` says that the refreshes
of the requests are exactly those of RefreshFlight: the abstract specification, fairness
included, with the kind of an outcome for the outcome. `EveryRequestAnswered` says that every
request returns, be it with a 401: with two revocations the token a request
takes from another's flight may be newer and revoked as well. These faults are here and not in the first run because the pair's guarantees fail
under some of them: see `revocation`, and a refresh token that is not rotated lets a request with an
old copy be granted a pair of its own, so that two current pairs exist side by side. Section 5 has the
list. Two pairs are enough for what is checked here, a flight that succeeds and one that finds its token
spent.

**auth_file.** `HostFieldsKept`, `ShownNameKept`, `TokensNeverRollBack` and
`SurfacesAgree` relate a document to what replaces it; `OneFilePerAccount` says in which ways an
account comes by a second file or a deleted one comes back: a login, the merge, and a request whose
file was deleted under it (`management.go:264`). `ShownNameKept` lets a name that no user has given
change as it changes at Cline, and nothing else. A rename's save may fail. Three assumptions are made,
each a constant:

* `Orderly`: nobody renames, annotates, deletes or replaces an account while a request is refreshing
  it, and the host edits no file between a read and its save. The code has nothing that enforces this order. With
  `Orderly = FALSE` TLC finds `HostFieldsKept`, `ShownNameKept` and `TokensNeverRollBack` violated
  within a few steps, as a writer puts back the document it has read. `OneFilePerAccount` and `SurfacesAgree` do not need it.
* `Punctual`: a pair is saved before the next one is granted. The entry of a flight is deleted
  before its callers apply and persist (`token.go:310-315`), and nothing in the code makes the next grant wait for
  them; a pair is due after most of an hour, so only a 401 asks sooner. With `Punctual = FALSE` TLC finds
  `TokensNeverRollBack` violated, and it alone: the earlier caller saves its older pair last.
* `Abreast`: the host has what a rename or a login saved before it starts the next request. With
  `Abreast = FALSE` TLC finds `ShownNameKept` violated, and it alone: a request that parses the older
  copy persists the name the user has just replaced. What a refresh has saved the host may have or not.

Within these, requests overlap as they like. Two of them show a flight that is shared and a request that begins beside another's
save; three pairs give a rotation that overtakes both. The run has executions and refreshes of the host's,
which know their path; `re_enabled` shows what the merge does without one, and `rename_lost`
what happens when the save of a pair fails. Deadlock is not checked: the last file may be deleted when
no more pairs can be issued.

**login.** `OneCredentialPerApproval`, `OkMeansSaved` and `LoginStaysOpen` are
safety; `EveryStateGoes` and `ApprovalIsAnswered` are liveness: the sweeper leaves no
expired entry, and a user who approves gets a credential or is told of a failure, even
if an answer is lost or registration or the save fails. Logins do not interact, so one is
enough; two panels and the host's page are the callers that differ.

**models.** One page of the panel edits and refreshes, another hides a model, and the host asks for the common
list and for one account's; pulls fail, entries expire, upstream retires one model and
publishes another, and the configuration is loaded anew. Edits overlap as they like, and the code has
nothing against that: an edit loads the overlay, changes its copy and stores the whole of it, with a pull in
between if it adds (`management.go:339-364`), so a later store may undo an earlier one. `HiddenStaysHidden` says when
hidden models come back: by an edit that names what hides them, an overlay or a configuration put in its place, or an edit that loaded the overlay
before they were hidden. The promise a careful user would want, that edits are made one after another, is not
the code's. `HiddenNeverListed`: what is
hidden both when a list is asked for and when it is answered is not in it. `PanelShowsAll`,
`MoveLands` and `RefreshTellsTheTruth` concern what the panel shows after edits and
forced pulls. `ListedOnce` says when a list names a model twice, and upstream does repeat one here (`q` in its
second edition): only if the user had added what upstream publishes. The configurations are an empty list, one
that repeats a prefix and has an entry that is not text and a star in the wrong place, and one that
does not parse. A repeated entry is taken as it is (`model_config.go:36-40`), so that
the overlay is one that `storeModelOverlay` refuses until an edit removes it: it
hides as it should. Two changes of the overlay are enough for a replacement and a move,
a family hidden by the configuration and a member restored, or an edit of each page. One account is
pulled; a second one multiplies the states by ten and adds only more pulls of
the same kind.

**stream.** `StreamTellsTheTruth` relates what a closed stream was given to what upstream
said and how its answer ended; `AnswerIsWhole` does so for answers that are given at once.
`RetryIsSafe` is the comment's reason why a pump may use `do` (`stream.go:85-86`).
`ContractKept` is the refinement: each stream, seen through `stream`, `inbox` and whether an error
arrived, behaves as HostStream allows, its end under fairness included. `EveryRequestEnds` is
liveness. One request of any kind beside a stream shows what they share, which is
`streamCloseOnce` alone; answers of two frames let one break off before, between and
after frames, and a skipped line may follow a skipped line, so that noise goes on for ever. Assumptions:

* `FreshIds`: the host never uses a stream id twice. With `FreshIds = FALSE` TLC finds
  `ContractKept` violated, since the `sync.Once` of an id is used up for good, so a second stream under it
  is never closed; and `StreamTellsTheTruth`, since a pump whose client left may still emit, into
  the stream that was opened under its id after that.
* The host refuses an emit only for a stream it has given up, and a close never. The code
  takes any refusal for the former and ignores what a close returns.
* Where a line ends up is decided by what the code looks at: a frame, or one of the things it skips.

Deadlock is not checked, since all requests may be served.

Type invariants (`TypeOK`) also say that an overlay's deny list is well formed, that its order and
additions repeat nothing, that a merged catalog repeats nothing, and that expiries stay in range.

### What the code does not do

Each of these runs checks one property that a comment of the code states. TLC shows a
behaviour in which the code breaks it.

* **revocation** (`RevocationIsSurvived`, `token.go:422`). Two requests hold the same
  access token when Cline revokes it. Both get a 401. The first refreshes and is
  served. The second's 401 arrives after that flight has landed; its forced refresh
  presents its own copy's refresh token, which the first has spent. Cline refuses it for good, `prepare`
  defers the refusal, since the pair is not due (`token.go:164-171`), and the client is answered
  upstream's own 401 (`token.go:427-428`), while the cache holds a pair Cline accepts.
* **usable_token** (`UsableTokenServes`, `token.go:167`). `prepare` refreshes when
  `needsRefresh` holds, and if that fails asks `needsRefresh` again whether the token
  can still be used. It cannot have changed its mind; a valid token inside the lead is
  refused with 503.
* **re_enabled** (`HostFieldsKept`, `models.go:339`). The catalog's merge refreshes an
  account without its attributes, so without the path of its file; `persist` then writes
  a document from scratch, enabled and without its note.
* **rename_lost** (`ShownNameKept`, `token.go:90`). After a save that failed, the cached
  credential outranks the file, its old nickname included. A name the user
  gives the account after that, or a note the host stores, which counts as one, is overwritten by the next refresh.
* **failed_pull** (`FailedPullKeepsCatalog`, `models.go:366`). A pull that fails looks
  for a previous catalog, finds none, and stores the built-in list over the one another
  pull has stored in the meantime.

Two sentences of the repository's README are not true of the code and need no
model: the overlay does not "persist in plugin config" (line 71; it lives in memory and
a restart forgets it), and a forced refresh whose host call to list the auth files
fails reports no error (lines 21-22; `models.go:150-153` drops it).

## 4. Fairness

* RefreshFlight and Credential: weak fairness of each goroutine's steps once it has been
  called. A goroutine holds a mutex for a few instructions, `wg.Wait` ends when the
  leader's `Done` runs, and every HTTP call has `requestTimeout`. Nothing is assumed
  of calls arriving, of Cline's verdicts, of the clock or of the host.
* Login: weak fairness of the polls' steps and of the sweeper's ticker; strong fairness of
  a panel's polling as long as it is told "pending" and its login is open, which is
  what the panel's script does. The user and WorkOS owe nothing.
* Stream: weak fairness of each request's goroutine and of the timeout. `sharedHTTPClient`
  sets `http.Client.Timeout` (`main.go:301`), which runs until the body is read, so a pump that is
  blocked in `Scan` comes back. Nothing is assumed of upstream, which may say comments for
  ever or nothing, nor of the host and its clients. HostStream's fairness, that a
  stream is failed or closed in the end, is what `ContractKept` derives from it.
* AuthFile and ModelCatalog: safety only, so none.

## 5. The proofs

TLC checks one small instance; the theorems hold for every value of the constants that the
named assumptions of the module allow: any number of goroutines, keys, logins, panels, streams,
grants and restarts, and answers, catalogs and overlays of any length. The bounds that keep TLC's state space finite are
arbitrary constants there. A theorem that needs more than these assumptions says so in its
`ASSUME`. Each inductive invariant below was first checked by TLC on the instance of the component's run.

| Module | Theorems | Assumptions on the constants |
|---|---|---|
| RefreshFlightProofs | `TypeCorrect`, `SingleFlight`, `RegistrationsAreLive`, `WaitersAwaited`, `AnswerShared` | `NoneAssumption` |
| CredentialProofs | `TypeCorrect`, `OneGrantAtATime`, `FlightImplemented`, `NobodyWaitsForLess`, `OlderOnlyByDiscovery` | `BoundsAssumption`, `DataAssumption` |
| CredentialStoreProofs | `NewPairIsLive`, `NewestIsCached`, `LivePairIsCached`, `LivePairIsSaved`, `QuietAfterwards`, `StartsFresh`, `LoginIsKept` | the same, and `Timely` |
| AuthFileProofs | `TypeCorrect`, `LabelsAgree`, `NeverRollsBack`, `HostFieldsStay`, `NoSecondFile`, `NameStays` | `NamesAssumption`, `KindsAssumption`, `FlagsAssumption`, `BoundsAssumption`, `NoneAssumption` |
| LoginProofs | `TypeCorrect`, `OneCredential`, `OkIsTrue`, `StaysOpen` | `PanelsAssumption` |
| StreamProofs | `TypeCorrect`, `WholeAnswers`, `TruthTold`, `RetriesAreSafe`, `ContractSafe` | `StreamAssumption` |
| ModelCatalogProofs | `TypeCorrect`, `PanelIsComplete`, `NamedOnce`, `MovesLand`, `RefreshIsHonest`, `HiddenIsNotListed`, `HiddenIsKept` | `EntriesAssumption`, `CatalogAssumption` |

### The single flight (RefreshFlightProofs)

`OneGrantPerKey` is not inductive: it says nothing of `credentialCalls`, so a state in
which a leader's entry is missing satisfies it, and in that state a second leader may register. The
invariant is

    FlightInv == TypeOK /\ Registered /\ NoOrphanRegistration
                 /\ WaitersAreAwaited /\ AnswerKnown

`Registered` says that a goroutine that leads is the one registered for its key; two leaders
of one key would be two values of one function at one point, which gives
`OneGrantPerKey` at once. `NoOrphanRegistration` is the converse. `WaitersAreAwaited`
and `AnswerKnown` carry what a waiter needs: the leader it joined is still to release it,
and knows its answer by then. `InitFlightInv`, `TypeStep` and `FlightStep` are the induction,
one step per action; the action property `AnswerShared` follows from the invariant before
the step.

### The credential (CredentialProofs)

    CredInv == TypeOK /\ Clock /\ (\A p \in Procs : InFlight(p)) /\ Single!FlightInv

`Single` is RefreshFlightProofs, instantiated, so its lemmas are used as they stand: `FlightMoves`
shows that a step of a request is a step of the flight or leaves it alone, and a restart puts the flight
back to its initial state. `InFlight` ties the stage of a goroutine to where its request is; `Clock`
bounds the clock by the grants that moved it, which bounds the expiries.

* `OneGrantAtATime` carries `OneGrantPerKey` over to every instance of Credential, restarts and
  crashes included.
* `FlightImplemented` is the safety half of `FlightSpec`: initial states map to initial states, and each
  step to a step or a stutter. It assumes `MaxRestarts = 0`, as a restart begins the flight
  anew, which RefreshFlight has no step for.
* `OlderOnlyByDiscovery` is `OnlyDiscoveryGoesBack`. It assumes that either every grant brings a new refresh
  token, as the comment at `token.go:13-15` says of Cline, or no grant teaches the
  plugin an account id. The invariant for it is `Onward`: who waits, waits for nothing older than what it
  has. `Onward` is inductive only together with what is known of a leader that is about to
  unregister, and that differs by the hypothesis. Without learnt ids everything goes by one key, so the one leader
  brings the last pair there is (`OneName`). With them and with rotation, a pair that came by the id
  is newer than everything that goes by the email (`TwoNames`).

  Both at once break it. TLC finds a behaviour of 35 states with three requests: a grant leaves the
  refresh token as it is; a flight under the id is granted pair 3; a request with an older copy
  that does not know the id runs a second flight under the email, presents the same refresh
  token, is granted pair 4 and learns the id; a third request adopts pair 4, gets a 401, joins the
  first flight, which has not returned yet, and falls back on pair 3.

### Where the newest pair is kept (CredentialStoreProofs)

Nothing in the code orders two flights of one account. A request whose flight is over
and a later flight's leader may write cache and file in either order, and that the newest pair is written
last is a matter of time. The theorems state the conditions in one definition:

    Timely == /\ Punctual /\ OnTime /\ RefreshLead < FallbackLife
              /\ {"revoke", "noRotate", "learnsId"} \intersect Faults = {}
              /\ \A doc \in InitialDocs : doc.at = 1 /\ doc.rt = 1

The lead is ten minutes and the fallback life 55 (`token.go:33`, `parseExpiryMillis`). The
instance of credential_pair satisfies `Timely`, and `"saveFail" \notin Faults` besides. A timely run
still has every other fault: 503, failing connections, lost answers, answers without an expiry or
a token, crashes and restarts.

    Timed  == Whole /\ Distinct /\ \A p \in Procs : Due(p) /\ Young(p)
    Placed == Cached /\ Empty /\ \A p \in Procs : Cleared(p) /\ (Filling(p) => Filled)
    OnDisk == \A X \in Held : X.rt = live => Lands

The argument: a pair that was just granted is not due, and until whoever has it has stored
it, the clock stands still, so nobody asks for another (`Young`; `Due` says that each request in a flight
had a due pair). Pairs are told apart by their refresh tokens, and later ones expire later (`Distinct`), so
`newCredential`'s comparison of expiries picks the newest. What is written is then the
live pair each time, and where it is can be followed: cached, on its way to the leader that
caches it, or in the file while nothing is cached (`Placed`); in the file or on its way there (`OnDisk`).

`NewestIsCached` (`CacheHoldsNewest`) and `StartsFresh` (`FreshStart`) need `Timely` alone;
`QuietAfterwards` (`QuietAgreement`) and `LoginIsKept` (`LoginSurvives`) that no save fails, too.
The hypotheses are needed. On the instance of credential_pair, changed in one place at a time, TLC
finds violated:

| Change | Violated |
|---|---|
| `OnTime = FALSE`, `Punctual = FALSE`, or `"revoke"` or `"noRotate"` among the faults | all four |
| `"saveFail"` | `QuietAgreement`, `LoginSurvives` |
| `"learnsId"`, and an account without id | `FreshStart` |

The plainest of these failures is a revocation. A request leads a flight to pair 2, which is cached, and has
not come to `apply` yet. A second request takes pair 2 from the cache, Cline revokes its access token,
and the second request gets a 401, is granted pair 3 and caches it. Then the first one's `apply` puts
pair 2 over pair 3 in the cache, without looking at what is there (`token.go:186`); the saves may land in
that order as well. Once both requests are answered nobody has the refresh token that Cline accepts.

Learnt ids break `FreshStart` as a host copy without the id looks under the email's key, finds nothing and
presents a spent refresh token. For the three other properties the hypothesis is what the proof needs, since
a pair that learns its id on the way is no longer equal to the same pair without it. TLC finds no
violation of `LoginSurvives` and `QuietAgreement` when ids are learnt, answers get lost and the
process crashes (`MCCredentialPair.cfg` with `NamelessAccount` and these three faults, 1 014 370 states; and
with four pairs and a clock to 5, 2 088 151 states).

### The auth files (AuthFileProofs)

The properties are about single writes. None is inductive, since a write is right only because of what its
writer took with it before. "No merge" stands for `"merge" \notin Kinds`: every request knows its path.

| Theorem | Property | Hypotheses | Invariant |
|---|---|---|---|
| `LabelsAgree` | `SurfacesAgree` | none | `TypeInv`: a credential that is held, cached or with the host has Cline's name |
| `NoSecondFile` | `OneFilePerAccount` | none | `PathInv`: a goroutine's file is there, was deleted under it, or it is the merge's; the host has no copy of a file that is not there |
| `NeverRollsBack` | `TokensNeverRollBack` | `Orderly`, `Punctual` | `PairInv`: cache and files have nothing newer than the newest pair; whoever has yet to save has that one, and nobody else is at work beside a rename |
| `HostFieldsStay` | `HostFieldsKept` | `Orderly`, no merge | `FileInv`: an account has one file, and what was read of the host's fields is still in it |
| `NameStays` | `ShownNameKept` | `Orderly`, `Punctual`, `Abreast`, no merge, no failing save of a credential | `NameInv`: the nickname in hand is the one in the file, and so is the cache's and the host's where it counts |

`NeverRollsBack` covers the merge, and saves that fail, which auth_file does not run with. What TLC finds
without each of `Orderly`, `Punctual` and `Abreast` is in section 3; the runs re_enabled and rename_lost show that the other
hypotheses are needed.

### The device login (LoginProofs)

    LoginInv == TypeOK /\ OneCredentialPerApproval /\ RegistersAlone /\ DeletesWithCredential

A state in which two polls are about to register one code's tokens satisfies
`OneCredentialPerApproval` and leads to two credentials. `RegistersAlone` excludes it, as WorkOS redeems a
code once; `DeletesWithCredential` says that whoever removes an entry has its credential, which gives
`LoginStaysOpen`. `OkMeansSaved` is inductive beside the types. Nothing is assumed of faults.

### The streams (StreamProofs)

`ReadInv` counts what a request has read against what the model said: the frames in `body`
are the ones that follow those it has (`Unread`, `InOrder`), and the retry comes after a first attempt
that brought nothing (`Attempts`). It gives `WholeAnswers` (`AnswerIsWhole`) with no hypothesis.
`StreamInv` adds what a pump knows of its stream: as long as it reads, the
inbox has what it has emitted and nothing was told, and no other pump has the stream. From it follow
`TruthTold` (`StreamTellsTheTruth`), `RetriesAreSafe` (`RetryIsSafe`) and
`ContractSafe`, the safety half of `ContractKept`. They assume `FreshIds`, without which
they are false (section 3): `streamCloseOnce` is never cleared (`stream.go:52-61`).

### Lists (ModelOverlayProofs)

What a loop makes of a list is shown by induction over the list. The theorems of the library that do so take an
operator as a parameter, which the provers cannot instantiate; the lemmas here take a set instead. `Induction` says that a set of
numbers that has 0 and the successor of each of its members has all of them, from the least number outside
it (`NatLessThanWellFounded` of the library). `Recursion` says that a recursive definition whose step is
a function has a solution. With these, `PickedUpTo` and `FlattenedUpTo` show that `picked` and `FlattenSeq` are
what their recursions say, and everything else follows:

* `PickedFrom`: what is picked comes from increasing positions, and from each that was asked for.
  `PickedItems`, `WithoutItems` and `AppendNewItems` say which items come out, and that nothing is repeated.
* `FlattenedItems`, `FlattenedOnce` and `ConcatRepeats`: the same for lists put one after another.
* `MoveStringPlaces`: after `moveString`, the value is in the list, and what it was dropped on does not come before it.
* `ApplyItems`, `ApplyRepeats`, `AdminItems`, `OrderedFirst`: what `applyModelOverlay` and
  `applyModelOverlayForAdmin` show, what they repeat, and in which order.

### The catalog (ModelCatalogProofs)

    CatalogInv == TypeOK /\ \A p \in Procs : InHand(p)
    InHand(p)  == Asked(p) /\ Rested(p) /\ Loaded(p) /\ Shown(p) /\ Fetched(p) /\ Moved(p)

The properties speak of a list that is answered, which says nothing of the steps before: a state in which
a pull holds an old edition, say, satisfies `RefreshTellsTheTruth` until the list is made. `InHand` says what a call
holds at each stage. `Shown`: a list is what the overlay makes of what was merged. `Fetched`: what a forced call
has pulled, upstream has published since the call began. `Moved`: from the store of a move to its answer, the
loaded overlay has the model and nothing it was moved before comes earlier. `Asked`, `Rested`
and `Loaded` tie the request, the merge and the overlay to the stage. `CatalogInv` needs no more than the
assumptions on the constants, and edits may overlap. Seven theorems follow from it, `HiddenIsNotListed` and
`HiddenIsKept` as action properties; none has a hypothesis of its own.

`HiddenIsKept` is `HiddenStaysHidden`. Only a store or the configuration changes the overlay (`WhatEdits`), and a store makes it the edit of
what was loaded; `EditedItems` says what each edit leaves of a deny list: all but what it names.

`CatalogAssumption` narrows what the panel sends: an action names an entry, and "add" a model id. The code takes any
text; "add" would also take a prefix or a malformed entry, and list a model of that name.

### What TLC alone has checked

* Liveness, and the fairness halves of the refinements: `EveryCallReturns`, `EveryRequestAnswered`,
  `FlightSpec`'s fairness, `EveryStateGoes`, `ApprovalIsAnswered`, `EveryRequestEnds`, and that a stream
  ends (`ContractKept`). These rest on fairness and `ENABLED`, which the prover has no means for.
* `LoginSurvives` and `QuietAgreement` when account ids are learnt, on the instances named above. The
  steps of `FlightSpec` across a restart are neither checked nor proved; `OneGrantAtATime` covers them.

## 6. Not modelled

* Payloads, response shapes, error texts, headers, the wording of plan and account
  displays (`executor.go`, `account.go`), the SSE framing of a chunk: data no property tells apart. So
  are the statuses of errors; a collected answer that breaks off is reported with status 200 beside its error
  (`executor.go:214`), and what the host does with that is not known here.
* The C ABI and the dispatch (`main.go`): buffers and a switch without state.
* The two encodings in which the host may send the configuration (`decodeConfigYAML`).
* A host that refuses an emit or a close for a stream it still serves, and panics, which the
  code does not recover from.
* Names, groups and the source label of models. An upstream catalog may repeat a model, which the
  list of one account passes on (`modelCatalogForAuth`); `ListedOnce` is about the merged lists.
* The panel's script, other than that it keeps polling a pending login.
* CPA, WorkOS and Cline, except for what the plugin sees of them; their actions are marked
  external in `PROJECT.json`.

## 7. Plan

Order so far: the single flight and its proof, the credential that composes it, the files it
is saved to, the login that creates them, the catalog and its configuration, the streams
and their contract; then the proofs, the catalog's and its lists' last. Every safety invariant and action property of a
passing run is proved now, under the hypotheses of section 5. What comes next:

1. **Abstract specification of the credential**: a login that is either held or lost, with
   rotations; `Credential` checked and, for timely runs, proved to implement it, with `disk`, `cache` and
   requests mapped to one current pair. `Placed` and `OnDisk` are the invariants for it.
2. **Learnt account ids**: `NewestIsCached` and `LoginIsKept` with pairs compared up to the id, so
   that the hypothesis on learnt ids goes.

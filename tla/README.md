# Ton Teleport BTC periphery: TLA+ models and proofs

The periphery is what runs around the Ton Teleport contracts: *oracles*, one
per TON validator, that hold shares of a Bitcoin key; an *indexer* that mints
and burns; a *relayer* that feeds Bitcoin blocks to the light client contract;
and *metrics*. The contracts are not in the repository. Here they are an
environment that does whatever the exit codes and getters the code handles
allow, and the map marks those definitions external.

## 1. Inventory

| part | source | state it keeps | operations |
| --- | --- | --- | --- |
| DKG fetcher | `oracle/internal/dkg/dkg_fetcher.go` | the record it is handing over | tick: `GetDkg`, blocking send on an unbuffered channel |
| DKG executor | `dkg/dkg_executor.go`, `dkg_crypto.go` | artifacts r1, r2, r3; Until; session signer | `Execute`: clean up, new attempt, rounds 1 to 3, claims |
| StartDKG ticker | `dkg/dkg_service.go` | none | `SendStartDKG` |
| session signer, validator | `oracle/internal/validator` | none | load or create the session key of an Until; find the own index |
| keystore | `oracle/internal/keystore` | directories `secrets/`, `sessions/`, `temp/` | load, store, cleanup |
| signing service | `oracle/internal/signing/service.go` | cached pegout: ID, ExpiredAt, nonces, commitments; `temp/` | tick: commit, sign, aggregate, claim, reset |
| helpers | `oracle/internal/helpers.go` | none | parse packages, thresholds, index conversion |
| coordinator client | `lib/pkg/ton/coordinator` | connected signer | getters, sends with a timeout |
| TON client | `lib/pkg/ton/tonclient` | position in the transaction chain | fetch, subscribe, collect raw events |
| watchdog | `lib/pkg/watchdog` | tasks and their last heartbeat | watch, heartbeat, scan, callback |
| mint service, batch sender | `indexer/internal/mintservice` | mint rows; queue of messages | unconfirmed, pending and refund cycles; batches |
| event service | `indexer/internal/events`, `tontx`, `pegout` | rows per event, cursor per contract | dispatch, write |
| pegout manager | `indexer/internal/pegoutmanager` | pegout rows | signing, signed, broadcast |
| GraphQL, HTTP | `indexer/internal/gql`, `httpservice` | none of their own | queries, `CreatePegin` |
| block and pegout relayers | `relayer/internal` | `isRelaying` | relay candidate blocks |
| alerts | `metrics/internal/alerts` | enforced states, counters | `CheckAll` |
| FROST | `frost` | pointers to secrets | a C interface to the Rust library |

How they interact. The fetcher hands a record to the executor through an
unbuffered channel. Executor, StartDKG ticker and signing service call the
Coordinator by getters and by external messages and wait for the transaction at
most the API timeout; a message may be applied after that. Executor and signing
service share only the keystore: the DKG leaves session keys and secrets there,
signing reads them. The indexer's services share the database. Blocks, DKG
records and pegout records are read at one moment and acted on at another.

What is hard, and what makes each part correct:

* **DKG.** Execute acts on an old record while late messages of its own are
  under way; a restart wipes the artifacts. Correct: what the contract records
  of an oracle is backed by what the oracle has on disk; artifacts of two
  attempts never mix; nobody honest is blamed; a round does not hang.
* **Signing.** A pegout may expire, be reset and come back with another
  ExpiredAt. Correct: a nonce answers for one message only; signatures on record
  verify; an expired pegout is reset.
* **Keystore.** Files are written in place. Correct: a load returns what a
  completed store wrote, or nothing.
* **Mints, events, pegouts.** Several writers per row, at-least-once sends.
  Correct: a final status is final; an event's row appears once.
* **Relayer, watchdog, alerts.** Correct: candidates connect to the light
  client's tip; a callback does not wait for its own lock; an enforced state
  survives a check that read it earlier.

`PROJECT.json` lists the hazards, each at its line and with the properties that
cover it.

## 2. Plan

A module is finished with its run and, where planned, its theorems before the
next one starts.

| module | what it models | state |
| --- | --- | --- |
| `DkgCeremony`, `OracleDkg`, `OracleDkg_proofs` | the ceremony, abstract and as the oracles run it; refinement | section 3 |
| `OracleSigning`, `OracleSigning_proofs` | signing | section 4 |
| `Keystore`, `Keystore_proofs` | the keystore, file by file | section 5 |
| `IndexerMint`, `IndexerMint_proofs` | mint rows and their writers | section 6 |
| `EventLedger`, `IndexerEvents`, `IndexerEvents_proofs` | events from the chain to the database; refinement | section 7 |
| `PegoutManager`, `MetricsPegouts`, `Metrics_proofs` | pegout rows; composed with the alerts that read them | section 8 |
| `Relayer`, `Relayer_proofs` | block and pegout relayers | section 9 |
| `Watchdog`, `Watchdog_proofs` | the watchdog | section 10 |
| `MetricsFetchers`, `Metrics_proofs` | fetchers, database writer, shutdown | section 11 |

Runs stay small, and one run per question: its invariants and its liveness
properties are checked on one instance. An invariant named `...Inv` is the
conjunction of the module's type invariant with the named parts below it.
Recursion is written with folds or recursive functions throughout.

## 3. OracleDkg

One module for the ceremony as the oracles run it: all oracles, the contract's
record and the messages between them.

| variable | code |
| --- | --- |
| `dkg` | the record `GetDkg` returns (`parseDGKSlice`) |
| `net` | external messages sent and neither applied nor dropped |
| `snap[i]` | the record fetcher i holds in its blocked send |
| `call[i]` | the send executor i waits for, and whom it would blame |
| `art[i]`, `until[i]`, `signer[i]` | the fields of `Executor` |
| `sessions[i]`, `secrets[i]` | the keystore's directories |
| `gen[i]` | number of random values drawn: every draw is a new number |
| `lost[i]`, `misread[i]`, `crashes` | history: attempts whose round one secrets a restart took; failed loads of a stored session key, per Until; restarts |

`Fetch` is a tick of the fetcher. The `Execute...` actions are the ways through
`Execute`: each receives the snapshot, starts a new attempt if Until is later
(`Enter`), and ends with one send or none. While the send is under way the
executor is blocked (`call`), and the fetcher takes its next record: that is
the staleness of the real system, one record and one call deep.
`ReturnDifferentPubkey` is the answer 152, after which the executor blames from
the old mask. `Return` is every other answer and the timeout, which leaves the
message in `net`. `Crash` is a restart. `StartDKG`, `Deliver`, `Expire` and
`FaultySend` belong to the contract, the network and the faulty oracles.

Cryptography is abstracted to provenance. A round one package is a number. A
round two package says which X25519 key encrypted it, which secret its shares
come from and which keys it was encrypted to. A group key is the function from
index to round one package it was computed from. So a share can be decrypted
and verified exactly when these match.

### Properties

* `RecordedKeyIsStored`: a recorded public key package has its secret on disk.
* `SessionKeyIsKept`: the recorded session key is the one on disk, unless a load of
  that very file failed (`LoadSession`: any read error is nil).
* `BlameIsFounded`: an honest oracle blames an honest one only if one of the two
  lost its round one secrets in this attempt.
* `ArtifactsAreNested`: r3 without r2, or r2 without r1, never occurs; executeR3
  reads r1 without a check.
* `PublishedKeyIsOfRecord`: a published key is made of exactly the recorded
  packages, with all shares verified.
* `DkgInv`: `TypeOK` and `PublishedKeyIsOfRecord`.
* `CeremonySpec`: the module implements `DkgCeremony`, which knows neither messages
  nor snapshots, artifacts or restarts. In each attempt every member contributes
  once, deals once when all have contributed and publishes once when all have
  dealt; an honest one publishes the key of all contributions, from shares that
  fit them; no two keys are published; and secrets are added, never dropped. The
  abstract state is the record's packages and keys, what the record says of each
  member's shares (`Shares`), and the `secrets/` directories. `Reliable` are the
  oracles that must hold the secret before they publish: the honest ones if
  stores cannot fail, else nobody (the finding below).
* `LastAttemptFinishes`, `CulpritIsClaimed`: liveness, below.

### Runs

| run | instance | shows |
| --- | --- | --- |
| `dkg_live` | 2 honest oracles, 1 attempt, 1 restart, fair | `RecordedKeyIsStored`, `BlameIsFounded`, `LastAttemptFinishes` |
| `dkg_claims` | 2 oracles, one faulty, 2 attempts, 1 restart, stores may fail, one failed load per session key, fair | `DkgInv`, `SessionKeyIsKept`, `CeremonySpec`, `CulpritIsClaimed` |
| `dkg_store` | 2 oracles, stores may fail | violates `RecordedKeyIsStored`: the finding |

The bounds. Two attempts are needed for artifacts and snapshots of an earlier
one; a third adds nothing new, as `Enter` forgets all but the latest Until.
One restart is enough to lose secrets at any point while late messages are under
way, and two honest oracles to disagree. The oracle that may restart is fixed:
the oracles differ only in who is blamed first, and `BlameIsFounded` is violated
in this instance as soon as `lost` is left out of it, so the restart does reach
the blame. `Expire` covers loss, refusal and the end of a TTL at any time.
`ArtifactsAreNested` is proved and part of no run.

`RecordedKeyIsStored` fails when `StoreSecret` may fail (`dkg_store`): the
artifact is set before the store, so the next tick takes it for done and sends
the package. `dkg_live` and the theorem hold with `StoreMayFail = FALSE`. As
`dkg_claims` lets stores fail, `Reliable` is empty there; that a secret is stored
before its key is published is, for reliable oracles, part of the theorem
`CeremonyIsKept`.

Observed, and the exception that `SessionKeyIsKept` names: `FileKeystore.load` answers
every error of a read with nil (keystore.go:62), so one failed read after a restart
makes `NewSessionSigner` draw a second key and store it over the one the contract
has on record, although its comment says that it looks at the keystore "Just in case,
we have already created a session" (session_signer.go:18). Without the exception TLC
refutes the property. `dkg_claims` includes such loads, so that nothing else parts
the two keys.

`WrongPackage` counts a wrong public key only from an index below `MaxSigners`:
`claimCulpritByR3Mask` loops over indices up to `MaxSigners`, which counts the
remaining validators. After an eviction an index above it is never blamed; the
property says what the code does reach, and the runs have no such index.
`LastAttemptFinishes` likewise excuses an attempt in which a restart took round one
secrets: the code hangs until the next attempt.

### Fairness

`Fetch` and `Return` are weakly fair: tickers keep firing and every call has a
timeout. `Execute` is strongly fair: the executor alternates between receiving
and waiting, and the key lookup it needs answers now and then. Delivery is
strongly fair per sender: a message that is sent again and again is applied
eventually; one that is refused never is. `ReturnDifferentPubkey` is strongly
fair: an answer that the executor gets again and again is not lost every time.
`StartDKG` is weakly fair, as every oracle's ticker repeats it. Crashes, losses,
store failures and faulty messages have no fairness.

### What is proved

`OracleDkg_proofs`, for every set of indices, every bound and every set of
faulty and restarting oracles:

* `TypeCorrect`: `TypeOK`. It is not inductive: `executeR3` writes into the round
  one artifact, so its proof carries `ArtifactsAreNested` along (`TypeInv`).
  Culprits are indices because a non-empty set of them has a lowest element
  (`LowestIdxIsMember`).
* `ArtifactsNested`: the other half of `TypeInv`.
* `SessionKeyKept`: `SessionKeyIsKept`, by `SessionInv`. The recorded key comes
  from a message, the message from the signer in memory, the signer from the
  keystore; an entry there is overwritten only after a load of it failed, which
  `misread` remembers; and the executor's Until never passes its snapshot's.
* `RecordedKeyStored`: `RecordedKeyIsStored`, by `StoredInv`, from
  `StoreMayFail = FALSE`. The recorded key comes from a message, the message from
  the artifact, and whoever sets the artifact stores the secret in that step.

* `PublishedKeyOfRecord`: `DkgInv`, by `RecordInv` and `KeyInv`. The first says what
  the contract's rounds guarantee of a record, and that a snapshot is what the record was earlier in its attempt, or is of an earlier
  attempt; the second follows the key from the artifacts through the message to
  the record, and that every round two package, wherever it is, was encrypted to
  the recorded round one packages.
* `HonestBlameIsFounded`: `BlameIsFounded`, by `OwnInv` and `BlameInv`. An oracle
  that has not lost its secrets in this attempt holds the artifacts that its
  recorded packages, and those under way, were made of; so nobody finds a wrong
  one. A claim that is sent late was founded when it was decided, and whom the
  answer 152 blames has published a key: of two honest ones, the same key.
* `CeremonyIsKept`: `CeremonySpec`, with no condition on the stores. One lemma per
  kind of message shows that what the contract records of it is a `Contribute`, a
  `Deal` or a `Publish`; a claim, and all an oracle does but storing a secret, is a
  stutter. When a key is published, `Consistent` says that all have contributed and
  dealt, `PublishedKeyIsOfRecord` of the next state what is published, and
  `StoredIfReliable` that its secret is held.

Assumptions on the constants are `DkgAssumption` and `NilAssumption` (nil and what
does not decode are not numbers, packages or records). The proofs have one step
per action; TLC confirmed the inductive invariants on the instances of the runs
first.

### Model-checked only

The two liveness properties, which are beyond the proof system.

### Not modelled of the DKG

The contract's own rules, other than what its exit codes and getters tell;
which validators it evicts and when (any choice with at least two signers).
Errors of the FROST library that name no culprit, and of the random source.
Torn files and failed reads of secrets (section 5 has both). The validator engine is an answer
or none. Index arithmetic (section 12). Shutdown.

## 4. OracleSigning

One module for the signing of pegouts: the ticker of every oracle, the record of
the pegout that is to be signed next, and the messages between them. The DKG it
signs with is finished and does not change.

| variable | code |
| --- | --- |
| `rec` | the pegout `GetUnsignedPegouts` returns, or none: mask, ExpiredAt, commitments, shares, signatures, claims |
| `pegouts`, `attempts`, `clock` | pegouts so far; values of ExpiredAt given out, in order; the latest that has passed |
| `net` | external messages sent that may still be accepted |
| `snap[i]` | the record oracle i's tick has read and works on |
| `call[i]` | `SendSignatures` under way, and whom `sendClaimBySignatureMask` would blame |
| `cache[i]` | `SignService.cachedPegout`: ID, ExpiredAt, nonces, commitments |
| `temp[i]` | the keystore's `temp/`: a share per pegout |
| `gen[i]` | number of nonces drawn: every draw is a new number |
| `used[i]`, `lost[i]`, `crashes` | history: shares computed; attempts in which a restart took the cache; restarts |

`Read` is the getter call of a tick, `Execute...` the rest of it: one action per
way through `ExecuteSign`, from the check of the mask over expiry and
`cachePegout` to one of `doCommit`, `doSign` and `doAggregate` and the message it
sends. Between the two, everybody else moves on. Sends other than
`SendSignatures` only log what they return, so their tick ends with the send.
After `SendSignatures` the tick waits: `Return` is any answer but 168, and the
timeout; `ReturnDifferentSignatures` is 168, and files the claim. `Crash` loses
all but `temp/`. `ExecuteStop` and `ExecuteNoSecret` are the early returns on
failed getters and loads; they are outside of `Execute`, which is fair.

The contract: `NewPegout` puts a pegout on the list with ExpiredAt zero, the
first commitment sets it (as the mock in `service_test.go` does), a reset or one
claim too many starts a new attempt with a mask from `Masks`, the last signature
takes the pegout off. `ZeroOnReset` lets a reset leave ExpiredAt at zero, so that
the next first commitment sets it again. A commitment beyond the threshold goes
to CommitmentsMaskOther. The thresholds for commitments, shares and signatures
are taken to be `CalcMinSigners` of the number of oracles.

A message may be applied at any time after it was sent, once per copy that the
ticks send, or never. `Live` prunes messages that can never be accepted again
(another pegout, an earlier ExpiredAt); resets carry no timestamp and stay.

Data. A pegout has one input. A nonce is a fresh number of its oracle, and the
commitment to it is that number. A share records the nonce, the pegout and the
commitments it was computed with, a signature the commitments it was aggregated
over. So FROST's checks are equations: a share fits a record (`FittingShare`) or
its sender is found out. Faulty oracles store commitments, shares and signatures
that are right, do not decode, or do not fit; they send no claims and no resets.

### Properties

* `NonceUsedOnce`: two shares with the same nonce are the same share, in whatever
  attempts. Resets and restarts threaten it: `cachePegout` decides by ID and
  ExpiredAt alone whether nonces are dropped.
* `ShareIsOfRecord`: the recorded share of an honest oracle fits the recorded
  commitments, never an earlier attempt's that `temp/` still held.
* `HonestIsNotBlamed`: no honest oracle is blamed by an honest one, although the
  culprit of code 168 is taken from a mask read earlier.
* `SignedIsValid`: a pegout leaves the list with a signature that verifies.
* `PegoutsAreSigned`, `WrongPieceIsClaimed`: liveness, below.

### Runs

| run | instance | shows |
| --- | --- | --- |
| `signing_live` | 2 oracles, 1 pegout, 2 attempts, 1 restart, fair | `NonceUsedOnce`, `ShareIsOfRecord`, `PegoutsAreSigned` |
| `signing_claims` | 3 oracles, one faulty, 1 pegout, 1 attempt, stores may fail, ExpiredAt may be zero after a reset, fair | `HonestIsNotBlamed`, `SignedIsValid`, `WrongPieceIsClaimed` |

The bounds. Two attempts make nonces, shares and messages of an earlier one. Two
oracles are the smallest that sign; the third makes a pair of honest ones beside
a faulty one, and a mask that leaves it out. Deadlines and new attempts stop at
the last attempt, so that a run ends there; the liveness properties speak of the
last attempt. What the runs do not reach, shares across two pegouts and, in
`signing_claims`, messages of an earlier attempt among them, is covered by the
theorems (`HonestNeverBlamed`, `SignedPegoutsAreValid`).

A note on `temp/`. `oracle/README.md` (line 147) says that it holds what signing
keeps between rounds, nonces and commitments among it. The code keeps these in
memory only and stores just the shares (service.go:453). An oracle that is
restarted between its commitment and its share cannot sign in that attempt:
`SignInput` has no nonces, and the attempt has to expire. `PegoutsAreSigned` says
what remains true: the pegout is signed, unless that happens in the last
attempt.

### Fairness

`Read`, `Return`, `NewPegout` and `TimePasses` are weakly fair: tickers fire,
calls time out, deadlines pass. `Execute` is strongly fair, as a tick may be
stopped by a failed getter any number of times but not forever, and so are
delivery per sender and the answer 168: ticks repeat the message. Restarts,
failed stores and faulty messages have no fairness.

### What is proved

`OracleSigning_proofs`, for every set of oracles, every choice of faulty and
restarted ones, every set of masks and every bound:

* `TypeCorrect`: `TypeOK`. The one hard part is the bit that
  `sendClaimBySignatureMask` finds: a non-empty finite set of indices has a
  highest element (`HighestIdxIsMember`).
* `NoncesUsedOnce`: `NonceUsedOnce`, by `AttemptInv` and `NonceInv`.
* `SharesAreOfRecord`: `ShareIsOfRecord`, by `AttemptInv` and `ShareInv`.
* `HonestNeverBlamed`: `HonestIsNotBlamed`, and `SignedPegoutsAreValid`:
  `SignedIsValid`, both by `SigningInv`: all of the above with `PiecesInv`, `SigInv`
  and `BlameInv`.

`AttemptInv` says what a value of ExpiredAt stands for: it is given out once, a
record has enough commitments only after it got one, and from then on its
commitments are settled, so that a record read long ago agrees with the present
one if the ExpiredAt agree. `NonceInv` adds that nonces are drawn in order and
that, while used nonces are still held, the cached ExpiredAt is not zero and any
record of that attempt has the commitments of the share: the next share with
these nonces can only be the same. `ShareInv` says the same of the shares under
way and in `temp/`. None of the properties is inductive without them. Every step
is the contract's, a tick's or a quiet one (`Steps`), and each invariant has one
lemma for each kind. Assumptions: `SigningAssumption` and `NilAssumption`. TLC
confirmed the invariants on the instances of the runs first.

`PiecesInv` says that what honest oracles have on record decodes and fits, also in
a record read earlier. `SigInv` says that the recorded signature is the one over
the recorded commitments as soon as one honest oracle has signed, that whoever
had signed in a record read earlier has signed still, and that signatures under
way are of no later attempt than their sender works on. `BlameInv` is about the
answer 168: whom it would blame had signed in the attempt the refused signature
was for, so of two honest oracles both signed the same value, and the contract
has no reason to refuse. The signature that completes a pegout is valid because
the faulty oracles are fewer than the threshold: one honest oracle is among the
signers.

The proof shows what the code relies on and does not check: that the contract
never gives the same ExpiredAt twice to a pegout, and sets it before there are
enough commitments. With ExpiredAt in seconds both hold as long as an attempt
lasts longer than one.

### Model-checked only

The two liveness properties.

### Not modelled of signing

A DKG that changes between `GetPrevDKG` and `GetUnsignedPegouts`, and epochs
altogether. Pegouts of several inputs and taproot tweaks. Commitments of the
wrong length are modelled but never claimed, as in the code: `SignInput` names no
culprit for them, so `WrongPieceIsClaimed` leaves them out. The claim threshold
of the contract is any. Shutdown.

## 5. Keystore

`OracleDkg` and `OracleSigning` take a store for one step. `Keystore` opens it up:
every operation is the sequence of file system calls that `keystore.go` makes,
with the process or a call failing between any two.

| variable | code |
| --- | --- |
| `data[f]`, `strict[f]`, `temp` | the files of `sessions/`, `secrets/`, `temp/`, whether their mode is owner-only, and whether `temp/` is there |
| `op[u]`, `holder` | what the DKG executor and the signing service are calling, and who holds the mutex |
| `handed`, `stored`, `spoilt`, `loose` | history: session keys given to either user; last completed store; files hit by a fault or crash; files whose mode was changed |

`Load` is one read: whatever its error, the answer is nil (`LoadFails`).
Both users load session files: the signing service reads the key of the previous
DKG (signing/service.go:201) at any moment of the executor's calls. `Loaded` goes on
as the two do: without a key the signing service gives up, while `NewSessionSigner`
draws a new one, which is stored. `Stat`, `Remove`, `Open`, `Write` are `WriteFile`; between `Open` and
`Write` the file is torn. `BeginCleanup`, `RemoveAll`, `CreateTemp` are `Cleanup`.

`keystore_files` (4 files, 3 values, one fault, one changed mode, one crash):
`FilesInv` (types; secrets are written only into restricted files; executor and
signing service get one session key, which changes only after a fault) and
`LoadFindsLastStore`: a load finds what the last completed store left, or nothing
after a cleanup; and a session key or secret whose file was hit by a fault or a
crash is found as it was, torn or not at all, never as a value that no store has
completed. One fault and one crash may hit the same file one after the other;
further ones repeat that. Deadlock is off: a run ends when the bounds are used up.

Only the process crashes: a written file survives. Nobody changes a mode while
the file is written. A crash between truncation and write leaves a short file that
the next load takes for a key (keystore.go:62): that file is `Torn`, and the
properties say that the damage ends there. What a failed read does to a session
that is on record is in section 3; `SessionIsKept` here
names the same exception.

Proved in `Keystore_proofs`, from `KeystoreAssumption` and `NoneAssumption`, for
every set of files and every bound:

* `LoadsFindLastStores` (`LoadFindsLastStore`): by `DataInv` a file that no fault
  has hit differs from its last store only while the store or the cleanup that
  has the mutex (`CallsInv`) works on it, a spoilt session key or secret is the last
  store, torn or gone, and a load runs while nobody has the mutex.
* `FilesAreKept` (`FilesInv`): modes by `ModeInv`, a store opens a file only when
  its mode is restricted or it is gone; session keys by `KeyInv`, while no call
  has failed nothing was handed out of a file whose first key is being stored,
  and afterwards only the stored key.

## 6. IndexerMint

| variable | code |
| --- | --- |
| `epoch`, `paid`, `confirmed`, `spent`, `away`, `evicted`, `active`, `msgs` | Bitcoin and the teleport contract: current key, deposits and the key they pay to, their confirmation and spending, unconfirmed ones the node does not know at present or once did not, minted deposits, deposit messages under way |
| `mint[d]`, `peginKey[d]`, `keys` | the rows of Mint, Pegin, InternalKey |
| `feed`, `keyFeed`, `writer[d]` | events the writer has yet to handle, and the branch its query chose |
| `creating` | `CreatePegin` between its query and its commit |
| `cycle`, `todo`, `seen`, `ripe`, `latest` | the pending cycle and what it has read: rows, block, confirmed height, latest key |
| `queue` | `BatchSender.messagesForSending` |
| `toRefund`, `gone` | the refund cycle: rows read, outputs `GetTxOut` answered nil for |

Every database or network call of a cycle is an action, so the status that is
written is as old as in the code. Pending rows are handled in any order, as the
goroutines are. `Send` counts as `BatchSender.Send` does: the message at which
the capacity or size is used up is taken from the channel and not sent.
`WaitForDeposit` changes nothing: `waitForDeposit` asks for the pegin contract of
the *block's* hash, which never exists, so the wait always runs out.

`mint_rows`: `MintInv` (types, `SuccessIsBacked`, `RefundedIsGone`),
`RefundIsJustified`, `SuccessIsFinal`, `RowsAreSettled`, for two deposits at a time
(`Bounded`, in the MC module, only limits what nobody has to do):

* d1 with d2, which is below the minimum: a key rotation, depositors who reclaim, and
  a deposit that leaves the mempool or a restart. One rotation makes a key old and two
  keys in flight in any order.
* d1 with d3, both ordinary: a lost message, a failed call or a restart. The queue
  holds both messages, and the second one may be that at which the capacity (two or
  three) is used up: the sender drops it, and its row has to come back with a later
  cycle.

Deadlock is off: with all bounds used and all rows settled nothing is left to do.

Observed: `GetTxOut` answers nil for an output that is spent and for one the node does
not know ("spent or not found", client.go:454, against "it means the UTXO is spent",
client.go:452), and `handleRefundMint` takes both for a refund (mint_service.go:423). A
deposit that `CreatePegin` accepted from the mempool, and that was then replaced or
evicted, so becomes `REFUNDED` without any spend. `RefundedIsGone` is what remains
true.

Fairness is weak throughout: goroutines go on, blocks are relayed, the contract
answers. Nobody has to pay, rotate, spend or bring back a transaction.

What the properties leave out, because the code does not do it: once the key a
deposit was paid to has been replaced, a late `CreatePegin` or a cycle that read the
row earlier can turn its `SUCCESS` into a `REFUND`; `SuccessIsFinal` speaks of the
time until then. The row of a reclaimed deposit stays `PENDING`, is sent again in
every cycle and takes up room in the batch, so `RowsAreSettled` excludes it.

Proved in `IndexerMint_proofs`, from `MintAssumption` alone:

* `TypeCorrect`. The only fact about data is that the latest key is the greatest
  of the table, by the well-foundedness of the distances to the bound.
* `RowsAreBacked` (`MintInv`): a row's SUCCESS is copied from `active` by way of
  the cycle's `seen` or the event's `feed` and `writer`, which `BackedInv` keeps
  inside `active`; REFUNDED by way of `gone`, which it keeps inside what is spent or
  was ever out of the mempool.
* `RefundsAreJustified` (`RefundIsJustified`): `RefundInv` says that a pending row,
  also one a cycle still holds, has the key its deposit was paid to and that this
  key is in the table; that the cycle's latest key is at least as new; and that
  what the refund cycle holds is justified already.
* `SuccessesAreFinal` (`SuccessIsFinal`): by `KeysInv` no key is on record or under
  way that the contract has not had. For a deposit to the contract's own key,
  `RefundIsJustified` leaves only that it is small, and small ones are never minted.

`RowsAreSettled` is liveness and only model-checked.

Not modelled: message sizes other than a count, the recovery keys and scripts
(external), wallet failures after the send.

## 7. IndexerEvents and EventLedger

`EventLedger` is the promise: an event enters the database after it was raised,
whole and for good, and every event does so in the end. `IndexerEvents` is how.

| variable | code |
| --- | --- |
| `height[c]` | transactions of contract c on the chain |
| `collector`, `cursor`, `page` | `TxCollector`; `TxFetcher.lt` and the answer it forwards, walking backwards |
| `next` | `TxSubscriber`: the next transaction |
| `txChan`, `rawChan` | the channels, with their capacities |
| `worker[e]` | the goroutine of an event: transaction row, parse, query, create |
| `tonTxs`, `pegouts`, `rows` | the rows of TonTx, Pegout, and Burn, Reinit or InternalKey |
| `done`, `failed` | history of this run: handlers that returned, those for which a call failed |

`HandlerFails` is any query, insert or commit that fails: the event is not
handled again before a restart, and after a failed commit nobody knows. `Restart` keeps the tables only.

`events_rows` (two contracts, a burn, two reinits without an address, a completed
DKG, a transaction without an event; channels of one place, two handlers; one
failing call, one restart): `EventsInv` (types; a pegout row has its burn or
reinit row and vice versa; what was handled without a failure is indexed or `Shadowed`, that
is, kept out by the row of another pegout with the same address or also without),
`EveryEventIsInOnePlace`, and the refinement: `LedgerSpec` is
`EventLedger!Spec` with the chain's events for `raised` and `Indexed` for
`ledger`; `LedgerIsKept` is its fairness, while no call fails and no raised pegout
is shadowed. Four
transactions of one contract and pages of two make the fetcher ask twice and the
subscriber take over at any height; channels of one place are full at once.
Deadlock is off: the chain is finite.

Fairness: collectors, dispatcher and handlers go on. Forwarding and filtering
are strongly fair because they compete for channel room.

Two exceptions in these properties are what the code does. A second pegout without an
address is never indexed: its empty address collides with the first one's in the
unique column (pegout_writer.go:46, looked for as "0:" in event_writer.go:134), although
the README promises to index and track the bridge's events (README.md:13); this is
`Shadowed`, and TLC refutes `HandledIsAccounted` without it. And `write` returns before
its deferred function assigns the commit's error (event_writer.go:45), so an event
whose commit failed is logged as "Event written" (event_writer_feedback.go:16) and is
gone until the next start; it is among `failed`.

Proved in `IndexerEvents_proofs`, from `EventsAssumption`, for every chain,
channel and page size:

* `TypeCorrect`, with `WayInv`: no cursor, page or channel holds a position above
  the height of its chain, what is in `rawChan` or with a handler was raised, and
  a handler at `create` or `key` has an event of that kind.
* `PegoutsStayWhole`: `PegoutsAreWhole` in every state.
* `DatabaseIsLedger`: `Spec => LedgerSpec`. The initial states map to empty
  ledgers; a new transaction raises its event or nothing, a handler's step
  records its event or nothing, by `WayInv` only a raised one, and everything
  else, restarts included, leaves the ledger alone.

* `EventsStayIndexed`: `EventsInv`, for all addresses. What a handler writes is in the
  table of its transaction first (`TonTxInv`), and a row that is in its way is its
  own or that of a pegout it shares the address with.
* `OneForEvery`: `EveryEventIsInOnePlace`, by `PlaceInv`, also from `OccursOnce` (an
  event belongs to one transaction). `WalkInv`: the cursor is below the page and
  the channel, these are below the subscription, and share no position.
  `PassedInv` and `BeyondInv`: a transaction between cursor and subscription that is
  in neither has gone past the filter, and only such ones have. `OnceInv`: past
  the filter an event is in the channel, with its handler, or done.

Only model-checked: `LedgerIsKept`, which is liveness.

Not modelled: several events in a transaction; bodies that do not parse; the lite
client. Mint events are in `IndexerMint`.

## 8. PegoutManager and MetricsPegouts

`PegoutManager`:

| variable | code |
| --- | --- |
| `sigs[p]` | signatures in the pegout contract, by index |
| `chain[p]`, `known`, `old`, `refused` | the Bitcoin node's view; history: what it ever accepted; pegouts older than two weeks; those with an output the node does not take |
| `status`, `raw`, `hash` | the row |
| `toSign`, `block` | batch and state of the contracts of the signing loop |
| `toSend[p]`, `excluded` | where the goroutine of a signed pegout is; `excludedSignedPegoutIDs` |

The oracles sign the inputs in the order of `BuildTaprootSigningHashes`, which puts
an input behind all smaller ones (`SignedInput`), and the contract keeps a signature
under the index. `buildPegoutTx` sorts the inputs itself (`SortedInputs`) and looks
each signature up by its index (`Build`). `StoredIsSigned` says that the two agree.

`PegoutsAreConfirmed` excludes what the code does not recover from: an eviction (a
confirmed row is not looked at again and its child may wait for ever), and neighbours
that are unsigned, refused or given up. `ExcludedIsUnknown` holds while no lookup is
lost: a lost one counts as "not known", and a known transaction of an old pegout may
be given up.

`MetricsPegouts` extends `PegoutManager` by the alerts that read its rows: its steps
are those of the indexer (`Indexer`), a clock (`Tick`), and the checks of the two
alerts. The services share the table and the Bitcoin node; the alerts share nothing.

| variable | code |
| --- | --- |
| `toCheck`, `lastId`, `waited`, `mempool` | `AlertPegoutInMempool` and its severity |
| `fee` | severity of `AlertPegoutFeeNotReset` |
| `ids`, `checked`, `signedFor`, `alertFaults` | order of rows; ticks; bounds |

An alert's failed query returns an error, which is critical (`NoRows`, and the second
way through `CheckFee`); a node that does not answer `AskNode` counts as one that
does not know the transaction. For the fee alert, which blocks are below the
confirmed height and whether the fee is set are any choice.

`pegouts_rows` checks the composition: `PegoutsWithAlertsInv` (`PegoutsInv` and
`AlertTypeOK`), `StoredIsSigned`, `StatusAdvances`, `SignedPegoutsAreConfirmed`,
`MempoolAlertIsFounded`, `UnpassedIsReported`. There are three pegouts: q spends the
change of p, which is enough for a child to be sent before its parent, and r nobody's.
p has two inputs that are sorted differently as displayed, so an order of signatures
matters. A behaviour plays in one of three scenes, chosen at its start:

* `faults`: r is done, then p and q with a lost answer, an eviction, a restart, and
  either of them may be refused or grow old. The alerts stand still.
* `batches`: all three rows, one more than a query takes, and a lost answer. The
  alerts stand still. Here and in `alerts`, rows are written of signed pegouts only.
* `alerts`: p and q without faults of the indexer, which may stop at any step; the
  alerts with a failed query, a lost answer or a restart of their service, and queries
  of one row. One tick stands for the ten minutes of a warning, two for the forty of a
  critical alert.

The indexer's faults and the alerts are apart to keep the run small. What a fault leaves
the alerts to read, a row that is not sent or a transaction that is not known, an
indexer that stops leaves as well; a transaction that is evicted under the alerts is
covered by the theorems only. Deadlock is off: with bounds used and pegouts confirmed
the indexer may stop.

Fairness is a hypothesis of the two liveness properties, so that neither service
counts on the other: `SignedPegoutsAreConfirmed` lets both loops and the goroutines of
a batch go on, while nobody has to sign or mine; `UnpassedIsReported` lets time pass
and the alert be checked for ever, whatever the indexer does.

Two things the alerts do not do that `alert_rules.yml` says. The fee alert ("3
(SEVERITY_CRITICAL) - (last_pegout_block_height < confirmed_block_height) & (next_svb >
0)", line 6) never sees a fee that was not reset: it asks for the last `SIGNED` row
(alert_pegout_fee_not_reset.go:19, data_source_db.go:255) and is OK without a block
hash, which is written only together with `CONFIRMED` (pegout_manager.go:326-328). It
turns critical only because a call failed; its test gives it a `SIGNED` row with a hash,
which the indexer never writes. This is the theorem `FeeAlertIsBlind`. The mempool
alert ("pegout transaction not found in mempool for 40 minutes", line 92) remembers the
highest row id it has passed (alert_pegout_in_mempool.go:47), while rows are signed in
parallel: a pegout with a lower id that is signed later is never followed. TLC refutes
the property for such rows, and `UnpassedIsReported` is what remains true.

Proved in `Metrics_proofs`, for every set of pegouts, every order of their
inputs and every bound, from the assumptions on the constants (None is none of
the values it is compared with):

* `RowsOnlyAdvance` (`StatusAdvances`), of the pegout manager alone, by `ManagerInv`:
  what the signed loop holds is the id of a `SIGNED` row, only rows past `SIGNING` have
  a transaction, and the node knows no other.
* `AlertsAreConsistent` (`PegoutsWithAlertsInv`): `PegoutsInv` by `ManagerInv`, which
  holds beside the alerts as well (lemma `AlertsOnlyWatch`), and `AlertTypeOK` by
  `AlertInv`: the alert follows a row it has passed, no longer than that row has been
  signed.
* `StoredTransactionsAreSigned` (`StoredIsSigned`), by `SignaturesInv` (a signature in
  the contract, also in a state of it read earlier, is that of the input with its
  index) and `StoredInv` (a stored transaction is what `Build` makes of such
  signatures). The two sorts agree because the input at place i of an increasing
  sequence has exactly i - 1 smaller ones, and an increasing sequence exists for every
  finite set of numbers; both are least counterexamples.
* `MempoolAlertsAreFounded` (`MempoolAlertIsFounded`), by `AlertInv`.
* `FeeAlertIsBlind`: in no instance, and for no heights and fees, does the fee alert
  see a fee that was not reset (`FeeIsNeverSeen`).

Only model-checked: `SignedPegoutsAreConfirmed` and `UnpassedIsReported`, which are liveness.

## 9. Relayer

| variable | code |
| --- | --- |
| `tip` | the node's best block, in a tree of blocks |
| `confirmed`, `candidates`, `mail` | the client contract, and headers under way to it |
| `last`, `counter`, `proofs` | the teleport contract's pegout chain, and proofs under way |
| `block`, `pegout` | what each relayer has read so far in its cycle |
| `seqno` | the wallet's seqno each has read is still current |
| `calm` | history: no reorg since the cycle began |

Every call of `Relay` is an action. The two contracts are external: a header that
follows a known block is taken, and confirms the one `ConfirmationsNeeded` below
it; a proof for the last pegout in a confirmed block lowers the counter. A reorg
is shallower than `ConfirmationsNeeded`, as the light client itself assumes.
`isRelaying` is left out: one goroutine calls each relayer.

`relay_fork` (seven blocks in two branches, two pegouts, one reorg, one failed
call, one restart): `HeadersInv`, `ProofsAreConfirmed`, `ContractFollows`,
`PegoutIsProven`. The first two speak of cycles with no reorg between their reads
(`calm`), because the code does not notice one; that branches mixed by a reorg do no
lasting harm is what the other two say. The branches differ in length, so the reorg is possible while
the contract has candidates of the shorter one. Deadlock is off: the tree is
finite. Fairness is weak: tickers and deliveries.

Proved in `Relayer_proofs`, for every tree of blocks, every number of confirmations
and every bound, from `RelayerAssumption` and `TreeAssumption` (heights count from
the genesis block, so that the parents are a tree):

* `HeadersAlwaysConnect`: `HeadersInv`, types included.
* `SentProofsAreConfirmed`: `ProofsAreConfirmed`.

Both by `RelayInv`. What makes it inductive is `Safe`: a block the contract may
come to know is no higher than the node's tip, and those of its ancestors that it
can confirm (`Deep`) are on the node's branch, whichever branch that is, as a reorg
is shallower than `ConfirmationsNeeded`. So `ChainInv`: the confirmed block is on the
node's branch and the candidates are trees that grow from it. `ReadsInv` is what
the relayer's reads still say one or two calls later, while no reorg has come in
between; `MailInv`, that of two headers under way the first confirms nothing
beside the second one's branch; `PegoutInv`, that the block of a proof was on the
node's branch and below the confirmed one when it was read. The lemmas on trees
(`TreeInduction` to `BranchBefore`) need no recursion: every induction is a least
counterexample in height.

Only model-checked: `ContractFollows` and `PegoutIsProven`, which are liveness.

## 10. Watchdog

Time stamps are kept as ages. Watch and Heartbeat read the clock first and take
the mutex later (`ReadClock`, `FinishWatch`, `FinishHeartbeat`); so does the scan
(`BeginScan`, `LockAndCollect`, one `Fire` per overdue target, `EndScan`).
`Tick` ages everything; `MaxStall` bounds how long one operation takes from the
clock to its end, and `Horizon` is where ages stop being counted, beyond every
period.

`watchdog_late` (one target, two callers): `FiresAreSpaced`, `SilenceIsReal`,
`OverdueIsReported`. Each is weakened by the stall, and only by it; TLC finds
each violated without. The stall is one scan period, so a tick is late but never
dropped while the loop runs: dropped ticks are covered by the theorem
`OverdueReported` only. One target is enough, as targets do not interact other
than through the stall.

`Watchdog_proofs`, for every set of targets and callers and every choice of the
periods: `TypeCorrect`; `FiringIsSpaced` and `ReportedIsSilent`, from the
invariants that a stored heartbeat or fire is at most a stall older than the
moment it was written (`LateByStall`) and that whatever the scan has collected
stays due until it is fired (`StaysDue`); `SelfHeartbeatIsSpaced`;
`OverdueReported`, by `ScanInv`: between two scans a target's ages grow only as
far as the ticker and the stall allow. The last one assumes that the stall is
within the fire period and every target's period. The constants' assumptions are
the checks of `new` and what the horizon is for.

A zero `selfHeartbeatPeriod` is said to disable the self heartbeat
(watchdog.go:62); the code logs it at every scan (watchdog.go:244). Not modelled:
`Init` called twice; callbacks that call the watchdog (the program's does not).

## 11. MetricsFetchers

| variable | code |
| --- | --- |
| `source`, `past` | what a call to TON or Bitcoin answers now; history |
| `rows[k]` | rows per payload type |
| `pc`, `step`, `item` | fetcher: where it is, which payload of the round, what it fetched |
| `ch`, `writer`, `taken` | the writer's channel and the writer |
| `watch`, `reports` | the watchdog as a fetcher sees it; whom it has reported since their last heartbeat |
| `ctx`, `main` | context and process |

`fetch_rows` (a fetcher of two payloads behind a channel of two places, or one that
writes itself): `RowsInv` (types; neighbouring rows differ; rows follow the
source's order), `LatestIsStored`, `StopHangsOnSend`, `StuckIsReported`. `Groups`
is a bound: the fetchers run one at a time, since they share only the channel,
whose other users are a full channel to them; that a hanging writer stops *every*
fetcher is therefore seen one fetcher at a time. Deadlock is off: a stopped service
stays stopped.

Fairness: fetchers poll (`Polling`) and the watchdog runs; stopping is strongly
fair, since a select with two ready cases takes either. The database may leave any
statement without an answer, the writer's or the balance fetcher's own (`Stating`),
as none has a timeout: `HangingSpec` says nothing of them, and `DatabaseAnswers` is
the hypothesis of the properties that need it. A balance fetcher that hangs in its
preparation is not watched yet, and no property says that it is reported.

Proved at the end of `Metrics_proofs`, for every set of fetchers, groups and
payloads, every channel size and every bound: `RowsFollowTheirSources`
(`RowsInv`), from `MetricsFetchersAssumption` (a payload type has one fetcher, Nil
is no payload). The names of `MetricsFetchers` differ from those of
`MetricsPegouts` so that one module can prove things of both. `RowsInv` is
not inductive: it says nothing of payloads on their way to the table. `PipeInv`
adds for each type positions in the history of its source (`Placed`): each row
has one and they ascend; none of them is after that of the payload the writer
holds (`Received`), that one is not after any in the channel, which do not descend
(`Queued`), and none is after what the fetcher has in its hand (`Fetched`).
`RouteInv` keeps a fetcher that writes itself apart from the writer. A payload that
is dropped takes its position with it, and a fetch takes the last position there
is. Two equal payloads at neighbouring positions of the channel give one row,
since `Insert` skips it (`InsertedInOrder`). Only model-checked: the three
liveness properties.

The properties state a weakness as it is: a fetcher's send does not look at the
context, so a stop hangs on a full channel whose writer has left, until `main`
gives up after five seconds. It says nothing of the HTTP and alert services, for which
`main` waits as well.

## 12. Not modelled, and other observations

* FROST and X25519: cryptography behind a C interface, abstracted to provenance.
* Dashboards, backup, deployment, logging, configuration: no program logic.
* GraphQL and HTTP apart from `CreatePegin`: queries that keep no state.
* Metrics: the collected gauges (formatting) and the alerts other than the two of
  section 8. Most compare one value with a threshold. Of those with memory:
  `alert_dkg_culprit_found.go:68` notes the Until before it reads the coordinator's
  storage, so that one failed read loses the culprit of that DKG;
  `alert_pegout_restarts` counts from zero when it once sees ExpiredAt zero.
* Oracle helpers (`helpers.go`): thresholds, parsing and conversions of one input;
  the models use what they decide, not how. `ValidatorIdxToFrost` sets bit 7
  (helpers.go:327), so that index 128 becomes the identifier of index 0; the code
  relies on smaller sets.
* The DKG and the pegouts are read by two getter calls that may answer for
  different blocks (signing/service.go:168); the models fix the DKG while signing.
* An unparsable commitment names no culprit (signing/service.go:471).
* The confirmations needed are read as a signed four-bit number
  (bitcoin_client_contract.go:98), which is right up to seven.
* A balance fetcher whose preparation fails ends and is not started again
  (fetcher_contract_balance.go:48); it is `PrepareFails` in the model.
* Liveness under fairness and recursion over arbitrary data are beyond the proof
  system: TLC checks them on the instances above. Every invariant that a run
  checks is stated by a theorem.

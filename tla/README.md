# A TLA+ model of the PQ enclave binding

An enclave makes a post-quantum root key, commits a list of subkeys, has AWS
Nitro attest the lot, and serves the result. An operator fetches the bundle,
timestamps it in Bitcoin, and verifies the files years later without the
enclave. These modules model that system: the enclave's ceremony, its HTTP
oracle, the Merkle tree of subkeys, the calendars and the chain as the operator
sees them, the verifier, and what root keys sign, byte by byte.

Paths below are relative to `src/`; `main.rs` alone is the one of the crate the
paragraph is about.

## The system

| Component | State it keeps | Operations | Hard part |
|---|---|---|---|
| `pq-ceremony` library | mnemonic, records, leaves (in memory only) | `run_ceremony`, `sign_with_subkey`, `proof` | two lanes share one index; every step can fail; a restart loses all keys |
| `pq-ceremony` binary | the listener, one connection | `serve`, `handle`, five routes | blocking reads of arbitrary segments, half requests, callers that stall |
| `pq-merkle` | none (loops over levels) | `merkle_root`, `merkle_proof`, `verify_membership` | odd levels, three loops that must agree, paths of any length from a file |
| `pq-core`, `pq-derive`, `pq-enclave` | none | key derivation, dual signatures, canonical payload, NSM calls | where one field ends and the next begins; NSM failures |
| `pq-ots` | the `.ots` file | `stamp`, `pending_calendars`, `verify`, header sources | several attestations, an explorer whose chain moves, lost answers |
| `pq-bundle`, `pq-quote` | none | `verify` of the bundle and of the quote | the instant the certificates are checked at |
| `pq-cli` | files of the operator | `inspect`, `verify`, `stamp`, `verify-subkey` | order of checks, pending versus anchored, overrides, replaced files |
| `pq-subkey` | none | `issue`, `verify` of a certificate | validity windows; which fields the signature covers; one pair of keys signs certificates and ceremonies |

How they interact. `pq-ceremony` calls `pq-derive`, `pq-core`, `pq-merkle` and
the NSM once per boot and then answers HTTP. The operator is the only link from
there on: files (`bundle.json`, `bundle.json.ots`, a subkey JSON) are written by
one command and read by another, possibly after the enclave has restarted.
`pq stamp` asks calendars in order, the calendars commit digests in blocks,
`ots upgrade` (external) writes the block into the proof, `pq verify` reads a
header file or an explorer and runs seven checks as of the block's time. With
`pq-subkey`, whoever holds a root's secret signs certificates for further
subkeys with the very keys that signed the ceremony's payload; no binary of the
repository does so yet.

What makes each correct:

- *ceremony*: a bundle that gets out passes verification, exactly while its
  certificates live, and only if the enclave is genuine; a record, its leaf, its
  path and its signing key are those of one subkey.
- *oracle*: a complete request gets its own answer, however it was split; a
  signature is over what that caller posted; every caller is answered.
- *tree*: what was committed verifies, nothing else does, the root identifies
  the list.
- *verifier*: an answer is justified by the files, the chain and the clock; for
  an anchored proof it does not depend on when the command runs; nothing of two
  ceremonies passes as one.
- *root signatures*: a certificate verifies against a root exactly when that root
  issued it, for every field that means something; nothing a root signs passes
  for something else, and one broken signature family changes nothing.
- *archive*: what was anchored in time verifies as long as its block stays in the
  chain; what verifies was finished before its block; a proof on disk can be
  upgraded.

## The modules

| Module | Models | State and actions against the code |
|---|---|---|
| `SubkeyMerkle` | `pq-merkle`, and the calls to it | `levels` and `level` are the two `Vec`s the code calls `level`; one action per pass of a loop: `BuildLevel` (`merkle_root`), `PushSibling` (`merkle_proof`), `FoldServed`/`FoldFile` (`verify_membership`). A hash is a tagged tuple of its inputs, `ZeroRoot` is `[0u8; 32]`. |
| `VerifyInputs` | what the verifier reads, and its pure checks | bundle, quote, proof, header source, `BundleVerifies`, `SubkeyPasses`, `Instants`. A digest is its preimage. |
| `PqVerify` | `pq verify`, `pq verify-subkey` with `pq_ots::verify` | one action per request to the header source and per group of checks between two; `pc`, `k`, `anchors`, `instant` are the locals of `verify_bundle_steps`. `Tick`, `Reorganise`, `Upgrade` are the world. |
| `PqVerdict` | the promise of the verifier in one step | `Answer` is any verdict justified by the files and by the chains and the clock seen while the command ran. `PqVerify` refines it (`busy <- (pc # "idle")`). |
| `OraclePromise` | the promise of the server in one step | `Answer` serves the connection that came first: dropped if its caller broke it, else answered by some part of its request that is enough by its own `Content-Length`, or that is all there will be. `OracleServer` refines it (`waiting` is the connection in `handle` and the backlog behind it): reads are invisible, `Respond` and `Fail` are `Answer`. |
| `OracleRoutes` | the `match` of `handle` and the two replies with an argument | a request is a sequence of tokens; header lines, path prefixes and body pieces are the tokens the code tells apart. |
| `OracleServer` | `serve`, `handle` and the callers | `buf`, `headEnd`, `need` are the locals of `handle`; `Accept`, `ReadHead`, `ReadBody`, `EndOfInput`, `Respond`, `Fail` are its steps. Callers `Connect`, `Send`, `Shut`, `Reset` at any time. |
| `Ceremony` | `main`, `run_ceremony`, what each route serves, the files an operator saves | `Boot`, then `DeriveSubkey` per pass of the inner loop, `Attest`, `DescribePcr` three times, `Finish`; `Exit` at any moment. `FetchBundle`, `FetchSubkey`, `Sign` leave files that outlive the boot. It uses `VerifyInputs` (`Verify == INSTANCE ...`) to say what the files are worth. |
| `Archive` | `Ceremony` composed with `pq stamp`, calendars, chain, `ots upgrade` and the verdict | `StartStamp` reads `bundle.json` once, `Submit` is one calendar of the loop with its four outcomes, `AllFailed` the end of the loop. `Mine` and `Upgrade` are external. `Verified` and `SubkeyVerified` are `pq verify --esplora` and `pq verify-subkey` in one step: they are, by definition, what `PqVerdict` accepts of these files and this chain (`Accepts`), the verdict that `PqVerify` implements. |
| `PqEncoding` | the byte layouts of `pq-core` and `pq-subkey` | `CanonicalPayload`, `CanonicalPayloadWithSubkeys`, `SigningBytes`, and the older formula `diagnose_binding_mismatch` rebuilds, on sequences of bytes, with lengths and counts in big-endian of their width. |
| `RootSignatures` | `pq-subkey`, steps 4 and 5 of `pq_bundle::verify`, `diagnose_binding_mismatch` | `signed` is every call of `sign_payload`; `RunCeremony`, `OlderCeremony` and `Issue` add to it, `Break` breaks one family. The verifiers are functions of a file: `Verify`, `Bound`, `SignaturesPass`, `DiagnosedOlder`; the properties quantify over every file that can be put together (`CertFiles`, `BundleFiles`). |
| `MC*` | instances for TLC | |
| `*Proofs` | theorems about `SubkeyMerkle` (in `SubkeyRootProofs` those about its root), `PqVerify`, `OracleServer`, `Ceremony`, `Archive`, `PqEncoding`, `RootSignatures` | |

Definitions whose comment starts with "Mutant" are not part of the model: each
is the form a definition would take under a plausible mistake, kept to show
that some property notices.

### What is abstracted

- Hashes, signatures, key derivation: free constructors. Two digests are equal
  exactly when what was hashed is.
- Elsewhere than in `RootSignatures` a payload is the record of its fields. That
  this is right is what `PqEncodingProofs` shows: equal bytes have equal fields.
  `RootSignatures` keeps the bytes; SHA-256 there is a constant that does not
  collide on the payloads hashed (`Sha256Assumption`).
- A file is taken to carry the best signatures there are: of each family, one
  that verifies if the key made one or the family is broken. So `VerifyDual` has
  no signature argument.
- Codecs (hex, base64, JSON, COSE, X.509, `.ots`): a file that does not decode
  is a file no check accepts, a response that does not decode is a failed
  request.
- A tree in `Ceremony` is its list of leaves, and a served subkey folds to the
  list with its leaf at its index. `SubkeyMerkle` is where roots and paths are
  computed. What makes the shorter form right is proved there for every number
  of leaves: two lists have one root only if they are one list
  (`RootIsInjective`), the served path folds to the root (`Completeness`), and no
  other claim does (`Soundness`).
- HTTP at the level of tokens: a read returns between 1 and `SegmentMax` of
  them. A version after the path and headers that nothing looks at are left out.
- `usize` wraps at `WordSize` in `need`, as in the release build.

## The runs

| Run | Instance | Shows |
|---|---|---|
| `merkle` (Merkle.cfg) | trees of 0 to 17 leaves, distinct and shared keys, every index; on trees of 0 to 5 leaves also 24 claims with paths of up to 3 digests of the tree or a foreign one | `TypeOK`, `ServedProofVerifies`, `LoopsAgree`; `RootCommits` against a tree defined by its shape; `OnlyCommittedVerify`. 17 leaves have an odd level at each height but the first, 0 and 1 are the special cases. Three siblings reach past the height of a tree of 4 leaves and to the root of one of 5. |
| `verify` (Verify.cfg) | 160 commands with header files and overrides, 1024 mixtures of two ceremonies; an explorer with four best chains, changing between any two requests; arguments missing or exclusive; clock 0..2, quotes valid at 1 only and, for the race of finding 1, at every block time; upgrades | `TypeOK`, `AnchoredAnswersAgree`, `InstantIsAnchorTime`, `OneCeremony`, and the refinement `PromiseSpec`. The clock passes both ends of the validity, two blocks give both orders of height and time. |
| `oracle_answers` (OracleAnswers.cfg) | two callers, any two of 14 requests, segments of 1 to 3 tokens | `TypeOK`, `AnsweredAsAsked`, `SignedAsPosted`, `NeverWaitsForMore`, and the refinement `PromiseSpec`. The longest request has 8 tokens, so a read may end inside the blank line, the head or the body; `len:14` wraps a word of 16. A length that wraps is no complete request for `AnsweredAsAsked`; what such a caller gets is said by `SignedAsPosted` and `PromiseSpec`. |
| `oracle_live` (OracleLive.cfg) | two prompt callers, a complete and an endless request | `CallersAnswered` |
| `ceremony_files` (CeremonyFiles.cfg) | two boots of five kinds of enclave (empty, default, two lanes; nitro, debug, mock, other CA) | `TypeOK`, `FinishedBundleVerifies`, `SubkeyFileFits`. Two boots are enough for a file of one to meet a file of the other. |
| `archive_flow` (ArchiveFlow.cfg) | two boots, each of a genuine enclave with one subkey or of a mock one with none, two calendars, one block that may be dated 1 early, clock 0..1 with a quote valid at one instant | `TimelyAnchorVerifies`, `VerifiedPredatesBlock`, `ProofIsAccepted`, `SubkeyPredatesBlock`, and of every step `VerdictStands`. Two boots let any of the three files be another's; one block is enough for a proof to be pending, anchored, or anchored for another bundle; the block is dated within or before the life of the quote, and the clock leaves it. |
| `root_signatures` (RootSignatures.cfg) | two roots and two subkeys whose keys are the same bytes cut in two places, five windows, serials of one and of three bytes, two trees of which one goes on like a length or a count, two counts, a foreign version; at most two messages signed, one family broken or none | `TypeOK`, `OnlyIssuedVerify`, `IssuedVerifies`, `NoGapAtRenewal`, `OnlyCeremoniesBind` (the binding alone), `OnlyCeremoniesSigned` (the signatures alone), `DiagnosisRight`. Two messages are enough for two certificates that follow each other, for the messages of two roots to meet, and for a certificate to meet a payload. |
| `instant_of_matched` | a proof with one attestation, a quote valid at every block time, an explorer whose chain changes | finding 1 |
| `subkey_attested` | `verify-subkey` without `--ots` | finding 2 |
| `oracle_health` | a prompt probe next to a caller that may stall | finding 3 |
| `archive_late` | a block after the certificates expired | finding 4 |
| `cert_version` | a certificate file with another version | finding 5 |

`verify` runs under `VerifySpec` of `MCPqVerify`: the best chain changes only for
commands that name the explorer. The others do not read it (`HeaderSource`), so
that nothing is lost but states that differ in the chain alone.

`CHECK_DEADLOCK FALSE` stands where a behaviour ends: a membership check is
decided, all callers are answered, a bound on boots, blocks or the clock is
reached. `MaxNow`, `MaxBoots`, `MaxBlocks` and `MaxPath` bound what the program
does not; the theorems hold for every value of them.

### Fairness

Only `OracleServer` has liveness properties, under `FairSpec`: weak fairness of
`Serve`, because the enclave is one thread that runs whenever it is not blocked
in `accept` or `read`, and weak fairness of the callers in `Prompt`, who connect,
send their request to the end and close if the server still waits after that.
Nothing is assumed of other callers. `oracle_live` takes every caller as
prompt; `oracle_health` does not, and shows what the sequential server owes to
whom. `oracle_live` therefore says that the server itself never gets stuck: not
after a reset, not at the end of input inside a head or a body, not when a
complete request needs no more reads.

No liveness is claimed of the verifier and of `pq stamp`: their HTTP client sets
no timeout (`pq-ots/src/http.rs`), so that a request may wait for ever; and
whether a digest ever reaches a block is a matter of calendars and miners alone.

## The proofs

| Theorem | For every | Says |
|---|---|---|
| `SubkeyMerkleProofs!TypeCorrect`, `LoopsAlwaysAgree`, `Completeness`, `Soundness` | list of subkeys, claim and path | `TypeOK`, `LoopsAgree`, `ServedProofVerifies`, `OnlyCommittedVerify` |
| `SubkeyRootProofs!RootIsInjective`, `Commitment` | two lists of subkeys of any lengths | no two lists share a root; `RootCommits` |
| `PqVerifyProofs!TypeCorrect`, `Implements`, `Timeless`, `InstantIsTheAnchors`, `AcceptedIsOneCeremony` | command line, chain, schedule | `TypeOK`, the refinement `PromiseSpec`, `AnchoredAnswersAgree`, `InstantIsAnchorTime`, `OneCeremony` |
| `OracleServerProofs!TypeCorrect`, `RepliesMatchRequests`, `SignaturesWerePosted`, `ReadsNoMore`, `KeepsPromise` | set of callers, requests and segment size | `TypeOK`, `AnsweredAsAsked`, `SignedAsPosted`, `NeverWaitsForMore`, the refinement `PromiseSpec` |
| `CeremonyProofs!TypeCorrect`, `FinishedBundlesVerify`, `SubkeyFilesFit` | sequence of boots, deployment, number of subkeys | `TypeOK`, `FinishedBundleVerifies`, `SubkeyFileFits` |
| `ArchiveProofs!ArchiveImplementsCeremony`, `ProofsAreAccepted`, `VerifiedPredates`, `TimelyAnchorsVerify`, `SubkeysPredate`, `VerdictStays` | list of calendars, chain, sequence of boots | the flow implements `CeremonySpec`; `ProofIsAccepted`, `VerifiedPredatesBlock`, `TimelyAnchorVerifies`, `SubkeyPredatesBlock`, and `VerdictStands` of every step |
| `PqEncodingProofs!CanonicalPayloadInjective`, `CeremonyPayloadInjective`, `LegacyPayloadInjective`, `FormulasDiffer`, `SigningBytesInjective`, `CertificatesAreNotPayloads` | byte strings of any length that fits `u32` | each layout determines its fields, and no two layouts share a message |
| `RootSignaturesProofs!TypeCorrect`, `OnlyIssuedCertificates`, `IssuedCertificates`, `Renewal`, `BundlesAreCeremonies`, `SignaturesAreCeremonies`, `DiagnosisCorrect` | set of roots, subkeys, windows, trees; file put together | `TypeOK`, `OnlyIssuedVerify`, `IssuedVerifies`, `NoGapAtRenewal`, `OnlyCeremoniesBind`, `OnlyCeremoniesSigned`, `DiagnosisRight` |

`SubkeyMerkle`. The invariant says that the levels are successive pairings of
the leaves, that `merkle_proof` is at the level `merkle_root` had at the same
height (`LoopsAgree`, which is why the two loops can be reasoned about as one),
that `trail` is the node above the leaf at each height, and that `acc` is that
node's digest when the path is the served one. For soundness it says that `acc`
nests exactly `folds` node tags over the claim's leaf with the claimed index's
bits as sides, so that equality with the root forces the claim to be the leaf
the tree has there. Assumed: `CeremoniesAssumption` (a list is finite and its
indices are the positions, `pq-ceremony/src/lib.rs:132-149`),
`ClaimsAssumption`, `MaxPathAssumption`, and that distinct inputs have distinct
digests, which is how digests are modelled.

`SubkeyRootProofs`. The reference tree is two recursive functions: the last index
of each level (`LastAt`) and its digests (`NodeAt`); its root is the digest that
is alone on its level (`Height`). What they compute is shown by induction over
the levels, stated of the set of levels where the fact holds (`SetInduction`, from
the well-foundedness of `<`). A digest tells its place (`Position`): a leaf holds
its index, and the digests a node hashes tell where they are, so that a digest of
two trees is at the same height and index of both. Two equal roots are therefore
equally high, and level by level downwards the last indices and all digests agree
(`SameNodes`): a level may not be longer in one tree by a digest the other only
repeats, because at its place the longer one has another. At the bottom the
leaves are the records. That the loop of `merkle_root` builds this tree
(`RootIsRefRoot`) follows from the invariant of `SubkeyMerkleProofs`.

`PqVerify`. `IInv` is `TypeInv /\ PlaceInv`: at each `pc`, what earlier checks
established (the digest matched, `anchors` are the heights of the first `k - 1`
attestations and each was carried by some chain in `seen`, the instant is one
of the earliest anchor or of the clock). The properties are not inductive
without it, because the answer is given long after the proof was read. From it
every step is a `Begin`, `Answer` or `World` step of `PqVerdict` or stutters;
`PastInv` adds that a remembered answer about an anchored proof is the only one
a header file allows, hence two such answers are equal. `AcceptInv` keeps that
what was accepted passed every check; `OneCeremony` follows from it and from
`GenuineQuotes`, which is the hypothesis of that theorem: no check of the
verifier compares a key with the tree or with the other key, it is the quote
that ties them, because one enclave drew them. Assumed: `CommandsAssumption`,
`UpgradesAssumption`, `MaxNowAssumption`.

`OracleServer`. `IInv` is `TypeOK /\ QueueInv /\ BufferInv`: the backlog holds
each connection once and unread; `buf` is a prefix of the request in `handle`;
after the head, `headEnd` is where the first blank line of the prefix is, and
`need` was computed from it. The central lemma is `FirstBlankLine`: the first
blank line of a prefix, once there is one, is the first of the whole request, so
neither the head nor `need` depends on where reads end. `AnsweredAsAsked` and
`SignedAsPosted` are then decided at `Respond` and kept by every other step,
which leaves a reply and the tokens sent before it alone. `BufferInv` also says
that the inner loop reads only while the buffer is short of `need`; for a
complete request `need` is its length, so that it is never waited for once it is
there (`ReadsNoMore`). For the refinement a connection stays first in `waiting`
from `Accept` to `Close`. When `handle` answers, what it has read is enough by
the length it announced, or that length wraps and the head alone ended the loop
(`RespondsEnough`), or the caller has shut its end and all is read. Assumed:
`RequestsAssumption` (requests shorter than a word), `LengthsAssumption` (a
length is a number), `BodiesAssumption` (an empty body is not JSON),
`SegmentAssumption`, `NoneAssumption`.

`Ceremony`. The records of a boot are a function of its number and deployment
(`RecordsOf`), so `IInv` says: what has been derived is a prefix of that
function, what has been measured a prefix of the PCRs, and a file is determined
by the boot it came from (`BundleOf`, `TreeOf`). The oracle's `find` therefore
meets its record at its position (`LookupIs`), in either lane, and folding the
record into the tree changes nothing (`JsonIs`). Two non-empty trees of different
boots differ in their first leaf, whose key is of the boot's mnemonic
(`TreesDiffer`): that makes the "exactly" of `SubkeyFileFits`. Assumed:
`DeploymentsAssumption` (a genuine image measures as no zero),
`DefaultsAssumption`, `AbsentAssumption` (`None` is no CA and no number),
`BoundsAssumption`.

`Archive`. Every step is a step of `Ceremony` or leaves it alone, so the
theorems of `Ceremony` hold of the flow. `AInv` adds that every digest under way
- in `bundle.json`, in `pq stamp`, at a calendar, in a block - is `Settled`: of
a boot that is over or serves, hence never finishes another bundle. The height
at which that boot finished cannot change any more, and a block that commits the
digest is above it; without `Settled` the history variable could be overwritten
after the block. The file on disk is one a calendar accepted, and its
attestation, if any, is of a block that commits its digest. What
`PqVerdict` accepts of an anchored proof is worked out first (`AcceptsMeans`): it
depends on the bundle, the proof, the subkey and the time of one block, and on
nothing else that changes (`FilesPass`, `VerdictsMean`); blocks stay, so only a
fetch or a stamp can take a verdict back (`VerdictStays`). Since a subkey JSON fits
exactly a bundle of its own boot (`FitsIsFrom` of `CeremonyProofs`), what
`verify-subkey` accepts is of the boot that finished below the block
(`SubkeysPredate`). Assumed besides: `BlocksAssumption`, `CalendarsAssumption`.

`PqEncoding`. A number is given back by its bytes (`Be32Injective`,
`Be64Injective`, from two halves of 16 bits), hence a length-prefixed field is cut
off its message in one way (`LpCut`), and the fields of a layout come off one
after the other. The keys sign payloads that begin with a key and certificates
that begin with a domain, and nothing forbids a key that begins like the domain:
what keeps them apart (`CertificatesAreNotPayloads`) is what is left after three
length-prefixed fields, four bytes or none in a payload and far more in a
certificate. In the same way the two formulas of a payload differ in what follows
the root (`FormulasDiffer`).

`RootSignatures`. `IInv` is `TypeOK /\ SignedOrigin /\ IssuedGenuine /\
CeremoniesGenuine`: every signature was made for a certificate or a ceremony in
the history, every certificate is signed and bound, every quote commits to what
was signed. A file verifies when some signature covers its bytes; by
`SignedOrigin` that signature was made for a certificate or a ceremony, and by
the injectivity of the layouts for this one. With at most one family broken the
other still gives that signature, and two roots share no key of either family,
so it is by this root. A bundle's two keys need not be of one root: the family that
is not broken gives a signature over a payload that names both
(`OnlyCeremonySigns`). The binding needs no signature: it is the quote that ties
the fields (`OnlyCeremonyBinds`). Assumed: `KeysAssumption` (distinct roots share no key),
`MetasAssumption`, `TreesAssumption` and `NamesAssumption` (widths),
`Sha256Assumption` (no collision among the payloads hashed), `TimesAssumption`.

Only model-checked: `CallersAnswered`, because liveness under fairness and
`ENABLED` are beyond the prover (its safety half, that the server does not read on
once it has a complete request, is `ReadsNoMore`), and the five violations.

## Findings

1. **The instant may be that of another block** (`instant_of_matched`). With
   `--esplora`, the Merkle root is matched in one request and the time is asked
   in a later one by height (`pq-cli/src/main.rs:383`). README.md:39-41 says the
   chain is checked as of *the anchor block's* time. A reorganisation in between
   gives the time of a block the proof was never matched with. In the trace the
   proof has one attestation, matched by the block of time 1; a block of another
   root and of time 4 takes its place; the quote is valid at both times, and the
   answer is VERIFIED as of 4.
2. **"Inside the attested enclave" without an attestation** (`subkey_attested`).
   `verify-subkey` without `--ots` never looks at the quote, and prints the same
   line as with it (`main.rs:685`).
3. **One caller holds up the health check** (`oracle_health`). The server reads
   one connection at a time and without a timeout (`pq-ceremony/src/main.rs:163`,
   `181`); its header comment says "It stays alive serving the same immutable bundle and
   signing oracle, which keeps Caution's health check satisfied."
4. **An honest bundle that never verifies** (`archive_late`). The enclave attests
   once, at boot, with certificates that live for hours; `pq stamp` submits a
   bundle of any age. If the block comes after the certificates expired, no
   later run verifies the anchored proof; `pq-quote/src/lib.rs:13-22` takes for
   granted that the certificate was valid at the anchor time.
5. **The version of a certificate is not covered** (`cert_version`).
   `pq-subkey/src/lib.rs:132-133` says the signature covers every other field of a
   certificate. The signing bytes hold the constant `CERT_VERSION`, and `verify`
   never reads `cert.version`: a file of any version verifies.

A smaller divergence no run is about: the help text of `--esplora`
(`main.rs:102`) says it requires `--quote-time-unix`; the code does not.

## Not modelled

- A chain that is reorganised after a verdict, in `Archive`: there blocks only
  come on top, so `TimelyAnchorVerifies` and `VerdictStands` speak of blocks that
  stay. `PqVerify` is where the chain changes, between the requests of one command.
- What a write that fails half way leaves at `--out` (`pq-cli/src/main.rs:538`):
  `Archive` writes `Broken`, a file that does not parse. That a proof cut short
  never parses is assumed, not checked: the `.ots` codec is the `opentimestamps`
  crate's.
- The arithmetic of ML-DSA, SLH-DSA, ECDSA, X.509, COSE and the key derivation:
  libraries, and pure functions.
- Codecs and printing, `pq inspect` included.
- `accept` errors (logged), the limit of the kernel's backlog, and a caller that
  never reads its response (`write_all` would block as a read does).
- The timestamp branch of `pq_bundle::verify`: every caller passes `None`.
- Key generation from a seed (`PqRootKeypair::from_seed`, `pq-derive`): a key is its
  mnemonic and its path.

## Plan

Written, in this order: `SubkeyMerkle` and its proofs; `VerifyInputs`,
`PqVerdict`, `PqVerify` and its proofs; `OracleRoutes`, `OracleServer` and its
proofs; `Ceremony`, `Archive` and their proofs; `PqEncoding`, `RootSignatures` and
their proofs; `SubkeyRootProofs`; `OraclePromise` and the refinement; the verdicts
of `Archive` as those of `PqVerdict`.

What could follow:

1. An abstract ceremony, in which a boot finishes in one step or is lost, that
   `Ceremony` implements.
2. When a binary issues certificates: its state (serials, which are to be unique
   per root, `pq-subkey/src/lib.rs:107-108`, and which nothing keeps track of
   yet) beside `RootSignatures`, composed with `Ceremony`.

---------------------------- MODULE VerifyInputs ----------------------------
(***************************************************************************)
(* What `pq verify` and `pq verify-subkey` read, and the checks that are   *)
(* pure functions of it.                                                   *)
(*                                                                         *)
(* A digest is its preimage: the start_digest of a proof is the bundle it  *)
(* commits to, the user_data of a quote is the payload it commits to.  The *)
(* codecs (hex, base64, JSON, COSE, .ots) are left out: a file that does   *)
(* not decode is a file no check accepts.                                  *)
(***************************************************************************)
EXTENDS Integers, Sequences

CONSTANTS
  Commands,   \* the command lines an operator may run, with the files they name
  Upgrades,   \* the anchored proofs `ots upgrade` may write over a pending one
  Chains,     \* Bitcoin's best chain at a moment: heights -> [root, time]
  Roots,      \* Merkle roots of blocks
  Tolerance,  \* OVERRIDE_TOLERANCE_SECS
  Absent      \* None

\* What collect_attestations finds of a proof: (height, step output) in order.
Attestations == [height : Nat, root : Roots]
IsProof(p) == p.bitcoin \in Seq(Attestations)

ASSUME CommandsAssumption ==
  \A c \in Commands :
    /\ c.verb \in {"verify", "verify-subkey"}
    /\ c.verb = "verify" => c.ots # Absent /\ c.root # Absent
    /\ c.ots # Absent => IsProof(c.ots)
ASSUME UpgradesAssumption ==
  Absent \notin Upgrades /\ \A p \in Upgrades : IsProof(p) /\ p.bitcoin # << >>

-----------------------------------------------------------------------------
(* The bundle, [payload, quote, expected_pcrs, ml_sig, slh_sig, aws_root]: *)
(*   payload = [ml_pk, slh_pk, tree]  the canonical payload; `tree` stands *)
(*             for the subkeys' Merkle root and their number;              *)
(*   quote   = [ca, from, to, pcrs, user_data]  signed by a chain that     *)
(*             ends in the CA `ca`, every certificate valid in from .. to; *)
(*   ml_sig, slh_sig = [by, over]  the key and the bytes of a signature.   *)

\* NitroQuoteVerifier: the pinned CA, its chain as of t, three PCRs present.
QuoteVerifies(quote, ca, t) ==
  /\ quote.ca = ca
  /\ quote.from <= t /\ t <= quote.to
  /\ {0, 1, 2} \subseteq DOMAIN quote.pcrs

\* Mutant: one family is enough.
EitherVerifies(payload, ml_sig, slh_sig) ==
  \/ ml_sig = [by |-> payload.ml_pk, over |-> payload]
  \/ slh_sig = [by |-> payload.slh_pk, over |-> payload]

\* pq_core::verify_dual: both families, each under its own key.
DualVerifies(payload, ml_sig, slh_sig) ==
  /\ ml_sig = [by |-> payload.ml_pk, over |-> payload]
  /\ slh_sig = [by |-> payload.slh_pk, over |-> payload]

\* pq_bundle::verify without a timestamp verifier.
BundleVerifies(b, ca, t) ==
  /\ QuoteVerifies(b.quote, ca, t)
  /\ \E i \in 0 .. 2 : b.quote.pcrs[i] # 0
  /\ \A i \in 0 .. 2 : b.quote.pcrs[i] = b.expected_pcrs[i]
  /\ b.quote.user_data = b.payload
  /\ DualVerifies(b.payload, b.ml_sig, b.slh_sig)

\* Steps 2 to N of a command, as of t.
StepsPass(c, t) == c.root = c.bundle.aws_root /\ BundleVerifies(c.bundle, c.root, t)

\* The subkey JSON: `tree` is the root its record and path fold into (see
\* SubkeyMerkle), `sig` what its two signatures cover.
SubkeyPasses(c) ==
  /\ c.subkey.tree = c.bundle.payload.tree
  /\ c.message # Absent => c.subkey.sig = c.message

-----------------------------------------------------------------------------
(* The header source of a command, when the best chain is `chain`.         *)

Exclusive(c) == c.headers = Absent \/ ~c.esplora

\* HeaderSource: a header file, the explorer, or an empty map.
HeaderSource(c, chain) ==
  IF c.headers # Absent THEN c.headers ELSE IF c.esplora THEN chain ELSE << >>

Carries(c, chain, a) ==
  LET blocks == HeaderSource(c, chain)
  IN a.height \in DOMAIN blocks /\ blocks[a.height].root = a.root

\* The instant the block time and --quote-time-unix agree on, if there is one:
\* a header file may have no time for its block.
AgreedInstants(bt, ov) ==
  IF bt = Absent THEN {ov} \ {Absent}
  ELSE IF ov = Absent \/ (bt - ov <= Tolerance /\ ov - bt <= Tolerance) THEN {bt} ELSE {}

\* The instant of the block at height h; the explorer fails when it has none.
Instants(c, chain, h) ==
  LET blocks == HeaderSource(c, chain)
  IN IF h \in DOMAIN blocks THEN AgreedInstants(blocks[h].time, c.override) ELSE {}
=============================================================================

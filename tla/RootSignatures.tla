--------------------------- MODULE RootSignatures ---------------------------
(***************************************************************************)
(* What root keys sign, and what verifiers take those signatures for.      *)
(* The same two keys of a root sign the payload of its ceremony and the    *)
(* certificates of its subkeys (crate pq-subkey); an enclave of an older   *)
(* build signed and attested a payload of another formula.  The files that *)
(* carry fields and signatures may be put together by anybody, at any      *)
(* time, from anything that was ever signed.                               *)
(*                                                                         *)
(* A file is taken to carry the best signatures there are: one of a family *)
(* verifies when that key made it, or when the family has been broken.     *)
(***************************************************************************)
EXTENDS PqEncoding, FiniteSets

CONSTANTS
  RootKeys,       \* root key pairs, [ml, slh]
  SubkeyKeys,     \* subkey key pairs, [ml, slh]
  Metas,          \* SubkeyMeta: [serial, purpose, not_before, not_after]
  TreeRoots, Counts,   \* subkey_merkle_root, subkey_count
  SIGNING_DOMAIN, CERT_VERSION, USER_DATA_PREFIX,
  OtherVersions,  \* other values of a file's `version`
  Sha256(_),
  Times,          \* the values of `as_of`
  None,           \* no `as_of`
  MaxSigned       \* bound: messages signed

KeyPairs == [ml : Bytes, slh : Bytes]
ASSUME KeysAssumption ==
  /\ RootKeys \subseteq KeyPairs /\ SubkeyKeys \subseteq KeyPairs
  /\ \A r, q \in RootKeys : r.ml = q.ml \/ r.slh = q.slh => r = q
ASSUME MetasAssumption ==
  Metas \subseteq [serial : U64, purpose : {"Auth", "Encryption"}, not_before : U64, not_after : U64]
ASSUME TreesAssumption == TreeRoots \subseteq Bytes /\ Counts \subseteq U32
ASSUME NamesAssumption ==
  SIGNING_DOMAIN \in Bytes /\ CERT_VERSION \in Bytes /\ USER_DATA_PREFIX \in Bytes
ASSUME TimesAssumption == Times \subseteq Nat /\ None \notin Nat

\* What is hashed here, and that SHA-256 does not collide on it.
Hashed ==
  {CanonicalPayload(r.ml, r.slh) : r \in RootKeys}
  \cup {CanonicalPayloadWithSubkeys(r.ml, q.slh, t, n) :
          r \in RootKeys, q \in RootKeys, t \in TreeRoots, n \in Counts}
  \cup {LegacyPayload(r.ml, q.slh, t) : r \in RootKeys, q \in RootKeys, t \in TreeRoots}
ASSUME Sha256Assumption ==
  \A p, q \in Hashed : Sha256(p) \in Bytes /\ (Sha256(p) = Sha256(q) => p = q)

VARIABLES
  signed,      \* the calls of sign_payload: [by, over]
  issued,      \* history: the certificates and who issued them: [by, cert]
  ceremonies,  \* history: [by, formula, root, count, user_data]
  broken       \* signature families in which anybody can sign

vars == <<signed, issued, ceremonies, broken>>

RootBinding(r) == Sha256(CanonicalPayload(r.ml, r.slh))
UserDataCommitment(payload) == USER_DATA_PREFIX \o Sha256(payload)

\* The canonical bytes of a certificate bound to `binding`.
Message(binding, cert) ==
  SigningBytes(SIGNING_DOMAIN, CERT_VERSION, binding, cert.pk, cert.meta)

SignPayload(r, payload) == signed' = signed \cup {[by |-> r, over |-> payload]}

-----------------------------------------------------------------------------
Init == signed = {} /\ issued = {} /\ ceremonies = {} /\ broken = {}

\* An enclave draws a root of its own, signs the payload with it and has the NSM
\* attest the payload.
Attest(r, formula, root, count, payload) ==
  /\ Cardinality(signed) < MaxSigned
  /\ \A c \in ceremonies : c.by # r
  /\ SignPayload(r, payload)
  /\ ceremonies' = ceremonies \cup
       {[by |-> r, formula |-> formula, root |-> root, count |-> count,
         user_data |-> UserDataCommitment(payload)]}
  /\ UNCHANGED <<issued, broken>>

RunCeremony(r, root, count) ==
  Attest(r, "current", root, count, CanonicalPayloadWithSubkeys(r.ml, r.slh, root, count))

\* The same by an enclave of an older build, whose formula had no count.
OlderPayload(ml_pk, slh_pk, root) == CanonicalPayload(ml_pk, slh_pk) \o Lp(root)
OlderCeremony(r, root, count) ==
  Attest(r, "legacy", root, count, OlderPayload(r.ml, r.slh, root))

\* Mutant: the two keys of the subkey change places.
IssueSwapped(r, pk, meta) ==
  LET cert == [version |-> CERT_VERSION, root_binding |-> RootBinding(r),
               pk |-> [ml |-> pk.slh, slh |-> pk.ml], meta |-> meta]
  IN /\ Cardinality(signed) < MaxSigned
     /\ SignPayload(r, Message(RootBinding(r), cert))
     /\ issued' = issued \cup {[by |-> r, cert |-> cert]}
     /\ UNCHANGED <<ceremonies, broken>>

\* pq_subkey::issue.
Issue(r, pk, meta) ==
  LET cert == [version |-> CERT_VERSION, root_binding |-> RootBinding(r), pk |-> pk, meta |-> meta]
  IN /\ Cardinality(signed) < MaxSigned
     /\ SignPayload(r, Message(RootBinding(r), cert))
     /\ issued' = issued \cup {[by |-> r, cert |-> cert]}
     /\ UNCHANGED <<ceremonies, broken>>

\* One of the two families is broken one day.
Break(family) == broken = {} /\ broken' = {family} /\ UNCHANGED <<signed, issued, ceremonies>>

Next ==
  \/ \E r \in RootKeys, root \in TreeRoots, count \in Counts :
       RunCeremony(r, root, count) \/ OlderCeremony(r, root, count)
  \/ \E r \in RootKeys, pk \in SubkeyKeys, meta \in Metas : Issue(r, pk, meta)
  \/ \E family \in {"ml", "slh"} : Break(family)

Spec == Init /\ [][Next]_vars

-----------------------------------------------------------------------------
(* The verifiers. *)

FamilyVerifies(family, key, payload) ==
  family \in broken \/ \E s \in signed : s.by[family] = key /\ s.over = payload

\* Mutant: one family is enough.
EitherFamily(pk, payload) ==
  FamilyVerifies("ml", pk.ml, payload) \/ FamilyVerifies("slh", pk.slh, payload)

\* pq_core::verify_dual.
VerifyDual(pk, payload) ==
  FamilyVerifies("ml", pk.ml, payload) /\ FamilyVerifies("slh", pk.slh, payload)

\* Mutant: a certificate lives to the end of its last second.
WindowInclusive(meta, as_of) ==
  IF meta.not_before # 0 /\ as_of < meta.not_before THEN "NotYetValid"
  ELSE IF meta.not_after # 0 /\ as_of > meta.not_after THEN "Expired" ELSE "Ok"

Window(meta, as_of) ==
  IF meta.not_before # 0 /\ as_of < meta.not_before THEN "NotYetValid"
  ELSE IF meta.not_after # 0 /\ as_of >= meta.not_after THEN "Expired" ELSE "Ok"

\* Mutant: a file is trusted to say what it is bound to.
VerifyAsBound(cert, r, as_of) ==
  IF ~VerifyDual(r, Message(cert.root_binding, cert)) THEN "Signature"
  ELSE IF as_of = None THEN "Ok" ELSE Window(cert.meta, as_of)

\* pq_subkey::verify against the root r: the first check that fails.
Verify(cert, r, as_of) ==
  IF cert.root_binding # RootBinding(r) THEN "RootBindingMismatch"
  ELSE IF ~VerifyDual(r, Message(RootBinding(r), cert)) THEN "Signature"
  ELSE IF as_of = None THEN "Ok" ELSE Window(cert.meta, as_of)

\* Steps 4 and 5 of pq_bundle::verify, on a bundle [pk, root, count, user_data]:
\* the binding to the quote, and the signatures.
BundlePayload(b) == CanonicalPayloadWithSubkeys(b.pk.ml, b.pk.slh, b.root, b.count)
Bound(b) == b.user_data = UserDataCommitment(BundlePayload(b))
SignaturesPass(b) == VerifyDual(b.pk, BundlePayload(b))

\* diagnose_binding_mismatch: was this an older ceremony?
DiagnosedOlder(b) == b.user_data = UserDataCommitment(LegacyPayload(b.pk.ml, b.pk.slh, b.root))

-----------------------------------------------------------------------------
(* The files. *)

\* Certificates with any fields.
CertFiles ==
  [version : {CERT_VERSION} \cup OtherVersions, root_binding : {RootBinding(r) : r \in RootKeys},
   pk : SubkeyKeys, meta : Metas]

\* Bundles with any keys, tree and count, around a quote of any ceremony.
BundleKeys == [ml : {r.ml : r \in RootKeys}, slh : {r.slh : r \in RootKeys}]
BundleFiles ==
  [pk : BundleKeys, root : TreeRoots, count : Counts,
   user_data : {c.user_data : c \in ceremonies}]

-----------------------------------------------------------------------------
\* Shape of the state: every message is made of bytes, and the fields of a
\* certificate are those issue() was asked for.
TypeOK ==
  /\ signed \subseteq [by : RootKeys, over : Seq(Byte)]
  /\ issued \subseteq [by : RootKeys, cert : CertFiles]
  /\ ceremonies \subseteq [by : RootKeys, formula : {"current", "legacy"}, root : TreeRoots,
                         count : Counts, user_data : Seq(Byte)]
  /\ broken \in {{}, {"ml"}, {"slh"}}

\* A certificate that verifies against a root was issued by that root, for this
\* very subkey, purpose, serial number and window: whatever else its keys have
\* signed, whatever a file puts together, and even when one signature family is
\* broken (README.md:36-37, pq-subkey lib.rs:11-17, 168-170).
OnlyIssuedVerify ==
  \A c \in CertFiles, r \in RootKeys, as_of \in Times \cup {None} :
    Verify(c, r, as_of) = "Ok" => [by |-> r, cert |-> [c EXCEPT !.version = CERT_VERSION]] \in issued

\* An issued certificate verifies against its root for ever, and is told apart
\* from one of another root before any signature is looked at (lib.rs:279-283).
IssuedVerifies ==
  \A i \in issued, r \in RootKeys :
    Verify(i.cert, r, None) = IF r = i.by THEN "Ok" ELSE "RootBindingMismatch"

\* When a subkey is renewed with a window that starts where the last one ends,
\* exactly one of the two certificates is valid at every moment: no gap, no
\* overlap, an open start or end included (lib.rs:300-314).
NoGapAtRenewal ==
  \A i, j \in issued, t \in Times :
    LET from == i.cert.meta.not_before
        turn == i.cert.meta.not_after
        to   == j.cert.meta.not_after
    IN turn # 0 /\ j.cert.meta.not_before = turn /\ from <= t /\ (to = 0 \/ t < to) =>
         (Verify(i.cert, i.by, t) = "Ok" <=> Verify(j.cert, j.by, t) # "Ok")

\* A bundle that passes the binding alone is that of one ceremony of the current
\* formula: neither its keys nor the root or the number of its subkeys can be
\* edited around a genuine quote, and no quote of an older payload passes for
\* one, broken families or not (pq-core lib.rs:184-187).
OnlyCeremoniesBind ==
  \A b \in BundleFiles :
    Bound(b) =>
      \E c \in ceremonies :
        /\ c.by = b.pk /\ c.root = b.root /\ c.count = b.count
        /\ c.formula = "current" /\ c.user_data = b.user_data

\* The signatures alone, whatever the quote, show a ceremony of these keys with
\* this root and this count: what the same keys signed as a certificate or under
\* the older formula never passes for a bundle's signature, and one broken family
\* is not enough to make one (pq-core lib.rs:265-274, pq-bundle lib.rs:313-319).
OnlyCeremoniesSigned ==
  \A pk \in BundleKeys, root \in TreeRoots, count \in Counts :
    SignaturesPass([pk |-> pk, root |-> root, count |-> count]) =>
      \E c \in ceremonies :
        c.by = pk /\ c.root = root /\ c.count = count /\ c.formula = "current"

\* "We detect that precisely" (main.rs:288-289): a bundle that fails the binding
\* is put down to an older ceremony exactly when its quote is that of an older
\* ceremony with these keys and this root.
DiagnosisRight ==
  \A b \in BundleFiles :
    ~Bound(b) =>
      (DiagnosedOlder(b) <=>
         \E c \in ceremonies : /\ c.by = b.pk /\ c.root = b.root
                                /\ c.formula = "legacy" /\ c.user_data = b.user_data)

-----------------------------------------------------------------------------
\* What the doc of SubkeyCert says (lib.rs:132-133): the signature covers every
\* other field, so a file with any other field than issued does not verify.
SignatureCoversEveryField ==
  \A c \in CertFiles, r \in RootKeys :
    Verify(c, r, None) = "Ok" => [by |-> r, cert |-> c] \in issued
=============================================================================

------------------------ MODULE RootSignaturesProofs ------------------------
(***************************************************************************)
(* Every property of RootSignatures, for every set of roots, subkeys and   *)
(* windows, and every SHA-256 that does not collide on what is hashed.     *)
(* The invariant follows each signature to the certificate or the ceremony *)
(* it was made for; the theorems about layouts do the rest.                *)
(***************************************************************************)
EXTENDS RootSignatures, PqEncodingProofs

-----------------------------------------------------------------------------
(* The invariant. *)

\* What a ceremony had its root sign and the enclave attest.
CeremonyPayload(c) ==
  IF c.formula = "current"
  THEN CanonicalPayloadWithSubkeys(c.by.ml, c.by.slh, c.root, c.count)
  ELSE LegacyPayload(c.by.ml, c.by.slh, c.root)

\* Every signature was made for a certificate or for a ceremony.
SignedOrigin ==
  \A s \in signed :
    \/ \E i \in issued : s.by = i.by /\ s.over = Message(RootBinding(i.by), i.cert)
    \/ \E c \in ceremonies : s.by = c.by /\ s.over = CeremonyPayload(c)

\* Every certificate is bound to its root and signed by it.
IssuedGenuine ==
  \A i \in issued :
    /\ i.cert.root_binding = RootBinding(i.by) /\ i.cert.version = CERT_VERSION
    /\ [by |-> i.by, over |-> Message(RootBinding(i.by), i.cert)] \in signed

\* Every quote commits to what was signed.
CeremoniesGenuine ==
  \A c \in ceremonies : c.user_data = UserDataCommitment(CeremonyPayload(c))

IInv == TypeOK /\ SignedOrigin /\ IssuedGenuine /\ CeremoniesGenuine

-----------------------------------------------------------------------------
(* Types. *)

LEMMA RootType ==
  ASSUME NEW r \in RootKeys
  PROVE  r \in KeysType /\ r.ml \in Bytes /\ r.slh \in Bytes
BY KeysAssumption DEF KeyPairs, KeysType

LEMMA SubkeyType ==
  ASSUME NEW pk \in SubkeyKeys, NEW meta \in Metas
  PROVE  pk \in KeysType /\ meta \in MetaType
BY KeysAssumption, MetasAssumption DEF KeyPairs, KeysType, MetaType, Purposes

LEMMA TreeType ==
  ASSUME NEW root \in TreeRoots, NEW count \in Counts
  PROVE  root \in Bytes /\ count \in U32
BY TreesAssumption

LEMMA ThreeFieldsType ==
  \A a, b, r \in Bytes, x \in Seq(Byte) : ThreeFields(a, b, r, x) \in Seq(Byte)
<1> SUFFICES ASSUME NEW a \in Bytes, NEW b \in Bytes, NEW r \in Bytes, NEW x \in Seq(Byte)
             PROVE  ThreeFields(a, b, r, x) \in Seq(Byte)
  OBVIOUS
<1>1. CanonicalPayload(a, b) \in Seq(Byte) /\ Lp(r) \in Seq(Byte)
  BY CanonicalPayloadType, LpType, Zenon
<1>2. CanonicalPayload(a, b) \o Lp(r) \in Seq(Byte)
  BY <1>1, BytesConcat, Zenon
<1> QED BY <1>2, BytesConcat, Zenon DEF ThreeFields

LEMMA PayloadTypes ==
  ASSUME NEW a \in Bytes, NEW b \in Bytes, NEW r \in Bytes
  PROVE  /\ \A n \in U32 : CanonicalPayloadWithSubkeys(a, b, r, n) \in Seq(Byte)
         /\ LegacyPayload(a, b, r) \in Seq(Byte)
<1>1. \A x \in Seq(Byte) : ThreeFields(a, b, r, x) \in Seq(Byte)
  BY ThreeFieldsType, Zenon
<1>2. <<>> \in Seq(Byte)
  OBVIOUS
<1>3. \A n \in U32 : CanonicalPayloadWithSubkeys(a, b, r, n) = ThreeFields(a, b, r, Be32(n))
  BY Zenon DEF CanonicalPayloadWithSubkeys, ThreeFields
<1>4. LegacyPayload(a, b, r) = ThreeFields(a, b, r, <<>>)
  BY LegacyFields, Zenon
<1>5. \A n \in U32 : Be32(n) \in Seq(Byte)
  BY U32Bytes, Zenon
<1>6. \A n \in U32 : CanonicalPayloadWithSubkeys(a, b, r, n) \in Seq(Byte)
  BY <1>1, <1>3, <1>5, Zenon
<1>7. LegacyPayload(a, b, r) \in Seq(Byte)
  BY <1>1, <1>2, <1>4, Zenon
<1> QED BY <1>6, <1>7, Zenon

-----------------------------------------------------------------------------
(* Hashes. *)

LEMMA HashedPayloads ==
  ASSUME NEW r \in RootKeys
  PROVE  /\ CanonicalPayload(r.ml, r.slh) \in Hashed
         /\ \A q \in RootKeys, root \in TreeRoots :
              /\ \A count \in Counts : CanonicalPayloadWithSubkeys(r.ml, q.slh, root, count) \in Hashed
              /\ LegacyPayload(r.ml, q.slh, root) \in Hashed
<1>1. CanonicalPayload(r.ml, r.slh) \in {CanonicalPayload(x.ml, x.slh) : x \in RootKeys}
  BY Zenon
<1>2. \A q \in RootKeys, root \in TreeRoots, count \in Counts :
        CanonicalPayloadWithSubkeys(r.ml, q.slh, root, count) \in
          {CanonicalPayloadWithSubkeys(x.ml, y.slh, t, n) :
             x \in RootKeys, y \in RootKeys, t \in TreeRoots, n \in Counts}
  OBVIOUS
<1>3. \A q \in RootKeys, root \in TreeRoots :
        LegacyPayload(r.ml, q.slh, root) \in
          {LegacyPayload(x.ml, y.slh, t) : x \in RootKeys, y \in RootKeys, t \in TreeRoots}
  OBVIOUS
<1>4. CanonicalPayload(r.ml, r.slh) \in Hashed
  BY <1>1 DEF Hashed
<1>5. ASSUME NEW q \in RootKeys, NEW root \in TreeRoots, NEW count \in Counts
      PROVE  CanonicalPayloadWithSubkeys(r.ml, q.slh, root, count) \in Hashed
  BY <1>2 DEF Hashed
<1>6. ASSUME NEW q \in RootKeys, NEW root \in TreeRoots
      PROVE  LegacyPayload(r.ml, q.slh, root) \in Hashed
  BY <1>3 DEF Hashed
<1> QED BY <1>4, <1>5, <1>6, Zenon

LEMMA BindingFacts ==
  /\ \A r \in RootKeys : RootBinding(r) \in Bytes
  /\ \A r, q \in RootKeys : RootBinding(r) = RootBinding(q) => r = q
<1>1. \A r \in RootKeys : CanonicalPayload(r.ml, r.slh) \in Hashed
  BY HashedPayloads, Zenon
<1>2. ASSUME NEW r \in RootKeys
      PROVE  RootBinding(r) \in Bytes
  BY <1>1, Sha256Assumption, Zenon DEF RootBinding
<1>3. ASSUME NEW r \in RootKeys, NEW q \in RootKeys, RootBinding(r) = RootBinding(q)
      PROVE  r = q
  <2>1. CanonicalPayload(r.ml, r.slh) = CanonicalPayload(q.ml, q.slh)
    BY <1>1, <1>3, Sha256Assumption, Zenon DEF RootBinding
  <2>2. r.ml \in Bytes /\ r.slh \in Bytes
    BY RootType, Zenon
  <2>3. q.ml \in Bytes /\ q.slh \in Bytes
    BY RootType, Zenon
  <2>4. \A f, g \in Bytes :
          CanonicalPayload(r.ml, r.slh) = CanonicalPayload(f, g) => r.ml = f /\ r.slh = g
    BY <2>2, CanonicalPayloadInjective, Zenon
  <2>5. r.ml = q.ml
    BY <2>1, <2>3, <2>4, Zenon
  <2> QED BY <2>5, KeysAssumption, Zenon
<1> QED BY <1>2, <1>3, Zenon

\* Of what is hashed, equal commitments are of equal payloads.
LEMMA CommitmentFacts ==
  \A p, q \in Hashed :
    /\ UserDataCommitment(p) \in Seq(Byte)
    /\ UserDataCommitment(p) = UserDataCommitment(q) => p = q
<1> SUFFICES ASSUME NEW p \in Hashed, NEW q \in Hashed
             PROVE  /\ UserDataCommitment(p) \in Seq(Byte)
                    /\ UserDataCommitment(p) = UserDataCommitment(q) => p = q
  OBVIOUS
<1>1. Sha256(p) \in Bytes /\ Sha256(q) \in Bytes /\ (Sha256(p) = Sha256(q) => p = q)
  BY Sha256Assumption, Zenon
<1>2. USER_DATA_PREFIX \in Seq(Byte) /\ Sha256(p) \in Seq(Byte) /\ Sha256(q) \in Seq(Byte)
  BY <1>1, NamesAssumption, Zenon DEF Bytes
<1>3. UserDataCommitment(p) \in Seq(Byte)
  BY <1>2, BytesConcat, Zenon DEF UserDataCommitment
<1>4. \A f, g \in Seq(Byte) : USER_DATA_PREFIX \o f = USER_DATA_PREFIX \o g => f = g
  BY <1>2, BytesCut, Zenon
<1>5. UserDataCommitment(p) = UserDataCommitment(q) => Sha256(p) = Sha256(q)
  BY <1>2, <1>4, Zenon DEF UserDataCommitment
<1> QED BY <1>1, <1>3, <1>5, Zenon

LEMMA MessageType ==
  ASSUME NEW r \in RootKeys, NEW cert, cert.pk \in SubkeyKeys, cert.meta \in Metas
  PROVE  Message(RootBinding(r), cert) \in Seq(Byte)
<1> DEFINE pk == cert.pk
           meta == cert.meta
           x == Subject(pk, meta)
<1>1. pk \in KeysType /\ meta \in MetaType
  BY SubkeyType, Zenon
<1>2. SIGNING_DOMAIN \in Bytes /\ CERT_VERSION \in Bytes /\ RootBinding(r) \in Bytes
  BY NamesAssumption, BindingFacts, Zenon
<1>3. x \in Seq(Byte)
  BY <1>1, SubjectType, Zenon
<1>4. SigningBytes(SIGNING_DOMAIN, CERT_VERSION, RootBinding(r), pk, meta)
        = ThreeFields(SIGNING_DOMAIN, CERT_VERSION, RootBinding(r), x)
  <2> HIDE DEF pk, meta
  <2> QED BY <1>1, <1>2, SigningFields, SMTT(30)
<1>5. ThreeFields(SIGNING_DOMAIN, CERT_VERSION, RootBinding(r), x) \in Seq(Byte)
  <2> HIDE DEF x
  <2> QED BY <1>2, <1>3, ThreeFieldsType, SMTT(30)
<1> QED BY <1>4, <1>5, Zenon DEF Message

-----------------------------------------------------------------------------
(* The invariant is inductive. *)

LEMMA InitIInv ==
  ASSUME Init
  PROVE  IInv
BY DEF Init, IInv, TypeOK, SignedOrigin, IssuedGenuine, CeremoniesGenuine

\* Both kinds of ceremony.
LEMMA AttestPreserves ==
  ASSUME IInv, NEW r \in RootKeys, NEW formula \in {"current", "legacy"},
         NEW root \in TreeRoots, NEW count \in Counts, NEW payload,
         payload = CeremonyPayload([by |-> r, formula |-> formula, root |-> root, count |-> count,
                                    user_data |-> UserDataCommitment(payload)]),
         Attest(r, formula, root, count, payload)
  PROVE  IInv'
<1> DEFINE new == [by |-> r, formula |-> formula, root |-> root, count |-> count,
                   user_data |-> UserDataCommitment(payload)]
           sig == [by |-> r, over |-> payload]
<1>1. /\ signed' = signed \cup {sig} /\ ceremonies' = ceremonies \cup {new}
      /\ issued' = issued /\ broken' = broken
  BY DEF Attest, SignPayload
<1>2. payload \in Seq(Byte) /\ UserDataCommitment(payload) \in Seq(Byte)
  <2>1. payload = IF formula = "current"
                  THEN CanonicalPayloadWithSubkeys(r.ml, r.slh, root, count)
                  ELSE LegacyPayload(r.ml, r.slh, root)
    BY DEF CeremonyPayload
  <2>2. payload \in Hashed
    BY <2>1, HashedPayloads
  <2>3. r.ml \in Bytes /\ r.slh \in Bytes /\ root \in Bytes /\ count \in U32
    BY RootType, TreeType
  <2>4. payload \in Seq(Byte)
    BY <2>1, <2>3, PayloadTypes
  <2> QED BY <2>2, <2>4, CommitmentFacts, Zenon
<1>3. TypeOK'
  <2>1. sig \in [by : RootKeys, over : Seq(Byte)]
    BY <1>2
  <2>2. new \in [by : RootKeys, formula : {"current", "legacy"}, root : TreeRoots,
                 count : Counts, user_data : Seq(Byte)]
    BY <1>2
  <2> QED BY <1>1, <2>1, <2>2, Zenon DEF IInv, TypeOK
<1>4. SignedOrigin'
  <2>1. sig.by = new.by /\ sig.over = CeremonyPayload(new)
    OBVIOUS
  <2> HIDE DEF sig, new
  <2>2. ASSUME NEW s \in signed
        PROVE  \/ \E i \in issued' : s.by = i.by /\ s.over = Message(RootBinding(i.by), i.cert)
               \/ \E c \in ceremonies' : s.by = c.by /\ s.over = CeremonyPayload(c)
    BY <1>1, Zenon DEF IInv, SignedOrigin
  <2> QED BY <1>1, <2>1, <2>2, Zenon DEF SignedOrigin
<1>5. IssuedGenuine'
  BY <1>1, Zenon DEF IInv, IssuedGenuine
<1>6. CeremoniesGenuine'
  <2>1. new.user_data = UserDataCommitment(CeremonyPayload(new))
    OBVIOUS
  <2> HIDE DEF new
  <2> QED BY <1>1, <2>1, Zenon DEF IInv, CeremoniesGenuine
<1> QED BY <1>3, <1>4, <1>5, <1>6 DEF IInv

LEMMA RunCeremonyPreserves ==
  ASSUME IInv, NEW r \in RootKeys, NEW root \in TreeRoots, NEW count \in Counts,
         RunCeremony(r, root, count)
  PROVE  IInv'
<1> DEFINE payload == CanonicalPayloadWithSubkeys(r.ml, r.slh, root, count)
<1>1. payload = CeremonyPayload([by |-> r, formula |-> "current", root |-> root, count |-> count,
                                 user_data |-> UserDataCommitment(payload)])
  BY DEF CeremonyPayload
<1>2. Attest(r, "current", root, count, payload)
  BY DEF RunCeremony
<1> HIDE DEF payload
<1> QED BY <1>1, <1>2, AttestPreserves

LEMMA OlderCeremonyPreserves ==
  ASSUME IInv, NEW r \in RootKeys, NEW root \in TreeRoots, NEW count \in Counts,
         OlderCeremony(r, root, count)
  PROVE  IInv'
<1> DEFINE payload == LegacyPayload(r.ml, r.slh, root)
<1>1. payload = CeremonyPayload([by |-> r, formula |-> "legacy", root |-> root, count |-> count,
                                 user_data |-> UserDataCommitment(payload)])
  BY DEF CeremonyPayload
<1>2. Attest(r, "legacy", root, count, payload)
  BY DEF OlderCeremony, OlderPayload, LegacyPayload
<1> HIDE DEF payload
<1> QED BY <1>1, <1>2, AttestPreserves

LEMMA IssuePreserves ==
  ASSUME IInv, NEW r \in RootKeys, NEW pk \in SubkeyKeys, NEW meta \in Metas, Issue(r, pk, meta)
  PROVE  IInv'
<1> DEFINE cert == [version |-> CERT_VERSION, root_binding |-> RootBinding(r),
                    pk |-> pk, meta |-> meta]
           sig == [by |-> r, over |-> Message(RootBinding(r), cert)]
           new == [by |-> r, cert |-> cert]
<1>1. /\ signed' = signed \cup {sig} /\ issued' = issued \cup {new}
      /\ ceremonies' = ceremonies /\ broken' = broken
  BY DEF Issue, SignPayload
<1>2. cert \in CertFiles
  BY DEF CertFiles
<1>3. TypeOK'
  <2>1. sig \in [by : RootKeys, over : Seq(Byte)]
    <3>1. cert.pk \in SubkeyKeys /\ cert.meta \in Metas
      OBVIOUS
    <3> HIDE DEF cert
    <3>2. Message(RootBinding(r), cert) \in Seq(Byte)
      BY <3>1, MessageType, Zenon
    <3> QED BY <3>2
  <2>2. new \in [by : RootKeys, cert : CertFiles]
    <3> HIDE DEF cert
    <3> QED BY <1>2
  <2> QED BY <1>1, <2>1, <2>2, Zenon DEF IInv, TypeOK
<1>4. SignedOrigin'
  <2>1. sig.by = new.by /\ sig.over = Message(RootBinding(new.by), new.cert)
    OBVIOUS
  <2> HIDE DEF sig, new
  <2>2. ASSUME NEW s \in signed
        PROVE  \/ \E i \in issued' : s.by = i.by /\ s.over = Message(RootBinding(i.by), i.cert)
               \/ \E c \in ceremonies' : s.by = c.by /\ s.over = CeremonyPayload(c)
    BY <1>1, Zenon DEF IInv, SignedOrigin
  <2> QED BY <1>1, <2>1, <2>2, Zenon DEF SignedOrigin
<1>5. IssuedGenuine'
  <2>1. /\ new.cert.root_binding = RootBinding(new.by) /\ new.cert.version = CERT_VERSION
        /\ sig = [by |-> new.by, over |-> Message(RootBinding(new.by), new.cert)]
    OBVIOUS
  <2> HIDE DEF sig, new
  <2> QED BY <1>1, <2>1, Zenon DEF IInv, IssuedGenuine
<1>6. CeremoniesGenuine'
  BY <1>1, Zenon DEF IInv, CeremoniesGenuine
<1> QED BY <1>3, <1>4, <1>5, <1>6 DEF IInv

LEMMA BreakPreserves ==
  ASSUME IInv, NEW family \in {"ml", "slh"}, Break(family)
  PROVE  IInv'
<1>1. signed' = signed /\ issued' = issued /\ ceremonies' = ceremonies /\ broken' = {family}
  BY DEF Break
<1>2. TypeOK'
  BY <1>1 DEF IInv, TypeOK
<1>3. SignedOrigin' /\ IssuedGenuine' /\ CeremoniesGenuine'
  BY <1>1, Zenon DEF IInv, SignedOrigin, IssuedGenuine, CeremoniesGenuine
<1> QED BY <1>2, <1>3 DEF IInv

\* The invariant: each signature is for a certificate that was issued or a
\* ceremony that was held, and each of those has its signature and its quote.
THEOREM Invariance == Spec => []IInv
<1>1. ASSUME IInv, [Next]_vars
      PROVE  IInv'
  <2>1. CASE Next
    <3>1. CASE \E r \in RootKeys, root \in TreeRoots, count \in Counts :
                 RunCeremony(r, root, count) \/ OlderCeremony(r, root, count)
      BY <1>1, <3>1, RunCeremonyPreserves, OlderCeremonyPreserves, Zenon
    <3>2. CASE \E r \in RootKeys, pk \in SubkeyKeys, meta \in Metas : Issue(r, pk, meta)
      BY <1>1, <3>2, IssuePreserves, Zenon
    <3>3. CASE \E family \in {"ml", "slh"} : Break(family)
      BY <1>1, <3>3, BreakPreserves, Zenon
    <3> QED BY <2>1, <3>1, <3>2, <3>3, Zenon DEF Next
  <2>2. CASE UNCHANGED vars
    BY <1>1, <2>2, Zenon DEF vars, IInv, TypeOK, SignedOrigin, IssuedGenuine, CeremoniesGenuine
  <2> QED BY <1>1, <2>1, <2>2
<1> QED BY <1>1, InitIInv, PTL DEF Spec

\* Every message is made of bytes; the fields of a certificate are those issue()
\* was asked for.
THEOREM TypeCorrect == Spec => []TypeOK
<1>1. IInv => TypeOK
  BY DEF IInv
<1> QED BY <1>1, Invariance, PTL

-----------------------------------------------------------------------------
(* Certificates. *)

\* A verified message was signed by that root: at most one family is broken.
LEMMA VerifiedIsSigned ==
  ASSUME IInv, NEW r \in RootKeys, NEW payload, VerifyDual(r, payload)
  PROVE  \E s \in signed : s.by = r /\ s.over = payload
<1>1. signed \subseteq [by : RootKeys, over : Seq(Byte)] /\ broken \in {{}, {"ml"}, {"slh"}}
  BY DEF IInv, TypeOK
<1>2. PICK family \in {"ml", "slh"} : family \notin broken
  BY <1>1
<1>3. FamilyVerifies(family, r[family], payload)
  <2>1. CASE family = "ml"
    BY <2>1 DEF VerifyDual
  <2>2. CASE family = "slh"
    BY <2>2 DEF VerifyDual
  <2> QED BY <1>2, <2>1, <2>2
<1>4. PICK s \in signed : s.by[family] = r[family] /\ s.over = payload
  BY <1>2, <1>3, Zenon DEF FamilyVerifies
<1>5. s.by \in RootKeys
  BY <1>1, <1>4
<1>6. s.by.ml = r.ml \/ s.by.slh = r.slh
  BY <1>2, <1>4
<1>7. s.by = r
  BY <1>5, <1>6, KeysAssumption, Zenon
<1> QED BY <1>4, <1>7, Zenon

\* Messages of certificates bound to the same root.
LEMMA MessageInjective ==
  ASSUME NEW r \in RootKeys,
         NEW c, c.pk \in SubkeyKeys, c.meta \in Metas,
         NEW d, d.pk \in SubkeyKeys, d.meta \in Metas,
         Message(RootBinding(r), c) = Message(RootBinding(r), d)
  PROVE  c.pk = d.pk /\ c.meta = d.meta
<1>1. SIGNING_DOMAIN \in Bytes /\ CERT_VERSION \in Bytes /\ RootBinding(r) \in Bytes
  BY NamesAssumption, BindingFacts, Zenon
<1> DEFINE pk == c.pk
           meta == c.meta
           pk2 == d.pk
           meta2 == d.meta
           binding == RootBinding(r)
<1>2. pk \in KeysType /\ meta \in MetaType
  BY SubkeyType, Zenon
<1>3. pk2 \in KeysType /\ meta2 \in MetaType
  BY SubkeyType, Zenon
<1>4. SigningBytes(SIGNING_DOMAIN, CERT_VERSION, binding, pk, meta)
        = SigningBytes(SIGNING_DOMAIN, CERT_VERSION, binding, pk2, meta2)
  BY Zenon DEF Message
<1>5. binding \in Bytes
  BY <1>1
<1> SUFFICES pk = pk2 /\ meta = meta2
  OBVIOUS
<1> HIDE DEF pk, meta, pk2, meta2, binding
<1> QED BY <1>1, <1>2, <1>3, <1>4, <1>5, SigningBytesInjective, SMTT(60)

\* No certificate is a payload.
LEMMA MessageIsNoPayload ==
  ASSUME IInv, NEW r \in RootKeys, NEW cert, cert.pk \in SubkeyKeys, cert.meta \in Metas,
         NEW c \in ceremonies
  PROVE  Message(RootBinding(r), cert) # CeremonyPayload(c)
<1> DEFINE pk == cert.pk
           meta == cert.meta
           binding == RootBinding(r)
           a == c.by.ml
           b == c.by.slh
           root == c.root
           n == c.count
<1>1. pk \in KeysType /\ meta \in MetaType
  BY SubkeyType, Zenon
<1>2. SIGNING_DOMAIN \in Bytes /\ CERT_VERSION \in Bytes /\ binding \in Bytes
  BY NamesAssumption, BindingFacts, Zenon
<1>3. c.by \in RootKeys /\ c.root \in TreeRoots /\ c.count \in Counts
  BY DEF IInv, TypeOK
<1>4. a \in Bytes /\ b \in Bytes
  BY <1>3, RootType, Zenon
<1>5. root \in Bytes /\ n \in U32
  BY <1>3, TreeType, Zenon
<1>6. /\ CeremonyPayload(c) = CanonicalPayloadWithSubkeys(a, b, root, n)
           \/ CeremonyPayload(c) = LegacyPayload(a, b, root)
      /\ Message(RootBinding(r), cert) = SigningBytes(SIGNING_DOMAIN, CERT_VERSION, binding, pk, meta)
  BY DEF CeremonyPayload, Message
<1>7. /\ SigningBytes(SIGNING_DOMAIN, CERT_VERSION, binding, pk, meta)
           # CanonicalPayloadWithSubkeys(a, b, root, n)
      /\ SigningBytes(SIGNING_DOMAIN, CERT_VERSION, binding, pk, meta) # LegacyPayload(a, b, root)
  <2> HIDE DEF pk, meta, binding, a, b, root, n
  <2> QED BY <1>1, <1>2, <1>4, <1>5, CertificatesAreNotPayloads, SMTT(60)
<1> QED BY <1>6, <1>7, Zenon

LEMMA IssuedType ==
  ASSUME IInv, NEW i \in issued
  PROVE  /\ i = [by |-> i.by, cert |-> i.cert]
         /\ i.by \in RootKeys /\ i.cert \in CertFiles
         /\ i.cert.pk \in SubkeyKeys /\ i.cert.meta \in Metas
<1>1. i \in [by : RootKeys, cert : CertFiles]
  BY Zenon DEF IInv, TypeOK
<1>2. i = [by |-> i.by, cert |-> i.cert] /\ i.by \in RootKeys /\ i.cert \in CertFiles
  <2> HIDE DEF CertFiles
  <2> QED BY <1>1
<1>3. \A c \in CertFiles : c.pk \in SubkeyKeys /\ c.meta \in Metas
  BY DEF CertFiles
<1> QED BY <1>2, <1>3, Zenon

LEMMA OnlyIssued ==
  ASSUME IInv, NEW c \in CertFiles, NEW r \in RootKeys, NEW as_of,
         Verify(c, r, as_of) = "Ok"
  PROVE  [by |-> r, cert |-> [c EXCEPT !.version = CERT_VERSION]] \in issued
<1>1. c.pk \in SubkeyKeys /\ c.meta \in Metas
  BY DEF CertFiles
<1> DEFINE M == Message(RootBinding(r), c)
<1>2. c.root_binding = RootBinding(r) /\ VerifyDual(r, M)
  BY DEF Verify
<1>3. PICK s \in signed : s.by = r /\ s.over = M
  <2> HIDE DEF M
  <2> QED BY <1>2, VerifiedIsSigned, Zenon
<1>4. \A d \in ceremonies : s.over # CeremonyPayload(d)
  BY <1>1, <1>3, MessageIsNoPayload, Zenon
<1>5. PICK i \in issued : s.by = i.by /\ s.over = Message(RootBinding(i.by), i.cert)
  BY <1>4, Zenon DEF IInv, SignedOrigin
<1>6. i = [by |-> i.by, cert |-> i.cert] /\ i.cert.pk \in SubkeyKeys /\ i.cert.meta \in Metas
  BY IssuedType, Zenon
<1>7. i.by = r /\ Message(RootBinding(r), c) = Message(RootBinding(r), i.cert)
  BY <1>3, <1>5, Zenon
<1>8. c.pk = i.cert.pk /\ c.meta = i.cert.meta
  <2> DEFINE d == i.cert
  <2>1. d.pk \in SubkeyKeys /\ d.meta \in Metas /\ Message(RootBinding(r), c) = Message(RootBinding(r), d)
    BY <1>6, <1>7, Zenon
  <2> SUFFICES c.pk = d.pk /\ c.meta = d.meta
    OBVIOUS
  <2> HIDE DEF d
  <2> QED BY <1>1, <2>1, MessageInjective, SMTT(30)
<1>9. i.cert.root_binding = RootBinding(r) /\ i.cert.version = CERT_VERSION
  BY <1>7, Zenon DEF IInv, IssuedGenuine
<1>10. i.cert \in CertFiles
  BY IssuedType, Zenon
<1>11. [c EXCEPT !.version = CERT_VERSION] = i.cert
  BY <1>2, <1>8, <1>9, <1>10 DEF CertFiles
<1> QED BY <1>6, <1>7, <1>11, Zenon

\* Whatever a root's keys have signed, and whatever a file puts together, a
\* certificate that verifies is one the root issued, field by field.
THEOREM OnlyIssuedCertificates == Spec => []OnlyIssuedVerify
<1>1. IInv => OnlyIssuedVerify
  BY OnlyIssued, Zenon DEF OnlyIssuedVerify
<1> QED BY <1>1, Invariance, PTL

LEMMA IssuedSigned ==
  ASSUME IInv, NEW i \in issued
  PROVE  /\ i.cert.root_binding = RootBinding(i.by)
         /\ VerifyDual(i.by, Message(RootBinding(i.by), i.cert))
<1> DEFINE M == Message(RootBinding(i.by), i.cert)
           sig == [by |-> i.by, over |-> M]
<1>1. i.cert.root_binding = RootBinding(i.by) /\ sig \in signed
  BY Zenon DEF IInv, IssuedGenuine
<1>2. sig.by = i.by /\ sig.over = M
  OBVIOUS
<1> HIDE DEF M, sig
<1>3. FamilyVerifies("ml", i.by.ml, M) /\ FamilyVerifies("slh", i.by.slh, M)
  BY <1>1, <1>2 DEF FamilyVerifies
<1> QED BY <1>1, <1>3 DEF VerifyDual, M

\* An issued certificate verifies against its root for ever; against any other
\* root it fails on the binding.
THEOREM IssuedCertificates == Spec => []IssuedVerifies
<1>1. ASSUME IInv, NEW i \in issued, NEW r \in RootKeys
      PROVE  Verify(i.cert, r, None) = IF r = i.by THEN "Ok" ELSE "RootBindingMismatch"
  <2>1. i.by \in RootKeys
    BY <1>1, IssuedType, Zenon
  <2>2. /\ i.cert.root_binding = RootBinding(i.by)
        /\ VerifyDual(i.by, Message(RootBinding(i.by), i.cert))
    BY <1>1, IssuedSigned, Zenon
  <2>3. r # i.by => i.cert.root_binding # RootBinding(r)
    BY <2>1, <2>2, BindingFacts, Zenon
  <2> QED BY <2>2, <2>3, Zenon DEF Verify
<1>2. IInv => IssuedVerifies
  BY <1>1, Zenon DEF IssuedVerifies
<1> QED BY <1>2, Invariance, PTL

\* Of two certificates of which one begins when the other ends, exactly one is
\* valid at every moment from the beginning of the first to the end of the second.
THEOREM Renewal == Spec => []NoGapAtRenewal
<1>1. ASSUME IInv, NEW i \in issued, NEW t \in Times
      PROVE  Verify(i.cert, i.by, t) = Window(i.cert.meta, t)
  <2>1. /\ i.cert.root_binding = RootBinding(i.by)
        /\ VerifyDual(i.by, Message(RootBinding(i.by), i.cert))
    BY <1>1, IssuedSigned, Zenon
  <2>2. t # None
    BY TimesAssumption, Zenon
  <2> QED BY <2>1, <2>2, Zenon DEF Verify
<1>2. ASSUME IInv, NEW i \in issued
      PROVE  i.cert.meta.not_before \in Nat /\ i.cert.meta.not_after \in Nat
  <2>1. i.cert.meta \in Metas
    BY <1>2, IssuedType, Zenon
  <2>2. i.cert.meta.not_before \in U64 /\ i.cert.meta.not_after \in U64
    BY <2>1, MetasAssumption
  <2> QED BY <2>2, Zenon DEF U64
<1>3. ASSUME NEW t \in Nat,
             NEW m, m.not_before \in Nat, m.not_after \in Nat,
             NEW n, n.not_before \in Nat, n.not_after \in Nat,
             m.not_after # 0, n.not_before = m.not_after, m.not_before <= t,
             n.not_after = 0 \/ t < n.not_after
      PROVE  Window(m, t) = "Ok" <=> Window(n, t) # "Ok"
  BY <1>3 DEF Window
<1>4. ASSUME IInv, NEW i \in issued, NEW j \in issued, NEW t \in Times,
             i.cert.meta.not_after # 0, j.cert.meta.not_before = i.cert.meta.not_after,
             i.cert.meta.not_before <= t, j.cert.meta.not_after = 0 \/ t < j.cert.meta.not_after
      PROVE  Verify(i.cert, i.by, t) = "Ok" <=> Verify(j.cert, j.by, t) # "Ok"
  <2>1. /\ Verify(i.cert, i.by, t) = Window(i.cert.meta, t)
        /\ Verify(j.cert, j.by, t) = Window(j.cert.meta, t)
    BY <1>1, <1>4, Zenon
  <2>2. /\ i.cert.meta.not_before \in Nat /\ i.cert.meta.not_after \in Nat
        /\ j.cert.meta.not_before \in Nat /\ j.cert.meta.not_after \in Nat
    BY <1>2, <1>4, Zenon
  <2>3. t \in Nat
    BY TimesAssumption, Zenon
  <2>4. Window(i.cert.meta, t) = "Ok" <=> Window(j.cert.meta, t) # "Ok"
    <3> DEFINE m == i.cert.meta
               n == j.cert.meta
    <3>1. /\ m.not_before \in Nat /\ m.not_after \in Nat /\ n.not_before \in Nat /\ n.not_after \in Nat
          /\ m.not_after # 0 /\ n.not_before = m.not_after /\ m.not_before <= t
          /\ n.not_after = 0 \/ t < n.not_after
      BY <1>4, <2>2
    <3> HIDE DEF m, n
    <3>2. Window(m, t) = "Ok" <=> Window(n, t) # "Ok"
      BY <1>3, <2>3, <3>1, SMTT(30)
    <3> QED BY <3>2 DEF m, n
  <2> QED BY <2>1, <2>4, Zenon
<1>5. IInv => NoGapAtRenewal
  BY <1>4, Zenon DEF NoGapAtRenewal
<1> QED BY <1>5, Invariance, PTL

-----------------------------------------------------------------------------
(* Bundles. *)

\* A bundle whose user data commit to a payload of its own fields is that of a
\* ceremony over this payload.
LEMMA CommittedPayload ==
  ASSUME IInv, NEW b \in BundleFiles, NEW payload \in Hashed,
         b.user_data = UserDataCommitment(payload)
  PROVE  \E c \in ceremonies : c.user_data = b.user_data /\ CeremonyPayload(c) = payload
<1>1. PICK c \in ceremonies : b.user_data = c.user_data
  BY DEF BundleFiles
<1>2. c.by \in RootKeys /\ c.root \in TreeRoots /\ c.count \in Counts
  BY DEF IInv, TypeOK
<1>3. CeremonyPayload(c) \in Hashed
  <2>1. \A count \in Counts :
          /\ CanonicalPayloadWithSubkeys(c.by.ml, c.by.slh, c.root, count) \in Hashed
          /\ LegacyPayload(c.by.ml, c.by.slh, c.root) \in Hashed
    BY <1>2, HashedPayloads, Zenon
  <2> QED BY <1>2, <2>1, Zenon DEF CeremonyPayload
<1>4. c.user_data = UserDataCommitment(CeremonyPayload(c))
  BY Zenon DEF IInv, CeremoniesGenuine
<1>5. CeremonyPayload(c) = payload
  BY <1>1, <1>3, <1>4, CommitmentFacts, Zenon
<1> QED BY <1>1, <1>5, Zenon

LEMMA BundleType ==
  ASSUME NEW b \in BundleFiles
  PROVE  /\ b.pk = [ml |-> b.pk.ml, slh |-> b.pk.slh]
         /\ b.root \in TreeRoots /\ b.count \in Counts
         /\ \E r, q \in RootKeys : b.pk.ml = r.ml /\ b.pk.slh = q.slh
BY DEF BundleFiles, BundleKeys

LEMMA CeremonyType ==
  ASSUME IInv, NEW c \in ceremonies
  PROVE  /\ c.by = [ml |-> c.by.ml, slh |-> c.by.slh]
         /\ c.by.ml \in Bytes /\ c.by.slh \in Bytes /\ c.root \in Bytes /\ c.count \in U32
         /\ c.formula \in {"current", "legacy"}
<1>1. c.by \in RootKeys /\ c.root \in TreeRoots /\ c.count \in Counts
      /\ c.formula \in {"current", "legacy"}
  BY DEF IInv, TypeOK
<1>2. c.by = [ml |-> c.by.ml, slh |-> c.by.slh]
  BY <1>1, KeysAssumption DEF KeyPairs
<1> QED BY <1>1, <1>2, RootType, TreeType, Zenon

LEMMA BundleHashed ==
  ASSUME NEW b \in BundleFiles
  PROVE  /\ b.pk.ml \in Bytes /\ b.pk.slh \in Bytes /\ b.root \in Bytes /\ b.count \in U32
         /\ BundlePayload(b) \in Hashed
         /\ LegacyPayload(b.pk.ml, b.pk.slh, b.root) \in Hashed
<1>1. PICK r, q \in RootKeys : b.pk.ml = r.ml /\ b.pk.slh = q.slh
  BY BundleType, Zenon
<1>2. b.root \in TreeRoots /\ b.count \in Counts
  BY BundleType, Zenon
<1>3. b.pk.ml \in Bytes /\ b.pk.slh \in Bytes
  BY <1>1, RootType, Zenon
<1>4. b.root \in Bytes /\ b.count \in U32
  BY <1>2, TreeType, Zenon
<1>5. /\ CanonicalPayloadWithSubkeys(r.ml, q.slh, b.root, b.count) \in Hashed
      /\ LegacyPayload(r.ml, q.slh, b.root) \in Hashed
  BY <1>2, HashedPayloads, Zenon
<1> QED BY <1>1, <1>3, <1>4, <1>5, Zenon DEF BundlePayload

\* The payload of a current ceremony is that of no other fields and no older one.
LEMMA PayloadFields ==
  ASSUME NEW a \in Bytes, NEW e \in Bytes, NEW root \in Bytes, NEW n \in U32,
         NEW a2 \in Bytes, NEW e2 \in Bytes, NEW root2 \in Bytes, NEW n2 \in U32
  PROVE  /\ LegacyPayload(a, e, root) # CanonicalPayloadWithSubkeys(a2, e2, root2, n2)
         /\ CanonicalPayloadWithSubkeys(a, e, root, n) = CanonicalPayloadWithSubkeys(a2, e2, root2, n2)
              => a = a2 /\ e = e2 /\ root = root2 /\ n = n2
<1>1. LegacyPayload(a, e, root) # CanonicalPayloadWithSubkeys(a2, e2, root2, n2)
  BY FormulasDiffer, SMTT(60)
<1>2. CanonicalPayloadWithSubkeys(a, e, root, n) = CanonicalPayloadWithSubkeys(a2, e2, root2, n2)
        => a = a2 /\ e = e2 /\ root = root2 /\ n = n2
  BY CeremonyPayloadInjective, SMTT(60)
<1> QED BY <1>1, <1>2

\* A ceremony that had the payload of a bundle signed is of the current formula,
\* and has the bundle's keys, root and count.
LEMMA CeremonyOfPayload ==
  ASSUME IInv, NEW c \in ceremonies,
         NEW ml \in Bytes, NEW slh \in Bytes, NEW root \in Bytes, NEW count \in U32
  PROVE  CeremonyPayload(c) = CanonicalPayloadWithSubkeys(ml, slh, root, count)
           => /\ c.by = [ml |-> ml, slh |-> slh] /\ c.root = root /\ c.count = count
              /\ c.formula = "current"
<1>1. /\ c.by = [ml |-> c.by.ml, slh |-> c.by.slh]
      /\ c.by.ml \in Bytes /\ c.by.slh \in Bytes /\ c.root \in Bytes /\ c.count \in U32
      /\ c.formula \in {"current", "legacy"}
  BY CeremonyType, Zenon
<1>2. /\ LegacyPayload(c.by.ml, c.by.slh, c.root)
           # CanonicalPayloadWithSubkeys(ml, slh, root, count)
      /\ CanonicalPayloadWithSubkeys(c.by.ml, c.by.slh, c.root, c.count)
           = CanonicalPayloadWithSubkeys(ml, slh, root, count)
           => c.by.ml = ml /\ c.by.slh = slh /\ c.root = root /\ c.count = count
  <2> DEFINE a == c.by.ml
             e == c.by.slh
             r == c.root
             n == c.count
  <2>1. a \in Bytes /\ e \in Bytes /\ r \in Bytes /\ n \in U32
    BY <1>1
  <2> SUFFICES
        /\ LegacyPayload(a, e, r) # CanonicalPayloadWithSubkeys(ml, slh, root, count)
        /\ CanonicalPayloadWithSubkeys(a, e, r, n) = CanonicalPayloadWithSubkeys(ml, slh, root, count)
             => a = ml /\ e = slh /\ r = root /\ n = count
    OBVIOUS
  <2> HIDE DEF a, e, r, n
  <2> QED BY <2>1, PayloadFields, SMTT(60)
<1>3. SUFFICES ASSUME CeremonyPayload(c) = CanonicalPayloadWithSubkeys(ml, slh, root, count)
               PROVE  /\ c.by = [ml |-> ml, slh |-> slh] /\ c.root = root /\ c.count = count
                      /\ c.formula = "current"
  OBVIOUS
<1>4. c.formula = "current"
  BY <1>1, <1>2, <1>3, Zenon DEF CeremonyPayload
<1>5. c.by.ml = ml /\ c.by.slh = slh /\ c.root = root /\ c.count = count
  BY <1>2, <1>3, <1>4, Zenon DEF CeremonyPayload
<1> QED BY <1>1, <1>4, <1>5, Zenon

LEMMA OnlyCeremonyBinds ==
  ASSUME IInv, NEW b \in BundleFiles, Bound(b)
  PROVE  \E c \in ceremonies :
           /\ c.by = b.pk /\ c.root = b.root /\ c.count = b.count
           /\ c.formula = "current" /\ c.user_data = b.user_data
<1>1. b.user_data = UserDataCommitment(BundlePayload(b))
  BY Zenon DEF Bound
<1>2. /\ b.pk.ml \in Bytes /\ b.pk.slh \in Bytes /\ b.root \in Bytes /\ b.count \in U32
      /\ BundlePayload(b) \in Hashed
  BY BundleHashed, Zenon
<1>3. PICK c \in ceremonies : c.user_data = b.user_data /\ CeremonyPayload(c) = BundlePayload(b)
  BY <1>1, <1>2, CommittedPayload, Zenon
<1>4. b.pk = [ml |-> b.pk.ml, slh |-> b.pk.slh]
  BY BundleType, Zenon
<1>5. CeremonyPayload(c) = CanonicalPayloadWithSubkeys(b.pk.ml, b.pk.slh, b.root, b.count)
  BY <1>3, Zenon DEF BundlePayload
<1>6. c.by = b.pk /\ c.root = b.root /\ c.count = b.count /\ c.formula = "current"
  <2> DEFINE pk == b.pk
             root2 == b.root
             n2 == b.count
  <2>1. /\ pk = [ml |-> pk.ml, slh |-> pk.slh] /\ pk.ml \in Bytes /\ pk.slh \in Bytes
        /\ root2 \in Bytes /\ n2 \in U32
        /\ CeremonyPayload(c) = CanonicalPayloadWithSubkeys(pk.ml, pk.slh, root2, n2)
    BY <1>2, <1>4, <1>5, Zenon
  <2> SUFFICES c.by = pk /\ c.root = root2 /\ c.count = n2 /\ c.formula = "current"
    OBVIOUS
  <2> HIDE DEF pk, root2, n2
  <2> QED BY <2>1, CeremonyOfPayload, SMTT(30)
<1> QED BY <1>3, <1>6, Zenon

\* Nothing can be edited around a genuine quote: a bundle that passes the binding
\* has the keys, the root and the count of one ceremony.
THEOREM BundlesAreCeremonies == Spec => []OnlyCeremoniesBind
<1>1. IInv => OnlyCeremoniesBind
  BY OnlyCeremonyBinds, Zenon DEF OnlyCeremoniesBind
<1> QED BY <1>1, Invariance, PTL

\* Two signatures that verify under the keys of a bundle, which need not be of
\* one root, were made in one call: one family is not broken, and its key signed
\* a payload that names both keys.
LEMMA OnlyCeremonySigns ==
  ASSUME IInv, NEW pk \in BundleKeys, NEW root \in TreeRoots, NEW count \in Counts,
         SignaturesPass([pk |-> pk, root |-> root, count |-> count])
  PROVE  \E c \in ceremonies :
           c.by = pk /\ c.root = root /\ c.count = count /\ c.formula = "current"
<1> DEFINE P == CanonicalPayloadWithSubkeys(pk.ml, pk.slh, root, count)
<1>1. VerifyDual(pk, P)
  BY DEF SignaturesPass, BundlePayload
<1>2. /\ pk = [ml |-> pk.ml, slh |-> pk.slh]
      /\ \E r, q \in RootKeys : pk.ml = r.ml /\ pk.slh = q.slh
  BY DEF BundleKeys
<1>3. /\ pk.ml \in Bytes /\ pk.slh \in Bytes /\ root \in Bytes /\ count \in U32
  BY <1>2, RootType, TreeType, Zenon
<1>4. PICK s \in signed : s.over = P
  <2>1. broken \in {{}, {"ml"}, {"slh"}}
    BY DEF IInv, TypeOK
  <2>2. "ml" \notin broken \/ "slh" \notin broken
    BY <2>1
  <2> HIDE DEF P
  <2> QED BY <1>1, <2>2, Zenon DEF VerifyDual, FamilyVerifies
<1>5. \A i \in issued : s.over # Message(RootBinding(i.by), i.cert)
  <2> SUFFICES ASSUME NEW i \in issued
               PROVE  Message(RootBinding(i.by), i.cert) # P
    BY <1>4, Zenon
  <2>1. i.by \in RootKeys /\ i.cert.pk \in SubkeyKeys /\ i.cert.meta \in Metas
    BY IssuedType, Zenon
  <2> DEFINE binding == RootBinding(i.by)
             key == i.cert.pk
             meta == i.cert.meta
             a == pk.ml
             e == pk.slh
  <2>2. /\ SIGNING_DOMAIN \in Bytes /\ CERT_VERSION \in Bytes /\ binding \in Bytes
        /\ key \in KeysType /\ meta \in MetaType /\ a \in Bytes /\ e \in Bytes
    BY <1>3, <2>1, NamesAssumption, BindingFacts, SubkeyType, Zenon
  <2>3. SigningBytes(SIGNING_DOMAIN, CERT_VERSION, binding, key, meta)
          # CanonicalPayloadWithSubkeys(a, e, root, count)
    <3> HIDE DEF binding, key, meta, a, e
    <3> QED BY <1>3, <2>2, CertificatesAreNotPayloads, SMTT(60)
  <2> QED BY <2>3, Zenon DEF Message
<1>6. PICK c \in ceremonies : CeremonyPayload(c) = P
  <2>1. PICK c \in ceremonies : s.over = CeremonyPayload(c)
    BY <1>5, Zenon DEF IInv, SignedOrigin
  <2> QED BY <1>4, <2>1, Zenon
<1>7. CeremonyPayload(c) = CanonicalPayloadWithSubkeys(pk.ml, pk.slh, root, count)
  BY <1>6
<1> HIDE DEF P
<1>8. pk = [ml |-> pk.ml, slh |-> pk.slh]
  BY <1>2
<1>9. c.by = pk /\ c.root = root /\ c.count = count /\ c.formula = "current"
  BY <1>3, <1>7, <1>8, CeremonyOfPayload, SMTT(30)
<1> QED BY <1>9

\* A bundle whose two signatures verify is that of one ceremony, even if its keys
\* are taken from two roots and one signature family is broken.
THEOREM SignaturesAreCeremonies == Spec => []OnlyCeremoniesSigned
<1>1. IInv => OnlyCeremoniesSigned
  BY OnlyCeremonySigns, Zenon DEF OnlyCeremoniesSigned
<1> QED BY <1>1, Invariance, PTL

LEMMA DiagnosisExact ==
  ASSUME IInv, NEW b \in BundleFiles
  PROVE  DiagnosedOlder(b) <=>
           \E c \in ceremonies : /\ c.by = b.pk /\ c.root = b.root
                                  /\ c.formula = "legacy" /\ c.user_data = b.user_data
<1> DEFINE payload == LegacyPayload(b.pk.ml, b.pk.slh, b.root)
<1>1. /\ b.pk.ml \in Bytes /\ b.pk.slh \in Bytes /\ b.root \in Bytes
      /\ payload \in Hashed
  BY BundleHashed, Zenon
<1>2. ASSUME DiagnosedOlder(b)
      PROVE  \E c \in ceremonies : /\ c.by = b.pk /\ c.root = b.root
                                    /\ c.formula = "legacy" /\ c.user_data = b.user_data
  <2>1. b.user_data = UserDataCommitment(payload)
    BY <1>2, Zenon DEF DiagnosedOlder
  <2>2. PICK c \in ceremonies : c.user_data = b.user_data /\ CeremonyPayload(c) = payload
    <3> HIDE DEF payload
    <3> QED BY <1>1, <2>1, CommittedPayload, Zenon
  <2>3. /\ c.by = [ml |-> c.by.ml, slh |-> c.by.slh]
        /\ c.by.ml \in Bytes /\ c.by.slh \in Bytes /\ c.root \in Bytes /\ c.count \in U32
        /\ c.formula \in {"current", "legacy"}
    BY CeremonyType, Zenon
  <2> DEFINE a == c.by.ml
             e == c.by.slh
             root == c.root
             n == c.count
             a2 == b.pk.ml
             e2 == b.pk.slh
             root2 == b.root
  <2>4. /\ a \in Bytes /\ e \in Bytes /\ root \in Bytes /\ n \in U32
        /\ a2 \in Bytes /\ e2 \in Bytes /\ root2 \in Bytes
    BY <1>1, <2>3, Zenon
  <2>5. IF c.formula = "current"
        THEN CanonicalPayloadWithSubkeys(a, e, root, n) = LegacyPayload(a2, e2, root2)
        ELSE LegacyPayload(a, e, root) = LegacyPayload(a2, e2, root2)
    BY <2>2, Zenon DEF CeremonyPayload
  <2>6. c.formula = "legacy" /\ a = a2 /\ e = e2 /\ root = root2
    <3> HIDE DEF payload, a, e, root, n, a2, e2, root2
    <3>1. LegacyPayload(a2, e2, root2) # CanonicalPayloadWithSubkeys(a, e, root, n)
      BY <2>4, FormulasDiffer, SMTT(60)
    <3>2. LegacyPayload(a, e, root) = LegacyPayload(a2, e2, root2)
            => a = a2 /\ e = e2 /\ root = root2
      BY <2>4, LegacyPayloadInjective, SMTT(60)
    <3> QED BY <2>3, <2>5, <3>1, <3>2
  <2>7. b.pk = [ml |-> b.pk.ml, slh |-> b.pk.slh]
    BY BundleType, Zenon
  <2>8. c.by = b.pk
    BY <2>3, <2>6, <2>7, Zenon
  <2> QED BY <2>2, <2>6, <2>8, Zenon
<1>3. ASSUME NEW c \in ceremonies, c.by = b.pk, c.root = b.root,
             c.formula = "legacy", c.user_data = b.user_data
      PROVE  DiagnosedOlder(b)
  <2>1. CeremonyPayload(c) = payload
    BY <1>3 DEF CeremonyPayload
  <2>2. c.user_data = UserDataCommitment(CeremonyPayload(c))
    BY Zenon DEF IInv, CeremoniesGenuine
  <2> QED BY <1>3, <2>1, <2>2, Zenon DEF DiagnosedOlder
<1> QED BY <1>2, <1>3, Zenon

\* A failed binding is put down to an older ceremony exactly when the quote is
\* of an older ceremony with these keys and this root.
THEOREM DiagnosisCorrect == Spec => []DiagnosisRight
<1>1. IInv => DiagnosisRight
  BY DiagnosisExact, Zenon DEF DiagnosisRight
<1> QED BY <1>1, Invariance, PTL
=============================================================================

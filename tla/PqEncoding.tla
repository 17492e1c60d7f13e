----------------------------- MODULE PqEncoding -----------------------------
(***************************************************************************)
(* The bytes a root key signs and an enclave attests (crates pq-core and   *)
(* pq-subkey).  A byte string is a sequence of bytes.  The other modules   *)
(* take a payload or a certificate for the record of its fields: these are *)
(* the layouts that make that right.                                       *)
(***************************************************************************)
EXTENDS Integers, Sequences

Byte == 0 .. 255

\* What is left of a number without its last two bytes.
Upper(n) == n \div 65536

\* What u32 and u64 hold, by their upper half.
U16 == 0 .. 65535
U32 == {n \in Nat : Upper(n) \in U16}
U64 == {n \in Nat : Upper(Upper(n)) \in U32}

\* to_be_bytes of two, four and eight bytes.
Be16(n) == <<(n \div 256) % 256, n % 256>>
Be32(n) == Be16(Upper(n)) \o Be16(n)
Be64(n) == Be32(Upper(Upper(n))) \o Be32(n)

\* A field preceded by its length; one that does not fit u32 panics.
Bytes == {b \in Seq(Byte) : Len(b) \in U32}
Lp(bytes) == Be32(Len(bytes)) \o bytes

CanonicalPayload(ml_pk, slh_pk) == Lp(ml_pk) \o Lp(slh_pk)

\* Mutant: the root is bound and the count is not.
WithoutCount(ml_pk, slh_pk, root, count) == CanonicalPayload(ml_pk, slh_pk) \o Lp(root)

CanonicalPayloadWithSubkeys(ml_pk, slh_pk, root, count) ==
  CanonicalPayload(ml_pk, slh_pk) \o Lp(root) \o Be32(count)

\* Mutant: the root without its length.
LegacyWithoutLength(ml_pk, slh_pk, root) == CanonicalPayload(ml_pk, slh_pk) \o root

\* What diagnose_binding_mismatch takes for the formula of older enclaves.
LegacyPayload(ml_pk, slh_pk, root) == CanonicalPayload(ml_pk, slh_pk) \o Lp(root)

Tag(purpose) == IF purpose = "Auth" THEN 1 ELSE 2

SigningBytes(domain, version, root_binding, pk, meta) ==
  Lp(domain) \o Lp(version) \o Lp(root_binding) \o Lp(pk.ml) \o Lp(pk.slh)
    \o Be64(meta.serial) \o <<Tag(meta.purpose)>> \o Be64(meta.not_before) \o Be64(meta.not_after)
=============================================================================

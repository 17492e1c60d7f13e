-------------------------- MODULE PqEncodingProofs --------------------------
(***************************************************************************)
(* The byte layouts of PqEncoding say what they are made of: equal bytes   *)
(* have equal fields, whatever the lengths of the fields, and bytes of one *)
(* layout are never bytes of another.                                      *)
(***************************************************************************)
EXTENDS PqEncoding, SequenceTheorems, TLAPS

-----------------------------------------------------------------------------
(* Sequences and numbers. *)

\* Equal concatenations of heads of equal length have equal heads and tails.
LEMMA Cut ==
  ASSUME NEW S, NEW a \in Seq(S), NEW b \in Seq(S), NEW x \in Seq(S), NEW y \in Seq(S),
         Len(a) = Len(b), a \o x = b \o y
  PROVE  a = b /\ x = y
<1>1. /\ Len(a) \in Nat /\ Len(x) \in Nat /\ Len(y) \in Nat
      /\ Len(a \o x) = Len(a) + Len(x) /\ Len(b \o y) = Len(b) + Len(y)
  BY ConcatProperties, LenProperties
<1>2. \A i \in 1 .. Len(a) + Len(x) : (a \o x)[i] = IF i <= Len(a) THEN a[i] ELSE x[i - Len(a)]
  BY ConcatProperties
<1>3. \A i \in 1 .. Len(b) + Len(y) : (b \o y)[i] = IF i <= Len(b) THEN b[i] ELSE y[i - Len(b)]
  BY ConcatProperties
<1>4. Len(x) = Len(y)
  BY <1>1
<1>5. \A i \in 1 .. Len(a) : a[i] = b[i]
  <2>1. TAKE i \in 1 .. Len(a)
  <2>2. i \in 1 .. Len(a) + Len(x) /\ i \in 1 .. Len(b) + Len(y) /\ i <= Len(a)
    BY <1>1, <1>4
  <2> QED BY <2>2, <1>2, <1>3
<1>6. \A i \in 1 .. Len(x) : x[i] = y[i]
  <2>1. TAKE i \in 1 .. Len(x)
  <2>2. /\ i + Len(a) \in 1 .. Len(a) + Len(x) /\ i + Len(a) \in 1 .. Len(b) + Len(y)
        /\ ~(i + Len(a) <= Len(a)) /\ (i + Len(a)) - Len(a) = i
    BY <1>1, <1>4
  <2>3. (a \o x)[i + Len(a)] = x[i]
    BY <2>2, <1>2
  <2>4. (b \o y)[i + Len(a)] = y[i]
    BY <2>2, <1>3
  <2> QED BY <2>3, <2>4
<1>7. a = b
  BY <1>5, SeqEqual
<1>8. x = y
  BY <1>4, <1>6, SeqEqual
<1> QED BY <1>7, <1>8

\* The concatenation of byte strings, with its length.
LEMMA ConcatType ==
  ASSUME NEW S, NEW a \in Seq(S), NEW b \in Seq(S)
  PROVE  a \o b \in Seq(S) /\ Len(a \o b) = Len(a) + Len(b)
BY ConcatProperties

LEMMA Associative ==
  \A s, t, u \in Seq(Byte) : (s \o t) \o u = s \o (t \o u)
BY ConcatAssociative

LEMMA BytesConcat ==
  \A s, t \in Seq(Byte) : s \o t \in Seq(Byte)
BY ConcatProperties

LEMMA BytesCut ==
  \A a, b, x, y \in Seq(Byte) : Len(a) = Len(b) /\ a \o x = b \o y => a = b /\ x = y
BY Cut, Zenon

\* The other half of a number.
Lower(n) == n % 65536

LEMMA Halves ==
  ASSUME NEW n \in Nat
  PROVE  Upper(n) \in Nat /\ Lower(n) \in Nat /\ n = 65536 * Upper(n) + Lower(n)
BY SMTT(30) DEF Upper, Lower

LEMMA UpperNat ==
  ASSUME NEW n \in Nat
  PROVE  Upper(n) \in Nat
BY Halves

\* Numbers with equal halves are equal.
LEMMA HalvesEqual ==
  ASSUME NEW m \in Nat, NEW n \in Nat, Upper(m) = Upper(n), Lower(m) = Lower(n)
  PROVE  m = n
<1>1. m = 65536 * Upper(m) + Lower(m) /\ n = 65536 * Upper(n) + Lower(n)
  BY Halves
<1> QED BY <1>1, SMTT(30)

LEMMA LowerOfU16 ==
  ASSUME NEW n \in U16
  PROVE  Lower(n) = n
<1>1. n \in Nat /\ 0 <= n /\ n < 65536
  BY SMTT(30) DEF U16
<1>2. n % 65536 = n
  BY <1>1, SMTT(30)
<1> QED BY <1>2 DEF Lower

\* Two bytes, and they fix the lower half of the number.
LEMMA Be16Facts ==
  ASSUME NEW m \in Nat, NEW n \in Nat
  PROVE  /\ Be16(m) \in Seq(Byte) /\ Len(Be16(m)) = 2
         /\ Be16(m) = Be16(n) => Lower(m) = Lower(n)
<1>1. (m \div 256) % 256 \in Byte /\ m % 256 \in Byte
  BY DEF Byte
<1>2. ASSUME (m \div 256) % 256 = (n \div 256) % 256, m % 256 = n % 256
      PROVE  m % 65536 = n % 65536
  BY <1>2, SMTT(30)
<1> QED BY <1>1, <1>2, SMTT(30) DEF Be16, Lower

\* Four bytes, and they fix both halves.
LEMMA Be32Facts ==
  ASSUME NEW m \in Nat, NEW n \in Nat
  PROVE  /\ Be32(m) \in Seq(Byte) /\ Len(Be32(m)) = 4
         /\ Be32(m) = Be32(n) => Lower(Upper(m)) = Lower(Upper(n)) /\ Lower(m) = Lower(n)
<1>1. Upper(m) \in Nat /\ Upper(n) \in Nat
  BY UpperNat
<1>2. /\ Be16(Upper(m)) \in Seq(Byte) /\ Len(Be16(Upper(m))) = 2
      /\ Be16(Upper(n)) \in Seq(Byte) /\ Len(Be16(Upper(n))) = 2
  BY <1>1, Be16Facts
<1>3. /\ Be16(m) \in Seq(Byte) /\ Len(Be16(m)) = 2
      /\ Be16(n) \in Seq(Byte) /\ Len(Be16(n)) = 2
  BY Be16Facts
<1>4. Be32(m) \in Seq(Byte) /\ Len(Be32(m)) = Len(Be16(Upper(m))) + Len(Be16(m))
  BY <1>2, <1>3, ConcatType, Zenon DEF Be32
<1>5. Len(Be32(m)) = 4
  BY <1>4, <1>2, <1>3
<1>6. ASSUME Be32(m) = Be32(n)
      PROVE  Lower(Upper(m)) = Lower(Upper(n)) /\ Lower(m) = Lower(n)
  <2> DEFINE p == Be16(Upper(m))
             q == Be16(Upper(n))
  <2>1. Len(p) = Len(q) /\ p \o Be16(m) = q \o Be16(n)
    BY <1>2, <1>6, Zenon DEF Be32
  <2>2. p = q /\ Be16(m) = Be16(n)
    <3>1. p \in Seq(Byte) /\ q \in Seq(Byte)
      BY <1>2, Zenon
    <3>2. \A f, g \in Seq(Byte) : p \o f = q \o g => p = q /\ f = g
      <4> HIDE DEF p, q
      <4> QED BY <3>1, <2>1, BytesCut, Zenon
    <3> QED BY <1>3, <2>1, <3>2, Zenon
  <2> QED BY <1>1, <2>2, Be16Facts, Zenon
<1> QED BY <1>4, <1>5, <1>6, Zenon

\* to_be_bytes is injective on u32.
LEMMA Be32Injective ==
  ASSUME NEW m \in U32, NEW n \in U32, Be32(m) = Be32(n)
  PROVE  m = n
<1>1. m \in Nat /\ n \in Nat /\ Upper(m) \in U16 /\ Upper(n) \in U16
  BY Zenon DEF U32
<1>2. Lower(Upper(m)) = Lower(Upper(n)) /\ Lower(m) = Lower(n)
  BY <1>1, Be32Facts, Zenon
<1>3. Lower(Upper(m)) = Upper(m) /\ Lower(Upper(n)) = Upper(n)
  BY <1>1, LowerOfU16, Zenon
<1> QED BY <1>1, <1>2, <1>3, HalvesEqual, Zenon

LEMMA Be64Facts ==
  ASSUME NEW m \in Nat
  PROVE  Be64(m) \in Seq(Byte) /\ Len(Be64(m)) = 8
<1>1. Upper(Upper(m)) \in Nat
  BY UpperNat, Zenon
<1>2. /\ Be32(Upper(Upper(m))) \in Seq(Byte) /\ Len(Be32(Upper(Upper(m)))) = 4
      /\ Be32(m) \in Seq(Byte) /\ Len(Be32(m)) = 4
  BY <1>1, Be32Facts, Zenon
<1>3. Be64(m) \in Seq(Byte) /\ Len(Be64(m)) = Len(Be32(Upper(Upper(m)))) + Len(Be32(m))
  BY <1>2, ConcatType, Zenon DEF Be64
<1> QED BY <1>2, <1>3

\* to_be_bytes is injective on u64.
LEMMA Be64Injective ==
  ASSUME NEW m \in U64, NEW n \in U64, Be64(m) = Be64(n)
  PROVE  m = n
<1>1. /\ m \in Nat /\ Upper(m) \in Nat /\ Upper(Upper(m)) \in Nat /\ Upper(Upper(m)) \in U32
      /\ n \in Nat /\ Upper(n) \in Nat /\ Upper(Upper(n)) \in Nat /\ Upper(Upper(n)) \in U32
  BY UpperNat, Zenon DEF U64
<1>2. /\ Be32(Upper(Upper(m))) \in Seq(Byte) /\ Len(Be32(Upper(Upper(m)))) = 4
      /\ Be32(Upper(Upper(n))) \in Seq(Byte) /\ Len(Be32(Upper(Upper(n)))) = 4
      /\ Be32(m) \in Seq(Byte) /\ Be32(n) \in Seq(Byte)
  BY <1>1, Be32Facts, Zenon
<1>3. Be32(Upper(Upper(m))) = Be32(Upper(Upper(n))) /\ Be32(m) = Be32(n)
  <2> DEFINE p == Be32(Upper(Upper(m)))
             q == Be32(Upper(Upper(n)))
  <2>1. Len(p) = Len(q) /\ p \o Be32(m) = q \o Be32(n)
    BY <1>2, Zenon DEF Be64
  <2>2. p \in Seq(Byte) /\ q \in Seq(Byte)
    BY <1>2, Zenon
  <2>3. \A f, g \in Seq(Byte) : p \o f = q \o g => p = q /\ f = g
    <3> HIDE DEF p, q
    <3> QED BY <2>1, <2>2, BytesCut, Zenon
  <2> QED BY <1>2, <2>1, <2>3, Zenon
<1>4. Upper(Upper(m)) = Upper(Upper(n))
  BY <1>1, <1>3, Be32Injective, Zenon
<1>5. Lower(Upper(m)) = Lower(Upper(n)) /\ Lower(m) = Lower(n)
  BY <1>1, <1>3, Be32Facts, Zenon
<1>6. Upper(m) = Upper(n)
  BY <1>1, <1>4, <1>5, HalvesEqual, Zenon
<1> QED BY <1>1, <1>5, <1>6, HalvesEqual, Zenon

-----------------------------------------------------------------------------
(* Fields and payloads. *)

LEMMA LpType ==
  ASSUME NEW b \in Bytes
  PROVE  /\ b \in Seq(Byte) /\ Len(b) \in Nat /\ Len(b) \in U32
         /\ Be32(Len(b)) \in Seq(Byte) /\ Len(Be32(Len(b))) = 4
         /\ Lp(b) \in Seq(Byte) /\ Len(Lp(b)) = 4 + Len(b)
<1>1. b \in Seq(Byte) /\ Len(b) \in U32 /\ Len(b) \in Nat
  BY Zenon DEF Bytes, U32
<1>2. Be32(Len(b)) \in Seq(Byte) /\ Len(Be32(Len(b))) = 4
  BY <1>1, Be32Facts, Zenon
<1>3. Lp(b) \in Seq(Byte) /\ Len(Lp(b)) = Len(Be32(Len(b))) + Len(b)
  BY <1>1, <1>2, ConcatType, Zenon DEF Lp
<1> QED BY <1>1, <1>2, <1>3, Zenon

\* A field ends where its length says, whatever follows.
LEMMA LpCut ==
  \A a, b \in Bytes, x, y \in Seq(Byte) : Lp(a) \o x = Lp(b) \o y => a = b /\ x = y
<1> SUFFICES ASSUME NEW a \in Bytes, NEW b \in Bytes, NEW x \in Seq(Byte), NEW y \in Seq(Byte),
                    Lp(a) \o x = Lp(b) \o y
             PROVE  a = b /\ x = y
  OBVIOUS
<1>1. a \in Seq(Byte) /\ b \in Seq(Byte)
  BY LpType, Zenon
<1> DEFINE p == Be32(Len(a))
           q == Be32(Len(b))
           u == a \o x
           v == b \o y
<1>2. p \in Seq(Byte) /\ Len(p) = 4 /\ q \in Seq(Byte) /\ Len(q) = 4
  BY LpType, Zenon
<1>3. u \in Seq(Byte) /\ v \in Seq(Byte)
  BY <1>1, BytesConcat, Zenon
<1>4. Lp(a) \o x = p \o u
  BY <1>1, <1>2, Associative, Zenon DEF Lp
<1>5. Lp(b) \o y = q \o v
  BY <1>1, <1>2, Associative, Zenon DEF Lp
<1>6. p = q /\ u = v
  <2>1. p \o u = q \o v /\ Len(p) = Len(q)
    BY <1>2, <1>4, <1>5, Zenon
  <2>2. \A f, g \in Seq(Byte) : p \o f = q \o g => p = q /\ f = g
    <3> HIDE DEF p, q
    <3> QED BY <1>2, <2>1, BytesCut, Zenon
  <2> QED BY <1>3, <2>1, <2>2, Zenon
<1>7. Len(a) = Len(b)
  <2>1. Len(a) \in U32 /\ Len(b) \in U32
    BY LpType, Zenon
  <2> QED BY <1>6, <2>1, Be32Injective, Zenon
<1>8. \A f, g \in Seq(Byte) : a \o f = b \o g => a = b /\ f = g
  BY <1>1, <1>7, BytesCut, Zenon
<1> QED BY <1>6, <1>8, Zenon

LEMMA LpInjective ==
  \A a, b \in Bytes : Lp(a) = Lp(b) => a = b
<1> SUFFICES ASSUME NEW a \in Bytes, NEW b \in Bytes, Lp(a) = Lp(b)
             PROVE  a = b
  OBVIOUS
<1>1. <<>> \in Seq(Byte)
  OBVIOUS
<1>2. \A x, y \in Seq(Byte) : Lp(a) \o x = Lp(b) \o y => a = b /\ x = y
  BY LpCut, Zenon
<1> QED BY <1>1, <1>2, Zenon

LEMMA CanonicalPayloadType ==
  \A a, b \in Bytes : CanonicalPayload(a, b) \in Seq(Byte)
<1> SUFFICES ASSUME NEW a \in Bytes, NEW b \in Bytes
             PROVE  CanonicalPayload(a, b) \in Seq(Byte)
  OBVIOUS
<1>1. Lp(a) \in Seq(Byte) /\ Lp(b) \in Seq(Byte)
  BY LpType, Zenon
<1> QED BY <1>1, BytesConcat, Zenon DEF CanonicalPayload

\* Two fields and what follows them.
LEMMA CanonicalPayloadCut ==
  \A a, b, c, d \in Bytes, x, y \in Seq(Byte) :
    CanonicalPayload(a, b) \o x = CanonicalPayload(c, d) \o y => a = c /\ b = d /\ x = y
<1> SUFFICES ASSUME NEW a \in Bytes, NEW b \in Bytes, NEW c \in Bytes, NEW d \in Bytes,
                    NEW x \in Seq(Byte), NEW y \in Seq(Byte),
                    CanonicalPayload(a, b) \o x = CanonicalPayload(c, d) \o y
             PROVE  a = c /\ b = d /\ x = y
  OBVIOUS
<1> DEFINE u == Lp(b) \o x
           v == Lp(d) \o y
<1>1. Lp(a) \in Seq(Byte) /\ Lp(b) \in Seq(Byte)
  BY LpType, Zenon
<1>2. Lp(c) \in Seq(Byte) /\ Lp(d) \in Seq(Byte)
  BY LpType, Zenon
<1>3. u \in Seq(Byte) /\ v \in Seq(Byte)
  BY <1>1, <1>2, BytesConcat, Zenon
<1>4. CanonicalPayload(a, b) \o x = Lp(a) \o u
  BY <1>1, Associative, Zenon DEF CanonicalPayload
<1>5. CanonicalPayload(c, d) \o y = Lp(c) \o v
  BY <1>2, Associative, Zenon DEF CanonicalPayload
<1>6. a = c /\ u = v
  <2>1. \A f, g \in Seq(Byte) : Lp(a) \o f = Lp(c) \o g => a = c /\ f = g
    BY LpCut, Zenon
  <2>2. Lp(a) \o u = Lp(c) \o v
    BY <1>4, <1>5, Zenon
  <2> QED BY <1>3, <2>1, <2>2, Zenon
<1>7. \A f, g \in Seq(Byte) : Lp(b) \o f = Lp(d) \o g => b = d /\ f = g
  BY LpCut, Zenon
<1> QED BY <1>6, <1>7, Zenon

\* The bytes a root binding is the hash of say which two keys they are of.
THEOREM CanonicalPayloadInjective ==
  \A a, b, c, d \in Bytes : CanonicalPayload(a, b) = CanonicalPayload(c, d) => a = c /\ b = d
<1> SUFFICES ASSUME NEW a \in Bytes, NEW b \in Bytes, NEW c \in Bytes, NEW d \in Bytes,
                    CanonicalPayload(a, b) = CanonicalPayload(c, d)
             PROVE  a = c /\ b = d
  OBVIOUS
<1>1. \A f, g \in Seq(Byte) : Lp(a) \o f = Lp(c) \o g => a = c /\ f = g
  BY LpCut, Zenon
<1>2. Lp(b) \in Seq(Byte) /\ Lp(d) \in Seq(Byte)
  BY LpType, Zenon
<1>3. a = c /\ Lp(b) = Lp(d)
  BY <1>1, <1>2, Zenon DEF CanonicalPayload
<1> QED BY <1>3, LpInjective, Zenon

\* Three fields and what follows them.
ThreeFields(a, b, r, x) == (CanonicalPayload(a, b) \o Lp(r)) \o x

Field(b, x) == Lp(b) \o x

LEMMA ThreeFieldsNested ==
  \A a, b, r \in Bytes, x \in Seq(Byte) :
    /\ Field(r, x) \in Seq(Byte) /\ Field(b, Field(r, x)) \in Seq(Byte)
    /\ ThreeFields(a, b, r, x) = Field(a, Field(b, Field(r, x)))
<1> SUFFICES ASSUME NEW a \in Bytes, NEW b \in Bytes, NEW r \in Bytes, NEW x \in Seq(Byte)
             PROVE  /\ Field(r, x) \in Seq(Byte) /\ Field(b, Field(r, x)) \in Seq(Byte)
                    /\ ThreeFields(a, b, r, x) = Field(a, Field(b, Field(r, x)))
  OBVIOUS
<1> DEFINE u == Lp(r) \o x
<1>1. Lp(r) \in Seq(Byte)
  BY LpType, Zenon
<1>2. Lp(a) \in Seq(Byte) /\ Lp(b) \in Seq(Byte)
  BY LpType, Zenon
<1>3. u \in Seq(Byte)
  BY <1>1, BytesConcat, Zenon
<1>4. Lp(b) \o u \in Seq(Byte)
  BY <1>2, <1>3, BytesConcat, Zenon
<1>5. CanonicalPayload(a, b) \in Seq(Byte)
  BY CanonicalPayloadType, Zenon
<1>6. ThreeFields(a, b, r, x) = CanonicalPayload(a, b) \o u
  BY <1>1, <1>5, Associative, Zenon DEF ThreeFields
<1>7. CanonicalPayload(a, b) \o u = Lp(a) \o (Lp(b) \o u)
  BY <1>2, <1>3, Associative, Zenon DEF CanonicalPayload
<1> QED BY <1>3, <1>4, <1>6, <1>7, Zenon DEF Field

LEMMA FieldCut ==
  \A a, b \in Bytes, x, y \in Seq(Byte) : Field(a, x) = Field(b, y) => a = b /\ x = y
BY LpCut, Zenon DEF Field

LEMMA ThreeFieldsCut ==
  \A a, b, r, c, d, s \in Bytes, x, y \in Seq(Byte) :
    ThreeFields(a, b, r, x) = ThreeFields(c, d, s, y) => a = c /\ b = d /\ r = s /\ x = y
<1> SUFFICES ASSUME NEW a \in Bytes, NEW b \in Bytes, NEW r \in Bytes,
                    NEW c \in Bytes, NEW d \in Bytes, NEW s \in Bytes,
                    NEW x \in Seq(Byte), NEW y \in Seq(Byte),
                    ThreeFields(a, b, r, x) = ThreeFields(c, d, s, y)
             PROVE  a = c /\ b = d /\ r = s /\ x = y
  OBVIOUS
<1>1. /\ Field(r, x) \in Seq(Byte) /\ Field(b, Field(r, x)) \in Seq(Byte)
      /\ ThreeFields(a, b, r, x) = Field(a, Field(b, Field(r, x)))
  BY ThreeFieldsNested, SMTT(30)
<1>2. /\ Field(s, y) \in Seq(Byte) /\ Field(d, Field(s, y)) \in Seq(Byte)
      /\ ThreeFields(c, d, s, y) = Field(c, Field(d, Field(s, y)))
  BY ThreeFieldsNested, SMTT(30)
<1>3. a = c /\ Field(b, Field(r, x)) = Field(d, Field(s, y))
  <2> DEFINE p == Field(b, Field(r, x))
             q == Field(d, Field(s, y))
  <2>1. p \in Seq(Byte) /\ q \in Seq(Byte) /\ Field(a, p) = Field(c, q)
    BY <1>1, <1>2, Zenon
  <2> HIDE DEF p, q
  <2>2. \A f, g \in Seq(Byte) : Field(a, f) = Field(c, g) => a = c /\ f = g
    BY FieldCut, Zenon
  <2>3. a = c /\ p = q
    BY <2>1, <2>2, Zenon
  <2> QED BY <2>3 DEF p, q
<1>4. b = d /\ Field(r, x) = Field(s, y)
  BY <1>1, <1>2, <1>3, FieldCut, SMTT(30)
<1> QED BY <1>3, <1>4, FieldCut, SMTT(30)

LEMMA U32Bytes ==
  \A n \in U32 : Be32(n) \in Seq(Byte) /\ Len(Be32(n)) = 4
BY Be32Facts, Zenon DEF U32

LEMMA LegacyFields ==
  \A a, b, r \in Bytes : LegacyPayload(a, b, r) = ThreeFields(a, b, r, <<>>)
<1> SUFFICES ASSUME NEW a \in Bytes, NEW b \in Bytes, NEW r \in Bytes
             PROVE  LegacyPayload(a, b, r) = ThreeFields(a, b, r, <<>>)
  OBVIOUS
<1>1. CanonicalPayload(a, b) \in Seq(Byte) /\ Lp(r) \in Seq(Byte)
  BY CanonicalPayloadType, LpType, Zenon
<1>2. CanonicalPayload(a, b) \o Lp(r) \in Seq(Byte)
  BY <1>1, BytesConcat, Zenon
<1>3. (CanonicalPayload(a, b) \o Lp(r)) \o <<>> = CanonicalPayload(a, b) \o Lp(r)
  BY <1>2, ConcatEmptySeq
<1> QED BY <1>3, Zenon DEF LegacyPayload, ThreeFields

\* The bytes an enclave attests say which keys, which root and how many
\* subkeys they are of.
THEOREM CeremonyPayloadInjective ==
  \A a, b, r, c, d, s \in Bytes, m, n \in U32 :
    CanonicalPayloadWithSubkeys(a, b, r, m) = CanonicalPayloadWithSubkeys(c, d, s, n)
      => a = c /\ b = d /\ r = s /\ m = n
<1> SUFFICES ASSUME NEW a \in Bytes, NEW b \in Bytes, NEW r \in Bytes,
                    NEW c \in Bytes, NEW d \in Bytes, NEW s \in Bytes,
                    NEW m \in U32, NEW n \in U32,
                    CanonicalPayloadWithSubkeys(a, b, r, m) = CanonicalPayloadWithSubkeys(c, d, s, n)
             PROVE  a = c /\ b = d /\ r = s /\ m = n
  OBVIOUS
<1>1. Be32(m) \in Seq(Byte) /\ Be32(n) \in Seq(Byte)
  BY U32Bytes, Zenon
<1>2. CanonicalPayloadWithSubkeys(a, b, r, m) = ThreeFields(a, b, r, Be32(m))
  BY Zenon DEF CanonicalPayloadWithSubkeys, ThreeFields
<1>3. CanonicalPayloadWithSubkeys(c, d, s, n) = ThreeFields(c, d, s, Be32(n))
  BY Zenon DEF CanonicalPayloadWithSubkeys, ThreeFields
<1>4. a = c /\ b = d /\ r = s /\ Be32(m) = Be32(n)
  <2>1. ThreeFields(a, b, r, Be32(m)) = ThreeFields(c, d, s, Be32(n))
    BY <1>2, <1>3, Zenon
  <2> QED BY <1>1, <2>1, ThreeFieldsCut, SMTT(60)
<1> QED BY <1>4, Be32Injective, Zenon

\* An older payload says which keys and which root it is of.
THEOREM LegacyPayloadInjective ==
  \A a, b, r, c, d, s \in Bytes :
    LegacyPayload(a, b, r) = LegacyPayload(c, d, s) => a = c /\ b = d /\ r = s
<1> SUFFICES ASSUME NEW a \in Bytes, NEW b \in Bytes, NEW r \in Bytes,
                    NEW c \in Bytes, NEW d \in Bytes, NEW s \in Bytes,
                    LegacyPayload(a, b, r) = LegacyPayload(c, d, s)
             PROVE  a = c /\ b = d /\ r = s
  OBVIOUS
<1>1. LegacyPayload(a, b, r) = ThreeFields(a, b, r, <<>>)
  BY LegacyFields, Zenon
<1>2. LegacyPayload(c, d, s) = ThreeFields(c, d, s, <<>>)
  BY LegacyFields, Zenon
<1>3. ThreeFields(a, b, r, <<>>) = ThreeFields(c, d, s, <<>>)
  BY <1>1, <1>2, Zenon
<1> DEFINE e == <<>>
<1>4. e \in Seq(Byte)
  OBVIOUS
<1> HIDE DEF e
<1>5. ThreeFields(a, b, r, e) = ThreeFields(c, d, s, e)
  BY <1>3, Zenon DEF e
<1> QED BY <1>4, <1>5, ThreeFieldsCut, SMTT(60)

\* No payload of the older formula is one of the current formula.
THEOREM FormulasDiffer ==
  \A a, b, r, c, d, s \in Bytes, n \in U32 :
    LegacyPayload(a, b, r) # CanonicalPayloadWithSubkeys(c, d, s, n)
<1> SUFFICES ASSUME NEW a \in Bytes, NEW b \in Bytes, NEW r \in Bytes,
                    NEW c \in Bytes, NEW d \in Bytes, NEW s \in Bytes, NEW n \in U32,
                    LegacyPayload(a, b, r) = CanonicalPayloadWithSubkeys(c, d, s, n)
             PROVE  FALSE
  OBVIOUS
<1> DEFINE e == <<>>
<1>1. e \in Seq(Byte) /\ Be32(n) \in Seq(Byte)
  BY U32Bytes
<1>2. Len(e) = 0 /\ Len(Be32(n)) = 4
  BY U32Bytes
<1>3. LegacyPayload(a, b, r) = ThreeFields(a, b, r, e)
  BY LegacyFields, Zenon
<1>4. CanonicalPayloadWithSubkeys(c, d, s, n) = ThreeFields(c, d, s, Be32(n))
  BY Zenon DEF CanonicalPayloadWithSubkeys, ThreeFields
<1> HIDE DEF e
<1>5. e = Be32(n)
  <2>1. ThreeFields(a, b, r, e) = ThreeFields(c, d, s, Be32(n))
    BY <1>3, <1>4, Zenon
  <2> QED BY <1>1, <2>1, ThreeFieldsCut, SMTT(60)
<1> QED BY <1>2, <1>5

-----------------------------------------------------------------------------
(* Certificates. *)

Purposes == {"Auth", "Encryption"}
MetaType == [serial : U64, purpose : Purposes, not_before : U64, not_after : U64]
KeysType == [ml : Bytes, slh : Bytes]

LEMMA U64Bytes ==
  \A n \in U64 : Be64(n) \in Seq(Byte) /\ Len(Be64(n)) = 8
BY Be64Facts, Zenon DEF U64

LEMMA TagFacts ==
  /\ \A p \in Purposes : <<Tag(p)>> \in Seq(Byte) /\ Len(<<Tag(p)>>) = 1
  /\ \A p, q \in Purposes : <<Tag(p)>> = <<Tag(q)>> => p = q
<1>1. \A p \in Purposes : Tag(p) \in Byte
  BY DEF Purposes, Tag, Byte
<1>2. \A p, q \in Purposes : Tag(p) = Tag(q) => p = q
  BY DEF Purposes, Tag
<1> QED BY <1>1, <1>2

LEMMA BytesCutRight ==
  \A x, y \in Seq(Byte) :
    Len(x) = Len(y) => \A a, b \in Seq(Byte) : a \o x = b \o y => a = b /\ x = y
<1> SUFFICES ASSUME NEW x \in Seq(Byte), NEW y \in Seq(Byte), Len(x) = Len(y),
                    NEW a \in Seq(Byte), NEW b \in Seq(Byte), a \o x = b \o y
             PROVE  a = b /\ x = y
  OBVIOUS
<1>1. Len(a \o x) = Len(a) + Len(x) /\ Len(a) \in Nat /\ Len(x) \in Nat
  BY ConcatType, LenProperties
<1>2. Len(b \o y) = Len(b) + Len(y) /\ Len(b) \in Nat /\ Len(y) \in Nat
  BY ConcatType, LenProperties
<1>3. Len(a) = Len(b)
  BY <1>1, <1>2
<1>4. \A f, g \in Seq(Byte) : a \o f = b \o g => a = b /\ f = g
  BY <1>3, BytesCut, Zenon
<1> QED BY <1>4, Zenon

\* Whom a certificate is for: its bytes behind the domain, the version and the
\* binding.
Subject(pk, meta) ==
  CanonicalPayload(pk.ml, pk.slh)
    \o Be64(meta.serial) \o <<Tag(meta.purpose)>> \o Be64(meta.not_before) \o Be64(meta.not_after)

LEMMA MetaBytes ==
  ASSUME NEW meta \in MetaType
  PROVE  /\ Be64(meta.serial) \in Seq(Byte) /\ Len(Be64(meta.serial)) = 8
         /\ <<Tag(meta.purpose)>> \in Seq(Byte) /\ Len(<<Tag(meta.purpose)>>) = 1
         /\ Be64(meta.not_before) \in Seq(Byte) /\ Len(Be64(meta.not_before)) = 8
         /\ Be64(meta.not_after) \in Seq(Byte) /\ Len(Be64(meta.not_after)) = 8
<1>1. /\ meta.serial \in U64 /\ meta.purpose \in Purposes
      /\ meta.not_before \in U64 /\ meta.not_after \in U64
  BY DEF MetaType
<1>2. <<Tag(meta.purpose)>> \in Seq(Byte) /\ Len(<<Tag(meta.purpose)>>) = 1
  BY <1>1, TagFacts, Zenon
<1> QED BY <1>1, <1>2, U64Bytes, Zenon

LEMMA SubjectType ==
  ASSUME NEW pk \in KeysType, NEW meta \in MetaType
  PROVE  Subject(pk, meta) \in Seq(Byte) /\ Len(Subject(pk, meta)) > 4
<1> DEFINE c == CanonicalPayload(pk.ml, pk.slh)
           s == Be64(meta.serial)
           t == <<Tag(meta.purpose)>>
           b == Be64(meta.not_before)
           a == Be64(meta.not_after)
<1>1. c \in Seq(Byte)
  <2>1. pk.ml \in Bytes /\ pk.slh \in Bytes
    BY DEF KeysType
  <2> QED BY <2>1, CanonicalPayloadType, Zenon
<1>2. /\ s \in Seq(Byte) /\ Len(s) = 8 /\ t \in Seq(Byte) /\ Len(t) = 1
      /\ b \in Seq(Byte) /\ Len(b) = 8 /\ a \in Seq(Byte) /\ Len(a) = 8
  BY MetaBytes, Zenon
<1>3. Subject(pk, meta) = (((c \o s) \o t) \o b) \o a
  BY Zenon DEF Subject
<1> HIDE DEF c, s, t, b, a
<1>4. c \o s \in Seq(Byte)
  BY <1>1, <1>2, BytesConcat, Zenon
<1>5. (c \o s) \o t \in Seq(Byte)
  BY <1>2, <1>4, BytesConcat, Zenon
<1>6. ((c \o s) \o t) \o b \in Seq(Byte)
  BY <1>2, <1>5, BytesConcat, Zenon
<1>7. /\ (((c \o s) \o t) \o b) \o a \in Seq(Byte)
      /\ Len((((c \o s) \o t) \o b) \o a) = Len(((c \o s) \o t) \o b) + Len(a)
  BY <1>2, <1>6, ConcatType, Zenon
<1>8. Len(((c \o s) \o t) \o b) \in Nat
  BY <1>6, LenProperties
<1> QED BY <1>2, <1>3, <1>7, <1>8

\* The fields of a certificate, in order, as three fields and a subject.
LEMMA SigningFields ==
  ASSUME NEW domain \in Bytes, NEW version \in Bytes, NEW binding \in Bytes,
         NEW pk \in KeysType, NEW meta \in MetaType
  PROVE  SigningBytes(domain, version, binding, pk, meta) =
           ThreeFields(domain, version, binding, Subject(pk, meta))
<1> DEFINE h == CanonicalPayload(domain, version) \o Lp(binding)
           ml == Lp(pk.ml)
           slh == Lp(pk.slh)
           s == Be64(meta.serial)
           t == <<Tag(meta.purpose)>>
           b == Be64(meta.not_before)
           a == Be64(meta.not_after)
<1>1. h \in Seq(Byte)
  <2>1. CanonicalPayload(domain, version) \in Seq(Byte) /\ Lp(binding) \in Seq(Byte)
    BY CanonicalPayloadType, LpType, Zenon
  <2> QED BY <2>1, BytesConcat, Zenon
<1>2. ml \in Seq(Byte) /\ slh \in Seq(Byte)
  <2>1. pk.ml \in Bytes /\ pk.slh \in Bytes
    BY DEF KeysType
  <2> QED BY <2>1, LpType, Zenon
<1>3. s \in Seq(Byte) /\ t \in Seq(Byte) /\ b \in Seq(Byte) /\ a \in Seq(Byte)
  BY MetaBytes, Zenon
<1>4. SigningBytes(domain, version, binding, pk, meta) = (((((h \o ml) \o slh) \o s) \o t) \o b) \o a
  BY Zenon DEF SigningBytes, CanonicalPayload
<1>5. ThreeFields(domain, version, binding, Subject(pk, meta)) =
        h \o (((((ml \o slh) \o s) \o t) \o b) \o a)
  BY Zenon DEF ThreeFields, Subject, CanonicalPayload
<1> HIDE DEF h, ml, slh, s, t, b, a
<1> DEFINE c == ml \o slh
           d == c \o s
           e == d \o t
           f == e \o b
<1>6. c \in Seq(Byte)
  BY <1>2, BytesConcat, Zenon
<1>7. (h \o ml) \o slh = h \o c
  BY <1>1, <1>2, Associative, Zenon
<1>8. d \in Seq(Byte) /\ (h \o c) \o s = h \o d
  <2> HIDE DEF c
  <2>1. s \in Seq(Byte)
    BY <1>3
  <2>2. c \o s \in Seq(Byte)
    BY <1>6, <2>1, BytesConcat, Zenon
  <2>3. (h \o c) \o s = h \o (c \o s)
    BY <1>1, <1>6, <2>1, Associative, Zenon
  <2> QED BY <2>2, <2>3, Zenon
<1>9. e \in Seq(Byte) /\ (h \o d) \o t = h \o e
  <2> HIDE DEF d
  <2>1. t \in Seq(Byte)
    BY <1>3
  <2>2. d \o t \in Seq(Byte)
    BY <1>8, <2>1, BytesConcat, Zenon
  <2>3. (h \o d) \o t = h \o (d \o t)
    BY <1>1, <1>8, <2>1, Associative, Zenon
  <2> QED BY <2>2, <2>3, Zenon
<1>10. f \in Seq(Byte) /\ (h \o e) \o b = h \o f
  <2> HIDE DEF e
  <2>1. b \in Seq(Byte)
    BY <1>3
  <2>2. e \o b \in Seq(Byte)
    BY <1>9, <2>1, BytesConcat, Zenon
  <2>3. (h \o e) \o b = h \o (e \o b)
    BY <1>1, <1>9, <2>1, Associative, Zenon
  <2> QED BY <2>2, <2>3, Zenon
<1>11. (h \o f) \o a = h \o (f \o a)
  <2> HIDE DEF f
  <2> QED BY <1>1, <1>3, <1>10, Associative, Zenon
<1> QED BY <1>4, <1>5, <1>7, <1>8, <1>9, <1>10, <1>11, Zenon

LEMMA SubjectInjective ==
  ASSUME NEW pk \in KeysType, NEW meta \in MetaType, NEW pk2 \in KeysType, NEW meta2 \in MetaType,
         Subject(pk, meta) = Subject(pk2, meta2)
  PROVE  pk = pk2 /\ meta = meta2
<1> DEFINE c == CanonicalPayload(pk.ml, pk.slh)
           s == Be64(meta.serial)
           t == <<Tag(meta.purpose)>>
           b == Be64(meta.not_before)
           a == Be64(meta.not_after)
           c2 == CanonicalPayload(pk2.ml, pk2.slh)
           s2 == Be64(meta2.serial)
           t2 == <<Tag(meta2.purpose)>>
           b2 == Be64(meta2.not_before)
           a2 == Be64(meta2.not_after)
<1>1. pk.ml \in Bytes /\ pk.slh \in Bytes /\ pk2.ml \in Bytes /\ pk2.slh \in Bytes
  BY DEF KeysType
<1>2. c \in Seq(Byte) /\ c2 \in Seq(Byte)
  BY <1>1, CanonicalPayloadType, Zenon
<1>s. s \in Seq(Byte) /\ s2 \in Seq(Byte) /\ Len(s) = Len(s2)
  BY MetaBytes, Zenon
<1>t. t \in Seq(Byte) /\ t2 \in Seq(Byte) /\ Len(t) = Len(t2)
  BY MetaBytes, Zenon
<1>b. b \in Seq(Byte) /\ b2 \in Seq(Byte) /\ Len(b) = Len(b2)
  BY MetaBytes, Zenon
<1>a. a \in Seq(Byte) /\ a2 \in Seq(Byte) /\ Len(a) = Len(a2)
  BY MetaBytes, Zenon
<1>5. (((c \o s) \o t) \o b) \o a = (((c2 \o s2) \o t2) \o b2) \o a2
  BY Zenon DEF Subject
<1>6. c = c2 /\ s = s2 /\ t = t2 /\ b = b2 /\ a = a2
  <2> HIDE DEF c, s, t, b, a, c2, s2, t2, b2, a2
  <2>1. c \o s \in Seq(Byte) /\ c2 \o s2 \in Seq(Byte)
    BY <1>2, <1>s, BytesConcat, Zenon
  <2>2. (c \o s) \o t \in Seq(Byte) /\ (c2 \o s2) \o t2 \in Seq(Byte)
    BY <1>t, <2>1, BytesConcat, Zenon
  <2>3. ((c \o s) \o t) \o b \in Seq(Byte) /\ ((c2 \o s2) \o t2) \o b2 \in Seq(Byte)
    BY <1>b, <2>2, BytesConcat, Zenon
  <2>4. ((c \o s) \o t) \o b = ((c2 \o s2) \o t2) \o b2 /\ a = a2
    <3>1. \A f, g \in Seq(Byte) : f \o a = g \o a2 => f = g /\ a = a2
      BY <1>a, BytesCutRight, Zenon
    <3> QED BY <1>5, <2>3, <3>1, Zenon
  <2>5. (c \o s) \o t = (c2 \o s2) \o t2 /\ b = b2
    <3>1. \A f, g \in Seq(Byte) : f \o b = g \o b2 => f = g /\ b = b2
      BY <1>b, BytesCutRight, Zenon
    <3> QED BY <2>2, <2>4, <3>1, Zenon
  <2>6. c \o s = c2 \o s2 /\ t = t2
    <3>1. \A f, g \in Seq(Byte) : f \o t = g \o t2 => f = g /\ t = t2
      BY <1>t, BytesCutRight, Zenon
    <3> QED BY <2>1, <2>5, <3>1, Zenon
  <2>7. \A f, g \in Seq(Byte) : f \o s = g \o s2 => f = g /\ s = s2
    BY <1>s, BytesCutRight, Zenon
  <2> QED BY <1>2, <2>4, <2>5, <2>6, <2>7, Zenon
<1>7. pk.ml = pk2.ml /\ pk.slh = pk2.slh
  <2> DEFINE m == pk.ml
             n == pk.slh
             m2 == pk2.ml
             n2 == pk2.slh
  <2>1. m \in Bytes /\ n \in Bytes
    BY <1>1
  <2>2. m2 \in Bytes /\ n2 \in Bytes
    BY <1>1
  <2>3. CanonicalPayload(m, n) = CanonicalPayload(m2, n2)
    BY <1>6, Zenon
  <2> SUFFICES m = m2 /\ n = n2
    OBVIOUS
  <2> HIDE DEF m, n, m2, n2
  <2>4. \A f, g \in Bytes : CanonicalPayload(m, n) = CanonicalPayload(f, g) => m = f /\ n = g
    BY <2>1, CanonicalPayloadInjective, Zenon
  <2> QED BY <2>2, <2>3, <2>4, Zenon
<1>8. /\ meta.serial = meta2.serial /\ meta.purpose = meta2.purpose
      /\ meta.not_before = meta2.not_before /\ meta.not_after = meta2.not_after
  <2>1. /\ meta.serial \in U64 /\ meta2.serial \in U64
        /\ meta.not_before \in U64 /\ meta2.not_before \in U64
        /\ meta.not_after \in U64 /\ meta2.not_after \in U64
        /\ meta.purpose \in Purposes /\ meta2.purpose \in Purposes
    BY DEF MetaType
  <2>2. meta.purpose = meta2.purpose
    BY <1>6, <2>1, TagFacts, Zenon
  <2>3. meta.serial = meta2.serial
    BY <1>6, <2>1, Be64Injective, Zenon
  <2>4. meta.not_before = meta2.not_before
    BY <1>6, <2>1, Be64Injective, Zenon
  <2>5. meta.not_after = meta2.not_after
    BY <1>6, <2>1, Be64Injective, Zenon
  <2> QED BY <2>2, <2>3, <2>4, <2>5
<1> QED BY <1>7, <1>8 DEF KeysType, MetaType

\* The bytes of a certificate say which root it is bound to, which subkey it is
\* for, and its serial number, purpose and window.
THEOREM SigningBytesInjective ==
  ASSUME NEW domain \in Bytes, NEW version \in Bytes,
         NEW r \in Bytes, NEW pk \in KeysType, NEW meta \in MetaType,
         NEW r2 \in Bytes, NEW pk2 \in KeysType, NEW meta2 \in MetaType,
         SigningBytes(domain, version, r, pk, meta) = SigningBytes(domain, version, r2, pk2, meta2)
  PROVE  r = r2 /\ pk = pk2 /\ meta = meta2
<1> DEFINE x == Subject(pk, meta)
           y == Subject(pk2, meta2)
<1>1. x \in Seq(Byte) /\ y \in Seq(Byte)
  BY SubjectType, Zenon
<1>2. SigningBytes(domain, version, r, pk, meta) = ThreeFields(domain, version, r, x)
  BY SigningFields, SMTT(30)
<1>3. SigningBytes(domain, version, r2, pk2, meta2) = ThreeFields(domain, version, r2, y)
  BY SigningFields, SMTT(30)
<1>4. r = r2 /\ x = y
  <2> HIDE DEF x, y
  <2>1. ThreeFields(domain, version, r, x) = ThreeFields(domain, version, r2, y)
    BY <1>2, <1>3, Zenon
  <2> QED BY <1>1, <2>1, ThreeFieldsCut, SMTT(60)
<1>5. pk = pk2 /\ meta = meta2
  BY <1>4, SubjectInjective, Zenon
<1> QED BY <1>4, <1>5

\* What a root key signs for a ceremony, of either formula, is never what it
\* signs for a certificate.
THEOREM CertificatesAreNotPayloads ==
  ASSUME NEW domain \in Bytes, NEW version \in Bytes, NEW binding \in Bytes,
         NEW pk \in KeysType, NEW meta \in MetaType,
         NEW a \in Bytes, NEW b \in Bytes, NEW r \in Bytes, NEW n \in U32
  PROVE  /\ SigningBytes(domain, version, binding, pk, meta) # CanonicalPayloadWithSubkeys(a, b, r, n)
         /\ SigningBytes(domain, version, binding, pk, meta) # LegacyPayload(a, b, r)
<1> DEFINE x == Subject(pk, meta)
           y == Be32(n)
           e == <<>>
<1>1. x \in Seq(Byte) /\ y \in Seq(Byte) /\ e \in Seq(Byte)
  BY SubjectType, U32Bytes
<1>2. Len(x) # 4 /\ Len(x) # 0
  <2>1. Len(x) > 4
    BY SubjectType, Zenon
  <2> DEFINE m == Len(x)
  <2>2. m > 4
    BY <2>1
  <2> SUFFICES m # 4 /\ m # 0
    OBVIOUS
  <2> HIDE DEF m
  <2> QED BY <2>2
<1>3. Len(y) = 4 /\ Len(e) = 0
  BY U32Bytes
<1>4. SigningBytes(domain, version, binding, pk, meta) = ThreeFields(domain, version, binding, x)
  BY SigningFields, SMTT(30)
<1>5. CanonicalPayloadWithSubkeys(a, b, r, n) = ThreeFields(a, b, r, y)
  BY Zenon DEF CanonicalPayloadWithSubkeys, ThreeFields
<1>6. LegacyPayload(a, b, r) = ThreeFields(a, b, r, e)
  BY LegacyFields, Zenon
<1> HIDE DEF x, y, e
<1>7. x # y /\ x # e
  BY <1>2, <1>3, Zenon
<1>9. ThreeFields(domain, version, binding, x) = ThreeFields(a, b, r, y) => x = y
  BY <1>1, ThreeFieldsCut, SMTT(60)
<1>10. ThreeFields(domain, version, binding, x) = ThreeFields(a, b, r, e) => x = e
  BY <1>1, ThreeFieldsCut, SMTT(60)
<1> QED BY <1>4, <1>5, <1>6, <1>7, <1>9, <1>10, Zenon
=============================================================================

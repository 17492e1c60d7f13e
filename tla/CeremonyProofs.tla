--------------------------- MODULE CeremonyProofs ---------------------------
(***************************************************************************)
(* For any number of boots and any deployments: what the files of an       *)
(* enclave are worth.  A boot makes the same records whatever happens      *)
(* around it, so everything a file holds is determined by the boot it came *)
(* from; the lemmas below are about that function of the boot.             *)
(***************************************************************************)
EXTENDS Ceremony, SequenceTheorems, TLAPS

AuthOf(d) == IF d.auth = Absent THEN DefaultAuth ELSE d.auth
EncOf(d)  == IF d.enc = Absent THEN DefaultEnc ELSE d.enc
PcrsOf(d) == [i \in 0 .. 2 |-> IF d.mode = "debug" THEN 0 ELSE d.image[i]]

\* Boot b, deployed as d, makes this record at position i (from 1).
RecordsOf(b, d) ==
  [i \in Nat |->
     LET lane  == IF i <= AuthOf(d) THEN 1 ELSE 2
         index == IF i <= AuthOf(d) THEN i - 1 ELSE i - 1 - AuthOf(d)
     IN [global_index |-> i - 1, account |-> lane, account_index |-> index, purpose_tag |-> lane,
         ml_dsa_pk |-> <<"ml", b, lane, index>>, slh_dsa_pk |-> <<"slh", b, lane, index>>]]

LeafOf(r) == <<r.global_index, r.purpose_tag, r.ml_dsa_pk, r.slh_dsa_pk>>
LeavesOf(b, d) == [i \in Nat |-> LeafOf(RecordsOf(b, d)[i])]

Prefix(f, n) == [i \in 1 .. n |-> f[i]]

MeasuredOf(d) == [i \in Nat |-> PcrsOf(d)[i - 1]]
TreeOf(b, d) == Prefix(LeavesOf(b, d), AuthOf(d) + EncOf(d))
PayloadIn(b, d) ==
  [ml_pk |-> <<"ml", b, 0, 0>>, slh_pk |-> <<"slh", b, 0, 0>>, tree |-> TreeOf(b, d)]

\* The quote and the bundle of boot n, deployed as d.
QuoteOf(q, n, d) ==
  [ca |-> IF d.mode = "mock" THEN Absent ELSE AwsRoot, from |-> q.from, to |-> q.to,
   pcrs |-> PcrsOf(d), user_data |-> PayloadIn(n, d)]
BundleOf(q, n, d) ==
  LET payload == PayloadIn(n, d)
  IN [payload |-> payload, quote |-> QuoteOf(q, n, d), expected_pcrs |-> PcrsOf(d),
      ml_sig |-> [by |-> payload.ml_pk, over |-> payload],
      slh_sig |-> [by |-> payload.slh_pk, over |-> payload], aws_root |-> d.root_ca]

\* A bundle is what one of the boots finished.
Finished(b, made) == \E n \in 1 .. Len(made) : b = BundleOf(b.quote, n, made[n])

\* A subkey JSON is of a record of one of the boots, signed if that was asked.
Served(s, made) ==
  /\ s.from \in 1 .. Len(made)
  /\ s.index = s.asked.index
  /\ AuthOf(made[s.from]) + EncOf(made[s.from]) # 0
  /\ s.tree = TreeOf(s.from, made[s.from])
  /\ s.asked.message # Absent => s.sig = s.asked.message

EnclaveInv ==
  /\ now \in 0 .. MaxNow /\ boots \in Seq(Deployments) /\ boot <= MaxBoots
  /\ phase \in {"off", "derive", "measure", "serve"}
  /\ phase # "off" => boot >= 1
  /\ quote # Absent => phase \in {"measure", "serve"}
  /\ bundle # Absent => phase = "serve"

RecordsInv ==
  /\ Len(subkeys) \in Nat
  /\ phase = "off" => Len(subkeys) = 0
  /\ subkeys = Prefix(RecordsOf(boot, dep), Len(subkeys))
  /\ leaves = Prefix(LeavesOf(boot, dep), Len(subkeys))
  /\ phase # "off" => Len(subkeys) <= AuthOf(dep) + EncOf(dep)
  /\ phase \in {"measure", "serve"} => Len(subkeys) = AuthOf(dep) + EncOf(dep)

MeasureInv ==
  /\ Len(measured) \in 0 .. 3 /\ (phase = "serve" => Len(measured) = 3)
  /\ measured = Prefix(MeasuredOf(dep), Len(measured))
  /\ phase = "measure" => quote = QuoteOf(quote, boot, dep)

FilesInv ==
  /\ phase = "serve" => bundle = BundleOf(bundle.quote, boot, dep)
  /\ bundleFile # Absent => Finished(bundleFile, boots)
  /\ subkeyFile # Absent => Served(subkeyFile, boots)

IInv == EnclaveInv /\ RecordsInv /\ MeasureInv /\ FilesInv

-----------------------------------------------------------------------------
(* Prefixes of a function on the positions.                                *)

LEMMA PrefixIs ==
  ASSUME NEW f, NEW n \in Nat
  PROVE  /\ Prefix(f, n) \in Seq({f[i] : i \in Nat}) /\ Len(Prefix(f, n)) = n
         /\ \A i \in 1 .. n : Prefix(f, n)[i] = f[i]
<1>1. Prefix(f, n) \in [1 .. n -> {f[i] : i \in Nat}] BY DEF Prefix
<1> QED BY <1>1 DEF Prefix

LEMMA PrefixAppend ==
  ASSUME NEW f, NEW n \in Nat
  PROVE  Append(Prefix(f, n), f[n + 1]) = Prefix(f, n + 1)
<1> DEFINE S == {f[i] : i \in Nat}  a == Append(Prefix(f, n), f[n + 1])
<1>1. Prefix(f, n) \in Seq(S) /\ Len(Prefix(f, n)) = n /\ f[n + 1] \in S BY PrefixIs
<1>2. a \in Seq(S) /\ Len(a) = n + 1 BY <1>1
<1>3. \A i \in 1 .. n + 1 : a[i] = f[i] BY <1>1, PrefixIs
<1>4. /\ Prefix(f, n + 1) \in Seq(S) /\ Len(Prefix(f, n + 1)) = n + 1
      /\ \A i \in 1 .. n + 1 : Prefix(f, n + 1)[i] = f[i]
  BY n + 1 \in Nat, PrefixIs
<1> QED BY <1>2, <1>3, <1>4, SeqEqual

LEMMA PrefixEmpty == ASSUME NEW f PROVE Prefix(f, 0) = << >>
BY DEF Prefix

-----------------------------------------------------------------------------
(* What a boot makes.                                                      *)

LEMMA CountsType == ASSUME NEW d \in Deployments PROVE AuthOf(d) \in Nat /\ EncOf(d) \in Nat
BY DefaultsAssumption, DeploymentsAssumption DEF AuthOf, EncOf

LEMMA RecordAt ==
  ASSUME NEW b, NEW d \in Deployments, NEW n \in Nat
  PROVE  LET lane  == IF n < AuthOf(d) THEN 1 ELSE 2
             index == IF n < AuthOf(d) THEN n ELSE n - AuthOf(d)
         IN RecordsOf(b, d)[n + 1] =
              [global_index |-> n, account |-> lane, account_index |-> index, purpose_tag |-> lane,
               ml_dsa_pk |-> <<"ml", b, lane, index>>, slh_dsa_pk |-> <<"slh", b, lane, index>>]
<1>1. AuthOf(d) \in Nat BY CountsType
<1>2. n + 1 \in Nat /\ (n + 1 <= AuthOf(d) <=> n < AuthOf(d)) /\ n + 1 - 1 = n
  BY <1>1
<1> QED BY <1>1, <1>2 DEF RecordsOf

LEMMA RecordFields ==
  ASSUME NEW b, NEW d \in Deployments, NEW k \in Nat \ {0}
  PROVE  /\ RecordsOf(b, d)[k].global_index = k - 1
         /\ LeavesOf(b, d)[k] = LeafOf(RecordsOf(b, d)[k])
         /\ LeavesOf(b, d)[k][3][2] = b
         /\ LET r == RecordsOf(b, d)[k]
            IN /\ r.ml_dsa_pk = <<"ml", b, r.account, r.account_index>>
               /\ r.slh_dsa_pk = <<"slh", b, r.account, r.account_index>>
<1> DEFINE r == RecordsOf(b, d)[k]  lane == IF k <= AuthOf(d) THEN 1 ELSE 2
           index == IF k <= AuthOf(d) THEN k - 1 ELSE k - 1 - AuthOf(d)
<1>1. r = [global_index |-> k - 1, account |-> lane, account_index |-> index,
           purpose_tag |-> lane, ml_dsa_pk |-> <<"ml", b, lane, index>>,
           slh_dsa_pk |-> <<"slh", b, lane, index>>]
  BY DEF RecordsOf
<1>2. LeavesOf(b, d)[k] = LeafOf(r) BY DEF LeavesOf
<1> HIDE DEF lane, index
<1>3. /\ r.global_index = k - 1 /\ r.ml_dsa_pk = <<"ml", b, lane, index>>
      /\ r.slh_dsa_pk = <<"slh", b, lane, index>>
      /\ r.account = lane /\ r.account_index = index
  BY <1>1
<1>4. LeafOf(r)[3] = r.ml_dsa_pk BY DEF LeafOf
<1> QED BY <1>2, <1>3, <1>4

\* Trees of different boots differ, unless both are empty.
LEMMA TreesDiffer ==
  ASSUME NEW b, NEW d \in Deployments, NEW c, NEW e \in Deployments,
         AuthOf(d) + EncOf(d) # 0, TreeOf(b, d) = TreeOf(c, e)
  PROVE  b = c
<1> DEFINE m == AuthOf(d) + EncOf(d)  n == AuthOf(e) + EncOf(e)
<1>1. m \in Nat /\ n \in Nat BY CountsType
<1>2. m = n BY <1>1, PrefixIs DEF TreeOf
<1>3. 1 \in 1 .. m BY <1>1
<1>4. TreeOf(b, d)[1] = LeavesOf(b, d)[1] BY <1>1, <1>3, PrefixIs DEF TreeOf
<1>5. TreeOf(c, e)[1] = LeavesOf(c, e)[1] BY <1>1, <1>2, <1>3, PrefixIs DEF TreeOf
<1>6. LeavesOf(b, d)[1][3][2] = b /\ LeavesOf(c, e)[1][3][2] = c BY RecordFields
<1> QED BY <1>4, <1>5, <1>6

\* The oracle finds record i at its position, and nowhere else.
LEMMA LookupIs ==
  ASSUME IInv, phase = "serve", NEW i \in 0 .. Len(subkeys), Lookup(i) # 0
  PROVE  Lookup(i) = i + 1 /\ i + 1 \in 1 .. Len(subkeys)
<1> DEFINE I == {k \in 1 .. Len(subkeys) : subkeys[k].global_index = i}
<1>1. dep \in Deployments /\ Len(subkeys) \in Nat BY DEF IInv, EnclaveInv, RecordsInv, boot, dep
<1>2. \A k \in 1 .. Len(subkeys) : subkeys[k].global_index = k - 1
  <2> TAKE k \in 1 .. Len(subkeys)
  <2>1. subkeys[k] = RecordsOf(boot, dep)[k] BY <1>1, PrefixIs DEF IInv, RecordsInv
  <2>2. k \in Nat \ {0} BY <1>1
  <2> QED BY <1>1, <2>1, <2>2, RecordFields
<1>3. Lookup(i) = IF I # {} THEN Min(I) ELSE 0 BY DEF Lookup, SelectInSeq
<1>4. I # {} BY <1>3
<1>5. I = {i + 1} BY <1>1, <1>2, <1>4
<1>6. Min(I) = i + 1 BY <1>1, <1>5 DEF Min
<1> QED BY <1>1, <1>3, <1>4, <1>5, <1>6

\* The JSON the oracle serves folds into the whole tree of its boot.
LEMMA JsonIs ==
  ASSUME IInv, phase = "serve", NEW i \in 0 .. Len(subkeys), Lookup(i) # 0, NEW sig, NEW asked
  PROVE  /\ Json(subkeys[Lookup(i)], sig, asked) =
              [index |-> i, tree |-> TreeOf(boot, dep), sig |-> sig, asked |-> asked, from |-> boot]
         /\ AuthOf(dep) + EncOf(dep) # 0
         /\ \A m : SignAgain(subkeys[Lookup(i)], m) = m
<1> DEFINE r == subkeys[Lookup(i)]  n == Len(subkeys)
<1>1. dep \in Deployments /\ n \in Nat BY DEF IInv, EnclaveInv, RecordsInv, boot, dep
<1>2. Lookup(i) = i + 1 /\ i + 1 \in 1 .. n BY LookupIs
<1>3. r = RecordsOf(boot, dep)[i + 1]
  <2>1. subkeys = Prefix(RecordsOf(boot, dep), n) BY DEF IInv, RecordsInv
  <2> HIDE DEF n
  <2> QED BY <1>1, <1>2, <2>1, PrefixIs
<1>4. leaves[i + 1] = LeavesOf(boot, dep)[i + 1]
  <2>1. leaves = Prefix(LeavesOf(boot, dep), n) BY DEF IInv, RecordsInv
  <2> HIDE DEF n
  <2> QED BY <1>1, <1>2, <2>1, PrefixIs
<1>5. r.global_index = i /\ leaves[i + 1] = LeafOf(r)
  BY <1>1, <1>2, <1>3, <1>4, RecordFields
<1>6. n = AuthOf(dep) + EncOf(dep) /\ leaves = TreeOf(boot, dep)
  BY DEF IInv, RecordsInv, TreeOf
<1>7. ReplaceAt(leaves, i + 1, LeafOf(r)) = leaves
  <2>1. leaves = [k \in 1 .. n |-> LeavesOf(boot, dep)[k]] BY DEF IInv, RecordsInv, Prefix
  <2> QED BY <1>5, <2>1 DEF ReplaceAt
<1>8. \A m : SignAgain(r, m) = m
  <2>1. i \in Nat BY <1>1
  <2>2. /\ r.ml_dsa_pk = <<"ml", boot, r.account, r.account_index>>
        /\ r.slh_dsa_pk = <<"slh", boot, r.account, r.account_index>>
    BY <1>1, <1>3, <2>1, RecordFields
  <2> QED BY <2>2 DEF SignAgain, PublicKey
<1> QED BY <1>1, <1>2, <1>5, <1>6, <1>7, <1>8 DEF Json, Leaf, LeafOf

\* What a boot made is not changed by a later boot.
LEMMA FilesStay ==
  ASSUME NEW made \in Seq(Deployments), NEW d \in Deployments
  PROVE  /\ \A b : Finished(b, made) => Finished(b, Append(made, d))
         /\ \A s : Served(s, made) => Served(s, Append(made, d))
<1>1. \A n \in 1 .. Len(made) : n \in 1 .. Len(Append(made, d)) /\ Append(made, d)[n] = made[n]
  OBVIOUS
<1>2. ASSUME NEW b, Finished(b, made) PROVE Finished(b, Append(made, d))
  BY <1>1, <1>2 DEF Finished
<1>3. ASSUME NEW s, Served(s, made) PROVE Served(s, Append(made, d))
  BY <1>1, <1>3 DEF Served
<1> QED BY <1>2, <1>3

-----------------------------------------------------------------------------
(* The invariant is inductive.                                             *)

LEMMA InitHolds == Init => IInv
<1> SUFFICES ASSUME Init PROVE IInv OBVIOUS
<1>1. EnclaveInv BY BoundsAssumption DEF Init, EnclaveInv, boot
<1>2. RecordsInv BY PrefixEmpty DEF Init, RecordsInv
<1>3. MeasureInv BY PrefixEmpty DEF Init, MeasureInv
<1>4. FilesInv BY DEF Init, FilesInv
<1> QED BY <1>1, <1>2, <1>3, <1>4 DEF IInv

\* Boot and Exit leave the enclave empty.
LEMMA EmptyHolds ==
  ASSUME subkeys' = << >>, leaves' = << >>, measured' = << >>, quote' = Absent, bundle' = Absent,
         phase' \in {"off", "derive"}, phase' = "off" \/ dep' \in Deployments
  PROVE  RecordsInv' /\ MeasureInv'
<1>1. Len(subkeys') = 0 /\ Len(measured') = 0 OBVIOUS
<1>2. phase' # "off" => 0 <= AuthOf(dep') + EncOf(dep') BY CountsType
<1>3. RecordsInv' BY <1>1, <1>2, PrefixEmpty DEF RecordsInv
<1>4. MeasureInv' BY <1>1, PrefixEmpty DEF MeasureInv
<1> QED BY <1>3, <1>4

LEMMA DepType == EnclaveInv /\ phase # "off" => boot \in 1 .. Len(boots) /\ dep \in Deployments
BY DEF EnclaveInv, boot, dep

LEMMA BootHolds == ASSUME IInv, NEW d \in Deployments, Boot(d) PROVE IInv'
<1>1. boots \in Seq(Deployments) /\ boots' = Append(boots, d) BY DEF IInv, EnclaveInv, Boot
<1>2. EnclaveInv' BY <1>1, BoundsAssumption DEF IInv, EnclaveInv, Boot, boot, files
<1>3. RecordsInv' /\ MeasureInv' BY <1>2, DepType, EmptyHolds DEF Boot, EnclaveInv, boot, dep
<1>4. FilesInv' BY <1>1, FilesStay DEF IInv, FilesInv, Boot, files
<1> QED BY <1>2, <1>3, <1>4 DEF IInv

LEMMA ExitHolds == ASSUME IInv, Exit PROVE IInv'
<1>1. EnclaveInv' BY DEF IInv, EnclaveInv, Exit, boot, files
<1>2. RecordsInv' /\ MeasureInv' BY EmptyHolds DEF Exit
<1>3. FilesInv' BY DEF IInv, FilesInv, Exit, files
<1> QED BY <1>1, <1>2, <1>3 DEF IInv

LEMMA DeriveSubkeyHolds == ASSUME IInv, DeriveSubkey PROVE IInv'
<1> DEFINE n == Len(subkeys)  r == RecordsOf(boot, dep)[n + 1]
           lane == IF n < AuthOf(dep) THEN 1 ELSE 2
           index == IF n < AuthOf(dep) THEN n ELSE n - AuthOf(dep)
<1>1. dep \in Deployments /\ n \in Nat BY DepType DEF IInv, RecordsInv, DeriveSubkey
<1>2. AuthCount = AuthOf(dep) /\ EncCount = EncOf(dep) BY DEF AuthCount, EncCount, AuthOf, EncOf
<1>3. n < AuthOf(dep) + EncOf(dep) /\ phase = "derive" BY <1>2 DEF DeriveSubkey
<1>4. Derive(lane, lane, index, n) BY <1>2 DEF DeriveSubkey
<1>5. r = [global_index |-> n, account |-> lane, account_index |-> index, purpose_tag |-> lane,
           ml_dsa_pk |-> <<"ml", boot, lane, index>>, slh_dsa_pk |-> <<"slh", boot, lane, index>>]
  BY <1>1, RecordAt
<1> HIDE DEF lane, index
<1>6. subkeys' = Append(subkeys, r) BY <1>4, <1>5 DEF Derive, PublicKey
<1>7. leaves' = Append(leaves, LeavesOf(boot, dep)[n + 1])
  <2>1. LeavesOf(boot, dep)[n + 1] = LeafOf(r) BY <1>1, n + 1 \in Nat \ {0}, RecordFields
  <2> QED BY <1>4, <1>5, <2>1 DEF Derive, PublicKey, Leaf, LeafOf
<1>8. UNCHANGED <<now, boots, phase, quote, measured, bundle, bundleFile, subkeyFile>>
  BY <1>4 DEF Derive, files
<1>9. EnclaveInv' BY <1>8 DEF IInv, EnclaveInv, boot
<1>10. RecordsInv'
  <2>1. subkeys' = Prefix(RecordsOf(boot, dep), n + 1)
    BY <1>1, <1>6, PrefixAppend DEF IInv, RecordsInv
  <2>2. leaves' = Prefix(LeavesOf(boot, dep), n + 1)
    BY <1>1, <1>7, PrefixAppend DEF IInv, RecordsInv
  <2>3. Len(subkeys') = n + 1 BY <1>1, <2>1, n + 1 \in Nat, PrefixIs
  <2>4. AuthOf(dep) + EncOf(dep) \in Nat BY <1>1, CountsType
  <2>5. boot' = boot /\ dep' = dep BY <1>8 DEF boot, dep
  <2> QED BY <1>1, <1>3, <1>8, <2>1, <2>2, <2>3, <2>4, <2>5 DEF RecordsInv
<1>11. MeasureInv' BY <1>3, <1>8 DEF IInv, MeasureInv, boot, dep
<1>12. FilesInv' BY <1>3, <1>8 DEF IInv, FilesInv
<1> QED BY <1>9, <1>10, <1>11, <1>12 DEF IInv

\* With all subkeys derived, the payload is that of the boot.
LEMMA PayloadIs ==
  ASSUME RecordsInv, Len(subkeys) = AuthOf(dep) + EncOf(dep)
  PROVE  PayloadOf(leaves) = PayloadIn(boot, dep)
BY DEF RecordsInv, PayloadOf, PayloadIn, PublicKey, TreeOf

LEMMA AttestHolds == ASSUME IInv, Attest PROVE IInv'
<1>1. Len(subkeys) = AuthOf(dep) + EncOf(dep)
  BY DEF Attest, AuthCount, EncCount, AuthOf, EncOf
<1>2. UNCHANGED <<now, boots, subkeys, leaves, measured, bundle, bundleFile, subkeyFile>>
  BY DEF Attest, files
<1>3. phase = "derive" /\ phase' = "measure" BY DEF Attest
<1>4. quote' = QuoteOf(quote', boot, dep)
  <2>1. [i \in 0 .. 2 |-> Pcr(i)] = PcrsOf(dep) BY DEF Pcr, PcrsOf
  <2>2. PayloadOf(leaves) = PayloadIn(boot, dep) BY <1>1, PayloadIs DEF IInv
  <2> QED BY <2>1, <2>2 DEF Attest, QuoteOf
<1>5. EnclaveInv' BY <1>2, <1>3 DEF IInv, EnclaveInv, boot
<1>6. RecordsInv'
  <2>1. AuthOf(dep) + EncOf(dep) \in Nat BY <1>3, DepType, CountsType DEF IInv
  <2>2. boot' = boot /\ dep' = dep BY <1>2 DEF boot, dep
  <2>3. AuthOf(dep) + EncOf(dep) <= AuthOf(dep) + EncOf(dep) BY <2>1
  <2> QED BY <1>1, <1>2, <1>3, <2>2, <2>3 DEF IInv, RecordsInv
<1>7. MeasureInv' BY <1>2, <1>3, <1>4 DEF IInv, MeasureInv, boot, dep
<1>8. FilesInv' BY <1>2, <1>3 DEF IInv, FilesInv
<1> QED BY <1>5, <1>6, <1>7, <1>8 DEF IInv

LEMMA DescribePcrHolds == ASSUME IInv, DescribePcr PROVE IInv'
<1>1. UNCHANGED <<now, boots, phase, subkeys, leaves, quote, bundle, bundleFile, subkeyFile>>
  BY DEF DescribePcr, files
<1>2. EnclaveInv' BY <1>1 DEF IInv, EnclaveInv, boot
<1>3. RecordsInv' BY <1>1 DEF IInv, RecordsInv, boot, dep
<1>4. MeasureInv'
  <2> DEFINE k == Len(measured)
  <2>1. k \in 0 .. 2 BY DEF IInv, MeasureInv, DescribePcr
  <2>2. measured = Prefix(MeasuredOf(dep), k) BY DEF IInv, MeasureInv
  <2>3. MeasuredOf(dep)[k + 1] = PcrsOf(dep)[k] BY <2>1 DEF MeasuredOf
  <2>4. measured' = Append(measured, MeasuredOf(dep)[k + 1])
    BY <2>1, <2>3 DEF DescribePcr, Pcr, PcrsOf
  <2>5. Append(Prefix(MeasuredOf(dep), k), MeasuredOf(dep)[k + 1]) = Prefix(MeasuredOf(dep), k + 1)
    BY <2>1, k \in Nat, PrefixAppend
  <2>6. measured' = Prefix(MeasuredOf(dep), k + 1)
    <3> HIDE DEF k
    <3> QED BY <2>2, <2>4, <2>5
  <2>7. Len(measured') = k + 1 BY <2>1, <2>6, k + 1 \in Nat, PrefixIs
  <2>8. k + 1 \in 0 .. 3
    <3> HIDE DEF k
    <3> QED BY <2>1
  <2>9. boot' = boot /\ dep' = dep BY <1>1 DEF boot, dep
  <2>10. measured' = Prefix(MeasuredOf(dep'), Len(measured'))
    <3> HIDE DEF k
    <3> QED BY <2>6, <2>7, <2>9
  <2>11. Len(measured') \in 0 .. 3 BY <2>7, <2>8
  <2>12. phase' = "measure" /\ quote' = quote BY <1>1 DEF DescribePcr
  <2>13. quote' = QuoteOf(quote', boot', dep') BY <2>9, <2>12 DEF IInv, MeasureInv, DescribePcr
  <2> QED BY <2>10, <2>11, <2>12, <2>13 DEF MeasureInv
<1>5. FilesInv' BY <1>1 DEF IInv, FilesInv, boot, dep
<1> QED BY <1>2, <1>3, <1>4, <1>5 DEF IInv

LEMMA FinishHolds == ASSUME IInv, Finish PROVE IInv'
<1>1. UNCHANGED <<now, boots, subkeys, leaves, quote, measured, bundleFile, subkeyFile>>
  BY DEF Finish, files
<1>2. phase = "measure" /\ phase' = "serve" /\ Len(measured) = 3 BY DEF Finish
<1>3. PayloadOf(leaves) = PayloadIn(boot, dep) BY <1>2, PayloadIs DEF IInv, RecordsInv
<1>4. [i \in 0 .. 2 |-> measured[i + 1]] = PcrsOf(dep)
  <2>1. \A i \in 0 .. 2 : measured[i + 1] = MeasuredOf(dep)[i + 1]
    <3>1. measured = Prefix(MeasuredOf(dep), 3) BY <1>2 DEF IInv, MeasureInv
    <3>2. \A k \in 1 .. 3 : measured[k] = MeasuredOf(dep)[k] BY <3>1, PrefixIs
    <3>3. \A i \in 0 .. 2 : i + 1 \in 1 .. 3 OBVIOUS
    <3> QED BY <3>2, <3>3
  <2>2. \A i \in 0 .. 2 : MeasuredOf(dep)[i + 1] = PcrsOf(dep)[i] BY DEF MeasuredOf
  <2> DEFINE p == PcrsOf(dep)
  <2>3. \A i \in 0 .. 2 : measured[i + 1] = p[i] BY <2>1, <2>2
  <2>4. p = [i \in 0 .. 2 |-> p[i]] BY DEF PcrsOf
  <2> HIDE DEF p
  <2>5. [i \in 0 .. 2 |-> measured[i + 1]] = p BY <2>3, <2>4
  <2> QED BY <2>5 DEF p
<1>5. bundle' = BundleOf(bundle'.quote, boot, dep)
  <2>1. bundle'.quote = quote BY DEF Finish
  <2>2. quote = QuoteOf(quote, boot, dep) BY <1>2 DEF IInv, MeasureInv
  <2>3. \A family \in {"ml", "slh"} :
          SignWithRoot(family, PayloadOf(leaves)) =
            [by |-> <<family, boot, 0, 0>>, over |-> PayloadIn(boot, dep)]
    BY <1>3 DEF SignWithRoot, PublicKey
  <2>4. /\ PayloadIn(boot, dep).ml_pk = <<"ml", boot, 0, 0>>
        /\ PayloadIn(boot, dep).slh_pk = <<"slh", boot, 0, 0>>
    BY DEF PayloadIn
  <2> QED BY <1>3, <1>4, <2>1, <2>2, <2>3, <2>4 DEF Finish, BundleOf
<1>6. EnclaveInv' BY <1>1, <1>2 DEF IInv, EnclaveInv, boot
<1>7. RecordsInv' BY <1>1, <1>2 DEF IInv, RecordsInv, boot, dep
<1>8. MeasureInv' BY <1>1, <1>2 DEF IInv, MeasureInv, boot, dep
<1>9. FilesInv' BY <1>1, <1>5 DEF IInv, FilesInv, boot, dep
<1> QED BY <1>6, <1>7, <1>8, <1>9 DEF IInv

\* The enclave does nothing.
LEMMA EnclaveStays ==
  ASSUME IInv, UNCHANGED enclave, now' \in 0 .. MaxNow,
         bundleFile' # Absent => Finished(bundleFile', boots),
         subkeyFile' # Absent => Served(subkeyFile', boots)
  PROVE  IInv'
<1>1. UNCHANGED <<boots, phase, subkeys, leaves, quote, measured, bundle>> BY DEF enclave
<1>2. EnclaveInv' BY <1>1 DEF IInv, EnclaveInv, boot
<1>3. RecordsInv' BY <1>1 DEF IInv, RecordsInv, boot, dep
<1>4. MeasureInv' BY <1>1 DEF IInv, MeasureInv, boot, dep
<1>5. FilesInv' BY <1>1 DEF IInv, FilesInv, boot, dep
<1> QED BY <1>2, <1>3, <1>4, <1>5 DEF IInv

LEMMA FetchBundleHolds == ASSUME IInv, FetchBundle PROVE IInv'
<1>1. phase = "serve" /\ bundleFile' = bundle /\ UNCHANGED <<now, enclave, subkeyFile>>
  BY DEF FetchBundle
<1>2. bundle = BundleOf(bundle.quote, boot, boots[boot]) BY <1>1 DEF IInv, FilesInv, dep
<1>3. boot \in 1 .. Len(boots) BY <1>1, DepType DEF IInv
<1>4. Finished(bundle, boots) BY <1>2, <1>3 DEF Finished
<1>5. now' \in 0 .. MaxNow BY <1>1 DEF IInv, EnclaveInv
<1>6. subkeyFile' # Absent => Served(subkeyFile', boots) BY <1>1 DEF IInv, FilesInv
<1> QED BY <1>1, <1>4, <1>5, <1>6, EnclaveStays

\* What FetchSubkey and Sign save is served by the current boot.
LEMMA SaveHolds ==
  ASSUME IInv, phase = "serve", NEW i \in 0 .. Len(subkeys), Lookup(i) # 0, NEW m, NEW sig,
         m # Absent => sig = SignAgain(subkeys[Lookup(i)], m),
         Save(Json(subkeys[Lookup(i)], sig, [index |-> i, message |-> m]))
  PROVE  IInv'
<1> DEFINE asked == [index |-> i, message |-> m]  json == Json(subkeys[Lookup(i)], sig, asked)
<1>1. subkeyFile' = json /\ UNCHANGED <<now, enclave, bundleFile>> BY DEF Save
<1>2. /\ json = [index |-> i, tree |-> TreeOf(boot, dep), sig |-> sig, asked |-> asked, from |-> boot]
      /\ AuthOf(dep) + EncOf(dep) # 0
  BY JsonIs
<1>3. m # Absent => sig = m BY JsonIs
<1>4. boot \in 1 .. Len(boots) BY DepType DEF IInv
<1>5. Served(json, boots)
  <2> HIDE DEF json
  <2> QED BY <1>2, <1>3, <1>4 DEF Served, dep
<1>6. now' \in 0 .. MaxNow BY <1>1 DEF IInv, EnclaveInv
<1>7. bundleFile' # Absent => Finished(bundleFile', boots) BY <1>1 DEF IInv, FilesInv
<1> HIDE DEF json
<1> QED BY <1>1, <1>5, <1>6, <1>7, EnclaveStays

LEMMA TickHolds == ASSUME IInv, Tick PROVE IInv'
<1>1. now' \in 0 .. MaxNow BY BoundsAssumption DEF IInv, EnclaveInv, Tick
<1>2. UNCHANGED <<enclave, bundleFile, subkeyFile>> BY DEF Tick, files
<1> QED BY <1>1, <1>2, EnclaveStays DEF IInv, FilesInv

LEMMA NextHolds == ASSUME IInv, CeremonyNext PROVE IInv'
<1>1. CASE \E d \in Deployments : Boot(d) BY <1>1, BootHolds
<1>2. CASE DeriveSubkey BY <1>2, DeriveSubkeyHolds
<1>3. CASE Attest BY <1>3, AttestHolds
<1>4. CASE DescribePcr BY <1>4, DescribePcrHolds
<1>5. CASE Finish BY <1>5, FinishHolds
<1>6. CASE Exit BY <1>6, ExitHolds
<1>7. CASE FetchBundle BY <1>7, FetchBundleHolds
<1>8. ASSUME NEW i \in 0 .. Len(subkeys), FetchSubkey(i) PROVE IInv'
  BY <1>8, SaveHolds DEF FetchSubkey
<1>9. ASSUME NEW i \in 0 .. Len(subkeys), NEW m \in Messages, Sign(i, m) PROVE IInv'
  BY <1>9, SaveHolds DEF Sign
<1>10. CASE Tick BY <1>10, TickHolds
<1> QED BY <1>1, <1>2, <1>3, <1>4, <1>5, <1>6, <1>7, <1>8, <1>9, <1>10 DEF CeremonyNext

LEMMA StutterHolds == ASSUME IInv, UNCHANGED ceremonyVars PROVE IInv'
<1>1. UNCHANGED <<now, enclave, bundleFile, subkeyFile>> BY DEF ceremonyVars, files
<1> QED BY <1>1, EnclaveStays DEF IInv, EnclaveInv, FilesInv

\* In every state the records, the measurements and the files are those of a boot.
THEOREM InvariantHolds == CeremonySpec => []IInv
<1>1. Init => IInv BY InitHolds
<1>2. IInv /\ [CeremonyNext]_ceremonyVars => IInv' BY NextHolds, StutterHolds
<1> QED BY <1>1, <1>2, PTL DEF CeremonySpec

-----------------------------------------------------------------------------
(* What the files are worth.                                               *)

LEMMA IInvTypeOK == IInv => TypeOK
<1> SUFFICES ASSUME IInv PROVE TypeOK OBVIOUS
<1> DEFINE n == Len(subkeys)
<1>1. Len(leaves) = n /\ \A i \in DOMAIN subkeys : subkeys[i].global_index = i - 1
  <2>1. n \in Nat /\ (n # 0 => phase # "off") BY DEF IInv, RecordsInv
  <2>2. Len(leaves) = n BY <2>1, PrefixIs DEF IInv, RecordsInv
  <2>3. ASSUME NEW i \in 1 .. n PROVE subkeys[i].global_index = i - 1
    <3>1. phase # "off" BY <2>1
    <3>2. dep \in Deployments BY <3>1, DepType DEF IInv
    <3>3. subkeys[i] = RecordsOf(boot, dep)[i] BY <2>1, PrefixIs DEF IInv, RecordsInv
    <3> QED BY <3>2, <3>3, RecordFields
  <2>4. DOMAIN subkeys = 1 .. n
    <3>1. subkeys = Prefix(RecordsOf(boot, dep), n) BY DEF IInv, RecordsInv
    <3> HIDE DEF n
    <3> QED BY <3>1 DEF Prefix
  <2> HIDE DEF n
  <2> QED BY <2>2, <2>3, <2>4
<1>2. Len(measured) <= 3 /\ (phase = "serve" => Len(measured) = 3)
  <2> DEFINE k == Len(measured)
  <2>1. k \in 0 .. 3 /\ (phase = "serve" => k = 3) BY DEF IInv, MeasureInv
  <2> HIDE DEF k
  <2>2. k <= 3 /\ (phase = "serve" => k = 3) BY <2>1
  <2> QED BY <2>2 DEF k
<1>3. EnclaveInv BY DEF IInv
<1> QED BY <1>1, <1>2, <1>3 DEF EnclaveInv, TypeOK

\* The state has its shape in every reachable state (main.rs:57-149).
THEOREM TypeCorrect == CeremonySpec => []TypeOK
BY InvariantHolds, IInvTypeOK, PTL

\* What makes a bundle of boot n pass, check by check.
LEMMA BundlePasses ==
  ASSUME NEW d \in Deployments, NEW n, NEW b, b = BundleOf(b.quote, n, d), NEW t,
         NEW c, c.bundle = b, c.root = AwsRoot
  PROVE  Verify!StepsPass(c, t)
           <=> d.mode = "nitro" /\ d.root_ca = AwsRoot /\ b.quote.from <= t /\ t <= b.quote.to
<1> DEFINE p == PayloadIn(n, d)  q == b.quote
<1>1. /\ b.payload = p /\ b.quote = QuoteOf(q, n, d) /\ b.expected_pcrs = PcrsOf(d)
      /\ b.ml_sig = [by |-> p.ml_pk, over |-> p] /\ b.slh_sig = [by |-> p.slh_pk, over |-> p]
      /\ b.aws_root = d.root_ca
  BY DEF BundleOf
<1>2. /\ q.ca = IF d.mode = "mock" THEN Absent ELSE AwsRoot
      /\ q.pcrs = PcrsOf(d) /\ q.user_data = p
  BY <1>1 DEF QuoteOf
<1> HIDE DEF p, q
<1>3. Verify!DualVerifies(b.payload, b.ml_sig, b.slh_sig) BY <1>1 DEF Verify!DualVerifies
<1>4. q.ca = AwsRoot <=> d.mode # "mock" BY <1>2, AbsentAssumption
<1>5. DOMAIN q.pcrs = 0 .. 2 BY <1>2 DEF PcrsOf
<1>6. (\E i \in 0 .. 2 : q.pcrs[i] # 0) <=> d.mode # "debug"
  <2>1. d.image \in [0 .. 2 -> Nat \ {0}] BY DeploymentsAssumption
  <2>2. \A i \in 0 .. 2 : q.pcrs[i] = IF d.mode = "debug" THEN 0 ELSE d.image[i]
    BY <1>2 DEF PcrsOf
  <2>3. 0 \in 0 .. 2 /\ d.image[0] # 0 BY <2>1
  <2> QED BY <2>2, <2>3
<1>7. Verify!QuoteVerifies(q, AwsRoot, t) <=> d.mode # "mock" /\ q.from <= t /\ t <= q.to
  BY <1>4, <1>5 DEF Verify!QuoteVerifies
<1>8. Verify!BundleVerifies(b, AwsRoot, t)
        <=> d.mode # "mock" /\ d.mode # "debug" /\ q.from <= t /\ t <= q.to
  BY <1>1, <1>2, <1>3, <1>6, <1>7 DEF Verify!BundleVerifies, q
<1>9. d.mode = "nitro" <=> d.mode # "mock" /\ d.mode # "debug" BY DeploymentsAssumption
<1>10. Verify!StepsPass(c, t) <=> AwsRoot = d.root_ca /\ Verify!BundleVerifies(b, AwsRoot, t)
  BY <1>1 DEF Verify!StepsPass
<1> QED BY <1>8, <1>9, <1>10 DEF q

\* The boot a bundle names is the one that finished it.
LEMMA BootOfIs ==
  ASSUME NEW n, NEW d, NEW b, b = BundleOf(b.quote, n, d)
  PROVE  BootOf(b.payload) = n /\ b.payload = PayloadIn(n, d)
<1>1. b.payload = PayloadIn(n, d) BY DEF BundleOf
<1> QED BY <1>1 DEF BootOf, PayloadIn

\* bundle.json, of whichever boot, passes the checks of `pq verify` exactly when
\* its enclave was genuine and as long as its certificates live (lib.rs:112-181).
THEOREM FinishedBundlesVerify == CeremonySpec => []FinishedBundleVerifies
<1>1. IInv => FinishedBundleVerifies
  <2> SUFFICES ASSUME IInv, bundleFile # Absent
               PROVE  \A t \in 0 .. MaxNow + Validity + 1 :
                        Verify!StepsPass([bundle |-> bundleFile, root |-> AwsRoot], t)
                          <=> Honest(bundleFile) /\ bundleFile.quote.from <= t
                                                 /\ t <= bundleFile.quote.to
    BY DEF FinishedBundleVerifies
  <2>1. PICK n \in 1 .. Len(boots) : bundleFile = BundleOf(bundleFile.quote, n, boots[n])
    BY DEF IInv, FilesInv, Finished
  <2>2. boots[n] \in Deployments BY DEF IInv, EnclaveInv
  <2>3. Honest(bundleFile) <=> boots[n].mode = "nitro" /\ boots[n].root_ca = AwsRoot
    BY <2>1, BootOfIs DEF Honest
  <2> DEFINE c == [bundle |-> bundleFile, root |-> AwsRoot]
  <2>4. c.bundle = bundleFile /\ c.root = AwsRoot OBVIOUS
  <2> HIDE DEF c
  <2>5. \A t : Verify!StepsPass(c, t) <=> boots[n].mode = "nitro" /\ boots[n].root_ca = AwsRoot
                 /\ bundleFile.quote.from <= t /\ t <= bundleFile.quote.to
    BY <2>1, <2>2, <2>4, BundlePasses
  <2> QED BY <2>3, <2>5 DEF c
<1> QED BY <1>1, InvariantHolds, PTL

\* What a subkey JSON is worth beside a bundle.json.
LEMMA FitsIsFrom == IInv => SubkeyFileFits
<1> SUFFICES ASSUME IInv, bundleFile # Absent, subkeyFile # Absent
             PROVE  /\ subkeyFile.index = subkeyFile.asked.index
                    /\ Verify!SubkeyPasses([bundle |-> bundleFile, subkey |-> subkeyFile,
                                            message |-> subkeyFile.asked.message])
                         <=> subkeyFile.from = BootOf(bundleFile.payload)
  BY DEF SubkeyFileFits
<1> DEFINE m == subkeyFile.from  e == boots[m]
<1>1. PICK n \in 1 .. Len(boots) : bundleFile = BundleOf(bundleFile.quote, n, boots[n])
  BY DEF IInv, FilesInv, Finished
<1>2. /\ m \in 1 .. Len(boots) /\ subkeyFile.index = subkeyFile.asked.index
      /\ AuthOf(e) + EncOf(e) # 0 /\ subkeyFile.tree = TreeOf(m, e)
      /\ subkeyFile.asked.message # Absent => subkeyFile.sig = subkeyFile.asked.message
  BY DEF IInv, FilesInv, Served
<1>3. boots[n] \in Deployments /\ e \in Deployments BY <1>2 DEF IInv, EnclaveInv
<1>4. BootOf(bundleFile.payload) = n /\ bundleFile.payload.tree = TreeOf(n, boots[n])
  <2>1. /\ BootOf(bundleFile.payload) = n
        /\ bundleFile.payload = PayloadIn(n, boots[n])
    BY <1>1, BootOfIs
  <2>2. PayloadIn(n, boots[n]).tree = TreeOf(n, boots[n]) BY DEF PayloadIn
  <2> QED BY <2>1, <2>2
<1>5. TreeOf(m, e) = TreeOf(n, boots[n]) <=> m = n BY <1>2, <1>3, TreesDiffer
<1> HIDE DEF m, e
<1>6. Verify!SubkeyPasses([bundle |-> bundleFile, subkey |-> subkeyFile,
                           message |-> subkeyFile.asked.message])
        <=> subkeyFile.tree = bundleFile.payload.tree
  BY <1>2 DEF Verify!SubkeyPasses
<1> QED BY <1>2, <1>4, <1>5, <1>6 DEF m

\* A subkey JSON fits a bundle exactly when one boot made both, and signs what it
\* was asked to sign, with the subkey it was asked for (lib.rs:81-100, 123-151).
THEOREM SubkeyFilesFit == CeremonySpec => []SubkeyFileFits
BY FitsIsFrom, InvariantHolds, PTL
=============================================================================

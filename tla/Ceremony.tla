------------------------------ MODULE Ceremony ------------------------------
(***************************************************************************)
(* The enclave, boot after boot, and the files an operator fetches from    *)
(* it.  A boot makes a new mnemonic, derives the subkeys, attests, measures *)
(* itself and serves; it keeps nothing on disk, so any failure and any     *)
(* restart loses the keys.  Files outlive the boot they came from.         *)
(*                                                                         *)
(* A key is its mnemonic (the number of its boot) and its path; a digest   *)
(* is its preimage.  A tree is its list of leaves: the root tells lists    *)
(* apart, and a leaf folds along a path into the root only at its place in *)
(* the list (SubkeyMerkleProofs, SubkeyRootProofs).                        *)
(***************************************************************************)
EXTENDS Integers, Sequences, SequencesExt

CONSTANTS
  Deployments,  \* [auth, enc, mode, image, root_ca]: what a boot is given
  Absent,       \* an environment variable that is unset or no number; no file
  DefaultAuth, DefaultEnc,
  AwsRoot,      \* the genuine AWS Nitro root CA
  Validity,     \* life of the certificates of a quote
  Messages,     \* what callers ask the oracle to sign
  Tolerance,    \* OVERRIDE_TOLERANCE_SECS
  MaxBoots,     \* bound: boots of the enclave
  MaxNow        \* bound: the clock stops here

ASSUME BoundsAssumption == MaxBoots \in Nat /\ MaxNow \in Nat /\ Validity \in Nat
ASSUME DefaultsAssumption == DefaultAuth \in Nat /\ DefaultEnc \in Nat
ASSUME AbsentAssumption == Absent # AwsRoot /\ Absent \notin Nat
ASSUME DeploymentsAssumption ==
  \A d \in Deployments :
    /\ d.auth \in Nat \cup {Absent} /\ d.enc \in Nat \cup {Absent}
    /\ d.mode \in {"nitro", "debug", "mock"}
    /\ d.image \in [0 .. 2 -> Nat \ {0}]

Verify == INSTANCE VerifyInputs WITH Commands <- {}, Upgrades <- {}, Chains <- {}, Roots <- {}

VARIABLES
  now,         \* the clock
  boots,       \* the deployment of each boot; the last one is current
  phase,       \* "off", "derive", "measure" or "serve"
  subkeys,     \* `subkeys`
  leaves,      \* `leaves`
  quote,       \* `quote`
  measured,    \* `pcr0`, `pcr1`, `pcr2`
  bundle,      \* the bundle served
  bundleFile,  \* bundle.json
  subkeyFile   \* a subkey JSON, with what was asked for

enclave == <<boots, phase, subkeys, leaves, quote, measured, bundle>>
files   == <<bundleFile, subkeyFile>>
ceremonyVars == <<now, enclave, files>>

boot == Len(boots)
dep  == boots[boot]

\* config_from_env: a typing error counts as unset.
AuthCount == IF dep.auth = Absent THEN DefaultAuth ELSE dep.auth
EncCount  == IF dep.enc = Absent THEN DefaultEnc ELSE dep.enc

\* The NSM of the current boot: a debug enclave measures as zeroes.
Pcr(i) == IF dep.mode = "debug" THEN 0 ELSE dep.image[i]

PublicKey(family, account, index) == <<family, boot, account, index>>
Leaf(index, tag, ml_pk, slh_pk) == <<index, tag, ml_pk, slh_pk>>
PayloadOf(tree) ==
  [ml_pk |-> PublicKey("ml", 0, 0), slh_pk |-> PublicKey("slh", 0, 0), tree |-> tree]
SignWithRoot(family, payload) == [by |-> PublicKey(family, 0, 0), over |-> payload]

Init ==
  /\ now = 0 /\ boots = << >> /\ phase = "off"
  /\ subkeys = << >> /\ leaves = << >> /\ quote = Absent /\ measured = << >> /\ bundle = Absent
  /\ bundleFile = Absent /\ subkeyFile = Absent

-----------------------------------------------------------------------------
\* main up to run_ceremony, which draws a new mnemonic.
Boot(d) ==
  /\ phase = "off" /\ boot < MaxBoots
  /\ boots' = Append(boots, d)
  /\ phase' = "derive"
  /\ subkeys' = << >> /\ leaves' = << >> /\ quote' = Absent /\ measured' = << >> /\ bundle' = Absent
  /\ UNCHANGED <<now, files>>

Derive(account, tag, account_index, global_index) ==
  LET ml_pk == PublicKey("ml", account, account_index)
      slh_pk == PublicKey("slh", account, account_index)
  IN /\ leaves' = Append(leaves, Leaf(global_index, tag, ml_pk, slh_pk))
     /\ subkeys' = Append(subkeys,
          [global_index |-> global_index, account |-> account, account_index |-> account_index,
           purpose_tag |-> tag, ml_dsa_pk |-> ml_pk, slh_dsa_pk |-> slh_pk])
     /\ UNCHANGED <<now, boots, phase, quote, measured, bundle, files>>

\* Mutant: every lane counts from 0.
DeriveFromZero ==
  LET n == Len(subkeys)
  IN /\ phase = "derive" /\ n < AuthCount + EncCount
     /\ IF n < AuthCount THEN Derive(1, 1, n, n) ELSE Derive(2, 2, n - AuthCount, n - AuthCount)

\* One pass of the inner loop: the Auth lane first, global_index runs through.
DeriveSubkey ==
  LET n == Len(subkeys)
  IN /\ phase = "derive" /\ n < AuthCount + EncCount
     /\ IF n < AuthCount THEN Derive(1, 1, n, n) ELSE Derive(2, 2, n - AuthCount, n)

\* attest_bundle_payload: the NSM signs the payload, with certificates of now.
Attest ==
  /\ phase = "derive" /\ Len(subkeys) = AuthCount + EncCount
  /\ quote' = [ca |-> IF dep.mode = "mock" THEN Absent ELSE AwsRoot,
               from |-> now, to |-> now + Validity,
               pcrs |-> [i \in 0 .. 2 |-> Pcr(i)], user_data |-> PayloadOf(leaves)]
  /\ phase' = "measure"
  /\ UNCHANGED <<now, boots, subkeys, leaves, measured, bundle, files>>

\* Mutant: describe_pcr(1) is read twice.
DescribePcrAgain ==
  /\ phase = "measure" /\ Len(measured) < 3
  /\ measured' = Append(measured, Pcr(IF Len(measured) = 2 THEN 1 ELSE Len(measured)))
  /\ UNCHANGED <<now, boots, phase, subkeys, leaves, quote, bundle, files>>

DescribePcr ==
  /\ phase = "measure" /\ Len(measured) < 3
  /\ measured' = Append(measured, Pcr(Len(measured)))
  /\ UNCHANGED <<now, boots, phase, subkeys, leaves, quote, bundle, files>>

\* The end of run_ceremony; main binds and serves.
Finish ==
  /\ phase = "measure" /\ Len(measured) = 3
  /\ bundle' =
       [payload |-> PayloadOf(leaves), quote |-> quote,
        expected_pcrs |-> [i \in 0 .. 2 |-> measured[i + 1]],
        ml_sig |-> SignWithRoot("ml", PayloadOf(leaves)),
        slh_sig |-> SignWithRoot("slh", PayloadOf(leaves)), aws_root |-> dep.root_ca]
  /\ phase' = "serve"
  /\ UNCHANGED <<now, boots, subkeys, leaves, quote, measured, files>>

\* Any `?` of main, a crash or the end of the instance: all state is lost.
Exit ==
  /\ phase # "off"
  /\ phase' = "off"
  /\ subkeys' = << >> /\ leaves' = << >> /\ quote' = Absent /\ measured' = << >> /\ bundle' = Absent
  /\ UNCHANGED <<now, boots, files>>

-----------------------------------------------------------------------------
\* GET /bundle.json, saved as bundle.json.
FetchBundle ==
  /\ phase = "serve"
  /\ bundleFile' = bundle
  /\ UNCHANGED <<now, enclave, subkeyFile>>

\* The JSON for a record, with the tree its path folds it into.
Json(rec, signature, asked) ==
  [index |-> rec.global_index,
   tree |-> ReplaceAt(leaves, rec.global_index + 1,
              Leaf(rec.global_index, rec.purpose_tag, rec.ml_dsa_pk, rec.slh_dsa_pk)),
   sig |-> signature, asked |-> asked, from |-> boot]

Save(json) == subkeyFile' = json /\ UNCHANGED <<now, enclave, bundleFile>>

\* The first record with the index, as `find` returns it.
Lookup(i) == SelectInSeq(subkeys, LAMBDA r : r.global_index = i)

\* GET /subkey/<i>; an unknown index is a 404 and leaves no file.
FetchSubkey(i) ==
  /\ phase = "serve" /\ Lookup(i) # 0
  /\ Save(Json(subkeys[Lookup(i)], Absent, [index |-> i, message |-> Absent]))

\* Mutant: the signing key is derived at the index in the request.
SignAtGlobalIndex(rec, message) ==
  IF /\ rec.ml_dsa_pk = PublicKey("ml", rec.account, rec.global_index)
     /\ rec.slh_dsa_pk = PublicKey("slh", rec.account, rec.global_index)
  THEN message ELSE Absent

\* sign_with_subkey derives both keys again, from the path of the record.
SignAgain(rec, message) ==
  IF /\ rec.ml_dsa_pk = PublicKey("ml", rec.account, rec.account_index)
     /\ rec.slh_dsa_pk = PublicKey("slh", rec.account, rec.account_index)
  THEN message ELSE Absent

\* POST /sign.
Sign(i, message) ==
  /\ phase = "serve" /\ Lookup(i) # 0
  /\ LET rec == subkeys[Lookup(i)]
     IN Save(Json(rec, SignAgain(rec, message), [index |-> i, message |-> message]))

Tick == now < MaxNow /\ now' = now + 1 /\ UNCHANGED <<enclave, files>>

CeremonyNext ==
  \/ \E d \in Deployments : Boot(d)
  \/ DeriveSubkey \/ Attest \/ DescribePcr \/ Finish \/ Exit
  \/ FetchBundle
  \/ \E i \in 0 .. Len(subkeys) : FetchSubkey(i) \/ \E m \in Messages : Sign(i, m)
  \/ Tick

CeremonySpec == Init /\ [][CeremonyNext]_ceremonyVars

-----------------------------------------------------------------------------
\* The boot a file came from, as its keys tell.
BootOf(payload) == payload.ml_pk[2]
Honest(b) ==
  LET d == boots[BootOf(b.payload)] IN d.mode = "nitro" /\ d.root_ca = AwsRoot

\* Shape of the state; what is measured and served agrees with the phase.
TypeOK ==
  /\ now \in 0 .. MaxNow /\ boots \in Seq(Deployments) /\ boot <= MaxBoots
  /\ phase \in {"off", "derive", "measure", "serve"}
  /\ Len(leaves) = Len(subkeys) /\ \A i \in DOMAIN subkeys : subkeys[i].global_index = i - 1
  /\ quote # Absent => phase \in {"measure", "serve"}
  /\ bundle # Absent => phase = "serve"
  /\ Len(measured) <= 3 /\ (phase = "serve" => Len(measured) = 3)

\* A bundle the enclave finished passes every check of `pq verify` at each
\* instant its certificates are valid, and at no other; one of a debug enclave,
\* of the mock NSM or with another CA baked in passes at none (lib.rs:112-181).
FinishedBundleVerifies ==
  bundleFile # Absent =>
    \A t \in 0 .. MaxNow + Validity + 1 :
      Verify!StepsPass([bundle |-> bundleFile, root |-> AwsRoot], t)
        <=> Honest(bundleFile) /\ bundleFile.quote.from <= t /\ t <= bundleFile.quote.to

\* A subkey JSON fits a bundle.json exactly when both come from one boot,
\* whichever lane the index falls in, and what it signs is what was asked of
\* the subkey that was asked (lib.rs:81-100, 123-151).
SubkeyFileFits ==
  bundleFile # Absent /\ subkeyFile # Absent =>
    /\ subkeyFile.index = subkeyFile.asked.index
    /\ Verify!SubkeyPasses([bundle |-> bundleFile, subkey |-> subkeyFile,
                            message |-> subkeyFile.asked.message])
         <=> subkeyFile.from = BootOf(bundleFile.payload)
=============================================================================

----------------------------- MODULE MCCeremony -----------------------------
(* Small instances of Ceremony for TLC. *)
EXTENDS Ceremony

Image == [i \in 0 .. 2 |-> 10 + i]
Deployment(auth, enc, mode, ca) ==
  [auth |-> auth, enc |-> enc, mode |-> mode, image |-> Image, root_ca |-> ca]

\* Empty, default and two-lane ceremonies; every kind of enclave.
KeyDeployments == {Deployment(1, 1, "nitro", "aws"), Deployment(Absent, 2, "nitro", "aws"),
                   Deployment(Absent, Absent, "debug", "aws"),
                   Deployment(0, 0, "mock", "aws"), Deployment(0, Absent, "nitro", "other")}
SomeMessages == {"m"}
=============================================================================

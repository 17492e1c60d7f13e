------------------------------ MODULE MCArchive ------------------------------
(* Small instances of Archive for TLC.  A time unit is an hour or more. *)
EXTENDS Archive

\* A genuine enclave with one subkey, and one on the mock NSM with none.
StampDeployments ==
  {[auth |-> n, enc |-> 0, mode |-> IF n = 1 THEN "nitro" ELSE "mock",
    image |-> [i \in 0 .. 2 |-> 10 + i], root_ca |-> "aws"] : n \in 0 .. 1}
NoMessages   == {}
TwoCalendars == <<"alice", "bob">>
=============================================================================

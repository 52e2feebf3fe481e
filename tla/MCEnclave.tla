------------------------------ MODULE MCEnclave ------------------------------
(* Model-checking instance of EnclaveProcess. *)
EXTENDS EnclaveProcess

CONSTANTS k1, k2, bad, s1

MCPublicKey == {k1, k2}
MCServerKey == {s1}
MCIp == {2}

=============================================================================

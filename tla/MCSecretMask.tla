---------------------------- MODULE MCSecretMask ----------------------------
(* An instance of SecretMask for TLC.                                        *)
EXTENDS SecretMask, TLC

(* Three long secrets, of which two end alike.                             *)
TwinMasks == ("s1" :> "m1") @@ ("s2" :> "m1") @@ ("s3" :> "m3")
=============================================================================

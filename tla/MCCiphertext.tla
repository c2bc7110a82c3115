---------------------------- MODULE MCCiphertext ----------------------------
(* Instances of Ciphertext: a field of 7 elements, three powers of 2. *)
EXTENDS Ciphertext

\* Seed 2 has a zero mask in its second slot, seed 3 in both.
MCCircuitMask == (0 :> <<3, 5>>) @@ (1 :> <<2, 6>>) @@ (2 :> <<4, 0>>) @@ (3 :> <<0, 0>>)
MCLegacyMask == (0 :> <<5, 2>>) @@ (1 :> <<4, 3>>) @@ (2 :> <<6, 1>>) @@ (3 :> <<1, 5>>)
MCPlain == {<<4>>, <<0, 3>>}
MCConsts == {-2, 1}
=============================================================================

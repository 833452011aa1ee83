-------------------------------- MODULE MCBoot --------------------------------
(***************************************************************************)
(* Instances of Boot with three harts: hart 0 boots the untrusted domain,  *)
(* hart 2 (7 on the board) the trusted one, hart 1 is none's boot hart.    *)
(***************************************************************************)
EXTENDS Boot

BoardDomains == <<<<2, "0xb0000000">>, <<0, "0x80200000">>>>

=============================================================================

------------------------------ MODULE MCChainReads ------------------------------
(***************************************************************************)
(* Ticks listed out of order: the lower end of the window, one outside, an *)
(* empty one, a negative and a positive one around zero.  Read by Cetus    *)
(* and by the others the indices are 2, -4, 6, 0 and -2, with the sign     *)
(* bits 0b11 for 2 as in the test of decode_sui_i32; the liquidity_nets    *)
(* are 3, -5, 1, 0 and 2.                                                  *)
(***************************************************************************)
EXTENDS ChainReads

MCIndexBits ==
    [dex \in Dexes |-> IF dex = "cetus" THEN <<11, 17, 24, 0, 9>> ELSE <<2, 28, 6, 0, 30>>]

MCNetBits == <<12, 21, 4, 0, 8>>

MCCurrent == -1

=============================================================================

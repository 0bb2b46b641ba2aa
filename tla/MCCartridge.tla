---------------------------- MODULE MCCartridge -----------------------------
(* Two cartridges, which share no byte at any address.  With three pages of *)
(* one byte those that can be selected for the one bank (all but 0) differ  *)
(* in each of them, and the two codes that fit share a byte.                *)
EXTENDS Cartridge

TwoCarts == {[a \in Cells |-> a % 2], [a \in Cells |-> (a + 1) % 2]}
=============================================================================

---------------------------- MODULE MCBlockDownload ----------------------------
(* A chain of three blocks, and a fork of its second one.                    *)
EXTENDS BlockDownload

CONSTANTS a1, a2, a3, b2

MCHashes == {a1, a2, a3, b2}
MCChains == {<<a1, a2, a3>>, <<a1, b2>>}
MCSymmetry == Permutations(Conns)
================================================================================

------------------------------ MODULE MCXfsDll ------------------------------
(* Two threads and two handles, each thread calling for either; two        *)
(* devices, one window and two event classes.                              *)
EXTENDS XfsDll, TLC

CONSTANTS t1, t2, h1, h2

MCThreads == {t1, t2}
MCHandles == {h1, h2}
MCSymmetry == Permutations(MCThreads) \union Permutations(MCHandles) \union Permutations(Devices)
=============================================================================

---------------------------- MODULE MCKernelCache ----------------------------
EXTENDS KernelCache, TLC
CONSTANTS p1, p2, p3, k1, k2, b1, b2, d1, d2, d3, d4
Symm == Permutations(Builds) \cup Permutations(Dirs) \cup Permutations(Keys) \cup Permutations({p1, p2})
=============================================================================

----------------------------- MODULE MCApkStore -----------------------------
(* ApkStore for TLC: ABIs and files are interchangeable.                   *)
EXTENDS ApkStore, TLC

StoreSymmetry == Permutations(Abis) \cup Permutations(Files)
=============================================================================

------------------------- MODULE MCSecureStoreFile -------------------------
(* Constants of SecureStoreFile for TLC.  No definition names a caller or a  *)
(* temporary file, so both are symmetric.                                    *)
EXTENDS SecureStoreFile, TLC

Symmetry == Permutations(Callers) \cup Permutations(Names)
=============================================================================

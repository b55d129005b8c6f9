------------------------------ MODULE MCPk11Rsa ------------------------------
(* Model values for Pk11Rsa; handles of session objects are interchangeable, *)
(* and so are threads, sessions and addresses.                               *)
EXTENDS Pk11Rsa, TLC

Symmetry == Permutations(Threads) \cup Permutations(Sessions)
              \cup Permutations(Rsas) \cup Permutations(SHandles)
=============================================================================

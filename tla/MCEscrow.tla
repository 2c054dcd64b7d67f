-------------------------------- MODULE MCEscrow --------------------------------
(* Two deposits, so that a recipient can re-enter for another manifest, and    *)
(* calls nested two deep.                                                      *)
EXTENDS Escrow, TLC

ManifestSymmetry == Permutations(Manifest)
================================================================================

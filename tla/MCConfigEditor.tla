---------------------------- MODULE MCConfigEditor ----------------------------
(* The instance TLC checks: the files, and the contents but the first, are    *)
(* interchangeable.                                                           *)
EXTENDS ConfigEditor, TLC

CONSTANTS f1, f2, k0, k1, k2
MCFiles == {f1, f2}
MCContents == {k0, k1, k2}
MCSymmetry == Permutations(MCFiles) \cup Permutations(MCContents \ {k0})
=============================================================================

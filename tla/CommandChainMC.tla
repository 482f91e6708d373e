--------------------------- MODULE CommandChainMC ---------------------------
(* Small instances of CommandChain: two contents, two files, and the risky *)
(* things a session does in each run.                                      *)
EXTENDS CommandChain, TLC

CONSTANTS c1, c2, f1, f2

MCContents == {c1, c2}
MCFiles == {f1, f2}

(* The files are interchangeable; only runs of invariants use it. *)
AnyFile == Permutations(MCFiles)

NoRisk == {}
BackOutAndUnopened == {"backout", "unopened"}
Tolerated == RiskyKinds \ {"unopened", "garble", "new", "restore", "suspend"}
=============================================================================

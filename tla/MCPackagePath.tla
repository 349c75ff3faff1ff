----------------------------- MODULE MCPackagePath -----------------------------
(***************************************************************************)
(* Every string of up to five bytes over a letter, the dot and the         *)
(* separator, and every one of up to three with an unsafe byte.            *)
(***************************************************************************)
EXTENDS PackagePath

MCInputs ==
  UNION {[1..n -> {"a", ".", "/"}] : n \in 0..5}
    \cup UNION {[1..n -> {"a", ".", "/", "lf", "nul", "tab"}] : n \in 1..3}

===============================================================================

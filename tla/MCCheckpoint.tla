---------------------------- MODULE MCCheckpoint ----------------------------
(***************************************************************************)
(* Two controllers, three jobs and one failure on a store of two names.  A *)
(* removal and the installation that undoes it let the state come back to  *)
(* what an earlier request expects; the composed request carries the       *)
(* transaction evidence of its packages; the last input names a package    *)
(* twice and is refused.                                                   *)
(***************************************************************************)
EXTENDS Checkpoint, TLC

Pkg(name, control, transaction) ==
  [name |-> name, control |-> control, target |-> "here", manifest |-> {"usr"},
   plan |-> "plan", application |-> "applied", transaction |-> transaction]

A1 == Pkg("a", "1", None)
A2 == Pkg("a", "2", "tx")
B1 == Pkg("b", "1", "tx")

MCPackages == {A1, A2, B1}

MCInitialPackages == {A1}

Delta(kind, name, expected, proposed) ==
  [kind |-> kind, name |-> name,
   expected |-> IF expected = None THEN None ELSE PackageIdentity(expected),
   proposed |-> proposed, plan |-> "plan", application |-> "applied"]

MCInputs ==
  {<< <<Delta("remove", "a", A1, None)>>, None >>,
   << <<Delta("install", "a", None, A1)>>, None >>,
   << <<Delta("install", "b", None, B1), Delta("replace", "a", A1, A2)>>, "tx" >>,
   << <<Delta("remove", "a", A1, None), Delta("replace", "a", A1, A2)>>, "tx" >>}

ControllerSymmetry == Permutations(Controllers)

MCFormat == <<"graphic">>

MCEvidenceList == <<"e1">>

===============================================================================

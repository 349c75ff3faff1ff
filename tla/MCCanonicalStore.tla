--------------------------- MODULE MCCanonicalStore ---------------------------
(***************************************************************************)
(* A small store for TLC: two package names, three installed packages of   *)
(* the store's target, one of them with transaction evidence, and one      *)
(* package of another target.                                              *)
(***************************************************************************)
EXTENDS CanonicalStore, TLC

Pkg(name, control, target, manifest, transaction) ==
  [name |-> name, control |-> control, target |-> target, manifest |-> manifest,
   plan |-> "plan", application |-> "applied", transaction |-> transaction]

A1 == Pkg("a", "1", "here", {"usr"}, None)
A2 == Pkg("a", "2", "here", {"usr", "lib"}, "tx")
B1 == Pkg("b", "1", "here", {"usr"}, "tx")
F1 == Pkg("a", "1", "elsewhere", {}, None)

MCPackages == {A1, A2, B1, F1}

InstallD(p, plan) ==
  [kind |-> "install", name |-> p.name, expected |-> None, proposed |-> p,
   plan |-> plan, application |-> "applied"]

ReplaceD(p, q) ==
  [kind |-> "replace", name |-> q.name, expected |-> PackageIdentity(p),
   proposed |-> q, plan |-> "plan", application |-> "applied"]

RemoveD(p) ==
  [kind |-> "remove", name |-> p.name, expected |-> PackageIdentity(p),
   proposed |-> None, plan |-> "plan", application |-> "applied"]

\* Valid single and composed vectors, and ones that a check must refuse: empty,
\* repeated name, unchanged replacement, foreign plan, other target.
MCDeltaInputs ==
  {<<InstallD(A1, "plan")>>,
   <<RemoveD(A1)>>,
   <<InstallD(B1, "plan"), ReplaceD(A1, A2)>>,
   <<>>,
   <<RemoveD(A1), InstallD(A1, "plan")>>,
   <<RemoveD(A1), ReplaceD(A1, A2)>>,
   <<ReplaceD(A1, A1)>>,
   <<InstallD(B1, "other plan")>>,
   <<InstallD(F1, "plan")>>}

MCFormats == {<<"graphic">>, <<"graphic", "lf">>}

MCEvidenceLists == {<<"e1">>, <<"e1", "e1">>}

MCForeignSnapshots == {[target |-> "elsewhere", packages |-> {}]}

MCInitialPackages == {A1}

ClientSymmetry == Permutations(Clients)

===============================================================================

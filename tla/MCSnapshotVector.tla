--------------------------- MODULE MCSnapshotVector ---------------------------
(***************************************************************************)
(* snapshot::make on every vector of up to three packages, and every       *)
(* request made against a snapshot of up to three names, projected onto    *)
(* that snapshot and onto others.                                          *)
(***************************************************************************)
EXTENDS SnapshotVector

Package(name, control, target, manifest) ==
  [name |-> name, control |-> control, target |-> target, manifest |-> manifest,
   plan |-> "plan", application |-> "applied", transaction |-> "tx"]

A1 == Package("a", "1", "here", {"usr"})
A2 == Package("a", "2", "here", {"usr", "etc"})
B1 == Package("b", "1", "here", {})
B2 == Package("b", "2", "here", {"usr"})
C1 == Package("c", "1", "here", {"etc"})
D1 == Package("d", "1", "here", {"etc"})
Away == Package("b", "1", "elsewhere", {"usr"})

MCPackages == {A1, A2, B1, B2, C1, D1, Away}
MCNameOrder == <<"a", "b", "c", "d">>

Vectors == {<<>>} \cup {<<p>> : p \in MCPackages} \cup {<<p, q>> : p, q \in MCPackages}
             \cup {<<p, q, r>> : p, q, r \in MCPackages}

Stored ==
  {<<>>, <<A1>>, <<B1>>, <<C1>>, <<A1, B1>>, <<A1, C1>>, <<A1, B1, C1>>, <<A2, B2, C1>>}

\* What one delta does to a package, or to its absence.
DeltasFor(S, name) ==
  {None} \cup {d \in Deltas : d.name = name /\ DeltaMatches(SnapshotMake("here", S), d)}

\* Every request a snapshot of S admits, with its deltas in any order.
Made(S) ==
  {RequestMake(SnapshotMake("here", S), SetToSeq({a, b, c, d} \ {None}), "tx") :
     a \in DeltasFor(S, "a"), b \in DeltasFor(S, "b"), c \in DeltasFor(S, "c"), d \in DeltasFor(S, "d")}

\* An empty vector of deltas is refused by the request factory.
Projectable(S) == {r \in Made(S) : r.deltas # {}}

MCCalls ==
  {[request |-> None, target |-> "here", input |-> v] : v \in Vectors}
    \cup UNION {{[request |-> r, target |-> "here", input |-> v] : r \in Projectable(Range(v))} :
                v \in Stored}
    \cup {[request |-> r, target |-> "here", input |-> v] :
            r \in Projectable({A1, C1}), v \in Stored}

===============================================================================

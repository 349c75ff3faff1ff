--------------------------- MODULE MCRequestDecoding ---------------------------
(***************************************************************************)
(* Every request over two names that three snapshots admit, and what       *)
(* storage or another writer can make of the records of three of them.     *)
(***************************************************************************)
EXTENDS RequestDecoding

CONSTANTS a, b, one, two, here, elsewhere, usr, plan, applied, tx

Package(name, control, transaction) ==
  [name |-> name, control |-> control, target |-> here, manifest |-> {usr},
   plan |-> plan, application |-> applied, transaction |-> transaction]

A1 == Package(a, one, None)
A2 == Package(a, two, None)
A2T == Package(a, two, tx)
B1T == Package(b, one, tx)

MCPackages == {A1, A2, A2T, B1T}

MCNameOrder == <<a, b>>
MCEvidenceOrder == <<>>

Empty == [target |-> here, packages |-> {}]
WithA == [target |-> here, packages |-> {A1}]
WithAB == [target |-> here, packages |-> {A1, B1T}]
Elsewhere == [target |-> elsewhere, packages |-> {}]

MCSnapshots == {Empty, WithA, WithAB, Elsewhere}

\* Every digest that damage may put behind the header.
MCDigests ==
  {plan, applied, tx, SnapshotIdentity(WithA)} \cup {PackageIdentity(p) : p \in MCPackages}

\* The deltas a controller has the evidence for.
Ready == {d \in Deltas : d.plan = plan /\ d.application = applied}

Inputs ==
  {<<d>> : d \in Ready}
    \cup {<<d, e>> : d \in {x \in Ready : x.name = a}, e \in {x \in Ready : x.name = b}}

\* The requests that can be made against a snapshot.
Made(s) ==
  {RequestMake(s, x[1], x[2]) :
     x \in {y \in Inputs \X {None, tx} : RequestAdmitted(s, y[1], y[2])}}

AllMade == [s \in MCSnapshots |-> Made(s)]

\* The requests whose records are damaged: a composed replacement and
\* installation, and a composed removal.
Sample ==
  CHOOSE r \in AllMade[WithA] :
    Cardinality(r.deltas) = 2 /\ \E d \in r.deltas : d.kind = "replace"

\* The same installation beside the removal of what Sample replaces.
Other == CHOOSE r \in AllMade[WithA] :
  Cardinality(r.deltas) = 2 /\ \E d \in r.deltas : d.kind = "remove"

Removal == CHOOSE r \in AllMade[WithAB] :
  Cardinality(r.deltas) = 2 /\ \A d \in r.deltas : d.kind = "remove"

Tokens ==
  {Magic("receipt"), U16(2), U8(0), U8(1), U8(2), U8(3), U8(4), U64(0), U64(1), U64(50),
   U64(1000), Boolean(TRUE), Boolean(FALSE), Text(a), Text(b),
   Digest(PackageIdentity(A1)), Digest(PackageIdentity(A2T)), Digest(SnapshotIdentity(WithA)),
   Digest(tx), Digest(plan),
   PackageBody(A2), PackageBody(B1T), Record(Elsewhere), Record(WithAB)}

\* The deltas of a record in the other order, sealed again.
Reversed(r) ==
  LET ds == InNameOrder(r.deltas)
      body == RequestBody(r)
  IN  SubSeq(body, 1, 6) \o DeltaBody(ds[2]) \o DeltaBody(ds[1])
        \o SubSeq(body, 7 + Len(DeltaBody(ds[1])) + Len(DeltaBody(ds[2])), Len(body))

DamagedBodies(body) ==
  {SubSeq(body, 1, n) : n \in 0..(Len(body) - 1)}
    \cup {Append(body, t) : t \in Tokens}
    \cup {RemoveAt(body, i) : i \in 1..Len(body)}
    \cup {ReplaceAt(body, i, t) : i \in 1..Len(body), t \in Tokens}
    \cup {InsertAt(body, i, body[i]) : i \in 1..Len(body)}

\* Damaged records that carry the identity of a request they could decode to.
Reidentified(body, r) == ReplaceAt(body, 3, Digest(RequestIdentity(r)))

Torn(sealed) == {SubSeq(sealed, 1, n) : n \in 0..(Len(sealed) - 1)}

Case(e, s, w) == [encoding |-> e, snapshot |-> s, written |-> w]

Damaged(r, s) ==
  {Case(Seal(c), s, None) :
     c \in (DamagedBodies(RequestBody(r)) \cup {Reversed(r)}) \ {RequestBody(r)}}
    \cup {Case(e, s, None) : e \in Torn(EncodeRequest(r))}

MCCases ==
  UNION {{Case(EncodeRequest(r), s, r) : r \in AllMade[q]} : s \in MCSnapshots, q \in MCSnapshots}
    \cup Damaged(Sample, WithA) \cup Damaged(Removal, WithAB)
    \cup {Case(Seal(Reidentified(d, r)), WithA, None) :
            d \in {c \in DamagedBodies(RequestBody(Sample)) : Len(c) > 3},
            r \in {Sample, Other}}

===============================================================================

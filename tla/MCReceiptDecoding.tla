--------------------------- MODULE MCReceiptDecoding ---------------------------
(***************************************************************************)
(* Receipts of two requests over three snapshots of one target, and what   *)
(* storage or another writer can make of their encodings.                  *)
(***************************************************************************)
EXTENDS ReceiptDecoding

CONSTANTS a, one, here, elsewhere, usr, plan, applied, tx, e1, e2

A1 == [name |-> a, control |-> one, target |-> here, manifest |-> {usr},
       plan |-> plan, application |-> applied, transaction |-> None]

MCPackages == {A1}


MCNameOrder == <<a>>

Empty == [target |-> here, packages |-> {}]
WithA == [target |-> here, packages |-> {A1}]
Elsewhere == [target |-> elsewhere, packages |-> {}]

InstallRequest == RequestMake(Empty,
  <<[kind |-> "install", name |-> a, expected |-> None, proposed |-> A1,
     plan |-> plan, application |-> applied]>>, None)

RemoveRequest == RequestMake(WithA,
  <<[kind |-> "remove", name |-> a, expected |-> PackageIdentity(A1),
     proposed |-> None, plan |-> plan, application |-> applied]>>, None)

\* Every digest that damage may put where evidence is read.
MCEvidenceOrder ==
  <<e1, e2, here, SnapshotIdentity(Empty), SnapshotIdentity(WithA),
    RequestIdentity(RemoveRequest)>>

MCEvidence == ToSet(MCEvidenceOrder)

MCRequests == {InstallRequest, RemoveRequest}

MCSnapshots == {Empty, WithA, Elsewhere}

\* Every combination of the fields a receipt of r over s can be given.
Forged(r, s) ==
  {[ReceiptMake(r, s, <<"graphic">>, o, atom, res, ev) EXCEPT !.durability = d] :
     o \in Outcomes, atom \in {"none", "complete_state_object_replace"},
     res \in {None, SnapshotIdentity(Empty), SnapshotIdentity(WithA)},
     ev \in {<<>>, <<e1, e2>>}, d \in Durabilities}
  \cup {ReceiptMake(r, s, f, o, "none", None, <<>>) :
          f \in {<<>>, <<"graphic", "lf">>}, o \in Outcomes \ Attempted}

Issued(r, s) == {rc \in Forged(r, s) : CouldBeIssued(rc, r, s)}

\* The receipts whose encodings are damaged.
Samples ==
  {rc \in Issued(InstallRequest, Empty) :
     /\ rc.outcome \in {"published", "indeterminate", "request_rejected"}
     /\ rc.evidence = {e1, e2}}

Tokens ==
  {Magic("request"), U16(2), U8(0), U8(7), U64(0), U64(3), U64(50), U64(1000),
   Boolean(TRUE), Boolean(FALSE), Digest(e1), Digest(e2),
   Digest(SnapshotIdentity(Empty)), Digest(SnapshotIdentity(WithA)),
   Digest(RequestIdentity(RemoveRequest)), Digest(here),
   Text(<<>>), Text(<<"graphic", "cr">>), Record(Empty)}

DamagedBodies(body) ==
  {SubSeq(body, 1, n) : n \in 0..(Len(body) - 1)}
    \cup {Append(body, t) : t \in Tokens}
    \cup {RemoveAt(body, i) : i \in 1..Len(body)}
    \cup {ReplaceAt(body, i, t) : i \in 1..Len(body), t \in Tokens}
    \cup {InsertAt(body, i, body[i]) : i \in 1..Len(body)}
    \cup {[body EXCEPT ![i] = body[i + 1], ![i + 1] = body[i]] :
            i \in 1..(Len(body) - 1)}

Torn(sealed) == {SubSeq(sealed, 1, n) : n \in 0..(Len(sealed) - 1)}

Case(e, r, s, w) == [encoding |-> e, request |-> r, prior |-> s, written |-> w]

MCCases ==
  UNION {{Case(EncodeReceipt(rc), r, s, rc) : rc \in Forged(r, s)} :
           r \in MCRequests, s \in {Empty, WithA}}
    \cup {Case(EncodeReceipt(rc), r, s, rc) :
            rc \in Issued(InstallRequest, Empty) \cup Issued(InstallRequest, WithA)
                      \cup Issued(RemoveRequest, WithA),
            r \in MCRequests, s \in MCSnapshots}
    \cup UNION {{Case(Seal(c), InstallRequest, Empty, None) :
                   c \in DamagedBodies(ReceiptBody(rc)) \ {ReceiptBody(rc)}} :
                rc \in Samples}
    \cup UNION {{Case(e, InstallRequest, Empty, None) :
                   e \in Torn(EncodeReceipt(rc))} : rc \in Samples}

===============================================================================

------------------------ MODULE ReceiptDecodingProofs ------------------------
(***************************************************************************)
(* What the decoder of receipts guarantees of whatever it is given: it     *)
(* accepts nothing but the one encoding of a receipt that could have been  *)
(* issued, refuses no such encoding, and names a receipt of another        *)
(* request or another prior snapshot.                                      *)
(***************************************************************************)
EXTENDS ReceiptDecoding, PublicationProofs

-----------------------------------------------------------------------------
(* Evidence in byte order: every identity once, whatever the set *)

\* Every evidence identity has a rank of its own.
LEMMA RankFacts ==
  /\ \A e \in Evidence : /\ ByteRank(e) \in 1..Len(EvidenceOrder)
                         /\ EvidenceOrder[ByteRank(e)] = e
  /\ \A S \in SUBSET Evidence : IsFiniteSet(S)
<1> DEFINE n == Len(EvidenceOrder)
<1>1. EvidenceOrder \in Seq(Evidence) /\ ToSet(EvidenceOrder) = Evidence
  BY RecordAssumption
<1>2. n \in Nat /\ DOMAIN EvidenceOrder = 1..n
  BY <1>1
<1>3. ASSUME NEW e \in Evidence
      PROVE  ByteRank(e) \in 1..n /\ EvidenceOrder[ByteRank(e)] = e
  <2>1. \E i \in DOMAIN EvidenceOrder : EvidenceOrder[i] = e
    BY <1>1 DEF ToSet
  <2> QED
    BY <1>2, <2>1 DEF ByteRank
<1>4. EvidenceOrder \in Surjection(1..n, Evidence)
  <2>1. EvidenceOrder \in [1..n -> Evidence]
    BY <1>1, <1>2
  <2> QED
    BY <1>3, <2>1 DEF Surjection
<1>5. IsFiniteSet(Evidence)
  <2>1. IsFiniteSet(1..n)
    BY <1>2, FS_Interval
  <2> QED
    BY <1>4, <2>1, FS_Surjection
<1> QED
  BY <1>3, <1>5, FS_Subset

\* normalize_evidence keeps what it sorts: the order lists every identity of
\* S once.
LEMMA InByteOrderFacts ==
  ASSUME NEW S \in SUBSET Evidence
  PROVE  /\ InByteOrder(S) \in Seq(Evidence)
         /\ DOMAIN InByteOrder(S) = 1..Cardinality(S)
         /\ Range(InByteOrder(S)) = S
         /\ IsInjective(InByteOrder(S))
         /\ Cardinality(S) \in Nat
<1> DEFINE n == Cardinality(S)
           rank == [e \in S |-> ByteRank(e)]
           o == InByteOrder(S)
<1>2. Ranks(rank, S)
  BY RankFacts DEF Ranks
<1>3. \A e \in S : Lower(S, rank, e) = {d \in S : ByteRank(d) < ByteRank(e)}
  BY DEF Lower
<1>4. o = [i \in 1..n |-> o[i]]
  BY DEF InByteOrder
<1>5. ASSUME NEW i \in 1..n
      PROVE  o[i] \in S /\ Cardinality(Lower(S, rank, o[i])) = i - 1
  <2> HIDE DEF rank
  <2>1. o[i] = CHOOSE e \in S : Cardinality({d \in S : ByteRank(d) < ByteRank(e)}) = i - 1
    BY DEF InByteOrder
  <2>2. \E e \in S : Cardinality({d \in S : ByteRank(d) < ByteRank(e)}) = i - 1
    <3>1. \E e \in S : Cardinality(Lower(S, rank, e)) = i - 1
      BY <1>2, LowerFacts
    <3> QED
      BY <1>3, <3>1
  <2>3. o[i] \in S /\ Cardinality({d \in S : ByteRank(d) < ByteRank(o[i])}) = i - 1
    BY <2>1, <2>2
  <2> QED
    BY <1>3, <2>3
<1> HIDE DEF rank, o
<1>6. /\ n \in Nat /\ o \in [1..n -> S]
      /\ \A e \in S : \E i \in 1..n : o[i] = e
      /\ \A i, j \in 1..n : o[i] = o[j] => i = j
  <2>1. n \in Nat
    BY <1>2, LowerFacts
  <2>2. o \in [1..n -> S]
    BY <1>4, <1>5
  <2>3. Lists(o, S, rank)
    BY <1>5, <2>2 DEF Lists
  <2> QED
    BY <1>2, <2>1, <2>2, <2>3, ListingFacts
<1>7. o \in Seq(Evidence) /\ DOMAIN o = 1..n
  <2>1. \A i \in 1..n : o[i] \in Evidence
    BY <1>6
  <2> QED
    BY <1>4, <1>6, <2>1
<1>8. Range(o) = S /\ IsInjective(o)
  BY <1>6, <1>7 DEF Range, IsInjective
<1> QED
  BY <1>6, <1>7, <1>8 DEF o

-----------------------------------------------------------------------------
(* Where the encoder puts each field *)

\* The position of the evidence count in the record of rc.
WrittenCountAt(rc) == IF rc.resulting = None THEN 13 ELSE 14

\* The record of rc, token by token.
LEMMA BodyFacts ==
  ASSUME NEW rc \in ReceiptRecord
  PROVE  /\ ReceiptBody(rc) \in Seq(Range(ReceiptBody(rc)))
         /\ Len(ReceiptBody(rc)) = WrittenCountAt(rc) + Cardinality(rc.evidence)
         /\ ReceiptBody(rc)[1] = Magic("receipt")
         /\ ReceiptBody(rc)[2] = U16(ReceiptVersion)
         /\ ReceiptBody(rc)[3] = Digest(PublicationReceiptIdentity(rc))
         /\ ReceiptBody(rc)[4] = Digest(rc.request)
         /\ ReceiptBody(rc)[5] = Digest(rc.expected)
         /\ ReceiptBody(rc)[6] = Digest(rc.actualPrior)
         /\ ReceiptBody(rc)[7] = Digest(rc.target)
         /\ ReceiptBody(rc)[8] = Text(rc.format)
         /\ ReceiptBody(rc)[9] = U8(Encode(OutcomeCodes, rc.outcome))
         /\ ReceiptBody(rc)[10] = U8(Encode(DurabilityCodes, rc.durability))
         /\ ReceiptBody(rc)[11] = U8(Encode(AtomicityCodes, rc.atomicity))
         /\ ReceiptBody(rc)[12] = Boolean(rc.resulting # None)
         /\ rc.resulting # None => ReceiptBody(rc)[13] = Digest(rc.resulting)
         /\ ReceiptBody(rc)[WrittenCountAt(rc)] = U64(Cardinality(rc.evidence))
         /\ \A k \in 1..Cardinality(rc.evidence) :
              ReceiptBody(rc)[WrittenCountAt(rc) + k] = Digest(InByteOrder(rc.evidence)[k])
<1> DEFINE n == Cardinality(rc.evidence)
           P0 == <<Magic("receipt"), U16(ReceiptVersion),
                  Digest(PublicationReceiptIdentity(rc)), Digest(rc.request),
                  Digest(rc.expected), Digest(rc.actualPrior), Digest(rc.target),
                  Text(rc.format), U8(Encode(OutcomeCodes, rc.outcome)),
                  U8(Encode(DurabilityCodes, rc.durability)),
                  U8(Encode(AtomicityCodes, rc.atomicity))>>
           O0 == Optional(rc.resulting, Digest(rc.resulting))
           C0 == <<U64(n)>>
           E0 == [i \in 1..n |-> Digest(InByteOrder(rc.evidence)[i])]
           Tokens == {P0[i] : i \in 1..11}
                       \cup {Boolean(TRUE), Boolean(FALSE), Digest(rc.resulting), U64(n)}
                       \cup {Digest(e) : e \in Evidence}
<1>1. n \in Nat
  BY InByteOrderFacts DEF ReceiptRecord
<1>2. PICK T : T = Tokens
  OBVIOUS
<1>3. PICK P : P = P0
  OBVIOUS
<1>4. Len(P) = 11
  BY <1>3
<1>5. P \in Seq(T)
  <2>1. P \in Seq(Range(P))
    BY <1>3 DEF Range
  <2>2. \A i \in 1..11 : P[i] \in T
    <3> HIDE DEF P0
    <3> QED
      BY <1>2, <1>3
  <2>3. \A i \in 1..Len(P) : P[i] \in T
    BY <1>4, <2>2
  <2> QED
    BY <2>1, <2>3
<1>6. PICK O : O = O0
  OBVIOUS
<1>7. /\ O \in Seq(T)
      /\ O[1] = Boolean(rc.resulting # None)
      /\ rc.resulting # None => O[2] = Digest(rc.resulting)
      /\ Len(O) = IF rc.resulting = None THEN 1 ELSE 2
  <2>1. Boolean(TRUE) \in T /\ Boolean(FALSE) \in T /\ Digest(rc.resulting) \in T
    BY <1>2
  <2> HIDE DEF Tokens, P0, C0, E0
  <2>2. CASE rc.resulting = None
    <3>1. O = <<Boolean(FALSE)>> \o <<>>
      BY <1>6, <2>2 DEF Optional
    <3>2. PICK b : b = Boolean(FALSE)
      OBVIOUS
    <3>3. O = <<b>> \o <<>> /\ b \in T
      BY <2>1, <3>1, <3>2
    <3>4. O \in Seq(T) /\ O[1] = b /\ Len(O) = 1
      BY <3>3
    <3>5. b = Boolean(rc.resulting # None)
      BY <2>2, <3>2
    <3> QED
      BY <2>2, <3>4, <3>5
  <2>3. CASE rc.resulting # None
    <3>1. O = <<Boolean(TRUE)>> \o <<Digest(rc.resulting)>>
      BY <1>6, <2>3 DEF Optional
    <3>2. PICK b, d : b = Boolean(TRUE) /\ d = Digest(rc.resulting)
      OBVIOUS
    <3>3. O = <<b>> \o <<d>> /\ b \in T /\ d \in T
      BY <2>1, <3>1, <3>2
    <3>4. O \in Seq(T) /\ O[1] = b /\ O[2] = d /\ Len(O) = 2
      BY <3>3
    <3>5. b = Boolean(rc.resulting # None)
      BY <2>3, <3>2
    <3> QED
      BY <2>3, <3>2, <3>4, <3>5
  <2> QED
    BY <2>2, <2>3
<1>8. PICK C : C = C0
  OBVIOUS
<1>9. C \in Seq(T) /\ C[1] = U64(n)
  BY <1>2, <1>8
<1>10. Len(C) = 1
  BY <1>8
<1>11. PICK E : E = E0
  OBVIOUS
<1>12. E \in Seq(T) /\ \A k \in 1..n : E[k] = Digest(InByteOrder(rc.evidence)[k])
  <2>1. \A k \in 1..n : InByteOrder(rc.evidence)[k] \in Evidence
    BY InByteOrderFacts DEF ReceiptRecord
  <2>2. \A e \in Evidence : Digest(e) \in T
    BY <1>2
  <2>3. \A k \in 1..n : E0[k] \in T
    BY <2>1, <2>2
  <2> HIDE DEF Tokens, P0, O0, C0
  <2> QED
    BY <1>1, <1>11, <2>3
<1>13. Len(E) = n
  BY <1>1, <1>11
<1>14. ReceiptBody(rc) = P \o O \o C \o E
  BY <1>3, <1>6, <1>8, <1>11 DEF ReceiptBody
<1> HIDE DEF Tokens, P0, O0, C0, E0, n
<1>15. PICK A : A = P \o O
  OBVIOUS
<1>16. /\ A \in Seq(T) /\ Len(A) = Len(P) + Len(O)
       /\ \A i \in 1..Len(P) : A[i] = P[i]
       /\ \A i \in 1..Len(O) : A[Len(P) + i] = O[i]
  <2>1. O \in Seq(T)
    BY <1>7
  <2> QED
    BY <1>5, <1>15, <2>1
<1>17. PICK D : D = A \o C
  OBVIOUS
<1>18. A \in Seq(T) /\ C \in Seq(T) /\ E \in Seq(T)
  BY <1>9, <1>12, <1>16
<1>19. /\ D \in Seq(T) /\ Len(D) = Len(A) + Len(C)
       /\ \A i \in 1..Len(A) : D[i] = A[i]
       /\ \A i \in 1..Len(C) : D[Len(A) + i] = C[i]
  BY <1>17, <1>18
<1>20. PICK B : B = D \o E
  OBVIOUS
<1>21. D \in Seq(T)
  BY <1>19
<1>22. /\ B \in Seq(T) /\ Len(B) = Len(D) + Len(E)
       /\ \A i \in 1..Len(D) : B[i] = D[i]
       /\ \A k \in 1..Len(E) : B[Len(D) + k] = E[k]
  BY <1>18, <1>20, <1>21
<1> DEFINE m == WrittenCountAt(rc)
<1>23. /\ m \in Nat /\ Len(O) \in 1..2 /\ m = 12 + Len(O)
       /\ rc.resulting # None => Len(O) = 2
  BY <1>7 DEF WrittenCountAt
<1> HIDE DEF m
<1>24. PICK l : l = Len(O)
  OBVIOUS
<1>25. /\ l \in 1..2 /\ m = 12 + l /\ (rc.resulting # None => l = 2)
       /\ Len(A) = 11 + l /\ Len(D) = 12 + l /\ Len(B) = 12 + l + n
  BY <1>4, <1>10, <1>13, <1>16, <1>19, <1>22, <1>23, <1>24, SMTT(30)
<1>26. \A i \in 1..11 : B[i] = P[i]
  BY <1>4, <1>16, <1>19, <1>22, <1>25, SMTT(30)
<1>27. \A i \in 1..l : B[11 + i] = O[i]
  <2>1. \A i \in 1..l : A[11 + i] = O[i]
    BY <1>4, <1>16, <1>24
  <2>2. \A i \in 1..l : 11 + i \in 1..Len(A) /\ 11 + i \in 1..Len(D)
    BY <1>25
  <2> QED
    BY <1>19, <1>22, <2>1, <2>2
<1>28. B[12] = O[1] /\ (rc.resulting # None => B[13] = O[2])
  BY <1>25, <1>27
<1>29. B[m] = C[1] /\ \A k \in 1..n : B[m + k] = E[k]
  BY <1>10, <1>13, <1>19, <1>22, <1>25
<1>30. Len(B) = m + n
  BY <1>25
<1>31. B \in Seq(Range(B))
  BY <1>22 DEF Range
<1>32. B = ReceiptBody(rc)
  BY <1>14, <1>15, <1>17, <1>20
<1>33. /\ P[1] = Magic("receipt") /\ P[2] = U16(ReceiptVersion)
       /\ P[3] = Digest(PublicationReceiptIdentity(rc)) /\ P[4] = Digest(rc.request)
       /\ P[5] = Digest(rc.expected) /\ P[6] = Digest(rc.actualPrior)
       /\ P[7] = Digest(rc.target) /\ P[8] = Text(rc.format)
       /\ P[9] = U8(Encode(OutcomeCodes, rc.outcome))
       /\ P[10] = U8(Encode(DurabilityCodes, rc.durability))
       /\ P[11] = U8(Encode(AtomicityCodes, rc.atomicity))
  BY <1>3 DEF P0
<1>34. B[1] = P[1] /\ B[2] = P[2] /\ B[3] = P[3] /\ B[4] = P[4] /\ B[5] = P[5]
       /\ B[6] = P[6] /\ B[7] = P[7] /\ B[8] = P[8] /\ B[9] = P[9]
       /\ B[10] = P[10] /\ B[11] = P[11]
  BY <1>26
<1> QED
  BY <1>7, <1>9, <1>12, <1>28, <1>29, <1>30, <1>31, <1>32, <1>33, <1>34 DEF m, n

-----------------------------------------------------------------------------
(* What the reader makes of a token *)

\* A token of one shape is read as that shape, and yields what it was given.
LEMMA TokenHas ==
  ASSUME NEW x
  PROVE  /\ IsPrefix(<<"bytes", "digest">>, Digest(x)) /\ Last(Digest(x)) = x
         /\ IsPrefix(<<"bytes", "text">>, Text(x)) /\ Last(Text(x)) = x
         /\ IsPrefix(<<"u8">>, U8(x)) /\ Last(U8(x)) = x /\ U8(x)[2] = x
         /\ IsPrefix(<<"u64">>, U64(x)) /\ Last(U64(x)) = x /\ U64(x)[2] = x
BY DEF IsPrefix, Last, Digest, Text, U8, U64

\* A token read as a shape is a token the writer makes of that shape.
LEMMA TokenIs ==
  ASSUME NEW t, Token(t, Seq(FormatBytes))
  PROVE  /\ IsPrefix(<<"bytes", "digest">>, t) => t = Digest(Last(t))
         /\ IsPrefix(<<"bytes", "text">>, t) =>
              t = Text(Last(t)) /\ Last(t) \in Seq(FormatBytes)
         /\ IsPrefix(<<"u8">>, t) => t[2] = Last(t) /\ Last(t) \in Nat
         /\ IsPrefix(<<"u64">>, t) => t[2] = Last(t) /\ Last(t) \in Nat
BY DEF Token, IsPrefix, Last, Digest, Text, U8, U64

\* Reading a token at a position in the record.
LEMMA TokenReads ==
  ASSUME NEW body, NEW i \in Nat, Len(body) \in Nat, i <= Len(body), NEW x
  PROVE  /\ body[i] = Digest(x) => /\ TokenError(body, i, <<"bytes", "digest">>) = None
                                   /\ ValueAt(body, i) = x
         /\ body[i] = Text(x) => /\ TokenError(body, i, <<"bytes", "text">>) = None
                                 /\ ValueAt(body, i) = x
         /\ body[i] = U8(x) => /\ TokenError(body, i, <<"u8">>) = None
                               /\ ValueAt(body, i) = x /\ body[i][2] = x
         /\ body[i] = U64(x) => /\ TokenError(body, i, <<"u64">>) = None
                                /\ ValueAt(body, i) = x /\ body[i][2] = x
<1>1. ~ i > Len(body)
  OBVIOUS
<1> QED
  BY <1>1, TokenHas DEF TokenError, ValueAt

\* The wire codes name every value of their enumeration.
LEMMA CodeFacts ==
  /\ \A o \in Outcomes : /\ Encode(OutcomeCodes, o) \in DOMAIN OutcomeCodes
                         /\ OutcomeCodes[Encode(OutcomeCodes, o)] = o
  /\ \A d \in Durabilities : /\ Encode(DurabilityCodes, d) \in DOMAIN DurabilityCodes
                             /\ DurabilityCodes[Encode(DurabilityCodes, d)] = d
  /\ \A a \in Boundaries \cup {"none"} :
       /\ Encode(AtomicityCodes, a) \in DOMAIN AtomicityCodes
       /\ AtomicityCodes[Encode(AtomicityCodes, a)] = a
  /\ \A k \in DOMAIN OutcomeCodes : OutcomeCodes[k] \in Outcomes
  /\ \A k \in DOMAIN DurabilityCodes : DurabilityCodes[k] \in Durabilities
  /\ \A k \in DOMAIN AtomicityCodes : AtomicityCodes[k] \in Boundaries \cup {"none"}
<1>1. ASSUME NEW o \in Outcomes PROVE \E k \in DOMAIN OutcomeCodes : OutcomeCodes[k] = o
  <2>1. /\ 1 \in DOMAIN OutcomeCodes /\ 2 \in DOMAIN OutcomeCodes /\ 3 \in DOMAIN OutcomeCodes
        /\ 4 \in DOMAIN OutcomeCodes /\ 5 \in DOMAIN OutcomeCodes /\ 6 \in DOMAIN OutcomeCodes
    BY DEF OutcomeCodes
  <2>2. /\ OutcomeCodes[1] = "published" /\ OutcomeCodes[2] = "stale_expected_state"
        /\ OutcomeCodes[3] = "request_rejected"
        /\ OutcomeCodes[4] = "failed_before_publication"
        /\ OutcomeCodes[5] = "published_durability_unconfirmed"
        /\ OutcomeCodes[6] = "indeterminate"
    BY DEF OutcomeCodes
  <2> QED
    BY <2>1, <2>2 DEF Outcomes, BackendOutcomes
<1>2. ASSUME NEW d \in Durabilities
      PROVE  \E k \in DOMAIN DurabilityCodes : DurabilityCodes[k] = d
  <2>1. /\ 1 \in DOMAIN DurabilityCodes /\ 2 \in DOMAIN DurabilityCodes
        /\ 3 \in DOMAIN DurabilityCodes /\ 4 \in DOMAIN DurabilityCodes
        /\ DurabilityCodes[1] = "not_attempted" /\ DurabilityCodes[2] = "confirmed"
        /\ DurabilityCodes[3] = "unconfirmed" /\ DurabilityCodes[4] = "indeterminate"
    BY DEF DurabilityCodes
  <2> QED
    BY <2>1 DEF Durabilities
<1>3. ASSUME NEW a \in Boundaries \cup {"none"}
      PROVE  \E k \in DOMAIN AtomicityCodes : AtomicityCodes[k] = a
  <2>1. /\ 1 \in DOMAIN AtomicityCodes /\ 2 \in DOMAIN AtomicityCodes
        /\ 3 \in DOMAIN AtomicityCodes
        /\ AtomicityCodes[1] = "none"
        /\ AtomicityCodes[2] = "complete_state_object_replace"
        /\ AtomicityCodes[3] = "immutable_generation_selection"
    BY DEF AtomicityCodes
  <2> QED
    BY <2>1 DEF Boundaries
<1>4. /\ \A k \in DOMAIN OutcomeCodes : OutcomeCodes[k] \in Outcomes
      /\ \A k \in DOMAIN DurabilityCodes : DurabilityCodes[k] \in Durabilities
      /\ \A k \in DOMAIN AtomicityCodes : AtomicityCodes[k] \in Boundaries \cup {"none"}
  BY DEF OutcomeCodes, DurabilityCodes, AtomicityCodes, Outcomes, BackendOutcomes,
         Durabilities, Boundaries
<1> QED
  BY <1>1, <1>2, <1>3, <1>4 DEF Encode

-----------------------------------------------------------------------------
(* The fixed fields, one by one *)

\* The rows of the layout.
LEMMA LayoutFacts ==
  /\ Len(Layout) = 10 /\ DOMAIN Layout = 1..10
  /\ Field(3) = [name |-> "identity", shape |-> <<"bytes", "digest">>, codes |-> <<>>]
  /\ Field(4) = [name |-> "request", shape |-> <<"bytes", "digest">>, codes |-> <<>>]
  /\ Field(5) = [name |-> "expected", shape |-> <<"bytes", "digest">>, codes |-> <<>>]
  /\ Field(6) = [name |-> "actualPrior", shape |-> <<"bytes", "digest">>, codes |-> <<>>]
  /\ Field(7) = [name |-> "target", shape |-> <<"bytes", "digest">>, codes |-> <<>>]
  /\ Field(8) = [name |-> "format", shape |-> <<"bytes", "text">>, codes |-> <<>>]
  /\ Field(9) = [name |-> "outcome", shape |-> <<"u8">>, codes |-> OutcomeCodes]
  /\ Field(10) = [name |-> "durability", shape |-> <<"u8">>, codes |-> DurabilityCodes]
  /\ Field(11) = [name |-> "atomicity", shape |-> <<"u8">>, codes |-> AtomicityCodes]
  /\ Field(12) = [name |-> "present", shape |-> <<"u8">>, codes |-> <<>>]
BY DEF Layout, Field

\* The locals they fill.
LEMMA NameFacts ==
  /\ FieldNames = {"identity", "request", "expected", "actualPrior", "target", "format",
                   "outcome", "durability", "atomicity", "present", "resulting"}
  /\ Field(3).name = "identity" /\ Field(4).name = "request" /\ Field(5).name = "expected"
  /\ Field(6).name = "actualPrior" /\ Field(7).name = "target" /\ Field(8).name = "format"
  /\ Field(9).name = "outcome" /\ Field(10).name = "durability"
  /\ Field(11).name = "atomicity" /\ Field(12).name = "present"
<1>1. /\ Field(3).name = "identity" /\ Field(4).name = "request" /\ Field(5).name = "expected"
      /\ Field(6).name = "actualPrior" /\ Field(7).name = "target" /\ Field(8).name = "format"
      /\ Field(9).name = "outcome" /\ Field(10).name = "durability"
      /\ Field(11).name = "atomicity" /\ Field(12).name = "present"
  BY LayoutFacts
<1>2. /\ Layout[1] = Field(3) /\ Layout[2] = Field(4) /\ Layout[3] = Field(5)
      /\ Layout[4] = Field(6) /\ Layout[5] = Field(7) /\ Layout[6] = Field(8)
      /\ Layout[7] = Field(9) /\ Layout[8] = Field(10) /\ Layout[9] = Field(11)
      /\ Layout[10] = Field(12)
  BY DEF Field
<1>3. DOMAIN Layout = {1, 2, 3, 4, 5, 6, 7, 8, 9, 10}
  <2>1. DOMAIN Layout = 1..10
    BY LayoutFacts
  <2> QED
    BY <2>1
<1> QED
  BY <1>1, <1>2, <1>3 DEF FieldNames

\* What reading each field comes to.
LEMMA FieldReads ==
  /\ \A i \in 3..7 : /\ FieldError(i) = TokenError(Body, i, <<"bytes", "digest">>)
                     /\ FieldValue(i) = ValueAt(Body, i)
  /\ FieldError(8) = TokenError(Body, 8, <<"bytes", "text">>)
  /\ FieldValue(8) = ValueAt(Body, 8)
  /\ FieldError(9) = CodeError(Body, 9, OutcomeCodes)
  /\ FieldValue(9) = OutcomeCodes[ValueAt(Body, 9)]
  /\ FieldError(10) = CodeError(Body, 10, DurabilityCodes)
  /\ FieldValue(10) = DurabilityCodes[ValueAt(Body, 10)]
  /\ FieldError(11) = CodeError(Body, 11, AtomicityCodes)
  /\ FieldValue(11) = AtomicityCodes[ValueAt(Body, 11)]
  /\ FieldError(12) = BooleanError(Body, 12)
  /\ FieldValue(12) = IsTrue(Body, 12)
<1>1. OutcomeCodes # <<>> /\ DurabilityCodes # <<>> /\ AtomicityCodes # <<>>
  BY DEF OutcomeCodes, DurabilityCodes, AtomicityCodes
<1>2. ASSUME NEW i \in 3..7
      PROVE  /\ FieldError(i) = TokenError(Body, i, <<"bytes", "digest">>)
             /\ FieldValue(i) = ValueAt(Body, i)
  <2>1. /\ Field(i).name # "present" /\ Field(i).codes = <<>>
        /\ Field(i).shape = <<"bytes", "digest">>
    <3>1. i = 3 \/ i = 4 \/ i = 5 \/ i = 6 \/ i = 7
      OBVIOUS
    <3> QED
      BY <3>1, LayoutFacts
  <2> QED
    BY <2>1 DEF FieldError, FieldValue
<1> QED
  BY <1>1, <1>2, LayoutFacts DEF FieldError, FieldValue

-----------------------------------------------------------------------------
(* The inductive invariant: what each phase of the decoder has established *)

AfterVerify == Phases \ {"verify", "failed"}
AfterPrefix == AfterVerify \ {"prefix"}
AfterFields == {"resulting", "count", "evidence", "rebuild", "confirm", "accepted"}
AfterResulting == AfterFields \ {"resulting"}
AfterCount == AfterResulting \ {"count"}
AfterEvidence == AfterCount \ {"evidence"}

\* The arguments are those of a case.
FromCase ==
  \E case \in Cases :
    /\ encoding = case.encoding /\ written = case.written
    /\ request = case.request /\ prior = case.prior

Bounded ==
  /\ phase \in Phases /\ position \in 1..(Len(encoding) + 1)
  /\ left \in 0..MaxCount /\ evidence \in Seq(Evidence) /\ Len(evidence) <= MaxCount
  /\ code \in ErrorCodes \cup {None} /\ (code # None <=> phase = "failed")

\* The fixed fields up to position n are intact, and in their locals.
HaveRead(n) ==
  \A i \in 3..n : FieldError(i) = None /\ fields[Field(i).name] = FieldValue(i)

Framed ==
  /\ phase \in AfterVerify => VerifyError(encoding) = None
  /\ phase \in AfterPrefix => PrefixError(Body, "receipt", ReceiptVersion) = None

FieldsInv ==
  /\ DOMAIN fields = FieldNames
  /\ phase = "fields" =>
       /\ position \in 3..12 /\ HaveRead(position - 1)
       /\ position > 7 => AuthorityError = None
  /\ phase = "authority" => position = 8 /\ HaveRead(7)
  /\ phase \in AfterFields => HaveRead(12) /\ AuthorityError = None

\* Where the evidence count stands.
CountAt == IF fields.present THEN 14 ELSE 13

ResultingRead ==
  /\ fields.present => TokenError(Body, 13, <<"bytes", "digest">>) = None
  /\ fields.resulting = IF fields.present THEN ValueAt(Body, 13) ELSE None

EvidenceRead ==
  \A k \in 1..Len(evidence) : evidence[k] = ValueAt(Body, CountAt + k)

EvidenceInv ==
  /\ phase = "resulting" => position = 13
  /\ phase \in AfterResulting => ResultingRead
  /\ phase = "count" => position = CountAt
  /\ phase \in AfterVerify \ AfterCount => evidence = <<>>
  /\ phase = "verify" => evidence = <<>>
  /\ phase \in AfterCount => CountError(Body, CountAt) = None /\ EvidenceRead
  /\ phase = "evidence" =>
       /\ Len(evidence) + left = ValueAt(Body, CountAt)
       /\ position = CountAt + 1 + Len(evidence)
  /\ phase \in AfterEvidence => Len(evidence) = ValueAt(Body, CountAt)

ResultInv ==
  /\ phase \in {"confirm", "accepted"} =>
       /\ Rebuildable
       /\ result = ReceiptMake(request, prior, fields.format, fields.outcome,
                               fields.atomicity, fields.resulting, evidence)
  /\ phase = "accepted" => ConfirmError = None

FailureInv ==
  phase = "failed" /\ written # None =>
    ~CouldBeIssued(written, request, prior) /\ MisfiledIsNamed

DecoderInv ==
  /\ FromCase /\ Bounded /\ Framed /\ FieldsInv /\ EvidenceInv
  /\ ResultInv /\ FailureInv

-----------------------------------------------------------------------------
(* The record as a whole *)

\* What is known of the arguments, and of the record inside its checksum.
LEMMA CaseFacts ==
  ASSUME FromCase
  PROVE  /\ request \in Requests /\ prior \in Snapshots
         /\ written # None => /\ written \in ReceiptRecord
                              /\ Sealable(ReceiptBody(written))
                              /\ encoding = EncodeReceipt(written)
         /\ Len(encoding) \in Nat /\ Len(Body) \in Nat /\ Len(Body) <= Len(encoding)
         /\ encoding # <<>> => Len(Body) = Len(encoding) - 1
         /\ \A i \in 1..Len(Body) :
              /\ Token(Body[i], Seq(FormatBytes))
              /\ i > 13 /\ IsPrefix(<<"bytes", "digest">>, Body[i]) =>
                   Last(Body[i]) \in Evidence
<1>1. PICK case \in Cases : /\ encoding = case.encoding /\ written = case.written
                            /\ request = case.request /\ prior = case.prior
  BY DEF FromCase
<1>2. /\ request \in Requests /\ prior \in Snapshots
      /\ written # None => /\ written \in ReceiptRecord
                           /\ Sealable(ReceiptBody(written))
                           /\ encoding = EncodeReceipt(written)
      /\ encoding \in Seq(Range(encoding))
      /\ \A i \in DOMAIN encoding :
           /\ Token(encoding[i], Seq(FormatBytes))
           /\ i > Len(Layout) + 3 /\ IsPrefix(<<"bytes", "digest">>, encoding[i]) =>
                Last(encoding[i]) \in Evidence
  BY <1>1, CasesAssumption
<1>3. PICK n : n = Len(encoding)
  OBVIOUS
<1>4. n \in Nat /\ DOMAIN encoding = 1..n
  BY <1>2, <1>3
<1>5. Body = SubSeq(encoding, 1, n - 1)
  BY <1>3 DEF Body, Front
<1>6. CASE n = 0
  <2>1. encoding = <<>>
    <3>1. encoding \in Seq(Range(encoding))
      BY <1>2
    <3>2. Len(encoding) = 0
      BY <1>3, <1>6
    <3> QED
      BY <3>1, <3>2
  <2>2. Len(Body) = 0
    BY <1>2, <1>3, <1>5, <1>6
  <2>3. Len(encoding) = 0
    BY <1>3, <1>6
  <2>4. \A i \in 1..Len(Body) : FALSE
    BY <2>2
  <2> QED
    BY <1>2, <2>1, <2>2, <2>3, <2>4
<1>7. CASE n # 0
  <2>1. Len(Body) = n - 1 /\ \A i \in 1..(n - 1) : Body[i] = encoding[i]
    BY <1>2, <1>3, <1>4, <1>5, <1>7
  <2>2. \A i \in 1..Len(Body) : i \in DOMAIN encoding /\ Body[i] = encoding[i]
    BY <1>4, <1>7, <2>1
  <2>3. Len(Layout) + 3 = 13
    BY LayoutFacts
  <2>4. \A i \in 1..Len(Body) :
          /\ Token(Body[i], Seq(FormatBytes))
          /\ i > 13 /\ IsPrefix(<<"bytes", "digest">>, Body[i]) =>
               Last(Body[i]) \in Evidence
    BY <1>2, <2>2, <2>3
  <2> QED
    BY <1>2, <1>3, <1>4, <1>7, <2>1, <2>4
<1> QED
  BY <1>6, <1>7

\* What is read of an intact encoding is what was encoded.
LEMMA WrittenReads ==
  ASSUME NEW rc \in ReceiptRecord, Sealable(ReceiptBody(rc)), encoding = EncodeReceipt(rc)
  PROVE  /\ VerifyError(encoding) = None
         /\ PrefixError(Body, "receipt", ReceiptVersion) = None
         /\ \A i \in 3..12 : FieldError(i) = None
         /\ FieldValue(3) = PublicationReceiptIdentity(rc)
         /\ FieldValue(4) = rc.request /\ FieldValue(5) = rc.expected
         /\ FieldValue(6) = rc.actualPrior /\ FieldValue(7) = rc.target
         /\ FieldValue(8) = rc.format /\ FieldValue(9) = rc.outcome
         /\ FieldValue(10) = rc.durability /\ FieldValue(11) = rc.atomicity
         /\ FieldValue(12) = (rc.resulting # None)
         /\ rc.resulting # None => /\ TokenError(Body, 13, <<"bytes", "digest">>) = None
                                   /\ ValueAt(Body, 13) = rc.resulting
         /\ CountError(Body, WrittenCountAt(rc)) = None
         /\ ValueAt(Body, WrittenCountAt(rc)) = Cardinality(rc.evidence)
         /\ \A k \in 1..Cardinality(rc.evidence) :
              /\ TokenError(Body, WrittenCountAt(rc) + k, <<"bytes", "digest">>) = None
              /\ ValueAt(Body, WrittenCountAt(rc) + k) = InByteOrder(rc.evidence)[k]
         /\ Len(Body) = WrittenCountAt(rc) + Cardinality(rc.evidence)
<1> DEFINE n == Cardinality(rc.evidence)
           c == WrittenCountAt(rc)
<1>1. PICK B : B = ReceiptBody(rc)
  OBVIOUS
<1>2. n \in Nat /\ c \in 13..14 /\ (rc.resulting # None => c = 14)
  BY InByteOrderFacts DEF ReceiptRecord, WrittenCountAt
<1> HIDE DEF n, c
<1>3. B \in Seq(Range(B))
  BY <1>1, BodyFacts
<1>4. Len(B) = c + n
  BY <1>1, BodyFacts DEF c, n
<1>5. encoding = Append(B, Checksum(B))
  BY <1>1 DEF EncodeReceipt, Seal
<1>6. /\ Len(encoding) = Len(B) + 1 /\ Last(encoding) = Checksum(B)
      /\ Front(encoding) = B /\ encoding # <<>>
  <2>1. PICK x, S : x = Checksum(B) /\ S = Range(B) \cup {x}
    OBVIOUS
  <2>2. B \in Seq(S)
    <3>1. \A i \in 1..Len(B) : B[i] \in S
      BY <1>3, <2>1 DEF Range
    <3> QED
      BY <1>3, <3>1
  <2>3. encoding = Append(B, x) /\ x \in S
    BY <1>5, <2>1
  <2>4. /\ Len(encoding) = Len(B) + 1 /\ encoding[Len(B) + 1] = x /\ encoding \in Seq(S)
        /\ \A i \in 1..Len(B) : encoding[i] = B[i]
    BY <2>2, <2>3
  <2>5. Last(encoding) = x
    BY <2>4 DEF Last
  <2>6. Front(encoding) = B
    <3>1. PICK F : F = SubSeq(encoding, 1, Len(B))
      OBVIOUS
    <3>2. F \in Seq(S) /\ Len(F) = Len(B) /\ \A i \in 1..Len(B) : F[i] = encoding[i]
      BY <2>2, <2>4, <3>1
    <3>3. F = B
      BY <2>2, <2>4, <3>2
    <3>4. Len(encoding) - 1 = Len(B)
      BY <2>2, <2>4
    <3> QED
      BY <3>1, <3>3, <3>4 DEF Front
  <2>7. encoding # <<>>
    <3>1. Len(encoding) > 0
      BY <2>2, <2>4
    <3>2. Len(<<>>) = 0
      OBVIOUS
    <3> QED
      BY <3>1, <3>2
  <2> QED
    BY <2>1, <2>4, <2>5, <2>6, <2>7
<1>7. Body = B
  BY <1>6 DEF Body
<1>8. Len(B) \in Nat /\ Len(B) < MaxRecord /\ MaxRecord \in Nat
  BY <1>1, <1>2, <1>4, RecordAssumption DEF Sealable
<1>9. VerifyError(encoding) = None
  <2>1. ~ Len(encoding) > MaxRecord
    BY <1>6, <1>8
  <2> QED
    BY <1>6, <2>1 DEF VerifyError
<1>10. B[1] = Magic("receipt") /\ B[2] = U16(ReceiptVersion)
  BY <1>1, BodyFacts
<1>11. PrefixError(Body, "receipt", ReceiptVersion) = None
  <2>1. ~ Len(B) < 2 /\ Len(B) # 0
    BY <1>2, <1>4
  <2>2. B # <<>>
    BY <2>1
  <2>3. Head(B) = B[1]
    BY <1>3, <2>2
  <2> QED
    BY <1>7, <1>10, <2>1, <2>2, <2>3 DEF PrefixError
<1>12. \A i \in 3..7 : i \in Nat /\ i <= Len(B)
  BY <1>2, <1>4
<1>13. 8 <= Len(B) /\ 9 <= Len(B) /\ 10 <= Len(B) /\ 11 <= Len(B) /\ 12 <= Len(B)
  BY <1>2, <1>4
<1>14. /\ B[3] = Digest(PublicationReceiptIdentity(rc)) /\ B[4] = Digest(rc.request)
       /\ B[5] = Digest(rc.expected) /\ B[6] = Digest(rc.actualPrior)
       /\ B[7] = Digest(rc.target) /\ B[8] = Text(rc.format)
       /\ B[9] = U8(Encode(OutcomeCodes, rc.outcome))
       /\ B[10] = U8(Encode(DurabilityCodes, rc.durability))
       /\ B[11] = U8(Encode(AtomicityCodes, rc.atomicity))
       /\ B[12] = Boolean(rc.resulting # None)
       /\ rc.resulting # None => B[13] = Digest(rc.resulting)
       /\ B[c] = U64(n)
       /\ \A k \in 1..n : B[c + k] = Digest(InByteOrder(rc.evidence)[k])
  BY <1>1, BodyFacts DEF c, n
<1>15. /\ FieldError(3) = None /\ FieldValue(3) = PublicationReceiptIdentity(rc)
       /\ FieldError(4) = None /\ FieldValue(4) = rc.request
       /\ FieldError(5) = None /\ FieldValue(5) = rc.expected
       /\ FieldError(6) = None /\ FieldValue(6) = rc.actualPrior
       /\ FieldError(7) = None /\ FieldValue(7) = rc.target
  BY <1>7, <1>8, <1>12, <1>14, FieldReads, TokenReads, SMTT(30)
<1>16. FieldError(8) = None /\ FieldValue(8) = rc.format
  BY <1>7, <1>8, <1>13, <1>14, FieldReads, TokenReads, SMTT(30)
<1>17. /\ rc.outcome \in Outcomes /\ rc.durability \in Durabilities
       /\ rc.atomicity \in Boundaries \cup {"none"}
  BY DEF ReceiptRecord
<1>18. FieldError(9) = None /\ FieldValue(9) = rc.outcome
  <2> DEFINE x == Encode(OutcomeCodes, rc.outcome)
  <2>1. B[9] = U8(x)
    BY <1>14
  <2> HIDE DEF x
  <2>2. TokenError(B, 9, <<"u8">>) = None /\ ValueAt(B, 9) = x /\ B[9][2] = x
    BY <1>8, <1>13, <2>1, TokenReads, SMTT(30)
  <2> QED
    BY <1>7, <1>17, <2>2, CodeFacts, FieldReads DEF x, CodeError, ByteError
<1>19. FieldError(10) = None /\ FieldValue(10) = rc.durability
  <2> DEFINE x == Encode(DurabilityCodes, rc.durability)
  <2>1. B[10] = U8(x)
    BY <1>14
  <2> HIDE DEF x
  <2>2. TokenError(B, 10, <<"u8">>) = None /\ ValueAt(B, 10) = x /\ B[10][2] = x
    BY <1>8, <1>13, <2>1, TokenReads, SMTT(30)
  <2> QED
    BY <1>7, <1>17, <2>2, CodeFacts, FieldReads DEF x, CodeError, ByteError
<1>20. FieldError(11) = None /\ FieldValue(11) = rc.atomicity
  <2> DEFINE x == Encode(AtomicityCodes, rc.atomicity)
  <2>1. B[11] = U8(x)
    BY <1>14
  <2> HIDE DEF x
  <2>2. TokenError(B, 11, <<"u8">>) = None /\ ValueAt(B, 11) = x /\ B[11][2] = x
    BY <1>8, <1>13, <2>1, TokenReads, SMTT(30)
  <2> QED
    BY <1>7, <1>17, <2>2, CodeFacts, FieldReads DEF x, CodeError, ByteError
<1>21. FieldError(12) = None /\ FieldValue(12) = (rc.resulting # None)
  <2> DEFINE x == IF rc.resulting # None THEN 1 ELSE 0
  <2>1. B[12] = U8(x)
    BY <1>14 DEF Boolean
  <2>2. TokenError(B, 12, <<"u8">>) = None /\ ValueAt(B, 12) = x /\ B[12][2] = x
    BY <1>8, <1>13, <2>1, TokenReads, SMTT(30)
  <2>3. x \in {0, 1} /\ ((x = 1) <=> (rc.resulting # None))
    OBVIOUS
  <2>4. FieldError(12) = None
    BY <1>7, <2>2, <2>3, FieldReads DEF BooleanError, ByteError
  <2>5. FieldValue(12) = (ValueAt(B, 12) = 1)
    BY <1>7, FieldReads DEF IsTrue
  <2> QED
    BY <2>2, <2>3, <2>4, <2>5
<1>22. rc.resulting # None => /\ TokenError(Body, 13, <<"bytes", "digest">>) = None
                              /\ ValueAt(Body, 13) = rc.resulting
  <2>1. 13 <= Len(B)
    BY <1>2, <1>4
  <2> QED
    BY <1>7, <1>8, <1>14, <2>1, TokenReads, SMTT(30)
<1>23. CountError(Body, c) = None /\ ValueAt(Body, c) = n
  <2>1. TokenError(B, c, <<"u64">>) = None /\ ValueAt(B, c) = n /\ B[c][2] = n
    <3>1. c \in Nat /\ c <= Len(B)
      BY <1>2, <1>4
    <3> QED
      BY <1>8, <1>14, <3>1, TokenReads, SMTT(30)
  <2>2. ~ n > MaxCount
    <3>1. n <= Len(B) /\ MaxRecord <= MaxCount /\ MaxCount \in Nat
      BY <1>2, <1>4, RecordAssumption, ReceiptBound
    <3> QED
      BY <1>2, <1>8, <3>1
  <2>3. ~ n > TokenBytes * (Remaining(B, c) - 1)
    <3>1. Remaining(B, c) - 1 = n
      BY <1>2, <1>4 DEF Remaining
    <3>2. n <= TokenBytes * n
      BY <1>2, RecordAssumption
    <3>3. TokenBytes * n \in Nat
      BY <1>2, RecordAssumption
    <3> QED
      BY <1>2, <3>1, <3>2, <3>3
  <2> QED
    BY <1>7, <2>1, <2>2, <2>3 DEF CountError
<1>24. \A k \in 1..n :
         /\ TokenError(Body, c + k, <<"bytes", "digest">>) = None
         /\ ValueAt(Body, c + k) = InByteOrder(rc.evidence)[k]
  <2> SUFFICES ASSUME NEW k \in 1..n
               PROVE  /\ TokenError(B, c + k, <<"bytes", "digest">>) = None
                      /\ ValueAt(B, c + k) = InByteOrder(rc.evidence)[k]
    BY <1>7
  <2>1. c + k \in Nat /\ c + k <= Len(B)
    BY <1>2, <1>4
  <2> QED
    BY <1>8, <1>14, <2>1, TokenReads, SMTT(30)
<1>25. \A i \in 3..12 : FieldError(i) = None
  <2> SUFFICES ASSUME NEW i \in 3..12 PROVE FieldError(i) = None
    OBVIOUS
  <2>1. \/ i = 3 \/ i = 4 \/ i = 5 \/ i = 6 \/ i = 7
        \/ i = 8 \/ i = 9 \/ i = 10 \/ i = 11 \/ i = 12
    OBVIOUS
  <2> QED
    BY <2>1, <1>15, <1>16, <1>18, <1>19, <1>20, <1>21
<1> QED
  BY <1>4, <1>7, <1>9, <1>11, <1>15, <1>16, <1>18, <1>19, <1>20, <1>21, <1>22, <1>23,
     <1>24, <1>25 DEF c, n

\* The locals hold what was read, and nothing else than a receipt's fields can be
\* read there.
LEMMA HeaderFacts ==
  ASSUME HaveRead(7)
  PROVE  /\ fields.identity = FieldValue(3) /\ fields.request = FieldValue(4)
         /\ fields.expected = FieldValue(5) /\ fields.actualPrior = FieldValue(6)
         /\ fields.target = FieldValue(7)
<1>1. /\ fields["identity"] = FieldValue(3) /\ fields["request"] = FieldValue(4)
      /\ fields["expected"] = FieldValue(5) /\ fields["actualPrior"] = FieldValue(6)
      /\ fields["target"] = FieldValue(7)
  <2>1. 3 \in 3..7 /\ 4 \in 3..7 /\ 5 \in 3..7 /\ 6 \in 3..7 /\ 7 \in 3..7
    OBVIOUS
  <2>2. \A i \in 3..7 : fields[Field(i).name] = FieldValue(i)
    BY DEF HaveRead
  <2> QED
    BY <2>1, <2>2, NameFacts
<1> QED
  BY <1>1

\* All the locals of the fixed fields.
LEMMA LocalFacts ==
  ASSUME HaveRead(12)
  PROVE  /\ HaveRead(7)
         /\ fields.format = FieldValue(8) /\ fields.outcome = FieldValue(9)
         /\ fields.durability = FieldValue(10) /\ fields.atomicity = FieldValue(11)
         /\ fields.present = FieldValue(12)
         /\ FieldError(8) = None /\ FieldError(9) = None /\ FieldError(10) = None
         /\ FieldError(11) = None /\ FieldError(12) = None
<1>1. \A i \in 3..12 : FieldError(i) = None /\ fields[Field(i).name] = FieldValue(i)
  BY DEF HaveRead
<1>2. 8 \in 3..12 /\ 9 \in 3..12 /\ 10 \in 3..12 /\ 11 \in 3..12 /\ 12 \in 3..12
  OBVIOUS
<1>3. /\ fields["format"] = FieldValue(8) /\ fields["outcome"] = FieldValue(9)
      /\ fields["durability"] = FieldValue(10) /\ fields["atomicity"] = FieldValue(11)
      /\ fields["present"] = FieldValue(12)
  BY <1>1, <1>2, NameFacts
<1>4. HaveRead(7)
  <2>1. \A i \in 3..7 : i \in 3..12
    OBVIOUS
  <2> QED
    BY <1>1, <2>1 DEF HaveRead
<1> QED
  BY <1>1, <1>2, <1>3, <1>4

\* An error is one of the codes, or there is none.
LEMMA ErrorFacts ==
  /\ VerifyError(encoding) \in ErrorCodes \cup {None}
  /\ PrefixError(Body, "receipt", ReceiptVersion) \in ErrorCodes \cup {None}
  /\ \A i : FieldError(i) \in ErrorCodes \cup {None}
  /\ \A i, shape : TokenError(Body, i, shape) \in ErrorCodes \cup {None}
  /\ \A i : CountError(Body, i) \in ErrorCodes \cup {None}
  /\ \A i : FinishError(Body, i) \in ErrorCodes \cup {None}
  /\ AuthorityError \in ErrorCodes \cup {None}
  /\ ConfirmError \in ErrorCodes \cup {None}
  /\ "invalid_value" \in ErrorCodes
<1>1. \A i, shape : TokenError(Body, i, shape) \in ErrorCodes \cup {None}
  BY DEF TokenError, ErrorCodes
<1>2. \A i, values : ByteError(Body, i, values) \in ErrorCodes \cup {None}
  <2> SUFFICES ASSUME NEW i, NEW values
               PROVE  ByteError(Body, i, values) \in ErrorCodes \cup {None}
    OBVIOUS
  <2>1. "invalid_value" \in ErrorCodes
    BY DEF ErrorCodes
  <2> QED
    BY <1>1, <2>1 DEF ByteError
<1>3. \A i : FieldError(i) \in ErrorCodes \cup {None}
  BY <1>1, <1>2 DEF FieldError, BooleanError, CodeError
<1>4. \A i : CountError(Body, i) \in ErrorCodes \cup {None}
  <2> SUFFICES ASSUME NEW i PROVE CountError(Body, i) \in ErrorCodes \cup {None}
    OBVIOUS
  <2>1. "limit_exceeded" \in ErrorCodes
    BY DEF ErrorCodes
  <2> QED
    BY <1>1, <2>1 DEF CountError
<1>5. VerifyError(encoding) \in ErrorCodes \cup {None}
  BY Zenon DEF VerifyError, ErrorCodes
<1>6. PrefixError(Body, "receipt", ReceiptVersion) \in ErrorCodes \cup {None}
  BY DEF PrefixError, ErrorCodes
<1>7. \A i : FinishError(Body, i) \in ErrorCodes \cup {None}
  BY DEF FinishError, ErrorCodes
<1>8. AuthorityError \in ErrorCodes \cup {None}
  BY DEF AuthorityError, ErrorCodes
<1>9. ConfirmError \in ErrorCodes \cup {None}
  BY DEF ConfirmError, ErrorCodes
<1> QED
  BY <1>1, <1>3, <1>4, <1>5, <1>6, <1>7, <1>8, <1>9 DEF ErrorCodes

\* The fields that stand in the record are of the kinds that a receipt has.
LEMMA FieldTypes ==
  ASSUME FromCase, HaveRead(12)
  PROVE  /\ fields.format \in Seq(FormatBytes)
         /\ fields.outcome \in Outcomes /\ fields.durability \in Durabilities
         /\ fields.atomicity \in Boundaries \cup {"none"}
         /\ fields.present \in BOOLEAN
         /\ 12 <= Len(Body)
<1>1. Len(Body) \in Nat /\ \A i \in 1..Len(Body) : Token(Body[i], Seq(FormatBytes))
  BY CaseFacts
<1>2. ASSUME NEW i \in Nat, NEW shape, i >= 1, TokenError(Body, i, shape) = None
      PROVE  i \in 1..Len(Body) /\ IsPrefix(shape, Body[i])
  <2>1. None # "truncated" /\ None # "invalid_value"
    BY ErrorAssumption DEF ErrorCodes
  <2> QED
    BY <1>1, <1>2, <2>1 DEF TokenError
<1>3. ASSUME NEW i \in Nat, i >= 1, NEW values, ByteError(Body, i, values) = None
      PROVE  i \in 1..Len(Body) /\ ValueAt(Body, i) \in values
  <2>1. None # "invalid_value"
    BY ErrorAssumption DEF ErrorCodes
  <2>2. TokenError(Body, i, <<"u8">>) = None /\ Body[i][2] \in values
    BY <1>3, <2>1 DEF ByteError
  <2>3. i \in 1..Len(Body) /\ IsPrefix(<<"u8">>, Body[i])
    <3>1. None # "truncated" /\ None # "invalid_value"
      BY ErrorAssumption DEF ErrorCodes
    <3> QED
      BY <1>1, <1>3, <2>2, <3>1 DEF TokenError
  <2>4. Body[i][2] = Last(Body[i])
    BY <1>1, <2>3, TokenIs
  <2> QED
    BY <2>2, <2>3, <2>4 DEF ValueAt
<1>4. fields.format \in Seq(FormatBytes)
  <2>1. TokenError(Body, 8, <<"bytes", "text">>) = None
    BY LocalFacts, FieldReads
  <2>2. 8 \in 1..Len(Body) /\ IsPrefix(<<"bytes", "text">>, Body[8])
    BY <1>2, <2>1
  <2>3. Last(Body[8]) \in Seq(FormatBytes)
    BY <1>1, <2>2, TokenIs
  <2>4. fields.format = Last(Body[8])
    BY LocalFacts, FieldReads DEF ValueAt
  <2> QED
    BY <2>3, <2>4
<1>5. fields.outcome \in Outcomes
  <2>1. ByteError(Body, 9, DOMAIN OutcomeCodes) = None
    BY LocalFacts, FieldReads DEF CodeError
  <2>2. ValueAt(Body, 9) \in DOMAIN OutcomeCodes
    BY <1>3, <2>1
  <2>3. fields.outcome = OutcomeCodes[ValueAt(Body, 9)]
    BY LocalFacts, FieldReads
  <2> QED
    BY <2>2, <2>3, CodeFacts
<1>6. fields.durability \in Durabilities
  <2>1. ByteError(Body, 10, DOMAIN DurabilityCodes) = None
    BY LocalFacts, FieldReads DEF CodeError
  <2>2. ValueAt(Body, 10) \in DOMAIN DurabilityCodes
    BY <1>3, <2>1
  <2>3. fields.durability = DurabilityCodes[ValueAt(Body, 10)]
    BY LocalFacts, FieldReads
  <2> QED
    BY <2>2, <2>3, CodeFacts
<1>7. fields.atomicity \in Boundaries \cup {"none"}
  <2>1. ByteError(Body, 11, DOMAIN AtomicityCodes) = None
    BY LocalFacts, FieldReads DEF CodeError
  <2>2. ValueAt(Body, 11) \in DOMAIN AtomicityCodes
    BY <1>3, <2>1
  <2>3. fields.atomicity = AtomicityCodes[ValueAt(Body, 11)]
    BY LocalFacts, FieldReads
  <2> QED
    BY <2>2, <2>3, CodeFacts
<1>8. fields.present \in BOOLEAN /\ 12 <= Len(Body)
  <2>1. ByteError(Body, 12, {0, 1}) = None
    BY LocalFacts, FieldReads DEF BooleanError
  <2>2. 12 \in 1..Len(Body)
    BY <1>3, <2>1
  <2>3. fields.present = (ValueAt(Body, 12) = 1)
    BY LocalFacts, FieldReads DEF IsTrue
  <2> QED
    BY <1>1, <2>2, <2>3
<1> QED
  BY <1>4, <1>5, <1>6, <1>7, <1>8

\* What is read without an error stands in the record.
LEMMA ReadBounds ==
  ASSUME FromCase, NEW i \in Nat \ {0}
  PROVE  /\ \A shape : TokenError(Body, i, shape) = None => i \in 1..Len(Body)
         /\ FieldError(i) = None => i \in 1..Len(Body)
         /\ CountError(Body, i) = None =>
              /\ i \in 1..Len(Body)
              /\ ValueAt(Body, i) \in Nat /\ ValueAt(Body, i) <= MaxCount
         /\ TokenError(Body, i, <<"bytes", "digest">>) = None /\ i > 13 =>
              ValueAt(Body, i) \in Evidence
<1>1. Len(Body) \in Nat /\ \A k \in 1..Len(Body) : Token(Body[k], Seq(FormatBytes))
  BY CaseFacts
<1>2. None # "truncated" /\ None # "invalid_value" /\ None # "limit_exceeded"
  BY ErrorAssumption DEF ErrorCodes
<1>3. \A shape : TokenError(Body, i, shape) = None =>
                   i \in 1..Len(Body) /\ IsPrefix(shape, Body[i])
  BY <1>1, <1>2 DEF TokenError
<1>4. \A values : ByteError(Body, i, values) = None => i \in 1..Len(Body)
  BY <1>3 DEF ByteError
<1>5. FieldError(i) = None => i \in 1..Len(Body)
  BY <1>3, <1>4 DEF FieldError, BooleanError, CodeError
<1>6. ASSUME CountError(Body, i) = None
      PROVE  /\ i \in 1..Len(Body)
             /\ ValueAt(Body, i) \in Nat /\ ValueAt(Body, i) <= MaxCount
  <2>1. TokenError(Body, i, <<"u64">>) = None /\ ~ Body[i][2] > MaxCount
    BY <1>2, <1>6 DEF CountError
  <2>2. i \in 1..Len(Body) /\ IsPrefix(<<"u64">>, Body[i])
    BY <1>1, <1>2, <2>1 DEF TokenError
  <2>3. Body[i][2] = Last(Body[i]) /\ Last(Body[i]) \in Nat
    BY <1>1, <2>2, TokenIs
  <2> QED
    BY <2>1, <2>2, <2>3, RecordAssumption DEF ValueAt
<1>7. ASSUME TokenError(Body, i, <<"bytes", "digest">>) = None, i > 13
      PROVE  ValueAt(Body, i) \in Evidence
  <2>1. i \in 1..Len(Body) /\ IsPrefix(<<"bytes", "digest">>, Body[i])
    BY <1>1, <1>2, <1>7 DEF TokenError
  <2> QED
    BY <1>7, <2>1, CaseFacts DEF ValueAt
<1> QED
  BY <1>3, <1>5, <1>6, <1>7

-----------------------------------------------------------------------------
(* The receipts that can be issued are those that the factories rebuild *)

\* The fields of a receipt that could have been issued.
LEMMA IssuedFacts ==
  ASSUME NEW rc \in ReceiptRecord, NEW r \in Requests, NEW s \in Snapshots,
         CouldBeIssued(rc, r, s)
  PROVE  /\ rc.request = RequestIdentity(r) /\ rc.expected = r.expected
         /\ rc.actualPrior = SnapshotIdentity(s) /\ rc.target = r.target
         /\ s.target = r.target
         /\ rc.durability = DurabilityOf(rc.outcome)
         /\ rc.atomicity = "none" <=> rc.outcome \notin Attempted
         /\ rc.outcome \notin Attempted => rc.resulting = None
         /\ rc.resulting = None =>
              rc.outcome \notin {"published", "published_durability_unconfirmed"}
         /\ rc.resulting # None =>
              ProjectAdmitted(r, s) /\ rc.resulting = SnapshotIdentity(Project(r, s))
         /\ IF rc.outcome = "stale_expected_state"
            THEN RequireStale(r, s) ELSE RequireCurrent(r, s)
         /\ ReceiptFormatAdmitted(rc.format)
<1> DEFINE b == [outcome     |-> rc.outcome,
                 atomicity   |-> rc.atomicity,
                 established |-> rc.resulting # None,
                 evidence    |-> InByteOrder(rc.evidence)]
<1>1. CASE /\ RequireStale(r, s) /\ ReceiptFormatAdmitted(rc.format)
           /\ rc = [StaleReceipt(r, s, rc.format) EXCEPT !.evidence = rc.evidence]
  <2>1. /\ rc.request = RequestIdentity(r) /\ rc.expected = r.expected
        /\ rc.actualPrior = SnapshotIdentity(s) /\ rc.target = r.target
        /\ rc.durability = DurabilityOf("stale_expected_state")
        /\ rc.outcome = "stale_expected_state" /\ rc.atomicity = "none"
        /\ rc.resulting = None
    BY <1>1 DEF StaleReceipt, ReceiptMake
  <2> QED
    BY <1>1, <2>1 DEF RequireStale, Attempted
<1>2. CASE /\ rc.outcome \in BackendOutcomes /\ BackendResultAdmitted(b)
           /\ ReceiptAdmitted(r, s, Project(r, s), rc.format, b)
           /\ rc = ReceiptOf(r, s, Project(r, s), rc.format, b)
  <2>1. /\ b.outcome = rc.outcome /\ b.atomicity = rc.atomicity
        /\ b.established = (rc.resulting # None)
    OBVIOUS
  <2> HIDE DEF b
  <2>2. /\ rc.request = RequestIdentity(r) /\ rc.expected = r.expected
        /\ rc.actualPrior = SnapshotIdentity(s) /\ rc.target = r.target
        /\ rc.durability = DurabilityOf(rc.outcome)
        /\ rc.resulting = IF b.established THEN SnapshotIdentity(Project(r, s)) ELSE None
    BY <1>2, <2>1 DEF ReceiptOf, ReceiptMake
  <2>3. /\ rc.atomicity = "none" <=> rc.outcome \notin Attempted
        /\ rc.outcome # "indeterminate" => (rc.resulting # None) = (rc.outcome \in Attempted)
    BY <1>2, <2>1 DEF BackendResultAdmitted
  <2>4. /\ RequireCurrent(r, s) /\ ReceiptFormatAdmitted(rc.format)
        /\ rc.outcome \in Attempted /\ b.established => ResultAdmitted(r, s, Project(r, s))
    BY <1>2, <2>1 DEF ReceiptAdmitted
  <2>5. rc.outcome # "stale_expected_state"
    BY <1>2 DEF BackendOutcomes
  <2>6. rc.outcome = "indeterminate" => rc.outcome \in Attempted
    BY DEF Attempted
  <2>7. /\ rc.outcome \notin Attempted => rc.resulting = None
        /\ rc.resulting # None => rc.outcome \in Attempted
    BY <2>3, <2>6
  <2>8. rc.resulting = None =>
          rc.outcome \notin {"published", "published_durability_unconfirmed"}
    BY <2>3 DEF Attempted
  <2>9. rc.resulting # None =>
          ProjectAdmitted(r, s) /\ rc.resulting = SnapshotIdentity(Project(r, s))
    BY <2>1, <2>2, <2>4, <2>7 DEF ResultAdmitted
  <2> QED
    BY <2>2, <2>3, <2>4, <2>5, <2>7, <2>8, <2>9 DEF RequireCurrent
<1> QED
  BY <1>1, <1>2 DEF CouldBeIssued

\* It is what the factory makes of its own fields.
LEMMA IssuedIsMade ==
  ASSUME NEW rc \in ReceiptRecord, NEW r \in Requests, NEW s \in Snapshots,
         CouldBeIssued(rc, r, s), NEW list \in Seq(Evidence),
         Range(list) = rc.evidence
  PROVE  rc = ReceiptMake(r, s, rc.format, rc.outcome, rc.atomicity, rc.resulting, list)
<1> DEFINE m == ReceiptMake(r, s, rc.format, rc.outcome, rc.atomicity, rc.resulting, list)
<1>1. m = [request |-> rc.request, expected |-> rc.expected,
           actualPrior |-> rc.actualPrior, target |-> rc.target, format |-> rc.format,
           outcome |-> rc.outcome, durability |-> rc.durability,
           atomicity |-> rc.atomicity, resulting |-> rc.resulting,
           evidence |-> rc.evidence]
  <2>1. /\ rc.request = RequestIdentity(r) /\ rc.expected = r.expected
        /\ rc.actualPrior = SnapshotIdentity(s) /\ rc.target = r.target
        /\ rc.durability = DurabilityOf(rc.outcome)
    BY IssuedFacts
  <2> QED
    BY <2>1 DEF ReceiptMake
<1> QED
  BY <1>1 DEF ReceiptRecord

\* A receipt of such fields could have been issued.
LEMMA MadeCouldBeIssued ==
  ASSUME NEW r \in Requests, NEW s \in Snapshots, NEW format, NEW outcome \in Outcomes,
         NEW atomicity, NEW resulting, NEW list \in Seq(Evidence),
         atomicity = "none" <=> outcome \notin Attempted,
         outcome \notin Attempted => resulting = None,
         resulting = None =>
           outcome \notin {"published", "published_durability_unconfirmed"},
         resulting # None =>
           ProjectAdmitted(r, s) /\ resulting = SnapshotIdentity(Project(r, s)),
         IF outcome = "stale_expected_state"
           THEN RequireStale(r, s) ELSE RequireCurrent(r, s),
         ReceiptFormatAdmitted(format)
  PROVE  CouldBeIssued(ReceiptMake(r, s, format, outcome, atomicity, resulting, list), r, s)
<1> DEFINE rc == ReceiptMake(r, s, format, outcome, atomicity, resulting, list)
           b == [outcome     |-> rc.outcome,
                 atomicity   |-> rc.atomicity,
                 established |-> rc.resulting # None,
                 evidence    |-> InByteOrder(rc.evidence)]
<1>1. /\ rc.format = format /\ rc.outcome = outcome /\ rc.atomicity = atomicity
      /\ rc.resulting = resulting /\ rc.evidence = Range(list)
  BY DEF ReceiptMake
<1>2. Range(list) \in SUBSET Evidence
  BY DEF Range
<1>3. /\ Range(InByteOrder(rc.evidence)) = rc.evidence
      /\ IsInjective(InByteOrder(rc.evidence))
  BY <1>1, <1>2, InByteOrderFacts
<1>4. CASE outcome = "stale_expected_state"
  <2>1. atomicity = "none" /\ resulting = None
    BY <1>4 DEF Attempted
  <2>2. rc = [StaleReceipt(r, s, format) EXCEPT !.evidence = Range(list)]
    BY <1>4, <2>1 DEF StaleReceipt, ReceiptMake
  <2> QED
    BY <1>1, <1>4, <2>2 DEF CouldBeIssued
<1>5. CASE outcome # "stale_expected_state"
  <2>1. outcome \in BackendOutcomes
    BY <1>5 DEF Outcomes
  <2>2. /\ b.outcome = outcome /\ b.atomicity = atomicity
        /\ b.established = (resulting # None) /\ b.evidence = InByteOrder(rc.evidence)
    BY <1>1
  <2>3. rc = ReceiptMake(r, s, format, outcome, atomicity, resulting, b.evidence)
    BY <1>1, <1>3, <2>2 DEF ReceiptMake
  <2> HIDE DEF b
  <2>4. outcome # "indeterminate" => b.established = (outcome \in Attempted)
    BY <2>1, <2>2 DEF BackendOutcomes, Attempted
  <2>5. BackendResultAdmitted(b)
    BY <1>3, <2>2, <2>4 DEF BackendResultAdmitted, EvidenceAdmitted
  <2>6. b.established => ResultAdmitted(r, s, Project(r, s))
    BY <2>2 DEF ResultAdmitted, Project, SnapshotMake
  <2>7. ReceiptAdmitted(r, s, Project(r, s), format, b)
    BY <1>3, <1>5, <2>2, <2>6 DEF ReceiptAdmitted, EvidenceAdmitted
  <2>8. rc = ReceiptOf(r, s, Project(r, s), format, b)
    BY <2>2, <2>3 DEF ReceiptOf
  <2> HIDE DEF rc
  <2>9. CouldBeIssued(rc, r, s)
    BY <1>1, <2>1, <2>5, <2>7, <2>8 DEF CouldBeIssued, b
  <2> QED
    BY <2>9 DEF rc
<1> QED
  BY <1>4, <1>5

-----------------------------------------------------------------------------
(* The invariant is kept by every step *)

\* It holds when the call is made.
LEMMA DecoderInit == Init => DecoderInv
<1> SUFFICES ASSUME Init PROVE DecoderInv
  OBVIOUS
<1>1. FromCase
  BY DEF Init, FromCase
<1>2. Bounded
  <2>1. Len(encoding) \in Nat
    BY <1>1, CaseFacts
  <2>2. 1 \in 1..(Len(encoding) + 1)
    BY <2>1
  <2>3. <<>> \in Seq(Evidence) /\ Len(<<>>) = 0
    OBVIOUS
  <2> QED
    BY <2>2, <2>3, RecordAssumption DEF Init, Bounded, Phases
<1>3. Framed /\ ResultInv /\ FailureInv
  BY DEF Init, Framed, ResultInv, FailureInv, AfterVerify, AfterPrefix
<1>4. FieldsInv
  BY DEF Init, FieldsInv, AfterFields
<1>5. EvidenceInv
  BY DEF Init, EvidenceInv, AfterVerify, AfterResulting, AfterCount, AfterEvidence, AfterFields
<1> QED
  BY <1>1, <1>2, <1>3, <1>4, <1>5 DEF DecoderInv

\* While the arguments stay, so does what is read of them.
LEMMA ArgumentsStay ==
  ASSUME FromCase, UNCHANGED arguments
  PROVE  /\ FromCase' /\ Body' = Body
         /\ \A i : FieldError(i)' = FieldError(i)
         /\ \A i : FieldValue(i)' = FieldValue(i)
<1>1. /\ encoding' = encoding /\ request' = request /\ prior' = prior /\ written' = written
  BY DEF arguments
<1>2. FromCase'
  BY <1>1 DEF FromCase
<1>3. Body' = Body
  BY <1>1 DEF Body
<1>4. \A i : FieldError(i)' = FieldError(i) /\ FieldValue(i)' = FieldValue(i)
  BY <1>3 DEF FieldError, FieldValue
<1> QED
  BY <1>2, <1>3, <1>4

\* While the locals stay too, so does what they hold.
LEMMA LocalsStay ==
  ASSUME FromCase, UNCHANGED <<arguments, fields>>
  PROVE  /\ \A n : HaveRead(n) => HaveRead(n)'
         /\ AuthorityError' = AuthorityError /\ CountAt' = CountAt
         /\ ResultingRead => ResultingRead'
<1>1. /\ request' = request /\ prior' = prior /\ fields' = fields
      /\ UNCHANGED arguments
  BY DEF arguments
<1>2. \A n : HaveRead(n) => HaveRead(n)'
  BY <1>1, ArgumentsStay DEF HaveRead
<1>3. AuthorityError' = AuthorityError /\ CountAt' = CountAt
  BY <1>1 DEF AuthorityError, CountAt
<1>4. ResultingRead => ResultingRead'
  <2>1. Body' = Body
    BY <1>1, ArgumentsStay
  <2> QED
    BY <1>1, <2>1 DEF ResultingRead
<1> QED
  BY <1>2, <1>3, <1>4

\* What a refusal with code e says of a receipt that was encoded.
RefusedRightly(e) ==
  /\ ~CouldBeIssued(written, request, prior)
  /\ written.request # RequestIdentity(request) => e = "request_mismatch"
  /\ written.request = RequestIdentity(request)
       /\ written.expected = request.expected
       /\ written.actualPrior # SnapshotIdentity(prior)
     => e = "actual_prior_mismatch"

\* A refusal for a good reason keeps the invariant.
LEMMA FailKeeps ==
  ASSUME DecoderInv, NEW e \in ErrorCodes, Fail(e),
         written # None => RefusedRightly(e)
  PROVE  DecoderInv'
<1>1. /\ code' = e /\ phase' = "failed" /\ UNCHANGED arguments
      /\ position' = position /\ fields' = fields /\ evidence' = evidence /\ left' = left
      /\ encoding' = encoding /\ request' = request /\ prior' = prior /\ written' = written
  BY DEF Fail, arguments
<1>2. FromCase'
  BY <1>1, ArgumentsStay DEF DecoderInv
<1>3. Bounded'
  BY <1>1, ErrorAssumption DEF Bounded, DecoderInv, Phases
<1>4. Framed' /\ ResultInv'
  BY <1>1 DEF Framed, ResultInv, AfterVerify, AfterPrefix
<1>5. FieldsInv'
  BY <1>1 DEF FieldsInv, AfterFields, DecoderInv
<1>6. EvidenceInv'
  BY <1>1 DEF EvidenceInv, AfterVerify, AfterResulting, AfterCount, AfterEvidence, AfterFields
<1>7. FailureInv'
  BY <1>1 DEF FailureInv, MisfiledIsNamed, RefusedRightly
<1> QED
  BY <1>2, <1>3, <1>4, <1>5, <1>6, <1>7 DEF DecoderInv

\* The locals of an encoded receipt are its fields.
LEMMA WrittenLocals ==
  ASSUME FromCase, written # None
  PROVE  /\ written \in ReceiptRecord
         /\ Sealable(ReceiptBody(written)) /\ encoding = EncodeReceipt(written)
         /\ HaveRead(7) =>
              /\ fields.request = written.request /\ fields.expected = written.expected
              /\ fields.actualPrior = written.actualPrior /\ fields.target = written.target
         /\ HaveRead(12) =>
              /\ fields.identity = PublicationReceiptIdentity(written)
              /\ fields.format = written.format /\ fields.outcome = written.outcome
              /\ fields.durability = written.durability
              /\ fields.atomicity = written.atomicity
              /\ fields.present = (written.resulting # None)
              /\ CountAt = WrittenCountAt(written)
<1>1. /\ written \in ReceiptRecord
      /\ Sealable(ReceiptBody(written)) /\ encoding = EncodeReceipt(written)
  BY CaseFacts
<1>2. /\ FieldValue(3) = PublicationReceiptIdentity(written)
      /\ FieldValue(4) = written.request /\ FieldValue(5) = written.expected
      /\ FieldValue(6) = written.actualPrior /\ FieldValue(7) = written.target
      /\ FieldValue(8) = written.format /\ FieldValue(9) = written.outcome
      /\ FieldValue(10) = written.durability /\ FieldValue(11) = written.atomicity
      /\ FieldValue(12) = (written.resulting # None)
  BY <1>1, WrittenReads
<1>3. ASSUME HaveRead(12) PROVE CountAt = WrittenCountAt(written)
  <2>1. fields.present = (written.resulting # None)
    BY <1>2, <1>3, LocalFacts
  <2> QED
    BY <2>1 DEF CountAt, WrittenCountAt
<1> QED
  BY <1>1, <1>2, <1>3, HeaderFacts, LocalFacts

\* verified_body refuses no encoding that is intact.
LEMMA VerifyKeeps == DecoderInv /\ Verify => DecoderInv'
<1> SUFFICES ASSUME DecoderInv, Verify PROVE DecoderInv'
  OBVIOUS
<1>1. ASSUME VerifyError(encoding) # None, Fail(VerifyError(encoding)) PROVE DecoderInv'
  <2>1. written = None
    BY <1>1, CaseFacts, WrittenReads DEF DecoderInv
  <2> QED
    BY <1>1, <2>1, FailKeeps, ErrorFacts
<1>2. ASSUME VerifyError(encoding) = None, phase' = "prefix", phase = "verify",
             UNCHANGED <<arguments, position, fields, evidence, left, result, code>>
      PROVE  DecoderInv'
  <2>1. /\ FromCase' /\ encoding' = encoding /\ position' = position /\ fields' = fields
        /\ evidence' = evidence /\ left' = left /\ code' = code
    BY <1>2, ArgumentsStay DEF DecoderInv, arguments
  <2>2. Bounded'
    BY <1>2, <2>1 DEF DecoderInv, Bounded, Phases
  <2>3. Framed' /\ ResultInv' /\ FailureInv'
    BY <1>2, <2>1 DEF Framed, ResultInv, FailureInv, AfterVerify, AfterPrefix
  <2>4. FieldsInv'
    BY <1>2, <2>1 DEF DecoderInv, FieldsInv, AfterFields
  <2>5. EvidenceInv'
    BY <1>2, <2>1 DEF DecoderInv, EvidenceInv, AfterVerify, AfterResulting, AfterCount,
                      AfterEvidence, AfterFields
  <2> QED
    BY <2>1, <2>2, <2>3, <2>4, <2>5 DEF DecoderInv
<1> QED
  BY <1>1, <1>2 DEF Verify

\* read_receipt_prefix refuses no encoding that is intact.
LEMMA ReadPrefixKeeps == DecoderInv /\ ReadPrefix => DecoderInv'
<1> SUFFICES ASSUME DecoderInv, ReadPrefix PROVE DecoderInv'
  OBVIOUS
<1> DEFINE error == PrefixError(Body, "receipt", ReceiptVersion)
<1>1. ASSUME error # None, Fail(error) PROVE DecoderInv'
  <2>1. written = None
    BY <1>1, CaseFacts, WrittenReads DEF DecoderInv
  <2> QED
    BY <1>1, <2>1, FailKeeps, ErrorFacts
<1>2. ASSUME error = None, phase = "prefix", phase' = "fields", position' = 3,
             UNCHANGED <<arguments, fields, evidence, left, result, code>>
      PROVE  DecoderInv'
  <2>1. /\ FromCase' /\ Body' = Body /\ encoding' = encoding /\ fields' = fields
        /\ evidence' = evidence /\ left' = left /\ code' = code
    BY <1>2, ArgumentsStay DEF DecoderInv, arguments
  <2>2. VerifyError(encoding) = None
    BY <1>2 DEF DecoderInv, Framed, AfterVerify, Phases
  <2>3. 3 \in 1..(Len(encoding) + 1)
    <3>1. Len(Body) \in Nat /\ Len(encoding) \in Nat /\ Len(Body) <= Len(encoding)
      BY CaseFacts DEF DecoderInv
    <3>2. None # "invalid_magic" /\ None # "truncated"
      BY ErrorAssumption DEF ErrorCodes
    <3>3. ~ Len(Body) < 2
      BY <1>2, <3>2 DEF PrefixError
    <3> QED
      BY <3>1, <3>3
  <2>4. Bounded'
    BY <1>2, <2>1, <2>3 DEF DecoderInv, Bounded, Phases
  <2>5. Framed' /\ ResultInv' /\ FailureInv'
    BY <1>2, <2>1, <2>2 DEF Framed, ResultInv, FailureInv, AfterVerify, AfterPrefix
  <2>6. FieldsInv'
    <3>1. HaveRead(2)'
      <4>1. \A i \in 3..2 : FALSE
        OBVIOUS
      <4> QED
        BY <4>1 DEF HaveRead
    <3>2. position' \in 3..12 /\ position' - 1 = 2 /\ ~ position' > 7
      BY <1>2
    <3>3. HaveRead(position - 1)'
      BY <3>1, <3>2 DEF HaveRead
    <3> QED
      BY <1>2, <2>1, <3>2, <3>3 DEF DecoderInv, FieldsInv, AfterFields
  <2>7. EvidenceInv'
    BY <1>2, <2>1 DEF DecoderInv, EvidenceInv, AfterVerify, AfterResulting, AfterCount,
                      AfterEvidence, AfterFields, Phases
  <2> QED
    BY <2>1, <2>4, <2>5, <2>6, <2>7 DEF DecoderInv
<1> QED
  BY <1>1, <1>2 DEF ReadPrefix

\* No two fields share a local.
LEMMA NamesDiffer ==
  /\ \A i \in 3..12 : /\ Field(i).name \in FieldNames /\ Field(i).name # "resulting"
                      /\ Field(i).name = "target" <=> i = 7
                      /\ Field(i).name = "present" <=> i = 12
                      /\ i > 7 => Field(i).name \notin {"request", "expected",
                                                       "actualPrior", "target"}
  /\ \A i, j \in 3..12 : Field(i).name = Field(j).name => i = j
<1>1. \A i \in 3..12 : \/ i = 3 \/ i = 4 \/ i = 5 \/ i = 6 \/ i = 7
                       \/ i = 8 \/ i = 9 \/ i = 10 \/ i = 11 \/ i = 12
  OBVIOUS
<1>2. ASSUME NEW i \in 3..12
      PROVE  /\ Field(i).name \in FieldNames /\ Field(i).name # "resulting"
             /\ Field(i).name = "target" <=> i = 7
             /\ Field(i).name = "present" <=> i = 12
             /\ i > 7 => Field(i).name \notin {"request", "expected",
                                              "actualPrior", "target"}
  BY <1>1, NameFacts
<1>3. ASSUME NEW i \in 3..12, NEW j \in 3..12, Field(i).name = Field(j).name
      PROVE  i = j
  BY <1>1, <1>3, NameFacts
<1> QED
  BY <1>2, <1>3

\* A field that is read fills its local and no other.
LEMMA ReadFieldKeeps == DecoderInv /\ ReadField => DecoderInv'
<1> SUFFICES ASSUME DecoderInv, ReadField PROVE DecoderInv'
  OBVIOUS
<1> DEFINE error == FieldError(position)
           name == Field(position).name
<1>1. /\ phase = "fields" /\ position \in 3..12 /\ HaveRead(position - 1)
      /\ position > 7 => AuthorityError = None
  BY DEF ReadField, DecoderInv, FieldsInv
<1>2. ASSUME error # None, Fail(error) PROVE DecoderInv'
  <2>1. written = None
    BY <1>1, <1>2, CaseFacts, WrittenReads DEF DecoderInv
  <2> QED
    BY <1>2, <2>1, FailKeeps, ErrorFacts
<1>3. ASSUME error = None, fields' = [fields EXCEPT ![name] = FieldValue(position)],
             position' = position + 1,
             phase' = IF name = "target" THEN "authority"
                      ELSE IF name = "present" THEN "resulting" ELSE "fields",
             UNCHANGED <<arguments, evidence, left, result, code>>
      PROVE  DecoderInv'
  <2>1. /\ FromCase /\ UNCHANGED arguments
        /\ FromCase' /\ Body' = Body /\ encoding' = encoding
        /\ request' = request /\ prior' = prior
        /\ evidence' = evidence /\ left' = left /\ code' = code
    BY <1>3, ArgumentsStay DEF DecoderInv, arguments
  <2>2. phase' = IF position = 7 THEN "authority"
                 ELSE IF position = 12 THEN "resulting" ELSE "fields"
    BY <1>1, <1>3, NamesDiffer
  <2>3. DOMAIN fields = FieldNames /\ DOMAIN fields' = FieldNames
    BY <1>3 DEF DecoderInv, FieldsInv
  <2>4. fields'[name] = FieldValue(position)
    BY <1>1, <1>3, <2>3, NamesDiffer
  <2>5. \A other \in FieldNames : other # name => fields'[other] = fields[other]
    BY <1>3, <2>3
  <2>6. HaveRead(position - 1)' /\ position' - 1 = position
    <3>1. ASSUME NEW i \in 3..position
          PROVE  FieldError(i)' = None /\ fields'[Field(i).name] = FieldValue(i)'
      <4>1. i \in 3..12 /\ (i = position \/ i \in 3..(position - 1))
        BY <1>1
      <4>2. FieldError(i)' = FieldError(i) /\ FieldValue(i)' = FieldValue(i)
        BY <2>1, ArgumentsStay
      <4>3. CASE i = position
        BY <1>3, <2>4, <4>2, <4>3
      <4>4. CASE i \in 3..(position - 1)
        <5>1. FieldError(i) = None /\ fields[Field(i).name] = FieldValue(i)
          BY <1>1, <4>4 DEF HaveRead
        <5>2. i # position
          BY <1>1, <4>4
        <5>3. Field(i).name # name /\ Field(i).name \in FieldNames
          BY <1>1, <4>1, <5>2, NamesDiffer
        <5> QED
          BY <2>5, <4>2, <5>1, <5>3
      <4> QED
        BY <4>1, <4>3, <4>4
    <3>2. position' - 1 = position
      BY <1>1, <1>3
    <3> QED
      BY <3>1, <3>2 DEF HaveRead
  <2>7. position > 7 => AuthorityError' = None
    <3> SUFFICES ASSUME position > 7 PROVE AuthorityError' = AuthorityError
      BY <1>1
    <3>1. /\ name \notin {"request", "expected", "actualPrior", "target"}
      BY <1>1, NamesDiffer
    <3>2. /\ fields'["request"] = fields["request"]
          /\ fields'["expected"] = fields["expected"]
          /\ fields'["actualPrior"] = fields["actualPrior"]
          /\ fields'["target"] = fields["target"]
      BY <2>5, <3>1, NameFacts
    <3> QED
      BY <2>1, <3>2 DEF AuthorityError
  <2>8. Bounded'
    <3>1. position \in 1..Len(Body)
      BY <1>1, <1>3, <2>1, ReadBounds
    <3>2. Len(Body) \in Nat /\ Len(encoding) \in Nat /\ Len(Body) <= Len(encoding)
      BY <2>1, CaseFacts
    <3>3. position' \in 1..(Len(encoding) + 1)
      BY <1>3, <3>1, <3>2
    <3>4. phase' \in {"authority", "resulting", "fields"}
      BY <2>2
    <3> QED
      BY <1>1, <2>1, <3>3, <3>4 DEF DecoderInv, Bounded, Phases
  <2>9. Framed'
    BY <1>1, <2>1 DEF DecoderInv, Framed, AfterVerify, AfterPrefix, Phases
  <2>10. ResultInv' /\ FailureInv'
    BY <2>2 DEF ResultInv, FailureInv
  <2>11. FieldsInv'
    <3>1. CASE position = 7
      <4>1. HaveRead(7)' /\ phase' = "authority" /\ position' = 8
        BY <1>3, <2>2, <2>6, <3>1 DEF HaveRead
      <4> QED
        BY <2>3, <4>1 DEF FieldsInv, AfterFields
    <3>2. CASE position = 12
      <4>1. HaveRead(12)' /\ phase' = "resulting" /\ AuthorityError' = None
        BY <2>2, <2>6, <2>7, <3>2 DEF HaveRead
      <4> QED
        BY <2>3, <4>1 DEF FieldsInv, AfterFields
    <3>3. CASE position # 7 /\ position # 12
      <4>1. phase' = "fields" /\ position' \in 3..12
        BY <1>1, <1>3, <2>2, <3>3
      <4>2. position' > 7 => AuthorityError' = None
        BY <1>1, <1>3, <2>7, <3>3
      <4> QED
        BY <2>3, <2>6, <4>1, <4>2 DEF FieldsInv, AfterFields
    <3> QED
      BY <3>1, <3>2, <3>3
  <2>12. EvidenceInv'
    <3>1. phase' = "resulting" => position' = 13
      BY <1>3, <2>2
    <3>2. evidence = <<>>
      BY <1>1 DEF DecoderInv, EvidenceInv, AfterVerify, AfterCount, AfterResulting,
                  AfterFields, Phases
    <3> QED
      BY <2>1, <2>2, <3>1, <3>2 DEF EvidenceInv, AfterVerify, AfterResulting, AfterCount,
                                    AfterEvidence, AfterFields
  <2> QED
    BY <2>1, <2>8, <2>9, <2>10, <2>11, <2>12 DEF DecoderInv
<1> QED
  BY <1>2, <1>3 DEF ReadField

\* The authority check refuses only what belongs elsewhere, and by its name.
LEMMA CheckAuthorityKeeps == DecoderInv /\ CheckAuthority => DecoderInv'
<1> SUFFICES ASSUME DecoderInv, CheckAuthority PROVE DecoderInv'
  OBVIOUS
<1>1. /\ phase = "authority" /\ position = 8 /\ HaveRead(7) /\ FromCase
  BY DEF CheckAuthority, DecoderInv, FieldsInv
<1>2. ASSUME AuthorityError # None, Fail(AuthorityError) PROVE DecoderInv'
  <2>1. ASSUME written # None PROVE RefusedRightly(AuthorityError)
    <3>1. /\ fields.request = written.request /\ fields.expected = written.expected
          /\ fields.actualPrior = written.actualPrior /\ fields.target = written.target
          /\ written \in ReceiptRecord /\ request \in Requests /\ prior \in Snapshots
      BY <1>1, <2>1, WrittenLocals, CaseFacts
    <3>2. ~CouldBeIssued(written, request, prior)
      <4> SUFFICES ASSUME CouldBeIssued(written, request, prior) PROVE FALSE
        OBVIOUS
      <4>1. /\ written.request = RequestIdentity(request)
            /\ written.expected = request.expected
            /\ written.actualPrior = SnapshotIdentity(prior)
            /\ written.target = request.target /\ prior.target = request.target
        BY <3>1, IssuedFacts
      <4> QED
        BY <1>2, <3>1, <4>1 DEF AuthorityError
    <3>3. written.request # RequestIdentity(request) =>
            AuthorityError = "request_mismatch"
      BY <3>1 DEF AuthorityError
    <3>4. written.request = RequestIdentity(request)
            /\ written.expected = request.expected
            /\ written.actualPrior # SnapshotIdentity(prior)
          => AuthorityError = "actual_prior_mismatch"
      BY <3>1 DEF AuthorityError
    <3> QED
      BY <3>2, <3>3, <3>4 DEF RefusedRightly
  <2> QED
    BY <1>2, <2>1, FailKeeps, ErrorFacts
<1>3. ASSUME AuthorityError = None, phase' = "fields",
             UNCHANGED <<arguments, position, fields, evidence, left, result, code>>
      PROVE  DecoderInv'
  <2>1. /\ FromCase' /\ Body' = Body /\ encoding' = encoding /\ fields' = fields
        /\ UNCHANGED <<arguments, fields>>
        /\ position' = position /\ evidence' = evidence /\ left' = left /\ code' = code
    BY <1>1, <1>3, ArgumentsStay DEF arguments
  <2>2. Bounded' /\ Framed'
    BY <1>1, <1>3, <2>1 DEF DecoderInv, Bounded, Framed, Phases, AfterVerify, AfterPrefix
  <2>3. ResultInv' /\ FailureInv'
    BY <1>3 DEF ResultInv, FailureInv
  <2>4. FieldsInv'
    <3>1. HaveRead(7)' /\ AuthorityError' = AuthorityError
      BY <1>1, <2>1, LocalsStay
    <3>2. position' = 8 /\ position' - 1 = 7
      BY <1>1, <2>1
    <3>3. HaveRead(position - 1)'
      BY <3>1, <3>2 DEF HaveRead
    <3>4. DOMAIN fields' = FieldNames
      BY <2>1 DEF DecoderInv, FieldsInv
    <3> QED
      BY <1>3, <3>1, <3>2, <3>3, <3>4 DEF FieldsInv, AfterFields
  <2>5. EvidenceInv'
    BY <1>1, <1>3, <2>1 DEF DecoderInv, EvidenceInv, AfterVerify, AfterResulting,
                            AfterCount, AfterEvidence, AfterFields, Phases
  <2> QED
    BY <2>1, <2>2, <2>3, <2>4, <2>5 DEF DecoderInv
<1> QED
  BY <1>2, <1>3 DEF CheckAuthority

\* The optional resulting snapshot moves the place of the count.
LEMMA ReadResultingKeeps == DecoderInv /\ ReadResulting => DecoderInv'
<1> SUFFICES ASSUME DecoderInv, ReadResulting PROVE DecoderInv'
  OBVIOUS
<1> DEFINE error == IF fields.present
                    THEN TokenError(Body, position, <<"bytes", "digest">>) ELSE None
<1>1. /\ phase = "resulting" /\ position = 13 /\ HaveRead(12) /\ FromCase
      /\ AuthorityError = None /\ evidence = <<>>
  BY DEF ReadResulting, DecoderInv, FieldsInv, EvidenceInv, AfterFields, AfterVerify,
         AfterCount, AfterResulting, Phases
<1>2. ASSUME error # None, Fail(error) PROVE DecoderInv'
  <2>1. ASSUME written # None PROVE FALSE
    <3>1. fields.present /\ TokenError(Body, 13, <<"bytes", "digest">>) # None
      BY <1>1, <1>2
    <3>2. written.resulting # None
      BY <1>1, <2>1, <3>1, WrittenLocals
    <3> QED
      BY <1>1, <2>1, <3>1, <3>2, WrittenLocals, WrittenReads
  <2> QED
    BY <1>2, <2>1, FailKeeps, ErrorFacts
<1>3. ASSUME error = None,
             fields' = [fields EXCEPT !.resulting =
                          IF fields.present THEN ValueAt(Body, position) ELSE None],
             position' = IF fields.present THEN position + 1 ELSE position,
             phase' = "count",
             UNCHANGED <<arguments, evidence, left, result, code>>
      PROVE  DecoderInv'
  <2>1. /\ FromCase' /\ Body' = Body /\ encoding' = encoding /\ UNCHANGED arguments
        /\ request' = request /\ prior' = prior
        /\ evidence' = evidence /\ left' = left /\ code' = code
    BY <1>1, <1>3, ArgumentsStay DEF arguments
  <2>2. DOMAIN fields = FieldNames /\ DOMAIN fields' = FieldNames
    BY <1>3 DEF DecoderInv, FieldsInv
  <2>3. \A name \in FieldNames : name # "resulting" => fields'[name] = fields[name]
    BY <1>3, <2>2
  <2>4. fields'["resulting"] = IF fields.present THEN ValueAt(Body, 13) ELSE None
    BY <1>1, <1>3, <2>2, NameFacts
  <2>5. /\ fields'["present"] = fields["present"]
        /\ fields'["request"] = fields["request"]
        /\ fields'["expected"] = fields["expected"]
        /\ fields'["actualPrior"] = fields["actualPrior"]
        /\ fields'["target"] = fields["target"]
    BY <2>3, NameFacts
  <2>6. HaveRead(12)'
    <3> SUFFICES ASSUME NEW i \in 3..12
                 PROVE  FieldError(i)' = None /\ fields'[Field(i).name] = FieldValue(i)'
      BY DEF HaveRead
    <3>1. FieldError(i)' = FieldError(i) /\ FieldValue(i)' = FieldValue(i)
      BY <1>1, <2>1, ArgumentsStay
    <3>2. FieldError(i) = None /\ fields[Field(i).name] = FieldValue(i)
      BY <1>1 DEF HaveRead
    <3>3. fields'[Field(i).name] = fields[Field(i).name]
      BY <2>3, NamesDiffer
    <3> QED
      BY <3>1, <3>2, <3>3
  <2>7. AuthorityError' = None
    BY <1>1, <2>1, <2>5 DEF AuthorityError
  <2>8. CountAt' = CountAt /\ position' = CountAt'
    <3>1. CountAt' = CountAt
      BY <2>5 DEF CountAt
    <3>2. position' = IF fields.present THEN 14 ELSE 13
      BY <1>1, <1>3
    <3> QED
      BY <3>1, <3>2 DEF CountAt
  <2>9. ResultingRead'
    <3>1. fields.present => TokenError(Body, 13, <<"bytes", "digest">>) = None
      BY <1>1, <1>3
    <3> QED
      BY <2>1, <2>4, <2>5, <3>1 DEF ResultingRead
  <2>10. Bounded'
    <3>1. Len(Body) \in Nat /\ Len(encoding) \in Nat /\ Len(Body) <= Len(encoding)
      BY <1>1, CaseFacts
    <3>2. position \in 1..(Len(encoding) + 1)
      BY DEF DecoderInv, Bounded
    <3>3. fields.present => 13 \in 1..Len(Body)
      BY <1>1, <1>3, ReadBounds
    <3>4. position' \in 1..(Len(encoding) + 1)
      BY <1>1, <1>3, <3>1, <3>2, <3>3
    <3> QED
      BY <1>1, <1>3, <2>1, <3>4 DEF DecoderInv, Bounded, Phases
  <2>11. Framed'
    BY <1>1, <1>3, <2>1 DEF DecoderInv, Framed, AfterVerify, AfterPrefix, Phases
  <2>12. ResultInv' /\ FailureInv'
    BY <1>3 DEF ResultInv, FailureInv
  <2>13. FieldsInv'
    BY <1>3, <2>2, <2>6, <2>7 DEF FieldsInv, AfterFields
  <2>14. EvidenceInv'
    BY <1>1, <1>3, <2>1, <2>8, <2>9 DEF EvidenceInv, AfterVerify, AfterResulting,
                                        AfterCount, AfterEvidence, AfterFields, Phases
  <2> QED
    BY <2>1, <2>10, <2>11, <2>12, <2>13, <2>14 DEF DecoderInv
<1> QED
  BY <1>2, <1>3 DEF ReadResulting

\* What holds from the count on.
LEMMA TailFacts ==
  ASSUME DecoderInv, phase \in AfterResulting
  PROVE  /\ FromCase /\ HaveRead(12) /\ AuthorityError = None /\ ResultingRead
         /\ CountAt \in 13..14 /\ DOMAIN fields = FieldNames
         /\ VerifyError(encoding) = None
         /\ PrefixError(Body, "receipt", ReceiptVersion) = None
<1>1. phase \in AfterFields /\ phase \in AfterVerify /\ phase \in AfterPrefix
  BY DEF AfterResulting, AfterFields, AfterVerify, AfterPrefix, Phases
<1> QED
  BY <1>1 DEF DecoderInv, FieldsInv, Framed, EvidenceInv, CountAt

\* Steps of the tail leave what was read before alone.
LEMMA TailStays ==
  ASSUME DecoderInv, phase \in AfterResulting, phase' \in AfterResulting,
         UNCHANGED <<arguments, fields, code>>
  PROVE  /\ FromCase' /\ Framed' /\ FieldsInv' /\ FailureInv'
         /\ ResultingRead' /\ Body' = Body /\ CountAt' = CountAt
         /\ encoding' = encoding
<1>1. /\ UNCHANGED arguments /\ UNCHANGED <<arguments, fields>> /\ fields' = fields
      /\ encoding' = encoding
  BY DEF arguments
<1>2. FromCase' /\ Body' = Body
  BY <1>1, TailFacts, ArgumentsStay
<1>3. HaveRead(12)' /\ AuthorityError' = None /\ CountAt' = CountAt /\ ResultingRead'
  BY <1>1, TailFacts, LocalsStay
<1>4. Framed'
  BY <1>1, <1>2, TailFacts DEF Framed
<1>5. phase' \notin {"fields", "authority", "failed"}
  BY DEF AfterResulting, AfterFields
<1>6. FieldsInv'
  BY <1>1, <1>3, <1>5, TailFacts DEF FieldsInv
<1>7. FailureInv'
  BY <1>5 DEF FailureInv
<1> QED
  BY <1>1, <1>2, <1>3, <1>4, <1>6, <1>7

\* The count is bounded before the loop starts.
LEMMA ReadCountKeeps == DecoderInv /\ ReadCount => DecoderInv'
<1> SUFFICES ASSUME DecoderInv, ReadCount PROVE DecoderInv'
  OBVIOUS
<1> DEFINE error == CountError(Body, position)
<1>1. /\ phase = "count" /\ phase \in AfterResulting /\ position = CountAt
      /\ evidence = <<>>
  BY DEF ReadCount, DecoderInv, EvidenceInv, AfterVerify, AfterCount, AfterResulting,
         AfterFields, Phases
<1>2. ASSUME error # None, Fail(error) PROVE DecoderInv'
  <2>1. ASSUME written # None PROVE FALSE
    <3>1. CountAt = WrittenCountAt(written)
      BY <1>1, <2>1, TailFacts, WrittenLocals
    <3> QED
      BY <1>1, <1>2, <2>1, <3>1, TailFacts, WrittenLocals, WrittenReads
  <2> QED
    BY <1>2, <2>1, FailKeeps, ErrorFacts
<1>3. ASSUME error = None, left' = ValueAt(Body, position), position' = position + 1,
             phase' = "evidence",
             UNCHANGED <<arguments, fields, evidence, result, code>>
      PROVE  DecoderInv'
  <2>1. phase' \in AfterResulting
    BY <1>3 DEF AfterResulting, AfterFields
  <2>2. /\ FromCase' /\ Framed' /\ FieldsInv' /\ FailureInv'
        /\ ResultingRead' /\ Body' = Body /\ CountAt' = CountAt /\ encoding' = encoding
    BY <1>1, <1>3, <2>1, TailStays
  <2>3. /\ CountAt \in 1..Len(Body)
        /\ ValueAt(Body, CountAt) \in Nat /\ ValueAt(Body, CountAt) <= MaxCount
    <3>1. CountAt \in Nat \ {0}
      BY <1>1, TailFacts
    <3> QED
      BY <1>1, <1>3, <3>1, TailFacts, ReadBounds
  <2>4. Bounded'
    <3>1. Len(Body) \in Nat /\ Len(encoding) \in Nat /\ Len(Body) <= Len(encoding)
      BY <1>1, TailFacts, CaseFacts
    <3>2. position' \in 1..(Len(encoding) + 1)
      BY <1>1, <1>3, <2>3, <3>1
    <3>3. left' \in 0..MaxCount
      BY <1>1, <1>3, <2>3, RecordAssumption
    <3> QED
      BY <1>1, <1>3, <2>2, <3>2, <3>3 DEF DecoderInv, Bounded, Phases
  <2>5. ResultInv'
    BY <1>3 DEF ResultInv
  <2>6. EvidenceInv'
    <3>1. Len(evidence') = 0
      BY <1>1, <1>3
    <3>2. EvidenceRead'
      <4>1. \A k \in 1..Len(evidence') : FALSE
        BY <3>1
      <4> QED
        BY <4>1 DEF EvidenceRead
    <3>3. CountError(Body', CountAt') = None
      BY <1>1, <1>3, <2>2
    <3>4. Len(evidence') + left' = ValueAt(Body', CountAt')
      BY <1>1, <1>3, <2>2, <2>3, <3>1
    <3>5. position' = CountAt' + 1 + Len(evidence')
      BY <1>1, <1>3, <2>2, <2>3, <3>1
    <3> QED
      BY <1>3, <2>2, <3>2, <3>3, <3>4, <3>5
         DEF EvidenceInv, AfterVerify, AfterResulting, AfterCount, AfterEvidence, AfterFields
  <2> QED
    BY <2>2, <2>4, <2>5, <2>6 DEF DecoderInv
<1> QED
  BY <1>2, <1>3 DEF ReadCount

\* The evidence loop, between two elements.
LEMMA LoopFacts ==
  ASSUME DecoderInv, phase \in AfterCount
  PROVE  /\ phase \in AfterResulting
         /\ CountError(Body, CountAt) = None /\ EvidenceRead
         /\ evidence \in Seq(Evidence) /\ Len(evidence) \in Nat
         /\ ValueAt(Body, CountAt) \in Nat /\ ValueAt(Body, CountAt) <= MaxCount
         /\ Len(Body) \in Nat /\ Len(encoding) \in Nat /\ Len(Body) <= Len(encoding)
<1>1. phase \in AfterResulting
  BY DEF AfterCount
<1>2. CountError(Body, CountAt) = None /\ EvidenceRead
  BY DEF DecoderInv, EvidenceInv
<1>3. evidence \in Seq(Evidence)
  BY DEF DecoderInv, Bounded
<1>4. Len(evidence) \in Nat
  BY <1>3
<1>5. ValueAt(Body, CountAt) \in Nat /\ ValueAt(Body, CountAt) <= MaxCount
  <2>1. CountAt \in Nat \ {0}
    BY <1>1, TailFacts
  <2> QED
    BY <1>1, <1>2, <2>1, TailFacts, ReadBounds
<1> QED
  BY <1>1, <1>2, <1>3, <1>4, <1>5, TailFacts, CaseFacts

\* The evidence of an encoded receipt is read in the order it was written in.
LEMMA WrittenEvidence ==
  ASSUME DecoderInv, phase \in AfterCount, written # None
  PROVE  /\ ValueAt(Body, CountAt) = Cardinality(written.evidence)
         /\ CountAt = WrittenCountAt(written)
         /\ Len(Body) = CountAt + Cardinality(written.evidence)
         /\ \A k \in 1..Cardinality(written.evidence) :
              /\ TokenError(Body, CountAt + k, <<"bytes", "digest">>) = None
              /\ ValueAt(Body, CountAt + k) = InByteOrder(written.evidence)[k]
<1>1. CountAt = WrittenCountAt(written)
  BY LoopFacts, TailFacts, WrittenLocals
<1>2. /\ written \in ReceiptRecord /\ Sealable(ReceiptBody(written))
      /\ encoding = EncodeReceipt(written)
  BY LoopFacts, TailFacts, WrittenLocals
<1> QED
  BY <1>1, <1>2, WrittenReads

\* Each turn of the loop reads one identity and counts it off.
LEMMA ReadEvidenceKeeps == DecoderInv /\ ReadEvidence => DecoderInv'
<1> SUFFICES ASSUME DecoderInv, ReadEvidence PROVE DecoderInv'
  OBVIOUS
<1> DEFINE error == TokenError(Body, position, <<"bytes", "digest">>)
           n == Len(evidence)
<1>1. /\ phase = "evidence" /\ phase \in AfterCount /\ left > 0
      /\ n + left = ValueAt(Body, CountAt) /\ position = CountAt + 1 + n
      /\ left \in 0..MaxCount /\ n <= MaxCount
  BY DEF ReadEvidence, DecoderInv, EvidenceInv, Bounded, AfterCount, AfterResulting,
         AfterFields
<1>2. n \in Nat /\ CountAt \in 13..14 /\ FromCase /\ phase \in AfterResulting
  BY <1>1, LoopFacts, TailFacts
<1>3. ASSUME error # None, Fail(error) PROVE DecoderInv'
  <2>1. ASSUME written # None PROVE FALSE
    <3>1. n + 1 \in 1..ValueAt(Body, CountAt) /\ position = CountAt + (n + 1)
      BY <1>1, <1>2, RecordAssumption
    <3> QED
      BY <1>1, <1>3, <2>1, <3>1, WrittenEvidence
  <2> QED
    BY <1>3, <2>1, FailKeeps, ErrorFacts
<1>4. ASSUME error = None, evidence' = Append(evidence, ValueAt(Body, position)),
             position' = position + 1, left' = left - 1,
             UNCHANGED <<arguments, phase, fields, result, code>>
      PROVE  DecoderInv'
  <2>1. phase' = "evidence" /\ phase' \in AfterResulting
    BY <1>1, <1>2, <1>4
  <2>2. /\ FromCase' /\ Framed' /\ FieldsInv' /\ FailureInv'
        /\ ResultingRead' /\ Body' = Body /\ CountAt' = CountAt /\ encoding' = encoding
    BY <1>2, <1>4, <2>1, TailStays
  <2>3. position \in Nat \ {0} /\ position > 13
    BY <1>1, <1>2
  <2>4. position \in 1..Len(Body) /\ ValueAt(Body, position) \in Evidence
    BY <1>2, <1>4, <2>3, ReadBounds
  <2>5. PICK x : x = ValueAt(Body, position)
    OBVIOUS
  <2>6. evidence' = Append(evidence, x) /\ x \in Evidence /\ evidence \in Seq(Evidence)
    BY <1>1, <1>4, <2>4, <2>5, LoopFacts
  <2>7. /\ evidence' \in Seq(Evidence) /\ Len(evidence') = Len(evidence) + 1
        /\ evidence'[Len(evidence) + 1] = x
        /\ \A k \in 1..Len(evidence) : evidence'[k] = evidence[k]
    BY <2>6
  <2>8. Bounded'
    <3>1. Len(Body) \in Nat /\ Len(encoding) \in Nat /\ Len(Body) <= Len(encoding)
      BY <1>1, LoopFacts
    <3>2. position' \in 1..(Len(encoding) + 1)
      BY <1>4, <2>4, <3>1
    <3>3. left' \in 0..MaxCount
      BY <1>1, <1>4, RecordAssumption
    <3>4. Len(evidence') <= MaxCount
      <4>1. ValueAt(Body, CountAt) <= MaxCount
        BY <1>1, LoopFacts
      <4>2. n + 1 <= ValueAt(Body, CountAt)
        BY <1>1, <1>2
      <4> QED
        BY <1>1, <1>2, <2>7, <4>1, <4>2, RecordAssumption
    <3> QED
      BY <1>4, <2>1, <2>2, <2>7, <3>2, <3>3, <3>4 DEF DecoderInv, Bounded, Phases
  <2>9. ResultInv'
    BY <2>1 DEF ResultInv
  <2>10. EvidenceInv'
    <3>1. EvidenceRead'
      <4> SUFFICES ASSUME NEW k \in 1..Len(evidence')
                   PROVE  evidence'[k] = ValueAt(Body', CountAt' + k)
        BY DEF EvidenceRead
      <4>1. k \in 1..(n + 1)
        BY <2>7
      <4>2. CASE k = n + 1
        <5>1. CountAt + k = position
          BY <1>1, <1>2, <4>2
        <5> QED
          BY <2>2, <2>5, <2>7, <4>2, <5>1
      <4>3. CASE k \in 1..n
        BY <1>1, <2>2, <2>7, <4>3, LoopFacts DEF EvidenceRead
      <4> QED
        BY <1>2, <4>1, <4>2, <4>3
    <3>2. CountError(Body', CountAt') = None
      BY <1>1, <2>2, LoopFacts
    <3>3. Len(evidence') + left' = ValueAt(Body', CountAt')
      BY <1>1, <1>2, <1>4, <2>2, <2>7
    <3>4. position' = CountAt' + 1 + Len(evidence')
      BY <1>1, <1>2, <1>4, <2>2, <2>7
    <3> QED
      BY <2>1, <2>2, <3>1, <3>2, <3>3, <3>4
         DEF EvidenceInv, AfterVerify, AfterResulting, AfterCount, AfterEvidence, AfterFields
  <2> QED
    BY <2>2, <2>8, <2>9, <2>10 DEF DecoderInv
<1> QED
  BY <1>3, <1>4 DEF ReadEvidence

\* After the loop nothing but the verdict changes.
LEMMA VerdictStays ==
  ASSUME DecoderInv, phase \in AfterCount, phase' \in AfterEvidence,
         Len(evidence) = ValueAt(Body, CountAt),
         UNCHANGED <<arguments, position, fields, evidence, left, code>>
  PROVE  /\ FromCase' /\ Framed' /\ FieldsInv' /\ FailureInv' /\ Bounded' /\ EvidenceInv'
         /\ encoding' = encoding /\ request' = request /\ prior' = prior
         /\ fields' = fields /\ evidence' = evidence
<1>1. /\ phase \in AfterResulting /\ phase' \in AfterResulting
      /\ UNCHANGED <<arguments, fields, code>>
      /\ request' = request /\ prior' = prior /\ fields' = fields /\ evidence' = evidence
      /\ position' = position /\ left' = left /\ code' = code
  BY LoopFacts DEF AfterEvidence, AfterCount, arguments
<1>2. /\ FromCase' /\ Framed' /\ FieldsInv' /\ FailureInv'
      /\ ResultingRead' /\ Body' = Body /\ CountAt' = CountAt /\ encoding' = encoding
  BY <1>1, TailStays
<1>3. Bounded'
  <2>1. phase # "failed" /\ phase' # "failed" /\ phase' \in Phases
    BY <1>1 DEF AfterResulting, AfterFields, Phases
  <2> QED
    BY <1>1, <1>2, <2>1 DEF DecoderInv, Bounded
<1>4. EvidenceInv'
  <2>1. CountError(Body', CountAt') = None
    BY <1>2, LoopFacts
  <2>2. EvidenceRead'
    BY <1>1, <1>2, LoopFacts DEF EvidenceRead
  <2>3. phase' \notin {"verify", "resulting", "count", "evidence"}
    BY DEF AfterEvidence, AfterCount, AfterResulting, AfterFields, Phases
  <2>4. phase' \in AfterCount
    BY DEF AfterEvidence
  <2> QED
    BY <1>1, <1>2, <2>1, <2>2, <2>3, <2>4 DEF EvidenceInv
<1> QED
  BY <1>1, <1>2, <1>3, <1>4

\* An intact record ends where its evidence does.
LEMMA FinishKeeps == DecoderInv /\ Finish => DecoderInv'
<1> SUFFICES ASSUME DecoderInv, Finish PROVE DecoderInv'
  OBVIOUS
<1> DEFINE error == FinishError(Body, position)
<1>1. /\ phase = "evidence" /\ phase \in AfterCount /\ left = 0
      /\ Len(evidence) + left = ValueAt(Body, CountAt)
      /\ position = CountAt + 1 + Len(evidence)
  BY DEF Finish, DecoderInv, EvidenceInv, AfterCount, AfterResulting, AfterFields
<1>2. /\ Len(evidence) \in Nat /\ CountAt \in 13..14 /\ FromCase
      /\ phase \in AfterResulting /\ Len(evidence) = ValueAt(Body, CountAt)
  BY <1>1, LoopFacts, TailFacts
<1>3. ASSUME error # None, Fail(error) PROVE DecoderInv'
  <2>1. ASSUME written # None PROVE FALSE
    <3>1. Len(Body) = CountAt + Len(evidence)
      BY <1>1, <1>2, <2>1, WrittenEvidence
    <3>2. position = Len(Body) + 1
      BY <1>1, <1>2, <3>1
    <3> QED
      BY <1>3, <3>2 DEF FinishError
  <2> QED
    BY <1>3, <2>1, FailKeeps, ErrorFacts
<1>4. ASSUME error = None, phase' = "rebuild",
             UNCHANGED <<arguments, position, fields, evidence, left, result, code>>
      PROVE  DecoderInv'
  <2>1. phase' \in AfterEvidence
    BY <1>4 DEF AfterEvidence, AfterCount, AfterResulting, AfterFields
  <2>2. FromCase' /\ Framed' /\ FieldsInv' /\ FailureInv' /\ Bounded' /\ EvidenceInv'
    BY <1>1, <1>2, <1>4, <2>1, VerdictStays
  <2>3. ResultInv'
    BY <1>4 DEF ResultInv
  <2> QED
    BY <2>2, <2>3 DEF DecoderInv
<1> QED
  BY <1>3, <1>4 DEF Finish

\* When all is read, the receipt that was encoded is in the locals.
LEMMA WrittenIsRead ==
  ASSUME DecoderInv, phase \in AfterEvidence, written # None
  PROVE  /\ written \in ReceiptRecord /\ encoding = EncodeReceipt(written)
         /\ fields.identity = PublicationReceiptIdentity(written)
         /\ fields.request = written.request /\ fields.expected = written.expected
         /\ fields.actualPrior = written.actualPrior /\ fields.target = written.target
         /\ fields.format = written.format /\ fields.outcome = written.outcome
         /\ fields.durability = written.durability
         /\ fields.atomicity = written.atomicity
         /\ fields.resulting = written.resulting
         /\ evidence = InByteOrder(written.evidence)
<1>1. phase \in AfterCount /\ phase \in AfterResulting
  BY LoopFacts DEF AfterEvidence
<1>2. FromCase /\ HaveRead(12) /\ ResultingRead /\ HaveRead(7)
  BY <1>1, TailFacts, LocalFacts
<1>3. /\ written \in ReceiptRecord /\ Sealable(ReceiptBody(written))
      /\ encoding = EncodeReceipt(written)
      /\ fields.present = (written.resulting # None)
  BY <1>2, WrittenLocals
<1>4. fields.resulting = written.resulting
  <2>1. written.resulting # None => ValueAt(Body, 13) = written.resulting
    BY <1>3, WrittenReads
  <2> QED
    BY <1>2, <1>3, <2>1 DEF ResultingRead
<1>5. evidence = InByteOrder(written.evidence)
  <2> DEFINE n == Cardinality(written.evidence)
             o == InByteOrder(written.evidence)
  <2>1. written.evidence \in SUBSET Evidence
    BY <1>3 DEF ReceiptRecord
  <2>2. o \in Seq(Evidence) /\ DOMAIN o = 1..n /\ n \in Nat
    BY <2>1, InByteOrderFacts
  <2>3. Len(o) = n
    <3> HIDE DEF o, n
    <3> QED
      BY <2>2
  <2>4. Len(evidence) = n
    BY <1>1, WrittenEvidence DEF DecoderInv, EvidenceInv
  <2>5. \A k \in 1..n : evidence[k] = o[k]
    BY <1>1, <2>4, LoopFacts, WrittenEvidence DEF EvidenceRead
  <2>6. evidence \in Seq(Evidence)
    BY <1>1, LoopFacts
  <2> HIDE DEF o, n
  <2>7. evidence = o
    BY <2>2, <2>3, <2>4, <2>5, <2>6
  <2> QED
    BY <2>7 DEF o
<1> QED
  BY <1>2, <1>3, <1>4, <1>5, WrittenLocals

\* The factories rebuild every receipt that could have been issued.
LEMMA IssuedRebuilds ==
  ASSUME DecoderInv, phase \in AfterEvidence, written # None,
         CouldBeIssued(written, request, prior)
  PROVE  Rebuildable
<1>1. /\ written \in ReceiptRecord
      /\ fields.format = written.format /\ fields.outcome = written.outcome
      /\ fields.durability = written.durability
      /\ fields.atomicity = written.atomicity
      /\ fields.resulting = written.resulting
      /\ evidence = InByteOrder(written.evidence)
  BY WrittenIsRead
<1>2. request \in Requests /\ prior \in Snapshots
  BY CaseFacts DEF DecoderInv
<1>3. FieldsAgree
  <2>1. /\ written.durability = DurabilityOf(written.outcome)
        /\ written.atomicity = "none" <=> written.outcome \notin Attempted
        /\ written.outcome \notin Attempted => written.resulting = None
    BY <1>1, <1>2, IssuedFacts
  <2> QED
    BY <1>1, <2>1 DEF FieldsAgree
<1>4. ResultingAgrees
  <2>1. /\ written.resulting = None =>
             written.outcome \notin {"published", "published_durability_unconfirmed"}
        /\ written.resulting # None =>
             /\ ProjectAdmitted(request, prior)
             /\ written.resulting = SnapshotIdentity(Project(request, prior))
    BY <1>1, <1>2, IssuedFacts
  <2> QED
    BY <1>1, <2>1 DEF ResultingAgrees
<1>5. /\ IF written.outcome = "stale_expected_state"
         THEN RequireStale(request, prior) ELSE RequireCurrent(request, prior)
      /\ ReceiptFormatAdmitted(written.format)
  BY <1>1, <1>2, IssuedFacts
<1>6. EvidenceAdmitted(evidence)
  <2>1. written.evidence \in SUBSET Evidence
    BY <1>1 DEF ReceiptRecord
  <2> QED
    BY <1>1, <2>1, InByteOrderFacts DEF EvidenceAdmitted
<1> QED
  BY <1>1, <1>3, <1>4, <1>5, <1>6 DEF Rebuildable

\* No receipt of another request or of another prior snapshot gets this far.
LEMMA PastAuthority ==
  ASSUME DecoderInv, phase \in AfterEvidence, written # None
  PROVE  /\ written.request = RequestIdentity(request)
         /\ written.actualPrior = SnapshotIdentity(prior)
<1>1. AuthorityError = None
  BY LoopFacts, TailFacts DEF AfterEvidence
<1>2. None # "request_mismatch" /\ None # "actual_prior_mismatch"
  BY ErrorAssumption DEF ErrorCodes
<1>3. /\ fields.request = RequestIdentity(request)
      /\ fields.actualPrior = SnapshotIdentity(prior)
  BY <1>1, <1>2 DEF AuthorityError
<1> QED
  BY <1>3, WrittenIsRead

\* The factories refuse no receipt that could have been issued.
LEMMA RebuildKeeps == DecoderInv /\ Rebuild => DecoderInv'
<1> SUFFICES ASSUME DecoderInv, Rebuild PROVE DecoderInv'
  OBVIOUS
<1>1. /\ phase = "rebuild" /\ phase \in AfterEvidence /\ phase \in AfterCount
      /\ Len(evidence) = ValueAt(Body, CountAt)
  BY DEF Rebuild, DecoderInv, EvidenceInv, AfterEvidence, AfterCount, AfterResulting,
         AfterFields
<1>2. ASSUME ~Rebuildable, Fail("invalid_value") PROVE DecoderInv'
  <2>1. ASSUME written # None PROVE RefusedRightly("invalid_value")
    BY <1>1, <1>2, <2>1, IssuedRebuilds, PastAuthority DEF RefusedRightly
  <2> QED
    BY <1>2, <2>1, FailKeeps, ErrorFacts
<1>3. ASSUME Rebuildable,
             result' = ReceiptMake(request, prior, fields.format, fields.outcome,
                                   fields.atomicity, fields.resulting, evidence),
             phase' = "confirm",
             UNCHANGED <<arguments, position, fields, evidence, left, code>>
      PROVE  DecoderInv'
  <2>1. phase' \in AfterEvidence
    BY <1>3 DEF AfterEvidence, AfterCount, AfterResulting, AfterFields
  <2>2. /\ FromCase' /\ Framed' /\ FieldsInv' /\ FailureInv' /\ Bounded' /\ EvidenceInv'
        /\ request' = request /\ prior' = prior /\ fields' = fields /\ evidence' = evidence
    BY <1>1, <1>3, <2>1, VerdictStays
  <2>3. Rebuildable'
    BY <1>3, <2>2 DEF Rebuildable, FieldsAgree, ResultingAgrees
  <2>4. ResultInv'
    BY <1>3, <2>2, <2>3 DEF ResultInv
  <2> QED
    BY <2>2, <2>4 DEF DecoderInv
<1> QED
  BY <1>2, <1>3 DEF Rebuild

\* A receipt that could have been issued is rebuilt as it was.
LEMMA IssuedIsRebuilt ==
  ASSUME DecoderInv, phase \in {"confirm", "accepted"}, written # None,
         CouldBeIssued(written, request, prior)
  PROVE  result = written
<1>1. phase \in AfterEvidence
  BY DEF AfterEvidence, AfterCount, AfterResulting, AfterFields
<1>2. result = ReceiptMake(request, prior, fields.format, fields.outcome,
                           fields.atomicity, fields.resulting, evidence)
  BY DEF DecoderInv, ResultInv
<1>3. /\ written \in ReceiptRecord
      /\ fields.format = written.format /\ fields.outcome = written.outcome
      /\ fields.atomicity = written.atomicity
      /\ fields.resulting = written.resulting
      /\ evidence = InByteOrder(written.evidence)
  BY <1>1, WrittenIsRead
<1>4. request \in Requests /\ prior \in Snapshots
  BY CaseFacts DEF DecoderInv
<1>5. evidence \in Seq(Evidence) /\ Range(evidence) = written.evidence
  <2>1. written.evidence \in SUBSET Evidence
    BY <1>3 DEF ReceiptRecord
  <2> QED
    BY <1>3, <2>1, InByteOrderFacts
<1> QED
  BY <1>2, <1>3, <1>4, <1>5, IssuedIsMade

\* Nor does the comparison with the canonical encoding.
LEMMA ConfirmKeeps == DecoderInv /\ Confirm => DecoderInv'
<1> SUFFICES ASSUME DecoderInv, Confirm PROVE DecoderInv'
  OBVIOUS
<1>1. /\ phase = "confirm" /\ phase \in AfterEvidence /\ phase \in AfterCount
      /\ Len(evidence) = ValueAt(Body, CountAt)
      /\ Rebuildable
      /\ result = ReceiptMake(request, prior, fields.format, fields.outcome,
                              fields.atomicity, fields.resulting, evidence)
  BY DEF Confirm, DecoderInv, EvidenceInv, ResultInv, AfterEvidence, AfterCount,
         AfterResulting, AfterFields
<1>2. ASSUME ConfirmError # None, Fail(ConfirmError) PROVE DecoderInv'
  <2>1. ASSUME written # None PROVE RefusedRightly(ConfirmError)
    <3>1. ASSUME CouldBeIssued(written, request, prior) PROVE FALSE
      <4>1. result = written
        BY <1>1, <2>1, <3>1, IssuedIsRebuilt
      <4>2. /\ fields.identity = PublicationReceiptIdentity(written)
            /\ encoding = EncodeReceipt(written)
        BY <1>1, <2>1, WrittenIsRead
      <4> QED
        BY <1>2, <4>1, <4>2 DEF ConfirmError
    <3> QED
      BY <1>1, <2>1, <3>1, PastAuthority DEF RefusedRightly
  <2> QED
    BY <1>2, <2>1, FailKeeps, ErrorFacts
<1>3. ASSUME ConfirmError = None, phase' = "accepted",
             UNCHANGED <<arguments, position, fields, evidence, left, result, code>>
      PROVE  DecoderInv'
  <2>1. phase' \in AfterEvidence
    BY <1>3 DEF AfterEvidence, AfterCount, AfterResulting, AfterFields
  <2>2. /\ FromCase' /\ Framed' /\ FieldsInv' /\ FailureInv' /\ Bounded' /\ EvidenceInv'
        /\ request' = request /\ prior' = prior /\ fields' = fields /\ evidence' = evidence
        /\ encoding' = encoding /\ result' = result
    BY <1>1, <1>3, <2>1, VerdictStays
  <2>3. Rebuildable'
    BY <1>1, <2>2 DEF Rebuildable, FieldsAgree, ResultingAgrees
  <2>4. ConfirmError' = None
    BY <1>3, <2>2 DEF ConfirmError
  <2>5. ResultInv'
    BY <1>1, <1>3, <2>2, <2>3, <2>4 DEF ResultInv
  <2> QED
    BY <2>2, <2>5 DEF DecoderInv
<1> QED
  BY <1>2, <1>3 DEF Confirm

\* Nothing changes when the call is over.
LEMMA StutterKeeps == DecoderInv /\ UNCHANGED vars => DecoderInv'
BY DEF DecoderInv, vars, arguments, FromCase, Bounded, Framed, FieldsInv, EvidenceInv,
       ResultInv, FailureInv, HaveRead, FieldError, FieldValue, Body, AuthorityError,
       ConfirmError, CountAt, ResultingRead, EvidenceRead, Rebuildable, FieldsAgree,
       ResultingAgrees, MisfiledIsNamed

\* Every phase of decode_state_publication_receipt has established what DecoderInv
\* says of it.
THEOREM DecoderInvariant == Spec => []DecoderInv
<1>1. DecoderInv /\ [Next]_vars => DecoderInv'
  BY VerifyKeeps, ReadPrefixKeeps, ReadFieldKeeps, CheckAuthorityKeeps,
     ReadResultingKeeps, ReadCountKeeps, ReadEvidenceKeeps, FinishKeeps, RebuildKeeps,
     ConfirmKeeps, StutterKeeps DEF Next, Done
<1> QED
  BY DecoderInit, <1>1, PTL DEF Spec

-----------------------------------------------------------------------------
(* The properties of the decoder, for all values of the constants *)

\* What is accepted is a receipt that could have been issued.
LEMMA AcceptedFacts ==
  ASSUME DecoderInv, phase = "accepted"
  PROVE  /\ result \in ReceiptRecord
         /\ CouldBeIssued(result, request, prior)
         /\ encoding = EncodeReceipt(result)
<1>1. phase \in AfterCount /\ phase \in AfterResulting
  BY DEF AfterCount, AfterResulting, AfterFields
<1>2. /\ Rebuildable /\ ConfirmError = None
      /\ result = ReceiptMake(request, prior, fields.format, fields.outcome,
                              fields.atomicity, fields.resulting, evidence)
  BY DEF DecoderInv, ResultInv
<1>3. FromCase /\ HaveRead(12) /\ evidence \in Seq(Evidence)
  BY <1>1, TailFacts, LoopFacts
<1>4. /\ request \in Requests /\ prior \in Snapshots
      /\ fields.format \in Seq(FormatBytes) /\ fields.outcome \in Outcomes
      /\ fields.atomicity \in Boundaries \cup {"none"}
  BY <1>3, CaseFacts, FieldTypes
<1>5. /\ fields.atomicity = "none" <=> fields.outcome \notin Attempted
      /\ fields.outcome \notin Attempted => fields.resulting = None
      /\ fields.resulting = None =>
           fields.outcome \notin {"published", "published_durability_unconfirmed"}
      /\ fields.resulting # None =>
           /\ ProjectAdmitted(request, prior)
           /\ fields.resulting = SnapshotIdentity(Project(request, prior))
      /\ IF fields.outcome = "stale_expected_state"
         THEN RequireStale(request, prior) ELSE RequireCurrent(request, prior)
      /\ ReceiptFormatAdmitted(fields.format)
  BY <1>2 DEF Rebuildable, FieldsAgree, ResultingAgrees
<1>6. CouldBeIssued(result, request, prior)
  BY <1>2, <1>3, <1>4, <1>5, MadeCouldBeIssued
<1>7. result \in ReceiptRecord
  <2>1. fields.resulting \in SnapshotIdentities \cup {None}
    <3>1. ASSUME fields.resulting # None PROVE fields.resulting \in SnapshotIdentities
      <4>1. Project(request, prior) \in Snapshots
        BY <1>4, <1>5, <3>1, ProjectType
      <4> QED
        BY <1>5, <3>1, <4>1 DEF Snapshots, SnapshotIdentities
    <3> QED
      BY <3>1
  <2> QED
    BY <1>2, <1>3, <1>4, <2>1, ReceiptType
<1>8. encoding = EncodeReceipt(result)
  <2>1. None # "identity_mismatch" /\ None # "invalid_value"
    BY ErrorAssumption DEF ErrorCodes
  <2> QED
    BY <1>2, <2>1 DEF ConfirmError
<1> QED
  BY <1>6, <1>7, <1>8

\* The cursor stays in the record, no more evidence than the bound is kept, a code is
\* raised exactly on failure and what is accepted is a receipt.
THEOREM DecoderTypeCorrect == Spec => []DecoderTypeOK
<1>1. DecoderInv => DecoderTypeOK
  BY AcceptedFacts DEF DecoderInv, Bounded, DecoderTypeOK
<1> QED
  BY DecoderInvariant, <1>1, PTL

\* Whatever is decoded, whoever wrote it: an accepted record is the one encoding
\* of a receipt that could have been issued for this request and prior snapshot.
THEOREM AcceptedIsIssuable == Spec => []OnlyIssuableAccepted
<1>1. DecoderInv => OnlyIssuableAccepted
  BY AcceptedFacts DEF OnlyIssuableAccepted
<1> QED
  BY DecoderInvariant, <1>1, PTL

\* A receipt issued for this request and prior snapshot survives the round trip.
THEOREM RoundTripHolds == Spec => []RoundTrip
<1>1. DecoderInv => RoundTrip
  <2> SUFFICES ASSUME DecoderInv, written # None, CouldBeIssued(written, request, prior)
               PROVE  phase # "failed" /\ (phase = "accepted" => result = written)
    BY DEF RoundTrip
  <2>1. phase # "failed"
    BY DEF DecoderInv, FailureInv
  <2> QED
    BY <2>1, IssuedIsRebuilt
<1> QED
  BY DecoderInvariant, <1>1, PTL

\* An intact receipt of another request, or of another actual prior snapshot, is
\* refused by that name.
THEOREM MisfiledNamed == Spec => []MisfiledIsNamed
<1>1. DecoderInv => MisfiledIsNamed
  BY DEF DecoderInv, FailureInv, MisfiledIsNamed
<1> QED
  BY DecoderInvariant, <1>1, PTL

=============================================================================

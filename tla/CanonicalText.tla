----------------------------- MODULE CanonicalText -----------------------------
(***************************************************************************)
(* The byte strings that state values hold, and the checks their           *)
(* constructors make.  A string is a short sequence over one byte of each  *)
(* class a check tells apart; a digest string is one opaque value.  All    *)
(* digest strings sort alike, after the letters: an instance puts at most  *)
(* one of them in a sorted vector.                                         *)
(***************************************************************************)
EXTENDS Sequences, SequencesExt, Integers, TLC

\* The byte classes, in byte order.
ByteOrder ==
  <<"nul", "tab", "lf", "cr", ".", "/", "1", ":", "@", "a", "b", "digest", "del">>

\* What a string is made of; a digest string is opaque.
Byte == ToSet(ByteOrder) \ {"digest"}

\* "v1:sha256:..." of anything at all: no domain is written beside the value.
DigestText(identity) == <<"digest", identity>>

IsDigest(s) == s # <<>> /\ Head(s) = "digest"

Holds(s, bytes) == ~IsDigest(s) /\ \E i \in DOMAIN s : s[i] \in bytes

-----------------------------------------------------------------------------

LineSafe(s) == s # <<>> /\ ~Holds(s, {"nul", "tab", "lf", "cr", "del"})

\* Descriptions and programs may hold tabs and line feeds.
TextSafe(s) == s # <<>> /\ ~Holds(s, {"nul", "cr", "del"})

VersionSafe(s) == LineSafe(s) /\ ~Holds(s, {"/"})

Letters == {"a", "b"}

\* canonical_atom: a letter, then letters, digits and a few signs.
PackageAtom(s) ==
  /\ s # <<>> /\ ~IsDigest(s)
  /\ Head(s) \in Letters
  /\ \A i \in DOMAIN s : s[i] \in Letters \cup {"1", "."}

ProfileAtom(s) == s # <<>> /\ Head(s) = "@" /\ PackageAtom(Tail(s))

-----------------------------------------------------------------------------
(* What a path is: the components that name an object *)

\* A piece of s begins at i, behind a separator or at the front.
Begins(s, i) == i = 1 \/ s[i - 1] = "/"

\* Where what begins at i ends: at the next separator, or behind s.
EndOf(s, i) ==
  CHOOSE j \in i..(Len(s) + 1) :
    /\ j > Len(s) \/ s[j] = "/"
    /\ \A k \in i..(j - 1) : s[k] # "/"

PieceAt(s, i) == SubSeq(s, i, EndOf(s, i) - 1)

\* The component that begins at i, if one does: no piece that names nothing.
ComponentAt(s, i) ==
  IF Begins(s, i) /\ PieceAt(s, i) \notin {<<>>, <<".">>} THEN <<PieceAt(s, i)>> ELSE <<>>

Components(s) == FlattenSeq([i \in 1..(Len(s) + 1) |-> ComponentAt(s, i)])

\* A relative path to some object that never leaves the root.
Parsable(s) ==
  \/ IsDigest(s)
  \/ /\ s # <<>> /\ Head(s) # "/"
     /\ ~Holds(s, {"nul", "lf", "cr"})
     /\ Components(s) # <<>>
     /\ \A k \in DOMAIN Components(s) : Components(s)[k] # <<".", ".">>

Joined(cs) ==
  FlattenSeq([k \in DOMAIN cs |-> IF k = 1 THEN cs[k] ELSE <<"/">> \o cs[k]])

\* The one spelling of the path s denotes.
Normalized(s) == IF IsDigest(s) THEN s ELSE Joined(Components(s))

-----------------------------------------------------------------------------
(* The order of strings, and of vectors sorted by a tuple of strings *)

\* Lexicographic: at the first place where they differ s ends or is smaller.
Lexicographic(s, t, Less(_, _)) ==
  \E i \in 1..Len(t) :
    /\ i <= Len(s) + 1
    /\ i <= Len(s) => Less(s[i], t[i])
    /\ \A j \in 1..(i - 1) : s[j] = t[j]

StringKey(s) ==
  IF IsDigest(s) THEN <<12>>
  ELSE [i \in DOMAIN s |-> CHOOSE n \in DOMAIN ByteOrder : ByteOrder[n] = s[i]]

KeyLess(k, l) ==
  Lexicographic(k, l, LAMBDA s, t : Lexicographic(s, t, LAMBDA m, n : m < n))

SortedBy(seq, Key(_)) == SortSeq(seq, LAMBDA x, y : KeyLess(Key(x), Key(y)))

\* No two neighbours of the sorted vector, so no two elements, share a key.
DistinctBy(seq, Key(_)) ==
  \A i, j \in DOMAIN seq : Key(seq[i]) = Key(seq[j]) => i = j

===============================================================================

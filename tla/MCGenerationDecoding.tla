-------------------------- MODULE MCGenerationDecoding --------------------------
(***************************************************************************)
(* Snapshots that between them have every optional part, every kind of     *)
(* vector and the extreme timestamps; their records; the records that      *)
(* another order, a repetition, a changed, lost, doubled or added token    *)
(* makes of them.                                                          *)
(***************************************************************************)
EXTENDS GenerationDecoding

CONSTANTS d1, d2

A == <<"a">>
B == <<"b">>
P == <<"@", "a">>
Q == <<"@", "b">>
Note == <<"a", "lf", "b">>
D1 == DigestText(d1)
D2 == DigestText(d2)

At(line) == [document |-> B, path |-> A, line |-> line, column |-> 1]

Through(profile, member, k) == [profile |-> profile, kind |-> k, member |-> member, provenance |-> At(2)]

Direct == [declaration |-> At(1), expansion |-> <<>>]
Expanded(package) ==
  [declaration |-> At(2), expansion |-> <<Through(Q, P, 2), Through(P, package, 1)>>]

Requires(package, origins) == [package |-> package, origins |-> origins]

PlainSource(name) ==
  [identity |-> D1, name |-> name, version |-> <<"1">>, release |-> 1, summary |-> A,
   description |-> None, homepage |-> None, licenses |-> <<A>>,
   runtime |-> <<>>, programs |-> <<>>, lifecycle |-> <<>>,
   declaredBuild |-> <<>>, declaredTarget |-> <<>>, build |-> A, target |-> A,
   profiles |-> <<>>, snapshot |-> D1]

RichSource(name) ==
  [PlainSource(name) EXCEPT
     !.description = Note, !.homepage = <<"a", ":", "/">>, !.licenses = <<A, B>>,
     !.runtime = <<Requires(A, <<Direct, Expanded(A)>>), Requires(B, <<Direct>>)>>,
     !.programs = <<[action |-> 1, language |-> 1, material |-> Note],
                    [action |-> 4, language |-> 1, material |-> A]>>,
     !.lifecycle = <<[action |-> 1, requirement |-> Requires(B, <<Direct>>)],
                     [action |-> 2, requirement |-> Requires(A, <<Direct>>)]>>,
     !.declaredBuild = <<A, B>>, !.declaredTarget = <<A>>, !.build = B,
     !.profiles = <<[profile |-> P, identity |-> D1, declarations |-> <<At(1), At(2)>>],
                    [profile |-> Q, identity |-> D2, declarations |-> <<At(1)>>]>>]

Because(k, package, profile, policy) ==
  [kind |-> k, package |-> package, profile |-> profile, policy |-> policy]

Requested == Because(1, None, None, None)
Depended == Because(2, B, None, None)
Selected == Because(3, None, [name |-> P, identity |-> D1], None)
Imposed == Because(4, None, None, A)

Object(path, k, seconds) ==
  [path |-> path, kind |-> k, mode |-> 420, uid |-> 0, gid |-> 0,
   seconds |-> seconds, nanoseconds |-> 0,
   size |-> IF k = 1 THEN 4 ELSE None, content |-> IF k = 1 THEN D1 ELSE None,
   symlink |-> IF k = 3 THEN <<".", ".">> ELSE None,
   device |-> IF k \in {5, 6} THEN [major |-> 1, minor |-> 2] ELSE None,
   hardlink |-> None, origin |-> 1, rejected |-> None]

Manifest ==
  <<Object(A, 1, MinI64),
    Object(<<"a", "/", "a">>, 3, MaxI64),
    [Object(<<"a", "/", "b">>, 1, 0) EXCEPT !.hardlink = A, !.rejected = [side |-> 2, identity |-> D2]],
    [Object(B, 5, -1) EXCEPT !.origin = 2]>>

Installed(source, reason, manifest, transaction) ==
  [control |-> [source |-> source, reason |-> reason, sourceRecord |-> SourceIdentity(source), build |-> D1],
   manifest |-> manifest, plan |-> D1, application |-> D2, transaction |-> transaction]

State(packages) == [binding |-> D1, packages |-> packages]

Empty == State(<<>>)
Plain == State(<<Installed(PlainSource(A), Requested, <<>>, None)>>)
Rich == State(<<Installed(RichSource(A), Depended, <<>>, None)>>)
Owning == State(<<Installed(PlainSource(A), Selected, Manifest, D1)>>)
Two == State(<<Installed(PlainSource(A), Imposed, <<Object(A, 2, 1)>>, None),
               Installed(PlainSource(B), Requested, <<Object(A, 2, 1)>>, D2)>>)

Snapshots == {Empty, Plain, Rich, Owning, Two}

-----------------------------------------------------------------------------

Pool ==
  {U8(n) : n \in {0, 1, 2, 3, 5, 9}} \cup {U16(2)} \cup {U32(n) : n \in {0, 1, 2, 5000, 1000000000}}
    \cup {U64(n) : n \in {0, 1, 2, MaxI64, MaxI64 + 1, MaxI64 + 2, 1000}}
    \cup {Bytes(s) : s \in {<<>>, A, B, P, Note, <<"nul">>, <<".", "/", "a">>, <<"a", "/">>, <<"/", "a">>, D1, D2}}

Damaged(tokens) ==
  UNION {{ReplaceAt(tokens, i, t) : t \in {u \in Pool : u[1] = tokens[i][1]} \cup {U8(1), Bytes(A)}} :
           i \in DOMAIN tokens}
    \cup {SubSeq(tokens, 1, n) : n \in 0..(Len(tokens) - 1)}
    \cup {Append(tokens, t) : t \in {U8(0), Bytes(A)}}
    \cup {RemoveAt(tokens, i) : i \in DOMAIN tokens}
    \cup {InsertAt(tokens, i, tokens[i]) : i \in DOMAIN tokens}

\* Another order, or an element more than once.
Shuffled(seq) ==
  {[i \in DOMAIN seq |-> seq[f[i]]] : f \in [DOMAIN seq -> DOMAIN seq]} \ {seq}

InSource(s) ==
  {[s EXCEPT !.packages[1].control.source = v] :
     v \in {[c EXCEPT !.licenses = x] : c \in {s.packages[1].control.source}, x \in Shuffled(<<A, B>>)}}
    \cup UNION {
      {[s EXCEPT !.packages[1].control.source[f] = x] :
         x \in Shuffled(s.packages[1].control.source[f])} :
      f \in {"runtime", "programs", "lifecycle", "declaredBuild", "profiles"}}
    \cup {[s EXCEPT !.packages[1].control.source.runtime[1].origins = x] :
            x \in Shuffled(s.packages[1].control.source.runtime[1].origins)}
    \cup {[s EXCEPT !.packages[1].control.source.profiles[1].declarations = x] :
            x \in Shuffled(s.packages[1].control.source.profiles[1].declarations)}

InManifest(s) ==
  {[s EXCEPT !.packages[1].manifest = x] :
     x \in {[i \in 1..4 |-> s.packages[1].manifest[f[i]]] :
              f \in {<<2, 1, 3, 4>>, <<1, 3, 2, 4>>, <<4, 3, 2, 1>>, <<1, 1, 3, 4>>, <<1, 2, 4, 4>>}}}

InPackages(s) == {[s EXCEPT !.packages = x] : x \in Shuffled(s.packages)}

\* A rewritten source record that its build names, so that the decoder reads on.
Resealed(s) ==
  [s EXCEPT !.packages[1].control.sourceRecord = SourceIdentity(s.packages[1].control.source)]

Forged ==
  {<<Rich, v>> : v \in InSource(Rich) \cup {Resealed(v) : v \in InSource(Rich)}}
    \cup {<<Owning, v>> : v \in InManifest(Owning)}
    \cup {<<Two, v>> : v \in InPackages(Two)}

Case(k, e, w) == [kind |-> k, encoding |-> e, written |-> w]

MCCases ==
  {Case("snapshot", EncodeSnapshot(s), s) : s \in Snapshots}
    \cup UNION {{Case("snapshot", e, s) : e \in Damaged(EncodeSnapshot(s))} : s \in Snapshots}
    \cup {Case("snapshot", EncodeSnapshot(x[2]), x[1]) : x \in Forged}
    \cup {Case("binding", EncodeBinding([binding |-> D1]), [binding |-> D1])}
    \cup {Case("binding", e, [binding |-> D1]) : e \in Damaged(EncodeBinding([binding |-> D1]))}

===============================================================================

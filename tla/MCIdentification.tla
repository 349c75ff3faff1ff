--------------------------- MODULE MCIdentification ---------------------------
(***************************************************************************)
(* Values that the factories admit, in families whose members differ where *)
(* two neighbouring fields could be confused: an optional part and the one *)
(* after it, a string and the next, two lists, a list and a flag, the      *)
(* extreme integers, the digests of a row.                                 *)
(***************************************************************************)
EXTENDS Identification

A == <<"a">>
B == <<"b">>
P == <<"@", "a">>
Q == <<"@", "b">>
Note == <<"a", "lf", "b">>
D1 == <<0, 1>>
D2 == <<1, 0>>

At(line) == [document |-> B, path |-> A, line |-> line, column |-> 1]

Through(profile, member, k) ==
  [profile |-> profile, kind |-> k, member |-> member, provenance |-> At(2)]

Direct == [declaration |-> At(1), expansion |-> <<>>]

Expanded(package) ==
  [declaration |-> At(2), expansion |-> <<Through(Q, P, 2), Through(P, package, 1)>>]

Needs == {<<Direct>>, <<Direct, Expanded(A)>>, <<Expanded(A)>>}

Requires(package, origins) == [package |-> package, origins |-> origins]

PlainSource ==
  [identity |-> D1, name |-> A, version |-> <<"1">>, release |-> 1, summary |-> A,
   description |-> None, homepage |-> None, licenses |-> <<A>>,
   runtime |-> <<>>, programs |-> <<>>, lifecycle |-> <<>>,
   declaredBuild |-> <<>>, declaredTarget |-> <<>>, build |-> A, target |-> A,
   profiles |-> <<>>, snapshot |-> D1]

Named ==
  {[PlainSource EXCEPT !.name = n, !.version = v, !.release = r, !.summary = s, !.snapshot = d] :
     n \in {A, <<"a", "1">>}, v \in {<<"1">>, <<"1", "1">>, A}, r \in {1, 256},
     s \in {A, <<"a", "a">>}, d \in {D1, D2}}

Described ==
  {[PlainSource EXCEPT !.description = t, !.homepage = h, !.licenses = l] :
     t \in {None, A, Note}, h \in {None, A, B}, l \in {<<A>>, <<B>>, <<A, B>>}}

Needing ==
  {[PlainSource EXCEPT !.runtime = r, !.programs = p, !.lifecycle = l] :
     r \in {<<>>, <<Requires(B, <<Direct>>)>>} \cup {<<Requires(A, n)>> : n \in Needs}
             \cup {<<Requires(A, n), Requires(B, <<Direct>>)>> : n \in Needs},
     p \in {<<>>, <<[action |-> 1, language |-> 1, material |-> A]>>,
            <<[action |-> 1, language |-> 1, material |-> A],
              [action |-> 2, language |-> 1, material |-> Note]>>},
     l \in {<<>>} \cup {<<[action |-> 1, requirement |-> Requires(A, n)]>> : n \in Needs}}

Built ==
  {[PlainSource EXCEPT !.declaredBuild = b, !.declaredTarget = t, !.build = x, !.target = y,
                       !.profiles = p] :
     b \in {<<>>, <<A>>, <<A, B>>}, t \in {<<>>, <<A>>, <<A, B>>}, x \in {A, B}, y \in {A, B},
     p \in {<<>>, <<[profile |-> P, identity |-> D1, declarations |-> <<At(1)>>]>>,
            <<[profile |-> P, identity |-> D2, declarations |-> <<At(1), At(2)>>]>>}}

Sources ==
  {v \in Named \cup Described \cup Needing \cup Built : SourceAdmitted(v) /\ v = SourceSorted(v)}

Reasons ==
  {r \in [kind : 1..4, package : {None, A, B},
          profile : {None} \cup [name : {P, Q}, identity : {D1, D2}], policy : {None, A}] :
     ReasonAdmitted(r)}

Row(n) == {[i \in 1..n |-> IF i = k THEN D2 ELSE D1] : k \in 0..n}

Controls == [source : {D1, D2}, reason : Reasons, build : Row(14)]

Object(path, k) ==
  [path |-> path, kind |-> k, mode |-> 420, uid |-> 0, gid |-> 0,
   seconds |-> 0, nanoseconds |-> 0,
   size |-> IF k = 1 THEN 1 ELSE None, content |-> IF k = 1 THEN D1 ELSE None,
   symlink |-> IF k = 3 THEN <<".", ".">> ELSE None,
   device |-> IF k \in {5, 6} THEN [major |-> 0, minor |-> 1] ELSE None,
   hardlink |-> None, origin |-> 1, rejected |-> None]

\* The smallest integer that a u32 does not hold.
Wide == 65536

Objects ==
  {Object(p, k) : p \in {A, B, <<"a", "/", "b">>}, k \in 1..8}
    \cup {[Object(A, 2) EXCEPT !.seconds = s, !.nanoseconds = n] :
            s \in {MinI64, MinI64 + 1, -1, 1, MaxI64}, n \in {0, 1}}
    \cup {[Object(A, 1) EXCEPT !.size = s, !.content = c, !.hardlink = h, !.origin = o, !.rejected = r] :
            s \in {0, 1, Wide}, c \in {D1, D2}, h \in {None, B}, o \in 1..2,
            r \in {None} \cup [side : 1..2, identity : {D1, D2}]}
    \cup {[Object(A, 5) EXCEPT !.device = d, !.uid = u, !.gid = g] :
            d \in [major : {0, Wide}, minor : 0..1], u \in {0, 1, Wide}, g \in {0, Wide}}
    \cup {[Object(A, 3) EXCEPT !.symlink = t] : t \in {A, B, <<"a", "a">>}}

Manifests ==
  {<<>>} \cup {<<e>> : e \in {o \in Objects : EntryAdmitted(o)}}
    \cup {<<Object(A, j), Object(B, k)>> : j \in 1..3, k \in 1..3}

Receipts ==
  [control : {D1}, binding : {D1}, manifest : Manifests, plan : {D1}, application : {D1},
   transaction : {None}]
  \cup [control : {D1, D2}, binding : {D1, D2}, manifest : {<<>>, <<Object(A, 2)>>},
        plan : {D1, D2}, application : {D1, D2}, transaction : {None, D1, D2}]

Several == {<<>>, <<D1>>, <<D2>>, <<D1, D2>>}

Owning(path, owners) == [path |-> path, owners |-> owners]

Inventories ==
  {[claims |-> c] :
     c \in {<<>>} \cup {<<Owning(p, o)>> : p \in {A, B}, o \in Several \ {<<>>}}
             \cup {<<Owning(A, o), Owning(B, q)>> : o, q \in Several \ {<<>>}}}

Bindings ==
  [managedTarget : {D1, D2}, stateStore : {D1, D2}, rootView : {D1, D2},
   stateBackend : {D1, D2}, publicationDomain : {D1, D2}]

Change(k, name, expected, proposed, plan) ==
  [kind |-> k, name |-> name, plan |-> plan, application |-> D1,
   expected |-> expected, proposed |-> proposed]

Deltas ==
  {Change(1, n, None, d, p) : n \in {A, <<"a", "a">>}, d \in {D1, D2}, p \in {D1, D2}}
    \cup {Change(2, A, d, e, D1) : d, e \in {D1, D2}}
    \cup {Change(3, A, d, None, D1) : d \in {D1, D2}}

Requests ==
  [expected : {D1, D2}, target : {D1, D2}, transaction : {None, D1},
   deltas : {<<d>> : d \in Deltas}]
  \cup [expected : {D1}, target : {D1}, transaction : {D1, D2},
        deltas : {<<d, Change(3, B, D1, None, D1)>> : d \in Deltas}]

\* Outcome, durability and boundary as the factories combine them.
Verdicts ==
  ({1} \X {2} \X {2, 3}) \cup ({2, 3, 4} \X {1} \X {1})
    \cup ({5} \X {3} \X {2, 3}) \cup ({6} \X {4} \X {2, 3})

PublicationReceipts ==
  {[request |-> q, expected |-> e, actualPrior |-> p, target |-> D1, format |-> f,
    outcome |-> v[1], durability |-> v[2], atomicity |-> v[3],
    resulting |-> r, evidence |-> s] :
     q \in {D1, D2}, e \in {D1, D2}, p \in {D1, D2}, f \in {A, <<"a", "1">>},
     v \in Verdicts, r \in {None, D1, D2}, s \in Several}

Issuable ==
  {r \in PublicationReceipts :
     /\ r.outcome = 2 <=> r.actualPrior # r.expected
     /\ r.outcome \in {1, 5} => r.resulting # None
     /\ r.outcome \in {2, 3, 4} => r.resulting = None}

MCValues ==
  [domain \in Range(Domains) \ {"managed-target", "state-store", "root-view", "state-backend",
                                "publication-domain"} |->
     CASE domain = "package-source-record" -> Sources
       [] domain = "installed-control"     -> Controls
       [] domain = "installation-receipt"  -> Receipts
       [] domain = "installed-package"     -> [receipt : {D1, D2}]
       [] domain = "ownership-inventory"   -> Inventories
       [] domain = "target-binding"        -> Bindings
       [] domain = "installed-snapshot"    -> [binding : {D1, D2}, packages : Several, ownership : {D1, D2}]
       [] domain = "publication-request"   -> Requests
       [] domain = "publication-receipt"   -> Issuable]

\* Digests over the digits where the two ranges of hexadecimal begin and end.
MCDigests == [1..2 -> {0, 9, 10, 15, 144, 159, 160, 250, 255}]

MCCharacters == {":", "v1", "v2", "sha256", "md5", "0", "9", "a", "f", "A", "g"}

MCMagic == <<112, 0>>

===============================================================================

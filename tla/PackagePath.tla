------------------------------ MODULE PackagePath ------------------------------
(***************************************************************************)
(* package_path: parse, step by step, and the queries on parsed paths.     *)
(***************************************************************************)
EXTENDS CanonicalText

CONSTANT Inputs   \* the strings handed to parse

ASSUME InputsAssumption == Inputs \subseteq Seq(Byte)

VARIABLES
  input,       \* the argument
  phase,
  begin,       \* where the next component begins
  components,  \* the components kept so far
  value        \* the normalized path, once it is returned

vars == <<input, phase, begin, components, value>>

-----------------------------------------------------------------------------
(* package_path::parse *)

Init ==
  /\ input \in Inputs /\ phase = "check"
  /\ begin = 1 /\ components = <<>> /\ value = <<>>

Refused == phase' = "refused" /\ UNCHANGED <<input, begin, components, value>>

Check ==
  /\ phase = "check"
  /\ IF input = <<>> \/ Head(input) = "/" \/ Holds(input, {"nul", "lf", "cr"})
     THEN Refused
     ELSE /\ phase' = "scan"
          /\ UNCHANGED <<input, begin, components, value>>

\* The end of the component that begins at begin.
End ==
  CHOOSE i \in begin..(Len(input) + 1) :
    /\ i > Len(input) \/ input[i] = "/"
    /\ \A j \in begin..(i - 1) : input[j] # "/"

Component == SubSeq(input, begin, End - 1)

\* Mutant: the parent component is only refused at the front.
EscapesAtFront == Component = <<".", ".">> /\ begin = 1

Escapes == Component = <<".", ".">>

\* Mutant: a doubled or trailing separator leaves an empty component.
NamesSomething == Component # <<".">>

Names == Component \notin {<<>>, <<".">>}

Scan ==
  /\ phase = "scan"
  /\ IF Escapes THEN Refused
     ELSE /\ components' = IF Names THEN Append(components, Component) ELSE components
          /\ phase' = IF End > Len(input) THEN "join" ELSE "scan"
          /\ begin' = IF End > Len(input) THEN begin ELSE End + 1
          /\ UNCHANGED <<input, value>>

Join ==
  /\ phase = "join"
  /\ IF components = <<>> THEN Refused
     ELSE /\ value' = Joined(components)
          /\ phase' = "parsed"
          /\ UNCHANGED <<input, begin, components>>

\* parse has returned or thrown.
Done == phase \in {"parsed", "refused"} /\ UNCHANGED vars

Next == Check \/ Scan \/ Join \/ Done

Spec == Init /\ [][Next]_vars

-----------------------------------------------------------------------------
(* The queries *)

LastSeparator(p) == CHOOSE i \in 0..Len(p) :
  /\ i > 0 => p[i] = "/"
  /\ \A j \in (i + 1)..Len(p) : p[j] # "/"

Filename(p) == SubSeq(p, LastSeparator(p) + 1, Len(p))

\* The empty sequence stands for the absent optional.
Parent(p) == SubSeq(p, 1, LastSeparator(p) - 1)

\* Mutant: the byte after the shared prefix is not looked at.
AncestorByPrefix(p, q) == Len(q) > Len(p) /\ SubSeq(q, 1, Len(p)) = p

IsAncestorOf(p, q) ==
  Len(q) > Len(p) /\ SubSeq(q, 1, Len(p)) = p /\ q[Len(p) + 1] = "/"

-----------------------------------------------------------------------------
(* Correctness *)

\* The scan stays inside the string and keeps nothing empty.
PathTypeOK ==
  /\ phase \in {"check", "scan", "join", "parsed", "refused"}
  /\ begin \in 1..(Len(input) + 1)
  /\ \A k \in DOMAIN components : components[k] # <<>> /\ ~Holds(components[k], {"/"})
  /\ value # <<>> => phase = "parsed"

\* parse returns exactly for the relative spellings of an object inside the
\* root; every spelling of one path gives the same value, and reading that value
\* again gives it back.
ParsesToNormalForm ==
  /\ phase = "parsed" =>
       /\ Parsable(input) /\ value = Normalized(input)
       /\ Parsable(value) /\ Normalized(value) = value
  /\ phase = "refused" => ~Parsable(input)

NormalPaths == {Normalized(s) : s \in {t \in Inputs : Parsable(t)}}

\* Ancestry and parenthood of byte strings are those of component sequences, so
\* no sibling with a longer name passes for a descendant.
AncestryIsStructural ==
  phase = "parsed" =>
    /\ Components(Parent(value)) = Front(Components(value))
    /\ Filename(value) = Last(Components(value))
    /\ \A p \in NormalPaths :
         IsAncestorOf(value, p) <=> IsStrictPrefix(Components(value), Components(p))

===============================================================================

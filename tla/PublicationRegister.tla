-------------------------- MODULE PublicationRegister --------------------------
(***************************************************************************)
(* What the store promises its callers, without locks or steps: a register *)
(* whose history grows by whole requests made for the state they replace,  *)
(* that may lose what is not yet permanent and nothing else, and whose     *)
(* every receipt is true of the register at the moment it is handed out.   *)
(***************************************************************************)
EXTENDS PublicationReceipt

CONSTANTS Callers, First

VARIABLES
  history,  \* the generations, the last one being the value
  floor,    \* how many of them are permanent
  answer    \* the last receipt of each caller

vars == <<history, floor, answer>>

Latest == history[Len(history)]

Now == SnapshotIdentity(Latest.state)

Init ==
  /\ history = <<[state |-> First, by |-> None]>>
  /\ floor = 1
  /\ answer = [c \in Callers |-> None]

\* The value changes only to what its request makes of the previous value.
Extend ==
  /\ LET new == history'[Len(history')] IN
       /\ history' = Append(history, new)
       /\ Accomplishes(new.by, Latest.state, new.state)
  /\ floor' \in {floor, Len(history')}
  /\ UNCHANGED answer

\* The latest generation is the one the receipt describes.
Describes(rc) ==
  /\ Len(history) > 1
  /\ rc.request = RequestIdentity(Latest.by)
  /\ rc.actualPrior = SnapshotIdentity(history[Len(history) - 1].state)
  /\ rc.expected = rc.actualPrior
  /\ rc.resulting \in {Now, None}

\* The receipt's request has left the register as it found it.
Untouched(rc) == rc.actualPrior = Now /\ rc.resulting = None

\* What each outcome claims, its durability included.
True(rc) ==
  CASE rc.outcome = "published" ->
         Describes(rc) /\ rc.resulting = Now /\ floor = Len(history)
    [] rc.outcome = "published_durability_unconfirmed" ->
         Describes(rc) /\ rc.resulting = Now /\ rc.durability = "unconfirmed"
    [] rc.outcome = "indeterminate" ->
         Describes(rc) \/ Untouched(rc)
    [] rc.outcome = "stale_expected_state" ->
         Untouched(rc) /\ rc.expected # Now
    [] OTHER ->
         Untouched(rc) /\ rc.expected = Now

Answer ==
  /\ \E c \in Callers :
       /\ answer' = [answer EXCEPT ![c] = answer'[c]]
       /\ answer'[c] # None => True(answer'[c])
  /\ UNCHANGED <<history, floor>>

Persist ==
  /\ floor' \in floor..Len(history)
  /\ UNCHANGED <<history, answer>>

Lose ==
  /\ history' = SubSeq(history, 1, floor)
  /\ UNCHANGED <<floor, answer>>

Next == Extend \/ Answer \/ Persist \/ Lose

Spec == Init /\ [][Next]_vars

===============================================================================

----------------------------- MODULE WorkerPool -----------------------------
(***************************************************************************)
(* What the dispatching of connections to threads amounts to: items arrive *)
(* and wait in line, at most Size of them are active at once, an item      *)
(* becomes active only from the head of the line, and is active once.      *)
(***************************************************************************)
EXTENDS Integers, Sequences, FiniteSets

CONSTANTS Items, Size

VARIABLES
  waiting,   \* Seq(Items)
  active,    \* SUBSET Items
  done       \* SUBSET Items

vars == <<waiting, active, done>>

InLine == {waiting[i] : i \in 1 .. Len(waiting)}

Init == waiting = <<>> /\ active = {} /\ done = {}

Arrive(i) ==
  /\ i \notin InLine \cup active \cup done
  /\ waiting' = Append(waiting, i)
  /\ UNCHANGED <<active, done>>

Begin ==
  /\ waiting # <<>>
  /\ Cardinality(active) < Size
  /\ active' = active \cup {Head(waiting)}
  /\ waiting' = Tail(waiting)
  /\ UNCHANGED done

End(i) ==
  /\ i \in active
  /\ active' = active \ {i}
  /\ done' = done \cup {i}
  /\ UNCHANGED waiting

(* An item is turned away while it waits.                                  *)
Drop(k) ==
  /\ waiting' = SubSeq(waiting, 1, k - 1) \o SubSeq(waiting, k + 1, Len(waiting))
  /\ done' = done \cup {waiting[k]}
  /\ UNCHANGED active

Next == \/ Begin
        \/ \E i \in Items : Arrive(i) \/ End(i)
        \/ \E k \in 1 .. Len(waiting) : Drop(k)

Spec == Init /\ [][Next]_vars

=============================================================================

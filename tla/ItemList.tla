----------------------------- MODULE ItemList -----------------------------
(* What an SbList promises: every list is a sequence of items, and what is *)
(* done to one does nothing to another.                                    *)
EXTENDS Naturals, Sequences, SequencesExt

CONSTANTS Lists, Items, MaxItems   \* bound on the length of a list

VARIABLE items   \* [Lists -> Seq(Items)]

vars == items

Init == items = [l \in Lists |-> << >>]

Becomes(l, s) == items' = [items EXCEPT ![l] = s]

AppendOne(l) == \E x \in Items :
  /\ Len(items[l]) < MaxItems
  /\ Becomes(l, Append(items[l], x))

InsertOne(l) == \E x \in Items, i \in 0..Len(items[l]) :
  /\ Len(items[l]) < MaxItems
  /\ Becomes(l, InsertAt(items[l], i + 1, x))

RemoveOne(l) == \E i \in DOMAIN items[l] : Becomes(l, RemoveAt(items[l], i))

RemoveAndFill(l) == \E i \in DOMAIN items[l] :
  Becomes(l, Front([items[l] EXCEPT ![i] = Last(items[l])]))

Shorten(l) == \E n \in 0..Len(items[l]) : Becomes(l, SubSeq(items[l], 1, n))

CopyOf(l) == \E m \in Lists : Becomes(l, items[m])

Next == \E l \in Lists :
  AppendOne(l) \/ InsertOne(l) \/ RemoveOne(l) \/ RemoveAndFill(l) \/ Shorten(l) \/ CopyOf(l)

Spec == Init /\ [][Next]_vars
=============================================================================

------------------------------ MODULE SbList ------------------------------
(* The list of misc/SbList.h: items in a buffer that is first part of the  *)
(* list itself and is moved to the heap, and back, as the list grows and   *)
(* is fitted.  A list is a record; indices start at 0 as in the code.      *)
EXTENDS Naturals

CONSTANTS Lists, Items, MaxItems,   \* bound on the length of a list
          DEFAULTSIZE,              \* size of the buffer in the list, 4 in the code
          Junk                      \* what memory holds that was never written

VARIABLE list

ListAssumption == DEFAULTSIZE \in Nat \ {0} /\ Junk \notin Items /\ MaxItems \in Nat

(* live counts the buffers of the list on the heap; onheap tells whether    *)
(* itembuffer is one of them.                                               *)
Fresh(live) == [numitems |-> 0, itembuffersize |-> DEFAULTSIZE,
                itembuffer |-> [i \in 0..(DEFAULTSIZE - 1) |-> Junk],
                onheap |-> FALSE, live |-> live]

ListInit == list = [l \in Lists |-> Fresh(0)]

(* The list with other items in the same buffer. *)
Holding(L, n, buffer) ==
  [numitems |-> n, itembuffersize |-> L.itembuffersize, itembuffer |-> buffer,
   onheap |-> L.onheap, live |-> L.live]

(* The items in a buffer of n, and the buffer before it deleted.            *)
Buffer(L, n) == [i \in 0..(n - 1) |-> IF i < L.numitems THEN L.itembuffer[i] ELSE Junk]
Without(L) == IF L.onheap THEN L.live - 1 ELSE L.live
Moved(L, n) == [numitems |-> L.numitems, itembuffersize |-> n, itembuffer |-> Buffer(L, n),
                onheap |-> TRUE, live |-> Without(L) + 1]

(* grow, without and with a size *)
Doubled(L) == Moved(L, 2 * L.itembuffersize)
Grown(L, size) == IF size =< L.itembuffersize THEN L ELSE Moved(L, size)

(* Mutant: back in the list the buffer keeps the size it had on the heap. *)
Fitted_Bug(L) ==
  IF L.numitems >= L.itembuffersize THEN L
  ELSE IF L.numitems > DEFAULTSIZE THEN Moved(L, L.numitems)
  ELSE [L EXCEPT !.itembuffer = Buffer(L, DEFAULTSIZE), !.onheap = FALSE, !.live = Without(L)]

(* fit; a list that is small enough goes back into the buffer of its own.   *)
Fitted(L) ==
  IF L.numitems >= L.itembuffersize THEN L
  ELSE IF L.numitems > DEFAULTSIZE THEN Moved(L, L.numitems)
  ELSE [numitems |-> L.numitems, itembuffersize |-> DEFAULTSIZE,
        itembuffer |-> Buffer(L, DEFAULTSIZE), onheap |-> FALSE, live |-> Without(L)]

(* The list destructed, and one made in its place. *)
Remade(L, sizehint) == Grown(Fresh(Without(L)), sizehint)

Room(L) == IF L.numitems = L.itembuffersize THEN Doubled(L) ELSE L
Added(R, x) == Holding(R, R.numitems + 1, [R.itembuffer EXCEPT ![R.numitems] = x])
Between(R, x, i) ==
  Holding(R, R.numitems + 1,
          [j \in DOMAIN R.itembuffer |->
             IF j = i THEN x
             ELSE IF j > i /\ j =< R.numitems THEN R.itembuffer[j - 1]
             ELSE R.itembuffer[j]])
RemovedAt(L, i) ==
  Holding(L, L.numitems - 1,
          [j \in DOMAIN L.itembuffer |->
             IF j >= i /\ j < L.numitems - 1 THEN L.itembuffer[j + 1] ELSE L.itembuffer[j]])
RemovedFast(L, i) ==
  Holding(L, L.numitems - 1,
          [L.itembuffer EXCEPT ![i] = L.itembuffer[L.numitems - 1]])
Truncated(L, n) == Holding(L, n, L.itembuffer)
(* copy: expand to the length of M, then item by item. *)
FilledFrom(E, M) ==
  Holding(E, M.numitems, [i \in DOMAIN E.itembuffer |->
                            IF i < M.numitems THEN M.itembuffer[i] ELSE E.itembuffer[i]])

Becomes(l, L) == list' = [list EXCEPT ![l] = L]

(* append, push *)
AppendItem(l) == \E x \in Items :
  list[l].numitems < MaxItems /\ Becomes(l, Added(Room(list[l]), x))

Insert(l) == \E x \in Items, insertbefore \in 0..list[l].numitems :
  list[l].numitems < MaxItems /\ Becomes(l, Between(Room(list[l]), x, insertbefore))

(* remove; removeItem finds the index first. *)
RemoveItem(l) == \E index \in 0..(list[l].numitems - 1) : Becomes(l, RemovedAt(list[l], index))

RemoveFast(l) == \E index \in 0..(list[l].numitems - 1) :
  Becomes(l, RemovedFast(list[l], index))

(* truncate, also with fit; pop; fit *)
Truncate(l) == \E length \in 0..list[l].numitems :
  \/ Becomes(l, Truncated(list[l], length))
  \/ Becomes(l, Fitted(Truncated(list[l], length)))

CopyList(l) == \E m \in Lists : m # l /\ Becomes(l, FilledFrom(Grown(list[l], list[m].numitems), list[m]))

Remake(l) == \E sizehint \in 0..(MaxItems + 1) : Becomes(l, Remade(list[l], sizehint))

ListNext == \E l \in Lists :
  \/ AppendItem(l) \/ Insert(l) \/ RemoveItem(l) \/ RemoveFast(l)
  \/ Truncate(l) \/ CopyList(l) \/ Remake(l)

ListSpec == ListInit /\ [][ListNext]_list
-----------------------------------------------------------------------------
(* Whatever is done to the lists, a list has as many cells as it believes,  *)
(* room for its items, and exactly one buffer on the heap or none: none is  *)
(* leaked or deleted twice.                                                 *)
Good(L) ==
  /\ L.numitems \in Nat /\ L.itembuffersize \in Nat /\ L.onheap \in BOOLEAN
  /\ L.itembuffer \in [0..(L.itembuffersize - 1) -> Items \cup {Junk}]
  /\ L.numitems =< L.itembuffersize /\ L.itembuffersize >= DEFAULTSIZE
  /\ ~L.onheap => L.itembuffersize = DEFAULTSIZE
  /\ L.live = IF L.onheap THEN 1 ELSE 0
Sound == list = [l \in Lists |-> list[l]] /\ \A l \in Lists : Good(list[l])

(* Seen by index, a list is a sequence of the items that were put into it.  *)
Content(L) == [i \in 1..L.numitems |-> L.itembuffer[i - 1]]
Contents == INSTANCE ItemList WITH items <- [l \in Lists |-> Content(list[l])]
ListImplements == Contents!Spec
=============================================================================

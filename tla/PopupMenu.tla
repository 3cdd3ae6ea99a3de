----------------------------- MODULE PopupMenu -----------------------------
(***************************************************************************)
(* Nested popup menus, SmPopupMenuKit (nodekits/PopupMenuKit.cpp).  The    *)
(* menu that is active and visible takes every event.  A click on an item  *)
(* with a submenu deactivates the menu and schedules a one-shot sensor     *)
(* that opens the submenu; a click beside a menu closes it and hands the   *)
(* same event to its parent; a picked item closes the menu, and its        *)
(* parents where closeParent says so.                                      *)
(*                                                                         *)
(* Where the menus are on the screen is left out: an event says for every  *)
(* menu which of its items is at the position of the event.                *)
(***************************************************************************)
EXTENDS Integers, Sequences, FiniteSets

CONSTANTS
  Menus, NoMenu,
  Items,        \* item numbers, from 0
  Order,        \* the menus as a traversal meets them, a sequence
  Root,         \* the menu the application opens
  SubOf,        \* SubOf[m][i]: the menu in itemData[i] of m, or NoMenu
  Disabled,     \* Disabled[m]: items that are separators or in itemDisabled
  CloseParent,  \* the menus whose closeParent is TRUE
  MaxOpening    \* bound on the pending one-shots that open submenus

ASSUME NoMenuAssumption   == NoMenu \notin Menus
ASSUME ItemsAssumption    == Items \subseteq Nat
ASSUME OrderAssumption    == Order \in Seq(Menus)
ASSUME RootAssumption     == Root \in Menus
ASSUME OpeningAssumption  == MaxOpening \in Nat

(* Menus are made with their submenus, the root last: no way down leads to *)
(* the root or back to a menu.                                             *)
ASSUME SubAssumption ==
  /\ SubOf \in [Menus -> [Items -> Menus \cup {NoMenu}]]
  /\ \A m \in Menus, i \in Items : SubOf[m][i] # Root
  /\ \A S \in SUBSET Menus : S # {} =>
       \E s \in S : \A m \in S, i \in Items : SubOf[m][i] # s

VARIABLES
  isActive, visible, pickedItem,       \* fields
  parent, activeitem, triggeritem,     \* SmPopupMenuKitP
  opening,                             \* pending opensub_cb, <<kit, sub>>
  triggerscript, activeitemchanged,    \* one-shots that are scheduled
  activeShape                          \* the item drawn as the active one

windows == <<isActive, visible, parent, opening>>
items   == <<pickedItem, triggeritem, triggerscript>>
marks   == <<activeitem, activeitemchanged, activeShape>>
vars    == <<windows, items, marks>>

None == -1

Open(m) == isActive[m] /\ visible[m]

(* An event has a button and, for every menu m, at[m], the item at its     *)
(* position or None.  The button: a release of button 1 or of another      *)
(* one, or neither (a movement, a press).                                  *)
Buttons == {"release1", "release", "other"}
Release(e) == e.button # "other"

Init == /\ isActive = [m \in Menus |-> FALSE]
        /\ visible = [m \in Menus |-> FALSE]
        /\ pickedItem = [m \in Menus |-> None]
        /\ parent = [m \in Menus |-> NoMenu]
        /\ activeitem = [m \in Menus |-> None]
        /\ triggeritem = [m \in Menus |-> None]
        /\ opening = <<>>
        /\ triggerscript = {} /\ activeitemchanged = {}
        /\ activeShape = [m \in Menus |-> None]
-----------------------------------------------------------------------------
(* From m upwards, leaving a menu for its parent only if it is in through: *)
(* the least set with m that the way up does not lead out of, and where    *)
(* the way ends.                                                           *)
Above(par, m, through) ==
  {x \in Menus : \A S \in SUBSET Menus :
     m \in S /\ (\A a \in S \cap through : par[a] # NoMenu => par[a] \in S) => x \in S}
Ends(par, m, through) ==
  {t \in Above(par, m, through) : t \notin through \/ par[t] = NoMenu}

Climbed(m, through) == Above(parent, m, through)
Tops(m, through)    == Ends(parent, m, through)

(* Menus close, which drops their reference to a parent, others wait for a *)
(* submenu, and a closing menu makes another one active, or shows it too.  *)
Windows(closed, waiting, activated, shown) ==
  /\ visible'  = [m \in Menus |-> m \notin closed /\ (visible[m] \/ m \in shown)]
  /\ isActive' = [m \in Menus |-> /\ m \notin closed \cup waiting
                                  /\ isActive[m] \/ m \in activated]
  /\ parent'   = [m \in Menus |-> IF m \in closed THEN NoMenu ELSE parent[m]]

(* Mutant: the item under the mouse changes and its mark is not redrawn. *)
Mark_Bug(item, silently) ==
  /\ activeitem' = item
  /\ UNCHANGED <<activeitemchanged, activeShape>>

(* Every handleEvent compares its item with activeitem; childFinished      *)
(* resets activeitem without scheduling the sensor.                        *)
Mark(item, silently) ==
  /\ activeitem' = item
  /\ activeitemchanged' =
       activeitemchanged \cup {m \in Menus \ silently : item[m] # activeitem[m]}
  /\ UNCHANGED activeShape

(* itemPicked: a trigger that is scheduled already keeps its item. *)
ItemPicked(m, i) ==
  /\ pickedItem' = [pickedItem EXCEPT ![m] = i]
  /\ triggerscript' = triggerscript \cup {m}
  /\ triggeritem' = IF m \in triggerscript THEN triggeritem
                    ELSE [triggeritem EXCEPT ![m] = i]

(* The menu h and its parents that the event, a release, misses.  The menu *)
(* t that deals with it in the end is a top of those.                      *)
Missing(e)   == {m \in Menus : e.at[m] = None}
Missed(h, e) == Climbed(h, Missing(e)) \cap Missing(e)

(* handleEvent of an open menu, for an event that is no release. *)
Hover(h, e, before) ==
  /\ ~Release(e)
  /\ Mark([m \in Menus |-> IF m = h THEN e.at[h]
                           ELSE IF m \in before THEN None ELSE activeitem[m]], {})
  /\ UNCHANGED <<windows, items>>

(* The marks a release leaves: item is that of the menu t. *)
Marked(h, t, e, before, item) ==
  [m \in Menus |-> IF m \in Missed(h, e) THEN None
                   ELSE IF m = t THEN item
                   ELSE IF m \in before THEN None ELSE activeitem[m]]

(* Mutant: the event stays with the menu that closes. *)
MissAll_Bug(h, t, e, before) ==
  /\ Release(e) /\ e.at[h] = None
  /\ Windows({h}, {}, {parent[h]}, {parent[h]})
  /\ Mark(Marked(h, t, e, before, None), {})
  /\ UNCHANGED <<items, opening>>

(* The release is beside the menu and all its parents: all close. *)
MissAll(h, t, e, before) ==
  /\ Release(e) /\ e.at[t] = None
  /\ Windows(Missed(h, e), {}, {}, {})
  /\ Mark(Marked(h, t, e, before, None), {})
  /\ UNCHANGED <<items, opening>>

(* The release is on an item with a submenu, disabled or not. *)
ClickSubMenu(h, t, e, before) ==
  /\ Release(e) /\ e.at[t] # None /\ SubOf[t][e.at[t]] # NoMenu
  /\ Len(opening) < MaxOpening
  /\ Windows(Missed(h, e), {t}, {}, {t})
  /\ opening' = Append(opening, <<t, SubOf[t][e.at[t]]>>)
  /\ Mark(Marked(h, t, e, before, None), {})
  /\ UNCHANGED items

(* An item without a submenu. *)
Plain(t, i) == i # None /\ SubOf[t][i] = NoMenu

(* Mutant: a parent that is not closed along is not made active again. *)
Pick_Bug(h, t, e, before) ==
  LET finished == Climbed(t, CloseParent)
  IN  /\ e.button = "release1" /\ Plain(t, e.at[t]) /\ e.at[t] \notin Disabled[t]
      /\ ItemPicked(t, e.at[t])
      /\ Windows(Missed(h, e) \cup finished, {}, {}, {})
      /\ Mark([m \in Menus |-> IF m \in finished THEN None
                               ELSE Marked(h, t, e, before, None)[m]], finished \ {t})
      /\ UNCHANGED opening

(* Button 1 picks an item: the menu closes, and childFinished closes the   *)
(* parents as far as closeParent says so; the next one is active again.    *)
Pick(h, t, e, before) ==
  LET finished == Climbed(t, CloseParent)
  IN  /\ e.button = "release1" /\ Plain(t, e.at[t]) /\ e.at[t] \notin Disabled[t]
      /\ ItemPicked(t, e.at[t])
      /\ \E top \in Tops(t, CloseParent) :
           Windows(Missed(h, e) \cup finished, {}, {parent[top]}, {})
      /\ Mark([m \in Menus |-> IF m \in finished THEN None
                               ELSE Marked(h, t, e, before, None)[m]], finished \ {t})
      /\ UNCHANGED opening

(* Another button picks an item and the menu stays; nothing is picked of   *)
(* a disabled item.                                                        *)
PickAndStay(h, t, e, before) ==
  LET i == e.at[t]
  IN  /\ Release(e) /\ Plain(t, i)
      /\ \/ i \in Disabled[t] /\ UNCHANGED items
         \/ i \notin Disabled[t] /\ e.button = "release" /\ ItemPicked(t, i)
      /\ Windows(Missed(h, e), {}, {t}, {t})
      /\ Mark(Marked(h, t, e, before, i), {})
      /\ UNCHANGED opening

(* No menu is open: the application gets the event, and opens its menu if  *)
(* that is not visible already.                                            *)
Unhandled(e) ==
  /\ Mark([m \in Menus |-> None], {})
  /\ \/ e.button = "release" /\ ~visible[Root]
          /\ visible' = [visible EXCEPT ![Root] = TRUE]
          /\ isActive' = [isActive EXCEPT ![Root] = TRUE]
     \/ (e.button # "release" \/ visible[Root]) /\ UNCHANGED <<visible, isActive>>
  /\ UNCHANGED <<parent, opening, items>>

(* SoHandleEventAction stops at the first menu that handles the event. *)
HandleEvent(e) ==
  \/ \E n \in DOMAIN Order :
       LET h == Order[n]
           before == {Order[k] : k \in 1..(n - 1)}
       IN  /\ Open(h) /\ \A m \in before : ~Open(m)
           /\ \/ Hover(h, e, before)
              \/ \E t \in Tops(h, Missing(e)) :
                   \/ MissAll(h, t, e, before) \/ ClickSubMenu(h, t, e, before)
                   \/ Pick(h, t, e, before) \/ PickAndStay(h, t, e, before)
  \/ (\A m \in Menus : ~Open(m)) /\ Unhandled(e)
-----------------------------------------------------------------------------
(* Mutant: the submenu does not learn who opened it. *)
OpenSub_Bug ==
  /\ opening # <<>>
  /\ LET sub == Head(opening)[2]
     IN  /\ visible' = [visible EXCEPT ![sub] = TRUE]
         /\ isActive' = [isActive EXCEPT ![sub] = TRUE]
  /\ opening' = Tail(opening)
  /\ UNCHANGED <<parent, items, marks>>

(* opensub_cb *)
OpenSub ==
  /\ opening # <<>>
  /\ LET kit == Head(opening)[1]
         sub == Head(opening)[2]
     IN  /\ parent' = [parent EXCEPT ![sub] = kit]
         /\ visible' = [visible EXCEPT ![sub] = TRUE]
         /\ isActive' = [isActive EXCEPT ![sub] = TRUE]
  /\ opening' = Tail(opening)
  /\ UNCHANGED <<items, marks>>

(* activeitemchanged_cb *)
ActiveItemChanged(m) ==
  /\ m \in activeitemchanged
  /\ activeShape' = [activeShape EXCEPT ![m] = activeitem[m]]
  /\ activeitemchanged' = activeitemchanged \ {m}
  /\ UNCHANGED <<activeitem, windows, items>>

(* trigger_cb: the script of triggeritem runs. *)
Trigger(m) ==
  /\ m \in triggerscript
  /\ triggerscript' = triggerscript \ {m}
  /\ UNCHANGED <<pickedItem, triggeritem, windows, marks>>

(* Only these menus look where the event is; for others None will do. *)
Asked == {m \in Menus : visible[m] \/ \E child \in Menus : parent[child] = m}

Next == \/ \E b \in Buttons, at \in [Asked -> Items \cup {None}] :
             HandleEvent([button |-> b, at |-> [m \in Menus |->
                           IF m \in Asked THEN at[m] ELSE None]])
        \/ OpenSub
        \/ \E m \in Menus : ActiveItemChanged(m) \/ Trigger(m)

Spec     == Init /\ [][Next]_vars
FairSpec == Spec /\ WF_vars(OpenSub)
-----------------------------------------------------------------------------
AnyItem == Items \cup {None}

TypeOK ==
  /\ isActive \in [Menus -> BOOLEAN] /\ visible \in [Menus -> BOOLEAN]
  /\ parent \in [Menus -> Menus \cup {NoMenu}]
  /\ opening \in Seq(Menus \X Menus) /\ Len(opening) =< MaxOpening
  /\ pickedItem \in [Menus -> AnyItem] /\ triggeritem \in [Menus -> AnyItem]
  /\ activeitem \in [Menus -> AnyItem] /\ activeShape \in [Menus -> AnyItem]
  /\ triggerscript \subseteq Menus /\ activeitemchanged \subseteq Menus

(* Clicks through any nesting leave at most one menu that takes events and  *)
(* none while a submenu is about to open, and every menu on the screen is   *)
(* the one that takes events or waits, through its submenus, for that one   *)
(* or for a submenu about to open: no menu is left on the screen that no    *)
(* click can close.                                                         *)
NoOrphans ==
  /\ Cardinality({m \in Menus : Open(m)}) + Len(opening) =< 1
  /\ \A m \in Menus : visible[m] =>
       \E h \in Menus : /\ m \in Climbed(h, Menus)
                        /\ Open(h) \/ \E n \in DOMAIN opening : opening[n][1] = h

(* A menu refers to a parent exactly while it is on the screen below one   *)
(* that waits for it, whose item it is; the root never does.               *)
ParentsWait ==
  \A m \in Menus :
    /\ visible[m] /\ m # Root => parent[m] # NoMenu
    /\ parent[m] # NoMenu =>
         /\ visible[m] /\ visible[parent[m]] /\ ~isActive[parent[m]]
         /\ \E i \in Items : SubOf[parent[m]][i] = m

(* The item that is drawn as active is the active one, or the sensor that  *)
(* redraws it is scheduled.                                                *)
MarkFollows ==
  \A m \in Menus : m \notin activeitemchanged => activeShape[m] = activeitem[m]

(* A release beside every menu closes them all, however deep the nesting:  *)
(* the event climbs to the root.                                           *)
MissClosesAll ==
  [][\/ \A m \in Menus : ~Open(m)
     \/ \A m \in Menus : ~visible'[m]
     \/ ~HandleEvent([button |-> "release1", at |-> [m \in Menus |-> None]])]_vars

(* While there are menus on the screen one will take events, as long as    *)
(* Coin processes its delay queue.                                         *)
Responsive ==
  (\E m \in Menus : visible[m])
    ~> ((\E m \in Menus : Open(m)) \/ \A m \in Menus : ~visible[m])
=============================================================================

---------------------------- MODULE MCPopupMenu ----------------------------
(* A root menu with two items, a submenu and a menu both can open. *)
EXTENDS PopupMenu

CONSTANTS root, middle, leaf

MCMenus == {root, middle, leaf}
MCOrder == <<root, leaf, middle>>

(* The leaf is an item of the root and of its submenu. *)
MCSubOf == [m \in Menus |-> [i \in Items |->
              IF m = root /\ i = 0 THEN middle
              ELSE IF m = root \/ (m = middle /\ i = 0) THEN leaf
              ELSE NoMenu]]

(* One item of the leaf is a separator. *)
MCDisabled == [m \in Menus |-> IF m = leaf THEN {0} ELSE {}]

CloseLeaf == {leaf}
=============================================================================

-------------------------- MODULE PopupMenuProofs --------------------------
(* Proofs about PopupMenu for any menus, items and submenus.               *)
EXTENDS PopupMenu, FiniteSetTheorems, TLAPS

(* The links to parents of any menus *)
Parents == [Menus -> Menus \cup {NoMenu}]

(* The way up from a menu: it starts there, goes on, and goes nowhere else. *)
LEMMA AboveStart ==
  ASSUME NEW par, NEW m \in Menus, NEW T
  PROVE  m \in Above(par, m, T)
  BY DEF Above

LEMMA AboveUp ==
  ASSUME NEW par \in Parents, NEW m, NEW T, NEW x \in Above(par, m, T),
         x \in T, par[x] # NoMenu
  PROVE  par[x] \in Above(par, m, T)
  <1>1. x \in Menus /\ par[x] \in Menus
    BY DEF Above, Parents
  <1>2. ASSUME NEW S \in SUBSET Menus, m \in S,
               \A a \in S \cap T : par[a] # NoMenu => par[a] \in S
        PROVE  par[x] \in S
    BY <1>2 DEF Above
  <1> QED
    BY <1>1, <1>2 DEF Above

LEMMA AboveLeast ==
  ASSUME NEW par, NEW m, NEW T, NEW S \in SUBSET Menus, m \in S,
         \A a \in S \cap T : par[a] # NoMenu => par[a] \in S
  PROVE  Above(par, m, T) \subseteq S
  BY DEF Above

LEMMA AboveMenus ==
  ASSUME NEW par, NEW m, NEW T
  PROVE  Above(par, m, T) \subseteq Menus
  BY DEF Above

LEMMA AboveFrom ==
  ASSUME NEW par \in Parents, NEW m \in Menus, NEW T, NEW x \in Above(par, m, T), x # m
  PROVE  \E a \in Above(par, m, T) \cap T : par[a] = x
  <1> DEFINE A == Above(par, m, T)
             S == {y \in A : y = m \/ \E a \in A \cap T : par[a] = y}
  <1>1. S \in SUBSET Menus /\ m \in S
    BY AboveMenus, AboveStart
  <1>2. ASSUME NEW a \in S \cap T, par[a] # NoMenu
        PROVE  par[a] \in S
    BY <1>2, AboveUp
  <1>3. A \subseteq S
    <2> HIDE DEF S
    <2> QED
      BY <1>1, <1>2, AboveLeast
  <1> QED
    BY <1>3

LEMMA AboveAbove ==
  ASSUME NEW par \in Parents, NEW m, NEW T, NEW x \in Above(par, m, T)
  PROVE  Above(par, x, T) \subseteq Above(par, m, T)
  <1> DEFINE A == Above(par, m, T)
  <1>1. A \in SUBSET Menus
    BY AboveMenus
  <1>2. \A a \in A \cap T : par[a] # NoMenu => par[a] \in A
    BY AboveUp
  <1> HIDE DEF A
  <1> QED
    BY <1>1, <1>2, AboveLeast DEF A

LEMMA AboveMore ==
  ASSUME NEW par \in Parents, NEW m \in Menus, NEW T
  PROVE  Above(par, m, T) \subseteq Above(par, m, Menus)
  <1> DEFINE A == Above(par, m, Menus)
  <1>1. A \in SUBSET Menus /\ m \in A
    BY AboveMenus, AboveStart
  <1>2. \A a \in A \cap T : par[a] # NoMenu => par[a] \in A
    BY <1>1, AboveUp
  <1> HIDE DEF A
  <1> QED
    BY <1>1, <1>2, AboveLeast DEF A

(* Beyond a menu the way is that of its parent. *)
LEMMA AboveNext ==
  ASSUME NEW par \in Parents, NEW m \in Menus, NEW T, NEW x \in Above(par, m, T), x # m
  PROVE  m \in T /\ par[m] \in Menus /\ x \in Above(par, par[m], T)
  <1>1. CASE m \in T /\ par[m] # NoMenu
    <2> DEFINE S == {m} \cup Above(par, par[m], T)
    <2>1. par[m] \in Menus
      BY <1>1 DEF Parents
    <2>2. S \in SUBSET Menus /\ m \in S
      BY AboveMenus
    <2>3. ASSUME NEW a \in S \cap T, par[a] # NoMenu
          PROVE  par[a] \in S
      BY <2>1, <2>3, AboveUp, AboveStart
    <2>4. Above(par, m, T) \subseteq S
      <3> HIDE DEF S
      <3> QED
        BY <2>2, <2>3, AboveLeast
    <2> QED
      BY <1>1, <2>1, <2>4
  <1>2. CASE ~(m \in T /\ par[m] # NoMenu)
    <2> DEFINE S == {m}
    <2>1. S \in SUBSET Menus /\ m \in S /\ \A a \in S \cap T : par[a] # NoMenu => par[a] \in S
      BY <1>2
    <2> HIDE DEF S
    <2>2. Above(par, m, T) \subseteq S
      BY <2>1, AboveLeast
    <2> QED
      BY <2>2 DEF S
  <1> QED
    BY <1>1, <1>2

(* The way ends in one place, which is above every menu it passes. *)
LEMMA EndAbove ==
  ASSUME NEW par \in Parents, NEW m \in Menus, NEW T,
         NEW t \in Ends(par, m, T), NEW x \in Above(par, m, T)
  PROVE  t \in Above(par, x, T)
  <1> DEFINE S == {y \in Above(par, m, T) : t \in Above(par, y, T)}
  <1>1. S \in SUBSET Menus /\ m \in S
    BY AboveMenus, AboveStart DEF Ends
  <1>2. ASSUME NEW a \in S \cap T, par[a] # NoMenu
        PROVE  par[a] \in S
    <2>1. t # a /\ a \in Menus
      BY <1>1, <1>2 DEF Ends
    <2>2. t \in Above(par, par[a], T)
      BY <2>1, AboveNext
    <2> QED
      BY <1>2, <2>2, AboveUp
  <1>3. Above(par, m, T) \subseteq S
    <2> HIDE DEF S
    <2> QED
      BY <1>1, <1>2, AboveLeast
  <1> QED
    BY <1>3

LEMMA OneEnd ==
  ASSUME NEW par \in Parents, NEW m \in Menus, NEW T,
         NEW t \in Ends(par, m, T), NEW u \in Ends(par, m, T)
  PROVE  t = u
  <1>1. t \in Above(par, u, T) /\ u \in Menus
    BY EndAbove, AboveMenus DEF Ends
  <1>2. ~(u \in T /\ par[u] \in Menus)
    BY NoMenuAssumption DEF Ends
  <1> QED
    BY <1>1, <1>2, AboveNext
-----------------------------------------------------------------------------
(* Menus on the screen and their parents: a menu has a parent exactly while *)
(* it is on the screen below one that has it as an item, and no two menus   *)
(* have the same one.                                                       *)
Linked(par, vis) ==
  /\ par \in Parents /\ vis \in [Menus -> BOOLEAN]
  /\ \A a, b \in Menus : par[a] = par[b] /\ par[a] # NoMenu => a = b
  /\ \A a \in Menus : par[a] # NoMenu =>
       vis[a] /\ vis[par[a]] /\ \E i \in Items : SubOf[par[a]][i] = a
  /\ \A m \in Menus : vis[m] /\ m # Root => par[m] # NoMenu

(* They are a chain from a bottom up to the root. *)
Chain(par, vis, h) ==
  /\ h \in Menus /\ vis[h]
  /\ \A a \in Menus : par[a] # h
  /\ \A m \in Menus : vis[m] => m \in Above(par, h, Menus)
  /\ Root \in Above(par, h, Menus)

(* What is above a menu on the screen is on the screen. *)
LEMMA AboveVisible ==
  ASSUME NEW par, NEW vis, Linked(par, vis), NEW m \in Menus, vis[m], NEW T,
         NEW x \in Above(par, m, T)
  PROVE  x \in Menus /\ vis[x]
  <1>1. CASE x = m
    BY <1>1
  <1>2. CASE x # m
    <2>1. PICK a \in Above(par, m, T) \cap T : par[a] = x
      BY <1>2, AboveFrom DEF Linked
    <2>2. a \in Menus /\ x \in Menus
      BY AboveMenus
    <2> QED
      BY <2>1, <2>2, NoMenuAssumption DEF Linked
  <1> QED
    BY <1>1, <1>2

(* No menu is above the menu it is an item of: the ways up are ways of      *)
(* submenus, which lead back nowhere.                                       *)
LEMMA NoLoop ==
  ASSUME NEW par, NEW vis, Linked(par, vis), NEW x \in Menus, NEW y \in Menus,
         NEW i \in Items, SubOf[y][i] = x
  PROVE  x \notin Above(par, y, Menus)
  <1> SUFFICES ASSUME x \in Above(par, y, Menus) PROVE FALSE
    OBVIOUS
  <1> DEFINE S == {z \in Above(par, y, Menus) : x \in Above(par, z, Menus)}
  <1>0. par \in Parents
    BY DEF Linked
  <1>1. S \in SUBSET Menus /\ x \in S /\ y \in S
    BY AboveMenus, AboveStart
  <1>2. ASSUME NEW z \in S
        PROVE  \E m \in S, j \in Items : SubOf[m][j] = z
    <2>1. CASE z = x
      BY <1>1, <2>1
    <2>2. CASE z # x
      <3>1. z \in Menus /\ par[z] \in Menus /\ x \in Above(par, par[z], Menus)
        BY <1>0, <1>1, <2>2, AboveNext
      <3>2. par[z] \in Above(par, y, Menus)
        BY <1>0, <3>1, AboveUp, NoMenuAssumption
      <3>3. PICK j \in Items : SubOf[par[z]][j] = z
        BY <3>1, NoMenuAssumption DEF Linked
      <3> QED
        BY <3>1, <3>2, <3>3
    <2> QED
      BY <2>1, <2>2
  <1> HIDE DEF S
  <1> QED
    BY <1>1, <1>2, SubAssumption

(* Menus that close, and the ones that stay. *)
Kept(par, K) == [m \in Menus |-> IF m \in K THEN NoMenu ELSE par[m]]
Seen(vis, K) == [m \in Menus |-> m \notin K /\ vis[m]]

(* The menus of a chain close from the bottom up to a menu p, which is the  *)
(* bottom of what remains.                                                  *)
LEMMA Closes ==
  ASSUME NEW par, NEW vis, NEW h, Linked(par, vis), Chain(par, vis, h),
         NEW K \in SUBSET Menus, NEW p \in Menus, p \notin K, vis[p],
         p = h \/ (h \in K /\ \E a \in K : par[a] = p),
         \A x \in K : x = h \/ \E a \in K : par[a] = x,
         \A a \in K : par[a] \in K \cup {p, NoMenu}
  PROVE  Linked(Kept(par, K), Seen(vis, K)) /\ Chain(Kept(par, K), Seen(vis, K), p)
  <1> DEFINE new == Kept(par, K)
             seen == Seen(vis, K)
  <1>1. par \in Parents /\ new \in Parents /\ seen \in [Menus -> BOOLEAN]
    BY DEF Linked, Kept, Seen, Parents
  <1>2. \A m \in Menus : /\ new[m] = IF m \in K THEN NoMenu ELSE par[m]
                         /\ seen[m] = (m \notin K /\ vis[m])
    BY DEF Kept, Seen
  <1> HIDE DEF new, seen
  (* No menu that stays has a parent that closes. *)
  <1>3. ASSUME NEW a \in Menus, a \notin K
        PROVE  par[a] \notin K
    BY <1>3, NoMenuAssumption DEF Linked, Chain
  <1>4. Linked(new, seen)
    <2>1. \A a, b \in Menus : new[a] = new[b] /\ new[a] # NoMenu => a = b
      BY <1>2 DEF Linked
    <2>2. ASSUME NEW a \in Menus, new[a] # NoMenu
          PROVE  seen[a] /\ seen[new[a]] /\ \E i \in Items : SubOf[new[a]][i] = a
      <3>1. a \notin K /\ new[a] = par[a] /\ par[a] # NoMenu
        BY <1>2, <2>2
      <3>2. par[a] \in Menus /\ par[a] \notin K
        BY <1>1, <1>3, <3>1 DEF Parents
      <3> QED
        BY <1>2, <3>1, <3>2 DEF Linked
    <2>3. \A m \in Menus : seen[m] /\ m # Root => new[m] # NoMenu
      BY <1>2 DEF Linked
    <2> QED
      BY <1>1, <2>1, <2>2, <2>3 DEF Linked
  (* The way up from p keeps off the menus that close. *)
  <1>5. Above(par, p, Menus) \cap K = {}
    <2> DEFINE S == Above(par, p, Menus) \ K
    <2>1. S \in SUBSET Menus /\ p \in S
      BY AboveMenus, AboveStart
    <2>2. ASSUME NEW a \in S \cap Menus, par[a] # NoMenu
          PROVE  par[a] \in S
      BY <1>1, <1>3, <2>2, AboveUp
    <2>3. Above(par, p, Menus) \subseteq S
      <3> HIDE DEF S
      <3> QED
        BY <2>1, <2>2, AboveLeast
    <2> QED
      BY <2>3
  <1>6. Above(par, p, Menus) \subseteq Above(new, p, Menus)
    <2> DEFINE S == Above(par, p, Menus) \cap Above(new, p, Menus)
    <2>1. S \in SUBSET Menus /\ p \in S
      BY AboveMenus, AboveStart
    <2>2. ASSUME NEW a \in S \cap Menus, par[a] # NoMenu
          PROVE  par[a] \in S
      <3>1. par[a] = new[a]
        BY <1>2, <1>5
      <3> QED
        BY <1>1, <2>2, <3>1, AboveUp
    <2>3. Above(par, p, Menus) \subseteq S
      <3> HIDE DEF S
      <3> QED
        BY <2>1, <2>2, AboveLeast
    <2> QED
      BY <2>3
  <1>7. Above(par, h, Menus) \subseteq Above(par, p, Menus) \cup K
    <2> DEFINE S == Above(par, p, Menus) \cup K
    <2>1. S \in SUBSET Menus /\ h \in S
      BY AboveMenus, AboveStart
    <2>2. ASSUME NEW a \in S \cap Menus, par[a] # NoMenu
          PROVE  par[a] \in S
      BY <1>1, <2>2, AboveUp, AboveStart
    <2>3. Above(par, h, Menus) \subseteq S
      <3> HIDE DEF S
      <3> QED
        BY <2>1, <2>2, AboveLeast
    <2> QED
      BY <2>3
  <1>8. \A a \in Menus : new[a] # p
    BY <1>2, NoMenuAssumption DEF Linked, Chain
  <1>9. \A m \in Menus : seen[m] => m \in Above(new, p, Menus)
    BY <1>2, <1>6, <1>7 DEF Chain
  <1>10. Root \in Above(new, p, Menus)
    <2>1. par[Root] = NoMenu
      BY SubAssumption, RootAssumption DEF Linked, Parents
    <2>2. Root \in Ends(par, h, Menus) /\ p \in Above(par, h, Menus)
      BY <2>1 DEF Ends, Chain
    <2>3. Root \in Above(par, p, Menus)
      BY <1>1, <2>2, EndAbove DEF Chain
    <2> QED
      BY <1>6, <2>3
  <1>11. seen[p]
    BY <1>2
  <1> QED
    BY <1>4, <1>8, <1>9, <1>10, <1>11 DEF Chain, new, seen

(* When the menus that close lead up to no other, all are closed. *)
LEMMA ClosesAll ==
  ASSUME NEW par, NEW vis, NEW h, Linked(par, vis), Chain(par, vis, h),
         NEW K \in SUBSET Menus, h \in K, \A a \in K : par[a] \in K \cup {NoMenu}
  PROVE  /\ \A m \in Menus : ~Seen(vis, K)[m] /\ Kept(par, K)[m] = NoMenu
         /\ Linked(Kept(par, K), Seen(vis, K))
  <1>1. Above(par, h, Menus) \subseteq K
    BY AboveLeast
  <1>2. \A m \in Menus : vis[m] => m \in K
    BY <1>1 DEF Chain
  <1>3. \A m \in Menus : ~Seen(vis, K)[m] /\ Kept(par, K)[m] = NoMenu
    BY <1>2 DEF Seen, Kept, Linked
  <1> QED
    BY <1>3 DEF Linked, Kept, Seen, Parents

(* A submenu opens below the bottom of a chain. *)
LEMMA Opens ==
  ASSUME NEW par, NEW vis, NEW k, Linked(par, vis), Chain(par, vis, k),
         NEW s \in Menus, NEW i \in Items, SubOf[k][i] = s
  PROVE  /\ Linked([par EXCEPT ![s] = k], [vis EXCEPT ![s] = TRUE])
         /\ Chain([par EXCEPT ![s] = k], [vis EXCEPT ![s] = TRUE], s)
  <1> DEFINE new == [par EXCEPT ![s] = k]
             seen == [vis EXCEPT ![s] = TRUE]
  <1>1. k \in Menus /\ par \in Parents /\ vis \in [Menus -> BOOLEAN]
    BY DEF Linked, Chain
  <1>2. s \notin Above(par, k, Menus)
    BY <1>1, NoLoop
  <1>3. s # k /\ ~vis[s]
    BY <1>1, <1>2, AboveStart DEF Chain
  <1>4. \A a \in Menus : par[a] # s /\ par[a] # k
    BY <1>3, NoMenuAssumption DEF Linked, Chain
  <1>5. /\ new \in Parents /\ seen \in [Menus -> BOOLEAN]
        /\ \A m \in Menus : /\ new[m] = IF m = s THEN k ELSE par[m]
                            /\ seen[m] = (m = s \/ vis[m])
    BY <1>1 DEF Parents
  <1> HIDE DEF new, seen
  <1>6. Linked(new, seen)
    <2>1. \A a, b \in Menus : new[a] = new[b] /\ new[a] # NoMenu => a = b
      BY <1>4, <1>5 DEF Linked
    <2>2. ASSUME NEW a \in Menus, new[a] # NoMenu
          PROVE  seen[a] /\ seen[new[a]] /\ \E j \in Items : SubOf[new[a]][j] = a
      <3>1. CASE a = s
        BY <1>1, <1>5, <3>1 DEF Chain
      <3>2. CASE a # s
        <4>1. new[a] = par[a] /\ par[a] \in Menus
          BY <1>1, <1>5, <2>2, <3>2 DEF Parents
        <4> QED
          BY <1>5, <2>2, <4>1 DEF Linked
      <3> QED
        BY <3>1, <3>2
    <2>3. \A m \in Menus : seen[m] /\ m # Root => new[m] # NoMenu
      BY <1>1, <1>5, NoMenuAssumption DEF Linked
    <2> QED
      BY <1>5, <2>1, <2>2, <2>3 DEF Linked
  <1>7. Above(par, k, Menus) \subseteq Above(new, s, Menus)
    <2> DEFINE S == Above(par, k, Menus) \cap Above(new, s, Menus)
    <2>1. k \in Above(new, s, Menus)
      <3>1. s \in Above(new, s, Menus) /\ new[s] = k /\ k # NoMenu
        BY <1>1, <1>5, AboveStart, NoMenuAssumption
      <3> QED
        BY <1>5, <3>1, AboveUp
    <2>2. S \in SUBSET Menus /\ k \in S
      BY <1>1, <2>1, AboveMenus, AboveStart
    <2>3. ASSUME NEW a \in S \cap Menus, par[a] # NoMenu
          PROVE  par[a] \in S
      <3>1. a # s /\ par[a] = new[a]
        BY <1>2, <1>5
      <3> QED
        BY <1>1, <1>5, <2>3, <3>1, AboveUp
    <2>4. Above(par, k, Menus) \subseteq S
      <3> HIDE DEF S
      <3> QED
        BY <2>2, <2>3, AboveLeast
    <2> QED
      BY <2>4
  <1>8. \A a \in Menus : new[a] # s
    BY <1>3, <1>4, <1>5
  <1>9. \A m \in Menus : seen[m] => m \in Above(new, s, Menus)
    BY <1>5, <1>7, AboveStart DEF Chain
  <1>10. Root \in Above(new, s, Menus) /\ seen[s]
    BY <1>5, <1>7 DEF Chain
  <1> QED
    BY <1>6, <1>8, <1>9, <1>10 DEF Chain, new, seen

(* An event misses menus of N from the bottom h up to t: what closes is a   *)
(* part of the chain as Closes and ClosesAll ask for it.                    *)
LEMMA MissedPart ==
  ASSUME NEW par, NEW vis, NEW h, Linked(par, vis), Chain(par, vis, h),
         NEW N \in SUBSET Menus, NEW t \in Ends(par, h, N)
  PROVE  LET K == Above(par, h, N) \cap N
         IN  /\ K \in SUBSET Menus /\ t \in Menus /\ vis[t]
             /\ \A x \in K : x = h \/ \E a \in K : par[a] = x
             /\ \A a \in K : par[a] \in K \cup {t, NoMenu}
             /\ t \notin N => t \notin K /\ (t = h \/ (h \in K /\ \E a \in K : par[a] = t))
             /\ t \in N => h \in K /\ \A a \in K : par[a] \in K \cup {NoMenu}
  <1> DEFINE K == Above(par, h, N) \cap N
  <1>1. par \in Parents /\ h \in Menus /\ vis[h]
    BY DEF Linked, Chain
  <1>2. t \in Above(par, h, N) /\ t \in Menus /\ vis[t]
    BY <1>1, AboveVisible DEF Ends
  <1>3. \A x \in Above(par, h, N) : x = h \/ \E a \in K : par[a] = x
    BY <1>1, AboveFrom
  <1>4. \A x \in Above(par, h, N) : x \in N \/ x = t
    BY <1>1, OneEnd DEF Ends
  <1>5. \A a \in K : par[a] # NoMenu => par[a] \in Above(par, h, N)
    BY <1>1, AboveUp
  <1>6. \A a \in K : par[a] \in K \cup {t, NoMenu}
    BY <1>4, <1>5
  <1>7. h \in Above(par, h, N)
    BY <1>1, AboveStart
  <1>8. h \in K \/ h = t
    BY <1>4, <1>7
  <1>9. K \in SUBSET Menus
    BY AboveMenus
  <1>10. t \notin N => t \notin K /\ (t = h \/ (h \in K /\ \E a \in K : par[a] = t))
    BY <1>2, <1>3, <1>8
  <1>11. t \in N => h \in K /\ \A a \in K : par[a] \in K \cup {NoMenu}
    BY <1>2, <1>6, <1>8
  <1> QED
    BY <1>2, <1>3, <1>6, <1>9, <1>10, <1>11

(* A pick closes t and parents of it in C up to u, besides what it missed. *)
LEMMA PickedPart ==
  ASSUME NEW par, NEW vis, NEW h, Linked(par, vis), Chain(par, vis, h),
         NEW N \in SUBSET Menus, NEW t \in Ends(par, h, N), t \notin N,
         NEW C, NEW u \in Ends(par, t, C)
  PROVE  LET K == (Above(par, h, N) \cap N) \cup Above(par, t, C)
         IN  /\ K \in SUBSET Menus /\ h \in K /\ u \in K /\ u \in Menus /\ vis[u]
             /\ \A x \in K : x = h \/ \E a \in K : par[a] = x
             /\ \A a \in K : par[a] \in K \cup {par[u], NoMenu}
             /\ par[u] # NoMenu => par[u] \in Menus /\ par[u] \notin K
  <1> DEFINE M == Above(par, h, N) \cap N
             F == Above(par, t, C)
             K == M \cup F
  <1>1. par \in Parents /\ h \in Menus /\ vis[h]
    BY DEF Linked, Chain
  <1>2. /\ M \in SUBSET Menus /\ t \in Menus /\ vis[t]
        /\ \A x \in M : x = h \/ \E a \in M : par[a] = x
        /\ \A a \in M : par[a] \in M \cup {t, NoMenu}
        /\ t \notin M /\ (t = h \/ (h \in M /\ \E a \in M : par[a] = t))
    BY MissedPart
  <1>3. t \in F /\ F \in SUBSET Menus
    BY <1>2, AboveStart, AboveMenus
  <1>4. u \in F /\ u \in Menus /\ vis[u]
    BY <1>2, AboveVisible DEF Ends
  <1>5. \A x \in F : x = t \/ \E a \in F \cap C : par[a] = x
    BY <1>1, <1>2, AboveFrom
  <1>6. \A a \in F : a = u \/ (a \in C /\ (par[a] # NoMenu => par[a] \in F))
    BY <1>1, <1>2, OneEnd, AboveUp DEF Ends
  <1>7. \A x \in K : x = h \/ \E a \in K : par[a] = x
    BY <1>2, <1>5
  <1>8. \A a \in K : par[a] \in K \cup {par[u], NoMenu}
    BY <1>2, <1>3, <1>6
  <1>9. ASSUME par[u] # NoMenu
        PROVE  par[u] \in Menus /\ par[u] \notin K
    <2> DEFINE p == par[u]
    <2>1. p \in Menus
      BY <1>1, <1>4, <1>9 DEF Parents
    <2>2. PICK i \in Items : SubOf[p][i] = u
      BY <1>4, <1>9 DEF Linked
    <2>3. u \notin Above(par, p, Menus)
      BY <1>4, <2>1, <2>2, NoLoop
    <2>4. \A a \in Menus : par[a] = p => a = u
      BY <1>4, <1>9 DEF Linked
    <2>5. p # t
      <3>1. u \in Above(par, t, Menus)
        BY <1>1, <1>2, <1>4, AboveMore
      <3> QED
        BY <2>3, <3>1
    <2>6. p \notin F
      <3>1. u \notin C
        BY <1>9 DEF Ends
      <3> QED
        BY <1>3, <1>5, <2>4, <2>5, <3>1
    <2>7. p # h
      BY <1>4 DEF Chain
    <2>8. p \notin M
      <3> SUFFICES ASSUME p \in M PROVE FALSE
        OBVIOUS
      <3>1. u \in Above(par, h, N) /\ u \in N
        BY <1>2, <2>4, <2>7
      <3>2. t \in Above(par, u, N)
        BY <1>1, <3>1, EndAbove
      <3>3. u # t
        BY <3>1
      <3>4. t \in Above(par, p, N)
        BY <1>1, <1>4, <3>2, <3>3, AboveNext
      <3>5. t \in Above(par, p, Menus)
        BY <1>1, <2>1, <3>4, AboveMore
      <3>6. u \in Above(par, t, Menus)
        BY <1>1, <1>2, <1>4, AboveMore
      <3>7. u \in Above(par, p, Menus)
        BY <1>1, <3>5, <3>6, AboveAbove
      <3> QED
        BY <2>3, <3>7
    <2> QED
      BY <2>1, <2>6, <2>8
  <1> QED
    BY <1>2, <1>3, <1>4, <1>7, <1>8, <1>9

-----------------------------------------------------------------------------
(* The invariant.  At any time no menu is on the screen, or one of a chain  *)
(* takes events, its bottom, or the bottom waits for a submenu to open.     *)
NoneOpen ==
  opening = <<>> /\ \A m \in Menus : ~visible[m] /\ ~isActive[m]

Taking(h) ==
  /\ opening = <<>> /\ Chain(parent, visible, h)
  /\ \A m \in Menus : isActive[m] = (m = h)

Waiting(k, i) ==
  /\ opening = <<<<k, SubOf[k][i]>>>> /\ SubOf[k][i] \in Menus
  /\ Chain(parent, visible, k) /\ activeitem[k] = None
  /\ \A m \in Menus : ~isActive[m]

Phase == \/ NoneOpen
         \/ \E h \in Menus : Taking(h)
         \/ \E k \in Menus, i \in Items : Waiting(k, i)

(* A parent has no item under the mouse. *)
Quiet == \A a \in Menus : parent[a] # NoMenu => activeitem[parent[a]] = None

IInv == TypeOK /\ Linked(parent, visible) /\ Phase /\ Quiet /\ MarkFollows

Events == [button : Buttons, at : [Menus -> AnyItem]]

LEMMA OneTakes ==
  ASSUME IInv, NEW h \in Menus, Open(h)
  PROVE  Taking(h)
  BY DEF IInv, Phase, NoneOpen, Taking, Waiting, Open

(* What the windows of a release are, when it ends at a menu p that stays  *)
(* on the screen, or at none.                                              *)
LEMMA WindowsActivate ==
  ASSUME IInv, NEW h \in Menus, Taking(h),
         NEW K \in SUBSET Menus, NEW p \in Menus, p \notin K, visible[p],
         p = h \/ (h \in K /\ \E a \in K : parent[a] = p),
         \A x \in K : x = h \/ \E a \in K : parent[a] = x,
         \A a \in K : parent[a] \in K \cup {p, NoMenu},
         NEW V \in {{}, {p}}, Windows(K, {}, {p}, V)
  PROVE  /\ Linked(parent', visible') /\ Chain(parent', visible', p)
         /\ isActive' \in [Menus -> BOOLEAN]
         /\ \A m \in Menus : isActive'[m] = (m = p)
  <1>1. Linked(parent, visible) /\ Chain(parent, visible, h)
    BY DEF IInv, Taking
  <1>2. parent' = Kept(parent, K)
    BY DEF Windows, Kept
  <1>3. visible' = Seen(visible, K)
    BY DEF Windows, Seen, IInv, TypeOK
  <1>4. Linked(Kept(parent, K), Seen(visible, K)) /\ Chain(Kept(parent, K), Seen(visible, K), p)
    BY <1>1, Closes
  <1>5. isActive' = [m \in Menus |-> m \notin K /\ (isActive[m] \/ m = p)]
    BY DEF Windows, IInv, TypeOK
  <1>6. \A m \in Menus : isActive[m] = (m = h)
    BY DEF Taking
  <1>7. isActive' \in [Menus -> BOOLEAN] /\ \A m \in Menus : isActive'[m] = (m = p)
    BY <1>5, <1>6 DEF IInv, TypeOK
  <1> QED
    BY <1>2, <1>3, <1>4, <1>7

LEMMA WindowsWait ==
  ASSUME IInv, NEW h \in Menus, Taking(h),
         NEW K \in SUBSET Menus, NEW p \in Menus, p \notin K, visible[p],
         p = h \/ (h \in K /\ \E a \in K : parent[a] = p),
         \A x \in K : x = h \/ \E a \in K : parent[a] = x,
         \A a \in K : parent[a] \in K \cup {p, NoMenu},
         Windows(K, {p}, {}, {p})
  PROVE  /\ Linked(parent', visible') /\ Chain(parent', visible', p)
         /\ isActive' \in [Menus -> BOOLEAN]
         /\ \A m \in Menus : ~isActive'[m]
  <1>1. Linked(parent, visible) /\ Chain(parent, visible, h)
    BY DEF IInv, Taking
  <1>2. parent' = Kept(parent, K)
    BY DEF Windows, Kept
  <1>3. visible' = Seen(visible, K)
    BY DEF Windows, Seen, IInv, TypeOK
  <1>4. Linked(Kept(parent, K), Seen(visible, K)) /\ Chain(Kept(parent, K), Seen(visible, K), p)
    BY <1>1, Closes
  <1>5. isActive' = [m \in Menus |-> m \notin K /\ m # p /\ isActive[m]]
    BY DEF Windows, IInv, TypeOK
  <1>6. \A m \in Menus : isActive[m] = (m = h)
    BY DEF Taking
  <1>7. isActive' \in [Menus -> BOOLEAN] /\ \A m \in Menus : ~isActive'[m]
    BY <1>5, <1>6 DEF IInv, TypeOK
  <1> QED
    BY <1>2, <1>3, <1>4, <1>7

LEMMA WindowsClose ==
  ASSUME IInv, NEW h \in Menus, Taking(h),
         NEW K \in SUBSET Menus, h \in K, \A a \in K : parent[a] \in K \cup {NoMenu},
         NEW A, A \cap Menus = {}, Windows(K, {}, A, {})
  PROVE  /\ Linked(parent', visible')
         /\ isActive' \in [Menus -> BOOLEAN]
         /\ \A m \in Menus : ~visible'[m] /\ ~isActive'[m] /\ parent'[m] = NoMenu
  <1>1. Linked(parent, visible) /\ Chain(parent, visible, h)
    BY DEF IInv, Taking
  <1>2. parent' = Kept(parent, K)
    BY DEF Windows, Kept
  <1>3. visible' = Seen(visible, K)
    BY DEF Windows, Seen, IInv, TypeOK
  <1>4. isActive' = [m \in Menus |-> m \notin K /\ isActive[m]]
    BY DEF Windows, IInv, TypeOK
  <1>5. \A m \in Menus : isActive[m] => m \in K
    BY DEF Taking
  <1>6. /\ \A m \in Menus : ~Seen(visible, K)[m] /\ Kept(parent, K)[m] = NoMenu
        /\ Linked(Kept(parent, K), Seen(visible, K))
    BY <1>1, ClosesAll
  <1> QED
    BY <1>2, <1>3, <1>4, <1>5, <1>6
-----------------------------------------------------------------------------
(* What Mark does to any marks, of which silent ones do not change. *)
LEMMA Marks ==
  ASSUME IInv, NEW item \in [Menus -> AnyItem], NEW S,
         \A m \in Menus \cap S : item[m] = activeitem[m],
         Mark(item, S)
  PROVE  /\ MarkFollows' /\ activeitem' = item
         /\ activeShape' \in [Menus -> AnyItem] /\ activeitemchanged' \subseteq Menus
  BY DEF Mark, IInv, TypeOK, MarkFollows

LEMMA MarkedType ==
  ASSUME IInv, NEW h, NEW t, NEW e \in Events, NEW before, NEW item \in AnyItem
  PROVE  Marked(h, t, e, before, item) \in [Menus -> AnyItem]
  BY DEF Marked, IInv, TypeOK, AnyItem

LEMMA ItemPickedType ==
  ASSUME IInv, NEW m \in Menus, NEW i \in AnyItem, ItemPicked(m, i)
  PROVE  /\ pickedItem' \in [Menus -> AnyItem] /\ triggeritem' \in [Menus -> AnyItem]
         /\ triggerscript' \subseteq Menus
  BY DEF ItemPicked, IInv, TypeOK

(* The menus a release misses, and the menu it ends at. *)
LEMMA Ending ==
  ASSUME IInv, NEW h \in Menus, Taking(h), NEW e \in Events,
         NEW t \in Tops(h, Missing(e))
  PROVE  /\ Missed(h, e) \in SUBSET Menus /\ t \in Menus /\ visible[t]
         /\ \A x \in Missed(h, e) : x = h \/ \E a \in Missed(h, e) : parent[a] = x
         /\ \A a \in Missed(h, e) : parent[a] \in Missed(h, e) \cup {t, NoMenu}
         /\ e.at[t] # None => /\ t \notin Missed(h, e)
                              /\ t = h \/ (h \in Missed(h, e)
                                           /\ \E a \in Missed(h, e) : parent[a] = t)
         /\ e.at[t] = None => /\ h \in Missed(h, e)
                              /\ \A a \in Missed(h, e) : parent[a] \in Missed(h, e) \cup {NoMenu}
  <1> DEFINE N == Missing(e)
  <1>1. N \in SUBSET Menus /\ \A m \in Menus : m \in N <=> e.at[m] = None
    BY DEF Missing
  <1>2. Linked(parent, visible) /\ Chain(parent, visible, h) /\ t \in Ends(parent, h, N)
    BY DEF IInv, Taking, Tops
  <1>3. Missed(h, e) = Above(parent, h, N) \cap N
    BY DEF Missed, Climbed
  <1> HIDE DEF N
  <1> QED
    BY <1>1, <1>2, <1>3, MissedPart

-----------------------------------------------------------------------------
(* A release that ends at t, which is the one menu that takes events, or    *)
(* waits, after it.                                                         *)
LEMMA ReleaseTypes ==
  ASSUME IInv, NEW h \in Menus, NEW t \in Menus, NEW e \in Events, NEW before,
         NEW item \in AnyItem, Mark(Marked(h, t, e, before, item), {})
  PROVE  /\ MarkFollows' /\ activeitem' = Marked(h, t, e, before, item)
         /\ activeitem' \in [Menus -> AnyItem]
         /\ activeShape' \in [Menus -> AnyItem] /\ activeitemchanged' \subseteq Menus
  <1>1. Marked(h, t, e, before, item) \in [Menus -> AnyItem]
    BY MarkedType
  <1> QED
    BY <1>1, Marks

(* A parent keeps its None, unless it is the menu t whose item is marked. *)
LEMMA QuietMarks ==
  ASSUME IInv, NEW h, NEW t, NEW e, NEW before, NEW item,
         NEW a \in Menus, a # t \/ item = None, activeitem[a] = None
  PROVE  Marked(h, t, e, before, item)[a] = None
  BY DEF Marked

LEMMA HoverStep ==
  ASSUME IInv, NEW h \in Menus, Taking(h), NEW e \in Events, NEW before, Hover(h, e, before)
  PROVE  IInv'
  <1> DEFINE item == [m \in Menus |-> IF m = h THEN e.at[h]
                                      ELSE IF m \in before THEN None ELSE activeitem[m]]
  <1>1. item \in [Menus -> AnyItem] /\ Mark(item, {})
    BY DEF Hover, Events, IInv, TypeOK, AnyItem
  <1>2. UNCHANGED <<isActive, visible, parent, opening, pickedItem, triggeritem, triggerscript>>
    BY DEF Hover, windows, items
  <1>3. \A a \in Menus : parent[a] # h
    BY DEF Taking, Chain
  <1>4. \A a \in Menus : parent[a] # NoMenu => item[parent[a]] = None
    BY <1>3 DEF IInv, Quiet, Linked, Parents
  <1> HIDE DEF item
  <1>5. /\ MarkFollows' /\ activeitem' = item
        /\ activeShape' \in [Menus -> AnyItem] /\ activeitemchanged' \subseteq Menus
    BY <1>1, Marks
  <1>6. TypeOK'
    BY <1>1, <1>2, <1>5 DEF IInv, TypeOK
  <1>7. Phase'
    <2>1. Taking(h)'
      BY <1>2 DEF Taking
    <2> QED
      BY <2>1 DEF Phase
  <1>8. Quiet'
    BY <1>2, <1>4, <1>5 DEF Quiet
  <1> QED
    BY <1>2, <1>5, <1>6, <1>7, <1>8 DEF IInv

LEMMA MissAllStep ==
  ASSUME IInv, NEW h \in Menus, Taking(h), NEW e \in Events, NEW before,
         NEW t \in Tops(h, Missing(e)), MissAll(h, t, e, before)
  PROVE  IInv' /\ \A m \in Menus : ~visible'[m]
  <1>1. t \in Menus /\ Missed(h, e) \in SUBSET Menus /\ h \in Missed(h, e)
        /\ \A a \in Missed(h, e) : parent[a] \in Missed(h, e) \cup {NoMenu}
    BY Ending DEF MissAll
  <1>2. Windows(Missed(h, e), {}, {}, {})
    BY DEF MissAll
  <1>3. /\ Linked(parent', visible') /\ isActive' \in [Menus -> BOOLEAN]
        /\ \A m \in Menus : ~visible'[m] /\ ~isActive'[m] /\ parent'[m] = NoMenu
    BY <1>1, <1>2, WindowsClose
  <1>4. /\ MarkFollows' /\ activeitem' \in [Menus -> AnyItem]
        /\ activeShape' \in [Menus -> AnyItem] /\ activeitemchanged' \subseteq Menus
    BY <1>1, ReleaseTypes DEF MissAll, AnyItem
  <1>5. UNCHANGED <<pickedItem, triggeritem, triggerscript, opening>>
    BY DEF MissAll, items
  <1>6. TypeOK'
    BY <1>3, <1>4, <1>5 DEF IInv, TypeOK, Linked, Parents
  <1>7. Phase'
    BY <1>3, <1>5 DEF Phase, NoneOpen, Taking
  <1>8. Quiet'
    BY <1>3 DEF Quiet
  <1> QED
    BY <1>3, <1>4, <1>6, <1>7, <1>8 DEF IInv

LEMMA ClickSubMenuStep ==
  ASSUME IInv, NEW h \in Menus, Taking(h), NEW e \in Events, NEW before,
         NEW t \in Tops(h, Missing(e)), ClickSubMenu(h, t, e, before)
  PROVE  IInv'
  <1> DEFINE i == e.at[t]
             K == Missed(h, e)
  <1>1. /\ t \in Menus /\ visible[t] /\ K \in SUBSET Menus /\ t \notin K
        /\ t = h \/ (h \in K /\ \E a \in K : parent[a] = t)
        /\ \A x \in K : x = h \/ \E a \in K : parent[a] = x
        /\ \A a \in K : parent[a] \in K \cup {t, NoMenu}
    BY Ending DEF ClickSubMenu
  <1>2. i \in Items /\ SubOf[t][i] \in Menus
    BY <1>1, SubAssumption DEF ClickSubMenu, Events, AnyItem
  <1>3. Windows(K, {t}, {}, {t})
    BY DEF ClickSubMenu
  <1>4. /\ Linked(parent', visible') /\ Chain(parent', visible', t)
        /\ isActive' \in [Menus -> BOOLEAN] /\ \A m \in Menus : ~isActive'[m]
    <2> HIDE DEF K
    <2> QED
      BY <1>1, <1>3, WindowsWait
  <1>5. /\ MarkFollows' /\ activeitem' = Marked(h, t, e, before, None)
        /\ activeitem' \in [Menus -> AnyItem]
        /\ activeShape' \in [Menus -> AnyItem] /\ activeitemchanged' \subseteq Menus
    BY <1>1, ReleaseTypes DEF ClickSubMenu, AnyItem
  <1>6. opening' = <<<<t, SubOf[t][i]>>>>
    BY <1>1 DEF ClickSubMenu, Taking
  <1>7. TypeOK'
    <2>1. opening' \in Seq(Menus \X Menus) /\ Len(opening') = 1
      BY <1>1, <1>2, <1>6
    <2>2. 1 =< MaxOpening
      BY OpeningAssumption DEF ClickSubMenu, Taking
    <2>3. UNCHANGED <<pickedItem, triggeritem, triggerscript>>
      BY DEF ClickSubMenu, items
    <2> QED
      BY <1>4, <1>5, <2>1, <2>2, <2>3 DEF IInv, TypeOK, Linked, Parents
  <1>8. Waiting(t, i)'
    <2>1. activeitem'[t] = None
      BY <1>1, <1>5 DEF Marked
    <2>2. UNCHANGED <<t, i>>
      OBVIOUS
    <2> HIDE DEF i
    <2> QED
      BY <1>2, <1>4, <1>6, <2>1, <2>2 DEF Waiting
  <1>9. Quiet'
    <2> SUFFICES ASSUME NEW a \in Menus, parent'[a] # NoMenu
                 PROVE  activeitem'[parent'[a]] = None
      BY DEF Quiet
    <2>1. parent'[a] = parent[a] /\ parent[a] \in Menus
      BY <1>3 DEF Windows, IInv, Linked, Parents
    <2>2. activeitem[parent[a]] = None
      BY <2>1 DEF IInv, Quiet
    <2> QED
      BY <1>5, <2>1, <2>2, QuietMarks
  <1> QED
    BY <1>1, <1>2, <1>4, <1>5, <1>7, <1>8, <1>9 DEF IInv, Phase

LEMMA PickAndStayStep ==
  ASSUME IInv, NEW h \in Menus, Taking(h), NEW e \in Events, NEW before,
         NEW t \in Tops(h, Missing(e)), PickAndStay(h, t, e, before)
  PROVE  IInv'
  <1> DEFINE i == e.at[t]
             K == Missed(h, e)
  <1>1. /\ t \in Menus /\ visible[t] /\ K \in SUBSET Menus /\ t \notin K
        /\ t = h \/ (h \in K /\ \E a \in K : parent[a] = t)
        /\ \A x \in K : x = h \/ \E a \in K : parent[a] = x
        /\ \A a \in K : parent[a] \in K \cup {t, NoMenu}
    BY Ending DEF PickAndStay, Plain
  <1>2. i \in AnyItem
    BY <1>1 DEF Events
  <1>3. Windows(K, {}, {t}, {t}) /\ opening' = opening
    BY DEF PickAndStay
  <1>4. /\ Linked(parent', visible') /\ Chain(parent', visible', t)
        /\ isActive' \in [Menus -> BOOLEAN] /\ \A m \in Menus : isActive'[m] = (m = t)
    <2> HIDE DEF K
    <2> QED
      BY <1>1, <1>3, {t} \in {{}, {t}}, WindowsActivate
  <1>5. /\ MarkFollows' /\ activeitem' = Marked(h, t, e, before, i)
        /\ activeitem' \in [Menus -> AnyItem]
        /\ activeShape' \in [Menus -> AnyItem] /\ activeitemchanged' \subseteq Menus
    <2>1. Mark(Marked(h, t, e, before, i), {})
      BY DEF PickAndStay
    <2> HIDE DEF i
    <2> QED
      BY <1>1, <1>2, <2>1, ReleaseTypes
  <1>6. TypeOK'
    <2>1. /\ pickedItem' \in [Menus -> AnyItem] /\ triggeritem' \in [Menus -> AnyItem]
          /\ triggerscript' \subseteq Menus
      <3>1. CASE UNCHANGED items
        BY <3>1 DEF items, IInv, TypeOK
      <3>2. CASE ItemPicked(t, i)
        <4> HIDE DEF i
        <4> QED
          BY <1>1, <1>2, <3>2, ItemPickedType
      <3> QED
        BY <3>1, <3>2 DEF PickAndStay
    <2> QED
      BY <1>3, <1>4, <1>5, <2>1 DEF IInv, TypeOK, Linked, Parents
  <1>7. Taking(t)'
    BY <1>3, <1>4 DEF Taking
  <1>8. Quiet'
    <2> SUFFICES ASSUME NEW a \in Menus, parent'[a] # NoMenu
                 PROVE  activeitem'[parent'[a]] = None
      BY DEF Quiet
    <2>1. parent'[a] = parent[a] /\ parent[a] \in Menus
      BY <1>3 DEF Windows, IInv, Linked, Parents
    <2>2. activeitem[parent[a]] = None /\ parent[a] # t
      BY <1>4, <2>1 DEF IInv, Quiet, Chain
    <2> QED
      BY <1>5, <2>1, <2>2, QuietMarks
  <1> QED
    BY <1>1, <1>4, <1>5, <1>6, <1>7, <1>8 DEF IInv, Phase

LEMMA PickStep ==
  ASSUME IInv, NEW h \in Menus, Taking(h), NEW e \in Events, NEW before,
         NEW t \in Tops(h, Missing(e)), Pick(h, t, e, before)
  PROVE  IInv'
  <1> DEFINE i == e.at[t]
             finished == Climbed(t, CloseParent)
             K == Missed(h, e) \cup finished
             item == [m \in Menus |-> IF m \in finished THEN None
                                      ELSE Marked(h, t, e, before, None)[m]]
  <1>1. PICK u \in Tops(t, CloseParent) : Windows(K, {}, {parent[u]}, {})
    BY DEF Pick
  <1>2. t \in Menus /\ i \in AnyItem /\ t \notin Missing(e)
    BY Ending DEF Events, Pick, Plain, Missing
  <1>3. /\ K \in SUBSET Menus /\ h \in K /\ u \in K /\ u \in Menus
        /\ \A x \in K : x = h \/ \E a \in K : parent[a] = x
        /\ \A a \in K : parent[a] \in K \cup {parent[u], NoMenu}
        /\ parent[u] # NoMenu => parent[u] \in Menus /\ parent[u] \notin K
    <2> DEFINE N == Missing(e)
    <2>1. /\ Linked(parent, visible) /\ Chain(parent, visible, h) /\ N \in SUBSET Menus
          /\ t \in Ends(parent, h, N) /\ t \notin N /\ u \in Ends(parent, t, CloseParent)
      BY <1>2 DEF IInv, Taking, Tops, Missing
    <2>2. K = (Above(parent, h, N) \cap N) \cup Above(parent, t, CloseParent)
      BY DEF Missed, Climbed
    <2> HIDE DEF N, K
    <2> QED
      BY <2>1, <2>2, PickedPart
  <1>4. /\ MarkFollows' /\ activeitem' = item /\ item \in [Menus -> AnyItem]
        /\ activeShape' \in [Menus -> AnyItem] /\ activeitemchanged' \subseteq Menus
    <2>1. Mark(item, finished \ {t})
      BY DEF Pick
    <2>2. Marked(h, t, e, before, None) \in [Menus -> AnyItem]
      BY MarkedType DEF AnyItem
    <2>3. item \in [Menus -> AnyItem]
      BY <2>2 DEF AnyItem
    <2>4. ASSUME NEW m \in Menus \cap (finished \ {t})
          PROVE  item[m] = activeitem[m]
      <3>1. parent \in Parents
        BY DEF IInv, Linked
      <3>2. PICK a \in Above(parent, t, CloseParent) \cap CloseParent : parent[a] = m
        BY <1>2, <2>4, <3>1, AboveFrom DEF Climbed
      <3>3. a \in Menus
        BY <3>2, AboveMenus
      <3>4. activeitem[m] = None
        BY <3>2, <3>3, NoMenuAssumption DEF IInv, Quiet
      <3> QED
        BY <2>4, <3>4
    <2> HIDE DEF item, finished
    <2> QED
      BY <2>1, <2>3, <2>4, Marks
  <1>5. /\ pickedItem' \in [Menus -> AnyItem] /\ triggeritem' \in [Menus -> AnyItem]
        /\ triggerscript' \subseteq Menus
    <2>1. ItemPicked(t, i)
      BY DEF Pick
    <2> HIDE DEF i
    <2> QED
      BY <1>2, <2>1, ItemPickedType
  <1>6. opening' = opening /\ opening = <<>>
    BY DEF Pick, Taking
  <1> HIDE DEF i
  <1>7. Quiet'
    <2> SUFFICES ASSUME NEW a \in Menus, parent'[a] # NoMenu
                 PROVE  activeitem'[parent'[a]] = None
      BY DEF Quiet
    <2>1. parent'[a] = parent[a] /\ parent[a] \in Menus
      BY <1>1 DEF Windows, IInv, Linked, Parents
    <2>2. activeitem[parent[a]] = None
      BY <2>1 DEF IInv, Quiet
    <2> QED
      BY <1>4, <2>1, <2>2, QuietMarks
  <1>8. /\ Linked(parent', visible') /\ isActive' \in [Menus -> BOOLEAN] /\ Phase'
    <2> HIDE DEF finished, K, item
    <2>1. CASE parent[u] = NoMenu
      <3>1. /\ Linked(parent', visible') /\ isActive' \in [Menus -> BOOLEAN]
            /\ \A m \in Menus : ~visible'[m] /\ ~isActive'[m] /\ parent'[m] = NoMenu
        BY <1>1, <1>3, <2>1, WindowsClose, NoMenuAssumption
      <3>2. NoneOpen'
        BY <1>6, <3>1 DEF NoneOpen
      <3> QED
        BY <3>1, <3>2 DEF Phase
    <2>2. CASE parent[u] # NoMenu
      <3> DEFINE p == parent[u]
      <3>1. p \in Menus /\ p \notin K /\ visible[p] /\ h \in K /\ \E a \in K : parent[a] = p
        BY <1>3, <2>2 DEF IInv, Linked
      <3>2. \A a \in K : parent[a] \in K \cup {p, NoMenu}
        BY <1>3
      <3>3. Windows(K, {}, {p}, {}) /\ {} \in {{}, {p}}
        BY <1>1
      <3>4. PICK q \in Menus : q = p
        BY <3>1
      <3> HIDE DEF p
      <3>5. /\ Linked(parent', visible') /\ Chain(parent', visible', q)
            /\ isActive' \in [Menus -> BOOLEAN] /\ \A m \in Menus : isActive'[m] = (m = q)
        BY <1>3, <3>1, <3>2, <3>3, <3>4, WindowsActivate
      <3>6. Taking(q)'
        BY <1>6, <3>5 DEF Taking
      <3> QED
        BY <3>5, <3>6 DEF Phase
    <2> QED
      BY <2>1, <2>2
  <1>9. TypeOK'
    BY <1>4, <1>5, <1>6, <1>8 DEF IInv, TypeOK, Linked, Parents
  <1> QED
    BY <1>4, <1>7, <1>8, <1>9 DEF IInv

-----------------------------------------------------------------------------
LEMMA UnhandledStep ==
  ASSUME IInv, NEW e \in Events, \A m \in Menus : ~Open(m), Unhandled(e)
  PROVE  IInv'
  <1> DEFINE item == [m \in Menus |-> None]
  <1>1. item \in [Menus -> AnyItem] /\ Mark(item, {}) /\ \A m \in Menus : item[m] = None
    BY DEF Unhandled, AnyItem
  <1> HIDE DEF item
  <1>2. /\ MarkFollows' /\ activeitem' = item
        /\ activeShape' \in [Menus -> AnyItem] /\ activeitemchanged' \subseteq Menus
    BY <1>1, Marks
  <1>3. UNCHANGED <<parent, opening, pickedItem, triggeritem, triggerscript>>
    BY DEF Unhandled, items
  <1>4. Quiet'
    BY <1>1, <1>2, <1>3 DEF Quiet, IInv, Linked, Parents
  <1>5. CASE UNCHANGED <<visible, isActive>>
    <2>1. Linked(parent', visible') /\ TypeOK'
      BY <1>1, <1>2, <1>3, <1>5 DEF IInv, TypeOK
    <2>2. Phase'
      <3>1. CASE NoneOpen
        BY <1>3, <1>5, <3>1 DEF Phase, NoneOpen
      <3>2. ASSUME NEW h \in Menus, Taking(h) PROVE FALSE
        BY <3>2 DEF Taking, Chain, Open
      <3>3. ASSUME NEW k \in Menus, NEW i \in Items, Waiting(k, i) PROVE Waiting(k, i)'
        BY <1>1, <1>2, <1>3, <1>5, <3>3 DEF Waiting
      <3> QED
        BY <3>1, <3>2, <3>3 DEF IInv, Phase
    <2> QED
      BY <1>2, <1>4, <2>1, <2>2 DEF IInv
  <1>6. CASE /\ ~visible[Root]
             /\ visible' = [visible EXCEPT ![Root] = TRUE]
             /\ isActive' = [isActive EXCEPT ![Root] = TRUE]
    <2>1. NoneOpen
      <3>1. ASSUME NEW h \in Menus, Chain(parent, visible, h) PROVE FALSE
        BY <1>6, <3>1, AboveVisible DEF IInv, Chain
      <3> QED
        BY <3>1 DEF IInv, Phase, Taking, Waiting
    <2>2. \A m \in Menus : parent[m] = NoMenu
      BY <2>1 DEF NoneOpen, IInv, Linked
    <2>3. /\ \A m \in Menus : visible'[m] = (m = Root) /\ isActive'[m] = (m = Root)
          /\ visible' \in [Menus -> BOOLEAN] /\ isActive' \in [Menus -> BOOLEAN]
      BY <1>6, <2>1 DEF NoneOpen, IInv, TypeOK
    <2>4. Linked(parent', visible')
      BY <1>3, <2>2, <2>3 DEF IInv, Linked
    <2>5. Taking(Root)'
      <3>1. Root \in Above(parent', Root, Menus) /\ \A a \in Menus : parent'[a] # Root
        BY <1>3, <2>2, RootAssumption, NoMenuAssumption, AboveStart
      <3>2. Root' = Root
        OBVIOUS
      <3> QED
        BY <1>3, <2>1, <2>3, <3>1, <3>2, RootAssumption DEF Taking, Chain, NoneOpen
    <2>6. TypeOK'
      BY <1>1, <1>2, <1>3, <2>3 DEF IInv, TypeOK
    <2>7. Phase'
      BY <2>5, RootAssumption DEF Phase
    <2> QED
      BY <1>2, <1>4, <2>4, <2>6, <2>7 DEF IInv
  <1> QED
    BY <1>5, <1>6 DEF Unhandled

LEMMA HandleEventStep ==
  ASSUME IInv, NEW e \in Events, HandleEvent(e)
  PROVE  IInv'
  <1>1. ASSUME NEW n \in DOMAIN Order, Open(Order[n]), NEW before,
               \/ Hover(Order[n], e, before)
               \/ \E t \in Tops(Order[n], Missing(e)) :
                    \/ MissAll(Order[n], t, e, before) \/ ClickSubMenu(Order[n], t, e, before)
                    \/ Pick(Order[n], t, e, before) \/ PickAndStay(Order[n], t, e, before)
        PROVE  IInv'
    <2>1. Order[n] \in Menus
      BY OrderAssumption
    <2>2. PICK h \in Menus : h = Order[n]
      BY <2>1
    <2>3. Taking(h)
      BY <1>1, <2>2, OneTakes
    <2>4. CASE Hover(h, e, before)
      BY <2>3, <2>4, HoverStep
    <2>5. ASSUME NEW t \in Tops(h, Missing(e)),
                 \/ MissAll(h, t, e, before) \/ ClickSubMenu(h, t, e, before)
                 \/ Pick(h, t, e, before) \/ PickAndStay(h, t, e, before)
          PROVE  IInv'
      BY <2>3, <2>5, MissAllStep, ClickSubMenuStep, PickStep, PickAndStayStep
    <2> QED
      BY <1>1, <2>2, <2>4, <2>5
  <1>2. CASE (\A m \in Menus : ~Open(m)) /\ Unhandled(e)
    BY <1>2, UnhandledStep
  <1> QED
    BY <1>1, <1>2 DEF HandleEvent

LEMMA OpenSubStep ==
  ASSUME IInv, OpenSub
  PROVE  IInv'
  <1>1. PICK k \in Menus, i \in Items : Waiting(k, i)
    BY DEF IInv, Phase, NoneOpen, Taking, OpenSub
  <1> DEFINE s == SubOf[k][i]
  <1>2. /\ s \in Menus /\ opening' = <<>>
        /\ parent' = [parent EXCEPT ![s] = k]
        /\ visible' = [visible EXCEPT ![s] = TRUE]
        /\ isActive' = [isActive EXCEPT ![s] = TRUE]
    <2>1. Head(opening) = <<k, s>> /\ Tail(opening) = <<>>
      BY <1>1 DEF Waiting
    <2>2. s \in Menus
      BY <1>1 DEF Waiting
    <2>3. Head(opening)[1] = k /\ Head(opening)[2] = s
      BY <2>1
    <2> QED
      BY <2>1, <2>2, <2>3 DEF OpenSub
  <1>3. Linked(parent', visible') /\ Chain(parent', visible', s)
    <2>1. Linked(parent, visible) /\ Chain(parent, visible, k)
      BY <1>1 DEF IInv, Waiting
    <2>2. PICK t \in Menus : t = s
      BY <1>2
    <2>3. SubOf[k][i] = t
      BY <2>2
    <2> HIDE DEF s
    <2> QED
      BY <1>2, <2>1, <2>2, <2>3, Opens
  <1> HIDE DEF s
  <1>4. isActive' \in [Menus -> BOOLEAN] /\ \A m \in Menus : isActive'[m] = (m = s)
    BY <1>1, <1>2 DEF Waiting, IInv, TypeOK
  <1>5. Taking(s)'
    <2>1. UNCHANGED s
      BY DEF s
    <2> QED
      BY <1>2, <1>3, <1>4, <2>1 DEF Taking
  <1>6. UNCHANGED <<pickedItem, triggeritem, triggerscript,
                    activeitem, activeitemchanged, activeShape>>
    BY DEF OpenSub, items, marks
  <1>7. MarkFollows'
    BY <1>6 DEF IInv, MarkFollows
  <1>8. Quiet'
    <2> SUFFICES ASSUME NEW a \in Menus, parent'[a] # NoMenu
                 PROVE  activeitem[parent'[a]] = None
      BY <1>6 DEF Quiet
    <2>1. CASE a = s
      BY <1>1, <1>2, <2>1 DEF Waiting, IInv, TypeOK
    <2>2. CASE a # s
      BY <1>2, <2>2 DEF IInv, TypeOK, Quiet
    <2> QED
      BY <2>1, <2>2
  <1>9. TypeOK'
    <2>1. opening' \in Seq(Menus \X Menus) /\ Len(opening') =< MaxOpening
      BY <1>2, OpeningAssumption
    <2> QED
      BY <1>3, <1>4, <1>6, <2>1 DEF IInv, TypeOK, Linked, Parents
  <1> QED
    BY <1>2, <1>3, <1>5, <1>7, <1>8, <1>9 DEF IInv, Phase

(* The steps that leave the windows and the active item alone *)
LEMMA SameWindows ==
  ASSUME IInv, UNCHANGED <<windows, activeitem>>
  PROVE  Linked(parent', visible') /\ Phase' /\ Quiet'
  <1>1. UNCHANGED <<isActive, visible, parent, opening, activeitem>>
    BY DEF windows
  <1>2. CASE NoneOpen
    BY <1>1, <1>2 DEF IInv, Quiet, Phase, NoneOpen
  <1>3. ASSUME NEW h \in Menus, Taking(h) PROVE Taking(h)'
    BY <1>1, <1>3 DEF Taking
  <1>4. ASSUME NEW k \in Menus, NEW i \in Items, Waiting(k, i) PROVE Waiting(k, i)'
    BY <1>1, <1>4 DEF Waiting
  <1> QED
    BY <1>1, <1>2, <1>3, <1>4 DEF IInv, Quiet, Phase

LEMMA NextStep ==
  ASSUME IInv, [Next]_vars
  PROVE  IInv'
  <1>1. ASSUME NEW b \in Buttons, NEW at \in [Asked -> Items \cup {None}],
               HandleEvent([button |-> b, at |-> [m \in Menus |->
                             IF m \in Asked THEN at[m] ELSE None]])
        PROVE  IInv'
    <2> DEFINE e == [button |-> b, at |-> [m \in Menus |->
                       IF m \in Asked THEN at[m] ELSE None]]
    <2>1. e \in Events
      BY DEF Events, AnyItem
    <2> HIDE DEF e
    <2> QED
      BY <1>1, <2>1, HandleEventStep DEF e
  <1>2. CASE OpenSub
    BY <1>2, OpenSubStep
  <1>3. ASSUME NEW m \in Menus, ActiveItemChanged(m)
        PROVE  IInv'
    <2>1. UNCHANGED <<windows, activeitem, items>>
      BY <1>3 DEF ActiveItemChanged
    <2>2. Linked(parent', visible') /\ Phase' /\ Quiet'
      BY <2>1, SameWindows
    <2>3. MarkFollows'
      BY <1>3 DEF ActiveItemChanged, IInv, TypeOK, MarkFollows
    <2>4. TypeOK'
      BY <1>3, <2>1 DEF ActiveItemChanged, windows, items, IInv, TypeOK
    <2> QED
      BY <2>2, <2>3, <2>4 DEF IInv
  <1>4. ASSUME NEW m \in Menus, Trigger(m)
        PROVE  IInv'
    <2>1. UNCHANGED <<windows, marks, pickedItem, triggeritem>>
      BY <1>4 DEF Trigger
    <2>2. Linked(parent', visible') /\ Phase' /\ Quiet'
      BY <2>1, SameWindows DEF marks
    <2>3. MarkFollows'
      BY <2>1 DEF marks, IInv, MarkFollows
    <2>4. TypeOK'
      BY <1>4, <2>1 DEF Trigger, windows, marks, IInv, TypeOK
    <2> QED
      BY <2>2, <2>3, <2>4 DEF IInv
  <1>5. CASE UNCHANGED vars
    <2>1. UNCHANGED <<windows, items, marks>>
      BY <1>5 DEF vars
    <2>2. Linked(parent', visible') /\ Phase' /\ Quiet'
      BY <2>1, SameWindows DEF marks
    <2>3. MarkFollows' /\ TypeOK'
      BY <2>1 DEF windows, items, marks, IInv, TypeOK, MarkFollows
    <2> QED
      BY <2>2, <2>3 DEF IInv
  <1> QED
    BY <1>1, <1>2, <1>3, <1>4, <1>5 DEF Next

LEMMA InitStep ==
  ASSUME Init
  PROVE  IInv
  <1>1. TypeOK
    BY OpeningAssumption DEF Init, TypeOK, AnyItem
  <1>2. Linked(parent, visible) /\ NoneOpen /\ Quiet /\ MarkFollows
    BY DEF Init, Linked, Parents, NoneOpen, Quiet, MarkFollows
  <1> QED
    BY <1>1, <1>2 DEF IInv, Phase

(* The menus on the screen are a chain of a menu, its submenu, and so on,   *)
(* of which the last takes events or waits; types are right.                *)
THEOREM MenusInvariant == Spec => []IInv
  <1> QED
    BY InitStep, NextStep, PTL DEF Spec

THEOREM MenusTypeOK == Spec => []TypeOK
  BY MenusInvariant, PTL DEF IInv

(* Clicks through any nesting leave one menu that takes events, or waits,   *)
(* and no menu on the screen that it does not lead up to.                   *)
THEOREM NoMenuOrphaned == Spec => []NoOrphans
  <1>1. ASSUME IInv PROVE NoOrphans
    <2> DEFINE O == {m \in Menus : Open(m)}
    <2>1. CASE NoneOpen
      <3>1. O = {} /\ Len(opening) = 0 /\ \A m \in Menus : ~visible[m]
        BY <2>1 DEF NoneOpen, Open
      <3> HIDE DEF O
      <3> QED
        BY <3>1, FS_EmptySet DEF NoOrphans, O
    <2>2. ASSUME NEW h \in Menus, Taking(h) PROVE NoOrphans
      <3>1. O = {h} /\ Len(opening) = 0 /\ Open(h)
        BY <2>2 DEF Taking, Chain, Open
      <3>2. Cardinality(O) = 1
        BY <3>1, FS_Singleton
      <3>3. \A m \in Menus : visible[m] => m \in Climbed(h, Menus)
        BY <2>2 DEF Taking, Chain, Climbed
      <3> HIDE DEF O
      <3> QED
        BY <3>1, <3>2, <3>3 DEF NoOrphans, O
    <2>3. ASSUME NEW k \in Menus, NEW i \in Items, Waiting(k, i) PROVE NoOrphans
      <3>1. O = {} /\ Len(opening) = 1 /\ 1 \in DOMAIN opening /\ opening[1][1] = k
        BY <2>3 DEF Waiting, Open
      <3>2. Cardinality(O) = 0
        BY <3>1, FS_EmptySet
      <3>3. \A m \in Menus : visible[m] => m \in Climbed(k, Menus)
        BY <2>3 DEF Waiting, Chain, Climbed
      <3> HIDE DEF O
      <3> QED
        BY <3>1, <3>2, <3>3 DEF NoOrphans, O
    <2> QED
      BY <1>1, <2>1, <2>2, <2>3 DEF IInv, Phase
  <1> QED
    BY <1>1, MenusInvariant, PTL

(* A menu has a parent exactly while it is on the screen below one that     *)
(* waits for it.                                                            *)
THEOREM ParentsAlwaysWait == Spec => []ParentsWait
  <1>1. ASSUME IInv PROVE ParentsWait
    <2> SUFFICES ASSUME NEW m \in Menus, parent[m] # NoMenu PROVE ~isActive[parent[m]]
      BY <1>1 DEF ParentsWait, IInv, Linked
    <2>1. parent[m] \in Menus
      BY <1>1 DEF IInv, TypeOK
    <2> QED
      BY <1>1, <2>1 DEF IInv, Phase, NoneOpen, Taking, Waiting, Chain
  <1> QED
    BY <1>1, MenusInvariant, PTL

(* The mark that is drawn is that of the active item, or will be redrawn. *)
THEOREM MarksFollow == Spec => []MarkFollows
  BY MenusInvariant, PTL DEF IInv

(* A release beside every menu closes them all. *)
THEOREM MissesCloseAll == Spec => MissClosesAll
  <1> DEFINE e == [button |-> "release1", at |-> [m \in Menus |-> None]]
  <1>1. ASSUME IInv, HandleEvent(e), ~\A m \in Menus : ~Open(m)
        PROVE  \A m \in Menus : ~visible'[m]
    <2>1. e \in Events /\ \A m \in Menus : e.at[m] = None
      BY DEF Events, Buttons, AnyItem
    <2>2. e.button = "release1"
      OBVIOUS
    <2> HIDE DEF e
    <2>3. PICK n \in DOMAIN Order : \E before :
            /\ Open(Order[n])
            /\ \/ Hover(Order[n], e, before)
               \/ \E t \in Tops(Order[n], Missing(e)) :
                    \/ MissAll(Order[n], t, e, before) \/ ClickSubMenu(Order[n], t, e, before)
                    \/ Pick(Order[n], t, e, before) \/ PickAndStay(Order[n], t, e, before)
      BY <1>1 DEF HandleEvent
    <2>4. PICK h \in Menus : h = Order[n]
      BY OrderAssumption
    <2>5. Taking(h)
      BY <1>1, <2>3, <2>4, OneTakes
    <2>6. ~\E before : Hover(h, e, before)
      BY <2>2 DEF Hover, Release
    <2>7. PICK t \in Tops(h, Missing(e)) : \E before :
            \/ MissAll(h, t, e, before) \/ ClickSubMenu(h, t, e, before)
            \/ Pick(h, t, e, before) \/ PickAndStay(h, t, e, before)
      BY <2>3, <2>4, <2>6
    <2>8. e.at[t] = None
      BY <2>1 DEF Tops, Ends, Above
    <2>9. PICK before : MissAll(h, t, e, before)
      BY <2>7, <2>8 DEF ClickSubMenu, Pick, PickAndStay, Plain
    <2> QED
      BY <1>1, <2>1, <2>5, <2>9, MissAllStep
  <1>2. ASSUME IInv, [Next]_vars
        PROVE  [\/ \A m \in Menus : ~Open(m)
                \/ \A m \in Menus : ~visible'[m]
                \/ ~HandleEvent(e)]_vars
    BY <1>1, <1>2
  <1> HIDE DEF e
  <1>3. Spec => [][\/ \A m \in Menus : ~Open(m)
                   \/ \A m \in Menus : ~visible'[m]
                   \/ ~HandleEvent(e)]_vars
    BY <1>2, MenusInvariant, PTL DEF Spec
  <1> QED
    BY <1>3 DEF MissClosesAll, e
=============================================================================

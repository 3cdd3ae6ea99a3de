----------------------------- MODULE OceanNodes -----------------------------
(***************************************************************************)
(* The memory the quadtrees of all OceanShapes share, node_memalloc, with  *)
(* its count of users (nodekits/OceanKit.cpp).                             *)
(***************************************************************************)
EXTENDS Integers, FiniteSets

CONSTANT Shapes

VARIABLES memalloc,   \* node_memalloc # NULL
          numnodes,
          shapes,     \* the shapes that exist
          roots       \* those with a quadtree

nodevars == <<memalloc, numnodes, shapes, roots>>

NodesInit == memalloc = FALSE /\ numnodes = 0 /\ shapes = {} /\ roots = {}

Construct(s) ==
  /\ s \notin shapes /\ shapes' = shapes \cup {s}
  /\ memalloc' = TRUE
  /\ numnodes' = IF memalloc THEN numnodes ELSE numnodes + 1
  /\ UNCHANGED roots

Destruct(s) ==
  /\ s \in shapes /\ shapes' = shapes \ {s} /\ roots' = roots \ {s}
  /\ numnodes' = numnodes - 1
  /\ memalloc' = (memalloc /\ numnodes # 1)

(* updateQuadtree, which allocates the root from the shared memory. *)
Render(s) ==
  /\ s \in shapes /\ memalloc /\ roots' = roots \cup {s}
  /\ UNCHANGED <<memalloc, numnodes, shapes>>

(* notify, for the size. *)
Resize(s) ==
  /\ s \in roots /\ roots' = roots \ {s}
  /\ UNCHANGED <<memalloc, numnodes, shapes>>

NodesNext == \E s \in Shapes : Construct(s) \/ Destruct(s) \/ Render(s) \/ Resize(s)
NodesSpec == NodesInit /\ [][NodesNext]_nodevars
-----------------------------------------------------------------------------
(* getAllocator asserts that there is memory to allocate nodes from; a     *)
(* shape that has been made needs it, and so does every node it has.       *)
MemoryThere == shapes # {} => memalloc
=============================================================================

----------------------------- MODULE DrawnNodes -----------------------------
(* What the cells and colours of a terrain, the test of depths and the      *)
(* nodes of large coordinates promise together: none knows of another.      *)
EXTENDS Scenery, Traversals

(* What rays are tested against is what is drawn; elevations have the       *)
(* colours of the fields; shapes are tested for depth as their scope says   *)
(* and lie where their positions put them, relative to the camera.          *)
DrawnRight ==
    /\ PicksWhatIsDrawn             \* the cells of SmScenery
    /\ GradientShown /\ EvenlySpread    \* and its colours
    /\ DepthRight                   \* SmDepthBuffer
    /\ PlacedRelative               \* UTMCamera, UTMPosition, UTMCoordinate
=============================================================================

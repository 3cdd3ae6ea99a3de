---------------------------- MODULE MCTerrain ----------------------------
(***************************************************************************)
(* Instances of the modules about what SmScenery and SmOceanKit draw, and  *)
(* about the rendering of a whole scene, its regions and its pictures.     *)
(* None of the parts reads what another writes, so a behaviour is one of a *)
(* single part, chosen at the start; the other parts stay as they began.   *)
(***************************************************************************)
EXTENDS SceneRendering, DrawnNodes

VARIABLES part,
          tree,   \* quadtree
          enablenodenames, enablenodetypes, enabledroptypeifname, root   \* layout

(* From far away to closer and closer to a corner, and above another. *)
CameraPlaces == {<<2, 2, 0>>, <<18, 2, 0>>, <<14, 14, 0>>, <<26, 26, 8>>, <<10, 18, 0>>,
                 <<80, 80, 0>>, <<16, 16, 24>>}
MCPlanes == << <<1, 0, 2>>, <<1, -1, -3>>, <<-1, -2, -14>> >>

(* Positions below a camera and next to transforms and coordinates, in and  *)
(* behind groups.                                                           *)
HalfTurn == <<[turn |-> -1, by |-> 3], [turn |-> 1, by |-> 1]>>
UTMScenes ==
    {<<"camera", "position", "shape", "push", "transform", "position", "transform", "shape",
       "pop", "shape">>,
     <<"transform", "camera", "push", "position", "shape", "pop", "transform", "shape",
       "position", "transform", "shape">>,
     <<"camera", "coordinate", "shape", "push", "position", "shape", "pop", "shape">>,
     <<"camera", "push", "position", "transform", "coordinate", "shape", "pop",
       "coordinate", "shape">>}

(* Depth tests in groups: another function, disabled, and cleared. *)
DepthSettings == [less |-> [func |-> "LESS", enable |-> TRUE, clearNow |-> FALSE],
                  off |-> [func |-> "LESS", enable |-> FALSE, clearNow |-> TRUE],
                  always |-> [func |-> "ALWAYS", enable |-> TRUE, clearNow |-> TRUE]]
DepthScenes == {<<a, "push", b, "shape", c, "shape", "pop", "shape">> :
                    a, b, c \in {"shape", "less", "off", "always"}}

(* Scenes as trees: narrow, wide, and deep between leaves. *)
Bushes == {<< >>} \cup {[i \in 1..n |-> << >>] : n \in 1..3}
Trees == {<< >>} \cup {<<a, b>> : a, b \in Bushes} \cup
         {<< <<a, << >> >>, << >>, << << << >>, << >> >>, a>> >> : a \in Bushes}

MCPlaces == {<<100, 5>>, <<102, 0>>}
MCPoints == {<<101, 7>>}
MCSequences == {<< >>, <<0>>, <<2, 3>>}
MCFractions == {-1, 1, 3}

Nested == INSTANCE Trees WITH MinLevel <- 1, MaxLevel <- 4, GridSize <- 5,
    Unit <- 16
quadtreevars == <<tree>>
texturesvars == <<system, didevaluate, firstGLRender, glcontextid,
    needpostframe, activescenerytexid, activetexturecontext, dotex, lines,
    texhash, block, gltextures, bound, texture2d, arrays, texwasenabled,
    used>>
cullingvars == <<blocks, cullstate>>
blocksvars == <<cell>>
colorsvars == <<ask>>
theView == <<view, colormaptexid, renderSequence, colorTexturing,
    elevationLines, viewDidevaluate, didevaluateonce, viewFirstGLRender,
    usevertexarrays, etexscale, elevationlinesimage, texturesize, called>>
theManager == <<rendermode, stereomode, texturesenabled, managerCamera, held,
    freed, graph, mask, channels, depth, managerFrame>>
theRegion == <<origin, size, pixelOrigin, pixelSize, flip, clampSize,
    clearBuffer, usepixelorigin, usepixelsize, viewport, cleared, edited>>
layoutvars == <<enablenodenames, enablenodetypes, enabledroptypeifname, root>>
allvars == <<part, quadtreevars, texturesvars, cullingvars, blocksvars,
    colorsvars, theView, theManager, theRegion, layoutvars, depthvars,
    utmvars>>

Init == /\ part \in {"quadtree", "textures", "culling", "blocks", "colors",
                "view", "manager", "region", "layout", "depth", "utm"}
        /\ Nested!Init /\ SceneInit /\ CullInit /\ BlocksInit
        /\ ColorsInit /\ ViewInit /\ ManagerInit /\ RegionInit
        /\ Nested!LayoutInit /\ DepthInit /\ UTMInit
        /\ (part # "view" => view = None)

OnlyQuadtree == /\ part = "quadtree" /\ Nested!Next
                /\ UNCHANGED <<texturesvars, cullingvars, blocksvars,
                               colorsvars, theView, theManager, theRegion,
                               layoutvars, depthvars, utmvars>>
OnlyTextures == /\ part = "textures" /\ SceneNext
                /\ UNCHANGED <<quadtreevars, cullingvars, blocksvars,
                               colorsvars, theView, theManager, theRegion,
                               layoutvars, depthvars, utmvars>>
OnlyCulling == /\ part = "culling" /\ CullNext
               /\ UNCHANGED <<quadtreevars, texturesvars, blocksvars,
                              colorsvars, theView, theManager, theRegion,
                              layoutvars, depthvars, utmvars>>
OnlyBlocks == /\ part = "blocks" /\ BlocksNext
              /\ UNCHANGED <<quadtreevars, texturesvars, cullingvars,
                             colorsvars, theView, theManager, theRegion,
                             layoutvars, depthvars, utmvars>>
OnlyColorMap == /\ part = "colors" /\ ColorsNext
                /\ UNCHANGED <<quadtreevars, texturesvars, cullingvars,
                               blocksvars, theView, theManager, theRegion,
                               layoutvars, depthvars, utmvars>>
OnlyView == /\ part = "view" /\ ViewNext
            /\ UNCHANGED <<quadtreevars, texturesvars, cullingvars,
                           blocksvars, colorsvars, theManager, theRegion,
                           layoutvars, depthvars, utmvars>>
OnlyManager == /\ part = "manager" /\ ManagerNext
               /\ UNCHANGED <<quadtreevars, texturesvars, cullingvars,
                              blocksvars, colorsvars, theView, theRegion,
                              layoutvars, depthvars, utmvars>>
OnlyRegion == /\ part = "region" /\ RegionNext
              /\ UNCHANGED <<quadtreevars, texturesvars, cullingvars,
                             blocksvars, colorsvars, theView, theManager,
                             layoutvars, depthvars, utmvars>>
OnlyPicture == /\ part = "layout" /\ Nested!LayoutNext
               /\ UNCHANGED <<quadtreevars, texturesvars, cullingvars,
                              blocksvars, colorsvars, theView, theManager,
                              theRegion, depthvars, utmvars>>
OnlyDepthTest == /\ part = "depth" /\ DepthNext
                 /\ UNCHANGED <<quadtreevars, texturesvars, cullingvars,
                                blocksvars, colorsvars, theView, theManager,
                                theRegion, layoutvars, utmvars>>
OnlyPlacing == /\ part = "utm" /\ UTMNext
               /\ UNCHANGED <<quadtreevars, texturesvars, cullingvars,
                              blocksvars, colorsvars, theView, theManager,
                              theRegion, layoutvars, depthvars>>
Next == /\ UNCHANGED part
        /\ \/ OnlyQuadtree \/ OnlyTextures \/ OnlyCulling \/ OnlyBlocks
           \/ OnlyColorMap \/ OnlyView \/ OnlyManager \/ OnlyRegion
           \/ OnlyPicture \/ OnlyDepthTest \/ OnlyPlacing

(* What SceneRenderingProofs assumes of the constants holds of these. *)
ASSUME RenderingAssumption ==
    SceneAssumption /\ CullAssumption /\ ManagerAssumption /\ RegionAssumption
ASSUME DrawingAssumption ==
    BlocksAssumption /\ ColorsAssumption /\ DepthAssumption /\ UtmAssumption

Spec == Init /\ [][Next]_allvars
-----------------------------------------------------------------------------
(* The surface of the sea has no cracks, however the camera moves; the      *)
(* picture of a scene graph has its nodes apart.                            *)
TreesFit == /\ part = "quadtree" => Nested!NoCracks
            /\ part = "layout" => Nested!LayoutRight
=============================================================================

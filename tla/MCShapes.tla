---------------------------- MODULE MCShapes ----------------------------
(***************************************************************************)
(* Instances of the modules about shapes: what is drawn and picked of them *)
(* comes from caches and buffers that have to follow their fields.  No     *)
(* shape knows of another, so a behaviour is one of a single part, chosen  *)
(* at the start; the other parts stay as they began.  One part is the hash *)
(* table that Envelope keeps its points and materials in.                  *)
(***************************************************************************)
EXTENDS VertexBuffers, WavesAndClouds

CONSTANTS NoTexture, Undefined, NoObject, Object, NotRendered

VARIABLES part,
          meshlist, alltextures, bbox, written, imported,   \* envelope
          spine, tubeRadius, circleSegmentCount, crossSection, extrusionDirty,
          strips, lod,   \* extrusion
          string, position, justification, renderOutline, maxStringsToRender,
          font, text2setDirty, prevfont, glyphs, bboxes, textdistancelist,
          text2setDrawn,   \* text2set
          collectorScene, pass, pc, collecting, storeitems, items,
          collectorFont, fontstack, collectorDrawn,   \* collector
          image, kerningdict, glimage, shown,   \* font
          fields, sent, generated,   \* boards
          list,   \* lists
          table, returned,   \* chains
          curve, complexity, linesPerSegment, curveDrawn, edited,   \* curve
          level, radius, currlevel, geometry, sphereDrawn,   \* sphere
          coordElement, markersStartIndex, markersNumPoints,
          maxMarkersToRender, markerIndex, perVertex, pointdistancelist,
          markersDrawn   \* markers

(* Envelope: triangles between the corners and the middle of a cube. *)
Tri(pts, cols) == [pts |-> pts, cols |-> cols]
EnvelopeShapes ==
    LET o == <<0, 0, 0>>  a == <<2, 0, 0>>  b == <<0, 2, 0>>  c == <<0, 0, 2>>
        m == <<1, 1, 1>>  f == <<2, 2, 2>>
        red == <<"red", "red", "red">>
    IN  {[tex |-> "wood", mat |-> "red", tris |-> <<Tri(<<o, a, b>>, red), Tri(<<m, f, c>>, red)>>],
         [tex |-> "wood", mat |-> "red", tris |-> <<Tri(<<f, a, c>>, <<"red", "blue", "red">>)>>],
         [tex |-> NoTexture, mat |-> "red", tris |-> <<Tri(<<m, o, c>>, red)>>],
         [tex |-> "iron", mat |-> "blue",
          tris |-> <<Tri(<<a, b, c>>, <<"blue", "red", "blue">>),
                     Tri(<<f, m, o>>, <<"blue", "blue", "blue">>)>>]}
EnvelopeScenes == UNION {[1..n -> EnvelopeShapes] : n \in 1..2}

(* SoLODExtrusion: near and far, closed, standing still, turning back. *)
Spines == {<<0, 1>>, <<0, 3, 7, 10, 4, 0>>, <<9, 4, 5, 2, 0, 6, 8>>, <<4, 0, 4>>,
           <<10, 9, 2>>, <<0, 8, 1, 9, 2>>}

(* InterleavedArraysShape: every binding and transparency between them. *)
Packing(n, normal, color, texcoord, mbind, nbind, alpha) ==
    [n |-> n, normal |-> normal, color |-> color, texcoord |-> texcoord,
     mbind |-> mbind, nbind |-> nbind, alpha |-> alpha]
MCProperties == {Packing(2, 2, 2, 2, TRUE, TRUE, FALSE), Packing(4, 4, 4, 0, TRUE, FALSE, TRUE)}

(* SmVertexArrayShape: triangles alone or with lines. *)
MCIndexLists == {<< >>, << <<5, <<0, 1, 2>> >> >>, << <<5, <<0, 1, 2>> >>, <<6, <<2, 1>> >> >>}
ArrayNodes == [coord |-> {<<1, 1>>, <<2, 1>>}, normal |-> {<<1, 1>>}, texcoord |-> {},
               color |-> {<<2, 1>>, <<2, 2>>}]

(* SoText2Set: the widths of two letters in two fonts. *)
Strings == {<< <<2, 1, 1>> >>, << <<1, 2, 1>>, <<2, 1>>, <<1>> >>, << <<1, 2>>, << >>, <<2, 2>> >>}
Widths(l, f) == l * f

(* SmTextureText2Collector: texts before, in, between and after collectors. *)
TextNode(strings, dists, indices, perpart, transparent, maxRange) ==
    [kind |-> "text", strings |-> strings, dists |-> dists, indices |-> indices,
     perpart |-> perpart, transparent |-> transparent, maxRange |-> maxRange]
Collector == [kind |-> "collector"]
End == [kind |-> "end"]
TextNodes == {TextNode(<<"a", "b">>, <<1, 5>>, << >>, TRUE, FALSE, 0),
              TextNode(<<"a", "b">>, <<2>>, << >>, TRUE, TRUE, 2),
              TextNode(<<"c">>, <<2>>, <<1, 1>>, FALSE, TRUE, 1),
              TextNode(<<"d", "e", "">>, <<1, 2, 3>>, <<3, 2>>, TRUE, FALSE, 2),
              TextNode(<<"">>, <<1>>, << >>, TRUE, FALSE, 0),
              [kind |-> "font", font |-> "big"]}
TextScenes == {<<a, Collector, b, End, c>> : a, b, c \in TextNodes} \cup
              {<<Collector, a, End, Collector, b, End>> : a, b \in TextNodes}

(* SmTextureFont: glyphs that fill their slots or hang over. *)
Glyph(gw, gfx, xoffset, opaque) ==
    [gw |-> gw, gfx |-> gfx, xoffset |-> xoffset, opaque |-> opaque]
Glyphs == {Glyph(3, 3, 0, {0, 2}), Glyph(2, 3, -1, {0, 1}), Glyph(3, -1, 0, {1, 3})}

(* Coinboard: places without a share of the coordinates, and odd shares. *)
Boards == [position: {0, 1, 2}, coord: {2, 8, 12},
           numVertices: {<<-1>>, <<4>>, <<4, 4>>, <<3, 5>>},
           shapeType: {"TRIANGLES", "QUADS", "TRIANGLE_STRIP", "TRIANGLE_FAN"},
           free: BOOLEAN, texture: BOOLEAN]

(* SmHashChains: every key has the same place in a table of 67.  With a load *)
(* factor of 1/20 a resize resizes again while it transfers.                 *)
HashKeys == {0, 67, 134}

(* SmToVertexArrayShapeAction: one colour, two, two with one transparency, no triangle. *)
Vertex(v, tc, midx) == [v |-> v, tc |-> tc, midx |-> midx]
Soup(vs, diffuse, transp, packed, texture) ==
    [vertices |-> vs, diffuse |-> diffuse, transp |-> transp, packed |-> packed,
     texture |-> texture]
TwoTriangles == <<Vertex(1, 1, 0), Vertex(2, 1, 0), Vertex(3, 1, 1),
                  Vertex(3, 1, 1), Vertex(2, 1, 0), Vertex(2, 2, 0)>>
OneTriangle == <<Vertex(1, 1, 1), Vertex(2, 1, 1), Vertex(1, 1, 1)>>
Soups == {Soup(TwoTriangles, <<"red", "blue">>, <<0, 1>>, p, t) : p, t \in BOOLEAN} \cup
         {Soup(OneTriangle, <<"red", "blue">>, <<0>>, FALSE, TRUE),
          Soup(OneTriangle, <<"red", "red">>, <<0, 0>>, TRUE, TRUE),
          Soup(TwoTriangles, <<"red", "red">>, <<1>>, FALSE, TRUE),
          Soup(<< >>, <<"red">>, <<0>>, TRUE, FALSE)}

(* SmMarkerSet: a point out of sight, equal distances, a marker that is NONE. *)
NoMarker == -1

(* SoTCBCurve: with and without times, from one point to four. *)
Curves == {[coords |-> c, timestamp |-> t] : c \in {<<0, 1, 3, 4>>, <<2, 3, 4, 5>>, <<5, 0, 0, 2>>},
                                             t \in {<<0, 1, 3, 4>>, <<0, 1, 2, 3>>, <<2, 3, 5, 7>>}} \cup
          {[coords |-> <<3>>, timestamp |-> <<0>>], [coords |-> <<3, 5>>, timestamp |-> <<0, 3>>]}

MCIndexFields == {<< >>, <<0>>, <<1>>}
MCOverrides == {<<"none", "none">>, <<"vertex", "overall">>}
MCClouds == {<<1, 5, 3>>, <<7, 2>>}
MCCounts == {-1, 1}

Hull == INSTANCE Envelope WITH Scenes <- EnvelopeScenes, Levels <- {0, 1},
    MaxImports <- 1
Surface == INSTANCE Surfaces WITH Cameras <- {0, 4}, LodDistance1 <- 3,
    LodDistances2 <- {-1, 6}, Segments <- {3, 5}, dirty <- extrusionDirty,
    Shapes <- Boards, NoTexture <- 0, Levels <- {0, 3, 4}, DefaultLevel <- 3,
    Radii <- {1, 2}, DEFAULTSIZE <- 4
Writing == INSTANCE Texts WITH
    Positions <- {<<1>>, <<-1, 3, 1>>, <<3, 1, 1>>}, Counts <- {-1, 1, 2},
    Fonts <- {1, 2}, Visible <- {0, 1, 3}, dirty <- text2setDirty,
    drawn <- text2setDrawn, Scenes <- TextScenes, Near <- 0, Far <- 3,
    DefaultFont <- "default", scene <- collectorScene, Letters <- {1, 2},
    Kernings <- {1, 3}, SlotWidth <- 4,
    Texts <- {<<1>>, <<1, 2, 1>>, <<2, 2, 1>>}, Ascents <- {8, 9},
    Descents <- {2, 3}
Buffers == INSTANCE SbList WITH Lists <- {"s", "t"}, Items <- {Object, None},
    MaxItems <- 2, DEFAULTSIZE <- 1, Junk <- Undefined
Chains == INSTANCE SmHashChains WITH Tables <- {"s", "t"}, Keys <- HashKeys,
    Objects <- {Object}, Hash <- [k \in HashKeys |-> k], SizeArg <- 2,
    LoadNum <- 1, LoadDen <- 20
Dots == INSTANCE PointShapes WITH Complexities <- {0, 1, 2, 3},
    drawn <- curveDrawn, Clouds <- {<<3, 1, 2>>, <<2, 4>>, <<5, 1, 5>>},
    MarkerIndices <- {<<0, NoMarker>>, <<1, 2, 0>>},
    Ranges <- {<<0, -1>>, <<0, 2>>, <<1, 1>>}, Maxima <- {-1, 1, 2},
    Culled <- {4}, NONE <- NoMarker, startIndex <- markersStartIndex,
    numPoints <- markersNumPoints

seavars == <<frequency, enableEffects, pending, timer, timerTrigged,
    invalidstate, geowaves, texwaves>>
envelopevars == <<meshlist, alltextures, bbox, written, imported>>
extrusionvars == <<spine, tubeRadius, circleSegmentCount, crossSection,
    extrusionDirty, strips, lod>>
interleavedvars == <<vp, packedVertexIndex, vbo, indexvbo, layout, useshorts,
    transparency, packedBuffers, deletions, drawing>>
arraysvars == <<array, vertexIndex, renderAsVBO, dirty, indexlist,
    onlyoneindexlist, numtriangles, colorbytes, prevcontextid, vbodict,
    buffers, drawn>>
text2setvars == <<string, position, justification, renderOutline,
    maxStringsToRender, font, text2setDirty, prevfont, glyphs, bboxes,
    textdistancelist, text2setDrawn>>
collectorvars == <<collectorScene, pass, pc, collecting, storeitems, items,
    collectorFont, fontstack, collectorDrawn>>
fontvars == <<image, kerningdict, glimage, shown>>
boardsvars == <<fields, sent, generated>>
listsvars == <<list>>
chainsvars == <<table, returned>>
theCloud == <<coords, numPoints, startIndex, detailDistance, shape, pervertex,
    lighting, culling, cloudDrawn>>
meshesvars == <<content, datasize, didalloc, vbohash, scheduled, glbuffers>>
madevars == <<scene, useifs, lists>>
curvevars == <<curve, complexity, linesPerSegment, curveDrawn, edited>>
spherevars == <<level, radius, currlevel, geometry, sphereDrawn>>
markersvars == <<coordElement, markersStartIndex, markersNumPoints,
    maxMarkersToRender, markerIndex, perVertex, pointdistancelist,
    markersDrawn>>
allvars == <<part, seavars, envelopevars, extrusionvars, interleavedvars,
    arraysvars, text2setvars, collectorvars, fontvars, boardsvars, listsvars,
    chainsvars, theCloud, meshesvars, madevars, curvevars, spherevars,
    markersvars>>

Init == /\ part \in {"sea", "envelope", "extrusion", "interleaved", "arrays",
                "text2set", "collector", "font", "boards", "lists",
                "chains", "cloud", "meshes", "made", "curve",
                "sphere", "markers"}
        /\ OceanInit /\ Hull!EnvInit /\ Surface!LODInit /\ IInit /\ VInit
        /\ Writing!TextInit /\ Writing!CollectInit /\ Writing!FontInit
        /\ Surface!BoardsInit /\ Buffers!ListInit /\ Chains!Init
        /\ CloudInit /\ VBOInit /\ ArraysInit /\ Dots!CurveInit
        /\ Surface!SphereInit /\ Dots!MarkersInit
        /\ (part # "markers" => coordElement = <<3, 1, 2>>)

OnlySea == /\ part = "sea" /\ OceanNext
           /\ UNCHANGED <<envelopevars, extrusionvars, interleavedvars,
                          arraysvars, text2setvars, collectorvars, fontvars,
                          boardsvars, listsvars, chainsvars, theCloud,
                          meshesvars, madevars, curvevars, spherevars,
                          markersvars>>
OnlyHull == /\ part = "envelope" /\ Hull!EnvNext
            /\ UNCHANGED <<seavars, extrusionvars, interleavedvars,
                           arraysvars, text2setvars, collectorvars, fontvars,
                           boardsvars, listsvars, chainsvars, theCloud,
                           meshesvars, madevars, curvevars, spherevars,
                           markersvars>>
OnlyTube == /\ part = "extrusion" /\ Surface!LODNext
            /\ UNCHANGED <<seavars, envelopevars, interleavedvars, arraysvars,
                           text2setvars, collectorvars, fontvars, boardsvars,
                           listsvars, chainsvars, theCloud, meshesvars,
                           madevars, curvevars, spherevars, markersvars>>
OnlyPacked == /\ part = "interleaved" /\ INext
              /\ UNCHANGED <<seavars, envelopevars, extrusionvars, arraysvars,
                             text2setvars, collectorvars, fontvars,
                             boardsvars, listsvars, chainsvars, theCloud,
                             meshesvars, madevars, curvevars, spherevars,
                             markersvars>>
OnlyArrays == /\ part = "arrays" /\ VNext
              /\ UNCHANGED <<seavars, envelopevars, extrusionvars,
                             interleavedvars, text2setvars, collectorvars,
                             fontvars, boardsvars, listsvars, chainsvars,
                             theCloud, meshesvars, madevars, curvevars,
                             spherevars, markersvars>>
OnlyText2 == /\ part = "text2set" /\ Writing!TextNext
             /\ UNCHANGED <<seavars, envelopevars, extrusionvars,
                            interleavedvars, arraysvars, collectorvars,
                            fontvars, boardsvars, listsvars, chainsvars,
                            theCloud, meshesvars, madevars, curvevars,
                            spherevars, markersvars>>
OnlyGathered == /\ part = "collector" /\ Writing!CollectNext
                /\ UNCHANGED <<seavars, envelopevars, extrusionvars,
                               interleavedvars, arraysvars, text2setvars,
                               fontvars, boardsvars, listsvars, chainsvars,
                               theCloud, meshesvars, madevars, curvevars,
                               spherevars, markersvars>>
OnlyFont == /\ part = "font" /\ Writing!FontNext
            /\ UNCHANGED <<seavars, envelopevars, extrusionvars,
                           interleavedvars, arraysvars, text2setvars,
                           collectorvars, boardsvars, listsvars, chainsvars,
                           theCloud, meshesvars, madevars, curvevars,
                           spherevars, markersvars>>
OnlyBoard == /\ part = "boards" /\ Surface!BoardsNext
             /\ UNCHANGED <<seavars, envelopevars, extrusionvars,
                            interleavedvars, arraysvars, text2setvars,
                            collectorvars, fontvars, listsvars, chainsvars,
                            theCloud, meshesvars, madevars, curvevars,
                            spherevars, markersvars>>
OnlyBuffers == /\ part = "lists" /\ Buffers!ListNext
               /\ UNCHANGED <<seavars, envelopevars, extrusionvars,
                              interleavedvars, arraysvars, text2setvars,
                              collectorvars, fontvars, boardsvars, chainsvars,
                              theCloud, meshesvars, madevars, curvevars,
                              spherevars, markersvars>>
OnlyChains == /\ part = "chains" /\ Chains!Next
              /\ UNCHANGED <<seavars, envelopevars, extrusionvars,
                             interleavedvars, arraysvars, text2setvars,
                             collectorvars, fontvars, boardsvars, listsvars,
                             theCloud, meshesvars, madevars, curvevars,
                             spherevars, markersvars>>
OnlyCloud == /\ part = "cloud" /\ CloudNext
             /\ UNCHANGED <<seavars, envelopevars, extrusionvars,
                            interleavedvars, arraysvars, text2setvars,
                            collectorvars, fontvars, boardsvars, listsvars,
                            chainsvars, meshesvars, madevars, curvevars,
                            spherevars, markersvars>>
OnlyMeshes == /\ part = "meshes" /\ VBONext
              /\ UNCHANGED <<seavars, envelopevars, extrusionvars,
                             interleavedvars, arraysvars, text2setvars,
                             collectorvars, fontvars, boardsvars, listsvars,
                             chainsvars, theCloud, madevars, curvevars,
                             spherevars, markersvars>>
OnlyMade == /\ part = "made" /\ ArraysNext
            /\ UNCHANGED <<seavars, envelopevars, extrusionvars,
                           interleavedvars, arraysvars, text2setvars,
                           collectorvars, fontvars, boardsvars, listsvars,
                           chainsvars, theCloud, meshesvars, curvevars,
                           spherevars, markersvars>>
OnlyCurve == /\ part = "curve" /\ Dots!CurveNext
             /\ UNCHANGED <<seavars, envelopevars, extrusionvars,
                            interleavedvars, arraysvars, text2setvars,
                            collectorvars, fontvars, boardsvars, listsvars,
                            chainsvars, theCloud, meshesvars, madevars,
                            spherevars, markersvars>>
OnlyBall == /\ part = "sphere" /\ Surface!SphereNext
            /\ UNCHANGED <<seavars, envelopevars, extrusionvars,
                           interleavedvars, arraysvars, text2setvars,
                           collectorvars, fontvars, boardsvars, listsvars,
                           chainsvars, theCloud, meshesvars, madevars,
                           curvevars, markersvars>>
OnlyMarks == /\ part = "markers" /\ Dots!MarkersNext
             /\ UNCHANGED <<seavars, envelopevars, extrusionvars,
                            interleavedvars, arraysvars, text2setvars,
                            collectorvars, fontvars, boardsvars, listsvars,
                            chainsvars, theCloud, meshesvars, madevars,
                            curvevars, spherevars>>
Next == /\ UNCHANGED part
        /\ \/ OnlySea \/ OnlyHull \/ OnlyTube \/ OnlyPacked \/ OnlyArrays
           \/ OnlyText2 \/ OnlyGathered \/ OnlyFont \/ OnlyBoard
           \/ OnlyBuffers \/ OnlyChains \/ OnlyCloud \/ OnlyMeshes
           \/ OnlyMade \/ OnlyCurve \/ OnlyBall \/ OnlyMarks

(* What VertexBuffersProofs assumes of the constants holds of these. *)
ASSUME BuffersAssumption == VAssumption /\ IAssumption
ASSUME SmoothAssumption == OceanAssumption /\ CloudAssumption

Spec == Init /\ [][Next]_allvars /\ OceanFairness
-----------------------------------------------------------------------------
(* The texts nearest to the camera are drawn with the glyphs of the font,    *)
(* and found where they are drawn; the image of a font is the one GL has;    *)
(* a text below a collector is drawn once, in the right pass.                *)
TextsFollow == /\ part = "text2set" => /\ Writing!NearestDrawn /\ Writing!PicksWhatIsDrawn
                                       /\ Writing!FontDrawn
               /\ part = "font" => /\ Writing!GlyphsCurrent /\ Writing!PixelsRight
                                   /\ Writing!LaidOutAlike
               /\ part = "collector" => Writing!TextsOnce

(* Nothing is lost, drawn twice or out of its place: the triangles an        *)
(* envelope has read, the levels of a tube, shapes made into vertex arrays,  *)
(* the segments of a curve, boards and what is picked of them, the triangles *)
(* of a sphere and its texture, the nearest markers of a set; and below them *)
(* a hash table visits its entries once, and lists have the room they need.  *)
GeometryRight == /\ part = "envelope" => Hull!SceneKept
                 /\ part = "extrusion" => Surface!TubeRight
                 /\ part = "chains" => Chains!VisitedOnce
                 /\ part = "lists" => Buffers!Sound
                 /\ part = "made" => ShapesKept
                 /\ part = "curve" => Dots!CurveRight
                 /\ part = "sphere" => Surface!SphereRight
                 /\ part = "markers" => Dots!NearestDrawn
                 /\ part = "boards" => Surface!PicksWhatIsDrawn /\ Surface!BoardsApart

(* The chains of a hash table, their recursive growth included, implement    *)
(* the table of sets that the proofs are about; lists of which the buffers   *)
(* move are sequences.                                                       *)
ContainersImplement ==
    /\ Chains!Sets!Init /\ Buffers!Contents!Init
    /\ [][/\ part = "chains" => [Chains!Sets!Next]_chainsvars
          /\ part = "lists" => [Buffers!Contents!Next]_(Buffers!Contents!vars)]_allvars
=============================================================================

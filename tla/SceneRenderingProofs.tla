----------------------- MODULE SceneRenderingProofs -----------------------
(* What SmScenery and a scene are rendered through, proved: that the frames *)
(* are drawn right, and that what is in use is kept; that a bound viewpoint *)
(* moves with the camera; and that the nodes are drawn right: blocks,       *)
(* colours, depth tests and positions.                                      *)
EXTENDS SceneRendering, ViewpointWrapper, DrawnNodes, FiniteSetTheorems, SequenceTheorems,
        WellFoundedInduction, TLAPS
-----------------------------------------------------------------------------
(* Regions of the window (nodes/ViewportRegion.cpp) *)

Region == [window : Windows, org : Int, siz : Int]

RegionTypeOK ==
  /\ origin \in Int /\ size \in Int /\ pixelOrigin \in Int /\ pixelSize \in Int
  /\ flip \in BOOLEAN /\ clampSize \in BOOLEAN /\ edited \in BOOLEAN
  /\ usepixelorigin \in BOOLEAN /\ usepixelsize \in BOOLEAN
  /\ viewport \in Region \cup {None}

(* The region that the fields ask for in a window. *)
Asked(w) == [window |-> w, org |-> IF flip THEN Whole - Org(w) - Siz(w) ELSE Org(w),
             siz |-> Siz(w)]

RegionInv ==
  /\ RegionTypeOK /\ InWindow
  /\ ~edited => viewport # None
  /\ ~edited => \A w \in Windows : viewport.window = w => viewport = Asked(w)

(* Pixels that came from a fraction give the fraction back. *)
LEMMA DivBack ==
  ASSUME NEW o \in Int, NEW w \in Nat \ {0}
  PROVE  (o * w) \div w = o
BY SMT

(* What an origin and a size come out as. *)
LEMMA OrgIs ==
  ASSUME RegionAssumption, RegionTypeOK, NEW w \in Nat \ {0}
  PROVE  /\ AskedSize(w) \in 0..Whole /\ AskedOrigin(w) \in Int
         /\ Org(w) \in Nat /\ Siz(w) \in Int
         /\ Siz(w) >= 0 => Org(w) + Siz(w) <= Whole
<1>1. AskedSize(w) \in 0..Whole
  <2>1. pixelSize \div w \in Int  BY DEF RegionTypeOK
  <2>2. (IF usepixelsize THEN pixelSize \div w ELSE size) \in Int
    BY <2>1 DEF RegionTypeOK
  <2> QED BY <2>2 DEF AskedSize, Clamp, RegionAssumption
<1>2. AskedOrigin(w) \in Int
  <2>1. pixelOrigin \div w \in Int  BY DEF RegionTypeOK
  <2> QED BY <2>1 DEF AskedOrigin, RegionTypeOK
<1> QED
  BY <1>1, <1>2 DEF Org, Siz, Fits, RegionAssumption, RegionTypeOK

(* The fields are written back as what they were understood to be: asked *)
(* again, they say the same.                                              *)
LEMMA AskedAgain ==
  ASSUME RegionAssumption, RegionTypeOK, NEW w \in Nat \ {0}, NEW m, DoAction(w, m)
  PROVE  Org(w)' = Org(w) /\ Siz(w)' = Siz(w)
<1>1. AskedSize(w)' = AskedSize(w)  BY DEF AskedSize, DoAction
<1>2. AskedOrigin(w)' = Org(w)
  <2>1. (Org(w) * w) \div w = Org(w)  BY OrgIs, DivBack
  <2> QED BY <2>1 DEF AskedOrigin, DoAction
<1>3. PICK o \in Int, s \in 0..Whole : o = AskedOrigin(w) /\ s = AskedSize(w)
  BY OrgIs
<1>4. clampSize' = clampSize  BY DEF DoAction
<1> QED
  BY <1>1, <1>2, <1>3, <1>4 DEF Org, Siz, Fits, RegionAssumption, RegionTypeOK

LEMMA RegionStep ==
  ASSUME RegionAssumption, RegionInv, [RegionNext]_regionvars
  PROVE  /\ RegionInv'
         /\ ~edited /\ ~edited' /\ viewport'.window = viewport.window
              => viewport' = viewport
<1> USE DEF RegionInv
<1>1. ASSUME NEW w \in Windows, NEW m \in BOOLEAN, DoAction(w, m)
      PROVE  /\ RegionInv'
             /\ ~edited /\ ~edited' /\ viewport'.window = viewport.window
                  => viewport' = viewport
  <2>1. w \in Nat \ {0}  BY DEF RegionAssumption
  <2>2. /\ Org(w) \in Nat /\ Siz(w) \in Int
        /\ Siz(w) >= 0 => Org(w) + Siz(w) <= Whole
    BY <2>1, OrgIs
  <2>3. viewport' = Asked(w)  BY <1>1 DEF DoAction, Asked
  <2>4. Asked(w)' = Asked(w)
    BY <1>1, <2>1, AskedAgain DEF Asked, DoAction
  <2>5. viewport' \in Region
    BY <2>2, <2>3 DEF Asked, Region, RegionAssumption, RegionTypeOK
  <2>6. viewport'.window = w  BY <2>3 DEF Asked
  <2>7. RegionTypeOK'
    <3>1. Org(w) * w \in Int  BY <2>1, <2>2
    <3>2. origin' = Org(w) /\ pixelOrigin' = Org(w) * w /\ edited' = FALSE
      BY <1>1 DEF DoAction
    <3>3. Org(w) \in Int  BY <2>2
    <3>5. origin' \in Int /\ pixelOrigin' \in Int /\ edited' \in BOOLEAN
      BY <3>1, <3>2, <3>3, Zenon
    <3>4. UNCHANGED <<size, pixelSize, flip, clampSize, usepixelorigin, usepixelsize>>
      BY <1>1 DEF DoAction
    <3> QED BY <2>5, <3>4, <3>5 DEF RegionTypeOK
  <2>8. InWindow'
    BY <2>2, <2>3 DEF InWindow, Asked, RegionAssumption, RegionTypeOK
  <2>9. viewport' # None  BY <2>5 DEF RegionAssumption, Region
  <2>10. \A v \in Windows : viewport'.window = v => viewport' = Asked(v)'
    <3> SUFFICES ASSUME NEW v \in Windows, viewport'.window = v
                 PROVE  viewport' = Asked(v)'
      OBVIOUS
    <3>1. v = w  BY <2>6
    <3> QED BY <2>3, <2>4, <3>1
  <2>11. ASSUME ~edited, viewport'.window = viewport.window
         PROVE  viewport' = viewport
    BY <2>3, <2>6, <2>11
  <2> QED BY <2>7, <2>8, <2>9, <2>10, <2>11
<1>2. ASSUME edited', RegionTypeOK', UNCHANGED viewport
      PROVE  RegionInv'
  BY <1>2 DEF InWindow
<1>3. CASE UNCHANGED regionvars
  BY <1>3 DEF regionvars, RegionTypeOK, InWindow, Asked, Org, Siz, Fits, AskedOrigin,
              AskedSize
<1>4. CASE \E o \in Fractions : SetOrigin(o) \/ SetSize(o)
  BY <1>2, <1>4 DEF SetOrigin, SetSize, RegionTypeOK, RegionAssumption
<1>5. CASE \E p \in Pixels : SetPixelOrigin(p) \/ SetPixelSize(p)
  BY <1>2, <1>5 DEF SetPixelOrigin, SetPixelSize, RegionTypeOK, RegionAssumption
<1>6. CASE \E f, c, b \in BOOLEAN : SetFlags(f, c, b)
  BY <1>2, <1>6 DEF SetFlags, RegionTypeOK
<1> QED BY <1>1, <1>3, <1>4, <1>5, <1>6 DEF RegionNext

LEMMA RegionStart == RegionAssumption /\ RegionInit => RegionInv
<1> SUFFICES ASSUME RegionAssumption, RegionInit PROVE RegionInv
  OBVIOUS
<1>1. Whole \in Int /\ 0 \in Int  BY DEF RegionAssumption
<1> QED BY <1>1 DEF RegionInit, RegionInv, RegionTypeOK, InWindow
-----------------------------------------------------------------------------
(* The shared view of SmScenery (nodes/Scenery.cpp) *)

Kinds == {None, "plane", "ray", "va", "gl", "gen"}
AnySequence == Sequences \cup {<< >>, <<0>>, <<ColorTexture, 0>>}
Views == [culling : Kinds, pre : Kinds, post : Kinds, render : Kinds,
          undef : Kinds, sequence : AnySequence]

(* Between operations the view culls nothing, and the lines that are drawn  *)
(* are those of the field as soon as the size of textures is known.         *)
ViewInv ==
  /\ renderSequence \in AnySequence
  /\ elevationLines \in BOOLEAN /\ etexscale \in BOOLEAN /\ texturesize \in BOOLEAN
  /\ view # None => view \in Views /\ view.culling = None
  /\ texturesize => (etexscale <=> elevationLines)
  /\ etexscale => elevationLines
  /\ OwnCallbacks /\ LinesFollow

LEMMA SequencedIs ==
  ASSUME renderSequence \in AnySequence, NEW v \in Views
  PROVE  Sequenced(v) \in Views /\ Sequenced(v).culling = v.culling
BY DEF Sequenced, Views, AnySequence

LEMMA CulledIs ==
  ASSUME NEW v \in Views, NEW k \in Kinds
  PROVE  Culled(v, k) \in Views /\ Culled(v, k).culling = k
BY DEF Culled, Views

LEMMA ForGLIs ==
  ASSUME NEW v \in Views, NEW va \in BOOLEAN
  PROVE  /\ ForGL(v, va) \in Views /\ ForGL(v, va).culling = "plane"
         /\ ForGL(v, va).pre \in {"va", "gl"}
         /\ {ForGL(v, va).post, ForGL(v, va).render, ForGL(v, va).undef} = {ForGL(v, va).pre}
<1> DEFINE k == IF va THEN "va" ELSE "gl"
<1>1. k \in {"va", "gl"} /\ k \in Kinds /\ "plane" \in Kinds  BY DEF Kinds
<1>2. ForGL(v, va) = [[v EXCEPT !.culling = "plane"] EXCEPT !.pre = k, !.post = k,
                         !.render = k, !.undef = k]
  BY DEF ForGL, Culled
<1> HIDE DEF k
<1>3. /\ ForGL(v, va) \in Views /\ ForGL(v, va).culling = "plane"
      /\ ForGL(v, va).pre = k /\ ForGL(v, va).post = k
      /\ ForGL(v, va).render = k /\ ForGL(v, va).undef = k
  BY <1>1, <1>2 DEF Views
<1> QED BY <1>1, <1>3

LEMMA ForEvaluationIs ==
  ASSUME NEW v \in Views
  PROVE  /\ ForEvaluation(v) \in Views /\ ForEvaluation(v).culling = "plane"
         /\ ForEvaluation(v).pre = None /\ ForEvaluation(v).post = None
BY DEF ForEvaluation, Culled, Views, Kinds

LEMMA ForPrimitivesIs ==
  ASSUME NEW v \in Views
  PROVE  /\ ForPrimitives(v) \in Views /\ ForPrimitives(v).culling = v.culling
         /\ ForPrimitives(v).pre = "gen" /\ ForPrimitives(v).post = None
         /\ ForPrimitives(v).render = "gen" /\ ForPrimitives(v).undef = "gen"
BY DEF ForPrimitives, Views, Kinds

LEMMA EvaluatedIs ==
  ASSUME renderSequence \in AnySequence, NEW v \in Views, v.culling = None
  PROVE  Evaluated(v) \in Views /\ Evaluated(v).culling = None
<1>1. None \in Kinds  BY DEF Kinds
<1> QED BY <1>1, SequencedIs, ForEvaluationIs, CulledIs DEF Evaluated

(* The call of an operation that does not render draws no lines. *)
LEMMA CalledIs ==
  ASSUME NEW op, NEW v
  PROVE  /\ Called(op, v).by = op /\ Called(op, v).with = v
         /\ Called(op, v).lines = Called(op, v).wanted
BY DEF Called

LEMMA ViewStep ==
  ASSUME ViewInv, [ViewNext]_viewvars
  PROVE  ViewInv'
<1>1. ASSUME NEW opens \in BOOLEAN, NEW elevation \in BOOLEAN,
             ViewFilenameCB(opens, elevation)
      PROVE  ViewInv'
  <2>1. view' # None => view' \in Views /\ view'.culling = None
    BY <1>1 DEF ViewFilenameCB, Fresh, Views, Kinds, AnySequence, ViewInv
  <2> QED
    BY <1>1, <2>1 DEF ViewFilenameCB, ViewInv, fields, lineState, OwnCallbacks, LinesFollow
<1>2. CASE SetElevationLines
  BY <1>2 DEF SetElevationLines, ViewInv, OwnCallbacks, LinesFollow
<1>3. CASE SetColorTexturing
  BY <1>3 DEF SetColorTexturing, ViewInv, lineState, OwnCallbacks, LinesFollow
<1>4. ASSUME NEW s \in Sequences, SetSequence(s)
      PROVE  ViewInv'
  BY <1>4 DEF SetSequence, ViewInv, lineState, OwnCallbacks, LinesFollow, AnySequence
<1>5. CASE ViewEvaluate
  <2>1. UNCHANGED <<renderSequence, elevationLines, etexscale, texturesize>>
    BY <1>5 DEF ViewEvaluate, fields, lineState
  <2>2. view' # None => view' \in Views /\ view'.culling = None
    <3>1. CASE view = None
      BY <1>5, <3>1 DEF ViewEvaluate, Evaluated
    <3>2. CASE view # None
      BY <1>5, <3>2, EvaluatedIs DEF ViewEvaluate, ViewInv
    <3> QED BY <3>1, <3>2
  <2>3. OwnCallbacks' /\ LinesFollow'
    <3>1. CASE called' = called
      BY <3>1 DEF ViewInv, OwnCallbacks, LinesFollow
    <3>2. CASE called' # called
      <4> DEFINE v == ForEvaluation(Sequenced(view))
      <4>1. view # None /\ called' = Called("evaluate", v)
        BY <1>5, <3>2 DEF ViewEvaluate
      <4>2. v.culling = "plane" /\ v.pre = None /\ v.post = None
        BY <4>1, SequencedIs, ForEvaluationIs DEF ViewInv
      <4> HIDE DEF v
      <4> QED BY <4>1, <4>2, CalledIs DEF OwnCallbacks, LinesFollow
    <3> QED BY <3>1, <3>2
  <2> QED BY <2>1, <2>2, <2>3 DEF ViewInv
<1>6. ASSUME NEW a \in BOOLEAN, NEW m \in BOOLEAN, NEW q \in BOOLEAN,
             ViewGLRender(a, m, q)
      PROVE  ViewInv'
  <2> DEFINE v == ForGL(Sequenced(IF viewDidevaluate THEN view ELSE Evaluated(view)), a)
             off == viewFirstGLRender /\ ~m
  <2>1. /\ view # None /\ view' = Culled(v, None)
        /\ elevationLines' = (elevationLines /\ ~off)
        /\ etexscale' = (LinesMade /\ ~off)
        /\ texturesize' = TRUE /\ renderSequence' = renderSequence
        /\ called' = [Called("render", v) EXCEPT !.lines = etexscale' /\ q /\ m,
                        !.wanted = elevationLines' /\ q /\ m]
    BY <1>6 DEF ViewGLRender
  <2>2. /\ v \in Views /\ v.culling = "plane" /\ v.pre \in {"va", "gl"}
        /\ {v.post, v.render, v.undef} = {v.pre}
    <3> DEFINE u == IF viewDidevaluate THEN view ELSE Evaluated(view)
    <3>1. view \in Views /\ view.culling = None /\ renderSequence \in AnySequence
      BY <2>1 DEF ViewInv
    <3>2. u \in Views
      BY <3>1, EvaluatedIs
    <3> HIDE DEF u
    <3>3. Sequenced(u) \in Views
      BY <3>1, <3>2, SequencedIs
    <3>4. v = ForGL(Sequenced(u), a)
      BY DEF u
    <3> HIDE DEF v
    <3> QED BY <3>3, <3>4, ForGLIs
  <2> HIDE DEF v
  <2>3. view' \in Views /\ view'.culling = None
    BY <2>1, <2>2, CulledIs DEF Kinds
  <2>4. LinesMade <=> elevationLines  BY DEF LinesMade, ViewInv
  <2>5. etexscale' \in BOOLEAN /\ elevationLines' \in BOOLEAN
        /\ (etexscale' <=> elevationLines')
    BY <2>1, <2>4, Zenon
  <2>6. etexscale' = elevationLines'
    <3>1. CASE elevationLines'  BY <2>5, <3>1
    <3>2. CASE ~elevationLines'  BY <2>5, <3>2
    <3> QED BY <3>1, <3>2
  <2>7. called'.by = "render" /\ called'.with = v /\ called'.lines = called'.wanted
    BY <2>1, <2>6 DEF Called
  <2>8. OwnCallbacks' /\ LinesFollow'
    BY <2>2, <2>7 DEF OwnCallbacks, LinesFollow
  <2> QED BY <2>1, <2>3, <2>5, <2>8 DEF ViewInv
<1>7. CASE GeneratePrimitives
  <2>1. view # None /\ view' = ForPrimitives(Sequenced(view))
        /\ called' = Called("primitives", view')
        /\ UNCHANGED <<renderSequence, elevationLines, etexscale, texturesize>>
    BY <1>7 DEF GeneratePrimitives, Generates, fields, lineState
  <2>2. /\ view' \in Views /\ view'.culling = None /\ view'.pre = "gen"
        /\ view'.post = None /\ view'.render = "gen" /\ view'.undef = "gen"
    BY <2>1, SequencedIs, ForPrimitivesIs DEF ViewInv
  <2>3. OwnCallbacks' /\ LinesFollow'
    BY <2>1, <2>2, CalledIs DEF OwnCallbacks, LinesFollow
  <2> QED BY <2>1, <2>2, <2>3 DEF ViewInv
<1>8. CASE RayPick
  <2> DEFINE v == Culled(view, "ray")
             generated == IF Generates THEN ForPrimitives(Sequenced(v)) ELSE v
  <2>1. view # None /\ view' = Culled(generated, None)
        /\ called' = (IF Generates THEN Called("pick", generated) ELSE called)
        /\ UNCHANGED <<renderSequence, elevationLines, etexscale, texturesize>>
    BY <1>8 DEF RayPick, fields, lineState
  <2>2. v \in Views /\ v.culling = "ray"
    BY <2>1, CulledIs DEF ViewInv, Kinds
  <2> HIDE DEF v
  <2>3. /\ generated \in Views /\ generated.culling = "ray"
        /\ Generates => /\ generated.pre = "gen" /\ generated.post = None
                        /\ generated.render = "gen" /\ generated.undef = "gen"
    BY <2>2, SequencedIs, ForPrimitivesIs DEF ViewInv
  <2> HIDE DEF generated
  <2>4. view' \in Views /\ view'.culling = None
    BY <2>1, <2>3, CulledIs DEF Kinds
  <2>5. OwnCallbacks' /\ LinesFollow'
    BY <2>1, <2>3, CalledIs DEF OwnCallbacks, LinesFollow, ViewInv
  <2> QED BY <2>1, <2>4, <2>5 DEF ViewInv
<1>9. CASE UNCHANGED viewvars
  BY <1>9 DEF viewvars, fields, lineState, ViewInv, OwnCallbacks, LinesFollow
<1> QED BY <1>1, <1>2, <1>3, <1>4, <1>5, <1>6, <1>7, <1>8, <1>9 DEF ViewNext

LEMMA ViewStart == ViewInit => ViewInv
<1> SUFFICES ASSUME ViewInit PROVE ViewInv
  OBVIOUS
<1>1. Fresh \in Views /\ Fresh.culling = None
  BY DEF Fresh, Views, Kinds, AnySequence
<1>2. /\ renderSequence \in AnySequence /\ elevationLines = FALSE /\ etexscale = FALSE
      /\ texturesize = FALSE /\ called = Called("none", Fresh)
      /\ view = None \/ view = Fresh
  BY DEF ViewInit, Constructed, ConstructedFor, NoCall, AnySequence
<1>3. OwnCallbacks /\ LinesFollow  BY <1>2, CalledIs DEF OwnCallbacks, LinesFollow
<1> QED BY <1>1, <1>2, <1>3 DEF ViewInv

-----------------------------------------------------------------------------
(* The scene manager *)

GraphCameras == {graph[i] : i \in DOMAIN graph}

(* Of the cameras only those are freed that nobody holds. *)
CamerasAlive ==
  /\ held \subseteq Cameras /\ freed \subseteq Cameras /\ GraphCameras \subseteq Cameras
  /\ managerCamera \in Cameras \cup {None}
  /\ freed \cap (held \cup {managerCamera} \cup GraphCameras) = {}

ManagerInv ==
  /\ rendermode \in Modes /\ stereomode \in StereoModes /\ texturesenabled \in BOOLEAN
  /\ CamerasAlive /\ FramesRight

(* Drawn buf, eye and styles: what a pass that clears nothing makes of GL,   *)
(* that draws an eye in each of the styles.                                 *)
Drawn(buf, eye, styles) ==
  GL(buf.mask, [c \in Channels |-> IF c \in buf.mask THEN buf.channels[c] \cup ({eye} \X styles)
                                  ELSE buf.channels[c]],
     buf.depth \cup {eye})

LEMMA DrawOnce ==
  ASSUME NEW buf, NEW eye, NEW els
  PROVE  Draw(buf, eye, els, FALSE, FALSE) = Drawn(buf, eye, {els})
<1>1. {eye} \X {els} = {<<eye, els>>}  OBVIOUS
<1> QED BY <1>1 DEF Draw, Drawn, Clear, GL

LEMMA DrawTwice ==
  ASSUME NEW buf, NEW eye, NEW S, NEW T
  PROVE  Drawn(Drawn(buf, eye, S), eye, T) = Drawn(buf, eye, S \cup T)
<1> DEFINE once == Drawn(buf, eye, S)
<1>1. /\ once.mask = buf.mask /\ once.depth = buf.depth \cup {eye}
      /\ \A c \in Channels : once.channels[c] =
            IF c \in buf.mask THEN buf.channels[c] \cup ({eye} \X S) ELSE buf.channels[c]
  BY DEF Drawn, GL
<1> HIDE DEF once
<1>3. \A R : (R \cup ({eye} \X S)) \cup ({eye} \X T) = R \cup ({eye} \X (S \cup T))
  OBVIOUS
<1>4. (buf.depth \cup {eye}) \cup {eye} = buf.depth \cup {eye}  OBVIOUS
<1>5. [c \in Channels |-> IF c \in once.mask THEN once.channels[c] \cup ({eye} \X T)
                          ELSE once.channels[c]] =
      [c \in Channels |-> IF c \in buf.mask THEN buf.channels[c] \cup ({eye} \X (S \cup T))
                          ELSE buf.channels[c]]
  BY <1>1, <1>3
<1>6. Drawn(once, eye, T) = Drawn(buf, eye, S \cup T)
  BY <1>1, <1>4, <1>5 DEF Drawn
<1> QED BY <1>6 DEF once

(* A pass in a mode without hidden lines draws in the channels of the mask, *)
(* in the same styles for each eye.                                         *)
LEMMA PassDraws ==
  ASSUME rendermode \in Modes, rendermode # "HIDDEN_LINE"
  PROVE  \E S : /\ S # {}
                /\ \A buf, eye : RenderSingle(buf, eye, Default, FALSE, FALSE) = Drawn(buf, eye, S)
<1> DEFINE els == IF texturesenabled THEN Default ELSE [Default EXCEPT !.textures = FALSE]
<1> SUFFICES \E S : /\ S # {}
                    /\ \A buf, eye : RenderSingle(buf, eye, Default, FALSE, FALSE) = Drawn(buf, eye, S)
  OBVIOUS
<1>1. ASSUME NEW e, \A buf, eye : RenderSingle(buf, eye, Default, FALSE, FALSE)
                                   = Draw(buf, eye, e, FALSE, FALSE)
      PROVE  \A buf, eye : RenderSingle(buf, eye, Default, FALSE, FALSE) = Drawn(buf, eye, {e})
  BY <1>1, DrawOnce
<1>2. CASE rendermode = "AS_IS"
  <2>1. \A buf, eye : RenderSingle(buf, eye, Default, FALSE, FALSE) = Draw(buf, eye, els, FALSE, FALSE)
    BY <1>2, Zenon DEF RenderSingle
  <2> QED BY <1>1, <2>1
<1>3. CASE rendermode = "WIREFRAME"
  <2>1. \A buf, eye : RenderSingle(buf, eye, Default, FALSE, FALSE)
                       = Draw(buf, eye, Base(Lines(els)), FALSE, FALSE)
    BY <1>3, Zenon DEF RenderSingle
  <2> QED BY <1>1, <2>1
<1>4. CASE rendermode = "POINTS"
  <2>1. \A buf, eye : RenderSingle(buf, eye, Default, FALSE, FALSE)
                       = Draw(buf, eye, Base([els EXCEPT !.style = "points"]), FALSE, FALSE)
    BY <1>4, Zenon DEF RenderSingle
  <2> QED BY <1>1, <2>1
<1>5. CASE rendermode = "WIREFRAME_OVERLAY"
  <2> DEFINE e1 == [els EXCEPT !.offset = TRUE]
             e2 == [Base(Lines(els)) EXCEPT !.color = "overlay"]
  <2>1. \A buf, eye : RenderSingle(buf, eye, Default, FALSE, FALSE)
                       = Draw(Draw(buf, eye, e1, FALSE, FALSE), eye, e2, FALSE, FALSE)
    BY <1>5, Zenon DEF RenderSingle
  <2> HIDE DEF e1, e2
  <2>2. \E a, b : \A buf, eye : RenderSingle(buf, eye, Default, FALSE, FALSE)
                                = Draw(Draw(buf, eye, a, FALSE, FALSE), eye, b, FALSE, FALSE)
    BY <2>1, Zenon
  <2>3. PICK a, b : \A buf, eye : RenderSingle(buf, eye, Default, FALSE, FALSE)
                                 = Draw(Draw(buf, eye, a, FALSE, FALSE), eye, b, FALSE, FALSE)
    BY <2>2, Zenon
  <2>4. ASSUME NEW buf, NEW eye
        PROVE  RenderSingle(buf, eye, Default, FALSE, FALSE) = Drawn(buf, eye, {a} \cup {b})
    <3>1. Draw(buf, eye, a, FALSE, FALSE) = Drawn(buf, eye, {a})  BY DrawOnce
    <3>2. Draw(Drawn(buf, eye, {a}), eye, b, FALSE, FALSE)
            = Drawn(Drawn(buf, eye, {a}), eye, {b})
      BY DrawOnce
    <3>3. Drawn(Drawn(buf, eye, {a}), eye, {b}) = Drawn(buf, eye, {a} \cup {b})
      BY DrawTwice
    <3>4. RenderSingle(buf, eye, Default, FALSE, FALSE)
            = Draw(Draw(buf, eye, a, FALSE, FALSE), eye, b, FALSE, FALSE)
      BY <2>3, Zenon
    <3> QED BY <3>1, <3>2, <3>3, <3>4, Zenon
  <2> QED BY <2>4
<1>6. CASE rendermode = "BOUNDING_BOX"
  <2> /\ rendermode # "AS_IS" /\ rendermode # "WIREFRAME" /\ rendermode # "POINTS"
      /\ rendermode # "WIREFRAME_OVERLAY" /\ rendermode # "HIDDEN_LINE"
    BY <1>6
  <2>1. \A buf, eye : RenderSingle(buf, eye, Default, FALSE, FALSE)
                       = Draw(buf, eye, [els EXCEPT !.box = TRUE], FALSE, FALSE)
    BY Zenon DEF RenderSingle
  <2> QED BY <1>1, <2>1
<1> QED BY <1>2, <1>3, <1>4, <1>5, <1>6 DEF Modes

(* Whatever a pass does to the mask, all channels are written after it. *)
LEMMA PassKeepsMask ==
  ASSUME rendermode \in Modes, NEW buf, buf.mask = Channels, NEW eye
  PROVE  RenderSingle(buf, eye, Default, TRUE, TRUE).mask = Channels
<1>1. \A g, e : /\ Draw(g, eye, e, TRUE, TRUE).mask = g.mask
                /\ Draw(g, eye, e, FALSE, FALSE).mask = g.mask
  BY DEF Draw, GL
<1>2. \A g, m : Masked(g, m).mask = m
  BY DEF Masked, GL
<1> DEFINE els == IF texturesenabled THEN Default ELSE [Default EXCEPT !.textures = FALSE]
           pass == RenderSingle(buf, eye, Default, TRUE, TRUE)
<1> SUFFICES pass.mask = Channels
  OBVIOUS
<1>3. CASE rendermode = "AS_IS"
  <2>1. pass = Draw(buf, eye, els, TRUE, TRUE)
    BY <1>3, Zenon DEF RenderSingle
  <2> HIDE DEF els, pass
  <2> QED BY <1>1, <2>1, Zenon
<1>4. CASE rendermode = "WIREFRAME"
  <2>1. pass = Draw(buf, eye, Base(Lines(els)), TRUE, TRUE)
    BY <1>4, Zenon DEF RenderSingle
  <2> HIDE DEF els, pass
  <2> QED BY <1>1, <2>1, Zenon
<1>5. CASE rendermode = "POINTS"
  <2>1. pass = Draw(buf, eye, Base([els EXCEPT !.style = "points"]), TRUE, TRUE)
    BY <1>5, Zenon DEF RenderSingle
  <2> HIDE DEF els, pass
  <2> QED BY <1>1, <2>1, Zenon
<1>6. CASE rendermode = "HIDDEN_LINE"
  <2> DEFINE filled == [Base(els) EXCEPT !.offset = TRUE, !.color = "one"]
             hidden == Draw(Masked(Clear(buf, TRUE, TRUE), {}), eye, filled, FALSE, FALSE)
  <2>1. pass = Draw(Masked(hidden, Channels), eye,
                    [Lines(filled) EXCEPT !.offset = FALSE, !.color = "scene"], FALSE, FALSE)
    BY <1>6, Zenon DEF RenderSingle
  <2> HIDE DEF els, pass, filled, hidden
  <2>2. PICK g, e : g.mask = Channels /\ pass = Draw(g, eye, e, FALSE, FALSE)
    BY <1>2, <2>1, Zenon
  <2> QED BY <1>1, <2>2, Zenon
<1>7. CASE rendermode = "WIREFRAME_OVERLAY"
  <2> DEFINE filled == Draw(buf, eye, [els EXCEPT !.offset = TRUE], TRUE, TRUE)
  <2>1. pass = Draw(filled, eye, [Base(Lines(els)) EXCEPT !.color = "overlay"], FALSE, FALSE)
    BY <1>7, Zenon DEF RenderSingle
  <2>2. filled.mask = Channels  BY <1>1
  <2> HIDE DEF els, pass, filled
  <2> QED BY <1>1, <2>1, <2>2, Zenon
<1>8. CASE rendermode = "BOUNDING_BOX"
  <2> /\ rendermode # "AS_IS" /\ rendermode # "WIREFRAME" /\ rendermode # "POINTS"
      /\ rendermode # "WIREFRAME_OVERLAY" /\ rendermode # "HIDDEN_LINE"
    BY <1>8
  <2>1. pass = Draw(buf, eye, [els EXCEPT !.box = TRUE], TRUE, TRUE)
    BY Zenon DEF RenderSingle
  <2> HIDE DEF els, pass
  <2> QED BY <1>1, <2>1, Zenon
<1> QED BY <1>3, <1>4, <1>5, <1>6, <1>7, <1>8 DEF Modes

LEMMA StereoFrame ==
  ASSUME ManagerInv, RenderStereo
  PROVE  FramesRight'
<1>1. /\ stereomode \in {"RED_CYAN", "RED_BLUE"}
      /\ Finish(Eyes(GL(mask, channels, depth)))
  BY DEF RenderStereo, ManagerInv, StereoModes
<1>2. mask' = Channels  BY <1>1 DEF Finish, Eyes, Masked, GL
<1>3. managerCamera' = managerCamera /\ freed' = freed  BY <1>1 DEF Finish, cameravars
<1>4. managerFrame' = <<rendermode, stereomode, texturesenabled>>  BY <1>1 DEF Finish
<1>5. ASSUME rendermode # "HIDDEN_LINE"
      PROVE  EyesApart'
  <2>1. PICK S : /\ S # {}
                 /\ \A buf, eye : RenderSingle(buf, eye, Default, FALSE, FALSE)
                                   = Drawn(buf, eye, S)
    BY <1>5, PassDraws DEF ManagerInv
  <2> DEFINE start == Masked(Clear(GL(mask, channels, depth), TRUE, TRUE), {"red"})
             left == Drawn(start, "left", S)
             between == Masked(Clear(left, FALSE, TRUE), Right)
             done == Drawn(between, "right", S)
  <2>2. channels' = done.channels /\ depth' = done.depth
    BY <1>1, <2>1 DEF Finish, Eyes, Masked, GL
  <2>3. /\ start.mask = {"red"} /\ start.depth = {}
        /\ \A c \in Channels : start.channels[c] = {}
    BY DEF Masked, Clear, GL, ManagerInv, FramesRight, MaskRestored
  <2> HIDE DEF start
  <2>4. \A c \in Channels : left.channels[c] = IF c = "red" THEN {"left"} \X S ELSE {}
    BY <2>3 DEF Drawn, GL
  <2> HIDE DEF left
  <2>5. /\ between.mask = Right /\ between.depth = {}
        /\ \A c \in Channels : between.channels[c] = left.channels[c]
    BY DEF Masked, Clear, GL
  <2> HIDE DEF between
  <2>6. /\ done.depth = {"right"}
        /\ \A c \in Channels : done.channels[c] =
              IF c \in Right THEN between.channels[c] \cup ({"right"} \X S)
                             ELSE between.channels[c]
    BY <2>5 DEF Drawn, GL
  <2> HIDE DEF done
  <2>7. /\ channels'["red"] = {"left"} \X S /\ channels'["blue"] = {"right"} \X S
        /\ channels'["green"] = IF stereomode = "RED_CYAN" THEN {"right"} \X S ELSE {}
    BY <1>1, <2>2, <2>4, <2>5, <2>6 DEF Channels, Right
  <2>8. \A e : /\ {d[1] : d \in {e} \X S} = {e}
               /\ {d[2] : d \in {e} \X S} = S
    <3> TAKE e
    <3>1. \A s \in S : <<e, s>> \in {e} \X S /\ <<e, s>>[1] = e /\ <<e, s>>[2] = s
      OBVIOUS
    <3>2. \A d \in {e} \X S : d[1] = e /\ d[2] \in S  OBVIOUS
    <3>3. PICK s \in S : TRUE  BY <2>1
    <3> QED BY <3>1, <3>2, <3>3
  <2>9. {d[1] : d \in {}} = {}  OBVIOUS
  <2>10. /\ EyesIn("red")' = {"left"} /\ EyesIn("blue")' = {"right"}
         /\ EyesIn("green")' = IF stereomode = "RED_CYAN" THEN {"right"} ELSE {}
    BY <2>7, <2>8, <2>9 DEF EyesIn
  <2>11. {d[2] : d \in channels'["red"]} = {d[2] : d \in channels'["blue"]}
    BY <2>7, <2>8
  <2> QED BY <1>4, <2>2, <2>6, <2>10, <2>11 DEF EyesApart
<1>6. ASSUME rendermode = "HIDDEN_LINE"
      PROVE  EyesApart'
  BY <1>4, <1>6 DEF EyesApart
<1> QED BY <1>2, <1>3, <1>4, <1>5, <1>6 DEF FramesRight, MaskRestored, EyesApart,
                                            CameraAlive, ManagerInv

LEMMA ManagerStep ==
  ASSUME ManagerAssumption, ManagerInv, [ManagerNext]_managervars
  PROVE  ManagerInv'
<1>1. ASSUME UNCHANGED managerGlvars, UNCHANGED managerFrame
      PROVE  MaskRestored' /\ EyesApart'
  BY <1>1 DEF managerGlvars, ManagerInv, FramesRight, MaskRestored, EyesApart, EyesIn
<1>2. CamerasAlive' => CameraAlive'
  BY DEF CamerasAlive, CameraAlive
<1>3. ASSUME NEW r \in Modes, NEW s \in StereoModes, NEW t \in BOOLEAN, SetModes(r, s, t)
      PROVE  ManagerInv'
  <2>1. CamerasAlive'
    BY <1>3 DEF SetModes, cameravars, ManagerInv, CamerasAlive, GraphCameras
  <2> QED BY <1>1, <1>2, <1>3, <2>1 DEF SetModes, ManagerInv, FramesRight
<1>4. ASSUME NEW c \in held \cup {None}, SetCamera(c)
      PROVE  ManagerInv'
  <2>1. /\ managerCamera' = c /\ held' = held /\ GraphCameras' = GraphCameras
        /\ freed' = IF managerCamera # None /\ managerCamera \notin held \cup GraphCameras
                    THEN freed \cup {managerCamera} ELSE freed
    BY <1>4 DEF SetCamera, GraphCameras
  <2>2. CamerasAlive'
    BY <2>1 DEF ManagerInv, CamerasAlive, ManagerAssumption
  <2> QED BY <1>1, <1>2, <1>4, <2>2 DEF SetCamera, modevars, ManagerInv, FramesRight
<1>5. ASSUME NEW c \in Cameras, ManagerRelease(c)
      PROVE  ManagerInv'
  <2>1. /\ managerCamera' = managerCamera /\ held' = held \ {c} /\ GraphCameras' = GraphCameras
        /\ freed' = IF c \in held /\ c # managerCamera /\ c \notin GraphCameras
                    THEN freed \cup {c} ELSE freed
    BY <1>5 DEF ManagerRelease, GraphCameras
  <2>2. CamerasAlive'
    BY <2>1 DEF ManagerInv, CamerasAlive, ManagerAssumption
  <2> QED BY <1>1, <1>2, <1>5, <2>2 DEF ManagerRelease, modevars, ManagerInv, FramesRight
<1>6. ASSUME NEW c \in Cameras, ManagerSetSceneGraph(<<c>>)
      PROVE  ManagerInv'
  <2>1. {<<c>>[i] : i \in DOMAIN <<c>>} = {c}  OBVIOUS
  <2>2. /\ managerCamera' = managerCamera /\ held' = held /\ GraphCameras' = {c} /\ c \notin freed
        /\ freed' = freed \cup (GraphCameras \ ({c} \cup held \cup {managerCamera}))
    BY <1>6, <2>1 DEF ManagerSetSceneGraph, GraphCameras
  <2>3. CamerasAlive'
    BY <2>2 DEF ManagerInv, CamerasAlive, ManagerAssumption
  <2> QED BY <1>1, <1>2, <1>6, <2>3 DEF ManagerSetSceneGraph, modevars, ManagerInv, FramesRight
<1>7. ASSUME NEW buf, Finish(buf)
      PROVE  CamerasAlive' /\ UNCHANGED modevars
  BY <1>7 DEF Finish, modevars, cameravars, ManagerInv, CamerasAlive, GraphCameras
<1>8. CASE RenderMono
  <2> DEFINE buf == GL(mask, channels, depth)
             pass == RenderSingle(buf, "both", Default, TRUE, TRUE)
  <2>1. Finish(pass) /\ stereomode = "MONO"  BY <1>8 DEF RenderMono
  <2>2. buf.mask = Channels  BY DEF GL, ManagerInv, FramesRight, MaskRestored
  <2> HIDE DEF buf
  <2>3. pass.mask = Channels  BY <2>2, PassKeepsMask DEF ManagerInv
  <2> HIDE DEF pass
  <2>4. CamerasAlive' /\ UNCHANGED modevars  BY <1>7, <2>1
  <2>5. managerFrame' = <<rendermode, "MONO", texturesenabled>> /\ mask' = Channels
    BY <2>1, <2>3 DEF Finish
  <2>6. MaskRestored' /\ EyesApart'  BY <2>5 DEF MaskRestored, EyesApart
  <2> QED BY <1>2, <2>4, <2>6 DEF modevars, ManagerInv, FramesRight
<1>9. CASE RenderStereo
  <2>1. Finish(Eyes(GL(mask, channels, depth)))  BY <1>9 DEF RenderStereo
  <2>2. CamerasAlive' /\ UNCHANGED modevars  BY <1>7, <2>1
  <2> QED BY <1>9, <2>2, StereoFrame DEF modevars, ManagerInv
<1>10. CASE UNCHANGED managervars
  <2>1. CamerasAlive'
    BY <1>10 DEF managervars, ManagerInv, CamerasAlive, GraphCameras
  <2> QED BY <1>1, <1>2, <1>10, <2>1 DEF managervars, managerGlvars, ManagerInv, FramesRight
<1> QED BY <1>3, <1>4, <1>5, <1>6, <1>8, <1>9, <1>10 DEF ManagerNext

LEMMA ManagerStart == ManagerAssumption /\ ManagerInit => ManagerInv
<1> SUFFICES ASSUME ManagerAssumption, ManagerInit PROVE ManagerInv
  OBVIOUS
<1>1. GraphCameras = {}  BY DEF ManagerInit, GraphCameras
<1>2. CamerasAlive  BY <1>1 DEF ManagerInit, CamerasAlive, ManagerAssumption
<1> QED BY <1>2 DEF ManagerInit, ManagerInv, Modes, StereoModes, CamerasAlive, FramesRight,
                    MaskRestored, EyesApart, CameraAlive

-----------------------------------------------------------------------------
(* The culling of blocks (nodes/SceneryGL.cpp) *)

Blocks == [x : Int, y : Int, size : Nat, draw : BOOLEAN]

(* A block is drawn exactly when no plane has all of it outside, unless the *)
(* occlusion test hid it.                                                   *)
DrawRight(b) ==
  LET outside == \E i \in DOMAIN Planes : AllOutside(b, i)
      inside == \A i \in DOMAIN Planes : AllInside(b, i)
  IN  b.draw # outside \/ (Occlusion /\ inside)

(* Every mask of the stack names planes that its block is inside of. *)
CullInv ==
  /\ blocks \in Seq(Blocks) /\ cullstate \in Seq(SUBSET DOMAIN Planes)
  /\ Len(cullstate) = Len(blocks)
  /\ \A k \in DOMAIN blocks : \A i \in cullstate[k] : AllInside(blocks[k], i)
  /\ \A k \in DOMAIN blocks : DrawRight(blocks[k])

LEMMA CullInvImplies == CullInv => CulledRight
<1> SUFFICES ASSUME CullInv PROVE CulledRight
  OBVIOUS
<1>1. ASSUME blocks # << >>
      PROVE  \A i \in Mask : AllInside(Last(blocks), i)
  <2>1. /\ Len(blocks) \in DOMAIN blocks /\ Last(blocks) = blocks[Len(blocks)]
        /\ Mask = cullstate[Len(blocks)]
    BY <1>1 DEF CullInv, Last, Mask
  <2> QED BY <2>1 DEF CullInv
<1> QED BY <1>1 DEF CullInv, CulledRight, DrawRight

(* A half space is convex. *)
LEMMA Positive ==
  ASSUME NEW a \in Nat, NEW b \in Nat
  PROVE  a * b \in Nat
OBVIOUS

LEMMA Between ==
  ASSUME NEW a \in Int, NEW p \in Int, NEW q \in Int, NEW r \in Int, p <= r, r <= q
  PROVE  a * p <= a * r \/ a * q <= a * r
<1>1. CASE a >= 0
  <2>1. a * (r - p) \in Nat  BY <1>1, Positive
  <2>2. a * (r - p) = a * r - a * p  OBVIOUS
  <2> QED BY <2>1, <2>2
<1>2. CASE a < 0
  <2>1. (-a) * (q - r) \in Nat  BY <1>2, Positive
  <2>2. (-a) * (q - r) = a * r - a * q  OBVIOUS
  <2> QED BY <2>1, <2>2
<1> QED BY <1>1, <1>2

LEMMA PartInside ==
  ASSUME CullAssumption, NEW i \in DOMAIN Planes,
         NEW b \in Blocks, NEW part \in Blocks, AllInside(b, i),
         b.x <= part.x, part.x + part.size <= b.x + b.size,
         b.y <= part.y, part.y + part.size <= b.y + b.size
  PROVE  AllInside(part, i)
<1>1. PICK u \in Int, v \in Int, d \in Int : Planes[i] = <<u, v, d>>
  BY DEF CullAssumption
<1>2. \A p : IsInHalfSpace(p, i) <=> u * p[1] + v * p[2] >= d
  BY <1>1 DEF IsInHalfSpace
<1>3. /\ b.x \in Int /\ b.y \in Int /\ b.size \in Nat
      /\ part.x \in Int /\ part.y \in Int /\ part.size \in Nat
  BY DEF Blocks
<1>4. \A x \in {b.x, b.x + b.size}, y \in {b.y, b.y + b.size} : u * x + v * y >= d
  <2> SUFFICES ASSUME NEW x \in {b.x, b.x + b.size}, NEW y \in {b.y, b.y + b.size}
               PROVE  u * x + v * y >= d
    OBVIOUS
  <2>1. <<x, y>> \in Corners(b)  BY DEF Corners
  <2>2. IsInHalfSpace(<<x, y>>, i)  BY <2>1 DEF AllInside
  <2> QED BY <1>2, <2>2
<1> SUFFICES ASSUME NEW p \in Corners(part)
             PROVE  IsInHalfSpace(p, i)
  BY DEF AllInside
<1>5. PICK x \in {part.x, part.x + part.size}, y \in {part.y, part.y + part.size} :
        p = <<x, y>>
  BY DEF Corners
<1>6. /\ x \in Int /\ y \in Int
      /\ b.x <= x /\ x <= b.x + b.size /\ b.y <= y /\ y <= b.y + b.size
  BY <1>3, <1>5
<1>7. PICK x1 \in {b.x, b.x + b.size} : u * x1 <= u * x
  BY <1>3, <1>6, Between
<1>8. PICK y1 \in {b.y, b.y + b.size} : v * y1 <= v * y
  BY <1>3, <1>6, Between
<1>9. /\ u * x1 \in Int /\ u * x \in Int /\ v * y1 \in Int /\ v * y \in Int
      /\ u * x1 + v * y1 >= d
  BY <1>1, <1>3, <1>4, <1>6, <1>7, <1>8
<1>10. u * x + v * y >= d  BY <1>1, <1>7, <1>8, <1>9
<1> QED BY <1>2, <1>5, <1>10

LEMMA BlockIs ==
  ASSUME NEW x \in Int, NEW y \in Int, NEW s \in Nat, NEW draw \in BOOLEAN
  PROVE  /\ Block(x, y, s, draw) \in Blocks
         /\ Corners(Block(x, y, s, draw)) = {x, x + s} \X {y, y + s}
         /\ Block(x, y, s, draw).draw = draw
BY DEF Block, Blocks, Corners

(* A block that is inside of a plane is not all outside of it. *)
LEMMA InsideOrOutside ==
  ASSUME NEW b \in Blocks, NEW i, AllInside(b, i)
  PROVE  ~AllOutside(b, i)
<1>1. <<b.x, b.y>> \in Corners(b)  BY DEF Corners
<1> QED BY <1>1 DEF AllInside, AllOutside

(* A block and its mask are put on top. *)
LEMMA Pushed ==
  ASSUME CullInv, NEW b \in Blocks, NEW bits \in SUBSET DOMAIN Planes,
         blocks' = Append(blocks, b), cullstate' = Append(cullstate, bits),
         \A i \in bits : AllInside(b, i), DrawRight(b)
  PROVE  CullInv'
<1>1. /\ blocks' \in Seq(Blocks) /\ cullstate' \in Seq(SUBSET DOMAIN Planes)
      /\ Len(cullstate') = Len(blocks')
  BY DEF CullInv
<1>2. ASSUME NEW k \in DOMAIN blocks'
      PROVE  \/ k \in DOMAIN blocks /\ blocks'[k] = blocks[k] /\ cullstate'[k] = cullstate[k]
             \/ blocks'[k] = b /\ cullstate'[k] = bits
  BY DEF CullInv
<1>3. ASSUME NEW k \in DOMAIN blocks'
      PROVE  (\A i \in cullstate'[k] : AllInside(blocks'[k], i)) /\ DrawRight(blocks'[k])
  BY <1>2, <1>3 DEF CullInv
<1> QED BY <1>1, <1>3 DEF CullInv

LEMMA PreCbRight ==
  ASSUME CullAssumption, CullInv, NEW x \in Int, NEW y \in Int, NEW s \in Nat,
         \A i \in Mask : AllInside(Block(x, y, s, FALSE), i),
         PreCb(x, y, s)
  PROVE  CullInv'
<1> DEFINE b == Block(x, y, s, FALSE)
           tested == DOMAIN Planes \ Mask
           bits == Mask \cup {i \in tested : AllInside(b, i)}
<1>1. Mask \subseteq DOMAIN Planes
  BY DEF Mask, Last, CullInv
<1>2. ASSUME NEW draw \in BOOLEAN
      PROVE  /\ Block(x, y, s, draw) \in Blocks /\ Block(x, y, s, draw).draw = draw
             /\ \A i : AllInside(Block(x, y, s, draw), i) <=> AllInside(b, i)
             /\ \A i : AllOutside(Block(x, y, s, draw), i) <=> AllOutside(b, i)
  <2>1. Corners(Block(x, y, s, draw)) = Corners(b)  BY DEF Block, Corners
  <2> QED BY <2>1, BlockIs DEF AllInside, AllOutside
<1>3. b \in Blocks /\ b.draw = FALSE  BY BlockIs
<1>4. CASE /\ \E i \in tested : AllOutside(b, i)
           /\ cullstate' = Append(cullstate, {}) /\ blocks' = Append(blocks, b)
  <2>1. DrawRight(b)  BY <1>3, <1>4 DEF DrawRight
  <2>2. {} \in SUBSET DOMAIN Planes /\ \A i \in {} : AllInside(b, i)
    OBVIOUS
  <2> HIDE DEF b
  <2> QED BY <1>3, <1>4, <2>1, <2>2, Pushed
<1>5. CASE /\ \A i \in tested : ~AllOutside(b, i)
           /\ cullstate' = Append(cullstate, bits)
           /\ \E draw \in {TRUE} \cup {~(Occlusion /\ bits = DOMAIN Planes)} :
                blocks' = Append(blocks, Block(x, y, s, draw))
  <2>1. bits \in SUBSET DOMAIN Planes /\ \A i \in bits : AllInside(b, i)
    BY <1>1
  <2>2. \A i \in DOMAIN Planes : ~AllOutside(b, i)
    BY <1>3, <1>5, InsideOrOutside
  <2>3. PICK draw \in BOOLEAN :
          /\ blocks' = Append(blocks, Block(x, y, s, draw))
          /\ draw = TRUE \/ draw = ~(Occlusion /\ bits = DOMAIN Planes)
    BY <1>5
  <2> HIDE DEF bits, b
  <2>4. DrawRight(Block(x, y, s, draw))
    <3>1. Block(x, y, s, draw).draw = draw  BY <1>2
    <3>2. ~\E i \in DOMAIN Planes : AllOutside(Block(x, y, s, draw), i)
      BY <1>2, <2>2
    <3>3. CASE draw
      BY <3>1, <3>2, <3>3 DEF DrawRight
    <3>4. CASE ~draw
      <4>1. Occlusion /\ bits = DOMAIN Planes  BY <2>3, <3>4
      <4>2. \A i \in DOMAIN Planes : AllInside(Block(x, y, s, draw), i)
        BY <1>2, <2>1, <4>1
      <4> QED BY <4>1, <4>2 DEF DrawRight
    <3> QED BY <3>3, <3>4
  <2> QED BY <1>2, <1>5, <2>1, <2>3, <2>4, Pushed
<1> QED BY <1>4, <1>5 DEF PreCb

LEMMA CullStep ==
  ASSUME CullAssumption, CullInv, [CullNext]_<<blocks, cullstate>>
  PROVE  CullInv'
<1>1. CASE blocks = << >> /\ PreCb(0, 0, Extent)
  <2>1. Mask = {}  BY <1>1 DEF Mask, CullInv
  <2> QED BY <1>1, <2>1, PreCbRight DEF CullAssumption
<1>2. ASSUME blocks # << >>, Last(blocks).size > 1, NEW i \in {0, 1}, NEW j \in {0, 1},
             LET b == Last(blocks)  h == b.size \div 2
             IN  PreCb(b.x + i * h, b.y + j * h, h)
      PROVE  CullInv'
  <2> DEFINE b == Last(blocks)
             h == b.size \div 2
             part == Block(b.x + i * h, b.y + j * h, h, FALSE)
  <2>1. b \in Blocks /\ Mask = cullstate[Len(blocks)] /\ \A k \in Mask : AllInside(b, k)
        /\ Mask \subseteq DOMAIN Planes
    BY <1>2 DEF CullInv, Last, Mask
  <2>2. PreCb(b.x + i * h, b.y + j * h, h)  BY <1>2
  <2> HIDE DEF b
  <2>3. b.x \in Int /\ b.y \in Int /\ b.size \in Nat  BY <2>1 DEF Blocks
  <2>4. h \in Nat /\ h + h <= b.size  BY <2>3
  <2> HIDE DEF h
  <2>5. PICK x \in Int, y \in Int :
          /\ x = b.x + i * h /\ b.x <= x /\ x + h <= b.x + b.size
          /\ y = b.y + j * h /\ b.y <= y /\ y + h <= b.y + b.size
    <3>1. i * h \in {0, h} /\ j * h \in {0, h}  BY <1>2, <2>4
    <3> QED BY <2>3, <2>4, <3>1
  <2>6. Block(x, y, h, FALSE) \in Blocks  BY <2>4, BlockIs
  <2>7. \A k \in Mask : AllInside(Block(x, y, h, FALSE), k)
    BY <2>1, <2>4, <2>5, <2>6, PartInside DEF Block
  <2> QED BY <2>2, <2>4, <2>5, <2>7, PreCbRight
<1>3. CASE PostCb
  <2>1. /\ blocks # << >> /\ blocks' = SubSeq(blocks, 1, Len(blocks) - 1)
        /\ cullstate' = SubSeq(cullstate, 1, Len(cullstate) - 1)
    BY <1>3 DEF PostCb, Front
  <2>2. /\ blocks' \in Seq(Blocks) /\ cullstate' \in Seq(SUBSET DOMAIN Planes)
        /\ Len(cullstate') = Len(blocks')
        /\ \A k \in DOMAIN blocks' : /\ k \in DOMAIN blocks /\ blocks'[k] = blocks[k]
                                     /\ cullstate'[k] = cullstate[k]
    BY <2>1 DEF CullInv
  <2> QED BY <2>2 DEF CullInv
<1>4. CASE UNCHANGED <<blocks, cullstate>>
  BY <1>4 DEF CullInv
<1> QED BY <1>1, <1>2, <1>3, <1>4 DEF CullNext

LEMMA CullStart == CullInit => CullInv
BY DEF CullInit, CullInv

-----------------------------------------------------------------------------
(* The textures of SmScenery (nodes/SceneryGL.cpp) *)

Infos == [id : Names, isbound : BOOLEAN, unusedcount : Nat]

(* A table is in step with the textures of its GL context: each entry has a *)
(* texture of its own there.                                                *)
InStep(h, ids) ==
  /\ h \in [DOMAIN h -> Infos] /\ ids \subseteq Names
  /\ \A t \in DOMAIN h : h[t].id \in ids /\ h[t].isbound = TRUE
  /\ \A t, u \in DOMAIN h : h[t].id = h[u].id => t = u

TablesInStep ==
  /\ texhash = [c \in Contexts |-> texhash[c]]
  /\ gltextures = [c \in Contexts |-> gltextures[c]]
  /\ \A c \in Contexts : InStep(texhash[c], gltextures[c])

PerContext ==
  /\ bound = [c \in Contexts |-> bound[c]]
  /\ texture2d = [c \in Contexts |-> texture2d[c]]

(* What was drawn with in this frame is in the table, as just used. *)
UsedAreFresh ==
  \A t \in used : /\ t \in DOMAIN texhash[glcontextid]
                  /\ texhash[glcontextid][t].unusedcount = 0

(* The texture that counts as active is bound, in the context of the frame. *)
ActiveIsBound ==
  activescenerytexid # 0 =>
    /\ activetexturecontext = glcontextid /\ activescenerytexid \in used
    /\ bound[glcontextid] = texhash[glcontextid][activescenerytexid].id

TextureInv ==
  /\ TablesInStep /\ PerContext /\ glcontextid \in Contexts \cup {None}
  /\ glcontextid = None => used = {} /\ block = NoBlock
  /\ glcontextid # None => UsedAreFresh /\ ActiveIsBound
  /\ block # NoBlock /\ texture2d[glcontextid] => block.tex = activescenerytexid /\ block.tex # 0

LEMMA TextureInvImplies == TextureInv => OwnTexture
BY DEF TextureInv, OwnTexture, TablesInStep, InStep, UsedAreFresh, ActiveIsBound

LEMMA Marked ==
  ASSUME NEW h, NEW ids, InStep(h, ids)
  PROVE  InStep(MarkUnused(h), ids)
<1>1. /\ MarkUnused(h) = [t \in DOMAIN h |-> [h[t] EXCEPT !.unusedcount = @ + 1]]
      /\ DOMAIN MarkUnused(h) = DOMAIN h
  BY DEF MarkUnused
<1>2. \A t \in DOMAIN h : /\ MarkUnused(h)[t] \in Infos
                          /\ MarkUnused(h)[t].id = h[t].id
                          /\ MarkUnused(h)[t].isbound = h[t].isbound
  BY <1>1 DEF InStep, Infos
<1> QED BY <1>1, <1>2 DEF InStep

LEMMA Released ==
  ASSUME NEW h, NEW ids, InStep(h, ids), NEW gone \in SUBSET DOMAIN h
  PROVE  /\ InStep(Restrict(h, DOMAIN h \ gone), ids \ {h[t].id : t \in gone})
         /\ DOMAIN Restrict(h, DOMAIN h \ gone) = DOMAIN h \ gone
         /\ \A t \in DOMAIN h \ gone : Restrict(h, DOMAIN h \ gone)[t] = h[t]
<1> DEFINE kept == Restrict(h, DOMAIN h \ gone)
<1>1. /\ kept = [t \in DOMAIN h \ gone |-> h[t]] /\ DOMAIN kept = DOMAIN h \ gone
      /\ \A t \in DOMAIN h \ gone : kept[t] = h[t]
  BY DEF Restrict
<1> HIDE DEF kept
<1>2. \A t \in DOMAIN kept : kept[t].id \in ids \ {h[u].id : u \in gone}
  BY <1>1 DEF InStep
<1>3. kept \in [DOMAIN kept -> Infos]  BY <1>1 DEF InStep
<1>4. InStep(kept, ids \ {h[t].id : t \in gone})
  BY <1>1, <1>2, <1>3 DEF InStep
<1> QED BY <1>1, <1>4 DEF kept

LEMMA Activated ==
  ASSUME NEW h, NEW ids, InStep(h, ids), NEW t \in DOMAIN h
  PROVE  /\ InStep(Activate(h, t), ids)
         /\ DOMAIN Activate(h, t) = DOMAIN h
         /\ Activate(h, t)[t].id = h[t].id /\ Activate(h, t)[t].unusedcount = 0
         /\ \A u \in DOMAIN h \ {t} : Activate(h, t)[u] = h[u]
<1> DEFINE e == [[h[t] EXCEPT !.isbound = TRUE] EXCEPT !.unusedcount = 0]
<1>1. h \in [DOMAIN h -> Infos] /\ h[t] \in Infos  BY DEF InStep
<1>2. e \in Infos /\ e.id = h[t].id /\ e.isbound = TRUE /\ e.unusedcount = 0
  BY <1>1 DEF Infos
<1>3. /\ Activate(h, t) \in [DOMAIN h -> Infos] /\ DOMAIN Activate(h, t) = DOMAIN h
      /\ Activate(h, t)[t] = e
      /\ \A u \in DOMAIN h \ {t} : Activate(h, t)[u] = h[u]
  BY <1>1, <1>2 DEF Activate
<1> HIDE DEF e
<1>4. \A u \in DOMAIN h : /\ Activate(h, t)[u].id = h[u].id
                          /\ Activate(h, t)[u].isbound = TRUE
  BY <1>2, <1>3 DEF InStep
<1>5. InStep(Activate(h, t), ids)  BY <1>3, <1>4 DEF InStep
<1> QED BY <1>2, <1>3, <1>5

(* The entry of a texture that is new to the context. *)
Placed(h, t, n) ==
  [u \in DOMAIN h \cup {t} |->
     IF u = t THEN [id |-> n, isbound |-> FALSE, unusedcount |-> 0] ELSE h[u]]

(* p is the table h with the texture t, just used and called n in GL.      *)
Extended(p, h, t, n, ids) ==
  /\ InStep(p, ids) /\ DOMAIN p = DOMAIN h \cup {t}
  /\ p[t].id = n /\ p[t].unusedcount = 0
  /\ \A u \in DOMAIN h : p[u] = h[u]

LEMMA PlacedActivated ==
  ASSUME NEW h, NEW ids, InStep(h, ids), NEW t, t \notin DOMAIN h, NEW n \in Names \ ids,
         NEW p, p = Activate(Placed(h, t, n), t), NEW more, more = ids \cup {n}
  PROVE  Extended(p, h, t, n, more)
<1> DEFINE info == [id |-> n, isbound |-> FALSE, unusedcount |-> 0]
           q == Placed(h, t, n)
           e == [[info EXCEPT !.isbound = TRUE] EXCEPT !.unusedcount = 0]
<1>1. info \in Infos /\ e \in Infos /\ e.id = n /\ e.isbound = TRUE /\ e.unusedcount = 0
  BY DEF Infos
<1>2. /\ DOMAIN q = DOMAIN h \cup {t} /\ q[t] = info
      /\ \A u \in DOMAIN h : q[u] = h[u]
      /\ q \in [DOMAIN h \cup {t} -> Infos]
  BY <1>1 DEF Placed, InStep
<1>3. /\ p \in [DOMAIN h \cup {t} -> Infos] /\ DOMAIN p = DOMAIN h \cup {t} /\ p[t] = e
      /\ \A u \in DOMAIN h : p[u] = h[u]
  BY <1>1, <1>2 DEF Activate
<1> HIDE DEF e, q, info
<1>4. \A u \in DOMAIN p : p[u].id \in more /\ p[u].isbound = TRUE
  BY <1>1, <1>3 DEF InStep
<1>5. \A u, v \in DOMAIN p : p[u].id = p[v].id => u = v
  BY <1>1, <1>3 DEF InStep
<1>6. InStep(p, more)  BY <1>3, <1>4, <1>5 DEF InStep
<1> QED BY <1>1, <1>3, <1>6 DEF Extended

LEMMA ReleaseInStep ==
  ASSUME TablesInStep, NEW c \in Contexts, NEW h, InStep(h, gltextures[c]),
         NEW gone \in SUBSET DOMAIN h, Release(c, h, gone)
  PROVE  /\ TablesInStep' /\ DOMAIN texhash'[c] = DOMAIN h \ gone
         /\ \A t \in DOMAIN h \ gone : texhash'[c][t] = h[t]
<1> DEFINE kept == Restrict(h, DOMAIN h \ gone)
           ids == {h[t].id : t \in gone}
<1>1. /\ texhash' = [texhash EXCEPT ![c] = kept]
      /\ gltextures' = [gltextures EXCEPT ![c] = @ \ ids]
  BY DEF Release
<1>2. /\ InStep(kept, gltextures[c] \ ids) /\ DOMAIN kept = DOMAIN h \ gone
      /\ \A t \in DOMAIN h \ gone : kept[t] = h[t]
  BY Released
<1> HIDE DEF kept, ids
<1>3. /\ texhash' = [d \in Contexts |-> texhash'[d]]
      /\ gltextures' = [d \in Contexts |-> gltextures'[d]]
      /\ texhash'[c] = kept /\ gltextures'[c] = gltextures[c] \ ids
      /\ \A d \in Contexts \ {c} : texhash'[d] = texhash[d] /\ gltextures'[d] = gltextures[d]
  BY <1>1 DEF TablesInStep
<1>4. \A d \in Contexts : InStep(texhash'[d], gltextures'[d])
  BY <1>2, <1>3 DEF TablesInStep
<1> QED BY <1>2, <1>3, <1>4 DEF TablesInStep

LEMMA SetTextureInStep ==
  ASSUME SceneAssumption, TextureInv, NEW c \in Contexts, c = glcontextid,
         NEW t, t # 0, SetTexture(c, t)
  PROVE  /\ TablesInStep' /\ bound' = [d \in Contexts |-> bound'[d]]
         /\ activescenerytexid' = t /\ activetexturecontext' = c
         /\ t \in DOMAIN texhash'[c] /\ texhash'[c][t].unusedcount = 0
         /\ bound'[c] = texhash'[c][t].id
         /\ \A u \in used : u \in DOMAIN texhash'[c] /\ texhash'[c][u].unusedcount = 0
<1> DEFINE h == texhash[c]
<1>1. /\ TablesInStep /\ PerContext /\ InStep(h, gltextures[c]) /\ ActiveIsBound
      /\ \A u \in used : u \in DOMAIN h /\ h[u].unusedcount = 0
  <2>1. UsedAreFresh /\ ActiveIsBound  BY DEF TextureInv, SceneAssumption
  <2> QED BY <2>1 DEF TextureInv, TablesInStep, UsedAreFresh
<1>2. CASE t = activescenerytexid /\ activetexturecontext = c
  <2>1. UNCHANGED <<texhash, gltextures, bound, activescenerytexid, activetexturecontext>>
    BY <1>2 DEF SetTexture
  <2> QED BY <1>1, <1>2, <2>1 DEF TablesInStep, PerContext, ActiveIsBound, InStep

<1> SUFFICES ASSUME ~(t = activescenerytexid /\ activetexturecontext = c)
             PROVE  /\ TablesInStep' /\ bound' = [d \in Contexts |-> bound'[d]]
                    /\ activescenerytexid' = t /\ activetexturecontext' = c
                    /\ t \in DOMAIN texhash'[c] /\ texhash'[c][t].unusedcount = 0
                    /\ bound'[c] = texhash'[c][t].id
                    /\ \A u \in used : /\ u \in DOMAIN texhash'[c]
                                       /\ texhash'[c][u].unusedcount = 0
  BY <1>2
<1>3. activescenerytexid' = t /\ activetexturecontext' = c
  BY DEF SetTexture
<1>4. ASSUME NEW p, NEW ids, NEW id, InStep(p, ids), t \in DOMAIN p,
             p[t].id = id, p[t].unusedcount = 0,
             \A u \in DOMAIN h \ {t} : u \in DOMAIN p /\ p[u] = h[u],
             texhash' = [texhash EXCEPT ![c] = p],
             gltextures' = [gltextures EXCEPT ![c] = ids],
             bound' = [bound EXCEPT ![c] = id]
      PROVE  /\ TablesInStep' /\ bound' = [d \in Contexts |-> bound'[d]]
             /\ t \in DOMAIN texhash'[c] /\ texhash'[c][t].unusedcount = 0
             /\ bound'[c] = texhash'[c][t].id
             /\ \A u \in used : /\ u \in DOMAIN texhash'[c]
                                /\ texhash'[c][u].unusedcount = 0
  <2>1. /\ texhash' = [d \in Contexts |-> texhash'[d]]
        /\ gltextures' = [d \in Contexts |-> gltextures'[d]]
        /\ bound' = [d \in Contexts |-> bound'[d]]
        /\ texhash'[c] = p /\ gltextures'[c] = ids /\ bound'[c] = id
        /\ \A d \in Contexts \ {c} : texhash'[d] = texhash[d] /\ gltextures'[d] = gltextures[d]
    BY <1>1, <1>4 DEF TablesInStep, PerContext
  <2>2. \A d \in Contexts : InStep(texhash'[d], gltextures'[d])
    BY <1>1, <1>4, <2>1 DEF TablesInStep
  <2>3. TablesInStep'  BY <2>1, <2>2 DEF TablesInStep
  <2> QED BY <1>1, <1>4, <2>1, <2>3
<1>5. CASE /\ t \in DOMAIN texhash[c]
           /\ texhash' = [texhash EXCEPT ![c] = Activate(@, t)]
           /\ bound' = [bound EXCEPT ![c] = texhash[c][t].id]
           /\ UNCHANGED gltextures
  <2>1. /\ texhash' = [texhash EXCEPT ![c] = Activate(h, t)]
        /\ gltextures' = [gltextures EXCEPT ![c] = gltextures[c]]
    BY <1>1, <1>5 DEF TablesInStep
  <2> HIDE DEF h
  <2>2. /\ InStep(Activate(h, t), gltextures[c]) /\ DOMAIN Activate(h, t) = DOMAIN h
        /\ Activate(h, t)[t].id = h[t].id /\ Activate(h, t)[t].unusedcount = 0
        /\ \A u \in DOMAIN h \ {t} : Activate(h, t)[u] = h[u]
    BY <1>1, <1>5, Activated DEF h
  <2>3. bound' = [bound EXCEPT ![c] = h[t].id] /\ t \in DOMAIN h  BY <1>5 DEF h
  <2> QED BY <1>3, <1>4, <2>1, <2>2, <2>3
<1>6. ASSUME t \notin DOMAIN h, NEW n \in Names \ gltextures[c],
             texhash' = [texhash EXCEPT ![c] = Activate(Placed(h, t, n), t)],
             gltextures' = [gltextures EXCEPT ![c] = @ \cup {n}],
             bound' = [bound EXCEPT ![c] = n]
      PROVE  /\ TablesInStep' /\ bound' = [d \in Contexts |-> bound'[d]]
             /\ t \in DOMAIN texhash'[c] /\ texhash'[c][t].unusedcount = 0
             /\ bound'[c] = texhash'[c][t].id
             /\ \A u \in used : /\ u \in DOMAIN texhash'[c]
                                /\ texhash'[c][u].unusedcount = 0
  <2>1. PICK p : p = Activate(Placed(h, t, n), t)
    OBVIOUS
  <2>2. PICK ids : ids = gltextures[c] \cup {n}
    OBVIOUS
  <2>3. texhash' = [texhash EXCEPT ![c] = p]  BY <1>6, <2>1
  <2>4. gltextures' = [gltextures EXCEPT ![c] = ids]  BY <1>6, <2>2
  <2> HIDE DEF h
  <2>5. Extended(p, h, t, n, ids)
    BY <1>1, <1>6, <2>1, <2>2, PlacedActivated
  <2> QED BY <1>4, <1>6, <2>3, <2>4, <2>5 DEF Extended
<1>7. \/ /\ t \in DOMAIN texhash[c]
         /\ texhash' = [texhash EXCEPT ![c] = Activate(@, t)]
         /\ bound' = [bound EXCEPT ![c] = texhash[c][t].id]
         /\ UNCHANGED gltextures
      \/ /\ t \notin DOMAIN h
         /\ \E n \in Names \ gltextures[c] :
              /\ texhash' = [texhash EXCEPT ![c] = Activate(Placed(h, t, n), t)]
              /\ gltextures' = [gltextures EXCEPT ![c] = @ \cup {n}]
              /\ bound' = [bound EXCEPT ![c] = n]
  BY DEF SetTexture, Placed
<1> QED BY <1>3, <1>5, <1>6, <1>7

UsedStayStep ==
  \A c \in Contexts : glcontextid = c /\ glcontextid' = None => used \subseteq DOMAIN texhash'[c]

LEMMA TextureStep ==
  ASSUME SceneAssumption, TextureInv, [SceneNext]_scenevars
  PROVE  TextureInv' /\ UsedStayStep
<1>1. ASSUME NEW c \in Contexts, OtherDrawing(c)
      PROVE  TextureInv' /\ UsedStayStep
  <2>1. /\ glcontextid = None /\ UNCHANGED <<glcontextid, texhash, block, gltextures, bound, used>>
        /\ texture2d' = [texture2d EXCEPT ![c] = ~@]
    BY <1>1 DEF OtherDrawing
  <2>2. PerContext'  BY <2>1 DEF TextureInv, PerContext
  <2>3. TablesInStep'  BY <2>1 DEF TextureInv, TablesInStep, InStep
  <2>4. glcontextid' = None /\ used' = {} /\ block' = NoBlock  BY <2>1 DEF TextureInv
  <2> QED BY <2>1, <2>2, <2>3, <2>4 DEF TextureInv, UsedStayStep, SceneAssumption
<1>2. ASSUME NEW c \in Contexts, NEW refresh \in BOOLEAN, NEW quality \in BOOLEAN,
             NEW etex \in BOOLEAN, GLRender(c, refresh, quality, etex)
      PROVE  TextureInv' /\ UsedStayStep
  <2> DEFINE h == IF didevaluate THEN texhash[c] ELSE MarkUnused(texhash[c])
             gone == IF refresh /\ (firstGLRender \/ ~didevaluate) THEN DOMAIN h ELSE {}
  <2>1. /\ glcontextid = None /\ glcontextid' = c /\ Release(c, h, gone)
        /\ activescenerytexid' = 0 /\ UNCHANGED <<block, bound, texture2d, used>>
    BY <1>2 DEF GLRender, glvars
  <2>2. InStep(h, gltextures[c])  BY Marked DEF TextureInv, TablesInStep
  <2>3. gone \in SUBSET DOMAIN h  OBVIOUS
  <2> HIDE DEF h, gone
  <2>4. TablesInStep'  BY <2>1, <2>2, <2>3, ReleaseInStep DEF TextureInv
  <2>5. PerContext'  BY <2>1 DEF TextureInv, PerContext
  <2>6. used' = {} /\ block' = NoBlock  BY <2>1 DEF TextureInv
  <2>7. UsedAreFresh' /\ ActiveIsBound'  BY <2>1, <2>6 DEF UsedAreFresh, ActiveIsBound
  <2> QED BY <2>1, <2>4, <2>5, <2>6, <2>7 DEF TextureInv, UsedStayStep, SceneAssumption
<1>3. ASSUME NEW t \in TexIds \cup {0}, NEW normals \in BOOLEAN, RenderPre(t, normals)
      PROVE  TextureInv' /\ UsedStayStep
  <2> DEFINE c == glcontextid
  <2>1. /\ c \in Contexts /\ glcontextid' = c /\ block = NoBlock
        /\ block' = [tex |-> t, normals |-> normals]
        /\ texture2d' = [texture2d EXCEPT ![c] = (dotex /\ t # 0)]
        /\ UsedAreFresh /\ ActiveIsBound
    BY <1>3 DEF RenderPre, TextureInv
  <2>2. /\ texture2d' = [d \in Contexts |-> texture2d'[d]]
        /\ texture2d'[c] = (dotex /\ t # 0)
    BY <2>1 DEF TextureInv, PerContext
  <2>3. UsedStayStep  BY <2>1 DEF UsedStayStep, SceneAssumption
  <2>4. CASE dotex /\ t # 0
    <3>1. SetTexture(c, t) /\ used' = used \cup {t}  BY <1>3, <2>4 DEF RenderPre
    <3>2. /\ TablesInStep' /\ bound' = [d \in Contexts |-> bound'[d]]
          /\ activescenerytexid' = t /\ activetexturecontext' = c
          /\ t \in DOMAIN texhash'[c] /\ texhash'[c][t].unusedcount = 0
          /\ bound'[c] = texhash'[c][t].id
          /\ \A u \in used : u \in DOMAIN texhash'[c] /\ texhash'[c][u].unusedcount = 0
      BY <2>1, <2>4, <3>1, SetTextureInStep
    <3>3. UsedAreFresh' /\ ActiveIsBound'
      BY <2>1, <3>1, <3>2 DEF UsedAreFresh, ActiveIsBound
    <3>4. block'.tex = activescenerytexid' /\ block'.tex # 0
      BY <2>1, <2>4, <3>2
    <3> QED BY <2>1, <2>2, <2>3, <3>2, <3>3, <3>4 DEF TextureInv, PerContext, SceneAssumption
  <2>5. CASE ~(dotex /\ t # 0)
    <3>1. UNCHANGED <<texhash, gltextures, bound, activescenerytexid, activetexturecontext, used>>
      BY <1>3, <2>5 DEF RenderPre
    <3>2. ~texture2d'[c]  BY <2>2, <2>5
    <3>3. TablesInStep'  BY <3>1 DEF TextureInv, TablesInStep, InStep
    <3>4. UsedAreFresh' /\ ActiveIsBound'
      BY <2>1, <3>1 DEF UsedAreFresh, ActiveIsBound
    <3>5. PerContext'  BY <2>2, <3>1 DEF TextureInv, PerContext
    <3> QED BY <2>1, <2>3, <3>2, <3>3, <3>4, <3>5 DEF TextureInv, SceneAssumption
  <2> QED BY <2>4, <2>5
<1>4. CASE RenderPost
  <2>1. /\ block # NoBlock /\ block' = NoBlock
        /\ UNCHANGED <<glcontextid, activescenerytexid, activetexturecontext, texhash,
                       gltextures, bound, texture2d, used>>
    BY <1>4 DEF RenderPost, frame
  <2>2. TablesInStep' /\ PerContext'
    BY <2>1 DEF TextureInv, TablesInStep, PerContext, InStep
  <2>3. glcontextid # None /\ UsedAreFresh /\ ActiveIsBound  BY <2>1 DEF TextureInv
  <2>4. UsedAreFresh' /\ ActiveIsBound'
    BY <2>1, <2>3 DEF UsedAreFresh, ActiveIsBound
  <2> QED BY <2>1, <2>2, <2>3, <2>4 DEF TextureInv, UsedStayStep
<1>5. CASE RenderDone
  <2> DEFINE c == glcontextid
             h == texhash[c]
             gone == IF needpostframe THEN Unused(h) ELSE {}
  <2>1. /\ c \in Contexts /\ block' = NoBlock /\ Release(c, h, gone)
        /\ texture2d' = [texture2d EXCEPT ![c] = texwasenabled]
        /\ glcontextid' = None /\ used' = {} /\ bound' = [bound EXCEPT ![c] = None]
        /\ UsedAreFresh
    BY <1>5 DEF RenderDone, TextureInv
  <2>2. InStep(h, gltextures[c])  BY <2>1 DEF TextureInv, TablesInStep
  <2>3. gone \in SUBSET DOMAIN h  BY DEF Unused
  <2>4. used \subseteq DOMAIN h \ gone
    BY <2>1 DEF UsedAreFresh, Unused, SceneAssumption
  <2>5. PerContext'  BY <2>1 DEF TextureInv, PerContext
  <2> HIDE DEF h, gone
  <2>6. TablesInStep' /\ DOMAIN texhash'[c] = DOMAIN h \ gone
    BY <2>1, <2>2, <2>3, ReleaseInStep DEF TextureInv
  <2> QED BY <2>1, <2>4, <2>5, <2>6 DEF TextureInv, UsedStayStep
<1>6. ASSUME UNCHANGED <<glcontextid, frame, texhash, block, gltextures, glvars, used>>
      PROVE  TextureInv' /\ UsedStayStep
  <2>1. TablesInStep' /\ PerContext'
    BY <1>6 DEF TextureInv, TablesInStep, PerContext, InStep, glvars
  <2>2. (UsedAreFresh => UsedAreFresh') /\ (ActiveIsBound => ActiveIsBound')
    BY <1>6 DEF UsedAreFresh, ActiveIsBound, frame, glvars
  <2> QED BY <1>6, <2>1, <2>2 DEF TextureInv, UsedStayStep, frame, glvars, SceneAssumption
<1>7. CASE Evaluate \/ FilenameCB \/ UNCHANGED scenevars
  BY <1>6, <1>7 DEF Evaluate, FilenameCB, scenevars
<1> QED BY <1>1, <1>2, <1>3, <1>4, <1>5, <1>7 DEF SceneNext

LEMMA TextureStart == SceneAssumption /\ SceneInit => TextureInv
<1> SUFFICES ASSUME SceneAssumption, SceneInit PROVE TextureInv
  OBVIOUS
<1>1. DOMAIN NoTextures = {} /\ NoTextures \in [{} -> Infos]  BY DEF NoTextures
<1>2. \A ids : ids \subseteq Names => InStep(NoTextures, ids)  BY <1>1 DEF InStep
<1>3. TablesInStep  BY <1>2 DEF SceneInit, TablesInStep
<1>4. PerContext  BY DEF SceneInit, PerContext
<1> QED BY <1>3, <1>4 DEF SceneInit, TextureInv

-----------------------------------------------------------------------------
SceneRenderingAssumption ==
  SceneAssumption /\ CullAssumption /\ ManagerAssumption /\ RegionAssumption

SceneRenderingSpec == SceneSpec /\ CullSpec /\ ViewSpec /\ ManagerSpec /\ RegionSpec

(* A block is drawn with its own texture and exactly when it is in view, a  *)
(* call of the terrain library has the callbacks of its operation, each     *)
(* pass of the scene manager has the GL state of its mode, and a region     *)
(* lies in the window: however the renderings, the evaluations and the      *)
(* settings of SceneryGL.cpp, Scenery.cpp, SceneManager.cpp and             *)
(* ViewportRegion.cpp follow one another.                                   *)
THEOREM FramesAreDrawn == SceneRenderingAssumption => (SceneRenderingSpec => []FramesDrawn)
<1> SUFFICES ASSUME SceneRenderingAssumption PROVE SceneRenderingSpec => []FramesDrawn
  OBVIOUS
<1> USE DEF SceneRenderingAssumption
<1>1. SceneSpec => []OwnTexture
  <2>1. SceneInit => TextureInv  BY TextureStart
  <2>2. TextureInv /\ [SceneNext]_scenevars => TextureInv'  BY TextureStep
  <2> QED BY <2>1, <2>2, TextureInvImplies, PTL DEF SceneSpec
<1>2. CullSpec => []CulledRight
  <2>1. CullInv /\ [CullNext]_<<blocks, cullstate>> => CullInv'  BY CullStep
  <2> QED BY <2>1, CullStart, CullInvImplies, PTL DEF CullSpec
<1>3. ViewSpec => [](OwnCallbacks /\ LinesFollow)
  <2>1. ViewInv /\ [ViewNext]_viewvars => ViewInv'  BY ViewStep
  <2>2. ViewInv => OwnCallbacks /\ LinesFollow  BY DEF ViewInv
  <2> QED BY <2>1, <2>2, ViewStart, PTL DEF ViewSpec
<1>4. ManagerSpec => []FramesRight
  <2>1. ManagerInit => ManagerInv  BY ManagerStart
  <2>2. ManagerInv /\ [ManagerNext]_managervars => ManagerInv'  BY ManagerStep
  <2>3. ManagerInv => FramesRight  BY DEF ManagerInv
  <2> QED BY <2>1, <2>2, <2>3, PTL DEF ManagerSpec
<1>5. RegionSpec => []InWindow
  <2>1. RegionInit => RegionInv  BY RegionStart
  <2>2. RegionInv /\ [RegionNext]_regionvars => RegionInv'  BY RegionStep
  <2>3. RegionInv => InWindow  BY DEF RegionInv
  <2> QED BY <2>1, <2>2, <2>3, PTL DEF RegionSpec
<1>6. OwnTexture /\ CulledRight /\ (OwnCallbacks /\ LinesFollow) /\ FramesRight /\ InWindow
        => FramesDrawn
  BY DEF FramesDrawn
<1> QED BY <1>1, <1>2, <1>3, <1>4, <1>5, <1>6, PTL DEF SceneRenderingSpec

(* What a rendering drew with is there for the next one, and a region that  *)
(* is drawn again with nothing set meanwhile stays where it was: postFrame  *)
(* of SceneryGL.cpp and doAction of ViewportRegion.cpp, step by step.       *)
THEOREM UsedAreKept == SceneRenderingAssumption => (SceneRenderingSpec => UsedKept)
<1> SUFFICES ASSUME SceneRenderingAssumption PROVE SceneRenderingSpec => UsedKept
  OBVIOUS
<1> USE DEF SceneRenderingAssumption
<1>1. SceneSpec => UsedStay
  <2>1. SceneInit => TextureInv  BY TextureStart
  <2>2. TextureInv /\ [SceneNext]_scenevars => TextureInv' /\ [UsedStayStep]_scenevars
    BY TextureStep
  <2> QED BY <2>1, <2>2, PTL DEF SceneSpec, UsedStay, UsedStayStep
<1>2. RegionSpec => Settles
  <2> DEFINE Again == ~edited /\ ~edited' /\ viewport'.window = viewport.window
                        => viewport' = viewport
  <2>1. RegionInit => RegionInv  BY RegionStart
  <2>2. RegionInv /\ [RegionNext]_regionvars => RegionInv' /\ [Again]_regionvars
    BY RegionStep
  <2> QED BY <2>1, <2>2, PTL DEF RegionSpec, Settles
<1> QED BY <1>1, <1>2, PTL DEF SceneRenderingSpec, UsedKept

-----------------------------------------------------------------------------
(* Scenes: what is in scope of a node                                       *)

(* Numbers up to n, one after the other.                                    *)
LEMMA UpTo ==
  ASSUME NEW n \in Nat, NEW T, 0 \in T, \A i \in 1..n : i - 1 \in T => i \in T
  PROVE  0..n \subseteq T
<1> DEFINE S == (0..n) \ T
<1>1. ASSUME S # {} PROVE FALSE
  <2>1. PICK m \in S : \A y \in S : ~(<<y, m>> \in OpToRel(<, Nat))
    <3>1. S \subseteq Nat  OBVIOUS
    <3> HIDE DEF S
    <3> QED BY <1>1, <3>1, WFMin, NatLessThanWellFounded
  <2>2. m \in 1..n /\ m \in Nat /\ m - 1 \in Nat /\ m - 1 \in 0..n
    OBVIOUS
  <2>3. <<m - 1, m>> \in OpToRel(<, Nat)
    BY <2>2 DEF OpToRel
  <2>4. m - 1 \in T
    BY <2>1, <2>2, <2>3
  <2> QED BY <2>2, <2>4
<1> QED BY <1>1

(* How often a node is there, counted one by one.                           *)
Count(nodes, v, i) == Cardinality({j \in 1..i : nodes[j] = v})

LEMMA CountStep ==
  ASSUME NEW nodes, NEW v, NEW i \in Nat
  PROVE  /\ Count(nodes, v, 0) = 0 /\ Count(nodes, v, i) \in Nat
         /\ Count(nodes, v, i + 1) = Count(nodes, v, i) + (IF nodes[i + 1] = v THEN 1 ELSE 0)
<1> DEFINE C(n) == {j \in 1..n : nodes[j] = v}
<1>1. C(0) = {}  OBVIOUS
<1>2. IsFiniteSet(C(i))
  <2>1. IsFiniteSet(1..i) /\ C(i) \subseteq 1..i
    BY FS_Interval
  <2> QED BY <2>1, FS_Subset
<1>3. C(i + 1) = IF nodes[i + 1] = v THEN C(i) \cup {i + 1} ELSE C(i)
  OBVIOUS
<1>4. i + 1 \notin C(i)
  OBVIOUS
<1>5. Cardinality(C(i)) \in Nat
  BY <1>2, FS_CardinalityType
<1>6. Cardinality(C(i) \cup {i + 1}) = Cardinality(C(i)) + 1
  <2> HIDE DEF C
  <2> QED BY <1>2, <1>4, FS_AddElement
<1> HIDE DEF C
<1>7. /\ Cardinality(C(0)) = 0 /\ Cardinality(C(i)) \in Nat
      /\ Cardinality(C(i + 1)) = Cardinality(C(i)) + (IF nodes[i + 1] = v THEN 1 ELSE 0)
  BY <1>1, <1>3, <1>5, <1>6, FS_EmptySet
<1> QED BY <1>7 DEF C, Count

LEMMA ShapesStep ==
  ASSUME NEW nodes, NEW i \in Nat
  PROVE  /\ ShapesTo(nodes, 0) = 0 /\ ShapesTo(nodes, i) \in Nat
         /\ ShapesTo(nodes, i + 1) = ShapesTo(nodes, i)
                                       + (IF nodes[i + 1] = "shape" THEN 1 ELSE 0)
<1>1. \A n : ShapesTo(nodes, n) = Count(nodes, "shape", n)
  BY DEF ShapesTo, Count
<1>2. /\ Count(nodes, "shape", 0) = 0 /\ Count(nodes, "shape", i) \in Nat
      /\ Count(nodes, "shape", i + 1) = Count(nodes, "shape", i)
                                          + (IF nodes[i + 1] = "shape" THEN 1 ELSE 0)
  BY CountStep
<1> QED BY <1>1, <1>2

LEMMA DepthStep ==
  ASSUME NEW nodes, NEW i \in Nat
  PROVE  /\ Depth(nodes, 0) = 0 /\ Depth(nodes, i) \in Int
         /\ Depth(nodes, i + 1) = Depth(nodes, i)
              + (IF nodes[i + 1] = "push" THEN 1 ELSE IF nodes[i + 1] = "pop" THEN -1 ELSE 0)
<1>1. \A n : Depth(nodes, n) = Count(nodes, "push", n) - Count(nodes, "pop", n)
  BY DEF Depth, Count
<1>2. \A v : /\ Count(nodes, v, 0) = 0 /\ Count(nodes, v, i) \in Nat
             /\ Count(nodes, v, i + 1) = Count(nodes, v, i) + (IF nodes[i + 1] = v THEN 1 ELSE 0)
  BY CountStep
<1>3. /\ Count(nodes, "push", i + 1) = Count(nodes, "push", i)
                                         + (IF nodes[i + 1] = "push" THEN 1 ELSE 0)
      /\ Count(nodes, "pop", i + 1) = Count(nodes, "pop", i)
                                         + (IF nodes[i + 1] = "pop" THEN 1 ELSE 0)
  BY <1>2
<1>4. "push" # "pop"  OBVIOUS
<1> QED BY <1>1, <1>2, <1>3, <1>4

(* Of what is in scope, that in the outermost d groups: what the state was   *)
(* told of when it was pushed for the next one.                              *)
Within(nodes, kinds, i, d) == {j \in InScope(nodes, kinds, i) : Depth(nodes, j) <= d}

LEMMA ScopeStep ==
  ASSUME NEW nodes, NEW kinds, NEW i \in Nat
  PROVE  /\ InScope(nodes, kinds, 0) = {} /\ InScope(nodes, kinds, i) \subseteq 1..i
         /\ Within(nodes, kinds, i, Depth(nodes, i)) = InScope(nodes, kinds, i)
         /\ InScope(nodes, kinds, i + 1) =
              {j \in InScope(nodes, kinds, i) : Depth(nodes, i + 1) >= Depth(nodes, j)}
                \cup (IF nodes[i + 1] \in kinds THEN {i + 1} ELSE {})
<1>1. \A n \in Nat : Depth(nodes, n) \in Int
  BY DepthStep
<1>2. InScope(nodes, kinds, 0) = {} /\ InScope(nodes, kinds, i) \subseteq 1..i
  BY DEF InScope
<1>3. Within(nodes, kinds, i, Depth(nodes, i)) = InScope(nodes, kinds, i)
  <2>1. \A j \in InScope(nodes, kinds, i) : j \in Nat /\ i \in j..i
    BY DEF InScope
  <2>2. \A j \in InScope(nodes, kinds, i) : Depth(nodes, j) <= Depth(nodes, i)
    BY <1>1, <2>1 DEF InScope
  <2> QED BY <2>2 DEF Within
<1>4. ASSUME NEW j \in 1..i
      PROVE  j \in InScope(nodes, kinds, i + 1) <=>
               j \in InScope(nodes, kinds, i) /\ Depth(nodes, i + 1) >= Depth(nodes, j)
  <2>1. j \in 1..(i + 1) /\ i + 1 \in j..(i + 1) /\ j..(i + 1) = (j..i) \cup {i + 1}
    OBVIOUS
  <2> QED BY <2>1 DEF InScope
<1>5. i + 1 \in InScope(nodes, kinds, i + 1) <=> nodes[i + 1] \in kinds
  <2>1. i + 1 \in 1..(i + 1) /\ (i + 1)..(i + 1) = {i + 1} /\ Depth(nodes, i + 1) \in Int
    BY <1>1
  <2> QED BY <2>1 DEF InScope
<1>6. \A j : j \in InScope(nodes, kinds, i + 1) => j \in 1..i \/ j = i + 1
  BY DEF InScope
<1>7. \A j : j \in InScope(nodes, kinds, i) => j \in 1..i
  BY <1>2
<1>8. i + 1 \notin 1..i  OBVIOUS
<1> QED BY <1>2, <1>3, <1>4, <1>5, <1>6, <1>7, <1>8

WithinMoves(nodes, kinds, i) ==
  LET node == nodes[i + 1]  D == Depth(nodes, i)
  IN  /\ node = "push" =>
           /\ \A d \in Int : d <= D =>
                 Within(nodes, kinds, i + 1, d) = Within(nodes, kinds, i, d)
           /\ Within(nodes, kinds, i + 1, D + 1) = Within(nodes, kinds, i, D)
      /\ node = "pop" =>
           \A d \in Int : d < D =>
              Within(nodes, kinds, i + 1, d) = Within(nodes, kinds, i, d)
      /\ node \notin {"push", "pop"} =>
           /\ \A d \in Int : d < D =>
                 Within(nodes, kinds, i + 1, d) = Within(nodes, kinds, i, d)
           /\ Within(nodes, kinds, i + 1, D) =
                Within(nodes, kinds, i, D) \cup (IF node \in kinds THEN {i + 1} ELSE {})

LEMMA WithinStep ==
  ASSUME NEW nodes, NEW kinds, kinds \cap {"push", "pop"} = {}, NEW i \in Nat
  PROVE  WithinMoves(nodes, kinds, i)
<1> DEFINE node == nodes[i + 1]
           D == Depth(nodes, i)
           W == InScope(nodes, kinds, i)
           V == InScope(nodes, kinds, i + 1)
<1>1. \A n \in Nat : Depth(nodes, n) \in Int
  BY DepthStep
<1>2. Depth(nodes, i + 1) = D + (IF node = "push" THEN 1 ELSE IF node = "pop" THEN -1 ELSE 0)
  BY DepthStep
<1>3. /\ V = {j \in W : Depth(nodes, i + 1) >= Depth(nodes, j)}
               \cup (IF node \in kinds THEN {i + 1} ELSE {})
      /\ W \subseteq 1..i /\ \A j \in W : Depth(nodes, j) <= D
  BY ScopeStep DEF Within
<1>4. \A j \in W : Depth(nodes, j) \in Int
  BY <1>1, <1>3
<1>5. D \in Int  BY <1>1
<1> HIDE DEF W, V, D, node
<1>6. CASE node = "push"
  <2>1. V = W /\ Depth(nodes, i + 1) = D + 1
    <3>1. Depth(nodes, i + 1) = D + 1 /\ "push" \notin kinds
      BY <1>2, <1>6
    <3>2. \A j \in W : D + 1 >= Depth(nodes, j)
      BY <1>3, <1>4, <1>5
    <3>3. {j \in W : Depth(nodes, i + 1) >= Depth(nodes, j)} = W
      BY <3>1, <3>2
    <3> QED BY <1>3, <1>6, <3>1, <3>3
  <2>2. \A j \in W : Depth(nodes, j) <= D + 1 /\ Depth(nodes, j) <= D
    BY <1>3, <1>4, <1>5
  <2> QED BY <1>6, <2>1, <2>2 DEF Within, WithinMoves, W, V, D, node
<1>7. CASE node = "pop"
  <2>1. V = {j \in W : D - 1 >= Depth(nodes, j)} /\ "pop" \notin kinds
    BY <1>2, <1>3, <1>5, <1>7
  <2>2. \A d \in Int : d < D => {j \in V : Depth(nodes, j) <= d} = {j \in W : Depth(nodes, j) <= d}
    BY <2>1, <1>4, <1>5
  <2> QED BY <1>7, <2>2 DEF Within, WithinMoves, W, V, D, node
<1>8. CASE node \notin {"push", "pop"}
  <2>1. Depth(nodes, i + 1) = D
    BY <1>2, <1>5, <1>8
  <2>2. V = W \cup (IF node \in kinds THEN {i + 1} ELSE {})
    BY <1>3, <1>4, <1>5, <2>1
  <2>3. \A d \in Int : d < D => {j \in V : Depth(nodes, j) <= d} = {j \in W : Depth(nodes, j) <= d}
    BY <2>1, <2>2, <1>4, <1>5
  <2>4. {j \in V : Depth(nodes, j) <= D} = V /\ {j \in W : Depth(nodes, j) <= D} = W
    BY <2>1, <2>2, <1>3, <1>4, <1>5
  <2> QED BY <1>8, <2>2, <2>3, <2>4 DEF Within, WithinMoves, W, V, D, node
<1> QED BY <1>6, <1>7, <1>8 DEF node, D
-----------------------------------------------------------------------------
(* SmDepthBuffer                                                            *)

DepthSpec == DepthInit /\ [][DepthNext]_depthvars

Tests == [func : {Settings[n].func : n \in DOMAIN Settings} \cup {"LEQUAL"}, enable : BOOLEAN]
Drawings == [stack : Seq(Tests), gl : Tests, buffer : Nat, tests : Seq(Tests), held : Seq(Nat)]

(* GL tests as it was told; while tests are disabled no function matters.    *)
Agrees(g, test) == g.enable = test.enable /\ (test.enable => g.func = test.func)

(* The test that the nodes in scope ask for, of those in d groups.          *)
TestWithin(nodes, i, d) ==
  LET W == Within(nodes, DOMAIN Settings, i, d)
  IN  IF W = {} THEN DefaultTest
      ELSE [func |-> Settings[nodes[Max(W)]].func, enable |-> Settings[nodes[Max(W)]].enable]

(* After i nodes the stack has what is in scope, GL what is on top, and      *)
(* every shape was tested as its scope says.                                *)
DrawnTo(nodes, i, s) ==
  /\ s \in Drawings
  /\ Len(s.stack) = Depth(nodes, i) + 2 /\ s.stack[1] = DefaultTest
  /\ \A d \in 0..Depth(nodes, i) : s.stack[d + 2] = TestWithin(nodes, i, d)
  /\ Agrees(s.gl, s.stack[Len(s.stack)])
  /\ Len(s.tests) = ShapesTo(nodes, i)
  /\ \A j \in 1..i : nodes[j] = "shape" =>
        /\ ShapesTo(nodes, j) \in 1..Len(s.tests)
        /\ Agrees(s.tests[ShapesTo(nodes, j)], TestWithin(nodes, j, Depth(nodes, j)))

LEMMA DefaultIsTest == DefaultTest \in Tests
BY DEF DefaultTest, Tests

LEMMA UpdatedAgrees ==
  ASSUME NEW g \in Tests, NEW test \in Tests
  PROVE  Updated(g, test) \in Tests /\ Agrees(Updated(g, test), test)
<1>1. CASE test.enable
  BY <1>1 DEF Updated, Agrees
<1>2. CASE ~test.enable
  <2>1. [g EXCEPT !.enable = FALSE] \in Tests /\ [g EXCEPT !.enable = FALSE].enable = FALSE
    BY DEF Tests
  <2>2. test.enable = FALSE
    BY <1>2 DEF Tests
  <2> QED BY <1>2, <2>1, <2>2 DEF Updated, Agrees
<1> QED BY <1>1, <1>2

(* What the nodes of the depth test do to what is drawn.                    *)
LEMMA SetDraws ==
  ASSUME NEW s \in Drawings, Len(s.stack) >= 1, NEW test \in Tests,
         Agrees(s.gl, s.stack[Len(s.stack)])
  PROVE  /\ Set(s, test) \in Drawings
         /\ Len(Set(s, test).stack) = Len(s.stack)
         /\ \A k \in 1..(Len(s.stack) - 1) : Set(s, test).stack[k] = s.stack[k]
         /\ Set(s, test).stack[Len(s.stack)] = test
         /\ Agrees(Set(s, test).gl, test) /\ Set(s, test).tests = s.tests
<1> DEFINE n == Len(s.stack)
           tests == [s.stack EXCEPT ![n] = test]
           g == IF test = Last(s.stack) THEN s.gl ELSE Updated(s.gl, test)
<1>1. s.stack \in Seq(Tests) /\ s.gl \in Tests /\ n \in 1..n
  BY DEF Drawings
<1>2. /\ tests \in Seq(Tests) /\ Len(tests) = n /\ tests[n] = test
      /\ \A k \in 1..(n - 1) : tests[k] = s.stack[k]
  BY <1>1
<1>3. g \in Tests /\ Agrees(g, test)
  BY <1>1, UpdatedAgrees DEF Last
<1>4. Set(s, test) = [s EXCEPT !.stack = tests, !.gl = g]
  <2>1. Set(s, test) = [s EXCEPT !.stack[Len(s.stack)] = test,
                          !.gl = IF test = Last(s.stack) THEN s.gl ELSE Updated(s.gl, test)]
    BY DEF Set
  <2> QED BY <2>1 DEF Drawings
<1> HIDE DEF tests, g
<1>5. Set(s, test) \in Drawings /\ Set(s, test).stack = tests /\ Set(s, test).gl = g
      /\ Set(s, test).tests = s.tests
  BY <1>2, <1>3, <1>4 DEF Drawings
<1> QED BY <1>2, <1>3, <1>5

LEMMA PushDraws ==
  ASSUME NEW s \in Drawings, Len(s.stack) >= 1
  PROVE  /\ Push(s) \in Drawings /\ Push(s).gl = s.gl /\ Push(s).tests = s.tests
         /\ Len(Push(s).stack) = Len(s.stack) + 1
         /\ \A k \in 1..Len(s.stack) : Push(s).stack[k] = s.stack[k]
         /\ Push(s).stack[Len(s.stack) + 1] = s.stack[Len(s.stack)]
<1>1. s.stack \in Seq(Tests) /\ s.stack[Len(s.stack)] \in Tests
  BY DEF Drawings
<1>2. Push(s) = [s EXCEPT !.stack = Append(s.stack, s.stack[Len(s.stack)])]
  BY DEF Push, Last
<1>3. Append(s.stack, s.stack[Len(s.stack)]) \in Seq(Tests)
  BY <1>1
<1>4. Push(s) \in Drawings /\ Push(s).gl = s.gl /\ Push(s).tests = s.tests
      /\ Push(s).stack = Append(s.stack, s.stack[Len(s.stack)])
  BY <1>2, <1>3 DEF Drawings
<1> QED BY <1>1, <1>4

LEMMA PopDraws ==
  ASSUME NEW s \in Drawings, Len(s.stack) >= 2, Agrees(s.gl, s.stack[Len(s.stack)])
  PROVE  /\ Pop(s) \in Drawings /\ Pop(s).tests = s.tests
         /\ Len(Pop(s).stack) = Len(s.stack) - 1
         /\ \A k \in 1..(Len(s.stack) - 1) : Pop(s).stack[k] = s.stack[k]
         /\ Agrees(Pop(s).gl, s.stack[Len(s.stack) - 1])
<1> DEFINE n == Len(s.stack)
           front == SubSeq(s.stack, 1, n - 1)
           below == Last(front)
           g == IF below = Last(s.stack) THEN s.gl ELSE Updated(s.gl, below)
<1>1. s.stack \in Seq(Tests) /\ s.gl \in Tests /\ n \in Nat
  BY DEF Drawings
<1>2. /\ front \in Seq(Tests) /\ Len(front) = n - 1
      /\ \A k \in 1..(n - 1) : front[k] = s.stack[k]
  BY <1>1
<1>3. below = s.stack[n - 1] /\ below \in Tests
  BY <1>1, <1>2 DEF Last
<1>4. g \in Tests /\ Agrees(g, below)
  BY <1>1, <1>3, UpdatedAgrees DEF Last
<1>5. Pop(s) = [s EXCEPT !.stack = front, !.gl = g]
  BY DEF Pop, Front
<1> HIDE DEF front, g, below
<1>6. Pop(s) \in Drawings /\ Pop(s).stack = front /\ Pop(s).gl = g /\ Pop(s).tests = s.tests
  BY <1>2, <1>4, <1>5 DEF Drawings
<1> QED BY <1>2, <1>3, <1>4, <1>6

LEMMA ShapeDraws ==
  ASSUME NEW s \in Drawings
  PROVE  /\ Shape(s) \in Drawings /\ Shape(s).stack = s.stack /\ Shape(s).gl = s.gl
         /\ Len(Shape(s).tests) = Len(s.tests) + 1
         /\ \A k \in 1..Len(s.tests) : Shape(s).tests[k] = s.tests[k]
         /\ Shape(s).tests[Len(s.tests) + 1] = s.gl
<1> DEFINE b == IF s.gl.enable THEN s.buffer + 1 ELSE s.buffer
<1>1. s.tests \in Seq(Tests) /\ s.held \in Seq(Nat) /\ s.buffer \in Nat /\ s.gl \in Tests
  BY DEF Drawings
<1>2. Append(s.tests, s.gl) \in Seq(Tests) /\ Append(s.held, s.buffer) \in Seq(Nat) /\ b \in Nat
  BY <1>1
<1>3. Shape(s) = [s EXCEPT !.tests = Append(s.tests, s.gl), !.held = Append(s.held, s.buffer),
                           !.buffer = b]
  BY DEF Shape, Drawings
<1> HIDE DEF b
<1>4. /\ Shape(s) \in Drawings /\ Shape(s).stack = s.stack /\ Shape(s).gl = s.gl
      /\ Shape(s).tests = Append(s.tests, s.gl)
  BY <1>2, <1>3 DEF Drawings
<1> QED BY <1>1, <1>4

LEMMA MaxOfNew ==
  ASSUME NEW i \in Nat, NEW W \in SUBSET (1..i)
  PROVE  Max(W \cup {i + 1}) = i + 1
<1> DEFINE V == W \cup {i + 1}
<1>1. i + 1 \in V /\ \A y \in V : i + 1 >= y
  OBVIOUS
<1>2. \A x \in V : (\A y \in V : x >= y) => x = i + 1
  OBVIOUS
<1> HIDE DEF V
<1>3. (CHOOSE x \in V : \A y \in V : x >= y) = i + 1
  BY <1>1, <1>2
<1> QED BY <1>3 DEF Max, V

(* Outside of the nodes that set it, the test asked for stays.              *)
LEMMA TestsStep ==
  ASSUME DepthAssumption, NEW nodes, NEW i \in Nat
  PROVE  LET node == nodes[i + 1]  D == Depth(nodes, i)
         IN  /\ node = "push" =>
                  /\ \A d \in Int : d <= D =>
                        TestWithin(nodes, i + 1, d) = TestWithin(nodes, i, d)
                  /\ TestWithin(nodes, i + 1, D + 1) = TestWithin(nodes, i, D)
             /\ node = "pop" =>
                  \A d \in Int : d < D => TestWithin(nodes, i + 1, d) = TestWithin(nodes, i, d)
             /\ node \notin {"push", "pop"} =>
                  \A d \in Int : d < D => TestWithin(nodes, i + 1, d) = TestWithin(nodes, i, d)
             /\ node \notin {"push", "pop"} /\ node \notin DOMAIN Settings =>
                  TestWithin(nodes, i + 1, D) = TestWithin(nodes, i, D)
             /\ node \in DOMAIN Settings =>
                  TestWithin(nodes, i + 1, D) = [func |-> Settings[node].func,
                                                 enable |-> Settings[node].enable]
<1> DEFINE node == nodes[i + 1]
           D == Depth(nodes, i)
           K == DOMAIN Settings
<1>1. K \cap {"push", "pop"} = {}
  BY DEF DepthAssumption
<1>2. /\ node = "push" =>
           /\ \A d \in Int : d <= D => Within(nodes, K, i + 1, d) = Within(nodes, K, i, d)
           /\ Within(nodes, K, i + 1, D + 1) = Within(nodes, K, i, D)
      /\ node = "pop" =>
           \A d \in Int : d < D => Within(nodes, K, i + 1, d) = Within(nodes, K, i, d)
      /\ node \notin {"push", "pop"} =>
           /\ \A d \in Int : d < D => Within(nodes, K, i + 1, d) = Within(nodes, K, i, d)
           /\ Within(nodes, K, i + 1, D) =
                Within(nodes, K, i, D) \cup (IF node \in K THEN {i + 1} ELSE {})
  <2>1. WithinMoves(nodes, K, i)
    <3> HIDE DEF K
    <3> QED BY <1>1, WithinStep
  <2> HIDE DEF K
  <2> QED BY <2>1 DEF WithinMoves
<1>3. \A e, d : Within(nodes, K, i + 1, e) = Within(nodes, K, i, d)
                   => TestWithin(nodes, i + 1, e) = TestWithin(nodes, i, d)
  BY DEF TestWithin
<1>4. node \in K => TestWithin(nodes, i + 1, D) = [func |-> Settings[node].func,
                                                  enable |-> Settings[node].enable]
  <2> SUFFICES ASSUME node \in K PROVE TestWithin(nodes, i + 1, D) =
                  [func |-> Settings[node].func, enable |-> Settings[node].enable]
    OBVIOUS
  <2>1. node \notin {"push", "pop"}
    BY <1>1
  <2>2. Within(nodes, K, i + 1, D) = Within(nodes, K, i, D) \cup {i + 1}
    BY <1>2, <2>1
  <2>3. Within(nodes, K, i, D) \in SUBSET (1..i)
    BY ScopeStep DEF Within
  <2>4. Max(Within(nodes, K, i + 1, D)) = i + 1 /\ Within(nodes, K, i + 1, D) # {}
    BY <2>2, <2>3, MaxOfNew
  <2> QED BY <2>4 DEF TestWithin
<1>5. node \notin {"push", "pop"} /\ node \notin K =>
        Within(nodes, K, i + 1, D) = Within(nodes, K, i, D)
  BY <1>2
<1> HIDE DEF node, D, K
<1>6. /\ node = "push" =>
           /\ \A d \in Int : d <= D => TestWithin(nodes, i + 1, d) = TestWithin(nodes, i, d)
           /\ TestWithin(nodes, i + 1, D + 1) = TestWithin(nodes, i, D)
      /\ node = "pop" =>
           \A d \in Int : d < D => TestWithin(nodes, i + 1, d) = TestWithin(nodes, i, d)
      /\ node \notin {"push", "pop"} =>
           \A d \in Int : d < D => TestWithin(nodes, i + 1, d) = TestWithin(nodes, i, d)
      /\ node \notin {"push", "pop"} /\ node \notin K =>
           TestWithin(nodes, i + 1, D) = TestWithin(nodes, i, D)
  BY <1>2, <1>3, <1>5
<1> QED BY <1>4, <1>6 DEF node, D, K

(* One node after another, what is drawn goes on as it began.               *)
LEMMA DepthVisited ==
  ASSUME DepthAssumption, NEW nodes \in Scenes, NEW i \in Nat, i + 1 \in 1..Len(nodes),
         NEW s, DrawnTo(nodes, i, s)
  PROVE  DrawnTo(nodes, i + 1, Visit(s, nodes[i + 1]))
<1> DEFINE node == nodes[i + 1]
           D == Depth(nodes, i)
           t == Visit(s, node)
<1>1. /\ s \in Drawings /\ Len(s.stack) = D + 2 /\ s.stack[1] = DefaultTest
      /\ \A d \in 0..D : s.stack[d + 2] = TestWithin(nodes, i, d)
      /\ Agrees(s.gl, s.stack[Len(s.stack)])
      /\ Len(s.tests) = ShapesTo(nodes, i)
      /\ \A j \in 1..i : nodes[j] = "shape" =>
            /\ ShapesTo(nodes, j) \in 1..Len(s.tests)
            /\ Agrees(s.tests[ShapesTo(nodes, j)], TestWithin(nodes, j, Depth(nodes, j)))
  BY DEF DrawnTo
<1>2. /\ D \in Int /\ Depth(nodes, i + 1) \in Int
      /\ Depth(nodes, i + 1) = D + (IF node = "push" THEN 1 ELSE IF node = "pop" THEN -1 ELSE 0)
      /\ Depth(nodes, i + 1) >= 0 /\ D >= 0
  <2>1. IsScene(nodes, DOMAIN Settings)
    BY DEF DepthAssumption
  <2>2. \A k \in 1..Len(nodes) : Depth(nodes, k) >= 0
    BY <2>1 DEF IsScene
  <2>3. Len(nodes) \in Nat
    BY <2>1 DEF IsScene
  <2>4. Depth(nodes, 0) = 0 /\ \A k \in Nat : Depth(nodes, k) \in Int
    BY DepthStep
  <2>5. i = 0 \/ i \in 1..Len(nodes)
    BY <2>3
  <2>6. D >= 0
    BY <2>2, <2>4, <2>5
  <2>7. Depth(nodes, i + 1) >= 0 /\ i + 1 \in Nat
    BY <2>2
  <2>8. Depth(nodes, i + 1) = D + (IF node = "push" THEN 1 ELSE IF node = "pop" THEN -1 ELSE 0)
    BY DepthStep
  <2> HIDE DEF node, D
  <2>9. D \in Int
    BY <2>4 DEF D
  <2> QED BY <2>4, <2>6, <2>7, <2>8, <2>9
<1>3. node \in DOMAIN Settings \cup {"push", "pop", "shape"}
  BY DEF DepthAssumption, IsScene
<1>4. ShapesTo(nodes, i) \in Nat /\ ShapesTo(nodes, i + 1) = ShapesTo(nodes, i)
                                     + (IF node = "shape" THEN 1 ELSE 0)
  BY ShapesStep
<1>5. /\ node = "push" =>
           /\ \A d \in Int : d <= D => TestWithin(nodes, i + 1, d) = TestWithin(nodes, i, d)
           /\ TestWithin(nodes, i + 1, D + 1) = TestWithin(nodes, i, D)
      /\ node = "pop" =>
           \A d \in Int : d < D => TestWithin(nodes, i + 1, d) = TestWithin(nodes, i, d)
      /\ node \notin {"push", "pop"} =>
           \A d \in Int : d < D => TestWithin(nodes, i + 1, d) = TestWithin(nodes, i, d)
      /\ node \notin {"push", "pop"} /\ node \notin DOMAIN Settings =>
           TestWithin(nodes, i + 1, D) = TestWithin(nodes, i, D)
      /\ node \in DOMAIN Settings =>
           TestWithin(nodes, i + 1, D) = [func |-> Settings[node].func,
                                          enable |-> Settings[node].enable]
  BY TestsStep
<1>6. \A j \in 1..(i + 1) : j \in 1..i \/ j = i + 1
  OBVIOUS
<1> HIDE DEF node, D
<1>6a. D \in Nat /\ Len(s.stack) = D + 2
  BY <1>1, <1>2
<1>6b. s.stack[1] = DefaultTest /\ Agrees(s.gl, s.stack[Len(s.stack)])
  BY <1>1
<1>7. CASE node = "push"
  <2>1. t = Push(s)
    BY <1>7 DEF Visit
  <2>2. /\ t \in Drawings /\ t.gl = s.gl /\ t.tests = s.tests
        /\ Len(t.stack) = Len(s.stack) + 1
        /\ \A k \in 1..Len(s.stack) : t.stack[k] = s.stack[k]
        /\ t.stack[Len(s.stack) + 1] = s.stack[Len(s.stack)]
    <3>1. s \in Drawings /\ Len(s.stack) >= 1
      BY <1>1, <1>6a
    <3> HIDE DEF t
    <3> QED BY <2>1, <3>1, PushDraws
  <2> HIDE DEF t
  <2>3. Depth(nodes, i + 1) = D + 1 /\ ShapesTo(nodes, i + 1) = ShapesTo(nodes, i)
    BY <1>2, <1>4, <1>7
  <2>4. \A d \in 0..(D + 1) : t.stack[d + 2] = TestWithin(nodes, i + 1, d)
    <3> TAKE d \in 0..(D + 1)
    <3>1. CASE d <= D
      <4>1. d \in 0..D /\ d + 2 \in 1..Len(s.stack)
        BY <1>1, <1>2, <3>1
      <4>2. t.stack[d + 2] = s.stack[d + 2] /\ s.stack[d + 2] = TestWithin(nodes, i, d)
        BY <1>1, <2>2, <4>1
      <4>3. TestWithin(nodes, i + 1, d) = TestWithin(nodes, i, d)
        <5>1. d \in Int
          OBVIOUS
        <5> QED BY <1>5, <1>7, <3>1, <5>1
      <4> QED BY <4>2, <4>3
    <3>2. CASE ~(d <= D)
      <4>1. d = D + 1 /\ D \in 0..D
        BY <1>2, <3>2
      <4> QED BY <1>1, <1>2, <1>5, <1>7, <2>2, <4>1
    <3> QED BY <3>1, <3>2
  <2>5. t.stack[1] = DefaultTest /\ Agrees(t.gl, t.stack[Len(t.stack)])
    <3>1. 1 \in 1..Len(s.stack)
      BY <1>6a
    <3>2. t.stack[1] = s.stack[1]
      BY <2>2, <3>1
    <3>3. t.stack[Len(t.stack)] = s.stack[Len(s.stack)]
      BY <2>2
    <3>4. Agrees(t.gl, t.stack[Len(t.stack)])
      BY <1>6b, <2>2, <3>3
    <3> QED BY <1>6b, <3>2, <3>4
  <2>6. node # "shape"
    BY <1>7
  <2>7. Len(t.stack) = Depth(nodes, i + 1) + 2 /\ Len(t.tests) = ShapesTo(nodes, i + 1)
    BY <1>1, <1>6a, <2>2, <2>3
  <2>8. \A d \in 0..Depth(nodes, i + 1) : t.stack[d + 2] = TestWithin(nodes, i + 1, d)
    BY <2>3, <2>4
  <2>9. \A j \in 1..(i + 1) : nodes[j] = "shape" => j \in 1..i
    BY <1>6, <2>6 DEF node
  <2> QED BY <1>1, <2>2, <2>5, <2>7, <2>8, <2>9 DEF DrawnTo, t, node
<1>8. CASE node = "pop"
  <2>1. t = Pop(s)
    BY <1>8 DEF Visit
  <2>2. /\ t \in Drawings /\ t.tests = s.tests
        /\ Len(t.stack) = Len(s.stack) - 1
        /\ \A k \in 1..(Len(s.stack) - 1) : t.stack[k] = s.stack[k]
        /\ Agrees(t.gl, s.stack[Len(s.stack) - 1])
    <3>1. Len(s.stack) >= 2
      BY <1>1, <1>2
    <3> HIDE DEF t
    <3> QED BY <1>1, <2>1, <3>1, PopDraws
  <2> HIDE DEF t
  <2>3. /\ Depth(nodes, i + 1) = D - 1 /\ D >= 1
        /\ ShapesTo(nodes, i + 1) = ShapesTo(nodes, i)
    BY <1>2, <1>4, <1>8
  <2>4. \A d \in 0..(D - 1) : t.stack[d + 2] = TestWithin(nodes, i + 1, d)
    <3> TAKE d \in 0..(D - 1)
    <3>1. d \in 0..D /\ d + 2 \in 1..(Len(s.stack) - 1) /\ d < D /\ d \in Int
      BY <1>6a
    <3> QED BY <1>1, <1>5, <1>8, <2>2, <3>1
  <2>5. t.stack[1] = DefaultTest /\ Agrees(t.gl, t.stack[Len(t.stack)])
    <3>1. 1 \in 1..(Len(s.stack) - 1) /\ Len(s.stack) - 1 \in 1..(Len(s.stack) - 1)
      BY <1>6a, <2>3
    <3>2. /\ t.stack[1] = s.stack[1]
          /\ t.stack[Len(t.stack)] = s.stack[Len(s.stack) - 1]
      BY <2>2, <3>1
    <3> QED BY <1>6b, <2>2, <3>2
  <2>6. node # "shape"
    BY <1>8
  <2>7. Len(t.stack) = Depth(nodes, i + 1) + 2 /\ Len(t.tests) = ShapesTo(nodes, i + 1)
    BY <1>1, <1>2, <2>2, <2>3
  <2>8. \A d \in 0..Depth(nodes, i + 1) : t.stack[d + 2] = TestWithin(nodes, i + 1, d)
    BY <2>3, <2>4
  <2>9. \A j \in 1..(i + 1) : nodes[j] = "shape" => j \in 1..i
    BY <1>6, <2>6 DEF node
  <2> QED BY <1>1, <2>2, <2>5, <2>7, <2>8, <2>9 DEF DrawnTo, t, node
<1>9. CASE node = "shape"
  <2>1. t = Shape(s)
    BY <1>9 DEF Visit
  <2>2. /\ t \in Drawings /\ t.stack = s.stack /\ t.gl = s.gl
        /\ Len(t.tests) = Len(s.tests) + 1
        /\ \A k \in 1..Len(s.tests) : t.tests[k] = s.tests[k]
        /\ t.tests[Len(s.tests) + 1] = s.gl
    BY <1>1, <2>1, ShapeDraws
  <2> HIDE DEF t
  <2>3. /\ Depth(nodes, i + 1) = D
        /\ ShapesTo(nodes, i + 1) = ShapesTo(nodes, i) + 1
        /\ node \notin {"push", "pop"} /\ node \notin DOMAIN Settings
    BY <1>2, <1>4, <1>9 DEF DepthAssumption
  <2>4. \A d \in 0..D : TestWithin(nodes, i + 1, d) = TestWithin(nodes, i, d)
    <3> TAKE d \in 0..D
    <3>1. d \in Int /\ (d < D \/ d = D)
      BY <1>2
    <3> QED BY <1>5, <2>3, <3>1
  <2>5. Agrees(s.gl, TestWithin(nodes, i + 1, D))
    <3>1. D \in 0..D
      BY <1>2
    <3> QED BY <1>1, <2>4, <3>1
  <2>6. ASSUME NEW j \in 1..(i + 1), nodes[j] = "shape"
        PROVE  /\ ShapesTo(nodes, j) \in 1..Len(t.tests)
               /\ Agrees(t.tests[ShapesTo(nodes, j)], TestWithin(nodes, j, Depth(nodes, j)))
    <3>1. CASE j \in 1..i
      <4>1. /\ ShapesTo(nodes, j) \in 1..Len(s.tests)
            /\ Agrees(s.tests[ShapesTo(nodes, j)], TestWithin(nodes, j, Depth(nodes, j)))
        BY <1>1, <2>6, <3>1
      <4>2. Len(s.tests) \in Nat
        BY <1>1, <1>4
      <4> QED BY <2>2, <4>1, <4>2
    <3>2. CASE j = i + 1
      BY <1>1, <1>4, <2>2, <2>3, <2>5, <3>2
    <3> QED BY <3>1, <3>2
  <2> QED BY <1>1, <2>2, <2>3, <2>4, <2>6 DEF DrawnTo, t, node
<1>10. CASE node \in DOMAIN Settings
  <2> DEFINE test == [func |-> Settings[node].func, enable |-> Settings[node].enable]
             u == Set(s, test)
  <2>1. node \notin {"push", "pop", "shape"} /\ test \in Tests
    BY <1>10 DEF DepthAssumption, Tests
  <2>2. /\ u \in Drawings /\ Len(u.stack) = Len(s.stack)
        /\ \A k \in 1..(Len(s.stack) - 1) : u.stack[k] = s.stack[k]
        /\ u.stack[Len(s.stack)] = test /\ Agrees(u.gl, test) /\ u.tests = s.tests
    <3>1. Len(s.stack) >= 1
      BY <1>1, <1>2
    <3> HIDE DEF test
    <3> QED BY <1>1, <2>1, <3>1, SetDraws
  <2>3. t = IF Settings[node].clearNow THEN [u EXCEPT !.buffer = 0] ELSE u
    BY <2>1 DEF Visit, SetTest
  <2> HIDE DEF u, t
  <2>4. t \in Drawings /\ t.stack = u.stack /\ t.gl = u.gl /\ t.tests = u.tests
    BY <2>2, <2>3 DEF Drawings
  <2>5. Depth(nodes, i + 1) = D /\ ShapesTo(nodes, i + 1) = ShapesTo(nodes, i)
    BY <1>2, <1>4, <2>1
  <2>6. TestWithin(nodes, i + 1, D) = test
    BY <1>5, <1>10
  <2> HIDE DEF test
  <2>7. \A d \in 0..D : t.stack[d + 2] = TestWithin(nodes, i + 1, d)
    <3> TAKE d \in 0..D
    <3>1. CASE d < D
      <4>1. d \in Int /\ d + 2 \in 1..(Len(s.stack) - 1)
        BY <1>1, <1>2, <3>1
      <4> QED BY <1>1, <1>5, <2>1, <2>2, <2>4, <3>1, <4>1
    <3>2. CASE d = D
      BY <1>1, <2>2, <2>4, <2>6, <3>2
    <3> QED BY <1>2, <3>1, <3>2
  <2>8. t.stack[1] = DefaultTest /\ Agrees(t.gl, t.stack[Len(t.stack)])
    BY <1>1, <1>2, <2>2, <2>4
  <2> QED BY <1>1, <1>6, <2>1, <2>2, <2>4, <2>5, <2>7, <2>8 DEF DrawnTo, t, node
<1> QED BY <1>3, <1>7, <1>8, <1>9, <1>10 DEF t, node

(* The traversal of a scene has a state after each of its nodes.            *)
Visits(f, nodes, n, start) ==
  f = [i \in 0..n |-> IF i = 0 THEN Push(start) ELSE Visit(f[i - 1], nodes[i])]

LEMMA VisitsRun ==
  ASSUME NEW nodes, NEW n \in Nat, NEW start
  PROVE  \E f : Visits(f, nodes, n, start)
<1> DEFINE T == {m \in 0..n : \E f : Visits(f, nodes, m, start)}
<1>1. 0 \in T
  <2> DEFINE f == [i \in 0..0 |-> Push(start)]
  <2>1. Visits(f, nodes, 0, start)
    BY DEF Visits
  <2> HIDE DEF f
  <2> QED BY <2>1
<1>2. ASSUME NEW m \in 1..n, m - 1 \in T PROVE m \in T
  <2>1. PICK f : Visits(f, nodes, m - 1, start)
    BY <1>2
  <2> DEFINE g == [i \in 0..m |-> IF i = m THEN Visit(f[m - 1], nodes[m]) ELSE f[i]]
  <2>2. \A i \in 0..(m - 1) : f[i] = IF i = 0 THEN Push(start) ELSE Visit(f[i - 1], nodes[i])
    BY <2>1 DEF Visits
  <2>3. ASSUME NEW i \in 0..m
        PROVE  g[i] = IF i = 0 THEN Push(start) ELSE Visit(g[i - 1], nodes[i])
    <3>1. CASE i = m
      <4>1. g[i] = Visit(f[m - 1], nodes[m]) /\ g[i - 1] = f[m - 1] /\ i # 0
        BY <3>1
      <4> QED BY <3>1, <4>1
    <3>2. CASE i # m
      <4>1. i \in 0..(m - 1) /\ g[i] = f[i]
        BY <3>2
      <4>2. i # 0 => g[i - 1] = f[i - 1]
        BY <4>1
      <4> HIDE DEF g
      <4> QED BY <2>2, <4>1, <4>2
    <3> QED BY <3>1, <3>2
  <2>4. g = [i \in 0..m |-> g[i]]
    OBVIOUS
  <2> HIDE DEF g
  <2>5. Visits(g, nodes, m, start)
    BY <2>3, <2>4 DEF Visits
  <2> QED BY <2>5
<1> HIDE DEF T
<1>3. 0..n \subseteq T
  BY <1>1, <1>2, UpTo
<1>4. n \in T
  BY <1>3
<1> QED BY <1>4 DEF T

(* A frame tests each shape as it should and leaves GL as it found it.      *)
LEMMA FrameDraws ==
  ASSUME DepthAssumption, gl = DefaultTest, NEW nodes \in Scenes, Frame(nodes)
  PROVE  (gl = DefaultTest /\ TestedInScope)'
<1> DEFINE n == Len(nodes)
           start == [stack |-> <<DefaultTest>>, gl |-> gl, buffer |-> 0,
                     tests |-> << >>, held |-> << >>]
           after == CHOOSE f : Visits(f, nodes, n, start)
           s == Pop(after[n])
<1>1. gl' = s.gl /\ drawn' = [scene |-> nodes, tests |-> s.tests, held |-> s.held]
  BY DEF Frame, Visits
<1>2. /\ nodes \in Seq(DOMAIN Settings \cup {"push", "pop", "shape"}) /\ n \in Nat
      /\ Depth(nodes, n) = 0
  BY DEF DepthAssumption, IsScene
<1>3. Visits(after, nodes, n, start)
  <2> HIDE DEF start, n
  <2> QED BY <1>2, VisitsRun
<1> HIDE DEF after
<1>4. \A i \in 0..n : after[i] = IF i = 0 THEN Push(start) ELSE Visit(after[i - 1], nodes[i])
  BY <1>3 DEF Visits
<1>5. DrawnTo(nodes, 0, after[0])
  <2> DEFINE t == after[0]
  <2>1. t = Push(start)
    BY <1>2, <1>4
  <2>2. start \in Drawings /\ Len(start.stack) = 1 /\ start.stack[1] = DefaultTest
        /\ start.gl = DefaultTest /\ start.tests = << >>
    BY DefaultIsTest DEF Drawings
  <2> HIDE DEF t, start
  <2>3. /\ t \in Drawings /\ t.gl = DefaultTest /\ t.tests = << >>
        /\ Len(t.stack) = 2 /\ t.stack[1] = DefaultTest /\ t.stack[2] = DefaultTest
    <3>1. Len(start.stack) >= 1
      BY <2>2
    <3>2. /\ Push(start) \in Drawings /\ Push(start).gl = start.gl
          /\ Push(start).tests = start.tests /\ Len(Push(start).stack) = Len(start.stack) + 1
          /\ \A k \in 1..Len(start.stack) : Push(start).stack[k] = start.stack[k]
          /\ Push(start).stack[Len(start.stack) + 1] = start.stack[Len(start.stack)]
      BY <2>2, <3>1, PushDraws
    <3> QED BY <2>1, <2>2, <3>2
  <2>4. Depth(nodes, 0) = 0 /\ ShapesTo(nodes, 0) = 0
    BY DepthStep, ShapesStep
  <2>5. TestWithin(nodes, 0, 0) = DefaultTest
    BY ScopeStep DEF TestWithin, Within
  <2> QED BY <2>3, <2>4, <2>5 DEF DrawnTo, Agrees, t
<1> HIDE DEF start
<1> DEFINE T == {i \in 0..n : DrawnTo(nodes, i, after[i])}
<1>6. DrawnTo(nodes, n, after[n])
  <2>1. 0 \in T
    BY <1>2, <1>5
  <2>2. ASSUME NEW i \in 1..n, i - 1 \in T PROVE i \in T
    <3>1. i - 1 \in Nat /\ (i - 1) + 1 = i /\ i \in 1..Len(nodes)
      BY <1>2
    <3>2. DrawnTo(nodes, i - 1, after[i - 1])
      BY <2>2
    <3>3. DrawnTo(nodes, i, Visit(after[i - 1], nodes[i]))
      <4> DEFINE k == i - 1  u == after[k]
      <4>1. k \in Nat /\ k + 1 \in 1..Len(nodes) /\ DrawnTo(nodes, k, u) /\ k + 1 = i
        BY <3>1, <3>2
      <4> HIDE DEF k, u
      <4>2. DrawnTo(nodes, k + 1, Visit(u, nodes[k + 1]))
        BY <4>1, DepthVisited
      <4> QED BY <4>1, <4>2 DEF k, u
    <3>4. after[i] = Visit(after[i - 1], nodes[i])
      BY <1>4
    <3> QED BY <3>3, <3>4
  <2> HIDE DEF T
  <2>3. n \in T
    <3>1. 0..n \subseteq T
      <4> HIDE DEF n
      <4> QED BY <1>2, <2>1, <2>2, UpTo
    <3> QED BY <1>2, <3>1
  <2> QED BY <2>3 DEF T
<1> DEFINE u == after[n]
<1>7. /\ u \in Drawings /\ Len(u.stack) = 2 /\ u.stack[1] = DefaultTest
      /\ Agrees(u.gl, u.stack[Len(u.stack)])
      /\ \A j \in 1..n : nodes[j] = "shape" =>
            /\ ShapesTo(nodes, j) \in 1..Len(u.tests)
            /\ Agrees(u.tests[ShapesTo(nodes, j)], TestWithin(nodes, j, Depth(nodes, j)))
  BY <1>2, <1>6 DEF DrawnTo
<1>8. s = Pop(u)
  OBVIOUS
<1> HIDE DEF u, s
<1>9. s \in Drawings /\ s.tests = u.tests /\ Agrees(s.gl, DefaultTest)
  <2>1. Len(u.stack) >= 2 /\ Agrees(u.gl, u.stack[Len(u.stack)]) /\ u \in Drawings
    BY <1>7
  <2>2. Pop(u) \in Drawings /\ Pop(u).tests = u.tests
        /\ Agrees(Pop(u).gl, u.stack[Len(u.stack) - 1])
    BY <2>1, PopDraws
  <2> QED BY <1>7, <1>8, <2>2
<1>10. gl' = DefaultTest
  BY <1>1, <1>9 DEF Drawings, Tests, Agrees, DefaultTest
<1>11. drawn'.scene = nodes /\ drawn'.tests = u.tests
  BY <1>1, <1>9
<1>12. ASSUME NEW j \in 1..n
       PROVE  TestOf(nodes, j).enable = TestWithin(nodes, j, Depth(nodes, j)).enable
              /\ TestOf(nodes, j).func = TestWithin(nodes, j, Depth(nodes, j)).func
  <2>1. j \in Nat
    BY <1>2
  <2>2. Within(nodes, DOMAIN Settings, j, Depth(nodes, j)) = InScope(nodes, DOMAIN Settings, j)
    BY <2>1, ScopeStep
  <2> QED BY <2>2 DEF TestOf, TestWithin
<1>13. DOMAIN nodes = 1..n
  BY <1>2
<1>14. TestedInScope'
  <2> SUFFICES ASSUME NEW j \in 1..n, nodes[j] = "shape"
               PROVE  /\ u.tests[ShapesTo(nodes, j)].enable = TestOf(nodes, j).enable
                      /\ TestOf(nodes, j).enable =>
                           u.tests[ShapesTo(nodes, j)].func = TestOf(nodes, j).func
    BY <1>11, <1>13 DEF TestedInScope, TestOf
  <2>1. Agrees(u.tests[ShapesTo(nodes, j)], TestWithin(nodes, j, Depth(nodes, j)))
    BY <1>7
  <2> QED BY <1>12, <2>1 DEF Agrees
<1> QED BY <1>10, <1>14

(* Shapes are tested for depth as the nodes in their scope say, whatever is *)
(* in other groups, and the next frame begins as this one did.              *)
THEOREM DepthIsTested == DepthAssumption => (DepthSpec => []DepthRight)
<1> SUFFICES ASSUME DepthAssumption PROVE DepthSpec => []DepthRight
  OBVIOUS
<1>1. DepthInit => DepthRight
  BY DEF DepthInit, DepthRight, TestedInScope
<1>2. DepthRight /\ [DepthNext]_depthvars => DepthRight'
  <2> SUFFICES ASSUME DepthRight, [DepthNext]_depthvars PROVE DepthRight'
    OBVIOUS
  <2>1. CASE DepthNext
    BY <2>1, FrameDraws DEF DepthNext, DepthRight
  <2>2. CASE UNCHANGED depthvars
    BY <2>2 DEF depthvars, DepthRight, TestedInScope, TestOf
  <2> QED BY <2>1, <2>2
<1> QED BY <1>1, <1>2, PTL DEF DepthSpec
-----------------------------------------------------------------------------
(* UTMCamera, UTMPosition and UTMCoordinate                                 *)

UTMSpec == UTMInit /\ [][UTMNext]_utmvars

Vectors == [Axes -> Int]
Turns == [turn : {-1, 1}, by : Int]
Matrices == [Axes -> Turns]
Zero == [x \in Axes |-> 0]

(* What matrices do, one axis at a time.                                    *)
Then(a, b) == [turn |-> a.turn * b.turn, by |-> a.by + a.turn * b.by]
NoTurn == [turn |-> 1, by |-> 0]

LEMMA ThenTurns ==
  ASSUME NEW a \in Turns, NEW b \in Turns
  PROVE  Then(a, b) \in Turns
<1>1. a.turn \in {-1, 1} /\ b.turn \in {-1, 1} /\ a.by \in Int /\ b.by \in Int
  BY DEF Turns
<1>2. a.turn * b.turn \in {-1, 1}
  BY <1>1
<1>3. a.by + a.turn * b.by \in Int
  BY <1>1
<1> QED BY <1>2, <1>3 DEF Then, Turns

LEMMA ThenNothing ==
  ASSUME NEW a \in Turns
  PROVE  Then(a, NoTurn) = a /\ Then(NoTurn, a) = a
<1>1. a.turn \in {-1, 1} /\ a.by \in Int /\ a = [turn |-> a.turn, by |-> a.by]
  BY DEF Turns
<1>2. a.turn * 1 = a.turn /\ a.by + a.turn * 0 = a.by /\ 1 * a.turn = a.turn
      /\ 0 + 1 * a.by = a.by
  BY <1>1
<1> QED BY <1>1, <1>2 DEF Then, NoTurn

LEMMA ThenAssoc ==
  ASSUME NEW a \in Turns, NEW b \in Turns, NEW c \in Turns
  PROVE  Then(Then(a, b), c) = Then(a, Then(b, c))
<1>1. a.turn \in {-1, 1} /\ b.turn \in {-1, 1} /\ c.turn \in {-1, 1}
      /\ a.by \in Int /\ b.by \in Int /\ c.by \in Int
  BY DEF Turns
<1>2. (a.turn * b.turn) * c.turn = a.turn * (b.turn * c.turn)
  BY <1>1
<1>3. (a.by + a.turn * b.by) + (a.turn * b.turn) * c.by = a.by + a.turn * (b.by + b.turn * c.by)
  <2>1. CASE a.turn = 1
    BY <1>1, <2>1
  <2>2. CASE a.turn = -1
    <3>1. CASE b.turn = 1
      BY <1>1, <2>2, <3>1
    <3>2. CASE b.turn = -1
      BY <1>1, <2>2, <3>2
    <3> QED BY <1>1, <3>1, <3>2
  <2> QED BY <1>1, <2>1, <2>2
<1> QED BY <1>2, <1>3 DEF Then

LEMMA TimesIs ==
  ASSUME NEW m, NEW n
  PROVE  Times(m, n) = [x \in Axes |-> Then(m[x], n[x])]
BY DEF Times, Then

LEMMA MatrixSame ==
  ASSUME NEW m \in Matrices, NEW n \in Matrices, \A x \in Axes : m[x] = n[x]
  PROVE  m = n
BY DEF Matrices

LEMMA TimesMatrix ==
  ASSUME NEW m \in Matrices, NEW n \in Matrices
  PROVE  Times(m, n) \in Matrices
<1>1. \A x \in Axes : Then(m[x], n[x]) \in Turns
  BY ThenTurns DEF Matrices
<1> QED BY <1>1, TimesIs DEF Matrices

LEMMA IdentityIs == Identity \in Matrices /\ \A x \in Axes : Identity[x] = NoTurn
BY DEF Identity, Shift, NoTurn, Matrices, Turns, Axes

LEMMA TimesIdentity ==
  ASSUME NEW m \in Matrices
  PROVE  Times(m, Identity) = m /\ Times(Identity, m) = m
<1>1. \A x \in Axes : Then(m[x], Identity[x]) = m[x] /\ Then(Identity[x], m[x]) = m[x]
  <2> TAKE x \in Axes
  <2>1. m[x] \in Turns /\ Identity[x] = NoTurn
    BY IdentityIs DEF Matrices
  <2> QED BY <2>1, ThenNothing
<1>2. /\ Times(m, Identity) \in Matrices /\ Times(Identity, m) \in Matrices
      /\ \A x \in Axes : Times(m, Identity)[x] = m[x] /\ Times(Identity, m)[x] = m[x]
  BY <1>1, TimesIs, TimesMatrix, IdentityIs
<1> QED BY <1>2, MatrixSame

LEMMA TimesAssoc ==
  ASSUME NEW l \in Matrices, NEW m \in Matrices, NEW n \in Matrices
  PROVE  Times(Times(l, m), n) = Times(l, Times(m, n))
<1>1. \A x \in Axes : Then(Then(l[x], m[x]), n[x]) = Then(l[x], Then(m[x], n[x]))
  BY ThenAssoc DEF Matrices
<1>2. \A x \in Axes : Times(Times(l, m), n)[x] = Times(l, Times(m, n))[x]
  <2> TAKE x \in Axes
  <2>1. Times(Times(l, m), n)[x] = Then(Times(l, m)[x], n[x]) /\ Times(l, m)[x] = Then(l[x], m[x])
    BY TimesIs
  <2>2. Times(l, Times(m, n))[x] = Then(l[x], Times(m, n)[x]) /\ Times(m, n)[x] = Then(m[x], n[x])
    BY TimesIs
  <2> QED BY <1>1, <2>1, <2>2
<1>3. Times(Times(l, m), n) \in Matrices /\ Times(l, Times(m, n)) \in Matrices
  BY TimesMatrix
<1> QED BY <1>2, <1>3, MatrixSame

LEMMA ShiftIs ==
  ASSUME NEW p \in Vectors
  PROVE  /\ Shift(p) \in Matrices
         /\ \A x \in Axes : Shift(p)[x].turn = 1 /\ Shift(p)[x].by = p[x]
BY DEF Shift, Vectors, Matrices, Turns

(* The powers of the transformation.                                        *)
Powers(f, n) == f = [k \in 0..n |-> IF k = 0 THEN Identity ELSE Times(f[k - 1], Transform)]

LEMMA PowersRun ==
  ASSUME Transform \in Matrices, NEW n \in Nat
  PROVE  \E f \in [0..n -> Matrices] : Powers(f, n)
<1> DEFINE T == {m \in 0..n : \E f \in [0..m -> Matrices] : Powers(f, m)}
<1>1. 0 \in T
  <2> DEFINE f == [k \in 0..0 |-> Identity]
  <2>1. f \in [0..0 -> Matrices] /\ Powers(f, 0)
    BY IdentityIs DEF Powers
  <2> HIDE DEF f
  <2> QED BY <2>1
<1>2. ASSUME NEW m \in 1..n, m - 1 \in T PROVE m \in T
  <2>1. PICK f \in [0..(m - 1) -> Matrices] : Powers(f, m - 1)
    BY <1>2
  <2> DEFINE g == [k \in 0..m |-> IF k = m THEN Times(f[m - 1], Transform) ELSE f[k]]
  <2>2. \A k \in 0..(m - 1) : f[k] = IF k = 0 THEN Identity ELSE Times(f[k - 1], Transform)
    BY <2>1 DEF Powers
  <2>3. ASSUME NEW k \in 0..m
        PROVE  g[k] = (IF k = 0 THEN Identity ELSE Times(g[k - 1], Transform)) /\ g[k] \in Matrices
    <3>1. CASE k = m
      <4>1. g[k] = Times(f[m - 1], Transform) /\ g[k - 1] = f[m - 1] /\ k # 0
        BY <3>1
      <4>2. f[m - 1] \in Matrices
        OBVIOUS
      <4> QED BY <3>1, <4>1, <4>2, TimesMatrix
    <3>2. CASE k # m
      <4>1. k \in 0..(m - 1) /\ g[k] = f[k] /\ f[k] \in Matrices
        BY <3>2
      <4>2. k # 0 => g[k - 1] = f[k - 1]
        BY <4>1
      <4> HIDE DEF g
      <4> QED BY <2>2, <4>1, <4>2
    <3> QED BY <3>1, <3>2
  <2>4. g = [k \in 0..m |-> g[k]]
    OBVIOUS
  <2> HIDE DEF g
  <2>5. g \in [0..m -> Matrices] /\ Powers(g, m)
    BY <2>3, <2>4 DEF Powers
  <2> QED BY <2>5
<1> HIDE DEF T
<1>3. 0..n \subseteq T
  BY <1>1, <1>2, UpTo
<1>4. n \in T
  BY <1>3
<1> QED BY <1>4 DEF T

LEMMA PowersSame ==
  ASSUME NEW n \in Nat, NEW m \in Nat, n <= m, NEW f, NEW g, Powers(f, n), Powers(g, m)
  PROVE  f[n] = g[n]
<1>1. \A k \in 0..n : f[k] = IF k = 0 THEN Identity ELSE Times(f[k - 1], Transform)
  BY DEF Powers
<1>2. \A k \in 0..m : g[k] = IF k = 0 THEN Identity ELSE Times(g[k - 1], Transform)
  BY DEF Powers
<1> DEFINE T == {k \in 0..n : f[k] = g[k]}
<1>3. 0 \in T
  BY <1>1, <1>2
<1>4. ASSUME NEW k \in 1..n, k - 1 \in T PROVE k \in T
  <2>1. k \in 0..n /\ k \in 0..m /\ k # 0
    OBVIOUS
  <2> QED BY <1>1, <1>2, <1>4, <2>1
<1> HIDE DEF T
<1>5. 0..n \subseteq T
  BY <1>3, <1>4, UpTo
<1>6. n \in T
  BY <1>5
<1> QED BY <1>6 DEF T

LEMMA PowerIs ==
  ASSUME Transform \in Matrices, NEW n \in Nat
  PROVE  /\ Power(0) = Identity /\ Power(n) \in Matrices
         /\ Power(n + 1) = Times(Power(n), Transform)
<1>1. \A m \in Nat : \E f : Powers(f, m) /\ Power(m) = f[m]
  <2> TAKE m \in Nat
  <2> DEFINE p == CHOOSE f : Powers(f, m)
  <2>1. Power(m) = p[m]
    BY DEF Power, Powers
  <2>2. Powers(p, m)
    BY PowersRun
  <2> HIDE DEF p
  <2> QED BY <2>1, <2>2
<1>2. PICK f \in [0..n -> Matrices] : Powers(f, n)
  BY PowersRun
<1>3. PICK p : Powers(p, n) /\ Power(n) = p[n]
  BY <1>1
<1>4. Power(n) \in Matrices
  BY <1>2, <1>3, PowersSame
<1>5. PICK z : Powers(z, 0) /\ Power(0) = z[0]
  BY <1>1
<1>6. Power(0) = Identity
  BY <1>5 DEF Powers
<1>7. PICK q : Powers(q, n + 1) /\ Power(n + 1) = q[n + 1]
  BY <1>1
<1>8. q[n] = p[n]
  BY <1>3, <1>7, PowersSame
<1>9. q[n + 1] = Times(q[n], Transform)
  BY <1>7 DEF Powers
<1> QED BY <1>3, <1>4, <1>6, <1>7, <1>8, <1>9

Frames == [matrix : Matrices, ref : Vectors, currtrans : Vectors,
           gtransform : Matrices, coords : Vectors]
FieldsOK == /\ utmCamera \in Vectors /\ position \in Vectors /\ point \in Vectors
          /\ moveTransform \in BOOLEAN

(* The transforms T before the cameras C, as they are moved, and the place  *)
(* a position has before the transforms after it.                           *)
Moved(C, T) == IF moveTransform THEN Power(Cardinality({j \in T : j < Min(C)})) ELSE Identity
After(P, T) == Power(Cardinality({j \in T : j > Max(P)}))
BaseOf(getMatrix, C, T) ==
  IF getMatrix THEN Shift(Difference(position, utmCamera))
  ELSE Times(Times(Shift(Difference(<<position[1], 0>>, utmCamera)), Moved(C, T)),
             Shift(<<0, position[2]>>))

(* What the state is below positions P, cameras C, transforms T and         *)
(* coordinates O.                                                           *)
FrameIs(f, getMatrix, P, C, T, O) ==
  /\ P = {} => f.currtrans = Zero
  /\ C = {} => f.gtransform = Identity
  /\ C = {} /\ P = {} => f.matrix = Power(Cardinality(T))
  /\ C # {} => f.ref = utmCamera /\ f.gtransform = Moved(C, T)
  /\ C # {} /\ P = {} /\ T = {} => f.matrix = Identity
  /\ T = {} => \A x \in Axes : f.matrix[x].turn = 1
  /\ \A c \in C, p \in P : c < p
  /\ P # {} /\ C # {} /\ (getMatrix => \A j \in T : j > Max(P)) =>
       f.matrix = Times(BaseOf(getMatrix, C, T), After(P, T))
  /\ O = {} => f.coords = Zero
  /\ O # {} /\ C # {} /\ P = {} /\ ~getMatrix => f.coords = Difference(point, utmCamera)

LEMMA CardOf ==
  ASSUME NEW i \in Nat, NEW T \in SUBSET (1..i)
  PROVE  /\ Cardinality(T) \in Nat /\ Cardinality(T \cup {i + 1}) = Cardinality(T) + 1
         /\ Cardinality({}) = 0
<1>1. IsFiniteSet(T)
  <2>1. IsFiniteSet(1..i) /\ T \subseteq 1..i
    BY FS_Interval
  <2> QED BY <2>1, FS_Subset
<1>2. i + 1 \notin T
  OBVIOUS
<1> QED BY <1>1, <1>2, FS_AddElement, FS_CardinalityType, FS_EmptySet

LEMMA MinOfOne == ASSUME NEW i \in Nat PROVE Min({i}) = i
<1>1. \A x \in {i} : x = i
  OBVIOUS
<1>2. (CHOOSE x \in {i} : \A y \in {i} : x <= y) = i
  OBVIOUS
<1> QED BY <1>2 DEF Min

LEMMA LeastOf ==
  ASSUME NEW i \in Nat, NEW C \in SUBSET (1..i), C # {}
  PROVE  Min(C) \in C /\ \A y \in C : Min(C) <= y
<1>1. PICK m \in C : \A y \in C : ~(<<y, m>> \in OpToRel(<, Nat))
  <2>1. C \subseteq Nat
    OBVIOUS
  <2> QED BY <2>1, WFMin, NatLessThanWellFounded
<1>2. \A y \in C : m <= y
  <2> TAKE y \in C
  <2>1. y \in Nat /\ m \in Nat
    OBVIOUS
  <2>2. ~(y < m)
    BY <1>1, <2>1 DEF OpToRel
  <2> QED BY <2>1, <2>2
<1> QED BY <1>2 DEF Min

LEMMA GreatestOf ==
  ASSUME NEW i \in Nat, NEW P \in SUBSET (1..i), P # {}
  PROVE  Max(P) \in P /\ \A y \in P : y <= Max(P)
<1> DEFINE R == {i + 1 - y : y \in P}
<1>1. R \in SUBSET (1..i) /\ R # {}
  <2>1. \A y \in P : i + 1 - y \in 1..i
    OBVIOUS
  <2> QED BY <2>1
<1>2. PICK r \in R : \A y \in R : r <= y
  <2> HIDE DEF R
  <2> QED BY <1>1, LeastOf
<1>3. PICK m \in P : r = i + 1 - m
  OBVIOUS
<1>4. \A y \in P : y <= m
  <2> TAKE y \in P
  <2>1. i + 1 - m <= i + 1 - y
    BY <1>2, <1>3
  <2> QED BY <2>1
<1> QED BY <1>4 DEF Max

LEMMA MovedIs ==
  ASSUME Transform \in Matrices, NEW i \in Nat, NEW C, NEW T \in SUBSET (1..i)
  PROVE  Moved(C, T) \in Matrices
<1>1. {j \in T : j < Min(C)} \in SUBSET (1..i)
  OBVIOUS
<1>2. Cardinality({j \in T : j < Min(C)}) \in Nat
  BY <1>1, CardOf
<1> QED BY <1>2, PowerIs, IdentityIs DEF Moved

LEMMA AfterIs ==
  ASSUME Transform \in Matrices, NEW i \in Nat, NEW P, NEW T \in SUBSET (1..i)
  PROVE  After(P, T) \in Matrices
<1>1. {j \in T : j > Max(P)} \in SUBSET (1..i)
  OBVIOUS
<1>2. Cardinality({j \in T : j > Max(P)}) \in Nat
  BY <1>1, CardOf
<1> QED BY <1>2, PowerIs DEF After

LEMMA VectorsOf ==
  ASSUME NEW p \in Vectors, NEW q \in Vectors
  PROVE  /\ Difference(p, q) \in Vectors /\ Sum(p, q) \in Vectors /\ Zero \in Vectors
         /\ <<p[1], 0>> \in Vectors /\ <<0, p[2]>> \in Vectors
<1>1. p[1] \in Int /\ p[2] \in Int
  BY DEF Vectors, Axes
<1>2. Difference(p, q) \in Vectors /\ Sum(p, q) \in Vectors /\ Zero \in Vectors
  BY DEF Vectors, Axes, Difference, Sum, Zero
<1>3. \A a \in Int, b \in Int : <<a, b>> \in Vectors
  BY DEF Vectors, Axes
<1> QED BY <1>1, <1>2, <1>3

LEMMA BaseIs ==
  ASSUME Transform \in Matrices, FieldsOK, NEW i \in Nat, NEW C, NEW T \in SUBSET (1..i),
         NEW getMatrix
  PROVE  BaseOf(getMatrix, C, T) \in Matrices
<1>1. /\ Difference(position, utmCamera) \in Vectors
      /\ Difference(<<position[1], 0>>, utmCamera) \in Vectors
      /\ <<0, position[2]>> \in Vectors
  BY VectorsOf DEF FieldsOK
<1>2. /\ Shift(Difference(position, utmCamera)) \in Matrices
      /\ Shift(Difference(<<position[1], 0>>, utmCamera)) \in Matrices
      /\ Shift(<<0, position[2]>>) \in Matrices
  BY <1>1, ShiftIs
<1>3. Moved(C, T) \in Matrices
  BY MovedIs
<1> QED BY <1>2, <1>3, TimesMatrix DEF BaseOf

LEMMA StartIs ==
  ASSUME Transform \in Matrices, NEW getMatrix
  PROVE  Start \in Frames /\ FrameIs(Start, getMatrix, {}, {}, {}, {})
<1>1. Cardinality({}) = 0 /\ Power(0) = Identity
  BY FS_EmptySet, PowerIs
<1>2. Identity \in Matrices /\ \A x \in Axes : Identity[x].turn = 1
  BY IdentityIs DEF NoTurn
<1>3. Zero \in Vectors
  BY DEF Zero, Vectors
<1>4. /\ Start.matrix = Identity /\ Start.currtrans = Zero /\ Start.gtransform = Identity
      /\ Start.coords = Zero
  BY DEF Start, Zero
<1>5. Start \in Frames
  <2>1. Start = [matrix |-> Identity, ref |-> Zero, currtrans |-> Zero,
                 gtransform |-> Identity, coords |-> Zero]
    BY DEF Start, Zero
  <2> QED BY <1>2, <1>3, <2>1 DEF Frames
<1> QED BY <1>1, <1>2, <1>4, <1>5 DEF FrameIs

(* A camera: everything begins anew, but for what was in front of it.       *)
LEMMA CameraIs ==
  ASSUME Transform \in Matrices, FieldsOK, NEW i \in Nat, NEW f \in Frames, NEW getMatrix,
         NEW T \in SUBSET (1..i), FrameIs(f, getMatrix, {}, {}, T, {})
  PROVE  Camera(f) \in Frames /\ FrameIs(Camera(f), getMatrix, {}, {i + 1}, T, {})
<1> DEFINE g == Camera(f)
           C == {i + 1}
<1>1. /\ f.gtransform = Identity /\ f.matrix = Power(Cardinality(T)) /\ f.coords = Zero
      /\ f.matrix \in Matrices /\ f.gtransform \in Matrices /\ f.coords \in Vectors
  BY DEF FrameIs, Frames
<1>2. Identity \in Matrices /\ \A x \in Axes : Identity[x].turn = 1
  BY IdentityIs DEF NoTurn
<1>3. Zero \in Vectors /\ utmCamera \in Vectors
  BY DEF Zero, Vectors, FieldsOK
<1>4. g = [matrix |-> Identity, ref |-> utmCamera, currtrans |-> Zero,
           gtransform |-> IF moveTransform THEN f.matrix ELSE f.gtransform, coords |-> f.coords]
  <2> DEFINE moved == IF moveTransform THEN f.matrix ELSE f.gtransform
  <2>1. g = [f EXCEPT !.matrix = Identity, !.ref = utmCamera, !.currtrans = Zero,
                      !.gtransform = moved]
    BY DEF Camera, Zero
  <2>2. f = [matrix |-> f.matrix, ref |-> f.ref, currtrans |-> f.currtrans,
             gtransform |-> f.gtransform, coords |-> f.coords]
    BY DEF Frames
  <2> HIDE DEF moved
  <2>3. g = [matrix |-> Identity, ref |-> utmCamera, currtrans |-> Zero,
             gtransform |-> moved, coords |-> f.coords]
    BY <2>1, <2>2
  <2> QED BY <2>3 DEF moved
<1>5. g \in Frames
  BY <1>1, <1>2, <1>3, <1>4 DEF Frames
<1>6. g.gtransform = Moved(C, T)
  <2>1. Min(C) = i + 1
    BY MinOfOne
  <2> DEFINE least == Min(C)
  <2>2. {j \in T : j < least} = T
    <3>1. \A j \in T : j < i + 1
      OBVIOUS
    <3>2. least = i + 1
      BY <2>1
    <3> HIDE DEF least
    <3> QED BY <3>1, <3>2
  <2> QED BY <1>1, <1>4, <2>2 DEF Moved
<1>7. /\ g.matrix = Identity /\ g.ref = utmCamera /\ g.currtrans = Zero /\ g.coords = Zero
  BY <1>1, <1>4
<1> HIDE DEF g
<1> QED BY <1>2, <1>5, <1>6, <1>7 DEF FrameIs, g

(* A position: what comes after the camera is replaced.                     *)
LEMMA PositionIs ==
  ASSUME Transform \in Matrices, FieldsOK, NEW i \in Nat, NEW f \in Frames,
         NEW getMatrix \in BOOLEAN,
         NEW P \in SUBSET (1..i), NEW C \in SUBSET (1..i), NEW T \in SUBSET (1..i), NEW O,
         FrameIs(f, getMatrix, P, C, T, O)
  PROVE  LET g == IF getMatrix THEN Gotten(f) ELSE Positioned(f)
         IN  g \in Frames /\ FrameIs(g, getMatrix, P \cup {i + 1}, C, T, O)
<1> DEFINE g == IF getMatrix THEN Gotten(f) ELSE Positioned(f)
           Q == P \cup {i + 1}
           trans == IF getMatrix THEN Difference(position, f.ref)
                    ELSE Difference(<<position[1], 0>>, f.ref)
           oldm == [x \in Axes |-> [f.matrix[x] EXCEPT !.by = 0]]
           last == IF getMatrix THEN oldm ELSE Shift(<<0, position[2]>>)
           made == Times(Times(Shift(trans), f.gtransform), last)
<1>1. /\ f.matrix \in Matrices /\ f.gtransform \in Matrices /\ f.ref \in Vectors
      /\ f.coords \in Vectors /\ position \in Vectors /\ utmCamera \in Vectors
  BY DEF Frames, FieldsOK
<1>2. trans \in Vectors
  BY <1>1, VectorsOf
<1>3. /\ oldm \in Matrices
      /\ \A x \in Axes : oldm[x].turn = f.matrix[x].turn /\ oldm[x].by = 0
  BY <1>1 DEF Matrices, Turns
<1>4. last \in Matrices
  <2>1. <<0, position[2]>> \in Vectors
    BY <1>1, VectorsOf
  <2>2. Shift(<<0, position[2]>>) \in Matrices
    BY <2>1, ShiftIs
  <2> QED BY <1>3, <2>2
<1>5. Shift(trans) \in Matrices /\ made \in Matrices
  BY <1>1, <1>2, <1>4, ShiftIs, TimesMatrix
<1>6. g = [f EXCEPT !.currtrans = trans, !.matrix = made]
  BY DEF Gotten, Positioned
<1> HIDE DEF made, trans, last
<1>7. g \in Frames /\ g.matrix = made /\ g.ref = f.ref /\ g.gtransform = f.gtransform
      /\ g.coords = f.coords
  BY <1>2, <1>5, <1>6 DEF Frames
<1>8. Max(Q) = i + 1 /\ Q # {}
  BY MaxOfNew
<1>9. T = {} => \A x \in Axes : last[x].turn = 1
  <2>1. T = {} => \A x \in Axes : oldm[x].turn = 1
    BY <1>3 DEF FrameIs
  <2>2. <<0, position[2]>> \in Vectors
    BY <1>1, VectorsOf
  <2>3. \A x \in Axes : Shift(<<0, position[2]>>)[x].turn = 1
    BY <2>2, ShiftIs
  <2> QED BY <2>1, <2>3 DEF last
<1>10. T = {} => f.gtransform = Identity
  <2> SUFFICES ASSUME T = {} PROVE f.gtransform = Identity
    OBVIOUS
  <2>1. {j \in T : j < Min(C)} = {}
    OBVIOUS
  <2>2. Moved(C, T) = Identity
    BY <2>1, FS_EmptySet, PowerIs DEF Moved
  <2> QED BY <2>2 DEF FrameIs
<1>11. T = {} => \A x \in Axes : made[x].turn = 1
  <2> SUFFICES ASSUME T = {}, NEW x \in Axes PROVE made[x].turn = 1
    OBVIOUS
  <2>1. f.gtransform[x].turn = 1 /\ last[x].turn = 1 /\ Shift(trans)[x].turn = 1
    BY <1>2, <1>9, <1>10, IdentityIs, ShiftIs DEF NoTurn
  <2>2. Times(Shift(trans), f.gtransform)[x].turn = Shift(trans)[x].turn * f.gtransform[x].turn
    BY TimesIs DEF Then
  <2>3. made[x].turn = Times(Shift(trans), f.gtransform)[x].turn * last[x].turn
    BY TimesIs DEF Then, made
  <2> QED BY <2>1, <2>2, <2>3
<1>12. C # {} /\ (getMatrix => \A j \in T : j > Max(Q)) =>
         made = Times(BaseOf(getMatrix, C, T), After(Q, T))
  <2> SUFFICES ASSUME C # {}, getMatrix => \A j \in T : j > Max(Q)
               PROVE  made = Times(BaseOf(getMatrix, C, T), After(Q, T))
    OBVIOUS
  <2> DEFINE greatest == Max(Q)
  <2>1. {j \in T : j > greatest} = {}
    <3>1. \A j \in T : ~(j > i + 1)
      OBVIOUS
    <3>2. greatest = i + 1
      BY <1>8
    <3> HIDE DEF greatest
    <3> QED BY <3>1, <3>2
  <2>2. After(Q, T) = Identity
    BY <2>1, FS_EmptySet, PowerIs DEF After
  <2>3. BaseOf(getMatrix, C, T) \in Matrices
    BY BaseIs
  <2>4. f.ref = utmCamera /\ f.gtransform = Moved(C, T)
    BY DEF FrameIs
  <2>5. made = BaseOf(getMatrix, C, T)
    <3>1. CASE ~getMatrix
      BY <2>4, <3>1 DEF made, trans, last, BaseOf
    <3>2. CASE getMatrix
      <4>1. T = {}
        BY <2>1, <3>2
      <4>2. last = Identity
        <5>1. \A x \in Axes : oldm[x] = NoTurn
          <6> TAKE x \in Axes
          <6>1. oldm[x] \in Turns /\ oldm[x].turn = 1 /\ oldm[x].by = 0
            BY <1>3, <4>1 DEF Matrices, FrameIs
          <6> QED BY <6>1 DEF Turns, NoTurn
        <5>2. oldm = Identity
          BY <1>3, <5>1, IdentityIs, MatrixSame
        <5> QED BY <3>2, <5>2 DEF last
      <4>3. made = Shift(trans)
        BY <1>5, <1>10, <4>1, <4>2, TimesIdentity DEF made
      <4> QED BY <2>4, <3>2, <4>3 DEF trans, BaseOf
    <3> QED BY <3>1, <3>2
  <2> QED BY <2>2, <2>3, <2>5, TimesIdentity
<1>13. \A c \in C, p \in Q : c < p
  BY DEF FrameIs
<1> HIDE DEF g, Q
<1>14. FrameIs(g, getMatrix, Q, C, T, O)
  BY <1>7, <1>8, <1>11, <1>12, <1>13 DEF FrameIs
<1> QED BY <1>7, <1>14 DEF g, Q

(* A transformation comes after what was there.                             *)
LEMMA TransformIs ==
  ASSUME Transform \in Matrices, FieldsOK, NEW i \in Nat, NEW f \in Frames,
         NEW getMatrix \in BOOLEAN,
         NEW P \in SUBSET (1..i), NEW C \in SUBSET (1..i), NEW T \in SUBSET (1..i), NEW O,
         FrameIs(f, getMatrix, P, C, T, O)
  PROVE  LET g == [f EXCEPT !.matrix = Times(f.matrix, Transform)]
         IN  g \in Frames /\ FrameIs(g, getMatrix, P, C, T \cup {i + 1}, O)
<1> DEFINE made == Times(f.matrix, Transform)
           g == [f EXCEPT !.matrix = made]
           U == T \cup {i + 1}
<1>1. f.matrix \in Matrices /\ made \in Matrices
  BY TimesMatrix DEF Frames
<1> HIDE DEF made
<1>2. /\ g \in Frames /\ g.matrix = made /\ g.ref = f.ref /\ g.gtransform = f.gtransform
      /\ g.coords = f.coords /\ g.currtrans = f.currtrans
  BY <1>1 DEF Frames
<1>3. C = {} /\ P = {} => made = Power(Cardinality(U))
  <2> SUFFICES ASSUME C = {}, P = {} PROVE made = Power(Cardinality(U))
    OBVIOUS
  <2>1. f.matrix = Power(Cardinality(T))
    BY DEF FrameIs
  <2>2. Cardinality(T) \in Nat /\ Cardinality(U) = Cardinality(T) + 1
    BY CardOf
  <2> QED BY <2>1, <2>2, PowerIs DEF made
<1>4. C # {} => Moved(C, U) = Moved(C, T)
  <2> SUFFICES ASSUME C # {} PROVE Moved(C, U) = Moved(C, T)
    OBVIOUS
  <2> DEFINE least == Min(C)
  <2>1. least \in 1..i
    BY LeastOf
  <2> HIDE DEF least
  <2>2. {j \in U : j < least} = {j \in T : j < least}
    BY <2>1
  <2> QED BY <2>2 DEF Moved, least
<1>5. ASSUME P # {}, C # {}, getMatrix => \A j \in U : j > Max(P)
      PROVE  made = Times(BaseOf(getMatrix, C, U), After(P, U))
  <2>1. BaseOf(getMatrix, C, U) = BaseOf(getMatrix, C, T)
    BY <1>4, <1>5 DEF BaseOf
  <2>2. f.matrix = Times(BaseOf(getMatrix, C, T), After(P, T))
    BY <1>5 DEF FrameIs
  <2> DEFINE greatest == Max(P)
             V == {j \in T : j > greatest}
  <2>3. greatest \in 1..i
    BY <1>5, GreatestOf
  <2>4. After(P, T) = Power(Cardinality(V))
    BY DEF After
  <2>5. After(P, U) = Power(Cardinality({j \in U : j > greatest}))
    BY DEF After
  <2> HIDE DEF greatest
  <2>6. {j \in U : j > greatest} = V \cup {i + 1} /\ V \in SUBSET (1..i)
    <3>1. i + 1 > greatest /\ i + 1 \in U
      BY <2>3
    <3>2. \A j : j \in U <=> j \in T \/ j = i + 1
      OBVIOUS
    <3> HIDE DEF U
    <3> QED BY <3>1, <3>2
  <2> HIDE DEF V
  <2>7. Cardinality(V) \in Nat /\ Cardinality(V \cup {i + 1}) = Cardinality(V) + 1
    BY <2>6, CardOf
  <2>8. After(P, U) = Times(After(P, T), Transform)
    BY <2>4, <2>5, <2>6, <2>7, PowerIs
  <2>9. BaseOf(getMatrix, C, T) \in Matrices /\ After(P, T) \in Matrices
    BY BaseIs, AfterIs
  <2> QED BY <2>1, <2>2, <2>8, <2>9, TimesAssoc DEF made
<1>6. U # {}
  OBVIOUS
<1> HIDE DEF g, U
<1>7. FrameIs(g, getMatrix, P, C, U, O)
  BY <1>2, <1>3, <1>4, <1>5, <1>6 DEF FrameIs
<1> QED BY <1>2, <1>7 DEF g, U, made

(* Coordinates: what was kept of them fits what it was made from.           *)
CachedOK(c) == c # NotSet =>
  /\ c \in [refpos : Vectors, trans : Vectors, coords : Vectors]
  /\ c.coords = Sum(Difference(point, c.refpos), c.trans)

LEMMA CoordsAre ==
  ASSUME FieldsOK, NEW f \in Frames, NEW c, CachedOK(c)
  PROVE  /\ CachedOK(Coords(c, f))
         /\ Coords(c, f).coords = Sum(Difference(point, f.ref), f.currtrans)
         /\ Coords(c, f).coords \in Vectors
<1> DEFINE r == [refpos |-> f.ref, trans |-> f.currtrans,
                 coords |-> Sum(Difference(point, f.ref), f.currtrans)]
<1>1. f.ref \in Vectors /\ f.currtrans \in Vectors /\ point \in Vectors
  BY DEF Frames, FieldsOK
<1>2. Sum(Difference(point, f.ref), f.currtrans) \in Vectors
  BY <1>1, VectorsOf
<1>3. r \in [refpos : Vectors, trans : Vectors, coords : Vectors]
      /\ r.coords = Sum(Difference(point, r.refpos), r.trans)
  BY <1>1, <1>2
<1>4. CASE c # NotSet /\ c.refpos = f.ref /\ c.trans = f.currtrans
  <2>1. Coords(c, f) = c
    BY <1>4 DEF Coords
  <2> QED BY <1>2, <1>4, <2>1 DEF CachedOK
<1>5. CASE ~(c # NotSet /\ c.refpos = f.ref /\ c.trans = f.currtrans)
  <2>1. Coords(c, f) = r
    BY <1>5 DEF Coords
  <2>2. r.coords = Sum(Difference(point, f.ref), f.currtrans)
    OBVIOUS
  <2> HIDE DEF r
  <2> QED BY <1>2, <1>3, <2>1, <2>2 DEF CachedOK
<1> QED BY <1>4, <1>5

LEMMA CoordinateIs ==
  ASSUME FieldsOK, NEW i \in Nat, NEW f \in Frames, NEW c, CachedOK(c),
         NEW P, NEW C, NEW T, NEW O, FrameIs(f, FALSE, P, C, T, O)
  PROVE  LET g == [f EXCEPT !.coords = Coords(c, f).coords]
         IN  g \in Frames /\ FrameIs(g, FALSE, P, C, T, O \cup {i + 1})
<1> DEFINE made == Coords(c, f).coords
           g == [f EXCEPT !.coords = made]
           U == O \cup {i + 1}
<1>1. made = Sum(Difference(point, f.ref), f.currtrans) /\ made \in Vectors
  BY CoordsAre
<1> HIDE DEF made
<1>2. /\ g \in Frames /\ g.matrix = f.matrix /\ g.ref = f.ref /\ g.gtransform = f.gtransform
      /\ g.coords = made /\ g.currtrans = f.currtrans
  BY <1>1 DEF Frames
<1>3. C # {} /\ P = {} => made = Difference(point, utmCamera)
  <2> SUFFICES ASSUME C # {}, P = {} PROVE made = Difference(point, utmCamera)
    OBVIOUS
  <2>1. f.ref = utmCamera /\ f.currtrans = Zero
    BY DEF FrameIs
  <2>2. point \in Vectors /\ utmCamera \in Vectors
    BY DEF FieldsOK
  <2> DEFINE p == Difference(point, utmCamera)
  <2>3. p \in Vectors /\ p = [x \in Axes |-> p[x]]
    BY <2>2, VectorsOf DEF Vectors
  <2> HIDE DEF p
  <2>4. \A x \in Axes : p[x] + Zero[x] = p[x]
    BY <2>3 DEF Vectors, Zero
  <2>5. Sum(p, Zero) = p
    BY <2>3, <2>4 DEF Sum
  <2> QED BY <1>1, <2>1, <2>5 DEF p
<1>4. U # {}
  OBVIOUS
<1> HIDE DEF g, U
<1>5. FrameIs(g, FALSE, P, C, T, U)
  BY <1>2, <1>3, <1>4 DEF FrameIs
<1> QED BY <1>2, <1>5 DEF g, U, made

LEMMA OtherCoordinate ==
  ASSUME NEW i, NEW f, NEW P, NEW C, NEW T, NEW O, FrameIs(f, TRUE, P, C, T, O)
  PROVE  FrameIs(f, TRUE, P, C, T, O \cup {i})
<1>1. O \cup {i} # {}
  OBVIOUS
<1> QED BY <1>1 DEF FrameIs

(* Where a shape lies that is drawn with such a state.                      *)
ScopeFrame(nodes, getMatrix, i, d, f) ==
  FrameIs(f, getMatrix, Within(nodes, {"position"}, i, d), Within(nodes, {"camera"}, i, d),
          Within(nodes, {"transform"}, i, d), Within(nodes, {"coordinate"}, i, d))

Relative(place, P, C, T) == \A x \in Axes :
  Moved(C, T)[x].turn = 1 \/ x = 1 =>
    place[x] = position[x] - utmCamera[x] + At(Times(Moved(C, T), After(P, T)), Zero)[x]
LastTurned(getMatrix, P, T) == getMatrix => \A j \in T : j > Max(P)

LEMMA BelowPosition ==
  ASSUME Transform \in Matrices, FieldsOK, NEW i \in Nat, NEW f \in Frames,
         NEW getMatrix \in BOOLEAN,
         NEW P \in SUBSET (1..i), NEW C \in SUBSET (1..i), NEW T \in SUBSET (1..i),
         FrameIs(f, getMatrix, P, C, T, {}), P # {}, C # {},
         LastTurned(getMatrix, P, T)
  PROVE  Relative(At(f.matrix, f.coords), P, C, T)
<1> SUFFICES ASSUME NEW x \in Axes, Moved(C, T)[x].turn = 1 \/ x = 1
             PROVE  At(f.matrix, f.coords)[x] =
                      position[x] - utmCamera[x] + At(Times(Moved(C, T), After(P, T)), Zero)[x]
  BY DEF Relative
<1> DEFINE M == Moved(C, T)
           L == After(P, T)
           B == BaseOf(getMatrix, C, T)
<1>1. f.matrix = Times(B, L) /\ f.coords = Zero
  BY DEF FrameIs, LastTurned
<1>2. B \in Matrices /\ L \in Matrices /\ M \in Matrices
  BY BaseIs, AfterIs, MovedIs
<1>3. \A m \in Matrices : m[x].by \in Int /\ m[x].turn \in {-1, 1}
  BY DEF Matrices, Turns
<1>4. position \in Vectors /\ utmCamera \in Vectors
  BY DEF FieldsOK
<1>5. /\ \A m \in Matrices : At(m, Zero)[x] = m[x].by
      /\ \A m, n \in Matrices : Times(m, n)[x].by = m[x].by + m[x].turn * n[x].by
      /\ \A m, n \in Matrices : Times(m, n)[x].turn = m[x].turn * n[x].turn
  <2>1. \A m \in Matrices : At(m, Zero)[x] = m[x].by + m[x].turn * 0
    BY DEF At, Zero
  <2>2. \A m \in Matrices : m[x].by + m[x].turn * 0 = m[x].by
    BY <1>3
  <2> QED BY <2>1, <2>2 DEF Times
<1>6. At(f.matrix, f.coords)[x] = B[x].by + B[x].turn * L[x].by
  <2> HIDE DEF B, L
  <2>1. Times(B, L) \in Matrices
    BY <1>2, TimesMatrix
  <2> QED BY <1>1, <1>2, <1>5, <2>1
<1>7. At(Times(M, L), Zero)[x] = M[x].by + M[x].turn * L[x].by
  <2>1. Times(M, L) \in Matrices
    BY <1>2, TimesMatrix
  <2> QED BY <1>2, <1>5, <2>1
<1>8. CASE ~getMatrix
  <2> DEFINE d == Difference(<<position[1], 0>>, utmCamera)
             e == <<0, position[2]>>
  <2>1. d \in Vectors /\ e \in Vectors
    BY <1>4, VectorsOf
  <2>2. /\ Shift(d) \in Matrices /\ Shift(d)[x].turn = 1 /\ Shift(d)[x].by = d[x]
        /\ Shift(e) \in Matrices /\ Shift(e)[x].turn = 1 /\ Shift(e)[x].by = e[x]
    BY <2>1, ShiftIs
  <2>3. Times(Shift(d), M) \in Matrices
    BY <1>2, <2>2, TimesMatrix
  <2>4. B = Times(Times(Shift(d), M), Shift(e))
    BY <1>8 DEF BaseOf
  <2>5. d[x] + e[x] = position[x] - utmCamera[x] /\ (x = 1 => e[x] = 0)
        /\ d[x] \in Int /\ e[x] \in Int
    <3>1. position[1] \in Int /\ position[2] \in Int /\ utmCamera[1] \in Int /\ utmCamera[2] \in Int
      BY <1>4 DEF Vectors, Axes
    <3>2. d[1] = position[1] - utmCamera[1] /\ d[2] = 0 - utmCamera[2]
          /\ e[1] = 0 /\ e[2] = position[2]
      BY DEF Difference, Axes
    <3> HIDE DEF d, e
    <3>3. CASE x = 1
      BY <3>1, <3>2, <3>3
    <3>4. CASE x = 2
      BY <3>1, <3>2, <3>4
    <3> QED BY <3>3, <3>4 DEF Axes
  <2> HIDE DEF d, e, M, L, B
  <2>6. /\ Times(Shift(d), M)[x].by = d[x] + 1 * M[x].by
        /\ Times(Shift(d), M)[x].turn = 1 * M[x].turn
    BY <1>2, <1>5, <2>2
  <2>7. /\ B[x].by = Times(Shift(d), M)[x].by + Times(Shift(d), M)[x].turn * e[x]
        /\ B[x].turn = Times(Shift(d), M)[x].turn * 1
    BY <1>5, <2>2, <2>3, <2>4
  <2>8. M[x].by \in Int /\ L[x].by \in Int /\ M[x].turn \in {-1, 1}
    BY <1>2, <1>3
  <2>9. M[x].turn * e[x] = e[x]
    <3>1. M[x].turn = 1 \/ x = 1
      BY DEF M
    <3>2. CASE M[x].turn = 1
      BY <2>5, <3>2
    <3>3. CASE x = 1
      BY <2>5, <2>8, <3>3
    <3> QED BY <3>1, <3>2, <3>3
  <2>10. B[x].turn = M[x].turn /\ B[x].by = d[x] + M[x].by + e[x]
    BY <2>5, <2>6, <2>7, <2>8, <2>9
  <2>11. B[x].by + M[x].turn * L[x].by = (d[x] + e[x]) + (M[x].by + M[x].turn * L[x].by)
    <3>1. M[x].turn * L[x].by \in Int
      BY <2>8
    <3> QED BY <2>5, <2>8, <2>10, <3>1
  <2> QED BY <1>6, <1>7, <2>5, <2>10, <2>11 DEF M, L, B
<1>9. CASE getMatrix
  <2>1. M = Identity
    <3> DEFINE least == Min(C)
               greatest == Max(P)
    <3>1. least \in C /\ greatest \in P
      BY LeastOf, GreatestOf
    <3>2. least < greatest /\ least \in Nat /\ greatest \in Nat
      <4>1. \A c \in C, p \in P : c < p
        BY DEF FrameIs
      <4>2. \A c \in C : c \in Nat
        OBVIOUS
      <4>3. \A p \in P : p \in Nat
        OBVIOUS
      <4> HIDE DEF least, greatest
      <4> QED BY <3>1, <4>1, <4>2, <4>3
    <3>3. \A j \in T : j > greatest
      BY <1>9 DEF LastTurned
    <3>4. {j \in T : j < least} = {}
      <4>1. \A j \in T : j \in Nat
        OBVIOUS
      <4> HIDE DEF least, greatest
      <4>2. ASSUME NEW j \in T PROVE ~(j < least)
        <5>1. j \in Nat /\ j > greatest
          BY <3>3, <4>1
        <5> QED BY <3>2, <5>1
      <4> QED BY <4>2
    <3>5. M = IF moveTransform THEN Power(Cardinality({j \in T : j < least})) ELSE Identity
      BY DEF Moved
    <3> QED BY <3>4, <3>5, FS_EmptySet, PowerIs
  <2> DEFINE d == Difference(position, utmCamera)
  <2>2. d \in Vectors
    BY <1>4, VectorsOf
  <2>3. B = Shift(d)
    BY <1>9 DEF BaseOf
  <2>4. B[x].turn = 1 /\ B[x].by = d[x]
    BY <2>2, <2>3, ShiftIs
  <2>5. M[x].turn = 1 /\ M[x].by = 0
    BY <2>1, IdentityIs DEF NoTurn
  <2>6. d[x] = position[x] - utmCamera[x] /\ d[x] \in Int
    BY <2>2 DEF Difference, Vectors
  <2>7. L[x].by \in Int
    BY <1>2, <1>3
  <2> HIDE DEF d, M, L, B
  <2>8. B[x].by + B[x].turn * L[x].by = d[x] + (M[x].by + M[x].turn * L[x].by)
    BY <2>4, <2>5, <2>6, <2>7
  <2> QED BY <1>6, <1>7, <2>6, <2>8 DEF M, L, B
<1> QED BY <1>8, <1>9

LEMMA FramePlaces ==
  ASSUME Transform \in Matrices, FieldsOK, NEW nodes, NEW i \in Nat, NEW f \in Frames,
         NEW getMatrix \in BOOLEAN, ScopeFrame(nodes, getMatrix, i, Depth(nodes, i), f)
  PROVE  LET place == At(f.matrix, f.coords)
         IN  /\ PlacedByPosition(nodes, getMatrix, i, place)
             /\ PlacedByPoint(nodes, getMatrix, i, place)
<1> DEFINE P == InScope(nodes, {"position"}, i)
           C == InScope(nodes, {"camera"}, i)
           T == InScope(nodes, {"transform"}, i)
           O == InScope(nodes, {"coordinate"}, i)
           place == At(f.matrix, f.coords)
<1>1. FrameIs(f, getMatrix, P, C, T, O)
  <2>1. \A K : Within(nodes, K, i, Depth(nodes, i)) = InScope(nodes, K, i)
    BY ScopeStep
  <2> QED BY <2>1 DEF ScopeFrame
<1>2. P \in SUBSET (1..i) /\ C \in SUBSET (1..i) /\ T \in SUBSET (1..i)
  BY ScopeStep
<1>3. PlacedByPosition(nodes, getMatrix, i, place)
  <2> HIDE DEF P, C, T, O, place
  <2>1. P # {} /\ C # {} /\ O = {} /\ LastTurned(getMatrix, P, T) => Relative(place, P, C, T)
    BY <1>1, <1>2, BelowPosition DEF place
  <2> QED BY <2>1 DEF PlacedByPosition, Preceding, Following, LastTurned, Relative, Moved, After, Zero, P, C, T, O
<1>4. PlacedByPoint(nodes, getMatrix, i, place)
  <2> SUFFICES ASSUME ~getMatrix, InScope(nodes, {"position", "transform"}, i) = {},
                      C # {}, O # {}
               PROVE  place = Difference(point, utmCamera)
    BY DEF PlacedByPoint
  <2>1. P = {} /\ T = {}
    BY DEF InScope
  <2> DEFINE p == Difference(point, utmCamera)
  <2>2. f.matrix = Identity /\ f.coords = p
    <3> HIDE DEF P, C, T, O
    <3> QED BY <1>1, <2>1 DEF FrameIs
  <2>3. p \in Vectors
    BY VectorsOf DEF FieldsOK
  <2>4. p = [x \in Axes |-> p[x]] /\ \A x \in Axes : p[x] \in Int
    BY <2>3 DEF Vectors
  <2> HIDE DEF p
  <2>5. \A x \in Axes : Identity[x].by + Identity[x].turn * p[x] = p[x]
    <3> TAKE x \in Axes
    <3>1. Identity[x].by = 0 /\ Identity[x].turn = 1
      BY IdentityIs DEF NoTurn
    <3> QED BY <2>4, <3>1
  <2>6. At(Identity, p) = p
    BY <2>4, <2>5 DEF At
  <2> QED BY <2>2, <2>6 DEF p
<1> QED BY <1>3, <1>4

(* What the state is after i nodes of the scene: a frame for each group that *)
(* is open, and a place for each shape.                                     *)
PlacingFrom(c) == [frames : Seq(Frames), cached : {c}, places : Seq(Vectors)]
PlacedAt(nodes, getMatrix, i, place) ==
  PlacedByPosition(nodes, getMatrix, i, place) /\ PlacedByPoint(nodes, getMatrix, i, place)
PlacedTo(nodes, getMatrix, i, s) ==
  /\ s \in PlacingFrom(s.cached) /\ CachedOK(s.cached)
  /\ Len(s.frames) = Depth(nodes, i) + 1
  /\ \A d \in 0..Depth(nodes, i) : ScopeFrame(nodes, getMatrix, i, d, s.frames[d + 1])
  /\ Len(s.places) = ShapesTo(nodes, i)
  /\ \A j \in 1..i : nodes[j] = "shape" =>
        /\ ShapesTo(nodes, j) \in 1..Len(s.places)
        /\ PlacedAt(nodes, getMatrix, j, s.places[ShapesTo(nodes, j)])

LEMMA AtIs ==
  ASSUME NEW m \in Matrices, NEW p \in Vectors
  PROVE  At(m, p) \in Vectors
<1>1. \A x \in Axes : m[x].by \in Int /\ m[x].turn \in {-1, 1} /\ p[x] \in Int
  BY DEF Matrices, Turns, Vectors
<1>2. \A x \in Axes : m[x].by + m[x].turn * p[x] \in Int
  BY <1>1
<1> QED BY <1>2 DEF At, Vectors

(* Only the innermost frame is changed by a node that does not begin or end *)
(* a group.                                                                 *)
LEMMA FramesStay ==
  ASSUME NEW nodes, NEW getMatrix, NEW i \in Nat, NEW d \in Int,
         nodes[i + 1] \notin {"push", "pop"}, d < Depth(nodes, i), NEW f,
         ScopeFrame(nodes, getMatrix, i, d, f)
  PROVE  ScopeFrame(nodes, getMatrix, i + 1, d, f)
<1>1. ASSUME NEW K, K \cap {"push", "pop"} = {}
      PROVE  Within(nodes, K, i + 1, d) = Within(nodes, K, i, d)
  BY <1>1, WithinStep DEF WithinMoves
<1>2. /\ {"position"} \cap {"push", "pop"} = {} /\ {"camera"} \cap {"push", "pop"} = {}
      /\ {"transform"} \cap {"push", "pop"} = {} /\ {"coordinate"} \cap {"push", "pop"} = {}
  OBVIOUS
<1>3. /\ Within(nodes, {"position"}, i + 1, d) = Within(nodes, {"position"}, i, d)
      /\ Within(nodes, {"camera"}, i + 1, d) = Within(nodes, {"camera"}, i, d)
      /\ Within(nodes, {"transform"}, i + 1, d) = Within(nodes, {"transform"}, i, d)
      /\ Within(nodes, {"coordinate"}, i + 1, d) = Within(nodes, {"coordinate"}, i, d)
  BY <1>1, <1>2
<1> QED BY <1>3 DEF ScopeFrame

(* What the innermost frame becomes.                                        *)
NodeFrame(f, c, node, getMatrix) ==
  CASE node = "camera" -> Camera(f)
    [] node = "position" -> IF getMatrix THEN Gotten(f) ELSE Positioned(f)
    [] node = "transform" -> [f EXCEPT !.matrix = Times(f.matrix, Transform)]
    [] node = "coordinate" -> IF getMatrix THEN f ELSE [f EXCEPT !.coords = Coords(c, f).coords]
    [] OTHER -> f

LEMMA NodeFrameIs ==
  ASSUME UtmAssumption, FieldsOK, NEW nodes \in UtmScenes, NEW i \in Nat, i + 1 \in 1..Len(nodes),
         NEW getMatrix \in BOOLEAN, nodes[i + 1] \notin {"push", "pop"},
         NEW f \in Frames, NEW c, CachedOK(c),
         ScopeFrame(nodes, getMatrix, i, Depth(nodes, i), f)
  PROVE  LET g == NodeFrame(f, c, nodes[i + 1], getMatrix)
         IN  g \in Frames /\ ScopeFrame(nodes, getMatrix, i + 1, Depth(nodes, i), g)
<1> DEFINE node == nodes[i + 1]
           D == Depth(nodes, i)
           P == Within(nodes, {"position"}, i, D)
           C == Within(nodes, {"camera"}, i, D)
           T == Within(nodes, {"transform"}, i, D)
           O == Within(nodes, {"coordinate"}, i, D)
           g == NodeFrame(f, c, node, getMatrix)
<1>1. ASSUME NEW K, K \cap {"push", "pop"} = {}
      PROVE  /\ Within(nodes, K, i, D) \in SUBSET (1..i)
             /\ Within(nodes, K, i + 1, D) =
                  Within(nodes, K, i, D) \cup (IF node \in K THEN {i + 1} ELSE {})
  <2>1. WithinMoves(nodes, K, i)
    BY <1>1, WithinStep
  <2>2. Within(nodes, K, i + 1, D) =
           Within(nodes, K, i, D) \cup (IF node \in K THEN {i + 1} ELSE {})
    BY <2>1 DEF WithinMoves
  <2> QED BY <2>2, ScopeStep
<1>2. /\ P \in SUBSET (1..i) /\ C \in SUBSET (1..i) /\ T \in SUBSET (1..i) /\ O \in SUBSET (1..i)
      /\ Within(nodes, {"position"}, i + 1, D) = P \cup (IF node = "position" THEN {i + 1} ELSE {})
      /\ Within(nodes, {"camera"}, i + 1, D) = C \cup (IF node = "camera" THEN {i + 1} ELSE {})
      /\ Within(nodes, {"transform"}, i + 1, D) = T \cup (IF node = "transform" THEN {i + 1} ELSE {})
      /\ Within(nodes, {"coordinate"}, i + 1, D) = O \cup (IF node = "coordinate" THEN {i + 1} ELSE {})
  <2>1. /\ {"position"} \cap {"push", "pop"} = {} /\ {"camera"} \cap {"push", "pop"} = {}
        /\ {"transform"} \cap {"push", "pop"} = {} /\ {"coordinate"} \cap {"push", "pop"} = {}
    OBVIOUS
  <2> HIDE DEF D, node
  <2> QED BY <1>1, <2>1
<1>3. FrameIs(f, getMatrix, P, C, T, O)
  BY DEF ScopeFrame
<1>4. Transform \in Matrices
  BY DEF UtmAssumption, Matrices, Turns, Axes
<1>5. node \in UtmKinds \cup {"shape"}
  BY DEF UtmAssumption, IsScene
<1>6. SUFFICES /\ g \in Frames
               /\ FrameIs(g, getMatrix, P \cup (IF node = "position" THEN {i + 1} ELSE {}),
                          C \cup (IF node = "camera" THEN {i + 1} ELSE {}),
                          T \cup (IF node = "transform" THEN {i + 1} ELSE {}),
                          O \cup (IF node = "coordinate" THEN {i + 1} ELSE {}))
  BY <1>2 DEF ScopeFrame
<1>7. CASE node = "camera"
  <2>1. P = {} /\ C = {} /\ O = {}
    <3> DEFINE K == {"camera", "position", "coordinate"}
    <3>1. CameraFirst(nodes) /\ i + 1 \in 1..Len(nodes)
      BY DEF UtmAssumption
    <3>2. InScope(nodes, K, i + 1) = {i + 1}
      BY <1>7, <3>1 DEF CameraFirst
    <3>3. \A L : L \subseteq K => InScope(nodes, L, i + 1) \subseteq InScope(nodes, K, i + 1)
      BY DEF InScope
    <3>4. \A L : L \subseteq K => Within(nodes, L, i + 1, D) \subseteq {i + 1}
      BY <3>2, <3>3 DEF Within
    <3>5. \A j \in 1..i : j # i + 1
      OBVIOUS
    <3>6. /\ Within(nodes, {"position"}, i + 1, D) \subseteq {i + 1}
          /\ Within(nodes, {"camera"}, i + 1, D) \subseteq {i + 1}
          /\ Within(nodes, {"coordinate"}, i + 1, D) \subseteq {i + 1}
      BY <3>4
    <3> HIDE DEF P, C, T, O, D
    <3> QED BY <1>2, <3>5, <3>6
  <2>2. g = Camera(f)
    BY <1>7 DEF NodeFrame
  <2> HIDE DEF P, C, T, O, g, node
  <2>3. Camera(f) \in Frames /\ FrameIs(Camera(f), getMatrix, {}, {i + 1}, T, {})
    BY <1>2, <1>3, <1>4, <2>1, CameraIs
  <2> QED BY <1>7, <2>1, <2>2, <2>3
<1>8. CASE node = "position"
  <2>1. g = IF getMatrix THEN Gotten(f) ELSE Positioned(f)
    BY <1>8 DEF NodeFrame
  <2> HIDE DEF P, C, T, O, g, node
  <2>2. g \in Frames /\ FrameIs(g, getMatrix, P \cup {i + 1}, C, T, O)
    BY <1>2, <1>3, <1>4, <2>1, PositionIs
  <2> QED BY <1>8, <2>2
<1>9. CASE node = "transform"
  <2>1. g = [f EXCEPT !.matrix = Times(f.matrix, Transform)]
    BY <1>9 DEF NodeFrame
  <2> HIDE DEF P, C, T, O, g, node
  <2>2. g \in Frames /\ FrameIs(g, getMatrix, P, C, T \cup {i + 1}, O)
    BY <1>2, <1>3, <1>4, <2>1, TransformIs
  <2> QED BY <1>9, <2>2
<1>10. CASE node = "coordinate" /\ getMatrix
  <2>1. g = f
    BY <1>10 DEF NodeFrame
  <2> HIDE DEF P, C, T, O, g, node
  <2>2. FrameIs(g, getMatrix, P, C, T, O \cup {i + 1})
    BY <1>3, <1>10, <2>1, OtherCoordinate
  <2> QED BY <1>10, <2>1, <2>2
<1>11. CASE node = "coordinate" /\ ~getMatrix
  <2>1. g = [f EXCEPT !.coords = Coords(c, f).coords]
    BY <1>11 DEF NodeFrame
  <2> HIDE DEF P, C, T, O, g, node
  <2>2. getMatrix = FALSE
    BY <1>11
  <2>3. FrameIs(f, FALSE, P, C, T, O)
    BY <1>3, <2>2
  <2>4. g \in Frames /\ FrameIs(g, FALSE, P, C, T, O \cup {i + 1})
    BY <2>1, <2>3, CoordinateIs
  <2> QED BY <1>11, <2>2, <2>4
<1>12. CASE node = "shape"
  <2>1. g = f
    BY <1>12 DEF NodeFrame
  <2> HIDE DEF P, C, T, O, g, node
  <2> QED BY <1>3, <1>12, <2>1
<1> HIDE DEF node, g
<1> QED BY <1>5, <1>7, <1>8, <1>9, <1>10, <1>11, <1>12 DEF UtmKinds

(* One node after another, shapes are placed right.                         *)
LEMMA UtmVisited ==
  ASSUME UtmAssumption, FieldsOK, NEW nodes \in UtmScenes, NEW i \in Nat, i + 1 \in 1..Len(nodes),
         NEW getMatrix \in BOOLEAN, NEW s, PlacedTo(nodes, getMatrix, i, s)
  PROVE  PlacedTo(nodes, getMatrix, i + 1, Step(s, nodes[i + 1], getMatrix))
<1> DEFINE node == nodes[i + 1]
           D == Depth(nodes, i)
           f == Last(s.frames)
           t == Step(s, node, getMatrix)
<1>1. /\ D \in Int /\ Depth(nodes, i + 1) \in Int
      /\ Depth(nodes, i + 1) = D + (IF node = "push" THEN 1 ELSE IF node = "pop" THEN -1 ELSE 0)
      /\ Depth(nodes, i + 1) >= 0 /\ D >= 0
  <2>1. IsScene(nodes, UtmKinds)
    BY DEF UtmAssumption
  <2>2. \A k \in 1..Len(nodes) : Depth(nodes, k) >= 0
    BY <2>1 DEF IsScene
  <2>3. Len(nodes) \in Nat
    BY <2>1 DEF IsScene
  <2>4. Depth(nodes, 0) = 0 /\ \A k \in Nat : Depth(nodes, k) \in Int
    BY DepthStep
  <2>5. i = 0 \/ i \in 1..Len(nodes)
    BY <2>3
  <2>6. D >= 0
    BY <2>2, <2>4, <2>5
  <2>7. Depth(nodes, i + 1) >= 0 /\ i + 1 \in Nat
    BY <2>2
  <2>8. Depth(nodes, i + 1) = D + (IF node = "push" THEN 1 ELSE IF node = "pop" THEN -1 ELSE 0)
    BY DepthStep
  <2> HIDE DEF node, D
  <2>9. D \in Int
    BY <2>4 DEF D
  <2> QED BY <2>4, <2>6, <2>7, <2>8, <2>9
<1>2. node \in UtmKinds \cup {"push", "pop", "shape"}
  BY DEF UtmAssumption, IsScene
<1>3. ShapesTo(nodes, i) \in Nat /\ ShapesTo(nodes, i + 1) = ShapesTo(nodes, i)
                                     + (IF node = "shape" THEN 1 ELSE 0)
  BY ShapesStep
<1>4. /\ s \in PlacingFrom(s.cached) /\ CachedOK(s.cached)
      /\ Len(s.frames) = D + 1
      /\ \A d \in 0..D : ScopeFrame(nodes, getMatrix, i, d, s.frames[d + 1])
      /\ Len(s.places) = ShapesTo(nodes, i)
      /\ \A j \in 1..i : nodes[j] = "shape" =>
            /\ ShapesTo(nodes, j) \in 1..Len(s.places)
            /\ PlacedAt(nodes, getMatrix, j, s.places[ShapesTo(nodes, j)])
  BY DEF PlacedTo
<1>5. /\ s.frames \in Seq(Frames) /\ s.places \in Seq(Vectors) /\ Len(s.frames) >= 1
      /\ Len(s.frames) \in Nat
      /\ s = [frames |-> s.frames, cached |-> s.cached, places |-> s.places]
  BY <1>1, <1>4 DEF PlacingFrom
<1>6. /\ f = s.frames[D + 1] /\ f \in Frames /\ ScopeFrame(nodes, getMatrix, i, D, f)
  <2>1. D \in 0..D
    BY <1>1
  <2>2. f = s.frames[Len(s.frames)]
    BY DEF Last
  <2>3. s.frames[Len(s.frames)] \in Frames
    BY <1>5
  <2> HIDE DEF f
  <2> QED BY <1>4, <2>1, <2>2, <2>3
<1>7. ASSUME NEW j \in 1..(i + 1)
      PROVE  j \in 1..i \/ j = i + 1
  OBVIOUS
<1> HIDE DEF D, f
<1>8. CASE node = "push"
  <2> DEFINE frames == Append(s.frames, f)
  <2>1. t = [s EXCEPT !.frames = frames]
    BY <1>8 DEF Step, f
  <2>2. /\ frames \in Seq(Frames) /\ Len(frames) = D + 2
        /\ \A d \in 0..D : frames[d + 1] = s.frames[d + 1] /\ frames[D + 2] = f
    <3>1. Len(s.frames) = D + 1 /\ D \in Nat /\ f \in Frames /\ s.frames \in Seq(Frames)
      BY <1>1, <1>4, <1>5, <1>6
    <3>2. /\ frames \in Seq(Frames) /\ Len(frames) = Len(s.frames) + 1
          /\ \A k \in 1..Len(s.frames) : frames[k] = s.frames[k]
          /\ frames[Len(s.frames) + 1] = f
      BY <3>1
    <3> HIDE DEF frames
    <3> QED BY <3>1, <3>2
  <2> HIDE DEF t, node, frames
  <2>3. t = [frames |-> frames, cached |-> s.cached, places |-> s.places]
    BY <1>5, <2>1
  <2>4. t \in PlacingFrom(t.cached) /\ t.cached = s.cached /\ t.places = s.places
        /\ t.frames = frames
    BY <1>5, <2>2, <2>3 DEF PlacingFrom
  <2>5. ASSUME NEW d \in 0..(D + 1)
        PROVE  ScopeFrame(nodes, getMatrix, i + 1, d, frames[d + 1])
    <3>1. ASSUME NEW K, K \cap {"push", "pop"} = {}
          PROVE  /\ \A e \in Int : e <= D => Within(nodes, K, i + 1, e) = Within(nodes, K, i, e)
                 /\ Within(nodes, K, i + 1, D + 1) = Within(nodes, K, i, D)
      <4>1. WithinMoves(nodes, K, i)
        BY <3>1, WithinStep
      <4> QED BY <1>8, <4>1 DEF WithinMoves, D, node
    <3>2. /\ {"position"} \cap {"push", "pop"} = {} /\ {"camera"} \cap {"push", "pop"} = {}
          /\ {"transform"} \cap {"push", "pop"} = {} /\ {"coordinate"} \cap {"push", "pop"} = {}
      OBVIOUS
    <3>3. CASE d = D + 1
      <4>1. frames[d + 1] = f
        BY <1>1, <2>2, <3>3
      <4>2. /\ Within(nodes, {"position"}, i + 1, D + 1) = Within(nodes, {"position"}, i, D)
            /\ Within(nodes, {"camera"}, i + 1, D + 1) = Within(nodes, {"camera"}, i, D)
            /\ Within(nodes, {"transform"}, i + 1, D + 1) = Within(nodes, {"transform"}, i, D)
            /\ Within(nodes, {"coordinate"}, i + 1, D + 1) = Within(nodes, {"coordinate"}, i, D)
        BY <3>1, <3>2
      <4> QED BY <1>6, <3>3, <4>1, <4>2 DEF ScopeFrame
    <3>4. CASE d # D + 1
      <4>1. d \in 0..D /\ d \in Int /\ d <= D
        BY <1>1, <3>4
      <4>2. frames[d + 1] = s.frames[d + 1]
        BY <2>2, <4>1
      <4>3. /\ Within(nodes, {"position"}, i + 1, d) = Within(nodes, {"position"}, i, d)
            /\ Within(nodes, {"camera"}, i + 1, d) = Within(nodes, {"camera"}, i, d)
            /\ Within(nodes, {"transform"}, i + 1, d) = Within(nodes, {"transform"}, i, d)
            /\ Within(nodes, {"coordinate"}, i + 1, d) = Within(nodes, {"coordinate"}, i, d)
        BY <3>1, <3>2, <4>1
      <4>4. ScopeFrame(nodes, getMatrix, i, d, s.frames[d + 1])
        BY <1>4, <4>1
      <4> QED BY <4>2, <4>3, <4>4 DEF ScopeFrame
    <3> QED BY <3>3, <3>4
  <2>6. Depth(nodes, i + 1) = D + 1 /\ ShapesTo(nodes, i + 1) = ShapesTo(nodes, i)
        /\ nodes[i + 1] # "shape"
    BY <1>1, <1>3, <1>8 DEF node
  <2>7. Len(frames) = (D + 1) + 1
    BY <1>1, <2>2
  <2> QED BY <1>4, <1>7, <2>4, <2>5, <2>6, <2>7 DEF PlacedTo, t, node
<1>9. CASE node = "pop"
  <2> DEFINE frames == Front(s.frames)
  <2>1. t = [s EXCEPT !.frames = frames]
    BY <1>9 DEF Step
  <2>2. D >= 1
    BY <1>1, <1>9
  <2>3. /\ frames \in Seq(Frames) /\ Len(frames) = D
        /\ \A d \in 0..(D - 1) : frames[d + 1] = s.frames[d + 1]
    <3>1. s.frames \in Seq(Frames) /\ Len(s.frames) = D + 1 /\ D \in Int /\ D >= 1
      BY <1>1, <1>4, <1>5, <2>2
    <3>2. frames = [k \in 1..D |-> s.frames[k]]
      BY <3>1 DEF Front
    <3>3. \A k \in 1..D : s.frames[k] \in Frames
      BY <3>1
    <3> HIDE DEF frames
    <3>4. frames \in Seq(Frames) /\ Len(frames) = D
      BY <3>1, <3>2, <3>3
    <3>5. \A d \in 0..(D - 1) : frames[d + 1] = s.frames[d + 1]
      BY <3>1, <3>2
    <3> QED BY <3>4, <3>5
  <2> HIDE DEF t, node, frames
  <2>4. t = [frames |-> frames, cached |-> s.cached, places |-> s.places]
    BY <1>5, <2>1
  <2>5. t \in PlacingFrom(t.cached) /\ t.cached = s.cached /\ t.places = s.places
        /\ t.frames = frames
    BY <1>5, <2>3, <2>4 DEF PlacingFrom
  <2>6. ASSUME NEW d \in 0..(D - 1)
        PROVE  ScopeFrame(nodes, getMatrix, i + 1, d, frames[d + 1])
    <3>1. d \in Int /\ d < D /\ d \in 0..D
      BY <1>1
    <3>2. ASSUME NEW K, K \cap {"push", "pop"} = {}
          PROVE  Within(nodes, K, i + 1, d) = Within(nodes, K, i, d)
      <4>1. WithinMoves(nodes, K, i)
        BY <3>2, WithinStep
      <4> QED BY <1>9, <3>1, <4>1 DEF WithinMoves, D, node
    <3>3. /\ {"position"} \cap {"push", "pop"} = {} /\ {"camera"} \cap {"push", "pop"} = {}
          /\ {"transform"} \cap {"push", "pop"} = {} /\ {"coordinate"} \cap {"push", "pop"} = {}
      OBVIOUS
    <3>4. /\ Within(nodes, {"position"}, i + 1, d) = Within(nodes, {"position"}, i, d)
          /\ Within(nodes, {"camera"}, i + 1, d) = Within(nodes, {"camera"}, i, d)
          /\ Within(nodes, {"transform"}, i + 1, d) = Within(nodes, {"transform"}, i, d)
          /\ Within(nodes, {"coordinate"}, i + 1, d) = Within(nodes, {"coordinate"}, i, d)
      BY <3>2, <3>3
    <3>5. ScopeFrame(nodes, getMatrix, i, d, s.frames[d + 1]) /\ frames[d + 1] = s.frames[d + 1]
      BY <1>4, <2>3, <3>1
    <3> QED BY <3>4, <3>5 DEF ScopeFrame
  <2>7. Depth(nodes, i + 1) = D - 1 /\ ShapesTo(nodes, i + 1) = ShapesTo(nodes, i)
        /\ nodes[i + 1] # "shape"
    BY <1>1, <1>3, <1>9 DEF node
  <2>8. Len(frames) = (D - 1) + 1
    BY <1>1, <2>3
  <2> QED BY <1>4, <1>7, <2>5, <2>6, <2>7, <2>8 DEF PlacedTo, t, node
<1>10. CASE node \notin {"push", "pop"}
  <2> DEFINE g == NodeFrame(f, s.cached, node, getMatrix)
             frames == [s.frames EXCEPT ![Len(s.frames)] = g]
             cached1 == IF node = "coordinate" /\ ~getMatrix THEN Coords(s.cached, f) ELSE s.cached
             places == IF node = "shape" THEN Append(s.places, At(f.matrix, f.coords))
                       ELSE s.places
  <2>1. g \in Frames /\ ScopeFrame(nodes, getMatrix, i + 1, D, g)
    <3>1. nodes[i + 1] \notin {"push", "pop"} /\ ScopeFrame(nodes, getMatrix, i, Depth(nodes, i), f)
      BY <1>6, <1>10 DEF D
    <3> QED BY <1>4, <1>6, <3>1, NodeFrameIs DEF D
  <2>2. t.frames = frames /\ t.cached = cached1 /\ t.places = places
        /\ t = [frames |-> frames, cached |-> cached1, places |-> places]
    <3>1. ASSUME NEW h PROVE [s EXCEPT !.frames[Len(s.frames)] = h] =
            [frames |-> [s.frames EXCEPT ![Len(s.frames)] = h], cached |-> s.cached,
             places |-> s.places]
      <4> DEFINE made == [s.frames EXCEPT ![Len(s.frames)] = h]
      <4>1. [s EXCEPT !.frames[Len(s.frames)] = h] = [s EXCEPT !.frames = made]
        BY <1>5
      <4> HIDE DEF made
      <4>2. [s EXCEPT !.frames = made] =
              [frames |-> made, cached |-> s.cached, places |-> s.places]
        BY <1>5
      <4> QED BY <4>1, <4>2 DEF made
    <3> USE <1>2, <1>10 DEF UtmKinds
    <3>2. CASE node = "camera"
      BY <3>1, <3>2 DEF Step, NodeFrame, f
    <3>3. CASE node = "position"
      BY <3>1, <3>3 DEF Step, NodeFrame, f
    <3>4. CASE node = "transform"
      BY <3>1, <3>4 DEF Step, NodeFrame, f
    <3>5. CASE node = "coordinate" /\ ~getMatrix
      <4>1. t = Coordinate(s)
        BY <3>5 DEF Step
      <4> DEFINE c == Coords(s.cached, f)
      <4>2. t = [s EXCEPT !.cached = c, !.frames[Len(s.frames)].coords = c.coords]
        BY <4>1 DEF Coordinate, f
      <4>3. g = [f EXCEPT !.coords = c.coords]
        BY <3>5 DEF NodeFrame
      <4>4. cached1 = c /\ places = s.places
        BY <3>5
      <4>5. f = s.frames[Len(s.frames)]
        BY DEF f, Last
      <4> HIDE DEF c, g, cached1, places, t
      <4>6. t = [frames |-> [s.frames EXCEPT ![Len(s.frames)] = [@ EXCEPT !.coords = c.coords]],
                 cached |-> c, places |-> s.places]
        BY <1>5, <4>2
      <4>7. [s.frames EXCEPT ![Len(s.frames)] = [@ EXCEPT !.coords = c.coords]] = frames
        BY <4>3, <4>5
      <4> QED BY <4>4, <4>6, <4>7
    <3>6. CASE node = "coordinate" /\ getMatrix
      <4>1. t = s /\ g = f /\ cached1 = s.cached /\ places = s.places
        BY <3>6 DEF Step, NodeFrame
      <4>2. f = s.frames[Len(s.frames)]
        BY DEF f, Last
      <4> HIDE DEF g, cached1, places, t
      <4>3. frames = s.frames
        BY <1>5, <4>1, <4>2
      <4> QED BY <1>5, <4>1, <4>3
    <3>7. CASE node = "shape"
      <4>1. g = f /\ cached1 = s.cached
        BY <3>7 DEF NodeFrame
      <4>2. t = [s EXCEPT !.places = Append(s.places, At(f.matrix, f.coords))]
        BY <3>7 DEF Step, f
      <4>3. places = Append(s.places, At(f.matrix, f.coords))
        BY <3>7
      <4>4. f = s.frames[Len(s.frames)]
        BY DEF f, Last
      <4> HIDE DEF g, cached1, places, t
      <4>5. frames = s.frames
        BY <1>5, <4>1, <4>4
      <4>6. t = [s EXCEPT !.places = places]
        BY <4>2, <4>3
      <4> HIDE DEF frames
      <4> QED BY <1>5, <4>1, <4>5, <4>6
    <3> HIDE DEF g, t, cached1, places, frames, node
    <3> QED BY <3>2, <3>3, <3>4, <3>5, <3>6, <3>7
  <2>3. CachedOK(cached1)
    <3>1. CachedOK(Coords(s.cached, f))
      BY <1>4, <1>6, CoordsAre
    <3> HIDE DEF node
    <3> QED BY <1>4, <3>1
  <2> DEFINE place == At(f.matrix, f.coords)
  <2>4. place \in Vectors
    <3>1. f.matrix \in Matrices /\ f.coords \in Vectors
      BY <1>6 DEF Frames
    <3> QED BY <3>1, AtIs
  <2>5. places \in Seq(Vectors) /\ Len(places) = ShapesTo(nodes, i + 1)
        /\ (\A k \in 1..ShapesTo(nodes, i) : places[k] = s.places[k])
        /\ (node = "shape" => places[ShapesTo(nodes, i + 1)] = place)
    <3> HIDE DEF place, node
    <3>1. CASE node = "shape"
      <4>1. places = Append(s.places, place)
        BY <3>1 DEF place
      <4> DEFINE n == ShapesTo(nodes, i)
      <4>2. n \in Nat /\ ShapesTo(nodes, i + 1) = n + 1 /\ Len(s.places) = n
        BY <1>3, <1>4, <3>1
      <4> HIDE DEF places, n
      <4>3. /\ places \in Seq(Vectors) /\ Len(places) = n + 1 /\ places[n + 1] = place
            /\ \A k \in 1..n : places[k] = s.places[k]
        BY <1>5, <2>4, <4>1, <4>2
      <4> QED BY <4>2, <4>3 DEF n
    <3>2. CASE node # "shape"
      BY <1>3, <1>4, <1>5, <3>2
    <3> QED BY <3>1, <3>2
  <2>6. frames \in Seq(Frames) /\ Len(frames) = D + 1 /\ frames[D + 1] = g
        /\ \A d \in 0..(D - 1) : frames[d + 1] = s.frames[d + 1]
    <3> HIDE DEF g
    <3> QED BY <1>1, <1>4, <1>5, <2>1
  <2> HIDE DEF g, frames, cached1, places, t, place, node
  <2>7. t \in PlacingFrom(t.cached)
    BY <2>2, <2>5, <2>6 DEF PlacingFrom
  <2>8. Depth(nodes, i + 1) = D
    BY <1>1, <1>10
  <2>9. ASSUME NEW d \in 0..D PROVE ScopeFrame(nodes, getMatrix, i + 1, d, frames[d + 1])
    <3>1. CASE d = D
      BY <2>1, <2>6, <3>1
    <3>2. CASE d # D
      <4>1. d \in 0..(D - 1) /\ d \in 0..D /\ d \in Int /\ d < Depth(nodes, i)
        BY <1>1, <3>2 DEF D
      <4>2. ScopeFrame(nodes, getMatrix, i, d, s.frames[d + 1])
        BY <1>4, <4>1
      <4>3. ScopeFrame(nodes, getMatrix, i + 1, d, s.frames[d + 1])
        BY <1>10, <4>1, <4>2, FramesStay DEF node
      <4> QED BY <2>6, <4>1, <4>3
    <3> QED BY <3>1, <3>2
  <2>10. ASSUME NEW j \in 1..(i + 1), nodes[j] = "shape"
         PROVE  /\ ShapesTo(nodes, j) \in 1..Len(places)
                /\ PlacedAt(nodes, getMatrix, j, places[ShapesTo(nodes, j)])
    <3>1. CASE j \in 1..i
      <4>1. ShapesTo(nodes, j) \in 1..Len(s.places)
            /\ PlacedAt(nodes, getMatrix, j, s.places[ShapesTo(nodes, j)])
        BY <1>4, <2>10, <3>1
      <4>2. ShapesTo(nodes, j) \in 1..ShapesTo(nodes, i)
            /\ ShapesTo(nodes, j) \in 1..ShapesTo(nodes, i + 1)
        BY <1>3, <1>4, <4>1
      <4> QED BY <2>5, <4>1, <4>2
    <3>2. CASE j = i + 1
      <4>1. node = "shape"
        BY <2>10, <3>2 DEF node
      <4>2. g = f
        BY <4>1 DEF g, NodeFrame
      <4>3. ScopeFrame(nodes, getMatrix, i + 1, Depth(nodes, i + 1), f) /\ i + 1 \in Nat
        BY <2>1, <2>8, <4>2
      <4>4. Transform \in Matrices
        BY DEF UtmAssumption, Matrices, Turns, Axes
      <4>5. PlacedAt(nodes, getMatrix, i + 1, place)
        BY <1>6, <4>3, <4>4, FramePlaces DEF PlacedAt, place
      <4>6. ShapesTo(nodes, i + 1) \in 1..ShapesTo(nodes, i + 1)
        BY <1>3, <4>1
      <4> QED BY <2>5, <3>2, <4>1, <4>5, <4>6
    <3> QED BY <1>7, <3>1, <3>2
  <2> QED BY <2>2, <2>3, <2>5, <2>6, <2>7, <2>8, <2>9, <2>10 DEF PlacedTo, t, node
<1> QED BY <1>8, <1>9, <1>10

(* The traversal of a scene.                                                *)
Steps(f, nodes, getMatrix, n, start) ==
  f = [i \in 0..n |-> IF i = 0 THEN start ELSE Step(f[i - 1], nodes[i], getMatrix)]

LEMMA StepsRun ==
  ASSUME NEW nodes, NEW getMatrix, NEW n \in Nat, NEW start
  PROVE  \E f : Steps(f, nodes, getMatrix, n, start)
<1> DEFINE T == {m \in 0..n : \E f : Steps(f, nodes, getMatrix, m, start)}
<1>1. 0 \in T
  <2> DEFINE f == [i \in 0..0 |-> start]
  <2>1. Steps(f, nodes, getMatrix, 0, start)
    BY DEF Steps
  <2> HIDE DEF f
  <2> QED BY <2>1
<1>2. ASSUME NEW m \in 1..n, m - 1 \in T PROVE m \in T
  <2>1. PICK f : Steps(f, nodes, getMatrix, m - 1, start)
    BY <1>2
  <2> DEFINE g == [i \in 0..m |-> IF i = m THEN Step(f[m - 1], nodes[m], getMatrix) ELSE f[i]]
  <2>2. \A i \in 0..(m - 1) :
          f[i] = IF i = 0 THEN start ELSE Step(f[i - 1], nodes[i], getMatrix)
    BY <2>1 DEF Steps
  <2>3. ASSUME NEW i \in 0..m
        PROVE  g[i] = IF i = 0 THEN start ELSE Step(g[i - 1], nodes[i], getMatrix)
    <3>1. CASE i = m
      <4>1. g[i] = Step(f[m - 1], nodes[m], getMatrix) /\ g[i - 1] = f[m - 1] /\ i # 0
        BY <3>1
      <4> QED BY <3>1, <4>1
    <3>2. CASE i # m
      <4>1. i \in 0..(m - 1) /\ g[i] = f[i]
        BY <3>2
      <4>2. i # 0 => g[i - 1] = f[i - 1]
        BY <4>1
      <4> HIDE DEF g
      <4> QED BY <2>2, <4>1, <4>2
    <3> QED BY <3>1, <3>2
  <2>4. g = [i \in 0..m |-> g[i]]
    OBVIOUS
  <2> HIDE DEF g
  <2>5. Steps(g, nodes, getMatrix, m, start)
    BY <2>3, <2>4 DEF Steps
  <2> QED BY <2>5
<1> HIDE DEF T
<1>3. 0..n \subseteq T
  BY <1>1, <1>2, UpTo
<1>4. n \in T
  BY <1>3
<1> QED BY <1>4 DEF T

UTMInv == FieldsOK /\ CachedOK(cached) /\ PlacedRelative

LEMMA TraversePlaces ==
  ASSUME UtmAssumption, UTMInv, NEW nodes \in UtmScenes, NEW getMatrix \in BOOLEAN,
         Traverse(nodes, getMatrix)
  PROVE  UTMInv'
<1> DEFINE n == Len(nodes)
           start == [frames |-> <<Start>>, cached |-> cached, places |-> << >>]
           after == CHOOSE f : Steps(f, nodes, getMatrix, n, start)
           s == after[n]
<1>1. /\ seen' = [scene |-> nodes, getMatrix |-> getMatrix, places |-> s.places]
      /\ cached' = s.cached
      /\ UNCHANGED <<utmCamera, moveTransform, position, point>>
  BY DEF Traverse, Steps
<1>2. /\ nodes \in Seq(UtmKinds \cup {"push", "pop", "shape"}) /\ n \in Nat
      /\ Transform \in Matrices
  BY DEF UtmAssumption, IsScene, Matrices, Turns, Axes
<1>3. FieldsOK /\ CachedOK(cached)
  BY DEF UTMInv
<1>4. Steps(after, nodes, getMatrix, n, start)
  <2> HIDE DEF start, n
  <2> QED BY <1>2, StepsRun
<1> HIDE DEF after
<1>5. \A i \in 0..n : after[i] = IF i = 0 THEN start ELSE Step(after[i - 1], nodes[i], getMatrix)
  BY <1>4 DEF Steps
<1>6. PlacedTo(nodes, getMatrix, 0, after[0])
  <2> DEFINE t == after[0]
  <2>1. t = start
    BY <1>2, <1>5
  <2>2. Start \in Frames /\ FrameIs(Start, getMatrix, {}, {}, {}, {})
    BY <1>2, StartIs
  <2> HIDE DEF t
  <2>3. /\ t \in PlacingFrom(t.cached) /\ t.cached = cached /\ Len(t.frames) = 1
        /\ t.frames[1] = Start /\ Len(t.places) = 0
    BY <2>1, <2>2 DEF PlacingFrom
  <2>4. Depth(nodes, 0) = 0 /\ ShapesTo(nodes, 0) = 0
    BY DepthStep, ShapesStep
  <2>5. \A K : Within(nodes, K, 0, 0) = {}
    BY ScopeStep DEF Within
  <2>6. ScopeFrame(nodes, getMatrix, 0, 0, Start)
    BY <2>2, <2>5 DEF ScopeFrame
  <2> QED BY <1>3, <2>3, <2>4, <2>6 DEF PlacedTo, t
<1> HIDE DEF start
<1> DEFINE T == {i \in 0..n : PlacedTo(nodes, getMatrix, i, after[i])}
<1>7. PlacedTo(nodes, getMatrix, n, s)
  <2>1. 0 \in T
    BY <1>2, <1>6
  <2>2. ASSUME NEW i \in 1..n, i - 1 \in T PROVE i \in T
    <3>1. i - 1 \in Nat /\ (i - 1) + 1 = i /\ i \in 1..Len(nodes)
      BY <1>2
    <3>2. PlacedTo(nodes, getMatrix, i - 1, after[i - 1])
      BY <2>2
    <3>3. PlacedTo(nodes, getMatrix, i, Step(after[i - 1], nodes[i], getMatrix))
      <4> DEFINE k == i - 1  u == after[k]
      <4>1. k \in Nat /\ k + 1 \in 1..Len(nodes) /\ PlacedTo(nodes, getMatrix, k, u) /\ k + 1 = i
        BY <3>1, <3>2
      <4> HIDE DEF k, u
      <4>2. PlacedTo(nodes, getMatrix, k + 1, Step(u, nodes[k + 1], getMatrix))
        BY <1>3, <4>1, UtmVisited
      <4> QED BY <4>1, <4>2 DEF k, u
    <3>4. after[i] = Step(after[i - 1], nodes[i], getMatrix)
      BY <1>5
    <3> QED BY <3>3, <3>4
  <2> HIDE DEF T
  <2>3. n \in T
    <3>1. 0..n \subseteq T
      <4> HIDE DEF n
      <4> QED BY <1>2, <2>1, <2>2, UpTo
    <3> QED BY <1>2, <3>1
  <2> QED BY <2>3 DEF T
<1> HIDE DEF s
<1>8. CachedOK(s.cached) /\ \A j \in 1..n : nodes[j] = "shape" =>
        PlacedAt(nodes, getMatrix, j, s.places[ShapesTo(nodes, j)])
  BY <1>7 DEF PlacedTo
<1>9. DOMAIN nodes = 1..n
  BY <1>2
<1>10. /\ seen'.scene = nodes /\ seen'.getMatrix = getMatrix /\ seen'.places = s.places
  BY <1>1
<1>11. PlacedRelative'
  <2>1. ASSUME NEW j \in 1..n, nodes[j] = "shape"
        PROVE  /\ PlacedByPosition(nodes, getMatrix, j, s.places[ShapesTo(nodes, j)])
               /\ PlacedByPoint(nodes, getMatrix, j, s.places[ShapesTo(nodes, j)])
    BY <1>8, <2>1 DEF PlacedAt
  <2>2. SUFFICES ASSUME NEW j \in 1..n, nodes[j] = "shape"
        PROVE  /\ PlacedByPosition(seen.scene, seen.getMatrix, j,
                                   seen.places[ShapesTo(seen.scene, j)])'
               /\ PlacedByPoint(seen.scene, seen.getMatrix, j,
                                seen.places[ShapesTo(seen.scene, j)])'
    BY <1>9, <1>10 DEF PlacedRelative
  <2>3. PlacedByPosition(seen.scene, seen.getMatrix, j, seen.places[ShapesTo(seen.scene, j)])'
    <3>1. PlacedByPosition(nodes, getMatrix, j, s.places[ShapesTo(nodes, j)])
      BY <2>1, <2>2
    <3> QED BY <1>1, <1>10, <3>1 DEF PlacedByPosition
  <2>4. PlacedByPoint(seen.scene, seen.getMatrix, j, seen.places[ShapesTo(seen.scene, j)])'
    <3>1. PlacedByPoint(nodes, getMatrix, j, s.places[ShapesTo(nodes, j)])
      BY <2>1, <2>2
    <3> QED BY <1>1, <1>10, <3>1 DEF PlacedByPoint
  <2> QED BY <2>3, <2>4
<1>12. FieldsOK'
  BY <1>1, <1>3 DEF FieldsOK
<1>13. CachedOK(cached)'
  BY <1>1, <1>8 DEF CachedOK
<1> QED BY <1>11, <1>12, <1>13 DEF UTMInv

LEMMA FieldEdited ==
  ASSUME UtmAssumption, UTMInv, seen' = NotSet, FieldsOK',
         UNCHANGED <<point, cached>> \/ cached' = NotSet
  PROVE  UTMInv'
<1>1. PlacedRelative'
  BY DEF PlacedRelative
<1>2. CachedOK(cached)'
  BY DEF UTMInv, CachedOK
<1> QED BY <1>1, <1>2 DEF UTMInv

(* Below a camera, shapes lie where the positions and coordinates in their  *)
(* scope put them, relative to the camera, in every scene in which a camera *)
(* comes before them.                                                       *)
THEOREM PositionsPlaced == UtmAssumption => (UTMSpec => []PlacedRelative)
<1> SUFFICES ASSUME UtmAssumption PROVE UTMSpec => []PlacedRelative
  OBVIOUS
<1>1. UTMInit => UTMInv
  <2>1. <<0, 0>> \in Vectors
    BY DEF Vectors, Axes
  <2> QED BY <2>1 DEF UTMInit, UTMInv, FieldsOK, CachedOK, PlacedRelative
<1>2. UTMInv /\ [UTMNext]_utmvars => UTMInv'
  <2> SUFFICES ASSUME UTMInv, [UTMNext]_utmvars PROVE UTMInv'
    OBVIOUS
  <2>1. Places \subseteq Vectors /\ Points \subseteq Vectors
    BY DEF UtmAssumption, Vectors, Axes
  <2>2. FieldsOK
    BY DEF UTMInv
  <2>3. ASSUME NEW p \in Places, SetUtmCamera(p) PROVE UTMInv'
    BY <2>1, <2>2, <2>3, FieldEdited DEF SetUtmCamera, Edited, FieldsOK
  <2>4. ASSUME NEW p \in Places, SetPosition(p) PROVE UTMInv'
    BY <2>1, <2>2, <2>4, FieldEdited DEF SetPosition, Edited, FieldsOK
  <2>5. ASSUME NEW i \in Axes, NEW p \in Places, SetCameraText(i, p[i]) PROVE UTMInv'
    <3>1. utmCamera' \in Vectors
      BY <2>1, <2>2, <2>5 DEF SetCameraText, FieldsOK, Vectors
    <3> QED BY <2>2, <2>5, <3>1, FieldEdited DEF SetCameraText, Edited, FieldsOK
  <2>6. ASSUME NEW i \in Axes, NEW p \in Places, SetText(i, p[i]) PROVE UTMInv'
    <3>1. position' \in Vectors
      BY <2>1, <2>2, <2>6 DEF SetText, FieldsOK, Vectors
    <3> QED BY <2>2, <2>6, <3>1, FieldEdited DEF SetText, Edited, FieldsOK
  <2>7. ASSUME NEW b \in BOOLEAN, SetMoveTransform(b) PROVE UTMInv'
    BY <2>2, <2>7, FieldEdited DEF SetMoveTransform, Edited, FieldsOK
  <2>8. ASSUME NEW p \in Points, SetPoint(p) PROVE UTMInv'
    BY <2>1, <2>2, <2>8, FieldEdited DEF SetPoint, Edited, FieldsOK
  <2>9. CASE UNCHANGED utmvars
    BY <2>9 DEF utmvars, UTMInv, FieldsOK, CachedOK, PlacedRelative, PlacedByPosition, PlacedByPoint
  <2> QED BY <2>3, <2>4, <2>5, <2>6, <2>7, <2>8, <2>9, TraversePlaces DEF UTMNext
<1>3. UTMInv => PlacedRelative
  BY DEF UTMInv
<1> QED BY <1>1, <1>2, <1>3, PTL DEF UTMSpec
-----------------------------------------------------------------------------
(* SmScenery: the cells of a block                                          *)

BlocksSpec == BlocksInit /\ [][BlocksNext]_cell

Vertices == Int \X Int

(* The triangles of the first k vertices of a fan.                          *)
Fan(f, k) == {<<f[1], f[m], f[m + 1]>> : m \in 2..(k - 1)}

LEMMA FanStep ==
  ASSUME NEW f, NEW k \in Nat, k >= 2
  PROVE  /\ Fan(f, k + 1) = Fan(f, k) \cup {<<f[1], f[k], f[k + 1]>>}
         /\ Fan(f, 0) = {} /\ Fan(f, 1) = {} /\ Fan(f, 2) = {}
<1>1. \A m : m \in 2..((k + 1) - 1) <=> m \in 2..(k - 1) \/ m = k
  BY SMT
<1>2. \A m : m \notin 2..(0 - 1) /\ m \notin 2..(1 - 1) /\ m \notin 2..(2 - 1)
  BY SMT
<1>3. Fan(f, k + 1) = Fan(f, k) \cup {<<f[1], f[k], f[k + 1]>>}
  BY <1>1, Zenon DEF Fan
<1> QED BY <1>2, <1>3 DEF Fan

LEMMA FanIs ==
  ASSUME NEW f
  PROVE  FanTriangles(f) = Fan(f, Len(f))
BY DEF FanTriangles, Fan

(* Picking a cell that is whole.                                            *)
PickStart == [second |-> <<0, 0>>, third |-> <<0, 0>>, vertices |-> 1, hits |-> {}]
PickVertex(f, s, v) ==
  [second |-> s.third, third |-> v, vertices |-> s.vertices + 1,
   hits |-> IF s.vertices + 1 >= 3 THEN s.hits \cup {<<f[1], s.third, v>>} ELSE s.hits]
Picks(a, f) == a = [k \in 1..Len(f) |-> IF k = 1 THEN PickStart ELSE PickVertex(f, a[k - 1], f[k])]
Picked(f, k) ==
  IF k = 1 THEN PickStart
  ELSE [second |-> IF k = 2 THEN <<0, 0>> ELSE f[k - 1], third |-> f[k], vertices |-> k,
        hits |-> Fan(f, k)]

LEMMA PickedStep ==
  ASSUME NEW f, NEW k \in Nat, k >= 2
  PROVE  Picked(f, k) = PickVertex(f, Picked(f, k - 1), f[k])
<1>1. CASE k = 2
  <2>1. Picked(f, k - 1) = PickStart /\ ~(1 + 1 >= 3)
    BY <1>1 DEF Picked
  <2>2. Fan(f, 2) = {}
    BY FanStep
  <2> QED BY <1>1, <2>1, <2>2 DEF Picked, PickVertex, PickStart
<1>2. CASE k > 2
  <2>1. k - 1 \in Nat /\ k - 1 >= 2 /\ (k - 1) + 1 = k /\ k - 1 # 1 /\ k # 1 /\ k # 2 /\ k >= 3
    BY <1>2
  <2>2. Fan(f, k) = Fan(f, k - 1) \cup {<<f[1], f[k - 1], f[k]>>}
    <3>1. Fan(f, (k - 1) + 1) = Fan(f, k - 1) \cup {<<f[1], f[k - 1], f[(k - 1) + 1]>>}
      BY <2>1, FanStep
    <3> QED BY <2>1, <3>1
  <2>3. /\ Picked(f, k - 1).third = f[k - 1] /\ Picked(f, k - 1).vertices = k - 1
        /\ Picked(f, k - 1).hits = Fan(f, k - 1)
    BY <2>1 DEF Picked
  <2>4. Picked(f, k) = [second |-> f[k - 1], third |-> f[k], vertices |-> k, hits |-> Fan(f, k)]
    BY <2>1 DEF Picked
  <2> QED BY <2>1, <2>2, <2>3, <2>4 DEF PickVertex
<1> QED BY <1>1, <1>2

LEMMA RaypickIs ==
  ASSUME NEW f \in Seq(Vertices), Len(f) >= 2
  PROVE  RaypickCb(f) = FanTriangles(f)
<1> DEFINE n == Len(f)
           after == CHOOSE a : Picks(a, f)
<1>1. RaypickCb(f) = after[n].hits
  BY DEF RaypickCb, Picks, PickStart, PickVertex
<1>2. n \in Nat
  OBVIOUS
<1>3. Picks(after, f)
  <2> DEFINE p == [k \in 1..n |-> Picked(f, k)]
  <2>1. ASSUME NEW k \in 1..n
        PROVE  p[k] = IF k = 1 THEN PickStart ELSE PickVertex(f, p[k - 1], f[k])
    <3>1. CASE k = 1
      BY <3>1 DEF Picked
    <3>2. CASE k # 1
      <4>1. k \in Nat /\ k >= 2 /\ k - 1 \in 1..n
        BY <1>2, <3>2
      <4>2. p[k] = Picked(f, k) /\ p[k - 1] = Picked(f, k - 1)
        BY <4>1
      <4> QED BY <3>2, <4>1, <4>2, PickedStep
    <3> QED BY <3>1, <3>2
  <2>2. p = [k \in 1..n |-> p[k]]
    OBVIOUS
  <2> HIDE DEF p
  <2>3. Picks(p, f)
    BY <2>1, <2>2 DEF Picks
  <2> QED BY <2>3
<1> HIDE DEF after, n
<1>4. \A k \in 1..n : after[k] = IF k = 1 THEN PickStart ELSE PickVertex(f, after[k - 1], f[k])
  BY <1>3 DEF Picks, n
<1> DEFINE T == {k \in 0..n : k = 0 \/ after[k] = Picked(f, k)}
<1>5. n \in T
  <2>1. 0 \in T
    BY <1>2
  <2>2. ASSUME NEW k \in 1..n, k - 1 \in T PROVE k \in T
    <3>1. CASE k = 1
      BY <1>4, <3>1 DEF Picked
    <3>2. CASE k # 1
      <4>1. k \in Nat /\ k >= 2 /\ k - 1 # 0
        BY <1>2, <3>2
      <4>2. after[k - 1] = Picked(f, k - 1)
        BY <2>2, <4>1
      <4> QED BY <1>4, <3>2, <4>1, <4>2, PickedStep
    <3> QED BY <3>1, <3>2
  <2> HIDE DEF T
  <2>3. 0..n \subseteq T
    BY <1>2, <2>1, <2>2, UpTo
  <2> QED BY <1>2, <2>3
<1>6. n >= 2
  BY DEF n
<1>7. after[n].hits = Fan(f, n)
  BY <1>2, <1>5, <1>6 DEF Picked
<1> QED BY <1>1, <1>7, FanIs DEF n

(* Picking the fans of a cell that is undefined in parts.                   *)
IsPick(s) == s = [first |-> s.first, second |-> s.second, third |-> s.third,
                  vertices |-> s.vertices, hits |-> s.hits]
Gens(a, s, f) == a = [k \in 0..Len(f) |-> IF k = 0 THEN [s EXCEPT !.vertices = 0]
                                          ELSE GenVertex(a[k - 1], f[k])]
Genned(s, f, k) ==
  [first |-> IF k >= 3 THEN f[1] ELSE s.first,
   second |-> IF k = 0 THEN s.second ELSE IF k = 1 THEN s.third ELSE f[k - 1],
   third |-> IF k = 0 THEN s.third ELSE f[k],
   vertices |-> k,
   hits |-> s.hits \cup Fan(f, k)]

LEMMA GennedStep ==
  ASSUME NEW s, NEW f, NEW k \in Nat, k >= 1
  PROVE  Genned(s, f, k) = GenVertex(Genned(s, f, k - 1), f[k])
<1> DEFINE t == Genned(s, f, k - 1)
<1>1. /\ t.first = IF k - 1 >= 3 THEN f[1] ELSE s.first
      /\ t.second = IF k - 1 = 0 THEN s.second ELSE IF k - 1 = 1 THEN s.third ELSE f[(k - 1) - 1]
      /\ t.third = IF k - 1 = 0 THEN s.third ELSE f[k - 1]
      /\ t.vertices = k - 1 /\ t.hits = s.hits \cup Fan(f, k - 1)
  BY DEF Genned
<1> HIDE DEF t
<1>2. Fan(f, 0) = {} /\ Fan(f, 1) = {} /\ Fan(f, 2) = {}
  <2>1. 2 \in Nat /\ 2 >= 2
    OBVIOUS
  <2> QED BY <2>1, FanStep
<1>3. k > 2 => Fan(f, k) = Fan(f, k - 1) \cup {<<f[1], f[k - 1], f[k]>>}
  <2> SUFFICES ASSUME k > 2 PROVE Fan(f, k) = Fan(f, k - 1) \cup {<<f[1], f[k - 1], f[k]>>}
    OBVIOUS
  <2>1. k - 1 \in Nat /\ k - 1 >= 2 /\ (k - 1) + 1 = k
    OBVIOUS
  <2>2. Fan(f, (k - 1) + 1) = Fan(f, k - 1) \cup {<<f[1], f[k - 1], f[(k - 1) + 1]>>}
    BY <2>1, FanStep
  <2> QED BY <2>1, <2>2
<1> DEFINE first == IF t.vertices = 2 THEN t.second ELSE t.first
           hits == IF t.vertices + 1 >= 3 THEN t.hits \cup {<<first, t.third, f[k]>>} ELSE t.hits
<1>4. GenVertex(t, f[k]) = [first |-> first, second |-> t.third, third |-> f[k],
                            vertices |-> t.vertices + 1, hits |-> hits]
  BY DEF GenVertex
<1>5. first = (IF k >= 3 THEN f[1] ELSE s.first) /\ (k >= 3 => first = f[1])
  <2>1. CASE k = 3
    BY <1>1, <2>1
  <2>2. CASE k # 3
    BY <1>1, <2>2
  <2> QED BY <2>1, <2>2
<1>6. t.vertices + 1 = k
  BY <1>1
<1>7. hits = s.hits \cup Fan(f, k)
  <2> HIDE DEF first
  <2>1. CASE k > 2
    BY <1>1, <1>3, <1>5, <1>6, <2>1
  <2>2. CASE ~(k > 2)
    <3>1. Fan(f, k) = {} /\ Fan(f, k - 1) = {}
      <4>1. k = 1 \/ k = 2
        BY <2>2
      <4> QED BY <1>2, <4>1
    <3>2. ~(k >= 3)
      BY <2>2
    <3> QED BY <1>1, <1>6, <3>1, <3>2
  <2> QED BY <2>1, <2>2
<1>8. t.third = IF k = 1 THEN s.third ELSE f[k - 1]
  BY <1>1
<1> HIDE DEF first, hits
<1>9. Genned(s, f, k) = [first |-> first, second |-> t.third, third |-> f[k],
                         vertices |-> k, hits |-> hits]
  <2>1. k # 0
    OBVIOUS
  <2>2. (IF k = 0 THEN s.second ELSE IF k = 1 THEN s.third ELSE f[k - 1]) = t.third
    BY <1>8, <2>1
  <2> QED BY <1>5, <1>7, <2>1, <2>2 DEF Genned
<1> QED BY <1>4, <1>6, <1>9 DEF t

LEMMA InFanIs ==
  ASSUME NEW f \in Seq(Vertices), NEW s, IsPick(s)
  PROVE  IsPick(InFan(s, f)) /\ InFan(s, f).hits = s.hits \cup FanTriangles(f)
<1> DEFINE n == Len(f)
           after == CHOOSE a : Gens(a, s, f)
<1>1. InFan(s, f) = after[n]
  BY DEF InFan, Gens
<1>2. n \in Nat
  OBVIOUS
<1>3. Genned(s, f, 0) = [s EXCEPT !.vertices = 0]
  <2>1. Fan(f, 0) = {}
    <3>1. 2 \in Nat /\ 2 >= 2
      OBVIOUS
    <3> QED BY <3>1, FanStep
  <2>2. Genned(s, f, 0) = [first |-> s.first, second |-> s.second, third |-> s.third,
                           vertices |-> 0, hits |-> s.hits]
    <3>1. s.hits \cup Fan(f, 0) = s.hits
      BY <2>1, Zenon
    <3>2. ~(0 >= 3)
      OBVIOUS
    <3> QED BY <3>1, <3>2 DEF Genned
  <2>3. [[first |-> s.first, second |-> s.second, third |-> s.third,
          vertices |-> s.vertices, hits |-> s.hits] EXCEPT !.vertices = 0]
          = [first |-> s.first, second |-> s.second, third |-> s.third,
             vertices |-> 0, hits |-> s.hits]
    OBVIOUS
  <2> QED BY <2>2, <2>3 DEF IsPick
<1>4. Gens(after, s, f)
  <2> DEFINE p == [k \in 0..n |-> Genned(s, f, k)]
  <2>1. ASSUME NEW k \in 0..n
        PROVE  p[k] = IF k = 0 THEN [s EXCEPT !.vertices = 0] ELSE GenVertex(p[k - 1], f[k])
    <3>1. CASE k = 0
      BY <1>3, <3>1
    <3>2. CASE k # 0
      <4>1. k \in Nat /\ k >= 1 /\ k - 1 \in 0..n
        BY <1>2, <3>2
      <4>2. p[k] = Genned(s, f, k) /\ p[k - 1] = Genned(s, f, k - 1)
        BY <4>1
      <4> HIDE DEF p
      <4> QED BY <3>2, <4>1, <4>2, GennedStep
    <3> QED BY <3>1, <3>2
  <2>2. p = [k \in 0..n |-> p[k]]
    OBVIOUS
  <2> HIDE DEF p
  <2>3. Gens(p, s, f)
    BY <2>1, <2>2 DEF Gens
  <2> QED BY <2>3
<1> HIDE DEF after, n
<1>5. \A k \in 0..n : after[k] = IF k = 0 THEN [s EXCEPT !.vertices = 0]
                                 ELSE GenVertex(after[k - 1], f[k])
  BY <1>4 DEF Gens, n
<1> DEFINE T == {k \in 0..n : after[k] = Genned(s, f, k)}
<1>6. n \in T
  <2>1. 0 \in T
    BY <1>2, <1>3, <1>5
  <2>2. ASSUME NEW k \in 1..n, k - 1 \in T PROVE k \in T
    <3>1. k \in Nat /\ k >= 1 /\ k # 0 /\ k \in 0..n
      BY <1>2
    <3>2. after[k - 1] = Genned(s, f, k - 1)
      BY <2>2
    <3> QED BY <1>5, <3>1, <3>2, GennedStep
  <2> HIDE DEF T
  <2>3. 0..n \subseteq T
    BY <1>2, <2>1, <2>2, UpTo
  <2> QED BY <1>2, <2>3
<1>7. InFan(s, f) = Genned(s, f, n)
  BY <1>1, <1>6
<1>8. IsPick(Genned(s, f, n)) /\ Genned(s, f, n).hits = s.hits \cup Fan(f, n)
  BY DEF Genned, IsPick
<1> QED BY <1>7, <1>8, FanIs DEF n

(* The cells the library calls back for.                                    *)
TwoFans(fans) == /\ DOMAIN fans = {1, 2} /\ Len(fans) = 2
                 /\ \A k \in {1, 2} : fans[k] \in Seq(Vertices) /\ Len(fans[k]) \in 1..10
CellOK ==
  \/ cell = NoCell
  \/ /\ cell.kind = "full" /\ cell.len \in Lens /\ cell.bitmask \in SUBSET Sides
  \/ /\ cell.kind = "undefined" /\ cell.len \in Lens /\ TwoFans(cell.fans)

(* What is as long as the arrays is drawn whole.                            *)
LEMMA WholeFan ==
  ASSUME NEW f \in Seq(Vertices), Len(f) <= 10
  PROVE  SubSeq(f, 1, Min({Len(f), ArraySize})) = f
<1> DEFINE least == Min({Len(f), ArraySize})
<1>1. Len(f) \in Nat
  OBVIOUS
<1>2. least = Len(f)
  <2> DEFINE S == {Len(f), ArraySize}
  <2>1. \A x \in S : (\A y \in S : x <= y) <=> x = Len(f)
    BY <1>1 DEF ArraySize
  <2>2. Len(f) \in S
    OBVIOUS
  <2> HIDE DEF S
  <2>3. (CHOOSE x \in S : \A y \in S : x <= y) = Len(f)
    BY <2>1, <2>2
  <2> QED BY <2>3 DEF Min, S
<1> HIDE DEF least
<1>3. SubSeq(f, 1, Len(f)) = f
  <2>1. SubSeq(f, 1, Len(f)) = [k \in 1..Len(f) |-> f[k]]
    BY <1>1, SubSeqProperties
  <2> QED BY <2>1
<1> QED BY <1>2, <1>3 DEF least

LEMMA ScaledFans ==
  ASSUME NEW len \in Nat, NEW fans, TwoFans(fans)
  PROVE  TwoFans(UndefRenderCb(len, fans))
<1> DEFINE scaled(v) == <<v[1] * len, v[2] * len>>
           sent == UndefRenderCb(len, fans)
<1>1. sent = [k \in {1, 2} |-> [i \in DOMAIN fans[k] |-> scaled(fans[k][i])]]
  BY DEF UndefRenderCb, TwoFans
<1>2. \A v \in Vertices : scaled(v) \in Vertices
  <2> TAKE v \in Vertices
  <2>1. v[1] \in Int /\ v[2] \in Int
    BY DEF Vertices
  <2>2. v[1] * len \in Int /\ v[2] * len \in Int
    BY <2>1
  <2> QED BY <2>2 DEF Vertices
<1>3. ASSUME NEW k \in {1, 2}
      PROVE  sent[k] \in Seq(Vertices) /\ Len(sent[k]) \in 1..10
  <2> DEFINE f == fans[k]
  <2>1. f \in Seq(Vertices) /\ Len(f) \in 1..10
    BY DEF TwoFans
  <2>2. sent[k] = [i \in 1..Len(f) |-> scaled(f[i])]
    BY <1>1, <2>1
  <2>3. \A i \in 1..Len(f) : scaled(f[i]) \in Vertices
    BY <1>2, <2>1
  <2> HIDE DEF scaled, sent, f
  <2> QED BY <2>1, <2>2, <2>3
<1>4. DOMAIN sent = {1, 2} /\ Len(sent) = 2
  <2>1. {1, 2} = 1..2
    OBVIOUS
  <2> HIDE DEF scaled, sent
  <2> QED BY <1>1, <2>1
<1> QED BY <1>3, <1>4 DEF TwoFans

LEMMA UndefinedPicked ==
  ASSUME BlocksAssumption, cell.kind = "undefined", CellOK
  PROVE  LET all(fans) == UNION {FanTriangles(fans[k]) : k \in DOMAIN fans}
             fans == UndefRenderCb(cell.len, cell.fans)
         IN  /\ UndefRaypickCb(fans) = all(fans)
             /\ all(VaUndefRenderCb(cell.len, cell.fans)) = all(fans)
             /\ all(UndefGenCb(cell.len, cell.fans)) = all(fans)
<1> DEFINE fans == UndefRenderCb(cell.len, cell.fans)
           all(g) == UNION {FanTriangles(g[k]) : k \in DOMAIN g}
           start == [first |-> <<0, 0>>, second |-> <<0, 0>>, third |-> <<0, 0>>,
                     vertices |-> 0, hits |-> {}]
           p == [k \in 0..2 |-> IF k = 0 THEN start ELSE IF k = 1 THEN InFan(start, fans[1])
                                ELSE InFan(InFan(start, fans[1]), fans[2])]
           Runs(a) == a = [k \in 0..Len(fans) |-> IF k = 0 THEN start ELSE InFan(a[k - 1], fans[k])]
           after == CHOOSE a : Runs(a)
<1>1. cell.len \in Nat /\ TwoFans(cell.fans)
  <2>1. cell # NoCell /\ cell.kind # "full"
    BY DEF NoCell
  <2>2. cell.len \in Lens /\ TwoFans(cell.fans)
    BY <2>1 DEF CellOK
  <2> QED BY <2>2 DEF BlocksAssumption
<1>2. TwoFans(fans)
  BY <1>1, ScaledFans
<1> HIDE DEF fans
<1>3. DOMAIN fans = {1, 2} /\ Len(fans) = 2 /\ fans[1] \in Seq(Vertices) /\ fans[2] \in Seq(Vertices)
      /\ Len(fans[1]) <= 10 /\ Len(fans[2]) <= 10
  <2>1. /\ DOMAIN fans = {1, 2} /\ Len(fans) = 2 /\ fans[1] \in Seq(Vertices)
        /\ fans[2] \in Seq(Vertices) /\ Len(fans[1]) \in 1..10 /\ Len(fans[2]) \in 1..10
    BY <1>2 DEF TwoFans
  <2>2. \A n \in 1..10 : n <= 10
    OBVIOUS
  <2> QED BY <2>1, <2>2
<1>4. UndefRaypickCb(fans) = after[2].hits
  BY <1>3 DEF UndefRaypickCb
<1>5. Runs(after)
  <2>1. \A k \in 0..2 : p[k] = IF k = 0 THEN start ELSE InFan(p[k - 1], fans[k])
    <3> HIDE DEF start
    <3> TAKE k \in 0..2
    <3>1. k = 0 \/ k = 1 \/ k = 2
      OBVIOUS
    <3>2. p[0] = start /\ p[1] = InFan(start, fans[1]) /\ p[2] = InFan(InFan(start, fans[1]), fans[2])
      OBVIOUS
    <3> HIDE DEF p
    <3> QED BY <3>1, <3>2
  <2>2. p = [k \in 0..2 |-> p[k]]
    OBVIOUS
  <2> HIDE DEF p, start
  <2>3. Runs(p)
    BY <1>3, <2>1, <2>2
  <2> QED BY <2>3
<1> HIDE DEF after, p
<1>6. after[0] = start /\ after[1] = InFan(start, fans[1]) /\ after[2] = InFan(after[1], fans[2])
  <2> HIDE DEF start
  <2>1. \A k \in 0..2 : after[k] = IF k = 0 THEN start ELSE InFan(after[k - 1], fans[k])
    BY <1>3, <1>5
  <2> QED BY <2>1
<1>7. IsPick(start) /\ start.hits = {}
  BY DEF IsPick
<1> HIDE DEF start
<1>8. IsPick(after[1]) /\ after[1].hits = FanTriangles(fans[1])
  <2>1. IsPick(InFan(start, fans[1]))
        /\ InFan(start, fans[1]).hits = start.hits \cup FanTriangles(fans[1])
    BY <1>3, <1>7, InFanIs
  <2>2. {} \cup FanTriangles(fans[1]) = FanTriangles(fans[1])
    BY Zenon
  <2> QED BY <1>6, <1>7, <2>1, <2>2
<1>9. after[2].hits = FanTriangles(fans[1]) \cup FanTriangles(fans[2])
  BY <1>3, <1>6, <1>8, InFanIs
<1>10. all(fans) = FanTriangles(fans[1]) \cup FanTriangles(fans[2])
  BY <1>3
<1>11. VaUndefRenderCb(cell.len, cell.fans) = fans
  <2> DEFINE cut(f) == SubSeq(f, 1, Min({Len(f), ArraySize}))
  <2>1. VaUndefRenderCb(cell.len, cell.fans) = [k \in DOMAIN fans |-> cut(fans[k])]
    BY DEF VaUndefRenderCb, fans
  <2>2. \A k \in DOMAIN fans : cut(fans[k]) = fans[k]
    BY <1>3, WholeFan
  <2> HIDE DEF cut
  <2>3. [k \in DOMAIN fans |-> cut(fans[k])] = [k \in DOMAIN fans |-> fans[k]]
    BY <2>2
  <2>4. fans = [k \in DOMAIN fans |-> fans[k]]
    BY DEF fans, UndefRenderCb
  <2> QED BY <2>1, <2>3, <2>4
<1>12. UndefGenCb(cell.len, cell.fans) = fans
  BY DEF UndefGenCb, fans
<1> QED BY <1>4, <1>9, <1>10, <1>11, <1>12 DEF fans

(* The triangles of a whole cell, one side after another.                   *)
Sums(a, f, n) == a = [k \in 1..n |-> IF k = 1 THEN 0
                                     ELSE a[k - 1] + Doubled(<<f[1], f[k], f[k + 1]>>)]

LEMMA SumsRun ==
  ASSUME NEW f, NEW n \in Nat
  PROVE  \E a : Sums(a, f, n)
<1> DEFINE T == {m \in 0..n : \E a : Sums(a, f, m)}
<1>1. 0 \in T
  <2> DEFINE a == [k \in 1..0 |-> 0]
  <2>1. \A k : k \notin 1..0
    BY SMT
  <2>2. Sums(a, f, 0)
    BY <2>1 DEF Sums
  <2> HIDE DEF a
  <2> QED BY <2>2
<1>2. ASSUME NEW m \in 1..n, m - 1 \in T PROVE m \in T
  <2>1. PICK a : Sums(a, f, m - 1)
    BY <1>2
  <2> DEFINE g == [k \in 1..m |-> IF k = m
                     THEN IF k = 1 THEN 0 ELSE a[k - 1] + Doubled(<<f[1], f[k], f[k + 1]>>)
                     ELSE a[k]]
  <2>2. \A k \in 1..(m - 1) :
          a[k] = IF k = 1 THEN 0 ELSE a[k - 1] + Doubled(<<f[1], f[k], f[k + 1]>>)
    BY <2>1 DEF Sums
  <2>3. ASSUME NEW k \in 1..m
        PROVE  g[k] = IF k = 1 THEN 0 ELSE g[k - 1] + Doubled(<<f[1], f[k], f[k + 1]>>)
    <3>1. k # 1 => g[k - 1] = a[k - 1]
      <4>1. k # 1 => k - 1 \in 1..m /\ k - 1 # m
        OBVIOUS
      <4> QED BY <4>1
    <3>2. k # m => k \in 1..(m - 1) /\ g[k] = a[k]
      OBVIOUS
    <3>3. k = m =>
            g[k] = IF k = 1 THEN 0 ELSE a[k - 1] + Doubled(<<f[1], f[k], f[k + 1]>>)
      OBVIOUS
    <3> HIDE DEF g
    <3> QED BY <2>2, <3>1, <3>2, <3>3
  <2>4. g = [k \in 1..m |-> g[k]]
    OBVIOUS
  <2> HIDE DEF g
  <2>5. Sums(g, f, m)
    BY <2>3, <2>4 DEF Sums
  <2> QED BY <2>5
<1> HIDE DEF T
<1>3. 0..n \subseteq T
  BY <1>1, <1>2, UpTo
<1>4. n \in T
  BY <1>3
<1> QED BY <1>4 DEF T

LEMMA SumsSame ==
  ASSUME NEW n \in Nat, NEW m \in Nat, n <= m, NEW f, NEW g, \A k \in 1..(n + 1) : f[k] = g[k],
         n >= 1, NEW a, NEW b, Sums(a, f, n), Sums(b, g, m)
  PROVE  a[n] = b[n]
<1>1. \A k \in 1..n : a[k] = IF k = 1 THEN 0 ELSE a[k - 1] + Doubled(<<f[1], f[k], f[k + 1]>>)
  BY DEF Sums
<1>2. \A k \in 1..m : b[k] = IF k = 1 THEN 0 ELSE b[k - 1] + Doubled(<<g[1], g[k], g[k + 1]>>)
  BY DEF Sums
<1> DEFINE T == {k \in 0..n : k = 0 \/ a[k] = b[k]}
<1>3. 0 \in T
  OBVIOUS
<1>4. ASSUME NEW k \in 1..n, k - 1 \in T PROVE k \in T
  <2>1. k \in 1..n /\ k \in 1..m /\ k + 1 \in 1..(n + 1) /\ 1 \in 1..(n + 1) /\ k \in 1..(n + 1)
    OBVIOUS
  <2>2. f[1] = g[1] /\ f[k] = g[k] /\ f[k + 1] = g[k + 1]
    BY <2>1
  <2>3. k # 1 => a[k - 1] = b[k - 1]
    BY <1>4
  <2>4. a[k] = b[k]
    <3>1. a[k] = IF k = 1 THEN 0 ELSE a[k - 1] + Doubled(<<f[1], f[k], f[k + 1]>>)
      BY <1>1, <2>1
    <3>2. b[k] = IF k = 1 THEN 0 ELSE b[k - 1] + Doubled(<<f[1], f[k], f[k + 1]>>)
      BY <1>2, <2>1, <2>2
    <3> QED BY <2>3, <3>1, <3>2
  <2> QED BY <2>4
<1> HIDE DEF T
<1>5. 0..n \subseteq T
  BY <1>3, <1>4, UpTo
<1>6. n \in T
  BY <1>5
<1> QED BY <1>6 DEF T

LEMMA AreaIs ==
  ASSUME NEW f \in Seq(Vertices), Len(f) >= 2
  PROVE  \E a : Sums(a, f, Len(f) - 1) /\ Area(f) = a[Len(f) - 1]
<1> DEFINE n == Len(f) - 1
           a == CHOOSE u : Sums(u, f, n)
<1>1. Area(f) = a[n]
  BY DEF Area, Sums
<1>2. n \in Nat
  OBVIOUS
<1>3. Sums(a, f, n)
  <2> HIDE DEF n
  <2> QED BY <1>2, SumsRun
<1> HIDE DEF a
<1> QED BY <1>1, <1>3

(* A fan from the centre whose triangles are all turned the same way.       *)
Turned(f, last, area) ==
  /\ f \in Seq(Vertices) /\ Len(f) >= 2 /\ f[1] = <<0, 0>> /\ f[Len(f)] = last
  /\ \A t \in FanTriangles(f) : Doubled(t) > 0
  /\ Area(f) = area

LEMMA VertexAdded ==
  ASSUME NEW f, NEW last, NEW area \in Int, Turned(f, last, area), NEW v \in Vertices,
         NEW more \in Int, Doubled(<<<<0, 0>>, last, v>>) = more, more > 0
  PROVE  Turned(Append(f, v), v, area + more) /\ Len(Append(f, v)) = Len(f) + 1
<1> DEFINE g == Append(f, v)
           n == Len(f)
<1>1. /\ f \in Seq(Vertices) /\ n \in Nat /\ n >= 2 /\ f[1] = <<0, 0>> /\ f[n] = last
      /\ \A t \in FanTriangles(f) : Doubled(t) > 0
      /\ Area(f) = area
  BY DEF Turned
<1>2. /\ g \in Seq(Vertices) /\ Len(g) = n + 1 /\ g[n + 1] = v
      /\ \A k \in 1..n : g[k] = f[k]
  BY <1>1
<1> HIDE DEF g, n
<1>3. g[1] = <<0, 0>> /\ g[n] = last
  BY <1>1, <1>2
<1>4. FanTriangles(g) = FanTriangles(f) \cup {<<<<0, 0>>, last, v>>}
  <2>1. Fan(g, n + 1) = Fan(g, n) \cup {<<<<0, 0>>, last, v>>}
    BY <1>1, <1>2, <1>3, FanStep
  <2>2. Fan(g, n) = Fan(f, n)
    <3>1. \A m \in 2..(n - 1) : g[1] = f[1] /\ g[m] = f[m] /\ g[m + 1] = f[m + 1]
      BY <1>1, <1>2
    <3> QED BY <3>1 DEF Fan
  <2> QED BY <1>2, <2>1, <2>2, FanIs DEF n
<1>5. \A t \in FanTriangles(g) : Doubled(t) > 0
  BY <1>1, <1>4
<1>6. PICK a : Sums(a, f, n - 1) /\ Area(f) = a[n - 1]
  BY <1>1, AreaIs DEF n
<1>7. PICK b : Sums(b, g, n) /\ Area(g) = b[n]
  <2>1. Len(g) >= 2 /\ Len(g) - 1 = n
    BY <1>1, <1>2
  <2> QED BY <1>2, <2>1, AreaIs
<1>8. a[n - 1] = b[n - 1]
  <2>1. n - 1 \in Nat /\ n - 1 <= n /\ n - 1 >= 1 /\ (n - 1) + 1 = n
    BY <1>1
  <2>2. \A k \in 1..((n - 1) + 1) : f[k] = g[k]
    BY <1>2, <2>1
  <2> QED BY <1>1, <1>6, <1>7, <2>1, <2>2, SumsSame
<1>9. b[n] = b[n - 1] + Doubled(<<g[1], g[n], g[n + 1]>>)
  <2>1. n \in 1..n /\ n # 1
    BY <1>1
  <2>2. \A k \in 1..n : b[k] = IF k = 1 THEN 0
                               ELSE b[k - 1] + Doubled(<<g[1], g[k], g[k + 1]>>)
    BY <1>7 DEF Sums
  <2> QED BY <2>1, <2>2
<1>10. Area(g) = area + more
  BY <1>1, <1>2, <1>3, <1>6, <1>7, <1>8, <1>9
<1> QED BY <1>1, <1>2, <1>3, <1>5, <1>10 DEF Turned, g, n

LEMMA SideAdded ==
  ASSUME NEW f, NEW from, NEW area \in Int, Turned(f, from, area),
         NEW mid \in Vertices, NEW to \in Vertices, NEW q \in Nat, q > 0,
         Doubled(<<<<0, 0>>, from, mid>>) = q, Doubled(<<<<0, 0>>, mid, to>>) = q,
         Doubled(<<<<0, 0>>, from, to>>) = 2 * q, NEW left \in BOOLEAN
  PROVE  LET g == (f \o (IF left THEN << >> ELSE <<mid>>)) \o <<to>>
         IN  Turned(g, to, area + 2 * q) /\ Len(g) <= Len(f) + 2
<1> DEFINE g == (f \o (IF left THEN << >> ELSE <<mid>>)) \o <<to>>
<1>1. f \in Seq(Vertices) /\ Len(f) \in Nat
  BY DEF Turned
<1>2. CASE left
  <2>1. f \o << >> = f /\ f \o <<to>> = Append(f, to)
    BY <1>1
  <2>2. g = Append(f, to)
    BY <1>2, <2>1
  <2>3. 2 * q \in Int /\ 2 * q > 0
    OBVIOUS
  <2>4. Turned(Append(f, to), to, area + 2 * q) /\ Len(Append(f, to)) = Len(f) + 1
    BY <2>3, VertexAdded
  <2>5. Turned(g, to, area + 2 * q) /\ Len(g) = Len(f) + 1
    BY <2>2, <2>4
  <2> HIDE DEF g
  <2>6. Len(g) <= Len(f) + 2
    BY <1>1, <2>5
  <2> QED BY <2>5, <2>6 DEF g
<1>3. CASE ~left
  <2> DEFINE h == Append(f, mid)
  <2>1. f \o <<mid>> = h /\ h \in Seq(Vertices)
    BY <1>1
  <2>2. g = h \o <<to>>
    BY <1>3, <2>1
  <2>3. Turned(h, mid, area + q) /\ Len(h) = Len(f) + 1
    BY VertexAdded
  <2>4. area + q \in Int /\ (area + q) + q = area + 2 * q
    OBVIOUS
  <2> HIDE DEF h, g
  <2>5. g = Append(h, to)
    BY <2>1, <2>2
  <2>6. Turned(Append(h, to), to, (area + q) + q) /\ Len(Append(h, to)) = Len(h) + 1
    BY <2>3, <2>4, VertexAdded
  <2>7. Turned(g, to, area + 2 * q)
    BY <2>4, <2>5, <2>6
  <2>8. Len(g) <= Len(f) + 2
    BY <1>1, <2>3, <2>5, <2>6
  <2> QED BY <2>7, <2>8 DEF g
<1> QED BY <1>2, <1>3

LEMMA WholeCellDrawn ==
  ASSUME NEW len \in Nat, len > 0, NEW bitmask \in SUBSET Sides
  PROVE  /\ Turned(RenderCb(len, bitmask), <<-len, -len>>, 8 * len * len)
         /\ Len(RenderCb(len, bitmask)) <= 10
<1> DEFINE q == len * len
           south == "south" \in bitmask
           east == "east" \in bitmask
           north == "north" \in bitmask
           west == "west" \in bitmask
           f0 == <<<<0, 0>>, <<-len, -len>>>>
           f1 == (f0 \o (IF south THEN << >> ELSE <<<<0, -len>>>>)) \o <<<<len, -len>>>>
           f2 == (f1 \o (IF east THEN << >> ELSE <<<<len, 0>>>>)) \o <<<<len, len>>>>
           f3 == (f2 \o (IF north THEN << >> ELSE <<<<0, len>>>>)) \o <<<<-len, len>>>>
           f4 == (f3 \o (IF west THEN << >> ELSE <<<<-len, 0>>>>)) \o <<<<-len, -len>>>>
<1>1. RenderCb(len, bitmask) = f4
  BY DEF RenderCb
<1>2. q \in Nat /\ q > 0 /\ -len \in Int
  <2>1. len * len > 0
    BY SMT
  <2> QED BY <2>1
<1>3. /\ (-len) * (-len) = q /\ len * (-len) = -q /\ (-len) * len = -q
      /\ 0 * len = 0 /\ len * 0 = 0 /\ 0 * (-len) = 0 /\ (-len) * 0 = 0
  BY SMT
<1>4. \A a, b, c, d \in Int : Doubled(<<<<0, 0>>, <<a, b>>, <<c, d>>>>) = a * d - c * b
  <2> TAKE a, b, c, d \in Int
  <2>1. Doubled(<<<<0, 0>>, <<a, b>>, <<c, d>>>>) = (a - 0) * (d - 0) - (c - 0) * (b - 0)
    BY DEF Doubled
  <2>2. a - 0 = a /\ b - 0 = b /\ c - 0 = c /\ d - 0 = d
    OBVIOUS
  <2> QED BY <2>1, <2>2
<1> HIDE DEF q
<1>5. /\ Doubled(<<<<0, 0>>, <<-len, -len>>, <<0, -len>>>>) = q
      /\ Doubled(<<<<0, 0>>, <<0, -len>>, <<len, -len>>>>) = q
      /\ Doubled(<<<<0, 0>>, <<-len, -len>>, <<len, -len>>>>) = 2 * q
  <2>1. /\ Doubled(<<<<0, 0>>, <<-len, -len>>, <<0, -len>>>>) = (-len) * (-len) - 0 * (-len)
        /\ Doubled(<<<<0, 0>>, <<0, -len>>, <<len, -len>>>>) = 0 * (-len) - len * (-len)
        /\ Doubled(<<<<0, 0>>, <<-len, -len>>, <<len, -len>>>>)
             = (-len) * (-len) - len * (-len)
    BY <1>2, <1>4, SMTT(30)
  <2>2. q - 0 = q /\ 0 - (-q) = q /\ q - (-q) = 2 * q
    BY <1>2
  <2> QED BY <1>3, <2>1, <2>2
<1>6. /\ Doubled(<<<<0, 0>>, <<len, -len>>, <<len, 0>>>>) = q
      /\ Doubled(<<<<0, 0>>, <<len, 0>>, <<len, len>>>>) = q
      /\ Doubled(<<<<0, 0>>, <<len, -len>>, <<len, len>>>>) = 2 * q
  <2>1. /\ Doubled(<<<<0, 0>>, <<len, -len>>, <<len, 0>>>>) = len * 0 - len * (-len)
        /\ Doubled(<<<<0, 0>>, <<len, 0>>, <<len, len>>>>) = len * len - len * 0
        /\ Doubled(<<<<0, 0>>, <<len, -len>>, <<len, len>>>>) = len * len - len * (-len)
    BY <1>2, <1>4, SMTT(30)
  <2>2. q - 0 = q /\ 0 - (-q) = q /\ q - (-q) = 2 * q
    BY <1>2
  <2> QED BY <1>3, <2>1, <2>2 DEF q
<1>7. /\ Doubled(<<<<0, 0>>, <<len, len>>, <<0, len>>>>) = q
      /\ Doubled(<<<<0, 0>>, <<0, len>>, <<-len, len>>>>) = q
      /\ Doubled(<<<<0, 0>>, <<len, len>>, <<-len, len>>>>) = 2 * q
  <2>1. /\ Doubled(<<<<0, 0>>, <<len, len>>, <<0, len>>>>) = len * len - 0 * len
        /\ Doubled(<<<<0, 0>>, <<0, len>>, <<-len, len>>>>) = 0 * len - (-len) * len
        /\ Doubled(<<<<0, 0>>, <<len, len>>, <<-len, len>>>>) = len * len - (-len) * len
    <3>1. 0 \in Int /\ len \in Int /\ -len \in Int
      BY <1>2
    <3>2. Doubled(<<<<0, 0>>, <<len, len>>, <<0, len>>>>) = len * len - 0 * len
      BY <1>4, <3>1
    <3>3. Doubled(<<<<0, 0>>, <<0, len>>, <<-len, len>>>>) = 0 * len - (-len) * len
      BY <1>4, <3>1
    <3>4. Doubled(<<<<0, 0>>, <<len, len>>, <<-len, len>>>>) = len * len - (-len) * len
      BY <1>4, <3>1
    <3> QED BY <3>2, <3>3, <3>4
  <2>2. q - 0 = q /\ 0 - (-q) = q /\ q - (-q) = 2 * q
    BY <1>2
  <2> QED BY <1>3, <2>1, <2>2 DEF q
<1>8. /\ Doubled(<<<<0, 0>>, <<-len, len>>, <<-len, 0>>>>) = q
      /\ Doubled(<<<<0, 0>>, <<-len, 0>>, <<-len, -len>>>>) = q
      /\ Doubled(<<<<0, 0>>, <<-len, len>>, <<-len, -len>>>>) = 2 * q
  <2>1. /\ Doubled(<<<<0, 0>>, <<-len, len>>, <<-len, 0>>>>) = (-len) * 0 - (-len) * len
        /\ Doubled(<<<<0, 0>>, <<-len, 0>>, <<-len, -len>>>>) = (-len) * (-len) - (-len) * 0
        /\ Doubled(<<<<0, 0>>, <<-len, len>>, <<-len, -len>>>>)
             = (-len) * (-len) - (-len) * len
    BY <1>2, <1>4, SMTT(30)
  <2>2. q - 0 = q /\ 0 - (-q) = q /\ q - (-q) = 2 * q
    BY <1>2
  <2> QED BY <1>3, <2>1, <2>2
<1>9. /\ <<0, 0>> \in Vertices /\ <<-len, -len>> \in Vertices /\ <<0, -len>> \in Vertices
      /\ <<len, -len>> \in Vertices /\ <<len, 0>> \in Vertices /\ <<len, len>> \in Vertices
      /\ <<0, len>> \in Vertices /\ <<-len, len>> \in Vertices /\ <<-len, 0>> \in Vertices
  BY <1>2 DEF Vertices
<1>10. Turned(f0, <<-len, -len>>, 0) /\ Len(f0) = 2
  <2>1. f0 \in Seq(Vertices) /\ Len(f0) = 2 /\ f0[1] = <<0, 0>> /\ f0[2] = <<-len, -len>>
    BY <1>9
  <2> HIDE DEF f0
  <2>2. FanTriangles(f0) = {}
    <3>1. 2 \in Nat /\ 2 >= 2
      OBVIOUS
    <3> QED BY <2>1, <3>1, FanIs, FanStep
  <2>3. Area(f0) = 0
    <3>1. PICK a : Sums(a, f0, Len(f0) - 1) /\ Area(f0) = a[Len(f0) - 1]
      <4>1. f0 \in Seq(Vertices) /\ Len(f0) >= 2
        BY <2>1
      <4> QED BY <4>1, AreaIs
    <3>2. Len(f0) - 1 = 1 /\ 1 \in 1..1
      BY <2>1
    <3>3. Sums(a, f0, 1) /\ Area(f0) = a[1]
      BY <3>1, <3>2
    <3>4. \A k \in 1..1 : a[k] = IF k = 1 THEN 0
                                 ELSE a[k - 1] + Doubled(<<f0[1], f0[k], f0[k + 1]>>)
      BY <3>3 DEF Sums
    <3> QED BY <3>2, <3>3, <3>4
  <2> QED BY <2>1, <2>2, <2>3 DEF Turned
<1> HIDE DEF f0
<1>11. Turned(f1, <<len, -len>>, 0 + 2 * q) /\ Len(f1) <= Len(f0) + 2
  <2>1. 0 \in Int /\ south \in BOOLEAN
    OBVIOUS
  <2> HIDE DEF south
  <2> QED BY <1>2, <1>5, <1>9, <1>10, <2>1, SideAdded
<1> HIDE DEF f1
<1>12. Turned(f2, <<len, len>>, (0 + 2 * q) + 2 * q) /\ Len(f2) <= Len(f1) + 2
  <2>1. 0 + 2 * q \in Int /\ east \in BOOLEAN
    BY <1>2
  <2> HIDE DEF east
  <2> QED BY <1>2, <1>6, <1>9, <1>11, <2>1, SideAdded
<1> HIDE DEF f2
<1>13. Turned(f3, <<-len, len>>, ((0 + 2 * q) + 2 * q) + 2 * q) /\ Len(f3) <= Len(f2) + 2
  <2>1. (0 + 2 * q) + 2 * q \in Int /\ north \in BOOLEAN
    BY <1>2
  <2> HIDE DEF north
  <2> QED BY <1>2, <1>7, <1>9, <1>12, <2>1, SideAdded
<1> HIDE DEF f3
<1>14. Turned(f4, <<-len, -len>>, (((0 + 2 * q) + 2 * q) + 2 * q) + 2 * q)
       /\ Len(f4) <= Len(f3) + 2
  <2>1. ((0 + 2 * q) + 2 * q) + 2 * q \in Int /\ west \in BOOLEAN
    BY <1>2
  <2> HIDE DEF west
  <2> QED BY <1>2, <1>8, <1>9, <1>13, <2>1, SideAdded
<1> HIDE DEF f4
<1>15. (((0 + 2 * q) + 2 * q) + 2 * q) + 2 * q = 8 * len * len
  BY <1>2 DEF q
<1>16. /\ Len(f1) \in Nat /\ Len(f2) \in Nat /\ Len(f3) \in Nat /\ Len(f4) \in Nat
  BY <1>11, <1>12, <1>13, <1>14 DEF Turned
<1>17. Len(f4) <= 10
  BY <1>10, <1>11, <1>12, <1>13, <1>14, <1>16
<1> QED BY <1>1, <1>14, <1>15, <1>17

LEMMA FullPicked ==
  ASSUME BlocksAssumption, cell.kind = "full", CellOK
  PROVE  LET f == RenderCb(cell.len, cell.bitmask)
         IN  /\ RaypickCb(f) = FanTriangles(f)
             /\ FanTriangles(VaRenderCb(cell.len, cell.bitmask)) = FanTriangles(f)
             /\ FanTriangles(GenCb(cell.len, cell.bitmask)) = FanTriangles(f)
             /\ \A t \in FanTriangles(f) : Doubled(t) > 0
             /\ Area(f) = 8 * cell.len * cell.len
<1> DEFINE f == RenderCb(cell.len, cell.bitmask)
<1>1. cell.len \in Nat /\ cell.len > 0 /\ cell.bitmask \in SUBSET Sides
  <2>1. cell # NoCell /\ cell.kind # "undefined"
    BY DEF NoCell
  <2>2. cell.len \in Lens /\ cell.bitmask \in SUBSET Sides
    BY <2>1 DEF CellOK
  <2>3. cell.len \in Nat \ {0}
    BY <2>2 DEF BlocksAssumption
  <2> QED BY <2>2, <2>3
<1>2. Turned(f, <<-cell.len, -cell.len>>, 8 * cell.len * cell.len) /\ Len(f) <= 10
  BY <1>1, WholeCellDrawn
<1> HIDE DEF f
<1>3. /\ f \in Seq(Vertices) /\ Len(f) >= 2
      /\ \A t \in FanTriangles(f) : Doubled(t) > 0
      /\ Area(f) = 8 * cell.len * cell.len
  BY <1>2 DEF Turned
<1>4. VaRenderCb(cell.len, cell.bitmask) = f
  BY <1>2, <1>3, WholeFan DEF VaRenderCb, f
<1>5. GenCb(cell.len, cell.bitmask) = f
  BY DEF GenCb, f
<1>6. RaypickCb(f) = FanTriangles(f)
  BY <1>3, RaypickIs
<1> QED BY <1>3, <1>4, <1>5, <1>6 DEF f

LEMMA CallsAreOK ==
  ASSUME BlocksAssumption, CellOK, BlocksNext
  PROVE  CellOK'
<1>1. ASSUME NEW len \in Lens, NEW bitmask \in SUBSET Sides, FullCell(len, bitmask)
      PROVE  CellOK'
  BY <1>1 DEF FullCell, CellOK
<1>2. ASSUME NEW len \in Lens, NEW n \in FanLengths, NEW m \in FanLengths, NEW s \in Offsets,
             UndefinedCell(len, n, m, s)
      PROVE  CellOK'
  <2> DEFINE around == <<<<-1, -1>>, <<0, -1>>, <<1, -1>>, <<1, 0>>,
                         <<1, 1>>, <<0, 1>>, <<-1, 1>>, <<-1, 0>>>>
             rest(k) == [i \in 1..(k - 1) |-> around[((i + k) % 8) + 1]]
             fan(k, c) == <<c>> \o rest(k)
             fans == <<fan(n, s), fan(m, <<0, 0>>)>>
  <2>1. cell' = [kind |-> "undefined", len |-> len, fans |-> fans]
    BY <1>2 DEF UndefinedCell
  <2>2. \A i \in 1..8 : around[i] \in Vertices
    BY DEF Vertices
  <2>3. ASSUME NEW k \in 1..10, NEW c \in Vertices
        PROVE  fan(k, c) \in Seq(Vertices) /\ Len(fan(k, c)) \in 1..10
    <3>1. \A i \in 1..(k - 1) : ((i + k) % 8) + 1 \in 1..8
      OBVIOUS
    <3> HIDE DEF around
    <3>2. k - 1 \in Nat /\ \A i \in 1..(k - 1) : around[((i + k) % 8) + 1] \in Vertices
      BY <2>2, <3>1
    <3>3. rest(k) \in Seq(Vertices) /\ Len(rest(k)) = k - 1
      BY <3>2
    <3> HIDE DEF rest
    <3>4. fan(k, c) \in Seq(Vertices) /\ Len(fan(k, c)) = 1 + (k - 1)
      BY <3>3
    <3> HIDE DEF fan
    <3> QED BY <3>4
  <2>4. n \in 1..10 /\ m \in 1..10 /\ s \in Vertices /\ <<0, 0>> \in Vertices
    BY DEF BlocksAssumption, Offsets, Vertices
  <2>5. TwoFans(fans)
    <3> DEFINE a == fan(n, s)
               b == fan(m, <<0, 0>>)
    <3>1. /\ a \in Seq(Vertices) /\ Len(a) \in 1..10
          /\ b \in Seq(Vertices) /\ Len(b) \in 1..10
      <4> HIDE DEF fan
      <4> QED BY <2>3, <2>4
    <3>2. fans = <<a, b>>
      OBVIOUS
    <3> HIDE DEF a, b, fan, fans
    <3>3. DOMAIN fans = {1, 2} /\ Len(fans) = 2 /\ fans[1] = a /\ fans[2] = b
      BY <3>2
    <3> QED BY <3>1, <3>3 DEF TwoFans
  <2> HIDE DEF fans
  <2> QED BY <2>1, <2>5 DEF CellOK
<1>3. cell' = NoCell => CellOK'
  BY DEF CellOK
<1> QED BY <1>1, <1>2, <1>3 DEF BlocksNext

(* Whatever cells the library calls back for, rays are tested against what  *)
(* is drawn, and a whole cell is covered once.                              *)
THEOREM PickedIsDrawn == BlocksAssumption => (BlocksSpec => []PicksWhatIsDrawn)
<1> SUFFICES ASSUME BlocksAssumption PROVE BlocksSpec => []PicksWhatIsDrawn
  OBVIOUS
<1>1. BlocksInit => CellOK
  BY DEF BlocksInit, CellOK
<1>2. CellOK /\ [BlocksNext]_cell => CellOK'
  <2>1. CellOK /\ UNCHANGED cell => CellOK'
    BY DEF CellOK
  <2> QED BY <2>1, CallsAreOK
<1>3. CellOK => PicksWhatIsDrawn
  BY FullPicked, UndefinedPicked DEF PicksWhatIsDrawn
<1> QED BY <1>1, <1>2, <1>3, PTL DEF BlocksSpec
-----------------------------------------------------------------------------
(* SmScenery: the colours of elevations                                     *)

ColorsSpec == ColorsInit /\ [][ColorsNext]_ask

(* Which is the first of the elevations that is not below e.                *)
NotBelow(s, e) == SelectInSeq(s, LAMBDA v : e <= v)
FirstNotBelow(s, e, i) ==
  \/ i = 0 /\ \A j \in 1..Len(s) : s[j] < e
  \/ i \in 1..Len(s) /\ e <= s[i] /\ \A j \in 1..(i - 1) : s[j] < e

LEMMA NotBelowIs ==
  ASSUME NEW s \in Seq(Int), NEW e \in Int
  PROVE  FirstNotBelow(s, e, NotBelow(s, e))
<1> DEFINE n == Len(s)
           I == {j \in 1..n : e <= s[j]}
<1>1. NotBelow(s, e) = IF I # {} THEN Min(I) ELSE 0
  BY DEF NotBelow, SelectInSeq
<1>2. n \in Nat /\ \A j \in 1..n : s[j] \in Int
  OBVIOUS
<1> HIDE DEF n
<1>3. CASE I = {}
  <2>1. \A j \in 1..n : ~(e <= s[j])
    BY <1>3
  <2>2. \A j \in 1..n : s[j] < e
    BY <1>2, <2>1
  <2> QED BY <1>1, <1>3, <2>2 DEF FirstNotBelow, n
<1>4. CASE I # {}
  <2> DEFINE m == Min(I)
  <2>1. m \in I /\ \A y \in I : m <= y
    <3>1. I \in SUBSET (1..n)
      OBVIOUS
    <3> HIDE DEF I
    <3> QED BY <1>2, <1>4, <3>1, LeastOf
  <2>2. NotBelow(s, e) = m
    BY <1>1, <1>4
  <2> HIDE DEF m
  <2>3. m \in 1..n /\ e <= s[m]
    BY <2>1
  <2>4. ASSUME NEW j \in 1..(m - 1) PROVE s[j] < e
    <3>1. j \in 1..n /\ ~(m <= j)
      BY <1>2, <2>3
    <3>2. ~(e <= s[j])
      BY <2>1, <3>1
    <3> QED BY <1>2, <3>1, <3>2
  <2> QED BY <2>2, <2>3, <2>4 DEF FirstNotBelow, n
<1> QED BY <1>3, <1>4

LEMMA Ordered ==
  ASSUME NEW p \in Seq(Int), Increasing(p), NEW j \in 1..Len(p), NEW i \in 1..j
  PROVE  p[i] <= p[j] /\ (i < j => p[i] < p[j])
<1>1. Len(p) \in Nat /\ \A k \in 1..Len(p) : p[k] \in Int
  OBVIOUS
<1> DEFINE T == {k \in 0..j : k >= i => p[i] <= p[k] /\ (i < k => p[i] < p[k])}
<1>2. 0 \in T
  BY <1>1
<1>3. ASSUME NEW k \in 1..j, k - 1 \in T PROVE k \in T
  <2>1. CASE k < i
    BY <2>1
  <2>2. CASE k = i
    <3>1. k \in 1..Len(p) /\ p[k] \in Int
      BY <1>1
    <3> QED BY <2>2, <3>1
  <2>3. CASE k > i
    <3>1. /\ k - 1 \in 1..(Len(p) - 1) /\ k - 1 >= i /\ (k - 1) + 1 = k
          /\ k \in 1..Len(p) /\ i \in 1..Len(p) /\ k - 1 \in 1..Len(p)
      BY <1>1, <2>3
    <3>2. p[k - 1] < p[(k - 1) + 1]
      BY <3>1 DEF Increasing
    <3>3. p[k - 1] < p[k]
      BY <3>1, <3>2
    <3>4. p[i] <= p[k - 1]
      BY <1>3, <3>1
    <3>5. p[i] \in Int /\ p[k] \in Int /\ p[k - 1] \in Int
      BY <1>1, <3>1
    <3>6. p[i] < p[k] /\ p[i] <= p[k]
      BY <3>3, <3>4, <3>5
    <3> QED BY <3>6
  <2> QED BY <2>1, <2>2, <2>3
<1> HIDE DEF T
<1>4. j \in Nat
  BY <1>1
<1>5. 0..j \subseteq T
  BY <1>2, <1>3, <1>4, UpTo
<1>6. j \in T
  BY <1>4, <1>5
<1> QED BY <1>6 DEF T

(* What may be asked for.                                                   *)
GradientAsked(asked, n, rel, e, p, c) ==
  LET g == [relative |-> rel, param |-> p, color |-> c]
  IN  /\ n \in Nat /\ e \in Bottom..Top /\ rel \in BOOLEAN
      /\ p \in [1..n -> Int] /\ c \in [1..(2 * n - 2) -> Colors]
      /\ Increasing(p) /\ IsSet(g)
      /\ asked = [gradient |-> g, elev |-> e, fields |-> EvaluateColors(g)]
FieldsAsked(asked, t, n, m, e, el, c) ==
  /\ n \in 0..2 /\ m \in 1..3 /\ e \in Bottom..Top
  /\ el \in [1..n -> Int] /\ c \in [1..m -> Colors] /\ Increasing(el)
  /\ asked = [gradient |-> NoGradient, elev |-> e,
              fields |-> [texturing |-> t, map |-> c, elevation |-> el]]
AskOK == \/ ask = Nothing
         \/ \E n, rel, e, p, c : GradientAsked(ask, n, rel, e, p, c)
         \/ \E t, n, m, e, el, c : FieldsAsked(ask, t, n, m, e, el, c)

(* Each part of a gradient has its two colours.                             *)
LEMMA GradientInterpolated ==
  ASSUME ColorsAssumption, NEW n, NEW rel, NEW e, NEW p, NEW c, GradientAsked(ask, n, rel, e, p, c)
  PROVE  ColorTextureCB(ask.fields, ask.elev) = GradientColor(ask.gradient, ask.elev)
<1> DEFINE g == [relative |-> rel, param |-> p, color |-> c]
           f == EvaluateColors(g)
           low == IF rel THEN Bottom ELSE 0
           N == 2 * n - 2
           s == [i \in 1..N |-> low + p[i \div 2 + 1]]
           i == NotBelow(s, e)
<1>1. /\ n \in Nat /\ e \in Bottom..Top /\ rel \in BOOLEAN
      /\ p \in [1..n -> Int] /\ c \in [1..N -> Colors] /\ Increasing(p) /\ IsSet(g)
      /\ ask.gradient = g /\ ask.elev = e /\ ask.fields = f
  BY DEF GradientAsked
<1>2. Bottom \in Int /\ Top \in Int /\ Bottom < Top /\ e \in Int /\ low \in Int
  BY <1>1 DEF ColorsAssumption
<1>3. p \in Seq(Int) /\ Len(p) = n
  BY <1>1
<1>4. n >= 2 /\ N \in Nat /\ N >= 2
  <2>1. Len(p) >= 2
    BY <1>1 DEF IsSet
  <2> QED BY <1>1, <1>3, <2>1
<1>5. DOMAIN c = 1..N /\ Len(c) = N /\ g.color = c /\ g.param = p /\ g.relative = rel
  <2>1. DOMAIN c = 1..N
    BY <1>1
  <2>2. c \in Seq(Colors)
    BY <1>1, <1>4
  <2> HIDE DEF N
  <2>3. Len(c) = N
    BY <1>4, <2>1, <2>2
  <2> QED BY <2>1, <2>3
<1> HIDE DEF low, N
<1>6. f = [texturing |-> "INTERPOLATED", map |-> c, elevation |-> s]
  BY <1>5 DEF EvaluateColors, low
<1>7. \A k \in 1..N : k \div 2 + 1 \in 1..n
  BY <1>1, <1>4 DEF N
<1> DEFINE at(k) == ParamAt(g, k)
<1>8. \A k \in 1..n : at(k) = low + p[k] /\ at(k) \in Int
  <2> TAKE k \in 1..n
  <2>1. p[k] \in Int
    BY <1>1
  <2> QED BY <1>2, <2>1 DEF ParamAt, low
<1> HIDE DEF g, at
<1>14. s \in Seq(Int) /\ Len(s) = N /\ \A k \in 1..N : s[k] = at(k \div 2 + 1)
  <2>1. \A k \in 1..N : low + p[k \div 2 + 1] \in Int /\ low + p[k \div 2 + 1] = at(k \div 2 + 1)
    BY <1>7, <1>8
  <2> QED BY <1>4, <2>1
<1>9. ColorTextureCB(f, e) =
        IF i = 1 THEN <<c[1], 1>>
        ELSE IF i = 0 THEN <<c[N], 1>>
        ELSE Mix(c[i - 1], c[i], e - s[i - 1], s[i] - s[i - 1])
  <2>1. f.texturing = "INTERPOLATED" /\ f.map = c /\ f.elevation = s /\ Top # Bottom
    BY <1>2, <1>6
  <2>2. ColorTextureCB(f, e) = Interpolated(f, e)
    BY <2>1 DEF ColorTextureCB
  <2> HIDE DEF s, f
  <2>3. Len(f.elevation) = N /\ N # 0 /\ Len(f.map) = N
    BY <1>4, <1>5, <1>14, <2>1
  <2>4. SelectInSeq(f.elevation, LAMBDA v : e <= v) = i
    BY <2>1 DEF NotBelow, SelectInSeq
  <2> HIDE DEF i
  <2> QED BY <2>1, <2>2, <2>3, <2>4 DEF Interpolated
<1> HIDE DEF f
<1>10. FirstNotBelow(s, e, i)
  <2> HIDE DEF s
  <2> QED BY <1>2, <1>14, NotBelowIs
<1> HIDE DEF s, i
<1>12. ASSUME NEW k \in 1..n, NEW j \in 1..k
       PROVE  at(j) <= at(k) /\ (j < k => at(j) < at(k))
  <2>1. p[j] <= p[k] /\ (j < k => p[j] < p[k])
    BY <1>1, <1>3, Ordered
  <2>2. p[j] \in Int /\ p[k] \in Int /\ j \in 1..n
    BY <1>1
  <2> QED BY <1>2, <1>8, <2>1, <2>2
<1>13. GradientColor(g, e) =
         IF e <= at(1) THEN <<c[1], 1>>
         ELSE IF e > at(n) THEN <<c[N], 1>>
         ELSE Mix(c[2 * PartOf(g, e) - 1], c[2 * PartOf(g, e)],
                  e - at(PartOf(g, e)), at(PartOf(g, e) + 1) - at(PartOf(g, e)))
  BY <1>3, <1>5 DEF GradientColor, at
<1>15. /\ 1 \div 2 + 1 = 1 /\ N \div 2 + 1 = n /\ 1 \in 1..N /\ N \in 1..N
       /\ 1 \in 1..n /\ n \in 1..n
  BY <1>1, <1>4 DEF N
<1>16. s[1] = at(1) /\ s[N] = at(n) /\ at(1) \in Int /\ at(n) \in Int
  BY <1>8, <1>14, <1>15
<1>17. CASE e <= at(1)
  <2>1. i = 1
    <3>1. ~(s[1] < e)
      BY <1>2, <1>16, <1>17
    <3>2. i # 0
      BY <1>10, <1>14, <1>15, <3>1 DEF FirstNotBelow
    <3>3. i \in 1..N /\ \A j \in 1..(i - 1) : s[j] < e
      BY <1>10, <1>14, <3>2 DEF FirstNotBelow
    <3>4. ~(1 \in 1..(i - 1))
      BY <3>1, <3>3
    <3> QED BY <1>4, <3>3, <3>4
  <2> QED BY <1>1, <1>9, <1>13, <1>17, <2>1
<1>18. CASE e > at(n)
  <2>1. \A k \in 1..N : s[k] < e
    <3> TAKE k \in 1..N
    <3>1. k \div 2 + 1 \in 1..n /\ s[k] = at(k \div 2 + 1)
      BY <1>7, <1>14
    <3> DEFINE m == k \div 2 + 1
    <3>2. m \in 1..n /\ n \in Nat /\ s[k] = at(m)
      BY <1>1, <3>1
    <3> HIDE DEF m
    <3>3. at(m) <= at(n) /\ at(m) \in Int
      BY <1>8, <1>12, <1>15, <3>2
    <3> QED BY <1>2, <1>16, <1>18, <3>2, <3>3
  <2>2. \A k \in 1..N : ~(e <= s[k])
    <3>1. \A k \in 1..N : s[k] \in Int
      BY <1>14
    <3> QED BY <1>2, <2>1, <3>1
  <2>3. i = 0
    BY <1>10, <1>14, <2>2 DEF FirstNotBelow
  <2>4. ~(e <= at(1))
    BY <1>15, <1>16, <2>2
  <2> QED BY <1>1, <1>9, <1>13, <1>18, <2>3, <2>4
<1>19. CASE ~(e <= at(1)) /\ ~(e > at(n))
  <2> DEFINE k == PartOf(g, e)
             Spans(j) == at(j) < e /\ e <= at(j + 1)
  <2>1. k \in 1..(n - 1) /\ Spans(k)
    <3>1. \E j \in 1..(n - 1) : Spans(j)
      <4> DEFINE J == {j \in 1..n : e <= at(j)}
      <4>1. J \in SUBSET (1..n) /\ n \in J
        BY <1>2, <1>15, <1>16, <1>19
      <4> DEFINE m == Min(J)
      <4>2. m \in J /\ \A y \in J : m <= y
        <5> HIDE DEF J
        <5> QED BY <1>1, <4>1, LeastOf
      <4> HIDE DEF m
      <4>3. m \in 1..n /\ e <= at(m)
        BY <4>2
      <4>4. m # 1
        BY <1>19, <4>3
      <4>5. m - 1 \in 1..(n - 1) /\ m - 1 \in 1..n /\ (m - 1) + 1 = m /\ ~(m <= m - 1)
        BY <1>1, <4>3, <4>4
      <4>6. ~(e <= at(m - 1)) /\ at(m - 1) \in Int
        BY <1>8, <4>2, <4>5
      <4>7. at(m - 1) < e
        BY <1>2, <4>6
      <4> QED BY <4>3, <4>5, <4>7
    <3>2. k = CHOOSE j \in 1..(n - 1) : Spans(j)
      BY <1>3, <1>5 DEF PartOf, at
    <3> HIDE DEF k, Spans
    <3> QED BY <3>1, <3>2
  <2> HIDE DEF k
  <2>2. /\ k \in 1..n /\ k + 1 \in 1..n /\ 2 * k \in 1..N /\ 2 * k - 1 \in 1..N
        /\ (2 * k) \div 2 + 1 = k + 1 /\ (2 * k - 1) \div 2 + 1 = k
    BY <1>1, <1>4, <2>1 DEF N
  <2>3. s[2 * k] = at(k + 1) /\ s[2 * k - 1] = at(k)
    BY <1>14, <2>2
  <2>4. i = 2 * k
    <3>1. i # 0
      <4>1. ~(s[2 * k] < e)
        BY <1>2, <1>8, <2>1, <2>2, <2>3
      <4> QED BY <1>10, <1>14, <2>2, <4>1 DEF FirstNotBelow
    <3>2. i \in 1..N /\ e <= s[i] /\ \A j \in 1..(i - 1) : s[j] < e
      BY <1>10, <1>14, <3>1 DEF FirstNotBelow
    <3>3. ~(2 * k < i)
      <4>1. 2 * k < i => 2 * k \in 1..(i - 1)
        BY <1>4, <2>2, <3>2
      <4>2. ~(s[2 * k] < e)
        BY <1>2, <1>8, <2>1, <2>2, <2>3
      <4> QED BY <3>2, <4>1, <4>2
    <3>4. ~(i < 2 * k)
      <4> SUFFICES ASSUME i < 2 * k PROVE FALSE
        OBVIOUS
      <4> DEFINE m == i \div 2 + 1
      <4>1. m \in 1..k
        BY <1>4, <2>1, <2>2, <3>2
      <4>2. s[i] = at(m)
        BY <1>14, <3>2
      <4> HIDE DEF m
      <4>3. at(m) <= at(k) /\ m \in 1..n
        BY <1>1, <1>12, <2>2, <4>1
      <4>4. at(m) \in Int /\ at(k) \in Int
        BY <1>8, <2>2, <4>3
      <4> QED BY <1>2, <2>1, <3>2, <4>2, <4>3, <4>4
    <3> QED BY <1>4, <2>2, <3>2, <3>3, <3>4
  <2>5. i # 0 /\ i # 1
    BY <1>1, <2>1, <2>4
  <2>6. ColorTextureCB(f, e) = Mix(c[2 * k - 1], c[2 * k], e - at(k), at(k + 1) - at(k))
    BY <1>9, <2>3, <2>4, <2>5
  <2> QED BY <1>1, <1>13, <1>19, <2>6 DEF k
<1> QED BY <1>17, <1>18, <1>19

(* Whole numbers, divided.                                                  *)
LEMMA Divided ==
  ASSUME NEW a \in Int, NEW b \in Nat, b > 0
  PROVE  /\ a \div b \in Int
         /\ b * (a \div b) <= a /\ a < b * (a \div b) + b
<1>1. a \div b \in Int /\ a % b \in 0..(b - 1) /\ a = b * (a \div b) + (a % b)
  BY SMT
<1> DEFINE d == b * (a \div b)
<1>2. d \in Int
  BY <1>1
<1> HIDE DEF d
<1>3. a = d + (a % b)
  BY <1>1 DEF d
<1>4. d <= a /\ a < d + b
  BY <1>1, <1>2, <1>3
<1> QED BY <1>1, <1>4 DEF d

Colour(x, S, m) == (x * 100000 * m) \div (S * 100001)
SpreadTo(q, x, S, m) == q + 1 \in 1..m /\ q * S <= m * x /\ m * x <= (q + 1) * S

(* The discrete colour of an elevation without others to compare with: x of *)
(* S above the bottom, with m colours.                                      *)
LEMMA SpreadEvenly ==
  ASSUME NEW S \in Nat, S > 0, 3 * S <= 100000, NEW x \in 0..S, NEW m \in 1..3
  PROVE  SpreadTo(Colour(x, S, m), x, S, m)
<1> DEFINE Y == m * x
           D == S * 100001
           q == (x * 100000 * m) \div D
           Z == q * S
<1>1. Y \in Nat /\ x * 100000 * m = 100000 * Y /\ D \in Nat /\ D > 0 /\ Y <= m * S /\ m * S <= 3 * S
  <2>1. x \in Nat /\ (m = 1 \/ m = 2 \/ m = 3)
    OBVIOUS
  <2>2. CASE m = 1
    BY <2>1, <2>2
  <2>3. CASE m = 2
    BY <2>1, <2>3
  <2>4. CASE m = 3
    BY <2>1, <2>4
  <2> QED BY <2>1, <2>2, <2>3, <2>4
<1>2. q \in Int /\ D * q <= 100000 * Y /\ 100000 * Y < D * q + D
  <2> DEFINE a == 100000 * Y
  <2>1. a \in Int /\ q = a \div D
    BY <1>1
  <2> HIDE DEF a, q, D, Y
  <2>2. a \div D \in Int /\ D * (a \div D) <= a /\ a < D * (a \div D) + D
    BY <1>1, <2>1, Divided
  <2> QED BY <2>1, <2>2 DEF a
<1> HIDE DEF q
<1>3. D * q = 100001 * Z /\ Z \in Int
  BY <1>2
<1>4. (q + 1) * S = Z + S
  BY <1>2
<1>5. m * S \in Int
  OBVIOUS
<1> HIDE DEF Y, Z
<1>6. 100001 * Z <= 100000 * Y /\ 100000 * Y < 100001 * Z + 100001 * S
  BY <1>2, <1>3
<1>7. Z <= Y
  BY <1>1, <1>3, <1>6
<1>8. q >= 0
  <2>1. q < 0 => Z + S <= 0
    <3> SUFFICES ASSUME q < 0 PROVE Z + S <= 0
      OBVIOUS
    <3>1. -(q + 1) \in Nat
      BY <1>2
    <3>2. (-(q + 1)) * S \in Nat
      BY <3>1
    <3>3. (-(q + 1)) * S = -(Z + S)
      BY <1>2 DEF Z
    <3> QED BY <1>3, <3>2, <3>3
  <2>2. ~(Z + S <= 0)
    BY <1>1, <1>3, <1>6
  <2> QED BY <1>2, <2>1, <2>2
<1>9. q < m
  <2>1. ~(q < m) => Z >= m * S
    <3> SUFFICES ASSUME ~(q < m) PROVE Z >= m * S
      OBVIOUS
    <3>1. q - m \in Nat
      BY <1>2
    <3>2. (q - m) * S \in Nat
      BY <3>1
    <3>3. (q - m) * S = Z - m * S
      BY <1>2 DEF Z
    <3> QED BY <1>3, <1>5, <3>2, <3>3
  <2>2. m * S > 0
    <3>1. m = 1 \/ m = 2 \/ m = 3
      OBVIOUS
    <3> QED BY <3>1
  <2> DEFINE M == m * S
  <2>3. M \in Int /\ M > 0 /\ (~(q < m) => Z >= M) /\ Y <= M
    BY <1>1, <1>5, <2>1, <2>2
  <2> HIDE DEF M
  <2> QED BY <1>1, <1>2, <1>3, <1>6, <2>3
<1>10. Y <= Z + S
  <2>1. Z + S <= 100000
    <3>1. q + 1 <= m
      BY <1>2, <1>9
    <3>2. m - (q + 1) \in Nat
      BY <1>2, <3>1
    <3>3. (m - (q + 1)) * S \in Nat
      BY <3>2
    <3>4. (m - (q + 1)) * S = m * S - (Z + S)
      BY <1>2 DEF Z
    <3>5. Z + S <= m * S
      BY <1>3, <1>5, <3>3, <3>4
    <3> QED BY <1>1, <1>3, <1>5, <3>5
  <2>2. 100000 * Y < 100000 * (Z + S) + 100000
    BY <1>1, <1>3, <1>6, <2>1
  <2> QED BY <1>1, <1>3, <2>2
<1>11. q + 1 \in 1..m
  BY <1>2, <1>8, <1>9
<1>12. q = (x * 100000 * m) \div (S * 100001)
  BY DEF q
<1> HIDE DEF D
<1> QED BY <1>4, <1>7, <1>10, <1>11, <1>12 DEF Colour, SpreadTo, Y, Z

(* The elevations below e, counted.                                         *)
LEMMA FirstOnes ==
  ASSUME NEW s \in Seq(Int), Increasing(s), NEW n \in 0..Len(s)
  PROVE  Cardinality({s[j] : j \in 1..n}) = n
<1> DEFINE V(k) == {s[j] : j \in 1..k}
           T == {k \in 0..n : IsFiniteSet(V(k)) /\ Cardinality(V(k)) = k}
<1>1. 0 \in T
  <2>1. V(0) = {}
    <3>1. \A j : j \notin 1..0
      BY SMT
    <3> QED BY <3>1
  <2>2. 0 \in 0..n
    OBVIOUS
  <2> HIDE DEF V
  <2>3. IsFiniteSet(V(0)) /\ Cardinality(V(0)) = 0
    BY <2>1, FS_EmptySet
  <2> QED BY <2>2, <2>3
<1>2. ASSUME NEW k \in 1..n, k - 1 \in T PROVE k \in T
  <2>1. V(k) = V(k - 1) \cup {s[k]}
    <3>1. \A j : j \in 1..k <=> j \in 1..(k - 1) \/ j = k
      BY SMT
    <3> QED BY <3>1, Zenon
  <2>2. s[k] \notin V(k - 1)
    <3> SUFFICES ASSUME NEW j \in 1..(k - 1), s[j] = s[k] PROVE FALSE
      OBVIOUS
    <3>1. k \in 1..Len(s) /\ j \in 1..k /\ j < k
      OBVIOUS
    <3>2. s[j] < s[k]
      BY <3>1, Ordered
    <3>3. s[k] \in Int
      BY <3>1
    <3> QED BY <3>2, <3>3
  <2>3. IsFiniteSet(V(k - 1)) /\ Cardinality(V(k - 1)) = k - 1
    BY <1>2
  <2> HIDE DEF V
  <2>4. /\ IsFiniteSet(V(k - 1) \cup {s[k]})
        /\ Cardinality(V(k - 1) \cup {s[k]}) = Cardinality(V(k - 1)) + 1
    BY <2>2, <2>3, FS_AddElement
  <2>5. (k - 1) + 1 = k /\ k \in 0..n
    OBVIOUS
  <2>6. IsFiniteSet(V(k)) /\ Cardinality(V(k)) = k
    BY <2>1, <2>3, <2>4, <2>5
  <2> QED BY <2>5, <2>6
<1>3. n \in Nat
  OBVIOUS
<1> HIDE DEF T
<1>4. 0..n \subseteq T
  BY <1>1, <1>2, <1>3, UpTo
<1>5. n \in T
  BY <1>3, <1>4
<1> QED BY <1>5 DEF T, V

LEMMA BelowCounted ==
  ASSUME NEW s \in Seq(Int), Increasing(s), NEW e \in Int
  PROVE  LET i == NotBelow(s, e)
             below == Cardinality({v \in ToSet(s) : v < e})
         IN  1 + below = IF i = 0 THEN Len(s) + 1 ELSE i
<1> DEFINE i == NotBelow(s, e)
           n == Len(s)
           k == IF i = 0 THEN n ELSE i - 1
<1>1. FirstNotBelow(s, e, i)
  BY NotBelowIs
<1> HIDE DEF i
<1>2. n \in Nat /\ \A j \in 1..n : s[j] \in Int
  OBVIOUS
<1>3. k \in 0..n /\ \A j \in 1..k : j \in 1..n /\ s[j] < e
  <2>1. CASE i = 0
    <3>1. ~(i \in 1..n)
      BY <2>1
    <3>2. \A j \in 1..n : s[j] < e
      BY <1>1, <3>1 DEF FirstNotBelow
    <3> QED BY <1>2, <2>1, <3>2
  <2>2. CASE i # 0
    <3>1. i \in 1..n /\ \A j \in 1..(i - 1) : s[j] < e
      BY <1>1, <2>2 DEF FirstNotBelow
    <3> QED BY <1>2, <2>2, <3>1
  <2> QED BY <2>1, <2>2
<1>4. ASSUME NEW j \in 1..n, s[j] < e
      PROVE  j \in 1..k
  <2>1. CASE i = 0
    BY <2>1
  <2>2. CASE i # 0
    <3>1. i \in 1..n /\ e <= s[i]
      BY <1>1, <2>2 DEF FirstNotBelow
    <3>2. j < i
      <4> SUFFICES ASSUME ~(j < i) PROVE FALSE
        OBVIOUS
      <4>1. i \in 1..j
        BY <1>2, <3>1
      <4>2. s[i] <= s[j]
        BY <4>1, Ordered
      <4>3. s[i] \in Int /\ s[j] \in Int
        BY <1>2, <3>1
      <4> QED BY <1>4, <3>1, <4>2, <4>3
    <3> QED BY <1>2, <2>2, <3>1, <3>2
  <2> QED BY <2>1, <2>2
<1> HIDE DEF k
<1>5. {v \in ToSet(s) : v < e} = {s[j] : j \in 1..k}
  <2>1. ToSet(s) = {s[j] : j \in 1..n}
    BY DEF ToSet
  <2> QED BY <1>3, <1>4, <2>1
<1>6. Cardinality({v \in ToSet(s) : v < e}) = k
  BY <1>3, <1>5, FirstOnes
<1>7. 1 + k = IF i = 0 THEN n + 1 ELSE i
  <2>1. i = 0 \/ i \in 1..n
    BY <1>1 DEF FirstNotBelow
  <2> QED BY <1>2, <2>1 DEF k
<1> QED BY <1>6, <1>7 DEF i

LEMMA FieldsSpread ==
  ASSUME ColorsAssumption, NEW t, NEW n, NEW m, NEW e, NEW el, NEW c,
         FieldsAsked(ask, t, n, m, e, el, c)
  PROVE  EvenlySpread
<1> DEFINE f == [texturing |-> t, map |-> c, elevation |-> el]
           S == Top - Bottom
           x == e - Bottom
<1>1. /\ n \in 0..2 /\ m \in 1..3 /\ e \in Bottom..Top
      /\ el \in [1..n -> Int] /\ c \in [1..m -> Colors] /\ Increasing(el)
      /\ ask.elev = e /\ ask.fields = f
  BY DEF FieldsAsked
<1>2. /\ Bottom \in Int /\ Top \in Int /\ Bottom < Top /\ e \in Int
      /\ S \in Nat /\ S > 0 /\ 3 * S <= 100000 /\ x \in 0..S
  BY <1>1 DEF ColorsAssumption
<1>3. el \in Seq(Int) /\ Len(el) = n
  BY <1>1
<1>4. Len(c) = m
  BY <1>1
<1>5. f.texturing = t /\ f.map = c /\ f.elevation = el
  OBVIOUS
<1> HIDE DEF f, S, x
<1>6. t = "DISCRETE" => ColorTextureCB(f, e) = Discrete(f, e)
  <2>1. "DISCRETE" # "DISABLED" /\ "DISCRETE" # "INTERPOLATED" /\ Top # Bottom
    BY <1>2
  <2> QED BY <1>5, <2>1 DEF ColorTextureCB
<1>7. ASSUME t = "DISCRETE", el = << >>
      PROVE  \E k \in 1..m :
               /\ ColorTextureCB(f, e)[1] = c[k]
               /\ (k - 1) * S <= m * x /\ m * x <= k * S
  <2> DEFINE q == Colour(x, S, m)
  <2>1. q + 1 \in 1..m /\ q * S <= m * x /\ m * x <= (q + 1) * S
    <3>1. SpreadTo(q, x, S, m)
      BY <1>1, <1>2, SpreadEvenly
    <3> HIDE DEF q
    <3> QED BY <3>1 DEF SpreadTo
  <2>2. Len(f.elevation) = 0
    BY <1>5, <1>7
  <2>3. Discrete(f, e) = <<c[q + 1], 1>>
    <3>1. Discrete(f, e) =
            <<f.map[((e - Bottom) * 100000 * Len(f.map)) \div ((Top - Bottom) * 100001) + 1], 1>>
      BY <2>2 DEF Discrete
    <3> QED BY <1>4, <1>5, <3>1 DEF Colour, x, S
  <2>4. (q + 1) - 1 = q
    <3> DEFINE k == q + 1
    <3>1. q \in Int
      <4>1. x * 100000 * m \in Int /\ S * 100001 \in Nat /\ S * 100001 > 0
        BY <1>1, <1>2
      <4>2. (x * 100000 * m) \div (S * 100001) \in Int
        BY <4>1, Divided
      <4> QED BY <4>2 DEF Colour
    <3> HIDE DEF q
    <3> QED BY <3>1
  <2> HIDE DEF q
  <2>5. ColorTextureCB(f, e)[1] = c[q + 1]
    BY <1>6, <1>7, <2>3
  <2> QED BY <2>1, <2>4, <2>5
<1>8. ASSUME t = "DISCRETE", Len(el) = m - 1, m > 1
      PROVE  ColorTextureCB(f, e)[1] = c[1 + Cardinality({v \in ToSet(el) : v < e})]
  <2> DEFINE i == NotBelow(el, e)
  <2>1. 1 + Cardinality({v \in ToSet(el) : v < e}) = IF i = 0 THEN Len(el) + 1 ELSE i
    BY <1>1, <1>2, <1>3, BelowCounted
  <2>2. Len(el) + 1 = m /\ Len(el) # 0
    BY <1>1, <1>8
  <2>3. SelectInSeq(f.elevation, LAMBDA v : e <= v) = i
    BY <1>5 DEF NotBelow, SelectInSeq
  <2> HIDE DEF i
  <2>4. Discrete(f, e) = <<c[IF i = 0 THEN m ELSE i], 1>>
    BY <1>4, <1>5, <2>2, <2>3 DEF Discrete
  <2>5. ColorTextureCB(f, e)[1] = c[IF i = 0 THEN m ELSE i]
    BY <1>6, <1>8, <2>4
  <2> QED BY <2>1, <2>2, <2>5
<1> QED BY <1>1, <1>4, <1>5, <1>7, <1>8 DEF EvenlySpread, S, x

LEMMA AskedIsOK ==
  ASSUME ColorsAssumption, AskOK, ColorsNext
  PROVE  AskOK'
<1>1. CASE AskGradient
  <2>1. PICK n \in Gradients, rel \in BOOLEAN, e \in Bottom..Top :
          \E p \in [1..n -> Params], c \in [1..(2 * n - 2) -> Colors] :
            LET g == [relative |-> rel, param |-> p, color |-> c]
            IN  /\ Increasing(p) /\ IsSet(g)
                /\ ask' = [gradient |-> g, elev |-> e, fields |-> EvaluateColors(g)]
    BY <1>1 DEF AskGradient
  <2>2. PICK p \in [1..n -> Params], c \in [1..(2 * n - 2) -> Colors] :
          LET g == [relative |-> rel, param |-> p, color |-> c]
          IN  /\ Increasing(p) /\ IsSet(g)
              /\ ask' = [gradient |-> g, elev |-> e, fields |-> EvaluateColors(g)]
    BY <2>1
  <2>3. n \in Nat /\ p \in [1..n -> Int]
    <3>1. Params \subseteq Int /\ n \in Nat
      BY DEF ColorsAssumption
    <3>2. DOMAIN p = 1..n /\ \A k \in 1..n : p[k] \in Params
      OBVIOUS
    <3>3. p = [k \in 1..n |-> p[k]]
      OBVIOUS
    <3> QED BY <3>1, <3>2, <3>3
  <2>4. GradientAsked(ask, n, rel, e, p, c)'
    BY <2>2, <2>3 DEF GradientAsked
  <2> QED BY <2>4 DEF AskOK
<1>2. CASE AskFields
  <2>1. PICK t \in {"INTERPOLATED", "DISCRETE"}, n \in 0..2, m \in 1..3, e \in Bottom..Top :
          \E el \in [1..n -> Params], c \in [1..m -> Colors] :
            /\ Increasing(el)
            /\ ask' = [gradient |-> NoGradient, elev |-> e,
                       fields |-> [texturing |-> t, map |-> c, elevation |-> el]]
    BY <1>2 DEF AskFields
  <2>2. PICK el \in [1..n -> Params], c \in [1..m -> Colors] :
          /\ Increasing(el)
          /\ ask' = [gradient |-> NoGradient, elev |-> e,
                     fields |-> [texturing |-> t, map |-> c, elevation |-> el]]
    BY <2>1
  <2>3. el \in [1..n -> Int]
    <3>1. Params \subseteq Int
      BY DEF ColorsAssumption
    <3>2. DOMAIN el = 1..n /\ \A k \in 1..n : el[k] \in Params
      OBVIOUS
    <3>3. el = [k \in 1..n |-> el[k]]
      OBVIOUS
    <3> QED BY <3>1, <3>2, <3>3
  <2>4. FieldsAsked(ask, t, n, m, e, el, c)'
    BY <2>2, <2>3 DEF FieldsAsked
  <2> QED BY <2>4 DEF AskOK
<1>3. ask' = Nothing => AskOK'
  BY DEF AskOK
<1> QED BY <1>1, <1>2, <1>3 DEF ColorsNext

(* Elevations have the colours of the gradient, or of the fields, whatever  *)
(* these are; that a terrain is no higher than the divisor of colortexture_cb *)
(* can tell apart is ColorsAssumption.                                      *)
THEOREM ColorsAreShown ==
  ColorsAssumption => (ColorsSpec => [](GradientShown /\ EvenlySpread))
<1> SUFFICES ASSUME ColorsAssumption
             PROVE  ColorsSpec => [](GradientShown /\ EvenlySpread)
  OBVIOUS
<1>1. ColorsInit => AskOK
  BY DEF ColorsInit, AskOK
<1>2. AskOK /\ [ColorsNext]_ask => AskOK'
  <2>1. AskOK /\ UNCHANGED ask => AskOK'
    BY DEF AskOK
  <2> QED BY <2>1, AskedIsOK
<1>3. AskOK => GradientShown /\ EvenlySpread
  <2>1. ASSUME ask = Nothing PROVE GradientShown /\ EvenlySpread
    <3>1. ask.gradient = NoGradient /\ ask.fields.texturing = "DISABLED"
      BY <2>1 DEF Nothing
    <3> QED BY <3>1 DEF GradientShown, EvenlySpread
  <2>2. ASSUME NEW n, NEW rel, NEW e, NEW p, NEW c, GradientAsked(ask, n, rel, e, p, c)
        PROVE  GradientShown /\ EvenlySpread
    <3>1. ColorTextureCB(ask.fields, ask.elev) = GradientColor(ask.gradient, ask.elev)
      BY <2>2, GradientInterpolated
    <3>2. GradientShown
      BY <3>1 DEF GradientShown, Mixed
    <3>3. ask.fields.texturing = "INTERPOLATED"
      BY <2>2 DEF GradientAsked, EvaluateColors
    <3>4. EvenlySpread
      BY <3>3 DEF EvenlySpread
    <3> QED BY <3>2, <3>4
  <2>3. ASSUME NEW t, NEW n, NEW m, NEW e, NEW el, NEW c, FieldsAsked(ask, t, n, m, e, el, c)
        PROVE  GradientShown /\ EvenlySpread
    <3>1. ask.gradient = NoGradient
      BY <2>3 DEF FieldsAsked
    <3>2. GradientShown
      BY <3>1 DEF GradientShown
    <3> QED BY <2>3, <3>2, FieldsSpread
  <2> QED BY <2>1, <2>2, <2>3 DEF AskOK
<1> QED BY <1>1, <1>2, <1>3, PTL DEF ColorsSpec

(* What rays are tested against, the colours, the tests of depth and the    *)
(* places of shapes are right, whatever the terrain and the scenes are: the *)
(* parts together, each of which only its own steps change.                 *)
THEOREM NodesAreDrawn ==
  BlocksAssumption /\ ColorsAssumption /\ DepthAssumption /\ UtmAssumption =>
    (BlocksSpec /\ ColorsSpec /\ DepthSpec /\ UTMSpec => []DrawnRight)
<1>1. PicksWhatIsDrawn /\ GradientShown /\ EvenlySpread /\ DepthRight /\ PlacedRelative
        => DrawnRight
  BY DEF DrawnRight
<1> QED BY <1>1, PickedIsDrawn, ColorsAreShown, DepthIsTested, PositionsPlaced, PTL
-----------------------------------------------------------------------------
(* The viewpoints a camera is bound to: for any viewpoints, scene graph,    *)
(* fields and number of poses.                                              *)
USE PosesAssumption, GraphAssumption

(* The stack is as long as the scene graph has viewpoints, and before      *)
(* there is one nothing is bound and no set_bind sensor scheduled.         *)
StackType ==
  /\ nodelist \in Seq(Viewpoints) /\ Len(nodelist) \in {0, Len(Scene)}
  /\ set_bind_sensors \subseteq DOMAIN Scene
  /\ Len(nodelist) = 0 => set_bind_sensors = {} /\ pathtoviewpoint = NoViewpoint

(* Taking a node out of the stack. *)
LEMMA Removed ==
  ASSUME NEW S, NEW s \in Seq(S), NEW k \in 1..Len(s)
  PROVE  RemoveAt(s, k) \in Seq(S) /\ Len(RemoveAt(s, k)) = Len(s) - 1
<1> DEFINE before == SubSeq(s, 1, k - 1)
           after  == SubSeq(s, k + 1, Len(s))
<1>1. before \in Seq(S) /\ Len(before) = k - 1
  OBVIOUS
<1>2. after \in Seq(S) /\ Len(after) = Len(s) - k
  OBVIOUS
<1>3. RemoveAt(s, k) = before \o after
  BY DEF RemoveAt
<1> HIDE DEF before, after
<1>4. before \o after \in Seq(S) /\ Len(before \o after) = Len(before) + Len(after)
  BY <1>1, <1>2, ConcatProperties
<1> QED
  BY <1>1, <1>2, <1>3, <1>4

(* What a callback does to the stack keeps its length and binds its top,   *)
(* or nothing happens to it.                                               *)
LEMMA StackSteps ==
  ASSUME StackType, NEW k \in set_bind_sensors, Bind(k) \/ Unbind(k)
  PROVE  /\ nodelist' \in Seq(Viewpoints) /\ Len(nodelist') = Len(nodelist)
         /\ BindTopOfStack \/ UNCHANGED <<stack, camera, fieldsensors, pathsensor>>
<1> USE DEF StackType
<1>1. Len(nodelist) = Len(Scene) /\ Len(Scene) \in Nat /\ k \in 1..Len(nodelist)
  OBVIOUS
<1> DEFINE node == nodelist[k]
<1>2. node \in Viewpoints
  BY <1>1
<1>3. CASE UNCHANGED <<stack, camera, fieldsensors, pathsensor>>
  BY <1>3 DEF stack
<1>4. CASE nodelist' = <<node>> \o RemoveAt(nodelist, k) /\ BindTopOfStack
  <2> DEFINE rest == RemoveAt(nodelist, k)
  <2>1. rest \in Seq(Viewpoints) /\ Len(rest) = Len(nodelist) - 1
    BY <1>1, Removed
  <2> HIDE DEF rest, node
  <2>2. <<node>> \in Seq(Viewpoints) /\ Len(<<node>>) = 1
    BY <1>2
  <2>3. <<node>> \o rest \in Seq(Viewpoints) /\ Len(<<node>> \o rest) = 1 + Len(rest)
    BY <2>1, <2>2
  <2> QED
    BY <1>1, <1>4, <2>1, <2>3 DEF rest
<1>5. CASE k = 1 /\ nodelist' = Append(Tail(nodelist), node) /\ BindTopOfStack
  <2>1. Tail(nodelist) \in Seq(Viewpoints) /\ Len(Tail(nodelist)) = Len(nodelist) - 1
    BY <1>1
  <2> QED
    BY <1>1, <1>2, <1>5, <2>1
<1> QED
  BY <1>3, <1>4, <1>5 DEF Bind, Unbind

LEMMA StackTyped == Spec => []StackType
<1> USE DEF StackType
<1>1. Init => StackType
  BY DEF Init
<1>2. StackType /\ [Next]_vars => StackType'
  <2> SUFFICES ASSUME StackType, [Next]_vars PROVE StackType'
    OBVIOUS
  <2>1. CASE SetSceneGraph
    BY <2>1 DEF SetSceneGraph, SensorsOf
  <2>2. ASSUME NEW k \in DOMAIN Scene, SetBindCb(k) PROVE StackType'
    <3>1. Bind(k) \/ Unbind(k)
      BY <2>2 DEF SetBindCb
    <3>2. k \in set_bind_sensors /\ set_bind_sensors' = set_bind_sensors \ {k}
      BY <2>2 DEF SetBindCb
    <3>3. nodelist' \in Seq(Viewpoints) /\ Len(nodelist') = Len(nodelist)
      BY <3>1, <3>2, StackSteps
    <3> QED
      BY <3>2, <3>3
  <2>3. ASSUME NEW v \in Viewpoints, NEW on \in BOOLEAN, SetBind(v, on) PROVE StackType'
    BY <2>3 DEF SetBind, SensorsOf, stack
  <2>4. CASE UNCHANGED <<stack, set_bind_sensors>>
    BY <2>4 DEF stack
  <2> QED
    BY <2>1, <2>2, <2>3, <2>4 DEF Next, vars, sensors, Callbacks, MoveViewpoint, MoveCamera, UpdateViewpoint, UpdateCamera
<1> QED
  BY <1>1, <1>2, PTL DEF Spec

(* The top of the stack is what is bound, and what was told so, whatever   *)
(* set_bind events are pending and whichever node their callbacks take.    *)
THEOREM TopStaysBound == Spec => []TopIsBound
<1>1. Init => TopIsBound
  BY DEF Init, TopIsBound
<1>2. StackType /\ StackType' /\ TopIsBound /\ [Next]_vars => TopIsBound'
  <2> SUFFICES ASSUME StackType, StackType', TopIsBound, [Next]_vars PROVE TopIsBound'
    OBVIOUS
  <2>1. CASE SetSceneGraph
    BY <2>1 DEF SetSceneGraph, StackType, TopIsBound
  <2>2. CASE UNCHANGED stack
    BY <2>2 DEF stack, TopIsBound
  <2>3. ASSUME NEW k \in DOMAIN Scene, SetBindCb(k) PROVE TopIsBound'
    <3>1. k \in set_bind_sensors /\ (Bind(k) \/ Unbind(k))
      BY <2>3 DEF SetBindCb
    <3>2. CASE BindTopOfStack
      BY <3>2 DEF BindTopOfStack, SetViewpoint, TopIsBound
    <3> QED
      BY <2>2, <3>1, <3>2, StackSteps
  <2> QED
    BY <2>1, <2>2, <2>3 DEF Next, vars, Callbacks, SetBind, MoveViewpoint, MoveCamera, UpdateViewpoint, UpdateCamera
<1> QED
  BY <1>1, <1>2, StackTyped, PTL DEF Spec
-----------------------------------------------------------------------------
(* Poses wrap around, and the inverse of gmaction is one. *)
LEMMA PoseInverse ==
  ASSUME NEW c \in Pose, NEW m \in Pose
  PROVE  (c - m) % Poses \in Pose /\ (((c - m) % Poses) + m) % Poses = c
BY DEF Pose

LEMMA PoseSum ==
  ASSUME NEW c \in Pose, NEW m \in Pose PROVE (c + m) % Poses \in Pose
BY DEF Pose

(* The stack's part of the types is StackType. *)
PoseType ==
  /\ viewpoint \in [Viewpoints -> Pose] /\ matrix \in [Viewpoints -> Pose]
  /\ camera \in Pose
  /\ pathtoviewpoint \in Viewpoints \cup {NoViewpoint}
  /\ pathtoviewpoint = NoViewpoint => ~pathsensor

SyncInv == PoseType /\ InSync

(* The camera at the bound viewpoint. *)
LEMMA AtViewpoint ==
  ASSUME PoseType, NEW v \in Viewpoints
  PROVE  World(v) \in Pose /\ Local(v) \in Pose
BY PoseInverse, PoseSum DEF World, Local, PoseType

(* Copies of the camera to the viewpoint and of the viewpoint to the       *)
(* camera unschedule one another, but never a change not yet copied.       *)
THEOREM CameraInSync == Spec => []InSync
<1>1. Init => SyncInv
  BY DEF Init, SyncInv, PoseType, InSync, Pose
<1>2. StackType /\ SyncInv /\ [Next]_vars => SyncInv'
  <2> SUFFICES ASSUME StackType, SyncInv, [Next]_vars PROVE SyncInv'
    OBVIOUS
  <2> USE DEF SyncInv
  <2>1. CASE UNCHANGED <<pathtoviewpoint, viewpoint, matrix, camera, fieldsensors, pathsensor>>
    BY <2>1 DEF PoseType, InSync, World
  <2>2. ASSUME NEW v \in Viewpoints, NEW on \in BOOLEAN, SetBind(v, on) PROVE SyncInv'
    BY <2>2 DEF SetBind, PathMayChange, PoseType, InSync, World, stack, scene
  <2>3. ASSUME NEW v \in Viewpoints, NEW p \in Pose, NEW m \in Pose, MoveViewpoint(v, p, m)
        PROVE  SyncInv'
    <3>1. /\ viewpoint' \in [Viewpoints -> Pose] /\ matrix' \in [Viewpoints -> Pose]
          /\ \A w \in Viewpoints : w # v =>
               viewpoint'[w] = viewpoint[w] /\ matrix'[w] = matrix[w]
      BY <2>3 DEF MoveViewpoint, PoseType
    <3> QED
      BY <2>3, <3>1 DEF MoveViewpoint, PathChanges, PoseType, InSync, World, stack
  <2>4. ASSUME NEW p \in Pose, NEW fs \in SUBSET Fields, MoveCamera(p, fs)
        PROVE  SyncInv'
    BY <2>4 DEF MoveCamera, PoseType, InSync, World, stack, scene
  <2>5. ASSUME NEW k \in DOMAIN Scene, SetBindCb(k) PROVE SyncInv'
    <3>1. k \in set_bind_sensors /\ (Bind(k) \/ Unbind(k)) /\ UNCHANGED scene
      BY <2>5 DEF SetBindCb
    <3>2. CASE UNCHANGED <<stack, camera, fieldsensors, pathsensor>>
      BY <2>1, <3>1, <3>2 DEF stack, scene
    <3>3. CASE BindTopOfStack
      <4>1. nodelist' \in Seq(Viewpoints) /\ Len(nodelist') = Len(Scene) /\ Len(Scene) # 0
        BY <3>1, StackSteps DEF StackType
      <4>2. nodelist'[1] \in Viewpoints
        BY <4>1
      <4>3. World(nodelist'[1]) \in Pose
        BY <4>2, AtViewpoint
      <4> QED
        BY <3>1, <3>3, <4>2, <4>3
        DEF BindTopOfStack, SetViewpoint, PoseType, InSync, World, scene
    <3> QED
      BY <3>1, <3>2, <3>3, StackSteps
  <2>6. ASSUME NEW f \in Fields, UpdateViewpoint(f) PROVE SyncInv'
    <3>1. CASE pathtoviewpoint = NoViewpoint
      BY <2>6, <3>1 DEF UpdateViewpoint, PoseType, InSync, stack
    <3>2. CASE pathtoviewpoint # NoViewpoint
      <4> DEFINE v == pathtoviewpoint
      <4>1. v \in Viewpoints /\ Local(v) \in Pose
        BY <3>2, AtViewpoint DEF PoseType
      <4>2. viewpoint' = [viewpoint EXCEPT ![v] = Local(v)]
        BY <2>6, <3>2 DEF UpdateViewpoint
      <4>3. (Local(v) + matrix[v]) % Poses = camera
        BY <4>1, PoseInverse DEF Local, PoseType
      <4>4. viewpoint'[v] = Local(v) /\ viewpoint' \in [Viewpoints -> Pose]
        BY <4>1, <4>2 DEF PoseType
      <4> QED
        BY <2>6, <3>2, <4>1, <4>3, <4>4 DEF UpdateViewpoint, PoseType, InSync, World, stack
    <3> QED
      BY <3>1, <3>2
  <2>7. CASE UpdateCamera
    <3>1. pathtoviewpoint \in Viewpoints
      BY <2>7 DEF UpdateCamera, PoseType
    <3>2. World(pathtoviewpoint) \in Pose
      BY <3>1, AtViewpoint
    <3> QED
      BY <2>7, <3>1, <3>2 DEF UpdateCamera, PoseType, InSync, World, stack, scene
  <2>8. CASE SetSceneGraph
    BY <2>1, <2>8 DEF SetSceneGraph, scene
  <2>9. CASE UNCHANGED vars
    BY <2>1, <2>9 DEF vars, stack, scene, sensors
  <2> QED
    BY <2>2, <2>3, <2>4, <2>5, <2>6, <2>7, <2>8, <2>9 DEF Next, Callbacks
<1>3. SyncInv => InSync
  BY DEF SyncInv
<1> QED
  BY <1>1, <1>2, <1>3, StackTyped, PTL DEF Spec
=============================================================================

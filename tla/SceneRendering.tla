--------------------------- MODULE SceneRendering ---------------------------
(* What SmScenery and a whole scene are rendered through: the textures kept for*)
(* the blocks of a terrain and the culling of blocks (nodes/SceneryGL.cpp), the one*)
(* view that all actions of SmScenery share (nodes/Scenery.cpp), the passes of the*)
(* scene manager, and regions of the window.                                 *)
EXTENDS Integers, FiniteSets, Functions, Sequences, SequencesExt, Naturals
-----------------------------------------------------------------------------
(* SmScenery drawing the blocks of a terrain (nodes/Scenery.cpp), and the  *)
(* textures that nodes/SceneryGL.cpp keeps for them, a table for each GL   *)
(* context.  The external terrain library evaluates the view and calls     *)
(* back for every block it draws.                                          *)

CONSTANTS Contexts,
          TexIds,      \* the textures the library gives its blocks; 0 is none
          Names,       \* what glGenTextures may return in a context
          MaxUnused,   \* MAX_UNUSED_COUNT, 200
          None

VARIABLES system,        \* whether a terrain is open
          didevaluate, firstGLRender,
          glcontextid,   \* None when glcontextidset is FALSE
          needpostframe, activescenerytexid, activetexturecontext,
          dotex, lines,  \* textures at all; elevation lines: etexscale # 0
          texhash,       \* for a context and a texture: id, isbound, unusedcount
          block,         \* the texture and the normals of the block being drawn
          gltextures, bound, texture2d, arrays,     \* GL, for each context
          texwasenabled,
          used           \* history: the textures drawn with in this rendering

settings == <<needpostframe, dotex, lines, texwasenabled>>
frame == <<settings, activescenerytexid, activetexturecontext>>
glvars == <<bound, texture2d, arrays>>
scenevars == <<system, didevaluate, firstGLRender, glcontextid, frame, texhash,
               block, gltextures, glvars, used>>

NoBlock == [tex |-> None, normals |-> FALSE]
NoTextures == [t \in {} |-> 0]

SceneInit ==
  /\ system = FALSE /\ didevaluate = FALSE /\ firstGLRender = TRUE
  /\ glcontextid = None /\ needpostframe = FALSE
  /\ activescenerytexid = 0 /\ activetexturecontext = None
  /\ dotex = TRUE /\ lines = FALSE
  /\ texhash = [c \in Contexts |-> NoTextures]
  /\ block = NoBlock /\ gltextures = [c \in Contexts |-> {}]
  /\ bound = [c \in Contexts |-> None] /\ texture2d = [c \in Contexts |-> FALSE]
  /\ arrays = [c \in Contexts |-> {}] /\ texwasenabled = FALSE /\ used = {}
-----------------------------------------------------------------------------
(* The tables of SceneryGL *)

(* sc_mark_unused_textures *)
MarkUnused(h) == [t \in DOMAIN h |-> [h[t] EXCEPT !.unusedcount = @ + 1]]

(* sc_delete_unused_textures, for the table of the current context. *)
Unused(h) == {t \in DOMAIN h : h[t].unusedcount > MaxUnused}

(* What goes is released, which deletes the GL texture in the current      *)
(* context; with no current context nothing goes.                          *)
Release(c, h, gone) ==
  /\ texhash' = [texhash EXCEPT ![c] = Restrict(h, DOMAIN h \ gone)]
  /\ gltextures' = [gltextures EXCEPT ![c] = @ \ {h[t].id : t \in gone}]

(* Mutant: a texture that is found keeps its count. *)
Activate_Bug(h, t) == [h EXCEPT ![t].isbound = TRUE]

(* texture_activate and the reset of the count. *)
Activate(h, t) == [h EXCEPT ![t].isbound = TRUE, ![t].unusedcount = 0]

(* sc_render_pre_cb: the texture of the block is found or made, and bound. *)
SetTexture(c, t) ==
  IF t = activescenerytexid /\ activetexturecontext = c
  THEN UNCHANGED <<texhash, gltextures, bound, activescenerytexid, activetexturecontext>>
  ELSE /\ \/ /\ t \in DOMAIN texhash[c]
             /\ texhash' = [texhash EXCEPT ![c] = Activate(@, t)]
             /\ bound' = [bound EXCEPT ![c] = texhash[c][t].id]
             /\ UNCHANGED gltextures
          \/ /\ t \notin DOMAIN texhash[c]
             /\ \E n \in Names \ gltextures[c] :
                  LET info == [id |-> n, isbound |-> FALSE, unusedcount |-> 0]
                      placed == [u \in DOMAIN texhash[c] \cup {t} |->
                                   IF u = t THEN info ELSE texhash[c][u]]
                  IN  /\ texhash' = [texhash EXCEPT ![c] = Activate(placed, t)]
                      /\ gltextures' = [gltextures EXCEPT ![c] = @ \cup {n}]
                      /\ bound' = [bound EXCEPT ![c] = n]
       /\ activescenerytexid' = t /\ activetexturecontext' = c

(* The arrays that sc_va_render_pre_cb enables and sc_va_render_post_cb    *)
(* disables; those of the second unit are for elevation lines.             *)
ArraysFor(b) ==
  {"vertex"} \cup (IF b.normals THEN {"normal"} ELSE {})
    \cup IF b.normals /\ b.tex = 0 THEN {}
         ELSE {"texcoord0"} \cup (IF lines THEN {"texcoord1"} ELSE {})
-----------------------------------------------------------------------------
(* GLRender, up to the call of the library.  preFrame marks the textures   *)
(* and evaluate may refresh them, when colours changed or at first; both   *)
(* are left out when an application has evaluated the scene already.       *)
GLRender_Active_Bug(c, refresh, quality, etex) ==       \* Mutant: the active texture is kept
  /\ system /\ glcontextid = None /\ glcontextid' = c
  /\ needpostframe' = ~didevaluate /\ didevaluate' = FALSE
  /\ dotex' = quality /\ lines' = (quality /\ etex)
  /\ LET h == IF didevaluate THEN texhash[c] ELSE MarkUnused(texhash[c])
     IN  Release(c, h, IF refresh /\ (firstGLRender \/ ~didevaluate)
                       THEN DOMAIN h ELSE {})
  /\ firstGLRender' = FALSE
  /\ texwasenabled' = texture2d[c]
  /\ UNCHANGED <<system, block, glvars, activescenerytexid, activetexturecontext, used>>

GLRender(c, refresh, quality, etex) ==
  /\ system /\ glcontextid = None /\ glcontextid' = c
  /\ needpostframe' = ~didevaluate /\ didevaluate' = FALSE
  /\ dotex' = quality /\ lines' = (quality /\ etex)
  /\ LET h == IF didevaluate THEN texhash[c] ELSE MarkUnused(texhash[c])
     IN  Release(c, h, IF refresh /\ (firstGLRender \/ ~didevaluate)
                       THEN DOMAIN h ELSE {})
  /\ firstGLRender' = FALSE /\ activescenerytexid' = 0
  /\ texwasenabled' = texture2d[c]
  /\ UNCHANGED <<system, block, glvars, activetexturecontext, used>>

(* sc_va_render_pre_cb *)
RenderPre(t, normals) ==
  LET c == glcontextid  b == [tex |-> t, normals |-> normals] IN
  /\ c # None /\ block = NoBlock
  /\ IF dotex /\ t # 0
     THEN SetTexture(c, t) /\ used' = used \cup {t}
     ELSE UNCHANGED <<texhash, gltextures, bound, activescenerytexid,
                      activetexturecontext, used>>
  /\ texture2d' = [texture2d EXCEPT ![c] = (dotex /\ t # 0)]
  /\ block' = b
  /\ arrays' = [arrays EXCEPT ![c] = @ \cup ArraysFor(b)]
  /\ UNCHANGED <<system, didevaluate, firstGLRender, glcontextid, settings>>

RenderPost ==
  /\ block # NoBlock /\ block' = NoBlock
  /\ arrays' = [arrays EXCEPT ![glcontextid] = @ \ ArraysFor(block)]
  /\ UNCHANGED <<system, didevaluate, firstGLRender, glcontextid, frame, texhash,
                 gltextures, bound, texture2d, used>>

(* The rest of GLRender, with postFrame.  Whatever is drawn next in the     *)
(* context may bind another texture.                                        *)
RenderDone ==
  LET c == glcontextid IN
  /\ c # None /\ block = NoBlock
  /\ texture2d' = [texture2d EXCEPT ![c] = texwasenabled]
  /\ Release(c, texhash[c], IF needpostframe THEN Unused(texhash[c]) ELSE {})
  /\ glcontextid' = None /\ used' = {} /\ bound' = [bound EXCEPT ![c] = None]
  /\ needpostframe' = FALSE /\ lines' = FALSE /\ texwasenabled' = FALSE
  /\ UNCHANGED <<system, didevaluate, firstGLRender, dotex, activescenerytexid,
                 activetexturecontext, block, arrays>>

(* evaluateS, from a callback action of the application.  The refreshing   *)
(* that it and the sensors of the fields call for has no context and       *)
(* releases nothing.                                                       *)
Evaluate ==
  /\ glcontextid = None /\ didevaluate' = TRUE
  /\ UNCHANGED <<system, firstGLRender, glcontextid, frame, texhash, block,
                 gltextures, glvars, used>>

(* filenamesensor_cb: the terrain is closed, and another opened if it can be. *)
FilenameCB ==
  /\ glcontextid = None /\ system' \in BOOLEAN
  /\ UNCHANGED <<didevaluate, firstGLRender, glcontextid, frame, texhash, block,
                 gltextures, glvars, used>>

(* Other nodes draw in the context with or without textures. *)
OtherDrawing(c) ==
  /\ glcontextid = None /\ texture2d' = [texture2d EXCEPT ![c] = ~@]
  /\ UNCHANGED <<system, didevaluate, firstGLRender, glcontextid, frame, texhash,
                 block, gltextures, bound, arrays, used>>

SceneNext ==
  \/ \E c \in Contexts :
       \/ OtherDrawing(c)
       \/ \E refresh, quality, etex \in BOOLEAN : GLRender(c, refresh, quality, etex)
  \/ \E t \in TexIds \cup {0}, normals \in BOOLEAN : RenderPre(t, normals)
  \/ RenderPost \/ RenderDone \/ Evaluate \/ FilenameCB

SceneSpec == SceneInit /\ [][SceneNext]_scenevars
SceneAssumption == None \notin Contexts /\ 0 \notin TexIds /\ MaxUnused \in Nat
-----------------------------------------------------------------------------
(* A block with a texture is drawn with that texture: it is the one bound, *)
(* in the context that is current, and GL has its image.                   *)
OwnTexture ==
  block # NoBlock /\ texture2d[glcontextid] =>
    /\ block.tex \in DOMAIN texhash[glcontextid]
    /\ LET info == texhash[glcontextid][block.tex]
       IN  /\ info.isbound /\ info.id = bound[glcontextid]
           /\ info.id \in gltextures[glcontextid]

(* What one rendering drew with is there for the next: postFrame takes     *)
(* away only textures that have not been of use for long.                  *)
UsedStay ==
  [][\A c \in Contexts : glcontextid = c /\ glcontextid' = None =>
       used \subseteq DOMAIN texhash'[c]]_scenevars
-----------------------------------------------------------------------------
(* View culling of the blocks of a terrain (nodes/SceneryGL.cpp).  The     *)
(* terrain library asks about a block before it looks at the block's parts *)
(* and tells when it is done with it.  A stack of masks remembers which    *)
(* planes need no test below a block, as the block is inside of them.      *)

CONSTANTS Extent,    \* the terrain covers 0..Extent in x and in y, a power of 2
          Planes,    \* a sequence of half spaces a*x + b*y >= d, as <<a, b, d>>
          Occlusion  \* whether the GL has the occlusion test

VARIABLES blocks,      \* the blocks being looked at, outermost first
          cullstate    \* the stack of masks

CullInit == blocks = << >> /\ cullstate = << >>

(* A block is at x, y and has a size; planes that stand upright need no     *)
(* more of its bounding box.                                                *)
Block(x, y, size, draw) == [x |-> x, y |-> y, size |-> size, draw |-> draw]
Corners(b) == {b.x, b.x + b.size} \X {b.y, b.y + b.size}
IsInHalfSpace(p, i) == Planes[i][1] * p[1] + Planes[i][2] * p[2] >= Planes[i][3]
AllInside(b, i) == \A p \in Corners(b) : IsInHalfSpace(p, i)
AllOutside(b, i) == \A p \in Corners(b) : ~IsInHalfSpace(p, i)

Mask == IF cullstate = << >> THEN {} ELSE Last(cullstate)

(* Mutant: a block that is culled leaves nothing for the second call. *)
PreCb_Bug(x, y, size) ==
  LET b == Block(x, y, size, FALSE)
      tested == DOMAIN Planes \ Mask
      bits == Mask \cup {i \in tested : AllInside(b, i)}
  IN  \/ /\ \E i \in tested : AllOutside(b, i)
         /\ UNCHANGED cullstate
         /\ blocks' = Append(blocks, b)
      \/ /\ \A i \in tested : ~AllOutside(b, i)
         /\ cullstate' = Append(cullstate, bits)
         /\ \E draw \in {TRUE} \cup {~(Occlusion /\ bits = DOMAIN Planes)} :
              blocks' = Append(blocks, Block(x, y, size, draw))

(* sc_plane_culling_pre_cb; the occlusion test may find a block hidden. *)
PreCb(x, y, size) ==
  LET b == Block(x, y, size, FALSE)
      tested == DOMAIN Planes \ Mask
      bits == Mask \cup {i \in tested : AllInside(b, i)}
  IN  \/ /\ \E i \in tested : AllOutside(b, i)
         /\ cullstate' = Append(cullstate, {})
         /\ blocks' = Append(blocks, b)
      \/ /\ \A i \in tested : ~AllOutside(b, i)
         /\ cullstate' = Append(cullstate, bits)
         /\ \E draw \in {TRUE} \cup {~(Occlusion /\ bits = DOMAIN Planes)} :
              blocks' = Append(blocks, Block(x, y, size, draw))

(* sc_plane_culling_post_cb *)
PostCb == blocks # << >> /\ blocks' = Front(blocks) /\ cullstate' = Front(cullstate)

(* The library goes into the four parts of a block that is not culled, in  *)
(* any order, and as far as the level of detail asks for.                  *)
CullNext ==
  \/ blocks = << >> /\ PreCb(0, 0, Extent)
  \/ /\ blocks # << >> /\ Last(blocks).draw /\ Last(blocks).size > 1
     /\ \E i, j \in {0, 1} :
          LET b == Last(blocks)  h == b.size \div 2
          IN  PreCb(b.x + i * h, b.y + j * h, h)
  \/ PostCb

CullSpec == CullInit /\ [][CullNext]_<<blocks, cullstate>>
CullAssumption == /\ Extent \in Nat /\ Planes \in Seq(Int \X Int \X Int)
                  /\ Occlusion \in BOOLEAN
-----------------------------------------------------------------------------
(* The stack of masks comes out even, whatever is culled.  A plane is left *)
(* out of the tests only below a block that is inside of it: a block is    *)
(* drawn exactly when no plane has all of it outside, unless it is inside  *)
(* of all and the occlusion test hides it.                                 *)
CulledRight ==
  /\ Len(cullstate) = Len(blocks)
  /\ blocks # << >> => \A i \in Mask : AllInside(Last(blocks), i)
  /\ \A k \in DOMAIN blocks :
       LET outside == \E i \in DOMAIN Planes : AllOutside(blocks[k], i)
           inside == \A i \in DOMAIN Planes : AllInside(blocks[k], i)
       IN  blocks[k].draw # outside \/ (Occlusion /\ inside)
-----------------------------------------------------------------------------
(* SmScenery (nodes/Scenery.cpp) and its view of the terrain library: one    *)
(* view with one callback of each kind, which rendering, picking, evaluating *)
(* and generating primitives replace in turn.  The library is external: it   *)
(* keeps what it is given and calls it back while it renders or evaluates.   *)
(* Elevation lines are taken to have a distance above 0, and field sensors   *)
(* to have run before the next operation.                                    *)

CONSTANTS Sequences,    \* values of renderSequence
          ColorTexture \* the data set that draws colours, colormaptexid

VARIABLES view,         \* what the library keeps of the view, None when closed
          colormaptexid,
          renderSequence, colorTexturing, elevationLines,          \* fields
          viewDidevaluate, didevaluateonce, viewFirstGLRender, usevertexarrays,
          etexscale, elevationlinesimage, texturesize,
          called        \* the last call of the library that called back

fields    == <<renderSequence, colorTexturing, elevationLines>>
lineState == <<etexscale, elevationlinesimage, texturesize>>
viewvars  == <<view, colormaptexid, fields, viewDidevaluate, didevaluateonce,
               viewFirstGLRender, usevertexarrays, lineState, called>>

Fresh  == [culling |-> None, pre |-> None, post |-> None, render |-> None,
           undef |-> None, sequence |-> << >>]
Called(op, v) == [by |-> op, with |-> v, lines |-> FALSE, wanted |-> FALSE]
NoCall == Called("none", Fresh)

(* The block of each operation that chooses what is drawn.                   *)
Sequenced(v) == [v EXCEPT !.sequence = IF colorTexturing /\ colormaptexid # None
                                       THEN <<ColorTexture, 0>> ELSE renderSequence]

(* The two constructors: of a node for a file, and of one for a system that  *)
(* is open already, which leaves two flags uninitialized.                    *)
Constructed == /\ view = None /\ renderSequence = <<0>>
               /\ viewDidevaluate = FALSE /\ didevaluateonce = FALSE
ConstructedFor == /\ view = Fresh /\ renderSequence = << >>
                  /\ viewDidevaluate \in BOOLEAN /\ didevaluateonce \in BOOLEAN
ViewInit == /\ Constructed \/ ConstructedFor
            /\ colormaptexid = None
            /\ colorTexturing = FALSE /\ elevationLines = FALSE
            /\ viewFirstGLRender = TRUE /\ usevertexarrays = TRUE
            /\ etexscale = FALSE
            /\ elevationlinesimage = FALSE /\ texturesize = FALSE
            /\ called = NoCall

(* filenamesensor_cb: the file opens or not, its first data set is of        *)
(* elevations or not.                                                        *)
ViewFilenameCB(opens, elevation) ==
    /\ colormaptexid' = IF opens /\ elevation THEN ColorTexture ELSE None
    /\ view' = IF ~opens THEN None
               ELSE [Fresh EXCEPT !.sequence =
                       IF colorTexturing /\ elevation THEN <<ColorTexture, 0>>
                       ELSE renderSequence]
    /\ UNCHANGED <<fields, viewDidevaluate, didevaluateonce, viewFirstGLRender,
                   usevertexarrays, lineState, called>>

(* elevationlinessensor_cb and elevationlinestexchange: before the first     *)
(* rendering the size of the texture is unknown and none is made.            *)
SetElevationLines ==
    /\ elevationLines' = ~elevationLines
    /\ elevationlinesimage' = (elevationlinesimage \/ elevationLines')
    /\ etexscale' = (elevationLines' /\ (texturesize \/ etexscale))
    /\ UNCHANGED <<view, colormaptexid, renderSequence, colorTexturing, viewDidevaluate,
                   didevaluateonce, viewFirstGLRender, usevertexarrays,
                   texturesize, called>>
SetSequence(s) ==
    /\ renderSequence' = s
    /\ UNCHANGED <<view, colormaptexid, colorTexturing, elevationLines, viewDidevaluate,
                   didevaluateonce, viewFirstGLRender, usevertexarrays,
                   lineState, called>>
SetColorTexturing ==
    /\ colorTexturing' = ~colorTexturing
    /\ UNCHANGED <<view, colormaptexid, renderSequence, elevationLines, viewDidevaluate,
                   didevaluateonce, viewFirstGLRender, usevertexarrays,
                   lineState, called>>

(* What an operation asks of the view, and what it leaves behind.            *)
Culled(v, kind) == [v EXCEPT !.culling = kind]
ForGL(v, va) == LET k == IF va THEN "va" ELSE "gl"
                IN  [Culled(v, "plane") EXCEPT !.pre = k, !.post = k,
                                               !.render = k, !.undef = k]
ForEvaluation(v) == [Culled(v, "plane") EXCEPT !.pre = None, !.post = None]
ForPrimitives(v) == [v EXCEPT !.render = "gen", !.undef = "gen",
                              !.pre = "gen", !.post = None]

(* evaluate, from GLRender or a callback action of the application.          *)
Evaluated(v) == IF v = None \/ renderSequence = << >> THEN v
                ELSE Culled(ForEvaluation(Sequenced(v)), None)
ViewEvaluate ==
    /\ view' = Evaluated(view)
    /\ viewDidevaluate' = TRUE /\ didevaluateonce' = TRUE
    /\ called' = IF view = None \/ renderSequence = << >> THEN called
                 ELSE Called("evaluate", ForEvaluation(Sequenced(view)))
    /\ UNCHANGED <<colormaptexid, fields, viewFirstGLRender, usevertexarrays, lineState>>

(* GLRender in a context with or without vertex arrays and multitexturing:   *)
(* setVertexArraysRendering has no say.  The first rendering finds out the   *)
(* size of textures, and turns elevation lines off that cannot be drawn.     *)
LinesMade == IF texturesize THEN etexscale ELSE elevationLines \/ etexscale
ViewGLRender(viewArrays, multi, quality) ==
    LET v   == ForGL(Sequenced(IF viewDidevaluate THEN view ELSE Evaluated(view)), viewArrays)
        off == viewFirstGLRender /\ ~multi
    IN  /\ view # None /\ renderSequence # << >>
        /\ view' = Culled(v, None)
        /\ viewDidevaluate' = FALSE
        /\ didevaluateonce' = (didevaluateonce \/ ~viewDidevaluate)
        /\ elevationLines' = (elevationLines /\ ~off)
        /\ etexscale' = (LinesMade /\ ~off)
        /\ elevationlinesimage' = (elevationlinesimage \/ elevationLines)
        /\ usevertexarrays' = viewArrays /\ viewFirstGLRender' = FALSE /\ texturesize' = TRUE
        /\ called' = [Called("render", v) EXCEPT !.lines = etexscale' /\ quality /\ multi,
                        !.wanted = elevationLines' /\ quality /\ multi]
        /\ UNCHANGED <<colormaptexid, renderSequence, colorTexturing>>

(* generatePrimitives leaves culling to those who called it.                 *)
Generates == view # None /\ didevaluateonce /\ renderSequence # << >>
GeneratePrimitives ==
    /\ Generates
    /\ view' = ForPrimitives(Sequenced(view))
    /\ called' = Called("primitives", view')
    /\ UNCHANGED <<colormaptexid, fields, viewDidevaluate, didevaluateonce,
                   viewFirstGLRender, usevertexarrays, lineState>>

(* rayPick, of an open system: it would hand the library NULL.               *)
(* Mutant: an early return where nothing is generated. *)
RayPick_Bug ==
    LET v == Culled(view, "ray")
        generated == IF Generates THEN ForPrimitives(Sequenced(v)) ELSE v
    IN  /\ view # None
        /\ view' = IF Generates THEN Culled(generated, None) ELSE generated
        /\ called' = IF Generates THEN Called("pick", generated) ELSE called
        /\ UNCHANGED <<colormaptexid, fields, viewDidevaluate, didevaluateonce,
                       viewFirstGLRender, usevertexarrays, lineState>>
RayPick ==
    LET v == Culled(view, "ray")
        generated == IF Generates THEN ForPrimitives(Sequenced(v)) ELSE v
    IN  /\ view # None
        /\ view' = Culled(generated, None)
        /\ called' = IF Generates THEN Called("pick", generated) ELSE called
        /\ UNCHANGED <<colormaptexid, fields, viewDidevaluate, didevaluateonce,
                       viewFirstGLRender, usevertexarrays, lineState>>

ViewNext == \/ \E opens, elevation \in BOOLEAN : ViewFilenameCB(opens, elevation)
            \/ SetElevationLines \/ SetColorTexturing \/ ViewEvaluate
            \/ \E s \in Sequences : SetSequence(s)
            \/ \E a, m, q \in BOOLEAN : ViewGLRender(a, m, q)
            \/ GeneratePrimitives \/ RayPick

ViewSpec == ViewInit /\ [][ViewNext]_viewvars
-----------------------------------------------------------------------------
(* Whatever was asked of the view before, the library calls back for the     *)
(* operation that is running, with the planes of that operation; picking and *)
(* generating never cull by planes that are gone.                            *)
OwnCallbacks ==
    LET v == called.with IN
    /\ called.by \in {"render", "evaluate"} => v.culling = "plane"
    /\ called.by = "render" => /\ v.pre \in {"va", "gl"}
                               /\ {v.post, v.render, v.undef} = {v.pre}
    /\ called.by = "evaluate" => v.pre = None /\ v.post = None
    /\ called.by = "pick" => v.culling = "ray"
    /\ called.by = "primitives" => v.culling = None
    /\ called.by \in {"pick", "primitives"} =>
          v.pre = "gen" /\ v.post = None /\ v.render = "gen" /\ v.undef = "gen"

(* Where the context can draw elevation lines they are drawn as the field    *)
(* says, also when it was set before the size of textures was known.         *)
LinesFollow == called.lines = called.wanted
-----------------------------------------------------------------------------
(* SmSceneManager: the modes a scene is rendered in, in one or in two passes *)
(* per eye.  GL is a colour buffer of three channels that a mask lets be     *)
(* written or not, clearing included, and a depth buffer.  What a pass leaves*)
(* in a channel is which eye drew how.                                       *)

CONSTANTS Cameras

VARIABLES rendermode, stereomode, texturesenabled,
          managerCamera, held, freed, graph,    \* held: by the application; graph: the
                                         \* cameras of the scene, in order
          mask, channels, depth,         \* GL
          managerFrame                          \* history: the modes of the last frame

managervars == <<rendermode, stereomode, texturesenabled, managerCamera, held, freed, graph,
                 mask, channels, depth, managerFrame>>

Channels == {"red", "green", "blue"}
Modes == {"AS_IS", "WIREFRAME", "POINTS", "HIDDEN_LINE", "WIREFRAME_OVERLAY", "BOUNDING_BOX"}
StereoModes == {"MONO", "RED_CYAN", "RED_BLUE"}
Default == [style |-> "scene", light |-> "scene", color |-> "scene", offset |-> FALSE,
            box |-> FALSE, textures |-> TRUE]
modevars == <<rendermode, stereomode, texturesenabled>>
cameravars == <<managerCamera, held, freed, graph>>
managerGlvars == <<mask, channels, depth>>

ManagerInit ==
    /\ rendermode = "AS_IS" /\ stereomode = "MONO" /\ texturesenabled = TRUE
    /\ managerCamera = None /\ held = Cameras /\ freed = {} /\ graph = << >>
    /\ mask = Channels /\ channels = [c \in Channels |-> {}] /\ depth = {}
    /\ managerFrame = None

(* setCamera: the old camera loses its reference before the new one gets    *)
(* one, and is gone if nobody else holds it.                                *)
SetCamera(c) ==
    /\ c # None => c \notin freed
    /\ freed' = IF managerCamera # None /\ managerCamera \notin held \cup {graph[i] : i \in DOMAIN graph}
                THEN freed \cup {managerCamera} ELSE freed
    /\ managerCamera' = c
    /\ UNCHANGED <<modevars, held, graph, managerGlvars, managerFrame>>
ManagerRelease(c) ==
    /\ held' = held \ {c}
    /\ freed' = IF c \in held /\ c # managerCamera /\ c \notin {graph[i] : i \in DOMAIN graph}
                THEN freed \cup {c} ELSE freed
    /\ UNCHANGED <<modevars, managerCamera, graph, managerGlvars, managerFrame>>
ManagerSetSceneGraph(g) ==
    /\ {g[i] : i \in DOMAIN g} \cap freed = {} /\ graph' = g
    /\ freed' = freed \cup ({graph[i] : i \in DOMAIN graph}
                              \ ({g[i] : i \in DOMAIN g} \cup held \cup {managerCamera}))
    /\ UNCHANGED <<modevars, managerCamera, held, managerGlvars, managerFrame>>
GetCamera == IF managerCamera # None THEN managerCamera ELSE IF graph = << >> THEN None ELSE graph[1]

SetModes(r, s, t) ==
    /\ rendermode' = r /\ stereomode' = s /\ texturesenabled' = t
    /\ UNCHANGED <<cameravars, managerGlvars, managerFrame>>

(* GL, and inherited::render with the elements as they are.                 *)
GL(m, ch, d) == [mask |-> m, channels |-> ch, depth |-> d]
Clear(gl, color, zbuffer) ==
    GL(gl.mask, [c \in Channels |-> IF color /\ c \in gl.mask THEN {} ELSE gl.channels[c]],
       IF zbuffer THEN {} ELSE gl.depth)
Masked(gl, m) == GL(m, gl.channels, gl.depth)
Draw(gl, eye, els, color, zbuffer) ==
    LET cleared == Clear(gl, color, zbuffer)
    IN  GL(gl.mask,
           [c \in Channels |-> IF c \in gl.mask THEN cleared.channels[c] \cup {<<eye, els>>}
                               ELSE cleared.channels[c]],
           cleared.depth \cup {eye})

(* renderSingle: the elements of the traversal state, between push and pop. *)
Lines(els) == [els EXCEPT !.style = "lines"]
Base(els) == [els EXCEPT !.light = "base"]
RenderSingle(gl, eye, els0, color, zbuffer) ==
    LET els == IF texturesenabled THEN els0 ELSE [els0 EXCEPT !.textures = FALSE]
    IN  CASE rendermode = "AS_IS" -> Draw(gl, eye, els, color, zbuffer)
          [] rendermode = "WIREFRAME" -> Draw(gl, eye, Base(Lines(els)), color, zbuffer)
          [] rendermode = "POINTS" ->
               Draw(gl, eye, Base([els EXCEPT !.style = "points"]), color, zbuffer)
          [] rendermode = "HIDDEN_LINE" ->
               LET filled == [Base(els) EXCEPT !.offset = TRUE, !.color = "one"]
                   hidden == Draw(Masked(Clear(gl, TRUE, TRUE), {}), eye, filled, FALSE, FALSE)
               IN  Draw(Masked(hidden, Channels), eye,
                        [Lines(filled) EXCEPT !.offset = FALSE, !.color = "scene"], FALSE, FALSE)
          [] rendermode = "WIREFRAME_OVERLAY" ->
               LET filled == Draw(gl, eye, [els EXCEPT !.offset = TRUE], color, zbuffer)
               IN  Draw(filled, eye, [Base(Lines(els)) EXCEPT !.color = "overlay"], FALSE, FALSE)
          [] OTHER -> Draw(gl, eye, [els EXCEPT !.box = TRUE], color, zbuffer)

(* render                                                                   *)
Finish(gl) == /\ mask' = gl.mask /\ channels' = gl.channels /\ depth' = gl.depth
              /\ managerFrame' = <<rendermode, stereomode, texturesenabled>>
              /\ UNCHANGED <<modevars, cameravars>>
RenderMono ==
    /\ stereomode = "MONO"
    /\ Finish(RenderSingle(GL(mask, channels, depth), "both", Default, TRUE, TRUE))

(* Mutant: the right eye is drawn in cyan in every mode. *)
Right_Bug == IF stereomode = "RED_CYAN" THEN {"green", "blue"} ELSE {"green", "blue"}
Right == IF stereomode = "RED_CYAN" THEN {"green", "blue"} ELSE {"blue"}
Eyes(gl) ==
    LET left == RenderSingle(Masked(Clear(gl, TRUE, TRUE), {"red"}), "left", Default, FALSE, FALSE)
        between == Masked(Clear(left, FALSE, TRUE), Right)
    IN  Masked(RenderSingle(between, "right", Default, FALSE, FALSE), Channels)
RenderStereo ==
    /\ stereomode # "MONO" /\ GetCamera # None
    /\ Finish(Eyes(GL(mask, channels, depth)))

ManagerNext ==
    \/ \E r \in Modes, s \in StereoModes, t \in BOOLEAN : SetModes(r, s, t)
    \/ \E c \in held \cup {None} : SetCamera(c)
    \/ \E c \in Cameras : ManagerRelease(c) \/ ManagerSetSceneGraph(<<c>>)
    \/ RenderMono \/ RenderStereo

ManagerSpec == ManagerInit /\ [][ManagerNext]_managervars
ManagerAssumption == None \notin Cameras
-----------------------------------------------------------------------------
(* After a frame GL may draw in all colours again, whatever the modes of    *)
(* this frame and of those before.                                          *)
MaskRestored == mask = Channels

(* A frame in stereo has the left eye in red and the right one in the other *)
(* colours, each drawn in the mode of the frame; except with hidden lines,  *)
(* which are drawn in all colours.                                          *)
EyesIn(c) == {drawing[1] : drawing \in channels[c]}
EyesApart ==
    managerFrame # None /\ managerFrame[2] # "MONO" /\ managerFrame[1] # "HIDDEN_LINE" =>
        /\ EyesIn("red") = {"left"} /\ EyesIn("blue") = {"right"}
        /\ EyesIn("green") = IF managerFrame[2] = "RED_CYAN" THEN {"right"} ELSE {}
        /\ {d[2] : d \in channels["red"]} = {d[2] : d \in channels["blue"]}
        /\ depth = {"right"}

(* A camera that was set exists.                                            *)
CameraAlive == managerCamera \notin freed
FramesRight == MaskRestored /\ EyesApart /\ CameraAlive
-----------------------------------------------------------------------------
(* ViewportRegion: one axis of the part of the window that what follows is   *)
(* drawn in.  Both axes are treated alike.  Origin and size are fractions of *)
(* 1 / Whole of the window, pixels of 1 / Whole of a pixel.                  *)

CONSTANTS Whole, Windows, Fractions, Pixels

VARIABLES origin, size, pixelOrigin, pixelSize, flip, clampSize, clearBuffer, \* fields
          usepixelorigin, usepixelsize,
          viewport,      \* of the last traversal: [window, org, siz], or None
          cleared,       \* what that traversal cleared, or None
          edited         \* history: since then a field was set

regionvars == <<origin, size, pixelOrigin, pixelSize, flip, clampSize, clearBuffer,
                usepixelorigin, usepixelsize, viewport, cleared, edited>>

RegionInit == /\ origin = 0 /\ size = Whole /\ pixelOrigin = 0 /\ pixelSize = Whole
              /\ flip = FALSE /\ clampSize = FALSE /\ clearBuffer = FALSE
              /\ usepixelorigin = FALSE /\ usepixelsize = FALSE
              /\ viewport = None /\ cleared = None /\ edited = TRUE

(* notify: of fractions and pixels the one that was set last counts.        *)
SetOrigin(o) == /\ origin' = o /\ usepixelorigin' = FALSE /\ edited' = TRUE
                /\ UNCHANGED <<size, pixelOrigin, pixelSize, flip, clampSize, clearBuffer,
                               usepixelsize, viewport, cleared>>
SetSize(s) == /\ size' = s /\ usepixelsize' = FALSE /\ edited' = TRUE
              /\ UNCHANGED <<origin, pixelOrigin, pixelSize, flip, clampSize, clearBuffer,
                             usepixelorigin, viewport, cleared>>
SetPixelOrigin(o) == /\ pixelOrigin' = o /\ usepixelorigin' = TRUE /\ edited' = TRUE
                     /\ UNCHANGED <<origin, size, pixelSize, flip, clampSize, clearBuffer,
                                    usepixelsize, viewport, cleared>>
SetPixelSize(s) == /\ pixelSize' = s /\ usepixelsize' = TRUE /\ edited' = TRUE
                   /\ UNCHANGED <<origin, size, pixelOrigin, flip, clampSize, clearBuffer,
                                  usepixelorigin, viewport, cleared>>
SetFlags(f, c, b) == /\ flip' = f /\ clampSize' = c /\ clearBuffer' = b /\ edited' = TRUE
                     /\ UNCHANGED <<origin, size, pixelOrigin, pixelSize, usepixelorigin,
                                    usepixelsize, viewport, cleared>>

(* doAction: clamped values are written back without a notification, the    *)
(* origin's and not the size's.                                             *)
Clamp(x, low, high) == IF x < low THEN low ELSE IF x > high THEN high ELSE x
AskedSize(w) == Clamp(IF usepixelsize THEN pixelSize \div w ELSE size, 0, Whole)
AskedOrigin(w) == IF usepixelorigin THEN pixelOrigin \div w ELSE origin
Fits(w) == AskedOrigin(w) + AskedSize(w) <= Whole
Siz(w) == IF clampSize /\ ~Fits(w) THEN Whole - AskedOrigin(w) ELSE AskedSize(w)
(* Mutant: what does not fit is left where it is. *)
Org_Bug(w) == LET o == AskedOrigin(w) IN  IF o < 0 THEN 0 ELSE o
Org(w) == LET o == IF ~clampSize /\ ~Fits(w) THEN Whole - AskedSize(w) ELSE AskedOrigin(w)
          IN  IF o < 0 THEN 0 ELSE o
DoAction(w, mainpass) ==
    LET vp == [window |-> w, org |-> IF flip THEN Whole - Org(w) - Siz(w) ELSE Org(w),
               siz |-> Siz(w)]
    IN  /\ origin' = Org(w) /\ pixelOrigin' = Org(w) * w
        /\ viewport' = vp /\ edited' = FALSE
        /\ cleared' = IF mainpass /\ clearBuffer THEN vp ELSE None
        /\ UNCHANGED <<size, pixelSize, flip, clampSize, clearBuffer, usepixelorigin,
                       usepixelsize>>

RegionNext ==
    \/ \E o \in Fractions : SetOrigin(o) \/ SetSize(o)
    \/ \E p \in Pixels : SetPixelOrigin(p) \/ SetPixelSize(p)
    \/ \E f, c, b \in BOOLEAN : SetFlags(f, c, b)
    \/ \E w \in Windows, m \in BOOLEAN : DoAction(w, m)

RegionSpec == RegionInit /\ [][RegionNext]_regionvars
RegionAssumption == /\ Whole \in Nat /\ Windows \subseteq Nat \ {0}
                    /\ Fractions \subseteq Int /\ Pixels \subseteq Int
                    /\ None \notin [window : Windows, org : Int, siz : Int]
-----------------------------------------------------------------------------
(* The region lies in the window, whatever was set and in whichever window  *)
(* it was drawn before.  With clampSize an origin beyond the window leaves  *)
(* no room, and a negative size.                                            *)
InWindow == viewport # None /\ viewport.siz >= 0 =>
                viewport.org >= 0 /\ viewport.org + viewport.siz <= Whole

(* Drawing again in the same window, with nothing set meanwhile, draws in   *)
(* the same place, although the fields were written back.                   *)
Settles == [][~edited /\ ~edited' /\ viewport'.window = viewport.window
                => viewport' = viewport]_regionvars
-----------------------------------------------------------------------------
(* Together: a block is drawn with its own texture and exactly when it is   *)
(* in view, a call of the library has the callbacks of its operation, each  *)
(* pass has the GL state of its mode, and a region lies in the window.      *)
FramesDrawn ==
    OwnTexture /\ CulledRight /\ OwnCallbacks /\ LinesFollow /\ FramesRight /\ InWindow

(* And frame by frame: a texture in use is not released, and a region that  *)
(* is drawn again in the same window stays where it was.                    *)
UsedKept == UsedStay /\ Settles
=============================================================================

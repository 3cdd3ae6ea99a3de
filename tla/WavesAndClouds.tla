--------------------------- MODULE WavesAndClouds ---------------------------
(* What must not jump from one frame to the next: the waves of the sea, and a*)
(* cloud of points, of which the near ones are drawn as shapes.              *)
EXTENDS Integers, FiniteSets, Sequences
-----------------------------------------------------------------------------
(* The waves of OceanShape and the timer that moves them                   *)
(* (nodekits/OceanKit.cpp).  The fields frequency and enableEffects have   *)
(* field sensors, which run later and in any order; they start and stop    *)
(* the timer.  A frame after the timer moves the waves.  One wave of each  *)
(* kind at a time fades out, becomes another wave, and fades in.           *)

CONSTANTS NumGeoWaves, NumTexWaves,
          FullFade,   \* 1.0, in the units fading goes by
          Elapsed     \* how far a wave may fade from one frame to the next

VARIABLES frequency, enableEffects,   \* fields; only whether frequency is 0
          pending,         \* the field sensors that have been triggered
          timer,           \* whether timersensor is scheduled
          timerTrigged, invalidstate,
          geowaves, texwaves   \* the waves of a kind, with transIdx, transDel

sensors == <<frequency, enableEffects, pending, timer>>
waves   == <<invalidstate, geowaves, texwaves>>
oceanvars == <<sensors, timerTrigged, waves>>

(* A wave's length, direction and speed are random; "shape" tells that they *)
(* have become others.                                                      *)
Waves(n) == [fade : [0..(n - 1) -> 0..FullFade], shape : [0..(n - 1) -> {0, 1}],
             transIdx : 0..(n - 1), transDel : {-1, 1}]

(* initWaves, with copyGeoState and initTexState. *)
InitWaves(n) == [fade |-> [i \in 0..(n - 1) |-> FullFade],
                 shape |-> [i \in 0..(n - 1) |-> 0],
                 transIdx |-> 0, transDel |-> -1]

(* initGeoWave, initTexWave *)
InitWave(w, i) == [w EXCEPT !.shape[i] = 1 - @, !.fade[i] = FullFade]

(* Mutant: the wave that has faded out is replaced at full height. *)
UpdateWave_Bug(w, i, dt, n) ==
  LET f == w.fade[i] + w.transDel * dt
  IN  IF i # w.transIdx THEN w
      ELSE IF f < 0 THEN [InitWave(w, i) EXCEPT !.transDel = -@]
      ELSE IF f > FullFade
        THEN [w EXCEPT !.fade[i] = FullFade, !.transDel = -@,
                       !.transIdx = (@ + 1) % n]
      ELSE [w EXCEPT !.fade[i] = f]

(* updateGeoWave, updateTexWave *)
UpdateWave(w, i, dt, n) ==
  LET f == w.fade[i] + w.transDel * dt
  IN  IF i # w.transIdx THEN w
      ELSE IF f < 0 THEN [InitWave(w, i) EXCEPT !.fade[i] = 0, !.transDel = -@]
      ELSE IF f > FullFade
        THEN [w EXCEPT !.fade[i] = FullFade, !.transDel = -@,
                       !.transIdx = (@ + 1) % n]
      ELSE [w EXCEPT !.fade[i] = f]

(* updateWaves, for one kind. *)
UpdateWaves(w, dt, n) ==
  LET upto[k \in 0..n] == IF k = 0 THEN w ELSE UpdateWave(upto[k - 1], k - 1, dt, n)
  IN  upto[n]
-----------------------------------------------------------------------------
(* The fields of the shape are connected to those of the kit when it is    *)
(* made, which triggers both sensors.                                      *)
OceanInit ==
  /\ frequency = 1 /\ enableEffects = TRUE
  /\ pending = {"frequency", "enableEffects"} /\ timer = FALSE
  /\ timerTrigged = TRUE /\ invalidstate = TRUE
  /\ geowaves = InitWaves(NumGeoWaves) /\ texwaves = InitWaves(NumTexWaves)

SetFrequency ==
  /\ frequency' = 1 - frequency
  /\ pending' = pending \cup {"frequency"}
  /\ UNCHANGED <<enableEffects, timer, timerTrigged, waves>>

SetEnableEffects ==
  /\ enableEffects' = ~enableEffects
  /\ pending' = pending \cup {"enableEffects"}
  /\ UNCHANGED <<frequency, timer, timerTrigged, waves>>

FrequencyCB ==
  /\ "frequency" \in pending /\ pending' = pending \ {"frequency"}
  /\ timer' = (frequency # 0)
  /\ UNCHANGED <<frequency, enableEffects, timerTrigged, waves>>

(* Mutant: the timer is left alone if it has been scheduled before. *)
EnableEffectsCB_Bug ==
  /\ "enableEffects" \in pending /\ pending' = pending \ {"enableEffects"}
  /\ timer' = (enableEffects /\ timerTrigged)
  /\ UNCHANGED <<frequency, enableEffects, timerTrigged, waves>>

EnableEffectsCB ==
  /\ "enableEffects" \in pending /\ pending' = pending \ {"enableEffects"}
  /\ timer' = enableEffects
  /\ UNCHANGED <<frequency, enableEffects, timerTrigged, waves>>

TimerCB ==
  /\ timer
  /\ timerTrigged' = TRUE
  /\ UNCHANGED <<sensors, waves>>

Tick(dt) ==
  IF invalidstate
  THEN /\ geowaves' = InitWaves(NumGeoWaves) /\ texwaves' = InitWaves(NumTexWaves)
       /\ invalidstate' = FALSE
  ELSE /\ geowaves' = UpdateWaves(geowaves, dt, NumGeoWaves)
       /\ texwaves' = UpdateWaves(texwaves, dt, NumTexWaves)
       /\ UNCHANGED invalidstate

(* GLRender of the kit, which lets preShaderCB run only with effects. *)
RenderWaves(dt) ==
  /\ enableEffects /\ timerTrigged
  /\ timerTrigged' = FALSE
  /\ Tick(dt)
  /\ UNCHANGED sensors

OceanNext ==
  \/ SetFrequency \/ SetEnableEffects \/ FrequencyCB \/ EnableEffectsCB
  \/ TimerCB \/ \E dt \in Elapsed : RenderWaves(dt)

OceanSpec == OceanInit /\ [][OceanNext]_oceanvars

OceanFairness ==
  /\ WF_oceanvars(FrequencyCB) /\ WF_oceanvars(EnableEffectsCB)
  /\ WF_oceanvars(TimerCB)
  /\ WF_oceanvars(\E dt \in Elapsed : RenderWaves(dt))
-----------------------------------------------------------------------------
OceanAssumption == /\ NumGeoWaves \in Nat \ {0} /\ NumTexWaves \in Nat \ {0}
                   /\ FullFade \in Nat /\ Elapsed \subseteq Nat

(* A wave fades alone: all the others of its kind are at full height.      *)
OneFades ==
  \A w \in {geowaves, texwaves} : \A i \in DOMAIN w.fade :
    i # w.transIdx => w.fade[i] = FullFade

(* A wave becomes another one only while it is flat, so that the surface   *)
(* does not jump.                                                          *)
Smooth(w, v) == \A i \in DOMAIN w.fade : w.shape[i] # v.shape[i] => v.fade[i] = 0
NoJump == ~invalidstate => Smooth(geowaves, geowaves') /\ Smooth(texwaves, texwaves')
SeaSmooth == [][NoJump]_oceanvars

(* However often the two fields change before their sensors run, and       *)
(* whichever of these runs first: with effects and a frequency, the sea    *)
(* goes on moving, and every wave is replaced in its turn.                 *)
WavesRenewed ==
  <>[](enableEffects /\ frequency # 0) =>
    \A i \in 0..(NumGeoWaves - 1) : []<>(geowaves.transIdx = i)
-----------------------------------------------------------------------------
(* SoPointCloud: the points near the camera as shapes, the rest as points,   *)
(* in two loops to spare changes of GL's state.                              *)

CONSTANTS Clouds,      \* coordinates, by their distance to the near plane
          Counts, Starts, Distances, Undrawn

VARIABLES coords, numPoints, startIndex, detailDistance, shape, pervertex,
          lighting, culling,   \* GL
          cloudDrawn           \* history: [fields at the time, what was drawn]

cloudvars == <<coords, numPoints, startIndex, detailDistance, shape, pervertex, lighting,
               culling, cloudDrawn>>

CloudInit == /\ coords = << >> /\ numPoints = -1 /\ startIndex = 0
             /\ detailDistance = CHOOSE d \in Distances : TRUE
             /\ shape = "CUBE" /\ pervertex = FALSE
             /\ lighting = TRUE /\ culling = TRUE /\ cloudDrawn = Undrawn

SetCloud(c, n, s) ==
    /\ s <= Len(c) /\ n <= Len(c) - s
    /\ coords' = c /\ numPoints' = n /\ startIndex' = s
    /\ UNCHANGED <<detailDistance, shape, pervertex, lighting, culling, cloudDrawn>>
SetLooks(d, sh, b) ==
    /\ detailDistance' = d /\ shape' = sh /\ pervertex' = b
    /\ UNCHANGED <<coords, numPoints, startIndex, lighting, culling, cloudDrawn>>
Others(l, c) ==
    /\ lighting' = l /\ culling' = c
    /\ UNCHANGED <<coords, numPoints, startIndex, detailDistance, shape, pervertex,
                    cloudDrawn>>

(* GLRender: i counts from 0, as the points of the cloud do.                *)
Numpts == IF numPoints < 0 THEN Len(coords) - startIndex ELSE numPoints
Dist(i) == coords[startIndex + i + 1]
Near == {i \in 0..(Numpts - 1) : Dist(i) <= detailDistance}
Far == {i \in 0..(Numpts - 1) : Dist(i) > detailDistance}
(* The material of a sphere counts from the first coordinate, the others'   *)
(* from the first point.                                                    *)
Material(i, as) == IF ~pervertex THEN 0 ELSE IF as = "SPHERE" THEN startIndex + i ELSE i
Solid == shape \in {"CUBE", "SPHERE"}
(* waslightingenabled and islightingenabled after the loops, which end with *)
(* lighting disabled if the shapes, or what was before, had it enabled.     *)
LightingAfter(is) ==
    IF lighting /\ ~is THEN TRUE ELSE IF ~lighting /\ is THEN FALSE ELSE is
(* Mutant: culling is enabled again only for shapes that need no lighting. *)
CullingAfter_Bug(is) == IF is /\ ~culling THEN FALSE ELSE IF ~is /\ culling THEN ~Solid /\ lighting ELSE is
CullingAfter(is) == IF is /\ ~culling THEN FALSE ELSE IF ~is /\ culling THEN TRUE ELSE is
GLRender ==
    /\ lighting' = LightingAfter(FALSE)
    /\ culling' = CullingAfter(IF shape = "BILLBOARD_DIAMOND" THEN FALSE ELSE culling)
    /\ cloudDrawn' = [lit |-> Solid, culled |-> shape # "BILLBOARD_DIAMOND" /\ culling,
                      shapes |-> {<<startIndex + i, Material(i, shape)>> : i \in Near},
                      points |-> {<<startIndex + i, Material(i, "POINT")>> : i \in Far}]
    /\ UNCHANGED <<coords, numPoints, startIndex, detailDistance, shape, pervertex>>

(* getPrimitiveCount and generatePrimitives: [coordinate, material].        *)
PrimitiveCount == IF numPoints < 0 THEN Len(coords) - startIndex ELSE numPoints
Primitives == [i \in 1..Numpts |-> <<startIndex + i - 1, IF pervertex THEN i - 1 ELSE 0>>]

CloudNext == \/ \E c \in Clouds, n \in Counts, s \in Starts : SetCloud(c, n, s)
             \/ \E d \in Distances, b \in BOOLEAN,
                   sh \in {"CUBE", "SPHERE", "BILLBOARD_DIAMOND"} : SetLooks(d, sh, b)
             \/ \E l, c \in BOOLEAN : Others(l, c)
             \/ GLRender

CloudSpec == CloudInit /\ [][CloudNext]_cloudvars

(* The points of a cloud are at whole distances.                            *)
CloudAssumption ==
    /\ \A c \in Clouds : c \in Seq(Int)
    /\ Counts \subseteq Int /\ Starts \subseteq Nat /\ Distances \subseteq Int /\ Distances # {}
-----------------------------------------------------------------------------
(* Drawing leaves GL as it was for the shapes after it, draws each point    *)
(* once, solid shapes lit and thin ones from both sides, and the same       *)
(* points that are counted and generated.                                   *)
CloudStep ==
    cloudDrawn' # cloudDrawn =>
        /\ lighting' = lighting /\ culling' = culling
        /\ cloudDrawn'.lit = Solid /\ (shape = "BILLBOARD_DIAMOND" => ~cloudDrawn'.culled)
        /\ Cardinality(cloudDrawn'.shapes \cup cloudDrawn'.points) = PrimitiveCount
        /\ {d[1] : d \in cloudDrawn'.shapes} \cap {d[1] : d \in cloudDrawn'.points} = {}
        /\ {d[1] : d \in cloudDrawn'.shapes \cup cloudDrawn'.points}
              = {Primitives[i][1] : i \in DOMAIN Primitives}
CloudDrawn == [][CloudStep]_cloudvars
-----------------------------------------------------------------------------
(* Together: one wave of a kind fades at a time, and becomes another where   *)
(* it cannot be seen; a cloud is drawn whole and leaves GL as it was.        *)
DrawnSmoothly == []OneFades /\ SeaSmooth /\ CloudDrawn
=============================================================================

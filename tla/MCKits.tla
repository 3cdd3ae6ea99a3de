---------------------------- MODULE MCKits ----------------------------
(***************************************************************************)
(* Instances of the modules about node kits and nodes that keep lists and  *)
(* scenes in step with their fields and answer events.  None of these knows*)
(* of another, so a behaviour is one of a single part, chosen at the start;*)
(* the other parts stay as they began.                                     *)
(***************************************************************************)
EXTENDS EventNodes, NodeKits

VARIABLE part

(* Wells with gaps, without points, and with nothing but gaps; 99 is        *)
(* undefVal.                                                               *)
MCWells == {[z |-> <<-1, -2, -3, -4>>, left |-> <<5, 99, 2, 3>>,
           right |-> <<-3, -4, -4, 99>>, tops |-> <<2, 7>>],
          [z |-> <<-1, 99, -3, -4>>, left |-> <<1, 2, 3, 1>>,
           right |-> <<1, 1, 2, 2>>, tops |-> <<1>>],
          [z |-> << >>, left |-> << >>, right |-> << >>, tops |-> << >>],
          [z |-> <<-1, -2>>, left |-> <<99, 99>>, right |-> <<0, 5>>, tops |-> << >>]}

(* Two by two by two cubes; a half space keeps all layers but the second.  *)
MCHexes == [n \in 1..8 |->
            LET o == ((n - 1) % 2) + 3 * (((n - 1) \div 2) % 2) + 9 * ((n - 1) \div 4) + 1
            IN  <<o, o + 1, o + 4, o + 3, o + 9, o + 10, o + 13, o + 12>>]
MCLayerOf == [n \in 1..8 |-> (n - 1) \div 4]

(* Two objects share an id; the root has none. *)
MCObjectId == [o \in {"r", "a", "b", "c"} |->
                IF o = "r" THEN "" ELSE IF o = "c" THEN "y" ELSE "x"]

(* Axes with marks at every distance, and turned around; eyes at both ends. *)
AnnotatedAxes == {<<1, 3, 4, 9>>, <<8, 2>>}
AxisViews == [eye: {0, 2}, zoom: {1, 2}]

(* Pies with empty slices and with ones that are collapsed. *)
PieValues == {<< >>, <<1, 3, 4, 4>>, <<0, 3>>, <<3, 1>>, <<0, 0>>, <<1, 0, 3>>, <<3, 3, 1>>,
              <<0, 1, 0>>}

(* Sections ask the callback for their colours. *)
UnsetColors == {Unset}

MCRanges == {[low |-> 0, high |-> 1]}
MCLocations == {-1, 1, 2}
MCHalfSpaces == {1..9}
MCPainted == {<<"node", 14>>, <<"element", 9>>, <<"element", 1>>}
MCAxesValues == {<< >>, <<1, 0, 2>>}
MCColorValues == {<<"white">>, <<"red", "green">>}
MCArrowValues == {<<FALSE, TRUE, TRUE>>}
MCTextValues == {<<"x">>}
MCIds == {"", "x", "y"}

theWell == <<wellFields, scheduled, poslist, leftoffset, rightoffset,
    coordIndex, lineSet, topsList, prevaxis, axis, active, wellDrawn>>
theFem == <<nodes, nodelookup, elements3d, elementlookup, fecolors,
    removehidden, updating, faceset>>
theLegend == <<desc, discreteUseLower, size, imagesize, prevvpsize,
    recalcsize, needimageinit, imageenabled, backgroundenabled, usetexture,
    imageSwitch, legendFrame, image, texture, colorCB, discrete, discretelist,
    bigtick>>
thePath == <<position, coordinates, orientation, timestamp, activePoint,
    dragged>>
theDynamic == <<childList, hasRelativePosition, dynamicPosition, visible,
    parts, drawn>>
theAnnotation == <<annotationPos, renderAxis, axisTickSize, view, text,
    axisidx, lines, age, alarm, regen, touched, collecting>>
thePie == <<valueType, values, colors, sensors, slices>>
theDisplay == <<axes, displayColors, enableArrows, annotations, drawAsLines,
    headlight, displayOrientation, oneshot, axessep, camera, delayedpaths,
    frame>>
theTrack == <<track, timeStamps, trackLength, pointInterval, lineInterval,
    startix, sensor, direct>>
picksvars == <<fields, last, pickedpoint, objectSpacePickedPoint, pending,
    told>>
switchesvars == <<enable, key, behavior, children, down>>
theAngle == <<angle, lastAngle, adder, startDrag, matrix, startMatrix,
    dragging, turned>>
thePan == <<dragenabled, spinenabled, zoomenabled, lastmouseposition, place,
    height, tilt, panMouse, panSeen, grip>>
theRange == <<range, translation, inner, arrows>>
allvars == <<part, theWell, theFem, theLegend, thePath, theDynamic,
    theAnnotation, thePie, theDisplay, theTrack, picksvars, switchesvars,
    theAngle, thePan, theRange>>

Init == /\ part \in {"well", "fem", "legend", "path", "dynamic", "annotation",
                "pie", "display", "track", "picks", "switches",
                "angle", "pan", "range"}
        /\ WellInit /\ FEMInit /\ LegendInit /\ PathInit /\ DynInit
        /\ AxisInit /\ PieInit /\ DisplayInit /\ TrackInit /\ PickInit
        /\ SwitchInit /\ AngleInit /\ PanInit /\ RangeInit
        /\ (part # "pan" => panMouse = 0 /\ lastmouseposition = 0 /\ height = 1)

OnlyWellLog == /\ part = "well" /\ WellNext
               /\ UNCHANGED <<theFem, theLegend, thePath, theDynamic,
                              theAnnotation, thePie, theDisplay, theTrack,
                              picksvars, switchesvars, theAngle, thePan,
                              theRange>>
OnlyFEM == /\ part = "fem" /\ FEMNext
           /\ UNCHANGED <<theWell, theLegend, thePath, theDynamic,
                          theAnnotation, thePie, theDisplay, theTrack,
                          picksvars, switchesvars, theAngle, thePan,
                          theRange>>
OnlyLegend == /\ part = "legend" /\ LegendNext
              /\ UNCHANGED <<theWell, theFem, thePath, theDynamic,
                             theAnnotation, thePie, theDisplay, theTrack,
                             picksvars, switchesvars, theAngle, thePan,
                             theRange>>
OnlyPath == /\ part = "path" /\ PathNext
            /\ UNCHANGED <<theWell, theFem, theLegend, theDynamic,
                           theAnnotation, thePie, theDisplay, theTrack,
                           picksvars, switchesvars, theAngle, thePan,
                           theRange>>
OnlyDynamic == /\ part = "dynamic" /\ DynNext
               /\ UNCHANGED <<theWell, theFem, theLegend, thePath,
                              theAnnotation, thePie, theDisplay, theTrack,
                              picksvars, switchesvars, theAngle, thePan,
                              theRange>>
OnlyAnnotation == /\ part = "annotation" /\ AxisNext
                  /\ UNCHANGED <<theWell, theFem, theLegend, thePath,
                                 theDynamic, thePie, theDisplay, theTrack,
                                 picksvars, switchesvars, theAngle, thePan,
                                 theRange>>
OnlyPie == /\ part = "pie" /\ PieNext
           /\ UNCHANGED <<theWell, theFem, theLegend, thePath, theDynamic,
                          theAnnotation, theDisplay, theTrack, picksvars,
                          switchesvars, theAngle, thePan, theRange>>
OnlyDisplay == /\ part = "display" /\ DisplayNext
               /\ UNCHANGED <<theWell, theFem, theLegend, thePath, theDynamic,
                              theAnnotation, thePie, theTrack, picksvars,
                              switchesvars, theAngle, thePan, theRange>>
OnlyTrail == /\ part = "track" /\ TrackNext
             /\ UNCHANGED <<theWell, theFem, theLegend, thePath, theDynamic,
                            theAnnotation, thePie, theDisplay, picksvars,
                            switchesvars, theAngle, thePan, theRange>>
OnlyPicks == /\ part = "picks" /\ PickNext
             /\ UNCHANGED <<theWell, theFem, theLegend, thePath, theDynamic,
                            theAnnotation, thePie, theDisplay, theTrack,
                            switchesvars, theAngle, thePan, theRange>>
OnlySwitches == /\ part = "switches" /\ SwitchNext
                /\ UNCHANGED <<theWell, theFem, theLegend, thePath,
                               theDynamic, theAnnotation, thePie, theDisplay,
                               theTrack, picksvars, theAngle, thePan,
                               theRange>>
OnlyAngle == /\ part = "angle" /\ AngleNext
             /\ UNCHANGED <<theWell, theFem, theLegend, thePath, theDynamic,
                            theAnnotation, thePie, theDisplay, theTrack,
                            picksvars, switchesvars, thePan, theRange>>
OnlyPan == /\ part = "pan" /\ PanNext
           /\ UNCHANGED <<theWell, theFem, theLegend, thePath, theDynamic,
                          theAnnotation, thePie, theDisplay, theTrack,
                          picksvars, switchesvars, theAngle, theRange>>
OnlySlider == /\ part = "range" /\ RangeNext
              /\ UNCHANGED <<theWell, theFem, theLegend, thePath, theDynamic,
                             theAnnotation, thePie, theDisplay, theTrack,
                             picksvars, switchesvars, theAngle, thePan>>
Next == /\ UNCHANGED part
        /\ \/ OnlyWellLog \/ OnlyFEM \/ OnlyLegend \/ OnlyPath
           \/ OnlyDynamic \/ OnlyAnnotation \/ OnlyPie \/ OnlyDisplay
           \/ OnlyTrail \/ OnlyPicks \/ OnlySwitches \/ OnlyAngle
           \/ OnlyPan \/ OnlySlider

(* What EventNodesProofs and KitsProofs assume of the constants holds here. *)
ASSUME EventsAssumption ==
    /\ PanAssumption /\ AngleAssumption /\ RangeAssumption
    /\ PathAssumption /\ TrackAssumption
ASSUME ShownAssumption ==
    /\ WellAssumption /\ FEMAssumption /\ LegendAssumption
    /\ PieAssumption /\ DisplayAssumption /\ AnnotationAssumption

Spec == Init /\ [][Next]_allvars
=============================================================================

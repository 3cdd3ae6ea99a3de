------------------------------ MODULE NodeKits ------------------------------
(* The kits and nodes that show fields and lists: a well log, a model of    *)
(* finite elements, a legend and the displays.  None knows of another; this *)
(* module states what they promise together.                                *)
EXTENDS WellLogKit, FEMKit, LegendKit, Displays

(* What a kit shows is what it was given: the curves of a well log, turned  *)
(* to the viewer, the surface of what is enabled of a model, objects each   *)
(* once and where they are, the annotations of an axis, slices of a pie and *)
(* displayed axes, and the parts of a legend where its layout has them.     *)
KitsCurrent ==
    /\ DrawnFresh /\ FacesRight     \* SmWellLogKit
    /\ SurfaceShown                 \* SoFEMKit
    /\ OnePlace                     \* SmDynamicObjectKit
    /\ AxisShown                    \* SmAnnotationAxis
    /\ SlicesRight                  \* SmPieChart
    /\ AxesFollow                   \* SmAxisDisplayKit
    /\ OneLayout                    \* LegendKit

(* An edit moves only what it edits: the values of a legend keep their      *)
(* sections, and axes that are displayed are seen from their own place.     *)
EditsKeep == Sectioned /\ SeenFromItsPlace
=============================================================================

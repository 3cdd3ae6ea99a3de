------------------------------ MODULE LegendKit ------------------------------
(* LegendKit: a colour map legend whose size, frame and image are made anew *)
(* when the legend is drawn next after a change that asks for it.  Heights  *)
(* are in rows; a normalised value v is a number of 0..Unit, and a place    *)
(* just beside it is told from it by doubling: 2v-1, 2v, 2v+1.              *)
EXTENDS Integers, FiniteSets, SequencesExt

CONSTANTS
    Unit,        \* the normalised value 1.0
    Viewports,   \* heights of the viewport
    LineHeight,  \* FONT_HEIGHT + FONT_SPACE
    Space,       \* the field space
    Callbacks,   \* functions from values to colours
    Colors,      \* colours of sections, Unset for one that asks the callback
    TickValues,  \* values of ticks and discrete colours
    MaxTicks, MaxDiscrete,    \* bounds on the ticks and the discrete colours
    Unset

LegendAssumption == /\ Unit \in Nat \ {0} /\ LineHeight \in Nat /\ Space \in Nat
                    /\ \A v \in Viewports : v \in Int
                    /\ \A t \in TickValues : t \in Nat

VARIABLES
    desc, discreteUseLower,    \* fields; desc: lines of description, on top
    size, imagesize,           \* heights of the legend and of its image
    prevvpsize, recalcsize, needimageinit,
    imageenabled, backgroundenabled, usetexture, imageSwitch,
    legendFrame,    \* the part backgroundShape: Unset or the layout it frames
    image, texture, \* the rows of the image; how many of them the texture has
    colorCB, discrete, discretelist, bigtick

fieldvars  == <<desc, discreteUseLower>>
layoutvars == <<size, imagesize, prevvpsize>>
picturevars == <<image, texture, needimageinit>>
shownvars == <<imageenabled, backgroundenabled, usetexture, imageSwitch, legendFrame>>
datavars   == <<colorCB, discrete, discretelist, bigtick>>
legendvars == <<fieldvars, layoutvars, recalcsize, picturevars, shownvars, datavars>>

Layout == <<size, imagesize>>
Unmade == <<0, 0>>

LegendInit ==
    /\ desc = 1 /\ discreteUseLower = FALSE
    /\ size = 0 /\ imagesize = 0
    /\ prevvpsize = -1 /\ recalcsize = TRUE /\ needimageinit = FALSE
    /\ imageenabled = TRUE /\ backgroundenabled = TRUE /\ usetexture = FALSE
    /\ imageSwitch = 0 /\ legendFrame = Unmade
    /\ image = << >> /\ texture = 0
    /\ colorCB = Unset /\ discrete = FALSE /\ discretelist = << >> /\ bigtick = << >>

(* getLineColor: a colour is the one that was set, or what the callback     *)
(* says of a (doubled) value, or white.                                     *)
White == <<"white">>
Called(at) == IF colorCB = Unset THEN White ELSE <<colorCB, at>>
Section(nval) ==
    Min({i \in DOMAIN discretelist : \/ i = Len(discretelist)
                                     \/ discretelist[i].uppernval >= nval})
SectionColor(i) ==
    LET below == 2 * discretelist[i].uppernval - 1
        above == IF i = 1 THEN 0 ELSE 2 * discretelist[i - 1].uppernval + 1
        val   == IF discreteUseLower THEN above ELSE below
    IN  IF discretelist[i].color # Unset THEN discretelist[i].color
        ELSE Called(Max({0, Min({val, 2 * Unit})}))
LineColor(nval) == IF ~discrete THEN Called(2 * nval)
                   ELSE IF discretelist = << >> THEN White
                   ELSE SectionColor(Section(nval))

(* initImage and reallyInitImage, with as many rows as the image is high;   *)
(* row y is that of the value y / h, here rounded down to a unit.           *)
Rows(h) == [y \in 1..h |-> LineColor(((y - 1) * Unit) \div h)]

(* recalcSize: the layout for a viewport of height v.                       *)
DescSize == 4 * Space + desc * LineHeight
NewSize(v) == Max({v, DescSize + 2})
NewImage(v) == NewSize(v) - Space - DescSize
SwitchFor(h) == IF h <= 0 \/ ~imageenabled THEN Unset
                ELSE IF usetexture THEN 1 ELSE 0

Stale(v) == v # prevvpsize \/ recalcsize

(* initBackground does nothing while the layout is to be calculated anew.   *)
Framed(part, layout) == IF part = Unset THEN Unset ELSE layout

(* Mutant: the frame is made before recalcsize is reset. *)
Recalc_Bug(v) ==
    LET h == Max({1, NewImage(v)})
    IN  /\ size' = NewSize(v) /\ imagesize' = h
        /\ imageSwitch' = SwitchFor(NewImage(v))
        /\ legendFrame' = IF recalcsize THEN legendFrame
                          ELSE Framed(legendFrame, <<NewSize(v), h>>)
        /\ recalcsize' = FALSE /\ prevvpsize' = v
Recalc(v) ==
    LET h == Max({1, NewImage(v)})
    IN  /\ size' = NewSize(v) /\ imagesize' = h
        /\ imageSwitch' = SwitchFor(NewImage(v))
        /\ legendFrame' = Framed(legendFrame, <<NewSize(v), h>>)
        /\ recalcsize' = FALSE /\ prevvpsize' = v

(* GLRender with preRender in it: recalcSize, then initImage if either asks *)
(* for it.                                                                  *)
RenderLegend(v) ==
    /\ Stale(v) \/ needimageinit
    /\ IF Stale(v) THEN Recalc(v)
       ELSE UNCHANGED <<layoutvars, recalcsize, imageSwitch, legendFrame>>
    /\ image' = Rows(imagesize') /\ texture' = imagesize'
    /\ needimageinit' = FALSE
    /\ UNCHANGED <<fieldvars, imageenabled, backgroundenabled, usetexture, datavars>>

(* notify: fields that change the layout.  discreteUseLower is not one.     *)
SetLegendField ==
    \/ /\ desc' = 1 - desc /\ recalcsize' = TRUE
       /\ UNCHANGED <<discreteUseLower, layoutvars, picturevars, shownvars, datavars>>
    \/ /\ discreteUseLower' = ~discreteUseLower
       /\ UNCHANGED <<desc, layoutvars, recalcsize, picturevars, shownvars, datavars>>

(* useTextureNotImage; with the image disabled it keeps the wish alone.     *)
UseTexture(onoff) ==
    /\ usetexture' = onoff
    /\ IF imageenabled THEN imageSwitch' = (IF onoff THEN 1 ELSE 0) /\ recalcsize' = TRUE
       ELSE UNCHANGED <<imageSwitch, recalcsize>>
    /\ UNCHANGED <<fieldvars, layoutvars, picturevars, imageenabled,
                   backgroundenabled, legendFrame, datavars>>

(* enableBackground, which makes the part if there is none.                 *)
EnableBackground(onoff) ==
    /\ backgroundenabled' = onoff
    /\ legendFrame' = IF ~onoff THEN Unset
                      ELSE IF ~recalcsize THEN Layout
                      ELSE IF legendFrame = Unset THEN Unmade ELSE legendFrame
    /\ UNCHANGED <<fieldvars, layoutvars, recalcsize, picturevars, imageenabled,
                   usetexture, imageSwitch, datavars>>

(* enableImage: both the image and its frame come back with the wishes of   *)
(* the application as they were last stated.                                *)
(* Mutant: the switch is left to the drawing. *)
EnableImage_Bug(onoff) ==
    /\ imageenabled' = onoff
    /\ IF onoff
       THEN /\ legendFrame' = IF ~backgroundenabled THEN Unset
                              ELSE IF legendFrame = Unset THEN Unmade ELSE legendFrame
            /\ recalcsize' = TRUE
       ELSE legendFrame' = Unset /\ UNCHANGED recalcsize
    /\ UNCHANGED <<imageSwitch, fieldvars, layoutvars, picturevars, backgroundenabled,
                   usetexture, datavars>>
EnableImage(onoff) ==
    /\ imageenabled' = onoff
    /\ IF onoff
       THEN /\ imageSwitch' = IF usetexture THEN 1 ELSE 0
            /\ legendFrame' = IF ~backgroundenabled THEN Unset
                              ELSE IF legendFrame = Unset THEN Unmade ELSE legendFrame
            /\ recalcsize' = TRUE
       ELSE imageSwitch' = Unset /\ legendFrame' = Unset /\ UNCHANGED recalcsize
    /\ UNCHANGED <<fieldvars, layoutvars, picturevars, backgroundenabled,
                   usetexture, datavars>>

unlaid == <<fieldvars, layoutvars, recalcsize, shownvars>>

(* setColorCB and setImageTransparency ask for a redraw, not for an image.  *)
SetColorCB(cb) == /\ colorCB' = cb
                  /\ UNCHANGED <<unlaid, picturevars, discrete, discretelist, bigtick>>

(* Sorted insertion, behind the entries that are not above.                 *)
Place(values, n) == 1 + Cardinality({i \in DOMAIN values : values[i] <= n})
AddBigTick(tick) ==
    /\ Len(bigtick) < MaxTicks
    /\ bigtick' = InsertAt(bigtick, Place(bigtick, tick), tick)
    /\ UNCHANGED <<unlaid, picturevars, colorCB, discrete, discretelist>>

(* Mutant: the new section goes to the end of the list. *)
WithDiscrete_Bug(list, upper, color) ==
    Append(list, [uppernval |-> upper, color |-> color])
WithDiscrete(list, upper, color) ==
    InsertAt(list, Place([i \in DOMAIN list |-> list[i].uppernval], upper),
             [uppernval |-> upper, color |-> color])
AddDiscreteColor(upper, color) ==
    /\ Len(discretelist) < MaxDiscrete
    /\ discretelist' = WithDiscrete(discretelist, upper, color)
    /\ UNCHANGED <<unlaid, picturevars, colorCB, discrete, bigtick>>

(* setDiscreteMode: with a callback and big ticks, one section per tick     *)
(* that is more than a row above the bottom (a 512th before the layout is   *)
(* known).                                                                  *)
AboveBottom(tick) == tick * (IF recalcsize THEN 512 ELSE imagesize) > Unit
TickSections ==
    LET list[i \in 0..Len(bigtick)] ==
          IF i = 0 THEN << >>
          ELSE IF AboveBottom(bigtick[i]) THEN WithDiscrete(list[i - 1], bigtick[i], Unset)
          ELSE list[i - 1]
    IN  list[Len(bigtick)]
SetDiscreteMode(onoff) ==
    /\ discretelist' = IF ~discrete /\ onoff /\ colorCB # Unset /\ bigtick # << >>
                       THEN TickSections ELSE discretelist
    /\ discrete' = onoff /\ needimageinit' = TRUE
    /\ UNCHANGED <<unlaid, image, texture, colorCB, bigtick>>

ClearData == /\ discretelist' = << >> /\ bigtick' = << >> /\ recalcsize' = TRUE
             /\ UNCHANGED <<fieldvars, layoutvars, picturevars, shownvars, colorCB, discrete>>

LegendNext ==
    \/ \E v \in Viewports : RenderLegend(v)
    \/ SetLegendField \/ ClearData
    \/ \E onoff \in BOOLEAN : \/ UseTexture(onoff) \/ EnableBackground(onoff)
                              \/ EnableImage(onoff) \/ SetDiscreteMode(onoff)
    \/ \E cb \in Callbacks : SetColorCB(cb)
    \/ \E tick \in TickValues : \/ AddBigTick(tick)
                           \/ \E color \in Colors : AddDiscreteColor(tick, color)

-----------------------------------------------------------------------------
(* Once the layout is calculated, everything in the legend follows the one  *)
(* layout: the frame if there is one, the pictures unless they are due, and *)
(* the switch shows the picture the application wants if there is room.     *)
OneLayout == ~recalcsize =>
    /\ legendFrame \in {Unset, Layout}
    /\ needimageinit \/ (Len(image) = imagesize /\ texture = imagesize)
    /\ imageSwitch = SwitchFor(size - Space - DescSize)
    /\ legendFrame # Unset => backgroundenabled

(* A row drawn in discrete mode has a colour of the section it lies in: of *)
(* those with the lowest upper end at or above it, or else of the last.     *)
Uppers == {discretelist[i].uppernval : i \in DOMAIN discretelist}
Above(nval) == IF \E u \in Uppers : u >= nval
               THEN Min({u \in Uppers : u >= nval}) ELSE Max(Uppers)
Sectioned == [][needimageinit /\ ~needimageinit' /\ discrete /\ Uppers # {} =>
    \A y \in 1..imagesize' : \E i \in DOMAIN discretelist :
        /\ discretelist[i].uppernval = Above(((y - 1) * Unit) \div imagesize')
        /\ image'[y] = SectionColor(i)]_legendvars
=============================================================================

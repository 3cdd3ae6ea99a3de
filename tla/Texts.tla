------------------------------- MODULE Texts --------------------------------
(* Texts: a set of them with a cache of glyphs, the collector that draws them*)
(* late, and fonts in an image.                                              *)
EXTENDS Integers, FiniteSets, SequencesExt
-----------------------------------------------------------------------------
(* SoText2Set: a set of short texts, the ones nearest to the camera drawn,   *)
(* from a cache of glyphs that is built when a field or the font changed.    *)
(* Along the line of writing only: a text is the sequence of its letters, a  *)
(* place the signed distance from the camera, and the font the width of its  *)
(* letters; a glyph advances by its width.                                   *)

CONSTANTS Strings, Positions, Counts,     \* values of the fields
          Widths(_, _),   \* of a letter, in a font
          Fonts,
          Visible,        \* the places between the planes
          Undefined       \* after a write beyond the end of textdistancelist

VARIABLES string, position, justification, renderOutline, maxStringsToRender,
          font,                                    \* of the traversal state
          dirty, prevfont, glyphs, bboxes,         \* the cache; prevfont 0: none
          textdistancelist,                        \* its size, -1 for NULL
          drawn                                    \* by the last rendering

textfields == <<string, position, justification, renderOutline, maxStringsToRender>>
cache      == <<prevfont, glyphs, bboxes>>

TextInit == /\ string = << << >> >> /\ position = <<1>> /\ justification = <<"left">>
            /\ renderOutline = FALSE /\ maxStringsToRender = -1
            /\ font = CHOOSE f \in Fonts : TRUE
            /\ dirty = TRUE /\ prevfont = 0 /\ glyphs = << >> /\ bboxes = << >>
            /\ textdistancelist = -1 /\ drawn = << >>

(* Setting a field: notify.  What was drawn is of the past then.             *)
Forget == drawn' = IF drawn = Undefined THEN Undefined ELSE << >>
SetField == dirty' = TRUE /\ Forget /\ UNCHANGED <<font, cache, textdistancelist>>
SetString(s) == string' = s /\ SetField /\
    UNCHANGED <<position, justification, renderOutline, maxStringsToRender>>
SetPosition(p) == position' = p /\ SetField /\
    UNCHANGED <<string, justification, renderOutline, maxStringsToRender>>
SetJustification(j) == justification' = j /\ SetField /\
    UNCHANGED <<string, position, renderOutline, maxStringsToRender>>
SetOutline == renderOutline' = ~renderOutline /\ SetField /\
    UNCHANGED <<string, position, justification, maxStringsToRender>>
SetMax(n) == maxStringsToRender' = n /\ SetField /\
    UNCHANGED <<string, position, justification, renderOutline>>
OtherFont(f) == font' = f /\ Forget /\ UNCHANGED <<textfields, dirty, cache, textdistancelist>>

(* buildGlyphCache: where each glyph of a text begins.  The box of a text is *)
(* extended by the far corner of each glyph, and only texts that are not     *)
(* empty have one.                                                           *)
Advance(letter) == Widths(letter, font) + (IF renderOutline THEN 1 ELSE 0)
Penpos(text) == [j \in 1..Len(text) |->
    FoldLeft(LAMBDA sum, letter : sum + Advance(letter), 0, SubSeq(text, 1, j - 1))]
Box(text) == LET far == {Penpos(text)[j] + Widths(text[j], font) : j \in DOMAIN text}
             IN  <<Min(far), Max(far)>>
Stringwidth(text) == IF text = << >> THEN 0 ELSE Box(text)[2] - Box(text)[1]
Built == [glyphs |-> [i \in DOMAIN string |->
                        [letters |-> string[i], at |-> Penpos(string[i]),
                         advance |-> [j \in DOMAIN string[i] |-> Advance(string[i][j])],
                         width |-> Stringwidth(string[i])]],
          bboxes |-> LET full == SelectSeq(string, LAMBDA text : text # << >>)
                     IN  [i \in DOMAIN full |-> Box(full[i])]]
(* Mutant: a new font does not build the cache again. *)
ShouldBuild_Bug == prevfont = 0 \/ dirty
ShouldBuild == prevfont = 0 \/ dirty \/ prevfont # font
BuildGlyphCache ==
    /\ glyphs' = IF ShouldBuild THEN Built.glyphs ELSE glyphs
    /\ bboxes' = IF ShouldBuild THEN Built.bboxes ELSE bboxes
    /\ prevfont' = IF ShouldBuild THEN font ELSE prevfont
    /\ dirty' = FALSE

PlaceOf(i) == IF i \in DOMAIN position THEN position[i] ELSE 0
Justified(i) == IF i \in DOMAIN justification THEN justification[i] ELSE "left"
Distance(i) == IF PlaceOf(i) < 0 THEN -PlaceOf(i) ELSE PlaceOf(i)
(* Twice the shift of a text, in rendering and in picking.                   *)
Shift(i, width) == CASE Justified(i) = "left"   -> 0
                     [] Justified(i) = "right"  -> 2 * width
                     [] Justified(i) = "center" -> width

(* The orders qsort may leave.                                               *)
Orders == {o \in [DOMAIN string -> DOMAIN string] :
             /\ IsInjective(o)
             /\ \A i, j \in DOMAIN string : i < j =>
                  IF maxStringsToRender = -1 THEN o[i] < o[j]
                  ELSE Distance(o[i]) <= Distance(o[j])}
Counter == IF maxStringsToRender = -1 \/ maxStringsToRender > Len(string)
           THEN Len(string) ELSE maxStringsToRender

(* GLRender.  The list is made when it is NULL only: the cache that was      *)
(* built a moment before has cleared the flag that would make it anew.       *)
DrawnText(i) == [index |-> i,
                 letters |-> [j \in DOMAIN glyphs'[i].letters |->
                    [letter |-> glyphs'[i].letters[j],
                     at |-> 2 * glyphs'[i].at[j] - Shift(i, glyphs'[i].width)]]]
GLRender ==
    /\ drawn # Undefined
    /\ BuildGlyphCache
    /\ textdistancelist' = IF textdistancelist = -1 THEN Len(string) ELSE textdistancelist
    /\ IF textdistancelist' < Len(string) THEN drawn' = Undefined
       ELSE \E o \in Orders :
              LET shown == SelectSeq(SubSeq(o, 1, Counter), LAMBDA i : PlaceOf(i) \in Visible)
              IN  drawn' = [k \in DOMAIN shown |-> DrawnText(shown[k])]
    /\ UNCHANGED <<textfields, font>>

(* getQuad: where the box of a text begins, justified by the width of the   *)
(* box.  rayPick: the first letter whose cell of the box the place x is in.  *)
Quad(i) == 2 * bboxes[i][1] - Shift(i, bboxes[i][2] - bboxes[i][1])
Picked(i, x) ==
    LET in(j) == LET from == Quad(i) + 2 * (glyphs[i].at[j] - bboxes[i][1])
                 IN  from <= 2 * x /\ 2 * x <= from + 2 * glyphs[i].advance[j]
        cells == {j \in DOMAIN glyphs[i].letters : in(j)}
    IN  IF bboxes[i][1] = bboxes[i][2] \/ cells = {} THEN 0 ELSE Min(cells)

TextNext == \/ \E s \in Strings : SetString(s)
            \/ \E p \in Positions : SetPosition(p)
            \/ \E j \in {<<"left">>, <<"right", "center">>} : SetJustification(j)
            \/ \E n \in Counts : SetMax(n)
            \/ \E f \in Fonts : OtherFont(f)
            \/ SetOutline \/ GLRender
-----------------------------------------------------------------------------
(* Right after a rendering: no more texts than asked for are drawn, none     *)
(* while a nearer one that is visible is not, each with the letters of its   *)
(* string in the font of the scene.                                          *)
JustDrawn == drawn # Undefined /\ drawn # << >>
NearestDrawn == JustDrawn =>
    LET shown == {drawn[k].index : k \in DOMAIN drawn} IN
    /\ maxStringsToRender # -1 => Len(drawn) <= maxStringsToRender
    /\ \A i \in shown, j \in DOMAIN string :
          (/\ maxStringsToRender # -1 /\ PlaceOf(j) \in Visible
           /\ Distance(j) < Distance(i)) => j \in shown
    /\ Cardinality(shown) = Len(drawn)
FontDrawn == JustDrawn =>
    \A k \in DOMAIN drawn : LET letters == drawn[k].letters IN
        /\ [j \in DOMAIN letters |-> letters[j].letter] = string[drawn[k].index]
        /\ \A j \in 1..(Len(letters) - 1) :
             letters[j + 1].at - letters[j].at = 2 * Advance(letters[j].letter)

(* The letter a pick finds is one that is drawn there, unless a text before  *)
(* is empty: then the boxes are those of other texts.                        *)
PicksWhatIsDrawn == JustDrawn =>
    \A k \in DOMAIN drawn : LET i == drawn[k].index IN
        (\A b \in 1..i : string[b] # << >>) =>
            \A x \in -6..6 : Picked(i, x) # 0 =>
                LET at == drawn[k].letters[Picked(i, x)].at
                IN  at <= 2 * x /\ 2 * x <= at + 2 * Advance(string[i][Picked(i, x)])
-----------------------------------------------------------------------------
(* SmTextureText2 and SmTextureText2Collector: texts below a collector hand  *)
(* themselves to an element of the traversal state, and the collector draws  *)
(* them when its children are done; other texts draw themselves.  A frame is *)
(* a pass for opaque shapes and one for transparent ones.  A scene is the    *)
(* sequence of its nodes; [kind |-> "collector"] and [kind |-> "end"] are a  *)
(* collector's begin and end.                                                *)

CONSTANTS Scenes,      \* no collector is below another
          Near, Far,   \* distances of the planes
          DefaultFont

VARIABLES scene, pass, pc,
          collecting, storeitems, items,  \* SmTextureText2CollectorElement
          collectorFont, fontstack,                \* SmTextureFontElement
          collectorDrawn                           \* in this frame

element  == <<collecting, storeitems, items>>

CollectInit == /\ scene = << >> /\ pass = "opaque" /\ pc = 1
               /\ collecting = FALSE /\ storeitems = FALSE /\ items = << >>
               /\ collectorFont = DefaultFont /\ fontstack = << >> /\ collectorDrawn = << >>

At(kind) == pc <= Len(scene) /\ scene[pc].kind = kind /\ pc' = pc + 1
node     == scene[pc]

(* SmTextureFont::doAction *)
FontNode == /\ At("font") /\ collectorFont' = node.font
            /\ UNCHANGED <<scene, pass, element, fontstack, collectorDrawn>>

(* GLRenderBelowPath, or GLRenderInPath where transparent shapes are drawn   *)
(* by their paths; startCollecting.                                          *)
(* Mutant: texts are stored in every pass. *)
Collector_Bug == /\ At("collector")
                 /\ collecting' = TRUE /\ items' = << >> /\ storeitems' = TRUE
                 /\ fontstack' = Append(fontstack, collectorFont)
                 /\ UNCHANGED <<scene, pass, collectorFont, collectorDrawn>>
Collector == /\ At("collector")
             /\ collecting' = TRUE /\ items' = << >>
             /\ storeitems' = (pass = "opaque")
             /\ fontstack' = Append(fontstack, collectorFont)
             /\ UNCHANGED <<scene, pass, collectorFont, collectorDrawn>>

(* renderText: what is behind the camera or too far away is left out, and    *)
(* GL clips what is not between the planes.                                  *)
Clipped(dist) == dist <= Near \/ dist > Far
InRange(text) == text.maxRange <= 0 \/ text.dist <= text.maxRange
RenderText(collected) ==
    SelectSeq(collected, LAMBDA item : /\ item.text.dist >= 0 /\ InRange(item.text)
                                       /\ ~Clipped(item.text.dist))

(* finishCollecting leaves the items to the next collector.                  *)
EndCollector ==
    /\ At("end")
    /\ collecting' = FALSE /\ storeitems' = FALSE /\ UNCHANGED items
    /\ collectorDrawn' = IF storeitems THEN collectorDrawn \o RenderText(items) ELSE collectorDrawn
    /\ collectorFont' = Last(fontstack) /\ fontstack' = Front(fontstack)
    /\ UNCHANGED <<scene, pass>>

(* The texts of a node, by stringIndex where there is one; in the first      *)
(* colour, or in that with the string's number.  A place must not be missing *)
(* where there are several: the code reads beyond the field then.            *)
Indices(n) == IF n.indices # << >> THEN n.indices ELSE [i \in DOMAIN n.strings |-> i]
TextsOf(n) == [i \in DOMAIN Indices(n) |->
    LET idx == Indices(n)[i]
        pos == IF idx \in DOMAIN n.dists THEN n.dists[idx] ELSE 0
    IN  [string |-> n.strings[Min({idx, Len(n.strings)})], dist |-> pos,
         maxRange |-> n.maxRange, color |-> IF n.perpart THEN idx ELSE 1]]
Items(n) == [i \in DOMAIN Indices(n) |-> [text |-> TextsOf(n)[i], font |-> collectorFont]]

(* GLRender and renderString.  A text is collected if every string has its   *)
(* place; a single place is that of all strings, as lines of one text.       *)
Nothing(n)   == n.indices = << >> /\ n.strings \in {<< >>, <<"">>}
Collected(n) == collecting /\ (Len(n.strings) = Len(n.dists) \/ n.indices # << >>)
Lines(n) ==
    IF Len(n.dists) > 1 \/ n.indices # << >> THEN Items(n)
    ELSE LET dist == IF n.dists = << >> THEN 0 ELSE n.dists[1]
         IN  [i \in DOMAIN n.strings |->
                [text |-> [string |-> n.strings[i], dist |-> dist,
                           maxRange |-> n.maxRange, color |-> 1], font |-> collectorFont]]
RenderString(lines) ==
    SelectSeq(lines, LAMBDA item : ~Clipped(item.text.dist) /\ InRange(item.text))
Text ==
    /\ At("text")
    /\ items' = IF ~Nothing(node) /\ Collected(node) /\ storeitems
                THEN items \o Items(node) ELSE items
    /\ collectorDrawn' = IF Nothing(node) \/ Collected(node)
                   \/ (pass = "transparent") # node.transparent THEN collectorDrawn
                ELSE collectorDrawn \o RenderString(Lines(node))
    /\ UNCHANGED <<scene, pass, collecting, storeitems, collectorFont, fontstack>>

NextPass == /\ pc > Len(scene) /\ pc' = 1 /\ collectorFont' = DefaultFont
            /\ pass' = IF pass = "opaque" THEN "transparent" ELSE "opaque"
            /\ collectorDrawn' = IF pass = "opaque" THEN collectorDrawn ELSE << >>
            /\ IF pass = "opaque" THEN UNCHANGED scene ELSE scene' \in Scenes
            /\ UNCHANGED <<element, fontstack>>

CollectNext == FontNode \/ Collector \/ EndCollector \/ Text \/ NextPass
-----------------------------------------------------------------------------
(* At the end of a frame each text between the planes was drawn once, with   *)
(* the font before it in its separator, in its own colour, however passes    *)
(* and collectors divided the work.                                          *)
FontAt(i) ==
    LET open(k) == ~\E e \in k..i : scene[e].kind = "end"
                       /\ ~\E c \in k..e : scene[c].kind = "collector"
        fonts == {k \in 1..i : scene[k].kind = "font" /\ open(k)}
    IN  IF fonts = {} THEN DefaultFont ELSE scene[Max(fonts)].font
Wanted(i) ==
    IF scene[i].kind # "text" \/ Nothing(scene[i]) THEN << >>
    ELSE LET texts == IF Len(scene[i].dists) > 1 \/ scene[i].indices # << >>
                      THEN TextsOf(scene[i])
                      ELSE [t \in DOMAIN Lines(scene[i]) |-> Lines(scene[i])[t].text]
         IN  SelectSeq([t \in DOMAIN texts |-> [text |-> texts[t], font |-> FontAt(i)]],
                       LAMBDA item : ~Clipped(item.text.dist) /\ InRange(item.text))
Times(item, s) == Cardinality({k \in DOMAIN s : s[k] = item})
TextsOnce ==
    pc > Len(scene) /\ pass = "transparent" =>
        LET wanted == FlattenSeq([i \in DOMAIN scene |-> Wanted(i)])
        IN  \A item \in Range(wanted) \cup Range(collectorDrawn) :
                Times(item, collectorDrawn) = Times(item, wanted)
-----------------------------------------------------------------------------
(* SmTextureFont::FontImage: the glyphs of a font in one image, of which GL  *)
(* has a copy; and where SmTextureText2 and its collector put a text with    *)
(* such a font, and find it again for a pick.  Vertical places are pixels    *)
(* above the point of the text, horizontal ones pixels to the right of it.   *)

CONSTANTS Letters,
          Glyphs,      \* [gw, gfx, xoffset, opaque]: the pixels to advance, the
                       \* width and offset of the bitmap, its opaque columns
          Kernings,    \* values of setKerning
          SlotWidth,   \* glyphsize[0]
          Texts,       \* sequences of letters
          Ascents, Descents

VARIABLES image,       \* the glyph of each letter
          kerningdict, \* [<<letter, next>> |-> kerning]
          glimage,     \* NULL as << >>, or the copy GL has
          shown        \* the letters of the last text that was drawn

fontvars == <<image, kerningdict, glimage, shown>>

Blank == [gw |-> 0, gfx |-> 0, xoffset |-> 0, opaque |-> {}]
FontInit == /\ image = [l \in Letters |-> Blank]
            /\ kerningdict = [p \in {} |-> 0] /\ glimage = << >> /\ shown = << >>

(* addGlyph and copyGlyph; a negative width stands for that of the slot.     *)
(* Mutant: GL keeps its copy. *)
AddGlyph_Bug(l, glyph) ==
    /\ image' = [image EXCEPT ![l] =
                    [glyph EXCEPT !.gfx = IF @ < 0 THEN SlotWidth ELSE @]]
    /\ shown' = << >> /\ UNCHANGED <<glimage, kerningdict>>
AddGlyph(l, glyph) ==
    /\ glimage' = << >>
    /\ image' = [image EXCEPT ![l] =
                    [glyph EXCEPT !.gfx = IF @ < 0 THEN SlotWidth ELSE @]]
    /\ shown' = << >> /\ UNCHANGED kerningdict
SetKerning(l, next, kerning) ==
    /\ kerningdict' = [p \in DOMAIN kerningdict \cup {<<l, next>>} |->
                          IF p = <<l, next>> THEN kerning ELSE kerningdict[p]]
    /\ shown' = << >> /\ UNCHANGED <<image, glimage>>

GetKerning(l, next) == IF <<l, next>> \in DOMAIN kerningdict
                       THEN kerningdict[<<l, next>>] ELSE image[l].gw
(* Where letter j of a text stands, and past the last one its width; the     *)
(* letter after the last is 0.                                               *)
Pen(text, j) == LET at(k) == IF k <= Len(text) THEN text[k] ELSE 0
                IN  FoldLeft(LAMBDA sum, k : sum + GetKerning(at(k), at(k + 1)),
                             0, [k \in 1..(j - 1) |-> k])
StringWidth(text) == Pen(text, Len(text) + 1)

(* renderString, with the texture of getGLImage.                             *)
FontRenderString(text) ==
    /\ glimage' = IF glimage = << >> THEN <<image>> ELSE glimage
    /\ shown' = [j \in DOMAIN text |->
                   [at |-> Pen(text, j) + image[text[j]].xoffset, gfx |-> image[text[j]].gfx,
                    glyph |-> glimage'[1][text[j]]]]
    /\ UNCHANGED <<image, kerningdict>>

(* rayPick with pickOnPixel: letters are tried until the next one begins     *)
(* behind the point.                                                         *)
Tried(text, j, px) ==
    /\ \A k \in 2..j : Pen(text, k) + image[text[k]].xoffset <= px
    /\ Pen(text, j) + image[text[j]].gw > px
PixelPicked(text, px) ==
    \E j \in DOMAIN text : /\ Tried(text, j, px)
        /\ px - Pen(text, j) - image[text[j]].xoffset \in image[text[j]].opaque

FontNext == \/ \E l \in Letters, glyph \in Glyphs : AddGlyph(l, glyph)
            \/ \E l, next \in Letters, kerning \in Kernings : SetKerning(l, next, kerning)
            \/ \E text \in Texts : FontRenderString(text)
-----------------------------------------------------------------------------
(* Layout of one text of a width w *)
Height(ascent, descent) == ascent + descent + 1
Left(halign, w) == CASE halign = "LEFT" -> 0 [] halign = "RIGHT" -> -w
                     [] halign = "CENTER" -> -(w \div 2)
(* SmTextureText2::renderString, the lower side of line i of n.              *)
Bottom(valign, i, ascent, descent, leading, n) ==
    LET h == n * (Height(ascent, descent) + leading) - leading
        ymax == CASE valign = "BOTTOM" -> ascent [] valign = "TOP" -> 0
                  [] valign = "VCENTER" -> ascent - (h \div 2)
    IN  ymax - i * Height(ascent, descent)
(* SmTextureText2Collector::renderText.                                      *)
CollectedBottom(valign, ascent, descent) ==
    CASE valign = "BOTTOM" -> -descent [] valign = "TOP" -> -descent - ascent
      [] valign = "VCENTER" -> -descent - (ascent \div 2)
(* buildStringQuad: twice the left and the lower side of what is picked.     *)
QuadLeft2(halign, w) == CASE halign = "LEFT" -> 0 [] halign = "RIGHT" -> -2 * w + 1
                          [] halign = "CENTER" -> -w
QuadBottom2(valign, ascent, descent) ==
    CASE valign = "BOTTOM" -> -2 * descent [] valign = "TOP" -> -2 * Height(ascent, descent)
      [] valign = "VCENTER" -> -Height(ascent, descent)

(* A text shows the glyphs its font has now, whenever they were added.       *)
GlyphsCurrent == \A j \in DOMAIN shown :
    /\ shown[j].glyph.opaque \in {image[l].opaque : l \in Letters}
    /\ \E l \in Letters : shown[j].glyph = image[l] /\ shown[j].gfx = image[l].gfx

(* A pick on the pixels of a text hits where one is opaque, if the bitmaps   *)
(* of its letters end where the next letter begins at the latest.            *)
Fits(text) == \A j \in DOMAIN text : LET g == image[text[j]] IN
                 g.xoffset <= 0 /\ g.gfx + g.xoffset <= g.gw
InOrder(text) == \A j \in 1..(Len(text) - 1) :
    Pen(text, j) + image[text[j]].xoffset <= Pen(text, j + 1) + image[text[j + 1]].xoffset
PixelsRight == \A text \in Texts : Fits(text) /\ InOrder(text) =>
    \A px \in 0..StringWidth(text) :
        PixelPicked(text, px) =
            \E j \in DOMAIN text : \E x \in image[text[j]].opaque :
                Pen(text, j) + image[text[j]].xoffset + x = px

(* A text is at the same place, to a pixel, whether it draws itself or a     *)
(* collector draws it, and is picked there; centred vertically it is off by  *)
(* the depth of its letters, and half their height.                          *)
Off(a, b, by) == a - b \in (-by)..by
Alike(halign, valign, w, ascent, descent) ==
    /\ Off(QuadLeft2(halign, w), 2 * Left(halign, w), 1)
    /\ LET own == Bottom(valign, 1, ascent, descent, 0, 1)
           by == IF valign = "VCENTER" THEN 2 * (descent + 2) ELSE 2
       IN  /\ Off(2 * own, 2 * CollectedBottom(valign, ascent, descent), by)
           /\ Off(2 * own, QuadBottom2(valign, ascent, descent), by)
LaidOutAlike == \A text \in Texts, ascent \in Ascents, descent \in Descents :
    \A halign \in {"LEFT", "RIGHT", "CENTER"}, valign \in {"BOTTOM", "TOP", "VCENTER"} :
        Alike(halign, valign, StringWidth(text), ascent, descent)
=============================================================================

------------------------------ MODULE Scenery -------------------------------
(* SmScenery (nodes/Scenery.cpp): how a block becomes triangles, and which *)
(* colour an elevation has.                                                *)
EXTENDS Integers, Sequences, FiniteSets, SequencesExt
-----------------------------------------------------------------------------
(* How the cells of a terrain block become triangles (nodes/SceneryGL.cpp, *)
(* nodes/Scenery.cpp): a cell is drawn as a triangle fan, which leaves out *)
(* the vertex in the middle of an edge to a coarser neighbour; the library *)
(* lists the fans of a cell that is undefined in parts.  Picking goes      *)
(* through the same vertices and keeps the last three.                     *)

CONSTANTS Lens,         \* half the side of a cell
          FanLengths    \* how many vertices a fan of an undefined cell has

BlocksAssumption == Lens \subseteq Nat \ {0} /\ FanLengths \subseteq 1..10

Sides == {"south", "east", "north", "west"}
Offsets == (-1..1) \X (-1..1)

VARIABLE cell    \* the cell the library calls back for

(* The vertices of sc_render_cb, in order. *)
RenderCb(len, bitmask) ==
  LET edge(side, v) == IF side \in bitmask THEN << >> ELSE <<v>>
  IN  <<<<0, 0>>, <<-len, -len>>>> \o edge("south", <<0, -len>>)
        \o <<<<len, -len>>>> \o edge("east", <<len, 0>>)
        \o <<<<len, len>>>> \o edge("north", <<0, len>>)
        \o <<<<-len, len>>>> \o edge("west", <<-len, 0>>) \o <<<<-len, -len>>>>

(* The other ways to draw a cell repeat the vertices: into the arrays that *)
(* SEND_VA_TRIANGLE_FAN draws, of ten vertices, and as primitives.         *)
ArraySize == 10
VaRenderCb(len, bitmask) ==
  LET f == RenderCb(len, bitmask) IN SubSeq(f, 1, Min({Len(f), ArraySize}))
GenCb(len, bitmask) == RenderCb(len, bitmask)

(* The fans of sc_undefrender_cb, and of those that repeat them. *)
UndefRenderCb(len, fans) ==
  LET scaled(v) == <<v[1] * len, v[2] * len>>
  IN  [k \in DOMAIN fans |-> [i \in DOMAIN fans[k] |-> scaled(fans[k][i])]]
VaUndefRenderCb(len, fans) ==
  LET drawn(f) == SubSeq(f, 1, Min({Len(f), ArraySize}))
      sent == UndefRenderCb(len, fans)
  IN  [k \in DOMAIN sent |-> drawn(sent[k])]
UndefGenCb(len, fans) == UndefRenderCb(len, fans)

(* What GL makes of a fan. *)
FanTriangles(f) == {<<f[1], f[k], f[k + 1]>> : k \in 2..(Len(f) - 1)}

(* sc_raypick_cb: the first vertex is that of the centre. *)
RaypickCb(f) ==
  LET genVertex(s, v) ==
        [second |-> s.third, third |-> v, vertices |-> s.vertices + 1,
         hits |-> IF s.vertices + 1 >= 3 THEN s.hits \cup {<<f[1], s.third, v>>} ELSE s.hits]
      start == [second |-> <<0, 0>>, third |-> <<0, 0>>, vertices |-> 1, hits |-> {}]
      after[k \in 1..Len(f)] == IF k = 1 THEN start ELSE genVertex(after[k - 1], f[k])
  IN  after[Len(f)].hits

(* Mutant: the centre is taken from the fan before. *)
GenVertex_Bug(s, v) ==
  [s EXCEPT !.second = s.third, !.third = v, !.vertices = @ + 1,
            !.first = IF s.vertices = 1 THEN s.second ELSE @,
            !.hits = IF s.vertices + 1 >= 3
                     THEN @ \cup {<<IF s.vertices = 1 THEN s.second ELSE s.first, s.third, v>>}
                     ELSE @]

(* GEN_VERTEX of sc_undefraypick_cb, which learns the centre on its way. *)
GenVertex(s, v) ==
  LET first == IF s.vertices = 2 THEN s.second ELSE s.first
  IN  [first |-> first, second |-> s.third, third |-> v, vertices |-> s.vertices + 1,
       hits |-> IF s.vertices + 1 >= 3 THEN s.hits \cup {<<first, s.third, v>>} ELSE s.hits]

(* sc_undefraypick_cb: only the count starts anew with a fan. *)
InFan(s, f) ==
  LET after[k \in 0..Len(f)] ==
        IF k = 0 THEN [s EXCEPT !.vertices = 0] ELSE GenVertex(after[k - 1], f[k])
  IN  after[Len(f)]
UndefRaypickCb(fans) ==
  LET after[k \in 0..Len(fans)] ==
        IF k = 0 THEN [first |-> <<0, 0>>, second |-> <<0, 0>>, third |-> <<0, 0>>,
                       vertices |-> 0, hits |-> {}]
        ELSE InFan(after[k - 1], fans[k])
  IN  after[Len(fans)].hits

NoCell == [kind |-> "none"]
BlocksInit == cell = NoCell

FullCell(len, bitmask) ==
  cell = NoCell /\ cell' = [kind |-> "full", len |-> len, bitmask |-> bitmask]

(* Two fans of any lengths and centres, around the cell. *)
UndefinedCell(len, n, m, s) ==
  LET around == <<<<-1, -1>>, <<0, -1>>, <<1, -1>>, <<1, 0>>,
                  <<1, 1>>, <<0, 1>>, <<-1, 1>>, <<-1, 0>>>>
      fan(k, c) == <<c>> \o [i \in 1..(k - 1) |-> around[((i + k) % 8) + 1]]
  IN  /\ cell = NoCell
      /\ cell' = [kind |-> "undefined", len |-> len,
                  fans |-> <<fan(n, s), fan(m, <<0, 0>>)>>]

BlocksNext ==
  \/ \E len \in Lens, bitmask \in SUBSET Sides : FullCell(len, bitmask)
  \/ \E len \in Lens, n, m \in FanLengths, s \in Offsets : UndefinedCell(len, n, m, s)
  \/ cell # NoCell /\ cell' = NoCell
-----------------------------------------------------------------------------
Doubled(t) == (t[2][1] - t[1][1]) * (t[3][2] - t[1][2])
              - (t[3][1] - t[1][1]) * (t[2][2] - t[1][2])
Area(f) ==
  LET upTo[k \in 1..(Len(f) - 1)] ==
        IF k = 1 THEN 0 ELSE upTo[k - 1] + Doubled(<<f[1], f[k], f[k + 1]>>)
  IN  upTo[Len(f) - 1]

(* However a cell is drawn and whether it is turned into primitives, a ray *)
(* is tested against the same triangles and no others.  The triangles of a *)
(* full cell are all turned the same way and cover it once: their area,    *)
(* doubled, is that of the cell.                                           *)
PicksWhatIsDrawn ==
  /\ cell.kind = "full" =>
       LET f == RenderCb(cell.len, cell.bitmask)
       IN  /\ RaypickCb(f) = FanTriangles(f)
           /\ FanTriangles(VaRenderCb(cell.len, cell.bitmask)) = FanTriangles(f)
           /\ FanTriangles(GenCb(cell.len, cell.bitmask)) = FanTriangles(f)
           /\ \A t \in FanTriangles(f) : Doubled(t) > 0
           /\ Area(f) = 8 * cell.len * cell.len
  /\ cell.kind = "undefined" =>
       LET all(fans) == UNION {FanTriangles(fans[k]) : k \in DOMAIN fans}
           fans == UndefRenderCb(cell.len, cell.fans)
       IN  /\ UndefRaypickCb(fans) = all(fans)
           /\ all(VaUndefRenderCb(cell.len, cell.fans)) = all(fans)
           /\ all(UndefGenCb(cell.len, cell.fans)) = all(fans)
-----------------------------------------------------------------------------
(* The colour a terrain has at an elevation: SmColorGradient puts its      *)
(* gradient into the traversal state, SmScenery::evaluate makes a colour   *)
(* map and a table of elevations of it, and colortexture_cb looks an       *)
(* elevation up, in these or in the fields an application has set.         *)
(* Colours are numbers; what is interpolated is a pair <<c, d>> for c / d. *)

CONSTANTS Colors, Params, Gradients,   \* Gradients: how many parameters
          Bottom, Top                  \* bbmin[2] and bbmax[2]

(* A terrain is not flat, and its elevations are no finer than what 1.00001, *)
(* by which colortexture_cb divides, can tell from the next one.             *)
ColorsAssumption ==
  /\ Bottom \in Int /\ Top \in Int /\ Bottom < Top /\ 3 * (Top - Bottom) <= 100000
  /\ Params \subseteq Int /\ Gradients \subseteq Nat

VARIABLE ask   \* what is asked for: the fields and an elevation

White == <<-1, 1>>
Mix(c, d, num, den) == <<c * (den - num) + d * num, den>>
Mixed(a, b) == a[1] * b[2] = b[1] * a[2]

(* SmColorGradient::doAction: a gradient with a wrong number of colours is  *)
(* not set; one with n parameters has the two colours of each of the n - 1  *)
(* parts between them.                                                      *)
IsSet(g) == Len(g.param) >= 2 /\ Len(g.color) = (Len(g.param) - 2) * 2 + 2

(* Mutant: the parameters are not repeated for the parts on both sides. *)
EvaluateColors_Bug(g) ==
  LET low == IF g.relative THEN Bottom ELSE 0
      p(i) == g.param[IF i \div 2 + 1 > Len(g.param) THEN Len(g.param) ELSE i \div 2 + 1]
  IN  [texturing |-> "INTERPOLATED", map |-> g.color,
       elevation |-> [i \in DOMAIN g.color |-> low + p(i - 1)]]

(* evaluate; parameters are relative to the elevations of the terrain, in  *)
(* units of which Top - Bottom are 1.0, or elevations themselves.          *)
EvaluateColors(g) ==
  LET low == IF g.relative THEN Bottom ELSE 0
  IN  [texturing |-> "INTERPOLATED", map |-> g.color,
       elevation |-> [i \in DOMAIN g.color |-> low + g.param[i \div 2 + 1]]]

(* colortexture_cb *)
Interpolated(f, e) ==
  LET steps == Len(f.map) - 1
      fac == steps * (e - Bottom)            \* over Top - Bottom
      start == fac \div (Top - Bottom)
      rest == fac % (Top - Bottom)
      max == Len(f.elevation)
      i == SelectInSeq(f.elevation, LAMBDA v : e <= v)     \* 0 when there is none
  IN  IF max = 0
      THEN IF steps < 0 THEN White
           ELSE IF steps = 0 THEN <<f.map[1], 1>>
           ELSE IF rest = 0 THEN <<f.map[start + 1], 1>>
           ELSE Mix(f.map[start + 1], f.map[start + 2], rest, Top - Bottom)
      ELSE IF max # Len(f.map) THEN White
      ELSE IF i = 1 THEN <<f.map[1], 1>>
      ELSE IF i = 0 THEN <<f.map[max], 1>>
      ELSE Mix(f.map[i - 1], f.map[i], e - f.elevation[i - 1],
               f.elevation[i] - f.elevation[i - 1])

Discrete(f, e) ==
  LET n == Len(f.map)  max == Len(f.elevation)
      i == SelectInSeq(f.elevation, LAMBDA v : e <= v)
  IN  IF max = 0
      THEN <<f.map[((e - Bottom) * 100000 * n) \div ((Top - Bottom) * 100001) + 1], 1>>
      ELSE IF max + 1 # n THEN White
      ELSE <<f.map[IF i = 0 THEN n ELSE i], 1>>

ColorTextureCB(f, e) ==
  IF Top = Bottom \/ f.texturing = "DISABLED" THEN White
  ELSE IF f.texturing = "INTERPOLATED" THEN Interpolated(f, e) ELSE Discrete(f, e)

NoGradient == [relative |-> TRUE, param |-> << >>, color |-> << >>]
Nothing == [gradient |-> NoGradient, elev |-> Bottom,
            fields |-> [texturing |-> "DISABLED", map |-> << >>, elevation |-> << >>]]
ColorsInit == ask = Nothing

Increasing(s) == \A i \in 1..(Len(s) - 1) : s[i] < s[i + 1]
AskGradient ==
  /\ ask = Nothing
  /\ \E n \in Gradients, rel \in BOOLEAN, e \in Bottom..Top :
       \E p \in [1..n -> Params], c \in [1..(2 * n - 2) -> Colors] :
         LET g == [relative |-> rel, param |-> p, color |-> c]
         IN  /\ Increasing(p) /\ IsSet(g)
             /\ ask' = [gradient |-> g, elev |-> e, fields |-> EvaluateColors(g)]

AskFields ==
  /\ ask = Nothing
  /\ \E t \in {"INTERPOLATED", "DISCRETE"}, n \in 0..2, m \in 1..3, e \in Bottom..Top :
       \E el \in [1..n -> Params], c \in [1..m -> Colors] :
         /\ Increasing(el)
         /\ ask' = [gradient |-> NoGradient, elev |-> e,
                    fields |-> [texturing |-> t, map |-> c, elevation |-> el]]

ColorsNext == AskGradient \/ AskFields \/ (ask # Nothing /\ ask' = Nothing)
-----------------------------------------------------------------------------
(* Where a parameter of a gradient lies, and the part an elevation is in.  *)
ParamAt(g, k) == IF g.relative THEN Bottom + g.param[k] ELSE g.param[k]
PartOf(g, e) ==
  CHOOSE k \in 1..(Len(g.param) - 1) : ParamAt(g, k) < e /\ e <= ParamAt(g, k + 1)
GradientColor(g, e) ==
  IF e <= ParamAt(g, 1) THEN <<g.color[1], 1>>
  ELSE IF e > ParamAt(g, Len(g.param)) THEN <<g.color[Len(g.color)], 1>>
  ELSE LET k == PartOf(g, e)
       IN  Mix(g.color[2 * k - 1], g.color[2 * k],
               e - ParamAt(g, k), ParamAt(g, k + 1) - ParamAt(g, k))

(* A terrain has the colours its gradient gives: below the first and above *)
(* the last parameter those at the ends, and in between the two colours of *)
(* the part, mixed.                                                        *)
GradientShown ==
  ask.gradient # NoGradient =>
    Mixed(ColorTextureCB(ask.fields, ask.elev), GradientColor(ask.gradient, ask.elev))

(* Without elevations the colours are spread evenly, from the bottom of    *)
(* the terrain to its top, which is still the last colour and not one      *)
(* after it; n + 1 discrete colours are parted by n elevations.            *)
EvenlySpread ==
  LET f == ask.fields  c == ColorTextureCB(f, ask.elev)  n == Len(f.map)
      step == (Top - Bottom)
  IN  /\ f.texturing = "DISCRETE" /\ f.elevation = << >> =>
           \E k \in 1..n :
             /\ c[1] = f.map[k]
             /\ (k - 1) * step <= n * (ask.elev - Bottom) /\ n * (ask.elev - Bottom) <= k * step
      /\ f.texturing = "DISCRETE" /\ Len(f.elevation) = n - 1 /\ n > 1 =>
           c[1] = f.map[1 + Cardinality({v \in ToSet(f.elevation) : v < ask.elev})]
=============================================================================

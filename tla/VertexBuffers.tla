--------------------------- MODULE VertexBuffers ----------------------------
(* Shapes whose vertices are in arrays: in arrays of their own, in one that is*)
(* packed, how other shapes become such, and the buffers of the sea.         *)
EXTENDS Integers, FiniteSets, Sequences, SequencesExt, Functions
-----------------------------------------------------------------------------
(* SmVertexArrayShape (nodes/VertexArrayShape.cpp): its arrays are nodes   *)
(* of its own, which it sends to vertex buffers once and again when they   *)
(* change.  The buffers belong to a GL context, the dirty flags to the     *)
(* shape.                                                                  *)

CONSTANTS Contexts,   \* those it is rendered in
          Nodes,      \* for each field the nodes it is set to, <<type, content>>
          IndexLists  \* contents of vertexIndex: sequences of lists, each a
                      \* primitive type and its indices

Attributes == {"coord", "normal", "texcoord", "color"}
Kinds(a) == IF a = "normal" THEN {1} ELSE {1, 2}   \* types of nodes a field takes
Absent == <<0, 0>>

VARIABLES array,             \* the four fields
          vertexIndex, renderAsVBO,
          dirty,             \* the flags of the arrays and "list", "index"
          indexlist, onlyoneindexlist, numtriangles, colorbytes,
          prevcontextid,
          vbodict,           \* the contexts that have buffers
          buffers,           \* for each context and <<array, kind>> or "index"
          drawn              \* history: the last rendering, until a change

Slots == (UNION {{a} \X Kinds(a) : a \in Attributes}) \cup {<<"index", 0>>}
NotDrawn == [arrays |-> << >>, lists |-> << >>]

VInit ==
  /\ array = [a \in Attributes |-> Absent] /\ vertexIndex = << >> /\ renderAsVBO = "auto"
  /\ dirty = Attributes \cup {"list", "index"}
  /\ indexlist = << >> /\ onlyoneindexlist = FALSE /\ numtriangles = 0
  /\ colorbytes = << >> /\ prevcontextid = 0
  /\ vbodict = {}
  /\ buffers = [c \in Contexts |-> [s \in Slots |-> IF s[1] = "index" THEN << >> ELSE 0]]
  /\ drawn = NotDrawn

unlisted == <<indexlist, onlyoneindexlist, numtriangles>>
onGL == <<prevcontextid, vbodict, buffers>>

(* notify *)
SetArray(a, v) ==
  /\ v # array[a] /\ array' = [array EXCEPT ![a] = v] /\ dirty' = dirty \cup {a}
  /\ colorbytes' = IF a = "color" THEN << >> ELSE colorbytes
  /\ drawn' = NotDrawn
  /\ UNCHANGED <<vertexIndex, renderAsVBO, unlisted, onGL>>

SetVertexIndex(l) ==
  /\ l # vertexIndex /\ vertexIndex' = l /\ dirty' = dirty \cup {"list", "index"}
  /\ drawn' = NotDrawn
  /\ UNCHANGED <<array, renderAsVBO, unlisted, colorbytes, onGL>>

SetRenderAsVBO(how) ==
  /\ how # renderAsVBO /\ renderAsVBO' = how /\ drawn' = NotDrawn
  /\ UNCHANGED <<array, vertexIndex, dirty, unlisted, colorbytes, onGL>>

(* The lists with their lengths and their least and greatest index; with   *)
(* no index at all onlyoneindexlist stays as it is.                        *)
Least(is) == FoldSeq(LAMBDA i, least : IF i < least THEN i ELSE least, 2147483647, is)
Greatest(is) == FoldSeq(LAMBDA i, most : IF i > most THEN i ELSE most, -1, is)
Listed(l) == [k \in DOMAIN l |-> [type |-> l[k][1], indices |-> l[k][2], len |-> Len(l[k][2]),
                                 start |-> Least(l[k][2]), end |-> Greatest(l[k][2])]]
UpdateIndexList ==
  IF "list" \notin dirty THEN UNCHANGED unlisted
  ELSE /\ indexlist' = Listed(vertexIndex)
       /\ numtriangles' = FoldSeq(LAMBDA l, sum : sum + Len(l[2]) - 2, 0, vertexIndex)
       /\ onlyoneindexlist' = IF vertexIndex = << >> THEN onlyoneindexlist
                              ELSE Len(vertexIndex) = 1

(* updateLittleEndianList, for packed colours. *)
Bytes == IF array["color"][1] = 2 /\ colorbytes = << >> THEN <<array["color"][2]>>
         ELSE colorbytes

Present == {a \in Attributes : array[a] # Absent}
Content(a) == IF array[a][1] = 2 /\ a = "color" THEN Bytes[1] ELSE array[a][2]

(* Mutant: the colours are taken as they were converted before. *)
UpdateVBOs_Bug(c) ==
  [s \in Slots |->
     IF s[1] = "index"
     THEN IF onlyoneindexlist' /\ "index" \in dirty THEN indexlist'[1].indices ELSE buffers[c][s]
     ELSE IF s[1] \in dirty \ {"color"} /\ s[2] = array[s[1]][1] THEN Content(s[1])
     ELSE buffers[c][s]]

(* updateVBOs: the arrays that are dirty, to where nodes of their kind go. *)
UpdateVBOs(c) ==
  [s \in Slots |->
     IF s[1] = "index"
     THEN IF onlyoneindexlist' /\ "index" \in dirty THEN indexlist'[1].indices ELSE buffers[c][s]
     ELSE IF s[1] \in dirty /\ s[2] = array[s[1]][1] THEN Content(s[1])
     ELSE buffers[c][s]]

(* setupCurrentContextVBOs finds the buffers of the context or makes them. *)
RenderVBO(c) ==
  /\ array["coord"] # Absent /\ renderAsVBO # "off"
  /\ "normal" \in dirty => array["normal"] # Absent      \* or NULL is dereferenced
  /\ UpdateIndexList /\ (onlyoneindexlist' => indexlist' # << >>)
  /\ prevcontextid' = c /\ vbodict' = vbodict \cup {c}
  /\ buffers' = [buffers EXCEPT ![c] = UpdateVBOs(c)]
  /\ colorbytes' = IF "color" \in dirty THEN Bytes ELSE colorbytes
  /\ dirty' = IF onlyoneindexlist' THEN {} ELSE dirty \cap {"index"}
  /\ drawn' = [arrays |-> [a \in Present |-> buffers'[c][<<a, array[a][1]>>]],
               lists |-> IF onlyoneindexlist'
                         THEN <<<<indexlist'[1].type, buffers'[c][<<"index", 0>>]>>>>
                         ELSE [k \in DOMAIN indexlist' |-> <<indexlist'[k].type, indexlist'[k].indices>>]]
  /\ UNCHANGED <<array, vertexIndex, renderAsVBO>>

(* Not as buffers: switched off, or few vertices. *)
RenderArrays ==
  /\ array["coord"] # Absent /\ renderAsVBO # "on"
  /\ UpdateIndexList /\ dirty' = dirty \ {"list"} /\ colorbytes' = Bytes
  /\ drawn' = [arrays |-> [a \in Present |-> Content(a)],
               lists |-> [k \in DOMAIN indexlist' |-> <<indexlist'[k].type, indexlist'[k].indices>>]]
  /\ UNCHANGED <<array, vertexIndex, renderAsVBO, onGL>>

(* getPrimitiveCount and generatePrimitives only bring the list up to date. *)
Traverse ==
  /\ "list" \in dirty /\ UpdateIndexList /\ dirty' = dirty \ {"list"}
  /\ UNCHANGED <<array, vertexIndex, renderAsVBO, colorbytes, onGL, drawn>>

VNext ==
  \/ \E a \in Attributes : \E v \in Nodes[a] \cup {Absent} : SetArray(a, v)
  \/ \E l \in IndexLists : SetVertexIndex(l)
  \/ \E how \in {"on", "off", "auto"} : SetRenderAsVBO(how)
  \/ \E c \in Contexts : RenderVBO(c)
  \/ RenderArrays \/ Traverse

vertexvars == <<array, vertexIndex, renderAsVBO, dirty, unlisted, colorbytes, onGL, drawn>>
VSpec == VInit /\ [][VNext]_vertexvars

(* The fields take nodes of their types and lists of indices; the flags are *)
(* the shape's, so that it has all its buffers in one context.              *)
VAssumption == /\ \A a \in Attributes : \A v \in Nodes[a] : v \in Kinds(a) \X {v[2]}
               /\ IndexLists \subseteq Seq(Int \X Seq(Int))
               /\ \A c, d \in Contexts : c = d
-----------------------------------------------------------------------------
(* What is drawn is what the fields hold, whichever arrays changed since   *)
(* the last rendering, whatever type of node they were then, and whether   *)
(* they went to buffers or not in between.                                 *)
DrawsTheFields ==
  drawn # NotDrawn => /\ drawn.arrays = [a \in Present |-> array[a][2]]
                      /\ drawn.lists = vertexIndex
-----------------------------------------------------------------------------
(* InterleavedArraysShape (nodes/InterleavedArraysShape.cpp): the vertices *)
(* with their attributes are packed into one buffer for each GL context,   *)
(* the indices into another.  How they are packed is kept once for all     *)
(* contexts.                                                               *)

CONSTANTS PackedContexts,
          Properties,   \* contents of vertexProperty: [n, normal, color,
                        \* texcoord, mbind, nbind, alpha]; numbers of values,
                        \* bindings, whether a colour is transparent
          IndexFields,  \* contents of vertexIndex; << >> is one
          Overrides,    \* of the bindings of materials and normals, in pairs
          Names, MaxShort, None

VARIABLES vp, packedVertexIndex,
          vbo, indexvbo,     \* None or a name for each context that has one
          layout, useshorts, transparency,
          packedBuffers,           \* what GL has, for each <<context, name>>
          deletions,         \* scheduled with the context
          drawing            \* history: the last drawing, until something changes

PackedAttributes == {"normal", "color", "texcoord"}
NoVBO == [c \in {} |-> 0]
Held(map) == IF map = None THEN {} ELSE {<<c, map[c]>> : c \in DOMAIN map}

IInit ==
  /\ vp = (CHOOSE p \in Properties : TRUE) /\ packedVertexIndex = << >>
  /\ vbo = None /\ indexvbo = None /\ layout = None /\ useshorts = FALSE
  /\ transparency = "maybe" /\ packedBuffers = NoVBO /\ deletions = {} /\ drawing = None

(* ~VBO, for both: clear() schedules the deletions. *)
DeleteVBOs_Bug ==       \* Mutant: the indices are kept
  /\ deletions' = deletions \cup Held(vbo)
  /\ vbo' = None /\ UNCHANGED indexvbo

DeleteVBOs ==
  /\ deletions' = deletions \cup Held(vbo) \cup Held(indexvbo)
  /\ vbo' = None /\ indexvbo' = None

NotifyProperty(p) ==
  /\ p # vp /\ vp' = p /\ transparency' = "maybe" /\ DeleteVBOs /\ drawing' = None
  /\ UNCHANGED <<packedVertexIndex, layout, useshorts, packedBuffers>>

NotifyIndex(i) ==
  /\ i # packedVertexIndex /\ packedVertexIndex' = i /\ DeleteVBOs /\ drawing' = None
  /\ UNCHANGED <<vp, layout, useshorts, transparency, packedBuffers>>

(* In units of four bytes. *)
Enough(a) == vp[a] >= vp.n
Layout ==
  LET room == [normal |-> 3, color |-> 1, texcoord |-> 2]
      width(a) == IF Enough(a) THEN room[a] ELSE 0
      at(a, o) == IF Enough(a) THEN o ELSE 0
  IN  [normal |-> at("normal", 3), color |-> at("color", 3 + width("normal")),
       texcoord |-> at("texcoord", 3 + width("normal") + width("color")),
       size |-> 3 + width("normal") + width("color") + width("texcoord")]

Packed == [vp |-> vp, slots |-> [a \in {b \in PackedAttributes : Enough(b)} |-> Layout[a]],
           size |-> Layout.size]
Shorts == vp.n <= MaxShort
Indexed == [index |-> packedVertexIndex, shorts |-> Shorts]

FindBinding(bind, a, override) ==
  /\ IF override = "none" THEN bind ELSE override = "vertex"
  /\ Enough(a)

(* setBufferData, unless the context has the buffer; then bindBuffer. *)
Has(map, c) == map # None /\ c \in DOMAIN map
With(map, c, name) ==
  LET old == IF map = None THEN NoVBO ELSE map
  IN  [d \in DOMAIN old \cup {c} |-> IF d = c THEN name ELSE old[d]]

Free(c) == Names \ {b[2] : b \in {d \in DOMAIN packedBuffers : d[1] = c}}

Alpha == IF transparency = "maybe" THEN (IF vp.alpha THEN "yes" ELSE "no") ELSE transparency

RenderBuffers(c, mo, no) ==
  LET mbind == FindBinding(vp.mbind, "color", mo)
      nbind == FindBinding(vp.nbind, "normal", no)
      on == [normal |-> nbind, color |-> mbind, texcoord |-> vp.texcoord > 0]
      enabled == {a \in PackedAttributes : on[a]}
      makeV == ~Has(vbo, c)  makeI == packedVertexIndex # << >> /\ ~Has(indexvbo, c)
  IN  \E v, i \in Names :
        /\ IF makeV THEN v \in Free(c) ELSE v = vbo[c]
        /\ IF makeI THEN i \in Free(c) \ {v}
           ELSE i = (IF Has(indexvbo, c) THEN indexvbo[c] ELSE v)
        /\ vbo' = With(vbo, c, v)
        /\ indexvbo' = IF packedVertexIndex # << >> THEN With(indexvbo, c, i) ELSE indexvbo
        /\ layout' = IF makeV THEN Layout ELSE layout
        /\ useshorts' = IF makeI THEN Shorts ELSE useshorts
        /\ packedBuffers' =
             [b \in DOMAIN packedBuffers \cup {<<c, v>>} \cup (IF makeI THEN {<<c, i>>} ELSE {}) |->
                IF makeI /\ b = <<c, i>> THEN Indexed
                ELSE IF makeV /\ b = <<c, v>> THEN Packed ELSE packedBuffers[b]]
        /\ transparency' = IF mbind THEN Alpha ELSE transparency
        /\ drawing' = [arrays |-> [a \in enabled |-> layout'[a]], size |-> layout'.size,
                       from |-> packedBuffers'[<<c, v>>], shorts |-> useshorts',
                       index |-> IF packedVertexIndex = << >> THEN None ELSE packedBuffers'[<<c, i>>],
                       blended |-> mbind /\ Alpha = "yes", colored |-> mbind]
        /\ UNCHANGED <<vp, packedVertexIndex, deletions>>

ContextDestruction(c) ==
  LET without(map) == IF map = None THEN None
                      ELSE Restrict(map, DOMAIN map \ {c})
      gone == {b \in DOMAIN packedBuffers : b[1] = c}
  IN  /\ gone # {} /\ packedBuffers' = Restrict(packedBuffers, DOMAIN packedBuffers \ gone)
      /\ vbo' = without(vbo) /\ indexvbo' = without(indexvbo) /\ drawing' = None
      /\ deletions' = deletions \ gone
      /\ UNCHANGED <<vp, packedVertexIndex, layout, useshorts, transparency>>

VBODelete ==
  \E b \in deletions :
    /\ deletions' = deletions \ {b} /\ packedBuffers' = Restrict(packedBuffers, DOMAIN packedBuffers \ {b})
    /\ drawing' = None
    /\ UNCHANGED <<vp, packedVertexIndex, vbo, indexvbo, layout, useshorts, transparency>>

INext ==
  \/ \E p \in Properties : NotifyProperty(p)
  \/ \E i \in IndexFields : NotifyIndex(i)
  \/ \E c \in PackedContexts :
       \/ \E o \in Overrides : RenderBuffers(c, o[1], o[2])
       \/ ContextDestruction(c)
  \/ VBODelete

packedvars == <<vp, packedVertexIndex, vbo, indexvbo, layout, useshorts, transparency, packedBuffers,
                deletions, drawing>>
ISpec == IInit /\ [][INext]_packedvars

(* Texture coordinates are there for every vertex or not at all: only the   *)
(* packing looks whether there are enough of them.                          *)
IAssumption ==
  /\ Properties # {}
  /\ \A p \in Properties : /\ p.n \in Nat /\ p.mbind \in BOOLEAN /\ p.nbind \in BOOLEAN
                           /\ p.alpha \in BOOLEAN /\ p.texcoord \in Nat
                           /\ p.texcoord = 0 \/ p.texcoord >= p.n
  /\ \A S \in SUBSET PackedContexts : None \notin [S -> Names]
-----------------------------------------------------------------------------
(* Drawing reads current data where it was packed, in every context.       *)
ReadsWhatWasPacked ==
  drawing # None =>
    /\ drawing.from.vp = vp /\ drawing.size = drawing.from.size
    /\ \A a \in DOMAIN drawing.arrays :
         a \in DOMAIN drawing.from.slots /\ drawing.from.slots[a] = drawing.arrays[a]
    /\ packedVertexIndex # << >> =>
         /\ drawing.index.index = packedVertexIndex /\ drawing.index.shorts = drawing.shorts
         /\ drawing.shorts => vp.n <= MaxShort
    /\ drawing.blended = (drawing.colored /\ vp.alpha)

(* No buffer is lost or is deleted while it is in use. *)
NoneLost == LET held == Held(vbo) \cup Held(indexvbo)
            IN  DOMAIN packedBuffers = held \cup deletions /\ held \cap deletions = {}
-----------------------------------------------------------------------------
(* SmToVertexArrayShapeAction: the vertex shapes of a scene are replaced by  *)
(* indexed face sets or vertex arrays that share their vertices.  A shape is *)
(* the sequence of its triangles' vertices with the state it is met in.      *)

CONSTANTS Shapes,     \* [vertices: of [v, tc, midx], diffuse, transp: sequences,
                      \*  packed, texture]
          MaxShapes,
          Garbage \* what may lie behind an array of transparencies

VARIABLES scene,      \* children: [shape, made], made is None or the new node
          useifs,
          lists       \* coordlist and its companions, indices, vhash

Empty == [coordlist |-> << >>, indices |-> << >>]
ArraysInit == /\ scene = << >> /\ useifs = TRUE /\ lists = Empty

AddShape(s) == /\ Len(scene) < MaxShapes
               /\ scene' = Append(scene, [shape |-> s, made |-> None])
               /\ UNCHANGED <<useifs, lists>>
UseIndexedFaceSet(b) == useifs' = b /\ UNCHANGED <<scene, lists>>

(* triangle_cb: a colour; the number of transparencies itself is within the *)
(* clamp, one behind the last.                                              *)
Transparency(s, midx, garbage) ==
    LET i == IF midx > Len(s.transp) THEN Len(s.transp) ELSE midx
    IN  IF i = Len(s.transp) THEN garbage ELSE s.transp[i + 1]
Colour(s, midx, garbage) ==
    [diffuse |-> s.diffuse[midx + 1],
     transp |-> IF s.packed THEN s.transp[midx + 1] ELSE Transparency(s, midx, garbage)]
FirstColor(s) == [diffuse |-> s.diffuse[1], transp |-> s.transp[1]]
Vertices(s, garbage) ==
    [k \in DOMAIN s.vertices |->
        [v |-> s.vertices[k].v, tc |-> s.vertices[k].tc,
         col |-> Colour(s, s.vertices[k].midx, garbage)]]

(* A vertex that is known gives its index, another one is appended.         *)
Place(l, v) == LET known == {i \in DOMAIN l.coordlist : l.coordlist[i] = v}
               IN  IF known # {} THEN [l EXCEPT !.indices = Append(@, CHOOSE i \in known : TRUE)]
                   ELSE [coordlist |-> Append(l.coordlist, v),
                         indices |-> Append(l.indices, Len(l.coordlist) + 1)]
(* Mutant: init leaves the vertices of the shape before. *)
Begun_Bug(l) == [l EXCEPT !.indices = << >>]
Begun(l) == Empty
Collected(s, garbage) == FoldLeft(Place, Begun(lists), Vertices(s, garbage))

(* replaceIfs and replaceVas: colours for each vertex, one for all, or that *)
(* of the state.                                                            *)
PerVertex(s, l) == \E i \in DOMAIN l.indices : l.coordlist[l.indices[i]].col # FirstColor(s)
Made(s, l) ==
    [ifs |-> useifs, coords |-> [i \in DOMAIN l.coordlist |-> l.coordlist[i].v],
     tcoords |-> IF s.texture THEN [i \in DOMAIN l.coordlist |-> l.coordlist[i].tc] ELSE << >>,
     colors |-> IF PerVertex(s, l) THEN [i \in DOMAIN l.coordlist |-> l.coordlist[i].col]
                ELSE IF useifs /\ l.coordlist # << >> THEN <<l.coordlist[1].col>> ELSE << >>,
     pervertex |-> PerVertex(s, l), indices |-> l.indices]
(* Made face sets are vertex shapes, and would be found again, without the  *)
(* colours of their own vertex properties: an action is applied once.       *)
Apply(n, garbage) ==
    LET s == scene[n].shape
        l == Collected(s, garbage)
    IN  /\ scene[n].made = None
        /\ lists' = l /\ scene' = [scene EXCEPT ![n].made = Made(s, l)]
        /\ UNCHANGED useifs

ArraysNext == \/ \E s \in Shapes : AddShape(s)
              \/ \E b \in BOOLEAN : UseIndexedFaceSet(b)
              \/ \E n \in DOMAIN scene, g \in Garbage : Apply(n, g)
-----------------------------------------------------------------------------
(* A made shape has the triangles of its shape, vertex by vertex, with the  *)
(* colours it was met in and its texture, also after others were made by    *)
(* the same action, and no vertex twice that is drawn alike.  Transparency  *)
(* is kept where each colour has its own; behind the last one is garbage.   *)
ColourOf(m, s, k) == IF m.pervertex THEN m.colors[m.indices[k]]
                     ELSE IF m.colors # << >> THEN m.colors[1] ELSE FirstColor(s)
Kept(s, m) ==
    /\ Len(m.indices) = Len(s.vertices)
    /\ \A k \in DOMAIN m.indices :
          LET v == s.vertices[k]
          IN  /\ m.coords[m.indices[k]] = v.v
              /\ s.texture => m.tcoords[m.indices[k]] = v.tc
              /\ ColourOf(m, s, k).diffuse = s.diffuse[v.midx + 1]
              /\ Len(s.transp) = Len(s.diffuse) =>
                    ColourOf(m, s, k).transp = s.transp[v.midx + 1]
NoneTwice(m) ==
    m.pervertex /\ m.tcoords # << >> =>
        Cardinality({<<m.coords[i], m.tcoords[i], m.colors[i]>> : i \in DOMAIN m.coords})
            = Len(m.coords)
ShapesKept == \A n \in DOMAIN scene :
                 LET m == scene[n].made
                 IN  m # None => Kept(scene[n].shape, m) /\ NoneTwice(m)
-----------------------------------------------------------------------------
(* SmVBO (nodekits/OceanKit.cpp): the data of a vertex buffer and the GL   *)
(* buffers made from it, one in each context that draws it.  A buffer is   *)
(* deleted in its own context, later, by a callback that is scheduled.     *)

CONSTANTS MeshContexts, MeshContents, Sizes,
          MeshNames,     \* what glGenBuffers may return in a context
          Unset      \* the content of memory that is not filled yet

VARIABLES content, datasize,   \* what data points at; 0 when there is none
          didalloc,
          vbohash,      \* the contexts that have a buffer, and its name
          scheduled,    \* deletions to come, <<context, name>>
          glbuffers     \* what GL has: for <<context, name>>, the content

Nothing  == [x \in {} |-> Unset]
Hashed   == {<<c, vbohash[c]>> : c \in DOMAIN vbohash}

VBOInit == /\ content = Unset /\ datasize = 0 /\ didalloc = FALSE
           /\ vbohash = Nothing /\ scheduled = {} /\ glbuffers = Nothing

(* Mutant: the table of buffers is not emptied. *)
ScheduleAll_Bug == scheduled' = scheduled \cup Hashed /\ UNCHANGED vbohash

(* vbo_schedule for every buffer. *)
ScheduleAll == scheduled' = scheduled \cup Hashed /\ vbohash' = Nothing

(* allocBufferData: memory of the same size is kept, with what is in it. *)
AllocBufferData(size) ==
  /\ ScheduleAll
  /\ didalloc' = TRUE /\ datasize' = size
  /\ content' = IF didalloc /\ datasize = size THEN content ELSE Unset
  /\ UNCHANGED glbuffers

(* The user fills allocated memory before the buffer is used. *)
Fill(v) ==
  /\ didalloc /\ DOMAIN vbohash = {} /\ content' = v
  /\ UNCHANGED <<datasize, didalloc, vbohash, scheduled, glbuffers>>

SetBufferData(v, size) ==
  /\ ScheduleAll
  /\ content' = v /\ datasize' = size /\ didalloc' = FALSE
  /\ UNCHANGED glbuffers

BindBuffer(c) ==
  /\ datasize # 0 /\ content # Unset
  /\ \/ c \in DOMAIN vbohash /\ UNCHANGED <<vbohash, glbuffers>>
     \/ /\ c \notin DOMAIN vbohash
        /\ \E n \in MeshNames :
             /\ <<c, n>> \notin DOMAIN glbuffers
             /\ vbohash' = [d \in DOMAIN vbohash \cup {c} |->
                              IF d = c THEN n ELSE vbohash[d]]
             /\ glbuffers' = [b \in DOMAIN glbuffers \cup {<<c, n>>} |->
                                IF b = <<c, n>> THEN content ELSE glbuffers[b]]
  /\ UNCHANGED <<content, datasize, didalloc, scheduled>>

(* vbo_delete, when the context is current again. *)
MeshVBODelete(b) ==
  /\ b \in scheduled /\ scheduled' = scheduled \ {b}
  /\ glbuffers' = Restrict(glbuffers, DOMAIN glbuffers \ {b})
  /\ UNCHANGED <<content, datasize, didalloc, vbohash>>

(* Mutant: a buffer that goes with its context stays in the table. *)
MeshContextDestruction_Bug(c) ==
  /\ glbuffers' = Restrict(glbuffers, {b \in DOMAIN glbuffers : b[1] # c})
  /\ scheduled' = {b \in scheduled : b[1] # c}
  /\ UNCHANGED <<content, datasize, didalloc, vbohash>>

(* context_destruction_cb; what is scheduled goes with the context too. *)
MeshContextDestruction(c) ==
  /\ vbohash' = Restrict(vbohash, DOMAIN vbohash \ {c})
  /\ glbuffers' = Restrict(glbuffers, {b \in DOMAIN glbuffers : b[1] # c})
  /\ scheduled' = {b \in scheduled : b[1] # c}
  /\ UNCHANGED <<content, datasize, didalloc>>

VBONext ==
  \/ \E s \in Sizes : AllocBufferData(s) \/ \E v \in MeshContents : SetBufferData(v, s)
  \/ \E v \in MeshContents : Fill(v)
  \/ \E c \in MeshContexts : BindBuffer(c) \/ MeshContextDestruction(c)
  \/ \E b \in scheduled : MeshVBODelete(b)

vbovars == <<content, datasize, didalloc, vbohash, scheduled, glbuffers>>
VBOSpec == VBOInit /\ [][VBONext]_vbovars
-----------------------------------------------------------------------------
(* Every GL buffer is either in the table or about to be deleted, in the   *)
(* context it belongs to, and what the table has shows the current data:   *)
(* nothing leaks, is deleted twice, or is drawn out of date.               *)
BuffersAccounted ==
  /\ DOMAIN glbuffers = Hashed \cup scheduled
  /\ Hashed \cap scheduled = {}
  /\ \A b \in Hashed : glbuffers[b] = content
-----------------------------------------------------------------------------
(* Whatever GL draws from its buffers is what the fields hold now, and no    *)
(* buffer is lost, or deleted while it is in use: in arrays of their own,    *)
(* packed into one, and in the meshes of the sea.                            *)
BuffersFollow == DrawsTheFields /\ ReadsWhatWasPacked /\ NoneLost /\ BuffersAccounted
=============================================================================

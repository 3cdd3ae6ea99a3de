------------------------------ MODULE Envelope ------------------------------
(* SmEnvelope: a scene is taken apart into triangles, gathered into meshes  *)
(* of one material and texture, and written again, cut into the boxes of an *)
(* octree.  The point lists (SbBSPTree, which gives equal points one index) *)
(* are left out: a triangle keeps its points and colours themselves.  Lines *)
(* are left out: split_mesh has no code for them.                           *)
EXTENDS Integers, FiniteSets, SequencesExt

CONSTANTS
    Scenes,      \* sequences of shapes: [tex, mat, tris], where a triangle
                 \* is [pts, cols] with three points and three colours
    Levels,      \* depths of the octree
    MaxImports,  \* bound on the number of imports
    NoTexture    \* the texture name NULL

VARIABLES
    meshlist,     \* [attrib, colorpervertex, tris]
    alltextures,
    bbox,         \* <<min, max>>, or << >> while empty
    written,      \* what the last conversion wrote
    imported      \* the scenes that were imported; a history variable

EnvInit == /\ meshlist = << >> /\ alltextures = << >> /\ bbox = << >>
           /\ written = {} /\ imported = << >>

(* triangle_cb: the mesh of the attributes, made if there is none; colours  *)
(* are told apart from the first one of the shape, which the attributes     *)
(* hold.                                                                    *)
MeshOf(meshes, attrib) ==
    SelectInSeq(meshes, LAMBDA mesh : mesh.attrib = attrib)
AddTriangle(meshes, shape, tri) ==
    LET attrib == <<shape.tex, shape.mat>>
        i      == MeshOf(meshes, attrib)
        many   == \E c \in 1..3 : tri.cols[c] # shape.mat
    IN  IF i = 0 THEN Append(meshes, [attrib |-> attrib, colorpervertex |-> many,
                                      tris |-> <<tri>>])
        ELSE [meshes EXCEPT ![i].tris = Append(@, tri),
                            ![i].colorpervertex = @ \/ many]
AddShape(meshes, shape) ==
    FoldLeft(LAMBDA ms, tri : AddTriangle(ms, shape, tri), meshes, shape.tris)

(* pre_shape_cb: each name once, in the order of the scene.                 *)
(* Mutant: a texture is listed before the meshes without one. *)
AddTexture_Bug(names, shape) ==
    IF shape.tex = NoTexture \/ Contains(names, shape.tex) THEN names
    ELSE <<shape.tex>> \o names
AddTexture(names, shape) ==
    IF shape.tex = NoTexture \/ Contains(names, shape.tex) THEN names
    ELSE Append(names, shape.tex)

PointsOf(scene) == UNION {UNION {Range(tri.pts) : tri \in Range(shape.tris)} :
                          shape \in Range(scene)}
Extended(box, points) ==
    LET all == points \cup Range(box)
    IN  << [d \in 1..3 |-> Min({p[d] : p \in all})], [d \in 1..3 |-> Max({p[d] : p \in all})] >>

(* importScene: NULL goes to the list of textures first, once per import.   *)
Import(scene) ==
    /\ Len(imported) < MaxImports
    /\ meshlist' = FoldLeft(AddShape, meshlist, scene)
    /\ alltextures' = FoldLeft(AddTexture, Append(alltextures, NoTexture), scene)
    /\ bbox' = Extended(bbox, PointsOf(scene))
    /\ imported' = Append(imported, scene)
    /\ UNCHANGED written

(* getBBoxes and the test in split_mesh: the box with the number <<x, y, z>> *)
(* of n along each axis, of a space 1.0001 times as large as the scene;     *)
(* its lower sides belong to it.                                            *)
(* Mutant: both sides belong to the box. *)
InBox_Bug(p, b, n) == \A d \in 1..3 :
    LET at   == (p[d] - bbox[1][d]) * n
        side == bbox[2][d] - bbox[1][d]
    IN  side * b[d] <= at /\ at <= side * (b[d] + 1)
InBox(p, b, n) == \A d \in 1..3 :
    LET at   == (p[d] - bbox[1][d]) * 10000 * n
        side == (bbox[2][d] - bbox[1][d]) * 10001
    IN  side * b[d] <= at /\ at < side * (b[d] + 1)

(* split_mesh: a triangle goes where its first point is.                    *)
Split(mesh, b, n) == IF n = 1 THEN DOMAIN mesh.tris
                     ELSE {k \in DOMAIN mesh.tris : InBox(mesh.tris[k].pts[1], b, n)}

(* The colours of a triangle.  create_iv_mesh: a material per vertex, or the *)
(* overall one.  create_vrml_mesh: the material, and colours only where they *)
(* replace it.                                                              *)
Overall(mesh) == [c \in 1..3 |-> mesh.attrib[2]]
ColorsIn(mesh, k) == IF mesh.colorpervertex THEN mesh.tris[k].cols ELSE Overall(mesh)
ColorsInVrml(mesh, k) ==
    LET color == IF mesh.colorpervertex THEN <<mesh.tris[k].cols>> ELSE << >>
    IN  IF color = << >> THEN Overall(mesh) ELSE color[1]

(* The texture that is current behind the j-th of the list: each one that   *)
(* is not NULL is put into the separator.  In a VRML scene none is used.    *)
Texture(j, vrml2) ==
    LET before == {i \in 1..j : alltextures[i] # NoTexture}
    IN  IF vrml2 \/ before = {} THEN NoTexture ELSE alltextures[Max(before)]

(* getConvertedScene and exportGeometry: for every box, texture and mesh of *)
(* that texture.                                                            *)
Boxes(n) == [1..3 -> 0..(n - 1)]
Convert(level, vrml2) ==
    LET n == 2 ^ level
    IN  /\ imported # << >>
        /\ written' = UNION {UNION {UNION {
             {[place |-> <<b, j, i, k>>, tri |-> [pts |-> meshlist[i].tris[k].pts,
                cols |-> IF vrml2 THEN ColorsInVrml(meshlist[i], k)
                         ELSE ColorsIn(meshlist[i], k)], tex |-> Texture(j, vrml2), vrml2 |-> vrml2]
                : k \in Split(meshlist[i], b, n)}
             : i \in {m \in DOMAIN meshlist : meshlist[m].attrib[1] = alltextures[j]}}
             : j \in DOMAIN alltextures} : b \in Boxes(n)}
        /\ UNCHANGED <<meshlist, alltextures, bbox, imported>>

EnvNext == \/ \E scene \in Scenes : Import(scene)
           \/ \E level \in Levels, vrml2 \in BOOLEAN : Convert(level, vrml2)

-----------------------------------------------------------------------------
(* The written scene is the imported one: every triangle is written as      *)
(* often as it was imported, in its own colours and, except in a VRML       *)
(* scene, under its own texture.                                            *)
Found(scene, tri, tex) == {<<s, k>> \in (DOMAIN scene) \X (1..10) :
    /\ k \in DOMAIN scene[s].tris /\ scene[s].tris[k] = tri
    /\ scene[s].tex = tex}
AllWritten == written # {} =>
    LET scene == FlattenSeq(imported)
    IN  \A s \in DOMAIN scene : \A tri \in Range(scene[s].tris) :
          Cardinality({w \in written : w.tri = tri /\ (w.vrml2 \/ w.tex = scene[s].tex)})
            = Cardinality(IF \E w \in written : w.vrml2
                          THEN UNION {Found(scene, tri, tex) : tex \in Range(alltextures)}
                          ELSE Found(scene, tri, scene[s].tex))
NothingElse == Cardinality(written) <=
    FoldLeft(LAMBDA sum, shape : sum + Len(shape.tris), 0, FlattenSeq(imported))
SceneKept == AllWritten /\ NothingElse
=============================================================================

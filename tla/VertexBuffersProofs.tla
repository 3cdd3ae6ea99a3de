------------------------- MODULE VertexBuffersProofs -------------------------
(* Proofs about VertexBuffers: for any fields, GL contexts, names of buffers *)
(* and orders of edits, drawing, deletions and the end of contexts.  And     *)
(* about WavesAndClouds: for any waves, times between frames and points.     *)
EXTENDS VertexBuffers, WavesAndClouds, FiniteSetTheorems, WellFoundedInduction, TLAPS

(* What names the buffers of the contexts: a function from some of them.    *)
LEMMA RestrictedNames ==
  ASSUME NEW S, NEW f, NEW T \in SUBSET S, f = [x \in S |-> f[x]]
  PROVE  DOMAIN Restrict(f, T) = T /\ \A x \in T : Restrict(f, T)[x] = f[x]
  BY DEF Restrict

-----------------------------------------------------------------------------
(* The meshes of the sea.                                                   *)
Pairs == MeshContexts \X MeshNames
MeshType == /\ vbohash = [c \in DOMAIN vbohash |-> vbohash[c]]
            /\ DOMAIN glbuffers \subseteq Pairs
            /\ glbuffers = [b \in DOMAIN glbuffers |-> glbuffers[b]]
MeshInv == MeshType /\ BuffersAccounted

LEMMA NothingHashed == vbohash = Nothing => Hashed = {}
  BY DEF Hashed, Nothing

LEMMA MeshBegins == VBOInit => MeshInv
  BY NothingHashed DEF VBOInit, MeshInv, MeshType, BuffersAccounted, Nothing

LEMMA AllScheduled ==
  ASSUME MeshInv, ScheduleAll, UNCHANGED glbuffers
  PROVE  MeshInv'
  <1>1. Hashed' = {}
    BY DEF ScheduleAll, Hashed, Nothing
  <1>2. scheduled' = scheduled \cup Hashed /\ vbohash' = Nothing
    BY DEF ScheduleAll
  <1>3. MeshType'
    BY <1>2 DEF MeshInv, MeshType, Nothing
  <1> QED
    BY <1>1, <1>2, <1>3 DEF MeshInv, BuffersAccounted

LEMMA BindKeeps ==
  ASSUME MeshInv, NEW c \in MeshContexts, BindBuffer(c)
  PROVE  MeshInv'
  <1>1. CASE UNCHANGED <<vbohash, glbuffers>>
    BY <1>1 DEF BindBuffer, MeshInv, MeshType, BuffersAccounted, Hashed
  <1>2. ASSUME c \notin DOMAIN vbohash, NEW n \in MeshNames, <<c, n>> \notin DOMAIN glbuffers,
               vbohash' = [d \in DOMAIN vbohash \cup {c} |-> IF d = c THEN n ELSE vbohash[d]],
               glbuffers' = [b \in DOMAIN glbuffers \cup {<<c, n>>} |->
                               IF b = <<c, n>> THEN content ELSE glbuffers[b]]
        PROVE  MeshInv'
    <2>1. scheduled' = scheduled /\ content' = content
      BY DEF BindBuffer
    <2>2. Hashed' = Hashed \cup {<<c, n>>}
      BY <1>2 DEF Hashed
    <2>3. DOMAIN glbuffers' = DOMAIN glbuffers \cup {<<c, n>>}
      BY <1>2
    <2>4. MeshType'
      BY <1>2, <2>3 DEF MeshInv, MeshType, Pairs
    <2>5. \A b \in Hashed' : glbuffers'[b] = content'
      BY <1>2, <2>1, <2>2, <2>3 DEF MeshInv, BuffersAccounted
    <2> QED
      BY <1>2, <2>1, <2>2, <2>3, <2>4, <2>5 DEF MeshInv, BuffersAccounted
  <1> QED
    BY <1>1, <1>2 DEF BindBuffer

LEMMA DeletionKeeps ==
  ASSUME MeshInv, NEW b \in scheduled, MeshVBODelete(b)
  PROVE  MeshInv'
  <1> DEFINE left == DOMAIN glbuffers \ {b}
  <1>1. /\ scheduled' = scheduled \ {b} /\ glbuffers' = Restrict(glbuffers, left)
        /\ content' = content /\ vbohash' = vbohash /\ Hashed' = Hashed
    BY DEF MeshVBODelete, Hashed
  <1>2. DOMAIN glbuffers' = left /\ \A x \in left : glbuffers'[x] = glbuffers[x]
    BY <1>1, RestrictedNames DEF MeshInv, MeshType
  <1>3. Hashed \subseteq left
    BY DEF MeshInv, BuffersAccounted
  <1>4. MeshType'
    BY <1>1, <1>2 DEF MeshInv, MeshType, Restrict
  <1> QED
    BY <1>1, <1>2, <1>3, <1>4 DEF MeshInv, BuffersAccounted

LEMMA ContextKeeps ==
  ASSUME MeshInv, NEW c \in MeshContexts, MeshContextDestruction(c)
  PROVE  MeshInv'
  <1> DEFINE left == {b \in DOMAIN glbuffers : b[1] # c}
             kept == DOMAIN vbohash \ {c}
  <1>1. /\ vbohash' = Restrict(vbohash, kept) /\ glbuffers' = Restrict(glbuffers, left)
        /\ scheduled' = {b \in scheduled : b[1] # c} /\ content' = content
    BY DEF MeshContextDestruction
  <1>2. DOMAIN glbuffers' = left /\ \A x \in left : glbuffers'[x] = glbuffers[x]
    BY <1>1, RestrictedNames DEF MeshInv, MeshType
  <1>3. DOMAIN vbohash' = kept /\ \A x \in kept : vbohash'[x] = vbohash[x]
    BY <1>1, RestrictedNames DEF MeshInv, MeshType
  <1>4. Hashed' = {b \in Hashed : b[1] # c}
    BY <1>3 DEF Hashed
  <1>5. MeshType'
    BY <1>1, <1>2 DEF MeshInv, MeshType, Restrict
  <1> QED
    BY <1>1, <1>2, <1>4, <1>5 DEF MeshInv, BuffersAccounted

(* Nothing leaks, is deleted twice or is drawn out of date, for any number  *)
(* of contexts and whatever names GL gives out again.                       *)
THEOREM MeshesAccounted == VBOSpec => []BuffersAccounted
  <1>1. MeshInv /\ [VBONext]_vbovars => MeshInv'
    <2> SUFFICES ASSUME MeshInv, [VBONext]_vbovars PROVE MeshInv'
      OBVIOUS
    <2>1. ASSUME NEW s \in Sizes, AllocBufferData(s) PROVE MeshInv'
      BY <2>1, AllScheduled DEF AllocBufferData
    <2>2. ASSUME NEW s \in Sizes, NEW v \in MeshContents, SetBufferData(v, s) PROVE MeshInv'
      BY <2>2, AllScheduled DEF SetBufferData
    <2>3. ASSUME NEW v \in MeshContents, Fill(v) PROVE MeshInv'
      BY <2>3 DEF Fill, MeshInv, MeshType, BuffersAccounted, Hashed
    <2>4. ASSUME NEW c \in MeshContexts, BindBuffer(c) PROVE MeshInv'
      BY <2>4, BindKeeps
    <2>5. ASSUME NEW c \in MeshContexts, MeshContextDestruction(c) PROVE MeshInv'
      BY <2>5, ContextKeeps
    <2>6. ASSUME NEW b \in scheduled, MeshVBODelete(b) PROVE MeshInv'
      BY <2>6, DeletionKeeps
    <2>7. CASE UNCHANGED vbovars
      BY <2>7 DEF vbovars, MeshInv, MeshType, BuffersAccounted, Hashed
    <2> QED
      BY <2>1, <2>2, <2>3, <2>4, <2>5, <2>6, <2>7 DEF VBONext
  <1>2. MeshInv => BuffersAccounted
    BY DEF MeshInv
  <1> QED
    BY <1>1, <1>2, MeshBegins, PTL DEF VBOSpec

-----------------------------------------------------------------------------
(* The packed arrays.  A map is None or names the buffers of some contexts. *)
Maps == {None} \cup UNION {[S -> Names] : S \in SUBSET PackedContexts}

PackedType ==
  /\ vp \in Properties
  /\ vbo \in Maps /\ indexvbo \in Maps
  /\ packedBuffers = [b \in DOMAIN packedBuffers |-> packedBuffers[b]]

(* What the maps hold is packed from the fields of now, and where its parts *)
(* are has not changed since; what is known of transparency is true.        *)
PackedCurrent ==
  /\ \A b \in Held(vbo) : packedBuffers[b] = Packed
  /\ \A b \in Held(indexvbo) : packedBuffers[b] = Indexed
  /\ Held(vbo) # {} => layout = Layout
  /\ Held(indexvbo) # {} => useshorts = Shorts
  /\ transparency \in {"maybe", IF vp.alpha THEN "yes" ELSE "no"}

PackedInv == PackedType /\ PackedCurrent /\ NoneLost /\ ReadsWhatWasPacked

LEMMA HeldByMap ==
  ASSUME IAssumption, NEW map \in Maps, map # None
  PROVE  /\ DOMAIN map \subseteq PackedContexts /\ map \in [DOMAIN map -> Names]
         /\ \A c \in DOMAIN map : <<c, map[c]>> \in Held(map)
  <1>1. PICK S \in SUBSET PackedContexts : map \in [S -> Names]
    BY DEF Maps
  <1> QED
    BY <1>1 DEF Held

LEMMA NoneHeld == Held(None) = {}
  BY DEF Held

LEMMA PackedBegins == IAssumption /\ IInit => PackedInv
  <1> SUFFICES ASSUME IAssumption, IInit PROVE PackedInv
    OBVIOUS
  <1>1. vp \in Properties
    BY DEF IInit, IAssumption
  <1>2. Held(vbo) = {} /\ Held(indexvbo) = {}
    BY NoneHeld DEF IInit
  <1>3. PackedType
    BY <1>1 DEF IInit, PackedType, Maps, NoVBO
  <1>4. PackedCurrent
    BY <1>2 DEF IInit, PackedCurrent
  <1>5. NoneLost /\ ReadsWhatWasPacked
    BY <1>2 DEF IInit, NoneLost, ReadsWhatWasPacked, NoVBO
  <1> QED
    BY <1>3, <1>4, <1>5 DEF PackedInv

(* A change of the fields gives up every buffer.                            *)
LEMMA AllGivenUp ==
  ASSUME IAssumption, PackedInv, DeleteVBOs, UNCHANGED packedBuffers, drawing' = None,
         vp' \in Properties,
         transparency' \in {"maybe", transparency}, vp' # vp => transparency' = "maybe"
  PROVE  PackedInv'
  <1>1. /\ deletions' = deletions \cup Held(vbo) \cup Held(indexvbo)
        /\ vbo' = None /\ indexvbo' = None
    BY DEF DeleteVBOs
  <1>2. Held(vbo)' = {} /\ Held(indexvbo)' = {}
    BY <1>1 DEF Held
  <1>3. PackedType'
    BY <1>1 DEF PackedInv, PackedType, Maps
  <1>4. PackedCurrent'
    BY <1>2 DEF PackedInv, PackedCurrent
  <1>5. NoneLost'
    BY <1>1, <1>2 DEF PackedInv, NoneLost
  <1>6. ReadsWhatWasPacked'
    BY DEF ReadsWhatWasPacked
  <1> QED
    BY <1>3, <1>4, <1>5, <1>6 DEF PackedInv

LEMMA PackedDeletion ==
  ASSUME IAssumption, PackedInv, VBODelete
  PROVE  PackedInv'
  <1>1. PICK b \in deletions :
          /\ deletions' = deletions \ {b}
          /\ packedBuffers' = Restrict(packedBuffers, DOMAIN packedBuffers \ {b})
          /\ drawing' = None
          /\ UNCHANGED <<vp, packedVertexIndex, vbo, indexvbo, layout, useshorts, transparency>>
    BY DEF VBODelete
  <1>2. /\ DOMAIN packedBuffers' = DOMAIN packedBuffers \ {b}
        /\ \A x \in DOMAIN packedBuffers \ {b} : packedBuffers'[x] = packedBuffers[x]
    BY <1>1, RestrictedNames DEF PackedInv, PackedType
  <1>3. Held(vbo)' = Held(vbo) /\ Held(indexvbo)' = Held(indexvbo)
    BY <1>1 DEF Held
  <1>4. PackedType'
    BY <1>1 DEF PackedInv, PackedType, Restrict
  <1>5. NoneLost'
    BY <1>1, <1>2, <1>3 DEF PackedInv, NoneLost
  <1>6. \A x \in Held(vbo) \cup Held(indexvbo) : packedBuffers'[x] = packedBuffers[x]
    BY <1>2 DEF PackedInv, NoneLost
  <1>7. Packed' = Packed /\ Indexed' = Indexed /\ Layout' = Layout /\ Shorts' = Shorts
    BY <1>1 DEF Packed, Indexed, Layout, Shorts, Enough
  <1>8. PackedCurrent'
    BY <1>1, <1>3, <1>6, <1>7 DEF PackedInv, PackedCurrent
  <1>9. ReadsWhatWasPacked'
    BY <1>1 DEF ReadsWhatWasPacked
  <1> QED
    BY <1>4, <1>5, <1>8, <1>9 DEF PackedInv

(* With a context the maps lose what they have there, and nothing else.     *)
Without(map, c) == IF map = None THEN None ELSE Restrict(map, DOMAIN map \ {c})

LEMMA MapWithout ==
  ASSUME IAssumption, NEW map \in Maps, NEW c
  PROVE  /\ Without(map, c) \in Maps
         /\ Held(Without(map, c)) = {b \in Held(map) : b[1] # c}
  <1> DEFINE new == Without(map, c)
  <1>1. CASE map = None
    BY <1>1, NoneHeld DEF Maps, Without
  <1>2. CASE map # None
    <2> DEFINE S == DOMAIN map \ {c}
    <2>1. DOMAIN map \subseteq PackedContexts /\ map \in [DOMAIN map -> Names]
      BY <1>2, HeldByMap
    <2>2. new = [x \in S |-> map[x]]
      BY <1>2 DEF Restrict, Without
    <2>3. new \in [S -> Names] /\ S \in SUBSET PackedContexts
      BY <2>1, <2>2
    <2>4. new \in Maps /\ new # None
      BY <2>3 DEF Maps, IAssumption
    <2>5. DOMAIN new = S /\ \A x \in S : new[x] = map[x]
      BY <2>2
    <2> QED
      BY <1>2, <2>4, <2>5 DEF Held
  <1> QED
    BY <1>1, <1>2

LEMMA PackedContextGone ==
  ASSUME IAssumption, PackedInv, NEW c \in PackedContexts, ContextDestruction(c)
  PROVE  PackedInv'
  <1> DEFINE gone == {b \in DOMAIN packedBuffers : b[1] = c}
             left == DOMAIN packedBuffers \ gone
  <1>1. /\ packedBuffers' = Restrict(packedBuffers, left)
        /\ vbo' = Without(vbo, c)
        /\ indexvbo' = Without(indexvbo, c)
        /\ drawing' = None /\ deletions' = deletions \ gone
        /\ UNCHANGED <<vp, packedVertexIndex, layout, useshorts, transparency>>
    BY DEF ContextDestruction, Without
  <1>2. DOMAIN packedBuffers' = left /\ \A x \in left : packedBuffers'[x] = packedBuffers[x]
    BY <1>1, RestrictedNames DEF PackedInv, PackedType
  <1>3. vbo' \in Maps /\ Held(vbo)' = {b \in Held(vbo) : b[1] # c}
    <2>1. vbo \in Maps
      BY DEF PackedInv, PackedType
    <2>2. Held(vbo)' = Held(Without(vbo, c))
      BY <1>1 DEF Held
    <2> QED
      BY <1>1, <2>1, <2>2, MapWithout
  <1>4. indexvbo' \in Maps /\ Held(indexvbo)' = {b \in Held(indexvbo) : b[1] # c}
    <2>1. indexvbo \in Maps
      BY DEF PackedInv, PackedType
    <2>2. Held(indexvbo)' = Held(Without(indexvbo, c))
      BY <1>1 DEF Held
    <2> QED
      BY <1>1, <2>1, <2>2, MapWithout
  <1>5. PackedType'
    BY <1>1, <1>3, <1>4 DEF PackedInv, PackedType, Restrict
  <1>6. NoneLost'
    BY <1>1, <1>2, <1>3, <1>4 DEF PackedInv, NoneLost
  <1>7. \A x \in Held(vbo)' \cup Held(indexvbo)' : packedBuffers'[x] = packedBuffers[x]
    BY <1>2, <1>3, <1>4 DEF PackedInv, NoneLost
  <1>8. Packed' = Packed /\ Indexed' = Indexed /\ Layout' = Layout /\ Shorts' = Shorts
    BY <1>1 DEF Packed, Indexed, Layout, Shorts, Enough
  <1>9. PackedCurrent'
    BY <1>1, <1>3, <1>4, <1>7, <1>8 DEF PackedInv, PackedCurrent
  <1>10. ReadsWhatWasPacked'
    BY <1>1 DEF ReadsWhatWasPacked
  <1> QED
    BY <1>5, <1>6, <1>9, <1>10 DEF PackedInv

(* Another buffer, or the same one, for a context.                          *)
LEMMA MapWith ==
  ASSUME IAssumption, NEW map \in Maps, NEW c \in PackedContexts, NEW n \in Names,
         Has(map, c) => n = map[c]
  PROVE  With(map, c, n) \in Maps /\ Held(With(map, c, n)) = Held(map) \cup {<<c, n>>}
  <1> DEFINE old == IF map = None THEN NoVBO ELSE map
             S == DOMAIN old \cup {c}
             new == [x \in S |-> IF x = c THEN n ELSE old[x]]
  <1>1. With(map, c, n) = new
    BY DEF With
  <1>2. DOMAIN old \subseteq PackedContexts /\ old \in [DOMAIN old -> Names]
    <2>1. CASE map = None
      BY <2>1 DEF NoVBO
    <2>2. CASE map # None
      BY <2>2, HeldByMap
    <2> QED
      BY <2>1, <2>2
  <1>3. Held(map) = {<<x, old[x]>> : x \in DOMAIN old}
    BY DEF Held, NoVBO
  <1>4. c \in DOMAIN old => n = old[c]
    BY DEF Has, NoVBO
  <1> HIDE DEF old
  <1>5. new \in [S -> Names] /\ S \in SUBSET PackedContexts
    BY <1>2
  <1>6. new \in Maps /\ new # None
    BY <1>5 DEF Maps, IAssumption
  <1>7. Held(new) = {<<x, new[x]>> : x \in S}
    BY <1>6 DEF Held
  <1>8. \A x \in DOMAIN old : new[x] = old[x]
    BY <1>4
  <1>9. {<<x, new[x]>> : x \in S} = {<<x, old[x]>> : x \in DOMAIN old} \cup {<<c, n>>}
    BY <1>8
  <1> QED
    BY <1>1, <1>3, <1>6, <1>7, <1>9

(* Drawing: what is made is packed from the fields of now under a name that *)
(* GL has not given out, and what was made is used as it was packed.        *)
LEMMA PackedDrawn ==
  ASSUME IAssumption, PackedInv, NEW c \in PackedContexts, NEW mo, NEW no,
         RenderBuffers(c, mo, no)
  PROVE  PackedInv'
  <1> DEFINE mbind == FindBinding(vp.mbind, "color", mo)
             nbind == FindBinding(vp.nbind, "normal", no)
             on == [normal |-> nbind, color |-> mbind, texcoord |-> vp.texcoord > 0]
             enabled == {a \in PackedAttributes : on[a]}
             makeV == ~Has(vbo, c)
             indexed == packedVertexIndex # << >>
             makeI == indexed /\ ~Has(indexvbo, c)
  <1>1. PICK v \in Names, i \in Names :
          /\ IF makeV THEN v \in Free(c) ELSE v = vbo[c]
          /\ IF makeI THEN i \in Free(c) \ {v}
             ELSE i = (IF Has(indexvbo, c) THEN indexvbo[c] ELSE v)
          /\ vbo' = With(vbo, c, v)
          /\ indexvbo' = IF indexed THEN With(indexvbo, c, i) ELSE indexvbo
          /\ layout' = IF makeV THEN Layout ELSE layout
          /\ useshorts' = IF makeI THEN Shorts ELSE useshorts
          /\ packedBuffers' =
               [b \in DOMAIN packedBuffers \cup {<<c, v>>} \cup (IF makeI THEN {<<c, i>>} ELSE {}) |->
                  IF makeI /\ b = <<c, i>> THEN Indexed
                  ELSE IF makeV /\ b = <<c, v>> THEN Packed ELSE packedBuffers[b]]
          /\ transparency' = IF mbind THEN Alpha ELSE transparency
          /\ drawing' = [arrays |-> [a \in enabled |-> layout'[a]], size |-> layout'.size,
                         from |-> packedBuffers'[<<c, v>>], shorts |-> useshorts',
                         index |-> IF packedVertexIndex = << >> THEN None
                                   ELSE packedBuffers'[<<c, i>>],
                         blended |-> mbind /\ Alpha = "yes", colored |-> mbind]
          /\ UNCHANGED <<vp, packedVertexIndex, deletions>>
    BY DEF RenderBuffers
  <1>2. PackedType /\ PackedCurrent /\ NoneLost
    BY DEF PackedInv
  <1>3. Packed' = Packed /\ Indexed' = Indexed /\ Layout' = Layout /\ Shorts' = Shorts
    BY <1>1 DEF Packed, Indexed, Layout, Shorts, Enough
  <1>4. makeV => <<c, v>> \notin DOMAIN packedBuffers
    BY <1>1 DEF Free
  <1>5. makeI => <<c, i>> \notin DOMAIN packedBuffers /\ <<c, i>> # <<c, v>>
    BY <1>1 DEF Free
  <1>6. ~makeV => <<c, v>> \in Held(vbo)
    BY <1>1 DEF Has, Held
  <1>7. indexed /\ ~makeI => <<c, i>> \in Held(indexvbo)
    BY <1>1 DEF Has, Held
  <1>8. vbo' \in Maps /\ Held(vbo)' = Held(vbo) \cup {<<c, v>>}
    <2>1. vbo \in Maps /\ (Has(vbo, c) => v = vbo[c])
      BY <1>1, <1>2 DEF PackedType
    <2>2. Held(vbo)' = Held(With(vbo, c, v))
      BY <1>1 DEF Held
    <2> QED
      BY <1>1, <2>1, <2>2, MapWith
  <1>9. /\ indexvbo' \in Maps
        /\ Held(indexvbo)' = Held(indexvbo) \cup (IF indexed THEN {<<c, i>>} ELSE {})
    <2>1. CASE indexed
      <3>1. indexvbo \in Maps /\ (Has(indexvbo, c) => i = indexvbo[c])
        BY <1>1, <1>2, <2>1 DEF PackedType
      <3>2. indexvbo' = With(indexvbo, c, i) /\ Held(indexvbo)' = Held(With(indexvbo, c, i))
        BY <1>1, <2>1 DEF Held
      <3> QED
        BY <2>1, <3>1, <3>2, MapWith
    <2>2. CASE ~indexed
      BY <1>1, <1>2, <2>2 DEF PackedType, Held
    <2> QED
      BY <2>1, <2>2
  <1> HIDE DEF makeV, indexed
  <1>10. /\ DOMAIN packedBuffers' =
              DOMAIN packedBuffers \cup {<<c, v>>} \cup (IF makeI THEN {<<c, i>>} ELSE {})
         /\ \A b \in DOMAIN packedBuffers : packedBuffers'[b] = packedBuffers[b]
         /\ makeV => packedBuffers'[<<c, v>>] = Packed
         /\ makeI => packedBuffers'[<<c, i>>] = Indexed
    BY <1>1, <1>4, <1>5
  <1>11. Held(vbo) \cup Held(indexvbo) \subseteq DOMAIN packedBuffers
    BY <1>2 DEF NoneLost
  <1>12. packedBuffers'[<<c, v>>] = Packed
    BY <1>2, <1>6, <1>10, <1>11 DEF PackedCurrent
  <1>13. indexed => packedBuffers'[<<c, i>>] = Indexed
    BY <1>2, <1>7, <1>10, <1>11 DEF PackedCurrent
  <1>14. layout' = Layout
    BY <1>1, <1>2, <1>6 DEF PackedCurrent
  <1>15. indexed \/ Held(indexvbo) # {} => useshorts' = Shorts
    BY <1>1, <1>2, <1>7 DEF PackedCurrent
  <1>16. Alpha = IF vp.alpha THEN "yes" ELSE "no"
    BY <1>2 DEF PackedCurrent, Alpha
  <1>17. PackedType'
    BY <1>1, <1>2, <1>8, <1>9, <1>10 DEF PackedType
  <1>18. NoneLost'
    <2>1. DOMAIN packedBuffers = Held(vbo) \cup Held(indexvbo) \cup deletions
          /\ (Held(vbo) \cup Held(indexvbo)) \cap deletions = {}
      BY <1>2 DEF NoneLost
    <2>2. deletions' = deletions
      BY <1>1
    <2>3. <<c, v>> \notin deletions
      BY <1>4, <1>6, <2>1
    <2>4. indexed => <<c, i>> \notin deletions
      BY <1>5, <1>7, <2>1
    <2>5. DOMAIN packedBuffers' = Held(vbo)' \cup Held(indexvbo)' \cup deletions'
      BY <1>7, <1>8, <1>9, <1>10, <2>1, <2>2
    <2> QED
      BY <1>8, <1>9, <2>1, <2>2, <2>3, <2>4, <2>5 DEF NoneLost
  <1>19. PackedCurrent'
    <2>1. \A b \in Held(vbo)' : packedBuffers'[b] = Packed
      BY <1>2, <1>8, <1>10, <1>11, <1>12 DEF PackedCurrent
    <2>2. \A b \in Held(indexvbo)' : packedBuffers'[b] = Indexed
      BY <1>2, <1>9, <1>10, <1>11, <1>13 DEF PackedCurrent
    <2>3. Held(indexvbo)' # {} => useshorts' = Shorts
      BY <1>9, <1>15
    <2>4. vp' = vp /\ transparency' \in {"maybe", IF vp.alpha THEN "yes" ELSE "no"}
      BY <1>1, <1>2, <1>16 DEF PackedCurrent
    <2> QED
      BY <1>3, <1>14, <2>1, <2>2, <2>3, <2>4 DEF PackedCurrent
  <1>20. ReadsWhatWasPacked'
    <2>1. /\ vp' = vp /\ packedVertexIndex' = packedVertexIndex
          /\ drawing'.from = Packed /\ drawing'.size = Layout.size
          /\ drawing'.arrays = [a \in enabled |-> Layout[a]]
          /\ drawing'.shorts = useshorts'
          /\ indexed => drawing'.index = Indexed
          /\ drawing'.colored = mbind /\ drawing'.blended = (mbind /\ Alpha = "yes")
      BY <1>1, <1>12, <1>13, <1>14 DEF indexed
    <2>2. Packed.vp = vp /\ Packed.size = Layout.size
          /\ Packed.slots = [a \in {b \in PackedAttributes : Enough(b)} |-> Layout[a]]
      BY DEF Packed
    <2>3. vp \in Properties
      BY <1>2 DEF PackedType
    <2>4. enabled \subseteq {a \in PackedAttributes : Enough(a)}
      <3> SUFFICES ASSUME NEW a \in PackedAttributes, on[a] PROVE Enough(a)
        OBVIOUS
      <3>1. CASE a = "normal"
        BY <3>1 DEF FindBinding
      <3>2. CASE a = "color"
        BY <3>2 DEF FindBinding
      <3>3. CASE a = "texcoord"
        <4>1. vp.texcoord \in Nat /\ vp.texcoord > 0
          BY <2>3, <3>3 DEF IAssumption
        <4>2. vp["texcoord"] >= vp.n
          BY <2>3, <4>1 DEF IAssumption
        <4> QED
          BY <3>3, <4>2 DEF Enough
      <3> QED
        BY <3>1, <3>2, <3>3 DEF PackedAttributes
    <2>5. \A a \in DOMAIN drawing'.arrays :
            /\ a \in DOMAIN drawing'.from.slots
            /\ drawing'.from.slots[a] = drawing'.arrays[a]
      BY <2>1, <2>2, <2>4
    <2>6. indexed => /\ drawing'.index.index = packedVertexIndex
                     /\ drawing'.index.shorts = drawing'.shorts
                     /\ drawing'.shorts => vp.n =< MaxShort
      <3>1. indexed => drawing'.shorts = Shorts
        BY <1>15, <2>1
      <3>2. Indexed.index = packedVertexIndex /\ Indexed.shorts = Shorts
        BY DEF Indexed
      <3>3. Shorts => vp.n =< MaxShort
        BY DEF Shorts
      <3> QED
        BY <2>1, <3>1, <3>2, <3>3
    <2>7. drawing'.blended = (drawing'.colored /\ vp.alpha)
      BY <1>16, <2>1
    <2> QED
      BY <2>1, <2>2, <2>5, <2>6, <2>7 DEF ReadsWhatWasPacked, indexed
  <1> QED
    BY <1>17, <1>18, <1>19, <1>20 DEF PackedInv

(* Every step of the packed arrays.                                         *)
LEMMA PackedStep ==
  ASSUME IAssumption, PackedInv, [INext]_packedvars
  PROVE  PackedInv'
  <1>1. ASSUME NEW p \in Properties, NotifyProperty(p) PROVE PackedInv'
    BY <1>1, AllGivenUp DEF NotifyProperty
  <1>2. ASSUME NEW i \in IndexFields, NotifyIndex(i) PROVE PackedInv'
    BY <1>2, AllGivenUp DEF NotifyIndex, PackedInv, PackedType
  <1>3. ASSUME NEW c \in PackedContexts, NEW o \in Overrides, RenderBuffers(c, o[1], o[2])
        PROVE  PackedInv'
    BY <1>3, PackedDrawn
  <1>4. ASSUME NEW c \in PackedContexts, ContextDestruction(c) PROVE PackedInv'
    BY <1>4, PackedContextGone
  <1>5. CASE VBODelete
    BY <1>5, PackedDeletion
  <1>6. CASE UNCHANGED packedvars
    BY <1>6 DEF packedvars, PackedInv, PackedType, PackedCurrent, NoneLost, ReadsWhatWasPacked,
                Held, Packed, Indexed, Layout, Shorts, Enough
  <1> QED
    BY <1>1, <1>2, <1>3, <1>4, <1>5, <1>6 DEF INext

(* In every context drawing reads current data where it was packed, and no  *)
(* buffer is lost or deleted in use, in every order of edits and contexts.  *)
THEOREM PackedIsRead == IAssumption => (ISpec => [](ReadsWhatWasPacked /\ NoneLost))
  <1> SUFFICES ASSUME IAssumption PROVE ISpec => [](ReadsWhatWasPacked /\ NoneLost)
    OBVIOUS
  <1>1. IInit => PackedInv
    BY PackedBegins
  <1>2. PackedInv /\ [INext]_packedvars => PackedInv'
    BY PackedStep
  <1>3. PackedInv => ReadsWhatWasPacked /\ NoneLost
    BY DEF PackedInv
  <1> QED
    BY <1>1, <1>2, <1>3, PTL DEF ISpec

-----------------------------------------------------------------------------
(* Arrays of their own.                                                     *)
ArraysType ==
  /\ array = [a \in Attributes |-> array[a]]
  /\ \A a \in Attributes : array[a] \in Nodes[a] \cup {Absent}
  /\ vertexIndex \in Seq(Int \X Seq(Int))
  /\ buffers = [c \in Contexts |-> buffers[c]]

(* Where a flag is down, what it stands for is up to date: the lists, the   *)
(* converted colours, which are forgotten with the field, the buffer of the *)
(* type of node that is set, and the indices if there is one list of them.  *)
ListCurrent ==
  "list" \notin dirty =>
    /\ indexlist = Listed(vertexIndex)
    /\ vertexIndex # << >> => onlyoneindexlist = (Len(vertexIndex) = 1)
BytesCurrent == colorbytes \in {<< >>} \cup (IF array["color"][1] = 2 THEN {<<array["color"][2]>>} ELSE {})
SlotsCurrent ==
  \A c \in Contexts : \A a \in Present \ dirty : buffers[c][<<a, array[a][1]>>] = array[a][2]
IndexCurrent ==
  "index" \notin dirty =>
    /\ vertexIndex # << >>
    /\ \A c \in Contexts : buffers[c][<<"index", 0>>] = vertexIndex[1][2]

FlagsHold == ListCurrent /\ BytesCurrent /\ SlotsCurrent /\ IndexCurrent
ArraysInv == ArraysType /\ FlagsHold /\ DrawsTheFields

LEMMA ListedLists ==
  ASSUME NEW l \in Seq(Int \X Seq(Int))
  PROVE  /\ Len(Listed(l)) = Len(l) /\ DOMAIN Listed(l) = 1..Len(l)
         /\ \A k \in 1..Len(l) : /\ Listed(l)[k].type = l[k][1] /\ Listed(l)[k].indices = l[k][2]
                                 /\ l[k] = <<l[k][1], l[k][2]>>
  <1>1. DOMAIN l = 1..Len(l) /\ Len(l) \in Nat
    OBVIOUS
  <1>2. \A k \in 1..Len(l) : l[k] \in Int \X Seq(Int)
    OBVIOUS
  <1>3. DOMAIN Listed(l) = 1..Len(l)
    BY <1>1 DEF Listed
  <1>4. Len(Listed(l)) = Len(l)
    BY <1>1, <1>3
  <1>5. \A k \in 1..Len(l) : Listed(l)[k].type = l[k][1] /\ Listed(l)[k].indices = l[k][2]
    BY <1>1 DEF Listed
  <1>6. \A k \in 1..Len(l) : l[k] = <<l[k][1], l[k][2]>>
    BY <1>2
  <1> QED
    BY <1>3, <1>4, <1>5, <1>6

(* The buffers: one for every type of node, and one for the indices.        *)
LEMMA SlotsOfNodes ==
  /\ <<"index", 0>> \in Slots
  /\ \A a \in Attributes : \A k \in Kinds(a) : <<a, k>> \in Slots
  <1> DEFINE S == {{a} \X Kinds(a) : a \in Attributes}
  <1>1. ASSUME NEW a \in Attributes, NEW k \in Kinds(a)
        PROVE  <<a, k>> \in UNION S
    <2>1. {a} \X Kinds(a) \in S /\ <<a, k>> \in {a} \X Kinds(a)
      OBVIOUS
    <2> HIDE DEF S
    <2> QED
      BY <2>1
  <1>2. Slots = (UNION S) \cup {<<"index", 0>>}
    BY Zenon DEF Slots
  <1> HIDE DEF S
  <1>3. <<"index", 0>> \in Slots
    BY <1>2
  <1>4. ASSUME NEW a \in Attributes, NEW k \in Kinds(a)
        PROVE  <<a, k>> \in Slots
    <2>1. <<a, k>> \in UNION S
      BY <1>1
    <2> QED
      BY <1>2, <2>1
  <1> QED
    BY <1>3, <1>4

LEMMA ArraysBegin == VInit => ArraysInv
  <1> SUFFICES ASSUME VInit PROVE ArraysInv
    OBVIOUS
  <1>1. Present = {}
    BY DEF VInit, Present
  <1>2. ArraysType
    BY DEF VInit, ArraysType
  <1>3. FlagsHold
    BY <1>1 DEF VInit, FlagsHold, ListCurrent, BytesCurrent, SlotsCurrent, IndexCurrent
  <1>4. DrawsTheFields
    BY DEF VInit, DrawsTheFields
  <1> QED
    BY <1>2, <1>3, <1>4 DEF ArraysInv

LEMMA ArraySet ==
  ASSUME VAssumption, ArraysInv, NEW a \in Attributes, NEW v \in Nodes[a] \cup {Absent},
         SetArray(a, v)
  PROVE  ArraysInv'
  <1>1. /\ array' = [array EXCEPT ![a] = v] /\ dirty' = dirty \cup {a}
        /\ colorbytes' = IF a = "color" THEN << >> ELSE colorbytes
        /\ drawn' = NotDrawn
        /\ vertexIndex' = vertexIndex /\ indexlist' = indexlist
        /\ onlyoneindexlist' = onlyoneindexlist /\ buffers' = buffers
    BY DEF SetArray, unlisted, onGL
  <1>2. ArraysType'
    BY <1>1 DEF ArraysInv, ArraysType
  <1>3. \A b \in Attributes \ {a} : array'[b] = array[b]
    BY <1>1 DEF ArraysInv, ArraysType
  <1>4. ListCurrent'
    BY <1>1 DEF ArraysInv, FlagsHold, ListCurrent
  <1>5. BytesCurrent'
    BY <1>1, <1>3 DEF ArraysInv, FlagsHold, BytesCurrent, Attributes
  <1>6. SlotsCurrent'
    <2>1. \A b \in Present' \ dirty' : b \in Present \ dirty /\ b # a /\ array'[b] = array[b]
      BY <1>1, <1>3 DEF Present
    <2> QED
      BY <1>1, <2>1 DEF ArraysInv, FlagsHold, SlotsCurrent
  <1>7. IndexCurrent'
    BY <1>1 DEF ArraysInv, FlagsHold, IndexCurrent
  <1>8. DrawsTheFields'
    BY <1>1 DEF DrawsTheFields, NotDrawn
  <1> QED
    BY <1>2, <1>4, <1>5, <1>6, <1>7, <1>8 DEF ArraysInv, FlagsHold

LEMMA IndexSet ==
  ASSUME VAssumption, ArraysInv, NEW l \in IndexLists, SetVertexIndex(l)
  PROVE  ArraysInv'
  <1>1. /\ vertexIndex' = l /\ dirty' = dirty \cup {"list", "index"} /\ drawn' = NotDrawn
        /\ array' = array /\ colorbytes' = colorbytes /\ buffers' = buffers
    BY DEF SetVertexIndex, onGL
  <1>2. ArraysType'
    BY <1>1 DEF ArraysInv, ArraysType, VAssumption
  <1>3. Present' = Present
    BY <1>1 DEF Present
  <1>4. BytesCurrent' /\ SlotsCurrent'
    BY <1>1, <1>3 DEF ArraysInv, FlagsHold, BytesCurrent, SlotsCurrent
  <1>5. ListCurrent' /\ IndexCurrent'
    BY <1>1 DEF ListCurrent, IndexCurrent
  <1>6. DrawsTheFields'
    BY <1>1 DEF DrawsTheFields, NotDrawn
  <1> QED
    BY <1>2, <1>4, <1>5, <1>6 DEF ArraysInv, FlagsHold

(* The lists are brought up to date, unless they are already.               *)
LEMMA ListsUpdated ==
  ASSUME ArraysInv, UpdateIndexList
  PROVE  /\ indexlist' = Listed(vertexIndex)
         /\ vertexIndex # << >> => onlyoneindexlist' = (Len(vertexIndex) = 1)
  <1>1. CASE "list" \notin dirty
    BY <1>1 DEF UpdateIndexList, unlisted, ArraysInv, FlagsHold, ListCurrent
  <1>2. CASE "list" \in dirty
    <2>1. /\ indexlist' = Listed(vertexIndex)
          /\ onlyoneindexlist' = IF vertexIndex = << >> THEN onlyoneindexlist
                                 ELSE Len(vertexIndex) = 1
      BY <1>2 DEF UpdateIndexList
    <2> QED
      BY <2>1
  <1> QED
    BY <1>1, <1>2

LEMMA ContentOfField ==
  ASSUME ArraysInv, NEW a \in Attributes
  PROVE  Content(a) = array[a][2]
  BY DEF ArraysInv, FlagsHold, BytesCurrent, Content, Bytes

LEMMA BytesKept ==
  ASSUME ArraysInv
  PROVE  Bytes \in {<< >>} \cup (IF array["color"][1] = 2 THEN {<<array["color"][2]>>} ELSE {})
  BY DEF ArraysInv, FlagsHold, BytesCurrent, Bytes

LEMMA ListsDrawn ==
  ASSUME NEW l \in Seq(Int \X Seq(Int))
  PROVE  [k \in DOMAIN Listed(l) |-> <<Listed(l)[k].type, Listed(l)[k].indices>>] = l
  <1>1. l = [k \in 1..Len(l) |-> l[k]]
    OBVIOUS
  <1>2. DOMAIN Listed(l) = 1..Len(l)
    BY ListedLists
  <1>3. \A k \in 1..Len(l) : <<Listed(l)[k].type, Listed(l)[k].indices>> = l[k]
    BY ListedLists
  <1> QED
    BY <1>1, <1>2, <1>3

LEMMA ArraysDrawn ==
  ASSUME VAssumption, ArraysInv, RenderArrays
  PROVE  ArraysInv'
  <1>1. /\ UpdateIndexList /\ dirty' = dirty \ {"list"} /\ colorbytes' = Bytes
        /\ drawn' = [arrays |-> [a \in Present |-> Content(a)],
                     lists |-> [k \in DOMAIN indexlist' |->
                                  <<indexlist'[k].type, indexlist'[k].indices>>]]
        /\ array' = array /\ vertexIndex' = vertexIndex /\ buffers' = buffers
    BY DEF RenderArrays, onGL
  <1>2. /\ indexlist' = Listed(vertexIndex)
        /\ vertexIndex # << >> => onlyoneindexlist' = (Len(vertexIndex) = 1)
    BY <1>1, ListsUpdated
  <1>3. Present' = Present /\ Present \subseteq Attributes
    BY <1>1 DEF Present
  <1>4. ArraysType' /\ ListCurrent'
    BY <1>1, <1>2 DEF ArraysInv, ArraysType, ListCurrent
  <1>5. BytesCurrent'
    BY <1>1, BytesKept DEF BytesCurrent
  <1>6. SlotsCurrent' /\ IndexCurrent'
    <2>1. Present \ dirty' = Present \ dirty
      BY <1>1 DEF Present, Attributes
    <2> QED
      BY <1>1, <1>3, <2>1 DEF ArraysInv, FlagsHold, SlotsCurrent, IndexCurrent
  <1>7. DrawsTheFields'
    <2>1. \A a \in Present : Content(a) = array[a][2]
      BY <1>3, ContentOfField
    <2>2. drawn'.arrays = [a \in Present' |-> array'[a][2]]
      BY <1>1, <1>3, <2>1
    <2>3. drawn'.lists = vertexIndex'
      BY <1>1, <1>2, ListsDrawn DEF ArraysInv, ArraysType
    <2> QED
      BY <2>2, <2>3 DEF DrawsTheFields
  <1> QED
    BY <1>4, <1>5, <1>6, <1>7 DEF ArraysInv, FlagsHold

LEMMA ListsTraversed ==
  ASSUME VAssumption, ArraysInv, Traverse
  PROVE  ArraysInv'
  <1>1. /\ UpdateIndexList /\ dirty' = dirty \ {"list"} /\ drawn' = drawn
        /\ array' = array /\ vertexIndex' = vertexIndex /\ buffers' = buffers
        /\ colorbytes' = colorbytes
    BY DEF Traverse, onGL
  <1>2. /\ indexlist' = Listed(vertexIndex)
        /\ vertexIndex # << >> => onlyoneindexlist' = (Len(vertexIndex) = 1)
    BY <1>1, ListsUpdated
  <1>3. Present' = Present /\ Present \ dirty' = Present \ dirty
    BY <1>1 DEF Present, Attributes
  <1>4. ArraysType' /\ ListCurrent'
    BY <1>1, <1>2 DEF ArraysInv, ArraysType, ListCurrent
  <1>5. BytesCurrent' /\ SlotsCurrent' /\ IndexCurrent'
    BY <1>1, <1>3 DEF ArraysInv, FlagsHold, BytesCurrent, SlotsCurrent, IndexCurrent
  <1>6. DrawsTheFields'
    BY <1>1, <1>3 DEF ArraysInv, DrawsTheFields
  <1> QED
    BY <1>4, <1>5, <1>6 DEF ArraysInv, FlagsHold

(* Rendering from buffers: the buffers of the one context get what is       *)
(* dirty, and then hold the fields.                                         *)
LEMMA BuffersDrawn ==
  ASSUME VAssumption, ArraysInv, NEW c \in Contexts, RenderVBO(c)
  PROVE  ArraysInv'
  <1>1. /\ UpdateIndexList /\ (onlyoneindexlist' => indexlist' # << >>)
        /\ buffers' = [buffers EXCEPT ![c] = UpdateVBOs(c)]
        /\ colorbytes' = IF "color" \in dirty THEN Bytes ELSE colorbytes
        /\ dirty' = IF onlyoneindexlist' THEN {} ELSE dirty \cap {"index"}
        /\ drawn' = [arrays |-> [a \in Present |-> buffers'[c][<<a, array[a][1]>>]],
                     lists |-> IF onlyoneindexlist'
                               THEN <<<<indexlist'[1].type, buffers'[c][<<"index", 0>>]>>>>
                               ELSE [k \in DOMAIN indexlist' |->
                                       <<indexlist'[k].type, indexlist'[k].indices>>]]
        /\ array' = array /\ vertexIndex' = vertexIndex
    BY DEF RenderVBO
  <1>2. /\ indexlist' = Listed(vertexIndex)
        /\ vertexIndex # << >> => onlyoneindexlist' = (Len(vertexIndex) = 1)
    BY <1>1, ListsUpdated
  <1>3. vertexIndex \in Seq(Int \X Seq(Int)) /\ Present' = Present /\ Present \subseteq Attributes
    BY <1>1 DEF ArraysInv, ArraysType, Present
  <1>4. buffers' = [d \in Contexts |-> buffers'[d]] /\ buffers'[c] = UpdateVBOs(c)
    BY <1>1 DEF ArraysInv, ArraysType
  <1>5. \A d \in Contexts : d = c
    BY DEF VAssumption
  <1>6. \A a \in Present : UpdateVBOs(c)[<<a, array[a][1]>>] = array[a][2]
    <2> SUFFICES ASSUME NEW a \in Present PROVE UpdateVBOs(c)[<<a, array[a][1]>>] = array[a][2]
      OBVIOUS
    <2>1. a \in Attributes /\ array[a][1] \in Kinds(a)
      BY DEF Present, VAssumption, ArraysInv, ArraysType
    <2>2. <<a, array[a][1]>> \in Slots /\ a # "index"
      BY <2>1, SlotsOfNodes DEF Attributes
    <2>3. UpdateVBOs(c)[<<a, array[a][1]>>] =
            IF a \in dirty THEN Content(a) ELSE buffers[c][<<a, array[a][1]>>]
      BY <2>2 DEF UpdateVBOs
    <2>4. a \notin dirty => buffers[c][<<a, array[a][1]>>] = array[a][2]
      BY DEF ArraysInv, FlagsHold, SlotsCurrent
    <2> QED
      BY <2>1, <2>3, <2>4, ContentOfField
  <1>7. onlyoneindexlist' =>
          /\ vertexIndex # << >> /\ Len(vertexIndex) = 1
          /\ UpdateVBOs(c)[<<"index", 0>>] = vertexIndex[1][2]
    <2> SUFFICES ASSUME onlyoneindexlist'
                 PROVE  /\ vertexIndex # << >> /\ Len(vertexIndex) = 1
                        /\ UpdateVBOs(c)[<<"index", 0>>] = vertexIndex[1][2]
      OBVIOUS
    <2>1. vertexIndex # << >>
      BY <1>1, <1>2 DEF Listed
    <2>2. Len(vertexIndex) = 1
      BY <1>2, <2>1
    <2>3. indexlist'[1].indices = vertexIndex[1][2]
      <3>1. Listed(vertexIndex)[1].indices = vertexIndex[1][2]
        BY <1>3, <2>2, ListedLists
      <3> QED
        BY <1>2, <3>1
    <2>4. UpdateVBOs(c)[<<"index", 0>>] =
            IF "index" \in dirty THEN indexlist'[1].indices ELSE buffers[c][<<"index", 0>>]
      BY SlotsOfNodes DEF UpdateVBOs
    <2>5. "index" \notin dirty => buffers[c][<<"index", 0>>] = vertexIndex[1][2]
      BY DEF ArraysInv, FlagsHold, IndexCurrent
    <2> QED
      BY <2>1, <2>2, <2>3, <2>4, <2>5
  <1>8. ArraysType' /\ ListCurrent'
    BY <1>1, <1>2, <1>4 DEF ArraysInv, ArraysType, ListCurrent
  <1>9. BytesCurrent'
    BY <1>1, BytesKept DEF ArraysInv, FlagsHold, BytesCurrent
  <1>10. SlotsCurrent'
    BY <1>1, <1>3, <1>4, <1>5, <1>6 DEF SlotsCurrent
  <1>11. IndexCurrent'
    <2>1. CASE onlyoneindexlist'
      BY <1>1, <1>4, <1>5, <1>7, <2>1 DEF IndexCurrent
    <2>2. CASE ~onlyoneindexlist'
      <3>1. UpdateVBOs(c)[<<"index", 0>>] = buffers[c][<<"index", 0>>]
        BY <2>2, SlotsOfNodes DEF UpdateVBOs
      <3>2. "index" \in dirty' <=> "index" \in dirty
        BY <1>1, <2>2
      <3> QED
        BY <1>1, <1>4, <1>5, <3>1, <3>2 DEF ArraysInv, FlagsHold, IndexCurrent
    <2> QED
      BY <2>1, <2>2
  <1>12. DrawsTheFields'
    <2>1. drawn'.arrays = [a \in Present' |-> array'[a][2]]
      BY <1>1, <1>3, <1>4, <1>6
    <2>2. CASE onlyoneindexlist'
      <3>1. indexlist'[1].type = vertexIndex[1][1] /\ vertexIndex[1] = <<vertexIndex[1][1], vertexIndex[1][2]>>
        <4>1. Listed(vertexIndex)[1].type = vertexIndex[1][1]
              /\ vertexIndex[1] = <<vertexIndex[1][1], vertexIndex[1][2]>>
          <5>1. 1 \in 1..Len(vertexIndex)
            BY <1>3, <1>7, <2>2
          <5> QED
            BY <1>3, <5>1, ListedLists
        <4> QED
          BY <1>2, <4>1
      <3>2. drawn'.lists = <<vertexIndex[1]>>
        BY <1>1, <1>4, <1>7, <2>2, <3>1
      <3>3. vertexIndex = <<vertexIndex[1]>>
        BY <1>3, <1>7, <2>2
      <3> QED
        BY <1>1, <2>1, <3>2, <3>3 DEF DrawsTheFields
    <2>3. CASE ~onlyoneindexlist'
      <3>1. drawn'.lists = vertexIndex
        BY <1>1, <1>2, <1>3, <2>3, ListsDrawn
      <3> QED
        BY <1>1, <2>1, <3>1 DEF DrawsTheFields
    <2> QED
      BY <2>2, <2>3
  <1> QED
    BY <1>8, <1>9, <1>10, <1>11, <1>12 DEF ArraysInv, FlagsHold

LEMMA ArraysStep ==
  ASSUME VAssumption, ArraysInv, [VNext]_vertexvars
  PROVE  ArraysInv'
  <1>1. ASSUME NEW a \in Attributes, NEW v \in Nodes[a] \cup {Absent}, SetArray(a, v)
        PROVE  ArraysInv'
    BY <1>1, ArraySet
  <1>2. ASSUME NEW l \in IndexLists, SetVertexIndex(l) PROVE ArraysInv'
    BY <1>2, IndexSet
  <1>3. ASSUME NEW how \in {"on", "off", "auto"}, SetRenderAsVBO(how) PROVE ArraysInv'
    BY <1>3 DEF SetRenderAsVBO, unlisted, onGL, ArraysInv, ArraysType, FlagsHold, ListCurrent,
                BytesCurrent, SlotsCurrent, IndexCurrent, DrawsTheFields, Present, NotDrawn
  <1>4. ASSUME NEW c \in Contexts, RenderVBO(c) PROVE ArraysInv'
    BY <1>4, BuffersDrawn
  <1>5. CASE RenderArrays
    BY <1>5, ArraysDrawn
  <1>6. CASE Traverse
    BY <1>6, ListsTraversed
  <1>7. CASE UNCHANGED vertexvars
    BY <1>7 DEF vertexvars, unlisted, onGL, ArraysInv, ArraysType, FlagsHold, ListCurrent,
                BytesCurrent, SlotsCurrent, IndexCurrent, DrawsTheFields, Present
  <1> QED
    BY <1>1, <1>2, <1>3, <1>4, <1>5, <1>6, <1>7 DEF VNext

(* In one context what is drawn is what the fields hold, whichever arrays   *)
(* changed, of which types, and however they were drawn in between.         *)
THEOREM FieldsAreDrawn == VAssumption => (VSpec => []DrawsTheFields)
  <1> SUFFICES ASSUME VAssumption PROVE VSpec => []DrawsTheFields
    OBVIOUS
  <1>1. VInit => ArraysInv
    BY ArraysBegin
  <1>2. ArraysInv /\ [VNext]_vertexvars => ArraysInv'
    BY ArraysStep
  <1>3. ArraysInv => DrawsTheFields
    BY DEF ArraysInv
  <1> QED
    BY <1>1, <1>2, <1>3, PTL DEF VSpec

-----------------------------------------------------------------------------
(* The three side by side: they share no variable.  Whatever GL draws from  *)
(* buffers is what the fields hold, and no buffer is lost.                  *)
THEOREM BuffersDoFollow ==
  VAssumption /\ IAssumption => (VSpec /\ ISpec /\ VBOSpec => []BuffersFollow)
  <1> SUFFICES ASSUME VAssumption, IAssumption
               PROVE  VSpec /\ ISpec /\ VBOSpec => []BuffersFollow
    OBVIOUS
  <1>1. (VSpec => []DrawsTheFields) /\ (ISpec => [](ReadsWhatWasPacked /\ NoneLost))
    BY FieldsAreDrawn, PackedIsRead
  <1>2. DrawsTheFields /\ ReadsWhatWasPacked /\ NoneLost /\ BuffersAccounted => BuffersFollow
    BY DEF BuffersFollow
  <1> QED
    BY <1>1, <1>2, MeshesAccounted, PTL
-----------------------------------------------------------------------------
(* The waves of the sea.                                                    *)

(* One fades; and a wave that changed is flat.                              *)
Fading(w) == \A i \in DOMAIN w.fade : i # w.transIdx => w.fade[i] = FullFade
SameWave(w, v, j) == v.fade[j] = w.fade[j] /\ v.shape[j] = w.shape[j]

LEMMA WavesInit ==
  ASSUME NEW n \in Nat \ {0}, FullFade \in Nat
  PROVE  InitWaves(n) \in Waves(n) /\ Fading(InitWaves(n))
  BY DEF InitWaves, Waves, Fading

(* The update of wave i leaves the others alone.                            *)
LEMMA WaveUpdated ==
  ASSUME NEW n \in Nat \ {0}, NEW w \in Waves(n), NEW i \in 0..(n - 1), NEW dt \in Nat,
         FullFade \in Nat
  PROVE  /\ UpdateWave(w, i, dt, n) \in Waves(n)
         /\ Fading(w) => Fading(UpdateWave(w, i, dt, n))
         /\ \A j \in (0..(n - 1)) \ {i} : SameWave(w, UpdateWave(w, i, dt, n), j)
         /\ w.shape[i] # UpdateWave(w, i, dt, n).shape[i] => UpdateWave(w, i, dt, n).fade[i] = 0
  <1> DEFINE f == w.fade[i] + w.transDel * dt
             v == UpdateWave(w, i, dt, n)
  <1>1. /\ w.fade \in [0..(n - 1) -> 0..FullFade] /\ w.shape \in [0..(n - 1) -> {0, 1}]
        /\ w.transIdx \in 0..(n - 1) /\ w.transDel \in {-1, 1}
        /\ w = [fade |-> w.fade, shape |-> w.shape, transIdx |-> w.transIdx,
                transDel |-> w.transDel]
    BY DEF Waves
  <1>2. f \in Int
    <2>1. w.transDel * dt \in Int /\ w.fade[i] \in Int
      BY <1>1
    <2> QED
      BY <2>1
  <1> HIDE DEF f
  <1>3. CASE i # w.transIdx
    <2>1. v = w
      BY <1>3 DEF UpdateWave, f
    <2> QED
      BY <2>1 DEF SameWave
  <1>4. CASE i = w.transIdx /\ f < 0
    <2>1. v = [fade |-> [w.fade EXCEPT ![i] = 0], shape |-> [w.shape EXCEPT ![i] = 1 - @],
               transIdx |-> w.transIdx, transDel |-> -w.transDel]
      BY <1>1, <1>4 DEF UpdateWave, InitWave, f
    <2> QED
      BY <1>1, <1>4, <2>1 DEF Waves, Fading, SameWave
  <1>5. CASE i = w.transIdx /\ f > FullFade
    <2>1. v = [fade |-> [w.fade EXCEPT ![i] = FullFade], shape |-> w.shape,
               transIdx |-> (i + 1) % n, transDel |-> -w.transDel]
      <3>1. ~(i # w.transIdx) /\ ~(f < 0) /\ f > FullFade
        BY <1>2, <1>5
      <3>2. v = [w EXCEPT !.fade[i] = FullFade, !.transDel = -w.transDel,
                          !.transIdx = (w.transIdx + 1) % n]
        BY <3>1 DEF UpdateWave, f
      <3> QED
        BY <1>1, <1>5, <3>2
    <2>2. (i + 1) % n \in 0..(n - 1)
      OBVIOUS
    <2> QED
      BY <1>1, <1>5, <2>1, <2>2 DEF Waves, Fading, SameWave
  <1>6. CASE i = w.transIdx /\ f \in 0..FullFade
    <2>1. v = [fade |-> [w.fade EXCEPT ![i] = f], shape |-> w.shape,
               transIdx |-> w.transIdx, transDel |-> w.transDel]
      <3>1. ~(i # w.transIdx) /\ ~(f < 0) /\ ~(f > FullFade)
        BY <1>2, <1>6
      <3>2. v = [w EXCEPT !.fade[i] = f]
        BY <3>1 DEF UpdateWave, f
      <3> QED
        BY <1>1, <1>6, <3>2
    <2> QED
      BY <1>1, <1>6, <2>1 DEF Waves, Fading, SameWave
  <1> QED
    BY <1>2, <1>3, <1>4, <1>5, <1>6

(* The loop over the waves, so far as wave m.                               *)
Loop(f, m, w, dt, n) ==
    f = [k \in 0..m |-> IF k = 0 THEN w ELSE UpdateWave(f[k - 1], k - 1, dt, n)]

LEMMA LoopRuns ==
  ASSUME NEW n \in Nat, NEW w, NEW dt
  PROVE  \E f : Loop(f, n, w, dt, n)
  <1> DEFINE S == {m \in 0..n : ~ \E f : Loop(f, m, w, dt, n)}
  <1>1. ASSUME S # {} PROVE FALSE
    <2>1. PICK m \in S : \A y \in S : ~(<<y, m>> \in OpToRel(<, Nat))
      <3>1. S \subseteq Nat
        OBVIOUS
      <3> HIDE DEF S
      <3> QED
        BY <1>1, <3>1, WFMin, NatLessThanWellFounded
    <2>2. m \in 0..n /\ ~ \E f : Loop(f, m, w, dt, n)
      OBVIOUS
    <2>3. CASE m = 0
      <3> DEFINE f == [k \in 0..0 |-> w]
      <3>1. Loop(f, 0, w, dt, n)
        BY DEF Loop
      <3> QED
        BY <2>2, <2>3, <3>1
    <2>4. CASE m # 0
      <3>1. m - 1 \in 0..n /\ m - 1 \in Nat /\ m \in Nat /\ m - 1 < m
        BY <2>2, <2>4
      <3>2. m - 1 \notin S
        <4>1. <<m - 1, m>> \in OpToRel(<, Nat)
          BY <3>1 DEF OpToRel
        <4> QED
          BY <2>1, <4>1
      <3>3. PICK f : Loop(f, m - 1, w, dt, n)
        BY <3>1, <3>2
      <3> DEFINE g == [k \in 0..m |-> IF k = m THEN UpdateWave(f[m - 1], m - 1, dt, n) ELSE f[k]]
      <3>4. \A k \in 0..(m - 1) : f[k] = IF k = 0 THEN w ELSE UpdateWave(f[k - 1], k - 1, dt, n)
        BY <3>3 DEF Loop
      <3>5. ASSUME NEW k \in 0..m
            PROVE  g[k] = IF k = 0 THEN w ELSE UpdateWave(g[k - 1], k - 1, dt, n)
        <4>1. CASE k = m
          <5>1. g[k] = UpdateWave(f[m - 1], m - 1, dt, n)
            BY <4>1, <3>1
          <5>2. g[k - 1] = f[m - 1]
            BY <4>1, <3>1
          <5> QED
            BY <4>1, <5>1, <5>2, <2>4
        <4>2. CASE k # m
          <5>1. k \in 0..(m - 1)
            BY <4>2, <3>1, <3>5
          <5>2. g[k] = f[k]
            BY <4>2
          <5>3. k # 0 => g[k - 1] = f[k - 1]
            BY <5>1, <3>1
          <5> HIDE DEF g
          <5> QED
            BY <5>1, <5>2, <5>3, <3>4
        <4> QED
          BY <4>1, <4>2
      <3>6. Loop(g, m, w, dt, n)
        <4>1. g = [k \in 0..m |-> g[k]]
          OBVIOUS
        <4> HIDE DEF g
        <4> QED
          BY <4>1, <3>5 DEF Loop
      <3> QED
        BY <2>2, <3>6
    <2> QED
      BY <2>3, <2>4
  <1>2. n \notin S
    BY <1>1
  <1> QED
    BY <1>2

(* Up to each wave, those that changed are flat, and the rest is as it was. *)
LEMMA LoopKeeps ==
  ASSUME NEW n \in Nat \ {0}, NEW w \in Waves(n), NEW dt \in Nat, FullFade \in Nat,
         NEW f, Loop(f, n, w, dt, n)
  PROVE  f[n] \in Waves(n) /\ (Fading(w) => Fading(f[n])) /\ Smooth(w, f[n])
  <1> DEFINE SoFar(k) == /\ f[k] \in Waves(n) /\ (Fading(w) => Fading(f[k]))
                        /\ \A j \in 0..(n - 1) :
                             /\ j >= k => f[k].shape[j] = w.shape[j]
                             /\ w.shape[j] # f[k].shape[j] => f[k].fade[j] = 0
             S == {k \in 0..n : ~SoFar(k)}
  <1>1. \A k \in 0..n : f[k] = IF k = 0 THEN w ELSE UpdateWave(f[k - 1], k - 1, dt, n)
    BY DEF Loop
  <1>2. ASSUME S # {} PROVE FALSE
    <2>1. PICK m \in S : \A y \in S : ~(<<y, m>> \in OpToRel(<, Nat))
      <3>1. S \subseteq Nat
        OBVIOUS
      <3> HIDE DEF S
      <3> QED
        BY <1>2, <3>1, WFMin, NatLessThanWellFounded
    <2>2. m \in 0..n /\ ~SoFar(m)
      OBVIOUS
    <2>3. CASE m = 0
      <3>1. f[0] = w
        BY <1>1, <2>2, <2>3
      <3> QED
        BY <2>2, <2>3, <3>1
    <2>4. CASE m # 0
      <3> DEFINE i == m - 1
      <3>1. i \in 0..n /\ i \in Nat /\ m \in Nat /\ i < m /\ i \in 0..(n - 1) /\ m = i + 1
        BY <2>2, <2>4
      <3>2. SoFar(i)
        <4>1. <<i, m>> \in OpToRel(<, Nat)
          BY <3>1 DEF OpToRel
        <4>2. i \notin S
          BY <2>1, <4>1
        <4> QED
          BY <3>1, <4>2
      <3>3. f[m] = UpdateWave(f[i], i, dt, n)
        BY <1>1, <2>2, <2>4
      <3> HIDE DEF i
      <3> DEFINE u == f[i]
                 v == UpdateWave(u, i, dt, n)
      <3>4. /\ v \in Waves(n) /\ (Fading(u) => Fading(v))
            /\ \A j \in (0..(n - 1)) \ {i} : SameWave(u, v, j)
            /\ u.shape[i] # v.shape[i] => v.fade[i] = 0
        <4>1. u \in Waves(n)
          BY <3>2
        <4> HIDE DEF u
        <4> QED
          BY <3>1, <4>1, WaveUpdated
      <3>5. f[m] = v /\ f[i] = u
        BY <3>3
      <3> HIDE DEF u, v
      <3>6. ASSUME NEW j \in 0..(n - 1)
            PROVE  /\ j >= m => v.shape[j] = w.shape[j]
                   /\ w.shape[j] # v.shape[j] => v.fade[j] = 0
        <4>1. /\ j >= i => u.shape[j] = w.shape[j]
              /\ w.shape[j] # u.shape[j] => u.fade[j] = 0
          BY <3>2, <3>5
        <4>2. CASE j = i
          BY <3>1, <3>4, <4>1, <4>2
        <4>3. CASE j # i
          <5>1. v.fade[j] = u.fade[j] /\ v.shape[j] = u.shape[j]
            BY <3>4, <4>3 DEF SameWave
          <5>2. j >= m => j >= i
            BY <3>1, <3>6
          <5> QED
            BY <4>1, <5>1, <5>2
        <4> QED
          BY <4>2, <4>3
      <3>7. v \in Waves(n) /\ (Fading(w) => Fading(v))
        BY <3>2, <3>4, <3>5
      <3>8. SoFar(m)
        BY <3>5, <3>6, <3>7
      <3> QED
        BY <2>2, <3>8
    <2> QED
      BY <2>3, <2>4
  <1>3. SoFar(n)
    <2>1. n \in 0..n
      OBVIOUS
    <2> QED
      BY <1>2, <2>1
  <1>4. DOMAIN w.fade = 0..(n - 1)
    BY DEF Waves
  <1> QED
    BY <1>3, <1>4 DEF Smooth

LEMMA WavesUpdated ==
  ASSUME NEW n \in Nat \ {0}, NEW w \in Waves(n), NEW dt \in Nat, FullFade \in Nat
  PROVE  /\ UpdateWaves(w, dt, n) \in Waves(n)
         /\ Fading(w) => Fading(UpdateWaves(w, dt, n))
         /\ Smooth(w, UpdateWaves(w, dt, n))
  <1> DEFINE f == CHOOSE g : g = [k \in 0..n |-> IF k = 0 THEN w
                                                  ELSE UpdateWave(g[k - 1], k - 1, dt, n)]
  <1>1. UpdateWaves(w, dt, n) = f[n]
    BY DEF UpdateWaves
  <1>2. \E g : g = [k \in 0..n |-> IF k = 0 THEN w ELSE UpdateWave(g[k - 1], k - 1, dt, n)]
    <2>1. PICK g : Loop(g, n, w, dt, n)
      <3>1. n \in Nat
        OBVIOUS
      <3> QED
        BY <3>1, LoopRuns
    <2> QED
      BY <2>1 DEF Loop
  <1>3. f = [k \in 0..n |-> IF k = 0 THEN w ELSE UpdateWave(f[k - 1], k - 1, dt, n)]
    BY <1>2
  <1> HIDE DEF f
  <1>4. Loop(f, n, w, dt, n)
    BY <1>3 DEF Loop
  <1> QED
    BY <1>1, <1>4, LoopKeeps

OceanInv ==
    /\ geowaves \in Waves(NumGeoWaves) /\ texwaves \in Waves(NumTexWaves)
    /\ Fading(geowaves) /\ Fading(texwaves)

LEMMA OceanBegins == OceanAssumption /\ OceanInit => OceanInv
  BY WavesInit DEF OceanAssumption, OceanInit, OceanInv

LEMMA OceanStep ==
  OceanAssumption /\ OceanInv /\ [OceanNext]_oceanvars => OceanInv' /\ [NoJump]_oceanvars
  <1> SUFFICES ASSUME OceanAssumption, OceanInv, [OceanNext]_oceanvars
               PROVE  OceanInv' /\ NoJump
    OBVIOUS
  <1>1. CASE geowaves' = geowaves /\ texwaves' = texwaves
    BY <1>1 DEF OceanInv, Fading, NoJump, Smooth
  <1>2. ASSUME NEW dt \in Elapsed, RenderWaves(dt) PROVE OceanInv' /\ NoJump
    <2>1. dt \in Nat /\ NumGeoWaves \in Nat \ {0} /\ NumTexWaves \in Nat \ {0} /\ FullFade \in Nat
      BY <1>2 DEF OceanAssumption
    <2>2. CASE invalidstate
      <3>1. geowaves' = InitWaves(NumGeoWaves) /\ texwaves' = InitWaves(NumTexWaves)
        BY <1>2, <2>2 DEF RenderWaves, Tick
      <3>2. /\ InitWaves(NumGeoWaves) \in Waves(NumGeoWaves) /\ Fading(InitWaves(NumGeoWaves))
            /\ InitWaves(NumTexWaves) \in Waves(NumTexWaves) /\ Fading(InitWaves(NumTexWaves))
        BY <2>1, WavesInit
      <3> QED
        BY <2>2, <3>1, <3>2 DEF OceanInv, NoJump
    <2>3. CASE ~invalidstate
      <3>1. /\ geowaves' = UpdateWaves(geowaves, dt, NumGeoWaves)
            /\ texwaves' = UpdateWaves(texwaves, dt, NumTexWaves)
        BY <1>2, <2>3 DEF RenderWaves, Tick
      <3>2. /\ geowaves \in Waves(NumGeoWaves) /\ texwaves \in Waves(NumTexWaves)
            /\ Fading(geowaves) /\ Fading(texwaves)
        BY DEF OceanInv
      <3>3. /\ geowaves' \in Waves(NumGeoWaves) /\ Fading(geowaves')
            /\ Smooth(geowaves, geowaves')
        BY <2>1, <3>1, <3>2, WavesUpdated
      <3>4. /\ texwaves' \in Waves(NumTexWaves) /\ Fading(texwaves')
            /\ Smooth(texwaves, texwaves')
        BY <2>1, <3>1, <3>2, WavesUpdated
      <3> QED
        BY <3>3, <3>4 DEF OceanInv, NoJump
    <2> QED
      BY <2>2, <2>3
  <1> QED
    BY <1>1, <1>2 DEF OceanNext, SetFrequency, SetEnableEffects, FrequencyCB, EnableEffectsCB,
       TimerCB, oceanvars, sensors, waves

(* Whenever the frames come, and however much time has passed between them, *)
(* at most one wave of a kind is not at full height, and one that becomes   *)
(* another is flat.                                                         *)
THEOREM SeaIsSmooth == OceanAssumption => (OceanSpec => []OneFades /\ SeaSmooth)
  <1> SUFFICES ASSUME OceanAssumption PROVE OceanSpec => []OneFades /\ SeaSmooth
    OBVIOUS
  <1>1. OceanInit => OceanInv
    BY OceanBegins
  <1>2. OceanInv /\ [OceanNext]_oceanvars => OceanInv' /\ [NoJump]_oceanvars
    BY OceanStep
  <1>3. OceanInv => OneFades
    BY DEF OceanInv, Fading, OneFades
  <1> QED
    BY <1>1, <1>2, <1>3, PTL DEF OceanSpec, SeaSmooth
-----------------------------------------------------------------------------
(* A cloud of points.                                                       *)

CloudInv ==
    /\ coords \in Seq(Int) /\ startIndex \in 0..Len(coords)
    /\ numPoints \in Int /\ numPoints <= Len(coords) - startIndex
    /\ detailDistance \in Int /\ lighting \in BOOLEAN /\ culling \in BOOLEAN

LEMMA CloudBegins == CloudAssumption /\ CloudInit => CloudInv
  <1> SUFFICES ASSUME CloudAssumption, CloudInit PROVE CloudInv
    OBVIOUS
  <1>1. detailDistance \in Distances /\ Distances \subseteq Int
    BY DEF CloudAssumption, CloudInit
  <1>2. coords \in Seq(Int) /\ Len(coords) = 0
    BY DEF CloudInit
  <1>3. startIndex = 0 /\ numPoints = -1 /\ lighting = TRUE /\ culling = TRUE
    BY DEF CloudInit
  <1> QED
    BY <1>1, <1>2, <1>3 DEF CloudInv

LEMMA CloudKept == CloudAssumption /\ CloudInv /\ [CloudNext]_cloudvars => CloudInv'
  <1> SUFFICES ASSUME CloudAssumption, CloudInv, [CloudNext]_cloudvars PROVE CloudInv'
    OBVIOUS
  <1>1. ASSUME NEW c \in Clouds, NEW n \in Counts, NEW s \in Starts, SetCloud(c, n, s)
        PROVE  CloudInv'
    <2>1. c \in Seq(Int) /\ n \in Int /\ s \in Nat /\ Len(c) \in Nat
      BY <1>1 DEF CloudAssumption
    <2> QED
      BY <1>1, <2>1 DEF SetCloud, CloudInv
  <1>2. ASSUME NEW d \in Distances, NEW b \in BOOLEAN, NEW sh, SetLooks(d, sh, b)
        PROVE  CloudInv'
    <2>1. d \in Int
      BY <1>2 DEF CloudAssumption
    <2> QED
      BY <1>2, <2>1 DEF SetLooks, CloudInv
  <1>3. ASSUME NEW l \in BOOLEAN, NEW c \in BOOLEAN, Others(l, c) PROVE CloudInv'
    BY <1>3 DEF Others, CloudInv
  <1>4. CASE GLRender
    <2>1. lighting' \in BOOLEAN /\ culling' \in BOOLEAN
      BY <1>4 DEF GLRender, LightingAfter, CullingAfter, CloudInv
    <2> QED
      BY <1>4, <2>1 DEF GLRender, CloudInv
  <1>5. CASE UNCHANGED cloudvars
    BY <1>5 DEF cloudvars, CloudInv
  <1> QED
    BY <1>1, <1>2, <1>3, <1>4, <1>5 DEF CloudNext

(* The points of a set as they are drawn, with their materials.             *)
Entries(s, N, mat) == {<<s + i, mat[i]>> : i \in N}
Firsts(D) == {d[1] : d \in D}
Places(s, N) == {s + i : i \in N}

(* Two loops that meet each of n points once.                               *)
Parted(N, F, n) == N \cup F = 0..(n - 1) /\ N \cap F = {}

(* What is drawn has one entry for each point.                              *)
LEMMA OncePerPoint ==
  ASSUME NEW n \in Nat, NEW s \in Int, NEW N, NEW F,
         Parted(N, F, n), NEW P, NEW Q
  PROVE  Cardinality(Entries(s, N, P) \cup Entries(s, F, Q)) = n
  <1> DEFINE A == Entries(s, N, P)
             B == Entries(s, F, Q)
             h == [i \in 0..(n - 1) |-> IF i \in N THEN <<s + i, P[i]>> ELSE <<s + i, Q[i]>>]
  <1>1. h \in [0..(n - 1) -> A \cup B]
    BY DEF Entries, Parted
  <1>2. \A x \in A \cup B : \E i \in 0..(n - 1) : h[i] = x
    BY DEF Entries, Parted
  <1>3. ASSUME NEW i \in 0..(n - 1), NEW j \in 0..(n - 1), h[i] = h[j] PROVE i = j
    <2>1. h[i][1] = s + i /\ h[j][1] = s + j
      OBVIOUS
    <2>2. s + i = s + j
      BY <1>3, <2>1
    <2> HIDE DEF h
    <2> QED
      BY <2>2
  <1> HIDE DEF h, A, B
  <1>4. h \in Bijection(0..(n - 1), A \cup B)
    BY <1>1, <1>2, <1>3 DEF Bijection, Injection, Surjection, IsInjective
  <1>5. ExistsBijection(0..(n - 1), A \cup B)
    BY <1>4 DEF ExistsBijection
  <1>6. IsFiniteSet(0..(n - 1)) /\ Cardinality(0..(n - 1)) = n
    <2>1. 0 \in Int /\ n - 1 \in Int /\ (IF 0 > n - 1 THEN 0 ELSE (n - 1) - 0 + 1) = n
      OBVIOUS
    <2> QED
      BY <2>1, FS_Interval
  <1> QED
    BY <1>5, <1>6, FS_Bijection DEF A, B

LEMMA EntriesFirst ==
  ASSUME NEW s, NEW N, NEW mat
  PROVE  Firsts(Entries(s, N, mat)) = Places(s, N)
  <1>1. ASSUME NEW i \in N PROVE s + i \in Firsts(Entries(s, N, mat))
    <2>1. <<s + i, mat[i]>> \in Entries(s, N, mat)
      BY DEF Entries
    <2>2. <<s + i, mat[i]>>[1] = s + i
      OBVIOUS
    <2> QED
      BY <2>1, <2>2 DEF Firsts
  <1>2. ASSUME NEW d \in Entries(s, N, mat) PROVE d[1] \in Places(s, N)
    BY DEF Entries, Places
  <1> QED
    BY <1>1, <1>2 DEF Firsts, Places

LEMMA CloudDraws == CloudAssumption /\ CloudInv /\ GLRender => CloudStep
  <1> SUFFICES ASSUME CloudAssumption, CloudInv, GLRender PROVE CloudStep
    OBVIOUS
  <1>1. /\ coords \in Seq(Int) /\ Len(coords) \in Nat /\ startIndex \in 0..Len(coords)
        /\ detailDistance \in Int /\ lighting \in BOOLEAN /\ culling \in BOOLEAN
        /\ numPoints \in Int /\ numPoints <= Len(coords) - startIndex
    BY DEF CloudInv
  <1>2. Numpts \in Nat /\ Numpts <= Len(coords) - startIndex /\ PrimitiveCount = Numpts
    BY <1>1 DEF Numpts, PrimitiveCount
  <1>3. Near \cup Far = 0..(Numpts - 1) /\ Near \cap Far = {}
    <2>1. ASSUME NEW i \in 0..(Numpts - 1) PROVE Dist(i) \in Int
      <3>1. startIndex + i + 1 \in 1..Len(coords)
        BY <1>1, <1>2
      <3> QED
        BY <1>1, <3>1 DEF Dist
    <2>2. \A i \in 0..(Numpts - 1) :
             (Dist(i) <= detailDistance) <=> ~(Dist(i) > detailDistance)
      BY <1>1, <2>1
    <2> QED
      BY <2>2 DEF Near, Far
  <1> DEFINE P == [i \in Near |-> Material(i, shape)]
             Q == [i \in Far |-> Material(i, "POINT")]
             A == Entries(startIndex, Near, P)
             B == Entries(startIndex, Far, Q)
  <1>4. /\ cloudDrawn'.lit = Solid /\ cloudDrawn'.shapes = A /\ cloudDrawn'.points = B
        /\ cloudDrawn'.culled = (shape # "BILLBOARD_DIAMOND" /\ culling)
    BY DEF GLRender, Entries
  <1>5. lighting' = lighting /\ culling' = culling
    BY <1>1 DEF GLRender, LightingAfter, CullingAfter
  <1> HIDE DEF P, Q
  <1>6. Cardinality(A \cup B) = PrimitiveCount
    <2>1. startIndex \in Int
      BY <1>1
    <2>2. Parted(Near, Far, Numpts)
      BY <1>3 DEF Parted
    <2> QED
      BY <1>2, <2>1, <2>2, OncePerPoint
  <1>7. Firsts(A) = Places(startIndex, Near) /\ Firsts(B) = Places(startIndex, Far)
    BY EntriesFirst
  <1> HIDE DEF A, B
  <1>8. Firsts(A \cup B) = Places(startIndex, 0..(Numpts - 1))
    <2>1. Firsts(A \cup B) = Firsts(A) \cup Firsts(B)
      BY DEF Firsts
    <2>2. Places(startIndex, Near \cup Far) = Places(startIndex, Near) \cup Places(startIndex, Far)
      BY DEF Places
    <2> QED
      BY <2>1, <2>2, <1>3, <1>7
  <1>9. Firsts(A) \cap Firsts(B) = {}
    <2>1. \A i \in Near, j \in Far : i \in Int /\ j \in Int /\ i # j
      BY <1>3
    <2>2. \A i \in Near, j \in Far : startIndex + i # startIndex + j
      BY <1>1, <2>1
    <2> QED
      BY <1>7, <2>2 DEF Places
  <1>10. {Primitives[i][1] : i \in DOMAIN Primitives} = Places(startIndex, 0..(Numpts - 1))
    <2>1. DOMAIN Primitives = 1..Numpts /\ \A i \in 1..Numpts : Primitives[i][1] = startIndex + i - 1
      BY DEF Primitives
    <2>2. ASSUME NEW i \in 1..Numpts
          PROVE  \E j \in 0..(Numpts - 1) : startIndex + i - 1 = startIndex + j
      <3>1. i - 1 \in 0..(Numpts - 1) /\ startIndex + i - 1 = startIndex + (i - 1)
        BY <1>1, <1>2
      <3> QED
        BY <3>1
    <2>3. ASSUME NEW j \in 0..(Numpts - 1)
          PROVE  \E i \in 1..Numpts : startIndex + i - 1 = startIndex + j
      <3>1. j + 1 \in 1..Numpts /\ startIndex + (j + 1) - 1 = startIndex + j
        BY <1>1, <1>2
      <3> QED
        BY <3>1
    <2>4. {Primitives[i][1] : i \in DOMAIN Primitives} = {startIndex + i - 1 : i \in 1..Numpts}
      BY <2>1
    <2> QED
      BY <2>2, <2>3, <2>4 DEF Places
  <1> QED
    BY <1>4, <1>5, <1>6, <1>8, <1>9, <1>10 DEF CloudStep, Firsts

(* Whatever points a cloud has, at whatever distances: each is drawn once,  *)
(* in one of the two loops, and GL is left as it was.                       *)
THEOREM CloudIsDrawn == CloudAssumption => (CloudSpec => CloudDrawn)
  <1> SUFFICES ASSUME CloudAssumption PROVE CloudSpec => CloudDrawn
    OBVIOUS
  <1>1. CloudInit => CloudInv
    BY CloudBegins
  <1>2. CloudInv /\ [CloudNext]_cloudvars => CloudInv'
    BY CloudKept
  <1>3. CloudInv /\ [CloudNext]_cloudvars => [CloudStep]_cloudvars
    <2>1. CloudInv /\ GLRender => CloudStep
      BY CloudDraws
    <2>2. ASSUME cloudDrawn' = cloudDrawn PROVE CloudStep
      BY <2>2 DEF CloudStep
    <2> QED
      BY <2>1, <2>2 DEF CloudNext, SetCloud, SetLooks, Others, cloudvars
  <1> QED
    BY <1>1, <1>2, <1>3, PTL DEF CloudSpec, CloudDrawn
-----------------------------------------------------------------------------
(* What the sea and a cloud promise together.                               *)
THEOREM DrawnIsSmooth ==
  OceanAssumption /\ CloudAssumption => (OceanSpec /\ CloudSpec => DrawnSmoothly)
  BY SeaIsSmooth, CloudIsDrawn, PTL DEF DrawnSmoothly
=============================================================================

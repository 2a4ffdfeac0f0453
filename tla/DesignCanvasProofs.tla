------------------------- MODULE DesignCanvasProofs -------------------------
(***************************************************************************)
(* Theorems about the design canvas and its sidecar file, for any sections *)
(* and revisions of the source and any number of edits and loads.          *)
(***************************************************************************)
EXTENDS DesignCanvas, ListsProofs

-----------------------------------------------------------------------------
(* The inductive invariant                                                  *)

\* No order has an artboard twice: in the state, in the file, on its way from a drop.
OrdersInv ==
  /\ \A s \in Section : /\ IsInjective(state[s].order)
                        /\ file # NoFile => IsInjective(file[s].order)
  /\ \A c \in settling : IsInjective(c.order)
  /\ drag # NoDrag => IsInjective(drag.order) /\ drag.slot.id \in ToSet(drag.order)

\* What the file holds, or would be read from it.
Stored == IF file = NoFile THEN Empty ELSE file

\* Before the read has settled nothing is written, and only edits are not lost by it.
PendingInv ==
  read = "pending" => /\ ~saving
                      /\ ~unsaved => state = Empty
                      /\ \A s \in Section : s \notin edited => state[s] = NoData

\* After a read that succeeded a section is as stored until it is edited.
UneditedInv == read = "ok" => \A s \in Section : s \notin edited => state[s] = Stored[s]

IInv == TypeOK /\ OrdersInv /\ PendingInv /\ UneditedInv /\ ShownIsSaved

\* What a section's data are like.
Sound(d) == d \in Data /\ IsInjective(d.order)

\* What the pointer and the keys have done since the load.
PointerOK ==
  /\ ready \in BOOLEAN /\ focus \in Slots \cup {None}
  /\ menu \in {None} \cup [slot : Slots, armed : BOOLEAN]
  /\ drag \in {NoDrag} \cup [slot : Slots, order : Seq(Ids)]
  /\ settling \subseteq [sec : Section, order : Seq(Ids)]
  /\ \A c \in settling : IsInjective(c.order)
  /\ drag # NoDrag => IsInjective(drag.order) /\ drag.slot.id \in ToSet(drag.order)

\* The rest of the types and orders.
RestOK ==
  /\ source \in Sources /\ state \in [Section -> Data] /\ file \in {NoFile} \cup [Section -> Data]
  /\ read \in {"pending", "ok", "failed"} /\ saving \in BOOLEAN
  /\ edits \in 0..MaxEdits /\ loads \in 1..MaxLoads /\ edited \subseteq Section /\ unsaved \in BOOLEAN
  /\ \A s \in Section : /\ IsInjective(state[s].order)
                        /\ file # NoFile => IsInjective(file[s].order)

\* The two make up the types and the orders.
LEMMA Parts == TypeOK /\ OrdersInv <=> PointerOK /\ RestOK
BY DEF TypeOK, OrdersInv, PointerOK, RestOK

\* The state of the sections is not the absence of a file.
LEMMA StateIsAFile == \A d : DOMAIN d = Section => d # NoFile
<1>1. Section # {}
  <2>1. 1 \in DOMAIN Sections  BY SectionsAssumption
  <2> QED BY <2>1 DEF Section, ToSet
<1>2. DOMAIN NoFile = {}  BY DEF NoFile
<1> QED BY <1>1, <1>2

\* A section without data.
LEMMA NoDataSound ==
  Sound(NoData) /\ Empty \in [Section -> Data] /\ \A s \in Section : Empty[s] = NoData
<1>1. <<>> \in Seq(Ids) /\ IsInjective(<<>>) /\ None \in Keys  BY DEF IsInjective, Keys
<1>2. NoData \in Data /\ NoData.order = <<>>  BY <1>1 DEF NoData, Data
<1> QED BY <1>1, <1>2 DEF Sound, Empty

\* The initial state has the inductive invariant.
LEMMA InitIInv == Init => IInv
<1> SUFFICES ASSUME Init PROVE IInv  OBVIOUS
<1>1. PointerOK  BY DEF Init, PointerOK
<1>2. RestOK
  <2>1. \A s \in Section : IsInjective(state[s].order)  BY NoDataSound DEF Init, Sound
  <2>2. edits \in 0..MaxEdits /\ loads \in 1..MaxLoads  BY BoundsAssumption DEF Init
  <2> QED BY <2>1, <2>2, NoDataSound DEF Init, RestOK
<1>3. PendingInv /\ UneditedInv /\ ShownIsSaved
  BY NoDataSound DEF Init, PendingInv, UneditedInv, ShownIsSaved
<1> QED BY <1>1, <1>2, <1>3, Parts DEF IInv

-----------------------------------------------------------------------------
(* What is shown                                                            *)

\* The ids of the artboards of a revision, and those that are hidden.
LEMMA SourceHas ==
  ASSUME TypeOK, NEW s \in Section
  PROVE  /\ source[s] \in Seq(Ids) /\ IsInjective(source[s])
         /\ \A k \in ToSet(source[s]) : [sec |-> s, id |-> k] \in Slots
<1>1. source \in Sources  BY DEF TypeOK
<1>2. source[s] \in Seq(ToSet(source[s])) /\ IsInjective(source[s])  BY <1>1, SourcesAssumption
<1>3. ASSUME NEW k \in ToSet(source[s]) PROVE [sec |-> s, id |-> k] \in Slots
  <2> DEFINE own == {[sec |-> s, id |-> j] : j \in ToSet(source[s])}
             all == {{[sec |-> t, id |-> j] : j \in ToSet(src[t])} : src \in Sources, t \in Section}
  <2>1. own \in all  BY <1>1
  <2>2. [sec |-> s, id |-> k] \in own  OBVIOUS
  <2>3. Slots = UNION all  BY DEF Slots
  <2> HIDE DEF own, all
  <2> QED BY <2>1, <2>2, <2>3
<1>4. ASSUME NEW k \in ToSet(source[s]) PROVE k \in Ids
  <2>1. [sec |-> s, id |-> k] \in Slots /\ [sec |-> s, id |-> k].id = k  BY <1>3
  <2> QED BY <2>1 DEF Ids
<1> QED BY <1>2, <1>3, <1>4, SeqMonotonic

\* ToSet is Range.
LEMMA SetIsRange == \A l : ToSet(l) = Range(l)
BY DEF ToSet, Range

\* Two sequences that have nothing in common, one after the other.
LEMMA JoinHas ==
  ASSUME NEW T, NEW l \in Seq(T), NEW m \in Seq(T)
  PROVE  /\ l \o m \in Seq(T) /\ Range(l \o m) = Range(l) \cup Range(m)
         /\ IsInjective(l) /\ IsInjective(m) /\ Range(l) \cap Range(m) = {} => IsInjective(l \o m)
<1> DEFINE j == l \o m
<1>1. /\ j \in Seq(T) /\ Len(j) = Len(l) + Len(m) /\ Len(l) \in Nat /\ Len(m) \in Nat
      /\ \A i \in 1..(Len(l) + Len(m)) : j[i] = IF i <= Len(l) THEN l[i] ELSE m[i - Len(l)]
  BY ConcatProperties
<1>2. Range(j) = Range(l) \cup Range(m)  BY RangeConcatenation
<1>3. DOMAIN j = 1..(Len(l) + Len(m)) /\ DOMAIN l = 1..Len(l) /\ DOMAIN m = 1..Len(m)  BY <1>1
<1> HIDE DEF j
<1>4. ASSUME IsInjective(l), IsInjective(m), Range(l) \cap Range(m) = {} PROVE IsInjective(j)
  <2> SUFFICES ASSUME NEW a \in DOMAIN j, NEW b \in DOMAIN j, j[a] = j[b] PROVE a = b  BY DEF IsInjective
  <2>1. \A i \in DOMAIN j : i <= Len(l) => i \in DOMAIN l /\ j[i] = l[i]  BY <1>1, <1>3
  <2>2. \A i \in DOMAIN j : ~(i <= Len(l)) => i - Len(l) \in DOMAIN m /\ j[i] = m[i - Len(l)]  BY <1>1, <1>3
  <2>3. CASE a <= Len(l) /\ b <= Len(l)  BY <1>4, <2>1, <2>3 DEF IsInjective
  <2>4. CASE ~(a <= Len(l)) /\ ~(b <= Len(l))
    <3>1. a - Len(l) = b - Len(l)  BY <1>4, <2>2, <2>4 DEF IsInjective
    <3> QED BY <1>1, <1>3, <3>1
  <2>5. \A x, y \in DOMAIN j : x <= Len(l) /\ ~(y <= Len(l)) => j[x] # j[y]
    BY <1>4, <2>1, <2>2 DEF Range
  <2> QED BY <2>3, <2>4, <2>5
<1> QED BY <1>1, <1>2, <1>4 DEF j

\* Every artboard of the source that is not hidden is shown once, and nothing else is.
LEMMA SlotIdsAre ==
  ASSUME TypeOK, OrdersInv, NEW s \in Section
  PROVE  /\ SlotIds(s) \in Seq(Ids) /\ IsInjective(SlotIds(s))
         /\ ToSet(SlotIds(s)) = ToSet(source[s]) \ Hidden(s)
<1> DEFINE src  == SrcIds(s)
           kept == Keep(state[s].order, ToSet(src))
           rest == Keep(src, ToSet(src) \ ToSet(kept))
<1>1. source[s] \in Seq(Ids) /\ IsInjective(source[s])  BY SourceHas
<1>2. src \in Seq(Ids) /\ IsInjective(src) /\ Range(src) = ToSet(source[s]) \ Hidden(s)
  BY <1>1, KeepHas, SetIsRange DEF SrcIds
<1>3. state[s].order \in Seq(Ids) /\ IsInjective(state[s].order)  BY DEF TypeOK, Data, OrdersInv
<1> HIDE DEF src
<1>4. kept \in Seq(Ids) /\ IsInjective(kept) /\ Range(kept) = Range(state[s].order) \cap Range(src)
  BY <1>3, KeepHas, SetIsRange
<1> HIDE DEF kept
<1>5. rest \in Seq(Ids) /\ IsInjective(rest) /\ Range(rest) = Range(src) \ Range(kept)
  BY <1>2, KeepHas, SetIsRange
<1>6. SlotIds(s) = kept \o rest  BY DEF SlotIds, src, kept
<1> HIDE DEF rest
<1>7. Range(kept) \cap Range(rest) = {} /\ Range(kept) \cup Range(rest) = Range(src)  BY <1>4, <1>5
<1> QED BY <1>2, <1>4, <1>5, <1>6, <1>7, JoinHas, SetIsRange

\* What is shown is a slot.
LEMMA ShownIs ==
  ASSUME TypeOK, OrdersInv, NEW x \in Shown
  PROVE  x \in Slots /\ x.sec \in Section /\ x.id \in Ids /\ x.id \in ToSet(SlotIds(x.sec))
<1>1. PICK s \in Section : x \in {[sec |-> s, id |-> k] : k \in ToSet(SlotIds(s))}  BY DEF Shown
<1>2. PICK k \in ToSet(SlotIds(s)) : x = [sec |-> s, id |-> k]  BY <1>1
<1>3. x \in Slots  BY <1>2, SlotIdsAre, SourceHas
<1> QED BY <1>2, <1>3 DEF Ids

\* And what SlotIds lists is shown.
LEMMA SlotsShown == \A s \in Section : \A k \in ToSet(SlotIds(s)) : [sec |-> s, id |-> k] \in Shown
BY DEF Shown

\* A slot has a section and an id.
LEMMA SlotHas == \A x \in Slots : x.sec \in Section /\ x.id \in Ids
BY DEF Slots, Ids

-----------------------------------------------------------------------------
(* The calls about the file, and the edits                                  *)

\* The three calls about the file keep the types and the orders.
LEMMA FileTypes == ASSUME TypeOK, OrdersInv, Settle \/ Save \/ Reload PROVE TypeOK' /\ OrdersInv'
<1>1. PointerOK /\ RestOK  BY Parts
<1>2. CASE Settle
  <2>1. PointerOK'  BY <1>1, <1>2 DEF PointerOK, Settle
  <2>2. RestOK'  BY <1>1, <1>2 DEF RestOK, Settle
  <2> QED BY <2>1, <2>2, Parts, PTL
<1>3. CASE Save
  <2>1. PointerOK'  BY <1>1, <1>3 DEF PointerOK, Save
  <2>2. RestOK'  BY <1>1, <1>3 DEF RestOK, Save
  <2> QED BY <2>1, <2>2, Parts, PTL
<1>4. CASE Reload
  <2>1. PointerOK'  BY <1>4 DEF PointerOK, Reload
  <2>2. loads' \in 1..MaxLoads  BY <1>1, <1>4, BoundsAssumption DEF RestOK, Reload
  <2>3. RestOK'  BY <1>1, <1>4, <2>2, NoDataSound DEF RestOK, Reload, Sound
  <2> QED BY <2>1, <2>3, Parts, PTL
<1> QED BY <1>2, <1>3, <1>4

\* They keep the invariant.
LEMMA FileKeeps == ASSUME IInv, Settle \/ Save \/ Reload PROVE IInv'
<1>0. TypeOK' /\ OrdersInv'  BY FileTypes DEF IInv
<1>1. CASE Settle
  <2>1. /\ UNCHANGED <<file, saving, unsaved>> /\ read = "pending" /\ ~saving
        /\ \/ file # NoFile /\ read' = "ok" /\ state' = file /\ edited' = {}
           \/ file = NoFile /\ read' = "ok" /\ UNCHANGED <<state, edited>>
           \/ read' = "failed" /\ UNCHANGED <<state, edited>>
    BY <1>1 DEF Settle, IInv, PendingInv
  <2>3. PendingInv'  BY <2>1 DEF PendingInv
  <2>4. UneditedInv'
    <3>1. Empty' = Empty  BY DEF Empty, NoData
    <3>2. CASE file # NoFile /\ read' = "ok" /\ state' = file  BY <2>1, <3>2 DEF UneditedInv, Stored
    <3>3. CASE file = NoFile /\ read' = "ok" /\ UNCHANGED <<state, edited>>
      BY <2>1, <3>3, NoDataSound DEF IInv, PendingInv, UneditedInv, Stored
    <3> QED BY <2>1, <3>2, <3>3 DEF UneditedInv
  <2>5. ShownIsSaved'  BY <2>1 DEF IInv, PendingInv, ShownIsSaved
  <2> QED BY <1>0, <2>3, <2>4, <2>5 DEF IInv
<1>2. CASE Save
  <2>1. /\ UNCHANGED <<state, read, edited>> /\ saving /\ ~saving'
        /\ \/ file' = state
           \/ UNCHANGED file /\ unsaved'
    BY <1>2 DEF Save
  <2>2. state # NoFile /\ read # "pending"  BY <2>1, StateIsAFile DEF IInv, TypeOK, PendingInv
  <2>4. PendingInv'  BY <2>1, <2>2 DEF PendingInv
  <2>5. UneditedInv'  BY <2>1, <2>2 DEF IInv, UneditedInv, Stored
  <2>6. ShownIsSaved'  BY <2>1, <2>2 DEF ShownIsSaved
  <2> QED BY <1>0, <2>4, <2>5, <2>6 DEF IInv
<1>3. CASE Reload
  <2>1. UNCHANGED file /\ state' = Empty /\ read' = "pending" /\ ~saving'  BY <1>3 DEF Reload
  <2>2. PendingInv' /\ UneditedInv' /\ ShownIsSaved'
    BY <2>1, NoDataSound DEF PendingInv, UneditedInv, ShownIsSaved, Empty, NoData
  <2> QED BY <1>0, <2>2 DEF IInv
<1> QED BY <1>1, <1>2, <1>3

\* An edit keeps the invariant, if the new data are sound.
LEMMA PatchKeeps ==
  ASSUME IInv, NEW s \in Section, NEW d, Sound(d), Patch(s, d),
         UNCHANGED <<focus, drag>>, settling' \subseteq settling, menu' \in {None, menu}
  PROVE  IInv'
<1>1. /\ state' = [state EXCEPT ![s] = d] /\ edited' = edited \cup {s}
      /\ UNCHANGED <<source, file, read, ready, loads>> /\ edits < MaxEdits /\ edits' = edits + 1
      /\ saving' = (saving \/ read # "pending") /\ unsaved' = (unsaved \/ read = "pending")
  BY DEF Patch, Touch
<1>2. PointerOK /\ RestOK  BY Parts DEF IInv
<1>3. state' \in [Section -> Data] /\ \A x \in Section : state'[x] = IF x = s THEN d ELSE state[x]
  BY <1>1, <1>2 DEF RestOK, Sound
<1>4. PointerOK'  BY <1>1, <1>2 DEF PointerOK
<1>5. RestOK'
  <2>1. edits' \in 0..MaxEdits  BY <1>1, <1>2, BoundsAssumption DEF RestOK
  <2>2. saving' \in BOOLEAN /\ unsaved' \in BOOLEAN  BY <1>1
  <2>3. \A x \in Section : IsInjective(state'[x].order)  BY <1>2, <1>3 DEF RestOK, Sound
  <2> QED BY <1>1, <1>2, <1>3, <2>1, <2>2, <2>3 DEF RestOK
<1>6. PendingInv'  BY <1>1, <1>3 DEF IInv, PendingInv
<1>7. UneditedInv'  BY <1>1, <1>3 DEF IInv, UneditedInv, Stored
<1>8. ShownIsSaved'  BY <1>1 DEF ShownIsSaved
<1>9. TypeOK' /\ OrdersInv'  BY <1>4, <1>5, Parts, PTL
<1> QED BY <1>6, <1>7, <1>8, <1>9 DEF IInv

\* The data that the edits make are sound; only a delete hides anything.
LEMMA Sounds ==
  ASSUME TypeOK, OrdersInv, NEW s \in Section
  PROVE  /\ Sound([state[s] EXCEPT !.title = "title"])
         /\ \A k \in Ids : Sound([state[s] EXCEPT !.labels = @ \cup {k}])
         /\ \A o \in Seq(Ids) : IsInjective(o) => Sound([state[s] EXCEPT !.order = o])
         /\ \A k \in Ids : Sound(Hide(state[s], s, k))
<1> DEFINE d == state[s]
<1>1. d \in Data /\ IsInjective(d.order)  BY DEF TypeOK, OrdersInv
<1>2. source[s] \in Keys  BY DEF TypeOK, Keys
<1> HIDE DEF d
<1>3. Sound([d EXCEPT !.title = "title"])  BY <1>1 DEF Sound, Data
<1>4. ASSUME NEW k \in Ids PROVE Sound([d EXCEPT !.labels = @ \cup {k}])  BY <1>1 DEF Sound, Data
<1>5. ASSUME NEW o \in Seq(Ids), IsInjective(o) PROVE Sound([d EXCEPT !.order = o])
  BY <1>1, <1>5 DEF Sound, Data
<1>6. ASSUME NEW k \in Ids PROVE Sound(Hide(d, s, k))
  <2> DEFINE before == IF d.srcKey = source[s] THEN d.hidden ELSE <<>>
  <2>1. before \in Seq(Ids)  BY <1>1 DEF Data
  <2>2. Append(before, k) \in Seq(Ids)  BY <2>1, <1>6
  <2>3. Hide(d, s, k) = [d EXCEPT !.hidden = Append(before, k), !.srcKey = source[s]]  BY DEF Hide
  <2> HIDE DEF before
  <2>4. ASSUME NEW h \in Seq(Ids) PROVE Sound([d EXCEPT !.hidden = h, !.srcKey = source[s]])
    BY <1>1, <1>2 DEF Sound, Data
  <2> QED BY <2>2, <2>3, <2>4
<1> QED BY <1>3, <1>4, <1>5, <1>6 DEF d

\* Every edit is a patch of one section with sound data.
LEMMA Edits ==
  ASSUME IInv,
         \/ \E s \in Section : RenameSection(s)
         \/ \E x \in Shown : RenameArtboard(x)
         \/ Delete
         \/ \E c \in settling : Reorder(c)
  PROVE  /\ UNCHANGED <<focus, drag>> /\ settling' \subseteq settling /\ menu' \in {None, menu}
         /\ \E s \in Section : \E d :
              /\ Sound(d) /\ Patch(s, d)
              /\ \/ d.hidden = state[s].hidden /\ d.srcKey = state[s].srcKey
                 \/ \E k \in Ids : d = Hide(state[s], s, k)
<1>0. TypeOK /\ OrdersInv /\ \A s \in Section : state[s] \in Data  BY DEF IInv, TypeOK
<1>1. CASE \E s \in Section : RenameSection(s)
  <2>1. PICK s \in Section : RenameSection(s)  BY <1>1
  <2> DEFINE d == [state[s] EXCEPT !.title = "title"]
  <2>2. Patch(s, d) /\ menu' = None /\ UNCHANGED <<focus, drag, settling>>  BY <2>1 DEF RenameSection
  <2>3. Sound(d) /\ d.hidden = state[s].hidden /\ d.srcKey = state[s].srcKey  BY <1>0, Sounds DEF Data
  <2> QED BY <2>2, <2>3
<1>2. CASE \E x \in Shown : RenameArtboard(x)
  <2>1. PICK x \in Shown : RenameArtboard(x)  BY <1>2
  <2> DEFINE s == x.sec
             d == [state[s] EXCEPT !.labels = @ \cup {x.id}]
  <2>2. Patch(s, d) /\ menu' = None /\ UNCHANGED <<focus, drag, settling>>  BY <2>1 DEF RenameArtboard
  <2>3. s \in Section /\ x.id \in Ids  BY <1>0, ShownIs
  <2>4. Sound(d)  BY <1>0, <2>3, Sounds
  <2>5. state[s] \in Data  BY <1>0, <2>3
  <2>6. d.hidden = state[s].hidden /\ d.srcKey = state[s].srcKey  BY <2>5 DEF Data
  <2> QED BY <2>2, <2>3, <2>4, <2>6
<1>3. CASE Delete
  <2> DEFINE s == menu.slot.sec
             k == menu.slot.id
  <2>1. menu.slot \in Shown /\ Patch(s, Hide(state[s], s, k)) /\ menu' = None /\ UNCHANGED <<focus, drag, settling>>
    BY <1>3 DEF Delete
  <2>2. s \in Section /\ k \in Ids  BY <1>0, <2>1, ShownIs
  <2>3. Sound(Hide(state[s], s, k))  BY <1>0, <2>2, Sounds
  <2> QED BY <2>1, <2>2, <2>3
<1>4. CASE \E c \in settling : Reorder(c)
  <2>1. PICK c \in settling : Reorder(c)  BY <1>4
  <2> DEFINE s == c.sec
             d == [state[s] EXCEPT !.order = c.order]
  <2>2. Patch(s, d) /\ UNCHANGED <<focus, menu, drag>> /\ settling' = settling \ {c}  BY <2>1 DEF Reorder
  <2>3. s \in Section /\ c.order \in Seq(Ids) /\ IsInjective(c.order)  BY <1>0 DEF TypeOK, OrdersInv
  <2>4. Sound(d)  BY <1>0, <2>3, Sounds
  <2>5. state[s] \in Data  BY <1>0, <2>3
  <2>6. d.hidden = state[s].hidden /\ d.srcKey = state[s].srcKey  BY <2>5 DEF Data
  <2> QED BY <2>2, <2>3, <2>4, <2>6
<1> QED BY <1>1, <1>2, <1>3, <1>4

-----------------------------------------------------------------------------
(* The pointer and the keys                                                 *)

\* A card put at place i of the order without it.
LEMMA InsertHas ==
  ASSUME NEW T, NEW l \in Seq(T), NEW i \in 1..(Len(l) + 1), NEW x \in T
  PROVE  /\ InsertAt(l, i, x) \in Seq(T)
         /\ IsInjective(l) /\ x \notin Range(l) => IsInjective(InsertAt(l, i, x))
<1> DEFINE a == SubSeq(l, 1, i - 1)
           b == SubSeq(l, i, Len(l))
           one == <<x>>
<1>0. Len(l) \in Nat /\ i \in Nat /\ DOMAIN l = 1..Len(l) /\ \A n \in 1..Len(l) : l[n] \in T  OBVIOUS
<1>1. /\ a \in Seq(T) /\ Len(a) = i - 1 /\ \A n \in 1..(i - 1) : a[n] = l[n]
  <2>1. \A n \in 1..(i - 1) : l[n] \in T  BY <1>0
  <2>2. /\ a \in Seq(T) /\ Len(a) = IF 1 <= i - 1 THEN (i - 1) - 1 + 1 ELSE 0
        /\ \A n \in 1..((i - 1) - 1 + 1) : a[n] = l[1 + n - 1]
    BY <1>0, <2>1, SubSeqProperties
  <2>3. (i - 1) - 1 + 1 = i - 1 /\ \A n \in 1..(i - 1) : 1 + n - 1 = n  BY <1>0
  <2> QED BY <1>0, <2>2, <2>3
<1>2. /\ b \in Seq(T) /\ Len(b) = Len(l) - i + 1 /\ \A n \in 1..(Len(l) - i + 1) : b[n] = l[i + n - 1]
  <2>1. \A n \in i..Len(l) : l[n] \in T  BY <1>0
  <2>2. /\ b \in Seq(T) /\ Len(b) = IF i <= Len(l) THEN Len(l) - i + 1 ELSE 0
        /\ \A n \in 1..(Len(l) - i + 1) : b[n] = l[i + n - 1]
    BY <1>0, <2>1, SubSeqProperties
  <2> QED BY <1>0, <2>2
<1> HIDE DEF a, b
<1>3. one \in Seq(T) /\ Range(one) = {x} /\ IsInjective(one)  BY DEF Range, IsInjective
<1> HIDE DEF one
<1>4. a \o one \in Seq(T) /\ Range(a \o one) = Range(a) \cup {x}
  BY <1>1, <1>3, JoinHas
<1>5. InsertAt(l, i, x) = (a \o one) \o b  BY DEF InsertAt, a, b, one
<1>6. ASSUME IsInjective(l), x \notin Range(l) PROVE IsInjective((a \o one) \o b)
  <2>1. DOMAIN a = 1..(i - 1) /\ DOMAIN b = 1..(Len(l) - i + 1)  BY <1>0, <1>1, <1>2
  <2>2. \A n \in DOMAIN a : n \in DOMAIN l /\ n < i /\ a[n] = l[n]  BY <1>0, <1>1, <2>1
  <2>3. \A n \in DOMAIN b : i + n - 1 \in DOMAIN l /\ ~(i + n - 1 < i) /\ b[n] = l[i + n - 1]  BY <1>0, <1>2, <2>1
  <2>4. IsInjective(a)  BY <1>6, <2>2 DEF IsInjective
  <2>5. IsInjective(b)
    <3>1. \A m, n \in DOMAIN b : b[m] = b[n] => i + m - 1 = i + n - 1  BY <1>6, <2>3 DEF IsInjective
    <3>2. \A m, n \in DOMAIN b : i + m - 1 = i + n - 1 => m = n  BY <1>0, <2>1
    <3> QED BY <3>1, <3>2 DEF IsInjective
  <2>6. Range(a) \subseteq Range(l) /\ Range(b) \subseteq Range(l)  BY <2>2, <2>3 DEF Range
  <2>7. Range(a) \cap Range(b) = {}
    <3>1. \A m \in DOMAIN a, n \in DOMAIN b : m # i + n - 1  BY <2>2, <2>3
    <3>2. \A m \in DOMAIN a, n \in DOMAIN b : a[m] # b[n]  BY <1>6, <2>2, <2>3, <3>1 DEF IsInjective
    <3> QED BY <3>2 DEF Range
  <2>8. IsInjective(a \o one)  BY <1>1, <1>3, <1>6, <2>4, <2>6, JoinHas
  <2>9. Range(a \o one) \cap Range(b) = {}  BY <1>4, <1>6, <2>6, <2>7
  <2> QED BY <1>2, <1>4, <2>5, <2>8, <2>9, JoinHas
<1>7. (a \o one) \o b \in Seq(T)  BY <1>2, <1>4, JoinHas
<1> QED BY <1>5, <1>6, <1>7

\* Nor has the order that a drop commits an artboard twice.
LEMMA DropKeeps == ASSUME PointerOK, NEW i \in DOMAIN drag.order, Drop(i) PROVE PointerOK'
<1> DEFINE order == drag.order
           id    == drag.slot.id
           rest  == Keep(order, ToSet(order) \ {id})
           live  == InsertAt(rest, i, id)
<1>1. /\ drag # NoDrag /\ drag' = NoDrag /\ UNCHANGED <<ready, focus, menu>>
      /\ settling' = settling \/ settling' = settling \cup {[sec |-> drag.slot.sec, order |-> live]}
  BY DEF Drop, vars, page
<1>2. /\ drag \in [slot : Slots, order : Seq(Ids)] /\ IsInjective(order) /\ id \in Range(order)
  BY <1>1, SetIsRange DEF PointerOK
<1>3. drag.slot.sec \in Section /\ id \in Ids /\ order \in Seq(Ids)  BY <1>2, SlotHas
<1>4. rest \in Seq(Ids) /\ IsInjective(rest) /\ Range(rest) = Range(order) \ {id} /\ Len(rest) = Len(order) - 1
  BY <1>2, <1>3, SetIsRange, KeepHas, KeepButOne
<1>5. i \in 1..(Len(rest) + 1)  BY <1>3, <1>4
<1> HIDE DEF rest
<1>6. live \in Seq(Ids) /\ IsInjective(live)  BY <1>3, <1>4, <1>5, InsertHas
<1> HIDE DEF live
<1>7. [sec |-> drag.slot.sec, order |-> live] \in [sec : Section, order : Seq(Ids)]  BY <1>3, <1>6
<1> QED BY <1>1, <1>6, <1>7 DEF PointerOK

\* The arrows lead from one artboard that is shown to another.
LEMMA StepIs == ASSUME TypeOK, OrdersInv, NEW x \in Shown, NEW d \in {-1, 1} PROVE Step(x, d) \in Shown
<1> DEFINE peers == SlotIds(x.sec)
           n     == Len(peers)
           i     == CHOOSE j \in 1..n : peers[j] = x.id
           k     == ((i - 1 + d + n) % n) + 1
<1>1. x \in Slots /\ x.sec \in Section /\ x.id \in ToSet(peers)  BY ShownIs
<1>2. peers \in Seq(Ids) /\ n \in Nat /\ DOMAIN peers = 1..n  BY <1>1, SlotIdsAre
<1>3. \A j \in ToSet(peers) : [sec |-> x.sec, id |-> j] \in Shown  BY <1>1, SlotsShown
<1> HIDE DEF peers
<1>4. \E j \in 1..n : peers[j] = x.id  BY <1>1, <1>2 DEF ToSet
<1>5. i \in 1..n  BY <1>4
<1> HIDE DEF i, n
<1>6. k \in 1..n
  <2>1. n > 0 /\ i - 1 + d + n \in Int  BY <1>2, <1>5 DEF n
  <2>2. (i - 1 + d + n) % n \in 0..(n - 1)  BY <1>2, <2>1 DEF n
  <2> QED BY <1>2, <2>2 DEF n
<1> HIDE DEF k
<1>7. peers[k] \in ToSet(peers)  BY <1>2, <1>6 DEF ToSet, n
<1>8. Step(x, d) = [x EXCEPT !.id = peers[k]]  BY DEF Step, peers, n, i, k
<1>9. x = [sec |-> x.sec, id |-> x.id]  BY <1>1 DEF Slots
<1>10. [x EXCEPT !.id = peers[k]] = [sec |-> x.sec, id |-> peers[k]]  BY <1>9
<1> QED BY <1>3, <1>7, <1>8, <1>10

\* So do those between the sections.
LEMMA StepSectionIs ==
  ASSUME TypeOK, OrdersInv, NEW x \in Shown, NEW d \in {-1, 1}
  PROVE  StepSection(x, d) \in Shown
<1> DEFINE n      == Len(Sections)
           at     == CHOOSE i \in 1..n : Sections[i] = x.sec
           Nth(i) == Sections[((at - 1 + d * i + n * n) % n) + 1]
           full   == {i \in 1..(n - 1) : SlotIds(Nth(i)) # <<>>}
<1>1. x \in Slots /\ x.sec \in Section  BY ShownIs
<1>2. n \in Nat /\ DOMAIN Sections = 1..n  BY SectionsAssumption
<1>3. at \in 1..n
  <2>1. \E i \in 1..n : Sections[i] = x.sec  BY <1>1, <1>2 DEF Section, ToSet
  <2> QED BY <2>1
<1> HIDE DEF at
<1>4. ASSUME NEW i \in Nat PROVE Nth(i) \in Section
  <2>1. d * i \in Int /\ n * n \in Int /\ n > 0  BY <1>2, <1>3
  <2>2. at - 1 + d * i + n * n \in Int  BY <1>2, <1>3, <2>1
  <2>3. (at - 1 + d * i + n * n) % n \in 0..(n - 1)  BY <1>2, <2>1, <2>2
  <2>4. ((at - 1 + d * i + n * n) % n) + 1 \in 1..n  BY <1>2, <2>3
  <2> QED BY <1>2, <2>4 DEF Section, ToSet
<1>5. StepSection(x, d) = IF full = {} THEN x ELSE [sec |-> Nth(Min(full)), id |-> SlotIds(Nth(Min(full)))[1]]
  BY DEF StepSection, at
<1> HIDE DEF Nth
<1>6. CASE full # {}
  <2>1. full \in SUBSET Nat  OBVIOUS
  <2>2. Min(full) \in full
    <3>1. \E i \in full : \A j \in full : i <= j  BY <1>6, <2>1, LeastExists
    <3> HIDE DEF full
    <3> QED BY <3>1 DEF Min
  <2> DEFINE s == Nth(Min(full))
  <2>3. s \in Section /\ SlotIds(s) # <<>>  BY <1>4, <2>1, <2>2
  <2> HIDE DEF s
  <2>4. SlotIds(s) \in Seq(Ids) /\ \A k \in ToSet(SlotIds(s)) : [sec |-> s, id |-> k] \in Shown
    BY <2>3, SlotIdsAre, SlotsShown
  <2>5. 1 \in DOMAIN SlotIds(s)  BY <2>3, <2>4, EmptySeq
  <2>6. [sec |-> s, id |-> SlotIds(s)[1]] \in Shown  BY <2>4, <2>5 DEF ToSet
  <2> QED BY <1>5, <1>6, <2>6 DEF s
<1> QED BY <1>5, <1>6

\* A step that is neither an edit nor a call about the file.
Other ==
  \/ ShowAnyway \/ CloseMenu \/ ArmDelete \/ Escape \/ UNCHANGED vars
  \/ \E x \in Shown : ToggleMenu(x) \/ GripDown(x) \/ SetFocus(x)
  \/ \E i \in DOMAIN drag.order : Drop(i)
  \/ \E d \in {-1, 1} : Arrow(d) \/ ArrowSection(d)

\* It leaves the sections, the file and the source alone.
LEMMA OtherIs ==
  ASSUME TypeOK, OrdersInv, Other
  PROVE  UNCHANGED <<source, state, file, read, saving, edits, loads, edited, unsaved>> /\ PointerOK'
<1>0. PointerOK  BY Parts
<1>1. CASE ShowAnyway \/ CloseMenu \/ ArmDelete \/ Escape \/ UNCHANGED vars
  <2>1. UNCHANGED <<source, state, file, read, saving, edits, loads, edited, unsaved, drag, settling>>
    BY <1>1 DEF ShowAnyway, CloseMenu, ArmDelete, Escape, Unfocused, vars, page
  <2>2. ready' \in BOOLEAN /\ focus' \in Slots \cup {None} /\ menu' \in {None} \cup [slot : Slots, armed : BOOLEAN]
    BY <1>0, <1>1 DEF ShowAnyway, CloseMenu, ArmDelete, Escape, Unfocused, vars, page, PointerOK
  <2> QED BY <1>0, <2>1, <2>2 DEF PointerOK
<1>2. ASSUME NEW x \in Shown, ToggleMenu(x) \/ GripDown(x) \/ SetFocus(x)
      PROVE  UNCHANGED <<source, state, file, read, saving, edits, loads, edited, unsaved>> /\ PointerOK'
  <2>0. x \in Slots /\ x.sec \in Section /\ x.id \in ToSet(SlotIds(x.sec))  BY ShownIs
  <2>1. CASE GripDown(x)
    <3>1. /\ UNCHANGED <<source, state, file, read, saving, edits, loads, edited, unsaved, ready, focus, settling>>
          /\ menu' = None /\ drag' = [slot |-> x, order |-> SlotIds(x.sec)]
      BY <2>1 DEF GripDown
    <3>2. SlotIds(x.sec) \in Seq(Ids) /\ IsInjective(SlotIds(x.sec))  BY <2>0, SlotIdsAre
    <3> QED BY <1>0, <2>0, <3>1, <3>2 DEF PointerOK
  <2>2. CASE ToggleMenu(x)
    <3>1. /\ UNCHANGED <<source, state, file, read, saving, edits, loads, edited, unsaved, ready, focus, drag, settling>>
          /\ menu' = None \/ menu' = [slot |-> x, armed |-> FALSE]
      BY <2>2 DEF ToggleMenu
    <3>2. [slot |-> x, armed |-> FALSE] \in [slot : Slots, armed : BOOLEAN]  BY <2>0
    <3>3. menu' \in {None} \cup [slot : Slots, armed : BOOLEAN]  BY <3>1, <3>2
    <3> QED BY <1>0, <3>1, <3>3 DEF PointerOK
  <2>3. CASE SetFocus(x)  BY <1>0, <2>0, <2>3 DEF SetFocus, Unfocused, PointerOK
  <2> QED BY <1>2, <2>1, <2>2, <2>3
<1>3. ASSUME NEW i \in DOMAIN drag.order, Drop(i)
      PROVE  UNCHANGED <<source, state, file, read, saving, edits, loads, edited, unsaved>> /\ PointerOK'
  BY <1>0, <1>3, DropKeeps DEF Drop
<1>4. ASSUME NEW d \in {-1, 1}, Arrow(d) \/ ArrowSection(d)
      PROVE  UNCHANGED <<source, state, file, read, saving, edits, loads, edited, unsaved>> /\ PointerOK'
  <2>1. /\ UNCHANGED <<source, state, file, read, saving, edits, loads, edited, unsaved, ready, drag, settling, menu>>
        /\ focus \in Shown /\ focus' \in {Step(focus, d), StepSection(focus, d)}
    BY <1>4 DEF Arrow, ArrowSection, Unfocused, Focused
  <2>2. focus' \in Slots  BY <2>1, StepIs, StepSectionIs, ShownIs
  <2> QED BY <1>0, <2>1, <2>2 DEF PointerOK
<1> QED BY <1>1, <1>2, <1>3, <1>4 DEF Other

\* So it keeps the invariant.
LEMMA OtherKeeps == ASSUME IInv, Other PROVE IInv'
<1>1. UNCHANGED <<source, state, file, read, saving, edits, loads, edited, unsaved>> /\ PointerOK'
  BY OtherIs DEF IInv
<1>2. RestOK'  BY <1>1, Parts DEF IInv, RestOK
<1>3. TypeOK' /\ OrdersInv'  BY <1>1, <1>2, Parts, PTL
<1>4. PendingInv' /\ UneditedInv' /\ ShownIsSaved'
  BY <1>1 DEF IInv, PendingInv, UneditedInv, ShownIsSaved, Stored
<1> QED BY <1>3, <1>4 DEF IInv

\* Every step is of one of the three kinds.
LEMMA Kinds ==
  ASSUME [Next]_vars
  PROVE  \/ Settle \/ Save \/ Reload
         \/ (\E s \in Section : RenameSection(s)) \/ (\E x \in Shown : RenameArtboard(x)) \/ Delete
         \/ \E c \in settling : Reorder(c)
         \/ Other
BY DEF Next, Other

\* Every step keeps the inductive invariant.
LEMMA NextIInv == ASSUME IInv, [Next]_vars PROVE IInv'
<1>1. CASE Settle \/ Save \/ Reload  BY <1>1, FileKeeps
<1>2. CASE Other  BY <1>2, OtherKeeps
<1>3. CASE \/ (\E s \in Section : RenameSection(s)) \/ (\E x \in Shown : RenameArtboard(x)) \/ Delete
           \/ \E c \in settling : Reorder(c)
  BY <1>3, Edits, PatchKeeps
<1> QED BY <1>1, <1>2, <1>3, Kinds

-----------------------------------------------------------------------------
\* Theorem: the inductive invariant of the canvas holds in every reachable state.
THEOREM Invariance == Spec => []IInv
BY InitIInv, NextIInv, PTL DEF Spec

\* Theorem: every variable of the canvas keeps its type.
THEOREM TypeCorrect == Spec => []TypeOK
<1>1. IInv => TypeOK  BY DEF IInv
<1> QED BY <1>1, Invariance, PTL

\* Theorem: the arrow keys lead from an artboard that is shown to one that is shown, whatever
\* was deleted or came with another revision of the source (design-canvas.jsx:789-820).
THEOREM ArrowsStayShown ==
  Spec => [][\A d \in {-1, 1} : Arrow(d) \/ ArrowSection(d) => focus \in Shown /\ focus' \in Shown']_vars
<1> DEFINE Stays == \A d \in {-1, 1} : Arrow(d) \/ ArrowSection(d) => focus \in Shown /\ focus' \in Shown'
<1>1. ASSUME IInv PROVE Stays
  <2> SUFFICES ASSUME NEW d \in {-1, 1}, Arrow(d) \/ ArrowSection(d)
               PROVE  focus \in Shown /\ focus' \in Shown'
    OBVIOUS
  <2>1. focus \in Shown /\ focus' \in {Step(focus, d), StepSection(focus, d)} /\ UNCHANGED <<source, state>>
    BY DEF Arrow, ArrowSection, Unfocused, Focused
  <2>2. Shown' = Shown  BY <2>1 DEF Shown, SlotIds, SrcIds, Hidden
  <2> QED BY <1>1, <2>1, <2>2, StepIs, StepSectionIs DEF IInv
<1>2. IInv /\ [Next]_vars => [Stays]_vars  BY <1>1
<1> QED BY <1>2, Invariance, PTL DEF Spec

\* Theorem: every section shows each artboard of its source that was not deleted once, and
\* nothing else, whatever order was saved for another revision of the source or committed
\* by a drag that began before a delete or the read (design-canvas.jsx:482-485).
THEOREM SlotsAreExact == Spec => []SlotsExact
<1>1. IInv => SlotsExact  BY SlotIdsAre DEF IInv, SlotsExact
<1> QED BY <1>1, Invariance, PTL

\* Theorem: when no write is due the file holds what the canvas shows, unless
\* the read failed, a write failed or an edit came before the read settled.
THEOREM ShownAlwaysSaved == Spec => []ShownIsSaved
<1>1. IInv => ShownIsSaved  BY DEF IInv
<1> QED BY <1>1, Invariance, PTL

\* Theorem: a write never changes what the file has of a section that was not
\* edited since the load, unless the read failed: a slow read is waited for
\* (design-canvas.jsx:129-130).
THEOREM SavedIsKept == Spec => SavedKept
<1> DEFINE Keeps == \A s \in Section : file # NoFile /\ file' # file /\ read # "failed" /\ s \notin edited
                      => file'[s] = file[s]
<1>1. ASSUME IInv, [Next]_vars PROVE [Keeps]_vars
  <2>1. CASE Save
    <3>1. read # "pending"  BY <1>1, <2>1 DEF Save, IInv, PendingInv
    <3>2. read # "failed" => \A s \in Section : s \notin edited => state[s] = Stored[s]
      <4>1. read \in {"pending", "ok", "failed"} /\ UneditedInv  BY <1>1 DEF IInv, TypeOK
      <4> QED BY <3>1, <4>1 DEF UneditedInv
    <3>3. file' = state \/ file' = file  BY <2>1 DEF Save
    <3> QED BY <3>2, <3>3 DEF Stored
  <2>2. CASE ~Save
    <3>1. UNCHANGED file
      <4>1. CASE Settle \/ Reload  BY <4>1 DEF Settle, Reload
      <4>2. CASE Other  BY <1>1, <4>2, OtherIs DEF IInv
      <4>3. ASSUME NEW s \in Section, NEW d, Patch(s, d) PROVE UNCHANGED file  BY <4>3 DEF Patch
      <4> QED BY <1>1, <2>2, <4>1, <4>2, <4>3, Edits, Kinds
    <3> QED BY <3>1
  <2> QED BY <2>1, <2>2
<1> QED BY <1>1, Invariance, PTL DEF Spec, SavedKept

\* Theorem: no step but the read that settles brings a deleted artboard back
\* while the page shows the same source, whatever order was dropped meanwhile.
THEOREM DeletedNeverReturns == Spec => DeletedStays
<1> DEFINE Stays == loads' = loads /\ read' = read => \A s \in Section : Hidden(s) \subseteq Hidden(s)'
<1>1. ASSUME IInv, [Next]_vars PROVE [Stays]_vars
  <2>1. CASE Settle \/ Reload
    <3>1. loads \in Nat  BY <1>1, BoundsAssumption DEF IInv, TypeOK
    <3>2. read' # read \/ loads' # loads  BY <2>1, <3>1 DEF Settle, Reload
    <3> QED BY <3>2
  <2>2. CASE Save \/ Other
    <3>1. UNCHANGED <<state, source>>  BY <1>1, <2>2, OtherIs DEF Save, IInv
    <3> QED BY <3>1 DEF Hidden
  <2>3. ASSUME NEW s \in Section, NEW d, Sound(d), Patch(s, d),
               \/ d.hidden = state[s].hidden /\ d.srcKey = state[s].srcKey
               \/ \E k \in Ids : d = Hide(state[s], s, k)
        PROVE  \A x \in Section : Hidden(x) \subseteq Hidden(x)'
    <3>1. UNCHANGED source /\ \A x \in Section : state'[x] = IF x = s THEN d ELSE state[x]
      BY <1>1, <2>3 DEF Patch, IInv, TypeOK
    <3>2. \A x \in Section : x # s => Hidden(x)' = Hidden(x)  BY <3>1 DEF Hidden
    <3>3. Hidden(s) \subseteq Hidden(s)'
      <4>1. CASE d.hidden = state[s].hidden /\ d.srcKey = state[s].srcKey  BY <3>1, <4>1 DEF Hidden
      <4>2. ASSUME NEW k \in Ids, d = Hide(state[s], s, k), state[s].srcKey = source[s]
            PROVE  Hidden(s) \subseteq Hidden(s)'
        <5>1. state[s] \in Data /\ state[s].hidden \in Seq(Ids)  BY <1>1 DEF IInv, TypeOK, Data
        <5>2. d.hidden = Append(state[s].hidden, k) /\ d.srcKey = source[s]  BY <4>2, <5>1 DEF Hide, Data
        <5>3. ToSet(state[s].hidden) \subseteq ToSet(d.hidden)  BY <4>2, <5>1, <5>2, AppendHas, SetIsRange
        <5> QED BY <3>1, <5>2, <5>3 DEF Hidden
      <4>3. CASE state[s].srcKey # source[s]  BY <4>3 DEF Hidden
      <4> QED BY <2>3, <4>1, <4>2, <4>3
    <3> QED BY <3>2, <3>3
  <2> QED BY <1>1, <2>1, <2>2, <2>3, Edits, Kinds
<1> QED BY <1>1, Invariance, PTL DEF Spec, DeletedStays
=============================================================================

---------------------------- MODULE DesignCanvas ----------------------------
(***************************************************************************)
(* The design canvas (design-canvas.jsx): sections of artboards whose      *)
(* order, titles, labels and deletions the user edits in the browser.  The *)
(* edits live in React state and are saved, 250 ms after the last one, to  *)
(* a sidecar file that the next load of the page reads.  The page may be   *)
(* reloaded at any time, and the source it shows may have been regenerated *)
(* by then, with other artboards.                                          *)
(***************************************************************************)
EXTENDS Lists, SequencesExt

CONSTANTS
  Sections,   \* sectionOrder: the ids of the sections, in source order
  Sources,    \* the revisions of the source: the artboard ids of every section
  None,       \* a value that was never set
  MaxEdits,   \* bound: edits
  MaxLoads    \* bound: loads of the page

Section == ToSet(Sections)
Slots   == UNION {{[sec |-> s, id |-> k] : k \in ToSet(src[s])} : src \in Sources, s \in Section}
Ids     == {x.id : x \in Slots}

ASSUME SectionsAssumption == Sections \in Seq(Section) \ {<<>>} /\ IsInjective(Sections)
ASSUME SourcesAssumption  ==
  \A src \in Sources, s \in Section : src[s] \in Seq(ToSet(src[s])) /\ IsInjective(src[s])
ASSUME BoundsAssumption   == MaxEdits \in Nat /\ MaxLoads \in Nat \ {0}

VARIABLES
  source,    \* the artboards of the page that is loaded
  state,     \* state.sections
  focus,     \* state.focus
  file,      \* .design-canvas.state.json, NoFile when it does not exist
  read,      \* the fetch of the file: "pending", "ok" (found or 404) or "failed"
  ready,     \* the artboards are rendered
  saving,    \* the 250 ms timer is running
  menu,      \* the open menu, and whether its Delete is armed
  drag,      \* the drag in progress
  settling,  \* drops that will be committed when their 180 ms are over
  edits,     \* edits so far
  loads,     \* loads so far
  edited,    \* history: sections edited since the load
  unsaved    \* history: an edit came before the read settled, or a save failed

page == <<read, ready, saving, menu, drag, settling>>
vars == <<source, state, focus, file, page, edits, loads, edited, unsaved>>

NoData  == [order |-> <<>>, title |-> None, labels |-> {}, hidden |-> <<>>, srcKey |-> None]
Empty   == [s \in Section |-> NoData]
NoFile  == [s \in {} |-> NoData]          \* the sidecar file does not exist
NoDrag  == [slot |-> None, order |-> <<>>]

Init ==
  /\ source \in Sources /\ state = Empty /\ focus = None /\ read = "pending" /\ ready = FALSE
  /\ saving = FALSE /\ menu = None /\ drag = NoDrag /\ settling = {}
  /\ edits = 0 /\ edited = {} /\ unsaved = FALSE
  /\ file = NoFile /\ loads = 1

-----------------------------------------------------------------------------
(* What is shown: the registry of DesignCanvas and the order of DCSection.   *)

Hidden(s) == IF state[s].srcKey = source[s] THEN ToSet(state[s].hidden) ELSE {}
SrcIds(s) == Keep(source[s], ToSet(source[s]) \ Hidden(s))

\* With a bug: what is persisted is shown, and then the whole source.
SlotIdsTwice(s) == Keep(state[s].order, ToSet(SrcIds(s))) \o SrcIds(s)

SlotIds(s) ==
  LET src  == SrcIds(s)
      kept == Keep(state[s].order, ToSet(src))
  IN  kept \o Keep(src, ToSet(src) \ ToSet(kept))

Shown   == UNION {{[sec |-> s, id |-> k] : k \in ToSet(SlotIds(s))} : s \in Section}
Focused == focus # None /\ focus \in Shown          \* the overlay is there

-----------------------------------------------------------------------------
(* The file: the read when the page loads, the delayed writes.               *)

\* With a bug: the write that reading the file suppresses is suppressed every time.
TouchSkips == saving' = (saving \/ (read # "pending" /\ file = NoFile))

\* With a bug: the first edits are written even if nothing was read yet.
TouchUngated == saving' = TRUE

\* The effect on [state.sections]: nothing before the read has settled.
Touch == saving' = (saving \/ read # "pending")

\* The read settles; what it found replaces all sections and is not written back.
Settle ==
  /\ read = "pending" /\ ready' = TRUE
  /\ \/ /\ file # NoFile /\ read' = "ok" /\ state' = file
        /\ edited' = {} /\ UNCHANGED unsaved
     \/ /\ file = NoFile /\ read' = "ok" /\ UNCHANGED <<state, edited, unsaved>>
     \/ /\ read' = "failed" /\ UNCHANGED <<state, edited, unsaved>>
  /\ UNCHANGED <<source, focus, file, saving, menu, drag, settling, edits, loads>>

\* 150 ms pass before the read has settled.
ShowAnyway ==
  /\ read = "pending" /\ ~ready /\ ready' = TRUE
  /\ UNCHANGED <<source, state, focus, file, read, saving, menu, drag, settling,
                 edits, loads, edited, unsaved>>

\* writeFile through the host's bridge; a failure is swallowed.
Save ==
  /\ saving /\ saving' = FALSE
  /\ \/ file' = state /\ UNCHANGED unsaved
     \/ UNCHANGED file /\ unsaved' = TRUE
  /\ UNCHANGED <<source, state, focus, read, ready, menu, drag, settling, edits, loads, edited>>

\* The page is loaded again: what was not written is forgotten.
Reload ==
  /\ loads < MaxLoads /\ loads' = loads + 1
  /\ source' \in Sources /\ state' = Empty /\ focus' = None /\ read' = "pending" /\ ready' = FALSE
  /\ saving' = FALSE /\ menu' = None /\ drag' = NoDrag /\ settling' = {}
  /\ edited' = {} /\ unsaved' = FALSE
  /\ UNCHANGED <<file, edits>>

-----------------------------------------------------------------------------
(* The edits.  An artboard takes them when it is shown: Next says so.        *)

\* patchSection
Patch(s, data) ==
  /\ edits < MaxEdits /\ edits' = edits + 1
  /\ state' = [state EXCEPT ![s] = data] /\ edited' = edited \cup {s}
  /\ Touch
  /\ unsaved' = (unsaved \/ read = "pending")
  /\ UNCHANGED <<source, file, read, ready, loads>>

\* The canvas takes clicks: nothing is dragged and no overlay covers it.
Idle == ready /\ drag = NoDrag /\ ~Focused

\* DCEditable commits what it holds on blur, changed or not.
RenameSection(s) ==
  /\ Idle /\ Patch(s, [state[s] EXCEPT !.title = "title"])
  /\ menu' = None /\ UNCHANGED <<focus, drag, settling>>

RenameArtboard(x) ==
  /\ Idle /\ Patch(x.sec, [state[x.sec] EXCEPT !.labels = @ \cup {x.id}])
  /\ menu' = None /\ UNCHANGED <<focus, drag, settling>>

ToggleMenu(x) ==
  /\ Idle /\ menu' = IF menu # None /\ menu.slot = x THEN None ELSE [slot |-> x, armed |-> FALSE]
  /\ UNCHANGED <<source, state, focus, file, read, ready, saving, drag, settling,
                 edits, loads, edited, unsaved>>

\* A pointerdown outside, or an export: the menu closes and its Delete is disarmed.
CloseMenu ==
  /\ menu # None /\ menu' = None
  /\ UNCHANGED <<source, state, focus, file, read, ready, saving, drag, settling,
                 edits, loads, edited, unsaved>>

ArmDelete ==
  /\ Idle /\ menu # None /\ ~menu.armed /\ menu' = [menu EXCEPT !.armed = TRUE]
  /\ UNCHANGED <<source, state, focus, file, read, ready, saving, drag, settling,
                 edits, loads, edited, unsaved>>

\* With a bug: a delete forgets the ones before it.
HideOnly(d, s, k) == [d EXCEPT !.hidden = <<k>>, !.srcKey = source[s]]

\* hidden holds for one revision of the source: the earlier ones do not count.
Hide(d, s, k) ==
  [d EXCEPT !.hidden = Append(IF d.srcKey = source[s] THEN @ ELSE <<>>, k), !.srcKey = source[s]]

Delete ==
  /\ Idle /\ menu # None /\ menu.armed /\ menu.slot \in Shown /\ menu' = None
  /\ LET s == menu.slot.sec IN Patch(s, Hide(state[s], s, menu.slot.id))
  /\ UNCHANGED <<focus, drag, settling>>

-----------------------------------------------------------------------------
(* Drag to reorder.  The drop is committed 180 ms later, as it was computed  *)
(* from the order at the start of the drag.                                  *)

GripDown(x) ==
  /\ Idle /\ drag' = [slot |-> x, order |-> SlotIds(x.sec)] /\ menu' = None
  /\ UNCHANGED <<source, state, focus, file, read, ready, saving, settling,
                 edits, loads, edited, unsaved>>

\* The card is released at place i: the order is the one at the start of the
\* drag, with the card at i; nothing comes of it when that is where it was.
Drop(i) ==
  LET rest == Keep(drag.order, ToSet(drag.order) \ {drag.slot.id})
      live == InsertAt(rest, i, drag.slot.id)
  IN  /\ drag # NoDrag /\ drag' = NoDrag
      /\ settling' = IF live = drag.order THEN settling
                     ELSE settling \cup {[sec |-> drag.slot.sec, order |-> live]}
      /\ UNCHANGED <<source, state, focus, file, read, ready, saving, menu,
                     edits, loads, edited, unsaved>>

Reorder(c) ==
  /\ c \in settling /\ settling' = settling \ {c}
  /\ Patch(c.sec, [state[c.sec] EXCEPT !.order = c.order])
  /\ UNCHANGED <<focus, menu, drag>>

-----------------------------------------------------------------------------
(* The focus overlay.                                                        *)

\* peers[(idx + d + n) % n]
Step(x, d) ==
  LET peers == SlotIds(x.sec)  n == Len(peers)  i == CHOOSE j \in 1..n : peers[j] = x.id
  IN  [x EXCEPT !.id = peers[((i - 1 + d + n) % n) + 1]]

\* The first slot of the next section, past those that are empty.
StepSection(x, d) ==
  LET n     == Len(Sections)
      at    == CHOOSE i \in 1..n : Sections[i] = x.sec
      Nth(i) == Sections[((at - 1 + d * i + n * n) % n) + 1]
      full  == {i \in 1..(n - 1) : SlotIds(Nth(i)) # <<>>}
  IN  IF full = {} THEN x ELSE [sec |-> Nth(Min(full)), id |-> SlotIds(Nth(Min(full)))[1]]

Unfocused == UNCHANGED <<source, state, file, read, ready, saving, drag, settling,
                         edits, loads, edited, unsaved>>

SetFocus(x) == Idle /\ focus' = x /\ menu' = None /\ Unfocused
Escape      == focus # None /\ focus' = None /\ Unfocused /\ UNCHANGED menu
Arrow(d)    == Focused /\ focus' = Step(focus, d) /\ Unfocused /\ UNCHANGED menu
ArrowSection(d) == Focused /\ focus' = StepSection(focus, d) /\ Unfocused /\ UNCHANGED menu

Next ==
  \/ Settle \/ ShowAnyway \/ Save \/ Reload
  \/ \E s \in Section : RenameSection(s)
  \/ \E x \in Shown : RenameArtboard(x) \/ ToggleMenu(x) \/ GripDown(x) \/ SetFocus(x)
  \/ CloseMenu \/ ArmDelete \/ Delete
  \/ (\E i \in DOMAIN drag.order : Drop(i)) \/ \E c \in settling : Reorder(c)
  \/ Escape \/ \E d \in {-1, 1} : Arrow(d) \/ ArrowSection(d)

Spec == Init /\ [][Next]_vars

-----------------------------------------------------------------------------
Keys == {None} \cup {src[s] : src \in Sources, s \in Section}
Data == [order : Seq(Ids), title : {None, "title"}, labels : SUBSET Ids, hidden : Seq(Ids), srcKey : Keys]

TypeOK ==
  /\ source \in Sources /\ state \in [Section -> Data] /\ file \in {NoFile} \cup [Section -> Data]
  /\ focus \in Slots \cup {None}
  /\ read \in {"pending", "ok", "failed"} /\ ready \in BOOLEAN /\ saving \in BOOLEAN
  /\ menu \in {None} \cup [slot : Slots, armed : BOOLEAN]
  /\ drag \in {NoDrag} \cup [slot : Slots, order : Seq(Ids)]
  /\ settling \subseteq [sec : Section, order : Seq(Ids)]
  /\ edits \in 0..MaxEdits /\ loads \in 1..MaxLoads /\ edited \subseteq Section /\ unsaved \in BOOLEAN

\* Every section shows each artboard of its source that was not deleted once,
\* and nothing else, whatever order was saved for another revision of it or
\* committed by a drag that began before a delete or the read.
SlotsExact ==
  \A s \in Section : /\ IsInjective(SlotIds(s))
                     /\ ToSet(SlotIds(s)) = ToSet(source[s]) \ Hidden(s)

\* What was saved for a section that has not been edited since the load is
\* never overwritten, unless the read has failed: an edit made before a slow
\* read settles cannot clobber it (design-canvas.jsx:129-130).
SavedKept ==
  [][\A s \in Section : file # NoFile /\ file' # file /\ read # "failed" /\ s \notin edited
       => file'[s] = file[s]]_vars

\* When no write is due, the file holds what is shown, unless the read failed, a
\* write failed or an edit came before the read had settled.
ShownIsSaved ==
  read = "ok" /\ ~saving /\ ~unsaved => state = IF file = NoFile THEN Empty ELSE file

\* A deleted artboard does not come back while the page shows the same source,
\* unless it is the read that settles.
DeletedStays ==
  [][loads' = loads /\ read' = read
       => \A s \in Section : Hidden(s) \subseteq Hidden(s)']_vars
=============================================================================

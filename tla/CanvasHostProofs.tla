-------------------------- MODULE CanvasHostProofs --------------------------
(***************************************************************************)
(* Theorems about the canvas, the tweaks panel and their host, for any     *)
(* limits, positions, sizes, number of inputs and number of loads.         *)
(***************************************************************************)
EXTENDS CanvasHost, SequenceTheorems, TLAPS

-----------------------------------------------------------------------------
(* Queues                                                                   *)

Has(q, t) == \E i \in 1 .. Len(q) : q[i].type = t

\* The readout that the host will have, when it has heard all of q, is s: it knows the
\* canvas and shows s already, or the last scale in q is s and it knows the canvas by then.
Synced(q, present, shown, s) ==
  \/ present /\ shown = s /\ ~Has(q, "zoom")
  \/ \E i \in 1 .. Len(q) :
       /\ q[i].type = "zoom" /\ q[i].scale = s
       /\ \A j \in i + 1 .. Len(q) : q[j].type # "zoom"
       /\ present \/ \E h \in 1 .. i : q[h].type = "present"

\* The last of the messages to the panel agrees with the host's toggle.
Agrees(q, edit) ==
  \A i \in 1 .. Len(q) :
    (\A j \in i + 1 .. Len(q) : q[j].type \notin {"activate", "deactivate"})
      => (q[i].type = "activate" => edit) /\ (q[i].type = "deactivate" => ~edit)

Toggles(q) == Has(q, "activate") \/ Has(q, "deactivate")

-----------------------------------------------------------------------------
(* The invariant                                                            *)

\* A page that is up has posted its scale; one that is not has no timer and no panel.
MountInv == /\ canvas.mounted => canvas.posted = canvas.tf.scale
            /\ ~canvas.mounted => ~canvas.due /\ ~panel.open

\* What must be kept is stored, unless the timer is still to write it.
KeptInv == ~canvas.due /\ kept # None => stored = kept

\* The toolbar is right when the messages have arrived, or the page will be asked.
ToolbarInv == canvas.mounted => Has(down, "probe") \/ Synced(up, host.present, host.scale, canvas.tf.scale)

\* The panel is right when the messages have arrived.
PanelInv == /\ Agrees(down, host.edit)
            /\ canvas.mounted /\ ~Toggles(down) =>
                 \/ panel.open <=> host.edit
                 \/ Has(up, "dismissed")
                 \/ host.edit /\ Has(up, "available")

IInv == TypeOK /\ MountInv /\ KeptInv /\ PanelVisible /\ ToolbarInv /\ PanelInv

-----------------------------------------------------------------------------
(* What the ends of a queue do to it                                        *)

\* A queue with messages after it.
LEMMA HasAfter ==
  ASSUME NEW S, NEW q \in Seq(S), NEW r \in Seq(S), NEW t
  PROVE  Has(q \o r, t) <=> Has(q, t) \/ Has(r, t)
<1>1. /\ Len(q \o r) = Len(q) + Len(r) /\ Len(q) \in Nat /\ Len(r) \in Nat
      /\ \A i \in 1 .. Len(q) + Len(r) : (q \o r)[i] = IF i <= Len(q) THEN q[i] ELSE r[i - Len(q)]
  BY ConcatProperties, LenProperties
<1>2. ASSUME NEW i \in 1 .. Len(q \o r), (q \o r)[i].type = t PROVE Has(q, t) \/ Has(r, t)
  <2>1. CASE i <= Len(q)
    <3>1. i \in 1 .. Len(q) /\ q[i].type = t  BY <1>1, <1>2, <2>1
    <3> QED BY <3>1 DEF Has
  <2>2. CASE ~(i <= Len(q))
    <3>1. i - Len(q) \in 1 .. Len(r) /\ r[i - Len(q)].type = t  BY <1>1, <1>2, <2>2
    <3> QED BY <3>1 DEF Has
  <2> QED BY <2>1, <2>2
<1>3. ASSUME NEW i \in 1 .. Len(q), q[i].type = t PROVE Has(q \o r, t)
  <2>1. i \in 1 .. Len(q \o r) /\ (q \o r)[i].type = t  BY <1>1, <1>3
  <2> QED BY <2>1 DEF Has
<1>4. ASSUME NEW i \in 1 .. Len(r), r[i].type = t PROVE Has(q \o r, t)
  <2>1. Len(q) + i \in 1 .. Len(q \o r) /\ ~(Len(q) + i <= Len(q)) /\ (Len(q) + i) - Len(q) = i  BY <1>1, <1>4
  <2>2. (q \o r)[Len(q) + i].type = t  BY <1>1, <1>4, <2>1
  <2> QED BY <2>1, <2>2 DEF Has
<1> QED BY <1>2, <1>3, <1>4 DEF Has

\* A queue of one message, and of none.
LEMMA HasOne == \A m, t : (Has(<<m>>, t) <=> m.type = t) /\ ~Has(<<>>, t)
BY DEF Has

\* A queue without its head.
LEMMA HasTail ==
  ASSUME NEW S, NEW q \in Seq(S), q # <<>>, NEW t
  PROVE  Has(q, t) <=> Head(q).type = t \/ Has(Tail(q), t)
<1>1. /\ Len(Tail(q)) = Len(q) - 1 /\ Len(q) \in Nat \ {0} /\ Head(q) = q[1]
      /\ \A i \in 1 .. Len(Tail(q)) : Tail(q)[i] = q[i + 1]
  BY HeadTailProperties, EmptySeq
<1>2. ASSUME NEW i \in 1 .. Len(q), q[i].type = t PROVE Head(q).type = t \/ Has(Tail(q), t)
  <2>1. CASE i = 1  BY <1>1, <1>2, <2>1
  <2>2. CASE i # 1
    <3>1. i - 1 \in 1 .. Len(Tail(q)) /\ (i - 1) + 1 = i  BY <1>1, <2>2
    <3>2. Tail(q)[i - 1].type = t  BY <1>1, <1>2, <3>1
    <3> QED BY <3>1, <3>2 DEF Has
  <2> QED BY <2>1, <2>2
<1>3. ASSUME NEW i \in 1 .. Len(Tail(q)), Tail(q)[i].type = t PROVE Has(q, t)
  <2>1. i + 1 \in 1 .. Len(q) /\ q[i + 1].type = t  BY <1>1, <1>3
  <2> QED BY <2>1 DEF Has
<1>4. Head(q).type = t => Has(q, t)
  <2>1. 1 \in 1 .. Len(q)  BY <1>1
  <2> QED BY <1>1, <2>1 DEF Has
<1> QED BY <1>2, <1>3, <1>4 DEF Has

\* A scale that is posted to a host that knows the canvas by then is the last one.
LEMMA SyncedByZoom ==
  ASSUME NEW S, NEW q \in Seq(S), NEW m \in S, m.type = "zoom", NEW present, NEW shown,
         present \/ Has(q, "present")
  PROVE  Synced(q \o <<m>>, present, shown, m.scale)
<1> DEFINE n == Len(q) + 1
           p == q \o <<m>>
<1>1. /\ Len(q) \in Nat /\ Len(p) = n /\ p[n] = m /\ \A i \in 1 .. Len(q) : p[i] = q[i]
  <2>1. <<m>> \in Seq(S) /\ Len(<<m>>) = 1  OBVIOUS
  <2>2. Len(q) \in Nat  BY LenProperties
  <2> QED BY <2>1, <2>2, ConcatProperties
<1> HIDE DEF p
<1>2. n \in 1 .. Len(p) /\ \A j \in n + 1 .. Len(p) : p[j].type # "zoom"  BY <1>1
<1>3. present \/ \E h \in 1 .. n : p[h].type = "present"
  <2>1. CASE present  BY <2>1
  <2>2. CASE Has(q, "present")
    <3>1. PICK h \in 1 .. Len(q) : q[h].type = "present"  BY <2>2 DEF Has
    <3>2. h \in 1 .. n /\ p[h].type = "present"  BY <1>1, <3>1
    <3> QED BY <3>2
  <2> QED BY <2>1, <2>2
<1>4. Synced(p, present, shown, m.scale)  BY <1>1, <1>2, <1>3 DEF Synced
<1> QED BY <1>4 DEF p

\* A host that is in step knows the canvas by the end.
LEMMA SyncedKnows ==
  ASSUME NEW q, NEW present, NEW shown, NEW s, Len(q) \in Nat, Synced(q, present, shown, s)
  PROVE  present \/ Has(q, "present")
<1>1. ASSUME NEW i \in 1 .. Len(q), NEW h \in 1 .. i, q[h].type = "present" PROVE Has(q, "present")
  <2>1. h \in 1 .. Len(q)  BY <1>1
  <2> QED BY <1>1, <2>1 DEF Has
<1> QED BY <1>1 DEF Synced

\* A message that is no scale changes nothing.
LEMMA SyncedByOther ==
  ASSUME NEW S, NEW q \in Seq(S), NEW m \in S, m.type # "zoom", NEW present, NEW shown, NEW s,
         Synced(q, present, shown, s)
  PROVE  Synced(q \o <<m>>, present, shown, s)
<1> DEFINE n == Len(q) + 1
           p == q \o <<m>>
<1>1. /\ Len(q) \in Nat /\ Len(p) = n /\ p[n] = m /\ \A i \in 1 .. Len(q) : p[i] = q[i]
  <2>1. <<m>> \in Seq(S) /\ Len(<<m>>) = 1  OBVIOUS
  <2>2. Len(q) \in Nat  BY LenProperties
  <2> QED BY <2>1, <2>2, ConcatProperties
<1>2. CASE present /\ shown = s /\ ~Has(q, "zoom")
  <2>1. <<m>> \in Seq(S)  OBVIOUS
  <2>2. ~Has(<<m>>, "zoom")  BY HasOne
  <2>3. Has(p, "zoom") <=> Has(q, "zoom") \/ Has(<<m>>, "zoom")  BY <2>1, HasAfter
  <2>4. ~Has(p, "zoom")  BY <1>2, <2>2, <2>3
  <2> QED BY <1>2, <2>4 DEF Synced
<1> HIDE DEF p
<1>3. ASSUME NEW i \in 1 .. Len(q), q[i].type = "zoom", q[i].scale = s,
             \A j \in i + 1 .. Len(q) : q[j].type # "zoom",
             present \/ \E h \in 1 .. i : q[h].type = "present"
      PROVE  Synced(p, present, shown, s)
  <2>1. i \in 1 .. Len(p) /\ p[i].type = "zoom" /\ p[i].scale = s  BY <1>1, <1>3
  <2>2. ASSUME NEW j \in i + 1 .. Len(p) PROVE p[j].type # "zoom"
    <3>1. CASE j = n  BY <1>1, <3>1
    <3>2. CASE j # n
      <4>1. j \in i + 1 .. Len(q) /\ j \in 1 .. Len(q)  BY <1>1, <3>2
      <4> QED BY <1>1, <1>3, <4>1
    <3> QED BY <3>1, <3>2
  <2>3. present \/ \E h \in 1 .. i : p[h].type = "present"
    <3>1. ASSUME NEW h \in 1 .. i, q[h].type = "present" PROVE p[h].type = "present"
      <4>1. h \in 1 .. Len(q)  BY <1>1
      <4> QED BY <1>1, <3>1, <4>1
    <3> QED BY <1>3, <3>1
  <2> QED BY <2>1, <2>2, <2>3 DEF Synced
<1> QED BY <1>2, <1>3 DEF Synced, p

\* The host hears the head of the queue.
LEMMA SyncedHears ==
  ASSUME NEW S, NEW q \in Seq(S), q # <<>>, NEW present \in BOOLEAN, NEW shown, NEW s, Synced(q, present, shown, s)
  PROVE  Synced(Tail(q), present \/ Head(q).type = "present",
                IF Head(q).type = "zoom" /\ present THEN Head(q).scale ELSE shown, s)
<1> DEFINE p    == Tail(q)
           now  == present \/ Head(q).type = "present"
           show == IF Head(q).type = "zoom" /\ present THEN Head(q).scale ELSE shown
<1>1. /\ Len(p) = Len(q) - 1 /\ Len(q) \in Nat \ {0} /\ Head(q) = q[1]
      /\ \A i \in 1 .. Len(p) : p[i] = q[i + 1]
  BY HeadTailProperties, EmptySeq
<1>2. CASE present /\ shown = s /\ ~Has(q, "zoom")
  <2>1. Head(q).type # "zoom" /\ ~Has(p, "zoom")  BY <1>2, HasTail
  <2>2. now /\ show = s  BY <1>2, <2>1
  <2> QED BY <2>1, <2>2 DEF Synced
<1> HIDE DEF p
<1>3. ASSUME NEW i \in 1 .. Len(q), q[i].type = "zoom", q[i].scale = s,
             \A j \in i + 1 .. Len(q) : q[j].type # "zoom",
             present \/ \E h \in 1 .. i : q[h].type = "present"
      PROVE  Synced(p, now, show, s)
  <2>1. CASE i = 1
    <3>1. Head(q).type = "zoom" /\ Head(q).scale = s  BY <1>1, <1>3, <2>1
    <3>2. present
      <4>1. \A h \in 1 .. i : h = 1  BY <2>1
      <4>2. Head(q).type # "present"  BY <3>1
      <4> QED BY <1>1, <1>3, <4>1, <4>2
    <3>3. ~Has(p, "zoom")
      <4>1. \A j \in 1 .. Len(p) : j + 1 \in i + 1 .. Len(q)  BY <1>1, <2>1
      <4> QED BY <1>1, <1>3, <4>1 DEF Has
    <3>4. now /\ show = s  BY <3>1, <3>2
    <3> QED BY <3>3, <3>4 DEF Synced
  <2>2. CASE i # 1
    <3>1. i - 1 \in 1 .. Len(p) /\ (i - 1) + 1 = i  BY <1>1, <2>2
    <3>2. p[i - 1].type = "zoom" /\ p[i - 1].scale = s  BY <1>1, <1>3, <3>1
    <3>3. ASSUME NEW j \in (i - 1) + 1 .. Len(p) PROVE p[j].type # "zoom"
      <4>1. j \in 1 .. Len(p) /\ j + 1 \in i + 1 .. Len(q)  BY <1>1, <3>1
      <4> QED BY <1>1, <1>3, <4>1
    <3>4. now \/ \E h \in 1 .. i - 1 : p[h].type = "present"
      <4>1. ASSUME NEW h \in 1 .. i, q[h].type = "present", ~now PROVE h - 1 \in 1 .. i - 1 /\ p[h - 1].type = "present"
        <5>1. h # 1  BY <1>1, <4>1
        <5>2. h - 1 \in 1 .. i - 1 /\ h - 1 \in 1 .. Len(p) /\ (h - 1) + 1 = h  BY <1>1, <5>1
        <5> QED BY <1>1, <4>1, <5>2
      <4> QED BY <1>3, <4>1
    <3> HIDE DEF now, show
    <3> QED BY <3>1, <3>2, <3>3, <3>4 DEF Synced
  <2> QED BY <2>1, <2>2
<1> QED BY <1>2, <1>3 DEF Synced, p

\* A message to the panel that says what the toggle is agrees with it, whatever was before.
LEMMA AgreesByToggle ==
  ASSUME NEW S, NEW q \in Seq(S), NEW m \in S, NEW edit, m.type = "activate" => edit, m.type = "deactivate" => ~edit,
         Agrees(q, edit) \/ m.type \in {"activate", "deactivate"}
  PROVE  Agrees(q \o <<m>>, edit)
<1> DEFINE n == Len(q) + 1
           p == q \o <<m>>
           T == {"activate", "deactivate"}
<1>1. /\ Len(q) \in Nat /\ Len(p) = n /\ p[n] = m /\ \A i \in 1 .. Len(q) : p[i] = q[i]
  <2>1. <<m>> \in Seq(S) /\ Len(<<m>>) = 1  OBVIOUS
  <2>2. Len(q) \in Nat  BY LenProperties
  <2> QED BY <2>1, <2>2, ConcatProperties
<1> HIDE DEF p
<1>2. ASSUME NEW i \in 1 .. Len(p), \A j \in i + 1 .. Len(p) : p[j].type \notin T
      PROVE  (p[i].type = "activate" => edit) /\ (p[i].type = "deactivate" => ~edit)
  <2>1. CASE i = n  BY <1>1, <2>1
  <2>2. CASE i # n
    <3>1. i \in 1 .. Len(q) /\ n \in i + 1 .. Len(p)  BY <1>1, <2>2
    <3>2. Agrees(q, edit)  BY <1>1, <1>2, <3>1
    <3>3. ASSUME NEW j \in i + 1 .. Len(q) PROVE q[j].type \notin T
      <4>1. j \in i + 1 .. Len(p) /\ j \in 1 .. Len(q)  BY <1>1, <3>1
      <4> QED BY <1>1, <1>2, <4>1
    <3>4. p[i] = q[i]  BY <1>1, <3>1
    <3> QED BY <3>1, <3>2, <3>3, <3>4 DEF Agrees
  <2> QED BY <2>1, <2>2
<1>3. Agrees(p, edit)  BY <1>2 DEF Agrees
<1> QED BY <1>3 DEF p

\* What is left when the page hears the head agrees, and so does the head if it is the last.
LEMMA AgreesTail ==
  ASSUME NEW S, NEW q \in Seq(S), q # <<>>, NEW edit, Agrees(q, edit)
  PROVE  /\ Agrees(Tail(q), edit)
         /\ ~Toggles(Tail(q)) => (Head(q).type = "activate" => edit) /\ (Head(q).type = "deactivate" => ~edit)
<1> DEFINE p == Tail(q)
           T == {"activate", "deactivate"}
<1>1. /\ Len(p) = Len(q) - 1 /\ Len(q) \in Nat \ {0} /\ Head(q) = q[1]
      /\ \A i \in 1 .. Len(p) : p[i] = q[i + 1]
  BY HeadTailProperties, EmptySeq
<1> HIDE DEF p
<1>2. ASSUME NEW i \in 1 .. Len(p), \A j \in i + 1 .. Len(p) : p[j].type \notin T
      PROVE  (p[i].type = "activate" => edit) /\ (p[i].type = "deactivate" => ~edit)
  <2>1. i + 1 \in 1 .. Len(q) /\ p[i] = q[i + 1]  BY <1>1
  <2>2. ASSUME NEW j \in (i + 1) + 1 .. Len(q) PROVE q[j].type \notin T
    <3>1. j - 1 \in i + 1 .. Len(p) /\ j - 1 \in 1 .. Len(p) /\ (j - 1) + 1 = j  BY <1>1
    <3> QED BY <1>1, <1>2, <3>1
  <2> QED BY <2>1, <2>2 DEF Agrees
<1>3. ASSUME ~Toggles(p) PROVE (Head(q).type = "activate" => edit) /\ (Head(q).type = "deactivate" => ~edit)
  <2>1. ASSUME NEW j \in 1 + 1 .. Len(q) PROVE q[j].type \notin T
    <3>1. j - 1 \in 1 .. Len(p) /\ (j - 1) + 1 = j  BY <1>1
    <3>2. p[j - 1].type \notin T  BY <1>3, <3>1 DEF Toggles, Has
    <3> QED BY <1>1, <3>1, <3>2
  <2>2. 1 \in 1 .. Len(q)  BY <1>1
  <2> QED BY <1>1, <2>1, <2>2 DEF Agrees
<1>4. Agrees(p, edit)  BY <1>2 DEF Agrees
<1> QED BY <1>3, <1>4 DEF p

-----------------------------------------------------------------------------
(* What the helpers of the page do                                          *)

CanvasRecord == [mounted : BOOLEAN, tf : Transform, posted : Int \cup {None}, due : BOOLEAN]
HandRecord   == [gesture : Int \cup {None}, drag : Pointer \cup {None}, grab : BOOLEAN]
HostRecord   == [present : BOOLEAN, scale : Int, edit : BOOLEAN, loaded : BOOLEAN]

\* The messages have their types.
LEMMA Notes ==
  /\ \A t \in {"available", "present", "dismissed"} : Note(t) \in UpMessage /\ Note(t).type = t
  /\ \A t \in {"probe", "activate", "deactivate"} : Note(t) \in DownMessage /\ Note(t).type = t
  /\ \A s \in Int : Zoom(s) \in UpMessage /\ Zoom(s).type = "zoom" /\ Zoom(s).scale = s
BY DEF Note, Zoom, UpMessage, DownMessage

\* A clamped scale is a number.
LEMMA Clamped == ASSUME TypeOK, NEW s \in Int PROVE Clamp(s, window.limits) \in Int
BY LimitsAssumption DEF TypeOK, Clamp, Least, Most

\* A page that is not mounted.
LEMMA BlankIs ==
  /\ Blank \in CanvasRecord /\ Blank.tf \in Transform /\ ~Blank.mounted /\ ~Blank.due
  /\ Relaxed \in HandRecord /\ Closed \in [open : BOOLEAN, offset : Int] /\ ~Closed.open
<1>1. (CHOOSE p \in Pan : TRUE) \in Pan  BY PanAssumption
<1>2. [pan |-> CHOOSE p \in Pan : TRUE, scale |-> 0] \in Transform  BY <1>1 DEF Transform
<1>3. Blank \in CanvasRecord /\ Blank.tf \in Transform /\ ~Blank.mounted /\ ~Blank.due
  BY <1>2 DEF Blank, CanvasRecord
<1> QED BY <1>3, PanelAssumption DEF Relaxed, HandRecord, Closed

\* A position that was clamped once lies where it is clamped to.
LEMMA ClampedOnce ==
  ASSUME NEW w \in Nat, NEW x \in Int
  PROVE  LET c(y) == Least(Most(Pad, w - PanelWidth - Pad), Most(Pad, y)) IN c(x) \in Int /\ c(c(x)) = c(x)
BY PanelAssumption DEF Least, Most

\* Apply while the page is up: the host hears of the scale that is new.
LEMMA Applied ==
  ASSUME TypeOK, MountInv, canvas.mounted, NEW tf \in Transform, Apply(tf, canvas.posted, <<>>)
  PROVE  /\ canvas' \in CanvasRecord /\ canvas'.mounted /\ canvas'.tf = tf /\ canvas'.posted = tf.scale /\ canvas'.due
         /\ up' \in Seq(UpMessage) /\ kept' = kept
         /\ \A t : Has(up, t) => Has(up', t)
         /\ \A present, shown : Synced(up, present, shown, canvas.tf.scale) => Synced(up', present, shown, tf.scale)
<1>1. tf.scale \in Int /\ canvas.posted = canvas.tf.scale /\ up \in Seq(UpMessage)  BY DEF TypeOK, MountInv, Transform
<1>2. canvas' \in CanvasRecord /\ canvas'.mounted /\ canvas'.tf = tf /\ canvas'.posted = tf.scale /\ canvas'.due
  BY <1>1 DEF Apply, CanvasRecord
<1>3. up' = (up \o <<>>) \o (IF canvas.posted = tf.scale THEN <<>> ELSE <<Zoom(tf.scale)>>) /\ kept' = kept
  BY DEF Apply
<1>4. up \o <<>> = up  BY <1>1, ConcatEmptySeq
<1>5. CASE canvas.posted = tf.scale
  <2>1. up' = up  BY <1>3, <1>4, <1>5
  <2> QED BY <1>1, <1>2, <1>3, <1>5, <2>1
<1>6. CASE canvas.posted # tf.scale
  <2> DEFINE m == Zoom(tf.scale)
  <2>1. m \in UpMessage /\ m.type = "zoom" /\ m.scale = tf.scale  BY <1>1, Notes
  <2>2. up' = up \o <<m>>  BY <1>3, <1>4, <1>6
  <2> HIDE DEF m
  <2>3. <<m>> \in Seq(UpMessage) /\ Len(up) \in Nat  BY <1>1, <2>1, LenProperties
  <2>4. up' \in Seq(UpMessage) /\ \A t : Has(up, t) => Has(up', t)
    BY <1>1, <2>2, <2>3, HasAfter, ConcatProperties
  <2>5. ASSUME NEW present, NEW shown, Synced(up, present, shown, canvas.tf.scale)
        PROVE  Synced(up', present, shown, tf.scale)
    <3>1. present \/ Has(up, "present")  BY <2>3, <2>5, SyncedKnows
    <3> QED BY <1>1, <2>1, <2>2, <3>1, SyncedByZoom
  <2> QED BY <1>2, <1>3, <2>4, <2>5
<1> QED BY <1>5, <1>6

\* Apply with an announcement before the scale, which is posted whatever it is.
LEMMA Announced ==
  ASSUME TypeOK, NEW tf \in Transform, NEW first \in Seq(UpMessage), Has(first, "present"), Apply(tf, None, first)
  PROVE  /\ canvas' \in CanvasRecord /\ canvas'.mounted /\ canvas'.tf = tf /\ canvas'.posted = tf.scale /\ canvas'.due
         /\ up' \in Seq(UpMessage) /\ kept' = kept
         /\ \A t : Has(up, t) \/ Has(first, t) => Has(up', t)
         /\ \A present, shown : Synced(up', present, shown, tf.scale)
<1> DEFINE m == Zoom(tf.scale)
           q == up \o first
<1>1. tf.scale \in Int /\ up \in Seq(UpMessage) /\ None # tf.scale  BY NoneAssumption DEF TypeOK, Transform
<1>2. canvas' \in CanvasRecord /\ canvas'.mounted /\ canvas'.tf = tf /\ canvas'.posted = tf.scale /\ canvas'.due
  BY <1>1 DEF Apply, CanvasRecord
<1>3. m \in UpMessage /\ m.type = "zoom" /\ m.scale = tf.scale  BY <1>1, Notes
<1>4. up' = q \o <<m>> /\ kept' = kept  BY <1>1 DEF Apply
<1> HIDE DEF m
<1>5. q \in Seq(UpMessage) /\ Has(q, "present")  BY <1>1, HasAfter, ConcatProperties
<1>6. \A t : Has(up, t) \/ Has(first, t) => Has(q, t)  BY <1>1, HasAfter
<1> HIDE DEF q
<1>7. <<m>> \in Seq(UpMessage)  BY <1>3
<1>8. up' \in Seq(UpMessage) /\ \A t : Has(q, t) => Has(up', t)  BY <1>4, <1>5, <1>7, HasAfter, ConcatProperties
<1>9. ASSUME NEW present, NEW shown PROVE Synced(up', present, shown, tf.scale)
  BY <1>3, <1>4, <1>5, SyncedByZoom
<1> QED BY <1>2, <1>4, <1>6, <1>8, <1>9

\* What ZoomTo and PanTo apply.
LEMMA Zooms ==
  ASSUME TypeOK, NEW s \in Int, ZoomTo(s) PROVE \E tf \in Transform : Apply(tf, canvas.posted, <<>>)
<1>1. canvas.tf \in Transform /\ canvas.tf.pan \in Pan  BY DEF TypeOK, Transform
<1>2. Clamp(s, window.limits) \in Int  BY Clamped
<1>3. PICK p \in Pan : Apply([pan |-> p, scale |-> Clamp(s, window.limits)], canvas.posted, <<>>)
  BY <1>1 DEF ZoomTo
<1>4. [pan |-> p, scale |-> Clamp(s, window.limits)] \in Transform  BY <1>2 DEF Transform
<1> QED BY <1>3, <1>4

\* A pan applies some transform at the posted scale, and posts nothing.
LEMMA Pans == ASSUME TypeOK, NEW p \in Pan, PanTo(p) PROVE \E tf \in Transform : Apply(tf, canvas.posted, <<>>)
<1>1. canvas.tf \in Transform  BY DEF TypeOK
<1>2. [canvas.tf EXCEPT !.pan = p] \in Transform  BY <1>1 DEF Transform
<1> QED BY <1>2 DEF PanTo

\* What Input leaves of the inputs.
LEMMA InputTaken ==
  ASSUME TypeOK, NEW k \in {"canvas", "panel"}, Input(k)
  PROVE  inputs' \in [canvas : Nat, panel : Nat] /\ loads' \in 1 .. MaxLoads
<1>1. inputs \in [canvas : Nat, panel : Nat] /\ loads \in 1 .. MaxLoads  BY DEF TypeOK
<1>2. inputs[k] \in Nat /\ inputs[k] > 0  BY <1>1 DEF Input
<1>3. inputs[k] - 1 \in Nat  BY <1>2
<1> QED BY <1>1, <1>3 DEF Input

-----------------------------------------------------------------------------
(* The actions                                                              *)

\* A scale or a position that is applied while nothing else moves.
LEMMA ApplyKeeps ==
  ASSUME IInv, canvas.mounted, NEW tf \in Transform, Apply(tf, canvas.posted, <<>>),
         UNCHANGED <<hand, panel, stored, window, down, host>>,
         inputs' \in [canvas : Nat, panel : Nat], loads' \in 1 .. MaxLoads
  PROVE  IInv'
<1>0. TypeOK /\ MountInv /\ KeptInv /\ PanelVisible /\ ToolbarInv /\ PanelInv  BY DEF IInv
<1>1. /\ canvas' \in CanvasRecord /\ canvas'.mounted /\ canvas'.tf = tf /\ canvas'.posted = tf.scale /\ canvas'.due
      /\ up' \in Seq(UpMessage) /\ kept' = kept
      /\ \A t : Has(up, t) => Has(up', t)
      /\ \A present, shown : Synced(up, present, shown, canvas.tf.scale) => Synced(up', present, shown, tf.scale)
  BY <1>0, Applied
<1>2. TypeOK'  BY <1>0, <1>1 DEF TypeOK, CanvasRecord
<1>3. MountInv' /\ KeptInv'  BY <1>1 DEF MountInv, KeptInv
<1>4. PanelVisible'  BY <1>0 DEF PanelVisible, ClampPanel
<1>5. ToolbarInv'  BY <1>0, <1>1 DEF ToolbarInv
<1>6. PanelInv'  BY <1>0, <1>1 DEF PanelInv
<1> QED BY <1>2, <1>3, <1>4, <1>5, <1>6 DEF IInv

\* A hand that moves and nothing else.
LEMMA HandKeeps ==
  ASSUME IInv, UNCHANGED <<canvas, panel, stored, window, up, down, host, kept>>, hand' \in HandRecord,
         inputs' \in [canvas : Nat, panel : Nat], loads' \in 1 .. MaxLoads
  PROVE  IInv'
<1>1. TypeOK'  BY DEF IInv, TypeOK, HandRecord
<1>2. MountInv' /\ KeptInv' /\ PanelVisible'  BY DEF IInv, MountInv, KeptInv, PanelVisible, ClampPanel
<1>3. ToolbarInv' /\ PanelInv'  BY DEF IInv, ToolbarInv, PanelInv
<1> QED BY <1>1, <1>2, <1>3 DEF IInv

\* The gestures and the pointers.
LEMMA GestureKeeps ==
  ASSUME IInv,
         \/ Wheel \/ GestureStart \/ GestureChange \/ GestureEnd \/ PointerMove \/ PanelGrab \/ PanelDrop
         \/ \E p \in Pointer : PointerDown(p) \/ PointerUp(p)
  PROVE  IInv'
<1>0. /\ TypeOK /\ hand \in HandRecord /\ canvas.tf \in Transform /\ canvas.tf.scale \in Int
      /\ hand.gesture \in Int \cup {None}
  BY DEF IInv, TypeOK, HandRecord, Transform
<1>1. inputs' \in [canvas : Nat, panel : Nat] /\ loads' \in 1 .. MaxLoads
  <2>1. CASE UNCHANGED bounds  BY <1>0, <2>1 DEF bounds, TypeOK
  <2>2. CASE InPage("canvas") \/ InPage("panel")  BY <1>0, <2>2, InputTaken DEF InPage
  <2> QED BY <2>1, <2>2
          DEF Wheel, GestureStart, GestureChange, GestureEnd, PointerMove, PanelGrab, PanelDrop, PointerDown, PointerUp
<1>2. ASSUME canvas.mounted, UNCHANGED <<hand, panel, stored, window, down, host>>,
             (\E s \in Int : ZoomTo(s)) \/ (\E p \in Pan : PanTo(p))
      PROVE  IInv'
  <2>1. \E tf \in Transform : Apply(tf, canvas.posted, <<>>)  BY <1>0, <1>2, Zooms, Pans
  <2> QED BY <1>1, <1>2, <2>1, ApplyKeeps
<1>3. CASE /\ UNCHANGED <<canvas, panel, stored, window, up, down, host, kept>>
           /\ hand' \in HandRecord
  BY <1>1, <1>3, HandKeeps
<1>4. CASE Wheel
  <2>1. \A d \in {-1, 1} : canvas.tf.scale + d \in Int  BY <1>0
  <2> QED BY <1>0, <1>2, <1>3, <1>4, <2>1 DEF Wheel, InPage
<1>5. CASE GestureChange
  <2>1. \A d \in {-1, 1} : hand.gesture + d \in Int  BY <1>0, <1>5 DEF GestureChange
  <2> QED BY <1>2, <1>5, <2>1 DEF GestureChange, InPage
<1>6. CASE PointerMove  BY <1>2, <1>6 DEF PointerMove, InPage
<1>7. CASE \/ GestureStart \/ GestureEnd \/ PanelGrab \/ PanelDrop
           \/ \E p \in Pointer : PointerDown(p) \/ PointerUp(p)
  <2>1. UNCHANGED <<canvas, panel, stored, window, up, down, host, kept>>
    BY <1>7 DEF GestureStart, GestureEnd, PanelGrab, PanelDrop, PointerDown, PointerUp, InPage
  <2>2. \E g \in Int \cup {None}, p \in Pointer \cup {None}, b \in BOOLEAN :
          \/ hand' = [hand EXCEPT !.gesture = g] \/ hand' = [hand EXCEPT !.drag = p] \/ hand' = [hand EXCEPT !.grab = b]
    BY <1>0, <1>7 DEF GestureStart, GestureEnd, PanelGrab, PanelDrop, PointerDown, PointerUp
  <2>3. hand' \in HandRecord  BY <1>0, <2>2 DEF HandRecord
  <2> QED BY <1>3, <2>1, <2>3
<1> QED BY <1>4, <1>5, <1>6, <1>7

\* The timer writes what is to be kept, or nothing has to be.
LEMMA SaveKeeps == ASSUME IInv, Save PROVE IInv'
<1>1. /\ canvas' \in CanvasRecord /\ ~canvas'.due /\ canvas'.tf = canvas.tf /\ canvas'.posted = canvas.posted
      /\ canvas'.mounted = canvas.mounted /\ UNCHANGED <<hand, panel, window, up, down, host, inputs, loads>>
  BY DEF IInv, TypeOK, CanvasRecord, Save, bounds
<1>2. stored' \in Transform \cup {None} /\ kept' \in Transform \cup {None} /\ (kept' # None => stored' = kept')
  BY DEF IInv, TypeOK, Save
<1>3. TypeOK'  BY <1>1, <1>2 DEF IInv, TypeOK, CanvasRecord
<1>4. MountInv' /\ KeptInv' /\ PanelVisible'
  BY <1>1, <1>2 DEF IInv, MountInv, KeptInv, PanelVisible, ClampPanel
<1>5. ToolbarInv' /\ PanelInv'  BY <1>1 DEF IInv, ToolbarInv, PanelInv
<1> QED BY <1>3, <1>4, <1>5 DEF IInv

\* The owner closes the panel, and the host is told.
LEMMA DismissKeeps == ASSUME IInv, Dismiss PROVE IInv'
<1>0. TypeOK /\ up \in Seq(UpMessage) /\ canvas.mounted  BY DEF IInv, TypeOK, Dismiss, InPage
<1>1. /\ panel' \in [open : BOOLEAN, offset : Int] /\ ~panel'.open
      /\ UNCHANGED <<canvas, hand, stored, window, down, host, kept>>
  BY <1>0 DEF TypeOK, Dismiss, InPage
<1>2. inputs' \in [canvas : Nat, panel : Nat] /\ loads' \in 1 .. MaxLoads  BY <1>0, InputTaken DEF Dismiss, InPage
<1> DEFINE m == Note("dismissed")
<1>3. m \in UpMessage /\ m.type = "dismissed" /\ up' = Append(up, m)  BY Notes DEF Dismiss
<1> HIDE DEF m
<1>4. up' = up \o <<m>> /\ <<m>> \in Seq(UpMessage)  BY <1>0, <1>3
<1>5. up' \in Seq(UpMessage) /\ Has(up', "dismissed")
  <2>1. Has(<<m>>, "dismissed")  BY <1>3, HasOne
  <2>2. up \o <<m>> \in Seq(UpMessage) /\ Has(up \o <<m>>, "dismissed")
    BY <1>0, <1>4, <2>1, HasAfter, ConcatProperties
  <2> QED BY <1>4, <2>2
<1>6. \A present, shown, s : Synced(up, present, shown, s) => Synced(up', present, shown, s)
  BY <1>0, <1>3, <1>4, SyncedByOther
<1>7. TypeOK'  BY <1>0, <1>1, <1>2, <1>5 DEF TypeOK
<1>8. MountInv' /\ KeptInv' /\ PanelVisible'
  BY <1>0, <1>1 DEF IInv, MountInv, KeptInv, PanelVisible
<1>9. ToolbarInv'  BY <1>1, <1>6 DEF IInv, ToolbarInv
<1>10. PanelInv'  BY <1>1, <1>5 DEF IInv, PanelInv
<1> QED BY <1>7, <1>8, <1>9, <1>10 DEF IInv

\* A panel that shows is put where it lies in the window.
LEMMA PanelKeeps ==
  ASSUME IInv, (\E x \in Place : PanelMove(x)) \/ (\E w \in Width : Resize(w)) PROVE IInv'
<1>0. TypeOK /\ panel \in [open : BOOLEAN, offset : Int] /\ window.width \in Nat /\ window.limits \in Limits
  BY PanelAssumption DEF IInv, TypeOK
<1>1. /\ inputs' \in [canvas : Nat, panel : Nat] /\ loads' \in 1 .. MaxLoads
      /\ UNCHANGED <<canvas, hand, stored, up, down, host, kept>>
  BY <1>0, InputTaken DEF PanelMove, Resize, InPage
<1>2. /\ panel' \in [open : BOOLEAN, offset : Int] /\ panel'.open = panel.open
      /\ window' \in [limits : Limits, width : Width] /\ PanelVisible'
  <2>1. ASSUME NEW x \in Place, PanelMove(x)
        PROVE  /\ panel' \in [open : BOOLEAN, offset : Int] /\ panel'.open = panel.open
               /\ window' \in [limits : Limits, width : Width] /\ PanelVisible'
    <3>1. x \in Int  BY PanelAssumption
    <3>2. window' = window /\ panel' = [panel EXCEPT !.offset = IF panel.open THEN ClampPanel(x) ELSE x]
      BY <2>1 DEF PanelMove, InPage
    <3>3. ClampPanel(x) \in Int /\ ClampPanel(ClampPanel(x)) = ClampPanel(x)
      BY <1>0, <3>1, ClampedOnce DEF ClampPanel
    <3>4. /\ panel' \in [open : BOOLEAN, offset : Int] /\ panel'.open = panel.open
          /\ panel.open => panel'.offset = ClampPanel(x)
      BY <1>0, <3>1, <3>2, <3>3
    <3>5. \A y : ClampPanel(y)' = ClampPanel(y)  BY <3>2 DEF ClampPanel
    <3> QED BY <1>0, <3>2, <3>3, <3>4, <3>5 DEF PanelVisible, TypeOK, ClampPanel
  <2>2. ASSUME NEW w \in Width, Resize(w)
        PROVE  /\ panel' \in [open : BOOLEAN, offset : Int] /\ panel'.open = panel.open
               /\ window' \in [limits : Limits, width : Width] /\ PanelVisible'
    <3> DEFINE c(y) == Least(Most(Pad, w - PanelWidth - Pad), Most(Pad, y))
    <3>1. w \in Nat /\ panel.offset \in Int  BY <1>0, PanelAssumption
    <3>2. c(panel.offset) \in Int /\ c(c(panel.offset)) = c(panel.offset)  BY <3>1, ClampedOnce
    <3>3. /\ window' = [window EXCEPT !.width = w]
          /\ panel' = IF panel.open THEN [panel EXCEPT !.offset = c(panel.offset)] ELSE panel
      BY <2>2 DEF Resize
    <3>4. window' \in [limits : Limits, width : Width] /\ window'.width = w  BY <1>0, <3>3 DEF TypeOK
    <3> HIDE DEF c
    <3>5. /\ panel' \in [open : BOOLEAN, offset : Int] /\ panel'.open = panel.open
          /\ panel.open => panel'.offset = c(panel.offset)
      BY <1>0, <3>2, <3>3
    <3>6. panel.open => panel'.offset = c(panel'.offset)  BY <3>2, <3>5
    <3>7. ClampPanel(panel.offset)' = c(panel'.offset)  BY <3>4 DEF ClampPanel, c
    <3> QED BY <3>4, <3>5, <3>6, <3>7 DEF PanelVisible
  <2> QED BY <2>1, <2>2
<1>3. TypeOK'  BY <1>0, <1>1, <1>2 DEF TypeOK
<1>4. MountInv' /\ KeptInv'  BY <1>1, <1>2 DEF IInv, MountInv, KeptInv
<1>5. ToolbarInv' /\ PanelInv'  BY <1>1, <1>2 DEF IInv, ToolbarInv, PanelInv
<1> QED BY <1>2, <1>3, <1>4, <1>5 DEF IInv

\* A message to the page.
LEMMA DownPosted ==
  ASSUME TypeOK, NEW m \in DownMessage, down' = Append(down, m)
  PROVE  /\ down' = down \o <<m>> /\ down' \in Seq(DownMessage)
         /\ \A t : Has(down', t) <=> Has(down, t) \/ m.type = t
<1>1. down \in Seq(DownMessage) /\ <<m>> \in Seq(DownMessage) /\ down' = down \o <<m>>  BY DEF TypeOK
<1>2. down \o <<m>> \in Seq(DownMessage)  BY <1>1, ConcatProperties
<1>3. \A t : Has(down \o <<m>>, t) <=> Has(down, t) \/ Has(<<m>>, t)  BY <1>1, HasAfter
<1> QED BY <1>1, <1>2, <1>3, HasOne

\* The host sends a zoom, the other position of its toggle, or a probe.
LEMMA HostKeeps ==
  ASSUME IInv, Toggle \/ HostLoad \/ \E l \in Limits : \E s \in (l.min - 1) .. (l.max + 1) : Menu(s) PROVE IInv'
<1>0. TypeOK /\ host \in HostRecord /\ down \in Seq(DownMessage)  BY DEF IInv, TypeOK, HostRecord
<1>1. UNCHANGED <<canvas, hand, panel, stored, window, up, kept>>  BY DEF Toggle, HostLoad, Menu
<1>2. inputs' \in [canvas : Nat, panel : Nat] /\ loads' \in 1 .. MaxLoads
  <2>1. CASE HostLoad  BY <1>0, <2>1 DEF HostLoad, bounds, TypeOK
  <2>2. CASE Input("canvas") \/ Input("panel")  BY <1>0, <2>2, InputTaken
  <2> QED BY <2>1, <2>2 DEF Toggle, Menu
<1>3. ASSUME NEW m \in DownMessage, down' = Append(down, m), host' \in HostRecord, Agrees(down', host'.edit),
             m.type \in {"activate", "deactivate"} \/ (m.type \in {"set_zoom", "probe"} /\ host'.edit = host.edit),
             m.type = "probe" \/ (host'.present = host.present /\ host'.scale = host.scale)
      PROVE  IInv'
  <2>1. down' \in Seq(DownMessage) /\ \A t : Has(down', t) <=> Has(down, t) \/ m.type = t
    BY <1>0, <1>3, DownPosted
  <2>2. TypeOK'  BY <1>0, <1>1, <1>2, <1>3, <2>1 DEF TypeOK, HostRecord
  <2>3. MountInv' /\ KeptInv' /\ PanelVisible'  BY <1>1 DEF IInv, MountInv, KeptInv, PanelVisible, ClampPanel
  <2>4. ToolbarInv'  BY <1>1, <1>3, <2>1 DEF IInv, ToolbarInv
  <2>5. PanelInv'  BY <1>1, <1>3, <2>1 DEF IInv, PanelInv, Toggles
  <2> QED BY <2>2, <2>3, <2>4, <2>5 DEF IInv
<1>4. Agrees(down, host.edit)  BY DEF IInv, PanelInv
<1>5. CASE Toggle
  <2> DEFINE m == Note(IF host.edit THEN "deactivate" ELSE "activate")
  <2>1. m \in DownMessage /\ m.type = IF host.edit THEN "deactivate" ELSE "activate"  BY Notes
  <2>2. down' = Append(down, m) /\ host' = [host EXCEPT !.edit = ~host.edit]  BY <1>5 DEF Toggle
  <2> HIDE DEF m
  <2>3. /\ host' \in HostRecord /\ host'.edit = ~host.edit /\ host'.present = host.present /\ host'.scale = host.scale
    BY <1>0, <2>2 DEF HostRecord
  <2>4. host.edit \in BOOLEAN  BY <1>0 DEF HostRecord
  <2>5. m.type \in {"activate", "deactivate"} /\ (m.type = "activate" => host'.edit) /\ (m.type = "deactivate" => ~host'.edit)
    BY <2>1, <2>3, <2>4
  <2>6. down' = down \o <<m>>  BY <1>0, <2>1, <2>2, DownPosted
  <2>7. Agrees(down', host'.edit)  BY <1>0, <2>1, <2>5, <2>6, AgreesByToggle
  <2> QED BY <1>3, <2>1, <2>2, <2>3, <2>5, <2>7
<1>6. CASE HostLoad
  <2> DEFINE m == Note("probe")
  <2>1. m \in DownMessage /\ m.type = "probe"  BY Notes
  <2>2. down' = Append(down, m) /\ host' = [host EXCEPT !.loaded = TRUE, !.present = FALSE, !.scale = 0]
    BY <1>6 DEF HostLoad
  <2> HIDE DEF m
  <2>3. host' \in HostRecord /\ host'.edit = host.edit
    <3>1. host.edit \in BOOLEAN  BY <1>0 DEF HostRecord
    <3>2. host' = [loaded |-> TRUE, present |-> FALSE, scale |-> 0, edit |-> host.edit]
      BY <1>0, <2>2 DEF HostRecord
    <3> QED BY <3>1, <3>2 DEF HostRecord
  <2>4. down' = down \o <<m>>  BY <1>0, <2>1, <2>2, DownPosted
  <2>5. Agrees(down', host'.edit)  BY <1>0, <1>4, <2>1, <2>3, <2>4, AgreesByToggle
  <2> QED BY <1>3, <2>1, <2>2, <2>3, <2>5
<1>7. ASSUME NEW l \in Limits, NEW s \in (l.min - 1) .. (l.max + 1), Menu(s) PROVE IInv'
  <2> DEFINE m == [type |-> "set_zoom", scale |-> s]
  <2>1. s \in Int  BY LimitsAssumption
  <2>2. m \in DownMessage /\ m.type = "set_zoom"  BY <2>1 DEF DownMessage
  <2>3. down' = Append(down, m) /\ host' = host  BY <1>7 DEF Menu
  <2> HIDE DEF m
  <2>4. down' = down \o <<m>>  BY <1>0, <2>2, <2>3, DownPosted
  <2>5. Agrees(down', host'.edit)  BY <1>0, <1>4, <2>2, <2>3, <2>4, AgreesByToggle
  <2> QED BY <1>0, <1>3, <2>2, <2>3, <2>5
<1> QED BY <1>5, <1>6, <1>7

\* The host hears the page, and answers a panel that is closed or has come up.
LEMMA DeliverUpKeeps == ASSUME IInv, DeliverUp PROVE IInv'
<1> DEFINE m == Head(up)
<1>0. /\ TypeOK /\ host \in HostRecord /\ down \in Seq(DownMessage) /\ up \in Seq(UpMessage) /\ up # <<>>
      /\ Agrees(down, host.edit) /\ up' = Tail(up)
      /\ UNCHANGED <<canvas, hand, panel, stored, window, inputs, loads, kept>>
  BY DEF IInv, PanelInv, TypeOK, HostRecord, DeliverUp, bounds
<1>1. m \in UpMessage /\ up' \in Seq(UpMessage) /\ \A t : Has(up, t) <=> m.type = t \/ Has(up', t)
  BY <1>0, HeadTailProperties, HasTail
<1>2. m.scale \in Int /\ host.present \in BOOLEAN /\ host.edit \in BOOLEAN /\ host.scale \in Int
  BY <1>0, <1>1 DEF UpMessage, HostRecord
<1>3. host' = [host EXCEPT !.present = host.present \/ m.type = "present",
                           !.scale = IF m.type = "zoom" /\ host.present THEN m.scale ELSE host.scale,
                           !.edit = host.edit /\ m.type # "dismissed"]
  BY DEF DeliverUp
<1> HIDE DEF m
<1>4. /\ host' \in HostRecord /\ host'.present = (host.present \/ m.type = "present")
      /\ host'.scale = (IF m.type = "zoom" /\ host.present THEN m.scale ELSE host.scale)
      /\ host'.edit = (host.edit /\ m.type # "dismissed")
  BY <1>0, <1>2, <1>3 DEF HostRecord
<1>5. PICK echo : /\ down' = down \o echo
                  /\ \/ m.type = "available" /\ host.edit /\ echo = <<Note("activate")>>
                     \/ m.type = "dismissed" /\ echo = <<Note("deactivate")>>
                     \/ m.type # "dismissed" /\ ~(m.type = "available" /\ host.edit) /\ echo = <<>>
  BY DEF DeliverUp, m
<1>6. /\ down' \in Seq(DownMessage) /\ Agrees(down', host'.edit) /\ \A t : Has(down, t) => Has(down', t)
      /\ echo = <<>> \/ Toggles(down')
  <2>1. CASE echo = <<>>
    <3>1. down' = down  BY <1>0, <1>5, <2>1, ConcatEmptySeq
    <3>2. host'.edit = host.edit  BY <1>2, <1>4, <1>5, <2>1
    <3> QED BY <1>0, <2>1, <3>1, <3>2
  <2>2. ASSUME NEW n \in DownMessage, echo = <<n>>, n.type \in {"activate", "deactivate"},
               n.type = "activate" => host'.edit, n.type = "deactivate" => ~host'.edit
        PROVE  /\ down' \in Seq(DownMessage) /\ Agrees(down', host'.edit) /\ \A t : Has(down, t) => Has(down', t)
               /\ Toggles(down')
    <3>1. down' = down \o <<n>> /\ <<n>> \in Seq(DownMessage)  BY <1>5, <2>2
    <3>2. down \o <<n>> \in Seq(DownMessage)  BY <1>0, <3>1, ConcatProperties
    <3>3. \A t : Has(down \o <<n>>, t) <=> Has(down, t) \/ n.type = t  BY <1>0, <3>1, HasAfter, HasOne
    <3>4. Agrees(down \o <<n>>, host'.edit)  BY <1>0, <2>2, AgreesByToggle
    <3> QED BY <2>2, <3>1, <3>2, <3>3, <3>4 DEF Toggles
  <2>3. CASE m.type = "available" /\ host.edit /\ echo = <<Note("activate")>>
    <3>1. Note("activate") \in DownMessage /\ Note("activate").type = "activate"  BY Notes
    <3>2. host'.edit  BY <1>4, <2>3
    <3> QED BY <2>2, <2>3, <3>1, <3>2
  <2>4. CASE m.type = "dismissed" /\ echo = <<Note("deactivate")>>
    <3>1. Note("deactivate") \in DownMessage /\ Note("deactivate").type = "deactivate"  BY Notes
    <3>2. ~host'.edit  BY <1>4, <2>4
    <3> QED BY <2>2, <2>4, <3>1, <3>2
  <2> QED BY <1>5, <2>1, <2>3, <2>4
<1>7. TypeOK'  BY <1>0, <1>1, <1>4, <1>6 DEF TypeOK, HostRecord
<1>8. MountInv' /\ KeptInv' /\ PanelVisible'  BY <1>0 DEF IInv, MountInv, KeptInv, PanelVisible, ClampPanel
<1>9. ToolbarInv'
  <2>1. \A s : Synced(up, host.present, host.scale, s) => Synced(up', host'.present, host'.scale, s)
    BY <1>0, <1>2, <1>4, SyncedHears DEF m
  <2> QED BY <1>0, <1>6, <2>1 DEF IInv, ToolbarInv
<1>10. PanelInv'
  <2>1. ASSUME canvas.mounted, ~Toggles(down')
        PROVE  (panel.open <=> host'.edit) \/ Has(up', "dismissed") \/ (host'.edit /\ Has(up', "available"))
    <3>1. echo = <<>> /\ ~Toggles(down)  BY <1>6, <2>1 DEF Toggles
    <3>2. m.type # "dismissed" /\ ~(m.type = "available" /\ host.edit)  BY <1>5, <3>1
    <3>3. (panel.open <=> host.edit) \/ Has(up, "dismissed") \/ (host.edit /\ Has(up, "available"))
      BY <2>1, <3>1 DEF IInv, PanelInv
    <3>4. host'.edit <=> host.edit  BY <1>4, <3>2
    <3> QED BY <1>1, <3>2, <3>3, <3>4
  <2> QED BY <1>0, <1>6, <2>1 DEF PanelInv
<1> QED BY <1>7, <1>8, <1>9, <1>10 DEF IInv

\* The page hears the host; an answer to a probe is the last scale that the host hears.
LEMMA DeliverDownKeeps == ASSUME IInv, DeliverDown PROVE IInv'
<1> DEFINE m == Head(down)
<1>0. /\ TypeOK /\ down \in Seq(DownMessage) /\ up \in Seq(UpMessage) /\ down # <<>>
      /\ Agrees(down, host.edit) /\ down' = Tail(down) /\ UNCHANGED <<hand, stored, window, host, inputs, loads>>
      /\ panel \in [open : BOOLEAN, offset : Int] /\ window.width \in Nat /\ host.edit \in BOOLEAN
      /\ MountInv /\ canvas.tf \in Transform /\ canvas.mounted \in BOOLEAN
  BY PanelAssumption DEF IInv, PanelInv, TypeOK, DeliverDown, bounds
<1>1. /\ m \in DownMessage /\ down' \in Seq(DownMessage) /\ \A t : Has(down, t) <=> m.type = t \/ Has(down', t)
      /\ Agrees(down', host.edit)
      /\ ~Toggles(down') => (m.type = "activate" => host.edit) /\ (m.type = "deactivate" => ~host.edit)
  BY <1>0, HeadTailProperties, HasTail, AgreesTail
<1>2. m.scale \in Int /\ m.type \in {"set_zoom", "probe", "activate", "deactivate"}  BY <1>1 DEF DownMessage
<1>3. /\ canvas.mounted /\ m.type = "set_zoom" => ZoomTo(m.scale)
      /\ canvas.mounted /\ m.type = "probe" => Probed
      /\ ~canvas.mounted \/ m.type \notin {"set_zoom", "probe"} => UNCHANGED <<canvas, up, kept>>
      /\ canvas.mounted /\ m.type = "activate" => panel' = Opened
      /\ canvas.mounted /\ m.type = "deactivate" => panel' = [panel EXCEPT !.open = FALSE]
      /\ ~canvas.mounted \/ m.type \notin {"activate", "deactivate"} => panel' = panel
  BY DEF DeliverDown
<1> HIDE DEF m
<1>4. /\ panel' \in [open : BOOLEAN, offset : Int] /\ PanelVisible'
      /\ canvas.mounted /\ m.type = "activate" => panel'.open
      /\ canvas.mounted /\ m.type = "deactivate" => ~panel'.open
  <2>1. \A y : ClampPanel(y)' = ClampPanel(y)  BY <1>0 DEF ClampPanel
  <2>2. PanelVisible /\ panel.offset \in Int  BY <1>0 DEF IInv
  <2>3. CASE panel' = panel /\ ~(canvas.mounted /\ m.type \in {"activate", "deactivate"})
    BY <1>0, <2>2, <2>3 DEF PanelVisible, ClampPanel
  <2>4. CASE canvas.mounted /\ m.type = "activate"
    <3>1. ClampPanel(panel.offset) \in Int /\ ClampPanel(ClampPanel(panel.offset)) = ClampPanel(panel.offset)
      BY <1>0, <2>2, ClampedOnce DEF ClampPanel
    <3>2. panel' = IF panel.open THEN panel ELSE [open |-> TRUE, offset |-> ClampPanel(panel.offset)]
      BY <1>3, <2>4 DEF Opened
    <3>3. panel' \in [open : BOOLEAN, offset : Int] /\ panel'.open /\ panel'.offset = ClampPanel(panel'.offset)
      BY <1>0, <2>2, <3>1, <3>2 DEF PanelVisible
    <3>4. ClampPanel(panel.offset)' = ClampPanel(panel'.offset)  BY <1>0 DEF ClampPanel
    <3> QED BY <2>4, <3>3, <3>4 DEF PanelVisible
  <2>5. CASE canvas.mounted /\ m.type = "deactivate"
    <3>1. panel' = [panel EXCEPT !.open = FALSE]  BY <1>3, <2>5
    <3>2. panel' \in [open : BOOLEAN, offset : Int] /\ ~panel'.open  BY <1>0, <3>1
    <3> QED BY <2>5, <3>2 DEF PanelVisible
  <2> QED BY <1>2, <1>3, <2>3, <2>4, <2>5
<1>5. /\ canvas' \in CanvasRecord /\ canvas'.mounted = canvas.mounted /\ up' \in Seq(UpMessage) /\ kept' = kept
      /\ \A t : Has(up, t) => Has(up', t)
      /\ (~canvas'.due => ~canvas.due) /\ (canvas.mounted => canvas'.posted = canvas'.tf.scale)
      /\ ~canvas.mounted => UNCHANGED canvas
      /\ canvas.mounted /\ m.type = "probe" => Synced(up', host.present, host.scale, canvas'.tf.scale)
      /\ m.type # "probe" /\ Synced(up, host.present, host.scale, canvas.tf.scale)
           => Synced(up', host.present, host.scale, canvas'.tf.scale)
  <2>1. CASE canvas.mounted /\ m.type = "set_zoom"
    <3>1. PICK tf \in Transform : Apply(tf, canvas.posted, <<>>)  BY <1>0, <1>2, <1>3, <2>1, Zooms
    <3>2. /\ canvas' \in CanvasRecord /\ canvas'.mounted /\ canvas'.tf = tf /\ canvas'.posted = tf.scale /\ canvas'.due
          /\ up' \in Seq(UpMessage) /\ kept' = kept
          /\ \A t : Has(up, t) => Has(up', t)
          /\ \A present, shown : Synced(up, present, shown, canvas.tf.scale) => Synced(up', present, shown, tf.scale)
      BY <1>0, <2>1, <3>1, Applied
    <3>3. canvas'.mounted = canvas.mounted  BY <1>0, <2>1, <3>2 DEF CanvasRecord
    <3> QED BY <2>1, <3>2, <3>3
  <2>2. CASE canvas.mounted /\ m.type = "probe"
    <3> DEFINE first == <<Note("present")>>
    <3>1. Note("present") \in UpMessage /\ Note("present").type = "present"  BY Notes
    <3>2. first \in Seq(UpMessage) /\ Has(first, "present")  BY <3>1, HasOne
    <3>3. Apply(canvas.tf, None, first)  BY <1>3, <2>2 DEF Probed
    <3> HIDE DEF first
    <3>4. /\ canvas' \in CanvasRecord /\ canvas'.mounted /\ canvas'.tf = canvas.tf
          /\ canvas'.posted = canvas.tf.scale /\ canvas'.due
          /\ up' \in Seq(UpMessage) /\ kept' = kept
          /\ \A t : Has(up, t) \/ Has(first, t) => Has(up', t)
          /\ \A present, shown : Synced(up', present, shown, canvas.tf.scale)
      BY <1>0, <3>2, <3>3, Announced
    <3>5. canvas'.mounted = canvas.mounted  BY <1>0, <2>2, <3>4 DEF CanvasRecord
    <3> QED BY <2>2, <3>4, <3>5
  <2>3. CASE ~canvas.mounted \/ m.type \notin {"set_zoom", "probe"}
    <3>1. UNCHANGED <<canvas, up, kept>>  BY <1>3, <2>3
    <3> QED BY <1>0, <2>3, <3>1 DEF MountInv, TypeOK, CanvasRecord
  <2> QED BY <2>1, <2>2, <2>3
<1>6. TypeOK'  BY <1>0, <1>1, <1>4, <1>5 DEF TypeOK, CanvasRecord
<1>7. MountInv'
  <2>1. ~canvas.mounted => UNCHANGED <<canvas, panel>>  BY <1>3
  <2> QED BY <1>0, <1>5, <2>1 DEF MountInv
<1>8. KeptInv'  BY <1>0, <1>5 DEF IInv, KeptInv
<1>9. ToolbarInv'  BY <1>0, <1>1, <1>5 DEF IInv, ToolbarInv
<1>10. PanelInv'
  <2>1. ASSUME canvas.mounted, ~Toggles(down')
        PROVE  (panel'.open <=> host.edit) \/ Has(up', "dismissed") \/ (host.edit /\ Has(up', "available"))
    <3>1. CASE m.type = "activate"  BY <1>1, <1>4, <2>1, <3>1
    <3>2. CASE m.type = "deactivate"  BY <1>1, <1>4, <2>1, <3>2
    <3>3. CASE m.type \notin {"activate", "deactivate"}
      <4>1. ~Toggles(down) /\ panel' = panel  BY <1>1, <1>3, <2>1, <3>3 DEF Toggles
      <4>2. (panel.open <=> host.edit) \/ Has(up, "dismissed") \/ (host.edit /\ Has(up, "available"))
        BY <2>1, <4>1 DEF IInv, PanelInv
      <4> QED BY <1>5, <4>1, <4>2
    <3> QED BY <3>1, <3>2, <3>3
  <2> QED BY <1>0, <1>1, <1>5, <2>1 DEF PanelInv
<1> QED BY <1>4, <1>6, <1>7, <1>8, <1>9, <1>10 DEF IInv

\* What a page announces when it comes up.
LEMMA First ==
  LET first == (IF stored = None THEN <<>> ELSE <<Zoom(Restored(window.limits).scale)>>)
                 \o <<Note("available"), Note("present")>>
  IN  TypeOK => /\ first \in Seq(UpMessage) /\ Has(first, "present") /\ Has(first, "available")
                /\ Restored(window.limits) \in Transform
<1> SUFFICES ASSUME TypeOK
             PROVE  LET first == (IF stored = None THEN <<>> ELSE <<Zoom(Restored(window.limits).scale)>>)
                                   \o <<Note("available"), Note("present")>>
                    IN  /\ first \in Seq(UpMessage) /\ Has(first, "present") /\ Has(first, "available")
                        /\ Restored(window.limits) \in Transform
  OBVIOUS
<1> DEFINE tf    == Restored(window.limits)
           back  == IF stored = None THEN <<>> ELSE <<Zoom(tf.scale)>>
           notes == <<Note("available"), Note("present")>>
<1>1. tf \in Transform
  <2>1. CASE stored = None  BY <2>1, BlankIs DEF Restored
  <2>2. CASE stored # None
    <3>1. stored \in Transform /\ stored.scale \in Int  BY <2>2 DEF TypeOK, Transform
    <3>2. Clamp(stored.scale, window.limits) \in Int  BY <3>1, Clamped
    <3>3. tf = [stored EXCEPT !.scale = Clamp(stored.scale, window.limits)]  BY <2>2 DEF Restored
    <3> HIDE DEF tf
    <3> QED BY <3>1, <3>2, <3>3 DEF Transform
  <2> QED BY <2>1, <2>2
<1>2. tf.scale \in Int  BY <1>1 DEF Transform
<1> HIDE DEF tf
<1>3. back \in Seq(UpMessage)
  <2>1. Zoom(tf.scale) \in UpMessage  BY <1>2, Notes
  <2> QED BY <2>1
<1>4. notes \in Seq(UpMessage) /\ Has(notes, "available") /\ Has(notes, "present")
  <2>1. Note("available") \in UpMessage /\ Note("present") \in UpMessage  BY Notes
  <2>2. notes \in Seq(UpMessage) /\ Len(notes) = 2  BY <2>1
  <2>3. 1 \in 1 .. Len(notes) /\ 2 \in 1 .. Len(notes) /\ notes[1].type = "available" /\ notes[2].type = "present"
    BY <2>2, Notes
  <2> HIDE DEF notes
  <2> QED BY <2>2, <2>3 DEF Has
<1> HIDE DEF back, notes
<1>5. back \o notes \in Seq(UpMessage) /\ Has(back \o notes, "present") /\ Has(back \o notes, "available")
  BY <1>3, <1>4, HasAfter, ConcatProperties
<1> QED BY <1>1, <1>5 DEF back, notes, tf

\* A page that comes up announces its panel, itself and its scale.
LEMMA MountKeeps == ASSUME IInv, Mount PROVE IInv'
<1> DEFINE tf    == Restored(window.limits)
           first == (IF stored = None THEN <<>> ELSE <<Zoom(tf.scale)>>) \o <<Note("available"), Note("present")>>
<1>0. /\ TypeOK /\ MountInv /\ ~canvas.mounted /\ Apply(tf, None, first)
      /\ UNCHANGED <<hand, panel, stored, window, down, host, inputs, loads>>
  BY DEF IInv, Mount, bounds
<1>1. first \in Seq(UpMessage) /\ Has(first, "present") /\ Has(first, "available") /\ tf \in Transform
  BY <1>0, First
<1> HIDE DEF first, tf
<1>2. /\ canvas' \in CanvasRecord /\ canvas'.mounted /\ canvas'.tf = tf /\ canvas'.posted = tf.scale /\ canvas'.due
      /\ up' \in Seq(UpMessage) /\ kept' = kept
      /\ \A t : Has(up, t) \/ Has(first, t) => Has(up', t)
      /\ \A present, shown : Synced(up', present, shown, tf.scale)
  BY <1>0, <1>1, Announced
<1>3. TypeOK'  BY <1>0, <1>2 DEF TypeOK, CanvasRecord
<1>4. MountInv' /\ KeptInv'  BY <1>2 DEF MountInv, KeptInv
<1>5. PanelVisible'  BY <1>0 DEF MountInv, PanelVisible
<1>6. ToolbarInv'  BY <1>2 DEF ToolbarInv
<1>7. PanelInv'  BY <1>0, <1>1, <1>2 DEF IInv, MountInv, PanelInv
<1> QED BY <1>3, <1>4, <1>5, <1>6, <1>7 DEF IInv

\* A page that goes leaves what it was to keep, unless that was lost.
LEMMA LoadKeeps == ASSUME IInv, Reload \/ Kill PROVE IInv'
<1>0. /\ TypeOK /\ Load /\ host \in HostRecord /\ canvas.tf \in Transform  BY DEF IInv, TypeOK, HostRecord, Reload, Kill
<1>1. canvas' = Blank /\ hand' = Relaxed /\ panel' = Closed /\ UNCHANGED <<up, down, inputs>>  BY <1>0 DEF Load
<1>2. host' \in HostRecord /\ host'.edit = host.edit  BY <1>0 DEF Load, HostRecord
<1>3. window' \in [limits : Limits, width : Width] /\ loads' \in 1 .. MaxLoads
  <2>1. loads \in Nat /\ MaxLoads \in Nat /\ window \in [limits : Limits, width : Width]
    BY <1>0, BoundsAssumption DEF TypeOK
  <2>2. loads < MaxLoads /\ loads' = loads + 1  BY <1>0 DEF Load
  <2>3. PICK l \in Limits : window' = [window EXCEPT !.limits = l]  BY <1>0 DEF Load
  <2>4. loads' \in 1 .. MaxLoads  BY <2>1, <2>2
  <2> QED BY <2>1, <2>3, <2>4
<1>4. stored' \in Transform \cup {None} /\ kept' \in Transform \cup {None} /\ (kept' # None => stored' = kept')
  BY <1>0 DEF Reload, Leave, Kill, IInv, TypeOK, KeptInv
<1>5. TypeOK'  BY <1>0, <1>1, <1>2, <1>3, <1>4, BlankIs DEF TypeOK, CanvasRecord, HandRecord, HostRecord
<1>6. MountInv' /\ KeptInv' /\ PanelVisible' /\ ToolbarInv'
  BY <1>1, <1>4, BlankIs DEF MountInv, KeptInv, PanelVisible, ToolbarInv
<1>7. PanelInv'  BY <1>1, <1>2, BlankIs DEF IInv, PanelInv
<1> QED BY <1>5, <1>6, <1>7 DEF IInv

\* The initial state has the inductive invariant.
LEMMA InitIInv == Init => IInv
<1> SUFFICES ASSUME Init PROVE IInv  OBVIOUS
<1>1. up = <<>> /\ down = <<>> /\ canvas = Blank /\ panel = Closed /\ hand = Relaxed /\ stored = None /\ kept = None
  BY DEF Init
<1>2. inputs \in [canvas : Nat, panel : Nat] /\ loads \in 1 .. MaxLoads  BY BoundsAssumption DEF Init
<1>3. TypeOK  BY <1>1, <1>2, BlankIs DEF Init, TypeOK, CanvasRecord, HandRecord
<1>4. MountInv /\ KeptInv /\ PanelVisible /\ ToolbarInv
  BY <1>1, BlankIs DEF MountInv, KeptInv, PanelVisible, ToolbarInv
<1>5. PanelInv  BY <1>1, BlankIs DEF PanelInv, Agrees
<1> QED BY <1>3, <1>4, <1>5 DEF IInv

\* Every step keeps it.
LEMMA NextIInv == ASSUME IInv, [Next]_vars PROVE IInv'
<1>1. CASE UNCHANGED vars
  <2>1. hand' \in HandRecord /\ inputs' \in [canvas : Nat, panel : Nat] /\ loads' \in 1 .. MaxLoads
    BY <1>1 DEF vars, IInv, TypeOK, HandRecord
  <2>2. UNCHANGED <<canvas, panel, stored, window, up, down, host, kept>>  BY <1>1 DEF vars
  <2> QED BY <2>1, <2>2, HandKeeps
<1> QED BY <1>1, GestureKeeps, SaveKeeps, DismissKeeps, PanelKeeps, HostKeeps, DeliverUpKeeps, DeliverDownKeeps,
           MountKeeps, LoadKeeps DEF Next

-----------------------------------------------------------------------------
\* Theorem: the inductive invariant of the canvas and its host holds in every reachable state.
THEOREM Invariance == CanvasSpec => []IInv
BY InitIInv, NextIInv, PTL DEF CanvasSpec

\* Theorem: every variable has its type in every reachable state.
THEOREM TypeCorrect == CanvasSpec => []TypeOK
<1>1. IInv => TypeOK  BY DEF IInv
<1> QED BY <1>1, Invariance, PTL

\* Theorem: when every message has arrived the toolbar shows the scale of the
\* canvas, whenever the load event, the zooms and the reloads came
\* (design-canvas.jsx:382-401).
THEOREM ToolbarAlwaysRight == CanvasSpec => []ToolbarInSync
<1>1. IInv => ToolbarInSync
  <2>1. ~Has(<<>>, "probe")  BY DEF Has
  <2>2. \A present, shown, s : Synced(<<>>, present, shown, s) => present /\ shown = s  BY DEF Synced
  <2> QED BY <2>1, <2>2 DEF IInv, ToolbarInv, ToolbarInSync, Quiet
<1> QED BY <1>1, Invariance, PTL

\* Theorem: when every message has arrived the panel is open exactly if the
\* toggle is on, although both ends switch it (tweaks-panel.jsx:180-186).
THEOREM PanelAlwaysInStep == CanvasSpec => []PanelInStep
<1>1. IInv => PanelInStep
  <2>1. ASSUME IInv, Quiet PROVE panel.open = host.edit
    <3>1. ~Toggles(<<>>) /\ \A t : ~Has(<<>>, t)  BY HasOne DEF Toggles
    <3>2. panel.open <=> host.edit  BY <2>1, <3>1 DEF IInv, PanelInv, Quiet
    <3>3. panel.open \in BOOLEAN /\ host.edit \in BOOLEAN  BY <2>1 DEF IInv, TypeOK
    <3> QED BY <3>2, <3>3
  <2> QED BY <2>1 DEF PanelInStep
<1> QED BY <1>1, Invariance, PTL

\* Theorem: a panel that shows lies in the window, or at its edge.
THEOREM PanelAlwaysVisible == CanvasSpec => []PanelVisible
<1>1. IInv => PanelVisible  BY DEF IInv
<1> QED BY <1>1, Invariance, PTL

\* Theorem: a page opens where the one before it was left, within its own
\* limits, unless a write failed or the tab was killed before the timer.
THEOREM PagesLand == CanvasSpec => Landed
<1> DEFINE Lands == ~canvas.mounted /\ canvas'.mounted /\ kept # None
                      => canvas'.tf = [kept EXCEPT !.scale = Clamp(@, window.limits)]
<1>1. ASSUME IInv, [Next]_vars PROVE [Lands]_vars
  <2>1. CASE Mount
    <3>1. canvas'.tf = Restored(window.limits)  BY <2>1 DEF Mount, Apply
    <3>2. ~canvas.mounted /\ kept # None => stored = kept  BY <1>1 DEF IInv, MountInv, KeptInv
    <3> QED BY <3>1, <3>2 DEF Restored
  <2>2. ~Mount => canvas.mounted \/ ~canvas'.mounted \/ UNCHANGED canvas
    <3>1. Reload \/ Kill => ~canvas'.mounted  BY BlankIs DEF Reload, Kill, Load
    <3>2. Save => canvas'.mounted = canvas.mounted  BY <1>1 DEF Save, IInv, TypeOK
    <3>3. DeliverDown => canvas.mounted \/ UNCHANGED canvas  BY DEF DeliverDown
    <3>4. ASSUME \/ Wheel \/ GestureStart \/ GestureChange \/ GestureEnd \/ PointerMove \/ Dismiss \/ PanelGrab
                 \/ (\E p \in Pointer : PointerDown(p)) \/ (\E x \in Place : PanelMove(x))
          PROVE  canvas.mounted
      BY <1>1, <3>4
         DEF Wheel, GestureStart, GestureChange, GestureEnd, PointerMove, Dismiss, PanelGrab, PointerDown, PanelMove, InPage,
             IInv, MountInv
    <3>5. ASSUME \/ PanelDrop \/ Toggle \/ HostLoad \/ DeliverUp \/ (\E w \in Width : Resize(w))
                 \/ (\E p \in Pointer : PointerUp(p)) \/ UNCHANGED vars
                 \/ (\E l \in Limits : \E s \in (l.min - 1) .. (l.max + 1) : Menu(s))
          PROVE  UNCHANGED canvas
      BY <3>5 DEF PanelDrop, Toggle, HostLoad, DeliverUp, Resize, PointerUp, Menu, vars
    <3> QED BY <1>1, <3>1, <3>2, <3>3, <3>4, <3>5 DEF Next
  <2>3. CASE ~Mount  BY <2>2, <2>3
  <2> QED BY <2>1, <2>3
<1> QED BY <1>1, Invariance, PTL DEF CanvasSpec, Landed
=============================================================================

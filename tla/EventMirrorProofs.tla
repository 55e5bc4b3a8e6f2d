------------------------- MODULE EventMirrorProofs -------------------------
(***************************************************************************)
(* Module EventMirror for every value of its constants: any depth of       *)
(* savepoints, any number of events, whatever fails, is swallowed, crashes *)
(* or is refused.                                                          *)
(*                                                                         *)
(* That no line is written twice, and none of an open block, needs only    *)
(* the table of queued lines: a line leaves it when it is written or lost  *)
(* and never comes back (TableInv).  That the file is complete needs the   *)
(* table to be in step with the levels (InStep), which is what the three   *)
(* callbacks of each level have to bring about (CallbacksOf).              *)
(***************************************************************************)
EXTENDS EventMirror, TLAPS

-----------------------------------------------------------------------------
(* The invariant.                                                          *)

(* Every line is queued once, and is neither written nor lost yet, and a    *)
(* level releases its own frame only.                                      *)
TableInv ==
    /\ \A d \in Depths :
          /\ frames[d].events = {} <=> frames[d].first = 0
          /\ \A e \in frames[d].events : e <= seq /\ mirror[e] = 0 /\ e \notin lost
          /\ \A c \in Depths \ {d} : frames[c].events \cap frames[d].events = {}
    /\ \A d \in 1..depth :
          /\ \A e \in levels[d].rows : e <= seq /\ mirror[e] = 0
          /\ levels[d].rel # NoHook => levels[d].rel.at = d
    /\ \A e \in Events : mirror[e] <= 1 /\ (mirror[e] > 0 => e <= seq)
    /\ \A e \in log \cup lost : e <= seq

FrameHook(d) == [at |-> d, first |-> frames[d].first]

(* The callbacks of a level: its lines are flushed with the block, they go *)
(* with the level that logged them, and none reaches above it.             *)
CallbacksOf(d) ==
    /\ frames[d].events # {} => FrameHook(d) \in levels[d].post
    /\ levels[d].rel # NoHook => levels[d].rel = FrameHook(d) /\ levels[d].rel \in levels[d].undo
    /\ levels[d].rel = NoHook /\ frames[d].events # {} => \E h \in levels[d].undo : h.at > d
    /\ \A h \in levels[d].undo : h.at >= d

(* The table holds the lines of the open levels, or those of the block     *)
(* that was just committed, and the file everything before them.           *)
InStep ==
    /\ session # "aborted"
    /\ \A d \in 1..depth : frames[d].events = levels[d].rows /\ CallbacksOf(d)
    /\ \A d \in Depths : d > depth /\ d > 1 => frames[d].events = {}
    /\ depth > 0 => mirrored = log \ lost
    /\ depth = 0 =>
          /\ mirrored \cup frames[1].events = log \ lost
          /\ frames[1].events # {} => FrameHook(1) \in hooks

MirrorInv == TypeOK /\ TableInv /\ (orderly = "yes" => InStep)
-----------------------------------------------------------------------------
(* Sequences, as the levels use them.                                      *)

LEMMA Pushed ==
  ASSUME NEW S, NEW s \in Seq(S), NEW x \in S
  PROVE  /\ Append(s, x) \in Seq(S)
         /\ Len(Append(s, x)) = Len(s) + 1
         /\ \A i \in 1..Len(s) : Append(s, x)[i] = s[i]
         /\ Append(s, x)[Len(s) + 1] = x
  OBVIOUS

LEMMA Popped ==
  ASSUME NEW S, NEW s \in Seq(S), NEW n \in 0..Len(s)
  PROVE  /\ SubSeq(s, 1, n) \in Seq(S)
         /\ Len(SubSeq(s, 1, n)) = n
         /\ \A i \in 1..n : SubSeq(s, 1, n)[i] = s[i]
<1>1. \A i \in 1..n : s[i] \in S
  OBVIOUS
<1> QED
  BY <1>1

LEMMA Changed ==
  ASSUME NEW S, NEW s \in Seq(S), NEW n \in 1..Len(s), NEW x \in S
  PROVE  /\ [s EXCEPT ![n] = x] \in Seq(S)
         /\ Len([s EXCEPT ![n] = x]) = Len(s)
         /\ \A i \in 1..Len(s) \ {n} : [s EXCEPT ![n] = x][i] = s[i]
         /\ [s EXCEPT ![n] = x][n] = x
  OBVIOUS

(* The two topmost levels become one.                                      *)
LEMMA Folded ==
  ASSUME NEW S, NEW s \in Seq(S), Len(s) > 1, NEW x \in S,
         NEW n, n = Len(s)
  PROVE  /\ Append(SubSeq(s, 1, n - 2), x) \in Seq(S)
         /\ Len(Append(SubSeq(s, 1, n - 2), x)) = n - 1
         /\ \A i \in 1..n - 2 : Append(SubSeq(s, 1, n - 2), x)[i] = s[i]
         /\ Append(SubSeq(s, 1, n - 2), x)[n - 1] = x
<1> DEFINE q == SubSeq(s, 1, n - 2)
<1>1. n - 2 \in 0..Len(s)
  OBVIOUS
<1>2. /\ q \in Seq(S) /\ Len(q) = n - 2
      /\ \A i \in 1..n - 2 : q[i] = s[i]
  BY <1>1, Popped
<1> HIDE DEF q
<1>3. /\ Append(q, x) \in Seq(S)
      /\ Len(Append(q, x)) = Len(q) + 1
      /\ \A i \in 1..Len(q) : Append(q, x)[i] = q[i]
      /\ Append(q, x)[Len(q) + 1] = x
  BY <1>2, Pushed
<1>4. Len(q) = n - 2 /\ Len(q) + 1 = n - 1
  BY <1>1, <1>2
<1> QED
  BY <1>1, <1>2, <1>3, <1>4 DEF q
-----------------------------------------------------------------------------
(* The operators of the table.                                             *)

LEMMA Constants == MaxDepth \in Nat /\ MaxDepth > 0 /\ MaxEvents \in Nat
  BY MirrorAssumption DEF MirrorAssumption

(* A line that is to be written is written once or lost; no other changes. *)
LEMMA LinesAreWrittenOrLost ==
  ASSUME TypeOK, NEW lines \in SUBSET Events, WriteLines(lines)
  PROVE  /\ mirror' \in [Events -> Nat] /\ lost' \subseteq Events
         /\ lost \subseteq lost'
         /\ \A e \in Events : e \notin lines =>
               mirror'[e] = mirror[e] /\ (e \in lost' => e \in lost)
         /\ \A e \in lines : \/ mirror'[e] = mirror[e] + 1 /\ (e \in lost' => e \in lost)
                             \/ mirror'[e] = mirror[e] /\ e \in lost'
<1>1. PICK k \in 0..MaxEvents :
         /\ mirror' = [e \in Events |-> IF e \in lines /\ e <= k THEN mirror[e] + 1 ELSE mirror[e]]
         /\ lost' = lost \cup {e \in lines : e > k}
  BY Constants DEF WriteLines
<1>2. mirror \in [Events -> Nat] /\ lost \subseteq Events
  BY DEF TypeOK
<1>3. mirror' \in [Events -> Nat] /\ lost' \subseteq Events /\ lost \subseteq lost'
  BY <1>1, <1>2
<1>4. ASSUME NEW e \in Events, e \notin lines
      PROVE  mirror'[e] = mirror[e] /\ (e \in lost' => e \in lost)
  BY <1>1, <1>4
<1>5. ASSUME NEW e \in lines
      PROVE  \/ mirror'[e] = mirror[e] + 1 /\ (e \in lost' => e \in lost)
             \/ mirror'[e] = mirror[e] /\ e \in lost'
  <2>1. e \in Events /\ e \in Nat /\ k \in Nat
    BY Constants DEF Events
  <2>2. CASE e <= k
    BY <1>1, <2>1, <2>2
  <2>3. CASE ~ (e <= k)
    BY <1>1, <2>1, <2>3
  <2> QED
    BY <2>2, <2>3
<1> QED
  BY <1>3, <1>4, <1>5

(* A frame that is handed up leaves its depth, and the depth above it has  *)
(* a frame that holds both, under the name it had if it had one.           *)
LEMMA HandedUp ==
  ASSUME TypeOK, TableInv, NEW h \in Hook, h.at > 1, Registered(frames, h),
         NEW fs, fs = HandUp(frames, h)
  PROVE  /\ fs \in [Depths -> Frame]
         /\ h.at - 1 \in Depths
         /\ fs[h.at] = NoFrame
         /\ fs[h.at - 1].events = frames[h.at - 1].events \cup frames[h.at].events
         /\ fs[h.at - 1].first \in Events /\ fs[h.at - 1].events # {}
         /\ frames[h.at - 1].first # 0 => fs[h.at - 1].first = frames[h.at - 1].first
         /\ \A d \in Depths : d # h.at /\ d # h.at - 1 => fs[d] = frames[d]
         /\ AdopterOf(frames, h) = {[at |-> h.at - 1, first |-> fs[h.at - 1].first]}
<1> DEFINE up == h.at - 1
           new == [first  |-> IF frames[up] = NoFrame THEN h.first ELSE frames[up].first,
                   events |-> frames[up].events \cup frames[h.at].events]
<1>1. h.at \in Depths /\ h.first \in Events /\ up \in Depths /\ up # h.at
  BY Constants DEF Hook, Depths
<1>2. frames[up] \in Frame /\ frames[h.at] \in Frame
  BY <1>1 DEF TypeOK
<1>3. frames[h.at].events # {}
  BY <1>1, Constants DEF TableInv, Registered, Events
<1>4. frames[up] # NoFrame => frames[up].first # 0
  BY <1>1, <1>2 DEF TableInv, Frame, NoFrame
<1>5. new \in Frame /\ new.first \in Events /\ new.events # {}
  BY <1>1, <1>2, <1>3, <1>4, Constants DEF Frame, Events
<1>6. frames[up].first # 0 => new.first = frames[up].first
  BY DEF NoFrame
<1>7. NoFrame \in Frame
  BY Constants DEF NoFrame, Frame
<1>8. /\ fs = [frames EXCEPT ![h.at] = NoFrame, ![up] = new]
      /\ AdopterOf(frames, h) = {[at |-> up, first |-> fs[up].first]}
  BY DEF HandUp, AdopterOf
<1>9. new.events = frames[up].events \cup frames[h.at].events
  OBVIOUS
<1> HIDE DEF new
<1>10. /\ fs \in [Depths -> Frame] /\ fs[h.at] = NoFrame /\ fs[up] = new
       /\ \A d \in Depths : d # h.at /\ d # up => fs[d] = frames[d]
  BY <1>1, <1>5, <1>7, <1>8 DEF TypeOK
<1> QED
  BY <1>1, <1>5, <1>6, <1>8, <1>9, <1>10

(* Discarding empties frames, all or nothing.                              *)
LEMMA Discarded ==
  ASSUME TypeOK, NEW undo, NEW fs, fs = DiscardAll(frames, undo)
  PROVE  /\ fs \in [Depths -> Frame]
         /\ \A d \in Depths : fs[d] = frames[d] \/ fs[d] = NoFrame
  BY Constants DEF DiscardAll, TypeOK, NoFrame, Frame
-----------------------------------------------------------------------------
(* The types and the table.                                                *)

LEMMA InitTable == Init => TypeOK /\ TableInv
<1> SUFFICES ASSUME Init PROVE TypeOK /\ TableInv
  OBVIOUS
<1>1. TypeOK
  BY Constants DEF Init, TypeOK, NoFrames, NoFrame, Frame, depth
<1>2. TableInv
  BY Constants DEF Init, TableInv, NoFrames, NoFrame, depth, Events
<1> QED
  BY <1>1, <1>2

(* The levels a step leaves: the ones it keeps and the one it makes.       *)
LEMMA BeginTable ==
  ASSUME TypeOK, TableInv, Begin PROVE TypeOK' /\ TableInv'
<1>1. levels \in Seq(Level) /\ NewLevel \in Level
  BY DEF TypeOK, NewLevel, Level
<1>2. /\ levels' \in Seq(Level) /\ Len(levels') = depth + 1
      /\ \A d \in 1..depth : levels'[d] = levels[d]
      /\ levels'[depth + 1] = NewLevel
  BY <1>1, Pushed DEF Begin, depth
<1>3. depth \in Nat
  BY <1>1 DEF depth
<1>4. TypeOK'
  BY <1>2, <1>3, Constants DEF Begin, TypeOK, depth
<1>5. TableInv'
  <2>1. \A d \in 1..depth' : d \in 1..depth \/ d = depth + 1
    BY <1>2, <1>3 DEF depth
  <2>2. NewLevel.rows = {} /\ NewLevel.rel = NoHook
    BY DEF NewLevel
  <2> QED
    BY <1>2, <2>1, <2>2 DEF Begin, TableInv
<1> QED
  BY <1>4, <1>5

LEMMA LogEventTable ==
  ASSUME TypeOK, TableInv, LogEvent PROVE TypeOK' /\ TableInv'
<1> DEFINE e == seq + 1
           h == [at |-> depth, first |-> e]
           top == levels[depth]
           new == [rows |-> top.rows \cup {e}, post |-> top.post \cup {h},
                   undo |-> top.undo \cup {h}, rel |-> h]
           more == [top EXCEPT !.rows = @ \cup {e}]
<1>1. /\ depth \in Depths /\ depth \in 1..Len(levels) /\ levels \in Seq(Level) /\ top \in Level
      /\ e \in Events /\ seq \in Nat /\ e \in Nat
  BY Constants DEF TypeOK, LogEvent, Depths, Events, depth
<1>2. h \in Hook /\ h # NoHook /\ h.at = depth
  BY <1>1, Constants DEF Hook, NoHook, Events
<1>3. new \in Level /\ new.rows = top.rows \cup {e} /\ new.rel = h
  BY <1>1, <1>2 DEF Level
<1>4. more \in Level /\ more.rows = top.rows \cup {e} /\ more.rel = top.rel
  BY <1>1 DEF Level
<1>5. PICK lvl \in Level : /\ levels' = WithTop(lvl) /\ lvl.rows = top.rows \cup {e}
                           /\ lvl.rel # NoHook => lvl.rel.at = depth
  <2>1. CASE frames[depth].events = {}
    BY <1>2, <1>3, <2>1 DEF LogEvent
  <2>2. CASE frames[depth].events # {}
    <3>1. levels' = WithTop(more)
      BY <2>2 DEF LogEvent
    <3>2. top.rel # NoHook => top.rel.at = depth
      BY <1>1 DEF TableInv, depth
    <3> HIDE DEF more
    <3> QED
      BY <1>4, <3>1, <3>2
  <2> QED
    BY <2>1, <2>2
<1>6. /\ levels' \in Seq(Level) /\ Len(levels') = depth
      /\ \A d \in 1..depth \ {depth} : levels'[d] = levels[d]
      /\ levels'[depth] = lvl
  BY <1>1, <1>5, Changed DEF WithTop, depth
<1>7. PICK f \in Frame : /\ frames' = [frames EXCEPT ![depth] = f]
                         /\ f.events = frames[depth].events \cup {e} /\ f.first # 0
  <2>1. CASE frames[depth].events = {}
    <3>1. [first |-> e, events |-> {e}] \in Frame /\ e # 0
      BY <1>1, Constants DEF Frame, Events
    <3> QED
      BY <2>1, <3>1 DEF LogEvent
  <2>2. CASE frames[depth].events # {}
    <3>1. frames[depth] \in Frame /\ frames[depth].first # 0
      BY <1>1, <2>2 DEF TypeOK, TableInv
    <3> DEFINE f == [frames[depth] EXCEPT !.events = @ \cup {e}]
    <3>2. f \in Frame /\ f.events = frames[depth].events \cup {e} /\ f.first # 0
      BY <1>1, <3>1 DEF Frame
    <3>3. frames' = [frames EXCEPT ![depth] = f]
      BY <2>2 DEF LogEvent
    <3> HIDE DEF f
    <3> QED
      BY <3>2, <3>3
  <2> QED
    BY <2>1, <2>2
<1>8. /\ frames' \in [Depths -> Frame] /\ frames'[depth] = f
      /\ \A d \in Depths \ {depth} : frames'[d] = frames[d]
  BY <1>1, <1>7 DEF TypeOK
<1> HIDE DEF h, top, new, more
<1>9. TypeOK'
  BY <1>1, <1>6, <1>8, Constants DEF LogEvent, TypeOK, Events, depth
<1>10. e \notin lost /\ mirror[e] = 0 /\ \A d \in Depths : e \notin frames[d].events
  BY <1>1 DEF TableInv, TypeOK
<1>11. \A d \in Depths : \A c \in frames'[d].events : c \in frames[d].events \/ (d = depth /\ c = e)
  BY <1>7, <1>8
<1>12. TableInv'
  <2> USE DEF TableInv
  <2>1. seq' = e /\ mirror' = mirror /\ lost' = lost /\ log' = log /\ depth' = depth
    BY <1>6 DEF LogEvent, depth
  <2>2. ASSUME NEW d \in Depths
        PROVE  /\ frames'[d].events = {} <=> frames'[d].first = 0
               /\ \A c \in frames'[d].events : c <= seq' /\ mirror'[c] = 0 /\ c \notin lost'
    <3>1. frames[d] \in Frame
      BY DEF TypeOK
    <3>2. frames'[d].events = {} <=> frames'[d].first = 0
      BY <1>7, <1>8
    <3>3. ASSUME NEW c \in frames'[d].events
          PROVE  c <= seq' /\ mirror'[c] = 0 /\ c \notin lost'
      <4>1. CASE c \in frames[d].events
        <5>1. c \in Nat
          BY <3>1, <4>1, Constants DEF Frame, Events
        <5> QED
          BY <1>1, <2>1, <4>1, <5>1
      <4>2. CASE c = e
        BY <1>1, <1>10, <2>1, <4>2
      <4> QED
        BY <1>11, <4>1, <4>2
    <3> QED
      BY <3>2, <3>3
  <2>3. \A d \in Depths : \A c \in Depths \ {d} : frames'[c].events \cap frames'[d].events = {}
    BY <1>10, <1>11
  <2>4. ASSUME NEW d \in 1..depth'
        PROVE  /\ \A c \in levels'[d].rows : c <= seq' /\ mirror'[c] = 0
               /\ levels'[d].rel # NoHook => levels'[d].rel.at = d
    <3>1. levels[d] \in Level
      BY <1>1, <2>1 DEF depth
    <3>2. \A c \in levels[d].rows : c \in Nat /\ c <= seq /\ mirror[c] = 0
      BY <2>1, <3>1, Constants DEF Level, Events
    <3>3. CASE d = depth
      <4>1. levels'[d] = lvl /\ top = levels[d]
        BY <1>6, <3>3 DEF top
      <4>2. \A c \in lvl.rows : c \in levels[d].rows \/ c = e
        BY <1>5, <4>1
      <4>3. \A c \in lvl.rows : c <= e /\ mirror[c] = 0
        BY <1>1, <1>10, <3>2, <4>2
      <4> HIDE DEF e
      <4> QED
        BY <1>5, <2>1, <3>3, <4>1, <4>3
    <3>4. CASE d # depth
      BY <1>1, <1>6, <2>1, <3>2, <3>4
    <3> QED
      BY <3>3, <3>4
  <2>5. \A c \in Events : mirror'[c] <= 1 /\ (mirror'[c] > 0 => c <= seq')
    BY <1>1, <2>1, Constants DEF Events, TypeOK
  <2>6. \A c \in log' \cup lost' : c <= seq'
    BY <1>1, <2>1, Constants DEF Events, TypeOK
  <2> QED
    BY <2>2, <2>3, <2>4, <2>5, <2>6
<1> QED
  BY <1>9, <1>12

LEMMA LogEventAloneTable ==
  ASSUME TypeOK, TableInv, LogEventAlone PROVE TypeOK' /\ TableInv'
<1> DEFINE e == seq + 1
<1>1. e \in Events /\ seq \in Nat /\ e \in Nat /\ {e} \in SUBSET Events
  BY Constants DEF TypeOK, LogEventAlone, Events
<1>2. WriteLines({e})
  BY DEF LogEventAlone
<1>3. /\ mirror' \in [Events -> Nat] /\ lost' \subseteq Events /\ lost \subseteq lost'
      /\ \A c \in Events : c # e => mirror'[c] = mirror[c] /\ (c \in lost' => c \in lost)
      /\ mirror'[e] = mirror[e] + 1 \/ mirror'[e] = mirror[e]
  BY <1>1, <1>2, LinesAreWrittenOrLost
<1>4. NoFrames \in [Depths -> Frame]
  BY Constants DEF NoFrames, NoFrame, Frame
<1>5. depth = 0 /\ levels' = levels /\ depth' = depth /\ seq' = e /\ log' = log \cup {e}
  BY DEF LogEventAlone, TypeOK, depth
<1>6. TypeOK'
  BY <1>1, <1>3, <1>4, <1>5, Constants DEF LogEventAlone, TypeOK, Events, depth
<1>7. mirror[e] = 0
  BY <1>1 DEF TableInv, TypeOK
<1>8. TableInv'
  <2>1. \A c \in Events : mirror'[c] <= 1 /\ (mirror'[c] > 0 => c <= seq')
    <3> SUFFICES ASSUME NEW c \in Events
                 PROVE  mirror'[c] <= 1 /\ (mirror'[c] > 0 => c <= seq')
      OBVIOUS
    <3>1. CASE c = e
      BY <1>1, <1>3, <1>5, <1>7, <3>1
    <3>2. CASE c # e
      BY <1>1, <1>3, <1>5, <3>2, Constants DEF TableInv, Events, TypeOK
    <3> QED
      BY <3>1, <3>2
  <2>2. \A c \in log' \cup lost' : c <= seq'
    BY <1>1, <1>3, <1>5, Constants DEF TableInv, Events, TypeOK
  <2>3. \A d \in Depths : frames'[d] = NoFrame
    BY DEF LogEventAlone, NoFrames
  <2> QED
    BY <1>5, <2>1, <2>2, <2>3 DEF TableInv, NoFrame
<1> QED
  BY <1>6, <1>8

LEMMA ReleaseTable ==
  ASSUME TypeOK, TableInv, Release PROVE TypeOK' /\ TableInv'
<1> DEFINE top == levels[depth]
           h == top.rel
           up == levels[depth - 1]
           new == Merged(up, top, AdopterOf(frames, h))
<1>1. /\ levels \in Seq(Level) /\ depth > 1 /\ depth \in Depths /\ depth \in Nat
      /\ top \in Level /\ up \in Level
  BY Constants DEF TypeOK, Release, Depths, depth
<1>2. \/ /\ Registered(frames, h) /\ h \in Hook /\ h.at = depth
      \/ /\ ~ Registered(frames, h) /\ frames' = frames /\ AdopterOf(frames, h) = {}
  <2>1. CASE Registered(frames, h)
    BY <1>1, <2>1 DEF Registered, Level, TableInv, depth
  <2>2. CASE ~ Registered(frames, h)
    BY <2>2 DEF Release, HandUp, AdopterOf
  <2> QED
    BY <2>1, <2>2
<1>3. ASSUME Registered(frames, h), h \in Hook, h.at = depth
      PROVE  /\ frames' \in [Depths -> Frame]
             /\ frames'[depth] = NoFrame
             /\ frames'[depth - 1].events = frames[depth - 1].events \cup frames[depth].events
             /\ frames'[depth - 1].first \in Events /\ frames'[depth - 1].events # {}
             /\ \A d \in Depths : d # depth /\ d # depth - 1 => frames'[d] = frames[d]
             /\ depth - 1 \in Depths
             /\ AdopterOf(frames, h) \subseteq Hook
  <2>1. frames' = HandUp(frames, h)
    BY DEF Release
  <2>2. /\ frames' \in [Depths -> Frame]
        /\ frames'[depth] = NoFrame
        /\ frames'[depth - 1].events = frames[depth - 1].events \cup frames[depth].events
        /\ frames'[depth - 1].first \in Events /\ frames'[depth - 1].events # {}
        /\ \A d \in Depths : d # depth /\ d # depth - 1 => frames'[d] = frames[d]
        /\ depth - 1 \in Depths
        /\ AdopterOf(frames, h) = {[at |-> depth - 1, first |-> frames'[depth - 1].first]}
    BY <1>1, <1>3, <2>1, HandedUp
  <2>3. AdopterOf(frames, h) \subseteq Hook
    BY <2>2 DEF Hook
  <2> QED
    BY <2>2, <2>3
<1>4. AdopterOf(frames, h) \subseteq Hook
  BY <1>2, <1>3
<1>5. new \in Level /\ new.rows = up.rows \cup top.rows /\ new.rel = up.rel
  BY <1>1, <1>4 DEF Merged, Level
<1>6. levels' = Append(SubSeq(levels, 1, depth - 2), new)
  BY DEF Release
<1> HIDE DEF new
<1>7. /\ levels' \in Seq(Level) /\ Len(levels') = depth - 1
      /\ \A d \in 1..depth - 2 : levels'[d] = levels[d]
      /\ levels'[depth - 1] = new
  <2>1. depth = Len(levels) /\ Len(levels) > 1
    BY <1>1 DEF depth
  <2> QED
    BY <1>1, <1>5, <1>6, <2>1, Folded
<1>8. frames' \in [Depths -> Frame]
  BY <1>2, <1>3 DEF TypeOK
<1>9. TypeOK'
  <2>1. session = "open" /\ UNCHANGED <<session, hooks, seq, log, mirror, lost>>
    BY DEF Release
  <2>2. orderly' \in {"yes", "no"}
    BY DEF Release, TypeOK
  <2> QED
    BY <1>1, <1>7, <1>8, <2>1, <2>2, Constants DEF TypeOK, depth
<1>10. TableInv'
  <2>1. UNCHANGED <<seq, log, mirror, lost>> /\ depth' = depth - 1
    BY <1>7 DEF Release, depth
  <2>2. /\ \A d \in Depths :
             /\ frames'[d].events = {} <=> frames'[d].first = 0
             /\ \A e \in frames'[d].events : e <= seq /\ mirror[e] = 0 /\ e \notin lost
             /\ \A c \in Depths \ {d} : frames'[c].events \cap frames'[d].events = {}
    <3>1. CASE ~ Registered(frames, h)
      BY <1>2, <3>1 DEF TableInv
    <3>2. CASE Registered(frames, h)
      <4>1. h \in Hook /\ h.at = depth
        BY <1>2, <3>2
      <4>2. 0 \notin Events
        BY DEF Events
      <4>3. \A d \in Depths : d = depth \/ d = depth - 1 \/ frames'[d] = frames[d]
        BY <1>3, <3>2, <4>1
      <4>4. \A d \in Depths : frames'[d].events = {} <=> frames'[d].first = 0
        BY <1>1, <1>3, <3>2, <4>1, <4>2, <4>3 DEF TableInv, NoFrame
      <4>5. \A d \in Depths : \A e \in frames'[d].events :
               \/ d # depth /\ e \in frames[d].events
               \/ d = depth - 1 /\ e \in frames[depth].events
        BY <1>1, <1>3, <3>2, <4>1, <4>3 DEF NoFrame
      <4> QED
        BY <1>1, <4>4, <4>5 DEF TableInv
    <3> QED
      BY <3>1, <3>2
  <2>3. ASSUME NEW d \in 1..depth'
        PROVE  /\ \A e \in levels'[d].rows : e <= seq /\ mirror[e] = 0
               /\ levels'[d].rel # NoHook => levels'[d].rel.at = d
    <3>1. d \in 1..depth /\ depth \in 1..depth
      BY <1>1, <2>1
    <3>2. CASE d = depth - 1
      BY <1>1, <1>5, <1>7, <3>1, <3>2 DEF TableInv
    <3>3. CASE d # depth - 1
      <4>1. levels'[d] = levels[d]
        BY <1>1, <1>7, <2>1, <3>3
      <4> QED
        BY <3>1, <4>1 DEF TableInv
    <3> QED
      BY <3>2, <3>3
  <2> QED
    BY <2>1, <2>2, <2>3 DEF TableInv
<1> QED
  BY <1>9, <1>10

LEMMA RollbackTable ==
  ASSUME TypeOK, TableInv, Rollback PROVE TypeOK' /\ TableInv'
<1>1. levels \in Seq(Level) /\ depth > 0 /\ depth \in Nat /\ depth - 1 \in 0..Len(levels)
  BY DEF TypeOK, Rollback, depth
<1>2. /\ levels' \in Seq(Level) /\ Len(levels') = depth - 1
      /\ \A d \in 1..depth - 1 : levels'[d] = levels[d]
  BY <1>1, Popped DEF Rollback
<1>3. /\ frames' \in [Depths -> Frame]
      /\ \A d \in Depths : frames'[d] = frames[d] \/ frames'[d] = NoFrame
  BY Discarded DEF Rollback
<1>4. TypeOK'
  <2>1. session' = (IF depth = 1 THEN "idle" ELSE "open") /\ UNCHANGED <<hooks, seq, log, mirror, lost>>
    BY DEF Rollback
  <2>2. orderly' \in {"yes", "no"}
    BY DEF Rollback, TypeOK
  <2>3. hooks = {}
    BY <1>1 DEF TypeOK
  <2> QED
    BY <1>1, <1>2, <1>3, <2>1, <2>2, <2>3, Constants DEF TypeOK, depth
<1>5. TableInv'
  <2>1. UNCHANGED <<seq, log, mirror, lost>> /\ depth' = depth - 1
    BY <1>2 DEF Rollback, depth
  <2>2. \A d \in 1..depth' : d \in 1..depth /\ levels'[d] = levels[d]
    BY <1>1, <1>2, <2>1
  <2> QED
    BY <1>3, <2>1, <2>2 DEF TableInv, NoFrame
<1> QED
  BY <1>4, <1>5

LEMMA CommitTable ==
  ASSUME TypeOK, TableInv, Commit PROVE TypeOK' /\ TableInv'
<1>1. levels[1] \in Level /\ depth = 1 /\ 1 \in 1..depth
  <2>1. levels \in Seq(Level) /\ Len(levels) = 1
    BY DEF TypeOK, Commit, depth
  <2> QED
    BY <2>1 DEF depth
<1>2. Kept \subseteq Events /\ \A e \in Kept : e <= seq
  BY <1>1 DEF Kept, Level, TableInv
<1>3. depth' = 0
  BY DEF Commit, depth
<1>4. TypeOK'
  <2>1. /\ levels' = <<>> /\ session' = "idle" /\ hooks' = levels[1].post /\ log' = log \cup Kept
        /\ UNCHANGED <<frames, seq, mirror, lost, orderly>>
    BY DEF Commit
  <2>2. hooks' \subseteq Hook /\ log' \subseteq Events
    BY <1>1, <1>2, <2>1 DEF Level, TypeOK
  <2> QED
    BY <1>3, <2>1, <2>2, Constants DEF TypeOK, depth
<1>5. TableInv'
  BY <1>2, <1>3 DEF Commit, TableInv
<1> QED
  BY <1>4, <1>5

LEMMA RunHookTable ==
  ASSUME TypeOK, TableInv, NEW h \in Hook, RunHook(h) PROVE TypeOK' /\ TableInv'
<1> DEFINE lines == frames[h.at].events
<1>1. h.at \in Depths /\ h.first \in Events
  BY DEF Hook
<1>2. lines \in SUBSET Events
  BY <1>1 DEF TypeOK, Frame
<1>3. depth = 0 /\ UNCHANGED <<levels, session, seq, log, orderly>> /\ hooks' \subseteq hooks /\ depth' = 0
  BY DEF RunHook, TypeOK, depth
<1>4. CASE ~ Registered(frames, h)
  <2>1. UNCHANGED <<frames, mirror, lost>>
    BY <1>4 DEF RunHook
  <2>2. TypeOK'
    BY <1>3, <2>1 DEF TypeOK, depth
  <2>3. TableInv'
    BY <1>3, <2>1 DEF TableInv
  <2> QED
    BY <2>2, <2>3
<1>5. CASE Registered(frames, h)
  <2>1. frames' = [frames EXCEPT ![h.at] = NoFrame] /\ WriteLines(lines)
    BY <1>5 DEF RunHook
  <2> HIDE DEF lines
  <2>2. /\ mirror' \in [Events -> Nat] /\ lost' \subseteq Events
        /\ \A e \in Events : e \notin lines =>
              mirror'[e] = mirror[e] /\ (e \in lost' => e \in lost)
        /\ \A e \in lines : mirror'[e] = mirror[e] + 1 \/ mirror'[e] = mirror[e]
    BY <1>2, <2>1, LinesAreWrittenOrLost
  <2>3. NoFrame \in Frame
    BY Constants DEF NoFrame, Frame
  <2>4. /\ frames' \in [Depths -> Frame] /\ frames'[h.at] = NoFrame
        /\ \A d \in Depths \ {h.at} : frames'[d] = frames[d]
    BY <1>1, <2>1, <2>3 DEF TypeOK
  <2>5. TypeOK'
    BY <1>3, <2>2, <2>4 DEF TypeOK, depth
  <2>6. \A e \in lines : e <= seq /\ mirror[e] = 0
    BY <1>1 DEF TableInv, lines
  <2>7. \A d \in Depths \ {h.at} : lines \cap frames[d].events = {}
    BY <1>1 DEF TableInv, lines
  <2>8. TableInv'
    <3>1. ASSUME NEW d \in Depths
          PROVE  /\ frames'[d].events = {} <=> frames'[d].first = 0
                 /\ \A e \in frames'[d].events : e <= seq' /\ mirror'[e] = 0 /\ e \notin lost'
                 /\ \A c \in Depths \ {d} : frames'[c].events \cap frames'[d].events = {}
      <4>1. CASE d = h.at
        BY <2>4, <4>1 DEF NoFrame
      <4>2. CASE d # h.at
        <5>1. frames'[d] = frames[d] /\ frames[d].events \subseteq Events
          BY <2>4, <4>2 DEF TypeOK, Frame
        <5>2. \A e \in frames'[d].events : e <= seq' /\ mirror'[e] = 0 /\ e \notin lost'
          BY <1>3, <2>2, <2>7, <4>2, <5>1 DEF TableInv
        <5>3. \A c \in Depths \ {d} : frames'[c].events \cap frames'[d].events = {}
          BY <2>4, <5>1 DEF TableInv, NoFrame
        <5> QED
          BY <5>1, <5>2, <5>3 DEF TableInv
      <4> QED
        BY <4>1, <4>2
    <3>2. ASSUME NEW e \in Events
          PROVE  mirror'[e] <= 1 /\ (mirror'[e] > 0 => e <= seq')
      <4>1. CASE e \in lines
        <5>1. mirror[e] = 0 /\ e <= seq
          BY <2>6, <4>1
        <5> QED
          BY <1>3, <2>2, <4>1, <5>1
      <4>2. CASE e \notin lines
        BY <1>3, <2>2, <4>2 DEF TableInv
      <4> QED
        BY <4>1, <4>2
    <3>3. ASSUME NEW e \in log' \cup lost' PROVE e <= seq'
      <4>1. CASE e \in lines
        BY <1>3, <2>6, <4>1
      <4>2. CASE e \notin lines
        BY <1>3, <2>2, <4>2 DEF TableInv
      <4> QED
        BY <4>1, <4>2
    <3> QED
      BY <1>3, <3>1, <3>2, <3>3 DEF TableInv
  <2> QED
    BY <2>5, <2>8
<1> QED
  BY <1>4, <1>5

LEMMA CrashTable ==
  ASSUME TypeOK, TableInv, Crash PROVE TypeOK' /\ TableInv'
<1> DEFINE gone == {g \in hooks : Registered(frames, g)}
<1>1. /\ levels' = <<>> /\ session' = "idle" /\ hooks' = {} /\ frames' = NoFrames
      /\ lost' = lost \cup UNION {frames[h.at].events : h \in gone}
      /\ UNCHANGED <<seq, log, mirror, orderly>>
  BY DEF Crash
<1>2. \A h \in gone : h.at \in Depths /\ frames[h.at].events \subseteq Events
  BY DEF TypeOK, Hook, Frame
<1>3. depth' = 0
  BY <1>1 DEF depth
<1>4. NoFrames \in [Depths -> Frame] /\ \A d \in Depths : frames'[d] = NoFrame
  BY <1>1, Constants DEF NoFrames, NoFrame, Frame
<1>5. \A e \in lost' : e \in lost \/ \E d \in Depths : e \in frames[d].events
  BY <1>1, <1>2
<1>6. lost' \subseteq Events
  BY <1>1, <1>2 DEF TypeOK
<1> HIDE DEF gone
<1>7. TypeOK'
  BY <1>1, <1>3, <1>4, <1>6, Constants DEF TypeOK, depth
<1>8. TableInv'
  BY <1>1, <1>3, <1>4, <1>5 DEF TableInv, NoFrame
<1> QED
  BY <1>7, <1>8

(* The steps that touch neither the table nor the file.                    *)
LEMMA OtherTable ==
  ASSUME TypeOK, TableInv, BeginRefused \/ CommitFails \/ StatementFails \/ ReleaseRefused
  PROVE  TypeOK' /\ TableInv'
<1>1. UNCHANGED <<frames, hooks, seq, log, mirror, lost>>
  BY DEF BeginRefused, CommitFails, StatementFails, ReleaseRefused
<1>2. (levels' = levels /\ depth' = depth) \/ (levels' = <<>> /\ depth' = 0)
  BY DEF BeginRefused, CommitFails, StatementFails, ReleaseRefused, depth
<1>3. TypeOK'
  <2>1. levels' \in Seq(Level) /\ depth' <= MaxDepth
    <3>1. levels \in Seq(Level) /\ depth <= MaxDepth
      BY DEF TypeOK
    <3>2. <<>> \in Seq(Level) /\ 0 <= MaxDepth
      BY Constants
    <3>3. CASE levels' = levels /\ depth' = depth
      BY <3>1, <3>3
    <3>4. CASE levels' = <<>> /\ depth' = 0
      BY <3>2, <3>4
    <3> QED
      BY <1>2, <3>3, <3>4
  <2>2. /\ session' \in {"idle", "open", "aborted"} /\ orderly' \in {"yes", "no"}
        /\ session' = "idle" => depth' = 0
        /\ session' = "open" => depth' > 0
    BY <1>2 DEF BeginRefused, CommitFails, StatementFails, ReleaseRefused, TypeOK, depth
  <2>3. hooks # {} => session' = "idle"
    BY DEF BeginRefused, CommitFails, StatementFails, ReleaseRefused, TypeOK
  <2> QED
    BY <1>1, <2>1, <2>2, <2>3 DEF TypeOK
<1>4. TableInv'
  BY <1>1, <1>2 DEF TableInv
<1> QED
  BY <1>3, <1>4

LEMMA NextTable == TypeOK /\ TableInv /\ [Next]_vars => TypeOK' /\ TableInv'
<1> SUFFICES ASSUME TypeOK, TableInv, [Next]_vars PROVE TypeOK' /\ TableInv'
  OBVIOUS
<1>1. CASE UNCHANGED vars
  BY <1>1 DEF vars, TypeOK, TableInv, depth
<1>2. CASE Next
  BY <1>2, BeginTable, LogEventTable, LogEventAloneTable, ReleaseTable, RollbackTable,
     CommitTable, RunHookTable, CrashTable, OtherTable DEF Next
<1> QED
  BY <1>1, <1>2

(* Whatever fails, the session, the levels, the table and the file keep    *)
(* their types: a callback names a depth and an event there is, and only an*)
(* idle session has callbacks of a committed block left (db_base.py).      *)
THEOREM MirrorTypes == Spec => []TypeOK
<1>1. Init => TypeOK /\ TableInv
  BY InitTable
<1>2. (TypeOK /\ TableInv) /\ [Next]_vars => (TypeOK /\ TableInv)'
  BY NextTable
<1> QED
  BY <1>1, <1>2, PTL DEF Spec

(* No line reaches the file while the block that logged its row is open,   *)
(* whatever was released, adopted, rolled back or lost on the way          *)
(* (eventlog.py, the mirror's hooks).                                      *)
THEOREM NothingIsEarly == Spec => []NothingBeforeCommit
<1>1. Init => TypeOK /\ TableInv
  BY InitTable
<1>2. (TypeOK /\ TableInv) /\ [Next]_vars => (TypeOK /\ TableInv)'
  BY NextTable
<1>3. TypeOK /\ TableInv => NothingBeforeCommit
  BY DEF TypeOK, TableInv, NothingBeforeCommit, mirrored, pending, Level
<1> QED
  BY <1>1, <1>2, <1>3, PTL DEF Spec
-----------------------------------------------------------------------------
(* The table in step with the levels.                                      *)

(* The table, the file and the levels, of a state in step.                 *)
LEMMA InStepFacts ==
  ASSUME TypeOK, TableInv, InStep
  PROVE  /\ \A d \in Depths : frames[d].events = {} => frames[d] = NoFrame
         /\ \A d \in Depths : d > depth /\ d > 1 => frames[d] = NoFrame
         /\ depth = 0 /\ hooks = {} =>
               mirrored = log \ lost /\ \A d \in Depths : frames[d] = NoFrame
<1>1. ASSUME NEW d \in Depths, frames[d].events = {} PROVE frames[d] = NoFrame
  <2>1. frames[d] \in Frame /\ frames[d].first = 0
    BY <1>1 DEF TypeOK, TableInv
  <2> QED
    BY <1>1, <2>1 DEF Frame, NoFrame
<1>2. \A d \in Depths : d > depth /\ d > 1 => frames[d] = NoFrame
  BY <1>1 DEF InStep
<1>3. ASSUME depth = 0, hooks = {}
      PROVE  mirrored = log \ lost /\ \A d \in Depths : frames[d] = NoFrame
  <2>1. frames[1].events = {} /\ mirrored = log \ lost
    BY <1>3 DEF InStep
  <2>2. \A d \in Depths : d = 1 \/ (d > 1 /\ d > depth)
    BY <1>3, Constants DEF Depths
  <2>3. 1 \in Depths
    BY Constants DEF Depths
  <2> QED
    BY <1>1, <1>2, <1>3, <2>1, <2>2, <2>3
<1> QED
  BY <1>1, <1>2, <1>3

LEMMA InitInStep == Init => InStep
  BY Constants DEF Init, InStep, NoFrames, NoFrame, depth, mirrored, Depths

LEMMA BeginInStep ==
  ASSUME TypeOK, TableInv, InStep, Begin PROVE InStep'
<1>1. levels \in Seq(Level) /\ NewLevel \in Level
  BY DEF TypeOK, NewLevel, Level
<1>2. /\ Len(levels') = depth + 1
      /\ \A d \in 1..depth : levels'[d] = levels[d]
      /\ levels'[depth + 1] = NewLevel
  BY <1>1, Pushed DEF Begin, depth
<1>3. depth \in Nat /\ depth' = depth + 1 /\ depth + 1 \in Depths
  BY <1>1, <1>2, Constants DEF Begin, Depths, depth
<1>4. /\ hooks = {} /\ session' = "open"
      /\ UNCHANGED <<frames, hooks, seq, log, mirror, lost>>
  BY DEF Begin
<1>5. frames[depth + 1] = NoFrame
  <2>1. CASE depth = 0
    BY <1>3, <1>4, <2>1, InStepFacts
  <2>2. CASE depth > 0
    BY <1>3, <2>2, InStepFacts
  <2> QED
    BY <1>3, <2>1, <2>2
<1>6. mirrored = log \ lost /\ mirrored' = mirrored
  BY <1>3, <1>4, InStepFacts DEF InStep, mirrored
<1>7. ASSUME NEW d \in 1..depth'
      PROVE  frames'[d].events = levels'[d].rows /\ CallbacksOf(d)'
  <2>1. CASE d = depth + 1
    <3>1. levels'[d] = NewLevel /\ frames'[d] = NoFrame
      BY <1>2, <1>4, <1>5, <2>1
    <3>2. /\ NewLevel.rows = {} /\ NewLevel.undo = {} /\ NewLevel.rel = NoHook
          /\ NoFrame.events = {}
      BY DEF NewLevel, NoFrame
    <3> QED
      BY <3>1, <3>2 DEF CallbacksOf
  <2>2. CASE d \in 1..depth
    BY <1>2, <1>4, <2>2 DEF InStep, CallbacksOf, FrameHook
  <2> QED
    BY <1>3, <2>1, <2>2
<1>8. \A d \in Depths : d > depth' /\ d > 1 => frames'[d].events = {}
  BY <1>3, <1>4 DEF InStep, Depths
<1> QED
  BY <1>3, <1>4, <1>6, <1>7, <1>8 DEF InStep

LEMMA LogEventInStep ==
  ASSUME TypeOK, TableInv, InStep, LogEvent PROVE InStep'
<1> DEFINE e == seq + 1
           h == [at |-> depth, first |-> e]
           top == levels[depth]
           new == [rows |-> top.rows \cup {e}, post |-> top.post \cup {h},
                   undo |-> top.undo \cup {h}, rel |-> h]
           more == [top EXCEPT !.rows = @ \cup {e}]
           first == [first |-> e, events |-> {e}]
           longer == [frames[depth] EXCEPT !.events = @ \cup {e}]
<1>1. /\ depth \in Depths /\ depth \in 1..Len(levels) /\ levels \in Seq(Level) /\ top \in Level
      /\ e \in Events /\ seq \in Nat /\ e # 0 /\ frames[depth] \in Frame
  BY Constants DEF TypeOK, LogEvent, Depths, Events, depth
<1>2. h \in Hook /\ h # NoHook /\ h.at = depth /\ h.first = e
  BY <1>1, Constants DEF Hook, NoHook, Events
<1>3. /\ session' = "open" /\ UNCHANGED <<hooks, log, mirror, lost>>
  BY DEF LogEvent
<1>4. frames[depth].events = top.rows /\ CallbacksOf(depth)
  BY <1>1 DEF InStep, depth
<1>5. PICK lvl \in Level, f \in Frame :
         /\ levels' = [levels EXCEPT ![depth] = lvl]
         /\ frames' = [frames EXCEPT ![depth] = f]
         /\ f.events = lvl.rows
         /\ [at |-> depth, first |-> f.first] \in lvl.post
         /\ lvl.rel # NoHook => lvl.rel = [at |-> depth, first |-> f.first] /\ lvl.rel \in lvl.undo
         /\ lvl.rel = NoHook => \E g \in lvl.undo : g.at > depth
         /\ \A g \in lvl.undo : g.at >= depth
  <2>1. CASE frames[depth].events = {}
    <3>1. new \in Level /\ first \in Frame
      BY <1>1, <1>2 DEF Level, Frame, Events
    <3>2. levels' = [levels EXCEPT ![depth] = new] /\ frames' = [frames EXCEPT ![depth] = first]
      BY <2>1 DEF LogEvent, WithTop
    <3>3. /\ first.events = new.rows /\ first.first = e
          /\ h \in new.post /\ new.rel = h /\ h \in new.undo
          /\ \A g \in new.undo : g = h \/ g \in top.undo
      BY <1>4, <2>1
    <3>4. \A g \in top.undo : g.at >= depth
      BY <1>4 DEF CallbacksOf
    <3>5. h.at >= depth /\ h = [at |-> depth, first |-> first.first]
      BY <1>1, <1>2, Constants DEF Depths
    <3> HIDE DEF new, first, h
    <3> QED
      BY <1>2, <3>1, <3>2, <3>3, <3>4, <3>5
  <2>2. CASE frames[depth].events # {}
    <3>1. more \in Level /\ longer \in Frame
      BY <1>1 DEF Level, Frame, Events
    <3>2. levels' = [levels EXCEPT ![depth] = more] /\ frames' = [frames EXCEPT ![depth] = longer]
      BY <2>2 DEF LogEvent, WithTop
    <3>3. /\ longer.events = frames[depth].events \cup {e} /\ longer.first = frames[depth].first
          /\ more.rows = top.rows \cup {e} /\ more.post = top.post /\ more.undo = top.undo
          /\ more.rel = top.rel
      BY <1>1 DEF Level, Frame
    <3> HIDE DEF more, longer
    <3> QED
      BY <1>4, <2>2, <3>1, <3>2, <3>3 DEF CallbacksOf, FrameHook
  <2> QED
    BY <2>1, <2>2
<1>6. /\ Len(levels') = depth /\ levels'[depth] = lvl
      /\ \A d \in 1..depth \ {depth} : levels'[d] = levels[d]
  BY <1>1, <1>5, Changed DEF depth
<1>7. /\ frames'[depth] = f
      /\ \A d \in Depths \ {depth} : frames'[d] = frames[d]
  BY <1>1, <1>5 DEF TypeOK
<1>8. depth' = depth /\ depth \in Nat
  BY <1>1, <1>6 DEF depth
<1> HIDE DEF h, top, new, more, first, longer, e
<1>9. ASSUME NEW d \in 1..depth'
      PROVE  frames'[d].events = levels'[d].rows /\ CallbacksOf(d)'
  <2>1. d \in Depths /\ d \in 1..depth
    BY <1>8, Constants DEF TypeOK, Depths
  <2>2. CASE d = depth
    BY <1>5, <1>6, <1>7, <2>2 DEF CallbacksOf, FrameHook
  <2>3. CASE d # depth
    <3>1. levels'[d] = levels[d] /\ frames'[d] = frames[d]
      BY <1>6, <1>7, <2>1, <2>3
    <3>2. frames[d].events = levels[d].rows /\ CallbacksOf(d)
      BY <2>1 DEF InStep
    <3> QED
      BY <3>1, <3>2 DEF CallbacksOf, FrameHook
  <2> QED
    BY <2>2, <2>3
<1>10. \A d \in Depths : d > depth' /\ d > 1 => frames'[d].events = {}
  BY <1>7, <1>8 DEF InStep
<1>11. depth' > 0 /\ mirrored' = log' \ lost'
  BY <1>1, <1>3, <1>8, Constants DEF InStep, mirrored, Depths
<1> QED
  BY <1>3, <1>9, <1>10, <1>11 DEF InStep

LEMMA LogEventAloneInStep ==
  ASSUME TypeOK, TableInv, InStep, LogEventAlone PROVE InStep'
<1> DEFINE e == seq + 1
<1>1. e \in Events /\ seq \in Nat /\ {e} \in SUBSET Events
  BY Constants DEF TypeOK, LogEventAlone, Events
<1>2. /\ \A c \in Events : c # e => mirror'[c] = mirror[c] /\ (c \in lost' => c \in lost)
      /\ \/ mirror'[e] = mirror[e] + 1 /\ (e \in lost' => e \in lost)
         \/ mirror'[e] = mirror[e] /\ e \in lost'
      /\ lost \subseteq lost' /\ lost' \subseteq Events
  BY <1>1, LinesAreWrittenOrLost DEF LogEventAlone
<1>3. /\ depth = 0 /\ depth' = 0 /\ hooks = {} /\ log' = log \cup {e} /\ session' = "idle"
      /\ \A d \in Depths : frames'[d] = NoFrame
  BY DEF LogEventAlone, TypeOK, depth, NoFrames
<1>4. mirror[e] = 0 /\ e \notin lost /\ e \notin log
  BY <1>1 DEF TableInv, TypeOK
<1>5. mirrored = log \ lost
  BY <1>3, InStepFacts
<1>6. mirrored' = log' \ lost'
  <2>1. \A c \in Events : c # e => (mirror'[c] > 0 <=> c \in log' \ lost')
    BY <1>2, <1>3, <1>5 DEF mirrored
  <2>2. mirror'[e] > 0 <=> e \in log' \ lost'
    BY <1>2, <1>3, <1>4
  <2>3. log' \subseteq Events
    BY <1>1, <1>3 DEF TypeOK
  <2> QED
    BY <1>1, <2>1, <2>2, <2>3 DEF mirrored
<1>7. 1 \in Depths
  BY Constants DEF Depths
<1> QED
  BY <1>3, <1>6, <1>7 DEF InStep, NoFrame

(* A savepoint that is released leaves nothing behind at its depth, and    *)
(* its parent answers for the lines of both.                               *)
LEMMA ReleaseInStep ==
  ASSUME TypeOK, TableInv, InStep, Release, orderly' = "yes" PROVE InStep'
<1> DEFINE top == levels[depth]
           h == top.rel
           up == levels[depth - 1]
           new == Merged(up, top, AdopterOf(frames, h))
<1>1. /\ levels \in Seq(Level) /\ depth > 1 /\ depth \in Depths /\ depth \in Nat
      /\ top \in Level /\ up \in Level /\ depth - 1 \in Depths
      /\ depth \in 1..depth /\ depth - 1 \in 1..depth
  BY Constants DEF TypeOK, Release, Depths, depth
<1>2. /\ frames[depth].events = top.rows /\ CallbacksOf(depth)
      /\ frames[depth - 1].events = up.rows /\ CallbacksOf(depth - 1)
  BY <1>1 DEF InStep
<1>3. ~ Unprotected
  BY DEF Release
<1>4. h # NoHook => h \in Hook /\ h = FrameHook(depth) /\ h \in top.undo /\ h.at = depth
  BY <1>1, <1>2 DEF CallbacksOf, FrameHook, Level
<1>5. h = NoHook => frames[depth].events = {}
  BY <1>2, <1>3 DEF CallbacksOf, Unprotected
<1>6. h # NoHook <=> Registered(frames, h)
  BY <1>4 DEF Registered, FrameHook
<1>7. /\ frames' \in [Depths -> Frame]
      /\ frames'[depth].events = {}
      /\ frames'[depth - 1].events = up.rows \cup top.rows
      /\ \A d \in Depths : d # depth /\ d # depth - 1 => frames'[d] = frames[d]
      /\ frames[depth - 1].first # 0 => frames'[depth - 1].first = frames[depth - 1].first
      /\ h # NoHook => [at |-> depth - 1, first |-> frames'[depth - 1].first] \in AdopterOf(frames, h)
      /\ h = NoHook => frames'[depth - 1] = frames[depth - 1]
  <2>1. CASE h = NoHook
    <3>1. frames' = frames
      BY <1>6, <2>1 DEF Release, HandUp
    <3> QED
      BY <1>1, <1>2, <1>5, <2>1, <3>1 DEF TypeOK
  <2>2. CASE h # NoHook
    <3>1. frames' = HandUp(frames, h) /\ h \in Hook /\ h.at > 1 /\ Registered(frames, h) /\ h.at = depth
      BY <1>1, <1>4, <1>6, <2>2 DEF Release
    <3>2. /\ frames' \in [Depths -> Frame]
          /\ frames'[h.at] = NoFrame
          /\ frames'[h.at - 1].events = frames[h.at - 1].events \cup frames[h.at].events
          /\ frames[h.at - 1].first # 0 => frames'[h.at - 1].first = frames[h.at - 1].first
          /\ \A d \in Depths : d # h.at /\ d # h.at - 1 => frames'[d] = frames[d]
          /\ AdopterOf(frames, h) = {[at |-> h.at - 1, first |-> frames'[h.at - 1].first]}
      BY <3>1, HandedUp
    <3> QED
      BY <1>2, <2>2, <3>1, <3>2 DEF NoFrame
  <2> QED
    BY <2>1, <2>2
<1>8. AdopterOf(frames, h) \subseteq Hook
  <2>1. CASE h = NoHook
    BY <2>1 DEF AdopterOf, Registered
  <2>2. CASE h # NoHook
    <3>1. HandUp(frames, h)[h.at - 1].first \in Events /\ h.at - 1 \in Depths
      BY <1>1, <1>4, <1>6, <2>2, HandedUp
    <3> QED
      BY <3>1 DEF AdopterOf, Hook
  <2> QED
    BY <2>1, <2>2
<1>9. /\ new \in Level /\ new.rows = up.rows \cup top.rows
      /\ new.post = (up.post \cup top.post) \cup AdopterOf(frames, h)
      /\ new.undo = up.undo \cup top.undo /\ new.rel = up.rel
  BY <1>1, <1>8 DEF Merged, Level
<1>10. levels' = Append(SubSeq(levels, 1, depth - 2), new)
  BY DEF Release
<1> HIDE DEF new
<1>11. /\ Len(levels') = depth - 1
       /\ \A d \in 1..depth - 2 : levels'[d] = levels[d]
       /\ levels'[depth - 1] = new
  <2>1. depth = Len(levels) /\ Len(levels) > 1
    BY <1>1 DEF depth
  <2> QED
    BY <1>1, <1>9, <1>10, <2>1, Folded
<1>12. depth' = depth - 1 /\ session' = "open" /\ UNCHANGED <<log, mirror, lost>>
  BY <1>11 DEF Release, depth
<1> HIDE DEF top, up, h
<1>13. ASSUME NEW d, d = depth - 1 PROVE CallbacksOf(d)'
  <2>1. /\ frames'[d].events # {} => [at |-> d, first |-> frames'[d].first] \in levels'[d].post
        /\ levels'[d].rel # NoHook => levels'[d].rel = [at |-> d, first |-> frames'[d].first]
                                      /\ levels'[d].rel \in levels'[d].undo
        /\ levels'[d].rel = NoHook /\ frames'[d].events # {}
           => \E g \in levels'[d].undo : g.at > d
        /\ \A g \in levels'[d].undo : g.at >= d
    <3>1. levels'[d] = new /\ d \in Nat /\ depth > d /\ depth = d + 1
      BY <1>1, <1>11, <1>13
    <3>2. frames'[d].events # {} => [at |-> d, first |-> frames'[d].first] \in new.post
      BY <1>1, <1>2, <1>7, <1>9, <1>13 DEF CallbacksOf, FrameHook, up
    <3>3. new.rel # NoHook => new.rel = [at |-> d, first |-> frames'[d].first] /\ new.rel \in new.undo
      <4> SUFFICES ASSUME up.rel # NoHook
                   PROVE  up.rel = [at |-> d, first |-> frames'[d].first] /\ up.rel \in up.undo
        BY <1>9
      <4>1. up.rel = FrameHook(depth - 1) /\ up.rel \in up.undo
        BY <1>2 DEF CallbacksOf, up
      <4>2. up.rel \in Hook
        BY <1>1 DEF Level
      <4>3. frames[depth - 1].first # 0
        BY <4>1, <4>2 DEF Hook, FrameHook, Events
      <4> QED
        BY <1>7, <1>13, <4>1, <4>3 DEF FrameHook
    <3>4. new.rel = NoHook /\ frames'[d].events # {} => \E g \in new.undo : g.at > d
      <4>1. CASE h # NoHook
        BY <1>4, <1>9, <3>1, <4>1 DEF top
      <4>2. CASE h = NoHook
        BY <1>2, <1>7, <1>9, <1>13, <4>2 DEF CallbacksOf, up
      <4> QED
        BY <4>1, <4>2
    <3>5. \A g \in new.undo : g.at >= d
      <4>1. \A g \in up.undo : g.at >= d
        BY <1>2, <1>13 DEF CallbacksOf, up
      <4>2. \A g \in top.undo : g.at >= depth /\ g.at \in Nat
        BY <1>1, <1>2, Constants DEF CallbacksOf, top, Level, Hook, Depths
      <4> QED
        BY <1>9, <3>1, <4>1, <4>2
    <3> QED
      BY <3>1, <3>2, <3>3, <3>4, <3>5
  <2>2. FrameHook(d)' = [at |-> d, first |-> frames'[d].first]
    BY DEF FrameHook
  <2> QED
    BY <2>1, <2>2 DEF CallbacksOf
<1>14. ASSUME NEW d \in 1..depth'
       PROVE  frames'[d].events = levels'[d].rows /\ CallbacksOf(d)'
  <2>1. CASE d = depth - 1
    BY <1>7, <1>9, <1>11, <1>13, <2>1
  <2>2. CASE d # depth - 1
    <3>1. d \in 1..depth - 2 /\ d \in 1..depth /\ d \in Depths /\ d # depth
      BY <1>1, <1>12, <2>2, Constants DEF Depths, TypeOK
    <3>2. frames'[d] = frames[d] /\ levels'[d] = levels[d]
      BY <1>7, <1>11, <2>2, <3>1
    <3> QED
      BY <3>1, <3>2 DEF InStep, CallbacksOf, FrameHook
  <2> QED
    BY <2>1, <2>2
<1>15. \A d \in Depths : d > depth' /\ d > 1 => frames'[d].events = {}
  <2> SUFFICES ASSUME NEW d \in Depths, d > depth', d > 1 PROVE frames'[d].events = {}
    OBVIOUS
  <2>1. d = depth \/ (d > depth /\ d # depth - 1)
    BY <1>1, <1>12 DEF Depths
  <2> QED
    BY <1>7, <2>1 DEF InStep
<1>16. depth' > 0 /\ mirrored' = log' \ lost'
  BY <1>1, <1>12 DEF InStep, mirrored
<1> QED
  BY <1>12, <1>14, <1>15, <1>16 DEF InStep

(* A level that is rolled back takes its own lines with it, and those of   *)
(* no level above.                                                         *)
LEMMA RollbackInStep ==
  ASSUME TypeOK, TableInv, InStep, Rollback, orderly' = "yes" PROVE InStep'
<1> DEFINE top == levels[depth]
<1>1. /\ levels \in Seq(Level) /\ depth > 0 /\ depth \in Nat /\ depth - 1 \in 0..Len(levels)
      /\ depth \in Depths /\ depth \in 1..depth /\ top \in Level
  BY Constants DEF TypeOK, Rollback, depth, Depths
<1>2. /\ Len(levels') = depth - 1
      /\ \A d \in 1..depth - 1 : levels'[d] = levels[d]
  BY <1>1, Popped DEF Rollback
<1>3. /\ depth' = depth - 1 /\ session' # "aborted" /\ UNCHANGED <<hooks, log, mirror, lost>>
      /\ frames' = DiscardAll(frames, top.undo) /\ ~ Unprotected
  BY <1>2 DEF Rollback, depth
<1>4. CallbacksOf(depth)
  BY <1>1 DEF InStep
<1>5. \A d \in Depths : d < depth => frames'[d] = frames[d]
  <2>1. \A h \in top.undo : h.at \in Depths /\ h.at >= depth
    BY <1>1, <1>4 DEF CallbacksOf, Level, Hook
  <2>2. \A d \in Depths : d < depth => ~ \E h \in top.undo : Registered(frames, h) /\ h.at <= d
    BY <1>1, <2>1, Constants DEF Depths
  <2> QED
    BY <1>3, <2>2 DEF DiscardAll
<1>6. frames'[depth].events = {}
  <2>1. CASE frames[depth].events = {}
    BY <1>1, <1>3, <2>1, Discarded DEF NoFrame
  <2>2. CASE frames[depth].events # {}
    <3>1. top.rel # NoHook /\ top.rel = FrameHook(depth) /\ top.rel \in top.undo
      BY <1>3, <1>4, <2>2 DEF CallbacksOf, Unprotected
    <3>2. Registered(frames, top.rel) /\ top.rel.at = depth
      BY <3>1 DEF Registered, FrameHook
    <3>3. \E h \in top.undo : Registered(frames, h) /\ h.at <= depth
      BY <1>1, <3>1, <3>2
    <3>4. frames'[depth] = NoFrame
      BY <1>1, <1>3, <3>3 DEF DiscardAll
    <3> QED
      BY <3>4 DEF NoFrame
  <2> QED
    BY <2>1, <2>2
<1>7. \A d \in Depths : d >= depth => frames'[d].events = {}
  <2> SUFFICES ASSUME NEW d \in Depths, d >= depth PROVE frames'[d].events = {}
    OBVIOUS
  <2>1. CASE d = depth
    BY <1>6, <2>1
  <2>2. CASE d # depth
    <3>1. d > depth /\ d > 1
      BY <1>1, <2>2, Constants DEF Depths
    <3>2. frames[d].events = {}
      BY <3>1 DEF InStep
    <3> QED
      BY <1>3, <3>2, Discarded DEF NoFrame
  <2> QED
    BY <2>1, <2>2
<1> HIDE DEF top
<1>8. ASSUME NEW d \in 1..depth'
      PROVE  frames'[d].events = levels'[d].rows /\ CallbacksOf(d)'
  <2>1. d \in 1..depth /\ d \in Depths /\ d < depth /\ d \in 1..depth - 1
    BY <1>1, <1>3, Constants DEF Depths
  <2>2. frames'[d] = frames[d] /\ levels'[d] = levels[d]
    BY <1>2, <1>5, <2>1
  <2> QED
    BY <2>1, <2>2 DEF InStep, CallbacksOf, FrameHook
<1>9. \A d \in Depths : d > depth' /\ d > 1 => frames'[d].events = {}
  BY <1>1, <1>3, <1>7, Constants DEF Depths
<1>10. mirrored' = log' \ lost'
  BY <1>1, <1>3 DEF InStep, mirrored
<1>11. depth' = 0 => frames'[1].events = {}
  BY <1>1, <1>3, <1>7, Constants DEF Depths
<1> QED
  BY <1>3, <1>8, <1>9, <1>10, <1>11 DEF InStep

LEMMA CommitInStep ==
  ASSUME TypeOK, TableInv, InStep, Commit PROVE InStep'
<1>1. depth = 1 /\ session = "open" /\ depth' = 0 /\ session' = "idle"
  BY DEF Commit, InStep, TypeOK, depth
<1>2. /\ log' = log \cup frames[1].events /\ hooks' = levels[1].post
      /\ frames' = frames /\ UNCHANGED <<mirror, lost>>
  BY <1>1 DEF Commit, Kept, InStep
<1>3. mirrored = log \ lost /\ CallbacksOf(1)
  BY <1>1 DEF InStep
<1>4. frames[1].events \cap lost = {} /\ frames[1].events \subseteq Events /\ 1 \in Depths
  <2>1. 1 \in Depths
    BY Constants DEF Depths
  <2> QED
    BY <2>1 DEF TableInv, TypeOK, Frame
<1>5. mirrored' \cup frames'[1].events = log' \ lost'
  BY <1>2, <1>3, <1>4 DEF mirrored
<1>6. frames'[1].events # {} => FrameHook(1)' \in hooks'
  BY <1>2, <1>3 DEF CallbacksOf, FrameHook
<1>7. \A d \in Depths : d > depth' /\ d > 1 => frames'[d].events = {}
  BY <1>1, <1>2 DEF InStep
<1> QED
  BY <1>1, <1>5, <1>6, <1>7 DEF InStep

(* Of the callbacks of a committed block only that of the block's own      *)
(* frame finds lines; the others find nothing.                             *)
LEMMA RunHookInStep ==
  ASSUME TypeOK, TableInv, InStep, NEW h \in Hook, RunHook(h) PROVE InStep'
<1> DEFINE lines == frames[h.at].events
<1>1. h.at \in Depths /\ h.first \in Events /\ h.first # 0 /\ h # NoHook /\ 1 \in Depths
  BY Constants DEF Hook, Events, NoHook, Depths
<1>2. /\ depth = 0 /\ depth' = 0 /\ session = "idle" /\ session' = "idle" /\ log' = log
      /\ hooks' = hooks \ {h}
  BY DEF RunHook, TypeOK, depth
<1>3. /\ mirrored \cup frames[1].events = log \ lost
      /\ frames[1].events # {} => FrameHook(1) \in hooks
      /\ \A d \in Depths : d > 1 => frames[d] = NoFrame
  BY <1>2, InStepFacts, Constants DEF InStep, Depths
<1>4. CASE ~ Registered(frames, h)
  <2>1. UNCHANGED <<frames, mirror, lost>>
    BY <1>4 DEF RunHook
  <2>2. FrameHook(1) # h
    BY <1>1, <1>4 DEF Registered, FrameHook
  <2> QED
    BY <1>2, <1>3, <2>1, <2>2 DEF InStep, FrameHook, mirrored, NoFrame
<1>5. CASE Registered(frames, h)
  <2>1. frames[h.at].first = h.first
    BY <1>5 DEF Registered
  <2>2. h.at = 1
    <3>1. ~ (h.at > 1)
      BY <1>1, <1>3, <2>1 DEF NoFrame
    <3> QED
      BY <1>1, <3>1, Constants DEF Depths
  <2>3. frames' = [frames EXCEPT ![1] = NoFrame] /\ WriteLines(lines)
    BY <1>5, <2>2 DEF RunHook
  <2>4. /\ lines \in SUBSET Events /\ lines = frames[1].events
        /\ \A e \in lines : mirror[e] = 0 /\ e \notin lost
    BY <1>1, <2>2 DEF TypeOK, Frame, TableInv
  <2>5. \A d \in Depths : frames'[d] = NoFrame
    <3>1. \A d \in Depths : d = 1 \/ d > 1
      BY Constants DEF Depths
    <3>2. frames \in [Depths -> Frame]
      BY DEF TypeOK
    <3> QED
      BY <1>1, <1>3, <2>3, <3>1, <3>2
  <2> HIDE DEF lines
  <2>6. /\ lost \subseteq lost'
        /\ \A e \in Events : e \notin lines =>
              mirror'[e] = mirror[e] /\ (e \in lost' => e \in lost)
        /\ \A e \in lines : \/ mirror'[e] = mirror[e] + 1 /\ (e \in lost' => e \in lost)
                            \/ mirror'[e] = mirror[e] /\ e \in lost'
    BY <2>3, <2>4, LinesAreWrittenOrLost
  <2>7. mirrored' = log' \ lost'
    <3>1. \A e \in Events : e \notin lines => (mirror'[e] > 0 <=> e \in log \ lost')
      BY <1>3, <2>4, <2>6 DEF mirrored
    <3>2. ASSUME NEW e \in lines PROVE mirror'[e] > 0 <=> e \in log \ lost'
      <4>1. e \in log /\ mirror[e] = 0 /\ e \notin lost
        BY <1>3, <2>4
      <4>2. CASE mirror'[e] = mirror[e] + 1 /\ (e \in lost' => e \in lost)
        BY <4>1, <4>2
      <4>3. CASE mirror'[e] = mirror[e] /\ e \in lost'
        BY <4>1, <4>3
      <4> QED
        BY <2>6, <4>2, <4>3
    <3>3. log \subseteq Events
      BY DEF TypeOK
    <3> QED
      BY <1>2, <3>1, <3>2, <3>3 DEF mirrored
  <2> QED
    BY <1>1, <1>2, <2>5, <2>7 DEF InStep, NoFrame
<1> QED
  BY <1>4, <1>5

(* Lines that die with the process are lost; a block that dies with it     *)
(* has none that count.                                                    *)
LEMMA CrashInStep ==
  ASSUME TypeOK, TableInv, InStep, Crash PROVE InStep'
<1> DEFINE gone == UNION {frames[h.at].events : h \in {g \in hooks : Registered(frames, g)}}
<1>1. /\ depth' = 0 /\ session' = "idle" /\ lost' = lost \cup gone /\ UNCHANGED <<log, mirror>>
      /\ \A d \in Depths : frames'[d].events = {}
  BY DEF Crash, depth, NoFrames, NoFrame
<1>2. mirrored = log \ lost'
  <2>1. CASE depth = 0
    <3>1. /\ mirrored \cup frames[1].events = log \ lost
          /\ frames[1].events # {} => FrameHook(1) \in hooks
          /\ \A d \in Depths : d > 1 => frames[d].events = {}
      BY <2>1, Constants DEF InStep, Depths
    <3>2. gone \subseteq frames[1].events
      <4> SUFFICES ASSUME NEW h \in hooks PROVE frames[h.at].events \subseteq frames[1].events
        OBVIOUS
      <4>1. h.at \in Depths /\ (h.at = 1 \/ h.at > 1)
        BY Constants DEF TypeOK, Hook, Depths
      <4> QED
        BY <3>1, <4>1
    <3>3. frames[1].events \subseteq gone
      <4> SUFFICES ASSUME frames[1].events # {} PROVE frames[1].events \subseteq gone
        OBVIOUS
      <4>1. FrameHook(1) \in hooks /\ FrameHook(1) # NoHook
        BY <3>1 DEF FrameHook, NoHook
      <4>2. Registered(frames, FrameHook(1)) /\ FrameHook(1).at = 1
        BY <4>1 DEF Registered, FrameHook
      <4> QED
        BY <4>1, <4>2
    <3>4. \A e \in frames[1].events : mirror[e] = 0
      <4>1. 1 \in Depths
        BY Constants DEF Depths
      <4> QED
        BY <4>1 DEF TableInv
    <3>5. mirrored \cap frames[1].events = {}
      BY <3>4 DEF mirrored
    <3> HIDE DEF gone
    <3> QED
      BY <1>1, <3>1, <3>2, <3>3, <3>5
  <2>2. CASE depth # 0
    <3>1. hooks = {} /\ depth > 0
      BY <2>2 DEF TypeOK, depth
    <3>2. gone = {}
      BY <3>1
    <3> HIDE DEF gone
    <3> QED
      BY <1>1, <3>1, <3>2 DEF InStep
  <2> QED
    BY <2>1, <2>2
<1>3. mirrored' = log' \ lost' /\ 1 \in Depths
  BY <1>1, <1>2, Constants DEF mirrored, Depths
<1> QED
  BY <1>1, <1>3 DEF InStep

LEMMA NextInStep ==
  ASSUME MirrorInv, [Next]_vars PROVE orderly' = "yes" => InStep'
<1> SUFFICES ASSUME orderly' = "yes" PROVE InStep'
  OBVIOUS
<1>1. TypeOK /\ TableInv
  BY DEF MirrorInv
<1>2. CASE UNCHANGED vars
  BY <1>2 DEF vars, MirrorInv, InStep, CallbacksOf, FrameHook, mirrored, depth
<1>3. CASE Next
  <2>1. orderly = "yes"
    BY <1>3 DEF Next, Begin, BeginRefused, LogEvent, LogEventAlone, Release, ReleaseRefused,
                Rollback, StatementFails, Commit, CommitFails, Crash, RunHook
  <2>2. InStep
    BY <2>1 DEF MirrorInv
  <2>3. ~ CommitFails /\ ~ StatementFails
    BY DEF CommitFails, StatementFails
  <2>4. ~ BeginRefused /\ ~ ReleaseRefused
    BY <2>2 DEF BeginRefused, ReleaseRefused, InStep
  <2> QED
    BY <1>1, <1>3, <2>2, <2>3, <2>4, BeginInStep, LogEventInStep, LogEventAloneInStep,
       ReleaseInStep, RollbackInStep, CommitInStep, RunHookInStep, CrashInStep DEF Next
<1> QED
  BY <1>2, <1>3

(* The mirror is a faithful copy of the log: no event is in it twice, and  *)
(* while no failed statement was swallowed, no COMMIT refused and no       *)
(* savepoint handed its lines to a level without a frame of its own, it    *)
(* holds only committed events, and all of them, but for lines a failed    *)
(* write or a crash cost, once the callbacks of a block have run           *)
(* (eventlog.py, _flush_mirror, _discard_frame, _release_frame).           *)
THEOREM MirrorIsFaithful == Spec => []MirrorFaithful
<1>1. Init => MirrorInv
  BY InitTable, InitInStep DEF MirrorInv
<1>2. MirrorInv /\ [Next]_vars => MirrorInv'
  BY NextTable, NextInStep DEF MirrorInv
<1>3. MirrorInv => MirrorFaithful
  <2> SUFFICES ASSUME MirrorInv PROVE MirrorFaithful
    OBVIOUS
  <2>1. TypeOK /\ TableInv
    BY DEF MirrorInv
  <2>2. \A e \in Events : mirror[e] <= 1
    BY <2>1 DEF TableInv
  <2>3. ASSUME orderly = "yes"
        PROVE  mirrored \subseteq log \ lost /\ (hooks = {} => mirrored = log \ lost)
    <3>1. InStep
      BY <2>3 DEF MirrorInv
    <3>2. CASE depth = 0
      BY <2>1, <3>1, <3>2, InStepFacts DEF InStep
    <3>3. CASE depth # 0
      <4>1. depth > 0
        BY <2>1, <3>3 DEF TypeOK, depth
      <4> QED
        BY <3>1, <4>1 DEF InStep
    <3> QED
      BY <3>2, <3>3
  <2> QED
    BY <2>2, <2>3 DEF MirrorFaithful
<1> QED
  BY <1>1, <1>2, <1>3, PTL DEF Spec
=============================================================================

---------------------------- MODULE EventMirror ----------------------------
(***************************************************************************)
(* The transaction template every store shares (db_base.py) and the one    *)
(* side effect that hangs on its hooks: the JSONL mirror of the raw-event  *)
(* log (eventlog.py).                                                      *)
(*                                                                         *)
(* A block opened inside another is a savepoint.  Each open level buffers  *)
(* three kinds of callback: "post" runs after the outermost COMMIT, "undo" *)
(* when the level is discarded, "rel" when a savepoint is handed to its    *)
(* parent.  The mirror keeps a table of queued lines of its own, by the    *)
(* depth of the level they were logged at, and the three callbacks are     *)
(* what keeps that table in step with the transaction: the lines must      *)
(* reach the file when, and only when, the rows are committed.             *)
(*                                                                         *)
(* Events are numbered by the mirror's append sequence.  One thread owns   *)
(* the connection lock for a whole block and its callbacks, so one nest of *)
(* levels exists at a time.  Of a buffer of callbacks only the members     *)
(* matter: a frame is resolved by the first callback that finds it, and    *)
(* the others find nothing.  PostgreSQL is the backend of production: a    *)
(* statement that fails aborts the block until a rollback, RELEASE is      *)
(* refused in an aborted block, and COMMIT of an aborted block is a        *)
(* rollback that reports success.                                          *)
(***************************************************************************)
EXTENDS Naturals, Sequences

CONSTANTS
    MaxDepth,       \* levels a call chain opens
    MaxEvents,      \* bound on the events logged
    FailingDepths,  \* depths an exception escapes from
    WritesFail,     \* writing the file may raise OSError, somewhere in the text
    Swallows,       \* a caller goes on in a level whose statement failed
    Crashes         \* the process may die

ASSUME MirrorAssumption ==
    /\ MaxDepth \in Nat \ {0}
    /\ MaxEvents \in Nat
    /\ FailingDepths \subseteq 1..MaxDepth
    /\ WritesFail \in BOOLEAN
    /\ Swallows \in BOOLEAN
    /\ Crashes \in BOOLEAN

VARIABLES
    levels,     \* the open levels: their rows and the callbacks they buffer
    session,    \* what the server says of the connection
    frames,     \* _mirror_frames: the lines queued at each depth
    hooks,      \* callbacks of a committed block that are still to run
    seq,        \* _mirror_seq
    log,        \* raw_events as committed
    mirror,     \* mirror[e]: how many lines of the file are of event e
    lost,       \* committed events whose line a failed write or a crash cost
    orderly     \* history: no COMMIT was refused yet, no failed statement
                \* swallowed, and no Unprotected level ended

vars == <<levels, session, frames, hooks, seq, log, mirror, lost, orderly>>

Depths == 1..MaxDepth
Events == 1..MaxEvents
depth  == Len(levels)

(* A frame is known by the depth it is registered at and the event it was  *)
(* created for; that pair is what a callback closes over.                  *)
Hook     == [at : Depths, first : Events]
Frame    == [first : 0..MaxEvents, events : SUBSET Events]
NoFrame  == [first |-> 0, events |-> {}]
NoFrames == [d \in Depths |-> NoFrame]
NoHook   == [at |-> 0, first |-> 0]
Level    == [rows : SUBSET Events, post : SUBSET Hook, undo : SUBSET Hook,
             rel : Hook \cup {NoHook}]
NewLevel == [rows |-> {}, post |-> {}, undo |-> {}, rel |-> NoHook]

pending  == UNION {levels[d].rows : d \in 1..depth}
mirrored == {e \in Events : mirror[e] > 0}

(* _frame_depths(): whether a callback's frame is still in the table.      *)
Registered(fs, h) == h # NoHook /\ fs[h.at].first = h.first

TypeOK ==
    /\ levels \in Seq(Level) /\ depth <= MaxDepth
    /\ session \in {"idle", "open", "aborted"}
    /\ session = "idle" => depth = 0
    /\ session = "open" => depth > 0
    /\ frames \in [Depths -> Frame]
    /\ hooks \subseteq Hook /\ (hooks # {} => session = "idle")
    /\ seq \in 0..MaxEvents
    /\ log \subseteq Events /\ mirror \in [Events -> Nat]
    /\ lost \subseteq Events
    /\ orderly \in {"yes", "no"}
-----------------------------------------------------------------------------
(* _write_mirror_or_warn(): the text goes out in append order, and an      *)
(* OSError may strike anywhere in it; it is logged and nothing is retried. *)
WriteLines(lines) ==
    \E k \in IF WritesFail THEN 0..MaxEvents ELSE {MaxEvents} :
        /\ mirror' = [e \in Events |-> IF e \in lines /\ e <= k THEN mirror[e] + 1 ELSE mirror[e]]
        /\ lost' = lost \cup {e \in lines : e > k}

(* _discard_frame() of every undo callback: the frame's lines go, and      *)
(* those of every deeper one.                                              *)
DiscardAll(fs, undo) ==
    [d \in Depths |-> IF \E h \in undo : Registered(fs, h) /\ h.at <= d THEN NoFrame ELSE fs[d]]

(* Mutant: lines are dropped where the enclosing level has no frame yet.   *)
HandUpToFrame(fs, h) ==
    IF ~ Registered(fs, h) THEN fs
    ELSE LET d == h.at - 1 IN
         [fs EXCEPT ![h.at] = NoFrame,
                    ![d] = IF fs[d] = NoFrame THEN NoFrame
                           ELSE [@ EXCEPT !.events = @ \cup fs[h.at].events]]

(* _release_frame(): a released savepoint's lines go to the enclosing      *)
(* level, whose frame is created when it has logged nothing of its own.    *)
HandUp(fs, h) ==
    IF ~ Registered(fs, h) THEN fs
    ELSE LET d == h.at - 1 IN
         [fs EXCEPT ![h.at] = NoFrame,
                    ![d] = [first  |-> IF fs[d] = NoFrame THEN h.first ELSE fs[d].first,
                            events |-> fs[d].events \cup fs[h.at].events]]

(* The flush a hand-over registers on the enclosing level: it closes over  *)
(* the adopting frame.  No undo or release callback is registered for it.  *)
AdopterOf(fs, h) ==
    IF Registered(fs, h)
    THEN {[at |-> h.at - 1, first |-> HandUp(fs, h)[h.at - 1].first]} ELSE {}

WithTop(lvl) == [levels EXCEPT ![depth] = lvl]
-----------------------------------------------------------------------------
Init ==
    /\ levels = <<>> /\ session = "idle" /\ hooks = {}
    /\ frames = NoFrames
    /\ seq = 0 /\ log = {} /\ mirror = [e \in Events |-> 0]
    /\ lost = {} /\ orderly = "yes"

(* transaction(), entry: BEGIN, or SAVEPOINT inside another level.         *)
Begin ==
    /\ depth < MaxDepth /\ seq < MaxEvents /\ hooks = {}
    /\ session = IF depth = 0 THEN "idle" ELSE "open"
    /\ levels' = Append(levels, NewLevel)
    /\ session' = "open"
    /\ UNCHANGED <<frames, hooks, seq, log, mirror, lost, orderly>>

(* A BEGIN on a session left in an aborted block is refused, and           *)
(* _rollback_quietly() cleans the session up before the error is raised.   *)
BeginRefused ==
    /\ depth = 0 /\ session = "aborted"
    /\ session' = "idle"
    /\ UNCHANGED <<levels, frames, hooks, seq, log, mirror, lost, orderly>>

(* append() inside a block: the row is written, then _mirror_after_commit  *)
(* queues the line under this depth and registers the three callbacks for  *)
(* the first line of a frame.                                              *)
LogEvent ==
    /\ depth > 0 /\ session = "open" /\ seq < MaxEvents
    /\ LET e == seq + 1
           h == [at |-> depth, first |-> e]
           top == levels[depth]
       IN  /\ seq' = e
           /\ IF frames[depth].events = {}
              THEN /\ frames' = [frames EXCEPT ![depth] = [first |-> e, events |-> {e}]]
                   /\ levels' = WithTop([rows |-> top.rows \cup {e}, post |-> top.post \cup {h},
                                         undo |-> top.undo \cup {h}, rel |-> h])
              ELSE /\ frames' = [frames EXCEPT ![depth].events = @ \cup {e}]
                   /\ levels' = WithTop([top EXCEPT !.rows = @ \cup {e}])
    /\ UNCHANGED <<session, hooks, log, mirror, lost, orderly>>

(* append() outside any block: the row commits at once, _prune_frames()    *)
(* empties the table and the line is written straight away.                *)
LogEventAlone ==
    /\ session = "idle" /\ hooks = {} /\ seq < MaxEvents
    /\ seq' = seq + 1
    /\ log' = log \cup {seq + 1}
    /\ frames' = NoFrames
    /\ WriteLines({seq + 1})
    /\ UNCHANGED <<levels, session, hooks, orderly>>

(* The level took over the lines of a released savepoint before it had     *)
(* logged a line of its own: no undo and no release callback covers them.  *)
Unprotected ==
    /\ levels[depth].rel = NoHook
    /\ \E h \in levels[depth].undo : h.at > depth

(* What a level leaves to its parent: its rows and its callbacks.          *)
Merged(up, top, adopter) ==
    [up EXCEPT !.rows = @ \cup top.rows,
               !.post = @ \cup top.post \cup adopter,
               !.undo = @ \cup top.undo]

(* Mutant: a released savepoint's lines are written through at once.       *)
ReleaseWritesThrough ==
    /\ depth > 1 /\ session = "open"
    /\ LET top == levels[depth] IN
        /\ levels' = Append(SubSeq(levels, 1, depth - 2), Merged(levels[depth - 1], top, {}))
        /\ frames' = DiscardAll(frames, {top.rel})
        /\ WriteLines(IF Registered(frames, top.rel) THEN frames[depth].events ELSE {})
    /\ orderly' = IF Unprotected THEN "no" ELSE orderly
    /\ UNCHANGED <<session, hooks, seq, log>>

(* A savepoint ends well: rows and callbacks go to the parent, and the     *)
(* level's own release callback runs.                                      *)
Release ==
    /\ depth > 1 /\ session = "open"
    /\ LET top == levels[depth] IN
        /\ levels' = Append(SubSeq(levels, 1, depth - 2),
                            Merged(levels[depth - 1], top, AdopterOf(frames, top.rel)))
        /\ frames' = HandUp(frames, top.rel)
    /\ orderly' = IF Unprotected THEN "no" ELSE orderly
    /\ UNCHANGED <<session, hooks, seq, log, mirror, lost>>

(* Mutant: the session is not rolled back with the buffers.                *)
RollbackBuffersOnly ==
    /\ depth > 0 /\ depth \in FailingDepths
    /\ levels' = SubSeq(levels, 1, depth - 1)
    /\ frames' = DiscardAll(frames, levels[depth].undo)
    /\ session' = "open"
    /\ orderly' = IF Unprotected THEN "no" ELSE orderly
    /\ UNCHANGED <<hooks, seq, log, mirror, lost>>

(* An exception leaves a level: ROLLBACK TO, or ROLLBACK of the outermost  *)
(* block, and then the undo callbacks.                                     *)
Rollback ==
    /\ depth > 0 /\ depth \in FailingDepths
    /\ levels' = SubSeq(levels, 1, depth - 1)
    /\ frames' = DiscardAll(frames, levels[depth].undo)
    /\ session' = IF depth = 1 THEN "idle" ELSE "open"
    /\ orderly' = IF Unprotected THEN "no" ELSE orderly
    /\ UNCHANGED <<hooks, seq, log, mirror, lost>>

(* What COMMIT keeps: an aborted block keeps nothing and says nothing.     *)
Kept == IF session = "open" THEN levels[1].rows ELSE {}

(* The outermost block ends well: COMMIT.                                  *)
Commit ==
    /\ depth = 1
    /\ log' = log \cup Kept
    /\ levels' = <<>> /\ session' = "idle"
    /\ hooks' = levels[1].post
    /\ UNCHANGED <<frames, seq, mirror, lost, orderly>>

(* _flush_mirror(): one of its post-commit callbacks writes what is still  *)
(* queued under its frame and takes the frame out of the table.            *)
RunHook(h) ==
    /\ h \in hooks
    /\ hooks' = hooks \ {h}
    /\ IF Registered(frames, h)
       THEN /\ frames' = [frames EXCEPT ![h.at] = NoFrame]
            /\ WriteLines(frames[h.at].events)
       ELSE UNCHANGED <<frames, mirror, lost>>
    /\ UNCHANGED <<levels, session, seq, log, orderly>>

(* COMMIT is refused (a deferred constraint): the server keeps nothing and *)
(* every callback is dropped unrun, the undo ones included.                *)
CommitFails ==
    /\ depth = 1 /\ session = "open" /\ 1 \in FailingDepths
    /\ levels' = <<>> /\ session' = "idle"
    /\ orderly' = "no"
    /\ UNCHANGED <<frames, hooks, seq, log, mirror, lost>>

(* The process dies, inside a block, between COMMIT and a callback, or     *)
(* when nothing is open; the next one starts with empty tables.            *)
Crash ==
    /\ Crashes
    /\ lost' = lost \cup UNION {frames[h.at].events : h \in {g \in hooks : Registered(frames, g)}}
    /\ levels' = <<>> /\ session' = "idle" /\ hooks' = {}
    /\ frames' = NoFrames
    /\ UNCHANGED <<seq, log, mirror, orderly>>

(* A statement fails and its caller goes on without leaving the level.     *)
StatementFails ==
    /\ Swallows /\ depth > 0 /\ session = "open"
    /\ session' = "aborted"
    /\ orderly' = "no"
    /\ UNCHANGED <<levels, frames, hooks, seq, log, mirror, lost>>

(* RELEASE is refused in an aborted block.  The handler clears the buffers *)
(* of every open level, so that each enclosing level then fails on its     *)
(* empty buffer before it reaches its own rollback: the whole nest unwinds *)
(* and the session is left in the aborted block.                           *)
ReleaseRefused ==
    /\ depth > 1 /\ session = "aborted"
    /\ levels' = <<>>
    /\ UNCHANGED <<session, frames, hooks, seq, log, mirror, lost, orderly>>

Next ==
    \/ Begin \/ BeginRefused \/ LogEvent \/ LogEventAlone
    \/ Release \/ ReleaseRefused \/ Rollback \/ StatementFails
    \/ Commit \/ CommitFails \/ Crash
    \/ \E h \in Hook : RunHook(h)

Spec == Init /\ [][Next]_vars
-----------------------------------------------------------------------------
(* The mirror is a faithful copy: no event is in it twice, although a line *)
(* can be handed up through several frames and several flushes may name    *)
(* the same frame, and once the callbacks of a block have run it holds     *)
(* exactly the committed events whose line was not lost to a failed write  *)
(* or a crash; while they run, nothing else                                *)
(* (eventlog.py: "a line appears only after the transaction that holds the *)
(* row has committed").  It is complete until a COMMIT is refused, a caller*)
(* swallows a failed statement, or a savepoint hands its lines to a level  *)
(* that had none (Unprotected) and that is then released or rolled back:   *)
(* from then on the queue may hold lines of rows that are gone, and the    *)
(* next block writes them.                                                 *)
MirrorFaithful ==
    /\ \A e \in Events : mirror[e] <= 1
    /\ orderly = "yes" =>
          /\ mirrored \subseteq log \ lost
          /\ hooks = {} => mirrored = log \ lost

(* Nothing reaches the file while the block that logged it is open,        *)
(* whatever was released, adopted or rolled back on the way.               *)
NothingBeforeCommit == mirrored \cap pending = {}
=============================================================================

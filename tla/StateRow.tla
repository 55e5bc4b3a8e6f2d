------------------------------ MODULE StateRow ------------------------------
(***************************************************************************)
(* The one row of runtime_state, which every part of the Runtime reads and *)
(* replaces as a whole (RuntimeProjection.write), and its version.         *)
(*                                                                         *)
(* Writers come in two kinds.  Those of the coordinator (a message, a tick)*)
(* hold the write session of their process from reading the row to writing *)
(* it, but read it before their transaction begins.  Those of the reducer  *)
(* (a delivery, a proposal, a claim) do not take the session; they read and*)
(* write in one transaction.  What keeps the two kinds apart is the version*)
(* a writer expects.                                                       *)
(*                                                                         *)
(* Fields are not modelled one by one: the row carries the set of writes   *)
(* whose change it shows.                                                  *)
(***************************************************************************)
EXTENDS Naturals, Sequences

CONSTANTS
    Messages,    \* user messages, by event_id
    Changes,     \* reducer transactions that change a field: a contact charged,
                 \* a mood shifted
    MaxVersion   \* bound on the versions of a run

ASSUME StateRowAssumption ==
    /\ MaxVersion \in Nat
    /\ Messages \cap Changes = {}
    /\ {"none", "tick"} \cap Messages = {}

VARIABLES
    row,         \* the stored row
    session,     \* the holder of the write session, and the row it read
    log,         \* the messages of the event log, in the order of their commits
    changed      \* the changes that were committed

rowVars == <<row, session, log, changed>>

Row == [version : Nat, has : SUBSET (Messages \cup Changes)]

Fresh == [version |-> 0, has |-> {}]

Holder == {"none", "tick"} \cup Messages

NoSession == [by |-> "none", read |-> Fresh]

Logged == {log[i] : i \in DOMAIN log}

RowTypeOK ==
    /\ row \in Row
    /\ session \in [by : Holder, read : Row]
    /\ log \in Seq(Messages)
    /\ changed \subseteq Changes

RowInit ==
    /\ row = Fresh
    /\ session = NoSession
    /\ log = << >>
    /\ changed = {}

-----------------------------------------------------------------------------
(* RuntimeProjection.write(): the whole row, under the next version.       *)
Replaced(has) == [version |-> row.version + 1, has |-> has]

Write(has) ==
    /\ row.version < MaxVersion
    /\ row' = Replaced(has)

(* The version check of write(), for a writer that expects what it read.   *)
Current == session.read.version = row.version

(* The write session is taken and the row is read, before the transaction. *)
Begins(h) ==
    /\ session.by = "none"
    /\ session' = [by |-> h, read |-> row]
    /\ UNCHANGED <<row, log, changed>>

(* A tick over no time, a redelivered message, a VersionConflict or any    *)
(* other exception, which rolls the transaction back, and a crash: the     *)
(* session ends and nothing else happens.                                  *)
Abandons ==
    /\ session.by # "none"
    /\ session' = NoSession
    /\ UNCHANGED <<row, log, changed>>

(* _lazy_tick(): the row as it was read is written back with time applied  *)
(* to it.  It expects the version it has just read again (line 707), so    *)
(* this write is never refused.                                            *)
TickCommits ==
    /\ session.by = "tick"
    /\ Write(session.read.has)
    /\ session' = NoSession
    /\ UNCHANGED <<log, changed>>

(* Mutant: the version a message expects is not compared.                  *)
MessageCommitsBlind(m) ==
    /\ session.by = m /\ m \notin Logged
    /\ log' = Append(log, m)
    /\ Write(session.read.has \cup {m})
    /\ session' = NoSession
    /\ UNCHANGED changed

(* Mutant: a message reads and writes in one transaction, as the reducer   *)
(* does, and takes no session.                                             *)
MessageCommitsUnguarded(m) ==
    /\ m \notin Logged
    /\ log' = Append(log, m)
    /\ Write(row.has \cup {m})
    /\ UNCHANGED <<session, changed>>

(* process_user_message(): the event, everything derived from it and the   *)
(* row, in one transaction.                                                *)
MessageCommits(m) ==
    /\ session.by = m /\ m \notin Logged
    /\ Current
    /\ log' = Append(log, m)
    /\ Write(session.read.has \cup {m})
    /\ session' = NoSession
    /\ UNCHANGED changed

(* A transaction of the reducer: mark_delivered(), process_proposal().     *)
(* X is empty for the many that only move the version on.                  *)
ReducerWrites(X) ==
    /\ Write(row.has \cup X)
    /\ changed' = changed \cup X
    /\ UNCHANGED <<session, log>>

RowNext ==
    \/ \E h \in {"tick"} \cup Messages : Begins(h)
    \/ Abandons
    \/ TickCommits
    \/ \E m \in Messages : MessageCommits(m)
    \/ \E X \in SUBSET Changes : ReducerWrites(X)

RowSpec == RowInit /\ [][RowNext]_rowVars

-----------------------------------------------------------------------------
(* Properties.                                                             *)

(* What a message did to the state is still there, whatever ticks and      *)
(* reports were under way when it was ingested: the row shows every message*)
(* of the log (process_user_message, _lazy_tick: one write session each).  *)
MessagesAreKept == Logged \subseteq row.has

(* Only a tick ever takes something out of the row, and it takes only what *)
(* a reducer transaction put there since the tick read it; every other     *)
(* writer builds on what is stored, or is refused (VersionConflict).       *)
OnlyTicksOverwrite ==
    [][row.has \subseteq row'.has
       \/ /\ session.by = "tick"
          /\ row.has \ row'.has \subseteq Changes \ session.read.has]_rowVars

(* runtime/README.md: every write carries an optimistic check, and a       *)
(* mismatch is a conflict; test_integration_scenarios.py: "Optimistic      *)
(* concurrency reports a conflict instead of losing a write".              *)
NoWriteIsLost == changed \subseteq row.has
=============================================================================

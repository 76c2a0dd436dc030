---------------------------- MODULE ConnectionLog ----------------------------
(***************************************************************************)
(* The connection log of the server: the memory ring, the file with its    *)
(* rotation, the database with its retention, and the composite of file    *)
(* and database, behind log_event and the hourly cleanup task.             *)
(*                                                                         *)
(* The event loop, the connection cleanup and the log cleanup are callers  *)
(* that run at the same time.  The file logger awaits file operations      *)
(* between its lock regions, so each lock region and each file operation   *)
(* is one step.  Any file operation may fail.  The process may crash and   *)
(* start again: what sits in the BufWriter is gone then.                   *)
(*                                                                         *)
(* Events are numbered as they are made; a file's size is its number of    *)
(* events on disk.  Files are numbered as the rotation numbers them: 0 is  *)
(* the log itself, i is log.i.                                             *)
(***************************************************************************)
EXTENDS Naturals, Sequences, SequencesExt, FiniteSets

CONSTANTS Callers,
          Modes,        \* ConnectionLogMode values the server is started with
          MaxFiles,     \* max_files of the file logger
          MaxSize,      \* max_size, in events
          FlushEvery,   \* events between two automatic flushes (100)
          MaxMemory,    \* max_events of the memory logger
          Retentions,   \* retention_days values, in ticks; 0 keeps for ever
          PurgeEvery,   \* inserts between two automatic purges (1000)
          Round,        \* ticks per hour, the grain of rounded timestamps
          MaxEvents,    \* bound on the events made and the crashes, per mode
          MaxTime,      \* bound on the clock, per mode
          MaxCrashes,   \* bound on the crashes
          None

ASSUME ConstantsAssumption ==
    /\ MaxFiles \in Nat \ {0} /\ MaxSize \in Nat \ {0} /\ FlushEvery \in Nat \ {0}
    /\ PurgeEvery \in Nat \ {0} /\ Round \in Nat \ {0} /\ MaxMemory \in Nat \ {0}
    /\ Retentions \subseteq Nat
    /\ Modes \subseteq {"memory", "file", "database", "both"}
    /\ MaxEvents \in [Modes -> Nat] /\ MaxTime \in [Modes -> Nat] /\ MaxCrashes \in Nat

VARIABLES mode, retention,  \* configuration
          now, made,        \* the clock; when each event was made
          memory,           \* the ring of the memory logger
          files,            \* contents on disk; None when there is no such file
          writer,           \* the BufWriter: the file it writes to and its buffer
          pending,
          db, stored, total, \* rows now and ever; total_logged of the database
          caller,
          written, acked,   \* events a backend took, in order; calls that were Ok
          crashes,
          lost,             \* events of a buffer or ring that was never written out
          replaced,         \* events of a file, not the oldest, that another took over
          disturbed         \* two rotations were under way at once, or a rename failed

vars == <<mode, retention, now, made, memory, files, writer, pending, db, stored,
          total, caller, written, acked, crashes, lost, replaced, disturbed>>

config == <<mode, retention, now, crashes>>
losses == <<lost, replaced, disturbed>>
fileVars == <<files, writer, pending, losses>>
dbVars == <<db, stored, total>>

FileNos == 0 .. MaxFiles - 1
Writer == [at : FileNos \cup {None}, buf : Seq(Nat)]

ASSUME NoneAssumption == None \notin Nat \cup Seq(Nat) \cup Writer

UsesFile == mode \in {"file", "both"}
UsesDb == mode \in {"database", "both"}

Idle == [pc |-> "idle", ev |-> None, i |-> 0, failed |-> FALSE]

At(c, pc) == caller[c].pc = pc
Goto(c, pc) == caller' = [caller EXCEPT ![c].pc = pc]

Rotating(c) == caller[c].pc \in {"close", "rename", "open"}

-----------------------------------------------------------------------------
(* The writer of the file logger *)

(* The files once the writer's buffer is flushed. *)
Flushed == IF writer = None \/ writer.at = None THEN files
           ELSE [files EXCEPT ![writer.at] = @ \o writer.buf]

(* What a file holds, or the memory, which counts as file 0. *)
Part(i) ==
    IF mode = "memory" THEN IF i = 0 THEN memory ELSE <<>>
    ELSE IF files[i] = None THEN <<>>
    ELSE IF writer # None /\ writer.at = i THEN files[i] \o writer.buf
    ELSE files[i]

(* The events that are gone when the file log.i is: those of the oldest    *)
(* file are what a rotation may lose.                                      *)
Middle(i) == IF i < MaxFiles - 1 THEN ToSet(Part(i)) ELSE {}

(* Mutant of open_file: the file is truncated instead of appended to. *)
OpenTruncating(fs) ==
    [files |-> [fs EXCEPT ![0] = <<>>], writer |-> [at |-> 0, buf |-> <<>>]]

(* open_file: the log is created or appended to, with an empty buffer.     *)
open_file(fs) ==
    [files |-> [fs EXCEPT ![0] = IF @ = None THEN <<>> ELSE @],
     writer |-> [at |-> 0, buf |-> <<>>]]

-----------------------------------------------------------------------------
(* log_event *)

(* anonymize: the timestamp of an event is rounded down to its hour. *)
anonymize(time) == (time \div Round) * Round

(* MemoryConnectionLogger::log, one lock region. *)
LogMemory(c) ==
    LET n == Len(made) + 1
    IN  /\ mode = "memory" /\ At(c, "idle") /\ Len(made) + crashes < MaxEvents[mode]
        /\ made' = Append(made, now)
        /\ memory' = IF Len(memory) >= MaxMemory
                     THEN Append(Tail(memory), n) ELSE Append(memory, n)
        /\ written' = Append(written, n) /\ acked' = acked \cup {n}
        /\ UNCHANGED <<config, fileVars, dbVars, caller>>

(* log of the file, database and composite loggers is called. *)
Log(c) ==
    /\ mode # "memory" /\ At(c, "idle") /\ Len(made) + crashes < MaxEvents[mode]
    /\ made' = Append(made, now)
    /\ caller' = [caller EXCEPT ![c].ev = Len(made) + 1,
                                ![c].pc = IF UsesFile THEN "stat" ELSE "insert"]
    /\ UNCHANGED <<config, memory, fileVars, dbVars, written, acked>>

(* The hourly cleanup task runs. *)
Cleanup(c) ==
    /\ mode # "memory" /\ At(c, "idle")
    /\ \A d \in Callers : caller[d].pc # "idle" => caller[d].ev # None
    /\ Goto(c, IF UsesFile THEN "stat" ELSE "purge")
    /\ UNCHANGED <<config, made, memory, fileVars, dbVars, written, acked>>

(* A caller is done with the file; ok tells whether it succeeded.  A log    *)
(* goes on to the database whatever happened (CompositeLogger::log), a      *)
(* cleanup only after a success.                                            *)
LeaveFile(c, ok) ==
    LET ev == caller[c].ev IN
    IF ev = None
    THEN /\ caller' = [caller EXCEPT ![c] = IF ok /\ UsesDb THEN [Idle EXCEPT !.pc = "purge"]
                                                            ELSE Idle]
         /\ UNCHANGED acked
    ELSE IF UsesDb
    THEN /\ caller' = [caller EXCEPT ![c].pc = "insert", ![c].failed = ~ok]
         /\ UNCHANGED acked
    ELSE /\ caller' = [caller EXCEPT ![c] = Idle]
         /\ acked' = IF ok THEN acked \cup {ev} ELSE acked

-----------------------------------------------------------------------------
(* rotate_if_needed *)

(* The size of the log is looked at. *)
Stat(c) ==
    /\ At(c, "stat")
    /\ IF files[0] # None /\ Len(files[0]) >= MaxSize
       THEN /\ Goto(c, "close")
            /\ disturbed' = (disturbed \/ \E d \in Callers : Rotating(d))
            /\ UNCHANGED acked
       ELSE /\ UNCHANGED disturbed
            /\ IF caller[c].ev # None THEN Goto(c, "write") /\ UNCHANGED acked
                                      ELSE LeaveFile(c, TRUE)
    /\ UNCHANGED <<config, made, memory, files, writer, pending, lost, replaced,
                   dbVars, written>>

(* The current file is flushed and closed; if the flush fails, it stays     *)
(* open and the rotation ends.                                              *)
Close(c) ==
    /\ At(c, "close")
    /\ \/ /\ files' = Flushed /\ writer' = None
          /\ caller' = [caller EXCEPT ![c].pc = "rename", ![c].i = MaxFiles - 1]
          /\ UNCHANGED acked
       \/ /\ writer # None
          /\ LeaveFile(c, FALSE) /\ UNCHANGED <<files, writer>>
    /\ UNCHANGED <<config, made, memory, pending, losses, dbVars, written>>

(* log.(i-1) becomes log.i, for i from max_files - 1 down to 1; an open     *)
(* writer moves along with its file; one whose file is replaced would write *)
(* to no file at all.  A rename that fails is ignored.  The file            *)
(* log.max_files that is deleted next never exists.                         *)
Rename(c) ==
    LET i == caller[c].i IN
    /\ At(c, "rename") /\ i > 0
    /\ caller' = [caller EXCEPT ![c].i = i - 1]
    /\ \/ /\ files[i - 1] = None
          /\ UNCHANGED <<files, writer, replaced, disturbed>>
       \/ /\ files[i - 1] # None
          /\ files' = [files EXCEPT ![i] = files[i - 1], ![i - 1] = None]
          /\ writer' = IF writer = None THEN None
                       ELSE [writer EXCEPT !.at = CASE @ = i - 1 -> i
                                                    [] @ = i -> None
                                                    [] OTHER -> @]
          /\ replaced' = replaced \cup Middle(i)
          /\ UNCHANGED disturbed
       \/ /\ files[i - 1] # None
          /\ disturbed' = TRUE
          /\ UNCHANGED <<files, writer, replaced>>
    /\ UNCHANGED <<config, made, memory, pending, lost, dbVars, written, acked>>

(* secure_delete_file, when secure_delete is on: the file that is about to  *)
(* be replaced is overwritten and then, after an await, removed.            *)
Shred(c) ==
    LET i == caller[c].i IN
    /\ At(c, "rename") /\ i > 0
    /\ files[i - 1] # None /\ files[i] # None
    /\ files' = [files EXCEPT ![i] = IF @ = <<>> THEN None ELSE <<>>]
    /\ replaced' = replaced \cup Middle(i)
    /\ UNCHANGED <<config, made, memory, writer, pending, lost, disturbed, dbVars,
                   caller, written, acked>>

Renamed(c) ==
    /\ At(c, "rename") /\ caller[c].i = 0
    /\ Goto(c, "open")
    /\ UNCHANGED <<config, made, memory, fileVars, dbVars, written, acked>>

(* The new log is opened.  A writer another rotation opened meanwhile is    *)
(* dropped, which flushes it; nobody learns when that flush fails.          *)
Open(c) ==
    /\ At(c, "open")
    /\ \E fs \in {Flushed, files} :
          /\ files' = open_file(fs).files /\ writer' = open_file(fs).writer
          /\ lost' = IF fs = Flushed THEN lost ELSE lost \cup ToSet(writer.buf)
    /\ IF caller[c].ev # None THEN Goto(c, "write") /\ UNCHANGED acked
                              ELSE LeaveFile(c, TRUE)
    /\ UNCHANGED <<config, made, memory, pending, replaced, disturbed, dbVars, written>>

(* secure_delete_file fails, before, between or after its writes, or the    *)
(* open does: the rotation ends with an error and with the writer closed.   *)
RotationFails(c) ==
    /\ caller[c].pc \in {"rename", "open"}
    /\ LeaveFile(c, FALSE)
    /\ UNCHANGED <<config, made, memory, fileVars, dbVars, written>>

-----------------------------------------------------------------------------
(* write_event: an error when another caller's rotation has the file       *)
(* closed, or when the BufWriter must make room and cannot.                *)
Write(c) ==
    /\ At(c, "write")
    /\ \/ /\ writer # None
          /\ writer' = [writer EXCEPT !.buf = Append(@, caller[c].ev)]
          /\ pending' = pending + 1
          /\ written' = Append(written, caller[c].ev)
          /\ Goto(c, "flush") /\ UNCHANGED acked
       \/ LeaveFile(c, FALSE) /\ UNCHANGED <<writer, pending, written>>
    /\ UNCHANGED <<config, made, memory, files, losses, dbVars>>

(* The automatic flush at the end of log; log fails with it. *)
Flush(c) ==
    /\ At(c, "flush")
    /\ \/ /\ pending >= FlushEvery /\ writer # None
          /\ files' = Flushed /\ writer' = [writer EXCEPT !.buf = <<>>]
          /\ pending' = 0
          /\ LeaveFile(c, TRUE)
       \/ /\ pending >= FlushEvery /\ writer # None
          /\ LeaveFile(c, FALSE) /\ UNCHANGED <<files, writer, pending>>
       \/ /\ pending < FlushEvery \/ writer = None
          /\ LeaveFile(c, TRUE) /\ UNCHANGED <<files, writer, pending>>
    /\ UNCHANGED <<config, made, memory, losses, dbVars, written>>

(* The BufWriter is full and writes its oldest event out by itself, or a    *)
(* flush gets that far before it fails.                                     *)
Spill ==
    /\ writer # None /\ writer.at # None /\ writer.buf # <<>>
    /\ files' = [files EXCEPT ![writer.at] = Append(@, Head(writer.buf))]
    /\ writer' = [writer EXCEPT !.buf = Tail(@)]
    /\ UNCHANGED <<config, made, memory, pending, losses, dbVars, caller, written, acked>>

-----------------------------------------------------------------------------
(* The database *)

(* Mutant of CompositeOk: the database alone decides. *)
CompositeOkAlways(c, ok) == TRUE

(* The composite's log fails only when both backends failed. *)
CompositeOk(c, ok) == ok \/ (mode = "both" /\ ~caller[c].failed)

(* insert_event, and the decision to purge after it. *)
Insert(c) ==
    LET ev == caller[c].ev
        Acked(ok) == acked' = IF CompositeOk(c, ok) THEN acked \cup {ev} ELSE acked
    IN
    /\ At(c, "insert")
    /\ \/ /\ db' = db \cup {[id |-> ev, timestamp |-> anonymize(made[ev])]}
          /\ stored' = stored \cup {ev} /\ total' = total + 1
          /\ Acked(TRUE)
          /\ caller' = [caller EXCEPT ![c] =
                IF (total + 1) % PurgeEvery = 0 THEN [Idle EXCEPT !.pc = "purge"] ELSE Idle]
       \/ /\ Acked(FALSE)
          /\ caller' = [caller EXCEPT ![c] = Idle]
          /\ UNCHANGED dbVars
    /\ UNCHANGED <<config, made, memory, fileVars, written>>

(* Mutant of Old: a retention of 0 is not an exception. *)
OldWithoutZero(row) == row.timestamp + retention < now

(* What purge_old_events deletes. *)
Old(row) == retention # 0 /\ row.timestamp + retention < now

(* purge_old_events (and VACUUM in cleanup). *)
Purge(c) ==
    /\ At(c, "purge")
    /\ db' = {row \in db : ~Old(row)}
    /\ caller' = [caller EXCEPT ![c] = Idle]
    /\ UNCHANGED <<config, made, memory, fileVars, stored, total, written, acked>>

-----------------------------------------------------------------------------
Tick ==
    /\ UsesDb /\ now < MaxTime[mode]
    /\ now' = now + 1
    /\ UNCHANGED <<mode, retention, crashes, made, memory, fileVars, dbVars, caller,
                   written, acked>>

(* The process dies and create_logger runs again: files and rows are what  *)
(* they were, load_stats counts the rows.                                  *)
Crash ==
    LET opened == open_file(files) IN
    /\ crashes < MaxCrashes /\ Len(made) + crashes < MaxEvents[mode]
    /\ crashes' = crashes + 1
    /\ caller' = [c \in Callers |-> Idle]
    /\ lost' = lost \cup ToSet(memory)
                    \cup (IF writer = None THEN {} ELSE ToSet(writer.buf))
    /\ memory' = <<>> /\ pending' = 0 /\ total' = Cardinality(db)
    /\ IF UsesFile THEN files' = opened.files /\ writer' = opened.writer
                   ELSE UNCHANGED <<files, writer>>
    /\ UNCHANGED <<mode, retention, now, made, db, stored, written, acked, replaced,
                   disturbed>>

Init ==
    /\ mode \in Modes
    /\ retention \in IF UsesDb THEN Retentions ELSE {0}
    /\ now = 0 /\ made = <<>> /\ memory = <<>>
    /\ files = [i \in FileNos |-> IF i = 0 /\ UsesFile THEN <<>> ELSE None]
    /\ writer = IF UsesFile THEN [at |-> 0, buf |-> <<>>] ELSE None
    /\ pending = 0 /\ db = {} /\ stored = {} /\ total = 0
    /\ caller = [c \in Callers |-> Idle]
    /\ written = <<>> /\ acked = {} /\ crashes = 0
    /\ lost = {} /\ replaced = {} /\ disturbed = FALSE

Step(c) ==
    \/ LogMemory(c) \/ Log(c) \/ Cleanup(c)
    \/ Stat(c) \/ Close(c) \/ Rename(c) \/ Shred(c) \/ Renamed(c)
    \/ Open(c) \/ RotationFails(c)
    \/ Write(c) \/ Flush(c)
    \/ Insert(c) \/ Purge(c)

Next == (\E c \in Callers : Step(c)) \/ Spill \/ Tick \/ Crash

Spec == Init /\ [][Next]_vars

-----------------------------------------------------------------------------
Kept == UNION {ToSet(Part(i)) : i \in FileNos}

(* The event d was written before e. *)
Before(d, e) == \E k, l \in DOMAIN written : k < l /\ written[k] = d /\ written[l] = e

(* Gone for another reason than being the oldest. *)
Gone == lost \cup replaced

(* Rotation, restarts, failing file operations and interleaved callers lose *)
(* no event but the oldest, those that sat in a buffer, and those of a file *)
(* that was replaced before its turn: what is kept was written and not lost *)
(* in such a way, is in the order in which it was written, from the last    *)
(* file to the first, and with an event all that were written after it are  *)
(* kept as well.  No file is replaced before its turn unless two rotations  *)
(* were under way at once or a rename failed.                               *)
KeptIsSuffix ==
    /\ Kept \subseteq ToSet(written) \ Gone
    /\ \A i, j \in FileNos : \A p \in DOMAIN Part(i), q \in DOMAIN Part(j) :
          i > j \/ (i = j /\ p < q) => Before(Part(i)[p], Part(j)[q])
    /\ \A k, l \in DOMAIN written :
          k < l /\ written[k] \in Kept => written[l] \in Kept \cup Gone
    /\ replaced # {} => disturbed

(* A call of log that returned Ok left its event with at least one backend, *)
(* though a rotation of another caller may have closed the file under it    *)
(* and the database may refuse it.                                          *)
AckedIsTaken ==
    acked \subseteq ToSet(written) \cup stored

(* The purge takes only what is older than the retention, up to the hour    *)
(* by which a timestamp was rounded down, and nothing when the retention    *)
(* is 0.                                                                    *)
PurgedIsOld ==
    [][\A row \in db \ db' : retention # 0 /\ made[row.id] + retention < now + Round]_vars
=============================================================================

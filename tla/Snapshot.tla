------------------------------ MODULE Snapshot ------------------------------
(***************************************************************************)
(* Snapshots (snapshot.go, auto-save and Close in cache.go): SaveFile by   *)
(* the auto-save goroutine, by a caller and by Close, all to one path,     *)
(* LoadFile by a caller and at the start, and a process that may crash at  *)
(* any time.  A shard holds the number of the last write to it, and a      *)
(* snapshot one number per shard, taken shard by shard.                    *)
(***************************************************************************)
EXTENDS Naturals

CONSTANTS
    Shard,
    MaxWrites,   \* bound: writes
    MaxSaves,    \* bound: saves by callers and by auto-save
    MaxFaults    \* bound: crashes and failing file operations

Saver == {"auto", "user", "close"}

VARIABLES
    mem,         \* [Shard -> number]: what the shards hold
    pending,     \* [Shard -> number]: acknowledged async writes, 0 for none
    save,        \* [Saver -> the saveFileTo under way]
    load,        \* the LoadFile under way
    temp,        \* [Saver -> its temporary file]
    file,        \* the file at path
    close,       \* the step of Cache.Close
    writes, saves, faults,
    current,     \* history: what each shard was to hold at the call of Close
                 \* and since
    final        \* history: the final save of Close put its file at path

vars == <<mem, pending, save, load, temp, file, close, writes, saves, faults, current, final>>

Nothing == [s \in Shard |-> 0]

(* A file: whether it is there, what was written to it, whether that is on *)
(* disk for sure, and who put it at path.                                  *)
NoFile == [there |-> FALSE, whole |-> TRUE, synced |-> TRUE, data |-> Nothing, by |-> "none"]

NoSave == [pc |-> "idle", todo |-> {}, staged |-> Nothing]

NoLoad == [pc |-> "idle", todo |-> {}, data |-> Nothing]

Start(m) ==
    /\ mem = m /\ pending = Nothing
    /\ save = [v \in Saver |-> NoSave]
    /\ load = NoLoad
    /\ close = "no"

Init ==
    /\ Start(Nothing)
    /\ temp = [v \in Saver |-> NoFile] /\ file = NoFile
    /\ writes = 0 /\ saves = 0 /\ faults = 0
    /\ current = [s \in Shard |-> {0}] /\ final = FALSE

disk == <<temp, file>>

-----------------------------------------------------------------------------
(* The writes of callers.                                                  *)

Sealed == close \in {"reset", "done"}

(* History of the numbers a final snapshot may hold.                       *)
Noted(s, n) == [current EXCEPT ![s] = IF close = "no" THEN {n} ELSE @ \cup {n}]

(* A write that is under way when Close is called may still be made until  *)
(* the cache is sealed; enqueuePending refuses once it is closed.          *)
Set(s) ==
    /\ ~Sealed /\ writes < MaxWrites
    /\ writes' = writes + 1
    /\ \/ /\ mem' = [mem EXCEPT ![s] = writes']
          /\ pending' = [pending EXCEPT ![s] = 0]
       \/ /\ close = "no"
          /\ pending' = [pending EXCEPT ![s] = writes']
          /\ UNCHANGED mem
    /\ current' = Noted(s, writes')
    /\ UNCHANGED <<save, load, disk, close, saves, faults, final>>

ApplicableUntilClose(s) == pending[s] # 0 /\ close \in {"no", "autosave"}

Applicable(s) == pending[s] # 0

(* The apply goroutine, which on the stop signal goes on until its queue   *)
(* is empty.                                                               *)
Apply(s) ==
    /\ Applicable(s)
    /\ mem' = [mem EXCEPT ![s] = pending[s]]
    /\ pending' = [pending EXCEPT ![s] = 0]
    /\ UNCHANGED <<save, load, disk, close, writes, saves, faults, current, final>>

-----------------------------------------------------------------------------
(* saveFileTo: a temporary file, the shards one by one, flush, fsync and   *)
(* rename; an error removes the temporary file.                            *)

SaveAt(v, pc) == save[v].pc = pc

CreateTemp(v) ==
    /\ save' = [save EXCEPT ![v] = [NoSave EXCEPT !.pc = "collect", !.todo = Shard]]
    /\ temp' = [temp EXCEPT ![v] = [NoFile EXCEPT !.there = TRUE, !.whole = FALSE]]

(* SaveFile refuses a closed cache; saveFileTo does not.                   *)
SaveFile(v) ==
    /\ v # "close" /\ SaveAt(v, "idle") /\ close = "no" /\ saves < MaxSaves
    /\ saves' = saves + 1
    /\ CreateTemp(v)
    /\ UNCHANGED <<mem, pending, load, file, close, writes, faults, current, final>>

SnapshotEntries(v) ==
    /\ SaveAt(v, "collect")
    /\ \E s \in save[v].todo :
         save' = [save EXCEPT ![v] = [pc |-> IF @.todo = {s} THEN "flush" ELSE "collect",
                                      todo |-> @.todo \ {s},
                                      staged |-> [@.staged EXCEPT ![s] = mem[s]]]]
    /\ UNCHANGED <<mem, pending, load, disk, close, writes, saves, faults, current, final>>

Flush(v) ==
    /\ SaveAt(v, "flush")
    /\ temp' = [temp EXCEPT ![v] = [there |-> TRUE, whole |-> TRUE, synced |-> FALSE,
                                    data |-> save[v].staged, by |-> v]]
    /\ save' = [save EXCEPT ![v].pc = "sync"]
    /\ UNCHANGED <<mem, pending, load, file, close, writes, saves, faults, current, final>>

SyncNothing(v) == temp[v]

Synced(v) == [temp[v] EXCEPT !.synced = TRUE]

Sync(v) ==
    /\ SaveAt(v, "sync")
    /\ temp' = [temp EXCEPT ![v] = Synced(v)]
    /\ save' = [save EXCEPT ![v].pc = "rename"]
    /\ UNCHANGED <<mem, pending, load, file, close, writes, saves, faults, current, final>>

Rename(v) ==
    /\ SaveAt(v, "rename")
    /\ file' = temp[v]
    /\ temp' = [temp EXCEPT ![v] = NoFile]
    /\ save' = [save EXCEPT ![v] = NoSave]
    /\ final' = (final \/ v = "close")
    /\ UNCHANGED <<mem, pending, load, close, writes, saves, faults, current>>

(* Writing, flushing, syncing, closing or renaming fails.                  *)
SaveFails(v) ==
    /\ save[v].pc \in {"flush", "sync", "rename"} /\ faults < MaxFaults
    /\ faults' = faults + 1
    /\ temp' = [temp EXCEPT ![v] = NoFile]
    /\ save' = [save EXCEPT ![v] = NoSave]
    /\ UNCHANGED <<mem, pending, load, file, close, writes, saves, current, final>>

-----------------------------------------------------------------------------
(* LoadFile and Merge read and check the whole file first; LoadFile then   *)
(* resets the cache; then the records are applied one by one.              *)

LoadInto ==
    /\ load.pc = "idle" /\ close = "no" /\ saves < MaxSaves
    /\ file.there /\ file.whole
    /\ saves' = saves + 1
    /\ \E pc \in {"pending", "apply"} : load' = [pc |-> pc, todo |-> Shard, data |-> file.data]
    /\ UNCHANGED <<mem, pending, save, disk, close, writes, faults, current, final>>

(* Reset applies what is queued before it empties the shards one by one.   *)
ApplyAllPending ==
    /\ load.pc = "pending"
    /\ mem' = [s \in Shard |-> IF pending[s] = 0 THEN mem[s] ELSE pending[s]]
    /\ pending' = Nothing
    /\ load' = [load EXCEPT !.pc = "reset"]
    /\ UNCHANGED <<save, disk, close, writes, saves, faults, current, final>>

(* A shard loses its entries, or gets a record: what is queued comes after.*)
Put(s, n) ==
    /\ mem' = [mem EXCEPT ![s] = n]
    /\ current' = Noted(s, IF pending[s] = 0 THEN n ELSE pending[s])

LoadReset ==
    /\ load.pc = "reset"
    /\ \E s \in load.todo :
         /\ Put(s, 0)
         /\ load' = IF load.todo = {s} THEN [load EXCEPT !.pc = "apply", !.todo = Shard]
                    ELSE [load EXCEPT !.todo = @ \ {s}]
    /\ UNCHANGED <<pending, save, disk, close, writes, saves, faults, final>>

ApplySnapshot ==
    /\ load.pc = "apply"
    /\ \E s \in load.todo :
         /\ IF Sealed \/ load.data[s] = 0 THEN UNCHANGED <<mem, current>>
            ELSE Put(s, load.data[s])
         /\ load' = IF load.todo = {s} THEN NoLoad ELSE [load EXCEPT !.todo = @ \ {s}]
    /\ UNCHANGED <<pending, save, disk, close, writes, saves, faults, final>>

-----------------------------------------------------------------------------
(* Close.                                                                  *)

CloseBegin ==
    /\ close = "no"
    /\ close' = "autosave"
    /\ UNCHANGED <<mem, pending, save, load, disk, writes, saves, faults, current, final>>

AutoSaveUnwaited == TRUE

(* The auto-save goroutine has seen the stop signal between two saves.     *)
AutoSaveDone == SaveAt("auto", "idle")

StopAutoSave ==
    /\ close = "autosave" /\ AutoSaveDone
    /\ close' = "drain"
    /\ UNCHANGED <<mem, pending, save, load, disk, writes, saves, faults, current, final>>

(* stopAsyncApply waits until nothing is pending; then the final save.     *)
StopAsyncApply ==
    /\ close = "drain" /\ pending = Nothing
    /\ close' = "save"
    /\ CreateTemp("close")
    /\ UNCHANGED <<mem, pending, load, file, writes, saves, faults, current, final>>

(* An error of the final save is logged only.                              *)
Seal ==
    /\ close = "save" /\ SaveAt("close", "idle")
    /\ close' = "reset"
    /\ UNCHANGED <<mem, pending, save, load, disk, writes, saves, faults, current, final>>

Reset ==
    /\ close = "reset"
    /\ mem' = Nothing
    /\ close' = "done"
    /\ UNCHANGED <<pending, save, load, disk, writes, saves, faults, current, final>>

-----------------------------------------------------------------------------
(* A crash loses the memory and may tear what was not synced; then New     *)
(* loads the file (applyAutoLoad).  The temporary files left behind have   *)
(* names no later save uses.                                               *)
Torn(f, tears) == [f EXCEPT !.whole = @ /\ (f.synced \/ ~tears), !.synced = TRUE]

Crash ==
    /\ faults < MaxFaults
    /\ faults' = faults + 1
    /\ final' = FALSE
    /\ \E tears \in BOOLEAN :
         /\ file' = Torn(file, tears)
         /\ temp' = [v \in Saver |-> NoFile]
    /\ mem' = IF file'.there /\ file'.whole THEN file'.data ELSE Nothing
    /\ pending' = Nothing /\ save' = [v \in Saver |-> NoSave] /\ load' = NoLoad
    /\ close' = "no"
    /\ current' = [s \in Shard |-> {mem'[s]}]
    /\ UNCHANGED <<writes, saves>>

SaveStep(v) == SnapshotEntries(v) \/ Flush(v) \/ Sync(v) \/ Rename(v)
LoadStep == ApplyAllPending \/ LoadReset \/ ApplySnapshot
CloseStep == StopAutoSave \/ StopAsyncApply \/ Seal \/ Reset

Next ==
    \/ \E s \in Shard : Set(s) \/ Apply(s)
    \/ \E v \in Saver : SaveFile(v) \/ SaveStep(v) \/ SaveFails(v)
    \/ LoadInto \/ LoadStep
    \/ CloseBegin \/ CloseStep
    \/ Crash

Proceed ==
    \/ \E s \in Shard : Apply(s)
    \/ \E v \in Saver : SaveStep(v)
    \/ LoadStep \/ CloseStep

(* While some goroutine can go on with what it has begun, one of them      *)
(* does; nobody has to call, and nothing has to fail.                      *)
Fairness == WF_vars(Proceed)

Spec == Init /\ [][Next]_vars /\ Fairness

-----------------------------------------------------------------------------
(* Properties.                                                             *)

(* "Readers see either the prior or new snapshot, never torn" (SaveFile):  *)
(* also after a crash the file at path is whole, so New can load it.       *)
NeverTorn == file.whole

(* No save leaves its temporary file behind, whichever of its steps fails. *)
TempsRemoved == \A v \in Saver : temp[v].there => ~SaveAt(v, "idle")

(* "The final on-disk state reflects every Set/Delete the caller returned  *)
(* from" (Close): after Close the file holds, for every shard, the state   *)
(* of the moment Close was called or a later one, unless the final save    *)
(* failed or a caller's own SaveFile renamed its file last.                *)
FinalSaveCurrent ==
    Sealed /\ final /\ file.by # "user" => \A s \in Shard : file.data[s] \in current[s]

(* Close has been called and has not returned.                             *)
Closing == close \notin {"no", "done"}

=============================================================================

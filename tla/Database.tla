------------------------------ MODULE Database ------------------------------
(***************************************************************************)
(* The key-value store of src/database/database.c: an in-memory hash table *)
(* behind one readers-writer lock, a write-ahead log on disk that          *)
(* database_put and database_delete append to and database_open replays,   *)
(* and transactions that buffer their writes until the commit.             *)
(*                                                                         *)
(* The chained hash table is the map it implements.  A logged write is     *)
(* three steps under the write lock (write, fsync, apply), because the     *)
(* process or the machine can die between them; every other operation is   *)
(* one step.  The log is a sequence of records: whole, unless a short      *)
(* write or a crash of the machine cut it, and stable once a fsync that    *)
(* succeeded covered it.  Calls that free the handle or reopen it          *)
(* (database_open, _close, _destroy) take no lock: their caller must have  *)
(* no other call under way.  database_checkpoint may come at any time.     *)
(***************************************************************************)
EXTENDS Integers, Sequences

CONSTANTS
    Keys,
    Values,
    Txns,           \* transaction handles of the application
    Levels,         \* isolation levels passed to database_begin_transaction
    None,           \* no entry under a key
    Corrupt,        \* bytes nobody wrote, read from a cut record
    MaxLog,         \* bound: records appended to one log file
    MaxBegins,      \* bound: transactions begun per process
    MaxCrashes,     \* bound: crashes
    MaxFaults,      \* bound: failed, short or torn writes, failed syncs
    MaxCheckpoints  \* bound: truncations of the log

ASSUME ValueAssumption == None \notin Values /\ Corrupt \notin Values /\ None # Corrupt
ASSUME BoundAssumption ==
    {MaxLog, MaxBegins, MaxCrashes, MaxFaults, MaxCheckpoints} \subseteq Nat

VARIABLES
    handle,         \* "none", "created", "recovering" (in database_open), "open"
    table,          \* db->table
    wal,            \* wal.log on disk
    pos,            \* records database_recover has replayed
    writer,         \* the put or delete that holds the write lock, Idle if none
    txn,            \* transactions: [live, level, writes]
    next_txn_id,
    faults, crashes, checkpoints,   \* how often each bounded event has happened
    unlogged,       \* history: keys whose last acknowledged write the log does not hold,
                    \* or that the replay of a cut record has hit since
    allowed,        \* history: key -> what may be found there if writes are durable
    reads           \* history: transaction -> key -> results it got from the table

vars == <<handle, table, wal, pos, writer, txn, next_txn_id, faults, crashes,
          checkpoints, unlogged, allowed, reads>>
bounds == <<faults, crashes, checkpoints>>

Entries == Values \cup {None, Corrupt}
Record == [type : {"PUT", "DELETE"}, key : Keys, value : Values \cup {None}, whole : BOOLEAN,
           disk : {"dirty", "failed", "stable"}]
Idle == [stage |-> "idle"]
Writer == [stage : {"written", "applying"}, type : {"PUT", "DELETE"}, key : Keys,
           value : Values \cup {None}]
EmptyTable == [k \in Keys |-> None]
NoTxn == [live |-> FALSE, level |-> None, writes |-> EmptyTable]
Txn == [live : BOOLEAN, level : Levels \cup {None}, writes : [Keys -> Values \cup {None}]]

TypeOK ==
    /\ handle \in {"none", "created", "recovering", "open"}
    /\ table \in [Keys -> Entries]
    /\ wal \in Seq(Record)
    /\ pos \in Nat
    /\ writer \in Writer \cup {Idle}
    /\ txn \in [Txns -> Txn]
    /\ next_txn_id \in Nat
    /\ faults \in 0 .. MaxFaults
    /\ crashes \in 0 .. MaxCrashes
    /\ checkpoints \in 0 .. MaxCheckpoints
    /\ unlogged \in SUBSET Keys
    /\ allowed \in [Keys -> SUBSET Entries]
    /\ reads \in [Txns -> [Keys -> SUBSET Entries]]

(* No process yet, an empty directory. *)
Init ==
    /\ handle = "none"
    /\ table = EmptyTable
    /\ wal = <<>>
    /\ pos = 0
    /\ writer = Idle
    /\ txn = [x \in Txns |-> NoTxn]
    /\ next_txn_id = 1
    /\ faults = 0 /\ crashes = 0 /\ checkpoints = 0
    /\ unlogged = {}
    /\ allowed = [k \in Keys |-> {None}]
    /\ reads = [x \in Txns |-> [k \in Keys |-> {}]]

NoCallUnderWay == writer = Idle

(* hash_table_put, and hash_table_delete with v = None, on the map that the *)
(* buckets and their chains stand for.                                      *)
Stored(t, k, v) == [t EXCEPT ![k] = v]

-----------------------------------------------------------------------------
(* The life of the handle. *)

(* database_create. *)
Create ==
    /\ handle = "none"
    /\ handle' = "created"
    /\ next_txn_id' = 1
    /\ UNCHANGED <<table, wal, pos, writer, txn, bounds, unlogged, allowed, reads>>

(* database_open up to the lseek of database_recover. *)
OpenBegin ==
    /\ handle = "created"
    /\ NoCallUnderWay
    /\ handle' = "recovering"
    /\ pos' = 0
    /\ UNCHANGED <<table, wal, writer, txn, next_txn_id, bounds, unlogged, allowed, reads>>

(* Only whole records come before the i-th and it is whole itself. *)
Readable(i) == \A j \in 1 .. i : wal[j].whole

RecoverSkippingDeletes ==
    /\ handle = "recovering"
    /\ pos < Len(wal)
    /\ wal[pos + 1].whole
    /\ table' = IF wal[pos + 1].type = "PUT"
                THEN Stored(table, wal[pos + 1].key, wal[pos + 1].value) ELSE table
    /\ unlogged' = IF Readable(pos + 1) THEN unlogged ELSE unlogged \cup {wal[pos + 1].key}
    /\ pos' = pos + 1
    /\ UNCHANGED <<handle, wal, writer, txn, next_txn_id, bounds, allowed, reads>>

(* One turn of the loop of database_recover, on a whole record. *)
RecoverRecord ==
    /\ handle = "recovering"
    /\ pos < Len(wal)
    /\ wal[pos + 1].whole
    /\ table' = Stored(table, wal[pos + 1].key, wal[pos + 1].value)
    /\ unlogged' = IF Readable(pos + 1) THEN unlogged ELSE unlogged \cup {wal[pos + 1].key}
    /\ pos' = pos + 1
    /\ UNCHANGED <<handle, wal, writer, txn, next_txn_id, bounds, allowed, reads>>

(* A cut record.  With its header incomplete the loop ends, or it reads the *)
(* next record's bytes as the rest of the header.  With its header complete *)
(* the payload is taken although read() returned fewer bytes, or the bytes  *)
(* of the records behind it.  Cut inside the key, the key is what was       *)
(* written of it, up to the next zero byte in what follows or in the buffer *)
(* that malloc left uninitialized: any key, or one that nobody uses.  A put *)
(* stores bytes nobody wrote there, a delete removes what it finds.  Then   *)
(* the next header does not start with WAL_MAGIC, or the file ends: the     *)
(* loop stops, and database_open returns.  Unless the missing bytes were as *)
(* many as the next records have: those are swallowed whole, and the loop   *)
(* goes on.  (Lengths that malloc cannot serve end the process: a Crash.)   *)
RecoverCutRecord ==
    /\ handle = "recovering"
    /\ pos < Len(wal)
    /\ ~ wal[pos + 1].whole
    /\ \/ UNCHANGED <<table, unlogged>>
       \/ \E k \in Keys :
             /\ table' = Stored(table, k, IF wal[pos + 1].type = "PUT" THEN Corrupt ELSE None)
             /\ unlogged' = unlogged \cup {k}
    /\ \/ handle' = "open" /\ pos' = pos
       \/ handle' = handle /\ pos' \in pos + 2 .. Len(wal)
    /\ UNCHANGED <<wal, writer, txn, next_txn_id, bounds, allowed, reads>>

(* read() returns 0: database_open sets is_open and returns. *)
OpenEnd ==
    /\ handle = "recovering"
    /\ pos = Len(wal)
    /\ handle' = "open"
    /\ UNCHANGED <<table, wal, pos, writer, txn, next_txn_id, bounds, unlogged, allowed, reads>>

(* What is left in memory once the log is empty. *)
InMemoryOnly == {k \in Keys : table[k] # None}

(* database_checkpoint truncates the log and writes the table nowhere; when *)
(* ftruncate fails nothing changes.                                         *)
Checkpoint ==
    /\ handle = "open"
    /\ checkpoints < MaxCheckpoints
    /\ wal' = <<>>
    /\ unlogged' = unlogged \cup InMemoryOnly
    /\ checkpoints' = checkpoints + 1
    /\ UNCHANGED <<handle, table, pos, writer, txn, next_txn_id, faults, crashes, allowed, reads>>

(* The checkpoint of database_close, which goes on when ftruncate failed. *)
TruncateOrFail ==
    \/ wal' = <<>> /\ faults' = faults
    \/ wal' = wal /\ faults < MaxFaults /\ faults' = faults + 1

(* database_close: a checkpoint, then the log is closed; the table stays. *)
Close ==
    /\ handle = "open"
    /\ NoCallUnderWay
    /\ checkpoints < MaxCheckpoints
    /\ TruncateOrFail
    /\ unlogged' = unlogged \cup InMemoryOnly
    /\ checkpoints' = checkpoints + 1
    /\ handle' = "created"
    /\ UNCHANGED <<table, pos, writer, txn, next_txn_id, crashes, allowed, reads>>

(* database_destroy, with no transaction left that points to the handle: an *)
(* open database is closed first, and the table is freed.                   *)
Destroy ==
    /\ NoCallUnderWay
    /\ \A x \in Txns : ~ txn[x].live
    /\ \/ handle = "created" /\ UNCHANGED <<wal, faults, checkpoints, unlogged>>
       \/ /\ handle = "open"
          /\ checkpoints < MaxCheckpoints
          /\ TruncateOrFail
          /\ unlogged' = unlogged \cup InMemoryOnly
          /\ checkpoints' = checkpoints + 1
    /\ handle' = "none"
    /\ table' = EmptyTable
    /\ UNCHANGED <<pos, writer, txn, next_txn_id, crashes, allowed, reads>>

-----------------------------------------------------------------------------
(* database_put and database_delete. *)

ToRecord(w, whole, disk) ==
    [type |-> w.type, key |-> w.key, value |-> w.value, whole |-> whole, disk |-> disk]

(* The write lock is taken and the record written.  The result of write()   *)
(* is not looked at: it may have written a part, or nothing.                *)
WriteLog(type, k, v) ==
    /\ handle = "open"
    /\ NoCallUnderWay
    /\ Len(wal) < MaxLog
    /\ writer' = [stage |-> "written", type |-> type, key |-> k, value |-> v]
    /\ \/ wal' = Append(wal, ToRecord(writer', TRUE, "dirty")) /\ faults' = faults
       \/ /\ faults < MaxFaults
          /\ faults' = faults + 1
          /\ wal' = Append(wal, ToRecord(writer', FALSE, "dirty")) \/ wal' = wal
    /\ UNCHANGED <<handle, table, pos, txn, next_txn_id, crashes, checkpoints,
                   unlogged, allowed, reads>>

(* What fsync does to the records that no fsync has covered yet. *)
Flushed(disk) ==
    [i \in 1 .. Len(wal) |-> IF wal[i].disk = "dirty" THEN [wal[i] EXCEPT !.disk = disk] ELSE wal[i]]

(* fsync returns: everything is on the disk, or it failed, which the code   *)
(* does not look at, and what it should have written may never get there:   *)
(* a later fsync does not try those bytes again.                            *)
SyncLog ==
    /\ writer.stage = "written"
    /\ \/ wal' = Flushed("stable") /\ faults' = faults
       \/ wal' = Flushed("failed") /\ faults < MaxFaults /\ faults' = faults + 1
    /\ writer' = [writer EXCEPT !.stage = "applying"]
    /\ UNCHANGED <<handle, table, pos, txn, next_txn_id, crashes, checkpoints, unlogged, allowed, reads>>

(* The log reproduces the writer's effect, after whatever crash: its record *)
(* is the last one, and all up to it are whole and on the disk.             *)
WriterIsLogged ==
    /\ wal # <<>>
    /\ wal[Len(wal)] = ToRecord(writer, TRUE, "stable")
    /\ \A i \in 1 .. Len(wal) : wal[i].whole /\ wal[i].disk = "stable"

ApplyPutOnly ==
    /\ writer.stage = "applying"
    /\ table' = IF writer.type = "PUT" THEN Stored(table, writer.key, writer.value) ELSE table
    /\ unlogged' = IF WriterIsLogged THEN unlogged \ {writer.key}
                   ELSE unlogged \cup {writer.key}
    /\ allowed' = [allowed EXCEPT ![writer.key] = {writer.value}]
    /\ writer' = Idle
    /\ UNCHANGED <<handle, wal, pos, txn, next_txn_id, bounds, reads>>

ApplyWithoutUnlock ==
    /\ writer.stage = "applying"
    /\ table' = Stored(table, writer.key, writer.value)
    /\ unlogged' = IF WriterIsLogged THEN unlogged \ {writer.key}
                   ELSE unlogged \cup {writer.key}
    /\ allowed' = [allowed EXCEPT ![writer.key] = {writer.value}]
    /\ writer' = [writer EXCEPT !.stage = "applied"]
    /\ UNCHANGED <<handle, wal, pos, txn, next_txn_id, bounds, reads>>

(* The hash table is updated, the lock released, the caller told. *)
Apply ==
    /\ writer.stage = "applying"
    /\ table' = Stored(table, writer.key, writer.value)
    /\ unlogged' = IF WriterIsLogged THEN unlogged \ {writer.key}
                   ELSE unlogged \cup {writer.key}
    /\ allowed' = [allowed EXCEPT ![writer.key] = {writer.value}]
    /\ writer' = Idle
    /\ UNCHANGED <<handle, wal, pos, txn, next_txn_id, bounds, reads>>

(* On a handle that is not open there is no log: only the table changes,    *)
(* and nobody expects the write to last.                                    *)
WriteUnopened(k, v) ==
    /\ handle = "created"
    /\ table' = Stored(table, k, v)
    /\ unlogged' = unlogged \cup {k}
    /\ allowed' = [allowed EXCEPT ![k] = @ \cup {v}]
    /\ UNCHANGED <<handle, wal, pos, writer, txn, next_txn_id, bounds, reads>>

-----------------------------------------------------------------------------
(* Transactions. *)

(* database_begin_transaction *)
Begin(x, level) ==
    /\ handle \in {"created", "open"}
    /\ NoCallUnderWay
    /\ ~ txn[x].live
    /\ next_txn_id <= MaxBegins
    /\ txn' = [txn EXCEPT ![x] = [live |-> TRUE, level |-> level, writes |-> EmptyTable]]
    /\ next_txn_id' = next_txn_id + 1
    /\ reads' = [reads EXCEPT ![x] = [k \in Keys |-> {}]]
    /\ UNCHANGED <<handle, table, wal, pos, writer, bounds, unlogged, allowed>>

(* transaction_put, and transaction_delete, which forgets a buffered write  *)
(* and leaves the stored entry alone.                                       *)
Buffer(x, k, v) ==
    /\ txn[x].live
    /\ handle # "recovering"
    /\ txn' = [txn EXCEPT ![x].writes = Stored(@, k, v)]
    /\ UNCHANGED <<handle, table, wal, pos, writer, next_txn_id, bounds, unlogged, allowed, reads>>

(* transaction_get of a key the transaction has not written: the table, *)
(* whatever the isolation level.                                        *)
TxnGet(x, k) ==
    /\ txn[x].live
    /\ handle # "recovering"
    /\ NoCallUnderWay
    /\ txn[x].writes[k] = None
    /\ reads' = [reads EXCEPT ![x][k] = @ \cup {table[k]}]
    /\ UNCHANGED <<handle, table, wal, pos, writer, txn, next_txn_id, bounds, unlogged, allowed>>

Written(x) == {k \in Keys : txn[x].writes[k] # None}

(* transaction_commit: the buffered writes go to the table under the write *)
(* lock, and nothing goes to the log.  On a handle that is not open nobody *)
(* expects them to last.                                                   *)
Commit(x) ==
    /\ txn[x].live
    /\ handle # "recovering"
    /\ NoCallUnderWay
    /\ table' = [k \in Keys |-> IF k \in Written(x) THEN txn[x].writes[k] ELSE table[k]]
    /\ unlogged' = unlogged \cup Written(x)
    /\ allowed' = [k \in Keys |->
                     IF k \in Written(x)
                     THEN {txn[x].writes[k]} \cup IF handle = "open" THEN {} ELSE allowed[k]
                     ELSE allowed[k]]
    /\ txn' = [txn EXCEPT ![x] = NoTxn]
    /\ UNCHANGED <<handle, wal, pos, writer, next_txn_id, bounds, reads>>

(* transaction_rollback *)
Rollback(x) ==
    /\ txn[x].live
    /\ handle # "recovering"
    /\ txn' = [txn EXCEPT ![x] = NoTxn]
    /\ UNCHANGED <<handle, table, wal, pos, writer, next_txn_id, bounds, unlogged, allowed, reads>>

-----------------------------------------------------------------------------
Unstable == {i \in 1 .. Len(wal) : wal[i].disk # "stable"}

(* What is left of the log when the machine dies: n records, which are on   *)
(* the disk now.  The others were not stable; neither were those that it    *)
(* tore, of which a part is there.                                          *)
Remains(n, torn) ==
    [i \in 1 .. n |-> [wal[i] EXCEPT !.disk = "stable", !.whole = @ /\ i \notin torn]]

(* What the log may look like after a crash of the process, or of the       *)
(* machine.                                                                 *)
LogAfterCrash ==
    \/ wal' = wal /\ faults' = faults
    \/ \E n \in 0 .. Len(wal), torn \in SUBSET Unstable :
          /\ n + 1 .. Len(wal) \subseteq Unstable
          /\ wal' = Remains(n, torn)
          /\ \/ torn = {} /\ faults' = faults
             \/ torn # {} /\ faults < MaxFaults /\ faults' = faults + 1

(* The process dies: memory is lost, the disk stays.  A write under way was *)
(* not acknowledged, so both outcomes are right for it.                     *)
Crash ==
    /\ handle # "none"
    /\ crashes < MaxCrashes
    /\ crashes' = crashes + 1
    /\ LogAfterCrash
    /\ handle' = "none"
    /\ table' = EmptyTable
    /\ allowed' = IF writer = Idle THEN allowed
                  ELSE [allowed EXCEPT ![writer.key] = @ \cup {writer.value}]
    /\ writer' = Idle
    /\ txn' = [x \in Txns |-> NoTxn]
    /\ UNCHANGED <<pos, next_txn_id, checkpoints, unlogged, reads>>

Next ==
    \/ Create \/ OpenBegin \/ RecoverRecord \/ RecoverCutRecord \/ OpenEnd
    \/ Checkpoint \/ Close \/ Destroy
    \/ \E k \in Keys, v \in Values : WriteLog("PUT", k, v)
    \/ \E k \in Keys : WriteLog("DELETE", k, None)
    \/ SyncLog
    \/ Apply
    \/ \E k \in Keys, v \in Values \cup {None} : WriteUnopened(k, v)
    \/ \E x \in Txns :
          \/ \E level \in Levels : Begin(x, level)
          \/ \E k \in Keys : TxnGet(x, k) \/ \E v \in Values \cup {None} : Buffer(x, k, v)
          \/ Commit(x)
          \/ Rollback(x)
    \/ Crash

Spec == Init /\ [][Next]_vars

-----------------------------------------------------------------------------
(* Properties. *)

(* The records that count: the whole ones before the first cut one, and     *)
(* during recovery only those already replayed.                             *)
Replayed ==
    IF handle \in {"open", "recovering"}
    THEN {i \in 1 .. Len(wal) : Readable(i) /\ (handle = "recovering" => i <= pos)}
    ELSE {}

(* The entry under k is what replaying those records leaves there. *)
Restorable(k) ==
    \/ /\ \A i \in Replayed : wal[i].key # k
       /\ table[k] = None
    \/ \E i \in Replayed :
          /\ wal[i].key = k
          /\ \A j \in Replayed : j > i => wal[j].key # k
          /\ table[k] = wal[i].value

InFlight == IF writer = Idle THEN {} ELSE {writer.key}

(* The log is written ahead and replayed in order: apart from the entries   *)
(* that a commit, a checkpoint, a bad write or a failed fsync left out of   *)
(* it, and those that replaying a cut record hit, every entry of the table  *)
(* is the one database_recover would restore, at every moment of every      *)
(* interleaving of puts, deletes, checkpoints and crashes, crashes during   *)
(* recovery included.                                                       *)
LogRestoresTable == \A k \in Keys \ (unlogged \cup InFlight) : Restorable(k)

(* What a reader finds: each key holds the last acknowledged write, or an   *)
(* unacknowledged one that a crash interrupted.                             *)
Durable(k) == table[k] \in allowed[k]

(* Durability of what is logged: whenever the database is open and no write *)
(* is under way, every key whose last acknowledged write reached the disk,  *)
(* behind records that did, reads as written, however many crashes of the   *)
(* process or of the machine, also during recovery, came in between.  Not   *)
(* so the keys that a commit wrote, that a checkpoint or close took out of  *)
(* the log, whose own record or an earlier one was cut or not synced, or    *)
(* that the replay of a cut record happened to hit.                         *)
DurableIfLogged ==
    handle = "open" /\ writer = Idle => \A k \in Keys \ unlogged : Durable(k)

(* Durability as documented: every acknowledged write, committed or put,    *)
(* before or after a checkpoint.                                            *)
DurableWrites == handle = "open" /\ writer = Idle => \A k \in Keys : Durable(k)

(* Repeatable reads: a transaction that asked for it gets one result for a  *)
(* key it reads again.                                                      *)
RepeatableReads ==
    \A x \in Txns, k \in Keys :
        txn[x].live /\ txn[x].level \in {"REPEATABLE_READ", "SERIALIZABLE"}
        => \A a, b \in reads[x][k] : a = b
=============================================================================
